------------------------------ MODULE MCHidPath ------------------------------
(* Instances of HidPath for TLC. *)
EXTENDS HidPath

\* Combinations with a modifier: one key is the user's, the other the text's.
TwoCombos == {{"ctrl", "x"}, {"ctrl", "l"}}

\* A double letter: the hard case for a text.
Double == <<"l", "l">>

\* What a user does at a time, with gadgets, without a keyboard, over ch9329
\* and over ch9329 with a port that cannot be opened.
SmallSetups ==
    [mode : {"gadget"}, opened : {Gadget},
     uses : {{"ctrl", "l", "x"}, {"ctrl", "x", "combo"},
             {"x", "text"}, {"combo", "text"}, {"mouse"}}]
    \cup [mode : {"gadget"}, opened : {{"mouse"}}, uses : {{"combo", "control"}, {"mouse"}}]
    \cup [mode : {"ch9329"}, opened : {Gadget}, uses : {{"mouse"}}]
    \cup [mode : {"ch9329"}, opened : {{}}, uses : {{"combo", "control"}}]

=============================================================================
