---------------------------- MODULE HidPathProofs ----------------------------
(***************************************************************************)
(* Theorems about HidPath, for every number of keys, buttons, places and   *)
(* settings, every text and every capacity of the two queues: what the     *)
(* page holds, where it put the pointer and what it typed is what the      *)
(* controlled machine sees, once what was sent has arrived.                *)
(*                                                                         *)
(* The frames under way form one sequence, Way: what the hid thread has    *)
(* still to take, what the loop waits to hand over, what is on the wire.   *)
(* The newest frame of a kind in it, or the machine if there is none, is   *)
(* right; for the text every frame counts, and the machine's keyboard is   *)
(* followed through the whole of Way.                                      *)
(***************************************************************************)
EXTENDS HidPath, SequenceTheorems, FiniteSetTheorems, WellFoundedInduction,
        TLAPS

(***************************************************************************)
(* The inductive invariant                                                 *)
(***************************************************************************)

Held == IF holding = None THEN <<>> ELSE <<holding>>

\* Every frame between the page and the hid thread, the oldest first.
Way == queue \o Held \o wire

\* The newest frame of K in w, if there is one, is in G.
Newest(w, K, G) ==
    \A i \in 1..Len(w) :
        (w[i] \in K /\ \A j \in 1..Len(w) : j > i => w[j] \notin K) => w[i] \in G

\* No frame of K is in w.
Silent(w, K) == \A i \in 1..Len(w) : w[i] \notin K

Kbds == [kind : {"kbd"}, down : SUBSET Usage]
Moves == [kind : {"move"}, buttons : SUBSET Button, place : Place]
Clicks == [kind : {"btn"}, buttons : SUBSET Button]
Mice == Moves \cup Clicks

KbdsWith(set) == [kind : {"kbd"}, down : SUBSET set]
MiceWith(set) == [kind : {"move"}, buttons : {set}, place : Place]
                 \cup [kind : {"btn"}, buttons : {set}]
MovesTo(p) == [kind : {"move"}, buttons : SUBSET Button, place : {p}]

\* The machine gets what the page sends, or will once it is polled again.
Reaches == dc /\ sess /\ host # "off"

\* A machine sleeps only behind gadgets; without a session nothing is fresh;
\* without a keyboard nothing is down; a thread that does not run was never
\* handed a frame.
HostInv ==
    /\ host = "asleep" => mode = "gadget"
    /\ ~sess => fresh = {}
    /\ "kbd" \notin opened => down = {}
    /\ ~Runs => opened = {} /\ queue = <<>> /\ holding = None

\* The newest keyboard report, or the machine, shows no key the page does not
\* hold, unless a timer has still to release some.
KbdInv ==
    Reaches /\ "kbd" \in fresh /\ combos = 0 /\ ~lift =>
        /\ Newest(Way, Kbds, KbdsWith(modifier \cup Range(keys)))
        /\ Silent(Way, Kbds) => down \subseteq modifier \cup Range(keys)

\* The newest mouse report, or the machine, has the buttons of the page.
MouseInv ==
    Reaches /\ "mouse" \in fresh /\ "mouse" \in opened =>
        /\ Newest(Way, Mice, MiceWith(buttons))
        /\ Silent(Way, Mice) =>
               /\ pointer.buttons \subseteq buttons
               /\ mode = "gadget" => pointer.buttons = buttons /\ last.buttons = buttons

\* The newest movement, or the machine and the hid thread, has the place.
PlaceInv ==
    Reaches /\ "place" \in fresh /\ "mouse" \in opened =>
        /\ Newest(Way, Moves, MovesTo(place))
        /\ Silent(Way, Moves) => pointer.place = place /\ last.place = place

\* What a frame f does to a machine that has seen c characters and whose
\* keyboard shows a character (u = 1) or none.
Shows(f, c, u, c2, u2) ==
    \/ f \in Kbds /\ c < Len(Text) /\ f.down = {Text[c + 1]}
       /\ u = 0 /\ u2 = 1 /\ c2 = c + 1
    \/ f \in Kbds /\ f.down \cap Char = {} /\ u2 = 0 /\ c2 = c
    \/ f \notin Kbds /\ u2 = u /\ c2 = c

\* The frames of w take the machine from c0 and u0 to c1 and u1.
Leads(w, c0, u0, c1, u1) ==
    \E cnt \in [0..Len(w) -> 0..Len(Text)], up \in [0..Len(w) -> {0, 1}] :
        /\ cnt[0] = c0 /\ up[0] = u0 /\ cnt[Len(w)] = c1 /\ up[Len(w)] = u1
        /\ \A i \in 1..Len(w) : Shows(w[i], cnt[i - 1], up[i - 1], cnt[i], up[i])

\* No frame of w shows a character.
NoCharIn(w) == \A i \in 1..Len(w) : w[i] \in Kbds => w[i].down \cap Char = {}

CharDown == IF down \cap Char = {} THEN 0 ELSE 1

\* Before typeText nothing is typed.  Afterwards, while no frame was lost and
\* none of the user's showed a key of the text, those under way lead from what
\* has been seen to what has been typed, and the last of them shows a character
\* only if its timer still runs.
TextInv ==
    /\ typing = "idle" => typed = 0 /\ ~lift /\ strokes = <<>> /\ ~whole
    /\ whole =>
           /\ Reaches /\ "kbd" \in opened
           /\ typing = "done" => typed = Len(Text)
           /\ Len(strokes) <= Len(Text) /\ strokes = SubSeq(Text, 1, Len(strokes))
           /\ \E u \in {0, 1} : /\ Leads(Way, Len(strokes), CharDown, typed, u)
                                /\ ~lift => u = 0

Inv == TypeOK /\ HostInv /\ KbdInv /\ MouseInv /\ PlaceInv /\ TextInv

(***************************************************************************)
(* Lemmas about sets, sequences and the operators above                    *)
(***************************************************************************)

\* The least of a set of numbers is one of them and below the others.
LEMMA MinIsLeast ==
    ASSUME NEW S \in SUBSET Nat, S # {}
    PROVE  Min(S) \in S /\ \A y \in S : Min(S) <= y
<1>1. PICK x \in S : \A y \in S : ~(<<y, x>> \in OpToRel(<, Nat))
  BY WFMin, NatLessThanWellFounded
<1>2. ASSUME NEW y \in S PROVE x <= y
  <2>1. y \in Nat /\ x \in Nat OBVIOUS
  <2>2. y < x => <<y, x>> \in OpToRel(<, Nat) BY <2>1 DEF OpToRel
  <2>3. ~(y < x) BY <2>2, <1>1, Zenon
  <2> QED BY <2>1, <2>3
<1> QED BY <1>2 DEF Min

\* A sequence without one of its elements is one, and as free of duplicates.
LEMMA RemoveAtKeeps ==
    ASSUME NEW K, NEW s \in Seq(K), NEW i \in 1..Len(s), IsInjective(s)
    PROVE  RemoveAt(s, i) \in Seq(K) /\ IsInjective(RemoveAt(s, i))
<1> DEFINE t == RemoveAt(s, i)
           l == SubSeq(s, 1, i - 1)
           r == SubSeq(s, i + 1, Len(s))
<1>1. /\ l \in Seq(K) /\ Len(l) = i - 1 /\ \A j \in 1..(i - 1) : l[j] = s[j]
      /\ r \in Seq(K) /\ Len(r) = Len(s) - i
      /\ \A j \in 1..(Len(s) - i) : r[j] = s[j + i]
  OBVIOUS
<1>2. t = l \o r BY DEF RemoveAt
<1>3. \A a, b \in 1..Len(s) : s[a] = s[b] => a = b BY DEF IsInjective
<1> HIDE DEF l, r, t
<1>4. t \in Seq(K) /\ Len(t) = Len(s) - 1 BY <1>1, <1>2
<1>5. ASSUME NEW j \in 1..Len(t), j < i PROVE t[j] = s[j]
  <2>1. t[j] = l[j] BY <1>4, <1>5, <1>1, <1>2
  <2> QED BY <2>1, <1>5, <1>1, <1>4
<1>6. ASSUME NEW j \in 1..Len(t), ~(j < i) PROVE t[j] = s[j + 1]
  <2>1. t[j] = r[j - (i - 1)] BY <1>4, <1>6, <1>1, <1>2
  <2> QED BY <2>1, <1>6, <1>1, <1>4
<1>7. ASSUME NEW a \in 1..Len(t), NEW b \in 1..Len(t), t[a] = t[b]
      PROVE  a = b
  <2>1. CASE a < i /\ b < i BY <2>1, <1>4, <1>5, <1>3, <1>7
  <2>2. CASE a < i /\ ~(b < i) BY <2>2, <1>4, <1>5, <1>6, <1>3, <1>7
  <2>3. CASE ~(a < i) /\ b < i BY <2>3, <1>4, <1>5, <1>6, <1>3, <1>7
  <2>4. CASE ~(a < i) /\ ~(b < i) BY <2>4, <1>4, <1>6, <1>3, <1>7
  <2> QED BY <2>1, <2>2, <2>3, <2>4
<1>8. IsInjective(t) BY <1>4, <1>7 DEF IsInjective
<1> QED BY <1>4, <1>8 DEF t

\* So is what onKeyUp leaves of the keys.
LEMMA RemoveFirstKeeps ==
    ASSUME NEW K, NEW s \in Seq(K), NEW e, IsInjective(s)
    PROVE  RemoveFirst(s, e) \in Seq(K) /\ IsInjective(RemoveFirst(s, e))
<1> DEFINE I == {i \in 1..Len(s) : s[i] = e}
<1>1. CASE I = {}
  <2>1. RemoveFirst(s, e) = s BY <1>1 DEF RemoveFirst
  <2> QED BY <2>1
<1>2. CASE I # {}
  <2>1. I \in SUBSET Nat /\ \A i \in I : i \in 1..Len(s) OBVIOUS
  <2>2. RemoveFirst(s, e) = RemoveAt(s, Min(I))
    <3>1. \E i \in 1..Len(s) : s[i] = e BY <1>2
    <3>2. RemoveFirst(s, e) = RemoveAt(s, SelectInSeq(s, LAMBDA v : v = e))
      BY <3>1 DEF RemoveFirst
    <3>3. SelectInSeq(s, LAMBDA v : v = e) = Min(I) BY <1>2 DEF SelectInSeq
    <3> QED BY <3>2, <3>3
  <2> HIDE DEF I
  <2>3. Min(I) \in I BY <2>1, <1>2, MinIsLeast
  <2>4. PICK i : i = Min(I) OBVIOUS
  <2>5. i \in 1..Len(s) /\ RemoveFirst(s, e) = RemoveAt(s, i)
    BY <2>1, <2>2, <2>3, <2>4
  <2> QED BY <2>5, RemoveAtKeeps
<1> QED BY <1>1, <1>2

\* So are the keys with one that was not among them.
LEMMA AppendKeeps ==
    ASSUME NEW K, NEW s \in Seq(K), NEW e \in K, IsInjective(s),
           e \notin Range(s)
    PROVE  Append(s, e) \in Seq(K) /\ IsInjective(Append(s, e))
<1> DEFINE t == Append(s, e)
<1>1. t \in Seq(K) /\ Len(t) = Len(s) + 1 /\ t[Len(s) + 1] = e
      /\ \A j \in 1..Len(s) : t[j] = s[j]
  OBVIOUS
<1>2. \A a, b \in 1..Len(s) : s[a] = s[b] => a = b BY DEF IsInjective
<1>3. \A a \in 1..Len(s) : s[a] # e BY DEF Range
<1> HIDE DEF t
<1>4. ASSUME NEW a \in 1..Len(t), NEW b \in 1..Len(t), t[a] = t[b]
      PROVE  a = b
  <2>1. CASE a = Len(t) BY <2>1, <1>1, <1>3, <1>4
  <2>2. CASE b = Len(t) BY <2>2, <1>1, <1>3, <1>4
  <2>3. CASE a # Len(t) /\ b # Len(t)
    <3>1. a \in 1..Len(s) /\ b \in 1..Len(s) BY <2>3, <1>1
    <3> QED BY <3>1, <1>1, <1>2, <1>4
  <2> QED BY <2>1, <2>2, <2>3
<1>5. IsInjective(t) BY <1>1, <1>4 DEF IsInjective
<1> QED BY <1>1, <1>5 DEF t

\* A sequence followed by nothing, and by one element, for any frames.
LEMMA Follow ==
    ASSUME NEW K, NEW s \in Seq(K), NEW t \in Seq(K), NEW e \in K
    PROVE  /\ s \o t \in Seq(K) /\ s \o <<>> = s /\ <<>> \o s = s
           /\ s \o <<e>> = Append(s, e) /\ s \o Append(t, e) = Append(s \o t, e)
<1>1. s \o t \in Seq(K) /\ Append(t, e) \in Seq(K) OBVIOUS
<1>2. s \o Append(t, e) = Append(s \o t, e)
  <2>1. Len(s \o Append(t, e)) = Len(Append(s \o t, e)) OBVIOUS
  <2>2. ASSUME NEW i \in 1..Len(s \o Append(t, e))
        PROVE  (s \o Append(t, e))[i] = Append(s \o t, e)[i]
    OBVIOUS
  <2>3. s \o Append(t, e) \in Seq(K) /\ Append(s \o t, e) \in Seq(K) OBVIOUS
  <2> QED BY <2>1, <2>2, <2>3, SeqEqual
<1> QED BY <1>1, <1>2

\* A frame of K that is in G and comes last is the newest and breaks the
\* silence; a frame of another kind changes nothing.
LEMMA NewestAppend ==
    ASSUME NEW S, NEW w \in Seq(S), NEW f \in S, NEW K, NEW G
    PROVE  /\ f \in K /\ f \in G =>
                  Newest(Append(w, f), K, G) /\ ~Silent(Append(w, f), K)
           /\ f \notin K => /\ Newest(w, K, G) => Newest(Append(w, f), K, G)
                            /\ Silent(Append(w, f), K) => Silent(w, K)
<1> DEFINE v == Append(w, f)
<1>1. v \in Seq(S) /\ Len(v) = Len(w) + 1 /\ v[Len(v)] = f
      /\ \A i \in 1..Len(w) : v[i] = w[i]
  OBVIOUS
<1> HIDE DEF v
<1>2. ASSUME f \in K, f \in G
      PROVE  Newest(v, K, G) /\ ~Silent(v, K)
  <2>1. ~Silent(v, K) BY <1>1, <1>2 DEF Silent
  <2>2. ASSUME NEW i \in 1..Len(v), v[i] \in K,
               \A j \in 1..Len(v) : j > i => v[j] \notin K
        PROVE  v[i] \in G
    <3>1. ~(Len(v) > i) BY <2>2, <1>1, <1>2
    <3> QED BY <3>1, <1>1, <1>2
  <2> QED BY <2>1, <2>2 DEF Newest
<1>3. ASSUME f \notin K, Newest(w, K, G)
      PROVE  Newest(v, K, G)
  <2>1. ASSUME NEW i \in 1..Len(v), v[i] \in K,
               \A j \in 1..Len(v) : j > i => v[j] \notin K
        PROVE  v[i] \in G
    <3>1. i # Len(v) BY <2>1, <1>1, <1>3
    <3>2. i \in 1..Len(w) /\ w[i] \in K BY <3>1, <2>1, <1>1
    <3>3. \A j \in 1..Len(w) : j > i => w[j] \notin K BY <2>1, <1>1
    <3> QED BY <3>2, <3>3, <1>1, <1>3 DEF Newest
  <2> QED BY <2>1 DEF Newest
<1>4. Silent(v, K) => Silent(w, K) BY <1>1 DEF Silent
<1> QED BY <1>2, <1>3, <1>4 DEF v

\* Taking the oldest frame leaves the newest; if it was the only one of K,
\* silence follows it.
LEMMA NewestTail ==
    ASSUME NEW S, NEW w \in Seq(S), w # <<>>, NEW K, NEW G, Newest(w, K, G)
    PROVE  /\ Newest(Tail(w), K, G)
           /\ Silent(Tail(w), K) => \/ Head(w) \in K /\ Head(w) \in G
                                    \/ Head(w) \notin K /\ Silent(w, K)
<1> DEFINE v == Tail(w)
<1>1. v \in Seq(S) /\ Len(w) = Len(v) + 1 /\ w[1] = Head(w)
      /\ \A i \in 1..Len(v) : v[i] = w[i + 1]
  OBVIOUS
<1>2. \A i \in 1..Len(w) : i # 1 => i - 1 \in 1..Len(v) /\ w[i] = v[i - 1]
  BY <1>1
<1> HIDE DEF v
<1>3. Newest(v, K, G)
  <2>1. ASSUME NEW i \in 1..Len(v), v[i] \in K,
               \A j \in 1..Len(v) : j > i => v[j] \notin K
        PROVE  v[i] \in G
    <3>1. i + 1 \in 1..Len(w) /\ w[i + 1] \in K BY <2>1, <1>1
    <3>2. ASSUME NEW j \in 1..Len(w), j > i + 1 PROVE w[j] \notin K
      <4>1. j - 1 \in 1..Len(v) /\ w[j] = v[j - 1] /\ j - 1 > i BY <3>2, <1>2
      <4> QED BY <4>1, <2>1
    <3>3. w[i + 1] \in G BY <3>1, <3>2 DEF Newest
    <3> QED BY <3>3, <1>1
  <2> QED BY <2>1 DEF Newest
<1>4. ASSUME Silent(v, K)
      PROVE  \A j \in 1..Len(w) : j > 1 => w[j] \notin K
  BY <1>2, <1>4 DEF Silent
<1>5. 1 \in 1..Len(w) BY <1>1
<1>6. ASSUME Silent(v, K), w[1] \in K PROVE w[1] \in G
  BY <1>4, <1>5, <1>6 DEF Newest
<1>7. ASSUME Silent(v, K), w[1] \notin K PROVE Silent(w, K)
  <2>1. ASSUME NEW i \in 1..Len(w) PROVE w[i] \notin K
    <3>1. i = 1 \/ i > 1 OBVIOUS
    <3> QED BY <3>1, <1>4, <1>7
  <2> QED BY <2>1 DEF Silent
<1> QED BY <1>1, <1>3, <1>6, <1>7 DEF v

\* The text is made of its characters, which are keys.
LEMMA TextChars == Text \in Seq(Char) /\ Char \subseteq Key
<1>1. Text \in Seq(Key) BY HidAssumption
<1>2. ASSUME NEW i \in 1..Len(Text) PROVE Text[i] \in Char /\ Text[i] \in Key
  BY <1>1 DEF Char, Range
<1>3. Text \in [1..Len(Text) -> Char] /\ Len(Text) \in Nat
  <2>1. Len(Text) \in Nat /\ DOMAIN Text = 1..Len(Text)
        /\ Text = [i \in 1..Len(Text) |-> Text[i]]
    BY <1>1
  <2> QED BY <2>1, <1>2
<1>4. Text \in Seq(Char) BY <1>3
<1>5. Char \subseteq Key BY <1>1, <1>2 DEF Char, Range
<1> QED BY <1>4, <1>5

\* What leads somewhere leads on by what one more frame does.
LEMMA LeadsAppend ==
    ASSUME NEW S, NEW w \in Seq(S), NEW f \in S,
           NEW c0, NEW u0, NEW c1, NEW u1,
           NEW c2 \in 0..Len(Text), NEW u2 \in {0, 1},
           Leads(w, c0, u0, c1, u1), Shows(f, c1, u1, c2, u2)
    PROVE  Leads(Append(w, f), c0, u0, c2, u2)
<1> DEFINE v == Append(w, f)
           n == Len(w)
<1>1. v \in Seq(S) /\ Len(v) = n + 1 /\ v[n + 1] = f /\ n \in Nat
      /\ \A i \in 1..n : v[i] = w[i]
  OBVIOUS
<1>2. PICK cnt \in [0..n -> 0..Len(Text)], up \in [0..n -> {0, 1}] :
          /\ cnt[0] = c0 /\ up[0] = u0 /\ cnt[n] = c1 /\ up[n] = u1
          /\ \A i \in 1..n : Shows(w[i], cnt[i - 1], up[i - 1], cnt[i], up[i])
  BY DEF Leads
<1> DEFINE cnt2 == [i \in 0..(n + 1) |-> IF i <= n THEN cnt[i] ELSE c2]
           up2 == [i \in 0..(n + 1) |-> IF i <= n THEN up[i] ELSE u2]
<1>3. /\ cnt2 \in [0..(n + 1) -> 0..Len(Text)] /\ up2 \in [0..(n + 1) -> {0, 1}]
      /\ cnt2[n + 1] = c2 /\ up2[n + 1] = u2
      /\ \A i \in 0..n : cnt2[i] = cnt[i] /\ up2[i] = up[i]
  BY <1>1, <1>2
<1> HIDE DEF cnt2, up2, v, n
<1>4. ASSUME NEW i \in 1..(n + 1)
      PROVE  Shows(v[i], cnt2[i - 1], up2[i - 1], cnt2[i], up2[i])
  <2>1. CASE i = n + 1
    <3>1. i - 1 = n /\ n \in 0..n BY <2>1, <1>1
    <3>2. cnt2[i - 1] = c1 /\ up2[i - 1] = u1 /\ cnt2[i] = c2 /\ up2[i] = u2 /\ v[i] = f
      BY <3>1, <2>1, <1>1, <1>2, <1>3
    <3> QED BY <3>2
  <2>2. CASE i # n + 1
    <3>1. i \in 1..n /\ i \in 0..n /\ i - 1 \in 0..n BY <2>2, <1>1
    <3>2. /\ cnt2[i - 1] = cnt[i - 1] /\ up2[i - 1] = up[i - 1]
          /\ cnt2[i] = cnt[i] /\ up2[i] = up[i] /\ v[i] = w[i]
      BY <3>1, <1>1, <1>3
    <3>3. Shows(w[i], cnt[i - 1], up[i - 1], cnt[i], up[i]) BY <3>1, <1>2
    <3> QED BY <3>2, <3>3
  <2> QED BY <2>1, <2>2
<1>5. 0 \in 0..n BY <1>1
<1>6. cnt2[0] = c0 /\ up2[0] = u0 BY <1>5, <1>2, <1>3
<1> QED BY <1>1, <1>3, <1>4, <1>6 DEF Leads, v

\* Taking the oldest frame takes the machine to where that frame leads.
LEMMA LeadsTail ==
    ASSUME NEW S, NEW w \in Seq(S), w # <<>>,
           NEW c0, NEW u0, NEW c1, NEW u1, Leads(w, c0, u0, c1, u1)
    PROVE  \E c \in 0..Len(Text), u \in {0, 1} :
               Shows(Head(w), c0, u0, c, u) /\ Leads(Tail(w), c, u, c1, u1)
<1> DEFINE v == Tail(w)
           n == Len(v)
<1>1. v \in Seq(S) /\ Len(w) = n + 1 /\ w[1] = Head(w) /\ n \in Nat
      /\ \A i \in 1..n : v[i] = w[i + 1]
  OBVIOUS
<1> HIDE DEF v, n
<1>2. PICK cnt \in [0..(n + 1) -> 0..Len(Text)], up \in [0..(n + 1) -> {0, 1}] :
          /\ cnt[0] = c0 /\ up[0] = u0 /\ cnt[n + 1] = c1 /\ up[n + 1] = u1
          /\ \A i \in 1..(n + 1) : Shows(w[i], cnt[i - 1], up[i - 1], cnt[i], up[i])
  BY <1>1 DEF Leads
<1> DEFINE cnt2 == [i \in 0..n |-> cnt[i + 1]]
           up2 == [i \in 0..n |-> up[i + 1]]
<1>3. /\ cnt2 \in [0..n -> 0..Len(Text)] /\ up2 \in [0..n -> {0, 1}]
      /\ \A i \in 0..n : cnt2[i] = cnt[i + 1] /\ up2[i] = up[i + 1]
  BY <1>1, <1>2
<1> HIDE DEF cnt2, up2
<1>4. ASSUME NEW i \in 1..n
      PROVE  Shows(v[i], cnt2[i - 1], up2[i - 1], cnt2[i], up2[i])
  <2>1. i \in 0..n /\ i - 1 \in 0..n /\ i + 1 \in 1..(n + 1) /\ (i - 1) + 1 = i
        /\ (i + 1) - 1 = i
    BY <1>1
  <2>2. Shows(w[i + 1], cnt[(i + 1) - 1], up[(i + 1) - 1], cnt[i + 1], up[i + 1])
    BY <2>1, <1>2
  <2>3. /\ cnt2[i - 1] = cnt[i] /\ up2[i - 1] = up[i]
        /\ cnt2[i] = cnt[i + 1] /\ up2[i] = up[i + 1] /\ v[i] = w[i + 1]
    BY <2>1, <1>1, <1>3
  <2> QED BY <2>1, <2>2, <2>3
<1>5. 0 \in 0..n /\ n \in 0..n /\ 1 \in 1..(n + 1) /\ 1 \in 0..(n + 1) /\ 0 + 1 = 1 /\ 1 - 1 = 0
  BY <1>1
<1>6. /\ cnt2[0] = cnt[1] /\ up2[0] = up[1] /\ cnt2[n] = c1 /\ up2[n] = u1
      /\ cnt[1] \in 0..Len(Text) /\ up[1] \in {0, 1}
  BY <1>5, <1>2, <1>3
<1>7. Leads(v, cnt[1], up[1], c1, u1) BY <1>3, <1>4, <1>6 DEF Leads, n
<1>8. Shows(w[1], c0, u0, cnt[1], up[1])
  <2>1. Shows(w[1], cnt[1 - 1], up[1 - 1], cnt[1], up[1]) BY <1>5, <1>2
  <2> QED BY <2>1, <1>2, <1>5
<1> QED BY <1>1, <1>6, <1>7, <1>8 DEF v

\* Nothing leads nowhere.
LEMMA LeadsNothing ==
    ASSUME NEW c0, NEW u0, NEW c1, NEW u1, Leads(<<>>, c0, u0, c1, u1)
    PROVE  c0 = c1 /\ u0 = u1
<1>1. Len(<<>>) = 0 OBVIOUS
<1> QED BY <1>1 DEF Leads

\* Frames that show no character leave a machine that has seen none so.
LEMMA LeadsFromIdle ==
    ASSUME NEW S, NEW w \in Seq(S), NoCharIn(w)
    PROVE  Leads(w, 0, 0, 0, 0)
<1> DEFINE n == Len(w)
           zero == [i \in 0..n |-> 0]
<1>1. n \in Nat /\ Len(Text) \in Nat BY HidAssumption
<1>2. zero \in [0..n -> 0..Len(Text)] /\ zero \in [0..n -> {0, 1}]
      /\ \A i \in 0..n : zero[i] = 0
  BY <1>1
<1> HIDE DEF zero
<1>3. ASSUME NEW i \in 1..n PROVE Shows(w[i], zero[i - 1], zero[i - 1], zero[i], zero[i])
  <2>1. i \in 0..n /\ i - 1 \in 0..n BY <1>1
  <2>2. zero[i - 1] = 0 /\ zero[i] = 0 BY <2>1, <1>2
  <2>3. w[i] \in Kbds => w[i].down \cap Char = {} BY DEF NoCharIn
  <2> HIDE DEF n
  <2> QED BY <2>2, <2>3 DEF Shows
<1>4. 0 \in 0..n /\ n \in 0..n BY <1>1
<1> QED BY <1>2, <1>3, <1>4 DEF Leads

\* SetToSeq of no characters and of one.
LEMMA SetToSeqSmall ==
    ASSUME NEW e
    PROVE  SetToSeq({}) = <<>> /\ SetToSeq({e}) = <<e>>
<1>1. Cardinality({}) = 0 BY FS_EmptySet
<1>2. Cardinality({e}) = 1 BY FS_Singleton
<1>3. SetToSeq({}) = <<>>
  <2>1. 1..0 = {} /\ <<>> \in [1..0 -> {}] /\ \A h \in [1..0 -> {}] : h = <<>>
    OBVIOUS
  <2>2. IsInjective(<<>>) BY DEF IsInjective
  <2>3. SetToSeq({}) \in [1..0 -> {}] BY <2>1, <2>2, <1>1 DEF SetToSeq
  <2> QED BY <2>1, <2>3
<1>4. SetToSeq({e}) = <<e>>
  <2> DEFINE g == <<e>>
  <2>1. g \in [1..1 -> {e}] /\ IsInjective(g) BY DEF IsInjective
  <2>2. SetToSeq({e}) \in [1..1 -> {e}] BY <2>1, <1>2 DEF SetToSeq
  <2>3. \A h \in [1..1 -> {e}] : h = g OBVIOUS
  <2> QED BY <2>2, <2>3
<1> QED BY <1>3, <1>4

\* The frames the page sends are frames, and what they show.
LEMMA FramesSent ==
    /\ \A mods \in SUBSET Modifier, ks \in Seq(Key) :
           Keyboard(mods, ks) \in KbdsWith(mods \cup Range(ks))
    /\ \A set \in SUBSET Usage : Report(set) \in KbdsWith(set)
    /\ \A set : Release \in KbdsWith(set)
    /\ \A set \in SUBSET Button : Buttons(set) \in MiceWith(set) /\ Buttons(set) \in Clicks
<1>1. ASSUME NEW mods \in SUBSET Modifier, NEW ks \in Seq(Key)
      PROVE  Keyboard(mods, ks) \in KbdsWith(mods \cup Range(ks))
  <2> DEFINE m == Min({Len(ks), Rollover})
  <2>1. {Len(ks), Rollover} \in SUBSET Nat /\ {Len(ks), Rollover} # {} BY HidAssumption
  <2>2. m \in {Len(ks), Rollover} /\ m <= Len(ks) BY <2>1, MinIsLeast
  <2>3. m \in 0..Len(ks) BY <2>1, <2>2
  <2>4. PICK n : n = m OBVIOUS
  <2>5. Range(SubSeq(ks, 1, n)) \subseteq Range(ks) BY <2>3, <2>4 DEF Range
  <2> QED BY <2>4, <2>5 DEF Keyboard, KbdsWith
<1>2. \A set \in SUBSET Usage : Report(set) \in KbdsWith(set) BY DEF Report, KbdsWith
<1>3. \A set : Release \in KbdsWith(set) BY DEF Report, Release, KbdsWith
<1>4. \A set \in SUBSET Button : Buttons(set) \in MiceWith(set) /\ Buttons(set) \in Clicks
  BY DEF Buttons, MiceWith, Clicks
<1> QED BY <1>1, <1>2, <1>3, <1>4

(***************************************************************************)
(* What the steps do to Way                                                *)
(***************************************************************************)

\* Which frames tell about what.
LEMMA TellsWhat ==
    ASSUME NEW f \in Frame
    PROVE  /\ "kbd" \in Tells(f) <=> f \in Kbds
           /\ "mouse" \in Tells(f) <=> f \in Mice
           /\ "place" \in Tells(f) <=> f \in Moves
           /\ Tells(f) \subseteq {"kbd", "mouse", "place", "ctl"}
           /\ f \in Kbds <=> f.kind = "kbd"
           /\ f \in Moves <=> f.kind = "move"
           /\ f \in Clicks <=> f.kind = "btn"
           /\ f.kind = "ctl" => f.to \in Setting
           /\ f.kind \in {"kbd", "move", "btn", "wheel", "ctl"}
BY DEF Frame, Tells, Kbds, Mice, Moves, Clicks

\* Way is a sequence of frames.
LEMMA WayFrames ==
    ASSUME TypeOK
    PROVE  Held \in Seq(Frame) /\ Way \in Seq(Frame)
<1>1. holding # None => holding \in Frame BY DEF TypeOK
<1>2. <<>> \in Seq(Frame) OBVIOUS
<1>3. Held \in Seq(Frame) BY <1>1, <1>2 DEF Held
<1> QED BY <1>3 DEF Way, TypeOK

\* A frame that is sent is the last of Way, if it leaves the page at all.
LEMMA SendOne ==
    ASSUME TypeOK, NEW f \in Frame, SendHid(<<f>>), UNCHANGED <<holding, queue>>
    PROVE  /\ dc /\ sess => Way' = Append(Way, f) /\ fresh' = fresh \cup Tells(f)
           /\ ~(dc /\ sess) => Way' = Way /\ fresh' = fresh
           /\ wire' \in Seq(Frame)
<1>1. wire \in Seq(Frame) /\ queue \in Seq(Frame) /\ Held \in Seq(Frame)
  BY WayFrames DEF TypeOK
<1>2. Held' = Held BY DEF Held
<1>3. ASSUME dc /\ sess
      PROVE  wire' = Append(wire, f) /\ fresh' = fresh \cup Tells(f)
  <2>1. /\ wire' = wire \o <<f>>
        /\ fresh' = fresh \cup UNION {Tells((<<f>>)[i]) : i \in 1..Len(<<f>>)}
    BY <1>3 DEF SendHid
  <2>2. {Tells((<<f>>)[i]) : i \in 1..Len(<<f>>)} = {Tells(f)} OBVIOUS
  <2>3. wire \o <<f>> = Append(wire, f) BY <1>1
  <2> QED BY <2>1, <2>2, <2>3
<1>4. ASSUME ~(dc /\ sess) PROVE wire' = wire /\ fresh' = fresh
  BY <1>4 DEF SendHid
<1>5. (queue \o Held) \in Seq(Frame) BY <1>1
<1>6. (queue \o Held) \o Append(wire, f) = Append((queue \o Held) \o wire, f)
  BY <1>1, <1>5, Follow
<1>7. Way = (queue \o Held) \o wire /\ Way' = (queue \o Held) \o wire'
  BY <1>2 DEF Way
<1> HIDE DEF Way
<1>8. CASE dc /\ sess
  <2>0. wire' = Append(wire, f) BY <1>3, <1>8
  <2>1. wire' \in Seq(Frame) BY <1>1, <2>0
  <2> QED BY <1>3, <1>6, <1>7, <1>8, <2>1
<1>9. CASE ~(dc /\ sess)
  <2>1. wire' = wire /\ fresh' = fresh BY <1>4, <1>9
  <2>2. Way' = Way /\ wire' \in Seq(Frame) BY <1>1, <1>7, <2>1
  <2> QED BY <1>9, <2>1, <2>2
<1> QED BY <1>8, <1>9

\* So are the two frames of Escape.
LEMMA SendTwo ==
    ASSUME TypeOK, NEW f \in Frame, NEW g \in Frame, SendHid(<<f, g>>),
           UNCHANGED <<holding, queue>>
    PROVE  /\ dc /\ sess => /\ Way' = Append(Append(Way, f), g)
                            /\ fresh' = fresh \cup Tells(f) \cup Tells(g)
           /\ ~(dc /\ sess) => Way' = Way /\ fresh' = fresh
           /\ wire' \in Seq(Frame)
<1>1. wire \in Seq(Frame) /\ queue \in Seq(Frame) /\ Held \in Seq(Frame)
  BY WayFrames DEF TypeOK
<1>2. Held' = Held BY DEF Held
<1>3. ASSUME dc /\ sess
      PROVE  /\ wire' = Append(Append(wire, f), g)
             /\ fresh' = fresh \cup Tells(f) \cup Tells(g)
  <2>1. /\ wire' = wire \o <<f, g>>
        /\ fresh' = fresh \cup UNION {Tells((<<f, g>>)[i]) : i \in 1..Len(<<f, g>>)}
    BY <1>3 DEF SendHid
  <2>2. {Tells((<<f, g>>)[i]) : i \in 1..Len(<<f, g>>)} = {Tells(f), Tells(g)}
    <3>1. 1..Len(<<f, g>>) = {1, 2} OBVIOUS
    <3> QED BY <3>1
  <2>3. wire \o <<f, g>> = Append(Append(wire, f), g)
    <3>1. <<f, g>> = Append(<<f>>, g) /\ <<f>> \in Seq(Frame) OBVIOUS
    <3>2. wire \o Append(<<f>>, g) = Append(wire \o <<f>>, g) BY <3>1, <1>1, Follow
    <3>3. wire \o <<f>> = Append(wire, f) BY <1>1
    <3> QED BY <3>1, <3>2, <3>3
  <2> QED BY <2>1, <2>2, <2>3
<1>4. ASSUME ~(dc /\ sess) PROVE wire' = wire /\ fresh' = fresh
  BY <1>4 DEF SendHid
<1>5. (queue \o Held) \in Seq(Frame) /\ Append(wire, f) \in Seq(Frame) BY <1>1
<1>6. (queue \o Held) \o Append(Append(wire, f), g)
          = Append(Append((queue \o Held) \o wire, f), g)
  BY <1>1, <1>5, Follow
<1>7. Way = (queue \o Held) \o wire /\ Way' = (queue \o Held) \o wire'
  BY <1>2 DEF Way
<1> HIDE DEF Way
<1>8. CASE dc /\ sess
  <2>0. wire' = Append(Append(wire, f), g) BY <1>3, <1>8
  <2>1. wire' \in Seq(Frame) BY <1>5, <2>0
  <2> QED BY <1>3, <1>6, <1>7, <1>8, <2>1
<1>9. CASE ~(dc /\ sess)
  <2>1. wire' = wire /\ fresh' = fresh BY <1>4, <1>9
  <2>2. Way' = Way /\ wire' \in Seq(Frame) BY <1>1, <1>7, <2>1
  <2> QED BY <1>9, <2>1, <2>2
<1> QED BY <1>8, <1>9

\* The loop hands frames over in order, whether it has to wait or not; to a
\* thread that has ended it hands none.
LEMMA AgentWay ==
    ASSUME TypeOK, HostInv, Agent
    PROVE  /\ Runs => Way' = Way
           /\ ~Runs => Way # <<>> /\ Way' = Tail(Way) /\ UNCHANGED <<queue, holding>>
           /\ wire' \in Seq(Frame) /\ holding' \in Frame \cup {None}
           /\ queue' \in Seq(Frame) /\ Len(queue') <= HidCap
<1>1. wire \in Seq(Frame) /\ queue \in Seq(Frame) /\ Len(queue) <= HidCap
      /\ HidCap \in Nat /\ holding \in Frame \cup {None}
  BY HidAssumption DEF TypeOK
<1>2. CASE ChannelData
  <2> DEFINE h == Head(wire)
             t == Tail(wire)
  <2>1. h \in Frame /\ t \in Seq(Frame) /\ wire = <<h>> \o t /\ holding = None
        /\ wire' = t /\ h # None
    BY <1>1, <1>2, NoneAssumption DEF ChannelData
  <2>2. Held = <<>> BY <2>1 DEF Held
  <2> HIDE DEF h, t
  <2>0. CASE ~Runs
    <3>1. queue = <<>> /\ holding = None BY <2>0 DEF HostInv
    <3>2. UNCHANGED <<queue, holding>> BY <1>2, <2>0 DEF ChannelData
    <3>3. Held' = <<>> BY <2>1, <3>2 DEF Held
    <3>4. Way = wire /\ Way' = t BY <1>1, <2>1, <2>2, <3>1, <3>2, <3>3 DEF Way
    <3>5. Way # <<>> /\ Way' = Tail(Way) BY <1>2, <3>4 DEF ChannelData, t
    <3> QED BY <1>1, <2>0, <2>1, <3>2, <3>5
  <2>3. CASE Runs /\ Len(queue) < HidCap
    <3>1. queue' = Append(queue, h) /\ holding' = None
      BY <2>3, <2>1, <1>1, <1>2 DEF ChannelData, h
    <3>2. Held' = <<>> BY <3>1 DEF Held
    <3>3. Append(queue, h) \o t = queue \o (<<h>> \o t) BY <1>1, <2>1
    <3>4. queue' \in Seq(Frame) /\ Len(queue') <= HidCap BY <3>1, <2>3, <1>1, <2>1
    <3> QED BY <1>1, <2>1, <2>2, <2>3, <3>1, <3>2, <3>3, <3>4 DEF Way
  <2>4. CASE Runs /\ ~(Len(queue) < HidCap)
    <3>1. queue' = queue /\ holding' = h
      BY <2>4, <2>1, <1>1, <1>2 DEF ChannelData, h
    <3>2. Held' = <<h>> BY <3>1, <2>1 DEF Held
    <3>3. (queue \o <<h>>) \o t = queue \o (<<h>> \o t) BY <1>1, <2>1
    <3> QED BY <1>1, <2>1, <2>2, <2>4, <3>1, <3>2, <3>3 DEF Way
  <2> QED BY <2>0, <2>3, <2>4
<1>3. CASE SendDone
  <2>0. Runs BY <1>3 DEF SendDone, HostInv
  <2>1. holding # None /\ queue' = Append(queue, holding) /\ holding' = None
        /\ wire' = wire /\ Len(queue) < HidCap
    BY <1>3 DEF SendDone
  <2>2. Held = <<holding>> /\ Held' = <<>> /\ holding \in Frame
    BY <2>1, <1>1 DEF Held
  <2>3. queue \o <<holding>> = Append(queue, holding) BY <1>1, <2>2
  <2>4. Append(queue, holding) \in Seq(Frame) /\ Len(queue') <= HidCap
    BY <1>1, <2>1, <2>2
  <2> QED BY <1>1, <2>0, <2>1, <2>2, <2>3, <2>4 DEF Way
<1> QED BY <1>2, <1>3 DEF Agent

\* The hid thread takes the oldest frame.
LEMMA HidWay ==
    ASSUME TypeOK, HidStep
    PROVE  /\ Way # <<>> /\ Way' = Tail(Way) /\ Head(Way) = Head(queue)
           /\ Head(queue) \in Frame
           /\ queue' \in Seq(Frame) /\ Len(queue') <= HidCap
<1>1. wire \in Seq(Frame) /\ queue \in Seq(Frame) /\ Held \in Seq(Frame)
      /\ Len(queue) <= HidCap /\ HidCap \in Nat
  BY WayFrames, HidAssumption DEF TypeOK
<1>2. queue # <<>> /\ queue' = Tail(queue) /\ wire' = wire /\ Held' = Held
  BY DEF HidStep, Held
<1>3. Head(queue) \in Frame /\ Tail(queue) \in Seq(Frame) /\ Len(Tail(queue)) <= HidCap
  BY <1>1, <1>2
<1> DEFINE r == Held \o wire
<1>4. r \in Seq(Frame) /\ Way = queue \o r /\ Way' = Tail(queue) \o r
  <2>1. (queue \o Held) \o wire = queue \o (Held \o wire) BY <1>1
  <2>2. (Tail(queue) \o Held) \o wire = Tail(queue) \o (Held \o wire) BY <1>1, <1>3
  <2> QED BY <1>1, <1>2, <2>1, <2>2 DEF Way
<1> HIDE DEF r
<1>5. /\ (queue \o r) # <<>> /\ Head(queue \o r) = Head(queue)
      /\ Tail(queue \o r) = Tail(queue) \o r
  <2>1. Len(queue \o r) > 0 BY <1>1, <1>2, <1>4
  <2>2. Head(queue \o r) = Head(queue) BY <1>1, <1>2, <1>4
  <2>3. Tail(queue \o r) = Tail(queue) \o r
    <3>1. Tail(queue \o r) \in Seq(Frame) /\ (Tail(queue) \o r) \in Seq(Frame)
      BY <1>1, <1>3, <1>4, <2>1
    <3>2. Len(Tail(queue \o r)) = Len(Tail(queue) \o r) BY <1>1, <1>2, <1>3, <1>4
    <3>3. ASSUME NEW i \in 1..Len(Tail(queue \o r))
          PROVE  Tail(queue \o r)[i] = (Tail(queue) \o r)[i]
      BY <1>1, <1>2, <1>3, <1>4
    <3> QED BY <3>1, <3>2, <3>3, SeqEqual
  <2> QED BY <2>1, <2>2, <2>3
<1> QED BY <1>2, <1>3, <1>4, <1>5

(***************************************************************************)
(* Type correctness                                                        *)
(***************************************************************************)

Bools == /\ capture \in BOOLEAN /\ lift \in BOOLEAN /\ dc \in BOOLEAN
         /\ sess \in BOOLEAN /\ whole \in BOOLEAN

PageTypes ==
    /\ modifier \in SUBSET Modifier /\ keys \in Seq(Key) /\ IsInjective(keys)
    /\ buttons \in SUBSET Button /\ place \in Place /\ setting \in Setting
TimeTypes ==
    combos \in 0..ComboCap /\ typing \in {"idle", "on", "done"} /\ typed \in 0..Len(Text)
WayTypes ==
    /\ fresh \subseteq {"kbd", "mouse", "place", "ctl"}
    /\ wire \in Seq(Frame) /\ holding \in Frame \cup {None}
    /\ queue \in Seq(Frame) /\ Len(queue) <= HidCap
HidTypes ==
    /\ mode \in {"gadget", "ch9329"} /\ opened \in SUBSET Gadget
    /\ last \in Mouse /\ video \in Setting /\ uses \in SUBSET Input
HostTypes ==
    /\ host \in {"on", "asleep", "off"}
    /\ down \in SUBSET Usage /\ pointer \in Mouse /\ strokes \in Seq(Char)

\* TypeOK is those parts.
LEMMA TypeParts ==
    TypeOK <=> Bools /\ PageTypes /\ TimeTypes /\ WayTypes /\ HidTypes /\ HostTypes
BY Zenon DEF TypeOK, Bools, PageTypes, TimeTypes, WayTypes, HidTypes, HostTypes

\* The flags stay Boolean.
LEMMA FlagStep ==
    ASSUME Bools, [Next]_vars PROVE Bools'
<1> USE DEF pageVars, timeVars, linkVars, hidVars, hostVars, textVars,
            OtherThanReport, OtherThanPage, OtherThanUser, OtherThanLoop, OtherThanHost
<1>1. CASE UNCHANGED <<capture, lift, dc, sess, whole>> BY <1>1, Zenon DEF Bools
<1>2. CASE PageStep
  <2>0. ASSUME UNCHANGED <<capture, lift, dc, sess>>, NEW f, SendReport(f)
        PROVE  Bools'
    <3>1. whole' \in BOOLEAN BY <2>0, Zenon DEF SendReport
    <3> QED BY <2>0, <3>1, Zenon DEF Bools
  <2>1. ASSUME NEW k \in Key, KeyDown(k) PROVE Bools'
    <3>1. UNCHANGED <<capture, lift, dc, sess>> /\ SendReport(Keyboard(modifier, keys'))
      BY <2>1 DEF KeyDown
    <3> QED BY <2>0, <3>1
  <2>2. ASSUME NEW k \in Key, KeyUp(k) PROVE Bools'
    <3>1. UNCHANGED <<capture, lift, dc, sess>> /\ SendReport(Keyboard(modifier, keys'))
      BY <2>2 DEF KeyUp
    <3> QED BY <2>0, <3>1
  <2>3. ASSUME NEW m \in Modifier, ModifierKey(m) PROVE Bools'
    <3>1. UNCHANGED <<capture, lift, dc, sess>> /\ SendReport(Keyboard(modifier', keys))
      BY <2>3 DEF ModifierKey
    <3> QED BY <2>0, <3>1
  <2>4. ASSUME NEW p \in Place, MouseMove(p)
        PROVE  UNCHANGED <<capture, lift, dc, sess, whole>>
    BY <2>4 DEF MouseMove
  <2>5. ASSUME NEW b \in Button, MouseButton(b)
        PROVE  UNCHANGED <<capture, lift, dc, sess, whole>>
    BY <2>5 DEF MouseButton
  <2>6. CASE Wheel BY <2>6, <1>1 DEF Wheel
  <2>7. CASE ActivateCapture
    <3>1. capture' = TRUE /\ UNCHANGED <<lift, dc, sess, whole>> BY <2>7 DEF ActivateCapture
    <3> QED BY <3>1, Zenon DEF Bools
  <2>8. CASE Escape
    <3>1. capture' = FALSE /\ UNCHANGED <<lift, dc, sess, whole>> BY <2>8 DEF Escape
    <3> QED BY <3>1, Zenon DEF Bools
  <2>9. ASSUME NEW c \in Combos, SendKeyCombo(c) PROVE Bools'
    <3>1. UNCHANGED <<capture, lift, dc, sess>> /\ SendReport(Report(c))
      BY <2>9 DEF SendKeyCombo
    <3> QED BY <2>0, <3>1
  <2>10. CASE TypeText
    <3>1. UNCHANGED <<capture, lift, dc, sess>> BY <2>10 DEF TypeText
    <3>2. whole' \in BOOLEAN BY <2>10, Zenon DEF TypeText
    <3> QED BY <3>1, <3>2, Zenon DEF Bools
  <2>11. ASSUME NEW v \in Setting, Change(v)
        PROVE  UNCHANGED <<capture, lift, dc, sess, whole>>
    BY <2>11 DEF Change
  <2> QED BY <1>1, <1>2, <2>1, <2>2, <2>3, <2>4, <2>5, <2>6, <2>7, <2>8, <2>9,
             <2>10, <2>11 DEF PageStep
<1>3. CASE Timer
  <2>1. CASE ComboRelease BY <2>1, <1>1 DEF ComboRelease
  <2>2. CASE TypeTick
    <3>1. UNCHANGED <<capture, dc, sess, whole>> /\ (lift' = TRUE \/ lift' = lift)
      BY <2>2 DEF TypeTick
    <3> QED BY <3>1, Zenon DEF Bools
  <2>3. CASE TypeLift
    <3>1. UNCHANGED <<capture, dc, sess, whole>> /\ lift' = FALSE BY <2>3 DEF TypeLift
    <3> QED BY <3>1, Zenon DEF Bools
  <2> QED BY <1>3, <2>1, <2>2, <2>3 DEF Timer
<1>4. CASE Link
  <2>1. CASE Disconnect
    <3>1. capture' = FALSE /\ dc' = FALSE /\ whole' = FALSE /\ UNCHANGED <<sess, lift>>
      BY <2>1 DEF Disconnect
    <3> QED BY <3>1, Zenon DEF Bools
  <2>2. CASE AgentGone
    <3>1. sess' = FALSE /\ whole' = FALSE /\ UNCHANGED <<capture, dc, lift>>
      BY <2>2 DEF AgentGone
    <3> QED BY <3>1, Zenon DEF Bools
  <2>3. CASE DcCloses
    <3>1. dc' = FALSE /\ UNCHANGED <<capture, whole, sess, lift>> BY <2>3 DEF DcCloses
    <3> QED BY <3>1, Zenon DEF Bools
  <2>4. CASE Connect
    <3>1. dc' = TRUE /\ sess' = TRUE /\ UNCHANGED <<capture, whole, lift>>
      BY <2>4 DEF Connect
    <3> QED BY <3>1, Zenon DEF Bools
  <2> QED BY <1>4, <2>1, <2>2, <2>3, <2>4 DEF Link
<1>5. CASE Agent BY <1>5, <1>1 DEF Agent, ChannelData, SendDone
<1>6. CASE HidStep BY <1>6, <1>1 DEF HidStep
<1>7. CASE Host
  <2>1. CASE HostLeaves
    <3>1. whole' = FALSE /\ UNCHANGED <<capture, dc, sess, lift>> BY <2>1 DEF HostLeaves
    <3> QED BY <3>1, Zenon DEF Bools
  <2>2. CASE HostSleeps \/ HostWakes \/ HostReturns
    BY <2>2, <1>1 DEF HostSleeps, HostWakes, HostReturns
  <2> QED BY <1>7, <2>1, <2>2 DEF Host
<1>8. CASE UNCHANGED vars BY <1>8, <1>1 DEF vars
<1> QED BY <1>2, <1>3, <1>4, <1>5, <1>6, <1>7, <1>8 DEF Next

\* The page's own state stays what it is.
LEMMA PageTypesStep ==
    ASSUME TypeOK, [Next]_vars PROVE PageTypes'
<1> USE DEF pageVars, timeVars, linkVars, hidVars, hostVars, textVars,
            OtherThanReport, OtherThanPage, OtherThanUser, OtherThanLoop, OtherThanHost
<1>0. PageTypes BY TypeParts
<1>1. CASE UNCHANGED <<modifier, keys, buttons, place, setting>>
  BY <1>0, <1>1 DEF PageTypes
<1>2. <<>> \in Seq(Key) /\ IsInjective(<<>>) BY DEF IsInjective
<1>3. CASE modifier' = {} /\ keys' = <<>> /\ buttons' = {} /\ UNCHANGED <<place, setting>>
  BY <1>0, <1>2, <1>3 DEF PageTypes
<1>4. CASE PageStep
  <2>1. ASSUME NEW k \in Key, KeyDown(k) PROVE PageTypes'
    <3>1. /\ UNCHANGED <<modifier, buttons, place, setting>>
          /\ keys' = IF k \in Range(keys) THEN keys ELSE Append(keys, k)
      BY <2>1 DEF KeyDown
    <3>2. keys \in Seq(Key) /\ IsInjective(keys) BY <1>0 DEF PageTypes
    <3>3. keys' \in Seq(Key) /\ IsInjective(keys') BY <3>1, <3>2, AppendKeeps
    <3> QED BY <1>0, <3>1, <3>3 DEF PageTypes
  <2>2. ASSUME NEW k \in Key, KeyUp(k) PROVE PageTypes'
    <3>1. /\ UNCHANGED <<modifier, buttons, place, setting>>
          /\ keys' = RemoveFirst(keys, k)
      BY <2>2 DEF KeyUp
    <3>2. keys \in Seq(Key) /\ IsInjective(keys) BY <1>0 DEF PageTypes
    <3>3. keys' \in Seq(Key) /\ IsInjective(keys') BY <3>1, <3>2, RemoveFirstKeeps
    <3> QED BY <1>0, <3>1, <3>3 DEF PageTypes
  <2>3. ASSUME NEW m \in Modifier, ModifierKey(m) PROVE PageTypes'
    BY <1>0, <2>3 DEF ModifierKey, PageTypes
  <2>4. ASSUME NEW p \in Place, MouseMove(p) PROVE PageTypes'
    BY <1>0, <2>4 DEF MouseMove, PageTypes
  <2>5. ASSUME NEW b \in Button, MouseButton(b) PROVE PageTypes'
    BY <1>0, <2>5 DEF MouseButton, PageTypes
  <2>6. CASE Wheel \/ ActivateCapture \/ TypeText
    BY <2>6, <1>1 DEF Wheel, ActivateCapture, TypeText
  <2>7. CASE Escape BY <2>7, <1>3 DEF Escape
  <2>8. ASSUME NEW c \in Combos, SendKeyCombo(c) PROVE PageTypes'
    BY <2>8, <1>1 DEF SendKeyCombo
  <2>9. ASSUME NEW v \in Setting, Change(v) PROVE PageTypes'
    BY <1>0, <2>9 DEF Change, PageTypes
  <2> QED BY <1>4, <2>1, <2>2, <2>3, <2>4, <2>5, <2>6, <2>7, <2>8, <2>9 DEF PageStep
<1>5. CASE Timer BY <1>5, <1>1 DEF Timer, ComboRelease, TypeTick, TypeLift
<1>6. CASE Link
  <2>1. CASE Disconnect BY <2>1, <1>3 DEF Disconnect
  <2>2. CASE AgentGone \/ DcCloses \/ Connect
    BY <2>2, <1>1 DEF AgentGone, DcCloses, Connect
  <2> QED BY <1>6, <2>1, <2>2 DEF Link
<1>7. CASE Agent BY <1>7, <1>1 DEF Agent, ChannelData, SendDone
<1>8. CASE HidStep BY <1>8, <1>1 DEF HidStep
<1>9. CASE Host BY <1>9, <1>1 DEF Host, HostSleeps, HostWakes, HostLeaves, HostReturns
<1>10. CASE UNCHANGED vars BY <1>10, <1>1 DEF vars
<1> QED BY <1>4, <1>5, <1>6, <1>7, <1>8, <1>9, <1>10 DEF Next

\* So do the timers and how far the text is.
LEMMA TimeTypesStep ==
    ASSUME TypeOK, [Next]_vars PROVE TimeTypes'
<1> USE DEF pageVars, timeVars, linkVars, hidVars, hostVars, textVars,
            OtherThanReport, OtherThanPage, OtherThanUser, OtherThanLoop, OtherThanHost
<1>0. TimeTypes /\ ComboCap \in Nat /\ Len(Text) \in Nat BY TypeParts, HidAssumption
<1>1. CASE UNCHANGED <<combos, typing, typed>> BY <1>0, <1>1 DEF TimeTypes
<1>2. CASE PageStep
  <2>1. ASSUME NEW c \in Combos, SendKeyCombo(c) PROVE TimeTypes'
    <3>1. combos < ComboCap /\ combos' = combos + 1 /\ UNCHANGED <<typing, typed>>
      BY <2>1 DEF SendKeyCombo
    <3> QED BY <1>0, <3>1 DEF TimeTypes
  <2>2. CASE TypeText
    <3>1. typing' = "on" /\ UNCHANGED <<combos, typed>> BY <2>2 DEF TypeText
    <3> QED BY <1>0, <3>1 DEF TimeTypes
  <2>3. ASSUME \/ \E k \in Key : KeyDown(k) \/ KeyUp(k)
               \/ \E m \in Modifier : ModifierKey(m)
               \/ \E p \in Place : MouseMove(p)
               \/ \E b \in Button : MouseButton(b)
               \/ \E v \in Setting : Change(v)
               \/ Wheel \/ ActivateCapture \/ Escape
        PROVE  UNCHANGED <<combos, typing, typed>>
    BY <2>3 DEF KeyDown, KeyUp, ModifierKey, MouseMove, MouseButton, Wheel, Change,
                ActivateCapture, Escape
  <2> QED BY <1>2, <1>1, <2>1, <2>2, <2>3 DEF PageStep
<1>3. CASE Timer
  <2>1. CASE ComboRelease
    <3>1. combos > 0 /\ combos' = combos - 1 /\ UNCHANGED <<typing, typed>>
      BY <2>1 DEF ComboRelease
    <3> QED BY <1>0, <3>1 DEF TimeTypes
  <2>2. CASE TypeTick
    <3>1. /\ combos' = combos /\ typing = "on"
          /\ \/ typed' = typed /\ typing' = "done"
             \/ typed # Len(Text) /\ typed' = typed + 1 /\ typing' = typing
      BY <2>2 DEF TypeTick
    <3> QED BY <1>0, <3>1 DEF TimeTypes
  <2>3. CASE TypeLift BY <2>3, <1>1 DEF TypeLift
  <2> QED BY <1>3, <2>1, <2>2, <2>3 DEF Timer
<1>4. CASE Link BY <1>4, <1>1 DEF Link, Disconnect, AgentGone, DcCloses, Connect
<1>5. CASE Agent BY <1>5, <1>1 DEF Agent, ChannelData, SendDone
<1>6. CASE HidStep BY <1>6, <1>1 DEF HidStep
<1>7. CASE Host BY <1>7, <1>1 DEF Host, HostSleeps, HostWakes, HostLeaves, HostReturns
<1>8. CASE UNCHANGED vars BY <1>8, <1>1 DEF vars
<1> QED BY <1>2, <1>3, <1>4, <1>5, <1>6, <1>7, <1>8 DEF Next

(***************************************************************************)
(* What the page sends                                                     *)
(***************************************************************************)

\* A step in which the page sends f and the rest of the system waits: f shows
\* the keys the page holds or a timer will release them; it has the buttons,
\* and the place if it is a movement; it shows a character only if typeText
\* types it, or the text is not followed any more.  A frame of another kind
\* leaves that part of the page alone.
SendsKeys(f) ==
    \/ f \in Kbds /\ f \in KbdsWith(modifier' \cup Range(keys'))
    \/ f \in Kbds /\ (combos' # 0 \/ lift')
    \/ f \notin Kbds /\ UNCHANGED <<modifier, keys, combos, lift>>
SendsButtons(f) ==
    \/ f \in Mice /\ f \in MiceWith(buttons')
    \/ f \notin Mice /\ buttons' = buttons
SendsPlace(f) ==
    \/ f \in Moves /\ f \in MovesTo(place')
    \/ f \notin Moves /\ place' = place
SendsNoChar(f) ==
    \/ f \notin Kbds /\ UNCHANGED <<typing, typed, lift>>
    \/ f \in Kbds /\ f.down \cap Char = {} /\ UNCHANGED <<typing, typed, lift>>
SendsTyped(f) ==
    \/ SendsNoChar(f)
    \/ /\ f \in Kbds /\ f.down \cap Char = {} /\ lift /\ ~lift' /\ UNCHANGED <<typing, typed>>
    \/ /\ f \in Kbds /\ f.down \cap Char = {} /\ UNCHANGED <<typed, lift>>
       /\ typing = "on" /\ typing' = "done" /\ (typed = Len(Text) \/ ~dc)
    \/ /\ f \in Kbds /\ typed < Len(Text) /\ f.down = {Text[typed + 1]}
       /\ dc /\ ~lift /\ lift' /\ typed' = typed + 1 /\ typing = "on" /\ typing' = "on"
SendsText(f) ==
    \/ SendsTyped(f) /\ UNCHANGED <<strokes, whole>>
    \/ ~whole' /\ strokes' = <<>> /\ UNCHANGED <<typing, typed, lift>>
Sends(f) ==
    /\ SendHid(<<f>>) /\ UNCHANGED OtherThanReport
    /\ SendsKeys(f) /\ SendsButtons(f) /\ SendsPlace(f) /\ SendsText(f)

\* A keyboard report is a frame of its kind and no mouse report.
LEMMA KbdFrame ==
    ASSUME NEW set \in SUBSET Usage, NEW f \in KbdsWith(set)
    PROVE  /\ f \in Frame /\ f \in Kbds /\ f \notin Mice /\ f \notin Moves
           /\ f.down \subseteq set
BY DEF KbdsWith, Frame, Kbds, Mice, Moves, Clicks

\* A report of no key shows no character.
LEMMA NoChars ==
    ASSUME NEW f \in KbdsWith({}) PROVE f.down \cap Char = {}
BY DEF KbdsWith

\* A report of the user's shows no character, or the text is given up.
LEMMA ReportSendsText ==
    ASSUME TypeOK, NEW f \in Frame, f \in Kbds, SendReport(f),
           UNCHANGED <<typing, typed, lift>>
    PROVE  SendHid(<<f>>) /\ SendsText(f)
<1>1. f # None /\ f.kind = "kbd" BY NoneAssumption, TellsWhat
<1>2. SendHid(<<f>>) BY DEF SendReport
<1>3. CASE whole /\ ~ShowsText(f)
  <2>1. f.down \cap Char = {} BY <1>1, <1>3 DEF ShowsText
  <2>2. whole' = whole
    <3>1. whole \in BOOLEAN BY Zenon DEF TypeOK
    <3> QED BY <1>3, <3>1, Zenon DEF SendReport
  <2>3. strokes' = strokes
    <3>1. strokes' = IF whole' THEN strokes ELSE <<>> BY DEF SendReport
    <3>2. whole' BY <1>3, <2>2, Zenon
    <3> QED BY <3>1, <3>2, Zenon
  <2>4. SendsNoChar(f) BY <2>1 DEF SendsNoChar
  <2>5. SendsTyped(f) BY <2>4 DEF SendsTyped
  <2> QED BY <1>2, <2>2, <2>3, <2>5, Zenon DEF SendsText
<1>4. CASE ~(whole /\ ~ShowsText(f))
  <2>1. ~whole' BY <1>4, Zenon DEF SendReport
  <2>2. strokes' = <<>>
    <3>1. strokes' = IF whole' THEN strokes ELSE <<>> BY DEF SendReport
    <3> QED BY <2>1, <3>1, Zenon
  <2> QED BY <1>2, <2>1, <2>2 DEF SendsText
<1> QED BY <1>3, <1>4

\* Every report of ordinary keys and modifiers is such a step.
LEMMA KeyStepSends ==
    ASSUME TypeOK, PageTypes',
           SendReport(Keyboard(modifier', keys')),
           UNCHANGED <<buttons, place>>, UNCHANGED <<combos, typing, typed, lift>>,
           UNCHANGED OtherThanReport
    PROVE  \E f \in Frame : Sends(f)
<1>1. PICK f : f = Keyboard(modifier', keys') OBVIOUS
<1>2. modifier' \in SUBSET Modifier /\ keys' \in Seq(Key) BY DEF PageTypes
<1>3. PICK set : set = modifier' \cup Range(keys') OBVIOUS
<1>4. f \in KbdsWith(set) BY <1>1, <1>2, <1>3, FramesSent
<1>5. set \in SUBSET Usage BY <1>2, <1>3 DEF Range, Usage
<1>6. f \in Frame /\ f \in Kbds /\ f \notin Mice /\ f \notin Moves
  BY <1>4, <1>5, KbdFrame
<1>7. SendReport(f) BY <1>1
<1>8. SendHid(<<f>>) /\ SendsText(f) BY <1>6, <1>7, ReportSendsText
<1>9. SendsKeys(f) BY <1>3, <1>4, <1>6 DEF SendsKeys
<1>10. SendsButtons(f) /\ SendsPlace(f) BY <1>6 DEF SendsButtons, SendsPlace
<1> QED BY <1>6, <1>8, <1>9, <1>10 DEF Sends

\* Every action of the page that sends one frame is such a step.
LEMMA PageSends ==
    ASSUME TypeOK, PageTypes', TimeTypes', PageStep \/ Timer
    PROVE  \/ \E f \in Frame : Sends(f)
           \/ Escape \/ ActivateCapture \/ TypeText
<1> USE DEF pageVars, timeVars, textVars, OtherThanPage, OtherThanUser
<1>1. ASSUME NEW k \in Key, KeyDown(k) \/ KeyUp(k) PROVE \E f \in Frame : Sends(f)
  <2>1. /\ SendReport(Keyboard(modifier, keys')) /\ modifier' = modifier
        /\ UNCHANGED <<buttons, place>> /\ UNCHANGED <<combos, typing, typed, lift>>
        /\ UNCHANGED OtherThanReport
    BY <1>1 DEF KeyDown, KeyUp
  <2>2. SendReport(Keyboard(modifier', keys')) BY <2>1
  <2> QED BY <2>1, <2>2, KeyStepSends
<1>2. ASSUME NEW m \in Modifier, ModifierKey(m) PROVE \E f \in Frame : Sends(f)
  <2>1. /\ SendReport(Keyboard(modifier', keys)) /\ keys' = keys
        /\ UNCHANGED <<buttons, place>> /\ UNCHANGED <<combos, typing, typed, lift>>
        /\ UNCHANGED OtherThanReport
    BY <1>2 DEF ModifierKey
  <2>2. SendReport(Keyboard(modifier', keys')) BY <2>1
  <2> QED BY <2>1, <2>2, KeyStepSends
<1>3. ASSUME NEW p \in Place, MouseMove(p) PROVE \E f \in Frame : Sends(f)
  <2>1. PICK f : f = [kind |-> "move", buttons |-> buttons, place |-> p] OBVIOUS
  <2>2. /\ SendHid(<<f>>) /\ place' = p
        /\ UNCHANGED <<modifier, keys, buttons>> /\ UNCHANGED <<combos, typing, typed, lift>>
        /\ UNCHANGED OtherThanReport /\ UNCHANGED <<strokes, whole>>
    BY <1>3, <2>1 DEF MouseMove
  <2>3. buttons \in SUBSET Button BY DEF TypeOK
  <2>4. f \in Frame /\ f \in Moves /\ f \in Mice /\ f \notin Kbds
    BY <2>1, <2>3 DEF Frame, Moves, Mice, Kbds
  <2>5. f \in MiceWith(buttons) /\ f \in MovesTo(p) BY <2>1, <2>3 DEF MiceWith, MovesTo
  <2>6. SendsButtons(f) /\ SendsPlace(f) BY <2>2, <2>4, <2>5 DEF SendsButtons, SendsPlace
  <2>7. SendsKeys(f) /\ SendsText(f) BY <2>2, <2>4 DEF SendsKeys, SendsText, SendsTyped, SendsNoChar
  <2> QED BY <2>2, <2>4, <2>6, <2>7 DEF Sends
<1>4. ASSUME NEW b \in Button, MouseButton(b) PROVE \E f \in Frame : Sends(f)
  <2>1. PICK f : f = Buttons(buttons') OBVIOUS
  <2>2. /\ SendHid(<<f>>)
        /\ UNCHANGED <<modifier, keys, place>> /\ UNCHANGED <<combos, typing, typed, lift>>
        /\ UNCHANGED OtherThanReport /\ UNCHANGED <<strokes, whole>>
    BY <1>4, <2>1 DEF MouseButton
  <2>3. PICK set : set = buttons' OBVIOUS
  <2>4. set \in SUBSET Button BY <2>3 DEF PageTypes
  <2>5. f \in MiceWith(set) /\ f \in Clicks BY <2>1, <2>3, <2>4, FramesSent
  <2>6. f \in Frame /\ f \in Mice /\ f \notin Moves /\ f \notin Kbds
    BY <2>5 DEF Frame, Clicks, Mice, Moves, Kbds
  <2>7. SendsButtons(f) /\ SendsPlace(f) BY <2>2, <2>3, <2>5, <2>6 DEF SendsButtons, SendsPlace
  <2>8. SendsKeys(f) /\ SendsText(f) BY <2>2, <2>6 DEF SendsKeys, SendsText, SendsTyped, SendsNoChar
  <2> QED BY <2>2, <2>6, <2>7, <2>8 DEF Sends
<1>5. ASSUME NEW f \in Frame, f \notin Kbds, f \notin Mice,
             SendHid(<<f>>), UNCHANGED <<modifier, keys, buttons, place>>,
             UNCHANGED <<combos, typing, typed, lift>>,
             UNCHANGED OtherThanReport /\ UNCHANGED <<strokes, whole>>
      PROVE  Sends(f)
  <2>1. f \notin Moves BY <1>5 DEF Mice
  <2>2. SendsButtons(f) /\ SendsPlace(f) BY <1>5, <2>1 DEF SendsButtons, SendsPlace
  <2>3. SendsKeys(f) /\ SendsText(f) BY <1>5 DEF SendsKeys, SendsText, SendsTyped, SendsNoChar
  <2> QED BY <1>5, <2>2, <2>3 DEF Sends
<1>6. ASSUME Wheel PROVE \E f \in Frame : Sends(f)
  <2>1. PICK f : f = [kind |-> "wheel"] OBVIOUS
  <2>2. f \in Frame /\ f \notin Kbds /\ f \notin Mice
    BY <2>1 DEF Frame, Kbds, Mice, Moves, Clicks
  <2>3. /\ SendHid(<<f>>) /\ UNCHANGED <<modifier, keys, buttons, place>>
        /\ UNCHANGED <<combos, typing, typed, lift>> /\ UNCHANGED OtherThanReport /\ UNCHANGED <<strokes, whole>>
    BY <1>6, <2>1 DEF Wheel
  <2> QED BY <2>2, <2>3, <1>5
<1>7. ASSUME NEW v \in Setting, Change(v) PROVE \E f \in Frame : Sends(f)
  <2>1. PICK f : f = [kind |-> "ctl", to |-> v] OBVIOUS
  <2>2. f \in Frame /\ f \notin Kbds /\ f \notin Mice
    BY <2>1 DEF Frame, Kbds, Mice, Moves, Clicks
  <2>3. /\ SendHid(<<f>>) /\ UNCHANGED <<modifier, keys, buttons, place>>
        /\ UNCHANGED <<combos, typing, typed, lift>> /\ UNCHANGED OtherThanReport /\ UNCHANGED <<strokes, whole>>
    BY <1>7, <2>1 DEF Change
  <2> QED BY <2>2, <2>3, <1>5
<1>8. ASSUME NEW f, NEW set \in SUBSET Usage, f \in KbdsWith(set), SendHid(<<f>>),
             UNCHANGED <<modifier, keys, buttons, place>>, UNCHANGED OtherThanReport,
             SendsText(f),
             \/ combos' # 0 \/ lift'
             \/ set = {}
      PROVE  f \in Frame /\ Sends(f)
  <2>1. f \in Frame /\ f \in Kbds /\ f \notin Mice /\ f \notin Moves
    BY <1>8, KbdFrame
  <2>2. set = {} => f \in KbdsWith(modifier' \cup Range(keys')) BY <1>8 DEF KbdsWith
  <2>3. SendsKeys(f) BY <1>8, <2>1, <2>2 DEF SendsKeys
  <2>4. SendsButtons(f) /\ SendsPlace(f) BY <1>8, <2>1 DEF SendsButtons, SendsPlace
  <2> QED BY <1>8, <2>1, <2>3, <2>4 DEF Sends
<1>9. Release \in KbdsWith({}) /\ {} \in SUBSET Usage /\ Release \in Kbds /\ Release.down \cap Char = {}
  BY FramesSent, NoChars, KbdFrame
<1>10. PICK rel : rel = Release OBVIOUS
<1>11. ASSUME NEW c \in Combos, SendKeyCombo(c) PROVE \E f \in Frame : Sends(f)
  <2>1. PICK f : f = Report(c) OBVIOUS
  <2>2. /\ SendReport(f) /\ combos' = combos + 1 /\ UNCHANGED <<typing, typed, lift>>
        /\ UNCHANGED <<modifier, keys, buttons, place>> /\ UNCHANGED OtherThanReport
    BY <1>11, <2>1 DEF SendKeyCombo
  <2>3. c \in SUBSET (Key \cup Modifier) BY HidAssumption
  <2>4. c \in SUBSET Usage BY <2>3 DEF Usage
  <2>5. f \in KbdsWith(c) BY <2>1, <2>4, FramesSent
  <2>6. f \in Frame /\ f \in Kbds BY <2>4, <2>5, KbdFrame
  <2>7. SendHid(<<f>>) /\ SendsText(f) BY <2>2, <2>6, ReportSendsText
  <2>8. combos' # 0
    <3>1. combos \in Nat BY HidAssumption DEF TypeOK
    <3> QED BY <3>1, <2>2
  <2> QED BY <2>2, <2>4, <2>5, <2>7, <2>8, <1>8
<1>12. ASSUME ComboRelease PROVE \E f \in Frame : Sends(f)
  <2>1. /\ SendHid(<<rel>>) /\ UNCHANGED <<typing, typed, lift>>
        /\ UNCHANGED <<modifier, keys, buttons, place>> /\ UNCHANGED OtherThanReport /\ UNCHANGED <<strokes, whole>>
    BY <1>12, <1>10 DEF ComboRelease
  <2>2. SendsText(rel) BY <2>1, <1>9, <1>10 DEF SendsText, SendsTyped, SendsNoChar
  <2> QED BY <2>1, <2>2, <1>8, <1>9, <1>10
<1>13. ASSUME TypeLift PROVE \E f \in Frame : Sends(f)
  <2>1. /\ SendHid(<<rel>>) /\ UNCHANGED <<typing, typed>> /\ lift /\ ~lift'
        /\ UNCHANGED <<modifier, keys, buttons, place>> /\ UNCHANGED OtherThanReport /\ UNCHANGED <<strokes, whole>>
    BY <1>13, <1>10 DEF TypeLift
  <2>2. SendsText(rel) BY <2>1, <1>9, <1>10 DEF SendsText, SendsTyped
  <2> QED BY <2>1, <2>2, <1>8, <1>9, <1>10
<1>14. ASSUME TypeTick PROVE \E f \in Frame : Sends(f)
  <2>0. /\ UNCHANGED <<modifier, keys, buttons, place>> /\ UNCHANGED OtherThanReport /\ UNCHANGED <<strokes, whole>>
        /\ typing = "on" /\ ~lift
    BY <1>14 DEF TypeTick
  <2>1. CASE typed = Len(Text) \/ ~dc
    <3>1. SendHid(<<rel>>) /\ typing' = "done" /\ UNCHANGED <<typed, lift>>
      BY <1>14, <2>1, <1>10 DEF TypeTick
    <3>2. SendsText(rel) BY <2>0, <2>1, <3>1, <1>9, <1>10 DEF SendsText, SendsTyped
    <3> QED BY <2>0, <3>1, <3>2, <1>8, <1>9, <1>10
  <2>2. CASE ~(typed = Len(Text) \/ ~dc)
    <3>1. typed \in 0..Len(Text) /\ Text \in Seq(Key) BY HidAssumption DEF TypeOK
    <3>2. typed < Len(Text) /\ Text[typed + 1] \in Key BY <2>2, <3>1
    <3>3. PICK set : set = {Text[typed + 1]} OBVIOUS
    <3>4. set \in SUBSET Usage BY <3>2, <3>3 DEF Usage
    <3>5. PICK f : f = Report(set) OBVIOUS
    <3>6. f \in KbdsWith(set) BY <3>4, <3>5, FramesSent
    <3>7. SendHid(<<f>>) /\ typed' = typed + 1 /\ lift' /\ typing' = typing
      BY <1>14, <2>2, <3>3, <3>5 DEF TypeTick
    <3>8. f \in Kbds BY <3>4, <3>6, KbdFrame
    <3>9. f.down = set BY <3>5 DEF Report
    <3>10. SendsText(f) BY <2>0, <2>2, <3>2, <3>3, <3>7, <3>8, <3>9 DEF SendsText, SendsTyped
    <3> QED BY <2>0, <3>4, <3>6, <3>7, <3>10, <1>8
  <2> QED BY <2>1, <2>2
<1>15. CASE PageStep
  BY <1>15, <1>1, <1>2, <1>3, <1>4, <1>6, <1>7, <1>11 DEF PageStep
<1>16. CASE Timer BY <1>16, <1>12, <1>13, <1>14 DEF Timer
<1> QED BY <1>15, <1>16

(***************************************************************************)
(* The invariants of keyboard and pointer                                  *)
(***************************************************************************)

\* What the page can rely on after a step that moved no frame, or after which
\* the machine cannot be reached or nothing is fresh.
LEMMA SameWay ==
    ASSUME KbdInv, MouseInv, PlaceInv, Way' = Way,
           UNCHANGED <<dc, sess, fresh>>, UNCHANGED <<modifier, keys, buttons, place>>,
           UNCHANGED <<combos, lift>>, UNCHANGED <<down, pointer, last, mode, opened>>,
           host' # "off" => host # "off"
    PROVE  KbdInv' /\ MouseInv' /\ PlaceInv'
<1>1. Reaches' => Reaches BY DEF Reaches
<1>2. KbdInv' BY <1>1 DEF KbdInv
<1>3. MouseInv' BY <1>1 DEF MouseInv
<1>4. PlaceInv' BY <1>1 DEF PlaceInv
<1> QED BY <1>2, <1>3, <1>4

\* With the host out of reach, or nothing of the page's capture fresh, the
\* invariants of the newest frames ask for nothing.
LEMMA Unreached ==
    ASSUME ~Reaches' \/ fresh' = {}
    PROVE  KbdInv' /\ MouseInv' /\ PlaceInv'
BY DEF KbdInv, MouseInv, PlaceInv

\* A frame the page sends is the newest of its kind.
LEMMA SendKeeps ==
    ASSUME TypeOK, KbdInv, MouseInv, PlaceInv, NEW f \in Frame, Sends(f)
    PROVE  KbdInv' /\ MouseInv' /\ PlaceInv'
<1>1. /\ SendHid(<<f>>) /\ UNCHANGED <<dc, sess, holding, queue, mode, opened, last>>
      /\ UNCHANGED <<host, down, pointer>>
      /\ SendsKeys(f) /\ SendsButtons(f) /\ SendsPlace(f)
  BY DEF Sends, OtherThanReport, linkVars, hidVars, hostVars
<1>2. /\ dc /\ sess => Way' = Append(Way, f) /\ fresh' = fresh \cup Tells(f)
      /\ Way \in Seq(Frame)
  BY <1>1, SendOne, WayFrames
<1>3. Reaches' => Reaches /\ dc /\ sess BY <1>1 DEF Reaches
<1>4. KbdInv'
  <2> SUFFICES ASSUME Reaches', "kbd" \in fresh', combos' = 0, ~lift'
               PROVE  /\ Newest(Way', Kbds, KbdsWith(modifier' \cup Range(keys')))
                      /\ Silent(Way', Kbds) => down' \subseteq modifier' \cup Range(keys')
    BY DEF KbdInv
  <2>1. Reaches /\ Way' = Append(Way, f) /\ fresh' = fresh \cup Tells(f)
    BY <1>2, <1>3
  <2>2. CASE f \in Kbds
    <3>1. PICK G : G = KbdsWith(modifier' \cup Range(keys')) OBVIOUS
    <3>2. f \in G BY <1>1, <2>2, <3>1 DEF SendsKeys
    <3>3. Newest(Append(Way, f), Kbds, G) /\ ~Silent(Append(Way, f), Kbds)
      BY <1>2, <2>2, <3>2, NewestAppend
    <3> QED BY <2>1, <3>1, <3>3
  <2>3. CASE f \notin Kbds
    <3>1. UNCHANGED <<modifier, keys, combos, lift>> BY <1>1, <2>3 DEF SendsKeys
    <3>2. "kbd" \in fresh BY <2>1, <2>3, TellsWhat
    <3>3. /\ Newest(Way, Kbds, KbdsWith(modifier \cup Range(keys)))
          /\ Silent(Way, Kbds) => down \subseteq modifier \cup Range(keys)
      BY <2>1, <3>1, <3>2 DEF KbdInv
    <3>4. PICK G : G = KbdsWith(modifier \cup Range(keys)) OBVIOUS
    <3>5. /\ Newest(Append(Way, f), Kbds, G)
          /\ Silent(Append(Way, f), Kbds) => Silent(Way, Kbds)
      BY <1>2, <2>3, <3>3, <3>4, NewestAppend
    <3> QED BY <1>1, <2>1, <3>1, <3>3, <3>4, <3>5
  <2> QED BY <2>2, <2>3
<1>5. MouseInv'
  <2> SUFFICES ASSUME Reaches', "mouse" \in fresh', "mouse" \in opened
               PROVE  /\ Newest(Way', Mice, MiceWith(buttons'))
                      /\ Silent(Way', Mice) =>
                             /\ pointer.buttons \subseteq buttons'
                             /\ mode = "gadget" => pointer.buttons = buttons'
                                                   /\ last.buttons = buttons'
    BY <1>1 DEF MouseInv
  <2>1. Reaches /\ Way' = Append(Way, f) /\ fresh' = fresh \cup Tells(f)
    BY <1>2, <1>3
  <2>2. CASE f \in Mice
    <3>1. PICK G : G = MiceWith(buttons') OBVIOUS
    <3>2. f \in G BY <1>1, <2>2, <3>1 DEF SendsButtons
    <3>3. Newest(Append(Way, f), Mice, G) /\ ~Silent(Append(Way, f), Mice)
      BY <1>2, <2>2, <3>2, NewestAppend
    <3> QED BY <2>1, <3>1, <3>3
  <2>3. CASE f \notin Mice
    <3>1. buttons' = buttons BY <1>1, <2>3 DEF SendsButtons
    <3>2. "mouse" \in fresh BY <2>1, <2>3, TellsWhat
    <3>3. /\ Newest(Way, Mice, MiceWith(buttons))
          /\ Silent(Way, Mice) =>
                 /\ pointer.buttons \subseteq buttons
                 /\ mode = "gadget" => pointer.buttons = buttons /\ last.buttons = buttons
      BY <2>1, <3>2 DEF MouseInv
    <3>4. PICK G : G = MiceWith(buttons) OBVIOUS
    <3>5. /\ Newest(Append(Way, f), Mice, G)
          /\ Silent(Append(Way, f), Mice) => Silent(Way, Mice)
      BY <1>2, <2>3, <3>3, <3>4, NewestAppend
    <3> QED BY <2>1, <3>1, <3>3, <3>4, <3>5
  <2> QED BY <2>2, <2>3
<1>6. PlaceInv'
  <2> SUFFICES ASSUME Reaches', "place" \in fresh', "mouse" \in opened
               PROVE  /\ Newest(Way', Moves, MovesTo(place'))
                      /\ Silent(Way', Moves) => pointer.place = place' /\ last.place = place'
    BY <1>1 DEF PlaceInv
  <2>1. Reaches /\ Way' = Append(Way, f) /\ fresh' = fresh \cup Tells(f)
    BY <1>2, <1>3
  <2>2. CASE f \in Moves
    <3>1. PICK G : G = MovesTo(place') OBVIOUS
    <3>2. f \in G BY <1>1, <2>2, <3>1 DEF SendsPlace
    <3>3. Newest(Append(Way, f), Moves, G) /\ ~Silent(Append(Way, f), Moves)
      BY <1>2, <2>2, <3>2, NewestAppend
    <3> QED BY <2>1, <3>1, <3>3
  <2>3. CASE f \notin Moves
    <3>1. place' = place BY <1>1, <2>3 DEF SendsPlace
    <3>2. "place" \in fresh BY <2>1, <2>3, TellsWhat
    <3>3. /\ Newest(Way, Moves, MovesTo(place))
          /\ Silent(Way, Moves) => pointer.place = place /\ last.place = place
      BY <2>1, <3>2 DEF PlaceInv
    <3>4. PICK G : G = MovesTo(place) OBVIOUS
    <3>5. /\ Newest(Append(Way, f), Moves, G)
          /\ Silent(Append(Way, f), Moves) => Silent(Way, Moves)
      BY <1>2, <2>3, <3>3, <3>4, NewestAppend
    <3> QED BY <2>1, <3>1, <3>3, <3>4, <3>5
  <2> QED BY <2>2, <2>3
<1> QED BY <1>4, <1>5, <1>6

\* Escape sends a release of every key and one of every button.
LEMMA EscapeSends ==
    ASSUME TypeOK, Escape
    PROVE  \E f \in Frame, g \in Frame :
               /\ f \in Kbds /\ f \notin Mice /\ f \notin Moves
               /\ \A set : f \in KbdsWith(set)
               /\ f.down \cap Char = {}
               /\ g \in Mice /\ g \notin Moves /\ g \notin Kbds /\ g \in MiceWith({})
               /\ dc /\ sess => /\ Way' = Append(Append(Way, f), g)
                                /\ fresh' = fresh \cup Tells(f) \cup Tells(g)
               /\ ~(dc /\ sess) => Way' = Way /\ fresh' = fresh
               /\ wire' \in Seq(Frame)
<1>1. PICK f : f = Release OBVIOUS
<1>2. PICK g : g = Buttons({}) OBVIOUS
<1>3. \A set : f \in KbdsWith(set) BY <1>1, FramesSent
<1>4. {} \in SUBSET Usage /\ {} \in SUBSET Button OBVIOUS
<1>5. f \in KbdsWith({}) BY <1>3
<1>6. f \in Frame /\ f \in Kbds /\ f \notin Mice /\ f \notin Moves
  BY <1>4, <1>5, KbdFrame
<1>7. f.down \cap Char = {} BY <1>5, NoChars
<1>8. g \in MiceWith({}) /\ g \in Clicks BY <1>2, <1>4, FramesSent
<1>9. g \in Frame /\ g \in Mice /\ g \notin Moves /\ g \notin Kbds
  BY <1>8 DEF Frame, Clicks, Mice, Moves, Kbds
<1>10. SendHid(<<f, g>>) /\ UNCHANGED <<holding, queue>>
  BY <1>1, <1>2 DEF Escape, OtherThanUser, OtherThanPage, OtherThanReport
<1>11. /\ dc /\ sess => /\ Way' = Append(Append(Way, f), g)
                        /\ fresh' = fresh \cup Tells(f) \cup Tells(g)
       /\ ~(dc /\ sess) => Way' = Way /\ fresh' = fresh
       /\ wire' \in Seq(Frame)
  BY <1>6, <1>9, <1>10, SendTwo
<1> QED BY <1>3, <1>6, <1>7, <1>8, <1>9, <1>11

\* After Escape the newest reports release everything; the place stays.
LEMMA EscapeKeeps ==
    ASSUME TypeOK, KbdInv, MouseInv, PlaceInv, Escape
    PROVE  KbdInv' /\ MouseInv' /\ PlaceInv'
<1>1. PICK f \in Frame, g \in Frame :
               /\ f \in Kbds /\ f \notin Mice /\ f \notin Moves
               /\ \A set : f \in KbdsWith(set)
               /\ f.down \cap Char = {}
               /\ g \in Mice /\ g \notin Moves /\ g \notin Kbds /\ g \in MiceWith({})
               /\ dc /\ sess => /\ Way' = Append(Append(Way, f), g)
                                /\ fresh' = fresh \cup Tells(f) \cup Tells(g)
               /\ ~(dc /\ sess) => Way' = Way /\ fresh' = fresh
               /\ wire' \in Seq(Frame)
  BY EscapeSends
<1>2. /\ modifier' = {} /\ keys' = <<>> /\ buttons' = {} /\ place' = place
      /\ UNCHANGED <<dc, sess, host, pointer, last, opened>>
  BY DEF Escape, OtherThanUser, OtherThanPage, OtherThanReport, linkVars, hidVars, hostVars
<1> DEFINE v == Append(Way, f)
<1>3. Way \in Seq(Frame) /\ v \in Seq(Frame) BY WayFrames
<1>4. ASSUME Reaches'
      PROVE  Reaches /\ Way' = Append(v, g) /\ fresh' = fresh \cup Tells(f) \cup Tells(g)
  BY <1>1, <1>2, <1>4 DEF Reaches
<1>5. \A G : f \in G => Newest(v, Kbds, G) /\ ~Silent(v, Kbds)
  BY <1>1, <1>3, NewestAppend
<1>6. \A G : /\ Newest(Way, Moves, G) => Newest(v, Moves, G)
             /\ Silent(v, Moves) => Silent(Way, Moves)
  BY <1>1, <1>3, NewestAppend
<1> HIDE DEF v
<1>7. KbdInv'
  <2>1. PICK G : G = KbdsWith(modifier' \cup Range(keys')) OBVIOUS
  <2>2. Newest(v, Kbds, G) /\ ~Silent(v, Kbds) BY <1>1, <1>5, <2>1
  <2>3. Newest(Append(v, g), Kbds, G) /\ ~Silent(Append(v, g), Kbds)
    BY <1>1, <1>3, <2>2, NewestAppend
  <2> QED BY <1>4, <2>1, <2>3 DEF KbdInv
<1>8. MouseInv'
  <2>1. PICK G : G = MiceWith(buttons') OBVIOUS
  <2>2. g \in G BY <1>1, <1>2, <2>1
  <2>3. Newest(Append(v, g), Mice, G) /\ ~Silent(Append(v, g), Mice)
    BY <1>1, <1>3, <2>2, NewestAppend
  <2> QED BY <1>4, <2>1, <2>3 DEF MouseInv
<1>9. PlaceInv'
  <2> SUFFICES ASSUME Reaches', "place" \in fresh', "mouse" \in opened
               PROVE  /\ Newest(Way', Moves, MovesTo(place))
                      /\ Silent(Way', Moves) => pointer.place = place /\ last.place = place
    BY <1>2 DEF PlaceInv
  <2>1. Reaches /\ Way' = Append(v, g) /\ "place" \in fresh
    BY <1>1, <1>4, TellsWhat
  <2>2. /\ Newest(Way, Moves, MovesTo(place))
        /\ Silent(Way, Moves) => pointer.place = place /\ last.place = place
    BY <2>1 DEF PlaceInv
  <2>3. PICK G : G = MovesTo(place) OBVIOUS
  <2>4. Newest(v, Moves, G) BY <1>6, <2>2, <2>3
  <2>5. Newest(Append(v, g), Moves, G) /\ (Silent(Append(v, g), Moves) => Silent(v, Moves))
    BY <1>1, <1>3, <2>4, NewestAppend
  <2> QED BY <1>6, <2>1, <2>2, <2>3, <2>5
<1> QED BY <1>7, <1>8, <1>9

\* What the hid thread does with a frame, by its kind.
LEMMA HidEffect ==
    ASSUME TypeOK, HostInv, HidStep, NEW f \in Frame, f = Head(queue)
    PROVE  /\ UNCHANGED <<dc, sess, fresh, mode, opened, host>>
           /\ UNCHANGED <<modifier, keys, buttons, place>>
           /\ UNCHANGED <<combos, typing, typed, lift, whole>>
           /\ f \in Kbds /\ host # "off" =>
                  /\ "kbd" \in opened => down' = f.down
                  /\ "kbd" \notin opened => down' = down
           /\ f \notin Kbds => down' = down
           /\ f \in Moves /\ host # "off" /\ "mouse" \in opened =>
                  /\ pointer'.buttons = f.buttons /\ pointer'.place = f.place
                  /\ last'.place = f.place /\ (mode = "gadget" => last'.buttons = f.buttons)
           /\ f \in Clicks /\ host # "off" /\ "mouse" \in opened =>
                  /\ pointer'.buttons = f.buttons /\ pointer'.place = last.place
                  /\ last'.place = last.place /\ (mode = "gadget" => last'.buttons = f.buttons)
           /\ f \notin Mice => last' = last
           /\ f \notin Mice /\ host # "off" /\ "mouse" \in opened =>
                  \/ pointer' = pointer
                  \/ mode = "gadget" /\ pointer' = last
                  \/ /\ mode # "gadget" /\ pointer'.place = last.place
                     /\ pointer'.buttons = {}
           /\ strokes' = IF whole THEN strokes \o SetToSeq((down' \cap Char) \ down)
                         ELSE strokes
<1> DEFINE Moved == f \in Moves /\ host # "off" /\ "mouse" \in opened =>
                        /\ pointer'.buttons = f.buttons /\ pointer'.place = f.place
                        /\ last'.place = f.place
                        /\ (mode = "gadget" => last'.buttons = f.buttons)
           Clicked == f \in Clicks /\ host # "off" /\ "mouse" \in opened =>
                        /\ pointer'.buttons = f.buttons /\ pointer'.place = last.place
                        /\ last'.place = last.place
                        /\ (mode = "gadget" => last'.buttons = f.buttons)
           Else == /\ f \notin Mice => last' = last
                   /\ f \notin Mice /\ host # "off" /\ "mouse" \in opened =>
                          \/ pointer' = pointer
                          \/ mode = "gadget" /\ pointer' = last
                          \/ /\ mode # "gadget" /\ pointer'.place = last.place
                             /\ pointer'.buttons = {}
<1>1. /\ UNCHANGED <<dc, sess, fresh, mode, opened, host>>
      /\ UNCHANGED <<modifier, keys, buttons, place>>
      /\ UNCHANGED <<combos, typing, typed, lift, whole>>
      /\ ~Blocks(f) /\ Handle(f)
  BY DEF HidStep, pageVars, timeVars, linkVars
<1>2. host = "asleep" => mode = "gadget" BY DEF HostInv
<1>3. /\ last \in Mouse /\ mode \in {"gadget", "ch9329"} /\ host \in {"on", "asleep", "off"}
  BY DEF TypeOK
<1>4. last = [buttons |-> last.buttons, place |-> last.place] BY <1>3 DEF Mouse
<1>5. Written(f) /\ host # "off" => host = "on"
  BY <1>1, <1>2, <1>3 DEF Blocks
<1>6. strokes' = IF whole THEN strokes \o SetToSeq((down' \cap Char) \ down) ELSE strokes
  BY <1>1 DEF Handle
<1>7. /\ f \in Kbds /\ host # "off" => /\ "kbd" \in opened => down' = f.down
                                       /\ "kbd" \notin opened => down' = down
      /\ f \notin Kbds => down' = down
  <2>1. f \in Kbds <=> f.kind = "kbd" BY TellsWhat
  <2>2. down' = IF Written(f) /\ host = "on" /\ f.kind = "kbd" THEN f.down ELSE down
    BY <1>1 DEF Handle
  <2>3. f.kind = "kbd" => (Written(f) <=> "kbd" \in opened) BY DEF Written, Device
  <2> QED BY <1>5, <2>1, <2>2, <2>3
<1>8. /\ f \in Moves <=> f.kind = "move"
      /\ f \in Clicks <=> f.kind = "btn"
      /\ f \in Mice <=> f.kind = "move" \/ f.kind = "btn"
      /\ f.kind \in {"kbd", "move", "btn", "wheel", "ctl"}
  BY TellsWhat DEF Mice
<1>9. last' = Remember(f)
      /\ pointer' = IF Written(f) /\ host = "on" /\ f.kind # "kbd"
                    THEN MouseReport(f) ELSE pointer
  BY <1>1 DEF Handle
<1>10. f.kind \in {"move", "btn", "wheel"} /\ "mouse" \in opened => Written(f)
  BY DEF Written, Device
<1>11. ~Written(f) \/ f.kind \in {"kbd", "move", "btn", "wheel"} BY <1>8 DEF Written
<1>12. ASSUME f.kind = "move" PROVE Moved /\ Clicked /\ Else
  <2>1. last' = [buttons |-> IF mode = "gadget" THEN f.buttons ELSE last.buttons,
                 place |-> f.place]
    BY <1>9, <1>12 DEF Remember
  <2>2. MouseReport(f) = [buttons |-> f.buttons, place |-> f.place]
    BY <1>12 DEF MouseReport
  <2>3. host # "off" /\ "mouse" \in opened =>
            pointer' = [buttons |-> f.buttons, place |-> f.place]
    BY <1>5, <1>9, <1>10, <1>12, <2>2
  <2> QED BY <1>8, <1>12, <2>1, <2>3
<1>13. ASSUME f.kind = "btn" PROVE Moved /\ Clicked /\ Else
  <2>1. last' = IF mode = "gadget" THEN [last EXCEPT !.buttons = f.buttons] ELSE last
    BY <1>9, <1>13 DEF Remember
  <2>2. last'.place = last.place /\ (mode = "gadget" => last'.buttons = f.buttons)
    BY <1>4, <2>1
  <2>3. MouseReport(f) = [buttons |-> f.buttons, place |-> last.place]
    BY <1>13 DEF MouseReport
  <2>4. host # "off" /\ "mouse" \in opened =>
            pointer' = [buttons |-> f.buttons, place |-> last.place]
    BY <1>5, <1>9, <1>10, <1>13, <2>3
  <2> QED BY <1>8, <1>13, <2>2, <2>4
<1>14. ASSUME f.kind = "wheel" PROVE Moved /\ Clicked /\ Else
  <2>1. last' = last BY <1>9, <1>14 DEF Remember
  <2>2. MouseReport(f) = IF mode = "gadget" THEN last ELSE [last EXCEPT !.buttons = {}]
    BY <1>14 DEF MouseReport
  <2>3. host # "off" /\ "mouse" \in opened =>
            pointer' = IF mode = "gadget" THEN last ELSE [last EXCEPT !.buttons = {}]
    BY <1>5, <1>9, <1>10, <1>14, <2>2
  <2>4. [last EXCEPT !.buttons = {}].place = last.place
        /\ [last EXCEPT !.buttons = {}].buttons = {}
    BY <1>4
  <2> QED BY <1>8, <1>14, <2>1, <2>3, <2>4
<1>15. ASSUME f.kind \in {"kbd", "ctl"} PROVE Moved /\ Clicked /\ Else
  <2>1. last' = last BY <1>9, <1>15 DEF Remember
  <2>2. pointer' = pointer BY <1>9, <1>11, <1>15
  <2> QED BY <1>8, <1>15, <2>1, <2>2
<1>16. Moved /\ Clicked /\ Else BY <1>8, <1>12, <1>13, <1>14, <1>15
<1> QED BY <1>1, <1>6, <1>7, <1>16, Zenon

\* The oldest frame is taken: the newest of its kind was right, and now the
\* machine is.
LEMMA HidKeeps ==
    ASSUME TypeOK, HostInv, KbdInv, MouseInv, PlaceInv, HidStep
    PROVE  KbdInv' /\ MouseInv' /\ PlaceInv'
<1>1. PICK f : f = Head(queue) OBVIOUS
<1>2. Way \in Seq(Frame) /\ Way # <<>> /\ Way' = Tail(Way) /\ Head(Way) = f /\ f \in Frame
  BY <1>1, HidWay, WayFrames
<1>3. /\ UNCHANGED <<dc, sess, fresh, mode, opened, host>>
      /\ UNCHANGED <<modifier, keys, buttons, place>>
      /\ UNCHANGED <<combos, lift>>
      /\ f \in Kbds /\ host # "off" => /\ "kbd" \in opened => down' = f.down
                                       /\ "kbd" \notin opened => down' = down
      /\ f \notin Kbds => down' = down
      /\ f \in Moves /\ host # "off" /\ "mouse" \in opened =>
             /\ pointer'.buttons = f.buttons /\ pointer'.place = f.place
             /\ last'.place = f.place /\ (mode = "gadget" => last'.buttons = f.buttons)
      /\ f \in Clicks /\ host # "off" /\ "mouse" \in opened =>
             /\ pointer'.buttons = f.buttons /\ pointer'.place = last.place
             /\ last'.place = last.place /\ (mode = "gadget" => last'.buttons = f.buttons)
      /\ f \notin Mice => last' = last
      /\ f \notin Mice /\ host # "off" /\ "mouse" \in opened =>
             \/ pointer' = pointer
             \/ mode = "gadget" /\ pointer' = last
             \/ /\ mode # "gadget" /\ pointer'.place = last.place
                /\ pointer'.buttons = {}
  BY <1>1, <1>2, HidEffect
<1>4. Reaches' <=> Reaches BY <1>3 DEF Reaches
<1>5. Reaches => host # "off" BY DEF Reaches
<1>6. f \in Mice <=> f \in Moves \/ f \in Clicks BY DEF Mice
<1>7. KbdInv'
  <2> SUFFICES ASSUME Reaches, "kbd" \in fresh, combos = 0, ~lift
               PROVE  /\ Newest(Way', Kbds, KbdsWith(modifier \cup Range(keys)))
                      /\ Silent(Way', Kbds) => down' \subseteq modifier \cup Range(keys)
    BY <1>3, <1>4 DEF KbdInv
  <2>1. /\ Newest(Way, Kbds, KbdsWith(modifier \cup Range(keys)))
        /\ Silent(Way, Kbds) => down \subseteq modifier \cup Range(keys)
    BY DEF KbdInv
  <2>2. PICK set : set = modifier \cup Range(keys) OBVIOUS
  <2>3. PICK G : G = KbdsWith(set) OBVIOUS
  <2>4. /\ Newest(Tail(Way), Kbds, G)
        /\ Silent(Tail(Way), Kbds) => \/ Head(Way) \in Kbds /\ Head(Way) \in G
                                      \/ Head(Way) \notin Kbds /\ Silent(Way, Kbds)
    BY <1>2, <2>1, <2>2, <2>3, NewestTail
  <2>5. f \in G => f.down \subseteq set BY <2>3 DEF KbdsWith
  <2>6. "kbd" \notin opened => down = {} BY DEF HostInv
  <2>7. ASSUME Silent(Way', Kbds) PROVE down' \subseteq set
    <3>1. \/ f \in Kbds /\ f \in G
          \/ f \notin Kbds /\ Silent(Way, Kbds)
      BY <1>2, <2>4, <2>7
    <3>2. CASE f \in Kbds /\ f \in G
      <4>1. "kbd" \in opened => down' = f.down BY <1>3, <1>5, <3>2
      <4>2. "kbd" \notin opened => down' = down BY <1>3, <1>5, <3>2
      <4> QED BY <4>1, <4>2, <2>5, <2>6, <3>2
    <3>3. CASE f \notin Kbds /\ Silent(Way, Kbds) BY <1>3, <2>1, <2>2, <3>3
    <3> QED BY <3>1, <3>2, <3>3
  <2> QED BY <1>2, <2>2, <2>3, <2>4, <2>7
<1>8. PlaceInv'
  <2> SUFFICES ASSUME Reaches, "place" \in fresh, "mouse" \in opened
               PROVE  /\ Newest(Way', Moves, MovesTo(place))
                      /\ Silent(Way', Moves) => pointer'.place = place /\ last'.place = place
    BY <1>3, <1>4 DEF PlaceInv
  <2>1. /\ Newest(Way, Moves, MovesTo(place))
        /\ Silent(Way, Moves) => pointer.place = place /\ last.place = place
    BY DEF PlaceInv
  <2>2. PICK G : G = MovesTo(place) OBVIOUS
  <2>3. /\ Newest(Tail(Way), Moves, G)
        /\ Silent(Tail(Way), Moves) => \/ Head(Way) \in Moves /\ Head(Way) \in G
                                       \/ Head(Way) \notin Moves /\ Silent(Way, Moves)
    BY <1>2, <2>1, <2>2, NewestTail
  <2>4. f \in G => f.place = place BY <2>2 DEF MovesTo
  <2>5. ASSUME Silent(Way', Moves) PROVE pointer'.place = place /\ last'.place = place
    <3>1. \/ f \in Moves /\ f \in G
          \/ f \notin Moves /\ Silent(Way, Moves)
      BY <1>2, <2>3, <2>5
    <3>2. CASE f \in Moves /\ f \in G BY <1>3, <1>5, <2>4, <3>2
    <3>3. CASE f \notin Moves /\ Silent(Way, Moves) BY <1>3, <1>5, <1>6, <2>1, <3>3
    <3> QED BY <3>1, <3>2, <3>3
  <2> QED BY <1>2, <2>2, <2>3, <2>5
<1>9. MouseInv'
  <2> SUFFICES ASSUME Reaches, "mouse" \in fresh, "mouse" \in opened
               PROVE  /\ Newest(Way', Mice, MiceWith(buttons))
                      /\ Silent(Way', Mice) =>
                             /\ pointer'.buttons \subseteq buttons
                             /\ mode = "gadget" => pointer'.buttons = buttons
                                                   /\ last'.buttons = buttons
    BY <1>3, <1>4 DEF MouseInv
  <2>1. /\ Newest(Way, Mice, MiceWith(buttons))
        /\ Silent(Way, Mice) =>
               /\ pointer.buttons \subseteq buttons
               /\ mode = "gadget" => pointer.buttons = buttons /\ last.buttons = buttons
    BY DEF MouseInv
  <2>2. PICK G : G = MiceWith(buttons) OBVIOUS
  <2>3. /\ Newest(Tail(Way), Mice, G)
        /\ Silent(Tail(Way), Mice) => \/ Head(Way) \in Mice /\ Head(Way) \in G
                                      \/ Head(Way) \notin Mice /\ Silent(Way, Mice)
    BY <1>2, <2>1, <2>2, NewestTail
  <2>4. f \in G => f.buttons = buttons BY <2>2 DEF MiceWith
  <2>5. ASSUME Silent(Way', Mice)
        PROVE  /\ pointer'.buttons \subseteq buttons
               /\ mode = "gadget" => pointer'.buttons = buttons /\ last'.buttons = buttons
    <3>1. \/ f \in Mice /\ f \in G
          \/ f \notin Mice /\ Silent(Way, Mice)
      BY <1>2, <2>3, <2>5
    <3>2. CASE f \in Mice /\ f \in G BY <1>3, <1>5, <1>6, <2>4, <3>2
    <3>3. CASE f \notin Mice /\ Silent(Way, Mice) BY <1>3, <1>5, <2>1, <3>3
    <3> QED BY <3>1, <3>2, <3>3
  <2> QED BY <1>2, <2>2, <2>3, <2>5
<1> QED BY <1>7, <1>8, <1>9

(***************************************************************************)
(* The invariant of the text                                               *)
(***************************************************************************)

\* Before typeText nothing is typed.
NoText == typed = 0 /\ ~lift /\ strokes = <<>> /\ ~whole

\* Afterwards, while no frame is lost.
InText ==
    /\ Reaches /\ "kbd" \in opened
    /\ typing = "done" => typed = Len(Text)
    /\ Len(strokes) <= Len(Text) /\ strokes = SubSeq(Text, 1, Len(strokes))
    /\ \E u \in {0, 1} : Leads(Way, Len(strokes), CharDown, typed, u) /\ (~lift => u = 0)

\* What the parts of a sequence do not show the whole does not.
LEMMA NoCharParts ==
    ASSUME NEW s \in Seq(Frame), NEW t \in Seq(Frame)
    PROVE  NoCharIn(s) /\ NoCharIn(t) => NoCharIn(s \o t)
<1> SUFFICES ASSUME NoCharIn(s), NoCharIn(t) PROVE NoCharIn(s \o t) OBVIOUS
<1>1. ASSUME NEW i \in 1..Len(s \o t), (s \o t)[i] \in Kbds
      PROVE  (s \o t)[i].down \cap Char = {}
  <2>1. CASE i <= Len(s)
    <3>1. i \in 1..Len(s) /\ (s \o t)[i] = s[i] BY <2>1
    <3> QED BY <3>1, <1>1 DEF NoCharIn
  <2>2. CASE i > Len(s)
    <3>1. i - Len(s) \in 1..Len(t) /\ (s \o t)[i] = t[i - Len(s)] BY <2>2
    <3> QED BY <3>1, <1>1 DEF NoCharIn
  <2> QED BY <2>1, <2>2
<1> QED BY <1>1 DEF NoCharIn

\* TextInv in two parts, now and next.
LEMMA TextParts == TextInv <=> (typing = "idle" => NoText) /\ (whole => InText)
BY Zenon DEF TextInv, NoText, InText

\* The same of the next state, in the direction the steps need.
LEMMA TextPartsNext ==
    (typing' = "idle" => NoText') /\ (whole' => InText') => TextInv'
BY Zenon DEF TextInv, NoText, InText

\* A step that moves no frame, or none that counts, and leaves the text alone.
LEMMA TextSame ==
    ASSUME TextInv, whole => Way' = Way,
           UNCHANGED <<typing, typed, lift, strokes, down, opened>>,
           whole' => whole /\ (Reaches => Reaches'), ~whole => ~whole'
    PROVE  TextInv'
<1>1. CharDown' = CharDown BY DEF CharDown
<1>2. ASSUME typing' = "idle" PROVE NoText' BY <1>2, TextParts DEF NoText
<1>3. ASSUME whole' PROVE InText' BY <1>1, <1>3, TextParts DEF InText
<1> QED BY <1>2, <1>3, TextPartsNext

\* A frame is lost, or may be: the text is not followed any more.
LEMMA TextLost ==
    ASSUME TextInv, ~whole', UNCHANGED <<typing, typed, lift>>, strokes' = <<>>
    PROVE  TextInv'
<1>1. ASSUME typing' = "idle" PROVE NoText' BY <1>1, TextParts DEF NoText
<1> QED BY <1>1, TextPartsNext

\* typeText begins: what is under way shows no character.
LEMMA TextBegins ==
    ASSUME TypeOK, TextInv, TypeText PROVE TextInv'
<1>1. /\ typing = "idle" /\ typing' = "on" /\ dc
      /\ UNCHANGED <<typed, lift, wire, dc, sess, holding, queue, opened, host, down, strokes>>
  BY DEF TypeText, linkVars, hidVars, hostVars
<1>2. NoText BY <1>1, TextParts
<1>3. Way' = Way BY <1>1 DEF Way, Held
<1>4. ASSUME whole' PROVE InText'
  <2>0. /\ sess /\ host # "off" /\ "kbd" \in opened /\ down \cap Char = {}
        /\ \A f \in Range(queue) \cup {holding} \cup Range(wire) : ~ShowsText(f)
    BY <1>4, Zenon DEF TypeText
  <2>1. Reaches' /\ "kbd" \in opened' BY <1>1, <2>0 DEF Reaches
  <2>2. typed' = 0 /\ strokes' = <<>> /\ ~lift' BY <1>1, <1>2 DEF NoText
  <2>3. CharDown' = 0 BY <1>1, <2>0 DEF CharDown
  <2>4. Way \in Seq(Frame) /\ NoCharIn(Way)
    <3>1. queue \in Seq(Frame) /\ wire \in Seq(Frame) /\ Held \in Seq(Frame)
      BY WayFrames DEF TypeOK
    <3>2. ASSUME NEW f \in Frame, f \in Kbds, ~ShowsText(f) PROVE f.down \cap Char = {}
      BY <3>2, NoneAssumption, TellsWhat DEF ShowsText
    <3>3. ASSUME NEW w \in Seq(Frame), \A f \in Range(w) : ~ShowsText(f)
          PROVE  NoCharIn(w)
      BY <3>2, <3>3 DEF NoCharIn, Range
    <3>4. NoCharIn(queue) /\ NoCharIn(wire) BY <2>0, <3>1, <3>3
    <3>5. NoCharIn(Held)
      <4>1. CASE holding = None BY <4>1 DEF Held, NoCharIn
      <4>2. CASE holding # None
        <5>1. Held = <<holding>> /\ holding \in Frame /\ ~ShowsText(holding)
          BY <2>0, <4>2 DEF Held, TypeOK
        <5> QED BY <3>2, <5>1 DEF NoCharIn
      <4> QED BY <4>1, <4>2
    <3>6. queue \o Held \in Seq(Frame) /\ NoCharIn(queue \o Held)
      BY <3>1, <3>4, <3>5, NoCharParts
    <3>7. NoCharIn((queue \o Held) \o wire)
      <4>1. PICK w : w = queue \o Held OBVIOUS
      <4>2. w \in Seq(Frame) /\ NoCharIn(w) BY <3>6, <4>1
      <4> QED BY <3>1, <3>4, <4>1, <4>2, NoCharParts
    <3> QED BY <3>7, WayFrames DEF Way
  <2>5. Leads(Way, 0, 0, 0, 0) BY <2>4, LeadsFromIdle
  <2>6. Text \in Seq(Char) BY TextChars
  <2>7. Len(strokes') = 0 /\ Len(strokes') <= Len(Text) /\ strokes' = SubSeq(Text, 1, Len(strokes'))
    BY <2>2, <2>6
  <2>8. Leads(Way', Len(strokes'), CharDown', typed', 0) BY <1>3, <2>2, <2>3, <2>5, <2>7
  <2>9. typing' # "done" BY <1>1
  <2> QED BY <2>1, <2>7, <2>8, <2>9 DEF InText
<1>5. typing' # "idle" BY <1>1
<1> QED BY <1>4, <1>5, TextPartsNext

\* What a sent frame shows is what has been typed.
LEMMA TextSends ==
    ASSUME TypeOK, TextInv, NEW f \in Frame, Sends(f) PROVE TextInv'
<1>1. /\ SendHid(<<f>>) /\ SendsText(f)
      /\ UNCHANGED <<dc, sess, holding, queue, opened, host, down>>
  BY DEF Sends, OtherThanReport, linkVars, hidVars, hostVars
<1>2. /\ dc /\ sess => Way' = Append(Way, f)
      /\ ~(dc /\ sess) => Way' = Way
      /\ Way \in Seq(Frame)
  BY <1>1, SendOne, WayFrames
<1>3. ASSUME typing' = "idle" PROVE NoText'
  <2>1. /\ typed' = typed /\ typing = "idle" /\ (lift' => lift)
        /\ \/ ~whole' /\ strokes' = <<>>
           \/ UNCHANGED <<strokes, whole>>
    BY <1>1, <1>3 DEF SendsText, SendsTyped, SendsNoChar
  <2>2. NoText BY <2>1, TextParts
  <2> QED BY <2>1, <2>2 DEF NoText
<1>4. ASSUME whole' PROVE InText'
  <2>0. SendsTyped(f) /\ UNCHANGED <<strokes, whole>> BY <1>1, <1>4 DEF SendsText
  <2>1. InText BY <2>0, <1>4, TextParts
  <2>2. /\ Reaches' /\ Reaches /\ dc /\ sess /\ "kbd" \in opened'
        /\ Way' = Append(Way, f) /\ CharDown' = CharDown
    BY <1>1, <1>2, <2>1 DEF InText, Reaches, CharDown
  <2>3. PICK u \in {0, 1} : Leads(Way, Len(strokes), CharDown, typed, u) /\ (~lift => u = 0)
    BY <2>1 DEF InText
  <2>4. /\ typing = "done" => typed = Len(Text)
        /\ Len(strokes) <= Len(Text) /\ strokes = SubSeq(Text, 1, Len(strokes))
        /\ typed \in 0..Len(Text) /\ Len(Text) \in Nat
    BY <2>1, HidAssumption DEF InText, TypeOK
  <2>5. PICK c0, u0 : c0 = Len(strokes) /\ u0 = CharDown OBVIOUS
  <2>6. ASSUME NEW c \in 0..Len(Text), NEW v \in {0, 1}, Shows(f, typed, u, c, v),
               typed' = c, ~lift' => v = 0, typing' = "done" => c = Len(Text)
        PROVE  InText'
    <3>1. Leads(Append(Way, f), c0, u0, c, v)
      BY <1>2, <2>3, <2>5, <2>6, LeadsAppend
    <3>2. Leads(Way', Len(strokes'), CharDown', typed', v)
      BY <2>0, <2>2, <2>5, <2>6, <3>1
    <3> QED BY <2>0, <2>2, <2>4, <2>6, <3>2 DEF InText
  <2>7. CASE f \notin Kbds /\ UNCHANGED <<typing, typed, lift>>
    <3>1. Shows(f, typed, u, typed, u) BY <2>7 DEF Shows
    <3> QED BY <2>3, <2>4, <2>6, <2>7, <3>1
  <2>8. CASE f \in Kbds /\ f.down \cap Char = {} /\ typed' = typed
    <3>1. Shows(f, typed, u, typed, 0) BY <2>8 DEF Shows
    <3>2. typing' = "done" => typed = Len(Text)
      BY <2>0, <2>2, <2>4 DEF SendsTyped, SendsNoChar
    <3> QED BY <2>4, <2>6, <2>8, <3>1, <3>2
  <2>9. CASE /\ f \in Kbds /\ typed < Len(Text) /\ f.down = {Text[typed + 1]}
             /\ ~lift /\ lift' /\ typed' = typed + 1 /\ typing' = "on"
    <3>1. u = 0 BY <2>3, <2>9
    <3>2. Shows(f, typed, u, typed + 1, 1) BY <2>9, <3>1 DEF Shows
    <3>3. typed + 1 \in 0..Len(Text) BY <2>4, <2>9
    <3> QED BY <2>6, <2>9, <3>2, <3>3
  <2> QED BY <2>0, <2>7, <2>8, <2>9 DEF SendsTyped, SendsNoChar
<1> QED BY <1>3, <1>4, TextPartsNext

\* The two frames of Escape show no character.
LEMMA TextEscape ==
    ASSUME TypeOK, TextInv, Escape PROVE TextInv'
<1>1. PICK f \in Frame, g \in Frame :
               /\ f \in Kbds /\ f \notin Mice /\ f \notin Moves
               /\ \A set : f \in KbdsWith(set)
               /\ f.down \cap Char = {}
               /\ g \in Mice /\ g \notin Moves /\ g \notin Kbds /\ g \in MiceWith({})
               /\ dc /\ sess => /\ Way' = Append(Append(Way, f), g)
                                /\ fresh' = fresh \cup Tells(f) \cup Tells(g)
               /\ ~(dc /\ sess) => Way' = Way /\ fresh' = fresh
               /\ wire' \in Seq(Frame)
  BY EscapeSends
<1>2. /\ UNCHANGED <<typing, typed, lift, strokes, down, opened>>
      /\ UNCHANGED <<whole, dc, sess, host>>
  BY DEF Escape, OtherThanUser, OtherThanPage, OtherThanReport, timeVars, linkVars, hidVars,
         hostVars, textVars
<1>3. CharDown' = CharDown /\ (Reaches' <=> Reaches) BY <1>2 DEF CharDown, Reaches
<1> DEFINE v == Append(Way, f)
<1>4. Way \in Seq(Frame) /\ v \in Seq(Frame) BY WayFrames
<1> HIDE DEF v
<1>5. CASE ~(dc /\ sess)
  <2>1. Way' = Way BY <1>1, <1>5
  <2> QED BY <1>2, <1>3, <2>1, TextSame
<1>6. CASE dc /\ sess
  <2>1. Way' = Append(v, g) BY <1>1, <1>6 DEF v
  <2>2. ASSUME typing' = "idle" PROVE NoText'
    BY <1>2, <2>2, TextParts DEF NoText
  <2>3. ASSUME whole' PROVE InText'
    <3>1. InText BY <1>2, <2>3, TextParts
    <3>2. PICK u \in {0, 1} : Leads(Way, Len(strokes), CharDown, typed, u) /\ (~lift => u = 0)
      BY <3>1 DEF InText
    <3>3. PICK c0, u0 : c0 = Len(strokes) /\ u0 = CharDown OBVIOUS
    <3>4. typed \in 0..Len(Text) BY DEF TypeOK
    <3>5. Shows(f, typed, u, typed, 0) /\ Shows(g, typed, 0, typed, 0)
      BY <1>1 DEF Shows
    <3>6. Leads(v, c0, u0, typed, 0)
      BY <1>4, <3>2, <3>3, <3>4, <3>5, LeadsAppend DEF v
    <3>7. Leads(Append(v, g), c0, u0, typed, 0) BY <1>4, <3>4, <3>5, <3>6, LeadsAppend
    <3>8. Leads(Way', Len(strokes'), CharDown', typed', 0)
      BY <1>2, <1>3, <2>1, <3>3, <3>7
    <3> QED BY <1>2, <1>3, <3>1, <3>8 DEF InText
  <2> QED BY <2>2, <2>3, TextPartsNext
<1> QED BY <1>5, <1>6

\* What the machine sees is what the oldest frame shows.
LEMMA TextHid ==
    ASSUME TypeOK, HostInv, TextInv, HidStep
    PROVE  TextInv' /\ strokes' \in Seq(Char)
<1>1. PICK f : f = Head(queue) OBVIOUS
<1>2. Way \in Seq(Frame) /\ Way # <<>> /\ Way' = Tail(Way) /\ Head(Way) = f /\ f \in Frame
  BY <1>1, HidWay, WayFrames
<1>3. /\ UNCHANGED <<dc, sess, opened, host>> /\ UNCHANGED <<typing, typed, lift, whole>>
      /\ f \in Kbds /\ host # "off" =>
             /\ "kbd" \in opened => down' = f.down
             /\ "kbd" \notin opened => down' = down
      /\ f \notin Kbds => down' = down
      /\ strokes' = IF whole THEN strokes \o SetToSeq((down' \cap Char) \ down) ELSE strokes
  BY <1>1, <1>2, HidEffect
<1>4. down' \in {down, f.down} /\ (f \notin Kbds => down' = down)
  <2>1. down' \in {down, f.down} BY <1>1 DEF HidStep, Handle
  <2> QED BY <1>3, <2>1
<1>5. ASSUME typing' = "idle" PROVE NoText'
  <2>1. NoText /\ ~whole BY <1>3, <1>5, TextParts DEF NoText
  <2>2. strokes' = strokes BY <1>3, <2>1
  <2> QED BY <1>3, <2>1, <2>2 DEF NoText
<1>6. ASSUME whole PROVE InText' /\ strokes' \in Seq(Char)
  <2>1. InText BY <1>6, TextParts
  <2>2. Reaches /\ Reaches' /\ host # "off" /\ "kbd" \in opened /\ "kbd" \in opened'
    BY <1>3, <2>1 DEF InText, Reaches
  <2>3. PICK u \in {0, 1} : Leads(Way, Len(strokes), CharDown, typed, u) /\ (~lift => u = 0)
    BY <2>1 DEF InText
  <2>4. PICK c0, u0 : c0 = Len(strokes) /\ u0 = CharDown OBVIOUS
  <2>5. PICK c \in 0..Len(Text), v \in {0, 1} :
            Shows(f, c0, u0, c, v) /\ Leads(Tail(Way), c, v, typed, u)
    BY <1>2, <2>3, <2>4, LeadsTail
  <2>6. /\ Text \in Seq(Char) /\ strokes \in Seq(Char)
        /\ c0 <= Len(Text) /\ strokes = SubSeq(Text, 1, c0) /\ c0 \in Nat
    BY <2>1, <2>4, TextChars DEF InText, TypeOK
  <2>7. strokes' = strokes \o SetToSeq((down' \cap Char) \ down) BY <1>3, <1>6
  <2>8. /\ strokes' = SubSeq(Text, 1, c) /\ CharDown' = v
    <3>1. CASE /\ f \in Kbds /\ c0 < Len(Text) /\ f.down = {Text[c0 + 1]}
               /\ u0 = 0 /\ v = 1 /\ c = c0 + 1
      <4>1. down' = {Text[c0 + 1]} BY <1>3, <2>2, <3>1
      <4>2. Text[c0 + 1] \in Char BY <2>6, <3>1
      <4>3. down \cap Char = {} BY <2>4, <3>1 DEF CharDown
      <4>4. (down' \cap Char) \ down = {Text[c0 + 1]} BY <4>1, <4>2, <4>3
      <4>5. strokes' = strokes \o <<Text[c0 + 1]>> BY <2>7, <4>4, SetToSeqSmall
      <4>6. SubSeq(Text, 1, c0) \o <<Text[c0 + 1]>> = SubSeq(Text, 1, c0 + 1)
        <5> DEFINE l == SubSeq(Text, 1, c0) \o <<Text[c0 + 1]>>
                   r == SubSeq(Text, 1, c0 + 1)
        <5>1. l \in Seq(Char) /\ r \in Seq(Char) /\ Len(l) = c0 + 1 /\ Len(r) = c0 + 1
          BY <2>6, <3>1, <4>2
        <5>2. ASSUME NEW i \in 1..(c0 + 1) PROVE l[i] = r[i]
          <6>1. CASE i = c0 + 1 BY <2>6, <3>1, <4>2, <6>1
          <6>2. CASE i # c0 + 1
            <7>1. i \in 1..c0 BY <2>6, <6>2
            <7>2. l[i] = Text[i] BY <2>6, <3>1, <7>1
            <7>3. r[i] = Text[i] BY <2>6, <3>1, <7>1
            <7> QED BY <7>2, <7>3
          <6> QED BY <6>1, <6>2
        <5> HIDE DEF l, r
        <5>3. l = r BY <5>1, <5>2, SeqEqual
        <5> QED BY <5>3 DEF l, r
      <4>7. down' \cap Char # {} BY <4>1, <4>2
      <4> QED BY <2>6, <3>1, <4>5, <4>6, <4>7 DEF CharDown
    <3>2. ASSUME SetToSeq((down' \cap Char) \ down) = <<>>, c = c0
          PROVE  strokes' = SubSeq(Text, 1, c)
      BY <2>6, <2>7, <3>2
    <3>3. CASE f \in Kbds /\ f.down \cap Char = {} /\ v = 0 /\ c = c0
      <4>1. down' \cap Char = {} BY <1>3, <2>2, <3>3
      <4>2. (down' \cap Char) \ down = {} BY <4>1
      <4> QED BY <3>2, <3>3, <4>1, <4>2, SetToSeqSmall DEF CharDown
    <3>4. CASE f \notin Kbds /\ v = u0 /\ c = c0
      <4>1. down' = down BY <1>3, <3>4
      <4>2. (down' \cap Char) \ down = {} BY <4>1
      <4>3. CharDown' = v BY <2>4, <3>4, <4>1 DEF CharDown
      <4> QED BY <3>2, <3>4, <4>2, <4>3, SetToSeqSmall
    <3> QED BY <2>5, <3>1, <3>3, <3>4 DEF Shows
  <2>9. Len(strokes') = c /\ strokes' \in Seq(Char) BY <2>6, <2>8
  <2>10. Leads(Way', Len(strokes'), CharDown', typed', u)
    BY <1>2, <1>3, <2>5, <2>8, <2>9
  <2>11. InText'
    <3>1. UNCHANGED <<typing, typed, lift>> BY <1>3
    <3>2. (typing' = "done" => typed' = Len(Text)) /\ (~lift' => u = 0)
      BY <2>1, <2>3, <3>1 DEF InText
    <3>3. Len(strokes') <= Len(Text) /\ strokes' = SubSeq(Text, 1, Len(strokes'))
      BY <2>6, <2>8, <2>9
    <3> QED BY <2>2, <2>10, <3>2, <3>3 DEF InText
  <2> QED BY <2>9, <2>11
<1>7. ASSUME whole' PROVE InText' BY <1>3, <1>6, <1>7
<1>8. strokes' \in Seq(Char)
  <2>1. CASE whole BY <1>6, <2>1
  <2>2. CASE ~whole BY <1>3, <2>2 DEF TypeOK
  <2> QED BY <2>1, <2>2
<1> QED BY <1>5, <1>7, <1>8, TextPartsNext

(***************************************************************************)
(* Every step                                                              *)
(***************************************************************************)

\* What is under way stays a sequence of frames that fits.
LEMMA WayTypesStep ==
    ASSUME TypeOK, HostInv, PageTypes', TimeTypes', [Next]_vars PROVE WayTypes'
<1> USE DEF linkVars, hidVars, hostVars, textVars, pageVars, timeVars,
            OtherThanReport, OtherThanPage, OtherThanUser, OtherThanLoop, OtherThanHost
<1>0. /\ fresh \subseteq {"kbd", "mouse", "place", "ctl"}
      /\ wire \in Seq(Frame) /\ holding \in Frame \cup {None}
      /\ queue \in Seq(Frame) /\ Len(queue) <= HidCap
  BY DEF TypeOK
<1>1. CASE UNCHANGED <<fresh, wire, holding, queue>> BY <1>0, <1>1 DEF WayTypes
<1>2. CASE PageStep \/ Timer
  <2>1. ASSUME NEW f \in Frame, Sends(f) PROVE WayTypes'
    <3>1. SendHid(<<f>>) /\ UNCHANGED <<holding, queue>> BY <2>1 DEF Sends
    <3>2. wire' \in Seq(Frame) /\ (fresh' = fresh \/ fresh' = fresh \cup Tells(f))
      BY <3>1, SendOne
    <3>3. Tells(f) \subseteq {"kbd", "mouse", "place", "ctl"} BY TellsWhat
    <3> QED BY <1>0, <3>1, <3>2, <3>3 DEF WayTypes
  <2>2. CASE Escape
    <3>1. PICK f \in Frame, g \in Frame :
              /\ fresh' = fresh \/ fresh' = fresh \cup Tells(f) \cup Tells(g)
              /\ wire' \in Seq(Frame)
      BY <2>2, EscapeSends
    <3>2. /\ Tells(f) \subseteq {"kbd", "mouse", "place", "ctl"}
          /\ Tells(g) \subseteq {"kbd", "mouse", "place", "ctl"}
      BY TellsWhat
    <3>3. UNCHANGED <<holding, queue>> BY <2>2 DEF Escape
    <3> QED BY <1>0, <3>1, <3>2, <3>3 DEF WayTypes
  <2>3. CASE ActivateCapture \/ TypeText
    BY <2>3, <1>1 DEF ActivateCapture, TypeText
  <2> QED BY <1>2, <2>1, <2>2, <2>3, PageSends
<1>3. CASE Link
  <2>1. <<>> \in Seq(Frame) OBVIOUS
  <2>2. CASE Disconnect
    <3>1. PICK f, g : f = Release /\ g = Buttons({}) OBVIOUS
    <3>2. {} \in SUBSET Usage /\ {} \in SUBSET Button OBVIOUS
    <3>3. f \in Frame BY <3>1, <3>2, FramesSent, KbdFrame
    <3>4. g \in Frame BY <3>1, <3>2, FramesSent DEF Clicks, Frame
    <3>5. wire \o <<f, g>> \in Seq(Frame) BY <1>0, <3>3, <3>4
    <3>6. PICK sent \in Seq(Frame) : \E n \in 0..Len(sent) : wire' = SubSeq(sent, 1, n)
      BY <1>0, <2>2, <3>1, <3>5 DEF Disconnect
    <3>7. wire' \in Seq(Frame) BY <3>6
    <3>8. UNCHANGED <<fresh, holding, queue>> BY <2>2 DEF Disconnect
    <3> QED BY <1>0, <3>7, <3>8 DEF WayTypes
  <2>3. CASE AgentGone BY <1>0, <2>1, <2>3 DEF AgentGone, WayTypes
  <2>4. CASE DcCloses \/ Connect BY <2>4, <1>1 DEF DcCloses, Connect
  <2> QED BY <1>3, <2>2, <2>3, <2>4 DEF Link
<1>4. CASE Agent
  <2>1. fresh' = fresh BY <1>4 DEF Agent, ChannelData, SendDone
  <2> QED BY <1>0, <1>4, <2>1, AgentWay DEF WayTypes
<1>5. CASE HidStep
  <2>1. UNCHANGED <<fresh, wire, holding>> BY <1>5 DEF HidStep
  <2> QED BY <1>0, <1>5, <2>1, HidWay DEF WayTypes
<1>6. CASE Host
  <2>1. UNCHANGED <<wire, holding, queue>> /\ (fresh' = fresh \/ fresh' = {})
    BY <1>6 DEF Host, HostSleeps, HostWakes, HostLeaves, HostReturns
  <2> QED BY <1>0, <2>1 DEF WayTypes
<1>7. CASE UNCHANGED vars BY <1>7, <1>1 DEF vars
<1> QED BY <1>2, <1>3, <1>4, <1>5, <1>6, <1>7 DEF Next

\* What a frame makes the thread remember and the machine see.
LEMMA HandleTypes ==
    ASSUME TypeOK, HidStep
    PROVE  last' \in Mouse /\ pointer' \in Mouse /\ video' \in Setting /\ down' \in SUBSET Usage
<1>1. PICK f : f = Head(queue) OBVIOUS
<1>2. f \in Frame BY <1>1, HidWay
<1>3. last \in Mouse /\ pointer \in Mouse /\ video \in Setting /\ down \in SUBSET Usage
  BY DEF TypeOK
<1>4. /\ last' = Remember(f)
      /\ video' = IF f.kind = "ctl" THEN f.to ELSE video
      /\ down' = IF Written(f) /\ host = "on" /\ f.kind = "kbd" THEN f.down ELSE down
      /\ pointer' = IF Written(f) /\ host = "on" /\ f.kind # "kbd"
                    THEN MouseReport(f) ELSE pointer
  BY <1>1 DEF HidStep, Handle
<1>5. /\ f.kind = "kbd" => f.down \in SUBSET Usage
      /\ f.kind = "ctl" => f.to \in Setting
      /\ f.kind = "move" => f.buttons \in SUBSET Button /\ f.place \in Place
      /\ f.kind = "btn" => f.buttons \in SUBSET Button
      /\ f.kind \in {"kbd", "move", "btn", "wheel", "ctl"}
  BY <1>2 DEF Frame
<1>6. /\ last.buttons \in SUBSET Button /\ last.place \in Place
      /\ last = [buttons |-> last.buttons, place |-> last.place]
  BY <1>3 DEF Mouse
<1>7. Remember(f) \in Mouse
  <2>1. CASE f.kind = "move" BY <1>5, <1>6, <2>1 DEF Remember, Mouse
  <2>2. CASE f.kind = "btn" BY <1>3, <1>5, <1>6, <2>2 DEF Remember, Mouse
  <2>3. CASE f.kind \in {"kbd", "wheel", "ctl"} BY <1>3, <2>3 DEF Remember
  <2> QED BY <1>5, <2>1, <2>2, <2>3
<1>8. f.kind \in {"move", "btn", "wheel"} => MouseReport(f) \in Mouse
  <2>1. CASE f.kind = "move" BY <1>5, <2>1 DEF MouseReport, Mouse
  <2>2. CASE f.kind = "btn" BY <1>5, <1>6, <2>2 DEF MouseReport, Mouse
  <2>3. CASE f.kind = "wheel" BY <1>3, <1>6, <2>3 DEF MouseReport, Mouse
  <2> QED BY <2>1, <2>2, <2>3
<1>9. Written(f) => f.kind # "ctl" BY DEF Written
<1> QED BY <1>3, <1>4, <1>5, <1>7, <1>8, <1>9

\* The hid thread and the machine keep their types.
LEMMA MachineTypesStep ==
    ASSUME TypeOK, HostInv, TextInv, [Next]_vars PROVE HidTypes' /\ HostTypes'
<1> USE DEF linkVars, hidVars, hostVars, textVars, pageVars, timeVars,
            OtherThanReport, OtherThanPage, OtherThanUser, OtherThanLoop, OtherThanHost
<1>0. HidTypes /\ HostTypes BY TypeParts
<1>1. CASE UNCHANGED <<mode, opened, last, video, uses>>
  <2>1. HidTypes' BY <1>0, <1>1 DEF HidTypes
  <2>2. CASE UNCHANGED <<host, down, pointer, strokes>>
    BY <1>0, <2>1, <2>2 DEF HostTypes
  <2>3. <<>> \in Seq(Char) OBVIOUS
  <2>4. CASE UNCHANGED <<host, down, pointer>> /\ strokes' = <<>>
    BY <1>0, <2>1, <2>3, <2>4 DEF HostTypes
  <2>5. CASE PageStep
    <3>1. ASSUME UNCHANGED <<host, down, pointer>>, NEW f, SendReport(f) PROVE HostTypes'
      <4>1. strokes' = strokes \/ strokes' = <<>> BY <3>1 DEF SendReport
      <4> QED BY <2>2, <2>4, <3>1, <4>1
    <3>2. ASSUME \/ \E k \in Key : KeyDown(k) \/ KeyUp(k)
                 \/ \E m \in Modifier : ModifierKey(m)
                 \/ \E c \in Combos : SendKeyCombo(c)
          PROVE  UNCHANGED <<host, down, pointer>> /\ \E f : SendReport(f)
      BY <3>2 DEF KeyDown, KeyUp, ModifierKey, SendKeyCombo
    <3>3. ASSUME \/ \E p \in Place : MouseMove(p)
                 \/ \E b \in Button : MouseButton(b)
                 \/ \E v \in Setting : Change(v)
                 \/ Wheel \/ ActivateCapture \/ Escape \/ TypeText
          PROVE  UNCHANGED <<host, down, pointer, strokes>>
      BY <3>3 DEF MouseMove, MouseButton, Wheel, ActivateCapture, Escape, TypeText, Change
    <3> QED BY <2>1, <2>2, <2>5, <3>1, <3>2, <3>3 DEF PageStep
  <2>6. CASE Timer BY <2>2, <2>6 DEF Timer, ComboRelease, TypeTick, TypeLift
  <2>7. CASE Link
    <3>1. CASE Disconnect \/ AgentGone BY <2>4, <3>1 DEF Disconnect, AgentGone
    <3>2. CASE DcCloses \/ Connect BY <2>2, <3>2 DEF DcCloses, Connect
    <3> QED BY <2>7, <3>1, <3>2 DEF Link
  <2>8. CASE Agent BY <2>2, <2>8 DEF Agent, ChannelData, SendDone
  <2>9. CASE HidStep
    <3>1. host' = host BY <2>9 DEF HidStep
    <3> QED BY <1>0, <2>1, <2>9, <3>1, HandleTypes, TextHid DEF HostTypes
  <2>10. CASE Host
    <3>1. CASE HostLeaves
      <4>1. /\ host' = "off" /\ down' = {} /\ strokes' = <<>>
            /\ pointer' = [pointer EXCEPT !.buttons = {}]
        BY <3>1 DEF HostLeaves
      <4>2. pointer' \in Mouse BY <1>0, <4>1 DEF HostTypes, Mouse
      <4> QED BY <2>1, <2>3, <4>1, <4>2 DEF HostTypes
    <3>2. CASE HostSleeps \/ HostWakes \/ HostReturns
      <4>1. UNCHANGED <<down, pointer, strokes>> /\ host' \in {"on", "asleep"}
        BY <3>2 DEF HostSleeps, HostWakes, HostReturns
      <4> QED BY <1>0, <2>1, <4>1 DEF HostTypes
    <3> QED BY <2>10, <3>1, <3>2 DEF Host
  <2>11. CASE UNCHANGED vars BY <2>2, <2>11 DEF vars
  <2> QED BY <2>5, <2>6, <2>7, <2>8, <2>9, <2>10, <2>11 DEF Next
<1>2. CASE HidStep
  <2>1. UNCHANGED <<mode, opened, uses, host>> BY <1>2 DEF HidStep
  <2> QED BY <1>0, <1>2, <2>1, HandleTypes, TextHid DEF HidTypes, HostTypes
<1>3. ASSUME ~HidStep PROVE UNCHANGED <<mode, opened, last, video, uses>>
  BY <1>3 DEF Next, PageStep, KeyDown, KeyUp, ModifierKey, MouseMove, MouseButton, Wheel,
        ActivateCapture, Escape, SendKeyCombo, TypeText, Change,
        Timer, ComboRelease, TypeTick, TypeLift,
        Link, Disconnect, AgentGone, DcCloses, Connect, Agent, ChannelData, SendDone,
        Host, HostSleeps, HostWakes, HostLeaves, HostReturns, vars
<1> QED BY <1>1, <1>2, <1>3

\* A machine sleeps only behind gadgets, and so on.
LEMMA HostInvStep ==
    ASSUME TypeOK, HostInv, PageTypes', TimeTypes', [Next]_vars PROVE HostInv'
<1> USE DEF linkVars, hidVars, hostVars, textVars, pageVars, timeVars,
            OtherThanReport, OtherThanPage, OtherThanUser, OtherThanLoop, OtherThanHost
<1>0. UNCHANGED <<mode, opened>> => (Runs' <=> Runs) BY DEF Runs
<1>1. CASE /\ UNCHANGED <<sess, mode, opened, host, down>> /\ (~sess => fresh' = fresh)
           /\ UNCHANGED <<queue, holding>>
  BY <1>0, <1>1 DEF HostInv
<1>2. CASE PageStep \/ Timer
  <2>1. ASSUME NEW f \in Frame, Sends(f) PROVE HostInv'
    <3>1. /\ SendHid(<<f>>) /\ UNCHANGED <<holding, queue>>
          /\ UNCHANGED <<sess, mode, opened, host, down>>
      BY <2>1 DEF Sends
    <3>2. ~sess => fresh' = fresh BY <3>1, SendOne
    <3> QED BY <1>1, <3>1, <3>2
  <2>2. CASE Escape
    <3>1. ~sess => fresh' = fresh BY <2>2, EscapeSends
    <3>2. UNCHANGED <<sess, mode, opened, host, down, queue, holding>> BY <2>2 DEF Escape
    <3> QED BY <1>1, <3>1, <3>2
  <2>3. CASE ActivateCapture \/ TypeText
    BY <2>3, <1>1 DEF ActivateCapture, TypeText
  <2> QED BY <1>2, <2>1, <2>2, <2>3, PageSends
<1>3. CASE Link
  <2>1. CASE Disconnect \/ DcCloses BY <2>1, <1>1 DEF Disconnect, DcCloses
  <2>2. CASE AgentGone
    <3>1. /\ UNCHANGED <<mode, opened, host, down, queue>> /\ fresh' = {} /\ holding' = None
      BY <2>2 DEF AgentGone
    <3> QED BY <1>0, <3>1 DEF HostInv
  <2>3. CASE Connect
    <3>1. /\ UNCHANGED <<mode, opened, host, down, queue, holding, fresh>> /\ sess'
      BY <2>3 DEF Connect
    <3> QED BY <1>0, <3>1 DEF HostInv
  <2> QED BY <1>3, <2>1, <2>2, <2>3 DEF Link
<1>4. CASE Agent
  <2>1. UNCHANGED <<sess, mode, opened, host, down, fresh>>
    BY <1>4 DEF Agent, ChannelData, SendDone
  <2>2. ~Runs => UNCHANGED <<queue, holding>> BY <1>4, AgentWay
  <2> QED BY <1>0, <2>1, <2>2 DEF HostInv
<1>5. CASE HidStep
  <2>1. UNCHANGED <<sess, fresh, mode, opened, host>> BY <1>5 DEF HidStep
  <2>2. "kbd" \notin opened => down' = down
    BY <1>5 DEF HidStep, Handle, Written, Device
  <2>3. Runs /\ holding' = holding BY <1>5 DEF HidStep, HostInv
  <2> QED BY <1>0, <2>1, <2>2, <2>3 DEF HostInv
<1>6. CASE Host
  <2>0. UNCHANGED <<mode, opened, queue, holding>>
    BY <1>6 DEF Host, HostSleeps, HostWakes, HostLeaves, HostReturns
  <2>1. CASE HostSleeps BY <1>0, <2>0, <2>1 DEF HostSleeps, HostInv
  <2>2. CASE HostWakes BY <1>0, <2>0, <2>2 DEF HostWakes, HostInv
  <2>3. CASE HostLeaves BY <1>0, <2>0, <2>3 DEF HostLeaves, HostInv
  <2>4. CASE HostReturns BY <1>0, <2>0, <2>4 DEF HostReturns, HostInv
  <2> QED BY <1>6, <2>1, <2>2, <2>3, <2>4 DEF Host
<1>7. CASE UNCHANGED vars BY <1>7, <1>1 DEF vars
<1> QED BY <1>2, <1>3, <1>4, <1>5, <1>6, <1>7 DEF Next

\* The newest frames stay right in every step.
LEMMA NewestStep ==
    ASSUME TypeOK, HostInv, KbdInv, MouseInv, PlaceInv, PageTypes', TimeTypes', [Next]_vars
    PROVE  KbdInv' /\ MouseInv' /\ PlaceInv'
<1> USE DEF linkVars, hidVars, hostVars, textVars, pageVars, timeVars,
            OtherThanReport, OtherThanPage, OtherThanUser, OtherThanLoop, OtherThanHost
<1>1. CASE PageStep \/ Timer
  <2>1. CASE ActivateCapture \/ TypeText
    <3>1. /\ UNCHANGED <<dc, sess, fresh>> /\ UNCHANGED <<modifier, keys, buttons, place>>
          /\ UNCHANGED <<combos, lift>> /\ UNCHANGED <<down, pointer, last, mode, opened>>
          /\ host' = host /\ UNCHANGED <<wire, holding, queue>>
      BY <2>1 DEF ActivateCapture, TypeText
    <3>2. Way' = Way BY <3>1 DEF Way, Held
    <3> QED BY <3>1, <3>2, SameWay
  <2> QED BY <1>1, <2>1, PageSends, SendKeeps, EscapeKeeps
<1>2. CASE Link
  <2>1. CASE Disconnect \/ DcCloses
    <3>1. ~Reaches' BY <2>1 DEF Disconnect, DcCloses, Reaches
    <3> QED BY <3>1, Unreached
  <2>2. CASE AgentGone
    <3>1. ~Reaches' BY <2>2 DEF AgentGone, Reaches
    <3> QED BY <3>1, Unreached
  <2>3. CASE Connect
    <3>1. fresh' = {} BY <2>3 DEF Connect, HostInv
    <3> QED BY <3>1, Unreached
  <2> QED BY <1>2, <2>1, <2>2, <2>3 DEF Link
<1>3. CASE Agent
  <2>1. /\ UNCHANGED <<dc, sess, fresh>> /\ UNCHANGED <<modifier, keys, buttons, place>>
        /\ UNCHANGED <<combos, lift>> /\ UNCHANGED <<down, pointer, last, mode, opened>>
        /\ host' = host
    BY <1>3 DEF Agent, ChannelData, SendDone
  <2>2. CASE Runs
    <3>1. Way' = Way BY <1>3, <2>2, AgentWay
    <3> QED BY <2>1, <3>1, SameWay
  <2>3. CASE ~Runs
    <3>1. Way # <<>> /\ Way' = Tail(Way) /\ Way \in Seq(Frame)
      BY <1>3, <2>3, AgentWay, WayFrames
    <3>2. opened' = {} /\ down' = {} BY <2>1, <2>3 DEF HostInv
    <3>3. KbdInv'
      <4> SUFFICES ASSUME Reaches', "kbd" \in fresh', combos' = 0, ~lift'
                   PROVE  Newest(Way', Kbds, KbdsWith(modifier' \cup Range(keys')))
        BY <3>2 DEF KbdInv
      <4>1. PICK G : G = KbdsWith(modifier \cup Range(keys)) OBVIOUS
      <4>2. Newest(Way, Kbds, G) BY <2>1, <4>1 DEF KbdInv, Reaches
      <4>3. Newest(Tail(Way), Kbds, G) BY <3>1, <4>2, NewestTail
      <4> QED BY <2>1, <3>1, <4>1, <4>3
    <3> QED BY <3>2, <3>3 DEF MouseInv, PlaceInv
  <2> QED BY <2>2, <2>3
<1>4. CASE HidStep BY <1>4, HidKeeps
<1>5. CASE Host
  <2>1. CASE HostSleeps \/ HostWakes
    <3>1. /\ UNCHANGED <<dc, sess, fresh>> /\ UNCHANGED <<modifier, keys, buttons, place>>
          /\ UNCHANGED <<combos, lift>> /\ UNCHANGED <<down, pointer, last, mode, opened>>
          /\ host # "off" /\ UNCHANGED <<wire, holding, queue>>
      BY <2>1 DEF HostSleeps, HostWakes
    <3>2. Way' = Way BY <3>1 DEF Way, Held
    <3> QED BY <3>1, <3>2, SameWay
  <2>2. CASE HostLeaves
    <3>1. ~Reaches' BY <2>2 DEF HostLeaves, Reaches
    <3> QED BY <3>1, Unreached
  <2>3. CASE HostReturns
    <3>1. fresh' = {} BY <2>3 DEF HostReturns
    <3> QED BY <3>1, Unreached
  <2> QED BY <1>5, <2>1, <2>2, <2>3 DEF Host
<1>6. CASE UNCHANGED vars
  <2>1. /\ UNCHANGED <<dc, sess, fresh>> /\ UNCHANGED <<modifier, keys, buttons, place>>
        /\ UNCHANGED <<combos, lift>> /\ UNCHANGED <<down, pointer, last, mode, opened>>
        /\ host' = host /\ UNCHANGED <<wire, holding, queue>>
    BY <1>6 DEF vars
  <2>2. Way' = Way BY <2>1 DEF Way, Held
  <2> QED BY <2>1, <2>2, SameWay
<1> QED BY <1>1, <1>2, <1>3, <1>4, <1>5, <1>6 DEF Next

\* The text is followed through every step.
LEMMA TextStep ==
    ASSUME TypeOK, HostInv, TextInv, PageTypes', TimeTypes', [Next]_vars
    PROVE  TextInv'
<1> USE DEF linkVars, hidVars, hostVars, textVars, pageVars, timeVars,
            OtherThanReport, OtherThanPage, OtherThanUser, OtherThanLoop, OtherThanHost
<1>1. CASE PageStep \/ Timer
  <2>1. CASE ActivateCapture
    <3>1. /\ UNCHANGED <<typing, typed, lift, strokes, down, opened>> /\ whole' = whole
          /\ UNCHANGED <<dc, sess, host>> /\ UNCHANGED <<wire, holding, queue>>
      BY <2>1 DEF ActivateCapture
    <3>2. Way' = Way /\ (Reaches => Reaches') BY <3>1 DEF Way, Held, Reaches
    <3> QED BY <3>1, <3>2, TextSame
  <2> QED BY <1>1, <2>1, PageSends, TextSends, TextEscape, TextBegins
<1>2. CASE Link
  <2>1. CASE Disconnect
    <3>1. ~whole' /\ strokes' = <<>> /\ UNCHANGED <<typing, typed, lift>>
      BY <2>1 DEF Disconnect
    <3> QED BY <3>1, TextLost
  <2>2. CASE AgentGone
    <3>1. ~whole' /\ strokes' = <<>> /\ UNCHANGED <<typing, typed, lift>>
      BY <2>2 DEF AgentGone
    <3> QED BY <3>1, TextLost
  <2>3. CASE DcCloses \/ Connect
    <3>1. /\ UNCHANGED <<typing, typed, lift, strokes, down, opened>> /\ whole' = whole
          /\ UNCHANGED <<wire, holding, queue>> /\ ~sess
      BY <2>3 DEF DcCloses, Connect
    <3>2. ~Reaches BY <3>1 DEF Reaches
    <3>3. Way' = Way BY <3>1 DEF Way, Held
    <3> QED BY <3>1, <3>2, <3>3, TextSame
  <2> QED BY <1>2, <2>1, <2>2, <2>3 DEF Link
<1>3. CASE Agent
  <2>1. /\ UNCHANGED <<typing, typed, lift, strokes, down, opened>> /\ whole' = whole
        /\ UNCHANGED <<dc, sess, host>>
    BY <1>3 DEF Agent, ChannelData, SendDone
  <2>2. Reaches => Reaches' BY <2>1 DEF Reaches
  <2>3. whole => Way' = Way
    <3>1. whole => "kbd" \in opened BY TextParts DEF InText
    <3>2. whole => Runs BY <3>1 DEF HostInv
    <3> QED BY <1>3, <3>2, AgentWay
  <2> QED BY <2>1, <2>2, <2>3, TextSame
<1>4. CASE HidStep BY <1>4, TextHid
<1>5. CASE Host
  <2>1. CASE HostSleeps \/ HostWakes \/ HostReturns
    <3>1. /\ UNCHANGED <<typing, typed, lift, strokes, down, opened>> /\ whole' = whole
          /\ UNCHANGED <<dc, sess>> /\ host' # "off" /\ UNCHANGED <<wire, holding, queue>>
      BY <2>1 DEF HostSleeps, HostWakes, HostReturns
    <3>2. Way' = Way /\ (Reaches => Reaches') BY <3>1 DEF Way, Held, Reaches
    <3> QED BY <3>1, <3>2, TextSame
  <2>2. CASE HostLeaves
    <3>1. ~whole' /\ strokes' = <<>> /\ UNCHANGED <<typing, typed, lift>>
      BY <2>2 DEF HostLeaves
    <3> QED BY <3>1, TextLost
  <2> QED BY <1>5, <2>1, <2>2 DEF Host
<1>6. CASE UNCHANGED vars
  <2>1. /\ UNCHANGED <<typing, typed, lift, strokes, down, opened>> /\ whole' = whole
        /\ UNCHANGED <<dc, sess, host>> /\ UNCHANGED <<wire, holding, queue>>
    BY <1>6 DEF vars
  <2>2. Way' = Way /\ (Reaches => Reaches') BY <2>1 DEF Way, Held, Reaches
  <2> QED BY <2>1, <2>2, TextSame
<1> QED BY <1>1, <1>2, <1>3, <1>4, <1>5, <1>6 DEF Next

\* The page begins with nothing held, sent or typed.
LEMMA InitInv == Init => Inv
<1> SUFFICES ASSUME Init PROVE Inv OBVIOUS
<1>1. Centre \in Place /\ Configured \in Setting
  BY HidAssumption DEF Centre, Configured
<1>2. <<>> \in Seq(Key) /\ <<>> \in Seq(Frame) /\ <<>> \in Seq(Char) /\ Len(<<>>) = 0
      /\ IsInjective(<<>>)
  BY DEF IsInjective
<1>3. /\ mode \in {"gadget", "ch9329"} /\ opened \in SUBSET Gadget /\ uses \in SUBSET Input
      /\ ~Runs => opened = {}
  <2>1. PICK s \in Setups : mode = s.mode /\ opened = s.opened /\ uses = s.uses
    BY DEF Init
  <2>2. s \in [mode : {"gadget"}, opened : SUBSET Gadget, uses : SUBSET Input]
              \cup [mode : {"ch9329"}, opened : {{}, Gadget}, uses : SUBSET Input]
    BY HidAssumption
  <2> QED BY <2>1, <2>2 DEF Runs
<1>4. Bools BY Zenon DEF Init, Bools
<1>5. PageTypes BY <1>1, <1>2 DEF Init, PageTypes
<1>6. ComboCap \in Nat /\ Len(Text) \in Nat /\ HidCap \in Nat BY HidAssumption
<1>7. TimeTypes BY <1>6 DEF Init, TimeTypes
<1>8. WayTypes BY <1>2, <1>6 DEF Init, WayTypes
<1>9. last \in Mouse /\ pointer \in Mouse BY <1>1 DEF Init, Mouse
<1>10. HidTypes BY <1>1, <1>3, <1>9 DEF Init, HidTypes
<1>11. HostTypes BY <1>2, <1>9 DEF Init, HostTypes
<1>12. TypeOK BY <1>4, <1>5, <1>7, <1>8, <1>10, <1>11, TypeParts
<1>13. HostInv BY <1>3 DEF Init, HostInv
<1>14. KbdInv /\ MouseInv /\ PlaceInv BY DEF Init, KbdInv, MouseInv, PlaceInv
<1>15. NoText BY DEF Init, NoText
<1>16. ~whole BY DEF Init
<1>17. TextInv BY <1>15, <1>16, TextParts
<1> QED BY <1>12, <1>13, <1>14, <1>17 DEF Inv

\* The invariant is inductive.
LEMMA InvStep == Inv /\ [Next]_vars => Inv'
<1> SUFFICES ASSUME Inv, [Next]_vars PROVE Inv' OBVIOUS
<1>1. TypeOK /\ HostInv /\ KbdInv /\ MouseInv /\ PlaceInv /\ TextInv BY DEF Inv
<1>2. Bools' BY <1>1, FlagStep, TypeParts
<1>3. PageTypes' /\ TimeTypes' BY <1>1, PageTypesStep, TimeTypesStep
<1>4. WayTypes' /\ HidTypes' /\ HostTypes'
  BY <1>1, <1>3, WayTypesStep, MachineTypesStep
<1>5. TypeOK'
  BY <1>2, <1>3, <1>4, Zenon DEF TypeOK, Bools, PageTypes, TimeTypes, WayTypes, HidTypes,
                                 HostTypes
<1>6. HostInv' BY <1>1, <1>3, HostInvStep
<1>7. KbdInv' /\ MouseInv' /\ PlaceInv' BY <1>1, <1>3, NewestStep
<1>8. TextInv' BY <1>1, <1>3, TextStep
<1> QED BY <1>5, <1>6, <1>7, <1>8 DEF Inv

\* The invariant of the whole path holds in every state it reaches.
LEMMA InvHolds == Spec => []Inv
BY InitInv, InvStep, PTL DEF Spec

\* Once everything sent has arrived, nothing is under way.
LEMMA SettledWay ==
    ASSUME Settled
    PROVE  /\ Reaches /\ combos = 0 /\ ~lift
           /\ Way = <<>> /\ \A K : Silent(Way, K)
<1>1. Way = <<>> /\ Len(<<>>) = 0 BY DEF Settled, Way, Held
<1>2. \A K : Silent(Way, K) BY <1>1 DEF Silent
<1> QED BY <1>1, <1>2 DEF Settled, Up, Reaches

-----------------------------------------------------------------------------
(* The theorems *)

\* Keys stay a list without duplicates, the queue of the hid thread within its
\* capacity, what is under way well-formed reports: HidPath.TypeOK, for every
\* keyboard, text and capacity (app.js, webrtc.rs and hid.rs together).
THEOREM TypeCorrect == Spec => []TypeOK
<1>1. Inv => TypeOK BY DEF Inv
<1> QED BY <1>1, InvHolds, PTL

\* No key stays down on the controlled machine that the page does not hold,
\* once what was sent has arrived: app.js sendKeyboard and sendKeyCombo report
\* the whole state each time, so that the newest report decides.
THEOREM NoKeyIsStuck == Spec => []NoStuckKey
<1>1. Inv => NoStuckKey BY SettledWay DEF Inv, NoStuckKey, KbdInv
<1> QED BY <1>1, InvHolds, PTL

\* The pointer is where the page put it, with the buttons the page shows, once
\* what was sent has arrived: hid.rs last_x, last_y and last_buttons carry over
\* what button and wheel reports do not say.
THEOREM PointerFollows == Spec => []MouseFollows
<1>1. ASSUME Inv, Settled, "mouse" \in fresh, "mouse" \in opened
      PROVE  /\ pointer.buttons \subseteq buttons
             /\ mode = "gadget" => pointer.buttons = buttons
             /\ "place" \in fresh => pointer.place = place
  BY <1>1, SettledWay DEF Inv, MouseInv, PlaceInv
<1>2. Inv => MouseFollows BY <1>1 DEF MouseFollows
<1> QED BY <1>2, InvHolds, PTL

\* A text that was typed while no frame was lost arrives whole, each character
\* once and in order, also two equal ones in a row, whatever other keys and
\* combinations come in between: app.js typeText releases every character
\* before the next.  A key of the text that the user presses or holds is what
\* breaks it, and is left out by whole.
THEOREM TextIsWhole == Spec => []TextArrives
<1>1. ASSUME Inv, Settled, typing = "done", whole PROVE strokes = Text
  <2>1. InText BY <1>1, TextParts DEF Inv
  <2>2. Way = <<>> BY <1>1, SettledWay
  <2>3. PICK u \in {0, 1} : Leads(<<>>, Len(strokes), CharDown, typed, u)
    BY <2>1, <2>2 DEF InText
  <2>4. PICK c0, u0 : c0 = Len(strokes) /\ u0 = CharDown OBVIOUS
  <2>5. c0 = typed BY <2>3, <2>4, LeadsNothing
  <2>6. Len(strokes) = Len(Text) /\ strokes = SubSeq(Text, 1, Len(Text))
    BY <1>1, <2>1, <2>4, <2>5 DEF InText
  <2>7. SubSeq(Text, 1, Len(Text)) = Text BY HidAssumption
  <2> QED BY <2>6, <2>7
<1>2. Inv => TextArrives BY <1>1 DEF TextArrives
<1> QED BY <1>2, InvHolds, PTL

=============================================================================
