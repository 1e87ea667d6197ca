--------------------------- MODULE MCBrowserConsole ---------------------------
(* Instances of BrowserConsole for TLC; the constants are given in the .cfg. *)
EXTENDS BrowserConsole, TLC

=============================================================================
