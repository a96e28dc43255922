----------------------------- MODULE MCAppEvents -----------------------------
(* Instances of AppEvents for TLC.                                         *)
EXTENDS AppEvents

\* What the menus, the input, the network and the console issue, the console
\* command start left out.
Paired == {"start", "restart", "disconnect", "quit", "quickload"}
=============================================================================
