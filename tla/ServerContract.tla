--------------------------- MODULE ServerContract ---------------------------
(***************************************************************************)
(* What CProxy promises its caller: connections are served while the port  *)
(* is open, each is taken once, and CloseProxyPort returns only when none  *)
(* is left.                                                                *)
(***************************************************************************)
EXTENDS Naturals

CONSTANT Conns     \* connections of browsers

VARIABLES
  taken,     \* connections the server accepted
  live,      \* those whose manager has not been destroyed yet
  accepting, \* the server thread may accept more
  closed     \* CloseProxyPort has returned

vars == <<taken, live, accepting, closed>>

Init == taken = {} /\ live = {} /\ accepting = FALSE /\ closed = FALSE

Open ==
  /\ ~accepting /\ ~closed /\ taken = {}
  /\ accepting' = TRUE
  /\ UNCHANGED <<taken, live, closed>>

Take(c) ==
  /\ accepting /\ c \notin taken
  /\ taken' = taken \cup {c} /\ live' = live \cup {c}
  /\ UNCHANGED <<accepting, closed>>

Finish(c) ==
  /\ c \in live
  /\ live' = live \ {c}
  /\ UNCHANGED <<taken, accepting, closed>>

Shut ==
  /\ accepting /\ accepting' = FALSE
  /\ UNCHANGED <<taken, live, closed>>

Close ==
  /\ ~accepting /\ live = {} /\ ~closed
  /\ closed' = TRUE
  /\ UNCHANGED <<taken, live, accepting>>

Next == Open \/ Shut \/ Close \/ \E c \in Conns : Take(c) \/ Finish(c)
Spec == Init /\ [][Next]_vars
=============================================================================
