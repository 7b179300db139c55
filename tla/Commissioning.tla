---------------------------- MODULE Commissioning ----------------------------
(***************************************************************************)
(* What bringing up the hardware promises, without threads, services and   *)
(* an executor: the init steps are carried out once each, in the order of  *)
(* the configuration, and the hardware is ready only after all of them.    *)
(* A step is a pair <<driver, position in the driver's init>>.             *)
(***************************************************************************)
EXTENDS Naturals

VARIABLES
  work,     \* the init steps to carry out
  handled,  \* the steps carried out so far
  ready     \* is the bring-up complete?

vars == <<work, handled, ready>>

Before(p, q) == p[1] < q[1] \/ (p[1] = q[1] /\ p[2] < q[2])

Init == handled = {} /\ ready = FALSE

Handle ==
  /\ ~ready
  /\ \E p \in work \ handled :
       /\ \A q \in work : Before(q, p) => q \in handled
       /\ handled' = handled \cup {p}
  /\ UNCHANGED <<work, ready>>

Finish ==
  /\ handled = work
  /\ ready' = TRUE
  /\ UNCHANGED <<work, handled>>

Next == Handle \/ Finish

Spec == Init /\ [][Next]_vars
=============================================================================
