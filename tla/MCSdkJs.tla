------------------------------ MODULE MCSdkJs -------------------------------
(***************************************************************************)
(* A small instance of SdkJs.                                              *)
(***************************************************************************)
EXTENDS SdkJs

CONSTANTS c1, c2, e1, e2

\* Programs that poll, with two chains; that evaluate single flags; that do
\* both; and that poll only once.
SomePrograms ==
    {[chains |-> {c1, c2}, callers |-> {}, polling |-> TRUE,
      broken |-> {1}, ticks |-> 0],
     [chains |-> {}, callers |-> {e1, e2}, polling |-> TRUE,
      broken |-> {}, ticks |-> 3],
     [chains |-> {c1}, callers |-> {e1}, polling |-> FALSE,
      broken |-> {2}, ticks |-> 0]}
=============================================================================
