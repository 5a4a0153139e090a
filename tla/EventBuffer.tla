---------------------------- MODULE EventBuffer ----------------------------
(***************************************************************************)
(* What the telemetry pipeline of the SDK promises, with no queue, worker, *)
(* lock or shutdown procedure in it: events are admitted while the buffer  *)
(* is open, every admitted event is handed to the transport at most once,  *)
(* and nothing is handed over once the buffer has finished.  Finishing may *)
(* leave events behind: the shutdown drain of the code is bounded.         *)
(*                                                                         *)
(* Events are named by the order of their admission: 1, 2, ..., admitted.  *)
(***************************************************************************)
EXTENDS Naturals

VARIABLES
  admitted,   \* how many events have been admitted so far
  handed,     \* the events handed to the transport
  open,       \* events are still admitted
  finished    \* nothing is handed over any more

vars == <<admitted, handed, open, finished>>

Pending == (1..admitted) \ handed

Init ==
  /\ admitted = 0
  /\ handed = {}
  /\ open = TRUE
  /\ finished = FALSE

Admit ==
  /\ open
  /\ admitted' = admitted + 1
  /\ UNCHANGED <<handed, open, finished>>

\* A batch goes to the transport: some events that have never gone before.
Hand(batch) ==
  /\ ~finished
  /\ batch # {}
  /\ batch \subseteq Pending
  /\ handed' = handed \cup batch
  /\ UNCHANGED <<admitted, open, finished>>

Close ==
  /\ open
  /\ open' = FALSE
  /\ UNCHANGED <<admitted, handed, finished>>

Finish ==
  /\ ~open
  /\ ~finished
  /\ finished' = TRUE
  /\ UNCHANGED <<admitted, handed, open>>

HandSome == \E batch \in SUBSET Pending : Hand(batch)

Next == Admit \/ HandSome \/ Close \/ Finish

\* The safety half, and with it the promise that pending events go out as
\* long as the buffer has not finished.
SafeSpec == Init /\ [][Next]_vars
Spec == SafeSpec /\ WF_vars(HandSome)
=============================================================================
