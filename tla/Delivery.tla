------------------------------ MODULE Delivery ------------------------------
(***************************************************************************)
(* What sendBatch promises for a batch, with no attempt, answer, backoff   *)
(* or timer in it: a batch that it reports as sent has reached the         *)
(* backend; whatever it reports, the batch has reached the backend no more *)
(* than MaxCopies times, and does so no more once it has returned.         *)
(*                                                                         *)
(* A batch with nothing in it that can be sent is no delivery, and may be  *)
(* reported either way.                                                    *)
(***************************************************************************)
EXTENDS Naturals

CONSTANT
  MaxCopies   \* how often a batch may reach the backend

VARIABLES
  pending,    \* sendBatch has a batch on its way
  outcome,    \* what it returned last: "nil", "error", or "none" yet
  copies      \* how often the backend has processed this batch

vars == <<pending, outcome, copies>>

Init ==
  /\ pending = FALSE
  /\ outcome = "none"
  /\ copies = 0

Begin ==
  /\ ~pending
  /\ pending' = TRUE
  /\ outcome' = "none"
  /\ copies' = 0

\* Nothing to send, or nothing that could be: nothing reaches the backend.
Skip ==
  /\ ~pending
  /\ outcome' \in {"nil", "error"}
  /\ copies' = 0
  /\ UNCHANGED pending

\* The backend processes the batch, for the first time or once more.
Process ==
  /\ pending
  /\ copies < MaxCopies
  /\ copies' = copies + 1
  /\ UNCHANGED <<pending, outcome>>

\* An error says nothing: the batch may have been processed all the same.
Return ==
  /\ pending
  /\ pending' = FALSE
  /\ outcome' \in {"nil", "error"}
  /\ outcome' = "nil" => copies > 0
  /\ UNCHANGED copies

Next == Begin \/ Skip \/ Process \/ Return

\* The safety half, and with it the promise that sendBatch returns.
SafeSpec == Init /\ [][Next]_vars
Spec == SafeSpec /\ WF_vars(Return)
=============================================================================
