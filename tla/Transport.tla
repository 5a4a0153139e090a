----------------------------- MODULE Transport -----------------------------
(***************************************************************************)
(* transport.sendBatch and postWithRetry (transport.go): one goroutine     *)
(* posts one batch after another.  The context of a batch gives all its    *)
(* attempts together Deadline seconds (batch_processor.go:92); `left'      *)
(* counts them down, and each step says how many it takes.                 *)
(*                                                                         *)
(* The network may lose the request or the answer, and the backend may     *)
(* have processed a batch whose answer is an error or never arrives.  A    *)
(* request that is processed after Do has given it up counts as processed  *)
(* before: nothing in the SDK can tell.                                    *)
(***************************************************************************)
EXTENDS Integers

CONSTANTS
  MaxRetries,   \* Config.MaxRetries
  Deadline      \* seconds in the context of a batch: 30 in the code

ASSUME TransportAssumption ==
  /\ MaxRetries \in Nat
  /\ Deadline \in Nat

VARIABLES
  phase,     \* where the goroutine is
  attempt,   \* the loop variable of postWithRetry
  left,      \* seconds until the context is done
  result,    \* how the last sendBatch returned
  heard,     \* history: how the attempts at this batch have ended so far
  copies,    \* history: how often the backend has processed this batch
  updates    \* history: control payloads passed to the registry for this batch

historyVars == <<heard, copies, updates>>
vars == <<phase, attempt, left, result, historyVars>>

Init ==
  /\ phase = "idle"
  /\ attempt = 0
  /\ left = 0
  /\ result = "none"
  /\ heard = {}
  /\ copies = 0
  /\ updates = 0

\* math.Pow(2, n), as the recursive function whose steps are the backoffs.
PowerOfTwo[n \in Nat] == IF n = 0 THEN 1 ELSE 2 * PowerOfTwo[n - 1]

Backoff(n) == PowerOfTwo[n - 1]

InFlight == phase \in {"flight", "processed"}

Return(how) == phase' = "idle" /\ result' = how

-----------------------------------------------------------------------------
\* sendBatch with at least one event that can be serialised.
SendBatch ==
  /\ phase = "idle"
  /\ phase' = "ready"
  /\ attempt' = 0
  /\ left' = Deadline
  /\ result' = "none"
  /\ heard' = {}
  /\ copies' = 0
  /\ updates' = 0

\* sendBatch with nothing to send returns nil; a request that cannot be built
\* is an error, the same one at every attempt.
SendNothing(how) ==
  /\ phase = "idle"
  /\ how \in {"empty", "malformed"}
  /\ Return(how)
  /\ attempt' = 0
  /\ left' = Deadline
  /\ heard' = {}
  /\ copies' = 0
  /\ updates' = 0

\* http.Client.Do puts the request on the wire.
Do ==
  /\ phase = "ready"
  /\ phase' = "flight"
  /\ UNCHANGED <<attempt, left, result, historyVars>>

\* The backend processes the request, which does not reach it when the context
\* was done before Do.
Process ==
  /\ phase = "flight"
  /\ left > 0
  /\ phase' = "processed"
  /\ copies' = copies + 1
  /\ UNCHANGED <<attempt, left, result, heard, updates>>

\* Mutant of Again: the loop makes one attempt too many.
AgainOnceMore ==
  /\ attempt' = attempt + 1
  /\ \/ attempt + 1 > MaxRetries + 1 /\ Return("exhausted")
     \/ attempt + 1 <= MaxRetries + 1 /\ phase' = "backoff" /\ UNCHANGED result

\* Mutant of Again: the loop ends one attempt too early.
AgainOnceLess ==
  /\ attempt' = attempt + 1
  /\ \/ attempt + 1 >= MaxRetries /\ Return("exhausted")
     \/ attempt + 1 < MaxRetries /\ phase' = "backoff" /\ UNCHANGED result

\* The attempt is over without a final word: the loop goes on or ends.
Again ==
  /\ attempt' = attempt + 1
  /\ \/ attempt + 1 > MaxRetries /\ Return("exhausted")
     \/ attempt + 1 <= MaxRetries /\ phase' = "backoff" /\ UNCHANGED result

\* A 2xx answer, with a control payload or without a readable one.
Accepted(seconds, control) ==
  /\ phase = "processed"
  /\ left' = left - seconds
  /\ heard' = heard \cup {"2xx"}
  /\ updates' = IF control THEN updates + 1 ELSE updates
  /\ Return("ok")
  /\ UNCHANGED <<attempt, copies>>

\* Mutant of Refused: a 4xx answer is retried like the others.
RefusedRetried(seconds) ==
  /\ InFlight
  /\ left > 0
  /\ left' = left - seconds
  /\ heard' = heard \cup {"4xx"}
  /\ Again
  /\ UNCHANGED <<copies, updates>>

\* A 4xx answer other than 429.
Refused(seconds) ==
  /\ InFlight
  /\ left > 0
  /\ left' = left - seconds
  /\ heard' = heard \cup {"4xx"}
  /\ Return("refused")
  /\ UNCHANGED <<attempt, copies, updates>>

\* Mutant of Unavailable: an overloaded backend is taken to have accepted.
UnavailableIsOk(seconds) ==
  /\ InFlight
  /\ left > 0
  /\ left' = left - seconds
  /\ heard' = heard \cup {"retry"}
  /\ Return("ok")
  /\ UNCHANGED <<attempt, copies, updates>>

\* Mutant of Unavailable: the control payload is read before the status.
UnavailableUpdates(seconds) ==
  /\ InFlight
  /\ left > 0
  /\ left' = left - seconds
  /\ heard' = heard \cup {"retry"}
  /\ updates' = updates + 1
  /\ Again
  /\ UNCHANGED copies

\* Any other answer: 429, 5xx, and whatever is neither 2xx nor 4xx.
Unavailable(seconds) ==
  /\ InFlight
  /\ left > 0
  /\ left' = left - seconds
  /\ heard' = heard \cup {"retry"}
  /\ Again
  /\ UNCHANGED <<copies, updates>>

\* Do returns an error: the request or its answer was lost, or the context is
\* done.
Fail(seconds) ==
  /\ InFlight
  /\ left' = left - seconds
  /\ heard' = heard \cup {"lost"}
  /\ Again
  /\ UNCHANGED <<copies, updates>>

\* Mutant of Wait: the backoff is skipped.
WaitNot ==
  /\ phase = "backoff"
  /\ phase' = "ready"
  /\ UNCHANGED <<attempt, left, result, historyVars>>

\* The select before a retry: the timer of the backoff.
Wait ==
  /\ phase = "backoff"
  /\ left >= Backoff(attempt)
  /\ left' = left - Backoff(attempt)
  /\ phase' = "ready"
  /\ UNCHANGED <<attempt, result, historyVars>>

\* Mutant of GiveUp: the loop does not leave when the context is done.
GiveUpNot ==
  /\ phase = "backoff"
  /\ left <= Backoff(attempt)
  /\ left' = 0
  /\ UNCHANGED <<phase, attempt, result, historyVars>>

\* The other case of that select: the context is done first.
GiveUp ==
  /\ phase = "backoff"
  /\ left <= Backoff(attempt)
  /\ left' = 0
  /\ Return("expired")
  /\ UNCHANGED <<attempt, historyVars>>

-----------------------------------------------------------------------------
Answer(seconds) ==
  \/ \E control \in BOOLEAN : Accepted(seconds, control)
  \/ Refused(seconds)
  \/ Unavailable(seconds)

Step == Do \/ (\E seconds \in 0..left : Answer(seconds) \/ Fail(seconds)) \/ Wait \/ GiveUp

Next ==
  \/ SendBatch
  \/ \E how \in {"empty", "malformed"} : SendNothing(how)
  \/ Process
  \/ Step

\* The goroutine is scheduled, timers fire, and Do returns when the context is
\* done if not before.  The backend owes nothing.
SafeSpec == Init /\ [][Next]_vars
Spec == SafeSpec /\ WF_vars(Step)

-----------------------------------------------------------------------------
\* Every variable has its type; in particular the loop makes at most
\* MaxRetries + 1 attempts and never outlives its context (transport.go:83).
TypeOK ==
  /\ phase \in {"idle", "ready", "flight", "processed", "backoff"}
  /\ attempt \in 0..(MaxRetries + 1)
  /\ left \in 0..Deadline
  /\ result \in {"none", "ok", "empty", "malformed", "refused", "expired", "exhausted"}
  /\ heard \subseteq {"2xx", "4xx", "retry", "lost"}
  /\ copies \in Nat
  /\ updates \in Nat

\* A batch reported as sent was processed by the backend, and it was processed
\* more than once only if an earlier attempt ended without a final word: there
\* is no more than one copy for each attempt (transport.go:112-125).
SentMeansProcessed ==
  /\ copies <= attempt + 1
  /\ result = "ok" => copies >= 1 /\ "2xx" \in heard
  /\ copies > 1 => heard \cap {"retry", "lost"} # {}

\* The answer is final: once the backend has accepted or refused a batch, that
\* batch is not put on the wire again.
SettledIsFinal ==
  [][phase' = "flight" /\ phase # "flight" => heard \cap {"2xx", "4xx"} = {}]_vars

\* The registry sees at most one control payload for each batch, and only one
\* that came with a batch the backend accepted (transport.go:113).
ControlComesWithAcceptance ==
  updates > 0 => updates = 1 /\ result = "ok"

\* A batch is given up for one of three reasons: it was refused, every attempt
\* has been made, or its time is over (transport.go:88, 122, 128).
GivenUpForAReason ==
  /\ result = "refused" => "4xx" \in heard
  /\ result = "exhausted" => attempt = MaxRetries + 1
  /\ result = "expired" => left = 0 /\ heard # {}

\* Retries back off exponentially: the attempt number n begins at least
\* 1 + 2 + ... + 2^(n-1) seconds after the first (transport.go:85).
RetriesArePaced ==
  phase \in {"ready", "flight", "processed"} => Deadline - left >= PowerOfTwo[attempt] - 1

-----------------------------------------------------------------------------
\* sendBatch is a Delivery, whatever the backend and the network do: it returns,
\* with nil only for a batch that was processed, after at most one copy for each
\* attempt and with none to follow (transport.go:83, 112, 131).
Batch == INSTANCE Delivery WITH
  MaxCopies <- MaxRetries + 1,
  pending <- phase # "idle",
  outcome <- CASE result = "none" -> "none"
               [] result \in {"ok", "empty"} -> "nil"
               [] OTHER -> "error"

ImplementsDelivery == Batch!Spec
ImplementsDeliverySafely == Batch!SafeSpec
=============================================================================
