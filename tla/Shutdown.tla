------------------------------ MODULE Shutdown ------------------------------
(***************************************************************************)
(* How long Close takes, and how long it makes others wait: the life of a  *)
(* client from New to the return of Close, with time (nodeloom.go,         *)
(* batch_processor.go, control_poller.go).                                 *)
(*                                                                         *)
(* What takes time is a request, RequestTime at most, and the waits of     *)
(* stop.  Flush keeps the read lock during its request.  Writers of the    *)
(* lock queue up on a mutex; the one that holds it parks all later         *)
(* readers, and its Unlock lets them in before it releases the mutex.  The *)
(* mutex wakes the first in the queue, but whoever comes before that one   *)
(* is awake takes the mutex ahead of all that wait; sync.Mutex hands over  *)
(* in order only once a woken goroutine has waited for a millisecond.      *)
(* What a goroutine does in no time, it does before the clock moves on.    *)
(* Which events are sent is the matter of TelemetryPipeline.               *)
(***************************************************************************)
EXTENDS ClientConfig, Sequences, FiniteSets

CONSTANTS
  Flushers,      \* goroutines that call Flush
  ApiCallers,    \* goroutines of the application that call Api
  Poller,        \* the poller's goroutine, which calls Api at every tick
  Closer,        \* the goroutine that calls Close first
  RequestTime,   \* 30 s in the code: the context of a batch, the client of Api
  MaxOvertaken   \* bound of the model on the writers that overtake Close

Worker == "worker"
Writers == ApiCallers \cup {Poller, Closer}

ASSUME ShutdownAssumption ==
  /\ IsFiniteSet(ApiCallers)
  /\ Poller # Closer
  /\ {Poller, Closer} \cap (ApiCallers \cup Flushers) = {}
  /\ Worker \notin Flushers \cup {Poller, Closer}
  /\ RequestTime \in Nat
  /\ MaxOvertaken \in Nat

VARIABLES
  client,     \* "new" while New applies options, "open", "closed"
  flusher,    \* flusher[g]: "out", "parked" before RLock returns, "in" its request
  queue,      \* the writers at the lock, in order
  announced,  \* the first of them has the mutex and parks the readers
  overtaken,  \* history: the writers that took the mutex ahead of Close
  poller,     \* "off", "select", "api" at the lock, "loop", "request", "done"
  worker,     \* "select", "post", "last" for its last request, "done"
  closer,     \* "out", "lock", "poller" and "worker" in stop, "returned"
  left,       \* left[p]: time left to the request or the wait of p
  waited,     \* history: waited[g]: how long flusher g has been parked
  elapsed     \* history: how long Close has taken

Timed == Flushers \cup {Poller, Closer, Worker}

goroutines == <<flusher, poller, worker, closer>>
lock == <<queue, announced, overtaken>>
history == <<waited, elapsed>>
vars == <<config, client, goroutines, lock, left, history>>

Init ==
  /\ config = DefaultConfig
  /\ client = "new"
  /\ flusher = [g \in Flushers |-> "out"]
  /\ queue = <<>>
  /\ announced = FALSE
  /\ overtaken = 0
  /\ poller = "off"
  /\ worker = "select"
  /\ closer = "out"
  /\ left = [p \in Timed |-> 0]
  /\ waited = [g \in Flushers |-> 0]
  /\ elapsed = 0

\* The goroutine p begins something that takes this long at most.
Timer(p, time) == left' = [left EXCEPT ![p] = time]

-----------------------------------------------------------------------------
Configure(option, value) ==
  /\ client = "new"
  /\ ApplyOption(option, value)
  /\ UNCHANGED <<client, goroutines, lock, left, history>>

\* The rest of New: the poller is started if it has an interval.
Start ==
  /\ client = "new"
  /\ client' = "open"
  /\ poller' = IF Polls THEN "select" ELSE "off"
  /\ UNCHANGED <<config, flusher, worker, closer, lock, left, history>>

-----------------------------------------------------------------------------
(***************************************************************************)
(* The lock.                                                               *)
(***************************************************************************)
\* RLock, the test of closed, and the beginning of the request.
FlushCall(g) ==
  /\ client # "new"
  /\ flusher[g] = "out"
  /\ IF announced
       THEN /\ flusher' = [flusher EXCEPT ![g] = "parked"]
            /\ UNCHANGED left
       ELSE /\ client = "open"
            /\ flusher' = [flusher EXCEPT ![g] = "in"]
            /\ Timer(g, RequestTime)
  /\ UNCHANGED <<config, client, lock, poller, worker, closer, history>>

\* Mutant of FlushReturn: Flush goes on until the queue of events is empty.
FlushReturnLoops(g) ==
  /\ flusher[g] = "in"
  /\ \/ flusher' = [flusher EXCEPT ![g] = "out"] /\ Timer(g, 0)
     \/ UNCHANGED flusher /\ Timer(g, RequestTime)
  /\ UNCHANGED <<config, client, lock, poller, worker, closer, history>>

\* The request has ended, at any time up to its deadline, and RUnlock.
FlushReturn(g) ==
  /\ flusher[g] = "in"
  /\ flusher' = [flusher EXCEPT ![g] = "out"]
  /\ Timer(g, 0)
  /\ UNCHANGED <<config, client, lock, poller, worker, closer, history>>

InQueue(w) == \E i \in 1..Len(queue) : queue[i] = w

\* Lock of the mutex that the writers share: who finds it free takes it ahead of
\* those that wait, and announces itself to the readers.
Join(w) ==
  \/ /\ announced
     /\ queue' = Append(queue, w)
     /\ UNCHANGED <<announced, overtaken>>
  \/ /\ ~announced
     /\ queue' = <<w>> \o queue
     /\ announced' = TRUE
     /\ overtaken' = overtaken + (IF InQueue(Closer) THEN 1 ELSE 0)
     /\ overtaken' <= MaxOvertaken

CanWake == queue # <<>> /\ ~announced

\* The first that waits is awake and takes the mutex.
Wake ==
  /\ CanWake
  /\ announced' = TRUE
  /\ UNCHANGED <<config, client, goroutines, queue, overtaken, left, history>>

\* Unlock releases the mutex last.
Leave == queue' = Tail(queue) /\ announced' = FALSE /\ UNCHANGED overtaken

ApiCall(w) ==
  /\ client # "new"
  /\ ~InQueue(w)
  /\ Join(w)
  /\ UNCHANGED <<config, client, goroutines, left, history>>

CloseCall ==
  /\ client = "open"
  /\ closer = "out"
  /\ Join(Closer)
  /\ closer' = "lock"
  /\ UNCHANGED <<config, client, flusher, poller, worker, left, history>>

CanLock == announced /\ \A g \in Flushers : flusher[g] # "in"

\* The readers that it parked get in: they begin a request, or find the client closed.
Release ==
  /\ flusher' = [g \in Flushers |->
       IF flusher[g] = "parked" THEN (IF client' = "open" THEN "in" ELSE "out") ELSE flusher[g]]
  /\ waited' = [g \in Flushers |-> 0]

Released == {g \in Flushers : flusher'[g] = "in"}

\* The body of Api, and Unlock.
LockApi ==
  /\ CanLock
  /\ Head(queue) # Closer
  /\ Leave
  /\ poller' = IF Head(queue) = Poller THEN "loop" ELSE poller
  /\ UNCHANGED client
  /\ Release
  /\ left' = [p \in Timed |-> IF p \in Released THEN RequestTime ELSE left[p]]
  /\ UNCHANGED <<config, worker, closer, elapsed>>

\* Close sets the flag, unlocks, closes stopChan and waits for the poller.
LockClose ==
  /\ CanLock
  /\ Head(queue) = Closer
  /\ Leave
  /\ client' = "closed"
  /\ Release
  /\ closer' = "poller"
  /\ Timer(Closer, IF poller = "off" THEN 0 ELSE config.shutdownWait)
  /\ UNCHANGED <<config, poller, worker, elapsed>>

-----------------------------------------------------------------------------
(***************************************************************************)
(* The two stops.                                                          *)
(***************************************************************************)
\* Mutant of StopPollerEnds: it waits for doneChan only.
StopPollerJoins == closer = "poller" /\ poller \in {"off", "done"}

StopPollerEnds == closer = "poller" /\ (poller = "done" \/ left[Closer] = 0)
StopWorkerEnds == closer = "worker" /\ (worker = "done" \/ left[Closer] = 0)

\* stop of the poller returns, and stop of the worker begins.
PollerStopped ==
  /\ StopPollerEnds
  /\ closer' = "worker"
  /\ Timer(Closer, config.shutdownWait)
  /\ UNCHANGED <<config, client, flusher, poller, worker, lock, history>>

CloseReturns ==
  /\ StopWorkerEnds
  /\ closer' = "returned"
  /\ Timer(Closer, 0)
  /\ UNCHANGED <<config, client, flusher, poller, worker, lock, history>>

-----------------------------------------------------------------------------
(***************************************************************************)
(* The poller and the worker, see ControlPlane and TelemetryPipeline.      *)
(***************************************************************************)
PollerTick ==
  /\ poller = "select"
  /\ poller' = "api"
  /\ Join(Poller)
  /\ UNCHANGED <<config, client, flusher, worker, closer, left, history>>

PollerRequests ==
  /\ poller = "loop"
  /\ client = "open"
  /\ poller' = "request"
  /\ Timer(Poller, RequestTime)
  /\ UNCHANGED <<config, client, flusher, worker, closer, lock, history>>

PollerAnswered ==
  /\ poller = "request"
  /\ poller' = "loop"
  /\ Timer(Poller, 0)
  /\ UNCHANGED <<config, client, flusher, worker, closer, lock, history>>

PollerLeaves ==
  /\ \/ poller = "loop" /\ poller' = "select"
     \/ poller = "select" /\ client = "closed" /\ poller' = "done"
  /\ UNCHANGED <<config, client, flusher, worker, closer, lock, left, history>>

WorkerPosts ==
  /\ client # "new"
  /\ worker = "select"
  /\ worker' \in {"post"} \cup (IF closer \in {"worker", "returned"} THEN {"last"} ELSE {})
  /\ Timer(Worker, RequestTime)
  /\ UNCHANGED <<config, client, flusher, poller, closer, lock, history>>

WorkerPosted ==
  /\ \/ worker = "post" /\ worker' = "select"
     \/ worker = "last" /\ worker' = "done"
  /\ Timer(Worker, 0)
  /\ UNCHANGED <<config, client, flusher, poller, closer, lock, history>>

-----------------------------------------------------------------------------
Closing == closer \in {"lock", "poller", "worker"}

Running == {g \in Flushers : flusher[g] = "in"}
             \cup (IF poller = "request" THEN {Poller} ELSE {})
             \cup (IF worker \in {"post", "last"} THEN {Worker} ELSE {})
             \cup (IF closer \in {"poller", "worker"} THEN {Closer} ELSE {})

\* Time passes when nothing is left to do at once and no deadline is due.
Clock ==
  /\ ~CanWake /\ ~CanLock /\ ~StopPollerEnds /\ ~StopWorkerEnds
  /\ Running # {}
  /\ \A p \in Running \ {Closer} : left[p] > 0
  /\ left' = [p \in Timed |-> IF p \in Running /\ left[p] > 0 THEN left[p] - 1 ELSE left[p]]
  /\ waited' = [g \in Flushers |-> IF flusher[g] = "parked" THEN waited[g] + 1 ELSE 0]
  /\ elapsed' = IF Closing THEN elapsed + 1 ELSE elapsed
  /\ UNCHANGED <<config, client, goroutines, lock>>

Next ==
  \/ \E option \in Options, value \in Values : Configure(option, value)
  \/ Start
  \/ \E g \in Flushers : FlushCall(g) \/ FlushReturn(g)
  \/ \E w \in ApiCallers : ApiCall(w)
  \/ CloseCall \/ Wake \/ LockApi \/ LockClose \/ PollerStopped \/ CloseReturns
  \/ PollerTick \/ PollerRequests \/ PollerAnswered \/ PollerLeaves
  \/ WorkerPosts \/ WorkerPosted
  \/ Clock

Spec == Init /\ [][Next]_vars

-----------------------------------------------------------------------------
\* Every variable has its type; whatever options are passed, the configuration
\* is one that the queue, the worker and the transport can work with
\* (config.go:83); and each writer waits for the lock at most once.
TypeOK ==
  /\ config \in UsableConfig
  /\ client \in {"new", "open", "closed"}
  /\ flusher \in [Flushers -> {"out", "parked", "in"}]
  /\ queue \in Seq(Writers)
  /\ \A i, j \in 1..Len(queue) : queue[i] = queue[j] => i = j
  /\ announced \in BOOLEAN
  /\ overtaken \in Nat
  /\ poller \in {"off", "select", "api", "loop", "request", "done"}
  /\ worker \in {"select", "post", "last", "done"}
  /\ closer \in {"out", "lock", "poller", "worker", "returned"}
  /\ left \in [Timed -> Nat]
  /\ waited \in [Flushers -> Nat]
  /\ elapsed \in Nat

\* Close returns after one request for each writer that may be ahead of it at
\* the lock, one for each that overtakes it there, one for those that read when
\* its turn comes, and two waits: 100 s with the defaults and one other caller of
\* Api, and 30 s more each time that caller overtakes it (nodeloom.go:213, 222,
\* 231).
CloseIsBounded ==
  elapsed <= (Cardinality(ApiCallers) + 2 + overtaken) * RequestTime + 2 * config.shutdownWait

\* A reader that is parked behind a writer waits for the requests that ran when
\* the writer came, and for no other: it is let in before the next writer, however
\* many of them queue (nodeloom.go:197, 242).
ReadersAreReleased == \A g \in Flushers : waited[g] <= RequestTime
=============================================================================
