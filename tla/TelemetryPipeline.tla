------------------------- MODULE TelemetryPipeline -------------------------
(***************************************************************************)
(* The path of a telemetry event from the application to the transport:    *)
(* Client.enqueue, Flush, Close and Api (nodeloom.go), the bounded queue    *)
(* (queue.go) and the goroutine of the batch processor                     *)
(* (batch_processor.go).  Two kinds of goroutines take events from the     *)
(* queue, the worker and every caller of Flush; Client.mu, a sync.RWMutex, *)
(* is what keeps them, enqueue and Close apart.                            *)
(*                                                                         *)
(* An event is its rank in the order of the sends on the channel.  The     *)
(* HTTP request is one step that begins (HandOff) and one that ends        *)
(* (FlushReturn, WorkerPostReturn): its outcome is only logged by          *)
(* batchProcessor.flush, so it changes no state here.                      *)
(***************************************************************************)
EXTENDS Naturals, Sequences, FiniteSets, Functions

CONSTANTS
  Callers,      \* goroutines that use the client (the control poller is one)
  Worker,       \* the goroutine of batchProcessor.run
  NoOne,        \* no goroutine
  Capacity,     \* Config.MaxQueueSize
  BatchSize,    \* Config.BatchSize
  DrainFactor,  \* 10 in the code: a drain takes at most BatchSize * 10 events
  MaxEvents     \* bound of the model: enqueue is called while fewer are admitted

ASSUME PipelineAssumption ==
  /\ Worker \notin Callers
  /\ NoOne \notin Callers
  /\ Capacity \in Nat \ {0}
  /\ BatchSize \in Nat \ {0}
  /\ DrainFactor \in Nat \ {0}
  /\ MaxEvents \in Nat

VARIABLES
  queue,      \* the buffer of the channel queue.ch
  held,       \* held[g]: the events g took from the queue and has not sent
  drained,    \* drained[g]: the loop variable i of queue.drain in g
  sent,       \* sent[g]: the events g has passed to transport.sendBatch
  admitted,   \* how many events the channel has accepted
  pc,         \* pc[g]: where goroutine g is
  readers,    \* the goroutines that hold Client.mu for reading
  blocked,    \* the goroutines parked in Client.mu.RLock
  writer,     \* the goroutine that has announced or holds Client.mu.Lock
  closed,     \* Client.closed
  stopCh,     \* batchProcessor.stopCh has been closed
  outcome,    \* how batchProcessor.stop ended: "none", "flushed", "timeout"
  apiBuilt    \* Client.apiClient # nil

eventVars == <<queue, held, drained, sent, admitted>>
lockVars  == <<readers, blocked, writer>>
lifeVars  == <<closed, stopCh, outcome, apiBuilt>>
vars == <<eventVars, pc, lockVars, lifeVars>>

Goroutines == Callers \cup {Worker}
DrainLimit == BatchSize * DrainFactor

GoTo(g, place) == pc' = [pc EXCEPT ![g] = place]

\* New: an empty queue, an open client and a worker waiting in its select.
Init ==
  /\ queue = <<>>
  /\ held = [g \in Goroutines |-> <<>>]
  /\ drained = [g \in Goroutines |-> 0]
  /\ sent = [g \in Goroutines |-> {}]
  /\ admitted = 0
  /\ pc = [g \in Goroutines |-> IF g = Worker THEN "select" ELSE "idle"]
  /\ readers = {}
  /\ blocked = {}
  /\ writer = NoOne
  /\ closed = FALSE
  /\ stopCh = FALSE
  /\ outcome = "none"
  /\ apiBuilt = FALSE

-----------------------------------------------------------------------------
(***************************************************************************)
(* sync.RWMutex.  A writer that has announced itself parks every later     *)
(* reader until it has released the lock, and releasing it wakes all of    *)
(* them: neither side can starve the other.                                *)
(***************************************************************************)
RLock(g) ==
  /\ IF writer = NoOne
       THEN readers' = readers \cup {g} /\ UNCHANGED blocked
       ELSE blocked' = blocked \cup {g} /\ UNCHANGED readers
  /\ UNCHANGED writer

RUnlock(g) ==
  /\ readers' = readers \ {g}
  /\ UNCHANGED <<blocked, writer>>

Announce(g) ==
  /\ writer = NoOne
  /\ writer' = g
  /\ UNCHANGED <<readers, blocked>>

HasLock(g) == writer = g /\ readers = {}

Unlock(g) ==
  /\ writer' = NoOne
  /\ readers' = blocked
  /\ blocked' = {}

-----------------------------------------------------------------------------
(***************************************************************************)
(* The two ways an event moves: from the queue to a goroutine, and from    *)
(* the goroutine to the transport.                                         *)
(***************************************************************************)
\* Mutant of Take: the newest event comes out first.
TakeNewest(g) ==
  /\ queue # <<>>
  /\ held' = [held EXCEPT ![g] = Append(@, queue[Len(queue)])]
  /\ queue' = SubSeq(queue, 1, Len(queue) - 1)

\* One receive from the channel, appended to the goroutine's slice.
Take(g) ==
  /\ queue # <<>>
  /\ held' = [held EXCEPT ![g] = Append(@, Head(queue))]
  /\ queue' = Tail(queue)

\* Mutant of HandOff: the buffer is not replaced by a new one.
HandOffKeepingBuffer(g) ==
  /\ sent' = [sent EXCEPT ![g] = @ \cup Range(held[g])]
  /\ UNCHANGED held

\* batchProcessor.flush is called with the slice, and the slice is given up.
HandOff(g) ==
  /\ sent' = [sent EXCEPT ![g] = @ \cup Range(held[g])]
  /\ held' = [held EXCEPT ![g] = <<>>]

\* Mutant of DrainStep: <= in place of < in the condition of the loop.
DrainStepOneMore(g) ==
  /\ pc[g] = "drain"
  /\ drained[g] <= DrainLimit
  /\ Take(g)
  /\ drained' = [drained EXCEPT ![g] = @ + 1]
  /\ UNCHANGED <<sent, admitted, pc, lockVars, lifeVars>>

\* One iteration of the loop of queue.drain that finds an event.
DrainStep(g) ==
  /\ pc[g] = "drain"
  /\ drained[g] < DrainLimit
  /\ Take(g)
  /\ drained' = [drained EXCEPT ![g] = @ + 1]
  /\ UNCHANGED <<sent, admitted, pc, lockVars, lifeVars>>

\* queue.drain returns: the channel is empty or the limit is reached.
DrainReturns(g) ==
  /\ pc[g] = "drain"
  /\ queue = <<>> \/ drained[g] = DrainLimit

-----------------------------------------------------------------------------
(***************************************************************************)
(* Client.enqueue: under the read lock, the closed check and then the      *)
(* non-blocking send, which drops the event when the channel is full.      *)
(***************************************************************************)
Enqueuing == {c \in Callers : pc[c] \in {"enqueue", "send"}}

EnqueueCall(c) ==
  /\ pc[c] = "idle"
  /\ admitted + Cardinality(Enqueuing) < MaxEvents     \* bound of the model
  /\ RLock(c)
  /\ GoTo(c, "enqueue")
  /\ UNCHANGED <<eventVars, lifeVars>>

\* Mutant of EnqueueCheck: the client's closed flag is not looked at.
EnqueueUnchecked(c) ==
  /\ pc[c] = "enqueue"
  /\ c \in readers
  /\ GoTo(c, "send")
  /\ UNCHANGED <<lockVars, eventVars, lifeVars>>

EnqueueCheck(c) ==
  /\ pc[c] = "enqueue"
  /\ c \in readers
  /\ \/ closed /\ RUnlock(c) /\ GoTo(c, "idle")
     \/ ~closed /\ GoTo(c, "send") /\ UNCHANGED lockVars
  /\ UNCHANGED <<eventVars, lifeVars>>

EnqueueSend(c) ==
  /\ pc[c] = "send"
  /\ \/ /\ Len(queue) < Capacity
        /\ queue' = Append(queue, admitted + 1)
        /\ admitted' = admitted + 1
     \/ /\ Len(queue) >= Capacity                      \* dropped, and logged
        /\ UNCHANGED <<queue, admitted>>
  /\ RUnlock(c)
  /\ GoTo(c, "idle")
  /\ UNCHANGED <<held, drained, sent, lifeVars>>

-----------------------------------------------------------------------------
(***************************************************************************)
(* Client.Flush: under the read lock from the closed check to the end of   *)
(* the HTTP request.                                                       *)
(***************************************************************************)
FlushCall(c) ==
  /\ pc[c] = "idle"
  /\ RLock(c)
  /\ GoTo(c, "flush")
  /\ UNCHANGED <<eventVars, lifeVars>>

\* Mutant of FlushCheck: the lock is given up before the queue is drained.
FlushCheckUnlocking(c) ==
  /\ pc[c] = "flush"
  /\ c \in readers
  /\ RUnlock(c)
  /\ \/ closed /\ GoTo(c, "idle") /\ UNCHANGED drained
     \/ ~closed /\ GoTo(c, "drain") /\ drained' = [drained EXCEPT ![c] = 0]
  /\ UNCHANGED <<queue, held, sent, admitted, lifeVars>>

FlushCheck(c) ==
  /\ pc[c] = "flush"
  /\ c \in readers
  /\ \/ /\ closed
        /\ RUnlock(c)
        /\ GoTo(c, "idle")
        /\ UNCHANGED drained
     \/ /\ ~closed
        /\ drained' = [drained EXCEPT ![c] = 0]
        /\ GoTo(c, "drain")
        /\ UNCHANGED lockVars
  /\ UNCHANGED <<queue, held, sent, admitted, lifeVars>>

\* Mutant of FlushDrained: an empty drain is tried again, under the lock.
FlushDrainedAgain(c) ==
  /\ DrainReturns(c)
  /\ \/ held[c] = <<>> /\ GoTo(c, "flush") /\ UNCHANGED <<held, sent>>
     \/ held[c] # <<>> /\ HandOff(c) /\ GoTo(c, "post")
  /\ UNCHANGED <<queue, drained, admitted, lockVars, lifeVars>>

FlushDrained(c) ==
  /\ DrainReturns(c)
  /\ \/ /\ held[c] = <<>>
        /\ RUnlock(c)
        /\ GoTo(c, "idle")
        /\ UNCHANGED <<held, sent>>
     \/ /\ held[c] # <<>>
        /\ HandOff(c)
        /\ GoTo(c, "post")
        /\ UNCHANGED lockVars
  /\ UNCHANGED <<queue, drained, admitted, lifeVars>>

FlushReturn(c) ==
  /\ pc[c] = "post"
  /\ RUnlock(c)
  /\ GoTo(c, "idle")
  /\ UNCHANGED <<eventVars, lifeVars>>

-----------------------------------------------------------------------------
(***************************************************************************)
(* Client.Close and Client.Api, the two users of the write lock.           *)
(***************************************************************************)
CloseCall(c) ==
  /\ pc[c] = "idle"
  /\ GoTo(c, "close")
  /\ UNCHANGED <<eventVars, lockVars, lifeVars>>

ApiCall(c) ==
  /\ pc[c] = "idle"
  /\ GoTo(c, "api")
  /\ UNCHANGED <<eventVars, lockVars, lifeVars>>

LockAnnounce(c) ==
  /\ pc[c] \in {"close", "api"}
  /\ Announce(c)
  /\ UNCHANGED <<pc, eventVars, lifeVars>>

\* Mutant of CloseMark: the second Close also goes on to stop the worker.
CloseMarkUnchecked(c) ==
  /\ pc[c] = "close"
  /\ HasLock(c)
  /\ closed' = TRUE
  /\ GoTo(c, "stopping")
  /\ Unlock(c)
  /\ UNCHANGED <<eventVars, stopCh, outcome, apiBuilt>>

CloseMark(c) ==
  /\ pc[c] = "close"
  /\ HasLock(c)
  /\ \/ closed /\ GoTo(c, "idle") /\ UNCHANGED closed
     \/ ~closed /\ closed' = TRUE /\ GoTo(c, "stopping")
  /\ Unlock(c)
  /\ UNCHANGED <<eventVars, stopCh, outcome, apiBuilt>>

\* poller.stop has returned, which it does within ShutdownWait;
\* batchProcessor.stop closes stopCh.
CloseStop(c) ==
  /\ pc[c] = "stopping"
  /\ stopCh' = TRUE
  /\ GoTo(c, "joining")
  /\ UNCHANGED <<eventVars, lockVars, closed, outcome, apiBuilt>>

\* The wait of batchProcessor.stop ends: wg.Wait returned, or the timeout
\* fired first, which it may do however far the worker has come.
CloseReturn(c) ==
  /\ pc[c] = "joining"
  /\ \/ pc[Worker] = "done" /\ outcome' = "flushed"
     \/ outcome' = "timeout"
  /\ GoTo(c, "idle")
  /\ UNCHANGED <<eventVars, lockVars, closed, stopCh, apiBuilt>>

ApiBody(c) ==
  /\ pc[c] = "api"
  /\ HasLock(c)
  /\ apiBuilt' = TRUE
  /\ Unlock(c)
  /\ GoTo(c, "idle")
  /\ UNCHANGED <<eventVars, closed, stopCh, outcome>>

-----------------------------------------------------------------------------
(***************************************************************************)
(* batchProcessor.run.  Its select picks any ready case, so a worker that  *)
(* has been told to stop may still receive or serve a tick first.          *)
(***************************************************************************)
WorkerReceive ==
  /\ pc[Worker] = "select"
  /\ Take(Worker)
  /\ GoTo(Worker, IF Len(held[Worker]) + 1 >= BatchSize THEN "flush" ELSE "select")
  /\ UNCHANGED <<drained, sent, admitted, lockVars, lifeVars>>

\* Mutant of WorkerTick: only a full batch is flushed.
WorkerTickFullOnly ==
  /\ pc[Worker] = "select"
  /\ Len(held[Worker]) >= BatchSize
  /\ GoTo(Worker, "flush")
  /\ UNCHANGED <<eventVars, lockVars, lifeVars>>

WorkerTick ==
  /\ pc[Worker] = "select"
  /\ held[Worker] # <<>>
  /\ GoTo(Worker, "flush")
  /\ UNCHANGED <<eventVars, lockVars, lifeVars>>

WorkerFlush ==
  /\ pc[Worker] = "flush"
  /\ HandOff(Worker)
  /\ GoTo(Worker, "post")
  /\ UNCHANGED <<queue, drained, admitted, lockVars, lifeVars>>

\* Mutant of WorkerStop: the queue is not drained before the last flush.
WorkerStopUndrained ==
  /\ pc[Worker] = "select"
  /\ stopCh
  /\ HandOff(Worker)
  /\ GoTo(Worker, IF held[Worker] = <<>> THEN "done" ELSE "final")
  /\ UNCHANGED <<queue, drained, admitted, lockVars, lifeVars>>

WorkerStop ==
  /\ pc[Worker] = "select"
  /\ stopCh
  /\ drained' = [drained EXCEPT ![Worker] = 0]
  /\ GoTo(Worker, "drain")
  /\ UNCHANGED <<queue, held, sent, admitted, lockVars, lifeVars>>

\* Mutant of WorkerDrained: the return after the last flush is missing.
WorkerDrainedGoesOn ==
  /\ DrainReturns(Worker)
  /\ HandOff(Worker)
  /\ GoTo(Worker, IF held[Worker] = <<>> THEN "select" ELSE "post")
  /\ UNCHANGED <<queue, drained, admitted, lockVars, lifeVars>>

WorkerDrained ==
  /\ DrainReturns(Worker)
  /\ HandOff(Worker)
  /\ GoTo(Worker, IF held[Worker] = <<>> THEN "done" ELSE "final")
  /\ UNCHANGED <<queue, drained, admitted, lockVars, lifeVars>>

\* The request has ended, by an answer or by its 30 s context.
WorkerPostReturn ==
  /\ \/ pc[Worker] = "post" /\ GoTo(Worker, "select")
     \/ pc[Worker] = "final" /\ GoTo(Worker, "done")
  /\ UNCHANGED <<eventVars, lockVars, lifeVars>>

-----------------------------------------------------------------------------
\* The steps a call takes once it has been made.
CallerStep(c) ==
  \/ EnqueueCheck(c) \/ EnqueueSend(c)
  \/ FlushCheck(c) \/ DrainStep(c) \/ FlushDrained(c) \/ FlushReturn(c)
  \/ CloseMark(c) \/ CloseStop(c) \/ CloseReturn(c) \/ ApiBody(c)

Call(c) == EnqueueCall(c) \/ FlushCall(c) \/ CloseCall(c) \/ ApiCall(c)

WorkerStep ==
  \/ WorkerReceive \/ WorkerTick \/ WorkerFlush
  \/ WorkerStop \/ DrainStep(Worker) \/ WorkerDrained \/ WorkerPostReturn

Next ==
  \/ \E c \in Callers : Call(c) \/ LockAnnounce(c) \/ CallerStep(c)
  \/ WorkerStep

\* A call that has begun goes on and every request ends (its context has a
\* deadline); sync.Mutex, which orders the writers, is starvation free; and
\* the worker's select, choosing at random, ignores none of its cases forever.
\* Nothing obliges the application to make a call.
Fairness ==
  /\ \A c \in Callers : WF_vars(CallerStep(c)) /\ SF_vars(LockAnnounce(c))
  /\ WF_vars(WorkerReceive)
  /\ WF_vars(WorkerTick)
  /\ WF_vars(WorkerStop)
  /\ WF_vars(WorkerFlush \/ DrainStep(Worker) \/ WorkerDrained \/ WorkerPostReturn)

SafeSpec == Init /\ [][Next]_vars
Spec == SafeSpec /\ Fairness

-----------------------------------------------------------------------------
Handed == UNION {sent[g] : g \in Goroutines}
Taken(g) == sent[g] \cup Range(held[g])
Stopped == pc[Worker] = "done"

\* Every variable has its type: the queue within its capacity and a parked
\* reader is not a reader (New, nodeloom.go:43).
TypeOK ==
  /\ queue \in Seq(Nat) /\ Len(queue) <= Capacity
  /\ held \in [Goroutines -> Seq(Nat)]
  /\ drained \in [Goroutines -> 0..DrainLimit]
  /\ sent \in [Goroutines -> SUBSET Nat]
  /\ admitted \in Nat
  /\ pc \in [Goroutines -> {"idle", "enqueue", "send", "flush", "drain", "post",
                            "close", "api", "stopping", "joining",
                            "select", "final", "done"}]
  /\ readers \subseteq Callers
  /\ blocked \subseteq Callers
  /\ writer \in Callers \cup {NoOne}
  /\ closed \in BOOLEAN
  /\ stopCh \in BOOLEAN
  /\ outcome \in {"none", "flushed", "timeout"}
  /\ apiBuilt \in BOOLEAN

\* An accepted event is always in exactly one place: in the queue, in the
\* slice of one goroutine, or among the events one goroutine has handed to the
\* transport.  The worker and Flush take from the same channel at the same time
\* and yet no event is lost between them or goes out twice.
Custody ==
  /\ 1..admitted = Range(queue) \cup UNION {Taken(g) : g \in Goroutines}
  /\ \A g \in Goroutines :
       /\ Range(queue) \cap Taken(g) = {}
       /\ sent[g] \cap Range(held[g]) = {}
       /\ \A h \in Goroutines \ {g} : Taken(g) \cap Taken(h) = {}

\* Each goroutine hands its events over in the order they were accepted: a
\* later batch of the same goroutine holds only later events.  (Across the
\* worker and Flush there is no order: Flush overtakes the worker's buffer.)
DeliveredInOrder ==
  [][\A g \in Goroutines :
       \A old \in sent[g], new \in sent'[g] \ sent[g] : old < new]_vars

\* Once Close has set the flag, no call is between its closed check and its
\* use of the queue: nothing is enqueued behind the worker's back, and the
\* worker is the only goroutine still draining.  This is what the read lock
\* held by Flush across the request buys (nodeloom.go:196-208).
ClosedMeansQuiet ==
  closed => \A c \in Callers : pc[c] \notin {"send", "drain", "post"}

\* However many goroutines call Close, one of them stops the worker: closing
\* stopCh a second time would panic (nodeloom.go:215, batch_processor.go:103).
NoDoubleClose ==
  \A c \in Callers :
    pc[c] \in {"stopping", "joining"} =>
      /\ closed
      /\ pc[c] = "stopping" => ~stopCh
      /\ \A d \in Callers \ {c} : pc[d] \notin {"stopping", "joining"}

\* A worker that has stopped leaves events in the queue only when its last
\* drain took all of BatchSize * 10 events (batch_processor.go:75).
StopLeavesNothingBehind ==
  Stopped =>
    /\ held[Worker] = <<>>
    /\ queue # <<>> => drained[Worker] = DrainLimit

\* A Close that did not time out has handed every accepted event to the
\* transport, those that a Flush had taken included, unless the drain hit its
\* limit.
FlushedMeansHanded ==
  outcome = "flushed" /\ queue = <<>> => Handed = 1..admitted

\* How many events one request can carry: a full batch from the worker's loop,
\* the limit of a drain from Flush, and what the worker has kept and that limit
\* together at shutdown (nodeloom.go:204, batch_processor.go:75): more than the
\* "maximum number of events per batch" of config.go:80, which the code does not
\* keep, and always less than eleven batches.
BatchBounds ==
  [][\A g \in Goroutines :
       Cardinality(sent'[g] \ sent[g]) <=
         CASE g # Worker -> DrainLimit
           [] pc[g] = "drain" -> BatchSize - 1 + DrainLimit
           [] OTHER -> BatchSize]_vars

\* Every accepted event is handed to the transport, or the worker has stopped.
EventsReachTransport ==
  \A e \in 1..MaxEvents : e <= admitted ~> e \in Handed \/ Stopped

\* A call of enqueue, Flush or Api returns, also when it meets Close; so does
\* Close itself.
CallsReturn == \A c \in Callers : pc[c] # "idle" ~> pc[c] = "idle"

\* The worker stops once Close has told it to.
WorkerStops == stopCh ~> Stopped

\* The pipeline implements the abstract buffer.
Buffer == INSTANCE EventBuffer
            WITH handed <- Handed, open <- ~closed, finished <- Stopped
ImplementsBuffer == Buffer!Spec
ImplementsBufferSafely == Buffer!SafeSpec
=============================================================================
