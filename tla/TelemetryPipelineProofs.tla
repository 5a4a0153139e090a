---------------------- MODULE TelemetryPipelineProofs ----------------------
(***************************************************************************)
(* Proofs about TelemetryPipeline for every set of callers and every       *)
(* capacity, batch size and drain factor.                                  *)
(***************************************************************************)
EXTENDS TelemetryPipeline, TLAPS, SequenceTheorems, FiniteSetTheorems

-----------------------------------------------------------------------------
(***************************************************************************)
(* Sequences of events and the sets of their elements.                     *)
(***************************************************************************)
Increasing(s) == \A i, j \in 1..Len(s) : i < j => s[i] < s[j]

\* Appending to a slice (queue.go:35, batch_processor.go:61) adds one element.
LEMMA RangeOfAppend ==
  ASSUME NEW s \in Seq(Nat), NEW e \in Nat
  PROVE  Range(Append(s, e)) = Range(s) \cup {e}
<1>1. Append(s, e) = s \o <<e>>
  BY AppendIsConcat
<1>2. <<e>> \in Seq(Nat) /\ Len(<<e>>) = 1 /\ <<e>>[1] = e
  OBVIOUS
<1>3. Range(<<e>>) = {<<e>>[i] : i \in 1..1}
  BY <1>2, RangeEquality
<1>4. Range(<<e>>) = {e}
  BY <1>2, <1>3
<1>5. Range(s \o <<e>>) = Range(s) \cup Range(<<e>>)
  BY <1>2, RangeConcatenation
<1> QED
  BY <1>1, <1>4, <1>5

\* A receive splits the channel's buffer into the event and the rest.
LEMMA RangeOfHeadTail ==
  ASSUME NEW s \in Seq(Nat), s # <<>>
  PROVE  /\ Head(s) \in Range(s)
         /\ Range(s) = {Head(s)} \cup Range(Tail(s))
<1>1. /\ Head(s) = s[1]
      /\ Len(s) \in Nat \ {0}
      /\ Tail(s) \in Seq(Nat)
      /\ Len(Tail(s)) = Len(s) - 1
      /\ \A i \in 1..Len(Tail(s)) : Tail(s)[i] = s[i + 1]
  BY HeadTailProperties, EmptySeq
<1>2. Range(s) = {s[i] : i \in 1..Len(s)}
  BY RangeEquality
<1>3. Range(Tail(s)) = {Tail(s)[i] : i \in 1..Len(Tail(s))}
  BY <1>1, RangeEquality
<1>4. ASSUME NEW x \in Range(s), x # Head(s)
      PROVE  x \in Range(Tail(s))
  <2>1. PICK i \in 1..Len(s) : x = s[i]
    BY <1>2
  <2>2. i - 1 \in 1..Len(Tail(s)) /\ Tail(s)[i - 1] = x
    BY <1>1, <1>4, <2>1
  <2> QED
    BY <1>3, <2>2
<1>5. ASSUME NEW x \in Range(Tail(s))
      PROVE  x \in Range(s)
  <2>1. PICK i \in 1..Len(Tail(s)) : x = Tail(s)[i]
    BY <1>3
  <2>2. i + 1 \in 1..Len(s) /\ s[i + 1] = x
    BY <1>1, <2>1
  <2> QED
    BY <1>2, <2>2
<1> QED
  BY <1>1, <1>2, <1>4, <1>5

\* The rest of an increasing sequence is increasing and above its head.
LEMMA TailOfIncreasing ==
  ASSUME NEW s \in Seq(Nat), s # <<>>, Increasing(s)
  PROVE  /\ Increasing(Tail(s))
         /\ \A e \in Range(Tail(s)) : Head(s) < e
<1>1. /\ Head(s) = s[1]
      /\ Len(s) \in Nat \ {0}
      /\ Tail(s) \in Seq(Nat)
      /\ Len(Tail(s)) = Len(s) - 1
      /\ \A i \in 1..Len(Tail(s)) : Tail(s)[i] = s[i + 1]
  BY HeadTailProperties, EmptySeq
<1>2. Range(Tail(s)) = {Tail(s)[i] : i \in 1..Len(Tail(s))}
  BY <1>1, RangeEquality
<1>3. Increasing(Tail(s))
  BY <1>1 DEF Increasing
<1>4. ASSUME NEW e \in Range(Tail(s))
      PROVE  Head(s) < e
  <2>1. PICK i \in 1..Len(Tail(s)) : e = Tail(s)[i]
    BY <1>2
  <2>2. i + 1 \in 1..Len(s) /\ s[i + 1] = e /\ 1 \in 1..Len(s) /\ 1 < i + 1
    BY <1>1, <2>1
  <2> QED
    BY <1>1, <2>2 DEF Increasing
<1> QED
  BY <1>3, <1>4

\* An event later than all of the queue keeps the queue increasing.
LEMMA AppendToIncreasing ==
  ASSUME NEW s \in Seq(Nat), NEW e \in Nat, Increasing(s),
         \A x \in Range(s) : x < e
  PROVE  Increasing(Append(s, e))
<1>1. Range(s) = {s[i] : i \in 1..Len(s)}
  BY RangeEquality
<1>2. \A i \in 1..Len(s) : s[i] < e
  BY <1>1
<1> QED
  BY <1>2, AppendProperties DEF Increasing

-----------------------------------------------------------------------------
(***************************************************************************)
(* Where the events are.  Events leave the queue in the order they entered *)
(* it, so everything taken is older than everything queued; this is what   *)
(* makes Custody and DeliveredInOrder inductive.                           *)
(***************************************************************************)
EventType ==
  /\ queue \in Seq(Nat)
  /\ held \in [Goroutines -> Seq(Nat)]
  /\ sent \in [Goroutines -> SUBSET Nat]
  /\ admitted \in Nat

Order ==
  /\ Increasing(queue)
  /\ \A g \in Goroutines : \A e \in Taken(g), f \in Range(queue) : e < f
  /\ \A g \in Goroutines : \A e \in sent[g], f \in Range(held[g]) : e < f

Ownership ==
  /\ 1..admitted = Range(queue) \cup UNION {Taken(g) : g \in Goroutines}
  /\ \A g, h \in Goroutines : g # h => Taken(g) \cap Taken(h) = {}

EventInv == EventType /\ Order /\ Ownership

\* The ranges are sets of naturals.
LEMMA EventRanges ==
  ASSUME EventType
  PROVE  /\ Range(queue) \subseteq Nat
         /\ \A g \in Goroutines : Range(held[g]) \subseteq Nat /\ Taken(g) \subseteq Nat
<1>1. Range(queue) \subseteq Nat
  BY RangeOfSeq DEF EventType
<1>2. ASSUME NEW g \in Goroutines
      PROVE  Range(held[g]) \subseteq Nat /\ Taken(g) \subseteq Nat
  <2>1. held[g] \in Seq(Nat) /\ sent[g] \subseteq Nat
    BY DEF EventType
  <2>2. Range(held[g]) \subseteq Nat
    BY <2>1, RangeOfSeq
  <2> QED
    BY <2>1, <2>2 DEF Taken
<1> QED
  BY <1>1, <1>2

\* What is in no slice and in no request is in the queue: the disjointness
\* that Custody adds to Ownership follows from Order.
LEMMA EventInvImpliesCustody ==
  ASSUME EventInv
  PROVE  Custody
<1>1. ASSUME NEW g \in Goroutines
      PROVE  /\ Range(queue) \cap Taken(g) = {}
             /\ sent[g] \cap Range(held[g]) = {}
  <2>1. /\ \A e \in Taken(g), f \in Range(queue) : e < f
        /\ \A e \in sent[g], f \in Range(held[g]) : e < f
        /\ Range(queue) \subseteq Nat
        /\ Range(held[g]) \subseteq Nat
    BY EventRanges DEF EventInv, Order
  <2>2. \A n \in Nat : ~(n < n)
    OBVIOUS
  <2> QED
    BY <2>1, <2>2
<1> QED
  BY <1>1 DEF Custody, EventInv, Ownership

\* Receiving an event (in the worker's select or in queue.drain) keeps every
\* event in one place and in order.
LEMMA TakeKeepsEventInv ==
  ASSUME EventInv, NEW g \in Goroutines, Take(g), UNCHANGED <<sent, admitted>>
  PROVE  EventInv'
<1> DEFINE e == Head(queue)
<1>1. /\ queue \in Seq(Nat)
      /\ queue # <<>>
      /\ queue' = Tail(queue)
      /\ held' = [held EXCEPT ![g] = Append(held[g], e)]
      /\ held[g] \in Seq(Nat)
  BY DEF EventInv, EventType, Take
<1>2. /\ e \in Nat
      /\ Tail(queue) \in Seq(Nat)
      /\ e \in Range(queue)
      /\ Range(queue) = {e} \cup Range(queue')
  BY <1>1, HeadTailProperties, RangeOfHeadTail
<1>3. Increasing(queue') /\ \A f \in Range(queue') : e < f
  BY <1>1, TailOfIncreasing DEF EventInv, Order
<1>4. Append(held[g], e) \in Seq(Nat)
  BY <1>1, <1>2, AppendProperties
<1>5. EventType'
  BY <1>1, <1>2, <1>4 DEF EventInv, EventType
<1>6. Range(held'[g]) = Range(held[g]) \cup {e}
  <2>1. held'[g] = Append(held[g], e)
    BY <1>1 DEF EventInv, EventType
  <2> QED
    BY <1>1, <1>2, <2>1, RangeOfAppend
<1>7. /\ Taken(g)' = Taken(g) \cup {e}
      /\ \A h \in Goroutines \ {g} : Taken(h)' = Taken(h) /\ held'[h] = held[h]
  <2>1. \A h \in Goroutines \ {g} : held'[h] = held[h]
    BY <1>1 DEF EventInv, EventType
  <2> QED
    BY <1>6, <2>1 DEF Taken
<1>8. Order'
  <2>1. ASSUME NEW h \in Goroutines, NEW x \in Taken(h)', NEW f \in Range(queue')
        PROVE  x < f
    <3>1. CASE x \in Taken(h)
      BY <1>2, <3>1 DEF EventInv, Order
    <3>2. CASE x \notin Taken(h)
      BY <1>3, <1>7, <3>2
    <3> QED
      BY <3>1, <3>2
  <2>2. ASSUME NEW h \in Goroutines, NEW x \in sent'[h], NEW f \in Range(held'[h])
        PROVE  x < f
    <3>1. x \in sent[h] /\ x \in Taken(h)
      BY DEF Taken
    <3>2. CASE f \in Range(held[h])
      BY <3>1, <3>2 DEF EventInv, Order
    <3>3. CASE f \notin Range(held[h])
      <4>1. f = e
        BY <1>6, <1>7, <3>3
      <4> QED
        BY <1>2, <3>1, <4>1 DEF EventInv, Order
    <3> QED
      BY <3>2, <3>3
  <2> QED
    BY <1>3, <2>1, <2>2 DEF Order
<1>9. Ownership'
  <2>1. \A h \in Goroutines : e \notin Taken(h)
    <3>1. \A n \in Nat : ~(n < n)
      OBVIOUS
    <3> QED
      BY <1>2, <3>1 DEF EventInv, Order
  <2>2. \A h, k \in Goroutines : h # k => Taken(h)' \cap Taken(k)' = {}
    BY <1>7, <2>1 DEF EventInv, Ownership
  <2>3. UNION {Taken(h)' : h \in Goroutines} = {e} \cup UNION {Taken(h) : h \in Goroutines}
    BY <1>7
  <2> QED
    BY <1>2, <2>2, <2>3 DEF EventInv, Ownership
<1> QED
  BY <1>5, <1>8, <1>9 DEF EventInv
\* Handing a slice to the transport moves its events within the goroutine.
LEMMA HandOffKeepsEventInv ==
  ASSUME EventInv, NEW g \in Goroutines, HandOff(g), UNCHANGED <<queue, admitted>>
  PROVE  EventInv'
<1>1. /\ held' = [held EXCEPT ![g] = <<>>]
      /\ sent' = [sent EXCEPT ![g] = sent[g] \cup Range(held[g])]
      /\ held[g] \in Seq(Nat)
      /\ sent[g] \subseteq Nat
  BY DEF EventInv, EventType, HandOff
<1>2. Range(held[g]) \subseteq Nat
  BY EventRanges DEF EventInv
<1>3. EventType'
  BY <1>1, <1>2, EmptySeq DEF EventInv, EventType
<1>4. Range(<<>>) = {}
  <2>1. <<>> \in Seq(Nat) /\ Len(<<>>) = 0
    BY EmptySeq
  <2>2. Range(<<>>) = {<<>>[i] : i \in 1..0}
    BY <2>1, RangeEquality
  <2> QED
    BY <2>2
<1>5. /\ held'[g] = <<>>
      /\ sent'[g] = Taken(g)
      /\ \A h \in Goroutines \ {g} : held'[h] = held[h] /\ sent'[h] = sent[h]
  BY <1>1 DEF EventInv, EventType, Taken
<1>6. \A h \in Goroutines : Taken(h)' = Taken(h)
  BY <1>4, <1>5 DEF Taken
<1>7. Order'
  <2>1. \A h \in Goroutines : \A x \in sent'[h], f \in Range(held'[h]) : x < f
    BY <1>4, <1>5 DEF EventInv, Order
  <2> QED
    BY <1>6, <2>1 DEF EventInv, Order
<1>8. Ownership'
  BY <1>6 DEF EventInv, Ownership
<1> QED
  BY <1>3, <1>7, <1>8 DEF EventInv

\* A successful send on the channel names the event after the last one.
LEMMA AdmitKeepsEventInv ==
  ASSUME EventInv,
         queue' = Append(queue, admitted + 1), admitted' = admitted + 1,
         UNCHANGED <<held, sent>>
  PROVE  EventInv'
<1> DEFINE e == admitted + 1
<1>1. queue \in Seq(Nat) /\ e \in Nat /\ admitted \in Nat
  BY DEF EventInv, EventType
<1>2. EventType'
  BY <1>1, AppendProperties DEF EventInv, EventType
<1>3. Range(queue') = Range(queue) \cup {e}
  BY <1>1, RangeOfAppend
<1>4. /\ Range(queue) \subseteq 1..admitted
      /\ \A g \in Goroutines : Taken(g) \subseteq 1..admitted
  BY DEF EventInv, Ownership
<1>5. \A g \in Goroutines : Taken(g)' = Taken(g)
  BY DEF Taken
<1>6. \A x \in 1..admitted : x < e
  BY <1>1
<1>7. Order'
  <2>1. Increasing(queue')
    BY <1>1, <1>4, <1>6, AppendToIncreasing DEF EventInv, Order
  <2>2. \A g \in Goroutines : \A x \in Taken(g)', f \in Range(queue') : x < f
    BY <1>3, <1>4, <1>5, <1>6 DEF EventInv, Order
  <2> QED
    BY <2>1, <2>2 DEF EventInv, Order
<1>8. Ownership'
  <2>1. 1..admitted' = (1..admitted) \cup {e}
    BY <1>1
  <2> QED
    BY <1>3, <1>5, <2>1 DEF EventInv, Ownership
<1> QED
  BY <1>2, <1>7, <1>8 DEF EventInv

\* The loop counter of a drain is no part of the invariant.
LEMMA StutterKeepsEventInv ==
  ASSUME EventInv, UNCHANGED <<queue, held, sent, admitted>>
  PROVE  EventInv'
BY DEF EventInv, EventType, Order, Ownership, Taken
-----------------------------------------------------------------------------
(***************************************************************************)
(* Where the goroutines are.  The closed flag only changes when no reader  *)
(* is inside, and a goroutine between its closed check and the end of its  *)
(* call is a reader: ClosedMeansQuiet follows, and from it that the queue  *)
(* no longer changes under the last drain of the worker.                   *)
(***************************************************************************)
CallerPlaces == {"idle", "enqueue", "send", "flush", "drain", "post",
                 "close", "api", "stopping", "joining"}
WorkerPlaces == {"select", "flush", "drain", "post", "final", "done"}

Places ==
  /\ pc[Worker] \in WorkerPlaces
  /\ \A c \in Callers : pc[c] \in CallerPlaces

\* Client.mu.RLock is held from the closed check on.
UnderReadLock ==
  \A c \in Callers : pc[c] \in {"send", "drain", "post"} => c \in readers

ShutdownOrder ==
  /\ stopCh => closed
  /\ pc[Worker] \in {"drain", "final", "done"} => stopCh
  /\ outcome = "flushed" => Stopped

\* A slice is non-empty only while its goroutine is filling it.
SlicesInUse ==
  /\ \A c \in Callers : held[c] # <<>> => pc[c] = "drain"
  /\ held[Worker] # <<>> => pc[Worker] \in {"select", "flush", "drain"}

LastDrain ==
  pc[Worker] \in {"final", "done"} => queue = <<>> \/ drained[Worker] = DrainLimit

SliceBounds ==
  /\ \A c \in Callers : Len(held[c]) <= drained[c]
  /\ pc[Worker] = "select" => Len(held[Worker]) < BatchSize
  /\ pc[Worker] = "flush" => Len(held[Worker]) <= BatchSize
  /\ pc[Worker] = "drain" => Len(held[Worker]) < BatchSize + drained[Worker]

LockInv == Places /\ UnderReadLock /\ ClosedMeansQuiet /\ NoDoubleClose /\ ShutdownOrder

IInv == TypeOK /\ EventInv /\ LockInv /\ SlicesInUse /\ LastDrain
-----------------------------------------------------------------------------
\* The worker and the callers are goroutines, and they are all different.
LEMMA GoroutineFacts ==
  /\ Worker \in Goroutines
  /\ \A c \in Callers : c \in Goroutines /\ c # Worker /\ c # NoOne
  /\ DrainLimit \in Nat /\ BatchSize \in Nat /\ Capacity \in Nat
BY PipelineAssumption DEF Goroutines, DrainLimit

\* Every step moves events as the pipeline should: it takes, hands over,
\* admits, or leaves the events alone.
LEMMA NextKeepsEventInv ==
  ASSUME EventInv, [Next]_vars
  PROVE  EventInv'
<1>1. ASSUME NEW c \in Callers, Call(c) \/ LockAnnounce(c)
      PROVE  EventInv'
  BY <1>1, StutterKeepsEventInv
     DEF Call, EnqueueCall, FlushCall, CloseCall, ApiCall, LockAnnounce, eventVars
<1>2. ASSUME NEW c \in Callers, CallerStep(c)
      PROVE  EventInv'
  <2>1. CASE EnqueueSend(c)
    BY <2>1, AdmitKeepsEventInv, StutterKeepsEventInv DEF EnqueueSend
  <2>2. CASE DrainStep(c)
    BY <2>2, TakeKeepsEventInv, GoroutineFacts DEF DrainStep
  <2>3. CASE FlushDrained(c)
    BY <2>3, HandOffKeepsEventInv, StutterKeepsEventInv, GoroutineFacts DEF FlushDrained
  <2>4. CASE EnqueueCheck(c) \/ FlushCheck(c) \/ FlushReturn(c)
    BY <2>4, StutterKeepsEventInv DEF EnqueueCheck, FlushCheck, FlushReturn, eventVars
  <2>5. CASE CloseMark(c) \/ CloseStop(c) \/ CloseReturn(c) \/ ApiBody(c)
    BY <2>5, StutterKeepsEventInv DEF CloseMark, CloseStop, CloseReturn, ApiBody, eventVars
  <2> QED
    BY <1>2, <2>1, <2>2, <2>3, <2>4, <2>5 DEF CallerStep
<1>3. ASSUME WorkerStep
      PROVE  EventInv'
  <2>1. CASE WorkerReceive \/ DrainStep(Worker)
    BY <2>1, TakeKeepsEventInv, GoroutineFacts DEF WorkerReceive, DrainStep
  <2>2. CASE WorkerFlush \/ WorkerDrained
    BY <2>2, HandOffKeepsEventInv, GoroutineFacts DEF WorkerFlush, WorkerDrained
  <2>3. CASE WorkerTick \/ WorkerStop \/ WorkerPostReturn
    BY <2>3, StutterKeepsEventInv DEF WorkerTick, WorkerStop, WorkerPostReturn, eventVars
  <2> QED
    BY <1>3, <2>1, <2>2, <2>3 DEF WorkerStep
<1>4. ASSUME UNCHANGED vars
      PROVE  EventInv'
  BY <1>4, StutterKeepsEventInv DEF vars, eventVars
<1> QED
  BY <1>1, <1>2, <1>3, <1>4 DEF Next

\* The lock operations keep the sets of readers and parked readers.
LEMMA LockTypes ==
  ASSUME TypeOK, NEW c \in Callers,
         RLock(c) \/ RUnlock(c) \/ Announce(c) \/ Unlock(c) \/ UNCHANGED lockVars
  PROVE  /\ readers' \subseteq Callers
         /\ blocked' \subseteq Callers
         /\ writer' \in Callers \cup {NoOne}
BY DEF TypeOK, RLock, RUnlock, Announce, Unlock, lockVars

Everywhere == CallerPlaces \cup WorkerPlaces

\* A goroutine that moves is where it went, and the others stay.
LEMMA GoToMoves ==
  ASSUME TypeOK, NEW g \in Goroutines, NEW place \in Everywhere, GoTo(g, place)
  PROVE  /\ pc' \in [Goroutines -> Everywhere]
         /\ pc'[g] = place
         /\ \A h \in Goroutines \ {g} : pc'[h] = pc[h]
BY DEF TypeOK, GoTo, Everywhere, CallerPlaces, WorkerPlaces
\* What is left of the type invariant beside the events and the lock.
RestType ==
  /\ Len(queue) <= Capacity
  /\ drained \in [Goroutines -> 0..DrainLimit]
  /\ pc \in [Goroutines -> Everywhere]
  /\ closed \in BOOLEAN
  /\ stopCh \in BOOLEAN
  /\ outcome \in {"none", "flushed", "timeout"}
  /\ apiBuilt \in BOOLEAN

LockType ==
  /\ readers \subseteq Callers
  /\ blocked \subseteq Callers
  /\ writer \in Callers \cup {NoOne}

LEMMA TypeParts == TypeOK <=> EventType /\ RestType /\ LockType
<1>1. Everywhere = {"idle", "enqueue", "send", "flush", "drain", "post",
                    "close", "api", "stopping", "joining",
                    "select", "final", "done"}
  BY DEF Everywhere, CallerPlaces, WorkerPlaces
<1> QED
  BY <1>1 DEF TypeOK, EventType, RestType, LockType

\* Taking an event shortens the queue.
LEMMA TakeShortens ==
  ASSUME TypeOK, NEW g \in Goroutines, Take(g)
  PROVE  Len(queue') <= Capacity
BY GoroutineFacts, HeadTailProperties, LenProperties DEF TypeOK, Take

\* Every step of a caller keeps the types of its lock.
LEMMA CallerKeepsLockType ==
  ASSUME TypeOK, NEW c \in Callers, Call(c) \/ LockAnnounce(c) \/ CallerStep(c)
  PROVE  LockType'
<1>1. RLock(c) \/ RUnlock(c) \/ Announce(c) \/ Unlock(c) \/ UNCHANGED lockVars
  BY DEF Call, EnqueueCall, FlushCall, CloseCall, ApiCall, LockAnnounce, CallerStep,
         EnqueueCheck, EnqueueSend, FlushCheck, DrainStep, FlushDrained, FlushReturn,
         CloseMark, CloseStop, CloseReturn, ApiBody
<1> QED
  BY <1>1, LockTypes DEF LockType

\* Every step keeps the bounds of the queue and the drains, the places and
\* the flags.
LEMMA NextKeepsRestType ==
  ASSUME TypeOK, Next
  PROVE  RestType'
<1> USE TypeParts
<1>1. ASSUME NEW c \in Callers, Call(c) \/ LockAnnounce(c)
      PROVE  RestType'
  <2>1. pc' \in [Goroutines -> Everywhere]
    BY <1>1, GoToMoves, GoroutineFacts
       DEF Call, EnqueueCall, FlushCall, CloseCall, ApiCall, LockAnnounce, RestType,
           Everywhere, CallerPlaces
  <2>2. UNCHANGED <<eventVars, lifeVars>>
    BY <1>1 DEF Call, EnqueueCall, FlushCall, CloseCall, ApiCall, LockAnnounce
  <2> QED
    BY <2>1, <2>2 DEF RestType, eventVars, lifeVars
<1>2. ASSUME NEW c \in Callers, CallerStep(c)
      PROVE  RestType'
  <2>1. pc' \in [Goroutines -> Everywhere]
    BY <1>2, GoToMoves, GoroutineFacts
       DEF CallerStep, EnqueueCheck, EnqueueSend, FlushCheck, DrainStep, FlushDrained,
           FlushReturn, CloseMark, CloseStop, CloseReturn, ApiBody, RestType,
           Everywhere, CallerPlaces
  <2>2. CASE EnqueueSend(c)
    BY <2>1, <2>2, AppendProperties, LenProperties, GoroutineFacts
       DEF EnqueueSend, RestType, EventType, lifeVars
  <2>3. CASE DrainStep(c)
    BY <2>1, <2>3, TakeShortens, GoroutineFacts DEF DrainStep, RestType, lifeVars
  <2>4. CASE FlushCheck(c)
    BY <2>1, <2>4, GoroutineFacts DEF FlushCheck, RestType, lifeVars
  <2>5. CASE EnqueueCheck(c) \/ FlushDrained(c) \/ FlushReturn(c)
    BY <2>1, <2>5 DEF EnqueueCheck, FlushDrained, FlushReturn, RestType, eventVars, lifeVars
  <2>6. CASE CloseMark(c) \/ CloseStop(c) \/ CloseReturn(c) \/ ApiBody(c)
    BY <2>1, <2>6 DEF CloseMark, CloseStop, CloseReturn, ApiBody, RestType, eventVars
  <2> QED
    BY <1>2, <2>2, <2>3, <2>4, <2>5, <2>6 DEF CallerStep
<1>3. ASSUME WorkerStep
      PROVE  RestType'
  <2>1. pc' \in [Goroutines -> Everywhere]
    BY <1>3, GoToMoves, GoroutineFacts
       DEF WorkerStep, WorkerReceive, WorkerTick, WorkerFlush, WorkerStop, DrainStep,
           WorkerDrained, WorkerPostReturn, RestType, Everywhere, WorkerPlaces
  <2>2. CASE WorkerReceive \/ DrainStep(Worker)
    BY <2>1, <2>2, TakeShortens, GoroutineFacts
       DEF WorkerReceive, DrainStep, RestType, lifeVars
  <2>3. CASE WorkerStop
    BY <2>1, <2>3, GoroutineFacts DEF WorkerStop, RestType, lifeVars
  <2>4. CASE WorkerTick \/ WorkerFlush \/ WorkerDrained \/ WorkerPostReturn
    BY <2>1, <2>4
       DEF WorkerTick, WorkerFlush, WorkerDrained, WorkerPostReturn, RestType,
           eventVars, lifeVars
  <2> QED
    BY <1>3, <2>2, <2>3, <2>4 DEF WorkerStep
<1> QED
  BY <1>1, <1>2, <1>3 DEF Next
LEMMA NextKeepsTypeOK ==
  ASSUME TypeOK, EventInv, [Next]_vars
  PROVE  TypeOK'
<1>1. EventType'
  BY NextKeepsEventInv DEF EventInv
<1>2. CASE Next
  <2>1. RestType'
    BY <1>2, NextKeepsRestType
  <2>2. LockType'
    <3>1. ASSUME WorkerStep
          PROVE  UNCHANGED lockVars
      BY <3>1 DEF WorkerStep, WorkerReceive, WorkerTick, WorkerFlush, WorkerStop,
                  DrainStep, WorkerDrained, WorkerPostReturn
    <3>2. CASE WorkerStep
      BY <3>1, <3>2, TypeParts DEF LockType, lockVars
    <3> QED
      BY <1>2, <3>2, CallerKeepsLockType DEF Next
  <2>3. Everywhere = {"idle", "enqueue", "send", "flush", "drain", "post",
                      "close", "api", "stopping", "joining",
                      "select", "final", "done"}
    BY DEF Everywhere, CallerPlaces, WorkerPlaces
  <2> QED
    BY <1>1, <2>1, <2>2, <2>3 DEF TypeOK, EventType, RestType, LockType
<1>3. CASE UNCHANGED vars
  BY <1>3 DEF TypeOK, vars, eventVars, lockVars, lifeVars
<1> QED
  BY <1>2, <1>3

\* What every caller's step does to the other goroutines: nothing.
LEMMA CallerMoves ==
  ASSUME TypeOK, NEW c \in Callers, Call(c) \/ LockAnnounce(c) \/ CallerStep(c)
  PROVE  /\ pc'[c] \in Everywhere
         /\ \A h \in Goroutines \ {c} : pc'[h] = pc[h]
<1> USE GoToMoves, GoroutineFacts DEF Everywhere, CallerPlaces
<1>1. CASE Call(c) \/ LockAnnounce(c)
  BY <1>1, TypeParts
     DEF Call, EnqueueCall, FlushCall, CloseCall, ApiCall, LockAnnounce, RestType
<1>2. CASE CallerStep(c)
  BY <1>2, TypeParts
     DEF CallerStep, EnqueueCheck, EnqueueSend, FlushCheck, DrainStep, FlushDrained,
         FlushReturn, CloseMark, CloseStop, CloseReturn, ApiBody, RestType
<1> QED
  BY <1>1, <1>2

\* A call, a wait for the lock and a step under the read lock keep the closed
\* flag, so the lock invariant only has to look at where the caller goes.
LEMMA ReaderKeepsLockInv ==
  ASSUME TypeOK, LockInv, NEW c \in Callers,
         \/ Call(c) \/ LockAnnounce(c) \/ EnqueueCheck(c) \/ EnqueueSend(c)
         \/ FlushCheck(c) \/ DrainStep(c) \/ FlushDrained(c) \/ FlushReturn(c)
  PROVE  LockInv'
<1> USE GoroutineFacts
<1>1. \A h \in Goroutines \ {c} : pc'[h] = pc[h]
  BY CallerMoves DEF CallerStep
<1>2. UNCHANGED lifeVars
  BY DEF Call, EnqueueCall, FlushCall, CloseCall, ApiCall, LockAnnounce, EnqueueCheck,
         EnqueueSend, FlushCheck, DrainStep, FlushDrained, FlushReturn
<1>3. \A d \in Callers \ {c} : d \in readers => d \in readers'
  BY DEF Call, EnqueueCall, FlushCall, CloseCall, ApiCall, LockAnnounce, EnqueueCheck,
         EnqueueSend, FlushCheck, DrainStep, FlushDrained, FlushReturn,
         RLock, RUnlock, Announce, lockVars
<1>4. /\ pc'[c] \in CallerPlaces \ {"stopping", "joining"}
      /\ pc'[c] \in {"send", "drain", "post"} => c \in readers' /\ ~closed
  <2>1. CASE Call(c) \/ LockAnnounce(c)
    BY <2>1, GoToMoves, TypeParts
       DEF Call, EnqueueCall, FlushCall, CloseCall, ApiCall, LockAnnounce, RestType,
           Everywhere, CallerPlaces
  <2>2. CASE EnqueueCheck(c) \/ EnqueueSend(c) \/ FlushCheck(c) \/ FlushReturn(c)
    BY <2>2, GoToMoves
       DEF EnqueueCheck, EnqueueSend, FlushCheck, FlushReturn, lockVars,
           Everywhere, CallerPlaces
  <2>3. CASE DrainStep(c)
    BY <2>3 DEF DrainStep, lockVars, LockInv, UnderReadLock, ClosedMeansQuiet, CallerPlaces
  <2>4. CASE FlushDrained(c)
    BY <2>4, GoToMoves
       DEF FlushDrained, DrainReturns, lockVars, LockInv, UnderReadLock,
           ClosedMeansQuiet, Everywhere, CallerPlaces
  <2> QED
    BY <2>1, <2>2, <2>3, <2>4
<1>5. Places' /\ UnderReadLock'
  BY <1>1, <1>3, <1>4 DEF LockInv, Places, UnderReadLock
<1>6. ClosedMeansQuiet'
  BY <1>1, <1>2, <1>4 DEF LockInv, ClosedMeansQuiet, lifeVars
<1>7. NoDoubleClose'
  BY <1>1, <1>2, <1>4 DEF LockInv, NoDoubleClose, lifeVars
<1>8. ShutdownOrder'
  BY <1>1, <1>2 DEF LockInv, ShutdownOrder, Stopped, lifeVars
<1> QED
  BY <1>5, <1>6, <1>7, <1>8 DEF LockInv
\* The steps of Close and Api.  Only CloseMark sets the flag, and it needs a
\* lock without readers, so nobody is under the read lock; only the goroutine
\* that found the flag clear goes on to stop the worker.
LEMMA CloserKeepsLockInv ==
  ASSUME TypeOK, LockInv, NEW c \in Callers,
         CloseMark(c) \/ CloseStop(c) \/ CloseReturn(c) \/ ApiBody(c)
  PROVE  LockInv'
<1> USE GoroutineFacts
<1>1. \A h \in Goroutines \ {c} : pc'[h] = pc[h]
  BY CallerMoves DEF CallerStep
<1>2. CASE CloseMark(c)
  <2>1. \A d \in Callers : pc[d] \notin {"send", "drain", "post"}
    BY <1>2 DEF CloseMark, HasLock, LockInv, UnderReadLock
  <2>2. /\ closed' = TRUE
        /\ UNCHANGED <<stopCh, outcome>>
        /\ closed => pc'[c] = "idle"
        /\ ~closed => pc'[c] = "stopping"
    BY <1>2, GoToMoves DEF CloseMark, TypeOK, Everywhere, CallerPlaces
  <2>3. Places' /\ UnderReadLock' /\ ClosedMeansQuiet'
    BY <1>1, <2>1, <2>2
       DEF LockInv, Places, UnderReadLock, ClosedMeansQuiet, CallerPlaces
  <2>4. ShutdownOrder'
    BY <1>1, <2>2 DEF LockInv, ShutdownOrder, Stopped
  <2>5. NoDoubleClose'
    <3>1. CASE closed
      BY <1>1, <2>2, <3>1 DEF LockInv, NoDoubleClose
    <3>2. CASE ~closed
      <4>1. ~stopCh /\ \A d \in Callers : pc[d] \notin {"stopping", "joining"}
        BY <3>2 DEF LockInv, NoDoubleClose, ShutdownOrder
      <4> QED
        BY <1>1, <2>2, <3>2, <4>1 DEF NoDoubleClose
    <3> QED
      BY <3>1, <3>2 DEF TypeOK
  <2> QED
    BY <2>3, <2>4, <2>5 DEF LockInv
<1>3. CASE CloseStop(c)
  <2>1. /\ pc[c] = "stopping"
        /\ pc'[c] = "joining"
        /\ stopCh' = TRUE
        /\ UNCHANGED <<closed, outcome, readers>>
    BY <1>3, GoToMoves DEF CloseStop, Everywhere, CallerPlaces, lockVars
  <2>2. closed /\ \A d \in Callers \ {c} : pc[d] \notin {"stopping", "joining"}
    BY <2>1 DEF LockInv, NoDoubleClose
  <2>3. Places' /\ UnderReadLock' /\ ClosedMeansQuiet'
    BY <1>1, <2>1 DEF LockInv, Places, UnderReadLock, ClosedMeansQuiet, CallerPlaces
  <2>4. NoDoubleClose' /\ ShutdownOrder'
    BY <1>1, <2>1, <2>2 DEF LockInv, NoDoubleClose, ShutdownOrder, Stopped
  <2> QED
    BY <2>3, <2>4 DEF LockInv
<1>4. CASE CloseReturn(c) \/ ApiBody(c)
  <2>1. /\ pc'[c] = "idle"
        /\ UNCHANGED <<closed, stopCh>>
        /\ outcome' = "flushed" => pc[Worker] = "done" \/ outcome = "flushed"
    BY <1>4, GoToMoves DEF CloseReturn, ApiBody, Everywhere, CallerPlaces
  <2>2. \A d \in Callers \ {c} :
          pc[d] \in {"send", "drain", "post"} => d \in readers'
    BY <1>4 DEF CloseReturn, ApiBody, HasLock, lockVars, LockInv, UnderReadLock
  <2>3. Places' /\ UnderReadLock' /\ ClosedMeansQuiet'
    BY <1>1, <2>1, <2>2
       DEF LockInv, Places, UnderReadLock, ClosedMeansQuiet, CallerPlaces
  <2>4. NoDoubleClose' /\ ShutdownOrder'
    BY <1>1, <2>1 DEF LockInv, NoDoubleClose, ShutdownOrder, Stopped
  <2> QED
    BY <2>3, <2>4 DEF LockInv
<1> QED
  BY <1>2, <1>3, <1>4

\* Where the worker goes in a step, and that it moves alone.
LEMMA WorkerMoves ==
  ASSUME TypeOK, LockInv, WorkerStep
  PROVE  /\ \A c \in Callers : pc'[c] = pc[c]
         /\ pc'[Worker] \in WorkerPlaces
         /\ pc'[Worker] = "drain" => pc[Worker] = "drain" \/ stopCh
         /\ pc'[Worker] \in {"final", "done"} => pc[Worker] \in {"drain", "final"}
         /\ pc[Worker] # "done"
         /\ UNCHANGED <<lockVars, lifeVars>>
<1> USE GoroutineFacts
<1>1. CASE DrainStep(Worker)
  BY <1>1 DEF DrainStep, WorkerPlaces
<1>2. CASE WorkerReceive \/ WorkerTick \/ WorkerFlush \/ WorkerStop
  BY <1>2, GoToMoves
     DEF WorkerReceive, WorkerTick, WorkerFlush, WorkerStop, WorkerPlaces, Everywhere,
         eventVars
<1>3. CASE WorkerDrained \/ WorkerPostReturn
  BY <1>3, GoToMoves
     DEF WorkerDrained, WorkerPostReturn, DrainReturns, WorkerPlaces, Everywhere
<1> QED
  BY <1>1, <1>2, <1>3 DEF WorkerStep

LEMMA NextKeepsLockInv ==
  ASSUME TypeOK, LockInv, [Next]_vars
  PROVE  LockInv'
<1>1. ASSUME NEW c \in Callers, Call(c) \/ LockAnnounce(c) \/ CallerStep(c)
      PROVE  LockInv'
  BY <1>1, ReaderKeepsLockInv, CloserKeepsLockInv DEF CallerStep
<1>2. CASE WorkerStep
  <2>1. Places' /\ UnderReadLock' /\ ClosedMeansQuiet'
    BY <1>2, WorkerMoves
       DEF LockInv, Places, UnderReadLock, ClosedMeansQuiet, lockVars, lifeVars
  <2>2. NoDoubleClose'
    BY <1>2, WorkerMoves DEF LockInv, NoDoubleClose, lifeVars
  <2>3. ShutdownOrder'
    BY <1>2, WorkerMoves DEF LockInv, ShutdownOrder, Stopped, lifeVars
  <2> QED
    BY <2>1, <2>2, <2>3 DEF LockInv
<1>3. CASE UNCHANGED vars
  BY <1>3 DEF vars, lockVars, lifeVars, LockInv, Places, UnderReadLock,
              ClosedMeansQuiet, NoDoubleClose, ShutdownOrder, Stopped
<1> QED
  BY <1>1, <1>2, <1>3 DEF Next
-----------------------------------------------------------------------------
\* A goroutine leaves a drain with its slice handed over or empty.
LEMMA NextKeepsSlicesInUse ==
  ASSUME TypeOK, LockInv, SlicesInUse, [Next]_vars
  PROVE  SlicesInUse'
<1> USE GoroutineFacts
<1>1. ASSUME NEW c \in Callers, Call(c) \/ LockAnnounce(c) \/ CallerStep(c)
      PROVE  SlicesInUse'
  <2>1. \A h \in Goroutines \ {c} : pc'[h] = pc[h]
    BY <1>1, CallerMoves
  <2>2. \A h \in Goroutines \ {c} : held'[h] = held[h]
    BY <1>1 DEF TypeOK, Call, EnqueueCall, FlushCall, CloseCall, ApiCall, LockAnnounce,
                CallerStep, EnqueueCheck, EnqueueSend, FlushCheck, DrainStep, FlushDrained,
                FlushReturn, CloseMark, CloseStop, CloseReturn, ApiBody, Take, HandOff,
                eventVars
  <2>3. held'[c] # <<>> => pc'[c] = "drain"
    <3>1. CASE DrainStep(c)
      BY <3>1 DEF DrainStep
    <3>2. CASE FlushDrained(c)
      BY <3>2 DEF FlushDrained, HandOff, TypeOK
    <3>3. CASE ~DrainStep(c) /\ ~FlushDrained(c)
      BY <1>1, <3>3
         DEF SlicesInUse, Call, EnqueueCall, FlushCall, CloseCall, ApiCall, LockAnnounce,
             CallerStep, EnqueueCheck, EnqueueSend, FlushCheck, FlushReturn, CloseMark,
             CloseStop, CloseReturn, ApiBody, eventVars
    <3> QED
      BY <3>1, <3>2, <3>3
  <2> QED
    BY <2>1, <2>2, <2>3 DEF SlicesInUse
<1>2. CASE WorkerStep
  <2>1. \A c \in Callers : pc'[c] = pc[c] /\ held'[c] = held[c]
    BY <1>2, WorkerMoves
       DEF TypeOK, WorkerStep, WorkerReceive, WorkerTick, WorkerFlush, WorkerStop,
           DrainStep, WorkerDrained, WorkerPostReturn, Take, HandOff, eventVars
  <2>2. held'[Worker] # <<>> => pc'[Worker] \in {"select", "flush", "drain"}
    <3>1. CASE WorkerReceive \/ WorkerTick \/ WorkerStop
      BY <3>1, GoToMoves
         DEF WorkerReceive, WorkerTick, WorkerStop, Everywhere, WorkerPlaces
    <3>2. CASE WorkerFlush \/ WorkerDrained
      BY <3>2 DEF WorkerFlush, WorkerDrained, HandOff, TypeOK
    <3>3. CASE DrainStep(Worker)
      BY <3>3 DEF DrainStep
    <3>4. CASE WorkerPostReturn
      BY <3>4 DEF WorkerPostReturn, SlicesInUse, eventVars
    <3> QED
      BY <1>2, <3>1, <3>2, <3>3, <3>4 DEF WorkerStep
  <2> QED
    BY <2>1, <2>2 DEF SlicesInUse
<1>3. CASE UNCHANGED vars
  BY <1>3 DEF vars, eventVars, SlicesInUse
<1> QED
  BY <1>1, <1>2, <1>3 DEF Next

\* After the last drain of the worker the queue stays as that drain left it.
LEMMA NextKeepsLastDrain ==
  ASSUME TypeOK, LockInv, LastDrain, [Next]_vars
  PROVE  LastDrain'
<1> USE GoroutineFacts
<1>1. ASSUME NEW c \in Callers, Call(c) \/ LockAnnounce(c) \/ CallerStep(c),
             pc[Worker] \in {"final", "done"}
      PROVE  UNCHANGED queue /\ drained'[Worker] = drained[Worker]
  <2>1. pc[c] \notin {"send", "drain", "post"}
    BY <1>1 DEF LockInv, ShutdownOrder, ClosedMeansQuiet
  <2> QED
    BY <1>1, <2>1
       DEF TypeOK, Call, EnqueueCall, FlushCall, CloseCall, ApiCall, LockAnnounce,
           CallerStep, EnqueueCheck, EnqueueSend, FlushCheck, DrainStep, FlushDrained,
           DrainReturns, FlushReturn, CloseMark, CloseStop, CloseReturn, ApiBody, eventVars
<1>2. ASSUME NEW c \in Callers, Call(c) \/ LockAnnounce(c) \/ CallerStep(c)
      PROVE  LastDrain'
  <2>1. pc'[Worker] = pc[Worker]
    BY <1>2, CallerMoves
  <2> QED
    BY <1>1, <1>2, <2>1 DEF LastDrain
<1>3. CASE WorkerDrained
  BY <1>3 DEF WorkerDrained, DrainReturns, LastDrain
<1>4. CASE WorkerPostReturn
  BY <1>4, GoToMoves
     DEF WorkerPostReturn, LastDrain, eventVars, Everywhere, WorkerPlaces
<1>5. CASE WorkerReceive \/ WorkerTick \/ WorkerFlush \/ WorkerStop \/ DrainStep(Worker)
  <2>1. pc'[Worker] \notin {"final", "done"}
    BY <1>5, GoToMoves
       DEF WorkerReceive, WorkerTick, WorkerFlush, WorkerStop, DrainStep, Everywhere,
           WorkerPlaces
  <2> QED
    BY <2>1 DEF LastDrain
<1>6. CASE UNCHANGED vars
  BY <1>6 DEF vars, eventVars, LastDrain
<1> QED
  BY <1>2, <1>3, <1>4, <1>5, <1>6 DEF Next, WorkerStep
-----------------------------------------------------------------------------
(***************************************************************************)
(* The inductive invariant.                                                *)
(***************************************************************************)
LEMMA InitIInv ==
  ASSUME Init
  PROVE  IInv
<1> USE GoroutineFacts
<1>1. Range(<<>>) = {}
  <2>1. <<>> \in Seq(Nat) /\ Len(<<>>) = 0
    BY EmptySeq
  <2>2. Range(<<>>) = {<<>>[i] : i \in 1..0}
    BY <2>1, RangeEquality
  <2> QED
    BY <2>2
<1>2. TypeOK
  <2>1. queue \in Seq(Nat) /\ Len(queue) <= Capacity
    BY EmptySeq DEF Init
  <2>2. held \in [Goroutines -> Seq(Nat)] /\ sent \in [Goroutines -> SUBSET Nat]
    BY EmptySeq DEF Init
  <2>3. drained \in [Goroutines -> 0..DrainLimit] /\ admitted \in Nat
    BY DEF Init
  <2> QED
    BY <2>1, <2>2, <2>3 DEF Init, TypeOK
<1>3. EventInv
  <2>1. \A g \in Goroutines : held[g] = <<>> /\ sent[g] = {} /\ Taken(g) = {}
    BY <1>1 DEF Init, Taken
  <2>2. EventType
    BY <1>2 DEF TypeOK, EventType
  <2>3. Order
    BY <1>1, <2>1, EmptySeq DEF Init, Order, Increasing
  <2>4. Ownership
    <3>1. UNION {Taken(g) : g \in Goroutines} = {}
      BY <2>1
    <3>2. 1..0 = {}
      OBVIOUS
    <3> QED
      BY <1>1, <2>1, <3>1, <3>2 DEF Init, Ownership
  <2> QED
    BY <2>2, <2>3, <2>4 DEF EventInv
<1>4. LockInv /\ SlicesInUse /\ LastDrain
  BY DEF Init, LockInv, Places, UnderReadLock, ClosedMeansQuiet, NoDoubleClose,
         ShutdownOrder, Stopped, SlicesInUse, LastDrain, Goroutines, CallerPlaces,
         WorkerPlaces
<1> QED
  BY <1>2, <1>3, <1>4 DEF IInv

LEMMA NextKeepsIInv ==
  ASSUME IInv, [Next]_vars
  PROVE  IInv'
BY NextKeepsTypeOK, NextKeepsEventInv, NextKeepsLockInv, NextKeepsSlicesInUse,
   NextKeepsLastDrain DEF IInv

\* The inductive invariant holds in every reachable state.
LEMMA AlwaysIInv == SafeSpec => []IInv
<1>1. Init => IInv
  BY InitIInv
<1>2. IInv /\ [Next]_vars => IInv'
  BY NextKeepsIInv
<1> QED
  BY <1>1, <1>2, PTL DEF SafeSpec

\* Every variable of the pipeline keeps its type, the queue its capacity and
\* each drain its limit (queue.go, batch_processor.go, nodeloom.go).
THEOREM TypeInvariant == SafeSpec => []TypeOK
<1>1. IInv => TypeOK
  BY DEF IInv
<1> QED
  BY <1>1, AlwaysIInv, PTL

\* Every accepted event is in exactly one place, whatever the interleaving of
\* the worker with the callers of Flush.
THEOREM EventsInOnePlace == SafeSpec => []Custody
<1>1. IInv => Custody
  BY EventInvImpliesCustody DEF IInv
<1> QED
  BY <1>1, AlwaysIInv, PTL

\* After the closed flag is set nobody is between a closed check and the queue.
THEOREM QuietAfterClose == SafeSpec => []ClosedMeansQuiet
<1>1. IInv => ClosedMeansQuiet
  BY DEF IInv, LockInv
<1> QED
  BY <1>1, AlwaysIInv, PTL

\* Concurrent calls of Close close stopCh once.
THEOREM StopChClosedOnce == SafeSpec => []NoDoubleClose
<1>1. IInv => NoDoubleClose
  BY DEF IInv, LockInv
<1> QED
  BY <1>1, AlwaysIInv, PTL

\* A stopped worker holds nothing and leaves events in the queue only after a
\* drain of the full BatchSize * DrainFactor.
THEOREM StoppedWorkerLeavesLimit == SafeSpec => []StopLeavesNothingBehind
<1>1. IInv => StopLeavesNothingBehind
  BY DEF IInv, SlicesInUse, LastDrain, StopLeavesNothingBehind, Stopped
<1> QED
  BY <1>1, AlwaysIInv, PTL

\* A Close that returned without a timeout and found the queue empty has handed
\* every accepted event to the transport.
THEOREM CloseHandsEverything == SafeSpec => []FlushedMeansHanded
<1>1. ASSUME IInv, outcome = "flushed", queue = <<>>
      PROVE  Handed = 1..admitted
  <2>1. Stopped /\ closed
    BY <1>1 DEF IInv, LockInv, ShutdownOrder, Stopped
  <2>2. \A g \in Goroutines : held[g] = <<>>
    BY <1>1, <2>1
       DEF IInv, LockInv, ClosedMeansQuiet, SlicesInUse, Stopped, Goroutines
  <2>3. Range(<<>>) = {}
    BY EmptySeq, RangeEquality DEF Range
  <2>4. \A g \in Goroutines : Taken(g) = sent[g]
    BY <2>2, <2>3 DEF Taken
  <2> QED
    BY <1>1, <2>3, <2>4 DEF IInv, EventInv, Ownership, Handed
<1>2. IInv => FlushedMeansHanded
  BY <1>1 DEF FlushedMeansHanded
<1> QED
  BY <1>2, AlwaysIInv, PTL
-----------------------------------------------------------------------------
(***************************************************************************)
(* What a step does to the events handed over, goroutine by goroutine.     *)
(***************************************************************************)
\* A step hands over the whole slice of one goroutine or nothing.
LEMMA StepHandsOver ==
  ASSUME TypeOK, [Next]_vars
  PROVE  \/ UNCHANGED sent
         \/ \E g \in Goroutines :
              /\ HandOff(g)
              /\ UNCHANGED <<queue, admitted, lifeVars>>
              /\ \/ g = Worker /\ (WorkerFlush \/ WorkerDrained)
                 \/ g \in Callers /\ FlushDrained(g)
<1>1. ASSUME NEW c \in Callers, Call(c) \/ LockAnnounce(c) \/ CallerStep(c),
             ~FlushDrained(c)
      PROVE  UNCHANGED sent
  BY <1>1
     DEF Call, EnqueueCall, FlushCall, CloseCall, ApiCall, LockAnnounce, CallerStep,
         EnqueueCheck, EnqueueSend, FlushCheck, DrainStep, FlushReturn, CloseMark,
         CloseStop, CloseReturn, ApiBody, eventVars
<1>2. ASSUME NEW c \in Callers, FlushDrained(c)
      PROVE  UNCHANGED sent \/ (HandOff(c) /\ UNCHANGED <<queue, admitted, lifeVars>>)
  BY <1>2 DEF FlushDrained
<1>3. ASSUME WorkerStep, ~WorkerFlush, ~WorkerDrained
      PROVE  UNCHANGED sent
  BY <1>3
     DEF WorkerStep, WorkerReceive, WorkerTick, WorkerStop, DrainStep, WorkerPostReturn,
         eventVars
<1>4. ASSUME WorkerFlush \/ WorkerDrained
      PROVE  HandOff(Worker) /\ UNCHANGED <<queue, admitted, lifeVars>>
  BY <1>4 DEF WorkerFlush, WorkerDrained
<1>5. CASE UNCHANGED vars
  BY <1>5 DEF vars, eventVars
<1> QED
  BY <1>1, <1>2, <1>3, <1>4, <1>5, GoroutineFacts DEF Next

\* Each goroutine hands its events over in the order they were accepted.
THEOREM HandedInOrder == SafeSpec => DeliveredInOrder
<1>1. ASSUME IInv, [Next]_vars, NEW g \in Goroutines,
             NEW old \in sent[g], NEW new \in sent'[g] \ sent[g]
      PROVE  old < new
  <2>1. HandOff(g)
    <3>1. PICK h \in Goroutines : HandOff(h)
      BY <1>1, StepHandsOver DEF IInv
    <3>2. CASE h # g
      BY <1>1, <3>1, <3>2 DEF HandOff, IInv, TypeOK
    <3> QED
      BY <3>1, <3>2
  <2>2. sent'[g] = sent[g] \cup Range(held[g])
    BY <2>1 DEF HandOff, IInv, TypeOK
  <2> QED
    BY <1>1, <2>2 DEF IInv, EventInv, Order
<1>2. IInv /\ [Next]_vars =>
        [\A g \in Goroutines :
           \A old \in sent[g], new \in sent'[g] \ sent[g] : old < new]_vars
  BY <1>1
<1> QED
  BY <1>2, AlwaysIInv, PTL DEF SafeSpec, DeliveredInOrder

-----------------------------------------------------------------------------
(***************************************************************************)
(* The refinement.                                                         *)
(***************************************************************************)
\* A hand-over is a step of the abstract buffer: the batch is new, and the
\* buffer has not finished, because the worker stops only after Close and
\* after Close the worker is the only goroutine that hands over.
LEMMA HandOffRefines ==
  ASSUME IInv, [Next]_vars, UNCHANGED lifeVars, UNCHANGED <<queue, admitted>>,
         NEW g \in Goroutines, HandOff(g), held[g] # <<>>,
         UNCHANGED Stopped, ~Stopped
  PROVE  Buffer!HandSome
<1> DEFINE batch == Range(held[g])
<1>1. /\ sent' = [sent EXCEPT ![g] = sent[g] \cup batch]
      /\ held[g] \in Seq(Nat)
  BY DEF HandOff, IInv, TypeOK
<1>2. batch # {}
  BY <1>1, EmptySeq, RangeOfHeadTail
<1>3. batch \subseteq 1..admitted
  BY DEF IInv, EventInv, Ownership, Taken
<1>4. batch \cap Handed = {}
  <2>1. batch \cap sent[g] = {}
    BY EventInvImpliesCustody DEF IInv, Custody
  <2>2. \A h \in Goroutines \ {g} : batch \cap sent[h] = {}
    BY DEF IInv, EventInv, Ownership, Taken
  <2> QED
    BY <2>1, <2>2 DEF Handed
<1>5. Handed' = Handed \cup batch
  BY <1>1 DEF Handed, IInv, TypeOK
<1>6. batch \in SUBSET Buffer!Pending
  BY <1>3, <1>4 DEF Buffer!Pending
<1>7. Buffer!Hand(batch)
  BY <1>2, <1>5, <1>6 DEF Buffer!Hand, lifeVars
<1> QED
  BY <1>6, <1>7 DEF Buffer!HandSome
\* Handing over an empty slice changes nothing.
LEMMA EmptyHandOff ==
  ASSUME IInv, NEW g \in Goroutines, HandOff(g), held[g] = <<>>
  PROVE  UNCHANGED Handed
<1>1. Range(<<>>) = {}
  BY EmptySeq, RangeEquality DEF Range
<1>2. sent' = sent
  BY <1>1 DEF HandOff, IInv, TypeOK
<1> QED
  BY <1>2 DEF Handed

LEMMA WorkerRefines ==
  ASSUME IInv, WorkerStep
  PROVE  [Buffer!Next]_(Buffer!vars)
<1> USE GoroutineFacts
<1>1. UNCHANGED lifeVars /\ ~Stopped
  BY WorkerMoves DEF IInv, Stopped
<1>2. CASE WorkerReceive \/ WorkerTick \/ WorkerStop \/ DrainStep(Worker)
  <2>1. ~Stopped' /\ UNCHANGED <<sent, admitted>>
    BY <1>2, GoToMoves
       DEF WorkerReceive, WorkerTick, WorkerStop, DrainStep, Stopped, IInv, Everywhere,
           WorkerPlaces, eventVars
  <2> QED
    BY <1>1, <2>1 DEF Buffer!vars, Handed, lifeVars, Stopped
<1>3. CASE WorkerFlush \/ (WorkerDrained /\ held[Worker] # <<>>)
  <2>1. /\ HandOff(Worker)
        /\ UNCHANGED <<queue, admitted>>
        /\ ~Stopped'
    BY <1>3, GoToMoves
       DEF WorkerFlush, WorkerDrained, Stopped, IInv, Everywhere, WorkerPlaces
  <2>2. CASE held[Worker] # <<>>
    <3>1. [Next]_vars
      BY DEF Next
    <3> QED
      BY <1>1, <2>1, <2>2, <3>1, HandOffRefines DEF Buffer!Next, Stopped
  <2>3. CASE held[Worker] = <<>>
    BY <1>1, <2>1, <2>3, EmptyHandOff DEF Buffer!vars, lifeVars, Stopped
  <2> QED
    BY <2>2, <2>3
<1>4. CASE WorkerDrained /\ held[Worker] = <<>>
  <2>1. /\ Stopped'
        /\ UNCHANGED admitted
        /\ closed
    BY <1>4, GoToMoves
       DEF WorkerDrained, DrainReturns, Stopped, IInv, LockInv, ShutdownOrder,
           Everywhere, WorkerPlaces
  <2>2. UNCHANGED Handed
    BY <1>4, EmptyHandOff DEF WorkerDrained
  <2>3. Buffer!Finish
    BY <1>1, <2>1, <2>2 DEF Buffer!Finish, lifeVars
  <2> QED
    BY <2>3 DEF Buffer!Next
<1>5. CASE WorkerPostReturn
  <2>1. UNCHANGED <<admitted, sent>>
    BY <1>5 DEF WorkerPostReturn, eventVars
  <2>2. UNCHANGED Handed
    BY <2>1 DEF Handed
  <2>3. CASE Stopped'
    <3>1. closed
      BY <1>5, <2>3, GoToMoves
         DEF WorkerPostReturn, Stopped, IInv, LockInv, ShutdownOrder, Everywhere,
             WorkerPlaces
    <3>2. Buffer!Finish
      BY <1>1, <2>1, <2>2, <2>3, <3>1 DEF Buffer!Finish, lifeVars
    <3> QED
      BY <3>2 DEF Buffer!Next
  <2>4. CASE ~Stopped'
    BY <1>1, <2>1, <2>2, <2>4 DEF Buffer!vars, lifeVars, Stopped
  <2> QED
    BY <2>3, <2>4
<1> QED
  BY <1>2, <1>3, <1>4, <1>5 DEF WorkerStep

LEMMA CallerRefines ==
  ASSUME IInv, NEW c \in Callers, Call(c) \/ LockAnnounce(c) \/ CallerStep(c)
  PROVE  [Buffer!Next]_(Buffer!vars)
<1> USE GoroutineFacts
<1>1. UNCHANGED Stopped
  BY CallerMoves DEF IInv, Stopped
<1>2. CASE EnqueueSend(c)
  <2>1. ~closed /\ UNCHANGED <<sent, lifeVars>>
    BY <1>2 DEF EnqueueSend, IInv, LockInv, ClosedMeansQuiet
  <2>2. UNCHANGED Handed
    BY <2>1 DEF Handed
  <2>3. admitted' = admitted + 1 \/ admitted' = admitted
    BY <1>2 DEF EnqueueSend
  <2> QED
    BY <1>1, <2>1, <2>2, <2>3 DEF Buffer!Next, Buffer!Admit, Buffer!vars, lifeVars
<1>3. CASE FlushDrained(c)
  <2>1. ~closed /\ ~Stopped /\ UNCHANGED <<queue, admitted, lifeVars>>
    BY <1>3
       DEF FlushDrained, DrainReturns, IInv, LockInv, ClosedMeansQuiet, ShutdownOrder,
           Stopped
  <2>2. CASE held[c] = <<>>
    <3>1. UNCHANGED sent
      BY <1>3, <2>2 DEF FlushDrained
    <3> QED
      BY <1>1, <2>1, <3>1 DEF Buffer!vars, Handed, lifeVars
  <2>3. CASE held[c] # <<>>
    <3>1. HandOff(c) /\ [Next]_vars
      BY <1>3, <2>3 DEF FlushDrained, Next, CallerStep
    <3> QED
      BY <1>1, <2>1, <2>3, <3>1, HandOffRefines DEF Buffer!Next
  <2> QED
    BY <2>2, <2>3
<1>4. CASE CloseMark(c)
  <2>1. UNCHANGED <<admitted, sent>> /\ closed' = TRUE
    BY <1>4 DEF CloseMark, eventVars, IInv, TypeOK
  <2>2. UNCHANGED Handed
    BY <2>1 DEF Handed
  <2>3. CASE closed
    BY <1>1, <2>1, <2>2, <2>3 DEF Buffer!vars
  <2>4. CASE ~closed
    BY <1>1, <2>1, <2>2, <2>4 DEF Buffer!Next, Buffer!Close
  <2> QED
    BY <2>3, <2>4
<1>5. CASE ~EnqueueSend(c) /\ ~FlushDrained(c) /\ ~CloseMark(c)
  <2>1. UNCHANGED <<admitted, sent, closed>>
    BY <1>5
       DEF Call, EnqueueCall, FlushCall, CloseCall, ApiCall, LockAnnounce, CallerStep,
           EnqueueCheck, FlushCheck, DrainStep, FlushReturn, CloseStop, CloseReturn,
           ApiBody, eventVars, lifeVars
  <2> QED
    BY <1>1, <2>1 DEF Buffer!vars, Handed
<1> QED
  BY <1>2, <1>3, <1>4, <1>5

\* The queue, the worker, the callers and the shutdown together implement the
\* abstract buffer: admitted while open, handed over at most once, never after
\* the end.
THEOREM PipelineImplementsBuffer == SafeSpec => ImplementsBufferSafely
<1>1. ASSUME Init
      PROVE  Buffer!Init
  <2>1. \A g \in Goroutines : sent[g] = {}
    BY <1>1 DEF Init
  <2>2. Handed = {}
    BY <2>1 DEF Handed
  <2> QED
    BY <1>1, <2>2, GoroutineFacts DEF Init, Buffer!Init, Stopped
<1>2. ASSUME IInv, [Next]_vars
      PROVE  [Buffer!Next]_(Buffer!vars)
  <2>1. CASE UNCHANGED vars
    BY <2>1 DEF vars, eventVars, lifeVars, Buffer!vars, Handed, Stopped
  <2> QED
    BY <1>2, <2>1, WorkerRefines, CallerRefines DEF Next
<1> QED
  BY <1>1, <1>2, AlwaysIInv, PTL DEF SafeSpec, ImplementsBufferSafely, Buffer!SafeSpec
-----------------------------------------------------------------------------
(***************************************************************************)
(* How large a request can get.                                            *)
(***************************************************************************)
\* A slice has no more events than its length.
LEMMA CardinalityOfRange ==
  ASSUME NEW s \in Seq(Nat)
  PROVE  IsFiniteSet(Range(s)) /\ Cardinality(Range(s)) <= Len(s)
<1>1. s \in [1..Len(s) -> Nat] /\ Len(s) \in Nat
  BY LenProperties
<1>2. Range(s) = {s[i] : i \in 1..Len(s)}
  BY RangeEquality
<1>3. s \in Surjection(1..Len(s), Range(s))
  BY <1>1, <1>2 DEF Surjection
<1>4. IsFiniteSet(1..Len(s)) /\ Cardinality(1..Len(s)) = Len(s)
  <2>1. 1 \in Int /\ Len(s) \in Int
    BY <1>1
  <2>2. /\ IsFiniteSet(1..Len(s))
        /\ Cardinality(1..Len(s)) = IF 1 > Len(s) THEN 0 ELSE Len(s) - 1 + 1
    BY <2>1, FS_Interval
  <2>3. (IF 1 > Len(s) THEN 0 ELSE Len(s) - 1 + 1) = Len(s)
    BY <1>1
  <2> QED
    BY <2>2, <2>3
<1> QED
  BY <1>3, <1>4, FS_Surjection

\* Taking lengthens the slice of the goroutine that takes, by one event.
LEMMA TakeLengthens ==
  ASSUME TypeOK, NEW g \in Goroutines, Take(g)
  PROVE  /\ Len(held'[g]) = Len(held[g]) + 1
         /\ \A h \in Goroutines \ {g} : held'[h] = held[h]
BY HeadTailProperties, AppendProperties DEF TypeOK, Take

\* A step of a caller keeps its slice within its loop counter.
LEMMA CallerKeepsSliceBounds ==
  ASSUME IInv, SliceBounds, NEW c \in Callers,
         Call(c) \/ LockAnnounce(c) \/ CallerStep(c)
  PROVE  SliceBounds'
<1> USE GoroutineFacts
<1>1. \A h \in Goroutines \ {c} : /\ pc'[h] = pc[h]
                                  /\ held'[h] = held[h]
                                  /\ drained'[h] = drained[h]
  <2>1. \A h \in Goroutines \ {c} : pc'[h] = pc[h]
    BY CallerMoves DEF IInv
  <2>2. \A h \in Goroutines \ {c} : held'[h] = held[h] /\ drained'[h] = drained[h]
    BY DEF IInv, TypeOK, Call, EnqueueCall, FlushCall, CloseCall, ApiCall, LockAnnounce,
           CallerStep, EnqueueCheck, EnqueueSend, FlushCheck, DrainStep, FlushDrained,
           FlushReturn, CloseMark, CloseStop, CloseReturn, ApiBody, Take, HandOff,
           eventVars
  <2> QED
    BY <2>1, <2>2
<1>2. Len(held'[c]) <= drained'[c]
  <2>1. CASE DrainStep(c)
    <3>1. Len(held'[c]) = Len(held[c]) + 1 /\ drained'[c] = drained[c] + 1
      BY <2>1, TakeLengthens DEF DrainStep, IInv, TypeOK
    <3> QED
      BY <3>1, LenProperties DEF SliceBounds, IInv, TypeOK
  <2>2. CASE FlushDrained(c)
    <3>1. drained'[c] = drained[c] /\ (held'[c] = held[c] \/ held'[c] = <<>>)
      BY <2>2 DEF FlushDrained, HandOff, IInv, TypeOK
    <3>2. drained[c] \in Nat /\ Len(<<>>) = 0
      BY EmptySeq DEF IInv, TypeOK
    <3> QED
      BY <3>1, <3>2 DEF SliceBounds
  <2>3. CASE FlushCheck(c)
    <3>1. held'[c] = <<>> /\ drained'[c] \in {0, drained[c]}
      BY <2>3 DEF FlushCheck, IInv, SlicesInUse, TypeOK
    <3>2. drained[c] \in Nat /\ Len(<<>>) = 0
      BY EmptySeq DEF IInv, TypeOK
    <3> QED
      BY <3>1, <3>2
  <2>4. CASE ~DrainStep(c) /\ ~FlushDrained(c) /\ ~FlushCheck(c)
    <3>1. UNCHANGED <<held, drained>>
      BY <2>4
         DEF Call, EnqueueCall, FlushCall, CloseCall, ApiCall, LockAnnounce, CallerStep,
             EnqueueCheck, EnqueueSend, FlushReturn, CloseMark, CloseStop, CloseReturn,
             ApiBody, eventVars
    <3> QED
      BY <3>1 DEF SliceBounds
  <2> QED
    BY <2>1, <2>2, <2>3, <2>4
<1> QED
  BY <1>1, <1>2 DEF SliceBounds

LEMMA WorkerKeepsSliceBounds ==
  ASSUME IInv, SliceBounds, WorkerStep
  PROVE  SliceBounds'
<1> USE GoroutineFacts
<1>1. \A c \in Callers : held'[c] = held[c] /\ drained'[c] = drained[c]
  BY DEF IInv, TypeOK, WorkerStep, WorkerReceive, WorkerTick, WorkerFlush, WorkerStop,
         DrainStep, WorkerDrained, WorkerPostReturn, Take, HandOff, eventVars
<1>2. /\ Len(held[Worker]) \in Nat
      /\ drained[Worker] \in Nat
      /\ BatchSize \in Nat \ {0}
  BY PipelineAssumption, LenProperties DEF IInv, TypeOK
<1>3. CASE WorkerReceive
  <2>1. /\ pc[Worker] = "select"
        /\ Len(held'[Worker]) = Len(held[Worker]) + 1
        /\ pc'[Worker] =
             IF Len(held[Worker]) + 1 >= BatchSize THEN "flush" ELSE "select"
    BY <1>3, TakeLengthens, GoToMoves DEF WorkerReceive, IInv, Everywhere, WorkerPlaces
  <2>2. Len(held[Worker]) < BatchSize
    BY <2>1 DEF SliceBounds
  <2>3. CASE Len(held[Worker]) + 1 >= BatchSize
    BY <1>1, <1>2, <2>1, <2>2, <2>3 DEF SliceBounds
  <2>4. CASE ~(Len(held[Worker]) + 1 >= BatchSize)
    BY <1>1, <1>2, <2>1, <2>2, <2>4 DEF SliceBounds
  <2> QED
    BY <2>3, <2>4
<1>4. CASE WorkerTick
  <2>1. /\ pc[Worker] = "select"
        /\ pc'[Worker] = "flush"
        /\ held' = held
    BY <1>4, GoToMoves DEF WorkerTick, IInv, Everywhere, WorkerPlaces, eventVars
  <2> QED
    BY <1>1, <1>2, <2>1 DEF SliceBounds
<1>5. CASE WorkerStop
  <2>1. /\ pc[Worker] = "select"
        /\ pc'[Worker] = "drain"
        /\ held' = held
        /\ drained'[Worker] = 0
    BY <1>5, GoToMoves DEF WorkerStop, IInv, TypeOK, Everywhere, WorkerPlaces
  <2> QED
    BY <1>1, <1>2, <2>1 DEF SliceBounds
<1>6. CASE DrainStep(Worker)
  <2>1. /\ pc[Worker] = "drain"
        /\ pc' = pc
        /\ Len(held'[Worker]) = Len(held[Worker]) + 1
        /\ drained'[Worker] = drained[Worker] + 1
    BY <1>6, TakeLengthens DEF DrainStep, IInv, TypeOK
  <2> QED
    BY <1>1, <1>2, <2>1 DEF SliceBounds
<1>7. CASE WorkerFlush \/ WorkerDrained
  <2>1. held'[Worker] = <<>> /\ pc'[Worker] # "drain"
    BY <1>7, GoToMoves
       DEF WorkerFlush, WorkerDrained, HandOff, IInv, TypeOK, Everywhere, WorkerPlaces
  <2>2. Len(<<>>) = 0
    BY EmptySeq
  <2> QED
    BY <1>1, <1>2, <2>1, <2>2 DEF SliceBounds
<1>8. CASE WorkerPostReturn
  <2>1. /\ held' = held
        /\ pc[Worker] \in {"post", "final"}
        /\ pc'[Worker] \in {"select", "done"}
    BY <1>8, GoToMoves DEF WorkerPostReturn, IInv, Everywhere, WorkerPlaces, eventVars
  <2>2. held[Worker] = <<>> /\ Len(<<>>) = 0
    BY <2>1, EmptySeq DEF IInv, SlicesInUse
  <2> QED
    BY <1>1, <1>2, <2>1, <2>2 DEF SliceBounds
<1> QED
  BY <1>3, <1>4, <1>5, <1>6, <1>7, <1>8 DEF WorkerStep
\* A slice never outgrows the batch or the drain that fills it.
LEMMA AlwaysSliceBounds == SafeSpec => [](IInv /\ SliceBounds)
<1> USE GoroutineFacts
<1>1. Init => IInv /\ SliceBounds
  <2>1. ASSUME Init
        PROVE  SliceBounds
    <3>1. /\ pc[Worker] = "select"
          /\ \A g \in Goroutines : held[g] = <<>> /\ drained[g] = 0
      BY <2>1 DEF Init
    <3>2. Len(<<>>) = 0 /\ 0 < BatchSize
      BY PipelineAssumption, EmptySeq
    <3> QED
      BY <3>1, <3>2 DEF SliceBounds
  <2> QED
    BY <2>1, InitIInv
<1>2. IInv /\ SliceBounds /\ [Next]_vars => (IInv /\ SliceBounds)'
  <2>1. ASSUME IInv, SliceBounds, Next
        PROVE  SliceBounds'
    BY <2>1, CallerKeepsSliceBounds, WorkerKeepsSliceBounds DEF Next
  <2>2. ASSUME SliceBounds, UNCHANGED vars
        PROVE  SliceBounds'
    BY <2>2 DEF vars, eventVars, SliceBounds
  <2> QED
    BY <2>1, <2>2, NextKeepsIInv
<1> QED
  BY <1>1, <1>2, PTL DEF SafeSpec

\* One request carries at most a batch from the worker's loop, BatchSize * 10
\* events from Flush, and a batch short of one plus BatchSize * 10 at shutdown.
THEOREM RequestBounds == SafeSpec => BatchBounds
<1> USE GoroutineFacts
<1> DEFINE Bound(g) == CASE g # Worker -> DrainLimit
                         [] pc[g] = "drain" -> BatchSize - 1 + DrainLimit
                         [] OTHER -> BatchSize
<1>1. ASSUME IInv, SliceBounds, [Next]_vars, NEW g \in Goroutines
      PROVE  Cardinality(sent'[g] \ sent[g]) <= Bound(g)
  <2>1. /\ BatchSize \in Nat \ {0}
        /\ drained[g] \in 0..DrainLimit
        /\ Len(held[g]) \in Nat
        /\ held[g] \in Seq(Nat)
        /\ DrainLimit \in Nat
    BY <1>1, PipelineAssumption, LenProperties DEF IInv, TypeOK
  <2>2. CASE sent'[g] = sent[g]
    <3>1. Cardinality(sent'[g] \ sent[g]) = 0
      BY <2>2, FS_EmptySet
    <3>2. Bound(g) \in Nat
      BY <2>1
    <3> QED
      BY <3>1, <3>2
  <2>3. CASE sent'[g] # sent[g]
    <3>1. PICK h \in Goroutines :
            /\ HandOff(h)
            /\ \/ h = Worker /\ (WorkerFlush \/ WorkerDrained)
               \/ h \in Callers /\ FlushDrained(h)
      BY <1>1, <2>3, StepHandsOver DEF IInv
    <3>2. h = g /\ sent'[g] = sent[g] \cup Range(held[g])
      BY <1>1, <2>3, <3>1 DEF HandOff, IInv, TypeOK
    <3>3. Cardinality(sent'[g] \ sent[g]) <= Len(held[g])
      <4>1. sent'[g] \ sent[g] \subseteq Range(held[g])
        BY <3>2
      <4>2. IsFiniteSet(Range(held[g])) /\ Cardinality(Range(held[g])) <= Len(held[g])
        BY <2>1, CardinalityOfRange
      <4>3. /\ IsFiniteSet(sent'[g] \ sent[g])
            /\ Cardinality(sent'[g] \ sent[g]) <= Cardinality(Range(held[g]))
        BY <4>1, <4>2, FS_Subset
      <4>4. /\ Cardinality(sent'[g] \ sent[g]) \in Nat
            /\ Cardinality(Range(held[g])) \in Nat
        BY <4>2, <4>3, FS_CardinalityType
      <4> QED
        BY <2>1, <4>2, <4>3, <4>4
    <3>4. Cardinality(sent'[g] \ sent[g]) \in Nat
      <4>1. IsFiniteSet(Range(held[g]))
        BY <2>1, CardinalityOfRange
      <4>2. IsFiniteSet(sent'[g] \ sent[g])
        BY <3>2, <4>1, FS_Subset
      <4> QED
        BY <4>2, FS_CardinalityType
    <3>5. CASE g # Worker
      <4>1. Len(held[g]) <= drained[g]
        BY <1>1, <3>5 DEF SliceBounds, Goroutines
      <4> QED
        BY <2>1, <3>3, <3>4, <3>5, <4>1
    <3>6. CASE g = Worker /\ WorkerDrained
      <4>1. pc[g] = "drain" /\ Len(held[g]) < BatchSize + drained[g]
        BY <1>1, <3>6 DEF SliceBounds, WorkerDrained, DrainReturns
      <4> QED
        BY <2>1, <3>3, <3>4, <3>6, <4>1
    <3>7. CASE g = Worker /\ WorkerFlush
      <4>1. pc[g] = "flush" /\ Len(held[g]) <= BatchSize
        BY <1>1, <3>7 DEF SliceBounds, WorkerFlush
      <4> QED
        BY <2>1, <3>3, <3>4, <3>7, <4>1
    <3> QED
      BY <3>1, <3>2, <3>5, <3>6, <3>7
  <2> QED
    BY <2>2, <2>3
<1>2. IInv /\ SliceBounds /\ [Next]_vars =>
        [\A g \in Goroutines : Cardinality(sent'[g] \ sent[g]) <= Bound(g)]_vars
  BY <1>1
<1> QED
  BY <1>2, AlwaysSliceBounds, PTL DEF SafeSpec, BatchBounds

-----------------------------------------------------------------------------
(***************************************************************************)
(* Why calls return: no return path keeps the lock, whoever waits for it   *)
(* waits for somebody who can go on, and no call goes on for long.  What   *)
(* fairness adds is that those who can go on do.                           *)
(***************************************************************************)
Reading == {"enqueue", "send", "flush", "drain", "post"}

\* The lock is with those who are between RLock and RUnlock, or between Lock and
\* Unlock, and with nobody else; and whoever is parked is parked behind a writer.
LockIsReturned ==
  /\ \A c \in Callers :
       /\ c \in readers \cup blocked <=> pc[c] \in Reading
       /\ c \in blocked => c \notin readers /\ pc[c] \in {"enqueue", "flush"} /\ writer # NoOne
  /\ writer # NoOne => pc[writer] \in {"close", "api"}

\* A caller can go on if it is in no need of the lock, has it, or can have it.
CanGoOn(c) ==
  \/ pc[c] \in {"send", "drain", "post", "stopping", "joining"}
  \/ pc[c] \in {"enqueue", "flush"} /\ c \in readers
  \/ pc[c] \in {"close", "api"} /\ (writer = NoOne \/ HasLock(c))

NoDeadlock == (\E c \in Callers : pc[c] # "idle") => \E c \in Callers : CanGoOn(c)

\* The steps that a call has still to take, most of them receives in a drain.
StepsLeft(g) ==
  CASE pc[g] \in {"send", "post", "joining", "api"} -> 1
    [] pc[g] \in {"enqueue", "stopping"} -> 2
    [] pc[g] = "close" -> 3
    [] pc[g] = "drain" -> DrainLimit - drained[g] + 2
    [] pc[g] = "flush" -> DrainLimit + 3
    [] OTHER -> 0

CallsAreShort ==
  [][\A c \in Callers : /\ CallerStep(c) => StepsLeft(c)' < StepsLeft(c)
                        /\ pc[c] # "idle" => StepsLeft(c)' <= StepsLeft(c)]_vars

\* The lock and the place of one caller.
LEMMA CallerEffect ==
  ASSUME TypeOK, LockIsReturned, NEW c \in Callers,
         Call(c) \/ LockAnnounce(c) \/ CallerStep(c)
  PROVE  \/ pc[c] = "idle" /\ pc'[c] \in {"enqueue", "flush"} /\ RLock(c)
         \/ pc[c] = "idle" /\ pc'[c] \in {"close", "api"} /\ UNCHANGED lockVars
         \/ pc[c] \in {"close", "api"} /\ pc'[c] = pc[c] /\ Announce(c)
         \/ pc[c] \in Reading /\ c \in readers /\ pc'[c] = "idle" /\ RUnlock(c)
         \/ pc[c] \in Reading /\ c \in readers /\ pc'[c] \in Reading /\ UNCHANGED lockVars
         \/ pc[c] \in {"close", "api"} /\ HasLock(c) /\ pc'[c] \in {"idle", "stopping"} /\ Unlock(c)
         \/ /\ pc[c] \in {"stopping", "joining"} /\ pc'[c] \in {"joining", "idle"}
            /\ UNCHANGED lockVars
<1> USE GoToMoves, GoroutineFacts DEF Everywhere, CallerPlaces
<1>1. pc[c] \in {"send", "drain", "post"} => c \in readers
  BY DEF LockIsReturned, Reading
<1>2. CASE Call(c)
  BY <1>2 DEF Call, EnqueueCall, FlushCall, CloseCall, ApiCall
<1>3. CASE LockAnnounce(c)
  BY <1>3 DEF LockAnnounce
<1>4. CASE EnqueueCheck(c) \/ EnqueueSend(c) \/ FlushReturn(c)
  BY <1>1, <1>4 DEF EnqueueCheck, EnqueueSend, FlushReturn, Reading
<1>5. CASE FlushCheck(c) \/ DrainStep(c)
  BY <1>1, <1>5 DEF FlushCheck, DrainStep, Reading
<1>6. CASE FlushDrained(c)
  BY <1>1, <1>6 DEF FlushDrained, DrainReturns, Reading
<1>7. CASE CloseMark(c) \/ ApiBody(c)
  BY <1>7 DEF CloseMark, ApiBody
<1>8. CASE CloseStop(c) \/ CloseReturn(c)
  BY <1>8 DEF CloseStop, CloseReturn
<1> QED
  BY <1>2, <1>3, <1>4, <1>5, <1>6, <1>7, <1>8 DEF CallerStep

LEMMA CallerKeepsLock ==
  ASSUME TypeOK, LockIsReturned, NEW c \in Callers,
         Call(c) \/ LockAnnounce(c) \/ CallerStep(c)
  PROVE  LockIsReturned'
<1> USE GoroutineFacts
<1>1. \A h \in Goroutines \ {c} : pc'[h] = pc[h]
  BY CallerMoves
<1>2. /\ readers \subseteq Callers /\ blocked \subseteq Callers
      /\ writer \in Callers \cup {NoOne}
  BY DEF TypeOK
<1> USE DEF LockIsReturned, Reading
<1>3. CASE pc[c] = "idle" /\ pc'[c] \in {"enqueue", "flush"} /\ RLock(c)
  BY <1>1, <1>2, <1>3 DEF RLock
<1>4. CASE pc[c] = "idle" /\ pc'[c] \in {"close", "api"} /\ UNCHANGED lockVars
  BY <1>1, <1>2, <1>4 DEF lockVars
<1>5. CASE pc[c] \in {"close", "api"} /\ pc'[c] = pc[c] /\ Announce(c)
  BY <1>1, <1>2, <1>5 DEF Announce
<1>6. CASE pc[c] \in Reading /\ c \in readers /\ pc'[c] = "idle" /\ RUnlock(c)
  BY <1>1, <1>2, <1>6 DEF RUnlock
<1>7. CASE pc[c] \in Reading /\ c \in readers /\ pc'[c] \in Reading /\ UNCHANGED lockVars
  BY <1>1, <1>2, <1>7 DEF lockVars
<1>8. CASE pc[c] \in {"close", "api"} /\ HasLock(c) /\ pc'[c] \in {"idle", "stopping"} /\ Unlock(c)
  BY <1>1, <1>2, <1>8 DEF HasLock, Unlock
<1>9. CASE /\ pc[c] \in {"stopping", "joining"} /\ pc'[c] \in {"joining", "idle"}
           /\ UNCHANGED lockVars
  BY <1>1, <1>2, <1>9 DEF lockVars
<1> QED
  BY <1>3, <1>4, <1>5, <1>6, <1>7, <1>8, <1>9, CallerEffect

\* No return path of enqueue, Flush, Close or Api keeps the lock.
THEOREM LockComesBack == SafeSpec => []LockIsReturned
<1> USE GoroutineFacts
<1>1. Init => LockIsReturned
  BY DEF Init, LockIsReturned, Reading, Goroutines
<1>2. IInv /\ LockIsReturned /\ [Next]_vars => LockIsReturned'
  <2>1. ASSUME IInv, LockIsReturned, NEW c \in Callers,
               Call(c) \/ LockAnnounce(c) \/ CallerStep(c)
        PROVE  LockIsReturned'
    BY <2>1, CallerKeepsLock DEF IInv
  <2>2. ASSUME IInv, LockIsReturned, WorkerStep
        PROVE  LockIsReturned'
    <3>1. (\A c \in Callers : pc'[c] = pc[c]) /\ UNCHANGED lockVars
      BY <2>2, WorkerMoves DEF IInv
    <3>2. writer \in Callers \cup {NoOne}
      BY <2>2 DEF IInv, TypeOK
    <3> QED
      BY <2>2, <3>1, <3>2 DEF LockIsReturned, Reading, lockVars
  <2>3. ASSUME LockIsReturned, UNCHANGED vars
        PROVE  LockIsReturned'
    BY <2>3 DEF LockIsReturned, Reading, vars, lockVars
  <2> QED
    BY <2>1, <2>2, <2>3 DEF Next
<1> QED
  BY <1>1, <1>2, AlwaysIInv, PTL DEF SafeSpec

\* However many goroutines call the client, they never all wait for each other.
THEOREM CallersNeverDeadlock == SafeSpec => []NoDeadlock
<1> USE GoroutineFacts
<1>1. ASSUME IInv, LockIsReturned, NEW c \in Callers, pc[c] # "idle"
      PROVE  \E d \in Callers : CanGoOn(d)
  <2>1. /\ pc[c] \in CallerPlaces
        /\ readers \subseteq Callers
        /\ writer \in Callers \cup {NoOne}
    BY <1>1 DEF IInv, LockInv, Places, TypeOK
  <2>2. ASSUME writer # NoOne
        PROVE  \E d \in Callers : CanGoOn(d)
    <3>1. CASE readers = {}
      BY <1>1, <2>1, <2>2, <3>1 DEF LockIsReturned, CanGoOn, HasLock
    <3>2. CASE readers # {}
      BY <1>1, <2>1, <3>2 DEF LockIsReturned, CanGoOn, Reading
    <3> QED
      BY <3>1, <3>2
  <2>3. ASSUME writer = NoOne
        PROVE  CanGoOn(c)
    BY <1>1, <2>1, <2>3 DEF LockIsReturned, CanGoOn, Reading, CallerPlaces
  <2> QED
    BY <2>2, <2>3
<1>2. IInv /\ LockIsReturned => NoDeadlock
  BY <1>1 DEF NoDeadlock
<1> QED
  BY <1>2, AlwaysIInv, LockComesBack, PTL

\* A call has a bounded number of steps before it, each of its own steps leaves
\* fewer, and no step of another goroutine, which may fill the queue again while
\* Flush empties it, adds any.
THEOREM CallsRunOut ==
  SafeSpec => /\ [](\A c \in Callers : StepsLeft(c) \in 0..(DrainLimit + 3))
              /\ CallsAreShort
<1> USE GoroutineFacts
<1>1. ASSUME IInv, NEW c \in Callers
      PROVE  StepsLeft(c) \in 0..(DrainLimit + 3) /\ drained[c] \in 0..DrainLimit
  <2>1. drained[c] \in 0..DrainLimit
    BY <1>1 DEF IInv, TypeOK
  <2>2. DrainLimit - drained[c] + 2 \in 0..(DrainLimit + 3)
    BY <2>1
  <2>3. StepsLeft(c) \in {0, 1, 2, 3, DrainLimit - drained[c] + 2, DrainLimit + 3}
    BY Zenon DEF StepsLeft
  <2> QED
    BY <2>1, <2>2, <2>3
<1>2. ASSUME IInv, IInv', NEW c \in Callers, CallerStep(c)
      PROVE  StepsLeft(c)' < StepsLeft(c)
  <2> USE <1>1, <1>2, GoToMoves DEF IInv, Everywhere, CallerPlaces
  <2>1. CASE EnqueueCheck(c) \/ EnqueueSend(c) \/ FlushReturn(c)
    BY <2>1 DEF EnqueueCheck, EnqueueSend, FlushReturn, StepsLeft
  <2>2. CASE FlushCheck(c)
    <3>1. pc[c] = "flush" /\ pc'[c] \in {"idle", "drain"} /\ drained'[c] \in 0..DrainLimit
      BY <2>2 DEF FlushCheck, TypeOK
    <3> QED
      BY <3>1 DEF StepsLeft
  <2>3. CASE DrainStep(c)
    <3>1. pc[c] = "drain" /\ pc'[c] = "drain" /\ drained'[c] = drained[c] + 1
      BY <2>3 DEF DrainStep, TypeOK
    <3>2. drained[c] \in 0..DrainLimit
      BY <1>1
    <3> QED
      BY <3>1, <3>2 DEF StepsLeft
  <2>4. CASE FlushDrained(c)
    <3>1. pc[c] = "drain" /\ pc'[c] \in {"idle", "post"}
      BY <2>4 DEF FlushDrained, DrainReturns
    <3>2. drained[c] \in 0..DrainLimit
      BY <1>1
    <3> QED
      BY <3>1, <3>2 DEF StepsLeft
  <2>5. CASE CloseMark(c) \/ ApiBody(c) \/ CloseStop(c) \/ CloseReturn(c)
    BY <2>5 DEF CloseMark, ApiBody, CloseStop, CloseReturn, StepsLeft
  <2> QED
    BY <1>2, <2>1, <2>2, <2>3, <2>4, <2>5 DEF CallerStep
<1>3. ASSUME IInv, NEW c \in Callers, NEW d \in Callers \ {c},
             Call(d) \/ LockAnnounce(d) \/ CallerStep(d)
      PROVE  StepsLeft(c)' = StepsLeft(c)
  <2>1. pc'[c] = pc[c]
    BY <1>3, CallerMoves DEF IInv
  <2>2. drained'[c] = drained[c]
    BY <1>3
       DEF IInv, TypeOK, Call, EnqueueCall, FlushCall, CloseCall, ApiCall, LockAnnounce,
           CallerStep, EnqueueCheck, EnqueueSend, FlushCheck, DrainStep, FlushDrained,
           FlushReturn, CloseMark, CloseStop, CloseReturn, ApiBody, eventVars
  <2> QED
    BY <2>1, <2>2 DEF StepsLeft
<1>4. ASSUME IInv, NEW c \in Callers, WorkerStep
      PROVE  StepsLeft(c)' = StepsLeft(c)
  <2>1. pc'[c] = pc[c]
    BY <1>4, WorkerMoves DEF IInv
  <2>2. drained'[c] = drained[c]
    BY <1>4
       DEF IInv, TypeOK, WorkerStep, WorkerReceive, WorkerTick, WorkerFlush, WorkerStop,
           DrainStep, WorkerDrained, WorkerPostReturn, eventVars
  <2> QED
    BY <2>1, <2>2 DEF StepsLeft
<1>5. ASSUME IInv, NEW c \in Callers, LockAnnounce(c)
      PROVE  StepsLeft(c)' = StepsLeft(c)
  BY <1>5 DEF LockAnnounce, eventVars, StepsLeft
<1>6. ASSUME NEW c \in Callers, Call(c)
      PROVE  pc[c] = "idle"
  BY <1>6 DEF Call, EnqueueCall, FlushCall, CloseCall, ApiCall
<1>7. ASSUME IInv, IInv', Next, NEW c \in Callers
      PROVE  /\ CallerStep(c) => StepsLeft(c)' < StepsLeft(c)
             /\ pc[c] # "idle" => StepsLeft(c)' <= StepsLeft(c)
  <2>1. StepsLeft(c) \in Int /\ StepsLeft(c)' \in Int
    <3>1. StepsLeft(c) \in Int
      BY <1>1, <1>7
    <3>2. drained'[c] \in 0..DrainLimit
      BY <1>7 DEF IInv, TypeOK
    <3>3. DrainLimit - drained'[c] + 2 \in Int
      BY <3>2
    <3>4. StepsLeft(c)' \in {0, 1, 2, 3, DrainLimit - drained'[c] + 2, DrainLimit + 3}
      BY DEF StepsLeft
    <3> QED
      BY <3>1, <3>3, <3>4
  <2>2. CASE CallerStep(c)
    BY <1>2, <1>7, <2>1, <2>2
  <2>3. CASE ~CallerStep(c)
    <3>1. pc[c] = "idle" \/ StepsLeft(c)' = StepsLeft(c)
      BY <1>3, <1>4, <1>5, <1>6, <1>7, <2>3 DEF Next
    <3> QED
      BY <2>1, <2>3, <3>1
  <2> QED
    BY <2>2, <2>3
<1>8. IInv /\ IInv' /\ [Next]_vars =>
        [\A c \in Callers : /\ CallerStep(c) => StepsLeft(c)' < StepsLeft(c)
                            /\ pc[c] # "idle" => StepsLeft(c)' <= StepsLeft(c)]_vars
  BY <1>7
<1>9. IInv => \A c \in Callers : StepsLeft(c) \in 0..(DrainLimit + 3)
  BY <1>1
<1> QED
  BY <1>8, <1>9, AlwaysIInv, PTL DEF SafeSpec, CallsAreShort
=============================================================================
