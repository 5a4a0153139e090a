-------------------------- MODULE ShutdownProofs --------------------------
(***************************************************************************)
(* Proofs about Shutdown for every number of goroutines, whatever a        *)
(* request and the wait of stop may take and whatever options are passed.  *)
(***************************************************************************)
EXTENDS Shutdown, FiniteSetTheorems, TLAPS

-----------------------------------------------------------------------------
(***************************************************************************)
(* The queue of writers.                                                   *)
(***************************************************************************)
Distinct(q) == \A i, j \in 1..Len(q) : q[i] = q[j] => i = j

LEMMA AppendWriter ==
  ASSUME NEW q \in Seq(Writers), NEW w \in Writers, Distinct(q),
         \A i \in 1..Len(q) : q[i] # w
  PROVE  /\ Append(q, w) \in Seq(Writers)
         /\ Append(q, w) # <<>>
         /\ Distinct(Append(q, w))
         /\ Len(Append(q, w)) = Len(q) + 1
         /\ Append(q, w)[Len(q) + 1] = w
         /\ \A i \in 1..Len(q) : Append(q, w)[i] = q[i]
<1>1. /\ Append(q, w) \in Seq(Writers)
      /\ Len(Append(q, w)) = Len(q) + 1 /\ Len(q) \in Nat
      /\ Append(q, w)[Len(q) + 1] = w
      /\ \A i \in 1..Len(q) : Append(q, w)[i] = q[i]
  OBVIOUS
<1>2. \A i \in 1..Len(Append(q, w)) : i \in 1..Len(q) \/ i = Len(q) + 1
  BY <1>1
<1>3. Distinct(Append(q, w))
  BY <1>1, <1>2 DEF Distinct
<1>4. Append(q, w) # <<>>
  BY <1>1
<1> QED
  BY <1>1, <1>3, <1>4

LEMMA PrependWriter ==
  ASSUME NEW q \in Seq(Writers), NEW w \in Writers, Distinct(q),
         \A i \in 1..Len(q) : q[i] # w
  PROVE  /\ <<w>> \o q \in Seq(Writers)
         /\ <<w>> \o q # <<>>
         /\ Distinct(<<w>> \o q)
         /\ Len(<<w>> \o q) = Len(q) + 1
         /\ (<<w>> \o q)[1] = w
         /\ \A i \in 1..Len(q) : (<<w>> \o q)[i + 1] = q[i]
         /\ \A i \in 1..Len(<<w>> \o q) :
              i # 1 => i - 1 \in 1..Len(q) /\ (<<w>> \o q)[i] = q[i - 1]
<1> DEFINE new == <<w>> \o q
<1>1. /\ new \in Seq(Writers)
      /\ Len(new) = Len(q) + 1 /\ Len(q) \in Nat
      /\ new[1] = w
      /\ \A i \in 1..Len(q) : new[i + 1] = q[i]
  OBVIOUS
<1>2. \A i \in 1..Len(new) : i # 1 => i - 1 \in 1..Len(q) /\ new[i] = q[i - 1]
  <2> SUFFICES ASSUME NEW i \in 1..Len(new), i # 1
               PROVE  i - 1 \in 1..Len(q) /\ new[i] = q[i - 1]
    OBVIOUS
  <2>1. i - 1 \in 1..Len(q) /\ (i - 1) + 1 = i
    BY <1>1
  <2>2. new[(i - 1) + 1] = q[i - 1]
    BY <1>1, <2>1
  <2> QED
    BY <2>1, <2>2
<1>3. ASSUME NEW i \in 1..Len(new), NEW j \in 1..Len(new), new[i] = new[j]
      PROVE  i = j
  <2>1. CASE i = 1 /\ j = 1
    BY <2>1
  <2>2. CASE i = 1 /\ j # 1
    BY <1>1, <1>2, <1>3, <2>2
  <2>3. CASE i # 1 /\ j = 1
    BY <1>1, <1>2, <1>3, <2>3
  <2>4. CASE i # 1 /\ j # 1
    <3>1. i - 1 \in 1..Len(q) /\ j - 1 \in 1..Len(q) /\ q[i - 1] = q[j - 1]
      BY <1>2, <1>3, <2>4
    <3>2. i - 1 = j - 1
      BY <3>1 DEF Distinct
    <3> QED
      BY <1>1, <3>2
  <2> QED
    BY <2>1, <2>2, <2>3, <2>4
<1>4. new # <<>>
  BY <1>1
<1> QED
  BY <1>1, <1>2, <1>3, <1>4 DEF Distinct

LEMMA TailWriter ==
  ASSUME NEW q \in Seq(Writers), q # <<>>, Distinct(q)
  PROVE  /\ Tail(q) \in Seq(Writers)
         /\ Distinct(Tail(q))
         /\ Head(q) = q[1] /\ Head(q) \in Writers
         /\ 1 \in 1..Len(q)
         /\ \A i \in 1..Len(Tail(q)) : /\ i + 1 \in 1..Len(q)
                                       /\ Tail(q)[i] = q[i + 1]
                                       /\ Tail(q)[i] # Head(q)
         /\ \A i \in 1..Len(q) : i # 1 => i - 1 \in 1..Len(Tail(q)) /\ Tail(q)[i - 1] = q[i]
<1>1. /\ Tail(q) \in Seq(Writers)
      /\ Len(q) \in Nat /\ Len(q) >= 1
      /\ Len(Tail(q)) = Len(q) - 1
      /\ \A i \in 1..Len(Tail(q)) : Tail(q)[i] = q[i + 1]
      /\ Head(q) = q[1]
  OBVIOUS
<1>2. 1 \in 1..Len(q) /\ q[1] \in Writers
  BY <1>1
<1>3. \A i \in 1..Len(Tail(q)) : i + 1 \in 1..Len(q) /\ i \in Nat
  BY <1>1
<1>4. Distinct(Tail(q))
  BY <1>1, <1>3 DEF Distinct
<1>5. \A i \in 1..Len(Tail(q)) : Tail(q)[i] # Head(q)
  BY <1>1, <1>2, <1>3 DEF Distinct
<1>6. \A i \in 1..Len(q) : i # 1 => i - 1 \in 1..Len(Tail(q)) /\ Tail(q)[i - 1] = q[i]
  BY <1>1
<1> QED
  BY <1>1, <1>2, <1>3, <1>4, <1>5, <1>6

\* As many writers wait as there are, at most.
LEMMA QueueIsShort ==
  ASSUME NEW q \in Seq(Writers), Distinct(q)
  PROVE  Len(q) <= Cardinality(ApiCallers) + 2 /\ Cardinality(ApiCallers) \in Nat
<1>1. Cardinality(ApiCallers) \in Nat
  BY ShutdownAssumption, FS_CardinalityType
<1>2. /\ IsFiniteSet(ApiCallers \cup {Poller})
      /\ Cardinality(ApiCallers \cup {Poller}) = Cardinality(ApiCallers) + 1
  <2>1. Poller \notin ApiCallers
    BY ShutdownAssumption
  <2> QED
    BY <2>1, ShutdownAssumption, FS_AddElement
<1>3. /\ IsFiniteSet(Writers)
      /\ Cardinality(Writers) = Cardinality(ApiCallers) + 2
  <2>1. Closer \notin ApiCallers \cup {Poller}
    BY ShutdownAssumption
  <2>2. Writers = (ApiCallers \cup {Poller}) \cup {Closer}
    BY DEF Writers
  <2>3. /\ IsFiniteSet(Writers)
        /\ Cardinality(Writers) = Cardinality(ApiCallers \cup {Poller}) + 1
    BY <1>2, <2>1, <2>2, FS_AddElement
  <2> QED
    BY <1>1, <1>2, <2>3
<1>4. Len(q) \in Nat /\ q \in [1..Len(q) -> Writers]
  OBVIOUS
<1>5. IsFiniteSet(1..Len(q)) /\ Cardinality(1..Len(q)) = Len(q)
  <2>1. 1 \in Int /\ Len(q) \in Int
    BY <1>4
  <2>2. /\ IsFiniteSet(1..Len(q))
        /\ Cardinality(1..Len(q)) = IF 1 > Len(q) THEN 0 ELSE Len(q) - 1 + 1
    BY <2>1, FS_Interval
  <2> QED
    BY <1>4, <2>2
<1>6. ASSUME Cardinality(Writers) < Len(q)
      PROVE  FALSE
  <2>1. \E x, y \in 1..Len(q) : x # y /\ q[x] = q[y]
    BY <1>3, <1>4, <1>5, <1>6, FS_PigeonHole
  <2> QED
    BY <2>1 DEF Distinct
<1> QED
  BY <1>1, <1>3, <1>4, <1>6

-----------------------------------------------------------------------------
(***************************************************************************)
(* Types.  A goroutine is in the queue exactly while it waits for the lock, *)
(* so it joins the queue at most once.                                     *)
(***************************************************************************)
QueueInv ==
  /\ InQueue(Poller) => poller = "api"
  /\ InQueue(Closer) <=> closer = "lock"
  /\ announced => queue # <<>>
  /\ client = "new" => /\ queue = <<>> /\ poller = "off" /\ closer = "out" /\ elapsed = 0
                       /\ \A g \in Flushers : flusher[g] = "out"
  /\ config.shutdownWait = ShutdownWait

TypeInv == TypeOK /\ QueueInv

LEMMA OptionsKeepConfig ==
  ASSUME config \in UsableConfig, NEW option \in Options, NEW value \in Values,
         ApplyOption(option, value)
  PROVE  config' \in UsableConfig /\ config'.shutdownWait = config.shutdownWait
<1>1. CASE ~Accepts(option, value)
  BY <1>1 DEF ApplyOption
<1>2. CASE Accepts(option, value)
  <2>1. value \in Nat
    BY <1>2, ConfigAssumption DEF Accepts
  <2>2. option # "controlPollInterval" => value \in Nat \ {0}
    BY <1>2, <2>1 DEF Accepts
  <2>3. CASE option = "batchSize"
    BY <1>2, <2>2, <2>3 DEF ApplyOption, UsableConfig
  <2>4. CASE option = "flushInterval"
    BY <1>2, <2>2, <2>4 DEF ApplyOption, UsableConfig
  <2>5. CASE option = "maxQueueSize"
    BY <1>2, <2>2, <2>5 DEF ApplyOption, UsableConfig
  <2>6. CASE option = "controlPollInterval"
    BY <1>2, <2>1, <2>6 DEF ApplyOption, UsableConfig
  <2> QED
    BY <2>3, <2>4, <2>5, <2>6 DEF Options
<1> QED
  BY <1>1, <1>2

LEMMA TimerKeepsType ==
  ASSUME left \in [Timed -> Nat], NEW p \in Timed, NEW time \in Nat, Timer(p, time)
  PROVE  /\ left' \in [Timed -> Nat] /\ left'[p] = time
         /\ \A x \in Timed \ {p} : left'[x] = left[x]
BY DEF Timer

LEMMA InitTypeInv ==
  ASSUME Init
  PROVE  TypeInv
<1>1. DefaultConfig \in UsableConfig /\ DefaultConfig.shutdownWait = ShutdownWait
  BY ConfigAssumption DEF DefaultConfig, UsableConfig
<1>2. queue = <<>> /\ queue \in Seq(Writers) /\ Len(queue) = 0
  BY DEF Init
<1>3. \A i \in 1..Len(queue) : FALSE
  BY <1>2
<1>4. QueueInv
  BY <1>1, <1>2, <1>3 DEF Init, QueueInv, InQueue
<1>5. TypeOK
  BY <1>1, <1>2, <1>3 DEF Init, TypeOK
<1> QED
  BY <1>4, <1>5 DEF TypeInv

\* A writer joins the queue, at its end or ahead of all, or the first one leaves it.
LEMMA JoinKeeps ==
  ASSUME TypeInv, NEW w \in Writers, ~InQueue(w), Join(w)
  PROVE  /\ queue' \in Seq(Writers) /\ Distinct(queue') /\ queue' # <<>>
         /\ announced' = TRUE /\ overtaken' \in Nat
         /\ \A x : InQueue(x)' <=> InQueue(x) \/ x = w
<1>1. queue \in Seq(Writers) /\ Distinct(queue) /\ \A i \in 1..Len(queue) : queue[i] # w
  BY DEF TypeInv, TypeOK, Distinct, InQueue
<1>2. announced \in BOOLEAN /\ overtaken \in Nat
  BY DEF TypeInv, TypeOK
<1>3. announced' = TRUE /\ overtaken' \in Nat
  BY <1>2 DEF Join
<1>4. CASE announced
  <2>1. queue' = Append(queue, w)
    BY <1>4 DEF Join
  <2>2. /\ queue' \in Seq(Writers) /\ Distinct(queue') /\ queue' # <<>>
        /\ Len(queue') = Len(queue) + 1 /\ Len(queue) \in Nat
        /\ queue'[Len(queue) + 1] = w
        /\ \A i \in 1..Len(queue) : queue'[i] = queue[i]
    BY <1>1, <2>1, AppendWriter
  <2>3. \A i \in 1..Len(queue') : i \in 1..Len(queue) \/ i = Len(queue) + 1
    BY <2>2
  <2>4. Len(queue) + 1 \in 1..Len(queue') /\ \A i \in 1..Len(queue) : i \in 1..Len(queue')
    BY <2>2
  <2>5. \A x : InQueue(x)' <=> InQueue(x) \/ x = w
    BY <2>2, <2>3, <2>4 DEF InQueue
  <2> QED
    BY <1>3, <2>2, <2>5
<1>5. CASE ~announced
  <2>1. queue' = <<w>> \o queue
    BY <1>5 DEF Join
  <2>2. /\ queue' \in Seq(Writers) /\ Distinct(queue') /\ queue' # <<>>
        /\ Len(queue') = Len(queue) + 1 /\ Len(queue) \in Nat
        /\ queue'[1] = w
        /\ \A i \in 1..Len(queue) : queue'[i + 1] = queue[i]
        /\ \A i \in 1..Len(queue') : i # 1 => i - 1 \in 1..Len(queue) /\ queue'[i] = queue[i - 1]
    BY <1>1, <2>1, PrependWriter
  <2>3. 1 \in 1..Len(queue') /\ \A i \in 1..Len(queue) : i + 1 \in 1..Len(queue')
    BY <2>2
  <2>4. ASSUME NEW x, InQueue(x)'
        PROVE  InQueue(x) \/ x = w
    <3>1. PICK i \in 1..Len(queue') : queue'[i] = x
      BY <2>4 DEF InQueue
    <3> QED
      BY <2>2, <3>1 DEF InQueue
  <2>5. ASSUME NEW x, InQueue(x) \/ x = w
        PROVE  InQueue(x)'
    BY <2>2, <2>3, <2>5 DEF InQueue
  <2> QED
    BY <1>3, <2>2, <2>4, <2>5
<1> QED
  BY <1>2, <1>4, <1>5

LEMMA LeaveKeeps ==
  ASSUME TypeInv, announced, Leave
  PROVE  /\ queue # <<>> /\ announced' = FALSE /\ overtaken' \in Nat
         /\ queue' \in Seq(Writers) /\ Distinct(queue')
         /\ Head(queue) \in Writers /\ InQueue(Head(queue))
         /\ \A x : InQueue(x)' <=> InQueue(x) /\ x # Head(queue)
<1>1. queue \in Seq(Writers) /\ Distinct(queue) /\ overtaken \in Nat
  BY DEF TypeInv, TypeOK, Distinct
<1>2. /\ queue # <<>> /\ queue' = Tail(queue)
      /\ announced' = FALSE /\ overtaken' = overtaken
  BY DEF TypeInv, QueueInv, Leave
<1>3. /\ queue' \in Seq(Writers)
      /\ Distinct(queue')
      /\ Head(queue) = queue[1] /\ Head(queue) \in Writers
      /\ 1 \in 1..Len(queue)
      /\ \A i \in 1..Len(queue') : /\ i + 1 \in 1..Len(queue)
                                   /\ queue'[i] = queue[i + 1]
                                   /\ queue'[i] # Head(queue)
      /\ \A i \in 1..Len(queue) : i # 1 => i - 1 \in 1..Len(queue') /\ queue'[i - 1] = queue[i]
  BY <1>2, <1>1, TailWriter
<1>4. \A x : InQueue(x)' => InQueue(x) /\ x # Head(queue)
  BY <1>3 DEF InQueue
<1>5. \A x : InQueue(x) /\ x # Head(queue) => InQueue(x)'
  BY <1>3 DEF InQueue
<1>6. InQueue(Head(queue))
  BY <1>3 DEF InQueue
<1> QED
  BY <1>2, <1>1, <1>3, <1>4, <1>5, <1>6

\* The parked readers get in.
LEMMA ReleaseKeepsType ==
  ASSUME TypeInv, Release
  PROVE  /\ flusher' \in [Flushers -> {"out", "in"} \cup {"parked"}]
         /\ \A g \in Flushers : flusher'[g] # "parked" /\ waited'[g] = 0
         /\ waited' \in [Flushers -> Nat]
<1>1. flusher \in [Flushers -> {"out", "parked", "in"}]
  BY DEF TypeInv, TypeOK
<1>2. \A g \in Flushers :
        flusher'[g] = IF flusher[g] = "parked" THEN (IF client' = "open" THEN "in" ELSE "out")
                                               ELSE flusher[g]
  BY DEF Release
<1>3. flusher' \in [Flushers -> {"out", "in"} \cup {"parked"}]
  BY <1>1 DEF Release
<1>4. waited' \in [Flushers -> Nat] /\ \A g \in Flushers : waited'[g] = 0
  BY DEF Release
<1> QED
  BY <1>1, <1>2, <1>3, <1>4

\* A step of the flushers, of the poller or of the worker that touches neither
\* the lock nor Close.
LEMMA QuietKeeps ==
  ASSUME TypeInv,
         UNCHANGED <<config, client, queue, announced, overtaken, closer, elapsed>>,
         client # "new", poller' \in {"off", "select", "api", "loop", "request", "done"},
         poller = "api" => poller' = "api",
         worker' \in {"select", "post", "last", "done"},
         flusher' \in [Flushers -> {"out", "parked", "in"}],
         left' \in [Timed -> Nat], waited' \in [Flushers -> Nat]
  PROVE  TypeInv'
<1>1. TypeOK'
  BY DEF TypeInv, TypeOK
<1>2. \A x : InQueue(x)' <=> InQueue(x)
  BY DEF InQueue
<1>3. QueueInv'
  BY <1>2 DEF TypeInv, QueueInv
<1> QED
  BY <1>1, <1>3 DEF TypeInv

\* A step that adds a writer to the queue or takes the first one out of it.
LEMMA QueueKeeps ==
  ASSUME TypeInv, UNCHANGED config, client # "new", client' \in {"open", "closed"},
         queue' \in Seq(Writers), Distinct(queue'),
         announced' \in BOOLEAN, announced' => queue' # <<>>, overtaken' \in Nat,
         InQueue(Poller)' => poller' = "api", InQueue(Closer)' <=> closer' = "lock",
         poller' \in {"off", "select", "api", "loop", "request", "done"},
         worker' = worker, closer' \in {"out", "lock", "poller", "worker", "returned"},
         flusher' \in [Flushers -> {"out", "parked", "in"}],
         left' \in [Timed -> Nat], waited' \in [Flushers -> Nat], elapsed' = elapsed
  PROVE  TypeInv'
<1>1. TypeOK'
  BY DEF TypeInv, TypeOK, Distinct
<1>2. QueueInv'
  <2>1. config' = config /\ client' # "new"
    OBVIOUS
  <2> QED
    BY <2>1 DEF TypeInv, QueueInv
<1> QED
  BY <1>1, <1>2 DEF TypeInv

LEMMA NextKeepsTypeInv ==
  ASSUME TypeInv, [Next]_vars
  PROVE  TypeInv'
<1> USE DEF goroutines, lock, history
<1>0. /\ queue \in Seq(Writers) /\ Distinct(queue)
      /\ announced \in BOOLEAN /\ overtaken \in Nat /\ (announced => queue # <<>>)
      /\ config \in UsableConfig
      /\ client \in {"new", "open", "closed"}
      /\ flusher \in [Flushers -> {"out", "parked", "in"}]
      /\ poller \in {"off", "select", "api", "loop", "request", "done"}
      /\ worker \in {"select", "post", "last", "done"}
      /\ closer \in {"out", "lock", "poller", "worker", "returned"}
      /\ left \in [Timed -> Nat]
      /\ waited \in [Flushers -> Nat]
      /\ elapsed \in Nat
  BY DEF TypeInv, TypeOK, QueueInv, Distinct
<1>1. /\ InQueue(Poller) => poller = "api"
      /\ InQueue(Closer) <=> closer = "lock"
      /\ client = "new" => queue = <<>> /\ poller = "off"
  BY DEF TypeInv, QueueInv
<1>2. /\ Poller \in Writers /\ Closer \in Writers /\ Poller # Closer
      /\ ApiCallers \subseteq Writers
      /\ Poller \notin ApiCallers /\ Closer \notin ApiCallers
  BY ShutdownAssumption DEF Writers
<1>3. Poller \in Timed /\ Closer \in Timed /\ Worker \in Timed /\ Flushers \subseteq Timed
  BY DEF Timed
<1>4. RequestTime \in Nat /\ config.shutdownWait \in Nat /\ 0 \in Nat
  BY <1>0, ShutdownAssumption DEF UsableConfig
<1>5. ASSUME NEW option \in Options, NEW value \in Values, Configure(option, value)
      PROVE  TypeInv'
  <2>1. config' \in UsableConfig /\ config'.shutdownWait = config.shutdownWait
    BY <1>0, <1>5, OptionsKeepConfig DEF Configure
  <2>2. TypeOK'
    BY <1>5, <2>1 DEF Configure, TypeInv, TypeOK
  <2>3. \A x : InQueue(x)' <=> InQueue(x)
    BY <1>5 DEF Configure, InQueue
  <2>4. QueueInv'
    BY <1>5, <2>1, <2>3 DEF Configure, TypeInv, QueueInv
  <2> QED
    BY <2>2, <2>4 DEF TypeInv
<1>6. CASE Start
  <2>1. \A x : InQueue(x)' <=> InQueue(x)
    BY <1>6 DEF Start, InQueue
  <2>2. ~InQueue(Poller)
    BY <1>1, <1>6 DEF Start
  <2>3. TypeOK'
    BY <1>6 DEF Start, TypeInv, TypeOK
  <2>4. QueueInv'
    BY <1>6, <2>1, <2>2 DEF Start, TypeInv, QueueInv
  <2> QED
    BY <2>3, <2>4 DEF TypeInv
<1>7. ASSUME NEW g \in Flushers, FlushCall(g)
      PROVE  TypeInv'
  <2>1. flusher' \in [Flushers -> {"out", "parked", "in"}]
    BY <1>0, <1>7 DEF FlushCall
  <2>2. left' \in [Timed -> Nat]
    BY <1>0, <1>3, <1>4, <1>7 DEF FlushCall, Timer
  <2> QED
    BY <1>0, <1>7, <2>1, <2>2, QuietKeeps DEF FlushCall
<1>8. ASSUME NEW g \in Flushers, FlushReturn(g)
      PROVE  TypeInv'
  <2>1. flusher' \in [Flushers -> {"out", "parked", "in"}]
    BY <1>0, <1>8 DEF FlushReturn
  <2>2. left' \in [Timed -> Nat]
    BY <1>0, <1>3, <1>4, <1>8 DEF FlushReturn, Timer
  <2>3. client # "new"
    BY <1>8 DEF FlushReturn, TypeInv, QueueInv
  <2> QED
    BY <1>0, <1>8, <2>1, <2>2, <2>3, QuietKeeps DEF FlushReturn
<1>9. ASSUME NEW w \in ApiCallers, ApiCall(w)
      PROVE  TypeInv'
  <2>1. /\ queue' \in Seq(Writers) /\ Distinct(queue') /\ queue' # <<>>
        /\ announced' = TRUE /\ overtaken' \in Nat
        /\ \A x : InQueue(x)' <=> InQueue(x) \/ x = w
    BY <1>2, <1>9, JoinKeeps DEF ApiCall
  <2>2. (InQueue(Poller)' => poller' = "api") /\ (InQueue(Closer)' <=> closer' = "lock")
    BY <1>1, <1>2, <1>9, <2>1 DEF ApiCall
  <2> QED
    BY <1>0, <1>9, <2>1, <2>2, QueueKeeps DEF ApiCall
<1>10. CASE CloseCall
  <2>1. /\ queue' \in Seq(Writers) /\ Distinct(queue') /\ queue' # <<>>
        /\ announced' = TRUE /\ overtaken' \in Nat
        /\ \A x : InQueue(x)' <=> InQueue(x) \/ x = Closer
    BY <1>1, <1>2, <1>10, JoinKeeps DEF CloseCall
  <2>2. (InQueue(Poller)' => poller' = "api") /\ (InQueue(Closer)' <=> closer' = "lock")
    BY <1>1, <1>2, <1>10, <2>1 DEF CloseCall
  <2> QED
    BY <1>0, <1>10, <2>1, <2>2, QueueKeeps DEF CloseCall
<1>11. CASE LockApi
  <2>1. /\ queue # <<>> /\ announced' = FALSE /\ overtaken' \in Nat
        /\ queue' \in Seq(Writers) /\ Distinct(queue') /\ InQueue(Head(queue))
        /\ \A x : InQueue(x)' <=> InQueue(x) /\ x # Head(queue)
    BY <1>11, LeaveKeeps DEF LockApi, CanLock
  <2>2. /\ flusher' \in [Flushers -> {"out", "in"} \cup {"parked"}]
        /\ waited' \in [Flushers -> Nat]
    BY <1>11, ReleaseKeepsType DEF LockApi
  <2>3. left' \in [Timed -> Nat]
    BY <1>0, <1>4, <1>11 DEF LockApi
  <2>4. InQueue(Poller)' => poller' = "api"
    BY <1>1, <1>11, <2>1 DEF LockApi
  <2>5. InQueue(Closer)' <=> closer' = "lock"
    BY <1>1, <1>11, <2>1 DEF LockApi
  <2>6. client # "new" /\ client' \in {"open", "closed"}
    BY <1>0, <1>1, <1>11, <2>1 DEF LockApi
  <2> QED
    BY <1>0, <1>11, <2>1, <2>2, <2>3, <2>4, <2>5, <2>6, QueueKeeps DEF LockApi
<1>12. CASE LockClose
  <2>1. /\ queue # <<>> /\ announced' = FALSE /\ overtaken' \in Nat
        /\ queue' \in Seq(Writers) /\ Distinct(queue') /\ InQueue(Head(queue))
        /\ \A x : InQueue(x)' <=> InQueue(x) /\ x # Head(queue)
    BY <1>12, LeaveKeeps DEF LockClose, CanLock
  <2>2. /\ flusher' \in [Flushers -> {"out", "in"} \cup {"parked"}]
        /\ waited' \in [Flushers -> Nat]
    BY <1>12, ReleaseKeepsType DEF LockClose
  <2>3. left' \in [Timed -> Nat]
    BY <1>0, <1>3, <1>4, <1>12 DEF LockClose, Timer
  <2>4. (InQueue(Poller)' => poller' = "api") /\ (InQueue(Closer)' <=> closer' = "lock")
    BY <1>1, <1>12, <2>1 DEF LockClose
  <2>5. client # "new" /\ client' \in {"open", "closed"}
    BY <1>0, <1>1, <1>12, <2>1 DEF LockClose
  <2> QED
    BY <1>0, <1>12, <2>1, <2>2, <2>3, <2>4, <2>5, QueueKeeps DEF LockClose
<1>13. CASE PollerStopped
  <2>1. /\ left' \in [Timed -> Nat] /\ \A x : InQueue(x)' <=> InQueue(x)
    BY <1>0, <1>3, <1>4, <1>13 DEF PollerStopped, Timer, InQueue
  <2>2. closer = "poller" /\ closer' = "worker"
    BY <1>13 DEF PollerStopped, StopPollerEnds
  <2>3. client # "new"
    BY <2>2 DEF TypeInv, QueueInv
  <2> QED
    BY <1>0, <1>1, <1>13, <2>1, <2>2, <2>3, QueueKeeps DEF PollerStopped
<1>14. CASE CloseReturns
  <2>1. /\ left' \in [Timed -> Nat] /\ \A x : InQueue(x)' <=> InQueue(x)
    BY <1>0, <1>3, <1>4, <1>14 DEF CloseReturns, Timer, InQueue
  <2>2. closer = "worker" /\ closer' = "returned"
    BY <1>14 DEF CloseReturns, StopWorkerEnds
  <2>3. client # "new"
    BY <2>2 DEF TypeInv, QueueInv
  <2> QED
    BY <1>0, <1>1, <1>14, <2>1, <2>2, <2>3, QueueKeeps DEF CloseReturns
<1>15. CASE PollerTick
  <2>1. ~InQueue(Poller) /\ client # "new"
    BY <1>1, <1>15 DEF PollerTick
  <2>2. /\ queue' \in Seq(Writers) /\ Distinct(queue') /\ queue' # <<>>
        /\ announced' = TRUE /\ overtaken' \in Nat
        /\ \A x : InQueue(x)' <=> InQueue(x) \/ x = Poller
    BY <1>2, <1>15, <2>1, JoinKeeps DEF PollerTick
  <2>3. (InQueue(Poller)' => poller' = "api") /\ (InQueue(Closer)' <=> closer' = "lock")
    BY <1>1, <1>2, <1>15, <2>2 DEF PollerTick
  <2> QED
    BY <1>0, <1>15, <2>1, <2>2, <2>3, QueueKeeps DEF PollerTick
<1>16. CASE PollerRequests
  <2>1. left' \in [Timed -> Nat]
    BY <1>0, <1>3, <1>4, <1>16 DEF PollerRequests, Timer
  <2> QED
    BY <1>0, <1>16, <2>1, QuietKeeps DEF PollerRequests
<1>17. CASE PollerAnswered
  <2>1. left' \in [Timed -> Nat]
    BY <1>0, <1>3, <1>4, <1>17 DEF PollerAnswered, Timer
  <2> QED
    BY <1>0, <1>1, <1>17, <2>1, QuietKeeps DEF PollerAnswered
<1>18. CASE PollerLeaves
  BY <1>0, <1>1, <1>18, QuietKeeps DEF PollerLeaves
<1>19. CASE WorkerPosts
  <2>1. left' \in [Timed -> Nat]
    BY <1>0, <1>3, <1>4, <1>19 DEF WorkerPosts, Timer
  <2> QED
    BY <1>0, <1>19, <2>1, QuietKeeps DEF WorkerPosts
<1>20. CASE WorkerPosted
  <2>1. left' \in [Timed -> Nat] /\ \A x : InQueue(x)' <=> InQueue(x)
    BY <1>0, <1>3, <1>4, <1>20 DEF WorkerPosted, Timer, InQueue
  <2>2. TypeOK'
    BY <1>20, <2>1 DEF WorkerPosted, TypeInv, TypeOK
  <2>3. QueueInv'
    BY <1>20, <2>1 DEF WorkerPosted, TypeInv, QueueInv
  <2> QED
    BY <2>2, <2>3 DEF TypeInv
<1>21. CASE Clock
  <2>1. left' \in [Timed -> Nat]
    BY <1>0, <1>21 DEF Clock
  <2>2. waited' \in [Flushers -> Nat]
    BY <1>0, <1>21 DEF Clock
  <2>3. elapsed' \in Nat
    BY <1>0, <1>21 DEF Clock
  <2>4. \A x : InQueue(x)' <=> InQueue(x)
    BY <1>21 DEF Clock, InQueue
  <2>5. TypeOK'
    BY <1>21, <2>1, <2>2, <2>3 DEF Clock, TypeInv, TypeOK
  <2>6. client = "new" => elapsed' = 0
    BY <1>21 DEF Clock, Closing, TypeInv, QueueInv
  <2>7. QueueInv'
    BY <1>21, <2>4, <2>6 DEF Clock, TypeInv, QueueInv
  <2> QED
    BY <2>5, <2>7 DEF TypeInv
<1>22. CASE Wake
  <2>1. /\ queue # <<>> /\ announced' = TRUE /\ client # "new"
        /\ UNCHANGED <<config, client, queue, overtaken, closer, elapsed, flusher, poller, worker,
                      left, waited>>
    BY <1>1, <1>22 DEF Wake, CanWake
  <2>2. \A x : InQueue(x)' <=> InQueue(x)
    BY <2>1 DEF InQueue
  <2> QED
    BY <1>0, <1>1, <2>1, <2>2, QueueKeeps
<1>23. CASE UNCHANGED vars
  <2>1. \A x : InQueue(x)' <=> InQueue(x)
    BY <1>23 DEF vars, InQueue
  <2>2. TypeOK'
    BY <1>23 DEF vars, TypeInv, TypeOK
  <2>3. QueueInv'
    BY <1>23, <2>1 DEF vars, TypeInv, QueueInv
  <2> QED
    BY <2>2, <2>3 DEF TypeInv
<1> QED
  BY <1>5, <1>6, <1>7, <1>8, <1>9, <1>10, <1>11, <1>12, <1>13, <1>14, <1>15, <1>16,
     <1>17, <1>18, <1>19, <1>20, <1>21, <1>22, <1>23 DEF Next

\* In every state of every run the configuration is usable, every variable has
\* its type and each writer waits for the lock at most once (config.go:83,
\* nodeloom.go:213, 230).
THEOREM TypeInvariant == Spec => []TypeOK
<1>1. Init => TypeInv
  BY InitTypeInv
<1>2. TypeInv /\ [Next]_vars => TypeInv'
  BY NextKeepsTypeInv
<1>3. TypeInv => TypeOK
  BY DEF TypeInv
<1> QED
  BY <1>1, <1>2, <1>3, PTL DEF Spec

-----------------------------------------------------------------------------
(***************************************************************************)
(* A parked reader waits for those that read when it came: what it has     *)
(* waited and what is left to any of them make up one request at most.     *)
(***************************************************************************)
ReadInv ==
  \A g \in Flushers :
    /\ flusher[g] = "in" => left[g] <= RequestTime
    /\ flusher[g] # "parked" => waited[g] = 0
    /\ flusher[g] = "parked" =>
         /\ announced
         /\ waited[g] <= RequestTime
         /\ \A f \in Flushers : flusher[f] = "in" => waited[g] + left[f] <= RequestTime

\* A step that leaves the readers alone and does not release the mutex.
LEMMA ReadersKeep ==
  ASSUME ReadInv, UNCHANGED <<flusher, waited>>,
         \A g \in Flushers : left'[g] = left[g],
         announced => announced'
  PROVE  ReadInv'
BY DEF ReadInv

LEMMA ReleaseKeepsReaders ==
  ASSUME TypeInv, Release, \A g \in Flushers : flusher'[g] = "in" => left'[g] <= RequestTime
  PROVE  ReadInv'
<1>1. \A g \in Flushers : flusher'[g] # "parked" /\ waited'[g] = 0
  BY ReleaseKeepsType
<1> QED
  BY <1>1 DEF ReadInv

LEMMA NextKeepsReadInv ==
  ASSUME TypeInv, ReadInv, [Next]_vars
  PROVE  ReadInv'
<1> USE DEF goroutines, lock, history
<1>0. /\ announced \in BOOLEAN
      /\ flusher \in [Flushers -> {"out", "parked", "in"}]
      /\ left \in [Timed -> Nat]
      /\ waited \in [Flushers -> Nat]
      /\ RequestTime \in Nat /\ config.shutdownWait \in Nat
  BY ShutdownAssumption DEF TypeInv, TypeOK, UsableConfig
<1>1. /\ Poller \notin Flushers /\ Closer \notin Flushers /\ Worker \notin Flushers
      /\ Poller \in Timed /\ Closer \in Timed /\ Worker \in Timed /\ Flushers \subseteq Timed
  BY ShutdownAssumption DEF Timed
<1>2. ASSUME NEW w, Join(w)
      PROVE  announced => announced'
  BY <1>2 DEF Join
<1>3. ASSUME NEW p \in Timed \ Flushers, NEW time, Timer(p, time)
      PROVE  \A g \in Flushers : left'[g] = left[g]
  BY <1>0, <1>1, <1>3 DEF Timer
<1>4. ASSUME NEW option \in Options, NEW value \in Values, Configure(option, value)
      PROVE  ReadInv'
  BY <1>4, ReadersKeep DEF Configure
<1>5. CASE Start
  BY <1>5, ReadersKeep DEF Start
<1>6. ASSUME NEW g \in Flushers, FlushCall(g)
      PROVE  ReadInv'
  <2>1. CASE announced
    <3>1. /\ \A f \in Flushers \ {g} : flusher'[f] = flusher[f]
          /\ flusher'[g] = "parked" /\ flusher[g] = "out"
          /\ UNCHANGED <<left, waited, announced>>
      BY <1>0, <1>6, <2>1 DEF FlushCall
    <3>2. waited[g] = 0
      BY <3>1 DEF ReadInv
    <3>3. \A f \in Flushers : flusher'[f] = "in" => flusher[f] = "in" /\ left[f] <= RequestTime
      BY <3>1 DEF ReadInv
    <3>4. \A f \in Flushers : flusher'[f] = "in" => waited[g] + left[f] <= RequestTime
      BY <1>0, <1>1, <3>2, <3>3
    <3> QED
      BY <1>0, <2>1, <3>1, <3>2, <3>3, <3>4 DEF ReadInv
  <2>2. CASE ~announced
    <3>1. /\ \A f \in Flushers \ {g} : flusher'[f] = flusher[f]
          /\ flusher'[g] = "in" /\ flusher[g] = "out"
          /\ UNCHANGED <<waited, announced>>
      BY <1>0, <1>6, <2>2 DEF FlushCall
    <3>2. left'[g] = RequestTime /\ \A f \in Flushers \ {g} : left'[f] = left[f]
      BY <1>0, <1>1, <1>6, <2>2 DEF FlushCall, Timer
    <3>3. \A f \in Flushers : flusher'[f] # "parked"
      BY <2>2, <3>1 DEF ReadInv
    <3> QED
      BY <1>0, <3>1, <3>2, <3>3 DEF ReadInv
  <2> QED
    BY <2>1, <2>2
<1>7. ASSUME NEW g \in Flushers, FlushReturn(g)
      PROVE  ReadInv'
  <2>1. /\ \A f \in Flushers \ {g} : flusher'[f] = flusher[f] /\ left'[f] = left[f]
        /\ flusher'[g] = "out" /\ flusher[g] = "in"
        /\ UNCHANGED <<waited, announced>>
    BY <1>0, <1>1, <1>7 DEF FlushReturn, Timer
  <2> QED
    BY <2>1 DEF ReadInv
<1>8. ASSUME NEW w \in ApiCallers, ApiCall(w)
      PROVE  ReadInv'
  BY <1>2, <1>8, ReadersKeep DEF ApiCall
<1>9. CASE CloseCall
  BY <1>2, <1>9, ReadersKeep DEF CloseCall
<1>10. CASE LockApi
  <2>1. \A g \in Flushers : flusher'[g] = "in" => left'[g] <= RequestTime
    BY <1>0, <1>1, <1>10 DEF LockApi, Released
  <2> QED
    BY <1>10, <2>1, ReleaseKeepsReaders DEF LockApi
<1>11. CASE LockClose
  <2>1. \A g \in Flushers : flusher'[g] # "in"
    BY <1>0, <1>11 DEF LockClose, CanLock, Release
  <2> QED
    BY <1>11, <2>1, ReleaseKeepsReaders DEF LockClose
<1>12. CASE PollerStopped
  BY <1>1, <1>3, <1>12, ReadersKeep DEF PollerStopped
<1>13. CASE CloseReturns
  BY <1>1, <1>3, <1>13, ReadersKeep DEF CloseReturns
<1>14. CASE PollerTick
  BY <1>2, <1>14, ReadersKeep DEF PollerTick
<1>15. CASE PollerRequests
  BY <1>1, <1>3, <1>15, ReadersKeep DEF PollerRequests
<1>16. CASE PollerAnswered
  BY <1>1, <1>3, <1>16, ReadersKeep DEF PollerAnswered
<1>17. CASE PollerLeaves
  BY <1>17, ReadersKeep DEF PollerLeaves
<1>18. CASE WorkerPosts
  BY <1>1, <1>3, <1>18, ReadersKeep DEF WorkerPosts
<1>19. CASE WorkerPosted
  BY <1>1, <1>3, <1>19, ReadersKeep DEF WorkerPosted
<1>20. CASE Clock
  <2>1. UNCHANGED <<flusher, announced>>
    BY <1>20 DEF Clock
  <2>2. \A g \in Flushers : flusher[g] = "in" => left[g] > 0 /\ left'[g] = left[g] - 1
    BY <1>0, <1>1, <1>20 DEF Clock, Running
  <2>3. \A g \in Flushers : waited'[g] = IF flusher[g] = "parked" THEN waited[g] + 1 ELSE 0
    BY <1>20 DEF Clock
  <2>4. \A g \in Flushers : waited[g] \in Nat /\ left[g] \in Nat
    BY <1>0, <1>1
  <2>5. ASSUME NEW g \in Flushers, flusher[g] = "parked"
        PROVE  /\ announced /\ waited'[g] <= RequestTime
               /\ \A f \in Flushers : flusher[f] = "in" => waited'[g] + left'[f] <= RequestTime
    <3>1. announced /\ \A f \in Flushers : flusher[f] = "in" => waited[g] + left[f] <= RequestTime
      BY <2>5 DEF ReadInv
    <3>2. PICK f \in Flushers : flusher[f] = "in"
      BY <1>20, <3>1 DEF Clock, CanLock
    <3>3. waited'[g] <= RequestTime
      BY <1>0, <2>2, <2>3, <2>4, <2>5, <3>1, <3>2
    <3> QED
      BY <1>0, <2>2, <2>3, <2>4, <2>5, <3>1, <3>3
  <2>6. \A g \in Flushers : flusher[g] = "in" => left'[g] <= RequestTime
    BY <1>0, <2>2, <2>4 DEF ReadInv
  <2> QED
    BY <2>1, <2>3, <2>5, <2>6 DEF ReadInv
<1>21. CASE Wake
  BY <1>21, ReadersKeep DEF Wake
<1>22. CASE UNCHANGED vars
  BY <1>22, ReadersKeep DEF vars
<1> QED
  BY <1>4, <1>5, <1>6, <1>7, <1>8, <1>9, <1>10, <1>11, <1>12, <1>13, <1>14, <1>15,
     <1>16, <1>17, <1>18, <1>19, <1>20, <1>21, <1>22 DEF Next

\* However many writers queue, and however often they come again, a reader that
\* is parked is let in before it has waited longer than a request takes
\* (nodeloom.go:197, 242).
THEOREM ReadersAreLetIn == Spec => []ReadersAreReleased
<1>1. Init => TypeInv /\ ReadInv
  <2>1. RequestTime \in Nat
    BY ShutdownAssumption
  <2> QED
    BY <2>1, InitTypeInv DEF Init, ReadInv
<1>2. TypeInv /\ ReadInv /\ [Next]_vars => (TypeInv /\ ReadInv)'
  BY NextKeepsTypeInv, NextKeepsReadInv
<1>3. TypeInv /\ ReadInv => ReadersAreReleased
  <2>1. RequestTime \in Nat
    BY ShutdownAssumption
  <2> QED
    BY <2>1 DEF ReadInv, ReadersAreReleased
<1> QED
  BY <1>1, <1>2, <1>3, PTL DEF Spec

-----------------------------------------------------------------------------
(***************************************************************************)
(* Close: at the lock it has as many writers before it as its place says,  *)
(* and a request for each of them to wait for.  Who overtakes it moves it  *)
(* back by a place and adds to the bound the request that this may cost.   *)
(* Before the next writer has announced itself a reader may still get in,  *)
(* so the bound leaves room for its request.  Then come the two waits.     *)
(***************************************************************************)
LockBound(o) == (Cardinality(ApiCallers) + 2 + o) * RequestTime

\* The requests that the writers before the one at place k may let in.
Ahead(k) == (k - 1) * RequestTime

LEMMA AheadGrows ==
  ASSUME NEW k \in Nat, k >= 1
  PROVE  /\ Ahead(k) \in Nat /\ Ahead(1) = 0
         /\ Ahead(k + 1) = Ahead(k) + RequestTime
<1>1. RequestTime \in Nat
  BY ShutdownAssumption
<1>2. \A a, r \in Nat : a * r \in Nat /\ (a + 1) * r = a * r + r
  OBVIOUS
<1>3. k - 1 \in Nat /\ (k - 1) + 1 = (k + 1) - 1
  OBVIOUS
<1>4. (k - 1) * RequestTime \in Nat
  BY <1>1, <1>2, <1>3
<1>5. ((k - 1) + 1) * RequestTime = (k - 1) * RequestTime + RequestTime
  BY <1>1, <1>2, <1>3
<1>6. (1 - 1) * RequestTime = 0
  BY <1>1
<1> QED
  BY <1>3, <1>4, <1>5, <1>6 DEF Ahead

LEMMA BoundGrows ==
  ASSUME NEW o \in Nat
  PROVE  /\ LockBound(o) \in Nat
         /\ LockBound(o + 1) = LockBound(o) + RequestTime
         /\ \A k \in Nat : k >= 1 /\ k <= Cardinality(ApiCallers) + 2 =>
              Ahead(k) + RequestTime <= LockBound(o)
<1>1. RequestTime \in Nat /\ Cardinality(ApiCallers) \in Nat
  BY ShutdownAssumption, FS_CardinalityType
<1>2. \A a, r \in Nat : a * r \in Nat /\ (a + 1) * r = a * r + r
  OBVIOUS
<1>3. \A a, b, r \in Nat : a <= b => a * r <= b * r
  OBVIOUS
<1> DEFINE n == Cardinality(ApiCallers) + 2 + o
<1>4. n \in Nat /\ n + 1 = Cardinality(ApiCallers) + 2 + (o + 1)
  BY <1>1
<1>5. n * RequestTime \in Nat /\ (n + 1) * RequestTime = n * RequestTime + RequestTime
  BY <1>1, <1>2, <1>4
<1>6. LockBound(o) = n * RequestTime /\ LockBound(o + 1) = (n + 1) * RequestTime
  BY <1>4 DEF LockBound
<1>7. ASSUME NEW k \in Nat, k >= 1, k <= Cardinality(ApiCallers) + 2
      PROVE  Ahead(k) + RequestTime <= LockBound(o)
  <2>1. k - 1 \in Nat /\ (k - 1) + 1 = k /\ k <= n
    BY <1>1, <1>7
  <2>2. ((k - 1) + 1) * RequestTime = (k - 1) * RequestTime + RequestTime
    BY <1>1, <1>2, <2>1
  <2>3. k * RequestTime <= n * RequestTime
    BY <1>1, <1>3, <1>4, <2>1
  <2> QED
    BY <1>6, <2>1, <2>2, <2>3 DEF Ahead
<1> QED
  BY <1>5, <1>6, <1>7

Bound == LockBound(overtaken)

AtLock(k) ==
  /\ elapsed + Ahead(k) <= Bound
  /\ ~announced => elapsed + RequestTime + Ahead(k) <= Bound
  /\ \A g \in Flushers : flusher[g] = "in" => elapsed + left[g] + Ahead(k) <= Bound

CloseInv ==
  /\ closer = "out" => elapsed = 0
  /\ \A k \in 1..Len(queue) : queue[k] = Closer => AtLock(k)
  /\ closer = "poller" => elapsed + left[Closer] <= Bound + ShutdownWait
  /\ closer = "worker" => elapsed + left[Closer] <= Bound + 2 * ShutdownWait
  /\ closer = "returned" => elapsed <= Bound + 2 * ShutdownWait

\* What the arithmetic of the steps needs.
LEMMA CloseTypes ==
  ASSUME TypeInv
  PROVE  /\ queue \in Seq(Writers) /\ Distinct(queue) /\ Len(queue) \in Nat
         /\ Len(queue) <= Cardinality(ApiCallers) + 2
         /\ flusher \in [Flushers -> {"out", "parked", "in"}]
         /\ left \in [Timed -> Nat] /\ left[Closer] \in Nat
         /\ \A g \in Flushers : left[g] \in Nat
         /\ elapsed \in Nat /\ RequestTime \in Nat /\ ShutdownWait \in Nat /\ Bound \in Nat
         /\ announced \in BOOLEAN /\ overtaken \in Nat
         /\ config.shutdownWait = ShutdownWait
<1>1. /\ queue \in Seq(Writers) /\ Distinct(queue) /\ Len(queue) \in Nat
      /\ flusher \in [Flushers -> {"out", "parked", "in"}]
      /\ left \in [Timed -> Nat] /\ elapsed \in Nat
      /\ announced \in BOOLEAN /\ overtaken \in Nat
      /\ RequestTime \in Nat /\ ShutdownWait \in Nat /\ config.shutdownWait = ShutdownWait
  BY ShutdownAssumption, ConfigAssumption DEF TypeInv, TypeOK, QueueInv, Distinct
<1>2. Closer \in Timed /\ Flushers \subseteq Timed
  BY DEF Timed
<1>3. Len(queue) <= Cardinality(ApiCallers) + 2
  BY <1>1, QueueIsShort
<1>4. Bound \in Nat
  BY <1>1, BoundGrows DEF Bound
<1> QED
  BY <1>1, <1>2, <1>3, <1>4

\* A step that leaves Close alone and lets no reader in before it.
LEMMA CloseKeeps ==
  ASSUME CloseInv, UNCHANGED <<closer, elapsed, overtaken>>,
         announced => announced', left'[Closer] = left[Closer],
         \A k \in 1..Len(queue') : queue'[k] = Closer =>
           /\ k \in 1..Len(queue) /\ queue[k] = Closer
           /\ \A g \in Flushers : flusher'[g] = "in" => flusher[g] = "in" /\ left'[g] = left[g]
  PROVE  CloseInv'
<1>1. \A k \in 1..Len(queue') : queue'[k] = Closer => AtLock(k)'
  <2>1. Bound' = Bound
    BY DEF Bound, LockBound
  <2> QED
    BY <2>1 DEF CloseInv, AtLock, Ahead
<1> QED
  BY <1>1 DEF CloseInv, Bound, LockBound

\* Another writer queues up behind it, or takes the mutex ahead of it.
LEMMA JoinKeepsClose ==
  ASSUME TypeInv, CloseInv, UNCHANGED <<closer, elapsed, flusher, left>>,
         NEW w \in Writers \ {Closer}, ~InQueue(w), Join(w)
  PROVE  CloseInv'
<1>1. queue \in Seq(Writers) /\ Distinct(queue) /\ \A i \in 1..Len(queue) : queue[i] # w
  BY CloseTypes DEF InQueue
<1>2. CASE announced
  <2>1. queue' = Append(queue, w) /\ UNCHANGED <<announced, overtaken>>
    BY <1>2 DEF Join
  <2>2. /\ Len(queue') = Len(queue) + 1 /\ Len(queue) \in Nat
        /\ queue'[Len(queue) + 1] = w
        /\ \A i \in 1..Len(queue) : queue'[i] = queue[i]
    BY <1>1, <2>1, AppendWriter
  <2>3. \A k \in 1..Len(queue') : k \in 1..Len(queue) \/ k = Len(queue) + 1
    BY <2>2
  <2>4. \A k \in 1..Len(queue') : queue'[k] = Closer => k \in 1..Len(queue) /\ queue[k] = Closer
    BY <2>2, <2>3
  <2> QED
    BY <2>1, <2>4, CloseKeeps
<1>3. CASE ~announced
  <2>1. queue' = <<w>> \o queue /\ announced' = TRUE
    BY <1>3 DEF Join
  <2>2. /\ queue'[1] = w
        /\ \A i \in 1..Len(queue') : i # 1 => i - 1 \in 1..Len(queue) /\ queue'[i] = queue[i - 1]
    BY <1>1, <2>1, PrependWriter
  <2>3. CASE ~InQueue(Closer)
    <3>1. overtaken' = overtaken
      BY <1>3, <2>3, CloseTypes DEF Join
    <3>2. \A k \in 1..Len(queue') : queue'[k] # Closer
      BY <2>2, <2>3 DEF InQueue
    <3> QED
      BY <1>3, <3>1, <3>2, CloseKeeps
  <2>4. CASE InQueue(Closer)
    <3>1. overtaken' = overtaken + 1 /\ closer = "lock"
      BY <1>3, <2>4 DEF Join, TypeInv, QueueInv
    <3>2. /\ Bound \in Nat /\ RequestTime \in Nat /\ elapsed \in Nat
          /\ \A g \in Flushers : left[g] \in Nat
      BY CloseTypes
    <3>3. Bound' = Bound + RequestTime
      <4>1. LockBound(overtaken + 1) = LockBound(overtaken) + RequestTime
        BY BoundGrows, CloseTypes
      <4> QED
        BY <3>1, <4>1 DEF Bound, LockBound
    <3>4. ASSUME NEW k \in 1..Len(queue'), queue'[k] = Closer
          PROVE  AtLock(k)'
      <4>1. k - 1 \in 1..Len(queue) /\ queue[k - 1] = Closer
        BY <2>2, <3>4
      <4>2. /\ elapsed + Ahead(k - 1) <= Bound
            /\ \A g \in Flushers : flusher[g] = "in" => elapsed + left[g] + Ahead(k - 1) <= Bound
        BY <4>1 DEF CloseInv, AtLock
      <4>3. Ahead(k - 1) \in Nat /\ Ahead(k) = Ahead(k - 1) + RequestTime
        <5>1. k - 1 \in Nat /\ k - 1 >= 1 /\ (k - 1) + 1 = k
          BY <4>1
        <5>2. Ahead(k - 1) \in Nat /\ Ahead((k - 1) + 1) = Ahead(k - 1) + RequestTime
          BY <5>1, AheadGrows
        <5> QED
          BY <5>1, <5>2
      <4>4. elapsed + Ahead(k) <= Bound + RequestTime
        BY <3>2, <4>2, <4>3
      <4>5. \A g \in Flushers : flusher[g] = "in" =>
              elapsed + left[g] + Ahead(k) <= Bound + RequestTime
        BY <3>2, <4>2, <4>3
      <4> QED
        BY <2>1, <3>3, <4>4, <4>5 DEF AtLock, Ahead
    <3> QED
      BY <3>1, <3>4 DEF CloseInv
  <2> QED
    BY <2>3, <2>4
<1> QED
  BY <1>2, <1>3, CloseTypes

LEMMA NextKeepsCloseInv ==
  ASSUME TypeInv, ReadInv, CloseInv, [Next]_vars
  PROVE  CloseInv'
<1> USE DEF goroutines, lock, history
<1>0. /\ queue \in Seq(Writers) /\ Distinct(queue) /\ Len(queue) \in Nat
      /\ Len(queue) <= Cardinality(ApiCallers) + 2
      /\ flusher \in [Flushers -> {"out", "parked", "in"}]
      /\ left \in [Timed -> Nat] /\ left[Closer] \in Nat
      /\ \A g \in Flushers : left[g] \in Nat
      /\ elapsed \in Nat /\ RequestTime \in Nat /\ ShutdownWait \in Nat /\ Bound \in Nat
      /\ announced \in BOOLEAN /\ overtaken \in Nat
      /\ config.shutdownWait = ShutdownWait
  BY CloseTypes
<1>1. /\ Poller \notin Flushers /\ Closer \notin Flushers /\ Worker \notin Flushers
      /\ Closer # Poller /\ Closer # Worker /\ Closer \notin ApiCallers
      /\ Poller \in Timed /\ Closer \in Timed /\ Worker \in Timed /\ Flushers \subseteq Timed
      /\ ApiCallers \subseteq Writers /\ Poller \in Writers /\ Closer \in Writers
  BY ShutdownAssumption DEF Timed, Writers
<1>2. /\ InQueue(Poller) => poller = "api"
      /\ InQueue(Closer) <=> closer = "lock"
  BY DEF TypeInv, QueueInv
<1>3. ASSUME NEW p \in Timed \ Flushers, NEW time, Timer(p, time)
      PROVE  /\ \A g \in Flushers : left'[g] = left[g]
             /\ p # Closer => left'[Closer] = left[Closer]
             /\ left'[p] = time
  BY <1>0, <1>1, <1>3 DEF Timer
<1>4. ASSUME NEW option \in Options, NEW value \in Values, Configure(option, value)
      PROVE  CloseInv'
  BY <1>4, CloseKeeps DEF Configure
<1>5. CASE Start
  BY <1>5, CloseKeeps DEF Start
<1>6. ASSUME NEW g \in Flushers, FlushCall(g)
      PROVE  CloseInv'
  <2>1. left'[Closer] = left[Closer]
    BY <1>0, <1>1, <1>6 DEF FlushCall, Timer
  <2>2. CASE announced
    <3>1. UNCHANGED <<left, queue>> /\ \A f \in Flushers : flusher'[f] = "in" => flusher[f] = "in"
      BY <1>0, <1>6, <2>2 DEF FlushCall
    <3> QED
      BY <1>6, <3>1, CloseKeeps DEF FlushCall
  <2>3. CASE ~announced
    <3>1. /\ \A f \in Flushers \ {g} : flusher'[f] = flusher[f] /\ left'[f] = left[f]
          /\ left'[g] = RequestTime
          /\ UNCHANGED <<queue, announced, overtaken, closer, elapsed>>
      BY <1>0, <1>1, <1>6, <2>3 DEF FlushCall, Timer
    <3>2. Bound' = Bound
      BY <3>1 DEF Bound, LockBound
    <3>3. ASSUME NEW k \in 1..Len(queue), queue[k] = Closer
          PROVE  AtLock(k)'
      <4>1. AtLock(k)
        BY <3>3 DEF CloseInv
      <4>2. elapsed + RequestTime + Ahead(k) <= Bound
        BY <2>3, <4>1 DEF AtLock
      <4>3. \A f \in Flushers : flusher'[f] = "in" => elapsed + left'[f] + Ahead(k) <= Bound
        BY <3>1, <4>1, <4>2 DEF AtLock
      <4> QED
        BY <3>1, <3>2, <4>1, <4>3 DEF AtLock, Ahead
    <3> QED
      BY <2>1, <3>1, <3>2, <3>3 DEF CloseInv
  <2> QED
    BY <1>0, <2>2, <2>3
<1>7. ASSUME NEW g \in Flushers, FlushReturn(g)
      PROVE  CloseInv'
  <2>1. /\ \A f \in Flushers : flusher'[f] = "in" => flusher[f] = "in" /\ left'[f] = left[f]
        /\ left'[Closer] = left[Closer]
    BY <1>0, <1>1, <1>7 DEF FlushReturn, Timer
  <2> QED
    BY <1>7, <2>1, CloseKeeps DEF FlushReturn
<1>8. ASSUME NEW w \in ApiCallers, ApiCall(w)
      PROVE  CloseInv'
  BY <1>1, <1>8, JoinKeepsClose DEF ApiCall
<1>9. CASE CloseCall
  <2>1. ~InQueue(Closer) /\ closer' = "lock" /\ elapsed' = 0 /\ elapsed = 0
    BY <1>2, <1>9 DEF CloseCall, CloseInv
  <2>2. queue' \in Seq(Writers) /\ Distinct(queue') /\ announced' = TRUE
    BY <1>1, <1>9, <2>1, JoinKeeps DEF CloseCall
  <2>3. Len(queue') <= Cardinality(ApiCallers) + 2 /\ Len(queue') \in Nat
    BY <2>2, QueueIsShort
  <2>4. flusher' = flusher /\ left' = left /\ Bound' = Bound
    <3>1. overtaken' = overtaken
      BY <1>0, <1>9, <2>1 DEF CloseCall, Join
    <3> QED
      BY <1>9, <3>1 DEF CloseCall, Bound, LockBound
  <2>5. ASSUME NEW k \in 1..Len(queue')
        PROVE  AtLock(k)'
    <3>1. k \in Nat /\ k >= 1 /\ k <= Cardinality(ApiCallers) + 2
      BY <2>3, ShutdownAssumption, FS_CardinalityType
    <3>2. Ahead(k) \in Nat /\ Ahead(k) + RequestTime <= Bound
      BY <1>0, <3>1, AheadGrows, BoundGrows DEF Bound
    <3>3. \A g \in Flushers : flusher[g] = "in" => left[g] <= RequestTime
      BY DEF ReadInv
    <3>4. elapsed' + Ahead(k) <= Bound
      BY <1>0, <2>1, <3>2
    <3>5. \A g \in Flushers : flusher'[g] = "in" => elapsed' + left'[g] + Ahead(k) <= Bound
      BY <1>0, <2>1, <2>4, <3>2, <3>3
    <3> QED
      BY <2>2, <2>4, <3>4, <3>5 DEF AtLock, Ahead
  <2> QED
    BY <2>1, <2>5 DEF CloseInv
<1>10. CASE LockApi
  <2>1. /\ queue # <<>> /\ queue' = Tail(queue) /\ Head(queue) # Closer
        /\ UNCHANGED <<closer, elapsed, overtaken>>
        /\ \A g \in Flushers : flusher[g] # "in"
    BY <1>10 DEF LockApi, CanLock, Leave, TypeInv, QueueInv
  <2>2. Bound' = Bound
    BY <2>1 DEF Bound, LockBound
  <2>3. /\ Head(queue) = queue[1]
        /\ \A i \in 1..Len(queue') : /\ i + 1 \in 1..Len(queue)
                                     /\ queue'[i] = queue[i + 1]
    BY <1>0, <2>1, TailWriter
  <2>4. left'[Closer] = left[Closer]
    BY <1>0, <1>1, <1>10 DEF LockApi, Released
  <2>5. \A g \in Flushers : flusher'[g] = "in" => left'[g] = RequestTime
    BY <1>0, <1>1, <1>10 DEF LockApi, Released
  <2>6. ASSUME NEW k \in 1..Len(queue'), queue'[k] = Closer
        PROVE  AtLock(k)'
    <3>1. k + 1 \in 1..Len(queue) /\ queue[k + 1] = Closer
      BY <2>3, <2>6
    <3>2. elapsed + Ahead(k + 1) <= Bound
      BY <3>1 DEF CloseInv, AtLock
    <3>3. Ahead(k) \in Nat /\ Ahead(k + 1) = Ahead(k) + RequestTime
      <4>1. k \in Nat /\ k >= 1
        OBVIOUS
      <4> QED
        BY <4>1, AheadGrows
    <3>4. elapsed' + Ahead(k) <= Bound
      BY <1>0, <2>1, <3>2, <3>3
    <3>5. elapsed' + RequestTime + Ahead(k) <= Bound
      BY <1>0, <2>1, <3>2, <3>3
    <3>6. \A g \in Flushers : flusher'[g] = "in" => elapsed' + left'[g] + Ahead(k) <= Bound
      BY <2>5, <3>5
    <3> QED
      BY <2>2, <3>4, <3>5, <3>6 DEF AtLock, Ahead
  <2> QED
    BY <2>1, <2>4, <2>6, <2>2 DEF CloseInv
<1>11. CASE LockClose
  <2>1. /\ queue # <<>> /\ queue' = Tail(queue) /\ Head(queue) = Closer
        /\ closer' = "poller" /\ elapsed' = elapsed /\ overtaken' = overtaken
    BY <1>11 DEF LockClose, CanLock, Leave, TypeInv, QueueInv
  <2>2. /\ Head(queue) = queue[1] /\ 1 \in 1..Len(queue)
        /\ \A i \in 1..Len(queue') : queue'[i] # Head(queue)
    BY <1>0, <2>1, TailWriter
  <2>3. elapsed <= Bound
    <3>1. elapsed + Ahead(1) <= Bound
      BY <2>1, <2>2 DEF CloseInv, AtLock
    <3>2. Ahead(1) = 0
      BY 1 \in Nat, 1 >= 1, AheadGrows
    <3> QED
      BY <1>0, <3>1, <3>2
  <2>4. left'[Closer] \in {0, ShutdownWait}
    BY <1>0, <1>1, <1>3, <1>11 DEF LockClose
  <2>5. elapsed' + left'[Closer] <= Bound + ShutdownWait
    BY <1>0, <2>1, <2>3, <2>4
  <2>6. Bound' = Bound /\ ShutdownWait' = ShutdownWait
    BY <2>1 DEF Bound, LockBound
  <2> QED
    BY <2>1, <2>2, <2>5, <2>6 DEF CloseInv
<1>12. CASE PollerStopped
  <2>1. closer = "poller" /\ closer' = "worker" /\ UNCHANGED <<elapsed, queue>>
    BY <1>12 DEF PollerStopped, StopPollerEnds
  <2>2. left'[Closer] = ShutdownWait
    BY <1>0, <1>1, <1>3, <1>12 DEF PollerStopped
  <2>3. elapsed + left[Closer] <= Bound + ShutdownWait
    BY <2>1 DEF CloseInv
  <2>4. elapsed' + left'[Closer] <= Bound + 2 * ShutdownWait
    BY <1>0, <2>1, <2>2, <2>3
  <2>5. \A k \in 1..Len(queue') : queue'[k] # Closer
    BY <1>2, <2>1 DEF InQueue
  <2> QED
    BY <1>12, <2>1, <2>4, <2>5 DEF CloseInv, Bound, LockBound, PollerStopped
<1>13. CASE CloseReturns
  <2>1. closer = "worker" /\ closer' = "returned" /\ UNCHANGED <<elapsed, queue>>
    BY <1>13 DEF CloseReturns, StopWorkerEnds
  <2>2. elapsed + left[Closer] <= Bound + 2 * ShutdownWait
    BY <2>1 DEF CloseInv
  <2>3. elapsed' <= Bound + 2 * ShutdownWait
    BY <1>0, <2>1, <2>2
  <2>4. \A k \in 1..Len(queue') : queue'[k] # Closer
    BY <1>2, <2>1 DEF InQueue
  <2> QED
    BY <1>13, <2>1, <2>3, <2>4 DEF CloseInv, Bound, LockBound, CloseReturns
<1>14. CASE PollerTick
  BY <1>1, <1>2, <1>14, JoinKeepsClose DEF PollerTick
<1>15. CASE PollerRequests
  BY <1>1, <1>3, <1>15, CloseKeeps DEF PollerRequests
<1>16. CASE PollerAnswered
  BY <1>1, <1>3, <1>16, CloseKeeps DEF PollerAnswered
<1>17. CASE PollerLeaves
  BY <1>17, CloseKeeps DEF PollerLeaves
<1>18. CASE WorkerPosts
  BY <1>1, <1>3, <1>18, CloseKeeps DEF WorkerPosts
<1>19. CASE WorkerPosted
  BY <1>1, <1>3, <1>19, CloseKeeps DEF WorkerPosted
<1>20. CASE Clock
  <2>1. UNCHANGED <<closer, flusher, queue, announced, overtaken>>
    BY <1>20 DEF Clock
  <2>2. Bound' = Bound
    BY <2>1 DEF Bound, LockBound
  <2>3. \A g \in Flushers : flusher[g] = "in" => left[g] > 0 /\ left'[g] = left[g] - 1
    BY <1>0, <1>1, <1>20 DEF Clock, Running
  <2>4. closer \in {"lock", "poller", "worker"} => elapsed' = elapsed + 1
    BY <1>20 DEF Clock, Closing
  <2>5. closer \notin {"lock", "poller", "worker"} => elapsed' = elapsed
    BY <1>20 DEF Clock, Closing
  <2>6. closer \in {"poller", "worker"} => left[Closer] # 0
    BY <1>20 DEF Clock, StopPollerEnds, StopWorkerEnds
  <2>7. closer \in {"poller", "worker"} => left'[Closer] = left[Closer] - 1
    <3>1. closer \in {"poller", "worker"} => Closer \in Running
      BY DEF Running
    <3>2. Closer \in Running /\ left[Closer] > 0 => left'[Closer] = left[Closer] - 1
      BY <1>1, <1>20 DEF Clock
    <3>3. left[Closer] # 0 => left[Closer] > 0
      BY <1>0
    <3> QED
      BY <2>6, <3>1, <3>2, <3>3
  <2>8. ASSUME NEW k \in 1..Len(queue), queue[k] = Closer
        PROVE  AtLock(k)'
    <3>1. elapsed' = elapsed + 1
      BY <1>2, <2>4, <2>8 DEF InQueue
    <3>2. \A g \in Flushers : flusher[g] = "in" => elapsed + left[g] + Ahead(k) <= Bound
      BY <2>8 DEF CloseInv, AtLock
    <3>3. announced
      <4>1. queue # <<>>
        BY <1>0
      <4> QED
        BY <1>0, <1>20, <4>1 DEF Clock, CanWake
    <3>4. PICK f \in Flushers : flusher[f] = "in"
      BY <1>20, <3>3 DEF Clock, CanLock
    <3>5. Ahead(k) \in Nat
      <4>1. k \in Nat /\ k >= 1
        OBVIOUS
      <4> QED
        BY <4>1, AheadGrows
    <3>6. elapsed' + Ahead(k) <= Bound
      BY <1>0, <2>3, <3>1, <3>2, <3>4, <3>5
    <3>7. ASSUME NEW g \in Flushers, flusher[g] = "in"
          PROVE  elapsed' + left'[g] + Ahead(k) <= Bound
      <4>1. left[g] \in Nat /\ left'[g] = left[g] - 1
        BY <1>0, <2>3, <3>7
      <4>2. elapsed + left[g] + Ahead(k) <= Bound
        BY <3>2, <3>7
      <4> QED
        BY <1>0, <3>1, <3>5, <4>1, <4>2
    <3> QED
      BY <2>1, <2>2, <3>3, <3>6, <3>7 DEF AtLock, Ahead
  <2>9. closer = "poller" => elapsed' + left'[Closer] <= Bound + ShutdownWait
    <3>1. closer = "poller" => elapsed + left[Closer] <= Bound + ShutdownWait
      BY DEF CloseInv
    <3>2. closer = "poller" => elapsed' = elapsed + 1 /\ left'[Closer] = left[Closer] - 1
      BY <2>4, <2>7
    <3> QED
      BY <1>0, <3>1, <3>2
  <2>10. closer = "worker" => elapsed' + left'[Closer] <= Bound + 2 * ShutdownWait
    <3>1. closer = "worker" => elapsed + left[Closer] <= Bound + 2 * ShutdownWait
      BY DEF CloseInv
    <3>2. closer = "worker" => elapsed' = elapsed + 1 /\ left'[Closer] = left[Closer] - 1
      BY <2>4, <2>7
    <3> QED
      BY <1>0, <3>1, <3>2
  <2> QED
    BY <2>1, <2>5, <2>8, <2>9, <2>10, <2>2 DEF CloseInv
<1>21. CASE Wake
  BY <1>21, CloseKeeps DEF Wake
<1>22. CASE UNCHANGED vars
  BY <1>22, CloseKeeps DEF vars
<1> QED
  BY <1>4, <1>5, <1>6, <1>7, <1>8, <1>9, <1>10, <1>11, <1>12, <1>13, <1>14, <1>15,
     <1>16, <1>17, <1>18, <1>19, <1>20, <1>21, <1>22 DEF Next

\* However long requests take, however many goroutines flush and whatever the
\* poller is at, Close returns after one request for each goroutine that may
\* wait for the lock, one for each time it is overtaken there, and two waits
\* (nodeloom.go:213, 222, 231).
THEOREM CloseReturnsInTime == Spec => []CloseIsBounded
<1>1. Init => TypeInv /\ ReadInv /\ CloseInv
  <2>1. Init => ReadInv
    <3>1. RequestTime \in Nat
      BY ShutdownAssumption
    <3> QED
      BY <3>1 DEF Init, ReadInv
  <2>2. Init => CloseInv
    <3>1. Init => queue = <<>> /\ \A k \in 1..Len(queue) : FALSE
      BY DEF Init
    <3> QED
      BY <3>1 DEF Init, CloseInv
  <2> QED
    BY <2>1, <2>2, InitTypeInv
<1>2. TypeInv /\ ReadInv /\ CloseInv /\ [Next]_vars => (TypeInv /\ ReadInv /\ CloseInv)'
  BY NextKeepsTypeInv, NextKeepsReadInv, NextKeepsCloseInv
<1>3. TypeInv /\ CloseInv => CloseIsBounded
  <2> SUFFICES ASSUME TypeInv, CloseInv
               PROVE  elapsed <= Bound + 2 * ShutdownWait
    BY CloseTypes DEF CloseIsBounded, Bound, LockBound
  <2>1. /\ elapsed \in Nat /\ Bound \in Nat /\ ShutdownWait \in Nat /\ left[Closer] \in Nat
        /\ closer \in {"out", "lock", "poller", "worker", "returned"}
        /\ Len(queue) \in Nat
    BY CloseTypes DEF TypeInv, TypeOK
  <2>2. CASE closer = "out"
    BY <2>1, <2>2 DEF CloseInv
  <2>3. CASE closer = "lock"
    <3>1. PICK k \in 1..Len(queue) : queue[k] = Closer
      BY <2>3 DEF TypeInv, QueueInv, InQueue
    <3>2. elapsed + Ahead(k) <= Bound
      BY <3>1 DEF CloseInv, AtLock
    <3>3. Ahead(k) \in Nat
      <4>1. k \in Nat /\ k >= 1
        BY <2>1
      <4> QED
        BY <4>1, AheadGrows
    <3> QED
      BY <2>1, <3>2, <3>3
  <2>4. CASE closer = "poller"
    <3>1. elapsed + left[Closer] <= Bound + ShutdownWait
      BY <2>4 DEF CloseInv
    <3> QED
      BY <2>1, <3>1
  <2>5. CASE closer = "worker"
    <3>1. elapsed + left[Closer] <= Bound + 2 * ShutdownWait
      BY <2>5 DEF CloseInv
    <3> QED
      BY <2>1, <3>1
  <2>6. CASE closer = "returned"
    BY <2>6 DEF CloseInv
  <2> QED
    BY <2>1, <2>2, <2>3, <2>4, <2>5, <2>6
<1> QED
  BY <1>1, <1>2, <1>3, PTL DEF Spec
=============================================================================
