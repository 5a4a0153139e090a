------------------------ MODULE ControlPlaneProofs ------------------------
(***************************************************************************)
(* Proofs about ControlPlane for every set of agents and callers and any   *)
(* number of changes and failures.                                         *)
(***************************************************************************)
EXTENDS ControlPlane, TLAPS

-----------------------------------------------------------------------------
(***************************************************************************)
(* What is known of an answer on its way.  The backend may have changed    *)
(* since it was made; one as new as the last change says what the backend  *)
(* says now.                                                               *)
(***************************************************************************)
IsAnswer(p) ==
  /\ p \in Answers
  /\ p.revision <= revision
  /\ p.revision = revision => p = Answer(p.agent)
  /\ p.source = "team" => teamTouched

AnswersInv ==
  /\ \A c \in Callers : answer[c] # NoAnswer => IsAnswer(answer[c])
  /\ poller = "answered" => IsAnswer(polled)

\* What an entry as new as the backend says, and what it says of the team: where
\* the answer for its agent was about the team, the team's flag is as new.
RegistryInv ==
  /\ entry \in [Agents -> Registry!Entry]
  /\ teamHalt => teamTouched
  /\ ~teamTouched => ~teamHalted
  /\ teamRevision = revision => (teamHalted <=> teamHalt)
  /\ \A a \in Agents :
       /\ newest[a] = entry[a].revision
       /\ entry[a].revision = revision =>
            /\ entry[a].halted <=> agentHalt[a] /\ ~teamHalt
            /\ teamHalt \/ (teamTouched /\ ~agentHalt[a]) => teamRevision = revision

\* The poller counts a late request when it sends one, and after the close it
\* does not check for another.
StopInv ==
  /\ lateRequests = 0 \/ (stopChan /\ lateRequests = 1 /\ poller # "checked")
  /\ stopped = "joined" => poller = "done"

IInv == TypeOK /\ AnswersInv /\ RegistryInv /\ StopInv

LEMMA AnswersAreTyped ==
  ASSUME NEW p \in Answers
  PROVE  /\ p.agent \in Agents /\ p.halted \in BOOLEAN /\ p.revision \in Nat
         /\ p.source \in {"none", "agent", "team"} /\ p.require = "" /\ p.ttl = 0
         /\ p # NoAnswer
<1>1. /\ p.agent \in Agents /\ p.halted \in BOOLEAN
      /\ p.source \in {"none", "agent", "team"} /\ p.require = ""
  BY DEF Answers
<1>2. p.revision \in 0..MaxChanges /\ p.ttl = 0
  BY DEF Answers
<1>3. p.revision \in Nat
  BY <1>2, PlaneAssumption
<1>4. NoAnswer.agent = NoAgent
  BY DEF NoAnswer
<1> QED
  BY <1>1, <1>2, <1>3, <1>4, PlaneAssumption

\* A new answer.
LEMMA AnswerIsAnswer ==
  ASSUME TypeOK, RegistryInv, NEW a \in Agents
  PROVE  IsAnswer(Answer(a)) /\ Answer(a).agent = a
<1>1. BackendHalts(a) \in BOOLEAN /\ revision \in 0..MaxChanges
  BY DEF TypeOK, BackendHalts
<1>2. Answer(a).source \in {"none", "agent", "team"}
  BY DEF Answer
<1>3. Answer(a) \in Answers
  BY <1>1, <1>2 DEF Answer, Answers
<1>4. Answer(a).agent = a /\ Answer(a).revision = revision
  BY DEF Answer
<1>5. Answer(a).source = "team" => teamTouched
  BY DEF Answer, RegistryInv
<1>6. revision <= revision
  BY <1>1
<1> QED
  BY <1>3, <1>4, <1>5, <1>6 DEF IsAnswer

LEMMA InitIInv ==
  ASSUME Init
  PROVE  IInv
<1>1. Registry!NewEntry \in Registry!Entry
  BY DEF Registry!NewEntry, Registry!Entry, Registry!DefaultTTL, Registry!Sources
<1>2. \A a \in Agents : entry[a].halted = FALSE /\ entry[a].revision = 0
  BY DEF Init, Registry!NewEntry
<1>3. RegistryInv
  <2>1. entry \in [Agents -> Registry!Entry]
    BY <1>1 DEF Init
  <2>2. \A a \in Agents : newest[a] = 0 /\ ~agentHalt[a]
    BY DEF Init
  <2>3. ~teamHalt /\ ~teamTouched /\ ~teamHalted
    BY DEF Init
  <2> QED
    BY <1>2, <2>1, <2>2, <2>3 DEF RegistryInv
<1>4. TypeOK
  <2>1. revision = 0 /\ 0 \in 0..revision /\ 0 \in 0..MaxChanges /\ 0 \in 0..MaxFailures
    BY PlaneAssumption DEF Init
  <2>2. newest \in [Agents -> 0..revision]
    BY <2>1 DEF Init
  <2>3. (CASE poller \in {"checked", "sent"} -> polled \in [agent : known]
           [] poller = "answered" -> polled \in Answers
           [] OTHER -> polled = NoAnswer)
    BY DEF Init
  <2>4. \A a \in Agents : entry[a].halted \in BOOLEAN /\ entry[a].revision \in 0..revision
    BY <1>2, <2>1
  <2> QED
    BY <2>1, <2>2, <2>3, <2>4 DEF Init, TypeOK, PollerPlaces
<1> QED
  BY <1>3, <1>4 DEF IInv, Init, AnswersInv, StopInv

-----------------------------------------------------------------------------
(***************************************************************************)
(* The registry.                                                           *)
(***************************************************************************)
\* The merge of an answer, as it bears on the halts.
LEMMA UpdateMerges ==
  ASSUME TypeOK, RegistryInv, NEW p, IsAnswer(p), Update(p)
  PROVE  /\ known' = known \cup {p.agent}
         /\ entry' \in [Agents -> Registry!Entry]
         /\ \A a \in Agents \ {p.agent} : entry'[a] = entry[a]
         /\ p.revision < entry[p.agent].revision => entry'[p.agent] = entry[p.agent]
         /\ p.revision >= entry[p.agent].revision =>
              /\ entry'[p.agent].revision = p.revision
              /\ entry'[p.agent].halted = (p.halted /\ p.source # "team")
         /\ p.source = "team" /\ p.revision >= teamRevision =>
              teamHalted' = p.halted /\ teamRevision' = p.revision
         /\ ~(p.source = "team" /\ p.revision >= teamRevision) =>
              teamHalted' = teamHalted /\ teamRevision' = teamRevision
<1> DEFINE a == p.agent
           old == entry[a]
           new == IF p.revision < old.revision THEN old ELSE Registry!Merge(old, p)
<1>1. /\ a \in Agents /\ p.halted \in BOOLEAN /\ p.revision \in Nat
      /\ p.source \in {"none", "agent", "team"} /\ p.require = "" /\ p.ttl = 0
  BY AnswersAreTyped DEF IsAnswer
<1>2. a # NoAgent
  BY <1>1, PlaneAssumption
<1>3. Registry!SourceOf(p) = p.source
  BY <1>1 DEF Registry!SourceOf
<1>4. old \in Registry!Entry
  BY <1>1 DEF RegistryInv
<1>5. Registry!HaltsAgent(p) = (p.halted /\ p.source # "team")
  BY <1>3 DEF Registry!HaltsAgent
<1>6. /\ Registry!Merge(old, p) \in Registry!Entry
      /\ Registry!Merge(old, p).revision = p.revision
      /\ Registry!Merge(old, p).halted = (p.halted /\ p.source # "team")
  <2>1. (p.halted /\ p.source # "team") \in BOOLEAN
    OBVIOUS
  <2>2. p.ttl \in 1..Registry!MaxTTL => p.ttl \in Nat \ {0}
    <3>1. \A n \in 1..Registry!MaxTTL : n \in Nat \ {0}
      <4>1. Registry!MaxTTL \in Nat
        BY DEF Registry!MaxTTL
      <4> QED
        BY <4>1
    <3> QED
      BY <3>1
  <2>3. p.source \in Registry!Sources
    BY <1>1 DEF Registry!Sources
  <2> QED
    BY <1>1, <1>3, <1>4, <1>5, <2>1, <2>2, <2>3 DEF Registry!Merge, Registry!Entry
<1>7. known' = known \cup {a} /\ entry' = [entry EXCEPT ![a] = new]
  BY <1>2 DEF Update, Registry!UpdateAgent
<1>8. entry'[a] = new /\ \A b \in Agents \ {a} : entry'[b] = entry[b]
  BY <1>1, <1>7 DEF RegistryInv
<1>9. new \in Registry!Entry
  BY <1>4, <1>6
<1>10. entry' \in [Agents -> Registry!Entry]
  BY <1>7, <1>9 DEF RegistryInv
<1>11. old.revision \in Nat
  BY <1>4 DEF Registry!Entry
<1>12. /\ p.source = "team" /\ p.revision >= teamRevision =>
              teamHalted' = p.halted /\ teamRevision' = p.revision
       /\ ~(p.source = "team" /\ p.revision >= teamRevision) =>
              teamHalted' = teamHalted /\ teamRevision' = teamRevision
  BY <1>3 DEF Update, Registry!UpdateTeam
<1> QED
  <2>1. \A b \in Agents \ {p.agent} : entry'[b] = entry[b]
    BY <1>8
  <2>2. p.revision < entry[p.agent].revision => entry'[p.agent] = entry[p.agent]
    BY <1>8
  <2>3. p.revision >= entry[p.agent].revision =>
          /\ entry'[p.agent].revision = p.revision
          /\ entry'[p.agent].halted = (p.halted /\ p.source # "team")
    <3>1. p.revision \in Nat
      BY <1>1
    <3> QED
      BY <1>6, <1>8, <1>11, <3>1
  <2> QED
    BY <1>7, <1>10, <1>12, <2>1, <2>2, <2>3
\* So a merge keeps what the invariants say of the registry.
LEMMA UpdateKeeps ==
  ASSUME TypeOK, RegistryInv, NEW p, IsAnswer(p), Update(p), UNCHANGED backend
  PROVE  /\ RegistryInv'
         /\ known \subseteq known' /\ known' \subseteq Agents
         /\ \A a \in Agents : /\ entry'[a].halted \in BOOLEAN
                              /\ entry'[a].revision \in 0..revision
         /\ teamHalted' \in BOOLEAN
         /\ teamRevision' \in 0..revision
         /\ newest' \in [Agents -> 0..revision]
<1> DEFINE a == p.agent
<1>0. revision \in Nat
  <2>1. revision \in 0..MaxChanges
    BY DEF TypeOK
  <2> QED
    BY <2>1, PlaneAssumption
<1>1. a \in Agents /\ p.halted \in BOOLEAN /\ p.revision \in 0..revision
  <2>1. p \in Answers /\ p.revision <= revision
    BY DEF IsAnswer
  <2>2. a \in Agents /\ p.halted \in BOOLEAN /\ p.revision \in Nat
    BY <2>1, AnswersAreTyped
  <2> QED
    BY <1>0, <2>1, <2>2
<1>2. /\ known' = known \cup {a}
      /\ entry' \in [Agents -> Registry!Entry]
      /\ \A b \in Agents \ {a} : entry'[b] = entry[b]
      /\ p.revision < entry[a].revision => entry'[a] = entry[a]
      /\ p.revision >= entry[a].revision =>
              /\ entry'[a].revision = p.revision
              /\ entry'[a].halted = (p.halted /\ p.source # "team")
  BY UpdateMerges
<1>3. /\ p.source = "team" /\ p.revision >= teamRevision =>
              teamHalted' = p.halted /\ teamRevision' = p.revision
      /\ ~(p.source = "team" /\ p.revision >= teamRevision) =>
              teamHalted' = teamHalted /\ teamRevision' = teamRevision
  BY UpdateMerges
<1>4. newest' = [newest EXCEPT ![a] = IF p.revision > @ THEN p.revision ELSE @]
  BY DEF Update
<1>5. newest \in [Agents -> 0..revision] /\ newest' \in [Agents -> 0..revision]
  BY <1>1, <1>4 DEF TypeOK
<1>6. UNCHANGED <<agentHalt, teamHalt, teamTouched, revision>>
  BY DEF backend
<1>7. \A b \in Agents : newest[b] = entry[b].revision /\ entry[b].revision \in 0..revision
                        /\ entry[b].halted \in BOOLEAN
  BY DEF RegistryInv, TypeOK
<1>8. \A b \in Agents : newest'[b] = entry'[b].revision
  BY <1>1, <1>2, <1>4, <1>5, <1>7
<1>9. p.revision = revision =>
        /\ p.halted <=> teamHalt \/ agentHalt[a]
        /\ p.source = "team" <=> teamHalt \/ (teamTouched /\ ~agentHalt[a])
  <2>1. p.revision = revision => p = Answer(a)
    BY DEF IsAnswer
  <2>2. Answer(a).halted = (teamHalt \/ agentHalt[a])
    BY DEF Answer, BackendHalts
  <2>3. Answer(a).source = "team" <=> teamHalt \/ (teamTouched /\ ~agentHalt[a])
    BY DEF Answer, RegistryInv
  <2> QED
    BY <2>1, <2>2, <2>3
<1>10. teamRevision \in 0..revision /\ teamRevision' \in 0..revision /\ teamHalted' \in BOOLEAN
  BY <1>1, <1>3 DEF TypeOK
<1>11. teamRevision = revision => teamRevision' = revision
  BY <1>1, <1>3, <1>10
<1>12. teamRevision' = revision => (teamHalted' <=> teamHalt)
  BY <1>1, <1>3, <1>9, <1>10 DEF RegistryInv
<1>13. ~teamTouched => ~teamHalted'
  BY <1>3 DEF IsAnswer, RegistryInv
<1>14. ASSUME NEW b \in Agents, entry'[b].revision = revision
       PROVE  /\ entry'[b].halted <=> agentHalt[b] /\ ~teamHalt
              /\ teamHalt \/ (teamTouched /\ ~agentHalt[b]) => teamRevision' = revision
  <2>1. CASE entry'[b] = entry[b]
    BY <1>11, <1>14, <2>1 DEF RegistryInv
  <2>2. CASE entry'[b] # entry[b]
    <3>1. b = a /\ p.revision >= entry[a].revision
      BY <1>1, <1>2, <1>7, <2>2
    <3>2. p.revision = revision /\ entry'[a].halted = (p.halted /\ p.source # "team")
      BY <1>2, <1>14, <3>1
    <3>3. entry'[a].halted <=> agentHalt[a] /\ ~teamHalt
      BY <1>9, <3>2
    <3>4. p.source = "team" => teamRevision' = revision
      <4>1. teamRevision <= revision
        BY <1>0, <1>10
      <4> QED
        BY <1>3, <3>2, <4>1
    <3> QED
      BY <1>9, <3>1, <3>2, <3>3, <3>4
  <2> QED
    BY <2>1, <2>2
<1>15. \A b \in Agents : entry'[b].halted \in BOOLEAN /\ entry'[b].revision \in 0..revision
  BY <1>2, <1>5, <1>8 DEF Registry!Entry
<1>16. RegistryInv'
  BY <1>2, <1>6, <1>8, <1>12, <1>13, <1>14 DEF RegistryInv
<1> QED
  BY <1>1, <1>2, <1>5, <1>10, <1>15, <1>16 DEF TypeOK

\* Answers on their way stay what they are: while the backend does not change, and
\* when it does, for then none is as new as the backend any more.
LEMMA AnswersKept ==
  ASSUME UNCHANGED backend, NEW p
  PROVE  IsAnswer(p)' <=> IsAnswer(p)
<1>1. Answer(p.agent)' = Answer(p.agent)
  BY DEF Answer, BackendHalts, backend
<1> QED
  BY <1>1 DEF IsAnswer, backend

LEMMA ChangeKeeps ==
  ASSUME TypeOK, RegistryInv, AnswersInv, Change, teamTouched => teamTouched',
         teamHalt' => teamTouched'
  PROVE  /\ RegistryInv' /\ AnswersInv'
         /\ revision' \in 0..MaxChanges
         /\ 0..revision \subseteq 0..revision'
<1>1. revision \in 0..MaxChanges /\ revision' = revision + 1 /\ revision < MaxChanges
  BY DEF TypeOK, Change
<1>2. revision \in Nat /\ revision' \in 0..MaxChanges /\ 0..revision \subseteq 0..revision'
  BY <1>1, PlaneAssumption
<1>3. ASSUME NEW p, IsAnswer(p)
      PROVE  IsAnswer(p)'
  <2>1. p \in Answers /\ p.revision <= revision
    BY <1>3 DEF IsAnswer
  <2>2. p.revision \in Nat
    BY <2>1, AnswersAreTyped
  <2>3. p.revision <= revision' /\ p.revision # revision'
    BY <1>1, <1>2, <2>1, <2>2
  <2> QED
    BY <1>3, <2>1, <2>3 DEF IsAnswer
<1>4. UNCHANGED <<known, entry, teamHalted, teamRevision, newest, answer, poller, polled>>
  BY DEF Change, registry, pollerVars
<1>5. AnswersInv'
  BY <1>3, <1>4 DEF AnswersInv
<1>6. teamRevision \in 0..revision /\ \A a \in Agents : entry[a].revision \in 0..revision
  BY DEF TypeOK
<1>7. teamRevision # revision' /\ \A a \in Agents : entry[a].revision # revision'
  BY <1>1, <1>2, <1>6
<1>8. ~teamTouched' => ~teamHalted'
  BY <1>4 DEF RegistryInv
<1>9. RegistryInv'
  BY <1>4, <1>7, <1>8 DEF RegistryInv
<1> QED
  BY <1>2, <1>5, <1>9

-----------------------------------------------------------------------------
(***************************************************************************)
(* One lemma for each group of actions.                                    *)
(***************************************************************************)
LEMMA BackendKeepsIInv ==
  ASSUME IInv, (\E a \in Agents : HaltAgent(a)) \/ HaltTeam
  PROVE  IInv'
<1> USE DEF IInv
<1>1. Change /\ UNCHANGED <<known, entry, teamHalted, teamRevision, newest, answer, poller, todo,
                           polled, lateRequests, failures, stopChan, stopped>>
  BY DEF HaltAgent, HaltTeam, Change, registry, pollerVars, stopVars
<1>2. (teamTouched => teamTouched') /\ (teamHalt' => teamTouched')
  BY DEF HaltAgent, HaltTeam, RegistryInv
<1>3. /\ RegistryInv' /\ AnswersInv'
      /\ revision' \in 0..MaxChanges
      /\ 0..revision \subseteq 0..revision'
  BY <1>1, <1>2, ChangeKeeps
<1>4. /\ agentHalt' \in [Agents -> BOOLEAN]
      /\ teamHalt' \in BOOLEAN /\ teamTouched' \in BOOLEAN
  <2>1. ASSUME NEW a \in Agents, HaltAgent(a)
        PROVE  agentHalt' \in [Agents -> BOOLEAN] /\ UNCHANGED <<teamHalt, teamTouched>>
    BY <2>1 DEF HaltAgent, TypeOK
  <2>2. CASE HaltTeam
    BY <2>2 DEF HaltTeam, TypeOK
  <2> QED
    BY <2>1, <2>2 DEF TypeOK
<1>5. newest' \in [Agents -> 0..revision']
  BY <1>1, <1>3 DEF TypeOK
<1>6. TypeOK'
  BY <1>1, <1>3, <1>4, <1>5 DEF TypeOK
<1>7. StopInv'
  BY <1>1 DEF StopInv
<1> QED
  BY <1>3, <1>6, <1>7

LEMMA OthersKeepIInv ==
  ASSUME IInv,
         \/ \E c \in Callers, a \in Agents : Receive(c, a)
         \/ \E c \in Callers : Deliver(c)
         \/ \E a \in Agents : RecordSession(a)
  PROVE  IInv'
<1> USE DEF IInv
<1>1. ASSUME NEW c \in Callers, NEW a \in Agents, Receive(c, a)
      PROVE  IInv'
  <2>1. IsAnswer(Answer(a))
    BY AnswerIsAnswer
  <2>2. /\ answer' = [answer EXCEPT ![c] = Answer(a)]
        /\ UNCHANGED <<registry, backend, pollerVars, stopVars>>
    BY <1>1 DEF Receive
  <2>3. answer' \in [Callers -> Answers \cup {NoAnswer}]
    BY <2>1, <2>2 DEF IsAnswer, TypeOK
  <2>4. \A d \in Callers : answer'[d] # NoAnswer => IsAnswer(answer'[d])
    BY <2>1, <2>2 DEF AnswersInv, TypeOK
  <2>5. AnswersInv'
    BY <2>2, <2>4, AnswersKept DEF AnswersInv, pollerVars
  <2>6. TypeOK' /\ RegistryInv' /\ StopInv'
    BY <2>2, <2>3 DEF TypeOK, RegistryInv, StopInv, registry, backend, pollerVars, stopVars
  <2> QED
    BY <2>5, <2>6
<1>2. ASSUME NEW c \in Callers, Deliver(c)
      PROVE  IInv'
  <2>1. /\ IsAnswer(answer[c])
        /\ answer' = [answer EXCEPT ![c] = NoAnswer]
        /\ Update(answer[c]) \/ UNCHANGED registry
        /\ UNCHANGED <<backend, pollerVars, stopVars>>
    BY <1>2 DEF Deliver, AnswersInv
  <2>2. answer' \in [Callers -> Answers \cup {NoAnswer}]
    BY <2>1 DEF TypeOK
  <2>3. AnswersInv'
    BY <2>1, AnswersKept DEF AnswersInv, TypeOK, pollerVars
  <2>4. StopInv'
    BY <2>1 DEF StopInv, pollerVars, stopVars
  <2>5. CASE Update(answer[c])
    <3>1. /\ RegistryInv'
          /\ known \subseteq known' /\ known' \subseteq Agents
          /\ \A a \in Agents : /\ entry'[a].halted \in BOOLEAN
                               /\ entry'[a].revision \in 0..revision
          /\ teamHalted' \in BOOLEAN
          /\ teamRevision' \in 0..revision
          /\ newest' \in [Agents -> 0..revision]
      BY <2>1, <2>5, UpdateKeeps
    <3>2. TypeOK'
      BY <2>1, <2>2, <3>1 DEF TypeOK, backend, pollerVars, stopVars
    <3> QED
      BY <2>3, <2>4, <3>1, <3>2
  <2>6. CASE UNCHANGED registry
    BY <2>1, <2>2, <2>3, <2>4, <2>6
       DEF TypeOK, RegistryInv, registry, backend, pollerVars, stopVars
  <2> QED
    BY <2>1, <2>5, <2>6
<1>3. ASSUME NEW a \in Agents, RecordSession(a)
      PROVE  IInv'
  <2>1. /\ known' = known \cup {a}
        /\ UNCHANGED <<entry, teamHalted, teamRevision, newest, backend, answer, pollerVars, stopVars>>
    BY <1>3 DEF RecordSession
  <2>2. AnswersInv'
    BY <2>1, AnswersKept DEF AnswersInv, pollerVars
  <2>3. TypeOK' /\ RegistryInv' /\ StopInv'
    BY <2>1 DEF TypeOK, RegistryInv, StopInv, backend, pollerVars, stopVars
  <2> QED
    BY <2>2, <2>3
<1> QED
  BY <1>1, <1>2, <1>3

\* The poller's steps that leave the registry and the backend alone: what is to be
\* shown is where its goroutine is and what it has in hand.
LEMMA PollerMoves ==
  ASSUME IInv, UNCHANGED notPoller,
         poller' \in PollerPlaces, todo' \subseteq known,
         lateRequests' \in Nat, failures' \in 0..MaxFailures,
         poller' \in {"checked", "sent"} => polled' \in [agent : known],
         poller' = "answered" => IsAnswer(polled'),
         poller' \notin {"checked", "sent", "answered"} => polled' = NoAnswer,
         StopInv'
  PROVE  IInv'
<1>1. UNCHANGED <<registry, backend, answer, stopVars>>
  BY DEF notPoller
<1>2. poller' = "answered" => polled' \in Answers
  BY DEF IsAnswer
<1>3. TypeOK'
  BY <1>1, <1>2 DEF IInv, TypeOK, registry, backend, stopVars
<1>4. AnswersInv'
  BY <1>1, AnswersKept DEF IInv, AnswersInv
<1>5. RegistryInv'
  BY <1>1 DEF IInv, RegistryInv, registry, backend
<1> QED
  BY <1>3, <1>4, <1>5 DEF IInv

LEMMA PollerKeepsIInv ==
  ASSUME IInv, PollerStep \/ Failed \/ Panic
  PROVE  IInv'
<1>1. /\ todo \subseteq known /\ lateRequests \in Nat /\ failures \in 0..MaxFailures
      /\ poller \in PollerPlaces
      /\ poller \in {"checked", "sent"} => polled \in [agent : known]
      /\ poller \notin {"checked", "sent", "answered"} => polled = NoAnswer
  BY DEF IInv, TypeOK
<1>2. CASE Tick \/ LoopEnds \/ Leave
  <2>1. /\ UNCHANGED <<notPoller, todo, polled, lateRequests, failures>>
        /\ poller \in {"select", "loop"} /\ poller' \in {"tick", "select", "done"}
        /\ ~(poller = "done")
    BY <1>2 DEF Tick, LoopEnds, Leave
  <2>2. StopInv'
    BY <2>1 DEF IInv, StopInv, notPoller, stopVars
  <2> QED
    BY <1>1, <2>1, <2>2, PollerMoves DEF PollerPlaces
<1>3. CASE Snapshot
  <2>1. StopInv'
    BY <1>3 DEF Snapshot, IInv, StopInv, notPoller, stopVars
  <2> QED
    BY <1>1, <1>3, <2>1, PollerMoves DEF Snapshot, PollerPlaces
<1>4. ASSUME NEW a \in Agents, Check(a)
      PROVE  IInv'
  <2>1. /\ UNCHANGED <<notPoller, lateRequests, failures>>
        /\ poller = "loop" /\ a \in known
    BY <1>1, <1>4 DEF Check
  <2>2. CASE stopChan
    <3>1. poller' = "select" /\ todo' = {} /\ polled' = polled
      BY <1>4, <2>2 DEF Check
    <3>2. StopInv'
      BY <2>1, <3>1 DEF IInv, StopInv, notPoller, stopVars
    <3> QED
      BY <1>1, <2>1, <3>1, <3>2, PollerMoves DEF PollerPlaces
  <2>3. CASE ~stopChan
    <3>1. poller' = "checked" /\ todo' = todo \ {a} /\ polled' = [agent |-> a]
      BY <1>4, <2>3 DEF Check
    <3>2. StopInv'
      BY <2>1, <2>3, <3>1 DEF IInv, StopInv, notPoller, stopVars
    <3>3. polled' \in [agent : known]
      BY <2>1, <3>1
    <3> QED
      BY <1>1, <2>1, <3>1, <3>2, <3>3, PollerMoves DEF PollerPlaces
  <2> QED
    BY <2>2, <2>3
<1>5. CASE Send
  <2>1. StopInv'
    BY <1>5 DEF Send, IInv, StopInv, notPoller, stopVars
  <2>2. lateRequests' \in Nat
    BY <1>1, <1>5 DEF Send
  <2> QED
    BY <1>1, <1>5, <2>1, <2>2, PollerMoves DEF Send, PollerPlaces
<1>6. CASE Answered
  <2>1. polled.agent \in Agents
    BY <1>1, <1>6 DEF Answered, IInv, TypeOK
  <2>2. IsAnswer(Answer(polled.agent))
    BY <2>1, AnswerIsAnswer DEF IInv
  <2>3. UNCHANGED notPoller /\ polled' = Answer(polled.agent) /\ poller' = "answered"
        /\ UNCHANGED <<todo, lateRequests, failures>>
    BY <1>6 DEF Answered
  <2>4. IsAnswer(polled')
    BY <2>2, <2>3
  <2>5. StopInv'
    BY <1>6 DEF Answered, IInv, StopInv, notPoller, stopVars
  <2> QED
    BY <1>1, <2>3, <2>4, <2>5, PollerMoves DEF PollerPlaces
<1>7. CASE Merged
  <2>1. /\ IsAnswer(polled) /\ Update(polled) /\ poller = "answered"
        /\ poller' = "loop" /\ polled' = NoAnswer
        /\ UNCHANGED <<backend, answer, todo, lateRequests, failures, stopVars>>
    BY <1>7 DEF Merged, IInv, AnswersInv
  <2>2. /\ RegistryInv'
        /\ known \subseteq known' /\ known' \subseteq Agents
        /\ \A a \in Agents : /\ entry'[a].halted \in BOOLEAN
                             /\ entry'[a].revision \in 0..revision
        /\ teamHalted' \in BOOLEAN
        /\ teamRevision' \in 0..revision
        /\ newest' \in [Agents -> 0..revision]
    BY <2>1, UpdateKeeps DEF IInv
  <2>3. TypeOK'
    BY <2>1, <2>2 DEF IInv, TypeOK, PollerPlaces, backend, stopVars
  <2>4. AnswersInv'
    BY <2>1, AnswersKept DEF IInv, AnswersInv
  <2>5. StopInv'
    BY <2>1 DEF IInv, StopInv, stopVars
  <2> QED
    BY <2>2, <2>3, <2>4, <2>5 DEF IInv
<1>8. CASE Failed \/ Panic
  <2>1. /\ UNCHANGED <<notPoller, lateRequests>>
        /\ poller' \in {"loop", "select"} /\ poller # "done"
        /\ polled' = NoAnswer /\ todo' \in {todo, {}}
        /\ failures < MaxFailures /\ failures' = failures + 1
    BY <1>8 DEF Failed, Panic, Fails
  <2>2. failures' \in 0..MaxFailures
    BY <1>1, <2>1, PlaneAssumption
  <2>3. StopInv'
    BY <2>1 DEF IInv, StopInv, notPoller, stopVars
  <2> QED
    BY <1>1, <2>1, <2>2, <2>3, PollerMoves DEF PollerPlaces
<1> QED
  BY <1>2, <1>3, <1>4, <1>5, <1>6, <1>7, <1>8 DEF PollerStep

LEMMA NextKeepsIInv ==
  ASSUME IInv, [Next]_vars
  PROVE  IInv'
<1>1. CASE Stop
  <2>1. /\ ~stopChan /\ stopChan' = TRUE /\ stopped' = "waiting"
        /\ UNCHANGED <<registry, backend, answer, pollerVars>>
    BY <1>1 DEF Stop
  <2>2. TypeOK' /\ RegistryInv' /\ StopInv'
    BY <2>1 DEF IInv, TypeOK, RegistryInv, StopInv, registry, backend, pollerVars
  <2>3. AnswersInv'
    BY <2>1, AnswersKept DEF IInv, AnswersInv, pollerVars
  <2> QED
    BY <2>2, <2>3 DEF IInv
<1>2. CASE StopReturns
  <2>1. /\ stopped' \in {"joined", "timed out"} /\ (stopped' = "joined" => poller = "done")
        /\ UNCHANGED <<registry, backend, answer, pollerVars, stopChan>>
    BY <1>2 DEF StopReturns
  <2>2. TypeOK' /\ RegistryInv' /\ StopInv'
    BY <2>1 DEF IInv, TypeOK, RegistryInv, StopInv, registry, backend, pollerVars
  <2>3. AnswersInv'
    BY <2>1, AnswersKept DEF IInv, AnswersInv, pollerVars
  <2> QED
    BY <2>2, <2>3 DEF IInv
<1>3. CASE UNCHANGED vars
  <2>1. UNCHANGED <<registry, backend, answer, pollerVars, stopVars>>
    BY <1>3 DEF vars
  <2>2. TypeOK' /\ RegistryInv' /\ StopInv'
    BY <2>1 DEF IInv, TypeOK, RegistryInv, StopInv, registry, backend, pollerVars, stopVars
  <2>3. AnswersInv'
    BY <2>1, AnswersKept DEF IInv, AnswersInv, pollerVars
  <2> QED
    BY <2>2, <2>3 DEF IInv
<1> QED
  BY <1>1, <1>2, <1>3, BackendKeepsIInv, OthersKeepIInv, PollerKeepsIInv DEF Next

LEMMA AlwaysIInv == SafeSpec => []IInv
<1>1. Init => IInv
  BY InitIInv
<1>2. IInv /\ [Next]_vars => IInv'
  BY NextKeepsIInv
<1> QED
  BY <1>1, <1>2, PTL DEF SafeSpec

-----------------------------------------------------------------------------
\* Every variable keeps its type.
THEOREM TypeInvariant == SafeSpec => []TypeOK
<1>1. IInv => TypeOK
  BY DEF IInv
<1> QED
  BY <1>1, AlwaysIInv, PTL

\* An agent whose newest answer is as new as the backend is halted if and only if
\* the backend says so, whatever the order in which answers were merged.
THEOREM UpToDate == SafeSpec => []UpToDateIsRight
<1>1. IInv => UpToDateIsRight
  <2> SUFFICES ASSUME IInv, NEW a \in known, newest[a] = revision
               PROVE  IsHalted(a) <=> BackendHalts(a)
    BY DEF UpToDateIsRight
  <2>1. a \in Agents
    BY DEF IInv, TypeOK
  <2>2. /\ entry[a].halted <=> agentHalt[a] /\ ~teamHalt
        /\ teamHalt \/ (teamTouched /\ ~agentHalt[a]) => teamRevision = revision
        /\ teamRevision = revision => (teamHalted <=> teamHalt)
        /\ ~teamTouched => ~teamHalted
    BY <2>1 DEF IInv, RegistryInv
  <2> QED
    BY <2>2 DEF IsHalted, BackendHalts
<1> QED
  BY <1>1, AlwaysIInv, PTL

\* One late request at most, and none that is under way when stop has joined the
\* poller.
THEOREM StoppedIsQuiet == SafeSpec => []StopIsQuiet
<1>1. IInv => StopIsQuiet
  <2> SUFFICES ASSUME IInv
               PROVE  StopIsQuiet
    OBVIOUS
  <2>1. lateRequests <= 1
    BY DEF IInv, StopInv
  <2>2. stopped = "joined" => poller = "done" /\ polled = NoAnswer
    BY DEF IInv, StopInv, TypeOK
  <2> QED
    BY <2>1, <2>2 DEF StopIsQuiet
<1> QED
  BY <1>1, AlwaysIInv, PTL

-----------------------------------------------------------------------------
(***************************************************************************)
(* Why the registry converges.  An agent is settled when an answer as new  *)
(* as the backend has been merged for it.  It stays settled until the      *)
(* backend changes, and a poll that is not overtaken by a change settles   *)
(* its agent.                                                              *)
(***************************************************************************)
Settled(a) == a \in known /\ newest[a] = revision

AgreementLasts ==
  [][revision' = revision =>
       \A a \in Agents : Settled(a) => /\ Settled(a)'
                                       /\ IsHalted(a)' <=> BackendHalts(a)']_vars

PollSettles ==
  [][Merged /\ polled.revision = revision =>
       polled.agent \in known' /\ newest'[polled.agent] = revision']_vars

\* A merge forgets no agent and no revision.
LEMMA UpdateSettles ==
  ASSUME IInv, NEW p, IsAnswer(p), Update(p), revision' = revision
  PROVE  /\ known' = known \cup {p.agent}
         /\ \A a \in Agents : newest[a] = revision => newest'[a] = revision
         /\ p.revision = revision => newest'[p.agent] = revision
<1>1. known' = known \cup {p.agent}
  BY UpdateMerges DEF IInv
<1>2. newest' = [newest EXCEPT ![p.agent] = IF p.revision > @ THEN p.revision ELSE @]
  BY DEF Update
<1>3. p.agent \in Agents /\ p.revision \in Nat /\ p.revision <= revision
  BY AnswersAreTyped DEF IsAnswer
<1>4. revision \in Nat /\ newest \in [Agents -> 0..revision]
  <2>1. revision \in 0..MaxChanges /\ newest \in [Agents -> 0..revision]
    BY DEF IInv, TypeOK
  <2> QED
    BY <2>1, PlaneAssumption
<1>5. newest[p.agent] \in 0..revision
  BY <1>3, <1>4
<1>6. newest'[p.agent] = IF p.revision > newest[p.agent] THEN p.revision ELSE newest[p.agent]
  BY <1>2, <1>3, <1>4
<1>7. p.revision = revision => newest'[p.agent] = revision
  BY <1>3, <1>4, <1>5, <1>6
<1>8. newest[p.agent] = revision => newest'[p.agent] = revision
  BY <1>3, <1>4, <1>5, <1>6
<1>9. \A a \in Agents \ {p.agent} : newest'[a] = newest[a]
  BY <1>2, <1>4
<1> QED
  BY <1>1, <1>7, <1>8, <1>9

\* Only merges and sessions touch the registry while the backend stands still.
LEMMA SettledStays ==
  ASSUME IInv, [Next]_vars, revision' = revision, NEW a \in Agents, Settled(a)
  PROVE  Settled(a)'
<1>1. ASSUME NEW p, IsAnswer(p), Update(p)
      PROVE  Settled(a)'
  BY <1>1, UpdateSettles DEF Settled
<1>2. ASSUME UNCHANGED <<known, newest>>
      PROVE  Settled(a)'
  BY <1>2 DEF Settled
<1>3. ASSUME NEW b \in Agents, HaltAgent(b)
      PROVE  Settled(a)'
  BY <1>2, <1>3 DEF HaltAgent, Change, registry
<1>4. CASE HaltTeam
  BY <1>2, <1>4 DEF HaltTeam, Change, registry
<1>5. ASSUME NEW b \in Agents, RecordSession(b)
      PROVE  Settled(a)'
  BY <1>5 DEF RecordSession, Settled
<1>6. ASSUME NEW c \in Callers, NEW b \in Agents, Receive(c, b)
      PROVE  Settled(a)'
  BY <1>2, <1>6 DEF Receive, registry
<1>7. ASSUME NEW c \in Callers, Deliver(c)
      PROVE  Settled(a)'
  <2>1. IsAnswer(answer[c])
    BY <1>7 DEF Deliver, IInv, AnswersInv
  <2> QED
    BY <1>1, <1>2, <1>7, <2>1 DEF Deliver, registry
<1>8. CASE Merged
  <2>1. IsAnswer(polled)
    BY <1>8 DEF Merged, IInv, AnswersInv
  <2> QED
    BY <1>1, <1>8, <2>1 DEF Merged
<1>9. CASE UNCHANGED registry
  BY <1>2, <1>9 DEF registry
<1>10. ASSUME PollerStep \/ Failed \/ Panic \/ Stop \/ StopReturns \/ UNCHANGED vars, ~Merged
       PROVE  UNCHANGED registry
  BY <1>10
     DEF PollerStep, Tick, Snapshot, Check, Send, Answered, LoopEnds, Leave, Failed, Panic,
         Stop, StopReturns, notPoller, vars
<1> QED
  BY <1>3, <1>4, <1>5, <1>6, <1>7, <1>8, <1>9, <1>10 DEF Next

\* An agent on which registry and backend agree stays so, whatever answers come
\* late, until the backend changes; and a poll that no change overtakes makes
\* them agree.
THEOREM AgreementIsStable == SafeSpec => AgreementLasts /\ PollSettles
<1>1. ASSUME IInv, IInv', [Next]_vars, revision' = revision, NEW a \in Agents, Settled(a)
      PROVE  Settled(a)' /\ (IsHalted(a)' <=> BackendHalts(a)')
  <2>1. Settled(a)'
    BY <1>1, SettledStays
  <2>2. /\ entry'[a].halted <=> agentHalt'[a] /\ ~teamHalt'
        /\ teamHalt' \/ (teamTouched' /\ ~agentHalt'[a]) => teamRevision' = revision'
        /\ teamRevision' = revision' => (teamHalted' <=> teamHalt')
        /\ ~teamTouched' => ~teamHalted'
    BY <1>1, <2>1 DEF IInv, RegistryInv, Settled
  <2> QED
    BY <2>1, <2>2 DEF IsHalted, BackendHalts, Settled
<1>2. ASSUME IInv, Merged, polled.revision = revision
      PROVE  polled.agent \in known' /\ newest'[polled.agent] = revision'
  <2>1. IsAnswer(polled) /\ Update(polled) /\ revision' = revision
    BY <1>2 DEF Merged, IInv, AnswersInv, backend
  <2> QED
    BY <1>2, <2>1, UpdateSettles
<1>3. IInv /\ IInv' /\ [Next]_vars =>
        [revision' = revision =>
           \A a \in Agents : Settled(a) => /\ Settled(a)'
                                           /\ IsHalted(a)' <=> BackendHalts(a)']_vars
  BY <1>1
<1>4. IInv /\ [Next]_vars =>
        [Merged /\ polled.revision = revision =>
           polled.agent \in known' /\ newest'[polled.agent] = revision']_vars
  BY <1>2
<1> QED
  BY <1>3, <1>4, AlwaysIInv, PTL DEF SafeSpec, AgreementLasts, PollSettles
=============================================================================
