---------------------------- MODULE ControlPlane ----------------------------
(***************************************************************************)
(* How the SDK follows the halts that the backend decides on: the backend, *)
(* the control poller (control_poller.go), and the answers that bring      *)
(* control payloads into the registry.                                     *)
(*                                                                         *)
(* An answer is made by the backend at one moment and merged by Update at  *)
(* a later one; the backend may change in between, and the answers of      *)
(* other goroutines may overtake it.  The merge is that of ControlRegistry.*)
(***************************************************************************)
EXTENDS Integers, FiniteSets

CONSTANTS
  Agents,        \* agent names, the empty name excluded
  NoAgent,       \* the empty agent name
  Callers,       \* goroutines that post batches or call GetAgentControl
  MaxChanges,    \* bound of the model: changes of the backend
  MaxFailures    \* bound of the model: polls that fail or panic

ASSUME PlaneAssumption ==
  /\ NoAgent \notin Agents
  /\ MaxChanges \in Nat
  /\ MaxFailures \in Nat

VARIABLES
  known, entry, teamHalted, teamRevision,   \* the registry: see ControlRegistry
  agentHalt,     \* backend: agentHalt[a]: a has been halted by itself
  teamHalt,      \* backend: the team is halted
  teamTouched,   \* backend: the team has been halted at some time
  revision,      \* backend: the number of its changes, sent with every answer
  answer,        \* answer[c]: an answer that c has received and not yet merged
  poller,        \* where the poller's goroutine is
  todo,          \* the agents of KnownAgents that its tick has not come to
  polled,        \* the agent it polls, and the answer when it has one
  stopChan,      \* stopChan has been closed
  stopped,       \* how stop has ended: "no", "waiting", "joined", "timed out"
  newest,        \* history: newest[a]: the highest revision merged for a
  lateRequests,  \* history: requests the poller has begun since the close
  failures       \* history: its polls that failed or panicked

registry == <<known, entry, teamHalted, teamRevision, newest>>
backend == <<agentHalt, teamHalt, teamTouched, revision>>
pollerVars == <<poller, todo, polled, lateRequests, failures>>
stopVars == <<stopChan, stopped>>
notPoller == <<registry, backend, answer, stopVars>>
vars == <<registry, backend, answer, pollerVars, stopVars>>

Answers == [agent : Agents, halted : BOOLEAN, source : {"none", "agent", "team"},
            revision : 0..MaxChanges, require : {""}, ttl : {0}]

NoAnswer == [agent |-> NoAgent]

Registry == INSTANCE ControlRegistry WITH
  Payloads <- Answers, Sessions <- {}, NoSession <- NoAgent, RecordTTLs <- {},
  Checkers <- {}, Second <- 1000, MaxDelivered <- 0, MaxTime <- 0,
  now <- 0, checking <- {}, delivered <- {}, recorded <- {}, attached <- {}

Init ==
  /\ known = {}
  /\ entry = [a \in Agents |-> Registry!NewEntry]
  /\ teamHalted = FALSE
  /\ teamRevision = 0
  /\ agentHalt = [a \in Agents |-> FALSE]
  /\ teamHalt = FALSE
  /\ teamTouched = FALSE
  /\ revision = 0
  /\ answer = [c \in Callers |-> NoAnswer]
  /\ poller = "select"
  /\ todo = {}
  /\ polled = NoAnswer
  /\ stopChan = FALSE
  /\ stopped = "no"
  /\ newest = [a \in Agents |-> 0]
  /\ lateRequests = 0
  /\ failures = 0

-----------------------------------------------------------------------------
(***************************************************************************)
(* The backend.  Every change has a revision of its own.  Only an answer   *)
(* whose source is the team can move the team's flag in the registry, so a *)
(* team that has been released is reported with that source too.           *)
(***************************************************************************)
BackendHalts(a) == teamHalt \/ agentHalt[a]

Answer(a) ==
  [agent |-> a, halted |-> BackendHalts(a), revision |-> revision, require |-> "", ttl |-> 0,
   source |-> IF teamHalt \/ (teamTouched /\ ~agentHalt[a]) THEN "team"
              ELSE IF agentHalt[a] THEN "agent" ELSE "none"]

Change ==
  /\ revision < MaxChanges                          \* bound of the model
  /\ revision' = revision + 1
  /\ UNCHANGED <<registry, answer, pollerVars, stopVars>>

HaltAgent(a) ==
  /\ Change
  /\ agentHalt' = [agentHalt EXCEPT ![a] = ~@]
  /\ UNCHANGED <<teamHalt, teamTouched>>

HaltTeam ==
  /\ Change
  /\ teamHalt' = ~teamHalt
  /\ teamTouched' = TRUE
  /\ UNCHANGED agentHalt

-----------------------------------------------------------------------------
(***************************************************************************)
(* Everybody else who feeds the registry: the worker and Flush, whose      *)
(* batches are answered with the control of an agent, the application that *)
(* calls GetAgentControl, and a guardrail check, which creates an entry.   *)
(***************************************************************************)
Update(p) ==
  /\ Registry!UpdateTeam(p)
  /\ Registry!UpdateAgent(p)
  /\ newest' = [newest EXCEPT ![p.agent] = IF p.revision > @ THEN p.revision ELSE @]

Receive(c, a) ==
  /\ answer[c] = NoAnswer
  /\ answer' = [answer EXCEPT ![c] = Answer(a)]
  /\ UNCHANGED <<registry, backend, pollerVars, stopVars>>

\* The answer is merged, or its body could not be read or parsed.
Deliver(c) ==
  /\ answer[c] # NoAnswer
  /\ Update(answer[c]) \/ UNCHANGED registry
  /\ answer' = [answer EXCEPT ![c] = NoAnswer]
  /\ UNCHANGED <<backend, pollerVars, stopVars>>

RecordSession(a) ==
  /\ a \notin known
  /\ known' = known \cup {a}
  /\ UNCHANGED <<entry, teamHalted, teamRevision, newest, backend, answer, pollerVars, stopVars>>

-----------------------------------------------------------------------------
(***************************************************************************)
(* The poller's goroutine.                                                 *)
(***************************************************************************)
\* The ticker's case of the select, which may win after stopChan has closed.
Tick ==
  /\ poller = "select"
  /\ poller' = "tick"
  /\ UNCHANGED <<notPoller, todo, polled, lateRequests, failures>>

\* apiFunc, which is Client.Api and never nil, then KnownAgents.
Snapshot ==
  /\ poller = "tick"
  /\ poller' = "loop"
  /\ todo' = known
  /\ UNCHANGED <<notPoller, polled, lateRequests, failures>>

\* Mutant of Check: the loop does not look at stopChan.
CheckNot(a) ==
  /\ poller = "loop"
  /\ a \in todo
  /\ poller' = "checked"
  /\ todo' = todo \ {a}
  /\ polled' = [agent |-> a]
  /\ UNCHANGED <<notPoller, lateRequests, failures>>

\* The next agent, in the order of a map; with stopChan closed the tick ends.
Check(a) ==
  /\ poller = "loop"
  /\ a \in todo
  /\ IF stopChan
       THEN poller' = "select" /\ todo' = {} /\ UNCHANGED polled
       ELSE poller' = "checked" /\ todo' = todo \ {a} /\ polled' = [agent |-> a]
  /\ UNCHANGED <<notPoller, lateRequests, failures>>

\* GetAgentControl begins its request.
Send ==
  /\ poller = "checked"
  /\ poller' = "sent"
  /\ lateRequests' = lateRequests + (IF stopChan THEN 1 ELSE 0)
  /\ UNCHANGED <<notPoller, todo, polled, failures>>

Answered ==
  /\ poller = "sent"
  /\ poller' = "answered"
  /\ polled' = Answer(polled.agent)
  /\ UNCHANGED <<notPoller, todo, lateRequests, failures>>

Merged ==
  /\ poller = "answered"
  /\ Update(polled)
  /\ poller' = "loop"
  /\ polled' = NoAnswer
  /\ UNCHANGED <<backend, answer, todo, lateRequests, failures, stopVars>>

Fails ==
  /\ failures < MaxFailures                         \* bound of the model
  /\ failures' = failures + 1

\* No answer in time, another status than 2xx, or a body that is no payload: an
\* error is logged and the loop goes on.
Failed ==
  /\ poller \in {"sent", "answered"}
  /\ Fails
  /\ poller' = "loop"
  /\ polled' = NoAnswer
  /\ UNCHANGED <<notPoller, todo, lateRequests>>

LoopEnds ==
  /\ poller = "loop"
  /\ todo = {}
  /\ poller' = "select"
  /\ UNCHANGED <<notPoller, todo, polled, lateRequests, failures>>

\* Mutant of Panic: nobody recovers, the goroutine is gone.
PanicKills ==
  /\ poller \in {"tick", "checked", "sent"}
  /\ Fails
  /\ poller' = "dead"
  /\ UNCHANGED <<notPoller, todo, polled, lateRequests>>

\* A panic in apiFunc or in GetAgentControl is recovered and ends the tick.
Panic ==
  /\ poller \in {"tick", "checked", "sent"}
  /\ Fails
  /\ poller' = "select"
  /\ todo' = {}
  /\ polled' = NoAnswer
  /\ UNCHANGED <<notPoller, lateRequests>>

\* The other case of the select; run returns and doneChan is closed.
Leave ==
  /\ poller = "select"
  /\ stopChan
  /\ poller' = "done"
  /\ UNCHANGED <<notPoller, todo, polled, lateRequests, failures>>

-----------------------------------------------------------------------------
\* stop, called once, by Client.Close: a second call does nothing.
Stop ==
  /\ ~stopChan
  /\ stopChan' = TRUE
  /\ stopped' = "waiting"
  /\ UNCHANGED <<registry, backend, answer, pollerVars>>

StopReturns ==
  /\ stopped = "waiting"
  /\ \/ poller = "done" /\ stopped' = "joined"
     \/ stopped' = "timed out"
  /\ UNCHANGED <<registry, backend, answer, pollerVars, stopChan>>

PollerStep ==
  \/ Tick \/ Snapshot \/ Send \/ Answered \/ Merged \/ LoopEnds \/ Leave
  \/ \E a \in Agents : Check(a)

Next ==
  \/ \E a \in Agents : HaltAgent(a) \/ RecordSession(a)
  \/ HaltTeam
  \/ \E c \in Callers, a \in Agents : Receive(c, a)
  \/ \E c \in Callers : Deliver(c)
  \/ PollerStep
  \/ Failed \/ Panic
  \/ Stop
  \/ StopReturns

SafeSpec == Init /\ [][Next]_vars

\* The poller's goroutine is scheduled, its ticker ticks and its request ends, by
\* the timeout if by nothing else.  Failures are transient: finitely many.
Spec == SafeSpec /\ WF_vars(PollerStep)

-----------------------------------------------------------------------------
IsHalted(a) == teamHalted \/ (a \in known /\ entry[a].halted)

PollerPlaces == {"select", "tick", "loop", "checked", "sent", "answered", "done"}

\* Every variable has its type; the poller has an agent in hand exactly while
\* GetAgentControl runs (control_poller.go:85).
TypeOK ==
  /\ known \subseteq Agents
  /\ \A a \in Agents : /\ entry[a].halted \in BOOLEAN
                       /\ entry[a].revision \in 0..revision
  /\ teamHalted \in BOOLEAN
  /\ teamRevision \in 0..revision
  /\ agentHalt \in [Agents -> BOOLEAN]
  /\ teamHalt \in BOOLEAN /\ teamTouched \in BOOLEAN
  /\ revision \in 0..MaxChanges
  /\ answer \in [Callers -> Answers \cup {NoAnswer}]
  /\ poller \in PollerPlaces
  /\ todo \subseteq known
  /\ CASE poller \in {"checked", "sent"} -> polled \in [agent : known]
       [] poller = "answered" -> polled \in Answers
       [] OTHER -> polled = NoAnswer
  /\ stopChan \in BOOLEAN
  /\ stopped \in {"no", "waiting", "joined", "timed out"}
  /\ newest \in [Agents -> 0..revision]
  /\ lateRequests \in Nat
  /\ failures \in 0..MaxFailures

\* Once an answer as new as the backend's last change has been merged for an
\* agent, the registry halts it if and only if the backend does, although the
\* team's flag is shared and moved by the answers for all agents, in any order
\* (control.go:169, 190).
UpToDateIsRight ==
  \A a \in known : newest[a] = revision => (IsHalted(a) <=> BackendHalts(a))

\* After the close of stopChan the poller begins one more request at most, the
\* one it had checked for; and when stop has joined it, none is under way and no
\* answer of it is still to be merged (control_poller.go:42, 80).
StopIsQuiet ==
  /\ lateRequests <= 1
  /\ stopped = "joined" => poller = "done" /\ polled = NoAnswer

\* When the backend has made its last change, the registry comes to agree with
\* it about every agent that has an entry, without any telemetry, unless the
\* client is closed first (control_poller.go:9).
Converges ==
  <>[](stopChan \/ \A a \in known : IsHalted(a) <=> BackendHalts(a))
=============================================================================
