-------------------------- MODULE ControlRegistry --------------------------
(***************************************************************************)
(* ControlRegistry (control.go) and the two ways the API client feeds it   *)
(* (api.go): control payloads, which arrive through telemetry responses    *)
(* and polls in any order, any number of times or never, and guardrail     *)
(* sessions, which expire.                                                 *)
(*                                                                         *)
(* One mutex protects the registry, so each of its methods is one step.    *)
(* CheckGuardrails is two: it reads the TTL with Snapshot and records the  *)
(* session later.  The two methods that look at the clock do so just       *)
(* before they take the mutex; here it is part of their step.  The halt    *)
(* reason goes wherever the halted flag goes and is left out.              *)
(***************************************************************************)
EXTENDS Integers, FiniteSets

CONSTANTS
  Agents,        \* agent names, the empty name excluded
  NoAgent,       \* the empty agent name
  Payloads,      \* the control payloads the backend may send
  Sessions,      \* guardrail session ids, the empty id excluded
  NoSession,     \* the empty session id
  RecordTTLs,    \* seconds a caller of RecordGuardrailSession may ask for
  Checkers,      \* goroutines that call CheckGuardrails
  Second,        \* milliseconds in a second: 1000 in the code
  MaxDelivered,  \* bound of the model: different payloads delivered
  MaxTime        \* bound of the model: the clock stops here

MaxTTL == 86400
DefaultTTL == 300
Sources == {"none", "agent", "team"}

Payload == [agent : Agents \cup {NoAgent}, halted : BOOLEAN,
            source : Sources \cup {""}, revision : Nat,
            require : {"", "off", "hard", "OFF", "SOFT", "HARD"}, ttl : Int]

ASSUME RegistryAssumption ==
  /\ NoAgent \notin Agents
  /\ Payloads \subseteq Payload
  /\ NoSession \notin Sessions
  /\ RecordTTLs \subseteq Int
  /\ Second \in Nat \ {0}
  /\ MaxDelivered \in Nat
  /\ MaxTime \in Nat

VARIABLES
  known,         \* the keys of ControlRegistry.agents
  entry,         \* entry[a]: its agentControlEntry; the defaults while unknown
  teamHalted,
  teamRevision,
  now,           \* time.Now().UnixMilli()
  checking,      \* checking[c]: what CheckGuardrails of c is about to record
  delivered,     \* history: the payloads Update has been called with
  recorded,      \* history: recorded[a]: the last session recorded for a
  attached       \* history: attached[a]: what the last trace of a took, and when

policyVars == <<known, entry, teamHalted, teamRevision>>
historyVars == <<delivered, recorded, attached>>
vars == <<policyVars, now, checking, historyVars>>

NewEntry == [halted |-> FALSE, source |-> "none", revision |-> 0, require |-> "OFF",
             ttl |-> DefaultTTL, session |-> NoSession, expires |-> 0]

NoCheck == [agent |-> NoAgent, session |-> NoSession, ttl |-> 0]
NoRecord == [session |-> NoSession, at |-> 0, ttl |-> 0]

Init ==
  /\ known = {}
  /\ entry = [a \in Agents |-> NewEntry]
  /\ teamHalted = FALSE
  /\ teamRevision = 0
  /\ now = 0
  /\ checking = [c \in Checkers |-> NoCheck]
  /\ delivered = {}
  /\ recorded = [a \in Agents |-> NoRecord]
  /\ attached = [a \in Agents |-> [session |-> NoSession, at |-> 0]]

-----------------------------------------------------------------------------
(***************************************************************************)
(* Update.                                                                 *)
(***************************************************************************)
SourceOf(p) == IF p.source = "" THEN "none" ELSE p.source

\* strings.ToUpper on the values of the policy.
Upper(r) == CASE r = "off" -> "OFF" [] r = "hard" -> "HARD" [] OTHER -> r

HaltsAgent(p) == p.halted /\ SourceOf(p) # "team"

\* Mutant of Merge: the policy is stored as the backend spelt it.
MergeVerbatim(old, p) ==
  [old EXCEPT !.halted = HaltsAgent(p), !.source = SourceOf(p), !.revision = p.revision,
              !.require = IF p.require # "" THEN p.require ELSE @,
              !.ttl = IF p.ttl \in 1..MaxTTL THEN p.ttl ELSE @]

\* The part of Update that follows the test for a stale revision.
Merge(old, p) ==
  [old EXCEPT !.halted = HaltsAgent(p), !.source = SourceOf(p), !.revision = p.revision,
              !.require = IF p.require # "" THEN Upper(p.require) ELSE @,
              !.ttl = IF p.ttl \in 1..MaxTTL THEN p.ttl ELSE @]

\* Mutant of UpdateTeam: any payload may move the team flag.
UpdateTeamFromAnySource(p) ==
  IF p.revision >= teamRevision
    THEN teamHalted' = p.halted /\ teamRevision' = p.revision
    ELSE UNCHANGED <<teamHalted, teamRevision>>

UpdateTeam(p) ==
  IF SourceOf(p) = "team" /\ p.revision >= teamRevision
    THEN teamHalted' = p.halted /\ teamRevision' = p.revision
    ELSE UNCHANGED <<teamHalted, teamRevision>>

\* Mutant of UpdateAgent: a stale revision is merged as well.
UpdateAgentStale(p) ==
  IF p.agent = NoAgent
    THEN UNCHANGED <<known, entry>>
    ELSE /\ known' = known \cup {p.agent}
         /\ entry' = [entry EXCEPT ![p.agent] = Merge(@, p)]

\* A blank name returns; a stale revision returns after creating the entry.
UpdateAgent(p) ==
  IF p.agent = NoAgent
    THEN UNCHANGED <<known, entry>>
    ELSE /\ known' = known \cup {p.agent}
         /\ entry' = [entry EXCEPT ![p.agent] =
                        IF p.revision < @.revision THEN @ ELSE Merge(@, p)]

Update(p) ==
  /\ Cardinality(delivered \cup {p}) <= MaxDelivered      \* bound of the model
  /\ UpdateTeam(p)
  /\ UpdateAgent(p)
  /\ delivered' = delivered \cup {p}
  /\ UNCHANGED <<now, checking, recorded, attached>>

-----------------------------------------------------------------------------
(***************************************************************************)
(* Guardrail sessions.                                                     *)
(***************************************************************************)
\* The TTL that Snapshot reports, for an unknown agent the default.
SnapshotTTL(a) == entry[a].ttl

\* Mutant of Lifetime: a TTL that is not positive is taken as it is.
LifetimeUnclamped(ttl) == ttl

Lifetime(ttl) == IF ttl <= 0 THEN 1 ELSE ttl

\* Mutant of Expiry: the TTL is taken for milliseconds.
ExpiryInMilliseconds(ttl) == now + Lifetime(ttl)

Expiry(ttl) == now + Lifetime(ttl) * Second

\* RecordGuardrailSession: an unknown agent gets an entry whose TTL is the
\* session's.
WithSession(a, s, ttl) ==
  [entry[a] EXCEPT !.session = s, !.expires = Expiry(ttl),
                   !.ttl = IF a \in known THEN @ ELSE Lifetime(ttl)]

Record(a, s, ttl) ==
  /\ known' = known \cup {a}
  /\ entry' = [entry EXCEPT ![a] = WithSession(a, s, ttl)]
  /\ recorded' = [recorded EXCEPT ![a] =
       [session |-> s, at |-> now, ttl |-> Lifetime(ttl)]]

\* The application records a session of its own.
RecordGuardrailSession(a, s, ttl) ==
  /\ Record(a, s, ttl)
  /\ UNCHANGED <<teamHalted, teamRevision, now, checking, delivered, attached>>

\* CheckGuardrails has its response, with a session id, and reads the TTL.
CheckGuardrails(c, a, s) ==
  /\ checking[c] = NoCheck
  /\ checking' = [checking EXCEPT ![c] =
                    [agent |-> a, session |-> s, ttl |-> SnapshotTTL(a)]]
  /\ UNCHANGED <<policyVars, now, historyVars>>

CheckRecords(c) ==
  /\ checking[c] # NoCheck
  /\ Record(checking[c].agent, checking[c].session, checking[c].ttl)
  /\ checking' = [checking EXCEPT ![c] = NoCheck]
  /\ UNCHANGED <<teamHalted, teamRevision, now, delivered, attached>>

Attachment(s) == [session |-> s, at |-> now]

Forget(e) == [e EXCEPT !.session = NoSession, !.expires = 0]

\* Mutant of TakeGuardrailSession: > in place of >= in the test for expiry.
TakeOneLate(a) ==
  /\ IF now > entry[a].expires
       THEN /\ entry' = [entry EXCEPT ![a] = Forget(@)]
            /\ attached' = [attached EXCEPT ![a] = Attachment(NoSession)]
       ELSE /\ attached' = [attached EXCEPT ![a] = Attachment(entry[a].session)]
            /\ UNCHANGED entry
  /\ UNCHANGED <<known, teamHalted, teamRevision, now, checking, delivered, recorded>>

\* The session is not consumed by being taken; an expired one is forgotten.
TakeGuardrailSession(a) ==
  /\ IF entry[a].session # NoSession /\ now >= entry[a].expires
       THEN /\ entry' = [entry EXCEPT ![a] = Forget(@)]
            /\ attached' = [attached EXCEPT ![a] = Attachment(NoSession)]
       ELSE /\ attached' = [attached EXCEPT ![a] = Attachment(entry[a].session)]
            /\ UNCHANGED entry
  /\ UNCHANGED <<known, teamHalted, teamRevision, now, checking, delivered, recorded>>

Tick ==
  /\ now < MaxTime                                        \* bound of the model
  /\ now' = now + 1
  /\ UNCHANGED <<policyVars, checking, historyVars>>

-----------------------------------------------------------------------------
Next ==
  \/ \E p \in Payloads : Update(p)
  \/ \E a \in Agents, s \in Sessions, ttl \in RecordTTLs : RecordGuardrailSession(a, s, ttl)
  \/ \E c \in Checkers, a \in Agents, s \in Sessions : CheckGuardrails(c, a, s)
  \/ \E c \in Checkers : CheckRecords(c)
  \/ \E a \in Agents : TakeGuardrailSession(a)
  \/ Tick

Spec == Init /\ [][Next]_vars

-----------------------------------------------------------------------------
Entry == [halted : BOOLEAN, source : Sources, revision : Nat,
          require : {"OFF", "SOFT", "HARD"}, ttl : Nat \ {0},
          session : Sessions \cup {NoSession}, expires : Nat]

\* Every variable has its type; in particular every TTL in force is positive,
\* whatever the backend or the application passes (control.go:204, 220).
TypeOK ==
  /\ known \subseteq Agents
  /\ entry \in [Agents -> Entry]
  /\ teamHalted \in BOOLEAN
  /\ teamRevision \in Nat
  /\ now \in Nat
  /\ checking \in [Checkers -> [agent : Agents, session : Sessions, ttl : Nat \ {0}]
                                 \cup {NoCheck}]
  /\ delivered \subseteq Payloads
  /\ recorded \in [Agents -> [session : Sessions, at : Nat, ttl : Nat \ {0}]
                               \cup {NoRecord}]
  /\ attached \in [Agents -> [session : Sessions \cup {NoSession}, at : Nat]]

PayloadsOf(a) == {p \in delivered : p.agent = a}
TeamPayloads == {p \in delivered : SourceOf(p) = "team"}
Newest(S) == {p \in S : \A q \in S : q.revision <= p.revision}

\* The halt state of an agent is that of a payload with the highest revision
\* among all that were ever delivered for it, in whatever order they came
\* (control.go:153).
AgentFollowsNewest ==
  \A a \in Agents :
    \/ /\ PayloadsOf(a) = {}
       /\ ~entry[a].halted
       /\ entry[a].revision = 0
    \/ \E p \in Newest(PayloadsOf(a)) :
         /\ entry[a].halted = HaltsAgent(p)
         /\ entry[a].source = SourceOf(p)
         /\ entry[a].revision = p.revision

\* So is the halt state of the team among the payloads whose source is the
\* team: a late agent payload cannot lift a team halt (control.go:169).
TeamFollowsNewest ==
  \/ /\ TeamPayloads = {}
     /\ ~teamHalted
     /\ teamRevision = 0
  \/ \E p \in Newest(TeamPayloads) :
       /\ teamHalted = p.halted
       /\ teamRevision = p.revision

\* Together: nobody is halted, or running, because of the order in which payloads
\* came (control.go:169, 190).
HaltsFollowNewest == AgentFollowsNewest /\ TeamFollowsNewest

\* The guardrail policy is the newest one too, as long as every payload of the
\* agent carries one (control.go:200).
PolicyFollowsNewest ==
  \A a \in Agents :
    PayloadsOf(a) # {} /\ (\A p \in PayloadsOf(a) : p.require # "") =>
      \E p \in Newest(PayloadsOf(a)) : entry[a].require = Upper(p.require)

\* The session in the registry is the last one recorded for that agent, with
\* the lifetime it was recorded with: no payload, no other agent and no take
\* shortens it, extends it or brings back an older one.
SessionIsLastRecorded ==
  \A a \in Agents :
    LET last == recorded[a]
        until == last.at + last.ttl * Second IN
    \/ entry[a].session = last.session /\ (last # NoRecord => entry[a].expires = until)
    \/ entry[a].session = NoSession /\ now >= until

\* A trace only attaches a session that was recorded for its own agent and is
\* still within its TTL at that moment (control.go:238).
AttachedWithinTTL ==
  [][\A a \in Agents :
       attached'[a] # attached[a] /\ attached'[a].session # NoSession =>
         /\ attached'[a].session = recorded[a].session
         /\ now < recorded[a].at + recorded[a].ttl * Second]_vars
=============================================================================
