----------------------- MODULE ControlRegistryProofs -----------------------
(***************************************************************************)
(* Proofs about ControlRegistry for every set of agents, payloads and      *)
(* sessions: the halt state follows the newest payload whatever the order  *)
(* of delivery, and sessions live exactly as long as they were recorded    *)
(* for.                                                                    *)
(***************************************************************************)
EXTENDS ControlRegistry, TLAPS

\* The constants of a payload.
LEMMA PayloadType ==
  ASSUME NEW p \in Payloads
  PROVE  /\ p \in Payload
         /\ p.agent \in Agents \cup {NoAgent}
         /\ p.halted \in BOOLEAN
         /\ p.revision \in Nat
         /\ SourceOf(p) \in Sources
BY RegistryAssumption DEF Payload, SourceOf, Sources

\* A merged entry is an entry: the policy is upper case, the TTL positive.
LEMMA MergeType ==
  ASSUME NEW old \in Entry, NEW p \in Payloads
  PROVE  /\ Merge(old, p) \in Entry
         /\ Merge(old, p).halted = HaltsAgent(p)
         /\ Merge(old, p).source = SourceOf(p)
         /\ Merge(old, p).revision = p.revision
         /\ p.require # "" => Merge(old, p).require = Upper(p.require)
         /\ Merge(old, p).session = old.session
         /\ Merge(old, p).expires = old.expires
<1>1. HaltsAgent(p) \in BOOLEAN
  BY PayloadType DEF HaltsAgent
<1>2. p.require # "" => Upper(p.require) \in {"OFF", "SOFT", "HARD"}
  BY PayloadType DEF Payload, Upper
<1>3. p.ttl \in 1..MaxTTL => p.ttl \in Nat \ {0}
  <2>1. \A n \in 1..MaxTTL : n \in Nat \ {0}
    <3>1. MaxTTL \in Nat
      BY DEF MaxTTL
    <3> QED
      BY <3>1
  <2> QED
    BY <2>1
<1> QED
  BY <1>1, <1>2, <1>3, PayloadType DEF Merge, Entry

-----------------------------------------------------------------------------
(***************************************************************************)
(* Types.                                                                  *)
(***************************************************************************)
LEMMA InitTypeOK ==
  ASSUME Init
  PROVE  TypeOK
<1>1. NewEntry \in Entry
  BY DEF NewEntry, Entry, DefaultTTL, Sources
<1> QED
  BY <1>1 DEF Init, TypeOK

\* Recording gives a positive lifetime to the session and keeps every TTL.
LEMMA RecordType ==
  ASSUME TypeOK, NEW a \in Agents, NEW s \in Sessions, NEW ttl \in Int, Record(a, s, ttl)
  PROVE  /\ known' \subseteq Agents
         /\ entry' \in [Agents -> Entry]
         /\ recorded' \in [Agents -> [session : Sessions, at : Nat, ttl : Nat \ {0}]
                                      \cup {NoRecord}]
<1>1. Lifetime(ttl) \in Nat \ {0}
  BY DEF Lifetime
<1>2. Expiry(ttl) \in Nat
  <2>1. Lifetime(ttl) * Second \in Nat
    BY <1>1, RegistryAssumption
  <2> QED
    BY <2>1 DEF Expiry, TypeOK
<1>3. entry[a] \in Entry
  BY DEF TypeOK
<1>4. WithSession(a, s, ttl) \in Entry
  BY <1>1, <1>2, <1>3 DEF Entry, WithSession
<1>5. entry' \in [Agents -> Entry]
  BY <1>4 DEF Record, TypeOK
<1> QED
  BY <1>1, <1>5 DEF Record, TypeOK

LEMMA NextKeepsTypeOK ==
  ASSUME TypeOK, [Next]_vars
  PROVE  TypeOK'
<1>1. ASSUME NEW p \in Payloads, Update(p)
      PROVE  TypeOK'
  <2>1. teamHalted' \in BOOLEAN /\ teamRevision' \in Nat
    BY <1>1, PayloadType DEF Update, UpdateTeam, TypeOK
  <2>2. known' \subseteq Agents /\ entry' \in [Agents -> Entry]
    <3>1. CASE p.agent = NoAgent
      BY <1>1, <3>1 DEF Update, UpdateAgent, TypeOK
    <3>2. CASE p.agent # NoAgent
      <4>1. p.agent \in Agents /\ entry[p.agent] \in Entry
        BY <3>2, PayloadType DEF TypeOK
      <4>2. Merge(entry[p.agent], p) \in Entry
        BY <4>1, MergeType
      <4> QED
        BY <1>1, <3>2, <4>1, <4>2 DEF Update, UpdateAgent, TypeOK
    <3> QED
      BY <3>1, <3>2
  <2> QED
    BY <1>1, <2>1, <2>2 DEF Update, TypeOK
<1>2. ASSUME NEW a \in Agents, NEW s \in Sessions, NEW ttl \in RecordTTLs,
             RecordGuardrailSession(a, s, ttl)
      PROVE  TypeOK'
  <2>1. ttl \in Int
    BY RegistryAssumption
  <2> QED
    BY <1>2, <2>1, RecordType DEF RecordGuardrailSession, TypeOK
<1>3. ASSUME NEW c \in Checkers, NEW a \in Agents, NEW s \in Sessions,
             CheckGuardrails(c, a, s)
      PROVE  TypeOK'
  <2>1. entry[a].ttl \in Nat \ {0}
    BY DEF TypeOK, Entry
  <2> QED
    BY <1>3, <2>1
       DEF CheckGuardrails, SnapshotTTL, TypeOK, policyVars, historyVars
<1>4. ASSUME NEW c \in Checkers, CheckRecords(c)
      PROVE  TypeOK'
  <2>1. checking[c] \in [agent : Agents, session : Sessions, ttl : Nat \ {0}]
    BY <1>4 DEF CheckRecords, TypeOK
  <2>2. /\ known' \subseteq Agents
        /\ entry' \in [Agents -> Entry]
        /\ recorded' \in [Agents -> [session : Sessions, at : Nat, ttl : Nat \ {0}]
                                     \cup {NoRecord}]
    BY <1>4, <2>1, RecordType DEF CheckRecords
  <2> QED
    BY <1>4, <2>2 DEF CheckRecords, TypeOK
<1>5. ASSUME NEW a \in Agents, TakeGuardrailSession(a)
      PROVE  TypeOK'
  <2>1. entry[a] \in Entry /\ Forget(entry[a]) \in Entry /\ now \in Nat
    BY DEF TypeOK, Entry, Forget
  <2>2. Attachment(NoSession) \in [session : Sessions \cup {NoSession}, at : Nat]
    BY <2>1 DEF Attachment
  <2>3. Attachment(entry[a].session) \in [session : Sessions \cup {NoSession}, at : Nat]
    BY <2>1 DEF Attachment, Entry
  <2> QED
    BY <1>5, <2>1, <2>2, <2>3 DEF TakeGuardrailSession, TypeOK
<1>6. CASE Tick
  BY <1>6 DEF Tick, TypeOK, policyVars, historyVars
<1>7. CASE UNCHANGED vars
  BY <1>7 DEF vars, policyVars, historyVars, TypeOK
<1> QED
  BY <1>1, <1>2, <1>3, <1>4, <1>5, <1>6, <1>7 DEF Next
-----------------------------------------------------------------------------
(***************************************************************************)
(* The newest payload wins.  An entry's revision is the highest one that   *)
(* was delivered for it, so the test for a stale revision compares a       *)
(* payload with all of them.                                               *)
(***************************************************************************)
\* A payload at least as new as the newest one becomes the newest.
LEMMA NewestAdded ==
  ASSUME NEW S, NEW p, \A q \in S : q.revision \in Nat, p.revision \in Nat,
         \/ S = {}
         \/ \E q \in Newest(S) : q.revision <= p.revision
  PROVE  p \in Newest(S \cup {p})
BY DEF Newest

\* An older payload leaves the newest one where it is.
LEMMA NewestKept ==
  ASSUME NEW S, NEW p, \A q \in S : q.revision \in Nat, p.revision \in Nat,
         NEW n \in Newest(S), p.revision <= n.revision
  PROVE  n \in Newest(S \cup {p})
BY DEF Newest

OrderInv == TypeOK /\ AgentFollowsNewest /\ TeamFollowsNewest /\ PolicyFollowsNewest

LEMMA DeliveredRevisions ==
  ASSUME TypeOK
  PROVE  /\ \A a \in Agents : \A q \in PayloadsOf(a) : q.revision \in Nat
         /\ \A q \in TeamPayloads : q.revision \in Nat
BY PayloadType DEF TypeOK, PayloadsOf, TeamPayloads

LEMMA UpdateKeepsTeam ==
  ASSUME OrderInv, NEW p \in Payloads, Update(p)
  PROVE  TeamFollowsNewest'
<1>1. delivered' = delivered \cup {p} /\ p.revision \in Nat
  BY PayloadType DEF Update
<1>2. CASE SourceOf(p) # "team"
  <2>1. TeamPayloads' = TeamPayloads
    BY <1>1, <1>2 DEF TeamPayloads
  <2>2. UNCHANGED <<teamHalted, teamRevision>>
    BY <1>2 DEF Update, UpdateTeam
  <2> QED
    BY <2>1, <2>2 DEF OrderInv, TeamFollowsNewest, Newest
<1>3. CASE SourceOf(p) = "team"
  <2>1. TeamPayloads' = TeamPayloads \cup {p}
    BY <1>1, <1>3 DEF TeamPayloads
  <2>2. CASE p.revision >= teamRevision
    <3>1. teamHalted' = p.halted /\ teamRevision' = p.revision
      BY <1>3, <2>2 DEF Update, UpdateTeam
    <3>2. \/ TeamPayloads = {}
          \/ \E q \in Newest(TeamPayloads) : q.revision <= p.revision
      BY <2>2 DEF OrderInv, TeamFollowsNewest
    <3>3. p \in Newest(TeamPayloads \cup {p})
      BY <1>1, <3>2, DeliveredRevisions, NewestAdded DEF OrderInv
    <3>4. p \in Newest(TeamPayloads)'
      BY <2>1, <3>3 DEF Newest
    <3> QED
      BY <3>1, <3>4 DEF TeamFollowsNewest
  <2>3. CASE ~(p.revision >= teamRevision)
    <3>1. UNCHANGED <<teamHalted, teamRevision>>
      BY <2>3 DEF Update, UpdateTeam
    <3>2. PICK n \in Newest(TeamPayloads) : teamHalted = n.halted /\ teamRevision = n.revision
      BY <1>1, <2>3 DEF OrderInv, TeamFollowsNewest
    <3>3. teamRevision \in Nat
      BY DEF OrderInv, TypeOK
    <3>4. n \in Newest(TeamPayloads \cup {p})
      BY <1>1, <2>3, <3>2, <3>3, DeliveredRevisions, NewestKept DEF OrderInv
    <3>5. n \in Newest(TeamPayloads)'
      BY <2>1, <3>4 DEF Newest
    <3> QED
      BY <3>1, <3>2, <3>5 DEF TeamFollowsNewest
  <2> QED
    BY <2>2, <2>3
<1> QED
  BY <1>2, <1>3
\* An update for an agent either is stale and leaves its entry, or makes the
\* payload the newest one of that agent.
LEMMA UpdateKeepsAgents ==
  ASSUME OrderInv, NEW p \in Payloads, Update(p)
  PROVE  AgentFollowsNewest' /\ PolicyFollowsNewest'
<1>1. delivered' = delivered \cup {p} /\ p.revision \in Nat
  BY PayloadType DEF Update
<1>2. ASSUME NEW a \in Agents, p.agent # a
      PROVE  PayloadsOf(a)' = PayloadsOf(a) /\ entry'[a] = entry[a]
  BY <1>1, <1>2, PayloadType DEF PayloadsOf, Update, UpdateAgent, OrderInv, TypeOK
<1>3. ASSUME NEW a \in Agents, p.agent = a
      PROVE  PayloadsOf(a)' = PayloadsOf(a) \cup {p}
  BY <1>1, <1>3 DEF PayloadsOf
<1>4. ASSUME NEW a \in Agents, p.agent = a, ~(p.revision < entry[a].revision)
      PROVE  /\ entry'[a] = Merge(entry[a], p)
             /\ p \in Newest(PayloadsOf(a))'
  <2>1. entry'[a] = Merge(entry[a], p)
    BY <1>4, RegistryAssumption DEF Update, UpdateAgent, OrderInv, TypeOK
  <2>2. entry[a].revision \in Nat
    BY DEF OrderInv, TypeOK, Entry
  <2>3. \/ PayloadsOf(a) = {}
        \/ \E q \in Newest(PayloadsOf(a)) : q.revision <= p.revision
    BY <1>1, <1>4, <2>2 DEF OrderInv, AgentFollowsNewest
  <2>4. p \in Newest(PayloadsOf(a) \cup {p})
    BY <1>1, <2>3, DeliveredRevisions, NewestAdded DEF OrderInv
  <2>5. p \in Newest(PayloadsOf(a))'
    BY <1>3, <1>4, <2>4 DEF Newest
  <2> QED
    BY <2>1, <2>5
<1>5. ASSUME NEW a \in Agents, p.agent = a, p.revision < entry[a].revision
      PROVE  /\ entry'[a] = entry[a]
             /\ PayloadsOf(a) # {}
             /\ \A n \in Newest(PayloadsOf(a)) : n \in Newest(PayloadsOf(a))'
  <2>1. entry'[a] = entry[a]
    BY <1>5, RegistryAssumption DEF Update, UpdateAgent, OrderInv, TypeOK
  <2>2. entry[a].revision \in Nat
    BY DEF OrderInv, TypeOK, Entry
  <2>3. PICK m \in Newest(PayloadsOf(a)) : entry[a].revision = m.revision
    BY <1>1, <1>5, <2>2 DEF OrderInv, AgentFollowsNewest
  <2>4. ASSUME NEW n \in Newest(PayloadsOf(a))
        PROVE  n \in Newest(PayloadsOf(a))'
    <3>1. n.revision \in Nat /\ m.revision \in Nat /\ m.revision <= n.revision
      BY DeliveredRevisions DEF Newest, OrderInv
    <3>2. n \in Newest(PayloadsOf(a) \cup {p})
      BY <1>1, <1>5, <2>3, <3>1, DeliveredRevisions, NewestKept DEF OrderInv
    <3> QED
      BY <1>3, <1>5, <3>2 DEF Newest
  <2> QED
    BY <2>1, <2>3, <2>4 DEF Newest
<1>6. AgentFollowsNewest'
  <2>1. ASSUME NEW a \in Agents, p.agent # a
        PROVE  \/ /\ PayloadsOf(a)' = {}
                  /\ ~entry'[a].halted
                  /\ entry'[a].revision = 0
               \/ \E q \in Newest(PayloadsOf(a))' :
                    /\ entry'[a].halted = HaltsAgent(q)
                    /\ entry'[a].source = SourceOf(q)
                    /\ entry'[a].revision = q.revision
    <3>1. Newest(PayloadsOf(a))' = Newest(PayloadsOf(a))
      BY <1>2, <2>1 DEF Newest
    <3> QED
      BY <1>2, <2>1, <3>1 DEF OrderInv, AgentFollowsNewest
  <2>2. ASSUME NEW a \in Agents, p.agent = a
        PROVE  \E q \in Newest(PayloadsOf(a))' :
                 /\ entry'[a].halted = HaltsAgent(q)
                 /\ entry'[a].source = SourceOf(q)
                 /\ entry'[a].revision = q.revision
    <3>1. entry[a] \in Entry
      BY DEF OrderInv, TypeOK
    <3>2. CASE p.revision < entry[a].revision
      BY <1>5, <2>2, <3>2 DEF OrderInv, AgentFollowsNewest
    <3>3. CASE ~(p.revision < entry[a].revision)
      <4>1. entry'[a] = Merge(entry[a], p) /\ p \in Newest(PayloadsOf(a))'
        BY <1>4, <2>2, <3>3
      <4>2. /\ Merge(entry[a], p).halted = HaltsAgent(p)
            /\ Merge(entry[a], p).source = SourceOf(p)
            /\ Merge(entry[a], p).revision = p.revision
        BY <3>1, MergeType
      <4> QED
        BY <4>1, <4>2
    <3> QED
      BY <3>2, <3>3
  <2> QED
    BY <2>1, <2>2 DEF AgentFollowsNewest, HaltsAgent, SourceOf
<1>7. PolicyFollowsNewest'
  <2>1. ASSUME NEW a \in Agents, PayloadsOf(a)' # {},
               \A q \in PayloadsOf(a)' : q.require # ""
        PROVE  \E q \in Newest(PayloadsOf(a))' : entry'[a].require = Upper(q.require)
    <3>1. CASE p.agent # a
      <4>1. Newest(PayloadsOf(a))' = Newest(PayloadsOf(a))
        BY <1>2, <3>1 DEF Newest
      <4> QED
        BY <1>2, <2>1, <3>1, <4>1 DEF OrderInv, PolicyFollowsNewest
    <3>2. CASE p.agent = a /\ p.revision < entry[a].revision
      <4>1. PICK n \in Newest(PayloadsOf(a)) : entry[a].require = Upper(n.require)
        BY <1>3, <1>5, <2>1, <3>2 DEF OrderInv, PolicyFollowsNewest
      <4> QED
        BY <1>5, <3>2, <4>1
    <3>3. CASE p.agent = a /\ ~(p.revision < entry[a].revision)
      <4>1. p.require # "" /\ entry[a] \in Entry
        BY <1>3, <2>1, <3>3 DEF OrderInv, TypeOK
      <4>2. entry'[a] = Merge(entry[a], p) /\ p \in Newest(PayloadsOf(a))'
        BY <1>4, <3>3
      <4>3. Merge(entry[a], p).require = Upper(p.require)
        BY <4>1, MergeType
      <4> QED
        BY <4>2, <4>3
    <3> QED
      BY <3>1, <3>2, <3>3
  <2> QED
    BY <2>1 DEF PolicyFollowsNewest
<1> QED
  BY <1>6, <1>7

\* No other operation touches what Update decides.
LEMMA OthersKeepPolicy ==
  ASSUME TypeOK, [Next]_vars, ~(\E p \in Payloads : Update(p))
  PROVE  /\ UNCHANGED <<delivered, teamHalted, teamRevision>>
         /\ \A a \in Agents : /\ entry'[a].halted = entry[a].halted
                              /\ entry'[a].source = entry[a].source
                              /\ entry'[a].revision = entry[a].revision
                              /\ entry'[a].require = entry[a].require
<1>1. ASSUME NEW a \in Agents, NEW s, NEW ttl, Record(a, s, ttl)
      PROVE  \A b \in Agents : /\ entry'[b].halted = entry[b].halted
                               /\ entry'[b].source = entry[b].source
                               /\ entry'[b].revision = entry[b].revision
                               /\ entry'[b].require = entry[b].require
  <2>1. entry[a] \in Entry
    BY DEF TypeOK
  <2>2. /\ WithSession(a, s, ttl).halted = entry[a].halted
        /\ WithSession(a, s, ttl).source = entry[a].source
        /\ WithSession(a, s, ttl).revision = entry[a].revision
        /\ WithSession(a, s, ttl).require = entry[a].require
    BY <2>1 DEF WithSession, Entry
  <2> QED
    BY <1>1, <2>2 DEF Record, TypeOK
<1>2. ASSUME NEW a \in Agents, NEW s \in Sessions, NEW ttl \in RecordTTLs,
             RecordGuardrailSession(a, s, ttl)
      PROVE  /\ UNCHANGED <<delivered, teamHalted, teamRevision>>
             /\ Record(a, s, ttl)
  BY <1>2 DEF RecordGuardrailSession
<1>3. ASSUME NEW c \in Checkers, NEW a \in Agents, NEW s \in Sessions,
             CheckGuardrails(c, a, s)
      PROVE  UNCHANGED <<delivered, teamHalted, teamRevision, entry>>
  BY <1>3 DEF CheckGuardrails, policyVars, historyVars
<1>4. ASSUME NEW c \in Checkers, CheckRecords(c)
      PROVE  /\ UNCHANGED <<delivered, teamHalted, teamRevision>>
             /\ checking[c].agent \in Agents
             /\ Record(checking[c].agent, checking[c].session, checking[c].ttl)
  BY <1>4 DEF CheckRecords, TypeOK
<1>5. ASSUME NEW a \in Agents, TakeGuardrailSession(a)
      PROVE  /\ UNCHANGED <<delivered, teamHalted, teamRevision>>
             /\ \A b \in Agents : /\ entry'[b].halted = entry[b].halted
                                  /\ entry'[b].source = entry[b].source
                                  /\ entry'[b].revision = entry[b].revision
                                  /\ entry'[b].require = entry[b].require
  <2>1. entry[a] \in Entry
    BY DEF TypeOK
  <2>2. /\ Forget(entry[a]).halted = entry[a].halted
        /\ Forget(entry[a]).source = entry[a].source
        /\ Forget(entry[a]).revision = entry[a].revision
        /\ Forget(entry[a]).require = entry[a].require
    BY <2>1 DEF Forget, Entry
  <2> QED
    BY <1>5, <2>2 DEF TakeGuardrailSession, TypeOK
<1>6. CASE Tick
  BY <1>6 DEF Tick, policyVars, historyVars
<1>7. CASE UNCHANGED vars
  BY <1>7 DEF vars, policyVars, historyVars
<1> QED
  BY <1>1, <1>2, <1>3, <1>4, <1>5, <1>6, <1>7 DEF Next

LEMMA NextKeepsOrderInv ==
  ASSUME OrderInv, [Next]_vars
  PROVE  OrderInv'
<1>1. TypeOK'
  BY NextKeepsTypeOK DEF OrderInv
<1>2. CASE \E p \in Payloads : Update(p)
  BY <1>1, <1>2, UpdateKeepsTeam, UpdateKeepsAgents DEF OrderInv
<1>3. CASE ~(\E p \in Payloads : Update(p))
  <2>1. /\ UNCHANGED <<delivered, teamHalted, teamRevision>>
        /\ \A a \in Agents : /\ entry'[a].halted = entry[a].halted
                             /\ entry'[a].source = entry[a].source
                             /\ entry'[a].revision = entry[a].revision
                             /\ entry'[a].require = entry[a].require
    BY <1>3, OthersKeepPolicy DEF OrderInv
  <2>2. AgentFollowsNewest'
    BY <2>1 DEF OrderInv, AgentFollowsNewest, PayloadsOf, Newest
  <2>3. TeamFollowsNewest'
    BY <2>1 DEF OrderInv, TeamFollowsNewest, TeamPayloads, Newest
  <2>4. PolicyFollowsNewest'
    <3>1. ASSUME NEW a \in Agents
          PROVE  /\ PayloadsOf(a)' = PayloadsOf(a)
                 /\ Newest(PayloadsOf(a))' = Newest(PayloadsOf(a))
                 /\ entry'[a].require = entry[a].require
      BY <2>1 DEF PayloadsOf, Newest
    <3> QED
      BY <3>1 DEF OrderInv, PolicyFollowsNewest
  <2> QED
    BY <1>1, <2>2, <2>3, <2>4 DEF OrderInv
<1> QED
  BY <1>2, <1>3

LEMMA InitOrderInv ==
  ASSUME Init
  PROVE  OrderInv
<1>1. \A a \in Agents : PayloadsOf(a) = {}
  BY DEF Init, PayloadsOf
<1>2. TeamPayloads = {}
  BY DEF Init, TeamPayloads
<1> QED
  BY <1>1, <1>2, InitTypeOK
     DEF Init, NewEntry, OrderInv, AgentFollowsNewest, TeamFollowsNewest, PolicyFollowsNewest

-----------------------------------------------------------------------------
\* Every TTL in force stays positive, whatever the payloads and callers pass.
THEOREM TypeInvariant == Spec => []TypeOK
<1>1. Init => TypeOK
  BY InitTypeOK
<1>2. TypeOK /\ [Next]_vars => TypeOK'
  BY NextKeepsTypeOK
<1> QED
  BY <1>1, <1>2, PTL DEF Spec

\* The halt state of every agent, and that of the team, is the one its newest
\* payload gave it, whatever order the payloads came in and however many.
THEOREM HaltsAreNewest == Spec => []HaltsFollowNewest
<1>1. Init => OrderInv
  BY InitOrderInv
<1>2. OrderInv /\ [Next]_vars => OrderInv'
  BY NextKeepsOrderInv
<1>3. OrderInv => HaltsFollowNewest
  BY DEF OrderInv, HaltsFollowNewest
<1> QED
  BY <1>1, <1>2, <1>3, PTL DEF Spec

\* Where every payload of an agent carries a policy, the newest one is in force.
THEOREM PolicyIsNewest == Spec => []PolicyFollowsNewest
<1>1. Init => OrderInv
  BY InitOrderInv
<1>2. OrderInv /\ [Next]_vars => OrderInv'
  BY NextKeepsOrderInv
<1>3. OrderInv => PolicyFollowsNewest
  BY DEF OrderInv
<1> QED
  BY <1>1, <1>2, <1>3, PTL DEF Spec

-----------------------------------------------------------------------------
(***************************************************************************)
(* Guardrail sessions.  SessionIsLastRecorded is inductive with TypeOK: a  *)
(* step touches the session of one agent, and time only moves forward.     *)
(***************************************************************************)
\* What SessionIsLastRecorded says of one agent.
SessionOK(e, last, t) ==
  \/ e.session = last.session /\ (last # NoRecord => e.expires = last.at + last.ttl * Second)
  \/ e.session = NoSession /\ t >= last.at + last.ttl * Second

SessionInv == TypeOK /\ SessionIsLastRecorded

LEMMA SessionOfAgent ==
  ASSUME SessionIsLastRecorded, NEW a \in Agents
  PROVE  SessionOK(entry[a], recorded[a], now)
BY DEF SessionIsLastRecorded, SessionOK

\* When the last session of an agent ends is a number.
LEMMA EndOfLast ==
  ASSUME TypeOK, NEW a \in Agents
  PROVE  recorded[a].at + recorded[a].ttl * Second \in Nat
<1>1. recorded[a].at \in Nat /\ recorded[a].ttl \in Nat
  BY DEF TypeOK, NoRecord
<1>2. recorded[a].ttl * Second \in Nat
  BY <1>1, RegistryAssumption
<1> QED
  BY <1>1, <1>2

\* A session held by the registry is the one that was recorded last.
LEMMA HeldSession ==
  ASSUME SessionInv, NEW a \in Agents, entry[a].session # NoSession
  PROVE  /\ recorded[a] # NoRecord
         /\ entry[a].session = recorded[a].session
         /\ entry[a].expires = recorded[a].at + recorded[a].ttl * Second
<1>1. SessionOK(entry[a], recorded[a], now)
  BY SessionOfAgent DEF SessionInv
<1>2. entry[a].session = recorded[a].session
  BY <1>1 DEF SessionOK
<1>3. recorded[a] # NoRecord
  BY <1>2 DEF NoRecord
<1> QED
  BY <1>1, <1>2, <1>3 DEF SessionOK

LEMMA RecordKeepsSessions ==
  ASSUME SessionInv, NEW a \in Agents, NEW s, NEW ttl, Record(a, s, ttl), now' = now
  PROVE  SessionIsLastRecorded'
<1>1. /\ WithSession(a, s, ttl).session = s
      /\ WithSession(a, s, ttl).expires = now + Lifetime(ttl) * Second
  <2>1. entry[a] \in Entry
    BY DEF SessionInv, TypeOK
  <2> QED
    BY <2>1 DEF WithSession, Entry, Expiry
<1>2. /\ entry'[a].session = recorded'[a].session
      /\ entry'[a].expires = recorded'[a].at + recorded'[a].ttl * Second
  BY <1>1 DEF Record, SessionInv, TypeOK
<1>3. ASSUME NEW b \in Agents, b # a
      PROVE  SessionOK(entry'[b], recorded'[b], now')
  <2>1. entry'[b] = entry[b] /\ recorded'[b] = recorded[b]
    BY <1>3 DEF Record, SessionInv, TypeOK
  <2>2. SessionOK(entry[b], recorded[b], now)
    BY <1>3, SessionOfAgent DEF SessionInv
  <2> QED
    BY <2>1, <2>2
<1> QED
  BY <1>2, <1>3 DEF SessionIsLastRecorded, SessionOK

\* An update keeps every session, of every agent.
LEMMA UpdateKeepsSessions ==
  ASSUME SessionInv, NEW p \in Payloads, Update(p)
  PROVE  SessionIsLastRecorded'
<1>1. ASSUME NEW b \in Agents
      PROVE  entry'[b].session = entry[b].session /\ entry'[b].expires = entry[b].expires
  <2>1. entry[b] \in Entry
    BY DEF SessionInv, TypeOK
  <2>2. /\ Merge(entry[b], p).session = entry[b].session
        /\ Merge(entry[b], p).expires = entry[b].expires
    BY <2>1, MergeType
  <2>3. entry'[b] = entry[b] \/ entry'[b] = Merge(entry[b], p)
    BY DEF Update, UpdateAgent, SessionInv, TypeOK
  <2> QED
    BY <2>2, <2>3
<1>2. UNCHANGED <<recorded, now>>
  BY DEF Update
<1> QED
  BY <1>1, <1>2 DEF SessionInv, SessionIsLastRecorded

\* Taking a session forgets it only when it has expired.
LEMMA TakeKeepsSessions ==
  ASSUME SessionInv, NEW a \in Agents, TakeGuardrailSession(a)
  PROVE  SessionIsLastRecorded'
<1>1. UNCHANGED <<recorded, now>>
  BY DEF TakeGuardrailSession
<1>2. CASE UNCHANGED entry
  BY <1>1, <1>2 DEF SessionInv, SessionIsLastRecorded
<1>3. CASE ~ UNCHANGED entry
  <2>1. /\ entry[a].session # NoSession
        /\ now >= entry[a].expires
        /\ entry' = [entry EXCEPT ![a] = Forget(entry[a])]
    BY <1>3 DEF TakeGuardrailSession
  <2>2. entry'[a].session = NoSession
    BY <2>1 DEF Forget, SessionInv, TypeOK, Entry
  <2>3. now >= recorded[a].at + recorded[a].ttl * Second
    BY <2>1, HeldSession
  <2>4. ASSUME NEW b \in Agents
        PROVE  SessionOK(entry'[b], recorded'[b], now')
    <3>1. CASE b = a
      BY <1>1, <2>2, <2>3, <3>1 DEF SessionOK
    <3>2. CASE b # a
      <4>1. entry'[b] = entry[b]
        BY <2>1, <3>2 DEF SessionInv, TypeOK
      <4> QED
        BY <1>1, <4>1, SessionOfAgent DEF SessionInv
    <3> QED
      BY <3>1, <3>2
  <2> QED
    BY <2>4 DEF SessionIsLastRecorded, SessionOK
<1> QED
  BY <1>2, <1>3

LEMMA NextKeepsSessionInv ==
  ASSUME SessionInv, [Next]_vars
  PROVE  SessionInv'
<1>1. TypeOK'
  BY NextKeepsTypeOK DEF SessionInv
<1>2. ASSUME NEW p \in Payloads, Update(p)
      PROVE  SessionIsLastRecorded'
  BY <1>2, UpdateKeepsSessions
<1>3. ASSUME NEW a \in Agents, NEW s \in Sessions, NEW ttl \in RecordTTLs,
             RecordGuardrailSession(a, s, ttl)
      PROVE  SessionIsLastRecorded'
  BY <1>3, RecordKeepsSessions DEF RecordGuardrailSession
<1>4. ASSUME NEW c \in Checkers, NEW a \in Agents, NEW s \in Sessions,
             CheckGuardrails(c, a, s)
      PROVE  SessionIsLastRecorded'
  BY <1>4 DEF CheckGuardrails, SessionInv, SessionIsLastRecorded, policyVars, historyVars
<1>5. ASSUME NEW c \in Checkers, CheckRecords(c)
      PROVE  SessionIsLastRecorded'
  <2>1. checking[c].agent \in Agents
    BY <1>5 DEF CheckRecords, SessionInv, TypeOK
  <2> QED
    BY <1>5, <2>1, RecordKeepsSessions DEF CheckRecords
<1>6. ASSUME NEW a \in Agents, TakeGuardrailSession(a)
      PROVE  SessionIsLastRecorded'
  BY <1>6, TakeKeepsSessions
<1>7. CASE Tick
  <2>1. UNCHANGED <<entry, recorded>> /\ now' = now + 1 /\ now \in Nat
    BY <1>7 DEF Tick, policyVars, historyVars, SessionInv, TypeOK
  <2>2. ASSUME NEW b \in Agents
        PROVE  SessionOK(entry'[b], recorded'[b], now')
    BY <2>1, SessionOfAgent, EndOfLast DEF SessionInv, SessionOK
  <2> QED
    BY <1>1, <2>2 DEF SessionInv, SessionIsLastRecorded, SessionOK
<1>8. CASE UNCHANGED vars
  BY <1>1, <1>8 DEF vars, policyVars, historyVars, SessionInv, SessionIsLastRecorded
<1> QED
  BY <1>1, <1>2, <1>3, <1>4, <1>5, <1>6, <1>7, <1>8 DEF Next, SessionInv

LEMMA InitSessionInv ==
  ASSUME Init
  PROVE  SessionInv
<1>1. ASSUME NEW a \in Agents
      PROVE  SessionOK(entry[a], recorded[a], now)
  <2>1. entry[a] = NewEntry /\ recorded[a] = NoRecord
    BY DEF Init
  <2>2. NewEntry.session = NoSession /\ NoRecord.session = NoSession
    BY DEF NewEntry, NoRecord
  <2> QED
    BY <2>1, <2>2 DEF SessionOK
<1> QED
  BY <1>1, InitTypeOK DEF SessionInv, SessionIsLastRecorded, SessionOK

\* The session in the registry is the last one recorded, for as long as it was
\* recorded for, however recordings, takes and updates interleave.
THEOREM SessionIsLast == Spec => []SessionIsLastRecorded
<1>1. Init => SessionInv
  BY InitSessionInv
<1>2. SessionInv /\ [Next]_vars => SessionInv'
  BY NextKeepsSessionInv
<1>3. SessionInv => SessionIsLastRecorded
  BY DEF SessionInv
<1> QED
  BY <1>1, <1>2, <1>3, PTL DEF Spec

\* No trace attaches a session of another agent or one that has expired.
THEOREM AttachedSessionIsAlive == Spec => AttachedWithinTTL
<1> DEFINE Alive(a) ==
      attached'[a] # attached[a] /\ attached'[a].session # NoSession =>
         /\ attached'[a].session = recorded[a].session
         /\ now < recorded[a].at + recorded[a].ttl * Second
<1>1. Init => SessionInv
  BY InitSessionInv
<1>2. SessionInv /\ [Next]_vars => SessionInv'
  BY NextKeepsSessionInv
<1>3. ASSUME SessionInv, [Next]_vars, NEW a \in Agents
      PROVE  Alive(a)
  <2>1. ASSUME NEW b \in Agents, TakeGuardrailSession(b)
        PROVE  Alive(a)
    <3>1. CASE b # a
      BY <2>1, <3>1, <1>3 DEF TakeGuardrailSession, SessionInv, TypeOK
    <3>2. CASE b = a /\ entry[a].session = NoSession
      BY <2>1, <3>2, <1>3 DEF TakeGuardrailSession, Attachment, SessionInv, TypeOK
    <3>3. CASE b = a /\ entry[a].session # NoSession
      <4>1. /\ entry[a].session = recorded[a].session
            /\ entry[a].expires = recorded[a].at + recorded[a].ttl * Second
        BY <1>3, <3>3, HeldSession
      <4>2. entry[a].expires \in Nat /\ now \in Nat
        BY <1>3 DEF SessionInv, TypeOK, Entry
      <4>3. CASE now >= entry[a].expires
        BY <2>1, <3>3, <4>3, <1>3
           DEF TakeGuardrailSession, Attachment, SessionInv, TypeOK
      <4>4. CASE ~(now >= entry[a].expires)
        <5>1. attached'[a] = Attachment(entry[a].session)
          BY <2>1, <3>3, <4>4, <1>3 DEF TakeGuardrailSession, SessionInv, TypeOK
        <5> QED
          BY <4>1, <4>2, <4>4, <5>1 DEF Attachment
      <4> QED
        BY <4>3, <4>4
    <3> QED
      BY <3>1, <3>2, <3>3
  <2>2. CASE ~(\E b \in Agents : TakeGuardrailSession(b))
    <3>1. UNCHANGED attached
      BY <1>3, <2>2
         DEF Next, vars, policyVars, historyVars, Update, RecordGuardrailSession,
             CheckGuardrails, CheckRecords, Tick
    <3> QED
      BY <3>1
  <2> QED
    BY <2>1, <2>2
<1>4. SessionInv /\ [Next]_vars =>
        [\A a \in Agents : Alive(a)]_vars
  BY <1>3
<1> QED
  BY <1>1, <1>2, <1>4, PTL DEF Spec, AttachedWithinTTL

-----------------------------------------------------------------------------
(***************************************************************************)
(* Redelivery.  The two routes from the backend may bring a payload again, *)
(* at any time and after any others.  If no two payloads contradict each   *)
(* other under one revision, it changes nothing.                           *)
(***************************************************************************)
\* The payload with which the entry agrees in every field that it carries.
InForce(e, p) ==
  /\ e.halted = HaltsAgent(p) /\ e.source = SourceOf(p) /\ e.revision = p.revision
  /\ p.require # "" => e.require = Upper(p.require)
  /\ p.ttl \in 1..MaxTTL => e.ttl = p.ttl

MergedInv ==
  \A a \in Agents : PayloadsOf(a) # {} =>
    a \in known /\ \E p \in Newest(PayloadsOf(a)) : InForce(entry[a], p)

OnePerRevision ==
  \A p, q \in delivered : p.revision = q.revision =>
    /\ p.agent = q.agent => p = q
    /\ SourceOf(p) = "team" /\ SourceOf(q) = "team" => p.halted = q.halted

RedeliveryIsHarmless ==
  [][OnePerRevision => \A p \in delivered : Update(p) => UNCHANGED policyVars]_vars

\* To merge a payload puts it in force, and to merge it again has no effect.
LEMMA MergeInForce ==
  ASSUME NEW e \in Entry, NEW p \in Payloads
  PROVE  /\ InForce(Merge(e, p), p)
         /\ InForce(e, p) => Merge(e, p) = e
<1>1. InForce(Merge(e, p), p)
  BY DEF InForce, Merge, Entry
<1>2. ASSUME InForce(e, p)
      PROVE  Merge(e, p) = e
  BY <1>2 DEF InForce, Merge, Entry
<1> QED
  BY <1>1, <1>2

LEMMA UpdateKeepsMerged ==
  ASSUME OrderInv, MergedInv, NEW p \in Payloads, Update(p)
  PROVE  MergedInv'
<1>1. /\ delivered' = delivered \cup {p} /\ p.revision \in Nat
      /\ entry \in [Agents -> Entry]
  BY PayloadType DEF Update, OrderInv, TypeOK
<1> SUFFICES ASSUME NEW a \in Agents, PayloadsOf(a)' # {}
             PROVE  a \in known' /\ \E q \in Newest(PayloadsOf(a))' : InForce(entry'[a], q)
  BY DEF MergedInv, InForce, HaltsAgent, SourceOf, Upper
<1>2. CASE p.agent # a
  <2>1. PayloadsOf(a)' = PayloadsOf(a)
    BY <1>1, <1>2 DEF PayloadsOf
  <2>2. Newest(PayloadsOf(a))' = Newest(PayloadsOf(a))
    BY <2>1 DEF Newest
  <2>3. entry'[a] = entry[a] /\ known \subseteq known'
    BY <1>1, <1>2, PayloadType DEF Update, UpdateAgent
  <2> QED
    BY <2>1, <2>2, <2>3 DEF MergedInv
<1>3. CASE p.agent = a
  <2>1. PayloadsOf(a)' = PayloadsOf(a) \cup {p}
    BY <1>1, <1>3 DEF PayloadsOf
  <2>2. /\ a \in known'
        /\ entry'[a] = IF p.revision < entry[a].revision THEN entry[a] ELSE Merge(entry[a], p)
    BY <1>1, <1>3, RegistryAssumption DEF Update, UpdateAgent
  <2>3. entry[a].revision \in Nat /\ \A q \in PayloadsOf(a) : q.revision \in Nat
    BY <1>1, DeliveredRevisions DEF Entry, OrderInv
  <2>4. CASE p.revision < entry[a].revision
    <3>1. PayloadsOf(a) # {}
      <4>1. PayloadsOf(a) = {} => entry[a].revision = 0
        BY DEF OrderInv, AgentFollowsNewest, Newest
      <4> QED
        BY <1>1, <2>4, <4>1
    <3>2. PICK n \in Newest(PayloadsOf(a)) : InForce(entry[a], n)
      BY <3>1 DEF MergedInv
    <3>3. n.revision = entry[a].revision
      BY <3>2 DEF InForce
    <3>4. n \in Newest(PayloadsOf(a) \cup {p})
      BY <1>1, <2>3, <2>4, <3>3, NewestKept
    <3>5. n \in Newest(PayloadsOf(a))'
      BY <2>1, <3>4 DEF Newest
    <3> QED
      BY <2>2, <2>4, <3>2, <3>5
  <2>5. CASE ~(p.revision < entry[a].revision)
    <3>1. \/ PayloadsOf(a) = {}
          \/ \E q \in Newest(PayloadsOf(a)) : q.revision <= p.revision
      BY <1>1, <2>3, <2>5 DEF OrderInv, AgentFollowsNewest
    <3>2. p \in Newest(PayloadsOf(a) \cup {p})
      BY <1>1, <2>3, <3>1, NewestAdded
    <3>3. p \in Newest(PayloadsOf(a))'
      BY <2>1, <3>2 DEF Newest
    <3>4. InForce(entry'[a], p)
      BY <1>1, <2>2, <2>5, MergeInForce
    <3> QED
      BY <2>2, <3>3, <3>4
  <2> QED
    BY <2>4, <2>5
<1> QED
  BY <1>2, <1>3

\* Sessions leave alone what Update has put into a known entry.
LEMMA OthersKeepTTL ==
  ASSUME TypeOK, [Next]_vars, ~(\E p \in Payloads : Update(p))
  PROVE  /\ known \subseteq known'
         /\ \A a \in known : entry'[a].ttl = entry[a].ttl
<1>1. ASSUME NEW a \in Agents, NEW s, NEW ttl, Record(a, s, ttl)
      PROVE  /\ known \subseteq known'
             /\ \A b \in known : entry'[b].ttl = entry[b].ttl
  <2>1. a \in known => WithSession(a, s, ttl).ttl = entry[a].ttl
    BY DEF WithSession, TypeOK, Entry
  <2> QED
    BY <1>1, <2>1 DEF Record, TypeOK
<1>2. ASSUME NEW a \in Agents, TakeGuardrailSession(a)
      PROVE  /\ known \subseteq known'
             /\ \A b \in known : entry'[b].ttl = entry[b].ttl
  <2>1. Forget(entry[a]).ttl = entry[a].ttl
    BY DEF Forget, TypeOK, Entry
  <2> QED
    BY <1>2, <2>1 DEF TakeGuardrailSession, TypeOK
<1>3. ASSUME NEW a \in Agents, NEW s \in Sessions, NEW ttl \in RecordTTLs,
             RecordGuardrailSession(a, s, ttl)
      PROVE  Record(a, s, ttl)
  BY <1>3 DEF RecordGuardrailSession
<1>4. ASSUME NEW c \in Checkers, CheckRecords(c)
      PROVE  /\ checking[c].agent \in Agents
             /\ Record(checking[c].agent, checking[c].session, checking[c].ttl)
  BY <1>4 DEF CheckRecords, TypeOK
<1>5. ASSUME NEW c \in Checkers, NEW a \in Agents, NEW s \in Sessions,
             CheckGuardrails(c, a, s)
      PROVE  UNCHANGED <<known, entry>>
  BY <1>5 DEF CheckGuardrails, policyVars
<1>6. CASE Tick \/ UNCHANGED vars
  BY <1>6 DEF Tick, vars, policyVars
<1> QED
  BY <1>1, <1>2, <1>3, <1>4, <1>5, <1>6 DEF Next

LEMMA NextKeepsMergedInv ==
  ASSUME OrderInv, MergedInv, [Next]_vars
  PROVE  MergedInv'
<1>1. CASE \E p \in Payloads : Update(p)
  BY <1>1, UpdateKeepsMerged
<1>2. CASE ~(\E p \in Payloads : Update(p))
  <2>1. /\ delivered' = delivered
        /\ \A a \in Agents : /\ entry'[a].halted = entry[a].halted
                             /\ entry'[a].source = entry[a].source
                             /\ entry'[a].revision = entry[a].revision
                             /\ entry'[a].require = entry[a].require
    BY <1>2, OthersKeepPolicy DEF OrderInv
  <2>2. known \subseteq known' /\ \A a \in known : entry'[a].ttl = entry[a].ttl
    BY <1>2, OthersKeepTTL DEF OrderInv
  <2>3. ASSUME NEW a \in Agents, PayloadsOf(a)' # {}
        PROVE  a \in known' /\ \E q \in Newest(PayloadsOf(a))' : InForce(entry'[a], q)
    <3>1. PayloadsOf(a)' = PayloadsOf(a) /\ Newest(PayloadsOf(a))' = Newest(PayloadsOf(a))
      BY <2>1 DEF PayloadsOf, Newest
    <3>2. a \in known
      BY <2>3, <3>1 DEF MergedInv
    <3>3. PICK q \in Newest(PayloadsOf(a)) : InForce(entry[a], q)
      BY <2>3, <3>1 DEF MergedInv
    <3>4. InForce(entry'[a], q)
      BY <2>1, <2>2, <3>2, <3>3 DEF InForce
    <3> QED
      BY <2>2, <3>1, <3>2, <3>3, <3>4
  <2> QED
    BY <2>3 DEF MergedInv, InForce, HaltsAgent, SourceOf, Upper
<1> QED
  BY <1>1, <1>2

\* A payload that comes again, late or early, leaves halts, policy, TTL and
\* session as they are.
THEOREM RedeliveryChangesNothing == Spec => RedeliveryIsHarmless
<1>1. ASSUME OrderInv, MergedInv, OnePerRevision, NEW p \in delivered, Update(p)
      PROVE  UNCHANGED policyVars
  <2>1. /\ p \in Payloads /\ p.revision \in Nat /\ p.agent \in Agents \cup {NoAgent}
        /\ delivered \subseteq Payloads
    BY <1>1, PayloadType DEF OrderInv, TypeOK
  <2>2. UNCHANGED <<teamHalted, teamRevision>>
    <3>1. CASE SourceOf(p) = "team" /\ p.revision >= teamRevision
      <4>1. p \in TeamPayloads
        BY <3>1 DEF TeamPayloads
      <4>2. PICK n \in Newest(TeamPayloads) : teamHalted = n.halted /\ teamRevision = n.revision
        BY <1>1, <4>1 DEF OrderInv, TeamFollowsNewest
      <4>3. n \in delivered /\ SourceOf(n) = "team" /\ p.revision <= n.revision
        BY <4>1, <4>2 DEF Newest, TeamPayloads
      <4>4. n.revision \in Nat
        BY <2>1, <4>3, PayloadType
      <4>5. p.revision = n.revision
        BY <2>1, <3>1, <4>2, <4>3, <4>4
      <4>6. p.halted = n.halted
        BY <1>1, <3>1, <4>3, <4>5 DEF OnePerRevision
      <4> QED
        BY <1>1, <3>1, <4>2, <4>5, <4>6 DEF Update, UpdateTeam
    <3>2. CASE ~(SourceOf(p) = "team" /\ p.revision >= teamRevision)
      BY <1>1, <3>2 DEF Update, UpdateTeam
    <3> QED
      BY <3>1, <3>2
  <2>3. CASE p.agent = NoAgent
    BY <1>1, <2>2, <2>3 DEF Update, UpdateAgent, policyVars
  <2>4. CASE p.agent # NoAgent
    <3> DEFINE a == p.agent
    <3>1. a \in Agents /\ p \in PayloadsOf(a) /\ entry \in [Agents -> Entry]
      BY <1>1, <2>1, <2>4 DEF PayloadsOf, OrderInv, TypeOK
    <3>2. a \in known
      BY <1>1, <3>1 DEF MergedInv
    <3>3. PICK n \in Newest(PayloadsOf(a)) : InForce(entry[a], n)
      BY <1>1, <3>1 DEF MergedInv
    <3>4. n \in delivered /\ n.agent = a /\ p.revision <= n.revision
      BY <3>1, <3>3 DEF Newest, PayloadsOf
    <3>5. n.revision \in Nat /\ entry[a].revision = n.revision
      BY <2>1, <3>3, <3>4, PayloadType DEF InForce
    <3>6. ~(p.revision < entry[a].revision) => Merge(entry[a], p) = entry[a]
      <4>1. ~(p.revision < entry[a].revision) => p.revision = n.revision
        BY <2>1, <3>4, <3>5
      <4>2. p.revision = n.revision => p = n
        BY <1>1, <3>4 DEF OnePerRevision
      <4> QED
        BY <2>1, <3>1, <3>3, <4>1, <4>2, MergeInForce
    <3>7. entry' = entry
      <4>1. entry' = [entry EXCEPT ![a] = IF p.revision < entry[a].revision
                                            THEN entry[a] ELSE Merge(entry[a], p)]
        BY <1>1, <2>4, <3>1 DEF Update, UpdateAgent
      <4>2. entry' = [entry EXCEPT ![a] = entry[a]]
        BY <3>6, <4>1
      <4> QED
        BY <3>1, <4>2
    <3>8. known' = known
      BY <1>1, <2>4, <3>2 DEF Update, UpdateAgent
    <3> QED
      BY <2>2, <3>7, <3>8 DEF policyVars
  <2> QED
    BY <2>3, <2>4
<1>2. Init => OrderInv /\ MergedInv
  <2>1. Init => MergedInv
    BY DEF Init, MergedInv, PayloadsOf
  <2> QED
    BY <2>1, InitOrderInv
<1>3. OrderInv /\ MergedInv /\ [Next]_vars => (OrderInv /\ MergedInv)'
  BY NextKeepsOrderInv, NextKeepsMergedInv
<1>4. OrderInv /\ MergedInv /\ [Next]_vars =>
        [OnePerRevision => \A p \in delivered : Update(p) => UNCHANGED policyVars]_vars
  BY <1>1
<1> QED
  BY <1>2, <1>3, <1>4, PTL DEF Spec, RedeliveryIsHarmless
=============================================================================
