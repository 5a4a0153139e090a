------------------------- MODULE MCControlRegistry -------------------------
(***************************************************************************)
(* ControlRegistry for TLC: sets of payloads, and the documented promise   *)
(* about the order of updates that the code keeps only in part.            *)
(***************************************************************************)
EXTENDS ControlRegistry, TLC

RegistrySymmetry ==
  Permutations(Agents) \cup Permutations(Sessions) \cup Permutations(Checkers)

P(a, h, src, rev, req, ttl) ==
  [agent |-> a, halted |-> h, source |-> src, revision |-> rev, require |-> req, ttl |-> ttl]

\* Payloads about halts and policies, for an agent or for none, from an agent
\* or the team, with three revisions.
HaltPayloads(policies) ==
  {P(a, h, src, rev, req, 0) : a \in Agents \cup {NoAgent}, h \in BOOLEAN,
                               src \in {"agent", "team"}, rev \in 0..2, req \in policies}

CompletePayloads == HaltPayloads({"hard", "off"})
PartialPayloads == HaltPayloads({"hard", ""})

\* Payloads about the lifetime of sessions, with no source and no policy: the
\* TTL absent, valid and above the cap.
TTLPayloads ==
  {P(a, FALSE, "", rev, "", ttl) : a \in Agents, rev \in 1..2, ttl \in {0, 1, MaxTTL + 1}}

TTLsToRecord == {-1, 2}

RegistryPayloads == CompletePayloads \cup TTLPayloads

\* The two corners of the registry that the run explores: any three halt payloads
\* and no session, and sessions of one agent with two payloads about TTLs.  No
\* variable of the one is read by the methods of the other, but for the entry.
InUse == {a \in Agents : \/ a \in known
                         \/ attached[a] # [session |-> NoSession, at |-> 0]
                         \/ \E c \in Checkers : checking[c].agent = a}

OrderOrSessions ==
  \/ /\ delivered \subseteq CompletePayloads
     /\ now = 0
     /\ \A a \in Agents : entry[a].session = NoSession
     /\ \A c \in Checkers : checking[c] = NoCheck
  \/ /\ Cardinality(delivered) <= 2
     /\ delivered \subseteq TTLPayloads
     /\ Cardinality(InUse) <= 1

-----------------------------------------------------------------------------
\* control.go:153: "Stale revisions are ignored to keep updates idempotent and
\* order-tolerant."  So the policy in force is the one that the updates give
\* when they come in order: that of the newest payload that carries one.
PolicyIsOrderTolerant ==
  \A a \in Agents :
    LET policies == {p \in PayloadsOf(a) : p.require # ""} IN
    policies # {} => \E p \in Newest(policies) : entry[a].require = Upper(p.require)
=============================================================================
