-------------------------- MODULE TransportProofs --------------------------
(***************************************************************************)
(* Proofs about Transport for every number of retries and every deadline.  *)
(* Those about delivery do not depend on the length of a backoff; those    *)
(* about time do, and rest on the powers of two.                           *)
(***************************************************************************)
EXTENDS Transport, WellFoundedInduction, TLAPS

Active == phase \in {"ready", "flight", "processed", "backoff"}

\* While a batch is on its way no attempt has had a final word, each attempt
\* that ended has left a trace, and the backend has at most one copy for each
\* attempt that was put on the wire.
OnItsWay ==
  /\ result = "none"
  /\ heard \subseteq {"retry", "lost"}
  /\ attempt <= MaxRetries
  /\ attempt > 0 => heard # {}
  /\ phase = "backoff" => attempt > 0
  /\ updates = 0
  /\ copies <= IF phase = "processed" THEN attempt + 1 ELSE attempt
  /\ phase = "processed" => copies >= 1

IInv ==
  /\ phase \in {"idle", "ready", "flight", "processed", "backoff"}
  /\ attempt \in Nat
  /\ copies \in Nat
  /\ updates \in Nat
  /\ Active => OnItsWay
  /\ SentMeansProcessed
  /\ ControlComesWithAcceptance
  /\ GivenUpForAReason

LEMMA InitIInv ==
  ASSUME Init
  PROVE  IInv
BY DEF Init, IInv, Active, SentMeansProcessed, ControlComesWithAcceptance, GivenUpForAReason

\* An attempt without a final word keeps the invariant, whether or not the
\* loop goes on.
LEMMA AgainKeepsIInv ==
  ASSUME IInv, InFlight, Again, NEW word \in {"retry", "lost"},
         heard' = heard \cup {word}, UNCHANGED <<copies, updates>>
  PROVE  IInv'
<1>1. OnItsWay
  BY DEF IInv, Active, InFlight
<1>2. attempt' = attempt + 1 /\ attempt' \in Nat /\ attempt' > 0
  BY DEF Again, IInv
<1>3. heard' \subseteq {"retry", "lost"} /\ heard' # {}
  BY <1>1 DEF OnItsWay
<1>4. copies <= attempt'
  BY <1>1, <1>2, TransportAssumption DEF OnItsWay, IInv, InFlight
<1>5. CASE attempt + 1 > MaxRetries
  <2>1. phase' = "idle" /\ result' = "exhausted"
    BY <1>2, <1>5, TransportAssumption DEF Again, Return, IInv
  <2>2. attempt' = MaxRetries + 1
    BY <1>1, <1>2, <1>5, TransportAssumption DEF OnItsWay, IInv
  <2> QED
    BY <1>1, <1>2, <1>3, <1>4, <2>1, <2>2
       DEF IInv, Active, OnItsWay, SentMeansProcessed, ControlComesWithAcceptance,
           GivenUpForAReason
<1>6. CASE attempt + 1 <= MaxRetries
  <2>1. phase' = "backoff" /\ result' = "none" /\ attempt' <= MaxRetries
    BY <1>1, <1>2, <1>6, TransportAssumption DEF Again, Return, IInv, OnItsWay
  <2> QED
    BY <1>1, <1>2, <1>3, <1>4, <2>1
       DEF IInv, Active, OnItsWay, SentMeansProcessed, ControlComesWithAcceptance,
           GivenUpForAReason
<1> QED
  BY <1>5, <1>6, TransportAssumption DEF IInv

LEMMA NextKeepsIInv ==
  ASSUME IInv, [Next]_vars
  PROVE  IInv'
<1> USE DEF IInv, Active, OnItsWay, SentMeansProcessed, ControlComesWithAcceptance,
            GivenUpForAReason
<1>1. CASE SendBatch
  BY <1>1, TransportAssumption DEF SendBatch
<1>2. ASSUME NEW how \in {"empty", "malformed"}, SendNothing(how)
      PROVE  IInv'
  BY <1>2 DEF SendNothing, Return
<1>3. CASE Process
  BY <1>3 DEF Process
<1>4. CASE Do
  BY <1>4 DEF Do, historyVars
<1>5. ASSUME NEW seconds \in 0..left, NEW control \in BOOLEAN, Accepted(seconds, control)
      PROVE  IInv'
  BY <1>5 DEF Accepted, Return
<1>6. ASSUME NEW seconds \in 0..left, Refused(seconds)
      PROVE  IInv'
  <2>1. OnItsWay
    BY <1>6 DEF Refused, InFlight
  <2>2. /\ phase' = "idle" /\ result' = "refused"
        /\ heard' = heard \cup {"4xx"}
        /\ UNCHANGED <<attempt, copies, updates>>
    BY <1>6 DEF Refused, Return
  <2> QED
    BY <2>1, <2>2
<1>7. ASSUME NEW seconds \in 0..left, Unavailable(seconds)
      PROVE  IInv'
  BY <1>7, AgainKeepsIInv DEF Unavailable
<1>8. ASSUME NEW seconds \in 0..left, Fail(seconds)
      PROVE  IInv'
  BY <1>8, AgainKeepsIInv DEF Fail
<1>9. CASE Wait
  BY <1>9 DEF Wait, historyVars
<1>10. CASE GiveUp
  BY <1>10 DEF GiveUp, Return, historyVars
<1>11. CASE UNCHANGED vars
  BY <1>11 DEF vars, historyVars
<1> QED
  BY <1>1, <1>2, <1>3, <1>4, <1>5, <1>6, <1>7, <1>8, <1>9, <1>10, <1>11
     DEF Next, Step, Answer

-----------------------------------------------------------------------------
\* A batch reported as sent was processed, and a duplicate has a cause.
THEOREM OkIsProcessed == SafeSpec => []SentMeansProcessed
<1>1. Init => IInv
  BY InitIInv
<1>2. IInv /\ [Next]_vars => IInv'
  BY NextKeepsIInv
<1>3. IInv => SentMeansProcessed
  BY DEF IInv
<1> QED
  BY <1>1, <1>2, <1>3, PTL DEF SafeSpec

\* At most one control payload for each batch, and from an acceptance only.
THEOREM ControlIsAccepted == SafeSpec => []ControlComesWithAcceptance
<1>1. Init => IInv
  BY InitIInv
<1>2. IInv /\ [Next]_vars => IInv'
  BY NextKeepsIInv
<1>3. IInv => ControlComesWithAcceptance
  BY DEF IInv
<1> QED
  BY <1>1, <1>2, <1>3, PTL DEF SafeSpec

\* Every batch that is given up was refused, out of attempts or out of time.
THEOREM GivenUpWithReason == SafeSpec => []GivenUpForAReason
<1>1. Init => IInv
  BY InitIInv
<1>2. IInv /\ [Next]_vars => IInv'
  BY NextKeepsIInv
<1>3. IInv => GivenUpForAReason
  BY DEF IInv
<1> QED
  BY <1>1, <1>2, <1>3, PTL DEF SafeSpec

\* Only Do puts a batch on the wire, and then no attempt has had a final word.
THEOREM FinalWordEndsRetries == SafeSpec => SettledIsFinal
<1>1. Init => IInv
  BY InitIInv
<1>2. IInv /\ [Next]_vars => IInv'
  BY NextKeepsIInv
<1>3. IInv /\ [Next]_vars =>
        [phase' = "flight" /\ phase # "flight" => heard \cap {"2xx", "4xx"} = {}]_vars
  <2>1. ASSUME IInv, Next, phase' = "flight", phase # "flight"
        PROVE  phase = "ready"
    BY <2>1
       DEF Next, Step, Answer, SendBatch, SendNothing, Process, Do, Accepted, Refused,
           Unavailable, Fail, Wait, GiveUp, Again, Return
  <2>2. ASSUME IInv, phase = "ready"
        PROVE  heard \cap {"2xx", "4xx"} = {}
    BY <2>2 DEF IInv, Active, OnItsWay
  <2> QED
    BY <2>1, <2>2
<1> QED
  BY <1>1, <1>2, <1>3, PTL DEF SafeSpec, SettledIsFinal

-----------------------------------------------------------------------------
(***************************************************************************)
(* Powers of two.  That the recursive definition of PowerOfTwo has a       *)
(* solution, and what it is like, goes by induction, in the form of sets:  *)
(* the least number outside a set would have a predecessor inside.         *)
(***************************************************************************)
\* A set of numbers that has 0, and the successor of each of its members, has all.
LEMMA NatSetInduction ==
  ASSUME NEW S, 0 \in S, \A n \in Nat : n \in S => n + 1 \in S
  PROVE  Nat \subseteq S
<1> SUFFICES ASSUME Nat \ S # {}
             PROVE  FALSE
  OBVIOUS
<1> DEFINE T == Nat \ S
<1>1. PICK x \in T : \A y \in T : <<y, x>> \notin OpToRel(<, Nat)
  <2>1. T \subseteq Nat /\ T # {}
    OBVIOUS
  <2> HIDE DEF T
  <2> QED
    BY <2>1, NatLessThanWellFounded, WFMin
<1>2. x \in Nat /\ x # 0 /\ x - 1 \in Nat /\ (x - 1) + 1 = x /\ x - 1 < x
  OBVIOUS
<1>3. <<x - 1, x>> \in OpToRel(<, Nat)
  BY <1>2 DEF OpToRel
<1>4. x - 1 \in S
  BY <1>1, <1>2, <1>3
<1> QED
  BY <1>2, <1>4

\* The beginning of the sequence of powers, up to the k-th.
Powers(k) == {g \in [0..k -> Nat] : g[0] = 1 /\ \A n \in 1..k : g[n] = 2 * g[n - 1]}

LEMMA PowersExist ==
  \A k \in Nat : Powers(k) # {}
<1> DEFINE S == {k \in Nat : Powers(k) # {}}
<1>1. 0 \in S
  <2>1. [n \in 0..0 |-> 1] \in Powers(0)
    BY DEF Powers
  <2> QED
    BY <2>1
<1>2. ASSUME NEW k \in Nat, k \in S
      PROVE  k + 1 \in S
  <2>1. PICK g : g \in Powers(k)
    BY <1>2
  <2>2. g \in [0..k -> Nat] /\ g[0] = 1 /\ \A n \in 1..k : g[n] = 2 * g[n - 1]
    BY <2>1 DEF Powers
  <2> DEFINE h == [n \in 0..(k + 1) |-> IF n = k + 1 THEN 2 * g[k] ELSE g[n]]
  <2>3. \A n \in 0..k : n \in 0..(k + 1) /\ h[n] = g[n]
    OBVIOUS
  <2>4. h[k + 1] = 2 * g[k] /\ g[k] \in Nat
    BY <2>2
  <2>5. h \in [0..(k + 1) -> Nat]
    BY <2>2
  <2> HIDE DEF h
  <2>6. ASSUME NEW n \in 1..(k + 1)
        PROVE  h[n] = 2 * h[n - 1]
    <3>1. n - 1 \in 0..k /\ h[n - 1] = g[n - 1]
      BY <2>3
    <3>2. CASE n = k + 1
      <4>1. n - 1 = k
        BY <3>2
      <4> QED
        BY <2>4, <3>1, <3>2, <4>1
    <3>3. CASE n # k + 1
      <4>1. n \in 1..k /\ n \in 0..k
        BY <3>3
      <4> QED
        BY <2>2, <2>3, <3>1, <4>1
    <3> QED
      BY <3>2, <3>3
  <2>7. h[0] = 1
    BY <2>2, <2>3
  <2>8. h \in Powers(k + 1)
    BY <2>5, <2>6, <2>7 DEF Powers
  <2> QED
    BY <2>8
<1> HIDE DEF S
<1>3. Nat \subseteq S
  BY <1>1, <1>2, NatSetInduction
<1> QED
  BY <1>3 DEF S

\* Two beginnings agree as far as both of them go.
LEMMA PowersAgree ==
  ASSUME NEW k \in Nat, NEW l \in Nat, NEW g \in Powers(k), NEW h \in Powers(l)
  PROVE  \A n \in Nat : n <= k /\ n <= l => g[n] = h[n]
<1> DEFINE S == {n \in Nat : n <= k /\ n <= l => g[n] = h[n]}
<1>1. 0 \in S
  BY DEF Powers
<1>2. ASSUME NEW n \in Nat, n \in S
      PROVE  n + 1 \in S
  <2> SUFFICES ASSUME n + 1 <= k, n + 1 <= l
               PROVE  g[n + 1] = h[n + 1]
    OBVIOUS
  <2>1. n + 1 \in 1..k /\ n + 1 \in 1..l /\ (n + 1) - 1 = n
    OBVIOUS
  <2>2. g[n + 1] = 2 * g[n] /\ h[n + 1] = 2 * h[n]
    BY <2>1 DEF Powers
  <2> QED
    BY <1>2, <2>2
<1> HIDE DEF S
<1>3. Nat \subseteq S
  BY <1>1, <1>2, NatSetInduction
<1> QED
  BY <1>3 DEF S

\* The recursive definition has a solution, so it says what it seems to say.
LEMMA PowerOfTwoDef ==
  PowerOfTwo = [n \in Nat |-> IF n = 0 THEN 1 ELSE 2 * PowerOfTwo[n - 1]]
<1> DEFINE G(k) == CHOOSE g : g \in Powers(k)
           f == [n \in Nat |-> G(n)[n]]
<1>1. \A k \in Nat : G(k) \in Powers(k)
  BY PowersExist
<1> HIDE DEF G
<1>2. ASSUME NEW n \in Nat
      PROVE  f[n] = IF n = 0 THEN 1 ELSE 2 * f[n - 1]
  <2>1. G(n) \in Powers(n)
    BY <1>1
  <2>2. CASE n = 0
    BY <2>1, <2>2 DEF Powers
  <2>3. CASE n # 0
    <3>1. n - 1 \in Nat /\ n - 1 <= n /\ n \in 1..n
      BY <2>3
    <3>2. G(n)[n] = 2 * G(n)[n - 1]
      BY <2>1, <3>1 DEF Powers
    <3>3. G(n - 1) \in Powers(n - 1)
      BY <1>1, <3>1
    <3>4. G(n)[n - 1] = G(n - 1)[n - 1]
      BY <2>1, <3>1, <3>3, PowersAgree
    <3> QED
      BY <2>3, <3>1, <3>2, <3>4
  <2> QED
    BY <2>2, <2>3
<1>3. f = [n \in Nat |-> IF n = 0 THEN 1 ELSE 2 * f[n - 1]]
  BY <1>2
<1> HIDE DEF f
<1> QED
  BY <1>3, Zenon DEF PowerOfTwo

LEMMA PowerOfTwoStep ==
  /\ PowerOfTwo[0] = 1
  /\ \A n \in Nat : PowerOfTwo[n + 1] = 2 * PowerOfTwo[n]
<1> DEFINE f == PowerOfTwo
<1>1. f = [n \in Nat |-> IF n = 0 THEN 1 ELSE 2 * f[n - 1]]
  BY PowerOfTwoDef
<1> HIDE DEF f
<1>2. \A n \in Nat : f[n] = IF n = 0 THEN 1 ELSE 2 * f[n - 1]
  BY <1>1, Zenon
<1>3. f[0] = 1
  BY <1>2
<1>4. ASSUME NEW n \in Nat
      PROVE  f[n + 1] = 2 * f[n]
  <2>1. n + 1 \in Nat /\ n + 1 # 0 /\ (n + 1) - 1 = n
    OBVIOUS
  <2> QED
    BY <1>2, <2>1
<1> QED
  BY <1>3, <1>4 DEF f

LEMMA PowerOfTwoType ==
  \A n \in Nat : PowerOfTwo[n] \in Nat /\ PowerOfTwo[n] >= 1
<1> DEFINE S == {n \in Nat : PowerOfTwo[n] \in Nat /\ PowerOfTwo[n] >= 1}
<1>1. 0 \in S
  BY PowerOfTwoStep
<1>2. ASSUME NEW n \in Nat, n \in S
      PROVE  n + 1 \in S
  BY <1>2, PowerOfTwoStep
<1> HIDE DEF S
<1>3. Nat \subseteq S
  BY <1>1, <1>2, NatSetInduction
<1> QED
  BY <1>3 DEF S

-----------------------------------------------------------------------------
(***************************************************************************)
(* Time.  A backoff is as long as all the earlier ones together, and one   *)
(* second more.                                                            *)
(***************************************************************************)
TimeInv ==
  /\ TypeOK
  /\ RetriesArePaced
  /\ phase = "backoff" => Deadline - left >= PowerOfTwo[attempt - 1] - 1

LEMMA InitTimeInv ==
  ASSUME Init
  PROVE  TimeInv
BY TransportAssumption DEF Init, TimeInv, TypeOK, RetriesArePaced

LEMMA AgainKeepsTimeInv ==
  ASSUME IInv, TimeInv, InFlight, Again, NEW seconds \in 0..left, left' = left - seconds,
         NEW word \in {"retry", "lost"}, heard' = heard \cup {word}, UNCHANGED <<copies, updates>>
  PROVE  TimeInv'
<1>1. /\ attempt \in Nat /\ attempt <= MaxRetries /\ attempt' = attempt + 1
      /\ MaxRetries \in Nat /\ Deadline \in Nat
  BY TransportAssumption DEF IInv, OnItsWay, Active, InFlight, Again
<1>2. left \in 0..Deadline /\ left' \in 0..Deadline /\ left' <= left
  BY <1>1 DEF TimeInv, TypeOK
<1>3. heard' \subseteq {"2xx", "4xx", "retry", "lost"} /\ copies' \in Nat /\ updates' \in Nat
  BY DEF TimeInv, TypeOK
<1>4. /\ phase' \in {"idle", "backoff"}
      /\ result' \in {"none", "ok", "empty", "malformed", "refused", "expired", "exhausted"}
  BY DEF Again, Return, TimeInv, TypeOK
<1>5. attempt' \in 0..(MaxRetries + 1)
  BY <1>1
<1>6. TypeOK'
  BY <1>2, <1>3, <1>4, <1>5 DEF TypeOK
<1>7. Deadline - left' >= PowerOfTwo[attempt' - 1] - 1
  <2>1. Deadline - left >= PowerOfTwo[attempt] - 1
    BY DEF TimeInv, RetriesArePaced, InFlight
  <2>2. attempt' - 1 = attempt /\ PowerOfTwo[attempt] \in Nat
    BY <1>1, PowerOfTwoType
  <2> QED
    BY <1>1, <1>2, <2>1, <2>2
<1> QED
  BY <1>4, <1>6, <1>7 DEF TimeInv, RetriesArePaced

LEMMA NextKeepsTimeInv ==
  ASSUME IInv, TimeInv, [Next]_vars
  PROVE  TimeInv'
<1> USE DEF TimeInv, TypeOK, RetriesArePaced
<1>1. MaxRetries \in Nat /\ Deadline \in Nat /\ PowerOfTwo[0] = 1
  BY TransportAssumption, PowerOfTwoStep
<1>2. CASE SendBatch
  BY <1>1, <1>2 DEF SendBatch
<1>3. ASSUME NEW how \in {"empty", "malformed"}, SendNothing(how)
      PROVE  TimeInv'
  BY <1>1, <1>3 DEF SendNothing, Return
<1>4. CASE Process
  BY <1>4 DEF Process
<1>5. CASE Do
  BY <1>5 DEF Do, historyVars
<1>6. ASSUME NEW seconds \in 0..left, NEW control \in BOOLEAN, Accepted(seconds, control)
      PROVE  TimeInv'
  BY <1>1, <1>6 DEF Accepted, Return
<1>7. ASSUME NEW seconds \in 0..left, Refused(seconds)
      PROVE  TimeInv'
  BY <1>1, <1>7 DEF Refused, Return
<1>8. ASSUME NEW seconds \in 0..left, Unavailable(seconds)
      PROVE  TimeInv'
  BY <1>8, AgainKeepsTimeInv DEF Unavailable
<1>9. ASSUME NEW seconds \in 0..left, Fail(seconds)
      PROVE  TimeInv'
  BY <1>9, AgainKeepsTimeInv DEF Fail
<1>10. CASE Wait
  <2>1. attempt \in Nat /\ attempt - 1 \in Nat /\ (attempt - 1) + 1 = attempt
    BY <1>10 DEF Wait, IInv, Active, OnItsWay
  <2>2. /\ PowerOfTwo[attempt] = 2 * PowerOfTwo[attempt - 1]
        /\ PowerOfTwo[attempt - 1] \in Nat
    BY <2>1, PowerOfTwoStep, PowerOfTwoType
  <2>3. /\ left' = left - PowerOfTwo[attempt - 1] /\ left >= PowerOfTwo[attempt - 1]
        /\ phase' = "ready" /\ UNCHANGED <<attempt, result, heard, copies, updates>>
    BY <1>10 DEF Wait, Backoff, historyVars
  <2>4. Deadline - left >= PowerOfTwo[attempt - 1] - 1
    BY <1>10 DEF Wait
  <2>5. left' \in 0..Deadline
    BY <1>1, <2>2, <2>3
  <2>6. Deadline - left' >= PowerOfTwo[attempt] - 1
    BY <1>1, <2>2, <2>3, <2>4
  <2> QED
    BY <2>3, <2>5, <2>6
<1>11. CASE GiveUp
  BY <1>1, <1>11 DEF GiveUp, Return, historyVars
<1>12. CASE UNCHANGED vars
  BY <1>12 DEF vars, historyVars
<1> QED
  BY <1>2, <1>3, <1>4, <1>5, <1>6, <1>7, <1>8, <1>9, <1>10, <1>11, <1>12
     DEF Next, Step, Answer

\* The loop makes at most MaxRetries + 1 attempts within its deadline.
THEOREM TypeInvariant == SafeSpec => []TypeOK
<1>1. Init => IInv /\ TimeInv
  BY InitIInv, InitTimeInv
<1>2. IInv /\ TimeInv /\ [Next]_vars => (IInv /\ TimeInv)'
  BY NextKeepsIInv, NextKeepsTimeInv
<1>3. TimeInv => TypeOK
  BY DEF TimeInv
<1> QED
  BY <1>1, <1>2, <1>3, PTL DEF SafeSpec

\* However answers, losses and timers interleave, attempt n begins at least
\* 2^n - 1 seconds after the first.
THEOREM BackoffDoubles == SafeSpec => []RetriesArePaced
<1>1. Init => IInv /\ TimeInv
  BY InitIInv, InitTimeInv
<1>2. IInv /\ TimeInv /\ [Next]_vars => (IInv /\ TimeInv)'
  BY NextKeepsIInv, NextKeepsTimeInv
<1>3. TimeInv => RetriesArePaced
  BY DEF TimeInv
<1> QED
  BY <1>1, <1>2, <1>3, PTL DEF SafeSpec

-----------------------------------------------------------------------------
(***************************************************************************)
(* The abstract specification.                                             *)
(***************************************************************************)
\* A step of the transport is a step of Delivery or none.  That a copy is within
\* the bound, and that there is one when sendBatch returns nil, is OnItsWay.
LEMMA NextRefines ==
  ASSUME IInv, [Next]_vars
  PROVE  [Batch!Next]_(Batch!vars)
<1> USE DEF Batch!vars
<1>1. Active => OnItsWay
  BY DEF IInv
<1>2. ASSUME Active, phase' = "idle", copies' = copies,
             result' \in {"ok", "refused", "expired", "exhausted"},
             result' = "ok" => copies > 0
      PROVE  Batch!Return
  BY <1>2 DEF Batch!Return, Active
<1>3. CASE SendBatch
  BY <1>3 DEF SendBatch, Batch!Next, Batch!Begin
<1>4. ASSUME NEW how \in {"empty", "malformed"}, SendNothing(how)
      PROVE  Batch!Next
  BY <1>4 DEF SendNothing, Return, Batch!Next, Batch!Skip
<1>5. CASE Process
  <2>1. copies < MaxRetries + 1
    BY <1>1, <1>5, TransportAssumption DEF Process, Active, OnItsWay, IInv
  <2> QED
    BY <1>5, <2>1 DEF Process, Batch!Next, Batch!Process
<1>6. CASE Do \/ Wait
  BY <1>6 DEF Do, Wait, historyVars
<1>7. ASSUME NEW seconds \in 0..left, NEW control \in BOOLEAN, Accepted(seconds, control)
      PROVE  Batch!Next
  <2>1. copies > 0
    BY <1>1, <1>7 DEF Accepted, Active, OnItsWay, IInv
  <2> QED
    BY <1>2, <1>7, <2>1 DEF Accepted, Return, Active, Batch!Next
<1>8. ASSUME NEW seconds \in 0..left, Refused(seconds)
      PROVE  Batch!Next
  <2>1. Active /\ phase' = "idle" /\ copies' = copies /\ result' = "refused"
    BY <1>8 DEF Refused, InFlight, Return, Active
  <2> QED
    BY <1>2, <2>1 DEF Batch!Next
<1>9. ASSUME InFlight, Again, copies' = copies
      PROVE  Batch!Next \/ UNCHANGED Batch!vars
  <2>1. CASE phase' = "idle"
    <3>1. Active /\ result' = "exhausted"
      BY <1>9, <2>1 DEF InFlight, Again, Return, Active
    <3> QED
      BY <1>2, <1>9, <2>1, <3>1 DEF Batch!Next
  <2>2. CASE phase' = "backoff"
    BY <1>9, <2>2 DEF InFlight, Again, Return
  <2> QED
    BY <1>9, <2>1, <2>2 DEF Again, Return
<1>10. ASSUME NEW seconds \in 0..left, Unavailable(seconds) \/ Fail(seconds)
       PROVE  Batch!Next \/ UNCHANGED Batch!vars
  BY <1>9, <1>10 DEF Unavailable, Fail
<1>11. CASE GiveUp
  <2>1. Active /\ phase' = "idle" /\ copies' = copies /\ result' = "expired"
    BY <1>11 DEF GiveUp, Return, historyVars, Active
  <2> QED
    BY <1>2, <2>1 DEF Batch!Next
<1>12. CASE UNCHANGED vars
  BY <1>12 DEF vars, historyVars
<1> QED
  BY <1>3, <1>4, <1>5, <1>6, <1>7, <1>8, <1>10, <1>11, <1>12 DEF Next, Step, Answer

\* sendBatch keeps the promises of Delivery: at least once for nil, at most once
\* for each attempt, and never after it has returned.
THEOREM TransportImplementsDelivery == SafeSpec => ImplementsDeliverySafely
<1>1. Init => Batch!Init
  BY DEF Init, Batch!Init
<1>2. Init => IInv
  BY InitIInv
<1>3. IInv /\ [Next]_vars => IInv'
  BY NextKeepsIInv
<1>4. IInv /\ [Next]_vars => [Batch!Next]_(Batch!vars)
  BY NextRefines
<1> QED
  BY <1>1, <1>2, <1>3, <1>4, PTL DEF SafeSpec, ImplementsDeliverySafely, Batch!SafeSpec

-----------------------------------------------------------------------------
(***************************************************************************)
(* Why sendBatch returns.  Every step of a batch, also that of the         *)
(* backend, leaves fewer of them.                                          *)
(***************************************************************************)
Remaining ==
  CASE phase = "backoff"   -> 4 * (MaxRetries + 1 - attempt) + 4
    [] phase = "ready"     -> 4 * (MaxRetries + 1 - attempt) + 3
    [] phase = "flight"    -> 4 * (MaxRetries + 1 - attempt) + 2
    [] phase = "processed" -> 4 * (MaxRetries + 1 - attempt) + 1
    [] OTHER               -> 0

StepsAreCounted == [][phase # "idle" => Remaining' < Remaining]_vars

\* A batch takes 4 * MaxRetries + 7 steps at most, however answers, losses and
\* timers interleave and however short the backoffs are.
THEOREM StepsRunOut ==
  SafeSpec => /\ [](Remaining \in 0..(4 * MaxRetries + 7))
              /\ StepsAreCounted
<1> USE TransportAssumption
<1>1. ASSUME IInv
      PROVE  /\ Remaining \in 0..(4 * MaxRetries + 7)
             /\ phase # "idle" => attempt \in Nat /\ attempt <= MaxRetries
  BY <1>1 DEF IInv, Active, OnItsWay, Remaining
<1>2. ASSUME IInv, Next, phase # "idle"
      PROVE  Remaining' < Remaining
  <2>1. attempt \in Nat /\ attempt <= MaxRetries /\ MaxRetries \in Nat
    BY <1>1, <1>2
  <2>2. CASE phase' = "idle"
    BY <1>2, <2>1, <2>2 DEF Remaining, IInv
  <2>3. CASE Process
    BY <2>1, <2>3 DEF Process, Remaining
  <2>4. CASE Do
    BY <2>1, <2>4 DEF Do, Remaining
  <2>5. CASE Wait
    BY <2>1, <2>5 DEF Wait, historyVars, Remaining
  <2>6. ASSUME InFlight, Again, phase' # "idle"
        PROVE  Remaining' < Remaining
    BY <2>1, <2>6 DEF InFlight, Again, Return, Remaining
  <2> QED
    BY <1>2, <2>2, <2>3, <2>4, <2>5, <2>6
       DEF Next, Step, Answer, SendBatch, SendNothing, Accepted, Refused, Unavailable, Fail,
           GiveUp, Return
<1>3. IInv /\ [Next]_vars => [phase # "idle" => Remaining' < Remaining]_vars
  BY <1>2
<1>4. Init => IInv
  BY InitIInv
<1>5. IInv /\ [Next]_vars => IInv'
  BY NextKeepsIInv
<1>6. IInv => Remaining \in 0..(4 * MaxRetries + 7)
  BY <1>1
<1> QED
  BY <1>3, <1>4, <1>5, <1>6, PTL DEF SafeSpec, StepsAreCounted
=============================================================================
