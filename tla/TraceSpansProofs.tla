------------------------- MODULE TraceSpansProofs -------------------------
(***************************************************************************)
(* Proofs about TraceSpans for every set of traces and spans and every     *)
(* length of the stream.                                                   *)
(***************************************************************************)
EXTENDS TraceSpans, FiniteSetTheorems, TLAPS

-----------------------------------------------------------------------------
(***************************************************************************)
(* Halts.  While a call is under way the registry's present value is among *)
(* those it has seen, so whatever the halt check finds has been seen.      *)
(***************************************************************************)
HaltInv ==
  /\ halted \in BOOLEAN
  /\ seen \in [Traces -> SUBSET BOOLEAN]
  /\ trace \in [Traces -> {"none", "called", "checked", "attached", "open", "halted"}]
  /\ \A t \in Traces : trace[t] \in {"called", "checked", "attached"} => halted \in seen[t]
  /\ HaltIsObserved

LEMMA NextKeepsHaltInv ==
  ASSUME HaltInv, [Next]_vars
  PROVE  HaltInv'
<1> USE DEF HaltInv, HaltIsObserved
<1>1. CASE ControlArrives
  <2>1. halted' = ~halted /\ halted' \in BOOLEAN /\ UNCHANGED trace
    BY <1>1 DEF ControlArrives
  <2>2. seen' = [t \in Traces |->
                   IF trace[t] \in {"called", "checked", "attached"}
                     THEN seen[t] \cup {halted'} ELSE seen[t]]
    BY <1>1 DEF ControlArrives
  <2>3. seen' \in [Traces -> SUBSET BOOLEAN]
    BY <2>1, <2>2
  <2>4. \A t \in Traces : seen[t] \subseteq seen'[t]
    BY <2>2
  <2> QED
    BY <2>1, <2>2, <2>3, <2>4
<1>2. ASSUME NEW t \in Traces, TraceCall(t)
      PROVE  HaltInv'
  <2>1. {halted} \in SUBSET BOOLEAN
    OBVIOUS
  <2> QED
    BY <1>2, <2>1 DEF TraceCall
<1>3. ASSUME NEW t \in Traces, TraceCheck(t)
      PROVE  HaltInv'
  <2>1. halted \in seen[t] /\ UNCHANGED <<halted, seen>>
    BY <1>3 DEF TraceCheck
  <2>2. CASE halted
    BY <1>3, <2>1, <2>2 DEF TraceCheck
  <2>3. CASE ~halted
    <3>1. halted = FALSE
      BY <2>3
    <3> QED
      BY <1>3, <2>1, <2>3, <3>1 DEF TraceCheck
  <2> QED
    BY <2>2, <2>3
<1>4. ASSUME NEW t \in Traces, TraceTake(t)
      PROVE  HaltInv'
  BY <1>4 DEF TraceTake
<1>5. ASSUME NEW t \in Traces, TraceStart(t)
      PROVE  HaltInv'
  BY <1>5 DEF TraceStart
<1>6. ASSUME UNCHANGED <<halted, trace, seen>>
      PROVE  HaltInv'
  BY <1>6
<1>7. ASSUME NEW t, NEW s, NEW parent, Span(t, s, parent)
      PROVE  UNCHANGED <<halted, trace, seen>>
  BY <1>7 DEF Span
<1>8. ASSUME NEW t, NEW x, NEW o, Point(t, x) \/ TraceEnd(t, x, o)
      PROVE  UNCHANGED <<halted, trace, seen>>
  BY <1>8 DEF Point, TraceEnd
<1>9. ASSUME NEW s, NEW x, SetField(s, x) \/ SetStatus(s, x)
      PROVE  UNCHANGED <<halted, trace, seen>>
  BY <1>9 DEF SetField, SetStatus
<1>10. ASSUME NEW s, SpanEnd(s) \/ SpanEndWithError(s)
       PROVE  UNCHANGED <<halted, trace, seen>>
  BY <1>10 DEF SpanEnd, SpanEndWithError
<1>11. UNCHANGED vars => UNCHANGED <<halted, trace, seen>>
  BY DEF vars
<1> QED
  BY <1>1, <1>2, <1>3, <1>4, <1>5, <1>6, <1>7, <1>8, <1>9, <1>10, <1>11 DEF Next

\* However control payloads interleave with TraceWithControl, a trace is open
\* or halted because the agent was running or halted during the call.
THEOREM HaltIsNeverMissed == Spec => []HaltIsObserved
<1>1. Init => HaltInv
  BY DEF Init, HaltInv, HaltIsObserved
<1>2. HaltInv /\ [Next]_vars => HaltInv'
  BY NextKeepsHaltInv
<1>3. HaltInv => HaltIsObserved
  BY DEF HaltInv
<1> QED
  BY <1>1, <1>2, <1>3, PTL DEF Spec

-----------------------------------------------------------------------------
(***************************************************************************)
(* Types, and the status of a reported span.  A span that was created has  *)
(* a trace, so no setter makes it look like one that was not; and an error *)
(* message is only ever set together with the flag that keeps every later  *)
(* End from reporting the span again.                                      *)
(***************************************************************************)
StatusOK(e) == e.type = "span" => e.status # "" /\ (e.error => e.status = "error")

StatusInv ==
  /\ TypeOK
  /\ \A s \in Spans : Created(s) => span[s].trace \in Traces
  /\ \A s \in Spans : span[s].error => s \in ended
  /\ StatusIsDefinite

LEMMA InitStatusInv ==
  ASSUME Init
  PROVE  StatusInv
<1>1. NoSpan \in SpanRecord
  BY DEF NoSpan, SpanRecord
<1>2. \A s \in Spans : ~Created(s) /\ ~span[s].error
  BY DEF Init, Created, NoSpan
<1>3. stream \in Seq(TelemetryEvent) /\ Len(stream) = 0
  BY DEF Init
<1>4. TypeOK
  BY <1>1, <1>3 DEF Init, TypeOK
<1>5. StatusIsDefinite
  <2>1. \A i \in 1..Len(stream) : FALSE
    BY <1>3
  <2> QED
    BY <2>1 DEF StatusIsDefinite
<1> QED
  BY <1>2, <1>4, <1>5 DEF StatusInv

\* An event at the end of the stream disturbs nothing if it is fit itself.
LEMMA EnqueueKeeps ==
  ASSUME TypeOK, StatusIsDefinite, NEW e \in TelemetryEvent, StatusOK(e), Enqueue(e)
  PROVE  stream' \in Seq(TelemetryEvent) /\ StatusIsDefinite'
<1>1. /\ stream' \in Seq(TelemetryEvent)
      /\ Len(stream') = Len(stream) + 1
      /\ stream'[Len(stream) + 1] = e
      /\ \A i \in 1..Len(stream) : stream'[i] = stream[i]
  BY DEF TypeOK, Enqueue
<1>2. \A i \in 1..Len(stream') : i \in 1..Len(stream) \/ i = Len(stream) + 1
  BY <1>1 DEF TypeOK
<1> QED
  BY <1>1, <1>2 DEF StatusIsDefinite, StatusOK

\* The events without a span, and those of a span, are fit.
LEMMA PlainEvent ==
  ASSUME NEW type \in Points \cup {"trace_start", "trace_end"}, NEW t \in Traces \cup {NoId}
  PROVE  Event(type, t) \in TelemetryEvent /\ StatusOK(Event(type, t))
BY DEF Event, TelemetryEvent, StatusOK, Points

LEMMA EndEventFits ==
  ASSUME NEW t \in Traces, NEW status \in Statuses, NEW options
  PROVE  EndEvent(t, status, options) \in TelemetryEvent /\ StatusOK(EndEvent(t, status, options))
<1>1. options \cap {"output"} \in SUBSET Fields
  BY DEF Fields
<1>2. ("error" \in options) \in BOOLEAN
  OBVIOUS
<1> QED
  BY <1>1, <1>2 DEF Event, EndEvent, TelemetryEvent, StatusOK, Points

LEMMA SpanEventFits ==
  ASSUME TypeOK, NEW s \in Spans, NEW status \in Statuses, NEW error \in BOOLEAN,
         status # "", error => status = "error"
  PROVE  SpanEvent(s, status, error) \in TelemetryEvent /\ StatusOK(SpanEvent(s, status, error))
<1>1. span[s].trace \in Traces \cup {NoId} /\ span[s].fields \subseteq Fields
  BY DEF TypeOK, SpanRecord
<1> QED
  BY <1>1 DEF SpanEvent, TelemetryEvent, StatusOK

\* A step that gives a created span another record of the same trace.
LEMMA SpanKeeps ==
  ASSUME StatusInv, NEW s \in Spans, NEW r \in SpanRecord, r.trace \in Traces,
         span' = [span EXCEPT ![s] = r], ended \subseteq ended',
         r.error => s \in ended'
  PROVE  /\ span' \in [Spans -> SpanRecord]
         /\ \A x \in Spans : Created(x) => Created(x)'
         /\ \A x \in Spans : Created(x)' => span'[x].trace \in Traces
         /\ \A x \in Spans : span'[x].error => x \in ended'
         /\ Created(s)'
<1>1. r # NoSpan
  <2>1. NoSpan.trace = NoId
    BY DEF NoSpan
  <2>2. NoId \notin Traces
    BY TraceAssumption
  <2> QED
    BY <2>1, <2>2
<1>2. span' \in [Spans -> SpanRecord]
  BY DEF StatusInv, TypeOK
<1>3. span'[s] = r /\ \A x \in Spans \ {s} : span'[x] = span[x]
  BY DEF StatusInv, TypeOK
<1> QED
  BY <1>1, <1>2, <1>3 DEF StatusInv, Created

LEMMA NextKeepsStatusInv ==
  ASSUME StatusInv, [Next]_vars
  PROVE  StatusInv'
<1>1. ASSUME UNCHANGED <<ended, span, stream>>, halted' \in BOOLEAN,
             seen' \in [Traces -> SUBSET BOOLEAN],
             trace' \in [Traces -> {"none", "called", "checked", "attached", "open", "halted"}],
             \A t \in Traces : Returned(t) => Returned(t)'
      PROVE  StatusInv'
  BY <1>1 DEF StatusInv, TypeOK, StatusIsDefinite, Created
<1>2. CASE ControlArrives
  <2>1. seen' \in [Traces -> SUBSET BOOLEAN]
    BY <1>2 DEF ControlArrives, StatusInv, TypeOK
  <2> QED
    BY <1>1, <1>2, <2>1 DEF ControlArrives, StatusInv, TypeOK, Returned
<1>3. ASSUME NEW t \in Traces, TraceCall(t)
      PROVE  StatusInv'
  <2>1. {halted} \in SUBSET BOOLEAN
    BY DEF StatusInv, TypeOK
  <2> QED
    BY <1>1, <1>3, <2>1 DEF TraceCall, StatusInv, TypeOK, Returned
<1>4. ASSUME NEW t \in Traces, TraceCheck(t) \/ TraceTake(t)
      PROVE  StatusInv'
  BY <1>1, <1>4 DEF TraceCheck, TraceTake, StatusInv, TypeOK, Returned
<1>5. ASSUME NEW t \in Traces, TraceStart(t)
      PROVE  StatusInv'
  <2>1. stream' \in Seq(TelemetryEvent) /\ StatusIsDefinite'
    BY <1>5, PlainEvent, EnqueueKeeps DEF TraceStart, StatusInv
  <2>2. \A x \in Traces : Returned(x) => Returned(x)'
    BY <1>5 DEF TraceStart, Returned, StatusInv, TypeOK
  <2> QED
    BY <1>5, <2>1, <2>2 DEF TraceStart, StatusInv, TypeOK, Created
<1>6. ASSUME NEW t \in Traces, NEW s \in Spans, NEW parent \in Spans \cup {NoId},
             Span(t, s, parent)
      PROVE  StatusInv'
  <2> DEFINE r == [span[s] EXCEPT !.trace = t, !.parent = parent]
  <2>1. r \in SpanRecord /\ r.trace \in Traces /\ ~r.error
    <3>1. span[s] = NoSpan
      BY <1>6 DEF Span, Created
    <3>2. ~span[s].error
      <4>1. ~NoSpan.error
        BY DEF NoSpan
      <4> QED
        BY <3>1, <4>1, Zenon
    <3>3. span[s] \in SpanRecord
      BY DEF StatusInv, TypeOK
    <3> QED
      BY <1>6, <3>2, <3>3 DEF SpanRecord
  <2>2. span' = [span EXCEPT ![s] = r] /\ UNCHANGED <<halted, trace, ended, stream, seen>>
    BY <1>6 DEF Span, StatusInv, TypeOK
  <2> HIDE DEF r
  <2> QED
    BY <2>1, <2>2, SpanKeeps DEF StatusInv, TypeOK, StatusIsDefinite, Returned
<1>7. ASSUME NEW t \in Traces \cup {NoId}, NEW type \in Points, Point(t, type)
      PROVE  StatusInv'
  <2>1. stream' \in Seq(TelemetryEvent) /\ StatusIsDefinite'
    BY <1>7, PlainEvent, EnqueueKeeps DEF Point, StatusInv
  <2> QED
    BY <1>7, <2>1 DEF Point, StatusInv, TypeOK, Created, Returned
<1>8. ASSUME NEW t \in Traces, NEW status \in Statuses, NEW options \in EndOptions,
             TraceEnd(t, status, options)
      PROVE  StatusInv'
  <2>1. stream' \in Seq(TelemetryEvent) /\ StatusIsDefinite'
    BY <1>8, EndEventFits, EnqueueKeeps DEF TraceEnd, StatusInv
  <2> QED
    BY <1>8, <2>1 DEF TraceEnd, StatusInv, TypeOK, Created, Returned
<1>9. ASSUME NEW s \in Spans, NEW field \in Used, SetField(s, field)
      PROVE  StatusInv'
  <2> DEFINE r == [span[s] EXCEPT !.fields = @ \cup {field}]
  <2>1. r \in SpanRecord /\ r.trace \in Traces /\ (r.error => s \in ended)
    <3>1. span[s] \in SpanRecord /\ span[s].trace \in Traces /\ field \in Fields
      BY <1>9, TraceAssumption DEF StatusInv, TypeOK, SetField
    <3>2. span[s].fields \cup {field} \in SUBSET Fields
      BY <3>1 DEF SpanRecord
    <3>3. r \in SpanRecord /\ r.trace = span[s].trace /\ r.error = span[s].error
      BY <3>1, <3>2 DEF SpanRecord
    <3> QED
      BY <3>1, <3>3 DEF StatusInv
  <2>2. span' = [span EXCEPT ![s] = r] /\ UNCHANGED <<halted, trace, ended, stream, seen>>
    BY <1>9 DEF SetField, StatusInv, TypeOK
  <2> HIDE DEF r
  <2> QED
    BY <2>1, <2>2, SpanKeeps DEF StatusInv, TypeOK, StatusIsDefinite, Returned
<1>10. ASSUME NEW s \in Spans, NEW status \in Statuses, SetStatus(s, status)
       PROVE  StatusInv'
  <2> DEFINE r == [span[s] EXCEPT !.status = status]
  <2>1. r \in SpanRecord /\ r.trace \in Traces /\ (r.error => s \in ended)
    <3>1. span[s] \in SpanRecord /\ span[s].trace \in Traces
      BY <1>10 DEF StatusInv, TypeOK, SetStatus
    <3>2. r \in SpanRecord /\ r.trace = span[s].trace /\ r.error = span[s].error
      BY <3>1 DEF SpanRecord
    <3> QED
      BY <3>1, <3>2 DEF StatusInv
  <2>2. span' = [span EXCEPT ![s] = r] /\ UNCHANGED <<halted, trace, ended, stream, seen>>
    BY <1>10 DEF SetStatus, StatusInv, TypeOK
  <2> HIDE DEF r
  <2> QED
    BY <2>1, <2>2, SpanKeeps DEF StatusInv, TypeOK, StatusIsDefinite, Returned
<1>11. ASSUME NEW s \in Spans, NEW status \in Statuses, NEW error \in BOOLEAN,
              status # "", error => status = "error", Created(s), ended' = ended \cup {s},
              span' = [span EXCEPT ![s] = [span[s] EXCEPT !.status = status, !.error = error]],
              Enqueue(SpanEvent(s, status, error)), UNCHANGED <<halted, trace, seen>>
       PROVE  StatusInv'
  <2> DEFINE r == [span[s] EXCEPT !.status = status, !.error = error]
  <2>1. r \in SpanRecord /\ r.trace \in Traces
    BY <1>11 DEF StatusInv, TypeOK, SpanRecord
  <2>2. span' = [span EXCEPT ![s] = r]
    BY <1>11
  <2>3. stream' \in Seq(TelemetryEvent) /\ StatusIsDefinite'
    BY <1>11, SpanEventFits, EnqueueKeeps DEF StatusInv
  <2> HIDE DEF r
  <2>4. /\ span' \in [Spans -> SpanRecord]
        /\ \A x \in Spans : Created(x) => Created(x)'
        /\ \A x \in Spans : Created(x)' => span'[x].trace \in Traces
        /\ \A x \in Spans : span'[x].error => x \in ended'
        /\ Created(s)'
    BY <1>11, <2>1, <2>2, SpanKeeps
  <2> QED
    BY <1>11, <2>3, <2>4 DEF StatusInv, TypeOK, Returned
<1>12. ASSUME NEW s \in Spans, SpanEnd(s)
       PROVE  StatusInv'
  <2> DEFINE status == IF span[s].status = "" THEN "success" ELSE span[s].status
  <2>1. status \in Statuses /\ status # "" /\ span[s].error = FALSE
    BY <1>12 DEF SpanEnd, StatusInv, TypeOK, SpanRecord, Statuses
  <2>2. span' = [span EXCEPT ![s] = [span[s] EXCEPT !.status = status, !.error = FALSE]]
    BY <1>12, <2>1 DEF SpanEnd, StatusInv, TypeOK, SpanRecord
  <2>3. /\ Created(s) /\ ended' = ended \cup {s}
        /\ Enqueue(SpanEvent(s, status, FALSE)) /\ UNCHANGED <<halted, trace, seen>>
    BY <1>12, <2>1 DEF SpanEnd
  <2> HIDE DEF status
  <2> QED
    BY <1>11, <2>1, <2>2, <2>3
<1>13. ASSUME NEW s \in Spans, SpanEndWithError(s)
       PROVE  StatusInv'
  <2>1. span' = [span EXCEPT ![s] = [span[s] EXCEPT !.status = "error", !.error = TRUE]]
    BY <1>13 DEF SpanEndWithError, StatusInv, TypeOK, SpanRecord
  <2>2. "error" \in Statuses /\ "error" # ""
    BY DEF Statuses
  <2> QED
    BY <1>11, <1>13, <2>1, <2>2 DEF SpanEndWithError
<1>14. CASE UNCHANGED vars
  BY <1>1, <1>14 DEF vars, StatusInv, TypeOK, Returned
<1> QED
  BY <1>2, <1>3, <1>4, <1>5, <1>6, <1>7, <1>8, <1>9, <1>10, <1>12, <1>13, <1>14 DEF Next

\* Every variable keeps its type.
THEOREM TypeInvariant == Spec => []TypeOK
<1>1. Init => StatusInv
  BY InitStatusInv
<1>2. StatusInv /\ [Next]_vars => StatusInv'
  BY NextKeepsStatusInv
<1>3. StatusInv => TypeOK
  BY DEF StatusInv
<1> QED
  BY <1>1, <1>2, <1>3, PTL DEF Spec

\* A span is reported with a status, and one with an error message as a failed
\* one, whatever strings are passed as a status and whatever order the setters
\* and the two ways to end are called in (span.go:48, 109, 144).
THEOREM ReportedStatus == Spec => []StatusIsDefinite
<1>1. Init => StatusInv
  BY InitStatusInv
<1>2. StatusInv /\ [Next]_vars => StatusInv'
  BY NextKeepsStatusInv
<1>3. StatusInv => StatusIsDefinite
  BY DEF StatusInv
<1> QED
  BY <1>1, <1>2, <1>3, PTL DEF Spec

-----------------------------------------------------------------------------
(***************************************************************************)
(* What the stream holds.  `Of' is EventsOf of any stream.  The flag of a  *)
(* span or a trace is set in the step that reports it, so the reports are  *)
(* one or none; a trace is on nobody's hands before it is returned, so no  *)
(* event bears its id before its start does.                               *)
(***************************************************************************)
Of(str, type, t, s) ==
  {i \in 1..Len(str) : str[i].type = type /\ str[i].trace = t /\ str[i].span = s}

SpansReported ==
  \A s \in Spans :
    /\ s \in ended => \E i \in 1..Len(stream) : EventsOf("span", span[s].trace, s) = {i}
    /\ s \notin ended => \A i \in 1..Len(stream) : ~(stream[i].type = "span" /\ stream[i].span = s)

EndsReported ==
  \A t \in Traces :
    /\ t \in ended => \E i \in 1..Len(stream) : EventsOf("trace_end", t, NoId) = {i}
    /\ t \notin ended => EventsOf("trace_end", t, NoId) = {}

StartsReported ==
  \A t \in Traces :
    /\ trace[t] = "open" =>
         \E i \in 1..Len(stream) :
           /\ EventsOf("trace_start", t, NoId) = {i}
           /\ \A j \in 1..Len(stream) : j < i => stream[j].trace # t
    /\ trace[t] # "open" => EventsOf("trace_start", t, NoId) = {}
    /\ ~Returned(t) => \A j \in 1..Len(stream) : stream[j].trace # t

TracesReturned ==
  \A s \in Spans : Created(s) => trace[span[s].trace] \in {"open", "halted"}

StreamInv == SpansReported /\ EndsReported /\ StartsReported /\ TracesReturned

LEMMA InitStreamInv ==
  ASSUME Init
  PROVE  StreamInv
<1>1. Len(stream) = 0 /\ ended = {} /\ \A t \in Traces : trace[t] # "open"
  BY DEF Init
<1>2. \A s \in Spans : ~Created(s)
  BY DEF Init, Created
<1>3. \A type, t, s : EventsOf(type, t, s) = {}
  BY <1>1 DEF EventsOf
<1>4. \A j \in 1..Len(stream) : FALSE
  BY <1>1
<1> QED
  BY <1>1, <1>2, <1>3, <1>4 DEF StreamInv, SpansReported, EndsReported, StartsReported, TracesReturned

\* One more event: the events of a kind are one more, or those they were.
LEMMA AppendOf ==
  ASSUME NEW str \in Seq(TelemetryEvent), NEW e, NEW type, NEW t, NEW s
  PROVE  /\ e.type = type /\ e.trace = t /\ e.span = s =>
              Of(Append(str, e), type, t, s) = Of(str, type, t, s) \cup {Len(str) + 1}
         /\ ~(e.type = type /\ e.trace = t /\ e.span = s) =>
              Of(Append(str, e), type, t, s) = Of(str, type, t, s)
<1> DEFINE str2 == Append(str, e)
<1>1. Len(str) \in Nat /\ Len(str2) = Len(str) + 1
  OBVIOUS
<1>2. str2[Len(str) + 1] = e /\ \A i \in 1..Len(str) : str2[i] = str[i]
  OBVIOUS
<1>3. \A i : i \in 1..Len(str2) <=> i \in 1..Len(str) \/ i = Len(str) + 1
  BY <1>1
<1> HIDE DEF str2
<1>4. e.type = type /\ e.trace = t /\ e.span = s =>
        Of(str2, type, t, s) = Of(str, type, t, s) \cup {Len(str) + 1}
  BY <1>2, <1>3 DEF Of
<1>5. ~(e.type = type /\ e.trace = t /\ e.span = s) =>
        Of(str2, type, t, s) = Of(str, type, t, s)
  BY <1>2, <1>3 DEF Of
<1> QED
  BY <1>4, <1>5 DEF str2

\* The same in terms of the variables, and what else is known of the new stream.
LEMMA EnqueueOf ==
  ASSUME TypeOK, NEW e, Enqueue(e)
  PROVE  /\ Len(stream) \in Nat
         /\ \A type, t, s : e.type = type /\ e.trace = t /\ e.span = s =>
              Of(stream', type, t, s) = Of(stream, type, t, s) \cup {Len(stream) + 1}
         /\ \A type, t, s : ~(e.type = type /\ e.trace = t /\ e.span = s) =>
              Of(stream', type, t, s) = Of(stream, type, t, s)
         /\ stream'[Len(stream) + 1] = e
         /\ \A i \in 1..Len(stream) : i \in 1..Len(stream') /\ stream'[i] = stream[i]
         /\ \A i \in 1..Len(stream') : i \in 1..Len(stream) \/ i = Len(stream) + 1
         /\ Len(stream) + 1 \in 1..Len(stream')
<1>1. stream \in Seq(TelemetryEvent) /\ stream' = Append(stream, e)
  BY DEF TypeOK, Enqueue
<1>2. Len(stream) \in Nat /\ Len(stream') = Len(stream) + 1
  BY <1>1
<1>3. stream'[Len(stream) + 1] = e /\ \A i \in 1..Len(stream) : stream'[i] = stream[i]
  BY <1>1
<1>4. \A i : i \in 1..Len(stream') <=> i \in 1..Len(stream) \/ i = Len(stream) + 1
  BY <1>2
<1>5. \A type, t, s : e.type = type /\ e.trace = t /\ e.span = s =>
        Of(stream', type, t, s) = Of(stream, type, t, s) \cup {Len(stream) + 1}
  BY <1>1, AppendOf
<1>6. \A type, t, s : ~(e.type = type /\ e.trace = t /\ e.span = s) =>
        Of(stream', type, t, s) = Of(stream, type, t, s)
  BY <1>1, AppendOf
<1> QED
  BY <1>2, <1>3, <1>4, <1>5, <1>6

\* What an event does not disturb: the reports of spans if it reports none,
\* and the ends and starts of traces likewise.
LEMMA OtherSpans ==
  ASSUME TypeOK, SpansReported, NEW e, Enqueue(e), e.type # "span", UNCHANGED span,
         \A s \in Spans : s \in ended' <=> s \in ended
  PROVE  SpansReported'
<1>1. ASSUME NEW s \in Spans
      PROVE  Of(stream', "span", span[s].trace, s) = Of(stream, "span", span[s].trace, s)
  BY EnqueueOf
<1>2. \A i \in 1..Len(stream) : i \in 1..Len(stream')
  BY EnqueueOf
<1>3. ASSUME NEW s \in Spans, s \notin ended, NEW i \in 1..Len(stream')
      PROVE  ~(stream'[i].type = "span" /\ stream'[i].span = s)
  BY <1>3, EnqueueOf DEF SpansReported
<1> QED
  BY <1>1, <1>2, <1>3 DEF SpansReported, EventsOf, Of

LEMMA OtherEnds ==
  ASSUME TypeOK, EndsReported, NEW e, Enqueue(e), e.type # "trace_end",
         \A t \in Traces : t \in ended' <=> t \in ended
  PROVE  EndsReported'
<1>1. ASSUME NEW t \in Traces
      PROVE  Of(stream', "trace_end", t, NoId) = Of(stream, "trace_end", t, NoId)
  BY EnqueueOf
<1>2. \A i \in 1..Len(stream) : i \in 1..Len(stream')
  BY EnqueueOf
<1> QED
  BY <1>1, <1>2 DEF EndsReported, EventsOf, Of

LEMMA OtherStarts ==
  ASSUME TypeOK, StartsReported, NEW e, Enqueue(e), e.type # "trace_start", UNCHANGED trace,
         \A t \in Traces : e.trace = t => Returned(t)
  PROVE  StartsReported'
<1>1. ASSUME NEW t \in Traces
      PROVE  EventsOf("trace_start", t, NoId)' = EventsOf("trace_start", t, NoId)
  BY EnqueueOf DEF EventsOf, Of
<1>2. ASSUME NEW t \in Traces, NEW i \in 1..Len(stream),
             \A j \in 1..Len(stream) : j < i => stream[j].trace # t
      PROVE  \A j \in 1..Len(stream') : j < i => stream'[j].trace # t
  <2>1. ~(Len(stream) + 1 < i)
    BY EnqueueOf
  <2> QED
    BY <1>2, <2>1, EnqueueOf
<1>3. \A i \in 1..Len(stream) : i \in 1..Len(stream')
  BY EnqueueOf
<1>4. ASSUME NEW t \in Traces, trace[t] = "open"
      PROVE  \E i \in 1..Len(stream') :
               /\ EventsOf("trace_start", t, NoId)' = {i}
               /\ \A j \in 1..Len(stream') : j < i => stream'[j].trace # t
  <2>1. PICK i \in 1..Len(stream) :
               /\ EventsOf("trace_start", t, NoId) = {i}
               /\ \A j \in 1..Len(stream) : j < i => stream[j].trace # t
    BY <1>4 DEF StartsReported
  <2> QED
    BY <1>1, <1>2, <1>3, <2>1
<1>5. ASSUME NEW t \in Traces, ~Returned(t), NEW j \in 1..Len(stream')
      PROVE  stream'[j].trace # t
  <2>1. \A i \in 1..Len(stream) : stream[i].trace # t
    BY <1>5 DEF StartsReported
  <2> QED
    BY <1>5, <2>1, EnqueueOf
<1>6. \A t \in Traces : Returned(t)' <=> Returned(t)
  BY DEF Returned
<1> QED
  BY <1>1, <1>4, <1>5, <1>6 DEF StartsReported

\* An end reported in the step that sets the flag of its trace.
LEMMA EndReported ==
  ASSUME TypeOK, EndsReported, NEW t \in Traces, t \notin ended, ended' = ended \cup {t},
         NEW e, Enqueue(e), e.type = "trace_end", e.trace = t, e.span = NoId
  PROVE  EndsReported'
<1>1. Of(stream', "trace_end", t, NoId) = {Len(stream) + 1}
  <2>1. Of(stream, "trace_end", t, NoId) = {}
    BY DEF EndsReported, EventsOf, Of
  <2>2. Of(stream', "trace_end", t, NoId) =
          Of(stream, "trace_end", t, NoId) \cup {Len(stream) + 1}
    BY EnqueueOf
  <2> QED
    BY <2>1, <2>2
<1>2. ASSUME NEW x \in Traces, x # t
      PROVE  Of(stream', "trace_end", x, NoId) = Of(stream, "trace_end", x, NoId)
  BY <1>2, EnqueueOf
<1>3. Len(stream) + 1 \in 1..Len(stream') /\ \A i \in 1..Len(stream) : i \in 1..Len(stream')
  BY EnqueueOf
<1>4. \A x \in Traces : x # t => (x \in ended' <=> x \in ended)
  OBVIOUS
<1> QED
  BY <1>1, <1>2, <1>3, <1>4 DEF EndsReported, EventsOf, Of

\* A span reported in the step that sets its flag.
LEMMA SpanReported ==
  ASSUME TypeOK, SpansReported, NEW s \in Spans, s \notin ended, ended' = ended \cup {s},
         NEW e, Enqueue(e), e.type = "span", e.trace = span[s].trace, e.span = s,
         \A x \in Spans : span'[x].trace = span[x].trace
  PROVE  SpansReported'
<1>1. Of(stream', "span", span[s].trace, s) = {Len(stream) + 1}
  <2>1. Of(stream, "span", span[s].trace, s) = {}
    BY DEF SpansReported, Of
  <2>2. Of(stream', "span", span[s].trace, s) =
          Of(stream, "span", span[s].trace, s) \cup {Len(stream) + 1}
    BY EnqueueOf
  <2> QED
    BY <2>1, <2>2
<1>2. ASSUME NEW x \in Spans, x # s
      PROVE  Of(stream', "span", span[x].trace, x) = Of(stream, "span", span[x].trace, x)
  BY <1>2, EnqueueOf
<1>3. Len(stream) + 1 \in 1..Len(stream') /\ \A i \in 1..Len(stream) : i \in 1..Len(stream')
  BY EnqueueOf
<1>4. ASSUME NEW x \in Spans, x # s, x \notin ended, NEW i \in 1..Len(stream')
      PROVE  ~(stream'[i].type = "span" /\ stream'[i].span = x)
  BY <1>4, EnqueueOf DEF SpansReported
<1>5. ASSUME NEW x \in Spans, x \in ended'
      PROVE  \E i \in 1..Len(stream') : Of(stream', "span", span[x].trace, x) = {i}
  <2>1. CASE x = s
    BY <1>1, <1>3, <2>1
  <2>2. CASE x # s
    <3>1. PICK i \in 1..Len(stream) : Of(stream, "span", span[x].trace, x) = {i}
      BY <1>5, <2>2 DEF SpansReported, EventsOf, Of
    <3> QED
      BY <1>2, <1>3, <2>2, <3>1
  <2> QED
    BY <2>1, <2>2
<1> QED
  BY <1>4, <1>5 DEF SpansReported, EventsOf, Of

\* The start of a trace of which nothing has been heard.
LEMMA StartReported ==
  ASSUME TypeOK, StartsReported, NEW t \in Traces, trace[t] = "attached",
         trace' = [trace EXCEPT ![t] = "open"], Enqueue(Event("trace_start", t))
  PROVE  StartsReported'
<1> DEFINE e == Event("trace_start", t)
<1>1. e.type = "trace_start" /\ e.trace = t /\ e.span = NoId
  BY DEF Event
<1> HIDE DEF e
<1>2. Enqueue(e)
  BY DEF e
<1>3. trace'[t] = "open" /\ \A x \in Traces : x # t => trace'[x] = trace[x]
  BY DEF TypeOK
<1>4. /\ EventsOf("trace_start", t, NoId) = {}
      /\ \A j \in 1..Len(stream) : stream[j].trace # t
  BY DEF StartsReported, Returned
<1>5. EventsOf("trace_start", t, NoId)' = {Len(stream) + 1}
  <2>1. Of(stream, "trace_start", t, NoId) = {}
    BY <1>4 DEF EventsOf, Of
  <2>2. Of(stream', "trace_start", t, NoId) =
          Of(stream, "trace_start", t, NoId) \cup {Len(stream) + 1}
    BY <1>1, <1>2, EnqueueOf
  <2>3. Of(stream', "trace_start", t, NoId) = {Len(stream) + 1}
    BY <2>1, <2>2
  <2> QED
    BY <2>3 DEF EventsOf, Of
<1>6. \A j \in 1..Len(stream') : j < Len(stream) + 1 => stream'[j].trace # t
  BY <1>2, <1>4, EnqueueOf
<1>7. Len(stream) + 1 \in 1..Len(stream')
  BY <1>2, EnqueueOf
<1>8. ASSUME NEW x \in Traces, x # t
      PROVE  /\ EventsOf("trace_start", x, NoId)' = EventsOf("trace_start", x, NoId)
             /\ \A j \in 1..Len(stream') :
                  stream'[j].trace = x => j \in 1..Len(stream) /\ stream[j].trace = x
             /\ \A j \in 1..Len(stream) : j \in 1..Len(stream')
  BY <1>1, <1>2, <1>8, EnqueueOf DEF EventsOf, Of
<1>9. \A x \in Traces : x # t => (Returned(x)' <=> Returned(x))
  BY <1>3 DEF Returned
<1>10. Returned(t)'
  BY <1>3 DEF Returned
<1>11. ASSUME NEW x \in Traces, x # t, trace[x] = "open"
       PROVE  \E i \in 1..Len(stream') :
                /\ EventsOf("trace_start", x, NoId)' = {i}
                /\ \A j \in 1..Len(stream') : j < i => stream'[j].trace # x
  <2>1. PICK i \in 1..Len(stream) :
               /\ EventsOf("trace_start", x, NoId) = {i}
               /\ \A j \in 1..Len(stream) : j < i => stream[j].trace # x
    BY <1>11 DEF StartsReported
  <2> QED
    BY <1>8, <1>11, <2>1
<1>12. ASSUME NEW x \in Traces, x # t
       PROVE  /\ trace[x] # "open" => EventsOf("trace_start", x, NoId)' = {}
              /\ ~Returned(x) => \A j \in 1..Len(stream') : stream'[j].trace # x
  BY <1>8, <1>12 DEF StartsReported
<1> QED
  BY <1>3, <1>5, <1>6, <1>7, <1>9, <1>10, <1>11, <1>12 DEF StartsReported

\* No setter of a span, and no End, gives it to another trace.
LEMMA SettersKeepTrace ==
  ASSUME TypeOK, NEW s \in Spans,
         \/ \E x : span' = [span EXCEPT ![s].fields = @ \cup {x}]
         \/ \E x : span' = [span EXCEPT ![s].status = x]
         \/ \E x, y : span' = [span EXCEPT ![s].status = x, ![s].error = y]
  PROVE  /\ \A x \in Spans : span'[x].trace = span[x].trace
         /\ \A x \in Spans : x # s => span'[x] = span[x]
<1>1. span \in [Spans -> SpanRecord] /\ span[s] \in SpanRecord
  BY DEF TypeOK
<1>2. ASSUME NEW r \in SpanRecord
      PROVE  DOMAIN r = {"trace", "parent", "status", "error", "fields"}
  BY DEF SpanRecord
<1>3. CASE \E x : span' = [span EXCEPT ![s].fields = @ \cup {x}]
  <2>1. PICK x : span' = [span EXCEPT ![s].fields = @ \cup {x}]
    BY <1>3
  <2>2. span'[s] = [span[s] EXCEPT !.fields = @ \cup {x}] /\ \A y \in Spans : y # s => span'[y] = span[y]
    BY <1>1, <2>1
  <2>3. span'[s].trace = span[s].trace
    BY <1>1, <1>2, <2>2
  <2> QED
    BY <2>2, <2>3
<1>4. CASE \E x : span' = [span EXCEPT ![s].status = x]
  <2>1. PICK x : span' = [span EXCEPT ![s].status = x]
    BY <1>4
  <2>2. span'[s] = [span[s] EXCEPT !.status = x] /\ \A y \in Spans : y # s => span'[y] = span[y]
    BY <1>1, <2>1
  <2>3. span'[s].trace = span[s].trace
    BY <1>1, <1>2, <2>2
  <2> QED
    BY <2>2, <2>3
<1>5. CASE \E x, y : span' = [span EXCEPT ![s].status = x, ![s].error = y]
  <2>1. PICK x, y : span' = [span EXCEPT ![s].status = x, ![s].error = y]
    BY <1>5
  <2>2. /\ span'[s] = [span[s] EXCEPT !.status = x, !.error = y]
        /\ \A z \in Spans : z # s => span'[z] = span[z]
    BY <1>1, <2>1
  <2>3. span'[s].trace = span[s].trace
    BY <1>1, <1>2, <2>2
  <2> QED
    BY <2>2, <2>3
<1> QED
  BY <1>3, <1>4, <1>5

\* A trace is never the empty id.
LEMMA NoSpanHasNoTrace ==
  ASSUME NEW r, r.trace \in Traces
  PROVE  r # NoSpan
<1>1. NoSpan.trace = NoId
  BY DEF NoSpan
<1> QED
  BY <1>1, TraceAssumption

LEMMA NextKeepsStreamInv ==
  ASSUME StatusInv, StreamInv, [Next]_vars
  PROVE  StreamInv'
<1> USE DEF StreamInv
<1>1. TypeOK /\ StatusInv' /\ TypeOK'
  BY NextKeepsStatusInv DEF StatusInv
\* A step that reports nothing and returns no trace.
<1>2. ASSUME UNCHANGED <<stream, ended>>,
             \A t \in Traces : (trace[t] = "open" <=> trace'[t] = "open")
                               /\ (Returned(t) => Returned(t)'),
             \A s \in Spans : Created(s) => Created(s)' /\ span'[s].trace = span[s].trace,
             \A s \in Spans : Created(s)' => trace'[span'[s].trace] \in {"open", "halted"}
      PROVE  StreamInv'
  <2>1. \A s \in Spans : s \in ended => Created(s)
    BY <1>1, TraceAssumption DEF TypeOK
  <2>2. SpansReported'
    BY <1>2, <2>1 DEF SpansReported, EventsOf
  <2>3. EndsReported'
    BY <1>2 DEF EndsReported, EventsOf
  <2>4. StartsReported'
    BY <1>2 DEF StartsReported, EventsOf
  <2>5. TracesReturned'
    BY <1>2 DEF TracesReturned
  <2> QED
    BY <2>2, <2>3, <2>4, <2>5
<1>3. ASSUME UNCHANGED <<stream, ended, span>>,
             \A t \in Traces : (trace[t] = "open" <=> trace'[t] = "open")
                               /\ (Returned(t) => Returned(t)')
      PROVE  StreamInv'
  <2>1. \A s \in Spans : Created(s)' <=> Created(s)
    BY <1>3 DEF Created
  <2>2. \A s \in Spans : Created(s) => span[s].trace \in Traces
    BY DEF StatusInv
  <2>3. \A s \in Spans : Created(s)' => trace'[span'[s].trace] \in {"open", "halted"}
    BY <1>3, <2>1, <2>2 DEF TracesReturned, Returned
  <2> QED
    BY <1>2, <1>3, <2>1, <2>3
<1>4. CASE ControlArrives
  BY <1>3, <1>4 DEF ControlArrives, Returned
<1>5. ASSUME NEW t \in Traces, TraceCall(t) \/ TraceCheck(t) \/ TraceTake(t)
      PROVE  StreamInv'
  BY <1>1, <1>3, <1>5 DEF TraceCall, TraceCheck, TraceTake, Returned, TypeOK
<1>6. ASSUME NEW t \in Traces, TraceStart(t)
      PROVE  StreamInv'
  <2>1. /\ trace[t] = "attached" /\ trace' = [trace EXCEPT ![t] = "open"]
        /\ Enqueue(Event("trace_start", t)) /\ UNCHANGED <<ended, span>>
        /\ Event("trace_start", t).type = "trace_start"
    BY <1>6 DEF TraceStart, Event
  <2>2. SpansReported' /\ EndsReported' /\ StartsReported'
    BY <1>1, <2>1, OtherSpans, OtherEnds, StartReported
  <2>3. \A s \in Spans : Created(s)' => Created(s) /\ span'[s].trace = span[s].trace
    BY <2>1 DEF Created
  <2>4. \A x \in Traces : Returned(x) => Returned(x)'
    BY <1>1, <2>1 DEF Returned, TypeOK
  <2>5. \A s \in Spans : Created(s) => span[s].trace \in Traces
    BY DEF StatusInv
  <2>6. TracesReturned'
    BY <2>3, <2>4, <2>5 DEF TracesReturned, Returned
  <2> QED
    BY <2>2, <2>6
<1>7. ASSUME NEW t \in Traces, NEW s \in Spans, NEW parent \in Spans \cup {NoId},
             Span(t, s, parent)
      PROVE  StreamInv'
  <2>1. /\ Returned(t) /\ ~Created(s) /\ UNCHANGED <<trace, ended, stream>>
        /\ span'[s].trace = t /\ \A x \in Spans : x # s => span'[x] = span[x]
    BY <1>1, <1>7 DEF Span, TypeOK, SpanRecord
  <2>2. \A x \in Spans : Created(x) => x # s /\ Created(x)' /\ span'[x].trace = span[x].trace
    BY <2>1 DEF Created
  <2>3. \A x \in Spans : Created(x)' => trace'[span'[x].trace] \in {"open", "halted"}
    BY <2>1 DEF TracesReturned, Created, Returned
  <2> QED
    BY <1>2, <2>1, <2>2, <2>3 DEF Returned
<1>8. ASSUME NEW t \in Traces \cup {NoId}, NEW type \in Points, Point(t, type)
      PROVE  StreamInv'
  <2>1. /\ t # NoId => Returned(t)
        /\ Enqueue(Event(type, t)) /\ UNCHANGED <<trace, ended, span>>
        /\ Event(type, t).trace = t
        /\ Event(type, t).type \notin {"trace_start", "trace_end", "span"}
    BY <1>8 DEF Point, Event, Points
  <2>2. SpansReported' /\ EndsReported' /\ StartsReported'
    BY <1>1, <2>1, OtherSpans, OtherEnds, OtherStarts, TraceAssumption
  <2> QED
    BY <2>1, <2>2 DEF TracesReturned, Created
<1>9. ASSUME NEW t \in Traces, NEW status \in Statuses, NEW options \in EndOptions,
             TraceEnd(t, status, options)
      PROVE  StreamInv'
  <2> DEFINE e == EndEvent(t, status, options)
  <2>1. e.type = "trace_end" /\ e.trace = t /\ e.span = NoId
    BY DEF EndEvent, Event
  <2>2. /\ Returned(t) /\ t \notin ended /\ ended' = ended \cup {t}
        /\ Enqueue(e) /\ UNCHANGED <<trace, span>>
    BY <1>9 DEF TraceEnd
  <2> HIDE DEF e
  <2>3. \A s \in Spans : s \in ended' <=> s \in ended
    BY <2>2, TraceAssumption
  <2>4. SpansReported'
    BY <1>1, <2>1, <2>2, <2>3, OtherSpans
  <2>5. EndsReported'
    BY <1>1, <2>1, <2>2, EndReported
  <2>6. StartsReported'
    BY <1>1, <2>1, <2>2, OtherStarts
  <2> QED
    BY <2>2, <2>4, <2>5, <2>6 DEF TracesReturned, Created
<1>10. ASSUME NEW s \in Spans, NEW x, SetField(s, x) \/ SetStatus(s, x)
       PROVE  StreamInv'
  <2>1. /\ Created(s) /\ UNCHANGED <<trace, ended, stream>>
        /\ \A y \in Spans : span'[y].trace = span[y].trace
        /\ \A y \in Spans : y # s => span'[y] = span[y]
    BY <1>1, <1>10, SettersKeepTrace DEF SetField, SetStatus
  <2>2. \A y \in Spans : Created(y)' => Created(y)
    BY <2>1 DEF Created
  <2>3. \A y \in Spans : Created(y) => Created(y)'
    <3>1. span'[s] # NoSpan
      <4>1. span'[s].trace \in Traces
        BY <2>1 DEF StatusInv
      <4> QED
        BY <4>1, NoSpanHasNoTrace
    <3> QED
      BY <2>1, <3>1 DEF Created
  <2>4. \A y \in Spans : Created(y)' => trace'[span'[y].trace] \in {"open", "halted"}
    BY <2>1, <2>2 DEF TracesReturned
  <2>5. \A t \in Traces : (trace[t] = "open" <=> trace'[t] = "open") /\ (Returned(t) => Returned(t)')
    BY <2>1 DEF Returned
  <2> QED
    BY <1>2, <2>1, <2>3, <2>4, <2>5
<1>11. ASSUME NEW s \in Spans, NEW status, NEW error, SpanEvent(s, status, error).type = "span",
              Created(s), s \notin ended, ended' = ended \cup {s},
              Enqueue(SpanEvent(s, status, error)), UNCHANGED trace,
              \A x \in Spans : span'[x].trace = span[x].trace,
              \A x \in Spans : x # s => span'[x] = span[x]
       PROVE  StreamInv'
  <2> DEFINE e == SpanEvent(s, status, error)
  <2>1. e.type = "span" /\ e.trace = span[s].trace /\ e.span = s /\ Enqueue(e)
    BY <1>11 DEF SpanEvent
  <2>2. Returned(e.trace)
    BY <1>11, <2>1 DEF TracesReturned, Returned
  <2> HIDE DEF e
  <2>3. \A t \in Traces : t \in ended' <=> t \in ended
    BY <1>11, TraceAssumption
  <2>4. SpansReported'
    BY <1>1, <1>11, <2>1, SpanReported
  <2>5. EndsReported'
    BY <1>1, <2>1, <2>3, OtherEnds
  <2>6. StartsReported'
    BY <1>1, <1>11, <2>1, <2>2, OtherStarts
  <2>7. \A x \in Spans : Created(x)' => Created(x)
    BY <1>11 DEF Created
  <2>8. \A x \in Spans : Created(x)' => trace'[span'[x].trace] \in {"open", "halted"}
    BY <1>11, <2>7 DEF TracesReturned
  <2> QED
    BY <2>4, <2>5, <2>6, <2>8 DEF TracesReturned
<1>12. ASSUME NEW s \in Spans, SpanEnd(s)
       PROVE  StreamInv'
  <2>1. /\ \A x \in Spans : span'[x].trace = span[x].trace
        /\ \A x \in Spans : x # s => span'[x] = span[x]
    BY <1>1, <1>12, SettersKeepTrace DEF SpanEnd
  <2>2. PICK status : Enqueue(SpanEvent(s, status, span[s].error))
    BY <1>12 DEF SpanEnd
  <2>3. SpanEvent(s, status, span[s].error).type = "span"
    BY DEF SpanEvent
  <2>4. Created(s) /\ s \notin ended /\ ended' = ended \cup {s} /\ UNCHANGED trace
    BY <1>12 DEF SpanEnd
  <2> QED
    BY <1>11, <2>1, <2>2, <2>3, <2>4
<1>13. ASSUME NEW s \in Spans, SpanEndWithError(s)
       PROVE  StreamInv'
  <2>1. /\ \A x \in Spans : span'[x].trace = span[x].trace
        /\ \A x \in Spans : x # s => span'[x] = span[x]
    BY <1>1, <1>13, SettersKeepTrace DEF SpanEndWithError
  <2>2. \A status, error : SpanEvent(s, status, error).type = "span"
    BY DEF SpanEvent
  <2> QED
    BY <1>11, <1>13, <2>1, <2>2 DEF SpanEndWithError
<1>14. CASE UNCHANGED vars
  BY <1>3, <1>14 DEF vars, Returned
<1> QED
  BY <1>4, <1>5, <1>6, <1>7, <1>8, <1>9, <1>10, <1>12, <1>13, <1>14 DEF Next

\* One position is one event.
LEMMA ReportsCounted ==
  ASSUME StreamInv
  PROVE  EndedIsReportedOnce
<1>1. \A i : Cardinality({i}) = 1
  BY FS_Singleton
<1>2. Cardinality({}) = 0
  BY FS_EmptySet
<1>3. \A s \in Spans : s \notin ended => EventsOf("span", span[s].trace, s) = {}
  BY DEF StreamInv, SpansReported, EventsOf
<1> QED
  BY <1>1, <1>2, <1>3 DEF StreamInv, SpansReported, EndsReported, EndedIsReportedOnce

LEMMA StartsCounted ==
  ASSUME StreamInv
  PROVE  StartComesFirst
<1>1. \A i : Cardinality({i}) = 1
  BY FS_Singleton
<1>2. Cardinality({}) = 0
  BY FS_EmptySet
<1>3. ASSUME NEW t \in Traces
      PROVE  /\ Cardinality(EventsOf("trace_start", t, NoId)) = IF trace[t] = "open" THEN 1 ELSE 0
             /\ \A i \in EventsOf("trace_start", t, NoId), j \in 1..Len(stream) :
                  j < i => stream[j].trace # t
  <2>1. CASE trace[t] = "open"
    <3>1. PICK i \in 1..Len(stream) :
                 /\ EventsOf("trace_start", t, NoId) = {i}
                 /\ \A j \in 1..Len(stream) : j < i => stream[j].trace # t
      BY <2>1 DEF StreamInv, StartsReported
    <3> QED
      BY <1>1, <2>1, <3>1
  <2>2. CASE trace[t] # "open"
    <3>1. EventsOf("trace_start", t, NoId) = {}
      BY <2>2 DEF StreamInv, StartsReported
    <3> QED
      BY <1>2, <2>2, <3>1
  <2> QED
    BY <2>1, <2>2
<1> QED
  BY <1>3 DEF StartComesFirst

\* However many goroutines end a span or a trace, it is reported once, in the
\* step that ends it; no step reports one that has not ended.
THEOREM ReportedOnce == Spec => []EndedIsReportedOnce
<1>1. Init => StatusInv /\ StreamInv
  BY InitStatusInv, InitStreamInv
<1>2. StatusInv /\ StreamInv /\ [Next]_vars => (StatusInv /\ StreamInv)'
  BY NextKeepsStatusInv, NextKeepsStreamInv
<1>3. StreamInv => EndedIsReportedOnce
  BY ReportsCounted
<1> QED
  BY <1>1, <1>2, <1>3, PTL DEF Spec

\* Whatever the goroutines that hold a trace do with it, its start is the first
\* event that bears its id, and the only start.
THEOREM StartIsFirst == Spec => []StartComesFirst
<1>1. Init => StatusInv /\ StreamInv
  BY InitStatusInv, InitStreamInv
<1>2. StatusInv /\ StreamInv /\ [Next]_vars => (StatusInv /\ StreamInv)'
  BY NextKeepsStatusInv, NextKeepsStreamInv
<1>3. StreamInv => StartComesFirst
  BY StartsCounted
<1> QED
  BY <1>1, <1>2, <1>3, PTL DEF Spec
=============================================================================
