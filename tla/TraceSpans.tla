---------------------------- MODULE TraceSpans ----------------------------
(***************************************************************************)
(* Traces and spans (trace.go, span.go) and the events they enqueue:       *)
(* Client.TraceWithControl (nodeloom.go), Trace.Span, ChildSpan, Event,    *)
(* Feedback and End, and the methods of Span.                              *)
(*                                                                         *)
(* Every method of a span or a trace holds its mutex from the first read   *)
(* to the call of enqueue, so it is one step, whichever goroutine takes    *)
(* it.  TraceWithControl holds no lock: the halt check, the take of the    *)
(* guardrail session and the enqueue are steps of their own, and control   *)
(* payloads come in between.  What Client.enqueue does with an event is    *)
(* the matter of TelemetryPipeline.                                        *)
(***************************************************************************)
EXTENDS Naturals, Sequences, FiniteSets

CONSTANTS
  Traces,      \* trace ids, one for each call of TraceWithControl
  Spans,       \* span ids, one for each call of Span or ChildSpan
  NoId,        \* the empty id
  Used,        \* the span fields the application sets
  OtherStatuses, \* the strings it passes as a status besides the two constants
  EndOptions,  \* the sets of options it passes to Trace.End
  MaxPoints    \* bound of the model: events that are not a start, end or span

Fields == {"input", "output", "token_usage", "metadata", "prompt"}
Statuses == {"success", "error"} \cup OtherStatuses  \* a TraceStatus is any string
Points == {"event", "feedback", "metric"}

ASSUME TraceAssumption ==
  /\ NoId \notin Traces \cup Spans
  /\ Traces \cap Spans = {}           \* `ended' is a field of each struct
  /\ Used \subseteq Fields
  /\ EndOptions \subseteq SUBSET {"output", "error"}
  /\ MaxPoints \in Nat

VARIABLES
  halted,      \* ControlRegistry.IsHalted for the agent of the traces
  trace,       \* trace[t]: how far TraceWithControl has come; "open", "halted"
  ended,       \* the traces and spans whose `ended' is set
  span,        \* span[s]: the fields of a Span that has been created
  stream,      \* the events enqueued so far, in order
  seen         \* history: seen[t]: values of halted since the call that made t

vars == <<halted, trace, ended, span, stream, seen>>

NoSpan == [trace |-> NoId, parent |-> NoId, status |-> "", error |-> FALSE, fields |-> {}]

Init ==
  /\ halted = FALSE
  /\ trace = [t \in Traces |-> "none"]
  /\ ended = {}
  /\ span = [s \in Spans |-> NoSpan]
  /\ stream = <<>>
  /\ seen = [t \in Traces |-> {}]

Created(s) == span[s] # NoSpan
Returned(t) == trace[t] \in {"open", "halted"}

\* A TelemetryEvent, with the fields that the properties tell apart.
Event(type, t) ==
  [type |-> type, trace |-> t, span |-> NoId, status |-> "", error |-> FALSE, fields |-> {}]

Enqueue(e) == stream' = Append(stream, e)

-----------------------------------------------------------------------------
(***************************************************************************)
(* The registry as the trace path sees it.                                 *)
(***************************************************************************)
\* A control payload halts or resumes the agent.
ControlArrives ==
  /\ halted' = ~halted
  /\ seen' = [t \in Traces |->
                IF trace[t] \in {"called", "checked", "attached"}
                  THEN seen[t] \cup {~halted} ELSE seen[t]]
  /\ UNCHANGED <<trace, ended, span, stream>>

-----------------------------------------------------------------------------
(***************************************************************************)
(* Client.TraceWithControl, of which Client.Trace is the same call.        *)
(***************************************************************************)
TraceCall(t) ==
  /\ trace[t] = "none"
  /\ trace' = [trace EXCEPT ![t] = "called"]
  /\ seen' = [seen EXCEPT ![t] = {halted}]
  /\ UNCHANGED <<halted, ended, span, stream>>

\* Mutant of TraceCheck: the result of the halt check is ignored.
TraceCheckIgnored(t) ==
  /\ trace[t] = "called"
  /\ trace' = [trace EXCEPT ![t] = "checked"]
  /\ UNCHANGED <<halted, ended, span, stream, seen>>

\* The halt check: a halted trace is returned at once, with no trace_start.
TraceCheck(t) ==
  /\ trace[t] = "called"
  /\ trace' = [trace EXCEPT ![t] = IF halted THEN "halted" ELSE "checked"]
  /\ UNCHANGED <<halted, ended, span, stream, seen>>

\* The take of the guardrail session, see ControlRegistry.
TraceTake(t) ==
  /\ trace[t] = "checked"
  /\ trace' = [trace EXCEPT ![t] = "attached"]
  /\ UNCHANGED <<halted, ended, span, stream, seen>>

\* Mutant of TraceStart: the trace is returned before its start is enqueued.
TraceStartLate(t) ==
  /\ \/ /\ trace[t] = "attached"
        /\ trace' = [trace EXCEPT ![t] = "open"]
        /\ UNCHANGED stream
     \/ /\ trace[t] = "open"
        /\ \A i \in 1..Len(stream) : ~(stream[i].type = "trace_start" /\ stream[i].trace = t)
        /\ Enqueue(Event("trace_start", t))
        /\ UNCHANGED trace
  /\ UNCHANGED <<halted, ended, span, seen>>

TraceStart(t) ==
  /\ trace[t] = "attached"
  /\ trace' = [trace EXCEPT ![t] = "open"]
  /\ Enqueue(Event("trace_start", t))
  /\ UNCHANGED <<halted, ended, span, seen>>

-----------------------------------------------------------------------------
(***************************************************************************)
(* Methods of a trace that has been returned, halted and ended ones too.   *)
(***************************************************************************)
\* Span and ChildSpan, whose parent may be any span the caller holds.
Span(t, s, parent) ==
  /\ Returned(t)
  /\ ~Created(s)
  /\ parent # NoId => Created(parent)
  /\ span' = [span EXCEPT ![s].trace = t, ![s].parent = parent]
  /\ UNCHANGED <<halted, trace, ended, stream, seen>>

\* Trace.Event and Feedback, Span.Metric; with no trace, those of the client.
PointEvents == {i \in 1..Len(stream) : stream[i].type \in Points}

Point(t, type) ==
  /\ t # NoId => Returned(t)
  /\ Cardinality(PointEvents) < MaxPoints             \* bound of the model
  /\ Enqueue(Event(type, t))
  /\ UNCHANGED <<halted, trace, ended, span, seen>>

EndEvent(t, status, options) ==
  [Event("trace_end", t) EXCEPT !.status = status, !.error = "error" \in options,
                                !.fields = options \cap {"output"}]

\* Mutant of TraceEnd: a second End is not ignored.
TraceEndAgain(t, status, options) ==
  /\ Returned(t)
  /\ Len(stream) < 8
  /\ ended' = ended \cup {t}
  /\ Enqueue(EndEvent(t, status, options))
  /\ UNCHANGED <<halted, trace, span, seen>>

\* A second End returns without an effect: no step.
TraceEnd(t, status, options) ==
  /\ Returned(t)
  /\ t \notin ended
  /\ ended' = ended \cup {t}
  /\ Enqueue(EndEvent(t, status, options))
  /\ UNCHANGED <<halted, trace, span, seen>>

-----------------------------------------------------------------------------
(***************************************************************************)
(* Methods of a span, which may be called after End as well.               *)
(***************************************************************************)
SetField(s, field) ==
  /\ Created(s)
  /\ span' = [span EXCEPT ![s].fields = @ \cup {field}]
  /\ UNCHANGED <<halted, trace, ended, stream, seen>>

SetStatus(s, status) ==
  /\ Created(s)
  /\ span' = [span EXCEPT ![s].status = status]
  /\ UNCHANGED <<halted, trace, ended, stream, seen>>

\* The event that End and EndWithError build: of the fields that can be set,
\* the metadata is not copied.
SpanEvent(s, status, error) ==
  [type |-> "span", trace |-> span[s].trace, span |-> s, status |-> status,
   error |-> error, fields |-> span[s].fields \ {"metadata"}]

\* Mutant of SpanEnd: a span without a status is not reported as a success.
SpanEndBare(s) ==
  /\ Created(s)
  /\ s \notin ended
  /\ ended' = ended \cup {s}
  /\ Enqueue(SpanEvent(s, span[s].status, span[s].error))
  /\ UNCHANGED <<halted, trace, span, seen>>

SpanEnd(s) ==
  LET status == IF span[s].status = "" THEN "success" ELSE span[s].status IN
  /\ Created(s)
  /\ s \notin ended
  /\ ended' = ended \cup {s}
  /\ span' = [span EXCEPT ![s].status = status]
  /\ Enqueue(SpanEvent(s, status, span[s].error))
  /\ UNCHANGED <<halted, trace, seen>>

\* Mutant of SpanEndWithError: the message is put where the status belongs.
SpanEndWithErrorSwapped(s) ==
  /\ Created(s)
  /\ s \notin ended
  /\ ended' = ended \cup {s}
  /\ span' = [span EXCEPT ![s].status = "message", ![s].error = TRUE]
  /\ Enqueue(SpanEvent(s, "error", TRUE))
  /\ UNCHANGED <<halted, trace, seen>>

SpanEndWithError(s) ==
  /\ Created(s)
  /\ s \notin ended
  /\ ended' = ended \cup {s}
  /\ span' = [span EXCEPT ![s].status = "error", ![s].error = TRUE]
  /\ Enqueue(SpanEvent(s, "error", TRUE))
  /\ UNCHANGED <<halted, trace, seen>>

-----------------------------------------------------------------------------
Next ==
  \/ ControlArrives
  \/ \E t \in Traces : TraceCall(t) \/ TraceCheck(t) \/ TraceTake(t) \/ TraceStart(t)
  \/ \E t \in Traces, s \in Spans, parent \in Spans \cup {NoId} : Span(t, s, parent)
  \/ \E t \in Traces \cup {NoId}, type \in Points : Point(t, type)
  \/ \E t \in Traces, status \in Statuses, options \in EndOptions :
       TraceEnd(t, status, options)
  \/ \E s \in Spans, field \in Used : SetField(s, field)
  \/ \E s \in Spans, status \in Statuses : SetStatus(s, status)
  \/ \E s \in Spans : SpanEnd(s) \/ SpanEndWithError(s)

Spec == Init /\ [][Next]_vars

-----------------------------------------------------------------------------
SpanRecord == [trace : Traces \cup {NoId}, parent : Spans \cup {NoId},
               status : Statuses \cup {""}, error : BOOLEAN, fields : SUBSET Fields]

TelemetryEvent == [type : Points \cup {"trace_start", "trace_end", "span"},
                   trace : Traces \cup {NoId}, span : Spans \cup {NoId},
                   status : Statuses \cup {""}, error : BOOLEAN, fields : SUBSET Fields]

\* Every variable has its type; a span that has ended has been created, and the
\* stream holds nothing but telemetry events (event.go:28).
TypeOK ==
  /\ halted \in BOOLEAN
  /\ trace \in [Traces -> {"none", "called", "checked", "attached", "open", "halted"}]
  /\ ended \subseteq {t \in Traces : Returned(t)} \cup {s \in Spans : Created(s)}
  /\ span \in [Spans -> SpanRecord]
  /\ stream \in Seq(TelemetryEvent)
  /\ seen \in [Traces -> SUBSET BOOLEAN]

EventsOf(type, t, s) ==
  {i \in 1..Len(stream) : stream[i].type = type /\ stream[i].trace = t /\ stream[i].span = s}

\* Whoever ends a span first, and however many goroutines try, the span is
\* reported exactly once when it has ended and not before; so is the end of a
\* trace (trace.go:91, span.go:103, 140).
EndedIsReportedOnce ==
  /\ \A s \in Spans :
       Cardinality(EventsOf("span", span[s].trace, s)) = IF s \in ended THEN 1 ELSE 0
  /\ \A t \in Traces :
       Cardinality(EventsOf("trace_end", t, NoId)) = IF t \in ended THEN 1 ELSE 0

\* An open trace has one trace_start, and it comes before every other event of
\* that trace; a halted one never has any (nodeloom.go:114-144).
StartComesFirst ==
  \A t \in Traces :
    LET starts == EventsOf("trace_start", t, NoId) IN
    /\ Cardinality(starts) = IF trace[t] = "open" THEN 1 ELSE 0
    /\ \A i \in starts, j \in 1..Len(stream) :
         j < i => stream[j].trace # t

\* A trace is open only if the agent was running at some moment of the call
\* that made it, and halted only if the agent was halted at one: a halt that
\* holds for the whole call is never missed (nodeloom.go:114).
HaltIsObserved ==
  \A t \in Traces :
    /\ trace[t] \in {"checked", "attached", "open"} => FALSE \in seen[t]
    /\ trace[t] = "halted" => TRUE \in seen[t]

\* A span is never reported without a status, and one that carries an error
\* message is reported as failed, whatever string SetStatus was called with,
\* the empty one included (span.go:48, 109, 144).
StatusIsDefinite ==
  \A i \in 1..Len(stream) :
    stream[i].type = "span" =>
      /\ stream[i].status # ""
      /\ stream[i].error => stream[i].status = "error"
=============================================================================
