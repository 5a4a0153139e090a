---------------------------- MODULE SessionTrace ----------------------------
(***************************************************************************)
(* The Anthropic handler (integrations/anthropic/handler.go): a session is *)
(* one trace, and the events of the session become its spans.              *)
(*                                                                         *)
(* OnEvent and EndWithStatus hold the session's mutex; within it they call *)
(* the methods of spans and traces one after another, and each of those is *)
(* the step of TraceSpans it is for any other caller.  `handler' is the    *)
(* call that holds the mutex.  The events may go on after the session has  *)
(* been ended, and EndWithStatus may be called again.                      *)
(*                                                                         *)
(* CheckInput and CheckOutput do not touch the session: they are           *)
(* CheckGuardrails of ControlRegistry.                                     *)
(***************************************************************************)
EXTENDS TraceSpans

CONSTANTS
  Session,     \* the trace that TraceSession opened
  ToolIds      \* ids of tool calls, the empty id excluded

ASSUME SessionAssumption ==
  /\ Session \in Traces
  /\ NoId \notin ToolIds
  /\ {"input", "output"} \subseteq Used
  /\ {{}, {"output"}} \subseteq EndOptions

VARIABLES
  handler,     \* the call that holds the mutex
  activeSpans, \* activeSpans[id]: the open span of the tool call id
  lastOutput,  \* lastOutput is not nil: a message had a text
  replaced,    \* history: spans that a later call with the same id displaced
  late         \* history: spans made after the trace had ended

sessionVars == <<handler, activeSpans, lastOutput, replaced, late>>
allVars == <<vars, sessionVars>>

\* The texts of the blocks of an event; a string is one, no content is none.
Contents == SUBSET {"", "text"}

\* The texts joined are more than the empty string.
ExtractText(content) == \E text \in content : text # ""

\* text: the event has a field that is still to be copied to the span.
Idle == [call |-> "none", span |-> NoId, id |-> NoId, text |-> FALSE, status |-> "success"]
Call(call, s, id, text) == [Idle EXCEPT !.call = call, !.span = s, !.id = id, !.text = text]

SessionInit ==
  /\ Init
  /\ handler = Idle
  /\ activeSpans = [id \in ToolIds |-> NoId]
  /\ lastOutput = FALSE
  /\ replaced = {}
  /\ late = {}

-----------------------------------------------------------------------------
\* TraceSession, which is TraceWithControl; halts arrive at any time.
TraceSession ==
  /\ \/ ControlArrives
     \/ TraceCall(Session) \/ TraceCheck(Session) \/ TraceTake(Session) \/ TraceStart(Session)
  /\ UNCHANGED sessionVars

\* Mutant of OpenSpan: a trace that has ended makes no span, but one is kept.
OpenSpanUnlessEnded(call, s, id, text) ==
  /\ handler = Idle
  /\ ~Created(s)
  /\ IF Session \in ended THEN UNCHANGED vars ELSE Span(Session, s, NoId)
  /\ handler' = Call(call, s, id, text)
  /\ UNCHANGED <<activeSpans, lastOutput, replaced, late>>

\* OnEvent takes the mutex and the event opens a span.
OpenSpan(call, s, id, text) ==
  /\ handler = Idle
  /\ Span(Session, s, NoId)
  /\ handler' = Call(call, s, id, text)
  /\ late' = IF Session \in ended THEN late \cup {s} ELSE late
  /\ UNCHANGED <<activeSpans, lastOutput, replaced>>

Message(s, content) == OpenSpan("message", s, NoId, ExtractText(content))
Thinking(s, content) == OpenSpan("thinking", s, NoId, ExtractText(content))
ToolUse(s, id, input) == OpenSpan("tool_use", s, id, input)

\* A result whose id is not active has no effect: no step.
ToolResult(id, content) ==
  /\ handler = Idle
  /\ activeSpans[id] # NoId
  /\ handler' = Call("tool_result", activeSpans[id], id, ExtractText(content))
  /\ UNCHANGED <<vars, activeSpans, lastOutput, replaced, late>>

FieldOf(call) == IF call \in {"tool_use", "thinking"} THEN "input" ELSE "output"

\* SetInput or SetOutput; the text of a message becomes the last output.
CopyText ==
  /\ handler.text
  /\ SetField(handler.span, FieldOf(handler.call))
  /\ handler' = [handler EXCEPT !.text = FALSE]
  /\ lastOutput' = (lastOutput \/ handler.call = "message")
  /\ UNCHANGED <<activeSpans, replaced, late>>

\* Span.End, which does nothing for a span that has ended.
EndSpan(s) == SpanEnd(s) \/ (s \in ended /\ UNCHANGED vars)

\* A message or a thought ends its span, and so does a tool call without an id.
CloseSpan ==
  /\ handler.call \in {"message", "thinking", "tool_use"}
  /\ handler.id = NoId
  /\ ~handler.text
  /\ EndSpan(handler.span)
  /\ handler' = Idle
  /\ UNCHANGED <<activeSpans, lastOutput, replaced, late>>

\* Mutant of KeepActive: a call whose id is in use is not stored.
KeepFirst ==
  /\ handler.call = "tool_use"
  /\ handler.id # NoId
  /\ ~handler.text
  /\ activeSpans' = [activeSpans EXCEPT ![handler.id] = IF @ = NoId THEN handler.span ELSE @]
  /\ handler' = Idle
  /\ UNCHANGED <<vars, lastOutput, replaced, late>>

\* A tool call with an id stays open; a span stored under that id is displaced.
KeepActive ==
  /\ handler.call = "tool_use"
  /\ handler.id # NoId
  /\ ~handler.text
  /\ activeSpans' = [activeSpans EXCEPT ![handler.id] = handler.span]
  /\ replaced' = replaced \cup ({activeSpans[handler.id]} \ {NoId})
  /\ handler' = Idle
  /\ UNCHANGED <<vars, lastOutput, late>>

CloseTool ==
  /\ handler.call = "tool_result"
  /\ ~handler.text
  /\ EndSpan(handler.span)
  /\ activeSpans' = [activeSpans EXCEPT ![handler.id] = NoId]
  /\ handler' = Idle
  /\ UNCHANGED <<lastOutput, replaced, late>>

-----------------------------------------------------------------------------
\* EndWithStatus takes the mutex, ends the active spans in the order of a map,
\* clears the map and ends the trace; End is EndWithStatus(success).
EndWithStatus(status) ==
  /\ handler = Idle
  /\ Returned(Session)
  /\ handler' = [Idle EXCEPT !.call = "end", !.status = status]
  /\ UNCHANGED <<vars, activeSpans, lastOutput, replaced, late>>

EndActive(id) ==
  /\ handler.call = "end"
  /\ activeSpans[id] # NoId
  /\ EndSpan(activeSpans[id])
  /\ activeSpans' = [activeSpans EXCEPT ![id] = NoId]
  /\ UNCHANGED <<handler, lastOutput, replaced, late>>

EndTrace ==
  LET options == IF lastOutput THEN {"output"} ELSE {} IN
  \/ TraceEnd(Session, handler.status, options)
  \/ (Session \in ended /\ UNCHANGED vars)

\* Mutant of EndSession: the trace is ended before the active spans are.
EndSessionFirst ==
  /\ handler.call = "end"
  /\ EndTrace
  /\ handler' = IF \A id \in ToolIds : activeSpans[id] = NoId THEN Idle ELSE handler
  /\ UNCHANGED <<activeSpans, lastOutput, replaced, late>>

EndSession ==
  /\ handler.call = "end"
  /\ \A id \in ToolIds : activeSpans[id] = NoId
  /\ EndTrace
  /\ handler' = Idle
  /\ UNCHANGED <<activeSpans, lastOutput, replaced, late>>

-----------------------------------------------------------------------------
SessionNext ==
  \/ TraceSession
  \/ \E s \in Spans, content \in Contents : Message(s, content) \/ Thinking(s, content)
  \/ \E s \in Spans, id \in ToolIds \cup {NoId}, input \in BOOLEAN : ToolUse(s, id, input)
  \/ \E id \in ToolIds, content \in Contents : ToolResult(id, content)
  \/ CopyText \/ CloseSpan \/ KeepActive \/ CloseTool
  \/ \E status \in Statuses : EndWithStatus(status)
  \/ \E id \in ToolIds : EndActive(id)
  \/ EndSession

SessionSpec == SessionInit /\ [][SessionNext]_allVars

-----------------------------------------------------------------------------
Calls == {"none", "message", "thinking", "tool_use", "tool_result", "end"}

\* Every variable of the session has its type, and what the session keeps are
\* spans that exist (handler.go:60).
SessionTypeOK ==
  /\ TypeOK
  /\ handler \in [call : Calls, span : Spans \cup {NoId}, id : ToolIds \cup {NoId},
                  text : BOOLEAN, status : Statuses]
  /\ activeSpans \in [ToolIds -> {s \in Spans : Created(s)} \cup {NoId}]
  /\ lastOutput \in BOOLEAN
  /\ replaced \subseteq {s \in Spans : Created(s)}
  /\ late \subseteq {s \in Spans : Created(s)}

\* No span is forgotten: one that has not ended is in the hands of a handler or
\* active under exactly one id, and so the next result or end will find it, or
\* another tool call reused its id (handler.go:173).
NoSpanIsLost ==
  \A s \in Spans : Created(s) /\ s \notin ended /\ s \notin replaced =>
    \/ handler.span = s
    \/ \E id \in ToolIds : \A other \in ToolIds : activeSpans[other] = s <=> other = id

Positions(S) == {i \in 1..Len(stream) : stream[i].span \in S}

\* The end of the session comes after the report of every span that was open or
\* done by then: what follows it are spans of events that came late
\* (handler.go:141-150).
EndComesLast ==
  \A i \in EventsOf("trace_end", Session, NoId) :
    \A s \in Spans : Created(s) /\ s \notin late \cup replaced =>
      \E j \in Positions({s}) : j < i
=============================================================================
