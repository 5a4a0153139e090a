-------------------------- MODULE SessionTraceProofs --------------------------
(***************************************************************************)
(* Proofs about SessionTrace for every set of spans and of tool ids: the   *)
(* handler is an orderly user of traces and spans, and it forgets no span. *)
(***************************************************************************)
EXTENDS SessionTrace, TraceSpansProofs

-----------------------------------------------------------------------------
(***************************************************************************)
(* The invariant: what the call under way and the map of active spans have *)
(* to do with each other.                                                  *)
(***************************************************************************)
SpanCalls == {"message", "thinking", "tool_use", "tool_result"}

HandlerType == [call : Calls, span : Spans \cup {NoId}, id : ToolIds \cup {NoId},
                text : BOOLEAN, status : Statuses]

HandlerInv ==
  /\ handler \in HandlerType
  /\ handler.call \in SpanCalls => handler.span \in Spans /\ Created(handler.span)
  /\ handler.call \notin SpanCalls => handler.span = NoId /\ handler.text = FALSE
  /\ handler.call = "tool_result" =>
       handler.id \in ToolIds /\ activeSpans[handler.id] = handler.span

MapInv ==
  /\ activeSpans \in [ToolIds -> {s \in Spans : Created(s)} \cup {NoId}]
  /\ lastOutput \in BOOLEAN
  /\ replaced \subseteq {s \in Spans : Created(s)}
  /\ late \subseteq {s \in Spans : Created(s)}

\* No span is active twice, a new one is not active yet, and an open one is to
\* be found.
ActiveInv ==
  /\ \A i, j \in ToolIds : activeSpans[i] = activeSpans[j] /\ activeSpans[i] # NoId => i = j
  /\ handler.call \in {"message", "thinking", "tool_use"} =>
       \A id \in ToolIds : activeSpans[id] # handler.span
  /\ \A s \in Spans : Created(s) /\ s \notin ended \cup replaced =>
       handler.span = s \/ \E id \in ToolIds : activeSpans[id] = s

SessionInv == HandlerInv /\ MapInv /\ ActiveInv

LEMMA InitSessionInv ==
  ASSUME SessionInit
  PROVE  StatusInv /\ SessionInv
<1>1. \A s \in Spans : ~Created(s)
  BY DEF SessionInit, Init, Created
<1>2. HandlerInv
  BY DEF SessionInit, HandlerInv, HandlerType, Idle, Calls, SpanCalls, Statuses
<1>3. MapInv /\ ActiveInv
  BY <1>1 DEF SessionInit, MapInv, ActiveInv, Idle
<1> QED
  BY <1>2, <1>3, InitStatusInv DEF SessionInit, SessionInv

-----------------------------------------------------------------------------
(***************************************************************************)
(* What the steps of traces and spans do to the sets of spans that have    *)
(* been created and that have ended.                                       *)
(***************************************************************************)
LEMMA CreatedHasTrace ==
  ASSUME StatusInv, NEW s \in Spans
  PROVE  Created(s) <=> span[s].trace \in Traces
<1>1. NoSpan.trace = NoId /\ NoId \notin Traces
  BY TraceAssumption DEF NoSpan
<1> QED
  BY <1>1 DEF StatusInv, Created

\* A created span that keeps its trace stays one, and no other is touched.
LEMMA SameTrace ==
  ASSUME StatusInv, NEW s \in Spans, Created(s), span'[s].trace = span[s].trace,
         \A x \in Spans \ {s} : span'[x] = span[x]
  PROVE  \A x \in Spans : Created(x)' <=> Created(x)
<1>1. NoSpan.trace = NoId /\ NoId \notin Traces
  BY TraceAssumption DEF NoSpan
<1> QED
  BY <1>1, CreatedHasTrace DEF Created

LEMMA OpenEffect ==
  ASSUME StatusInv, NEW s \in Spans, Span(Session, s, NoId)
  PROVE  /\ ~Created(s) /\ ended' = ended
         /\ \A x \in Spans : Created(x)' <=> Created(x) \/ x = s
<1>1. /\ ~Created(s) /\ ended' = ended
      /\ span'[s].trace = Session /\ \A x \in Spans \ {s} : span'[x] = span[x]
  BY DEF Span, StatusInv, TypeOK, SpanRecord
<1>2. span'[s] # NoSpan
  <2>1. NoSpan.trace = NoId /\ NoId \notin Traces /\ Session \in Traces
    BY TraceAssumption, SessionAssumption DEF NoSpan
  <2> QED
    BY <1>1, <2>1
<1> QED
  BY <1>1, <1>2 DEF Created

LEMMA FieldEffect ==
  ASSUME StatusInv, NEW s \in Spans, NEW field, SetField(s, field)
  PROVE  ended' = ended /\ \A x \in Spans : Created(x)' <=> Created(x)
<1>1. /\ ended' = ended /\ Created(s) /\ span'[s].trace = span[s].trace
      /\ \A x \in Spans \ {s} : span'[x] = span[x]
  BY DEF SetField, StatusInv, TypeOK, SpanRecord
<1> QED
  BY <1>1, SameTrace

LEMMA EndEffect ==
  ASSUME StatusInv, NEW s \in Spans, EndSpan(s)
  PROVE  ended' = ended \cup {s} /\ \A x \in Spans : Created(x)' <=> Created(x)
<1>1. CASE SpanEnd(s)
  <2>1. /\ ended' = ended \cup {s} /\ Created(s) /\ span'[s].trace = span[s].trace
        /\ \A x \in Spans \ {s} : span'[x] = span[x]
    BY <1>1 DEF SpanEnd, StatusInv, TypeOK, SpanRecord
  <2> QED
    BY <2>1, SameTrace
<1>2. CASE s \in ended /\ UNCHANGED vars
  BY <1>2 DEF vars, Created
<1> QED
  BY <1>1, <1>2 DEF EndSpan

\* A step of the trace: no span is touched.
LEMMA TraceEffect ==
  ASSUME TraceSession \/ EndTrace
  PROVE  /\ \A x \in Spans : Created(x)' <=> Created(x)
         /\ ended \subseteq ended'
<1>1. span' = span /\ ended \subseteq ended'
  BY DEF TraceSession, EndTrace, ControlArrives, TraceCall, TraceCheck, TraceTake, TraceStart,
         TraceEnd, vars
<1> QED
  BY <1>1 DEF Created

-----------------------------------------------------------------------------
(***************************************************************************)
(* Every step of the handler is one that any caller of traces and spans    *)
(* may take, or none.                                                      *)
(***************************************************************************)
LEMMA SessionStep ==
  ASSUME SessionInv, [SessionNext]_allVars
  PROVE  [Next]_vars
<1>1. Session \in Traces /\ {"input", "output"} \subseteq Used
      /\ {} \in EndOptions /\ {"output"} \in EndOptions
  BY SessionAssumption
<1>2. CASE TraceSession
  BY <1>1, <1>2 DEF TraceSession, Next
<1>3. ASSUME NEW call, NEW s \in Spans, NEW id, NEW text, OpenSpan(call, s, id, text)
      PROVE  Next
  BY <1>1, <1>3 DEF OpenSpan, Next
<1>4. CASE CopyText
  <2>1. handler.call \in SpanCalls /\ handler.span \in Spans
    BY <1>4 DEF CopyText, SessionInv, HandlerInv
  <2>2. FieldOf(handler.call) \in Used
    BY <1>1 DEF FieldOf
  <2> QED
    BY <1>4, <2>1, <2>2 DEF CopyText, Next
<1>5. ASSUME NEW s \in Spans, EndSpan(s)
      PROVE  [Next]_vars
  BY <1>5 DEF EndSpan, Next
<1>6. CASE CloseSpan
  <2>1. handler.span \in Spans
    BY <1>6 DEF CloseSpan, SessionInv, HandlerInv, SpanCalls
  <2> QED
    BY <1>5, <1>6, <2>1 DEF CloseSpan
<1>7. CASE CloseTool
  <2>1. handler.span \in Spans
    BY <1>7 DEF CloseTool, SessionInv, HandlerInv, SpanCalls
  <2> QED
    BY <1>5, <1>7, <2>1 DEF CloseTool
<1>8. ASSUME NEW id \in ToolIds, EndActive(id)
      PROVE  [Next]_vars
  <2>1. activeSpans[id] \in Spans
    BY <1>8 DEF EndActive, SessionInv, MapInv
  <2> QED
    BY <1>5, <1>8, <2>1 DEF EndActive
<1>9. CASE EndSession
  <2>1. handler.status \in Statuses
    BY DEF SessionInv, HandlerInv, HandlerType
  <2> QED
    BY <1>1, <1>9, <2>1 DEF EndSession, EndTrace, Next
<1>10. CASE UNCHANGED vars
  BY <1>10
<1>11. ASSUME \/ \E id \in ToolIds, content \in Contents : ToolResult(id, content)
              \/ KeepActive
              \/ \E status \in Statuses : EndWithStatus(status)
              \/ UNCHANGED allVars
       PROVE  UNCHANGED vars
  BY <1>11 DEF ToolResult, KeepActive, EndWithStatus, allVars
<1> QED
  BY <1>2, <1>3, <1>4, <1>6, <1>7, <1>8, <1>9, <1>10, <1>11
     DEF SessionNext, Message, Thinking, ToolUse

-----------------------------------------------------------------------------
\* Steps that leave the session alone.
LEMMA SessionKeeps ==
  ASSUME SessionInv, UNCHANGED sessionVars, ended \subseteq ended',
         \A x \in Spans : Created(x)' <=> Created(x)
  PROVE  SessionInv'
<1>1. UNCHANGED <<handler, activeSpans, lastOutput, replaced, late>>
  BY DEF sessionVars
<1>2. HandlerInv'
  BY <1>1 DEF SessionInv, HandlerInv, HandlerType
<1>3. MapInv'
  BY <1>1 DEF SessionInv, MapInv
<1>4. ActiveInv'
  BY <1>1 DEF SessionInv, ActiveInv
<1> QED
  BY <1>2, <1>3, <1>4 DEF SessionInv

LEMMA NextKeepsSessionInv ==
  ASSUME StatusInv, SessionInv, [SessionNext]_allVars
  PROVE  SessionInv'
<1> USE DEF SessionInv
<1>0. /\ handler \in HandlerType
      /\ activeSpans \in [ToolIds -> {s \in Spans : Created(s)} \cup {NoId}]
      /\ NoId \notin Spans /\ NoId \notin ToolIds
  BY TraceAssumption, SessionAssumption DEF HandlerInv, MapInv
<1>1. CASE TraceSession
  BY <1>1, TraceEffect, SessionKeeps DEF TraceSession
<1>2. ASSUME NEW call \in {"message", "thinking", "tool_use"}, NEW s \in Spans,
             NEW id \in ToolIds \cup {NoId}, NEW text \in BOOLEAN,
             OpenSpan(call, s, id, text)
      PROVE  SessionInv'
  <2>1. /\ ~Created(s) /\ ended' = ended
        /\ \A x \in Spans : Created(x)' <=> Created(x) \/ x = s
    BY <1>2, OpenEffect DEF OpenSpan
  <2>2. /\ handler' \in HandlerType /\ handler'.call = call /\ handler'.span = s
        /\ handler = Idle
    BY <1>2 DEF OpenSpan, Call, Idle, HandlerType, Calls, Statuses
  <2>3. handler.span = NoId
    BY <2>2 DEF Idle
  <2>4. UNCHANGED <<activeSpans, lastOutput, replaced>> /\ late' \subseteq late \cup {s}
    BY <1>2 DEF OpenSpan
  <2>5. HandlerInv'
    BY <2>1, <2>2 DEF HandlerInv, HandlerType, SpanCalls
  <2>6. MapInv'
    BY <2>1, <2>4 DEF MapInv
  <2>7. \A i \in ToolIds : activeSpans[i] # s
    BY <1>0, <2>1
  <2>8. ActiveInv'
    BY <1>0, <2>1, <2>2, <2>3, <2>4, <2>7 DEF ActiveInv
  <2> QED
    BY <2>5, <2>6, <2>8
<1>3. ASSUME NEW id \in ToolIds, NEW content \in Contents, ToolResult(id, content)
      PROVE  SessionInv'
  <2>1. /\ UNCHANGED <<ended, activeSpans, lastOutput, replaced, late>>
        /\ \A x \in Spans : Created(x)' <=> Created(x)
        /\ handler = Idle /\ activeSpans[id] \in {s \in Spans : Created(s)}
    BY <1>0, <1>3 DEF ToolResult, vars, Created
  <2>2. /\ handler' \in HandlerType /\ handler'.call = "tool_result"
        /\ handler'.span = activeSpans[id] /\ handler'.id = id
    BY <1>3, <2>1 DEF ToolResult, Call, Idle, HandlerType, Calls, Statuses, ExtractText
  <2>3. handler.span = NoId
    BY <2>1 DEF Idle
  <2>4. HandlerInv'
    BY <2>1, <2>2 DEF HandlerInv, HandlerType, SpanCalls
  <2>5. MapInv'
    BY <2>1 DEF MapInv
  <2>6. ActiveInv'
    BY <1>0, <2>1, <2>2, <2>3 DEF ActiveInv
  <2> QED
    BY <2>4, <2>5, <2>6
<1>4. CASE CopyText
  <2>1. handler.call \in SpanCalls /\ handler.span \in Spans
    BY <1>4 DEF CopyText, HandlerInv
  <2>2. ended' = ended /\ \A x \in Spans : Created(x)' <=> Created(x)
    BY <1>4, <2>1, FieldEffect DEF CopyText
  <2>3. /\ handler' \in HandlerType /\ handler'.call = handler.call
        /\ handler'.span = handler.span /\ handler'.id = handler.id
    BY <1>0, <1>4 DEF CopyText, HandlerType
  <2>4. UNCHANGED <<activeSpans, replaced, late>> /\ lastOutput' \in BOOLEAN
    BY <1>4 DEF CopyText
  <2>5. HandlerInv'
    BY <2>1, <2>2, <2>3, <2>4 DEF HandlerInv, HandlerType
  <2>6. MapInv'
    BY <2>2, <2>4 DEF MapInv
  <2>7. ActiveInv'
    BY <2>2, <2>3, <2>4 DEF ActiveInv
  <2> QED
    BY <2>5, <2>6, <2>7
<1>5. Idle \in HandlerType /\ Idle.call = "none" /\ Idle.span = NoId /\ Idle.text = FALSE
  BY DEF Idle, HandlerType, Calls, Statuses
<1>6. ASSUME handler' = Idle, MapInv'
      PROVE  HandlerInv'
  BY <1>5, <1>6 DEF HandlerInv, HandlerType, SpanCalls
<1>7. CASE CloseSpan
  <2>1. handler.span \in Spans
    BY <1>7 DEF CloseSpan, HandlerInv, SpanCalls
  <2>2. ended' = ended \cup {handler.span} /\ \A x \in Spans : Created(x)' <=> Created(x)
    BY <1>7, <2>1, EndEffect DEF CloseSpan
  <2>3. handler' = Idle /\ UNCHANGED <<activeSpans, lastOutput, replaced, late>>
    BY <1>7 DEF CloseSpan
  <2>4. MapInv'
    BY <2>2, <2>3 DEF MapInv
  <2>5. ActiveInv'
    BY <1>5, <2>2, <2>3 DEF ActiveInv
  <2> QED
    BY <1>6, <2>3, <2>4, <2>5
<1>8. CASE KeepActive
  <2> DEFINE id == handler.id
  <2>1. /\ handler.call = "tool_use" /\ id \in ToolIds
        /\ handler.span \in Spans /\ Created(handler.span)
    BY <1>0, <1>8 DEF KeepActive, HandlerInv, SpanCalls, HandlerType
  <2>2. ended' = ended /\ \A x \in Spans : Created(x)' <=> Created(x)
    BY <1>8 DEF KeepActive, vars, Created
  <2>3. /\ activeSpans'[id] = handler.span
        /\ \A i \in ToolIds \ {id} : activeSpans'[i] = activeSpans[i]
        /\ activeSpans' \in [ToolIds -> {s \in Spans : Created(s)} \cup {NoId}]
        /\ handler' = Idle /\ UNCHANGED <<lastOutput, late>>
        /\ replaced' = replaced \cup ({activeSpans[id]} \ {NoId})
    BY <1>0, <1>8, <2>1 DEF KeepActive
  <2>4. replaced' \subseteq {s \in Spans : Created(s)}
    BY <1>0, <2>1, <2>3 DEF MapInv
  <2>5. MapInv'
    BY <2>2, <2>3, <2>4 DEF MapInv
  <2>6. \A i \in ToolIds : activeSpans[i] # handler.span
    BY <2>1 DEF ActiveInv
  <2> HIDE DEF id
  <2>7. ActiveInv'
    <3>1. \A i, j \in ToolIds : activeSpans'[i] = activeSpans'[j] /\ activeSpans'[i] # NoId => i = j
      BY <2>1, <2>3, <2>6 DEF ActiveInv
    <3>2. \A s \in Spans : Created(s)' /\ s \notin ended' \cup replaced' =>
            \E i \in ToolIds : activeSpans'[i] = s
      <4> SUFFICES ASSUME NEW s \in Spans, Created(s), s \notin ended \cup replaced,
                          s \notin replaced'
                   PROVE  \E i \in ToolIds : activeSpans'[i] = s
        BY <2>2, <2>3
      <4>1. CASE handler.span = s
        BY <2>1, <2>3, <4>1
      <4>2. CASE handler.span # s
        <5>1. PICK i \in ToolIds : activeSpans[i] = s
          BY <4>2 DEF ActiveInv
        <5>2. i # id
          BY <1>0, <2>3, <5>1
        <5> QED
          BY <2>3, <5>1, <5>2
      <4> QED
        BY <4>1, <4>2
    <3> QED
      BY <1>5, <2>3, <3>1, <3>2 DEF ActiveInv
  <2> QED
    BY <1>6, <2>3, <2>5, <2>7
<1>9. ASSUME NEW id \in ToolIds, NEW s \in Spans, activeSpans[id] = s, EndSpan(s),
             activeSpans' = [activeSpans EXCEPT ![id] = NoId],
             handler' = handler \/ (handler' = Idle /\ handler.span = s),
             handler.call \in {"tool_result", "end"},
             UNCHANGED <<lastOutput, replaced, late>>
      PROVE  MapInv' /\ ActiveInv'
  <2>1. ended' = ended \cup {s} /\ \A x \in Spans : Created(x)' <=> Created(x)
    BY <1>9, EndEffect
  <2>2. /\ activeSpans'[id] = NoId
        /\ \A i \in ToolIds \ {id} : activeSpans'[i] = activeSpans[i]
        /\ activeSpans' \in [ToolIds -> {x \in Spans : Created(x)} \cup {NoId}]
    BY <1>0, <1>9
  <2>3. MapInv'
    BY <1>9, <2>1, <2>2 DEF MapInv
  <2>4. \A i, j \in ToolIds : activeSpans'[i] = activeSpans'[j] /\ activeSpans'[i] # NoId => i = j
    BY <2>2 DEF ActiveInv
  <2>5. handler'.call \notin {"message", "thinking", "tool_use"}
    BY <1>5, <1>9
  <2>6. \A x \in Spans : Created(x)' /\ x \notin ended' \cup replaced' =>
          handler'.span = x \/ \E i \in ToolIds : activeSpans'[i] = x
    <3> SUFFICES ASSUME NEW x \in Spans, Created(x), x \notin ended \cup replaced, x # s
                 PROVE  handler'.span = x \/ \E i \in ToolIds : activeSpans'[i] = x
      BY <1>9, <2>1
    <3>1. handler.span = x => handler'.span = x
      BY <1>9
    <3>2. ASSUME NEW i \in ToolIds, activeSpans[i] = x
          PROVE  activeSpans'[i] = x
      BY <1>9, <2>2, <3>2
    <3> QED
      BY <3>1, <3>2 DEF ActiveInv
  <2> QED
    BY <2>3, <2>4, <2>5, <2>6 DEF ActiveInv
<1>10. CASE CloseTool
  <2>1. /\ handler.id \in ToolIds /\ handler.span \in Spans
        /\ activeSpans[handler.id] = handler.span
    BY <1>10 DEF CloseTool, HandlerInv, SpanCalls
  <2>2. MapInv' /\ ActiveInv'
    BY <1>9, <1>10, <2>1 DEF CloseTool
  <2> QED
    BY <1>6, <1>10, <2>2 DEF CloseTool
<1>11. ASSUME NEW status \in Statuses, EndWithStatus(status)
       PROVE  SessionInv'
  <2>1. /\ handler = Idle /\ handler' = [Idle EXCEPT !.call = "end", !.status = status]
        /\ UNCHANGED <<ended, activeSpans, lastOutput, replaced, late>>
        /\ \A x \in Spans : Created(x)' <=> Created(x)
    BY <1>11 DEF EndWithStatus, vars, Created
  <2>2. /\ handler' \in HandlerType /\ handler'.call = "end"
        /\ handler'.span = NoId /\ handler'.text = FALSE
    BY <2>1 DEF Idle, HandlerType, Calls
  <2>3. HandlerInv'
    BY <2>2 DEF HandlerInv, HandlerType, SpanCalls
  <2>4. MapInv'
    BY <2>1 DEF MapInv
  <2>5. ActiveInv'
    BY <1>5, <2>1, <2>2 DEF ActiveInv
  <2> QED
    BY <2>3, <2>4, <2>5
<1>12. ASSUME NEW id \in ToolIds, EndActive(id)
       PROVE  SessionInv'
  <2>1. activeSpans[id] \in Spans /\ handler' = handler /\ handler.call = "end"
    BY <1>0, <1>12 DEF EndActive
  <2>2. MapInv' /\ ActiveInv'
    BY <1>9, <1>12, <2>1 DEF EndActive
  <2>3. HandlerInv'
    BY <2>1 DEF HandlerInv, HandlerType, SpanCalls
  <2> QED
    BY <2>2, <2>3
<1>13. CASE EndSession
  <2>1. /\ \A x \in Spans : Created(x)' <=> Created(x)
        /\ ended \subseteq ended'
    BY <1>13, TraceEffect DEF EndSession
  <2>2. handler' = Idle /\ UNCHANGED <<activeSpans, lastOutput, replaced, late>>
        /\ handler.call = "end"
    BY <1>13 DEF EndSession
  <2>3. handler.span = NoId
    BY <2>2 DEF HandlerInv, SpanCalls
  <2>4. MapInv'
    BY <2>1, <2>2 DEF MapInv
  <2>5. ActiveInv'
    BY <1>0, <1>5, <2>1, <2>2, <2>3 DEF ActiveInv
  <2> QED
    BY <1>6, <2>2, <2>4, <2>5
<1>14. CASE UNCHANGED allVars
  BY <1>14, SessionKeeps DEF allVars, vars, Created
<1>15. ASSUME NEW s \in Spans, NEW content, Message(s, content) \/ Thinking(s, content)
       PROVE  SessionInv'
  <2>1. ExtractText(content) \in BOOLEAN /\ NoId \in ToolIds \cup {NoId}
    BY DEF ExtractText
  <2> QED
    BY <1>2, <1>15, <2>1 DEF Message, Thinking
<1>16. ASSUME NEW s \in Spans, NEW id \in ToolIds \cup {NoId}, NEW input \in BOOLEAN,
              ToolUse(s, id, input)
       PROVE  SessionInv'
  BY <1>2, <1>16 DEF ToolUse
<1> QED
  BY <1>1, <1>3, <1>4, <1>7, <1>8, <1>10, <1>11, <1>12, <1>13, <1>14, <1>15, <1>16
     DEF SessionNext

-----------------------------------------------------------------------------
LEMMA SessionStepKeeps ==
  ASSUME StatusInv, SessionInv, [SessionNext]_allVars
  PROVE  [Next]_vars /\ StatusInv' /\ SessionInv'
BY SessionStep, NextKeepsStatusInv, NextKeepsSessionInv

\* Whatever events an application passes to the handler, and in whatever order,
\* what its session does is what some direct user of the trace may do: all that
\* holds of traces and spans holds of sessions (handler.go:60).
THEOREM SessionUsesTrace == SessionSpec => Spec
<1>1. SessionInit => Init /\ StatusInv /\ SessionInv
  BY InitSessionInv DEF SessionInit
<1>2. StatusInv /\ SessionInv /\ [SessionNext]_allVars => [Next]_vars /\ (StatusInv /\ SessionInv)'
  BY SessionStepKeeps
<1> QED
  BY <1>1, <1>2, PTL DEF SessionSpec, Spec

\* Every variable of the session keeps its type, for every set of spans and of
\* tool ids (handler.go:60).
THEOREM SessionTypes == SessionSpec => []SessionTypeOK
<1>1. SessionInit => StatusInv /\ SessionInv
  BY InitSessionInv
<1>2. StatusInv /\ SessionInv /\ [SessionNext]_allVars => (StatusInv /\ SessionInv)'
  BY SessionStepKeeps
<1>3. StatusInv /\ SessionInv => SessionTypeOK
  BY DEF StatusInv, SessionInv, HandlerInv, HandlerType, MapInv, SessionTypeOK
<1> QED
  BY <1>1, <1>2, <1>3, PTL DEF SessionSpec

\* A span that has not ended is in the hands of the handler or active under one
\* id, unless a tool call reused its id (handler.go:173).
THEOREM EverySpanIsKept == SessionSpec => []NoSpanIsLost
<1>1. SessionInit => StatusInv /\ SessionInv
  BY InitSessionInv
<1>2. StatusInv /\ SessionInv /\ [SessionNext]_allVars => (StatusInv /\ SessionInv)'
  BY SessionStepKeeps
<1>3. SessionInv => NoSpanIsLost
  <2>1. NoId \notin Spans
    BY TraceAssumption
  <2> QED
    BY <2>1 DEF SessionInv, ActiveInv, NoSpanIsLost
<1> QED
  BY <1>1, <1>2, <1>3, PTL DEF SessionSpec

-----------------------------------------------------------------------------
(***************************************************************************)
(* The end of a session comes last.  The step that reports it is taken     *)
(* with no span active and none in the hands of the handler, so whatever   *)
(* was created by then has ended, and has been reported, or was displaced; *)
(* and a span that is created later is late.                               *)
(***************************************************************************)
\* What was reported stays where it is.
LEMMA StreamGrows ==
  ASSUME TypeOK, [Next]_vars
  PROVE  \A i \in 1..Len(stream) : i \in 1..Len(stream') /\ stream'[i] = stream[i]
<1>1. ASSUME NEW e, Enqueue(e)
      PROVE  \A i \in 1..Len(stream) : i \in 1..Len(stream') /\ stream'[i] = stream[i]
  BY <1>1, EnqueueOf
<1>2. UNCHANGED stream \/ \E e : Enqueue(e)
  BY DEF Next, ControlArrives, TraceCall, TraceCheck, TraceTake, TraceStart, Span, Point,
         TraceEnd, SetField, SetStatus, SpanEnd, SpanEndWithError, vars
<1> QED
  BY <1>1, <1>2

\* A span that comes to be after the end of the trace is late, and the trace is
\* ended with no span active.
LEMMA SessionEffect ==
  ASSUME StatusInv, SessionInv, [SessionNext]_allVars
  PROVE  /\ late \subseteq late' /\ replaced \subseteq replaced'
         /\ \A s \in Spans : Created(s)' => Created(s) \/ (Session \in ended => s \in late')
         /\ Session \in ended' /\ Session \notin ended =>
              /\ EndSession
              /\ \E options : TraceEnd(Session, handler.status, options)
<1>1. Session \notin Spans
  BY SessionAssumption, TraceAssumption
<1>2. CASE TraceSession
  <2>1. UNCHANGED <<late, replaced, ended>>
    BY <1>2 DEF TraceSession, sessionVars, ControlArrives, TraceCall, TraceCheck, TraceTake,
                TraceStart
  <2> QED
    BY <1>2, <2>1, TraceEffect
<1>3. ASSUME NEW call, NEW s \in Spans, NEW id, NEW text, OpenSpan(call, s, id, text)
      PROVE  /\ late \subseteq late' /\ replaced \subseteq replaced' /\ ended' = ended
             /\ \A x \in Spans : Created(x)' => Created(x) \/ (Session \in ended => x \in late')
  BY <1>3, OpenEffect DEF OpenSpan
<1>4. CASE CopyText
  <2>1. handler.span \in Spans
    BY <1>4 DEF CopyText, SessionInv, HandlerInv
  <2>2. UNCHANGED <<late, replaced>>
    BY <1>4 DEF CopyText
  <2> QED
    BY <1>4, <2>1, <2>2, FieldEffect DEF CopyText
<1>5. ASSUME NEW s \in Spans, EndSpan(s)
      PROVE  /\ \A x \in Spans : Created(x)' => Created(x)
             /\ Session \in ended' => Session \in ended
  BY <1>1, <1>5, EndEffect
<1>6. CASE CloseSpan \/ CloseTool
  <2>1. handler.span \in Spans
    BY <1>6 DEF CloseSpan, CloseTool, SessionInv, HandlerInv, SpanCalls
  <2>2. UNCHANGED <<late, replaced>> /\ EndSpan(handler.span)
    BY <1>6 DEF CloseSpan, CloseTool
  <2> QED
    BY <1>5, <2>1, <2>2
<1>7. ASSUME NEW id \in ToolIds, EndActive(id)
      PROVE  /\ UNCHANGED <<late, replaced>>
             /\ \A x \in Spans : Created(x)' => Created(x)
             /\ Session \in ended' => Session \in ended
  <2>1. activeSpans[id] \in Spans
    BY <1>7 DEF EndActive, SessionInv, MapInv
  <2> QED
    BY <1>5, <1>7, <2>1 DEF EndActive
<1>8. CASE EndSession
  <2>1. UNCHANGED <<late, replaced>> /\ \A x \in Spans : Created(x)' => Created(x)
    BY <1>8, TraceEffect DEF EndSession
  <2>2. Session \in ended' /\ Session \notin ended =>
          \E options : TraceEnd(Session, handler.status, options)
    BY <1>8 DEF EndSession, EndTrace
  <2> QED
    BY <1>8, <2>1, <2>2
<1>9. ASSUME \/ \E id \in ToolIds, content \in Contents : ToolResult(id, content)
             \/ KeepActive
             \/ \E status \in Statuses : EndWithStatus(status)
             \/ UNCHANGED allVars
      PROVE  /\ late \subseteq late' /\ replaced \subseteq replaced' /\ ended' = ended
             /\ \A x \in Spans : Created(x)' => Created(x)
  <2>1. UNCHANGED <<ended, span, late>>
    BY <1>9 DEF ToolResult, KeepActive, EndWithStatus, allVars, vars, sessionVars
  <2>2. replaced \subseteq replaced'
    BY <1>9 DEF ToolResult, KeepActive, EndWithStatus, allVars, sessionVars
  <2> QED
    BY <2>1, <2>2 DEF Created
<1> QED
  BY <1>2, <1>3, <1>4, <1>6, <1>7, <1>8, <1>9 DEF SessionNext, Message, Thinking, ToolUse

LEMMA NextKeepsEndComesLast ==
  ASSUME StatusInv, StreamInv, SessionInv, EndComesLast, [SessionNext]_allVars
  PROVE  EndComesLast'
<1>1. [Next]_vars /\ StreamInv' /\ TypeOK /\ Session \in Traces
  BY SessionStep, NextKeepsStreamInv, SessionAssumption DEF StatusInv
<1>2. \A i \in 1..Len(stream) : i \in 1..Len(stream') /\ stream'[i] = stream[i]
  BY <1>1, StreamGrows
<1>3. CASE Session \notin ended'
  <2>1. EventsOf("trace_end", Session, NoId)' = {}
    BY <1>1, <1>3 DEF StreamInv, EndsReported
  <2> QED
    BY <2>1 DEF EndComesLast
<1>4. CASE Session \in ended
  <2>1. PICK i : EventsOf("trace_end", Session, NoId) = {i}
    BY <1>1, <1>4 DEF StreamInv, EndsReported
  <2>2. Session \in ended'
    <3>1. ended \subseteq ended'
      BY <1>1 DEF Next, ControlArrives, TraceCall, TraceCheck, TraceTake, TraceStart, Span,
                  Point, TraceEnd, SetField, SetStatus, SpanEnd, SpanEndWithError, vars
    <3> QED
      BY <1>4, <3>1
  <2>3. PICK k : EventsOf("trace_end", Session, NoId)' = {k}
    BY <1>1, <2>2 DEF StreamInv, EndsReported
  <2>4. i \in EventsOf("trace_end", Session, NoId)'
    BY <1>2, <2>1 DEF EventsOf
  <2>5. EventsOf("trace_end", Session, NoId)' = {i}
    BY <2>3, <2>4
  <2>6. ASSUME NEW s \in Spans, Created(s)', s \notin late' \cup replaced'
        PROVE  \E j \in Positions({s})' : j < i
    <3>1. Created(s) /\ s \notin late \cup replaced
      BY <1>4, <2>6, SessionEffect
    <3>2. PICK j \in Positions({s}) : j < i
      BY <2>1, <3>1 DEF EndComesLast
    <3>3. j \in Positions({s})'
      BY <1>2, <3>2 DEF Positions
    <3> QED
      BY <3>2, <3>3
  <2> QED
    BY <2>5, <2>6 DEF EndComesLast
<1>5. CASE Session \in ended' /\ Session \notin ended
  <2>1. EndSession /\ \E options : TraceEnd(Session, handler.status, options)
    BY <1>5, SessionEffect
  <2>2. PICK e : Enqueue(e)
    BY <2>1 DEF TraceEnd
  <2>3. EventsOf("trace_end", Session, NoId) = {}
    BY <1>1, <1>5 DEF StreamInv, EndsReported
  <2>4. ASSUME NEW i \in EventsOf("trace_end", Session, NoId)'
        PROVE  i = Len(stream) + 1
    <3>1. i \in 1..Len(stream) \/ i = Len(stream) + 1
      BY <1>1, <2>2, EnqueueOf DEF EventsOf
    <3>2. i \notin 1..Len(stream)
      BY <1>2, <2>3 DEF EventsOf
    <3> QED
      BY <3>1, <3>2
  <2>5. ASSUME NEW s \in Spans, Created(s)', s \notin late' \cup replaced'
        PROVE  \E j \in Positions({s})' : j < Len(stream) + 1
    <3>1. Created(s) /\ s \notin replaced
      BY <2>1, <2>5, TraceEffect DEF EndSession
    <3>2. s \in ended
      <4>1. handler.span = NoId /\ NoId \notin Spans
        BY <2>1, TraceAssumption DEF EndSession, SessionInv, HandlerInv, SpanCalls
      <4> QED
        BY <2>1, <3>1, <4>1 DEF EndSession, SessionInv, ActiveInv
    <3>3. PICK j \in 1..Len(stream) : EventsOf("span", span[s].trace, s) = {j}
      BY <3>2 DEF StreamInv, SpansReported
    <3>4. stream[j].span = s
      BY <3>3 DEF EventsOf
    <3>5. j \in Positions({s})'
      BY <1>2, <3>4 DEF Positions
    <3>6. j < Len(stream) + 1
      BY <1>1, <2>2, EnqueueOf
    <3> QED
      BY <3>5, <3>6
  <2> QED
    BY <2>4, <2>5 DEF EndComesLast
<1> QED
  BY <1>3, <1>4, <1>5

\* The end of a session is reported after every span that was open or done by
\* then: what comes later in the stream was late, or displaced (handler.go:141).
THEOREM SessionEndsLast == SessionSpec => []EndComesLast
<1>1. SessionInit => StatusInv /\ StreamInv /\ SessionInv /\ EndComesLast
  <2>1. SessionInit => StreamInv /\ Len(stream) = 0
    BY InitStreamInv DEF SessionInit, Init
  <2> QED
    BY <2>1, InitSessionInv DEF EndComesLast, EventsOf
<1>2. StatusInv /\ StreamInv /\ SessionInv /\ EndComesLast /\ [SessionNext]_allVars =>
        (StatusInv /\ StreamInv /\ SessionInv /\ EndComesLast)'
  BY SessionStepKeeps, NextKeepsStreamInv, NextKeepsEndComesLast
<1> QED
  BY <1>1, <1>2, PTL DEF SessionSpec
=============================================================================
