--------------------------- MODULE MCTraceSpans ---------------------------
(***************************************************************************)
(* TraceSpans for TLC: the symmetry of the ids, and the corners explored.  *)
(***************************************************************************)
EXTENDS TraceSpans, TLC

PlainEnd == {{}}

IdSymmetry == Permutations(Traces) \cup Permutations(Spans)

WithFields == {s \in Spans : span[s].fields # {}}
WithOtherStatus == {s \in Spans : span[s].status \in OtherStatuses \ {""}}
OtherEnds == {i \in 1..Len(stream) : stream[i].type = "trace_end" /\ stream[i].status \in OtherStatuses}

\* A field, an event that is no span, a status unknown to the code of a span and
\* of a trace: each comes at every point of the run, but not two at a time.
OneDetail ==
  Cardinality(WithFields) + Cardinality(WithOtherStatus) + Cardinality(OtherEnds)
    + Cardinality(PointEvents) <= 1
=============================================================================
