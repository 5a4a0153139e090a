-------------------------- MODULE MCSessionTrace --------------------------
(***************************************************************************)
(* SessionTrace for TLC.                                                   *)
(***************************************************************************)
EXTENDS SessionTrace, TLC

SessionEnds == {{}, {"output"}}

SessionSymmetry == Permutations(Spans) \cup Permutations(ToolIds)
=============================================================================
