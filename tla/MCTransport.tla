---------------------------- MODULE MCTransport ----------------------------
(***************************************************************************)
(* Transport for TLC.  The state space is finite as it is: the context and *)
(* MaxRetries bound every batch.                                           *)
(***************************************************************************)
EXTENDS Transport

\* The recursive function is the power of two of the code, at every attempt
\* and beyond.
ASSUME PowerOfTwoIsRight == \A n \in 0..(MaxRetries + 10) : PowerOfTwo[n] = 2 ^ n
=============================================================================
