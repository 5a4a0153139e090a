----------------------------- MODULE MCShutdown -----------------------------
(***************************************************************************)
(* Shutdown for TLC: what a careless caller may pass to an option.         *)
(***************************************************************************)
EXTENDS Shutdown, TLC

CarelessValues == {-1, 0, 1}

\* "It blocks until all events are sent or the shutdown timeout (5 seconds by
\* default) expires" (nodeloom.go:210): Close does not take longer than the
\* timeout it was configured with.
CloseKeepsItsTimeout == elapsed <= config.shutdownWait

FlusherSymmetry == Permutations(Flushers)
=============================================================================
