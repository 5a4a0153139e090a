------------------------ MODULE MCTelemetryPipeline ------------------------
(***************************************************************************)
(* TelemetryPipeline for TLC: the symmetry of the callers, and what the    *)
(* documentation says of the pipeline and the code does not do.            *)
(***************************************************************************)
EXTENDS TelemetryPipeline, TLC

\* The callers are interchangeable; sound for the runs without liveness.
CallerSymmetry == Permutations(Callers)

-----------------------------------------------------------------------------
\* nodeloom.go:210: "Close shuts down the client, flushing any remaining
\* events. It blocks until all events are sent or the shutdown timeout (5
\* seconds by default) expires."  So when Close returns without the timeout,
\* nothing is left in the queue.
CloseSendsAllEvents == outcome = "flushed" => queue = <<>>

\* README.md: "Fire-and-forget telemetry that never blocks or crashes your
\* application".  So no goroutine in enqueue ever waits for an HTTP request of
\* another one.
TelemetryNeverWaitsForNetwork ==
  \A c, f \in Callers :
    ~(c \in blocked /\ pc[c] = "enqueue" /\ f \in readers /\ pc[f] = "post")
=============================================================================
