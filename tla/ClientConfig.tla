---------------------------- MODULE ClientConfig ----------------------------
(***************************************************************************)
(* The configuration of a client (config.go): New starts from the defaults *)
(* and applies the options of the caller one by one.  The endpoint, the    *)
(* environment and the version are labels that no other module reads; the  *)
(* retries and the wait at shutdown have no option.                        *)
(***************************************************************************)
EXTENDS Integers

CONSTANTS
  Values,         \* what a caller may pass to an option
  ShutdownWait    \* defaultShutdownWait: 5 s in the code

ASSUME ConfigAssumption ==
  /\ Values \subseteq Int
  /\ ShutdownWait \in Nat

VARIABLE config

\* Sizes are numbers of events, durations are in seconds.
DefaultConfig ==
  [batchSize |-> 100, flushInterval |-> 5, maxQueueSize |-> 10000, maxRetries |-> 3,
   shutdownWait |-> ShutdownWait, controlPollInterval |-> 60]

Options == {"batchSize", "flushInterval", "maxQueueSize", "controlPollInterval"}

\* Mutant of Accepts: no option tests its value.
AcceptsAll(option, value) == TRUE

\* With...: a value that is not positive is ignored, but an interval of 0
\* switches the poller off.
Accepts(option, value) == value > 0 \/ (option = "controlPollInterval" /\ value = 0)

ApplyOption(option, value) ==
  config' = IF Accepts(option, value) THEN [config EXCEPT ![option] = value] ELSE config

Polls == config.controlPollInterval > 0

\* What the queue, the worker and the transport rely on: a channel and a batch
\* have room for an event, a ticker has a period (time.NewTicker panics without
\* one) and there is at least one attempt.
UsableConfig ==
  [batchSize : Nat \ {0}, flushInterval : Nat \ {0}, maxQueueSize : Nat \ {0},
   maxRetries : Nat, shutdownWait : Nat, controlPollInterval : Nat]
=============================================================================
