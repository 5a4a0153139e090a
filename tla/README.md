# A TLA+ verification of the NodeLoom Go SDK

The NodeLoom SDK for Go sends telemetry about AI agents (traces, spans, events)
to a backend, and learns from the backend whether an agent has been halted and
which guardrails it needs. It has little code and much concurrency: every
goroutine of the application may call it, a worker batches what they send, a
poller asks for control payloads, and an application that closes the client
races all of them. This directory holds a model of that program in TLA+, the
TLC configurations that check it on small instances, and theorems about it that
TLAPS checks for every value of the constants.

- [1. The system](#1-the-system): components, state, interactions, what is hard
- [2. The modules](#2-the-modules): which module models what, and how
- [3. The runs](#3-the-runs): what each configuration checks, bounds, fairness
- [4. The proofs](#4-the-proofs): what is proved, from what, along which argument
- [5. Findings](#5-findings): where code and documentation disagree
- [6. What is left out](#6-what-is-left-out)
- [7. Plan](#7-plan): what comes next
- [8. How to run it](#8-how-to-run-it)

## 1. The system

### Inventory

| Component | Source | State | Operations |
|---|---|---|---|
| Client, lifecycle | `nodeloom.go` | `mu` (RWMutex), `closed`, `apiClient` | `New`, `enqueue`, `Flush`, `Close`, `Api` |
| Event queue | `queue.go` | a buffered channel | `enqueue` (never blocks, drops), `drain` (bounded) |
| Batch processor | `batch_processor.go` | `stopCh`, the worker's private buffer, a ticker | `start`, `run`, `flush`, `stop` |
| Transport | `transport.go` | none between batches; the retry loop's attempt and context | `sendBatch`, `postWithRetry` |
| Control registry | `control.go` | an entry for each agent (halt, revision, policy, guardrail session), the team's halt and revision | `Update`, `Snapshot`, `IsHalted`, `KnownAgents`, `RecordGuardrailSession`, `TakeGuardrailSession` |
| Control poller | `control_poller.go` | `stopChan` | `run`, `tick` for each known agent, `stop` |
| API client | `api.go` | none | `CheckGuardrails` and `GetAgentControl`, which feed the registry, and stateless resource calls |
| Traces | `trace.go`, `nodeloom.go` | `ended`, the attached guardrail session | `TraceWithControl`, `Span`, `ChildSpan`, `Event`, `Feedback`, `End` |
| Spans | `span.go` | the fields set so far, `ended` | the setters, `End`, `EndWithError` |
| Wire format | `event.go`, `types.go` | none | `marshalJSON` for each type of event |
| Configuration | `config.go` | immutable after `New` | the options, which ignore values that make no sense |
| Anthropic handler | `integrations/anthropic/handler.go` | for each session its mutex, `activeSpans` by tool id, `lastOutput` | `TraceSession`, `OnEvent`, `OnEventJSON`, `EndWithStatus`, `End`; `CheckInput`, `CheckOutput` |

### How the components interact

```
 application goroutines                                      backend
   |  Trace, Span.End, ...        worker goroutine              |
   v                              +-------------------+         |
 Client.enqueue --> queue --+---->| buffer, up to     |--POST-->|
   (read lock)              |     | BatchSize events  |         |
                            |     +-------------------+         |
 Client.Flush --------------+-- drain, up to 10 x BatchSize POST>|
   (read lock, kept during the request)                         |
 Client.Close, Client.Api                                       |
   (write lock)                                                 |
 TraceWithControl <-- halted? session? -- ControlRegistry <-----+ in batch answers
 Api.CheckGuardrails -- session ------------> "        <--------+ in polls
```

The channel is shared by the worker and by every caller of `Flush`; the
read-write lock orders `enqueue`, `Flush`, `Close` and `Api`; the registry has a
mutex of its own and is written from the worker, from `Flush`, from the poller
and from the application. Each `Trace` and each `Span` has a mutex that is held
up to the call of `enqueue`, and a session of the Anthropic handler holds its own
mutex around several of those calls. The poller is started by `New`, calls `Api`
at every tick (and so takes the write lock of the client), and is stopped by
`Close` before the worker is.

### What is hard, and what makes each part right

- **Pipeline.** Two kinds of goroutine empty one channel. A worker keeps a
  private buffer. `Close` must keep late events out without losing early ones,
  stop a worker that may be posting, and be called by anyone, twice. Right
  means: no accepted event is lost or sent twice by the SDK, the order of each
  sender is kept, nothing happens behind `Close`, and no call hangs.
- **Transport.** The request or its answer may be lost, the backend may have
  processed what it reports as failed, and backoff races the context. Right
  means: "sent" is true, a final answer ends the retries, a batch is given up
  only for a reason and in bounded time.
- **Registry.** Payloads come out of order and more than once through two
  routes, from two sources; sessions expire, and their TTL may change between
  the moment it is read and the moment it is used. Right means: what is in
  force is what the newest payload said, and no trace attaches a session that
  has expired.
- **Traces and spans.** Every method may be called by any goroutine in any
  order, also after `End`, and a halt may arrive in the middle of
  `TraceWithControl`. Right means: one report for each span, after the start of
  its trace, never without a status, and no halt overlooked.
- **Poller.** Its answers are overtaken by those to batches and by the backend
  itself; a request or the whole tick may fail or panic; `stop` may come between
  the test of `stopChan` and the request. Right means: the registry comes to agree
  with the backend, and a stopped poller sends nothing more.
- **Shutdown.** `Close` waits three times: for the lock, for the poller, for the
  worker; and whoever wants the write lock makes all later readers wait, and may
  take it ahead of `Close`. Right means: the wait of `Close` has a bound that
  depends on nothing but the configuration, the number of goroutines, and how often
  newcomers overtake it; that of readers depends on the configuration alone.
- **Anthropic handler.** Tool results may be missing, unknown or doubled, ids may
  be reused, and events go on after the end. Right means: every span is found
  again and reported before the end of its trace.

`PROJECT.json` lists the hazards at the lines where they bite, each with the
property that would catch it, or a note about why none does yet.

## 2. The modules

| Module | Kind | Models |
|---|---|---|
| `EventBuffer` | abstract specification | what the pipeline promises |
| `TelemetryPipeline` | specification | client lifecycle, queue, batch processor |
| `Delivery` | abstract specification | what `sendBatch` promises for a batch |
| `Transport` | specification | one goroutine in `sendBatch` |
| `ControlRegistry` | specification | the registry and what feeds it |
| `TraceSpans` | specification | traces, spans and the events they enqueue |
| `SessionTrace` | specification over `TraceSpans` | the sessions of the Anthropic handler |
| `ControlPlane` | composition with `ControlRegistry` | backend, poller, other answers, registry |
| `ClientConfig` | component | the defaults and the options |
| `Shutdown` | specification over `ClientConfig`, with time | `New` to the return of `Close`: lock, poller, worker |
| `MC...` | model checking | symmetry, sets of payloads, the documented claims that the code does not keep |
| `...Proofs` | proofs | theorems about the module of the same name |

Each specification has its own state and can be read alone. They meet at the
places where the code's components meet: `HandOff` in `TelemetryPipeline` is the
`SendBatch` of `Transport`; `Enqueue` in `TraceSpans` is the `EnqueueCall` of
`TelemetryPipeline`; `halted` and `TraceTake` in `TraceSpans` are
`entry[a].halted` or `teamHalted`, and `TakeGuardrailSession`, of
`ControlRegistry`; the payloads that `Transport` counts in `updates` are among
those `ControlRegistry` delivers. `ControlPlane` takes the merge itself from
`ControlRegistry` (`UpdateTeam` and `UpdateAgent`, by `INSTANCE`), so what the two
say of a payload cannot differ. The handler's calls in `SessionTrace` are the very
steps of `TraceSpans`, which it extends. `Shutdown` and `TelemetryPipeline` model
the same lock and the same worker for two questions: how long, and with which
events. Names follow the source. Definitions called
"Mutant of ..." are plausible bugs, used to show that a property can fail;
nothing else refers to them.

### TelemetryPipeline

The unit of atomicity is what other goroutines can see. A call takes one step to
ask for the lock, one for the `closed` check, and one for each receive or send
on the channel; the HTTP request begins with `HandOff` and ends with
`FlushReturn` or `WorkerPostReturn`. The `sync.RWMutex` is modelled with the
rule that matters here: a writer that has announced itself parks all later
readers (`blocked`) until it unlocks. The worker's `select` is three actions
(`WorkerReceive`, `WorkerTick`, `WorkerStop`) that may be enabled together, as
in Go. `CloseReturn` may time out at any moment, because the worker may be in a
request of 30 s when `stop` waits for 5.

An event is its rank among the sends on the channel, so order and identity need
no further state. `Handed`, the events given to the transport, is the union of
`sent[g]`.

| Variable | Code |
|---|---|
| `queue` | the buffer of `queue.ch` |
| `held[g]`, `drained[g]` | the local slice `buf` or `events`, and the `i` of `drain` |
| `readers`, `blocked`, `writer` | `Client.mu` |
| `closed`, `apiBuilt` | `Client.closed`, `Client.apiClient != nil` |
| `stopCh`, `outcome` | `batchProcessor.stopCh` is closed; how `stop` ended |
| `sent`, `admitted` | history: what was handed over, how many events the channel took |

### Transport

One goroutine and its current batch. Each step that waits says how many seconds
it takes from `left`, the rest of the batch's 30 s context, which all attempts
share. The backend may process a request and lose the answer (`Process`, then
`Fail`), answer with an error after processing it, or refuse it before. A request
that the backend processes after `Do` has given it up is counted as processed
before: no variable of the SDK can tell the two apart. Goroutines post
independently of each other, so one is enough.

`Delivery` is the same without attempts, answers, backoffs and timers. `Batch`
instantiates it: a batch is pending unless the phase is "idle", the result is nil,
an error or none yet, and the copies are the same; `MaxCopies` is one for each
attempt. Every answer, loss and wait is a stutter there.

### ControlRegistry

One mutex makes each method a step. `CheckGuardrails` is two: it reads the TTL
from a snapshot (`CheckGuardrails`), and records the session later
(`CheckRecords`), with anything in between. The set of payloads is a constant:
`Update` may be called with any of them, any number of times, in any order, which
is what two unordered routes from the backend amount to. The clock is an integer
of milliseconds; `TakeGuardrailSession` and `RecordGuardrailSession` read it just
before they take the mutex, and here within the step.

### TraceSpans

The methods of `Span` and `Trace` are steps, for they hold the object's mutex up
to the call of `enqueue`. `TraceWithControl` holds none and has four: the call,
the halt check, the take of the session, the `trace_start`. A halted trace is
returned like any other and its spans are still reported, as in the code.
`SpanEvent` is the place where fields are copied. A status is any
string: "success", "error", or one of `OtherStatuses`, which `SetStatus` stores as
it is, the empty one too.

### SessionTrace

`handler` is the call that holds the session's mutex. Within it, creating the
span, copying the text, ending the span and ending the trace are steps of their
own, for each takes and releases the mutex of the span or the trace, and control
payloads come in between. `activeSpans` is the map of the code; the order in which
`EndWithStatus` goes through it is that of a Go map, so any. A result with an id
that is not active, and the second end of a span or a trace, have no effect.
The content of a message or of a result is the set of the texts of its blocks, of
which `ExtractText` says whether they leave any text at all.
`late` and `replaced` are history: spans of events that came after the end, and
spans whose tool id was used again while they were open. The latter are never
ended by the handler, and the properties exclude them by name.

### ControlPlane

The backend has a halt for each agent and one for the team, and numbers its
changes. This side is external, modelled from what the merge in `control.go`
relies on: every change has a revision of its own, and a team that has been
released is reported with source "team", for nothing else moves the team's flag
in the registry. An answer is made at one moment (`Receive`, `Answered`) and
merged at a later one (`Deliver`, `Merged`), so answers overtake each other. The
poller's tick is one action for each thing that others can observe or that can
fail: the `select`, the snapshot of known agents, the test of `stopChan`, the
request, the answer, the merge. A failure ends the poll of one agent, a panic
the tick.

An agent that was traced but has no entry in the registry is not polled; the
first answer, check or session for it makes the entry (`RecordSession`).

### ClientConfig and Shutdown

`Configure` applies an option before `New` returns. From there on time is
explicit: `left[p]` is what is left of the request or of the wait of goroutine p,
`Clock` moves only when nothing is left to do at once, and a request ends at any
moment up to its timeout. Go's `RWMutex` makes writers queue on a `sync.Mutex`, which
is not fair: `Unlock` releases it (`Leave`) and wakes the first that waits, but a
writer that comes before that one is awake (`Wake`) finds it free and takes it ahead
of all of them (`Join`). `overtaken` counts how often that happens to `Close`. The
starvation mode of the mutex, which hands over directly to a goroutine that was woken
and has waited for 1 ms, only takes behaviours away. It gives no fixed number of
overtakings, for a newcomer that is quick enough takes the mutex before anyone was
woken, and so `overtaken` is in the bound rather than a number. The writer with the
mutex parks later readers (`FlushCall`, `announced`); its `Unlock` lets all parked
readers in before it releases the mutex (`Release`), and while the mutex is free
readers still get in. `CloseCall` is the call that gets to close the client; the others
return at once and do not matter for time.

## 3. The runs

| Run | Instance | States | Checks |
|---|---|---|---|
| `pipeline_safety` | 2 callers, queue of 3, batches of 2, drain of 2, 4 events | 414 k | eight safety properties, among them the refinement of `EventBuffer!SafeSpec` |
| `pipeline_liveness` | 2 callers, queue of 1, batches of 2, 2 events | 30 k | every call returns, the worker stops, events reach the transport, refinement of `EventBuffer!Spec` |
| `registry` | 2 agents, 3 revisions, any 3 of the payloads about halts; 2 sessions and TTLs absent, valid, too large, negative | 87 k | what is in force is what the newest payload said; a session is the last recorded one and is attached only within its TTL |
| `control_plane` | 2 agents, 3 changes of the backend, 1 failure, 1 other caller | 851 k | an up-to-date entry is right, a stopped poller is quiet, the registry converges |
| `transport_retries` | 3 retries, 30 s | 5 k | the properties of retries, and the refinement of `Delivery!Spec` |
| `trace_stream` | 1 trace, 2 spans, 1 other event; statuses "success", "error", "other" and the empty string | 695 k | reported once, start first, halts observed, no span without a status |
| `session_trace` | 1 session, 3 spans, 2 tool ids, the same statuses | 255 k | no span is lost, the end comes last |
| `shutdown` | 2 callers of `Flush`, 1 of `Api`, poller, worker; options of -1, 0, 1; requests of 3, waits of 1; 1 overtaking | 1.5 M | `Close` is bounded, parked readers are released, the configuration is usable |
| `close_leaves_events` | 1 caller, queue of 12, batches of 1 | violation | finding 1 |
| `telemetry_waits` | 3 callers | violation | finding 2 |
| `policy_order` | 1 agent, payloads with and without a policy | violation | finding 3 |
| `close_timeout` | 1 caller of `Flush`, 1 of `Api`, no overtaking | violation | finding 4 |

### What they show, property by property

*Pipeline.* `Custody`: an accepted event is in exactly one place (queue, one
goroutine's slice, one goroutine's requests), although `Flush` and the worker
take from one channel. `DeliveredInOrder`: each goroutine's batches go up in the
order of acceptance (there is no order between goroutines: `Flush` overtakes the
worker's buffer). `ClosedMeansQuiet`: after `Close` has set the flag, no caller is
between its own check of that flag and its use of the queue. `NoDoubleClose`:
`stopCh` is closed by one goroutine, once. `StopLeavesNothingBehind`: a stopped
worker leaves events only if its last drain hit its limit. `FlushedMeansHanded`:
a `Close` in time with an empty queue means that all events were handed over.

*Registry.* `HaltsFollowNewest`, `PolicyFollowsNewest`: the
halt state, the team's flag and the policy are those of a payload with the
highest revision delivered so far, whatever the order. The last one needs every
payload of the agent to carry a policy; without that it is false (finding 3).
`SessionIsLastRecorded` and `AttachedWithinTTL`: sessions keep the lifetime they
were recorded with, and none is attached after it.

*Transport.* `SentMeansProcessed`: "ok" means that the backend processed the
batch, more than once only after an attempt without a final word.
`SettledIsFinal`: nothing is sent again after acceptance or refusal.
`ControlComesWithAcceptance`, `GivenUpForAReason`, `RetriesArePaced` (backoff
doubles). `ImplementsDelivery`: `sendBatch` returns, with nil only for a batch that
was processed, after no more copies than attempts and with none to follow.

*Traces.* `EndedIsReportedOnce`, `StartComesFirst`, `HaltIsObserved` (a halt that
holds during the whole call is never missed, and a trace is halted only for one),
`StatusIsDefinite` (no span is reported without a status, although `SetStatus` stores
any string, and one with an error message is reported as failed, whatever its status
was set to before).

*Control plane.* `UpToDateIsRight`: an entry as new as the backend's last change
says what the backend says, although the team's flag is shared by all agents and
moved by the answers for any of them. `StopIsQuiet`: after the close of `stopChan`
the poller begins one more request at most, and none is open once `stop` has
joined it. `Converges`: after the last change the registry comes to agree for all
known agents, by the poller alone, in spite of failures and panics.

*Anthropic handler.* `NoSpanIsLost`: an open span is in the hands of the handler
or active under exactly one id. `EndComesLast`: when the end of the trace is
reported, every span that existed by then has been, but for the late and replaced
ones.

*Shutdown.* `CloseIsBounded`: with A goroutines that call `Api`, `Close` takes at
most A + 2 requests and two waits, and one request more each time a writer overtakes
it at the lock. The bound is reached, with an overtaking and without: TLC refutes one
second less. With the defaults and one such goroutine it is 100 s, and 130 s if that
one overtakes `Close` once, where the comment of `Close` promises 5 s (finding 4).
`ReadersAreReleased`: a parked `enqueue` or `Flush` waits for one request at most, however many writers follow.

Every property of a passing run has a mutant in `PROJECT.json`: a change of one
definition, such as a missing guard or `>` for `>=`, under which TLC finds that
very property violated.

### Bounds, and why they are enough

- `MaxEvents`, `Capacity`, `BatchSize`, `DrainFactor`: in the safety run the queue
  of 3 overflows with 4 events, a batch of 2 is partial, full, and joined with a
  drain, and the last drain of 2 leaves an event in the queue of 3. In the
  liveness run the queue of 1 is full with 2 events. Two callers are the least
  that race in `Close`, and that park each other behind a writer; a reader, a
  writer and a parked reader at once take three, which `telemetry_waits` has.
  The safety properties are proved for any number of each.
- `MaxDelivered`: three different payloads for two agents and no agent, each
  delivered again at will, give every order of an old, an equal and a new
  revision, from agent and team.
- `MaxTime`, `Second`: with two ticks in a second, sessions of 1 s are taken before,
  at and after their expiry, and a session of 2 s outlives them. Without the bound
  the clock is the only infinite part.
- `OrderOrSessions`, the constraint of `Registry.cfg`, explores two corners: three
  halt payloads without sessions, and sessions of one agent with two payloads about
  TTLs. An agent's halt and its session share only the entry; the proofs need no
  such constraint.
- `MaxChanges`: with three changes an agent is halted, its team is, and one of them
  is released, while an answer of each age is still on its way.
- `MaxFailures`: one failure or panic at each point of a tick. It is a bound of the
  model and an assumption of `Converges` at once: failures are finitely many.
- `Spans`, `ToolIds` in `Session.cfg`: with three spans and two ids an id is reused
  while open, two tools are open at once, and a span comes after the end.
- `RequestTime`, `ShutdownWait`: 3 and 1 for 30 s and 5 s: a wait is shorter than a
  request, and a request overlaps several turns of the lock. The bounds themselves
  are proved for every value.
- `MaxOvertaken`: with one overtaking, the bound for one overtaking is reached. It is
  proved for any number.
- `OtherStatuses`: the empty string, which the code replaces, and one other, which
  stands for all the strings that it does not tell apart.
- `OneDetail`, the constraint of `TraceStream.cfg`: a field, an event that is no span,
  and a status unknown to the code, of a span or of the trace, come at every point of
  the run but not two at a time, for the code handles each without looking at the
  others. The proofs need no such constraint.
- `MaxRetries` and `Deadline` are the code's defaults. They bound the run.
- `MaxPoints`: one event that is neither start, end nor span; it may come at any
  point, with or without a trace.
- Symmetry is used only in runs without liveness properties, over sets whose
  members no definition tells apart.

`CHECK_DEADLOCK` is on in every run: in each there is always something the
environment may do.

### Fairness

`TelemetryPipeline`: a call that has begun continues (`WF` on `CallerStep`),
because goroutines are scheduled and every request has a context with a
deadline; the writers of an `RWMutex` queue on a `sync.Mutex`, which hands over
to a waiter that has starved for 1 ms, hence `SF` on `LockAnnounce`; a Go
`select` chooses at random among its ready cases, hence `WF` on each of the
worker's three, and not only on their disjunction. Nobody is obliged to call
anything. `WF` on the three cases suffices although a flush disables them for a
while: after `Close` nothing is enqueued any more, so the worker comes back to a
`select` with nothing to receive, and a buffer that the ticker does not reach is
one that fills.

`Transport`: `WF` on `Step`, since timers fire and `Do` returns by the deadline of
its context. The backend owes nothing: `Process` has no fairness. That is enough
for the one fairness condition of `Delivery`, `WF` on `Return`.

`ControlPlane`: `WF` on `PollerStep`: the poller's goroutine is scheduled, its ticker
ticks, and each request ends by the timeout of its HTTP client. A failure is no
`PollerStep`, so nothing obliges the backend to answer but that failures are
finitely many.

The registry, the traces, the sessions and `Shutdown` have safety properties only.
In `Shutdown` the urgency of `Clock` takes the place of fairness: what can be done
at once is done before time moves on, as for goroutines that are scheduled within a
second.

## 4. The proofs

Assumptions are those named in the modules (`PipelineAssumption`,
`RegistryAssumption`, `TransportAssumption`, `TraceAssumption`, `SessionAssumption`,
`PlaneAssumption`, `ConfigAssumption`, `ShutdownAssumption`): the goroutines
and ids are distinct (those of traces from those of spans as well: both are random
UUIDs in the code), sizes are positive naturals. TLC evaluates them in every
run. No theorem fixes the number of callers, agents, sessions or spans, the
capacity, the batch size, the number of retries, or how long a request takes.

| Module | Theorem | States |
|---|---|---|
| `TelemetryPipelineProofs` | `TypeInvariant` | `TypeOK` |
| | `EventsInOnePlace` | `Custody` |
| | `QuietAfterClose` | `ClosedMeansQuiet` |
| | `StopChClosedOnce` | `NoDoubleClose` |
| | `StoppedWorkerLeavesLimit` | `StopLeavesNothingBehind` |
| | `CloseHandsEverything` | `FlushedMeansHanded` |
| | `HandedInOrder` | `DeliveredInOrder` |
| | `RequestBounds` | `BatchBounds`: how many events a request can carry |
| | `PipelineImplementsBuffer` | `ImplementsBufferSafely` |
| | `LockComesBack` | whoever has the lock, or waits for it, is in a call that needs it |
| | `CallersNeverDeadlock` | while a call is under way, some call can go on |
| | `CallsRunOut` | a call has at most `DrainLimit + 3` steps left, each leaves fewer, and no other goroutine adds any |
| `ControlRegistryProofs` | `TypeInvariant` | `TypeOK` |
| | `HaltsAreNewest`, `PolicyIsNewest` | `HaltsFollowNewest`, `PolicyFollowsNewest` |
| | `SessionIsLast`, `AttachedSessionIsAlive` | `SessionIsLastRecorded`, `AttachedWithinTTL` |
| | `RedeliveryChangesNothing` | a payload that comes again changes nothing |
| `TransportProofs` | `OkIsProcessed`, `ControlIsAccepted`, `GivenUpWithReason`, `FinalWordEndsRetries` | `SentMeansProcessed`, `ControlComesWithAcceptance`, `GivenUpForAReason`, `SettledIsFinal` |
| | `TypeInvariant`, `BackoffDoubles` | `TypeOK`, `RetriesArePaced` |
| | `TransportImplementsDelivery` | `ImplementsDeliverySafely`: every step is one of `Delivery`, or a stutter |
| | `StepsRunOut` | a batch takes at most `4 * MaxRetries + 7` steps |
| `TraceSpansProofs` | `TypeInvariant`, `HaltIsNeverMissed`, `ReportedStatus` | `TypeOK`, `HaltIsObserved`, `StatusIsDefinite` |
| | `ReportedOnce`, `StartIsFirst` | `EndedIsReportedOnce`, `StartComesFirst` |
| `SessionTraceProofs` | `SessionUsesTrace` | a session implements `TraceSpans!Spec` |
| | `SessionTypes`, `EverySpanIsKept`, `SessionEndsLast` | `SessionTypeOK`, `NoSpanIsLost`, `EndComesLast` |
| `ControlPlaneProofs` | `TypeInvariant`, `UpToDate`, `StoppedIsQuiet` | `TypeOK`, `UpToDateIsRight`, `StopIsQuiet` |
| | `AgreementIsStable` | agreement with the backend lasts until the backend's next change, and a poll that no change overtakes brings it about |
| `ShutdownProofs` | `TypeInvariant`, `ReadersAreLetIn`, `CloseReturnsInTime` | `TypeOK`, `ReadersAreReleased`, `CloseIsBounded` |

### The arguments

**Pipeline.** None of the properties is inductive. `Custody` says where events
are, and a receive from the channel moves the *head*: to know that the head is
in nobody's slice one needs that the queue and each slice are strictly
increasing, and that every event in the queue is newer than every event in
custody (`Order`, `Ownership`). `ClosedMeansQuiet` rests on the lock: who is past
its check is a reader (`UnderReadLock`), a writer in `CloseMark` sees no readers,
and who wakes later sees `closed`. `NoDoubleClose` needs that `stopCh` is closed
only while `closed` holds and by the one goroutine in `stopping`
(`ShutdownOrder`). The end of the worker needs what it holds at each of its places
(`SlicesInUse`) and what its last drain saw (`LastDrain`). Together they are

    IInv == TypeOK /\ EventInv /\ LockInv /\ SlicesInUse /\ LastDrain

and `AlwaysIInv` proves `SafeSpec => []IInv`, one lemma for each conjunct and one
step for each action. `HandedInOrder` and `PipelineImplementsBuffer` are step
properties that follow from `IInv` before the step: every step of the pipeline is
a step of `EventBuffer` or leaves it unchanged, and what is handed over comes from
a slice whose events are new and pending. `RequestBounds` adds `SliceBounds` on the
lengths of slices.

Why calls return is half a matter of safety, and that half is proved. The invariant
`LockIsReturned` is `UnderReadLock` in both directions: a goroutine is a reader,
or parked as one, exactly while its call is between `RLock` and `RUnlock`, and a
writer has announced itself only within `Close` or `Api`. So no return path keeps
the lock (`LockComesBack`). If a call is under way, then one of these can go on: the
caller that has the lock as a reader; the writer, when there is no reader left; a
caller that needs no lock; or one that may ask for it (`CallersNeverDeadlock`).
`StepsLeft` is a measure of each call that only its own steps change, and they lower
it: `Flush` comes to its end although other goroutines fill the queue behind it
(`CallsRunOut`). `CanGoOn` states the guards of `LockAnnounce` and `CallerStep`
without `ENABLED`, for which there is no prover. What is missing for `CallsReturn` is
fairness alone.

**Registry.** `OrderInv` is the conjunction of `TypeOK` and the order
properties, and is inductive thanks to two facts about `Newest` (`NewestAdded`,
`NewestKept`): a payload at least as new as all the delivered ones is a newest one
of the larger set, and an older one leaves the newest unchanged. `SessionInv` adds
`SessionIsLastRecorded`; the interesting case is `Update`, which creates and merges
entries and must not touch a session, and an agent that becomes known.

`RedeliveryChangesNothing` needs `MergedInv`: an entry agrees with a newest payload of
its agent in every field that the payload carries (`InForce`). A merge brings that
about, and a merge of a payload in force changes nothing (`MergeInForce`). A payload
delivered before is the newest, hence in force, or older, hence ignored. The premise
`OnePerRevision` is what a revision is for: under one revision the backend says one
thing. Without it two payloads of one revision would overwrite each other for ever.

**Transport.** `IInv` adds `OnItsWay`, which ties the phase to what has been heard:
while a batch is on its way no final word has come, every attempt that ended has
left a trace in `heard`, and the backend has at most one copy for each attempt that
was put on the wire.

`TypeInvariant` and `BackoffDoubles` have the invariant `TimeInv`: at attempt n at least
2^n - 1 seconds have passed, or 2^(n-1) - 1 while the backoff still runs. No backend
knows powers of two, hence `PowerOfTwo`, a recursive function; that it is defined by
its equation is proved from its definition, by taking the least n at which it
would fail (`WFMin` of the library, whose parameter is a set). `MCTransport` has TLC
compare it with `2 ^ n`. The code converts the power to a 64-bit duration, which
overflows from 2^34 s on; a batch's context ends the wait long before.

`TransportImplementsDelivery` goes action by action: `SendBatch` is `Begin`,
`SendNothing` is `Skip`, `Process` is `Process`, whatever ends in `Return` is
`Return`, all others leave the mapped variables alone. `Process` is allowed because
`OnItsWay` leaves room for one more copy, and a nil because the acceptance comes
after a `Process`. `StepsRunOut` counts the steps that are left: four places for each
attempt that may follow, less those that this attempt has behind it.

**Traces.** `HaltInv` adds that `seen[t]` contains the present value of `halted` while
the call runs, so whatever the halt check finds has been seen. `StatusInv` adds that
a span with an error message has ended: the message is set in the step that sets
`ended`, so no later `End` can report it under another status; and that a created
span has a trace, so no setter makes it look like one that was never created. Nothing
is assumed of a status but that it is a string: `ReportedStatus` holds whatever
`OtherStatuses` contains, since `End` replaces the empty one.

`StreamInv` says where in the stream the events of a trace may stand: those of one
kind, trace and span are at one place or none (`SpansReported`, `EndsReported`), the
start of an open trace is before all its other events and a trace that has not been
returned has none at all (`StartsReported`), and a span's trace has been returned
(`TracesReturned`). The stream only grows at its end, so a step can break it only
through the event that it adds, and `AppendOf` says which sets of positions get a
new member. `ReportedOnce` and `StartIsFirst` turn the sets into cardinalities.

**Sessions.** `SessionUsesTrace` is a refinement without a mapping: `SessionTrace`
extends `TraceSpans`, and each of its steps is a step of that module or leaves its
variables alone, provided that what the handler passes on is a span that exists
(`HandlerInv`). So whatever holds of traces and spans under any use, such as
`HaltIsNeverMissed` and `ReportedStatus`, holds under the handler. `EverySpanIsKept`
needs `ActiveInv`: no span is active under two ids, and a span that has just been
made is under none, so storing it displaces only what is recorded as replaced.
`SessionEndsLast` joins this with `StreamInv`: when the trace ends no span is active,
so each has been reported, or displaced, or is late; and positions in the stream never
change.

**Control plane.** `UpToDateIsRight` for one agent depends on answers for others,
which move the team's flag. The invariant is

    IInv == TypeOK /\ AnswersInv /\ RegistryInv /\ StopInv

`AnswersInv` says that an answer on its way with the present revision is what the
backend would answer now. `RegistryInv` says that the team's flag is right if its
revision is the present one, and that an entry with the present revision has the
agent's own halt, and has brought the team's revision up to date if its answer was
about the team. A change of the backend makes every premise false at once, for no
revision in the SDK exceeds the backend's old one. `StopInv` counts the one request
that may follow a test of `stopChan`. `AgreementIsStable` is the core of `Converges`
without its fairness: an answer with the backend's present revision settles its
agent, no older answer can unsettle it, and `UpToDateIsRight` says that a settled
agent is right.

**Shutdown.** `TypeInv` ties the queue to the places of goroutines (`QueueInv`): the
poller and `Close` are in it only while they wait, so no writer is in it twice,
and by the pigeonhole principle its length is at most A + 2 (`QueueIsShort`).
`ReadInv`: what a parked reader has waited, and what is left to any request that
runs, are one request together, since requests that begin later would have to pass
the writer. Whoever is parked is so behind a writer that has the mutex, and that one
is the head of the queue (`announced`). `CloseInv` is the budget of `Close`: at place
k of the queue, what has elapsed, what is left to any running reader and one request
for each of the k - 1 writers before it stay within `LockBound(overtaken)`, which is
A + 2 + `overtaken` requests (`AtLock`); each turn of the lock uses up one request of
the budget and one place. While the mutex is free a reader may still begin a request,
and the budget leaves room for it. A writer that overtakes puts `Close` one place
further back (`PrependWriter`, `JoinKeeps`) and adds the one request to the bound that
this costs (`BoundGrows`). No fairness of the mutex is assumed, and no limit on
`overtaken`: `MaxOvertaken` may be any number. The two waits follow.

### Only model-checked

Every invariant and every action property of the passing runs is proved. With TLC
alone are the properties that rest on fairness, beyond provers without `ENABLED`:

- `EventsReachTransport` and `WorkerStops`;
- `CallsReturn`, of which `LockComesBack`, `CallersNeverDeadlock` and `CallsRunOut`
  prove what does not depend on scheduling;
- `Converges`, of which `AgreementIsStable` is the part without fairness;
- the fairness halves of `ImplementsBuffer` and `ImplementsDelivery`; for the latter
  `StepsRunOut` is the reason.

## 5. Findings

Each run states one documented claim, and TLC finds a short behaviour of the code
that violates it.

1. **`Close` may leave events behind in time** (`close_leaves_events`). The worker's
   last drain takes at most `BatchSize * 10` events (`batch_processor.go:75`), while
   the queue may hold more; `Close` then returns before its timeout and the rest is
   never sent. `nodeloom.go:210-211` says that it blocks until all events are sent or
   the timeout expires. With the defaults (queue 10 000, batch 100) it takes more
   than a thousand queued events.
2. **Telemetry may wait for the network** (`telemetry_waits`). `Flush` keeps the read
   lock during its request. If `Close` or `Api` asks for the write lock meanwhile,
   every later `enqueue` parks until the request ends. `README.md:7` of the
   repository promises telemetry that "never blocks". The poller calls `Api` by
   itself.
3. **A policy can be lost by reordering** (`policy_order`). A payload without
   `require_guardrails` moves the revision, and an older payload that carries the
   policy is then ignored; `control.go:153-154` calls updates order-tolerant. For
   complete payloads they are, and that is proved (`PolicyIsNewest`).
4. **`Close` may take longer than its timeout** (`close_timeout`). `nodeloom.go:210-211`
   says that it blocks until all events are sent or the shutdown timeout, 5 s by
   default, expires. The timeout begins only when the poller and then the worker are
   stopped, once for each of them; before that, `Close` waits for the lock, behind
   requests of 30 s. `CloseIsBounded` proves what the bound really is.

Two more disagreements were met while modelling. They need no interleaving, so a
glance at the lines shows them as well as a run would, and no run does:

- **A request may hold more than the batch size.** `config.go:80` and `README.md:133`
  of the repository call it the maximum number of events in a batch. `Flush` drains up
  to `BatchSize * 10` events into one request (`nodeloom.go:204`), and the last flush
  of the worker adds that many to its buffer (`batch_processor.go:75`). The theorem
  `RequestBounds` gives the sizes the backend has to expect; `BatchBounds` is not among
  the properties of a run, for what is documented is something else.
- **Metadata and prompt of a span are never sent.** `End` and `EndWithError` do not copy
  the metadata (`span.go:113`) and the wire struct of a span has no prompt
  (`event.go:194`); the setters' comments say otherwise.

## 6. What is left out

- The contents of events but for their kind, ids, status and which fields are set;
  JSON; the wording of errors; logging.
- The halt reason, which follows the halted flag.
- The resource calls of the API client: stateless, one request each. HTTP redirects
  and connection reuse.
- The configuration in `TelemetryPipeline` and `Transport`: constants, of which
  `Shutdown!TypeOK` says what values they can have. Labels (endpoint, environment,
  version) are read by nothing that is modelled, and so are their options.
- Time in `TelemetryPipeline`: the wait of `Close` may end at any moment there;
  `Shutdown` has the time and leaves out the events.
- The requests of two guardrail checks: the registry sees the order of their
  answers, whatever the order of the requests was.
- Maps that the application shares with the SDK and goes on writing. Planned.
- 64-bit overflow of TTLs: integers in `ControlRegistry` are unbounded.

## 7. Plan

Done: the path of events (`TelemetryPipeline` with `EventBuffer`), the registry, the
transport, traces; then the control plane, the sessions of the Anthropic handler, and
the shutdown with time; each with its theorems, among them that the transport
implements `Delivery` and all that is said about the stream of events. Left, in
this order:

1. **Drops and traces**: the drops of the queue composed with the events of a trace,
   where a `trace_start` may be the one that is dropped.
2. **Arithmetic and aliasing**: TTLs in 64 bits; the maps of events; the order of two
   guardrail checks.
3. **End to end**: `TelemetryPipeline` over `Delivery`, from a call of the application
   to the copies at the backend, as one theorem.

## 8. How to run it

    tlasany TelemetryPipeline.tla
    tlc -workers 2 -config PipelineSafety.cfg MCTelemetryPipeline.tla
    tlapm TelemetryPipelineProofs.tla

`PROJECT.json` says which module goes with which configuration. The longest run
takes about two minutes on two cores, the longest proof module a few minutes.
