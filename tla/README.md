# A TLA+ model of CrowdSec

CrowdSec reads logs, parses them into events, pours events into leaky buckets,
turns bucket overflows into alerts, stores alerts and the decisions that follow
from them behind a local API, and serves decisions to bouncers. This directory
holds TLA+ modules translated from the Go source, TLC configurations that check
them on small instances, and TLAPS proofs for every size.

## The system

| part | state | operations | module |
|---|---|---|---|
| acquisition (`pkg/acquisition`) | data sources, their tombs | start, restart, stop | `LogPipeline`, `FileTail` |
| parsers (`cmd/crowdsec/parse.go`) | the line in hand | receive, parse, send | `LogPipeline` |
| pour routines (`cmd/crowdsec/pour.go`) | the event in hand | receive, pour to every holder | `LeakyBuckets`, `LogPipeline` |
| bucket engine (`pkg/leakybucket`) | `BucketStore`, one goroutine per `Leaky` | load, create, pour, leak, overflow, underflow, cancel, emit | `LeakyBuckets`, `TimeMachine`, `Blackhole` |
| output routines (`cmd/crowdsec/output.go`) | `pendingAlerts` | clean up, postoverflow, reprocess, push, requeue | `LeakyBuckets`, `AlertOutput` |
| agent lifecycle (`cmd/crowdsec/serve.go`) | tombs, contexts | shutdown in stages | `LeakyBuckets`, `AlertOutput`, `LogPipeline` |
| local API (`pkg/apiserver/controllers`) | none of its own | create alerts, delete and stream decisions | `AlertOutput`, `DecisionStream`, `SignalPush` |
| database (`pkg/database`) | alerts, decisions, bouncers, locks, allowlists | queries, batches, flush | `DecisionStream`, `AlertStore`, `CapiPull`, `Allowlists` |
| central API client (`pkg/apiserver/apic.go`) | signal cache, pull state | push, pull with lock, blocklists, metrics | `CapiPull`, `BlocklistPull`, `SignalPush`, `UsageMetrics` |
| polling API (`papi.go`, `pkg/longpollclient`) | last timestamp | long poll, execute orders, sync decisions | `Papi`, `SignalPush` |
| notifications (`pkg/csplugin`) | grouped alerts, counters | group, notify, retry, flush | `PluginBroker` |
| API client (`pkg/apiclient`) | the JWT | refresh, retry, reset | `JwtTransport` |

Lines go from the sources through the parsers and the pour routines into the
buckets; overflows come back through the output routines, which hand alerts to
the local API; the local API stores them with their decisions, forwards them to
the central API and to the notification broker, and streams the decisions to
bouncers; pulls and orders of the central API add and expire decisions in the
same tables.

`PROJECT.json` lists every part, modelled or not, the source lines each
definition translates, and the line at which every hazard found in the survey
bites. What makes the system hard to test: goroutines that find, lose and
recreate a bucket under the same key; a non-blocking retry loop on an
unbuffered channel; a one-slot channel shared by all buckets; overflows that
flow back to the routines that caused them; a shutdown in stages that overtakes
work in progress; alerts requeued after a failed push; delta queries that race
with commits; locks that expire; orders and blocklists whose progress is
recorded before or after they are applied.

In all modules a step is what one goroutine or handler does between two
blocking operations, two statements of the database or two accesses to shared
state, so that every interleaving at that grain is a behaviour. Operators with
a comment that begins with `Defect` are plausible bugs, used to check that a
property can fail; `Next` uses none of them.

The project has two circles. The four components of the next sections are
checked by the twelve runs of `PROJECT.json`, and all their safety properties
are proved for every value of their constants. The modules of "Further
components" each have a configuration that TLC finds to hold.

## LeakyBuckets: the bucket engine

`LeakyBuckets.tla` models the live bucket engine with the goroutines on both of
its sides.

| variable | code |
|---|---|
| `store` | `BucketStore.m`, a key to a bucket instance |
| `born`, `bucket` | the `Leaky` structs made so far, with the state of their `LeakRoutine`: `pc`, `ready`/`done` channels, queue, limiter tokens, `pendingOverflow`, the `Suicide` slot, whether the ticker runs, the `Uniq` cache, what it emits |
| `pourer` | the `runPour` goroutines: message, holder index, bucket in hand |
| `output` | the `runOutput` goroutines |
| `allOut` | the one-slot channel `response` of `LoadBuckets` |
| `wg` | the wait groups of `orderEvent` |
| `phase`, `tomb` | progress of `ShutdownCrowdsecRoutines`, `outputsTomb` |
| `fate`, `delivered`, `alerts` | history: what became of each message, who received it, alerts buffered |

| actions | code |
|---|---|
| `ReceiveEvent`, `PourExit` | `runPour` |
| `HolderFails`, `OrderGate`, `OrderWait` (`NextHolder`) | `PourItemToHolders` |
| `LoadBucket`, `LoadOrStore`, `AwaitReady` | `LoadOrStoreBucketFromHolder` |
| `CleanupBody`, `DeleteBody`, `PourItem` | the loop of `PourItemToBucket` |
| `Ready`, `BucketInit`, `PourTrigger`, `PourDuplicate`, `PourCancel`, `PourLimited`, `Overflow`, `Suicide`, `TickerFires`, `ExternallyKilled`, `Emit` | `LeakRoutine`, the processors, `Pour`, `overflow` |
| `Leak` | the refill of `golang.org/x/time/rate` (external) |
| `ReceiveOverflow`, `CleanupKey`, `PostOverflowFails`, `Whitelisted`, `Passed`, `Reprocess`, `SkipReprocess`, `OutputExit` | `runOutput` |
| `StartShutdown`, `DrainEvent`, `DrainReprocess`, `KillOutputs`, `Cancel` | `ShutdownCrowdsecRoutines`, `drainChan` |

Abstractions. An event is a name with the sequence of keys its filters and
groupbys select and the value of its `distinct` expression; filter and groupby
errors are a set of pairs. Time is nondeterminism: a token may come back at any
time, a running ticker may fire at any time. Conditional and Bayesian
processors decide nondeterministically, as do overflow filters, blackholes and
sourceless alerts on whether an overflow is discarded. A non-blocking send on
the unbuffered `In` succeeds exactly when the leak routine is parked in its
select with no other case ready (`Receptive`); the loop iterations in which it
fails change nothing and are stutters.

`MCLeakyBuckets.tla` gives the constants their values.

| run | question | instance |
|---|---|---|
| `buckets_contention` | two pour routines race on one key while its bucket overflows and underflows: is every message delivered once, does every pour return, does every bucket end, is the queue frozen once an overflow is decided? | 3 events, 2 pourers, 1 key, capacity 1, 3 buckets |
| `buckets_processors` | distinct, cancel, a timed counter with a small cache, discarded and whitelisted alerts, a failing filter: can a bucket become immortal, block on its own `Suicide` channel, or alert twice? | 3 events, 2 holders, 6 buckets |
| `buckets_reprocess` | do the cycle pour, bucket, output, pour and the one slot of `AllOut` ever wait on each other? | a trigger reprocessed into a conditional bucket |
| `buckets_ordered` | is the gate of `-order-event` taken and released once on every exit? | 2 holders that overflow |
| `buckets_shutdown` | safety through drain, kill, cancel and a failing postoverflow stage, at any point of a pour | reprocessing instance |

Four runs show a statement of the repository that the code does not keep:

* `v_late_cleanup`: the cleanup event of a dead bucket deletes by key
  (`output.go:129`), so it can remove the live successor a pour routine has
  stored meanwhile, and the next event makes a second live instance of the key.
  `pkg/leakybucket/README.md:147` says a key always maps to the same instance.
* `v_stillborn`: `ready` is closed before the processors are initialised
  (`bucket.go:149`), so a bucket can be returned to its creator and die without
  ever receiving; `manager_run.go:194` says it is ready to process events.
* `v_shutdown_stuck`: a bucket killed by `ctx.Done()` writes to `AllOut` before
  `done` is closed, unlike what `bucket.go:212` explains for the other cases.
  With the outputs gone and the slot full, a pour routine retries for ever.
* `v_overflow_kept`: a bucket that overflowed with an alert stays in the store
  until its key is poured again; `pkg/leakybucket/README.md:7` says it is
  destroyed.

Bounds. `MaxBuckets` caps the instances of a behaviour. An event can kill at
most the bucket it is poured into, and a ticker the bucket of its key, so in a
run without shutdown a bucket per event and holder, and one more per
reprocessed overflow, is enough: the liveness runs would report a pour routine
that cannot create its bucket as stuck. Capacity 1 gives an allowed event and an
overflow, and three events give the successor of a bucket a life of its own.
Two pour routines are the smallest number that can race on a store entry.

Fairness. `FairSpec` asks weak fairness of each pour, bucket and output
goroutine: the Go scheduler runs every runnable goroutine, and a select with a
ready case proceeds. Fairness of a bucket includes its ticker, which fires once
armed. Nothing is asked of the limiter refill or of the shutdown.

The order flag is modelled with one pour routine only (`OrderAssumption`):
`orderEvent` is a Go map without a lock, so two routines would be undefined
behaviour.

## DecisionStream: what a bouncer is told

`DecisionStream.tla` models `GET /decisions/stream`: a `StreamDecision` handler
reads the time once, queries the new decisions and then the expired ones, each
in pages that are separate statements, and stores the time it read as the
bouncer's `last_pull`; other handlers insert and expire decisions between any
two statements.

| variable | code |
|---|---|
| `row` | the decisions table: key (scope, type, value), `created_at`, `until`, `simulated`, whether it is committed, visible or flushed |
| `expiring` | an `ExpireDecisions` in progress: the rows left and the time it took |
| `pull` | the handler in progress: the query it is in, the page cursor, the filter, the keys written so far |
| `lastPull`, `view`, `fresh` | the bouncer's `last_pull`, the keys it blocks, whether it had an answer since it started |
| `clock`, `failures`, `happened` | time, failed pulls, and which of `FaultKinds` have happened |

| actions | code |
|---|---|
| `CreateDecision`, `Commit` | `buildDecisions`, `createDecisionBatch`, the commit of `createAlertBatch` |
| `ExpireWithFilter`, `ExpireByID`, `ExpireBatch`, `ExpireFails` | `ExpireDecisionsWithFilter`, `ExpireDecisionByID`, the batches of `ExpireDecisions` |
| `FlushRow` | the cascade of `flushAlerts` |
| `BeginPull`, `QueryNew`, `QueryDeleted`, `FinishPull` | `StreamDecision`, `writeStartupDecisions`, `writeDeltaDecisions`, with `longestDecisionForScopeTypeValue` and `applyDecisionFilter` as the operators of the same names |
| `QueryFails`, `WriteFails`, `UpdateFails` | their error paths |
| `Restart`, `Deliver` | the bouncer (external): it starts anew with `startup=true`, and applies an answer to its set of keys |

`BouncerView.tla` is the promise: a pull that completes leaves every key in a
state the table gave it at some moment since the pull began; one that fails may
leave keys as they were, invents nothing and is not recorded.
`StreamRefinement.tla` adds the history `held`, what each key was since the
pull began, and states with `INSTANCE BouncerView WITH` that `DecisionStream`
implements it (`Implements`).

What the handler does not guard against is named in `FaultKinds`, recorded in
`happened` when it occurs, and excepted by each property as its comment says:

* `startup`: a query of a startup pull fails after the status was sent; the
  bouncer takes the short list for a full one, and `last_pull` keeps the value
  of its previous life (`controllers/v1/decisions.go:321`, against `:388`,
  "to avoid missing decisions").
* `late`: `created_at` is taken by the inserting process and the row is visible
  at its commit; a pull in between records a `last_pull` later than
  `created_at`. Such a row can also cover a key beyond the overlap.
* `midpage`: the longest decision of a key is expired between two pages; the
  shorter one it hid has an id behind the cursor.
* `flush`: an expired decision is removed with its alert before the bouncer's
  next pull (`flush.go:251`).
* `sim`: the `simulated` filter is deleted from the map the later queries use
  (`decisionfilter.go:31`), and the longest-decision join also sees rows that
  the filter excludes.
* `reexpire`: a decision that is already over is expired: `ExpireDecisionByID`
  selects any row, and an update may come after the row has ended by itself.
  Its end moves, so for an instant the table shows a key as ending that was over
  before. Only `Implements` excepts it.

The run `stream` (2 decisions, 2 keys, page size 1, 1 fault, simulated
decisions asked for) checks `NothingMissed`, `Cleared`, `NeverLifted`,
`Implements` and `Converges` in about one million states. Two decisions are the
smallest number in which one hides the other, page size 1 puts every two rows
on different pages, durations 1 and 3 give a decision that ends within the run
and one that does not, and the clock of 3 lets a decision end before, during
and after a pull. One fault is enough to see each of the six alone.

Assumptions. An expiry is applied at most `Overlap` after `ExpireDecisions` took
its time: this is what the two seconds of `streamDecisions` are for. `BeginPull`
advances the clock, so no row is created at the very instant of a pull; where
the database keeps whole seconds (MySQL) the two may collide. An answer that
was written but never received is recorded as pulled; the bouncer recovers by
restarting. Fairness: pulls go on, time passes, and an expiry in progress is
carried through; nothing is asked of inserts or failures.

## AlertOutput: from an output routine into the database

`AlertOutput.tla` follows an alert from `runOutput` through the `CreateAlert`
handler.

| variable | code |
|---|---|
| `offered`, `pending`, `output` | alerts to come, `pendingAlerts` of each routine, where the routine is |
| `request` | the requests in flight: where the handler is, whether its client still waits, the alerts, the items kept by `dedupAlerts` and the allowlists, those not committed yet |
| `tomb`, `cancelled` | `outputsTomb`, the context of the agent |
| `stored`, `notified`, `toCapi` | rows of each item, `ProfileAlert`s handed to the broker, alerts offered on `AlertsAddChan` |
| `acked`, `dropped`, `failures` | history |

`AddAlert`, `TickerPush`, `FinalPush`, `FinalDrop` and `NothingLeft` are the
branches of the select of `runOutput`; `Evaluate`, `SaveBatch`, `Saved` and
`Finish` the stages of the handler, `ServerFails` and `EvaluateFails` its error
paths; `GiveUp` is a client that stops waiting, `KillOutputs` and `Cancel` the
stages of the shutdown. The `Requests` slots bound the requests in flight, not
those of a behaviour.

The run `output` (2 alerts, one of them allowlisted, 2 sources, 1 routine, 2
requests in flight, batches of 1, 1 failure) checks that an alert has one owner
(`SingleOwner`), that what was acknowledged is stored (`AckedIsStored`), that
nothing is lost unless a push failed (`LostOnlyOnFailure`), that copies are
bounded by failures (`CopiesBounded`), and that alerts are stored and routines
end. Batches of 1 make a push fail between two commits, and two slots let a
retry overtake the request it repeats. Fairness: a routine's ticker fires and
its final push runs, every handler goes on, alerts are received, and a shutdown
that has killed the outputs cancels the context (three seconds later at most);
nothing is asked of clients that give up or of failures.

What the code does at its limits is stated, not hidden: a push that fails after
the final `takeAll`, or is cut short by the three seconds of the shutdown,
loses its alerts (`dropped`), and a retry after a partial commit stores,
notifies and forwards again (`CopiesBounded` says how often).

## CapiPull: the community blocklist

`CapiPull.tla` models `PullTop` of several local API processes that share a
database: the channel `isPulling` within a process, the row `pullCAPI` of the
locks table between them.

| variable | code |
|---|---|
| `up`, `pc`, `pulling`, `timer` | the processes, where their ticker and console threads are in `PullTop`, the token of `isPulling`, the ticker |
| `lock` | the row of the locks table, with its age and the thread that inserted it |
| `alertAge` | the age `CAPIPullIsOld` looks at |
| `pulledAge`, `happened` | observers: age of the last answer of the central API, faults so far |

`FirstPull`, `TickerPull`, `ForcePull`, `Enter` and `LeaveUnlocked` are the ways
into and out of `PullTop`; `CheckOld`, `ReleaseStale`, `AcquireLock`,
`GetStream`, `SavePull`, `ReleaseLock` its calls; `Panic`, `Crash`, `Start` the
end and the start of a process. Ages saturate, so behaviours are infinite with
finitely many states.

The run `capi` (2 servers, interval 3, old after 2, timeout 2, 1 fault) checks
that pulls exclude each other (`ExclusivePull`), that without faults the central
API answers at least every `OldAfter + PullInterval + 2 * LockTimeout`
(`GapBounded`) and that a server that stays up goes on pulling whatever others
left behind (`PullsForever`). An interval longer than the age limit is the order
of the code (two hours against one and a half), and lets a tick be skipped. The
calls before the lock is taken return within one clock unit; the time of a
locked pull is bounded by the timeout unless `slow` has happened. Fairness: time
passes, and a thread that can take its next step does.

Three disagreements with comments are visible in the model and left out of the
properties by their premises:

* `lock.go:67` deletes any row older than ten minutes and releases by name;
  `lock.go:66` says 'delete orphan "old" lock if present'. A pull that outlasts
  the timeout (`slow`) loses its row to another server.
* `apic.go:580` checks the age before taking the lock and not again after;
  `apic.go:428` says "only pull community blocklist if it's older than 1h30".
  Two servers can pull one right after the other.
* `apic.go:651` indexes the first decision after `ApplyApicWhitelists` may have
  emptied the list (`apic.go:874`). The goroutine panics (`Panic`); its deferred
  calls give lock and token back.

## Proofs

All theorems are of the form `Spec => []P` (or `Spec => P` for an action
property or a refinement), for every value of the constants that satisfies the
named assumptions of the component's module: any number of events, keys,
routines, servers, decisions, pages, requests and faults. The bounds of TLC
(`MaxBuckets`, `MaxId`, `MaxTime`, `MaxFailures`, `MaxFaults`, `MaxGap`) are
natural numbers in the proofs. The assumptions, stated in the components'
modules and evaluated by TLC on every run:

* `ConstantsAssumption`: the constants of `LeakyBuckets` have their types, and an
  event reaches each holder once. `FactoryAssumption`: what `Validate` accepts.
  `OrderAssumption`: `-order-event` is used with one pour routine.
* `StreamAssumption`: overlap, page size and durations are positive.
* `OutputAssumption`: finitely many requests are in flight, every alert has
  finitely many sources and at least one.
* `Bounds` (`CapiPull`): finitely many servers, positive intervals, and a `MaxGap`
  above the gap that is proved, so that the saturating age cannot hide it.

Every safety invariant, action property and refinement that a passing run checks
is proved, for `TypeOK` of all four components as well.

| theorem | statement | module |
|---|---|---|
| `TypeCorrect` | `[]TypeOK` | `LeakyBucketsProofs` |
| `OrderedPourHolds` | `[]OrderedPour` | `LeakyBucketsProofs` |
| `SuicideSlotFreeHolds` | `[]SuicideSlotFree` | `LeakyBucketsLifeProofs` |
| `QueueFrozenHolds` | `QueueFrozen` (action property) | `LeakyBucketsLifeProofs` |
| `NoImmortalBucketHolds` | `[]NoImmortalBucket` | `LeakyBucketsLifeProofs` |
| `AlertOnceHolds` | `[]AlertOnce` | `LeakyBucketsLifeProofs` |
| `DeliveredOnceHolds` | `[]DeliveredOnce` | `LeakyBucketsDeliveryProofs` |
| `TypeCorrect` | `[]TypeOK` | `DecisionStreamProofs` |
| `NeverLiftedHolds` | `NeverLifted` (action property) | `DecisionStreamProofs` |
| `NothingMissedHolds` | `[]NothingMissed` | `StreamRefinementProofs` |
| `ClearedHolds` | `[]Cleared` | `StreamRefinementProofs` |
| `ImplementsHolds` | `HSpec => Implements` (refinement) | `StreamRefinementProofs` |
| `TypeCorrect` | `[]TypeOK` | `AlertOutputProofs` |
| `SingleOwnerHolds` | `[]SingleOwner` | `AlertOutputProofs` |
| `AckedIsStoredHolds` | `[]AckedIsStored` | `AlertOutputProofs` |
| `LostOnlyOnFailureHolds` | `[]LostOnlyOnFailure` | `AlertOutputProofs` |
| `CopiesBoundedHolds` | `[]CopiesBounded` | `AlertOutputProofs` |
| `TypeCorrect` | `[]TypeOK` | `CapiPullProofs` |
| `ExclusivePullHolds` | `[]ExclusivePull` | `CapiPullProofs` |
| `GapBoundedHolds` | `[]GapBounded` | `CapiPullProofs` |
| `RetryWithNewTokenHolds` | `JwtAssumption /\ Spec => []RetryWithNewToken` | `JwtTransportProofs` |

None of the invariants is inductive as it stands. What each proof adds:

LeakyBuckets.

* `TypeInv` is `TypeOK` with four conjuncts. `PourerInv`: a routine in a message
  points at one of its holders and holds a bucket of that holder's key.
  `BucketInv`: the buckets up to `born` exist and the store files each under its
  own key. `OutputInv`: outputs handle buckets that exist. `OrderInv`: a wait
  group counts exactly the message between its gate and the end of the bucket's
  iteration; without it `wg` could go below zero, so type correctness already
  needs the ordering protocol.
* `LifeInv` relates the `pc` of a leak routine to `pending`, `done`, `msg` and
  the `Suicide` slot. Each step moves a bucket by `LifeRel`, which gives
  `QueueFrozen` as an action property and that a dead bucket stays dead.
* `MortalInv` strengthens `NoImmortalBucket`: until its ticker runs a bucket has
  remembered no element, so its first event cannot be a duplicate, and until
  that event some pour routine has it in hand.
* `AlertInv` strengthens `AlertOnce`: the event in the channel and the event an
  output works on are of dead buckets whose alert is not buffered yet, no two
  outputs work on one bucket, and none works on the bucket in the channel.
* `DeliveryInv` strengthens `DeliveredOnce`. `HeldInv`: a message is with one
  routine, and the holders behind the routine are exactly those that received
  it. `EmitInv`: a bucket's event exists once, after its death, in the channel
  or with one output, so that a reprocessed overflow enters `inEvents` once.

DecisionStream. Every step is first classified by what it does to the table and
to the pull (`StepIs`: it waits, inserts, commits, expires or flushes one row,
begins a pull, pages through a query, ends the pull, or restarts the bouncer); each invariant is then kept by kind.

* `BaseInv` has the types and the order of the times: rows were created in the
  past, a pull in progress began no earlier than `last_pull`, ids are given in
  order, and an expiry in progress is older than a pull by less than `Overlap`.
* `LiftInv` (for `NeverLifted`): a key in the answer's deleted list had no row
  older than the pull that runs on.
* `MissInv` (for `NothingMissed`): during the query of new decisions the longest
  row of a key that is to be reported is behind the page cursor, and then the
  key is in the answer, or ahead of it (`Ahead`). An insert goes to the end of
  the table and an expiry between two pages is the fault `midpage`; this is the
  step where the exception is needed.
* `ClearInv` (for `Cleared`): a key that is blocked or in the answer has a row
  that is not over, or whose end the query of expired decisions has yet to come
  to, counted from the overlap before `last_pull` (`Due`).
* `HeldInv` (for `Implements`): what the history `held` says of a key agrees
  with the rows: a key that is active, about to be reported, or stale in the
  view had that state since the pull began. The mapping sends a finished pull to
  `Complete`, a failed one to `Fail`, and every change of the table to `Change`.
  The statement ends with the first of `FaultKinds`, as in `BouncerView`.

AlertOutput.

* `SingleOwner` is inductive with the shape of the requests: every action moves
  the alerts of one place to another (`Moves`) or moves none.
* `StoreInv` (for `AckedIsStored`): of the items a handler keeps, those it has
  not left to save are in the table.
* `FlushInv` (for `LostOnlyOnFailure`): a routine past its final `takeAll` has an
  empty buffer and nothing was dropped, unless there was a failure or the
  context was cancelled.
* `CountInv` (for `CopiesBounded`) adds to the rows of an item the requests that
  may still store it and the push to come, and likewise for notifications: each
  sum is at most one more than the failures. What was and may still be forwarded
  is at most what was stored. A handler moves one from "may" to "done"; a failed
  push leaves the request and makes a push to come, and counts a failure.

CapiPull.

* `LockInv` (for `ExclusivePull`): a thread past `AcquireLock` is the one that
  inserted the row, and the row is not older than the timeout. It holds until
  `slow` or `dberror` has happened.
* `Tokens` (for `TypeOK`): the token of `isPulling` is out exactly while one
  thread of the process is in `PullTop`.
* `CalmInv` (for `GapBounded`): without faults an alert young enough to skip a
  tick was saved within the timeout of its answer, and for every server the
  time to its next tick and the age of the last answer sum up to at most
  `OldAfter + PullInterval + LockTimeout`, or a pull that the age check no longer
  stops is not answered yet, or the server is still starting.

JwtTransport. `RetryInv`: tokens given out are numbered, a request under way
carries a token younger than those it saw refused, so does the shared token
whenever the request may come to use it, and each retry after a denial stands
for a refused token of its own. `JwtAssumption` is a hypothesis of the theorem.

Before they were proved, TLC was used to check that these invariants hold in all
reachable states of the instances of the runs (and of `jwt.cfg`), each under the
faults it is stated for.

Only model-checked, because liveness under fairness and `ENABLED` are out of the
prover's reach: `PourReturns`, `EveryBucketEnds`, `AlertsArrive`, `Converges`,
`EventuallyStored`, `OutputsEnd`, `PullsForever`. No proof needs induction over
data: sequences and sets are reasoned about by their members, and no module
with a theorem has a `RECURSIVE` operator. The modules of the next section have
no proofs, except `JwtTransport`.

## Further components

Each of these has a module, translated in the same way, and one configuration
that TLC finds to hold. `<name>.cfg` is checked against the module in the
second column, as in `tlc -config papi.cfg MCPapi`.

| configuration | module | properties | states |
|---|---|---|---|
| `plugin` | `MCPluginBroker` | no stacked alert is forgotten by the watcher, copies are bounded, stacks are taken, the broker ends | 31 750 |
| `papi` | `MCPapi` | no order issued since the client started is skipped, received twice in one life or stored twice, over crashes, errors and subscription changes | 699 605 |
| `store` | `AlertStore` | the flush removes no alert with an active decision nor one of an import under way, trims and ages out | 129 096 |
| `jwt` | `MCJwtTransport` | no retry carries a refused token, none is sent in its last minute, every request ends | 168 855 |
| `push` | `MCSignalPush` | an alert or deleted decision is in one place, handlers of alerts return, what is offered is taken and forwarded | 13 659 |
| `blocklist` | `MCBlocklistPull` | a listed value is blocked within the duration of its list, an unsubscribed list fades, coverage heals | 1 168 358 |
| `pipeline` | `MCLogPipeline` | no send on a closed channel, finite sources are read to the end, the shutdown ends, streams are restarted | 140 084 |
| `tail` | `FileTail` | the map of tails is exact, with polling every existing file is followed | 15 750 |
| `time` | `TimeMachine` | with `-order-event` a replay raises the alerts of a sequential one | 294 607 |
| `blackhole` | `Blackhole` | an overflow is discarded only after an alert of its key within the duration | 2 020 362 |
| `metrics` | `UsageMetrics` | rows marked as sent were sent or refused, increments are given once, rows settle | 83 549 |
| `allow` | `Allowlists` | the console's list catches up, decisions behind a stale check are repaired | 65 860 |

Notes on the models:

* `PluginBroker`: all channels are unbuffered, a send and its receive are one
  step. Discovery and start of plugins are not modelled.
* `Papi`: console and server share one clock; a shutdown is a crash; polls that
  fail are stutters. Orders issued before a saved receipt time and delivered
  after it are not repeated.
* `AlertStore`: `cscli alerts flush` is another process, so the guard that keeps
  the flush job away from imports does not protect an import from it. Gaps in
  the ids make a trim remove alerts although there are fewer than `max_items`.
* `JwtTransport`: tokens are numbered as they are given out; requests to the
  login endpoint, which skip the transport, are not modelled.
* `BlocklistPull`: `CoveredWithin` counts from the last failed call or restart;
  after a stop longer than the interval a value is covered with the next pull.
  Dates of HTTP have whole seconds.
* `LogPipeline`: one pour routine; the end of the shutdown is checked without
  transformers (see below).
* `FileTail`: that a tail dies is external.
* `TimeMachine`: one key of one leaky scenario and one pour routine.
* `Blackhole`: a slice is read and written as a whole; a torn header would be
  undefined behaviour of Go.
* `UsageMetrics`: one counter. A delta whose sending fails after the last value
  was stored is lost; rows of a deleted machine stay; rows beside a refused one
  are sent again.
* `Allowlists`: a value is the set of its addresses, an expired item a removed
  one. A decision added with `--bypass-allowlist` is expired by the next apply.

### Statements the code does not keep

These definitions state what a comment or a document says. TLC finds a behaviour
of the model against each; the constants to use are named.

| definition | behaviour |
|---|---|
| `FlushedAtShutdown` (`MCRoute`) | the last event of a ticker goroutine is sent in a select with a default (`watcher.go:151`); when the dying broker is not in its select the stack is not notified, although `watcher.go:148` has it still listening |
| `ThresholdRespected` (`MCRoute`, 4 alerts) | the dying broker pushes the whole stack at once (`broker.go:183`; `:150` "Chunk alerts to respect group_threshold") |
| `LastOrderWins` (`MCPair`) | an add and the delete of its decision come in one answer, newest first (`papi.go:301`; `:218` "not an issue when pulling them in real time") |
| `DuplicatesDiscarded` (`MCAlert`, `MaxAllow`, `MaxSyncs` 1) | sorted uuids are compared place by place (`alerts.go:97`): one missing at the front makes the others look missing and they are inserted again (`papi.go:232` "will discard them") |
| `OneAlert` (`MCAlert`, `MaxSyncs` 1) | `Pull` and `cscli papi sync` handle one order at once: query, then insert (`alerts.go:50`; `:70` "this should never happen") |
| `AtMostMaxItems` | ids below the last one minus `max_items` are removed, which leaves one more (`flush.go:326`; `clialert/alerts.go:526`) |
| `NoUselessLogin` | the 401 to an old token clears the one another request has just obtained (`auth_jwt.go:229`; `:164`) |
| `RetriesOnce` (`MCConfigured`) | the configuration allows two retries after a 401 (`client.go:166`; `auth_jwt.go:258` "retries once") |
| `SentBeforeExiting` (`MCOrders`) | nothing waits for the goroutine that sends the last cache (`apic.go:310`; `:304` "before exiting") |
| `WorkersReturn` (`MCDeleted`) | `DeleteDecisions` waits for a `SyncDecisions` that has returned (`controllers/v1/decisions.go:148`; `apic.go:409` "we prefer to cancel write") |
| `ErrorEndsAcquisition` (a tail with a transformer) | the transformer leaves when the tomb dies and the tail stays on its send (`acquisition.go:469`; `:672`) |
| `ErrorShutsDown` | the error of the acquisition is fatal to the process while the shutdown has only begun (`crowdsec.go:232`; `acquisition.go:672`) |
| `InFlightIsPoured` | `drainChan` drops an event whose pour routine is busy for longer than half a second, also at the end of a cat run (`serve.go:120`; `crowdsec.go:269`) |
| `DeadWhenDone` (`Quick`) | the first of two sources ends before the second is started: the tomb is dead (`acquisition.go:634`; `:663`) |
| `FollowedOnce` (one initial file) | both goroutines find a file not in the map and follow it (`file/run.go:201`; `:203`) |
| `RecreatedIsFollowed` (no polling) | a creation reported while the dead tail is in the map is ignored (`file/run.go:322`; `:320`) |
| `OverflowsWhenFull` (`Ordered = FALSE`) | an event is compared with a `Last_ts` that does not know the one before (`manager_run.go:121`; `README.md:24`) |
| `LogTimeOnly` (`RealTicks`) | the ticker of a replayed bucket is in real time (`bucket.go:199`; `manager_run.go:23`) |
| `SpacedAlerts` | two routines overwrite each other's `hiddenKeys` (`blackhole.go:56`; `manager_load.go:42`) |
| `GivenOnce` (2 providers) | the provider of before a reload still collects (`lpmetrics.go:208`; `:33` "only a single instance") |
| `ExpiredByAList` (with `unsubscribe`) | a pull that overlaps an unsubscribe leaves items without a list, which expire decisions (`allowlists.go:409`; `:405`); the sort of `IsAllowlistedBy` indexes their missing list (`:332`) |

## Not modelled

In the engine: the garbage collector with its pour gate, which no code enables
(`BucketsGCEnabled` is never set), and dump mode. Outside it: everything
`PROJECT.json` lists as `not_modelled`, with its reason. Regular expressions,
grok, expression evaluation, HTTP and SQL are I/O or libraries, and generated
code (`ent`, `models`, `modelscapi`, `protobufs`) is taken as its generator
promises. The cached allowlists of the application firewall, the reload of the
agent by SIGHUP and the start-up checks are not modelled either.
