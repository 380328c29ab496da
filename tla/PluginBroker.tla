---------------------------- MODULE PluginBroker ----------------------------
(***************************************************************************)
(* The dispatch of notifications: API handlers hand alerts to the broker   *)
(* (pkg/csplugin/broker.go), which stacks them up per plugin and tells the *)
(* watcher (pkg/csplugin/watcher.go); a counter goroutine counts them, one *)
(* ticker goroutine per plugin decides when to deliver, and the broker     *)
(* then hands the stack to a goroutine that pushes it in chunks.  All the  *)
(* channels are unbuffered: a send and its receive are one step here, and  *)
(* a goroutine is ready for it only once it is parked in its select.       *)
(***************************************************************************)
EXTENDS Integers, Sequences, FiniteSets

CONSTANTS
    Alerts, Plugins,
    Route,        \* Route[a]: the plugins the profiles of the alert notify, in order
    Threshold,    \* Threshold[p]: group_threshold, 0 if not set
    Timed,        \* the plugins that set group_wait
    MaxRetry,     \* max_retry
    MaxFailures   \* bound: attempts to notify that fail

\* What the constants must satisfy.
Shape ==
    /\ Route \in [Alerts -> Seq(Plugins)] /\ Timed \subseteq Plugins
    /\ {"listening", "dead"} \cap Plugins = {}
    /\ Threshold \in [Plugins -> Nat] /\ MaxRetry \in Nat /\ MaxFailures \in Nat

VARIABLES
    handler,   \* handler[a]: the tries of the alert's API handler, 3 once it gave up, or Handed
    broker,    \* the goroutine of Run: where it is, and the alert and plugins it works on
    pending,   \* pending[p]: alertsByPluginName
    count,     \* count[p]: AlertCountByPluginName
    counter,   \* watchPluginAlertCounts: "listening", "dead" or the plugin it is about to count
    ticker,    \* ticker[p]: watchPluginTicker
    jobs,      \* the pushes under way
    dying,     \* "no", "broker" once pluginTomb is dying, "watcher" once the watcher's is
    copies,    \* copies[p][a]: how often the plugin got the alert (an observer)
    failures

vars == <<handler, broker, pending, count, counter, ticker, jobs, dying, copies, failures>>

Handed == 4

\* A push under way, by a goroutine of its own or by the broker.
Job(by, p, alerts) == [by |-> by, plugin |-> p, alerts |-> alerts, tries |-> 0]
Broker(at) == [at |-> at, alert |-> "none", todo |-> <<>>]

TypeOK ==
    /\ Shape
    /\ handler \in [Alerts -> 0..Handed]
    /\ broker.at \in {"run", "select", "append", "insert", "drain", "drain select", "push", "done"}
    /\ broker.todo \in Seq(Plugins)
    /\ pending \in [Plugins -> Seq(Alerts)] /\ count \in [Plugins -> 0..Cardinality(Alerts)]
    /\ counter \in Plugins \cup {"listening", "dead"}
    /\ ticker \in [Plugins -> {"wait", "reset", "send", "dead"}]
    /\ \A j \in jobs : j.alerts # <<>> /\ j.tries \in 0..MaxRetry
    /\ dying \in {"no", "broker", "watcher"} /\ failures \in 0..MaxFailures

Init ==
    /\ handler = [a \in Alerts |-> 0]
    /\ broker = Broker("run")
    /\ pending = [p \in Plugins |-> <<>>] /\ count = [p \in Plugins |-> 0]
    /\ counter = "listening" /\ ticker = [p \in Plugins |-> "wait"]
    /\ jobs = {} /\ dying = "no"
    /\ copies = [p \in Plugins |-> [a \in Alerts |-> 0]]
    /\ failures = 0

-----------------------------------------------------------------------------
(* API handlers *)

\* sendAlertToPluginChannel: three tries, none of them waits for the broker.
Hand(a) ==
    /\ handler[a] \in 0..2
    /\ IF broker.at = "select"
       THEN /\ handler' = [handler EXCEPT ![a] = Handed]
            /\ broker' = [at |-> "append", alert |-> a, todo |-> Route[a]]
       ELSE /\ handler' = [handler EXCEPT ![a] = @ + 1]
            /\ UNCHANGED broker
    /\ UNCHANGED <<pending, count, counter, ticker, jobs, dying, copies, failures>>

-----------------------------------------------------------------------------
(* The broker *)

\* The loops of Run: the broker parks in its select.
Park ==
    /\ broker.at \in {"run", "drain"}
    /\ broker' = Broker(IF broker.at = "run" THEN "select" ELSE "drain select")
    /\ UNCHANGED <<handler, pending, count, counter, ticker, jobs, dying, copies, failures>>

\* addProfileAlert: the alert goes on the stack of each plugin in turn.
Append1 ==
    /\ broker.at = "append"
    /\ IF broker.todo = <<>>
       THEN broker' = Broker("run") /\ UNCHANGED pending
       ELSE /\ pending' = [pending EXCEPT ![Head(broker.todo)] = Append(@, broker.alert)]
            /\ broker' = [broker EXCEPT !.at = "insert"]
    /\ UNCHANGED <<handler, count, counter, ticker, jobs, dying, copies, failures>>

\* ... and the plugin's name to the watcher; the counter goroutine receives it.
Insert ==
    /\ broker.at = "insert" /\ counter = "listening"
    /\ counter' = Head(broker.todo)
    /\ broker' = [broker EXCEPT !.at = "append", !.todo = Tail(@)]
    /\ UNCHANGED <<handler, pending, count, ticker, jobs, dying, copies, failures>>

\* Run, on an event of the watcher: the stack is taken as it is now.
Taken(p) == [pending EXCEPT ![p] = <<>>]

\* Delivery in a goroutine of its own.
Dispatch(p) ==
    /\ broker.at = "select"
    /\ broker' = Broker("run")
    /\ jobs' = IF pending[p] = <<>> THEN jobs ELSE jobs \cup {Job("goroutine", p, pending[p])}
    /\ pending' = Taken(p)

\* Delivery by the broker itself, once it is dying.
DispatchDying(p) ==
    /\ broker.at = "drain select"
    /\ broker' = Broker(IF pending[p] = <<>> THEN "drain" ELSE "push")
    /\ jobs' = IF pending[p] = <<>> THEN jobs ELSE jobs \cup {Job("broker", p, pending[p])}
    /\ pending' = Taken(p)

\* pluginTomb is dying (serveAPIServer); the broker notices it in its select
\* and kills the watcher.
Shutdown ==
    /\ dying = "no" /\ dying' = "broker"
    /\ UNCHANGED <<handler, broker, pending, count, counter, ticker, jobs, copies, failures>>

BrokerDies ==
    /\ dying = "broker" /\ broker.at = "select"
    /\ dying' = "watcher" /\ broker' = Broker("drain")
    /\ UNCHANGED <<handler, pending, count, counter, ticker, jobs, copies, failures>>

\* The watcher's goroutines are all dead: the plugins are killed.
KillPlugins ==
    /\ broker.at = "drain select" /\ counter = "dead"
    /\ \A p \in Plugins : ticker[p] = "dead"
    /\ broker' = Broker("done")
    /\ UNCHANGED <<handler, pending, count, counter, ticker, jobs, dying, copies, failures>>

-----------------------------------------------------------------------------
(* The watcher *)

\* watchPluginAlertCounts: Inc.
Inc ==
    /\ counter \in Plugins
    /\ count' = [count EXCEPT ![counter] = @ + 1]
    /\ counter' = "listening"
    /\ UNCHANGED <<handler, broker, pending, ticker, jobs, dying, copies, failures>>

CounterDies ==
    /\ counter = "listening" /\ dying = "watcher"
    /\ counter' = "dead"
    /\ UNCHANGED <<handler, broker, pending, count, ticker, jobs, dying, copies, failures>>

\* Whether a tick flushes: by count, when the interval has elapsed, or always
\* if neither is configured.
Flushes(p) ==
    /\ count[p] > 0
    /\ \/ Threshold[p] > 0 /\ count[p] >= Threshold[p]
       \/ p \in Timed
       \/ Threshold[p] = 0 /\ p \notin Timed

\* A tick that flushes: Get.  A tick that does not changes nothing.
Flush(p) ==
    /\ ticker[p] = "wait" /\ Flushes(p)
    /\ ticker' = [ticker EXCEPT ![p] = "reset"]
    /\ UNCHANGED <<handler, broker, pending, count, counter, jobs, dying, copies, failures>>

\* Set(pluginName, 0): what was counted since Get is forgotten with the rest.
Reset(p) ==
    /\ ticker[p] = "reset"
    /\ count' = [count EXCEPT ![p] = 0]
    /\ ticker' = [ticker EXCEPT ![p] = "send"]
    /\ UNCHANGED <<handler, broker, pending, counter, jobs, dying, copies, failures>>

\* PluginEvents <- pluginName, which waits for the broker.
SendEvent(p) ==
    /\ ticker[p] = "send"
    /\ Dispatch(p) \/ DispatchDying(p)
    /\ ticker' = [ticker EXCEPT ![p] = "wait"]
    /\ UNCHANGED <<handler, count, counter, dying, copies, failures>>

\* The watcher is dying: a last event, if the broker is in its select.
TickerDies(p) ==
    /\ ticker[p] = "wait" /\ dying = "watcher"
    /\ \/ DispatchDying(p)
       \/ broker.at # "drain select" /\ UNCHANGED <<broker, pending, jobs>>
    /\ ticker' = [ticker EXCEPT ![p] = "dead"]
    /\ UNCHANGED <<handler, count, counter, dying, copies, failures>>

-----------------------------------------------------------------------------
(* Pushing *)

\* The chunk pushed next: group_threshold alerts, or one.  The dying broker
\* pushes the whole stack at once.
Chunk(j) ==
    LET size == IF Threshold[j.plugin] = 0 THEN 1 ELSE Threshold[j.plugin]
    IN IF j.by = "broker" \/ Len(j.alerts) <= size THEN Len(j.alerts) ELSE size

Notified(j) ==
    [copies EXCEPT ![j.plugin] = [a \in Alerts |->
        @[a] + Cardinality({i \in 1..Chunk(j) : j.alerts[i] = a})]]

\* The chunk is done with, delivered or given up: the job goes on with the
\* next chunk, or is over, and the broker that made it returns to its loop.
ChunkDone(j) ==
    LET left == SubSeq(j.alerts, Chunk(j) + 1, Len(j.alerts))
        rest == IF left = <<>> THEN {} ELSE {Job(j.by, j.plugin, left)}
    IN /\ jobs' = (jobs \ {j}) \cup rest
       /\ broker' = IF j.by = "broker" THEN Broker("drain") ELSE broker

\* pushNotificationsToPlugin: the plugin takes the notification.
Notify(j) ==
    /\ broker.at # "done"
    /\ copies' = Notified(j)
    /\ ChunkDone(j)
    /\ UNCHANGED <<handler, pending, count, counter, ticker, dying, failures>>

\* An attempt fails or times out, and the plugin may have acted on it
\* nevertheless; retryWithBackoff tries again max_retry times.
NotifyFails(j) ==
    /\ broker.at # "done" /\ failures < MaxFailures
    /\ failures' = failures + 1
    /\ copies' \in {copies, Notified(j)}
    /\ IF j.tries < MaxRetry
       THEN jobs' = (jobs \ {j}) \cup {[j EXCEPT !.tries = @ + 1]} /\ UNCHANGED broker
       ELSE ChunkDone(j)
    /\ UNCHANGED <<handler, pending, count, counter, ticker, dying>>

\* The plugins are gone: what goroutines still had to push is lost.
PushLost(j) ==
    /\ broker.at = "done"
    /\ jobs' = jobs \ {j}
    /\ UNCHANGED <<handler, broker, pending, count, counter, ticker, dying, copies, failures>>

-----------------------------------------------------------------------------
BrokerStep == Park \/ Append1 \/ Insert \/ BrokerDies \/ KillPlugins
WatcherStep == Inc \/ CounterDies
TickerStep(p) == Flush(p) \/ Reset(p) \/ SendEvent(p) \/ TickerDies(p)
Push(j) == Notify(j) \/ NotifyFails(j) \/ PushLost(j)

Next ==
    \/ \E a \in Alerts : Hand(a)
    \/ BrokerStep \/ WatcherStep \/ Shutdown
    \/ \E p \in Plugins : TickerStep(p)
    \/ \E j \in jobs : Push(j)

Spec == Init /\ [][Next]_vars

\* Goroutines are scheduled, a select with several ready cases takes each of
\* them in the end, and the interval of a ticker elapses.
FairSpec ==
    /\ Spec
    /\ WF_vars(Park) /\ WF_vars(Append1) /\ WF_vars(Insert) /\ WF_vars(KillPlugins)
    /\ SF_vars(BrokerDies) /\ WF_vars(Inc) /\ WF_vars(CounterDies)
    /\ \A p \in Plugins : WF_vars(Flush(p)) /\ WF_vars(Reset(p)) /\ SF_vars(SendEvent(p))
                          /\ WF_vars(TickerDies(p))
    /\ WF_vars(\E j \in jobs : Push(j))

-----------------------------------------------------------------------------
(* Properties *)

\* An alert on a plugin's stack is never forgotten by the watcher: it is
\* counted, or about to be, or the ticker is on its way to have the stack
\* delivered.  An Inc that falls between the ticker's Get and Set is lost from
\* the count, but never one for an alert that the broker has not taken by then.
NothingStuck ==
    \A p \in Plugins : pending[p] # <<>> =>
        \/ count[p] > 0 \/ counter = p \/ ticker[p] \in {"reset", "send", "dead"}
        \/ broker.at = "insert" /\ Head(broker.todo) = p

\* A plugin gets an alert at most once for the profile that names it, and once
\* more for each attempt that failed: the broker empties the stack it hands on.
CopiesBounded ==
    \A p \in Plugins, a \in Alerts :
        copies[p][a] <= Cardinality({i \in DOMAIN Route[a] : Route[a][i] = p}) + failures

\* The stack of a plugin with group_wait, or with no grouping, is taken in the
\* end unless the process is stopped.
EventuallyTaken ==
    \A p \in Plugins : p \in Timed \/ Threshold[p] <= 1 =>
        (pending[p] # <<>> ~> pending[p] = <<>> \/ dying # "no")

\* Run returns once it is told to: no goroutine of the watcher waits for the
\* broker, nor the broker for one of them, for ever.
BrokerEnds == dying = "broker" ~> broker.at = "done"

-----------------------------------------------------------------------------
(* What the repository says and the code does not keep: TLC finds a        *)
(* behaviour against each of these, which the README describes.            *)

\* Shutdown delivers what is stacked up, because "we have the broker still
\* listening even in dying state before killing us" (watchPluginTicker).
FlushedAtShutdown == broker.at = "done" => \A p \in Plugins : pending[p] = <<>>

\* No notification groups more than group_threshold alerts: "Chunk alerts to
\* respect group_threshold" (Run).
ThresholdRespected ==
    \A j \in jobs : Threshold[j.plugin] > 0 => Chunk(j) <= Threshold[j.plugin]
=============================================================================
