------------------------------ MODULE UsageMetrics ------------------------------
(***************************************************************************)
(* Usage metrics from a log processor to the central API.                  *)
(*                                                                         *)
(* A MetricsProvider (cmd/crowdsec/lpmetrics.go) reads a counter, sends    *)
(* the difference to metricsLastValues and remembers the new value; a      *)
(* reload starts another provider, and nothing waits for the old one.  The *)
(* local API stores what it gets (controllers/v1/usagemetrics.go), and     *)
(* SendUsageMetrics (apic_metrics.go) sends what is not marked as sent.    *)
(*                                                                         *)
(* One counter stands for all: they do not depend on each other.           *)
(***************************************************************************)
EXTENDS Integers, Sequences, FiniteSets

CONSTANTS
    Providers,   \* the number of providers: one more than reloads
    Faults,      \* of "net", "refused", "answer", "mark", "crash", "flush", "read", "restart"
    MaxCount, MaxRows, MaxFaults    \* bounds

\* What the constants must satisfy.
MetricsAssumption ==
    /\ Providers \in Nat \ {0}
    /\ Faults \subseteq {"net", "refused", "answer", "mark", "crash", "flush", "read", "restart"}

VARIABLES
    counter,     \* the prometheus counter
    last,        \* metricsLastValues
    prov,        \* of each provider: off, idle, gathered, computed or sending
    cur, delta,  \* the value it has read and what it will send
    newest,      \* the provider the last reload started
    rows,        \* the metrics table: sequence of [status, bad]
    pusher,      \* SendUsageMetrics: idle, sending or marking
    batch,       \* the ids it has read
    faults,
    total, given,    \* observers: what was counted, and sum of the deltas
    sent,        \* observer: how often the central API got a row
    refused      \* observer: rows in a batch it refused

agent    == <<counter, last, prov, cur, delta, newest, total, given>>
server   == <<rows, pusher, batch>>
capi     == <<sent, refused>>
vars     == <<agent, server, faults, capi>>

P == 1..Providers

Init ==
    /\ counter = 0
    /\ last = 0
    /\ prov = [p \in P |-> IF p = 1 THEN "idle" ELSE "off"]
    /\ cur = [p \in P |-> 0]
    /\ delta = [p \in P |-> 0]
    /\ newest = 1
    /\ rows = <<>>
    /\ pusher = "idle"
    /\ batch = {}
    /\ faults = 0
    /\ total = 0
    /\ given = 0
    /\ sent = [i \in 1..MaxRows |-> 0]
    /\ refused = {}

Fault(f) == f \in Faults /\ faults < MaxFaults /\ faults' = faults + 1

-----------------------------------------------------------------------------
(* The log processor. *)

Count ==
    /\ total < MaxCount
    /\ counter' = counter + 1
    /\ total' = total + 1
    /\ UNCHANGED <<last, prov, cur, delta, newest, given, server, faults, capi>>

(* A new provider; the context of the old one is cancelled. *)
Reload ==
    /\ newest < Providers
    /\ newest' = newest + 1
    /\ prov' = [prov EXCEPT ![newest + 1] = "idle"]
    /\ UNCHANGED <<counter, last, cur, delta, total, given, server, faults, capi>>

(* The process ends; counters and last values start again. *)
Restart ==
    /\ Fault("restart")
    /\ counter' = 0
    /\ last' = 0
    /\ prov' = [p \in P |-> IF p = newest THEN "idle" ELSE "off"]
    /\ UNCHANGED <<cur, delta, newest, total, given, server, capi>>

(* select may choose the tick when the context is cancelled as well.          *)
(* gatherPromMetrics, in the steps between which another provider may run.   *)
Gather(p) ==
    /\ prov[p] = "idle"
    /\ cur' = [cur EXCEPT ![p] = counter]
    /\ prov' = [prov EXCEPT ![p] = "gathered"]
    /\ UNCHANGED <<counter, last, delta, newest, total, given, server, faults, capi>>

Compute(p) ==
    /\ prov[p] = "gathered"
    /\ delta' = [delta EXCEPT ![p] = IF cur[p] > last THEN cur[p] - last ELSE 0]
    /\ prov' = [prov EXCEPT ![p] = "computed"]
    /\ UNCHANGED <<counter, last, cur, newest, total, given, server, faults, capi>>

Remember(p) ==
    /\ prov[p] = "computed"
    /\ last' = cur[p]
    /\ given' = given + delta[p]
    /\ prov' = [prov EXCEPT ![p] = "sending"]
    /\ UNCHANGED <<counter, cur, delta, newest, total, server, faults, capi>>

(* The local API's handler stores a row; the central API may not like it.      *)
Stored ==
    /\ Len(rows) < MaxRows
    /\ \E bad \in BOOLEAN : rows' = Append(rows, [status |-> "new", bad |-> bad])

(* sendMetrics: whatever comes of it, the difference is not sent again.        *)
Post(p) ==
    /\ prov[p] = "sending"
    /\ prov' = [prov EXCEPT ![p] = "idle"]
    /\ \/ Stored /\ UNCHANGED faults
       \/ Fault("net") /\ UNCHANGED rows
       \/ p # newest /\ UNCHANGED <<rows, faults>>
    /\ UNCHANGED <<counter, last, cur, delta, newest, total, given, pusher, batch, capi>>

(* Run ends with its context. *)
Stop(p) ==
    /\ prov[p] = "idle"
    /\ p # newest
    /\ prov' = [prov EXCEPT ![p] = "off"]
    /\ UNCHANGED <<counter, last, cur, delta, newest, total, given, server, faults, capi>>

-----------------------------------------------------------------------------
(* The local API: SendUsageMetrics. *)

Ids(s) == {i \in 1..Len(rows) : rows[i].status \in s}

Unsent == Ids({"new"})

(* GetUsageMetrics *)
Collect ==
    /\ pusher = "idle"
    /\ batch' = Unsent
    /\ pusher' = "sending"
    /\ UNCHANGED <<agent, rows, faults, capi>>

(* It goes on without the rows of an origin it cannot read. *)
CollectPart ==
    /\ pusher = "idle"
    /\ Fault("read")
    /\ \E ids \in SUBSET Unsent : ids # Unsent /\ batch' = ids
    /\ pusher' = "sending"
    /\ UNCHANGED <<agent, rows, capi>>

Deliver == sent' = [i \in 1..MaxRows |-> IF i \in batch THEN sent[i] + 1 ELSE sent[i]]

(* The central API does not like what was sent: 422. *)
AfterRefusal == "marking"

Poisoned == \E i \in batch : rows[i].bad

Push ==
    /\ pusher = "sending"
    /\ IF Poisoned
         THEN pusher' = AfterRefusal /\ refused' = refused \cup batch /\ UNCHANGED sent
         ELSE pusher' = "marking" /\ Deliver /\ UNCHANGED refused
    /\ UNCHANGED <<agent, rows, batch, faults>>

(* The request or its answer is lost, or the answer is another error. *)
PushFails ==
    /\ pusher = "sending"
    /\ \/ Fault("net") /\ UNCHANGED sent
       \/ Fault("refused") /\ UNCHANGED sent
       \/ ~Poisoned /\ Fault("answer") /\ Deliver
    /\ pusher' = "idle"
    /\ UNCHANGED <<agent, rows, batch, refused>>

Marked(ids) == [i \in 1..Len(rows) |->
                  IF i \in ids /\ rows[i].status = "new" THEN [rows[i] EXCEPT !.status = "pushed"] ELSE rows[i]]

(* MarkUsageMetricsAsSent *)
Mark ==
    /\ pusher = "marking"
    /\ rows' = Marked(batch)
    /\ pusher' = "idle"
    /\ UNCHANGED <<agent, batch, faults, capi>>

MarkFails ==
    /\ pusher = "marking"
    /\ Fault("mark")
    /\ pusher' = "idle"
    /\ UNCHANGED <<agent, rows, batch, capi>>

Crash ==
    /\ Fault("crash")
    /\ pusher' = "idle"
    /\ UNCHANGED <<agent, rows, batch, capi>>

(* flushMetrics: by age, pushed or not. *)
Flush(i) ==
    /\ i \in Ids({"new", "pushed"})
    /\ Fault("flush")
    /\ rows' = [rows EXCEPT ![i].status = "gone"]
    /\ UNCHANGED <<agent, pusher, batch, capi>>

-----------------------------------------------------------------------------
Next ==
    \/ Count \/ Reload \/ Restart
    \/ \E p \in P : Gather(p) \/ Compute(p) \/ Remember(p) \/ Post(p) \/ Stop(p)
    \/ Collect \/ CollectPart \/ Push \/ PushFails \/ Mark \/ MarkFails \/ Crash
    \/ \E i \in 1..MaxRows : Flush(i)

Spec == Init /\ [][Next]_vars

(* The ticker of SendUsageMetrics ticks, requests and updates end. *)
FairSpec == Spec /\ WF_vars(Collect) /\ WF_vars(Push) /\ WF_vars(Mark)

-----------------------------------------------------------------------------
(* Every variable has its type. *)
TypeOK ==
    /\ MetricsAssumption
    /\ prov \in [P -> {"off", "idle", "gathered", "computed", "sending"}]
    /\ pusher \in {"idle", "sending", "marking"}
    /\ batch \subseteq 1..Len(rows)
    /\ \A i \in 1..Len(rows) : rows[i].status \in {"new", "pushed", "gone"} /\ rows[i].bad \in BOOLEAN
    /\ last <= counter

(* A row is marked as sent only if the central API got it or refused it, also  *)
(* when rows come in, are flushed, or the server restarts in between.          *)
MarkedWasSent == \A i \in Ids({"pushed"}) : sent[i] > 0 \/ i \in refused

(* Requests that fail before they are delivered never make the central API     *)
(* count a row twice: the next round reads exactly what is not marked.         *)
SentOnce == \A i \in 1..MaxRows : sent[i] <= 1

(* Every increment is given to at most one request, over restarts of the       *)
(* process too.  With a reload this is what lpmetrics.go:32-33 rely on: the    *)
(* last values are kept for the delta, "There's only a single instance of      *)
(* MetricsProvider, so no need to mutex or anything"; TLC refutes it there.    *)
GivenOnce == given <= total

(* What is stored leaves the table of unsent rows, although the central API    *)
(* refuses some rows for ever, and requests, updates and the server may fail.  *)
EventuallySettled ==
    \A i \in 1..MaxRows : i \in Ids({"new"}) ~> i \notin Ids({"new"})

=============================================================================
