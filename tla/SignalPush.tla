------------------------------ MODULE SignalPush ------------------------------
(***************************************************************************)
(* What the local API reports to the central API: apic.Push forwards the   *)
(* alerts of the API handlers and of PAPI orders as signals, and           *)
(* Papi.SyncDecisions the uuids of deleted decisions (pkg/apiserver/apic.go *)
(* and papi.go).  Both collect what their channel brings in a cache, hand  *)
(* the cache to a goroutine at every tick and when their tomb dies; the    *)
(* goroutine sends batches and gives up at the first error.                *)
(*                                                                         *)
(* The channels have no buffer.  CreateAlert offers without waiting, the   *)
(* decision handlers and the PAPI orders wait for the receiver.  The       *)
(* server's shutdown kills the tombs, closes the database and then waits   *)
(* for the handlers that are still running.                                *)
(***************************************************************************)
EXTENDS Integers, FiniteSets, Sequences, SequencesExt

CONSTANTS
    Handlers,    \* requests to the local API
    Orders,      \* PAPI orders, in the order Pull handles them
    Kind,        \* for each of both: "signal" or "delete"
    Items,       \* for each of both: the sequence of alerts or decisions, by number
    Alert,       \* of each alert: [manual, hash, version, simulated]
    Config,      \* [share, manual, tainted, custom]: what may be shared
    BatchSize,   \* 50 in Send and SendDeletedDecisions
    MaxErrors    \* bound on the failures

Kinds   == {"signal", "delete"}
Sources == Handlers \cup Range(Orders)

\* What the constants must satisfy.
PushAssumption ==
    /\ BatchSize \in Nat \ {0}
    /\ Kind \in [Sources -> Kinds]
    /\ IsInjective(Orders) /\ Handlers \cap Range(Orders) = {}
    /\ \A s \in Sources : IsInjective(Items[s])
    /\ \A s, t \in Sources : s # t => Range(Items[s]) \cap Range(Items[t]) = {}

AllItems == UNION {Range(Items[s]) : s \in Sources}

VARIABLES
    pc,          \* of each handler: idle, db, offer, done
    pull,        \* of Papi.Pull: [at, n], the n-th order
    at,          \* of Push and SyncDecisions: select, append, flush or gone
    hand,        \* what each has received and not cached yet
    cache,
    dying,       \* pushTomb and syncTomb are killed
    senders,     \* goroutines running Send: [kind, items]
    phase,       \* of the server: serving, closing, draining, down, gone
    sent,        \* observer: items central API has
    dropped,     \* observer: items that a failed Send gave up
    handed,      \* observer: items that were received from a channel
    errors

vars == <<pc, pull, at, hand, cache, dying, senders, phase, sent, dropped, handed, errors>>

Init ==
    /\ pc = [h \in Handlers |-> "idle"]
    /\ pull = [at |-> "idle", n |-> 1]
    /\ at = [k \in Kinds |-> "select"]
    /\ hand = [k \in Kinds |-> <<>>]
    /\ cache = [k \in Kinds |-> <<>>]
    /\ dying = FALSE
    /\ senders = {}
    /\ phase = "serving"
    /\ sent = {}
    /\ dropped = {}
    /\ handed = {}
    /\ errors = 0

-----------------------------------------------------------------------------
(* What may be shared. *)

getScenarioTrustOfAlert(a) ==
    IF a.manual THEN "manual"
    ELSE IF a.hash = "" THEN "custom"
    ELSE IF a.version \in {"", "?"} THEN "tainted"
    ELSE "certified"

shouldShareAlert(n) ==
    LET a     == Alert[n]
        trust == getScenarioTrustOfAlert(a)
    IN  /\ Config.share
        /\ ~a.simulated
        /\ trust = "manual" => Config.manual
        /\ trust = "tainted" => Config.tainted
        /\ trust = "custom" => Config.custom

Shareable(k, n) == IF k = "signal" THEN shouldShareAlert(n) ELSE Config.manual

-----------------------------------------------------------------------------
(* The two forwarders, Push and SyncDecisions. *)

Listens(k) == at[k] = "select"

(* A sender and a forwarder meet on the channel. *)
Receive(k, items) ==
    /\ Listens(k)
    /\ at' = [at EXCEPT ![k] = "append"]
    /\ hand' = [hand EXCEPT ![k] = items]
    /\ handed' = handed \cup {a \in Range(items) : Shareable(k, a)}

Append1(k) ==
    /\ at[k] = "append"
    /\ cache' = [cache EXCEPT ![k] = @ \o SelectSeq(hand[k], LAMBDA a : Shareable(k, a))]
    /\ hand' = [hand EXCEPT ![k] = <<>>]
    /\ at' = [at EXCEPT ![k] = "select"]
    /\ UNCHANGED <<pc, pull, dying, senders, phase, sent, dropped, handed, errors>>

Tick(k) ==
    /\ at[k] = "select"
    /\ cache[k] # <<>>
    /\ at' = [at EXCEPT ![k] = "flush"]
    /\ UNCHANGED <<pc, pull, hand, cache, dying, senders, phase, sent, dropped, handed, errors>>

Spawn(k, items) == senders' = senders \cup {[kind |-> k, items |-> items]}

Flush(k) ==
    /\ at[k] = "flush"
    /\ Spawn(k, cache[k])
    /\ cache' = [cache EXCEPT ![k] = <<>>]
    /\ at' = [at EXCEPT ![k] = "select"]
    /\ UNCHANGED <<pc, pull, hand, dying, phase, sent, dropped, handed, errors>>

(* The last cache goes to a goroutine as well. *)
Die(k) ==
    /\ at[k] = "select"
    /\ dying
    /\ IF cache[k] = <<>> THEN UNCHANGED senders ELSE Spawn(k, cache[k])
    /\ cache' = [cache EXCEPT ![k] = <<>>]
    /\ at' = [at EXCEPT ![k] = "gone"]
    /\ UNCHANGED <<pc, pull, hand, dying, phase, sent, dropped, handed, errors>>

Forwarder(k) == Append1(k) \/ Tick(k) \/ Flush(k) \/ Die(k)

-----------------------------------------------------------------------------
(* Send and SendDeletedDecisions. *)

Batch(items) == SubSeq(items, 1, IF Len(items) < BatchSize THEN Len(items) ELSE BatchSize)

Rest(items) == SubSeq(items, BatchSize + 1, Len(items))

Continue(s, items) ==
    senders' = (senders \ {s}) \cup (IF items = <<>> THEN {} ELSE {[s EXCEPT !.items = items]})

SendBatch(s) ==
    /\ sent' = sent \cup Range(Batch(s.items))
    /\ Continue(s, Rest(s.items))
    /\ UNCHANGED <<pc, pull, at, hand, cache, dying, phase, dropped, handed, errors>>

(* An error, or no answer in five seconds, whether or not the batch arrived. *)
SendFails(s) ==
    /\ errors < MaxErrors
    /\ errors' = errors + 1
    /\ sent' \in {sent, sent \cup Range(Batch(s.items))}
    /\ dropped' = dropped \cup (Range(s.items) \ sent')
    /\ Continue(s, <<>>)
    /\ UNCHANGED <<pc, pull, at, hand, cache, dying, phase, handed>>

-----------------------------------------------------------------------------
(* API handlers. *)

Begin(h) ==
    /\ pc[h] = "idle"
    /\ phase \in {"serving", "closing"}
    /\ pc' = [pc EXCEPT ![h] = "db"]
    /\ UNCHANGED <<pull, at, hand, cache, dying, senders, phase, sent, dropped, handed, errors>>

Stores(h) ==
    /\ pc[h] = "db"
    /\ \/ phase = "serving" /\ pc' = [pc EXCEPT ![h] = "offer"] /\ UNCHANGED errors
       \/ phase # "serving" /\ pc' = [pc EXCEPT ![h] = "done"] /\ UNCHANGED errors
       \/ errors < MaxErrors /\ errors' = errors + 1 /\ pc' = [pc EXCEPT ![h] = "done"]
    /\ UNCHANGED <<pull, at, hand, cache, dying, senders, phase, sent, dropped, handed>>

(* A Push that is not at its select does not get the alerts. *)
OfferAlert(h) ==
    /\ pc[h] = "offer"
    /\ Kind[h] = "signal"
    /\ IF Listens("signal") THEN Receive("signal", Items[h])
                            ELSE UNCHANGED <<at, hand, handed>>
    /\ pc' = [pc EXCEPT ![h] = "done"]
    /\ UNCHANGED <<pull, cache, dying, senders, phase, sent, dropped, errors>>

OfferDeleted(h) ==
    /\ pc[h] = "offer"
    /\ Kind[h] = "delete"
    /\ Receive("delete", Items[h])
    /\ pc' = [pc EXCEPT ![h] = "done"]
    /\ UNCHANGED <<pull, cache, dying, senders, phase, sent, dropped, errors>>

Handle(h) == Stores(h) \/ OfferAlert(h) \/ OfferDeleted(h)

-----------------------------------------------------------------------------
(* PAPI orders, handled one at a time. *)

(* The order reaches the database, or fails and is left at that. *)
PullOrder ==
    /\ pull.at = "idle"
    /\ pull.n <= Len(Orders)
    /\ \/ /\ phase = "serving"
          /\ pull' = [pull EXCEPT !.at = "offer"]
          /\ UNCHANGED errors
       \/ /\ phase # "serving" \/ errors < MaxErrors
          /\ errors' = IF phase = "serving" THEN errors + 1 ELSE errors
          /\ pull' = [pull EXCEPT !.n = @ + 1]
    /\ UNCHANGED <<pc, at, hand, cache, dying, senders, phase, sent, dropped, handed>>

OrderOffers ==
    /\ pull.at = "offer"
    /\ LET o == Orders[pull.n] IN Receive(Kind[o], Items[o])
    /\ pull' = [at |-> "idle", n |-> pull.n + 1]
    /\ UNCHANGED <<pc, cache, dying, senders, phase, sent, dropped, errors>>

-----------------------------------------------------------------------------
(* APIServer.Shutdown: Close, httpServer.Shutdown, the end.  After SIGHUP    *)
(* the process goes on with another server, after SIGTERM it exits.          *)

Close ==
    /\ phase = "serving"
    /\ phase' = "closing"
    /\ dying' = TRUE
    /\ UNCHANGED <<pc, pull, at, hand, cache, senders, sent, dropped, handed, errors>>

Running(h) == pc[h] \in {"db", "offer"}

Drain ==
    /\ \/ phase = "closing" /\ phase' = "draining"
       \/ phase = "draining" /\ (\A h \in Handlers : ~Running(h)) /\ phase' = "down"
    /\ UNCHANGED <<pc, pull, at, hand, cache, dying, senders, sent, dropped, handed, errors>>

Exit ==
    /\ phase = "down"
    /\ phase' = "gone"
    /\ UNCHANGED <<pc, pull, at, hand, cache, dying, senders, sent, dropped, handed, errors>>

-----------------------------------------------------------------------------
Alive == phase # "gone"

Next ==
    \/ \E k \in Kinds : Alive /\ Forwarder(k)
    \/ \E s \in senders : Alive /\ (SendBatch(s) \/ SendFails(s))
    \/ \E h \in Handlers : Begin(h) \/ Handle(h)
    \/ Alive /\ (PullOrder \/ OrderOffers)
    \/ Close \/ Drain \/ Exit

Spec == Init /\ [][Next]_vars

Sending == \E s \in senders : Alive /\ (SendBatch(s) \/ SendFails(s))

(* Goroutines run, tickers tick, every call to the central API ends within   *)
(* its five seconds, and of the senders waiting on a channel each is served   *)
(* in its turn.                                                               *)
FairSpec ==
    /\ Spec
    /\ \A k \in Kinds :
         WF_vars(Alive /\ (Append1(k) \/ Flush(k))) /\ SF_vars(Alive /\ Tick(k))
           /\ SF_vars(Alive /\ Die(k))
    /\ WF_vars(Sending)
    /\ \A h \in Handlers : WF_vars(Stores(h)) /\ WF_vars(OfferAlert(h)) /\ SF_vars(OfferDeleted(h))
    /\ SF_vars(Alive /\ OrderOffers)
    /\ WF_vars(Drain)

-----------------------------------------------------------------------------
(* Every variable has its type, and a routine that is gone has nothing left. *)
TypeOK ==
    /\ PushAssumption
    /\ pc \in [Handlers -> {"idle", "db", "offer", "done"}]
    /\ pull \in [at : {"idle", "offer"}, n : 1..Len(Orders) + 1]
    /\ at \in [Kinds -> {"select", "append", "flush", "gone"}]
    /\ phase \in {"serving", "closing", "draining", "down", "gone"}
    /\ \A k \in Kinds : at[k] = "gone" => dying /\ cache[k] = <<>> /\ hand[k] = <<>>
    /\ handed \subseteq AllItems

(* In how many places an item is: received, cached, being sent, arrived or   *)
(* given up.                                                                 *)
Places(a) ==
    Cardinality({k \in Kinds : a \in Range(hand[k])})
      + Cardinality({k \in Kinds : a \in Range(cache[k])})
      + Cardinality({s \in senders : a \in Range(s.items)})
      + Cardinality({a} \cap sent)
      + Cardinality({a} \cap dropped)

(* What may be shared and was received is in exactly one place: it is never   *)
(* sent twice, although the cache is handed over while alerts arrive and      *)
(* several goroutines send at once, and it is lost only with the process or   *)
(* with a Send that failed.                                                   *)
InOnePlace ==
    \A a \in handed : /\ Places(a) = 1
                      /\ \A k \in Kinds : Len(cache[k]) = Cardinality(Range(cache[k]))

(* A request that creates an alert is answered, whatever Push is doing and     *)
(* even when it is gone.                                                       *)
CreateReturns == \A h \in Handlers : Kind[h] = "signal" /\ Running(h) ~> pc[h] = "done"

(* While the server runs, requests that delete decisions and PAPI orders find  *)
(* a receiver, also when nothing may be shared and the central API fails.      *)
OfferedIsTaken ==
    /\ \A h \in Handlers : Running(h) ~> pc[h] = "done" \/ phase # "serving"
    /\ pull.at = "offer" ~> pull.at = "idle" \/ phase # "serving"

(* What was received is sent or given up in the end, unless the process        *)
(* exits: the tick and the shutdown leave nothing behind.                      *)
Forwarded == \A a \in AllItems : a \in handed ~> a \in sent \cup dropped \/ phase = "gone"

-----------------------------------------------------------------------------
(* What the repository says and the code does not keep: TLC finds a        *)
(* behaviour against each of these, which the README describes.            *)

(* Push logs "push tomb is dying, sending cache before exiting": the process   *)
(* does not exit with signals that were not tried.                             *)
SentBeforeExiting == phase = "gone" => handed \subseteq sent \cup dropped

(* Send: a routine that hangs means that the handlers that write to its        *)
(* channel hang, "blocking API worker(s)", "so instead, we prefer to cancel    *)
(* write": every API worker is done with its channel in the end.               *)
WorkersReturn == \A h \in Handlers : Running(h) ~> pc[h] = "done"
=============================================================================
