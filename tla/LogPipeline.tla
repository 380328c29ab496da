------------------------------ MODULE LogPipeline ------------------------------
(***************************************************************************)
(* The agent from its data sources to its buckets, and how it is shut      *)
(* down (pkg/acquisition/acquisition.go, cmd/crowdsec/parse.go, serve.go   *)
(* and crowdsec.go): sources write lines to logLines, some of them through *)
(* a transformer; parser routines turn lines into events on inEvents,      *)
(* which the pour routine reads.  The goroutines of the acquisition share  *)
(* acquisTomb, the parser and pour routines a context.                     *)
(*                                                                         *)
(* No channel has a buffer: a send and its receive are one step.  Lines    *)
(* and events are counted per source.  What the buckets and the output     *)
(* routines do is in LeakyBuckets and AlertOutput.                         *)
(***************************************************************************)
EXTENDS Integers, FiniteSets

CONSTANTS
    Sources,
    Mode,        \* "cat": read to the end; "tail": followed; "stream": restarted
    Transforms,  \* the sources with a transform expression
    Parsers,     \* parser routines
    Lines,       \* bound on the lines of a source
    Quick,       \* whether a source may end before the next one is started
    MaxErrors, MaxRestarts, MaxSignals    \* bounds

\* What the constants must satisfy.
PipelineAssumption ==
    /\ Sources # {}
    /\ Mode \in [Sources -> {"cat", "tail", "stream"}]
    /\ Transforms \subseteq Sources
    /\ Quick \in BOOLEAN

VARIABLES
    src,         \* of each source: unborn, start, read, send, backoff or end
    left,        \* lines it has not read yet
    tr,          \* of each transformer: off, select, send or end
    copies,      \* events it still has to send for its line
    closed,      \* sources whose transformChan is closed
    dying, failed,    \* acquisTomb is killed; it has an error for a reason
    par,         \* of each parser routine: select, parse, send, out or end
    pour,        \* the pour routine: select, busy or end
    cancelled,   \* the context of the parser and pour routines
    stage,       \* of the shutdown
    signals, errors, restarts,
    made,        \* observer: events made of each source's lines
    got,         \* observer: events of each source that left logLines
    thrown       \* observer: events that drainChan took

acq   == <<src, left, tr, copies, closed, dying, failed>>
rest  == <<par, pour, cancelled>>
count == <<signals, errors, restarts>>
seen  == <<made, got, thrown>>
vars  == <<acq, rest, stage, count, seen>>

Init ==
    /\ src = [s \in Sources |-> "unborn"]
    /\ left = [s \in Sources |-> Lines]
    /\ tr = [s \in Sources |-> "off"]
    /\ copies = [s \in Sources |-> 0]
    /\ closed = {}
    /\ dying = FALSE
    /\ failed = FALSE
    /\ par = [p \in Parsers |-> "select"]
    /\ pour = "select"
    /\ cancelled = FALSE
    /\ stage = "wait"
    /\ signals = 0
    /\ errors = 0
    /\ restarts = 0
    /\ made = [s \in Sources |-> 0]
    /\ got = [s \in Sources |-> 0]
    /\ thrown = 0

-----------------------------------------------------------------------------
(* The data sources. *)

Born == {s \in Sources : src[s] # "unborn"}

(* acquisTomb is dead when its last goroutine has returned. *)
Dead == Born # {} /\ \A s \in Born : src[s] = "end" /\ tr[s] \in {"off", "end"}

(* StartAcquisition's loop: Go panics on a tomb that is dead already. *)
Spawn(s) ==
    /\ src[s] = "unborn"
    /\ IF Dead
         THEN stage' = "panic" /\ UNCHANGED src
         ELSE src' = [src EXCEPT ![s] = "start"] /\ UNCHANGED stage
    /\ UNCHANGED <<left, tr, copies, closed, dying, failed, rest, count, seen>>

(* After acquireSource: the transformer's channel is closed in cat mode. *)
Closes(s) ==
    closed' = IF Mode[s] = "cat" THEN closed \cup ({s} \cap Transforms) ELSE closed

(* The goroutine of a source.  acquireSource returns at once for a tail or a *)
(* stream, which goes on in a goroutine of its own.                          *)
Start(s) ==
    /\ src[s] = "start"
    /\ src' = [src EXCEPT ![s] = "read"]
    /\ tr' = [tr EXCEPT ![s] = IF s \in Transforms THEN "select" ELSE "off"]
    /\ IF Mode[s] = "cat" THEN UNCHANGED closed ELSE Closes(s)
    /\ UNCHANGED <<left, copies, dying, failed, rest, stage, count, seen>>

Read(s) ==
    /\ src[s] = "read"
    /\ left[s] > 0
    /\ left' = [left EXCEPT ![s] = @ - 1]
    /\ src' = [src EXCEPT ![s] = "send"]
    /\ made' = [made EXCEPT ![s] = IF s \in Transforms THEN @ ELSE @ + 1]
    /\ UNCHANGED <<tr, copies, closed, dying, failed, rest, stage, count, got, thrown>>

Kills(bad) == dying' = (dying \/ bad) /\ failed' = (failed \/ bad)

(* A source ends when it has read everything (cat), when the tomb is dying,   *)
(* or with an error, which kills the tomb.                                    *)
EndOf(s, bad) ==
    /\ Quick \/ Born = Sources
    /\ src' = [src EXCEPT ![s] = "end"]
    /\ IF Mode[s] = "cat" THEN Closes(s) ELSE UNCHANGED closed
    /\ Kills(bad)
    /\ UNCHANGED <<left, tr, copies, rest, stage, signals, restarts, seen>>

Finish(s) ==
    /\ src[s] \in {"read", "backoff"}
    /\ \/ dying
       \/ Mode[s] = "cat" /\ left[s] = 0
    /\ EndOf(s, FALSE)
    /\ UNCHANGED errors

Fail(s) ==
    /\ src[s] = "read"
    /\ Mode[s] # "stream"
    /\ errors < MaxErrors
    /\ errors' = errors + 1
    /\ EndOf(s, TRUE)

(* Stream returned, with an error or not: it is called again after a while. *)
StreamReturns(s) ==
    /\ src[s] = "read"
    /\ Mode[s] = "stream"
    /\ ~dying
    /\ restarts < MaxRestarts
    /\ restarts' = restarts + 1
    /\ src' = [src EXCEPT ![s] = "backoff"]
    /\ UNCHANGED <<left, tr, copies, closed, dying, failed, rest, stage, signals, errors, seen>>

Restart(s) ==
    /\ src[s] = "backoff"
    /\ src' = [src EXCEPT ![s] = "read"]
    /\ UNCHANGED <<left, tr, copies, closed, dying, failed, rest, stage, count, seen>>

-----------------------------------------------------------------------------
(* The transformer of a source. *)

(* An expression gives a string, a list, or something else that leaves the    *)
(* event as it is.                                                            *)
Outcomes == {0, 1, 2}

TransformTakes(s) ==
    /\ src[s] = "send"
    /\ tr[s] = "select"
    /\ src' = [src EXCEPT ![s] = "read"]
    /\ \E n \in Outcomes :
         /\ copies' = [copies EXCEPT ![s] = n]
         /\ made' = [made EXCEPT ![s] = @ + n]
         /\ tr' = [tr EXCEPT ![s] = IF n = 0 THEN "select" ELSE "send"]
    /\ UNCHANGED <<left, closed, dying, failed, rest, stage, count, got, thrown>>

TransformEnds(s) ==
    /\ tr[s] = "select"
    /\ dying \/ s \in closed
    /\ tr' = [tr EXCEPT ![s] = "end"]
    /\ UNCHANGED <<src, left, copies, closed, dying, failed, rest, stage, count, seen>>

-----------------------------------------------------------------------------
(* logLines: who offers an event, and what a receive does to it. *)

Offers(s) == IF s \in Transforms THEN tr[s] = "send" ELSE src[s] = "send"

Taken(s) ==
    /\ IF s \in Transforms
         THEN /\ copies' = [copies EXCEPT ![s] = @ - 1]
              /\ tr' = [tr EXCEPT ![s] = IF copies[s] = 1 THEN "select" ELSE "send"]
              /\ UNCHANGED src
         ELSE src' = [src EXCEPT ![s] = "read"] /\ UNCHANGED <<tr, copies>>
    /\ got' = [got EXCEPT ![s] = @ + 1]

-----------------------------------------------------------------------------
(* The parser routines and the pour routine. *)

Receive(p) ==
    /\ par[p] = "select"
    /\ \E s \in Sources : Offers(s) /\ Taken(s)
    /\ par' = [par EXCEPT ![p] = "parse"]
    /\ UNCHANGED <<left, closed, dying, failed, pour, cancelled, stage, count, made, thrown>>

(* parseEvent: an event is discarded, goes on to the buckets or, the ones of *)
(* the application security engine, straight to the outputs.                 *)
Parse(p) ==
    /\ par[p] = "parse"
    /\ \E to \in {"select", "send", "out"} : par' = [par EXCEPT ![p] = to]
    /\ UNCHANGED <<acq, pour, cancelled, stage, count, seen>>

(* An output routine takes it, as long as there are some. *)
HandOut(p) ==
    /\ par[p] = "out"
    /\ stage \notin {"wait routines", "done"}
    /\ par' = [par EXCEPT ![p] = "select"]
    /\ UNCHANGED <<acq, pour, cancelled, stage, count, seen>>

Hand(p) ==
    /\ par[p] = "send"
    /\ pour = "select"
    /\ par' = [par EXCEPT ![p] = "select"]
    /\ pour' = "busy"
    /\ UNCHANGED <<acq, cancelled, stage, count, seen>>

ParserEnds(p) ==
    /\ par[p] = "select"
    /\ cancelled
    /\ par' = [par EXCEPT ![p] = "end"]
    /\ UNCHANGED <<acq, pour, cancelled, stage, count, seen>>

Pour ==
    /\ \/ pour = "busy" /\ pour' = "select"
       \/ pour = "select" /\ cancelled /\ pour' = "end"
    /\ UNCHANGED <<acq, par, cancelled, stage, count, seen>>

-----------------------------------------------------------------------------
(* The agent's goroutine: waitOnTomb and ShutdownCrowdsecRoutines. *)

Signal ==
    /\ signals < MaxSignals
    /\ stage = "wait"
    /\ signals' = signals + 1
    /\ UNCHANGED <<acq, rest, stage, errors, restarts, seen>>

(* crowdsecTomb is dying or the acquisition is over; acquisTomb is killed. *)
waitOnTomb ==
    /\ stage = "wait"
    /\ signals > 0 \/ Dead
    /\ dying' = TRUE
    /\ stage' = "drain lines"
    /\ UNCHANGED <<src, left, tr, copies, closed, failed, rest, count, seen>>

DrainLines ==
    /\ stage = "drain lines"
    /\ IF \E s \in Sources : Offers(s)
         THEN /\ \E s \in Sources : Offers(s) /\ Taken(s)
              /\ thrown' = thrown + 1
              /\ UNCHANGED stage
         ELSE stage' = "wait acquis" /\ UNCHANGED <<src, tr, copies, got, thrown>>
    /\ UNCHANGED <<left, closed, dying, failed, rest, count, made>>

AcquisIsDead ==
    /\ stage = "wait acquis"
    /\ Dead
    /\ stage' = "drain events"
    /\ UNCHANGED <<acq, rest, count, seen>>

DrainEvents ==
    /\ stage = "drain events"
    /\ IF \E p \in Parsers : par[p] = "send"
         THEN /\ \E p \in Parsers : par[p] = "send" /\ par' = [par EXCEPT ![p] = "select"]
              /\ thrown' = thrown + 1
              /\ UNCHANGED stage
         ELSE stage' = "outputs" /\ UNCHANGED <<par, thrown>>
    /\ UNCHANGED <<acq, pour, cancelled, count, made, got>>

(* The outputs end or three seconds pass; cancel(). *)
Cancels ==
    /\ stage = "outputs"
    /\ cancelled' = TRUE
    /\ stage' = "wait routines"
    /\ UNCHANGED <<acq, par, pour, count, seen>>

(* waitErrGroup: they end or three seconds pass. *)
Done ==
    /\ stage = "wait routines"
    /\ stage' = "done"
    /\ UNCHANGED <<acq, rest, count, seen>>

Shutdown == waitOnTomb \/ DrainLines \/ AcquisIsDead \/ DrainEvents \/ Cancels \/ Done

(* StartAcquisition has waited for the tomb too; its error ends the process. *)
Fatal ==
    /\ Dead
    /\ failed
    /\ stage' = "fatal"
    /\ UNCHANGED <<acq, rest, count, seen>>

-----------------------------------------------------------------------------
Up == stage \notin {"fatal", "panic"}

Source(s) == Spawn(s) \/ Start(s) \/ Read(s) \/ Finish(s) \/ Fail(s) \/ StreamReturns(s) \/ Restart(s)

Routine(p) == Receive(p) \/ Parse(p) \/ Hand(p) \/ HandOut(p)

Next ==
    /\ Up
    /\ \/ \E s \in Sources : Source(s) \/ TransformTakes(s) \/ TransformEnds(s)
       \/ \E p \in Parsers : Routine(p) \/ ParserEnds(p)
       \/ Pour \/ Signal \/ Shutdown \/ Fatal

Spec == Init /\ [][Next]_vars

(* Goroutines run: sources reach the end of their lines or notice the tomb,   *)
(* a pour comes to its end, a backoff passes.                                 *)
FairSpec ==
    /\ Spec
    /\ \A s \in Sources : /\ WF_vars(Up /\ (Spawn(s) \/ Start(s) \/ Read(s) \/ Finish(s)))
                          /\ WF_vars(Up /\ Restart(s))
                          /\ WF_vars(Up /\ TransformTakes(s))
                          /\ WF_vars(Up /\ TransformEnds(s))
    /\ \A p \in Parsers : WF_vars(Up /\ Routine(p))
    /\ WF_vars(Up /\ Pour) /\ WF_vars(Up /\ Shutdown)

-----------------------------------------------------------------------------
(* Every variable has its type; a transformer has something to send exactly  *)
(* when it sends.                                                            *)
TypeOK ==
    /\ PipelineAssumption
    /\ src \in [Sources -> {"unborn", "start", "read", "send", "backoff", "end"}]
    /\ left \in [Sources -> 0..Lines]
    /\ tr \in [Sources -> {"off", "select", "send", "end"}]
    /\ \A s \in Sources : copies[s] \in 0..2 /\ (copies[s] > 0 <=> tr[s] = "send")
    /\ closed \subseteq Transforms
    /\ par \in [Parsers -> {"select", "parse", "send", "out", "end"}]
    /\ pour \in {"select", "busy", "end"}
    /\ stage \in {"wait", "drain lines", "wait acquis", "drain events", "outputs",
                  "wait routines", "done", "fatal", "panic"}
    /\ failed => dying

(* Nothing is ever sent to a transformer whose channel is closed, which would  *)
(* panic: tails go on writing after acquireSource has returned.                *)
NoSendOnClosed == \A s \in closed : src[s] # "send"

(* When nobody stopped the agent and no source failed, the end of the          *)
(* acquisition means that every line was read and every event made of it left  *)
(* for the parsers: transformers are drained, sources do not end each other.   *)
ReadToTheEnd ==
    stage # "wait" /\ signals = 0 /\ ~failed
      => \A s \in Sources : left[s] = 0 /\ got[s] = made[s]

(* Sources without transformers: once the tomb is killed they all end,         *)
(* although each may be blocked on a send to parsers that wait for a pour, and *)
(* the agent is shut down.                                                     *)
ShutdownEnds == dying ~> stage \in {"done", "fatal"}

(* A stream that returned is started again unless the acquisition stops. *)
StreamsRestart == \A s \in Sources : src[s] = "backoff" ~> src[s] = "read" \/ dying

(* Cat mode: the agent comes to its end by itself, with transformers or not. *)
CatEnds == <>(stage = "done")

-----------------------------------------------------------------------------
(* What the repository says and the code does not keep: TLC finds a        *)
(* behaviour against each of these, which the README describes.            *)

(* StartAcquisition: "if one of the acquisitions returns an error, we kill the *)
(* others to properly shutdown": the acquisition ends ...                      *)
ErrorEndsAcquisition == failed ~> Dead

(* ... and the agent goes through its shutdown.                                *)
ErrorShutsDown == stage # "fatal"

(* waitOnTomb: at the end of cat mode "we need to give time for all buckets to *)
(* process in flight data".                                                    *)
InFlightIsPoured == signals = 0 /\ ~failed => thrown = 0

(* StartAcquisition: "the tomb can then die on its own, which is what signals  *)
(* the end of a cat run": it does not while a source is to be started.         *)
DeadWhenDone == Dead => Born = Sources
=============================================================================
