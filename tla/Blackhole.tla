------------------------------- MODULE Blackhole -------------------------------
(***************************************************************************)
(* The blackhole of a scenario (pkg/leakybucket/blackhole.go): once a      *)
(* bucket has overflowed, overflows of the same key are discarded for a    *)
(* while.  hiddenKeys belongs to the processor of the factory: the leak    *)
(* routines of all buckets of the scenario run OnBucketOverflow on it, and *)
(* nothing serialises them.  Each read and write of hiddenKeys is a step;  *)
(* a slice is taken to be read and written as a whole.                     *)
(***************************************************************************)
EXTENDS Integers, Sequences, SequencesExt

CONSTANTS
    Routines,    \* leak routines that may run their hooks at the same time
    Keys,
    Duration,
    Filters,     \* whether the scenario has an overflow_filter
    MaxTime, MaxOverflows    \* bounds

\* What the constants must satisfy.
BlackholeAssumption ==
    /\ Duration \in Nat \ {0}
    /\ Filters \in BOOLEAN

VARIABLES
    now,
    hiddenKeys,  \* sequence of [key, expiration]
    at,          \* of each routine: idle, filter, scan, refresh, load or store
    key, ts,     \* the bucket's Mapkey and Ovflw_ts
    tmp,         \* what the routine has read
    blackholed,
    overflows,
    alerts,      \* observer: overflows that were let through, [key, ts]
    voided       \* observer: overflows the blackhole discarded

vars == <<now, hiddenKeys, at, key, ts, tmp, blackholed, overflows, alerts, voided>>
local == <<key, ts, tmp, blackholed>>

Init ==
    /\ now = 0
    /\ hiddenKeys = <<>>
    /\ at = [r \in Routines |-> "idle"]
    /\ key \in [Routines -> {CHOOSE k \in Keys : TRUE}]
    /\ ts = [r \in Routines |-> 0]
    /\ tmp = [r \in Routines |-> <<>>]
    /\ blackholed = [r \in Routines |-> FALSE]
    /\ overflows = 0
    /\ alerts = {}
    /\ voided = {}

Clock ==
    /\ now < MaxTime
    /\ now' = now + 1
    /\ UNCHANGED <<hiddenKeys, at, local, overflows, alerts, voided>>

Goto(r, l) == at' = [at EXCEPT ![r] = l]

(* A bucket overflows: Ovflw_ts is set, the hooks run some time later. *)
Overflow(r, k) ==
    /\ at[r] = "idle"
    /\ overflows < MaxOverflows
    /\ overflows' = overflows + 1
    /\ key' = [key EXCEPT ![r] = k]
    /\ ts' = [ts EXCEPT ![r] = now]
    /\ Goto(r, IF Filters THEN "filter" ELSE "scan")
    /\ UNCHANGED <<now, hiddenKeys, tmp, blackholed, alerts, voided>>

(* The overflow_filter comes first; what it discards goes no further. *)
Filter(r) ==
    /\ at[r] = "filter"
    /\ Goto(r, "idle") \/ Goto(r, "scan")
    /\ UNCHANGED <<now, hiddenKeys, local, overflows, alerts, voided>>

Hides(e, t) == e.expiration > t

Kept(r) == SelectSeq(hiddenKeys, LAMBDA e : Hides(e, ts[r]))

Scan(r) ==
    /\ at[r] = "scan"
    /\ tmp' = [tmp EXCEPT ![r] = Kept(r)]
    /\ blackholed' = [blackholed EXCEPT ![r] = \E e \in ToSet(Kept(r)) : e.key = key[r]]
    /\ Goto(r, "refresh")
    /\ UNCHANGED <<now, hiddenKeys, key, ts, overflows, alerts, voided>>

Refresh(r) ==
    /\ at[r] = "refresh"
    /\ hiddenKeys' = tmp[r]
    /\ voided' = IF blackholed[r] THEN voided \cup {[key |-> key[r], ts |-> ts[r]]} ELSE voided
    /\ Goto(r, IF blackholed[r] THEN "idle" ELSE "load")
    /\ UNCHANGED <<now, local, overflows, alerts>>

(* append reads hiddenKeys once more and writes it. *)
Load(r) ==
    /\ at[r] = "load"
    /\ tmp' = [tmp EXCEPT ![r] = hiddenKeys]
    /\ Goto(r, "store")
    /\ UNCHANGED <<now, hiddenKeys, key, ts, blackholed, overflows, alerts, voided>>

Store(r) ==
    /\ at[r] = "store"
    /\ hiddenKeys' = Append(tmp[r], [key |-> key[r], expiration |-> ts[r] + Duration])
    /\ alerts' = alerts \cup {[key |-> key[r], ts |-> ts[r]]}
    /\ Goto(r, "idle")
    /\ UNCHANGED <<now, local, overflows, voided>>

Next ==
    \/ Clock
    \/ \E r \in Routines :
         \/ \E k \in Keys : Overflow(r, k)
         \/ Filter(r) \/ Scan(r) \/ Refresh(r) \/ Load(r) \/ Store(r)

Spec == Init /\ [][Next]_vars

-----------------------------------------------------------------------------
(* Every variable has its type; an overflow adds at most one entry to          *)
(* hiddenKeys, also when routines overwrite each other's.                      *)
TypeOK ==
    /\ BlackholeAssumption
    /\ \A i \in 1..Len(hiddenKeys) : hiddenKeys[i].key \in Keys /\ hiddenKeys[i].expiration \in Nat
    /\ at \in [Routines -> {"idle", "filter", "scan", "refresh", "load", "store"}]
    /\ Len(hiddenKeys) <= overflows

(* Whatever the interleaving, an overflow is discarded only if the same key    *)
(* raised an alert less than Duration ago: lost updates never hide a key that  *)
(* did not alert, and neither does an overflow that the filter dropped.        *)
VoidedForAReason ==
    \A v \in voided : \E a \in alerts : a.key = v.key /\ v.ts - a.ts < Duration

-----------------------------------------------------------------------------
(* What the repository says and the code does not keep: TLC finds a        *)
(* behaviour against each of these, which the README describes.            *)

(* The blackhole "will prevent same bucket partition to overflow more often    *)
(* than $duration" (BucketSpec): alerts of a key are Duration apart.           *)
SpacedAlerts ==
    \A a, b \in alerts : a.key = b.key /\ a.ts < b.ts => b.ts - a.ts >= Duration
=============================================================================
