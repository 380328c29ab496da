----------------------------- MODULE MCSignalPush -----------------------------
(* Instances of SignalPush for TLC. *)
EXTENDS SignalPush

Certified == [manual |-> FALSE, hash |-> "h", version |-> "1.0", simulated |-> FALSE]

MCOrders  == <<"o1", "o2">>
MCSignal  == <<"o1">>
MCDeleted == <<"o2">>

MCKind == [s \in Sources |-> IF s \in {"delete1", "o2"} THEN "delete" ELSE "signal"]

MCItems ==
    [s \in Sources |->
       CASE s = "create1" -> <<1, 2, 3, 4, 5>>
         [] s = "create2" -> <<6>>
         [] s = "o1" -> <<7>>
         [] s = "delete1" -> <<8>>
         [] s = "o2" -> <<9>>]

(* Of the first request's alerts the tainted and the simulated one stay; the *)
(* order's alert has no hash.                                                *)
MCAlert ==
    [n \in 1..7 |->
       CASE n = 2 -> [Certified EXCEPT !.version = "?"]
         [] n = 3 -> [Certified EXCEPT !.simulated = TRUE]
         [] n = 4 -> [Certified EXCEPT !.manual = TRUE]
         [] n = 7 -> [Certified EXCEPT !.hash = ""]
         [] OTHER -> Certified]

MCAll     == [share |-> TRUE, manual |-> TRUE, tainted |-> FALSE, custom |-> TRUE]
=============================================================================
