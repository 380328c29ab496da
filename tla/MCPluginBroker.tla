--------------------------- MODULE MCPluginBroker ---------------------------
(* Instances of PluginBroker for TLC. *)
EXTENDS PluginBroker, TLC
\* Plugin "plain" has no grouping, "timed" groups by time, "bulk" by number.
MCRoute == [a \in Alerts |-> IF a = 1 THEN <<"bulk">> ELSE <<"timed", "bulk">>]
MCRoutePlain == [a \in Alerts |-> IF a = 1 THEN <<"plain">> ELSE <<"plain", "timed">>]
MCThreshold == [p \in Plugins |-> IF p = "bulk" THEN 2 ELSE 0]
=============================================================================
