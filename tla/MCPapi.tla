------------------------------- MODULE MCPapi -------------------------------
(* Instances of Papi for TLC. *)
EXTENDS Papi

Add(U)    == [op |-> "add", uuids |-> U]
Delete(U) == [op |-> "delete", uuids |-> U]

MCMixed   == <<Add({1, 2}), Delete({1}), [op |-> "other", uuids |-> {}]>>
MCPair    == <<Add({1, 2}), Delete({1})>>
MCAlert   == <<Add({1, 2})>>
=============================================================================
