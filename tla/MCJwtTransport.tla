---------------------------- MODULE MCJwtTransport ----------------------------
(* Instances of JwtTransport for TLC. *)
EXTENDS JwtTransport, TLC

MCConfigured == [c \in Codes |-> IF c \in Denials THEN 2 ELSE 5]
MCShort      == [c \in Codes |-> 1]
=============================================================================
