---------------------------- MODULE MCAlertOutput ----------------------------
(***************************************************************************)
(* A small instance of AlertOutput for TLC.                                *)
(***************************************************************************)
EXTENDS AlertOutput, TLC

CONSTANTS a1, a2, s1, s2, p1, p2

TwoAlerts == {a1, a2}
SourcesOf == (a1 :> {s1}) @@ (a2 :> {s2})

\* The first alert matches two profiles unless it is on an allowlist; the
\* second matches none and may be without a valid decision.
MayBeListed == {<<a1, s1>>}
MayBeInvalid == {<<a2, s2>>}
MatchesOf == {<<<<a1, s1>>, p1>>, <<<<a1, s1>>, p2>>}
=============================================================================
