-------------------------- MODULE MCApplyPipeline --------------------------
(* Small instances of the pipeline under any dispatcher: one row worked on *)
(* by one or two sessions.                                                 *)
EXTENDS ApplyPipeline, TLC

CONSTANTS a1, s1, s2, t1, posting

OneApp      == {a1}
OneJobOf    == [a \in OneApp |-> posting]
MCLegacy    == {a1}
OneSession  == {s1}
TwoSessions == {s1, s2}
OneTab      == {t1}
AnyStatus   == {"withdrawn", "queued", "applied"}
RerunStatus == {"queued"}

Symmetric == Permutations(TwoSessions)
=============================================================================
