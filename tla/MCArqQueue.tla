----------------------------- MODULE MCArqQueue -----------------------------
(* Small instances of the pipeline behind arq.                             *)
EXTENDS ArqQueue, TLC

CONSTANTS a1, s1, s2, t1, h1, h2, posting

OneApp      == {a1}
OneJobOf    == [a \in OneApp |-> posting]
OneSlot     == {s1}
TwoSlots    == {s1, s2}
OneTab      == {t1}
TwoHolds    == {h1, h2}
RerunStatus == {"withdrawn", "queued"}
=============================================================================
