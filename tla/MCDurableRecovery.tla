--------------------------- MODULE MCDurableRecovery ---------------------------
(* Two change sets that share a file: one may be made, and rolled back, on top *)
(* of the other.                                                                *)
EXTENDS DurableRecovery, TLC

CONSTANTS c1, c2, f1, f2

Overlapping == c1 :> <<f1, f2>> @@ c2 :> <<f2>>
==============================================================================
