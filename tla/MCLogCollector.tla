--------------------------- MODULE MCLogCollector ---------------------------
(***************************************************************************)
(* Three messages, one of them as large as the buffer allows and one too   *)
(* large for it, in a buffer of two entries.                               *)
(***************************************************************************)
EXTENDS LogCollector, TLC

CONSTANTS handler, engine, warn, debug, huge

MCLoggers == {handler, engine}
MCKeys == {warn, debug, huge}
MCLevelOf(k) == IF k = debug THEN "debug" ELSE "warning"
MCSizeOf(k) == IF k = warn THEN 1 ELSE IF k = debug THEN 2 ELSE 4
MCPages == {1, 9}
MCSymmetry == Permutations(MCLoggers)

=============================================================================
