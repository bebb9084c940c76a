---------------------------- MODULE MCLogicTools ----------------------------
EXTENDS LogicTools, TLC
LTSymmetry == Permutations(Pin)
(* saved is read only after a STEP, which sets it.                         *)
LTView == <<py, [fw EXCEPT !.saved = IF fw.first THEN @ ELSE 0], odd>>
(* All that a property still says of what follows these is that the pins   *)
(* are exclusive after "unready" and "retraced" (proved: PinsCorrect).     *)
Followed == odd \cap Misused = {}
=============================================================================
