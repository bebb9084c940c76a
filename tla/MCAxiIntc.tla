------------------------------ MODULE MCAxiIntc ------------------------------
(***************************************************************************)
(* Two controllers, the second chained to line 0 of the first, with a pin  *)
(* on line 0 of the second.  The pin of the other Interrupt is on line 1   *)
(* of the first, or goes straight to a UIO of its own.  Every task may     *)
(* await either Interrupt, together or in turn.                            *)
(***************************************************************************)
EXTENDS AxiIntc, TLC

CONSTANTS root, leaf, uio, uio2, pinLeaf, pinOther, iLeaf, iOther, t1, t2

MCParent == [c \in {root, leaf} |-> IF c = root THEN uio ELSE root]
MCNumber == [c \in {root, leaf} |-> 0]
MCAbove == [x \in Node |->
              CASE x = leaf -> {root, uio} [] x = root -> {uio} [] OTHER -> {}]
MCPinLine == [p \in Pin |-> IF p = pinOther /\ Cardinality(Uio) = 1 THEN 1 ELSE 0]
MCIntrPin == [i \in Intr |-> IF i = iLeaf THEN pinLeaf ELSE pinOther]

(* The other pin: on the root controller; on the processor.                *)
OnRoot == [p \in Pin |-> IF p = pinLeaf THEN leaf ELSE root]
OnUio == [p \in Pin |-> IF p = pinLeaf THEN leaf ELSE uio2]

Symmetry == Permutations({t1, t2})
=============================================================================
