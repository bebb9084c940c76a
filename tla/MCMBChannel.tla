----------------------------- MODULE MCMBChannel -----------------------------
(***************************************************************************)
(* A ring of a few cells, blocks up to one byte longer than it can hold,   *)
(* so that every write wraps, fits, is cut short, or finds no space.       *)
(***************************************************************************)
EXTENDS MBChannel

CONSTANT MaxBlock

(* Neighbouring bytes of a block differ.                                   *)
MCBlocks == {[k \in 1..n |-> (k + p) % 2] : n \in 1..MaxBlock, p \in Byte}
(* Fewer where liveness is checked.                                        *)
MCUpBlocks == {<<1>>, <<0, 1>>, <<1, 0, 1>>}
MCPySizes == -1..MaxBlock

(* Nothing is promised of what follows.                                    *)
Fresh == ~stale

MCCSizes == 0..MaxBlock
=============================================================================
