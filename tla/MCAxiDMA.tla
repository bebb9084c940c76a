------------------------------ MODULE MCAxiDMA ------------------------------
EXTENDS AxiDMA

(* The two simple channels are alike and share nothing but the loop: only  *)
(* the receiving one is disturbed.  Of either kind, only the receiving one *)
(* has arrays of several sizes.                                            *)
Narrow == /\ py["send"].buffer \in {5, None}
          /\ sg \/ hit["send"] = {}
=============================================================================
