----------------------------- MODULE MCVideoDMA -----------------------------
EXTENDS VideoDMA, Sequences

(* What tells two states apart: not which piece of memory a frame is, only *)
(* which places hold the same one (each is named after the first of them); *)
(* and not what is overwritten before it is read.  "filled" takes part in  *)
(* CapturedWhole alone.                                                    *)
View ==
    LET Seq0(store) == [i \in 1..N |-> store[i - 1]]
        places == Seq0(in_frames) \o Seq0(out_frames) \o Seq0(out_reg)
                      \o <<nextframe, frame, in_now, out_now>>
        Name(i) == IF places[i] = None THEN 0
                   ELSE CHOOSE j \in 1..i : places[j] = places[i]
    IN  <<[i \in 1..Len(places) |-> Name(i)],
          {i \in 1..Len(places) : places[i] \in held}, Cardinality(held),
          IF in_running THEN <<irqframecount, in_left>> ELSE <<>>,
          in_running, in_active, in_irq, in_odd,
          out_active, out_running, out_irq, desiredframe, parked, has_cache,
          out_pc, out_odd,
          tied, rpc, IF rpc = "swap" THEN <<slot, skew>> ELSE <<>>, wpc>>

FilledView == <<View, filled>>

(* The run that looks for a frame without a picture shows one that a slow  *)
(* readframe is not to blame for.                                          *)
Quick == skew < 2
=============================================================================
