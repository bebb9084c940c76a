--------------------------- MODULE MCMicroblazeRPC ---------------------------
(***************************************************************************)
(* poke is void and takes an argument, work is void and yields, get blocks *)
(* and prints a text longer than the channel, log is void and prints.      *)
(***************************************************************************)
EXTENDS MicroblazeRPC

MCArgs == [f \in Fn |-> IF f = "poke" THEN 1 ELSE 0]
(* Nothing is promised of what follows.                                    *)
Unmixed == mixed = {}
=============================================================================
