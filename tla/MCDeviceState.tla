---------------------------- MODULE MCDeviceState ----------------------------
(* Two designs; two Overlays in one process and one in another.            *)
EXTENDS DeviceState, TLC
CONSTANTS o1, o2, o3, p1, p2
MCHome == [o \in Overlay |-> IF o = o3 THEN p2 ELSE p1]
Symmetry == Permutations(Design) \cup Permutations({o1, o2})
(* goal is read only while a call runs, which sets it before; dtime only   *)
(* for Overlays that have a timestamp; meta only to be pickled, where it   *)
(* is bit[o], the parser not being from the cache.                         *)
View == <<fpga, fresh, files, place, IF Busy = {} THEN "make" ELSE goal,
          bit, cached, stamped, dname,
          {o \in Overlay : stamped[o] /\ dtime[Home[o]] = o}, by, gaps>>
(* One gap at a time: each is closed before there is another.              *)
OneGap == Cardinality(gaps) <= 1
=============================================================================
