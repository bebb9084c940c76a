-------------------------- MODULE VideoDMA_proofs --------------------------
(***************************************************************************)
(* Who owns the frames of VideoDMA, for any number of stores and frames.   *)
(***************************************************************************)
EXTENDS VideoDMA, FiniteSetTheorems, TLAPS

(* A frame has one owner; the one that readframe is about to put into a    *)
(* store has none yet.                                                     *)
Distinct(frames) ==
    \A s, t \in Slot : s # t /\ frames[s] = frames[t] => frames[s] = None
Apart ==
    /\ \A s, t \in Slot : in_frames[s] = out_frames[t] => in_frames[s] = None
    /\ \A s \in Slot : in_frames[s] \notin held /\ out_frames[s] \notin held
Unowned(f) == \A s \in Slot : in_frames[s] # f /\ out_frames[s] # f /\ f \notin held
Owners ==
    /\ Distinct(in_frames) /\ Distinct(out_frames) /\ Apart
    /\ nextframe # None => Unowned(nextframe)

(* The two tasks' locals.  Only one call at a time is between two awaits.  *)
Locals ==
    /\ nextframe # None <=> rpc = "swap"
    /\ wpc \in {"wait", "untie", "park", "place"} => frame \in held
    /\ rpc \in {"idle", "wait"} \/ wpc \in {"idle", "wait"}
    /\ out_pc # "idle" => rpc \in {"idle", "wait"} /\ wpc \in {"idle", "wait"}

(* TypeOK in three parts.                                                  *)
InTypes ==
    /\ in_frames \in Store /\ in_active \in Slot /\ in_now \in Frame \cup {None}
    /\ in_running \in BOOLEAN /\ in_irq \in BOOLEAN
    /\ irqframecount \in {1, IrqFrames} /\ in_left \in 1..IrqFrames
    /\ in_odd \in BOOLEAN
OutTypes ==
    /\ out_frames \in Store /\ out_reg \in Store
    /\ out_active \in Slot /\ desiredframe \in Slot
    /\ out_now \in Frame \cup {None}
    /\ out_running \in BOOLEAN /\ out_irq \in BOOLEAN
    /\ parked \in BOOLEAN /\ has_cache \in BOOLEAN
    /\ out_pc \in {"idle", "tie", "stop", "start"} /\ out_odd \in BOOLEAN
TaskTypes ==
    /\ tied \in BOOLEAN
    /\ held \subseteq Frame /\ filled \subseteq Slot
    /\ rpc \in {"idle", "wait", "clear", "swap"}
    /\ slot \in Slot /\ nextframe \in Frame \cup {None} /\ skew \in 0..2
    /\ wpc \in {"idle", "wait", "untie", "park", "place", "point"}
    /\ frame \in Frame \cup {None}

VInv == TypeOK /\ Owners /\ Locals

LEMMA Slots == 0 \in Slot /\ N \in Nat /\ N > 0 /\ Empty \in Store
BY VDMAAssumption DEF Slot, Empty, Store

LEMMA Modulo == ASSUME NEW x \in Nat PROVE x % N \in Slot
BY VDMAAssumption, SMTT(30) DEF Slot

(* What getframe returns, and the frames that start() fills the stores     *)
(* with.                                                                   *)
LEMMA NewFrameFresh ==
    ASSUME TypeOK, Fresh # {}
    PROVE  /\ NewFrame \in Frame /\ NewFrame # None /\ Unowned(NewFrame)
           /\ NewFrame # nextframe
<1>1. NewFrame \in Fresh BY DEF NewFrame
<1>2. NewFrame \in Frame /\ NewFrame # None BY <1>1, VDMAAssumption DEF Fresh
<1> QED BY <1>1, <1>2 DEF Fresh, Owned, Unowned

LEMMA EnoughFresh ==
    ASSUME Cardinality(Fresh) >= N
    PROVE  \E f \in [Slot -> Fresh] : IsInjective(f)
<1> DEFINE c == Cardinality(Fresh)
<1>1. IsFiniteSet(Fresh)
  <2>1. Fresh \subseteq Frame BY DEF Fresh
  <2> QED BY <2>1, FS_Subset, VDMAAssumption
<1>2. c \in Nat BY <1>1, FS_CardinalityType
<1>3. PICK g : g \in Bijection(1 .. c, Fresh)
  BY <1>1, FS_NatBijection, FS_CardinalityType DEF ExistsBijection
<1>4. /\ g \in [1 .. c -> Fresh]
      /\ \A i, j \in 1 .. c : g[i] = g[j] => i = j
  BY <1>3 DEF Bijection, Injection, IsInjective
<1> HIDE DEF c
<1> DEFINE f == [s \in Slot |-> g[s + 1]]
<1>5. \A s \in Slot : s + 1 \in 1 .. c BY <1>2, VDMAAssumption DEF Slot, c
<1>6. f \in [Slot -> Fresh] BY <1>4, <1>5
<1>7. IsInjective(f)
  <2>1. ASSUME NEW s \in Slot, NEW t \in Slot, f[s] = f[t] PROVE s = t
    <3>1. s + 1 = t + 1 BY <1>4, <1>5, <2>1
    <3> QED BY <3>1, VDMAAssumption DEF Slot
  <2> QED BY <1>6, <2>1 DEF IsInjective
<1> QED BY <1>6, <1>7

LEMMA FillingFresh ==
    ASSUME TypeOK, Cardinality(Fresh) >= N,
           NEW f, f = CHOOSE g \in [Slot -> Fresh] : IsInjective(g)
    PROVE  /\ f \in Store /\ Distinct(f)
           /\ \A s \in Slot : f[s] \in Frame /\ f[s] # None /\ Unowned(f[s])
                             /\ f[s] # nextframe
<1>2. f \in [Slot -> Fresh] /\ IsInjective(f) BY EnoughFresh
<1>3. \A s \in Slot : /\ f[s] \in Frame /\ f[s] # None /\ Unowned(f[s])
                      /\ f[s] # nextframe
  <2> SUFFICES ASSUME NEW s \in Slot
               PROVE  /\ f[s] \in Frame /\ f[s] # None /\ Unowned(f[s])
                      /\ f[s] # nextframe
    OBVIOUS
  <2>1. f[s] \in Fresh BY <1>2
  <2> QED BY <2>1, VDMAAssumption DEF Fresh, Owned, Unowned
<1>4. f \in Store BY <1>2, <1>3 DEF Store
<1>5. Distinct(f) BY <1>2 DEF Distinct, IsInjective
<1> QED BY <1>3, <1>4, <1>5

LEMMA Parts == TypeOK <=> InTypes /\ OutTypes /\ TaskTypes
BY DEF TypeOK, InTypes, OutTypes, TaskTypes

LEMMA PartsNext == TypeOK' <=> InTypes' /\ OutTypes' /\ TaskTypes'
BY DEF TypeOK, InTypes, OutTypes, TaskTypes
-----------------------------------------------------------------------------
USE DEF input, output, reader, writer

LEMMA InitVideo == Init => VInv
<1> SUFFICES ASSUME Init PROVE VInv
  OBVIOUS
<1>1. TypeOK
  <2>0. 1 \in 1 .. IrqFrames /\ 0 \in 0 .. 2 BY VDMAAssumption
  <2>1. InTypes BY <2>0, Slots DEF Init, InTypes
  <2>2. OutTypes BY Slots, VDMAAssumption DEF Init, OutTypes
  <2>3. TaskTypes BY <2>0, Slots DEF Init, TaskTypes
  <2> QED BY <2>1, <2>2, <2>3, Parts
<1>2. Owners BY DEF Init, Owners, Distinct, Apart, Unowned, Empty
<1>3. Locals BY DEF Init, Locals
<1> QED BY <1>1, <1>2, <1>3 DEF VInv

LEMMA InBoundaryVideo ==
    ASSUME VInv, InBoundary
    PROVE  VInv'
<1>a. in_active' \in Slot
  BY Modulo, VDMAAssumption DEF VInv, TypeOK, Slot, InBoundary
<1>b. in_now' \in Frame \cup {None} BY <1>a DEF VInv, TypeOK, Store, InBoundary
<1>c. in_left' \in 1 .. IrqFrames /\ in_irq' \in BOOLEAN
  <2>1. in_left \in 1 .. IrqFrames /\ irqframecount \in 1 .. IrqFrames /\ in_irq \in BOOLEAN
    BY VDMAAssumption DEF VInv, TypeOK
  <2>2. CASE in_left = 1 BY <2>1, <2>2 DEF InBoundary
  <2>3. CASE in_left # 1
    <3>1. in_left' = in_left - 1 /\ in_irq' = in_irq BY <2>3 DEF InBoundary
    <3> QED BY <2>1, <2>3, <3>1, VDMAAssumption
  <2> QED BY <2>2, <2>3
<1>d. skew' \in 0 .. 2
  BY VDMAAssumption DEF VInv, TypeOK, InBoundary
<1>e. filled' \subseteq Slot BY <1>a DEF VInv, TypeOK, InBoundary
<1>1. TypeOK'
  <2>1. InTypes' BY <1>a, <1>b, <1>c, <1>d, <1>e, VDMAAssumption, Parts DEF InBoundary, VInv, InTypes
  <2>2. OutTypes' BY <1>a, <1>b, <1>c, <1>d, <1>e, VDMAAssumption, Parts DEF InBoundary, VInv, OutTypes
  <2>3. TaskTypes' BY <1>a, <1>b, <1>c, <1>d, <1>e, VDMAAssumption, Parts DEF InBoundary, VInv, TaskTypes
  <2> QED BY <2>1, <2>2, <2>3, PartsNext
<1>2. UNCHANGED <<in_frames, out_frames, held, nextframe>>
  BY DEF InBoundary
<1>3. Owners' BY <1>2 DEF VInv, Owners, Distinct, Apart, Unowned
<1>4. Locals' BY VDMAAssumption DEF InBoundary, LoopFree, VInv, TypeOK, Locals
<1> QED BY <1>1, <1>3, <1>4 DEF VInv

LEMMA OutBoundaryVideo ==
    ASSUME VInv, OutBoundary
    PROVE  VInv'
<1>a. (in_active + N - 1) % N \in Slot
  BY Modulo, VDMAAssumption DEF VInv, TypeOK, Slot
<1>1. TypeOK'
  <2>1. InTypes' BY <1>a, VDMAAssumption, Parts DEF OutBoundary, VInv, InTypes, Store
  <2>2. OutTypes' BY <1>a, VDMAAssumption, Parts DEF OutBoundary, Moving, VInv, OutTypes, Store
  <2>3. TaskTypes' BY <1>a, VDMAAssumption, Parts DEF OutBoundary, VInv, TaskTypes, Store
  <2> QED BY <2>1, <2>2, <2>3, PartsNext
<1>2. UNCHANGED <<in_frames, out_frames, held, nextframe>>
  BY DEF OutBoundary
<1>3. Owners' BY <1>2 DEF VInv, Owners, Distinct, Apart, Unowned
<1>4. Locals' BY VDMAAssumption DEF OutBoundary, LoopFree, VInv, TypeOK, Locals
<1> QED BY <1>1, <1>3, <1>4 DEF VInv

LEMMA ReadVideo ==
    ASSUME VInv, Read
    PROVE  VInv'
<1>1. TypeOK'
  <2>1. InTypes' BY VDMAAssumption, Parts DEF Read, VInv, InTypes
  <2>2. OutTypes' BY VDMAAssumption, Parts DEF Read, VInv, OutTypes
  <2>3. TaskTypes' BY VDMAAssumption, Parts DEF Read, VInv, TaskTypes
  <2> QED BY <2>1, <2>2, <2>3, PartsNext
<1>2. UNCHANGED <<in_frames, out_frames, held, nextframe>>
  BY DEF Read
<1>3. Owners' BY <1>2 DEF VInv, Owners, Distinct, Apart, Unowned
<1>4. Locals' BY VDMAAssumption DEF Read, LoopFree, VInv, TypeOK, Locals
<1> QED BY <1>1, <1>3, <1>4 DEF VInv

LEMMA ReadReadyVideo ==
    ASSUME VInv, ReadReady
    PROVE  VInv'
<1>1. TypeOK'
  <2>1. InTypes' BY VDMAAssumption, Parts DEF ReadReady, VInv, InTypes
  <2>2. OutTypes' BY VDMAAssumption, Parts DEF ReadReady, VInv, OutTypes
  <2>3. TaskTypes' BY VDMAAssumption, Parts DEF ReadReady, VInv, TaskTypes
  <2> QED BY <2>1, <2>2, <2>3, PartsNext
<1>2. UNCHANGED <<in_frames, out_frames, held, nextframe>>
  BY DEF ReadReady
<1>3. Owners' BY <1>2 DEF VInv, Owners, Distinct, Apart, Unowned
<1>4. Locals' BY VDMAAssumption DEF ReadReady, LoopFree, VInv, TypeOK, Locals
<1> QED BY <1>1, <1>3, <1>4 DEF VInv

LEMMA ReadActiveVideo ==
    ASSUME VInv, ReadActive
    PROVE  VInv'
<1>a. PreviousFrame(in_active) \in Slot
  BY Modulo, VDMAAssumption DEF VInv, TypeOK, Slot, PreviousFrame
<1>b. /\ NewFrame \in Frame /\ NewFrame # None /\ Unowned(NewFrame)
  BY NewFrameFresh DEF VInv, ReadActive
<1>1. TypeOK'
  <2>1. InTypes' BY <1>a, <1>b, VDMAAssumption, Parts DEF ReadActive, VInv, InTypes
  <2>2. OutTypes' BY <1>a, <1>b, VDMAAssumption, Parts DEF ReadActive, VInv, OutTypes
  <2>3. TaskTypes' BY <1>a, <1>b, VDMAAssumption, Parts DEF ReadActive, VInv, TaskTypes
  <2> QED BY <2>1, <2>2, <2>3, PartsNext
<1>3. Owners'
  BY <1>b, VDMAAssumption DEF ReadActive, VInv, TypeOK, Owners, Distinct, Apart, Unowned, Locals
<1>4. Locals' BY <1>b, VDMAAssumption DEF ReadActive, LoopFree, VInv, TypeOK, Locals
<1> QED BY <1>1, <1>3, <1>4 DEF VInv

LEMMA ReadSwapVideo ==
    ASSUME VInv, ReadSwap
    PROVE  VInv'
<1>a. /\ nextframe \in Frame /\ in_frames[slot] \in Frame \cup {None}
      /\ in_frames' = [in_frames EXCEPT ![slot] = nextframe]
      /\ held' = held \cup ({in_frames[slot]} \ {None}) /\ slot \in Slot
      /\ nextframe' = None
  BY VDMAAssumption DEF VInv, TypeOK, Store, Locals, ReadSwap
<1>b. in_frames' \in Store BY <1>a DEF VInv, TypeOK, Store
<1>c. /\ out_reg' \in Store /\ out_frames' \in Store
      /\ \A s \in Slot : out_frames'[s] # None => out_frames'[s] = out_frames[s]
  BY <1>a DEF VInv, TypeOK, Store, ReadSwap
<1>d. held' \subseteq Frame BY <1>a DEF VInv, TypeOK
<1>e. /\ in_frames'[slot] = nextframe
      /\ \A s \in Slot : s # slot => in_frames'[s] = in_frames[s]
  BY <1>a DEF VInv, TypeOK, Store
<1>f. filled' \subseteq Slot BY DEF VInv, TypeOK, ReadSwap
<1>g. skew' \in 0 .. 2 BY VDMAAssumption DEF ReadSwap
<1>1. TypeOK'
  <2>1. InTypes' BY <1>a, <1>b, <1>c, <1>d, <1>f, <1>g, VDMAAssumption, Parts DEF ReadSwap, VInv, InTypes
  <2>2. OutTypes' BY <1>a, <1>b, <1>c, <1>d, <1>f, <1>g, VDMAAssumption, Parts DEF ReadSwap, VInv, OutTypes
  <2>3. TaskTypes' BY <1>a, <1>b, <1>c, <1>d, <1>f, <1>g, VDMAAssumption, Parts DEF ReadSwap, VInv, TaskTypes
  <2> QED BY <2>1, <2>2, <2>3, PartsNext
<1>3. Owners'
  BY <1>a, <1>c, <1>e, VDMAAssumption DEF ReadSwap, VInv, TypeOK, Owners, Distinct, Apart, Unowned, Locals
<1>4. Locals' BY VDMAAssumption DEF ReadSwap, LoopFree, VInv, TypeOK, Locals
<1> QED BY <1>1, <1>3, <1>4 DEF VInv

LEMMA InStartVideo ==
    ASSUME VInv, InStart
    PROVE  VInv'
<1>a. /\ in_frames' \in Store /\ Distinct(in_frames')
      /\ \A s \in Slot : /\ in_frames'[s] \in Frame /\ in_frames'[s] # None
                          /\ Unowned(in_frames'[s]) /\ in_frames'[s] # nextframe
  BY FillingFresh DEF VInv, InStart
<1>b. in_active' \in Slot /\ in_now' \in Frame \cup {None}
  BY <1>a DEF InStart, VInv, TypeOK
<1>d. /\ out_reg' \in Store /\ out_frames' \in Store
      /\ \A s \in Slot : out_frames'[s] # None => out_frames'[s] = out_frames[s]
  BY <1>a, Slots DEF InStart, VInv, TypeOK, Empty
<1>c. IrqFrames \in 1 .. IrqFrames BY VDMAAssumption
<1>1. TypeOK'
  <2>1. InTypes' BY <1>a, <1>b, <1>c, <1>d, VDMAAssumption, Parts DEF InStart, VInv, InTypes
  <2>2. OutTypes' BY <1>a, <1>b, <1>c, <1>d, VDMAAssumption, Parts DEF InStart, VInv, OutTypes
  <2>3. TaskTypes' BY <1>a, <1>b, <1>c, <1>d, VDMAAssumption, Parts DEF InStart, VInv, TaskTypes
  <2> QED BY <2>1, <2>2, <2>3, PartsNext
<1>3. Owners'
  BY <1>a, <1>d, VDMAAssumption DEF InStart, VInv, TypeOK, Owners, Distinct, Apart, Unowned, Locals
<1>4. Locals' BY VDMAAssumption DEF InStart, LoopFree, VInv, TypeOK, Locals
<1> QED BY <1>1, <1>3, <1>4 DEF VInv

LEMMA InStopVideo ==
    ASSUME VInv, InStop
    PROVE  VInv'
<1>1. TypeOK'
  <2>1. InTypes' BY Slots, VDMAAssumption, Parts DEF InStop, Halt, Point, VInv, InTypes
  <2>2. OutTypes' BY Slots, VDMAAssumption, Parts DEF InStop, Halt, Point, VInv, OutTypes, InTypes
  <2>3. TaskTypes' BY Slots, VDMAAssumption, Parts DEF InStop, Halt, Point, VInv, TaskTypes
  <2> QED BY <2>1, <2>2, <2>3, PartsNext
<1>3. Owners'
  BY VDMAAssumption DEF InStop, Halt, Point, VInv, TypeOK, Owners, Distinct, Apart, Unowned, Locals, Empty
<1>4. Locals' BY VDMAAssumption DEF InStop, Halt, Point, LoopFree, VInv, TypeOK, Locals
<1> QED BY <1>1, <1>3, <1>4 DEF VInv

LEMMA TieVideo ==
    ASSUME VInv, Tie
    PROVE  VInv'
<1>1. TypeOK'
  <2>1. InTypes' BY Slots, VDMAAssumption, Parts DEF Tie, VInv, InTypes, InTypes
  <2>2. OutTypes' BY Slots, VDMAAssumption, Parts DEF Tie, VInv, OutTypes, InTypes
  <2>3. TaskTypes' BY Slots, VDMAAssumption, Parts DEF Tie, VInv, TaskTypes, InTypes
  <2> QED BY <2>1, <2>2, <2>3, PartsNext
<1>3. Owners'
  BY VDMAAssumption DEF Tie, VInv, TypeOK, Owners, Distinct, Apart, Unowned, Locals, Empty
<1>4. Locals' BY VDMAAssumption DEF Tie, LoopFree, VInv, TypeOK, Locals
<1> QED BY <1>1, <1>3, <1>4 DEF VInv

LEMMA UntieVideo ==
    ASSUME VInv, Untie
    PROVE  VInv'
<1>1. TypeOK'
  <2>1. InTypes' BY VDMAAssumption, Parts DEF Untie, Point, VInv, InTypes
  <2>2. OutTypes' BY VDMAAssumption, Parts DEF Untie, Point, VInv, OutTypes, InTypes
  <2>3. TaskTypes' BY VDMAAssumption, Parts DEF Untie, Point, VInv, TaskTypes
  <2> QED BY <2>1, <2>2, <2>3, PartsNext
<1>2. UNCHANGED <<in_frames, out_frames, held, nextframe>>
  BY DEF Untie, Point
<1>3. Owners' BY <1>2 DEF VInv, Owners, Distinct, Apart, Unowned
<1>4. Locals' BY VDMAAssumption DEF Untie, Point, LoopFree, VInv, TypeOK, Locals
<1> QED BY <1>1, <1>3, <1>4 DEF VInv

LEMMA TieParkVideo ==
    ASSUME VInv, TiePark
    PROVE  VInv'
<1>1. TypeOK'
  <2>1. InTypes' BY Slots, VDMAAssumption, Parts DEF TiePark, Park, Halt, VInv, InTypes
  <2>2. OutTypes' BY Slots, VDMAAssumption, Parts DEF TiePark, Park, Halt, VInv, OutTypes, InTypes
  <2>3. TaskTypes' BY Slots, VDMAAssumption, Parts DEF TiePark, Park, Halt, VInv, TaskTypes
  <2> QED BY <2>1, <2>2, <2>3, PartsNext
<1>3. Owners'
  BY VDMAAssumption DEF TiePark, Park, Halt, VInv, TypeOK, Owners, Distinct, Apart, Unowned, Locals, Empty
<1>4. Locals' BY VDMAAssumption DEF TiePark, Park, Halt, LoopFree, VInv, TypeOK, Locals
<1> QED BY <1>1, <1>3, <1>4 DEF VInv

LEMMA OutStartVideo ==
    ASSUME VInv, OutStart
    PROVE  VInv'
<1>a. /\ NewFrame \in Frame /\ NewFrame # None /\ Unowned(NewFrame) /\ NewFrame # nextframe
  BY NewFrameFresh DEF VInv, OutStart
<1>1. TypeOK'
  <2>1. InTypes' BY <1>a, Slots, VDMAAssumption, Parts DEF OutStart, VInv, InTypes, Store
  <2>2. OutTypes' BY <1>a, Slots, VDMAAssumption, Parts DEF OutStart, VInv, OutTypes, Store
  <2>3. TaskTypes' BY <1>a, Slots, VDMAAssumption, Parts DEF OutStart, VInv, TaskTypes, Store
  <2> QED BY <2>1, <2>2, <2>3, PartsNext
<1>3. Owners'
  BY <1>a, Slots, VDMAAssumption DEF OutStart, VInv, TypeOK, Owners, Distinct, Apart, Unowned, Locals
<1>4. Locals' BY VDMAAssumption DEF OutStart, LoopFree, VInv, TypeOK, Locals
<1> QED BY <1>1, <1>3, <1>4 DEF VInv

LEMMA StartPointVideo ==
    ASSUME VInv, StartPoint
    PROVE  VInv'
<1>1. TypeOK'
  <2>1. InTypes' BY Slots, VDMAAssumption, Parts DEF StartPoint, VInv, InTypes
  <2>2. OutTypes' BY Slots, VDMAAssumption, Parts DEF StartPoint, VInv, OutTypes, InTypes
  <2>3. TaskTypes' BY Slots, VDMAAssumption, Parts DEF StartPoint, VInv, TaskTypes
  <2> QED BY <2>1, <2>2, <2>3, PartsNext
<1>2. UNCHANGED <<in_frames, out_frames, held, nextframe>>
  BY DEF StartPoint
<1>3. Owners' BY <1>2 DEF VInv, Owners, Distinct, Apart, Unowned
<1>4. Locals' BY VDMAAssumption DEF StartPoint, LoopFree, VInv, TypeOK, Locals
<1> QED BY <1>1, <1>3, <1>4 DEF VInv

LEMMA OutStopVideo ==
    ASSUME VInv, OutStop
    PROVE  VInv'
<1>1. TypeOK'
  <2>1. InTypes' BY Slots, VDMAAssumption, Parts DEF OutStop, VInv, InTypes
  <2>2. OutTypes' BY Slots, VDMAAssumption, Parts DEF OutStop, VInv, OutTypes
  <2>3. TaskTypes' BY Slots, VDMAAssumption, Parts DEF OutStop, VInv, TaskTypes
  <2> QED BY <2>1, <2>2, <2>3, PartsNext
<1>3. Owners'
  BY VDMAAssumption DEF OutStop, VInv, TypeOK, Owners, Distinct, Apart, Unowned, Locals, Empty
<1>4. Locals' BY VDMAAssumption DEF OutStop, LoopFree, VInv, TypeOK, Locals
<1> QED BY <1>1, <1>3, <1>4 DEF VInv

LEMMA TakeFrameVideo ==
    ASSUME VInv, TakeFrame
    PROVE  VInv'
<1>a. /\ NewFrame \in Frame /\ NewFrame # None /\ Unowned(NewFrame) /\ NewFrame # nextframe
  BY NewFrameFresh DEF VInv, TakeFrame
<1>1. TypeOK'
  <2>1. InTypes' BY <1>a, VDMAAssumption, Parts DEF TakeFrame, VInv, InTypes
  <2>2. OutTypes' BY <1>a, VDMAAssumption, Parts DEF TakeFrame, VInv, OutTypes
  <2>3. TaskTypes' BY <1>a, VDMAAssumption, Parts DEF TakeFrame, VInv, TaskTypes
  <2> QED BY <2>1, <2>2, <2>3, PartsNext
<1>3. Owners'
  BY <1>a, VDMAAssumption DEF TakeFrame, VInv, TypeOK, Owners, Distinct, Apart, Unowned, Locals
<1>4. Locals' BY VDMAAssumption DEF TakeFrame, LoopFree, VInv, TypeOK, Locals
<1> QED BY <1>1, <1>3, <1>4 DEF VInv

LEMMA DropVideo ==
    ASSUME VInv, NEW f \in Frame, Drop(f)
    PROVE  VInv'
<1>1. TypeOK'
  <2>1. InTypes' BY VDMAAssumption, Parts DEF Drop, VInv, InTypes
  <2>2. OutTypes' BY VDMAAssumption, Parts DEF Drop, VInv, OutTypes
  <2>3. TaskTypes' BY VDMAAssumption, Parts DEF Drop, VInv, TaskTypes
  <2> QED BY <2>1, <2>2, <2>3, PartsNext
<1>3. Owners'
  BY VDMAAssumption DEF Drop, VInv, TypeOK, Owners, Distinct, Apart, Unowned, Locals
<1>4. Locals' BY VDMAAssumption DEF Drop, LoopFree, VInv, TypeOK, Locals
<1> QED BY <1>1, <1>3, <1>4 DEF VInv

LEMMA WriteVideo ==
    ASSUME VInv, NEW f \in Frame, Write(f)
    PROVE  VInv'
<1>1. TypeOK'
  <2>1. InTypes' BY VDMAAssumption, Parts DEF Write, VInv, InTypes
  <2>2. OutTypes' BY VDMAAssumption, Parts DEF Write, VInv, OutTypes
  <2>3. TaskTypes' BY VDMAAssumption, Parts DEF Write, VInv, TaskTypes
  <2> QED BY <2>1, <2>2, <2>3, PartsNext
<1>2. UNCHANGED <<in_frames, out_frames, held, nextframe>>
  BY DEF Write
<1>3. Owners' BY <1>2 DEF VInv, Owners, Distinct, Apart, Unowned
<1>4. Locals' BY VDMAAssumption DEF Write, LoopFree, VInv, TypeOK, Locals
<1> QED BY <1>1, <1>3, <1>4 DEF VInv

LEMMA WriteReadyVideo ==
    ASSUME VInv, WriteReady
    PROVE  VInv'
<1>1. TypeOK'
  <2>1. InTypes' BY VDMAAssumption, Parts DEF WriteReady, VInv, InTypes
  <2>2. OutTypes' BY VDMAAssumption, Parts DEF WriteReady, VInv, OutTypes
  <2>3. TaskTypes' BY VDMAAssumption, Parts DEF WriteReady, VInv, TaskTypes
  <2> QED BY <2>1, <2>2, <2>3, PartsNext
<1>2. UNCHANGED <<in_frames, out_frames, held, nextframe>>
  BY DEF WriteReady
<1>3. Owners' BY <1>2 DEF VInv, Owners, Distinct, Apart, Unowned
<1>4. Locals' BY VDMAAssumption DEF WriteReady, LoopFree, VInv, TypeOK, Locals
<1> QED BY <1>1, <1>3, <1>4 DEF VInv

LEMMA WriteUntieVideo ==
    ASSUME VInv, WriteUntie
    PROVE  VInv'
<1>1. TypeOK'
  <2>1. InTypes' BY VDMAAssumption, Parts DEF WriteUntie, Point, VInv, InTypes
  <2>2. OutTypes' BY VDMAAssumption, Parts DEF WriteUntie, Point, VInv, OutTypes, InTypes
  <2>3. TaskTypes' BY VDMAAssumption, Parts DEF WriteUntie, Point, VInv, TaskTypes
  <2> QED BY <2>1, <2>2, <2>3, PartsNext
<1>2. UNCHANGED <<in_frames, out_frames, held, nextframe>>
  BY DEF WriteUntie, Point
<1>3. Owners' BY <1>2 DEF VInv, Owners, Distinct, Apart, Unowned
<1>4. Locals' BY VDMAAssumption DEF WriteUntie, Point, LoopFree, VInv, TypeOK, Locals
<1> QED BY <1>1, <1>3, <1>4 DEF VInv

LEMMA WriteParkVideo ==
    ASSUME VInv, WritePark
    PROVE  VInv'
<1>1. TypeOK'
  <2>1. InTypes' BY VDMAAssumption, Parts DEF WritePark, Park, VInv, InTypes
  <2>2. OutTypes' BY VDMAAssumption, Parts DEF WritePark, Park, VInv, OutTypes, InTypes
  <2>3. TaskTypes' BY VDMAAssumption, Parts DEF WritePark, Park, VInv, TaskTypes
  <2> QED BY <2>1, <2>2, <2>3, PartsNext
<1>2. UNCHANGED <<in_frames, out_frames, held, nextframe>>
  BY DEF WritePark, Park
<1>3. Owners' BY <1>2 DEF VInv, Owners, Distinct, Apart, Unowned
<1>4. Locals' BY VDMAAssumption DEF WritePark, Park, LoopFree, VInv, TypeOK, Locals
<1> QED BY <1>1, <1>3, <1>4 DEF VInv

LEMMA WritePlaceVideo ==
    ASSUME VInv, WritePlace
    PROVE  VInv'
<1>a. NextFrame(desiredframe) \in Slot /\ frame \in Frame
  BY Modulo, VDMAAssumption DEF VInv, TypeOK, Slot, NextFrame, Locals, WritePlace
<1>b. out_frames' \in Store /\ out_reg' \in Store
  BY <1>a DEF VInv, TypeOK, Store, WritePlace
<1>c. /\ out_frames'[NextFrame(desiredframe)] = frame
      /\ \A s \in Slot : s # NextFrame(desiredframe) => out_frames'[s] = out_frames[s]
  BY <1>a DEF VInv, TypeOK, Store, WritePlace
<1>1. TypeOK'
  <2>1. InTypes' BY <1>a, <1>b, VDMAAssumption, Parts DEF WritePlace, GivesFrame, VInv, InTypes
  <2>2. OutTypes' BY <1>a, <1>b, VDMAAssumption, Parts DEF WritePlace, GivesFrame, VInv, OutTypes
  <2>3. TaskTypes' BY <1>a, <1>b, VDMAAssumption, Parts DEF WritePlace, GivesFrame, VInv, TaskTypes
  <2> QED BY <2>1, <2>2, <2>3, PartsNext
<1>3. Owners'
  BY <1>a, <1>c, VDMAAssumption DEF WritePlace, GivesFrame, VInv, TypeOK, Owners, Distinct, Apart, Unowned, Locals
<1>4. Locals' BY VDMAAssumption DEF WritePlace, GivesFrame, LoopFree, VInv, TypeOK, Locals
<1> QED BY <1>1, <1>3, <1>4 DEF VInv

LEMMA WritePointVideo ==
    ASSUME VInv, WritePoint
    PROVE  VInv'
<1>a. NextFrame(desiredframe) \in Slot
  BY Modulo, VDMAAssumption DEF VInv, TypeOK, Slot, NextFrame
<1>1. TypeOK'
  <2>1. InTypes' BY <1>a, VDMAAssumption, Parts DEF WritePoint, VInv, InTypes
  <2>2. OutTypes' BY <1>a, VDMAAssumption, Parts DEF WritePoint, VInv, OutTypes
  <2>3. TaskTypes' BY <1>a, VDMAAssumption, Parts DEF WritePoint, VInv, TaskTypes
  <2> QED BY <2>1, <2>2, <2>3, PartsNext
<1>2. UNCHANGED <<in_frames, out_frames, held, nextframe>>
  BY DEF WritePoint
<1>3. Owners' BY <1>2 DEF VInv, Owners, Distinct, Apart, Unowned
<1>4. Locals' BY VDMAAssumption DEF WritePoint, LoopFree, VInv, TypeOK, Locals
<1> QED BY <1>1, <1>3, <1>4 DEF VInv

LEMMA NextVideo == VInv /\ [Next]_vars => VInv'
<1> SUFFICES ASSUME VInv, [Next]_vars PROVE VInv'
  OBVIOUS
<1>1. CASE UNCHANGED vars
  BY <1>1 DEF vars, VInv, TypeOK, Owners, Distinct, Apart, Unowned, Locals
<1>2. CASE Next
  BY <1>2, InBoundaryVideo, OutBoundaryVideo, ReadVideo, ReadReadyVideo, ReadActiveVideo,
     ReadSwapVideo, InStartVideo, InStopVideo, TieVideo, UntieVideo, TieParkVideo,
     OutStartVideo, StartPointVideo, OutStopVideo, TakeFrameVideo, DropVideo, WriteVideo, WriteReadyVideo, WriteUntieVideo,
     WriteParkVideo,
     WritePlaceVideo, WritePointVideo
     DEF Next, ReadStep, WriteStep
<1> QED BY <1>1, <1>2

LEMMA AlwaysVideo == Spec => []VInv
BY InitVideo, NextVideo, PTL DEF Spec
-----------------------------------------------------------------------------
(* The state of both channels and of the two tasks is of its type.         *)
THEOREM TypeCorrect == Spec => []TypeOK
<1>1. VInv => TypeOK BY DEF VInv
<1> QED BY <1>1, AlwaysVideo, PTL

(* A frame is in one store of one channel, or the program's, or nobody's,  *)
(* whatever the order of reads, writes, ties, starts and stops.            *)
THEOREM OneOwner == Spec => []SingleOwner
<1>1. VInv => SingleOwner
  <2> SUFFICES ASSUME VInv PROVE SingleOwner
    OBVIOUS
  <2>1. Owned(in_frames) \cap Owned(out_frames) = {}
    BY DEF VInv, Owners, Apart, Owned
  <2>2. held \cap (Owned(in_frames) \cup Owned(out_frames)) = {}
    BY DEF VInv, Owners, Apart, Owned
  <2> QED BY <2>1, <2>2 DEF VInv, Owners, Distinct, SingleOwner
<1> QED BY <1>1, AlwaysVideo, PTL

-----------------------------------------------------------------------------
(* The input hardware and the store it writes.  A running input has a      *)
(* frame in every store, and the store that is being replaced is two       *)
(* ahead of the one being written, one when a boundary was passed, and     *)
(* anywhere when two were.                                                 *)
Filled == in_running => \A s \in Slot : in_frames[s] # None
Ahead ==
    rpc = "swap" => \/ skew = 0 /\ slot = (in_active + 2) % N
                    \/ skew = 1 /\ slot = (in_active + 1) % N
                    \/ skew = 2
Written == Filled /\ Ahead /\ InputOwned

LEMMA Wrap ==
    ASSUME NEW x \in Nat
    PROVE  /\ x < N => x % N = x
           /\ N <= x /\ x < N + N => x % N = x - N
BY VDMAAssumption, SMTT(60)

LEMMA Around ==
    ASSUME N >= 3, NEW a \in Slot
    PROVE  /\ (a + 1) % N # a /\ (a + 2) % N # a
           /\ (((a + 1) % N) + 1) % N = (a + 2) % N
<1>1. a \in Nat /\ a < N BY VDMAAssumption DEF Slot
<1>2. a + 1 \in Nat /\ a + 2 \in Nat /\ 0 \in Nat /\ 1 \in Nat BY <1>1
<1>3. (a + 1) % N = IF a + 1 = N THEN 0 ELSE a + 1
  <2>1. CASE a + 1 = N BY <1>1, <1>2, <2>1, Wrap, VDMAAssumption
  <2>2. CASE a + 1 < N BY <1>1, <1>2, <2>2, Wrap, VDMAAssumption
  <2> QED BY <1>1, <2>1, <2>2, VDMAAssumption
<1>4. (a + 2) % N = IF a + 2 >= N THEN a + 2 - N ELSE a + 2
  BY <1>1, <1>2, Wrap, VDMAAssumption
<1>5. CASE a + 1 = N
  <2>1. (0 + 1) % N = 1 BY <1>2, Wrap, VDMAAssumption
  <2>2. (a + 1) % N = 0 BY <1>3, <1>5
  <2>3. (((a + 1) % N) + 1) % N = 1 BY <2>1, <2>2
  <2> QED BY <1>1, <1>4, <1>5, <2>2, <2>3, VDMAAssumption
<1>6. CASE a + 1 < N
  <2>1. (a + 1) % N = a + 1 BY <1>1, <1>3, <1>6, VDMAAssumption
  <2>2. (((a + 1) % N) + 1) % N = ((a + 1) + 1) % N BY <2>1
  <2>3. (a + 1) + 1 = a + 2 BY <1>1
  <2> QED BY <1>1, <1>4, <1>6, <2>1, <2>2, <2>3, VDMAAssumption
<1> QED BY <1>1, <1>5, <1>6, VDMAAssumption

LEMMA BoundaryWritten ==
    ASSUME N >= 3, VInv, Written, InBoundary
    PROVE  Written'
<1>1. /\ in_active \in Slot /\ in_active' = (in_active + 1) % N /\ in_active' \in Slot
      /\ in_now' = in_frames[in_active']
      /\ UNCHANGED <<in_frames, in_running, rpc, slot>> /\ in_running
  BY Modulo, VDMAAssumption DEF VInv, TypeOK, Slot, InBoundary
<1>2. Filled' BY <1>1 DEF Written, Filled
<1>3. InputOwned' BY <1>1 DEF Written, Filled, InputOwned
<1>4. Ahead'
  <2> SUFFICES ASSUME rpc = "swap" PROVE Ahead'
    BY <1>1 DEF Ahead
  <2>1. skew' = (IF skew < 2 THEN skew + 1 ELSE skew) /\ skew \in 0..2
    BY DEF InBoundary, VInv, TypeOK
  <2>2. CASE skew = 0
    <3>1. slot = (in_active + 2) % N BY <2>2 DEF Written, Ahead
    <3>2. slot' = (in_active' + 1) % N BY <1>1, <3>1, Around
    <3> QED BY <2>1, <2>2, <3>2 DEF Ahead
  <2>3. CASE skew # 0
    <3>1. skew' = 2 BY <2>1, <2>3
    <3> QED BY <3>1 DEF Ahead
  <2> QED BY <2>2, <2>3
<1> QED BY <1>2, <1>3, <1>4 DEF Written

LEMMA SwapWritten ==
    ASSUME N >= 3, VInv, Written, ReadSwap
    PROVE  Written'
<1>1. /\ in_active \in Slot /\ slot \in Slot /\ nextframe # None
      /\ in_frames' = [in_frames EXCEPT ![slot] = nextframe]
      /\ UNCHANGED <<in_active, in_now, in_running>> /\ rpc' = "idle"
      /\ in_odd' = (in_odd \/ (in_running /\ skew = 2))
  BY DEF ReadSwap, VInv, TypeOK, Locals
<1>2. in_frames'[slot] # None /\ \A s \in Slot : s # slot => in_frames'[s] = in_frames[s]
  BY <1>1 DEF VInv, TypeOK, Store
<1>3. Filled' /\ Ahead' BY <1>1, <1>2 DEF Written, Filled, Ahead
<1>4. InputOwned'
  <2> SUFFICES ASSUME in_running, ~in_odd, skew # 2 PROVE InputOwned'
    BY <1>1 DEF InputOwned
  <2>1. slot # in_active BY <1>1, Around DEF Written, Ahead, ReadSwap
  <2> QED BY <1>1, <1>2, <2>1 DEF Written, InputOwned
<1> QED BY <1>3, <1>4 DEF Written

LEMMA StartWritten ==
    ASSUME VInv, Written, InStart
    PROVE  Written'
<1>1. \A s \in Slot : in_frames'[s] # None
  BY FillingFresh DEF VInv, InStart
<1>2. /\ in_odd' = in_running /\ UNCHANGED rpc /\ rpc # "swap"
      /\ ~in_running => in_active' \in Slot /\ in_now' = in_frames'[in_active']
  BY DEF InStart, LoopFree
<1>3. in_running \in BOOLEAN BY DEF VInv, TypeOK
<1> QED BY <1>1, <1>2, <1>3 DEF Written, Filled, Ahead, InputOwned

LEMMA StopWritten ==
    ASSUME Written, Halt, UNCHANGED rpc, rpc # "swap"
    PROVE  Written'
BY DEF Halt, Written, Filled, Ahead, InputOwned

(* Every other step leaves the input's stores alone.                       *)
LEMMA OthersWritten ==
    ASSUME VInv, Written, in_frames' = in_frames, in_active' = in_active, in_now' = in_now,
           in_running' = in_running, in_odd' = in_odd,
           (skew' = skew /\ slot' = slot) \/ rpc' # "swap",
           rpc' = "swap" => rpc = "swap"
    PROVE  Written'
BY DEF Written, Filled, Ahead, InputOwned

LEMMA NextWritten ==
    ASSUME N >= 3, VInv, Written, [Next]_vars
    PROVE  Written'
<1>1. CASE ReadActive
  BY <1>1 DEF ReadActive, PreviousFrame, Written, Filled, Ahead, InputOwned
<1>2. CASE InStop \/ TiePark
  <2>1. UNCHANGED <<rpc, slot, skew>> /\ rpc # "swap"
    BY <1>2 DEF InStop, TiePark, LoopFree, VInv, Locals
  <2> QED BY <1>2, <2>1, StopWritten, OthersWritten DEF InStop, TiePark
<1>3. CASE ReadReady BY <1>3, OthersWritten DEF ReadReady
<1>4. CASE UNCHANGED input /\ UNCHANGED <<skew, slot>> /\ (UNCHANGED rpc \/ rpc' = "wait")
  BY <1>4, OthersWritten
<1>5. CASE UNCHANGED vars BY <1>5, OthersWritten DEF vars
<1>6. CASE \/ OutBoundary \/ Read \/ Tie \/ Untie \/ OutStart \/ StartPoint \/ OutStop
           \/ TakeFrame \/ WriteStep
  BY <1>4, <1>6 DEF OutBoundary, Read, Tie, Untie, OutStart, StartPoint, OutStop, TakeFrame,
                    WriteStep, WriteReady, WriteUntie, WritePark, WritePlace, WritePoint
<1>7. ASSUME NEW f \in Frame, Drop(f) \/ Write(f) PROVE Written'
  BY <1>4, <1>7 DEF Drop, Write
<1> QED BY <1>1, <1>2, <1>3, <1>5, <1>6, <1>7, BoundaryWritten, SwapWritten, StartWritten
        DEF Next, ReadStep

(* With three stores or more the memory being written belongs to the store *)
(* it is at: the store two ahead is not the one the hardware comes to with *)
(* the next boundary.  Two boundaries during one readframe, or start() of  *)
(* a running input, undo that until the boundary after.                    *)
THEOREM InputKept == ASSUME N >= 3 PROVE Spec => []InputOwned
<1>1. Init => Written
  BY DEF Init, Written, Filled, Ahead, InputOwned
<1>2. VInv /\ Written /\ [Next]_vars => Written' BY NextWritten
<1>3. Written => InputOwned BY DEF Written
<1> QED BY <1>1, <1>2, <1>3, AlwaysVideo, PTL DEF Spec
-----------------------------------------------------------------------------
(* The output.  Store s has the frame that is on the screen; d is the park *)
(* pointer's store, or the one before it, whose frame stays on the screen  *)
(* until the boundary after WritePoint.                                    *)
Shows(s) == out_frames[s] = out_now /\ out_frames[s] # None
Recent(s) == s = desiredframe \/ NextFrame(s) = desiredframe
Placed(s) == wpc = "point" /\ s = NextFrame(desiredframe)

(* A register holds the frame of its own store, or one the output does not *)
(* own: after a tie the input's, until it is written.                      *)
Registers ==
    /\ tied => \A s, t \in Slot :
                  out_reg[s] = out_frames[t] /\ out_frames[t] # None => s = t
    /\ ~tied => \A t \in Slot :
                  out_reg[desiredframe] = out_frames[t] /\ out_frames[t] # None
                      => t = desiredframe \/ Placed(t)
    /\ wpc = "point" => \A t \in Slot :
                  t = NextFrame(desiredframe) => out_reg[t] = out_frames[t]
    /\ out_pc = "start" => out_reg[0] = out_frames[0]

(* Between Point and Park.                                                 *)
Parking == wpc = "park" \/ out_pc \in {"tie", "stop"}

(* A stopped output has no boundaries, and so no interrupt after a write.  *)
Modes ==
    /\ wpc \in {"place", "point"} => ~tied
    /\ Parking => tied
    /\ tied \/ parked
    /\ ~out_running => out_now = None
    /\ ~out_running /\ out_irq => \A s \in Slot : out_frames[s] = None
    /\ ~out_running /\ wpc \in {"untie", "park", "place", "point"} => ~out_irq

(* The interrupt that a write waits for came after the last write but one  *)
(* was on the screen; another one, during the write, after the last was.   *)
Shown ==
    /\ \A s \in Slot : Shows(s) =>
        /\ tied => s = out_active
        /\ ~tied /\ (out_irq \/ wpc \in {"untie", "place"})
              => Recent(s) \/ Placed(s)
        /\ ~tied /\ wpc \in {"untie", "place", "point"} /\ out_irq
              => s = desiredframe \/ Placed(s)
    /\ Parking => desiredframe = out_active
    /\ out_pc = "start" /\ out_irq
          => \A s \in Slot : out_frames[s] # None => s = 0

Screen == Registers /\ Modes /\ (~out_odd => Shown)

LEMMA NextFrameIs ==
    ASSUME NEW d \in Slot
    PROVE  /\ NextFrame(d) \in Slot
           /\ NextFrame(d) = IF d + 1 = N THEN 0 ELSE d + 1
<1>1. d \in Int /\ 0 <= d /\ d < N BY VDMAAssumption DEF Slot
<1>2. CASE d + 1 = N BY <1>1, <1>2, Wrap, Slots DEF NextFrame
<1>3. CASE d + 1 # N
  <2>1. (d + 1) % N = d + 1 BY <1>1, <1>3, Wrap, VDMAAssumption
  <2> QED BY <1>1, <1>3, <2>1, VDMAAssumption DEF NextFrame, Slot
<1> QED BY <1>2, <1>3

LEMMA NextFrameOther ==
    ASSUME N >= 3, NEW d \in Slot
    PROVE  NextFrame(d) \in Slot /\ NextFrame(d) # d /\ NextFrame(NextFrame(d)) # d
<1>1. d \in Int /\ 0 <= d /\ d < N BY VDMAAssumption DEF Slot
<1>2. NextFrame(d) \in Slot BY NextFrameIs
<1>3. NextFrame(d) = IF d + 1 = N THEN 0 ELSE d + 1 BY NextFrameIs
<1>4. NextFrame(NextFrame(d)) = IF NextFrame(d) + 1 = N THEN 0 ELSE NextFrame(d) + 1
  BY <1>2, NextFrameIs
<1> QED BY <1>1, <1>2, <1>3, <1>4, VDMAAssumption

LEMMA InitScreen == Init => Screen
BY DEF Init, Screen, Registers, Modes, Parking, Shown, Shows, Empty

(* A step that leaves the output alone.                                    *)
LEMMA QuietScreen ==
    ASSUME Screen, UNCHANGED output, UNCHANGED tied,
           wpc' = wpc \/ (wpc \in {"idle", "wait"} /\ wpc' \in {"idle", "wait"})
    PROVE  Screen'
<1>1. Registers' BY DEF Screen, Registers, Placed, NextFrame
<1>2. Modes' BY DEF Screen, Modes, Parking
<1>3. ~out_odd' => Shown'
  BY DEF Screen, Shown, Parking, Shows, Recent, Placed, NextFrame
<1> QED BY <1>1, <1>2, <1>3 DEF Screen

LEMMA OutBoundaryScreen ==
    ASSUME VInv, Screen, OutBoundary
    PROVE  Screen'
<1>1. /\ out_active' \in Slot /\ out_now' = out_reg[out_active']
      /\ ~tied => out_active' = desiredframe
  <2>1. (in_active + N - 1) % N \in Slot
    BY Modulo, VDMAAssumption DEF VInv, TypeOK, Slot
  <2> QED BY <2>1 DEF OutBoundary, Screen, Modes, VInv, TypeOK
<1>2. /\ UNCHANGED <<out_frames, out_reg, out_running, desiredframe, parked, tied, wpc, out_pc>>
      /\ out_running /\ out_odd' = Moving
  BY DEF OutBoundary
<1>3. Registers' BY <1>2 DEF Screen, Registers, Placed, NextFrame
<1>4. Modes' BY <1>2 DEF Screen, Modes, Parking
<1>5. ~Moving => Shown'
  BY <1>1, <1>2 DEF Screen, Registers, Shown, Shows, Recent, Placed, NextFrame, Moving, Parking
<1> QED BY <1>2, <1>3, <1>4, <1>5 DEF Screen

(* A frame that goes to a store of the tied input leaves the output's.     *)
LEMMA ReadSwapScreen ==
    ASSUME VInv, Screen, ReadSwap
    PROVE  Screen'
<1>0. out_pc = "idle" /\ wpc \in {"idle", "wait"} BY DEF ReadSwap, VInv, Locals
<1>1. CASE ~tied BY <1>1, QuietScreen DEF ReadSwap
<1>2. CASE tied
  <2>1. /\ UNCHANGED <<out_active, out_now, out_running, out_irq, desiredframe, parked, tied,
                       wpc, out_pc, out_odd>>
        /\ out_reg' = [out_reg EXCEPT ![slot] = nextframe]
        /\ out_frames' = [out_frames EXCEPT ![slot] = None]
        /\ slot \in Slot /\ out_reg \in Store /\ out_frames \in Store
    BY <1>2 DEF ReadSwap, VInv, TypeOK
  <2>2. /\ \A s \in Slot : out_frames'[s] = IF s = slot THEN None ELSE out_frames[s]
        /\ \A s \in Slot : out_reg'[s] = IF s = slot THEN nextframe ELSE out_reg[s]
    BY <2>1 DEF Store
  <2>3. \A s \in Slot : nextframe # out_frames[s]
    BY DEF ReadSwap, VInv, Owners, Unowned, Locals
  <2>4. Registers' BY <1>0, <1>2, <2>1, <2>2, <2>3 DEF Screen, Registers, Modes
  <2>5. Modes' BY <1>0, <1>2, <2>1, <2>2 DEF Screen, Modes, Parking
  <2>6. ~out_odd' => Shown' BY <1>0, <1>2, <2>1, <2>2 DEF Screen, Shown, Shows, Parking
  <2> QED BY <2>4, <2>5, <2>6 DEF Screen
<1> QED BY <1>1, <1>2

(* start() of a tied input takes them all.                                 *)
LEMMA InStartScreen ==
    ASSUME VInv, Screen, InStart
    PROVE  Screen'
<1>1. CASE ~tied BY <1>1, QuietScreen DEF InStart
<1>2. CASE tied
  <2>1. /\ \A s \in Slot : out_frames'[s] = None
        /\ UNCHANGED <<out_active, out_now, out_running, out_irq, desiredframe, parked, tied,
                       wpc, out_pc, out_odd>>
        /\ out_pc = "idle" /\ wpc \in {"idle", "wait"}
    BY <1>2 DEF InStart, Empty, LoopFree
  <2>2. Registers' BY <1>2, <2>1 DEF Registers
  <2>3. Modes' BY <1>2, <2>1 DEF Screen, Modes, Parking
  <2>4. Shown' BY <2>1 DEF Shown, Shows, Parking
  <2> QED BY <2>2, <2>3, <2>4 DEF Screen
<1> QED BY <1>1, <1>2

(* tie(None): the park pointer goes to where the output is ...             *)
LEMMA PointScreen ==
    ASSUME VInv, Screen, tied, Point,
           UNCHANGED <<out_frames, out_reg, out_active, out_now, out_running, out_irq, parked,
                       out_odd, tied>>,
           wpc # "point" /\ wpc' \notin {"place", "point", "untie"},
           wpc' = "park" => wpc = "untie",
           out_pc' # "start"
    PROVE  Screen'
<1>1. Registers' BY DEF Screen, Registers
<1>2. Modes' BY DEF Screen, Modes
<1>3. ~out_odd' => Shown' BY DEF Screen, Shown, Shows, Point
<1> QED BY <1>1, <1>2, <1>3 DEF Screen

(* ... and the output is parked.                                           *)
LEMMA ParkScreen ==
    ASSUME VInv, Screen, Park, Parking,
           UNCHANGED <<out_frames, out_reg, out_active, out_now, out_running, out_irq,
                       desiredframe, out_odd>>,
           wpc # "point", wpc' # "point", out_pc' = "idle",
           wpc' # "park", wpc' \in {"untie", "place"} => wpc \in {"untie", "park", "place"}
    PROVE  Screen'
<1>1. out_active \in Slot /\ desiredframe \in Slot BY DEF VInv, TypeOK
<1>2. tied /\ ~tied' /\ parked' BY DEF Park, Screen, Modes
<1>3. Registers' BY <1>1, <1>2 DEF Screen, Registers
<1>4. Modes' BY <1>2 DEF Screen, Modes, Parking
<1>5. ~out_odd' => Shown' BY <1>1, <1>2 DEF Screen, Shown, Shows, Recent, Parking
<1> QED BY <1>3, <1>4, <1>5 DEF Screen

LEMMA TieScreen ==
    ASSUME VInv, Screen, Tie
    PROVE  Screen'
<1>1. /\ \A s \in Slot : out_frames'[s] = None
      /\ tied' /\ wpc' \in {"idle", "wait"} /\ out_pc' = "idle"
      /\ UNCHANGED <<out_now, out_running>>
  BY DEF Tie, Empty, LoopFree
<1> QED BY <1>1 DEF Screen, Registers, Modes, Parking, Shown, Shows

LEMMA OutStartScreen ==
    ASSUME VInv, Screen, OutStart
    PROVE  Screen'
<1>1. /\ NewFrame # None /\ Unowned(NewFrame) BY NewFrameFresh DEF VInv, OutStart
<1>2. \A s \in Slot : NewFrame # out_reg[s]
  <2>1. NewFrame \in Fresh BY DEF NewFrame, OutStart
  <2> QED BY <1>1, <2>1 DEF Fresh, Owned
<1>3. /\ 0 \in Slot /\ out_reg \in Store /\ out_frames \in Store /\ desiredframe \in Slot
  BY Slots DEF VInv, TypeOK
<1>4. /\ \A s \in Slot : out_frames'[s] = IF s = 0 THEN NewFrame ELSE out_frames[s]
      /\ \A s \in Slot : out_reg'[s] = IF s = 0 THEN NewFrame ELSE out_reg[s]
  BY <1>3 DEF OutStart, Store
<1>5. /\ out_running' /\ parked' /\ out_pc' = "start" /\ out_odd' = out_running
      /\ ~out_running => out_active' = desiredframe /\ out_now' = out_reg'[desiredframe]
      /\ UNCHANGED <<out_irq, desiredframe, tied, wpc>>
      /\ wpc \in {"idle", "wait"} /\ out_pc = "idle"
  BY DEF OutStart, LoopFree
<1>6. \A s \in Slot : NewFrame # out_frames[s] BY <1>1 DEF Unowned
<1>7. Registers'
  <2>1. ASSUME tied', NEW s \in Slot, NEW t \in Slot,
               out_reg'[s] = out_frames'[t], out_frames'[t] # None
        PROVE  s = t
    BY <1>2, <1>4, <1>5, <1>6, <2>1 DEF Screen, Registers
  <2>2. ASSUME ~tied', NEW t \in Slot, out_reg'[desiredframe] = out_frames'[t],
               out_frames'[t] # None
        PROVE  t = desiredframe
    BY <1>2, <1>3, <1>4, <1>5, <1>6, <2>2 DEF Screen, Registers, Placed
  <2>3. out_reg'[0] = out_frames'[0] BY <1>3, <1>4
  <2> QED BY <1>5, <2>1, <2>2, <2>3 DEF Registers, Placed
<1>8. Modes' BY <1>5 DEF Screen, Modes, Parking
<1>9. ASSUME ~out_running PROVE Shown'
  <2>1. ASSUME tied, NEW s \in Slot, Shows(s)' PROVE s = out_active'
    BY <1>3, <1>5, <1>7, <1>9, <2>1 DEF Registers, Shows
  <2>2. ASSUME ~tied, NEW s \in Slot, Shows(s)' PROVE s = desiredframe'
    BY <1>3, <1>5, <1>7, <1>9, <2>2 DEF Registers, Shows, Placed
  <2>3. ASSUME out_irq, NEW s \in Slot, out_frames'[s] # None PROVE s = 0
    BY <1>4, <1>9, <2>3 DEF Screen, Modes
  <2> QED BY <1>5, <2>1, <2>2, <2>3 DEF Shown, Recent, Parking
<1> QED BY <1>5, <1>7, <1>8, <1>9 DEF Screen

(* The park pointer goes to store 0, the only one with a frame when the    *)
(* interrupt of before the start is still there.                           *)
LEMMA StartPointScreen ==
    ASSUME VInv, Screen, StartPoint
    PROVE  Screen'
<1>1. /\ UNCHANGED <<out_frames, out_reg, out_active, out_now, out_running, out_irq, parked,
                     out_odd, tied, wpc>>
      /\ desiredframe' = 0 /\ out_pc = "start" /\ out_pc' = "idle"
      /\ wpc \in {"idle", "wait"} /\ 0 \in Slot
  BY Slots DEF StartPoint, VInv, Locals
<1>2. Registers'
  <2>1. ASSUME NEW t \in Slot, out_reg[0] = out_frames[t], out_frames[t] # None PROVE t = 0
    BY <1>1, <2>1 DEF Screen, Registers, VInv, Owners, Distinct
  <2> QED BY <1>1, <2>1 DEF Screen, Registers
<1>3. Modes' BY <1>1 DEF Screen, Modes, Parking
<1>4. ~out_odd' => Shown' BY <1>1 DEF Screen, Shown, Shows, Recent, Parking
<1> QED BY <1>2, <1>3, <1>4 DEF Screen

LEMMA OutStopScreen ==
    ASSUME VInv, Screen, OutStop
    PROVE  Screen'
<1>1. /\ \A s \in Slot : out_frames'[s] = None
      /\ parked' /\ out_now' = None /\ UNCHANGED <<tied, wpc, out_pc>>
      /\ wpc \in {"idle", "wait"} /\ out_pc = "idle"
  BY DEF OutStop, Empty, LoopFree
<1> QED BY <1>1 DEF Screen, Registers, Modes, Parking, Shown, Shows

LEMMA WriteReadyScreen ==
    ASSUME VInv, Screen, WriteReady
    PROVE  Screen'
<1>1. /\ UNCHANGED <<out_frames, out_reg, out_active, out_now, out_running, desiredframe,
                     parked, out_pc, out_odd, tied>>
      /\ out_irq /\ ~out_irq' /\ wpc = "wait" /\ wpc' = "untie" /\ out_pc = "idle"
  BY DEF WriteReady, LoopFree
<1>2. Registers' BY <1>1 DEF Screen, Registers, Placed
<1>3. Modes' BY <1>1 DEF Screen, Modes, Parking
<1>4. ~out_odd' => Shown' BY <1>1 DEF Screen, Shown, Shows, Recent, Placed, Parking, NextFrame
<1> QED BY <1>2, <1>3, <1>4 DEF Screen

LEMMA WriteUntieScreen ==
    ASSUME VInv, Screen, WriteUntie
    PROVE  Screen'
<1>0. out_pc = "idle" /\ UNCHANGED out_pc BY DEF WriteUntie, VInv, Locals
<1>1. CASE tied BY <1>0, <1>1, PointScreen DEF WriteUntie
<1>2. CASE ~tied
  <2>1. /\ UNCHANGED <<out_frames, out_reg, out_active, out_now, out_running, out_irq,
                       desiredframe, parked, out_pc, out_odd, tied>>
        /\ wpc = "untie" /\ wpc' = "place"
    BY <1>2 DEF WriteUntie
  <2>2. Registers' BY <1>0, <1>2, <2>1 DEF Screen, Registers, Placed
  <2>3. Modes' BY <1>0, <1>2, <2>1 DEF Screen, Modes, Parking
  <2>4. ~out_odd' => Shown'
    BY <1>0, <1>2, <2>1 DEF Screen, Shown, Shows, Recent, Placed, Parking, NextFrame
  <2> QED BY <2>2, <2>3, <2>4 DEF Screen
<1> QED BY <1>1, <1>2

LEMMA WritePlaceScreen ==
    ASSUME N >= 3, VInv, Screen, WritePlace
    PROVE  Screen'
<1> DEFINE n == NextFrame(desiredframe)
<1>1. /\ desiredframe \in Slot /\ out_reg \in Store /\ out_frames \in Store
      /\ n \in Slot /\ n # desiredframe
  BY NextFrameOther DEF VInv, TypeOK
<1>2. /\ \A s \in Slot : out_frames'[s] = IF s = n THEN frame ELSE out_frames[s]
      /\ \A s \in Slot : out_reg'[s] = IF s = n THEN frame ELSE out_reg[s]
      /\ wpc = "place" /\ wpc' = "point" /\ ~tied /\ n' = n /\ out_pc = "idle"
      /\ UNCHANGED <<out_active, out_now, out_running, out_irq, desiredframe, parked, tied,
                     out_pc, out_odd>>
  BY <1>1 DEF WritePlace, Store, Screen, Modes, NextFrame, VInv, Locals
<1>3. \A s \in Slot : Placed(s)' <=> s = n BY <1>2 DEF Placed
<1> HIDE DEF n
<1>4. Registers'
  <2>1. ASSUME NEW t \in Slot, out_reg'[desiredframe] = out_frames'[t], out_frames'[t] # None
        PROVE  t = desiredframe \/ t = n
    BY <1>1, <1>2, <2>1 DEF Screen, Registers, Placed
  <2>2. out_reg'[n] = out_frames'[n] BY <1>1, <1>2
  <2> QED BY <1>2, <1>3, <2>1, <2>2 DEF Registers, n
<1>5. Modes' BY <1>2 DEF Screen, Modes, Parking
<1>6. ~out_odd' => Shown'
  <2>1. ASSUME NEW s \in Slot, Shows(s)', s # n PROVE Shows(s)
    BY <1>2, <2>1 DEF Shows
  <2> QED BY <1>2, <1>3, <2>1 DEF Screen, Shown, Placed, Recent, Parking
<1> QED BY <1>4, <1>5, <1>6 DEF Screen

LEMMA WritePointScreen ==
    ASSUME VInv, Screen, WritePoint
    PROVE  Screen'
<1> DEFINE n == NextFrame(desiredframe)
<1>1. /\ desiredframe \in Slot /\ n \in Slot /\ Distinct(out_frames)
  BY NextFrameIs DEF VInv, TypeOK, Owners
<1>2. /\ wpc = "point" /\ wpc' = "idle" /\ ~tied /\ desiredframe' = n /\ out_pc = "idle"
      /\ UNCHANGED <<out_frames, out_reg, out_active, out_now, out_running, out_irq, parked,
                     tied, out_pc, out_odd>>
  BY DEF WritePoint, Screen, Modes, VInv, Locals
<1>3. Registers'
  <2>1. out_reg[n] = out_frames[n] BY <1>1, <1>2 DEF Screen, Registers
  <2> QED BY <1>1, <1>2, <2>1 DEF Registers, Distinct
<1>4. Modes' BY <1>2 DEF Screen, Modes, Parking
<1>5. ~out_odd' => Shown'
  BY <1>1, <1>2 DEF Screen, Shown, Shows, Placed, Recent, NextFrame, Parking
<1> QED BY <1>3, <1>4, <1>5 DEF Screen

LEMMA NextScreen ==
    ASSUME N >= 3, VInv, Screen, [Next]_vars
    PROVE  Screen'
<1>1. CASE InBoundary \/ Read \/ ReadReady \/ ReadActive \/ TakeFrame \/ UNCHANGED vars
  BY <1>1, QuietScreen DEF InBoundary, Read, ReadReady, ReadActive, TakeFrame, vars
<1>2. ASSUME NEW f \in Frame, Drop(f) \/ Write(f) PROVE Screen'
  BY <1>2, QuietScreen DEF Drop, Write
<1>3. CASE InStop
  <2>1. CASE tied BY <1>3, <2>1, PointScreen DEF InStop, LoopFree
  <2>2. CASE ~tied BY <1>3, <2>2, QuietScreen DEF InStop
  <2> QED BY <2>1, <2>2
<1>4. CASE Untie BY <1>4, PointScreen DEF Untie, LoopFree
<1>5. CASE TiePark
  <2>1. Parking /\ wpc \in {"idle", "wait"} BY <1>5 DEF TiePark, Parking, VInv, Locals
  <2> QED BY <1>5, <2>1, ParkScreen DEF TiePark
<1>6. CASE WritePark
  <2>1. Parking /\ out_pc = "idle" BY <1>6 DEF WritePark, Parking, VInv, Locals
  <2> QED BY <1>6, <2>1, ParkScreen DEF WritePark
<1> QED BY <1>1, <1>2, <1>3, <1>4, <1>5, <1>6, OutBoundaryScreen, ReadSwapScreen,
           InStartScreen, TieScreen, OutStartScreen, StartPointScreen, OutStopScreen,
           WriteReadyScreen, WriteUntieScreen, WritePlaceScreen, WritePointScreen
    DEF Next, ReadStep, WriteStep

(* With three stores or more a write never frees the frame on the screen:  *)
(* it goes to the store after the park pointer's, and what is shown is     *)
(* that store's or the one before it - but up to the boundary after the    *)
(* pointer was moved by start() of a running output, or while a boundary   *)
(* passed.                                                                 *)
THEOREM OutputKept == ASSUME N >= 3 PROVE Spec => OutputOwned
<1>1. ASSUME VInv, Screen, WritePlace, ~out_odd, out_now \in Owned(out_frames)
      PROVE  out_now \in Owned(out_frames')
  <2> DEFINE n == NextFrame(desiredframe)
  <2>1. /\ desiredframe \in Slot /\ out_frames \in Store /\ n \in Slot /\ n # desiredframe
        /\ NextFrame(n) # desiredframe /\ wpc = "place" /\ ~tied
    BY <1>1, NextFrameOther DEF VInv, TypeOK, WritePlace, Screen, Modes
  <2>2. PICK s \in Slot : out_frames[s] = out_now /\ out_now # None
    BY <1>1 DEF Owned
  <2>3. Recent(s) BY <1>1, <2>1, <2>2 DEF Screen, Shown, Shows, Placed
  <2>4. s # n BY <2>1, <2>3 DEF Recent
  <2>5. out_frames'[s] = out_frames[s] BY <1>1, <2>1, <2>4 DEF WritePlace, Store
  <2> QED BY <2>2, <2>5 DEF Owned
<1>2. ASSUME VInv, [Next]_vars, wpc = "place", ~WritePlace
      PROVE  UNCHANGED out_frames
  <2>1. rpc \in {"idle", "wait"} /\ out_pc = "idle" BY <1>2 DEF VInv, Locals
  <2> QED BY <1>2, <2>1 DEF Next, vars, ReadStep, WriteStep, InBoundary, OutBoundary, Read,
            ReadReady, ReadActive, ReadSwap, InStart, InStop, Tie, Untie, TiePark, OutStart,
            StartPoint, OutStop, TakeFrame, Drop, Write, WriteReady, WriteUntie, WritePark,
            WritePoint, LoopFree
<1>3. VInv /\ Screen /\ [Next]_vars
          => (wpc = "place" /\ out_now \in Owned(out_frames) /\ ~out_odd
                 => out_now \in Owned(out_frames'))
  BY <1>1, <1>2
<1>4. Init => Screen BY InitScreen
<1>5. VInv /\ Screen /\ [Next]_vars => Screen' BY NextScreen
<1>6. VInv /\ Screen /\ [Next]_vars
          => [wpc = "place" /\ out_now \in Owned(out_frames) /\ ~out_odd
                 => out_now \in Owned(out_frames')]_vars
  BY <1>3
<1> QED BY <1>4, <1>5, <1>6, AlwaysVideo, PTL DEF Spec, OutputOwned
=============================================================================
