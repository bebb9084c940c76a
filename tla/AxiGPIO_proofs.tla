--------------------------- MODULE AxiGPIO_proofs ---------------------------
(***************************************************************************)
(* The invariants of AxiGPIO, for any number of tasks and values.          *)
(***************************************************************************)
EXTENDS AxiGPIO, FiniteSetTheorems, TLAPS

(* The tasks that _waiter_count stands for, and the cancelled one it still *)
(* counts.                                                                 *)
Inside(c) == {t \in Task : at[t] \in {"register", "await", "leave"} /\ chan(t) = c}
Stray(c) == IF c \in cancelled THEN 1 ELSE 0
Counted == \A c \in Channel : waiters[c] = Cardinality(Inside(c)) + Stray(c)
Enabled == \A c \in Channel : c \in ier <=> waiters[c] > 0

(* Only a task at its await is suspended.  An enabled status bit has       *)
(* latched an interrupt, and until a task is suspended the bit is there if *)
(* its value came.                                                         *)
Suspended == \A t \in Task : awaiting[t] # None => at[t] = "await"
Level == isr \cap ier # {} => active # {}
Noticed ==
    \A t \in Task : at[t] # "done" /\ input[chan(t)] = goal(t) =>
        /\ at[t] \in {"enable", "register"} => chan(t) \in isr
        /\ awaiting[t] # None => active # {}

GInv == GpioTypeOK /\ Counted /\ Enabled /\ Suspended /\ Level /\ Noticed

-----------------------------------------------------------------------------
USE DEF Goto, Return, chan, goal, Latched

(* One task goes in, or out; nobody else's place changes.                  *)
LEMMA InsideFinite ==
    ASSUME NEW c \in Channel
    PROVE  IsFiniteSet(Inside(c)) /\ Cardinality(Inside(c)) \in Nat
<1>1. Inside(c) \subseteq Task BY DEF Inside
<1> QED BY <1>1, GpioAssumption, FS_Subset, FS_CardinalityType

LEMMA GoesIn ==
    ASSUME NEW c \in Channel, NEW t \in Task, t \notin Inside(c),
           Inside(c)' = Inside(c) \cup {t}
    PROVE  Cardinality(Inside(c)') = Cardinality(Inside(c)) + 1
BY InsideFinite, FS_AddElement

LEMMA GoesOut ==
    ASSUME NEW c \in Channel, NEW t \in Task, t \in Inside(c),
           Inside(c)' = Inside(c) \ {t}
    PROVE  Cardinality(Inside(c)') = Cardinality(Inside(c)) - 1
BY InsideFinite, FS_RemoveElement

(* Somebody inside keeps the channel enabled.                              *)
LEMMA InsideEnables ==
    ASSUME GInv, NEW t \in Task, at[t] \in {"register", "await", "leave"}
    PROVE  chan(t) \in Channel /\ chan(t) \in ier /\ waiters[chan(t)] > 0
<1>1. chan(t) \in Channel BY DEF GInv, GpioTypeOK
<1>2. t \in Inside(chan(t)) BY DEF Inside
<1>3. Cardinality(Inside(chan(t))) \in Nat /\ Cardinality(Inside(chan(t))) # 0
  BY <1>1, <1>2, InsideFinite, FS_EmptySet
<1>4. waiters[chan(t)] > 0 BY <1>1, <1>3 DEF GInv, Counted, Stray
<1> QED BY <1>1, <1>4 DEF GInv, Enabled

LEMMA InitGInv == GpioInit => GInv
<1> SUFFICES ASSUME GpioInit PROVE GInv
  OBVIOUS
<1>1. GpioTypeOK BY GpioAssumption DEF GpioInit, GpioTypeOK, At, Channel, Irq!ServiceInit
<1>2. \A c \in Channel : Inside(c) = {} BY DEF GpioInit, Inside
<1>3. Counted BY <1>2, FS_EmptySet DEF Counted, Stray, GpioInit
<1> QED BY <1>1, <1>3 DEF GInv, GpioInit, Enabled, Suspended, Level, Noticed, Irq!ServiceInit

(* A step that keeps everybody's place and the counts.                     *)
LEMMA SamePlaces ==
    ASSUME GInv, \A t \in Task : (at'[t] \in {"register", "await", "leave"})
                                    = (at[t] \in {"register", "await", "leave"}),
           \A t \in Task : at[t] \in {"register", "await", "leave"} => call'[t] = call[t],
           UNCHANGED <<waiters, cancelled, ier>>
    PROVE  Counted' /\ Enabled'
<1>1. \A c \in Channel : Inside(c)' = Inside(c) BY DEF Inside
<1>2. Counted' BY <1>1 DEF GInv, Counted, Stray
<1> QED BY <1>2 DEF GInv, Enabled

-----------------------------------------------------------------------------
LEMMA WaitForValueInv ==
    ASSUME GInv, NEW t \in Task, NEW c \in Channel, NEW v \in Value, WaitForValue(t, c, v)
    PROVE  GInv'
<1>1. GpioTypeOK' BY GpioAssumption DEF WaitForValue, LoopFree, GInv, GpioTypeOK, At
<1>2. Counted' /\ Enabled'
  BY SamePlaces DEF WaitForValue, GInv, GpioTypeOK
<1>3. Suspended' /\ Level' /\ Noticed'
  BY DEF WaitForValue, GInv, GpioTypeOK, Suspended, Level, Noticed
<1> QED BY <1>1, <1>2, <1>3 DEF GInv

LEMMA ReadInv ==
    ASSUME GInv, NEW t \in Task, Read(t)
    PROVE  GInv'
<1>1. GpioTypeOK' BY GpioAssumption DEF Read, GInv, GpioTypeOK, At
<1>2. Counted' /\ Enabled'
  BY SamePlaces DEF Read, GInv, GpioTypeOK
<1>3. Suspended' /\ Level'
  BY DEF Read, GInv, GpioTypeOK, Suspended, Level
<1>4. Noticed'
  BY DEF Read, GInv, GpioTypeOK, Noticed
<1> QED BY <1>1, <1>2, <1>3, <1>4 DEF GInv

LEMMA EnableInv ==
    ASSUME GInv, NEW t \in Task, Enable(t), NEW k \in Channel, k = chan(t)
    PROVE  GInv'
<1>1. GpioTypeOK' BY DEF Enable, GInv, GpioTypeOK, At
<1>2. Inside(k)' = Inside(k) \cup {t} /\ t \notin Inside(k)
  BY DEF Enable, Inside, GInv, GpioTypeOK
<1>3. \A c \in Channel \ {k} : Inside(c)' = Inside(c)
  BY DEF Enable, Inside, GInv, GpioTypeOK
<1>4. Counted'
  <2>1. SUFFICES ASSUME NEW c \in Channel
                 PROVE  waiters'[c] = Cardinality(Inside(c)') + Stray(c)'
    BY DEF Counted
  <2>2. Stray(c)' = Stray(c) BY DEF Stray, Enable
  <2>3. CASE c = k
    BY <1>2, <2>2, <2>3, GoesIn, InsideFinite DEF Enable, GInv, GpioTypeOK, Counted, Stray
  <2>4. CASE c # k
    BY <1>3, <2>2, <2>4 DEF Enable, GInv, GpioTypeOK, Counted
  <2> QED BY <2>3, <2>4
<1>5. Enabled' BY DEF Enable, First, GInv, GpioTypeOK, Enabled
<1>6. Suspended' /\ Level' /\ Noticed'
  BY DEF Enable, GInv, GpioTypeOK, Suspended, Level, Noticed
<1> QED BY <1>1, <1>4, <1>5, <1>6 DEF GInv

LEMMA RegisterInv ==
    ASSUME GInv, NEW t \in Task, Register(t)
    PROVE  GInv'
<1>1. GpioTypeOK' BY DEF Register, Irq!Await, GInv, GpioTypeOK, At
<1>2. Counted' /\ Enabled'
  BY SamePlaces DEF Register, GInv, GpioTypeOK
<1>3. Suspended' /\ Level'
  BY DEF Register, Irq!Await, GInv, GpioTypeOK, Suspended, Level
<1>4. input[chan(t)] = goal(t) => active # {}
  BY InsideEnables DEF Register, GInv, Noticed, Level
<1>5. Noticed'
  BY <1>4 DEF Register, Irq!Await, GInv, GpioTypeOK, Noticed
<1> QED BY <1>1, <1>2, <1>3, <1>5 DEF GInv

LEMMA ClearInv ==
    ASSUME GInv, NEW t \in Task, Clear(t)
    PROVE  GInv'
<1>1. GpioTypeOK' BY DEF Clear, Own, LoopFree, GInv, GpioTypeOK, At
<1>2. Counted' /\ Enabled'
  BY SamePlaces DEF Clear, GInv, GpioTypeOK
<1>3. Suspended' /\ Level'
  BY DEF Clear, Own, GInv, GpioTypeOK, Suspended, Level
<1>4. Noticed'
  BY DEF Clear, LoopFree, GInv, GpioTypeOK, Noticed
<1> QED BY <1>1, <1>2, <1>3, <1>4 DEF GInv

LEMMA LeaveInv ==
    ASSUME GInv, NEW t \in Task, Leave(t), NEW k \in Channel, k = chan(t)
    PROVE  GInv'
<1>0. waiters[k] > 0 BY InsideEnables DEF Leave
<1>1. GpioTypeOK' BY <1>0 DEF Leave, GInv, GpioTypeOK, At
<1>2. Inside(k)' = Inside(k) \ {t} /\ t \in Inside(k)
  BY DEF Leave, Inside, GInv, GpioTypeOK
<1>3. \A c \in Channel \ {k} : Inside(c)' = Inside(c)
  BY DEF Leave, Inside, GInv, GpioTypeOK
<1>4. Counted'
  <2>1. SUFFICES ASSUME NEW c \in Channel
                 PROVE  waiters'[c] = Cardinality(Inside(c)') + Stray(c)'
    BY DEF Counted
  <2>2. Stray(c)' = Stray(c) BY DEF Stray, Leave
  <2>3. CASE c = k
    BY <1>0, <1>2, <2>2, <2>3, GoesOut, InsideFinite DEF Leave, GInv, GpioTypeOK, Counted, Stray
  <2>4. CASE c # k
    BY <1>0, <1>3, <2>2, <2>4 DEF Leave, GInv, GpioTypeOK, Counted
  <2> QED BY <2>3, <2>4
<1>5. Enabled' BY <1>0 DEF Leave, Last, GInv, GpioTypeOK, Enabled
<1>6. Suspended' /\ Level' /\ Noticed'
  BY DEF Leave, GInv, GpioTypeOK, Suspended, Level, Noticed
<1> QED BY <1>1, <1>4, <1>5, <1>6 DEF GInv

(* The count stays, and the task that it counted is the stray one.         *)
LEMMA CancelInv ==
    ASSUME GInv, NEW t \in Task, Cancel(t), NEW k \in Channel, k = chan(t)
    PROVE  GInv'
<1>1. GpioTypeOK' BY DEF Cancel, Irq!Abandon, LoopFree, GInv, GpioTypeOK, At
<1>2. Inside(k)' = Inside(k) \ {t} /\ t \in Inside(k)
  BY DEF Cancel, Inside, GInv, GpioTypeOK
<1>3. \A c \in Channel \ {k} : Inside(c)' = Inside(c)
  BY DEF Cancel, Inside, GInv, GpioTypeOK
<1>4. Counted'
  <2>1. SUFFICES ASSUME NEW c \in Channel
                 PROVE  waiters'[c] = Cardinality(Inside(c)') + Stray(c)'
    BY DEF Counted
  <2>2. CASE c = k
    <3>1. waiters'[c] = waiters[c] /\ Stray(c) = 0 /\ Stray(c)' = 1
      BY <2>2 DEF Cancel, Stray
    <3>2. Cardinality(Inside(c)') = Cardinality(Inside(c)) - 1
      BY <1>2, <2>2, GoesOut
    <3> QED BY <3>1, <3>2, InsideFinite DEF GInv, Counted
  <2>3. CASE c # k
    BY <1>3, <2>3 DEF Cancel, GInv, GpioTypeOK, Counted, Stray
  <2> QED BY <2>2, <2>3
<1>5. Enabled' BY DEF Cancel, GInv, Enabled
<1>6. Suspended' /\ Level' /\ Noticed'
  BY DEF Cancel, Irq!Abandon, GInv, GpioTypeOK, Suspended, Level, Noticed
<1> QED BY <1>1, <1>4, <1>5, <1>6 DEF GInv

LEMMA ChangeInv ==
    ASSUME GInv, NEW c \in Channel, NEW v \in Value, Change(c, v)
    PROVE  GInv'
<1>1. GpioTypeOK' BY DEF Change, GInv, GpioTypeOK
<1>2. Counted' /\ Enabled'
  BY SamePlaces DEF Change
<1>3. Suspended' /\ Level'
  BY DEF Change, GInv, GpioTypeOK, Suspended, Level
<1>4. Noticed'
  <2>1. SUFFICES ASSUME NEW t \in Task, at[t] # "done", input'[chan(t)] = goal(t)
                 PROVE  /\ at[t] \in {"enable", "register"} => chan(t) \in isr'
                        /\ awaiting[t] # None => active' # {}
    BY DEF Noticed, Change
  <2>2. CASE chan(t) # c
    BY <2>1, <2>2 DEF Change, GInv, GpioTypeOK, Noticed
  <2>3. CASE chan(t) = c
    <3>1. c \in isr' BY DEF Change
    <3>2. awaiting[t] # None => c \in ier'
      BY <2>3, InsideEnables DEF Change, GInv, Suspended
    <3> QED BY <2>3, <3>1, <3>2 DEF Change
  <2> QED BY <2>2, <2>3
<1> QED BY <1>1, <1>2, <1>3, <1>4 DEF GInv

LEMMA ServiceInv ==
    ASSUME GInv, Release \/ Forget
    PROVE  GInv'
<1>1. GpioTypeOK' BY DEF Release, Forget, Irq!Release, Irq!Forget, GInv, GpioTypeOK
<1>2. Counted' /\ Enabled'
  BY SamePlaces DEF Release, Forget
<1>3. ASSUME Release PROVE (Suspended /\ Level /\ Noticed)'
  BY <1>3 DEF Release, Irq!Release, GInv, GpioTypeOK, Suspended, Level, Noticed
<1>4. ASSUME Forget PROVE (Suspended /\ Level /\ Noticed)'
  <2>1. \A t \in Task : awaiting[t] = None
    BY <1>4 DEF Forget, Irq!Forget, GInv, GpioTypeOK
  <2> QED BY <1>4, <2>1 DEF Forget, Irq!Forget, GInv, GpioTypeOK, Suspended, Level, Noticed
<1>5. (Suspended /\ Level /\ Noticed)' BY <1>3, <1>4
<1> QED BY <1>1, <1>2, <1>5 DEF GInv

LEMMA NextGInv == GInv /\ [GpioNext]_gpioVars => GInv'
<1> SUFFICES ASSUME GInv, [GpioNext]_gpioVars PROVE GInv'
  OBVIOUS
<1>1. CASE UNCHANGED gpioVars
  BY <1>1 DEF gpioVars, GInv, GpioTypeOK, Counted, Enabled, Suspended, Level, Noticed,
     Inside, Stray
<1>2. ASSUME NEW t \in Task, NEW c \in Channel, NEW v \in Value, WaitForValue(t, c, v)
      PROVE  GInv'
  BY <1>2, WaitForValueInv
<1>3. ASSUME NEW t \in Task, Step(t) \/ Clear(t) \/ Cancel(t) PROVE GInv'
  <2>1. at[t] \in {"enable", "leave", "await"} => chan(t) \in Channel
    BY DEF GInv, GpioTypeOK
  <2> QED
    BY <1>3, <2>1, ReadInv, EnableInv, RegisterInv, LeaveInv, ClearInv, CancelInv
       DEF Step, Enable, Leave, Cancel
<1>4. ASSUME NEW c \in Channel, NEW v \in Value, Change(c, v) PROVE GInv'
  BY <1>4, ChangeInv
<1>5. CASE Release \/ Forget BY <1>5, ServiceInv
<1> QED BY <1>1, <1>2, <1>3, <1>4, <1>5 DEF GpioNext

LEMMA GInvariant == GpioSpec => []GInv
BY InitGInv, NextGInv, PTL DEF GpioSpec

(* Types, and one task at a time inside of the code.                       *)
THEOREM TypeCorrect == GpioSpec => []GpioTypeOK
<1>1. GInv => GpioTypeOK BY DEF GInv
<1> QED BY <1>1, GInvariant, PTL

(* No waiter of any number, on either channel, is left with its value      *)
(* there and no interrupt under way.                                       *)
THEOREM NoMissedValue == GpioSpec => []NothingMissed
<1>1. ASSUME GInv, NEW t \in Task, at[t] = "await", awaiting[t] # None
      PROVE  chan(t) \in ier /\ (input[chan(t)] = goal(t) => active # {})
  BY <1>1, InsideEnables DEF GInv, Noticed
<1>2. GInv => NothingMissed BY <1>1 DEF NothingMissed
<1> QED BY <1>2, GInvariant, PTL

(* A channel without a cancelled wait is enabled exactly while somebody    *)
(* waits.                                                                  *)
THEOREM EnabledExactly == GpioSpec => []EnabledForWaiters
<1>1. ASSUME GInv, LoopFree, NEW c \in Channel \ cancelled
      PROVE  c \in ier <=> \E t \in Task : at[t] = "await" /\ chan(t) = c
  <2>1. Inside(c) = {t \in Task : at[t] = "await" /\ chan(t) = c}
    BY <1>1 DEF LoopFree, Inside
  <2>2. waiters[c] = Cardinality(Inside(c)) /\ Cardinality(Inside(c)) \in Nat
    BY <1>1, InsideFinite DEF GInv, Counted, Stray
  <2>3. waiters[c] = 0 <=> Inside(c) = {}
    BY <1>1, <2>2, InsideFinite, FS_EmptySet
  <2> QED BY <1>1, <2>1, <2>2, <2>3 DEF GInv, Enabled
<1>2. GInv => EnabledForWaiters BY <1>1 DEF EnabledForWaiters
<1> QED BY <1>2, GInvariant, PTL
=============================================================================
