--------------------------- MODULE AxiIntc_proofs ---------------------------
(***************************************************************************)
(* Proofs about AxiIntc for every controller tree, every wiring of pins    *)
(* and every number of tasks: the inductive invariant IInv, the invariants *)
(* that follow from it, no lost wakeup, and that AxiIntc implements        *)
(* InterruptService.                                                       *)
(***************************************************************************)
EXTENDS AxiIntc, FiniteSetTheorems, TLAPS

USE DEF Node, Source, Entry, Call, TaskState, TakenFromUio, Disable,
        CountAfterLine, Acknowledge, StillAwaited, FirstOfLine, FirstOfUio

(* What only depends on the wait lists, the call stack and the tasks.      *)
Lists == CountExact /\ Homes /\ StackInv /\ PlaceInv /\ TaskInv

(* A step that leaves those alone leaves Lists alone.                      *)
LEMMA ListsUnchanged ==
    ASSUME Lists, UNCHANGED <<handles, event_number, flag, waiting, task,
                              control, call, events, todo>>
    PROVE  Lists'
BY DEF Lists, CountExact, Homes, StackInv, PlaceInv, TaskInv, AtHome, Active,
       Taken, Calling, InPlace, Listed, NodeOf, LineOf

LEMMA ParentIsOther ==
    \A c \in Ctrl : Parent[c] \in Node /\ Parent[c] # c
<1> SUFFICES ASSUME NEW c \in Ctrl PROVE Parent[c] \in Node /\ Parent[c] # c
  OBVIOUS
<1>1. Parent \in [Ctrl -> Node] BY TreeAssumption
<1>2. c \notin Above[c] /\ Above[c] = Above[Parent[c]] \cup {Parent[c]}
  BY TreeAssumption
<1> QED BY <1>1, <1>2

LEMMA NotSuspended ==
    \A i \in Intr : None # <<i, "await">>
<1> SUFFICES ASSUME NEW i \in Intr PROVE <<i, "await">> # None
  OBVIOUS
<1>1. <<i, "await">> \in Intr \X {"await", "woken"} OBVIOUS
<1>2. None \notin Intr \X {"await", "woken"} BY TreeAssumption
<1> QED BY <1>1, <1>2

(* The hardware moves, the software does not.                              *)
LEMMA HardwareStep ==
    ASSUME IInv, Hardware PROVE IInv'
<1> USE TreeAssumption DEF hardware, tasks, locals
<1>1. IInv <=> TypeOK /\ EnabledIffAwaited /\ Armed /\ Lists
  BY DEF IInv, Lists
<1>2. ASSUME NEW p \in Pin, Raise(p) \/ Lower(p) PROVE IInv'
  <2>1. TypeOK'
    <3>1. CASE Raise(p)
      <4>1. isr' \in [Ctrl -> SUBSET Line] BY <3>1 DEF IInv, TypeOK, Raise
      <4> QED BY <3>1, <4>1 DEF IInv, TypeOK, Raise
    <3>2. CASE Lower(p) BY <3>2 DEF IInv, TypeOK, Lower
    <3> QED BY <1>2, <3>1, <3>2
  <2>2. EnabledIffAwaited' /\ Armed'
    BY <1>2 DEF IInv, Raise, Lower, EnabledIffAwaited, Armed, At
  <2>3. Lists' BY <1>1, <1>2, ListsUnchanged DEF Raise, Lower
  <2> QED BY <2>1, <2>2, <2>3 DEF IInv, Lists
<1>3. ASSUME NEW c \in Ctrl, NEW n \in Line, Latch(c, n) PROVE IInv'
  <2>1. TypeOK' BY <1>3 DEF IInv, TypeOK, Latch
  <2>2. EnabledIffAwaited' /\ Armed'
    BY <1>3 DEF IInv, Latch, EnabledIffAwaited, Armed, At
  <2>3. Lists' BY <1>1, <1>3, ListsUnchanged DEF Latch
  <2> QED BY <2>1, <2>2, <2>3 DEF IInv, Lists
<1>4. ASSUME NEW u \in Uio, KernelIrq(u) PROVE IInv'
  <2>1. TypeOK' BY <1>4 DEF IInv, TypeOK, KernelIrq
  <2>2. EnabledIffAwaited' /\ Armed'
    BY <1>4 DEF IInv, KernelIrq, EnabledIffAwaited, Armed, At
  <2>3. Lists' BY <1>1, <1>4, ListsUnchanged DEF KernelIrq
  <2> QED BY <2>1, <2>2, <2>3 DEF IInv, Lists
<1> QED BY <1>2, <1>3, <1>4 DEF Hardware

-----------------------------------------------------------------------------
(* Entering and leaving the callback of a UIO.                             *)
LEMMA UioCallbackStep ==
    ASSUME IInv, NEW u \in Uio, UioCallback(u) PROVE IInv'
<1> USE TreeAssumption DEF hardware, tasks, locals, UioCallback, LoopFree
<1>1. TypeOK' BY DEF IInv, TypeOK
<1>2. EnabledIffAwaited' /\ Armed'
  BY DEF IInv, TypeOK, EnabledIffAwaited, Armed, At
<1>3. CountExact' BY DEF IInv, TypeOK, CountExact
<1>4. Homes' BY DEF IInv, TypeOK, Homes, AtHome, NodeOf, LineOf
<1>5. StackInv'
  <2>1. \A x \in Node : events[x] = {} /\ todo[x] = {}
    BY DEF IInv, TypeOK, StackInv, Active
  <2>2. \A x \in Node : Active(x)' <=> x = u
    BY DEF Active, IInv, TypeOK
  <2> QED BY <2>1, <2>2, FS_EmptySet DEF IInv, TypeOK, StackInv, Active
<1>6. PlaceInv'
  <2>1. \A x \in Node : todo[x] = {} BY DEF IInv, TypeOK, StackInv, Active
  <2>2. \A c \in Ctrl : ~Active(c)' BY DEF Active, IInv, TypeOK
  <2>3. \A c \in Ctrl : ~Calling(c)' /\ ~Calling(c) /\ ~Active(c)
    BY DEF Calling, Active
  <2>4. SUFFICES ASSUME NEW c \in Ctrl,
                        IF handles[c] = {} THEN ~Listed(Parent[c], Number[c], c)
                        ELSE Listed(Parent[c], Number[c], c),
                        \A d, e \in handles[Parent[c]] :
                            d[2] = c /\ e[2] = c => d = e
                 PROVE  /\ \A d, e \in handles'[Parent[c]] : d[2] = c /\ e[2] = c => d = e
                        /\ \A d, e \in todo'[Parent[c]] : d[2] = c /\ e[2] = c => d = e
                        /\ Listed(Parent[c], Number[c], c)' => ~Taken(Parent[c], c)'
                        /\ IF handles'[c] = {}
                           THEN ~Listed(Parent[c], Number[c], c)' /\ ~Taken(Parent[c], c)'
                           ELSE Listed(Parent[c], Number[c], c)' \/ Taken(Parent[c], c)'
    BY <2>1, <2>2, <2>3 DEF IInv, PlaceInv, Taken
  <2>5. Parent[c] \in Node /\ handles'[c] = handles[c] /\ c # u
    BY DEF IInv, TypeOK
  <2>6. CASE Parent[c] = u
    <3>1. handles'[u] = {} /\ todo'[u] = handles[u] BY DEF IInv, TypeOK
    <3>2. \A e \in handles[u] : e[2] = c => e[1] = Number[c]
      BY <2>6 DEF IInv, Homes, AtHome
    <3> QED BY <2>4, <2>5, <2>6, <3>1, <3>2 DEF Listed, Taken
  <2>7. CASE Parent[c] # u
    <3>1. handles'[Parent[c]] = handles[Parent[c]] /\ todo'[Parent[c]] = {}
      BY <2>1, <2>5, <2>7 DEF IInv, TypeOK
    <3> QED BY <2>4, <2>5, <3>1 DEF Listed, Taken
  <2> QED BY <2>6, <2>7
<1>7. TaskInv'
  <2>1. ASSUME NEW i \in Intr, InPlace(i) PROVE InPlace(i)'
    <3>1. Listed(NodeOf(i), LineOf(i), i)
      BY <2>1 DEF InPlace, Taken, Calling, IInv, StackInv, Active, TypeOK, NodeOf
    <3>2. PICK e \in handles[NodeOf(i)] : e[1] = LineOf(i) /\ e[2] = i
      BY <3>1 DEF Listed
    <3>3. NodeOf(i) \in Node BY DEF NodeOf
    <3>4. CASE NodeOf(i) = u
      <4>1. e \in todo'[u] BY <3>2, <3>4 DEF IInv, TypeOK
      <4> QED BY <4>1, <3>2, <3>4 DEF InPlace, Taken, NodeOf
    <3>5. CASE NodeOf(i) # u
      <4>1. e \in handles'[NodeOf(i)] BY <3>2, <3>3, <3>5 DEF IInv, TypeOK
      <4> QED BY <4>1, <3>2 DEF InPlace, Listed, NodeOf, LineOf
    <3> QED BY <3>4, <3>5
  <2> QED BY <2>1 DEF TaskInv, IInv, TypeOK
<1> QED BY <1>1, <1>2, <1>3, <1>4, <1>5, <1>6, <1>7 DEF IInv

LEMMA CallbackDoneStep ==
    ASSUME IInv, NEW u \in Uio, CallbackDone(u) PROVE IInv'
<1> USE TreeAssumption DEF hardware, tasks, locals, CallbackDone, Executing
<1>1. TypeOK' BY DEF IInv, TypeOK
<1>2. EnabledIffAwaited' /\ Armed'
  BY DEF IInv, TypeOK, EnabledIffAwaited, Armed, At
<1>3. CountExact' BY DEF IInv, TypeOK, CountExact
<1>4. Homes' BY DEF IInv, TypeOK, Homes, AtHome, NodeOf, LineOf
<1>5. \A x \in Node : Active(x) <=> x = u
  BY DEF Active, IInv, TypeOK
<1>6. StackInv'
  BY <1>5, FS_EmptySet DEF IInv, TypeOK, StackInv, Active
<1>7. PlaceInv'
  BY <1>5 DEF IInv, TypeOK, PlaceInv, Listed, Taken, Calling, Active
<1>8. TaskInv'
  BY DEF IInv, TypeOK, TaskInv, InPlace, Listed, Taken, Calling, NodeOf, LineOf
<1> QED BY <1>1, <1>2, <1>3, <1>4, <1>6, <1>7, <1>8 DEF IInv

-----------------------------------------------------------------------------
(* Calling the set() of the entries taken.                                 *)
LEMMA NotifyIntrStep ==
    ASSUME IInv, NEW x \in Node, NEW e \in Entry, NotifyIntr(x, e)
    PROVE  IInv'
<1> USE TreeAssumption DEF hardware, tasks, locals, NotifyIntr, Executing
<1>1. TypeOK'
  <2>1. \A t \in Task : task'[t] \in TaskState
    BY DEF IInv, TypeOK
  <2> QED BY <2>1 DEF IInv, TypeOK
<1>2. EnabledIffAwaited' /\ Armed' /\ CountExact'
  BY DEF IInv, TypeOK, EnabledIffAwaited, Armed, At, CountExact
<1>3. \A y \in Node : todo'[y] \subseteq todo[y] /\ (y # x => todo'[y] = todo[y])
  BY DEF IInv, TypeOK
<1>4. Homes' BY <1>3 DEF IInv, Homes, AtHome, NodeOf, LineOf
<1>5. StackInv' BY <1>3 DEF IInv, StackInv, Active
<1>6. PlaceInv'
  <2>1. \A c \in Ctrl : \A y \in Node : Taken(y, c)' <=> Taken(y, c)
    BY DEF Taken, IInv, TypeOK
  <2>2. \A y \in Node : Active(y)' <=> Active(y) BY DEF Active
  <2> QED BY <1>3, <2>1, <2>2, ParentIsOther DEF IInv, PlaceInv, Listed, Calling
<1>7. TaskInv'
  <2>1. ASSUME NEW i \in Intr, i # e[2], InPlace(i) PROVE InPlace(i)'
    BY <2>1 DEF InPlace, Listed, Taken, Calling, NodeOf, LineOf, IInv, TypeOK
  <2>2. \A i \in waiting' \ flag' : i \in waiting \ flag /\ i # e[2]
    OBVIOUS
  <2>3. \A t \in Task, i \in Intr : task'[t] = <<i, "await">> =>
            task[t] = <<i, "await">> /\ i # e[2]
    BY DEF IInv, TypeOK
  <2> QED BY <2>1, <2>2, <2>3 DEF TaskInv, IInv, TypeOK
<1> QED BY <1>1, <1>2, <1>4, <1>5, <1>6, <1>7 DEF IInv

LEMMA NotifyCtrlStep ==
    ASSUME IInv, NEW x \in Node, NEW e \in Entry, NotifyCtrl(x, e)
    PROVE  IInv'
<1> USE TreeAssumption DEF hardware, tasks, locals, NotifyCtrl, Executing
<1> DEFINE d == e[2]
<1>1. TypeOK'
  BY DEF IInv, TypeOK, Pending
<1>2. EnabledIffAwaited' /\ Armed' /\ CountExact'
  BY DEF IInv, TypeOK, EnabledIffAwaited, Armed, At, CountExact
<1>3. \A y \in Node : todo'[y] \subseteq todo[y] /\ (y # x => todo'[y] = todo[y])
  BY DEF IInv, TypeOK
<1>4. Homes' BY <1>3 DEF IInv, Homes, AtHome, NodeOf, LineOf
<1>5. d \in Ctrl /\ Parent[d] = x /\ e[1] = Number[d] /\ Taken(x, d)
  BY DEF IInv, Homes, AtHome, Taken
<1>6. ~Active(d) /\ ~Calling(d) /\ ~Listed(Parent[d], Number[d], d)
  BY <1>5 DEF IInv, PlaceInv
<1>7. \A y \in Node : Active(y)' <=> y = d \/ Active(y)
  BY <1>5 DEF Active, IInv, TypeOK
<1>8. StackInv'
  <2>1. events[x] # {} /\ events[d] = {} /\ call' = None
    BY <1>5, <1>6 DEF IInv, StackInv
  <2> QED BY <1>3, <1>5, <1>7, <2>1 DEF IInv, StackInv, TypeOK, Active
<1>9. PlaceInv'
  <2>1. \A c \in Ctrl \ {d} : \A y \in Node : Taken(y, c)' <=> Taken(y, c)
    BY DEF Taken, IInv, TypeOK
  <2>2. ~Taken(x, d)'
    <3>1. \A a, b \in todo[x] : a[2] = d /\ b[2] = d => a = b
      BY <1>5 DEF IInv, PlaceInv
    <3> QED BY <3>1 DEF Taken, IInv, TypeOK
  <2>3. handles[d] # {} BY <1>5 DEF IInv, PlaceInv
  <2>4. \A c \in Ctrl : Parent[c] \in Node OBVIOUS
  <2> QED
    BY <1>3, <1>5, <1>6, <1>7, <2>1, <2>2, <2>3, <2>4
    DEF IInv, PlaceInv, Listed, Calling
<1>10. TaskInv'
  <2>1. ASSUME NEW i \in Intr, InPlace(i) PROVE InPlace(i)'
    BY <2>1, <1>5 DEF InPlace, Listed, Taken, Calling, NodeOf, LineOf, IInv, TypeOK
  <2> QED BY <2>1 DEF TaskInv, IInv, TypeOK
<1> QED BY <1>1, <1>2, <1>4, <1>8, <1>9, <1>10 DEF IInv

-----------------------------------------------------------------------------
(* The loop of set().                                                      *)
LEMMA TakeLineStep ==
    ASSUME IInv, NEW c \in Ctrl, NEW n \in Line, TakeLine(c, n)
    PROVE  IInv'
<1> USE TreeAssumption DEF hardware, tasks, locals, TakeLine, Executing
<1>1. TypeOK'
  BY DEF IInv, TypeOK, At
<1>2. \A y \in Node \ {c} : /\ handles'[y] = handles[y]
                            /\ todo'[y] = todo[y] /\ events'[y] = events[y]
  BY DEF IInv, TypeOK
<1>3. /\ handles'[c] = handles[c] \ At(handles[c], n)
      /\ todo'[c] = At(handles[c], n) /\ events'[c] = At(handles[c], n)
      /\ todo[c] = {} /\ events[c] = {} /\ Active(c) /\ call = None
  BY DEF IInv, TypeOK, StackInv, Active
<1>4. EnabledIffAwaited'
  BY <1>2, <1>3 DEF IInv, TypeOK, EnabledIffAwaited, At
<1>5. CountExact'
  <2>1. IsFiniteSet(handles[c]) BY DEF IInv, StackInv
  <2>2. At(handles[c], n) \in SUBSET handles[c] BY DEF At
  <2>3. handles[c] \cap At(handles[c], n) = At(handles[c], n) BY <2>2
  <2>4. /\ Cardinality(handles[c]) \in Nat
        /\ Cardinality(At(handles[c], n)) \in Nat
    BY <2>1, <2>2, FS_Subset, FS_CardinalityType
  <2>5. Cardinality(handles'[c]) =
           Cardinality(handles[c]) - Cardinality(At(handles[c], n))
    <3> HIDE TreeAssumption DEF TakeLine
    <3> DEFINE T == At(handles[c], n)
    <3>1. Cardinality(handles[c] \ T) = Cardinality(handles[c]) - Cardinality(handles[c] \cap T)
      BY <2>1, FS_Difference
    <3> QED BY <1>3, <2>3, <3>1
  <2>6. event_number[c] = Cardinality(handles[c])
    <3>1. event_number[c] = Cardinality(handles[c]) + Cardinality(events[c])
      BY DEF IInv, CountExact
    <3>2. Cardinality(events[c]) = 0 BY <1>3, FS_EmptySet
    <3> QED BY <2>4, <3>1, <3>2
  <2>7. event_number'[c] = Cardinality(handles'[c]) + Cardinality(events'[c])
    BY <1>3, <2>4, <2>5, <2>6
  <2>8. \A b \in Ctrl \ {c} : event_number'[b] = Cardinality(handles'[b]) + Cardinality(events'[b])
    BY <1>2 DEF IInv, CountExact
  <2> QED BY <2>7, <2>8 DEF CountExact
<1>6. Homes'
  BY <1>2, <1>3 DEF IInv, Homes, AtHome, NodeOf, LineOf, At
<1>7. StackInv'
  <2>1. IsFiniteSet(handles'[c]) /\ IsFiniteSet(events'[c])
    <3>1. IsFiniteSet(handles[c]) BY DEF IInv, StackInv
    <3>2. handles'[c] \in SUBSET handles[c] /\ events'[c] \in SUBSET handles[c]
      BY <1>3 DEF At
    <3> QED BY <3>1, <3>2, FS_Subset
  <2>2. \A x \in Node : Active(x)' <=> Active(x) BY DEF Active
  <2>3. call' = None /\ control' = c BY <1>3
  <2> SUFFICES ASSUME NEW x \in Node
               PROVE  /\ IsFiniteSet(handles'[x]) /\ IsFiniteSet(events'[x])
                      /\ todo'[x] \subseteq events'[x]
                      /\ ~Active(x)' => events'[x] = {}
                      /\ Active(x)' /\ x # control' => events'[x] # {}
    BY <2>3 DEF StackInv
  <2>4. CASE x = c BY <1>3, <2>1, <2>2, <2>3, <2>4
  <2>5. CASE x # c BY <1>2, <2>2, <2>5 DEF IInv, StackInv
  <2> QED BY <2>4, <2>5
<1>8. Armed' BY <1>2, <1>3 DEF IInv, Armed, At
<1>9. PlaceInv'
  <2> SUFFICES ASSUME NEW b \in Ctrl
               PROVE  /\ \A d, e \in handles'[Parent[b]] : d[2] = b /\ e[2] = b => d = e
                      /\ \A d, e \in todo'[Parent[b]] : d[2] = b /\ e[2] = b => d = e
                      /\ Listed(Parent[b], Number[b], b)' =>
                           ~Taken(Parent[b], b)' /\ ~Active(b)' /\ ~Calling(b)'
                      /\ Taken(Parent[b], b)' => ~Active(b)' /\ ~Calling(b)'
                      /\ Calling(b)' => ~Active(b)'
                      /\ IF handles'[b] = {}
                         THEN ~Listed(Parent[b], Number[b], b)' /\ ~Taken(Parent[b], b)'
                              /\ ~Calling(b)'
                         ELSE \/ Listed(Parent[b], Number[b], b)' \/ Taken(Parent[b], b)'
                              \/ Calling(b)' \/ Active(b)'
    BY DEF PlaceInv
  <2>1. (Active(b)' <=> Active(b)) /\ ~Calling(b)' /\ ~Calling(b)
    BY <1>3 DEF Active, Calling
  <2>2. Parent[b] \in Node /\ Parent[c] # c
    BY ParentIsOther
  <2>3. /\ \A d, e \in handles[Parent[b]] : d[2] = b /\ e[2] = b => d = e
        /\ \A d, e \in todo[Parent[b]] : d[2] = b /\ e[2] = b => d = e
        /\ Listed(Parent[b], Number[b], b) => ~Taken(Parent[b], b) /\ ~Active(b)
        /\ Taken(Parent[b], b) => ~Active(b)
        /\ IF handles[b] = {}
           THEN ~Listed(Parent[b], Number[b], b) /\ ~Taken(Parent[b], b)
           ELSE Listed(Parent[b], Number[b], b) \/ Taken(Parent[b], b) \/ Active(b)
    BY <2>1 DEF IInv, PlaceInv
  <2>4. CASE Parent[b] = c
    <3>1. b # c /\ handles'[b] = handles[b] BY <2>2, <2>4, <1>2
    <3>2. \A e \in handles[c] : e[2] = b => e[1] = Number[b]
      BY <2>4 DEF IInv, Homes, AtHome
    <3>3. ~Taken(c, b) BY <1>3 DEF Taken
    <3>4. Taken(c, b)' <=> Listed(c, Number[b], b) /\ n = Number[b]
      BY <1>3, <3>2 DEF Taken, Listed, At
    <3>5. Listed(c, Number[b], b)' <=> Listed(c, Number[b], b) /\ n # Number[b]
      BY <1>3, <3>2 DEF Listed, At
    <3>6. handles'[c] \subseteq handles[c] /\ todo'[c] \subseteq handles[c]
      BY <1>3 DEF At
    <3> QED BY <2>1, <2>3, <2>4, <3>1, <3>3, <3>4, <3>5, <3>6
  <2>5. CASE Parent[b] # c
    <3>1. handles'[Parent[b]] = handles[Parent[b]] /\ todo'[Parent[b]] = todo[Parent[b]]
      BY <1>2, <2>2, <2>5
    <3>2. /\ Listed(Parent[b], Number[b], b)' <=> Listed(Parent[b], Number[b], b)
          /\ Taken(Parent[b], b)' <=> Taken(Parent[b], b)
      BY <3>1 DEF Listed, Taken
    <3>3. CASE b = c
      BY <1>3, <2>1, <2>3, <3>1, <3>2, <3>3
    <3>4. CASE b # c
      <4>1. handles'[b] = handles[b] BY <1>2, <3>4
      <4> QED BY <2>1, <2>3, <3>1, <3>2, <4>1
    <3> QED BY <3>3, <3>4
  <2> QED BY <2>4, <2>5
<1>10. TaskInv'
  <2>1. ASSUME NEW i \in Intr, InPlace(i) PROVE InPlace(i)'
    <3>1. NodeOf(i)' = NodeOf(i) /\ LineOf(i)' = LineOf(i) /\ NodeOf(i) \in Node
      BY DEF NodeOf, LineOf
    <3>2. CASE NodeOf(i) # c
      BY <1>2, <2>1, <3>1, <3>2 DEF InPlace, Listed, Taken, Calling
    <3>3. CASE NodeOf(i) = c
      <4>1. PICK e \in handles[c] : e[1] = LineOf(i) /\ e[2] = i
        BY <1>3, <2>1, <3>3 DEF InPlace, Listed, Taken, Calling
      <4>2. e \in handles'[c] \/ e \in todo'[c] BY <1>3 DEF At
      <4> QED BY <3>1, <3>3, <4>1, <4>2 DEF InPlace, Listed, Taken
    <3> QED BY <3>2, <3>3
  <2> QED BY <2>1 DEF TaskInv, IInv, TypeOK
<1> QED BY <1>1, <1>4, <1>5, <1>6, <1>7, <1>8, <1>9, <1>10 DEF IInv

LEMMA LineDoneStep ==
    ASSUME IInv, NEW c \in Ctrl, LineDone(c) PROVE IInv'
<1> USE TreeAssumption DEF hardware, tasks, locals, LineDone, Executing
<1>1. /\ Cardinality(handles[c]) \in Nat /\ Cardinality(events[c]) \in Nat
      /\ event_number[c] = Cardinality(handles[c]) + Cardinality(events[c])
  BY FS_CardinalityType DEF IInv, StackInv, CountExact
<1>2. event_number' = [event_number EXCEPT ![c] = Cardinality(handles[c])]
  <2>1. event_number[c] - Cardinality(events[c]) = Cardinality(handles[c])
    BY <1>1
  <2> QED BY <2>1
<1>3. TypeOK' BY <1>1, <1>2 DEF IInv, TypeOK
<1>4. EnabledIffAwaited' /\ Armed' BY DEF IInv, EnabledIffAwaited, Armed, At
<1>5. events'[c] = {} /\ \A y \in Node \ {c} : events'[y] = events[y]
  BY DEF IInv, TypeOK
<1>6. CountExact'
  <2>1. event_number'[c] = Cardinality(handles'[c]) + Cardinality(events'[c])
    BY <1>1, <1>2, <1>5, FS_EmptySet DEF IInv, TypeOK
  <2>2. \A b \in Ctrl \ {c} : event_number'[b] = Cardinality(handles'[b]) + Cardinality(events'[b])
    BY <1>2, <1>5 DEF IInv, TypeOK, CountExact
  <2> QED BY <2>1, <2>2 DEF CountExact
<1>7. Homes' BY DEF IInv, Homes, AtHome, NodeOf, LineOf
<1>8. StackInv' BY <1>5, FS_EmptySet DEF IInv, StackInv, Active
<1>9. PlaceInv' BY DEF IInv, PlaceInv, Listed, Taken, Calling, Active
<1>10. TaskInv'
  BY DEF IInv, TaskInv, InPlace, Listed, Taken, Calling, NodeOf, LineOf
<1> QED BY <1>3, <1>4, <1>6, <1>7, <1>8, <1>9, <1>10 DEF IInv

(* Returning from set(), with or without registering again.                *)
LEMMA SetDoneStep ==
    ASSUME IInv, NEW c \in Ctrl, SetDone(c) PROVE IInv'
<1> USE TreeAssumption DEF hardware, tasks, locals, SetDone, Executing
<1> DEFINE P == Parent[c]
<1>1. P \in Node /\ P # c /\ Number[c] \in Line BY ParentIsOther
<1>2. TypeOK'
  <2>1. call' \in Call \cup {None} BY <1>1
  <2> QED BY <1>1, <2>1 DEF IInv, TypeOK
<1>3. EnabledIffAwaited' /\ Armed' /\ CountExact'
  BY DEF IInv, EnabledIffAwaited, Armed, CountExact, At
<1>4. event_number[c] # 0 <=> handles[c] # {}
  <2>1. event_number[c] = Cardinality(handles[c]) + Cardinality(events[c])
    BY DEF IInv, CountExact
  <2>2. Cardinality(events[c]) = 0 BY FS_EmptySet
  <2>3. IsFiniteSet(handles[c]) BY DEF IInv, StackInv
  <2>4. Cardinality(handles[c]) \in Nat /\ (Cardinality(handles[c]) = 0 <=> handles[c] = {})
    BY <2>3, FS_CardinalityType, FS_EmptySet
  <2> QED BY <2>1, <2>2, <2>4
<1>5. None \notin Call BY TreeAssumption
<1>6. Calling(c)' <=> handles[c] # {}
  BY <1>1, <1>4, <1>5 DEF Calling
<1>7. \A b \in Source \ {c} : ~Calling(b)' /\ ~Calling(b)
  BY DEF Calling
<1>8. Active(c) /\ ~Calling(c) BY DEF Active, Calling, IInv, TypeOK
<1>9. \A y \in Node : Active(y) <=> y = c \/ Active(y)'
  BY <1>1 DEF Active, IInv, TypeOK
<1>10. ~Active(c)' BY <1>1 DEF Active
<1>11. Homes' BY <1>1 DEF IInv, Homes, AtHome, NodeOf, LineOf
<1>12. StackInv'
  <2>1. Active(P) /\ P # control BY <1>1, <1>9 DEF Active, IInv, TypeOK
  <2>2. events[P] # {} BY <1>1, <2>1 DEF IInv, StackInv
  <2>3. call' # None /\ control' # None => call'.to = control' /\ events'[control'] # {}
    BY <1>1, <2>2
  <2>4. \A x \in Node : ~Active(x)' => events'[x] = {}
    BY <1>9 DEF IInv, StackInv
  <2>5. \A x \in Node : Active(x)' /\ x # control' => events'[x] # {}
    BY <1>9, <1>10 DEF IInv, StackInv
  <2> QED BY <2>3, <2>4, <2>5 DEF IInv, StackInv
<1>13. PlaceInv'
  <2>1. \A b \in Ctrl : /\ Listed(Parent[b], Number[b], b)' <=> Listed(Parent[b], Number[b], b)
                        /\ Taken(Parent[b], b)' <=> Taken(Parent[b], b)
    BY DEF Listed, Taken
  <2>2. ~Listed(P, Number[c], c) /\ ~Taken(P, c) BY <1>8 DEF IInv, PlaceInv
  <2>3. \A b \in Ctrl \ {c} : (Active(b)' <=> Active(b)) /\ (Calling(b)' <=> Calling(b))
    BY <1>7, <1>9
  <2> QED BY <1>6, <1>10, <2>1, <2>2, <2>3 DEF IInv, PlaceInv
<1>14. TaskInv'
  <2>1. \A i \in Intr : InPlace(i)' <=> InPlace(i)
    BY <1>7 DEF InPlace, Listed, Taken, NodeOf, LineOf
  <2> QED BY <2>1 DEF IInv, TypeOK, TaskInv
<1> QED BY <1>2, <1>3, <1>11, <1>12, <1>13, <1>14 DEF IInv

-----------------------------------------------------------------------------
(* What add_event does to the wait list of a node x on behalf of s, apart  *)
(* from the counting: everything but the call it makes next.               *)
LEMMA EnlistLists ==
    ASSUME IInv, NEW x \in Node, call # None, call.to = x,
           Enlist(x, call.number, call.event),
           UNCHANGED <<todo, events, control, flag, waiting, task>>,
           call' = None \/ (/\ x \in Ctrl /\ event_number[x] = 0
                            /\ call' = [to |-> Parent[x], event |-> x,
                                        number |-> Number[x]]),
           x \in Ctrl /\ event_number[x] = 0 => call' # None
    PROVE  /\ Homes' /\ StackInv' /\ PlaceInv' /\ TaskInv'
           /\ handles' \in [Node -> SUBSET Entry]
           /\ call' \in Call \cup {None}
           /\ At(handles'[x], call.number) # {} /\ handles'[x] # {}
           /\ \A n \in Line \ {call.number} : At(handles'[x], n) = At(handles[x], n)
           /\ \A y \in Node \ {x} : handles'[y] = handles[y]
           /\ Cardinality(handles'[x]) = Cardinality(handles[x]) + 1
<1> USE TreeAssumption
<1> DEFINE s == call.event
           n == call.number
<1>1. s \in Source /\ n \in Line /\ Calling(s) /\ AtHome(x, n, s)
  BY DEF IInv, TypeOK, Homes, Calling
<1>2. PICK k \in Slot : /\ <<n, s, k>> \notin handles[x]
                        /\ handles' = [handles EXCEPT ![x] = @ \cup {<<n, s, k>>}]
  BY DEF Enlist
<1> DEFINE new == <<n, s, k>>
<1>3. handles'[x] = handles[x] \cup {new} /\ new \notin handles[x]
  BY <1>2 DEF IInv, TypeOK
<1>4. \A y \in Node \ {x} : handles'[y] = handles[y]
  BY <1>2 DEF IInv, TypeOK
<1>5. handles' \in [Node -> SUBSET Entry]
  BY <1>1, <1>2 DEF IInv, TypeOK
<1>6. At(handles'[x], n) # {} /\ handles'[x] # {}
  BY <1>3 DEF At
<1>7. \A m \in Line \ {n} : At(handles'[x], m) = At(handles[x], m)
  BY <1>3 DEF At
<1>8. Cardinality(handles'[x]) = Cardinality(handles[x]) + 1 /\ IsFiniteSet(handles'[x])
  <2>1. IsFiniteSet(handles[x]) BY DEF IInv, StackInv
  <2> DEFINE S == handles[x]
  <2>2. /\ IsFiniteSet(S \cup {new})
        /\ new \notin S => Cardinality(S \cup {new}) = Cardinality(S) + 1
    <3> HIDE DEF new
    <3> QED BY <2>1, FS_AddElement
  <2> QED BY <1>3, <2>2
<1>9. call' \in Call \cup {None}
  BY ParentIsOther
<1>10. Homes'
  BY <1>1, <1>3, <1>4, <1>9, ParentIsOther DEF IInv, Homes, AtHome, NodeOf, LineOf
<1>11. x \in Ctrl /\ event_number[x] = 0 => handles[x] = {} /\ events[x] = {}
  <2> SUFFICES ASSUME x \in Ctrl, event_number[x] = 0
               PROVE  handles[x] = {} /\ events[x] = {}
    OBVIOUS
  <2>1. 0 = Cardinality(handles[x]) + Cardinality(events[x])
    BY DEF IInv, CountExact
  <2>2. IsFiniteSet(handles[x]) /\ IsFiniteSet(events[x]) BY DEF IInv, StackInv
  <2>3. Cardinality(handles[x]) \in Nat /\ Cardinality(events[x]) \in Nat
    BY <2>2, FS_CardinalityType
  <2>4. Cardinality(handles[x]) = 0 /\ Cardinality(events[x]) = 0 BY <2>1, <2>3
  <2> QED BY <2>2, <2>4, FS_EmptySet
<1>12. call' # None => control = None
  BY <1>11 DEF IInv, StackInv
<1>13. \A y \in Node : Active(y)' <=> Active(y)
  BY DEF Active
<1>14. StackInv'
  BY <1>4, <1>8, <1>12, <1>13 DEF IInv, StackInv
<1>15. \A b \in Ctrl : Calling(b)' <=> b = x /\ x \in Ctrl /\ event_number[x] = 0
  BY <1>9 DEF Calling
<1>16. \A y \in Node, b \in Source : Taken(y, b)' <=> Taken(y, b)
  BY DEF Taken
<1>17. \A y \in Node, m \in Line, b \in Source :
          Listed(y, m, b)' <=> Listed(y, m, b) \/ (y = x /\ m = n /\ b = s)
  BY <1>3, <1>4 DEF Listed
<1>18. PlaceInv'
  <2> SUFFICES ASSUME NEW b \in Ctrl
               PROVE  /\ \A d, e \in handles'[Parent[b]] : d[2] = b /\ e[2] = b => d = e
                      /\ \A d, e \in todo'[Parent[b]] : d[2] = b /\ e[2] = b => d = e
                      /\ Listed(Parent[b], Number[b], b)' =>
                           ~Taken(Parent[b], b)' /\ ~Active(b)' /\ ~Calling(b)'
                      /\ Taken(Parent[b], b)' => ~Active(b)' /\ ~Calling(b)'
                      /\ Calling(b)' => ~Active(b)'
                      /\ IF handles'[b] = {}
                         THEN ~Listed(Parent[b], Number[b], b)' /\ ~Taken(Parent[b], b)'
                              /\ ~Calling(b)'
                         ELSE \/ Listed(Parent[b], Number[b], b)' \/ Taken(Parent[b], b)'
                              \/ Calling(b)' \/ Active(b)'
    BY DEF PlaceInv
  <2>1. /\ \A d, e \in handles[Parent[b]] : d[2] = b /\ e[2] = b => d = e
        /\ \A d, e \in todo[Parent[b]] : d[2] = b /\ e[2] = b => d = e
        /\ Listed(Parent[b], Number[b], b) =>
             ~Taken(Parent[b], b) /\ ~Active(b) /\ ~Calling(b)
        /\ Taken(Parent[b], b) => ~Active(b) /\ ~Calling(b)
        /\ Calling(b) => ~Active(b)
        /\ IF handles[b] = {}
           THEN ~Listed(Parent[b], Number[b], b) /\ ~Taken(Parent[b], b) /\ ~Calling(b)
           ELSE \/ Listed(Parent[b], Number[b], b) \/ Taken(Parent[b], b)
                \/ Calling(b) \/ Active(b)
    BY DEF IInv, PlaceInv
  <2>2. /\ Parent[b] \in Node /\ Number[b] \in Line /\ b \in Node
        /\ Active(b)' <=> Active(b)
        /\ Taken(Parent[b], b)' <=> Taken(Parent[b], b)
        /\ todo'[Parent[b]] = todo[Parent[b]]
    BY <1>13, <1>16, ParentIsOther
  <2>3. CASE b = s
    <3>1. x = Parent[b] /\ n = Number[b] BY <1>1, <2>3 DEF AtHome
    <3>2. b # x BY <3>1, ParentIsOther
    <3>3. Calling(b) /\ ~Calling(b)' BY <1>1, <1>15, <2>3, <3>2
    <3>4. handles'[b] = handles[b] BY <1>4, <2>2, <3>2
    <3>5. \A e \in handles[x] : e[2] # b
      <4>1. ~Listed(Parent[b], Number[b], b) BY <2>1, <3>3
      <4>2. \A e \in handles[x] : e[2] = b => e[1] = Number[b]
        BY <3>1 DEF IInv, Homes, AtHome
      <4> QED BY <3>1, <4>1, <4>2 DEF Listed
    <3>6. \A d, e \in handles'[x] : d[2] = b /\ e[2] = b => d = e
      BY <1>3, <3>5
    <3>7. Listed(Parent[b], Number[b], b)' BY <1>17, <2>2, <2>3, <3>1
    <3> QED BY <2>1, <2>2, <3>1, <3>3, <3>4, <3>6, <3>7
  <2>4. CASE b # s
    <3>1. Listed(Parent[b], Number[b], b)' <=> Listed(Parent[b], Number[b], b)
      BY <1>17, <2>2, <2>4
    <3>2. ~Calling(b) BY <2>4 DEF Calling
    <3>3. \A d, e \in handles'[Parent[b]] : d[2] = b /\ e[2] = b => d = e
      <4>1. CASE Parent[b] = x BY <1>3, <2>1, <2>4, <4>1
      <4>2. CASE Parent[b] # x BY <1>4, <2>1, <2>2, <4>2
      <4> QED BY <4>1, <4>2
    <3>4. CASE b = x
      <4>1. CASE event_number[x] = 0
        <5>1. handles[b] = {} /\ Calling(b)' BY <1>11, <1>15, <3>4, <4>1
        <5>2. ~Active(b)
          BY <1>12, <1>15, <5>1 DEF Active, Calling
        <5> QED BY <1>6, <2>1, <2>2, <3>1, <3>3, <3>4, <5>1, <5>2
      <4>2. CASE event_number[x] # 0
        <5>1. ~Calling(b)' BY <1>15, <4>2
        <5>2. handles[b] # {} \/ Active(b)
          <6>1. SUFFICES ASSUME handles[b] = {}, events[b] = {} PROVE FALSE
            BY <2>2 DEF IInv, StackInv
          <6>2. event_number[b] = 0
            <7>1. event_number[b] = Cardinality(handles[b]) + Cardinality(events[b])
              BY DEF IInv, CountExact
            <7> QED BY <6>1, <7>1, FS_EmptySet
          <6> QED BY <6>2, <3>4, <4>2
        <5> QED BY <1>6, <2>1, <2>2, <3>1, <3>2, <3>3, <3>4, <5>1, <5>2
      <4> QED BY <4>1, <4>2
    <3>5. CASE b # x
      <4>1. ~Calling(b)' /\ handles'[b] = handles[b] BY <1>4, <1>15, <2>2, <3>5
      <4> QED BY <2>1, <2>2, <3>1, <3>2, <3>3, <4>1
    <3> QED BY <3>4, <3>5
  <2> QED BY <2>3, <2>4
<1>19. TaskInv'
  <2>1. ASSUME NEW i \in Intr, InPlace(i) PROVE InPlace(i)'
    <3>1. NodeOf(i)' = NodeOf(i) /\ LineOf(i)' = LineOf(i)
          /\ NodeOf(i) \in Node /\ LineOf(i) \in Line
      BY DEF NodeOf, LineOf
    <3>2. CASE Calling(i)
      <4>1. i = s /\ i \notin Ctrl BY <3>2 DEF Calling
      <4>2. x = NodeOf(i) /\ n = LineOf(i) BY <1>1, <4>1 DEF AtHome
      <4> QED BY <1>17, <3>1, <4>1, <4>2 DEF InPlace
    <3>3. CASE Listed(NodeOf(i), LineOf(i), i) \/ Taken(NodeOf(i), i)
      BY <1>16, <1>17, <3>1, <3>3 DEF InPlace
    <3> QED BY <2>1, <3>2, <3>3 DEF InPlace
  <2> QED BY <2>1 DEF TaskInv, IInv, TypeOK
<1> QED BY <1>3, <1>4, <1>5, <1>6, <1>7, <1>8, <1>9, <1>10, <1>14, <1>18, <1>19

LEMMA CtrlAddEventStep ==
    ASSUME IInv, NEW c \in Ctrl, CtrlAddEvent(c) PROVE IInv'
<1> USE DEF hardware, tasks, locals, CtrlAddEvent
<1> DEFINE n == call.number
<1>1. n \in Line /\ c \in Node BY TreeAssumption DEF IInv, TypeOK
<1>2. None \notin Call /\ [to |-> Parent[c], event |-> c, number |-> Number[c]] \in Call
  BY TreeAssumption, ParentIsOther
<1>3. /\ Homes' /\ StackInv' /\ PlaceInv' /\ TaskInv'
      /\ handles' \in [Node -> SUBSET Entry]
      /\ call' \in Call \cup {None}
      /\ At(handles'[c], n) # {} /\ handles'[c] # {}
      /\ \A m \in Line \ {n} : At(handles'[c], m) = At(handles[c], m)
      /\ \A y \in Node \ {c} : handles'[y] = handles[y]
      /\ Cardinality(handles'[c]) = Cardinality(handles[c]) + 1
  BY <1>1, <1>2, EnlistLists
<1>4. TypeOK'
  <2>1. event_number' \in [Ctrl -> Nat] BY DEF IInv, TypeOK
  <2>2. ier' \in [Ctrl -> SUBSET Line] BY <1>1 DEF IInv, TypeOK
  <2> QED BY <1>3, <2>1, <2>2 DEF IInv, TypeOK
<1>5. CountExact'
  <2>1. event_number[c] = Cardinality(handles[c]) + Cardinality(events[c])
    BY DEF IInv, CountExact
  <2>2. Cardinality(handles[c]) \in Nat /\ Cardinality(events[c]) \in Nat
    BY FS_CardinalityType DEF IInv, StackInv
  <2>3. event_number'[c] = event_number[c] + 1
        /\ \A b \in Ctrl \ {c} : event_number'[b] = event_number[b]
    BY DEF IInv, TypeOK
  <2> QED BY <1>3, <2>1, <2>2, <2>3 DEF IInv, CountExact
<1>6. EnabledIffAwaited'
  <2> SUFFICES ASSUME NEW b \in Ctrl, NEW m \in Line
               PROVE  m \in ier'[b] <=> At(handles'[b], m) # {}
    BY DEF EnabledIffAwaited
  <2>1. m \in ier[b] <=> At(handles[b], m) # {} BY DEF IInv, EnabledIffAwaited
  <2>2. CASE b = c /\ m = n
    <3>1. n \in ier'[c] BY <2>1, <2>2 DEF IInv, TypeOK
    <3> QED BY <1>3, <2>2, <3>1
  <2>3. CASE ~(b = c /\ m = n)
    <3>1. m \in ier'[b] <=> m \in ier[b] BY <2>3 DEF IInv, TypeOK
    <3>2. At(handles'[b], m) = At(handles[b], m) BY <1>3, <2>3
    <3> QED BY <2>1, <3>1, <3>2
  <2> QED BY <2>2, <2>3
<1>7. Armed' BY <1>3, TreeAssumption DEF IInv, Armed
<1> QED BY <1>3, <1>4, <1>5, <1>6, <1>7 DEF IInv

LEMMA UioAddEventStep ==
    ASSUME IInv, NEW u \in Uio, UioAddEvent(u) PROVE IInv'
<1> USE DEF hardware, tasks, locals, UioAddEvent
<1>1. u \in Node /\ u \notin Ctrl BY TreeAssumption
<1>2. /\ Homes' /\ StackInv' /\ PlaceInv' /\ TaskInv'
      /\ handles' \in [Node -> SUBSET Entry]
      /\ call' \in Call \cup {None}
      /\ \A y \in Node \ {u} : handles'[y] = handles[y]
  BY <1>1, EnlistLists
<1>3. TypeOK' BY <1>2 DEF IInv, TypeOK
<1>4. \A c \in Ctrl : handles'[c] = handles[c] BY <1>1, <1>2
<1>5. CountExact' /\ EnabledIffAwaited'
  BY <1>4 DEF IInv, CountExact, EnabledIffAwaited
<1>6. Armed' BY <1>2, <1>4 DEF IInv, Armed
<1> QED BY <1>2, <1>3, <1>5, <1>6 DEF IInv

-----------------------------------------------------------------------------
(* The tasks.                                                              *)
LEMMA TaskStep ==
    ASSUME IInv, Tasks PROVE IInv'
<1> USE TreeAssumption DEF hardware, tasks, locals, LoopFree
<1>1. ASSUME NEW t \in Task, NEW i \in Intr, WaitRegister(t, i) PROVE IInv'
  <2> USE <1>1 DEF WaitRegister
  <2>1. NodeOf(i) \in Node /\ LineOf(i) \in Line /\ i \notin Ctrl BY DEF NodeOf, LineOf
  <2>2. call' \in Call /\ call' # None BY <2>1
  <2>3. TypeOK' BY <2>2 DEF IInv, TypeOK
  <2>4. EnabledIffAwaited' /\ Armed' /\ CountExact'
    BY DEF IInv, EnabledIffAwaited, Armed, CountExact, At
  <2>5. Homes' BY <2>1 DEF IInv, Homes, AtHome, NodeOf, LineOf
  <2>6. StackInv' BY DEF IInv, StackInv, Active
  <2>7. PlaceInv'
    <3>1. \A b \in Ctrl : ~Calling(b)' /\ ~Calling(b) BY <2>1, <2>2 DEF Calling
    <3> QED BY <3>1 DEF IInv, PlaceInv, Listed, Taken, Active
  <2>8. TaskInv'
    <3>1. InPlace(i)' BY <2>2 DEF InPlace, Calling
    <3>2. ASSUME NEW j \in Intr, InPlace(j) PROVE InPlace(j)'
      BY <3>2 DEF InPlace, Listed, Taken, Calling, NodeOf, LineOf
    <3>3. \A s \in Task, j \in Intr : task'[s] = <<j, "await">> =>
              j = i \/ task[s] = <<j, "await">>
      BY DEF IInv, TypeOK
    <3>4. \A j \in waiting' \ flag' : j = i \/ j \in waiting \ flag
      OBVIOUS
    <3>5. waiting' \subseteq Intr BY DEF IInv, TypeOK
    <3> QED BY <3>1, <3>2, <3>3, <3>4, <3>5 DEF IInv, TaskInv
  <2> QED BY <2>3, <2>4, <2>5, <2>6, <2>7, <2>8 DEF IInv
<1>2. ASSUME UNCHANGED <<hardware, handles, event_number, flag, call, locals>>,
             waiting' \subseteq waiting, task' \in [Task -> TaskState],
             \A t \in Task, i \in Intr : task'[t] = <<i, "await">> =>
                 task[t] = <<i, "await">> \/ i \in waiting \ flag
      PROVE  IInv'
  <2>1. TypeOK' BY <1>2 DEF IInv, TypeOK
  <2>2. EnabledIffAwaited' /\ Armed' /\ CountExact' /\ Homes' /\ StackInv'
    BY <1>2 DEF IInv, EnabledIffAwaited, Armed, CountExact, At, Homes, AtHome,
                NodeOf, LineOf, StackInv, Active
  <2>3. PlaceInv'
    BY <1>2 DEF IInv, PlaceInv, Listed, Taken, Calling, Active
  <2>4. TaskInv'
    <3>1. \A i \in Intr : InPlace(i)' <=> InPlace(i)
      BY <1>2 DEF InPlace, Listed, Taken, Calling, NodeOf, LineOf
    <3> QED BY <1>2, <3>1 DEF IInv, TypeOK, TaskInv
  <2> QED BY <2>1, <2>2, <2>3, <2>4 DEF IInv
<1>3. ASSUME NEW t \in Task, NEW i \in Intr, WaitShared(t, i) PROVE IInv'
  <2>1. task' \in [Task -> TaskState] BY <1>3 DEF WaitShared, IInv, TypeOK
  <2>2. \A s \in Task, j \in Intr : task'[s] = <<j, "await">> =>
            task[s] = <<j, "await">> \/ j \in waiting \ flag
    BY <1>3 DEF WaitShared, IInv, TypeOK
  <2> QED BY <1>2, <1>3, <2>1, <2>2 DEF WaitShared
<1>4. ASSUME NEW t \in Task, NEW i \in Intr, WaitReturns(t, i) PROVE IInv'
  <2>1. task' \in [Task -> TaskState] BY <1>4 DEF WaitReturns, IInv, TypeOK
  <2> QED BY <1>2, <1>4, <2>1 DEF WaitReturns
<1>5. ASSUME NEW t \in Task, Resume(t) \/ Cancel(t) PROVE IInv'
  <2>1. task' = [task EXCEPT ![t] = None] BY <1>5 DEF Resume, Cancel
  <2>2. task' \in [Task -> TaskState] BY <2>1 DEF IInv, TypeOK
  <2>3. \A s \in Task, j \in Intr : task'[s] = <<j, "await">> => task[s] = <<j, "await">>
    <3>1. \A s \in Task : task'[s] = IF s = t THEN None ELSE task[s]
      BY <2>1 DEF IInv, TypeOK
    <3> HIDE TreeAssumption
    <3> QED BY <3>1, NotSuspended
  <2>4. waiting' \subseteq waiting BY <1>5 DEF Resume, Cancel
  <2>5. UNCHANGED <<hardware, handles, event_number, flag, call, locals>>
    BY <1>5 DEF Resume, Cancel
  <2> QED BY <1>2, <2>2, <2>3, <2>4, <2>5
<1> QED BY <1>1, <1>3, <1>4, <1>5 DEF Tasks

-----------------------------------------------------------------------------
LEMMA InitIInv ==
    Init => IInv
<1> SUFFICES ASSUME Init PROVE IInv
  OBVIOUS
<1> USE TreeAssumption DEF Init
<1>1. TypeOK BY DEF TypeOK
<1>2. CountExact BY FS_EmptySet DEF CountExact
<1>3. EnabledIffAwaited /\ Armed BY DEF EnabledIffAwaited, Armed, At
<1>4. Homes /\ StackInv BY FS_EmptySet DEF Homes, StackInv, Active
<1>5. PlaceInv BY ParentIsOther DEF PlaceInv, Listed, Taken, Calling
<1>6. TaskInv BY DEF TaskInv
<1> QED BY <1>1, <1>2, <1>3, <1>4, <1>5, <1>6 DEF IInv

LEMMA NextIInv ==
    IInv /\ [Next]_vars => IInv'
<1> SUFFICES ASSUME IInv, [Next]_vars PROVE IInv'
  OBVIOUS
<1>1. CASE Hardware BY <1>1, HardwareStep
<1>2. CASE \E u \in Uio : UioCallback(u) BY <1>2, UioCallbackStep
<1>3. CASE Running
  BY <1>3, NotifyIntrStep, NotifyCtrlStep, TakeLineStep, LineDoneStep,
     SetDoneStep, CtrlAddEventStep, CallbackDoneStep, UioAddEventStep
  DEF Running
<1>4. CASE Tasks BY <1>4, TaskStep
<1>5. CASE UNCHANGED vars
  <2>1. Lists' BY <1>5, ListsUnchanged DEF IInv, Lists, vars, tasks, locals
  <2> QED BY <1>5, <2>1 DEF vars, hardware, tasks, locals, IInv, Lists,
                            TypeOK, EnabledIffAwaited, Armed, At
<1> QED BY <1>1, <1>2, <1>3, <1>4, <1>5 DEF Next

(* IInv is an invariant of AxiIntc, whatever the tree of controllers, the  *)
(* pins, the Interrupt objects that share them, and the tasks.             *)
THEOREM InductiveInvariant == Spec => []IInv
BY InitIInv, NextIInv, PTL DEF Spec

(* Every reachable state is well typed; in particular event_number never   *)
(* goes below zero, whatever set() and re-entrant add_event calls do.      *)
THEOREM TypeCorrect == Spec => []TypeOK
<1>1. IInv => TypeOK BY DEF IInv
<1> QED BY <1>1, InductiveInvariant, PTL

(* event_number is the number of entries on the wait lists, through        *)
(* re-entrant set() and add_event calls (interrupt.py:200,229).            *)
THEOREM CountsCorrect == Spec => []CountExact
<1>1. IInv => CountExact BY DEF IInv
<1> QED BY <1>1, InductiveInvariant, PTL

(* A line is enabled exactly while its list has an entry, whatever was     *)
(* latched in the meantime (interrupt.py:194-195,226-227).                 *)
THEOREM EnabledExact == Spec => []EnabledIffAwaited
<1>1. IInv => EnabledIffAwaited BY DEF IInv
<1> QED BY <1>1, InductiveInvariant, PTL

LEMMA IInvRegisteredOnce ==
    IInv => RegisteredOnce
<1> SUFFICES ASSUME IInv, LoopFree, NEW c \in Ctrl
             PROVE  Cardinality(Of(handles[Parent[c]], c)) =
                        IF handles[c] = {} THEN 0 ELSE 1
  BY DEF RegisteredOnce
<1>1. Parent[c] \in Node BY ParentIsOther
<1>2. ~Active(c) /\ ~Calling(c) BY DEF LoopFree, Active, Calling
<1>3. ~Taken(Parent[c], c)
  BY <1>1 DEF IInv, StackInv, LoopFree, Active, Taken
<1>4. \A e \in handles[Parent[c]] : e[2] = c => e[1] = Number[c]
  BY <1>1, TreeAssumption DEF IInv, Homes, AtHome
<1>5. CASE handles[c] = {}
  <2>1. Of(handles[Parent[c]], c) = {}
    BY <1>4, <1>5 DEF IInv, PlaceInv, Listed, Of
  <2> QED BY <1>5, <2>1, FS_EmptySet
<1>6. CASE handles[c] # {}
  <2>1. PICK e \in handles[Parent[c]] : e[2] = c
    BY <1>2, <1>3, <1>6 DEF IInv, PlaceInv, Listed
  <2>2. Of(handles[Parent[c]], c) = {e}
    BY <2>1 DEF IInv, PlaceInv, Of
  <2> QED BY <1>6, <2>2, FS_Singleton
<1> QED BY <1>5, <1>6

(* A controller with waiters is on its parent's wait list exactly once     *)
(* whenever the event loop is free; one without is not there.              *)
THEOREM RegistrationExact == Spec => []RegisteredOnce
BY InductiveInvariant, IInvRegisteredOnce, PTL

(* With the loop free, the nodes on the way from a non-empty wait list to  *)
(* the UIO all listen: the set of listening nodes is closed upwards, and   *)
(* what is above a node is the least such set.                             *)
LEMMA IInvWaiterArmed ==
    IInv => WaiterArmed
<1> SUFFICES ASSUME IInv, LoopFree, NEW t \in Task, NEW i \in Intr,
                    task[t] = <<i, "await">>
             PROVE  /\ Listed(NodeOf(i), LineOf(i), i)
                    /\ NodeOf(i) \in Ctrl => LineOf(i) \in ier[NodeOf(i)]
                    /\ \A x \in Above[NodeOf(i)] \cup {NodeOf(i)} : Listening(x)
  BY DEF WaiterArmed
<1>1. NodeOf(i) \in Node /\ LineOf(i) \in Line BY TreeAssumption DEF NodeOf, LineOf
<1>2. \A y \in Node, s \in Source : ~Taken(y, s) /\ ~Calling(s)
  BY DEF IInv, StackInv, LoopFree, Active, Taken, Calling
<1>3. Listed(NodeOf(i), LineOf(i), i)
  BY <1>1, <1>2 DEF IInv, TaskInv, InPlace
<1> DEFINE S == {x \in Node : handles[x] # {} /\ Listening(x)}
<1>4. ASSUME NEW x \in Node, handles[x] # {} PROVE x \in S
  <2>1. CASE x \in Uio BY <1>4, <2>1 DEF IInv, Armed, Listening
  <2>2. CASE x \in Ctrl
    <3>1. x \notin Uio /\ Parent[x] \in Node /\ Number[x] \in Line
      BY <2>2, TreeAssumption
    <3>2. Listed(Parent[x], Number[x], x)
      <4>1. ~Active(x) BY DEF LoopFree, Active
      <4>2. ~Taken(Parent[x], x) /\ ~Calling(x) BY <1>2, <2>2, <3>1
      <4> QED BY <1>4, <2>2, <4>1, <4>2 DEF IInv, PlaceInv
    <3>3. Parent[x] \in Ctrl => Number[x] \in ier[Parent[x]]
      BY <3>1, <3>2 DEF IInv, EnabledIffAwaited, Listed, At
    <3> QED BY <1>4, <2>2, <3>1, <3>2, <3>3 DEF IInv, Armed, Listening
  <2> QED BY <2>1, <2>2
<1>5. \A c \in S \cap Ctrl : Parent[c] \in S
  <2> SUFFICES ASSUME NEW c \in Ctrl, Listening(c) PROVE Parent[c] \in S
    OBVIOUS
  <2>1. c \notin Uio /\ Parent[c] \in Node BY TreeAssumption
  <2>2. handles[Parent[c]] # {} BY <2>1 DEF Listening, Listed
  <2> QED BY <1>4, <2>1, <2>2
<1>6. NodeOf(i) \in S BY <1>1, <1>3, <1>4 DEF Listed
<1>7. Above[NodeOf(i)] \subseteq S
  <2>1. S \in SUBSET Node OBVIOUS
  <2> HIDE DEF S
  <2> QED BY <1>5, <1>6, <2>1, TreeAssumption
<1>8. NodeOf(i) \in Ctrl => LineOf(i) \in ier[NodeOf(i)]
  BY <1>1, <1>3 DEF IInv, EnabledIffAwaited, Listed, At
<1> QED BY <1>3, <1>6, <1>7, <1>8

(* No lost wakeup: whenever the event loop is free, every suspended task   *)
(* is reachable from an unmasked UIO through enabled lines.                *)
THEOREM NoLostWakeup == Spec => []WaiterArmed
BY InductiveInvariant, IInvWaiterArmed, PTL

-----------------------------------------------------------------------------
(* Every tree of interrupt controllers implements InterruptService.        *)

(* What a callback holds on to: the lines set() read are latched until it  *)
(* acknowledges them; it serves entries of those lines only; and while a   *)
(* callback runs, only controllers register, so that whoever is on a list  *)
(* it has emptied is a controller.                                         *)
Served ==
    /\ control # None /\ call # None => call.event \in Ctrl
    /\ \A c \in Ctrl :
        /\ work[c] \subseteq irqs[c] /\ irqs[c] \subseteq isr[c]
        /\ ~Active(c) => irqs[c] = {}
        /\ \A e \in events[c] : e[1] \in irqs[c]
        /\ \A e \in handles[c] : e[1] \in irqs[c] \ work[c] => e[2] \in Ctrl
    /\ \A u \in Uio : Active(u) => \A e \in handles[u] : e[2] \in Ctrl

USE DEF hardware, tasks, locals
HIDE DEF CountAfterLine, FirstOfLine, FirstOfUio

LEMMA InitServed ==
    Init => Served
BY DEF Init, Served, Active

(* Latching more keeps it, as long as lists and callbacks stay.            *)
LEMMA ServedUnchanged ==
    ASSUME Served, UNCHANGED <<handles, control, call, irqs, work, events>>,
           \A c \in Ctrl : isr[c] \subseteq isr'[c]
    PROVE  Served'
<1>1. \A x \in Node : Active(x)' <=> Active(x) BY DEF Active
<1> QED BY <1>1 DEF Served

LEMMA HardwareServed ==
    ASSUME IInv, Served, Hardware PROVE Served'
<1> USE TreeAssumption DEF IInv, TypeOK
<1>1. ASSUME NEW p \in Pin, Raise(p) PROVE Served'
  <2>1. \A c \in Ctrl : isr[c] \subseteq isr'[c] BY <1>1 DEF Raise
  <2> QED BY <1>1, <2>1, ServedUnchanged DEF Raise
<1>2. ASSUME NEW p \in Pin, Lower(p) PROVE Served'
  BY <1>2, ServedUnchanged DEF Lower
<1>3. ASSUME NEW c \in Ctrl, NEW n \in Line, Latch(c, n) PROVE Served'
  <2>1. \A d \in Ctrl : isr[d] \subseteq isr'[d] BY <1>3 DEF Latch
  <2> QED BY <1>3, <2>1, ServedUnchanged DEF Latch
<1>4. ASSUME NEW u \in Uio, KernelIrq(u) PROVE Served'
  BY <1>4, ServedUnchanged DEF KernelIrq
<1> QED BY <1>1, <1>2, <1>3, <1>4 DEF Hardware

(* The callback of u begins with the wait list of u emptied.               *)
LEMMA UioCallbackServed ==
    ASSUME IInv, Served, NEW u \in Uio, UioCallback(u) PROVE Served'
<1> USE TreeAssumption DEF IInv, TypeOK, UioCallback, LoopFree
<1>1. \A x \in Node : (Active(x)' <=> x = u) /\ ~Active(x) BY DEF Active
<1>2. \A c \in Ctrl : c # u /\ irqs[c] = {} BY <1>1 DEF Served
<1>3. handles'[u] = {} OBVIOUS
<1>4. \A c \in Ctrl : handles'[c] = handles[c] /\ events'[c] = events[c]
  BY <1>2
<1> QED BY <1>1, <1>2, <1>3, <1>4 DEF Served

LEMMA CallbackDoneServed ==
    ASSUME IInv, Served, NEW u \in Uio, CallbackDone(u) PROVE Served'
<1> USE TreeAssumption DEF IInv, TypeOK, CallbackDone, Executing
<1>1. \A x \in Node : (Active(x) <=> x = u) /\ ~Active(x)' BY DEF Active
<1>2. \A c \in Ctrl : c # u /\ irqs[c] = {} BY <1>1 DEF Served
<1>3. \A c \in Ctrl : events'[c] = events[c] BY <1>2
<1> QED BY <1>1, <1>2, <1>3 DEF Served

(* The set() of d begins: what it reads is latched, all of it to be        *)
(* visited.                                                                *)
LEMMA NotifyCtrlServed ==
    ASSUME IInv, Served, NEW x \in Node, NEW e \in Entry, NotifyCtrl(x, e)
    PROVE  Served'
<1> DEFINE d == e[2]
<1> USE TreeAssumption DEF NotifyCtrl, Executing
<1>1. d \in Ctrl /\ Parent[d] = x /\ Taken(x, d)
  BY DEF IInv, Homes, AtHome, Taken
<1>2. ~Active(d) BY <1>1 DEF IInv, PlaceInv
<1>3. events[d] = {} BY <1>1, <1>2 DEF IInv, StackInv
<1>4. \A y \in Node : Active(y)' <=> y = d \/ Active(y)
  BY <1>1 DEF Active, IInv, TypeOK
<1>5. /\ irqs'[d] = Pending(d) /\ work'[d] = Pending(d)
      /\ \A c \in Ctrl \ {d} : irqs'[c] = irqs[c] /\ work'[c] = work[c]
  BY <1>1 DEF IInv, TypeOK
<1>6. Pending(d) \subseteq isr[d] BY DEF Pending
<1>7. \A u \in Uio : Active(u)' <=> Active(u) BY <1>1, <1>4
<1> QED BY <1>1, <1>3, <1>4, <1>5, <1>6, <1>7 DEF Served

LEMMA TakeLineServed ==
    ASSUME IInv, Served, NEW c \in Ctrl, NEW n \in Line, TakeLine(c, n)
    PROVE  Served'
<1> USE TreeAssumption DEF IInv, TypeOK, TakeLine, Executing
<1>1. \A x \in Node : Active(x)' <=> Active(x) BY DEF Active
<1>2. /\ work'[c] = work[c] \ {n} /\ n \in irqs[c]
      /\ events'[c] = At(handles[c], n)
      /\ handles'[c] = handles[c] \ At(handles[c], n)
  BY DEF Served
<1>3. \A x \in Node \ {c} : handles'[x] = handles[x] /\ events'[x] = events[x]
  OBVIOUS
<1>4. \A b \in Ctrl \ {c} : work'[b] = work[b] OBVIOUS
<1>5. \A e \in handles'[c] : e[1] # n BY <1>2 DEF At
<1>6. \A e \in events'[c] : e[1] = n BY <1>2 DEF At
<1> QED BY <1>1, <1>2, <1>3, <1>4, <1>5, <1>6 DEF Served

LEMMA LineDoneServed ==
    ASSUME IInv, Served, NEW c \in Ctrl, LineDone(c) PROVE Served'
<1> USE TreeAssumption DEF IInv, TypeOK, LineDone, Executing
<1>1. \A x \in Node : Active(x)' <=> Active(x) BY DEF Active
<1>2. \A b \in Ctrl : events'[b] \subseteq events[b] OBVIOUS
<1> QED BY <1>1, <1>2 DEF Served

(* Who runs after set() has returned into its parent's loop.               *)
LEMMA Returned ==
    ASSUME IInv, NEW c \in Ctrl, SetDone(c)
    PROVE  \A x \in Node : Active(x) <=> (x = c \/ Active(x)')
<1>1. /\ control = c /\ control' = Parent[c] /\ c # None
      /\ Parent[c] # None
      /\ Above[c] = Above[Parent[c]] \cup {Parent[c]}
  BY TreeAssumption DEF SetDone, Executing
<1> QED BY <1>1 DEF Active

LEMMA SetDoneServed ==
    ASSUME IInv, Served, NEW c \in Ctrl, SetDone(c) PROVE Served'
<1> USE TreeAssumption DEF IInv, TypeOK, SetDone, Executing
<1>1. \A x \in Node : Active(x) <=> (x = c \/ Active(x)') BY Returned
<1>2. irqs'[c] = {} /\ \A b \in Ctrl \ {c} : irqs'[b] = irqs[b] /\ isr'[b] = isr[b]
  OBVIOUS
<1>3. c \notin Uio /\ events[c] = {} /\ work[c] = {} OBVIOUS
<1>4. call' # None => call'.event \in Ctrl OBVIOUS
<1>5. \A u \in Uio : Active(u)' => Active(u) BY <1>1
<1> QED BY <1>1, <1>2, <1>3, <1>4, <1>5 DEF Served

(* While a callback runs, what is put on a list is a controller.           *)
LEMMA EnlistServed ==
    ASSUME IInv, Served, NEW x \in Node, call # None, call.to = x,
           Enlist(x, call.number, call.event),
           call' # None => call'.event \in Ctrl,
           UNCHANGED <<isr, control, irqs, work, events>>
    PROVE  Served'
<1> USE TreeAssumption
<1>1. \A y \in Node : Active(y)' <=> Active(y) BY DEF Active
<1>2. handles \in [Node -> SUBSET Entry] BY DEF IInv, TypeOK
<1>3. \A y \in Node : \A e \in handles'[y] :
          e \in handles[y] \/ e[2] = call.event
  BY <1>2 DEF Enlist
<1>4. CASE control # None
  BY <1>1, <1>3, <1>4 DEF Served
<1>5. CASE control = None
  <2>1. \A y \in Node : ~Active(y) BY <1>5 DEF Active
  <2> QED BY <1>1, <1>5, <2>1 DEF Served
<1> QED BY <1>4, <1>5

LEMMA AddEventServed ==
    ASSUME IInv, Served, NEW x \in Node,
           \/ x \in Ctrl /\ CtrlAddEvent(x)
           \/ x \in Uio /\ UioAddEvent(x)
    PROVE  Served'
<1>1. CASE x \in Ctrl /\ CtrlAddEvent(x)
  <2>1. call' # None => call'.event \in Ctrl BY <1>1 DEF CtrlAddEvent
  <2> QED BY <1>1, <2>1, EnlistServed DEF CtrlAddEvent
<1>2. CASE x \in Uio /\ UioAddEvent(x)
  BY <1>2, EnlistServed DEF UioAddEvent
<1> QED BY <1>1, <1>2

LEMMA TasksServed ==
    ASSUME IInv, Served, Tasks PROVE Served'
<1>1. ASSUME NEW t \in Task, NEW i \in Intr, WaitRegister(t, i) PROVE Served'
  <2> USE <1>1 DEF WaitRegister, LoopFree
  <2>1. \A x \in Node : Active(x)' <=> Active(x) BY DEF Active
  <2> QED BY <2>1 DEF Served
<1>2. CASE UNCHANGED <<hardware, handles, control, call, irqs, work, events>>
  BY <1>2, ServedUnchanged
<1> QED BY <1>1, <1>2 DEF Tasks, WaitShared, WaitReturns, Resume, Cancel

LEMMA NextServed ==
    IInv /\ Served /\ [Next]_vars => Served'
<1> SUFFICES ASSUME IInv, Served, [Next]_vars PROVE Served'
  OBVIOUS
<1>1. CASE Hardware BY <1>1, HardwareServed
<1>2. CASE \E u \in Uio : UioCallback(u) BY <1>2, UioCallbackServed
<1>3. ASSUME NEW x \in Node, NEW e \in Entry, NotifyIntr(x, e) PROVE Served'
  BY <1>3, ServedUnchanged DEF NotifyIntr
<1>4. CASE Running
  BY <1>3, <1>4, NotifyCtrlServed, TakeLineServed, LineDoneServed,
     SetDoneServed, AddEventServed, CallbackDoneServed DEF Running
<1>5. CASE Tasks BY <1>5, TasksServed
<1>6. CASE UNCHANGED vars BY <1>6, ServedUnchanged DEF vars
<1> QED BY <1>1, <1>2, <1>4, <1>5, <1>6 DEF Next

-----------------------------------------------------------------------------
(* The steps, seen as steps of the service.                                *)

(* Where an Interrupt somebody is suspended on can be.                     *)
LEMMA Suspended ==
    ASSUME IInv, NEW t \in Task, NEW i \in Intr, Awaiting[t] = i
    PROVE  task[t] = <<i, "await">> /\ InPlace(i)
<1>1. i # None BY TreeAssumption
<1>2. task[t] = <<i, "await">> BY <1>1 DEF Awaiting
<1> QED BY <1>2 DEF IInv, TaskInv

(* Without a change of the tasks, nobody starts or stops waiting.          *)
LEMMA AwaitingUnchanged ==
    ASSUME UNCHANGED task PROVE UNCHANGED Awaiting
BY DEF Awaiting

(* Hardware activates pins, and never takes one back.                      *)
LEMMA HardwareServes ==
    ASSUME IInv, Hardware PROVE [Service!ServiceNext]_Service!serviceVars
<1>1. UNCHANGED task /\ \A x \in Node : Active(x)' <=> Active(x)
  BY DEF Hardware, Raise, Lower, Latch, KernelIrq, Active
<1>2. uio_ready \subseteq uio_ready' /\ \A c \in Ctrl : isr[c] \subseteq isr'[c]
  <2> USE TreeAssumption DEF IInv, TypeOK
  <2>1. ASSUME NEW p \in Pin, Raise(p) \/ Lower(p)
        PROVE  UNCHANGED uio_ready /\ \A c \in Ctrl : isr[c] \subseteq isr'[c]
    <3>1. UNCHANGED uio_ready BY <2>1 DEF Raise, Lower
    <3>2. CASE Raise(p) BY <3>1, <3>2 DEF Raise
    <3>3. CASE Lower(p) BY <3>1, <3>3 DEF Lower
    <3> QED BY <2>1, <3>2, <3>3
  <2>2. ASSUME NEW c \in Ctrl, NEW n \in Line, Latch(c, n)
        PROVE  UNCHANGED uio_ready /\ \A d \in Ctrl : isr[d] \subseteq isr'[d]
    BY <2>2 DEF Latch
  <2>3. ASSUME NEW u \in Uio, KernelIrq(u)
        PROVE  /\ uio_ready \subseteq uio_ready'
               /\ \A c \in Ctrl : isr[c] \subseteq isr'[c]
    BY <2>3 DEF KernelIrq
  <2> QED BY <2>1, <2>2, <2>3 DEF Hardware
<1>3. \A p \in Pin : PinNode[p] \in Node BY TreeAssumption
<1>4. ActivePins \subseteq ActivePins'
  BY <1>1, <1>2, <1>3 DEF ActivePins
<1>5. ActivePins' \in SUBSET Pin BY DEF ActivePins
<1>6. ActivePins' = ActivePins \cup ActivePins' BY <1>4
<1>7. UNCHANGED Awaiting BY <1>1, AwaitingUnchanged
<1> QED BY <1>5, <1>6, <1>7 DEF Service!ServiceNext, Service!Activate

(* Steps that neither latch nor acknowledge, nor enter or leave a UIO.     *)
LEMMA PinsUnchanged ==
    ASSUME UNCHANGED <<isr, uio_ready>>,
           \A u \in Uio : Active(u)' <=> Active(u)
    PROVE  UNCHANGED ActivePins
<1>1. \A p \in Pin : PinNode[p] \in Node BY TreeAssumption
<1> QED BY <1>1 DEF ActivePins

(* The set() of an Interrupt releases its tasks, and its pin is active.    *)
LEMMA NotifyIntrServes ==
    ASSUME IInv, Served, NEW x \in Node, NEW e \in Entry, NotifyIntr(x, e)
    PROVE  Service!ServiceNext
<1> DEFINE i == e[2]
<1> USE TreeAssumption DEF NotifyIntr, Executing
<1>1. i \in Intr /\ i \notin Ctrl /\ x = NodeOf(i) /\ e[1] = LineOf(i)
  BY DEF IInv, Homes, AtHome
<1>2. Active(x) /\ e \in events[x]
  BY DEF Active, IInv, TypeOK, StackInv
<1>3. IntrPin[i] \in ActivePins
  <2>1. CASE x \in Ctrl
    <3>1. e[1] \in isr[x] BY <1>2, <2>1 DEF Served
    <3> QED BY <1>1, <2>1, <3>1 DEF ActivePins, NodeOf, LineOf
  <2>2. CASE x \notin Ctrl
    BY <1>1, <1>2, <2>2 DEF ActivePins, NodeOf
  <2> QED BY <2>1, <2>2
<1>4. UNCHANGED ActivePins
  <2>1. \A y \in Node : Active(y)' <=> Active(y) BY DEF Active
  <2> QED BY <2>1, PinsUnchanged
<1>5. Awaiting' = [t \in Task |-> IF Awaiting[t] = i THEN None ELSE Awaiting[t]]
  <2>1. ASSUME NEW t \in Task
        PROVE  Awaiting'[t] = IF Awaiting[t] = i THEN None ELSE Awaiting[t]
    <3>1. CASE task[t] = <<i, "await">>
      <4>1. task'[t] = <<i, "woken">> BY <3>1
      <4>2. Awaiting'[t] = None BY <4>1 DEF Awaiting
      <4>3. Awaiting[t] = i BY <1>1, <3>1 DEF Awaiting
      <4> QED BY <4>2, <4>3
    <3>2. CASE task[t] # <<i, "await">>
      <4>1. task'[t] = task[t] BY <3>2
      <4>2. Awaiting'[t] = Awaiting[t] BY <4>1 DEF Awaiting
      <4>3. Awaiting[t] # i BY <1>1, <3>2, Suspended
      <4> QED BY <4>2, <4>3
    <3> QED BY <3>1, <3>2
  <2> QED BY <2>1 DEF Awaiting
<1> QED BY <1>1, <1>3, <1>4, <1>5 DEF Service!ServiceNext, Service!Release

(* An acknowledge forgets lines whose lists set() has emptied.             *)
LEMMA SetDoneServes ==
    ASSUME IInv, Served, NEW c \in Ctrl, SetDone(c)
    PROVE  Service!ServiceNext
<1> DEFINE P == {p \in Pin : PinNode[p] = c /\ PinLine[p] \in irqs[c]}
<1> USE TreeAssumption
<1>1. ActivePins' = ActivePins \ P
  <2>1. \A x \in Uio : Active(x)' <=> Active(x) BY Returned
  <2>2. isr'[c] = isr[c] \ irqs[c] /\ \A b \in Ctrl \ {c} : isr'[b] = isr[b]
    BY DEF SetDone, IInv, TypeOK
  <2>3. UNCHANGED uio_ready BY DEF SetDone
  <2>4. \A p \in Pin : PinNode[p] \in Node OBVIOUS
  <2> QED BY <2>1, <2>2, <2>3, <2>4 DEF ActivePins
<1>2. ASSUME NEW t \in Task, NEW i \in Intr, IntrPin[i] \in P, Awaiting[t] = i
      PROVE  FALSE
  <2>1. NodeOf(i) = c /\ LineOf(i) \in irqs[c] /\ i \notin Ctrl
    BY <1>2 DEF NodeOf, LineOf
  <2>2. InPlace(i) BY <1>2, Suspended
  <2>3. ~Taken(c, i) /\ ~Calling(i)
    BY DEF SetDone, Executing, IInv, StackInv, Taken, Calling
  <2>4. PICK e \in handles[c] : e[1] = LineOf(i) /\ e[2] = i
    BY <2>1, <2>2, <2>3 DEF InPlace, Listed
  <2>5. e[2] \in Ctrl BY <2>1, <2>4 DEF Served, SetDone
  <2> QED BY <2>1, <2>4, <2>5
<1>3. UNCHANGED Awaiting BY AwaitingUnchanged DEF SetDone
<1>4. P \in SUBSET Pin OBVIOUS
<1>5. \A t \in Task, i \in Intr : IntrPin[i] \in P => Awaiting[t] # i
  BY <1>2
<1> HIDE DEF P
<1> QED BY <1>1, <1>3, <1>4, <1>5 DEF Service!ServiceNext, Service!Forget

(* So does the end of a callback, for the UIO whose list it swapped.       *)
LEMMA CallbackDoneServes ==
    ASSUME IInv, Served, NEW u \in Uio, CallbackDone(u)
    PROVE  Service!ServiceNext
<1> DEFINE P == {p \in Pin : PinNode[p] = u /\ u \notin uio_ready}
<1> USE TreeAssumption
<1>1. u \notin Ctrl /\ u # None OBVIOUS
<1>2. \A x \in Uio : (Active(x) <=> x = u) /\ ~Active(x)'
  BY <1>1 DEF Active, CallbackDone, Executing
<1>3. ActivePins' = ActivePins \ P
  <2>1. \A p \in Pin : PinNode[p] \in Node OBVIOUS
  <2>2. UNCHANGED <<isr, uio_ready>> BY DEF CallbackDone
  <2> QED BY <1>1, <1>2, <2>1, <2>2 DEF ActivePins
<1>4. ASSUME NEW t \in Task, NEW i \in Intr, IntrPin[i] \in P, Awaiting[t] = i
      PROVE  FALSE
  <2>1. NodeOf(i) = u /\ i \notin Ctrl BY <1>4 DEF NodeOf
  <2>2. InPlace(i) BY <1>4, Suspended
  <2>3. ~Taken(u, i) /\ ~Calling(i)
    BY DEF CallbackDone, Executing, Taken, Calling
  <2>4. PICK e \in handles[u] : e[2] = i
    BY <2>1, <2>2, <2>3 DEF InPlace, Listed
  <2>5. e[2] \in Ctrl BY <1>2, <2>4 DEF Served
  <2> QED BY <2>1, <2>4, <2>5
<1>5. UNCHANGED Awaiting BY AwaitingUnchanged DEF CallbackDone
<1>6. P \in SUBSET Pin OBVIOUS
<1>7. \A t \in Task, i \in Intr : IntrPin[i] \in P => Awaiting[t] # i
  BY <1>4
<1> HIDE DEF P
<1> QED BY <1>3, <1>5, <1>6, <1>7 DEF Service!ServiceNext, Service!Forget

(* The rest of the callbacks and of add_event does not show.               *)
LEMMA SilentSteps ==
    ASSUME IInv,
           \/ \E u \in Uio : UioCallback(u) \/ UioAddEvent(u)
           \/ \E x \in Node, e \in Entry : NotifyCtrl(x, e)
           \/ \E c \in Ctrl, n \in Line : TakeLine(c, n)
           \/ \E c \in Ctrl : LineDone(c) \/ CtrlAddEvent(c)
           \/ UNCHANGED vars
    PROVE  UNCHANGED <<ActivePins, Awaiting>>
<1> USE TreeAssumption
<1>1. UNCHANGED Awaiting
  BY AwaitingUnchanged
  DEF UioCallback, UioAddEvent, NotifyCtrl, TakeLine, LineDone, CtrlAddEvent, vars
<1>2. ASSUME NEW u \in Uio, UioCallback(u) PROVE UNCHANGED ActivePins
  <2>1. \A x \in Uio : ~Active(x) /\ (Active(x)' <=> x = u)
    BY <1>2 DEF UioCallback, LoopFree, Active
  <2>2. uio_ready' = uio_ready \ {u} /\ u \in uio_ready /\ UNCHANGED isr
    BY <1>2 DEF UioCallback
  <2>3. \A p \in Pin : PinNode[p] \in Node OBVIOUS
  <2> QED BY <2>1, <2>2, <2>3 DEF ActivePins
<1>3. ASSUME NEW x \in Node, NEW e \in Entry, NotifyCtrl(x, e)
      PROVE  UNCHANGED ActivePins
  <2>1. e[2] \in Ctrl /\ Parent[e[2]] = x /\ control = x /\ control' = e[2]
    BY <1>3 DEF NotifyCtrl, Executing, IInv, Homes, AtHome
  <2>2. \A u \in Uio : Active(u)' <=> Active(u)
    BY <2>1 DEF Active
  <2> QED BY <1>3, <2>2, PinsUnchanged DEF NotifyCtrl
<1>4. ASSUME NEW c \in Ctrl, NEW n \in Line, TakeLine(c, n)
      PROVE  UNCHANGED ActivePins
  BY <1>4, PinsUnchanged DEF TakeLine, Active
<1>5. ASSUME NEW c \in Ctrl, LineDone(c) \/ CtrlAddEvent(c)
      PROVE  UNCHANGED ActivePins
  BY <1>5, PinsUnchanged DEF LineDone, CtrlAddEvent, Active
<1>6. ASSUME NEW u \in Uio, UioAddEvent(u) PROVE UNCHANGED ActivePins
  BY <1>6, PinsUnchanged DEF UioAddEvent, Active
<1>7. ASSUME UNCHANGED vars PROVE UNCHANGED ActivePins
  BY <1>7, PinsUnchanged DEF vars, Active
<1>8. UNCHANGED ActivePins BY <1>2, <1>3, <1>4, <1>5, <1>6, <1>7
<1> QED BY <1>1, <1>8

LEMMA TasksServe ==
    ASSUME IInv, Tasks PROVE [Service!ServiceNext]_Service!serviceVars
<1> USE TreeAssumption DEF IInv, TypeOK
<1>1. UNCHANGED ActivePins
  <2>1. UNCHANGED <<isr, uio_ready, control>>
    BY DEF Tasks, WaitRegister, WaitShared, WaitReturns, Resume, Cancel
  <2> QED BY <2>1, PinsUnchanged DEF Active
<1>2. ASSUME NEW t \in Task, NEW i \in Intr,
             WaitRegister(t, i) \/ WaitShared(t, i)
      PROVE  Service!Await(t, i)
  <2>1. task[t] = None /\ task' = [task EXCEPT ![t] = <<i, "await">>]
    BY <1>2 DEF WaitRegister, WaitShared
  <2>2. Awaiting[t] = None BY <2>1 DEF Awaiting
  <2>3. Awaiting'[t] = i BY <2>1 DEF Awaiting
  <2>4. \A s \in Task \ {t} : Awaiting'[s] = Awaiting[s] BY <2>1 DEF Awaiting
  <2>5. /\ Awaiting = [s \in Task |-> Awaiting[s]]
        /\ Awaiting' = [s \in Task |-> Awaiting'[s]]
    BY DEF Awaiting
  <2>6. Awaiting' = [Awaiting EXCEPT ![t] = i] BY <2>3, <2>4, <2>5
  <2> QED BY <1>1, <2>2, <2>6 DEF Service!Await
<1>3. ASSUME NEW t \in Task, NEW i \in Intr, WaitReturns(t, i)
      PROVE  UNCHANGED Awaiting
  BY <1>3, AwaitingUnchanged DEF WaitReturns
<1>4. ASSUME NEW t \in Task, Resume(t) \/ Cancel(t)
      PROVE  Service!Abandon(t)
  <2>1. task' = [task EXCEPT ![t] = None] BY <1>4 DEF Resume, Cancel
  <2>2. Awaiting'[t] = None
    <3>1. task'[t] = None BY <2>1
    <3> QED BY <3>1, NotSuspended DEF Awaiting
  <2>3. \A s \in Task \ {t} : Awaiting'[s] = Awaiting[s] BY <2>1 DEF Awaiting
  <2>4. Awaiting' = [Awaiting EXCEPT ![t] = None] BY <2>2, <2>3 DEF Awaiting
  <2> QED BY <1>1, <2>4 DEF Service!Abandon
<1> QED
  BY <1>1, <1>2, <1>3, <1>4
  DEF Tasks, Service!ServiceNext, Service!serviceVars

LEMMA NextServes ==
    IInv /\ Served /\ [Next]_vars =>
        [Service!ServiceNext]_Service!serviceVars
<1> SUFFICES ASSUME IInv, Served, [Next]_vars
             PROVE  [Service!ServiceNext]_Service!serviceVars
  OBVIOUS
<1>1. CASE Hardware BY <1>1, HardwareServes
<1>2. CASE Running
  BY <1>2, NotifyIntrServes, SetDoneServes, CallbackDoneServes, SilentSteps
  DEF Running, Service!serviceVars
<1>3. CASE Tasks BY <1>3, TasksServe
<1>4. CASE (\E u \in Uio : UioCallback(u)) \/ UNCHANGED vars
  BY <1>4, SilentSteps DEF Service!serviceVars
<1> QED BY <1>1, <1>2, <1>3, <1>4 DEF Next

LEMMA InitServes ==
    Init => Service!ServiceInit
<1> SUFFICES ASSUME Init PROVE Service!ServiceInit
  OBVIOUS
<1>1. \A x \in Node : ~Active(x) BY DEF Init, Active
<1>2. ActivePins = {} BY <1>1, TreeAssumption DEF Init, ActivePins
<1>3. Awaiting = [t \in Task |-> None]
  <2>1. \A t \in Task : task[t] = None BY DEF Init
  <2> QED BY <2>1, NotSuspended DEF Awaiting
<1> QED BY <1>2, <1>3 DEF Service!ServiceInit

(* The tree of controllers, wait lists and UIO devices implements what     *)
(* interrupt.py promises: only tasks of an active pin are released, all of *)
(* an Interrupt at once, and nothing is acknowledged under a waiter.       *)
THEOREM ServiceImplemented == Spec => ImplementsService
<1>1. Init => Service!ServiceInit
  BY InitServes
<1>2. IInv /\ Served /\ [Next]_vars =>
          [Service!ServiceNext]_Service!serviceVars
  BY NextServes
<1>3. QED
  BY <1>1, <1>2, InitServed, NextServed, InductiveInvariant, PTL
  DEF Spec, ImplementsService, Service!ServiceSpec
=============================================================================
