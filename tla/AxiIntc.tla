------------------------------- MODULE AxiIntc -------------------------------
(***************************************************************************)
(* Interrupt delivery inside one overlay: asyncio tasks that await an      *)
(* Interrupt object, the tree of _InterruptController objects that share   *)
(* its lines (src/pynq/interrupt.py), the UIO devices at the roots of the  *)
(* trees (src/pynq/uio.py), and the hardware below them.                   *)
(*                                                                         *)
(* The Python code runs on one event loop, so its calls do not interleave  *)
(* with one another, but the hardware moves between any two of its         *)
(* register accesses.  "control" is the node whose set() / _uio_callback   *)
(* is executing and "call" the add_event call it is inside of; both are    *)
(* empty when the loop is free to start another callback or task step.     *)
(***************************************************************************)
EXTENDS Integers, FiniteSets

CONSTANTS
    Ctrl,       \* _InterruptController objects
    Uio,        \* UioController objects
    Line,       \* interrupt lines of a controller
    Parent,     \* Parent[c] : the node whose line the output of c drives
    Number,     \* Number[c] : that line
    Above,      \* Above[x] : the nodes strictly above x
    Pin,        \* pins of the block diagram that devices drive
    PinNode,    \* PinNode[p] : the node pin p is wired to
    PinLine,    \* PinLine[p] : its line there
    Intr,       \* Interrupt objects of the user program
    IntrPin,    \* IntrPin[i] : the pin an Interrupt was constructed with
    Task,       \* asyncio tasks
    Slot,       \* tells apart equal entries of one wait list (bounds them)
    None

Node == Ctrl \cup Uio
Source == Ctrl \cup Intr           \* what add_event takes: anything with set()

(* An entry of wait_handles / wait_events: line, event, and its slot.      *)
Entry == Line \X Source \X Slot

(* A call x.add_event(event, number).                                      *)
Call == [to : Node, event : Source, number : Line]

ASSUME TreeAssumption ==
    /\ Line \subseteq Nat /\ IsFiniteSet(Line) /\ IsFiniteSet(Ctrl)
    /\ IsFiniteSet(Intr) /\ IsFiniteSet(Slot)
    /\ Ctrl \cap Uio = {} /\ Ctrl \cap Intr = {} /\ Uio \cap Intr = {}
    /\ None \notin Node \cup Intr \cup Call \cup (Intr \X {"await", "woken"})
    /\ Parent \in [Ctrl -> Node] /\ Number \in [Ctrl -> Line]
    /\ Above \in [Node -> SUBSET Node]
    /\ \A u \in Uio : Above[u] = {}
    /\ \A c \in Ctrl : Above[c] = Above[Parent[c]] \cup {Parent[c]}
    /\ \A c \in Ctrl : c \notin Above[c]
    /\ \A S \in SUBSET Node :         \* and nothing else is above x
         (\A c \in S \cap Ctrl : Parent[c] \in S) =>
             \A x \in S : Above[x] \subseteq S
    /\ PinNode \in [Pin -> Node] /\ PinLine \in [Pin -> Line]
    /\ IntrPin \in [Intr -> Pin]

VARIABLES
    (* registers and lines of the hardware *)
    level,          \* the pins driven high by their devices
    isr,            \* interrupt status register: latched lines
    ier,            \* interrupt enable register
    mer,            \* master enable register is 3
    uio_enabled,    \* the kernel has the UIO's irq unmasked
    uio_ready,      \* an interrupt was counted and not read yet
    (* Python objects *)
    handles,        \* wait_handles of a controller, wait_events of a UIO
    event_number,   \* of each controller
    flag,           \* asyncio.Event of each Interrupt is set
    waiting,        \* waiting attribute of each Interrupt
    task,           \* <<i, "await">>, <<i, "woken">> or None
    (* the running callback *)
    control,        \* node whose set() or _uio_callback() runs
    call,           \* pending add_event(event, number), or None
    irqs,           \* local of set(): the pending lines it read
    work,           \* local of set(): the lines its loop has still to visit
    events,         \* local of both: entries taken from the wait list
    todo            \* those of them whose set() has still to be called

hardware == <<level, isr, ier, mer, uio_enabled, uio_ready>>
tasks == <<flag, waiting, task>>
locals == <<control, irqs, work, events, todo>>
vars == <<hardware, handles, event_number, tasks, call, locals>>

TaskState == {None} \cup (Intr \X {"await", "woken"})

TypeOK ==
    /\ level \subseteq Pin
    /\ isr \in [Ctrl -> SUBSET Line] /\ ier \in [Ctrl -> SUBSET Line]
    /\ mer \subseteq Ctrl
    /\ uio_enabled \subseteq Uio /\ uio_ready \subseteq Uio
    /\ handles \in [Node -> SUBSET Entry]
    /\ event_number \in [Ctrl -> Nat]
    /\ flag \subseteq Intr /\ waiting \subseteq Intr
    /\ task \in [Task -> TaskState]
    /\ control \in Node \cup {None}
    /\ call \in Call \cup {None}
    /\ irqs \in [Ctrl -> SUBSET Line] /\ work \in [Ctrl -> SUBSET Line]
    /\ events \in [Node -> SUBSET Entry] /\ todo \in [Node -> SUBSET Entry]

(* After the bitstream is configured and the Interrupt objects are built:  *)
(* the controllers' constructors disabled every line, the kernel's irq is  *)
(* unmasked from the probe of the UIO driver.                              *)
Init ==
    /\ level = {}
    /\ isr = [c \in Ctrl |-> {}] /\ ier = [c \in Ctrl |-> {}]
    /\ mer = {}
    /\ uio_enabled = Uio /\ uio_ready = {}
    /\ handles = [x \in Node |-> {}]
    /\ event_number = [c \in Ctrl |-> 0]
    /\ flag = {} /\ waiting = {}
    /\ task = [t \in Task |-> None]
    /\ control = None /\ call = None
    /\ irqs = [c \in Ctrl |-> {}] /\ work = [c \in Ctrl |-> {}]
    /\ events = [x \in Node |-> {}] /\ todo = [x \in Node |-> {}]

-----------------------------------------------------------------------------
(* Hardware.  The AXI interrupt controller latches a line that is high;    *)
(* its output is high while a latched line is enabled.                     *)

At(S, n) == {e \in S : e[1] = n}
Of(S, s) == {e \in S : e[2] = s}
Pending(c) == isr[c] \cap ier[c]
Output(c) == c \in mer /\ Pending(c) # {}
Driven(x, n) ==
    \/ \E p \in level : PinNode[p] = x /\ PinLine[p] = n
    \/ \E c \in Ctrl : Parent[c] = x /\ Number[c] = n /\ Output(c)

Raise(p) ==
    /\ p \notin level
    /\ level' = level \cup {p}
    /\ isr' = IF PinNode[p] \in Ctrl
              THEN [isr EXCEPT ![PinNode[p]] = @ \cup {PinLine[p]}]
              ELSE isr
    /\ UNCHANGED <<ier, mer, uio_enabled, uio_ready,
                   handles, event_number, tasks, call, locals>>

Lower(p) ==
    /\ p \in level
    /\ level' = level \ {p}
    /\ UNCHANGED <<isr, ier, mer, uio_enabled, uio_ready,
                   handles, event_number, tasks, call, locals>>

Latch(c, n) ==
    /\ n \notin isr[c]
    /\ Driven(c, n)
    /\ isr' = [isr EXCEPT ![c] = @ \cup {n}]
    /\ UNCHANGED <<level, ier, mer, uio_enabled, uio_ready,
                   handles, event_number, tasks, call, locals>>

(* uio_pdrv_genirq: mask the irq, count it, wake the reader.               *)
KernelIrq(u) ==
    /\ u \in uio_enabled
    /\ \E n \in Line : Driven(u, n)
    /\ uio_enabled' = uio_enabled \ {u}
    /\ uio_ready' = uio_ready \cup {u}
    /\ UNCHANGED <<level, isr, ier, mer,
                   handles, event_number, tasks, call, locals>>

-----------------------------------------------------------------------------
(* The callback of the event loop, and the set() methods below it.         *)

LoopFree == control = None /\ call = None

(* The list whose events the callback sets.                                *)
TakenFromUio(u) == handles[u]

(* _uio_callback: read the count, swap the wait list for an empty one.     *)
UioCallback(u) ==
    /\ LoopFree
    /\ u \in uio_ready
    /\ uio_ready' = uio_ready \ {u}
    /\ control' = u
    /\ events' = [events EXCEPT ![u] = TakenFromUio(u)]
    /\ todo' = [todo EXCEPT ![u] = TakenFromUio(u)]
    /\ handles' = [handles EXCEPT ![u] = {}]
    /\ UNCHANGED <<level, isr, ier, mer, uio_enabled,
                   event_number, tasks, call, irqs, work>>

Executing(x) == control = x /\ call = None

(* e.set() on the asyncio.Event of an Interrupt: every task awaiting it    *)
(* has its future resolved.                                                *)
NotifyIntr(x, e) ==
    /\ Executing(x)
    /\ e \in todo[x] /\ e[2] \in Intr
    /\ todo' = [todo EXCEPT ![x] = @ \ {e}]
    /\ flag' = flag \cup {e[2]}
    /\ task' = [t \in Task |-> IF task[t] = <<e[2], "await">>
                               THEN <<e[2], "woken">> ELSE task[t]]
    /\ UNCHANGED <<hardware, handles, event_number, waiting, call,
                   control, irqs, work, events>>

(* e.set() on a chained controller: enter its set(), which reads IPR.      *)
NotifyCtrl(x, e) ==
    /\ Executing(x)
    /\ e \in todo[x] /\ e[2] \in Ctrl
    /\ todo' = [todo EXCEPT ![x] = @ \ {e}]
    /\ control' = e[2]
    /\ irqs' = [irqs EXCEPT ![e[2]] = Pending(e[2])]
    /\ work' = [work EXCEPT ![e[2]] = Pending(e[2])]
    /\ UNCHANGED <<hardware, handles, event_number, tasks, call, events>>

(* IER after the write to CIE; mutant: no write.                           *)
DisableNothing(c, n) == ier[c]
Disable(c, n) == ier[c] \ {n}

(* The head of the loop of set(): take the lowest line left, disable it    *)
(* and swap its wait list for an empty one.                                *)
TakeLine(c, n) ==
    /\ Executing(c)
    /\ events[c] = {}
    /\ n \in work[c] /\ \A m \in work[c] : n <= m
    /\ work' = [work EXCEPT ![c] = @ \ {n}]
    /\ ier' = [ier EXCEPT ![c] = Disable(c, n)]
    /\ events' = [events EXCEPT ![c] = At(handles[c], n)]
    /\ todo' = [todo EXCEPT ![c] = At(handles[c], n)]
    /\ handles' = [handles EXCEPT ![c] = @ \ At(@, n)]
    /\ UNCHANGED <<level, isr, mer, uio_enabled, uio_ready,
                   event_number, tasks, call, control, irqs>>

(* event_number after a line; mutants: unchanged, one too low.             *)
CountUnchanged(c) == event_number[c]
CountOneTooLow(c) == event_number[c] - Cardinality(events[c]) - 1
CountAfterLine(c) == event_number[c] - Cardinality(events[c])

(* The foot of the loop: event_number -= len(events).                      *)
LineDone(c) ==
    /\ Executing(c)
    /\ events[c] # {} /\ todo[c] = {}
    /\ event_number' = [event_number EXCEPT ![c] = CountAfterLine(c)]
    /\ events' = [events EXCEPT ![c] = {}]
    /\ UNCHANGED <<hardware, handles, tasks, call, control, irqs, work, todo>>

(* What set() writes to IAR, and whether it registers again.  Mutants:     *)
(* every line is acknowledged; always and never registers.                 *)
AckEverything(c) == Line
Acknowledge(c) == irqs[c]
AlwaysAgain(c) == TRUE
NeverAgain(c) == FALSE
StillAwaited(c) == event_number[c] # 0

(* After the loop: acknowledge what was read, re-register with the parent  *)
(* if anything is still awaited, and return into the parent's loop.        *)
SetDone(c) ==
    /\ Executing(c)
    /\ work[c] = {} /\ events[c] = {}
    /\ isr' = [isr EXCEPT ![c] = @ \ Acknowledge(c)]
    /\ irqs' = [irqs EXCEPT ![c] = {}]
    /\ control' = Parent[c]
    /\ call' = IF StillAwaited(c)
               THEN [to |-> Parent[c], event |-> c, number |-> Number[c]]
               ELSE None
    /\ UNCHANGED <<level, ier, mer, uio_enabled, uio_ready,
                   handles, event_number, tasks, work, events, todo>>

CallbackDone(u) ==
    /\ Executing(u)
    /\ todo[u] = {}
    /\ control' = None
    /\ events' = [events EXCEPT ![u] = {}]
    /\ UNCHANGED <<hardware, handles, event_number, tasks, call,
                   irqs, work, todo>>

-----------------------------------------------------------------------------
(* add_event.  The nested parent.add_event is the next pending call; the   *)
(* writes it would precede are commuted before it, which no register read  *)
(* and no Python code can tell apart.                                      *)

Enlist(x, n, s) ==
    \E k \in Slot :
        /\ <<n, s, k>> \notin handles[x]
        /\ handles' = [handles EXCEPT ![x] = @ \cup {<<n, s, k>>}]

(* Whether add_event has to enable the line, and to unmask the UIO.        *)
(* Mutant: only for the first waiter of the whole controller.              *)
FirstOfController(c, n) == event_number[c] = 0
FirstOfLine(c, n) == At(handles[c], n) = {}
FirstOfUio(u) == handles[u] = {}

CtrlAddEvent(c) ==
    /\ call # None /\ call.to = c
    /\ ier' = IF FirstOfLine(c, call.number)
              THEN [ier EXCEPT ![c] = @ \cup {call.number}]
              ELSE ier
    /\ call' = IF event_number[c] = 0
               THEN [to |-> Parent[c], event |-> c, number |-> Number[c]]
               ELSE None
    /\ Enlist(c, call.number, call.event)
    /\ event_number' = [event_number EXCEPT ![c] = @ + 1]
    /\ mer' = mer \cup {c}
    /\ UNCHANGED <<level, isr, uio_enabled, uio_ready, tasks, locals>>

UioAddEvent(u) ==
    /\ call # None /\ call.to = u
    /\ uio_enabled' = IF FirstOfUio(u) THEN uio_enabled \cup {u}
                                         ELSE uio_enabled
    /\ Enlist(u, call.number, call.event)
    /\ call' = None
    /\ UNCHANGED <<level, isr, ier, mer, uio_ready,
                   event_number, tasks, locals>>

-----------------------------------------------------------------------------
(* Interrupt.wait and the tasks that run it.                               *)

NodeOf(i) == PinNode[IntrPin[i]]
LineOf(i) == PinLine[IntrPin[i]]

(* Not registered yet: clear the event, register it, suspend.              *)
WaitRegister(t, i) ==
    /\ LoopFree /\ task[t] = None
    /\ i \notin waiting
    /\ \E k \in Slot : <<LineOf(i), i, k>> \notin handles[NodeOf(i)]
    /\ flag' = flag \ {i}
    /\ waiting' = waiting \cup {i}
    /\ call' = [to |-> NodeOf(i), event |-> i, number |-> LineOf(i)]
    /\ task' = [task EXCEPT ![t] = <<i, "await">>]
    /\ UNCHANGED <<hardware, handles, event_number, locals>>

(* Another wait is registered: suspend on the same event.                  *)
WaitShared(t, i) ==
    /\ LoopFree /\ task[t] = None
    /\ i \in waiting /\ i \notin flag
    /\ task' = [task EXCEPT ![t] = <<i, "await">>]
    /\ UNCHANGED <<hardware, handles, event_number, flag, waiting,
                   call, locals>>

(* ... whose event is set already: event.wait() returns at once.           *)
WaitReturns(t, i) ==
    /\ LoopFree /\ task[t] = None
    /\ i \in waiting /\ i \in flag
    /\ waiting' = waiting \ {i}
    /\ UNCHANGED <<hardware, handles, event_number, flag, task,
                   call, locals>>

Resume(t) ==
    /\ LoopFree
    /\ \E i \in Intr :
        /\ task[t] = <<i, "woken">>
        /\ waiting' = waiting \ {i}
    /\ task' = [task EXCEPT ![t] = None]
    /\ UNCHANGED <<hardware, handles, event_number, flag, call, locals>>

(* The task is cancelled inside event.wait(): nothing is undone.           *)
Cancel(t) ==
    /\ LoopFree /\ task[t] # None
    /\ task' = [task EXCEPT ![t] = None]
    /\ UNCHANGED <<hardware, handles, event_number, flag, waiting,
                   call, locals>>

-----------------------------------------------------------------------------
Hardware ==
    \/ \E p \in Pin : Raise(p) \/ Lower(p)
    \/ \E c \in Ctrl, n \in Line : Latch(c, n)
    \/ \E u \in Uio : KernelIrq(u)

Running ==
    \/ \E x \in Node, e \in Entry : NotifyIntr(x, e) \/ NotifyCtrl(x, e)
    \/ \E c \in Ctrl, n \in Line : TakeLine(c, n)
    \/ \E c \in Ctrl : LineDone(c) \/ SetDone(c) \/ CtrlAddEvent(c)
    \/ \E u \in Uio : CallbackDone(u) \/ UioAddEvent(u)

Tasks ==
    \E t \in Task :
        \/ \E i \in Intr :
            WaitRegister(t, i) \/ WaitShared(t, i) \/ WaitReturns(t, i)
        \/ Resume(t) \/ Cancel(t)

Next ==
    \/ Hardware
    \/ \E u \in Uio : UioCallback(u)
    \/ Running
    \/ Tasks

Spec == Init /\ [][Next]_vars

(* Hardware that drives a line latches it; a call that runs returns; and   *)
(* the loop polls its file descriptors once per iteration, so a UIO that   *)
(* keeps being ready is read however busy the tasks are.                   *)
Fairness ==
    /\ \A c \in Ctrl, n \in Line : WF_vars(Latch(c, n))
    /\ \A u \in Uio : WF_vars(KernelIrq(u)) /\ SF_vars(UioCallback(u))
    /\ WF_vars(Running)

FairSpec == Spec /\ Fairness

-----------------------------------------------------------------------------
(* Safety.                                                                 *)

Listed(x, n, s) == \E e \in handles[x] : e[1] = n /\ e[2] = s

(* event_number counts the entries of all the wait lists, and inside set() *)
(* those of the line being served too: the sum that decides whether the    *)
(* controller registers with its parent (interrupt.py:200,206,228).        *)
CountExact ==
    \A c \in Ctrl : event_number[c] =
        Cardinality(handles[c]) + Cardinality(events[c])

(* A line is enabled exactly while someone is on its wait list: a line     *)
(* enabled for nobody would keep interrupting, one disabled under a waiter *)
(* would never fire (interrupt.py:195-197,226-227).                        *)
EnabledIffAwaited ==
    \A c \in Ctrl, n \in Line : n \in ier[c] <=> At(handles[c], n) # {}

(* Whenever the event loop is free, a controller somebody waits on is on   *)
(* its parent's wait list once, and an idle controller is not there:       *)
(* set() and a child's re-entrant add_event together register it exactly   *)
(* once (interrupt.py:206-207,228-229).                                    *)
RegisteredOnce ==
    LoopFree => \A c \in Ctrl :
        Cardinality(Of(handles[Parent[c]], c)) =
            IF handles[c] = {} THEN 0 ELSE 1

Listening(x) ==
    IF x \in Uio THEN x \in uio_enabled \cup uio_ready
    ELSE /\ x \in mer
         /\ Listed(Parent[x], Number[x], x)
         /\ Parent[x] \in Ctrl => Number[x] \in ier[Parent[x]]

(* No lost wakeup: whenever the loop is free, a suspended task has its     *)
(* Interrupt on a wait list, the line enabled, every controller above      *)
(* registered with an enabled line, and the UIO unmasked or about to be    *)
(* read.  This is what set, add_event, _uio_callback and wait have to      *)
(* keep true together, shared and cancelled waits included.                *)
WaiterArmed ==
    LoopFree => \A t \in Task, i \in Intr : task[t] = <<i, "await">> =>
        /\ Listed(NodeOf(i), LineOf(i), i)
        /\ NodeOf(i) \in Ctrl => LineOf(i) \in ier[NodeOf(i)]
        /\ \A x \in Above[NodeOf(i)] \cup {NodeOf(i)} : Listening(x)

-----------------------------------------------------------------------------
(* The inductive invariant behind these.                                   *)

(* x's set() or callback has been entered and has not returned.            *)
Active(x) == control # None /\ (x = control \/ x \in Above[control])

(* Every event is listed at the node it was registered with, at its line.  *)
AtHome(x, n, s) ==
    IF s \in Ctrl THEN x = Parent[s] /\ n = Number[s]
                  ELSE x = NodeOf(s) /\ n = LineOf(s)

Homes ==
    /\ \A x \in Node : \A e \in handles[x] \cup todo[x] : AtHome(x, e[1], e[2])
    /\ call # None => AtHome(call.to, call.number, call.event)

(* The call stack: only entered nodes hold entries they took, the callers  *)
(* hold at least the one they are serving, and an add_event made from      *)
(* inside set() goes to the node that is executing.                        *)
StackInv ==
    /\ \A x \in Node :
        /\ IsFiniteSet(handles[x]) /\ IsFiniteSet(events[x])
        /\ todo[x] \subseteq events[x]
        /\ ~Active(x) => events[x] = {}
        /\ Active(x) /\ x # control => events[x] # {}
    /\ (call # None /\ control # None) =>
           call.to = control /\ events[control] # {}

Taken(x, s) == \E e \in todo[x] : e[2] = s
Calling(s) == call # None /\ call.event = s

(* A controller is in at most one place: on its parent's wait list, among  *)
(* the entries the parent took, entered, or being registered; and in one   *)
(* of them if it has waiters.                                              *)
PlaceInv ==
    \A c \in Ctrl :
        /\ \A d, e \in handles[Parent[c]] : d[2] = c /\ e[2] = c => d = e
        /\ \A d, e \in todo[Parent[c]] : d[2] = c /\ e[2] = c => d = e
        /\ Listed(Parent[c], Number[c], c) =>
               ~Taken(Parent[c], c) /\ ~Active(c) /\ ~Calling(c)
        /\ Taken(Parent[c], c) => ~Active(c) /\ ~Calling(c)
        /\ Calling(c) => ~Active(c)
        /\ IF handles[c] = {}
           THEN ~Listed(Parent[c], Number[c], c) /\ ~Taken(Parent[c], c)
                /\ ~Calling(c)
           ELSE \/ Listed(Parent[c], Number[c], c) \/ Taken(Parent[c], c)
                \/ Calling(c) \/ Active(c)

(* The event of an Interrupt that tasks may be suspended on is registered, *)
(* taken from its list but not set yet, or being registered.               *)
InPlace(i) ==
    Listed(NodeOf(i), LineOf(i), i) \/ Taken(NodeOf(i), i) \/ Calling(i)

TaskInv ==
    /\ \A i \in waiting \ flag : InPlace(i)
    /\ \A t \in Task, i \in Intr : task[t] = <<i, "await">> => InPlace(i)

Armed ==
    /\ \A u \in Uio : handles[u] # {} => u \in uio_enabled \cup uio_ready
    /\ \A c \in Ctrl : handles[c] # {} => c \in mer

IInv ==
    /\ TypeOK /\ CountExact /\ EnabledIffAwaited
    /\ Homes /\ StackInv /\ PlaceInv /\ TaskInv /\ Armed

-----------------------------------------------------------------------------
(* The promise of the interrupt module, and liveness.                      *)

ActivePins ==
    {p \in Pin : IF PinNode[p] \in Ctrl THEN PinLine[p] \in isr[PinNode[p]]
                 ELSE PinNode[p] \in uio_ready \/ Active(PinNode[p])}

Awaiting == [t \in Task |->
    IF \E i \in Intr : task[t] = <<i, "await">> THEN task[t][1] ELSE None]

Service == INSTANCE InterruptService
               WITH active <- ActivePins, awaiting <- Awaiting

(* The controller tree implements InterruptService: set() releases waiters *)
(* only of lines that are latched, all tasks of an Interrupt at once, and  *)
(* acknowledges a latched line only when nobody is suspended on it.        *)
ImplementsService == Service!ServiceSpec

(* A task suspended on a line that is latched is eventually resumed or     *)
(* gives up, through any number of chained controllers.                    *)
LatchedWakes ==
    \A t \in Task, i \in Intr : NodeOf(i) \in Ctrl =>
        (/\ task[t] = <<i, "await">>
         /\ LineOf(i) \in isr[NodeOf(i)]) ~> (task[t] # <<i, "await">>)
=============================================================================
