----------------------------- MODULE IntcOverlay -----------------------------
(***************************************************************************)
(* What happens to interrupt delivery when the overlay is replaced: the    *)
(* singletons of src/pynq/interrupt.py (one _InterruptController per       *)
(* overlay, UioControllers for ever), the weak references that Interrupt   *)
(* objects hold to them, and the wait list of the UIO that can keep an     *)
(* invalidated controller alive.                                           *)
(*                                                                         *)
(* One interrupt controller on one UIO.  Controller objects are named by   *)
(* the overlay ("epoch") they were constructed for; all of them are mapped *)
(* on the same registers.  set() and add_event are single steps here: what *)
(* happens inside them is the subject of AxiIntc.  Each Interrupt object   *)
(* is awaited by one task at a time.                                       *)
(***************************************************************************)
EXTENDS Integers, Sequences, SequencesExt, FiniteSets, Functions

CONSTANTS
    Intr,           \* Interrupt objects the program constructs
    Line,           \* lines of the controller
    MaxEpoch,       \* bound on the number of overlays downloaded
    Unset

Epoch == 0..MaxEpoch

ASSUME OverlayAssumption ==
    /\ MaxEpoch \in Nat
    /\ Unset \notin Epoch /\ Unset \notin Epoch \X Line

VARIABLES
    epoch,          \* PL.timestamp: the overlay on the programmable logic
    last,           \* _last_timestamp, Unset before get_controller is called
    controllers,    \* _controllers
    obj,            \* obj[i] : <<epoch of its controller, line>>, or Unset
    handles,        \* wait_handles of each controller object
    waiting, flag,  \* attribute and asyncio.Event of each Interrupt
    suspended,      \* Interrupts some task is suspended on
    pended,         \* history: controller objects used after their overlay
    wait_events,    \* of the UioController
    current,        \* events _uio_callback has still to set
    level, isr, ier, mer, uio_enabled, uio_ready    \* hardware

objects == <<epoch, last, controllers, obj>>
waits == <<handles, waiting, flag, suspended, pended>>
uio == <<uio_enabled, uio_ready>>
vars == <<objects, waits, wait_events, current, level, isr, ier, mer, uio>>

TypeOK ==
    /\ epoch \in Epoch /\ last \in Epoch \cup {Unset}
    /\ controllers \subseteq Epoch
    /\ obj \in [Intr -> {Unset} \cup (Epoch \X Line)]
    /\ handles \in [Epoch -> SUBSET Intr]
    /\ waiting \subseteq Intr /\ flag \subseteq Intr /\ suspended \subseteq Intr
    /\ pended \subseteq Epoch
    /\ wait_events \in Seq(Epoch) /\ IsInjective(wait_events)
    /\ current \in Seq(Epoch)
    /\ level \subseteq Line /\ isr \subseteq Line /\ ier \subseteq Line
    /\ mer \in BOOLEAN /\ uio_enabled \in BOOLEAN /\ uio_ready \in BOOLEAN

Init ==
    /\ epoch = 0 /\ last = Unset /\ controllers = {}
    /\ obj = [i \in Intr |-> Unset]
    /\ handles = [g \in Epoch |-> {}]
    /\ waiting = {} /\ flag = {} /\ suspended = {} /\ pended = {}
    /\ wait_events = <<>> /\ current = <<>>
    /\ level = {} /\ isr = {} /\ ier = {} /\ mer = FALSE
    /\ uio_enabled = TRUE /\ uio_ready = FALSE

LoopFree == current = <<>>

GenOf(i) == obj[i][1]
LineOf(i) == obj[i][2]

(* Controller objects something still refers to (the coroutine of a        *)
(* suspended wait does); a weak reference to any other one is dead.        *)
Alive == controllers \cup ToSet(wait_events) \cup ToSet(current)
                     \cup {GenOf(i) : i \in suspended}

-----------------------------------------------------------------------------
(* Hardware, as in AxiIntc.                                                *)
Raise(n) ==
    /\ n \notin level
    /\ level' = level \cup {n} /\ isr' = isr \cup {n}
    /\ UNCHANGED <<objects, waits, wait_events, current, ier, mer, uio>>

Lower(n) ==
    /\ n \in level
    /\ level' = level \ {n}
    /\ UNCHANGED <<objects, waits, wait_events, current, isr, ier, mer, uio>>

Latch(n) ==
    /\ n \in level \ isr
    /\ isr' = isr \cup {n}
    /\ UNCHANGED <<objects, waits, wait_events, current, level, ier, mer, uio>>

KernelIrq ==
    /\ uio_enabled /\ mer /\ isr \cap ier # {}
    /\ uio_enabled' = FALSE /\ uio_ready' = TRUE
    /\ UNCHANGED <<objects, waits, wait_events, current, level, isr, ier, mer>>

-----------------------------------------------------------------------------
UioCallback ==
    /\ LoopFree
    /\ uio_ready
    /\ uio_ready' = FALSE
    /\ current' = wait_events
    /\ wait_events' = <<>>
    /\ UNCHANGED <<objects, waits, level, isr, ier, mer, uio_enabled>>

(* Mutant: a controller that still has waiters does not register again.    *)
NotAwaited(g, woken) == FALSE
StillAwaited(g, woken) == handles[g] \ woken # {}

(* set() of the next controller object the callback took.                  *)
SetNext ==
    LET g == Head(current)
        irqs == isr \cap ier
        woken == {i \in handles[g] : LineOf(i) \in irqs}
        again == StillAwaited(g, woken)
    IN  /\ ~LoopFree
        /\ current' = Tail(current)
        /\ handles' = [handles EXCEPT ![g] = @ \ woken]
        /\ flag' = flag \cup woken
        /\ suspended' = suspended \ woken
        /\ waiting' = waiting \ (woken \cap suspended)
        /\ ier' = ier \ irqs
        /\ isr' = isr \ irqs
        /\ wait_events' = IF again THEN Append(wait_events, g) ELSE wait_events
        /\ uio_enabled' = (uio_enabled \/ (again /\ wait_events = <<>>))
        /\ UNCHANGED <<objects, level, mer, uio_ready, pended>>

(* Interrupt.wait with a live controller, not registered yet.  With a dead *)
(* one it raises RuntimeError and changes nothing.  (The class's docstring *)
(* leaves undefined what a wait on an Interrupt of an older overlay does.) *)
WaitRegister(i) ==
    LET g == GenOf(i)
        first == handles[g] = {}
    IN  /\ LoopFree /\ i \notin suspended
        /\ obj[i] # Unset /\ g \in Alive
        /\ i \notin waiting
        /\ handles' = [handles EXCEPT ![g] = @ \cup {i}]
        /\ ier' = IF \A j \in handles[g] : LineOf(j) # LineOf(i)
                  THEN ier \cup {LineOf(i)} ELSE ier
        /\ wait_events' = IF first THEN Append(wait_events, g) ELSE wait_events
        /\ uio_enabled' = (uio_enabled \/ (first /\ wait_events = <<>>))
        /\ mer' = TRUE
        /\ flag' = flag \ {i}
        /\ waiting' = waiting \cup {i}
        /\ suspended' = suspended \cup {i}
        /\ pended' = pended \cup ({g} \ {epoch})
        /\ UNCHANGED <<objects, current, level, isr, uio_ready>>

(* Still registered by a wait that was cancelled: suspend on its event, or *)
(* return at once if that was set in the meantime.                         *)
WaitAgain(i) ==
    /\ LoopFree /\ i \notin suspended
    /\ obj[i] # Unset /\ GenOf(i) \in Alive
    /\ i \in waiting
    /\ IF i \in flag
       THEN waiting' = waiting \ {i} /\ UNCHANGED suspended
       ELSE suspended' = suspended \cup {i} /\ UNCHANGED waiting
    /\ UNCHANGED <<objects, handles, flag, pended, wait_events, current,
                   level, isr, ier, mer, uio>>

Cancel(i) ==
    /\ LoopFree /\ i \in suspended
    /\ suspended' = suspended \ {i}
    /\ UNCHANGED <<objects, handles, waiting, flag, pended, wait_events, current,
                   level, isr, ier, mer, uio>>

-----------------------------------------------------------------------------
(* What get_controller keeps of _controllers before it looks the name up.  *)
(* Mutant: the list survives the change of timestamp.                      *)
KeptAlways == controllers
Kept == IF epoch = last THEN controllers ELSE {}

(* Interrupt.__init__, get_parent, get_controller, and the constructor of  *)
(* the controller when there is none: it disables all lines.               *)
NewInterrupt(i, n) ==
    /\ LoopFree
    /\ obj[i] = Unset
    /\ last' = epoch
    /\ IF Kept = {}
       THEN controllers' = {epoch} /\ ier' = {}
       ELSE controllers' = Kept /\ UNCHANGED ier
    /\ obj' = [obj EXCEPT ![i] = <<CHOOSE g \in controllers' : TRUE, n>>]
    /\ UNCHANGED <<epoch, waits, wait_events, current, level, isr, mer, uio>>

(* Overlay.download: the bitstream resets every register of the logic, and *)
(* the timestamp changes.  The UIO device and its wait list stay, and with *)
(* it the controllers that have waiters.                                   *)
Download ==
    /\ LoopFree /\ epoch < MaxEpoch
    /\ epoch' = epoch + 1
    /\ level' = {} /\ isr' = {} /\ ier' = {} /\ mer' = FALSE
    /\ pended' = pended \cup ToSet(wait_events)
    /\ UNCHANGED <<last, controllers, obj, handles, waiting, flag, suspended,
                   wait_events, current, uio>>

Next ==
    \/ \E n \in Line : Raise(n) \/ Lower(n) \/ Latch(n)
    \/ KernelIrq \/ UioCallback \/ SetNext
    \/ \E i \in Intr : WaitRegister(i) \/ WaitAgain(i) \/ Cancel(i)
    \/ \E i \in Intr, n \in Line : NewInterrupt(i, n)
    \/ Download

Spec == Init /\ [][Next]_vars

(* As in AxiIntc: lines latch, the kernel delivers, the loop polls once    *)
(* per iteration, and a callback that runs returns.                        *)
FairSpec ==
    /\ Spec
    /\ \A n \in Line : WF_vars(Latch(n))
    /\ WF_vars(KernelIrq) /\ SF_vars(UioCallback) /\ WF_vars(SetNext)

-----------------------------------------------------------------------------
(* Once an Interrupt has been constructed for the new overlay, a wait on   *)
(* an old one raises instead of disturbing the registers of the new        *)
(* controller (interrupt.py:78-80,103-105): no controller object of an     *)
(* older overlay is alive, but for those that had waiters on the UIO's     *)
(* list at a download or got some after it.                                *)
Invalidated ==
    (LoopFree /\ last = epoch) => Alive \subseteq {epoch} \cup pended

(* A wait on an Interrupt of the overlay that is loaded returns, or is     *)
(* cancelled, once the line it waits for is latched (interrupt.py:48-50,   *)
(* docs/source/pynq_libraries/interrupt.rst:116-117), unless a controller  *)
(* object that outlived its overlay acknowledges and masks it.             *)
FreshWaitReturns ==
    \A i \in Intr, n \in Line :
        (/\ i \in suspended /\ obj[i] = <<epoch, n>>
         /\ n \in isr) ~> (i \notin suspended \/ GenOf(i) # epoch \/ pended # {})
=============================================================================
