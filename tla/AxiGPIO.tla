------------------------------- MODULE AxiGPIO -------------------------------
(***************************************************************************)
(* Tasks that wait for input values of an AXI GPIO                         *)
(* (src/pynq/lib/axigpio.py).  Its two channels share one interrupt, which *)
(* is the service that InterruptService promises; a channel's interrupt is *)
(* enabled while somebody waits on it, and taken back by whoever wakes     *)
(* first.  Inputs change between any two register accesses.                *)
(***************************************************************************)
EXTENDS Naturals, FiniteSets

CONSTANTS
    Task,           \* asyncio tasks
    Value,          \* values of a channel's inputs
    MaxCancels,     \* bound: channels on which a wait is cancelled, once each
    None, Irpt      \* nothing; the Interrupt ip2intc_irpt

Channel == {1, 2}

ASSUME GpioAssumption ==
    /\ IsFiniteSet(Task)
    /\ None # Irpt /\ None \notin Channel \X Value /\ MaxCancels \in Nat

VARIABLES
    input,          \* the inputs of each channel
    isr, ier,       \* channels: status and enable register
    waiters,        \* _waiter_count
    active, awaiting,   \* of the interrupt service
    at,             \* what each task does
    call,           \* its slice's channel and the value it waits for
    cancelled       \* channels on which a wait was cancelled

gpioVars == <<input, isr, ier, waiters, active, awaiting, at, call, cancelled>>

Irq == INSTANCE InterruptService WITH
    Pin <- {Irpt}, Intr <- {Irpt}, IntrPin <- [i \in {Irpt} |-> i]

(* Types, and: one task at a time is inside of the code.                   *)
At == {"done", "read", "enable", "register", "await", "leave"}
GpioTypeOK ==
    /\ input \in [Channel -> Value]
    /\ isr \subseteq Channel /\ ier \subseteq Channel /\ cancelled \subseteq Channel
    /\ waiters \in [Channel -> Nat]
    /\ active \subseteq {Irpt} /\ awaiting \in [Task -> {None, Irpt}]
    /\ at \in [Task -> At]
    /\ call \in [Task -> (Channel \X Value) \cup {None}]
    /\ \A t \in Task : call[t] = None <=> at[t] = "done"
    /\ \A t, u \in Task :
          at[t] \notin {"done", "await"} /\ at[u] \notin {"done", "await"} => t = u

GpioInit ==
    /\ input \in [Channel -> Value]
    /\ isr = {} /\ ier = {}
    /\ waiters = [c \in Channel |-> 0]
    /\ Irq!ServiceInit
    /\ at = [t \in Task |-> "done"]
    /\ call = [t \in Task |-> None]
    /\ cancelled = {}

(* A task in the await leaves the event loop to the others.                *)
chan(t) == call[t][1]
goal(t) == call[t][2]
LoopFree == \A t \in Task : at[t] \in {"done", "await"}
Goto(t, there) == at' = [at EXCEPT ![t] = there]
Return(t) == Goto(t, "done") /\ call' = [call EXCEPT ![t] = None]

(* The level of the interrupt line, which the controllers latch.           *)
Latched == active' = IF isr' \cap ier' # {} THEN {Irpt} ELSE active

(* wait_for_value_async: read, and wait for an interrupt if it differs.    *)
WaitForValue(t, c, v) ==
    /\ LoopFree /\ at[t] = "done"
    /\ call' = [call EXCEPT ![t] = <<c, v>>]
    /\ Goto(t, "read")
    /\ UNCHANGED <<input, isr, ier, waiters, active, awaiting, cancelled>>

Read(t) ==
    /\ at[t] = "read"
    /\ IF input[chan(t)] = goal(t) THEN Return(t)
       ELSE Goto(t, "enable") /\ UNCHANGED call
    /\ UNCHANGED <<input, isr, ier, waiters, active, awaiting, cancelled>>

(* wait_for_interrupt_async: the first to wait enables the channel.        *)
(* Mutant: the first after the channel's last interrupt.                   *)
FirstSince(c) == c \notin isr /\ waiters[c] = 0
First(c) == waiters[c] = 0

Enable(t) ==
    /\ at[t] = "enable"
    /\ ier' = IF First(chan(t)) THEN ier \cup {chan(t)} ELSE ier
    /\ waiters' = [waiters EXCEPT ![chan(t)] = @ + 1]
    /\ Goto(t, "register")
    /\ UNCHANGED <<input, isr, awaiting, call, cancelled>>
    /\ Latched

Register(t) ==
    /\ at[t] = "register"
    /\ Irq!Await(t, Irpt)
    /\ Goto(t, "await")
    /\ UNCHANGED <<input, isr, ier, waiters, call, cancelled>>

(* The wait is over: it takes back its own channel's interrupt.            *)
Own(t) == {chan(t)} \cap isr

Clear(t) ==
    /\ at[t] = "await" /\ awaiting[t] = None /\ LoopFree
    /\ isr' = isr \ Own(t)
    /\ Goto(t, "leave")
    /\ UNCHANGED <<input, ier, waiters, active, awaiting, call, cancelled>>

(* The last to go disables the channel.  Mutants: any; nobody.             *)
AnyLast(c) == TRUE
NeverLast(c) == FALSE
Last(c) == waiters[c] = 1

Leave(t) ==
    /\ at[t] = "leave"
    /\ waiters' = [waiters EXCEPT ![chan(t)] = @ - 1]
    /\ ier' = IF Last(chan(t)) THEN ier \ {chan(t)} ELSE ier
    /\ Goto(t, "read")
    /\ UNCHANGED <<input, isr, active, awaiting, call, cancelled>>

(* A wait cancelled at its await does not come to the lines after it.      *)
Cancel(t) ==
    /\ at[t] = "await" /\ LoopFree
    /\ chan(t) \notin cancelled
    /\ cancelled' = cancelled \cup {chan(t)}
    /\ Cardinality(cancelled') <= MaxCancels
    /\ Irq!Abandon(t)
    /\ Return(t)
    /\ UNCHANGED <<input, isr, ier, waiters>>

(* Hardware: any change of a channel's inputs sets its status bit.         *)
Change(c, v) ==
    /\ input[c] # v
    /\ input' = [input EXCEPT ![c] = v]
    /\ isr' = isr \cup {c}
    /\ UNCHANGED <<ier, waiters, awaiting, at, call, cancelled>>
    /\ Latched

Release ==
    /\ Irq!Release(Irpt) /\ \E t \in Task : awaiting[t] # None
    /\ UNCHANGED <<input, isr, ier, waiters, at, call, cancelled>>

Forget ==
    /\ Irq!Forget({Irpt}) /\ active # {} /\ isr \cap ier = {}
    /\ UNCHANGED <<input, isr, ier, waiters, at, call, cancelled>>

Step(t) == Read(t) \/ Enable(t) \/ Register(t) \/ Leave(t)
GpioNext ==
    \/ \E t \in Task :
          \/ \E c \in Channel, v \in Value : WaitForValue(t, c, v)
          \/ Step(t) \/ Clear(t) \/ Cancel(t)
    \/ \E c \in Channel, v \in Value : Change(c, v)
    \/ Release \/ Forget

GpioSpec ==
    /\ GpioInit /\ [][GpioNext]_gpioVars
    /\ WF_gpioVars(Release)
    /\ \A t \in Task : WF_gpioVars(Step(t)) /\ SF_gpioVars(Clear(t))

-----------------------------------------------------------------------------
(* A task that waits for a value sees it if it comes to stay, whichever    *)
(* waiter of whichever channel takes interrupts back in the meantime and   *)
(* whoever was cancelled.                                                  *)
ValueSeen ==
    \A t \in Task : []<>(at[t] = "done" \/ input[chan(t)] # goal(t))

(* The same as a state: a suspended task's channel is enabled, and if its  *)
(* value is there already, an interrupt is under way.                      *)
NothingMissed ==
    \A t \in Task : at[t] = "await" /\ awaiting[t] # None =>
        /\ chan(t) \in ier
        /\ input[chan(t)] = goal(t) => active # {}

(* While no task is inside of it, a channel's interrupt is enabled exactly *)
(* as long as somebody waits, unless a wait on it was cancelled, whose     *)
(* count stays (axigpio.py:265): nothing keeps the line high, so that the  *)
(* waits of the other channel do not return at once for ever.              *)
EnabledForWaiters ==
    LoopFree => \A c \in Channel \ cancelled :
        c \in ier <=> \E t \in Task : at[t] = "await" /\ chan(t) = c
=============================================================================
