------------------------------ MODULE VideoDMA ------------------------------
(***************************************************************************)
(* The frame ownership of the AXI VDMA driver (src/pynq/lib/video/dma.py): *)
(* an input channel (S2MMChannel, names in_...) that writes pictures into  *)
(* a ring of N frame stores, an output channel (MM2SChannel, out_...) that *)
(* shows the store it is parked on, or follows the input while it is tied  *)
(* to it, and a program with one task that reads and one that writes.      *)
(*                                                                         *)
(* A frame is a piece of memory.  It belongs to a _FrameList, to the       *)
(* program, or to nobody (it is in a _FrameCache or was freed).  The       *)
(* hardware uses the memory it loaded from a store's register at the last  *)
(* frame boundary, whoever owns it by now.  Python code between two awaits *)
(* is one piece for other tasks, but the hardware can pass a boundary      *)
(* between any two of its steps.  setframe and reset are not modelled.     *)
(***************************************************************************)
EXTENDS Integers, FiniteSets, Functions

CONSTANTS
    N,              \* framecount: frame stores of each channel
    Frame,          \* pieces of memory
    IrqFrames,      \* irqframecount that start() sets
    MaxHeld,        \* frames the program may hold when it asks for another
    None

ASSUME VDMAAssumption ==
    /\ N \in Nat \ {0}
    /\ IsFiniteSet(Frame) /\ None \notin Frame
    /\ IrqFrames \in Nat \ {0}
    /\ MaxHeld \in Nat

Slot == 0..N-1
Store == [Slot -> Frame \cup {None}]
Empty == [s \in Slot |-> None]

VARIABLES
    in_frames,      \* _frames of the input: the frames it owns, whose
                    \* addresses are in its registers
    in_active,      \* activeframe: the store being written
    in_now,         \* the memory being written
    in_running, in_irq,
    irqframecount, in_left,     \* ... and boundaries left until the irq
    in_odd,         \* history: a store was replaced while it was written
    out_frames,     \* _frames of the output
    out_reg,        \* its address registers, which hold the input's when tied
    out_active, out_now, out_running, out_irq,
    desiredframe,   \* park pointer of the output
    parked,         \* ... which it obeys
    has_cache,      \* the output was started before
    out_pc,         \* a call about to park the output, or to point it at 0
    out_odd,        \* history: it shows another store than is thought
    tied,           \* _sinkchannel of the input, sourcechannel of the output
    held,           \* frames the program has
    filled,         \* input stores whose frame holds a whole picture
    rpc, slot, nextframe, skew,     \* readframe: pc and locals
    wpc, frame                      \* writeframe: pc and argument

input == <<in_frames, in_active, in_now, in_running, in_irq,
           irqframecount, in_left, in_odd>>
output == <<out_frames, out_reg, out_active, out_now, out_running, out_irq,
            desiredframe, parked, has_cache, out_pc, out_odd>>
reader == <<rpc, slot, nextframe, skew>>
writer == <<wpc, frame>>
vars == <<input, output, tied, held, filled, reader, writer>>

TypeOK ==
    /\ in_frames \in Store
    /\ out_frames \in Store /\ out_reg \in Store
    /\ in_active \in Slot /\ out_active \in Slot /\ desiredframe \in Slot
    /\ in_now \in Frame \cup {None} /\ out_now \in Frame \cup {None}
    /\ in_running \in BOOLEAN /\ in_irq \in BOOLEAN
    /\ out_running \in BOOLEAN /\ out_irq \in BOOLEAN
    /\ irqframecount \in {1, IrqFrames} /\ in_left \in 1..IrqFrames
    /\ in_odd \in BOOLEAN /\ out_odd \in BOOLEAN
    /\ parked \in BOOLEAN /\ has_cache \in BOOLEAN /\ tied \in BOOLEAN
    /\ out_pc \in {"idle", "tie", "stop", "start"}
    /\ held \subseteq Frame /\ filled \subseteq Slot
    /\ rpc \in {"idle", "wait", "clear", "swap"}
    /\ slot \in Slot /\ nextframe \in Frame \cup {None} /\ skew \in 0..2
    /\ wpc \in {"idle", "wait", "untie", "park", "place", "point"}
    /\ frame \in Frame \cup {None}

Init ==
    /\ in_frames = Empty /\ in_active = 0 /\ in_now = None
    /\ in_running = FALSE /\ in_irq = FALSE
    /\ irqframecount = 1 /\ in_left = 1 /\ in_odd = FALSE
    /\ out_frames = Empty /\ out_reg = Empty /\ out_active = 0
    /\ out_now = None /\ out_running = FALSE /\ out_irq = FALSE
    /\ desiredframe = 0 /\ parked = TRUE /\ has_cache = FALSE
    /\ out_pc = "idle" /\ out_odd = FALSE
    /\ tied = FALSE
    /\ held = {} /\ filled = {}
    /\ rpc = "idle" /\ slot = 0 /\ nextframe = None /\ skew = 0
    /\ wpc = "idle" /\ frame = None

Owned(frames) == {frames[s] : s \in Slot} \ {None}

(* What getframe returns: memory nobody owns.  Memory that a register or   *)
(* the hardware still refers to is not given out again here: its owner is  *)
(* wrong already, whoever gets it next.                                    *)
Fresh == Frame \ (Owned(in_frames) \cup Owned(out_frames) \cup held
                  \cup Owned(out_reg) \cup {nextframe, in_now, out_now})
NewFrame == CHOOSE f \in Fresh : TRUE

(* No task is between two awaits.                                          *)
LoopFree ==
    rpc \in {"idle", "wait"} /\ wpc \in {"idle", "wait"} /\ out_pc = "idle"

-----------------------------------------------------------------------------
(* The hardware at a frame boundary.                                       *)

InBoundary ==
    /\ in_running
    /\ in_active' = (in_active + 1) % N
    /\ in_now' = in_frames[in_active']
    /\ filled' = (IF in_now = in_frames[in_active] THEN filled \cup {in_active}
                                                  ELSE filled) \ {in_active'}
    /\ IF in_left = 1
       THEN in_irq' = TRUE /\ in_left' = irqframecount
       ELSE in_left' = in_left - 1 /\ UNCHANGED in_irq
    /\ in_odd' = FALSE
    /\ skew' = IF rpc = "swap" /\ skew < 2 THEN skew + 1 ELSE skew
    /\ UNCHANGED <<in_frames, in_running, irqframecount, output, tied,
                   held, rpc, slot, nextframe, writer>>

(* A call is moving the park pointer: a boundary that passes now does not  *)
(* come to where it will be.                                               *)
Moving == out_pc # "idle" \/ wpc = "park"

(* A tied output follows the input one frame behind (framedelay = 1).      *)
OutBoundary ==
    /\ out_running
    /\ out_active' = IF parked THEN desiredframe ELSE (in_active + N - 1) % N
    /\ out_now' = out_reg[out_active']
    /\ out_irq' = TRUE
    /\ out_odd' = Moving
    /\ UNCHANGED <<input, out_frames, out_reg, out_running, desiredframe,
                   parked, has_cache, out_pc, tied, held, filled, reader,
                   writer>>

-----------------------------------------------------------------------------
(* S2MMChannel.readframe, readframe_async.                                 *)

Read ==
    /\ LoopFree /\ rpc = "idle"
    /\ in_running /\ Cardinality(held) < MaxHeld
    /\ rpc' = "wait"
    /\ UNCHANGED <<input, output, tied, held, filled, slot, nextframe, skew,
                   writer>>

(* The frame count bit is set: clear it and go on.                         *)
ReadReady ==
    /\ LoopFree /\ rpc = "wait"
    /\ in_irq
    /\ in_irq' = FALSE
    /\ rpc' = "clear"
    /\ UNCHANGED <<in_frames, in_active, in_now, in_running,
                   irqframecount, in_left, in_odd, output, tied, held, filled,
                   slot, nextframe, skew, writer>>

(* The store that is handed out when store a is being written.  Mutants:   *)
(* the next one; without the wrap.                                         *)
PreviousFrameNext(a) == (a + 1) % N
PreviousFrameBeyond(a) == a + 2
PreviousFrame(a) == (a + 2) % N

(* _readframe_internal up to the read of activeframe; writing another irq  *)
(* frame count restarts the counter.                                       *)
ReadActive ==
    /\ rpc = "clear"
    /\ Fresh # {}
    /\ irqframecount' = 1
    /\ in_left' = IF irqframecount = 1 THEN in_left ELSE 1
    /\ nextframe' = NewFrame
    /\ slot' = PreviousFrame(in_active)
    /\ skew' = 0
    /\ rpc' = "swap"
    /\ UNCHANGED <<in_frames, in_active, in_now, in_running, in_irq, in_odd,
                   output, tied, held, filled, writer>>

(* ... and the rest: the store gets a new frame, the program the old one.  *)
(* The setter of the list passes it on to the list of a tied output, which *)
(* does not own it.  A stopped channel has none: the call raises.          *)
ReadSwap ==
    /\ rpc = "swap"
    /\ in_frames' = [in_frames EXCEPT ![slot] = nextframe]
    /\ IF tied
       THEN /\ out_reg' = [out_reg EXCEPT ![slot] = nextframe]
            /\ out_frames' = [out_frames EXCEPT ![slot] = None]
       ELSE UNCHANGED <<out_reg, out_frames>>
    /\ held' = held \cup ({in_frames[slot]} \ {None})
    /\ filled' = filled \ {slot}
    /\ in_odd' = (in_odd \/ (in_running /\ skew = 2))
    /\ rpc' = "idle" /\ nextframe' = None /\ skew' = 0
    /\ UNCHANGED <<in_active, in_now, in_running, in_irq, irqframecount,
                   in_left, out_active, out_now, out_running, out_irq,
                   desiredframe, parked, has_cache, out_pc, out_odd, tied,
                   slot, writer>>

-----------------------------------------------------------------------------
(* S2MMChannel.start, stop and tie.                                        *)

(* A new frame for every store.  Of a running channel too, which goes on   *)
(* with the memory it has, and whose list passes the frames to a tied      *)
(* output.                                                                 *)
InStart ==
    /\ LoopFree
    /\ Cardinality(Fresh) >= N
    /\ in_frames' = CHOOSE f \in [Slot -> Fresh] : IsInjective(f)
    /\ IF tied
       THEN out_reg' = in_frames' /\ out_frames' = Empty
       ELSE UNCHANGED <<out_reg, out_frames>>
    /\ IF in_running
       THEN UNCHANGED <<in_active, in_now>>
       ELSE in_active' \in Slot /\ in_now' = in_frames'[in_active']
    /\ in_odd' = in_running
    /\ filled' = {}
    /\ in_running' = TRUE /\ in_irq' = FALSE
    /\ irqframecount' = IrqFrames /\ in_left' = IrqFrames
    /\ UNCHANGED <<out_active, out_now, out_running, out_irq, desiredframe,
                   parked, has_cache, out_pc, out_odd, tied, held, reader,
                   writer>>

(* tie(None) on a tied input: the output is to be parked where it is ...   *)
Point == desiredframe' = out_active
(* ... and is parked.                                                      *)
Park == parked' = TRUE /\ tied' = FALSE

Halt ==
    /\ in_running' = FALSE /\ in_now' = None /\ in_odd' = FALSE
    /\ in_frames' = Empty
    /\ UNCHANGED <<in_active, in_irq, irqframecount, in_left>>

InStop ==
    /\ LoopFree
    /\ IF tied
       THEN Point /\ out_pc' = "stop" /\ UNCHANGED input
       ELSE Halt /\ UNCHANGED <<desiredframe, out_pc>>
    /\ UNCHANGED <<out_frames, out_reg, out_active, out_now, out_running,
                   out_irq, parked, has_cache, out_odd, tied, held, filled,
                   reader, writer>>

(* tie(channel): the output loses its frames and gets the input's stores.  *)
Tie ==
    /\ LoopFree /\ ~tied
    /\ tied' = TRUE /\ parked' = FALSE
    /\ out_frames' = Empty /\ out_reg' = in_frames
    /\ UNCHANGED <<input, out_active, out_now, out_running, out_irq,
                   desiredframe, has_cache, out_pc, out_odd, held, filled,
                   reader, writer>>

Untie ==
    /\ LoopFree /\ tied
    /\ Point /\ out_pc' = "tie"
    /\ UNCHANGED <<input, out_frames, out_reg, out_active, out_now,
                   out_running, out_irq, parked, has_cache, out_odd, tied,
                   held, filled, reader, writer>>

(* The rest of Untie and InStop.                                           *)
TiePark ==
    /\ out_pc \in {"tie", "stop"}
    /\ Park /\ out_pc' = "idle"
    /\ IF out_pc = "stop" THEN Halt ELSE UNCHANGED input
    /\ UNCHANGED <<out_frames, out_reg, out_active, out_now, out_running,
                   out_irq, desiredframe, has_cache, out_odd, held, filled,
                   reader, writer>>

-----------------------------------------------------------------------------
(* MM2SChannel.start, stop, newframe and what the program does with frames.*)

(* A new frame for the first store, also of a running channel; the run     *)
(* register parks it.                                                      *)
OutStart ==
    /\ LoopFree
    /\ Fresh # {}
    /\ out_frames' = [out_frames EXCEPT ![0] = NewFrame]
    /\ out_reg' = [out_reg EXCEPT ![0] = NewFrame]
    /\ out_running' = TRUE /\ parked' = TRUE /\ has_cache' = TRUE
    /\ IF out_running
       THEN UNCHANGED <<out_active, out_now>>
       ELSE out_active' = desiredframe /\ out_now' = out_reg'[desiredframe]
    /\ out_odd' = out_running
    /\ out_pc' = "start"
    /\ UNCHANGED <<input, out_irq, desiredframe, tied, held, filled, reader,
                   writer>>

(* ... and the park pointer goes to that store.                            *)
StartPoint ==
    /\ out_pc = "start"
    /\ desiredframe' = 0 /\ out_pc' = "idle"
    /\ UNCHANGED <<input, out_frames, out_reg, out_active, out_now,
                   out_running, out_irq, parked, has_cache, out_odd, tied,
                   held, filled, reader, writer>>

OutStop ==
    /\ LoopFree
    /\ out_running' = FALSE /\ out_now' = None /\ parked' = TRUE
    /\ out_frames' = Empty /\ out_reg' = Empty
    /\ out_odd' = FALSE
    /\ UNCHANGED <<input, out_active, out_irq, desiredframe, has_cache,
                   out_pc, tied, held, filled, reader, writer>>

TakeFrame ==
    /\ LoopFree /\ has_cache
    /\ Fresh # {} /\ Cardinality(held) < MaxHeld
    /\ held' = held \cup {NewFrame}
    /\ UNCHANGED <<input, output, tied, filled, reader, writer>>

(* The last reference goes away, and the frame to where it came from.      *)
Drop(f) ==
    /\ LoopFree /\ f \in held \ {frame}
    /\ held' = held \ {f}
    /\ UNCHANGED <<input, output, tied, filled, reader, writer>>

-----------------------------------------------------------------------------
(* MM2SChannel.writeframe, writeframe_async.                               *)

Write(f) ==
    /\ LoopFree /\ wpc = "idle"
    /\ out_running /\ f \in held
    /\ frame' = f
    /\ wpc' = "wait"
    /\ UNCHANGED <<input, output, tied, held, filled, reader>>

WriteReady ==
    /\ LoopFree /\ wpc = "wait"
    /\ out_irq
    /\ out_irq' = FALSE
    /\ wpc' = "untie"
    /\ UNCHANGED <<input, out_frames, out_reg, out_active, out_now,
                   out_running, desiredframe, parked, has_cache, out_pc,
                   out_odd, tied, held, filled, reader, frame>>

WriteUntie ==
    /\ wpc = "untie"
    /\ IF tied
       THEN Point /\ wpc' = "park"
       ELSE wpc' = "place" /\ UNCHANGED desiredframe
    /\ UNCHANGED <<input, out_frames, out_reg, out_active, out_now,
                   out_running, out_irq, parked, has_cache, out_pc, out_odd,
                   tied, held, filled, reader, frame>>

WritePark ==
    /\ wpc = "park"
    /\ Park /\ wpc' = "place"
    /\ UNCHANGED <<input, out_frames, out_reg, out_active, out_now,
                   out_running, out_irq, desiredframe, has_cache, out_pc,
                   out_odd, held, filled, reader, frame>>

(* The store the next picture goes to.  Mutant: the one being shown.       *)
NextFrameSame(d) == d
NextFrame(d) == (d + 1) % N

(* What the program has after a write.  Mutant: it keeps the frame.        *)
KeepsFrame == held
GivesFrame == held \ {frame}

WritePlace ==
    /\ wpc = "place"
    /\ out_frames' = [out_frames EXCEPT ![NextFrame(desiredframe)] = frame]
    /\ out_reg' = [out_reg EXCEPT ![NextFrame(desiredframe)] = frame]
    /\ held' = GivesFrame
    /\ wpc' = "point" /\ frame' = None
    /\ UNCHANGED <<input, out_active, out_now, out_running, out_irq,
                   desiredframe, parked, has_cache, out_pc, out_odd, tied,
                   filled, reader>>

WritePoint ==
    /\ wpc = "point"
    /\ desiredframe' = NextFrame(desiredframe)
    /\ wpc' = "idle"
    /\ UNCHANGED <<input, out_frames, out_reg, out_active, out_now,
                   out_running, out_irq, parked, has_cache, out_pc, out_odd,
                   tied, held, filled, reader, frame>>

-----------------------------------------------------------------------------
ReadStep == ReadReady \/ ReadActive \/ ReadSwap
WriteStep == WriteReady \/ WriteUntie \/ WritePark \/ WritePlace \/ WritePoint

Next ==
    \/ InBoundary \/ OutBoundary
    \/ Read \/ ReadStep
    \/ InStart \/ InStop \/ Tie \/ Untie \/ TiePark
    \/ OutStart \/ StartPoint \/ OutStop \/ TakeFrame
    \/ \E f \in Frame : Drop(f) \/ Write(f)
    \/ WriteStep

Spec == Init /\ [][Next]_vars

-----------------------------------------------------------------------------
(* Every frame has one owner: a store of one channel or the program, never *)
(* two of them, whatever the order of reads, writes, ties, starts and      *)
(* stops of both channels (dma.py:63-69,159-161,411-418).                  *)
SingleOwner ==
    /\ \A s, t \in Slot : in_frames[s] = in_frames[t] /\ s # t
                              => in_frames[s] = None
    /\ \A s, t \in Slot : out_frames[s] = out_frames[t] /\ s # t
                              => out_frames[s] = None
    /\ Owned(in_frames) \cap Owned(out_frames) = {}
    /\ held \cap (Owned(in_frames) \cup Owned(out_frames)) = {}

(* The memory the input hardware writes belongs to the store it is at: it  *)
(* was not handed to the program or recycled under the hardware's hands    *)
(* (dma.py:157-162) - until start() is called on a running input, which    *)
(* replaces every store, or two boundaries pass while readframe replaces   *)
(* one, which nothing in it checks; and then only up to the next boundary. *)
InputOwned ==
    in_running /\ ~in_odd => in_now # None /\ in_frames[in_active] = in_now

(* writeframe replaces, and so frees, only frames that are not on the      *)
(* screen: it waits for the last one to be shown, and puts the next one    *)
(* after it (dma.py:63-69,411-432).  Not so up to the first boundary after *)
(* start() of a running output or, when a boundary passes during it, after *)
(* start() or tie(None): the park pointer is moved without a wait.         *)
OutputOwned ==
    [][wpc = "place" /\ out_now \in Owned(out_frames) /\ ~out_odd
           => out_now \in Owned(out_frames')]_vars

(* readframe blocks until a complete frame has been read (dma.py:169): the *)
(* frames it returns hold a picture (where fewer than two boundaries pass  *)
(* while it replaces one).                                                 *)
CapturedWhole ==
    rpc = "swap" /\ in_running /\ skew < 2 /\ in_frames[slot] # None
        => slot \in filled
=============================================================================
