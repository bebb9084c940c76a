------------------------------- MODULE AxiDMA -------------------------------
(***************************************************************************)
(* The two channels of an AXI DMA (src/pynq/lib/dma.py), with or without   *)
(* scatter-gather descriptors, each used by one asyncio task, over the     *)
(* interrupts that InterruptService promises.  A polling wait() and the    *)
(* loops of stop() hold the event loop; the hardware moves between any two *)
(* looks at its registers.  Nothing moves on a channel while transfer()    *)
(* or start() write its registers, so each is one step.                    *)
(***************************************************************************)
EXTENDS Naturals, Sequences

CONSTANTS
    MaxSize,        \* _max_size: bytes of one block
    Align,          \* _align: bytes of a stream word
    Sizes,          \* bytes of the arrays that are transferred
    None

ASSUME DmaAssumption ==
    /\ MaxSize \in Nat /\ Align \in Nat \ {0} /\ Align <= MaxSize
    /\ Sizes \subseteq Nat \ {0} /\ None \notin Sizes

Channel == {"send", "recv"}
Other(c) == IF c = "send" THEN "recv" ELSE "send"

(* sg: c_include_sg of the design.                                         *)
(* py: the channel objects.  buffer: _active_buffer, by its size; fresh:   *)
(* _first_transfer, or not _transfer_started; descr: the descriptors.      *)
(* hw: their registers.  halted, idle, ioc and error of the status         *)
(* register; run of the control register; buffer: what is moved, None when *)
(* nothing is; marked: a descriptor's status tells of an error.            *)
(* doing: what the channel's task does; result: what its last wait said.   *)
(* moved: the last transfer is complete; hit: what befell it.  "overlap":  *)
(* a simple one was asked for while another was under way; "stop": stop()  *)
(* came while it was waited for; "error", and of a scatter-gather one      *)
(* "abort" and "reset": what cut it short.                                 *)
VARIABLES sg, py, hw, active, awaiting, doing, result, moved, hit

dmaVars == <<sg, py, hw, active, awaiting, doing, result, moved, hit>>
ghosts == <<result, moved, hit>>

Irq == INSTANCE InterruptService WITH
    Pin <- Channel, Intr <- Channel, Task <- Channel,
    IntrPin <- [c \in Channel |-> c]

Doing == {"nothing", "poll error", "poll idle", "check", "await", "stop",
          "stop await"}

(* A channel as its constructor leaves it: a simple one has been started.  *)
NewChannel == [buffer |-> None, fresh |-> TRUE, cyclic |-> FALSE, descr |-> None]
NewRegisters == [halted |-> sg, run |-> ~sg, idle |-> FALSE, ioc |-> FALSE,
                 error |-> FALSE, marked |-> FALSE, buffer |-> None,
                 descr |-> None]

DmaInit ==
    /\ sg \in BOOLEAN
    /\ py = [c \in Channel |-> NewChannel]
    /\ hw = [c \in Channel |-> NewRegisters]
    /\ Irq!ServiceInit
    /\ doing = [c \in Channel |-> "nothing"]
    /\ result = [c \in Channel |-> "none"]
    /\ moved = [c \in Channel |-> FALSE] /\ hit = [c \in Channel |-> {}]

LoopFree == \A c \in Channel : doing[c] \in {"nothing", "await"}
Goto(c, there) == doing' = [doing EXCEPT ![c] = there]

(* A channel's interrupt line, and the controllers' latch of it.           *)
Line(h) == {c \in Channel : h[c].ioc /\ h[c].run}
Latched == active' = active \cup Line(hw')

-----------------------------------------------------------------------------
(* Scatter-gather: a transfer is cut into blocks of equal size and a rest. *)
(* Mutant: as many blocks as fit.                                          *)
BlockSize(n) ==
    LET largest == MaxSize - (MaxSize % Align)
        half == n \div 2
    IN  IF largest > n THEN half - (half % Align) ELSE largest
Rounded(n, b) == n \div b
NumDescr(n, b) == (n + (b - 1)) \div b
BlockLen(n, b, i) == IF n - i * b > b THEN b ELSE n - i * b

Descriptors(n) ==
    LET b == BlockSize(n)
    IN  [i \in 1 .. NumDescr(n, b) |->
            [at |-> (i - 1) * b, len |-> BlockLen(n, b, i - 1)]]

(* A soft reset by a cyclic channel is one of the core: both channels halt *)
(* and forget what they did.                                               *)
Blank == [halted |-> TRUE, run |-> FALSE, idle |-> FALSE, ioc |-> FALSE,
          error |-> FALSE, marked |-> FALSE, buffer |-> None, descr |-> None]
Aborted(c) == IF hw[c].buffer # None THEN {"reset"} ELSE {}
Stopped(c, cyclic) ==
    IF cyclic THEN [d \in Channel |-> Blank] ELSE [hw EXCEPT ![c].run = FALSE]

Lists == {Descriptors(n) : n \in {m \in Sizes : BlockSize(m) > 0}}

Objects == [buffer : Sizes \cup {None}, fresh : BOOLEAN, cyclic : BOOLEAN,
            descr : Lists \cup {None}]
Registers == [halted : BOOLEAN, run : BOOLEAN, idle : BOOLEAN, ioc : BOOLEAN,
              error : BOOLEAN, marked : BOOLEAN, buffer : Sizes \cup {None},
              descr : Lists \cup {None}]
Hits == {"overlap", "stop", "abort", "reset", "error"}
DmaTypeOK ==
    /\ sg \in BOOLEAN
    /\ py \in [Channel -> Objects] /\ hw \in [Channel -> Registers]
    /\ active \subseteq Channel
    /\ awaiting \in [Channel -> Channel \cup {None}]
    /\ doing \in [Channel -> Doing]
    /\ result \in [Channel -> {"none", "done", "raised"}]
    /\ moved \in [Channel -> BOOLEAN]
    /\ hit \in [Channel -> SUBSET Hits]

-----------------------------------------------------------------------------
(* transfer().  Refused: on a channel that is not idle (simple) or halted  *)
(* (scatter-gather); a cyclic one for receiving, after _cyclic is set.  A  *)
(* simple one is not refused on a busy channel that was started again:     *)
(* what the engine then moves is not known.                                *)
StartSimple(c, n) ==
    LET busy == hw[c].buffer # None
    IN  /\ ~sg /\ ~hw[c].halted /\ (hw[c].idle \/ py[c].fresh)
        /\ n <= MaxSize
        /\ py' = [py EXCEPT ![c].buffer = n, ![c].fresh = FALSE]
        /\ \E b \in IF busy THEN {n, hw[c].buffer} ELSE {n} :
              hw' = [hw EXCEPT ![c].buffer = b, ![c].idle = FALSE]
        /\ hit' = [hit EXCEPT ![c] = IF busy THEN {"overlap"} ELSE {}]

(* start() would wait for ever for a channel that an error has halted.     *)
StartSG(c, n, cyclic) ==
    LET list == Descriptors(n)
        h == Stopped(c, cyclic)
    IN  /\ sg /\ hw[c].halted /\ ~h[c].error
        /\ cyclic => c = "send"
        /\ BlockSize(n) > 0
        /\ py' = [py EXCEPT ![c] = [buffer |-> n, fresh |-> FALSE,
                                    cyclic |-> cyclic, descr |-> list]]
        /\ hw' = [h EXCEPT ![c] = [@ EXCEPT !.halted = FALSE, !.run = TRUE,
                                            !.idle = FALSE, !.marked = FALSE,
                                            !.buffer = n, !.descr = list]]
        /\ hit' = [d \in Channel |-> IF d = c THEN {}
                                     ELSE hit[d] \cup IF cyclic THEN Aborted(d) ELSE {}]

Transfer(c, n, cyclic) ==
    /\ LoopFree /\ doing[c] = "nothing"
    /\ (~cyclic /\ StartSimple(c, n)) \/ StartSG(c, n, cyclic)
    /\ Latched
    /\ result' = [result EXCEPT ![c] = "none"]
    /\ moved' = [moved EXCEPT ![c] = FALSE]
    /\ UNCHANGED <<sg, awaiting, doing>>

(* A block size of 0 divides by zero, after _cyclic is set as well.        *)
TransferRefused(c, n, cyclic) ==
    /\ LoopFree /\ doing[c] = "nothing"
    /\ sg /\ hw[c].halted
    /\ (cyclic /\ c = "recv") \/ BlockSize(n) = 0
    /\ py' = [py EXCEPT ![c].cyclic = cyclic]
    /\ UNCHANGED <<sg, hw, active, awaiting, doing, ghosts>>

(* start() of a simple channel, stopped or not, and stop() of either, each *)
(* of which may be called while a wait_async() is pending.                 *)
Start(c) ==
    /\ LoopFree /\ ~sg /\ ~hw[c].error
    /\ hw' = [hw EXCEPT ![c].halted = FALSE, ![c].run = TRUE]
    /\ py' = [py EXCEPT ![c].fresh = TRUE]
    /\ Latched
    /\ UNCHANGED <<sg, awaiting, doing, ghosts>>

Stop(c) ==
    /\ LoopFree
    /\ hw' = Stopped(c, py[c].cyclic)
    /\ hit' = [d \in Channel |->
                  hit[d] \cup (IF py[c].cyclic THEN Aborted(d) ELSE {})
                         \cup (IF d = c /\ doing[c] = "await" THEN {"stop"} ELSE {})]
    /\ Goto(c, IF doing[c] = "await" THEN "stop await" ELSE "stop")
    /\ UNCHANGED <<sg, py, active, awaiting, result, moved>>

StopDone(c) ==
    /\ doing[c] \in {"stop", "stop await"} /\ hw[c].halted
    /\ py' = [py EXCEPT ![c].fresh = @ \/ sg]
    /\ Goto(c, IF doing[c] = "stop" THEN "nothing" ELSE "await")
    /\ UNCHANGED <<sg, hw, active, awaiting, ghosts>>

-----------------------------------------------------------------------------
(* wait() and wait_async().  Their users have called transfer() since      *)
(* start(): a simple channel's wait() does not check it.                   *)
Startable(c) == IF sg THEN ~py[c].cyclic /\ ~py[c].fresh
                      ELSE ~hw[c].halted /\ ~py[c].fresh

Wait(c) ==
    /\ LoopFree /\ doing[c] = "nothing" /\ Startable(c)
    /\ \E how \in {"poll error", "check"} : Goto(c, how)
    /\ result' = [result EXCEPT ![c] = "none"]
    /\ UNCHANGED <<sg, py, hw, active, awaiting, moved, hit>>

(* What ends the loops.  Mutants: the interrupt, whatever it came from; a  *)
(* channel that has halted.                                                *)
InterruptEnds(c) == hw[c].ioc
HaltEnds(c) == hw[c].halted
Ended(c) == hw[c].idle \/ (sg /\ hw[c].halted)

(* wait() looks for an error, then whether it is to go on.                 *)
PollError(c) ==
    /\ doing[c] = "poll error"
    /\ IF hw[c].error
       THEN result' = [result EXCEPT ![c] = "raised"] /\ Goto(c, "nothing")
       ELSE Goto(c, "poll idle") /\ UNCHANGED result
    /\ UNCHANGED <<sg, py, hw, active, awaiting, moved, hit>>

(* The transfer is over: a scatter-gather channel is stopped before its    *)
(* descriptors are freed.  Mutant: it is not.  A second wait() of a simple *)
(* channel has no buffer to invalidate.  A descriptor with an error raises *)
(* before anything is stopped or let go.                                   *)
LeftRunning(h, c) == h
Halt(h, c) == IF sg THEN [h EXCEPT ![c].run = FALSE, ![c].halted = TRUE] ELSE h

FinishRaises(c, h) ==
    /\ sg /\ hw[c].marked
    /\ hw' = h /\ UNCHANGED py
    /\ result' = [result EXCEPT ![c] = "raised"]
    /\ Goto(c, "nothing")

FinishReturns(c, h) ==
    /\ ~(sg /\ hw[c].marked)
    /\ py' = [py EXCEPT ![c].buffer = None, ![c].descr = None,
                        ![c].fresh = @ \/ sg]
    /\ hw' = Halt(h, c)
    /\ result' = [result EXCEPT ![c] =
          IF c = "recv" /\ py[c].buffer = None THEN "raised" ELSE "done"]
    /\ Goto(c, "nothing")

Finish(c, h) == FinishRaises(c, h) \/ FinishReturns(c, h)

PollIdle(c) ==
    /\ doing[c] = "poll idle"
    /\ \/ Ended(c) /\ Finish(c, hw)
       \/ ~Ended(c) /\ Goto(c, "poll error") /\ UNCHANGED <<py, hw, result>>
    /\ UNCHANGED <<sg, active, awaiting, moved, hit>>

(* wait_async() never looks for an error; it clears the interrupt when it  *)
(* is done.                                                                *)
CheckAsync(c) ==
    /\ doing[c] = "check"
    /\ \/ Ended(c) /\ Finish(c, [hw EXCEPT ![c].ioc = FALSE]) /\ UNCHANGED awaiting
       \/ ~Ended(c) /\ Goto(c, "await") /\ Irq!Await(c, c) /\ UNCHANGED <<py, hw, result>>
    /\ UNCHANGED <<sg, active, moved, hit>>

Resume(c) ==
    /\ doing[c] = "await" /\ awaiting[c] = None /\ LoopFree
    /\ Goto(c, "check")
    /\ UNCHANGED <<sg, py, hw, active, awaiting, ghosts>>

-----------------------------------------------------------------------------
(* Hardware.  An error of the engine is in a descriptor's status or not (a *)
(* decode error is in a bit that the driver does not look at).  A stopped  *)
(* channel completes its transfer before it halts, or aborts it.           *)
Complete(c) ==
    /\ hw[c].buffer # None /\ ~py[c].cyclic
    /\ hw' = [hw EXCEPT ![c].buffer = None, ![c].idle = TRUE, ![c].ioc = TRUE]
    /\ moved' = [moved EXCEPT ![c] = "overlap" \notin hit[c]]
    /\ Latched
    /\ UNCHANGED <<sg, py, awaiting, doing, result, hit>>

Fail(c) ==
    /\ hw[c].buffer # None
    /\ \E m \in IF sg THEN BOOLEAN ELSE {FALSE} :
          hw' = [hw EXCEPT ![c].buffer = None, ![c].error = TRUE, ![c].marked = m,
                           ![c].run = FALSE, ![c].halted = TRUE]
    /\ hit' = [hit EXCEPT ![c] = @ \cup {"error"}]
    /\ UNCHANGED <<sg, py, active, awaiting, doing, result, moved>>

HaltDone(c) ==
    /\ ~hw[c].run /\ ~hw[c].halted
    /\ hw' = [hw EXCEPT ![c].halted = TRUE, ![c].buffer = None]
    /\ hit' = IF sg /\ hw[c].buffer # None THEN [hit EXCEPT ![c] = @ \cup {"abort"}]
                                         ELSE hit
    /\ UNCHANGED <<sg, py, active, awaiting, doing, result, moved>>

(* The interrupt service: a line that is high is latched again.            *)
Release(c) == Irq!Release(c) /\ awaiting[c] # None
              /\ UNCHANGED <<sg, py, hw, doing, ghosts>>
Forget(c) == Irq!Forget({c}) /\ c \in active \ Line(hw)
             /\ UNCHANGED <<sg, py, hw, doing, ghosts>>

Task(c) == StopDone(c) \/ PollError(c) \/ PollIdle(c) \/ CheckAsync(c) \/ Resume(c)
DmaNext == \E c \in Channel :
    \/ \E n \in Sizes, cyclic \in BOOLEAN :
          Transfer(c, n, cyclic) \/ TransferRefused(c, n, cyclic)
    \/ Start(c) \/ Stop(c) \/ Wait(c)
    \/ Task(c)
    \/ Complete(c) \/ Fail(c) \/ HaltDone(c) \/ Release(c) \/ Forget(c)

(* The streams deliver and take data, the loop runs what is ready.         *)
DmaSpec ==
    /\ DmaInit /\ [][DmaNext]_dmaVars
    /\ \A c \in Channel :
          WF_dmaVars(Task(c)) /\ SF_dmaVars(Resume(c))
          /\ WF_dmaVars(Complete(c)) /\ WF_dmaVars(HaltDone(c)) /\ WF_dmaVars(Release(c))

-----------------------------------------------------------------------------
(* "The wait() method ensures the DMA transactions have completed"         *)
(* (docs/source/pynq_libraries/dma.rst): a wait that returned normally     *)
(* means so, whichever stale interrupts woke it, unless, on a              *)
(* scatter-gather channel, a stop() by another task aborted the transfer   *)
(* under the wait_async(), the other channel's cyclic transfer reset the   *)
(* core, or an error halted the channel after the last look for one        *)
(* (dma.py:298-312, 478-503, 532); or unless, on a simple channel, start() *)
(* had let the transfer begin before the one before it ended               *)
(* (dma.py:95, 137).                                                       *)
CutShort == {"abort", "reset", "error"}
WaitMeansDone ==
    \A c \in Channel :
        /\ result[c] = "done"
        /\ hit[c] \cap (IF sg THEN CutShort ELSE {"overlap"}) = {}
        => moved[c]

(* The hardware never fetches descriptors that were freed, nor moves an    *)
(* array that the channel does not keep from being freed, unless it was    *)
(* given one while it moved another, after a start() (dma.py:95, 137).     *)
MemoryHeld ==
    \A c \in Channel :
        /\ sg /\ ~hw[c].halted => py[c].descr = hw[c].descr
        /\ hw[c].buffer # None => \/ py[c].buffer = hw[c].buffer
                                  \/ "overlap" \in hit[c]

(* The descriptors of an array cover each of its bytes once, in blocks the *)
(* engine can take, whose addresses are aligned.                           *)
Tiles(list, n) ==
    /\ \A b \in 0 .. n - 1 :
          \E i \in DOMAIN list : /\ list[i].at <= b /\ b < list[i].at + list[i].len
                               /\ \A j \in (DOMAIN list) \ {i} :
                                     b \notin list[j].at .. list[j].at + list[j].len - 1
    /\ \A i \in DOMAIN list : /\ list[i].len \in 1 .. MaxSize
                             /\ list[i].at % Align = 0
                             /\ list[i].at + list[i].len <= n
TransferTiled ==
    \A c \in Channel : py[c].descr # None => Tiles(py[c].descr, py[c].buffer)

(* A wait, polling or not, ends when the transfer does, whatever stale     *)
(* interrupt is latched and whatever the other channel does, unless the    *)
(* channel was stopped under it, was reset with the core, or failed.       *)
WaitEnds ==
    \A c \in Channel :
        []<>(doing[c] = "nothing" \/ hit[c] \cap {"stop", "reset", "error"} # {})
=============================================================================
