------------------------------ MODULE MBChannel ------------------------------
(***************************************************************************)
(* One channel of the mailbox in the memory a Microblaze shares with       *)
(* Python: a ring of L bytes behind two pointers.  One end is              *)
(* SimpleMBChannel (src/pynq/lib/pynqmicroblaze/streams.py), the other the *)
(* C driver (src/boards/sw_repo/mailbox_bram/src/mailbox_io.c).  Nothing   *)
(* but the pointers synchronises them: every access to a pointer or to a   *)
(* byte of the ring is a step.                                             *)
(*                                                                         *)
(* A read of a pointer that collides with the other end's write of it      *)
(* yields rubbish, which is why both ends read until two reads agree.  Two *)
(* collisions in a row are assumed not to yield the same rubbish.          *)
(*                                                                         *)
(* A call of the C end that finds nothing to do looks again in a loop, and *)
(* calls _handle_events() between a look and what it does about it.  That  *)
(* may call functions of the program, which may use the same channel.      *)
(***************************************************************************)
EXTENDS Integers, Sequences

CONSTANTS
    L,              \* length of data_array / descriptors[].size
    Byte, Zero,     \* what a cell holds; the memory is cleared on load
    Blocks,         \* blocks the writer's program writes
    Sizes,          \* sizes the reader's program asks for, -1: what there is
    PyWrites,       \* TRUE: Python writes and C reads; FALSE: the reverse
    Collisions,     \* whether reads may collide with writes
    MaxNested,      \* bound on the calls made from inside of one call
    None, Rubbish

ASSUME ChannelAssumption ==
    /\ L \in Nat /\ L > 1
    /\ Zero \in Byte
    /\ Blocks \subseteq Seq(Byte) \ {<<>>}
    /\ Sizes \subseteq Nat \cup {-1}
    /\ PyWrites \in BOOLEAN /\ Collisions \in BOOLEAN /\ MaxNested \in Nat
    /\ None \notin Int /\ Rubbish \notin Int /\ None # Rubbish

Cell == 0..L-1
Amount == 0..L-1        \* of bytes, or of free cells

VARIABLES
    written,    \* control_array[0] / ctrl: the next cell to write
    read,       \* control_array[1] / status: the next cell to read
    data,       \* data_array / buffer
    clash,      \* pointers whose last write may collide with the next read
    (* the write in progress *)
    wpc,        \* "idle", "look" for space, "spin", "events", "copy"
    block,      \* the argument
    wseen,      \* space computed from the last read of the pointer
    to_write, wcopied,
    (* the read in progress *)
    rpc,        \* "idle", "look" for data, "spin", "events", "copy"
    want,       \* the argument n / len
    rseen,      \* bytes computed from the last read of the pointer
    available, rcopied,
    got,        \* bytes collected by this call of read
    (* calls of the C end inside of each other *)
    held,       \* what the last look of its loop found, during "events"
    stack,      \* the calls below the running one: argument and held
    nested,     \* how many there were in the outermost one
    (* history *)
    stale       \* a nested call was made after its caller had found something

writer == <<wpc, block, wseen, to_write, wcopied>>
reader == <<rpc, want, rseen, available, rcopied, got>>
calls == <<held, stack, nested, stale>>
vars == <<written, read, data, clash, writer, reader, calls>>

At == {"idle", "look", "spin", "events", "copy"}
Frame == [arg : IF PyWrites THEN Sizes \ {-1} ELSE Seq(Byte), held : Amount]

TypeOK ==
    /\ written \in Cell /\ read \in Cell
    /\ data \in [Cell -> Byte]
    /\ clash \subseteq {"written", "read"}
    /\ wpc \in At \ (IF PyWrites THEN {"spin", "events"} ELSE {})
    /\ rpc \in At \ (IF PyWrites THEN {} ELSE {"spin", "events"})
    /\ block \in Seq(Byte)
    /\ wseen \in Amount \cup {None, Rubbish}
    /\ rseen \in Amount \cup {None, Rubbish}
    /\ to_write \in Amount /\ wcopied \in 0..to_write /\ to_write <= Len(block)
    /\ (wpc # "copy" => to_write = 0) /\ (wpc = "idle" => block = <<>>)
    /\ available \in Amount /\ rcopied \in 0..available
    /\ (rpc # "copy" => available = 0)
    /\ want \in Sizes \cup {-1} /\ (PyWrites /\ rpc # "idle" => want # -1)
    /\ got \in Seq(Byte) /\ rcopied <= Len(got)
    /\ held \in Amount /\ stack \in Seq(Frame)
    /\ nested \in 0..MaxNested /\ stale \in BOOLEAN

Init ==
    /\ written = 0 /\ read = 0
    /\ data = [c \in Cell |-> Zero]
    /\ clash = {}
    /\ wpc = "idle" /\ block = <<>> /\ wseen = None
    /\ to_write = 0 /\ wcopied = 0
    /\ rpc = "idle" /\ want = -1 /\ rseen = None
    /\ available = 0 /\ rcopied = 0 /\ got = <<>>
    /\ held = 0 /\ stack = <<>> /\ nested = 0 /\ stale = FALSE

-----------------------------------------------------------------------------
(* Space and data as each end computes them from the two pointers.         *)
Wrapped(n) == IF n < 0 THEN n + L ELSE n

(* Mutant: the cell that keeps full and empty apart is used as well.       *)
PySpaceAll(r, w) == IF r = w THEN L - 1 ELSE (r - w + 2 * L) % L

PySpace(r, w) == (r - w - 1 + 2 * L) % L
CSpace(r, w) == Wrapped(r - w - 1)
PyUnread(r, w) == (w - r + L) % L
CUnread(r, w) == Wrapped(w - r)

Space(r, w) == IF PyWrites THEN PySpace(r, w) ELSE CSpace(r, w)
Unread(r, w) == IF PyWrites THEN CUnread(r, w) ELSE PyUnread(r, w)

(* A pointer advanced by n, as Python and as C write it back.  Mutant: the *)
(* wrap is taken one cell late.                                            *)
PyAdvance(p, n) == (p + n) % L
CAdvanceLate(p, n) == IF p + n > L THEN p + n - L ELSE p + n
CAdvance(p, n) == IF p + n >= L THEN p + n - L ELSE p + n

(* The k-th byte (from 0) of n copied to or from pointer p: the first      *)
(* block goes up to the end of the ring, the second starts at cell 0.      *)
(* Mutant: the second block starts where the first did.                    *)
FirstBlock(p, n) == IF n < L - p THEN n ELSE L - p
CellAtTwice(p, n, k) ==
    IF k < FirstBlock(p, n) THEN p + k ELSE (p + k - FirstBlock(p, n)) % L
CellAt(p, n, k) ==
    IF k < FirstBlock(p, n) THEN p + k ELSE k - FirstBlock(p, n)

Smaller(m, n) == IF m < n THEN m ELSE n

(* What reading the other end's pointer makes of it.  Python accepts the   *)
(* pointer, C the amount it computes from it, when the last two agree; the *)
(* reader's own pointer does not move, so the amounts agree when the       *)
(* pointers do.  C starts from an amount of 0, Python from nothing.        *)
Sampled(p, amount) ==
    {amount} \cup (IF Collisions /\ p \in clash THEN {Rubbish} ELSE {})
Agree(seen, a) == a = seen /\ a # Rubbish
Meaning(a) == IF a = Rubbish THEN Amount ELSE {a}

-----------------------------------------------------------------------------
(* The running call of the C end makes another one while it is in          *)
(* _handle_events(), or comes back to the call below.                      *)
Nest(arg) ==
    /\ nested < MaxNested /\ nested' = nested + 1
    /\ stack' = Append(stack, [arg |-> arg, held |-> held])
    /\ held' = 0
    /\ stale' = (stale \/ held # 0)

Below == stack[Len(stack)]
Unnest ==
    /\ stack # <<>>
    /\ stack' = SubSeq(stack, 1, Len(stack) - 1)
    /\ held' = Below.held
    /\ UNCHANGED <<nested, stale>>

Outermost == stack = <<>> /\ nested' = 0 /\ UNCHANGED <<held, stack, stale>>

-----------------------------------------------------------------------------
(* write(b) / mailbox_write(file, ptr, len).                               *)
WriteCall(b) ==
    /\ wpc = "idle"
    /\ wpc' = "look"
    /\ block' = b
    /\ wseen' = IF PyWrites THEN None ELSE 0
    /\ UNCHANGED <<written, read, data, clash, to_write, wcopied, reader, calls>>

WriteTake(m) ==
    /\ to_write' = Smaller(Len(block), m)
    /\ wcopied' = 0
    /\ wpc' = "copy" /\ wseen' = None

(* C enters its loop if there is no space; Python writes nothing.          *)
WriteSees(m) ==
    \/ /\ wpc = "look" /\ (m # 0 \/ PyWrites)
       /\ WriteTake(m) /\ UNCHANGED held
    \/ /\ wpc = "look" /\ m = 0 /\ ~PyWrites
       /\ wpc' = "spin" /\ wseen' = 0
       /\ UNCHANGED <<to_write, wcopied, held>>
    \/ /\ wpc = "spin"
       /\ wpc' = "events" /\ wseen' = None /\ held' = m
       /\ UNCHANGED <<to_write, wcopied>>

WriteLook ==
    /\ wpc \in {"look", "spin"}
    /\ clash' = clash \ {"read"}
    /\ \E a \in Sampled("read", Space(read, written)) :
        \/ ~Agree(wseen, a) /\ wseen' = a /\ UNCHANGED <<wpc, to_write, wcopied, held>>
        \/ Agree(wseen, a) /\ \E m \in Meaning(a) : WriteSees(m)
    /\ UNCHANGED <<written, read, data, block, reader, stack, nested, stale>>

WriteNested(b) ==
    /\ wpc = "events"
    /\ Nest(block)
    /\ wpc' = "look" /\ block' = b /\ wseen' = 0
    /\ UNCHANGED <<written, read, data, clash, to_write, wcopied, reader>>

(* _handle_events() returns, and what was found before decides.            *)
WriteResume ==
    /\ wpc = "events"
    /\ \/ held = 0 /\ wpc' = "spin" /\ wseen' = 0 /\ UNCHANGED <<to_write, wcopied>>
       \/ held # 0 /\ WriteTake(held)
    /\ held' = 0
    /\ UNCHANGED <<written, read, data, clash, block, reader, stack, nested, stale>>

WriteByte ==
    /\ wpc = "copy" /\ wcopied < to_write
    /\ data' = [data EXCEPT ![CellAt(written, to_write, wcopied)]
                              = block[wcopied + 1]]
    /\ wcopied' = wcopied + 1
    /\ UNCHANGED <<written, read, clash, wpc, block, wseen, to_write, reader,
                   calls>>

(* The pointer is written once, after the last byte.  Mutant: before.      *)
NoneCopied == wcopied = 0
AllCopied == wcopied = to_write

WriteDone ==
    /\ wpc = "copy" /\ AllCopied
    /\ written' = IF PyWrites THEN PyAdvance(written, to_write)
                              ELSE CAdvance(written, to_write)
    /\ clash' = clash \cup {"written"}
    /\ to_write' = 0 /\ wcopied' = 0
    /\ IF PyWrites THEN wpc' = "idle" /\ block' = <<>> /\ UNCHANGED calls
       ELSE \/ Outermost /\ wpc' = "idle" /\ block' = <<>>
            \/ Unnest /\ wpc' = "events" /\ block' = Below.arg
    /\ UNCHANGED <<read, data, wseen, reader>>

-----------------------------------------------------------------------------
(* read(n), looping over read_upto, / mailbox_read(file, ptr, len).        *)
ReadCall(n) ==
    /\ rpc = "idle"
    /\ PyWrites => n >= 0
    /\ rpc' = "look"
    /\ want' = n
    /\ rseen' = IF PyWrites THEN 0 ELSE None
    /\ got' = <<>>
    /\ UNCHANGED <<written, read, data, clash, writer, available, rcopied, calls>>

(* How much of m unread bytes is taken: C takes the smaller amount,        *)
(* read_upto limits it "if n > 0 and available > n", n being the rest of   *)
(* what read was asked for.                                                *)
Rest == IF PyWrites \/ want = -1 THEN want ELSE want - Len(got)
(* Mutant: nothing before all that was asked for is there.                 *)
ChunkWhole(m) ==
    IF m < Rest THEN 0 ELSE IF PyWrites \/ Rest > 0 THEN Rest ELSE m
Chunk(m) == IF PyWrites \/ Rest > 0 THEN Smaller(Rest, m) ELSE m

(* C returns the first chunk; the while loop of read goes on until it has  *)
(* exactly n bytes, and its assertion fails when it has more.              *)
Complete(g) == PyWrites \/ want = -1 \/ Len(g) >= want

ReadTake(m) ==
    /\ available' = Chunk(m)
    /\ rcopied' = 0
    /\ rpc' = "copy" /\ rseen' = None

(* read_upto that finds nothing returns b'', which ends read(-1) and       *)
(* read(0) and makes read(n) call it again; C enters its loop.             *)
ReadSees(m) ==
    \/ rpc = "look" /\ m # 0 /\ ReadTake(m) /\ UNCHANGED held
    \/ /\ rpc = "look" /\ m = 0
       /\ rseen' = IF PyWrites THEN 0 ELSE None
       /\ rpc' = IF PyWrites THEN "spin" ELSE IF Complete(got) THEN "idle" ELSE "look"
       /\ UNCHANGED <<available, rcopied, held>>
    \/ /\ rpc = "spin"
       /\ rpc' = "events" /\ rseen' = None /\ held' = m
       /\ UNCHANGED <<available, rcopied>>

ReadLook ==
    /\ rpc \in {"look", "spin"}
    /\ clash' = clash \ {"written"}
    /\ \E a \in Sampled("written", Unread(read, written)) :
        \/ ~Agree(rseen, a) /\ rseen' = a /\ UNCHANGED <<rpc, available, rcopied, held>>
        \/ Agree(rseen, a) /\ \E m \in Meaning(a) : ReadSees(m)
    /\ UNCHANGED <<written, read, data, writer, want, got, stack, nested, stale>>

ReadNested(n) ==
    /\ rpc = "events" /\ n # -1
    /\ Nest(want)
    /\ rpc' = "look" /\ want' = n /\ rseen' = 0 /\ got' = <<>>
    /\ UNCHANGED <<written, read, data, clash, writer, available, rcopied>>

ReadResume ==
    /\ rpc = "events"
    /\ \/ held = 0 /\ rpc' = "spin" /\ rseen' = 0 /\ UNCHANGED <<available, rcopied>>
       \/ held # 0 /\ ReadTake(held)
    /\ held' = 0 /\ got' = <<>>
    /\ UNCHANGED <<written, read, data, clash, writer, want, stack, nested, stale>>

ReadByte ==
    /\ rpc = "copy" /\ rcopied < available
    /\ got' = Append(got, data[CellAt(read, available, rcopied)])
    /\ rcopied' = rcopied + 1
    /\ UNCHANGED <<written, read, data, clash, writer, rpc, want, rseen,
                   available, calls>>

AllRead == rcopied = available

ReadDone ==
    /\ rpc = "copy" /\ AllRead
    /\ read' = IF PyWrites THEN CAdvance(read, available)
                           ELSE PyAdvance(read, available)
    /\ clash' = clash \cup {"read"}
    /\ available' = 0 /\ rcopied' = 0
    /\ IF PyWrites
       THEN \/ Outermost /\ rpc' = "idle" /\ UNCHANGED want
            \/ Unnest /\ rpc' = "events" /\ want' = Below.arg
       ELSE /\ rpc' = IF Complete(got) THEN "idle" ELSE "look"
            /\ UNCHANGED <<want, calls>>
    /\ UNCHANGED <<written, data, writer, rseen, got>>

-----------------------------------------------------------------------------
WriteStep == WriteLook \/ WriteResume \/ WriteByte \/ WriteDone
ReadStep == ReadLook \/ ReadResume \/ ReadByte \/ ReadDone

Next ==
    \/ \E b \in Blocks : WriteCall(b) \/ WriteNested(b)
    \/ WriteStep
    \/ \E n \in Sizes : ReadCall(n) \/ ReadNested(n)
    \/ ReadStep

Spec == Init /\ [][Next]_vars

(* Both programs keep using the channel and their processors keep running. *)
FairSpec ==
    /\ Spec
    /\ WF_vars(WriteStep) /\ WF_vars(ReadStep)
    /\ WF_vars(\E b \in Blocks : WriteCall(b))
    /\ WF_vars(\E n \in Sizes : ReadCall(n))

-----------------------------------------------------------------------------
(* The bytes a pointer that was published has made readable.               *)
Filled == CUnread(read, written)
Free == CSpace(read, written)

After(p, k) == IF p + k < L THEN p + k ELSE p + k - L

(* The cells a writer is filling and those a reader may be copying.        *)
Writing == {After(written, k) : k \in 0..to_write - 1}
Reading == {After(read, k) : k \in 0..available - 1}

(* No byte is copied out while it is being copied in: with no lock, only   *)
(* the order of pointer reads, byte copies and pointer writes keeps the    *)
(* two ends apart, also where calls of the C end are nested, unless one    *)
(* was made by a call that had found space, or data, in its loop and goes  *)
(* on to use what is not there any more (streams.py:28-43,57-73,           *)
(* mailbox_io.c:120-190).                                                  *)
Disjoint == stale \/ Writing \cap Reading = {}

(* The inductive invariant behind the refinement: an end that copies has   *)
(* room, or data, for all of its chunk however far the other end moved     *)
(* since it looked, and what it copied so far is in place.  A call that    *)
(* waits for a nested one has found nothing.                               *)
WriterInv ==
    /\ to_write <= Free
    /\ wpc = "events" => held <= Free
    /\ \A k \in 0..wcopied - 1 : data[After(written, k)] = block[k + 1]

ReaderInv ==
    /\ available <= Filled
    /\ rpc = "events" => held <= Filled
    /\ \A k \in 0..rcopied - 1 :
           got[Len(got) - rcopied + 1 + k] = data[After(read, k)]

NoneHeld == \A k \in 1..Len(stack) : stack[k].held = 0

Kept == WriterInv /\ ReaderInv /\ NoneHeld
IInv == TypeOK /\ (stale \/ Kept)

(* The channel implements ByteQueue: bytes come out in the order they went *)
(* in, none is lost, doubled or torn, and a block becomes readable at one  *)
(* instant although its cells are written one by one.  A write that is in  *)
(* _handle_events() offers nothing; it offers its block again afterwards.  *)
(* Every step is one of the queue until, as for Disjoint, a nested call    *)
(* makes what its caller has found stale.                                  *)
Queue == INSTANCE ByteQueue WITH
    Capacity <- L - 1,
    queue <- [k \in 1..Filled |-> data[After(read, k - 1)]],
    offer <- IF wpc = "events" THEN <<>> ELSE block,
    out <- SubSeq(got, 1, Len(got) - rcopied)

ImplementsQueue == Queue!Init /\ [][stale' \/ Queue!Next]_(Queue!vars)

(* A read of more bytes than the ring can hold, and a write that finds it  *)
(* full, both come to an end, if no more than MaxNested calls are made     *)
(* inside of one and none as Disjoint names: neither end waits for the     *)
(* other for ever                                                          *)
(* (streams.py:75-80, mailbox_io.c:134-138).                               *)
CallsReturn ==
    /\ rpc # "idle" ~> rpc = "idle" \/ stale
    /\ wpc # "idle" ~> wpc = "idle" \/ stale
=============================================================================
