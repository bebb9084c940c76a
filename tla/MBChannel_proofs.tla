-------------------------- MODULE MBChannel_proofs --------------------------
(***************************************************************************)
(* The mailbox channel of MBChannel is correct for every ring length, any  *)
(* bytes, blocks and request sizes, in both directions and with calls of   *)
(* the C end nested in each other: its inductive invariant, the separation *)
(* of the two ends, and the refinement of ByteQueue.                       *)
(***************************************************************************)
EXTENDS MBChannel, SequenceTheorems, TLAPS

-----------------------------------------------------------------------------
(* Arithmetic of the ring: the formulas of Python and those of C compute   *)
(* the same amounts and the same cells.                                    *)

LEMMA ModOnce ==
    ASSUME NEW y \in 0..2*L-1
    PROVE  y % L = IF y < L THEN y ELSE y - L
  BY ChannelAssumption, Z3T(30)

LEMMA ModTwice ==
    ASSUME NEW y \in 0..2*L-1
    PROVE  (y + L) % L = IF y < L THEN y ELSE y - L
  BY ChannelAssumption, Z3T(30)

LEMMA SpaceIs ==
    ASSUME NEW r \in Cell, NEW w \in Cell
    PROVE  Space(r, w) = CSpace(r, w) /\ CSpace(r, w) \in Amount
<1> DEFINE y == r - w - 1 + L
<1>1. y \in 0..2*L-1 /\ y + L = r - w - 1 + 2 * L
  BY ChannelAssumption DEF Cell
<1>2. PySpace(r, w) = CSpace(r, w)
  <2>1. (y + L) % L = IF y < L THEN y ELSE y - L
    <3> HIDE DEF y
    <3> QED
      BY <1>1, ModTwice
  <2>2. PySpace(r, w) = IF y < L THEN y ELSE y - L
    BY <1>1, <2>1 DEF PySpace
  <2>3. QED
    BY <2>2, ChannelAssumption DEF CSpace, Wrapped, Cell
<1>3. CSpace(r, w) \in Amount
  BY ChannelAssumption DEF CSpace, Wrapped, Cell, Amount
<1>4. QED
  BY <1>2, <1>3 DEF Space

LEMMA UnreadIs ==
    ASSUME NEW r \in Cell, NEW w \in Cell
    PROVE  Unread(r, w) = CUnread(r, w) /\ CUnread(r, w) \in Amount
<1>1. w - r + L \in 1..2*L-1
  BY ChannelAssumption DEF Cell
<1>2. PyUnread(r, w) = CUnread(r, w)
  BY <1>1, ChannelAssumption, Z3T(30) DEF PyUnread, CUnread, Wrapped, Cell
<1>3. CUnread(r, w) \in Amount
  BY ChannelAssumption DEF CUnread, Wrapped, Cell, Amount
<1>4. QED
  BY <1>2, <1>3 DEF Unread

LEMMA AdvanceIs ==
    ASSUME NEW p \in Cell, NEW n \in Amount
    PROVE  /\ PyAdvance(p, n) = After(p, n) /\ CAdvance(p, n) = After(p, n)
           /\ After(p, n) \in Cell
<1>1. p + n \in 0..2*L-1
  BY ChannelAssumption DEF Cell, Amount
<1>2. (p + n) % L = IF p + n < L THEN p + n ELSE p + n - L
  <2>1. PICK y \in 0..2*L-1 : y = p + n
    BY <1>1
  <2>2. y % L = IF y < L THEN y ELSE y - L
    BY ModOnce
  <2>3. QED
    BY <2>1, <2>2, ChannelAssumption DEF Cell, Amount
<1>3. QED
  BY <1>1, <1>2, ChannelAssumption DEF PyAdvance, CAdvance, After, Cell, Amount

LEMMA CellAtIs ==
    ASSUME NEW p \in Cell, NEW n \in Amount, NEW k \in 0..n-1
    PROVE  CellAt(p, n, k) = After(p, k) /\ After(p, k) \in Cell
  BY ChannelAssumption DEF CellAt, FirstBlock, After, Cell, Amount

(* A free cell is not an unread one.                                       *)
LEMMA Apart ==
    ASSUME NEW r \in Cell, NEW w \in Cell, NEW j \in Nat, NEW k \in Nat,
           j < CSpace(r, w), k < CUnread(r, w)
    PROVE  After(w, j) # After(r, k)
  BY ChannelAssumption DEF CSpace, CUnread, Wrapped, After, Cell

(* Distinct steps from one pointer, less than L of them, are distinct.     *)
LEMMA Spread ==
    ASSUME NEW p \in Cell, NEW j \in Amount, NEW k \in Amount, j # k
    PROVE  After(p, j) # After(p, k)
  BY ChannelAssumption DEF After, Cell, Amount

(* Moving a pointer moves n cells from the free ones to the unread ones,   *)
(* or back.                                                                *)
LEMMA Written ==
    ASSUME NEW r \in Cell, NEW w \in Cell, NEW n \in Nat, n <= CSpace(r, w)
    PROVE  /\ CUnread(r, After(w, n)) = CUnread(r, w) + n
           /\ CSpace(r, After(w, n)) = CSpace(r, w) - n
           /\ \A k \in 0..n-1 : After(r, CUnread(r, w) + k) = After(w, k)
  BY ChannelAssumption DEF CSpace, CUnread, Wrapped, After, Cell

LEMMA Consumed ==
    ASSUME NEW r \in Cell, NEW w \in Cell, NEW n \in Nat, n <= CUnread(r, w)
    PROVE  /\ CUnread(After(r, n), w) = CUnread(r, w) - n
           /\ CSpace(After(r, n), w) = CSpace(r, w) + n
           /\ \A k \in 0..CUnread(r, w) - n - 1 :
                  After(After(r, n), k) = After(r, n + k)
  BY ChannelAssumption DEF CSpace, CUnread, Wrapped, After, Cell

-----------------------------------------------------------------------------
(* The inductive invariant.                                                *)

LEMMA InitIInv == Init => IInv
<1> SUFFICES ASSUME Init PROVE IInv
  OBVIOUS
<1>1. TypeOK
  <2>1. <<>> \in Seq(Byte) /\ <<>> \in Seq(Frame) /\ Len(<<>>) = 0
    BY EmptySeq
  <2>2. data \in [Cell -> Byte]
    BY ChannelAssumption DEF Init
  <2> QED
    BY <2>1, <2>2, ChannelAssumption DEF Init, TypeOK, At, Cell, Amount
<1>2. Free = L - 1 /\ Filled = 0
  BY ChannelAssumption DEF Init, Free, Filled, CSpace, CUnread, Wrapped
<1>3. Kept
  BY <1>2, ChannelAssumption DEF Init, Kept, WriterInv, ReaderInv, NoneHeld
<1> QED
  BY <1>1, <1>3 DEF IInv

(* What an end makes of the other's pointer, once two reads agree, is the  *)
(* amount at this moment.                                                  *)
LEMMA AgreedIs ==
    ASSUME NEW p, NEW n \in Amount, NEW seen,
           NEW a \in Sampled(p, n), Agree(seen, a), NEW m \in Meaning(a)
    PROVE  m = n
  BY DEF Sampled, Agree, Meaning

LEMMA SampledType ==
    ASSUME NEW p, NEW n \in Amount, NEW a \in Sampled(p, n)
    PROVE  a \in Amount \cup {None, Rubbish}
  BY DEF Sampled

LEMMA AmountsAre ==
    ASSUME TypeOK
    PROVE  /\ Space(read, written) = Free /\ Free \in Amount
           /\ Unread(read, written) = Filled /\ Filled \in Amount
           /\ Len(block) \in Nat /\ Len(got) \in Nat
  BY SpaceIs, UnreadIs, LenProperties DEF TypeOK, Free, Filled

(* The calls below the running one.                                        *)
LEMMA NestType ==
    ASSUME TypeOK, NEW arg, Nest(arg),
           arg \in IF PyWrites THEN Sizes \ {-1} ELSE Seq(Byte)
    PROVE  /\ stack' \in Seq(Frame) /\ held' \in Amount
           /\ nested' \in 0..MaxNested /\ stale' \in BOOLEAN
<1>1. [arg |-> arg, held |-> held] \in Frame
  BY DEF TypeOK, Frame
<1> QED
  BY <1>1, AppendProperties, ChannelAssumption DEF Nest, TypeOK, Amount

LEMMA NestKeeps ==
    ASSUME TypeOK, NoneHeld, NEW arg, Nest(arg), ~stale',
           arg \in IF PyWrites THEN Sizes \ {-1} ELSE Seq(Byte)
    PROVE  NoneHeld'
<1> DEFINE f == [arg |-> arg, held |-> held]
<1>1. held = 0 /\ stack' = Append(stack, f) /\ f \in Frame /\ f.held = 0
  BY DEF Nest, TypeOK, Frame
<1>2. stack \in Seq(Frame) /\ Len(stack) \in Nat
  BY LenProperties DEF TypeOK
<1> HIDE DEF f
<1>3. /\ Len(stack') = Len(stack) + 1 /\ stack'[Len(stack) + 1] = f
      /\ \A k \in 1..Len(stack) : stack'[k] = stack[k]
  BY <1>1, <1>2, AppendProperties
<1>4. ASSUME NEW k \in 1..Len(stack') PROVE stack'[k].held = 0
  <2>1. CASE k = Len(stack) + 1 BY <1>1, <1>3, <2>1
  <2>2. CASE k # Len(stack) + 1
    <3>1. k \in 1..Len(stack) BY <1>2, <1>3, <2>2
    <3> QED BY <1>3, <3>1 DEF NoneHeld
  <2> QED BY <2>1, <2>2
<1> QED BY <1>4 DEF NoneHeld

LEMMA UnnestIs ==
    ASSUME TypeOK, Unnest
    PROVE  /\ Below.arg \in IF PyWrites THEN Sizes \ {-1} ELSE Seq(Byte)
           /\ stack' \in Seq(Frame) /\ held' \in Amount
           /\ NoneHeld => NoneHeld' /\ held' = 0
<1>1. stack \in Seq(Frame) /\ stack # <<>> BY DEF TypeOK, Unnest
<1>2. PICK n \in Nat \ {0} : n = Len(stack) BY <1>1, LenProperties, EmptySeq
<1>3. stack[n] \in Frame /\ Below = stack[n] BY <1>1, <1>2, ElementOfSeq DEF Below
<1>4. \A i \in 1..n - 1 : stack[i] \in Frame BY <1>1, <1>2, ElementOfSeq
<1>5. stack' = SubSeq(stack, 1, n - 1) BY <1>2 DEF Unnest
<1>6. /\ SubSeq(stack, 1, n - 1) \in Seq(Frame)
      /\ Len(SubSeq(stack, 1, n - 1)) = IF 1 <= n - 1 THEN n - 1 - 1 + 1 ELSE 0
      /\ \A i \in 1..n - 1 - 1 + 1 : SubSeq(stack, 1, n - 1)[i] = stack[1 + i - 1]
  BY <1>1, <1>2, <1>4, SubSeqProperties
<1>7. ASSUME NoneHeld PROVE NoneHeld' /\ held' = 0
  <2>1. ASSUME NEW k \in 1..Len(stack') PROVE stack'[k].held = 0
    <3>1. k \in 1..n - 1 - 1 + 1 /\ 1 + k - 1 = k /\ k \in 1..n
      BY <1>2, <1>5, <1>6
    <3> QED BY <1>2, <1>5, <1>6, <1>7, <3>1 DEF NoneHeld
  <2>2. held' = 0 BY <1>2, <1>3, <1>7 DEF NoneHeld, Unnest
  <2> QED BY <2>1, <2>2 DEF NoneHeld
<1> QED BY <1>3, <1>5, <1>6, <1>7 DEF Unnest, Frame

(* Each action.  Nothing that happens makes a stale call fresh again.      *)
LEMMA WriteCallIInv ==
    ASSUME IInv, NEW b \in Blocks, WriteCall(b)
    PROVE  IInv'
<1> USE ChannelAssumption DEF IInv, WriteCall, reader, calls
<1>1. b \in Seq(Byte) /\ Len(b) \in Nat
  BY LenProperties
<1>2. TypeOK'
  BY <1>1 DEF TypeOK, At, Amount, Cell
<1>3. ASSUME Kept PROVE Kept'
  <2>1. WriterInv'
    BY <1>3 DEF Kept, TypeOK, WriterInv, Free, CSpace, After, Cell, Amount
  <2>2. ReaderInv' /\ NoneHeld'
    BY <1>3 DEF Kept, ReaderInv, Filled, NoneHeld
  <2> QED BY <2>1, <2>2 DEF Kept
<1> QED
  BY <1>2, <1>3

(* What a look decides, with the amount it agreed on.                      *)
LEMMA WriteLookDecides ==
    ASSUME TypeOK, WriteLook
    PROVE  \/ /\ UNCHANGED <<wpc, to_write, wcopied, held>>
              /\ wseen' \in Amount \cup {None, Rubbish}
           \/ WriteSees(Free)
<1>1. PICK a \in Sampled("read", Free) :
        \/ ~Agree(wseen, a) /\ wseen' = a /\ UNCHANGED <<wpc, to_write, wcopied, held>>
        \/ Agree(wseen, a) /\ \E m \in Meaning(a) : WriteSees(m)
  BY AmountsAre DEF WriteLook
<1>2. a \in Amount \cup {None, Rubbish}
  BY <1>1, AmountsAre, SampledType
<1>3. CASE Agree(wseen, a)
  <2>1. \A m \in Meaning(a) : m = Free BY <1>3, AgreedIs, AmountsAre
  <2> QED BY <1>1, <1>3, <2>1
<1> QED BY <1>1, <1>2, <1>3

LEMMA WriteLookIInv ==
    ASSUME IInv, WriteLook
    PROVE  IInv'
<1> USE ChannelAssumption DEF IInv
<1>1. Free \in Amount /\ Len(block) \in Nat
  BY AmountsAre
<1>2. UNCHANGED <<written, read, data, block, reader, stack, nested, stale>>
      /\ wpc \in {"look", "spin"} /\ clash' = clash \ {"read"}
  BY DEF WriteLook
<1>3. \/ /\ UNCHANGED <<wpc, to_write, wcopied, held>>
         /\ wseen' \in Amount \cup {None, Rubbish}
      \/ /\ wpc' = "copy" /\ wseen' = None /\ to_write' = Smaller(Len(block), Free)
         /\ wcopied' = 0 /\ UNCHANGED held
      \/ /\ ~PyWrites /\ wpc' = "spin" /\ wseen' = 0
         /\ UNCHANGED <<to_write, wcopied, held>>
      \/ /\ ~PyWrites /\ wpc' = "events" /\ wseen' = None /\ held' = Free
         /\ UNCHANGED <<to_write, wcopied>>
  BY WriteLookDecides DEF WriteSees, WriteTake, TypeOK, At
<1>4. TypeOK'
  BY <1>1, <1>2, <1>3 DEF TypeOK, reader, At, Amount, Cell, Smaller
<1>5. ASSUME Kept PROVE Kept'
  <2>1. Free' = Free /\ Filled' = Filled
    BY <1>2 DEF Free, Filled
  <2>2. WriterInv'
    BY <1>1, <1>2, <1>3, <1>5, <2>1
       DEF Kept, TypeOK, WriterInv, Smaller, After, Amount
  <2>3. ReaderInv'
    <3>1. CASE ~PyWrites
      BY <1>2, <1>5, <2>1, <3>1 DEF Kept, TypeOK, ReaderInv, reader
    <3>2. CASE PyWrites
      BY <1>2, <1>3, <1>5, <2>1, <3>2 DEF Kept, ReaderInv, reader
    <3> QED BY <3>1, <3>2
  <2> QED BY <1>2, <1>5, <2>2, <2>3 DEF Kept, NoneHeld
<1> QED
  BY <1>2, <1>4, <1>5

LEMMA WriteNestedIInv ==
    ASSUME IInv, NEW b \in Blocks, WriteNested(b)
    PROVE  IInv'
<1> USE ChannelAssumption DEF IInv
<1>1. /\ wpc = "events" /\ Nest(block) /\ wpc' = "look" /\ block' = b /\ wseen' = 0
      /\ UNCHANGED <<written, read, data, clash, to_write, wcopied, reader>>
  BY DEF WriteNested
<1>2. ~PyWrites /\ to_write = 0 /\ wcopied = 0 /\ block \in Seq(Byte)
      /\ b \in Seq(Byte) /\ Len(b) \in Nat
  BY <1>1, LenProperties DEF TypeOK
<1>3. TypeOK'
  BY <1>1, <1>2, NestType DEF TypeOK, reader, At, Amount, Cell
<1>4. ASSUME Kept, ~stale' PROVE Kept'
  <2>1. NoneHeld' BY <1>1, <1>2, <1>4, NestKeeps DEF Kept
  <2>2. WriterInv'
    BY <1>1, <1>2, <1>4 DEF Kept, WriterInv, Free
  <2>3. ReaderInv'
    BY <1>1, <1>2, <1>4 DEF Kept, TypeOK, ReaderInv, Filled, reader
  <2> QED BY <2>1, <2>2, <2>3 DEF Kept
<1>5. stale => stale' BY <1>1 DEF Nest
<1> QED
  BY <1>3, <1>4, <1>5

LEMMA WriteResumeIInv ==
    ASSUME IInv, WriteResume
    PROVE  IInv'
<1> USE ChannelAssumption DEF IInv
<1>1. /\ wpc = "events" /\ held' = 0
      /\ UNCHANGED <<written, read, data, clash, block, reader, stack, nested, stale>>
      /\ \/ held = 0 /\ wpc' = "spin" /\ wseen' = 0 /\ UNCHANGED <<to_write, wcopied>>
         \/ /\ to_write' = Smaller(Len(block), held) /\ wcopied' = 0
            /\ wpc' = "copy" /\ wseen' = None
  BY DEF WriteResume, WriteTake
<1>2. ~PyWrites /\ to_write = 0 /\ wcopied = 0 /\ Len(block) \in Nat
  BY <1>1, AmountsAre DEF TypeOK
<1>3. TypeOK'
  BY <1>1, <1>2 DEF TypeOK, reader, At, Amount, Cell, Smaller
<1>4. ASSUME Kept PROVE Kept'
  <2>1. WriterInv'
    BY <1>1, <1>2, <1>4, AmountsAre
       DEF Kept, TypeOK, WriterInv, Free, Smaller, Amount
  <2>2. ReaderInv'
    BY <1>1, <1>2, <1>4 DEF Kept, TypeOK, ReaderInv, Filled, reader
  <2> QED BY <1>1, <1>4, <2>1, <2>2 DEF Kept, NoneHeld
<1> QED
  BY <1>1, <1>3, <1>4

LEMMA WriteByteIInv ==
    ASSUME IInv, WriteByte
    PROVE  IInv'
<1> USE ChannelAssumption DEF IInv
<1>1. /\ wpc = "copy" /\ wcopied < to_write /\ wcopied' = wcopied + 1
      /\ data' = [data EXCEPT ![CellAt(written, to_write, wcopied)]
                                = block[wcopied + 1]]
      /\ UNCHANGED <<written, read, clash, wpc, block, wseen, to_write, reader, calls>>
  BY DEF WriteByte
<1>2. /\ written \in Cell /\ read \in Cell /\ wcopied \in 0..to_write-1
      /\ to_write \in Amount /\ to_write <= Len(block)
      /\ Free \in Amount /\ block \in Seq(Byte) /\ Len(block) \in Nat
  BY <1>1, AmountsAre DEF TypeOK, Amount
<1>3. /\ CellAt(written, to_write, wcopied) = After(written, wcopied)
      /\ After(written, wcopied) \in Cell
  BY <1>2, CellAtIs
<1>4. block[wcopied + 1] \in Byte
  BY <1>2, ElementOfSeq DEF Amount
<1>5. TypeOK'
  BY <1>1, <1>2, <1>3, <1>4 DEF TypeOK, reader, calls, Amount
<1>6. ASSUME Kept PROVE WriterInv'
  <2>1. ASSUME NEW k \in 0..wcopied PROVE data'[After(written, k)] = block[k+1]
    <3>1. After(written, k) \in Cell
      BY <1>2 DEF After, Cell, Amount
    <3>2. CASE k = wcopied
      BY <1>1, <1>3, <3>2 DEF TypeOK
    <3>3. CASE k # wcopied
      <4>1. After(written, k) # After(written, wcopied)
        BY <1>2, <3>3, Spread DEF Amount
      <4>2. QED
        BY <1>1, <1>2, <1>3, <1>6, <3>1, <3>3, <4>1 DEF Kept, TypeOK, WriterInv
    <3>4. QED
      BY <3>2, <3>3
  <2>2. QED
    BY <1>1, <1>2, <1>6, <2>1 DEF Kept, WriterInv, Free
<1>7. ASSUME Kept PROVE ReaderInv'
  <2>1. ASSUME NEW k \in 0..rcopied-1
        PROVE  got[Len(got) - rcopied + 1 + k] = data'[After(read, k)]
    <3>1. k \in Nat /\ k < Filled /\ Filled \in Amount
      BY <1>7, AmountsAre DEF Kept, TypeOK, ReaderInv, Amount
    <3>2. After(read, k) # After(written, wcopied)
      <4>1. wcopied < Free BY <1>2, <1>7 DEF Kept, WriterInv, Amount
      <4> QED BY <1>2, <3>1, <4>1, Apart DEF Free, Filled, Amount
    <3>3. After(read, k) \in Cell
      BY <1>2, <3>1 DEF After, Cell, Amount
    <3>4. QED
      BY <1>1, <1>3, <1>7, <3>2, <3>3 DEF Kept, TypeOK, ReaderInv
  <2>2. QED
    BY <1>1, <1>7, <2>1 DEF Kept, ReaderInv, Filled, reader, calls
<1> QED
  BY <1>1, <1>5, <1>6, <1>7 DEF Kept, NoneHeld, calls

(* The end of a call: the channel is idle, or the call below goes on.      *)
LEMMA DoneTypes ==
    ASSUME TypeOK, Outermost \/ Unnest
    PROVE  /\ stack' \in Seq(Frame) /\ held' \in Amount /\ nested' \in 0..MaxNested
           /\ stale' = stale
           /\ NoneHeld => NoneHeld'
           /\ Outermost => held' = held
<1>1. CASE Outermost
  BY <1>1, ChannelAssumption DEF Outermost, TypeOK, NoneHeld
<1>2. CASE Unnest
  BY <1>2, UnnestIs DEF Unnest, TypeOK, Outermost
<1> QED BY <1>1, <1>2

LEMMA WriteDoneIInv ==
    ASSUME IInv, WriteDone
    PROVE  IInv'
<1> USE ChannelAssumption DEF IInv
<1>1. /\ wpc = "copy"
      /\ to_write' = 0 /\ wcopied' = 0
      /\ UNCHANGED <<read, data, wseen, reader>>
      /\ clash' = clash \cup {"written"}
  BY DEF WriteDone
<1>2. /\ written \in Cell /\ read \in Cell /\ to_write \in Amount
  BY <1>1 DEF TypeOK
<1>3. written' = After(written, to_write) /\ written' \in Cell
  BY <1>2, AdvanceIs DEF WriteDone
<1>4. \/ /\ wpc' = "idle" /\ block' = <<>>
         /\ UNCHANGED calls \/ (~PyWrites /\ Outermost)
      \/ ~PyWrites /\ Unnest /\ wpc' = "events" /\ block' = Below.arg
  BY DEF WriteDone
<1>5. /\ stack' \in Seq(Frame) /\ held' \in Amount /\ nested' \in 0..MaxNested
      /\ stale' = stale /\ (NoneHeld => NoneHeld')
      /\ block' \in Seq(Byte)
  <2>1. CASE UNCHANGED calls /\ block' = <<>>
    BY <2>1, EmptySeq DEF TypeOK, calls, NoneHeld
  <2>2. CASE Outermost /\ block' = <<>>
    BY <2>2, DoneTypes, EmptySeq
  <2>3. CASE ~PyWrites /\ Unnest /\ block' = Below.arg
    BY <2>3, DoneTypes, UnnestIs
  <2> QED BY <1>4, <2>1, <2>2, <2>3
<1>6. Len(block') \in Nat /\ (PyWrites => wpc' = "idle")
  BY <1>4, <1>5, LenProperties
<1>7. TypeOK'
  BY <1>1, <1>3, <1>4, <1>5, <1>6 DEF TypeOK, reader, At, Amount
<1>8. ASSUME Kept PROVE Kept'
  <2>1. Filled' = Filled + to_write /\ Free' \in Amount
    BY <1>1, <1>2, <1>3, <1>8, Written, SpaceIs DEF Kept, WriterInv, Filled, Free, Amount
  <2>2. WriterInv'
    <3>1. wpc' = "events" => held' = 0
      BY <1>4, <1>8, UnnestIs DEF Kept
    <3> QED
      BY <1>1, <2>1, <3>1 DEF WriterInv, Amount
  <2>3. ReaderInv'
    <3>1. available' <= Filled'
      BY <1>1, <1>2, <1>8, <2>1, AmountsAre DEF Kept, TypeOK, ReaderInv, reader, Amount
    <3>2. rpc' = "events" => held' <= Filled'
      <4>1. CASE PyWrites
        <5>1. UNCHANGED calls BY <4>1 DEF WriteDone
        <5> QED
          BY <1>1, <1>2, <1>8, <2>1, <5>1, AmountsAre
             DEF Kept, TypeOK, ReaderInv, reader, calls, Amount
      <4>2. CASE ~PyWrites BY <1>1, <4>2 DEF TypeOK, reader
      <4> QED BY <4>1, <4>2
    <3> QED
      BY <1>1, <1>8, <3>1, <3>2 DEF Kept, ReaderInv, reader
  <2> QED BY <1>5, <1>8, <2>2, <2>3 DEF Kept
<1> QED
  BY <1>5, <1>7, <1>8

LEMMA ReadCallIInv ==
    ASSUME IInv, NEW n \in Sizes, ReadCall(n)
    PROVE  IInv'
<1> USE ChannelAssumption DEF IInv, ReadCall
<1>1. available = 0 /\ rcopied = 0
  BY DEF TypeOK, Amount
<1>2. got' = <<>> /\ Len(got') = 0 /\ got' \in Seq(Byte)
  BY EmptySeq
<1>3. TypeOK'
  BY <1>1, <1>2 DEF TypeOK, writer, calls, At, Amount, Cell
<1>4. ASSUME Kept PROVE Kept'
  <2>1. WriterInv' /\ NoneHeld'
    BY <1>4 DEF Kept, WriterInv, Free, NoneHeld, writer, calls
  <2>2. ReaderInv'
    BY <1>1, <1>2, <1>4, AmountsAre DEF Kept, ReaderInv, Filled
  <2> QED BY <2>1, <2>2 DEF Kept
<1> QED
  BY <1>3, <1>4 DEF calls

(* A chunk is no more than what there is.                                  *)
LEMMA ChunkIs ==
    ASSUME TypeOK, rpc # "idle", NEW m \in Amount
    PROVE  Chunk(m) \in Amount /\ Chunk(m) <= m
<1> USE ChannelAssumption
<1>1. want \in Nat \cup {-1} /\ Len(got) \in Nat
  BY LenProperties DEF TypeOK
<1>2. CASE PyWrites
  <2>1. Rest = want /\ want \in Nat /\ Chunk(m) = Smaller(want, m)
    BY <1>1, <1>2 DEF Rest, Chunk, TypeOK
  <2>2. QED
    BY <2>1 DEF Smaller, Amount
<1>3. CASE ~PyWrites
  <2>1. Chunk(m) = IF Rest > 0 THEN Smaller(Rest, m) ELSE m
    BY <1>3 DEF Chunk
  <2>2. Rest \in Int BY <1>1, <1>3 DEF Rest
  <2>3. QED
    BY <2>1, <2>2 DEF Smaller, Amount
<1> QED
  BY <1>2, <1>3

LEMMA ReadLookDecides ==
    ASSUME TypeOK, ReadLook
    PROVE  \/ /\ UNCHANGED <<rpc, available, rcopied, held>>
              /\ rseen' \in Amount \cup {None, Rubbish}
           \/ ReadSees(Filled)
<1>1. PICK a \in Sampled("written", Filled) :
        \/ ~Agree(rseen, a) /\ rseen' = a /\ UNCHANGED <<rpc, available, rcopied, held>>
        \/ Agree(rseen, a) /\ \E m \in Meaning(a) : ReadSees(m)
  BY AmountsAre DEF ReadLook
<1>2. a \in Amount \cup {None, Rubbish}
  BY <1>1, AmountsAre, SampledType
<1>3. CASE Agree(rseen, a)
  <2>1. \A m \in Meaning(a) : m = Filled BY <1>3, AgreedIs, AmountsAre
  <2> QED BY <1>1, <1>3, <2>1
<1> QED BY <1>1, <1>2, <1>3

LEMMA ReadLookIInv ==
    ASSUME IInv, ReadLook
    PROVE  IInv'
<1> USE ChannelAssumption DEF IInv
<1>1. /\ rpc \in {"look", "spin"} /\ clash' = clash \ {"written"}
      /\ UNCHANGED <<written, read, data, writer, want, got, stack, nested, stale>>
  BY DEF ReadLook
<1>2. available = 0 /\ rcopied = 0
  BY <1>1 DEF TypeOK, Amount
<1>3. Filled \in Amount /\ Filled' = Filled /\ Free' = Free
  BY <1>1, AmountsAre DEF Filled, Free
<1>4. Chunk(Filled) \in Amount /\ Chunk(Filled) <= Filled /\ Len(got) \in Nat
  BY <1>1, <1>3, ChunkIs, AmountsAre
<1>5. \/ /\ UNCHANGED <<rpc, available, rcopied, held>>
         /\ rseen' \in Amount \cup {None, Rubbish}
      \/ /\ rpc' = "copy" /\ rseen' = None /\ available' = Chunk(Filled)
         /\ rcopied' = 0 /\ UNCHANGED held
      \/ /\ rseen' \in {0, None}
         /\ rpc' \in IF PyWrites THEN {"spin"} ELSE {"idle", "look"}
         /\ UNCHANGED <<available, rcopied, held>>
      \/ /\ PyWrites /\ rpc' = "events" /\ rseen' = None /\ held' = Filled
         /\ UNCHANGED <<available, rcopied>>
  BY ReadLookDecides DEF ReadSees, ReadTake, TypeOK, At
<1>6. TypeOK'
  BY <1>1, <1>2, <1>3, <1>4, <1>5 DEF TypeOK, writer, At, Amount, Cell
<1>7. ASSUME Kept PROVE Kept'
  <2>1. WriterInv'
    <3>1. CASE PyWrites
      BY <1>1, <1>3, <1>7, <3>1 DEF Kept, TypeOK, WriterInv, writer
    <3>2. CASE ~PyWrites
      BY <1>1, <1>3, <1>5, <1>7, <3>2 DEF Kept, WriterInv, writer
    <3> QED BY <3>1, <3>2
  <2>2. ReaderInv'
    BY <1>1, <1>2, <1>3, <1>4, <1>5, <1>7 DEF Kept, ReaderInv, Amount
  <2> QED BY <1>1, <1>7, <2>1, <2>2 DEF Kept, NoneHeld
<1> QED
  BY <1>1, <1>6, <1>7

LEMMA ReadNestedIInv ==
    ASSUME IInv, NEW n \in Sizes, ReadNested(n)
    PROVE  IInv'
<1> USE ChannelAssumption DEF IInv
<1>1. /\ rpc = "events" /\ n # -1 /\ Nest(want)
      /\ rpc' = "look" /\ want' = n /\ rseen' = 0 /\ got' = <<>>
      /\ UNCHANGED <<written, read, data, clash, writer, available, rcopied>>
  BY DEF ReadNested
<1>2. PyWrites /\ available = 0 /\ rcopied = 0 /\ want \in Sizes \ {-1}
  BY <1>1 DEF TypeOK, Amount
<1>3. got' = <<>> /\ Len(got') = 0 /\ got' \in Seq(Byte)
  BY <1>1, EmptySeq
<1>4. TypeOK'
  BY <1>1, <1>2, <1>3, NestType DEF TypeOK, writer, At, Amount, Cell
<1>5. ASSUME Kept, ~stale' PROVE Kept'
  <2>1. NoneHeld' BY <1>1, <1>2, <1>5, NestKeeps DEF Kept
  <2>2. ReaderInv'
    BY <1>1, <1>2, <1>3, <1>5 DEF Kept, ReaderInv, Filled
  <2>3. WriterInv'
    BY <1>1, <1>2, <1>5 DEF Kept, TypeOK, WriterInv, Free, writer
  <2> QED BY <2>1, <2>2, <2>3 DEF Kept
<1>6. stale => stale' BY <1>1 DEF Nest
<1> QED
  BY <1>4, <1>5, <1>6

LEMMA ReadResumeIInv ==
    ASSUME IInv, ReadResume
    PROVE  IInv'
<1> USE ChannelAssumption DEF IInv
<1>1. /\ rpc = "events" /\ held' = 0 /\ got' = <<>>
      /\ UNCHANGED <<written, read, data, clash, writer, want, stack, nested, stale>>
      /\ \/ held = 0 /\ rpc' = "spin" /\ rseen' = 0 /\ UNCHANGED <<available, rcopied>>
         \/ /\ available' = Chunk(held) /\ rcopied' = 0
            /\ rpc' = "copy" /\ rseen' = None
  BY DEF ReadResume, ReadTake
<1>2. PyWrites /\ available = 0 /\ rcopied = 0 /\ held \in Amount
      /\ Chunk(held) \in Amount /\ Chunk(held) <= held
  BY <1>1, ChunkIs DEF TypeOK, Amount
<1>3. got' = <<>> /\ Len(got') = 0 /\ got' \in Seq(Byte)
  BY <1>1, EmptySeq
<1>4. TypeOK'
  BY <1>1, <1>2, <1>3 DEF TypeOK, writer, At, Amount, Cell
<1>5. ASSUME Kept PROVE Kept'
  <2>1. ReaderInv'
    BY <1>1, <1>2, <1>3, <1>5, AmountsAre DEF Kept, ReaderInv, Filled, Amount
  <2>2. WriterInv'
    BY <1>1, <1>2, <1>5 DEF Kept, TypeOK, WriterInv, Free, writer
  <2> QED BY <1>1, <1>5, <2>1, <2>2 DEF Kept, NoneHeld
<1> QED
  BY <1>1, <1>4, <1>5

LEMMA ReadByteIInv ==
    ASSUME IInv, ReadByte
    PROVE  IInv'
<1> USE ChannelAssumption DEF IInv
<1>1. /\ rpc = "copy" /\ rcopied < available /\ rcopied' = rcopied + 1
      /\ got' = Append(got, data[CellAt(read, available, rcopied)])
      /\ UNCHANGED <<written, read, data, clash, writer, rpc, want, rseen,
                     available, calls>>
  BY DEF ReadByte
<1>2. /\ read \in Cell /\ available \in Amount /\ rcopied \in 0..available-1
      /\ Len(got) \in Nat /\ rcopied <= Len(got) /\ got \in Seq(Byte)
  BY <1>1, LenProperties DEF TypeOK, Amount
<1>3. CellAt(read, available, rcopied) = After(read, rcopied)
      /\ data[After(read, rcopied)] \in Byte
  BY <1>2, CellAtIs DEF TypeOK
<1>4. /\ got' \in Seq(Byte) /\ Len(got') = Len(got) + 1
      /\ \A i \in 1..Len(got) : got'[i] = got[i]
      /\ got'[Len(got) + 1] = data[After(read, rcopied)]
  BY <1>1, <1>2, <1>3, AppendProperties
<1>5. TypeOK'
  BY <1>1, <1>2, <1>4 DEF TypeOK, writer, calls, Amount
<1>6. ASSUME Kept PROVE Kept'
  <2>1. WriterInv' /\ NoneHeld'
    BY <1>1, <1>6 DEF Kept, WriterInv, NoneHeld, Free, writer, calls
  <2>2. ASSUME NEW k \in 0..rcopied
        PROVE  got'[Len(got) + 1 - (rcopied + 1) + 1 + k] = data[After(read, k)]
    <3>1. CASE k = rcopied
      BY <1>2, <1>4, <3>1
    <3>2. CASE k # rcopied
      <4>1. /\ k \in 0..rcopied-1
            /\ Len(got) - rcopied + 1 + k \in 1..Len(got)
        BY <1>2, <3>2
      <4>2. got[Len(got) - rcopied + 1 + k] = data[After(read, k)]
        BY <1>6, <4>1 DEF Kept, ReaderInv
      <4>3. QED
        BY <1>2, <1>4, <4>1, <4>2
    <3>3. QED
      BY <3>1, <3>2
  <2>3. ASSUME NEW k \in 0..rcopied' - 1
        PROVE  got'[Len(got') - rcopied' + 1 + k] = data[After(read, k)]
    <3>1. k \in 0..rcopied
      BY <1>1, <1>2, <2>3
    <3>2. Len(got') - rcopied' + 1 + k = Len(got) + 1 - (rcopied + 1) + 1 + k
      BY <1>1, <1>2, <1>4
    <3>3. QED
      BY <2>2, <3>1, <3>2
  <2>4. available' <= Filled' /\ rpc' # "events"
    BY <1>1, <1>6 DEF Kept, ReaderInv, Filled
  <2>5. ReaderInv'
    BY <1>1, <2>3, <2>4 DEF ReaderInv
  <2> QED BY <2>1, <2>5 DEF Kept
<1> QED
  BY <1>1, <1>5, <1>6 DEF calls

LEMMA ReadDoneIInv ==
    ASSUME IInv, ReadDone
    PROVE  IInv'
<1> USE ChannelAssumption DEF IInv
<1>1. /\ rpc = "copy" /\ rcopied = available
      /\ clash' = clash \cup {"read"} /\ available' = 0 /\ rcopied' = 0
      /\ UNCHANGED <<written, data, writer, rseen, got>>
  BY DEF ReadDone, AllRead
<1>2. /\ written \in Cell /\ read \in Cell /\ available \in Amount
      /\ Len(got) \in Nat /\ Free \in Amount /\ Filled \in Amount
  BY <1>1, AmountsAre DEF TypeOK
<1>3. read' = After(read, available) /\ read' \in Cell
  BY <1>2, AdvanceIs DEF ReadDone
<1>4. \/ /\ UNCHANGED <<calls, want>>
         /\ rpc' = IF ~PyWrites /\ ~Complete(got) THEN "look" ELSE "idle"
         /\ ~PyWrites
      \/ PyWrites /\ Outermost /\ rpc' = "idle" /\ UNCHANGED want
      \/ PyWrites /\ Unnest /\ rpc' = "events" /\ want' = Below.arg
  BY DEF ReadDone
<1>5. /\ stack' \in Seq(Frame) /\ held' \in Amount /\ nested' \in 0..MaxNested
      /\ stale' = stale /\ (NoneHeld => NoneHeld')
      /\ want' \in Sizes \cup {-1} /\ (PyWrites /\ rpc' # "idle" => want' # -1)
  <2>1. CASE UNCHANGED <<calls, want>> /\ ~PyWrites
    BY <2>1 DEF TypeOK, calls, NoneHeld
  <2>2. CASE Outermost /\ rpc' = "idle" /\ UNCHANGED want
    BY <2>2, DoneTypes DEF TypeOK
  <2>3. CASE PyWrites /\ Unnest /\ want' = Below.arg
    BY <2>3, DoneTypes, UnnestIs
  <2> QED BY <1>4, <2>1, <2>2, <2>3
<1>6. rpc' \in At \ (IF PyWrites THEN {} ELSE {"spin", "events"})
  BY <1>4 DEF At
<1>7. TypeOK'
  BY <1>1, <1>2, <1>3, <1>5, <1>6 DEF TypeOK, writer, Amount
<1>8. ASSUME Kept PROVE Kept'
  <2>1. Free' = Free + available /\ Filled' \in Amount
    <3>1. available \in Nat /\ available <= CUnread(read, written)
      BY <1>2, <1>8 DEF Kept, ReaderInv, Filled, Amount
    <3>2. CSpace(read', written) = CSpace(read, written) + available
      BY <1>2, <1>3, <3>1, Consumed
    <3> QED BY <1>1, <1>2, <1>3, <3>2, UnreadIs DEF Free, Filled
  <2>2. ReaderInv'
    <3>1. rpc' = "events" => held' = 0
      BY <1>4, <1>8, UnnestIs DEF Kept
    <3> QED
      BY <1>1, <2>1, <3>1 DEF ReaderInv, Amount
  <2>3. WriterInv'
    <3>1. to_write' <= Free'
      BY <1>1, <1>2, <1>8, <2>1 DEF Kept, TypeOK, WriterInv, writer, Amount
    <3>2. wpc' = "events" => held' <= Free'
      <4>1. CASE ~PyWrites
        <5>1. UNCHANGED calls BY <1>4, <4>1
        <5> QED
          BY <1>1, <1>2, <1>8, <2>1, <5>1
             DEF Kept, TypeOK, WriterInv, writer, calls, Amount
      <4>2. CASE PyWrites BY <1>1, <4>2 DEF TypeOK, writer
      <4> QED BY <4>1, <4>2
    <3> QED
      BY <1>1, <1>8, <3>1, <3>2 DEF Kept, WriterInv, writer
  <2> QED BY <1>5, <1>8, <2>2, <2>3 DEF Kept
<1> QED
  BY <1>5, <1>7, <1>8

LEMMA StutterIInv ==
    ASSUME IInv, UNCHANGED vars
    PROVE  IInv'
<1>1. UNCHANGED <<written, read, data, clash, writer, reader, calls>>
  BY DEF vars
<1>2. TypeOK'
  BY <1>1 DEF writer, reader, calls, IInv, TypeOK
<1>3. Kept => Kept'
  BY <1>1 DEF writer, reader, calls, Kept, WriterInv, ReaderInv, NoneHeld,
              Free, Filled
<1> QED
  BY <1>1, <1>2, <1>3 DEF IInv, calls

LEMMA NextIInv ==
    ASSUME IInv, [Next]_vars
    PROVE  IInv'
  BY WriteCallIInv, WriteLookIInv, WriteNestedIInv, WriteResumeIInv,
     WriteByteIInv, WriteDoneIInv, ReadCallIInv, ReadLookIInv,
     ReadNestedIInv, ReadResumeIInv, ReadByteIInv, ReadDoneIInv, StutterIInv
     DEF Next, WriteStep, ReadStep

(* The strengthening holds in every reachable state.                       *)
THEOREM InductiveInvariant == Spec => []IInv
<1>1. Init => IInv
  BY InitIInv
<1>2. IInv /\ [Next]_vars => IInv'
  BY NextIInv
<1>3. QED
  BY <1>1, <1>2, PTL DEF Spec

-----------------------------------------------------------------------------
(* Type correctness.                                                       *)
THEOREM TypeCorrect == Spec => []TypeOK
<1>1. IInv => TypeOK
  BY DEF IInv
<1>2. QED
  BY <1>1, InductiveInvariant, PTL

(* A cell is never copied out while it is being copied in, unless a nested *)
(* call was made after its caller had found space, or data.                *)
THEOREM EndsApart == Spec => []Disjoint
<1>1. IInv => Disjoint
  <2>1. SUFFICES ASSUME IInv, ~stale,
                        NEW j \in 0..to_write-1, NEW k \in 0..available-1
                 PROVE  After(written, j) # After(read, k)
    BY DEF Disjoint, Writing, Reading
  <2>2. /\ written \in Cell /\ read \in Cell
        /\ Free \in Amount /\ Filled \in Amount
        /\ to_write \in Amount /\ available \in Amount
    BY <2>1, AmountsAre DEF IInv, TypeOK
  <2>3. to_write <= Free /\ available <= Filled
    BY <2>1 DEF IInv, Kept, WriterInv, ReaderInv
  <2>4. j < Free /\ k < Filled /\ j \in Nat /\ k \in Nat
    BY <2>2, <2>3, ChannelAssumption DEF Amount
  <2>5. QED
    BY <2>2, <2>4, Apart DEF Free, Filled
<1>2. QED
  BY <1>1, InductiveInvariant, PTL

-----------------------------------------------------------------------------
(* The refinement of ByteQueue.                                            *)

Bytes(r, w, d) == [k \in 1..CUnread(r, w) |-> d[After(r, k - 1)]]
UnreadBytes == Bytes(read, written, data)
Collected == SubSeq(got, 1, Len(got) - rcopied)

LEMMA BytesType ==
    ASSUME NEW r \in Cell, NEW w \in Cell, NEW d \in [Cell -> Byte]
    PROVE  /\ Bytes(r, w, d) \in Seq(Byte) /\ Len(Bytes(r, w, d)) = CUnread(r, w)
           /\ \A k \in 1..CUnread(r, w) : Bytes(r, w, d)[k] = d[After(r, k - 1)]
<1>1. CUnread(r, w) \in Amount
  BY UnreadIs
<1>2. ASSUME NEW k \in 1..CUnread(r, w) PROVE d[After(r, k - 1)] \in Byte
  <2>1. After(r, k - 1) \in Cell
    BY <1>1, ChannelAssumption DEF After, Cell, Amount
  <2>2. QED
    BY <2>1
<1>3. Bytes(r, w, d) \in [1..CUnread(r, w) -> Byte]
  BY <1>2 DEF Bytes
<1>4. Bytes(r, w, d) \in Seq(Byte)
  BY <1>1, <1>3, SeqDef, ChannelAssumption DEF Amount
<1>5. Len(Bytes(r, w, d)) = CUnread(r, w)
  BY <1>1, <1>3, <1>4, LenProperties, ChannelAssumption DEF Amount
<1>6. QED
  BY <1>4, <1>5 DEF Bytes

LEMMA PrefixType ==
    ASSUME NEW g \in Seq(Byte), NEW n \in 0..Len(g)
    PROVE  /\ SubSeq(g, 1, n) \in Seq(Byte) /\ Len(SubSeq(g, 1, n)) = n
           /\ \A i \in 1..n : SubSeq(g, 1, n)[i] = g[i]
<1>1. Len(g) \in Nat /\ \A i \in 1..n : g[i] \in Byte
  BY LenProperties, ElementOfSeq
<1>2. /\ SubSeq(g, 1, n) \in Seq(Byte)
      /\ Len(SubSeq(g, 1, n)) = IF 1 <= n THEN n - 1 + 1 ELSE 0
      /\ \A i \in 1..n - 1 + 1 : SubSeq(g, 1, n)[i] = g[1 + i - 1]
  BY <1>1, SubSeqProperties
<1>3. QED
  BY <1>1, <1>2

LEMMA ConcatPointwise ==
    ASSUME NEW s \in Seq(Byte), NEW t \in Seq(Byte), NEW u \in Seq(Byte),
           Len(u) = Len(s) + Len(t),
           \A i \in 1..Len(s) : u[i] = s[i],
           \A j \in 1..Len(t) : u[Len(s) + j] = t[j]
    PROVE  u = s \o t
<1> DEFINE v == s \o t
<1>1. /\ v \in Seq(Byte) /\ Len(v) = Len(s) + Len(t)
      /\ \A i \in 1..Len(s) + Len(t) :
             v[i] = IF i <= Len(s) THEN s[i] ELSE t[i - Len(s)]
  BY ConcatProperties
<1>2. Len(s) \in Nat /\ Len(t) \in Nat
  BY LenProperties
<1> HIDE DEF v
<1>3. ASSUME NEW i \in 1..Len(u) PROVE u[i] = v[i]
  <2>1. CASE i <= Len(s)
    BY <1>1, <1>2, <2>1
  <2>2. CASE i > Len(s)
    <3> DEFINE j == i - Len(s)
    <3>1. j \in 1..Len(t) /\ i = Len(s) + j
      BY <1>2, <2>2
    <3>2. u[Len(s) + j] = t[j]
      BY <3>1
    <3>3. v[i] = t[j]
      BY <1>1, <1>2, <2>2
    <3>4. QED
      BY <3>1, <3>2, <3>3
  <2>3. QED
    BY <1>2, <2>1, <2>2
<1>4. u = v
  BY <1>1, <1>3, SeqEqual
<1>5. QED
  BY <1>4 DEF v

LEMMA SuffixPointwise ==
    ASSUME NEW s \in Seq(Byte), NEW u \in Seq(Byte), NEW n \in 0..Len(s),
           Len(u) = Len(s) - n,
           \A i \in 1..Len(s) - n : u[i] = s[n + i]
    PROVE  u = SubSeq(s, n + 1, Len(s))
<1> DEFINE v == SubSeq(s, n + 1, Len(s))
<1>1. Len(s) \in Nat /\ \A i \in n + 1..Len(s) : s[i] \in Byte
  BY LenProperties, ElementOfSeq
<1>2. /\ v \in Seq(Byte)
      /\ Len(v) = IF n + 1 <= Len(s) THEN Len(s) - (n + 1) + 1 ELSE 0
      /\ \A i \in 1..Len(s) - (n + 1) + 1 : v[i] = s[(n + 1) + i - 1]
  BY <1>1, SubSeqProperties
<1> HIDE DEF v
<1>3. Len(v) = Len(s) - n
  BY <1>1, <1>2
<1>4. ASSUME NEW i \in 1..Len(u) PROVE u[i] = v[i]
  <2>1. i \in 1..Len(s) - (n + 1) + 1 /\ (n + 1) + i - 1 = n + i
    BY <1>1
  <2>2. QED
    BY <1>1, <1>2, <2>1
<1>5. u = v
  BY <1>2, <1>3, <1>4, SeqEqual
<1>6. QED
  BY <1>5 DEF v

(* Writing a cell that is free changes no unread byte.                     *)
LEMMA WriteByteKeeps ==
    ASSUME IInv, ~stale, WriteByte
    PROVE  UnreadBytes' = UnreadBytes
<1>1. /\ wcopied < to_write /\ UNCHANGED <<written, read, to_write>>
      /\ data' = [data EXCEPT ![CellAt(written, to_write, wcopied)]
                                = block[wcopied + 1]]
  BY DEF WriteByte, reader
<1>2. /\ written \in Cell /\ read \in Cell /\ wcopied \in 0..to_write-1
      /\ to_write \in Amount /\ to_write <= Free
      /\ Free \in Amount /\ Filled \in Amount
  BY <1>1, AmountsAre, ChannelAssumption
     DEF IInv, TypeOK, Kept, WriterInv, Amount
<1>3. CellAt(written, to_write, wcopied) = After(written, wcopied)
  BY <1>2, CellAtIs
<1>4. ASSUME NEW k \in 1..Filled
      PROVE  data'[After(read, k - 1)] = data[After(read, k - 1)]
  <2>1. k - 1 \in Nat /\ k - 1 < Filled /\ wcopied \in Nat /\ wcopied < Free
    BY <1>2, ChannelAssumption DEF Amount
  <2>2. After(read, k - 1) # After(written, wcopied)
    BY <1>2, <2>1, Apart DEF Free, Filled
  <2>3. After(read, k - 1) \in Cell
    BY <1>2, <2>1, ChannelAssumption DEF After, Cell, Amount
  <2>4. QED
    BY <1>1, <1>3, <2>2, <2>3 DEF IInv, TypeOK
<1>5. QED
  BY <1>1, <1>4 DEF UnreadBytes, Bytes, Filled

(* Publishing the write pointer makes the whole block readable.            *)
LEMMA WriteDonePuts ==
    ASSUME IInv, ~stale, WriteDone
    PROVE  /\ to_write \in 0..Len(block)
           /\ Len(UnreadBytes) + to_write <= L - 1
           /\ UnreadBytes' = UnreadBytes \o SubSeq(block, 1, to_write)
<1>1. /\ wpc = "copy" /\ wcopied = to_write
      /\ UNCHANGED <<read, data>>
  BY DEF WriteDone, AllCopied
<1>2. /\ written \in Cell /\ read \in Cell /\ to_write \in Amount
      /\ to_write <= Free /\ to_write <= Len(block)
      /\ block \in Seq(Byte) /\ Len(block) \in Nat
      /\ Free \in Amount /\ Filled \in Amount
      /\ \A k \in 0..to_write - 1 : data[After(written, k)] = block[k + 1]
  BY <1>1, AmountsAre DEF IInv, TypeOK, Kept, WriterInv
<1>3. written' = After(written, to_write) /\ written' \in Cell
  BY <1>2, AdvanceIs DEF WriteDone
<1>4. /\ Filled' = Filled + to_write
      /\ \A k \in 0..to_write-1 : After(read, Filled + k) = After(written, k)
  BY <1>1, <1>2, <1>3, Written, ChannelAssumption DEF Filled, Free, Amount
<1>5. Filled + Free = L - 1
  BY <1>2, ChannelAssumption DEF Filled, Free, CUnread, CSpace, Wrapped, Cell
<1>6. /\ UnreadBytes \in Seq(Byte) /\ Len(UnreadBytes) = Filled
      /\ \A k \in 1..Filled : UnreadBytes[k] = data[After(read, k - 1)]
  BY <1>2, BytesType DEF IInv, TypeOK, UnreadBytes, Filled
<1>7. /\ UnreadBytes' \in Seq(Byte) /\ Len(UnreadBytes') = Filled + to_write
      /\ \A k \in 1..Filled + to_write :
             UnreadBytes'[k] = data[After(read, k - 1)]
  <2>1. UnreadBytes' = Bytes(read, written', data)
    BY <1>1 DEF UnreadBytes
  <2>2. CUnread(read, written') = Filled + to_write
    BY <1>1, <1>4 DEF Filled
  <2>3. data \in [Cell -> Byte]
    BY DEF IInv, TypeOK
  <2>4. /\ Bytes(read, written', data) \in Seq(Byte)
        /\ Len(Bytes(read, written', data)) = CUnread(read, written')
        /\ \A k \in 1..CUnread(read, written') :
               Bytes(read, written', data)[k] = data[After(read, k - 1)]
    BY <1>2, <1>3, <2>3, BytesType
  <2>5. QED
    BY <2>1, <2>2, <2>4
<1>8. /\ SubSeq(block, 1, to_write) \in Seq(Byte)
      /\ Len(SubSeq(block, 1, to_write)) = to_write
      /\ \A i \in 1..to_write : SubSeq(block, 1, to_write)[i] = block[i]
  BY <1>2, PrefixType DEF Amount
<1>9. \A i \in 1..Filled : UnreadBytes'[i] = UnreadBytes[i]
  <2>1. \A i \in 1..Filled : i \in 1..Filled + to_write
    BY <1>2, ChannelAssumption DEF Amount
  <2>2. QED
    BY <1>6, <1>7, <2>1
<1>10. ASSUME NEW j \in 1..to_write
       PROVE  UnreadBytes'[Filled + j] = SubSeq(block, 1, to_write)[j]
  <2>1. /\ Filled + j \in 1..Filled + to_write
        /\ Filled + j - 1 = Filled + (j - 1) /\ j - 1 \in 0..to_write - 1
        /\ (j - 1) + 1 = j
    BY <1>2, ChannelAssumption DEF Amount
  <2>2. UnreadBytes'[Filled + j] = data[After(read, Filled + (j - 1))]
    <3>1. PICK k \in 1..Filled + to_write : k = Filled + j
      BY <2>1
    <3>2. k - 1 = Filled + (j - 1)
      BY <1>2, <3>1, ChannelAssumption DEF Amount
    <3>3. UnreadBytes'[k] = data[After(read, k - 1)]
      BY <1>7
    <3>4. QED
      BY <3>1, <3>2, <3>3
  <2>3. data[After(read, Filled + (j - 1))] = block[j]
    BY <1>2, <1>4, <2>1
  <2>4. QED
    BY <1>8, <2>2, <2>3
<1>11. UnreadBytes' = UnreadBytes \o SubSeq(block, 1, to_write)
  <2> DEFINE t == SubSeq(block, 1, to_write)
  <2>1. /\ t \in Seq(Byte) /\ Len(t) = to_write
        /\ \A j \in 1..to_write : UnreadBytes'[Filled + j] = t[j]
    BY <1>8, <1>10
  <2> HIDE DEF t
  <2>2. Len(UnreadBytes') = Len(UnreadBytes) + Len(t)
    BY <1>6, <1>7, <2>1
  <2>3. \A i \in 1..Len(UnreadBytes) : UnreadBytes'[i] = UnreadBytes[i]
    BY <1>6, <1>9
  <2>4. \A j \in 1..Len(t) : UnreadBytes'[Len(UnreadBytes) + j] = t[j]
    BY <1>6, <2>1
  <2>5. UnreadBytes' = UnreadBytes \o t
    BY <1>6, <1>7, <2>1, <2>2, <2>3, <2>4, ConcatPointwise
  <2>6. QED
    BY <2>5 DEF t
<1>12. QED
  BY <1>2, <1>5, <1>6, <1>11, ChannelAssumption DEF Amount

(* Publishing the read pointer moves the chunk from the unread bytes to    *)
(* the collected ones.                                                     *)
LEMMA ReadDoneTakes ==
    ASSUME IInv, ~stale, ReadDone
    PROVE  /\ available \in 0..Len(UnreadBytes)
           /\ Collected' = Collected \o SubSeq(UnreadBytes, 1, available)
           /\ UnreadBytes' = SubSeq(UnreadBytes, available + 1, Len(UnreadBytes))
<1>1. /\ rpc = "copy" /\ rcopied = available /\ rcopied' = 0
      /\ UNCHANGED <<written, data, got>>
  BY DEF ReadDone, AllRead, writer
<1>2. /\ written \in Cell /\ read \in Cell /\ available \in Amount
      /\ available <= Filled /\ Filled \in Amount
      /\ got \in Seq(Byte) /\ Len(got) \in Nat /\ available <= Len(got)
      /\ \A k \in 0..available - 1 :
             got[Len(got) - available + 1 + k] = data[After(read, k)]
  BY <1>1, AmountsAre DEF IInv, TypeOK, Kept, ReaderInv
<1>3. read' = After(read, available) /\ read' \in Cell
  BY <1>2, AdvanceIs DEF ReadDone
<1>4. /\ CUnread(read', written) = Filled - available
      /\ \A k \in 0..Filled - available - 1 :
             After(read', k) = After(read, available + k)
  BY <1>2, <1>3, Consumed, ChannelAssumption DEF Filled, Amount
<1>5. /\ UnreadBytes \in Seq(Byte) /\ Len(UnreadBytes) = Filled
      /\ \A k \in 1..Filled : UnreadBytes[k] = data[After(read, k - 1)]
  BY <1>2, BytesType DEF IInv, TypeOK, UnreadBytes, Filled
<1>6. Collected' = Collected \o SubSeq(UnreadBytes, 1, available)
  <2>1. Collected' = got
    BY <1>1, <1>2, SubSeqFull DEF Collected
  <2>2. /\ Collected \in Seq(Byte) /\ Len(Collected) = Len(got) - available
        /\ \A i \in 1..Len(got) - available : Collected[i] = got[i]
    BY <1>1, <1>2, PrefixType, ChannelAssumption DEF Collected, Amount
  <2>3. /\ SubSeq(UnreadBytes, 1, available) \in Seq(Byte)
        /\ Len(SubSeq(UnreadBytes, 1, available)) = available
        /\ \A i \in 1..available :
               SubSeq(UnreadBytes, 1, available)[i] = UnreadBytes[i]
    BY <1>2, <1>5, PrefixType, ChannelAssumption DEF Amount
  <2>4. ASSUME NEW j \in 1..available
        PROVE  got[Len(got) - available + j]
                   = SubSeq(UnreadBytes, 1, available)[j]
    <3>1. /\ j - 1 \in 0..available - 1 /\ j \in 1..Filled
          /\ Len(got) - available + 1 + (j - 1) = Len(got) - available + j
      BY <1>2, ChannelAssumption DEF Amount
    <3>2. got[Len(got) - available + j] = data[After(read, j - 1)]
      BY <1>2, <3>1
    <3>3. QED
      BY <1>5, <2>3, <3>1, <3>2
  <2>5. got = Collected \o SubSeq(UnreadBytes, 1, available)
    <3>1. Len(got) = Len(Collected) + Len(SubSeq(UnreadBytes, 1, available))
      BY <1>2, <2>2, <2>3, ChannelAssumption DEF Amount
    <3> DEFINE t == SubSeq(UnreadBytes, 1, available)
    <3>2. /\ t \in Seq(Byte) /\ Len(t) = available
          /\ Len(got) = Len(Collected) + Len(t)
          /\ \A j \in 1..available : got[Len(got) - available + j] = t[j]
      BY <2>3, <2>4, <3>1
    <3> HIDE DEF t
    <3>3. \A i \in 1..Len(Collected) : got[i] = Collected[i]
      BY <2>2
    <3>4. \A j \in 1..Len(t) : got[Len(Collected) + j] = t[j]
      BY <2>2, <3>2
    <3>5. got = Collected \o t
      BY <1>2, <2>2, <3>2, <3>3, <3>4, ConcatPointwise
    <3>6. QED
      BY <3>5 DEF t
  <2>6. QED
    BY <2>1, <2>5
<1>7. UnreadBytes' = SubSeq(UnreadBytes, available + 1, Filled)
  <2>1. UnreadBytes' = Bytes(read', written, data)
    BY <1>1 DEF UnreadBytes
  <2>2. data \in [Cell -> Byte]
    BY DEF IInv, TypeOK
  <2>3. /\ Bytes(read', written, data) \in Seq(Byte)
        /\ Len(Bytes(read', written, data)) = CUnread(read', written)
        /\ \A k \in 1..CUnread(read', written) :
               Bytes(read', written, data)[k] = data[After(read', k - 1)]
    BY <1>2, <1>3, <2>2, BytesType
  <2>4. ASSUME NEW i \in 1..Filled - available
        PROVE  UnreadBytes'[i] = UnreadBytes[available + i]
    <3>1. /\ i - 1 \in 0..Filled - available - 1
          /\ available + i \in 1..Filled
          /\ available + i - 1 = available + (i - 1)
      BY <1>2, ChannelAssumption DEF Amount
    <3>2. UnreadBytes'[i] = data[After(read', i - 1)]
      BY <1>4, <2>1, <2>3
    <3>3. After(read', i - 1) = After(read, available + (i - 1))
      BY <1>4, <3>1
    <3>4. UnreadBytes[available + i] = data[After(read, available + (i - 1))]
      <4>1. PICK k \in 1..Filled : k = available + i
        BY <3>1
      <4>2. k - 1 = available + (i - 1)
        BY <1>2, <4>1, ChannelAssumption DEF Amount
      <4>3. UnreadBytes[k] = data[After(read, k - 1)]
        BY <1>5
      <4>4. QED
        BY <4>1, <4>2, <4>3
    <3>5. QED
      BY <3>2, <3>3, <3>4
  <2>5. UnreadBytes' \in Seq(Byte) /\ Len(UnreadBytes') = Filled - available
    BY <1>4, <2>1, <2>3
  <2>6. available \in 0..Filled
    BY <1>2, ChannelAssumption DEF Amount
  <2>7. QED
    BY <1>5, <2>4, <2>5, <2>6, SuffixPointwise
<1>8. QED
  BY <1>2, <1>5, <1>6, <1>7, ChannelAssumption DEF Amount

(* A write that has found nothing puts nothing.                            *)
LEMMA PutNothing ==
    ASSUME TypeOK, NEW b \in Seq(Byte)
    PROVE  \E n \in 0..Len(b) :
              /\ Len(UnreadBytes) + n <= L - 1
              /\ UnreadBytes = UnreadBytes \o SubSeq(b, 1, n)
<1>1. /\ UnreadBytes \in Seq(Byte) /\ Len(UnreadBytes) = Filled
      /\ Filled \in Amount /\ Len(b) \in Nat
  BY BytesType, AmountsAre, LenProperties DEF TypeOK, UnreadBytes, Filled
<1>2. SubSeq(b, 1, 0) = <<>>
  BY SubSeqEmpty
<1>3. UnreadBytes = UnreadBytes \o <<>>
  BY <1>1, ConcatEmptySeq
<1>4. 0 \in 0..Len(b) /\ Len(UnreadBytes) + 0 <= L - 1
  BY <1>1, ChannelAssumption DEF Amount
<1> QED BY <1>2, <1>3, <1>4

Offered == IF wpc = "events" THEN <<>> ELSE block

LEMMA QueueInit == Init => Queue!Init
<1> SUFFICES ASSUME Init PROVE Queue!Init
  OBVIOUS
<1>1. Filled = 0 /\ got = <<>> /\ rcopied = 0 /\ Offered = <<>>
  BY ChannelAssumption DEF Init, Filled, CUnread, Wrapped, Offered
<1>2. [k \in 1..Filled |-> data[After(read, k - 1)]] = <<>>
  BY <1>1
<1>3. SubSeq(got, 1, Len(got) - rcopied) = <<>>
  BY <1>1, SubSeqEmpty, EmptySeq
<1>4. QED
  BY <1>1, <1>2, <1>3 DEF Queue!Init, Offered

(* Every step of the channel is a step of the queue or leaves it alone.    *)
LEMMA QueueStep ==
    ASSUME IInv, [Next]_vars, ~stale'
    PROVE  [Queue!Next]_Queue!vars
<1> SUFFICES \/ /\ UNCHANGED <<UnreadBytes, Collected>>
               /\ Offered = <<>> /\ Offered' \in Seq(Byte)
             \/ \E n \in 0..Len(Offered) :
                   /\ Len(UnreadBytes) + n <= L - 1
                   /\ UnreadBytes' = UnreadBytes \o SubSeq(Offered, 1, n)
                   /\ Offered' = <<>> /\ Collected' = Collected
             \/ Collected' = <<>> /\ UNCHANGED <<UnreadBytes, Offered>>
             \/ /\ \E n \in 0..Len(UnreadBytes) :
                      /\ Collected' = Collected \o SubSeq(UnreadBytes, 1, n)
                      /\ UnreadBytes' =
                            SubSeq(UnreadBytes, n + 1, Len(UnreadBytes))
                /\ Offered' = Offered
             \/ UNCHANGED <<UnreadBytes, Offered, Collected>>
  BY DEF Queue!Next, Queue!Offer, Queue!Put, Queue!Call, Queue!Take,
         Queue!vars, UnreadBytes, Bytes, Collected, Filled, Offered
<1> USE ChannelAssumption
<1>1. ASSUME NEW b \in Blocks, WriteCall(b)
      PROVE  /\ UNCHANGED <<UnreadBytes, Collected>>
             /\ Offered = <<>> /\ Offered' \in Seq(Byte)
  BY <1>1 DEF WriteCall, reader, IInv, TypeOK, UnreadBytes, Collected, Offered
<1>2. CASE WriteLook
  <2>1. UNCHANGED <<written, read, data, block, reader>> /\ wpc # "events"
    BY <1>2 DEF WriteLook
  <2>2. UNCHANGED <<UnreadBytes, Collected>>
    BY <2>1 DEF reader, UnreadBytes, Collected
  <2>3. CASE wpc' # "events"
    BY <2>1, <2>2, <2>3 DEF Offered
  <2>4. CASE wpc' = "events"
    <3>1. Offered = block /\ Offered' = <<>> /\ block \in Seq(Byte) /\ TypeOK
      BY <2>1, <2>4 DEF Offered, IInv, TypeOK
    <3>2. \E n \in 0..Len(block) :
             /\ Len(UnreadBytes) + n <= L - 1
             /\ UnreadBytes = UnreadBytes \o SubSeq(block, 1, n)
      BY <3>1, PutNothing
    <3> HIDE DEF Offered
    <3> QED
      BY <2>2, <3>1, <3>2
  <2> QED BY <2>3, <2>4
<1>3. ASSUME NEW b \in Blocks, WriteNested(b)
      PROVE  /\ UNCHANGED <<UnreadBytes, Collected>>
             /\ Offered = <<>> /\ Offered' \in Seq(Byte)
  BY <1>3 DEF WriteNested, reader, UnreadBytes, Collected, Offered
<1>4. CASE WriteResume
  <2>1. /\ UNCHANGED <<written, read, data, block, reader>> /\ wpc = "events"
        /\ wpc' # "events"
    BY <1>4 DEF WriteResume, WriteTake
  <2>2. Offered = <<>> /\ Offered' \in Seq(Byte)
    BY <2>1 DEF Offered, IInv, TypeOK
  <2> QED
    BY <2>1, <2>2 DEF reader, UnreadBytes, Collected
<1>5. CASE WriteByte
  <2>1. ~stale /\ UNCHANGED <<wpc, block, reader>>
    BY <1>5 DEF WriteByte, calls
  <2> QED
    BY <1>5, <2>1, WriteByteKeeps DEF reader, Collected, Offered
<1>6. CASE WriteDone
  <2>1. /\ wpc = "copy" /\ UNCHANGED reader
        /\ wpc' = "events" \/ block' = <<>>
    BY <1>6 DEF WriteDone
  <2>2. ~stale
    BY <1>6 DEF WriteDone, calls, Outermost, Unnest
  <2>3. Offered = block /\ Offered' = <<>> /\ Collected' = Collected
    BY <2>1 DEF Offered, reader, Collected
  <2> QED
    BY <1>6, <2>2, <2>3, WriteDonePuts
<1>7. ASSUME NEW n \in Sizes, ReadCall(n) \/ ReadNested(n)
      PROVE  Collected' = <<>> /\ UNCHANGED <<UnreadBytes, Offered>>
  <2>1. got' = <<>> /\ rcopied' = rcopied /\ rcopied \in Nat
        /\ UNCHANGED <<written, read, data, writer>>
    BY <1>7 DEF ReadCall, ReadNested, IInv, TypeOK, Amount
  <2>2. Len(got') = 0
    BY <2>1
  <2>3. Collected' = <<>>
    BY <2>1, <2>2, SubSeqEmpty DEF Collected
  <2>4. QED
    BY <2>1, <2>3 DEF writer, UnreadBytes, Offered
<1>8. CASE ReadLook
  <2>1. /\ rcopied = 0 /\ UNCHANGED <<written, read, data, writer, got>>
        /\ rpc # "copy"
    BY <1>8 DEF ReadLook, IInv, TypeOK, Amount
  <2>2. rcopied' = 0
    BY <1>8, <2>1, ReadLookDecides DEF IInv, ReadSees, ReadTake
  <2>3. QED
    BY <2>1, <2>2 DEF writer, UnreadBytes, Collected, Offered
<1>9. CASE ReadResume
  <2>1. /\ got' = <<>> /\ rcopied = 0
        /\ UNCHANGED <<written, read, data, writer>> /\ rpc = "events"
    BY <1>9 DEF ReadResume, IInv, TypeOK, Amount
  <2>2. rcopied' = 0
    BY <1>9, <2>1 DEF ReadResume, ReadTake
  <2>3. Collected' = <<>>
    BY <2>1, <2>2, SubSeqEmpty DEF Collected
  <2> QED
    BY <2>1, <2>3 DEF writer, UnreadBytes, Offered
<1>10. CASE ReadByte
  <2>1. /\ got \in Seq(Byte) /\ Len(got) \in Nat /\ rcopied \in 0..Len(got)
        /\ read \in Cell /\ available \in Amount /\ rcopied \in 0..available-1
    BY <1>10, LenProperties DEF ReadByte, IInv, TypeOK, Amount
  <2>2. data[CellAt(read, available, rcopied)] \in Byte
    BY <2>1, CellAtIs DEF IInv, TypeOK
  <2>3. /\ got' \in Seq(Byte) /\ Len(got') = Len(got) + 1
        /\ \A i \in 1..Len(got) : got'[i] = got[i]
    BY <1>10, <2>1, <2>2, AppendProperties DEF ReadByte
  <2>4. rcopied' = rcopied + 1 /\ Len(got') - rcopied' = Len(got) - rcopied
        /\ Len(got) - rcopied \in 0..Len(got)
        /\ Len(got) - rcopied \in 0..Len(got')
    BY <1>10, <2>1, <2>3 DEF ReadByte
  <2> DEFINE m == Len(got) - rcopied
             s == SubSeq(got, 1, m)
             t == SubSeq(got', 1, m)
  <2>5. /\ s \in Seq(Byte) /\ Len(s) = m /\ \A i \in 1..m : s[i] = got[i]
    BY <2>1, <2>4, PrefixType
  <2>6. /\ t \in Seq(Byte) /\ Len(t) = m /\ \A i \in 1..m : t[i] = got'[i]
    BY <2>3, <2>4, PrefixType
  <2>7. s = t
    <3>1. \A i \in 1..m : i \in 1..Len(got)
      BY <2>1, <2>4
    <3> HIDE DEF m, s, t
    <3>2. \A i \in 1..m : s[i] = t[i]
      BY <2>3, <2>5, <2>6, <3>1
    <3>3. QED
      BY <2>5, <2>6, <3>2, SeqEqual
  <2>8. Collected' = Collected
    BY <2>4, <2>7 DEF Collected
  <2>9. QED
    BY <1>10, <2>8 DEF ReadByte, writer, UnreadBytes, Offered
<1>11. CASE ReadDone
  <2>1. ~stale /\ UNCHANGED writer
    BY <1>11 DEF ReadDone, calls, Outermost, Unnest
  <2> QED
    BY <1>11, <2>1, ReadDoneTakes DEF writer, Offered
<1>12. CASE UNCHANGED vars
  BY <1>12 DEF vars, writer, reader, UnreadBytes, Collected, Offered
<1>13. QED
  BY <1>1, <1>2, <1>3, <1>4, <1>5, <1>6, <1>7, <1>8, <1>9, <1>10, <1>11, <1>12
     DEF Next, WriteStep, ReadStep

(* The channel implements the bounded FIFO of blocks, for every length of  *)
(* the ring and in both directions, until a nested call makes stale what   *)
(* its caller had found.                                                   *)
THEOREM ChannelIsQueue == Spec => ImplementsQueue
<1>1. Init => Queue!Init
  BY QueueInit
<1>2. IInv /\ [Next]_vars => [stale' \/ Queue!Next]_(Queue!vars)
  BY QueueStep
<1>3. QED
  BY <1>1, <1>2, InductiveInvariant, PTL DEF Spec, ImplementsQueue
=============================================================================
