------------------------ MODULE MicroblazeRPC_proofs ------------------------
(***************************************************************************)
(* Both ends of the RPC channels of MicroblazeRPC stay in step, for any    *)
(* functions, arguments, texts and channels, until a command is cut or a   *)
(* call is served inside of a print; and the types hold in any case.       *)
(*                                                                         *)
(* What is in up leads from what the client waits for to what the server   *)
(* is about to write: every unit in it takes a reader from one state to    *)
(* the next (Parsed).                                                      *)
(***************************************************************************)
EXTENDS MicroblazeRPC, SequenceTheorems, TLAPS


-----------------------------------------------------------------------------
(* Sequences.                                                              *)
LEMMA SameSeq ==
    ASSUME NEW S, NEW s \in Seq(S), NEW t \in Seq(S), Len(s) = Len(t),
           \A i \in 1 .. Len(s) : s[i] = t[i]
    PROVE  s = t
<1>1. s \in [1 .. Len(s) -> S] /\ t \in [1 .. Len(s) -> S] BY LenProperties
<1> QED BY <1>1

LEMMA Singleton ==
    ASSUME NEW S, NEW a \in S
    PROVE  <<a>> \in Seq(S) /\ Len(<<a>>) = 1 /\ <<a>>[1] = a
OBVIOUS

LEMMA Push ==
    ASSUME NEW S, NEW a \in S, NEW s \in Seq(S)
    PROVE  /\ <<a>> \o s \in Seq(S) /\ <<a>> \o s # <<>>
           /\ Len(<<a>> \o s) = Len(s) + 1
           /\ Head(<<a>> \o s) = a /\ Tail(<<a>> \o s) = s
           /\ (<<a>> \o s)[1] = a
           /\ \A i \in 2 .. Len(s) + 1 : (<<a>> \o s)[i] = s[i - 1]
<1> DEFINE q == <<a>> \o s
<1>0. <<a>> \in Seq(S) /\ Len(<<a>>) = 1 /\ <<a>>[1] = a BY Singleton
<1>1. /\ q \in Seq(S) /\ Len(q) = Len(s) + 1
      /\ \A i \in 1 .. Len(s) + 1 : q[i] = IF i <= 1 THEN <<a>>[i] ELSE s[i - 1]
  BY <1>0, ConcatProperties, LenProperties
<1>2. Len(s) \in Nat BY LenProperties
<1>3. q # <<>> BY <1>1, <1>2, EmptySeq
<1>4. q[1] = a BY <1>0, <1>1, <1>2
<1> HIDE DEF q
<1>5. Head(q) = a BY <1>1, <1>3, <1>4
<1>6. Tail(q) = s
  <2>1. /\ Tail(q) \in Seq(S) /\ Len(Tail(q)) = Len(s)
        /\ \A i \in 1 .. Len(s) : Tail(q)[i] = q[i + 1]
    BY <1>1, <1>2, <1>3, HeadTailProperties
  <2>2. \A i \in 1 .. Len(s) : q[i + 1] = s[i] BY <1>1, <1>2
  <2> QED BY <2>1, <2>2, SameSeq
<1> QED BY <1>1, <1>2, <1>3, <1>4, <1>5, <1>6 DEF q

LEMMA RepIs ==
    ASSUME NEW S, NEW x \in S, NEW n \in Nat
    PROVE  /\ Rep(x, n) \in Seq(S) /\ Len(Rep(x, n)) = n
           /\ \A i \in 1 .. n : Rep(x, n)[i] = x
BY DEF Rep

LEMMA DropIs ==
    ASSUME NEW S, NEW q \in Seq(S), NEW n \in 0 .. Len(q)
    PROVE  /\ SubSeq(q, n + 1, Len(q)) \in Seq(S)
           /\ Len(SubSeq(q, n + 1, Len(q))) = Len(q) - n
           /\ \A i \in 1 .. Len(q) - n : SubSeq(q, n + 1, Len(q))[i] = q[i + n]
<1>1. Len(q) \in Nat BY LenProperties
<1>2. \A i \in n + 1 .. Len(q) : q[i] \in S BY <1>1, ElementOfSeq
<1> QED BY <1>1, <1>2, SubSeqProperties

LEMMA TakeIs ==
    ASSUME NEW S, NEW q \in Seq(S), NEW n \in 0 .. Len(q)
    PROVE  /\ SubSeq(q, 1, n) \in Seq(S) /\ Len(SubSeq(q, 1, n)) = n
           /\ \A i \in 1 .. n : SubSeq(q, 1, n)[i] = q[i]
<1>1. Len(q) \in Nat BY LenProperties
<1>2. \A i \in 1 .. n : q[i] \in S BY <1>1, ElementOfSeq
<1> QED BY <1>1, <1>2, SubSeqProperties
-----------------------------------------------------------------------------
(* What a running function has left to do at each of its stages.           *)
Text == <<"text">>
ValOps(id) == Act("rpc", <<<<"val", id>>>>)
AfterText(f, id) ==
    (IF f \in Yields THEN Act("yield", <<>>) ELSE <<>>) \o Reply(f, id)
TextOps(f, id, m) == Act("print", Rep(Text, m)) \o AfterText(f, id)
AfterArgs(f, id) ==
    IF f \in Prints THEN Act("print", <<<<"print">>>>) \o TextOps(f, id, TextLen)
                    ELSE AfterText(f, id)
AllOps(f, id) == Act("args", <<>>) \o AfterArgs(f, id)

Does(ops, what) == ops # <<>> /\ Head(ops).do = what

LEMMA Numbers ==
    /\ TextLen \in Nat /\ TextLen >= 1 /\ UpSize \in Nat /\ UpSize >= 1
    /\ DownSize \in Nat /\ DownSize >= 1 /\ MaxBehind \in Nat /\ MaxBehind >= 1
    /\ \A f \in Fn : Args[f] \in Nat
BY RPCAssumption

LEMMA UpUnits ==
    /\ <<"void">> \in UpUnit /\ <<"ret">> \in UpUnit /\ <<"print">> \in UpUnit
    /\ Text \in UpUnit /\ \A id \in Bit : <<"val", id>> \in UpUnit
BY DEF UpUnit, Text

LEMMA ActOps ==
    ASSUME NEW do, NEW units, NEW s \in Seq(Op),
           \/ do \in {"args", "yield"} /\ units = <<>>
           \/ do \in {"print", "rpc"} /\ units \in Seq(UpUnit)
    PROVE  /\ Act(do, units) \o s \in Seq(Op)
           /\ Act(do, units) \o s # <<>>
           /\ Head(Act(do, units) \o s) = [do |-> do, units |-> units]
           /\ Tail(Act(do, units) \o s) = s
           /\ Act(do, units) \in Seq(Op)
<1>1. [do |-> do, units |-> units] \in Op
  <2>1. CASE do \in {"args", "yield"} /\ units = <<>> BY <2>1 DEF Op
  <2>2. CASE do \in {"print", "rpc"} /\ units \in Seq(UpUnit) BY <2>2 DEF Op
  <2> QED BY <2>1, <2>2
<1>2. Act(do, units) \in Seq(Op) BY <1>1, Singleton DEF Act
<1> QED BY <1>1, <1>2, Push DEF Act

LEMMA ActAlone ==
    ASSUME NEW do, NEW units,
           \/ do \in {"args", "yield"} /\ units = <<>>
           \/ do \in {"print", "rpc"} /\ units \in Seq(UpUnit)
    PROVE  /\ Act(do, units) \in Seq(Op) /\ Act(do, units) # <<>>
           /\ Head(Act(do, units)) = [do |-> do, units |-> units]
           /\ Tail(Act(do, units)) = <<>>
<1>1. <<>> \in Seq(Op) BY EmptySeq
<1>2. Act(do, units) \in Seq(Op) BY <1>1, ActOps
<1>3. Act(do, units) \o <<>> = Act(do, units) BY <1>2, ConcatEmptySeq
<1>4. /\ Act(do, units) \o <<>> # <<>>
      /\ Head(Act(do, units) \o <<>>) = [do |-> do, units |-> units]
      /\ Tail(Act(do, units) \o <<>>) = <<>>
  BY <1>1, ActOps
<1> QED BY <1>2, <1>3, <1>4

(* The sequence of one unit.                                               *)
LEMMA OneUnit ==
    ASSUME NEW u \in UpUnit
    PROVE  <<u>> \in Seq(UpUnit) /\ Len(<<u>>) = 1 /\ <<u>>[1] = u
BY Singleton

LEMMA ValIs ==
    ASSUME NEW id \in Bit
    PROVE  /\ ValOps(id) \in Seq(Op) /\ ValOps(id) # <<>>
           /\ Head(ValOps(id)) = [do |-> "rpc", units |-> <<<<"val", id>>>>]
           /\ Tail(ValOps(id)) = <<>>
<1>1. <<<<"val", id>>>> \in Seq(UpUnit) BY UpUnits, OneUnit
<1> QED BY <1>1, ActAlone DEF ValOps

LEMMA ReplyIs ==
    ASSUME NEW f \in Fn, NEW id \in Bit
    PROVE  /\ Reply(f, id) \in Seq(Op) /\ Reply(f, id) # <<>>
           /\ f \in Blocking =>
                /\ Head(Reply(f, id)) = [do |-> "rpc", units |-> <<<<"ret">>>>]
                /\ Tail(Reply(f, id)) = ValOps(id)
           /\ f \notin Blocking =>
                /\ Head(Reply(f, id)) = [do |-> "rpc", units |-> <<<<"void">>>>]
                /\ Tail(Reply(f, id)) = <<>>
<1>1. <<<<"ret">>>> \in Seq(UpUnit) /\ <<<<"void">>>> \in Seq(UpUnit)
  BY UpUnits, OneUnit
<1>2. CASE f \in Blocking
  <2>1. Reply(f, id) = Act("rpc", <<<<"ret">>>>) \o ValOps(id)
    BY <1>2 DEF Reply, ValOps
  <2>2. ValOps(id) \in Seq(Op) BY ValIs
  <2> DEFINE v == ValOps(id)
  <2> HIDE DEF v
  <2>3. /\ Act("rpc", <<<<"ret">>>>) \o v \in Seq(Op)
        /\ Act("rpc", <<<<"ret">>>>) \o v # <<>>
        /\ Head(Act("rpc", <<<<"ret">>>>) \o v) = [do |-> "rpc", units |-> <<<<"ret">>>>]
        /\ Tail(Act("rpc", <<<<"ret">>>>) \o v) = v
    BY <1>1, <2>2, ActOps DEF v
  <2> QED BY <1>2, <2>1, <2>3 DEF v
<1>3. CASE f \notin Blocking
  <2>1. Reply(f, id) = Act("rpc", <<<<"void">>>>) BY <1>3 DEF Reply
  <2> QED BY <1>1, <1>3, <2>1, ActAlone
<1> QED BY <1>2, <1>3

LEMMA AfterTextIs ==
    ASSUME NEW f \in Fn, NEW id \in Bit
    PROVE  /\ AfterText(f, id) \in Seq(Op) /\ AfterText(f, id) # <<>>
           /\ f \in Yields => /\ Head(AfterText(f, id)) = [do |-> "yield", units |-> <<>>]
                              /\ Tail(AfterText(f, id)) = Reply(f, id)
           /\ f \notin Yields => AfterText(f, id) = Reply(f, id)
<1>1. Reply(f, id) \in Seq(Op) /\ Reply(f, id) # <<>> BY ReplyIs
<1>2. CASE f \in Yields
  <2>1. AfterText(f, id) = Act("yield", <<>>) \o Reply(f, id) BY <1>2 DEF AfterText
  <2> QED BY <1>1, <1>2, <2>1, ActOps
<1>3. CASE f \notin Yields
  <2>1. AfterText(f, id) = <<>> \o Reply(f, id) BY <1>3 DEF AfterText
  <2> QED BY <1>1, <1>3, <2>1, ConcatEmptySeq
<1> QED BY <1>2, <1>3

LEMMA TextIs ==
    ASSUME NEW f \in Fn, NEW id \in Bit, NEW m \in Nat
    PROVE  /\ TextOps(f, id, m) \in Seq(Op) /\ TextOps(f, id, m) # <<>>
           /\ Head(TextOps(f, id, m)) = [do |-> "print", units |-> Rep(Text, m)]
           /\ Tail(TextOps(f, id, m)) = AfterText(f, id)
<1>1. Rep(Text, m) \in Seq(UpUnit) BY UpUnits, RepIs
<1>2. AfterText(f, id) \in Seq(Op) BY AfterTextIs
<1> QED BY <1>1, <1>2, ActOps DEF TextOps

LEMMA AfterArgsIs ==
    ASSUME NEW f \in Fn, NEW id \in Bit
    PROVE  /\ AfterArgs(f, id) \in Seq(Op) /\ AfterArgs(f, id) # <<>>
           /\ f \in Prints =>
                /\ Head(AfterArgs(f, id)) = [do |-> "print", units |-> <<<<"print">>>>]
                /\ Tail(AfterArgs(f, id)) = TextOps(f, id, TextLen)
           /\ f \notin Prints => AfterArgs(f, id) = AfterText(f, id)
<1>1. <<<<"print">>>> \in Seq(UpUnit) BY UpUnits, OneUnit
<1>2. TextOps(f, id, TextLen) \in Seq(Op) BY TextIs, Numbers
<1>3. CASE f \in Prints BY <1>1, <1>2, <1>3, ActOps DEF AfterArgs
<1>4. CASE f \notin Prints BY <1>4, AfterTextIs DEF AfterArgs
<1> QED BY <1>3, <1>4

LEMMA AllOpsIs ==
    ASSUME NEW f \in Fn, NEW id \in Bit
    PROVE  /\ AllOps(f, id) \in Seq(Op) /\ AllOps(f, id) # <<>>
           /\ Head(AllOps(f, id)) = [do |-> "args", units |-> <<>>]
           /\ Tail(AllOps(f, id)) = AfterArgs(f, id)
BY AfterArgsIs, ActOps DEF AllOps

(* The generated code is its stages one after the other.                   *)
LEMMA CodeIs ==
    ASSUME NEW f \in Fn, NEW id \in Bit
    PROVE  Code(f, id) = AllOps(f, id)
<1> DEFINE a == Act("args", <<>>)
           p == Act("print", <<<<"print">>>>)
           t == Act("print", Rep(Text, TextLen))
           y == IF f \in Yields THEN Act("yield", <<>>) ELSE <<>>
           r == Reply(f, id)
<1>1. a \in Seq(Op) BY EmptySeq, ActAlone
<1>2. <<<<"print">>>> \in Seq(UpUnit) /\ Rep(Text, TextLen) \in Seq(UpUnit)
  BY UpUnits, OneUnit, RepIs, Numbers
<1>3. p \in Seq(Op) /\ t \in Seq(Op) BY <1>2, ActAlone
<1>4. y \in Seq(Op)
  <2>1. Act("yield", <<>>) \in Seq(Op) BY ActAlone
  <2> QED BY <2>1, EmptySeq
<1>5. r \in Seq(Op) BY ReplyIs
<1>6. AfterText(f, id) = y \o r BY DEF AfterText
<1>7. Code(f, id) = ((a \o (IF f \in Prints THEN p \o t ELSE <<>>)) \o y) \o r
  BY DEF Code, Text
<1>8. AllOps(f, id) = a \o (IF f \in Prints THEN p \o (t \o (y \o r)) ELSE y \o r)
  BY <1>6 DEF AllOps, AfterArgs, TextOps
<1> HIDE DEF a, p, t, y, r
<1> DEFINE e == y \o r
           u == p \o t
<1>9. e \in Seq(Op) /\ u \in Seq(Op)
  BY <1>3, <1>4, <1>5, ConcatProperties
<1>10. CASE f \in Prints
  <2>1. u \o e = p \o (t \o e)
    <3> HIDE DEF e
    <3> QED BY <1>3, <1>9, ConcatAssociative DEF u
  <2>2. ((a \o u) \o y) \o r = (a \o u) \o e
    <3> HIDE DEF u
    <3>1. a \o u \in Seq(Op) BY <1>1, <1>9, ConcatProperties
    <3> DEFINE w == a \o u
    <3> HIDE DEF w
    <3>2. w \in Seq(Op) BY <3>1 DEF w
    <3>3. (w \o y) \o r = w \o (y \o r) BY <3>2, <1>4, <1>5, ConcatAssociative
    <3> QED BY <3>3 DEF w
  <2>3. (a \o u) \o e = a \o (u \o e)
    <3> HIDE DEF u, e
    <3> QED BY <1>1, <1>9, ConcatAssociative
  <2>4. Code(f, id) = ((a \o u) \o y) \o r BY <1>7, <1>10
  <2>5. AllOps(f, id) = a \o (p \o (t \o e)) BY <1>8, <1>10
  <2> HIDE DEF u, e
  <2> QED BY <2>1, <2>2, <2>3, <2>4, <2>5
<1>11. CASE f \notin Prints
  <2>1. a \o <<>> = a BY <1>1, ConcatEmptySeq
  <2>2. (a \o y) \o r = a \o (y \o r) BY <1>1, <1>4, <1>5, ConcatAssociative
  <2> QED BY <1>7, <1>8, <1>11, <2>1, <2>2
<1> QED BY <1>10, <1>11

(* A void function does not depend on the call.                            *)
LEMMA VoidCode ==
    ASSUME NEW f \in Fn \ Blocking, NEW id \in Bit
    PROVE  Code(f, id) = AllOps(f, 0)
<1>1. Reply(f, id) = Reply(f, 0) BY DEF Reply
<1>2. AllOps(f, id) = AllOps(f, 0)
  BY <1>1 DEF AllOps, AfterArgs, TextOps, AfterText
<1> QED BY <1>2, CodeIs
-----------------------------------------------------------------------------
LEMMA TextLength == ASSUME NEW m \in 1 .. TextLen PROVE m \in Nat /\ m >= 1 /\ m <= TextLen
BY Numbers

LEMMA TextStage ==
    ASSUME NEW f \in Fn, NEW id \in Bit, NEW m \in 1 .. TextLen
    PROVE  /\ TextOps(f, id, m) \in Seq(Op) /\ TextOps(f, id, m) # <<>>
           /\ Head(TextOps(f, id, m)).units = Rep(Text, m)
           /\ Head(TextOps(f, id, m)).do = "print"
           /\ Tail(TextOps(f, id, m)) = AfterText(f, id)
           /\ \A what \in {"args", "yield", "rpc"} : ~Does(TextOps(f, id, m), what)
<1>1. m \in Nat BY TextLength
<1>2. /\ TextOps(f, id, m) \in Seq(Op) /\ TextOps(f, id, m) # <<>>
      /\ Head(TextOps(f, id, m)) = [do |-> "print", units |-> Rep(Text, m)]
      /\ Tail(TextOps(f, id, m)) = AfterText(f, id)
  BY <1>1, TextIs
<1> QED BY <1>2 DEF Does
-----------------------------------------------------------------------------
(* The types, for any functions and channels, those included that take     *)
(* units for something they are not.                                       *)
LEMMA UnitTypes ==
    ASSUME NEW f \in Fn
    PROVE  <<"header", f>> \in Unit /\ <<"arg", f>> \in Unit
BY DEF Unit

LEMMA MessageIs ==
    ASSUME NEW f \in Fn
    PROVE  /\ Message(f) \in Seq(Unit) /\ Len(Message(f)) = Args[f] + 1
           /\ Message(f)[1] = <<"header", f>>
           /\ \A i \in 2 .. Args[f] + 1 : Message(f)[i] = <<"arg", f>>
<1> DEFINE p == Rep(<<"arg", f>>, Args[f])
<1>1. <<"header", f>> \in Unit /\ <<"arg", f>> \in Unit /\ Args[f] \in Nat
  BY UnitTypes, Numbers
<1>2. /\ p \in Seq(Unit) /\ Len(p) = Args[f]
      /\ \A i \in 1 .. Args[f] : p[i] = <<"arg", f>>
  BY <1>1, RepIs
<1> HIDE DEF p
<1>3. /\ <<<<"header", f>>>> \o p \in Seq(Unit)
      /\ Len(<<<<"header", f>>>> \o p) = Args[f] + 1
      /\ (<<<<"header", f>>>> \o p)[1] = <<"header", f>>
      /\ \A i \in 2 .. Args[f] + 1 : (<<<<"header", f>>>> \o p)[i] = p[i - 1]
  BY <1>1, <1>2, Push
<1>4. \A i \in 2 .. Args[f] + 1 : i - 1 \in 1 .. Args[f] BY <1>1
<1> QED BY <1>2, <1>3, <1>4 DEF Message, p

Frame == [fn : Fn, ops : Seq(Op), room : -1..UpSize]

Typed ==
    /\ down \in Seq(Unit) /\ Len(down) <= DownSize
    /\ up \in Seq(UpUnit) /\ Len(up) <= UpSize
    /\ frames \in Seq(Frame)
    /\ client \in [at : {"program", "command", "text", "value"}, id : Bit,
                   need : 0..TextLen]
    /\ client.at = "text" => client.need >= 1
    /\ lost \in BOOLEAN

LEMMA PushFrame ==
    ASSUME NEW t \in Frame, NEW s \in Seq(Frame)
    PROVE  /\ <<t>> \o s \in Seq(Frame) /\ <<t>> \o s # <<>>
           /\ (<<t>> \o s)[1] = t /\ Tail(<<t>> \o s) = s
BY Push

LEMMA Written ==
    ASSUME NEW q \in Seq(UpUnit), NEW u \in Seq(UpUnit), NEW p, p = q \o u
    PROVE  p \in Seq(UpUnit) /\ Len(p) = Len(q) + Len(u)
BY ConcatProperties
LEMMA TypedTop ==
    ASSUME Typed, frames # <<>>
    PROVE  /\ Top \in Frame /\ Below \in Seq(Frame)
           /\ Top.fn \in Fn /\ Top.ops \in Seq(Op) /\ Top.room \in -1..UpSize
<1>1. frames \in Seq(Frame) BY DEF Typed
<1>2. Len(frames) \in Nat \ {0} BY <1>1, EmptySeq
<1>3. 1 \in 1 .. Len(frames) BY <1>2
<1>4. frames[1] \in Frame BY <1>1, <1>3, ElementOfSeq
<1>5. Tail(frames) \in Seq(Frame) BY <1>1, HeadTailProperties
<1> QED BY <1>4, <1>5 DEF Top, Below, Frame

(* The innermost frame with other operations, or another room.             *)
LEMMA TypedRetop ==
    ASSUME Typed, frames # <<>>, NEW o \in Seq(Op), NEW m \in -1..UpSize
    PROVE  /\ <<[Top EXCEPT !.ops = o, !.room = m]>> \o Below \in Seq(Frame)
           /\ <<[Top EXCEPT !.room = m]>> \o Below \in Seq(Frame)
<1>1. Top \in Frame /\ Below \in Seq(Frame) BY TypedTop
<1>2. [Top EXCEPT !.ops = o, !.room = m] \in Frame BY <1>1 DEF Frame
<1>3. [Top EXCEPT !.room = m] \in Frame BY <1>1 DEF Frame
<1> QED BY <1>1, <1>2, <1>3, PushFrame

LEMMA TypedOpDone ==
    ASSUME Typed, frames # <<>>, Top.ops # <<>>
    PROVE  OpDone \in Seq(Frame) /\ Head(Top.ops) \in Op /\ Tail(Top.ops) \in Seq(Op)
<1>1. Top \in Frame /\ Top.ops \in Seq(Op) BY TypedTop
<1>2. Tail(Top.ops) \in Seq(Op) /\ Head(Top.ops) \in Op BY <1>1, HeadTailProperties
<1>3. -1 \in -1..UpSize BY Numbers
<1>4. OpDone = <<[Top EXCEPT !.ops = Tail(Top.ops), !.room = -1]>> \o Below
  BY <1>1 DEF OpDone, Frame
<1> QED BY <1>2, <1>3, <1>4, TypedRetop

LEMMA TypedRoom ==
    ASSUME Typed PROVE Room \in 0..UpSize /\ Len(up) \in Nat /\ Room = UpSize - Len(up)
<1>1. Len(up) \in Nat /\ Len(up) <= UpSize BY LenProperties DEF Typed
<1> QED BY <1>1, Numbers DEF Room

LEMMA TypedEvents ==
    ASSUME Typed, NEW s \in Seq(Frame), HandleEvents(s), UNCHANGED <<up, client>>
    PROVE  Typed'
<1>1. down \in Seq(Unit) /\ Len(down) \in Nat /\ client.id \in Bit /\ Len(down) <= DownSize
  BY LenProperties DEF Typed
<1>2. CASE CommandThere
  <2>1. down # <<>> BY <1>1, <1>2, EmptySeq DEF CommandThere
  <2>2. /\ Tail(down) \in Seq(Unit) /\ Len(Tail(down)) = Len(down) - 1
        /\ Head(down) \in Unit
    BY <1>1, <2>1, HeadTailProperties
  <2>3. down' = Tail(down) /\ Len(down') <= DownSize
    BY <1>1, <1>2, <2>2, Numbers DEF HandleEvents
  <2>4. frames' \in Seq(Frame) /\ lost' \in BOOLEAN
    <3>1. CASE Head(down)[1] = "header"
      <4>1. Head(down)[2] \in Fn BY <2>2, <3>1 DEF Unit
      <4>2. PICK f \in Fn : f = Head(down)[2] BY <4>1
      <4>3. Code(f, client.id) \in Seq(Op) BY <1>1, CodeIs, AllOpsIs
      <4>4. -1 \in -1..UpSize BY Numbers
      <4> DEFINE t == [fn |-> f, ops |-> Code(f, client.id), room |-> -1]
      <4>5. t \in Frame BY <4>3, <4>4 DEF Frame
      <4>6. frames' = <<t>> \o s /\ UNCHANGED lost BY <1>2, <3>1, <4>2 DEF HandleEvents
      <4> HIDE DEF t
      <4>7. lost' \in BOOLEAN BY <4>6 DEF Typed
      <4> QED BY <4>5, <4>6, <4>7, PushFrame
    <3>2. CASE Head(down)[1] # "header" BY <1>2, <3>2 DEF HandleEvents
    <3> QED BY <3>1, <3>2
  <2> QED BY <2>2, <2>3, <2>4 DEF Typed
<1>3. CASE ~CommandThere BY <1>3 DEF HandleEvents, Typed
<1> QED BY <1>2, <1>3

(* A write pointer that has come round leaves less than was there.         *)
LEMMA RingIs ==
    ASSUME NEW q \in Seq(UpUnit), NEW u \in Seq(UpUnit), Len(q) <= UpSize, Len(u) <= UpSize
    PROVE  Ring(q \o u) \in Seq(UpUnit) /\ Len(Ring(q \o u)) <= UpSize
<1> DEFINE p == q \o u
<1>1. /\ p \in Seq(UpUnit) /\ Len(p) = Len(q) + Len(u) /\ Len(q) \in Nat /\ Len(u) \in Nat
      /\ UpSize \in Nat
  BY Written, LenProperties, Numbers
<1> HIDE DEF p
<1>2. CASE Len(p) <= UpSize BY <1>1, <1>2 DEF Ring, p
<1>3. CASE Len(p) > UpSize
  <2>1. Ring(p) = SubSeq(p, (UpSize + 1) + 1, Len(p)) BY <1>1, <1>3 DEF Ring
  <2>2. UpSize + 1 \in 0 .. Len(p) BY <1>1, <1>3
  <2>3. Ring(p) \in Seq(UpUnit) /\ Len(Ring(p)) = Len(p) - (UpSize + 1)
    BY <1>1, <2>1, <2>2, DropIs
  <2>4. Len(Ring(p)) <= UpSize BY <1>1, <2>3
  <2> QED BY <2>3, <2>4 DEF p
<1> QED BY <1>1, <1>2, <1>3

LEMMA TypedPrint == ASSUME Typed, PrintUnits PROVE Typed'
<1> DEFINE u == Head(Top.ops).units
           room == IF Top.room = -1 THEN Room ELSE Top.room
           n == IF Len(u) < room THEN Len(u) ELSE room
           rest == SubSeq(u, n + 1, Len(u))
           w == SubSeq(u, 1, n)
           o == Act("print", rest) \o Tail(Top.ops)
<1>1. /\ frames # <<>> /\ Top.ops # <<>> /\ Head(Top.ops).do = "print"
      /\ room > 0 /\ up' = Ring(up \o w)
      /\ frames' = IF rest = <<>> THEN OpDone
                   ELSE <<[Top EXCEPT !.ops = Act("print", rest) \o Tail(@),
                                      !.room = -1]>> \o Below
      /\ UNCHANGED <<down, client, lost>>
  BY DEF PrintUnits, Doing
<1>2. /\ Top \in Frame /\ Top.room \in -1..UpSize /\ OpDone \in Seq(Frame)
      /\ Head(Top.ops) \in Op /\ Tail(Top.ops) \in Seq(Op)
  BY <1>1, TypedTop, TypedOpDone
<1>3. u \in Seq(UpUnit) /\ Len(u) \in Nat
  <2>1. u \in Seq(UpUnit) BY <1>1, <1>2 DEF Op
  <2> QED BY <2>1, LenProperties
<1>4. room \in 1..UpSize BY <1>1, <1>2, TypedRoom, Numbers
<1> HIDE DEF u, room
<1>5. n \in 0 .. Len(u) /\ n <= UpSize BY <1>3, <1>4, Numbers
<1> HIDE DEF n
<1>6. w \in Seq(UpUnit) /\ Len(w) <= UpSize /\ rest \in Seq(UpUnit)
  BY <1>3, <1>5, TakeIs, DropIs
<1> HIDE DEF w, rest
<1>7. up' \in Seq(UpUnit) /\ Len(up') <= UpSize BY <1>1, <1>6, RingIs DEF Typed
<1>8. frames' \in Seq(Frame)
  <2>1. o \in Seq(Op) BY <1>2, <1>6, ActOps
  <2>2. -1 \in -1..UpSize BY Numbers
  <2>3. rest # <<>> => frames' = <<[Top EXCEPT !.ops = o, !.room = -1]>> \o Below
    BY <1>1, <1>2 DEF Frame
  <2> HIDE DEF o
  <2> QED BY <1>1, <1>2, <2>1, <2>2, <2>3, TypedRetop
<1> QED BY <1>1, <1>7, <1>8 DEF Typed

LEMMA TypedCall == ASSUME Typed, NEW f \in Fn, Call(f) PROVE Typed'
<1> DEFINE m == Message(f)
           z == DownSize - Len(down)
           n == IF Len(m) < z THEN Len(m) ELSE z
           w == SubSeq(m, 1, n)
<1>1. /\ client.at = "program" /\ down' = down \o Fitting(m)
      /\ client' = IF f \in Blocking
                   THEN [client EXCEPT !.at = "command", !.id = 1 - @]
                   ELSE client
      /\ UNCHANGED <<up, frames, lost>>
  BY DEF Call, Message
<1>2. /\ m \in Seq(Unit) /\ Len(m) \in Nat /\ down \in Seq(Unit) /\ Len(down) \in Nat
      /\ z \in Nat /\ DownSize \in Nat /\ z = DownSize - Len(down)
  BY MessageIs, LenProperties, Numbers DEF Typed
<1>3. Fitting(m) = w BY DEF Fitting, Space
<1> HIDE DEF m, z
<1>4. n \in 0 .. Len(m) /\ n <= z BY <1>2
<1> HIDE DEF n
<1>5. w \in Seq(Unit) /\ Len(w) = n BY <1>2, <1>4, TakeIs
<1> HIDE DEF w
<1>6. down \o w \in Seq(Unit) /\ Len(down \o w) = Len(down) + Len(w)
  BY <1>2, <1>5, ConcatProperties
<1>7. down' \in Seq(Unit) /\ Len(down') <= DownSize BY <1>1, <1>2, <1>3, <1>4, <1>5, <1>6
<1>8. /\ client' \in [at : {"program", "command", "text", "value"}, id : Bit,
                      need : 0..TextLen]
      /\ client'.at # "text"
  <2>1. client \in [at : {"program", "command", "text", "value"}, id : Bit,
                    need : 0..TextLen]
    BY DEF Typed
  <2>2. 1 - client.id \in Bit BY <2>1 DEF Bit
  <2>3. CASE f \in Blocking
    <3>1. client' = [client EXCEPT !.at = "command", !.id = 1 - client.id]
      BY <1>1, <2>1, <2>3
    <3> QED BY <2>1, <2>2, <3>1
  <2>4. CASE f \notin Blocking BY <1>1, <2>1, <2>4
  <2> QED BY <2>3, <2>4
<1> QED BY <1>1, <1>7, <1>8 DEF Typed

LEMMA TypedExpect ==
    ASSUME Typed, NEW at, NEW good, Expect(at, good)
    PROVE  /\ down' = down /\ frames' = frames /\ lost' \in BOOLEAN /\ client.at = at
           /\ up' \in Seq(UpUnit) /\ Len(up') <= UpSize
<1>1. up \in Seq(UpUnit) /\ Len(up) <= UpSize /\ Len(up) \in Nat BY LenProperties DEF Typed
<1>2. up # <<>> /\ up' = Tail(up) BY DEF Expect
<1>3. up' \in Seq(UpUnit) /\ Len(up') = Len(up) - 1 BY <1>1, <1>2, HeadTailProperties
<1>4. Len(up') <= UpSize BY <1>1, <1>3, Numbers
<1> QED BY <1>3, <1>4 DEF Expect

LEMMA InitTyped == ASSUME Init PROVE Typed
<1>1. /\ down = <<>> /\ up = <<>> /\ frames = <<>> /\ lost = FALSE
      /\ client = [at |-> "program", id |-> 0, need |-> 0]
  BY DEF Init
<1>2. client \in [at : {"program", "command", "text", "value"}, id : Bit,
                  need : 0..TextLen]
  BY <1>1, Numbers DEF Bit
<1>3. client.at # "text" BY <1>1
<1>4. /\ down \in Seq(Unit) /\ up \in Seq(UpUnit) /\ frames \in Seq(Frame)
      /\ Len(down) = 0 /\ Len(up) = 0
  BY <1>1
<1>5. Len(down) <= DownSize /\ Len(up) <= UpSize BY <1>4, Numbers
<1>6. lost \in BOOLEAN BY <1>1
<1> QED BY <1>2, <1>3, <1>4, <1>5, <1>6 DEF Typed

LEMMA NextTyped == ASSUME Typed, [Next]_vars PROVE Typed'
<1>1. CASE Poll
  <2>1. <<>> \in Seq(Frame) OBVIOUS
  <2> QED BY <1>1, <2>1, TypedEvents DEF Poll
<1>2. CASE Return
  <2>1. Below \in Seq(Frame) BY <1>2, TypedTop DEF Return
  <2> QED BY <1>2, <2>1 DEF Return, Typed
<1>3. CASE ReadArgs
  <2> DEFINE n == Args[Top.fn]
  <2>1. /\ frames # <<>> /\ Top.ops # <<>> /\ Len(down) >= n
        /\ down' = SubSeq(down, n + 1, Len(down)) /\ lost' \in BOOLEAN
        /\ frames' = OpDone /\ UNCHANGED <<up, client>>
    BY <1>3 DEF ReadArgs, Doing, ArgsThere
  <2>2. n \in Nat /\ OpDone \in Seq(Frame) BY <2>1, TypedTop, TypedOpDone, Numbers
  <2>3. down \in Seq(Unit) /\ Len(down) \in Nat /\ Len(down) <= DownSize
    BY LenProperties DEF Typed
  <2> HIDE DEF n
  <2>4. n \in 0 .. Len(down) BY <2>1, <2>2, <2>3
  <2>5. down' \in Seq(Unit) /\ Len(down') = Len(down) - n BY <2>1, <2>3, <2>4, DropIs
  <2>6. Len(down') <= DownSize BY <2>2, <2>3, <2>5, Numbers
  <2> QED BY <2>1, <2>2, <2>5, <2>6 DEF Typed
<1>4. CASE Yield
  <2>1. frames # <<>> /\ Top.ops # <<>> /\ HandleEvents(OpDone) /\ UNCHANGED <<up, client>>
    BY <1>4 DEF Yield, Doing
  <2> QED BY <2>1, TypedOpDone, TypedEvents
<1>5. CASE RpcWrite
  <2> DEFINE u == Head(Top.ops).units
  <2>1. /\ frames # <<>> /\ Top.ops # <<>> /\ Head(Top.ops).do = "rpc"
        /\ Len(up) + Len(u) <= UpSize /\ up' = up \o u
        /\ frames' = OpDone /\ UNCHANGED <<down, client, lost>>
    BY <1>5 DEF RpcWrite, Doing, Fits
  <2>2. OpDone \in Seq(Frame) /\ Head(Top.ops) \in Op BY <2>1, TypedOpDone
  <2>3. u \in Seq(UpUnit) BY <2>1, <2>2 DEF Op
  <2> HIDE DEF u
  <2>4. up' \in Seq(UpUnit) /\ Len(up') = Len(up) + Len(u) BY <2>1, <2>3, Written DEF Typed
  <2> QED BY <2>1, <2>2, <2>4 DEF Typed
<1>6. CASE PrintUnits BY <1>6, TypedPrint
<1>7. CASE PrintFull
  <2>1. /\ frames # <<>> /\ frames' = <<[Top EXCEPT !.room = 0]>> \o Below
        /\ UNCHANGED <<down, up, client, lost>>
    BY <1>7 DEF PrintFull, Doing
  <2>2. 0 \in -1..UpSize /\ Top.ops \in Seq(Op) BY <2>1, TypedTop, Numbers
  <2>3. frames' \in Seq(Frame) BY <2>1, <2>2, TypedRetop
  <2> QED BY <2>1, <2>3 DEF Typed
<1>8. CASE PrintSpin
  <2> DEFINE p == <<[Top EXCEPT !.room = Room]>> \o Below
  <2>1. frames # <<>> /\ HandleEvents(p) /\ UNCHANGED <<up, client>>
    BY <1>8 DEF PrintSpin, Doing
  <2>2. Room \in -1..UpSize /\ Top.ops \in Seq(Op) BY <2>1, TypedTop, TypedRoom, Numbers
  <2>3. p \in Seq(Frame) BY <2>1, <2>2, TypedRetop
  <2> HIDE DEF p
  <2> QED BY <2>1, <2>3, TypedEvents
<1>9. ASSUME NEW f \in Fn, Call(f) PROVE Typed' BY <1>9, TypedCall
<1>10. client \in [at : {"program", "command", "text", "value"}, id : Bit,
                   need : 0..TextLen]
       /\ (client.at = "text" => client.need >= 1)
  BY DEF Typed
<1>11. CASE ReadCommand
  <2>1. /\ down' = down /\ frames' = frames /\ lost' \in BOOLEAN /\ client.at = "command"
        /\ up' \in Seq(UpUnit) /\ Len(up') <= UpSize
    BY <1>11, TypedExpect DEF ReadCommand
  <2>2. \/ client' = [client EXCEPT !.at = "value"]
        \/ client' = [client EXCEPT !.at = "text", !.need = TextLen]
        \/ client' = client
    BY <1>11 DEF ReadCommand
  <2>3. TextLen \in 0..TextLen /\ TextLen >= 1 BY Numbers
  <2>4. client' \in [at : {"program", "command", "text", "value"}, id : Bit,
                     need : 0..TextLen]
        /\ (client'.at = "text" => client'.need >= 1)
    BY <1>10, <2>1, <2>2, <2>3
  <2> QED BY <2>1, <2>4 DEF Typed
<1>12. CASE ReadText
  <2>1. /\ down' = down /\ frames' = frames /\ lost' \in BOOLEAN /\ client.at = "text"
        /\ up' \in Seq(UpUnit) /\ Len(up') <= UpSize
    BY <1>12, TypedExpect DEF ReadText
  <2>2. client' = IF client.need = 1 THEN [client EXCEPT !.at = "command", !.need = 0]
                                     ELSE [client EXCEPT !.need = client.need - 1]
    BY <1>10, <1>12 DEF ReadText
  <2>3. /\ client.need \in Nat /\ client.need >= 1 /\ client.need <= TextLen
        /\ TextLen \in Nat /\ 0 \in 0..TextLen
    BY <1>10, <2>1, Numbers
  <2>4. client.need # 1 => client.need - 1 \in 0..TextLen /\ client.need - 1 >= 1
    BY <2>3
  <2>5. client' \in [at : {"program", "command", "text", "value"}, id : Bit,
                     need : 0..TextLen]
        /\ (client'.at = "text" => client'.need >= 1)
    <3>1. CASE client.need = 1 BY <1>10, <2>2, <2>3, <3>1
    <3>2. CASE client.need # 1 BY <1>10, <2>2, <2>4, <3>2
    <3> QED BY <3>1, <3>2
  <2> QED BY <2>1, <2>5 DEF Typed
<1>13. CASE ReadValue
  <2>1. /\ down' = down /\ frames' = frames /\ lost' \in BOOLEAN
        /\ up' \in Seq(UpUnit) /\ Len(up') <= UpSize
    BY <1>13, TypedExpect DEF ReadValue
  <2>2. client' = [client EXCEPT !.at = "program"] BY <1>13 DEF ReadValue
  <2> QED BY <1>10, <2>1, <2>2 DEF Typed
<1>14. CASE UNCHANGED vars BY <1>14 DEF vars, Typed
<1> QED
  BY <1>1, <1>2, <1>3, <1>4, <1>5, <1>6, <1>7, <1>8, <1>9, <1>11, <1>12, <1>13, <1>14
  DEF Next, Server

(* The state always has its type, whatever the functions do.               *)
THEOREM TypeCorrect == Spec => []TypeOK
<1>1. Init => Typed BY InitTyped
<1>2. Typed /\ [Next]_vars => Typed' BY NextTyped
<1> DEFINE Mixed == mixed \subseteq {"cut", "served"}
<1>3. Init => Mixed BY DEF Init
<1>4. Mixed /\ [Next]_vars => Mixed'
  BY DEF Next, Server, vars, Poll, Return, ReadArgs, Yield, RpcWrite, PrintUnits, PrintFull,
         PrintSpin, Call, Expect, ReadCommand, ReadText, ReadValue
<1>5. Typed /\ Mixed => TypeOK
  <2> SUFFICES ASSUME Typed, Mixed PROVE TypeOK OBVIOUS
  <2>1. \A i \in 1..Len(frames) : frames[i] \in Frame BY ElementOfSeq DEF Typed
  <2>2. \A i \in 1..Len(frames) :
          /\ frames[i].fn \in Fn /\ frames[i].ops \in Seq(Op)
          /\ frames[i].room \in -1..UpSize
    BY <2>1 DEF Frame
  <2> QED BY <2>2 DEF Typed, TypeOK
<1> HIDE DEF Mixed
<1> QED BY <1>1, <1>2, <1>3, <1>4, <1>5, PTL DEF Spec
-----------------------------------------------------------------------------
(* A reader of up: 0 expects a command byte, n > 0 has n units of a text   *)
(* to come, -1 the value; -2 has the reply of the blocking call behind it. *)
States == -2..TextLen
Steps(s, u, t, id) ==
    \/ s = 0 /\ u = <<"void">> /\ t = 0
    \/ s = 0 /\ u = <<"print">> /\ t = TextLen
    \/ s = 0 /\ u = <<"ret">> /\ t = -1
    \/ s > 0 /\ u = Text /\ t = s - 1
    \/ s = -1 /\ u = <<"val", id>> /\ t = -2
    \/ s = -2 /\ u = <<"void">> /\ t = -2

(* g is the state before each unit of q, and after the last.               *)
Trace(g, q, id) ==
    /\ \A i \in 1 .. Len(q) : Steps(g[i], q[i], g[i + 1], id)
    /\ \A i \in 1 .. Len(q) + 1 : \A j \in i .. Len(q) + 1 :
         (g[i] < 0 => g[j] < 0) /\ (g[i] = -2 => g[j] = -2)
Parsed(q, s, t, id) ==
    \E g \in [1 .. Len(q) + 1 -> States] :
        Trace(g, q, id) /\ g[1] = s /\ g[Len(q) + 1] = t

LEMMA StatesAre == States \subseteq Int /\ {-2, -1, 0, TextLen} \subseteq States
BY Numbers DEF States

LEMMA ParsedNone ==
    ASSUME NEW s \in States, NEW id PROVE Parsed(<<>>, s, s, id)
<1> DEFINE g == [i \in 1 .. 1 |-> s]
<1>1. Len(<<>>) = 0 OBVIOUS
<1>2. g \in [1 .. 0 + 1 -> States] /\ g[1] = s /\ g[0 + 1] = s OBVIOUS
<1>3. s \in Int BY StatesAre
<1>4. \A i \in 1 .. 0 + 1 : g[i] = s OBVIOUS
<1> HIDE DEF g
<1>5. \A i \in 1 .. 0 + 1 : \A j \in i .. 0 + 1 :
         (g[i] < 0 => g[j] < 0) /\ (g[i] = -2 => g[j] = -2)
  BY <1>3, <1>4
<1> QED BY <1>1, <1>2, <1>5 DEF Parsed, Trace

LEMMA ParsedUnit ==
    ASSUME NEW u, NEW s \in States, NEW t \in States, NEW id, Steps(s, u, t, id)
    PROVE  Parsed(<<u>>, s, t, id)
<1> DEFINE g == [i \in 1 .. 2 |-> IF i = 1 THEN s ELSE t]
<1>1. Len(<<u>>) = 1 /\ <<u>>[1] = u OBVIOUS
<1>2. g \in [1 .. 1 + 1 -> States] /\ g[1] = s /\ g[1 + 1] = t OBVIOUS
<1>3. s \in Int /\ t \in Int BY StatesAre
<1>4. (s < 0 => t < 0) /\ (s = -2 => t = -2) BY <1>3, Numbers DEF Steps
<1> HIDE DEF g
<1>5. \A i \in 1 .. 1 + 1 : \A j \in i .. 1 + 1 :
         (g[i] < 0 => g[j] < 0) /\ (g[i] = -2 => g[j] = -2)
  <2> SUFFICES ASSUME NEW i \in 1 .. 1 + 1, NEW j \in i .. 1 + 1
               PROVE  (g[i] < 0 => g[j] < 0) /\ (g[i] = -2 => g[j] = -2)
    OBVIOUS
  <2>1. (i = 1 /\ j = 1) \/ (i = 1 /\ j = 1 + 1) \/ (i = 1 + 1 /\ j = 1 + 1) OBVIOUS
  <2> QED BY <1>2, <1>3, <1>4, <2>1
<1>6. \A i \in 1 .. 1 : Steps(g[i], <<u>>[i], g[i + 1], id)
  <2>1. \A i \in 1 .. 1 : i = 1 OBVIOUS
  <2> QED BY <1>1, <1>2, <2>1
<1>7. Trace(g, <<u>>, id) BY <1>1, <1>5, <1>6 DEF Trace
<1> QED BY <1>1, <1>2, <1>7 DEF Parsed

LEMMA ParsedText ==
    ASSUME NEW n \in Nat, NEW w, Len(w) = n, \A i \in 1 .. n : w[i] = Text,
           NEW m \in n .. TextLen, NEW id
    PROVE  Parsed(w, m, m - n, id) /\ m - n \in States
<1> DEFINE g == [i \in 1 .. n + 1 |-> m - i + 1]
<1>1. m \in Nat /\ n <= m /\ m <= TextLen /\ TextLen \in Nat BY Numbers
<1>2. \A i \in 1 .. n + 1 : m - i + 1 \in States /\ m - i + 1 >= 0 BY <1>1 DEF States
<1>3. g \in [1 .. n + 1 -> States] BY <1>2
<1>4. \A i \in 1 .. n + 1 : g[i] = m - i + 1 /\ g[i] >= 0 BY <1>2
<1>5. g[1] = m /\ g[n + 1] = m - n BY <1>1
<1> HIDE DEF g
<1>6. \A i \in 1 .. n : Steps(g[i], w[i], g[i + 1], id)
  <2> SUFFICES ASSUME NEW i \in 1 .. n PROVE Steps(g[i], w[i], g[i + 1], id) OBVIOUS
  <2>1. g[i] = m - i + 1 /\ g[i + 1] = m - (i + 1) + 1 BY <1>4
  <2>2. g[i] > 0 /\ g[i + 1] = g[i] - 1 BY <1>1, <2>1
  <2> QED BY <2>2 DEF Steps
<1>7. \A i \in 1 .. n + 1 : \A j \in i .. n + 1 :
         (g[i] < 0 => g[j] < 0) /\ (g[i] = -2 => g[j] = -2)
  <2> SUFFICES ASSUME NEW i \in 1 .. n + 1 PROVE ~(g[i] < 0) /\ g[i] # -2 OBVIOUS
  <2>1. m - i + 1 \in Int /\ g[i] = m - i + 1 /\ g[i] >= 0 BY <1>1, <1>4
  <2> QED BY <2>1
<1>8. Trace(g, w, id) BY <1>6, <1>7 DEF Trace
<1>9. Parsed(w, m, m - n, id) BY <1>3, <1>5, <1>8 DEF Parsed
<1>10. m - n \in States BY <1>1 DEF States
<1> QED BY <1>9, <1>10

LEMMA ParsedJoin ==
    ASSUME NEW q \in Seq(UpUnit), NEW v \in Seq(UpUnit), NEW s, NEW r, NEW t, NEW id,
           Parsed(q, s, r, id), Parsed(v, r, t, id)
    PROVE  Parsed(q \o v, s, t, id)
<1> DEFINE p == q \o v
           l == Len(q)
           m == Len(v)
<1>1. /\ l \in Nat /\ m \in Nat /\ Len(p) = l + m
      /\ \A i \in 1 .. l + m : p[i] = IF i <= l THEN q[i] ELSE v[i - l]
  BY ConcatProperties, LenProperties
<1>2. PICK a \in [1 .. l + 1 -> States] : Trace(a, q, id) /\ a[1] = s /\ a[l + 1] = r
  BY DEF Parsed
<1>3. PICK b \in [1 .. m + 1 -> States] : Trace(b, v, id) /\ b[1] = r /\ b[m + 1] = t
  BY DEF Parsed
<1>4. /\ \A i \in 1 .. l : Steps(a[i], q[i], a[i + 1], id)
      /\ \A i \in 1 .. l + 1 : \A j \in i .. l + 1 :
           (a[i] < 0 => a[j] < 0) /\ (a[i] = -2 => a[j] = -2)
  BY <1>2 DEF Trace
<1>5. /\ \A i \in 1 .. m : Steps(b[i], v[i], b[i + 1], id)
      /\ \A i \in 1 .. m + 1 : \A j \in i .. m + 1 :
           (b[i] < 0 => b[j] < 0) /\ (b[i] = -2 => b[j] = -2)
  BY <1>3 DEF Trace
<1> HIDE DEF p, l, m
<1> DEFINE g == [i \in 1 .. l + m + 1 |-> IF i <= l THEN a[i] ELSE b[i - l]]
<1>6. /\ \A i \in 1 .. l + 1 : g[i] = a[i]
      /\ \A i \in l + 1 .. l + m + 1 : g[i] = b[i - l]
  <2>1. \A i \in 1 .. l + m + 1 : g[i] = IF i <= l THEN a[i] ELSE b[i - l] OBVIOUS
  <2>2. (l + 1) - l = 1 /\ ~(l + 1 <= l) /\ l + 1 \in 1 .. l + m + 1 BY <1>1
  <2>3. g[l + 1] = b[1] BY <2>1, <2>2
  <2> HIDE DEF g
  <2>4. \A i \in 1 .. l + 1 : i \in 1 .. l + m + 1 /\ (i <= l \/ i = l + 1) BY <1>1
  <2>5. \A i \in l + 1 .. l + m + 1 : i \in 1 .. l + m + 1 /\ ~(i <= l) BY <1>1
  <2> QED BY <1>2, <1>3, <2>1, <2>3, <2>4, <2>5
<1>7. g \in [1 .. (l + m) + 1 -> States]
  <2>1. \A i \in 1 .. l + m + 1 : i <= l => i \in 1 .. l + 1 BY <1>1
  <2>2. \A i \in 1 .. l + m + 1 : ~(i <= l) => i - l \in 1 .. m + 1 BY <1>1
  <2>3. \A i \in 1 .. l + m + 1 : (IF i <= l THEN a[i] ELSE b[i - l]) \in States
    BY <2>1, <2>2
  <2> QED BY <1>1, <2>3
<1>8. g[1] = s /\ g[(l + m) + 1] = t
  <2>1. 1 \in 1 .. l + 1 /\ (l + m) + 1 \in l + 1 .. l + m + 1 /\ ((l + m) + 1) - l = m + 1
    BY <1>1
  <2> HIDE DEF g
  <2> QED BY <1>2, <1>3, <1>6, <2>1
<1> HIDE DEF g
<1>9. ASSUME NEW i \in 1 .. l + m PROVE Steps(g[i], p[i], g[i + 1], id)
  <2>1. CASE i <= l
    <3>1. i \in 1 .. l /\ i \in 1 .. l + 1 /\ i + 1 \in 1 .. l + 1 BY <1>1, <2>1
    <3> QED BY <1>1, <1>4, <1>6, <2>1, <3>1
  <2>2. CASE ~(i <= l)
    <3>1. /\ i - l \in 1 .. m /\ i \in l + 1 .. l + m + 1 /\ i + 1 \in l + 1 .. l + m + 1
          /\ (i + 1) - l = (i - l) + 1
      BY <1>1, <2>2
    <3>2. g[i] = b[i - l] /\ g[i + 1] = b[(i - l) + 1] /\ p[i] = v[i - l]
      BY <1>1, <1>6, <2>2, <3>1
    <3> QED BY <1>5, <3>1, <3>2
  <2> QED BY <2>1, <2>2
<1>10. ASSUME NEW i \in 1 .. (l + m) + 1, NEW j \in i .. (l + m) + 1
       PROVE  (g[i] < 0 => g[j] < 0) /\ (g[i] = -2 => g[j] = -2)
  <2>1. CASE i <= l + 1 /\ j <= l + 1
    <3>1. i \in 1 .. l + 1 /\ j \in i .. l + 1 /\ j \in 1 .. l + 1 BY <1>1, <2>1
    <3> QED BY <1>4, <1>6, <3>1
  <2>2. CASE i > l + 1
    <3>1. /\ i \in l + 1 .. l + m + 1 /\ j \in l + 1 .. l + m + 1
          /\ i - l \in 1 .. m + 1 /\ j - l \in (i - l) .. m + 1
      BY <1>1, <2>2
    <3> QED BY <1>5, <1>6, <3>1
  <2>3. CASE i <= l + 1 /\ j > l + 1
    <3>1. /\ i \in 1 .. l + 1 /\ l + 1 \in i .. l + 1 /\ j \in l + 1 .. l + m + 1
          /\ 1 \in 1 .. m + 1 /\ j - l \in 1 .. m + 1
      BY <1>1, <2>3
    <3>2. g[i] = a[i] /\ g[j] = b[j - l] BY <1>6, <3>1
    <3>3. (a[i] < 0 => a[l + 1] < 0) /\ (a[i] = -2 => a[l + 1] = -2) BY <1>4, <3>1
    <3>4. (b[1] < 0 => b[j - l] < 0) /\ (b[1] = -2 => b[j - l] = -2) BY <1>5, <3>1
    <3> QED BY <1>2, <1>3, <3>2, <3>3, <3>4
  <2> QED BY <1>1, <2>1, <2>2, <2>3
<1>11. Trace(g, p, id) BY <1>1, <1>9, <1>10 DEF Trace
<1>12. Parsed(p, s, t, id) BY <1>1, <1>7, <1>8, <1>11 DEF Parsed
<1> QED BY <1>12 DEF p

LEMMA ParsedRead ==
    ASSUME NEW q \in Seq(UpUnit), q # <<>>, NEW s, NEW t, NEW id, Parsed(q, s, t, id)
    PROVE  \E r \in States : Steps(s, Head(q), r, id) /\ Parsed(Tail(q), r, t, id)
<1> DEFINE p == Tail(q)
           l == Len(q)
<1>1. /\ l \in Nat /\ l >= 1 /\ Head(q) = q[1] /\ Len(p) = l - 1
      /\ \A i \in 1 .. l - 1 : p[i] = q[i + 1]
  <2>1. l \in Nat \ {0} BY EmptySeq, LenProperties
  <2> QED BY <2>1, HeadTailProperties
<1>2. PICK a \in [1 .. l + 1 -> States] : Trace(a, q, id) /\ a[1] = s /\ a[l + 1] = t
  BY DEF Parsed
<1>3. /\ \A i \in 1 .. l : Steps(a[i], q[i], a[i + 1], id)
      /\ \A i \in 1 .. l + 1 : \A j \in i .. l + 1 :
           (a[i] < 0 => a[j] < 0) /\ (a[i] = -2 => a[j] = -2)
  BY <1>2 DEF Trace
<1> HIDE DEF p, l
<1> DEFINE g == [i \in 1 .. (l - 1) + 1 |-> a[i + 1]]
<1>4. \A i \in 1 .. (l - 1) + 1 : i + 1 \in 1 .. l + 1 BY <1>1
<1>5. g \in [1 .. (l - 1) + 1 -> States] BY <1>4
<1>6. \A i \in 1 .. (l - 1) + 1 : g[i] = a[i + 1] OBVIOUS
<1> HIDE DEF g
<1>7. g[1] = a[2] /\ g[(l - 1) + 1] = t
  <2>1. 1 \in 1 .. (l - 1) + 1 /\ (l - 1) + 1 \in 1 .. (l - 1) + 1
        /\ ((l - 1) + 1) + 1 = l + 1 /\ 1 + 1 = 2
    BY <1>1
  <2> QED BY <1>2, <1>6, <2>1
<1>8. ASSUME NEW i \in 1 .. l - 1 PROVE Steps(g[i], p[i], g[i + 1], id)
  <2>1. /\ i \in 1 .. (l - 1) + 1 /\ i + 1 \in 1 .. (l - 1) + 1 /\ i + 1 \in 1 .. l
    BY <1>1
  <2> QED BY <1>1, <1>3, <1>6, <2>1
<1>9. ASSUME NEW i \in 1 .. (l - 1) + 1, NEW j \in i .. (l - 1) + 1
      PROVE  (g[i] < 0 => g[j] < 0) /\ (g[i] = -2 => g[j] = -2)
  <2>1. /\ i + 1 \in 1 .. l + 1 /\ j + 1 \in i + 1 .. l + 1 /\ j \in 1 .. (l - 1) + 1
    BY <1>1
  <2> QED BY <1>3, <1>6, <2>1
<1>10. Parsed(p, a[2], t, id) BY <1>1, <1>5, <1>7, <1>8, <1>9 DEF Parsed, Trace
<1>11. Steps(s, Head(q), a[2], id) /\ a[2] \in States
  <2>1. 1 \in 1 .. l /\ 1 + 1 = 2 /\ 2 \in 1 .. l + 1 BY <1>1
  <2> QED BY <1>1, <1>2, <1>3, <2>1
<1> QED BY <1>10, <1>11 DEF p

(* Before the reply nothing in up depends on the call ...                  *)
LEMMA ParsedFresh ==
    ASSUME NEW q \in Seq(UpUnit), NEW s, NEW t \in States, t >= 0, NEW id, NEW e,
           Parsed(q, s, t, id)
    PROVE  Parsed(q, s, t, e)
<1> DEFINE l == Len(q)
<1>1. l \in Nat BY LenProperties
<1>2. PICK a \in [1 .. l + 1 -> States] : Trace(a, q, id) /\ a[1] = s /\ a[l + 1] = t
  BY DEF Parsed
<1>3. /\ \A i \in 1 .. l : Steps(a[i], q[i], a[i + 1], id)
      /\ \A i \in 1 .. l + 1 : \A j \in i .. l + 1 :
           (a[i] < 0 => a[j] < 0) /\ (a[i] = -2 => a[j] = -2)
  BY <1>2 DEF Trace
<1>4. t \in Int BY StatesAre
<1> HIDE DEF l
<1>5. ASSUME NEW i \in 1 .. l PROVE Steps(a[i], q[i], a[i + 1], e)
  <2>1. i \in 1 .. l + 1 /\ l + 1 \in i .. l + 1 BY <1>1
  <2>2. a[i] < 0 => a[l + 1] < 0 BY <1>3, <2>1
  <2>3. ~(a[i] < 0) BY <1>2, <1>4, <2>2
  <2>4. a[i] # -1 BY <2>3
  <2> QED BY <1>3, <2>4 DEF Steps
<1>6. Trace(a, q, e) BY <1>3, <1>5 DEF Trace, l
<1> QED BY <1>2, <1>6 DEF Parsed, l

(* ... and behind it there are only replies of void functions.             *)
LEMMA ParsedOver ==
    ASSUME NEW q \in Seq(UpUnit), NEW t, NEW id, Parsed(q, -2, t, id)
    PROVE  t = -2 /\ Parsed(q, 0, 0, id)
<1> DEFINE l == Len(q)
           g == [i \in 1 .. l + 1 |-> 0]
<1>1. l \in Nat BY LenProperties
<1>2. PICK a \in [1 .. l + 1 -> States] : Trace(a, q, id) /\ a[1] = -2 /\ a[l + 1] = t
  BY DEF Parsed
<1>3. /\ \A i \in 1 .. l : Steps(a[i], q[i], a[i + 1], id)
      /\ \A i \in 1 .. l + 1 : \A j \in i .. l + 1 :
           (a[i] < 0 => a[j] < 0) /\ (a[i] = -2 => a[j] = -2)
  BY <1>2 DEF Trace
<1>4. g \in [1 .. l + 1 -> States] BY StatesAre
<1>5. \A i \in 1 .. l + 1 : g[i] = 0 OBVIOUS
<1> HIDE DEF l, g
<1>6. ASSUME NEW j \in 1 .. l + 1 PROVE a[j] = -2
  <2>1. 1 \in 1 .. l + 1 BY <1>1
  <2> QED BY <1>2, <1>3, <2>1
<1>7. ASSUME NEW i \in 1 .. l PROVE Steps(g[i], q[i], g[i + 1], id)
  <2>1. i \in 1 .. l + 1 /\ i + 1 \in 1 .. l + 1 BY <1>1
  <2>2. a[i] = -2 /\ g[i] = 0 /\ g[i + 1] = 0 BY <1>5, <1>6, <2>1
  <2>3. q[i] = <<"void">> BY <1>3, <2>2 DEF Steps
  <2> QED BY <2>2, <2>3 DEF Steps
<1>8. ASSUME NEW i \in 1 .. l + 1, NEW j \in i .. l + 1
      PROVE  (g[i] < 0 => g[j] < 0) /\ (g[i] = -2 => g[j] = -2)
  <2>1. g[i] = 0 BY <1>5
  <2> QED BY <2>1
<1>9. Trace(g, q, id) BY <1>7, <1>8 DEF Trace, l
<1>10. 1 \in 1 .. l + 1 /\ l + 1 \in 1 .. l + 1 BY <1>1
<1>11. Parsed(q, 0, 0, id) BY <1>4, <1>5, <1>9, <1>10 DEF Parsed, l
<1> QED BY <1>2, <1>6, <1>10, <1>11
-----------------------------------------------------------------------------
(* A function that runs, and the state its next unit is written in.        *)
Stage(f, id, ops, s) ==
    \/ ops \in {AllOps(f, id), AfterArgs(f, id), AfterText(f, id), Reply(f, id)} /\ s = 0
    \/ s \in 1..TextLen /\ ops = TextOps(f, id, s)
    \/ f \in Blocking /\ ops = ValOps(id) /\ s = -1
StageOrEnd(f, id, ops, s) ==
    \/ Stage(f, id, ops, s)
    \/ ops = <<>> /\ s = (IF f \in Blocking THEN -2 ELSE 0)

LEMMA Kinds ==
    ASSUME NEW f \in Fn, NEW id \in Bit
    PROVE  /\ \A what \in {"args", "print", "yield"} :
                ~Does(Reply(f, id), what) /\ ~Does(ValOps(id), what)
           /\ \A what \in {"args", "print"} : ~Does(AfterText(f, id), what)
           /\ \A what \in {"args", "yield", "rpc"} :
                /\ f \in Prints => ~Does(AfterArgs(f, id), what)
                /\ \A m \in 1..TextLen : ~Does(TextOps(f, id, m), what)
           /\ f \notin Prints => AfterArgs(f, id) = AfterText(f, id)
           /\ ~Does(AfterArgs(f, id), "args")
           /\ \A what \in {"print", "yield", "rpc"} : ~Does(AllOps(f, id), what)
<1>1. \A what \in {"args", "print", "yield"} :
        ~Does(Reply(f, id), what) /\ ~Does(ValOps(id), what)
  BY ReplyIs, ValIs DEF Does
<1>2. \A what \in {"args", "print"} : ~Does(AfterText(f, id), what)
  BY <1>1, AfterTextIs DEF Does
<1>3. \A what \in {"args", "yield", "rpc"} : f \in Prints => ~Does(AfterArgs(f, id), what)
  BY AfterArgsIs DEF Does
<1>4. \A what \in {"args", "yield", "rpc"} :
        \A m \in 1..TextLen : ~Does(TextOps(f, id, m), what)
  BY TextStage
<1>5. f \notin Prints => AfterArgs(f, id) = AfterText(f, id) BY AfterArgsIs
<1>6. ~Does(AfterArgs(f, id), "args") BY <1>2, <1>3, <1>5
<1>7. \A what \in {"print", "yield", "rpc"} : ~Does(AllOps(f, id), what)
  BY AllOpsIs DEF Does
<1> QED BY <1>1, <1>2, <1>3, <1>4, <1>5, <1>6, <1>7

LEMMA StageType ==
    ASSUME NEW f \in Fn, NEW id \in Bit, NEW ops, NEW s \in States, Stage(f, id, ops, s)
    PROVE  /\ ops \in Seq(Op) /\ ops # <<>>
           /\ f \notin Blocking => s >= 0
           /\ s # -2
<1>1. s \in Int BY StatesAre
<1>2. CASE ops \in {AllOps(f, id), AfterArgs(f, id), AfterText(f, id), Reply(f, id)} /\ s = 0
  BY <1>2, AllOpsIs, AfterArgsIs, AfterTextIs, ReplyIs
<1>3. CASE s \in 1..TextLen /\ ops = TextOps(f, id, s) BY <1>3, Numbers, TextStage
<1>4. CASE f \in Blocking /\ ops = ValOps(id) /\ s = -1 BY <1>4, ValIs
<1> QED BY <1>2, <1>3, <1>4 DEF Stage

(* The arguments are read first, and only once.                            *)
LEMMA StageArgs ==
    ASSUME NEW f \in Fn, NEW id \in Bit, NEW ops, NEW s \in States,
           Stage(f, id, ops, s), Does(ops, "args")
    PROVE  Stage(f, id, Tail(ops), s) /\ ~Does(Tail(ops), "args") /\ s = 0
<1>1. ops = AllOps(f, id) /\ s = 0 BY Kinds DEF Stage
<1>2. Tail(ops) = AfterArgs(f, id) BY <1>1, AllOpsIs
<1> QED BY <1>1, <1>2, Kinds DEF Stage

LEMMA StageYield ==
    ASSUME NEW f \in Fn, NEW id \in Bit, NEW ops, NEW s \in States,
           Stage(f, id, ops, s), Does(ops, "yield")
    PROVE  Tail(ops) = Reply(f, id) /\ s = 0
<1>1. ops = AfterText(f, id) /\ s = 0 BY Kinds DEF Stage
<1>2. f \in Yields
  <2>1. f \notin Yields => AfterText(f, id) = Reply(f, id) BY AfterTextIs
  <2> QED BY <1>1, <2>1, Kinds
<1> QED BY <1>1, <1>2, AfterTextIs

LEMMA StageRpc ==
    ASSUME NEW f \in Fn, NEW id \in Bit, NEW ops, NEW s \in States,
           Stage(f, id, ops, s), Does(ops, "rpc"), NEW e, f \in Blocking => e = id
    PROVE  \E u \in UpUnit, t \in States :
              /\ Head(ops).units = <<u>> /\ Steps(s, u, t, e)
              /\ StageOrEnd(f, id, Tail(ops), t) /\ ~Does(Tail(ops), "args")
<1>1. \/ ops = Reply(f, id) /\ s = 0
      \/ ops = ValOps(id) /\ s = -1 /\ f \in Blocking
  <2>1. \/ ops = AfterText(f, id) /\ s = 0
        \/ ops = Reply(f, id) /\ s = 0
        \/ ops = ValOps(id) /\ s = -1 /\ f \in Blocking
    BY Kinds DEF Stage
  <2>2. f \in Yields => ~Does(AfterText(f, id), "rpc") BY AfterTextIs DEF Does
  <2>3. f \notin Yields => AfterText(f, id) = Reply(f, id) BY AfterTextIs
  <2> QED BY <2>1, <2>2, <2>3
<1>2. CASE ops = Reply(f, id) /\ s = 0 /\ f \in Blocking
  <2>1. Head(ops).units = <<<<"ret">>>> /\ Tail(ops) = ValOps(id) BY <1>2, ReplyIs
  <2>2. Stage(f, id, ValOps(id), -1) BY <1>2 DEF Stage
  <2>3. Steps(s, <<"ret">>, -1, e) BY <1>2 DEF Steps
  <2>4. ~Does(ValOps(id), "args") BY Kinds
  <2> QED BY <2>1, <2>2, <2>3, <2>4, UpUnits, StatesAre DEF StageOrEnd
<1>3. CASE ops = Reply(f, id) /\ s = 0 /\ f \notin Blocking
  <2>1. Head(ops).units = <<<<"void">>>> /\ Tail(ops) = <<>> BY <1>3, ReplyIs
  <2>2. StageOrEnd(f, id, <<>>, 0) BY <1>3 DEF StageOrEnd
  <2>3. Steps(s, <<"void">>, 0, e) BY <1>3 DEF Steps
  <2>4. ~Does(<<>>, "args") BY DEF Does
  <2> QED BY <2>1, <2>2, <2>3, <2>4, UpUnits, StatesAre
<1>4. CASE ops = ValOps(id) /\ s = -1 /\ f \in Blocking
  <2>1. Head(ops).units = <<<<"val", id>>>> /\ Tail(ops) = <<>> BY <1>4, ValIs
  <2>2. StageOrEnd(f, id, <<>>, -2) BY <1>4 DEF StageOrEnd
  <2>3. Steps(s, <<"val", id>>, -2, e) BY <1>4 DEF Steps
  <2>4. ~Does(<<>>, "args") BY DEF Does
  <2> QED BY <2>1, <2>2, <2>3, <2>4, UpUnits, StatesAre
<1> QED BY <1>1, <1>2, <1>3, <1>4

(* What a print still has to write once n units of u are written.          *)
PrintOps(u, n, t) ==
    IF SubSeq(u, n + 1, Len(u)) = <<>> THEN t
    ELSE Act("print", SubSeq(u, n + 1, Len(u))) \o t

LEMMA PrintText ==
    ASSUME NEW f \in Fn, NEW id \in Bit, NEW m \in 1 .. TextLen, NEW n \in 1 .. m
    PROVE  IF n = m THEN PrintOps(Rep(Text, m), n, AfterText(f, id)) = AfterText(f, id)
                    ELSE PrintOps(Rep(Text, m), n, AfterText(f, id)) = TextOps(f, id, m - n)
<1>1. m \in Nat /\ n \in 0 .. m BY TextLength
<1>2. /\ Rep(Text, m) \in Seq(UpUnit) /\ Len(Rep(Text, m)) = m
      /\ \A i \in 1 .. m : Rep(Text, m)[i] = Text
  BY <1>1, UpUnits, RepIs
<1>3. /\ SubSeq(Rep(Text, m), n + 1, m) \in Seq(UpUnit)
      /\ Len(SubSeq(Rep(Text, m), n + 1, m)) = m - n
      /\ \A i \in 1 .. m - n : SubSeq(Rep(Text, m), n + 1, m)[i] = Rep(Text, m)[i + n]
  BY <1>1, <1>2, DropIs
<1>4. CASE n = m
  <2>1. SubSeq(Rep(Text, m), n + 1, m) = <<>>
    <3>1. Len(SubSeq(Rep(Text, m), n + 1, m)) = 0 BY <1>1, <1>3, <1>4
    <3> QED BY <1>3, <3>1, EmptySeq
  <2> QED BY <1>2, <1>4, <2>1 DEF PrintOps
<1>5. CASE n # m
  <2>1. m - n \in Nat /\ m - n # 0 BY <1>1, <1>5
  <2>2. /\ Rep(Text, m - n) \in Seq(UpUnit) /\ Len(Rep(Text, m - n)) = m - n
        /\ \A i \in 1 .. m - n : Rep(Text, m - n)[i] = Text
    BY <2>1, UpUnits, RepIs
  <2>3. \A i \in 1 .. m - n : i + n \in 1 .. m BY <1>1
  <2>4. SubSeq(Rep(Text, m), n + 1, m) = Rep(Text, m - n)
    BY <1>2, <1>3, <2>2, <2>3, SameSeq
  <2>5. SubSeq(Rep(Text, m), n + 1, m) # <<>> BY <1>3, <2>1, EmptySeq
  <2> QED BY <1>2, <1>5, <2>4, <2>5 DEF PrintOps, TextOps
<1> QED BY <1>4, <1>5

LEMMA OneUnitTaken ==
    ASSUME NEW u \in UpUnit
    PROVE  SubSeq(<<u>>, 1, 1) = <<u>> /\ SubSeq(<<u>>, 1 + 1, 1) = <<>>
<1>1. <<u>> \in Seq(UpUnit) /\ Len(<<u>>) = 1 /\ <<u>>[1] = u BY OneUnit
<1> DEFINE q == <<u>>
<1> HIDE DEF q
<1>2. q \in Seq(UpUnit) /\ Len(q) = 1 BY <1>1 DEF q
<1>3. 1 \in 0 .. Len(q) /\ Len(q) - 1 = 0 BY <1>2
<1>4. /\ SubSeq(q, 1, 1) \in Seq(UpUnit) /\ Len(SubSeq(q, 1, 1)) = 1
      /\ \A i \in 1 .. 1 : SubSeq(q, 1, 1)[i] = q[i]
  BY <1>2, <1>3, TakeIs
<1>5. SubSeq(q, 1 + 1, Len(q)) \in Seq(UpUnit) /\ Len(SubSeq(q, 1 + 1, Len(q))) = 0
  BY <1>2, <1>3, DropIs
<1>6. SubSeq(q, 1, 1) = q BY <1>2, <1>4, SameSeq
<1>7. SubSeq(q, 1 + 1, 1) = <<>> BY <1>2, <1>5, EmptySeq
<1> QED BY <1>6, <1>7 DEF q

LEMMA StagePrint ==
    ASSUME NEW f \in Fn, NEW id \in Bit, NEW ops, NEW s \in States,
           Stage(f, id, ops, s), Does(ops, "print"), NEW e,
           NEW n \in 1 .. Len(Head(ops).units)
    PROVE  \E t \in States :
              /\ Parsed(SubSeq(Head(ops).units, 1, n), s, t, e)
              /\ Stage(f, id, PrintOps(Head(ops).units, n, Tail(ops)), t)
              /\ ~Does(PrintOps(Head(ops).units, n, Tail(ops)), "args")
<1>1. \/ ops = AfterArgs(f, id) /\ s = 0 /\ f \in Prints
      \/ s \in 1..TextLen /\ ops = TextOps(f, id, s)
  BY Kinds DEF Stage
<1>2. CASE ops = AfterArgs(f, id) /\ s = 0 /\ f \in Prints
  <2>1. Head(ops).units = <<<<"print">>>> /\ Tail(ops) = TextOps(f, id, TextLen)
    BY <1>2, AfterArgsIs
  <2>2. /\ <<<<"print">>>> \in Seq(UpUnit) /\ Len(<<<<"print">>>>) = 1
        /\ SubSeq(<<<<"print">>>>, 1, 1) = <<<<"print">>>>
        /\ SubSeq(<<<<"print">>>>, 1 + 1, 1) = <<>>
    BY UpUnits, OneUnit, OneUnitTaken
  <2>3. n = 1
    <3>1. Len(Head(ops).units) = 1 BY <2>1, <2>2
    <3>2. n \in 1 .. 1 BY ONLY <3>1, n \in 1 .. Len(Head(ops).units)
    <3> QED BY ONLY <3>2
  <2>4. PrintOps(<<<<"print">>>>, 1, Tail(ops)) = TextOps(f, id, TextLen)
    BY <2>1, <2>2 DEF PrintOps
  <2>5. Parsed(<<<<"print">>>>, s, TextLen, e)
    <3>1. Steps(s, <<"print">>, TextLen, e) BY <1>2 DEF Steps
    <3> QED BY <3>1, ParsedUnit, StatesAre
  <2>6. TextLen \in 1..TextLen BY Numbers
  <2>7. Stage(f, id, TextOps(f, id, TextLen), TextLen) BY <2>6 DEF Stage
  <2>8. ~Does(TextOps(f, id, TextLen), "args") BY <2>6, Kinds
  <2> QED BY <2>1, <2>2, <2>3, <2>4, <2>5, <2>7, <2>8, StatesAre
<1>3. CASE s \in 1..TextLen /\ ops = TextOps(f, id, s)
  <2>1. s \in Nat /\ s >= 1 /\ s <= TextLen BY <1>3, TextLength
  <2>2. Head(ops).units = Rep(Text, s) /\ Tail(ops) = AfterText(f, id)
    BY <1>3, TextStage
  <2>3. /\ Rep(Text, s) \in Seq(UpUnit) /\ Len(Rep(Text, s)) = s
        /\ \A i \in 1 .. s : Rep(Text, s)[i] = Text
    BY <2>1, UpUnits, RepIs
  <2>4. n \in 1 .. s /\ n \in 0 .. s /\ n \in Nat BY <2>1, <2>2, <2>3
  <2>5. /\ Len(SubSeq(Rep(Text, s), 1, n)) = n
        /\ \A i \in 1 .. n : SubSeq(Rep(Text, s), 1, n)[i] = Text
    <3>1. \A i \in 1 .. n : i \in 1 .. s BY <2>1, <2>4
    <3> QED BY <2>3, <2>4, <3>1, TakeIs
  <2>6. s \in n .. TextLen BY <2>1, <2>4, Numbers
  <2>7. Parsed(SubSeq(Rep(Text, s), 1, n), s, s - n, e) /\ s - n \in States
    BY <2>4, <2>5, <2>6, ParsedText
  <2>8. /\ Stage(f, id, PrintOps(Rep(Text, s), n, AfterText(f, id)), s - n)
        /\ ~Does(PrintOps(Rep(Text, s), n, AfterText(f, id)), "args")
    <3>1. CASE n = s
      <4>1. PrintOps(Rep(Text, s), n, AfterText(f, id)) = AfterText(f, id) /\ s - n = 0
        BY <1>3, <2>1, <2>4, <3>1, PrintText
      <4>2. Stage(f, id, AfterText(f, id), 0) BY DEF Stage
      <4> QED BY <4>1, <4>2, Kinds
    <3>2. CASE n # s
      <4>1. PrintOps(Rep(Text, s), n, AfterText(f, id)) = TextOps(f, id, s - n)
        BY <1>3, <2>4, <3>2, PrintText
      <4>2. s - n \in 1..TextLen BY <2>1, <2>4, <3>2, Numbers
      <4>3. Stage(f, id, TextOps(f, id, s - n), s - n) BY <4>2 DEF Stage
      <4> QED BY <4>1, <4>2, <4>3, Kinds
    <3> QED BY <3>1, <3>2
  <2> QED BY <2>2, <2>7, <2>8
<1> QED BY <1>1, <1>2, <1>3
-----------------------------------------------------------------------------
(* The units in down: b arguments that function g waits for, then whole    *)
(* commands.                                                               *)
IsHeader(q, k) == q[k][1] = "header"
CommandAt(q, k, f) ==
    /\ q[k] = <<"header", f>> /\ k + Args[f] <= Len(q)
    /\ \A i \in k+1..k+Args[f] : q[i] = <<"arg", f>>
    /\ k + Args[f] < Len(q) => IsHeader(q, k + Args[f] + 1)
Whole(q, b, g) ==
    /\ b <= Len(q)
    /\ \A k \in 1..b : q[k] = <<"arg", g>>
    /\ b < Len(q) => IsHeader(q, b + 1)
    /\ \A k \in b+1..Len(q) : IsHeader(q, k) => \E f \in Fn : CommandAt(q, k, f)

(* The first n units are gone.                                             *)
Shifted(q, r, n) ==
    /\ r \in Seq(Unit) /\ Len(r) = Len(q) - n
    /\ \A i \in 1 .. Len(q) - n : r[i] = q[i + n]

LEMMA ShiftCommand ==
    ASSUME NEW q \in Seq(Unit), NEW r, NEW n \in 0 .. Len(q), Shifted(q, r, n),
           NEW k \in n + 1 .. Len(q), NEW f \in Fn, CommandAt(q, k, f)
    PROVE  CommandAt(r, k - n, f)
<1>1. Len(q) \in Nat /\ n \in Nat /\ Len(r) = Len(q) - n /\ Args[f] \in Nat
  BY LenProperties, Numbers DEF Shifted
<1>2. \A i \in 1 .. Len(q) - n : r[i] = q[i + n] BY DEF Shifted
<1>3. r[k - n] = <<"header", f>> /\ (k - n) + Args[f] <= Len(r)
  <2>1. k - n \in 1 .. Len(q) - n /\ (k - n) + n = k BY <1>1
  <2>2. r[k - n] = q[(k - n) + n] BY <1>2, <2>1
  <2>3. r[k - n] = q[k] BY <2>1, <2>2
  <2>4. q[k] = <<"header", f>> /\ k + Args[f] <= Len(q) BY DEF CommandAt
  <2>5. (k - n) + Args[f] <= Len(r) BY <1>1, <2>4
  <2> QED BY <2>3, <2>4, <2>5
<1>4. ASSUME NEW i \in (k - n) + 1 .. (k - n) + Args[f] PROVE r[i] = <<"arg", f>>
  <2>1. /\ i \in 1 .. Len(q) - n /\ i + n \in k + 1 .. k + Args[f]
    BY <1>1 DEF CommandAt
  <2> QED BY <1>2, <2>1 DEF CommandAt
<1>5. ASSUME (k - n) + Args[f] < Len(r) PROVE IsHeader(r, (k - n) + Args[f] + 1)
  <2>1. /\ (k - n) + Args[f] + 1 \in 1 .. Len(q) - n
        /\ ((k - n) + Args[f] + 1) + n = k + Args[f] + 1 /\ k + Args[f] < Len(q)
    BY <1>1, <1>5
  <2> QED BY <1>2, <2>1 DEF CommandAt, IsHeader
<1> QED BY <1>3, <1>4, <1>5 DEF CommandAt

LEMMA ShiftHeader ==
    ASSUME NEW q \in Seq(Unit), NEW r, NEW n \in 0 .. Len(q), Shifted(q, r, n),
           NEW k \in 1 .. Len(r)
    PROVE  /\ k + n \in n + 1 .. Len(q) /\ (k + n) - n = k
           /\ r[k] = q[k + n]
           /\ IsHeader(r, k) <=> IsHeader(q, k + n)
BY LenProperties DEF Shifted, IsHeader

(* The arguments are taken.                                                *)
LEMMA DropWhole ==
    ASSUME NEW q \in Seq(Unit), NEW b \in Nat, NEW g, Whole(q, b, g), NEW r, NEW h,
           Shifted(q, r, b)
    PROVE  Whole(r, 0, h)
<1>1. Len(q) \in Nat /\ b \in 0 .. Len(q) /\ Len(r) = Len(q) - b
  BY LenProperties DEF Whole, Shifted
<1>2. 0 < Len(r) => IsHeader(r, 1)
  <2> SUFFICES ASSUME 0 < Len(r) PROVE IsHeader(r, 1) OBVIOUS
  <2>1. 1 \in 1 .. Len(r) /\ b < Len(q) BY <1>1
  <2>2. IsHeader(r, 1) <=> IsHeader(q, 1 + b) BY <1>1, <2>1, ShiftHeader
  <2>3. 1 + b = b + 1 OBVIOUS
  <2> QED BY <2>1, <2>2, <2>3 DEF Whole
<1>3. ASSUME NEW k \in 1 .. Len(r), IsHeader(r, k) PROVE \E f \in Fn : CommandAt(r, k, f)
  <2>1. k + b \in b + 1 .. Len(q) /\ (k + b) - b = k /\ IsHeader(q, k + b)
    BY <1>1, <1>3, ShiftHeader
  <2>2. PICK f \in Fn : CommandAt(q, k + b, f) BY <2>1 DEF Whole
  <2>3. CommandAt(r, (k + b) - b, f) BY <1>1, <2>1, <2>2, ShiftCommand
  <2> QED BY <2>1, <2>3
<1> QED BY <1>1, <1>2, <1>3 DEF Whole

(* A header is taken.                                                      *)
LEMMA TakeWhole ==
    ASSUME NEW q \in Seq(Unit), NEW g, Whole(q, 0, g), Len(q) >= 1, NEW r,
           Shifted(q, r, 1)
    PROVE  \E f \in Fn : q[1] = <<"header", f>> /\ Args[f] <= Len(r) /\ Whole(r, Args[f], f)
<1>1. Len(q) \in Nat /\ 1 \in 0 .. Len(q) /\ Len(r) = Len(q) - 1
  BY LenProperties DEF Shifted
<1>2. IsHeader(q, 1) /\ 1 \in 0 + 1 .. Len(q) BY <1>1 DEF Whole
<1>3. PICK f \in Fn : CommandAt(q, 1, f) BY <1>2 DEF Whole
<1>4. Args[f] \in Nat /\ q[1] = <<"header", f>> /\ 1 + Args[f] <= Len(q)
  BY <1>3, Numbers DEF CommandAt
<1>5. ASSUME NEW k \in 1 .. Args[f] PROVE r[k] = <<"arg", f>>
  <2>1. k \in 1 .. Len(r) /\ k + 1 \in 1 + 1 .. 1 + Args[f] BY <1>1, <1>4
  <2>2. r[k] = q[k + 1] BY <1>1, <2>1, ShiftHeader
  <2> QED BY <1>3, <2>1, <2>2 DEF CommandAt
<1>6. ASSUME Args[f] < Len(r) PROVE IsHeader(r, Args[f] + 1)
  <2>1. Args[f] + 1 \in 1 .. Len(r) /\ 1 + Args[f] < Len(q) BY <1>1, <1>4, <1>6
  <2>2. IsHeader(q, 1 + Args[f] + 1) BY <1>3, <2>1 DEF CommandAt
  <2>3. 1 + Args[f] + 1 = (Args[f] + 1) + 1 BY <1>4
  <2> QED BY <1>1, <2>1, <2>2, <2>3, ShiftHeader
<1>7. ASSUME NEW k \in Args[f] + 1 .. Len(r), IsHeader(r, k)
      PROVE  \E e \in Fn : CommandAt(r, k, e)
  <2>1. k \in 1 .. Len(r) BY <1>1, <1>4
  <2>2. k + 1 \in 1 + 1 .. Len(q) /\ (k + 1) - 1 = k /\ IsHeader(q, k + 1)
    BY <1>1, <1>7, <2>1, ShiftHeader
  <2>3. k + 1 \in 0 + 1 .. Len(q) BY <2>2
  <2>4. PICK e \in Fn : CommandAt(q, k + 1, e) BY <2>2, <2>3 DEF Whole
  <2>5. CommandAt(r, (k + 1) - 1, e) BY <1>1, <2>2, <2>4, ShiftCommand
  <2> QED BY <2>2, <2>5
<1>8. Args[f] <= Len(r) BY <1>1, <1>4
<1> QED BY <1>4, <1>5, <1>6, <1>7, <1>8 DEF Whole

(* A command is put behind the others.                                     *)
Put(q, r, f) ==
    /\ r \in Seq(Unit) /\ Len(r) = Len(q) + (Args[f] + 1)
    /\ \A k \in 1 .. Len(q) : r[k] = q[k]
    /\ r[Len(q) + 1] = <<"header", f>>
    /\ \A k \in Len(q) + 2 .. Len(r) : r[k] = <<"arg", f>>

LEMMA PutIs ==
    ASSUME NEW q \in Seq(Unit), NEW f \in Fn
    PROVE  Put(q, q \o Message(f), f)
<1> DEFINE m == Message(f)
           r == q \o m
<1>1. Len(q) \in Nat /\ Args[f] \in Nat BY LenProperties, Numbers
<1>2. /\ m \in Seq(Unit) /\ Len(m) = Args[f] + 1 /\ m[1] = <<"header", f>>
      /\ \A i \in 2 .. Args[f] + 1 : m[i] = <<"arg", f>>
  BY MessageIs
<1> HIDE DEF m
<1>3. /\ r \in Seq(Unit) /\ Len(r) = Len(q) + (Args[f] + 1)
      /\ \A i \in 1 .. Len(q) + (Args[f] + 1) : r[i] = IF i <= Len(q) THEN q[i] ELSE m[i - Len(q)]
  BY <1>2, ConcatProperties
<1> HIDE DEF r
<1>4. \A k \in 1 .. Len(q) : r[k] = q[k] BY <1>1, <1>3
<1>5. r[Len(q) + 1] = <<"header", f>>
  <2>1. r[Len(q) + 1] = m[(Len(q) + 1) - Len(q)] BY <1>1, <1>3
  <2>2. (Len(q) + 1) - Len(q) = 1 BY <1>1
  <2> QED BY <1>2, <2>1, <2>2
<1>6. ASSUME NEW k \in Len(q) + 2 .. Len(r) PROVE r[k] = <<"arg", f>>
  <2>1. r[k] = m[k - Len(q)] BY <1>1, <1>3
  <2>2. k - Len(q) \in 2 .. Args[f] + 1 BY <1>1, <1>3
  <2> QED BY <1>2, <2>1, <2>2
<1>7. Put(q, r, f) BY <1>3, <1>4, <1>5, <1>6 DEF Put
<1> QED BY <1>7 DEF r, m

LEMMA PutHeaders ==
    ASSUME NEW q \in Seq(Unit), NEW f \in Fn, NEW r, Put(q, r, f)
    PROVE  /\ \A k \in 1 .. Len(q) : IsHeader(r, k) <=> IsHeader(q, k)
           /\ IsHeader(r, Len(q) + 1)
           /\ \A k \in Len(q) + 2 .. Len(r) : ~IsHeader(r, k)
           /\ CommandAt(r, Len(q) + 1, f)
<1>1. Len(q) \in Nat /\ Args[f] \in Nat BY LenProperties, Numbers
<1>2. \A k \in Len(q) + 2 .. Len(r) : r[k][1] = "arg" BY DEF Put
<1>3. CommandAt(r, Len(q) + 1, f)
  <2>1. r[Len(q) + 1] = <<"header", f>> /\ Len(r) = Len(q) + (Args[f] + 1) BY DEF Put
  <2>2. ASSUME NEW i \in (Len(q) + 1) + 1 .. (Len(q) + 1) + Args[f]
        PROVE  r[i] = <<"arg", f>>
    <3>1. i \in Len(q) + 2 .. Len(r) BY <1>1, <2>1
    <3> QED BY <3>1 DEF Put
  <2>3. (Len(q) + 1) + Args[f] <= Len(r) /\ ~((Len(q) + 1) + Args[f] < Len(r))
    <3> DEFINE l == Len(q)
               a == Args[f]
               m == Len(r)
    <3>1. l \in Nat /\ a \in Nat /\ m = l + (a + 1) BY <1>1, <2>1
    <3> HIDE DEF l, a, m
    <3>2. (l + 1) + a <= m /\ ~((l + 1) + a < m) BY <3>1
    <3> QED BY <3>2 DEF l, a, m
  <2> QED BY <2>1, <2>2, <2>3 DEF CommandAt
<1> QED BY <1>2, <1>3 DEF Put, IsHeader

LEMMA PutWhole ==
    ASSUME NEW q \in Seq(Unit), NEW f \in Fn, NEW r, Put(q, r, f),
           NEW b \in Nat, NEW g, Whole(q, b, g)
    PROVE  Whole(r, b, g)
<1>1. /\ Len(q) \in Nat /\ Args[f] \in Nat /\ Len(r) = Len(q) + (Args[f] + 1)
      /\ b <= Len(q) /\ \A k \in 1 .. Len(q) : r[k] = q[k]
  BY LenProperties, Numbers DEF Put, Whole
<1>2. ASSUME NEW k \in 1 .. b PROVE r[k] = <<"arg", g>>
  <2>1. k \in 1 .. Len(q) BY <1>1
  <2> QED BY <1>1, <2>1 DEF Whole
<1>3. IsHeader(r, b + 1)
  <2>1. CASE b < Len(q)
    <3>1. b + 1 \in 1 .. Len(q) /\ IsHeader(q, b + 1) BY <1>1, <2>1 DEF Whole
    <3> QED BY <3>1, PutHeaders
  <2>2. CASE b = Len(q) BY <2>2, PutHeaders
  <2> QED BY <1>1, <2>1, <2>2
<1>4. ASSUME NEW k \in b + 1 .. Len(r), IsHeader(r, k)
      PROVE  \E e \in Fn : CommandAt(r, k, e)
  <2>1. k \in b + 1 .. Len(q) \/ k = Len(q) + 1 \/ k \in Len(q) + 2 .. Len(r) BY <1>1
  <2>2. CASE k = Len(q) + 1 BY <2>2, PutHeaders
  <2>3. CASE k \in Len(q) + 2 .. Len(r) BY <1>4, <2>3, PutHeaders
  <2>4. CASE k \in b + 1 .. Len(q)
    <3>1. k \in 1 .. Len(q) /\ IsHeader(q, k) BY <1>1, <1>4, <2>4, PutHeaders
    <3>2. PICK e \in Fn : CommandAt(q, k, e) BY <2>4, <3>1 DEF Whole
    <3>3. Args[e] \in Nat /\ k + Args[e] <= Len(q) BY <3>2, Numbers DEF CommandAt
    <3>4. r[k] = <<"header", e>> BY <1>1, <3>1, <3>2 DEF CommandAt
    <3>5. ASSUME NEW i \in k + 1 .. k + Args[e] PROVE r[i] = <<"arg", e>>
      <4>1. i \in 1 .. Len(q) BY <1>1, <3>1, <3>3
      <4> QED BY <1>1, <3>2, <4>1 DEF CommandAt
    <3>6. IsHeader(r, k + Args[e] + 1)
      <4>1. CASE k + Args[e] < Len(q)
        <5>1. k + Args[e] + 1 \in 1 .. Len(q) BY <1>1, <3>1, <3>3, <4>1
        <5> QED BY <3>2, <4>1, <5>1, PutHeaders DEF CommandAt
      <4>2. CASE k + Args[e] = Len(q) BY <4>2, PutHeaders
      <4> QED BY <1>1, <3>1, <3>3, <4>1, <4>2
    <3>7. k + Args[e] <= Len(r) BY <1>1, <3>1, <3>3
    <3> QED BY <3>4, <3>5, <3>6, <3>7 DEF CommandAt
  <2> QED BY <2>1, <2>2, <2>3, <2>4
<1>5. b <= Len(r) BY <1>1
<1> QED BY <1>2, <1>3, <1>4, <1>5 DEF Whole

LEMMA WholeZero ==
    ASSUME NEW q \in Seq(Unit), NEW g, NEW h, Whole(q, 0, g) PROVE Whole(q, 0, h)
<1>1. Len(q) \in Nat BY LenProperties
<1> QED BY <1>1 DEF Whole

(* The commands in q call void functions, all of them or all but the last. *)
NoneBlocks(q) == \A k \in 1..Len(q) : IsHeader(q, k) => q[k][2] \notin Blocking
OneBlocks(q, f) ==
    \E k \in 1..Len(q) :
        /\ q[k] = <<"header", f>> /\ k + Args[f] = Len(q)
        /\ \A j \in 1..Len(q) : IsHeader(q, j) /\ j # k => q[j][2] \notin Blocking

LEMMA ShiftNone ==
    ASSUME NEW q \in Seq(Unit), NEW r, NEW n \in 0 .. Len(q), Shifted(q, r, n),
           NoneBlocks(q)
    PROVE  NoneBlocks(r)
<1> SUFFICES ASSUME NEW k \in 1 .. Len(r), IsHeader(r, k) PROVE r[k][2] \notin Blocking
  BY DEF NoneBlocks
<1>1. /\ k + n \in n + 1 .. Len(q) /\ r[k] = q[k + n] /\ IsHeader(q, k + n)
  BY ShiftHeader
<1>2. k + n \in 1 .. Len(q) BY <1>1, LenProperties
<1> QED BY <1>1, <1>2 DEF NoneBlocks

LEMMA ShiftOne ==
    ASSUME NEW q \in Seq(Unit), NEW r, NEW n \in 0 .. Len(q), Shifted(q, r, n),
           NEW f \in Fn, OneBlocks(q, f), \A i \in 1 .. n : q[i] # <<"header", f>>
    PROVE  OneBlocks(r, f)
<1>1. PICK k \in 1 .. Len(q) :
         /\ q[k] = <<"header", f>> /\ k + Args[f] = Len(q)
         /\ \A j \in 1 .. Len(q) : IsHeader(q, j) /\ j # k => q[j][2] \notin Blocking
  BY DEF OneBlocks
<1>2. /\ Len(q) \in Nat /\ n \in Nat /\ Len(r) = Len(q) - n /\ Args[f] \in Nat
      /\ k \notin 1 .. n
  BY <1>1, LenProperties, Numbers DEF Shifted
<1>3. \A i \in 1 .. Len(q) - n : r[i] = q[i + n] BY DEF Shifted
<1>4. k - n \in 1 .. Len(r) /\ (k - n) + n = k BY <1>2
<1>5. r[k - n] = <<"header", f>> BY <1>1, <1>2, <1>3, <1>4
<1>6. (k - n) + Args[f] = Len(r)
  <2> DEFINE a == Args[f]
             l == Len(q)
             m == Len(r)
  <2>1. k + a = l /\ a \in Nat /\ l \in Nat /\ m = l - n /\ n \in Nat /\ k \in Int
    BY <1>1, <1>2
  <2> HIDE DEF a, l, m
  <2>2. (k - n) + a = m BY <2>1
  <2> QED BY <2>2 DEF a, m
<1>7. ASSUME NEW j \in 1 .. Len(r), IsHeader(r, j), j # k - n
      PROVE  r[j][2] \notin Blocking
  <2>1. /\ j + n \in n + 1 .. Len(q) /\ r[j] = q[j + n] /\ IsHeader(q, j + n)
    BY <1>7, ShiftHeader
  <2>2. j + n \in 1 .. Len(q) /\ j + n # k BY <1>2, <1>7, <2>1
  <2> QED BY <1>1, <2>1, <2>2
<1> DEFINE i == k - n
<1>8. i \in 1 .. Len(r) /\ r[i] = <<"header", f>> /\ i + Args[f] = Len(r)
  BY <1>4, <1>5, <1>6
<1>9. \A j \in 1 .. Len(r) : IsHeader(r, j) /\ j # i => r[j][2] \notin Blocking BY <1>7
<1> HIDE DEF i
<1> QED BY <1>8, <1>9 DEF OneBlocks

(* The blocking command is the first: its arguments are all there is.      *)
LEMMA OneFirst ==
    ASSUME NEW q \in Seq(Unit), NEW f \in Fn, OneBlocks(q, f), NEW g \in Blocking,
           q[1] = <<"header", g>>, Len(q) >= 1
    PROVE  f = g /\ Len(q) = Args[g] + 1
<1>1. PICK k \in 1 .. Len(q) :
         /\ q[k] = <<"header", f>> /\ k + Args[f] = Len(q)
         /\ \A j \in 1 .. Len(q) : IsHeader(q, j) /\ j # k => q[j][2] \notin Blocking
  BY DEF OneBlocks
<1>2. 1 \in 1 .. Len(q) BY LenProperties
<1>3. k = 1 BY <1>1, <1>2 DEF IsHeader
<1>4. f = g BY <1>1, <1>3
<1>5. Args[g] \in Nat BY <1>4, Numbers
<1> QED BY <1>1, <1>3, <1>4, <1>5

LEMMA PutBlocks ==
    ASSUME NEW q \in Seq(Unit), NEW f \in Fn, NEW r, Put(q, r, f), NoneBlocks(q)
    PROVE  /\ f \notin Blocking => NoneBlocks(r)
           /\ f \in Blocking => OneBlocks(r, f)
<1> DEFINE l == Len(q)
           a == Args[f]
<1>1. l \in Nat /\ a \in Nat /\ Len(r) = l + (a + 1) /\ r[l + 1] = <<"header", f>>
  BY LenProperties, Numbers DEF Put
<1>2. \A k \in 1 .. l : r[k] = q[k] BY DEF Put
<1>3. ASSUME NEW j \in 1 .. Len(r), IsHeader(r, j), j # l + 1
      PROVE  r[j][2] \notin Blocking
  <2>1. j \in 1 .. Len(q) \/ j \in Len(q) + 2 .. Len(r) BY <1>1, <1>3
  <2>2. j \in 1 .. Len(q) BY <1>3, <2>1, PutHeaders
  <2>3. IsHeader(q, j) BY <1>3, <2>2, PutHeaders
  <2> QED BY <1>2, <2>2, <2>3 DEF NoneBlocks
<1> HIDE DEF l, a
<1>4. l + 1 \in 1 .. Len(r) /\ (l + 1) + a = Len(r) BY <1>1
<1>5. f \notin Blocking => NoneBlocks(r) BY <1>1, <1>3 DEF NoneBlocks
<1>6. OneBlocks(r, f) BY <1>1, <1>3, <1>4 DEF OneBlocks, a
<1> QED BY <1>5, <1>6
-----------------------------------------------------------------------------
(* The invariant.                                                          *)

(* Every frame but the innermost is a void function that yielded.          *)
Yielded(s) ==
    \A i \in 1..Len(s) : /\ s[i].fn \notin Blocking /\ s[i].room = -1
                         /\ s[i].ops = Reply(s[i].fn, 0)

(* The arguments that the innermost function waits for.                    *)
Reading == frames # <<>> /\ Does(Top.ops, "args")
Pending == IF Reading THEN Args[Top.fn] ELSE 0

(* What the client reads next.                                             *)
ClientState ==
    IF client.at = "text" THEN client.need
    ELSE IF client.at = "value" THEN -1 ELSE 0

(* The server writes its next unit in state s: no blocking call has come   *)
(* to it (if the program is in one it is the last command), one runs, or   *)
(* its reply is written.                                                   *)
Asked ==
    IF client.at = "program" THEN NoneBlocks(down)
    ELSE \E f \in Fn : f \in Blocking /\ OneBlocks(down, f)
Quiet(s) ==
    \/ (frames = <<>> \/ Top.ops = <<>>) /\ s = 0
    \/ frames # <<>> /\ Top.fn \notin Blocking /\ Stage(Top.fn, 0, Top.ops, s)
Waiting(s) == Asked /\ Quiet(s)
Running(s) ==
    /\ client.at # "program" /\ frames # <<>> /\ Top.fn \in Blocking
    /\ Len(down) = Pending /\ Stage(Top.fn, client.id, Top.ops, s)
Answered(s) ==
    /\ client.at # "program" /\ down = <<>> /\ s = -2
    /\ frames # <<>> /\ Top.ops # <<>> =>
         Top.fn \notin Blocking /\ Top.ops = Reply(Top.fn, 0)
Serving(s) == Waiting(s) \/ Running(s) \/ Answered(s)

InStep == \E s \in States : Serving(s) /\ Parsed(up, ClientState, s, client.id)
Nested == frames # <<>> => Yielded(Tail(frames)) /\ Top.room <= Room
Framing ==
    /\ lost = FALSE /\ Nested
    /\ Whole(down, Pending, Top.fn)
    /\ InStep

(* The innermost function goes on with o.                                  *)
Goes(o, m) ==
    /\ frames' # <<>> /\ Top'.fn = Top.fn /\ Top'.ops = o /\ Top'.room = m
    /\ Tail(frames') = Below

LEMMA RetopGoes ==
    ASSUME Typed, frames # <<>>, NEW o \in Seq(Op), NEW m \in -1..UpSize,
           frames' = <<[Top EXCEPT !.ops = o, !.room = m]>> \o Below
    PROVE  Goes(o, m)
<1> DEFINE t == [Top EXCEPT !.ops = o, !.room = m]
<1>1. Top \in Frame /\ Below \in Seq(Frame) BY TypedTop
<1>2. t \in Frame /\ t.fn = Top.fn /\ t.ops = o /\ t.room = m BY <1>1 DEF Frame
<1> HIDE DEF t
<1>3. /\ <<t>> \o Below \in Seq(Frame) /\ <<t>> \o Below # <<>>
      /\ (<<t>> \o Below)[1] = t /\ Tail(<<t>> \o Below) = Below
  BY <1>1, <1>2, PushFrame
<1>4. frames' = <<t>> \o Below BY DEF t
<1> QED BY <1>2, <1>3, <1>4 DEF Goes, Top

LEMMA OpDoneGoes ==
    ASSUME Typed, frames # <<>>, Top.ops # <<>>, frames' = OpDone
    PROVE  Goes(Tail(Top.ops), -1)
<1>1. Top \in Frame /\ Top.ops \in Seq(Op) BY TypedTop
<1>2. Tail(Top.ops) \in Seq(Op) /\ -1 \in -1 .. UpSize BY <1>1, HeadTailProperties, Numbers
<1>3. OpDone = <<[Top EXCEPT !.ops = Tail(Top.ops), !.room = -1]>> \o Below
  BY <1>1 DEF OpDone, Frame
<1> QED BY <1>2, <1>3, RetopGoes

LEMMA RoomGoes ==
    ASSUME Typed, frames # <<>>, NEW m \in -1..UpSize,
           frames' = <<[Top EXCEPT !.room = m]>> \o Below
    PROVE  Goes(Top.ops, m)
<1>1. Top \in Frame /\ Top.ops \in Seq(Op) BY TypedTop
<1>2. [Top EXCEPT !.room = m] = [Top EXCEPT !.ops = Top.ops, !.room = m]
  BY <1>1 DEF Frame
<1> QED BY <1>1, <1>2, RetopGoes

IdOf == IF Top.fn \in Blocking THEN client.id ELSE 0

LEMMA IdIs == ASSUME Typed PROVE IdOf \in Bit /\ client.id \in Bit /\ 0 \in Bit
BY DEF Typed, IdOf, Bit

(* What the innermost function is doing.                                   *)
LEMMA Runs ==
    ASSUME Typed, frames # <<>>, Top.ops # <<>>, NEW s \in States, Serving(s)
    PROVE  \/ Stage(Top.fn, IdOf, Top.ops, s)
           \/ Answered(s) /\ Top.fn \notin Blocking /\ Top.ops = Reply(Top.fn, 0)
<1>1. CASE Waiting(s) BY <1>1 DEF Waiting, Quiet, IdOf
<1>2. CASE Running(s) BY <1>2 DEF Running, IdOf
<1>3. CASE Answered(s) BY <1>3 DEF Answered
<1> QED BY <1>1, <1>2, <1>3 DEF Serving

(* It leaves the channels alone, or writes to up.                          *)
LEMMA Moves ==
    ASSUME Typed, frames # <<>>, NEW s \in States, NEW t \in States, Serving(s),
           Stage(Top.fn, IdOf, Top.ops, s), ~Does(Top.ops, "args"),
           NEW o, NEW m, Goes(o, m), UNCHANGED <<down, client>>,
           StageOrEnd(Top.fn, IdOf, o, t), ~Does(o, "args")
    PROVE  Serving(t)'
<1>1. Top.fn \in Fn /\ IdOf \in Bit BY TypedTop, IdIs
<1>2. Top.ops # <<>> /\ (Top.fn \notin Blocking => s >= 0) /\ s # -2 BY <1>1, StageType
<1>3. s \in Int BY StatesAre
<1>4. ~Answered(s) BY <1>2 DEF Answered
<1>5. ~Reading /\ ~Reading' BY DEF Reading, Goes
<1>6. frames' # <<>> /\ Top'.fn = Top.fn /\ Top'.ops = o BY DEF Goes
<1>7. CASE Top.fn \in Blocking
  <2>1. Running(s) BY <1>2, <1>4, <1>7 DEF Serving, Waiting, Quiet
  <2>2. Len(down) = 0 /\ client.at # "program" BY <1>5, <2>1 DEF Running, Pending
  <2>3. down = <<>> BY <2>2, EmptySeq DEF Typed
  <2>4. CASE Stage(Top.fn, IdOf, o, t)
    <3>1. Running(t)' BY <1>5, <1>6, <1>7, <2>2, <2>4 DEF Running, Pending, IdOf
    <3> QED BY <3>1 DEF Serving
  <2>5. CASE o = <<>> /\ t = -2
    <3>1. Answered(t)' BY <1>6, <2>2, <2>3, <2>5 DEF Answered
    <3> QED BY <3>1 DEF Serving
  <2> QED BY <1>7, <2>4, <2>5 DEF StageOrEnd
<1>8. CASE Top.fn \notin Blocking
  <2>1. Waiting(s) BY <1>4, <1>8 DEF Serving, Running
  <2>2. Asked' BY <2>1 DEF Waiting, Asked
  <2>3. Quiet(t)' BY <1>6, <1>8 DEF Quiet, StageOrEnd, IdOf
  <2> QED BY <2>2, <2>3 DEF Waiting, Serving
<1> QED BY <1>7, <1>8

LEMMA KeepGoes ==
    ASSUME Typed, Framing, frames # <<>>, NEW o, NEW m, Goes(o, m),
           UNCHANGED <<down, client, lost>>, ~Does(Top.ops, "args"), ~Does(o, "args"),
           m <= Room', NEW s \in States, Serving(s)',
           Parsed(up', ClientState, s, client.id)
    PROVE  Framing'
<1>1. Nested' BY DEF Framing, Nested, Goes, Below
<1>2. ~Reading /\ ~Reading' BY DEF Reading, Goes
<1>3. Pending = 0 /\ Pending' = 0 BY <1>2 DEF Pending
<1>4. Whole(down', Pending', Top'.fn)
  <2>1. Whole(down, 0, Top.fn) BY <1>3 DEF Framing
  <2> QED BY <1>3, <2>1, WholeZero DEF Typed
<1>5. ClientState' = ClientState BY DEF ClientState
<1>6. InStep' BY <1>5 DEF InStep
<1> QED BY <1>1, <1>4, <1>6 DEF Framing
-----------------------------------------------------------------------------
(* The steps of the server.                                                *)
LEMMA KeepRpcWrite ==
    ASSUME Typed, Framing, RpcWrite PROVE Framing'
<1> DEFINE o == Tail(Top.ops)
<1>1. /\ frames # <<>> /\ Top.ops # <<>> /\ Head(Top.ops).do = "rpc"
      /\ Fits(Head(Top.ops).units) /\ up' = up \o Head(Top.ops).units
      /\ frames' = OpDone /\ UNCHANGED <<down, client, lost>>
  BY DEF RpcWrite, Doing
<1>2. Does(Top.ops, "rpc") /\ ~Does(Top.ops, "args") BY <1>1 DEF Does
<1>3. Top.fn \in Fn /\ IdOf \in Bit BY <1>1, TypedTop, IdIs
<1>4. Goes(o, -1) BY <1>1, OpDoneGoes
<1>5. PICK s \in States : Serving(s) /\ Parsed(up, ClientState, s, client.id)
  BY DEF Framing, InStep
<1>6. up \in Seq(UpUnit) /\ Len(up) \in Nat BY LenProperties DEF Typed
<1>7. ASSUME NEW u \in UpUnit, NEW t \in States, Head(Top.ops).units = <<u>>,
             Steps(s, u, t, client.id), Serving(t)', ~Does(o, "args")
      PROVE  Framing'
  <2>1. <<u>> \in Seq(UpUnit) /\ Len(<<u>>) = 1 BY OneUnit
  <2>2. Parsed(<<u>>, s, t, client.id) BY <1>7, ParsedUnit
  <2>3. Parsed(up', ClientState, t, client.id)
    BY <1>1, <1>5, <1>6, <1>7, <2>1, <2>2, ParsedJoin
  <2>4. -1 <= Room'
    <3>1. up' = up \o <<u>> /\ Len(up) + Len(<<u>>) <= UpSize BY <1>1, <1>7 DEF Fits
    <3>2. Len(up') = Len(up) + Len(<<u>>) BY <1>6, <2>1, <3>1, Written
    <3>3. Len(up') <= UpSize /\ Len(up') \in Nat BY <1>6, <2>1, <3>1, <3>2
    <3> QED BY <3>3, Numbers DEF Room
  <2> HIDE DEF o
  <2> QED BY <1>1, <1>2, <1>4, <1>7, <2>3, <2>4, KeepGoes
<1>8. CASE Stage(Top.fn, IdOf, Top.ops, s)
  <2>1. (Top.fn \in Blocking => client.id = IdOf) BY DEF IdOf
  <2>2. PICK f \in Fn, i \in Bit : f = Top.fn /\ i = IdOf BY <1>3
  <2>3. PICK e, p : e = client.id /\ p = Top.ops OBVIOUS
  <2>4. Stage(f, i, p, s) /\ Does(p, "rpc") /\ (f \in Blocking => e = i)
    BY <1>2, <1>8, <2>1, <2>2, <2>3
  <2>5. PICK u \in UpUnit, t \in States :
           /\ Head(p).units = <<u>> /\ Steps(s, u, t, e)
           /\ StageOrEnd(f, i, Tail(p), t) /\ ~Does(Tail(p), "args")
    BY <2>4, StageRpc
  <2>6. Head(Top.ops).units = <<u>> /\ Steps(s, u, t, client.id) BY <2>3, <2>5
  <2> HIDE DEF o
  <2>7. StageOrEnd(Top.fn, IdOf, o, t) /\ ~Does(o, "args") BY <2>2, <2>3, <2>5 DEF o
  <2>8. Serving(t)' BY <1>1, <1>2, <1>4, <1>5, <1>8, <2>7, Moves
  <2> QED BY <1>7, <2>6, <2>7, <2>8
<1>9. CASE Answered(s) /\ Top.fn \notin Blocking /\ Top.ops = Reply(Top.fn, 0)
  <2>1. Head(Top.ops).units = <<<<"void">>>> /\ o = <<>>
    BY <1>3, <1>9, IdIs, ReplyIs
  <2>2. s = -2 /\ Steps(s, <<"void">>, -2, client.id) BY <1>9 DEF Answered, Steps
  <2> HIDE DEF o
  <2>3. Answered(-2)' BY <1>1, <1>4, <1>9, <2>1 DEF Answered, Goes
  <2>4. ~Does(o, "args") BY <2>1 DEF Does
  <2> QED BY <1>7, <2>1, <2>2, <2>3, <2>4, UpUnits, StatesAre DEF Serving
<1> QED BY <1>1, <1>5, <1>8, <1>9, Runs

(* A function that prints is in a stage, and prints something.             *)
LEMMA Printing ==
    ASSUME Typed, frames # <<>>, Does(Top.ops, "print"), NEW s \in States, Serving(s)
    PROVE  /\ Stage(Top.fn, IdOf, Top.ops, s) /\ ~Does(Top.ops, "args")
           /\ Head(Top.ops).units \in Seq(UpUnit) /\ Len(Head(Top.ops).units) >= 1
           /\ Tail(Top.ops) \in Seq(Op)
<1>1. /\ Top.fn \in Fn /\ IdOf \in Bit /\ 0 \in Bit /\ Top.ops # <<>>
      /\ Head(Top.ops).do = "print" /\ Top.ops \in Seq(Op)
  BY TypedTop, IdIs DEF Does
<1>2. ~Does(Reply(Top.fn, 0), "print") BY <1>1, Kinds
<1>3. Stage(Top.fn, IdOf, Top.ops, s) BY <1>1, <1>2, Runs
<1>4. Head(Top.ops) \in Op /\ Tail(Top.ops) \in Seq(Op) BY <1>1, HeadTailProperties
<1>5. Head(Top.ops).units \in Seq(UpUnit) BY <1>1, <1>4 DEF Op
<1>6. Len(Head(Top.ops).units) >= 1
  <2>1. \/ Top.ops = AfterArgs(Top.fn, IdOf) /\ Top.fn \in Prints
        \/ s \in 1..TextLen /\ Top.ops = TextOps(Top.fn, IdOf, s)
    BY <1>1, <1>3, Kinds DEF Stage
  <2>2. CASE Top.ops = AfterArgs(Top.fn, IdOf) /\ Top.fn \in Prints
    <3>1. Head(Top.ops).units = <<<<"print">>>> BY <1>1, <2>2, AfterArgsIs
    <3>2. Len(<<<<"print">>>>) = 1 BY UpUnits, OneUnit
    <3> DEFINE l == Len(Head(Top.ops).units)
    <3>3. l = 1 BY <3>1, <3>2, Zenon
    <3> HIDE DEF l
    <3>4. l >= 1 BY <3>3
    <3> QED BY <3>4 DEF l
  <2>3. CASE s \in 1..TextLen /\ Top.ops = TextOps(Top.fn, IdOf, s)
    <3>1. Head(Top.ops).units = Rep(Text, s) /\ s \in Nat /\ s >= 1
      BY <1>1, <2>3, TextStage, TextLength
    <3>2. Len(Rep(Text, s)) = s BY <3>1, UpUnits, RepIs
    <3> QED BY <3>1, <3>2
  <2> QED BY <2>1, <2>2, <2>3
<1>7. ~Does(Top.ops, "args") BY <1>1 DEF Does
<1> QED BY <1>3, <1>4, <1>5, <1>6, <1>7

LEMMA KeepPrintUnits ==
    ASSUME Typed, Framing, PrintUnits PROVE Framing'
<1> DEFINE u == Head(Top.ops).units
           r == IF Top.room = -1 THEN Room ELSE Top.room
           n == IF Len(u) < r THEN Len(u) ELSE r
           w == SubSeq(u, 1, n)
           o == PrintOps(u, n, Tail(Top.ops))
<1>1. /\ frames # <<>> /\ Top.ops # <<>> /\ Head(Top.ops).do = "print"
      /\ r > 0 /\ up' = Ring(up \o w)
      /\ frames' = IF SubSeq(u, n + 1, Len(u)) = <<>> THEN OpDone
                   ELSE <<[Top EXCEPT !.ops = Act("print", SubSeq(u, n + 1, Len(u))) \o Tail(@),
                                      !.room = -1]>> \o Below
      /\ UNCHANGED <<down, client, lost>>
  BY DEF PrintUnits, Doing
<1>2. Does(Top.ops, "print") BY <1>1 DEF Does
<1>3. PICK s \in States : Serving(s) /\ Parsed(up, ClientState, s, client.id)
  BY DEF Framing, InStep
<1>4. /\ Stage(Top.fn, IdOf, Top.ops, s) /\ ~Does(Top.ops, "args")
      /\ u \in Seq(UpUnit) /\ Len(u) >= 1 /\ Len(u) \in Nat /\ Tail(Top.ops) \in Seq(Op)
  BY <1>1, <1>2, <1>3, Printing, LenProperties
<1>5. Top.fn \in Fn /\ Top \in Frame /\ IdOf \in Bit BY <1>1, TypedTop, IdIs
<1>6. r \in Nat /\ r > 0 /\ r <= Room /\ Room \in Nat
  <2>1. Room \in Nat BY TypedRoom, Numbers
  <2>2. Top.room <= Room /\ Top.room \in -1..UpSize
    BY <1>1, TypedTop DEF Framing, Nested
  <2>3. Top.room \in Int BY <2>2, Numbers
  <2> QED BY <1>1, <2>1, <2>2, <2>3
<1> HIDE DEF u, r
<1>7. n \in 1 .. Len(u) /\ n \in 0 .. Len(u) /\ n <= Room BY <1>4, <1>6
<1> HIDE DEF n
<1>8. w \in Seq(UpUnit) /\ Len(w) = n BY <1>4, <1>7, TakeIs
<1>9. SubSeq(u, n + 1, Len(u)) \in Seq(UpUnit) BY <1>4, <1>7, DropIs
<1>10. PICK t \in States :
          /\ Parsed(SubSeq(u, 1, n), s, t, client.id)
          /\ Stage(Top.fn, IdOf, o, t) /\ ~Does(o, "args")
  BY <1>2, <1>4, <1>5, <1>7, StagePrint DEF u
<1> HIDE DEF w
<1>11. /\ up \in Seq(UpUnit) /\ Len(up) \in Nat /\ Room = UpSize - Len(up)
       /\ UpSize \in Nat /\ Room \in Nat
  BY <1>6, LenProperties, TypedRoom, Numbers DEF Typed
<1>12. up' = up \o w /\ Len(up') = Len(up) + n
  <2>1. Len(up \o w) = Len(up) + n BY <1>8, <1>11, Written
  <2>2. Len(up \o w) <= UpSize BY <1>7, <1>11, <2>1
  <2>3. Ring(up \o w) = up \o w BY <2>2 DEF Ring
  <2> QED BY <1>1, <2>1, <2>3
<1>13. Parsed(up', ClientState, t, client.id)
  <2>1. Parsed(w, s, t, client.id) BY <1>10 DEF w
  <2> QED BY <1>3, <1>8, <1>11, <1>12, <2>1, ParsedJoin
<1>14. Goes(o, -1)
  <2>1. CASE SubSeq(u, n + 1, Len(u)) = <<>>
    <3>1. o = Tail(Top.ops) BY <2>1 DEF PrintOps
    <3> QED BY <1>1, <2>1, <3>1, OpDoneGoes
  <2>2. CASE SubSeq(u, n + 1, Len(u)) # <<>>
    <3>1. o = Act("print", SubSeq(u, n + 1, Len(u))) \o Tail(Top.ops) BY <2>2 DEF PrintOps
    <3>2. o \in Seq(Op) BY <1>4, <1>9, <3>1, ActOps
    <3>3. -1 \in -1..UpSize BY Numbers
    <3>4. frames' = <<[Top EXCEPT !.ops = o, !.room = -1]>> \o Below
      BY <1>1, <1>5, <2>2, <3>1 DEF Frame
    <3> HIDE DEF o
    <3> QED BY <1>1, <3>2, <3>3, <3>4, RetopGoes
  <2> QED BY <2>1, <2>2
<1> HIDE DEF o
<1>15. StageOrEnd(Top.fn, IdOf, o, t) BY <1>10 DEF StageOrEnd
<1>16. Serving(t)' BY <1>1, <1>3, <1>4, <1>10, <1>14, <1>15, Moves
<1>17. -1 <= Room'
  <2>1. Len(up') <= UpSize /\ Len(up') \in Nat BY <1>7, <1>11, <1>12
  <2> QED BY <1>11, <2>1 DEF Room
<1> QED BY <1>1, <1>4, <1>10, <1>13, <1>14, <1>16, <1>17, KeepGoes

(* It looks at the channel.                                                *)
LEMMA Looks ==
    ASSUME Typed, Framing, frames # <<>>, Does(Top.ops, "print"), NEW m \in -1..UpSize,
           m <= Room, frames' = <<[Top EXCEPT !.room = m]>> \o Below,
           UNCHANGED <<down, up, client, lost>>
    PROVE  Framing'
<1>1. PICK s \in States : Serving(s) /\ Parsed(up, ClientState, s, client.id)
  BY DEF Framing, InStep
<1>2. Stage(Top.fn, IdOf, Top.ops, s) /\ ~Does(Top.ops, "args") BY <1>1, Printing
<1>3. Goes(Top.ops, m) BY RoomGoes
<1>4. StageOrEnd(Top.fn, IdOf, Top.ops, s) BY <1>2 DEF StageOrEnd
<1>5. Serving(s)' BY <1>1, <1>2, <1>3, <1>4, Moves
<1>6. Room' = Room BY DEF Room
<1> QED BY <1>1, <1>2, <1>3, <1>5, <1>6, KeepGoes

LEMMA KeepPrintFull ==
    ASSUME Typed, Framing, PrintFull PROVE Framing'
<1>1. /\ frames # <<>> /\ Does(Top.ops, "print") /\ Room = 0
      /\ frames' = <<[Top EXCEPT !.room = 0]>> \o Below
      /\ UNCHANGED <<down, up, client, lost>>
  BY DEF PrintFull, Doing, Does
<1>2. 0 \in -1..UpSize /\ 0 <= Room BY <1>1, Numbers
<1> QED BY <1>1, <1>2, Looks

LEMMA KeepPrintSpin ==
    ASSUME Typed, Framing, PrintSpin, mixed' = {} PROVE Framing'
<1>1. /\ frames # <<>> /\ Does(Top.ops, "print") /\ UNCHANGED <<up, client>>
      /\ HandleEvents(<<[Top EXCEPT !.room = Room]>> \o Below)
      /\ mixed' = mixed \cup (IF CommandThere THEN {"served"} ELSE {})
  BY DEF PrintSpin, Doing, Does
<1>2. ~CommandThere BY <1>1
<1>3. frames' = <<[Top EXCEPT !.room = Room]>> \o Below /\ UNCHANGED <<down, lost>>
  BY <1>1, <1>2 DEF HandleEvents
<1>4. Room \in -1..UpSize /\ Room <= Room BY TypedRoom, Numbers
<1> QED BY <1>1, <1>3, <1>4, Looks

LEMMA KeepReturn ==
    ASSUME Typed, Framing, Return PROVE Framing'
<1>1. /\ frames # <<>> /\ Top.ops = <<>> /\ frames' = Tail(frames)
      /\ UNCHANGED <<down, up, client, lost>>
  BY DEF Return, Below
<1>2. Pending = 0 BY <1>1 DEF Pending, Reading, Does
<1>3. Yielded(Tail(frames)) BY <1>1 DEF Framing, Nested
<1>4. frames' \in Seq(Frame) BY <1>1, TypedTop DEF Below
<1>5. ASSUME frames' # <<>>
      PROVE  /\ Yielded(Tail(frames')) /\ Top'.fn \in Fn /\ Top'.fn \notin Blocking
             /\ Top'.room = -1 /\ Top'.ops = Reply(Top'.fn, 0)
  <2>1. Len(frames') \in Nat \ {0} BY <1>4, <1>5, EmptySeq
  <2>2. 1 \in 1 .. Len(frames') BY <2>1
  <2>3. frames'[1] \in Frame BY <1>4, <2>2, ElementOfSeq
  <2>4. /\ Len(Tail(frames')) = Len(frames') - 1
        /\ \A i \in 1 .. Len(Tail(frames')) : Tail(frames')[i] = frames'[i + 1]
    BY <1>4, <1>5, HeadTailProperties
  <2>5. \A i \in 1 .. Len(Tail(frames')) : i + 1 \in 1 .. Len(frames') BY <2>1, <2>4
  <2>6. Yielded(Tail(frames')) BY <1>1, <1>3, <2>4, <2>5 DEF Yielded
  <2> QED BY <1>1, <1>3, <2>2, <2>3, <2>6 DEF Yielded, Top, Frame
<1>6. Room' = Room /\ -1 <= Room BY <1>1, TypedRoom, Numbers DEF Room
<1>7. Nested' BY <1>5, <1>6 DEF Nested
<1>8. frames' # <<>> => ~Does(Top'.ops, "args") BY <1>5, IdIs, Kinds
<1>9. Pending' = 0 BY <1>8 DEF Pending, Reading
<1>10. Whole(down', Pending', Top'.fn)
  <2>1. Whole(down, 0, Top.fn) BY <1>2 DEF Framing
  <2> QED BY <1>1, <1>9, <2>1, WholeZero DEF Typed
<1>11. PICK s \in States : Serving(s) /\ Parsed(up, ClientState, s, client.id)
  BY DEF Framing, InStep
<1>12. \A e \in Bit : ~Stage(Top.fn, e, Top.ops, s) BY <1>1, TypedTop, StageType
<1>13. Serving(s)'
  <2>1. CASE Waiting(s)
    <3>1. s = 0 BY <1>12, <2>1, IdIs DEF Waiting, Quiet
    <3>2. frames' # <<>> => Stage(Top'.fn, 0, Top'.ops, 0) BY <1>5 DEF Stage
    <3>3. Quiet(0)' BY <1>5, <3>2 DEF Quiet
    <3>4. Asked' BY <1>1, <2>1 DEF Asked, Waiting
    <3> QED BY <3>1, <3>3, <3>4 DEF Waiting, Serving
  <2>2. CASE Running(s) BY <1>12, <2>2, IdIs DEF Running
  <2>3. CASE Answered(s)
    <3>1. Answered(s)' BY <1>1, <1>5, <2>3 DEF Answered
    <3> QED BY <3>1 DEF Serving
  <2> QED BY <1>11, <2>1, <2>2, <2>3 DEF Serving
<1>14. InStep' BY <1>1, <1>11, <1>13 DEF InStep, ClientState
<1> QED BY <1>1, <1>7, <1>10, <1>14 DEF Framing

(* A command is taken, where no function has arguments to read.            *)
LEMMA Take ==
    ASSUME Typed, Framing, Asked, ~Reading, Parsed(up, ClientState, 0, client.id),
           NEW p \in Seq(Frame), Yielded(p), CommandThere, HandleEvents(p),
           UNCHANGED <<up, client>>
    PROVE  Framing'
<1>1. /\ down \in Seq(Unit) /\ Len(down) \in Nat /\ Len(down) >= 1 /\ Pending = 0
      /\ client.id \in Bit /\ down' = Tail(down) /\ Head(down) = down[1]
  BY LenProperties DEF Typed, CommandThere, Pending, HandleEvents
<1>2. Shifted(down, down', 1) /\ 1 \in 0 .. Len(down) /\ Len(down') = Len(down) - 1
  <2>1. down # <<>> BY <1>1, EmptySeq
  <2> QED BY <1>1, <2>1, HeadTailProperties DEF Shifted
<1>3. Whole(down, 0, Top.fn) BY <1>1 DEF Framing
<1>4. PICK f \in Fn : /\ down[1] = <<"header", f>> /\ Args[f] <= Len(down')
                      /\ Whole(down', Args[f], f)
  BY <1>1, <1>2, <1>3, TakeWhole
<1> DEFINE t == [fn |-> f, ops |-> AllOps(f, client.id), room |-> -1]
<1>5. frames' = <<t>> \o p /\ UNCHANGED lost
  <2>1. Head(down)[1] = "header" /\ Head(down)[2] = f BY <1>1, <1>4
  <2>2. Code(f, client.id) = AllOps(f, client.id) BY <1>1, CodeIs
  <2> QED BY <2>1, <2>2 DEF HandleEvents
<1>6. /\ AllOps(f, client.id) \in Seq(Op) /\ AllOps(f, client.id) # <<>>
      /\ Head(AllOps(f, client.id)).do = "args"
  BY <1>1, AllOpsIs
<1>7. t \in Frame /\ t.fn = f /\ t.ops = AllOps(f, client.id) /\ t.room = -1
  BY <1>6, Numbers DEF Frame
<1> HIDE DEF t
<1>8. frames' # <<>> /\ frames'[1] = t /\ Tail(frames') = p
  BY <1>5, <1>7, PushFrame
<1>9. /\ Top'.fn = f /\ Top'.ops = AllOps(f, client.id) /\ Top'.room = -1
      /\ Pending' = Args[f]
  BY <1>6, <1>7, <1>8 DEF Top, Reading, Pending, Does
<1>10. Nested'
  <2>1. Room' = Room /\ -1 <= Room BY TypedRoom, Numbers DEF Room
  <2> QED BY <1>8, <1>9, <2>1 DEF Nested
<1>11. Whole(down', Pending', Top'.fn) BY <1>4, <1>9
<1>12. Serving(0)'
  <2>1. CASE f \notin Blocking
    <3>1. Asked'
      <4>1. NoneBlocks(down) => NoneBlocks(down') BY <1>1, <1>2, ShiftNone
      <4>2. ASSUME NEW g \in Fn, g \in Blocking, OneBlocks(down, g)
            PROVE  OneBlocks(down', g)
        <5>1. \A i \in 1 .. 1 : down[i] # <<"header", g>> BY <1>4, <2>1, <4>2
        <5> QED BY <1>1, <1>2, <4>2, <5>1, ShiftOne
      <4> QED BY <4>1, <4>2 DEF Asked
    <3>2. AllOps(f, client.id) = AllOps(f, 0) BY <1>1, <2>1, VoidCode, CodeIs
    <3>3. Stage(f, 0, AllOps(f, 0), 0) BY DEF Stage
    <3>4. Quiet(0)' BY <1>8, <1>9, <2>1, <3>2, <3>3 DEF Quiet
    <3> QED BY <3>1, <3>4 DEF Serving, Waiting
  <2>2. CASE f \in Blocking
    <3>1. ~NoneBlocks(down)
      <4>1. 1 \in 1 .. Len(down) /\ IsHeader(down, 1) /\ down[1][2] = f
        BY <1>1, <1>4 DEF IsHeader
      <4> QED BY <2>2, <4>1 DEF NoneBlocks
    <3>2. client.at # "program" /\ \E g \in Fn : OneBlocks(down, g) BY <3>1 DEF Asked
    <3>3. PICK g \in Fn : OneBlocks(down, g) BY <3>2
    <3>4. Len(down) = Args[f] + 1 /\ Args[f] \in Nat BY <1>1, <1>4, <2>2, <3>3, OneFirst, Numbers
    <3>5. Len(down') = Args[f] BY <1>2, <3>4
    <3>6. Stage(f, client.id, AllOps(f, client.id), 0) BY DEF Stage
    <3>7. Running(0)' BY <1>8, <1>9, <2>2, <3>2, <3>5, <3>6 DEF Running
    <3> QED BY <3>7 DEF Serving
  <2> QED BY <2>1, <2>2
<1>13. InStep' BY <1>12, StatesAre DEF InStep, ClientState
<1> QED BY <1>5, <1>10, <1>11, <1>13 DEF Framing

LEMMA KeepPoll ==
    ASSUME Typed, Framing, Poll PROVE Framing'
<1>1. frames = <<>> /\ CommandThere /\ HandleEvents(<<>>) /\ UNCHANGED <<up, client>>
  BY DEF Poll
<1>2. PICK s \in States : Serving(s) /\ Parsed(up, ClientState, s, client.id)
  BY DEF Framing, InStep
<1>3. down # <<>> BY <1>1 DEF CommandThere
<1>4. Waiting(s) BY <1>1, <1>2, <1>3 DEF Serving, Running, Answered
<1>5. s = 0 /\ Asked BY <1>1, <1>4 DEF Waiting, Quiet
<1>6. <<>> \in Seq(Frame) /\ Yielded(<<>>) /\ ~Reading BY <1>1 DEF Yielded, Reading
<1> QED BY <1>1, <1>2, <1>5, <1>6, Take

(* A function that yields is left as it will write its reply.              *)
LEMMA YieldedMore ==
    ASSUME Typed, frames # <<>>, Yielded(Below), Top.fn \notin Blocking,
           Tail(Top.ops) = Reply(Top.fn, 0)
    PROVE  OpDone \in Seq(Frame) /\ Yielded(OpDone)
<1> DEFINE t == [Top EXCEPT !.ops = Tail(@), !.room = -1]
           l == Len(Below)
<1>1. Top \in Frame /\ Top.fn \in Fn /\ Below \in Seq(Frame) BY TypedTop
<1>2. t \in Frame /\ t.fn = Top.fn /\ t.ops = Reply(Top.fn, 0) /\ t.room = -1
  <2>1. -1 \in -1..UpSize /\ Reply(Top.fn, 0) \in Seq(Op) BY <1>1, Numbers, IdIs, ReplyIs
  <2> QED BY <1>1, <2>1 DEF Frame
<1> HIDE DEF t
<1> DEFINE q == <<t>> \o Below
<1>3. /\ q \in Seq(Frame) /\ q[1] = t /\ Len(q) = l + 1 /\ l \in Nat
      /\ \A i \in 2 .. l + 1 : q[i] = Below[i - 1]
  BY <1>1, <1>2, Push, LenProperties
<1>4. OpDone = q BY DEF OpDone, t
<1> HIDE DEF q, l
<1>5. ASSUME NEW i \in 1 .. Len(q)
      PROVE  /\ q[i].fn \notin Blocking /\ q[i].room = -1
             /\ q[i].ops = Reply(q[i].fn, 0)
  <2>1. CASE i = 1 BY <1>2, <1>3, <2>1
  <2>2. CASE i # 1
    <3>1. i \in 2 .. l + 1 /\ i - 1 \in 1 .. l BY <1>3, <2>2
    <3>2. q[i] = Below[i - 1] BY <1>3, <3>1
    <3> QED BY <3>1, <3>2 DEF Yielded, l
  <2> QED BY <2>1, <2>2
<1>6. Yielded(q) BY <1>5 DEF Yielded
<1> QED BY <1>3, <1>4, <1>6

LEMMA KeepYield ==
    ASSUME Typed, Framing, Yield PROVE Framing'
<1> DEFINE o == Tail(Top.ops)
<1>1. /\ frames # <<>> /\ Top.ops # <<>> /\ Does(Top.ops, "yield") /\ ~Does(Top.ops, "args")
      /\ HandleEvents(OpDone) /\ UNCHANGED <<up, client>>
  BY DEF Yield, Doing, Does
<1>2. PICK s \in States : Serving(s) /\ Parsed(up, ClientState, s, client.id)
  BY DEF Framing, InStep
<1>3. Top.fn \in Fn /\ IdOf \in Bit /\ 0 \in Bit BY <1>1, TypedTop, IdIs
<1>4. Stage(Top.fn, IdOf, Top.ops, s)
  <2>1. ~Does(Reply(Top.fn, 0), "yield") BY <1>3, Kinds
  <2> QED BY <1>1, <1>2, <2>1, Runs
<1>5. o = Reply(Top.fn, IdOf) /\ s = 0 BY <1>1, <1>3, <1>4, StageYield
<1>6. ~Reading BY <1>1 DEF Reading
<1>7. CASE ~CommandThere
  <2>1. frames' = OpDone /\ UNCHANGED <<down, lost>> BY <1>1, <1>7 DEF HandleEvents
  <2>2. Goes(o, -1) BY <1>1, <2>1, OpDoneGoes
  <2>3. StageOrEnd(Top.fn, IdOf, o, s) BY <1>5 DEF StageOrEnd, Stage
  <2>4. ~Does(o, "args") BY <1>3, <1>5, Kinds
  <2> HIDE DEF o
  <2>5. Serving(s)' BY <1>1, <1>2, <1>4, <2>1, <2>2, <2>3, <2>4, Moves
  <2>6. -1 <= Room' BY <1>1, TypedRoom, Numbers DEF Room
  <2> QED BY <1>1, <1>2, <2>1, <2>2, <2>4, <2>5, <2>6, KeepGoes
<1>8. CASE CommandThere
  <2>1. Len(down) # 0
    <3>1. Len(down) >= 1 BY <1>8 DEF CommandThere
    <3> QED BY <3>1
  <2>2. ~Running(s) BY <1>6, <2>1 DEF Running, Pending
  <2>3. ~Answered(s) BY <1>5 DEF Answered
  <2>4. Waiting(s) BY <1>2, <2>2, <2>3 DEF Serving
  <2>5. Asked /\ Top.fn \notin Blocking BY <1>1, <2>4 DEF Waiting, Quiet
  <2>6. Yielded(Below) BY <1>1 DEF Framing, Nested, Below
  <2>7. o = Reply(Top.fn, 0) BY <1>5, <2>5 DEF IdOf
  <2>8. OpDone \in Seq(Frame) /\ Yielded(OpDone) BY <1>1, <2>5, <2>6, <2>7, YieldedMore
  <2> QED BY <1>1, <1>2, <1>5, <1>6, <1>8, <2>5, <2>8, Take
<1> QED BY <1>7, <1>8

(* The arguments of the innermost call are there and are its own.          *)
LEMMA KeepReadArgs ==
    ASSUME Typed, Framing, ReadArgs PROVE Framing'
<1> DEFINE n == Args[Top.fn]
           o == Tail(Top.ops)
<1>1. /\ frames # <<>> /\ Top.ops # <<>> /\ Does(Top.ops, "args")
      /\ down' = SubSeq(down, n + 1, Len(down))
      /\ lost' = (SubSeq(down, 1, n) # Rep(<<"arg", Top.fn>>, n))
      /\ frames' = OpDone /\ UNCHANGED <<up, client>>
  BY DEF ReadArgs, Doing, Does
<1>2. /\ Top.fn \in Fn /\ n \in Nat /\ down \in Seq(Unit) /\ Len(down) \in Nat
      /\ IdOf \in Bit /\ 0 \in Bit
  BY <1>1, TypedTop, IdIs, Numbers, LenProperties DEF Typed
<1>3. Reading /\ Pending = n BY <1>1 DEF Reading, Pending
<1>4. /\ Whole(down, n, Top.fn) /\ n \in 0 .. Len(down)
      /\ \A k \in 1 .. n : down[k] = <<"arg", Top.fn>>
  <2>1. Whole(down, n, Top.fn) BY <1>3 DEF Framing
  <2> QED BY <1>2, <2>1 DEF Whole
<1> HIDE DEF n
<1>5. lost' = FALSE
  <2>1. /\ SubSeq(down, 1, n) \in Seq(Unit) /\ Len(SubSeq(down, 1, n)) = n
        /\ \A i \in 1 .. n : SubSeq(down, 1, n)[i] = down[i]
    BY <1>2, <1>4, TakeIs
  <2>2. <<"arg", Top.fn>> \in Unit BY <1>2, UnitTypes
  <2>3. /\ Rep(<<"arg", Top.fn>>, n) \in Seq(Unit) /\ Len(Rep(<<"arg", Top.fn>>, n)) = n
        /\ \A i \in 1 .. n : Rep(<<"arg", Top.fn>>, n)[i] = <<"arg", Top.fn>>
    BY <1>2, <2>2, RepIs
  <2>4. SubSeq(down, 1, n) = Rep(<<"arg", Top.fn>>, n)
    BY <1>4, <2>1, <2>3, SameSeq
  <2> QED BY <1>1, <2>4
<1>6. Shifted(down, down', n) /\ Len(down') = Len(down) - n /\ down' \in Seq(Unit)
  BY <1>1, <1>2, <1>4, DropIs DEF Shifted
<1>7. PICK s \in States : Serving(s) /\ Parsed(up, ClientState, s, client.id)
  BY DEF Framing, InStep
<1>8. Stage(Top.fn, IdOf, Top.ops, s)
  <2>1. ~Does(Reply(Top.fn, 0), "args") BY <1>2, Kinds
  <2> QED BY <1>1, <1>7, <2>1, Runs
<1>9. Stage(Top.fn, IdOf, o, s) /\ ~Does(o, "args") /\ s = 0
  BY <1>1, <1>2, <1>8, StageArgs
<1>10. Goes(o, -1) BY <1>1, OpDoneGoes
<1> HIDE DEF o
<1>11. frames' # <<>> /\ Top'.fn = Top.fn /\ Top'.ops = o /\ ~Reading' /\ Pending' = 0
  BY <1>9, <1>10 DEF Goes, Reading, Pending
<1>12. Nested'
  <2>1. Room' = Room /\ -1 <= Room BY <1>1, TypedRoom, Numbers DEF Room
  <2> QED BY <1>1, <1>10, <2>1 DEF Framing, Nested, Goes, Below
<1>13. Whole(down', Pending', Top'.fn) BY <1>2, <1>4, <1>6, <1>11, DropWhole
<1>14. Serving(s)'
  <2>1. CASE Waiting(s)
    <3>1. Asked'
      <4>1. NoneBlocks(down) => NoneBlocks(down') BY <1>2, <1>4, <1>6, ShiftNone
      <4>2. ASSUME NEW g \in Fn, OneBlocks(down, g) PROVE OneBlocks(down', g)
        <5>1. \A i \in 1 .. n : down[i] # <<"header", g>> BY <1>4
        <5> QED BY <1>2, <1>4, <1>6, <4>2, <5>1, ShiftOne
      <4> QED BY <1>1, <2>1, <4>1, <4>2 DEF Waiting, Asked
    <3>2. Quiet(s)' BY <1>1, <1>9, <1>11, <2>1 DEF Waiting, Quiet, IdOf
    <3> QED BY <3>1, <3>2 DEF Serving, Waiting
  <2>2. CASE Running(s)
    <3>1. Len(down') = 0 BY <1>2, <1>3, <1>6, <2>2 DEF Running
    <3>2. Running(s)' BY <1>1, <1>9, <1>11, <2>2, <3>1 DEF Running, IdOf
    <3> QED BY <3>2 DEF Serving
  <2>3. CASE Answered(s) BY <1>9, <2>3 DEF Answered
  <2> QED BY <1>7, <2>1, <2>2, <2>3 DEF Serving
<1>15. InStep' BY <1>1, <1>7, <1>14 DEF InStep, ClientState
<1> QED BY <1>5, <1>12, <1>13, <1>15 DEF Framing
-----------------------------------------------------------------------------
(* The steps of the client.                                                *)
LEMMA KeepCall ==
    ASSUME Typed, Framing, NEW f \in Fn, Call(f), mixed' = {} PROVE Framing'
<1> DEFINE m == Message(f)
           z == Space
<1>1. /\ client.at = "program" /\ down' = down \o Fitting(m)
      /\ mixed' = mixed \cup (IF Args[f] + 1 > Space THEN {"cut"} ELSE {})
      /\ client' = IF f \in Blocking
                   THEN [client EXCEPT !.at = "command", !.id = 1 - @]
                   ELSE client
      /\ UNCHANGED <<up, frames, lost>>
  BY DEF Call
<1>2. /\ down \in Seq(Unit) /\ Len(down) \in Nat /\ Args[f] \in Nat
      /\ m \in Seq(Unit) /\ Len(m) = Args[f] + 1 /\ z \in Int
  BY MessageIs, Numbers, LenProperties DEF Typed, Space
<1>3. ~(Args[f] + 1 > z) BY <1>1
<1>4. Fitting(m) = m
  <2>1. Fitting(m) = SubSeq(m, 1, IF Len(m) < z THEN Len(m) ELSE z) BY DEF Fitting
  <2> HIDE DEF m, z
  <2> DEFINE l == Len(m)
  <2>2. l \in Nat /\ ~(l > z) /\ z \in Int BY <1>2, <1>3
  <2> HIDE DEF l
  <2>3. (IF l < z THEN l ELSE z) = l BY <2>2
  <2>4. SubSeq(m, 1, Len(m)) = m BY <1>2
  <2> QED BY <2>1, <2>3, <2>4 DEF l
<1>5. Put(down, down', f) BY <1>1, <1>2, <1>4, PutIs
<1> HIDE DEF m, z
<1>6. PICK s \in States : Serving(s) /\ Parsed(up, ClientState, s, client.id)
  BY DEF Framing, InStep
<1>7. NoneBlocks(down) /\ Quiet(s)
  BY <1>1, <1>6 DEF Serving, Running, Answered, Waiting, Asked
<1>8. Pending' = Pending /\ Top' = Top /\ Pending \in Nat
  <2>1. frames # <<>> => Args[Top.fn] \in Nat BY TypedTop, Numbers
  <2> QED BY <1>1, <2>1 DEF Pending, Reading, Top
<1>9. Whole(down', Pending', Top'.fn)
  <2>1. Whole(down, Pending, Top.fn) BY DEF Framing
  <2> QED BY <1>2, <1>5, <1>8, <2>1, PutWhole
<1>10. Nested' BY <1>1, <1>8 DEF Framing, Nested, Room
<1>11. client \in [at : {"program", "command", "text", "value"}, id : Bit,
                   need : 0..TextLen]
  BY DEF Typed
<1>12. ClientState = 0 /\ ClientState' = 0
  <2>1. client'.at \in {"program", "command"} BY <1>1, <1>11
  <2> QED BY <1>1, <2>1 DEF ClientState
<1>13. Parsed(up', 0, s, client'.id)
  <2>1. s \in Int BY StatesAre
  <2>2. s >= 0
    <3>1. CASE s = 0 BY <3>1
    <3>2. CASE frames # <<>> /\ Top.fn \notin Blocking /\ Stage(Top.fn, 0, Top.ops, s)
      BY <3>2, TypedTop, IdIs, StageType
    <3> QED BY <1>7, <3>1, <3>2 DEF Quiet
  <2>3. up \in Seq(UpUnit) BY DEF Typed
  <2> QED BY <1>1, <1>6, <1>12, <2>2, <2>3, ParsedFresh
<1>14. Serving(s)'
  <2>1. Quiet(s)' BY <1>1, <1>7, <1>8 DEF Quiet
  <2>2. Asked'
    <3>1. CASE f \in Blocking
      <4>1. client'.at = "command" BY <1>1, <1>11, <3>1
      <4>2. OneBlocks(down', f) BY <1>2, <1>5, <1>7, <3>1, PutBlocks
      <4> QED BY <3>1, <4>1, <4>2 DEF Asked
    <3>2. CASE f \notin Blocking
      <4>1. NoneBlocks(down') BY <1>2, <1>5, <1>7, <3>2, PutBlocks
      <4> QED BY <1>1, <3>2, <4>1 DEF Asked
    <3> QED BY <3>1, <3>2
  <2> QED BY <2>1, <2>2 DEF Serving, Waiting
<1>15. InStep' BY <1>12, <1>13, <1>14 DEF InStep
<1> QED BY <1>1, <1>9, <1>10, <1>15 DEF Framing

(* The client reads a unit.                                                *)
LEMMA Reads ==
    ASSUME Typed, Framing, NEW at \in {"command", "text", "value"}, NEW good, Expect(at, good)
    PROVE  /\ client.at = at /\ lost' = (Head(up) \notin good) /\ UNCHANGED <<down, frames>>
           /\ \E s, r \in States :
                 /\ Serving(s) /\ Steps(ClientState, Head(up), r, client.id)
                 /\ Parsed(up', r, s, client.id)
           /\ Nested' /\ Whole(down', Pending', Top'.fn)
<1>1. /\ client.at = at /\ up # <<>> /\ up' = Tail(up)
      /\ lost' = (Head(up) \notin good) /\ UNCHANGED <<down, frames>>
  BY DEF Expect
<1>2. up \in Seq(UpUnit) BY DEF Typed
<1>3. PICK s \in States : Serving(s) /\ Parsed(up, ClientState, s, client.id)
  BY DEF Framing, InStep
<1>4. PICK i : i = client.id OBVIOUS
<1>5. PICK c : c = ClientState OBVIOUS
<1>6. \E r \in States : Steps(c, Head(up), r, i) /\ Parsed(Tail(up), r, s, i)
  BY <1>1, <1>2, <1>3, <1>4, <1>5, ParsedRead
<1>7. Nested'
  <2>1. Len(up') = Len(up) - 1 /\ Len(up) \in Nat
    BY <1>1, <1>2, HeadTailProperties, LenProperties
  <2>2. Room <= Room' /\ Room \in Int /\ Room' \in Int BY <2>1, Numbers DEF Room
  <2>3. frames # <<>> => Top.room \in Int /\ Top.room <= Room
    BY TypedTop, Numbers DEF Framing, Nested
  <2>4. frames # <<>> => Top.room <= Room' BY <2>2, <2>3
  <2> QED BY <1>1, <2>4 DEF Framing, Nested, Top
<1>8. Whole(down', Pending', Top'.fn) BY <1>1 DEF Framing, Pending, Reading, Top
<1> QED BY <1>1, <1>3, <1>4, <1>5, <1>6, <1>7, <1>8

(* It still waits for the reply.                                           *)
LEMMA ReadsOn ==
    ASSUME NEW s \in States, Serving(s), client.at # "program", client'.at # "program",
           client'.id = client.id, UNCHANGED <<down, frames>>,
           Parsed(up', ClientState', s, client.id)
    PROVE  InStep'
<1>1. Serving(s)'
  <2>1. CASE Waiting(s)
    <3>1. Waiting(s)' BY <2>1 DEF Waiting, Asked, Quiet, Top
    <3> QED BY <3>1 DEF Serving
  <2>2. CASE Running(s)
    <3>1. Running(s)' BY <2>2 DEF Running, Pending, Reading, Top
    <3> QED BY <3>1 DEF Serving
  <2>3. CASE Answered(s)
    <3>1. Answered(s)' BY <2>3 DEF Answered, Top
    <3> QED BY <3>1 DEF Serving
  <2> QED BY <2>1, <2>2, <2>3 DEF Serving
<1> QED BY <1>1 DEF InStep

LEMMA KeepReadCommand ==
    ASSUME Typed, Framing, ReadCommand PROVE Framing'
<1>1. Expect("command", {<<"void">>, <<"ret">>, <<"print">>}) BY DEF ReadCommand
<1>2. /\ client.at = "command" /\ UNCHANGED <<down, frames>>
      /\ lost' = (Head(up) \notin {<<"void">>, <<"ret">>, <<"print">>})
      /\ Nested' /\ Whole(down', Pending', Top'.fn)
  BY <1>1, Reads
<1>3. PICK s \in States, r \in States :
         /\ Serving(s) /\ Steps(ClientState, Head(up), r, client.id)
         /\ Parsed(up', r, s, client.id)
  BY <1>1, Reads
<1>4. ClientState = 0 BY <1>2 DEF ClientState
<1>5. client \in [at : {"program", "command", "text", "value"}, id : Bit,
                  need : 0..TextLen]
  BY DEF Typed
<1>6. \/ Head(up) = <<"void">> /\ r = 0
      \/ Head(up) = <<"print">> /\ r = TextLen
      \/ Head(up) = <<"ret">> /\ r = -1
  BY <1>3, <1>4 DEF Steps
<1>7. lost' = FALSE BY <1>2, <1>6
<1>8. /\ client'.at # "program" /\ client'.id = client.id /\ ClientState' = r
  <2>1. CASE Head(up) = <<"void">> /\ r = 0
    <3>1. Head(up) # <<"ret">> /\ Head(up) # <<"print">> BY <2>1
    <3>2. client' = client BY <3>1 DEF ReadCommand
    <3> QED BY <1>2, <2>1, <3>2 DEF ClientState
  <2>2. CASE Head(up) = <<"print">> /\ r = TextLen
    <3>1. Head(up) # <<"ret">> BY <2>2
    <3>2. client' = [client EXCEPT !.at = "text", !.need = TextLen]
      BY <2>2, <3>1 DEF ReadCommand
    <3>3. client'.at = "text" /\ client'.need = TextLen /\ client'.id = client.id
      BY <1>5, <3>2
    <3> QED BY <2>2, <3>3 DEF ClientState
  <2>3. CASE Head(up) = <<"ret">> /\ r = -1
    <3>1. Head(up) # <<"print">> BY <2>3
    <3>2. client' = [client EXCEPT !.at = "value"] BY <2>3, <3>1 DEF ReadCommand
    <3>3. client'.at = "value" /\ client'.id = client.id BY <1>5, <3>2
    <3> QED BY <2>3, <3>3 DEF ClientState
  <2> QED BY <1>6, <2>1, <2>2, <2>3
<1>9. InStep' BY <1>2, <1>3, <1>8, ReadsOn
<1> QED BY <1>2, <1>7, <1>9 DEF Framing

LEMMA KeepReadText ==
    ASSUME Typed, Framing, ReadText PROVE Framing'
<1>1. Expect("text", {<<"text">>}) BY DEF ReadText
<1>2. /\ client.at = "text" /\ UNCHANGED <<down, frames>>
      /\ lost' = (Head(up) \notin {<<"text">>})
      /\ Nested' /\ Whole(down', Pending', Top'.fn)
  BY <1>1, Reads
<1>3. PICK s \in States, r \in States :
         /\ Serving(s) /\ Steps(ClientState, Head(up), r, client.id)
         /\ Parsed(up', r, s, client.id)
  BY <1>1, Reads
<1>4. client \in [at : {"program", "command", "text", "value"}, id : Bit,
                  need : 0..TextLen]
  BY DEF Typed
<1>5. ClientState = client.need /\ client.need \in Nat /\ client.need >= 1
  BY <1>2, <1>4, Numbers DEF ClientState, Typed
<1>6. Head(up) = <<"text">> /\ r = client.need - 1 BY <1>3, <1>5 DEF Steps, Text
<1>7. lost' = FALSE BY <1>2, <1>6
<1>8. client' = IF client.need = 1 THEN [client EXCEPT !.at = "command", !.need = 0]
                                   ELSE [client EXCEPT !.need = client.need - 1]
  BY <1>4 DEF ReadText
<1>9. /\ client'.at # "program" /\ client'.id = client.id /\ ClientState' = r
  <2>1. CASE client.need = 1
    <3>1. client'.at = "command" /\ client'.id = client.id BY <1>4, <1>8, <2>1
    <3>2. r = 0 BY <1>6, <2>1
    <3> QED BY <3>1, <3>2 DEF ClientState
  <2>2. CASE client.need # 1
    <3>1. client'.at = "text" /\ client'.id = client.id /\ client'.need = client.need - 1
      BY <1>2, <1>4, <1>8, <2>2
    <3> QED BY <1>6, <3>1 DEF ClientState
  <2> QED BY <2>1, <2>2
<1>10. InStep' BY <1>2, <1>3, <1>9, ReadsOn
<1> QED BY <1>2, <1>7, <1>10 DEF Framing

LEMMA KeepReadValue ==
    ASSUME Typed, Framing, ReadValue PROVE Framing'
<1>1. Expect("value", {<<"val", client.id>>}) BY DEF ReadValue
<1>2. /\ client.at = "value" /\ UNCHANGED <<down, frames>>
      /\ lost' = (Head(up) \notin {<<"val", client.id>>})
      /\ Nested' /\ Whole(down', Pending', Top'.fn)
  BY <1>1, Reads
<1>3. PICK s \in States, r \in States :
         /\ Serving(s) /\ Steps(ClientState, Head(up), r, client.id)
         /\ Parsed(up', r, s, client.id)
  BY <1>1, Reads
<1>4. ClientState = -1 BY <1>2 DEF ClientState
<1>5. Head(up) = <<"val", client.id>> /\ r = -2 BY <1>3, <1>4 DEF Steps
<1>6. lost' = FALSE BY <1>2, <1>5
<1>7. up' \in Seq(UpUnit)
  <2>1. up \in Seq(UpUnit) /\ up # <<>> /\ up' = Tail(up) BY <1>1 DEF Typed, Expect
  <2> QED BY <2>1, HeadTailProperties
<1>8. s = -2 /\ Parsed(up', 0, 0, client.id) BY <1>3, <1>5, <1>7, ParsedOver
<1>9. Answered(s)
  <2>1. frames # <<>> => \A e \in Bit : ~Stage(Top.fn, e, Top.ops, s)
    BY <1>8, TypedTop, StageType
  <2>2. ~Waiting(s) /\ ~Running(s) BY <1>8, <2>1, IdIs DEF Waiting, Quiet, Running
  <2> QED BY <1>3, <2>2 DEF Serving
<1>10. client \in [at : {"program", "command", "text", "value"}, id : Bit,
                   need : 0..TextLen]
  BY DEF Typed
<1>11. client'.at = "program" /\ client'.id = client.id BY <1>10 DEF ReadValue
<1>12. Serving(0)'
  <2>1. Asked' BY <1>2, <1>9, <1>11 DEF Answered, Asked, NoneBlocks
  <2>2. Stage(Top.fn, 0, Reply(Top.fn, 0), 0) BY DEF Stage
  <2>3. Quiet(0)' BY <1>2, <1>9, <2>2 DEF Answered, Quiet, Top
  <2> QED BY <2>1, <2>3 DEF Serving, Waiting
<1>13. ClientState' = 0 BY <1>11 DEF ClientState
<1>14. InStep' BY <1>8, <1>11, <1>12, <1>13, StatesAre DEF InStep
<1> QED BY <1>2, <1>6, <1>14 DEF Framing
-----------------------------------------------------------------------------
(* Until a command is cut or a call is served inside of a print, neither   *)
(* end ever takes a unit for something it is not: the value a call returns *)
(* is its own, whatever void functions reply and print before it and       *)
(* however small the channels are (rpc.py:496-522,735-742,876-891).        *)
THEOREM AlwaysFramed == Spec => []Framed
<1> DEFINE IInv == Typed /\ (Framing \/ mixed # {})
<1>1. Init => IInv
  <2> SUFFICES ASSUME Init PROVE IInv OBVIOUS
  <2>1. /\ down = <<>> /\ up = <<>> /\ frames = <<>> /\ lost = FALSE
        /\ client = [at |-> "program", id |-> 0, need |-> 0]
    BY DEF Init
  <2>2. Nested /\ Pending = 0 BY <2>1 DEF Nested, Pending, Reading
  <2>3. Whole(down, Pending, Top.fn) /\ NoneBlocks(down) BY <2>1, <2>2 DEF Whole, NoneBlocks
  <2>4. ClientState = 0 BY <2>1 DEF ClientState
  <2>5. Serving(0) BY <2>1, <2>3 DEF Serving, Waiting, Asked, Quiet
  <2>6. Parsed(up, 0, 0, client.id) BY <2>1, ParsedNone, StatesAre
  <2>7. InStep BY <2>4, <2>5, <2>6, StatesAre DEF InStep
  <2> QED BY <2>1, <2>2, <2>3, <2>7, InitTyped DEF Framing
<1>2. IInv /\ [Next]_vars => IInv'
  <2> SUFFICES ASSUME IInv, [Next]_vars PROVE IInv' OBVIOUS
  <2>1. Typed' BY NextTyped
  <2>2. mixed # {} => mixed' # {}
    BY DEF Next, Server, vars, Poll, Return, ReadArgs, Yield, RpcWrite, PrintUnits,
           PrintFull, PrintSpin, Call, Expect, ReadCommand, ReadText, ReadValue
  <2>3. ASSUME Framing, mixed' = {} PROVE Framing'
    <3>1. CASE Poll BY <2>3, <3>1, KeepPoll
    <3>2. CASE Return BY <2>3, <3>2, KeepReturn
    <3>3. CASE ReadArgs BY <2>3, <3>3, KeepReadArgs
    <3>4. CASE Yield BY <2>3, <3>4, KeepYield
    <3>5. CASE RpcWrite BY <2>3, <3>5, KeepRpcWrite
    <3>6. CASE PrintUnits BY <2>3, <3>6, KeepPrintUnits
    <3>7. CASE PrintFull BY <2>3, <3>7, KeepPrintFull
    <3>8. CASE PrintSpin BY <2>3, <3>8, KeepPrintSpin
    <3>9. ASSUME NEW f \in Fn, Call(f) PROVE Framing' BY <2>3, <3>9, KeepCall
    <3>10. CASE ReadCommand BY <2>3, <3>10, KeepReadCommand
    <3>11. CASE ReadText BY <2>3, <3>11, KeepReadText
    <3>12. CASE ReadValue BY <2>3, <3>12, KeepReadValue
    <3>13. CASE UNCHANGED vars
      <4>1. Nested' /\ Whole(down', Pending', Top'.fn)
        BY <2>3, <3>13 DEF vars, Framing, Nested, Room, Pending, Reading, Top
      <4>2. InStep'
        BY <2>3, <3>13 DEF vars, Framing, InStep, Serving, Waiting, Asked, Quiet, Running,
                           Answered, Pending, Reading, Top, ClientState
      <4> QED BY <2>3, <3>13, <4>1, <4>2 DEF vars, Framing
    <3> QED
      BY <3>1, <3>2, <3>3, <3>4, <3>5, <3>6, <3>7, <3>8, <3>9, <3>10, <3>11, <3>12, <3>13
      DEF Next, Server
  <2> QED BY <2>1, <2>2, <2>3
<1>3. IInv => Framed BY DEF Framing, Framed
<1> HIDE DEF IInv
<1> QED BY <1>1, <1>2, <1>3, PTL DEF Spec
=============================================================================
