---------------------------- MODULE MicroblazeRPC ----------------------------
(***************************************************************************)
(* The remote procedure calls of src/pynq/lib/pynqmicroblaze/rpc.py: a     *)
(* Python program calls functions that run on a Microblaze, over the two   *)
(* RPC channels of the mailbox (MBChannel; here bounded queues of units).  *)
(* The server is the code FuncAdapter and _build_main generate.  It is     *)
(* single-threaded but re-entrant: yield() and a write that finds its      *)
(* channel full both call _handle_events inside of a running function.     *)
(*                                                                         *)
(* A command is a header and the units of its arguments.  A reply is the   *)
(* command byte void, or ret and the value; a print (pyprintf) is the      *)
(* command byte print, with the length of the text, and the text.          *)
(***************************************************************************)
EXTENDS Integers, Sequences, FiniteSets

CONSTANTS
    Fn,             \* functions of the Microblaze program
    Blocking,       \* those with a return value or a non-const pointer
    Args,           \* Args[f] : units its arguments take
    Prints,         \* functions that print ...
    TextLen,        \* ... a text of so many units
    Yields,         \* functions that call yield()
    DownSize, UpSize,   \* what the two channels can hold
    MaxBehind       \* bound: calls unfinished when a void one is made

ASSUME RPCAssumption ==
    /\ Blocking \subseteq Fn
    /\ Args \in [Fn -> Nat]
    /\ TextLen \in Nat \ {0} /\ DownSize \in Nat \ {0} /\ UpSize \in Nat \ {0}
    /\ MaxBehind \in Nat \ {0}

VARIABLES
    down,       \* RPCIN: <<"header", f>> and <<"arg", f>> units
    up,         \* RPCOUT: command bytes, text units and <<"val", id>>
    frames,     \* calls the server is inside of, innermost first
    client,     \* what the Python program is doing
    lost,       \* an end took a unit for something it is not
    mixed       \* history: "cut" when a command did not fit, "served" when a
                \* call was served inside of a print

vars == <<down, up, frames, client, lost, mixed>>

Rep(x, n) == [k \in 1..n |-> x]
Bit == 0..1

(* What is left to do in a running function: read the arguments, write     *)
(* units with complete_write or with _rpc_write, call yield.  room is the  *)
(* local "available" of a mailbox_write that found the channel full.       *)
Unit == {<<"header", f>> : f \in Fn} \cup {<<"arg", f>> : f \in Fn}
UpUnit == {<<c>> : c \in {"void", "ret", "print", "text"}}
          \cup {<<"val", b>> : b \in Bit}
Op == [do : {"args", "yield"}, units : {<<>>}]
      \cup [do : {"print", "rpc"}, units : Seq(UpUnit)]

TypeOK ==
    /\ down \in Seq(Unit) /\ Len(down) <= DownSize
    /\ up \in Seq(UpUnit) /\ Len(up) <= UpSize
    /\ \A i \in 1..Len(frames) :
        /\ frames[i].fn \in Fn /\ frames[i].ops \in Seq(Op)
        /\ frames[i].room \in -1..UpSize
    /\ client.at \in {"program", "command", "text", "value"}
    /\ client.id \in Bit /\ client.need \in 0..TextLen
    /\ lost \in BOOLEAN /\ mixed \subseteq {"cut", "served"}

Init ==
    /\ down = <<>> /\ up = <<>> /\ frames = <<>>
    /\ client = [at |-> "program", id |-> 0, need |-> 0]
    /\ lost = FALSE /\ mixed = {}

-----------------------------------------------------------------------------
(* The code generated for one function.                                    *)
Act(do, units) == <<[do |-> do, units |-> units]>>

(* Mutant: a function without a result does not say which kind it is.      *)
ReplySame(f, id) ==
    Act("rpc", <<<<"ret">>>>) \o
    (IF f \in Blocking THEN Act("rpc", <<<<"val", id>>>>) ELSE <<>>)
Reply(f, id) ==
    IF f \in Blocking
    THEN Act("rpc", <<<<"ret">>>>) \o Act("rpc", <<<<"val", id>>>>)
    ELSE Act("rpc", <<<<"void">>>>)

Code(f, id) ==
    Act("args", <<>>)
    \o (IF f \in Prints
        THEN Act("print", <<<<"print">>>>) \o Act("print", Rep(<<"text">>, TextLen))
        ELSE <<>>)
    \o (IF f \in Yields THEN Act("yield", <<>>) ELSE <<>>)
    \o Reply(f, id)

(* _handle_events finds a whole header.  Mutant: off by one.               *)
CommandThereLate == Len(down) > 1
CommandThere == Len(down) >= 1

(* _handle_events called with stack s below it: nothing, or a new frame.   *)
HandleEvents(s) ==
    IF CommandThere
    THEN /\ down' = Tail(down)
         /\ LET u == Head(down)
            IN  IF u[1] = "header"
                THEN /\ frames' = <<[fn |-> u[2], ops |-> Code(u[2], client.id),
                                     room |-> -1]>> \o s
                     /\ UNCHANGED lost
                ELSE lost' = TRUE /\ frames' = s
    ELSE frames' = s /\ UNCHANGED <<down, lost>>

Top == frames[1]
Doing(what) ==
    ~lost /\ frames # <<>> /\ Top.ops # <<>> /\ Head(Top.ops).do = what
Below == Tail(frames)
OpDone == <<[Top EXCEPT !.ops = Tail(@), !.room = -1]>> \o Below

(* main's loop.                                                            *)
Poll ==
    /\ ~lost /\ frames = <<>> /\ CommandThere
    /\ HandleEvents(<<>>)
    /\ UNCHANGED <<up, client, mixed>>

Return ==
    /\ ~lost /\ frames # <<>> /\ Top.ops = <<>>
    /\ frames' = Below
    /\ UNCHANGED <<down, up, client, lost, mixed>>

(* _rpc_read of the arguments: waits until they are all there.  Mutant:    *)
(* waits for the next command as well.                                     *)
ArgsThereLate(n) == Len(down) > n
ArgsThere(n) == Len(down) >= n

ReadArgs ==
    /\ Doing("args")
    /\ LET n == Args[Top.fn]
       IN  /\ ArgsThere(n)
           /\ down' = SubSeq(down, n + 1, Len(down))
           /\ lost' = (SubSeq(down, 1, n) # Rep(<<"arg", Top.fn>>, n))
    /\ frames' = OpDone
    /\ UNCHANGED <<up, client, mixed>>

Yield ==
    /\ Doing("yield")
    /\ HandleEvents(OpDone)
    /\ UNCHANGED <<up, client, mixed>>

(* _rpc_write: waits until all of it fits.                                 *)
Fits(u) == Len(up) + Len(u) <= UpSize

RpcWrite ==
    /\ Doing("rpc")
    /\ LET u == Head(Top.ops).units
       IN  Fits(u) /\ up' = up \o u
    /\ frames' = OpDone
    /\ UNCHANGED <<down, client, lost, mixed>>

(* What the reader finds after n units were written, however many fitted:  *)
(* a write pointer that passes the read pointer has come round the ring.   *)
Ring(q) == IF Len(q) <= UpSize THEN q ELSE SubSeq(q, UpSize + 2, Len(q))

Room == UpSize - Len(up)

(* mailbox_write under complete_write, with room computed before           *)
(* _handle_events was called if the channel was found full.                *)
PrintUnits ==
    /\ Doing("print")
    /\ LET u == Head(Top.ops).units
           room == IF Top.room = -1 THEN Room ELSE Top.room
           n == IF Len(u) < room THEN Len(u) ELSE room
           rest == SubSeq(u, n + 1, Len(u))
       IN  /\ room > 0
           /\ up' = Ring(up \o SubSeq(u, 1, n))
           /\ frames' = IF rest = <<>> THEN OpDone
                        ELSE <<[Top EXCEPT !.ops = Act("print", rest) \o Tail(@),
                                           !.room = -1]>> \o Below
    /\ UNCHANGED <<down, client, lost, mixed>>

(* The channel was full at the first look: look again, serve a command.    *)
PrintFull ==
    /\ Doing("print")
    /\ Top.room = -1 /\ Room = 0
    /\ frames' = <<[Top EXCEPT !.room = 0]>> \o Below
    /\ UNCHANGED <<down, up, client, lost, mixed>>

PrintSpin ==
    /\ Doing("print")
    /\ Top.room = 0
    /\ HandleEvents(<<[Top EXCEPT !.room = Room]>> \o Below)
    /\ mixed' = mixed \cup (IF CommandThere THEN {"served"} ELSE {})
    /\ UNCHANGED <<up, client>>

Server ==
    Poll \/ Return \/ ReadArgs \/ Yield \/ RpcWrite \/ PrintUnits \/ PrintFull
    \/ PrintSpin

-----------------------------------------------------------------------------
(* The Python program, one thread.                                         *)

(* The commands in units k and later of the channel.                       *)
Commands(q, k) == {j \in k..Len(q) : q[j][1] = "header"}
Behind == Len(frames) + Cardinality(Commands(down, 1))

(* stream.write drops what does not fit and its result is ignored.         *)
Space == DownSize - Len(down)
Fitting(m) == SubSeq(m, 1, IF Len(m) < Space THEN Len(m) ELSE Space)
Message(f) == <<<<"header", f>>>> \o Rep(<<"arg", f>>, Args[f])

(* MicroblazeFunction.call: write the command, and wait for a reply if the *)
(* function blocks.                                                        *)
Call(f) ==
    /\ ~lost /\ client.at = "program"
    /\ f \in Blocking \/ Behind < MaxBehind
    /\ down' = down \o Fitting(Message(f))
    /\ mixed' = mixed \cup (IF Args[f] + 1 > Space THEN {"cut"} ELSE {})
    /\ client' = IF f \in Blocking
                 THEN [client EXCEPT !.at = "command", !.id = 1 - @]
                 ELSE client
    /\ UNCHANGED <<up, frames, lost>>

(* The client reads one unit where it expects one of the kinds good.       *)
Expect(at, good) ==
    /\ ~lost /\ client.at = at /\ up # <<>>
    /\ up' = Tail(up)
    /\ lost' = (Head(up) \notin good)
    /\ UNCHANGED <<down, frames, mixed>>

(* _handle_stream and _handle_command.                                     *)
ReadCommand ==
    /\ Expect("command", {<<"void">>, <<"ret">>, <<"print">>})
    /\ client' = CASE Head(up) = <<"ret">>   -> [client EXCEPT !.at = "value"]
                   [] Head(up) = <<"print">> ->
                        [client EXCEPT !.at = "text", !.need = TextLen]
                   [] OTHER -> client

ReadText ==
    /\ Expect("text", {<<"text">>})
    /\ client' = IF client.need = 1
                 THEN [client EXCEPT !.at = "command", !.need = 0]
                 ELSE [client EXCEPT !.need = @ - 1]

(* receive_response.                                                       *)
ReadValue ==
    /\ Expect("value", {<<"val", client.id>>})
    /\ client' = [client EXCEPT !.at = "program"]

Next ==
    \/ Server
    \/ \E f \in Fn : Call(f)
    \/ ReadCommand \/ ReadText \/ ReadValue

Spec == Init /\ [][Next]_vars

(* Both processors run.                                                    *)
FairSpec ==
    /\ Spec
    /\ WF_vars(Server)
    /\ WF_vars(ReadCommand) /\ WF_vars(ReadText) /\ WF_vars(ReadValue)

-----------------------------------------------------------------------------
(* Neither end ever takes a unit for something it is not, and the value a  *)
(* call returns is the one its own function computed, although there are   *)
(* no call numbers and void functions answer, and print for, calls that    *)
(* nobody waits for (rpc.py:496-522,735-742,876-891;                       *)
(* docs/source/pynq_libraries/pynqmb_python.rst:25), unless a command was  *)
(* cut, or a call served inside of a print: then they may.                 *)
Framed == lost => mixed # {}

(* A blocking call returns, however many replies and prints of void        *)
(* functions come before its own and however small the channels are, but   *)
(* for the same two (rpc.py:882-887, pynqmb_python.rst:55-56).             *)
CallReturns == client.at # "program" ~> client.at = "program" \/ mixed # {}

(* The server gets back to its main loop.  Nothing stops a function but a  *)
(* full channel that nobody reads, because the program is in no blocking   *)
(* call: that does (rpc.py:519,687-689; pynqmb_python.rst:57-60).          *)
Clogged == client.at = "program" /\ Room = 0
ServiceEnds == frames # <<>> ~> frames = <<>> \/ Clogged \/ mixed # {}
=============================================================================
