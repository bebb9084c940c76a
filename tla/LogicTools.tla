------------------------------ MODULE LogicTools ------------------------------
(***************************************************************************)
(* The logictools generators (src/pynq/lib/logictools): Boolean, Pattern   *)
(* and FSM generator objects that share one controller object, the pins of *)
(* the header, one trace analyzer with its buffer, and the firmware that   *)
(* carries out their commands.  Python waits until the firmware has        *)
(* cleared each command, so a method is one step on both sides' state,     *)
(* composed of the commands it issues in their order; what the fabric does *)
(* on its own is that the trace's DMA transfer ends.  A method that raises *)
(* leaves the state as its last command did.                               *)
(***************************************************************************)
EXTENDS Naturals, FiniteSets

CONSTANTS
    Pin,            \* pins of the interface
    MaxPins,        \* bound: pins of one setup
    Samples,        \* num_analyzer_samples (and the one added to it)
    MaxSteps,       \* bound: steps are counted up to this number
    MaxOdd,         \* bound: kinds of odd uses in one behaviour
    Unconnected     \* IOSWITCH_DISCONNECT

Generator == {"boolean", "pattern", "fsm"}
Engine == Generator \cup {"trace"}
State == {"RESET", "READY", "RUNNING"}

ASSUME LogicAssumption ==
    /\ Samples \subseteq Nat \ {0} /\ MaxPins \in Nat /\ MaxSteps \in Nat /\ MaxOdd \in Nat
    /\ Unconnected \notin Generator

(* py: the objects.  pins, spec: the pins a generator lists, and those of  *)
(* FSMGenerator.fsm_spec; traced: its analyzer; used: pin_map without the  *)
(* "UNUSED"; status and steps of the controller; buffer: the size of       *)
(* buffers["trace_buf"], 0 without one.                                    *)
(* fw: the firmware.  state: the engines' status words; select: the        *)
(* interface switch; output: the BOOLEAN bit of the control register;      *)
(* count, saved, first: trace_numofsamples and what STEP and STOP do with  *)
(* it; room: the memory that traceptr still owns; busy: the samples of the *)
(* DMA transfer under way.                                                 *)
(* odd: which uses that the code does not withstand have been made.        *)
VARIABLES py, fw, odd

logicVars == <<py, fw, odd>>
Odd == {"raised", "mixed", "retraced", "outgrown", "preset", "again", "unready",
        "updated"}

Objects == [pins : [Generator -> SUBSET Pin], spec : SUBSET Pin,
            traced : [Generator -> BOOLEAN],
            used : SUBSET Pin, status : [Engine -> State],
            steps : 0 .. MaxSteps, buffer : Samples \cup {0}]
Firmware == [state : [Engine -> State],
             select : [Pin -> Generator \cup {Unconnected}],
             output : BOOLEAN, count : Samples \cup {0, 1},
             saved : Samples \cup {0, 1}, first : BOOLEAN,
             room : Samples \cup {0}, busy : Samples \cup {0, 1}]
LogicTypeOK == py \in Objects /\ fw \in Firmware /\ odd \subseteq Odd

Reset == [e \in Engine |-> "RESET"]
LogicInit ==
    /\ py = [pins |-> [g \in Generator |-> {}], spec |-> {},
             traced |-> [g \in Generator |-> TRUE],
             used |-> {}, status |-> Reset, steps |-> 0, buffer |-> 0]
    /\ fw = [state |-> Reset, select |-> [p \in Pin |-> Unconnected],
             output |-> FALSE, count |-> 0, saved |-> 0, first |-> FALSE,
             room |-> 0, busy |-> 0]
    /\ odd = {}

-----------------------------------------------------------------------------
(* The firmware's commands, for the engines E.                             *)
Put(f, E, s) == [e \in Engine |-> IF e \in E THEN s ELSE f.state[e]]

(* run_tracebuffer, and start pulses; the BOOLEAN bit is always written.   *)
FwRun(f, E) ==
    [f EXCEPT !.state = Put(f, E, "RUNNING"),
              !.output = "boolean" \in E,
              !.busy = IF "trace" \in E THEN f.count ELSE @]

FwStep(f, E) ==
    LET saving == IF f.first THEN f ELSE [f EXCEPT !.saved = f.count, !.first = TRUE]
    IN  FwRun([saving EXCEPT !.count = 1], E)

Restore(f) == IF f.first THEN [f EXCEPT !.count = f.saved, !.first = FALSE] ELSE f

FwStop(f, E) ==
    [(IF "trace" \in E THEN Restore(f) ELSE f)
       EXCEPT !.state = Put(f, E, "READY"), !.output = @ /\ "boolean" \notin E]

FwReset(f, E) == [f EXCEPT !.state = Put(f, E, "RESET")]
FwConfig(f, g) == [f EXCEPT !.state = Put(f, {g}, "READY")]
(* Mutant: CONFIG_TRACE keeps the number of samples there is.              *)
FwConfigAddress(f, room, n) ==
    [FwConfig(f, "trace") EXCEPT !.room = room, !.count = IF @ = 0 THEN n ELSE @]
FwConfigTrace(f, room, n) ==
    [FwConfig(f, "trace") EXCEPT !.room = room, !.count = n]

(* CHECK_STATUS: a trace whose transfer has ended is READY again.          *)
FwCheck(f) ==
    IF f.state["trace"] = "RUNNING" /\ f.busy = 0 THEN FwConfig(f, "trace") ELSE f

-----------------------------------------------------------------------------
(* The pins that connect() and disconnect() configure.                     *)
Wired(q, g) == IF g = "fsm" THEN q.spec ELSE q.pins[g]
WiredBy(q, G) == UNION {Wired(q, g) : g \in G}

Connect(f, q, G) ==
    [f EXCEPT !.select = [p \in Pin |->
        IF p \in WiredBy(q, G) THEN CHOOSE g \in G : p \in Wired(q, g) ELSE @[p]]]
(* Mutant: stopping leaves the pins connected.                             *)
LeaveConnected(f, q, G) == f
Disconnect(f, q, G) ==
    [f EXCEPT !.select = [p \in Pin |->
        IF p \in WiredBy(q, G) THEN Unconnected ELSE @[p]]]

EnginesOf(q, G) == G \cup {e \in {"trace"} : \E g \in G : q.traced[g]}

(* The objects have issued their last command and read the status.         *)
(* Mutant: they read it before the firmware has brought it up to date.     *)
CheckedBefore(q, f) == fw' = FwCheck(f) /\ py' = [q EXCEPT !.status = f.state]
Checked(q, f) == fw' = FwCheck(f) /\ py' = [q EXCEPT !.status = FwCheck(f).state]
(* The method raised before it read the status.                            *)
Raised(q, f) == fw' = f /\ py' = q

(* connect() and disconnect() of an FSM without a specification raise.     *)
NoSpec(G) == "fsm" \in G /\ py.spec = {}
(* analyze() raises when there is no trace buffer (any more).              *)
NoTrace(G) == py.buffer = 0 /\ \E g \in G : py.traced[g]

(* The uses a step makes that the code does not withstand.                 *)
Uses(new) == Cardinality(odd \cup new) <= MaxOdd /\ odd' = odd \cup new
If(wrong, what) == IF wrong THEN {what} ELSE {}
InUse(E) == fw.busy > 0 \/ \E e \in Engine \ E : py.status[e] # "RESET"
OthersRunning(G) == \E h \in Generator \ G : py.status[h] = "RUNNING"

-----------------------------------------------------------------------------
(* setup(): the Boolean generator adds pins to its lists and programs the  *)
(* engine before it looks for a conflict; the others replace their lists.  *)
Listed(g, P) == IF g = "boolean" THEN py.pins[g] \cup P ELSE P

Conflict(P) == P \cap py.used # {}

SetupConflict(g, P) ==
    /\ Conflict(Listed(g, P))
    /\ Raised([py EXCEPT !.pins[g] = Listed(g, P)],
              IF g = "boolean" THEN FwConfig(fw, g) ELSE fw)
    /\ Uses({"raised"})

(* An initial value of the pattern is output by a run of its own.          *)
Preset(f, q) ==
    LET E == {"pattern"}
    IN  FwStop(FwRun(Connect(FwConfig(f, "pattern"), q, E), E), E)

(* TraceAnalyzer.setup keeps a buffer there is, whatever its size.         *)
Room(n) == IF py.buffer = 0 THEN n ELSE py.buffer

Setup(g, P, n, preset) ==
    LET q == [py EXCEPT !.pins[g] = Listed(g, P), !.used = @ \cup Listed(g, P),
                        !.spec = IF g = "fsm" THEN P ELSE @, !.steps = 0,
                        !.buffer = IF py.traced[g] THEN Room(n) ELSE @]
        f == FwConfig(IF preset THEN Preset(fw, q) ELSE fw, g)
    IN  /\ ~Conflict(Listed(g, P))
        /\ preset => g = "pattern"
        /\ Checked(q, IF py.traced[g] THEN FwConfigTrace(f, Room(n), n) ELSE f)
        /\ Uses(If(py.traced[g] /\ (Room(n) < n \/ fw.first), "outgrown")
                  \cup If(preset, "preset")
                  \cup If(py.status[g] # "RESET", "again"))

(* trace(): switching it off frees the buffers of all.                     *)
TraceOn(g) ==
    /\ ~py.traced[g]
    /\ Raised([py EXCEPT !.traced[g] = TRUE], fw)
    /\ Uses(If(InUse({}), "retraced"))

TraceOff(g) ==
    /\ py.traced[g]
    /\ Raised([py EXCEPT !.traced[g] = FALSE, !.buffer = 0], [fw EXCEPT !.room = 0])
    /\ Uses(If(InUse({}), "retraced"))

-----------------------------------------------------------------------------
(* update_pattern(): a running pattern generator is READY again, and stays *)
(* connected.                                                              *)
UpdatePattern ==
    /\ py.status["pattern"] # "RESET"
    /\ Checked([py EXCEPT !.steps = 0], FwConfig(fw, "pattern"))
    /\ Uses(If(py.status["pattern"] = "RUNNING", "updated"))

(* run() of the generators G: their own, or the controller's, which leaves *)
(* steps and reads the status last.                                        *)
Run(G, own) ==
    LET q == IF own THEN [py EXCEPT !.steps = 0] ELSE py
        f == FwRun(Connect(fw, py, G), EnginesOf(py, G))
    IN  /\ \A g \in G : py.status[g] # "RESET"
        /\ own => Cardinality(G) = 1
        /\ ~NoSpec(G)
        /\ IF NoTrace(G) /\ ~own THEN Raised(q, f) ELSE Checked(q, f)
        /\ Uses(If(OthersRunning(G), "mixed"))

(* step(): connects and steps once more when nobody has stepped before.    *)
(* Mutant: it never connects.                                              *)
NeverUnstepped(G) == FALSE
Unstepped(G) == py.steps = 0

Step(G) ==
    LET E == EnginesOf(py, G)
        f == FwStep(IF Unstepped(G) THEN FwStep(Connect(fw, py, G), E) ELSE fw, E)
        q == [py EXCEPT !.steps = IF @ < MaxSteps THEN @ + 1 ELSE @]
    IN  /\ \A g \in G : py.status[g] # "RESET"
        /\ ~NoSpec(G)
        /\ IF NoTrace(G) /\ Cardinality(G) > 1 THEN Raised(q, f) ELSE Checked(q, f)
        /\ Uses(If(OthersRunning(G) \/ (py.steps > 0
                       /\ \E g \in G : py.status[g] # "RUNNING"), "mixed"))

Stop(G) ==
    LET f == FwStop(fw, EnginesOf(py, G))
    IN  /\ IF NoSpec(G) THEN Raised(py, f)
           ELSE Checked([py EXCEPT !.steps = 0], Disconnect(f, py, G))
        /\ Uses(IF NoSpec(G) THEN {"raised"}
                ELSE If(\E g \in G : py.status[g] = "RESET", "unready"))

(* reset(): the pins the objects list are free again.                      *)
Unlist(q, G) ==
    [q EXCEPT !.pins = [g \in Generator |-> IF g \in G THEN {} ELSE @[g]],
              !.spec = IF "fsm" \in G THEN {} ELSE @]
(* Mutant: the lists are cleared before pin_map is.                        *)
FreeNothing(q, G) ==
    [Unlist(q, G) EXCEPT !.used = @ \ UNION {Unlist(q, G).pins[g] : g \in G}]
FreePins(q, G) ==
    [Unlist(q, G) EXCEPT !.used = @ \ UNION {q.pins[g] : g \in G}]

(* A generator's own reset() stops it if it believes that it is running.   *)
ResetState(g) ==
    LET E == EnginesOf(py, {g})
        running == py.status[g] = "RUNNING"
    IN  <<FreePins([py EXCEPT !.steps = IF running THEN 0 ELSE @], {g}),
          FwReset(IF running THEN Disconnect(FwStop(fw, E), py, {g}) ELSE fw, E)>>

ResetOne(g) ==
    Checked(ResetState(g)[1], ResetState(g)[2]) /\ UNCHANGED odd

(* The controller's stops all of G first.                                  *)
ResetAll(G) ==
    LET E == EnginesOf(py, G)
        f == FwStop(fw, E)
    IN  /\ IF NoSpec(G) THEN Raised(py, f)
           ELSE Checked(FreePins([py EXCEPT !.steps = 0], G),
                        FwReset(Disconnect(f, py, G), E))
        /\ Uses(If(NoSpec(G), "raised"))

(* __del__, and a new object in its place.                                 *)
Delete(g) ==
    LET reset == IF py.status[g] = "RESET" THEN <<py, fw>> ELSE ResetState(g)
        q == [reset[1] EXCEPT !.pins[g] = {}, !.traced[g] = TRUE,
                              !.spec = IF g = "fsm" THEN {} ELSE @]
    IN  /\ IF py.traced[g]
           THEN Checked([q EXCEPT !.buffer = 0], [reset[2] EXCEPT !.room = 0])
           ELSE Checked(q, reset[2])
        /\ Uses(If(py.traced[g] /\ InUse(EnginesOf(py, {g})), "retraced"))

(* The trace's samples have arrived.                                       *)
TraceDone ==
    fw.busy > 0 /\ fw' = [fw EXCEPT !.busy = 0] /\ UNCHANGED <<py, odd>>

PinSet == {P \in (SUBSET Pin) \ {{}} : Cardinality(P) <= MaxPins}
LogicNext ==
    \/ \E g \in Generator :
          \/ \E P \in PinSet : SetupConflict(g, P)
          \/ \E P \in PinSet, n \in Samples, preset \in BOOLEAN :
                Setup(g, P, n, preset)
          \/ TraceOn(g) \/ TraceOff(g) \/ ResetOne(g) \/ Delete(g)
    \/ \E G \in (SUBSET Generator) \ {{}} :
          \/ \E own \in BOOLEAN : Run(G, own)
          \/ Step(G) \/ Stop(G) \/ ResetAll(G)
    \/ UpdatePattern
    \/ TraceDone

LogicSpec == LogicInit /\ [][LogicNext]_logicVars

-----------------------------------------------------------------------------
(* Uses after which little can be said: a method that raised half way,     *)
(* setup() of a generator that has not been reset, stop() of one that has, *)
(* and trace(False) or a deletion that frees the buffer while it is in use.*)
Misused == {"raised", "again", "unready", "retraced"}

(* A pin belongs to one generator, and pin_map marks exactly the pins that *)
(* some generator lists (logictools.rst: reset "will clear all the         *)
(* reservations on the currently used pins"), unless a setup was refused   *)
(* or repeated without a reset().                                          *)
PinsExclusive ==
    odd \cap {"raised", "again"} = {} =>
        /\ \A g, h \in Generator : g # h => py.pins[g] \cap py.pins[h] = {}
        /\ py.used = UNION {py.pins[g] : g \in Generator}

(* The status that run() and reset() decide by is the firmware's, if the   *)
(* generators have not been misused.                                       *)
StatusRight ==
    odd \cap Misused = {} => py.status = fw.state

(* "When moving to this state, the interface switch is configured to       *)
(* connect external IO" (logictools.rst:66-68).                            *)
Connected ==
    \A g \in Generator : fw.state[g] = "RUNNING" =>
        \A p \in Wired(py, g) : fw.select[p] = g

(* So it is for generators that the controller runs together, or that run  *)
(* one at a time, in whatever order their methods are called, and the      *)
(* Boolean generator's outputs are on.  It is not so for generators that   *)
(* run side by side but are started or stepped separately ("mixed"), nor   *)
(* after the run that outputs an initial value ("preset").                 *)
ConnectedWhileRunning ==
    odd \cap (Misused \cup {"mixed", "preset"}) = {} =>
        Connected /\ (fw.state["boolean"] = "RUNNING" => fw.output)

(* No pin is left connected to a generator that has given it back, unless  *)
(* the pattern of a running generator has been updated, which reset() then *)
(* no longer stops and disconnects, or an initial value has been output.   *)
SwitchRight ==
    odd \cap (Misused \cup {"preset", "updated"}) = {} =>
        \A p \in Pin : fw.select[p] # Unconnected => p \in py.pins[fw.select[p]]

(* STEP and STOP swap the number of samples the firmware's next transfer   *)
(* of a trace will write.  Over all orders of steps, stops, runs, setups   *)
(* and resets of the generators that share the analyzer it writes no more  *)
(* than the buffer holds.  The code does not ensure it when a setup asks   *)
(* for more samples than the buffer kept from an earlier one has, or comes *)
(* between a STEP and the STOP that restores the number ("outgrown"), nor  *)
(* when the buffer is freed in use ("retraced").                           *)
TraceInBounds ==
    odd \cap (Misused \cup {"outgrown"}) = {} => fw.busy <= fw.room
=============================================================================
