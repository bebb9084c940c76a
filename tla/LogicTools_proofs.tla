-------------------------- MODULE LogicTools_proofs --------------------------
(***************************************************************************)
(* The properties of LogicTools, for any number of pins and samples: who   *)
(* owns the pins, then status, switch and trace.                           *)
(***************************************************************************)
EXTENDS LogicTools, TLAPS

(* pin_map marks what the generators list, no two of them the same pin.    *)
Exclusive(q) ==
    /\ \A g, h \in Generator : g # h => q.pins[g] \cap q.pins[h] = {}
    /\ q.used = UNION {q.pins[g] : g \in Generator}

(* A generator that is RESET, by one of the state words s, lists no pins:  *)
(* setup() can not forget any, nor can the destructor, which frees the     *)
(* pins of no generator that it takes to be RESET.                         *)
Bare(q, s) == \A g \in Generator : s[g] = "RESET" => q.pins[g] = {}

Kept(o) == "raised" \notin o /\ "again" \notin o
LInv ==
    /\ LogicTypeOK
    /\ Kept(odd) => Exclusive(py) /\ Bare(py, py.status) /\ Bare(py, fw.state)

-----------------------------------------------------------------------------
(* The firmware's commands: their types, and what they do to the states.   *)
Words(f, E, s) == [e \in Engine |-> IF e \in E THEN s ELSE f.state[e]]

LEMMA PutWords ==
    ASSUME NEW f \in Firmware, NEW E \in SUBSET Engine, NEW s \in State
    PROVE  Put(f, E, s) = Words(f, E, s) /\ Words(f, E, s) \in [Engine -> State]
BY DEF Put, Words, Firmware

LEMMA RunWords ==
    ASSUME NEW f \in Firmware, NEW E \in SUBSET Engine
    PROVE  FwRun(f, E) \in Firmware /\ FwRun(f, E).state = Words(f, E, "RUNNING")
<1>1. /\ Put(f, E, "RUNNING") = Words(f, E, "RUNNING")
      /\ Words(f, E, "RUNNING") \in [Engine -> State]
  BY PutWords DEF State
<1>2. (IF "trace" \in E THEN f.count ELSE f.busy) \in Samples \cup {0, 1}
  BY DEF Firmware
<1>3. ("boolean" \in E) \in BOOLEAN OBVIOUS
<1> QED BY <1>1, <1>2, <1>3 DEF FwRun, Firmware

LEMMA StepWords ==
    ASSUME NEW f \in Firmware, NEW E \in SUBSET Engine
    PROVE  FwStep(f, E) \in Firmware /\ FwStep(f, E).state = Words(f, E, "RUNNING")
<1> DEFINE saving == IF f.first THEN f ELSE [f EXCEPT !.saved = f.count, !.first = TRUE]
           one == [saving EXCEPT !.count = 1]
<1>1. saving \in Firmware /\ saving.state = f.state BY DEF Firmware
<1> HIDE DEF saving
<1>2. one \in Firmware /\ one.state = f.state BY <1>1 DEF Firmware
<1>3. FwStep(f, E) = FwRun(one, E) BY DEF FwStep, saving
<1> HIDE DEF one
<1> QED BY <1>2, <1>3, RunWords DEF Words

LEMMA StopWords ==
    ASSUME NEW f \in Firmware, NEW E \in SUBSET Engine
    PROVE  FwStop(f, E) \in Firmware /\ FwStop(f, E).state = Words(f, E, "READY")
<1> DEFINE r == IF "trace" \in E THEN Restore(f) ELSE f
<1>1. r \in Firmware BY DEF Restore, Firmware
<1>2. /\ Put(f, E, "READY") = Words(f, E, "READY")
      /\ Words(f, E, "READY") \in [Engine -> State]
  BY PutWords DEF State
<1>3. FwStop(f, E) = [r EXCEPT !.state = Put(f, E, "READY"),
                               !.output = r.output /\ "boolean" \notin E]
  BY DEF FwStop
<1>4. (r.output /\ "boolean" \notin E) \in BOOLEAN OBVIOUS
<1> HIDE DEF r
<1> QED BY <1>1, <1>2, <1>3, <1>4 DEF Firmware

LEMMA ResetWords ==
    ASSUME NEW f \in Firmware, NEW E \in SUBSET Engine
    PROVE  FwReset(f, E) \in Firmware /\ FwReset(f, E).state = Words(f, E, "RESET")
<1>1. /\ Put(f, E, "RESET") = Words(f, E, "RESET")
      /\ Words(f, E, "RESET") \in [Engine -> State]
  BY PutWords DEF State
<1> QED BY <1>1 DEF FwReset, Firmware

LEMMA ConfigWords ==
    ASSUME NEW f \in Firmware, NEW e \in Engine
    PROVE  FwConfig(f, e) \in Firmware /\ FwConfig(f, e).state = Words(f, {e}, "READY")
<1>1. /\ Put(f, {e}, "READY") = Words(f, {e}, "READY")
      /\ Words(f, {e}, "READY") \in [Engine -> State]
  BY PutWords DEF State
<1> QED BY <1>1 DEF FwConfig, Firmware

LEMMA ConfigTraceWords ==
    ASSUME NEW f \in Firmware, NEW m \in Samples, NEW n \in Samples
    PROVE  /\ FwConfigTrace(f, m, n) \in Firmware
           /\ FwConfigTrace(f, m, n).state = Words(f, {"trace"}, "READY")
<1> DEFINE h == FwConfig(f, "trace")
<1>1. h \in Firmware /\ h.state = Words(f, {"trace"}, "READY") BY ConfigWords DEF Engine
<1>2. FwConfigTrace(f, m, n) = [h EXCEPT !.room = m, !.count = n] BY DEF FwConfigTrace
<1> HIDE DEF h
<1> QED BY <1>1, <1>2 DEF Firmware

LEMMA CheckWords ==
    ASSUME NEW f \in Firmware
    PROVE  /\ FwCheck(f) \in Firmware
           /\ \A g \in Generator : FwCheck(f).state[g] = f.state[g]
<1>1. "trace" \in Engine /\ \A g \in Generator : g \in Engine /\ g # "trace"
  BY DEF Engine, Generator
<1>2. /\ FwConfig(f, "trace") \in Firmware
      /\ FwConfig(f, "trace").state = Words(f, {"trace"}, "READY")
  BY <1>1, ConfigWords
<1>3. \A g \in Generator : FwConfig(f, "trace").state[g] = f.state[g]
  BY <1>1, <1>2 DEF Words
<1>4. FwCheck(f) = f \/ FwCheck(f) = FwConfig(f, "trace") BY DEF FwCheck
<1> QED BY <1>2, <1>3, <1>4

LEMMA SwitchWords ==
    ASSUME NEW f \in Firmware, NEW q \in Objects, NEW G \in SUBSET Generator
    PROVE  /\ Connect(f, q, G) \in Firmware /\ Connect(f, q, G).state = f.state
           /\ Disconnect(f, q, G) \in Firmware /\ Disconnect(f, q, G).state = f.state
<1> DEFINE on == [p \in Pin |->
        IF p \in WiredBy(q, G) THEN CHOOSE g \in G : p \in Wired(q, g) ELSE f.select[p]]
           off == [p \in Pin |-> IF p \in WiredBy(q, G) THEN Unconnected ELSE f.select[p]]
<1>1. ASSUME NEW p \in Pin, p \in WiredBy(q, G)
      PROVE  (CHOOSE g \in G : p \in Wired(q, g)) \in Generator
  <2>1. \E g \in G : p \in Wired(q, g) BY <1>1 DEF WiredBy
  <2> QED BY <2>1
<1>2. f.select \in [Pin -> Generator \cup {Unconnected}] BY DEF Firmware
<1>3. on \in [Pin -> Generator \cup {Unconnected}] BY <1>1, <1>2
<1>4. off \in [Pin -> Generator \cup {Unconnected}] BY <1>2
<1>5. Connect(f, q, G) = [f EXCEPT !.select = on] BY DEF Connect
<1>6. Disconnect(f, q, G) = [f EXCEPT !.select = off] BY DEF Disconnect
<1> HIDE DEF on, off
<1> QED BY <1>3, <1>4, <1>5, <1>6 DEF Firmware

-----------------------------------------------------------------------------
(* The objects: what reset() and setup() do to the lists of pins.          *)
LEMMA FreedPins ==
    ASSUME NEW q \in Objects, NEW G \in SUBSET Generator
    PROVE  /\ FreePins(q, G) \in Objects /\ FreePins(q, G).status = q.status
           /\ FreePins(q, G).traced = q.traced
           /\ \A g \in Generator :
                 FreePins(q, G).pins[g] = IF g \in G THEN {} ELSE q.pins[g]
           /\ Exclusive(q) => Exclusive(FreePins(q, G))
<1> DEFINE left == [g \in Generator |-> IF g \in G THEN {} ELSE q.pins[g]]
           spec == IF "fsm" \in G THEN {} ELSE q.spec
           used == q.used \ UNION {q.pins[g] : g \in G}
           u == Unlist(q, G)
           r == FreePins(q, G)
<1>1. left \in [Generator -> SUBSET Pin] /\ spec \in SUBSET Pin /\ used \in SUBSET Pin
  BY DEF Objects
<1>2. u = [q EXCEPT !.pins = left, !.spec = spec] BY DEF Unlist
<1>3. r = [u EXCEPT !.used = used]
  <2>1. u.used = q.used BY <1>2 DEF Objects
  <2> QED BY <2>1 DEF FreePins
<1>4. \A g \in Generator : left[g] = IF g \in G THEN {} ELSE q.pins[g] OBVIOUS
<1>5. Exclusive(q) => used = UNION {left[g] : g \in Generator}
  <2> SUFFICES ASSUME Exclusive(q) PROVE used = UNION {left[g] : g \in Generator}
    OBVIOUS
  <2>1. ASSUME NEW x \in used PROVE x \in UNION {left[g] : g \in Generator}
    <3>1. PICK g \in Generator : x \in q.pins[g] BY DEF Exclusive
    <3>2. g \notin G BY <3>1
    <3> QED BY <1>4, <3>1, <3>2
  <2>2. ASSUME NEW g \in Generator, NEW x \in left[g] PROVE x \in used
    <3>1. g \notin G /\ x \in q.pins[g] BY <1>4, <2>2
    <3>2. x \in q.used BY <3>1 DEF Exclusive
    <3>3. ASSUME NEW h \in G PROVE x \notin q.pins[h]
      <4>1. h \in Generator /\ h # g BY <3>1
      <4>2. q.pins[g] \cap q.pins[h] = {} BY <4>1 DEF Exclusive
      <4> QED BY <3>1, <4>2
    <3> QED BY <3>2, <3>3
  <2> HIDE DEF used, left
  <2> QED BY <2>1, <2>2
<1> HIDE DEF left, spec, used, u, r
<1>6. u \in Objects /\ u.pins = left /\ u.status = q.status /\ u.traced = q.traced
  BY <1>1, <1>2 DEF Objects
<1>7. /\ r \in Objects /\ r.pins = left /\ r.used = used /\ r.status = q.status
      /\ r.traced = q.traced
  BY <1>1, <1>3, <1>6 DEF Objects
<1>8. Exclusive(q) => Exclusive(r)
  BY <1>4, <1>5, <1>7 DEF Exclusive
<1> QED BY <1>4, <1>7, <1>8 DEF r

(* The end of every method: the objects read the status, or did not come   *)
(* to it.                                                                  *)
LEMMA CheckedInv ==
    ASSUME NEW q \in Objects, NEW f \in Firmware, Checked(q, f), odd' \subseteq Odd,
           Kept(odd') => Exclusive(q) /\ Bare(q, f.state)
    PROVE  LInv'
<1> DEFINE s == FwCheck(f).state
<1>1. FwCheck(f) \in Firmware /\ \A g \in Generator : s[g] = f.state[g]
  BY CheckWords
<1>2. s \in [Engine -> State] BY <1>1 DEF Firmware
<1>3. fw' = FwCheck(f) /\ py' = [q EXCEPT !.status = s] BY DEF Checked
<1> HIDE DEF s
<1>4. py' \in Objects /\ py'.pins = q.pins /\ py'.used = q.used /\ py'.status = s
  BY <1>2, <1>3 DEF Objects
<1>5. fw'.state = s BY <1>3 DEF s
<1>6. Exclusive(q) => Exclusive(py') BY <1>4 DEF Exclusive
<1>7. Bare(q, f.state) => Bare(py', s) BY <1>1, <1>4 DEF Bare
<1>8. LogicTypeOK' BY <1>1, <1>3, <1>4 DEF LogicTypeOK
<1>9. Kept(odd') => Exclusive(py') /\ Bare(py', py'.status) /\ Bare(py', fw'.state)
  BY <1>4, <1>5, <1>6, <1>7
<1> QED BY <1>8, <1>9 DEF LInv, Kept, Exclusive, Bare

LEMMA RaisedInv ==
    ASSUME NEW q \in Objects, NEW f \in Firmware, Raised(q, f), odd' \subseteq Odd,
           Kept(odd') => Exclusive(q) /\ Bare(q, q.status) /\ Bare(q, f.state)
    PROVE  LInv'
BY DEF Raised, LInv, LogicTypeOK, Exclusive, Bare

LEMMA InitLogic == LogicInit => LInv
<1> SUFFICES ASSUME LogicInit PROVE LInv
  OBVIOUS
<1>1. Reset \in [Engine -> State] BY DEF Reset, State
<1>2. /\ py \in Objects /\ py.pins = [g \in Generator |-> {}] /\ py.used = {}
  BY <1>1, LogicAssumption DEF LogicInit, Objects
<1>3. fw \in Firmware BY <1>1 DEF LogicInit, Firmware
<1>4. Exclusive(py) BY <1>2 DEF Exclusive
<1>5. \A s : Bare(py, s) BY <1>2 DEF Bare
<1> QED BY <1>2, <1>3, <1>4, <1>5 DEF LInv, Kept, LogicTypeOK, LogicInit

(* What LInv says of the two records.                                      *)
LEMMA Records ==
    ASSUME LInv
    PROVE  /\ py \in Objects /\ fw \in Firmware /\ odd \subseteq Odd
           /\ py.status \in [Engine -> State] /\ fw.state \in [Engine -> State]
           /\ py.traced \in [Generator -> BOOLEAN]
           /\ \A G \in SUBSET Generator : EnginesOf(py, G) \in SUBSET Engine
           /\ \A G \in SUBSET Generator : G \subseteq EnginesOf(py, G)
           /\ \A G \in SUBSET Generator, g \in Generator : g \in EnginesOf(py, G) => g \in G
BY DEF LInv, Kept, LogicTypeOK, Objects, Firmware, EnginesOf, Engine, Generator
-----------------------------------------------------------------------------
(* The methods.  What they may add to odd.                                 *)
LEMMA UsesOdd ==
    ASSUME LInv, NEW new \in SUBSET Odd, Uses(new)
    PROVE  odd' \subseteq Odd /\ odd \subseteq odd' /\ new \subseteq odd'
BY Records DEF Uses

LEMMA SetupConflictInv ==
    ASSUME LInv, NEW g \in Generator, NEW P \in SUBSET Pin, SetupConflict(g, P)
    PROVE  LInv'
<1> DEFINE q == [py EXCEPT !.pins[g] = Listed(g, P)]
           f == IF g = "boolean" THEN FwConfig(fw, g) ELSE fw
<1>1. Listed(g, P) \in SUBSET Pin BY Records DEF Listed, Objects
<1>2. q \in Objects BY <1>1, Records DEF Objects
<1>3. f \in Firmware BY Records, ConfigWords DEF Engine
<1>4. odd' \subseteq Odd /\ "raised" \in odd'
  BY UsesOdd DEF SetupConflict, Odd
<1>5. Raised(q, f) BY DEF SetupConflict
<1> HIDE DEF q, f
<1> QED BY <1>2, <1>3, <1>4, <1>5, RaisedInv DEF Kept

LEMMA SetupInv ==
    ASSUME LInv, NEW g \in Generator, NEW P \in SUBSET Pin, NEW n \in Samples,
           NEW preset \in BOOLEAN, Setup(g, P, n, preset)
    PROVE  LInv'
<1> DEFINE L == Listed(g, P)
           spec == IF g = "fsm" THEN P ELSE py.spec
           buffer == IF py.traced[g] THEN Room(n) ELSE py.buffer
           q == [py EXCEPT !.pins[g] = L, !.used = @ \cup L, !.spec = spec,
                           !.steps = 0, !.buffer = buffer]
           f0 == IF preset THEN Preset(fw, q) ELSE fw
           f == FwConfig(f0, g)
           h == IF py.traced[g] THEN FwConfigTrace(f, Room(n), n) ELSE f
<1>1. /\ ~Conflict(L) /\ (preset => g = "pattern")
      /\ Checked(q, h)
      /\ Uses(If(py.traced[g] /\ (Room(n) < n \/ fw.first), "outgrown")
                  \cup If(preset, "preset") \cup If(py.status[g] # "RESET", "again"))
  BY DEF Setup
<1>2. L \in SUBSET Pin /\ spec \in SUBSET Pin /\ buffer \in Samples \cup {0}
  BY Records DEF Listed, Objects, Room
<1>3. /\ odd' \subseteq Odd /\ odd \subseteq odd'
      /\ "again" \notin odd' => py.status[g] = "RESET"
  <2> DEFINE new == If(py.traced[g] /\ (Room(n) < n \/ fw.first), "outgrown")
                      \cup If(preset, "preset")
                      \cup If(py.status[g] # "RESET", "again")
  <2>1. new \in SUBSET Odd /\ (py.status[g] # "RESET" => "again" \in new)
    BY DEF If, Odd
  <2> HIDE DEF new
  <2>2. Uses(new) BY <1>1 DEF new
  <2> QED BY <2>1, <2>2, UsesOdd
<1> HIDE DEF L, spec, buffer
<1>4. /\ q \in Objects /\ q.used = py.used \cup L
      /\ q.pins = [py.pins EXCEPT ![g] = L] /\ q.status = py.status
  <2>1. py \in Objects /\ 0 \in 0 .. MaxSteps BY Records, LogicAssumption
  <2> QED BY <1>2, <2>1 DEF Objects
<1> HIDE DEF q
<1>5. f0 \in Firmware /\ \A e \in Generator \ {g} : f0.state[e] = fw.state[e]
  <2>1. CASE ~preset BY <2>1, Records
  <2>2. CASE preset
    <3> DEFINE E == {"pattern"}
               a == FwConfig(fw, "pattern")
               b == Connect(a, q, E)
               c == FwRun(b, E)
               d == FwStop(c, E)
    <3>1. g = "pattern" /\ f0 = d BY <1>1, <2>2 DEF Preset
    <3>2. E \in SUBSET Engine /\ E \in SUBSET Generator /\ "pattern" \in Engine
          /\ Generator \subseteq Engine
      BY DEF Engine, Generator
    <3> HIDE DEF E
    <3>3. a \in Firmware /\ a.state = Words(fw, {"pattern"}, "READY")
      BY <3>2, Records, ConfigWords
    <3> HIDE DEF a
    <3>4. b \in Firmware /\ b.state = a.state BY <1>4, <3>2, <3>3, SwitchWords
    <3> HIDE DEF b
    <3>5. c \in Firmware /\ c.state = Words(b, E, "RUNNING") BY <3>2, <3>4, RunWords
    <3> HIDE DEF c
    <3>6. d \in Firmware /\ d.state = Words(c, E, "READY") BY <3>2, <3>5, StopWords
    <3> HIDE DEF d
    <3> QED BY <3>1, <3>2, <3>3, <3>4, <3>5, <3>6 DEF Words, E
  <2> QED BY <2>1, <2>2
<1> HIDE DEF f0
<1>6. g \in Engine /\ Generator \subseteq Engine BY DEF Engine
<1>7. f \in Firmware /\ f.state = Words(f0, {g}, "READY") BY <1>5, <1>6, ConfigWords
<1> HIDE DEF f
<1>8. h \in Firmware /\ \A e \in Generator : h.state[e] = f.state[e]
  <2>1. CASE ~py.traced[g] BY <1>7, <2>1
  <2>2. CASE py.traced[g]
    <3>1. Room(n) \in Samples BY Records DEF Room, Objects
    <3>2. h \in Firmware /\ h.state = Words(f, {"trace"}, "READY")
      BY <1>7, <2>2, <3>1, ConfigTraceWords
    <3>3. \A e \in Generator : e # "trace" BY DEF Generator
    <3> QED BY <1>6, <3>2, <3>3 DEF Words
  <2> QED BY <2>1, <2>2
<1> HIDE DEF h
<1>9. Kept(odd') => Exclusive(q) /\ Bare(q, h.state)
  <2> SUFFICES ASSUME Kept(odd') PROVE Exclusive(q) /\ Bare(q, h.state)
    OBVIOUS
  <2>1. Exclusive(py) /\ Bare(py, py.status) /\ Bare(py, fw.state) BY <1>3 DEF LInv, Kept
  <2>2. py.pins[g] = {} BY <1>3, <2>1 DEF Bare, Kept
  <2>3. L \cap py.used = {} BY <1>1 DEF Conflict
  <2>4. py.pins \in [Generator -> SUBSET Pin] BY Records DEF Objects
  <2>5. \A e \in Generator : q.pins[e] = IF e = g THEN L ELSE py.pins[e] BY <1>4, <2>4
  <2>6. Exclusive(q)
    <3>1. ASSUME NEW e \in Generator, e # g PROVE py.pins[e] \cap L = {}
      BY <2>1, <2>3, <3>1 DEF Exclusive
    <3>2. ASSUME NEW a \in Generator, NEW b \in Generator, a # b
          PROVE  q.pins[a] \cap q.pins[b] = {}
      BY <2>1, <2>5, <3>1, <3>2 DEF Exclusive
    <3>3. q.used = UNION {q.pins[e] : e \in Generator}
      BY <1>4, <2>1, <2>2, <2>5 DEF Exclusive
    <3> QED BY <3>2, <3>3 DEF Exclusive
  <2>7. Bare(q, h.state)
    BY <1>5, <1>6, <1>7, <1>8, <2>1, <2>5 DEF Bare, Words
  <2> QED BY <2>6, <2>7
<1> QED BY <1>1, <1>3, <1>4, <1>8, <1>9, CheckedInv

LEMMA TraceInv ==
    ASSUME LInv, NEW g \in Generator, TraceOn(g) \/ TraceOff(g)
    PROVE  LInv'
<1>1. If(InUse({}), "retraced") \in SUBSET Odd BY DEF If, Odd
<1>2. odd' \subseteq Odd /\ odd \subseteq odd' BY <1>1, UsesOdd DEF TraceOn, TraceOff
<1>3. CASE TraceOn(g)
  <2> DEFINE q == [py EXCEPT !.traced[g] = TRUE]
  <2>1. q \in Objects /\ q.pins = py.pins /\ q.used = py.used /\ q.status = py.status
    BY Records DEF Objects
  <2>2. Raised(q, fw) BY <1>3 DEF TraceOn
  <2> HIDE DEF q
  <2> QED BY <1>2, <2>1, <2>2, Records, RaisedInv DEF LInv, Kept, Exclusive, Bare
<1>4. CASE TraceOff(g)
  <2> DEFINE q == [py EXCEPT !.traced[g] = FALSE, !.buffer = 0]
             f == [fw EXCEPT !.room = 0]
  <2>1. q \in Objects /\ q.pins = py.pins /\ q.used = py.used /\ q.status = py.status
    BY Records DEF Objects
  <2>2. f \in Firmware /\ f.state = fw.state BY Records DEF Firmware
  <2>3. Raised(q, f) BY <1>4 DEF TraceOff
  <2> HIDE DEF q, f
  <2> QED BY <1>2, <2>1, <2>2, <2>3, RaisedInv DEF LInv, Kept, Exclusive, Bare
<1> QED BY <1>3, <1>4

LEMMA RunInv ==
    ASSUME LInv, NEW G \in SUBSET Generator, NEW own \in BOOLEAN, Run(G, own)
    PROVE  LInv'
<1> DEFINE q == IF own THEN [py EXCEPT !.steps = 0] ELSE py
           a == Connect(fw, py, G)
           f == FwRun(a, EnginesOf(py, G))
<1>1. If(OthersRunning(G), "mixed") \in SUBSET Odd BY DEF If, Odd
<1>2. odd' \subseteq Odd /\ odd \subseteq odd' BY <1>1, UsesOdd DEF Run
<1>3. q \in Objects /\ q.pins = py.pins /\ q.used = py.used /\ q.status = py.status
  BY Records, LogicAssumption DEF Objects
<1>4. a \in Firmware /\ a.state = fw.state BY Records, SwitchWords
<1>5. Checked(q, f) \/ Raised(q, f) BY DEF Run
<1> HIDE DEF q, a
<1>6. f \in Firmware /\ f.state = Words(a, EnginesOf(py, G), "RUNNING")
  BY <1>4, Records, RunWords
<1> HIDE DEF f
<1>7. Generator \subseteq Engine BY DEF Engine
<1>8. Kept(odd') => Exclusive(q) /\ Bare(q, q.status) /\ Bare(q, f.state)
  BY <1>2, <1>3, <1>4, <1>6, <1>7 DEF LInv, Kept, Exclusive, Bare, Words
<1> QED BY <1>2, <1>3, <1>5, <1>6, <1>8, CheckedInv, RaisedInv

LEMMA StepInv ==
    ASSUME LInv, NEW G \in SUBSET Generator, Step(G)
    PROVE  LInv'
<1> DEFINE E == EnginesOf(py, G)
           a == Connect(fw, py, G)
           b == FwStep(a, E)
           c == IF Unstepped(G) THEN b ELSE fw
           f == FwStep(c, E)
           q == [py EXCEPT !.steps = IF @ < MaxSteps THEN @ + 1 ELSE @]
           new == If(OthersRunning(G) \/ (py.steps > 0
                       /\ \E g \in G : py.status[g] # "RUNNING"), "mixed")
<1>1. new \in SUBSET Odd BY DEF If, Odd
<1>2. Uses(new) /\ (Checked(q, f) \/ Raised(q, f)) BY DEF Step
<1> HIDE DEF new
<1>3. odd' \subseteq Odd /\ odd \subseteq odd' BY <1>1, <1>2, UsesOdd
<1>4. q \in Objects /\ q.pins = py.pins /\ q.used = py.used /\ q.status = py.status
  <2>1. py.steps \in 0 .. MaxSteps BY Records DEF Objects
  <2>2. (IF py.steps < MaxSteps THEN py.steps + 1 ELSE py.steps) \in 0 .. MaxSteps
    BY <2>1, LogicAssumption
  <2> QED BY <2>2, Records DEF Objects
<1>5. E \in SUBSET Engine BY Records
<1> HIDE DEF q, E
<1>6. a \in Firmware /\ a.state = fw.state BY Records, SwitchWords
<1> HIDE DEF a
<1>7. b \in Firmware /\ b.state = Words(a, E, "RUNNING") BY <1>5, <1>6, StepWords
<1> HIDE DEF b
<1>8. c \in Firmware /\ (c.state = Words(a, E, "RUNNING") \/ c.state = fw.state)
  BY <1>7, Records
<1> HIDE DEF c
<1>9. f \in Firmware /\ f.state = Words(c, E, "RUNNING") BY <1>5, <1>8, StepWords
<1> HIDE DEF f
<1>10. \A g \in Generator : g \in Engine BY DEF Engine
<1>11. \A g \in Generator : f.state[g] = "RESET" => fw.state[g] = "RESET"
  <2> SUFFICES ASSUME NEW g \in Generator, f.state[g] = "RESET" PROVE fw.state[g] = "RESET"
    OBVIOUS
  <2>1. g \notin E /\ c.state[g] = "RESET" BY <1>9, <1>10 DEF Words
  <2>2. Words(a, E, "RUNNING")[g] = a.state[g] BY <1>10, <2>1 DEF Words
  <2> QED BY <1>6, <1>8, <2>1, <2>2
<1>12. Kept(odd') => Exclusive(q) /\ Bare(q, q.status) /\ Bare(q, f.state)
  BY <1>3, <1>4, <1>11 DEF LInv, Kept, Exclusive, Bare
<1> QED BY <1>2, <1>3, <1>4, <1>9, <1>12, CheckedInv, RaisedInv

LEMMA StopInv ==
    ASSUME LInv, NEW G \in SUBSET Generator, Stop(G)
    PROVE  LInv'
<1> DEFINE E == EnginesOf(py, G)
           f == FwStop(fw, E)
           h == Disconnect(f, py, G)
           q == [py EXCEPT !.steps = 0]
<1>1. E \in SUBSET Engine BY Records
<1>2. Raised(py, f) \/ Checked(q, h) BY DEF Stop
<1>3. odd' \subseteq Odd /\ odd \subseteq odd'
  <2> DEFINE new == IF NoSpec(G) THEN {"raised"}
                    ELSE If(\E g \in G : py.status[g] = "RESET", "unready")
  <2>1. new \in SUBSET Odd BY DEF If, Odd
  <2>2. Uses(new) BY DEF Stop
  <2> HIDE DEF new
  <2> QED BY <2>1, <2>2, UsesOdd
<1>4. q \in Objects /\ q.pins = py.pins /\ q.used = py.used
  BY Records, LogicAssumption DEF Objects
<1> HIDE DEF q, E
<1>5. f \in Firmware /\ f.state = Words(fw, E, "READY") BY <1>1, Records, StopWords
<1> HIDE DEF f
<1>6. h \in Firmware /\ h.state = f.state BY <1>5, Records, SwitchWords
<1> HIDE DEF h
<1>7. Generator \subseteq Engine BY DEF Engine
<1>8. Kept(odd') => /\ Exclusive(q) /\ Bare(q, h.state)
                             /\ Exclusive(py) /\ Bare(py, py.status) /\ Bare(py, f.state)
  BY <1>3, <1>4, <1>5, <1>6, <1>7 DEF LInv, Kept, Exclusive, Bare, Words
<1> QED BY <1>2, <1>3, <1>4, <1>5, <1>6, <1>8, Records, CheckedInv, RaisedInv

LEMMA UpdateInv ==
    ASSUME LInv, UpdatePattern
    PROVE  LInv'
<1> DEFINE f == FwConfig(fw, "pattern")
           q == [py EXCEPT !.steps = 0]
<1>1. odd' \subseteq Odd /\ odd \subseteq odd'
  <2>1. If(py.status["pattern"] = "RUNNING", "updated") \in SUBSET Odd BY DEF If, Odd
  <2> QED BY <2>1, UsesOdd DEF UpdatePattern
<1>2. Checked(q, f) BY DEF UpdatePattern
<1>3. q \in Objects /\ q.pins = py.pins /\ q.used = py.used
  BY Records, LogicAssumption DEF Objects
<1> HIDE DEF q
<1>4. f \in Firmware /\ f.state = Words(fw, {"pattern"}, "READY")
  BY Records, ConfigWords DEF Engine, Generator
<1> HIDE DEF f
<1>5. Generator \subseteq Engine BY DEF Engine
<1>6. Kept(odd') => Exclusive(q) /\ Bare(q, f.state)
  BY <1>1, <1>3, <1>4, <1>5 DEF LInv, Kept, Exclusive, Bare, Words
<1> QED BY <1>1, <1>2, <1>3, <1>4, <1>6, CheckedInv

(* reset() of one generator: its pins are free, and its engine is RESET.   *)
LEMMA ResetStateWords ==
    ASSUME LInv, NEW g \in Generator
    PROVE  LET q == ResetState(g)[1]
               f == ResetState(g)[2]
           IN  /\ q \in Objects /\ f \in Firmware
               /\ Exclusive(py) => Exclusive(q)
               /\ \A e \in Generator :
                     /\ q.pins[e] = IF e = g THEN {} ELSE py.pins[e]
                     /\ e # g => f.state[e] = fw.state[e]
<1> DEFINE E == EnginesOf(py, {g})
           running == py.status[g] = "RUNNING"
           s == [py EXCEPT !.steps = IF running THEN 0 ELSE @]
           a == FwStop(fw, E)
           b == Disconnect(a, py, {g})
           c == IF running THEN b ELSE fw
           d == FwReset(c, E)
<1>1. /\ E \in SUBSET Engine /\ {g} \in SUBSET Generator
      /\ \A e \in Generator : e # g => e \notin E
  BY Records
<1>2. s \in Objects /\ s.pins = py.pins /\ s.used = py.used
  BY Records, LogicAssumption DEF Objects
<1>3. ResetState(g)[1] = FreePins(s, {g}) /\ ResetState(g)[2] = d
  BY DEF ResetState
<1> HIDE DEF E, s
<1>4. a \in Firmware /\ a.state = Words(fw, E, "READY") BY <1>1, Records, StopWords
<1> HIDE DEF a
<1>5. b \in Firmware /\ b.state = a.state BY <1>1, <1>4, Records, SwitchWords
<1> HIDE DEF b
<1>6. c \in Firmware /\ (c.state = b.state \/ c = fw) BY <1>5, Records
<1> HIDE DEF c
<1>7. d \in Firmware /\ d.state = Words(c, E, "RESET") BY <1>1, <1>6, ResetWords
<1> HIDE DEF d
<1>8. \A e \in Generator : e \in Engine BY DEF Engine
<1>9. ASSUME NEW e \in Generator, e # g PROVE d.state[e] = fw.state[e]
  <2>1. e \notin E BY <1>1, <1>9
  <2>2. d.state[e] = c.state[e] BY <1>7, <1>8, <2>1 DEF Words
  <2>3. a.state[e] = fw.state[e] BY <1>4, <1>8, <2>1 DEF Words
  <2> QED BY <1>5, <1>6, <2>2, <2>3
<1>10. Exclusive(py) => Exclusive(s) BY <1>2 DEF Exclusive
<1>11. /\ FreePins(s, {g}) \in Objects /\ (Exclusive(s) => Exclusive(FreePins(s, {g})))
       /\ \A e \in Generator : FreePins(s, {g}).pins[e] = IF e \in {g} THEN {} ELSE s.pins[e]
  BY <1>1, <1>2, FreedPins
<1> QED BY <1>2, <1>3, <1>7, <1>9, <1>10, <1>11

LEMMA ResetOneInv ==
    ASSUME LInv, NEW g \in Generator, ResetOne(g)
    PROVE  LInv'
<1> DEFINE q == ResetState(g)[1]
           f == ResetState(g)[2]
<1>1. /\ q \in Objects /\ f \in Firmware
      /\ Exclusive(py) => Exclusive(q)
      /\ \A e \in Generator : /\ q.pins[e] = IF e = g THEN {} ELSE py.pins[e]
                              /\ e # g => f.state[e] = fw.state[e]
  BY ResetStateWords
<1>2. Checked(q, f) /\ odd' = odd BY DEF ResetOne
<1> HIDE DEF q, f
<1>3. Kept(odd') => Exclusive(q) /\ Bare(q, f.state)
  BY <1>1, <1>2 DEF LInv, Kept, Bare
<1> QED BY <1>1, <1>2, <1>3, Records, CheckedInv

LEMMA ResetAllInv ==
    ASSUME LInv, NEW G \in SUBSET Generator, ResetAll(G)
    PROVE  LInv'
<1> DEFINE E == EnginesOf(py, G)
           s == [py EXCEPT !.steps = 0]
           q == FreePins(s, G)
           f == FwStop(fw, E)
           h == Disconnect(f, py, G)
           d == FwReset(h, E)
<1>1. E \in SUBSET Engine /\ \A g \in Generator : g \in E => g \in G BY Records
<1>2. IF NoSpec(G) THEN Raised(py, f) ELSE Checked(q, d) BY DEF ResetAll
<1>3. If(NoSpec(G), "raised") \in SUBSET Odd BY DEF If, Odd
<1>4. /\ odd' \subseteq Odd /\ odd \subseteq odd'
      /\ NoSpec(G) => "raised" \in odd'
  BY <1>3, UsesOdd DEF ResetAll, If
<1>5. s \in Objects /\ s.pins = py.pins /\ s.used = py.used
  BY Records, LogicAssumption DEF Objects
<1> HIDE DEF s, E
<1>6. /\ q \in Objects /\ (Exclusive(s) => Exclusive(q))
      /\ \A g \in Generator : q.pins[g] = IF g \in G THEN {} ELSE py.pins[g]
  BY <1>5, FreedPins
<1> HIDE DEF q
<1>7. f \in Firmware /\ f.state = Words(fw, E, "READY") BY <1>1, Records, StopWords
<1> HIDE DEF f
<1>8. h \in Firmware /\ h.state = f.state BY <1>7, Records, SwitchWords
<1> HIDE DEF h
<1>9. d \in Firmware /\ d.state = Words(h, E, "RESET") BY <1>1, <1>8, ResetWords
<1> HIDE DEF d
<1>10. CASE NoSpec(G) BY <1>2, <1>4, <1>7, <1>10, Records, RaisedInv DEF Kept
<1>11. CASE ~NoSpec(G)
  <2>1. Checked(q, d) BY <1>2, <1>11
  <2>2. \A g \in Generator : g \in Engine BY DEF Engine
  <2>3. ASSUME NEW g \in Generator, g \notin G PROVE d.state[g] = "RESET" => fw.state[g] = "RESET"
    BY <1>1, <1>7, <1>8, <1>9, <2>2, <2>3 DEF Words
  <2>4. Exclusive(py) => Exclusive(q) BY <1>5, <1>6 DEF Exclusive
  <2>5. Kept(odd') => Exclusive(q) /\ Bare(q, d.state)
    BY <1>4, <1>6, <2>3, <2>4 DEF LInv, Kept, Bare
  <2> QED BY <1>4, <1>6, <1>9, <2>1, <2>5, CheckedInv
<1> QED BY <1>10, <1>11

LEMMA DeleteInv ==
    ASSUME LInv, NEW g \in Generator, Delete(g)
    PROVE  LInv'
<1> DEFINE reset == IF py.status[g] = "RESET" THEN <<py, fw>> ELSE ResetState(g)
           p == reset[1]
           f == reset[2]
           spec == IF g = "fsm" THEN {} ELSE p.spec
           q == [p EXCEPT !.pins[g] = {}, !.traced[g] = TRUE, !.spec = spec]
           q0 == [q EXCEPT !.buffer = 0]
           f0 == [f EXCEPT !.room = 0]
           new == If(py.traced[g] /\ InUse(EnginesOf(py, {g})), "retraced")
<1>1. (IF py.traced[g] THEN Checked(q0, f0) ELSE Checked(q, f)) /\ Uses(new)
  BY DEF Delete
<1>2. new \in SUBSET Odd BY DEF If, Odd
<1> HIDE DEF new
<1>3. odd' \subseteq Odd /\ odd \subseteq odd' BY <1>1, <1>2, UsesOdd
<1>4. /\ p \in Objects /\ f \in Firmware
      /\ Kept(odd) => Exclusive(p) /\ p.pins[g] = {} /\ Bare(p, f.state)
  <2>1. CASE py.status[g] = "RESET"
    <3>1. p = py /\ f = fw BY <2>1
    <3> QED BY <2>1, <3>1, Records DEF LInv, Kept, Bare
  <2>2. CASE py.status[g] # "RESET"
    <3>1. p = ResetState(g)[1] /\ f = ResetState(g)[2] BY <2>2
    <3>2. /\ p \in Objects /\ f \in Firmware
          /\ Exclusive(py) => Exclusive(p)
          /\ \A e \in Generator : /\ p.pins[e] = IF e = g THEN {} ELSE py.pins[e]
                                  /\ e # g => f.state[e] = fw.state[e]
      BY <3>1, ResetStateWords
    <3> HIDE DEF p, f
    <3> QED BY <3>2 DEF LInv, Kept, Bare
  <2> QED BY <2>1, <2>2
<1> HIDE DEF reset, p, f
<1>5. p.pins \in [Generator -> SUBSET Pin] /\ spec \in SUBSET Pin BY <1>4 DEF Objects
<1> HIDE DEF spec
<1>6. q \in Objects /\ q.pins = [p.pins EXCEPT ![g] = {}] /\ q.used = p.used
  BY <1>4, <1>5 DEF Objects
<1> HIDE DEF q
<1>7. q0 \in Objects /\ q0.pins = q.pins /\ q0.used = q.used BY <1>6 DEF Objects
<1>8. f0 \in Firmware /\ f0.state = f.state BY <1>4 DEF Firmware
<1> HIDE DEF q0, f0
<1>9. Kept(odd') => Exclusive(q) /\ Bare(q, f.state)
  <2> SUFFICES ASSUME Kept(odd') PROVE Exclusive(q) /\ Bare(q, f.state)
    OBVIOUS
  <2>1. Exclusive(p) /\ p.pins[g] = {} /\ Bare(p, f.state) BY <1>3, <1>4 DEF Kept
  <2>2. q.pins = p.pins BY <1>5, <1>6, <2>1
  <2> QED BY <1>6, <2>1, <2>2 DEF Exclusive, Bare
<1>10. Kept(odd') => Exclusive(q0) /\ Bare(q0, f0.state)
  BY <1>7, <1>8, <1>9 DEF Exclusive, Bare
<1> QED BY <1>1, <1>3, <1>4, <1>6, <1>7, <1>8, <1>9, <1>10, CheckedInv

LEMMA NextLogic == LInv /\ [LogicNext]_logicVars => LInv'
<1> SUFFICES ASSUME LInv, [LogicNext]_logicVars PROVE LInv'
  OBVIOUS
<1>1. CASE UNCHANGED logicVars
  BY <1>1 DEF logicVars, LInv, LogicTypeOK, Exclusive, Bare
<1>2. CASE TraceDone
  <2>1. fw' \in Firmware /\ fw'.state = fw.state
    BY <1>2, Records DEF TraceDone, Firmware
  <2> QED BY <1>2, <2>1 DEF TraceDone, LInv, LogicTypeOK, Exclusive, Bare
<1>3. PinSet \subseteq SUBSET Pin BY DEF PinSet
<1> QED BY <1>1, <1>2, <1>3, SetupConflictInv, SetupInv, TraceInv, RunInv, StepInv, StopInv,
           ResetOneInv, ResetAllInv, DeleteInv, UpdateInv
        DEF LogicNext

LEMMA AlwaysLogic == LogicSpec => []LInv
BY InitLogic, NextLogic, PTL DEF LogicSpec
-----------------------------------------------------------------------------
(* The objects and the firmware are of their types.                        *)
THEOREM TypeCorrect == LogicSpec => []LogicTypeOK
<1>1. LInv => LogicTypeOK BY DEF LInv, Kept
<1> QED BY <1>1, AlwaysLogic, PTL

(* As long as no method has raised half way and nothing is set up again    *)
(* without a reset, no pin is reserved by two generators, and none is      *)
(* reserved that no generator lists, whatever is set up, updated, run,     *)
(* stopped, reset and deleted in whatever order.                           *)
THEOREM PinsCorrect == LogicSpec => []PinsExclusive
<1>1. LInv => PinsExclusive BY DEF LInv, Kept, Exclusive, PinsExclusive
<1> QED BY <1>1, AlwaysLogic, PTL
-----------------------------------------------------------------------------
(* Status, switch and trace.  The rest of what holds in between: about the *)
(* objects q and the firmware f, whose state words are the status.         *)

(* A generator that is set up has what its methods ask for.                *)
Equipped(q, f) ==
    /\ q.spec = q.pins["fsm"]
    /\ \A g \in Generator : f.state[g] # "RESET" =>
          /\ q.traced[g] => q.buffer # 0
          /\ g = "fsm" => q.spec # {}

(* The switch connects pins of running generators only.                    *)
Selected(q, f) ==
    \A p \in Pin : f.select[p] # Unconnected =>
        p \in q.pins[f.select[p]] /\ f.state[f.select[p]] = "RUNNING"

(* It connects all of them.                                                *)
Wiring(q, f) ==
    /\ \A g \in Generator : f.state[g] = "RUNNING" =>
          \A p \in Wired(q, g) : f.select[p] = g
    /\ f.state["boolean"] = "RUNNING" => f.output

(* The firmware's buffer is the objects', and what the next run with a     *)
(* trace will transfer, or the one after a STOP, fits into it.             *)
Fits(f) == f.count <= f.room /\ 1 <= f.room /\ (f.first => f.saved <= f.room)
Bounded(q, f) ==
    /\ f.room = q.buffer /\ f.busy <= f.room
    /\ \A g \in Generator : f.state[g] # "RESET" /\ q.traced[g] => Fits(f)

Calm(o) ==
    "raised" \notin o /\ "again" \notin o /\ "unready" \notin o /\ "retraced" \notin o
Orderly(o) == "preset" \notin o /\ "updated" \notin o
Right(q, f, o) ==
    Calm(o) =>
        /\ Equipped(q, f)
        /\ Orderly(o) => Selected(q, f)
        /\ "preset" \notin o /\ "mixed" \notin o => Wiring(q, f)
        /\ "outgrown" \notin o => Bounded(q, f)

RInv == LInv /\ Right(py, fw, odd) /\ (Calm(odd) => py.status = fw.state)

LEMMA SamplesNat == \A n \in Samples : n \in Nat /\ n >= 1
<1>1. \A n \in Samples : n \in Nat /\ n # 0 BY LogicAssumption
<1> QED BY <1>1

(* What the commands do to the other fields.                               *)
SameTrace(f, h) ==
    /\ h.count = f.count /\ h.saved = f.saved /\ h.first = f.first
    /\ h.room = f.room /\ h.busy = f.busy

LEMMA RunFields ==
    ASSUME NEW f \in Firmware, NEW E \in SUBSET Engine
    PROVE  LET h == FwRun(f, E) IN
           /\ h.select = f.select /\ h.output = ("boolean" \in E)
           /\ h.count = f.count /\ h.saved = f.saved /\ h.first = f.first
           /\ h.room = f.room /\ h.busy = IF "trace" \in E THEN f.count ELSE f.busy
<1> DEFINE words == Put(f, E, "RUNNING")
           on == "boolean" \in E
           busy == IF "trace" \in E THEN f.count ELSE f.busy
<1>1. FwRun(f, E) = [f EXCEPT !.state = words, !.output = on, !.busy = busy]
  BY DEF FwRun
<1> HIDE DEF words, on, busy
<1>2. LET h == FwRun(f, E) IN
      /\ h.select = f.select /\ h.output = on
      /\ h.count = f.count /\ h.saved = f.saved /\ h.first = f.first
      /\ h.room = f.room /\ h.busy = busy
  BY <1>1 DEF Firmware
<1> QED BY <1>2 DEF on, busy

LEMMA StepFields ==
    ASSUME NEW f \in Firmware, NEW E \in SUBSET Engine
    PROVE  LET h == FwStep(f, E) IN
           /\ h.select = f.select /\ h.output = ("boolean" \in E)
           /\ h.count = 1 /\ h.saved = (IF f.first THEN f.saved ELSE f.count)
           /\ h.first
           /\ h.room = f.room /\ h.busy = IF "trace" \in E THEN 1 ELSE f.busy
<1> DEFINE saving == IF f.first THEN f ELSE [f EXCEPT !.saved = f.count, !.first = TRUE]
           one == [saving EXCEPT !.count = 1]
<1>1. /\ saving \in Firmware /\ saving.select = f.select
      /\ saving.saved = (IF f.first THEN f.saved ELSE f.count) /\ saving.first
      /\ saving.room = f.room /\ saving.busy = f.busy
  BY DEF Firmware
<1> HIDE DEF saving
<1>2. /\ one \in Firmware /\ one.select = saving.select /\ one.count = 1
      /\ one.saved = saving.saved /\ one.first
      /\ one.room = saving.room /\ one.busy = saving.busy
  BY <1>1 DEF Firmware
<1>3. FwStep(f, E) = FwRun(one, E) BY DEF FwStep, saving
<1> HIDE DEF one
<1>4. LET h == FwRun(one, E) IN
      /\ h.select = one.select /\ h.output = ("boolean" \in E) /\ h.count = one.count
      /\ h.saved = one.saved /\ h.first = one.first /\ h.room = one.room
      /\ h.busy = IF "trace" \in E THEN one.count ELSE one.busy
  BY <1>2, RunFields
<1> QED BY <1>1, <1>2, <1>3, <1>4

LEMMA StopFields ==
    ASSUME NEW f \in Firmware, NEW E \in SUBSET Engine
    PROVE  LET h == FwStop(f, E) IN
           /\ h.select = f.select /\ ("boolean" \notin E => h.output = f.output)
           /\ h.count = (IF "trace" \in E /\ f.first THEN f.saved ELSE f.count)
           /\ h.saved = f.saved /\ h.first = (f.first /\ "trace" \notin E)
           /\ h.room = f.room /\ h.busy = f.busy
<1> DEFINE r == IF "trace" \in E THEN Restore(f) ELSE f
           words == Put(f, E, "READY")
           on == r.output /\ "boolean" \notin E
<1>1. /\ r \in Firmware /\ r.select = f.select /\ r.output = f.output
      /\ r.count = (IF "trace" \in E /\ f.first THEN f.saved ELSE f.count)
      /\ r.saved = f.saved /\ r.first = (f.first /\ "trace" \notin E)
      /\ r.room = f.room /\ r.busy = f.busy
  BY DEF Restore, Firmware
<1>2. FwStop(f, E) = [r EXCEPT !.state = words, !.output = on] BY DEF FwStop
<1> HIDE DEF r, words, on
<1>3. LET h == FwStop(f, E) IN
      /\ h.select = r.select /\ h.output = on /\ h.count = r.count
      /\ h.saved = r.saved /\ h.first = r.first /\ h.room = r.room /\ h.busy = r.busy
  BY <1>1, <1>2 DEF Firmware
<1>4. "boolean" \notin E => on = f.output
  <2>1. f.output \in BOOLEAN BY DEF Firmware
  <2> QED BY <1>1, <2>1 DEF on
<1> QED BY <1>1, <1>3, <1>4

LEMMA StateFields ==
    ASSUME NEW f \in Firmware, NEW E \in SUBSET Engine, NEW e \in Engine
    PROVE  /\ SameTrace(f, FwReset(f, E))
           /\ FwReset(f, E).select = f.select /\ FwReset(f, E).output = f.output
           /\ SameTrace(f, FwConfig(f, e))
           /\ FwConfig(f, e).select = f.select /\ FwConfig(f, e).output = f.output
BY DEF FwReset, FwConfig, SameTrace, Firmware

LEMMA ConfigTraceFields ==
    ASSUME NEW f \in Firmware, NEW m \in Samples, NEW n \in Samples
    PROVE  LET h == FwConfigTrace(f, m, n) IN
           /\ h.select = f.select /\ h.output = f.output /\ h.count = n
           /\ h.saved = f.saved /\ h.first = f.first /\ h.room = m /\ h.busy = f.busy
<1> DEFINE c == FwConfig(f, "trace")
<1>1. /\ c \in Firmware /\ SameTrace(f, c) /\ c.select = f.select /\ c.output = f.output
  BY ConfigWords, StateFields DEF Engine
<1>2. FwConfigTrace(f, m, n) = [c EXCEPT !.room = m, !.count = n] BY DEF FwConfigTrace
<1> HIDE DEF c
<1> QED BY <1>1, <1>2 DEF Firmware, SameTrace

LEMMA CheckFields ==
    ASSUME NEW f \in Firmware
    PROVE  /\ SameTrace(f, FwCheck(f))
           /\ FwCheck(f).select = f.select /\ FwCheck(f).output = f.output
<1>1. FwCheck(f) = f \/ FwCheck(f) = FwConfig(f, "trace") BY DEF FwCheck
<1>2. "trace" \in Engine BY DEF Engine
<1> QED BY <1>1, <1>2, StateFields DEF SameTrace

LEMMA SwitchFields ==
    ASSUME NEW f \in Firmware, NEW q \in Objects, NEW G \in SUBSET Generator
    PROVE  /\ SameTrace(f, Connect(f, q, G)) /\ SameTrace(f, Disconnect(f, q, G))
           /\ Connect(f, q, G).output = f.output /\ Disconnect(f, q, G).output = f.output
           /\ \A p \in Pin :
                 /\ p \in WiredBy(q, G) =>
                       \E g \in G : p \in Wired(q, g) /\ Connect(f, q, G).select[p] = g
                 /\ p \notin WiredBy(q, G) => Connect(f, q, G).select[p] = f.select[p]
                 /\ Disconnect(f, q, G).select[p] =
                       IF p \in WiredBy(q, G) THEN Unconnected ELSE f.select[p]
<1> DEFINE on == [p \in Pin |->
        IF p \in WiredBy(q, G) THEN CHOOSE g \in G : p \in Wired(q, g) ELSE f.select[p]]
           off == [p \in Pin |-> IF p \in WiredBy(q, G) THEN Unconnected ELSE f.select[p]]
<1>1. ASSUME NEW p \in Pin, p \in WiredBy(q, G)
      PROVE  \E g \in G : p \in Wired(q, g) /\ on[p] = g
  <2>1. \E g \in G : p \in Wired(q, g) BY <1>1 DEF WiredBy
  <2>2. on[p] = CHOOSE g \in G : p \in Wired(q, g) BY <1>1
  <2> QED BY <2>1, <2>2
<1>2. \A p \in Pin : p \notin WiredBy(q, G) => on[p] = f.select[p] OBVIOUS
<1>3. \A p \in Pin : off[p] = IF p \in WiredBy(q, G) THEN Unconnected ELSE f.select[p]
  OBVIOUS
<1>4. Connect(f, q, G) = [f EXCEPT !.select = on] BY DEF Connect
<1>5. Disconnect(f, q, G) = [f EXCEPT !.select = off] BY DEF Disconnect
<1> HIDE DEF on, off
<1>6. /\ SameTrace(f, Connect(f, q, G)) /\ Connect(f, q, G).select = on
      /\ Connect(f, q, G).output = f.output
  BY <1>4 DEF Firmware, SameTrace
<1>7. /\ SameTrace(f, Disconnect(f, q, G)) /\ Disconnect(f, q, G).select = off
      /\ Disconnect(f, q, G).output = f.output
  BY <1>5 DEF Firmware, SameTrace
<1> QED BY <1>1, <1>2, <1>3, <1>6, <1>7

LEMMA FreedFields ==
    ASSUME NEW q \in Objects, NEW G \in SUBSET Generator
    PROVE  /\ FreePins(q, G).buffer = q.buffer
           /\ FreePins(q, G).spec = IF "fsm" \in G THEN {} ELSE q.spec
<1> DEFINE left == [g \in Generator |-> IF g \in G THEN {} ELSE q.pins[g]]
           spec == IF "fsm" \in G THEN {} ELSE q.spec
           used == q.used \ UNION {q.pins[g] : g \in G}
           u == Unlist(q, G)
<1>1. u = [q EXCEPT !.pins = left, !.spec = spec] BY DEF Unlist
<1>2. FreePins(q, G) = [u EXCEPT !.used = used]
  <2>1. u.used = q.used BY <1>1 DEF Objects
  <2> QED BY <2>1 DEF FreePins
<1>3. left \in [Generator -> SUBSET Pin] /\ spec \in SUBSET Pin BY DEF Objects
<1> HIDE DEF left, spec, used, u
<1>4. u \in Objects /\ u.buffer = q.buffer /\ u.spec = spec
  BY <1>1, <1>3 DEF Objects
<1> QED BY <1>2, <1>4 DEF Objects, spec

-----------------------------------------------------------------------------
(* The end of every method that does not raise.                            *)
LEMMA CheckedRight ==
    ASSUME NEW q \in Objects, NEW f \in Firmware, Checked(q, f), LInv', Right(q, f, odd')
    PROVE  RInv'
<1> DEFINE s == FwCheck(f).state
<1>1. /\ FwCheck(f) \in Firmware /\ \A g \in Generator : s[g] = f.state[g]
      /\ SameTrace(f, FwCheck(f))
      /\ FwCheck(f).select = f.select /\ FwCheck(f).output = f.output
  BY CheckWords, CheckFields
<1>2. fw' = FwCheck(f) /\ py' = [q EXCEPT !.status = s] BY DEF Checked
<1> HIDE DEF s
<1>3. /\ py'.pins = q.pins /\ py'.spec = q.spec /\ py'.traced = q.traced
      /\ py'.buffer = q.buffer /\ py'.status = s
  BY <1>2 DEF Objects
<1>4. fw'.state = s BY <1>2 DEF s
<1>5. /\ SameTrace(f, fw') /\ fw'.select = f.select /\ fw'.output = f.output
  BY <1>1, <1>2
<1>6. Equipped(q, f) => Equipped(py', fw') BY <1>1, <1>3, <1>4 DEF Equipped
<1>7. Selected(q, f) => Selected(py', fw')
  <2>1. \A p \in Pin : f.select[p] \in Generator \cup {Unconnected} BY DEF Firmware
  <2>2. \A p \in Pin : f.select[p] # Unconnected =>
           fw'.state[f.select[p]] = f.state[f.select[p]]
    BY <1>1, <1>4, <2>1
  <2> QED BY <1>3, <1>5, <2>2 DEF Selected
<1>8. Wiring(q, f) => Wiring(py', fw')
  <2>1. \A g \in Generator : Wired(py', g) = Wired(q, g) BY <1>3 DEF Wired
  <2>2. "boolean" \in Generator BY DEF Generator
  <2> QED BY <1>1, <1>4, <1>5, <2>1, <2>2 DEF Wiring
<1>9. Bounded(q, f) => Bounded(py', fw')
  <2>1. Fits(f) => Fits(fw') BY <1>5 DEF Fits, SameTrace
  <2> QED BY <1>1, <1>3, <1>4, <1>5, <2>1 DEF Bounded, SameTrace
<1>10. Right(py', fw', odd') BY <1>6, <1>7, <1>8, <1>9 DEF Right
<1> QED BY <1>3, <1>4, <1>10 DEF RInv, Right, Equipped, Selected, Wiring, Bounded, Calm

(* What RInv says while nothing has raised and no trace was switched off   *)
(* under way.                                                              *)
LEMMA CalmFacts ==
    ASSUME RInv, Calm(odd)
    PROVE  /\ py.status = fw.state /\ Equipped(py, fw) /\ Exclusive(py)
           /\ Orderly(odd) => Selected(py, fw)
           /\ "preset" \notin odd /\ "mixed" \notin odd => Wiring(py, fw)
           /\ "outgrown" \notin odd => Bounded(py, fw)
BY DEF RInv, LInv, Kept, Right, Calm

LEMMA CalmBefore ==
    ASSUME odd \subseteq odd', Calm(odd')
    PROVE  Calm(odd)
BY DEF Calm

Alike(q, r) ==
    q.pins = r.pins /\ q.spec = r.spec /\ q.traced = r.traced /\ q.buffer = r.buffer

(* Of two generators' pins, none is the same.                              *)
LEMMA WiredOnce ==
    ASSUME NEW q \in Objects, Exclusive(q), q.spec = q.pins["fsm"],
           NEW g \in Generator, NEW h \in Generator, NEW p \in Pin
    PROVE  /\ Wired(q, g) = q.pins[g]
           /\ p \in Wired(q, g) /\ p \in Wired(q, h) => g = h
<1>1. \A e \in Generator : Wired(q, e) = q.pins[e] BY DEF Wired
<1>2. g # h => q.pins[g] \cap q.pins[h] = {} BY DEF Exclusive
<1> QED BY <1>1, <1>2

(* run() and step() of the generators G.                                   *)
LEMMA Started ==
    ASSUME RInv, Calm(odd), NEW G \in SUBSET Generator, NEW q \in Objects, Alike(q, py),
           NEW f \in Firmware,
           \A g \in Generator : f.state[g] = IF g \in G THEN "RUNNING" ELSE fw.state[g],
           \A g \in G : fw.state[g] # "RESET",
           f.select = Connect(fw, py, G).select \/ f.select = fw.select,
           "boolean" \in G => f.output
    PROVE  /\ Equipped(q, f)
           /\ Orderly(odd) => Selected(q, f)
           /\ /\ "preset" \notin odd /\ "mixed" \notin odd
              /\ \A g \in Generator \ G : fw.state[g] # "RUNNING"
              /\ \/ f.select = Connect(fw, py, G).select
                 \/ \A g \in G : fw.state[g] = "RUNNING"
              => Wiring(q, f)
<1> DEFINE a == Connect(fw, py, G)
<1>1. /\ py \in Objects /\ fw \in Firmware
      /\ \A p \in Pin : fw.select[p] \in Generator \cup {Unconnected}
  BY Records DEF RInv, Firmware
<1>2. Equipped(py, fw) /\ Exclusive(py) BY CalmFacts
<1>3. \A p \in Pin :
         /\ p \in WiredBy(py, G) => \E g \in G : p \in Wired(py, g) /\ a.select[p] = g
         /\ p \notin WiredBy(py, G) => a.select[p] = fw.select[p]
  BY <1>1, SwitchFields
<1> HIDE DEF a
<1>4. Equipped(q, f) BY <1>2 DEF Equipped, Alike
<1>5. ASSUME Orderly(odd) PROVE Selected(q, f)
  <2>1. Selected(py, fw) BY <1>5, CalmFacts
  <2>2. ASSUME NEW p \in Pin, f.select[p] # Unconnected
        PROVE  p \in q.pins[f.select[p]] /\ f.state[f.select[p]] = "RUNNING"
    <3>1. CASE f.select[p] = fw.select[p]
      <4>1. fw.select[p] \in Generator BY <1>1, <2>2, <3>1
      <4>2. p \in py.pins[fw.select[p]] /\ fw.state[fw.select[p]] = "RUNNING"
        BY <2>1, <2>2, <3>1 DEF Selected
      <4> QED BY <3>1, <4>1, <4>2 DEF Alike
    <3>2. CASE f.select[p] # fw.select[p]
      <4>1. f.select[p] = a.select[p] BY <3>2 DEF a
      <4>2. PICK g \in G : p \in Wired(py, g) /\ f.select[p] = g
        BY <1>3, <3>2, <4>1
      <4>3. p \in py.pins[g] BY <1>1, <1>2, <4>2, WiredOnce DEF Equipped
      <4> QED BY <4>2, <4>3 DEF Alike
    <3> QED BY <3>1, <3>2
  <2> QED BY <2>1, <2>2 DEF Selected, Alike
<1>6. ASSUME "preset" \notin odd, "mixed" \notin odd,
             \A g \in Generator \ G : fw.state[g] # "RUNNING",
             f.select = a.select \/ \A g \in G : fw.state[g] = "RUNNING"
      PROVE  Wiring(q, f)
  <2>1. Wiring(py, fw) BY <1>6, CalmFacts
  <2>2. \A g \in Generator : Wired(q, g) = Wired(py, g) BY DEF Wired, Alike
  <2>3. ASSUME NEW g \in Generator, f.state[g] = "RUNNING", NEW p \in Wired(py, g)
        PROVE  f.select[p] = g
    <3>1. g \in G BY <1>6, <2>3
    <3>2. p \in Pin BY <1>1, <2>3 DEF Wired, Objects
    <3>3. p \in WiredBy(py, G) BY <2>3, <3>1 DEF WiredBy
    <3>4. PICK h \in G : p \in Wired(py, h) /\ a.select[p] = h BY <1>3, <3>2, <3>3
    <3>5. g = h BY <1>1, <1>2, <2>3, <3>2, <3>4, WiredOnce DEF Equipped
    <3>6. (\A e \in G : fw.state[e] = "RUNNING") => fw.select[p] = g
      BY <2>1, <2>3, <3>1 DEF Wiring
    <3> QED BY <1>6, <3>4, <3>5, <3>6 DEF a
  <2>4. f.state["boolean"] = "RUNNING" => f.output
    BY <1>6 DEF Generator
  <2> QED BY <2>2, <2>3, <2>4 DEF Wiring
<1> QED BY <1>4, <1>5, <1>6 DEF a

LEMMA RunRight ==
    ASSUME RInv, NEW G \in SUBSET Generator, NEW own \in BOOLEAN, Run(G, own)
    PROVE  RInv'
<1> DEFINE E == EnginesOf(py, G)
           q == IF own THEN [py EXCEPT !.steps = 0] ELSE py
           a == Connect(fw, py, G)
           f == FwRun(a, E)
<1>0. LInv BY DEF RInv
<1>1. LInv' BY <1>0, RunInv
<1>2. /\ Uses(If(OthersRunning(G), "mixed")) /\ \A g \in G : py.status[g] # "RESET"
      /\ IF NoTrace(G) /\ ~own THEN Raised(q, f) ELSE Checked(q, f)
  BY DEF Run
<1>3. odd \subseteq odd' /\ If(OthersRunning(G), "mixed") \subseteq odd'
  <2>1. If(OthersRunning(G), "mixed") \in SUBSET Odd BY DEF If, Odd
  <2> QED BY <1>0, <1>2, <2>1, UsesOdd
<1>4. q \in Objects /\ Alike(q, py)
  BY <1>0, Records, LogicAssumption DEF Objects, Alike
<1>5. /\ E \in SUBSET Engine /\ G \subseteq E /\ \A g \in Generator : g \in E => g \in G
      /\ "trace" \in E => \E g \in G : py.traced[g]
  BY <1>0, Records DEF EnginesOf, Generator
<1> HIDE DEF q, E
<1>6. a \in Firmware /\ a.state = fw.state /\ SameTrace(fw, a)
  BY <1>0, Records, SwitchWords, SwitchFields
<1> HIDE DEF a
<1>7. /\ f \in Firmware /\ f.state = Words(a, E, "RUNNING")
      /\ f.select = a.select /\ f.output = ("boolean" \in E)
      /\ f.count = fw.count /\ f.saved = fw.saved /\ f.first = fw.first
      /\ f.room = fw.room /\ f.busy = IF "trace" \in E THEN fw.count ELSE fw.busy
  BY <1>5, <1>6, RunWords, RunFields DEF SameTrace
<1> HIDE DEF f
<1>8. \A g \in Generator : f.state[g] = IF g \in G THEN "RUNNING" ELSE fw.state[g]
  BY <1>5, <1>6, <1>7 DEF Words, Engine
<1>9. CASE ~Calm(odd') BY <1>1, <1>9 DEF RInv, Right, Calm
<1>10. CASE Calm(odd')
  <2>1. Calm(odd) BY <1>3, <1>10, CalmBefore
  <2>2. /\ py.status = fw.state /\ Equipped(py, fw) /\ Exclusive(py)
        /\ "outgrown" \notin odd => Bounded(py, fw)
    BY <2>1, CalmFacts
  <2>3. \A g \in G : fw.state[g] # "RESET" BY <1>2, <2>2
  <2>4. ~NoTrace(G) BY <2>2, <2>3 DEF NoTrace, Equipped
  <2>5. Checked(q, f) BY <1>2, <2>4
  <2>6. /\ Equipped(q, f)
        /\ Orderly(odd) => Selected(q, f)
        /\ /\ "preset" \notin odd /\ "mixed" \notin odd
           /\ \A g \in Generator \ G : fw.state[g] # "RUNNING"
           => Wiring(q, f)
    <3>1. \A g \in G : fw.state[g] # "RESET" BY <2>3
    <3>2. f.select = Connect(fw, py, G).select BY <1>7 DEF a
    <3>3. "boolean" \in G => f.output BY <1>5, <1>7
    <3> QED BY <1>4, <1>7, <1>8, <2>1, <3>1, <3>2, <3>3, Started
  <2>7. "mixed" \notin odd' => \A g \in Generator \ G : fw.state[g] # "RUNNING"
    BY <1>3, <2>2 DEF If, OthersRunning
  <2>8. ASSUME "outgrown" \notin odd PROVE Bounded(q, f)
    <3>1. Bounded(py, fw) BY <2>2, <2>8
    <3>2. "trace" \in E => Fits(fw) BY <1>5, <2>3, <3>1 DEF Bounded
    <3>3. f.busy <= f.room BY <1>7, <3>1, <3>2 DEF Bounded, Fits
    <3>4. \A g \in Generator : f.state[g] # "RESET" /\ q.traced[g] => Fits(fw)
      BY <1>4, <1>8, <2>3, <3>1 DEF Bounded, Alike
    <3>5. Fits(fw) => Fits(f) BY <1>7 DEF Fits
    <3> QED BY <1>4, <1>7, <3>1, <3>3, <3>4, <3>5 DEF Bounded, Alike
  <2>9. Right(q, f, odd') BY <1>3, <2>6, <2>7, <2>8 DEF Right, Orderly
  <2> QED BY <1>1, <1>4, <1>7, <2>5, <2>9, CheckedRight
<1> QED BY <1>9, <1>10

LEMMA StepRight ==
    ASSUME RInv, NEW G \in SUBSET Generator, Step(G)
    PROVE  RInv'
<1> DEFINE E == EnginesOf(py, G)
           a == Connect(fw, py, G)
           b == FwStep(a, E)
           c == IF Unstepped(G) THEN b ELSE fw
           f == FwStep(c, E)
           q == [py EXCEPT !.steps = IF @ < MaxSteps THEN @ + 1 ELSE @]
           new == If(OthersRunning(G) \/ (py.steps > 0
                       /\ \E g \in G : py.status[g] # "RUNNING"), "mixed")
<1>0. LInv BY DEF RInv
<1>1. LInv' BY <1>0, StepInv
<1>2. /\ Uses(new) /\ \A g \in G : py.status[g] # "RESET"
      /\ IF NoTrace(G) /\ Cardinality(G) > 1 THEN Raised(q, f) ELSE Checked(q, f)
  BY DEF Step
<1>3. odd \subseteq odd' /\ new \subseteq odd'
  <2>1. new \in SUBSET Odd BY DEF If, Odd
  <2> QED BY <1>0, <1>2, <2>1, UsesOdd
<1>4. q \in Objects /\ Alike(q, py)
  <2>1. py.steps \in 0 .. MaxSteps BY <1>0, Records DEF Objects
  <2>2. (IF py.steps < MaxSteps THEN py.steps + 1 ELSE py.steps) \in 0 .. MaxSteps
    BY <2>1, LogicAssumption
  <2> QED BY <1>0, <2>2, Records DEF Objects, Alike
<1>5. /\ E \in SUBSET Engine /\ G \subseteq E /\ \A g \in Generator : g \in E => g \in G
      /\ "trace" \in E => \E g \in G : py.traced[g]
  BY <1>0, Records DEF EnginesOf, Generator
<1> HIDE DEF q, E
<1>6. a \in Firmware /\ a.state = fw.state /\ SameTrace(fw, a)
  BY <1>0, Records, SwitchWords, SwitchFields
<1> HIDE DEF a
<1>7. /\ b \in Firmware /\ b.state = Words(a, E, "RUNNING") /\ b.select = a.select
      /\ b.count = 1 /\ b.saved = (IF fw.first THEN fw.saved ELSE fw.count)
      /\ b.first
      /\ b.room = fw.room /\ b.busy = IF "trace" \in E THEN 1 ELSE fw.busy
  <2>1. b \in Firmware /\ b.state = Words(a, E, "RUNNING") BY <1>5, <1>6, StepWords
  <2>2. /\ b.select = a.select
        /\ b.count = 1 /\ b.saved = (IF a.first THEN a.saved ELSE a.count)
        /\ b.first
        /\ b.room = a.room /\ b.busy = IF "trace" \in E THEN 1 ELSE a.busy
    BY <1>5, <1>6, StepFields
  <2> HIDE DEF b
  <2> QED BY <1>6, <2>1, <2>2 DEF SameTrace
<1> HIDE DEF b
<1>8. /\ c \in Firmware /\ \A g \in Generator \ G : c.state[g] = fw.state[g]
      /\ c.select = IF Unstepped(G) THEN a.select ELSE fw.select
      /\ IF c.first THEN c.saved = (IF fw.first THEN fw.saved ELSE fw.count)
                    ELSE ~fw.first /\ c.count = fw.count
      /\ c.room = fw.room /\ (c.busy = fw.busy \/ ("trace" \in E /\ c.busy = 1))
  <2>1. CASE Unstepped(G)
    <3>1. c = b BY <2>1
    <3>2. \A g \in Generator \ G : b.state[g] = fw.state[g]
      BY <1>5, <1>6, <1>7 DEF Words, Engine
    <3> QED BY <1>7, <2>1, <3>1, <3>2
  <2>2. CASE ~Unstepped(G)
    <3>1. c = fw BY <2>2
    <3> QED BY <1>0, <2>2, <3>1, Records
  <2> QED BY <2>1, <2>2
<1> HIDE DEF c
<1>9. /\ f \in Firmware /\ f.state = Words(c, E, "RUNNING")
      /\ f.select = c.select /\ f.output = ("boolean" \in E)
      /\ f.count = 1 /\ f.saved = (IF fw.first THEN fw.saved ELSE fw.count)
      /\ f.room = fw.room /\ (f.busy = fw.busy \/ ("trace" \in E /\ f.busy = 1))
  <2>1. f \in Firmware /\ f.state = Words(c, E, "RUNNING") BY <1>5, <1>8, StepWords
  <2>2. /\ f.select = c.select /\ f.output = ("boolean" \in E)
        /\ f.count = 1 /\ f.saved = (IF c.first THEN c.saved ELSE c.count)
        /\ f.room = c.room /\ f.busy = IF "trace" \in E THEN 1 ELSE c.busy
    BY <1>5, <1>8, StepFields
  <2>3. (IF c.first THEN c.saved ELSE c.count) = (IF fw.first THEN fw.saved ELSE fw.count)
    BY <1>8
  <2> HIDE DEF f
  <2> QED BY <1>8, <2>1, <2>2, <2>3
<1> HIDE DEF f
<1>10. \A g \in Generator : f.state[g] = IF g \in G THEN "RUNNING" ELSE fw.state[g]
  BY <1>5, <1>8, <1>9 DEF Words, Engine
<1>11. CASE ~Calm(odd') BY <1>1, <1>11 DEF RInv, Right, Calm
<1>12. CASE Calm(odd')
  <2>1. Calm(odd) BY <1>3, <1>12, CalmBefore
  <2>2. /\ py.status = fw.state /\ Equipped(py, fw) /\ Exclusive(py)
        /\ "outgrown" \notin odd => Bounded(py, fw)
    BY <2>1, CalmFacts
  <2>3. \A g \in G : fw.state[g] # "RESET" BY <1>2, <2>2
  <2>4. ~NoTrace(G) BY <2>2, <2>3 DEF NoTrace, Equipped
  <2>5. Checked(q, f) BY <1>2, <2>4
  <2>6. f.select = Connect(fw, py, G).select \/ f.select = fw.select
    BY <1>8, <1>9 DEF a
  <2>7. /\ Equipped(q, f)
        /\ Orderly(odd) => Selected(q, f)
        /\ /\ "preset" \notin odd /\ "mixed" \notin odd
           /\ \A g \in Generator \ G : fw.state[g] # "RUNNING"
           /\ \/ f.select = Connect(fw, py, G).select
              \/ \A g \in G : fw.state[g] = "RUNNING"
           => Wiring(q, f)
    <3>1. "boolean" \in G => f.output BY <1>5, <1>9
    <3> QED BY <1>4, <1>9, <1>10, <2>1, <2>3, <2>6, <3>1, Started
  <2>8. ASSUME "mixed" \notin odd'
        PROVE  /\ \A g \in Generator \ G : fw.state[g] # "RUNNING"
               /\ \/ f.select = Connect(fw, py, G).select
                  \/ \A g \in G : fw.state[g] = "RUNNING"
    <3>1. ~OthersRunning(G) /\ ~(py.steps > 0 /\ \E g \in G : py.status[g] # "RUNNING")
      BY <1>3, <2>8 DEF If
    <3>2. CASE Unstepped(G)
      <4>1. f.select = Connect(fw, py, G).select BY <1>8, <1>9, <3>2 DEF a
      <4> QED BY <2>2, <3>1, <4>1 DEF OthersRunning
    <3>3. CASE ~Unstepped(G)
      <4>1. py.steps \in Nat BY <1>0, Records, LogicAssumption DEF Objects
      <4>2. py.steps > 0 BY <3>3, <4>1 DEF Unstepped
      <4> QED BY <2>2, <3>1, <4>2 DEF OthersRunning
    <3> QED BY <3>2, <3>3
  <2>9. ASSUME "outgrown" \notin odd PROVE Bounded(q, f)
    <3>1. Bounded(py, fw) BY <2>2, <2>9
    <3>2. "trace" \in E => Fits(fw) BY <1>5, <2>3, <3>1 DEF Bounded
    <3>3. f.busy <= f.room BY <1>9, <3>1, <3>2 DEF Bounded, Fits
    <3>4. \A g \in Generator : f.state[g] # "RESET" /\ q.traced[g] => Fits(fw)
      BY <1>4, <1>10, <2>3, <3>1 DEF Bounded, Alike
    <3>5. Fits(fw) => Fits(f) BY <1>9 DEF Fits
    <3> QED BY <1>4, <1>9, <3>1, <3>3, <3>4, <3>5 DEF Bounded, Alike
  <2>10. Right(q, f, odd') BY <1>3, <2>7, <2>8, <2>9 DEF Right, Orderly
  <2> QED BY <1>1, <1>4, <1>9, <2>5, <2>10, CheckedRight
<1> QED BY <1>11, <1>12

-----------------------------------------------------------------------------
(* stop() and reset() of the generators G, and what is left of their pins. *)
LEMMA Stopped ==
    ASSUME RInv, Calm(odd), NEW G \in SUBSET Generator, NEW q \in Objects,
           NEW f \in Firmware,
           q.traced = py.traced, q.buffer = py.buffer,
           \A g \in Generator \ G : q.pins[g] = py.pins[g],
           q.spec = py.spec \/ ("fsm" \in G /\ f.state["fsm"] = "RESET"),
           py.spec = py.pins["fsm"] => q.spec = q.pins["fsm"],
           \A g \in Generator \ G : f.state[g] = fw.state[g],
           \A g \in G : /\ f.state[g] # "RUNNING"
                        /\ fw.state[g] = "RESET" => f.state[g] = "RESET",
           \A p \in Pin : p \notin WiredBy(py, G) => f.select[p] = fw.select[p],
           Orderly(odd) => \A p \in Pin :
               p \in WiredBy(py, G) => f.select[p] = Unconnected,
           "boolean" \notin G => f.output = fw.output
    PROVE  /\ Equipped(q, f)
           /\ Orderly(odd) => Selected(q, f)
           /\ "preset" \notin odd /\ "mixed" \notin odd => Wiring(q, f)
<1>1. /\ py \in Objects /\ fw \in Firmware
      /\ \A p \in Pin : fw.select[p] \in Generator \cup {Unconnected}
  BY Records DEF RInv, Firmware
<1>2. Equipped(py, fw) /\ Exclusive(py) BY CalmFacts
<1>3. Equipped(q, f)
  <2>1. ASSUME NEW g \in Generator, f.state[g] # "RESET"
        PROVE  fw.state[g] # "RESET" /\ (g = "fsm" => q.spec = py.spec)
    BY <2>1
  <2> QED BY <1>2, <2>1 DEF Equipped
<1>4. ASSUME Orderly(odd) PROVE Selected(q, f)
  <2>1. Selected(py, fw) BY <1>4, CalmFacts
  <2>2. ASSUME NEW p \in Pin, f.select[p] # Unconnected
        PROVE  p \in q.pins[f.select[p]] /\ f.state[f.select[p]] = "RUNNING"
    <3>1. p \notin WiredBy(py, G) /\ f.select[p] = fw.select[p] BY <1>4, <2>2
    <3>2. PICK g \in Generator : g = f.select[p] BY <1>1, <2>2, <3>1
    <3>3. p \in py.pins[g] /\ fw.state[g] = "RUNNING" BY <2>1, <2>2, <3>1, <3>2 DEF Selected
    <3>4. Wired(py, g) = py.pins[g] BY <1>2 DEF Wired, Equipped
    <3>5. g \notin G BY <3>1, <3>3, <3>4 DEF WiredBy
    <3> QED BY <3>2, <3>3, <3>5
  <2> QED BY <2>2 DEF Selected
<1>5. ASSUME "preset" \notin odd, "mixed" \notin odd PROVE Wiring(q, f)
  <2>1. Wiring(py, fw) BY <1>5, CalmFacts
  <2>2. ASSUME NEW g \in Generator, f.state[g] = "RUNNING", NEW p \in Wired(q, g)
        PROVE  f.select[p] = g
    <3>1. g \notin G /\ fw.state[g] = "RUNNING" BY <2>2
    <3>2. Wired(q, g) = Wired(py, g)
      BY <1>2, <1>3, <3>1 DEF Wired, Equipped
    <3>3. p \in Pin BY <1>1, <2>2, <3>2 DEF Wired, Objects
    <3>4. fw.select[p] = g BY <2>1, <2>2, <3>1, <3>2 DEF Wiring
    <3>5. p \notin WiredBy(py, G)
      <4>1. ASSUME NEW h \in G, p \in Wired(py, h) PROVE FALSE
        BY <1>1, <1>2, <2>2, <3>1, <3>2, <3>3, <4>1, WiredOnce DEF Equipped
      <4> QED BY <4>1 DEF WiredBy
    <3> QED BY <1>5, <3>3, <3>4, <3>5
  <2>3. f.state["boolean"] = "RUNNING" => f.output
    BY <2>1 DEF Wiring, Generator
  <2> QED BY <2>2, <2>3 DEF Wiring
<1> QED BY <1>3, <1>4, <1>5

(* The number of samples that STOP restores still fits.                    *)
LEMMA StillFits ==
    ASSUME RInv, Calm(odd), "outgrown" \notin odd, NEW q \in Objects, NEW f \in Firmware,
           q.traced = py.traced, q.buffer = py.buffer,
           \A g \in Generator : fw.state[g] = "RESET" => f.state[g] = "RESET",
           f.room = fw.room, f.busy = fw.busy, f.saved = fw.saved,
           f.count = fw.count \/ (fw.first /\ f.count = fw.saved),
           f.first => fw.first
    PROVE  Bounded(q, f)
<1>1. Bounded(py, fw) BY CalmFacts
<1>2. Fits(fw) => Fits(f) BY DEF Fits
<1> QED BY <1>1, <1>2 DEF Bounded

LEMMA StopRight ==
    ASSUME RInv, NEW G \in SUBSET Generator, Stop(G)
    PROVE  RInv'
<1> DEFINE E == EnginesOf(py, G)
           f == FwStop(fw, E)
           h == Disconnect(f, py, G)
           q == [py EXCEPT !.steps = 0]
<1>0. LInv BY DEF RInv
<1>1. LInv' BY <1>0, StopInv
<1>2. /\ IF NoSpec(G) THEN Raised(py, f) ELSE Checked(q, h)
      /\ odd \subseteq odd' /\ (NoSpec(G) => "raised" \in odd')
      /\ "raised" \notin odd' /\ "unready" \notin odd' =>
            \A g \in G : py.status[g] # "RESET"
  <2> DEFINE new == IF NoSpec(G) THEN {"raised"}
                    ELSE If(\E g \in G : py.status[g] = "RESET", "unready")
  <2>1. /\ new \in SUBSET Odd /\ (NoSpec(G) => "raised" \in new)
        /\ ~NoSpec(G) /\ (\E g \in G : py.status[g] = "RESET") => "unready" \in new
    BY DEF If, Odd
  <2>2. Uses(new) BY DEF Stop
  <2> HIDE DEF new
  <2>3. odd \subseteq odd' /\ new \subseteq odd' BY <1>0, <2>1, <2>2, UsesOdd
  <2> QED BY <2>1, <2>3 DEF Stop
<1>3. q \in Objects /\ Alike(q, py)
  BY <1>0, Records, LogicAssumption DEF Objects, Alike
<1>4. /\ E \in SUBSET Engine /\ G \subseteq E /\ \A g \in Generator : g \in E => g \in G
      /\ py \in Objects /\ fw \in Firmware
  BY <1>0, Records
<1> HIDE DEF q, E
<1>5. /\ f \in Firmware /\ f.state = Words(fw, E, "READY") BY <1>4, StopWords
<1>6. /\ f.select = fw.select /\ ("boolean" \notin E => f.output = fw.output)
      /\ f.count = (IF "trace" \in E /\ fw.first THEN fw.saved ELSE fw.count)
      /\ f.saved = fw.saved /\ f.first = (fw.first /\ "trace" \notin E)
      /\ f.room = fw.room /\ f.busy = fw.busy
  BY <1>4, StopFields
<1> HIDE DEF f
<1>7. /\ h \in Firmware /\ h.state = f.state /\ SameTrace(f, h) /\ h.output = f.output
      /\ \A p \in Pin :
            h.select[p] = IF p \in WiredBy(py, G) THEN Unconnected ELSE fw.select[p]
  BY <1>4, <1>5, <1>6, SwitchWords, SwitchFields
<1> HIDE DEF h
<1>8. \A g \in Generator : h.state[g] = IF g \in G THEN "READY" ELSE fw.state[g]
  BY <1>4, <1>5, <1>7 DEF Words, Engine
<1>9. CASE ~Calm(odd') BY <1>1, <1>9 DEF RInv, Right, Calm
<1>10. CASE Calm(odd')
  <2>1. Calm(odd) BY <1>2, <1>10, CalmBefore
  <2>2. /\ py.status = fw.state /\ Equipped(py, fw) BY <2>1, CalmFacts
  <2>3. ~NoSpec(G) /\ \A g \in G : py.status[g] # "RESET" BY <1>2, <1>10 DEF Calm
  <2>4. Checked(q, h) BY <1>2, <2>3
  <2>5. /\ Equipped(q, h)
        /\ Orderly(odd) => Selected(q, h)
        /\ "preset" \notin odd /\ "mixed" \notin odd => Wiring(q, h)
    <3>1. \A g \in G : /\ h.state[g] # "RUNNING"
                       /\ fw.state[g] = "RESET" => h.state[g] = "RESET"
      BY <1>8, <2>2, <2>3
    <3>2. "boolean" \notin G => h.output = fw.output
      BY <1>4, <1>6, <1>7 DEF Generator
    <3> QED BY <1>3, <1>7, <1>8, <2>1, <3>1, <3>2, Stopped DEF Alike
  <2>6. "outgrown" \notin odd => Bounded(q, h)
    <3>1. \A g \in Generator : fw.state[g] = "RESET" => h.state[g] = "RESET"
      BY <1>8, <2>2, <2>3
    <3>2. /\ h.room = fw.room /\ h.busy = fw.busy /\ h.saved = fw.saved
          /\ h.count = fw.count \/ (fw.first /\ h.count = fw.saved)
          /\ h.first => fw.first
      BY <1>6, <1>7 DEF SameTrace
    <3> QED BY <1>3, <1>7, <2>1, <3>1, <3>2, StillFits DEF Alike
  <2>7. Right(q, h, odd') BY <1>2, <2>5, <2>6 DEF Right, Orderly
  <2> QED BY <1>1, <1>3, <1>7, <2>4, <2>7, CheckedRight
<1> QED BY <1>9, <1>10

(* reset() of one generator, which stops it only if it is running.         *)
LEMMA ResetStateRight ==
    ASSUME RInv, Calm(odd), NEW g \in Generator
    PROVE  LET q == ResetState(g)[1]
               f == ResetState(g)[2]
           IN  /\ q \in Objects /\ f \in Firmware /\ Right(q, f, odd)
               /\ q.pins[g] = {} /\ q.traced = py.traced /\ q.buffer = py.buffer
               /\ f.state[g] = "RESET" /\ f.room = fw.room /\ f.busy = fw.busy
               /\ \A h \in Generator : h # g => f.state[h] = fw.state[h]
<1> DEFINE E == EnginesOf(py, {g})
           running == py.status[g] = "RUNNING"
           s == [py EXCEPT !.steps = IF running THEN 0 ELSE @]
           q == FreePins(s, {g})
           a == FwStop(fw, E)
           b == Disconnect(a, py, {g})
           c == IF running THEN b ELSE fw
           f == FwReset(c, E)
<1>0. LInv BY DEF RInv
<1>1. /\ E \in SUBSET Engine /\ {g} \in SUBSET Generator /\ g \in E
      /\ \A e \in Generator : e \in E => e = g
      /\ py \in Objects /\ fw \in Firmware
  BY <1>0, Records
<1>2. s \in Objects /\ Alike(s, py)
  BY <1>0, Records, LogicAssumption DEF Objects, Alike
<1>3. ResetState(g)[1] = q /\ ResetState(g)[2] = f BY DEF ResetState
<1> HIDE DEF E, s
<1>4. /\ q \in Objects /\ q.traced = py.traced /\ q.buffer = py.buffer
      /\ \A e \in Generator : q.pins[e] = IF e = g THEN {} ELSE py.pins[e]
      /\ q.spec = IF g = "fsm" THEN {} ELSE py.spec
  <2>1. /\ q \in Objects /\ q.traced = s.traced /\ q.buffer = s.buffer
        /\ \A e \in Generator : q.pins[e] = IF e \in {g} THEN {} ELSE s.pins[e]
        /\ q.spec = IF "fsm" \in {g} THEN {} ELSE s.spec
    BY <1>1, <1>2, FreedPins, FreedFields
  <2> HIDE DEF q
  <2> QED BY <1>2, <2>1 DEF Alike
<1> HIDE DEF q
<1>5. a \in Firmware /\ a.state = Words(fw, E, "READY") BY <1>1, StopWords
<1>6. /\ a.select = fw.select /\ ("boolean" \notin E => a.output = fw.output)
      /\ a.count = (IF "trace" \in E /\ fw.first THEN fw.saved ELSE fw.count)
      /\ a.saved = fw.saved /\ a.first = (fw.first /\ "trace" \notin E)
      /\ a.room = fw.room /\ a.busy = fw.busy
  BY <1>1, StopFields
<1> HIDE DEF a
<1>7. /\ b \in Firmware /\ b.state = a.state /\ SameTrace(a, b) /\ b.output = a.output
      /\ \A p \in Pin :
            b.select[p] = IF p \in WiredBy(py, {g}) THEN Unconnected ELSE fw.select[p]
  BY <1>1, <1>5, <1>6, SwitchWords, SwitchFields
<1> HIDE DEF b
<1>8. /\ c \in Firmware /\ \A e \in Generator : e # g => c.state[e] = fw.state[e]
      /\ c.room = fw.room /\ c.busy = fw.busy /\ c.saved = fw.saved
      /\ c.count = fw.count \/ (fw.first /\ c.count = fw.saved)
      /\ c.first => fw.first
      /\ g # "boolean" => c.output = fw.output
  <2>1. CASE running
    <3>1. c = b BY <2>1
    <3>2. \A e \in Generator : e # g => b.state[e] = fw.state[e]
      BY <1>1, <1>5, <1>7 DEF Words, Engine
    <3>3. g # "boolean" => b.output = fw.output
      BY <1>1, <1>6, <1>7 DEF Generator
    <3> QED BY <1>6, <1>7, <3>1, <3>2, <3>3 DEF SameTrace
  <2>2. CASE ~running
    <3>1. c = fw BY <2>2
    <3> QED BY <1>1, <3>1
  <2> QED BY <2>1, <2>2
<1>9. /\ \A p \in Pin : p \notin WiredBy(py, {g}) => c.select[p] = fw.select[p]
      /\ Orderly(odd) => \A p \in Pin :
            p \in WiredBy(py, {g}) => c.select[p] = Unconnected
  <2>1. CASE running BY <1>7, <2>1
  <2>2. CASE ~running
    <3> SUFFICES ASSUME Orderly(odd), NEW p \in Pin, p \in WiredBy(py, {g}),
                        fw.select[p] # Unconnected
                 PROVE  FALSE
      BY <2>2
    <3>1. /\ Selected(py, fw) /\ Equipped(py, fw) /\ Exclusive(py)
          /\ py.status = fw.state
      BY CalmFacts
    <3>2. p \in Wired(py, g) BY DEF WiredBy
    <3>3. PICK h \in Generator : h = fw.select[p] BY <1>1 DEF Firmware
    <3>4. p \in py.pins[h] /\ fw.state[h] = "RUNNING" BY <3>1, <3>3 DEF Selected
    <3>5. p \in Wired(py, h) BY <1>1, <3>1, <3>4, WiredOnce DEF Equipped
    <3>6. g = h BY <1>1, <3>1, <3>2, <3>5, WiredOnce DEF Equipped
    <3> QED BY <2>2, <3>1, <3>4, <3>6
  <2> QED BY <2>1, <2>2
<1> HIDE DEF c, running
<1>10. f \in Firmware /\ f.state = Words(c, E, "RESET") BY <1>1, <1>8, ResetWords
<1>11. SameTrace(c, f) /\ f.select = c.select /\ f.output = c.output
  <2>1. "trace" \in Engine BY DEF Engine
  <2> QED BY <1>1, <1>8, <2>1, StateFields
<1> HIDE DEF f
<1>12. \A e \in Generator : f.state[e] = IF e = g THEN "RESET" ELSE fw.state[e]
  BY <1>1, <1>8, <1>10 DEF Words, Engine
<1>13. /\ Equipped(q, f)
       /\ Orderly(odd) => Selected(q, f)
       /\ "preset" \notin odd /\ "mixed" \notin odd => Wiring(q, f)
  <2> DEFINE G == {g}
  <2>1. /\ G \in SUBSET Generator
        /\ \A e \in Generator \ G : q.pins[e] = py.pins[e] /\ f.state[e] = fw.state[e]
        /\ q.spec = py.spec \/ ("fsm" \in G /\ f.state["fsm"] = "RESET")
        /\ \A e \in G : f.state[e] # "RUNNING" /\ f.state[e] = "RESET"
        /\ "boolean" \notin G => f.output = fw.output
    BY <1>4, <1>8, <1>11, <1>12
  <2>2. py.spec = py.pins["fsm"] => q.spec = q.pins["fsm"] BY <1>4 DEF Generator
  <2>3. /\ \A p \in Pin : p \notin WiredBy(py, G) => f.select[p] = fw.select[p]
        /\ Orderly(odd) => \A p \in Pin :
              p \in WiredBy(py, G) => f.select[p] = Unconnected
    BY <1>9, <1>11
  <2> HIDE DEF G
  <2> QED BY <1>4, <1>10, <2>1, <2>2, <2>3, Stopped
<1>14. /\ f.room = fw.room /\ f.busy = fw.busy /\ f.saved = fw.saved
       /\ f.count = fw.count \/ (fw.first /\ f.count = fw.saved)
       /\ f.first => fw.first
  BY <1>8, <1>11 DEF SameTrace
<1>15. "outgrown" \notin odd => Bounded(q, f)
  BY <1>4, <1>10, <1>12, <1>14, StillFits
<1>16. Right(q, f, odd) BY <1>13, <1>15 DEF Right
<1> QED BY <1>3, <1>4, <1>10, <1>12, <1>14, <1>16

LEMMA ResetOneRight ==
    ASSUME RInv, NEW g \in Generator, ResetOne(g)
    PROVE  RInv'
<1>0. LInv BY DEF RInv
<1>1. LInv' BY <1>0, ResetOneInv
<1>2. Checked(ResetState(g)[1], ResetState(g)[2]) /\ odd' = odd BY DEF ResetOne
<1>3. CASE ~Calm(odd') BY <1>1, <1>3 DEF RInv, Right, Calm
<1>4. CASE Calm(odd')
  <2> DEFINE q == ResetState(g)[1]
             f == ResetState(g)[2]
  <2>1. q \in Objects /\ f \in Firmware /\ Right(q, f, odd')
    BY <1>2, <1>4, ResetStateRight
  <2>2. Checked(q, f) BY <1>2
  <2> HIDE DEF q, f
  <2> QED BY <1>1, <2>1, <2>2, CheckedRight
<1> QED BY <1>3, <1>4

LEMMA ResetAllRight ==
    ASSUME RInv, NEW G \in SUBSET Generator, ResetAll(G)
    PROVE  RInv'
<1> DEFINE E == EnginesOf(py, G)
           s == [py EXCEPT !.steps = 0]
           q == FreePins(s, G)
           a == FwStop(fw, E)
           b == Disconnect(a, py, G)
           f == FwReset(b, E)
<1>0. LInv BY DEF RInv
<1>1. LInv' BY <1>0, ResetAllInv
<1>2. IF NoSpec(G) THEN Raised(py, a) ELSE Checked(q, f) BY DEF ResetAll
<1>3. /\ odd \subseteq odd' /\ If(NoSpec(G), "raised") \subseteq odd'
  <2>1. If(NoSpec(G), "raised") \in SUBSET Odd BY DEF If, Odd
  <2> QED BY <1>0, <2>1, UsesOdd DEF ResetAll
<1>4. /\ E \in SUBSET Engine /\ G \subseteq E /\ \A g \in Generator : g \in E => g \in G
      /\ py \in Objects /\ fw \in Firmware
  BY <1>0, Records
<1>5. s \in Objects /\ Alike(s, py)
  BY <1>0, Records, LogicAssumption DEF Objects, Alike
<1> HIDE DEF E, s
<1>6. /\ q \in Objects /\ q.traced = py.traced /\ q.buffer = py.buffer
      /\ \A g \in Generator : q.pins[g] = IF g \in G THEN {} ELSE py.pins[g]
      /\ q.spec = IF "fsm" \in G THEN {} ELSE py.spec
  <2>1. /\ q \in Objects /\ q.traced = s.traced /\ q.buffer = s.buffer
        /\ \A g \in Generator : q.pins[g] = IF g \in G THEN {} ELSE s.pins[g]
        /\ q.spec = IF "fsm" \in G THEN {} ELSE s.spec
    BY <1>5, FreedPins, FreedFields
  <2> HIDE DEF q
  <2> QED BY <1>5, <2>1 DEF Alike
<1> HIDE DEF q
<1>7. a \in Firmware /\ a.state = Words(fw, E, "READY") BY <1>4, StopWords
<1>8. /\ a.select = fw.select /\ ("boolean" \notin E => a.output = fw.output)
      /\ a.count = (IF "trace" \in E /\ fw.first THEN fw.saved ELSE fw.count)
      /\ a.saved = fw.saved /\ a.first = (fw.first /\ "trace" \notin E)
      /\ a.room = fw.room /\ a.busy = fw.busy
  BY <1>4, StopFields
<1> HIDE DEF a
<1>9. /\ b \in Firmware /\ b.state = a.state /\ SameTrace(a, b) /\ b.output = a.output
      /\ \A p \in Pin :
            b.select[p] = IF p \in WiredBy(py, G) THEN Unconnected ELSE fw.select[p]
  BY <1>4, <1>7, <1>8, SwitchWords, SwitchFields
<1> HIDE DEF b
<1>10. f \in Firmware /\ f.state = Words(b, E, "RESET") BY <1>4, <1>9, ResetWords
<1>11. SameTrace(b, f) /\ f.select = b.select /\ f.output = b.output
  <2>1. "trace" \in Engine BY DEF Engine
  <2> QED BY <1>4, <1>9, <2>1, StateFields
<1> HIDE DEF f
<1>12. \A g \in Generator : f.state[g] = IF g \in G THEN "RESET" ELSE fw.state[g]
  BY <1>4, <1>7, <1>9, <1>10 DEF Words, Engine
<1>13. CASE ~Calm(odd') BY <1>1, <1>13 DEF RInv, Right, Calm
<1>14. CASE Calm(odd')
  <2>1. Calm(odd) BY <1>3, <1>14, CalmBefore
  <2>2. Checked(q, f) BY <1>2, <1>3, <1>14 DEF If, Calm
  <2>3. /\ Equipped(q, f)
        /\ Orderly(odd) => Selected(q, f)
        /\ "preset" \notin odd /\ "mixed" \notin odd => Wiring(q, f)
    <3>1. /\ \A g \in Generator \ G : q.pins[g] = py.pins[g] /\ f.state[g] = fw.state[g]
          /\ q.spec = py.spec \/ ("fsm" \in G /\ f.state["fsm"] = "RESET")
          /\ \A g \in G : f.state[g] # "RUNNING" /\ f.state[g] = "RESET"
      BY <1>6, <1>12
    <3>2. py.spec = py.pins["fsm"] => q.spec = q.pins["fsm"] BY <1>6 DEF Generator
    <3>3. "boolean" \notin G => f.output = fw.output
      BY <1>4, <1>8, <1>9, <1>11 DEF Generator
    <3> QED BY <1>6, <1>9, <1>10, <1>11, <2>1, <3>1, <3>2, <3>3, Stopped
  <2>4. "outgrown" \notin odd => Bounded(q, f)
    <3>1. /\ f.room = fw.room /\ f.busy = fw.busy /\ f.saved = fw.saved
          /\ f.count = fw.count \/ (fw.first /\ f.count = fw.saved)
          /\ f.first => fw.first
      BY <1>8, <1>9, <1>11 DEF SameTrace
    <3> QED BY <1>6, <1>10, <1>12, <2>1, <3>1, StillFits
  <2>5. Right(q, f, odd') BY <1>3, <2>3, <2>4 DEF Right, Orderly
  <2> QED BY <1>1, <1>6, <1>10, <2>2, <2>5, CheckedRight
<1> QED BY <1>13, <1>14

-----------------------------------------------------------------------------
(* setup().                                                                *)
LEMMA PresetFields ==
    ASSUME NEW f \in Firmware, NEW q \in Objects
    PROVE  LET h == Preset(f, q)
           IN  /\ h \in Firmware /\ SameTrace(f, h)
               /\ \A e \in Generator : e # "pattern" => h.state[e] = f.state[e]
<1> DEFINE E == {"pattern"}
           a == FwConfig(f, "pattern")
           b == Connect(a, q, E)
           c == FwRun(b, E)
           d == FwStop(c, E)
<1>1. /\ E \in SUBSET Engine /\ E \in SUBSET Generator /\ "pattern" \in Engine
      /\ "trace" \notin E /\ Generator \subseteq Engine
  BY DEF Engine, Generator
<1>2. Preset(f, q) = d BY DEF Preset
<1> HIDE DEF E
<1>3. a \in Firmware /\ a.state = Words(f, {"pattern"}, "READY") /\ SameTrace(f, a)
  BY <1>1, ConfigWords, StateFields
<1> HIDE DEF a
<1>4. b \in Firmware /\ b.state = a.state /\ SameTrace(a, b)
  BY <1>1, <1>3, SwitchWords, SwitchFields
<1> HIDE DEF b
<1>5. c \in Firmware /\ c.state = Words(b, E, "RUNNING") /\ SameTrace(b, c)
  BY <1>1, <1>4, RunWords, RunFields DEF SameTrace
<1> HIDE DEF c
<1>6. d \in Firmware /\ d.state = Words(c, E, "READY") BY <1>1, <1>5, StopWords
<1>7. /\ d.count = c.count /\ d.saved = c.saved /\ d.first = c.first
      /\ d.room = c.room /\ d.busy = c.busy
  <2>1. /\ d.count = (IF "trace" \in E /\ c.first THEN c.saved ELSE c.count)
        /\ d.saved = c.saved /\ d.first = (c.first /\ "trace" \notin E)
        /\ d.room = c.room /\ d.busy = c.busy
    BY <1>1, <1>5, StopFields
  <2>2. c.first \in BOOLEAN BY <1>5 DEF Firmware
  <2>3. (c.first /\ "trace" \notin E) = c.first BY <1>1, <2>2
  <2> QED BY <1>1, <2>1, <2>3
<1> HIDE DEF d
<1>8. SameTrace(f, d) BY <1>3, <1>4, <1>5, <1>7 DEF SameTrace
<1>9. \A e \in Generator : e # "pattern" => d.state[e] = f.state[e]
  BY <1>1, <1>3, <1>4, <1>5, <1>6 DEF Words, E
<1> QED BY <1>2, <1>6, <1>8, <1>9

LEMMA SetupRight ==
    ASSUME RInv, NEW g \in Generator, NEW P \in SUBSET Pin, P # {}, NEW n \in Samples,
           NEW preset \in BOOLEAN, Setup(g, P, n, preset)
    PROVE  RInv'
<1> DEFINE L == Listed(g, P)
           spec == IF g = "fsm" THEN P ELSE py.spec
           buffer == IF py.traced[g] THEN Room(n) ELSE py.buffer
           q == [py EXCEPT !.pins[g] = L, !.used = @ \cup L, !.spec = spec,
                           !.steps = 0, !.buffer = buffer]
           f0 == IF preset THEN Preset(fw, q) ELSE fw
           f == FwConfig(f0, g)
           h == IF py.traced[g] THEN FwConfigTrace(f, Room(n), n) ELSE f
           new == If(py.traced[g] /\ (Room(n) < n \/ fw.first), "outgrown")
                     \cup If(preset, "preset") \cup If(py.status[g] # "RESET", "again")
<1>0. LInv BY DEF RInv
<1>1. LInv' BY <1>0, SetupInv
<1>2. /\ preset => g = "pattern"
      /\ Checked(q, h) /\ Uses(new)
  BY DEF Setup
<1>3. odd \subseteq odd' /\ new \subseteq odd'
  <2>1. new \in SUBSET Odd BY DEF If, Odd
  <2> QED BY <1>0, <1>2, <2>1, UsesOdd
<1>4. /\ "preset" \notin odd' => ~preset
      /\ "outgrown" \notin odd' /\ py.traced[g] => ~(Room(n) < n) /\ ~fw.first
      /\ "again" \notin odd' => py.status[g] = "RESET"
  BY <1>3 DEF If
<1>5. /\ py \in Objects /\ fw \in Firmware /\ n \in Nat /\ n >= 1
      /\ Room(n) \in Samples /\ Room(n) \in Nat /\ Room(n) >= 1
      /\ py.buffer \in Nat /\ fw.busy \in Nat
  <2>1. py \in Objects /\ fw \in Firmware BY <1>0, Records
  <2>2. py.buffer \in Samples \cup {0} /\ fw.busy \in Samples \cup {0, 1}
    BY <2>1 DEF Objects, Firmware
  <2>3. Room(n) \in Samples BY <2>2 DEF Room
  <2> QED BY <2>1, <2>2, <2>3, SamplesNat
<1>6. L \in SUBSET Pin /\ spec \in SUBSET Pin /\ buffer \in Samples \cup {0}
  BY <1>5 DEF Listed, Objects
<1>7. g = "fsm" => L = P /\ spec = P BY DEF Listed
<1>8. g # "fsm" => spec = py.spec OBVIOUS
<1> HIDE DEF L, spec, new
<1>9. /\ q \in Objects /\ q.pins = [py.pins EXCEPT ![g] = L] /\ q.spec = spec
      /\ q.traced = py.traced /\ q.buffer = buffer
  <2>1. 0 \in 0 .. MaxSteps BY LogicAssumption
  <2> HIDE DEF buffer
  <2> QED BY <1>5, <1>6, <2>1 DEF Objects
<1> HIDE DEF q
<1>10. \A e \in Generator : q.pins[e] = IF e = g THEN L ELSE py.pins[e]
  <2>1. py.pins \in [Generator -> SUBSET Pin] BY <1>5 DEF Objects
  <2> QED BY <1>9, <2>1
<1>11. /\ f0 \in Firmware /\ SameTrace(fw, f0)
       /\ \A e \in Generator : e # g => f0.state[e] = fw.state[e]
       /\ ~preset => f0.select = fw.select /\ f0.output = fw.output
  <2>1. CASE preset
    <3>1. f0 = Preset(fw, q) /\ g = "pattern" BY <1>2, <2>1
    <3> QED BY <1>5, <1>9, <2>1, <3>1, PresetFields
  <2>2. CASE ~preset
    <3>1. f0 = fw BY <2>2
    <3> QED BY <1>5, <3>1 DEF SameTrace
  <2> QED BY <2>1, <2>2
<1> HIDE DEF f0
<1>12. /\ f \in Firmware /\ f.state = Words(f0, {g}, "READY") /\ SameTrace(f0, f)
       /\ f.select = f0.select /\ f.output = f0.output
  BY <1>11, ConfigWords, StateFields DEF Engine
<1> HIDE DEF f
<1>13. /\ h \in Firmware /\ \A e \in Generator : h.state[e] = f.state[e]
       /\ h.select = f.select /\ h.output = f.output
       /\ h.saved = f.saved /\ h.first = f.first /\ h.busy = f.busy
       /\ IF py.traced[g] THEN h.room = Room(n) /\ h.count = n
                          ELSE h.room = f.room /\ h.count = f.count
  <2>1. CASE py.traced[g]
    <3>1. h = FwConfigTrace(f, Room(n), n) BY <2>1
    <3>2. h \in Firmware /\ h.state = Words(f, {"trace"}, "READY")
      BY <1>5, <1>12, <3>1, ConfigTraceWords
    <3>3. /\ h.select = f.select /\ h.output = f.output /\ h.count = n
          /\ h.saved = f.saved /\ h.first = f.first /\ h.room = Room(n) /\ h.busy = f.busy
      BY <1>5, <1>12, <3>1, ConfigTraceFields
    <3>4. \A e \in Generator : e \in Engine /\ e # "trace" BY DEF Engine, Generator
    <3> HIDE DEF h
    <3> QED BY <2>1, <3>2, <3>3, <3>4 DEF Words
  <2>2. CASE ~py.traced[g]
    <3>1. h = f BY <2>2
    <3> QED BY <1>12, <2>2, <3>1
  <2> QED BY <2>1, <2>2
<1> HIDE DEF h
<1>14. \A e \in Generator : h.state[e] = IF e = g THEN "READY" ELSE fw.state[e]
  <2>1. \A e \in Generator : e \in Engine BY DEF Engine
  <2> QED BY <1>11, <1>12, <1>13, <2>1 DEF Words
<1>15. CASE ~Calm(odd') BY <1>1, <1>15 DEF RInv, Right, Calm
<1>16. CASE Calm(odd')
  <2>1. Calm(odd) BY <1>3, <1>16, CalmBefore
  <2>2. py.status = fw.state /\ Equipped(py, fw) BY <2>1, CalmFacts
  <2>3. fw.state[g] = "RESET" BY <1>4, <1>16, <2>2 DEF Calm
  <2>4. Equipped(q, h)
    <3>1. py.buffer # 0 => buffer # 0 BY <1>5 DEF buffer, Room
    <3>2. py.traced[g] => buffer # 0 BY <1>5 DEF buffer
    <3>3. q.spec = q.pins["fsm"] BY <1>7, <1>8, <1>9, <1>10, <2>2 DEF Equipped, Generator
    <3> QED BY <1>7, <1>8, <1>9, <1>14, <2>2, <3>1, <3>2, <3>3 DEF Equipped
  <2>5. ASSUME Orderly(odd') PROVE Selected(q, h)
    <3>1. Selected(py, fw) BY <1>3, <2>1, <2>5, CalmFacts DEF Orderly
    <3>2. h.select = fw.select BY <1>4, <1>11, <1>12, <1>13, <2>5 DEF Orderly
    <3>4. ASSUME NEW p \in Pin, fw.select[p] # Unconnected
          PROVE  p \in q.pins[fw.select[p]] /\ h.state[fw.select[p]] = "RUNNING"
      <4>1. PICK e \in Generator : e = fw.select[p] BY <1>5, <3>4 DEF Firmware
      <4>2. p \in py.pins[e] /\ fw.state[e] = "RUNNING" BY <3>1, <3>4, <4>1 DEF Selected
      <4>3. e # g BY <2>3, <4>2
      <4> QED BY <1>10, <1>14, <4>1, <4>2, <4>3
    <3> QED BY <3>2, <3>4 DEF Selected
  <2>6. ASSUME "preset" \notin odd', "mixed" \notin odd' PROVE Wiring(q, h)
    <3>1. Wiring(py, fw) BY <1>3, <2>1, <2>6, CalmFacts
    <3>2. h.select = fw.select /\ h.output = fw.output
      BY <1>4, <1>11, <1>12, <1>13, <2>6
    <3>3. \A e \in Generator : e # g => Wired(q, e) = Wired(py, e)
      BY <1>8, <1>9, <1>10 DEF Wired
    <3>4. \A e \in Generator : h.state[e] = "RUNNING" => e # g /\ fw.state[e] = "RUNNING"
      BY <1>14
    <3>5. "boolean" \in Generator BY DEF Generator
    <3> QED BY <3>1, <3>2, <3>3, <3>4, <3>5 DEF Wiring
  <2>7. ASSUME "outgrown" \notin odd' PROVE Bounded(q, h)
    <3>1. Bounded(py, fw) BY <1>3, <2>1, <2>7, CalmFacts
    <3>2. \A e \in Generator : h.state[e] # "RESET" =>
             e = g \/ (e # g /\ fw.state[e] # "RESET")
      BY <1>14
    <3>3. CASE py.traced[g]
      <4>1. n <= Room(n) /\ ~fw.first BY <1>4, <1>5, <2>7, <3>3
      <4>2. /\ h.room = Room(n) /\ h.count = n /\ h.busy = fw.busy /\ h.first = fw.first
        BY <1>11, <1>12, <1>13, <3>3 DEF SameTrace
      <4>3. fw.busy <= Room(n)
        <5>1. fw.busy <= py.buffer BY <3>1 DEF Bounded
        <5>2. py.buffer <= Room(n) BY <1>5 DEF Room
        <5> QED BY <1>5, <5>1, <5>2
      <4>4. Fits(h) BY <1>5, <4>1, <4>2 DEF Fits
      <4>5. q.buffer = Room(n) BY <1>9, <3>3 DEF buffer
      <4> QED BY <4>2, <4>3, <4>4, <4>5 DEF Bounded
    <3>4. CASE ~py.traced[g]
      <4>1. SameTrace(fw, h) BY <1>11, <1>12, <1>13, <3>4 DEF SameTrace
      <4>2. q.buffer = py.buffer BY <1>9, <3>4 DEF buffer
      <4>3. Fits(fw) => Fits(h) BY <4>1 DEF Fits, SameTrace
      <4> QED BY <1>9, <3>1, <3>2, <3>4, <4>1, <4>2, <4>3 DEF Bounded, SameTrace
    <3> QED BY <3>3, <3>4
  <2>8. Right(q, h, odd') BY <2>4, <2>5, <2>6, <2>7 DEF Right
  <2> QED BY <1>1, <1>2, <1>9, <1>13, <2>8, CheckedRight
<1> QED BY <1>15, <1>16

LEMMA SetupConflictRight ==
    ASSUME RInv, NEW g \in Generator, NEW P \in SUBSET Pin, SetupConflict(g, P)
    PROVE  RInv'
<1>1. LInv' BY SetupConflictInv DEF RInv
<1>2. "raised" \in odd' BY UsesOdd DEF RInv, SetupConflict, Odd
<1> QED BY <1>1, <1>2 DEF RInv, Right, Calm

-----------------------------------------------------------------------------
(* trace() while nothing is in use, and the destructor.                    *)
LEMMA NotInUse ==
    ASSUME LInv, NEW E \in SUBSET Engine, ~InUse(E)
    PROVE  fw.busy = 0 /\ \A g \in Generator \ E : py.status[g] = "RESET"
<1>1. fw.busy \in Samples \cup {0, 1} BY Records DEF Firmware
<1>2. fw.busy \in Nat BY <1>1, SamplesNat
<1> QED BY <1>2 DEF InUse, Engine

LEMMA UpdateRight ==
    ASSUME RInv, UpdatePattern
    PROVE  RInv'
<1> DEFINE f == FwConfig(fw, "pattern")
           q == [py EXCEPT !.steps = 0]
           new == If(py.status["pattern"] = "RUNNING", "updated")
<1>0. LInv BY DEF RInv
<1>1. LInv' BY <1>0, UpdateInv
<1>2. /\ odd \subseteq odd'
      /\ "updated" \notin odd' => py.status["pattern"] # "RUNNING"
  <2>1. new \in SUBSET Odd BY DEF If, Odd
  <2>2. Uses(new) BY DEF UpdatePattern
  <2>3. odd \subseteq odd' /\ new \subseteq odd' BY <1>0, <2>1, <2>2, UsesOdd
  <2> QED BY <2>3 DEF If
<1>3. Checked(q, f) /\ py.status["pattern"] # "RESET" BY DEF UpdatePattern
<1>4. q \in Objects /\ Alike(q, py)
  BY <1>0, Records, LogicAssumption DEF Objects, Alike
<1> HIDE DEF q
<1>5. /\ f \in Firmware /\ f.state = Words(fw, {"pattern"}, "READY") /\ SameTrace(fw, f)
      /\ f.select = fw.select /\ f.output = fw.output
      /\ \A p \in Pin : fw.select[p] \in Generator \cup {Unconnected}
  BY <1>0, Records, ConfigWords, StateFields DEF Engine, Generator, Firmware
<1> HIDE DEF f
<1>6. \A g \in Generator : f.state[g] = IF g = "pattern" THEN "READY" ELSE fw.state[g]
  BY <1>5 DEF Words, Engine
<1>7. CASE ~Calm(odd') BY <1>1, <1>7 DEF RInv, Right, Calm
<1>8. CASE Calm(odd')
  <2>1. Calm(odd) BY <1>2, <1>8, CalmBefore
  <2>2. py.status = fw.state /\ Equipped(py, fw) BY <2>1, CalmFacts
  <2>3. \A g \in Generator : /\ f.state[g] # "RESET" => fw.state[g] # "RESET"
                             /\ f.state[g] = "RUNNING" => fw.state[g] = "RUNNING"
    BY <1>3, <1>6, <2>2
  <2>4. Equipped(q, f) BY <1>4, <2>2, <2>3 DEF Equipped, Alike
  <2>5. ASSUME Orderly(odd') PROVE Selected(q, f)
    <3>1. Selected(py, fw) BY <1>2, <2>1, <2>5, CalmFacts DEF Orderly
    <3>2. fw.state["pattern"] # "RUNNING" BY <1>2, <2>2, <2>5 DEF Orderly
    <3> QED BY <1>4, <1>5, <1>6, <3>1, <3>2 DEF Selected, Alike
  <2>6. ASSUME "preset" \notin odd', "mixed" \notin odd' PROVE Wiring(q, f)
    <3>1. Wiring(py, fw) BY <1>2, <2>1, <2>6, CalmFacts
    <3>2. \A g \in Generator : Wired(q, g) = Wired(py, g) BY <1>4 DEF Wired, Alike
    <3>3. "boolean" \in Generator BY DEF Generator
    <3> QED BY <1>5, <2>3, <3>1, <3>2, <3>3 DEF Wiring
  <2>7. ASSUME "outgrown" \notin odd' PROVE Bounded(q, f)
    <3>1. Bounded(py, fw) BY <1>2, <2>1, <2>7, CalmFacts
    <3>2. Fits(fw) => Fits(f) BY <1>5 DEF Fits, SameTrace
    <3> QED BY <1>4, <1>5, <2>3, <3>1, <3>2 DEF Bounded, Alike, SameTrace
  <2>8. Right(q, f, odd') BY <2>4, <2>5, <2>6, <2>7 DEF Right
  <2> QED BY <1>1, <1>3, <1>4, <1>5, <2>8, CheckedRight
<1> QED BY <1>7, <1>8

(* With everything RESET, nothing is asked of the trace buffer.            *)
LEMMA AllReset ==
    ASSUME NEW q \in Objects, NEW f \in Firmware, NEW o,
           \A g \in Generator : f.state[g] = "RESET", f.busy = 0, f.room = q.buffer,
           Calm(o) => q.spec = q.pins["fsm"],
           Calm(o) /\ Orderly(o) => Selected(q, f)
    PROVE  Right(q, f, o)
<1>1. Calm(o) => Equipped(q, f) BY DEF Equipped
<1>2. Wiring(q, f) BY DEF Wiring, Generator
<1>3. 0 <= f.room
  <2>1. f.room \in Samples \cup {0} BY DEF Firmware
  <2> QED BY <2>1, SamplesNat
<1>4. Bounded(q, f) BY <1>3 DEF Bounded
<1> QED BY <1>1, <1>2, <1>4 DEF Right

LEMMA TraceRight ==
    ASSUME RInv, NEW g \in Generator, TraceOn(g) \/ TraceOff(g)
    PROVE  RInv'
<1> DEFINE new == If(InUse({}), "retraced")
<1>0. LInv BY DEF RInv
<1>1. LInv' BY <1>0, TraceInv
<1>2. odd \subseteq odd' /\ new \subseteq odd'
  <2>1. new \in SUBSET Odd BY DEF If, Odd
  <2> QED BY <1>0, <2>1, UsesOdd DEF TraceOn, TraceOff
<1>3. CASE ~Calm(odd') BY <1>1, <1>3 DEF RInv, Right, Calm
<1>4. CASE Calm(odd')
  <2>1. Calm(odd) /\ ~InUse({}) BY <1>2, <1>4 DEF Calm, If
  <2>2. /\ py.status = fw.state /\ (Orderly(odd) => Selected(py, fw))
        /\ py.spec = py.pins["fsm"]
        /\ "outgrown" \notin odd => Bounded(py, fw)
    BY <2>1, CalmFacts DEF Equipped
  <2>3. fw.busy = 0 /\ \A h \in Generator : fw.state[h] = "RESET"
    BY <1>0, <2>1, <2>2, NotInUse
  <2>4. py \in Objects /\ fw \in Firmware BY <1>0, Records
  <2>5. CASE TraceOn(g)
    <3>1. /\ py'.pins = py.pins /\ py'.spec = py.spec /\ py'.buffer = py.buffer
          /\ py'.status = py.status /\ fw' = fw
      BY <2>4, <2>5 DEF TraceOn, Raised, Objects
    <3>2. Selected(py, fw) => Selected(py', fw') BY <3>1 DEF Selected
    <3>3. Equipped(py', fw') BY <2>2, <2>3, <3>1 DEF Equipped
    <3>4. Wiring(py', fw') BY <2>3, <3>1 DEF Wiring, Generator
    <3>5. Bounded(py, fw) => Bounded(py', fw') BY <2>3, <3>1 DEF Bounded
    <3>6. Right(py', fw', odd')
      BY <1>2, <2>2, <3>2, <3>3, <3>4, <3>5 DEF Right, Orderly
    <3> QED BY <1>1, <2>2, <3>1, <3>6
           DEF RInv, Right, Equipped, Selected, Wiring, Bounded, Calm
  <2>6. CASE TraceOff(g)
    <3> DEFINE q == [py EXCEPT !.traced[g] = FALSE, !.buffer = 0]
               f == [fw EXCEPT !.room = 0]
    <3>1. py' = q /\ fw' = f BY <2>6 DEF TraceOff, Raised
    <3>2. /\ q \in Objects /\ q.pins = py.pins /\ q.spec = py.spec /\ q.buffer = 0
          /\ q.status = py.status
      BY <2>4 DEF Objects
    <3>3. /\ f \in Firmware /\ f.state = fw.state /\ f.select = fw.select
          /\ f.room = 0 /\ f.busy = fw.busy
      BY <2>4 DEF Firmware
    <3> HIDE DEF q, f
    <3>4. Selected(py, fw) => Selected(q, f) BY <3>2, <3>3 DEF Selected
    <3>5. Right(q, f, odd')
      BY <1>2, <2>2, <2>3, <3>2, <3>3, <3>4, AllReset DEF Orderly
    <3> QED BY <1>1, <2>2, <3>1, <3>2, <3>3, <3>5
           DEF RInv, Right, Equipped, Selected, Wiring, Bounded, Calm
  <2> QED BY <2>5, <2>6
<1> QED BY <1>3, <1>4

LEMMA DeleteRight ==
    ASSUME RInv, NEW g \in Generator, Delete(g)
    PROVE  RInv'
<1> DEFINE E == EnginesOf(py, {g})
           reset == IF py.status[g] = "RESET" THEN <<py, fw>> ELSE ResetState(g)
           p == reset[1]
           f == reset[2]
           spec == IF g = "fsm" THEN {} ELSE p.spec
           q == [p EXCEPT !.pins[g] = {}, !.traced[g] = TRUE, !.spec = spec]
           q0 == [q EXCEPT !.buffer = 0]
           f0 == [f EXCEPT !.room = 0]
           new == If(py.traced[g] /\ InUse(E), "retraced")
<1>0. LInv BY DEF RInv
<1>1. LInv' BY <1>0, DeleteInv
<1>2. (IF py.traced[g] THEN Checked(q0, f0) ELSE Checked(q, f)) /\ Uses(new)
  BY DEF Delete
<1>3. odd \subseteq odd' /\ new \subseteq odd'
  <2>1. new \in SUBSET Odd BY DEF If, Odd
  <2> QED BY <1>0, <1>2, <2>1, UsesOdd
<1>4. CASE ~Calm(odd') BY <1>1, <1>4 DEF RInv, Right, Calm
<1>5. CASE Calm(odd')
  <2>1. Calm(odd) /\ (py.traced[g] => ~InUse(E)) BY <1>3, <1>5 DEF Calm, If
  <2>2. /\ py.status = fw.state /\ Exclusive(py)
        /\ py \in Objects /\ fw \in Firmware
    BY <1>0, <2>1, CalmFacts, Records
  <2>3. /\ E \in SUBSET Engine /\ \A e \in Generator : e \in E => e = g
    BY <1>0, Records
  <2> HIDE DEF E
  <2>4. /\ p \in Objects /\ f \in Firmware /\ Right(p, f, odd)
        /\ p.pins[g] = {} /\ p.traced = py.traced
        /\ f.state[g] = "RESET" /\ f.busy = fw.busy
        /\ \A h \in Generator : h # g => f.state[h] = fw.state[h]
    <3>1. CASE py.status[g] = "RESET"
      <4>1. p = py /\ f = fw BY <3>1
      <4>2. py.pins[g] = {} BY <1>0, <2>1, <3>1 DEF LInv, Kept, Bare, Calm
      <4> QED BY <2>2, <3>1, <4>1, <4>2 DEF RInv
    <3>2. CASE py.status[g] # "RESET"
      <4>1. p = ResetState(g)[1] /\ f = ResetState(g)[2] BY <3>2
      <4> HIDE DEF p, f
      <4> QED BY <2>1, <4>1, ResetStateRight
    <3> QED BY <3>1, <3>2
  <2> HIDE DEF reset, p, f
  <2>5. /\ p.pins \in [Generator -> SUBSET Pin] /\ p.traced \in [Generator -> BOOLEAN]
        /\ spec \in SUBSET Pin
    BY <2>4 DEF Objects
  <2>6. (g = "fsm" => spec = {}) /\ (g # "fsm" => spec = p.spec) OBVIOUS
  <2> HIDE DEF spec
  <2>7. /\ q \in Objects /\ q.pins = [p.pins EXCEPT ![g] = {}] /\ q.spec = spec
        /\ q.traced = [p.traced EXCEPT ![g] = TRUE] /\ q.buffer = p.buffer
    BY <2>4, <2>5 DEF Objects
  <2> HIDE DEF q
  <2>8. /\ q.pins = p.pins
        /\ \A h \in Generator : h # g => q.traced[h] = p.traced[h]
    BY <2>4, <2>5, <2>7
  <2>9. \A h \in Generator : f.state[h] # "RESET" => h # g BY <2>4
  <2>10. Selected(p, f) => Selected(q, f)
    BY <2>4, <2>6, <2>7, <2>8 DEF Selected
  <2>11. CASE ~py.traced[g]
    <3>1. Checked(q, f) BY <1>2, <2>11
    <3>2. Equipped(p, f) => Equipped(q, f)
      <4>1. p.pins[g] = {} BY <2>4
      <4> QED BY <2>6, <2>7, <2>8, <2>9, <4>1 DEF Equipped
    <3>3. Wiring(p, f) => Wiring(q, f)
      <4>1. \A h \in Generator : h # g => Wired(q, h) = Wired(p, h)
        BY <2>6, <2>7, <2>8 DEF Wired
      <4>2. \A h \in Generator : f.state[h] = "RUNNING" => h # g BY <2>4
      <4> QED BY <4>1, <4>2 DEF Wiring
    <3>4. Bounded(p, f) => Bounded(q, f) BY <2>7, <2>8, <2>9 DEF Bounded
    <3>5. Right(q, f, odd')
      BY <1>3, <2>1, <2>4, <2>10, <3>2, <3>3, <3>4 DEF Right, Orderly
    <3> QED BY <1>1, <2>4, <2>7, <3>1, <3>5, CheckedRight
  <2>12. CASE py.traced[g]
    <3>1. Checked(q0, f0) BY <1>2, <2>12
    <3>2. fw.busy = 0 /\ \A h \in Generator \ E : py.status[h] = "RESET"
      BY <1>0, <2>1, <2>3, <2>12, NotInUse
    <3>3. \A h \in Generator : f.state[h] = "RESET" BY <2>2, <2>3, <2>4, <3>2
    <3>4. /\ q0 \in Objects /\ q0.pins = q.pins /\ q0.spec = q.spec /\ q0.buffer = 0
      BY <2>7 DEF Objects
    <3>5. /\ f0 \in Firmware /\ f0.state = f.state /\ f0.select = f.select
          /\ f0.room = 0 /\ f0.busy = f.busy
      BY <2>4 DEF Firmware
    <3> HIDE DEF q0, f0
    <3>6. Selected(q, f) => Selected(q0, f0) BY <3>4, <3>5 DEF Selected
    <3>7. /\ Orderly(odd) => Selected(q0, f0)
          /\ q0.spec = q0.pins["fsm"]
      BY <2>1, <2>4, <2>6, <2>7, <2>8, <2>10, <3>4, <3>6 DEF Right, Equipped
    <3>8. Right(q0, f0, odd')
      BY <1>3, <2>4, <3>2, <3>3, <3>4, <3>5, <3>7, AllReset DEF Orderly
    <3> QED BY <1>1, <3>1, <3>4, <3>5, <3>8, CheckedRight
  <2> QED BY <2>11, <2>12
<1> QED BY <1>4, <1>5

-----------------------------------------------------------------------------
LEMMA InitRight == LogicInit => RInv
<1> SUFFICES ASSUME LogicInit PROVE RInv
  OBVIOUS
<1>1. LInv BY InitLogic
<1>2. \A g \in Generator : fw.state[g] = "RESET"
  BY DEF LogicInit, Reset, Engine
<1>3. /\ py.status = fw.state /\ fw.busy = 0 /\ fw.room = py.buffer
      /\ py.spec = {} /\ py.pins["fsm"] = {}
      /\ \A p \in Pin : fw.select[p] = Unconnected
  BY DEF LogicInit, Generator
<1>4. Selected(py, fw) BY <1>3 DEF Selected
<1>5. Right(py, fw, odd) BY <1>1, <1>2, <1>3, <1>4, Records, AllReset
<1> QED BY <1>1, <1>3, <1>5 DEF RInv

LEMMA NextRight == RInv /\ [LogicNext]_logicVars => RInv'
<1> SUFFICES ASSUME RInv, [LogicNext]_logicVars PROVE RInv'
  OBVIOUS
<1>1. LInv /\ LInv' BY NextLogic DEF RInv
<1>2. CASE UNCHANGED logicVars
  BY <1>1, <1>2 DEF logicVars, RInv, Right, Equipped, Selected, Wiring, Wired, Bounded,
                    Fits, Calm
<1>3. CASE TraceDone
  <2>1. /\ fw \in Firmware /\ fw' = [fw EXCEPT !.busy = 0] /\ py' = py /\ odd' = odd
    BY <1>1, <1>3, Records DEF TraceDone
  <2>2. /\ fw'.state = fw.state /\ fw'.select = fw.select /\ fw'.output = fw.output
        /\ fw'.count = fw.count /\ fw'.saved = fw.saved /\ fw'.first = fw.first
        /\ fw'.room = fw.room /\ fw'.busy = 0
    BY <2>1 DEF Firmware
  <2>3. 0 <= fw.room
    <3>1. fw.room \in Samples \cup {0} BY <2>1 DEF Firmware
    <3> QED BY <3>1, SamplesNat
  <2>4. Bounded(py, fw) => Bounded(py', fw')
    BY <2>1, <2>2, <2>3 DEF Bounded, Fits
  <2>5. Right(py', fw', odd')
    BY <2>1, <2>2, <2>4 DEF RInv, Right, Equipped, Selected, Wiring, Wired
  <2> QED BY <1>1, <2>1, <2>2, <2>5
         DEF RInv, Right, Equipped, Selected, Wiring, Bounded, Calm
<1>4. \A P \in PinSet : P \in SUBSET Pin /\ P # {} BY DEF PinSet
<1> QED BY <1>2, <1>3, <1>4, SetupConflictRight, SetupRight, TraceRight, RunRight,
           StepRight, StopRight, ResetOneRight, ResetAllRight, DeleteRight,
           UpdateRight
        DEF LogicNext

LEMMA AlwaysRight == LogicSpec => []RInv
BY InitRight, NextRight, PTL DEF LogicSpec

(* What the exceptions of the properties leave out.                        *)
LEMMA FewOdd ==
    /\ odd \cap Misused = {} => Calm(odd)
    /\ odd \cap (Misused \cup {"mixed", "preset"}) = {} =>
          Calm(odd) /\ "preset" \notin odd /\ "mixed" \notin odd
    /\ odd \cap (Misused \cup {"preset", "updated"}) = {} => Calm(odd) /\ Orderly(odd)
    /\ odd \cap (Misused \cup {"outgrown"}) = {} => Calm(odd) /\ "outgrown" \notin odd
BY DEF Misused, Calm, Orderly
-----------------------------------------------------------------------------
(* The status that run() and reset() of the objects go by is the firmware's*)
(* while no generator has been misused: the status is read after the last  *)
(* command of every method.                                                *)
THEOREM StatusCorrect == LogicSpec => []StatusRight
<1>1. RInv => StatusRight BY FewOdd DEF RInv, StatusRight
<1> QED BY <1>1, AlwaysRight, PTL

(* A running generator's pins are connected to it, and the outputs of the  *)
(* Boolean generator are on, after every sequence of the methods, of       *)
(* update_pattern() too, in which the running generators were started and  *)
(* stepped together and no pattern had an initial value.                   *)
THEOREM ConnectedCorrect == LogicSpec => []ConnectedWhileRunning
<1>1. RInv => ConnectedWhileRunning
  BY FewOdd, CalmFacts DEF ConnectedWhileRunning, Connected, Wiring
<1> QED BY <1>1, AlwaysRight, PTL

(* No pin stays connected to a generator that does not list it any more,   *)
(* whatever is done with generators that are set up and reset as they      *)
(* should be, unless a running pattern was updated or had an initial value.*)
THEOREM SwitchCorrect == LogicSpec => []SwitchRight
<1>1. RInv => SwitchRight BY FewOdd, CalmFacts DEF SwitchRight, Selected
<1> QED BY <1>1, AlwaysRight, PTL

(* The firmware's transfer of a trace is no longer than the buffer, for    *)
(* any numbers of samples, whatever single steps and stops do to them and  *)
(* whichever generator set the buffer up, but for a setup that asks for    *)
(* more than the kept buffer has or comes between a STEP and its STOP, and *)
(* for a buffer freed in use.                                              *)
THEOREM TraceCorrect == LogicSpec => []TraceInBounds
<1>1. RInv => TraceInBounds BY FewOdd, CalmFacts DEF TraceInBounds, Bounded
<1> QED BY <1>1, AlwaysRight, PTL
==============================================================================
