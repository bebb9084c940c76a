---------------------------- MODULE AxiDMA_proofs ----------------------------
(***************************************************************************)
(* AxiDMA, for every maximal block size, stream width and set of arrays.   *)
(***************************************************************************)
EXTENDS AxiDMA, TLAPS

(* Arithmetic: quotients, and multiples of a multiple.                     *)
LEMMA Quotient ==
    ASSUME NEW n \in Nat, NEW d \in Nat \ {0}
    PROVE  /\ n \div d \in Nat /\ n % d \in Nat /\ n % d < d
           /\ (n \div d) * d \in Nat
           /\ (n \div d) * d <= n /\ n < (n \div d) * d + d
<1>1. n \div d \in Nat /\ n % d \in Nat /\ n % d < d BY SMT
<1>2. (n \div d) * d <= n BY SMTT(30)
<1>3. n < (n \div d) * d + d BY SMTT(30)
<1>4. (n \div d) * d \in Nat BY <1>1, SMT
<1> QED BY <1>1, <1>2, <1>3, <1>4

LEMMA Rest ==
    ASSUME NEW n \in Nat, NEW d \in Nat \ {0}, NEW q \in Nat, NEW r \in Nat,
           n = d * q + r, r < d
    PROVE  n % d = r
BY SMTT(30)

LEMMA RoundedDown ==
    ASSUME NEW n \in Nat, NEW d \in Nat \ {0}
    PROVE  (n - (n % d)) % d = 0
<1> DEFINE q == n \div d
           y == d * q
<1>1. q \in Nat /\ q * d <= n /\ n < q * d + d BY Quotient
<1> HIDE DEF q
<1>2. y = q * d /\ y \in Nat BY <1>1, SMT
<1>3. n - y \in Nat /\ n = d * q + (n - y) /\ n - y < d BY <1>1, <1>2
<1>4. n % d = n - y BY <1>1, <1>3, Rest
<1>5. y % d = 0
  <2>1. y = d * q + 0 /\ 0 \in Nat /\ 0 < d BY <1>2
  <2> QED BY <1>1, <1>2, <2>1, Rest
<1> HIDE DEF y
<1>6. n - (n - y) = y BY <1>2
<1> QED BY <1>4, <1>5, <1>6

LEMMA AlignedMultiple ==
    ASSUME NEW x \in Nat, NEW d \in Nat \ {0}, x % d = 0, NEW k \in Nat
    PROVE  (k * x) % d = 0
<1> DEFINE q == x \div d
<1>1. q \in Nat /\ q * d <= x /\ x < q * d + d BY Quotient
<1>2. x - q * d \in Nat /\ x = d * q + (x - q * d) /\ x - q * d < d BY <1>1, SMT
<1>3. x - q * d = 0 BY <1>1, <1>2, Rest
<1>4. x = d * q BY <1>1, <1>2, <1>3
<1> HIDE DEF q
<1> DEFINE y == k * x
           p == k * q
<1>5. y = d * p /\ p \in Nat /\ y \in Nat BY <1>1, <1>4, SMT
<1> HIDE DEF y, p
<1>6. y = d * p + 0 /\ 0 \in Nat /\ 0 < d BY <1>5, SMT
<1>7. y % d = 0 BY <1>5, <1>6, Rest
<1> QED BY <1>7 DEF y

LEMMA Steps ==
    ASSUME NEW i \in Nat, NEW j \in Nat, NEW b \in Nat
    PROVE  /\ i * b \in Nat
           /\ i <= j => i * b <= j * b
           /\ (i + 1) * b = i * b + b
BY SMT
-----------------------------------------------------------------------------
(* The blocks of an array: of whole words, not too large, and as many as   *)
(* it takes.                                                               *)
LEMMA BlockFits ==
    ASSUME NEW n \in Nat \ {0}, BlockSize(n) > 0
    PROVE  /\ BlockSize(n) \in Nat \ {0} /\ BlockSize(n) <= MaxSize
           /\ BlockSize(n) % Align = 0
<1> DEFINE half == n \div 2
           largest == MaxSize - (MaxSize % Align)
<1>1. /\ largest \in Nat /\ largest <= MaxSize /\ largest % Align = 0
  BY DmaAssumption, Quotient, RoundedDown
<1>2. half \in Nat /\ half <= n BY SMT
<1>3. /\ half - (half % Align) \in Nat /\ half - (half % Align) <= half
      /\ (half - (half % Align)) % Align = 0
  BY <1>2, DmaAssumption, Quotient, RoundedDown
<1>4. BlockSize(n) = IF largest > n THEN half - (half % Align) ELSE largest
  BY DEF BlockSize
<1> HIDE DEF half, largest
<1> QED BY <1>1, <1>2, <1>3, <1>4, DmaAssumption

LEMMA EnoughBlocks ==
    ASSUME NEW n \in Nat \ {0}, NEW b \in Nat \ {0}
    PROVE  /\ NumDescr(n, b) \in Nat \ {0}
           /\ (NumDescr(n, b) - 1) * b < n /\ n <= NumDescr(n, b) * b
<1> DEFINE k == NumDescr(n, b)
<1>1. n + (b - 1) \in Nat OBVIOUS
<1>2. k \in Nat /\ k * b \in Nat /\ k * b <= n + (b - 1) /\ n + (b - 1) < k * b + b
  BY <1>1, Quotient DEF NumDescr
<1> HIDE DEF k
<1>3. n <= k * b BY <1>2
<1>4. k # 0 BY <1>2, <1>3, SMT
<1>5. k - 1 \in Nat /\ k = (k - 1) + 1 BY <1>2, <1>4
<1>6. k * b = (k - 1) * b + b /\ (k - 1) * b \in Nat BY <1>5, Steps
<1>7. (k - 1) * b < n BY <1>2, <1>6
<1> QED BY <1>2, <1>3, <1>4, <1>7 DEF k

(* The descriptors that transfer() makes tile the array.                   *)
LEMMA DescriptorsTile ==
    ASSUME NEW n \in Nat \ {0}, BlockSize(n) > 0
    PROVE  Tiles(Descriptors(n), n)
<1> DEFINE b == BlockSize(n)
           k == NumDescr(n, b)
           list == Descriptors(n)
<1>1. b \in Nat \ {0} /\ b <= MaxSize /\ b % Align = 0 BY BlockFits
<1>2. k \in Nat \ {0} /\ (k - 1) * b < n /\ n <= k * b BY <1>1, EnoughBlocks
<1>3. DOMAIN list = 1 .. k BY DEF Descriptors
<1>4. ASSUME NEW i \in 1 .. k
      PROVE  /\ list[i].at = (i - 1) * b
             /\ list[i].len = IF n - (i - 1) * b > b THEN b ELSE n - (i - 1) * b
  BY DEF Descriptors, BlockLen
<1> HIDE DEF b, k, list
<1>5. ASSUME NEW i \in 1 .. k
      PROVE  /\ list[i].at \in Nat /\ list[i].at < n
             /\ list[i].len \in 1 .. b
             /\ list[i].at + list[i].len <= n
             /\ list[i].at + list[i].len <= i * b
             /\ list[i].at + list[i].len = n \/ list[i].at + list[i].len = i * b
  <2>1. i - 1 \in Nat /\ k - 1 \in Nat /\ i - 1 <= k - 1 /\ i \in Nat BY <1>2
  <2>2. (i - 1) * b \in Nat /\ (i - 1) * b <= (k - 1) * b BY <1>1, <2>1, Steps
  <2>3. i * b = (i - 1) * b + b
    <3>1. i = (i - 1) + 1 BY <2>1
    <3> QED BY <1>1, <2>1, <3>1, Steps
  <2>4. (k - 1) * b \in Nat BY <1>1, <2>1, Steps
  <2> DEFINE at == (i - 1) * b
  <2>5. at \in Nat /\ at < n BY <1>2, <2>2, <2>4
  <2> HIDE DEF at
  <2>6. list[i].at = at /\ list[i].len = IF n - at > b THEN b ELSE n - at
    BY <1>4 DEF at
  <2>7. i * b = at + b BY <2>3 DEF at
  <2> QED BY <1>1, <2>5, <2>6, <2>7
<1>6. ASSUME NEW i \in 1 .. k
      PROVE  /\ list[i].len \in 1 .. MaxSize /\ list[i].at % Align = 0
             /\ list[i].at + list[i].len <= n
  <2>1. list[i].at % Align = 0
    <3>1. i - 1 \in Nat BY <1>2
    <3>2. ((i - 1) * b) % Align = 0 BY <1>1, <3>1, AlignedMultiple, DmaAssumption
    <3> QED BY <1>4, <3>2
  <2> QED BY <1>1, <1>5, <2>1, DmaAssumption
<1>7. ASSUME NEW x \in 0 .. n - 1
      PROVE  \E i \in 1 .. k :
                /\ list[i].at <= x /\ x < list[i].at + list[i].len
                /\ \A j \in (1 .. k) \ {i} :
                      x \notin list[j].at .. list[j].at + list[j].len - 1
  <2> DEFINE q == x \div b
  <2>1. q \in Nat /\ q * b \in Nat /\ q * b <= x /\ x < q * b + b
    BY <1>1, Quotient
  <2> HIDE DEF q
  <2>2. q < k
    <3>1. CASE k <= q
      <4>1. k * b <= q * b /\ k * b \in Nat BY <1>1, <1>2, <2>1, <3>1, Steps
      <4> QED BY <1>2, <2>1, <4>1
    <3> QED BY <1>2, <2>1, <3>1
  <2>3. q + 1 \in 1 .. k /\ (q + 1) - 1 = q BY <1>2, <2>1, <2>2
  <2>4. (q + 1) * b = q * b + b BY <1>1, <2>1, Steps
  <2>5. list[q + 1].at = q * b BY <1>4, <2>3
  <2>6. x < list[q + 1].at + list[q + 1].len
    BY <1>5, <2>1, <2>3, <2>4
  <2>7. ASSUME NEW j \in (1 .. k) \ {q + 1}
        PROVE  x \notin list[j].at .. list[j].at + list[j].len - 1
    <3>0. j \in Nat /\ j - 1 \in Nat /\ j \in 1 .. k BY <1>2
    <3>1. CASE j <= q
      <4>1. j * b <= q * b /\ j * b \in Nat BY <1>1, <2>1, <3>0, <3>1, Steps
      <4>2. list[j].at + list[j].len <= j * b /\ list[j].at \in Nat /\ list[j].len \in Nat
        BY <1>1, <1>5, <3>0
      <4> QED BY <2>1, <4>1, <4>2
    <3>2. CASE q + 1 <= j - 1
      <4>1. (q + 1) * b <= (j - 1) * b /\ (q + 1) * b \in Nat /\ (j - 1) * b \in Nat
        BY <1>1, <2>1, <3>0, <3>2, Steps
      <4>2. list[j].at = (j - 1) * b BY <1>4, <3>0
      <4> QED BY <2>1, <2>4, <4>1, <4>2
    <3> QED BY <2>1, <3>0, <3>1, <3>2
  <2> QED BY <2>1, <2>3, <2>5, <2>6, <2>7
<1> QED BY <1>3, <1>6, <1>7 DEF Tiles, list
-----------------------------------------------------------------------------
(* What holds of one channel between any two steps, by its object p, its   *)
(* registers h, what its task does, what its last wait said, whether its   *)
(* last transfer is complete, and what befell it.                          *)
(* The list is that of the buffer; a simple channel has none.              *)
Listed(p) ==
    /\ p.descr # None => /\ p.buffer \in Sizes /\ BlockSize(p.buffer) > 0
                         /\ p.descr = Descriptors(p.buffer)
    /\ ~sg => p.descr = None /\ ~p.cyclic

(* A channel that is idle or halted moves nothing; one that moves keeps    *)
(* what it moves, but for an overlap.                                      *)
Held(p, h, t) ==
    /\ h.halted \/ h.idle => h.buffer = None
    /\ sg /\ ~h.halted => p.descr = h.descr
    /\ h.buffer # None => p.buffer = h.buffer \/ "overlap" \in t

(* A channel that was given a transfer and moves nothing any more has done *)
(* it, or it was cut short, or it overlapped another.                      *)
Waiting == {"poll error", "poll idle", "check", "await", "stop await"}
Hit(t) == IF sg THEN t \cap CutShort # {} ELSE "overlap" \in t
Accounted(p, h, w, r, m, t) ==
    /\ sg => "overlap" \notin t
    /\ sg /\ (~p.fresh \/ w \in Waiting) /\ h.buffer = None => m \/ Hit(t)
    /\ ~sg /\ (~p.fresh \/ w \in Waiting) /\ h.idle => m \/ Hit(t)
    /\ r = "done" => m \/ Hit(t)

Fits(p, h, w, r, m, t) == Listed(p) /\ Held(p, h, t) /\ Accounted(p, h, w, r, m, t)
Fit(c) == Fits(py[c], hw[c], doing[c], result[c], moved[c], hit[c])

DmaInv == DmaTypeOK /\ \A c \in Channel : Fit(c)

Results == {"none", "done", "raised"}
Befallen == SUBSET Hits

LEMMA InitDma == DmaInit => DmaInv
<1> SUFFICES ASSUME DmaInit PROVE DmaInv
  OBVIOUS
<1>1. NewChannel \in Objects /\ NewRegisters \in Registers
  BY DEF DmaInit, NewChannel, NewRegisters, Objects, Registers
<1>2. DmaTypeOK BY <1>1 DEF DmaInit, DmaTypeOK, Doing, Irq!ServiceInit
<1>3. Fits(NewChannel, NewRegisters, "nothing", "none", FALSE, {})
  BY DEF NewChannel, NewRegisters, Fits, Listed, Held, Accounted, Waiting
<1>4. \A c \in Channel : Fit(c) BY <1>3 DEF DmaInit, Fit
<1> QED BY <1>2, <1>4 DEF DmaInv

(* One channel's part of the state, and the steps that change no other's.  *)
Typed(c) ==
    /\ py[c] \in Objects /\ hw[c] \in Registers /\ doing[c] \in Doing
    /\ result[c] \in Results /\ moved[c] \in BOOLEAN /\ hit[c] \in Befallen
Shared == active \subseteq Channel /\ awaiting \in [Channel -> Channel \cup {None}]
Only(c) ==
    /\ sg' = sg
    /\ py' = [py EXCEPT ![c] = py'[c]] /\ hw' = [hw EXCEPT ![c] = hw'[c]]
    /\ doing' = [doing EXCEPT ![c] = doing'[c]]
    /\ result' = [result EXCEPT ![c] = result'[c]]
    /\ moved' = [moved EXCEPT ![c] = moved'[c]]
    /\ hit' = [hit EXCEPT ![c] = hit'[c]]

LEMMA Pieces ==
    ASSUME DmaInv, NEW c \in Channel
    PROVE  /\ Typed(c) /\ Fit(c) /\ Shared
           /\ py = [py EXCEPT ![c] = py[c]] /\ hw = [hw EXCEPT ![c] = hw[c]]
           /\ doing = [doing EXCEPT ![c] = doing[c]]
           /\ result = [result EXCEPT ![c] = result[c]]
           /\ moved = [moved EXCEPT ![c] = moved[c]]
           /\ hit = [hit EXCEPT ![c] = hit[c]]
BY DEF DmaInv, DmaTypeOK, Typed, Shared, Results, Befallen, Hits

LEMMA OneChannel ==
    ASSUME DmaInv, NEW c \in Channel, Only(c), Typed(c)', Shared', Fit(c)'
    PROVE  DmaInv'
<1>1. DmaTypeOK' BY DEF DmaInv, DmaTypeOK, Only, Typed, Shared, Results, Befallen, Hits
<1>2. ASSUME NEW d \in Channel, d # c PROVE Fit(d)'
  <2>1. /\ py'[d] = py[d] /\ hw'[d] = hw[d] /\ doing'[d] = doing[d]
        /\ result'[d] = result[d] /\ moved'[d] = moved[d] /\ hit'[d] = hit[d]
    BY <1>2 DEF DmaInv, DmaTypeOK, Only
  <2>2. sg' = sg BY DEF Only
  <2> QED BY <2>1, <2>2 DEF DmaInv, Fit, Fits, Listed, Held, Accounted, Hit
<1> QED BY <1>1, <1>2 DEF DmaInv

LEMMA TransferRefusedDma ==
    ASSUME DmaInv, NEW c \in Channel, NEW n \in Sizes, NEW cyclic \in BOOLEAN,
           TransferRefused(c, n, cyclic)
    PROVE  DmaInv'
<1>1. /\ sg /\ py'[c] = [py[c] EXCEPT !.cyclic = cyclic]
      /\ UNCHANGED <<sg, hw, active, awaiting, doing, result, moved, hit>>
  BY DEF TransferRefused, Goto, ghosts, DmaInv, DmaTypeOK
<1>2. Only(c) /\ Shared' BY <1>1, Pieces DEF TransferRefused, Goto, ghosts, Only, Shared, Latched, Line
<1>p. py'[c] \in Objects BY <1>1, Pieces DEF Typed, Objects
<1>3. Typed(c)' BY <1>1, <1>p, Pieces DEF Typed
<1>4. /\ py'[c].buffer = py[c].buffer
      /\ py'[c].fresh = py[c].fresh
      /\ py'[c].cyclic = cyclic
      /\ py'[c].descr = py[c].descr
  BY <1>1, Pieces DEF Typed, Objects
<1>5. Fit(c)' BY <1>1, <1>4, Pieces DEF Fit, Fits, Listed, Held, Accounted, Waiting, Hit, CutShort
<1> QED BY <1>2, <1>3, <1>5, OneChannel

LEMMA StartDma ==
    ASSUME DmaInv, NEW c \in Channel, Start(c)
    PROVE  DmaInv'
<1>1. /\ ~sg
      /\ hw'[c] = [hw[c] EXCEPT !.halted = FALSE, !.run = TRUE]
      /\ py'[c] = [py[c] EXCEPT !.fresh = TRUE]
      /\ UNCHANGED <<sg, awaiting, doing, result, moved, hit>>
  BY DEF Start, Goto, ghosts, DmaInv, DmaTypeOK
<1>2. Only(c) /\ Shared' BY <1>1, Pieces DEF Start, Goto, ghosts, Only, Shared, Latched, Line
<1>p. py'[c] \in Objects BY <1>1, Pieces DEF Typed, Objects
<1>h. hw'[c] \in Registers BY <1>1, Pieces DEF Typed, Registers
<1>3. Typed(c)' BY <1>1, <1>p, <1>h, Pieces DEF Typed
<1>4. /\ py'[c].buffer = py[c].buffer
      /\ py'[c].fresh = TRUE
      /\ py'[c].cyclic = py[c].cyclic
      /\ py'[c].descr = py[c].descr
  BY <1>1, Pieces DEF Typed, Objects
<1>5. /\ hw'[c].halted = FALSE
      /\ hw'[c].idle = hw[c].idle
      /\ hw'[c].buffer = hw[c].buffer
      /\ hw'[c].descr = hw[c].descr
  BY <1>1, Pieces DEF Typed, Registers
<1>6. Fit(c)' BY <1>1, <1>4, <1>5, Pieces DEF Fit, Fits, Listed, Held, Accounted, Waiting, Hit, CutShort
<1> QED BY <1>2, <1>3, <1>6, OneChannel

LEMMA StopDoneDma ==
    ASSUME DmaInv, NEW c \in Channel, StopDone(c)
    PROVE  DmaInv'
<1>1. /\ py'[c] = [py[c] EXCEPT !.fresh = @ \/ sg]
      /\ doing[c] \in {"stop", "stop await"}
      /\ doing'[c] = IF doing[c] = "stop" THEN "nothing" ELSE "await"
      /\ UNCHANGED <<sg, hw, active, awaiting, result, moved, hit>>
  BY DEF StopDone, Goto, ghosts, DmaInv, DmaTypeOK
<1>2. Only(c) /\ Shared' BY <1>1, Pieces DEF StopDone, Goto, ghosts, Only, Shared, Latched, Line
<1>p. py'[c] \in Objects BY <1>1, Pieces DEF Typed, Objects
<1>3. Typed(c)' BY <1>1, <1>p, Pieces DEF Typed, Doing
<1>4. /\ py'[c].buffer = py[c].buffer
      /\ py'[c].fresh = (py[c].fresh \/ sg)
      /\ py'[c].cyclic = py[c].cyclic
      /\ py'[c].descr = py[c].descr
  BY <1>1, Pieces DEF Typed, Objects
<1>5. Fit(c)' BY <1>1, <1>4, Pieces DEF Fit, Fits, Listed, Held, Accounted, Waiting, Hit, CutShort
<1> QED BY <1>2, <1>3, <1>5, OneChannel

LEMMA WaitDma ==
    ASSUME DmaInv, NEW c \in Channel, Wait(c)
    PROVE  DmaInv'
<1>1. /\ doing'[c] \in {"poll error", "check"} /\ ~py[c].fresh
      /\ result' = [result EXCEPT ![c] = "none"]
      /\ UNCHANGED <<sg, py, hw, active, awaiting, moved, hit>>
  BY DEF Wait, Startable, Goto, ghosts, DmaInv, DmaTypeOK
<1>r. result'[c] = "none" BY <1>1 DEF DmaInv, DmaTypeOK
<1>2. Only(c) /\ Shared' BY <1>1, Pieces DEF Wait, Startable, Goto, ghosts, Only, Shared, Latched, Line
<1>3. Typed(c)' BY <1>1, Pieces DEF Typed, Doing, Results, DmaInv, DmaTypeOK
<1>4. Fit(c)' BY <1>1, <1>r, Pieces DEF Fit, Fits, Listed, Held, Accounted, Waiting, Hit, CutShort
<1> QED BY <1>2, <1>3, <1>4, OneChannel

LEMMA PollErrorDma ==
    ASSUME DmaInv, NEW c \in Channel, PollError(c)
    PROVE  DmaInv'
<1>1. /\ doing[c] = "poll error"
      /\ IF hw[c].error THEN result'[c] = "raised" /\ doing'[c] = "nothing"
                        ELSE doing'[c] = "poll idle" /\ result'[c] = result[c]
      /\ UNCHANGED <<sg, py, hw, active, awaiting, moved, hit>>
  BY DEF PollError, Goto, ghosts, DmaInv, DmaTypeOK
<1>2. Only(c) /\ Shared' BY <1>1, Pieces DEF PollError, Goto, ghosts, Only, Shared, Latched, Line
<1>3. Typed(c)' BY <1>1, Pieces DEF Typed, Results, Doing
<1>4. Fit(c)' BY <1>1, Pieces DEF Fit, Fits, Listed, Held, Accounted, Waiting, Hit, CutShort
<1> QED BY <1>2, <1>3, <1>4, OneChannel

LEMMA ResumeDma ==
    ASSUME DmaInv, NEW c \in Channel, Resume(c)
    PROVE  DmaInv'
<1>1. /\ doing[c] = "await" /\ doing'[c] = "check"
      /\ UNCHANGED <<sg, py, hw, active, awaiting, result, moved, hit>>
  BY DEF Resume, Goto, ghosts, DmaInv, DmaTypeOK
<1>2. Only(c) /\ Shared' BY <1>1, Pieces DEF Resume, Goto, ghosts, Only, Shared, Latched, Line
<1>3. Typed(c)' BY <1>1, Pieces DEF Typed, Doing
<1>4. Fit(c)' BY <1>1, Pieces DEF Fit, Fits, Listed, Held, Accounted, Waiting, Hit, CutShort
<1> QED BY <1>2, <1>3, <1>4, OneChannel

LEMMA CompleteDma ==
    ASSUME DmaInv, NEW c \in Channel, Complete(c)
    PROVE  DmaInv'
<1>1. /\ hw'[c] = [hw[c] EXCEPT !.buffer = None, !.idle = TRUE, !.ioc = TRUE]
      /\ moved'[c] = ("overlap" \notin hit[c])
      /\ UNCHANGED <<sg, py, awaiting, doing, result, hit>>
  BY DEF Complete, Goto, ghosts, DmaInv, DmaTypeOK
<1>2. Only(c) /\ Shared' BY <1>1, Pieces DEF Complete, Goto, ghosts, Only, Shared, Latched, Line
<1>h. hw'[c] \in Registers BY <1>1, Pieces DEF Typed, Registers
<1>3. Typed(c)' BY <1>1, <1>h, Pieces DEF Typed
<1>4. /\ hw'[c].halted = hw[c].halted
      /\ hw'[c].idle = TRUE
      /\ hw'[c].buffer = None
      /\ hw'[c].descr = hw[c].descr
  BY <1>1, Pieces DEF Typed, Registers
<1>5. Fit(c)' BY <1>1, <1>4, Pieces DEF Fit, Fits, Listed, Held, Accounted, Waiting, Hit, CutShort
<1> QED BY <1>2, <1>3, <1>5, OneChannel

LEMMA FailDma ==
    ASSUME DmaInv, NEW c \in Channel, Fail(c)
    PROVE  DmaInv'
<1>1. /\ hw[c].buffer # None
      /\ hit'[c] = hit[c] \cup {"error"}
      /\ UNCHANGED <<sg, py, active, awaiting, doing, result, moved>>
  BY DEF Fail, Goto, ghosts, DmaInv, DmaTypeOK
<1>m. PICK m \in BOOLEAN :
          hw' = [hw EXCEPT ![c].buffer = None, ![c].error = TRUE, ![c].marked = m,
                           ![c].run = FALSE, ![c].halted = TRUE]
  BY DEF Fail
<1>g. hw'[c] = [hw[c] EXCEPT !.buffer = None, !.error = TRUE, !.marked = m,
                             !.run = FALSE, !.halted = TRUE]
  BY <1>m DEF DmaInv, DmaTypeOK
<1>2. Only(c) /\ Shared' BY <1>1, <1>m, <1>g, Pieces DEF Fail, Goto, ghosts, Only, Shared, Latched, Line
<1>h. hw'[c] \in Registers BY <1>g, Pieces DEF Typed, Registers
<1>t. hit'[c] \in Befallen BY <1>1, Pieces DEF Typed, Befallen, Hits
<1>3. Typed(c)' BY <1>1, <1>h, <1>t, Pieces DEF Typed
<1>4. /\ hw'[c].halted = TRUE
      /\ hw'[c].idle = hw[c].idle
      /\ hw'[c].buffer = None
      /\ hw'[c].descr = hw[c].descr
  BY <1>g, Pieces DEF Typed, Registers
<1>5. Fit(c)' BY <1>1, <1>4, Pieces DEF Fit, Fits, Listed, Held, Accounted, Waiting, Hit, CutShort
<1> QED BY <1>2, <1>3, <1>5, OneChannel

LEMMA HaltDoneDma ==
    ASSUME DmaInv, NEW c \in Channel, HaltDone(c)
    PROVE  DmaInv'
<1>1. /\ ~hw[c].halted
      /\ hw'[c] = [hw[c] EXCEPT !.halted = TRUE, !.buffer = None]
      /\ UNCHANGED <<sg, py, active, awaiting, doing, result, moved>>
      /\ hit'[c] = IF sg /\ hw[c].buffer # None THEN hit[c] \cup {"abort"} ELSE hit[c]
  BY DEF HaltDone, Goto, ghosts, DmaInv, DmaTypeOK
<1>2. Only(c) /\ Shared' BY <1>1, Pieces DEF HaltDone, Goto, ghosts, Only, Shared, Latched, Line
<1>h. hw'[c] \in Registers BY <1>1, Pieces DEF Typed, Registers
<1>t. hit'[c] \in Befallen BY <1>1, Pieces DEF Typed, Befallen, Hits
<1>3. Typed(c)' BY <1>1, <1>h, <1>t, Pieces DEF Typed
<1>4. /\ hw'[c].halted = TRUE
      /\ hw'[c].idle = hw[c].idle
      /\ hw'[c].buffer = None
      /\ hw'[c].descr = hw[c].descr
  BY <1>1, Pieces DEF Typed, Registers
<1>a. /\ hit[c] \subseteq hit'[c]
      /\ sg => "overlap" \notin hit'[c]
      /\ sg /\ hw[c].buffer # None => "abort" \in hit'[c]
  BY <1>1, Pieces DEF Fit, Fits, Accounted
<1>5. Fit(c)' BY <1>1, <1>4, <1>a, Pieces DEF Fit, Fits, Listed, Held, Accounted, Waiting, Hit, CutShort
<1> QED BY <1>2, <1>3, <1>5, OneChannel

LEMMA ServiceDma ==
    ASSUME DmaInv, NEW c \in Channel, Release(c) \/ Forget(c)
    PROVE  DmaInv'
<1>1. UNCHANGED <<sg, py, hw, doing, result, moved, hit>>
  BY DEF Release, Forget, Irq!Release, Irq!Forget, Goto, ghosts, DmaInv, DmaTypeOK
<1>2. Only(c) /\ Shared' BY <1>1, Pieces DEF Release, Forget, Irq!Release, Irq!Forget, Goto, ghosts, Only, Shared, Latched, Line
<1>3. Typed(c)' BY <1>1, Pieces DEF Typed
<1>4. Fit(c)' BY <1>1, Pieces DEF Fit, Fits, Listed, Held, Accounted, Waiting, Hit, CutShort
<1> QED BY <1>2, <1>3, <1>4, OneChannel

(* A wait that ends.                                                       *)
LEMMA ReturnFits ==
    ASSUME DmaInv, NEW c \in Channel, NEW h \in [Channel -> Registers],
           doing[c] \in {"poll idle", "check"}, Ended(c), FinishReturns(c, h),
           h[c].buffer = hw[c].buffer, h[c].idle = hw[c].idle,
           h[c].halted = hw[c].halted, \A d \in Channel \ {c} : h[d] = hw[d],
           UNCHANGED <<sg, moved, hit>>, Shared'
    PROVE  DmaInv'
<1>1. /\ py'[c] = [py[c] EXCEPT !.buffer = None, !.descr = None, !.fresh = @ \/ sg]
      /\ py' = [py EXCEPT ![c] = py'[c]]
  BY DEF FinishReturns, DmaInv, DmaTypeOK
<1>2. /\ result' = [result EXCEPT ![c] = result'[c]] /\ result'[c] \in {"done", "raised"}
      /\ doing' = [doing EXCEPT ![c] = doing'[c]] /\ doing'[c] = "nothing"
  BY DEF FinishReturns, Goto, DmaInv, DmaTypeOK
<1>3. hw'[c] = IF sg THEN [h[c] EXCEPT !.run = FALSE, !.halted = TRUE] ELSE h[c]
  BY DEF FinishReturns, Halt
<1>4. hw' = [hw EXCEPT ![c] = hw'[c]]
  <2>1. hw' \in [Channel -> {hw'[d] : d \in Channel}] BY DEF FinishReturns, Halt
  <2>2. \A d \in Channel \ {c} : hw'[d] = hw[d] BY DEF FinishReturns, Halt
  <2> QED BY <2>1, <2>2 DEF DmaInv, DmaTypeOK
<1>5. Only(c) BY <1>1, <1>2, <1>4, Pieces DEF Only
<1>6. py'[c] \in Objects /\ hw'[c] \in Registers
  <2>1. py'[c] \in Objects BY <1>1, Pieces DEF Typed, Objects
  <2>2. [h[c] EXCEPT !.run = FALSE, !.halted = TRUE] \in Registers BY DEF Registers
  <2> QED BY <1>3, <2>1, <2>2
<1>7. Typed(c)' BY <1>2, <1>6, Pieces DEF Typed, Results, Doing
<1>8. /\ py'[c].buffer = None /\ py'[c].descr = None
      /\ py'[c].fresh = (py[c].fresh \/ sg) /\ py'[c].cyclic = py[c].cyclic
  BY <1>1, Pieces DEF Typed, Objects
<1>9. /\ hw'[c].buffer = h[c].buffer /\ hw'[c].idle = h[c].idle
      /\ hw'[c].halted = (sg \/ h[c].halted)
  <2>1. sg \in BOOLEAN /\ h[c] \in Registers BY DEF DmaInv, DmaTypeOK
  <2>2. CASE sg BY <1>3, <2>1, <2>2 DEF Registers
  <2>3. CASE ~sg BY <1>3, <2>1, <2>3 DEF Registers
  <2> QED BY <2>1, <2>2, <2>3
<1>10. hw[c].buffer = None
  BY Pieces DEF Ended, Fit, Fits, Held
<1>11. moved[c] \/ Hit(hit[c])
  BY <1>10, Pieces DEF Ended, Fit, Fits, Accounted, Waiting
<1>12. Fit(c)'
  BY <1>2, <1>8, <1>9, <1>10, <1>11, Pieces DEF Fit, Fits, Listed, Held, Accounted, Waiting, Hit
<1> QED BY <1>5, <1>7, <1>12, OneChannel

(* A wait that raises for a descriptor.                                    *)
LEMMA RaiseFits ==
    ASSUME DmaInv, NEW c \in Channel, NEW h \in [Channel -> Registers],
           FinishRaises(c, h),
           h[c].buffer = hw[c].buffer, h[c].idle = hw[c].idle,
           h[c].halted = hw[c].halted, h[c].descr = hw[c].descr,
           \A d \in Channel \ {c} : h[d] = hw[d],
           UNCHANGED <<sg, moved, hit>>, Shared'
    PROVE  DmaInv'
<1>1. /\ py' = py /\ hw' = h
      /\ result' = [result EXCEPT ![c] = result'[c]] /\ result'[c] = "raised"
      /\ doing' = [doing EXCEPT ![c] = doing'[c]] /\ doing'[c] = "nothing"
  BY DEF FinishRaises, Goto, DmaInv, DmaTypeOK
<1>2. hw' = [hw EXCEPT ![c] = hw'[c]] BY <1>1 DEF DmaInv, DmaTypeOK
<1>3. Only(c) BY <1>1, <1>2, Pieces DEF Only
<1>4. Typed(c)' BY <1>1, Pieces DEF Typed, Results, Doing
<1>5. Fit(c)' BY <1>1, Pieces DEF Fit, Fits, Listed, Held, Accounted, Waiting, Hit
<1> QED BY <1>3, <1>4, <1>5, OneChannel

LEMMA FinishFits ==
    ASSUME DmaInv, NEW c \in Channel, NEW h \in [Channel -> Registers],
           doing[c] \in {"poll idle", "check"}, Ended(c), Finish(c, h),
           h[c].buffer = hw[c].buffer, h[c].idle = hw[c].idle,
           h[c].halted = hw[c].halted, h[c].descr = hw[c].descr,
           \A d \in Channel \ {c} : h[d] = hw[d],
           UNCHANGED <<sg, moved, hit>>, Shared'
    PROVE  DmaInv'
BY ReturnFits, RaiseFits DEF Finish

LEMMA PollIdleDma ==
    ASSUME DmaInv, NEW c \in Channel, PollIdle(c)
    PROVE  DmaInv'
<1>0. Shared' /\ doing[c] = "poll idle" /\ UNCHANGED <<sg, moved, hit>>
  BY Pieces DEF PollIdle, Shared
<1>1. CASE Ended(c) /\ Finish(c, hw)
  <2>1. hw \in [Channel -> Registers] BY DEF DmaInv, DmaTypeOK
  <2> QED BY <1>0, <1>1, <2>1, FinishFits
<1>2. CASE ~Ended(c) /\ Goto(c, "poll error") /\ UNCHANGED <<py, hw, result>>
  <2>1. doing'[c] = "poll error" BY <1>2 DEF Goto, DmaInv, DmaTypeOK
  <2>2. Only(c) BY <1>0, <1>2, <2>1, Pieces DEF Goto, Only
  <2>3. Typed(c)' BY <1>0, <1>2, <2>1, Pieces DEF Typed, Doing
  <2>4. Fit(c)' BY <1>0, <1>2, <2>1, Pieces DEF Fit, Fits, Listed, Held, Accounted, Waiting, Hit
  <2> QED BY <1>0, <2>2, <2>3, <2>4, OneChannel
<1> QED BY <1>1, <1>2 DEF PollIdle

LEMMA CheckAsyncDma ==
    ASSUME DmaInv, NEW c \in Channel, CheckAsync(c)
    PROVE  DmaInv'
<1>0. doing[c] = "check" /\ UNCHANGED <<sg, moved, hit>>
  BY DEF CheckAsync
<1>1. CASE Ended(c) /\ Finish(c, [hw EXCEPT ![c].ioc = FALSE]) /\ UNCHANGED awaiting
  <2> DEFINE h == [hw EXCEPT ![c].ioc = FALSE]
  <2>1. hw \in [Channel -> Registers] BY DEF DmaInv, DmaTypeOK
  <2>2. /\ h[c] \in Registers /\ h[c].buffer = hw[c].buffer
        /\ h[c].idle = hw[c].idle /\ h[c].halted = hw[c].halted
        /\ h[c].descr = hw[c].descr
    BY <2>1 DEF Registers
  <2>3. h \in [Channel -> Registers] /\ \A d \in Channel \ {c} : h[d] = hw[d]
    BY <2>1, <2>2
  <2>4. Shared' BY <1>1, Pieces DEF CheckAsync, Shared
  <2>5. Finish(c, h) BY <1>1
  <2> HIDE DEF h
  <2> QED BY <1>0, <1>1, <2>2, <2>3, <2>4, <2>5, FinishFits
<1>2. CASE ~Ended(c) /\ Goto(c, "await") /\ Irq!Await(c, c) /\ UNCHANGED <<py, hw, result>>
  <2>1. doing'[c] = "await" BY <1>2 DEF Goto, DmaInv, DmaTypeOK
  <2>2. Only(c) BY <1>0, <1>2, <2>1, Pieces DEF Goto, Only
  <2>3. Typed(c)' BY <1>0, <1>2, <2>1, Pieces DEF Typed, Doing
  <2>4. Fit(c)' BY <1>0, <1>2, <2>1, Pieces DEF Fit, Fits, Listed, Held, Accounted, Waiting, Hit
  <2>5. Shared' BY <1>2, Pieces DEF CheckAsync, Shared, Irq!Await
  <2> QED BY <2>2, <2>3, <2>4, <2>5, OneChannel
<1> QED BY <1>1, <1>2 DEF CheckAsync

(* stop(): a cyclic channel resets both.                                   *)
LEMMA StoppedFits ==
    ASSUME DmaInv, NEW cyclic \in BOOLEAN, NEW c \in Channel, NEW d \in Channel
    PROVE  LET h == Stopped(c, cyclic)[d]
           IN  /\ h \in Registers
               /\ ~cyclic => /\ h.buffer = hw[d].buffer /\ h.idle = hw[d].idle
                             /\ h.halted = hw[d].halted /\ h.descr = hw[d].descr
               /\ cyclic => h.buffer = None /\ ~h.idle /\ h.halted
<1>1. hw \in [Channel -> Registers] /\ hw[d] \in Registers /\ hw[c] \in Registers
  BY DEF DmaInv, DmaTypeOK
<1>2. CASE cyclic
  <2>1. Stopped(c, cyclic)[d] = Blank BY <1>2 DEF Stopped
  <2>2. Blank \in Registers BY DEF Blank, Registers
  <2>3. Blank.buffer = None /\ ~Blank.idle /\ Blank.halted BY DEF Blank
  <2> QED BY <1>2, <2>1, <2>2, <2>3
<1>3. CASE ~cyclic
  <2>1. Stopped(c, cyclic)[d] = IF d = c THEN [hw[c] EXCEPT !.run = FALSE] ELSE hw[d]
    BY <1>1, <1>3 DEF Stopped
  <2>2. [hw[c] EXCEPT !.run = FALSE] \in Registers BY <1>1 DEF Registers
  <2>3. /\ [hw[c] EXCEPT !.run = FALSE].buffer = hw[c].buffer
        /\ [hw[c] EXCEPT !.run = FALSE].idle = hw[c].idle
        /\ [hw[c] EXCEPT !.run = FALSE].halted = hw[c].halted
        /\ [hw[c] EXCEPT !.run = FALSE].descr = hw[c].descr
    BY <1>1 DEF Registers
  <2> QED BY <1>1, <1>3, <2>1, <2>2, <2>3
<1> QED BY <1>2, <1>3

(* What befalls a channel whose transfer is reset is an account of it.     *)
LEMMA ResetAccounts ==
    ASSUME DmaInv, sg, NEW c \in Channel
    PROVE  (~py[c].fresh \/ doing[c] \in Waiting) => moved[c] \/ Hit(hit[c] \cup Aborted(c))
BY Pieces DEF Fit, Fits, Accounted, Aborted, Hit, CutShort

LEMMA StopDma ==
    ASSUME DmaInv, NEW c \in Channel, Stop(c)
    PROVE  DmaInv'
<1> DEFINE cyclic == py[c].cyclic
<1>1. cyclic \in BOOLEAN /\ (cyclic => sg)
  BY Pieces DEF Typed, Objects, Fit, Fits, Listed, DmaInv, DmaTypeOK
<1>2. /\ UNCHANGED <<sg, py, active, awaiting, result, moved>>
      /\ hw' = Stopped(c, cyclic)
  BY DEF Stop
<1>3. /\ doing' \in [Channel -> Doing]
      /\ \A d \in Channel \ {c} : doing'[d] = doing[d]
      /\ doing'[c] = IF doing[c] = "await" THEN "stop await" ELSE "stop"
  BY DEF Stop, Goto, DmaInv, DmaTypeOK, Doing
<1>4. ASSUME NEW d \in Channel
      PROVE  /\ hit'[d] \in Befallen /\ hit[d] \subseteq hit'[d]
             /\ cyclic => Aborted(d) \subseteq hit'[d]
             /\ sg => "overlap" \notin hit'[d]
  BY Pieces DEF Stop, Typed, Befallen, Hits, Aborted, Fit, Fits, Accounted
<1>5. hw' \in [Channel -> Registers] /\ hit' \in [Channel -> Befallen]
  <2>1. hw' \in [Channel -> {hw'[d] : d \in Channel}]
    BY <1>2 DEF Stopped, DmaInv, DmaTypeOK
  <2>2. hit' \in [Channel -> {hit'[d] : d \in Channel}] BY DEF Stop
  <2> QED BY <1>1, <1>2, <1>4, <2>1, <2>2, StoppedFits
<1>6. DmaTypeOK' BY <1>2, <1>3, <1>5 DEF DmaInv, DmaTypeOK, Befallen, Hits
<1>7. ASSUME NEW d \in Channel PROVE Fit(d)'
  <2>1. doing'[d] \in Waiting => doing[d] \in Waiting
    BY <1>3 DEF Waiting
  <2>2. CASE cyclic
    <3>1. hw'[d].buffer = None /\ ~hw'[d].idle /\ hw'[d].halted
      BY <1>1, <1>2, <2>2, StoppedFits
    <3>2. (~py[d].fresh \/ doing[d] \in Waiting) => moved[d] \/ Hit(hit'[d])
      BY <1>1, <1>4, <2>2, ResetAccounts DEF Hit, CutShort
    <3>3. Hit(hit[d]) => Hit(hit'[d]) BY <1>4 DEF Hit, CutShort
    <3> HIDE DEF cyclic
    <3> QED BY <1>1, <1>2, <2>1, <2>2, <3>1, <3>2, <3>3, <1>4, Pieces
         DEF Fit, Fits, Listed, Held, Accounted, Hit
  <2>3. CASE ~cyclic
    <3>1. /\ hw'[d].buffer = hw[d].buffer /\ hw'[d].idle = hw[d].idle
          /\ hw'[d].halted = hw[d].halted /\ hw'[d].descr = hw[d].descr
      BY <1>1, <1>2, <2>3, StoppedFits
    <3>2. Hit(hit[d]) => Hit(hit'[d]) BY <1>4 DEF Hit, CutShort
    <3> HIDE DEF cyclic
    <3> QED BY <1>2, <1>4, <2>1, <3>1, <3>2, Pieces
         DEF Fit, Fits, Listed, Held, Accounted, Hit
  <2> QED BY <1>1, <2>2, <2>3
<1> QED BY <1>6, <1>7 DEF DmaInv

-----------------------------------------------------------------------------
(* transfer().                                                             *)
LEMMA SimpleDma ==
    ASSUME DmaInv, NEW c \in Channel, NEW n \in Sizes, StartSimple(c, n), Latched,
           result' = [result EXCEPT ![c] = "none"], moved' = [moved EXCEPT ![c] = FALSE],
           UNCHANGED <<sg, awaiting, doing>>
    PROVE  DmaInv'
<1> DEFINE busy == hw[c].buffer # None
<1>1. /\ ~sg /\ ~hw[c].halted
      /\ py'[c] = [py[c] EXCEPT !.buffer = n, !.fresh = FALSE]
      /\ result'[c] = "none" /\ moved'[c] = FALSE
      /\ hit'[c] = IF busy THEN {"overlap"} ELSE {}
  BY DEF StartSimple, DmaInv, DmaTypeOK
<1>b. PICK b \in IF busy THEN {n, hw[c].buffer} ELSE {n} :
          hw' = [hw EXCEPT ![c].buffer = b, ![c].idle = FALSE]
  BY DEF StartSimple
<1>c. b \in Sizes BY <1>b, Pieces DEF Typed, Registers
<1>d. hw'[c] = [hw[c] EXCEPT !.buffer = b, !.idle = FALSE]
  BY <1>b DEF DmaInv, DmaTypeOK
<1>e. UNCHANGED <<sg, awaiting, doing>> /\ hit' = [hit EXCEPT ![c] = hit'[c]]
      /\ py' = [py EXCEPT ![c] = py'[c]]
  BY DEF StartSimple, DmaInv, DmaTypeOK
<1>f. hw' = [hw EXCEPT ![c] = hw'[c]] BY <1>b, <1>d
<1>2. Only(c) /\ Shared'
  <2>1. Only(c) BY <1>1, <1>e, <1>f, Pieces DEF Only
  <2>2. Shared' BY <1>e, Pieces DEF Shared, Latched, Line
  <2> QED BY <2>1, <2>2
<1>p. py'[c] \in Objects BY <1>1, Pieces DEF Typed, Objects
<1>h. hw'[c] \in Registers BY <1>c, <1>d, Pieces DEF Typed, Registers
<1>3. Typed(c)' BY <1>1, <1>p, <1>h, Pieces DEF Typed, Results, Befallen, Hits
<1>4. /\ py'[c].buffer = n /\ py'[c].fresh = FALSE
      /\ py'[c].cyclic = py[c].cyclic /\ py'[c].descr = py[c].descr
  BY <1>1, Pieces DEF Typed, Objects
<1>5. hw'[c].buffer = b /\ hw'[c].idle = FALSE /\ hw'[c].halted = hw[c].halted
  BY <1>d, Pieces DEF Typed, Registers
<1>6. b = n \/ "overlap" \in hit'[c] BY <1>1, <1>b
<1>7. b # None BY <1>c, DmaAssumption
<1> HIDE DEF busy
<1>8. Fit(c)' BY <1>1, <1>4, <1>5, <1>6, <1>7, Pieces DEF Fit, Fits, Listed, Held, Accounted
<1> QED BY <1>2, <1>3, <1>8, OneChannel

LEMMA ScatterDma ==
    ASSUME DmaInv, NEW c \in Channel, NEW n \in Sizes, NEW cyclic \in BOOLEAN,
           doing[c] = "nothing", StartSG(c, n, cyclic), Latched,
           result' = [result EXCEPT ![c] = "none"], moved' = [moved EXCEPT ![c] = FALSE],
           UNCHANGED <<sg, awaiting, doing>>
    PROVE  DmaInv'
<1> DEFINE list == Descriptors(n)
           h == Stopped(c, cyclic)
           p == [buffer |-> n, fresh |-> FALSE, cyclic |-> cyclic, descr |-> list]
           g == [h[c] EXCEPT !.halted = FALSE, !.run = TRUE, !.idle = FALSE,
                             !.marked = FALSE, !.buffer = n, !.descr = list]
<1>1. /\ sg /\ BlockSize(n) > 0
      /\ py' = [py EXCEPT ![c] = p]
      /\ hw' = [h EXCEPT ![c] = g]
      /\ hit' = [d \in Channel |-> IF d = c THEN {}
                                   ELSE hit[d] \cup IF cyclic THEN Aborted(d) ELSE {}]
  BY DEF StartSG
<1>2. list \in Lists /\ n # None BY <1>1, DmaAssumption DEF Lists
<1>3. h \in [Channel -> Registers]
  <2>1. h \in [Channel -> {h[d] : d \in Channel}] BY DEF Stopped, DmaInv, DmaTypeOK
  <2> QED BY <2>1, StoppedFits
<1>4. p \in Objects /\ p.buffer = n /\ p.fresh = FALSE /\ p.descr = list
  BY <1>2 DEF Objects
<1>5. /\ g \in Registers /\ g.halted = FALSE /\ g.idle = FALSE
      /\ g.buffer = n /\ g.descr = list
  <2>1. h[c] \in Registers BY <1>3
  <2> HIDE DEF list, h
  <2>2. g \in Registers BY <1>2, <2>1 DEF Registers
  <2> QED BY <2>1, <2>2 DEF Registers
<1>6. Listed(p)
  BY <1>1, <1>4, DmaAssumption DEF Listed
<1> HIDE DEF list, p, g
<1>7. ASSUME NEW d \in Channel, d # c
      PROVE  /\ py'[d] = py[d] /\ hw'[d] = h[d] /\ doing'[d] = doing[d]
             /\ result'[d] = result[d] /\ moved'[d] = moved[d]
             /\ hit'[d] \in Befallen /\ hit[d] \subseteq hit'[d]
             /\ cyclic => hit'[d] = hit[d] \cup Aborted(d)
             /\ "overlap" \notin hit'[d]
  <2>1. hit[d] \in Befallen /\ Aborted(d) \in Befallen
    BY Pieces DEF Typed, Befallen, Hits, Aborted
  <2>2. hit'[d] = hit[d] \cup IF cyclic THEN Aborted(d) ELSE {} BY <1>1, <1>7
  <2>3. hit'[d] \in Befallen BY <2>1, <2>2 DEF Befallen, Hits
  <2>4. "overlap" \notin hit'[d]
    BY <1>1, <2>2, Pieces DEF Aborted, Fit, Fits, Accounted
  <2> QED BY <1>1, <1>3, <1>7, <2>2, <2>3, <2>4 DEF DmaInv, DmaTypeOK
<1>8. /\ py'[c] = p /\ hw'[c] = g /\ doing'[c] = "nothing" /\ result'[c] = "none"
      /\ moved'[c] = FALSE /\ hit'[c] = {}
  BY <1>1, <1>3 DEF DmaInv, DmaTypeOK
<1>9. DmaTypeOK'
  <2>1. py' \in [Channel -> Objects] BY <1>1, <1>4 DEF DmaInv, DmaTypeOK
  <2>2. hw' \in [Channel -> Registers] BY <1>1, <1>3, <1>5
  <2>3. hit' \in [Channel -> Befallen]
    <3>1. hit' \in [Channel -> {hit'[d] : d \in Channel}] BY <1>1
    <3>2. {} \in Befallen BY DEF Befallen, Hits
    <3> QED BY <1>7, <1>8, <3>1, <3>2
  <2>4. active' \subseteq Channel BY Pieces DEF Latched, Line, Shared
  <2>5. /\ result' \in [Channel -> Results] /\ moved' \in [Channel -> BOOLEAN]
    BY DEF Results, DmaInv, DmaTypeOK
  <2>6. UNCHANGED <<sg, awaiting, doing>> OBVIOUS
  <2> QED BY <2>1, <2>2, <2>3, <2>4, <2>5, <2>6 DEF DmaInv, DmaTypeOK, Results, Befallen, Hits
<1>10. Fit(c)'
  BY <1>1, <1>2, <1>4, <1>5, <1>6, <1>8 DEF Fit, Fits, Held, Listed, Accounted, Waiting
<1>11. ASSUME NEW d \in Channel, d # c PROVE Fit(d)'
  <2>0. sg /\ sg' = sg /\ Fit(d) BY <1>1, Pieces
  <2>1. CASE cyclic
    <3>1. h[d].buffer = None /\ ~h[d].idle /\ h[d].halted BY <2>1, StoppedFits
    <3>2. (~py[d].fresh \/ doing[d] \in Waiting) => moved[d] \/ Hit(hit'[d])
      BY <1>1, <1>7, <1>11, <2>1, ResetAccounts
    <3>3. Hit(hit[d]) => Hit(hit'[d]) BY <1>7, <1>11 DEF Hit, CutShort
    <3> HIDE DEF h
    <3> QED BY <1>7, <1>11, <2>0, <3>1, <3>2, <3>3 DEF Fit, Fits, Listed, Held, Accounted, Hit
  <2>2. CASE ~cyclic
    <3>1. /\ h[d].buffer = hw[d].buffer /\ h[d].idle = hw[d].idle
          /\ h[d].halted = hw[d].halted /\ h[d].descr = hw[d].descr
      BY <2>2, StoppedFits
    <3>2. Hit(hit[d]) => Hit(hit'[d]) BY <1>7, <1>11 DEF Hit, CutShort
    <3> HIDE DEF h
    <3> QED BY <1>7, <1>11, <2>0, <3>1, <3>2 DEF Fit, Fits, Listed, Held, Accounted, Hit
  <2> QED BY <2>1, <2>2
<1> QED BY <1>9, <1>10, <1>11 DEF DmaInv

LEMMA NextDma == DmaInv /\ [DmaNext]_dmaVars => DmaInv'
<1> SUFFICES ASSUME DmaInv, [DmaNext]_dmaVars PROVE DmaInv'
  OBVIOUS
<1>1. ASSUME NEW c \in Channel, NEW n \in Sizes, NEW cyclic \in BOOLEAN, Transfer(c, n, cyclic)
      PROVE  DmaInv'
  <2>1. CASE StartSimple(c, n) BY <1>1, <2>1, SimpleDma DEF Transfer
  <2>2. CASE StartSG(c, n, cyclic) BY <1>1, <2>2, ScatterDma DEF Transfer
  <2> QED BY <1>1, <2>1, <2>2 DEF Transfer
<1>2. ASSUME NEW c \in Channel, Task(c) PROVE DmaInv'
  BY <1>2, StopDoneDma, PollErrorDma, PollIdleDma, CheckAsyncDma, ResumeDma DEF Task
<1>3. CASE UNCHANGED dmaVars
  BY <1>3 DEF dmaVars, DmaInv, DmaTypeOK, Fit, Fits, Listed, Held, Accounted, Hit
<1> QED BY <1>1, <1>2, <1>3, TransferRefusedDma, StartDma, StopDma, WaitDma,
           CompleteDma, FailDma, HaltDoneDma, ServiceDma DEF DmaNext

LEMMA AlwaysDma == DmaSpec => []DmaInv
BY InitDma, NextDma, PTL DEF DmaSpec
-----------------------------------------------------------------------------
(* The channels, their registers and their tasks are of their types.       *)
THEOREM TypeCorrect == DmaSpec => []DmaTypeOK
<1>1. DmaInv => DmaTypeOK BY DEF DmaInv
<1> QED BY <1>1, AlwaysDma, PTL

(* A list of descriptors covers the array it is for, each byte once, in    *)
(* blocks that the engine can take: transfer(), dma.py:380-406.            *)
THEOREM ListsTile == DmaSpec => []TransferTiled
<1>1. DmaInv => TransferTiled
  BY DescriptorsTile, DmaAssumption DEF DmaInv, Fit, Fits, Listed, TransferTiled
<1> QED BY <1>1, AlwaysDma, PTL

(* The hardware reads no descriptor and moves no array that the channel    *)
(* has let go: wait() and wait_async(), dma.py:478-524.                    *)
THEOREM MemoryKept == DmaSpec => []MemoryHeld
<1>1. DmaInv => MemoryHeld BY DEF DmaInv, Fit, Fits, Held, MemoryHeld
<1> QED BY <1>1, AlwaysDma, PTL

(* A wait that returns has waited for its transfer, unless that was cut    *)
(* short, or overlapped another: wait(), wait_async(), dma.py:166-200,     *)
(* 470-554.                                                                *)
THEOREM WaitsComplete == DmaSpec => []WaitMeansDone
<1>1. DmaInv => WaitMeansDone
  BY Pieces DEF Fit, Fits, Accounted, Hit, WaitMeansDone
<1> QED BY <1>1, AlwaysDma, PTL
=============================================================================
