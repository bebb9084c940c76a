--------------------------- MODULE Overlay_proofs ---------------------------
(***************************************************************************)
(* What is kept when an overlay is loaded: the invariants of DeviceState,  *)
(* for any number of designs, Overlays and processes, and of IntcOverlay,  *)
(* for any number of overlays, Interrupts and lines.                       *)
(***************************************************************************)
EXTENDS DeviceState, IntcOverlay, TLAPS

(* What holds of an Overlay that is not there, or is; a Bitstream has no   *)
(* parser of its own.                                                      *)
Objects ==
    \A o \in Overlay :
        /\ place[o] = "none" => ~cached[o] /\ ~stamped[o]
        /\ place[o] # "none" => bit[o] \in Design
        /\ place[o] \notin {"none", "hash", "unpickle"} /\ ~cached[o]
              => meta[o] = bit[o] \/ (goal = "bare" /\ place[o] # "made")

(* Where the global state is that of the Overlay at work.                  *)
Owned ==
    \A o \in Overlay :
        /\ place[o] \in {"save", "write", "dump", "pickle"} => ~cached[o]
        /\ place[o] \in {"hash", "unpickle", "dump", "pickle"} => goal # "bare"
        /\ place[o] = "unpickle" => gs = bit[o]
        /\ place[o] \in {"dump", "pickle"} => gs = bit[o] \/ "gone" \in gaps
        /\ place[o] = "program" /\ ~cached[o] => gs = bit[o] \/ "gone" \in gaps

FilesInv == DevTypeOK /\ Objects /\ Owned /\ CacheRight

(* What a call is for at its steps; a fresh FPGA is empty.                 *)
Purpose ==
    /\ fresh => fpga = None
    /\ \A o \in Overlay :
          /\ place[o] \in {"save", "write", "dump", "pickle"} => goal # "make"
          /\ place[o] \in {"boot", "shutdown", "program"}
                => goal \in {"load", "bare"}

(* Why the global state names the design in the FPGA, or a download that   *)
(* runs will put it there.                                                 *)
Excused == gaps \cap {"fpga", "cache", "again", "gone"} # {}

Explained ==
    gs \in Design =>
        \/ gs = fpga \/ fresh \/ Excused
        \/ \E o \in Overlay :
              \/ place[o] \in {"dump", "pickle"} /\ goal # "cache"
              \/ place[o] = "program" /\ ~cached[o]

(* The global state of an earlier boot is not there any more.              *)
Checked ==
    \A o \in Overlay : place[o] = "shutdown" /\ gs \in Design => ~fresh

FpgaInv == FilesInv /\ Purpose /\ Explained /\ Checked

Loaded ==
    \A o \in Overlay :
        stamped[o] /\ dtime[Home[o]] = o /\ by = Home[o] => fpga = bit[o]

-----------------------------------------------------------------------------
USE DEF Goto, Forget, ClearState, files, object, device, Place

LEMMA InitFiles == DevInit => FilesInv
BY DeviceAssumption
   DEF DevInit, FilesInv, DevTypeOK, Objects, Owned, CacheRight, Busy

(* The objects of P go, and what their processes owed is recorded.         *)
LEMMA DieType ==
    ASSUME DevTypeOK, NEW P \in SUBSET Process, Die(P)
    PROVE  /\ place' \in [Overlay -> Place] /\ bit' \in [Overlay -> Design \cup {None}]
           /\ meta' \in [Overlay -> Design \cup {None}]
           /\ cached' \in [Overlay -> BOOLEAN] /\ stamped' \in [Overlay -> BOOLEAN]
           /\ dname' \in [Process -> Design \cup {None}]
           /\ dtime' \in [Process -> Overlay \cup {None}]
           /\ gaps' \subseteq Gap
<1>1. \A o \in Overlay : Owed(o) \subseteq Gap BY DEF Owed, Gap
<1>2. gaps' \subseteq Gap BY <1>1 DEF Die, DevTypeOK
<1>3. /\ place' \in [Overlay -> Place] /\ bit' \in [Overlay -> Design \cup {None}]
      /\ meta' \in [Overlay -> Design \cup {None}]
  BY DEF Die, DevTypeOK
<1>4. cached' \in [Overlay -> BOOLEAN] /\ stamped' \in [Overlay -> BOOLEAN]
  BY DEF Die, DevTypeOK
<1>5. /\ dname' \in [Process -> Design \cup {None}]
      /\ dtime' \in [Process -> Overlay \cup {None}]
  BY DEF Die, DevTypeOK
<1> QED BY <1>2, <1>3, <1>4, <1>5

LEMMA DieEffect ==
    ASSUME DevTypeOK, Objects, NEW P \in SUBSET Process, Die(P), NEW o \in Overlay
    PROVE  /\ gaps \subseteq gaps'
           /\ place'[o] # "none" =>
                 /\ place'[o] = place[o] /\ bit'[o] = bit[o] /\ meta'[o] = meta[o]
                 /\ cached'[o] = cached[o] /\ stamped'[o] = stamped[o]
                 /\ Home[o] \notin P
           /\ place'[o] = "none" => ~cached'[o] /\ ~stamped'[o]
           /\ place'[o] # place[o] => Owed(o) \subseteq gaps'
<1>1. CASE Home[o] \in P BY <1>1 DEF Die, DevTypeOK
<1>2. CASE Home[o] \notin P BY <1>2 DEF Die, DevTypeOK, Objects
<1> QED BY <1>1, <1>2

(* Between two actions at most one Overlay is at work.                     *)
LEMMA Alone ==
    ASSUME DevTypeOK, NEW o \in Overlay, place[o] \notin {"none", "made"},
           NEW q \in Overlay, q # o
    PROVE  place[q] \in {"none", "made"}
BY DEF DevTypeOK, Busy
LEMMA OneBusy ==
    ASSUME DevTypeOK, NEW o \in Overlay, o \in Busy,
           \A q \in Overlay \ {o} : place'[q] = place[q]
    PROVE  (\A p, q \in Busy : p = q)'
BY DEF DevTypeOK, Busy
-----------------------------------------------------------------------------
(* A call ends: its object stays as it is or goes, the others stay.        *)
Ends(o) ==
    /\ place' \in [Overlay -> Place] /\ bit' \in [Overlay -> Design \cup {None}]
    /\ meta' \in [Overlay -> Design \cup {None}]
    /\ cached' \in [Overlay -> BOOLEAN] /\ stamped' \in [Overlay -> BOOLEAN]
    /\ \A q \in Overlay : q # o =>
          /\ place'[q] = place[q] /\ bit'[q] = bit[q] /\ meta'[q] = meta[q]
          /\ cached'[q] = cached[q] /\ stamped'[q] = stamped[q]
    /\ \/ place'[o] = "none" /\ ~cached'[o] /\ ~stamped'[o]
       \/ /\ place'[o] = "made" /\ goal # "bare" /\ bit'[o] = bit[o]
          /\ meta'[o] = meta[o] /\ cached'[o] = cached[o]

LEMMA ForgetEnds ==
    ASSUME DevTypeOK, NEW o \in Overlay, Forget({o})
    PROVE  Ends(o)
<1>1. /\ place' \in [Overlay -> Place] /\ bit' \in [Overlay -> Design \cup {None}]
      /\ meta' \in [Overlay -> Design \cup {None}]
  BY DEF DevTypeOK
<1>2. cached' \in [Overlay -> BOOLEAN] /\ stamped' \in [Overlay -> BOOLEAN]
  OBVIOUS
<1>3. \A q \in Overlay : q # o =>
          /\ place'[q] = place[q] /\ bit'[q] = bit[q] /\ meta'[q] = meta[q]
          /\ cached'[q] = cached[q] /\ stamped'[q] = stamped[q]
  BY DEF DevTypeOK
<1>4. place'[o] = "none" /\ ~cached'[o] /\ ~stamped'[o] OBVIOUS
<1> QED BY <1>1, <1>2, <1>3, <1>4 DEF Ends

LEMMA ReturnEnds ==
    ASSUME DevTypeOK, NEW o \in Overlay, Return(o)
    PROVE  Ends(o)
<1>1. CASE goal = "bare" BY <1>1, ForgetEnds DEF Return
<1>2. CASE goal # "bare" BY <1>2 DEF Return, DevTypeOK, Ends
<1> QED BY <1>1, <1>2

LEMMA EndsFiles ==
    ASSUME FilesInv, NEW o \in Overlay, o \in Busy, Ends(o), UNCHANGED <<files, goal>>,
           gaps \subseteq gaps', gaps' \subseteq Gap,
           fpga' \in Design \cup {None, Torn}, fresh' \in BOOLEAN,
           by' \in Process \cup {None}, dname' \in [Process -> Design \cup {None}],
           dtime' \in [Process -> Overlay \cup {None}],
           place[o] # "dump", place[o] # "hash", place[o] # "unpickle"
    PROVE  FilesInv'
<1>0. DevTypeOK /\ Objects /\ Owned /\ CacheRight BY DEF FilesInv
<1>1. DevTypeOK'
  <2>1. \A q \in Overlay \ {o} : place'[q] = place[q] BY DEF Ends
  <2>2. (\A p, q \in Busy : p = q)' BY <1>0, <2>1, OneBusy
  <2> QED BY <1>0, <2>2 DEF DevTypeOK, Ends
<1>2. Objects' BY <1>0 DEF Objects, Ends, Busy
<1>3. Owned' BY <1>0 DEF Owned, Ends
<1>4. CacheRight'
  <2>1. ASSUME NEW q \in Overlay, place[q] = "dump" PROVE place'[q] = "dump"
    BY <2>1 DEF Ends
  <2> QED BY <1>0, <2>1 DEF CacheRight
<1> QED BY <1>1, <1>2, <1>3, <1>4 DEF FilesInv

(* Each action keeps the types and what is known of the files.             *)
LEMMA CreateFiles ==
    ASSUME FilesInv, NEW o \in Overlay, NEW d \in Design,
           NEW g \in {"make", "cache", "load"}, Create(o, d, g)
    PROVE  FilesInv'
<1>1. DevTypeOK'
  BY DeviceAssumption DEF Create, FilesInv, DevTypeOK, Objects, Busy, Gap
<1>2. Objects'
  BY DeviceAssumption DEF Create, FilesInv, DevTypeOK, Objects, Owned, Busy
<1>3. Owned'
  BY DeviceAssumption DEF Create, FilesInv, DevTypeOK, Objects, Owned, Busy
<1>4. CacheRight'
  BY DeviceAssumption DEF Create, FilesInv, DevTypeOK, Objects, Owned, Busy, CacheRight
<1> QED BY <1>1, <1>2, <1>3, <1>4 DEF FilesInv

LEMMA BareFiles ==
    ASSUME FilesInv, NEW o \in Overlay, NEW d \in Design, Bare(o, d)
    PROVE  FilesInv'
<1>1. DevTypeOK'
  BY DeviceAssumption DEF Bare, FilesInv, DevTypeOK, Objects, Busy, Gap
<1>2. Objects'
  BY DeviceAssumption DEF Bare, FilesInv, DevTypeOK, Objects, Owned, Busy
<1>3. Owned'
  BY DeviceAssumption DEF Bare, FilesInv, DevTypeOK, Objects, Owned, Busy
<1>4. CacheRight'
  BY DeviceAssumption DEF Bare, FilesInv, DevTypeOK, Objects, Owned, Busy, CacheRight
<1> QED BY <1>1, <1>2, <1>3, <1>4 DEF FilesInv

LEMMA CallFiles ==
    ASSUME FilesInv, NEW o \in Overlay, NEW g \in {"cache", "load"}, Call(o, g)
    PROVE  FilesInv'
<1>1. DevTypeOK'
  BY DeviceAssumption DEF Call, FilesInv, DevTypeOK, Objects, Busy, Gap
<1>2. Objects'
  BY DeviceAssumption DEF Call, FilesInv, DevTypeOK, Objects, Owned, Busy
<1>3. Owned'
  BY DeviceAssumption DEF Call, FilesInv, DevTypeOK, Objects, Owned, Busy
<1>4. CacheRight'
  BY DeviceAssumption DEF Call, FilesInv, DevTypeOK, Objects, Owned, Busy, CacheRight
<1> QED BY <1>1, <1>2, <1>3, <1>4 DEF FilesInv

(* Overlay() has its parser and goes on.                                   *)
LEMMA MadeType ==
    ASSUME FilesInv, NEW o \in Overlay, place[o] \in {"hash", "unpickle"},
           NEW d \in Design, NEW b \in BOOLEAN, Made(o, d, b)
    PROVE  /\ place' \in [Overlay -> Place]
           /\ place'[o] \in {"made", "save", "boot"}
           /\ meta' \in [Overlay -> Design \cup {None}]
           /\ cached' \in [Overlay -> BOOLEAN]
           /\ \A q \in Overlay \ {o} : place'[q] = place[q]
<1>1. DevTypeOK /\ goal # "bare" BY DEF FilesInv, Owned
<1>2. goal \in {"make", "cache", "load"} BY <1>1 DEF DevTypeOK
<1> QED BY <1>1, <1>2 DEF Made, DevTypeOK

LEMMA CompareHashFiles ==
    ASSUME FilesInv, NEW o \in Overlay, CompareHash(o)
    PROVE  FilesInv'
<1>0. DevTypeOK /\ o \in Busy /\ bit[o] \in Design
  BY DEF CompareHash, FilesInv, Busy, Objects
<1>a. ASSUME gs = Torn /\ Forget({o}) PROVE DevTypeOK' /\ Objects'
  <2>1. \A q \in Overlay \ {o} : place'[q] = place[q] BY <1>a
  <2>2. (\A p, q \in Busy : p = q)' BY <1>0, <2>1, OneBusy
  <2>3. DevTypeOK' BY <1>0, <1>a, <2>2 DEF CompareHash, DevTypeOK
  <2>4. Objects' BY <1>a DEF CompareHash, FilesInv, DevTypeOK, Objects
  <2> QED BY <2>3, <2>4
<1>b. ASSUME CacheExists(o) /\ Goto(o, "unpickle") /\ UNCHANGED object
      PROVE  DevTypeOK' /\ Objects'
  <2>1. DevTypeOK'
    BY <1>b, DeviceAssumption DEF CompareHash, FilesInv, DevTypeOK, Busy
  <2>2. Objects' BY <1>b DEF CompareHash, FilesInv, DevTypeOK, Objects
  <2> QED BY <2>1, <2>2
<1>c. ASSUME Made(o, bit[o], FALSE) PROVE DevTypeOK' /\ Objects'
  <2>1. /\ place' \in [Overlay -> Place] /\ meta' \in [Overlay -> Design \cup {None}]
        /\ place'[o] \in {"made", "save", "boot"}
        /\ cached' \in [Overlay -> BOOLEAN]
        /\ \A q \in Overlay \ {o} : place'[q] = place[q]
    BY <1>0, <1>c, MadeType DEF CompareHash
  <2>2. (\A p, q \in Busy : p = q)' BY <1>0, <2>1, OneBusy
  <2>3. UNCHANGED <<bit, stamped>> BY <1>c DEF Made
  <2>5. DevTypeOK' BY <1>0, <2>1, <2>2, <2>3 DEF CompareHash, DevTypeOK
  <2>4. Objects'
    <3>1. /\ goal' = goal /\ bit' = bit
          /\ \A q \in Overlay : q # o => cached'[q] = cached[q] /\ meta'[q] = meta[q]
      BY <1>0, <1>c DEF CompareHash, Made, DevTypeOK
    <3>2. meta'[o] = bit[o] /\ place'[o] # "none"
      BY <1>0, <1>c, <2>1 DEF Made, DevTypeOK
    <3> QED BY <1>0, <2>1, <2>3, <3>1, <3>2 DEF FilesInv, Objects
  <2> QED BY <2>4, <2>5
<1>1. DevTypeOK' BY <1>a, <1>b, <1>c DEF CompareHash
<1>2. Objects' BY <1>a, <1>b, <1>c DEF CompareHash
<1>3. Owned'
  BY DeviceAssumption DEF CompareHash, Made, CacheExists, FilesInv, DevTypeOK,
     Objects, Owned, Busy
<1>4. CacheRight'
  BY DeviceAssumption DEF CompareHash, Made, CacheExists, FilesInv, DevTypeOK,
     Objects, Owned, Busy, CacheRight
<1> QED BY <1>1, <1>2, <1>3, <1>4 DEF FilesInv

LEMMA UnpickleFiles ==
    ASSUME FilesInv, NEW o \in Overlay, Unpickle(o)
    PROVE  FilesInv'
<1>0. DevTypeOK /\ o \in Busy BY DEF Unpickle, FilesInv, Busy
<1>a. PICK d \in Design, b \in BOOLEAN : Made(o, d, b)
  BY DEF Unpickle, FilesInv, Objects
<1>c. /\ place' \in [Overlay -> Place] /\ meta' \in [Overlay -> Design \cup {None}]
      /\ cached' \in [Overlay -> BOOLEAN]
      /\ \A q \in Overlay \ {o} : place'[q] = place[q]
  BY <1>a, MadeType DEF Unpickle
<1>b. (\A p, q \in Busy : p = q)' BY <1>0, <1>c, OneBusy
<1>d. UNCHANGED <<bit, stamped>> BY <1>a DEF Made
<1>f. /\ gs' \in Design \cup {None, Torn} /\ md' \in Design \cup {None, Torn}
      /\ gaps' \subseteq Gap
  BY <1>0 DEF Unpickle, DevTypeOK
<1>1. DevTypeOK'
  BY <1>0, <1>b, <1>c, <1>d, <1>f DEF Unpickle, DevTypeOK
<1>2. Objects'
  BY DeviceAssumption DEF Unpickle, Made, FilesInv, DevTypeOK, Objects, Owned
<1>3. Owned'
  BY DeviceAssumption DEF Unpickle, Made, FilesInv, DevTypeOK, Objects, Owned, Busy
<1>4. CacheRight'
  BY DeviceAssumption DEF Unpickle, Made, FilesInv, DevTypeOK, Objects, Owned,
     Busy, CacheRight
<1> QED BY <1>1, <1>2, <1>3, <1>4 DEF FilesInv

LEMMA BootCheckFiles ==
    ASSUME FilesInv, NEW o \in Overlay, BootCheck(o)
    PROVE  FilesInv'
<1>0. gs' \in Design \cup {None, Torn} /\ gaps' \subseteq Gap
  BY DEF BootCheck, FilesInv, DevTypeOK
<1>1. DevTypeOK'
  BY <1>0 DEF BootCheck, FilesInv, DevTypeOK, Busy
<1>2. Objects'
  BY DeviceAssumption DEF BootCheck, Booted, FilesInv, DevTypeOK, Objects, Owned, Busy
<1>3. Owned'
  BY DeviceAssumption DEF BootCheck, Booted, FilesInv, DevTypeOK, Objects, Owned, Busy
<1>4. CacheRight'
  BY DeviceAssumption DEF BootCheck, Booted, FilesInv, DevTypeOK, Objects, Owned,
     Busy, CacheRight
<1> QED BY <1>1, <1>2, <1>3, <1>4 DEF FilesInv

LEMMA ShutdownFiles ==
    ASSUME FilesInv, NEW o \in Overlay, Shutdown(o)
    PROVE  FilesInv'
<1>0. DevTypeOK /\ o \in Busy BY DEF Shutdown, FilesInv, Busy
<1>a. CASE gs = Torn
  BY <1>0, <1>a, ReturnEnds, EndsFiles DEF Shutdown, DevTypeOK
<1>b. CASE gs # Torn
  <2>1. DevTypeOK'
    BY <1>b, DeviceAssumption DEF Shutdown, Recorded, FilesInv, DevTypeOK, Busy
  <2>2. Objects' BY <1>b DEF Shutdown, Recorded, FilesInv, DevTypeOK, Objects, Owned
  <2>3. Owned'
    BY <1>b DEF Shutdown, Recorded, FilesInv, DevTypeOK, Owned
  <2>4. CacheRight'
    BY <1>b DEF Shutdown, Recorded, FilesInv, DevTypeOK, CacheRight
  <2> QED BY <2>1, <2>2, <2>3, <2>4 DEF FilesInv
<1> QED BY <1>a, <1>b

LEMMA OpenStateFiles ==
    ASSUME FilesInv, NEW o \in Overlay, OpenState(o)
    PROVE  FilesInv'
<1>1. DevTypeOK'
  BY DeviceAssumption DEF OpenState, FilesInv, DevTypeOK, Objects, Busy, Gap
<1>2. Objects'
  BY DeviceAssumption DEF OpenState, FilesInv, DevTypeOK, Objects, Owned, Busy
<1>3. Owned'
  BY DeviceAssumption DEF OpenState, FilesInv, DevTypeOK, Objects, Owned, Busy
<1>4. CacheRight'
  BY DeviceAssumption DEF OpenState, FilesInv, DevTypeOK, Objects, Owned, Busy,
     CacheRight
<1> QED BY <1>1, <1>2, <1>3, <1>4 DEF FilesInv

LEMMA NoStateFiles ==
    ASSUME FilesInv, NEW o \in Overlay, NoState(o)
    PROVE  FilesInv'
<1>1. DevTypeOK'
  BY DeviceAssumption DEF NoState, AfterState, FilesInv, DevTypeOK, Objects, Busy, Gap
<1>2. Objects'
  BY DeviceAssumption DEF NoState, AfterState, FilesInv, DevTypeOK, Objects, Owned, Busy
<1>3. Owned'
  BY DeviceAssumption DEF NoState, AfterState, FilesInv, DevTypeOK, Objects, Owned, Busy
<1>4. CacheRight'
  BY DeviceAssumption DEF NoState, AfterState, FilesInv, DevTypeOK, Objects, Owned,
     Busy, CacheRight
<1> QED BY <1>1, <1>2, <1>3, <1>4 DEF FilesInv

LEMMA WriteStateFiles ==
    ASSUME FilesInv, NEW o \in Overlay, WriteState(o)
    PROVE  FilesInv'
<1>1. DevTypeOK'
  BY DeviceAssumption DEF WriteState, AfterState, FilesInv, DevTypeOK, Objects,
     Busy, Gap
<1>2. Objects'
  BY DeviceAssumption DEF WriteState, AfterState, FilesInv, DevTypeOK, Objects,
     Owned, Busy
<1>3. Owned'
  BY DeviceAssumption DEF WriteState, AfterState, FilesInv, DevTypeOK, Objects,
     Owned, Busy
<1>4. CacheRight'
  BY DeviceAssumption DEF WriteState, AfterState, FilesInv, DevTypeOK, Objects,
     Owned, Busy, CacheRight
<1> QED BY <1>1, <1>2, <1>3, <1>4 DEF FilesInv

LEMMA OpenMetadataFiles ==
    ASSUME FilesInv, NEW o \in Overlay, OpenMetadata(o)
    PROVE  FilesInv'
<1>1. DevTypeOK'
  BY DeviceAssumption DEF OpenMetadata, FilesInv, DevTypeOK, Objects, Busy, Gap
<1>2. Objects'
  BY DeviceAssumption DEF OpenMetadata, FilesInv, DevTypeOK, Objects, Owned, Busy
<1>3. Owned'
  BY DeviceAssumption DEF OpenMetadata, FilesInv, DevTypeOK, Objects, Owned, Busy
<1>4. CacheRight'
  BY DeviceAssumption DEF OpenMetadata, FilesInv, DevTypeOK, Objects, Owned, Busy,
     CacheRight
<1> QED BY <1>1, <1>2, <1>3, <1>4 DEF FilesInv

LEMMA WriteMetadataFiles ==
    ASSUME FilesInv, NEW o \in Overlay, WriteMetadata(o)
    PROVE  FilesInv'
<1>1. DevTypeOK'
  BY DeviceAssumption DEF WriteMetadata, Pickled, FilesInv, DevTypeOK, Objects,
     Busy, Gap
<1>2. Objects'
  BY DeviceAssumption DEF WriteMetadata, Pickled, FilesInv, DevTypeOK, Objects,
     Owned, Busy
<1>3. Owned'
  BY DeviceAssumption DEF WriteMetadata, Pickled, FilesInv, DevTypeOK, Objects,
     Owned, Busy
<1>4. CacheRight'
  BY DeviceAssumption DEF WriteMetadata, Pickled, FilesInv, DevTypeOK, Objects,
     Owned, Busy, CacheRight
<1> QED BY <1>1, <1>2, <1>3, <1>4 DEF FilesInv

LEMMA ProgramFiles ==
    ASSUME FilesInv, NEW o \in Overlay, Program(o)
    PROVE  FilesInv'
<1>0. /\ DevTypeOK /\ Objects /\ o \in Busy /\ Home[o] \in Process
      /\ bit[o] \in Design
  BY DeviceAssumption DEF Program, FilesInv, Busy, Objects
<1>1. Ends(o)
  <2>1. CASE goal = "bare" BY <1>0, <2>1, ForgetEnds DEF Program
  <2>2. CASE goal # "bare" BY <1>0, <2>2 DEF Program, DevTypeOK, Ends
  <2> QED BY <2>1, <2>2
<1>2. /\ gaps \subseteq gaps' /\ gaps' \subseteq Gap
      /\ fpga' \in Design \cup {None, Torn} /\ fresh' \in BOOLEAN
      /\ by' \in Process \cup {None}
  BY <1>0 DEF Program, DevTypeOK, Gap
<1>3. dname' \in [Process -> Design \cup {None}] BY <1>0 DEF Program, DevTypeOK
<1>4. dtime' \in [Process -> Overlay \cup {None}]
  BY <1>0 DEF Program, NewTime, DevTypeOK
<1> QED BY <1>0, <1>1, <1>2, <1>3, <1>4, EndsFiles DEF Program

LEMMA ProgramFailsFiles ==
    ASSUME FilesInv, NEW o \in Overlay, ProgramFails(o)
    PROVE  FilesInv'
<1>0. DevTypeOK /\ Objects /\ o \in Busy /\ bit[o] \in Design
  BY DEF ProgramFails, FilesInv, Busy, Objects
<1>1. Ends(o) BY <1>0, ForgetEnds, ReturnEnds DEF ProgramFails
<1>2. /\ gaps \subseteq gaps' /\ gaps' \subseteq Gap
      /\ fpga' \in Design \cup {None, Torn} /\ fresh' \in BOOLEAN
      /\ by' \in Process \cup {None}
  BY <1>0 DEF ProgramFails, DevTypeOK, Gap
<1> QED BY <1>0, <1>1, <1>2, EndsFiles DEF ProgramFails, DevTypeOK

LEMMA ResetFiles ==
    ASSUME FilesInv, Reset
    PROVE  FilesInv'
<1>1. DevTypeOK'
  BY DeviceAssumption DEF Reset, FilesInv, DevTypeOK, Objects, Busy, Gap
<1>2. Objects'
  BY DeviceAssumption DEF Reset, FilesInv, DevTypeOK, Objects, Owned, Busy
<1>3. Owned'
  BY DeviceAssumption DEF Reset, FilesInv, DevTypeOK, Objects, Owned, Busy
<1>4. CacheRight'
  BY DeviceAssumption DEF Reset, FilesInv, DevTypeOK, Objects, Owned, Busy, CacheRight
<1> QED BY <1>1, <1>2, <1>3, <1>4 DEF FilesInv

LEMMA DefaultMemoryFiles ==
    ASSUME FilesInv, NEW p \in Process, DefaultMemory(p)
    PROVE  FilesInv'
<1>1. DevTypeOK'
  BY DeviceAssumption DEF DefaultMemory, Booted, FilesInv, DevTypeOK, Objects, Busy, Gap
<1>2. Objects'
  BY DeviceAssumption DEF DefaultMemory, Booted, FilesInv, DevTypeOK, Objects,
     Owned, Busy
<1>3. Owned'
  BY DeviceAssumption DEF DefaultMemory, Booted, FilesInv, DevTypeOK, Objects,
     Owned, Busy
<1>4. CacheRight'
  BY DeviceAssumption DEF DefaultMemory, Booted, FilesInv, DevTypeOK, Objects,
     Owned, Busy, CacheRight
<1> QED BY <1>1, <1>2, <1>3, <1>4 DEF FilesInv

(* A death: what the Overlays that stay see of it.                         *)
LEMMA DieFiles ==
    ASSUME FilesInv, NEW P \in SUBSET Process, Die(P), UNCHANGED <<files, goal>>,
           fpga' \in {fpga, None}, fresh' \in {fresh, TRUE}, by' \in {by, None}
    PROVE  FilesInv'
<1>0. DevTypeOK /\ Objects BY DEF FilesInv
<1>1. DevTypeOK'
  <2>1. \A p, q \in Busy' : p = q BY <1>0, DieEffect DEF DevTypeOK, Busy
  <2> QED BY <1>0, <2>1, DieType DEF DevTypeOK, Busy
<1>2. Objects' BY <1>0, DieEffect DEF Objects
<1>3. Owned' BY <1>0, DieEffect DEF FilesInv, Owned
<1>4. CacheRight'
  <2>1. ASSUME NEW o \in Overlay, place[o] = "dump", place'[o] # place[o]
        PROVE  "metadata" \in gaps'
    BY <1>0, <2>1, DieEffect DEF Owed
  <2> QED BY <1>0, <2>1, DieEffect DEF FilesInv, CacheRight, Die
<1> QED BY <1>1, <1>2, <1>3, <1>4 DEF FilesInv

LEMMA NextFiles == FilesInv /\ [DevNext]_devVars => FilesInv'
<1> SUFFICES ASSUME FilesInv, [DevNext]_devVars PROVE FilesInv'
  OBVIOUS
<1>1. CASE UNCHANGED devVars
  BY <1>1 DEF devVars, FilesInv, DevTypeOK, Objects, Owned, CacheRight, Busy
<1>2. ASSUME NEW o \in Overlay, NEW d \in Design, NEW g \in {"make", "cache", "load"},
             Create(o, d, g)
      PROVE  FilesInv'
  BY <1>2, CreateFiles
<1>9. ASSUME NEW o \in Overlay, NEW d \in Design, Bare(o, d) PROVE FilesInv'
  BY <1>9, BareFiles
<1>3. ASSUME NEW o \in Overlay, NEW g \in {"cache", "load"}, Call(o, g) PROVE FilesInv'
  BY <1>3, CallFiles
<1>4. ASSUME NEW o \in Overlay,
             \/ CompareHash(o) \/ Unpickle(o) \/ BootCheck(o) \/ Shutdown(o)
             \/ OpenState(o) \/ NoState(o) \/ WriteState(o)
             \/ OpenMetadata(o) \/ WriteMetadata(o) \/ Program(o) \/ ProgramFails(o)
      PROVE  FilesInv'
  BY <1>4, CompareHashFiles, UnpickleFiles, BootCheckFiles, ShutdownFiles,
     OpenStateFiles, NoStateFiles, WriteStateFiles, OpenMetadataFiles, WriteMetadataFiles,
     ProgramFiles, ProgramFailsFiles
<1>5. ASSUME NEW p \in Process, DefaultMemory(p) PROVE FilesInv'
  BY <1>5, DefaultMemoryFiles
<1>6. ASSUME NEW p \in Process, Kill(p) PROVE FilesInv'
  BY <1>6, DieFiles DEF Kill
<1>7. CASE Reset BY <1>7, ResetFiles
<1>8. CASE Reboot BY <1>8, DieFiles DEF Reboot
<1> QED BY <1>1, <1>2, <1>3, <1>4, <1>5, <1>6, <1>7, <1>8, <1>9 DEF DevNext

(* The files are never trusted beyond what their writers finished.         *)
LEMMA FilesInvariant == DevSpec => []FilesInv
<1>1. FilesInv /\ [DevNext]_devVars => FilesInv' BY NextFiles
<1> QED BY <1>1, InitFiles, PTL DEF DevSpec

(* Types, and no two calls at once.                                        *)
THEOREM TypeCorrect == DevSpec => []DevTypeOK
<1>1. FilesInv => DevTypeOK BY DEF FilesInv
<1> QED BY <1>1, FilesInvariant, PTL

(* Global state and metadata describe one design, unless a writer died     *)
(* between them, a Bitstream without a parser was downloaded or a deleted  *)
(* bitstream was (CacheRight).                                             *)
THEOREM CacheCorrect == DevSpec => []CacheRight
<1>1. FilesInv => CacheRight BY DEF FilesInv
<1> QED BY <1>1, FilesInvariant, PTL

(* Made alone takes an Overlay from "unpickle", with the metadata that     *)
(* goes with its own bitstream (MetadataRight).                            *)
LEMMA MetadataStep ==
    ASSUME FilesInv, [DevNext]_devVars, NEW o \in Overlay,
           place[o] = "unpickle", place'[o] \notin {"none", "unpickle"},
           gaps \cap {"metadata", "bare", "gone"} = {}
    PROVE  meta'[o] = bit[o]
<1>0. DevTypeOK BY DEF FilesInv
<1>1. CASE Unpickle(o)
  <2>1. gs = bit[o] /\ bit[o] \in Design BY DEF FilesInv, Owned, Objects
  <2>2. \A q \in Overlay : place[q] # "dump" BY <1>0, Alone
  <2>3. md \in Design => md = bit[o] BY <2>1, <2>2 DEF FilesInv, CacheRight
  <2> QED BY <1>0, <1>1, <2>3 DEF Unpickle, Made, DevTypeOK
<1>2. ASSUME place'[o] # place[o], place'[o] # "none" PROVE Unpickle(o)
  <2>1. ASSUME NEW q \in Overlay,
               \/ CompareHash(q) \/ BootCheck(q) \/ Shutdown(q)
               \/ OpenState(q) \/ NoState(q) \/ WriteState(q)
               \/ OpenMetadata(q) \/ WriteMetadata(q) \/ Program(q) \/ ProgramFails(q)
        PROVE  FALSE
    <3>1. q # o
      BY <2>1 DEF CompareHash, BootCheck, Shutdown, OpenState, NoState, WriteState,
         OpenMetadata, WriteMetadata, Program, ProgramFails
    <3>2. place[q] \in {"none", "made"} BY <1>0, <3>1, Alone
    <3> QED
      BY <2>1, <3>2 DEF CompareHash, BootCheck, Shutdown, OpenState, NoState,
         WriteState,
         OpenMetadata, WriteMetadata, Program, ProgramFails
  <2>2. ASSUME NEW q \in Overlay, Unpickle(q) PROVE q = o
    BY <1>0, <1>2, <2>2 DEF Unpickle, Made, DevTypeOK
  <2>3. ASSUME NEW q \in Overlay, NEW d \in Design, NEW g \in {"make", "cache", "load"},
               Create(q, d, g)
        PROVE  FALSE
    BY <1>0, <1>2, <2>3 DEF Create, Busy
  <2>8. ASSUME NEW q \in Overlay, NEW d \in Design, Bare(q, d) PROVE FALSE
    BY <1>0, <1>2, <2>8 DEF Bare, Busy
  <2>4. ASSUME NEW q \in Overlay, NEW g \in {"cache", "load"}, Call(q, g) PROVE FALSE
    BY <1>0, <1>2, <2>4 DEF Call, Busy
  <2>5. ASSUME NEW p \in Process, Kill(p) \/ DefaultMemory(p) PROVE FALSE
    BY <1>0, <1>2, <2>5, DieEffect DEF Kill, DefaultMemory, FilesInv
  <2>6. CASE Reset \/ Reboot
    BY <1>0, <1>2, <2>6, DieEffect DEF Reset, Reboot, FilesInv
  <2>7. CASE UNCHANGED devVars BY <1>2, <2>7 DEF devVars
  <2> QED BY <2>1, <2>2, <2>3, <2>4, <2>5, <2>6, <2>7, <2>8 DEF DevNext
<1> QED BY <1>1, <1>2

(* An Overlay is never made with the dictionaries of another design, but   *)
(* for the exceptions of CacheRight.                                       *)
THEOREM MetadataCorrect == DevSpec => MetadataRight
<1> DEFINE Right ==
      \A o \in Overlay :
          place[o] = "unpickle" /\ place'[o] \notin {"none", "unpickle"}
          /\ gaps \cap {"metadata", "bare", "gone"} = {}
              => meta'[o] = bit[o]
<1>1. FilesInv /\ [DevNext]_devVars => [Right]_devVars BY MetadataStep
<1> QED BY <1>1, FilesInvariant, PTL DEF MetadataRight, DevSpec
-----------------------------------------------------------------------------
(* What each action does for the FPGA.                                     *)
LEMMA CreateFpga ==
    ASSUME FpgaInv, NEW o \in Overlay, NEW d \in Design,
           NEW g \in {"make", "cache", "load"}, Create(o, d, g)
    PROVE  (Purpose /\ Explained /\ Checked)'
<1>0. DevTypeOK /\ \A q \in Overlay : place[q] \in {"none", "made"}
  BY DEF Create, FpgaInv, FilesInv, Busy
<1>1. Purpose' BY <1>0 DEF Create, FpgaInv, DevTypeOK, Purpose
<1>2. Explained' BY <1>0 DEF Create, FpgaInv, DevTypeOK, Explained, Excused
<1>3. Checked' BY <1>0 DEF Create, FpgaInv, DevTypeOK, Checked
<1> QED BY <1>1, <1>2, <1>3

LEMMA BareFpga ==
    ASSUME FpgaInv, NEW o \in Overlay, NEW d \in Design, Bare(o, d)
    PROVE  (Purpose /\ Explained /\ Checked)'
<1>0. DevTypeOK /\ \A q \in Overlay : place[q] \in {"none", "made"}
  BY DEF Bare, FpgaInv, FilesInv, Busy
<1>1. Purpose' BY <1>0 DEF Bare, FpgaInv, DevTypeOK, Purpose
<1>2. Explained' BY <1>0 DEF Bare, FpgaInv, DevTypeOK, Explained, Excused
<1>3. Checked' BY <1>0 DEF Bare, FpgaInv, DevTypeOK, Checked
<1> QED BY <1>1, <1>2, <1>3

LEMMA CallFpga ==
    ASSUME FpgaInv, NEW o \in Overlay, NEW g \in {"cache", "load"}, Call(o, g)
    PROVE  (Purpose /\ Explained /\ Checked)'
<1>0. DevTypeOK /\ \A q \in Overlay : place[q] \in {"none", "made"}
  BY DEF Call, FpgaInv, FilesInv, Busy
<1>1. Purpose' BY <1>0 DEF Call, FpgaInv, DevTypeOK, Purpose
<1>2. Explained' BY <1>0 DEF Call, FpgaInv, DevTypeOK, Explained, Excused
<1>3. Checked' BY <1>0 DEF Call, FpgaInv, DevTypeOK, Checked
<1> QED BY <1>1, <1>2, <1>3

LEMMA CompareHashFpga ==
    ASSUME FpgaInv, NEW o \in Overlay, CompareHash(o)
    PROVE  (Purpose /\ Explained /\ Checked)'
<1>0. DevTypeOK /\ Objects /\ Owned BY DEF FpgaInv, FilesInv
<1>1. /\ \A q \in Overlay \ {o} : place[q] \in {"none", "made"}
      /\ \A q \in Overlay \ {o} : place'[q] = place[q] /\ cached'[q] = cached[q]
  BY <1>0, Alone DEF CompareHash, Made, CacheExists, DevTypeOK
<1>2. Purpose'
  BY <1>0, <1>1 DEF CompareHash, Made, CacheExists, FpgaInv, DevTypeOK, Owned, Purpose
<1>3. Explained'
  BY <1>0, <1>1, DeviceAssumption DEF CompareHash, Made, CacheExists, FpgaInv,
     DevTypeOK, Objects, Owned,
     Purpose, Explained, Excused
<1>4. Checked'
  BY <1>0, <1>1, DeviceAssumption DEF CompareHash, Made, CacheExists, FpgaInv,
     DevTypeOK, Objects, Owned, Checked
<1> QED BY <1>2, <1>3, <1>4

LEMMA UnpickleFpga ==
    ASSUME FpgaInv, NEW o \in Overlay, Unpickle(o)
    PROVE  (Purpose /\ Explained /\ Checked)'
<1>0. DevTypeOK /\ Objects /\ Owned BY DEF FpgaInv, FilesInv
<1>1. /\ \A q \in Overlay \ {o} : place[q] \in {"none", "made"}
      /\ \A q \in Overlay \ {o} : place'[q] = place[q] /\ cached'[q] = cached[q]
  BY <1>0, Alone DEF Unpickle, Made, DevTypeOK
<1>2. Purpose' BY <1>0, <1>1 DEF Unpickle, Made, FpgaInv, DevTypeOK, Owned, Purpose
<1>3. Explained'
  BY <1>0, <1>1, DeviceAssumption DEF Unpickle, Made, FpgaInv, DevTypeOK, Objects,
     Owned,
     Purpose, Explained, Excused
<1>4. Checked'
  BY <1>0, <1>1, DeviceAssumption DEF Unpickle, Made, FpgaInv, DevTypeOK, Objects,
     Owned, Checked
<1> QED BY <1>2, <1>3, <1>4

LEMMA BootCheckFpga ==
    ASSUME FpgaInv, NEW o \in Overlay, BootCheck(o)
    PROVE  (Purpose /\ Explained /\ Checked)'
<1>0. DevTypeOK /\ Objects /\ Owned BY DEF FpgaInv, FilesInv
<1>1. /\ \A q \in Overlay \ {o} : place[q] \in {"none", "made"}
      /\ \A q \in Overlay \ {o} : place'[q] = place[q] /\ cached'[q] = cached[q]
  BY <1>0, Alone DEF BootCheck, Booted, DevTypeOK
<1>2. Purpose' BY <1>0, <1>1 DEF BootCheck, Booted, FpgaInv, DevTypeOK, Owned, Purpose
<1>3. Explained'
  BY <1>0, <1>1, DeviceAssumption DEF BootCheck, Booted, FpgaInv, DevTypeOK,
     Objects, Owned,
     Purpose, Explained, Excused
<1>4. Checked'
  BY <1>0, <1>1, DeviceAssumption DEF BootCheck, Booted, FpgaInv, DevTypeOK,
     Objects, Owned, Checked
<1> QED BY <1>2, <1>3, <1>4

LEMMA OpenStateFpga ==
    ASSUME FpgaInv, NEW o \in Overlay, OpenState(o)
    PROVE  (Purpose /\ Explained /\ Checked)'
<1>0. DevTypeOK /\ Objects /\ Owned BY DEF FpgaInv, FilesInv
<1>1. /\ \A q \in Overlay \ {o} : place[q] \in {"none", "made"}
      /\ \A q \in Overlay \ {o} : place'[q] = place[q] /\ cached'[q] = cached[q]
  BY <1>0, Alone DEF OpenState, DevTypeOK
<1>2. Purpose' BY <1>0, <1>1 DEF OpenState, FpgaInv, DevTypeOK, Owned, Purpose
<1>3. Explained'
  BY <1>0, <1>1, DeviceAssumption DEF OpenState, FpgaInv, DevTypeOK, Objects, Owned,
     Purpose, Explained, Excused
<1>4. Checked'
  BY <1>0, <1>1, DeviceAssumption DEF OpenState, FpgaInv, DevTypeOK, Objects,
     Owned, Checked
<1> QED BY <1>2, <1>3, <1>4

LEMMA NoStateFpga ==
    ASSUME FpgaInv, NEW o \in Overlay, NoState(o)
    PROVE  (Purpose /\ Explained /\ Checked)'
<1>0. DevTypeOK /\ Objects /\ Owned BY DEF FpgaInv, FilesInv
<1>1. /\ \A q \in Overlay \ {o} : place[q] \in {"none", "made"}
      /\ \A q \in Overlay \ {o} : place'[q] = place[q] /\ cached'[q] = cached[q]
  BY <1>0, Alone DEF NoState, AfterState, DevTypeOK
<1>2. Purpose' BY <1>0, <1>1 DEF NoState, AfterState, FpgaInv, DevTypeOK, Owned, Purpose
<1>3. Explained'
  BY <1>0, <1>1, DeviceAssumption DEF NoState, AfterState, FpgaInv, DevTypeOK,
     Objects, Owned,
     Purpose, Explained, Excused
<1>4. Checked'
  BY <1>0, <1>1, DeviceAssumption DEF NoState, AfterState, FpgaInv, DevTypeOK,
     Objects, Owned, Checked
<1> QED BY <1>2, <1>3, <1>4

LEMMA WriteStateFpga ==
    ASSUME FpgaInv, NEW o \in Overlay, WriteState(o)
    PROVE  (Purpose /\ Explained /\ Checked)'
<1>0. DevTypeOK /\ Objects /\ Owned BY DEF FpgaInv, FilesInv
<1>1. /\ \A q \in Overlay \ {o} : place[q] \in {"none", "made"}
      /\ \A q \in Overlay \ {o} : place'[q] = place[q] /\ cached'[q] = cached[q]
  BY <1>0, Alone DEF WriteState, AfterState, DevTypeOK
<1>2. Purpose'
  BY <1>0, <1>1 DEF WriteState, AfterState, FpgaInv, DevTypeOK, Owned, Purpose
<1>3. Explained'
  BY <1>0, <1>1, DeviceAssumption DEF WriteState, AfterState, FpgaInv, DevTypeOK,
     Objects, Owned,
     Purpose, Explained, Excused
<1>4. Checked'
  BY <1>0, <1>1, DeviceAssumption DEF WriteState, AfterState, FpgaInv, DevTypeOK,
     Objects, Owned, Checked
<1> QED BY <1>2, <1>3, <1>4

LEMMA OpenMetadataFpga ==
    ASSUME FpgaInv, NEW o \in Overlay, OpenMetadata(o)
    PROVE  (Purpose /\ Explained /\ Checked)'
<1>0. DevTypeOK /\ Objects /\ Owned BY DEF FpgaInv, FilesInv
<1>1. /\ \A q \in Overlay \ {o} : place[q] \in {"none", "made"}
      /\ \A q \in Overlay \ {o} : place'[q] = place[q] /\ cached'[q] = cached[q]
  BY <1>0, Alone DEF OpenMetadata, DevTypeOK
<1>2. Purpose' BY <1>0, <1>1 DEF OpenMetadata, FpgaInv, DevTypeOK, Owned, Purpose
<1>3. Explained'
  BY <1>0, <1>1, DeviceAssumption DEF OpenMetadata, FpgaInv, DevTypeOK, Objects, Owned,
     Purpose, Explained, Excused
<1>4. Checked'
  BY <1>0, <1>1, DeviceAssumption DEF OpenMetadata, FpgaInv, DevTypeOK, Objects,
     Owned, Checked
<1> QED BY <1>2, <1>3, <1>4

LEMMA WriteMetadataFpga ==
    ASSUME FpgaInv, NEW o \in Overlay, WriteMetadata(o)
    PROVE  (Purpose /\ Explained /\ Checked)'
<1>0. DevTypeOK /\ Objects /\ Owned BY DEF FpgaInv, FilesInv
<1>1. /\ \A q \in Overlay \ {o} : place[q] \in {"none", "made"}
      /\ \A q \in Overlay \ {o} : place'[q] = place[q] /\ cached'[q] = cached[q]
  BY <1>0, Alone DEF WriteMetadata, Pickled, DevTypeOK
<1>2. Purpose'
  BY <1>0, <1>1 DEF WriteMetadata, Pickled, FpgaInv, DevTypeOK, Owned, Purpose
<1>3. Explained'
  BY <1>0, <1>1, DeviceAssumption DEF WriteMetadata, Pickled, FpgaInv, DevTypeOK,
     Objects, Owned,
     Purpose, Explained, Excused
<1>4. Checked'
  BY <1>0, <1>1, DeviceAssumption DEF WriteMetadata, Pickled, FpgaInv, DevTypeOK,
     Objects, Owned, Checked
<1> QED BY <1>2, <1>3, <1>4

(* The end of a call: the others are not at work.                          *)
LEMMA EndsFpga ==
    ASSUME FpgaInv, NEW o \in Overlay, o \in Busy, Ends(o), goal' = goal, gs' = gs,
           fresh' => fpga' = None,
           gs \in Design => gs = fpga' \/ fresh' \/ Excused'
    PROVE  (Purpose /\ Explained /\ Checked)'
<1>1. \A q \in Overlay : place'[q] \in {"none", "made"}
  BY Alone DEF FpgaInv, FilesInv, Busy, Ends
<1> QED BY <1>1 DEF Purpose, Explained, Checked

LEMMA ShutdownFpga ==
    ASSUME FpgaInv, NEW o \in Overlay, Shutdown(o)
    PROVE  (Purpose /\ Explained /\ Checked)'
<1>0. DevTypeOK /\ Objects /\ Owned /\ o \in Busy
  BY DEF Shutdown, FpgaInv, FilesInv, Busy
<1>1. CASE gs = Torn
  BY <1>0, <1>1, DeviceAssumption, ReturnEnds, EndsFpga DEF Shutdown, FpgaInv, Purpose
<1>2. CASE gs # Torn
  <2>1. /\ \A q \in Overlay \ {o} : place[q] \in {"none", "made"}
        /\ \A q \in Overlay \ {o} : place'[q] = place[q]
        /\ place'[o] \in {"program", "save"} /\ cached' = cached
    BY <1>0, <1>2, Alone DEF Shutdown, DevTypeOK
  <2>2. UNCHANGED <<fpga, fresh, gs, goal, gaps>> /\ place[o] = "shutdown"
    BY DEF Shutdown
  <2>3. Purpose' BY <2>1, <2>2 DEF FpgaInv, Purpose
  <2>4. Explained' BY <2>1, <2>2 DEF FpgaInv, Explained, Excused
  <2>5. Checked' BY <2>1, <2>2 DEF Checked
  <2> QED BY <2>3, <2>4, <2>5
<1> QED BY <1>1, <1>2

LEMMA ProgramFpga ==
    ASSUME FpgaInv, NEW o \in Overlay, Program(o)
    PROVE  (Purpose /\ Explained /\ Checked)'
<1>0. DevTypeOK /\ Objects /\ Owned /\ o \in Busy
  BY DEF Program, FpgaInv, FilesInv, Busy
<1>1. Ends(o)
  <2>1. CASE goal = "bare" BY <1>0, <2>1, ForgetEnds DEF Program
  <2>2. CASE goal # "bare" BY <1>0, <2>2 DEF Program, DevTypeOK, Ends
  <2> QED BY <2>1, <2>2
<1>2. gs = fpga' \/ Excused'
  BY <1>0 DEF Program, Again, Owned, Excused
<1> QED BY <1>0, <1>1, <1>2, EndsFpga DEF Program

LEMMA ProgramFailsFpga ==
    ASSUME FpgaInv, NEW o \in Overlay, ProgramFails(o)
    PROVE  (Purpose /\ Explained /\ Checked)'
<1>0. DevTypeOK /\ o \in Busy BY DEF ProgramFails, FpgaInv, FilesInv, Busy
<1>1. Ends(o) BY <1>0, ForgetEnds, ReturnEnds DEF ProgramFails
<1>2. Excused' BY DEF ProgramFails, Excused
<1>3. fresh' => fpga' = None BY <1>0 DEF ProgramFails, FpgaInv, Purpose, DevTypeOK
<1> QED BY <1>0, <1>1, <1>2, <1>3, EndsFpga DEF ProgramFails

LEMMA DieFpga ==
    ASSUME FpgaInv, NEW P \in SUBSET Process, Die(P), UNCHANGED <<files, goal>>,
           \/ UNCHANGED <<fpga, fresh>>
           \/ fpga' = None /\ fresh' = TRUE /\ P = Process
    PROVE  (Purpose /\ Explained /\ Checked)'
<1>0. DevTypeOK /\ Objects /\ Owned BY DEF FpgaInv, FilesInv
<1>a. ASSUME NEW o \in Overlay, place'[o] # "none"
      PROVE  /\ place'[o] = place[o] /\ cached'[o] = cached[o]
             /\ UNCHANGED <<fpga, fresh>>
  <2>1. Home[o] \in Process BY DeviceAssumption
  <2> QED BY <1>0, <1>a, <2>1, DieEffect
<1>1. Purpose'
  <2>1. ASSUME NEW o \in Overlay,
               place'[o] \in {"save", "write", "dump", "pickle", "boot", "shutdown",
                             "program"}
        PROVE  place'[o] # "none"
    BY <2>1
  <2>2. fresh' => fpga' = None BY DEF FpgaInv, Purpose
  <2> QED BY <1>a, <2>1, <2>2 DEF FpgaInv, Purpose
<1>2. Explained'
  <2>1. ASSUME NEW o \in Overlay, place'[o] # place[o] PROVE Owed(o) \subseteq gaps'
    BY <1>0, <2>1, DieEffect
  <2>2. gaps \subseteq gaps' BY DEF Die
  <2>3. ASSUME NEW o \in Overlay, place[o] \in {"dump", "pickle"}, goal # "cache"
        PROVE  place'[o] = place[o] \/ "fpga" \in gaps'
    BY <1>0, <2>1, <2>3 DEF Owed, Owned
  <2>4. ASSUME NEW o \in Overlay, place[o] = "program", ~cached[o]
        PROVE  (place'[o] = place[o] /\ ~cached'[o]) \/ "fpga" \in gaps'
    <3>1. CASE place'[o] = place[o] BY <1>a, <2>4, <3>1
    <3>2. CASE place'[o] # place[o]
      BY <2>1, <2>4, <3>2 DEF Owed, FpgaInv, Purpose
    <3> QED BY <3>1, <3>2
  <2> QED BY <2>2, <2>3, <2>4 DEF FpgaInv, Explained, Excused
<1>3. Checked'
  <2>2. ASSUME NEW o \in Overlay, place'[o] = "shutdown" PROVE place'[o] # "none"
    BY <2>2
  <2> QED BY <1>a, <2>2 DEF FpgaInv, Checked
<1> QED BY <1>1, <1>2, <1>3

LEMMA NextFpga == FpgaInv /\ [DevNext]_devVars => FpgaInv'
<1> SUFFICES ASSUME FpgaInv, [DevNext]_devVars
             PROVE  (Purpose /\ Explained /\ Checked)'
  BY NextFiles DEF FpgaInv
<1>0. Purpose /\ Explained /\ Checked BY DEF FpgaInv
<1>1. CASE UNCHANGED devVars
  BY <1>0, <1>1 DEF devVars, Purpose, Explained, Excused, Checked
<1>2. ASSUME NEW o \in Overlay, NEW d \in Design, NEW g \in {"make", "cache", "load"},
             Create(o, d, g)
      PROVE  (Purpose /\ Explained /\ Checked)'
  BY <1>2, CreateFpga
<1>8. ASSUME NEW o \in Overlay, NEW d \in Design, Bare(o, d)
      PROVE  (Purpose /\ Explained /\ Checked)'
  BY <1>8, BareFpga
<1>3. ASSUME NEW o \in Overlay, NEW g \in {"cache", "load"}, Call(o, g)
      PROVE  (Purpose /\ Explained /\ Checked)'
  BY <1>3, CallFpga
<1>4. ASSUME NEW o \in Overlay,
             \/ CompareHash(o) \/ Unpickle(o) \/ BootCheck(o) \/ Shutdown(o)
             \/ OpenState(o) \/ NoState(o) \/ WriteState(o)
             \/ OpenMetadata(o) \/ WriteMetadata(o) \/ Program(o) \/ ProgramFails(o)
      PROVE  (Purpose /\ Explained /\ Checked)'
  BY <1>4, CompareHashFpga, UnpickleFpga, BootCheckFpga, ShutdownFpga, OpenStateFpga,
     NoStateFpga, WriteStateFpga, OpenMetadataFpga, WriteMetadataFpga, ProgramFpga,
     ProgramFailsFpga
<1>5. CASE Reset \/ \E p \in Process : DefaultMemory(p)
  <2>1. gs' = None /\ UNCHANGED <<fpga, fresh, place, goal>>
    BY <1>5 DEF Reset, DefaultMemory
  <2> QED BY <1>0, <2>1, DeviceAssumption DEF Purpose, Explained, Checked
<1>6. ASSUME NEW p \in Process, Kill(p) PROVE (Purpose /\ Explained /\ Checked)'
  BY <1>6, DieFpga DEF Kill
<1>7. CASE Reboot BY <1>7, DieFpga DEF Reboot
<1> QED BY <1>1, <1>2, <1>3, <1>4, <1>5, <1>6, <1>7, <1>8 DEF DevNext

LEMMA FpgaInvariant == DevSpec => []FpgaInv
<1>1. DevInit => FpgaInv
  BY InitFiles, DeviceAssumption DEF FpgaInv, DevInit, Purpose, Explained, Checked
<1>2. FpgaInv /\ [DevNext]_devVars => FpgaInv' BY NextFpga
<1> QED BY <1>1, <1>2, PTL DEF DevSpec

(* Between calls the global state names the design in the FPGA             *)
(* (global_state.py:30-31), with the exceptions that StateExplained lists. *)
THEOREM StateCorrect == DevSpec => []StateExplained
<1>1. FpgaInv => StateExplained
  BY DEF FpgaInv, Purpose, Explained, Excused, StateExplained, Busy
<1> QED BY <1>1, FpgaInvariant, PTL

(* The shutdown managers that a download writes to are in the FPGA, with   *)
(* the exceptions that ShutdownRight lists; a reboot is none of them.      *)
THEOREM ShutdownCorrect == DevSpec => []ShutdownRight
<1>1. ASSUME FpgaInv, NEW o \in Overlay, place[o] = "shutdown", gs \in Design
      PROVE  gs = fpga \/ Excused
  <2>1. \A q \in Overlay : place[q] \notin {"dump", "pickle", "program"}
    BY <1>1, Alone DEF FpgaInv, FilesInv
  <2> QED BY <1>1, <2>1 DEF FpgaInv, Explained, Checked
<1>2. FpgaInv => ShutdownRight BY <1>1 DEF ShutdownRight, Excused
<1> QED BY <1>2, FpgaInvariant, PTL

-----------------------------------------------------------------------------
(* is_loaded() of an Overlay that was downloaded.                          *)
LEMMA InitLoaded == DevInit => Loaded
BY DEF DevInit, Loaded

LEMMA NextLoaded == FilesInv /\ Loaded /\ [DevNext]_devVars => Loaded'
<1> SUFFICES ASSUME FilesInv, Loaded, [DevNext]_devVars PROVE Loaded'
  OBVIOUS
<1>0. DevTypeOK /\ Objects BY DEF FilesInv
<1>1. CASE UNCHANGED devVars BY <1>1 DEF devVars, Loaded
<1>2. ASSUME NEW o \in Overlay, NEW d \in Design, NEW g \in {"make", "cache", "load"},
             Create(o, d, g)
      PROVE  Loaded'
  BY <1>0, <1>2 DEF Create, Loaded, DevTypeOK, Objects
<1>11. ASSUME NEW o \in Overlay, NEW d \in Design, Bare(o, d) PROVE Loaded'
  BY <1>0, <1>11 DEF Bare, Loaded, DevTypeOK, Objects
<1>3. ASSUME NEW o \in Overlay, NEW g \in {"cache", "load"}, Call(o, g) PROVE Loaded'
  BY <1>3 DEF Call, Loaded
<1>4. ASSUME NEW o \in Overlay, CompareHash(o) \/ Unpickle(o) PROVE Loaded'
  <2>1. \A q \in Overlay : stamped'[q] => stamped[q] /\ bit'[q] = bit[q]
    <3>1. CASE Unpickle(o) BY <3>1 DEF Unpickle, Made
    <3>2. CASE CompareHash(o) BY <3>2 DEF CompareHash, Made
    <3> QED BY <1>4, <3>1, <3>2
  <2> QED BY <1>4, <2>1 DEF CompareHash, Unpickle, Loaded
<1>5. ASSUME NEW o \in Overlay,
             \/ BootCheck(o) \/ OpenState(o) \/ NoState(o) \/ WriteState(o)
             \/ OpenMetadata(o) \/ WriteMetadata(o)
      PROVE  Loaded'
  BY <1>5 DEF BootCheck, OpenState, NoState, WriteState, OpenMetadata, WriteMetadata,
     Loaded
<1>12. ASSUME NEW o \in Overlay, Shutdown(o) PROVE Loaded'
  <2>1. \A q \in Overlay : stamped'[q] => stamped[q] /\ bit'[q] = bit[q]
    BY <1>12 DEF Shutdown, Return
  <2> QED BY <1>12, <2>1 DEF Shutdown, Loaded
<1>6. ASSUME NEW o \in Overlay, Program(o) PROVE Loaded'
  <2>1. Home[o] \in Process BY DeviceAssumption
  <2>2. \A q \in Overlay :
           /\ stamped'[q] => bit'[q] = bit[q]
           /\ stamped'[q] /\ q # o => stamped[q]
    BY <1>0, <1>6 DEF Program, DevTypeOK
  <2>3. /\ dtime'[Home[o]] = o /\ by' = Home[o] /\ fpga' = bit[o]
    BY <1>0, <1>6, <2>1 DEF Program, NewTime, DevTypeOK
  <2> QED BY <2>2, <2>3 DEF Loaded
<1>7. ASSUME NEW o \in Overlay, ProgramFails(o) PROVE Loaded'
  <2>1. \A q \in Overlay : Home[q] # None BY DeviceAssumption
  <2>2. \A q \in Overlay : stamped'[q] => stamped[q] /\ bit'[q] = bit[q]
    BY <1>7 DEF ProgramFails, Return
  <2> QED BY <1>7, <2>1, <2>2 DEF ProgramFails, Loaded
<1>8. CASE Reset \/ \E p \in Process : DefaultMemory(p)
  BY <1>8 DEF Reset, DefaultMemory, Loaded
<1>9. ASSUME NEW p \in Process, Kill(p) PROVE Loaded'
  BY <1>0, <1>9, DeviceAssumption DEF Kill, Die, Loaded, DevTypeOK
<1>10. CASE Reboot
  BY <1>10, DeviceAssumption DEF Reboot, Die, Loaded
<1> QED BY <1>1, <1>2, <1>3, <1>4, <1>5, <1>6, <1>7, <1>8, <1>9, <1>10, <1>11,
       <1>12 DEF DevNext

(* An Overlay that was downloaded and says it is loaded is, unless a       *)
(* download failed or another process wrote to the FPGA since.             *)
THEOREM LoadedCorrect == DevSpec => []LoadedRight
<1>1. FilesInv /\ Loaded /\ [DevNext]_devVars => (FilesInv /\ Loaded)'
  BY NextFiles, NextLoaded
<1>2. Loaded => LoadedRight BY DEF Loaded, LoadedRight, IsLoaded
<1> QED BY <1>1, <1>2, InitFiles, InitLoaded, PTL DEF DevSpec

-----------------------------------------------------------------------------
(* Interrupts when the overlay is replaced (IntcOverlay), for any number   *)
(* of Interrupts, lines and overlays.                                      *)

(* The parts of the state, without the hardware.                           *)
Kinds ==
    /\ epoch \in Epoch /\ last \in Epoch \cup {Unset} /\ controllers \subseteq Epoch
    /\ obj \in [Intr -> {Unset} \cup (Epoch \X Line)]
    /\ handles \in [Epoch -> SUBSET Intr]
    /\ waiting \subseteq Intr /\ suspended \subseteq Intr /\ pended \subseteq Epoch
    /\ wait_events \in Seq(Epoch) /\ current \in Seq(Epoch)

(* Only controllers of the overlay that get_controller saw last are kept.  *)
Known == controllers = IF last = Unset THEN {} ELSE {last}

(* The controllers on the UIO's list, or taken from it.                    *)
Listed == ToSet(wait_events) \cup ToSet(current)

(* One with waiters is among them, and an old one has outlived its overlay.*)
Registered ==
    /\ \A g \in Epoch : handles[g] # {} => g \in Listed
    /\ Listed \subseteq {epoch} \cup pended

(* An Interrupt that is awaited, or whose event is not set, is registered  *)
(* with its controller.                                                    *)
Enlisted ==
    \A i \in Intr : i \in suspended \/ i \in waiting \ flag
                      => obj[i] # Unset /\ i \in handles[GenOf(i)]

OvInv == Kinds /\ Known /\ Registered /\ Enlisted

(* The elements of lists.                                                  *)
LEMMA Elements ==
    ASSUME NEW S, NEW s \in Seq(S)
    PROVE  /\ ToSet(s) \subseteq S /\ ToSet(<<>>) = {}
           /\ \A x \in S : /\ Append(s, x) \in Seq(S)
                           /\ ToSet(Append(s, x)) = ToSet(s) \cup {x}
           /\ s # <<>> => /\ Head(s) \in S /\ Tail(s) \in Seq(S)
                          /\ ToSet(s) = {Head(s)} \cup ToSet(Tail(s))
<1>1. ToSet(s) \subseteq S /\ ToSet(<<>>) = {} BY DEF ToSet
<1>2. ASSUME NEW x \in S
      PROVE  Append(s, x) \in Seq(S) /\ ToSet(Append(s, x)) = ToSet(s) \cup {x}
  <2> DEFINE a == Append(s, x)
  <2>1. /\ a \in Seq(S) /\ Len(a) = Len(s) + 1 /\ a[Len(s) + 1] = x
        /\ \A k \in 1 .. Len(s) : a[k] = s[k]
    OBVIOUS
  <2>2. ToSet(a) \subseteq ToSet(s) \cup {x}
    <3> SUFFICES ASSUME NEW k \in 1 .. Len(s) + 1 PROVE a[k] \in ToSet(s) \cup {x}
      BY <2>1 DEF ToSet
    <3>1. k \in 1 .. Len(s) \/ k = Len(s) + 1 OBVIOUS
    <3> QED BY <2>1, <3>1 DEF ToSet
  <2>3. ASSUME NEW k \in 1 .. Len(s) PROVE s[k] \in ToSet(a)
    <3>1. k \in 1 .. Len(a) /\ a[k] = s[k] BY <2>1, <2>3
    <3> HIDE DEF a
    <3> QED BY <3>1 DEF ToSet
  <2>4. x \in ToSet(a)
    <3>1. Len(a) \in 1 .. Len(a) /\ a[Len(a)] = x BY <2>1
    <3> HIDE DEF a
    <3> QED BY <3>1 DEF ToSet
  <2>5. ToSet(s) \subseteq ToSet(a) BY <2>3 DEF ToSet
  <2> QED BY <2>1, <2>2, <2>4, <2>5
<1>3. ASSUME s # <<>>
      PROVE  /\ Head(s) \in S /\ Tail(s) \in Seq(S)
             /\ ToSet(s) = {Head(s)} \cup ToSet(Tail(s))
  <2> DEFINE t == Tail(s)
  <2>1. /\ t \in Seq(S) /\ Len(t) = Len(s) - 1 /\ Head(s) = s[1] /\ 1 \in 1 .. Len(s)
        /\ \A k \in 1 .. Len(t) : t[k] = s[k + 1]
    BY <1>3
  <2>2. ASSUME NEW k \in 1 .. Len(s) PROVE s[k] \in {Head(s)} \cup ToSet(t)
    <3>1. CASE k = 1 BY <2>1, <3>1
    <3>2. CASE k # 1
      <4>1. k - 1 \in 1 .. Len(t) /\ t[k - 1] = s[k] BY <2>1, <3>2
      <4> HIDE DEF t
      <4> QED BY <4>1 DEF ToSet
    <3> QED BY <3>1, <3>2
  <2>3. ASSUME NEW k \in 1 .. Len(t) PROVE t[k] \in ToSet(s)
    <3>1. k + 1 \in 1 .. Len(s) /\ t[k] = s[k + 1] BY <2>1, <2>3
    <3> HIDE DEF t
    <3> QED BY <3>1 DEF ToSet
  <2>4. ToSet(s) \subseteq {Head(s)} \cup ToSet(t) BY <2>2 DEF ToSet
  <2>5. ToSet(t) \subseteq ToSet(s) BY <2>3 DEF ToSet
  <2>6. Head(s) \in ToSet(s) /\ Head(s) \in S BY <2>1 DEF ToSet
  <2> QED BY <2>1, <2>4, <2>5, <2>6
<1> QED BY <1>1, <1>2, <1>3

(* While nothing runs, everything alive is of the overlay on the logic, or *)
(* outlived its own, as soon as get_controller knows of the new one.       *)
LEMMA AliveIsNew ==
    ASSUME OvInv PROVE Invalidated
<1> SUFFICES ASSUME LoopFree, last = epoch PROVE Alive \subseteq {epoch} \cup pended
  BY DEF Invalidated
<1>1. Kinds /\ Known /\ Registered /\ Enlisted BY DEF OvInv
<1>2. controllers = {epoch} BY <1>1, OverlayAssumption DEF Known, Kinds
<1>3. ASSUME NEW i \in suspended PROVE GenOf(i) \in Listed
  <2>1. i \in Intr /\ obj[i] # Unset /\ i \in handles[GenOf(i)]
    BY <1>1 DEF Kinds, Enlisted
  <2>2. GenOf(i) \in Epoch BY <1>1, <2>1 DEF Kinds, GenOf
  <2> QED BY <1>1, <2>1, <2>2 DEF Registered
<1>4. Listed \subseteq {epoch} \cup pended BY <1>1 DEF Registered
<1> QED BY <1>2, <1>3, <1>4 DEF Alive, Listed

LEMMA OverlayInit == ASSUME Init PROVE OvInv
<1>1. /\ epoch = 0 /\ last = Unset /\ controllers = {} /\ obj = [i \in Intr |-> Unset]
      /\ handles = [g \in Epoch |-> {}] /\ waiting = {} /\ suspended = {} /\ pended = {}
      /\ wait_events = <<>> /\ current = <<>>
  BY DEF Init
<1>2. 0 \in Epoch BY OverlayAssumption DEF Epoch
<1>3. Kinds BY <1>1, <1>2 DEF Kinds
<1>4. Known BY <1>1 DEF Known
<1>5. Registered BY <1>1, <1>2, Elements DEF Registered, Listed
<1>6. Enlisted BY <1>1 DEF Enlisted
<1> QED BY <1>3, <1>4, <1>5, <1>6 DEF OvInv

(* The hardware's steps change none of this.                               *)
LEMMA OverlayStill ==
    ASSUME OvInv, UNCHANGED <<objects, waits, wait_events, current>> PROVE OvInv'
BY DEF OvInv, Kinds, Known, Registered, Enlisted, Listed, GenOf, objects, waits

LEMMA OverlayCallback == ASSUME OvInv, UioCallback PROVE OvInv'
<1>1. Kinds /\ Known /\ Registered /\ Enlisted BY DEF OvInv
<1>2. /\ current = <<>> /\ current' = wait_events /\ wait_events' = <<>>
      /\ UNCHANGED <<objects, waits>>
  BY DEF UioCallback, LoopFree
<1>3. Kinds' /\ Known' /\ Enlisted'
  BY <1>1, <1>2 DEF Kinds, Known, Enlisted, GenOf, objects, waits
<1>4. Listed' = Listed BY <1>2 DEF Listed
<1>5. Registered' BY <1>1, <1>2, <1>4 DEF Registered, objects, waits
<1> QED BY <1>3, <1>5 DEF OvInv

(* The controller that is set registers again if it has waiters left.      *)
LEMMA OverlaySet == ASSUME OvInv, SetNext PROVE OvInv'
<1> DEFINE g == Head(current)
           woken == {i \in handles[g] : LineOf(i) \in isr \cap ier}
<1>1. Kinds /\ Known /\ Registered /\ Enlisted BY DEF OvInv
<1>2. /\ current # <<>> /\ current' = Tail(current)
      /\ handles' = [handles EXCEPT ![g] = handles[g] \ woken]
      /\ flag' = flag \cup woken /\ suspended' = suspended \ woken
      /\ waiting' = waiting \ (woken \cap suspended)
      /\ wait_events' = IF handles[g] \ woken # {} THEN Append(wait_events, g) ELSE wait_events
      /\ UNCHANGED objects /\ pended' = pended
  BY DEF SetNext, LoopFree, StillAwaited
<1>3. /\ g \in Epoch /\ current' \in Seq(Epoch)
      /\ ToSet(current) = {g} \cup ToSet(current')
  BY <1>1, <1>2, Elements DEF Kinds
<1>4. woken \subseteq handles[g] OBVIOUS
<1> HIDE DEF g, woken
<1>5. \A h \in Epoch : handles'[h] = IF h = g THEN handles[h] \ woken ELSE handles[h]
  BY <1>1, <1>2, <1>3 DEF Kinds
<1>6. handles' \in [Epoch -> SUBSET Intr] BY <1>1, <1>2, <1>3 DEF Kinds
<1>7. /\ wait_events' \in Seq(Epoch)
      /\ ToSet(wait_events') = ToSet(wait_events)
                                 \cup (IF handles'[g] # {} THEN {g} ELSE {})
  <2>1. handles'[g] = handles[g] \ woken BY <1>3, <1>5
  <2>2. wait_events \in Seq(Epoch) BY <1>1 DEF Kinds
  <2>3. CASE handles'[g] # {} BY <1>2, <1>3, <2>1, <2>2, <2>3, Elements
  <2>4. CASE handles'[g] = {} BY <1>2, <2>1, <2>2, <2>4
  <2> QED BY <2>3, <2>4
<1>8. Kinds' BY <1>1, <1>2, <1>3, <1>6, <1>7 DEF Kinds, objects
<1>9. Known' BY <1>1, <1>2 DEF Known, objects
<1>10. Registered'
  <2>1. Listed' \subseteq Listed BY <1>3, <1>7 DEF Listed
  <2>2. ASSUME NEW h \in Epoch, handles'[h] # {} PROVE h \in Listed'
    <3>1. CASE h = g BY <1>7, <2>2, <3>1 DEF Listed
    <3>2. CASE h # g
      <4>1. h \in Listed BY <1>1, <1>5, <2>2, <3>2 DEF Registered
      <4> QED BY <1>3, <1>7, <3>2, <4>1 DEF Listed
    <3> QED BY <3>1, <3>2
  <2> QED BY <1>1, <1>2, <2>1, <2>2 DEF Registered, objects
<1>11. Enlisted'
  <2> SUFFICES ASSUME NEW i \in Intr, i \in suspended' \/ i \in waiting' \ flag'
               PROVE  obj'[i] # Unset /\ i \in handles'[GenOf(i)']
    BY DEF Enlisted
  <2>1. i \in suspended \/ i \in waiting \ flag BY <1>2
  <2>2. i \notin woken BY <1>2
  <2>3. obj' = obj /\ GenOf(i)' = GenOf(i) BY <1>2 DEF objects, GenOf
  <2>4. obj[i] # Unset /\ i \in handles[GenOf(i)] BY <1>1, <2>1 DEF Enlisted
  <2>5. GenOf(i) \in Epoch BY <1>1, <2>4 DEF Kinds, GenOf
  <2> QED BY <1>5, <2>2, <2>3, <2>4, <2>5
<1> QED BY <1>8, <1>9, <1>10, <1>11 DEF OvInv

(* A wait registers with a controller that is alive, so the overlay's own, *)
(* or one that is in use after its overlay.                                *)
LEMMA OverlayRegister ==
    ASSUME OvInv, NEW i \in Intr, WaitRegister(i) PROVE OvInv'
<1> DEFINE g == GenOf(i)
<1>1. Kinds /\ Known /\ Registered /\ Enlisted BY DEF OvInv
<1>2. /\ obj[i] # Unset
      /\ handles' = [handles EXCEPT ![g] = handles[g] \cup {i}]
      /\ wait_events' = IF handles[g] = {} THEN Append(wait_events, g) ELSE wait_events
      /\ flag' = flag \ {i} /\ waiting' = waiting \cup {i}
      /\ suspended' = suspended \cup {i} /\ pended' = pended \cup ({g} \ {epoch})
      /\ UNCHANGED <<objects, current>>
  BY DEF WaitRegister
<1>3. g \in Epoch BY <1>1, <1>2 DEF Kinds, GenOf
<1>4. epoch' = epoch /\ current' = current /\ obj' = obj BY <1>2 DEF objects
<1>5. \A j \in Intr : GenOf(j)' = GenOf(j) BY <1>4 DEF GenOf
<1>6. g' = g BY <1>5
<1> HIDE DEF g
<1>7. \A h \in Epoch : handles'[h] = IF h = g THEN handles[h] \cup {i} ELSE handles[h]
  BY <1>1, <1>2, <1>3 DEF Kinds
<1>8. handles' \in [Epoch -> SUBSET Intr] BY <1>1, <1>2, <1>3 DEF Kinds
<1>9. /\ wait_events' \in Seq(Epoch) /\ ToSet(wait_events) \subseteq ToSet(wait_events')
      /\ ToSet(wait_events') \subseteq ToSet(wait_events) \cup {g}
      /\ handles[g] = {} => g \in ToSet(wait_events')
  <2>1. wait_events \in Seq(Epoch) BY <1>1 DEF Kinds
  <2> QED BY <1>2, <1>3, <2>1, Elements
<1>10. Kinds' BY <1>1, <1>2, <1>3, <1>8, <1>9 DEF Kinds, objects
<1>11. Known' BY <1>1, <1>2 DEF Known, objects
<1>12. Registered'
  <2>1. g \in Listed' /\ Listed \subseteq Listed' /\ Listed' \subseteq Listed \cup {g}
    BY <1>1, <1>3, <1>4, <1>9 DEF Registered, Listed
  <2>2. \A h \in Epoch : handles'[h] # {} => h \in Listed'
    BY <1>1, <1>7, <2>1 DEF Registered
  <2>3. Listed' \subseteq {epoch'} \cup pended' BY <1>1, <1>2, <1>4, <2>1 DEF Registered
  <2> QED BY <2>2, <2>3 DEF Registered
<1>13. Enlisted'
  <2> SUFFICES ASSUME NEW j \in Intr, j \in suspended' \/ j \in waiting' \ flag'
               PROVE  obj'[j] # Unset /\ j \in handles'[GenOf(j)']
    BY DEF Enlisted
  <2>1. CASE j = i
    <3>1. GenOf(j)' = g BY <1>6, <2>1 DEF g
    <3>2. obj'[j] # Unset BY <1>2, <1>4, <2>1
    <3>3. j \in handles'[g] BY <1>3, <1>7, <2>1
    <3> QED BY <3>1, <3>2, <3>3
  <2>2. CASE j # i
    <3>1. obj[j] # Unset /\ j \in handles[GenOf(j)] BY <1>1, <1>2, <2>2 DEF Enlisted
    <3>2. GenOf(j) \in Epoch BY <1>1, <3>1 DEF Kinds, GenOf
    <3> QED BY <1>4, <1>5, <1>7, <3>1, <3>2
  <2> QED BY <2>1, <2>2
<1> QED BY <1>10, <1>11, <1>12, <1>13 DEF OvInv

(* A wait that finds itself registered is on its controller's list.        *)
LEMMA OverlayAgain ==
    ASSUME OvInv, NEW i \in Intr, WaitAgain(i) \/ Cancel(i) PROVE OvInv'
<1>1. Kinds /\ Known /\ Registered /\ Enlisted BY DEF OvInv
<1>2. /\ UNCHANGED <<objects, handles, flag, pended, wait_events, current>>
      /\ waiting' \subseteq waiting
      /\ \A j \in suspended' : j \in suspended \/ (j = i /\ i \in waiting \ flag)
  BY DEF WaitAgain, Cancel
<1>3. Kinds' BY <1>1, <1>2 DEF Kinds, objects
<1>4. Known' /\ Registered' BY <1>1, <1>2 DEF Known, Registered, Listed, objects
<1>5. Enlisted' BY <1>1, <1>2 DEF Enlisted, GenOf, objects
<1> QED BY <1>3, <1>4, <1>5 DEF OvInv

(* The first look-up after a download forgets the older controllers.       *)
LEMMA OverlayNew ==
    ASSUME OvInv, NEW i \in Intr, NEW n \in Line, NewInterrupt(i, n) PROVE OvInv'
<1>1. Kinds /\ Known /\ Registered /\ Enlisted BY DEF OvInv
<1>2. /\ obj[i] = Unset /\ last' = epoch
      /\ controllers' = IF Kept = {} THEN {epoch} ELSE Kept
      /\ obj' = [obj EXCEPT ![i] = <<CHOOSE g \in controllers' : TRUE, n>>]
      /\ UNCHANGED <<epoch, waits, wait_events, current>>
  BY DEF NewInterrupt
<1>3. controllers' = {epoch} /\ epoch \in Epoch
  BY <1>1, <1>2, OverlayAssumption DEF Kept, Known, Kinds
<1>4. (CHOOSE g \in controllers' : TRUE) = epoch BY <1>3
<1>5. obj' = [obj EXCEPT ![i] = <<epoch, n>>] BY <1>2, <1>4
<1>a. obj' \in [Intr -> {Unset} \cup (Epoch \X Line)] /\ controllers' \subseteq Epoch
  BY <1>1, <1>3, <1>5 DEF Kinds
<1>6. Kinds' BY <1>1, <1>2, <1>3, <1>a DEF Kinds, waits
<1>7. Known' BY <1>2, <1>3, OverlayAssumption DEF Known
<1>8. Registered' BY <1>1, <1>2 DEF Registered, Listed, waits
<1>9. Enlisted'
  <2> SUFFICES ASSUME NEW j \in Intr, j \in suspended' \/ j \in waiting' \ flag'
               PROVE  obj'[j] # Unset /\ j \in handles'[GenOf(j)']
    BY DEF Enlisted
  <2>1. obj[j] # Unset /\ j \in handles[GenOf(j)] BY <1>1, <1>2 DEF Enlisted, waits
  <2>2. j # i BY <1>2, <2>1
  <2>3. obj'[j] = obj[j] BY <1>1, <1>5, <2>2 DEF Kinds
  <2>4. GenOf(j)' = GenOf(j) BY <2>3 DEF GenOf
  <2> QED BY <1>2, <2>1, <2>3, <2>4 DEF waits
<1> QED BY <1>6, <1>7, <1>8, <1>9 DEF OvInv

(* What is on the UIO's list when the overlay is replaced outlives it.     *)
LEMMA OverlayDownload == ASSUME OvInv, Download PROVE OvInv'
<1>1. Kinds /\ Known /\ Registered /\ Enlisted BY DEF OvInv
<1>2. /\ epoch < MaxEpoch /\ current = <<>>
      /\ epoch' = epoch + 1 /\ pended' = pended \cup ToSet(wait_events)
      /\ UNCHANGED <<last, controllers, obj, handles, waiting, flag, suspended,
                     wait_events, current>>
  BY DEF Download, LoopFree
<1>3. epoch' \in Epoch BY <1>1, <1>2, OverlayAssumption DEF Kinds, Epoch
<1>4. ToSet(wait_events) \subseteq Epoch /\ ToSet(current) = {}
  BY <1>1, <1>2, Elements DEF Kinds
<1>5. Kinds' BY <1>1, <1>2, <1>3, <1>4 DEF Kinds
<1>6. Known' BY <1>1, <1>2 DEF Known
<1>7. Registered' BY <1>1, <1>2, <1>4 DEF Registered, Listed
<1>8. Enlisted' BY <1>1, <1>2 DEF Enlisted, GenOf
<1> QED BY <1>5, <1>6, <1>7, <1>8 DEF OvInv

(* Once an Interrupt has been constructed for the new overlay, the only    *)
(* controllers of older ones that are alive are those that had waiters on  *)
(* the UIO's list when their overlay was replaced, or got some afterwards  *)
(* (interrupt.py:78-80,103-105), whatever is pending at a download.        *)
THEOREM OldControllersGone == Spec => []Invalidated
<1>1. Init => OvInv BY OverlayInit
<1>2. OvInv /\ [Next]_vars => OvInv'
  <2> SUFFICES ASSUME OvInv, [Next]_vars PROVE OvInv' OBVIOUS
  <2>1. ASSUME NEW n \in Line, Raise(n) \/ Lower(n) \/ Latch(n) PROVE OvInv'
    BY <2>1, OverlayStill DEF Raise, Lower, Latch
  <2>2. CASE KernelIrq BY <2>2, OverlayStill DEF KernelIrq
  <2>3. CASE UioCallback BY <2>3, OverlayCallback
  <2>4. CASE SetNext BY <2>4, OverlaySet
  <2>5. ASSUME NEW i \in Intr, WaitRegister(i) PROVE OvInv' BY <2>5, OverlayRegister
  <2>6. ASSUME NEW i \in Intr, WaitAgain(i) \/ Cancel(i) PROVE OvInv'
    BY <2>6, OverlayAgain
  <2>7. ASSUME NEW i \in Intr, NEW n \in Line, NewInterrupt(i, n) PROVE OvInv'
    BY <2>7, OverlayNew
  <2>8. CASE Download BY <2>8, OverlayDownload
  <2>9. CASE UNCHANGED vars BY <2>9, OverlayStill DEF vars
  <2> QED BY <2>1, <2>2, <2>3, <2>4, <2>5, <2>6, <2>7, <2>8, <2>9 DEF Next
<1>3. OvInv => Invalidated BY AliveIsNew
<1> QED BY <1>1, <1>2, <1>3, PTL DEF Spec
=============================================================================
