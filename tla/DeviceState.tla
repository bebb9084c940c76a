----------------------------- MODULE DeviceState -----------------------------
(***************************************************************************)
(* What outlives a Python process: the design in the FPGA, and the two     *)
(* files that describe it to the processes that come later, the global     *)
(* state (src/pynq/pl_server/global_state.py) and the pickled metadata of  *)
(* the last design (src/pynq/pl_server/embedded_device.py).  Overlay       *)
(* objects read both when they are made and rewrite both when they are     *)
(* downloaded; a Bitstream downloaded by itself rewrites only the first.   *)
(* A process may die between any two steps, and the board may be switched  *)
(* off and on.  Reading a file is one step; writing one is two, opening it *)
(* (which truncates it) and writing it.                                    *)
(***************************************************************************)
EXTENDS Naturals, FiniteSets

CONSTANTS
    Design,         \* bitstreams, by the hash of their contents
    Overlay,        \* Overlay objects, and Bitstreams that are none
    Process,        \* Python processes
    Home,           \* the process of each Overlay object
    None, Torn      \* nothing; a file (an FPGA) cut short while written

ASSUME DeviceAssumption ==
    /\ None \notin Design /\ Torn \notin Design /\ None # Torn
    /\ None \notin Overlay \cup Process
    /\ Home \in [Overlay -> Process]

VARIABLES
    fpga,       \* what was downloaded into the FPGA since the boot
    fresh,      \* fpga_manager says "unknown", or its flags are "100"
    gs,         \* global_pl_state_.json: the design it names
    md,         \* _current_metadata.pkl: the design it describes
    place,      \* the next step of each Overlay's process on its behalf
    goal,       \* what the call that runs does: "make", "cache", "load";
                \* "bare": Bitstream.download()
    bit,        \* Overlay.bitfile_name
    meta,       \* Overlay.parser: the design its dictionaries describe
    cached,     \* hasattr(parser, "_from_cache")
    stamped,    \* Overlay.timestamp # ""
    dname,      \* Device.bitfile_name, in each process
    dtime,      \* Device.timestamp: the Overlay that has the same one
    by,         \* the process that wrote to the FPGA last, None: and failed
    gaps        \* history: why gs may not go with md or with the FPGA

files == <<gs, md>>
object == <<bit, meta, cached, stamped>>
device == <<dname, dtime>>
devVars == <<fpga, fresh, files, place, goal, object, device, by, gaps>>

(* "made": the Overlay is there and no call of its own runs.               *)
Place == {"none", "made", "hash", "unpickle", "boot", "shutdown", "save",
          "write", "dump", "pickle", "program"}
Busy == {o \in Overlay : place[o] \notin {"none", "made"}}

(* Since gs was last opened or removed:                                    *)
(*   "metadata" its process died before it wrote the metadata;             *)
(*   "bare"     a Bitstream saved it, which has no metadata;               *)
(*   "gone"     a call did not save it, its bitstream having been deleted; *)
(*   "fpga"     a download failed, or its process died before the FPGA;    *)
(*   "cache"    gen_cache saved it, its design not being in the FPGA;      *)
(*   "again"    a parser from the cache, and so a download that does not   *)
(*              save, when gs named another design.                        *)
Gap == {"metadata", "bare", "gone", "fpga", "cache", "again"}

(* Types, and: two calls never overlap, which their users see to.          *)
DevTypeOK ==
    /\ fpga \in Design \cup {None, Torn} /\ fresh \in BOOLEAN
    /\ gs \in Design \cup {None, Torn} /\ md \in Design \cup {None, Torn}
    /\ place \in [Overlay -> Place]
    /\ goal \in {"make", "cache", "load", "bare"}
    /\ bit \in [Overlay -> Design \cup {None}]
    /\ meta \in [Overlay -> Design \cup {None}]
    /\ cached \in [Overlay -> BOOLEAN] /\ stamped \in [Overlay -> BOOLEAN]
    /\ dname \in [Process -> Design \cup {None}]
    /\ dtime \in [Process -> Overlay \cup {None}]
    /\ by \in Process \cup {None}
    /\ gaps \subseteq Gap
    /\ \A o, q \in Busy : o = q

DevInit ==
    /\ fpga = None /\ fresh = TRUE
    /\ gs = None /\ md = None /\ by = None /\ gaps = {}
    /\ place = [o \in Overlay |-> "none"]
    /\ goal = "make"
    /\ bit = [o \in Overlay |-> None] /\ meta = [o \in Overlay |-> None]
    /\ cached = [o \in Overlay |-> FALSE]
    /\ stamped = [o \in Overlay |-> FALSE]
    /\ dname = [p \in Process |-> None] /\ dtime = [p \in Process |-> None]

Goto(o, there) == place' = [place EXCEPT ![o] = there]

(* The objects of S are no more.                                           *)
Forget(S) ==
    /\ place' = [o \in Overlay |-> IF o \in S THEN "none" ELSE place[o]]
    /\ bit' = [o \in Overlay |-> IF o \in S THEN None ELSE bit[o]]
    /\ meta' = [o \in Overlay |-> IF o \in S THEN None ELSE meta[o]]
    /\ cached' = [o \in Overlay |-> cached[o] /\ o \notin S]
    /\ stamped' = [o \in Overlay |-> stamped[o] /\ o \notin S]

(* A call ends; a Bitstream is not looked at again.                        *)
Return(o) ==
    IF goal = "bare" THEN Forget({o}) ELSE Goto(o, "made") /\ UNCHANGED object

ClearState == gs' = None /\ gaps' = {}

-----------------------------------------------------------------------------
(* Overlay(bitfile): Device.set_bitfile_name, then the metadata.           *)
Create(o, d, g) ==
    /\ Busy = {} /\ place[o] = "none"
    /\ Goto(o, "hash")
    /\ goal' = g
    /\ bit' = [bit EXCEPT ![o] = d]
    /\ dname' = [dname EXCEPT ![Home[o]] = d]
    /\ UNCHANGED <<fpga, fresh, files, meta, cached, stamped, dtime, by, gaps>>

(* Bitstream(bitfile).download(), with no parser (bitstream.py:151-168).   *)
Bare(o, d) ==
    /\ Busy = {} /\ place[o] = "none"
    /\ Goto(o, "boot")
    /\ goal' = "bare"
    /\ bit' = [bit EXCEPT ![o] = d]
    /\ UNCHANGED <<fpga, fresh, files, meta, cached, stamped, device, by,
                   gaps>>

(* The Overlay has its parser; Overlay() goes on as its arguments say.     *)
Made(o, design, fromCache) ==
    /\ meta' = [meta EXCEPT ![o] = design]
    /\ cached' = [cached EXCEPT ![o] = fromCache]
    /\ Goto(o, CASE goal = "make" -> "made"
                 [] goal = "cache" -> IF fromCache THEN "made" ELSE "save"
                 [] goal = "load" -> "boot")
    /\ UNCHANGED <<bit, stamped>>

(* _cache_exists: the hash in the global state, or no such file.  Mutant:  *)
(* whatever the global state names.                                        *)
AnyCache(o) == gs # None
CacheExists(o) == gs = bit[o]

(* load_global_state fails on a torn file, and Overlay() with it.          *)
CompareHash(o) ==
    /\ place[o] = "hash"
    /\ \/ gs = Torn /\ Forget({o})
       \/ /\ gs # Torn /\ CacheExists(o)
          /\ Goto(o, "unpickle") /\ UNCHANGED object
       \/ gs # Torn /\ ~CacheExists(o) /\ Made(o, bit[o], FALSE)
    /\ UNCHANGED <<fpga, fresh, files, goal, device, by, gaps>>

(* _get_cache: no metadata, the global state is cleared; not readable, the *)
(* file is removed; either way the .hwh file is parsed after all.          *)
Unpickle(o) ==
    /\ place[o] = "unpickle"
    /\ \/ md \in Design /\ Made(o, md, TRUE) /\ UNCHANGED <<files, gaps>>
       \/ md = None /\ Made(o, bit[o], FALSE) /\ ClearState /\ UNCHANGED md
       \/ md = Torn /\ Made(o, bit[o], FALSE) /\ md' = None
          /\ UNCHANGED <<gs, gaps>>
    /\ UNCHANGED <<fpga, fresh, goal, device, by>>

-----------------------------------------------------------------------------
(* Overlay.download() and gen_cache() of an Overlay made before.           *)
Call(o, g) ==
    /\ Busy = {} /\ place[o] = "made" /\ g # "make"
    /\ g = "cache" => ~cached[o]
    /\ goal' = g
    /\ Goto(o, IF g = "load" THEN "boot" ELSE "save")
    /\ UNCHANGED <<fpga, fresh, files, object, device, by, gaps>>

(* The first look at the FPGA's own state forgets designs of past boots.   *)
(* Mutant: an FPGA that was never configured is not noticed.               *)
NeverBooted == fresh /\ fpga # None
Booted == fresh

BootCheck(o) ==
    /\ place[o] = "boot"
    /\ Goto(o, "shutdown")
    /\ IF Booted THEN ClearState ELSE UNCHANGED <<gs, gaps>>
    /\ UNCHANGED <<fpga, fresh, md, goal, object, device, by>>

(* Device.shutdown writes to the shutdown managers of the design that the  *)
(* global state names.  gen_cache is skipped if the parser is from there.  *)
(* Mutant: or if there is a global state.                                  *)
AnyRecorded(o) == cached[o] \/ gs # None
Recorded(o) == cached[o]

Shutdown(o) ==
    /\ place[o] = "shutdown"
    /\ IF gs = Torn THEN Return(o)
       ELSE /\ Goto(o, IF Recorded(o) THEN "program" ELSE "save")
            /\ UNCHANGED object
    /\ UNCHANGED <<fpga, fresh, files, goal, device, by, gaps>>

(* What comes after the global state: the parser of a Bitstream, that of   *)
(* the default xclbin, has no systemgraph and is not pickled (line 660).   *)
AfterState == IF goal = "bare" THEN "program" ELSE "dump"

(* save_global_state if the bitstream is there, and the pickled parser.    *)
OpenState(o) ==
    /\ place[o] = "save"
    /\ gs' = Torn /\ gaps' = {}
    /\ Goto(o, "write")
    /\ UNCHANGED <<fpga, fresh, md, goal, object, device, by>>

NoState(o) ==
    /\ place[o] = "save"
    /\ gaps' = gaps \cup {"gone"}
    /\ Goto(o, AfterState)
    /\ UNCHANGED <<fpga, fresh, files, goal, object, device, by>>

WriteState(o) ==
    /\ place[o] = "write"
    /\ gs' = bit[o]
    /\ gaps' = CASE goal = "bare" -> {"bare"}
                 [] goal = "cache" /\ fpga # bit[o] -> {"cache"}
                 [] OTHER -> {}
    /\ Goto(o, AfterState)
    /\ UNCHANGED <<fpga, fresh, md, goal, object, device, by>>

(* What the pickle describes.  Mutant: the Device's last parser, i.e. that *)
(* of the Overlay made last.                                               *)
PickleDevice(o) == dname[Home[o]]
Pickled(o) == meta[o]

OpenMetadata(o) ==
    /\ place[o] = "dump"
    /\ md' = Torn
    /\ Goto(o, "pickle")
    /\ UNCHANGED <<fpga, fresh, gs, goal, object, device, by, gaps>>

WriteMetadata(o) ==
    /\ place[o] = "pickle"
    /\ md' = Pickled(o)
    /\ Goto(o, IF goal = "load" THEN "program" ELSE "made")
    /\ UNCHANGED <<fpga, fresh, gs, goal, object, device, by, gaps>>

(* The fpga_manager's flags and firmware; post_download gives Overlay and  *)
(* Device the same time.                                                   *)
NewTime(o) == [dtime EXCEPT ![Home[o]] = o]

(* Nothing was saved of this design, and another one's state is there.     *)
Again(o) == cached[o] /\ gs # bit[o]

Program(o) ==
    /\ place[o] = "program"
    /\ fpga' = bit[o] /\ fresh' = FALSE
    /\ dtime' = NewTime(o)
    /\ dname' = [dname EXCEPT ![Home[o]] = bit[o]]
    /\ by' = Home[o]
    /\ gaps' = gaps \cup (IF Again(o) THEN {"again"} ELSE {})
    /\ IF goal = "bare" THEN Forget({o})
       ELSE /\ stamped' = [stamped EXCEPT ![o] = TRUE]
            /\ Goto(o, "made") /\ UNCHANGED <<bit, meta, cached>>
    /\ UNCHANGED <<files, goal>>

(* The firmware file is missing; the driver gives up half way; the AXI     *)
(* ports or the xclbin fail after it.  If Overlay() fails there is no      *)
(* object.                                                                 *)
ProgramFails(o) ==
    /\ place[o] = "program"
    /\ \/ fresh' \in {fresh, FALSE} /\ UNCHANGED <<fpga, by>>
       \/ fpga' \in {Torn, bit[o]} /\ fresh' = FALSE /\ by' = None
    /\ gaps' = gaps \cup {"fpga"}
    /\ Forget({o}) \/ Return(o)
    /\ UNCHANGED <<files, goal, device>>

-----------------------------------------------------------------------------
(* PL.reset() clears the state; a process without an Overlay of its own    *)
(* that allocates memory looks at the FPGA first (default_memory).         *)
Reset ==
    /\ Busy = {}
    /\ ClearState
    /\ UNCHANGED <<fpga, fresh, md, place, goal, object, device, by>>

DefaultMemory(p) ==
    /\ Busy = {} /\ dname[p] = None
    /\ Booted
    /\ ClearState
    /\ UNCHANGED <<fpga, fresh, md, place, goal, object, device, by>>

(* What a process that dies at this step leaves undone.                    *)
Owed(o) ==
    {k \in {"metadata", "fpga"} :
        \/ k = "metadata" /\ place[o] = "dump"
        \/ k = "fpga" /\ goal # "cache"
           /\ place[o] \in {"dump", "pickle", "program"} /\ ~cached[o]}

Die(P) ==
    LET gone == {o \in Overlay : Home[o] \in P}
    IN  /\ Forget(gone)
        /\ gaps' = gaps \cup UNION {Owed(o) : o \in gone}
        /\ dname' = [p \in Process |-> IF p \in P THEN None ELSE dname[p]]
        /\ dtime' = [p \in Process |-> IF p \in P THEN None ELSE dtime[p]]

Kill(p) == Die({p}) /\ UNCHANGED <<fpga, fresh, files, goal, by>>

(* The files stay, the FPGA is blank.                                      *)
Reboot ==
    /\ Die(Process)
    /\ fpga' = None /\ fresh' = TRUE /\ by' = None
    /\ UNCHANGED <<files, goal>>

DevNext ==
    \/ \E o \in Overlay :
          \/ \E d \in Design :
             \/ Bare(o, d)
             \/ \E g \in {"make", "cache", "load"} : Create(o, d, g)
          \/ \E g \in {"cache", "load"} : Call(o, g)
          \/ CompareHash(o) \/ Unpickle(o)
          \/ BootCheck(o) \/ Shutdown(o)
          \/ OpenState(o) \/ NoState(o) \/ WriteState(o)
          \/ OpenMetadata(o) \/ WriteMetadata(o)
          \/ Program(o) \/ ProgramFails(o)
    \/ \E p \in Process : DefaultMemory(p) \/ Kill(p)
    \/ Reset \/ Reboot

DevSpec == DevInit /\ [][DevNext]_devVars

-----------------------------------------------------------------------------
(* The global state and the metadata written after it describe the same    *)
(* design: _get_cache takes the second on the word of the first            *)
(* (embedded_device.py:204-221).  Except: the process between the two      *)
(* writes died; a Bitstream downloaded by itself saved the first and left  *)
(* the second; a deleted bitstream kept the first from being saved.        *)
CacheRight ==
    gs \in Design /\ md \in Design /\ gs # md
        => \/ gaps \cap {"metadata", "bare", "gone"} # {}
           \/ \E o \in Overlay : place[o] = "dump"

(* An Overlay is never made with the dictionaries of another design, which *)
(* would hand out drivers at that one's addresses: whatever died, failed   *)
(* or was switched off before, with the exceptions of CacheRight.          *)
MetadataRight ==
    [][\A o \in Overlay :
          place[o] = "unpickle" /\ place'[o] \notin {"none", "unpickle"}
          /\ gaps \cap {"metadata", "bare", "gone"} = {}
              => meta'[o] = bit[o]]_devVars

(* "the currently configured bitstream" (global_state.py:30-31): between   *)
(* calls, the global state names the design in the FPGA.  Except: the      *)
(* board was switched off; the download that saved it, or a later one,     *)
(* failed or its process died; gen_cache saved it for a design that was    *)
(* not there; a later download did not save, having its parser from the    *)
(* cache (line 641) or its bitstream deleted (line 647).                   *)
StateExplained ==
    Busy = {} /\ gs \in Design
        => \/ gs = fpga \/ fpga = None
           \/ gaps \cap {"fpga", "cache", "again", "gone"} # {}

(* Device.shutdown writes to shutdown managers that are in the FPGA, also  *)
(* after a reboot, when the file still names the design of the last boot:  *)
(* with the exceptions of StateExplained but the first.                    *)
ShutdownRight ==
    \A o \in Overlay :
        place[o] = "shutdown" /\ gs \in Design
            => gs = fpga \/ gaps \cap {"fpga", "cache", "again", "gone"} # {}

(* Overlay.is_loaded().  Mutant: any time will do.                         *)
AnyTime(o) ==
    IF stamped[o] THEN dtime[Home[o]] # None ELSE dname[Home[o]] = bit[o]
IsLoaded(o) ==
    IF stamped[o] THEN dtime[Home[o]] = o ELSE dname[Home[o]] = bit[o]

(* An Overlay that was downloaded says that it is loaded only while its    *)
(* design is in the FPGA, or what is there came of a download that failed  *)
(* or of another process.  (One that was not downloaded says so whenever   *)
(* it was made last.)                                                      *)
LoadedRight ==
    \A o \in Overlay :
        place[o] = "made" /\ stamped[o] /\ IsLoaded(o) /\ by = Home[o]
            => fpga = bit[o]
=============================================================================
