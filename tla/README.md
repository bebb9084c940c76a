# A verification project for PYNQ

PYNQ lets a Python program on the processor of a Zynq chip use the programmable
logic next to it: it loads a bitstream ("overlay"), drives the cores in it
through memory-mapped registers, waits for their interrupts with asyncio, and
runs C programs on Microblaze processors inside the logic. The specifications
here cover the parts where Python code, other tasks and processes, firmware and
hardware that nobody can stop act on the same state: interrupt delivery, the
mailbox to a Microblaze, remote procedure calls over it, video frame buffers,
DMA transfers, GPIO waits, the files that describe the loaded design to later
processes, and the logic tools' generators.

All paths below are relative to the repository.

## 1. Inventory

### Interrupts (`src/pynq/interrupt.py`, `src/pynq/uio.py`)

*State.* An `Interrupt` has an `asyncio.Event`, a flag `waiting` and a weak
reference to its controller. An `_InterruptController` (one per AXI interrupt
controller of the overlay) has a wait list per line, `event_number`, and the
registers ISR, IER, MER. A `UioController` has one wait list and a file
descriptor whose irq the kernel masks when it fires and unmasks when asked.

*Operations.* `Interrupt.wait`; `add_event` of a controller, which enables the
line, registers itself with its parent if it had no waiters, and unmasks at the
root; `_uio_callback`, called by the event loop, which calls `set` down the
tree; `set`, which disables the pending lines, wakes their waiters, acknowledges
and registers again if somebody still waits; `get_controller`, which forgets
all controllers when the overlay changed.

*Interaction.* `set` is called by the parent's `set` or callback and calls the
parent's `add_event` from inside of it: parent and child are re-entrant. The
same wait lists are used by tasks. The hardware latches lines at any time.

*What makes it correct.* No lost wakeup; a controller registered exactly once;
exact counts; a line enabled exactly while awaited; only latched lines release
waiters, and a latched line is not acknowledged while somebody waits for it;
controllers of an old overlay have no effect on the new one.

### Mailbox channel (`src/pynq/lib/pynqmicroblaze/streams.py`, `src/boards/sw_repo/mailbox_bram/src/mailbox_io.c`)

*State.* Two pointers and a ring of bytes in memory both processors see.
*Operations.* Python's `SimpleMBChannel.read`, `read_upto`, `write`; C's
`mailbox_read`, `mailbox_write`, `mailbox_available`. *Hard.* There is no lock;
each access interleaves with the other processor, a read that collides with a
write yields rubbish, blocks wrap. *Correct* when bytes come out in the order
they went in, none lost, doubled or torn, and no end waits for ever.

### Microblaze RPC (`src/pynq/lib/pynqmicroblaze/rpc.py`, `modules/yield`, `modules/pyprintf`)

*State.* The two RPC channels, the call stack of the single-threaded server,
and what the Python caller waits for. *Operations.* Generated Python functions
that send a command and, unless the function is void, read the reply; the
generated server loop; `yield()` and a write into a full channel, which serve
further calls on top of the running one; `pyprintf`, which writes into the same
channel as the replies. *Hard.* Replies have no call number, void functions
answer calls nobody waits for, channels are short. *Correct* when a call returns
its own function's value, and every started function ends.

### AXI VDMA (`src/pynq/lib/video/dma.py`)

*State.* Frame lists and address registers of an input and an output channel,
interrupt bits, park pointer, the tie between the two, frames in the program's
hands. *Operations.* `readframe(_async)`, `writeframe(_async)`, `newframe`,
`start`, `stop`, `tie`, dropping a frame. *Hard.* The hardware passes frame
boundaries while Python exchanges buffers under it; two tasks; ownership moves
without locks. *Correct* when each frame has one owner, the hardware never uses
a frame that was taken away, and frames that are returned hold a picture.

### Device and global state (`src/pynq/pl_server/device.py`, `embedded_device.py`, `global_state.py`, `src/pynq/overlay.py`, `pl.py`)

*State.* What the FPGA holds; two files, the global state (which design, with
its hash and shutdown managers) and the pickled metadata of the last design; per
process the `Device` with its `bitfile_name` and `timestamp`; per `Overlay` its
parser and timestamp. *Operations.* `Overlay()`, `download`, `gen_cache`,
`is_loaded`, `PL.reset`, and the first allocation of memory, which looks whether
the FPGA was configured since boot. *Hard.* Processes die between two file
accesses, a download fails half way, the board reboots and the files stay.
*Correct* when nobody acts on a file that describes another design.

### AXI DMA (`src/pynq/lib/dma.py`)

*State.* Per channel the registers (halted, idle, interrupt, error, run), the
array in transfer, the descriptors of scatter-gather mode, `_cyclic`,
`_first_transfer`. *Operations.* `transfer`, `wait`, `wait_async`, `start`,
`stop`. *Hard.* The hardware completes, fails and halts between two register
reads; a stop of a cyclic transfer resets both channels; an interrupt may be
stale. *Correct* when a wait that returns has waited for its own transfer, the
descriptors cover the array once, and nothing in use is freed.

### AXI GPIO (`src/pynq/lib/axigpio.py`, used by buttons and switches)

*State.* Two channels with inputs, one interrupt, a waiter count per channel.
*Operations.* `wait_for_value_async`, `wait_for_interrupt_async`. *Hard.* Any
number of tasks enable, acknowledge and disable while inputs change; waits are
cancelled. *Correct* when a value that stays is seen and no interrupt stays
enabled for nobody.

### Logic tools (`src/pynq/lib/logictools/`, firmware in `logictools_arduino/src/logictools_arduino.c`)

*State.* Three generator objects, each with its pins; the shared controller with
`pin_map`, status words and a step count; one trace buffer; the firmware's
engines, interface switch and sample count. *Operations.* `setup`, `trace`,
`run`, `step`, `stop`, `reset`, deletion, of a generator or of several through
the controller. *Hard.* Long sequences of legal calls over shared state; the
trace's transfer ends when it likes. *Correct* when pins have one owner, the
switch connects what runs and nothing else, and the trace stays in its buffer.

### Other parts

| part | source | why it is not modelled |
|---|---|---|
| Microblaze control, `InterruptMBStream` | `pynqmicroblaze.py`, `compile.py`, `bsp.py`, `streams.py:167-183` | a reset pin, files and a compiler; the stream's interrupt only announces data for descriptors that nobody reads asynchronously |
| Overlay parsers, metadata | `hwh_parser.py`, `xclbin_parser.py`, `pynq/metadata/`, driver binding in `overlay.py` | sequential translation of one description to another |
| Buffers, MMIO, registers | `pynq/buffer.py`, `mmio.py`, `registers.py` | wrappers of mmap and XRT; the return of a frame is in `VideoDMA` |
| Clocks, power, peripherals, audio, network, HDMI and MIPI front ends | `pynq/ps.py`, `pynq/pmbus.py`, `pynq/lib/...` | register sequences of single devices, no concurrency |
| XRT and remote devices | `xrt_device.py`, `remote_device.py` | clients of libraries outside the repository |
| Board images | `boards/`, `sdbuild/` | hardware designs, build scripts, vendored code |

`PROJECT.json` lists the hazards of this code, each at its line with the
properties that cover it.

## 2. Modules

| module | models | composed with |
|---|---|---|
| `InterruptService` | what the interrupt module promises a program | abstract specification |
| `AxiIntc` | tasks, controllers, UIO devices, interrupt hardware | implements `InterruptService` |
| `AxiIntc_proofs` | theorems about `AxiIntc`; the refinement | |
| `IntcOverlay`, `Overlay_proofs` | controller objects across overlays; theorems | |
| `ByteQueue` | bounded queue of bytes with block writes | abstract specification |
| `MBChannel` | one ring, either direction, access by access | implements `ByteQueue` |
| `MBChannel_proofs` | theorems about `MBChannel` | |
| `MicroblazeRPC`, `MicroblazeRPC_proofs` | caller and server over two queues of the kind `ByteQueue` describes; theorems | |
| `VideoDMA`, `VideoDMA_proofs` | both channels of the video DMA and a program; theorems | |
| `DeviceState`, `Overlay_proofs` | the FPGA, the two files, Overlays of several processes; theorems | |
| `AxiDMA`, `AxiDMA_proofs` | two DMA channels and their tasks; theorems | uses `InterruptService` |
| `AxiGPIO`, `AxiGPIO_proofs` | tasks that wait on two GPIO channels; theorems | uses `InterruptService` |
| `LogicTools`, `LogicTools_proofs` | generators, controller, firmware; theorems | |
| `MC...` | constants, views and symmetry for TLC | |

`AxiIntc` is proved to implement `InterruptService`; `AxiDMA` and `AxiGPIO`
use that service as their interrupt and not the tree, and are proved to do to it
only what it allows (`UsesService`).

### AxiIntc

Python code runs on one event loop, so the model has one running call at a time:
`control` is the node whose `set`/`_uio_callback` executes, `call` a pending
`add_event`; both empty (`LoopFree`) means that another callback or task may
run. Every register access of `set` is a step of its own, because the hardware
moves in between: `NotifyCtrl` reads IPR (line 188), `TakeLine` writes CIE and
swaps the list (195-197), `NotifyIntr` sets an event (199), `LineDone` counts
(200), `SetDone` acknowledges and registers again (205-207). `add_event` is one
step per node; the nested call on the parent is the next pending call.
`WaitRegister`, `WaitShared`, `WaitReturns`, `Resume`, `Cancel` are the parts of
`Interrupt.wait` between its await points, for tasks that share an `Interrupt`
and may be cancelled. `Raise`, `Lower`, `Latch`, `KernelIrq` are the hardware
and the kernel. The tree (`Parent`, `Number`) is a constant; `Above` is its
transitive closure, and `TreeAssumption` says so without recursion. Wait lists
are sets of entries tagged with a `Slot`, so that a duplicate registration is a
second element: the order of a list matters to none of the properties.

### IntcOverlay

One controller on one UIO, over several overlays. Controller objects are named
by the overlay they were made for; `Alive` is the set that something still
refers to, which is what a weak reference observes. `set` and `add_event` are
single steps here. `Download` resets the registers and changes `PL.timestamp`,
but leaves Python objects alone. `Defined` leaves out waits that the docstring
of `Interrupt` calls undefined.

### MBChannel

`PyWrites` says which end is Python. `WriteLook`/`ReadLook` is one read of the
other end's pointer; both ends repeat it until two reads agree
(`_safe_control_read`, `mailbox_available`). A pointer that was just written may
yield `Rubbish` at the next read; it is assumed that two reads in a row do not
collide with the *same* rubbish, which is what the comment at
`mailbox_io.c:128-129` relies on. `WriteByte`/`ReadByte` copies one byte,
`WriteDone`/`ReadDone` writes the pointer. The different arithmetic of the two
ends (`%` in Python, compare-and-add in C) is kept apart.

### MicroblazeRPC

`frames` is the server's stack; each frame holds the operations left in the code
that `FuncAdapter` generates (read arguments, print, yield, reply).
`HandleEvents` is the generated `_handle_events`, called from the main loop
(`Poll`), from `yield` and from `mailbox_write` when the channel is full
(`PrintSpin`). `Call` writes a command, cut to what fits, as
`MicroblazeFunction._call_function` ignores the result of `write`. `lost` is set
as soon as an end takes a unit for something it is not. Values are one bit, the
parity of the blocking call that they answer.

### VideoDMA

`in_...` is `S2MMChannel`, `out_...` `MM2SChannel`. `InBoundary`/`OutBoundary`
are the hardware's frame boundaries; `in_now`/`out_now` is the memory in use,
loaded from the register of the active store. `readframe` is cut at every access
the hardware can move between: `ReadReady` clears the interrupt bit,
`ReadActive` reads the active store, `ReadSwap` exchanges the frames (with the
`_FrameList` setter that also writes the tied channel's registers). `writeframe`
likewise: `WriteReady`, `WriteUntie`, `WritePlace`, `WritePoint`. Memory given
out anew is memory that nothing refers to. A swap takes less than two input
frames (`MaxSkew` = 1): with more, `_readframe_internal` replaces the frame
being written, which it checks nothing against.

### DeviceState

A design stands for its bitstream, named by the hash of its contents. Each call
of an Overlay is cut at its file accesses: `CompareHash`, `Unpickle`,
`BootCheck`, `Shutdown`, `OpenState` (which truncates), `WriteState`,
`OpenMetadata`, `WriteMetadata`, `Program`. `place` is the next step, `goal` the
call it belongs to. `Kill` takes a process at any step, `Reboot` all processes
and the FPGA's contents; `ProgramFails` is a missing firmware file or a driver
that gives up. One call runs at a time: two processes that configure one FPGA at
once are a misuse no file format could repair. `cut` records what a save owed
when its process died or its download failed; the properties name it as the
exception. With `Later` = FALSE, `download` and `gen_cache` are called on
Overlays whose design is what the FPGA holds, or on being made.

### AxiDMA

One task per channel. A polling `wait` looks for an error (`PollError`) and then
for the end (`PollIdle`); `wait_async` looks (`CheckAsync`) and suspends on the
interrupt service. `Complete`, `Fail` and `HaltDone` are the hardware.
`transfer` is one step: nothing moves on the channel while it writes registers.
`Descriptors` is the block arithmetic of `transfer` for scatter-gather, from
`BlockSize`, `NumDescr` and `BlockLen`. `sg` is the design's mode and fixed by
the initial state. `moved` and `hit` are history: whether the last transfer is
complete, and what befell it. The 32-bit address registers, and the memory
itself, are left out.

### AxiGPIO

A task goes through `Read`, `Enable`, `Register`, the await, `Clear`, `Leave`
and back to `Read`. A task that is between two awaits has the loop to itself;
`Change` may come at any step, and raises the line if the channel is enabled.
`Cancel` ends a wait at its await, whose count stays raised (`axigpio.py:265`).

### LogicTools

Python waits until the firmware has cleared each command, so a method is one
step of both sides (`py`, `fw`), composed of the commands it issues (`FwRun`,
`FwStep`, `FwStop`, `FwReset`, `FwConfig...`) in their order; a method that
raises leaves what its last command left (`Raised`). Only the end of the trace's
transfer, `TraceDone`, is on its own. `odd` records the uses that the code does
not withstand (section 6); each property names those under which it fails, and
holds under all the others.

## 3. Runs

| run | instance | shows |
|---|---|---|
| `intc_tree` | a leaf controller chained to a root on one UIO, a pin on each, 2 tasks, 2 entries per Interrupt and line; about 700 000 states | safety of the tree and that it implements `InterruptService` |
| `intc_live` | the same tree with the second pin on a UIO of its own | a task suspended on a latched line is resumed |
| `overlay_disciplined` | 3 overlays, 2 Interrupts, 2 lines, replaced only while nothing is registered | old controllers die; fresh waits return |
| `mb_down`, `mb_up` | ring of 3 cells, blocks of up to 3 bytes over {0,1}, colliding reads | ends stay apart, each direction implements `ByteQueue`; upwards all calls return |
| `rpc` | void, yielding and blocking printing functions, 7 and 2 units of channel | no unit is mistaken, calls return, functions end |
| `vdma` | 3 stores per channel, 12 pieces of memory, both tasks | single ownership; the hardware keeps what it uses |
| `vdma_race` | the same | violated, the finding of section 6 |
| `device_state` | 2 designs, 2 Overlays in one process and 1 in another, deaths, failures, reboots at any step | the files are true whenever somebody acts on them |
| `logictools` | 3 generators, 3 pins, setups of one pin, 2 trace sizes, one kind of odd use | pins, switch, status and trace buffer stay consistent |
| `axi_dma` | both modes, both channels, blocks of at most 7 bytes, words of 2, arrays of 3, 5 and 13; about 400 000 states | waits mean what they say and end; nothing in use is freed |
| `axi_gpio` | 3 tasks on 2 channels, 2 values, one cancelled wait | no value missed, no line enabled for nobody |

*Why the bounds are enough.* Two chained controllers are the smallest tree in
which `set` runs inside `set` and registers from there; two tasks and two
Interrupts give shared, competing and cancelled waits; the theorems cover every
other tree. Two slots suffice to see a duplicate registration; `EnabledIffAwaited`
and `RegisteredOnce` would fail before a third. A ring of 3 holds two bytes:
blocks of 1 to 3 bytes fit, wrap, are cut short and find no room; again the
theorems cover other lengths. In `rpc` the upward channel is shorter than the
printed text, so a print fills it and serves other calls; `MaxBehind` = 3 bounds
the void calls that are outstanding and thereby the nesting. In `vdma` 3 stores
are the fewest that the arithmetic `(active + 2) % N` and `(desired + 1) % N` is
safe for; the repository's designs have 4, on which the same run also passes
(2 million states, too slow to be kept). `MaxHeld` bounds the frames a program
holds when it asks for another. Its `View` in `MCVideoDMA` renames pieces of
memory to the first place they are at, and drops what is overwritten before it
is read: which memory a frame is tells no two states apart.

`device_state` has one design more than the FPGA holds and two processes, of
which one has two Overlays that share a `Device`: a file can be stale in another
process and in one's own. Its view drops `goal` between calls, which the next
call sets. In `axi_dma` the arrays are
the cases of the block arithmetic, the largest block being 6: 3 bytes give a
block size of 0, for which the transfer is refused, 5 are cut into blocks of 2,
13 into two of 6 and a rest. In `axi_gpio` two
tasks can share a channel while the third has the other. In `logictools` three
pins give each generator its own or a conflict; `MaxSteps` = 1 tells a first
step from a later one; `Followed` ends behaviours at a refused setup and at a
buffer freed in use, after which no property promises anything.

`intc_tree`, `device_state` and `logictools` use symmetry, for properties
without liveness only.

*Deadlock* is checked in every run but `device_state` and `logictools`, where a
program that calls nothing more is no error.

## 4. Fairness

* `AxiIntc`, `IntcOverlay`: weak fairness of latching, of the kernel's handler
  and of the running call, which are a circuit, an interrupt handler and
  straight-line code. Strong fairness of `UioCallback`: tasks may run in
  between, so the callback is not enabled all the time, but the loop polls its
  descriptors in every iteration. Nothing is assumed of devices or tasks.
* `MBChannel`: both processors run, and both programs keep using the channel:
  a read of more than the ring holds cannot return if nobody writes.
* `MicroblazeRPC`: both processors run. `BusySpec` adds that the program makes
  a blocking call now and then; without it `ServiceEnds` does not hold
  (section 6).
* `AxiDMA`, `AxiGPIO`: weak fairness of straight-line code, of transfers and
  halts, and of the interrupt service's release, which is what `intc_live` shows
  of the tree. Strong fairness of what a task does after its await, because
  another task may have the loop in between; the loop takes ready callbacks in
  their order. Nothing is assumed of errors, inputs, stops or cancellations.
* `VideoDMA`, `DeviceState`, `LogicTools` state no liveness.

## 5. Theorems

Proved by TLAPS for every value of the constants that satisfies the named
assumptions.

**Interrupts** (`AxiIntc_proofs`): `TypeCorrect`, `CountsCorrect` (`event_number`
is exact), `EnabledExact` (a line is enabled iff awaited), `RegistrationExact`,
`NoLostWakeup`, for every finite set of controllers in any tree of any depth,
any pins, tasks and Interrupts. `WaiterArmed` alone is not inductive: it says
nothing while a callback runs. `IInv` adds where everything is meanwhile: the
stack of entered nodes is the path above `control`, and only those hold entries
they took (`StackInv`); a controller with waiters is listed with its parent,
taken by it, entered, or being registered, and in only one of these places
(`PlaceInv`); the same of the event of every suspended task (`TaskInv`); masks
at the root (`Armed`). There is one lemma per action; for `TakeLine`, `SetDone`
and the `add_event` steps the argument is that a controller that is `Active` is
on nobody's list, so its new registration is its only one. `WaiterArmed` then
follows with `LoopFree` (nothing is active, taken or called) by closing the set
of armed nodes under `Parent`.

**The interrupt service** (the same module): `ServiceImplemented`, the
tree implements `InterruptService`, on which `AxiDMA` and `AxiGPIO` are built.
It needs one more invariant, `Served`: the lines that a running `set` has read
stay latched until it acknowledges them, it serves entries of those lines only,
and while a callback runs only controllers register. Hence an Interrupt whose
`set` is called is at an active pin (`Release`), and when a line is acknowledged
or a callback ends, whoever is on the emptied list is a controller and no task
(`Forget`).

**Mailbox** (`MBChannel_proofs`): `TypeCorrect`, `EndsApart`,
`ReadsWithinRequest` and `ChannelIsQueue` (the refinement of `ByteQueue`), for
every ring length above 1, every byte set and both directions. The invariant
says that an end which copies has room, or data, for its whole chunk however far
the other end has moved since it looked, because the other end only ever makes
more of it, and that what was copied so far is in place. `ReadsWithinRequest`
assumes `Proper`: Python does not ask for 0 bytes (see below).

**Video frames** (`VideoDMA_proofs`): `TypeCorrect` and `OneOwner` for any number
of stores and frames; `InputKept` and `OutputKept` for 3 stores or more, the
former with at most one boundary during a swap. `VInv` adds to the owners of both channels' stores the frame that
`readframe` is about to put into one (`Owners`) and what the tasks' locals say
(`Locals`). `Written` says how far the hardware is ahead of the store that is
being replaced; that it is never the same one is arithmetic modulo the number of
stores (`Around`), and false for two.
`OutputKept` needs `Screen`: what the hardware shows is the frame placed last or
the one before, at the store its register or the last boundary names, and the
store that `writeframe` replaces next is neither. Two stores leave no third one:
on an instance with N = 2 TLC finds `OutputOwned` violated, so the assumption is
needed.

**Remote procedure calls** (`MicroblazeRPC_proofs`): `AlwaysFramed`, for any
functions, arguments, texts and channel sizes that satisfy `VoidQuiet` (void
functions do not print) and `CommandsFit`, for which `MCMicroblazeRPC` is an
instance; TLC finds `Framed` violated without the first (section 6), and without
the second with a channel one unit shorter. `Framed` says nothing of what is in
the channels, so the invariant `RInv` describes both of them completely.
Downwards (`Downs`) there are the arguments of the function that reads them,
then whole commands, of at most c units each while the program runs, so that the
next one is not cut. Upwards (`InFlight`) there are replies of void functions,
then the part of the blocking call's reply that is written and not read, and
after its end replies of void functions again. `Sync` ties the ends together: the
s units the server still has to write follow from the stage the blocking
function is at (`Rest`), the r units the client waits for from what it does
(`Awaiting`), and between them are exactly the r - s in the channel. A blocking
function is always the innermost (`Shape`), because nothing follows its command
before it has answered: a yield or a print that finds the channel full serves
nothing. `TypeCorrect` holds without assumptions, a write pointer that comes
round the ring (`Ring`) included.

**Interrupts across overlays** (`Overlay_proofs`): with `MayPend` = FALSE, for any
number of overlays, Interrupts and lines, `OldControllersGone`: `Invalidated`
holds. It looks at references to controllers, but says nothing before the new
overlay's first `get_controller`, and nothing while a callback runs. `OvInv`
fills both in: the one controller kept is that of the overlay seen last
(`Known`); only the loaded overlay's has waiters, and while it has it is, once,
on the UIO's list or among those a callback has taken (`Registered`); whoever is
suspended, or waits for an event that is not set, is registered (`Enlisted`), so
that a coroutine cannot be what keeps an old controller alive. With a wait
pending at a download TLC finds `Invalidated` violated in four steps.

**Device state** (the same module): for any designs, processes and Overlays,
`CacheCorrect`, `MetadataCorrect` and `LoadedCorrect`; with `Later` = FALSE also
`StateCorrect` and `ShutdownCorrect`. The invariants say which file is whose at
every step of a call (an Overlay past `save` owns the global state, past `dump`
the metadata), and that a process that has been told otherwise looks at the FPGA
before it believes the global state.

**AXI DMA** (`AxiDMA_proofs`): `ListsTile`, for every block size, stream width
and array: a lemma about the arithmetic (`DescriptorsTile`: rounding down to
words, rounding the count up, no product of `i * b` in two blocks) and that
every list is made by it. `MemoryKept` and `WaitsComplete` come from `DmaInv`,
which says for each channel that its list is that of its array (`Listed`), that
what the hardware moves is kept (`Held`), and that a transfer not under way is
complete or accounted for by `hit` (`Accounted`). `UsesService`: seen through
`active` and `awaiting`, every behaviour is one of `InterruptService`.

**AXI GPIO** (`AxiGPIO_proofs`): `NoMissedValue` and `EnabledExactly` for any
finite number of tasks. `Counted`: the waiter count is the number of tasks from
`Enable` to `Leave`, plus the cancelled one; `Noticed`: a task whose value is
there already, and that has not looked, has an interrupt coming. `UsesService`
is as for `AxiDMA`.

**Logic tools** (`LogicTools_proofs`): all five properties, for any pins, sizes
of traces and numbers of steps. `PinsCorrect`: the lists are disjoint and
`pin_map` is their union (`Exclusive`) as long as no setup was refused. It needs
`Bare`: a generator that is RESET, by its own status word or the firmware's,
lists no pins, so that a new setup forgets none. `RInv` adds the rest, each part
under the odd uses it withstands. `Equipped` (a generator that is set up has its
specification and, if traced, a buffer) is why no method raises half way, hence
`StatusCorrect`. `Selected` says that the switch connects listed pins of running
generators only (`SwitchCorrect`), `Wiring` that it connects all of them
(`ConnectedCorrect`). `Bounded` says that the number of samples fits the buffer
and also the one that a STOP will restore (`TraceCorrect`): without the second
part the property is not inductive. `Started`, `Stopped` and `StillFits` are the
effect of run and step, and of stop and reset, on these parts.

`VideoDMA_proofs` assumes the number of stores and `MaxSkew` in the theorem that
needs them, `Overlay_proofs` the values of `Later` and `MayPend`.

## 6. Where code and documentation disagree

The run `vdma_race` shows that `readframe` may return a buffer nothing was
written to, although it blocks "until a complete frame has been read"
(`dma.py:169`).

These were found with variants of the configurations, which are not kept as runs:

* *Interrupts.* `IntcOverlay` with `MayPend = TRUE`, `MaxEpoch = 1` violates
  `FreshWaitReturns`: a controller with a pending wait survives a change of
  overlay in its UIO's wait list, although `get_controller` "will invalidate all
  interrupt controllers", and then disables and acknowledges the line that the
  new overlay's waiter needs. A cancelled wait leaves its line enabled
  (`docs/source/pynq_libraries/interrupt.rst:13-14` says only while awaited).
* *RPC.* `MicroblazeRPC` with `Fn = {"poke", "get"}` under `FairSpec` violates
  `ServiceEnds`: replies of void functions (`rpc.py:519`) fill the channel until
  the server stops, although they run without blocking the Python thread
  (`pynqmb_python.rst:57-60`). With `Fn = {"log", "get"}` under `Spec` it
  violates `Framed`: a call served from inside a print that found the channel
  full puts its reply in the middle of the text.
* *Device state.* With `Later = TRUE`, `StateExplained` and `ShutdownRight` fail:
  `gen_cache` of a design that was never downloaded, or a second `download` of a
  cached Overlay after another design's, leaves a global state that is not "the
  currently configured bitstream" (`global_state.py:30-31`).
* *Logic tools.* Without its premise about `odd`, and without the constraint
  `Followed`, each of the five properties is violated.

Seen while modelling:

* *Mailbox and RPC.* Python's `read(0)` on a channel with data fails its
  assertion (`streams.py:63,78`); commands that do not fit are cut
  (`rpc.py:864`); `freebuffer()` on a cached frame followed by the destructor
  unmaps memory the cache has given out (`buffer.py:73-82`).
* *Device state.* A process that dies between truncating and writing the global
  state makes every `Overlay()` fail until `PL.reset()`. The first download
  after a reboot of a design in the cache leaves no global state. An Overlay
  that was never downloaded says that it is loaded. `PL`'s dictionaries are
  cached for good (`pl.py:76-99`).
* *DMA.* `wait_async` never looks for an error and its interrupt is not enabled:
  the task sleeps for ever. A cyclic transfer, or its stop, on the send channel
  resets the receive channel, whose `wait` then returns normally, although "The
  wait() method ensures the DMA transactions have completed" (`dma.rst`). An
  error after the last look for one is missed; the mask of the descriptors'
  status misses the decode error, bit 30. `_cyclic` is set before the refusal
  (366), so that a later stop resets the core. A block size of 0 is a
  `ZeroDivisionError`, and an array of exactly one block gets one descriptor
  where a comment asks for two (375). `wait` of a simple channel that has not
  transferred anything spins for ever; `stop` leaves a pending `wait_async`
  asleep.
* *GPIO.* `wait_for_interrupt_async` of one channel returns when the other is
  signalled; a cancelled wait leaves its count raised, after which the other
  channel's waits return at once for as long as the line is high.
* *Logic tools.* `boolean.step()` followed by `pattern.step()` runs the pattern
  unconnected (`logictools.rst:66-68`, `pattern_generator.py:467`); a refused
  setup leaves its pins in the generator's lists, so that its reset frees
  another one's; `trace(False)` and deletion free the shared buffer under other
  generators; the buffer keeps its size when a larger one is asked for; the
  count STEP saves survives a new CONFIG_TRACE; running one engine switches the
  Boolean generator's outputs off; `reset` or `stop` through the controller of an FSM
  that was never set up raises after its commands were carried out; a pattern's
  initial value connects its pins at setup, and a reset in READY leaves them so.

## 7. Only model-checked

Every safety invariant and action property of the passing runs has a theorem.
Liveness (`LatchedWakes`, `FreshWaitReturns`, `CallsReturn`, `CallReturns`,
`ServiceEnds`, `WaitEnds`, `ValueSeen`) is beyond the prover, which has no rule
for fairness and no `ENABLED`.

## 8. Not modelled

Within the modelled parts: the 32-bit width of registers and pointers (lines,
cells and arrays are far smaller), error bits of the VDMA, `setframe` and
`reset`, the frame cache's capacity, `mailbox_open`, `mailbox_close` and
`mailbox_lseek`, C type translation, typedef classes and `call_async` of the
RPC, partial bitstreams and device trees, the encodings of expressions, patterns
and state machines, and the processing-system trace analyzer. The rest of the
repository is the table at the end of section 1: sequential translation and
register sequences, where a test says as much as a model, and code of others.
