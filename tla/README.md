# EERecomp: specification and proofs

EERecomp turns a PlayStation 2 executable into C++ and runs the result on a
runtime that stands in for the console. This directory holds TLA+ modules that
model that runtime, the recompiler and its tools, the TLC configurations that
check them on small instances, and TLAPS proofs of what holds on every instance. Paths below are relative to
the repository root.

## The system

| Part | State | Operations | Interacts through |
|---|---|---|---|
| EE kernel, `runtime/src/kernel.cpp` | threads, ready queue, current thread, semaphores, the baton, quit and teardown flags | about 30 syscalls, the destructor | called by generated code on the guest's host threads |
| Interrupts, same file | handlers, masks, alarms, pending queue, in-handler count, bus clock | clock thread, `raise_intc`, `raise_dmac`, `fire_pending` | queue filled by the clock thread and the SIF, emptied at syscalls and basic-block polls |
| SIF and HLE IOP, `iop.cpp` | SIF registers, command queue, receive buffer, RPC servers, IOP allocator | DMA kick, bind, call, end, module handlers | called from MMIO writes; raises EE interrupts |
| DMAC, VIF, GIF, MMIO, `hw.cpp` | channel registers, GS registers, partial packets | register writes, chain walk, unpack | MMIO from generated code; feeds VU1 and the renderer |
| Runtime, `runtime.cpp` | function table, guest memory | `find`, `call`, `load_elf`, polls | everything above |
| Runner, `runner.cpp` | - | calls the guest until `quit_requested()` | owns the runtime; its thread is EE thread 0 |
| VU0, VU1, renderer, disc reader, overrides | vector state, pixels, image file | - | behind the hardware above |
| Analysis, codegen, ELF, R5900 | code graph, emitted text | one pass each | command-line tools, ee-tools |
| ee-tools, launcher | a worker thread beside a window | start, poll, commit, quit | shared fields and atomics |

What is hard in it: the kernel runs every guest thread on a host thread of its
own and passes a baton between them by hand, with a flag and a condition
variable per thread; queues, statuses and counters are edited by every syscall;
handlers run on top of whichever thread polls first and may switch threads in
the middle; the destructor wakes every host at once. Almost nothing of this is
reached by `tests/test_kernel.cpp`, which runs a handful of straight sequences.
Around it are cross-thread results in the two applications, packets split across
transfers in VIF and SIF, and unbounded or unchecked walks in the DMAC and the
disc reader. `PROJECT.json` lists each hazard at its line.

What makes each part correct:

- scheduler: one host executes; no wake-up is lost; the ready queue is exactly
  the ready threads, by priority, first in first out; no ready thread outranks
  the running one; no wakeup, suspension, joiner or semaphore token is lost;
- interrupts: an alarm fires once; handlers do not nest; masking ends;
- destructor: it releases every host and returns;
- SIF: every command is processed once, in order, and answered to the caller;
- DMAC, VIF, GIF, VU1: whatever the shape of a chain, what its packets mean
  reaches VU memory and the GS, in order, and the register write that starts it
  returns;
- EE core: HI and LO hold what was accumulated; a quotient and its remainder make
  the dividend again; unaligned pairs and lane idioms do what they are for;
- analysis: the ranges are disjoint, and the rescue finds what they leave out;
- code generation: the emitted C++ executes what the guest would, slot by slot;
- ee-tools: one job at a time, inputs hold still, results published once;
- launcher: the game that runs is the disc that was shown, and the window's state
  outlives the game's thread.

## Modules

`ReadyQueue` holds the queue as operators on sequences. `EEKernel` is the
scheduler with the calls a well-behaved guest makes. `EEKernelAdmin` extends it
with the calls that reach into another thread (DeleteThread, TerminateThread,
ReleaseWaitThread, DeleteSema) and with the destructor. `EEInterrupts` extends
that with the clock thread, the queue and the handlers. `Sif` extends that with
the SIF's commands, RPC routing and the one receive buffer, and with the part of
the game that talks to them; `RpcService` is what RPC promises a client, and
`Sif` is checked to implement it.

The others stand beside these.

- `EETools`: the window's thread of ee-tools and its worker.
- `GuestCode`: guest programs of words, and the machine they were written for,
  with delay slots and likely branches. `Analysis` extends it with function
  discovery, and `Recompiled` extends that with the emitter and with the run of
  the emitted functions, in lockstep with the machine. `MCRecompiled` names the
  programs.
- `EEDevices`: the DMA controller, the VIF, the GIF and the run of VU1's
  microprograms. `DevicePrograms` lays out packets along chains and says what
  they mean.
- `EEArithmetic`: multiplication, division, HI and LO of both pipelines.
- `EEVector`: unaligned access and the MMI instructions on bytes and integer
  lanes. `VectorPrograms` lists what compilers and programmers do with them.
- `Launcher`: the game launcher's window, command line and game thread.
- `MCParts` puts the parts that are not the kernel's or the recompiler's side by
  side: a behaviour of it exercises one of them while the others stay still.

Each `MC` module names small values and the guests of its runs.
`EEKernelProofs`, `EEKernelSchedProofs`, `EEKernelAdminProofs`,
`EEInterruptsProofs`, `EEToolsProofs`, `AnalysisProofs`, `EEArithmeticProofs` and
`LauncherProofs` hold theorems and import nothing that is taken on trust.

State and code correspond as follows.

| Model | Code |
|---|---|
| `status`, `wait`, `prio`, `wakeups`, `suspends` | the fields of `Kernel::Thread`; `"none"` is an id not yet in `m_threads` |
| `ready`, `current` | `m_ready`, `m_current` |
| `dispatchDisabled`, `quit`, `destroying` | `m_dispatch_disabled`, `m_quit`, `m_destroying` |
| `semaState`, `count`, `maxCount`, `waiters` | `m_semas`; `"deleted"` is an id of 0 |
| `allowed`, `exitReq` | `Thread::allowed`, `Thread::exit_requested` |
| `host[t]` | the program counter of the host thread of t: `at` is the place, `on` the thread (or semaphore) the place refers to, such as the thread whose condition variable `switch_to` waits on |
| `pending`, `inHandler`, `handling` | `m_pending`, `m_in_handler`, the handlers on each host's stack |
| `alarms[a].left`, `vblankIn`, `timerIn` | deadlines, in passes of the clock thread's loop |
| `registered`, `announced` | `m_ee_recv_addr` is not 0, `m_bootend_sent` |
| `early` | `m_pending_ee`, by packets |
| `inbox` | the packet in EE memory at `m_ee_recv_addr` |
| `loop`, `job.at` (`EETools`) | where the window's thread and the worker's thread are |
| `path`, `image`, `error`, `pending`, `ready` | `elf_path`, `image`, `load_error`, `pending_load`, `load_result_ready` |
| `text`, `range` | what the boxes of the Disassemble tab hold (`start_buf`, `end_buf`, the section's box), and `range_start`, `range_end`, `section_name`, which each frame of that tab assigns from them |
| `options` | imports, output names and switches, as one bit that an edit flips |
| `client[c]` | client data of the game's sifrpc library: where c is, its request, the reply it was handed, the handle of its last bind |
| `functions`, `claimed`, `tables` (`Analysis`) | `Result::functions`, `Walker::claimed`, `Result::jump_tables` |
| `fi`, `queue`, `at`, `maxEnd` | where `process_pending` and `walk` are |
| `bodies[f]`, `frames` (`Recompiled`) | the statements of the emitted function that starts at f; the C++ stack |
| `pc`, `npc`, `returns`, `flag`, `reg` (`GuestCode`) | the guest's machine: not in the repository, what the recompiled code has to agree with |
| `channel`, `chain`, `vifWords`, `gifWords`, `gifTag` (`EEDevices`) | `Dmac::ch`, the locals of `run_chain`, `Vif::feed` and `Gif::feed` |
| `imem`, `vu` | `Hw::vu1_imem`, `VuMicroCtx` |
| `lo`, `hi`, `r`, `mem` | `EEContext`, `Memory` |
| `worker`, `running`, `disc`, `game`, `settings` (`Launcher`) | `GuiState`, the `BootCopy` of the worker, the settings and their file |

Atomicity. A syscall runs on the host that holds the baton and no other host
executes meanwhile (this is `BatonExclusive`, which is proved), so one action is
one syscall up to the point where its host waits: in `switch_to`, in
`park_forever` or in `host.join()`. The end of a wait is an action of its own.
Loops over other threads (waking joiners, the waiters of a deleted semaphore,
the destructor's signals) take one action per thread. A `TakeBaton` step is the
wake-up and `prev->allowed = false`, which the code does under one mutex.
`ExitThread` and `FinishThread` are split in three: the status, the joiners, the
hand-over. `host[self].on` is not always `self`: during teardown `m_current` is
no longer the thread of the host that executes, and `block_current` and
`sys_rotate_ready` wait on `m_current`'s condition variable.

A server word is the three bits that `sif_cmd_call` tests and a name for the
rest; `XorServerId` flips bits 31 and 29, which is what `^ 0xACACACAC` does to
those three. The client library (`SendRequest` to `SendCommand` in `Sif`) is
not part of the repository; it does what the comments of `iop.cpp` say of it:
it installs its DMAC handler before it registers a buffer, each thread has one
request out and waits for it on a semaphore of its own, and the handler empties
the buffer, stores the reply and signals. It does not block inside its own
handler. One command is processed, and its reply written and its interrupts
queued, in the syscall that sends it, so that is one action; what follows (the
handler on whichever thread polls first, the wait, the wake-up) is not.

In `EETools` the user does one thing in a frame, and a file may be dropped
before any frame. A frame that shows the Disassemble tab also assigns
`range_start`, `range_end` and `section_name`, whether or not a job runs, while
only an idle frame lets the user change what they are assigned from
(main.cpp:714). The assignment has two steps; of a new value a job could see half,
of the value that is there already it sees nothing, as the same bytes are stored
in place. `Worker::start` is two actions, since it joins the thread of
the job before; `drain` is two, since it lets go of the lock between them. The
assignment of a dropped path is not atomic: a job that reads the path meanwhile
reads anything. A disassembly, an analysis and a recompilation log lines and
look whether they are cancelled; what they compute and write is left out, and so
are the cap of four million log lines, the progress bar and the file browser
(which ends like a dropped file). The two variables `printed` and `asked` only
remember what happened.

In `GuestCode` a word is an instruction: a step, a step that changes the
condition of a branch (`flip`), a prologue (`frame`), a branch, a jump, a call,
a return, a jump through a table, or data. `Analysis` visits one instruction an
action. An address is in Exec or not; the table of a `jr` is given with it,
since the look back for its address (`resolve_jump_table`, lines 150 to 222) is
left out. The statements of `Recompiled` are those that carry control; an
`exec` statement is whatever the emitter prints for an instruction, and it may
only run when the machine is at that instruction.

In `EEDevices` a word is a tag, a command, an instruction or data, with the
fields the code takes from it; data can be told apart, so a word that is written
to the wrong place shows. A tag has one number for its low word, of which QWC is
the remainder and which is the address as a whole (hw.cpp:436), so the programs lay each
block that a tag refers to where its address gives the QWC that is meant, as a guest
would have to. Addresses count bytes, and transfers begin at a word. One action is one turn of a loop of the code. Of a
microprogram the lower words are kept: integer operations, branches and the
store that ends it. An encoding is the code's own: an immediate is made of the
register fields, vi01 reads as 1, and a branch has no slot. `EEArithmetic` has
words of W bits, and LO and HI of 2W; that a multiplication also writes LO to `rd`
is left out, as nothing reads it back; `EEVector` has bytes.

In `Launcher` a path stands for a disc or a file, and `Depth` says how far
opening it gets: to the image, the boot name, the program and its checksum.
Drawing and the console's text are left out.

Left out of the kernel: registers, stacks and entry addresses (data), return values except
through what they decide, tracing, `ReferThreadStatus` and `ReferSemaStatus`
(read only), calls the code answers with a constant. A host that was told to exit
executes as another thread than its own, so it can call `DeleteThread` of its
own, in the teardown or while its deleter joins it; `host.join()` would then throw, and
a guard excludes it. The joins of `StartThread` and `DeleteThread` return once
the host they wait for has ended (`JoinReturns`). In the teardown the destructor
may join the same host, which is undefined for a `std::thread`; here both joins
return.

During teardown the released hosts execute together. The model interleaves
their syscalls one at a time, as if the kernel's lock covered each call; the code
locks parts of each. What `destroy` says about teardown is about that interleaving.
Its guests go on there with the calls after which a host comes back or waits in
`block_current`, whose branch for the teardown (kernel.cpp:118) is thus taken:
sleeping, waiting, signalling, waking, joining, exiting, returning. Kept out of the
teardown are: StartThread, whose new host the loop of signals may have passed;
DeleteThread, whose join is then one of two; CreateThread, which inserts into the
map that the destructor goes through; ExitThread and JoinThread by a host that is not
the current thread's, since two hosts then wait on one condition variable and
`notify_one` wakes one; and RotateThreadReadyQueue, which hangs and has a
run of its own, `teardown`.

## Runs

All of them switch deadlock checking off: a guest whose threads have all ended
leaves every host parked, a window that was closed is gone and a transfer that
is over does nothing more, and that is where such a program really stops.

| Run | Shows |
|---|---|
| `kernel_sched` | three threads, two priorities, every scheduling call, every interleaving: the scheduler's invariants |
| `kernel_sema` | three threads and one semaphore, fair hosts: waiters, tokens, first in first out; the baton reaches the thread it was given to; joins end |
| `destroy` | threads deleted, terminated and released, a semaphore deleted, from `Init` to the end of the destructor: one host executes until the destructor begins; DeleteThread wakes the joiners of its target before it returns; the destructor returns, with guests that go on calling the kernel while it waits for them |
| `intr_any_guest` | any call anywhere, handlers included, through the destructor: alarms fire once, handlers do not nest |
| `intr_live` | a worker woken from handlers: alarms are handled, masking ends |
| `sif` | two clients that bind, call and ask for data in any order while VBlank handlers switch threads: `Sif` implements `RpcService`, so each request is answered once, suitably and in the end |
| `recompiled` | programs of branches, branch-and-links, calls, tables, stubs, prologues and moved parts, with overlapping functions and slots that are targets, analysed with and without a cancellation: ranges are disjoint, what was reached is emitted but for three shapes, every goto has one label, the analysis ends, and the emitted code executes the machine's instructions until it meets one of four things it does not carry over |
| `parts` | idioms of unaligned access and of lanes; HI and LO; DMA chains of VIF and GIF packets and of microprograms, some without an end; the launcher through second launches and closed windows; ee-tools with two jobs of any kinds, files dropped, boxes assigned and Cancel pressed at any moment: a job's inputs hold still, a load is committed once and leaves an image or a message, a cancellation reaches its own job, the running job's log is complete |

Four more runs each expect a violation: the code does not keep what a comment of
it says. They are the `findings` of `PROJECT.json`.

| Run | The code says | What happens |
|---|---|---|
| `restart` | StartThread joins with "previous run finished; reclaim" (kernel.cpp:250) | the host of a finished run is parked until it is told to exit, which only DeleteThread and the destructor do: `RestartReturns` fails, and the program stands still |
| `teardown` | "stops and joins all threads" (kernel.hpp:29), "never park during teardown" (kernel.cpp:119) | `sys_rotate_ready` does not look at `m_destroying` (kernel.cpp:371): a released host that rotates the ready queue waits for a turn, and the destructor joins it for ever |
| `sif_call` | "fabricated sd (sid ^ XOR) -> HLE IOP module: handle it here" | a bind's handle never has bit 31 set, and calls are routed to modules by that bit: every call to a bound service fails |
| `recompile_moved` | "Rescue each such address as its own function", or it "would otherwise become an unregistered call" | a rescued word that branches back into the middle of its old owner is emitted as exactly such a call, and the function ends early |

More disagreements follow from definitions a reader can open, and have no run of
their own.

- The kernel. Waiters of a deleted semaphore return success without a token
  (`DeleteSemaWake`; kernel.cpp:511 against :551). `DeleteThread` of a thread
  that has exited lets its host run the code after ExitThread (`LeavePark`;
  kernel.cpp:303). A handler that wakes a thread of higher priority leaves
  interrupts masked while that thread runs outside any handler (`Unmasked`;
  kernel.hpp:73). A lone thread that sleeps with an alarm armed makes the program
  quit under the comment "either program end or a genuine deadlock"
  (kernel.cpp:121).
- The SIF. With a third client two things more can happen. A VBlank handler
  gives the processor to another thread: interrupts then stay masked outside any
  handler for as long as that thread computes, and a reply that is queued
  meanwhile is not handled. And while interrupts are so held back two clients
  send, and the second reply overwrites the first (iop.cpp:564), so that one
  waits for ever or is handed the other's.
- The recompiler. `MCRecompiled` names four things that emitted code does not
  carry over (`Strays`), and `recompiled` follows a run up to the first of them. A call of
  an address at which no function starts does nothing. A branch-and-link that is
  taken is emitted as a branch, so that what it calls does not come back
  (codegen.cpp:331). Code that goes on behind its range ends its function, as
  every word of a rescued part but its jumps does (analysis.cpp:485,
  codegen.cpp:194). A slot that is entered from elsewhere is followed by its jump
  all the same, and that of a likely branch is fallen into when the guest would
  skip it (codegen.cpp:347).
  `ReachedIsEmitted` names the three shapes in which a reached word is in no
  function; each occurs in `recompiled`. A `jal` to a word that another walk has
  claimed makes a function that is empty and cuts the owner there, and the word,
  being a start, is not looked for (`Swallowed`; analysis.cpp:480). A branch back
  over the start of its function claims words that are not looked for either, as a
  word is lost only if it lies behind its owner's range (`BeforeOwner`; analysis.cpp:483; the program
  `Backward`). And a rescued word may cut the function that it lies in
  (`CutByRescue`; the program `Crossing`): function 1 branches over function 5 to 8,
  and function 5 jumps from 6 over 8 and 9 to 10; function 1 is truncated at 5, so
  its word 8 is rescued; it cuts function 5 to [5, 8), and word 10 is in no
  function.
- The devices. QWC and the address of a chain tag are read from one word
  (hw.cpp:436), so a tag with an address of its own has the QWC that the address
  happens to end in. test_hw.cpp:159 means to go on at 0x100050 with a QWC of 2:
  the word is 0x20100052, QWC is 82 and the chain goes on at 0x100052; the test
  passes by what lies there. UNPACK of elements smaller than a word
  does not skip its padding, and a packet cut by the end of a transfer is not
  resumed (hw.cpp:232). VU1's end bit is part of the operation code, so every
  operation in 0x10-0x1F and 0x30-0x3F ends the program (vu1.cpp:514), and an
  immediate shares its bits with the registers (vu1.cpp:157).
- The launcher. A second launch ends the process, as it assigns to a thread that
  nobody joined (main.cpp:525). Closing the window waits for a game that nobody
  asked to quit (main.cpp:589), under the text "close the window to force quit"
  (main.cpp:542). "Settings saved." also when the file's directory
  does not exist yet, which only a boot file makes (main.cpp:150).

Bounds. Three threads are the least with a running one, one being woken and one
queued or joining; two priorities distinguish above, equal and below relative to
any thread. `MaxWakeups`, `MaxSuspends` and `MaxDisables` bound outstanding
counts; 1 lets a count be taken, cancelled and found empty (the theorems hold for any
value). `MaxPending` and `MaxDelay` bound the interrupt queue and alarms: two
queued interrupts give order and delivery during a handler, and the two alarms
of `intr_live` simultaneous deadlines. `VblankTicks` and `TimerTicks` are 17 and
10 in the code; 1 or 2 here, so that the pulses meet alarms in every phase.
`BeforeQuit` stops at the first state in which the kernel asks to quit: from
there on a thread marked WAIT executes, and the invariants written with `~quit`
do not apply. `destroy` and `intr_any_guest` go beyond it, and so does the
theorem about the baton. `ShortQueues` bounds queues that grow once a thread can
be queued twice (after `quit`, or through ReleaseWaitThread).

In `sif` two clients are the most for which each is answered: one may be in the
middle of a VBlank handler while the other has its request out, and then the
handler has nobody to switch to; what becomes of a third is told above. One
registered service and one that is not give both answers to a bind; `MaxEarly` is 2 where the code holds 4096 bytes, enough for
the limit to be reached; packets wait there only before the buffer is
registered, since nothing takes them out later.

`destroy` has two threads beside the main one and no semaphore, or one and a
semaphore that is created with a count of 0: a joiner and its target beside a third that
deletes, or two waiters. A thread whose wait was released is queued again only
while the ready queue is short (`ShortReady`), as it may be queued without end.
Until the program quits its guests make every call of `EEKernelAdmin` but a
StartThread of a thread that has run (the run `restart`) and what only changes
counts and priorities. `restart` and `teardown` need two threads to fail.

In `recompiled` twelve words hold a function, another one, and a part of the
first that the compiler moved behind the second, of two or three words. Two
instructions of the first are any branch, jump, call or table to words of either,
or a branch-and-link to the middle of the first or to the second; the moved part
ends with a return or a jump to either start or to the middle. Two more programs
are given word by word. Left out are `bltzall` and `bgezall`, the branch-and-links
whose slot is nullified. `MaxFrames` 4 is more than their calls nest. `Window` and `Span` are 0x1000 and 0x10000 bytes in the code. A slot holds
no branch: compiled code does so, and the emitter takes it for granted.
`recompile_moved` has those programs whose moved part jumps back to the middle of the first.

In `parts` words of 3 bits have every edge (0, 1, the greatest, the least, all
ones) and products of twice their size; pipeline 1 has one pair of operands,
which shows whether the two are kept apart; a handler multiplies once between
`pmfhl` and `pmthl`. The 24 bytes of memory hold every placement of two unaligned
double words; lanes of one and two bytes take the limits of a byte in every
pair. Three packets of any kinds in any order, for VIF1 along a straight chain and for the GIF
along each of four shapes, give each kind its neighbours; the other shapes have
pairs, and those with a third nested call (`deep`) or sixteen quads to a tag
(`wide`) fewer, since there it is the chain that is looked at. A chain has
up to six tags; `MaxTags` 7, `MaxSteps` 14 and `LoopSteps` 6 stand
for 100000, 1000000 and 100, and each is reached: by a chain that loops, by an
instruction that branches to itself and by a program that comes back to its
start. `QwcRange` 64 stands for 65536: no block is longer, and an address can
have any QWC. `MicroSize` 6 is 2048 in the code. Packets are not cut by transfers,
elements are whole words and REGLIST data has an even count: what the code does
with others is told above. Two discs,
one that holds no program and a file that is no disc give every way that
opening ends. The two jobs of ee-tools are a load and a job on what it loaded, or
a load that replaces it; a third would take the run over its time, and all but `LoadEnds`
is proved for any number. One file that holds an ELF and one that does
not give both results; two log lines let a job log on between the two halves of
`drain`; two texts let a box change or stay.

ReleaseWaitThread is the one call that makes the queues inexact: the released
thread stays in its semaphore's queue, and a later signal readies it whatever it
is doing by then. With it `ReadyExact`, `WaitersExact` and
`DeletedThreadHasNoJoiner` do not hold (the signal can make an ended thread
ready, and a thread that joins it then waits for ever); nothing in the repository
promises them with it. The first two are checked without it, and the theorems about
all three are. In `destroy` threads are released, but beside a semaphore there are
only two, one too few to lose a joiner that way.

## Fairness

`HostFairness` is weak fairness of each host's own steps: the operating system
runs every runnable thread, waits are on predicates that stay true until the
host takes them, and no kernel code polls. `AdminFairness` adds the destructor's
host. Guest code is never assumed to call anything, except in `destroy`, where a
released thread is assumed to return from its entry function (otherwise the
destructor cannot) if its host executes again and again, whatever it calls before
(`ReleasedFinish`), and in `intr_live`. There the guest polls and its handlers
return, whenever each gets the processor again and again (strong fairness: a
thread is switched away from and back), the clock thread ticks, and the worker
goes back to its semaphore, as every compiled basic block polls and a vblank
worker loops. In `sif` some thread goes on polling, emptying the buffer and
returning from handlers (one strong condition for the three, over all threads:
the queue is first in, first out), hosts go on, and a client that has sent a
request comes to wait for it; nothing is assumed of how clients go on after a
reply or of what else they do. In `parts` the window's loop of ee-tools goes round (the
user may do nothing, but each frame ends), the queue of events is emptied again
and again (strong fairness, since dropped files may come between), and the
worker's thread runs; a job's own loops end, as the bound on its lines says. In
`recompiled` the analysis goes on (`AnalysisEnds`), and in `parts` a transfer does too
(`TransfersEnd`): each is one thread that runs a loop to its end, and nothing is
assumed of the guest or of the user.

## Proofs

For every set of threads, semaphores, priorities and initial counts, from the
named assumptions of `EEKernel` alone (thread and semaphore ids and priorities
are natural numbers, 0 is a thread and a priority, bounds are natural):

- `TypeCorrect`: `Spec => []TypeOK`. `ReadyInsertType` and `ReadyRemoveType`
  say that the queue operators return sequences of threads; the first needs that
  the insertion point exists (`InsertPosStops`), hence that a nonempty set of
  naturals has a least element (`LeastNatural`).
- `OneThreadRuns`: `Spec => []BatonExclusive`. Not inductive alone: a wake-up
  for one host would start another if a host waited on a condition variable
  other than its own, or had been told to exit. `BatonInv` adds that every
  waiting or exiting host refers to its own thread (`OwnPlaces`), that nobody
  was told to exit and that the destructor has not begun. The lemmas follow the
  code: what `switch_to`, `block_current`, `maybe_preempt`, the hand-over of an
  ending thread and the end of a wait each do to the baton; then one step per
  syscall. Unlike most scheduler invariants it also holds after `m_quit`.
- `TokensNotIdle`: `Spec => []NoIdleToken`, strengthened by "an uncreated
  semaphore has no waiters".
- `WakeupsNotLost` and `SuspensionsBalanced`, from the common invariant
  `CountInv`: the lemmas say which statuses a block and a preemption can
  produce, so that only SleepThread, WakeupThread, SuspendThread and
  ResumeThread can disturb it.
- `ReadyQueueExact`, `WaitQueuesExact`, `HighestPriorityRuns`, `BatonIsNotLost`,
  and of steps `Fifo` and `TokensEndWaits`, all from `SchedInv`, which is about
  the time until the kernel asks to quit, as these properties are. They hold
  together or not at all. A signalled thread is not yet in the ready queue
  because the semaphore's queue has only threads that wait for it; that queue
  stays so because the caller of WaitSema is RUN; and it is RUN because of where
  its host is. So `SchedInv` joins the exactness of both kinds of queue (with no
  thread twice, and sorted) to `HostsFit`, which says what a thread's status and
  baton flag may be at each place of its host, and to `CurrentOK`, which says
  what the current thread is if it is not RUN: ending, or ended with nobody to
  run. What the queue operators do is at the start of `EEKernelProofs`: what an insertion
  and a removal contain, that neither repeats a thread nor breaks the order, and
  that a thread keeps its place before the later ones of its priority, which is
  what `Fifo` says of every step.

With deletion, termination, released waits and the destructor, from the same
assumptions:

- `AdminTypeCorrect`: `AdminSpec => []TypeOK`. DeleteThread takes its target off
  a queue with `std::erase`, which the model writes as the recursive function
  `Erased`. What it returns is shown by taking a shortest queue that
  it is wrong about (`ErasesExists`, `ErasedType`).
- `OneHostRuns`: `AdminSpec => []OneHostExecutes`. The argument for
  `BatonExclusive` does not carry over: DeleteThread lets its target's host run
  on while the caller joins it, and that host makes its calls as the current
  thread, the caller's, so that a host need not wait on its own condition
  variable. `AdminInv` says that before the destructor the state is `Settled`.
  Either no host can go on (`Stuck`), as after StartThread's join, or at most one
  can and nobody is in that join (`OnlyOne`): it executes, or what it waits for
  has happened. No two hosts wait on one condition variable (`WaitsApart`), nobody
  else waits on the current thread's, and a flag `allowed` that is set is that host's or that of a
  thread told to exit.
- `StartThreadHangs`: `AdminSpec => []StuckForever`, from the same invariant. This
  says why `restart` fails, for every program that has not begun its destructor, and
  is checked by no run: the
  host of the joined thread is parked, the caller was the one host that could have
  told it to exit, and nobody is left who could begin the destructor.
- `DeletedThreadsAreJoined`, `ReadyQueueExactAfterDeletion` and
  `WaitQueuesExactAfterDeletion`: `UnreleasedSpec` implies that
  `DeletedThreadHasNoJoiner`, `ReadyExact` and `WaitersExact` always hold.
  `UnreleasedSpec` is `AdminSpec` without ReleaseWaitThread (with it they are
  false, see above), and the three are about the time until the kernel asks to
  quit. `UnreleasedInv` joins to the exactness of the queues what it hangs on. An
  ended thread is DORMANT and nobody joins it any more (`EndedOK`); a thread told
  to exit has been deleted (`ToldOK`), so no queue holds it while its host runs
  on; and the current thread is RUN unless it is ending or nobody can go on
  (`CurrentFits`). None of this follows from the place of a host alone, since a
  deleted thread's host calls as its deleter. `ActsOK` says as which thread each
  host runs: the current one if it can go on, else the one on whose condition
  variable it waits; a deleter as the thread that its target's host runs as; and
  only a host that was told to exit as another than its own.
  `RunsHighestPriority` is not claimed here: DeleteSema readies the waiters and
  does not preempt.

For every set of threads, causes, channels, handlers and alarms and every length
of the queue:

- `HandlersDoNotNest` (from no assumption at all): `IntSpec => []OneHandlerAtATime`, from `HandlerInv`: no
  handler is on a stack and the mask is 0, or exactly one is and the mask is 1.
  A delivery waits for the first case and makes the second; a return undoes it,
  on the one host that has a handler; no other action touches either. The
  invariant says which handlers are on which stack, as the steps need it, where
  the property only counts them.
- `AlarmsFireOnce`: `IntSpec => []AlarmFiresOnce`, from the assumptions that
  ids of alarms, delays and the clock's periods are positive. `AlarmInv` says where the one occurrence of an alarm may be: armed,
  in the queue (once) or on a stack, three sets that share nothing; and that all
  of them are older than the next id, so that SetAlarm cannot give one out
  again. A tick moves the due alarms from the first set to the second, a delivery
  one from the second to the third (this needs `HandlerInv`: nothing else is on a
  stack then), a return drops it.
- `OneHostUnderInterrupts` and `StartThreadHangsUnderInterrupts`: `IntSpec`
  implies the two properties above. Handlers run on the host that polls and make
  syscalls there; `IntImplementsKernel` (`IntSpec => AdminSpec`) shows that each
  step is a step of `EEKernelAdmin` or changes none of its variables.

For every set of files, from the assumptions of `EETools` (loadable files are
files, bounds are natural, two names stand for no file):

- `ToolsTypeCorrect`, `CancellationIsForOneJob` and `InputsHoldStill`, all from
  `ToolsInv`. To types it adds what the window knows of the worker: no job runs
  in a frame that shows none (`WindowInv`), the flag is down when a job is about
  to be launched, and it is up on request only (`CancelInv`). `JobGoesOn` says
  what a job's step may do, so that the invariant is argued once for all of them.
  `InputsHoldStill` is about the tab's assignments as well, which go on while a job
  runs: `RangeInv` says that what is assigned then is what is there, since boxes that
  are disabled do not change.
- `LogIsComplete`: `ToolsSpec => []LogComplete`. The lines that the window has
  moved, those it is moving and those in the queue are, in this order, all that
  the job has said. `LogInv` adds that the window holds a chunk only while it
  drains the queue, and that the queue is empty and no job runs when the next one
  is about to start, so that nothing of the job before gets among its lines.
- `ImageIsOfTheLastLoad`: `ToolsSpec => ImageFollowsLoads`. `LoadInv` says that
  from the start of a load until the window takes its result over there is no
  image, hence no other job can start, and what the worker publishes is of the
  path that was asked for.

For every set of paths and images, from no assumption at all:

- `GameIsTheDiscShownAlways` and `WorkerHasAWindowAlways`, from `LauncherInv`,
  which adds to the two that a disc shown as open was opened to its end, with
  image, name and checksum of its path (`DiscWhole`): a launch copies them at
  some later time, when other files may have been dropped since.

For every program of every length, executable addresses, entry, window and span,
symbol table and set of imports, wherever the user cancels, from the assumptions
that there is a word, that executable addresses are words and that the rest are
natural numbers:

- `RangesAreDisjoint`: `Spec => []RangesDisjoint`. Sorting and truncating bring
  this about if no two functions have one start and every end is a number; the
  lemmas `ByStartLists`, `TruncatedIs` and `TruncatedInOrder` say so. The first is kept by
  all that adds a function (`AddedAllKeeps`, `AddedKeeps`). The second is not
  plain of the rescued words, whose end is that of their owner: `RangesInv` adds that the
  owner of a claimed word stays a function (`Owned`). The module truncates once,
  after the rescue, where the code truncates before it as well; `Rescued` looks
  at the ranges as the first pass leaves them. `ReachedIsEmitted` is not a
  theorem: that its three shapes are all there are is what `recompiled` shows of
  its programs.
- `GotosHaveTheirLabels`: `Spec => []GotosHaveLabels`, for the recompiler as
  `Recompiled` extends the discovery: every label the emitter writes a goto to is
  emitted in the same function. `CompilesInv` has three parts. The words of a
  function are executable words (`RangesInv`, as above); while functions are
  still being discovered none has run past the end of the program (`EndsOK`); and
  every body that was emitted is closed under its gotos (`BodiesOK`). The third is about the
  emitter's recursion over the words of a function. That each stretch it returns
  is closed is shown by taking a function with the fewest words left for which it is not.

For every size of word and any sequence of multiplications, divisions and moves
between HI and LO, from the assumption that words have at least one bit:

- `Accumulates`: `ArithmeticSpec => []AccumulatesExactly`. What madd, maddu and
  mult leave in HI and LO is, as one double word, the exact sum modulo its size.
- `DivisionsInvert`: `ArithmeticSpec => []DivisionInverts`, among the quotients
  the one of the most negative word by -1, which the code takes apart because C++
  leaves it undefined. `ArithmeticInv` is that registers are words and that the
  operands kept with the last result are what it was computed of. The
  lemmas are about remainders, powers of two and two's complement; those on powers
  are had by a least counterexample.

The run `parts` takes the steps of `ArithmeticStep` in between those of the
other parts, with 3-bit words.

Only model-checked: `DestructorReturns` of `EEKernelAdmin`, everything in `Sif`,
the run of what the emitter emits (`FollowsTheMachine`) and `ReachedIsEmitted` in
`Recompiled`, `EEDevices`, `EEVector`, and all liveness, `LoadEnds` of `EETools` included.
Liveness under fairness, `ENABLED` and RECURSIVE operators are out of the
prover's reach. So are the library's induction rules, as they take an operator as
a parameter; a lemma about one recursive function can be had by a least
counterexample, as for `Erased` and the emitter. That the emitted functions and
the machine compute the same is about two such recursions and the discovery at
once, and is left to TLC.

## Not modelled

- Floating point, in the FPU and in both vector units: rounding and clamping of
  32-bit floats have no small instance that says anything. The errata that
  `pmaddw` and `pmsubw` imitate, variable shifts and multiplications of halfwords
  are left out likewise.
- The GS renderer: pixels.
- Disc reader, ELF reader, JSON and TOML: parsers of bytes without state. They
  have 32-bit sums (cdvd.cpp:31) and lengths taken from the file (cdvd.cpp:63)
  that only a model of bytes would show.
- The HLE modules of the IOP: they copy data, and `sif_call` shows that no bound
  client reaches them. sysmem's free list is written and never read.
- MMIO dispatch, VIF0, scratchpad and SIF channels, UNPACK's masks and modes.
- The look back for a jump table's address; symbol and import files.
- Console output, game overrides, ee-studio, the file browser and the
  command-line tools: straight-line code or wording.

## What comes next

The theorems about the scheduler hold of interrupts once `SchedulerCall` without
ReleaseWaitThread is taken as a specification of its own, an extension of
`UnreleasedSpec`. The steps of `Sif` as steps of `EEInterrupts`, by which its
theorems hold of `Sif`.
