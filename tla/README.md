# Verification of the e-ink picture frame firmware

The firmware runs on a CH32V307 under LiteOS-M.  It receives pictures over WiFi
(an ESP8266 behind a UART), puts them on a four-colour e-ink panel, and shows
one of two stored pictures when a button is pressed.  This directory holds TLA+
models of its parts, the TLC configurations that check them, and proofs that
TLAPS checks.  `PROJECT.json` lists components, runs, mutants, the lines of source
behind every definition, the hazards and the theorems; this file explains them.

Contents: 1 inventory of the system; 2 modules and how they correspond to the
code; 3 runs, bounds and fairness; 4 what the violated runs show; 5 proofs;
6 limits; 7 plan.

## 1. The system

### 1.1 Parts and how they interact

```
 sender (tools/image_frame_packer.py)
    | bytes
 ESP8266 --UART--> WIFI_USART_IRQHandler (ch32v30x_it.c)
    ^                |  WIFI_RECVSTOP = CMD: line -> WIFI_CMD -> WIFI_CMD_FLAG
    | AT commands    |  WIFI_RECVSTOP = DATA: recDataProcessing -> g_frame_data
    |                v                         and LOS_EventWrite
 WiFi thread (thread_WiFi.c, ESP8266.c), priority 5
    | EPD_* (EPD.c, EPD_SPI.c), no lock
    v
 e-ink panel <--- EPD_* --- Eink thread (thread_Eink.c), priority 6, two buttons

 LiteOS-M below all of it: scheduler, tick, events, semaphores, mutexes, queues,
 software timers, memory
```

| part | state | operations | what is hard | what makes it correct |
|---|---|---|---|---|
| frame receiver (`ch32v30x_it.c`) | `recState`, `data_index`, `g_frame_data`, event bit | one case of the switch per byte | noise, lost bytes, stale fields of the former frame, lengths at the limit | accepts exactly the frames of the format, stays inside its buffer, always resynchronises |
| image transfer (`thread_WiFi.c`, `EPD.c`) | the frame shared by interrupt and thread, the packet counters, the panel's memory | `LOS_EventRead`, `ProcessFrame`, `ProcessImageData` | unlocked reads of a structure the interrupt writes; a one-bit event for many frames | only the image sent is shown; it is shown if nothing is lost |
| AT commands (`ESP8266.c`) | `WIFI_RECVSTOP`, `WIFI_CMD_FLAG`, `WIFI_CMD`, retry and wait counters, connection states | `WIFI_SendCMD`, the interrupt's command branch, the boot script | late, lost and unsolicited answers against a polling loop | buffer bound, mode restored, success means success, boot ends |
| panel and buttons (`EPD.c`, `EPD_SPI.c`, `thread_Eink.c`) | pins, controller, debounce automata | the command programs of `EPD.c`, `Button_Scan`, the thread's loop | two threads on one bus, deep sleep, bouncing contacts | a shown picture is whole, a press fires once, panel sleeps at rest |
| kernel scheduler and timers (`los_sched.c`, `los_sortlink.c`, `los_tick.c`, part of `los_task.c`) | status bits, ready queues, sort link, tick timer, run task, lock count | delay, yield, lock, unlock, suspend, resume, priority, tick, switch | handlers in the gap between a call's critical section and its switch; a timer set for one event only | lists agree with status bits, strongest ready task runs, waits end on time |
| kernel events (`los_event.c`) | event bits, pend list, masks and modes in the task blocks | init, read, write, clear, destroy | time-out against write; a wake-up whose bits are gone when the task runs | no lost wake-up, a read delivers what it waited for |
| semaphores (`los_sem.c`) | count, pend list | create, delete, pend, post | a permit handed to a task that has not run yet, a time-out next to a post | no permit lost or made up |
| mutexes (`los_mux.c`) | owner, count, saved priority, pend list | create, delete, pend, post | hand-over, nesting, borrowed priorities and time-outs of the lender | one owner, who knows it; priority given back; owner as strong as its waiters |
| queues (`los_queue.c`) | ring, head and tail, two counters, two pend lists | create, delete, read, write, write at the head | woken tasks that have claimed a slot the counters no longer show; deletion in between | a bounded FIFO |
| software timers (`los_swtmr.c`) | blocks and IDs, free list, sorted list, alignment data, handler queue | create, start, stop, delete, scan, handler task | a timer that deletes itself against its owner's calls; alignment data that outlive a timer | states and lists agree, an ID reaches its own timer only, no timer is early |
| memory (`los_memory.c`) | chain of nodes, free lists, bitmap, usage | allocate (aligned), reallocate, free | coalescing in every order, classes at their boundaries, double frees | blocks disjoint, search complete, usage right |

The firmware's own code is `src/User`, `src/Device` and `src/tools`.  The kernel
under `src/LiteOS/kernel` is vendored, but it carries the concurrency the two
threads rely on, and this firmware configures it (`src/User/target_config.h`), so
its scheduler, its objects, its timers and its heap are modelled as well.  Left aside are the chip
vendor's peripheral library, start-up assembly, file systems, network and POSIX
layers that are not built in, fonts and pictures.

### 1.2 Hazards

`PROJECT.json` lists 40, each with the line where it bites.  They fall into these
groups: frames read while they are overwritten; several frames folded into one
event; parsing that starts in the middle of a frame; lengths 0, maximum and
maximum + 1; answers without a name to requests that are repeated; a mode switched
under an interrupt's hands; a panel without a lock; an interrupt between a kernel
call's critical section and the switch that follows; timers set for one deadline
of several; time-outs racing wake-ups; an event destroyed between a call's check and its
section; permits, slots and mutexes on their way to
a task that does not run yet; IDs and data that outlive what they belonged to;
arithmetic on sizes at a class boundary or with flags in the same word.

## 2. Modules

Definitions keep the names of the C functions and variables they model.
Definitions whose comment starts with `Mutant` are not part of the model: they are
plausible mistakes in the definition below them, used to test that the
properties notice.

### FrameStream, FrameReceiver, Crc16

`FrameStream` is the promise: `buf` holds the bytes since the last resynchronisation;
a byte that contradicts the frame format discards the candidate; the byte that
completes it raises the event exactly if the checksum is right.  It speaks of raw
bytes only and knows no states or fields.

`FrameReceiver` is `recDataProcessing`: one action per case of the switch, with
the fields of `g_frame_data` as separate variables.  The length is assembled in
`data_len` before it is checked, as in the code, and is left there when refused.
`TakeEvent` is the thread's read of the event.  `Buf` is the refinement mapping:
it rebuilds the bytes read so far from the state and the fields.  `CRC16` is a
constant here, any function on byte sequences; `Crc16` computes the real one, a
16-bit word being the set of its one bits.  The values are 16-bit by
construction, and the length is two bytes, so no wrap-around is hidden.

### ImageTransfer

Composes `FrameReceiver` (by `INSTANCE`) with the sender of
`image_frame_packer.py`, a line that may lose bytes, the WiFi thread and the panel.
Every access of the thread to `g_frame_data` is a step of its own, because
the interrupt can come between any two; their order is that of the firmware
image in `src/obj`.  The byte copy and `Color_get` are modelled with their values.
The sender does as `pack_image_to_frames` and the ESP8266 do: one frame goes out after the other,
and the thread has no means to make them wait.  The interrupt does not ask
either whether the thread is through with the frame.  The history `torn` records that a store
of the interrupt has hit a field, or a cell of `data_buffer`, that the thread had yet to read;
`Tears` says which stores those are, at each point of the thread's way through the frame.
`CopyBeyond` is the rest of a copy that a length left in `data_len` by a refused frame
carries past the buffer.  The constants are the image, the size of the receiver's buffer,
the checksum and how many bytes may be lost.

### AtCommand

`WIFI_SendCMD` step by step (every access to the two variables shared with the
interrupt is a step), the command branch of the interrupt,
`WIFI_CMD_ReturnCheck`, and the boot script of `thread_WIFI_Start`.  The line
carries tokens, one cell of `WIFI_CMD` each.  The WiFi module is external: it
works on one command at a time.  Any module answers late, with an error or not at
all, and chatters; a prompt module answers OK before the last poll.  `kind` says which of
the two is on the line.  The three ways out of `WIFI_SendCMD` are three actions
(`ReturnOk`, `ReturnNoResponse`, `ReturnError`), each with its own reset of `WIFI_RECVSTOP`, as in
the code.  `executed` and `heard` are history: how often the module carried out the present
command, and which verdicts the interrupt reached while it was being waited for.

### PanelSharing

A thread's work on the panel is a program of pin and byte operations, the ones
`EPD.c` issues; a byte is two steps (set CS and DC; shift), because the other thread
may run in between.  The stronger WiFi thread runs whenever it has work,
`EPD_CheckBusy` does not give up the processor.  The panel controller is external:
command register, memory, busy line, deep sleep left only by reset.  `Debounce`
is `Button_Scan` on nondeterministic pin levels.  `WifiImage` is the image sent, one cell
for each packet, and the panel's memory has as many cells.  Packets and presses come at any
time, also while the other thread draws and between two packets of an image.  `owner` and
`mixed` are history: which thread reset the panel last, and whether the other one has
done more than look at BUSY since.

### PendList, SortLink

`PendList` has the operators on the lists of waiting tasks that `Scheduler`, `Event`, `Sem`,
`Mux` and `Queue` share: the tasks of a list that are, or are not, in a set, in their order
(`LOS_ListDelete` from the middle of a list).  `SortLink` is `OsAddNode2SortLink`, which the
scheduler's timed waits and the software timers both use.

### Scheduler

Status bits are sets, a ready queue is a sequence per priority, the sort link
is the sequence of timed waits.  A section between `LOS_IntLock` and `LOS_IntRestore`
is one step; `pc[t] = "schedule"` is the point after such a section and before
the `LOS_Schedule` that follows, where handlers can still run; `swPending` is the
software interrupt in which `SW_Handler` switches with interrupts off.  `Tick` is
the tick timer firing or time passing towards it; `LOS_SchedTickHandler` is modelled
with the timer programming of `OsSchedSetNextExpireTime`.  Time is in whole ticks and
relative to now, which keeps the state space finite without a bound on time.
The constant `Calls` says which calls tasks and handlers make.  `LOS_TaskResume` by a
handler is two calls there: of a task that does not run (`"isr_resume"`), and of the
running one (`"isr_resume_running"`), see section 6.

### Processor

What the scheduler promises to everything above it: which tasks wait, with a limit or
without, which are suspended, who has the processor and whether a switch is due
before it goes on.  Ready queues, slices, the timer list and the two halves of a switch
are gone.  `ImplementsProcessor` in `Scheduler` shows that the scheduler implements it, with the
mapping `waiting` = DELAY, PEND or PEND_TIME, `resched` = `SwitchDue`.  The kernel objects
below extend `Processor` instead of `Scheduler`: they hold for every scheduler that
implements it, and are small enough to be checked with three tasks.

### Event

Extends `Scheduler` with one event control block.  A read that waits is four
steps: the check of the arguments and of the control block (`OsEventReadParamCheck`), which the
code makes before `LOS_IntLock`; poll and pend; `LOS_Schedule`; and, once the task runs again,
the section that looks for the time-out and polls again.  A write by a task is its check
(`CheckWrite`) and its section; in a handler's write no task comes between the two, so they
are one step.  What the check says of the arguments is the assumption on the constant `Reads`.

Between check and section another task may call `LOS_EventDestroy`, which looks for waiting tasks
only, and the section then works on links that are NULL, which is undefined.  The model has
an outcome for it (the reader is PEND on no list, a write finds nobody), records it in `stray`,
and every property of the module ends there, so that nothing depends on the choice of the outcome.
If an `LOS_EventInit` comes before the section as well, the links are good again and the
properties go on.  `robbed` records which woken readers lost bits again before they ran.
Neither history influences anything.

### Sem, Mux, Queue, BoundedFifo, Ipc

Each call is one step, or two if it waits: the second is the section after
`LOS_Schedule`, which the task executes when it gets the processor again
(`SemPendReturns`, `MuxPendReturns`, `QueueOperateReturns`).  In between, time-outs,
other tasks and handlers act.  `semPending`, `muxPending` and `queuePending` are the
program counters of those tasks; `semExpired` and its like are the TIMEOUT bit.
`Mux` has several control blocks, `Sem` and `Queue` one.  `held` and `permits` are the
callers' own view, kept for the properties.  `BoundedFifo` is the promise of a queue:
the mapping makes its items out of the ring from `queueHead` on, as many as the read
counter and the claims of woken readers say.  `Ipc` composes the three objects with
`Processor`: tasks that use one kind of object in a behaviour, handlers that post, write,
suspend and resume, and time.

### Swtmr

One action per call, `Cycle` for a cycle of time with or without the scan (a scan
can be late: the tick may be for the end of a slice), `OsSwtmrTask` for the task that
calls the handlers.  `OsSwtmrScan` takes the expired timers off the list one by one, each a
step, as its loop does; `scanning` says that it is at work: this is the tick interrupt, in which no task makes a call.  A block is a number, an ID that number and how often it was
renewed (`lap`).  `LOS_SwtmrCreate` is one step although it fills the block outside its lock: the
block is off the free list by then and its ID is not known to anybody.  The expiry list has times relative to now, in cycles, because
alignment rounds them to ticks.  The handler queue is a count, cut off at its length as
the ignored result of the write does.  Callers hold IDs and forget one when it is
refused; the calls with an ID that a caller should have forgotten are those after its
one-shot timer has expired.  `creator` and `misused` are history.

### Heap

Addresses and sizes are in words.  A function from addresses to headers holds the
nodes; where no header is, memory holds data that do not look like one (a caller that
writes a false header into its block is outside).  Free lists, bitmap and its words,
classes, split, merge and the check of a freed block are those of the code; flags and
size are fields, and where the code does arithmetic with the flag included
(`ReallocBigger`) so does the model.  `Shift` is the power of two behind the shifts of the code.
Requests whose size has a flag bit in it are refused before anything changes and are left
out (`RequestAssumption`).  `blocks` is what the callers have, `stale` the
block freed last, to try to free it again.

### MC modules

`MCFrameReceiver`, `MCImageTransfer`, `MCAtCommand`, `MCPanelSharing`, `MCScheduler`,
`MCEvent`, `MCIpc`, `MCSwtmr` and `MCHeap` define the values of the constants.  No
configuration replaces a definition of a model.

## 3. Runs

### 3.1 Runs that hold

| run | checks | shows |
|---|---|---|
| `frame_receiver` | `TypeOK`, `DataInBounds`, `FieldsReady`, `ImplementsFrameStream`, `AlwaysResyncs` | on every sequence of four byte values with the real checksum, the receiver stays in its buffer, raises the event for exactly the frames, and comes back to the first header again and again |
| `image_transfer` | `ShowsOnlyTheImage`, `OnlyImagePackets`, `EventuallyDisplayed` | with a sender that waits for nothing, and bytes lost, only whole packets of the image reach the panel unless a frame was stored over before the thread had read it; without either the image ends up shown and the panel asleep |
| `at_any_module` | `TypeOK`, `LineFits`, `CmdModeOnlyInCommand`, `ResultAsHeard`, `OkIsOursIfPrompt`, `BootEnds`, `BootConnects` | whatever the module does, the buffer holds with its NUL, command mode lasts exactly as long as a command whichever way it is left, the result is what was heard of this command, and the boot ends; with a module that answers in time, a success is the success of that command and the boot ends connected |
| `panel_sharing` | `WholePicture`, `SleepsAtRest`, `FiresOncePerPress`, `PressShown`, `WifiShown` | with packets and presses at any time, a picture is whole unless the other thread came in after its reset, also after a mix before it; the panel then sleeps at rest; a press fires once however the contacts bounce; requests are served |
| `sched_calls` | `ListsAgree`, `StrongestRuns`, `TimersOnTime`, `DelayEnds`, `ImplementsProcessor` | two tasks that use every call on each other, of different and of equal priority, with handlers in every gap |
| `event_shared` | `PendListAgrees`, `NoLostWakeup`, `ReadDelivers` | two readers for any and all bits, clearing or not, with and without limits; writers in tasks and handlers, suspension, clear, and a destruction at any point, also between a call's check and its section |
| `ipc` | `PermitsConserved`, `MutualExclusion`, `PriorityGivenBack`, `SlotsAccounted`, `ImplementsFifo` | three tasks of three priorities on a semaphore, two mutexes or a queue, with handlers, suspension, limits, a locked scheduler, creation and deletion |
| `swtmr` | `TimersAgree`, `OwnTimer`, `NeverEarly` | three callers of one-shot and periodic timers, aligned and not, whose blocks are reused |
| `heap` | `ChainConsistent`, `BlocksOwned`, `SearchComplete` | every sequence of allocations, reallocations and frees of three sizes, aligned ones among them, in a pool of 24 words |

`NoLostWakeup` says that no task stays on the pend list while the bits set satisfy
its mask and mode.  `TimersOnTime` says that the sort link is ordered and that a
wait that is over is gone by the next tick; that tick is real: a timer that was set for
the end of a time slice does not scan the list, and a wait due at the same moment
is served a tick later.  `ReadDelivers` says that a read that waited returns with
events or with the time-out unless its bits were taken away after it was woken; the WiFi
thread, the only reader of an event nobody clears, therefore never wakes up for nothing.

`PermitsConserved` counts: what was created and posted and not taken is in the counter or
on its way to a woken task.  `MutualExclusion` compares the callers' view with
the control block, `SlotsAccounted` adds the claims of woken tasks to the two counters.
`PriorityGivenBack` is claimed for tasks that release mutexes in the reverse of the
order they took them (section 6).  `TimersAgree` bounds the time an aligned timer has
left by its interval, `NeverEarly` says that timers that are not to be aligned always
start with their whole interval.  `SearchComplete` compares the search by classes and
bitmap words with a look at all free nodes.

### 3.2 Bounds and why they are enough

* `frame_receiver`: bytes A5, 5A, 0 and 2, `MaxDataLen` 2.  The header values also
  occur as type, command, length and data; the lengths formed are 0, the maximum
  and more than it; A5 5A 02 5A 00 02 A5 02 A5 02 is a frame with a correct
  checksum out of these bytes, so acceptance really happens.
* `image_transfer`: an image of five bytes in three packets (first, middle, a short
  last one) that contains A5 5A; up to two lost bytes, so a loss may hit a
  frame that is read out of step because of an earlier one.  The thread may stop at any
  point of a frame while the next two arrive.
* `AtCommand`: `MAX_RETRY` is the source's 3; the time-out is 2 polls instead of
  2000, and the buffer 5 cells instead of 128: an answer line and one character of
  chatter fill it, two overflow it.
* `PanelSharing`: two cells of panel memory, so that a picture has a first and
  a last packet and can be mixed.  This is the largest run, of 2.7 million states.  The
  theorems of section 5 are about any number of cells.
* `Scheduler`: two tasks whose priorities change, beside the idle task.  Delays of one
  and three ticks and a slice of two give every order of delay end, slice end
  and the timer's maximum (`RESPONSE_MAX`).  `MaxLock` bounds the nesting of
  `LOS_TaskLock`.
* `Event`: two bits; four reads: for one bit, clearing it, for ever; for both bits with a
  limit of two ticks; for any of them, clearing it, without waiting; for both, clearing them,
  for ever.  Two readers can be on the pend list together.
* `Ipc`: three tasks, so that two wait while a third acts, and a stronger one waits
  behind a weaker one; counts up to 2, a ring of two slots, two mutexes, nesting of
  two.  In one behaviour the tasks use one kind of object: the objects share nothing but
  the processor.
* `Swtmr`: three blocks, intervals of one and two ticks of two cycles, so that intervals
  divide each other and times fall between ticks; an ID is renewed once (`MaxLap`),
  a scan is up to a cycle late (`MaxLate`).  A behaviour may end when every block has
  reached `MaxLap`, which is why deadlock is not checked there.
* `Heap`: a pool of 24 words, exact lists below 8 words and two lists for each of the
  three powers of two above, in bitmap words of four lists, so that every boundary is met; sizes 1, 3
  and 8, alignment 4, three blocks at most.

The tasks of the scheduler runs differ in priority and are not symmetric.  Messages
(`MCIpc`) and callers of timers (`MCSwtmr`) are: they are only compared with each other,
and no liveness is checked in those runs.  `ipc` does not check deadlock either: the tasks may
all wait for mutexes of each other without a limit, which is their own doing.

### 3.3 Fairness

* `FrameReceiver`: bytes keep arriving (`WF` of the interrupt).  Resynchronisation is
  only claimed for a line that carries something.
* `ImageTransfer`: the sender, the line and the thread go on.  The WiFi thread is the
  stronger of the two application threads and the line is a hardware UART.  Loss is not fair.
* `AtCommand`: the thread and the interrupt go on.  The module's answer is fair
  only for a prompt module.
* `PanelSharing`: both threads go on and a busy panel becomes ready.  The last
  is an assumption about the hardware on which `EPD_CheckBusy`, an unbounded poll,
  depends; the Eink thread is enabled only while the WiFi thread waits.
* `Scheduler`: `SF(Tick)`, because time passes whatever the tasks do; `WF` of the
  pending software interrupt, which the hardware serves before the task goes on, and
  of `LOS_Schedule`, the next instruction of its task.  What tasks call is never
  fair.  The properties of `Event`, `Ipc`, `Swtmr` and `Heap` are safety properties and
  need no fairness.

## 4. What the violated runs show

Each checks one statement that a comment or a header of the repository
makes about the program; `PROJECT.json` quotes it.

* `image_unpaced` (`ImageDisplayed`): frames sent back to back overwrite
  `g_frame_data` while the thread reads it, or merge into one event; the image is not
  displayed.
* `mux_inherits` (`OwnerInherits`): a mutex is handed to the first task of its list with
  the priority that task has; a stronger task further back waits for a weaker owner then.
* `heap_used` (`UsedAccounted`): a reallocation that grows into the free node behind
  records the size with the used flag in it, and the pool's usage is off by 2^31.

Two observations need no run.  The sender described in the header comment of `ESP8266.c`
appends no checksum, which the receiver demands; `ImageTransfer` models the sender of
`image_frame_packer.py`, which does.  And when a time slice ends,
`LOS_SchedTickHandler` neither switches nor requeues (`NeedSched` is about woken tasks
only), so that tasks of one priority share the processor only if they yield or
block; no property claims more.

## 5. Proofs

Every invariant of the passing runs, their three refinements and the action properties
`ReadDelivers`, `WholePicture`, `FiresOncePerPress` and `NeverEarly` are theorems as well: the run
checks a definition on a small instance, the theorem states it for every value of the
constants, any number of tasks, timers or blocks and any image included.  `OnlyImagePackets` is
proved for a line that loses nothing (5.3).

| module | theorems |
|---|---|
| `FrameReceiver_proofs` | `TypeCorrect`, `BufferSafe`, `FieldsAlwaysReady`, `Refinement` (`FrameStream`) |
| `AtCommand_proofs` | `TypeCorrect`, `LineAlwaysFits`, `ModeFollowsCommand`, `ResultIsAsHeard`, `OkIsOurs` |
| `PendList_proofs` | lemmas only: what the list operators return |
| `ImageTransfer_proofs` | `PanelShowsTheImage`, `FrameIsStable`, `TransferIsComplete` |
| `PanelSharing_proofs` | `PicturesAreWhole`, `PanelRestsAsleep`, `PressFiresOnce` |
| `Scheduler_proofs` | `ListsAlwaysAgree`, `TimersAlwaysOnTime`, `StrongestAlwaysRuns`, `ProcessorRefinement`; of `Event`: `PendListAlwaysAgrees`, `NeverLostWakeup`, `ReadsDeliver` |
| `Ipc_proofs` | `PermitsAlwaysConserved`; `AlwaysExclusive`, `PriorityAlwaysGivenBack`; `SlotsAlwaysAccounted`, `QueueRefinement` (`BoundedFifo`) |
| `Services_proofs` | of `Heap`: `PoolAlwaysSound`, `BlocksAreOwned`, `SearchMissesNone`, `OwnersAlwaysPass`; of `Swtmr`: `TimersAlwaysAgree`, `TimersAreOwn`, `TimersNeverEarly` |

The kernel results stack: `Scheduler` implements `Processor` (`ProcessorRefinement`), and
the semaphores, mutexes and queues are proved on `Processor` alone.

### 5.1 Assumptions

On constants, each named in the module that declares it and evaluated by TLC in the runs:
bytes are 0 to 255 and `MaxDataLen` is 1 to 65535; retries and polls of `AtCommand`
are at least one and its buffer has room for a byte and the NUL; the set of tasks is finite and does not contain the idle task, priorities are
natural numbers; slices, delays and the timer's range are positive; reads
are what `OsEventReadParamCheck` lets through; counts and queue lengths are natural numbers;
intervals of timers are at least one tick.  Four need a word:

* `ImageAssumption`: an image makes 255 packets at most.  Number and count of packets are one
  byte of the frame each and `create_frame` does not check them; the panel's 8000 bytes make
  about 30.
* `PanelAssumption`: the panel's memory has at least one cell, and the image sent fills it.
* `ShiftAssumption`: 2^0 is 1, 2^(n+1) is twice 2^n, and every size that fits under the used
  flag has a free list.  The first two are arithmetic the provers do not know.  The last
  holds in the source: lists go up to 2^(7+24) bytes, and the flag is 2^31.
* `RequestAssumption`: sizes with a flag bit in them are refused (`los_memory.c:1024`, `1076`).

Three theorems have a hypothesis of their own, and two say more than the property's definition
of when they hold:

* `FrameIsStable` holds while `lost = 0`, `TransferIsComplete` while `lost = 0` and no frame is
  torn.  `ShowsOnlyTheImage` says so itself.  How fast the sender is, or the thread, is not
  assumed anywhere.
* `OkIsOurs` is about a time-out of at least two polls (the code has 2000).  With
  one, a prompt module's answer may come after the only poll.
* `PriorityAlwaysGivenBack` excludes `"post_any_order"`: section 6 gives the behaviour that
  breaks it.
* `ProcessorRefinement`: a model in which handlers resume the running task also lets
  them resume others.  `Processor` does not tell the two calls apart.

### 5.2 The inductive invariants

*Frame receiver.*  `IInv` is `TypeOK`, `DataInBounds` and `FieldsReady`.  `DataInBounds` alone is
not inductive: that the index is below the length when a data byte arrives depends on
the length having been found acceptable on the way into the state, and on the index
having been reset.  `FieldsReady` carries this across the states: a legal length from the
data to the end of the frame, and a clear low byte of length and checksum where
the code fills it in with `|=`.  The refinement is one lemma per state of the receiver: the
rebuilt candidate of the next state is the old one with the byte appended, or
empty, and `FrameStream`'s conditions on it are the guards of the code.

*Image transfer.*  `TransferInv` holds as long as no byte is lost and no frame torn.  `Position` is
how many bytes of the last frame sent have arrived, and `LineInv` says what that makes of the
receiver: its state, its index and every field it has filled in are functions of the position and the
frame (`Received`).  `Taken` is the number of the frame the thread was told of last; `ThreadInv`
has the fields it has read from that frame.  `FrameInv` is what replaces a handshake: while an event
is pending its frame is whole (`Whole`) and the next one has got no further than its header, and of
the frame at work every field and cell the thread has yet to read (`Unread`) is still that frame's,
however far the next one is; a store that would break this sets `torn`.  `PanelInv` counts the
packets that have been copied (`Copied`), and has the panel's memory as that many chunks of the
image and the bytes of the present one.  That all chunks make the image is a lemma on lengths and
positions; nothing is by induction.

*Panel.*  A thread that draws has the rest of one fixed program before it, `Draw(f)` from
position n on (`Line`).  As long as it is `Alone(t)`, the owner of a panel that is not mixed, the
position determines the panel (`Drawing`, `At`; `Booting`, `BootAt` for the first
initialisation): powered or not, busy or not, the command register, how much of the picture
is in memory, and the pins between the two halves of a write (`Pins`).  At position 0 the panel
may be in any state, since the first operation is the reset.  A step of the other thread is a
look at BUSY, which changes nothing, or makes the panel mixed, or is a reset, which makes that
thread the owner and puts it at position 1.  Packets k of N are parts of `Draw(WifiImage)`,
between two of which the program is empty but the position is not, so that packets in order
make one program.  `ButtonInv` says that the last three samples of a button and whether it was
released since the last press determine state and counter of its automaton.

*AT commands.*  `IInv` adds `LoopsBounded` and `FlagAsHeard` to the properties: the counters of the
retry and the wait loop stay below their limits while the loops go on; and as long as the thread is
going to look at the flag again, the flag is a verdict on this command or none.  The latter makes
`ResultAsHeard` inductive: it survives the attempts that go out without the flag being cleared.
`OkIsOurs` needs `PromptInv` besides: a prompt module whose lines fit in the
buffer is never asked twice, at the last poll its answer is there, and between two
commands no part of an answer is left on the line.

*List operators.*  A task is taken out of the middle of a list by keeping positions
(`PendList`), not by recursion: what a recursive operator computes cannot be proved here.
The positions kept are numbered by their rank; rank is an injection into as many numbers as
there are positions, hence onto them, and that is all the lemmas of `PendList_proofs`
rest on.

*Scheduler.*  `SchedInv` has four parts.  `Typed` is the types.  `ListsInv` says which tasks the
ready queues and the timer list hold, and that the latter is sorted.  `StatusInv` adds
what `ListsAgree` does not say and its steps rely on: a running task that must not go on
has a switch coming and no scheduler lock, so that no call can be made in its name;
a READY running task has the software interrupt pending; the time to wait is set before it
is linked.  `TimerInv` is the reason why no wait is missed: every node is due no
earlier than the timer fires, or a switch is about to set the timer, or the node is due
now and the timer, one tick away, is set for the list.  `StrongestRuns` is inductive with
`SchedInv`.  For `ProcessorRefinement`, `ReadyInv` adds that a task nothing holds back is READY
or runs, without which the strongest READY task is not the strongest that could run,
and that the software interrupt is never pending under the scheduler lock.  Then every
action of `Scheduler` is an action of `Processor` or leaves its variables alone.

*Events.*  `PendInv` says that the pend list holds the PEND tasks until `stray`, and that a PEND task is not
also delayed or timed out: `OsSchedTaskWake` clears PEND and PEND_TIME only, and would leave a
delayed task off the timer list for ever.  `ReadInv` ties masks and modes to reads in
progress, and `CheckInv` says that who has passed the check of a
read is a reader that does not wait yet.  `WakeInv` is `NoLostWakeup` and its counterpart for woken tasks, whose bits
are still set unless they were robbed of them.  `NoLostWakeup` would not be inductive
without the legal modes of `ReadInv`: a task that waits for neither any nor all of
its bits is woken by nothing.

*Semaphores, mutexes, queues.*  `ProcInv` is the invariant of `Processor` all three need: a
running task that waits has a switch due and holds no scheduler lock, so that it does not
go on.  `OneKind` says that the objects not in use are
at rest.  `SemInv`, `MuxInv` and `QueueInv` relate pend lists, tasks between wake-up and return,
and time-outs: a task is on one list at most, and one that was handed a permit, a
mutex or a slot is on none.  `PrioInv` is what `PriorityGivenBack` needs: a
task with no mutex, held or coming, has its own priority, and the first mutex it took or
was handed remembers that priority.  It is the last one given back.  `RingInv` says that the
tail of a queue is as many slots after the head as there are messages, so that a write
never hits a slot that holds one.

*Software timers.*  `SwtmrInv` has `ListsInv` (the sorted list holds the running timers, the free
list the unused blocks, each once), `BlockInv` and `IdInv`.  `BlockInv` is why no timer is early:
alignment data in a block are those of the timer that has the block now, an unused block has none, and
an interval noted in multiples of the divisor is that many divisors long; so a timer that is linked where
an aligned one expires is never further away than its own interval.  `IdInv` adds to `OwnTimer` that
no caller has an ID that its block will only get later, without which a renewed ID could be one
that somebody kept.

*Memory.*  `HeapInv` says of the pool that it is closed (`Open` with no node being worked on) for some
set of nodes, and of the callers that blocks and used nodes correspond (`Tracks`) and that what was
freed is not used (`Gone`).  `Open(p, C, X)` describes a pool in the middle of a call: the headers are
one chain through `C`, forth and back, and all free nodes but those of `X` are in their
lists and not next to each other.  Each helper of `los_memory.c` (`SplitNode`, `MergeNode`,
`FreeNodeAdd`, ...) has a lemma that says how it changes `C` and `X`, and a call is the composition of
its helpers' lemmas.  The properties speak of the nodes found by walking from the first one, a
recursive function; that the walk finds `C` is proved from its last node backwards, by the
greatest counterexample.  The search is complete because the list index is monotone in the size,
and one to one below 2^LARGE.

`SchedInv`, `EventInv` and the other invariants were checked by TLC on the instances of
the runs before they were proved.

### 5.3 What stays with TLC

* Liveness under fairness (`AlwaysResyncs`, `EventuallyDisplayed`, `BootEnds`, `BootConnects`,
  `PressShown`, `WifiShown`, `DelayEnds`): beyond the prover.
* The values of `CRC16_Calculate`: the proofs hold for any function.
* `OnlyImagePackets` on a line that loses bytes.  A receiver that is out of step
  may find a frame in the middle of an image, and whether its checksum fits depends on the image
  and the checksum: for arbitrary ones the property does not hold, for the image and the real
  checksum of `image_transfer` it does.
* `UsedAccounted`, which the code violates (section 4), and the other two statements of section 4.

## 6. Limits

What the properties assume, and what the code does beyond that:

* Nothing is claimed of a frame after a store has hit what the thread had yet to read of it
  (`torn`).  The code cannot prevent it: senders wait for a fixed time at most, and the thread may be held up
  by the panel.  `image_unpaced` shows what comes of it.  With a lost byte besides, a refused length
  in `data_len` may be the one the thread reads, and the copy runs past the buffer (`CopyBeyond`).
* `OkIsOursIfPrompt` needs a module that answers in time: answers carry no name, so the
  late OK of a command that was given up is taken for the answer to the next one.  And
  `WIFI_CMD_FLAG` is not cleared before a retry: after an error the retries do not
  wait for their answers.  `ResultAsHeard` holds nevertheless, and is all that can be said: a
  reported error was heard, but not necessarily of the last attempt.
* Nothing is claimed of the panel from the moment the other thread has used it until the next reset
  (`mixed`): the panel has no lock, and a press during a transfer, or a packet while a picture is drawn,
  may leave a mix of two pictures, or a panel that is not asleep.
* Nothing is claimed of an event from the moment a section has used its links after a destruction
  (`stray`): `los_event.c:103` and `154` look at the links, `111` and `160` lock the interrupts.
  Neither the code nor its documents say that `LOS_EventDestroy` may be called then; this firmware never
  destroys its event.
* The kernel runs leave out `"isr_resume_running"`.  `LOS_TaskResume` does not ask whether
  the task is still running; a handler that resumes a task in the gap of its own
  suspension enqueues the running task, and the following switch fails the assertion in
  `OsSchedTaskEnQueue` (`los_sched.c:285`).
* `PriorityGivenBack` leaves out `"post_any_order"`: a task that releases two mutexes in the
  order it took them is given back a priority that was itself borrowed.
* `TimersAgree` and `NeverEarly` leave out callers that start a deleted timer (`misused`):
  `LOS_SwtmrStart` notes the alignment in the block before it looks at its state.
  `LOS_SwtmrDelete` does not renew the ID, as the expiry of a one-shot timer does: a caller that
  keeps the ID of a timer it deleted reaches the next one in that block.

Not modelled:

* The kernel's clock is in whole ticks.  The conversion of cycles, the base of the
  tick timer (`g_schedTimerBase`), the interrupt that comes in the middle of a tick
  and the power management hooks are left out.
* Tasks are created before the model starts and not deleted, as in this firmware.
* The mail functions of queues (`OsQueueMailAlloc`, `OsQueueMailFree`), which only the CMSIS
  layer calls; `LOS_MuxPost` from a handler.
* Pool expansion, integrity and leak checks, freeing by task and several pools are not
  built in.  The content of blocks: `LOS_MemRealloc` of an aligned block returns the start
  of its node without moving the data there.
  `los_membox.c` is used by nothing here.
* Lost expiries of software timers when their queue is full happen in `Swtmr` as in the
  code; nothing promises that they do not.
* `AtCommand` names command strings; the size of the local array that holds
  `AT+CIPMODE=1` is therefore outside the model (listed as a hazard).
* Picture data in `PanelSharing` are named by source; the buffer that the Eink thread
  frees before the first button's picture is drawn from it is a hazard without
  a property.
* `EPD_Clean` is called by nothing and is left out.  Drawing (`GUI_Paint.c`) prepares
  a buffer whose display is commented out.
* `WIFI_CheckIP`, `WIFI_CheckPort` and `WIFI_SetIP` are pure string checks of two literals.
* Stack depth, register saving and the peripheral library are outside, as are the parts of
  LiteOS that the firmware does not build in (file systems, network, POSIX, CMSIS) and the
  vendor's tests.  They are most of the lines of the repository.

## 7. Plan

1. Done: the path of a picture (`FrameReceiver`, `ImageTransfer`, `AtCommand`,
   `PanelSharing`), the kernel below it (`Scheduler`, `Event`), the abstract `Processor` and the
   kernel objects on it (`Sem`, `Mux`, `Queue` with `BoundedFifo`), the software timers and the heap.
2. Done: the proofs of section 5.
3. Open: `Event` on `Processor` instead of `Scheduler`, through an abstract event.
4. Open: task creation and deletion with recycling of control blocks, should the firmware
   come to use them.
