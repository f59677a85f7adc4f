# A TLA+ model of mini_tree

mini_tree is middleware for microcontrollers: a device model fed by a
compile-time device tree, VFS drivers over protocol buses, an event bus,
interrupt bottom halves, a configuration store, a log kept in flash, firmware
update and a small kernel of its own, on bare metal, mini-os, FreeRTOS or
RT-Thread. This directory holds TLA+ models of its core, the TLC configurations
that check them and proofs for TLAPS.

Every module is translated from the C source. `PROJECT.json` maps each definition
to the lines it stands for, lists the components with what is and is not
modelled, the runs, the theorems, and the hazards with the property that watches
each.

## The system

| part | state | operations that change it | hard to test |
|---|---|---|---|
| SPSC ring (`algorithm/buffer`) | two counters, slots | write, read, block write, block read | producer and consumer on different levels; counters wrap |
| life cycle (`board/src/dev_lifecycle.c`) | state, `opens`, `io_active` | begin/end of open and I/O, remove start, drain, finish | a remover between any two atomic accesses |
| device model (`board/src/board_device.c`) and UART client | status, ops, mutex | open, close, read, write, ioctl, suspend, resume, unregister, remove | remove against calls; mutex timeouts; refused transitions |
| bring-up (`board/src/board_driver.c`) | status per device | probe all, remove all | deferral, stall, cascade, re-probing |
| bottom half (`interrupt/`) | ring, `pending`, `executing`, `rerun`, drain flag | submit from nested interrupts, poll, run | a trigger while the work runs |
| EventBus (`core/src/event_bus.c`) | queue, subscriber table, task handle | init, subscribe, post, start, dispatch, stop, seal | stop and restart against posters and subscribers |
| configuration store (`board/src/config_store.c`) | table, two slots, flag | init, set, commit, factory reset | power failure at every flash step |
| mini-os scheduler (`lib/mini-os/src/schedule.c`, `thread.c`) | ready lists, bitmap, delay wheel, wait lists, PendSV request | park, wake, tick, switch, suspend, resume, exit, delete, set priority | tick, PendSV and interrupts between any two critical sections of a call |
| mini-os mutex, semaphore, queue (`mutex.c`, `semaphore.c`, `queue.c`) | count, owner, references, wait lists | lock, unlock, take, give, send, receive, destroy | time-outs against wake-ups, boosts along a chain, a holder that dies |
| mini-log's flash half (`mini-log/src/log.c`) | RAM ring, write cursor, partition | line, flush, recover, clean, read | power failure at every granule; the lap before |
| mini-ota (`lib/mini-ota`) | partitions, state sector, boot word | download, verify, activate, confirm, select, boot | power failure between two records; a failing store |

They meet in few places: the bottom half queues works in the ring; the UART
client counts references in the life cycle under the device mutex; bring-up moves
devices through the same status machine; removal posts to the EventBus; the
synchronisation objects of mini-os park and wake threads through the scheduler.

## Modules

| module | models | notes |
|---|---|---|
| `BoundedQueue` | what the ring promises | abstract specification |
| `FifoSpsc` | `circle_fifo_buffer.c` | block copies run slot by slot; implements `BoundedQueue` |
| `DevLifecycle` | `dev_lifecycle.c` | every atomic load and compare-and-swap is a step |
| `DeviceVfs` | `board_device.c`, client half of `vfs-uart.c` | status machine, mutex and driver calls composed with every atomic step of `DevLifecycle`, which it extends; the UART bus is external |
| `BoardProbe` | `board_driver.c` over the status machine, the cascade tables of `compiler.py` | any device tree, any driver result |
| `BottomHalf` | `interrupt.c`, `interrupt.h` | nested interrupts preempt the poller at any step |
| `EventBus` | `event_bus.c`, EventBus part of `system_init.c` | kernel queue, mutex and task calls are external |
| `ConfigStore` | `config_store.c` | flash is external: writes fail or tear, slots rot |
| `MiniOsSched` | `schedule.c`, list handling of `thread.c` | kernel functions as operators on the kernel's record |
| `MiniOs` | `thread.c`, `mutex.c`, `semaphore.c`, `queue.c`, `obj.h` over `MiniOsSched` | one step per critical section; tick, PendSV and an interrupt between them |
| `FlashLog` | flash half of `log.c` | one step per flash call, which may fail or be cut at any granule |
| `MiniOta` | `lib/mini-ota` | download, state sector and boot loader; flash is external |
| `MC*` | | instances for TLC |

| proofs | about |
|---|---|
| `Drivers_proofs` | `FifoSpsc`, `DevLifecycle` and `DeviceVfs` |
| `EventBus_proofs`, `BottomHalf_proofs`, `ConfigStore_proofs` | the module of that name |
| `MiniOsSched_proofs` | what each kernel function keeps |
| `MiniOsInv_proofs` | the inductive invariant of `MiniOs` and its frame lemmas |
| `MiniOsSync_proofs` | the steps of threads and sync objects that keep it |
| `MiniOs_proofs` | the remaining steps, the next-state relation, the theorems |

Operators that are defined right before a definition and look like a damaged
copy of it (`SameSlot` before `CommitBegin`) are plausible bugs. Substituting one
for the original must break a property; `PROJECT.json` pairs them.

## What the passing runs show

- **fifo** (`MCFifoSpsc`): no slot is written and read at once, the fill never
  exceeds the size, and the ring behaves as a bounded queue across counter wrap.
- **device_vfs** (`MCDeviceVfs`, 88 212 states): in the first life of a device
  the counters equal the references held (`CountsExact`) and the remover is alone
  after the drain (`DrainedAlone`); once the remover had the mutex to mark the
  device, the slot with the operations table is released with no call between
  its checks and its return (`TableSafe`); PROBED means closed
  (`ProbedIsClosed`); removing a closed device ends (`ClosedRemoveEnds`).
- **board_probe** (`MCBoardProbe`, 453 734 states): for every three-device tree
  with at most one FATAL device and every driver result, failures are contained
  and counted while nothing defers, a stall leaves nobody waiting, and teardown
  takes dependants down first.
- **bottom_half** (`MCBottomHalf`, 161 950 states): a work is queued at most once,
  no wake-up is lost, and, as long as the two producers described below do not
  overlap, `pending` is accounted for and a queued work is served.
- **eventbus** (`MCEventBus`, 331 680 states): subscriptions are not overwritten
  (`SubscriptionKept`), an event reaches everyone subscribed before it
  (`DeliveredToAll`; both until a restart, which re-creates the mutex under its
  holder), queued events drain (`EventsDrain`), and a stop is heard by a dispatch
  task whose callbacks return, also when the queue was full and the wake-up event
  was lost (`StopHeard`).
- **config_store** (`MCConfigStore`, 1 876 729 states): a flag that names a slot
  names one that holds, whole, the image of the last acknowledged commit or of a
  later one that was cut or failed at its flag (`AckedIntact`); user keys come back
  after a restart while the table holds them (`UserKeysSurvive`); factory entries
  are always loaded (`FactoryLoaded`).
- **minios** (`MCMiniOs`): in five small applications every thread is linked
  exactly where its state says (`LinkedOnce`), the unit of a mutex is at one place
  (`UnitConserved`) and what `lock` told the threads agrees with the owner field
  (`Exclusion`); nobody sleeps next to what it waits for (`NoneStranded`); a
  thread that owns nothing runs at its base priority (`BoostDropped`); slot and
  rounds of the wheel always say how many ticks are left (`WheelExact`); no object
  is reclaimed under a lock, take, send or receive (`RefsCover`); and the most urgent thread's call with
  a time-out ends (`UrgentCallEnds`).
- **flash_log** (`MCFlashLog`): whatever fails, a scan finds whole lines only
  (`WholeLines`); it finds exactly the records of the current lap (`LapFound`); and
  records are programmed on erased granules only (`WritesErased`), each apart from
  the exceptions listed below.
- **ota** (`MCMiniOta`, 356 488 states): with two partitions the boot loader
  jumps only to a complete, verified image (`BootsVerified`); it starts the
  partition last confirmed, or the one on trial, and that one once (`TrialOnce`);
  a store changes what is loaded only by completing its record (`StoreAtomic`).
  A check word that landed may be reported as failed.

The type invariant of a module is part of one of its properties where the run
does not list it separately (`QueuedOnce`, `SubscriptionKept`, `StallDisables`,
`WritesErased`, `BootsVerified`, `LinkedOnce`).

### Bounds

Two of each competing actor (three where a third could change the outcome), one
more operation than the shortest interesting history, and capacities small enough
to fill. `BoardProbe` needs three devices for an indirect dependency with a
device in between. `ConfigStore` needs three power cycles for the table to
overflow, and a table of three for a stored image with a user key to fit.
`MaxTriggers`, `MaxPosts`, `MaxLives`, `MaxBinds`, `MaxBoots`, `MaxLines` and
`MaxFaults` bound counters the code leaves unbounded.

`MiniOs` has three threads and the idle thread at three priorities, a wheel of two
slots with delays up to three ticks (so that rounds count), semaphore and queue of
capacity one, and five applications: three threads at one mutex; a chain of two
mutexes with a recursive one and a priority change; a queue between two receivers,
a sender and an interrupt, which is deleted; a semaphore with suspension,
resumption, exit, deletion and destruction; a mutex whose holder dies.

`FlashLog` has two sectors of three granules, a ring of three, chunks and lines of
two: a line crosses a sector, a flush takes two chunks, four lines wrap the
partition. Two faults are one more than what any single recovery must survive.

`MiniOta` has a state sector of two records (the third store must erase), images of
two lengths and a damaged one, boards with one and with two partitions. `Unharmed`
prunes what follows damage of the state word, after which nothing is promised.

Runs where the bounded actors may all finish, or a thread may fault, do not check
deadlock; `fifo`, `ota` and `ota_stale` do.

### Fairness

Weak fairness on a call that has started (threads are not suspended for ever), on
a polling remover (it sleeps and polls again), on the poller of the bottom half
(the main loop), on the dispatch task of the EventBus (highest priority) and on
boot and a stop that has begun; that the wait of a stop times out is not assumed.
In `MiniOs` fairness is
stated by effect: the tick interrupt keeps moving the wheel's slot, a requested
PendSV is withdrawn only by a switch, and the current thread, if it is inside a
call and no PendSV is due, gets to its next step. No fairness is assumed for
threads that are not current: that they get to run is the scheduler's job.

## Where code and documentation disagree

Three disagreements are runs that TLC must find violated.

- **bottom_half_trigger**: a trigger between the end of a work and the moment its
  `pending` mark is cleared is dropped, although `interrupt.h` promises that a
  trigger during execution is not lost. The same happens to a trigger that merges
  into the claim of a less urgent handler, or of the main loop's rerun, which has
  found the ring full and is about to give the claim back.
- **minios_death**: the holder of a mutex that was not armed for killing exits;
  its waiters return from `lock` with success and two threads hold the mutex.
- **ota_stale**: `start.c` calls the target of a download the partition that is not
  running, but computes it from a copy of the state that is zero until
  `mini_boot_state_refresh`, which the library's own example of an update does not
  call. An application started from the second partition erases itself.

Seen while modelling, without a run of their own; they are states the models
reach, or are read from the code.

Devices:

- `uart_vfs_remove` of an open device never returns: the device is REMOVED before
  the drain, and `device_close` is refused from then on. Bring-up itself opens
  every device that has an open, so this is the usual case.
- `device_close` of a SUSPENDED device shuts the bus but the move to PROBED is
  refused; after `device_resume` transfers use a closed bus.
- `device_close` that outlasts the mutex timeout drops its reference first, so
  the client can be unregistered while it is still in `uart_bus_close`.
- When `device_ops_unregister` cannot get the mutex it goes on without marking the
  device REMOVED. A call past its checks then uses the cleared operations table
  (`fault` in the model), or begins after `dev_lc_remove_finish` has set the
  counters back to 0, which the comment at `dev_lifecycle.c:213` rules out.
  `TableSafe` therefore speaks of marked devices only.
- The life cycle is bound once, by `device_tree_init`; after a remove or a failed
  probe every later open is refused. A begin that passed the state check before a
  remove and a re-bind enters the next life of the device.
- A device that defers and then fails leaves a dependant up, because RUNNING and
  PROBED cannot move to DISABLED. A device whose own driver keeps deferring stays
  READY after a stall. ERROR devices are probed and counted again in later passes.

Interrupts and events:

- `bottom_half_submit_rerun` in the main loop and a submit in an interrupt are
  two producers of a single-producer ring. When the interrupt comes between the
  load of the rerun and its publication, its item is overwritten: `pending` stays
  set with nothing queued and the work is not served again. `PendingAccounted` and
  `QueuedServed` are stated until then, `QueuedOnce` and `NoLostWakeup` throughout.
- An event received before `event_bus_start` has stored the task handle ends the
  dispatch task. EVENT_SYS_BOOT is posted one statement before posting is allowed.

Configuration store:

- After a restart a committed value is hidden behind the factory default of the
  same key.
- A flag whose write was cut names no slot, and the next boot starts from the
  factory table although both slots hold whole images.
- With both slots corrupt `config_store_health` returns 1, not -1; an unreadable
  slot is not replaced by the other; stored images grow with every restart.

mini-os:

- `mini_os_schedule_switch` may take the successor of a thread that was re-linked
  in another level: at the tail that is the sentinel of that level, read as a
  thread (`Wild` in the model). Nothing is promised afterwards.
- A thread whose lock timed out drops the boost it justified when it runs again:
  until the boosted owner yields, the more urgent thread stays behind it.
- A destroyed mutex or semaphore may keep a waiter that parks after the kill. The
  deletion of a thread that was handed a unit and has not run yet loses the unit,
  and one between the entry of a call and its first section loses a reference.
- The state checks of `mini_os_thread_resume`, of deletion and of exit are outside
  the sections that act on them: two resumes, or a delete and an exit, race.
- `obj.h:28` counts one reference "per in-flight API call" and `mutex.c:599` has the
  descriptor outlive "every in-flight call". Unlock, give and the interrupt
  versions take no reference, so an object can be reclaimed between their two
  sections. `RefsCover` is about the calls that do.

mini-log in flash:

- A clean resets `flash_resync` but leaves half a line in the RAM ring, which is
  then written as a record.
- After a dirty stop in the middle of a sector the records behind it are not
  found; a power failure between a write and the look-ahead erase lets the scan run
  into frames of the last lap; a failed write leaves the cursor, and the next
  record is programmed over the remains.

mini-ota:

- The state store erases its only sector before writing, so that a power failure
  there loses the state its header says is kept. A partially erased sector lets
  older records reappear.
- An application that refreshes first (`Refreshes`) picks the right partition,
  except when an activation without roll-back was reported as failed although its
  check word landed.
- A failed load counts as an empty word; boot ignores failing trial and roll-back
  stores; a failed confirmation leaves RAM ahead of flash; a trial is recorded
  before the jump. A board with one partition is promised nothing.

## What is proved

For every value of the constants, by TLAPS:

| theorem | statement | argument |
|---|---|---|
| `RingWithinCapacity`, `NoSlotShared`, `RingTypes` | the ring never holds more than its size; the slot being written is not one being read | the distance of the counters modulo their width bounds what either side has reserved |
| `RingIsQueue` | `FifoSpsc` implements `BoundedQueue` | the queue is the sequence of published slots; a publish appends, a release drops, all else stutters |
| `ExactCounts`, `RemoverAlone`, `LifecycleTypes` | in a device's first life counters equal references and a drained remover is alone | a counter is its number of holders, or locked with none; a successful compare-and-swap saw the current value |
| `DeviceIsLifecycle` | every step of `DeviceVfs` is a step of `DevLifecycle` or leaves it alone | the calls bracket their begins and ends as the life cycle demands; carries the two theorems above over to the device |
| `TableOutlivesCalls`, `ProbedHasNoReference` | a marked device's table is released with no call inside; PROBED means closed | the mark is made under the mutex, which admits one call, and every call checks the status after taking it; an open that ends PROBED has given its reference back |
| `Coalesced` | no work is queued twice | see below |
| `WakeupKept` | the main loop does not sleep on a non-empty ring | whoever publishes sets the drain flag before it returns; the loop clears it before it drains |
| `PendingOnItsWay` | a pending work is queued, being queued or in the loop's hands | see below |
| `SubscribersKept`, `EveryoneCalled` | no subscription is overwritten; an event reaches everyone who subscribed before it | see below |
| `AckedCommitDurable`, `UserKeysKept`, `FactoryAlwaysLoaded`, `StoreTypes` | the slot the flag names holds the last acknowledged image or a later one cut at its flag; user keys come back; factory entries head the table | a commit in progress targets the slot the flag does not name (`TargetSpared`), which `AckedIntact` alone does not say; the table is the factory entries followed by what the image adds |
| `Invariance` | every thread is linked where its state says, every unit of a mutex has one place and one role | see below |
| `MutualExclusion`, `UnitConservation` | no two threads are past a successful lock; the unit is never lost or doubled | from `Invariance` |

**Bottom half.** Every handler that queues a work loads the write counter, fills
the slot and publishes, and a more urgent handler may do all of that in between.
The main loop, which queues reruns, is the lowest producer. Who preempts loads
later, so the loaded positions are ordered by level (`Nested`). The `pending` bit is
a claim: an item belongs to the queue, to one producer or to the loop, and only a
producer about to publish may see its item queued already, at its own slot
(`Claimed`, `Written`). While producers do not overlap nothing pending gets lost
(`Accounted`).

**EventBus.** In the first life of the bus the mutex is created once, so the slot
index a subscriber loaded inside the section is still the count when it writes.
Who is due for a queued event is among the subscribed; the dispatch task's snapshot
is the counted table, and everybody due is called already or still in the snapshot.

**mini-os.** `KernelInv` says of the scheduler's record that a thread is linked in
the level of its priority exactly while it is runnable, that the level's bit is
then set, and that who waits or sleeps is blocked; each kernel function keeps it.
On top: who is on a wait list is inside the call that put it there and has been
told nothing (`WaitInv`); the current thread is runnable unless a switch is due
(`RunInv`); and for each mutex the unit is in the count, with the owner, with a
woken waiter or with an unlock under way, one of them, and nobody has two of these
roles (`UnitInv`). Only the last part makes it inductive. The theorems
assume that no two threads resume the same thread (`SingleResumer`), and they hold
of the behaviours in which no thread exits or is deleted while it holds a mutex
not armed for killing (`UnarmedHolderStays`); the run minios_death shows what
happens otherwise. Mutexes are created unarmed, and armed by
`mini_os_mutex_enable_kill`.

Assumptions on the constants are the named `ASSUME`s of the modules, evaluated by
TLC on each instance.

Only model-checked, and why:

- `QueuedServed`, `EventsDrain`, `StopHeard`, `ClosedRemoveEnds`, `UrgentCallEnds`:
  liveness.
- `BoardProbe`: the cascade is recursive over the tree; `FlashLog`: the scan is
  recursive over the partition.
- `NoneStranded`, `BoostDropped`, `RefsCover` of `MiniOs`: they
  need the waiters and carriers of every object to be counted.

## Abstractions

- Memory is sequentially consistent at the granularity of the code's atomic
  accesses; acquire/release orderings are taken to be sufficient. A critical
  section of mini-os is one step.
- A mutex wait with a timeout may time out whenever the mutex is held.
- The device tree is any tree in topological order, which is what the device-tree
  compiler generates; the cascade tables are computed as the compiler does.
- Configuration values have one type and the factory JSON is the table it parses
  to; the text parser is outside the model. A log line is its number and its
  length, an image its identity, length and whether its digest matches.
- The application of mini-ota calls its functions in the order the library's
  README gives: download, verify, activate, restart, confirm.
- mini-os is the default build: no deadlines and no time slices.

## Not modelled yet

`XTask` (cooperative and preemptive time-slice tasks), the double buffer, the
bare-metal backend, the bus bridge with its slot allocator, safe state and
watchdog; join, detach and creation after start in mini-os.

Not planned: HAL stubs, product drivers and network glue (register sequences and
calls into libraries outside the repository), and the vendored kernels.
