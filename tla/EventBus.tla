------------------------------ MODULE EventBus ------------------------------
(***************************************************************************)
(* The publish/subscribe bus of core/src/event_bus.c together with the     *)
(* boot sequence of system_c/src/system_init.c that creates, starts and    *)
(* seals it.  Actors: the controlling thread (boot, then stop and perhaps  *)
(* a restart), posters (tasks or handlers), subscribing tasks, and the     *)
(* dispatch task.                                                          *)
(*                                                                         *)
(* The threads run concurrently from the start, as when boot is itself a   *)
(* task; a boot that ends before the scheduler starts is a special case.   *)
(*                                                                         *)
(* The kernel queue and mutex are external: a bounded FIFO with atomic     *)
(* send and receive, and a lock whose acquisition may time out while some  *)
(* other thread holds it.                                                  *)
(***************************************************************************)
EXTENDS Naturals, Sequences, FiniteSets

CONSTANTS UserEvents,         \* event ids posted by the application
          Posters,            \* threads or handlers that post
          Subscribers,        \* threads that subscribe, once each
          Wants,              \* subscriber -> set of event ids of its range
          K_QUEUE_LEN, K_MAX_SUBSCRIBERS,
          MaxPosts,           \* bound on application posts
          MaxLives            \* bound on event_bus_init calls that create

Events == UserEvents \cup {"BOOT", "READY", "FAULT"}

ASSUME EventBusAssumption ==
    /\ Wants \in [Subscribers -> SUBSET Events]
    /\ K_QUEUE_LEN \in Nat \ {0} /\ K_MAX_SUBSCRIBERS \in Nat \ {0}
    /\ MaxPosts \in Nat /\ MaxLives \in Nat \ {0}
    /\ Subscribers \cap {"none", "free", "dispatch"} = {}

VARIABLES inited, is_sealed, os_up,   \* bus.inited, bus.is_sealed, system_os_initialized
          queue,                      \* bus.queue: 0 is NULL, n the n-th queue
          items,                      \* content of the live queue
          lives,                      \* queues created so far
          task,                       \* bus.task: NULL or the dispatch task
          dropped,
          table, count,               \* bus.subscribers, bus.count
          sub_lock,                   \* holder of the mutex, or "free"
          boot,                       \* step of the controlling thread
          handle,                     \* its local copy of the task handle
          ppc, held,                  \* posters: step and event, loaded queue
          spc, slot,                  \* subscribers: step, loaded count
          dpc, event, snapshot, called,  \* dispatch task: step and locals
          posts,
          subscribed,                 \* subscribers told MINI_OK
          halted                      \* enter_safe_state was called

ctl  == <<boot, handle, lives>>
bus  == <<inited, is_sealed, os_up, queue, task>>
tab  == <<table, count, sub_lock>>
post == <<ppc, held, posts>>
sub  == <<spc, slot, subscribed>>
disp == <<dpc, event, snapshot, called>>
vars == <<ctl, bus, items, dropped, tab, post, sub, disp, halted>>

None == "none"
Unread == MaxLives + 1   \* a poster that has not read bus.queue yet
NoEvent == [id |-> None, due |-> {}]

Init ==
    /\ inited = FALSE /\ is_sealed = FALSE /\ os_up = FALSE
    /\ queue = 0 /\ items = <<>> /\ lives = 0 /\ task = "NULL"
    /\ dropped = 0
    /\ table = [i \in 0..(K_MAX_SUBSCRIBERS - 1) |-> None]
    /\ count = 0 /\ sub_lock = "free"
    /\ boot = "init" /\ handle = "NULL"
    /\ ppc = [p \in Posters |-> None] /\ held = [p \in Posters |-> Unread] /\ posts = 0
    /\ spc = [s \in Subscribers |-> "idle"] /\ slot = [s \in Subscribers |-> 0]
    /\ subscribed = {}
    /\ dpc = "none" /\ event = NoEvent /\ snapshot = <<>> /\ called = {}
    /\ halted = FALSE

-----------------------------------------------------------------------------
\* External: mini_queue_send with timeout 0.  A queue deleted meanwhile takes
\* the item nowhere.  Every queued event carries the subscribers whose
\* subscribe had returned MINI_OK when it was accepted (used by DeliveredToAll).
Entry(id) == [id |-> id, due |-> {s \in subscribed : id \in Wants[s]}]
QueueSend(q, id) ==
    IF q = queue /\ q # 0 /\ Len(items) < K_QUEUE_LEN
    THEN /\ items' = Append(items, Entry(id)) /\ UNCHANGED dropped
    ELSE dropped' = dropped + 1 /\ UNCHANGED <<items>>

-----------------------------------------------------------------------------
\* The controlling thread: boot.
Ctl(from, to) == ~halted /\ boot = from /\ boot' = to
CtlRest == UNCHANGED <<tab, post, sub, halted>>

\* event_bus_init creates the queue and the mutex.  When one of them cannot be
\* created boot enters the safe state; a later caller gets MINI_ERR_NOMEM.
event_bus_init ==
    /\ Ctl("init", IF lives = 0 THEN "boot" ELSE "start")
    /\ lives' = lives + 1 /\ queue' = lives + 1 /\ items' = <<>>
    /\ inited' = TRUE
    /\ sub_lock' = "free"
    /\ UNCHANGED <<is_sealed, os_up, task, handle, dropped, table, count, post, sub, disp,
                   halted>>

InitFails ==
    /\ Ctl("init", IF lives = 0 THEN "init" ELSE "stopped")
    /\ halted' = (lives = 0)
    /\ UNCHANGED <<bus, items, dropped, tab, post, sub, disp, handle, lives>>

\* event_bus_post by the controlling thread itself: gate and send in one go,
\* as nothing else of that thread can come between.
PostInOrder(id) ==
    IF queue = 0 \/ ~inited \/ ~os_up
    THEN UNCHANGED <<items, dropped>>
    ELSE QueueSend(queue, id)

AnnounceBoot ==
    /\ Ctl("boot", "up")
    /\ PostInOrder("BOOT")
    /\ CtlRest /\ UNCHANGED <<bus, disp, handle, lives>>
mini_tree_pre_os_init ==
    /\ Ctl("up", "start")
    /\ os_up' = TRUE
    /\ CtlRest /\ UNCHANGED <<inited, is_sealed, queue, task, items, dropped, disp, handle, lives>>

\* event_bus_start: the task is created and ready before its handle is stored.
\* Boot goes on to announce and seal; a restart by the application does not.
Started == IF lives = 1 THEN "ready" ELSE "running"
StartTask ==
    /\ Ctl("start", "store") /\ task = "NULL" /\ queue # 0
    /\ dpc' = "recv"
    /\ CtlRest
    /\ UNCHANGED <<bus, items, dropped, event, snapshot, called, handle, lives>>
\* The task cannot be created: the bus stays without one.
StartFails ==
    /\ Ctl("start", Started)
    /\ CtlRest /\ UNCHANGED <<bus, items, dropped, disp, handle, lives>>
StoreHandle ==
    /\ Ctl("store", Started)
    /\ task' = "dispatch"
    /\ CtlRest
    /\ UNCHANGED <<inited, is_sealed, os_up, queue, items, dropped, disp, handle, lives>>

AnnounceReady ==
    /\ Ctl("ready", "seal")
    /\ PostInOrder("READY")
    /\ CtlRest /\ UNCHANGED <<bus, disp, handle, lives>>
event_bus_seal ==
    /\ Ctl("seal", "running")
    /\ is_sealed' = TRUE
    /\ CtlRest
    /\ UNCHANGED <<inited, os_up, queue, task, items, dropped, disp, handle, lives>>

\* The controlling thread: event_bus_stop.
StopClear ==
    /\ Ctl("running", "wake") /\ task # "NULL"
    /\ handle' = task /\ task' = "NULL"
    /\ CtlRest
    /\ UNCHANGED <<inited, is_sealed, os_up, queue, items, dropped, disp, lives>>
StopUnheard ==
    /\ Ctl("wake", "wait")
    /\ CtlRest /\ UNCHANGED <<bus, items, dropped, disp, handle, lives>>
StopWake ==
    /\ Ctl("wake", "wait")
    /\ IF Len(items) < K_QUEUE_LEN THEN items' = Append(items, Entry("FAULT")) ELSE UNCHANGED items
    /\ CtlRest /\ UNCHANGED <<bus, dropped, disp, handle, lives>>
\* The wait ends when the task is gone, or after K_STOP_WAIT_MS.
StopExit ==
    /\ Ctl("wait", "uninit") /\ dpc = "dead"
    /\ CtlRest /\ UNCHANGED <<bus, items, dropped, disp, handle, lives>>
StopTimeout ==
    /\ Ctl("wait", "kill") /\ dpc # "dead"
    /\ CtlRest /\ UNCHANGED <<bus, items, dropped, disp, handle, lives>>
\* A task that runs still is deleted, wherever it is.
StopKill ==
    /\ Ctl("kill", "uninit")
    /\ dpc' = "dead"
    /\ CtlRest /\ UNCHANGED <<bus, items, dropped, event, snapshot, called, handle, lives>>
StopUninit ==
    /\ Ctl("uninit", "delete")
    /\ inited' = FALSE
    /\ CtlRest
    /\ UNCHANGED <<is_sealed, os_up, queue, task, items, dropped, disp, handle, lives>>
StopDelete ==
    /\ Ctl("delete", "stopped")
    /\ queue' = 0 /\ items' = <<>>
    /\ CtlRest
    /\ UNCHANGED <<inited, is_sealed, os_up, task, dropped, disp, handle, lives>>
Restart ==
    /\ lives < MaxLives
    /\ Ctl("stopped", "init")
    /\ CtlRest /\ UNCHANGED <<bus, items, dropped, disp, handle, lives>>

Control ==
    \/ event_bus_init \/ InitFails \/ AnnounceBoot \/ mini_tree_pre_os_init
    \/ StartTask \/ StartFails \/ StoreHandle \/ AnnounceReady \/ event_bus_seal
    \/ StopClear \/ StopWake \/ StopExit \/ StopTimeout \/ StopKill \/ StopUninit
    \/ StopDelete \/ Restart

-----------------------------------------------------------------------------
\* event_bus_post_internal: the gate, then bus.queue is read again, then the
\* send on the queue that was read; a NULL queue takes nothing.
PostGate(p, id) ==
    /\ ~halted /\ posts < MaxPosts /\ ppc[p] = None
    /\ queue # 0 /\ inited /\ os_up
    /\ posts' = posts + 1
    /\ ppc' = [ppc EXCEPT ![p] = id] /\ held' = [held EXCEPT ![p] = Unread]
    /\ UNCHANGED <<ctl, bus, items, dropped, tab, sub, disp, halted>>
PostRead(p) ==
    /\ ~halted /\ ppc[p] # None /\ held[p] = Unread
    /\ held' = [held EXCEPT ![p] = queue]
    /\ UNCHANGED <<ctl, bus, items, dropped, tab, ppc, posts, sub, disp, halted>>
PostSend(p) ==
    /\ ~halted /\ ppc[p] # None /\ held[p] # Unread
    /\ QueueSend(held[p], ppc[p])
    /\ ppc' = [ppc EXCEPT ![p] = None] /\ held' = [held EXCEPT ![p] = Unread]
    /\ UNCHANGED <<ctl, bus, tab, posts, sub, disp, halted>>

-----------------------------------------------------------------------------
\* event_bus_subscribe: check, lock, write the entry, count it, unlock.
SubRest == UNCHANGED <<ctl, bus, items, dropped, post, disp, halted>>
SubCheck(s) ==
    /\ ~halted /\ spc[s] = "idle"
    /\ lives > 0 /\ ~is_sealed
    /\ spc' = [spc EXCEPT ![s] = "lock"]
    /\ SubRest /\ UNCHANGED <<tab, slot, subscribed>>
LockSkipped(s) ==
    /\ ~halted /\ spc[s] = "lock"
    /\ spc' = [spc EXCEPT ![s] = "write"] /\ slot' = [slot EXCEPT ![s] = count]
    /\ count < K_MAX_SUBSCRIBERS
    /\ SubRest /\ UNCHANGED <<tab, subscribed>>
SubLock(s) ==
    /\ ~halted /\ spc[s] = "lock"
    /\ \/ /\ sub_lock = "free"
          /\ sub_lock' = s
          /\ slot' = [slot EXCEPT ![s] = count]
          /\ spc' = [spc EXCEPT ![s] = IF count < K_MAX_SUBSCRIBERS THEN "write" ELSE "full"]
       \/ /\ sub_lock # "free"                                    \* MINI_ERR_TIMEOUT
          /\ spc' = [spc EXCEPT ![s] = "failed"]
          /\ UNCHANGED <<sub_lock, slot>>
    /\ SubRest /\ UNCHANGED <<table, count, subscribed>>
SubWrite(s) ==
    /\ ~halted /\ spc[s] = "write"
    /\ table' = [table EXCEPT ![slot[s]] = s]
    /\ spc' = [spc EXCEPT ![s] = "count"]
    /\ SubRest /\ UNCHANGED <<count, sub_lock, slot, subscribed>>
SubCount(s) ==
    /\ ~halted /\ spc[s] = "count"
    /\ count' = slot[s] + 1
    /\ spc' = [spc EXCEPT ![s] = "unlock"]
    /\ SubRest /\ UNCHANGED <<table, sub_lock, slot, subscribed>>
SubUnlock(s) ==
    /\ ~halted /\ spc[s] \in {"unlock", "full"}
    /\ sub_lock' = IF sub_lock = s THEN "free" ELSE sub_lock
    /\ subscribed' = IF spc[s] = "unlock" THEN subscribed \cup {s} ELSE subscribed
    /\ spc' = [spc EXCEPT ![s] = IF spc[s] = "unlock" THEN "done" ELSE "failed"]
    /\ SubRest /\ UNCHANGED <<table, count, slot>>
Subscribe(s) == SubCheck(s) \/ SubLock(s) \/ SubWrite(s) \/ SubCount(s) \/ SubUnlock(s)

-----------------------------------------------------------------------------
\* event_bus_dispatch_task.
DispRest == UNCHANGED <<ctl, bus, dropped, post, sub>>
Receive ==
    /\ ~halted /\ dpc = "recv" /\ items # <<>>
    /\ event' = Head(items) /\ items' = Tail(items)
    /\ dpc' = "check"
    /\ DispRest /\ UNCHANGED <<tab, snapshot, called, halted>>
CheckTask ==
    /\ ~halted /\ dpc = "check"
    /\ dpc' = IF task = "NULL" THEN "dead" ELSE "lock"
    /\ DispRest /\ UNCHANGED <<items, tab, event, snapshot, called, halted>>
DispatchLock ==
    /\ ~halted /\ dpc = "lock"
    /\ \/ sub_lock = "free" /\ sub_lock' = "dispatch" /\ dpc' = "snap" /\ UNCHANGED halted
       \/ sub_lock # "free" /\ halted' = TRUE /\ dpc' = "dead" /\ UNCHANGED sub_lock
    /\ DispRest /\ UNCHANGED <<items, table, count, event, snapshot, called>>
SnapshotShort ==
    /\ ~halted /\ dpc = "snap"
    /\ snapshot' = [i \in 1..(count - 1) |-> table[i - 1]]
    /\ called' = {} /\ sub_lock' = "free" /\ dpc' = "call"
    /\ DispRest /\ UNCHANGED <<items, table, count, event, halted>>
Snapshot ==
    /\ ~halted /\ dpc = "snap"
    /\ snapshot' = [i \in 1..count |-> table[i - 1]]
    /\ called' = {} /\ sub_lock' = "free" /\ dpc' = "call"
    /\ DispRest /\ UNCHANGED <<items, table, count, event, halted>>
Callback ==
    /\ ~halted /\ dpc = "call" /\ snapshot # <<>>
    /\ called' = IF event.id \in Wants[Head(snapshot)] THEN called \cup {Head(snapshot)} ELSE called
    /\ snapshot' = Tail(snapshot)
    /\ DispRest /\ UNCHANGED <<items, tab, dpc, event, halted>>
OneEventOnly ==
    /\ ~halted /\ dpc = "call" /\ snapshot = <<>>
    /\ dpc' = "dead"
    /\ DispRest /\ UNCHANGED <<items, tab, event, snapshot, called, halted>>
NextEvent ==
    /\ ~halted /\ dpc = "call" /\ snapshot = <<>>
    /\ dpc' = "recv"
    /\ DispRest /\ UNCHANGED <<items, tab, event, snapshot, called, halted>>
Dispatch ==
    \/ Receive \/ CheckTask \/ DispatchLock \/ Snapshot \/ Callback \/ NextEvent

Next ==
    \/ Control
    \/ \E p \in Posters : PostRead(p) \/ PostSend(p) \/ \E id \in UserEvents : PostGate(p, id)
    \/ \E s \in Subscribers : Subscribe(s)
    \/ Dispatch

Spec == Init /\ [][Next]_vars

\* Boot proceeds, a stop that has begun goes on (when to begin one is the
\* application's choice), and the dispatch task, the highest-priority one, keeps
\* running.  Nothing is assumed of when the wait of a stop times out.
BootStep ==
    \/ event_bus_init \/ InitFails \/ AnnounceBoot \/ mini_tree_pre_os_init
    \/ StartTask \/ StartFails \/ StoreHandle \/ AnnounceReady \/ event_bus_seal
    \/ StopWake \/ StopExit \/ StopKill \/ StopUninit \/ StopDelete
LiveSpec == Spec /\ WF_vars(BootStep) /\ WF_vars(Dispatch)

-----------------------------------------------------------------------------
\* Every variable has its type; queue and table respect their capacities and
\* every counted table entry is filled.
TypeOK ==
    /\ queue \in {0, lives} /\ lives \in 0..MaxLives
    /\ items \in Seq([id : Events, due : SUBSET Subscribers]) /\ Len(items) <= K_QUEUE_LEN
    /\ count \in 0..K_MAX_SUBSCRIBERS
    /\ \A i \in 0..(count - 1) : table[i] \in Subscribers
    /\ sub_lock \in Subscribers \cup {"free", "dispatch"}
    /\ dpc \in {"none", "recv", "check", "lock", "snap", "call", "dead"}
    /\ dropped \in Nat

\* A subscription that returned MINI_OK stays in the counted part of the
\* table: concurrent subscribers never overwrite each other's entry.  (Until
\* a restart, which re-creates the mutex under whoever holds it.)  Queue and
\* table respect their capacities throughout.
SubscriptionKept ==
    /\ TypeOK
    /\ lives <= 1 => \A s \in subscribed : \E i \in 0..(count - 1) : table[i] = s

\* When the dispatch task has finished with an event, every subscriber whose
\* event_bus_subscribe had returned MINI_OK before the event was queued
\* and whose range holds it has been called (until a restart, as above).
DeliveredToAll ==
    (lives <= 1 /\ dpc = "call" /\ snapshot = <<>>) => event.due \subseteq called

\* event_bus_stop needs no force: a dispatch task whose callbacks return notices
\* the cleared handle and exits by itself, although the wake-up event is lost
\* when the queue is full and the task may be anywhere in its loop.  (A wait
\* that never times out is a fair behaviour here.)
StopHeard == boot = "wait" ~> (dpc = "dead" \/ halted)

\* Queued events do not stay while the bus has a living dispatch task: they
\* are dispatched, or the bus is stopped, or the system is in safe state.
EventsDrain ==
    (items # <<>> /\ task # "NULL" /\ dpc # "dead") ~> (items = <<>> \/ halted)

=============================================================================
