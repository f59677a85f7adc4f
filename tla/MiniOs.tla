------------------------------- MODULE MiniOs -------------------------------
(***************************************************************************)
(* Threads, semaphores, mutexes with priority inheritance and queues of    *)
(* mini-os (lib/mini-os/src/{thread,semaphore,mutex,queue}.c, inc/obj.h)   *)
(* on top of the scheduler of MiniOsSched.                                 *)
(*                                                                         *)
(* One step is one section between mini_os_irq_save and the matching       *)
(* mini_os_irq_restore, or one mini_os_schedule_yield; the SysTick and the *)
(* PendSV handler run between any two of them.  A thread executes only     *)
(* while it is the current thread and no PendSV is pending.  pc names the  *)
(* section a thread executes next:                                         *)
(*   "app"    outside the kernel, free to make a call of its program       *)
(*   "enter"  the reference on the object is taken                         *)
(*   "take"   in mutex_lock, before the embedded semaphore_take            *)
(*   "yieldPark", "parked"   before and after the yield of wait_park; a    *)
(*            lock whose take found the unit goes on like a parked one     *)
(*   "give"   in mutex_unlock, before the embedded semaphore_give          *)
(*   "resume", "delete", "recompute"   between a check and its section     *)
(*   "yield", "exit"   before the yield that ends a call                   *)
(*   "gone"   terminated or deleted                                        *)
(* Two short sections are part of another one.  The release of the object  *)
(* reference that ends a call belongs to the call's last section; and the  *)
(* section in which wait_park reads and resets the wait_status of its own  *)
(* thread, which nobody else writes once the thread is off the wait list,  *)
(* and forgets the recorded reference, belongs to the section after it.    *)
(***************************************************************************)
EXTENDS MiniOsSched

CONSTANTS Mutex, Sem, Queue,
          Capacity,    \* max_count of a semaphore, max_depth of a queue
          Armed,       \* the objects *_enable_kill was called on
          Recursive,   \* the mutexes created recursive
          DepthMax,    \* MINI_OS_UINT8_MAX as a recursion depth
          ChainMax,    \* MINI_OS_MUTEX_PI_CHAIN_MAX
          NoObj,       \* MINI_OS_NULL as an object
          Rank,        \* the order in which a kill path visits wait lists
          Program      \* application -> [base, calls, isr]

Obj == Mutex \cup Sem \cup Queue
SendList(q) == <<q, "send">>
RecvList(q) == <<q, "recv">>
QueueLists == {SendList(q) : q \in Queue} \cup {RecvList(q) : q \in Queue}

ASSUME ObjAssumption ==
    /\ ChainMax \in Nat
    /\ \A o \in Sem \cup Queue : Capacity[o] \in Nat \ {0}
    /\ WaitList = Mutex \cup Sem \cup QueueLists
    /\ Mutex \cap Sem = {} /\ Mutex \cap Queue = {} /\ Sem \cap Queue = {}
    /\ QueueLists \cap (Mutex \cup Sem) = {}
    /\ NoObj \notin Obj

(* What each call of a program is applied to. *)
Target ==
    [lock |-> Mutex, unlock |-> Mutex, take |-> Sem, give |-> Sem, send |-> Queue, recv |-> Queue,
     delay |-> {NoObj}, exit |-> {NoObj}, destroy |-> Obj,
     suspend |-> Thread \ {Idle}, resume |-> Thread \ {Idle}, delete |-> Thread \ {Idle},
     setprio |-> Thread]

(* Programs make typed calls; an interrupt handler gives, sends, receives. *)
ASSUME ProgramAssumption ==
    \A a \in DOMAIN Program :
        /\ Program[a].base \in [Thread -> Prio]
        /\ \A t \in Thread : \A c \in Program[a].calls[t] :
             c.op \in DOMAIN Target /\ c.obj \in Target[c.op]
        /\ \A c \in Program[a].isr :
             c.op \in {"give", "send", "recv"} /\ c.obj \in Target[c.op]

VARIABLES app, k, pc, call, waitMutex, count, owner, depth, refs, dead,
          defunct,
          holds,    \* history: the mutexes whose lock call returned OK
          orphan    \* history: objects whose unit or wake-up was given to a
                    \* thread that was then deleted

objs == <<count, owner, depth, refs, dead>>
vars == <<app, k, pc, call, waitMutex, objs, defunct, holds, orphan>>

(* A call in progress; due is its deadline minus g_global_tick, which is   *)
(* all that mini_os_tick_until tells apart.                                *)
NoCall == [op |-> "none", obj |-> NoObj, arg |-> 0, due |-> 0]
Started(c) == [op |-> c.op, obj |-> c.obj, arg |-> c.arg,
               due |-> IF c.obj \in Queue /\ c.arg # Forever THEN c.arg ELSE 0]

Unlinked == [on |-> Everywhere(Off), ahead |-> Alone]

(* The threads were created, and so made ready, in some fixed order. *)
Created(base) ==
    LET order == CHOOSE f \in Injection(Thread, 1 .. Cardinality(Thread)) : TRUE
    IN [on |-> base,
        ahead |-> [t \in Thread |-> {u \in Thread : base[u] = base[t] /\ order[u] < order[t]}]]

Init ==
    /\ app \in DOMAIN Program
    /\ LET base == Program[app].base
       IN k = [ready |-> Created(base),
               wheel |-> Unlinked, wait |-> Unlinked,
               bitmap |-> {base[t] : t \in Thread},
               state |-> [t \in Thread |-> "READY"], prio |-> base, base |-> base,
               status |-> [t \in Thread |-> TRUE], resume |-> [t \in Thread |-> 0],
               current |-> NoThread, served |-> NPrio, pend |-> TRUE,
               slot |-> 0, round |-> [t \in Thread |-> 0], left |-> [t \in Thread |-> 0]]
    /\ pc = [t \in Thread |-> "app"]
    /\ call = [t \in Thread |-> NoCall]
    /\ waitMutex = [t \in Thread |-> NoObj]
    /\ count = [o \in Obj |-> IF o \in Mutex THEN 1 ELSE 0]
    /\ owner = [m \in Mutex |-> NoThread]
    /\ depth = [m \in Mutex |-> 0]
    /\ refs = [o \in Obj |-> 1]
    /\ dead = [o \in Obj |-> FALSE]
    /\ defunct = {}
    /\ holds = [t \in Thread |-> {}]
    /\ orphan = {}

(***************************************************************************)
(* Priority inheritance                                                    *)
(***************************************************************************)
WaiterPriorities(kk, m) == {kk.prio[w] : w \in Waiters(kk, m)}

NeverLowered(kk, own, t) ==
    Min({kk.prio[t]} \cup UNION {WaiterPriorities(kk, m) : m \in {x \in Mutex : own[x] = t}})

RequiredPriority(kk, own, t) ==
    Min({kk.base[t]} \cup UNION {WaiterPriorities(kk, m) : m \in {x \in Mutex : own[x] = t}})

(* One link of the chain: what the thread has to run at, then on to the    *)
(* owner of the mutex it is really parked on.                              *)
PropagateLink(kk, own, wm, s) ==
    IF s.thread = NoThread THEN s
    ELSE LET req == Min({RequiredPriority([kk EXCEPT !.prio = s.prio], own, s.thread), s.extra})
             m   == wm[s.thread]
         IN [prio |-> [s.prio EXCEPT ![s.thread] = req], extra |-> req,
             thread |-> IF m # NoObj /\ kk.wait.on[s.thread] = m THEN own[m] ELSE NoThread]

(* mini_os_mutex_propagate.  Only the last thread of the chain can be      *)
(* runnable, so applying the priorities at the end is the same.            *)
Propagate(kk, own, wm, t, extra) ==
    LET Chain[d \in 0 .. ChainMax] ==
            IF d = 0 THEN [prio |-> kk.prio, thread |-> t, extra |-> extra]
            ELSE PropagateLink(kk, own, wm, Chain[d - 1])
    IN PriorityApply(kk, Chain[ChainMax].prio)

(* mini_os_mutex_priority_recompute *)
Recompute(kk, own, wm, t) == Propagate(kk, own, wm, t, NPrio)

KilledSucceeds(w) == TRUE

(* What a killed waiter's park returns: success leaves the report to a     *)
(* re-check of the object by the caller, which only the queue calls do.    *)
(* Mutexes and semaphores arm the other flavour in their enable_kill.      *)
KillStatus(w) == w \in (Mutex \cup Sem) => w \notin Armed

Forget(wm, S) == [t \in Thread |-> IF t \in S THEN NoObj ELSE wm[t]]

(***************************************************************************)
(* Threads executing calls                                                 *)
(***************************************************************************)
Executes(t) == k.current = t /\ ~k.pend

Calls(t, op) == {c \in Program[app].calls[t] : c.op = op}

Goto(t, l) == pc' = [pc EXCEPT ![t] = l]

Return(t) ==
    /\ Goto(t, "app")
    /\ call' = [call EXCEPT ![t] = NoCall]
    /\ refs' = [refs EXCEPT ![call[t].obj] = @ - 1]

(* A return that first yields, because a waiter was woken. *)
ReturnYielding(t, woken) ==
    /\ Goto(t, IF woken THEN "yield" ELSE "app")
    /\ call' = [call EXCEPT ![t] = NoCall]
    /\ refs' = [refs EXCEPT ![call[t].obj] = @ - 1]

AcquireUncounted(t) ==
    \E op \in {"lock", "take", "send", "recv"} : \E c \in Calls(t, op) :
        /\ Executes(t) /\ pc[t] = "app" /\ ~dead[c.obj]
        /\ call' = [call EXCEPT ![t] = Started(c)]
        /\ Goto(t, "enter")
        /\ UNCHANGED <<app, k, waitMutex, objs, defunct, holds, orphan>>

(* mini_os_obj_acquire at the head of lock, take, send and receive, with   *)
(* the deadline the queue calls compute next.  A dead object is refused.   *)
Acquire(t) ==
    \E op \in {"lock", "take", "send", "recv"} : \E c \in Calls(t, op) :
        /\ Executes(t) /\ pc[t] = "app" /\ ~dead[c.obj]
        /\ refs' = [refs EXCEPT ![c.obj] = @ + 1]
        /\ call' = [call EXCEPT ![t] = Started(c)]
        /\ Goto(t, "enter")
        /\ UNCHANGED <<app, k, waitMutex, count, owner, depth, dead, defunct, holds, orphan>>

ParkOn(t, w, ticks) ==
    /\ k' = WaitPark(k, t, w, ticks)
    /\ Goto(t, "yieldPark")
    /\ UNCHANGED <<call, refs, count>>

Inside(t, op, l) == Executes(t) /\ call[t].op = op /\ pc[t] = l

(* mini_os_mutex_lock, first section. *)
Lock(t) ==
    LET m == call[t].obj IN
    /\ Inside(t, "lock", "enter")
    /\ \/ /\ count[m] > 0
          /\ count' = [count EXCEPT ![m] = @ - 1]
          /\ owner' = [owner EXCEPT ![m] = t]
          /\ depth' = [depth EXCEPT ![m] = 1]
          /\ holds' = [holds EXCEPT ![t] = @ \cup {m}]
          /\ Return(t)
          /\ UNCHANGED <<k, waitMutex>>
       \/ /\ count[m] = 0 /\ owner[m] = t
          /\ depth' = IF m \in Recursive /\ depth[m] < DepthMax
                      THEN [depth EXCEPT ![m] = @ + 1] ELSE depth
          /\ Return(t)
          /\ UNCHANGED <<k, waitMutex, count, owner, holds>>
       \/ /\ count[m] = 0 /\ owner[m] # t /\ call[t].arg = 0
          /\ Return(t)
          /\ UNCHANGED <<k, waitMutex, count, owner, depth, holds>>
       \/ /\ count[m] = 0 /\ owner[m] # t /\ call[t].arg # 0
          /\ waitMutex' = IF owner[m] = NoThread THEN waitMutex
                          ELSE [waitMutex EXCEPT ![t] = m]
          /\ k' = Propagate(k, owner, waitMutex', owner[m], k.prio[t])
          /\ Goto(t, "take")
          /\ UNCHANGED <<call, refs, count, owner, depth, holds>>
    /\ UNCHANGED <<app, dead, defunct, orphan>>

(* The second half of mini_os_sync_wait_park reads and resets wait_status. *)
Consume(kk, t) == [kk EXCEPT !.status[t] = TRUE]

(* The end of mini_os_mutex_lock once its semaphore_take has a result. *)
LockEnd(t, kk, ok) ==
    LET m  == call[t].obj
        wm == [waitMutex EXCEPT ![t] = NoObj]
    IN /\ waitMutex' = wm
       /\ IF ok
          THEN /\ owner' = [owner EXCEPT ![m] = t]
               /\ depth' = [depth EXCEPT ![m] = 1]
               /\ holds' = [holds EXCEPT ![t] = @ \cup {m}]
               /\ k' = Recompute(kk, owner', wm, t)
          ELSE /\ k' = IF waitMutex[t] = m
                       THEN Recompute(kk, owner, wm, owner[m]) ELSE kk
               /\ UNCHANGED <<owner, depth, holds>>
       /\ Return(t)

(* mini_os_semaphore_take inside mini_os_mutex_lock.  With the unit in     *)
(* hand the thread is where a waiter is that was handed it: before the     *)
(* last section of the lock.                                               *)
LockTake(t) ==
    LET m == call[t].obj IN
    /\ Inside(t, "lock", "take")
    /\ \/ /\ count[m] > 0
          /\ count' = [count EXCEPT ![m] = @ - 1]
          /\ k' = Consume(k, t)
          /\ Goto(t, "parked")
          /\ UNCHANGED <<call, refs>>
       \/ /\ count[m] = 0
          /\ ParkOn(t, m, call[t].arg)
    /\ UNCHANGED <<app, waitMutex, owner, depth, dead, defunct, holds, orphan>>

LockParked(t) ==
    /\ Inside(t, "lock", "parked")
    /\ LockEnd(t, Consume(k, t), k.status[t])
    /\ UNCHANGED <<app, count, dead, defunct, orphan>>

(* mini_os_semaphore_take called by the application. *)
Take(t) ==
    LET s == call[t].obj IN
    /\ Inside(t, "take", "enter")
    /\ \/ /\ count[s] > 0 /\ count' = [count EXCEPT ![s] = @ - 1]
          /\ Return(t) /\ UNCHANGED k
       \/ /\ count[s] = 0 /\ call[t].arg = 0
          /\ Return(t) /\ UNCHANGED <<k, count>>
       \/ /\ count[s] = 0 /\ call[t].arg # 0
          /\ ParkOn(t, s, call[t].arg)
    /\ UNCHANGED <<app, waitMutex, owner, depth, dead, defunct, holds, orphan>>

TakeParked(t) ==
    /\ Inside(t, "take", "parked")
    /\ k' = Consume(k, t)
    /\ Return(t)
    /\ UNCHANGED <<app, waitMutex, count, owner, depth, dead, defunct, holds, orphan>>

(* mini_os_mutex_unlock up to its irq_restore; only the owner may. *)
Unlock(t) ==
    \E c \in Calls(t, "unlock") :
        /\ Executes(t) /\ pc[t] = "app" /\ owner[c.obj] = t
        /\ depth' = [depth EXCEPT ![c.obj] = @ - 1]
        /\ IF depth[c.obj] > 1
           THEN UNCHANGED <<k, pc, call, owner, holds>>
           ELSE /\ owner' = [owner EXCEPT ![c.obj] = NoThread]
                /\ holds' = [holds EXCEPT ![t] = @ \ {c.obj}]
                /\ k' = Recompute(k, owner', waitMutex, t)
                /\ call' = [call EXCEPT ![t] = Started(c)]
                /\ Goto(t, "give")
        /\ UNCHANGED <<app, waitMutex, count, refs, dead, defunct, orphan>>

(* mini_os_semaphore_give and _give_isr on the lists and the count: the    *)
(* unit goes to the oldest waiter, else to the count up to its capacity.   *)
MaxCount(o) == IF o \in Mutex THEN 1 ELSE Capacity[o]

GiveAndCount(o) ==
    count' = IF count[o] < MaxCount(o) THEN [count EXCEPT ![o] = @ + 1] ELSE count

GiveUnit(o) ==
    count' = IF Empty(k.wait, o) /\ count[o] < MaxCount(o)
             THEN [count EXCEPT ![o] = @ + 1] ELSE count

(* The give of a thread: of the unlock it is in, or of its own.  A give    *)
(* takes no reference and looks at no flag: applications do not give to a  *)
(* semaphore they have destroyed.                                          *)
Give(t) ==
    \E o \in Mutex \cup Sem :
        /\ Executes(t)
        /\ \/ pc[t] = "give" /\ call[t].obj = o
           \/ pc[t] = "app" /\ \E c \in Calls(t, "give") : c.obj = o /\ ~dead[o]
        /\ GiveUnit(o)
        /\ k' = WakeOne(k, o)
        /\ Goto(t, IF ~Empty(k.wait, o) THEN "yield" ELSE "app")
        /\ call' = [call EXCEPT ![t] = NoCall]
        /\ UNCHANGED <<app, waitMutex, owner, depth, refs, dead, defunct, holds, orphan>>

(* mini_os_queue_send and _receive: one round of the loop, entered first   *)
(* and again after every successful park.                                  *)
QueueRound(t, op, room, own, other, step) ==
    LET q == call[t].obj IN
    /\ Executes(t) /\ call[t].op = op /\ pc[t] \in {"enter", "parked"}
    /\ IF pc[t] = "parked" /\ ~k.status[t]
       THEN Return(t) /\ k' = Consume(k, t) /\ UNCHANGED count
       ELSE \/ /\ dead[q]
               /\ Return(t) /\ k' = Consume(k, t) /\ UNCHANGED count
            \/ /\ ~dead[q] /\ room
               /\ count' = [count EXCEPT ![q] = @ + step]
               /\ k' = WakeOne(Consume(k, t), other)
               /\ ReturnYielding(t, ~Empty(k.wait, other))
            \/ /\ ~dead[q] /\ ~room /\ call[t].arg # Forever /\ call[t].due = 0
               /\ Return(t) /\ k' = Consume(k, t) /\ UNCHANGED count
            \/ /\ ~dead[q] /\ ~room /\ (call[t].arg = Forever \/ call[t].due > 0)
               /\ ParkOn(t, own, IF call[t].arg = Forever THEN Forever ELSE call[t].due)
    /\ UNCHANGED <<app, waitMutex, owner, depth, dead, defunct, holds, orphan>>

Send(t) ==
    LET q == call[t].obj
    IN /\ call[t].op = "send"
       /\ QueueRound(t, "send", count[q] < Capacity[q], SendList(q), RecvList(q), 1)

Receive(t) ==
    LET q == call[t].obj
    IN /\ call[t].op = "recv"
       /\ QueueRound(t, "recv", count[q] > 0, RecvList(q), SendList(q), -1)

(***************************************************************************)
(* Thread calls                                                            *)
(***************************************************************************)
(* The yield a call ends with, or that follows the park. *)
YieldStep(t) ==
    /\ Executes(t) /\ pc[t] \in {"yield", "yieldPark", "exit"}
    /\ k' = Yield(k)
    /\ Goto(t, CASE pc[t] = "yield" -> "app"
                 [] pc[t] = "yieldPark" -> "parked"
                 [] pc[t] = "exit" -> "gone")
    /\ UNCHANGED <<app, call, waitMutex, objs, defunct, holds, orphan>>

Delay(t) ==
    \E c \in Calls(t, "delay") :
        /\ Executes(t) /\ pc[t] = "app"
        /\ k' = DelayPark(k, t, c.arg)
        /\ Goto(t, "yield")
        /\ UNCHANGED <<app, call, waitMutex, objs, defunct, holds, orphan>>

(* The owner of the mutex a thread is parked on, whose boost goes with it. *)
BoostedBy(x) ==
    IF waitMutex[x] # NoObj /\ k.wait.on[x] = waitMutex[x] THEN owner[waitMutex[x]] ELSE NoThread

Suspend(t) ==
    \E c \in Calls(t, "suspend") : LET x == c.obj IN
        /\ Executes(t) /\ pc[t] = "app" /\ pc[x] # "gone"
        /\ k.state[x] \in {"READY", "RUNNING", "BLOCKED"}
        /\ waitMutex' = IF Waiting(k, x) THEN Forget(waitMutex, {x}) ELSE waitMutex
        /\ k' = Recompute(SuspendLists(k, x), owner, waitMutex', BoostedBy(x))
        /\ Goto(t, IF x = t THEN "yield" ELSE "app")
        /\ UNCHANGED <<app, call, objs, defunct, holds, orphan>>

(* The state is checked before the section that acts on it. *)
ResumeCheck(t) ==
    \E c \in Calls(t, "resume") :
        /\ Executes(t) /\ pc[t] = "app" /\ k.state[c.obj] = "SUSPENDED"
        /\ call' = [call EXCEPT ![t] = Started(c)]
        /\ Goto(t, "resume")
        /\ UNCHANGED <<app, k, waitMutex, objs, defunct, holds, orphan>>

Resume(t) ==
    /\ Executes(t) /\ pc[t] = "resume"
    /\ k' = ResumeLists(k, call[t].obj)
    /\ call' = [call EXCEPT ![t] = NoCall]
    /\ Goto(t, "app")
    /\ UNCHANGED <<app, waitMutex, objs, defunct, holds, orphan>>

(* mini_os_thread_set_priority: the base first, the effective priority in  *)
(* a section of its own.                                                   *)
SetBase(t) ==
    \E c \in Calls(t, "setprio") :
        /\ Executes(t) /\ pc[t] = "app" /\ pc[c.obj] # "gone"
        /\ k' = [k EXCEPT !.base[c.obj] = c.arg]
        /\ call' = [call EXCEPT ![t] = Started(c)]
        /\ Goto(t, "recompute")
        /\ UNCHANGED <<app, waitMutex, objs, defunct, holds, orphan>>

SetPriority(t) ==
    /\ Executes(t) /\ pc[t] = "recompute"
    /\ k' = Recompute(k, owner, waitMutex, call[t].obj)
    /\ call' = [call EXCEPT ![t] = NoCall]
    /\ Goto(t, "app")
    /\ UNCHANGED <<app, waitMutex, objs, defunct, holds, orphan>>

(* mini_os_mutex_kill_held: the waiters of every mutex the thread holds    *)
(* are released and the mutexes are left free.                             *)
Held(x) == {m \in Mutex : owner[m] = x}

KillWaiters(kk, W) ==
    LET T == {t \in Thread : kk.wait.on[t] \in W}
    IN Wake(kk, T, [t \in Thread |-> KillStatus(kk.wait.on[t])],
            [t \in Thread |-> kk.wait.ahead[t] \cup
                {u \in T : t \in T /\ Rank[kk.wait.on[u]] < Rank[kk.wait.on[t]]}])

KillHeldObjects(x) ==
    /\ waitMutex' = Forget(waitMutex, {x} \cup {t \in Thread : k.wait.on[t] \in Held(x)})
    /\ owner' = [m \in Mutex |-> IF m \in Held(x) THEN NoThread ELSE owner[m]]
    /\ depth' = [m \in Mutex |-> IF m \in Held(x) THEN 0 ELSE depth[m]]
    /\ count' = [o \in Obj |-> IF o \in Held(x) THEN MaxCount(o) ELSE count[o]]
    /\ holds' = [holds EXCEPT ![x] = {}]

Exit(t) ==
    /\ Calls(t, "exit") # {} /\ Executes(t) /\ pc[t] = "app"
    /\ k' = [RemoveReady(KillWaiters(k, Held(t)), t) EXCEPT !.state[t] = "TERMINATED"]
    /\ KillHeldObjects(t)
    /\ defunct' = defunct \cup {t}
    /\ Goto(t, "exit")
    /\ UNCHANGED <<app, call, refs, dead, orphan>>

(* mini_os_thread_defunct_execute, from the idle thread. *)
Reap ==
    /\ Executes(Idle) /\ defunct # {}
    /\ k' = [k EXCEPT !.state = [t \in Thread |-> IF t \in defunct THEN "FREED" ELSE @[t]]]
    /\ defunct' = {}
    /\ UNCHANGED <<app, pc, call, waitMutex, objs, holds, orphan>>

DeleteCheck(t) ==
    \E c \in Calls(t, "delete") :
        /\ Executes(t) /\ pc[t] = "app" /\ c.obj # t /\ k.state[c.obj] \notin {"TERMINATED", "FREED"}
        /\ call' = [call EXCEPT ![t] = Started(c)]
        /\ Goto(t, "delete")
        /\ UNCHANGED <<app, k, waitMutex, objs, defunct, holds, orphan>>

(* The references a thread has recorded while it is parked in a call: the  *)
(* mutex's from before its semaphore_take, the others' from the park on.   *)
RecordedRef(x) ==
    pc[x] \in {"yieldPark", "parked"} \/ (pc[x] = "take" /\ call[x].op = "lock")

(* What x was given and has not used: a unit on its way into the hands of  *)
(* a woken taker, the wake-up of a queue user, the unit of an unlock.      *)
Carries(x) ==
    \/ pc[x] \in {"yieldPark", "parked"} /\ k.status[x]
    \/ pc[x] = "give"

(* mini_os_thread_delete from its section on. *)
Delete(t) ==
    LET x   == call[t].obj
        off == IF Runnable(k, x) THEN RemoveReady(k, x)
               ELSE IF k.state[x] = "BLOCKED"
               THEN Recompute(WheelRemove(LeaveWaitList(k, {x}), {x}), owner,
                              Forget(waitMutex, {x}), BoostedBy(x))
               ELSE k
        woken == \E m \in Held(x) : ~Empty(off.wait, m)
    IN /\ Executes(t) /\ pc[t] = "delete"
       /\ k' = KillWaiters([off EXCEPT !.state[x] = "FREED"], Held(x))
       /\ KillHeldObjects(x)
       /\ refs' = IF RecordedRef(x) THEN [refs EXCEPT ![call[x].obj] = @ - 1] ELSE refs
       /\ orphan' = IF Carries(x) THEN orphan \cup {call[x].obj} ELSE orphan
       /\ call' = [call EXCEPT ![t] = NoCall, ![x] = NoCall]
       /\ pc' = [pc EXCEPT ![t] = IF woken THEN "yield" ELSE "app", ![x] = "gone"]
       /\ UNCHANGED <<app, dead, defunct>>

(***************************************************************************)
(* Deleting objects                                                        *)
(***************************************************************************)
(* mini_os_obj_request_destroy drops the creator's reference. *)
RequestDestroy(o) ==
    /\ dead' = [dead EXCEPT ![o] = TRUE]
    /\ refs' = [refs EXCEPT ![o] = @ - 1]

Deletes(t, o) ==
    /\ Executes(t) /\ pc[t] = "app"
    /\ \E c \in Calls(t, "destroy") : c.obj = o
    /\ ~dead[o]
    /\ refs[o] > 1 => o \in Armed

(* mini_os_semaphore_delete_common *)
DeleteSem(t) ==
    \E s \in Sem :
        /\ Deletes(t, s)
        /\ ~Empty(k.wait, s) => s \in Armed
        /\ k' = KillWaiters(k, {s})
        /\ RequestDestroy(s)
        /\ Goto(t, IF ~Empty(k.wait, s) THEN "yield" ELSE "app")
        /\ UNCHANGED <<app, call, waitMutex, count, owner, depth, defunct, holds, orphan>>

(* mini_os_mutex_delete_common; a unit on its way to a woken taker refuses. *)
DeleteMutex(t) ==
    \E m \in Mutex :
        /\ Deletes(t, m)
        /\ ~(count[m] = 0 /\ owner[m] = NoThread /\ Empty(k.wait, m))
        /\ Waiters(k, m) # {} \/ owner[m] # NoThread => m \in Armed
        /\ waitMutex' = Forget(waitMutex, Waiters(k, m))
        /\ owner' = [owner EXCEPT ![m] = NoThread]
        /\ depth' = [depth EXCEPT ![m] = 0]
        /\ k' = Recompute(KillWaiters(k, {m}), owner', waitMutex', owner[m])
        /\ RequestDestroy(m)
        /\ Goto(t, IF ~Empty(k.wait, m) THEN "yield" ELSE "app")
        /\ UNCHANGED <<app, call, count, defunct, holds, orphan>>

(* mini_os_queue_delete_common: both wait lists, only with users in flight. *)
DeleteQueue(t) ==
    \E q \in Queue :
        LET lists  == {SendList(q), RecvList(q)}
            killed == refs[q] > 1 /\ \E w \in lists : ~Empty(k.wait, w)
        IN /\ Deletes(t, q)
           /\ k' = IF killed THEN KillWaiters(k, lists) ELSE k
           /\ RequestDestroy(q)
           /\ Goto(t, IF killed THEN "yield" ELSE "app")
           /\ UNCHANGED <<app, call, waitMutex, count, owner, depth, defunct, holds, orphan>>

(***************************************************************************)
(* Interrupts                                                              *)
(***************************************************************************)
Interruptible == k.current # Wild

DeadlineRestarts ==
    /\ Interruptible
    /\ k' = SysTick(k)
    /\ UNCHANGED <<app, pc, call, waitMutex, objs, defunct, holds, orphan>>

Tick ==
    /\ Interruptible
    /\ k' = SysTick(k)
    /\ call' = [t \in Thread |-> [call[t] EXCEPT !.due = IF @ > 0 THEN @ - 1 ELSE 0]]
    /\ UNCHANGED <<app, pc, waitMutex, objs, defunct, holds, orphan>>

PendSV ==
    /\ Interruptible /\ k.pend
    /\ k' = Switch(k)
    /\ UNCHANGED <<app, pc, call, waitMutex, objs, defunct, holds, orphan>>

CountedQuietly ==
    \E c \in Program[app].isr :
        /\ Interruptible /\ c.op = "give" /\ ~dead[c.obj]
        /\ GiveAndCount(c.obj)
        /\ UNCHANGED <<app, k, pc, call, waitMutex, owner, depth, refs, dead, defunct, holds, orphan>>

(* An interrupt handler that gives and ends with mini_os_schedule_yield_isr. *)
GiveIsr ==
    \E c \in Program[app].isr :
        /\ Interruptible /\ c.op = "give" /\ ~dead[c.obj]
        /\ GiveUnit(c.obj)
        /\ k' = YieldIsr(WakeOne(k, c.obj))
        /\ UNCHANGED <<app, pc, call, waitMutex, owner, depth, refs, dead, defunct, holds, orphan>>

(* mini_os_queue_send_isr and _receive_isr: the timeout 0 path.  They take *)
(* no reference either; interrupts leave destroyed queues alone.           *)
QueueIsr(op, step, other(_)) ==
    \E c \in Program[app].isr : LET q == c.obj IN
        /\ Interruptible /\ c.op = op /\ ~dead[q]
        /\ count[q] + step \in 0 .. Capacity[q]
        /\ count' = [count EXCEPT ![q] = @ + step]
        /\ k' = YieldIsr(WakeOne(k, other(q)))
        /\ UNCHANGED <<app, pc, call, waitMutex, owner, depth, refs, dead, defunct, holds, orphan>>

SendIsr == QueueIsr("send", 1, RecvList)
ReceiveIsr == QueueIsr("recv", -1, SendList)

ThreadStep(t) ==
    \/ Acquire(t) \/ Lock(t) \/ LockTake(t) \/ LockParked(t) \/ Unlock(t) \/ Give(t)
    \/ Take(t) \/ TakeParked(t) \/ Send(t) \/ Receive(t)
    \/ YieldStep(t) \/ Delay(t) \/ Suspend(t) \/ ResumeCheck(t) \/ Resume(t)
    \/ SetBase(t) \/ SetPriority(t) \/ Exit(t) \/ DeleteCheck(t) \/ Delete(t)
    \/ DeleteSem(t) \/ DeleteMutex(t) \/ DeleteQueue(t)

Next ==
    \/ \E t \in Thread \ {Idle} : ThreadStep(t)
    \/ Reap \/ Tick \/ PendSV \/ GiveIsr \/ SendIsr \/ ReceiveIsr

(* Weak fairness of the tick, of a pending PendSV and of the current       *)
(* thread inside a kernel call, written by what only those steps do: move  *)
(* the wheel, withdraw the request, move a program counter.                *)
Fairness ==
    /\ []<>(~Interruptible) \/ []<><<k'.slot # k.slot>>_vars
    /\ []<>(~Interruptible \/ ~k.pend)
    /\ []<>(\A t \in Thread \ {Idle} : ~(Executes(t) /\ pc[t] # "app")) \/ []<><<pc' # pc>>_vars

Spec == Init /\ [][Next]_vars /\ Fairness

(***************************************************************************)
(* Properties                                                              *)
(***************************************************************************)
(* Type invariant of the kernel lists, the thread descriptors and the      *)
(* objects.                                                                *)
TypeOK ==
    /\ app \in DOMAIN Program
    /\ k.bitmap \subseteq Prio
    /\ k.state \in [Thread -> {"READY", "RUNNING", "BLOCKED", "SUSPENDED", "TERMINATED", "FREED"}]
    /\ k.prio \in [Thread -> Prio] /\ k.base \in [Thread -> Prio]
    /\ k.status \in [Thread -> BOOLEAN] /\ k.pend \in BOOLEAN
    /\ k.current \in Thread \cup {NoThread, Wild} /\ k.served \in 0 .. NPrio
    /\ k.slot \in 0 .. Wheel - 1
    /\ k.ready.on \in [Thread -> Prio \cup {Off}]
    /\ k.wheel.on \in [Thread -> (0 .. Wheel - 1) \cup {Off}]
    /\ k.wait.on \in [Thread -> WaitList \cup {Off}]
    /\ \A f \in {"ready", "wheel", "wait"} : k[f].ahead \in [Thread -> SUBSET Thread]
    /\ waitMutex \in [Thread -> Mutex \cup {NoObj}]
    /\ owner \in [Mutex -> Thread \cup {NoThread}]
    /\ count \in [Obj -> Nat] /\ refs \in [Obj -> Nat] /\ dead \in [Obj -> BOOLEAN]

(* The members of every list of a family are in one line. *)
InLine(l) ==
    \A t, u \in Thread :
        u \in l.ahead[t] <=> /\ u # t /\ l.on[u] = l.on[t] /\ l.on[t] # Off
                             /\ t \notin l.ahead[u]

(* A thread is linked exactly where its state says: a runnable one in the  *)
(* list of the priority it has now, a blocked one in the wheel, on a wait  *)
(* list or both, any other nowhere; every list is a line, and the bitmap   *)
(* has the bits of the levels that are not empty.  Broken by a wake that   *)
(* undoes one link of two, or by a priority changed without the re-link.   *)
LinkedOnce ==
    /\ TypeOK
    /\ \A t \in Thread :
         /\ k.ready.on[t] = IF Runnable(k, t) THEN k.prio[t] ELSE Off
         /\ (InWheel(k, t) \/ Waiting(k, t)) <=> (k.state[t] = "BLOCKED")
    /\ k.bitmap = {p \in Prio : ~Empty(k.ready, p)}
    /\ InLine(k.ready) /\ InLine(k.wheel) /\ InLine(k.wait)

(* Threads woken from a call on o with a success and not running yet. *)
InFlight(o, op) ==
    {t \in Thread : /\ pc[t] \in {"yieldPark", "parked"} /\ k.status[t]
                    /\ call[t].obj = o /\ call[t].op = op}

Unlocking(m) == {t \in Thread : pc[t] = "give" /\ call[t].obj = m}

Carriers(m) == {t \in Thread : owner[m] = t} \cup InFlight(m, "lock") \cup Unlocking(m)

(* The one unit of a live mutex is at exactly one place: in the count,     *)
(* with the owner, in the hands of a woken waiter that has not run yet, or *)
(* with an unlock that has not given it yet.                               *)
UnitConserved ==
    \A m \in Mutex : ~dead[m] /\ m \notin orphan =>
        IF count[m] = 0 THEN \E t \in Thread : Carriers(m) = {t}
        ELSE count[m] = 1 /\ Carriers(m) = {}

(* What the lock calls told the threads agrees with the owner field: no    *)
(* two threads are past a successful lock of the same mutex.               *)
Exclusion ==
    \A m \in Mutex : ~dead[m] => \A t \in Thread : m \in holds[t] <=> owner[m] = t

(* Nobody sleeps next to what it waits for: a semaphore or mutex with a    *)
(* unit has no waiter, and a queue has a waiting receiver only while every *)
(* message is already promised to a receiver on its way, likewise for      *)
(* senders and free slots.  A destroyed queue keeps no waiter: the destroy *)
(* request is looked at in the section that parks.                         *)
NoneStranded ==
    /\ \A o \in Mutex \cup Sem : count[o] > 0 => Waiters(k, o) = {}
    /\ \A q \in Queue \ orphan :
         /\ Waiters(k, RecvList(q)) # {} =>
                count[q] <= Cardinality(InFlight(q, "recv"))
         /\ Waiters(k, SendList(q)) # {} =>
                Capacity[q] - count[q] <= Cardinality(InFlight(q, "send"))
    /\ \A q \in Queue : dead[q] => Waiters(k, SendList(q)) \cup Waiters(k, RecvList(q)) = {}

(* A thread that holds no mutex runs at its base priority, apart from the  *)
(* moment in which set_priority has stored the base only.                  *)
BoostDropped ==
    \A t \in Thread :
        (\A m \in Mutex : owner[m] # t) /\ k.state[t] \notin {"TERMINATED", "FREED"}
          /\ ~(\E u \in Thread : pc[u] = "recompute" /\ call[u].obj = t)
        => k.prio[t] = k.base[t]

(* Slot and rounds of a wheel entry always say how many ticks are left,    *)
(* through delays longer than the wheel, suspension and resumption.        *)
WheelExact == \A t \in Thread : InWheel(k, t) => WheelRemain(k, t) = k.left[t]

Users(o) == {t \in Thread : call[t].obj = o /\ call[t].op \in {"lock", "take", "send", "recv"}}

(* The reference count covers the creator and every lock, take, send and   *)
(* receive in progress, so that no object is reclaimed under one of these, *)
(* whoever is deleted meanwhile.  It does not cover every call in flight,  *)
(* as obj.h and mini_os_mutex_delete_common have it: unlock, give and the  *)
(* calls of interrupts take no reference.                                  *)
RefsCover ==
    \A o \in Obj : refs[o] >= Cardinality(Users(o)) + (IF dead[o] THEN 0 ELSE 1)

(* The most urgent thread's take, send or receive with a timeout comes to  *)
(* an end however often it is woken, finds nothing and parks again: a      *)
(* queue's rounds share one deadline and the tick that expires it preempts *)
(* whoever runs.  (Unless the thread is suspended meanwhile, or PendSV     *)
(* has selected the sentinel of a list instead of a thread.)               *)
InUrgentCall ==
    \E t \in Thread :
        /\ \A u \in Thread \ {t} : k.prio[t] < k.prio[u]
        /\ call[t].op \in {"take", "send", "recv"} /\ call[t].arg # Forever
        /\ k.state[t] # "SUSPENDED"

UrgentCallEnds == InUrgentCall ~> (~InUrgentCall \/ k.current = Wild)
=============================================================================
