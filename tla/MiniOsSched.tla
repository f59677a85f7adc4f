----------------------------- MODULE MiniOsSched -----------------------------
(***************************************************************************)
(* The scheduler of mini-os (lib/mini-os/src/schedule.c and the parts of   *)
(* thread.c that move a thread between lists).  The kernel's state is one  *)
(* record k; every kernel function is an operator from a record to the     *)
(* record it leaves, so that a handler is the composition of the functions *)
(* it calls.  Build: the defaults of mini_config.h (no EDF, no DEADLINE,   *)
(* no time slice).  A smaller number is a more urgent priority.            *)
(*                                                                         *)
(*   ready     g_ready_running_list, one list per priority level           *)
(*   wheel     s_wheel, one list per slot                                  *)
(*   wait      the wait lists of the sync objects; wait.on is wait_list    *)
(*   bitmap    g_priority, the levels whose bit is set                     *)
(*   state, prio, base, status, resume, round   thread descriptor fields   *)
(*   current, served, pend   mini_os_current_thread, s_current_priority    *)
(*             and the PendSV request                                      *)
(*   slot      s_current_slot                                              *)
(*   left      history: ticks until the thread's wheel entry is due        *)
(*                                                                         *)
(* The lists are intrusive: a thread has one node per family of lists.  A  *)
(* family says which of its lists a thread is linked in (on) and which     *)
(* threads precede it there (ahead).                                       *)
(***************************************************************************)
EXTENDS Integers, FiniteSets, FiniteSetsExt

CONSTANTS Thread,     \* thread descriptors, the idle thread included
          Idle,       \* the idle thread, always at the lowest priority
          NPrio,      \* MINI_OS_PRIORITY
          Wheel,      \* MINI_OS_TICK_WHEEL, a power of two
          WaitList,   \* the wait lists of the sync objects
          Off,        \* linked nowhere
          NoThread,   \* MINI_OS_NULL as mini_os_current_thread
          Wild,       \* a list sentinel read as if it were a thread
          Forever     \* MINI_OS_WAIT_FOREVER

Prio == 0 .. NPrio - 1

ASSUME SchedAssumption ==
    /\ Idle \in Thread /\ NoThread \notin Thread /\ Wild \notin Thread
    /\ NPrio \in Nat \ {0} /\ Wheel \in Nat \ {0}
    /\ Forever \notin Nat
    /\ Off \notin WaitList /\ Off \notin Nat

(* The intrusive list operations. *)
Members(l, x) == {t \in Thread : l.on[t] = x}
First(l, x) == {t \in Members(l, x) : l.ahead[t] = {}}
Empty(l, x) == First(l, x) = {}
After(l, t) == {u \in Members(l, l.on[t]) : l.ahead[u] = l.ahead[t] \cup {t}}

Unlink(l, T) ==
    [on |-> [t \in Thread |-> IF t \in T THEN Off ELSE l.on[t]],
     ahead |-> [t \in Thread |-> IF t \in T THEN {} ELSE l.ahead[t] \ T]]

(* Every thread t of T is linked at the tail of list at[t]; before orders  *)
(* the ones that go to the same list.                                      *)
Enlist(l, T, at, before) ==
    [on |-> [t \in Thread |-> IF t \in T THEN at[t] ELSE l.on[t]],
     ahead |-> [t \in Thread |->
                  IF t \in T
                  THEN Members(l, at[t]) \cup {u \in T \cap before[t] : at[u] = at[t]}
                  ELSE l.ahead[t]]]

Alone == [t \in Thread |-> {}]
Everywhere(x) == [t \in Thread |-> x]

Runnable(k, t) == k.state[t] \in {"READY", "RUNNING"}
InWheel(k, t) == k.wheel.on[t] # Off
Waiting(k, t) == k.wait.on[t] # Off
Waiters(k, w) == Members(k.wait, w)

(* mini_os_add_thread_to_ready_running_list for every thread of T, in the  *)
(* order before: one already READY or RUNNING is refused.                  *)
AddReady(k, T, before) ==
    LET new == {t \in T : ~Runnable(k, t)}
    IN [k EXCEPT !.state = [t \in Thread |-> IF t \in new THEN "READY" ELSE @[t]],
                 !.ready = Enlist(@, new, k.prio, before),
                 !.bitmap = @ \cup {k.prio[t] : t \in new}]

(* The state is left alone: the caller decides what the thread becomes. *)
RemoveReady(k, t) ==
    IF ~Runnable(k, t) THEN k
    ELSE LET rest == Unlink(k.ready, {t})
         IN [k EXCEPT !.ready = rest,
                      !.bitmap = IF Members(rest, k.prio[t]) = {} THEN @ \ {k.prio[t]} ELSE @]

(* mini_os_thread_priority_apply: a runnable thread whose priority changes *)
(* is re-linked at the tail of its new level, any other only changes the   *)
(* field; a priority out of range is refused.                              *)
PriorityApply(k, prio) ==
    LET new   == [t \in Thread |-> IF prio[t] \in Prio THEN prio[t] ELSE k.prio[t]]
        moved == {t \in Thread : new[t] # k.prio[t] /\ Runnable(k, t)}
        rest  == Unlink(k.ready, moved)
        left  == {p \in {k.prio[t] : t \in moved} : Members(rest, p) = {}}
    IN [k EXCEPT !.prio = new,
                 !.ready = Enlist(rest, moved, new, Alone),
                 !.bitmap = (@ \ left) \cup {new[t] : t \in moved}]

RoundOffByOne(k, t, ticks) ==
    [k EXCEPT !.state[t] = "BLOCKED",
              !.round[t] = ticks \div Wheel,
              !.wheel = Enlist(@, {t}, Everywhere((k.slot + ticks) % Wheel), Alone),
              !.left[t] = ticks]

WheelInsert(k, t, ticks) ==
    [k EXCEPT !.state[t] = "BLOCKED",
              !.round[t] = (ticks - 1) \div Wheel,
              !.wheel = Enlist(@, {t}, Everywhere((k.slot + ticks) % Wheel), Alone),
              !.left[t] = ticks]

WheelRemove(k, T) ==
    [k EXCEPT !.wheel = Unlink(@, T),
              !.round = [t \in Thread |-> IF t \in T THEN 0 ELSE @[t]],
              !.left = [t \in Thread |-> IF t \in T THEN 0 ELSE @[t]]]

(* The remaining ticks of a wheel entry, from its slot and its rounds; a   *)
(* zero distance is a whole wheel.                                         *)
WheelRemain(k, t) ==
    IF ~InWheel(k, t) THEN 0
    ELSE LET d == (k.wheel.on[t] - k.slot) % Wheel
         IN (IF d = 0 THEN Wheel ELSE d) + k.round[t] * Wheel

(* mini_os_schedule_delay without the yield that follows it. *)
DelayPark(k, t, ticks) == WheelInsert(RemoveReady(k, t), t, ticks)

(* The park of mini_os_sync_wait_park, up to its irq_restore. *)
WaitPark(k, t, w, ticks) ==
    LET off == [RemoveReady(k, t) EXCEPT !.state[t] = "BLOCKED",
                                         !.status[t] = FALSE,
                                         !.wait = Enlist(@, {t}, Everywhere(w), Alone)]
    IN IF ticks = Forever THEN off ELSE WheelInsert(off, t, ticks)

LeaveWaitList(k, T) == [k EXCEPT !.wait = Unlink(@, T)]

TimerLeftLinked(k, T, ok, before) ==
    AddReady([LeaveWaitList(k, T) EXCEPT
                !.status = [t \in Thread |-> IF t \in T THEN ok[t] ELSE @[t]]],
             T, before)

(* mini_os_sync_wake_thread for every thread of T in the order before:     *)
(* both links of a waiter are undone and ok[t] is its wait_status.         *)
Wake(k, T, ok, before) ==
    AddReady([WheelRemove(LeaveWaitList(k, T), T) EXCEPT
                !.status = [t \in Thread |-> IF t \in T THEN ok[t] ELSE @[t]]],
             T, before)

(* The oldest waiter of a list, if there is one, with a success. *)
WakeOne(k, w) ==
    IF Empty(k.wait, w) THEN k
    ELSE Wake(k, {CHOOSE t \in First(k.wait, w) : TRUE}, Everywhere(TRUE), Alone)

Highest(k) == Min(k.bitmap)

Yield(k) == [k EXCEPT !.pend = TRUE]

(* Only a thread more urgent than the interrupted one is worth a PendSV. *)
YieldIsr(k) ==
    IF k.current \in Thread /\ k.bitmap # {} /\ Highest(k) < k.prio[k.current]
    THEN Yield(k) ELSE k

(* mini_os_tick_decrement, then the tail of mini_os_systick_handler: the   *)
(* entries of the slot that comes up lose a round or are made ready, in    *)
(* list order; one that also waits on an object has timed out.             *)
SysTick(k) ==
    LET s    == (k.slot + 1) % Wheel
        up   == Members(k.wheel, s)
        due  == {t \in up : k.round[t] = 0}
        aged == [k EXCEPT
                  !.slot = s,
                  !.round = [t \in Thread |-> IF t \in up \ due THEN @[t] - 1 ELSE @[t]],
                  !.left = [t \in Thread |-> IF InWheel(k, t) THEN @[t] - 1 ELSE @[t]],
                  !.status = [t \in Thread |-> IF t \in due /\ Waiting(k, t) THEN FALSE ELSE @[t]]]
    IN YieldIsr(AddReady(WheelRemove(LeaveWaitList(aged, due), due), due, k.wheel.ahead))

(* The first thread of a level: of an empty one, the sentinel itself. *)
LevelHead(k, p) ==
    IF Empty(k.ready, p) THEN Wild ELSE CHOOSE t \in First(k.ready, p) : TRUE

(* The list node after the current thread's.  At the tail that is the      *)
(* sentinel of the level the thread is LINKED in; the code steps over it   *)
(* only when it is the sentinel of the level being served.                 *)
Successor(k, np) ==
    IF After(k.ready, k.current) # {} THEN CHOOSE t \in After(k.ready, k.current) : TRUE
    ELSE IF k.ready.on[k.current] = np THEN LevelHead(k, np) ELSE Wild

(* mini_os_schedule_switch, run by the PendSV handler. *)
Switch(k) ==
    LET out  == IF k.current \in Thread /\ k.state[k.current] = "RUNNING"
                THEN [k EXCEPT !.state[k.current] = "READY", !.pend = FALSE]
                ELSE [k EXCEPT !.pend = FALSE]
        np   == Highest(k)
        next == IF k.current \in Thread /\ np = k.served /\ out.state[k.current] = "READY"
                THEN Successor(k, np)
                ELSE LevelHead(k, np)
    IN IF k.bitmap = {} THEN out
       ELSE [out EXCEPT !.served = np, !.current = next,
                        !.state = [t \in Thread |-> IF t = next THEN "RUNNING" ELSE @[t]]]

(* mini_os_thread_suspend on the lists; the caller recomputes the owner of *)
(* the mutex the thread waited on.                                         *)
SuspendLists(k, t) ==
    LET off == IF Runnable(k, t) THEN RemoveReady(k, t)
               ELSE [WheelRemove(LeaveWaitList(k, {t}), {t}) EXCEPT
                       !.resume[t] = WheelRemain(k, t),
                       !.status[t] = IF Waiting(k, t) THEN FALSE ELSE @]
    IN [off EXCEPT !.state[t] = "SUSPENDED"]

(* The section of mini_os_thread_resume: the frozen delay continues. *)
ResumeLists(k, t) ==
    IF k.resume[t] > 0
    THEN [WheelInsert(k, t, k.resume[t]) EXCEPT !.resume[t] = 0]
    ELSE AddReady(k, {t}, Alone)
=============================================================================
