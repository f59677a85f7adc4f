------------------------- MODULE MiniOsSched_proofs -------------------------
(***************************************************************************)
(* What every function of the mini-os scheduler preserves, for every       *)
(* number of threads, priorities, wheel slots and wait lists: who may run  *)
(* is linked in the level of its priority, who waits or sleeps is blocked. *)
(***************************************************************************)
EXTENDS MiniOsSched, TLAPS

Fields ==
    {"ready", "wheel", "wait", "bitmap", "state", "prio", "base", "status", "resume", "current",
     "served", "pend", "slot", "round", "left"}

States == {"READY", "RUNNING", "BLOCKED", "SUSPENDED", "TERMINATED", "FREED"}

Shape(kk) == kk = [f \in Fields |-> kk[f]]

(* The part of the kernel state that says who may run: a thread is linked  *)
(* in the level of its priority exactly while it is runnable, its level's  *)
(* bit is set, and who is on a wait list or in the wheel is blocked.       *)
KernelInv(kk) ==
    /\ Shape(kk)
    /\ kk.state \in [Thread -> States]
    /\ kk.status \in [Thread -> BOOLEAN]
    /\ kk.prio \in [Thread -> Prio] /\ kk.bitmap \subseteq Prio
    /\ kk.pend \in BOOLEAN /\ kk.slot \in Nat
    /\ \A t \in Thread :
         /\ kk.ready.on[t] = IF Runnable(kk, t) THEN kk.prio[t] ELSE Off
         /\ Runnable(kk, t) => kk.prio[t] \in kk.bitmap
         /\ Waiting(kk, t) \/ InWheel(kk, t) => kk.state[t] = "BLOCKED"
    /\ Runnable(kk, Idle)

(* What a wake-up, a priority change or a tick leaves alone. *)
Kept(kk, kn) ==
    /\ kn.current = kk.current
    /\ kk.pend => kn.pend
    /\ \A t \in Thread : kk.state[t] # "BLOCKED" => kn.state[t] = kk.state[t]

(* mini_os_thread_priority_apply re-links runnable threads and touches no  *)
(* wait list.                                                              *)
LEMMA PriorityApplyKeeps ==
    ASSUME NEW kk, KernelInv(kk), NEW prio
    PROVE  LET kn == PriorityApply(kk, prio)
           IN KernelInv(kn) /\ Kept(kk, kn) /\ kn.wait = kk.wait /\ kn.status = kk.status
  <1> DEFINE new   == [t \in Thread |-> IF prio[t] \in Prio THEN prio[t] ELSE kk.prio[t]]
             moved == {t \in Thread : new[t] # kk.prio[t] /\ Runnable(kk, t)}
             rest  == Unlink(kk.ready, moved)
             left  == {p \in {kk.prio[t] : t \in moved} : Members(rest, p) = {}}
             kn    == [kk EXCEPT !.prio = new,
                                 !.ready = Enlist(rest, moved, new, Alone),
                                 !.bitmap = (@ \ left) \cup {new[t] : t \in moved}]
  <1>1. kn = PriorityApply(kk, prio)
    BY DEF PriorityApply
  <1> HIDE DEF new, moved, rest, left
  <1>2. /\ kn.prio = new /\ kn.ready = Enlist(rest, moved, new, Alone)
        /\ kn.bitmap = (kk.bitmap \ left) \cup {new[t] : t \in moved}
        /\ kn.state = kk.state /\ kn.status = kk.status /\ kn.wait = kk.wait
        /\ kn.wheel = kk.wheel /\ kn.current = kk.current /\ kn.pend = kk.pend
        /\ kn.slot = kk.slot /\ Shape(kn)
    BY Zenon DEF KernelInv, Shape, Fields
  <1>3. new \in [Thread -> Prio]
    BY DEF KernelInv, new
  <1> HIDE DEF kn
  <1>4. ASSUME NEW t \in Thread
        PROVE  /\ kn.ready.on[t] = IF Runnable(kn, t) THEN kn.prio[t] ELSE Off
               /\ Runnable(kn, t) => kn.prio[t] \in kn.bitmap
    <2>1. CASE t \in moved
      BY <1>2, <2>1 DEF Enlist, Runnable, moved
    <2>2. CASE t \notin moved
      <3>1. kn.ready.on[t] = kk.ready.on[t]
        BY <1>2, <2>2 DEF Enlist, Unlink, rest
      <3>2. Runnable(kk, t) => new[t] = kk.prio[t]
        BY <2>2 DEF moved
      <3>3. Runnable(kk, t) => t \in Members(rest, kk.prio[t])
        BY <2>2 DEF Members, Unlink, KernelInv, rest
      <3>4. Runnable(kk, t) => kk.prio[t] \notin left
        BY <3>3 DEF left
      <3> QED BY <1>2, <3>1, <3>2, <3>4 DEF KernelInv, Runnable
    <2> QED BY <2>1, <2>2
  <1>5. kn.bitmap \subseteq Prio
    BY <1>2, <1>3 DEF KernelInv, moved
  <1> QED
    BY <1>1, <1>2, <1>3, <1>4, <1>5 DEF KernelInv, Kept, Runnable, Waiting, InWheel

(* mini_os_add_thread_to_ready_running_list links threads that are linked  *)
(* nowhere else.                                                           *)
LEMMA AddReadyKeeps ==
    ASSUME NEW kk, KernelInv(kk), NEW T \in SUBSET Thread, NEW before,
           \A t \in T : ~Waiting(kk, t) /\ ~InWheel(kk, t)
    PROVE  LET kn == AddReady(kk, T, before)
           IN /\ KernelInv(kn)
              /\ kn.wait = kk.wait /\ kn.status = kk.status
              /\ kn.current = kk.current /\ kn.pend = kk.pend
              /\ \A t \in Thread :
                   kn.state[t] = IF t \in T /\ ~Runnable(kk, t) THEN "READY" ELSE kk.state[t]
  <1> DEFINE new == {t \in T : ~Runnable(kk, t)}
             kn  == [kk EXCEPT !.state = [t \in Thread |-> IF t \in new THEN "READY" ELSE @[t]],
                               !.ready = Enlist(@, new, kk.prio, before),
                               !.bitmap = @ \cup {kk.prio[t] : t \in new}]
  <1>1. kn = AddReady(kk, T, before)
    BY DEF AddReady
  <1>2. new \subseteq Thread /\ \A t \in Thread : t \in new <=> t \in T /\ ~Runnable(kk, t)
    OBVIOUS
  <1> HIDE DEF new
  <1>3. /\ kn.state = [t \in Thread |-> IF t \in new THEN "READY" ELSE kk.state[t]]
        /\ kn.ready = Enlist(kk.ready, new, kk.prio, before)
        /\ kn.bitmap = kk.bitmap \cup {kk.prio[t] : t \in new}
        /\ kn.prio = kk.prio /\ kn.status = kk.status /\ kn.wait = kk.wait
        /\ kn.wheel = kk.wheel /\ kn.current = kk.current /\ kn.pend = kk.pend
        /\ kn.slot = kk.slot /\ Shape(kn)
    BY Zenon DEF KernelInv, Shape, Fields
  <1> HIDE DEF kn
  <1>4. ASSUME NEW t \in Thread
        PROVE  /\ kn.ready.on[t] = IF Runnable(kn, t) THEN kn.prio[t] ELSE Off
               /\ Runnable(kn, t) => kn.prio[t] \in kn.bitmap
               /\ Waiting(kn, t) \/ InWheel(kn, t) => kn.state[t] = "BLOCKED"
    BY <1>2, <1>3 DEF Enlist, Runnable, KernelInv, Waiting, InWheel
  <1>5. Runnable(kn, Idle)
    BY <1>3, SchedAssumption DEF KernelInv, Runnable
  <1>6. kn.state \in [Thread -> States]
    BY <1>3 DEF KernelInv, States
  <1> QED
    BY <1>1, <1>2, <1>3, <1>4, <1>5, <1>6 DEF KernelInv

(* wait_status does not decide who may run. *)
LEMMA StatusKeeps ==
    ASSUME NEW kk, KernelInv(kk), NEW f \in [Thread -> BOOLEAN]
    PROVE  LET kn == [kk EXCEPT !.status = f]
           IN /\ KernelInv(kn) /\ kn.status = f
              /\ kn.wait = kk.wait /\ kn.wheel = kk.wheel /\ kn.state = kk.state
              /\ kn.current = kk.current /\ kn.pend = kk.pend /\ kn.prio = kk.prio
  <1> DEFINE kn == [kk EXCEPT !.status = f]
  <1>1. /\ Shape(kn) /\ kn.slot = kk.slot /\ kn.status = f /\ kn.ready = kk.ready /\ kn.bitmap = kk.bitmap
        /\ kn.wait = kk.wait /\ kn.wheel = kk.wheel /\ kn.state = kk.state
        /\ kn.current = kk.current /\ kn.pend = kk.pend /\ kn.prio = kk.prio
    BY DEF KernelInv, Shape, Fields
  <1> HIDE DEF kn
  <1>2. KernelInv(kn)
    BY <1>1 DEF KernelInv, Runnable, Waiting, InWheel
  <1> QED BY <1>1, <1>2 DEF kn

(* Unlinking threads from their wait list and from the wheel. *)
LEMMA LeaveKeeps ==
    ASSUME NEW kk, KernelInv(kk), NEW T
    PROVE  LET kn == WheelRemove(LeaveWaitList(kk, T), T)
           IN /\ KernelInv(kn)
              /\ \A t \in Thread :
                   /\ kn.wait.on[t] = IF t \in T THEN Off ELSE kk.wait.on[t]
                   /\ kn.wheel.on[t] = IF t \in T THEN Off ELSE kk.wheel.on[t]
              /\ kn.status = kk.status /\ kn.state = kk.state
              /\ kn.current = kk.current /\ kn.pend = kk.pend
  <1> DEFINE k1 == LeaveWaitList(kk, T)
             kn == WheelRemove(k1, T)
  <1>1. /\ Shape(k1) /\ k1.slot = kk.slot /\ k1.wait = Unlink(kk.wait, T) /\ k1.wheel = kk.wheel
        /\ k1.ready = kk.ready /\ k1.bitmap = kk.bitmap /\ k1.state = kk.state
        /\ k1.prio = kk.prio /\ k1.status = kk.status
        /\ k1.current = kk.current /\ k1.pend = kk.pend
    BY DEF KernelInv, Shape, Fields, LeaveWaitList
  <1> HIDE DEF k1
  <1>2. /\ Shape(kn) /\ kn.slot = k1.slot /\ kn.wait = k1.wait /\ kn.wheel = Unlink(k1.wheel, T)
        /\ kn.ready = k1.ready /\ kn.bitmap = k1.bitmap /\ kn.state = k1.state
        /\ kn.prio = k1.prio /\ kn.status = k1.status
        /\ kn.current = k1.current /\ kn.pend = k1.pend
    BY <1>1, Zenon DEF Shape, Fields, WheelRemove
  <1> HIDE DEF kn
  <1>3. \A t \in Thread :
          /\ kn.wait.on[t] = IF t \in T THEN Off ELSE kk.wait.on[t]
          /\ kn.wheel.on[t] = IF t \in T THEN Off ELSE kk.wheel.on[t]
    BY <1>1, <1>2 DEF Unlink
  <1>4. KernelInv(kn)
    BY <1>1, <1>2, <1>3 DEF KernelInv, Runnable, Waiting, InWheel
  <1> QED BY <1>1, <1>2, <1>3, <1>4 DEF kn, k1

(* mini_os_sync_wake_thread takes waiters off their lists, stores their    *)
(* wait_status and makes them ready; nobody else is disturbed.             *)
LEMMA WakeKeeps ==
    ASSUME NEW kk, KernelInv(kk), NEW T \in SUBSET Thread, NEW before, NEW ok,
           \A t \in T : Waiting(kk, t) /\ ok[t] \in BOOLEAN
    PROVE  LET kn == Wake(kk, T, ok, before)
           IN /\ KernelInv(kn) /\ Kept(kk, kn)
              /\ \A t \in Thread :
                   /\ kn.wait.on[t] = IF t \in T THEN Off ELSE kk.wait.on[t]
                   /\ kn.status[t] = IF t \in T THEN ok[t] ELSE kk.status[t]
  <1> DEFINE k1 == WheelRemove(LeaveWaitList(kk, T), T)
             f  == [t \in Thread |-> IF t \in T THEN ok[t] ELSE k1.status[t]]
             k2 == [k1 EXCEPT !.status = f]
             kn == AddReady(k2, T, before)
  <1>1. /\ KernelInv(k1)
        /\ \A t \in Thread :
             /\ k1.wait.on[t] = IF t \in T THEN Off ELSE kk.wait.on[t]
             /\ k1.wheel.on[t] = IF t \in T THEN Off ELSE kk.wheel.on[t]
        /\ k1.status = kk.status /\ k1.state = kk.state
        /\ k1.current = kk.current /\ k1.pend = kk.pend
    BY LeaveKeeps
  <1>2. Wake(kk, T, ok, before) = kn
    BY <1>1 DEF Wake, KernelInv, Shape, Fields
  <1> HIDE DEF k1
  <1>3. f \in [Thread -> BOOLEAN]
    BY <1>1 DEF KernelInv
  <1>4. /\ \A t \in Thread : f[t] = IF t \in T THEN ok[t] ELSE kk.status[t]
    BY <1>1
  <1> HIDE DEF f
  <1>5. /\ KernelInv(k2) /\ k2.status = f
        /\ k2.wait = k1.wait /\ k2.wheel = k1.wheel /\ k2.state = k1.state
        /\ k2.current = k1.current /\ k2.pend = k1.pend
    BY <1>1, <1>3, StatusKeeps
  <1> HIDE DEF k2
  <1>6. \A t \in T : ~Waiting(k2, t) /\ ~InWheel(k2, t)
    BY <1>1, <1>5 DEF Waiting, InWheel
  <1>7. /\ KernelInv(kn)
        /\ kn.wait = k2.wait /\ kn.status = k2.status
        /\ kn.current = k2.current /\ kn.pend = k2.pend
        /\ \A t \in Thread :
             kn.state[t] = IF t \in T /\ ~Runnable(k2, t) THEN "READY" ELSE k2.state[t]
    BY <1>5, <1>6, AddReadyKeeps
  <1> HIDE DEF kn
  <1>8. Kept(kk, kn)
    BY <1>1, <1>5, <1>7 DEF Kept, KernelInv, Waiting
  <1> QED BY <1>1, <1>2, <1>4, <1>5, <1>7, <1>8

(* The threads of G, at most one, leave the list w with a success. *)
Woken(kk, kn, w, G) ==
    /\ \A t \in Thread :
         /\ t \in G => kk.wait.on[t] = w
         /\ kn.wait.on[t] = IF t \in G THEN Off ELSE kk.wait.on[t]
         /\ kn.status[t] = IF t \in G THEN TRUE ELSE kk.status[t]
    /\ IF Empty(kk.wait, w) THEN G = {} ELSE \E h \in Thread : G = {h}

(* mini_os_semaphore_wake_one and the queue's: at most one thread, one     *)
(* that waits on the list.                                                 *)
LEMMA WakeOneKeeps ==
    ASSUME NEW kk, KernelInv(kk), NEW w, w # Off
    PROVE  /\ KernelInv(WakeOne(kk, w)) /\ Kept(kk, WakeOne(kk, w))
           /\ \E G \in SUBSET Thread : Woken(kk, WakeOne(kk, w), w, G)
  <1>1. CASE Empty(kk.wait, w)
    <2>1. WakeOne(kk, w) = kk
      BY <1>1 DEF WakeOne
    <2> QED
      BY <1>1, <2>1, Zenon DEF Kept, Woken
  <1>2. CASE ~Empty(kk.wait, w)
    <2> DEFINE h == CHOOSE t \in First(kk.wait, w) : TRUE
    <2>1. h \in Thread /\ kk.wait.on[h] = w
      BY <1>2 DEF Empty, First, Members
    <2>2. WakeOne(kk, w) = Wake(kk, {h}, Everywhere(TRUE), Alone)
      BY <1>2 DEF WakeOne
    <2> HIDE DEF h
    <2> DEFINE G  == {h}
               ok == Everywhere(TRUE)
               kn == Wake(kk, G, ok, Alone)
    <2>3. G \in SUBSET Thread /\ \A t \in Thread : ok[t] = TRUE /\ ok[t] \in BOOLEAN
      BY <2>1 DEF Everywhere
    <2>4. /\ \A t \in Thread : t \in G => kk.wait.on[t] = w
          /\ \E x \in Thread : G = {x}
      BY <2>1
    <2> HIDE DEF G, ok
    <2>5. \A t \in G : Waiting(kk, t) /\ ok[t] \in BOOLEAN
      BY <2>3, <2>4 DEF Waiting
    <2>6. /\ KernelInv(kn) /\ Kept(kk, kn)
          /\ \A t \in Thread :
               /\ kn.wait.on[t] = IF t \in G THEN Off ELSE kk.wait.on[t]
               /\ kn.status[t] = IF t \in G THEN ok[t] ELSE kk.status[t]
      BY <2>3, <2>5, WakeKeeps
    <2>7. WakeOne(kk, w) = kn
      BY <2>2 DEF G, ok
    <2> HIDE DEF kn
    <2>8. \A t \in Thread :
            /\ t \in G => kk.wait.on[t] = w
            /\ kn.wait.on[t] = IF t \in G THEN Off ELSE kk.wait.on[t]
            /\ kn.status[t] = IF t \in G THEN TRUE ELSE kk.status[t]
      BY <2>3, <2>4, <2>6, Zenon
    <2>9. Woken(kk, kn, w, G)
      BY <1>2, <2>4, <2>8, Zenon DEF Woken
    <2> QED
      BY <2>3, <2>6, <2>7, <2>9
  <1> QED BY <1>1, <1>2

(* Requesting a PendSV changes nothing else. *)
LEMMA YieldKeeps ==
    ASSUME NEW kk, KernelInv(kk)
    PROVE  \A kn \in {Yield(kk), YieldIsr(kk)} :
              /\ KernelInv(kn) /\ Kept(kk, kn)
              /\ kn.wait = kk.wait /\ kn.status = kk.status /\ kn.state = kk.state
  <1> DEFINE kn == Yield(kk)
  <1>1. /\ Shape(kn) /\ kn.slot = kk.slot /\ kn.pend = TRUE /\ kn.pend \in BOOLEAN /\ kn.ready = kk.ready /\ kn.bitmap = kk.bitmap
        /\ kn.wait = kk.wait /\ kn.wheel = kk.wheel /\ kn.state = kk.state
        /\ kn.current = kk.current /\ kn.prio = kk.prio /\ kn.status = kk.status
    BY Zenon DEF KernelInv, Shape, Fields, Yield
  <1> HIDE DEF kn
  <1>2. KernelInv(kn)
    BY <1>1 DEF KernelInv, Runnable, Waiting, InWheel
  <1>3. Kept(kk, kn) /\ Kept(kk, kk)
    BY <1>1 DEF Kept
  <1>4. YieldIsr(kk) \in {kn, kk}
    BY DEF YieldIsr, kn
  <1> QED BY <1>1, <1>2, <1>3, <1>4 DEF kn

(* mini_os_systick_handler: the due entries leave the wheel and, with a    *)
(* failure, the list they wait on.                                         *)
LEMMA SysTickKeeps ==
    ASSUME NEW kk, KernelInv(kk)
    PROVE  LET kn == SysTick(kk)
           IN /\ KernelInv(kn) /\ Kept(kk, kn)
              /\ \E D \in SUBSET Thread : \A t \in Thread :
                   /\ kn.wait.on[t] = IF t \in D THEN Off ELSE kk.wait.on[t]
                   /\ kn.status[t] = IF t \in D /\ Waiting(kk, t) THEN FALSE ELSE kk.status[t]
  <1> DEFINE s    == (kk.slot + 1) % Wheel
             up   == Members(kk.wheel, s)
             due  == {t \in up : kk.round[t] = 0}
             f    == [t \in Thread |-> IF t \in due /\ Waiting(kk, t) THEN FALSE ELSE kk.status[t]]
             aged == [kk EXCEPT
                       !.slot = s,
                       !.round = [t \in Thread |-> IF t \in up \ due THEN @[t] - 1 ELSE @[t]],
                       !.left = [t \in Thread |-> IF InWheel(kk, t) THEN @[t] - 1 ELSE @[t]],
                       !.status = [t \in Thread |-> IF t \in due /\ Waiting(kk, t) THEN FALSE ELSE @[t]]]
             k1   == WheelRemove(LeaveWaitList(aged, due), due)
             k2   == AddReady(k1, due, kk.wheel.ahead)
             kn   == YieldIsr(k2)
  <1>1. kn = SysTick(kk)
    BY DEF SysTick
  <1>2. due \in SUBSET Thread
    BY DEF Members
  <1>2a. s \in Nat
    BY SchedAssumption DEF KernelInv
  <1>2b. due \subseteq {t \in Thread : InWheel(kk, t)}
    BY <1>2a, SchedAssumption DEF Members, InWheel
  <1> HIDE DEF s, up, due
  <1>3. /\ Shape(aged) /\ aged.slot \in Nat /\ aged.status = f /\ aged.ready = kk.ready /\ aged.bitmap = kk.bitmap
        /\ aged.wait = kk.wait /\ aged.wheel = kk.wheel /\ aged.state = kk.state
        /\ aged.current = kk.current /\ aged.prio = kk.prio /\ aged.pend = kk.pend
    BY <1>2a, Zenon DEF KernelInv, Shape, Fields
  <1>4. /\ f \in [Thread -> BOOLEAN]
        /\ \A t \in Thread : f[t] = IF t \in due /\ Waiting(kk, t) THEN FALSE ELSE kk.status[t]
    BY Zenon DEF KernelInv
  <1> HIDE DEF f, aged
  <1>5. KernelInv(aged)
    BY <1>3, <1>4 DEF KernelInv, Runnable, Waiting, InWheel
  <1>6. /\ KernelInv(k1)
        /\ \A t \in Thread :
             /\ k1.wait.on[t] = IF t \in due THEN Off ELSE aged.wait.on[t]
             /\ k1.wheel.on[t] = IF t \in due THEN Off ELSE aged.wheel.on[t]
        /\ k1.status = aged.status /\ k1.state = aged.state
        /\ k1.current = aged.current /\ k1.pend = aged.pend
    BY <1>5, LeaveKeeps
  <1> HIDE DEF k1
  <1>7. \A t \in due : ~Waiting(k1, t) /\ ~InWheel(k1, t)
    BY <1>2, <1>6 DEF Waiting, InWheel
  <1>8. /\ KernelInv(k2)
        /\ k2.wait = k1.wait /\ k2.status = k1.status
        /\ k2.current = k1.current /\ k2.pend = k1.pend
        /\ \A t \in Thread :
             k2.state[t] = IF t \in due /\ ~Runnable(k1, t) THEN "READY" ELSE k1.state[t]
    BY <1>2, <1>6, <1>7, AddReadyKeeps
  <1> HIDE DEF k2
  <1>9. KernelInv(kn) /\ Kept(k2, kn) /\ kn.wait = k2.wait /\ kn.status = k2.status /\ kn.state = k2.state
    BY <1>8, YieldKeeps
  <1> HIDE DEF kn
  <1>10. Kept(kk, kn)
    BY <1>3, <1>6, <1>2b, <1>8, <1>9 DEF Kept, KernelInv
  <1>11. \A t \in Thread : kn.wait.on[t] = IF t \in due THEN Off ELSE kk.wait.on[t]
    BY <1>3, <1>6, <1>8, <1>9
  <1>12. kn.status = f
    BY <1>3, <1>6, <1>8, <1>9
  <1> QED BY <1>1, <1>2, <1>4, <1>9, <1>10, <1>11, <1>12, Zenon

(* A thread that stops being runnable: it leaves its level and takes the   *)
(* state v, together with the links that go with it.                       *)
LEMMA Retired ==
    ASSUME NEW kk, KernelInv(kk), NEW kn, Shape(kn), NEW x \in Thread \ {Idle},
           NEW v \in States \ {"READY", "RUNNING"},
           kn.ready = RemoveReady(kk, x).ready, kn.bitmap = RemoveReady(kk, x).bitmap,
           kn.state = [kk.state EXCEPT ![x] = v], kn.prio = kk.prio,
           kn.status \in [Thread -> BOOLEAN], kn.pend \in BOOLEAN, kn.slot = kk.slot,
           \A t \in Thread \ {x} : kn.wait.on[t] = kk.wait.on[t] /\ kn.wheel.on[t] = kk.wheel.on[t],
           v # "BLOCKED" => kn.wait.on[x] = Off /\ kn.wheel.on[x] = Off
    PROVE  KernelInv(kn)
  <1>1. CASE ~Runnable(kk, x)
    <2>1. kn.ready = kk.ready /\ kn.bitmap = kk.bitmap
      BY <1>1 DEF RemoveReady
    <2> QED
      BY <1>1, <2>1, SchedAssumption DEF KernelInv, Runnable, Waiting, InWheel
  <1>2. CASE Runnable(kk, x)
    <2> DEFINE rest == Unlink(kk.ready, {x})
    <2>1. /\ kn.ready = rest
          /\ kn.bitmap = IF Members(rest, kk.prio[x]) = {} THEN kk.bitmap \ {kk.prio[x]} ELSE kk.bitmap
      BY <1>2, Zenon DEF RemoveReady, KernelInv, Shape, Fields
    <2>2. \A t \in Thread : rest.on[t] = IF t = x THEN Off ELSE kk.ready.on[t]
      BY DEF Unlink
    <2> HIDE DEF rest
    <2>3. \A t \in Thread \ {x} : Runnable(kk, t) => kk.prio[t] \in kn.bitmap
      BY <2>1, <2>2 DEF KernelInv, Members
    <2>4. \A t \in Thread : kn.state[t] = IF t = x THEN v ELSE kk.state[t]
      BY DEF KernelInv
    <2>5. \A t \in Thread : Runnable(kn, t) <=> t # x /\ Runnable(kk, t)
      BY <2>4 DEF Runnable
    <2>6. kn.state \in [Thread -> States]
      BY DEF KernelInv
    <2>7. \A t \in Thread : Waiting(kn, t) \/ InWheel(kn, t) => kn.state[t] = "BLOCKED"
      BY <2>4 DEF KernelInv, Waiting, InWheel
    <2> QED
      BY <2>1, <2>2, <2>3, <2>5, <2>6, <2>7, SchedAssumption DEF KernelInv
  <1> QED BY <1>1, <1>2

(* What leaving a level and entering the wheel leave alone. *)
LEMMA RemoveReadyFields ==
    ASSUME NEW kk, Shape(kk), NEW t
    PROVE  LET kn == RemoveReady(kk, t)
           IN /\ Shape(kn) /\ kn.slot = kk.slot /\ kn.wait = kk.wait /\ kn.wheel = kk.wheel
              /\ kn.state = kk.state /\ kn.prio = kk.prio /\ kn.status = kk.status
              /\ kn.current = kk.current /\ kn.pend = kk.pend
  BY Zenon DEF RemoveReady, Shape, Fields

(* What mini_os_wheel_insert changes. *)
LEMMA WheelInsertFields ==
    ASSUME NEW kk, Shape(kk), NEW t \in Thread, NEW ticks
    PROVE  LET kn == WheelInsert(kk, t, ticks)
           IN /\ Shape(kn) /\ kn.slot = kk.slot /\ kn.wait = kk.wait
              /\ kn.ready = kk.ready /\ kn.bitmap = kk.bitmap
              /\ kn.state = [kk.state EXCEPT ![t] = "BLOCKED"]
              /\ kn.prio = kk.prio /\ kn.status = kk.status
              /\ kn.current = kk.current /\ kn.pend = kk.pend
              /\ \A u \in Thread \ {t} : kn.wheel.on[u] = kk.wheel.on[u]
  <1> DEFINE kn == WheelInsert(kk, t, ticks)
  <1>1. /\ Shape(kn) /\ kn.slot = kk.slot /\ kn.wait = kk.wait
        /\ kn.ready = kk.ready /\ kn.bitmap = kk.bitmap
        /\ kn.state = [kk.state EXCEPT ![t] = "BLOCKED"]
        /\ kn.prio = kk.prio /\ kn.status = kk.status
        /\ kn.current = kk.current /\ kn.pend = kk.pend
        /\ kn.wheel = Enlist(kk.wheel, {t}, Everywhere((kk.slot + ticks) % Wheel), Alone)
    BY Zenon DEF WheelInsert, Shape, Fields
  <1> HIDE DEF kn
  <1>2. \A u \in Thread \ {t} : kn.wheel.on[u] = kk.wheel.on[u]
    BY <1>1 DEF Enlist
  <1> QED BY <1>1, <1>2, Zenon DEF kn

(* mini_os_schedule_delay: the caller leaves its level for the wheel. *)
LEMMA DelayParkKeeps ==
    ASSUME NEW kk, KernelInv(kk), NEW t \in Thread \ {Idle}, NEW ticks
    PROVE  LET kn == DelayPark(kk, t, ticks)
           IN /\ KernelInv(kn) /\ kn.wait = kk.wait /\ kn.status = kk.status
              /\ kn.current = kk.current /\ kn.pend = kk.pend
              /\ kn.state = [kk.state EXCEPT ![t] = "BLOCKED"]
  <1> DEFINE r == RemoveReady(kk, t)
             kn == WheelInsert(r, t, ticks)
  <1>1. /\ Shape(r) /\ r.slot = kk.slot /\ r.wait = kk.wait /\ r.wheel = kk.wheel
        /\ r.state = kk.state /\ r.prio = kk.prio /\ r.status = kk.status
        /\ r.current = kk.current /\ r.pend = kk.pend
    BY RemoveReadyFields DEF KernelInv
  <1>2. /\ Shape(kn) /\ kn.slot = r.slot /\ kn.wait = r.wait
        /\ kn.ready = RemoveReady(kk, t).ready /\ kn.bitmap = RemoveReady(kk, t).bitmap
        /\ kn.state = [r.state EXCEPT ![t] = "BLOCKED"]
        /\ kn.prio = r.prio /\ kn.status = r.status
        /\ kn.current = r.current /\ kn.pend = r.pend
        /\ \A u \in Thread \ {t} : kn.wheel.on[u] = r.wheel.on[u]
    BY <1>1, WheelInsertFields
  <1> HIDE DEF r, kn
  <1>3. KernelInv(kn)
    <2>1. "BLOCKED" \in States \ {"READY", "RUNNING"}
      BY DEF States
    <2>2. kn.pend \in BOOLEAN /\ kn.status \in [Thread -> BOOLEAN]
      BY <1>1, <1>2 DEF KernelInv
    <2>3. \A u \in Thread \ {t} : kn.wait.on[u] = kk.wait.on[u] /\ kn.wheel.on[u] = kk.wheel.on[u]
      BY <1>1, <1>2
    <2> QED
      BY <1>1, <1>2, <2>1, <2>2, <2>3, Retired
  <1> QED BY <1>1, <1>2, <1>3 DEF DelayPark, kn, r

(* mini_os_sync_wait_park: the caller leaves its level for the wait list,  *)
(* and for the wheel when the wait is bounded.                             *)
LEMMA WaitParkKeeps ==
    ASSUME NEW kk, KernelInv(kk), NEW t \in Thread \ {Idle}, NEW w, NEW ticks
    PROVE  LET kn == WaitPark(kk, t, w, ticks)
           IN /\ KernelInv(kn)
              /\ kn.current = kk.current /\ kn.pend = kk.pend
              /\ kn.state = [kk.state EXCEPT ![t] = "BLOCKED"]
              /\ kn.status = [kk.status EXCEPT ![t] = FALSE]
              /\ \A u \in Thread : kn.wait.on[u] = IF u = t THEN w ELSE kk.wait.on[u]
  <1> DEFINE r   == RemoveReady(kk, t)
             off == [r EXCEPT !.state[t] = "BLOCKED", !.status[t] = FALSE,
                              !.wait = Enlist(@, {t}, Everywhere(w), Alone)]
             kn  == WaitPark(kk, t, w, ticks)
  <1>1. /\ Shape(r) /\ r.slot = kk.slot /\ r.wait = kk.wait /\ r.wheel = kk.wheel
        /\ r.state = kk.state /\ r.prio = kk.prio /\ r.status = kk.status
        /\ r.current = kk.current /\ r.pend = kk.pend
    BY RemoveReadyFields DEF KernelInv
  <1>2. kn = IF ticks = Forever THEN off ELSE WheelInsert(off, t, ticks)
    BY DEF WaitPark
  <1> HIDE DEF r
  <1>3. /\ Shape(off) /\ off.slot = kk.slot /\ off.wheel = kk.wheel
        /\ off.ready = r.ready /\ off.bitmap = r.bitmap /\ off.prio = kk.prio
        /\ off.current = kk.current /\ off.pend = kk.pend
        /\ off.state = [kk.state EXCEPT ![t] = "BLOCKED"]
        /\ off.status = [kk.status EXCEPT ![t] = FALSE]
        /\ off.wait = Enlist(kk.wait, {t}, Everywhere(w), Alone)
    BY <1>1, Zenon DEF Shape, Fields
  <1> HIDE DEF off, kn
  <1>4. \A u \in Thread : off.wait.on[u] = IF u = t THEN w ELSE kk.wait.on[u]
    BY <1>3 DEF Enlist, Everywhere
  <1>5. [kk.state EXCEPT ![t] = "BLOCKED"] = [off.state EXCEPT ![t] = "BLOCKED"]
    BY <1>3 DEF KernelInv
  <1>6. /\ Shape(kn) /\ kn.slot = kk.slot /\ kn.ready = r.ready /\ kn.bitmap = r.bitmap
        /\ kn.prio = kk.prio /\ kn.current = kk.current /\ kn.pend = kk.pend
        /\ kn.state = [kk.state EXCEPT ![t] = "BLOCKED"]
        /\ kn.status = [kk.status EXCEPT ![t] = FALSE]
        /\ kn.wait = off.wait
        /\ \A u \in Thread \ {t} : kn.wheel.on[u] = kk.wheel.on[u]
    BY <1>2, <1>3, <1>5, WheelInsertFields
  <1>7. kn.status \in [Thread -> BOOLEAN]
    BY <1>6 DEF KernelInv
  <1>8. KernelInv(kn)
    <2>1. "BLOCKED" \in States \ {"READY", "RUNNING"}
      BY DEF States
    <2>2. kn.pend \in BOOLEAN
      BY <1>6 DEF KernelInv
    <2>3. /\ kn.ready = RemoveReady(kk, t).ready /\ kn.bitmap = RemoveReady(kk, t).bitmap
          /\ \A u \in Thread \ {t} : kn.wait.on[u] = kk.wait.on[u] /\ kn.wheel.on[u] = kk.wheel.on[u]
      BY <1>4, <1>6 DEF r
    <2> QED
      BY <1>6, <1>7, <2>1, <2>2, <2>3, Retired, Zenon
  <1> QED BY <1>4, <1>6, <1>8 DEF kn

(* mini_os_thread_suspend on the lists, and the end of the section of      *)
(* mini_os_thread_delete and _exit: a thread linked in the ready list only *)
(* becomes v and is linked nowhere.                                        *)
LEMMA RetireKeeps ==
    ASSUME NEW kk, KernelInv(kk), NEW x \in Thread \ {Idle}, ~Waiting(kk, x), ~InWheel(kk, x),
           NEW v \in States \ {"READY", "RUNNING", "BLOCKED"}
    PROVE  LET kn == [RemoveReady(kk, x) EXCEPT !.state[x] = v]
           IN /\ KernelInv(kn) /\ kn.wait = kk.wait /\ kn.status = kk.status
              /\ kn.current = kk.current /\ kn.pend = kk.pend
              /\ kn.state = [kk.state EXCEPT ![x] = v]
  <1> DEFINE r  == RemoveReady(kk, x)
             kn == [r EXCEPT !.state[x] = v]
  <1>1. /\ Shape(r) /\ r.slot = kk.slot /\ r.wait = kk.wait /\ r.wheel = kk.wheel
        /\ r.state = kk.state /\ r.prio = kk.prio /\ r.status = kk.status
        /\ r.current = kk.current /\ r.pend = kk.pend
    BY RemoveReadyFields DEF KernelInv
  <1> HIDE DEF r
  <1>2. /\ Shape(kn) /\ kn.slot = kk.slot /\ kn.wait = kk.wait /\ kn.wheel = kk.wheel
        /\ kn.ready = r.ready /\ kn.bitmap = r.bitmap
        /\ kn.state = [kk.state EXCEPT ![x] = v] /\ kn.prio = kk.prio /\ kn.status = kk.status
        /\ kn.current = kk.current /\ kn.pend = kk.pend
    BY <1>1 DEF Shape, Fields
  <1> HIDE DEF kn
  <1>3. KernelInv(kn)
    <2>1. kn.pend \in BOOLEAN /\ kn.status \in [Thread -> BOOLEAN]
      BY <1>2 DEF KernelInv
    <2>2. kn.wait.on[x] = Off /\ kn.wheel.on[x] = Off
      BY <1>2 DEF Waiting, InWheel
    <2>3. /\ kn.ready = RemoveReady(kk, x).ready /\ kn.bitmap = RemoveReady(kk, x).bitmap
          /\ v \in States \ {"READY", "RUNNING"}
      BY <1>2 DEF r
    <2> QED
      BY <1>2, <2>1, <2>2, <2>3, Retired
  <1> QED BY <1>2, <1>3 DEF kn, r

(* mini_os_thread_suspend: a waiter leaves its list with a failure. *)
LEMMA SuspendKeeps ==
    ASSUME NEW kk, KernelInv(kk), NEW x \in Thread \ {Idle}
    PROVE  LET kn == SuspendLists(kk, x)
           IN /\ KernelInv(kn)
              /\ kn.current = kk.current /\ kn.pend = kk.pend
              /\ kn.state = [kk.state EXCEPT ![x] = "SUSPENDED"]
              /\ \A t \in Thread :
                   /\ kn.wait.on[t] = IF t = x THEN Off ELSE kk.wait.on[t]
                   /\ kn.status[t] = IF t = x /\ Waiting(kk, x) THEN FALSE ELSE kk.status[t]
  <1> DEFINE kn == SuspendLists(kk, x)
  <1>0. "SUSPENDED" \in States \ {"READY", "RUNNING", "BLOCKED"}
    BY DEF States
  <1>1. CASE Runnable(kk, x)
    <2>1. ~Waiting(kk, x) /\ ~InWheel(kk, x)
      BY <1>1 DEF KernelInv, Runnable
    <2>2. kn = [RemoveReady(kk, x) EXCEPT !.state[x] = "SUSPENDED"]
      BY <1>1 DEF SuspendLists
    <2>3. /\ KernelInv(kn) /\ kn.wait = kk.wait /\ kn.status = kk.status
          /\ kn.current = kk.current /\ kn.pend = kk.pend
          /\ kn.state = [kk.state EXCEPT ![x] = "SUSPENDED"]
      BY <1>0, <2>1, <2>2, RetireKeeps
    <2> HIDE DEF kn
    <2>4. kk.wait.on[x] = Off
      BY <2>1 DEF Waiting
    <2> QED
      BY <2>1, <2>3, <2>4 DEF kn
  <1>2. CASE ~Runnable(kk, x)
    <2> DEFINE k1 == WheelRemove(LeaveWaitList(kk, {x}), {x})
               f  == [k1.status EXCEPT ![x] = IF Waiting(kk, x) THEN FALSE ELSE @]
               k2 == [k1 EXCEPT !.status = f]
               k3 == [k2 EXCEPT !.resume[x] = WheelRemain(kk, x), !.state[x] = "SUSPENDED"]
    <2>1. /\ KernelInv(k1)
          /\ \A t \in Thread :
               /\ k1.wait.on[t] = IF t \in {x} THEN Off ELSE kk.wait.on[t]
               /\ k1.wheel.on[t] = IF t \in {x} THEN Off ELSE kk.wheel.on[t]
          /\ k1.status = kk.status /\ k1.state = kk.state
          /\ k1.current = kk.current /\ k1.pend = kk.pend
      BY LeaveKeeps
    <2>2. kn = [[k1 EXCEPT !.resume[x] = WheelRemain(kk, x),
                           !.status[x] = IF Waiting(kk, x) THEN FALSE ELSE @]
                EXCEPT !.state[x] = "SUSPENDED"]
      BY <1>2 DEF SuspendLists
    <2> HIDE DEF k1, kn
    <2>3. kn = k3
      BY <2>1, <2>2, Zenon DEF KernelInv, Shape, Fields
    <2>4. /\ f \in [Thread -> BOOLEAN]
          /\ \A t \in Thread : f[t] = IF t = x /\ Waiting(kk, x) THEN FALSE ELSE kk.status[t]
      BY <2>1, Zenon DEF KernelInv
    <2> HIDE DEF f
    <2>5. /\ KernelInv(k2) /\ k2.status = f
          /\ k2.wait = k1.wait /\ k2.wheel = k1.wheel /\ k2.state = k1.state
          /\ k2.current = k1.current /\ k2.pend = k1.pend
      BY <2>1, <2>4, StatusKeeps
    <2> HIDE DEF k2
    <2>6. /\ Shape(k3) /\ k3.slot = k2.slot /\ k3.wait = k2.wait /\ k3.wheel = k2.wheel
          /\ k3.ready = k2.ready /\ k3.bitmap = k2.bitmap
          /\ k3.state = [k2.state EXCEPT ![x] = "SUSPENDED"] /\ k3.prio = k2.prio
          /\ k3.status = k2.status /\ k3.current = k2.current /\ k3.pend = k2.pend
      BY <2>5, Zenon DEF KernelInv, Shape, Fields
    <2> HIDE DEF k3
    <2>7. KernelInv(k3)
      <3>1. RemoveReady(k2, x) = k2
        BY <1>2, <2>1, <2>5 DEF RemoveReady, Runnable
      <3>2. k3.pend \in BOOLEAN /\ k3.status \in [Thread -> BOOLEAN]
        BY <2>5, <2>6 DEF KernelInv
      <3>3. k3.wait.on[x] = Off /\ k3.wheel.on[x] = Off
        BY <2>1, <2>5, <2>6
      <3> QED
        BY <1>0, <2>5, <2>6, <3>1, <3>2, <3>3, Retired
    <2>8. \A t \in Thread :
            /\ kn.wait.on[t] = IF t = x THEN Off ELSE kk.wait.on[t]
            /\ kn.status[t] = f[t]
      BY <2>1, <2>3, <2>5, <2>6
    <2>9. /\ KernelInv(kn) /\ kn.current = kk.current /\ kn.pend = kk.pend
          /\ kn.state = [kk.state EXCEPT ![x] = "SUSPENDED"]
      BY <2>1, <2>3, <2>5, <2>6, <2>7
    <2> QED
      BY <2>4, <2>8, <2>9, Zenon DEF kn
  <1> QED BY <1>1, <1>2, Zenon

(* mini_os_thread_resume of a thread that is linked nowhere: it is made    *)
(* ready or its delay continues.                                           *)
LEMMA ResumeKeeps ==
    ASSUME NEW kk, KernelInv(kk), NEW x \in Thread \ {Idle},
           kk.state[x] \notin {"READY", "RUNNING", "BLOCKED"}
    PROVE  LET kn == ResumeLists(kk, x)
           IN /\ KernelInv(kn) /\ kn.wait = kk.wait /\ kn.status = kk.status
              /\ kn.current = kk.current /\ kn.pend = kk.pend
              /\ \A t \in Thread \ {x} : kn.state[t] = kk.state[t]
  <1> DEFINE kn == ResumeLists(kk, x)
  <1>0. ~Waiting(kk, x) /\ ~InWheel(kk, x) /\ ~Runnable(kk, x)
    BY DEF KernelInv, Runnable
  <1>1. CASE kk.resume[x] > 0
    <2> DEFINE k1 == WheelInsert(kk, x, kk.resume[x])
               k2 == [k1 EXCEPT !.resume[x] = 0]
    <2>1. kn = k2
      BY <1>1 DEF ResumeLists
    <2>2. /\ Shape(k1) /\ k1.slot = kk.slot /\ k1.wait = kk.wait
          /\ k1.ready = kk.ready /\ k1.bitmap = kk.bitmap
          /\ k1.state = [kk.state EXCEPT ![x] = "BLOCKED"]
          /\ k1.prio = kk.prio /\ k1.status = kk.status
          /\ k1.current = kk.current /\ k1.pend = kk.pend
          /\ \A u \in Thread \ {x} : k1.wheel.on[u] = kk.wheel.on[u]
      BY WheelInsertFields DEF KernelInv
    <2> HIDE DEF k1
    <2>3. /\ Shape(k2) /\ k2.slot = k1.slot /\ k2.wait = k1.wait /\ k2.wheel = k1.wheel
          /\ k2.ready = k1.ready /\ k2.bitmap = k1.bitmap
          /\ k2.state = k1.state /\ k2.prio = k1.prio /\ k2.status = k1.status
          /\ k2.current = k1.current /\ k2.pend = k1.pend
      BY <2>2 DEF Shape, Fields
    <2> HIDE DEF k2, kn
    <2>4. KernelInv(k2)
      <3>1. RemoveReady(kk, x) = kk /\ "BLOCKED" \in States \ {"READY", "RUNNING"}
        BY <1>0 DEF RemoveReady, States
      <3>2. k2.pend \in BOOLEAN /\ k2.status \in [Thread -> BOOLEAN]
        BY <2>2, <2>3 DEF KernelInv
      <3>3. \A u \in Thread \ {x} : k2.wait.on[u] = kk.wait.on[u] /\ k2.wheel.on[u] = kk.wheel.on[u]
        BY <2>2, <2>3
      <3> QED
        BY <2>2, <2>3, <3>1, <3>2, <3>3, Retired
    <2>5. \A t \in Thread \ {x} : k2.state[t] = kk.state[t]
      BY <2>2, <2>3 DEF KernelInv
    <2> QED
      BY <2>1, <2>2, <2>3, <2>4, <2>5 DEF kn
  <1>2. CASE ~(kk.resume[x] > 0)
    <2>1. kn = AddReady(kk, {x}, Alone)
      BY <1>2 DEF ResumeLists
    <2>2. {x} \in SUBSET Thread /\ \A t \in {x} : ~Waiting(kk, t) /\ ~InWheel(kk, t)
      BY <1>0
    <2>3. /\ KernelInv(kn)
          /\ kn.wait = kk.wait /\ kn.status = kk.status
          /\ kn.current = kk.current /\ kn.pend = kk.pend
          /\ \A t \in Thread :
               kn.state[t] = IF t \in {x} /\ ~Runnable(kk, t) THEN "READY" ELSE kk.state[t]
      BY <2>1, <2>2, AddReadyKeeps
    <2> HIDE DEF kn
    <2>4. \A t \in Thread \ {x} : kn.state[t] = kk.state[t]
      BY <2>3
    <2> QED
      BY <2>3, <2>4 DEF kn
  <1> QED BY <1>1, <1>2

(* A thread that is linked in no wheel slot and on no wait list is freed. *)
LEMMA Frees ==
    ASSUME NEW kk, KernelInv(kk), NEW x \in Thread \ {Idle}, ~Waiting(kk, x), ~InWheel(kk, x),
           NEW off, off = RemoveReady(kk, x)
    PROVE  LET kn == [off EXCEPT !.state[x] = "FREED"]
           IN /\ KernelInv(kn) /\ kn.wait = kk.wait /\ kn.status = kk.status
              /\ kn.current = kk.current /\ kn.pend = kk.pend
              /\ kn.state = [kk.state EXCEPT ![x] = "FREED"]
  <1>1. "FREED" \in States \ {"READY", "RUNNING", "BLOCKED"}
    BY DEF States
  <1> QED BY <1>1, RetireKeeps

(* The same for one that is in no level either. *)
LEMMA FreesUnlinked ==
    ASSUME NEW kk, KernelInv(kk), NEW x \in Thread \ {Idle},
           ~Waiting(kk, x), ~InWheel(kk, x), ~Runnable(kk, x)
    PROVE  LET kn == [kk EXCEPT !.state[x] = "FREED"]
           IN /\ KernelInv(kn) /\ kn.wait = kk.wait /\ kn.status = kk.status
              /\ kn.current = kk.current /\ kn.pend = kk.pend
              /\ kn.state = [kk.state EXCEPT ![x] = "FREED"]
  <1>1. kk = RemoveReady(kk, x)
    BY DEF RemoveReady
  <1> QED BY <1>1, Frees, Zenon

(* A blocked thread that is unlinked: it leaves its wait list and the      *)
(* wheel, and the priorities it had boosted are applied anew.              *)
LEMMA UnlinksBlocked ==
    ASSUME NEW kk, KernelInv(kk), NEW x \in Thread \ {Idle}, kk.state[x] = "BLOCKED",
           NEW p, NEW off, off = PriorityApply(WheelRemove(LeaveWaitList(kk, {x}), {x}), p)
    PROVE  /\ KernelInv(off) /\ off.status = kk.status /\ off.state = kk.state
           /\ off.current = kk.current /\ off.pend = kk.pend
           /\ ~Waiting(off, x) /\ ~InWheel(off, x) /\ ~Runnable(off, x)
           /\ \A t \in Thread : off.wait.on[t] = IF t = x THEN Off ELSE kk.wait.on[t]
  <1> DEFINE k1 == WheelRemove(LeaveWaitList(kk, {x}), {x})
  <1>1. /\ KernelInv(k1)
        /\ \A t \in Thread :
             /\ k1.wait.on[t] = IF t \in {x} THEN Off ELSE kk.wait.on[t]
             /\ k1.wheel.on[t] = IF t \in {x} THEN Off ELSE kk.wheel.on[t]
        /\ k1.status = kk.status /\ k1.state = kk.state
        /\ k1.current = kk.current /\ k1.pend = kk.pend
    BY LeaveKeeps
  <1> HIDE DEF k1
  <1>2. KernelInv(off) /\ off.wait = k1.wait /\ off.status = k1.status
    BY <1>1, PriorityApplyKeeps DEF k1
  <1>3. off.state = k1.state /\ off.wheel = k1.wheel /\ off.current = k1.current /\ off.pend = k1.pend
    BY <1>1, Zenon DEF PriorityApply, KernelInv, Shape, Fields, k1
  <1>4. ~Waiting(off, x) /\ ~InWheel(off, x) /\ ~Runnable(off, x)
    BY <1>1, <1>2, <1>3 DEF Waiting, InWheel, Runnable
  <1> QED BY <1>1, <1>2, <1>3, <1>4, Zenon

(* mini_os_thread_defunct_execute frees threads that are linked nowhere. *)
LEMMA Reaped ==
    ASSUME NEW kk, KernelInv(kk), NEW st \in [Thread -> States],
           \A t \in Thread :
             st[t] = kk.state[t] \/ (kk.state[t] \in {"TERMINATED", "FREED"} /\ st[t] = "FREED")
    PROVE  LET kn == [kk EXCEPT !.state = st]
           IN /\ KernelInv(kn) /\ kn.wait = kk.wait /\ kn.status = kk.status /\ kn.state = st
              /\ kn.current = kk.current /\ kn.pend = kk.pend
  <1> DEFINE kn == [kk EXCEPT !.state = st]
  <1>1. /\ Shape(kn) /\ kn.slot = kk.slot /\ kn.wait = kk.wait /\ kn.wheel = kk.wheel
        /\ kn.ready = kk.ready /\ kn.bitmap = kk.bitmap /\ kn.prio = kk.prio /\ kn.state = st
        /\ kn.status = kk.status /\ kn.pend = kk.pend /\ kn.current = kk.current
    BY DEF KernelInv, Shape, Fields
  <1> HIDE DEF kn
  <1>2. \A t \in Thread : Runnable(kn, t) <=> Runnable(kk, t)
    BY <1>1 DEF Runnable
  <1>3. \A t \in Thread : Waiting(kn, t) \/ InWheel(kn, t) => kn.state[t] = "BLOCKED"
    BY <1>1 DEF KernelInv, Waiting, InWheel
  <1>4. KernelInv(kn)
    BY <1>1, <1>2, <1>3, SchedAssumption DEF KernelInv
  <1> QED BY <1>1, <1>4 DEF kn
=============================================================================
