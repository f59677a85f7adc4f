------------------------- MODULE MiniOsSync_proofs --------------------------
(***************************************************************************)
(* The calls on semaphores, queues and mutexes preserve the invariant.     *)
(***************************************************************************)
EXTENDS MiniOsInv_proofs

(* Waking a waiter of a semaphore or of a queue. *)
LEMMA WakeOneOthers ==
    ASSUME Inv, NEW t, NEW kk, KernelInv(kk), Kept(k, kk), kk.wait = k.wait,
           \A u \in Thread \ {t} : kk.status[u] = k.status[u],
           NEW w, w # Off, w \notin Mutex,
           k' \in {WakeOne(kk, w), YieldIsr(WakeOne(kk, w))}
    PROVE  /\ KernelInv(k') /\ Kept(k, k') /\ OthersKept(t)
           /\ t \in Thread /\ ~Waiting(k, t) => ~Waiting(k', t)
  <1> DEFINE k1 == WakeOne(kk, w)
  <1>1. /\ KernelInv(k1) /\ Kept(kk, k1)
        /\ \E G \in SUBSET Thread : Woken(kk, k1, w, G)
    BY WakeOneKeeps
  <1> HIDE DEF k1
  <1>2. KernelInv(k') /\ Kept(k1, k') /\ k'.wait = k1.wait /\ k'.status = k1.status
    <2>1. Kept(k1, k1)
      BY DEF Kept
    <2>2. k' \in {k1, YieldIsr(k1)}
      BY DEF k1
    <2> QED BY <1>1, <2>1, <2>2, YieldKeeps
  <1>3. PICK G \in SUBSET Thread : Woken(kk, k1, w, G)
    BY <1>1
  <1>4. Kept(k, k')
    BY <1>1, <1>2 DEF Kept
  <1>5. ASSUME NEW u \in Thread \ {t}
        PROVE  /\ k'.wait.on[u] \in {k.wait.on[u], Off}
               /\ \/ k'.status[u] = k.status[u]
                  \/ Waiting(k, u) /\ ~Waiting(k', u) /\ (~k'.status[u] \/ call[u].op # "lock")
    <2>1. WaitInv(u)
      BY DEF Inv, ThreadInv
    <2>2. CASE u \in G
      <3>1. k.wait.on[u] = w /\ k1.wait.on[u] = Off
        BY <1>3, <2>2, Zenon DEF Woken
      <3> QED BY <1>2, <2>1, <3>1 DEF WaitInv, Waiting
    <2>3. CASE u \notin G
      BY <1>2, <1>3, <2>3, Zenon DEF Woken
    <2> QED BY <2>2, <2>3
  <1>6. OthersKept(t)
    BY <1>4, <1>5, KeptOthers
  <1>7. t \in Thread /\ ~Waiting(k, t) => ~Waiting(k', t)
    BY <1>2, <1>3, Zenon DEF Waiting, Woken
  <1> QED BY <1>2, <1>4, <1>6, <1>7

(* Counting on a semaphore or a queue touches no mutex. *)
LEMMA CountOther ==
    ASSUME TypeInv, NEW o \in Obj, o \notin Mutex, NEW d \in Int,
           count' \in {count, [count EXCEPT ![o] = @ + d], [count EXCEPT ![o] = @ - d]}
    PROVE  count' \in [Obj -> Int] /\ \A m \in Mutex : count'[m] = count[m]
  <1>1. count \in [Obj -> Int] /\ count[o] \in Int
    BY DEF TypeInv
  <1>2. Mutex \subseteq Obj
    BY DEF Obj
  <1> QED BY <1>1, <1>2

(* mini_os_semaphore_take *)
LEMMA TakeInv ==
    ASSUME Inv, NEW t \in Thread \ {Idle}, Take(t)
    PROVE  Inv'
  <1> DEFINE s == call[t].obj
  <1>1. /\ Executes(t) /\ call[t].op = "take" /\ pc[t] = "enter"
        /\ UNCHANGED <<app, waitMutex, owner, depth, dead, defunct, holds, orphan>>
        /\ \/ count[s] > 0 /\ count' = [count EXCEPT ![s] = @ - 1] /\ Return(t) /\ UNCHANGED k
           \/ Return(t) /\ UNCHANGED <<k, count>>
           \/ ParkOn(t, s, call[t].arg)
    BY DEF Take, Inside
  <1>2. /\ CallInv(t) /\ KernelInv(k) /\ TypeInv /\ Runnable(k, t) /\ ~Waiting(k, t)
    BY <1>1, Executing
  <1>3. s \in Sem /\ s \notin Mutex /\ s # Off /\ s \in Obj
    BY <1>1, <1>2, ObjAssumption, SchedAssumption DEF CallInv, Obj
  <1>4. ASSUME Return(t), UNCHANGED k,
               count' = count \/ count' = [count EXCEPT ![s] = @ - 1]
        PROVE  Inv'
    <2>1. pc' = [pc EXCEPT ![t] = "app"] /\ call' = [call EXCEPT ![t] = NoCall]
      BY <1>4 DEF Return, Goto
    <2>0. count' \in {count, [count EXCEPT ![s] = @ + 1], [count EXCEPT ![s] = @ - 1]}
      BY <1>4
    <2>2. TypeInv' /\ \A m \in Mutex : count'[m] = count[m]
      <3>1. count' \in [Obj -> Int] /\ \A m \in Mutex : count'[m] = count[m]
        BY <1>2, <1>3, <2>0, 1 \in Int, CountOther
      <3> QED BY <1>1, <1>2, <2>1, <3>1, Zenon DEF TypeInv
    <2>3. OthersKept(t)
      BY <1>4 DEF OthersKept
    <2> QED
      BY <1>1, <1>2, <1>4, <2>1, <2>2, <2>3, CallEnds, Zenon
  <1>5. ASSUME ParkOn(t, s, call[t].arg) PROVE Inv'
    BY <1>1, <1>3, <1>5, Parks
  <1> QED BY <1>1, <1>4, <1>5

(* The end of a parked mini_os_semaphore_take. *)
LEMMA TakeParkedInv ==
    ASSUME Inv, NEW t \in Thread \ {Idle}, TakeParked(t)
    PROVE  Inv'
  <1>1. /\ Executes(t) /\ call[t].op = "take" /\ pc[t] = "parked" /\ k' = Consume(k, t)
        /\ pc' = [pc EXCEPT ![t] = "app"] /\ call' = [call EXCEPT ![t] = NoCall]
        /\ UNCHANGED <<app, waitMutex, count, owner, depth, dead, defunct, holds, orphan>>
    BY DEF TakeParked, Inside, Return, Goto
  <1>2. /\ CallInv(t) /\ KernelInv(k) /\ TypeInv /\ Runnable(k, t) /\ ~Waiting(k, t)
    BY <1>1, Executing
  <1>3. /\ KernelInv(k') /\ Kept(k, k') /\ k'.wait = k.wait /\ k'.state = k.state
        /\ \A u \in Thread \ {t} : k'.status[u] = k.status[u]
    BY <1>1, <1>2, ConsumeKeeps
  <1>4. OthersKept(t) /\ Runnable(k', t) /\ ~Waiting(k', t)
    BY <1>2, <1>3 DEF Kept, OthersKept, Runnable, Waiting
  <1>5. TypeInv'
    BY <1>1, <1>2, Zenon DEF TypeInv
  <1> QED BY <1>1, <1>3, <1>4, <1>5, CallEnds, Zenon

(* One round of mini_os_queue_send or _receive. *)
LEMMA QueueRoundInv ==
    ASSUME Inv, NEW t \in Thread \ {Idle}, NEW op \in {"send", "recv"}, NEW room, NEW step \in Int,
           NEW own \in QueueLists, NEW other \in QueueLists,
           QueueRound(t, op, room, own, other, step)
    PROVE  Inv'
  <1> DEFINE q == call[t].obj
             k1 == Consume(k, t)
  <1>1. /\ Executes(t) /\ call[t].op = op /\ pc[t] \in {"enter", "parked"}
        /\ UNCHANGED <<app, waitMutex, owner, depth, dead, defunct, holds, orphan>>
        /\ \/ Return(t) /\ k' = k1 /\ UNCHANGED count
           \/ /\ count' = [count EXCEPT ![q] = @ + step]
              /\ k' = WakeOne(k1, other)
              /\ ReturnYielding(t, ~Empty(k.wait, other))
           \/ \E ticks : ParkOn(t, own, ticks)
    BY DEF QueueRound
  <1>2. /\ CallInv(t) /\ KernelInv(k) /\ TypeInv /\ Runnable(k, t) /\ ~Waiting(k, t)
    BY <1>1, Executing
  <1>3. q \in Queue /\ q \notin Mutex /\ q \in Obj
    BY <1>1, <1>2, ObjAssumption DEF CallInv, Obj
  <1>4. own # Off /\ own \notin Mutex /\ other # Off /\ other \notin Mutex
    BY ObjAssumption, SchedAssumption
  <1>5. /\ KernelInv(k1) /\ Kept(k, k1) /\ k1.wait = k.wait /\ k1.state = k.state
        /\ \A u \in Thread \ {t} : k1.status[u] = k.status[u]
    BY <1>2, ConsumeKeeps
  <1> HIDE DEF k1
  <1>6. CASE Return(t) /\ k' = k1 /\ UNCHANGED count
    <2>1. pc' = [pc EXCEPT ![t] = "app"] /\ call' = [call EXCEPT ![t] = NoCall]
      BY <1>6 DEF Return, Goto
    <2>2. OthersKept(t) /\ Runnable(k', t) /\ ~Waiting(k', t)
      BY <1>2, <1>5, <1>6 DEF Kept, OthersKept, Runnable, Waiting
    <2>3. TypeInv'
      BY <1>1, <1>2, <1>6, <2>1, Zenon DEF TypeInv
    <2> QED
      BY <1>1, <1>5, <1>6, <2>1, <2>2, <2>3, CallEnds, Zenon
  <1>7. CASE /\ count' = [count EXCEPT ![q] = @ + step]
             /\ k' = WakeOne(k1, other)
             /\ ReturnYielding(t, ~Empty(k.wait, other))
    <2>1. PICK l \in {"app", "yield"} :
            pc' = [pc EXCEPT ![t] = l] /\ call' = [call EXCEPT ![t] = NoCall]
      BY <1>7, Zenon DEF ReturnYielding, Goto
    <2>2. KernelInv(k') /\ Kept(k, k') /\ OthersKept(t) /\ ~Waiting(k', t)
      BY <1>2, <1>4, <1>5, <1>7, WakeOneOthers, Zenon
    <2>3. Runnable(k', t)
      BY <1>2, <2>2 DEF Kept, Runnable
    <2>4. TypeInv' /\ \A m \in Mutex : count'[m] = count[m]
      BY <1>1, <1>2, <1>3, <1>7, <2>1, CountOther, Zenon DEF TypeInv
    <2> QED
      BY <1>1, <2>1, <2>2, <2>3, <2>4, CallEnds, Zenon
  <1>8. ASSUME NEW ticks, ParkOn(t, own, ticks) PROVE Inv'
    BY <1>1, <1>4, <1>8, Parks
  <1> QED BY <1>1, <1>6, <1>7, <1>8

(* mini_os_queue_send and mini_os_queue_receive. *)
LEMMA SendReceiveInv ==
    ASSUME Inv, NEW t \in Thread \ {Idle}, Send(t) \/ Receive(t)
    PROVE  Inv'
  <1>1. ASSUME Executes(t), call[t].op \in {"send", "recv"}
        PROVE  SendList(call[t].obj) \in QueueLists /\ RecvList(call[t].obj) \in QueueLists
    BY <1>1, Executing DEF CallInv, QueueLists
  <1> DEFINE q == call[t].obj
  <1>2. CASE Send(t)
    <2>1. Executes(t) /\ call[t].op \in {"send", "recv"}
      BY <1>2, Zenon DEF Send, QueueRound
    <2>2. QueueRound(t, "send", count[q] < Capacity[q], SendList(q), RecvList(q), 1)
      BY <1>2 DEF Send
    <2>3. /\ SendList(q) \in QueueLists /\ RecvList(q) \in QueueLists
          /\ "send" \in {"send", "recv"} /\ 1 \in Int
      BY <1>1, <2>1
    <2> HIDE DEF q
    <2> QED BY <2>2, <2>3, QueueRoundInv, Zenon
  <1>3. CASE Receive(t)
    <2>1. Executes(t) /\ call[t].op \in {"send", "recv"}
      BY <1>3, Zenon DEF Receive, QueueRound
    <2>2. QueueRound(t, "recv", count[q] > 0, RecvList(q), SendList(q), -1)
      BY <1>3 DEF Receive
    <2>3. /\ SendList(q) \in QueueLists /\ RecvList(q) \in QueueLists
          /\ "recv" \in {"send", "recv"} /\ -1 \in Int
      BY <1>1, <2>1
    <2> HIDE DEF q
    <2> QED BY <2>2, <2>3, QueueRoundInv, Zenon
  <1> QED BY <1>2, <1>3

(* The executing thread becomes the owner of m: it takes the unit from the *)
(* count, or it was the woken waiter that carried it.                      *)
LEMMA Obtains ==
    ASSUME Inv, NEW t \in Thread, NEW m \in Mutex, Steps(t, "app", NoCall),
           owner' = [owner EXCEPT ![m] = t], holds' = [holds EXCEPT ![t] = @ \cup {m}],
           orphan' = orphan, \A x \in Mutex \ {m} : count'[x] = count[x],
           \/ count[m] = 1 /\ count'[m] = 0 /\ pc[t] \notin {"parked", "give"}
           \/ count'[m] = count[m] /\ t \in InFlight(m, "lock")
    PROVE  Inv'
  <1>1. /\ Others({t}) /\ pc'[t] = "app" /\ ThreadInv'
        /\ \A x \in Mutex : SameCarriers(Thread \ {t}, x)
    BY StepsInv
  <1>2. TypeInv /\ TypeInv' /\ KernelInv(k') /\ pc[t] \notin {"yieldPark"}
        /\ \A x \in Mutex : dead[x] => dead'[x]
    BY DEF Inv, Steps
  <1>3. /\ \A x \in Mutex : owner'[x] = IF x = m THEN t ELSE owner[x]
        /\ \A x \in Mutex, u \in Thread : x \in holds'[u] <=> x \in holds[u] \/ (x = m /\ u = t)
    BY <1>2 DEF TypeInv
  <1>4. \A x \in Mutex : t \notin InFlight(x, "lock")' /\ t \notin Unlocking(x)'
    BY <1>1 DEF InFlight, Unlocking
  <1>5. ASSUME NEW x \in Mutex, x # m, ~dead'[x] PROVE UnitInv(x)'
    <2>1. UnitInv(x)
      BY <1>2, <1>5 DEF Inv, MutexInv
    <2>2. t \notin InFlight(x, "lock") /\ t \notin Unlocking(x)
      BY <1>2, <1>5 DEF InFlight, Unlocking
    <2>3. SameCarriers(Thread, x)
      BY <1>1, <1>4, <2>2 DEF SameCarriers
    <2>4. SameUnit(x)
      BY <1>3, <1>5 DEF SameUnit
    <2> QED BY <2>1, <2>3, <2>4, UnitFrame
  <1>6. ASSUME ~dead'[m] PROVE UnitInv(m)'
    <2>1. UnitInv(m)
      BY <1>2, <1>6 DEF Inv, MutexInv
    <2>2. count'[m] = 0
      BY <1>2, <2>1 DEF UnitInv, Carriers, TypeInv
    <2>3. \A u \in Thread \ {t} : u \notin Carriers(m)
      BY <2>1 DEF UnitInv, Carriers
    <2>4. \A u \in Thread : owner[m] # u
      BY <2>1 DEF UnitInv, Carriers
    <2>5. \A u \in Thread : u \in Carriers(m)' <=> u = t
      BY <1>1, <1>3, <1>4, <2>3 DEF Carriers, SameCarriers
    <2>6. \A u \in Thread : m \in holds'[u] <=> u = t
      BY <1>3, <2>1, <2>4 DEF UnitInv
    <2>7. \A u \in Thread : owner'[m] = u => u \notin InFlight(m, "lock")' /\ u \notin Unlocking(m)'
      BY <1>3, <1>4
    <2>8. \A u \in Thread : m \in holds'[u] <=> owner'[m] = u
      BY <1>3, <2>6
    <2> QED BY <2>2, <2>5, <2>7, <2>8, UnitWith
  <1>7. MutexInv'
    BY <1>5, <1>6 DEF MutexInv
  <1> QED BY <1>1, <1>2, <1>7 DEF Inv

(* A thread inside mini_os_mutex_lock. *)
LEMMA Locking ==
    ASSUME Inv, NEW t \in Thread, Executes(t), call[t].op = "lock",
           pc[t] \notin {"yield", "yieldPark", "exit"}
    PROVE  /\ call[t].obj \in Mutex /\ call[t].obj \in Obj /\ call[t].obj # Off
           /\ KernelInv(k) /\ TypeInv /\ CallInv(t)
           /\ Runnable(k, t) /\ ~Waiting(k, t)
           /\ count[call[t].obj] \in {0, 1}
  <1>1. /\ KernelInv(k) /\ TypeInv /\ CallInv(t) /\ Runnable(k, t) /\ ~Waiting(k, t)
    BY Executing
  <1>2. call[t].obj \in Mutex
    BY <1>1 DEF CallInv
  <1> QED
    BY <1>1, <1>2, ObjAssumption, SchedAssumption DEF TypeInv, Obj

(* mini_os_mutex_lock returns with the lock. *)
LEMMA LockSucceeds ==
    ASSUME Inv, NEW t \in Thread, Executes(t), call[t].op = "lock", pc[t] \in {"enter", "parked"},
           pc' = [pc EXCEPT ![t] = "app"], call' = [call EXCEPT ![t] = NoCall],
           owner' = [owner EXCEPT ![call[t].obj] = t],
           holds' = [holds EXCEPT ![t] = @ \cup {call[t].obj}],
           UNCHANGED <<app, dead, defunct, orphan>>,
           KernelInv(k'), Kept(k, k'), k'.wait = k.wait,
           \A u \in Thread \ {t} : k'.status[u] = k.status[u],
           \/ /\ count[call[t].obj] > 0 /\ pc[t] # "parked"
              /\ count' = [count EXCEPT ![call[t].obj] = @ - 1]
           \/ count' = count /\ pc[t] = "parked" /\ k.status[t]
    PROVE  Inv'
  <1> DEFINE m == call[t].obj
  <1>1. /\ m \in Mutex /\ m \in Obj /\ KernelInv(k) /\ TypeInv /\ CallInv(t)
        /\ Runnable(k, t) /\ ~Waiting(k, t) /\ count[m] \in {0, 1}
    BY Locking
  <1>2. /\ \A x \in Mutex \ {m} : count'[x] = count[x]
        /\ count' \in [Obj -> Int] /\ \A x \in Mutex : count'[x] \in {0, 1}
        /\ \/ count[m] = 1 /\ count'[m] = 0 /\ pc[t] \notin {"parked", "give"}
           \/ count'[m] = count[m] /\ t \in InFlight(m, "lock")
    <2>1. CASE count[m] > 0 /\ pc[t] # "parked" /\ count' = [count EXCEPT ![m] = @ - 1]
      <3>1. count \in [Obj -> Int] /\ Mutex \subseteq Obj /\ \A x \in Mutex : count[x] \in {0, 1}
        BY <1>1 DEF TypeInv, Obj
      <3>2. count[m] = 1
        BY <1>1, <2>1
      <3>3. count'[m] = 0 /\ count' \in [Obj -> Int] /\ \A x \in Mutex \ {m} : count'[x] = count[x]
        BY <1>1, <2>1, <3>1, <3>2
      <3> QED BY <2>1, <3>1, <3>2, <3>3
    <2>2. CASE count' = count /\ pc[t] = "parked" /\ k.status[t]
      BY <1>1, <2>2 DEF InFlight, TypeInv
    <2> QED BY <2>1, <2>2, Zenon
  <1>3. TypeInv'
    BY <1>1, <1>2, Zenon DEF TypeInv
  <1>4. OthersKept(t)
    BY DEF Kept, OthersKept
  <1>5. WaitInv(t)' /\ Runnable(k', t)
    BY <1>1 DEF Kept, Runnable, WaitInv, Waiting
  <1>6. CallInv(t)'
    BY <1>1, StartedCall, Zenon DEF TypeInv, CallInv
  <1>7. Steps(t, "app", NoCall)
    BY <1>3, <1>4, <1>5, <1>6, Zenon DEF Steps
  <1> QED BY <1>1, <1>2, <1>7, Obtains, Zenon

(* The first section of mini_os_mutex_lock. *)
LEMMA LockInv ==
    ASSUME Inv, NEW t \in Thread \ {Idle}, Lock(t)
    PROVE  Inv'
  <1> DEFINE m == call[t].obj
  <1>1. /\ Executes(t) /\ call[t].op = "lock" /\ pc[t] = "enter"
        /\ UNCHANGED <<app, dead, defunct, orphan>>
    BY Zenon DEF Lock, Inside
  <1>2. /\ m \in Mutex /\ m \in Obj /\ KernelInv(k) /\ TypeInv /\ CallInv(t)
        /\ Runnable(k, t) /\ ~Waiting(k, t) /\ count[m] \in {0, 1}
    BY <1>1, Locking
  <1>3. Kept(k, k)
    BY DEF Kept
  <1>4. CASE /\ count[m] > 0
             /\ count' = [count EXCEPT ![m] = @ - 1]
             /\ owner' = [owner EXCEPT ![m] = t]
             /\ holds' = [holds EXCEPT ![t] = @ \cup {m}]
             /\ Return(t)
             /\ UNCHANGED k
    <2>1. pc' = [pc EXCEPT ![t] = "app"] /\ call' = [call EXCEPT ![t] = NoCall]
      BY <1>4 DEF Return, Goto
    <2> QED
      BY <1>1, <1>2, <1>3, <1>4, <2>1, LockSucceeds, Zenon
  <1>5. CASE Return(t) /\ UNCHANGED <<k, count, owner, holds>>
    <2>1. pc' = [pc EXCEPT ![t] = "app"] /\ call' = [call EXCEPT ![t] = NoCall]
      BY <1>5 DEF Return, Goto
    <2>2. TypeInv' /\ OthersKept(t)
      BY <1>1, <1>2, <1>5, <2>1, Zenon DEF TypeInv, OthersKept
    <2> QED
      BY <1>1, <1>2, <1>5, <2>1, <2>2, CallEnds, Zenon
  <1>6. CASE /\ k' = Propagate(k, owner, waitMutex', owner[m], k.prio[t])
             /\ pc' = [pc EXCEPT ![t] = "take"]
             /\ UNCHANGED <<call, count, owner, holds>>
    <2>1. KernelInv(k') /\ Kept(k, k') /\ k'.wait = k.wait /\ k'.status = k.status
      <3>1. KernelInv(k) /\ k' = Propagate(k, owner, waitMutex', owner[m], k.prio[t])
        BY <1>2, <1>6
      <3> QED BY <3>1, PropagateKeeps
    <2>2. OthersKept(t) /\ WaitInv(t)' /\ Runnable(k', t)
      BY <1>1, <2>1, PlainMoves
    <2>3. TypeInv' /\ call' = [call EXCEPT ![t] = call[t]] /\ pc'[t] = "take"
      BY <1>1, <1>2, <1>6, Zenon DEF TypeInv
    <2>4. CallInv(t)'
      BY <1>1, <1>2, <1>6, <2>3 DEF CallInv
    <2>5. Moves(t, "take", call[t])
      BY <1>1, <1>6, <2>1, <2>2, <2>3, <2>4, Zenon DEF Moves, Steps, SameUnit
    <2> QED BY <2>5, MovesInv
  <1>7. \/ /\ count[m] > 0
           /\ count' = [count EXCEPT ![m] = @ - 1]
           /\ owner' = [owner EXCEPT ![m] = t]
           /\ holds' = [holds EXCEPT ![t] = @ \cup {m}]
           /\ Return(t)
           /\ UNCHANGED k
        \/ Return(t) /\ UNCHANGED <<k, count, owner, holds>>
        \/ /\ k' = Propagate(k, owner, waitMutex', owner[m], k.prio[t])
           /\ pc' = [pc EXCEPT ![t] = "take"]
           /\ UNCHANGED <<call, count, owner, holds>>
    BY Zenon DEF Lock, Goto
  <1> QED BY <1>4, <1>5, <1>6, <1>7

(* The unit leaves the count and is in the hands of the executing thread,  *)
(* which has not become the owner yet.                                     *)
LEMMA InHand ==
    ASSUME Inv, NEW t \in Thread, NEW m \in Mutex, NEW c, pc[t] = "take", c.op = "lock", c.obj = m,
           Steps(t, "parked", c), k'.status[t], count[m] = 1, count'[m] = 0,
           \A x \in Mutex \ {m} : count'[x] = count[x], UNCHANGED <<owner, holds, orphan>>
    PROVE  Inv'
  <1>1. /\ Others({t}) /\ pc'[t] = "parked" /\ call'[t] = c
        /\ ThreadInv' /\ \A x \in Mutex : SameCarriers(Thread \ {t}, x)
    BY StepsInv
  <1>2. TypeInv' /\ KernelInv(k') /\ \A x \in Mutex : dead[x] => dead'[x]
    BY DEF Steps
  <1>3. \A x \in Mutex : /\ t \notin Unlocking(x) /\ t \notin Unlocking(x)' /\ t \notin InFlight(x, "lock")
                         /\ t \in InFlight(x, "lock")' <=> x = m
    BY <1>1 DEF InFlight, Unlocking
  <1>4. ASSUME NEW x \in Mutex, x # m, ~dead'[x] PROVE UnitInv(x)'
    <2>1. UnitInv(x)
      BY <1>2, <1>4 DEF Inv, MutexInv
    <2>2. SameCarriers(Thread, x)
      BY <1>1, <1>3, <1>4 DEF SameCarriers
    <2>3. SameUnit(x)
      BY <1>4 DEF SameUnit
    <2> QED BY <2>1, <2>2, <2>3, UnitFrame
  <1>5. ASSUME ~dead'[m] PROVE UnitInv(m)'
    <2>1. UnitInv(m) /\ \A u \in Thread : u \notin Carriers(m)
      BY <1>2, <1>5 DEF Inv, MutexInv, UnitInv
    <2>2. \A u \in Thread : owner'[m] # u /\ m \notin holds'[u]
      BY <2>1 DEF UnitInv, Carriers
    <2>3. \A u \in Thread : u \in Carriers(m)' <=> u = t
      <3>1. \A u \in Thread \ {t} : u \notin InFlight(m, "lock")' /\ u \notin Unlocking(m)'
        BY <1>1, <2>1 DEF Carriers, SameCarriers
      <3>2. t \in InFlight(m, "lock")'
        BY <1>3
      <3> QED BY <2>2, <3>1, <3>2 DEF Carriers
    <2> QED BY <2>2, <2>3, UnitWith
  <1>6. MutexInv'
    BY <1>4, <1>5 DEF MutexInv
  <1> QED BY <1>1, <1>2, <1>6 DEF Inv

(* The take inside mini_os_mutex_lock: the unit is there, or it parks. *)
LEMMA LockTakeInv ==
    ASSUME Inv, NEW t \in Thread \ {Idle}, LockTake(t)
    PROVE  Inv'
  <1> DEFINE m == call[t].obj
  <1>1. /\ Executes(t) /\ call[t].op = "lock" /\ pc[t] = "take"
        /\ UNCHANGED <<app, owner, dead, defunct, holds, orphan>>
    BY Zenon DEF LockTake, Inside
  <1>2. /\ m \in Mutex /\ m \in Obj /\ m # Off /\ KernelInv(k) /\ TypeInv /\ CallInv(t)
        /\ Runnable(k, t) /\ ~Waiting(k, t) /\ count[m] \in {0, 1}
    BY <1>1, Locking
  <1>3. CASE /\ count[m] > 0 /\ count' = [count EXCEPT ![m] = @ - 1]
             /\ k' = Consume(k, t) /\ pc' = [pc EXCEPT ![t] = "parked"] /\ call' = call
    <2>1. /\ KernelInv(k') /\ Kept(k, k') /\ k'.wait = k.wait /\ k'.state = k.state
          /\ \A u \in Thread \ {t} : k'.status[u] = k.status[u]
      BY <1>2, <1>3, ConsumeKeeps
    <2>2. k'.status[t]
      BY <1>2, <1>3 DEF Consume, KernelInv
    <2>3. OthersKept(t) /\ WaitInv(t)' /\ Runnable(k', t)
      BY <1>1, <2>1, PlainMoves
    <2>4. count \in [Obj -> Int] /\ Mutex \subseteq Obj /\ \A x \in Mutex : count[x] \in {0, 1}
      BY <1>2 DEF TypeInv, Obj
    <2>5. count[m] = 1
      BY <1>2, <1>3
    <2>6. /\ count'[m] = 0 /\ count' \in [Obj -> Int]
          /\ \A x \in Mutex \ {m} : count'[x] = count[x]
          /\ \A x \in Mutex : count'[x] \in {0, 1}
      BY <1>2, <1>3, <2>4, <2>5
    <2>7. TypeInv' /\ call' = [call EXCEPT ![t] = call[t]] /\ pc'[t] = "parked"
      BY <1>1, <1>2, <1>3, <2>6, Zenon DEF TypeInv
    <2>8. CallInv(t)'
      BY <1>1, <1>2, <1>3, <2>7, CallFrame
    <2>9. Steps(t, "parked", call[t])
      BY <1>1, <1>3, <2>1, <2>3, <2>7, <2>8, Zenon DEF Steps
    <2> QED BY <1>1, <1>2, <2>2, <2>5, <2>6, <2>9, InHand
  <1>4. CASE ParkOn(t, m, call[t].arg)
    BY <1>1, <1>2, <1>4, Parks
  <1> QED BY <1>3, <1>4, Zenon DEF LockTake, Goto

(* The end of a parked mini_os_mutex_lock. *)
LEMMA LockParkedInv ==
    ASSUME Inv, NEW t \in Thread \ {Idle}, LockParked(t)
    PROVE  Inv'
  <1> DEFINE m  == call[t].obj
             k1 == Consume(k, t)
             wm == [waitMutex EXCEPT ![t] = NoObj]
  <1>1. /\ Executes(t) /\ call[t].op = "lock" /\ pc[t] = "parked"
        /\ UNCHANGED <<app, count, dead, defunct, orphan>>
        /\ LockEnd(t, k1, k.status[t])
    BY DEF LockParked, Inside
  <1>2. /\ m \in Mutex /\ KernelInv(k) /\ TypeInv /\ Runnable(k, t) /\ ~Waiting(k, t)
    BY <1>1, Locking
  <1>3. /\ KernelInv(k1) /\ Kept(k, k1) /\ k1.wait = k.wait
        /\ \A u \in Thread \ {t} : k1.status[u] = k.status[u]
    BY <1>2, ConsumeKeeps
  <1> HIDE DEF k1
  <1>4. /\ pc' = [pc EXCEPT ![t] = "app"] /\ call' = [call EXCEPT ![t] = NoCall]
        /\ \/ k' = k1
           \/ k' = Recompute(k1, owner', wm, t)
           \/ k' = Recompute(k1, owner, wm, owner[m])
        /\ IF k.status[t]
           THEN owner' = [owner EXCEPT ![m] = t] /\ holds' = [holds EXCEPT ![t] = @ \cup {m}]
           ELSE UNCHANGED <<owner, holds>>
    BY <1>1 DEF LockEnd, Return, Goto
  <1> HIDE DEF wm
  <1>5. /\ KernelInv(k') /\ Kept(k, k') /\ k'.wait = k.wait
        /\ \A u \in Thread \ {t} : k'.status[u] = k.status[u]
    <2>1. CASE k' = k1
      BY <1>3, <2>1
    <2>2. CASE k' = Recompute(k1, owner', wm, t) \/ k' = Recompute(k1, owner, wm, owner[m])
      <3>1. KernelInv(k') /\ Kept(k1, k') /\ k'.wait = k1.wait /\ k'.status = k1.status
        <4>1. KernelInv(k1)
          BY <1>3
        <4> QED BY <2>2, <4>1, RecomputeKeeps
      <3> QED BY <1>3, <3>1 DEF Kept
    <2> QED BY <1>4, <2>1, <2>2
  <1>6. CASE k.status[t]
    BY <1>1, <1>4, <1>5, <1>6, LockSucceeds, Zenon
  <1>7. CASE ~k.status[t]
    <2>1. OthersKept(t) /\ Runnable(k', t) /\ ~Waiting(k', t)
      BY <1>2, <1>5 DEF Kept, OthersKept, Runnable, Waiting
    <2>2. TypeInv'
      BY <1>1, <1>2, <1>4, <1>7, Zenon DEF TypeInv
    <2> QED
      BY <1>1, <1>4, <1>5, <1>7, <2>1, <2>2, CallEnds, Zenon
  <1> QED BY <1>6, <1>7

(* mini_os_mutex_unlock up to its irq_restore: the unit leaves the owner   *)
(* and is with the unlock call.                                            *)
LEMMA UnlockInv ==
    ASSUME Inv, NEW t \in Thread \ {Idle}, Unlock(t)
    PROVE  Inv'
  <1>1. PICK c \in Calls(t, "unlock") :
          /\ Executes(t) /\ pc[t] = "app" /\ owner[c.obj] = t
          /\ \/ UNCHANGED <<k, pc, call, owner, holds>>
             \/ /\ owner' = [owner EXCEPT ![c.obj] = NoThread]
                /\ holds' = [holds EXCEPT ![t] = @ \ {c.obj}]
                /\ k' = Recompute(k, owner', waitMutex, t)
                /\ call' = [call EXCEPT ![t] = Started(c)]
                /\ pc' = [pc EXCEPT ![t] = "give"]
          /\ UNCHANGED <<app, waitMutex, count, refs, dead, defunct, orphan>>
    BY DEF Unlock, Goto
  <1> DEFINE m == c.obj
  <1>2. /\ KernelInv(k) /\ TypeInv /\ CallInv(t) /\ Runnable(k, t) /\ ~Waiting(k, t)
    BY <1>1, Executing
  <1>3. m \in Mutex /\ c.op = "unlock"
    BY <1>1, <1>2, TypedCalls, Zenon DEF Calls
  <1>4. CASE UNCHANGED <<k, pc, call, owner, holds>>
    BY <1>1, <1>4, StutterInv, Zenon
  <1>5. CASE /\ owner' = [owner EXCEPT ![m] = NoThread]
             /\ holds' = [holds EXCEPT ![t] = @ \ {m}]
             /\ k' = Recompute(k, owner', waitMutex, t)
             /\ call' = [call EXCEPT ![t] = Started(c)]
             /\ pc' = [pc EXCEPT ![t] = "give"]
    <2>1. KernelInv(k') /\ Kept(k, k') /\ k'.wait = k.wait /\ k'.status = k.status
      <3>1. KernelInv(k) /\ k' = Recompute(k, owner', waitMutex, t)
        BY <1>2, <1>5
      <3> QED BY <3>1, RecomputeKeeps
    <2>2. OthersKept(t) /\ WaitInv(t)' /\ Runnable(k', t)
      BY <1>1, <2>1, PlainMoves, Zenon
    <2>3. TypeInv' /\ pc'[t] = "give" /\ call'[t] = Started(c)
      BY <1>1, <1>2, <1>5 DEF TypeInv
    <2>4. CallInv(t)'
      BY <1>3, <2>3, StartedCall, Zenon DEF CallInv
    <2>5. Steps(t, "give", Started(c))
      BY <1>1, <1>5, <2>1, <2>2, <2>3, <2>4, Zenon DEF Steps
    <2>6. Others({t}) /\ ThreadInv' /\ \A x \in Mutex : SameCarriers(Thread \ {t}, x)
      BY <2>5, StepsInv, Zenon
    <2>7. /\ \A x \in Mutex : owner'[x] = IF x = m THEN NoThread ELSE owner[x]
          /\ \A x \in Mutex, u \in Thread : x \in holds'[u] <=> x \in holds[u] /\ ~(x = m /\ u = t)
      BY <1>2, <1>3, <1>5 DEF TypeInv
    <2>8. \A x \in Mutex : /\ t \notin InFlight(x, "lock") /\ t \notin InFlight(x, "lock")'
                           /\ t \notin Unlocking(x) /\ (t \in Unlocking(x)' <=> x = m)
      BY <1>1, <2>3, StartedCall, Zenon DEF InFlight, Unlocking
    <2>9. ASSUME NEW x \in Mutex, x # m, ~dead'[x] PROVE UnitInv(x)'
      <3>1. UnitInv(x)
        BY <1>1, <2>9 DEF Inv, MutexInv
      <3>2. SameCarriers(Thread, x)
        BY <2>6, <2>8, <2>9 DEF SameCarriers
      <3>3. SameUnit(x)
        BY <1>1, <2>7, <2>9, Zenon DEF SameUnit
      <3> QED BY <3>1, <3>2, <3>3, UnitFrame
    <2>10. ASSUME ~dead'[m] PROVE UnitInv(m)'
      <3>1. UnitInv(m)
        BY <1>1, <1>3, <2>10 DEF Inv, MutexInv
      <3>2. count'[m] = 0
        BY <1>1, <1>2, <1>3, <3>1 DEF UnitInv, Carriers, TypeInv
      <3>3. \A u \in Thread : owner'[m] # u
        BY <1>3, <2>7, SchedAssumption
      <3>4. \A u \in Thread : u \in Carriers(m)' <=> u = t
        <4>1. \A u \in Thread \ {t} : u \notin Carriers(m)
          BY <1>1, <3>1, Zenon DEF UnitInv, Carriers
        <4> QED BY <1>3, <2>6, <2>8, <3>3, <4>1 DEF Carriers, SameCarriers
      <3>5. \A u \in Thread : m \notin holds'[u]
        BY <1>1, <1>3, <2>7, <3>1, Zenon DEF UnitInv
      <3>6. \A u \in Thread : m \in holds'[u] <=> owner'[m] = u
        BY <3>3, <3>5
      <3> QED BY <1>3, <3>2, <3>3, <3>4, <3>6, UnitWith
    <2>11. MutexInv'
      BY <2>9, <2>10 DEF MutexInv
    <2> QED BY <2>1, <2>3, <2>6, <2>11 DEF Inv
  <1> QED BY <1>1, <1>4, <1>5

(* mini_os_semaphore_give on a semaphore. *)
LEMMA GiveSemInv ==
    ASSUME Inv, NEW t \in Thread \ {Idle}, NEW o \in Sem, NEW l \in {"app", "yield"},
           Executes(t), pc[t] = "app", GiveUnit(o), k' = WakeOne(k, o),
           pc' = [pc EXCEPT ![t] = l], call' = [call EXCEPT ![t] = NoCall],
           UNCHANGED <<app, owner, dead, defunct, holds, orphan>>
    PROVE  Inv'
  <1>1. /\ KernelInv(k) /\ TypeInv /\ Runnable(k, t) /\ ~Waiting(k, t)
    BY Executing
  <1>2. o \notin Mutex /\ o # Off /\ o \in Obj
    BY ObjAssumption, SchedAssumption DEF Obj
  <1>3. Kept(k, k)
    BY DEF Kept
  <1>4. KernelInv(k') /\ Kept(k, k') /\ OthersKept(t) /\ ~Waiting(k', t)
    BY <1>1, <1>2, <1>3, WakeOneOthers
  <1>5. Runnable(k', t)
    BY <1>1, <1>4 DEF Kept, Runnable
  <1>6. count' \in [Obj -> Int] /\ \A m \in Mutex : count'[m] = count[m]
    <2>1. count' \in {count, [count EXCEPT ![o] = @ + 1], [count EXCEPT ![o] = @ - 1]}
      BY DEF GiveUnit
    <2> QED BY <1>1, <1>2, <2>1, 1 \in Int, CountOther
  <1>7. TypeInv'
    BY <1>1, <1>6, Zenon DEF TypeInv
  <1> QED BY <1>4, <1>5, <1>6, <1>7, CallEnds, Zenon

(* mini_os_semaphore_give in an unlock: the unit goes to the oldest waiter *)
(* or back to the count.                                                   *)
LEMMA GiveMutexInv ==
    ASSUME Inv, NEW t \in Thread \ {Idle}, NEW m \in Mutex, NEW l \in {"app", "yield"},
           Executes(t), pc[t] = "give", call[t].obj = m, GiveUnit(m), k' = WakeOne(k, m),
           pc' = [pc EXCEPT ![t] = l], call' = [call EXCEPT ![t] = NoCall],
           UNCHANGED <<app, owner, dead, defunct, holds, orphan>>
    PROVE  Inv'
  <1>1. /\ KernelInv(k) /\ TypeInv /\ CallInv(t) /\ Runnable(k, t) /\ ~Waiting(k, t)
    BY Executing
  <1>2. m # Off /\ m \in Obj /\ Mutex \subseteq Obj /\ count[m] \in {0, 1}
    BY <1>1, ObjAssumption, SchedAssumption DEF Obj, TypeInv
  <1>3. /\ KernelInv(k') /\ Kept(k, k')
        /\ \E G \in SUBSET Thread : Woken(k, k', m, G)
    BY <1>1, <1>2, WakeOneKeeps, Zenon
  <1>4. PICK G \in SUBSET Thread : Woken(k, k', m, G)
    BY <1>3
  <1>5. \A u \in G : Waiting(k, u) /\ WaitInv(u) /\ CallInv(u)
                     /\ pc[u] \in {"yieldPark", "parked"} /\ call[u].op = "lock" /\ call[u].obj = m
    <2> SUFFICES ASSUME NEW u \in G
                 PROVE  Waiting(k, u) /\ WaitInv(u) /\ CallInv(u)
                        /\ pc[u] \in {"yieldPark", "parked"} /\ call[u].op = "lock" /\ call[u].obj = m
      OBVIOUS
    <2>1. WaitInv(u) /\ CallInv(u) /\ k.wait.on[u] = m
      BY <1>4, Zenon DEF Inv, ThreadInv, Woken
    <2> QED BY <1>2, <2>1, Zenon DEF WaitInv, Waiting
  <1>6. t \notin G
    BY <1>1, <1>5
  <1>7. /\ pc'[t] = l /\ call'[t] = NoCall
        /\ \A u \in Thread \ {t} : pc'[u] = pc[u] /\ call'[u] = call[u]
    BY <1>1 DEF TypeInv
  <1>8. /\ \A x \in Mutex \ {m} : count'[x] = count[x]
        /\ count' \in [Obj -> Int]
        /\ count'[m] = IF Empty(k.wait, m) THEN 1 ELSE count[m]
    <2>1. count \in [Obj -> Int]
      BY <1>1 DEF TypeInv
    <2>2. MaxCount(m) = 1
      BY DEF MaxCount
    <2>3. count' = IF Empty(k.wait, m) /\ count[m] < 1 THEN [count EXCEPT ![m] = @ + 1] ELSE count
      BY <2>2 DEF GiveUnit
    <2> QED BY <1>2, <2>1, <2>3
  <1>9. TypeInv'
    BY <1>1, <1>2, <1>8, Zenon DEF TypeInv
  <1> DEFINE X == {t} \cup G
  <1>10. Others(X)
    <2>1. \A u \in Thread :
            k.state[u] \in {"SUSPENDED", "TERMINATED", "FREED"} => k'.state[u] = k.state[u]
      BY <1>3, Zenon DEF Kept
    <2>2. ASSUME NEW u \in Thread \ X
          PROVE  /\ k.state[u] # "BLOCKED" => k'.state[u] = k.state[u]
                 /\ pc'[u] = pc[u] /\ IsCall(call'[u])
                 /\ call'[u].op = call[u].op /\ call'[u].obj = call[u].obj
                 /\ k'.wait.on[u] \in {k.wait.on[u], Off}
                 /\ k'.status[u] = k.status[u]
      BY <1>3, <1>4, <1>7, Zenon DEF Kept, Woken, Inv, ThreadInv, CallInv
    <2>3. ASSUME NEW u \in X PROVE CallInv(u)'
      <3>1. CASE u = t
        BY <1>7, <3>1, StartedCall, Zenon DEF CallInv
      <3>2. CASE u \in G
        <4>1. /\ CallInv(u) /\ pc'[u] = pc[u] /\ call'[u] = call[u]
              /\ pc[u] \notin {"give", "delete", "resume"}
          BY <1>5, <1>6, <1>7, <3>2
        <4> QED BY <4>1, Zenon DEF CallInv
      <3> QED BY <3>1, <3>2
    <2>4. \A u \in X : ~Waiting(k', u)
      BY <1>1, <1>4, Zenon DEF Waiting, Woken
    <2>5. \A u \in X : WaitInv(u)'
      BY <2>4, Zenon DEF WaitInv
    <2>6. Runnable(k', t)
      BY <1>1, <1>3 DEF Kept, Runnable
    <2>7. \A u \in X : /\ k'.current = u => u = t
                       /\ pc'[u] # "resume"
      BY <1>3, <1>5, <1>6, <1>7 DEF Kept, Executes
    <2> QED
      BY <1>3, <1>9, <2>1, <2>2, <2>3, <2>5, <2>6, <2>7, Zenon DEF Others, Kept, Runnable
  <1>11. ThreadInv' /\ \A x \in Mutex : SameCarriers(Thread \ X, x)
    BY <1>10, OthersInv
  <1>12. \A x \in Mutex : t \notin InFlight(x, "lock") /\ t \notin InFlight(x, "lock")' /\ t \notin Unlocking(x)'
    BY <1>7 DEF InFlight, Unlocking
  <1>13. \A x \in Mutex : t \in Unlocking(x) <=> x = m
    BY DEF Unlocking
  <1>14. \A x \in Mutex : \A u \in G : /\ u \notin InFlight(x, "lock") /\ (u \in InFlight(x, "lock")' <=> x = m)
                                       /\ u \notin Unlocking(x) /\ u \notin Unlocking(x)'
    <2> SUFFICES ASSUME NEW x \in Mutex, NEW u \in G
                 PROVE  /\ u \notin InFlight(x, "lock") /\ (u \in InFlight(x, "lock")' <=> x = m)
                        /\ u \notin Unlocking(x) /\ u \notin Unlocking(x)'
      OBVIOUS
    <2>1. k'.status[u] /\ ~k.status[u]
      BY <1>4, <1>5, Zenon DEF Woken, WaitInv
    <2>2. /\ pc'[u] = pc[u] /\ call'[u] = call[u]
          /\ pc[u] \in {"yieldPark", "parked"} /\ call[u].op = "lock" /\ call[u].obj = m
      BY <1>5, <1>6, <1>7
    <2> QED BY <2>1, <2>2 DEF InFlight, Unlocking
  <1>15. ASSUME NEW x \in Mutex, x # m, ~dead'[x] PROVE UnitInv(x)'
    <2>1. UnitInv(x)
      BY <1>15, Zenon DEF Inv, MutexInv
    <2>2. SameCarriers(Thread, x)
      BY <1>11, <1>12, <1>13, <1>14, <1>15, Zenon DEF SameCarriers
    <2>3. SameUnit(x)
      BY <1>8, <1>15 DEF SameUnit
    <2> QED BY <2>1, <2>2, <2>3, UnitFrame
  <1>16. ASSUME ~dead'[m] PROVE UnitInv(m)'
    <2>1. UnitInv(m)
      BY <1>16, Zenon DEF Inv, MutexInv
    <2>2. count[m] = 0 /\ \A u \in Thread \ {t} : u \notin Carriers(m)
      BY <1>2, <1>13, <2>1, Zenon DEF UnitInv, Carriers
    <2>3. \A u \in Thread : owner[m] # u /\ owner'[m] # u
      BY <1>13, <2>1, <2>2, Zenon DEF UnitInv, Carriers
    <2>4. \A u \in Thread : u \in Carriers(m)' <=> u \in G
      <3> SUFFICES ASSUME NEW u \in Thread PROVE u \in Carriers(m)' <=> u \in G
        OBVIOUS
      <3>1. CASE u = t
        BY <1>6, <1>12, <2>3, <3>1, Zenon DEF Carriers
      <3>2. CASE u \in G
        BY <1>14, <3>2 DEF Carriers
      <3>3. CASE u \notin X
        <4>1. u \notin InFlight(m, "lock") /\ u \notin Unlocking(m)
          BY <2>2, <3>3, Zenon DEF Carriers
        <4> QED BY <1>11, <2>3, <3>3, <4>1, Zenon DEF Carriers, SameCarriers
      <3> QED BY <3>1, <3>2, <3>3
    <2>5. \A u \in Thread : m \notin holds'[u]
      BY <2>1, <2>3 DEF UnitInv
    <2>6. CASE Empty(k.wait, m)
      <3>1. G = {}
        BY <1>4, <2>6, Zenon DEF Woken
      <3>2. count'[m] = 1
        BY <1>8, <2>6, Zenon
      <3> QED BY <2>4, <2>5, <3>1, <3>2, UnitFree, Zenon
    <2>7. CASE ~Empty(k.wait, m)
      <3>1. PICK h \in Thread : G = {h}
        BY <1>4, <2>7, Zenon DEF Woken
      <3>2. count'[m] = 0
        BY <1>8, <2>2, <2>7, Zenon
      <3>3. \A u \in Thread : u \in Carriers(m)' <=> u = h
        BY <2>4, <3>1
      <3> QED BY <2>3, <2>5, <3>2, <3>3, UnitWith, Zenon
    <2> QED BY <2>6, <2>7
  <1>17. MutexInv'
    BY <1>15, <1>16 DEF MutexInv
  <1> QED BY <1>3, <1>9, <1>11, <1>17 DEF Inv

(* mini_os_semaphore_give, on its own and as the end of an unlock. *)
LEMMA GiveInv ==
    ASSUME Inv, NEW t \in Thread \ {Idle}, Give(t)
    PROVE  Inv'
  <1>1. PICK o \in Mutex \cup Sem :
          /\ Executes(t)
          /\ \/ pc[t] = "give" /\ call[t].obj = o
             \/ pc[t] = "app" /\ \E c \in Calls(t, "give") : c.obj = o /\ ~dead[o]
          /\ GiveUnit(o)
          /\ k' = WakeOne(k, o)
          /\ pc' = [pc EXCEPT ![t] = IF ~Empty(k.wait, o) THEN "yield" ELSE "app"]
          /\ call' = [call EXCEPT ![t] = NoCall]
          /\ UNCHANGED <<app, waitMutex, owner, depth, refs, dead, defunct, holds, orphan>>
    BY Zenon DEF Give, Goto
  <1> DEFINE l == IF ~Empty(k.wait, o) THEN "yield" ELSE "app"
  <1>2. l \in {"app", "yield"} /\ pc' = [pc EXCEPT ![t] = l]
    BY <1>1, Zenon
  <1>3. CallInv(t) /\ TypeInv
    BY DEF Inv, ThreadInv
  <1> HIDE DEF l
  <1>4. CASE pc[t] = "give" /\ call[t].obj = o
    <2>1. o \in Mutex
      BY <1>3, <1>4, Zenon DEF CallInv
    <2> QED BY <1>1, <1>2, <1>4, <2>1, GiveMutexInv, Zenon
  <1>5. CASE pc[t] = "app" /\ \E c \in Calls(t, "give") : c.obj = o
    <2>1. o \in Sem
      BY <1>3, <1>5, TypedCalls, Zenon
    <2> QED BY <1>1, <1>2, <1>5, <2>1, GiveSemInv, Zenon
  <1> QED BY <1>1, <1>4, <1>5, Zenon
=============================================================================
