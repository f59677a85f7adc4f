--------------------------- MODULE MiniOs_proofs ----------------------------
(***************************************************************************)
(* Mutual exclusion of the mini-os mutex, for every number of threads,     *)
(* priorities, wheel slots, objects and programs.                          *)
(***************************************************************************)
EXTENDS MiniOsSync_proofs, WellFoundedInduction

(* The bitmap scan finds a level whenever a bit is set. *)
LEMMA LeastPriority ==
    ASSUME NEW S \in SUBSET Prio, S # {}
    PROVE  Min(S) \in S
  <1>1. S \subseteq Nat
    BY SchedAssumption DEF Prio
  <1> DEFINE R == {ss \in Nat \X Nat : ss[1] < ss[2]}
  <1>2. IsWellFoundedOn(R, Nat)
    BY NatLessThanWellFounded, Zenon DEF OpToRel
  <1> HIDE DEF R
  <1>3. PICK n \in S : \A m \in S : ~(<<m, n>> \in R)
    BY <1>1, <1>2, WFMin, Zenon
  <1>4. ASSUME NEW m \in S PROVE n <= m
    <2>1. n \in Nat /\ m \in Nat
      BY <1>1
    <2>2. m < n => <<m, n>> \in R
      BY <2>1 DEF R
    <2> QED BY <1>3, <2>1, <2>2
  <1> QED BY <1>4 DEF Min

(* mini_os_schedule_switch: what it selects is linked in a level, so it is *)
(* runnable, unless it is a sentinel.                                      *)
LEMMA SwitchKeeps ==
    ASSUME NEW kk, KernelInv(kk)
    PROVE  LET kn == Switch(kk)
           IN /\ KernelInv(kn) /\ kn.wait = kk.wait /\ kn.status = kk.status
              /\ kn.current \in Thread => Runnable(kn, kn.current)
              /\ \A t \in Thread : ~Runnable(kk, t) => kn.state[t] = kk.state[t]
  <1> DEFINE out  == IF kk.current \in Thread /\ kk.state[kk.current] = "RUNNING"
                     THEN [kk EXCEPT !.state[kk.current] = "READY", !.pend = FALSE]
                     ELSE [kk EXCEPT !.pend = FALSE]
             np   == Highest(kk)
             next == IF kk.current \in Thread /\ np = kk.served /\ out.state[kk.current] = "READY"
                     THEN Successor(kk, np)
                     ELSE LevelHead(kk, np)
             kn   == [out EXCEPT !.served = np, !.current = next,
                                 !.state = [t \in Thread |-> IF t = next THEN "RUNNING" ELSE @[t]]]
  <1>1. kk.bitmap # {}
    BY SchedAssumption DEF KernelInv
  <1>2. kn = Switch(kk)
    BY <1>1 DEF Switch
  <1>3. /\ Shape(out) /\ out.slot = kk.slot /\ out.wait = kk.wait /\ out.wheel = kk.wheel
        /\ out.ready = kk.ready /\ out.bitmap = kk.bitmap /\ out.prio = kk.prio
        /\ out.status = kk.status /\ out.pend = FALSE
        /\ out.state \in [Thread -> States]
        /\ \A t \in Thread :
             out.state[t] = IF t = kk.current /\ kk.state[t] = "RUNNING" THEN "READY" ELSE kk.state[t]
    BY Zenon DEF KernelInv, Shape, Fields, States
  <1>4. \A t \in Thread : kk.ready.on[t] # Off => Runnable(kk, t)
    BY DEF KernelInv
  <1>5. np \in Prio
    BY <1>1, LeastPriority DEF KernelInv, Highest
  <1>6. np # Off
    BY <1>5, SchedAssumption DEF Prio
  <1> HIDE DEF np, out
  <1>7. LevelHead(kk, np) \in Thread => Runnable(kk, LevelHead(kk, np))
    BY <1>4, <1>6, SchedAssumption DEF LevelHead, Empty, First, Members
  <1>8. kk.current \in Thread /\ out.state[kk.current] = "READY"
          => (Successor(kk, np) \in Thread => Runnable(kk, Successor(kk, np)))
    <2> SUFFICES ASSUME kk.current \in Thread, out.state[kk.current] = "READY", Successor(kk, np) \in Thread
                 PROVE  Runnable(kk, Successor(kk, np))
      OBVIOUS
    <2>1. kk.ready.on[kk.current] # Off
      BY <1>3, SchedAssumption DEF KernelInv, Runnable, Prio
    <2>2. CASE After(kk.ready, kk.current) # {}
      BY <1>4, <2>1, <2>2 DEF Successor, After, Members
    <2>3. CASE After(kk.ready, kk.current) = {}
      BY <1>7, <2>3, SchedAssumption DEF Successor
    <2> QED BY <2>2, <2>3
  <1>9. next \in Thread => Runnable(kk, next)
    BY <1>7, <1>8
  <1> HIDE DEF next
  <1>10. /\ Shape(kn) /\ kn.slot = kk.slot /\ kn.wait = kk.wait /\ kn.wheel = kk.wheel
         /\ kn.ready = kk.ready /\ kn.bitmap = kk.bitmap /\ kn.prio = kk.prio
         /\ kn.status = kk.status /\ kn.pend = FALSE /\ kn.pend \in BOOLEAN /\ kn.current = next
         /\ kn.state = [t \in Thread |-> IF t = next THEN "RUNNING" ELSE out.state[t]]
    BY <1>3, Zenon DEF Shape, Fields
  <1> HIDE DEF kn
  <1>11. \A t \in Thread : Runnable(kn, t) <=> Runnable(kk, t)
    BY <1>3, <1>9, <1>10 DEF Runnable
  <1>12. \A t \in Thread : ~Runnable(kk, t) => kn.state[t] = kk.state[t]
    BY <1>3, <1>9, <1>10 DEF Runnable
  <1>13. kn.state \in [Thread -> States]
    BY <1>3, <1>10 DEF States
  <1>14. \A t \in Thread : Waiting(kn, t) \/ InWheel(kn, t) => kn.state[t] = "BLOCKED"
    BY <1>10, <1>12 DEF KernelInv, Waiting, InWheel, Runnable
  <1>15. /\ kn.status \in [Thread -> BOOLEAN] /\ kn.prio \in [Thread -> Prio]
         /\ kn.slot \in Nat /\ kn.bitmap \subseteq Prio /\ Runnable(kn, Idle)
         /\ \A t \in Thread :
              /\ kn.ready.on[t] = IF Runnable(kn, t) THEN kn.prio[t] ELSE Off
              /\ Runnable(kn, t) => kn.prio[t] \in kn.bitmap
    BY <1>10, <1>11, SchedAssumption DEF KernelInv
  <1>16. KernelInv(kn)
    BY <1>10, <1>13, <1>14, <1>15 DEF KernelInv
  <1> QED BY <1>2, <1>9, <1>10, <1>11, <1>12, <1>16

(* mini_os_thread_suspend: the thread leaves every list, and a wait it was *)
(* in has failed.                                                          *)
LEMMA SuspendInv ==
    ASSUME Inv, NEW t \in Thread \ {Idle}, Suspend(t)
    PROVE  Inv'
  <1>1. PICK c \in Calls(t, "suspend") :
          /\ Executes(t) /\ pc[t] = "app"
          /\ k.state[c.obj] \in {"READY", "RUNNING", "BLOCKED"}
          /\ k' = Recompute(SuspendLists(k, c.obj), owner, waitMutex', BoostedBy(c.obj))
          /\ pc' = [pc EXCEPT ![t] = IF c.obj = t THEN "yield" ELSE "app"]
          /\ UNCHANGED <<app, call, count, owner, dead, defunct, holds, orphan>>
    BY Zenon DEF Suspend, Goto, objs
  <1> DEFINE x  == c.obj
             k1 == SuspendLists(k, x)
  <1>2. /\ CallInv(t) /\ KernelInv(k) /\ TypeInv /\ Runnable(k, t) /\ ~Waiting(k, t)
    BY <1>1, Executing
  <1>3. x \in Thread \ {Idle} /\ CallInv(x) /\ WaitInv(x) /\ RunInv(x)
    BY <1>2, TypedCalls DEF Inv, ThreadInv
  <1>4. /\ KernelInv(k1)
        /\ k1.current = k.current /\ k1.pend = k.pend
        /\ k1.state = [k.state EXCEPT ![x] = "SUSPENDED"]
        /\ \A u \in Thread :
             /\ k1.wait.on[u] = IF u = x THEN Off ELSE k.wait.on[u]
             /\ k1.status[u] = IF u = x /\ Waiting(k, x) THEN FALSE ELSE k.status[u]
    BY <1>2, <1>3, SuspendKeeps, Zenon
  <1> HIDE DEF k1
  <1>5. KernelInv(k') /\ Kept(k1, k') /\ k'.wait = k1.wait /\ k'.status = k1.status
    BY <1>1, <1>4, RecomputeKeeps DEF k1
  <1>6. \A u \in Thread \ {x} : k1.state[u] = k.state[u]
    BY <1>2, <1>4 DEF KernelInv
  <1>7. k'.current = k.current /\ (k.pend => k'.pend)
        /\ \A u \in Thread \ {x} : k.state[u] # "BLOCKED" => k'.state[u] = k.state[u]
    BY <1>4, <1>5, <1>6 DEF Kept
  <1>8. ~Waiting(k', x) /\ \A u \in Thread : k'.wait.on[u] \in {k.wait.on[u], Off}
    BY <1>3, <1>4, <1>5, Zenon DEF Waiting
  <1>9. \A u \in Thread : k'.status[u] <=> k.status[u]
    BY <1>3, <1>4, <1>5, Zenon DEF WaitInv
  <1>10. \A u \in Thread \ {x} : k'.status[u] = k.status[u]
    BY <1>4, <1>5, Zenon
  <1>11. /\ pc'[t] = IF x = t THEN "yield" ELSE "app"
         /\ \A u \in Thread \ {t} : pc'[u] = pc[u]
         /\ \A u \in Thread : IsCall(call[u])
    BY <1>1, <1>2 DEF TypeInv, Inv, ThreadInv, CallInv
  <1>12. TypeInv'
    BY <1>1, <1>2, Zenon DEF TypeInv
  <1> HIDE DEF x
  <1>13. \A u \in {t, x} : CallInv(u)' /\ WaitInv(u)'
    <2>1. CallInv(t)' /\ (x # t => CallInv(x)')
      <3>1. app' = app /\ call' = call /\ CallInv(t) /\ CallInv(x)
        BY <1>1, <1>2, <1>3
      <3>2. /\ pc'[t] \notin {"give", "delete", "resume"}
            /\ x # t => pc'[x] = pc[x]
        BY <1>3, <1>11
      <3> QED BY <3>1, <3>2, CallFrame
    <2>2. WaitInv(x)' /\ ~Waiting(k', t)
      BY <1>2, <1>8 DEF WaitInv, Waiting
    <2> QED BY <2>1, <2>2 DEF WaitInv
  <1>14. \A u \in {t, x} :
           /\ k'.current = u /\ ~k'.pend /\ pc'[u] \notin {"yield", "yieldPark", "exit"} => Runnable(k', u)
           /\ pc'[u] = "resume" => /\ k.state[call'[u].obj] \in {"SUSPENDED", "FREED"}
                                   /\ call'[u].obj \notin defunct
    <2>1. x # t => Runnable(k', t)
      BY <1>2, <1>7 DEF Runnable
    <2>2. k'.current = t
      BY <1>1, <1>7 DEF Executes
    <2> QED BY <1>1, <1>3, <1>11, <2>1, <2>2 DEF RunInv
  <1>15. \A u \in Thread :
            k.state[u] \in {"SUSPENDED", "TERMINATED", "FREED"} => k'.state[u] = k.state[u]
    BY <1>1, <1>7 DEF x
  <1>16. {t, x} \in SUBSET Thread
    BY <1>3
  <1>17. Others({t, x})
    BY <1>1, <1>5, <1>7, <1>8, <1>10, <1>11, <1>12, <1>13, <1>14, <1>15, Zenon DEF Others, Runnable
  <1>18. \A m \in Mutex : SameUnit(m) /\ SameCarriers({t, x}, m)
    <2>1. UNCHANGED <<count, owner, holds, orphan>> /\ call' = call /\ pc[t] = "app"
      BY <1>1
    <2>2. \A m \in Mutex : SameUnit(m)
      BY <2>1, UnitsStand
    <2>3. \A u \in {t, x} : /\ k'.status[u] <=> k.status[u]
                           /\ \/ pc'[u] = pc[u]
                              \/ /\ pc[u] \notin {"give", "yieldPark", "parked"}
                                 /\ pc'[u] \notin {"give", "yieldPark", "parked"}
      BY <1>3, <1>9, <1>11, <2>1
    <2>4. \A m \in Mutex : SameCarriers({t, x}, m)
      BY <1>16, <2>1, <2>3, CarriersFrame
    <2> QED BY <2>2, <2>4
  <1> QED BY <1>16, <1>17, <1>18, QuietInv

(* The section of mini_os_thread_resume.  With one resumer per thread the  *)
(* state is still the one that was checked.                                *)
LEMMA ResumeInv ==
    ASSUME Inv, SingleResumer, NEW t \in Thread \ {Idle}, Resume(t)
    PROVE  Inv'
  <1> DEFINE x == call[t].obj
  <1>1. /\ Executes(t) /\ pc[t] = "resume" /\ k' = ResumeLists(k, x)
        /\ call' = [call EXCEPT ![t] = NoCall] /\ pc' = [pc EXCEPT ![t] = "app"]
        /\ UNCHANGED <<app, count, owner, dead, defunct, holds, orphan>>
    BY DEF Resume, Goto, objs
  <1>2. /\ CallInv(t) /\ RunInv(t) /\ KernelInv(k) /\ TypeInv /\ Runnable(k, t) /\ ~Waiting(k, t)
    BY <1>1, Executing
  <1>3. /\ x \in Thread \ {Idle} /\ k.state[x] \in {"SUSPENDED", "FREED"} /\ x \notin defunct
        /\ \E c \in Calls(t, "resume") : c.obj = x
    BY <1>1, <1>2 DEF CallInv, RunInv
  <1> HIDE DEF x
  <1>4. /\ KernelInv(k') /\ k'.wait = k.wait /\ k'.status = k.status
        /\ k'.current = k.current /\ k'.pend = k.pend
        /\ \A u \in Thread \ {x} : k'.state[u] = k.state[u]
    BY <1>1, <1>2, <1>3, ResumeKeeps
  <1>5. /\ pc'[t] = "app" /\ call'[t] = NoCall
        /\ \A u \in Thread \ {t} : pc'[u] = pc[u] /\ call'[u] = call[u]
    BY <1>1, <1>2 DEF TypeInv
  <1>6. TypeInv'
    BY <1>1, <1>2, Zenon DEF TypeInv
  <1>7. ASSUME NEW u \in Thread PROVE CallInv(u)' /\ WaitInv(u)' /\ RunInv(u)'
    <2>1. CallInv(u) /\ WaitInv(u) /\ RunInv(u)
      BY DEF Inv, ThreadInv
    <2>2. CallInv(u)'
      BY <1>1, <1>5, <2>1, StartedCall DEF CallInv, Calls
    <2>3. WaitInv(u)'
      BY <1>2, <1>4, <1>5, <2>1 DEF WaitInv, Waiting
    <2>4. k'.current = u /\ ~k'.pend /\ pc'[u] \notin {"yield", "yieldPark", "exit"} => Runnable(k', u)
      <3>1. x # t
        BY <1>2, <1>3 DEF Runnable
      <3>2. Runnable(k', t)
        BY <1>2, <1>4, <3>1 DEF Runnable
      <3> QED BY <1>1, <1>4, <3>2 DEF Executes
    <2>5. ASSUME pc'[u] = "resume"
          PROVE  k'.state[call'[u].obj] \in {"SUSPENDED", "FREED"} /\ call'[u].obj \notin defunct'
      <3>1. u # t /\ pc[u] = "resume" /\ call'[u] = call[u]
        BY <1>5, <2>5
      <3>2. /\ call[u].obj \in Thread /\ k.state[call[u].obj] \in {"SUSPENDED", "FREED"}
            /\ call[u].obj \notin defunct /\ \E d \in Calls(u, "resume") : d.obj = call[u].obj
        BY <2>1, <3>1 DEF CallInv, RunInv
      <3>3. call[u].obj # x
        BY <1>2, <1>3, <3>1, <3>2 DEF SingleResumer, Calls, TypeInv
      <3> QED BY <1>1, <1>4, <3>1, <3>2, <3>3
    <2>6. u \in defunct' => k'.state[u] \in {"TERMINATED", "FREED"}
      BY <1>1, <1>3, <1>4, <2>1 DEF RunInv
    <2> QED BY <2>2, <2>3, <2>4, <2>5, <2>6 DEF RunInv
  <1>8. ASSUME NEW m \in Mutex, ~dead'[m] PROVE UnitInv(m)'
    <2>1. UnitInv(m)
      BY <1>1, <1>8 DEF Inv, MutexInv
    <2>2. SameUnit(m)
      BY <1>1 DEF SameUnit
    <2>3. SameCarriers(Thread, m)
      BY <1>1, <1>4, <1>5 DEF SameCarriers, InFlight, Unlocking
    <2> QED BY <2>1, <2>2, <2>3, UnitFrame
  <1> QED BY <1>4, <1>6, <1>7, <1>8 DEF Inv, ThreadInv, MutexInv

(* mini_os_mutex_kill_held on behalf of x: the mutexes it held are free,   *)
(* and what it carried is lost.                                            *)
LEMMA Releases ==
    ASSUME Inv, NEW X \in SUBSET Thread, Others(X), NEW x \in X, KillHeldObjects(x),
           \A m \in Mutex : m \in orphan => m \in orphan',
           \A m \in Mutex : \A u \in X : u \notin InFlight(m, "lock")' /\ u \notin Unlocking(m)',
           \A m \in Mutex : \A u \in X \ {x} : u \notin InFlight(m, "lock") /\ u \notin Unlocking(m),
           \A m \in Mutex : x \in InFlight(m, "lock") \/ x \in Unlocking(m) => m \in orphan'
    PROVE  Inv'
  <1>1. ThreadInv' /\ \A m \in Mutex : SameCarriers(Thread \ X, m)
    BY OthersInv
  <1>2. KernelInv(k') /\ TypeInv' /\ TypeInv /\ \A m \in Mutex : dead[m] => dead'[m]
    BY DEF Inv, Others
  <1>3. \A m \in Mutex : /\ owner'[m] = IF owner[m] = x THEN NoThread ELSE owner[m]
                         /\ count'[m] = IF owner[m] = x THEN 1 ELSE count[m]
                         /\ \A u \in Thread : m \in holds'[u] <=> m \in holds[u] /\ u # x
    BY <1>2 DEF KillHeldObjects, Held, TypeInv, MaxCount, Obj
  <1>4. ASSUME NEW m \in Mutex, ~dead'[m] PROVE UnitInv(m)'
    <2>1. UnitInv(m)
      BY <1>2, <1>4 DEF Inv, MutexInv
    <2>2. CASE owner[m] = x
      <3>1. \A u \in Thread \ {x} : u \notin Carriers(m) /\ m \notin holds[u]
        BY <2>1, <2>2 DEF UnitInv, Carriers
      <3>2. \A u \in Thread : u \notin InFlight(m, "lock")' /\ u \notin Unlocking(m)'
        BY <1>1, <3>1 DEF Carriers, SameCarriers
      <3>3. \A u \in Thread : owner'[m] # u
        BY <1>3, <2>2, SchedAssumption
      <3>4. \A u \in Thread : u \notin Carriers(m)' /\ m \notin holds'[u]
        BY <1>3, <3>1, <3>2, <3>3 DEF Carriers
      <3>5. count'[m] = 1
        BY <1>3, <2>2
      <3> QED BY <3>4, <3>5, UnitFree
    <2>3. CASE owner[m] # x /\ (x \in InFlight(m, "lock") \/ x \in Unlocking(m))
      <3>1. x \in Carriers(m)
        BY <2>3 DEF Carriers
      <3>2. \A u \in Thread \ {x} : u \notin Carriers(m)
        BY <2>1, <3>1 DEF UnitInv
      <3>3. \A u \in Thread : owner[m] # u
        BY <2>3, <3>2 DEF Carriers
      <3>4. count'[m] # 1
        BY <1>3, <2>1, <2>3, <3>1 DEF UnitInv
      <3>5. \A u \in Thread : u \notin InFlight(m, "lock")' /\ u \notin Unlocking(m)'
        BY <1>1, <3>2 DEF Carriers, SameCarriers
      <3>6. \A u \in Thread : u \notin Carriers(m)' /\ owner'[m] # u /\ m \notin holds'[u]
        BY <1>3, <2>1, <2>3, <3>3, <3>5 DEF Carriers, UnitInv
      <3> QED BY <2>3, <3>4, <3>6 DEF UnitInv
    <2>4. CASE owner[m] # x /\ x \notin InFlight(m, "lock") /\ x \notin Unlocking(m)
      <3>1. SameUnit(m)
        BY <1>3, <2>1, <2>4 DEF SameUnit, UnitInv
      <3>2. SameCarriers(Thread, m)
        BY <1>1, <2>4 DEF SameCarriers
      <3> QED BY <2>1, <3>1, <3>2, UnitFrame
    <2> QED BY <2>2, <2>3, <2>4
  <1>5. MutexInv'
    BY <1>4 DEF MutexInv
  <1> QED BY <1>1, <1>2, <1>5 DEF Inv

(* The types after mini_os_mutex_kill_held. *)
LEMMA ReleasesType ==
    ASSUME TypeInv, NEW x \in Thread, KillHeldObjects(x)
    PROVE  /\ owner' \in [Mutex -> Thread \cup {NoThread}] /\ holds' \in [Thread -> SUBSET Mutex]
           /\ count' \in [Obj -> Int] /\ \A m \in Mutex : count'[m] \in {0, 1}
  <1>1. owner' \in [Mutex -> Thread \cup {NoThread}] /\ holds' \in [Thread -> SUBSET Mutex]
    BY DEF TypeInv, KillHeldObjects
  <1>2. /\ count \in [Obj -> Int] /\ Held(x) \subseteq Mutex /\ Mutex \subseteq Obj
        /\ \A m \in Mutex : MaxCount(m) = 1 /\ count[m] \in {0, 1}
        /\ count' = [o \in Obj |-> IF o \in Held(x) THEN MaxCount(o) ELSE count[o]]
    BY DEF TypeInv, KillHeldObjects, Held, MaxCount, Obj
  <1> QED BY <1>1, <1>2

(* No step ends a thread that holds a mutex mini_os_mutex_enable_kill was  *)
(* not called on: its waiters would be told of a success (KillStatus).     *)
UnarmedHolderStays ==
    \A m \in Mutex \ Armed : \A t \in Thread :
        owner[m] = t => k'.state[t] \notin {"TERMINATED", "FREED"}

(* mini_os_thread_exit *)
LEMMA ExitInv ==
    ASSUME Inv, UnarmedHolderStays, NEW t \in Thread \ {Idle}, Exit(t)
    PROVE  Inv'
  <1> DEFINE k1 == KillWaiters(k, Held(t))
  <1>1. /\ Executes(t) /\ pc[t] = "app" /\ KillHeldObjects(t)
        /\ k' = [RemoveReady(k1, t) EXCEPT !.state[t] = "TERMINATED"]
        /\ defunct' = defunct \cup {t} /\ pc' = [pc EXCEPT ![t] = "exit"]
        /\ UNCHANGED <<app, call, dead, orphan>>
    BY DEF Exit, Goto
  <1>2. /\ CallInv(t) /\ KernelInv(k) /\ TypeInv /\ Runnable(k, t) /\ ~Waiting(k, t)
    BY <1>1, Executing
  <1>3. Off \notin Held(t) /\ \A w \in Held(t) : w \in Mutex
    BY ObjAssumption, SchedAssumption DEF Held
  <1>4. KernelInv(k1) /\ Kept(k, k1)
    BY <1>2, <1>3, KillKeeps
  <1> HIDE DEF k1
  <1>5. ~Waiting(k1, t) /\ ~InWheel(k1, t)
    BY <1>2, <1>4 DEF Kept, KernelInv, Runnable
  <1>6. /\ KernelInv(k') /\ k'.wait = k1.wait /\ k'.status = k1.status
        /\ k'.current = k1.current /\ k'.pend = k1.pend
        /\ k'.state = [k1.state EXCEPT ![t] = "TERMINATED"]
    <2>1. "TERMINATED" \in States \ {"READY", "RUNNING", "BLOCKED"}
      BY DEF States
    <2> QED BY <1>1, <1>4, <1>5, <2>1, RetireKeeps
  <1>7. /\ k'.state[t] = "TERMINATED"
        /\ \A u \in Thread \ {t} : k.state[u] # "BLOCKED" => k'.state[u] = k.state[u]
    BY <1>4, <1>6, Zenon DEF KernelInv, Kept
  <1>8. \A w \in Held(t) : w \in Armed
    BY <1>7 DEF Held, UnarmedHolderStays
  <1>9. \A u \in Thread :
          /\ k1.wait.on[u] \in {k.wait.on[u], Off}
          /\ \/ k1.status[u] = k.status[u]
             \/ Waiting(k, u) /\ ~Waiting(k1, u) /\ (~k1.status[u] \/ call[u].op # "lock")
    BY <1>2, <1>3, <1>8, KillOthers DEF k1
  <1>10. /\ pc'[t] = "exit" /\ \A u \in Thread \ {t} : pc'[u] = pc[u]
        /\ \A u \in Thread : IsCall(call[u])
    BY <1>1, <1>2 DEF TypeInv, Inv, ThreadInv, CallInv
  <1>11. TypeInv'
    BY <1>1, <1>2, ReleasesType, Zenon DEF TypeInv
  <1>12. CallInv(t)' /\ WaitInv(t)'
    BY <1>1, <1>2, <1>5, <1>6, <1>10 DEF CallInv, WaitInv, Waiting
  <1>13. k'.current = k.current /\ (k.pend => k'.pend)
    BY <1>4, <1>6 DEF Kept
  <1>14. \A u \in Thread :
           /\ k.state[u] \in {"SUSPENDED", "TERMINATED", "FREED"} => k'.state[u] = k.state[u]
           /\ u \in defunct' => u \in defunct \/ k'.state[u] = "TERMINATED"
    BY <1>1, <1>2, <1>7 DEF Runnable
  <1>15. \A u \in Thread \ {t} :
           /\ k'.wait.on[u] \in {k.wait.on[u], Off}
           /\ \/ k'.status[u] = k.status[u]
              \/ Waiting(k, u) /\ ~Waiting(k', u) /\ (~k'.status[u] \/ call[u].op # "lock")
    BY <1>6, <1>9 DEF Waiting
  <1>16. Others({t})
    BY <1>1, <1>6, <1>7, <1>10, <1>11, <1>12, <1>13, <1>14, <1>15 DEF Others, Runnable
  <1>17. \A m \in Mutex : /\ t \notin InFlight(m, "lock")' /\ t \notin Unlocking(m)'
                          /\ t \notin InFlight(m, "lock") /\ t \notin Unlocking(m)
    BY <1>1, <1>10 DEF InFlight, Unlocking
  <1> QED BY <1>1, <1>16, <1>17, Releases

(* The section of mini_os_thread_delete. *)
LEMMA DeleteInv ==
    ASSUME Inv, UnarmedHolderStays, NEW t \in Thread \ {Idle}, Delete(t)
    PROVE  Inv'
  <1> DEFINE x   == call[t].obj
             off == IF Runnable(k, x) THEN RemoveReady(k, x)
                    ELSE IF k.state[x] = "BLOCKED"
                    THEN Recompute(WheelRemove(LeaveWaitList(k, {x}), {x}), owner,
                                   Forget(waitMutex, {x}), BoostedBy(x))
                    ELSE k
             kf  == [off EXCEPT !.state[x] = "FREED"]
  <1>1. /\ Executes(t) /\ pc[t] = "delete" /\ KillHeldObjects(x)
        /\ k' = KillWaiters(kf, Held(x))
        /\ orphan' = IF Carries(x) THEN orphan \cup {call[x].obj} ELSE orphan
        /\ call' = [call EXCEPT ![t] = NoCall, ![x] = NoCall]
        /\ \E l \in {"yield", "app"} : pc' = [pc EXCEPT ![t] = l, ![x] = "gone"]
        /\ UNCHANGED <<app, dead, defunct>>
    BY Zenon DEF Delete
  <1>2. /\ CallInv(t) /\ KernelInv(k) /\ TypeInv /\ Runnable(k, t) /\ ~Waiting(k, t)
    BY <1>1, Executing
  <1>3. x \in Thread \ {Idle} /\ x # t
    BY <1>1, <1>2 DEF CallInv
  <1>4. /\ KernelInv(kf) /\ kf.status = k.status
        /\ kf.current = k.current /\ kf.pend = k.pend
        /\ kf.state = [k.state EXCEPT ![x] = "FREED"]
        /\ \A u \in Thread : kf.wait.on[u] = IF u = x THEN Off ELSE k.wait.on[u]
    <2> HIDE DEF x
    <2>1. KernelInv(k) /\ x \in Thread \ {Idle}
      BY <1>2, <1>3
    <2> QED BY <2>1, DeleteLists
  <1> HIDE DEF kf, off, x
  <1>5. Off \notin Held(x) /\ \A w \in Held(x) : w \in Mutex /\ w \in Armed
    <2>1. kf.state[x] = "FREED" /\ Off \notin Held(x)
      BY <1>2, <1>3, <1>4, ObjAssumption, SchedAssumption DEF KernelInv, Held
    <2>2. Kept(kf, k')
      BY <1>1, <1>4, <2>1, KillKeeps
    <2>3. k'.state[x] = "FREED"
      BY <1>3, <2>1, <2>2 DEF Kept
    <2> QED
      BY <1>3, <2>1, <2>3 DEF Held, UnarmedHolderStays
  <1>6. /\ KernelInv(k') /\ Kept(kf, k')
        /\ \A u \in Thread :
             k'.wait.on[u] = IF kf.wait.on[u] \in Held(x) THEN Off ELSE kf.wait.on[u]
    <2>1. KernelInv(kf) /\ Off \notin Held(x) /\ k' = KillWaiters(kf, Held(x))
      BY <1>1, <1>4, <1>5
    <2> QED BY <2>1, KillKeeps
  <1>7. ASSUME NEW u \in Thread \ {t, x}
        PROVE  /\ k'.wait.on[u] \in {k.wait.on[u], Off}
               /\ \/ k'.status[u] = k.status[u]
                  \/ Waiting(k, u) /\ ~Waiting(k', u) /\ (~k'.status[u] \/ call[u].op # "lock")
    <2>1. kf.wait.on[u] = k.wait.on[u] /\ kf.status[u] = k.status[u]
      BY <1>4
    <2>2. /\ KernelInv(kf) /\ Off \notin Held(x) /\ k' = KillWaiters(kf, Held(x))
          /\ \A w \in Held(x) : w \in Mutex => w \in Armed \/ Waiters(kf, w) = {}
      BY <1>1, <1>4, <1>5
    <2>3. u \in Thread
      OBVIOUS
    <2> QED BY <2>1, <2>2, <2>3, KillOthers
  <1>8. /\ k'.state[x] = "FREED"
        /\ \A u \in Thread \ {x} : k.state[u] # "BLOCKED" => k'.state[u] = k.state[u]
    <2>1. kf.state[x] = "FREED" /\ \A u \in Thread \ {x} : kf.state[u] = k.state[u]
      BY <1>2, <1>3, <1>4 DEF KernelInv
    <2> QED BY <1>3, <1>6, <2>1 DEF Kept
  <1>9. ~Waiting(k', t) /\ ~Waiting(k', x)
    BY <1>2, <1>3, <1>4, <1>6 DEF Waiting
  <1>10. k'.current = k.current /\ (k.pend => k'.pend)
    BY <1>4, <1>6 DEF Kept
  <1>11. PICK l \in {"yield", "app"} : pc' = [pc EXCEPT ![t] = l, ![x] = "gone"]
    BY <1>1, Zenon
  <1>12. /\ pc'[t] = l /\ pc'[x] = "gone" /\ call'[t] = NoCall /\ call'[x] = NoCall
         /\ \A u \in Thread \ {t, x} : pc'[u] = pc[u] /\ call'[u] = call[u]
    BY <1>1, <1>2, <1>3, <1>11 DEF TypeInv
  <1>13. TypeInv'
    <2>1. /\ owner' \in [Mutex -> Thread \cup {NoThread}] /\ holds' \in [Thread -> SUBSET Mutex]
          /\ count' \in [Obj -> Int] /\ \A m \in Mutex : count'[m] \in {0, 1}
      BY <1>1, <1>2, <1>3, ReleasesType
    <2>2. pc' = [u \in Thread |-> pc'[u]] /\ call' = [u \in Thread |-> call'[u]]
      BY <1>1, <1>2, <1>11, Zenon DEF TypeInv
    <2> QED BY <1>1, <1>2, <2>1, <2>2 DEF TypeInv
  <1>14. \A u \in {t, x} : CallInv(u)' /\ WaitInv(u)'
    BY <1>9, <1>12, StartedCall, Zenon DEF CallInv, WaitInv
  <1>15. \A u \in Thread \ {t, x} : IsCall(call[u])
    BY DEF Inv, ThreadInv, CallInv
  <1>16. Runnable(k', t) /\ k'.current = t
    BY <1>1, <1>2, <1>3, <1>8, <1>10, Zenon DEF Runnable, Executes
  <1>17. Others({t, x})
    <2>1. \A u \in Thread :
            k.state[u] \in {"SUSPENDED", "TERMINATED", "FREED"} => k'.state[u] \in {k.state[u], "FREED"}
      BY <1>8
    <2>2. \A u \in Thread \ {t, x} :
            /\ Runnable(k, u) => Runnable(k', u)
            /\ pc'[u] = pc[u] /\ IsCall(call'[u])
            /\ call'[u].op = call[u].op /\ call'[u].obj = call[u].obj
      BY <1>8, <1>12, <1>15, Zenon DEF Runnable
    <2>3. \A u \in {t, x} :
            /\ k'.current = u /\ ~k'.pend /\ pc'[u] \notin {"yield", "yieldPark", "exit"} => Runnable(k', u)
            /\ pc'[u] # "resume"
      BY <1>3, <1>12, <1>16, Zenon
    <2> QED
      BY <1>1, <1>6, <1>7, <1>10, <1>13, <1>14, <2>1, <2>2, <2>3, Zenon DEF Others
  <1>18. \A m \in Mutex : \A u \in {t, x} : u \notin InFlight(m, "lock")' /\ u \notin Unlocking(m)'
    BY <1>12 DEF InFlight, Unlocking
  <1>19. \A m \in Mutex : t \notin InFlight(m, "lock") /\ t \notin Unlocking(m)
    BY <1>1 DEF InFlight, Unlocking
  <1>20. \A m \in Mutex : /\ m \in orphan => m \in orphan'
                          /\ x \in InFlight(m, "lock") \/ x \in Unlocking(m) => m \in orphan'
    BY <1>1 DEF InFlight, Unlocking, Carries
  <1>21. {t, x} \in SUBSET Thread /\ x \in {t, x} /\ {t, x} \ {x} = {t}
    BY <1>3
  <1> QED BY <1>1, <1>17, <1>18, <1>19, <1>20, <1>21, Releases

(* mini_os_semaphore_delete_common and mini_os_queue_delete_common. *)
LEMMA DeleteOtherInv ==
    ASSUME Inv, NEW t \in Thread \ {Idle}, Executes(t), pc[t] = "app", NEW W, Off \notin W,
           \A w \in W : w \notin Mutex, k' \in {k, KillWaiters(k, W)},
           NEW l \in {"app", "yield"}, pc' = [pc EXCEPT ![t] = l], NEW o, o \notin Mutex,
           dead' = [dead EXCEPT ![o] = TRUE],
           UNCHANGED <<app, call, count, owner, defunct, holds, orphan>>
    PROVE  Inv'
  <1>1. /\ CallInv(t) /\ KernelInv(k) /\ TypeInv /\ Runnable(k, t) /\ ~Waiting(k, t)
    BY Executing
  <1> DEFINE kn == KillWaiters(k, W)
  <1>2. KernelInv(kn) /\ Kept(k, kn) /\ Kept(k, k)
        /\ \A u \in Thread : kn.wait.on[u] = IF k.wait.on[u] \in W THEN Off ELSE k.wait.on[u]
    <2>1. KernelInv(k) /\ Kept(k, k)
      BY <1>1 DEF Kept
    <2> QED BY <2>1, KillKeeps
  <1>3. \A u \in Thread :
          /\ kn.wait.on[u] \in {k.wait.on[u], Off}
          /\ \/ kn.status[u] = k.status[u]
             \/ Waiting(k, u) /\ ~Waiting(kn, u) /\ (~kn.status[u] \/ call[u].op # "lock")
    BY <1>1, KillOthers, Zenon
  <1>4. k' \in {k, kn}
    OBVIOUS
  <1> HIDE DEF kn
  <1>5. KernelInv(k') /\ Kept(k, k') /\ ~Waiting(k', t)
    BY <1>1, <1>2, <1>4 DEF Waiting
  <1>6. OthersKept(t)
    BY <1>2, <1>3, <1>4 DEF OthersKept, Kept
  <1>7. Runnable(k', t)
    BY <1>1, <1>5 DEF Kept, Runnable
  <1>8. TypeInv' /\ \A m \in Mutex : dead[m] => dead'[m]
    BY <1>1, Zenon DEF TypeInv, Obj
  <1>9. pc'[t] = l /\ call' = [call EXCEPT ![t] = call[t]] /\ call'[t] = call[t]
    BY <1>1 DEF TypeInv
  <1>10. CallInv(t)' /\ WaitInv(t)'
    BY <1>1, <1>5, <1>9 DEF CallInv, WaitInv
  <1>11. Moves(t, l, call[t])
    BY <1>5, <1>6, <1>7, <1>8, <1>9, <1>10, Zenon DEF Moves, Steps, SameUnit
  <1> QED BY <1>11, MovesInv

(* mini_os_semaphore_delete_common *)
LEMMA DeleteSemInv ==
    ASSUME Inv, NEW t \in Thread \ {Idle}, DeleteSem(t)
    PROVE  Inv'
  <1>1. PICK s \in Sem :
          /\ Executes(t) /\ pc[t] = "app" /\ k' = KillWaiters(k, {s})
          /\ dead' = [dead EXCEPT ![s] = TRUE]
          /\ \E l \in {"app", "yield"} : pc' = [pc EXCEPT ![t] = l]
          /\ UNCHANGED <<app, call, count, owner, defunct, holds, orphan>>
    BY Zenon DEF DeleteSem, Deletes, RequestDestroy, Goto
  <1>2. s \notin Mutex /\ s # Off
    BY ObjAssumption, SchedAssumption
  <1>3. PICK l \in {"app", "yield"} : pc' = [pc EXCEPT ![t] = l]
    BY <1>1, Zenon
  <1>4. Off \notin {s} /\ (\A w \in {s} : w \notin Mutex) /\ k' \in {k, KillWaiters(k, {s})}
    BY <1>1, <1>2
  <1> QED BY <1>1, <1>2, <1>3, <1>4, DeleteOtherInv, Zenon

(* mini_os_queue_delete_common *)
LEMMA DeleteQueueInv ==
    ASSUME Inv, NEW t \in Thread \ {Idle}, DeleteQueue(t)
    PROVE  Inv'
  <1>1. PICK q \in Queue :
          /\ Executes(t) /\ pc[t] = "app" /\ k' \in {k, KillWaiters(k, {SendList(q), RecvList(q)})}
          /\ dead' = [dead EXCEPT ![q] = TRUE]
          /\ \E l \in {"app", "yield"} : pc' = [pc EXCEPT ![t] = l]
          /\ UNCHANGED <<app, call, count, owner, defunct, holds, orphan>>
    BY Zenon DEF DeleteQueue, Deletes, RequestDestroy, Goto
  <1> DEFINE W == {SendList(q), RecvList(q)}
  <1>2. q \notin Mutex /\ W \subseteq QueueLists
    BY ObjAssumption DEF QueueLists
  <1>3. Off \notin W /\ \A w \in W : w \notin Mutex
    BY <1>2, ObjAssumption, SchedAssumption
  <1>4. PICK l \in {"app", "yield"} : pc' = [pc EXCEPT ![t] = l]
    BY <1>1
  <1>5. k' \in {k, KillWaiters(k, W)}
    BY <1>1
  <1> HIDE DEF W
  <1> QED BY <1>1, <1>2, <1>3, <1>4, <1>5, DeleteOtherInv, Zenon

(* mini_os_mutex_delete_common: the mutex is dead, its waiters are told of *)
(* a failure, and no other mutex is touched.                               *)
LEMMA DeleteMutexInv ==
    ASSUME Inv, NEW t \in Thread \ {Idle}, DeleteMutex(t)
    PROVE  Inv'
  <1>1. PICK m \in Mutex :
          /\ Executes(t) /\ pc[t] = "app"
          /\ owner' = [owner EXCEPT ![m] = NoThread]
          /\ k' = Recompute(KillWaiters(k, {m}), owner', waitMutex', owner[m])
          /\ dead' = [dead EXCEPT ![m] = TRUE]
          /\ m \in Armed \/ Waiters(k, m) = {}
          /\ \E l \in {"app", "yield"} : pc' = [pc EXCEPT ![t] = l]
          /\ UNCHANGED <<app, call, count, defunct, holds, orphan>>
    BY Zenon DEF DeleteMutex, Deletes, RequestDestroy, Goto
  <1>2. /\ CallInv(t) /\ KernelInv(k) /\ TypeInv /\ Runnable(k, t) /\ ~Waiting(k, t)
    BY <1>1, Executing
  <1>3. m # Off /\ m \in Obj
    BY ObjAssumption, SchedAssumption DEF Obj
  <1> DEFINE k1 == KillWaiters(k, {m})
  <1>4. /\ KernelInv(k1) /\ Kept(k, k1)
        /\ \A u \in Thread : k1.wait.on[u] = IF k.wait.on[u] \in {m} THEN Off ELSE k.wait.on[u]
    <2>1. KernelInv(k) /\ Off \notin {m}
      BY <1>2, <1>3
    <2> QED BY <2>1, KillKeeps
  <1>5. \A u \in Thread :
          /\ k1.wait.on[u] \in {k.wait.on[u], Off}
          /\ \/ k1.status[u] = k.status[u]
             \/ Waiting(k, u) /\ ~Waiting(k1, u) /\ (~k1.status[u] \/ call[u].op # "lock")
    BY <1>1, <1>2, <1>3, KillOthers, Zenon
  <1>6. k' = Recompute(k1, owner', waitMutex', owner[m])
    BY <1>1
  <1> HIDE DEF k1
  <1>7. KernelInv(k') /\ Kept(k1, k') /\ k'.wait = k1.wait /\ k'.status = k1.status
    <2>1. KernelInv(k1)
      BY <1>4
    <2> QED BY <1>6, <2>1, RecomputeKeeps
  <1>8. Kept(k, k')
    BY <1>4, <1>7 DEF Kept
  <1>9. OthersKept(t)
    <2>1. \A u \in Thread \ {t} :
            /\ k'.wait.on[u] \in {k.wait.on[u], Off}
            /\ \/ k'.status[u] = k.status[u]
               \/ Waiting(k, u) /\ ~Waiting(k', u) /\ (~k'.status[u] \/ call[u].op # "lock")
      BY <1>5, <1>7, Zenon DEF Waiting
    <2> QED BY <1>8, <2>1, KeptOthers
  <1>10. Runnable(k', t) /\ ~Waiting(k', t)
    BY <1>2, <1>4, <1>7, <1>8 DEF Kept, Runnable, Waiting
  <1>11. PICK l \in {"app", "yield"} : pc' = [pc EXCEPT ![t] = l]
    BY <1>1, Zenon
  <1>12. pc'[t] = l /\ call' = [call EXCEPT ![t] = call[t]] /\ call'[t] = call[t]
    BY <1>1, <1>2, <1>11 DEF TypeInv
  <1>13. TypeInv'
    BY <1>1, <1>2, <1>11, Zenon DEF TypeInv
  <1>14. CallInv(t)' /\ WaitInv(t)'
    BY <1>1, <1>2, <1>10, <1>12 DEF CallInv, WaitInv
  <1>15. /\ dead'[m] /\ \A x \in Mutex : dead[x] => dead'[x]
         /\ \A x \in Mutex \ {m} : dead'[x] = dead[x] /\ owner'[x] = owner[x]
    BY <1>1, <1>2, <1>3 DEF TypeInv, Obj
  <1>16. Steps(t, l, call[t])
    BY <1>1, <1>7, <1>9, <1>10, <1>11, <1>12, <1>13, <1>14, <1>15, Zenon DEF Steps
  <1>17. ThreadInv' /\ \A x \in Mutex : SameCarriers(Thread \ {t}, x)
    BY <1>16, StepsInv, Zenon
  <1>18. ASSUME NEW x \in Mutex, ~dead'[x] PROVE UnitInv(x)'
    <2>1. x # m /\ UnitInv(x)
      BY <1>15, <1>18, Zenon DEF Inv, MutexInv
    <2>2. SameUnit(x)
      BY <1>1, <1>15, <2>1, Zenon DEF SameUnit
    <2>3. /\ t \notin InFlight(x, "lock") /\ t \notin InFlight(x, "lock")'
          /\ t \notin Unlocking(x) /\ t \notin Unlocking(x)'
      BY <1>1, <1>12 DEF InFlight, Unlocking
    <2>4. SameCarriers(Thread, x)
      BY <1>17, <2>3 DEF SameCarriers
    <2> QED BY <2>1, <2>2, <2>4, UnitFrame
  <1> QED BY <1>7, <1>13, <1>17, <1>18, Zenon DEF Inv, MutexInv

(* A step of the idle thread or of an interrupt: no thread goes on. *)
LEMMA InterruptInv ==
    ASSUME Inv, KernelInv(k'), TypeInv', OthersKept(NoThread),
           UNCHANGED <<app, pc, owner, dead, defunct, holds, orphan>>,
           \A m \in Mutex : count'[m] = count[m],
           \A u \in Thread : /\ IsCall(call'[u]) /\ call'[u].op = call[u].op
                             /\ call'[u].obj = call[u].obj
    PROVE  Inv'
  <1>1. \A u \in Thread : u # NoThread
    BY SchedAssumption
  <1>2. Others({})
    BY <1>1, Zenon DEF Others, OthersKept, Runnable
  <1>3. \A m \in Mutex : SameUnit(m) /\ SameCarriers({}, m)
    BY Zenon DEF SameUnit, SameCarriers
  <1> QED BY <1>2, <1>3, QuietInv

(* mini_os_thread_defunct_execute frees descriptors that are linked        *)
(* nowhere.                                                                *)
LEMMA ReapInv ==
    ASSUME Inv, Reap
    PROVE  Inv'
  <1> DEFINE st == [t \in Thread |-> IF t \in defunct THEN "FREED" ELSE k.state[t]]
  <1>1. /\ k' = [k EXCEPT !.state = st] /\ defunct' = {}
        /\ UNCHANGED <<app, pc, call, count, owner, dead, holds, orphan>>
    BY DEF Reap, objs
  <1>2. KernelInv(k) /\ TypeInv /\ \A u \in Thread : RunInv(u) /\ IsCall(call[u])
    BY DEF Inv, ThreadInv, CallInv
  <1>3. /\ st \in [Thread -> States]
        /\ \A u \in Thread : st[u] = k.state[u] \/ (k.state[u] \in {"TERMINATED", "FREED"} /\ st[u] = "FREED")
    BY <1>2, Zenon DEF RunInv, KernelInv, States
  <1> HIDE DEF st
  <1>4. /\ KernelInv(k') /\ k'.wait = k.wait /\ k'.status = k.status /\ k'.state = st
        /\ k'.pend = k.pend /\ k'.current = k.current
    <2>1. KernelInv(k) /\ k' = [k EXCEPT !.state = st]
      BY <1>1, <1>2
    <2> QED BY <1>3, <2>1, Reaped
  <1>6. TypeInv'
    BY <1>1, <1>2 DEF TypeInv
  <1>7. Others({})
    BY <1>1, <1>2, <1>3, <1>4, <1>6 DEF Others, Runnable
  <1>8. \A m \in Mutex : SameUnit(m) /\ SameCarriers({}, m)
    BY <1>1 DEF SameUnit, SameCarriers
  <1> QED BY <1>7, <1>8, QuietInv

(* mini_os_systick_handler: a wait that times out has failed. *)
LEMMA TickInv ==
    ASSUME Inv, Tick
    PROVE  Inv'
  <1>1. /\ k' = SysTick(k)
        /\ call' = [t \in Thread |-> [call[t] EXCEPT !.due = IF @ > 0 THEN @ - 1 ELSE 0]]
        /\ UNCHANGED <<app, pc, count, owner, dead, defunct, holds, orphan>>
    BY DEF Tick, objs
  <1>2. KernelInv(k) /\ TypeInv /\ \A u \in Thread : IsCall(call[u])
    BY DEF Inv, ThreadInv, CallInv
  <1>3. /\ KernelInv(k') /\ Kept(k, k')
        /\ \E D \in SUBSET Thread : \A t \in Thread :
             /\ k'.wait.on[t] = IF t \in D THEN Off ELSE k.wait.on[t]
             /\ k'.status[t] = IF t \in D /\ Waiting(k, t) THEN FALSE ELSE k.status[t]
    BY <1>1, <1>2, SysTickKeeps, Zenon
  <1>4. OthersKept(NoThread)
    BY <1>3, Zenon DEF OthersKept, Kept, Waiting
  <1>5. \A u \in Thread : /\ IsCall(call'[u]) /\ call'[u].op = call[u].op
                          /\ call'[u].obj = call[u].obj
    <2> SUFFICES ASSUME NEW u \in Thread
                 PROVE  IsCall(call'[u]) /\ call'[u].op = call[u].op /\ call'[u].obj = call[u].obj
      OBVIOUS
    <2>1. \E d : call'[u] = [call[u] EXCEPT !.due = d]
      BY <1>1, Zenon
    <2> QED BY <1>2, <2>1, Zenon DEF IsCall
  <1>6. TypeInv'
    BY <1>1, <1>2 DEF TypeInv
  <1> QED BY <1>1, <1>3, <1>4, <1>5, <1>6, InterruptInv

(* The PendSV handler: what it selects, if it is a thread, is runnable. *)
LEMMA PendSVInv ==
    ASSUME Inv, PendSV
    PROVE  Inv'
  <1>1. /\ k' = Switch(k)
        /\ UNCHANGED <<app, pc, call, count, owner, dead, defunct, holds, orphan>>
    BY DEF PendSV, objs
  <1>2. KernelInv(k) /\ TypeInv
    BY DEF Inv
  <1>3. /\ KernelInv(k') /\ k'.wait = k.wait /\ k'.status = k.status
        /\ k'.current \in Thread => Runnable(k', k'.current)
        /\ \A t \in Thread : ~Runnable(k, t) => k'.state[t] = k.state[t]
    BY <1>1, <1>2, SwitchKeeps
  <1>4. TypeInv'
    BY <1>1, <1>2 DEF TypeInv
  <1>5. ASSUME NEW u \in Thread PROVE CallInv(u)' /\ WaitInv(u)' /\ RunInv(u)'
    <2>1. CallInv(u) /\ WaitInv(u) /\ RunInv(u)
      BY DEF Inv, ThreadInv
    <2>2. CallInv(u)'
      BY <1>1, <2>1, Zenon DEF CallInv, Calls
    <2>3. WaitInv(u)'
      BY <1>1, <1>3, <2>1, Zenon DEF WaitInv, Waiting
    <2>4. pc[u] = "resume" => call[u].obj \in Thread
      BY <2>1 DEF CallInv
    <2>5. RunInv(u)'
      BY <1>1, <1>3, <2>1, <2>4, Zenon DEF RunInv, Runnable
    <2> QED BY <2>2, <2>3, <2>5
  <1>6. ASSUME NEW m \in Mutex, ~dead'[m] PROVE UnitInv(m)'
    <2>1. UnitInv(m)
      BY <1>1, <1>6 DEF Inv, MutexInv
    <2>2. SameUnit(m) /\ SameCarriers(Thread, m)
      BY <1>1, <1>3 DEF SameUnit, SameCarriers, InFlight, Unlocking
    <2> QED BY <2>1, <2>2, UnitFrame
  <1> QED BY <1>3, <1>4, <1>5, <1>6, Zenon DEF Inv, ThreadInv, MutexInv

(* An interrupt handler that gives a semaphore. *)
LEMMA GiveIsrInv ==
    ASSUME Inv, GiveIsr
    PROVE  Inv'
  <1>1. PICK c \in Program[app].isr :
          /\ c.op = "give" /\ GiveUnit(c.obj) /\ k' = YieldIsr(WakeOne(k, c.obj))
          /\ UNCHANGED <<app, pc, call, owner, dead, defunct, holds, orphan>>
    BY DEF GiveIsr
  <1>2. KernelInv(k) /\ TypeInv /\ Kept(k, k) /\ \A u \in Thread : IsCall(call[u])
    BY DEF Inv, ThreadInv, CallInv, Kept
  <1>3. c.obj \in Sem
    <2>1. \E t : t \in Thread
      BY SchedAssumption
    <2> QED BY <1>1, <1>2, <2>1, TypedCalls, Zenon
  <1>4. c.obj \notin Mutex /\ c.obj # Off /\ c.obj \in Obj
    BY <1>3, ObjAssumption, SchedAssumption DEF Obj
  <1>5. KernelInv(k') /\ OthersKept(NoThread)
    BY <1>1, <1>2, <1>4, WakeOneOthers, Zenon
  <1>6. count' \in {count, [count EXCEPT ![c.obj] = @ + 1], [count EXCEPT ![c.obj] = @ - 1]}
    BY <1>1 DEF GiveUnit
  <1>7. count' \in [Obj -> Int] /\ \A m \in Mutex : count'[m] = count[m]
    BY <1>2, <1>4, <1>6, 1 \in Int, CountOther, Zenon
  <1>8. TypeInv'
    BY <1>1, <1>2, <1>7 DEF TypeInv
  <1> QED BY <1>1, <1>2, <1>5, <1>7, <1>8, InterruptInv, Zenon

(* An interrupt handler that sends or receives. *)
LEMMA QueueIsrInv ==
    ASSUME Inv, NEW c \in Program[app].isr, c.op \in {"send", "recv"}, NEW step \in Int,
           NEW other \in QueueLists,
           count' = [count EXCEPT ![c.obj] = @ + step], k' = YieldIsr(WakeOne(k, other)),
           UNCHANGED <<app, pc, call, owner, dead, defunct, holds, orphan>>
    PROVE  Inv'
  <1>1. KernelInv(k) /\ TypeInv /\ Kept(k, k) /\ \A u \in Thread : IsCall(call[u])
    BY Zenon DEF Inv, ThreadInv, CallInv, Kept
  <1>2. c.obj \in Queue
    <2>1. \E t : t \in Thread
      BY SchedAssumption
    <2> QED BY <1>1, <2>1, TypedCalls, Zenon
  <1>3. c.obj \notin Mutex /\ c.obj \in Obj /\ other # Off /\ other \notin Mutex
    BY <1>2, ObjAssumption, SchedAssumption DEF Obj
  <1>4. KernelInv(k') /\ OthersKept(NoThread)
    BY <1>1, <1>3, WakeOneOthers, Zenon
  <1>5. count' \in [Obj -> Int] /\ \A m \in Mutex : count'[m] = count[m]
    BY <1>1, <1>3, CountOther, Zenon
  <1>6. TypeInv'
    BY <1>1, <1>5 DEF TypeInv
  <1> QED BY <1>1, <1>4, <1>5, <1>6, InterruptInv

(* mini_os_queue_send_isr and _receive_isr. *)
LEMMA SendReceiveIsrInv ==
    ASSUME Inv, SendIsr \/ ReceiveIsr
    PROVE  Inv'
  <1>0. ASSUME NEW c \in Program[app].isr, c.op \in {"send", "recv"}
        PROVE  SendList(c.obj) \in QueueLists /\ RecvList(c.obj) \in QueueLists
    <2>1. TypeInv /\ \E t : t \in Thread
      BY SchedAssumption DEF Inv
    <2> QED BY <1>0, <2>1, TypedCalls DEF QueueLists
  <1>1. CASE SendIsr
    <2>1. PICK c \in Program[app].isr :
            /\ c.op = "send" /\ count' = [count EXCEPT ![c.obj] = @ + 1]
            /\ k' = YieldIsr(WakeOne(k, RecvList(c.obj)))
            /\ UNCHANGED <<app, pc, call, owner, dead, defunct, holds, orphan>>
      BY <1>1, Zenon DEF SendIsr, QueueIsr
    <2>2. c.op \in {"send", "recv"} /\ 1 \in Int
      BY <2>1
    <2>3. RecvList(c.obj) \in QueueLists
      BY <1>0, <2>2
    <2> QED BY <2>1, <2>2, <2>3, QueueIsrInv, Zenon
  <1>2. CASE ReceiveIsr
    <2>1. PICK c \in Program[app].isr :
            /\ c.op = "recv" /\ count' = [count EXCEPT ![c.obj] = @ + -1]
            /\ k' = YieldIsr(WakeOne(k, SendList(c.obj)))
            /\ UNCHANGED <<app, pc, call, owner, dead, defunct, holds, orphan>>
      BY <1>2, Zenon DEF ReceiveIsr, QueueIsr
    <2>2. c.op \in {"send", "recv"} /\ -1 \in Int
      BY <2>1
    <2>3. SendList(c.obj) \in QueueLists
      BY <1>0, <2>2
    <2> QED BY <2>1, <2>2, <2>3, QueueIsrInv, Zenon
  <1> QED BY <1>1, <1>2

(* Every step preserves the invariant. *)
LEMMA NextInv ==
    ASSUME Inv, UnarmedHolderStays, SingleResumer, Next
    PROVE  Inv'
  <1>1. ASSUME NEW t \in Thread \ {Idle}, ThreadStep(t) PROVE Inv'
    BY <1>1, AcquireInv, LockInv, LockTakeInv, LockParkedInv, UnlockInv, GiveInv, TakeInv,
       TakeParkedInv, SendReceiveInv, YieldStepInv, DelayInv, SuspendInv, ResumeCheckInv, ResumeInv,
       SetBaseInv, SetPriorityInv, ExitInv, DeleteCheckInv, DeleteInv, DeleteSemInv, DeleteMutexInv,
       DeleteQueueInv, Zenon
       DEF ThreadStep
  <1> QED
    BY <1>1, ReapInv, TickInv, PendSVInv, GiveIsrInv, SendReceiveIsrInv DEF Next

(* The invariant holds throughout, as long as no holder of an unarmed      *)
(* mutex exits or is deleted and no thread is resumed by two others.       *)
THEOREM Invariance ==
    ASSUME SingleResumer
    PROVE  Spec /\ [][UnarmedHolderStays]_vars => []Inv
  <1>1. Init => Inv
    BY InitInv
  <1>2. Inv /\ [Next]_vars /\ [UnarmedHolderStays]_vars => Inv'
    BY NextInv, StutterInv DEF vars, objs
  <1> QED BY <1>1, <1>2, PTL DEF Spec

(* mini_os_mutex_lock gives mutual exclusion: whatever the threads lock,   *)
(* delay, suspend, exit or delete, no two of them are past a successful    *)
(* lock of the same live mutex, and the owner field names the one that is. *)
(* Mutexes without the kill flavour, which is how they are created, are    *)
(* covered as long as nobody exits or is deleted while it holds one.       *)
THEOREM MutualExclusion ==
    ASSUME SingleResumer
    PROVE  Spec /\ [][UnarmedHolderStays]_vars => []Exclusion
  <1>1. Inv => Exclusion
    BY DEF Inv, MutexInv, UnitInv, Exclusion
  <1> QED BY <1>1, Invariance, PTL

(* The unit of a live mutex is never lost and never doubled, under the     *)
(* same conditions.                                                        *)
THEOREM UnitConservation ==
    ASSUME SingleResumer
    PROVE  Spec /\ [][UnarmedHolderStays]_vars => []UnitConserved
  <1>1. ASSUME Inv PROVE UnitConserved
    <2> SUFFICES ASSUME NEW m \in Mutex, ~dead[m], m \notin orphan
                 PROVE  IF count[m] = 0 THEN \E t \in Thread : Carriers(m) = {t}
                        ELSE count[m] = 1 /\ Carriers(m) = {}
      BY DEF UnitConserved
    <2>1. UnitInv(m) /\ count[m] \in {0, 1}
      BY <1>1 DEF Inv, MutexInv, TypeInv
    <2>2. Carriers(m) \subseteq Thread
      BY DEF Carriers, InFlight, Unlocking
    <2>3. CASE count[m] = 0
      <3>1. PICK t \in Thread : t \in Carriers(m)
        BY <2>1, <2>3 DEF UnitInv
      <3>2. Carriers(m) = {t}
        BY <2>1, <2>2, <3>1 DEF UnitInv
      <3> QED BY <2>3, <3>2
    <2>4. CASE count[m] = 1
      <3>1. Carriers(m) = {}
        BY <2>1, <2>2, <2>4 DEF UnitInv
      <3> QED BY <2>4, <3>1
    <2> QED BY <2>1, <2>3, <2>4, Zenon
  <1>2. Inv => UnitConserved
    BY <1>1
  <1> QED BY <1>2, Invariance, PTL
=============================================================================
