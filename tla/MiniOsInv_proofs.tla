-------------------------- MODULE MiniOsInv_proofs --------------------------
(***************************************************************************)
(* The inductive invariant behind mutual exclusion of the mini-os mutex,   *)
(* and the frame lemmas the steps of MiniOs share.                         *)
(***************************************************************************)
EXTENDS MiniOs, MiniOsSched_proofs

(* The kill paths wake every waiter of the given lists. *)
LEMMA KillKeeps ==
    ASSUME NEW kk, KernelInv(kk), NEW W, Off \notin W
    PROVE  LET kn == KillWaiters(kk, W)
           IN /\ KernelInv(kn) /\ Kept(kk, kn)
              /\ \A t \in Thread :
                   /\ kn.wait.on[t] = IF kk.wait.on[t] \in W THEN Off ELSE kk.wait.on[t]
                   /\ kn.status[t] = IF kk.wait.on[t] \in W THEN KillStatus(kk.wait.on[t]) ELSE kk.status[t]
  <1> DEFINE T  == {t \in Thread : kk.wait.on[t] \in W}
             ok == [t \in Thread |-> KillStatus(kk.wait.on[t])]
             before == [t \in Thread |-> kk.wait.ahead[t] \cup
                          {u \in T : t \in T /\ Rank[kk.wait.on[u]] < Rank[kk.wait.on[t]]}]
             kn == Wake(kk, T, ok, before)
  <1>1. kn = KillWaiters(kk, W)
    BY DEF KillWaiters
  <1>2. T \in SUBSET Thread /\ \A t \in Thread : t \in T <=> kk.wait.on[t] \in W
    OBVIOUS
  <1>3. \A t \in Thread : ok[t] = KillStatus(kk.wait.on[t]) /\ ok[t] \in BOOLEAN
    BY DEF KillStatus
  <1> HIDE DEF T, ok, before
  <1>4. \A t \in T : Waiting(kk, t) /\ ok[t] \in BOOLEAN
    BY <1>2, <1>3 DEF Waiting
  <1>5. /\ KernelInv(kn) /\ Kept(kk, kn)
        /\ \A t \in Thread :
             /\ kn.wait.on[t] = IF t \in T THEN Off ELSE kk.wait.on[t]
             /\ kn.status[t] = IF t \in T THEN ok[t] ELSE kk.status[t]
    BY <1>2, <1>4, WakeKeeps
  <1> HIDE DEF kn
  <1>6. \A t \in Thread :
          /\ kn.wait.on[t] = IF kk.wait.on[t] \in W THEN Off ELSE kk.wait.on[t]
          /\ kn.status[t] = IF kk.wait.on[t] \in W THEN KillStatus(kk.wait.on[t]) ELSE kk.status[t]
    BY <1>2, <1>3, <1>5
  <1> QED BY <1>1, <1>5, <1>6

(***************************************************************************)
(* The inductive invariant                                                 *)
(***************************************************************************)
(* No two threads of an application resume the same thread: the state      *)
(* check of mini_os_thread_resume is outside the section that acts on it,  *)
(* and two racing resumes would make a thread ready that waits again.      *)
SingleResumer ==
    \A a \in DOMAIN Program : \A t, u \in Thread :
        \A c \in Program[a].calls[t] : \A d \in Program[a].calls[u] :
            c.op = "resume" /\ d.op = "resume" /\ c.obj = d.obj => t = u

TypeInv ==
    /\ app \in DOMAIN Program
    /\ pc = [t \in Thread |-> pc[t]]
    /\ call = [t \in Thread |-> call[t]]
    /\ owner \in [Mutex -> Thread \cup {NoThread}]
    /\ count \in [Obj -> Int] /\ \A m \in Mutex : count[m] \in {0, 1}
    /\ dead \in [Obj -> BOOLEAN]
    /\ holds \in [Thread -> SUBSET Mutex]

IsCall(c) == c = [f \in {"op", "obj", "arg", "due"} |-> c[f]]

(* A call in progress is typed, and a section is reached only in its call. *)
CallInv(t) ==
    /\ IsCall(call[t])
    /\ call[t].op = "lock" => call[t].obj \in Mutex
    /\ call[t].op = "take" => call[t].obj \in Sem
    /\ call[t].op \in {"send", "recv"} => call[t].obj \in Queue
    /\ pc[t] = "give" => call[t].op = "unlock" /\ call[t].obj \in Mutex
    /\ pc[t] = "delete" => call[t].obj \in Thread \ {Idle, t}
    /\ pc[t] = "resume" => /\ call[t].obj \in Thread \ {Idle}
                           /\ \E c \in Calls(t, "resume") : c.obj = call[t].obj

(* Who is on a wait list is inside the call that put it there, and has not *)
(* been told anything yet.                                                 *)
WaitInv(t) ==
    Waiting(k, t) =>
        /\ pc[t] \in {"yieldPark", "parked"} /\ ~k.status[t]
        /\ IF k.wait.on[t] \in Mutex
           THEN call[t].op = "lock" /\ call[t].obj = k.wait.on[t]
           ELSE call[t].op # "lock"

(* Who executes is runnable; who was checked to be suspended still is, or  *)
(* was deleted; who is on the defunct list stays terminated.               *)
RunInv(t) ==
    /\ k.current = t /\ ~k.pend /\ pc[t] \notin {"yield", "yieldPark", "exit"} => Runnable(k, t)
    /\ pc[t] = "resume" => /\ k.state[call[t].obj] \in {"SUSPENDED", "FREED"}
                           /\ call[t].obj \notin defunct
    /\ t \in defunct => k.state[t] \in {"TERMINATED", "FREED"}

(* The unit of a mutex is at one place, and in one role.  The third        *)
(* conjunct is what makes it inductive: an owner is not also on its way    *)
(* out of a wait or of an unlock.                                          *)
UnitInv(m) ==
    /\ count[m] = 1 => \A t \in Thread : t \notin Carriers(m)
    /\ \A t, u \in Thread : t \in Carriers(m) /\ u \in Carriers(m) => t = u
    /\ \A t \in Thread : owner[m] = t => t \notin InFlight(m, "lock") /\ t \notin Unlocking(m)
    /\ count[m] = 0 /\ m \notin orphan => \E t \in Thread : t \in Carriers(m)
    /\ \A t \in Thread : m \in holds[t] <=> owner[m] = t

ThreadInv == \A t \in Thread : CallInv(t) /\ WaitInv(t) /\ RunInv(t)
MutexInv == \A m \in Mutex : ~dead[m] => UnitInv(m)

Inv == KernelInv(k) /\ TypeInv /\ ThreadInv /\ MutexInv

(* After start-up every thread is ready and every mutex free. *)
LEMMA InitInv == Init => Inv
  <1> SUFFICES ASSUME Init PROVE Inv
    OBVIOUS
  <1> DEFINE base == Program[app].base
  <1>1. base \in [Thread -> Prio] /\ app \in DOMAIN Program
    BY ProgramAssumption DEF Init
  <1> HIDE DEF base
  <1>2. /\ k.ready.on = base /\ k.wheel.on = [t \in Thread |-> Off] /\ k.wait.on = [t \in Thread |-> Off]
        /\ k.bitmap = {base[t] : t \in Thread} /\ k.state = [t \in Thread |-> "READY"]
        /\ k.prio = base /\ k.status = [t \in Thread |-> TRUE] /\ k.current = NoThread
        /\ k.pend = TRUE /\ k.pend \in BOOLEAN /\ k.slot = 0 /\ Shape(k)
    BY Zenon DEF Init, Unlinked, Everywhere, Created, Shape, Fields, base
  <1>3. KernelInv(k)
    <2>1. k.status \in [Thread -> BOOLEAN]
      BY <1>2
    <2>2. k.state \in [Thread -> States]
      BY <1>2 DEF States
    <2> QED
      BY <1>1, <1>2, <2>1, <2>2, SchedAssumption DEF KernelInv, Runnable, Waiting, InWheel
  <1>4. TypeInv
    BY <1>1 DEF Init, TypeInv, Obj
  <1>5. ThreadInv
    <2> SUFFICES ASSUME NEW t \in Thread PROVE CallInv(t) /\ WaitInv(t) /\ RunInv(t)
      BY DEF ThreadInv
    <2>1. CallInv(t)
      BY Zenon DEF Init, CallInv, IsCall, NoCall
    <2>2. WaitInv(t)
      BY <1>2 DEF WaitInv, Waiting
    <2>3. RunInv(t)
      BY <1>2, Zenon DEF Init, RunInv, Runnable
    <2> QED BY <2>1, <2>2, <2>3
  <1>6. MutexInv
    BY SchedAssumption DEF Init, MutexInv, UnitInv, Carriers, InFlight, Unlocking, Obj
  <1> QED BY <1>3, <1>4, <1>5, <1>6 DEF Inv

(* A step that may change the calls of the threads of X, and take any      *)
(* other thread off its wait list, with success only when that was not the *)
(* wait of a lock call.                                                    *)
Others(X) ==
    /\ KernelInv(k') /\ TypeInv'
    /\ app' = app /\ \A m \in Mutex : dead[m] => dead'[m]
    /\ k'.current = k.current /\ (k.pend => k'.pend)
    /\ \A u \in Thread :
         /\ k.state[u] \in {"SUSPENDED", "TERMINATED", "FREED"} => k'.state[u] \in {k.state[u], "FREED"}
         /\ u \in defunct' => u \in defunct \/ k'.state[u] = "TERMINATED"
    /\ \A u \in Thread \ X :
         /\ Runnable(k, u) => Runnable(k', u)
         /\ pc'[u] = pc[u] /\ IsCall(call'[u])
         /\ call'[u].op = call[u].op /\ call'[u].obj = call[u].obj
         /\ k'.wait.on[u] \in {k.wait.on[u], Off}
         /\ \/ k'.status[u] = k.status[u]
            \/ Waiting(k, u) /\ ~Waiting(k', u) /\ (~k'.status[u] \/ call[u].op # "lock")
    /\ \A u \in X :
         /\ CallInv(u)' /\ WaitInv(u)'
         /\ k'.current = u /\ ~k'.pend /\ pc'[u] \notin {"yield", "yieldPark", "exit"} => Runnable(k', u)
         /\ pc'[u] = "resume" => /\ k.state[call'[u].obj] \in {"SUSPENDED", "FREED"}
                                 /\ call'[u].obj \notin defunct

(* The carriers of m among the threads of T are the same after the step. *)
SameCarriers(T, m) ==
    \A u \in T : /\ u \in InFlight(m, "lock")' <=> u \in InFlight(m, "lock")
                 /\ u \in Unlocking(m)' <=> u \in Unlocking(m)

(* Such a step keeps what is known of every thread, and makes no thread    *)
(* outside X a carrier of a mutex unit.                                    *)
LEMMA OthersInv ==
    ASSUME Inv, NEW X \in SUBSET Thread, Others(X)
    PROVE  ThreadInv' /\ \A m \in Mutex : SameCarriers(Thread \ X, m)
  <1>2. ASSUME NEW u \in Thread \ X PROVE CallInv(u)'
    <2>1. CallInv(u)
      BY DEF Inv, ThreadInv
    <2> QED
      BY <2>1 DEF Others, CallInv, Calls
  <1>3. ASSUME NEW u \in Thread \ X PROVE WaitInv(u)'
    <2>1. WaitInv(u)
      BY DEF Inv, ThreadInv
    <2>2. /\ pc'[u] = pc[u] /\ call'[u].op = call[u].op /\ call'[u].obj = call[u].obj
          /\ k'.wait.on[u] \in {k.wait.on[u], Off}
          /\ k'.status[u] = k.status[u] \/ ~Waiting(k', u)
      BY Zenon DEF Others
    <2> QED BY <2>1, <2>2, Zenon DEF WaitInv, Waiting
  <1>4. ASSUME NEW u \in Thread PROVE RunInv(u)'
    <2>1. RunInv(u) /\ CallInv(u) /\ (pc[u] = "resume" => call[u].obj \in Thread)
      BY Zenon DEF Inv, ThreadInv, CallInv
    <2>2. u \in X => CallInv(u)' /\ (pc'[u] = "resume" => call'[u].obj \in Thread)
      BY Zenon DEF Others, CallInv
    <2>3. u \in defunct' => k'.state[u] \in {"TERMINATED", "FREED"}
      BY <2>1, Zenon DEF Others, RunInv
    <2>4. pc'[u] = "resume" => /\ k'.state[call'[u].obj] \in {"SUSPENDED", "FREED"}
                               /\ call'[u].obj \notin defunct'
      BY <2>1, <2>2 DEF Others, RunInv
    <2>5. k'.current = u /\ ~k'.pend /\ pc'[u] \notin {"yield", "yieldPark", "exit"} => Runnable(k', u)
      BY <2>1, Zenon DEF Others, RunInv, Runnable
    <2> QED BY <2>3, <2>4, <2>5 DEF RunInv
  <1>5. ASSUME NEW m \in Mutex, NEW u \in Thread \ X
        PROVE  /\ u \in InFlight(m, "lock")' <=> u \in InFlight(m, "lock")
               /\ u \in Unlocking(m)' <=> u \in Unlocking(m)
    <2>1. WaitInv(u)
      BY DEF Inv, ThreadInv
    <2>2. u \in Unlocking(m)' <=> u \in Unlocking(m)
      BY Zenon DEF Others, Unlocking
    <2>3. CASE k'.status[u] = k.status[u]
      BY <2>2, <2>3, Zenon DEF Others, InFlight
    <2>4. CASE Waiting(k, u) /\ ~Waiting(k', u) /\ (~k'.status[u] \/ call[u].op # "lock")
      BY <2>1, <2>2, <2>4, Zenon DEF Others, InFlight, WaitInv
    <2> QED BY <2>3, <2>4, Zenon DEF Others
  <1>6. ThreadInv'
    BY <1>2, <1>3, <1>4, Zenon DEF ThreadInv, Others
  <1> QED BY <1>5, <1>6 DEF SameCarriers

(* The objects of mutex m stand still. *)
SameUnit(m) ==
    /\ count'[m] = count[m] /\ owner'[m] = owner[m] /\ (m \in orphan => m \in orphan')
    /\ \A u \in Thread : m \in holds'[u] <=> m \in holds[u]

(* A thread whose call stands keeps what is known of it, unless it enters  *)
(* one of the sections that need more.                                     *)
LEMMA CallFrame ==
    ASSUME NEW u, CallInv(u), app' = app, call'[u] = call[u],
           pc'[u] = pc[u] \/ pc'[u] \notin {"give", "delete", "resume"}
    PROVE  CallInv(u)'
  BY Zenon DEF CallInv, Calls

(* Threads that carry no unit and go nowhere they could carry one.         *)
LEMMA CarriersFrame ==
    ASSUME NEW T, T \subseteq Thread, call' = call,
           \A u \in T : /\ k'.status[u] <=> k.status[u]
                        /\ \/ pc'[u] = pc[u]
                           \/ /\ pc[u] \notin {"give", "yieldPark", "parked"}
                              /\ pc'[u] \notin {"give", "yieldPark", "parked"}
    PROVE  \A m \in Mutex : SameCarriers(T, m)
  BY DEF SameCarriers, InFlight, Unlocking

(* The objects of every mutex stand still when the variables do. *)
LEMMA UnitsStand ==
    ASSUME UNCHANGED <<count, owner, holds, orphan>>
    PROVE  \A m \in Mutex : SameUnit(m)
  BY DEF SameUnit

(* A mutex that stands still, with the same carriers, keeps its unit. *)
LEMMA UnitFrame ==
    ASSUME NEW m \in Mutex, UnitInv(m), SameUnit(m), SameCarriers(Thread, m)
    PROVE  UnitInv(m)'
  BY DEF UnitInv, Carriers, SameUnit, SameCarriers

(* The unit of a mutex is with one thread ... *)
LEMMA UnitWith ==
    ASSUME NEW m \in Mutex, NEW h \in Thread, count'[m] = 0,
           \A u \in Thread : u \in Carriers(m)' <=> u = h,
           \A u \in Thread : owner'[m] = u => u \notin InFlight(m, "lock")' /\ u \notin Unlocking(m)',
           \A u \in Thread : m \in holds'[u] <=> owner'[m] = u
    PROVE  UnitInv(m)'
  BY DEF UnitInv

(* ... or in the count, with nobody holding it. *)
LEMMA UnitFree ==
    ASSUME NEW m \in Mutex, count'[m] = 1,
           \A u \in Thread : u \notin Carriers(m)' /\ m \notin holds'[u]
    PROVE  UnitInv(m)'
  BY DEF UnitInv, Carriers

(* A step that moves no unit of a mutex preserves the invariant. *)
LEMMA QuietInv ==
    ASSUME Inv, NEW X \in SUBSET Thread, Others(X),
           \A m \in Mutex : SameUnit(m) /\ SameCarriers(X, m)
    PROVE  Inv'
  <1>1. ThreadInv' /\ \A m \in Mutex : SameCarriers(Thread \ X, m)
    BY OthersInv
  <1>2. ASSUME NEW m \in Mutex, ~dead'[m] PROVE UnitInv(m)'
    <2>1. UnitInv(m)
      BY <1>2, Zenon DEF Inv, MutexInv, Others
    <2>2. SameCarriers(Thread, m)
      BY <1>1 DEF SameCarriers
    <2> QED
      BY <2>1, <2>2, UnitFrame
  <1>3. MutexInv'
    BY <1>2 DEF MutexInv
  <1>4. KernelInv(k') /\ TypeInv'
    BY Zenon DEF Others
  <1> QED BY <1>1, <1>3, <1>4 DEF Inv

(* A step that leaves what the invariant is about alone. *)
LEMMA StutterInv ==
    ASSUME Inv, UNCHANGED <<app, k, pc, call, count, owner, dead, defunct, holds, orphan>>
    PROVE  Inv'
  <1>1. KernelInv(k) /\ TypeInv /\ \A u \in Thread : IsCall(call[u])
    BY Zenon DEF Inv, ThreadInv, CallInv
  <1>2. TypeInv'
    BY <1>1 DEF TypeInv
  <1>3. Others({})
    BY <1>1, <1>2, Zenon DEF Others
  <1>4. \A m \in Mutex : SameUnit(m) /\ SameCarriers({}, m)
    BY DEF SameUnit, SameCarriers
  <1> QED BY <1>3, <1>4, QuietInv

(* Programs make typed calls. *)
LEMMA TypedCalls ==
    ASSUME TypeInv, NEW t \in Thread
    PROVE  /\ \A c \in Calls(t, "lock") \cup Calls(t, "unlock") : c.obj \in Mutex
           /\ \A c \in Calls(t, "take") \cup Calls(t, "give") : c.obj \in Sem
           /\ \A c \in Calls(t, "send") \cup Calls(t, "recv") : c.obj \in Queue
           /\ \A c \in Calls(t, "suspend") \cup Calls(t, "resume") \cup Calls(t, "delete") :
                c.obj \in Thread \ {Idle}
           /\ \A c \in Calls(t, "setprio") : c.obj \in Thread
           /\ \A c \in Program[app].isr :
                (c.op = "give" => c.obj \in Sem) /\ (c.op \in {"send", "recv"} => c.obj \in Queue)
  BY ProgramAssumption DEF TypeInv, Calls, Target

(* The thread that executes outside a yield is runnable, so it waits for   *)
(* nothing.                                                                *)
LEMMA Executing ==
    ASSUME Inv, NEW t \in Thread, Executes(t)
    PROVE  /\ CallInv(t) /\ WaitInv(t) /\ RunInv(t) /\ KernelInv(k) /\ TypeInv
           /\ pc[t] \notin {"yield", "yieldPark", "exit"} =>
                Runnable(k, t) /\ ~Waiting(k, t) /\ ~InWheel(k, t)
  BY Zenon DEF Inv, ThreadInv, RunInv, Executes, KernelInv, Runnable

(* The new call of a thread whose section is neither a give, a delete nor  *)
(* a resume. *)
LEMMA StartedCall ==
    ASSUME NEW c
    PROVE  /\ IsCall(Started(c)) /\ Started(c).op = c.op /\ Started(c).obj = c.obj
           /\ IsCall(NoCall) /\ NoCall.op = "none"
  BY Zenon DEF Started, NoCall, IsCall

(* The kernel's effect on the threads other than t. *)
OthersKept(t) ==
    /\ k'.current = k.current /\ (k.pend => k'.pend)
    /\ \A u \in Thread \ {t} :
         /\ k.state[u] # "BLOCKED" => k'.state[u] = k.state[u]
         /\ k'.wait.on[u] \in {k.wait.on[u], Off}
         /\ \/ k'.status[u] = k.status[u]
            \/ Waiting(k, u) /\ ~Waiting(k', u) /\ (~k'.status[u] \/ call[u].op # "lock")

(* A step of the executing thread: it goes on to section l, its call being *)
(* c.                                                                      *)
Steps(t, l, c) ==
    /\ Executes(t) /\ pc[t] \notin {"yield", "yieldPark", "exit"}
    /\ pc' = [pc EXCEPT ![t] = l] /\ call' = [call EXCEPT ![t] = c]
    /\ l # "resume"
    /\ CallInv(t)' /\ WaitInv(t)'
    /\ Runnable(k', t) \/ l \in {"yield", "yieldPark", "exit"}
    /\ KernelInv(k') /\ TypeInv' /\ OthersKept(t)
    /\ UNCHANGED <<app, defunct>> /\ \A m \in Mutex : dead[m] => dead'[m]

(* What a section run by the current thread does to the other threads. *)
LEMMA StepsInv ==
    ASSUME Inv, NEW t \in Thread, NEW l, NEW c, Steps(t, l, c)
    PROVE  /\ Others({t}) /\ pc'[t] = l /\ call'[t] = c
           /\ ThreadInv' /\ \A m \in Mutex : SameCarriers(Thread \ {t}, m)
  <1>1. /\ CallInv(t) /\ WaitInv(t) /\ KernelInv(k) /\ TypeInv
        /\ Runnable(k, t) /\ ~Waiting(k, t)
    BY Executing, Zenon DEF Steps
  <1>2. pc'[t] = l /\ call'[t] = c
    BY <1>1 DEF TypeInv, Steps
  <1>3. ASSUME NEW u \in Thread \ {t}
        PROVE  pc'[u] = pc[u] /\ call'[u] = call[u] /\ IsCall(call[u])
    BY <1>1, Zenon DEF TypeInv, Steps, Inv, ThreadInv, CallInv
  <1>4. \A u \in Thread :
          k.state[u] \in {"SUSPENDED", "TERMINATED", "FREED"} => k'.state[u] = k.state[u]
    BY <1>1, Zenon DEF Steps, OthersKept, Runnable
  <1>5. Others({t})
    BY <1>1, <1>2, <1>3, <1>4, Zenon DEF Others, Steps, OthersKept, Runnable
  <1> QED BY <1>2, <1>5, OthersInv, Zenon

(* A step of the executing thread that moves no unit of a mutex. *)
Moves(t, l, c) ==
    /\ Steps(t, l, c) /\ pc[t] # "give" /\ l \notin {"give", "parked"}
    /\ pc[t] = "parked" /\ call[t].op = "lock" => ~k.status[t]
    /\ l = "yieldPark" => ~k'.status[t]
    /\ \A m \in Mutex : SameUnit(m)

(* A section that takes, gives and hands over no mutex unit. *)
LEMMA MovesInv ==
    ASSUME Inv, NEW t \in Thread, NEW l, NEW c, Moves(t, l, c)
    PROVE  Inv'
  <1>1. Others({t}) /\ pc'[t] = l
    BY StepsInv, Zenon DEF Moves
  <1>2. \A m \in Mutex : SameCarriers({t}, m)
    BY <1>1 DEF Moves, Steps, InFlight, Unlocking, SameCarriers
  <1> QED BY <1>1, <1>2, QuietInv DEF Moves

(* Kept, as seen by the threads other than the one that moves. *)
LEMMA KeptOthers ==
    ASSUME NEW t, Kept(k, k'),
           \A u \in Thread \ {t} :
             /\ k'.wait.on[u] \in {k.wait.on[u], Off}
             /\ \/ k'.status[u] = k.status[u]
                \/ Waiting(k, u) /\ ~Waiting(k', u) /\ (~k'.status[u] \/ call[u].op # "lock")
    PROVE  OthersKept(t)
  BY DEF Kept, OthersKept

(* A section that leaves every wait list alone. *)
LEMMA PlainMoves ==
    ASSUME Inv, NEW t \in Thread \ {Idle}, KernelInv(k'), Kept(k, k'),
           k'.wait = k.wait, \A u \in Thread \ {t} : k'.status[u] = k.status[u]
    PROVE  /\ OthersKept(t)
           /\ Executes(t) /\ pc[t] \notin {"yield", "yieldPark", "exit"} => WaitInv(t)' /\ Runnable(k', t)
  <1>1. OthersKept(t)
    BY DEF Kept, OthersKept
  <1>2. ASSUME Executes(t), pc[t] \notin {"yield", "yieldPark", "exit"} PROVE WaitInv(t)' /\ Runnable(k', t)
    <2>1. Runnable(k, t) /\ ~Waiting(k, t)
      BY <1>2, Executing
    <2> QED
      BY <2>1 DEF Kept, Runnable, WaitInv, Waiting
  <1> QED BY <1>1, <1>2

(* The reference of a lock, take, send or receive. *)
LEMMA AcquireInv ==
    ASSUME Inv, NEW t \in Thread \ {Idle}, Acquire(t)
    PROVE  Inv'
  <1>1. PICK op \in {"lock", "take", "send", "recv"} : \E c \in Calls(t, op) :
          /\ Executes(t) /\ pc[t] = "app"
          /\ call' = [call EXCEPT ![t] = Started(c)]
          /\ pc' = [pc EXCEPT ![t] = "enter"]
          /\ UNCHANGED <<app, k, waitMutex, count, owner, depth, dead, defunct, holds, orphan>>
    BY Zenon DEF Acquire, Goto
  <1>2. PICK c \in Calls(t, op) : call' = [call EXCEPT ![t] = Started(c)]
    BY <1>1, Zenon
  <1>3. KernelInv(k) /\ TypeInv
    BY DEF Inv
  <1>4. KernelInv(k') /\ Kept(k, k') /\ k'.wait = k.wait /\ k'.status = k.status
    BY <1>1, <1>3 DEF Kept
  <1>5. OthersKept(t) /\ WaitInv(t)' /\ Runnable(k', t)
    BY <1>1, <1>4, PlainMoves
  <1>6. TypeInv'
    BY <1>1, <1>3, Zenon DEF TypeInv
  <1>7. CallInv(t)'
    BY <1>1, <1>2, <1>3, TypedCalls, StartedCall DEF CallInv, TypeInv, Calls
  <1>8. Moves(t, "enter", Started(c))
    BY <1>1, <1>2, <1>4, <1>5, <1>6, <1>7, Zenon DEF Moves, Steps, SameUnit
  <1> QED BY <1>8, MovesInv

(* set_priority, first half: a base priority alone. *)
LEMMA SetBaseInv ==
    ASSUME Inv, NEW t \in Thread \ {Idle}, SetBase(t)
    PROVE  Inv'
  <1>1. PICK c \in Calls(t, "setprio") :
          /\ Executes(t) /\ pc[t] = "app"
          /\ k' = [k EXCEPT !.base[c.obj] = c.arg]
          /\ call' = [call EXCEPT ![t] = Started(c)]
          /\ pc' = [pc EXCEPT ![t] = "recompute"]
          /\ UNCHANGED <<app, waitMutex, count, owner, depth, refs, dead, defunct, holds, orphan>>
    BY Zenon DEF SetBase, Goto, objs
  <1>2. KernelInv(k) /\ TypeInv
    BY DEF Inv
  <1>3. /\ Shape(k') /\ k'.slot = k.slot /\ k'.wait = k.wait /\ k'.wheel = k.wheel
        /\ k'.ready = k.ready /\ k'.bitmap = k.bitmap /\ k'.prio = k.prio /\ k'.state = k.state
        /\ k'.status = k.status /\ k'.pend = k.pend /\ k'.current = k.current
    BY <1>1, <1>2 DEF KernelInv, Shape, Fields
  <1>4. KernelInv(k')
    BY <1>2, <1>3, Zenon DEF KernelInv, Runnable, Waiting, InWheel
  <1>5. Kept(k, k')
    BY <1>3 DEF Kept
  <1>6. OthersKept(t) /\ WaitInv(t)' /\ Runnable(k', t)
    BY <1>1, <1>3, <1>4, <1>5, PlainMoves
  <1>7. TypeInv'
    BY <1>1, <1>2, Zenon DEF TypeInv
  <1>8. CallInv(t)'
    BY <1>1, <1>2, StartedCall DEF TypeInv, CallInv, Calls
  <1>9. Moves(t, "recompute", Started(c))
    BY <1>1, <1>4, <1>6, <1>7, <1>8 DEF Moves, Steps, SameUnit
  <1> QED BY <1>9, MovesInv

(* set_priority, second half. *)
LEMMA SetPriorityInv ==
    ASSUME Inv, NEW t \in Thread \ {Idle}, SetPriority(t)
    PROVE  Inv'
  <1>1. KernelInv(k) /\ TypeInv
    BY DEF Inv
  <1>2. /\ Executes(t) /\ pc[t] = "recompute"
        /\ pc' = [pc EXCEPT ![t] = "app"] /\ call' = [call EXCEPT ![t] = NoCall]
        /\ UNCHANGED <<app, waitMutex, count, owner, depth, refs, dead, defunct, holds, orphan>>
    BY DEF SetPriority, Goto, objs
  <1>3. \E p : k' = PriorityApply(k, p)
    BY Zenon DEF SetPriority, Recompute, Propagate
  <1>4. KernelInv(k') /\ Kept(k, k') /\ k'.wait = k.wait /\ k'.status = k.status
    BY <1>1, <1>3, PriorityApplyKeeps
  <1>5. OthersKept(t) /\ WaitInv(t)' /\ Runnable(k', t)
    BY <1>2, <1>4, PlainMoves, Zenon
  <1>6. TypeInv'
    BY <1>1, <1>2, Zenon DEF TypeInv
  <1>7. CallInv(t)'
    BY <1>1, <1>2, StartedCall DEF TypeInv, CallInv
  <1>8. Moves(t, "app", NoCall)
    BY <1>2, <1>4, <1>5, <1>6, <1>7, Zenon DEF Moves, Steps, SameUnit
  <1> QED BY <1>8, MovesInv

(* A call that ends: the caller is back in the application, or yields.     *)
LEMMA CallEnds ==
    ASSUME Inv, NEW t \in Thread \ {Idle}, NEW l \in {"app", "yield"},
           Executes(t), pc[t] \notin {"yield", "yieldPark", "exit", "give"},
           pc[t] = "parked" /\ call[t].op = "lock" => ~k.status[t],
           pc' = [pc EXCEPT ![t] = l], call' = [call EXCEPT ![t] = NoCall],
           KernelInv(k'), TypeInv', OthersKept(t), ~Waiting(k', t), Runnable(k', t),
           UNCHANGED <<app, defunct, owner, holds, orphan>>,
           \A m \in Mutex : count'[m] = count[m] /\ (dead[m] => dead'[m])
    PROVE  Inv'
  <1>1. TypeInv
    BY Zenon DEF Inv
  <1>2. CallInv(t)'
    BY <1>1, StartedCall, Zenon DEF TypeInv, CallInv
  <1>3. WaitInv(t)'
    BY DEF WaitInv
  <1>4. Moves(t, l, NoCall)
    BY <1>2, <1>3, Zenon DEF Moves, Steps, SameUnit
  <1> QED BY <1>4, MovesInv, Zenon

(* A thread that parks on w, a list that fits its call. *)
LEMMA Parks ==
    ASSUME Inv, NEW t \in Thread \ {Idle}, NEW w, NEW ticks, w # Off,
           Executes(t), pc[t] \notin {"yield", "yieldPark", "exit", "give"},
           pc[t] = "parked" => call[t].op # "lock",
           IF w \in Mutex THEN call[t].op = "lock" /\ call[t].obj = w ELSE call[t].op # "lock",
           ParkOn(t, w, ticks),
           UNCHANGED <<app, defunct, owner, holds, orphan, dead>>
    PROVE  Inv'
  <1>1. /\ CallInv(t) /\ KernelInv(k) /\ TypeInv
    BY Executing, Zenon
  <1>2. /\ k' = WaitPark(k, t, w, ticks) /\ pc' = [pc EXCEPT ![t] = "yieldPark"]
        /\ call' = call /\ count' = count
    BY Zenon DEF ParkOn, Goto
  <1>3. call' = [call EXCEPT ![t] = call[t]] /\ pc'[t] = "yieldPark"
    BY <1>1, <1>2 DEF TypeInv
  <1>4. /\ KernelInv(k')
        /\ k'.current = k.current /\ k'.pend = k.pend
        /\ k'.state = [k.state EXCEPT ![t] = "BLOCKED"]
        /\ k'.status = [k.status EXCEPT ![t] = FALSE]
        /\ \A u \in Thread : k'.wait.on[u] = IF u = t THEN w ELSE k.wait.on[u]
    <2> DEFINE kn == WaitPark(k, t, w, ticks)
    <2>1. /\ KernelInv(kn)
          /\ kn.current = k.current /\ kn.pend = k.pend
          /\ kn.state = [k.state EXCEPT ![t] = "BLOCKED"]
          /\ kn.status = [k.status EXCEPT ![t] = FALSE]
          /\ \A u \in Thread : kn.wait.on[u] = IF u = t THEN w ELSE k.wait.on[u]
      <3>1. KernelInv(k)
        BY <1>1, Zenon
      <3> QED BY <3>1, WaitParkKeeps
    <2> HIDE DEF kn
    <2>2. k' = kn
      BY <1>2, Zenon DEF kn
    <2> QED BY <2>1, <2>2
  <1>0. k.state \in [Thread -> States] /\ k.status \in [Thread -> BOOLEAN]
    BY <1>1, Zenon DEF KernelInv
  <1>6. ~k'.status[t] /\ \A u \in Thread \ {t} : k'.status[u] = k.status[u]
    BY <1>0, <1>4
  <1>5. OthersKept(t)
    <2>1. \A u \in Thread \ {t} : k'.state[u] = k.state[u]
      BY <1>0, <1>4, Zenon
    <2> QED BY <1>4, <1>6, <2>1, Zenon DEF OthersKept
  <1>7. TypeInv'
    BY <1>1, <1>2, Zenon DEF TypeInv
  <1>8. CallInv(t)'
    BY <1>1, <1>2, <1>3 DEF CallInv
  <1>9. WaitInv(t)'
    BY <1>2, <1>3, <1>4, <1>6 DEF WaitInv
  <1>10. Moves(t, "yieldPark", call[t])
    BY <1>2, <1>3, <1>4, <1>5, <1>6, <1>7, <1>8, <1>9, Zenon DEF Moves, Steps, SameUnit
  <1> QED BY <1>10, MovesInv, Zenon

(* The second half of wait_park. *)
LEMMA ConsumeKeeps ==
    ASSUME NEW kk, KernelInv(kk), NEW t \in Thread
    PROVE  LET kn == Consume(kk, t)
           IN /\ KernelInv(kn) /\ Kept(kk, kn) /\ kn.wait = kk.wait /\ kn.state = kk.state
              /\ \A u \in Thread \ {t} : kn.status[u] = kk.status[u]
  <1> DEFINE f  == [kk.status EXCEPT ![t] = TRUE]
             kn == [kk EXCEPT !.status = f]
  <1>1. kn = Consume(kk, t)
    BY DEF Consume, KernelInv, Shape, Fields
  <1>2. f \in [Thread -> BOOLEAN] /\ \A u \in Thread \ {t} : f[u] = kk.status[u]
    BY DEF KernelInv
  <1> HIDE DEF f
  <1>3. /\ KernelInv(kn) /\ kn.status = f
        /\ kn.wait = kk.wait /\ kn.state = kk.state
        /\ kn.current = kk.current /\ kn.pend = kk.pend
    BY <1>2, StatusKeeps
  <1> HIDE DEF kn
  <1>4. Kept(kk, kn)
    BY <1>3 DEF Kept
  <1> QED BY <1>1, <1>2, <1>3, <1>4

(* Priority inheritance re-links runnable threads and wakes nobody. *)
LEMMA PropagateKeeps ==
    ASSUME NEW kk, KernelInv(kk), NEW own, NEW wm, NEW t, NEW extra
    PROVE  LET kn == Propagate(kk, own, wm, t, extra)
           IN KernelInv(kn) /\ Kept(kk, kn) /\ kn.wait = kk.wait /\ kn.status = kk.status
  <1>1. PICK p : Propagate(kk, own, wm, t, extra) = PriorityApply(kk, p)
    BY Zenon DEF Propagate
  <1> QED BY <1>1, PriorityApplyKeeps

(* mini_os_mutex_priority_recompute is a propagation. *)
LEMMA RecomputeKeeps ==
    ASSUME NEW kk, KernelInv(kk), NEW own, NEW wm, NEW t
    PROVE  LET kn == Recompute(kk, own, wm, t)
           IN KernelInv(kn) /\ Kept(kk, kn) /\ kn.wait = kk.wait /\ kn.status = kk.status
  BY PropagateKeeps DEF Recompute

(* mini_os_thread_delay *)
LEMMA DelayInv ==
    ASSUME Inv, NEW t \in Thread \ {Idle}, Delay(t)
    PROVE  Inv'
  <1>1. PICK c \in Calls(t, "delay") :
          /\ Executes(t) /\ pc[t] = "app"
          /\ k' = DelayPark(k, t, c.arg)
          /\ pc' = [pc EXCEPT ![t] = "yield"]
          /\ UNCHANGED <<app, call, waitMutex, count, owner, depth, refs, dead, defunct, holds, orphan>>
    BY DEF Delay, Goto, objs
  <1>2. CallInv(t) /\ WaitInv(t) /\ KernelInv(k) /\ TypeInv /\ ~Waiting(k, t)
    BY <1>1, Executing
  <1>3. /\ KernelInv(k') /\ k'.wait = k.wait /\ k'.status = k.status
        /\ k'.current = k.current /\ k'.pend = k.pend
        /\ k'.state = [k.state EXCEPT ![t] = "BLOCKED"]
    BY <1>1, <1>2, DelayParkKeeps
  <1>4. OthersKept(t)
    BY <1>2, <1>3, Zenon DEF OthersKept, KernelInv
  <1>5. TypeInv' /\ pc'[t] = "yield" /\ call' = [call EXCEPT ![t] = call[t]]
    BY <1>1, <1>2, Zenon DEF TypeInv
  <1>6. CallInv(t)' /\ WaitInv(t)'
    BY <1>1, <1>2, <1>3, <1>5, Zenon DEF CallInv, WaitInv, Waiting
  <1>7. Moves(t, "yield", call[t])
    BY <1>1, <1>3, <1>4, <1>5, <1>6, Zenon DEF Moves, Steps, SameUnit
  <1> QED BY <1>7, MovesInv

(* mini_os_thread_delete up to its section. *)
LEMMA DeleteCheckInv ==
    ASSUME Inv, NEW t \in Thread \ {Idle}, DeleteCheck(t)
    PROVE  Inv'
  <1>1. PICK c \in Calls(t, "delete") :
          /\ Executes(t) /\ pc[t] = "app" /\ c.obj # t
          /\ call' = [call EXCEPT ![t] = Started(c)]
          /\ pc' = [pc EXCEPT ![t] = "delete"]
          /\ UNCHANGED <<app, k, waitMutex, count, owner, depth, refs, dead, defunct, holds, orphan>>
    BY Zenon DEF DeleteCheck, Goto, objs
  <1>2. KernelInv(k) /\ TypeInv
    BY DEF Inv
  <1>3. KernelInv(k') /\ Kept(k, k') /\ k'.wait = k.wait /\ k'.status = k.status
    BY <1>1, <1>2, Zenon DEF Kept
  <1>4. OthersKept(t) /\ WaitInv(t)' /\ Runnable(k', t)
    BY <1>1, <1>3, PlainMoves, Zenon
  <1>5. TypeInv'
    BY <1>1, <1>2, Zenon DEF TypeInv
  <1>6. CallInv(t)'
    BY <1>1, <1>2, StartedCall, TypedCalls DEF TypeInv, CallInv, Calls
  <1>7. Moves(t, "delete", Started(c))
    BY <1>1, <1>3, <1>4, <1>5, <1>6, Zenon DEF Moves, Steps, SameUnit
  <1> QED BY <1>7, MovesInv

(* A yield: the thread that comes back from the one of wait_park is still  *)
(* in its call.                                                            *)
LEMMA YieldStepInv ==
    ASSUME Inv, NEW t \in Thread \ {Idle}, YieldStep(t)
    PROVE  Inv'
  <1>1. /\ Executes(t) /\ pc[t] \in {"yield", "yieldPark", "exit"} /\ k' = Yield(k)
        /\ UNCHANGED <<app, call, count, owner, dead, defunct, holds, orphan>>
    BY DEF YieldStep, objs
  <1> DEFINE l == CASE pc[t] = "yield" -> "app"
                    [] pc[t] = "yieldPark" -> "parked"
                    [] pc[t] = "exit" -> "gone"
  <1>2. pc' = [pc EXCEPT ![t] = l]
    BY DEF YieldStep, Goto
  <1>3. l \in {"app", "parked", "gone"} /\ (l = "parked" <=> pc[t] = "yieldPark")
    BY <1>1
  <1> HIDE DEF l
  <1>4. CallInv(t) /\ WaitInv(t) /\ KernelInv(k) /\ TypeInv
    BY <1>1, Executing
  <1>5. /\ KernelInv(k') /\ Kept(k, k') /\ k'.wait = k.wait /\ k'.status = k.status
        /\ k'.state = k.state
    BY <1>1, <1>4, YieldKeeps
  <1>6. k'.pend
    BY <1>1, <1>4 DEF Yield, KernelInv, Shape, Fields
  <1>7. pc'[t] = l /\ \A u \in Thread \ {t} : pc'[u] = pc[u]
    BY <1>2, <1>4 DEF TypeInv
  <1>8. TypeInv'
    BY <1>1, <1>2, <1>4, Zenon DEF TypeInv
  <1>9. CallInv(t)'
    BY <1>1, <1>3, <1>4, <1>7, Zenon DEF CallInv
  <1>10. WaitInv(t)'
    BY <1>1, <1>3, <1>4, <1>5, <1>7, Zenon DEF WaitInv, Waiting
  <1>11. \A u \in Thread : IsCall(call[u])
    BY Zenon DEF Inv, ThreadInv, CallInv
  <1>12. Others({t})
    BY <1>1, <1>3, <1>5, <1>6, <1>7, <1>8, <1>9, <1>10, <1>11, Zenon DEF Others, Kept, Runnable
  <1>13. \A m \in Mutex : SameUnit(m) /\ SameCarriers({t}, m)
    <2>1. UNCHANGED <<count, owner, holds, orphan>> /\ call' = call
      BY <1>1
    <2>2. /\ pc[t] \in {"yieldPark", "parked"} <=> pc'[t] \in {"yieldPark", "parked"}
          /\ pc[t] # "give" /\ pc'[t] # "give" /\ k'.status = k.status
      BY <1>1, <1>3, <1>5, <1>7
    <2>3. \A m \in Mutex : SameCarriers({t}, m)
      BY <2>1, <2>2 DEF SameCarriers, InFlight, Unlocking
    <2> QED BY <2>1, <2>3, UnitsStand
  <1> QED BY <1>12, <1>13, QuietInv

(* The state check of mini_os_thread_resume. *)
LEMMA ResumeCheckInv ==
    ASSUME Inv, NEW t \in Thread \ {Idle}, ResumeCheck(t)
    PROVE  Inv'
  <1>1. PICK c \in Calls(t, "resume") :
          /\ Executes(t) /\ pc[t] = "app" /\ k.state[c.obj] = "SUSPENDED"
          /\ call' = [call EXCEPT ![t] = Started(c)]
          /\ pc' = [pc EXCEPT ![t] = "resume"]
          /\ UNCHANGED <<app, k, count, owner, dead, defunct, holds, orphan>>
    BY Zenon DEF ResumeCheck, Goto, objs
  <1>2. /\ CallInv(t) /\ KernelInv(k) /\ TypeInv /\ Runnable(k, t) /\ ~Waiting(k, t)
    BY <1>1, Executing, Zenon
  <1>3. c.obj \in Thread \ {Idle} /\ c.op = "resume"
    BY <1>2, TypedCalls, Zenon DEF Calls
  <1>4. /\ pc'[t] = "resume" /\ call'[t] = Started(c)
        /\ \A u \in Thread \ {t} : pc'[u] = pc[u] /\ call'[u] = call[u] /\ IsCall(call[u])
    BY <1>1, <1>2 DEF TypeInv, Inv, ThreadInv, CallInv
  <1>5. TypeInv'
    BY <1>1, <1>2, Zenon DEF TypeInv
  <1>6. c.obj \notin defunct
    BY <1>1, <1>3, Zenon DEF Inv, ThreadInv, RunInv
  <1>7. CallInv(t)'
    <2>1. /\ IsCall(call'[t]) /\ call'[t].op = "resume" /\ call'[t].obj = c.obj
          /\ pc'[t] = "resume" /\ app' = app
      BY <1>1, <1>3, <1>4, StartedCall, Zenon
    <2>2. \E x \in Calls(t, "resume")' : x.obj = call'[t].obj
      BY <2>1, Zenon DEF Calls
    <2> QED BY <1>3, <2>1, <2>2 DEF CallInv
  <1>8. WaitInv(t)'
    BY <1>1, <1>2, Zenon DEF WaitInv, Waiting
  <1>9. Others({t})
    <2>1. call'[t].obj = c.obj
      BY <1>4, StartedCall, Zenon
    <2>2. /\ k' = k /\ defunct' = defunct /\ app' = app /\ dead' = dead
          /\ KernelInv(k) /\ Runnable(k, t) /\ k.state[call'[t].obj] = "SUSPENDED"
      BY <1>1, <1>2, <2>1, Zenon
    <2> QED BY <1>4, <1>5, <1>6, <1>7, <1>8, <2>1, <2>2, Zenon DEF Others
  <1>10. \A m \in Mutex : SameUnit(m) /\ SameCarriers({t}, m)
    <2>1. UNCHANGED <<count, owner, holds, orphan>> /\ pc[t] = "app" /\ pc'[t] = "resume"
      BY <1>1, <1>4
    <2>2. \A m \in Mutex : SameCarriers({t}, m)
      BY <2>1 DEF SameCarriers, InFlight, Unlocking
    <2> QED BY <2>1, <2>2, UnitsStand, Zenon
  <1> QED BY <1>9, <1>10, QuietInv

(* What the kill paths tell a thread: nothing, or that its wait is over,   *)
(* and never success to the waiter of a mutex, as long as every mutex with *)
(* waiters is armed.                                                       *)
LEMMA KillOthers ==
    ASSUME Inv, NEW kk, KernelInv(kk), NEW W, Off \notin W,
           \A w \in W : w \in Mutex => w \in Armed \/ Waiters(kk, w) = {},
           NEW u \in Thread, kk.wait.on[u] = k.wait.on[u], kk.status[u] = k.status[u],
           NEW kn, kn = KillWaiters(kk, W)
    PROVE  /\ kn.wait.on[u] \in {k.wait.on[u], Off}
           /\ \/ kn.status[u] = k.status[u]
              \/ Waiting(k, u) /\ ~Waiting(kn, u) /\ (~kn.status[u] \/ call[u].op # "lock")
  <1>1. /\ kn.wait.on[u] = IF kk.wait.on[u] \in W THEN Off ELSE kk.wait.on[u]
        /\ kn.status[u] = IF kk.wait.on[u] \in W THEN KillStatus(kk.wait.on[u]) ELSE kk.status[u]
    BY KillKeeps
  <1>2. CASE kk.wait.on[u] \notin W
    BY <1>1, <1>2, Zenon
  <1>3. CASE kk.wait.on[u] \in W
    <2>1. Waiting(k, u) /\ ~Waiting(kn, u)
      BY <1>1, <1>3 DEF Waiting
    <2>2. kn.wait.on[u] = Off /\ kn.status[u] = KillStatus(k.wait.on[u])
      BY <1>1, <1>3
    <2>3. CASE k.wait.on[u] \in Mutex
      <3>1. Waiters(kk, k.wait.on[u]) # {}
        BY DEF Waiters, Members
      <3>2. ~KillStatus(k.wait.on[u])
        BY <1>3, <2>3, <3>1 DEF KillStatus
      <3> QED BY <2>1, <2>2, <3>2, Zenon
    <2>4. CASE k.wait.on[u] \notin Mutex
      <3>1. call[u].op # "lock"
        BY <2>1, <2>4 DEF Inv, ThreadInv, WaitInv
      <3> QED BY <2>1, <2>2, <3>1, Zenon
    <2> QED BY <2>3, <2>4, Zenon
  <1> QED BY <1>2, <1>3, Zenon

(* What mini_os_thread_delete does to the lists before the kill path. *)
LEMMA DeleteLists ==
    ASSUME KernelInv(k), NEW x \in Thread \ {Idle}, NEW off,
           off = IF Runnable(k, x) THEN RemoveReady(k, x)
                 ELSE IF k.state[x] = "BLOCKED"
                 THEN Recompute(WheelRemove(LeaveWaitList(k, {x}), {x}), owner,
                                Forget(waitMutex, {x}), BoostedBy(x))
                 ELSE k
    PROVE  LET kn == [off EXCEPT !.state[x] = "FREED"]
           IN /\ KernelInv(kn) /\ kn.status = k.status
              /\ kn.current = k.current /\ kn.pend = k.pend
              /\ kn.state = [k.state EXCEPT ![x] = "FREED"]
              /\ \A u \in Thread : kn.wait.on[u] = IF u = x THEN Off ELSE k.wait.on[u]
  <1>1. CASE k.state[x] # "BLOCKED"
    <2>1. ~Waiting(k, x) /\ ~InWheel(k, x)
      BY <1>1, Zenon DEF KernelInv
    <2>2. off = RemoveReady(k, x)
      BY <1>1 DEF RemoveReady
    <2> DEFINE kr == [off EXCEPT !.state[x] = "FREED"]
    <2>3. /\ KernelInv(kr) /\ kr.wait = k.wait /\ kr.status = k.status
          /\ kr.current = k.current /\ kr.pend = k.pend
          /\ kr.state = [k.state EXCEPT ![x] = "FREED"]
      BY <2>1, <2>2, Frees
    <2>4. kr = [off EXCEPT !.state[x] = "FREED"]
      OBVIOUS
    <2> HIDE DEF kr
    <2> QED BY <2>1, <2>3, <2>4 DEF Waiting
  <1>2. CASE k.state[x] = "BLOCKED"
    <2>1. off = Recompute(WheelRemove(LeaveWaitList(k, {x}), {x}), owner, Forget(waitMutex, {x}), BoostedBy(x))
      BY <1>2, Zenon DEF Runnable
    <2>2. PICK p : off = PriorityApply(WheelRemove(LeaveWaitList(k, {x}), {x}), p)
      BY <2>1, Zenon DEF Recompute, Propagate
    <2>3. KernelInv(k) /\ x \in Thread \ {Idle} /\ k.state[x] = "BLOCKED"
      BY <1>2, Zenon
    <2>4. /\ KernelInv(off) /\ off.status = k.status /\ off.state = k.state
          /\ off.current = k.current /\ off.pend = k.pend
          /\ ~Waiting(off, x) /\ ~InWheel(off, x) /\ ~Runnable(off, x)
          /\ \A u \in Thread : off.wait.on[u] = IF u = x THEN Off ELSE k.wait.on[u]
      BY ONLY <2>2, <2>3, UnlinksBlocked
    <2> DEFINE kn == [off EXCEPT !.state[x] = "FREED"]
    <2>5. /\ KernelInv(kn) /\ kn.wait = off.wait /\ kn.status = off.status
          /\ kn.current = off.current /\ kn.pend = off.pend
          /\ kn.state = [off.state EXCEPT ![x] = "FREED"]
      BY ONLY <2>3, <2>4, FreesUnlinked
    <2> HIDE DEF kn
    <2>6. /\ KernelInv(kn) /\ kn.status = k.status
          /\ kn.current = k.current /\ kn.pend = k.pend
          /\ kn.state = [k.state EXCEPT ![x] = "FREED"]
          /\ \A u \in Thread : kn.wait.on[u] = IF u = x THEN Off ELSE k.wait.on[u]
      BY ONLY <2>4, <2>5, Zenon
    <2> QED BY <2>6, Zenon DEF kn
  <1> QED BY <1>1, <1>2, Zenon
=============================================================================
