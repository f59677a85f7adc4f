------------------------------ MODULE MCMiniOs ------------------------------
EXTENDS MiniOs, TLC

CONSTANTS H, M, L, idle, mx, my, s1, q1

C(op, obj, arg) == [op |-> op, obj |-> obj, arg |-> arg]
Bases(h, m, l) == (H :> h) @@ (M :> m) @@ (L :> l) @@ (idle :> NPrio - 1)
Sets(h, m, l) == (H :> h) @@ (M :> m) @@ (L :> l) @@ (idle :> {})

(* Three threads contend for one mutex; the lowest one sleeps holding it. *)
Contention ==
    [base |-> Bases(0, 1, 2), isr |-> {},
     calls |-> Sets({C("lock", mx, Forever), C("unlock", mx, 0), C("delay", NoObj, 1)},
                    {C("lock", mx, 1), C("unlock", mx, 0), C("delay", NoObj, 1)},
                    {C("lock", mx, Forever), C("unlock", mx, 0), C("delay", NoObj, 1)})]

(* A chain of two mutexes, nested by the middle thread. *)
Chain ==
    [base |-> Bases(0, 1, 2), isr |-> {},
     calls |-> Sets({C("lock", mx, 2), C("unlock", mx, 0), C("delay", NoObj, 1)},
                    {C("lock", mx, Forever), C("lock", my, Forever), C("unlock", my, 0), C("unlock", mx, 0)},
                    {C("lock", my, Forever), C("unlock", my, 0), C("delay", NoObj, 1), C("setprio", L, 1)})]

(* Two receivers, a sender, an interrupt that sends; the queue is deleted. *)
Messages ==
    [base |-> Bases(0, 1, 1), isr |-> {C("send", q1, 0), C("recv", q1, 0)},
     calls |-> Sets({C("recv", q1, 2), C("delay", NoObj, 1)},
                    {C("recv", q1, Forever), C("send", q1, 0)},
                    {C("send", q1, 2), C("delay", NoObj, 3), C("destroy", q1, 0)})]

(* Suspension, exit and deletion around a semaphore. *)
LifeCycle ==
    [base |-> Bases(0, 1, 2), isr |-> {C("give", s1, 0)},
     calls |-> Sets({C("take", s1, 3)},
                    {C("take", s1, 0), C("take", s1, Forever), C("lock", mx, 1), C("exit", NoObj, 0)},
                    {C("give", s1, 0), C("lock", mx, Forever), C("unlock", mx, 0), C("suspend", H, 0), C("resume", H, 0), C("delete", H, 0),
                     C("destroy", s1, 0), C("destroy", mx, 0)})]

(* The holder of a contended mutex exits or is deleted. *)
Death ==
    [base |-> Bases(0, 1, 2), isr |-> {},
     calls |-> Sets({C("lock", mx, Forever), C("unlock", mx, 0), C("delay", NoObj, 2)},
                    {C("lock", mx, Forever), C("unlock", mx, 0), C("delay", NoObj, 2),
                     C("delete", L, 0)},
                    {C("lock", mx, 0), C("delay", NoObj, 1), C("exit", NoObj, 0)})]

MCProgram == [contention |-> Contention, chain |-> Chain, messages |-> Messages,
              life |-> LifeCycle, death |-> Death]
DeathOnly == [death |-> Death]
MCCapacity == (s1 :> 1) @@ (q1 :> 1)
MCRank == (mx :> 1) @@ (my :> 2) @@ (s1 :> 3) @@ (<<q1, "send">> :> 4) @@ (<<q1, "recv">> :> 5)
MCWaitList == {mx, my, s1, <<q1, "send">>, <<q1, "recv">>}
=============================================================================
