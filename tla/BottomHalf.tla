----------------------------- MODULE BottomHalf -----------------------------
(***************************************************************************)
(* The bottom-half work queue of interrupt/interrupt.h and interrupt.c.    *)
(* Interrupt handlers submit work items (pending / executing / rerun bits, *)
(* a fifo_spsc of work pointers and the pending_drain flag of the poller); *)
(* the main loop polls the flag, drains the fifo and runs the items.       *)
(*                                                                         *)
(* One core: a handler at level l runs to its end unless a higher level    *)
(* preempts it, and the main loop runs only when no handler is active, so  *)
(* handlers interleave with the main loop and with lower handlers between  *)
(* any two of their atomic accesses.                                       *)
(***************************************************************************)
EXTENDS Naturals, FiniteSets

CONSTANTS Works,        \* the work items
          NoWork,       \* content of a fifo slot never written
          Levels,       \* interrupt preemption levels 1..Levels
          Depth,        \* BOTTOM_HALF_QUEUE_DEPTH
          MaxTriggers   \* bound on the number of interrupts

ASSUME BottomHalfAssumption ==
    /\ NoWork \notin Works
    /\ Levels \in Nat \ {0}
    /\ Depth \in Nat /\ Depth >= 2
    /\ MaxTriggers \in Nat

VARIABLES pending, executing, rerun,  \* the three bits of every work item
          ring, w_ptr, r_ptr,         \* the fifo of work pointers
          pending_drain,              \* the poller's flag
          isr,                        \* per level: step, item, loaded w_ptr
          mpc, cur, mw,               \* main loop: step, item, loaded w_ptr
          owed,                       \* items with an accepted trigger whose
                                      \* fn has not started since
          collided,                   \* a producer went on with a stale w_ptr
          triggers                    \* interrupts so far

bits == <<pending, executing, rerun>>
fifo == <<ring, w_ptr, r_ptr>>
vars == <<bits, fifo, pending_drain, isr, mpc, cur, mw, owed, collided, triggers>>

Level == 1..Levels
PtrMod == 2 * Depth
Used(w, r) == (w + PtrMod - r) % PtrMod
Off == [pc |-> "off", work |-> NoWork, w |-> 0]

Init ==
    /\ pending = [x \in Works |-> FALSE]
    /\ executing = [x \in Works |-> FALSE]
    /\ rerun = [x \in Works |-> FALSE]
    /\ ring = [i \in 0..(Depth - 1) |-> NoWork]
    /\ w_ptr = 0 /\ r_ptr = 0
    /\ pending_drain = FALSE
    /\ isr = [l \in Level |-> Off]
    /\ mpc = "poll" /\ cur = NoWork /\ mw = 0
    /\ owed = {} /\ collided = FALSE
    /\ triggers = 0

-----------------------------------------------------------------------------
\* Interrupt side.

\* A producer about to write or publish finds that w_ptr moved since its load.
NoteStale(w) == collided' = (collided \/ w_ptr # w)

\* Level l is the one the processor executes.
Runs(l) == isr[l].pc # "off" /\ \A h \in Level : h > l => isr[h].pc = "off"
MainRuns == \A l \in Level : isr[l].pc = "off"
Step(l, pc) == isr' = [isr EXCEPT ![l].pc = pc]

\* interrupt_virtual_dispatch: a handler enters and its top half asks for the
\* bottom half x.
interrupt_virtual_dispatch(l, x) ==
    /\ triggers < MaxTriggers
    /\ \A h \in Level : h >= l => isr[h].pc = "off"
    /\ isr' = [isr EXCEPT ![l] = [pc |-> "cas", work |-> x, w |-> 0]]
    /\ triggers' = triggers + 1
    /\ UNCHANGED <<bits, fifo, pending_drain, mpc, cur, mw, owed, collided>>

\* bottom_half_submit_from_isr: claim the item with a CAS on pending.
ClaimAlways(l) ==
    LET x == isr[l].work
    IN  /\ Runs(l) /\ isr[l].pc = "cas"
        /\ pending' = [pending EXCEPT ![x] = TRUE]
        /\ Step(l, "fifo")
        /\ UNCHANGED <<executing, rerun, fifo, pending_drain, mpc, cur, mw, owed, collided, triggers>>
SubmitClaim(l) ==
    LET x == isr[l].work
    IN  /\ Runs(l) /\ isr[l].pc = "cas"
        /\ pending' = [pending EXCEPT ![x] = TRUE]
        /\ Step(l, IF pending[x] THEN "merge" ELSE "fifo")
        /\ UNCHANGED <<executing, rerun, fifo, pending_drain, mpc, cur, mw, owed, collided, triggers>>

\* The item was claimed already: record a rerun if its fn is executing.
SubmitMerge(l) ==
    LET x == isr[l].work
    IN  /\ Runs(l) /\ isr[l].pc = "merge"
        /\ Step(l, IF executing[x] THEN "rerun" ELSE "ok")
        /\ UNCHANGED <<bits, fifo, pending_drain, mpc, cur, mw, owed, collided, triggers>>
SubmitRerun(l) ==
    /\ Runs(l) /\ isr[l].pc = "rerun"
    /\ rerun' = [rerun EXCEPT ![isr[l].work] = TRUE]
    /\ Step(l, "ok")
    /\ UNCHANGED <<pending, executing, fifo, pending_drain, mpc, cur, mw, owed, collided, triggers>>

\* fifo_write_data: load the pointers, unless the fifo is full.
FifoLoad(l) ==
    /\ Runs(l) /\ isr[l].pc = "fifo"
    /\ IF Used(w_ptr, r_ptr) >= Depth
       THEN Step(l, "full")
       ELSE isr' = [isr EXCEPT ![l].pc = "put", ![l].w = w_ptr]
    /\ UNCHANGED <<bits, fifo, pending_drain, mpc, cur, mw, owed, collided, triggers>>
FifoPut(l) ==
    /\ Runs(l) /\ isr[l].pc = "put"
    /\ ring' = [ring EXCEPT ![isr[l].w % Depth] = isr[l].work]
    /\ NoteStale(isr[l].w)
    /\ Step(l, "publish")
    /\ UNCHANGED <<bits, w_ptr, r_ptr, pending_drain, mpc, cur, mw, owed, triggers>>
FifoPublish(l) ==
    /\ Runs(l) /\ isr[l].pc = "publish"
    /\ w_ptr' = (isr[l].w + 1) % PtrMod
    /\ NoteStale(isr[l].w)
    /\ Step(l, "ok")
    /\ UNCHANGED <<bits, ring, r_ptr, pending_drain, mpc, cur, mw, owed, triggers>>

\* A full fifo: give the claim back and return MINI_ERR_NOSPC, the flag unset.
SubmitNoSpace(l) ==
    /\ Runs(l) /\ isr[l].pc = "full"
    /\ pending' = [pending EXCEPT ![isr[l].work] = FALSE]
    /\ isr' = [isr EXCEPT ![l] = Off]
    /\ UNCHANGED <<executing, rerun, fifo, pending_drain, mpc, cur, mw, owed, collided, triggers>>

\* bottom_half_poller_submit got MINI_OK: set the flag, return from interrupt.
SubmitQuiet(l) ==
    /\ Runs(l) /\ isr[l].pc = "ok"
    /\ owed' = owed \cup {isr[l].work}
    /\ isr' = [isr EXCEPT ![l] = Off]
    /\ UNCHANGED <<bits, fifo, pending_drain, mpc, cur, mw, collided, triggers>>
SubmitOk(l) ==
    /\ Runs(l) /\ isr[l].pc = "ok"
    /\ pending_drain' = TRUE
    /\ owed' = owed \cup {isr[l].work}
    /\ isr' = [isr EXCEPT ![l] = Off]
    /\ UNCHANGED <<bits, fifo, mpc, cur, mw, collided, triggers>>

IsrStep(l) ==
    \/ SubmitClaim(l) \/ SubmitMerge(l) \/ SubmitRerun(l)
    \/ FifoLoad(l) \/ FifoPut(l) \/ FifoPublish(l) \/ SubmitNoSpace(l) \/ SubmitOk(l)

-----------------------------------------------------------------------------
\* Main loop side.

At(pc) == MainRuns /\ mpc = pc
MainKeeps == UNCHANGED <<isr, collided, triggers>>

\* bottom_half_poller_run: test and clear the flag before draining.
bottom_half_poller_run ==
    /\ At("poll") /\ pending_drain
    /\ pending_drain' = FALSE
    /\ mpc' = "read"
    /\ MainKeeps /\ UNCHANGED <<bits, fifo, cur, mw, owed>>

\* bottom_half_run_pending: the next item, or back to the main loop.
RunRead ==
    /\ At("read")
    /\ IF w_ptr = r_ptr
       THEN mpc' = "poll" /\ UNCHANGED <<r_ptr, cur>>
       ELSE /\ mpc' = "exec" /\ cur' = ring[r_ptr % Depth]
            /\ r_ptr' = (r_ptr + 1) % PtrMod
    /\ MainKeeps /\ UNCHANGED <<bits, ring, w_ptr, pending_drain, mw, owed>>

\* executing = true; fn(arg); executing = false -- also the inline run of a
\* rerun that found the fifo full.
FnAnnounce ==
    /\ mpc \in {"exec", "exec_inline"} /\ MainRuns
    /\ executing' = [executing EXCEPT ![cur] = TRUE]
    /\ mpc' = IF mpc = "exec" THEN "call" ELSE "call_inline"
    /\ MainKeeps /\ UNCHANGED <<pending, rerun, fifo, pending_drain, cur, mw, owed>>
FnStart ==
    /\ mpc \in {"call", "call_inline"} /\ MainRuns
    /\ owed' = owed \ {cur}
    /\ mpc' = IF mpc = "call" THEN "fn" ELSE "fn_inline"
    /\ MainKeeps /\ UNCHANGED <<bits, fifo, pending_drain, cur, mw>>
FnEnd ==
    /\ mpc \in {"fn", "fn_inline"} /\ MainRuns
    /\ executing' = [executing EXCEPT ![cur] = FALSE]
    /\ mpc' = IF mpc = "fn" THEN "unpend" ELSE "rerun"
    /\ MainKeeps /\ UNCHANGED <<pending, rerun, fifo, pending_drain, cur, mw, owed>>

UnpendSkipped ==
    /\ At("unpend")
    /\ mpc' = "rerun"
    /\ MainKeeps /\ UNCHANGED <<bits, fifo, pending_drain, cur, mw, owed>>
Unpend ==
    /\ At("unpend")
    /\ pending' = [pending EXCEPT ![cur] = FALSE]
    /\ mpc' = "rerun"
    /\ MainKeeps /\ UNCHANGED <<executing, rerun, fifo, pending_drain, cur, mw, owed>>

\* The exchange on rerun: replay a trigger that came during fn.
OneItemPerPoll ==
    /\ At("rerun")
    /\ rerun' = [rerun EXCEPT ![cur] = FALSE]
    /\ mpc' = IF rerun[cur] THEN "resubmit" ELSE "poll"
    /\ MainKeeps /\ UNCHANGED <<pending, executing, fifo, pending_drain, cur, mw, owed>>
TakeRerun ==
    /\ At("rerun")
    /\ rerun' = [rerun EXCEPT ![cur] = FALSE]
    /\ mpc' = IF rerun[cur] THEN "resubmit" ELSE "read"
    /\ MainKeeps /\ UNCHANGED <<pending, executing, fifo, pending_drain, cur, mw, owed>>

\* bottom_half_submit_rerun: claim, then the same fifo write as the handlers.
RerunClaim ==
    /\ At("resubmit")
    /\ pending' = [pending EXCEPT ![cur] = TRUE]
    /\ mpc' = IF pending[cur] THEN "read" ELSE "refifo"
    /\ MainKeeps /\ UNCHANGED <<executing, rerun, fifo, pending_drain, cur, mw, owed>>
RerunLoad ==
    /\ At("refifo")
    /\ mw' = w_ptr
    /\ mpc' = IF Used(w_ptr, r_ptr) >= Depth THEN "refull" ELSE "reput"
    /\ MainKeeps /\ UNCHANGED <<bits, fifo, pending_drain, cur, owed>>
RerunPut ==
    /\ At("reput")
    /\ ring' = [ring EXCEPT ![mw % Depth] = cur]
    /\ mpc' = "republish"
    /\ NoteStale(mw)
    /\ UNCHANGED <<isr, triggers, bits, w_ptr, r_ptr, pending_drain, cur, mw, owed>>
RerunPublish ==
    /\ At("republish")
    /\ w_ptr' = (mw + 1) % PtrMod
    /\ mpc' = "read"
    /\ NoteStale(mw)
    /\ UNCHANGED <<isr, triggers, bits, ring, r_ptr, pending_drain, cur, mw, owed>>

\* No room for the rerun: give the claim back and run the item here and now.
RerunNoSpace ==
    /\ At("refull")
    /\ pending' = [pending EXCEPT ![cur] = FALSE]
    /\ mpc' = "exec_inline"
    /\ MainKeeps /\ UNCHANGED <<executing, rerun, fifo, pending_drain, cur, mw, owed>>

MainStep ==
    \/ bottom_half_poller_run \/ RunRead \/ FnAnnounce \/ FnStart \/ FnEnd
    \/ Unpend \/ TakeRerun \/ RerunClaim \/ RerunLoad \/ RerunPut \/ RerunPublish
    \/ RerunNoSpace

Next ==
    \/ \E l \in Level, x \in Works : interrupt_virtual_dispatch(l, x)
    \/ \E l \in Level : IsrStep(l)
    \/ MainStep

Spec == Init /\ [][Next]_vars

\* Handlers run to their end and the main loop keeps polling: system_loop is
\* an endless loop and interrupts are bounded bursts.
LiveSpec == Spec /\ WF_vars(MainStep) /\ \A l \in Level : WF_vars(IsrStep(l))

-----------------------------------------------------------------------------
MainPcs == {"poll", "read", "exec", "call", "fn", "unpend", "rerun", "resubmit", "refifo",
            "reput", "republish", "refull", "exec_inline", "call_inline", "fn_inline"}

\* Every variable has its type; between reading an item and finishing it the
\* poller has a work, never an empty slot of the ring.
TypeOK ==
    /\ pending \in [Works -> BOOLEAN] /\ executing \in [Works -> BOOLEAN]
    /\ rerun \in [Works -> BOOLEAN]
    /\ ring \in [0..(Depth - 1) -> Works \cup {NoWork}]
    /\ w_ptr \in 0..(PtrMod - 1) /\ r_ptr \in 0..(PtrMod - 1)
    /\ pending_drain \in BOOLEAN
    /\ \A l \in Level : isr[l].work \in Works \cup {NoWork}
    /\ mpc \in MainPcs
    /\ mpc \notin {"poll", "read"} => cur \in Works
    /\ owed \subseteq Works

\* Offsets of the queued items, and the items themselves.
Queued == 0..(Used(w_ptr, r_ptr) - 1)
Item(i) == ring[(r_ptr + i) % Depth]

\* Coalescing: however many handlers and levels trigger an item, it is in the
\* fifo at most once, so a burst cannot overflow a fifo as deep as the number
\* of items.  Every variable has its type.
QueuedOnce == TypeOK /\ \A i, j \in Queued : Item(i) = Item(j) => i = j

\* The main loop never sleeps on a non-empty fifo: the flag is set, or the
\* loop is draining, or a handler that will set the flag is still active.
NoLostWakeup ==
    (w_ptr # r_ptr /\ mpc = "poll") => pending_drain \/ ~MainRuns

\* As long as no two producers of the fifo overlapped, an item marked pending
\* is really on its way: queued, being submitted, or in the hands of the main
\* loop.  Otherwise every later trigger would be merged into a run that never
\* comes and the item would be dead.
PendingAccounted ==
    ~collided => \A x \in Works : pending[x] =>
        \/ \E i \in Queued : Item(i) = x
        \/ \E l \in Level : isr[l].work = x /\ isr[l].pc \in {"fifo", "put", "publish", "full"}
        \/ cur = x /\ mpc \in {"exec", "call", "fn", "unpend", "refifo", "reput", "republish", "refull"}

\* A trigger whose submit returned MINI_OK is queued, or recorded as a rerun,
\* or its item's fn is about to start.
TriggerRecorded ==
    \A x \in owed :
        \/ \E i \in Queued : Item(i) = x
        \/ rerun[x]
        \/ cur = x /\ mpc \in {"exec", "call", "resubmit", "refifo", "reput", "republish",
                               "refull", "exec_inline", "call_inline"}

\* A queued item is eventually executed (unless two producers overlap): the
\* clear-flag-then-drain order of bottom_half_poller_run cannot strand it.
QueuedServed ==
    \A x \in Works : (\E i \in Queued : Item(i) = x) ~> (executing[x] \/ collided)
=============================================================================
