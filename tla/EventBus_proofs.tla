-------------------------- MODULE EventBus_proofs --------------------------
(***************************************************************************)
(* Subscriptions and delivery, for any number of posters and subscribers,  *)
(* any queue length and any table size.                                    *)
(***************************************************************************)
EXTENDS EventBus, TLAPS

Holding == {"write", "count", "unlock", "full"}
EntryType == [id : Events, due : SUBSET Subscribers]

\* The types an induction needs beyond TypeOK, and that a new bus is created
\* only while the bound on lives allows it.
Types ==
    /\ lives \in Nat /\ queue \in {0, lives} /\ lives <= MaxLives
    /\ boot = "init" => lives < MaxLives
    /\ items \in Seq(EntryType) /\ Len(items) <= K_QUEUE_LEN
    /\ ppc \in [Posters -> UserEvents \cup {None}]
    /\ spc \in [Subscribers -> Holding \cup {"idle", "lock", "failed", "done"}]
    /\ subscribed \subseteq Subscribers
    /\ sub_lock \in Subscribers \cup {"free", "dispatch"}
    /\ dpc \in {"none", "recv", "check", "lock", "snap", "call", "dead"}
    /\ dropped \in Nat

\* The table is filled from the front: up to count, up to the slot a
\* subscriber loaded, and with that slot once it is written.
Filled ==
    /\ table \in [0 .. K_MAX_SUBSCRIBERS - 1 -> Subscribers \cup {None}]
    /\ count \in 0 .. K_MAX_SUBSCRIBERS
    /\ \A i \in 0 .. count - 1 : table[i] \in Subscribers
    /\ slot \in [Subscribers -> 0 .. K_MAX_SUBSCRIBERS]
    /\ \A s \in Subscribers :
         /\ spc[s] \in {"write", "count"} => slot[s] < K_MAX_SUBSCRIBERS
         /\ spc[s] \in {"write", "count"} => \A i \in 0 .. slot[s] - 1 : table[i] \in Subscribers
         /\ spc[s] = "count" => table[slot[s]] \in Subscribers

\* In the first life of the bus the mutex is held by the thread inside, so the
\* slot it loaded is the current one and nobody's entry is behind count.
Guarded ==
    /\ lives = 0 => boot = "init" /\ dpc = "none" /\ \A s \in Subscribers : spc[s] = "idle"
    /\ lives <= 1 =>
         /\ \A s \in Subscribers :
              /\ spc[s] \in Holding => sub_lock = s
              /\ spc[s] \in {"write", "count"} => slot[s] = count
              /\ spc[s] = "count" => table[slot[s]] = s
              /\ s \in subscribed \/ spc[s] = "unlock" => \E i \in 0 .. count - 1 : table[i] = s
         /\ dpc = "snap" => sub_lock = "dispatch"

\* Whoever an event is due to had subscribed to it; while the dispatch task
\* works on one, they have been called or are still ahead in the snapshot.
Due ==
    /\ \A i \in 1 .. Len(items) : items[i].due \subseteq {s \in subscribed : items[i].id \in Wants[s]}
    /\ dpc \in {"check", "lock", "snap", "call"} =>
         event \in EntryType /\ event.due \subseteq {s \in subscribed : event.id \in Wants[s]}
    /\ dpc = "call" => snapshot \in Seq(Subscribers)
    /\ dpc = "call" /\ lives <= 1 =>
         \A s \in event.due : s \in called \/ \E i \in 1 .. Len(snapshot) : snapshot[i] = s

IInv == Types /\ Filled /\ Guarded

(* The bus before event_bus_init: no queue, no task, no subscriber. *)
LEMMA IInvInit == Init => IInv /\ Due
<1> SUFFICES ASSUME Init PROVE IInv /\ Due
    OBVIOUS
<1> USE EventBusAssumption DEF Init
<1>1. Types
    BY None \in {None} DEF Types, Holding
<1>2. Filled
    BY DEF Filled
<1>3. Guarded
    BY DEF Guarded, Holding
<1>4. Due
    BY DEF Due
<1> QED
    BY <1>1, <1>2, <1>3, <1>4 DEF IInv

\* What a send adds to the queue is an event with the subscribers it is due to.
LEMMA EntryTyped ==
    ASSUME subscribed \subseteq Subscribers, NEW id \in Events
    PROVE  /\ Entry(id) \in EntryType
           /\ Entry(id).due = {s \in subscribed : Entry(id).id \in Wants[s]}
BY DEF Entry, EntryType

\* mini_queue_send appends a typed event or counts a drop.
LEMMA SendTyped ==
    ASSUME Types, NEW id \in Events, NEW q, QueueSend(q, id)
    PROVE  items' \in Seq(EntryType) /\ Len(items') <= K_QUEUE_LEN /\ dropped' \in Nat
<1>1. CASE UNCHANGED items /\ dropped' = dropped + 1
    BY <1>1 DEF Types
<1>2. CASE items' = Append(items, Entry(id)) /\ Len(items) < K_QUEUE_LEN /\ UNCHANGED dropped
    <2>1. Entry(id) \in EntryType
        BY EntryTyped DEF Types
    <2> QED
        BY <1>2, <2>1, EventBusAssumption DEF Types
<1> QED
    BY <1>1, <1>2 DEF QueueSend, Types

\* Every step of the controlling thread keeps the types.
LEMMA TypesControl == ASSUME Types, Control PROVE Types'
<1> USE EventBusAssumption DEF Types, Ctl, CtlRest, tab, post, sub, disp, bus, ctl, Holding
<1>1. CASE event_bus_init
    BY <1>1 DEF event_bus_init
<1>2. CASE AnnounceBoot
    <2>1. "BOOT" \in Events
        BY DEF Events
    <2>2. items' \in Seq(EntryType) /\ Len(items') <= K_QUEUE_LEN /\ dropped' \in Nat
        BY <1>2, <2>1, SendTyped DEF AnnounceBoot, PostInOrder
    <2> QED
        BY <1>2, <2>2 DEF AnnounceBoot
<1>3. CASE AnnounceReady
    <2>1. "READY" \in Events
        BY DEF Events
    <2>2. items' \in Seq(EntryType) /\ Len(items') <= K_QUEUE_LEN /\ dropped' \in Nat
        BY <1>3, <2>1, SendTyped DEF AnnounceReady, PostInOrder
    <2> QED
        BY <1>3, <2>2 DEF AnnounceReady
<1>4. CASE mini_tree_pre_os_init
    BY <1>4 DEF mini_tree_pre_os_init
<1>5. CASE StartTask
    BY <1>5 DEF StartTask, Started
<1>6. CASE StoreHandle
    BY <1>6 DEF StoreHandle, Started
<1>7. CASE event_bus_seal
    BY <1>7 DEF event_bus_seal
<1>8. CASE StopClear
    BY <1>8 DEF StopClear
<1>9. CASE StopWake
    <2>1. Entry("FAULT") \in EntryType
        BY EntryTyped DEF Events
    <2>2. \/ UNCHANGED items
          \/ items' = Append(items, Entry("FAULT")) /\ Len(items) < K_QUEUE_LEN
        BY <1>9 DEF StopWake
    <2>3. /\ Append(items, Entry("FAULT")) \in Seq(EntryType)
          /\ Len(Append(items, Entry("FAULT"))) = Len(items) + 1
        BY <2>1
    <2>4. Len(items) \in Nat
        OBVIOUS
    <2>5. items' \in Seq(EntryType) /\ Len(items') <= K_QUEUE_LEN
        BY <2>2, <2>3, <2>4
    <2> QED
        BY <1>9, <2>5 DEF StopWake
<1>10. CASE StopExit \/ StopTimeout \/ StopKill
    BY <1>10 DEF StopExit, StopTimeout, StopKill
<1>11. CASE StopUninit
    BY <1>11 DEF StopUninit
<1>12. CASE StopDelete
    BY <1>12 DEF StopDelete
<1>13. CASE Restart
    BY <1>13 DEF Restart
<1>14. CASE InitFails
    BY <1>14 DEF InitFails
<1>15. CASE StartFails
    BY <1>15 DEF StartFails, Started
<1> QED
    BY <1>1, <1>2, <1>3, <1>4, <1>5, <1>6, <1>7, <1>8, <1>9, <1>10, <1>11, <1>12, <1>13, <1>14, <1>15 DEF Control

\* So does every step of a poster, a subscriber or the dispatch task.
LEMMA TypesNext == ASSUME Types, [Next]_vars PROVE Types'
<1> USE EventBusAssumption DEF Types, tab, post, sub, disp, bus, ctl, Holding
<1>1. CASE Control
    BY <1>1, TypesControl
<1>2. ASSUME NEW p \in Posters, PostSend(p) PROVE Types'
    <2>1. ppc[p] \in Events
        BY <1>2 DEF PostSend, Events
    <2>2. items' \in Seq(EntryType) /\ Len(items') <= K_QUEUE_LEN /\ dropped' \in Nat
        BY <1>2, <2>1, SendTyped DEF PostSend
    <2> QED
        BY <1>2, <2>2 DEF PostSend
<1>3. ASSUME NEW p \in Posters, PostRead(p) \/ \E id \in UserEvents : PostGate(p, id) PROVE Types'
    BY <1>3 DEF PostGate, PostRead
<1>4. ASSUME NEW s \in Subscribers, Subscribe(s) PROVE Types'
    BY <1>4 DEF Subscribe, SubRest, SubCheck, SubLock, SubWrite, SubCount, SubUnlock
<1>5. CASE Dispatch
    <2>1. CASE Receive
        <3>1. items' \in Seq(EntryType) /\ Len(items') = Len(items) - 1
            BY <2>1 DEF Receive
        <3> QED
            BY <2>1, <3>1 DEF Receive, DispRest
    <2>2. CASE ~Receive
        BY <1>5, <2>2 DEF Dispatch, DispRest, CheckTask, DispatchLock, Snapshot, Callback, NextEvent
    <2> QED
        BY <2>1, <2>2
<1>6. CASE UNCHANGED vars
    BY <1>6 DEF vars
<1> QED
    BY <1>1, <1>2, <1>3, <1>4, <1>5, <1>6 DEF Next

\* A subscriber writes the slot it loaded before counting it, so the table has
\* no hole below count, even when a restart let two subscribers in at once.
LEMMA FilledNext == ASSUME Types, Filled, [Next]_vars PROVE Filled'
<1> USE EventBusAssumption DEF Types, Filled, Holding
<1>1. ASSUME NEW s \in Subscribers, Subscribe(s) PROVE Filled'
    <2>1. CASE SubCheck(s)
        BY <2>1 DEF SubCheck, tab
    <2>2. CASE SubLock(s)
        <3>1. UNCHANGED <<table, count>>
            BY <2>2 DEF SubLock
        <3>2. CASE slot' = [slot EXCEPT ![s] = count]
                   /\ spc' = [spc EXCEPT ![s] = IF count < K_MAX_SUBSCRIBERS THEN "write" ELSE "full"]
            BY <3>1, <3>2
        <3>3. CASE UNCHANGED slot /\ spc' = [spc EXCEPT ![s] = "failed"]
            BY <3>1, <3>3
        <3> QED
            BY <2>2, <3>2, <3>3 DEF SubLock
    <2>3. CASE SubWrite(s)
        <3>1. /\ spc[s] = "write" /\ spc' = [spc EXCEPT ![s] = "count"]
              /\ table' = [table EXCEPT ![slot[s]] = s] /\ UNCHANGED <<count, slot>>
            BY <2>3 DEF SubWrite
        <3>2. /\ table' \in [0 .. K_MAX_SUBSCRIBERS - 1 -> Subscribers \cup {None}]
              /\ table'[slot[s]] = s
              /\ \A i \in 0 .. K_MAX_SUBSCRIBERS - 1 : table[i] \in Subscribers => table'[i] \in Subscribers
            BY <3>1
        <3>3. ASSUME NEW u \in Subscribers PROVE
              /\ spc'[u] \in {"write", "count"} => \A i \in 0 .. slot[u] - 1 : table'[i] \in Subscribers
              /\ spc'[u] = "count" => table'[slot[u]] \in Subscribers
            BY <3>1, <3>2
        <3> QED
            BY <3>1, <3>2, <3>3
    <2>4. CASE SubCount(s)
        BY <2>4 DEF SubCount
    <2>5. CASE SubUnlock(s)
        BY <2>5 DEF SubUnlock
    <2> QED
        BY <1>1, <2>1, <2>2, <2>3, <2>4, <2>5 DEF Subscribe
<1>2. CASE UNCHANGED <<table, count, slot, spc>>
    BY <1>2
<1>3. Control => UNCHANGED <<table, count, slot, spc>>
    BY DEF Control, CtlRest, tab, sub, event_bus_init, AnnounceBoot, mini_tree_pre_os_init, StartTask,
        StoreHandle, AnnounceReady, event_bus_seal, StopClear, StopWake, StopExit, StopTimeout, StopKill,
        StopUninit, StopDelete, Restart, InitFails, StartFails
<1>4. Dispatch => UNCHANGED <<table, count, slot, spc>>
    BY DEF Dispatch, DispRest, tab, sub, Receive, CheckTask, DispatchLock, Snapshot, Callback, NextEvent
<1>5. \A p \in Posters : (PostRead(p) \/ PostSend(p) \/ \E id \in UserEvents : PostGate(p, id))
                         => UNCHANGED <<table, count, slot, spc>>
    BY DEF PostRead, PostSend, PostGate, tab, sub
<1>6. UNCHANGED vars => UNCHANGED <<table, count, slot, spc>>
    BY DEF vars, tab, sub
<1> QED
    BY <1>1, <1>2, <1>3, <1>4, <1>5, <1>6 DEF Next

\* In the first life every subscriber works on the table under the mutex.
LEMMA GuardedNext == ASSUME Types, Filled, Guarded, [Next]_vars PROVE Guarded'
<1> USE EventBusAssumption DEF Types, Filled, Guarded, Holding, tab, sub, ctl, disp
<1>1. ASSUME NEW s \in Subscribers, Subscribe(s) PROVE Guarded'
    <2> USE DEF SubRest
    <2>1. CASE SubCheck(s)
        <3>1. UNCHANGED <<lives, boot, dpc, tab, slot, subscribed>> /\ spc' = [spc EXCEPT ![s] = "lock"]
            BY <2>1 DEF SubCheck
        <3>2. lives # 0 /\ spc[s] = "idle"
            BY <2>1 DEF SubCheck
        <3> QED
            BY <3>1, <3>2
    <2>2. CASE SubLock(s)
        <3>1. UNCHANGED <<lives, boot, dpc, table, count, subscribed>> /\ lives # 0 /\ spc[s] = "lock"
            BY <2>2 DEF SubLock
        <3>2. CASE /\ sub_lock = "free" /\ sub_lock' = s /\ slot' = [slot EXCEPT ![s] = count]
                   /\ spc' = [spc EXCEPT ![s] = IF count < K_MAX_SUBSCRIBERS THEN "write" ELSE "full"]
            <4>1. ASSUME lives <= 1 PROVE dpc # "snap" /\ \A u \in Subscribers : spc[u] \notin Holding
                BY <3>2, <4>1
            <4> QED
                BY <3>1, <3>2, <4>1, Zenon
        <3>3. CASE UNCHANGED <<sub_lock, slot>> /\ spc' = [spc EXCEPT ![s] = "failed"]
            BY <3>1, <3>3
        <3> QED
            BY <2>2, <3>2, <3>3 DEF SubLock
    <2>3. CASE SubWrite(s)
        <3>1. /\ spc[s] = "write" /\ spc' = [spc EXCEPT ![s] = "count"] /\ lives # 0
              /\ table' = [table EXCEPT ![slot[s]] = s]
              /\ UNCHANGED <<lives, dpc, sub_lock, count, slot, subscribed>>
            BY <2>3 DEF SubWrite
        <3>2. table'[slot[s]] = s
            BY <3>1
        <3>3. ASSUME lives <= 1 PROVE \A i \in 0 .. count - 1 : table'[i] = table[i]
            BY <3>1, <3>3
        <3>4. ASSUME lives <= 1, NEW u \in Subscribers, u # s PROVE spc[u] \notin Holding
            BY <3>1, <3>4
        <3> QED
            BY <3>1, <3>2, <3>3, <3>4
    <2>4. CASE SubCount(s)
        <3>1. /\ spc[s] = "count" /\ spc' = [spc EXCEPT ![s] = "unlock"] /\ lives # 0
              /\ count' = slot[s] + 1
              /\ UNCHANGED <<lives, dpc, sub_lock, table, slot, subscribed>>
            BY <2>4 DEF SubCount
        <3>2. ASSUME lives <= 1 PROVE count' = count + 1 /\ table[count] = s /\ count \in 0 .. count' - 1
            BY <3>1, <3>2
        <3>3. ASSUME lives <= 1, NEW u \in Subscribers, u # s PROVE spc[u] \notin Holding
            BY <3>1, <3>3
        <3> QED
            BY <3>1, <3>2, <3>3
    <2>5. CASE SubUnlock(s)
        <3>1. /\ spc[s] \in {"unlock", "full"} /\ lives # 0
              /\ spc' = [spc EXCEPT ![s] = IF spc[s] = "unlock" THEN "done" ELSE "failed"]
              /\ subscribed' = IF spc[s] = "unlock" THEN subscribed \cup {s} ELSE subscribed
              /\ sub_lock' = IF sub_lock = s THEN "free" ELSE sub_lock
              /\ UNCHANGED <<lives, dpc, table, count, slot>>
            BY <2>5 DEF SubUnlock
        <3>2. ASSUME lives <= 1, NEW u \in Subscribers, u # s PROVE spc[u] \notin Holding
            BY <3>1, <3>2
        <3> QED
            BY <3>1, <3>2, Zenon
    <2> QED
        BY <1>1, <2>1, <2>2, <2>3, <2>4, <2>5 DEF Subscribe
<1>2. CASE event_bus_init
    <2>1. lives' = lives + 1 /\ UNCHANGED <<table, count, sub, dpc>>
        BY <1>2 DEF event_bus_init
    <2>2. CASE lives = 0
        BY <1>2, <2>1, <2>2 DEF event_bus_init
    <2> QED
        BY <2>1, <2>2
<1>3. CASE Dispatch
    <2>1. UNCHANGED <<lives, table, count, sub>>
        BY <1>3 DEF Dispatch, DispRest, Receive, CheckTask, DispatchLock, Snapshot, Callback, NextEvent
    <2>2. \/ UNCHANGED sub_lock /\ dpc' # "snap"
          \/ sub_lock = "free" /\ sub_lock' = "dispatch"
          \/ dpc = "snap" /\ sub_lock' = "free" /\ dpc' # "snap"
        BY <1>3 DEF Dispatch, DispRest, Receive, CheckTask, DispatchLock, Snapshot, Callback, NextEvent
    <2>3. ASSUME lives <= 1, NEW u \in Subscribers, spc[u] \in Holding PROVE sub_lock' = sub_lock
        BY <2>2, <2>3
    <2>4. dpc # "none"
        BY <1>3 DEF Dispatch, Receive, CheckTask, DispatchLock, Snapshot, Callback, NextEvent
    <2> QED
        BY <2>1, <2>2, <2>3, <2>4, Zenon
<1>4. CASE /\ UNCHANGED <<lives, tab, sub>> /\ (dpc' = "snap" => dpc = "snap")
           /\ lives # 0 \/ UNCHANGED <<boot, dpc>>
    BY <1>4
<1>5. CASE Control /\ ~event_bus_init /\ ~InitFails
    <2>1. lives # 0
        BY <1>5 DEF Control, Ctl, AnnounceBoot, mini_tree_pre_os_init, StartTask,
            StoreHandle, AnnounceReady, event_bus_seal, StopClear, StopWake, StopExit, StopTimeout, StopKill,
            StopUninit, StopDelete, Restart, StartFails
    <2>2. UNCHANGED <<lives, tab, sub>> /\ (dpc' = "snap" => dpc = "snap")
        BY <1>5, Zenon DEF Control, CtlRest, AnnounceBoot, mini_tree_pre_os_init, StartTask,
            StoreHandle, AnnounceReady, event_bus_seal, StopClear, StopWake, StopExit, StopTimeout, StopKill,
            StopUninit, StopDelete, Restart, StartFails
    <2> QED
        BY <1>4, <2>1, <2>2
<1>6. \A p \in Posters : (PostRead(p) \/ PostSend(p) \/ \E id \in UserEvents : PostGate(p, id))
                         => UNCHANGED <<lives, tab, sub>> /\ UNCHANGED <<boot, dpc>>
    BY Zenon DEF PostRead, PostSend, PostGate
<1>7. UNCHANGED vars => UNCHANGED <<lives, tab, sub>> /\ UNCHANGED <<boot, dpc>>
    BY DEF vars
<1>8. CASE InitFails
    <2>1. UNCHANGED <<lives, tab, sub, dpc>> /\ (lives = 0 => boot' = boot)
        BY <1>8 DEF InitFails, Ctl
    <2> QED
        BY <1>4, <2>1
<1> QED
    BY <1>1, <1>2, <1>3, <1>4, <1>5, <1>6, <1>7, <1>8 DEF Next

\* What a send appends is due to subscribers only, and the rest of the queue
\* stays as it was.
LEMMA SendDue ==
    ASSUME Types, Due, NEW id \in Events, UNCHANGED subscribed,
           UNCHANGED items \/ items' = Append(items, Entry(id)),
           NEW i \in 1 .. Len(items')
    PROVE  items'[i].due \subseteq {s \in subscribed : items'[i].id \in Wants[s]}
<1>1. CASE UNCHANGED items
    BY <1>1 DEF Due
<1>2. CASE items' = Append(items, Entry(id))
    <2>1. /\ Entry(id) \in EntryType
          /\ Entry(id).due = {s \in subscribed : Entry(id).id \in Wants[s]}
        BY EntryTyped DEF Types
    <2>2. items \in Seq(EntryType) /\ Len(items) \in Nat
        BY DEF Types
    <2>3. /\ Len(Append(items, Entry(id))) = Len(items) + 1
          /\ Append(items, Entry(id))[Len(items) + 1] = Entry(id)
          /\ \A j \in 1 .. Len(items) : Append(items, Entry(id))[j] = items[j]
        BY <2>1, <2>2
    <2>4. i = Len(items) + 1 \/ i \in 1 .. Len(items)
        BY <1>2, <2>2, <2>3
    <2>5. CASE i = Len(items) + 1
        BY <1>2, <2>1, <2>3, <2>5
    <2>6. CASE i \in 1 .. Len(items)
        BY <1>2, <2>3, <2>6 DEF Due
    <2> QED
        BY <2>4, <2>5, <2>6
<1> QED
    BY <1>1, <1>2

\* Delivery: an event is due to subscribers that are in the table, and the
\* snapshot taken for it has all of them.
LEMMA DueNext == ASSUME IInv, Due, [Next]_vars PROVE Due'
<1> USE EventBusAssumption DEF IInv
<1>1. ASSUME UNCHANGED <<lives, subscribed, disp>>,
             NEW id \in Events, UNCHANGED items \/ items' = Append(items, Entry(id))
      PROVE  Due'
    <2>1. \A i \in 1 .. Len(items') : items'[i].due \subseteq {s \in subscribed : items'[i].id \in Wants[s]}
        BY <1>1, SendDue
    <2> QED
        BY <1>1, <2>1 DEF Due, disp
<1>2. ASSUME items' = <<>>, UNCHANGED <<subscribed, disp>>, lives' \in {lives, lives + 1} PROVE Due'
    <2>1. 1 .. Len(items') = {}
        BY <1>2
    <2>2. lives' <= 1 => lives <= 1
        BY <1>2 DEF Types
    <2> QED
        BY <1>2, <2>1, <2>2 DEF Due, disp
<1>3. ASSUME UNCHANGED <<lives, subscribed, items>>, UNCHANGED <<event, snapshot, called>>,
             dpc' \in {"recv", "dead"} \/ dpc' = dpc \/ (dpc = "check" /\ dpc' = "lock") \/ (dpc = "lock" /\ dpc' = "snap")
      PROVE  Due'
    BY <1>3 DEF Due
<1>4. ASSUME NEW s \in Subscribers, Subscribe(s) PROVE Due'
    <2>1. UNCHANGED <<lives, items, disp>>
        BY <1>4 DEF Subscribe, SubRest, SubCheck, SubLock, SubWrite, SubCount, SubUnlock, ctl
    <2>2. subscribed \subseteq subscribed'
        BY <1>4 DEF Subscribe, SubCheck, SubLock, SubWrite, SubCount, SubUnlock
    <2>3. \A i \in 1 .. Len(items) : items[i].due \subseteq {u \in subscribed' : items[i].id \in Wants[u]}
        BY <2>2 DEF Due
    <2> QED
        BY <2>1, <2>2, <2>3 DEF Due, disp
<1>5. CASE Receive
    <2>1. items \in Seq(EntryType) /\ items # <<>> /\ items' = Tail(items) /\ event' = Head(items)
        BY <1>5 DEF Receive, Types
    <2>2. /\ Len(items) \in Nat \ {0} /\ Len(items') = Len(items) - 1
          /\ \A i \in 1 .. Len(items') : items'[i] = items[i + 1]
          /\ event' = items[1] /\ event' \in EntryType
        BY <2>1
    <2>3. UNCHANGED <<lives, subscribed>> /\ dpc' = "check"
        BY <1>5 DEF Receive, DispRest, sub, ctl
    <2>4. \A i \in 1 .. Len(items') : items'[i].due \subseteq {s \in subscribed : items'[i].id \in Wants[s]}
        <3> SUFFICES ASSUME NEW i \in 1 .. Len(items')
                     PROVE  items'[i].due \subseteq {s \in subscribed : items'[i].id \in Wants[s]}
            OBVIOUS
        <3>1. i + 1 \in 1 .. Len(items) /\ items'[i] = items[i + 1]
            BY <2>2
        <3> QED
            BY <3>1, Zenon DEF Due
    <2>5. event'.due \subseteq {s \in subscribed : event'.id \in Wants[s]}
        BY <2>2 DEF Due
    <2> QED
        BY <2>2, <2>3, <2>4, <2>5, Zenon DEF Due
<1>6. CASE Snapshot
    <2>1. /\ snapshot' = [i \in 1 .. count |-> table[i - 1]] /\ dpc = "snap" /\ dpc' = "call"
          /\ UNCHANGED <<lives, subscribed, items, event>>
        BY <1>6 DEF Snapshot, DispRest, sub, ctl
    <2>2. /\ count \in Nat /\ \A i \in 1 .. count : table[i - 1] \in Subscribers
        BY DEF Filled
    <2>3. snapshot' \in Seq(Subscribers) /\ Len(snapshot') = count
        BY <2>1, <2>2
    <2>4. ASSUME lives <= 1, NEW s \in event.due PROVE \E i \in 1 .. Len(snapshot') : snapshot'[i] = s
        <3>1. s \in subscribed /\ s \in Subscribers
            BY <2>1 DEF Due, Types
        <3>2. PICK j \in 0 .. count - 1 : table[j] = s
            BY <2>4, <3>1 DEF Guarded
        <3>3. j + 1 \in 1 .. Len(snapshot') /\ snapshot'[j + 1] = s
            BY <2>1, <2>2, <2>3, <3>2
        <3> QED
            BY <3>3
    <2> QED
        BY <2>1, <2>3, <2>4, Zenon DEF Due
<1>7. CASE Callback
    <2>1. /\ dpc = "call" /\ snapshot # <<>> /\ snapshot' = Tail(snapshot)
          /\ called' = IF event.id \in Wants[Head(snapshot)] THEN called \cup {Head(snapshot)} ELSE called
          /\ UNCHANGED <<lives, subscribed, items, event, dpc>>
        BY <1>7 DEF Callback, DispRest, sub, ctl
    <2>2. snapshot \in Seq(Subscribers)
        BY <2>1 DEF Due
    <2>3. /\ Len(snapshot) \in Nat \ {0} /\ Len(snapshot') = Len(snapshot) - 1
          /\ snapshot' \in Seq(Subscribers) /\ Head(snapshot) = snapshot[1]
          /\ \A i \in 1 .. Len(snapshot') : snapshot'[i] = snapshot[i + 1]
        BY <2>1, <2>2
    <2>4. ASSUME lives <= 1, NEW s \in event.due
          PROVE  s \in called' \/ \E i \in 1 .. Len(snapshot') : snapshot'[i] = s
        <3>1. event.id \in Wants[s] /\ (s \in called \/ \E i \in 1 .. Len(snapshot) : snapshot[i] = s)
            BY <2>1, <2>4 DEF Due
        <3>2. CASE s \in called \/ snapshot[1] = s
            BY <2>1, <2>3, <3>1, <3>2
        <3>3. ASSUME NEW i \in 1 .. Len(snapshot), snapshot[i] = s, i # 1
              PROVE  i - 1 \in 1 .. Len(snapshot') /\ snapshot'[i - 1] = s
            BY <2>3, <3>3
        <3> QED
            BY <3>1, <3>2, <3>3
    <2> QED
        BY <2>1, <2>3, <2>4 DEF Due
<1>8. CASE Control
    <2> USE DEF CtlRest, ctl, bus, sub, disp
    <2>1. CASE event_bus_init \/ StopDelete
        BY <1>2, <2>1 DEF event_bus_init, StopDelete
    <2>2. CASE AnnounceBoot \/ AnnounceReady \/ StopWake
        <3>1. \E id \in {"BOOT", "READY", "FAULT"} : UNCHANGED items \/ items' = Append(items, Entry(id))
            BY <2>2 DEF AnnounceBoot, AnnounceReady, StopWake, PostInOrder, QueueSend
        <3>2. UNCHANGED <<lives, subscribed, disp>>
            BY <2>2 DEF AnnounceBoot, AnnounceReady, StopWake
        <3> QED
            BY <1>1, <3>1, <3>2 DEF Events
    <2>3. CASE \/ mini_tree_pre_os_init \/ StartTask \/ StoreHandle \/ event_bus_seal
               \/ StopClear \/ StopExit \/ StopTimeout \/ StopKill \/ StopUninit \/ Restart
               \/ InitFails \/ StartFails
        BY <1>3, <2>3 DEF mini_tree_pre_os_init, StartTask, StoreHandle, event_bus_seal, StopClear,
            StopExit, StopTimeout, StopKill, StopUninit, Restart, InitFails, StartFails
    <2> QED
        BY <1>8, <2>1, <2>2, <2>3 DEF Control
<1>9. ASSUME NEW p \in Posters, PostSend(p) PROVE Due'
    <2>1. ppc[p] \in Events /\ (UNCHANGED items \/ items' = Append(items, Entry(ppc[p])))
        BY <1>9, Zenon DEF PostSend, QueueSend, Events, Types
    <2>2. UNCHANGED <<lives, subscribed, disp>>
        BY <1>9 DEF PostSend, ctl, sub
    <2> QED
        BY <1>1, <2>1, <2>2
<1>10. ASSUME NEW p \in Posters, PostRead(p) \/ \E id \in UserEvents : PostGate(p, id) PROVE Due'
    BY <1>3, <1>10 DEF PostRead, PostGate, ctl, sub, disp
<1>11. CASE CheckTask \/ DispatchLock \/ NextEvent
    BY <1>3, <1>11 DEF CheckTask, DispatchLock, NextEvent, DispRest, ctl, sub
<1>12. CASE UNCHANGED vars
    BY <1>3, <1>12 DEF vars, ctl, sub, disp
<1> QED
    BY <1>4, <1>5, <1>6, <1>7, <1>8, <1>9, <1>10, <1>11, <1>12 DEF Next, Dispatch

(* Every step of boot, subscribers, posters and the dispatch task keeps it. *)
LEMMA IInvNext == IInv /\ Due /\ [Next]_vars => (IInv /\ Due)'
BY TypesNext, FilledNext, GuardedNext, DueNext DEF IInv

(* The inductive invariant holds in every state the bus reaches. *)
LEMMA Invariance == Spec => [](IInv /\ Due)
BY IInvInit, IInvNext, PTL DEF Spec

\* Subscribers that race for the table never overwrite each other's entry, and
\* queue and table stay within their capacities (event_bus_subscribe,
\* event_bus_post_internal).
THEOREM SubscribersKept == Spec => []SubscriptionKept
<1>1. IInv => SubscriptionKept
    BY EventBusAssumption DEF IInv, Types, Filled, Guarded, SubscriptionKept, TypeOK, EntryType
<1> QED
    BY <1>1, Invariance, PTL

\* event_bus_dispatch_task calls back everybody who had subscribed before an
\* event was queued.
THEOREM EveryoneCalled == Spec => []DeliveredToAll
<1>1. Due => DeliveredToAll
    BY DEF Due, DeliveredToAll
<1> QED
    BY <1>1, Invariance, PTL
=============================================================================
