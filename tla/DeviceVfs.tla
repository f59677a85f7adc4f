----------------------------- MODULE DeviceVfs -----------------------------
(***************************************************************************)
(* One VFS client device: the status machine and the recursive per-device  *)
(* mutex of board/src/board_device.c, composed with the client driver      *)
(* vfs/uart/vfs-uart.c and, through DevLifecycle, with every atomic step   *)
(* of its life cycle.  The device is probed, threads open, close, read,    *)
(* write, suspend and resume it, and one thread removes it.                *)
(*                                                                         *)
(* A device_* call takes the mutex, checks ops and status, fetches the     *)
(* driver's function from ops, and only then enters the life cycle: each   *)
(* of these is a step.  A lock may time out whenever somebody else holds   *)
(* the mutex: a call then returns having done nothing, the remover goes    *)
(* on.  The UART bus is external: it is open or not, and opening it may    *)
(* fail.                                                                   *)
(***************************************************************************)
EXTENDS DevLifecycle

ASSUME DeviceVfsAssumption == "free" \notin Users

VARIABLES status, ops,              \* pdev->status, pdev->ops # NULL
          lock,                     \* holder of pdev->lock, or "free"
          slot,                     \* the driver's pool slot, which holds
                                    \* the table ops points to, is claimed
          bus_open,                 \* uart_bus_open without its close
          threadPc,                 \* per thread: step of its call
          removePc                  \* step of the probe and of the remove

dev == <<status, ops>>
vars == <<lifeVars, dev, lock, slot, bus_open, threadPc, removePc>>

Statuses == {"READY", "PROBED", "RUNNING", "SUSPENDED", "REMOVED", "ERROR"}
Calls == {"open", "close", "io", "suspend", "resume"}
Steps == Calls \cup {"idle", "open_call", "open_begin", "bus_open", "close_call", "close_begin",
                     "bus_close", "io_call", "io_begin", "transfer", "fault"}

\* device_status_can_transit, for the states a probed device can be in.
Allowed ==
    [s \in Statuses |->
        CASE s = "READY"     -> {"PROBED", "ERROR"}
          [] s = "PROBED"    -> {"RUNNING", "SUSPENDED", "READY", "REMOVED", "ERROR"}
          [] s = "RUNNING"   -> {"SUSPENDED", "READY", "REMOVED", "ERROR", "PROBED"}
          [] s = "SUSPENDED" -> {"RUNNING", "READY", "REMOVED", "ERROR"}
          [] s = "ERROR"     -> {"REMOVED"}
          [] s = "REMOVED"   -> {"READY"}]
\* device_set_status: an illegal transition is refused; every caller below
\* ignores the result.
device_set_status(to) == status' = IF to \in Allowed[status] THEN to ELSE status

\* device_tree_init has made the mutex and reset the life cycle.
Init ==
    /\ LifeInit
    /\ status = "READY" /\ ops = FALSE
    /\ lock = "free"
    /\ slot = FALSE /\ bus_open = FALSE
    /\ threadPc = [t \in Users |-> "idle"]
    /\ removePc = "absent"

-----------------------------------------------------------------------------
\* The calls of thread t.

\* device_lock.
Enter(t, call) ==
    /\ threadPc[t] = "idle" /\ lock = "free"
    /\ lock' = t
    /\ threadPc' = [threadPc EXCEPT ![t] = call]
    /\ UNCHANGED <<lifeVars, dev, slot, bus_open, removePc>>
At(t, pc) == threadPc[t] = pc
Goto(t, pc) == threadPc' = [threadPc EXCEPT ![t] = pc] /\ UNCHANGED lock
\* device_unlock at the end of a call.
Return(t) == threadPc' = [threadPc EXCEPT ![t] = "idle"] /\ lock' = "free"

\* The checks of device_open, device_close and of the transfers (device_write,
\* device_read, device_ioctl) under the mutex.  A table in a released slot is
\* all zero, and a zero entry is refused like a missing table.
Checked(t, call, statuses, next) ==
    /\ At(t, call)
    /\ IF ops /\ slot /\ status \in statuses THEN Goto(t, next) ELSE Return(t)
    /\ UNCHANGED <<lifeVars, dev, slot, bus_open, removePc>>
OpenCheck(t) == Checked(t, "open", {"PROBED"}, "open_call")   \* RUNNING already: MINI_OK
CloseCheck(t) == Checked(t, "close", {"RUNNING", "SUSPENDED"}, "close_call")
IoCheck(t) == Checked(t, "io", {"RUNNING"}, "io_call")

\* pdev->ops->fn is read again and called.  In a slot released since the check
\* it is zero, and calling it is a HardFault, unless the compiler kept the
\* pointer the check read.
Dispatch(t, pc, next) ==
    /\ At(t, pc)
    /\ \/ Goto(t, next)
       \/ ~slot /\ Goto(t, "fault")
    /\ UNCHANGED <<lifeVars, dev, slot, bus_open, removePc>>

\* dev_lc_open_begin and dev_lc_io_begin, step by step, on behalf of a call.
BeginOn(t, pc, c, next) ==
    /\ At(t, pc)
    /\ \/ BeginLoad(t, c) /\ Goto(t, pc)
       \/ upc[t] = "idle" /\ cnt[c] < 0 /\ Return(t) /\ UNCHANGED lifeVars
       \/ BeginGate(t) /\ IF state = "LIVE" THEN Goto(t, pc) ELSE Return(t)
       \/ BeginCas(t) /\ Goto(t, IF cnt[c] = old[t] THEN next ELSE pc)
    /\ UNCHANGED <<dev, slot, bus_open, removePc>>

\* uart_vfs_open: the first opener opens the bus, and a failure aborts the
\* open.
OpenBegin(t) == BeginOn(t, "open_begin", "opens", "bus_open")
OpenOk(t) ==
    /\ At(t, "bus_open")
    /\ bus_open' = (bus_open \/ old[t] = 0)
    /\ device_set_status("RUNNING")
    /\ Return(t)
    /\ UNCHANGED <<lifeVars, ops, slot, removePc>>
AbortForgotten(t) ==
    /\ At(t, "bus_open") /\ old[t] = 0
    /\ Return(t)
    /\ UNCHANGED <<lifeVars, dev, slot, bus_open, removePc>>
OpenAbort(t) ==
    /\ At(t, "bus_open") /\ old[t] = 0
    /\ DropRef(t, "opens")
    /\ Return(t)
    /\ UNCHANGED <<dev, slot, bus_open, removePc>>

\* uart_vfs_close: dev_lc_close_begin, then the last close shuts the bus.
CloseBegin(t) ==
    /\ At(t, "close_begin")
    /\ \/ CloseLoad(t) /\ Goto(t, "close_begin")
       \/ upc[t] = "idle" /\ cnt["opens"] <= 0 /\ Return(t) /\ UNCHANGED lifeVars
       \/ CloseCas(t) /\ Goto(t, IF cnt["opens"] = old[t] THEN "bus_close" ELSE "close_begin")
    /\ UNCHANGED <<dev, slot, bus_open, removePc>>
CloseEnd(t) ==
    /\ At(t, "bus_close")
    /\ bus_open' = (bus_open /\ old[t] # 1)
    /\ device_set_status("PROBED")
    /\ Return(t)
    /\ UNCHANGED <<lifeVars, ops, slot, removePc>>

\* uart_vfs_write, _read and _ioctl.
IoBegin(t) == BeginOn(t, "io_begin", "io_active", "transfer")
IoEndForgotten(t) ==
    /\ At(t, "transfer")
    /\ Return(t)
    /\ UNCHANGED <<lifeVars, dev, slot, bus_open, removePc>>
IoEnd(t) ==
    /\ At(t, "transfer")
    /\ DropRef(t, "io_active")
    /\ Return(t)
    /\ UNCHANGED <<dev, slot, bus_open, removePc>>

\* device_suspend and device_resume; the UART client has no suspend hooks.
device_suspend(t) ==
    /\ At(t, "suspend")
    /\ IF status = "RUNNING" THEN device_set_status("SUSPENDED") ELSE UNCHANGED status
    /\ Return(t)
    /\ UNCHANGED <<lifeVars, ops, slot, bus_open, removePc>>
device_resume(t) ==
    /\ At(t, "resume")
    /\ IF status = "SUSPENDED" THEN device_set_status("RUNNING") ELSE UNCHANGED status
    /\ Return(t)
    /\ UNCHANGED <<lifeVars, ops, slot, bus_open, removePc>>

device_open(t) ==
    OpenCheck(t) \/ Dispatch(t, "open_call", "open_begin") \/ OpenBegin(t) \/ OpenOk(t) \/ OpenAbort(t)
device_close(t) ==
    CloseCheck(t) \/ Dispatch(t, "close_call", "close_begin") \/ CloseBegin(t) \/ CloseEnd(t)
device_io(t) ==
    IoCheck(t) \/ Dispatch(t, "io_call", "io_begin") \/ IoBegin(t) \/ IoEnd(t)
InCall(t) ==
    device_open(t) \/ device_close(t) \/ device_io(t) \/ device_suspend(t) \/ device_resume(t)

-----------------------------------------------------------------------------
\* device_tree_init binds the life cycle, board_driver_probe_all probes the
\* device and sets its status, unless the mutex times out.
BindDevice == removePc = "absent" /\ Bind /\ UNCHANGED <<dev, lock, slot, bus_open, threadPc, removePc>>
uart_vfs_probe ==
    /\ removePc = "absent" /\ rpc = "live"
    /\ slot' = TRUE /\ ops' = TRUE
    /\ removePc' = "probing"
    /\ UNCHANGED <<lifeVars, status, lock, bus_open, threadPc>>
SetProbed ==
    /\ removePc = "probing"
    /\ IF lock = "free" THEN device_set_status("PROBED") ELSE UNCHANGED status
    /\ removePc' = "probed"
    /\ UNCHANGED <<lifeVars, ops, lock, slot, bus_open, threadPc>>

-----------------------------------------------------------------------------
\* board_driver_remove_all -> uart_vfs_remove.
RemoveStart ==
    /\ removePc = "probed" /\ status \in {"PROBED", "RUNNING", "SUSPENDED"}
    /\ dev_lc_remove_start
    /\ removePc' = "mark"
    /\ UNCHANGED <<dev, lock, slot, bus_open, threadPc>>

\* device_ops_unregister: mark REMOVED under the mutex, broadcast without it,
\* then cut ops under it again; a timeout ends the function early.
MarkUnlocked ==
    /\ removePc = "mark"
    /\ device_set_status("REMOVED")
    /\ removePc' = "cut"
    /\ UNCHANGED <<lifeVars, ops, lock, slot, bus_open, threadPc>>
UnregisterMark ==
    /\ removePc = "mark" /\ lock = "free"
    /\ device_set_status("REMOVED")
    /\ removePc' = "cut"
    /\ UNCHANGED <<lifeVars, ops, lock, slot, bus_open, threadPc>>
UnregisterCut ==
    /\ removePc = "cut" /\ lock = "free"
    /\ ops' = FALSE
    /\ removePc' = "drain"
    /\ UNCHANGED <<lifeVars, status, lock, slot, bus_open, threadPc>>
UnregisterTimeout ==
    /\ removePc \in {"mark", "cut"} /\ lock # "free"
    /\ removePc' = "drain"
    /\ UNCHANGED <<lifeVars, dev, lock, slot, bus_open, threadPc>>

\* dev_lc_remove_drain with MINI_WAIT_FOREVER; client unregistered, private
\* data cleared, pool slot released; dev_lc_remove_finish.
RemoveDrain == removePc = "drain" /\ Drain /\ UNCHANGED <<dev, lock, slot, bus_open, threadPc, removePc>>
FreeSlot ==
    /\ removePc = "drain" /\ rpc = "drained"
    /\ slot' = FALSE
    /\ removePc' = "finish"
    /\ UNCHANGED <<lifeVars, dev, lock, bus_open, threadPc>>
RemoveFinish ==
    /\ removePc = "finish"
    /\ \/ (ResetOpens \/ ResetIo) /\ UNCHANGED removePc
       \/ ResetState /\ removePc' = "removed"
    /\ UNCHANGED <<dev, lock, slot, bus_open, threadPc>>

device_ops_unregister == UnregisterMark \/ UnregisterCut \/ UnregisterTimeout
uart_vfs_remove == device_ops_unregister \/ RemoveDrain \/ FreeSlot \/ RemoveFinish

Next ==
    \/ \E t \in Users : InCall(t) \/ \E call \in Calls : Enter(t, call)
    \/ BindDevice \/ uart_vfs_probe \/ SetProbed
    \/ RemoveStart
    \/ uart_vfs_remove

Spec == Init /\ [][Next]_vars

\* A call that has the mutex goes on to its end (or faults), and a started
\* remove keeps polling.
LiveSpec ==
    /\ Spec
    /\ WF_vars(uart_vfs_remove)
    /\ \A t \in Users : WF_vars(InCall(t))

-----------------------------------------------------------------------------
\* Every variable has its type.
TypeOK ==
    /\ LifeTypeOK
    /\ status \in Statuses /\ ops \in BOOLEAN
    /\ lock \in Users \cup {"free"}
    /\ slot \in BOOLEAN /\ bus_open \in BOOLEAN
    /\ threadPc \in [Users -> Steps]
    /\ removePc \in {"absent", "probing", "probed", "mark", "cut", "drain", "finish", "removed"}

\* Driver memory is not recycled under a call: once device_ops_unregister has
\* had the mutex and marked the device REMOVED, no call is left between its
\* checks and its return when uart_vfs_remove clears and releases the slot with
\* the table and the private data the call would use.  When that first lock
\* times out the device is not marked, and a call past its checks may fault, or
\* enter after dev_lc_remove_finish has set the counters back to 0.
TableSafe ==
    (status = "REMOVED" /\ ~slot) => \A t \in Users : threadPc[t] \in Calls \cup {"idle"}

\* PROBED means closed (device_close, and an aborted uart_vfs_open): nobody
\* holds an open reference and the bus is shut.
ProbedIsClosed == (status = "PROBED" /\ lock = "free") => (cnt["opens"] <= 0 /\ ~bus_open)

\* A uart_vfs_remove that drains a device nobody has open ends, transfers in
\* flight or not, unless a call faults meanwhile: once the state is REMOVING
\* only an open that had passed the state check can still be counted.
ClosedRemoveEnds ==
    (removePc = "drain" /\ cnt["opens"] = 0 /\ \A t \in Users : ~(upc[t] = "cas" /\ target[t] = "opens"))
        ~> (removePc = "removed" \/ \E t \in Users : threadPc[t] = "fault")
=============================================================================
