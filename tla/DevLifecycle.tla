---------------------------- MODULE DevLifecycle ----------------------------
(***************************************************************************)
(* The lock-free device life cycle of board/src/dev_lifecycle.c.  User     *)
(* threads take and drop references on two counters (opens, io_active); a  *)
(* remover marks the device REMOVING, drains both counters by swinging     *)
(* each from 0 to the sentinel DEV_LC_LOCKED = -1, tears the driver down   *)
(* and resets the life cycle, which a later probe may bind again.          *)
(*                                                                         *)
(* Every atomic load, compare-and-swap and store of the code is a step of  *)
(* its own.  opens and io_active follow the same protocol, so the begin    *)
(* and end operations take the counter as a parameter.  A close may give   *)
(* back the reference another thread took.  DeviceVfs composes this module *)
(* with the calls and the remove of a driver.                              *)
(***************************************************************************)
EXTENDS Integers, FiniteSets

CONSTANTS Users,     \* threads that open the device and do I/O on it
          MaxBinds   \* how often the life cycle is bound (generations)

ASSUME LifecycleAssumption ==
    /\ IsFiniteSet(Users)
    /\ MaxBinds \in Nat \ {0}

Counters == {"opens", "io_active"}
Locked == -1  \* DEV_LC_LOCKED

VARIABLES cnt,     \* the two atomic counters
          state,   \* dev_lc_state_t
          upc,     \* per user: step of the call in progress
          target,  \* per user: counter the call works on
          old,     \* per user: the value loaded before the CAS
          inside,  \* per user: counters it holds a reference on
          rpc,     \* step of the remover (or of the probe that binds)
          binds    \* completed dev_lc_init calls

userVars == <<upc, target, old, inside>>
lifeVars == <<cnt, state, userVars, rpc, binds>>

\* device_tree_init has reset the life cycle and not bound it yet.
LifeInit ==
    /\ cnt = [c \in Counters |-> 0]
    /\ state = "UNINITIALIZED"
    /\ upc = [u \in Users |-> "idle"]
    /\ target = [u \in Users |-> "opens"]
    /\ old = [u \in Users |-> 0]
    /\ inside = [u \in Users |-> {}]
    /\ rpc = "unbound"
    /\ binds = 0

Holders(c) == {u \in Users : c \in inside[u]}

-----------------------------------------------------------------------------
\* dev_lc_open_begin (c = "opens") and dev_lc_io_begin (c = "io_active").

\* The load of the counter; a locked counter is refused with MINI_ERR_NODEV.
BeginLoad(u, c) ==
    /\ upc[u] = "idle" /\ c \notin inside[u]
    /\ cnt[c] >= 0
    /\ upc' = [upc EXCEPT ![u] = "gate"]
    /\ target' = [target EXCEPT ![u] = c]
    /\ old' = [old EXCEPT ![u] = cnt[c]]
    /\ UNCHANGED <<cnt, state, inside, rpc, binds>>

\* The load of the state; anything but LIVE is refused.
BeginGate(u) ==
    /\ upc[u] = "gate"
    /\ upc' = [upc EXCEPT ![u] = IF state = "LIVE" THEN "cas" ELSE "idle"]
    /\ UNCHANGED <<cnt, state, target, old, inside, rpc, binds>>

\* The compare-and-swap; a failed one goes back to the load.
AddBlindly(u) ==
    /\ upc[u] = "cas"
    /\ upc' = [upc EXCEPT ![u] = "idle"]
    /\ cnt' = [cnt EXCEPT ![target[u]] = @ + 1]
    /\ inside' = [inside EXCEPT ![u] = @ \cup {target[u]}]
    /\ UNCHANGED <<state, target, old, rpc, binds>>
BeginCas(u) ==
    /\ upc[u] = "cas"
    /\ upc' = [upc EXCEPT ![u] = "idle"]
    /\ IF cnt[target[u]] = old[u]
       THEN /\ cnt' = [cnt EXCEPT ![target[u]] = old[u] + 1]
            /\ inside' = [inside EXCEPT ![u] = @ \cup {target[u]}]
       ELSE UNCHANGED <<cnt, inside>>
    /\ UNCHANGED <<state, target, old, rpc, binds>>

-----------------------------------------------------------------------------
\* Dropping a reference.

\* dev_lc_io_end, and dev_lc_open_abort after a failed driver open.
DropRef(u, c) ==
    /\ upc[u] = "idle" /\ c \in inside[u]
    /\ cnt' = [cnt EXCEPT ![c] = @ - 1]
    /\ inside' = [inside EXCEPT ![u] = @ \ {c}]
    /\ UNCHANGED <<state, upc, target, old, rpc, binds>>

\* dev_lc_close_begin: load (refused when no open is counted), then CAS.
CloseLoad(u) ==
    /\ upc[u] = "idle"
    /\ cnt["opens"] > 0
    /\ upc' = [upc EXCEPT ![u] = "close"]
    /\ old' = [old EXCEPT ![u] = cnt["opens"]]
    /\ UNCHANGED <<cnt, state, target, inside, rpc, binds>>
CloseCas(u) ==
    /\ upc[u] = "close"
    /\ upc' = [upc EXCEPT ![u] = "idle"]
    /\ IF cnt["opens"] = old[u]
       THEN /\ cnt' = [cnt EXCEPT !["opens"] = old[u] - 1]
            /\ \E h \in Holders("opens") : inside' = [inside EXCEPT ![h] = @ \ {"opens"}]
       ELSE UNCHANGED <<cnt, inside>>
    /\ UNCHANGED <<state, target, old, rpc, binds>>

-----------------------------------------------------------------------------
\* Teardown, in the order every driver's remove uses, and the next probe.

dev_lc_remove_start ==
    /\ rpc = "live"
    /\ state' = "REMOVING"
    /\ rpc' = "drain_opens"
    /\ UNCHANGED <<cnt, userVars, binds>>

\* dev_lc_remove_drain, first loop: opens from 0 to the sentinel.  The drivers
\* pass MINI_WAIT_FOREVER, so the loop is left only by the swap.
DrainOpens ==
    /\ rpc = "drain_opens"
    /\ cnt["opens"] = 0
    /\ cnt' = [cnt EXCEPT !["opens"] = Locked]
    /\ rpc' = "drain_io"
    /\ UNCHANGED <<state, userVars, binds>>

\* Second loop: io_active from 0 to the sentinel, then MINI_OK.
DrainIoUnchecked ==
    /\ rpc = "drain_io"
    /\ cnt' = [cnt EXCEPT !["io_active"] = Locked]
    /\ rpc' = "drained"
    /\ UNCHANGED <<state, userVars, binds>>
DrainIo ==
    /\ rpc = "drain_io"
    /\ cnt["io_active"] = 0
    /\ cnt' = [cnt EXCEPT !["io_active"] = Locked]
    /\ rpc' = "drained"
    /\ UNCHANGED <<state, userVars, binds>>

\* dev_lc_remove_finish -> dev_lc_reset: three stores.
ResetOpens ==
    /\ rpc = "drained"
    /\ cnt' = [cnt EXCEPT !["opens"] = 0]
    /\ rpc' = "reset_io"
    /\ UNCHANGED <<state, userVars, binds>>
ResetIo ==
    /\ rpc = "reset_io"
    /\ cnt' = [cnt EXCEPT !["io_active"] = 0]
    /\ rpc' = "reset_state"
    /\ UNCHANGED <<state, userVars, binds>>
ResetState ==
    /\ rpc = "reset_state"
    /\ state' = "UNINITIALIZED"
    /\ rpc' = "unbound"
    /\ UNCHANGED <<cnt, userVars, binds>>

\* dev_lc_init, by device_tree_init or by a later probe: three stores.
InitOpens ==
    /\ rpc = "unbound"
    /\ binds < MaxBinds
    /\ cnt' = [cnt EXCEPT !["opens"] = 0]
    /\ rpc' = "bind_io"
    /\ UNCHANGED <<state, userVars, binds>>
InitIo ==
    /\ rpc = "bind_io"
    /\ cnt' = [cnt EXCEPT !["io_active"] = 0]
    /\ rpc' = "bind"
    /\ UNCHANGED <<state, userVars, binds>>
InitState ==
    /\ rpc = "bind"
    /\ state' = "LIVE"
    /\ rpc' = "live"
    /\ binds' = binds + 1
    /\ UNCHANGED <<cnt, userVars>>

-----------------------------------------------------------------------------
Begin(u) == (\E c \in Counters : BeginLoad(u, c)) \/ BeginGate(u) \/ BeginCas(u)
End(u) == (\E c \in Counters : DropRef(u, c)) \/ CloseLoad(u) \/ CloseCas(u)
Drain == DrainOpens \/ DrainIo
Teardown == dev_lc_remove_start \/ Drain \/ ResetOpens \/ ResetIo \/ ResetState
Bind == InitOpens \/ InitIo \/ InitState

LifeNext == (\E u \in Users : Begin(u) \/ End(u)) \/ Teardown \/ Bind

LifeSpec == LifeInit /\ [][LifeNext]_lifeVars

-----------------------------------------------------------------------------
\* Every variable has its type; the state is one of the three of
\* enum dev_lc_state.
LifeTypeOK ==
    /\ cnt \in [Counters -> Int]
    /\ state \in {"UNINITIALIZED", "LIVE", "REMOVING"}
    /\ upc \in [Users -> {"idle", "gate", "cas", "close"}]
    /\ target \in [Users -> Counters]
    /\ old \in [Users -> Int]
    /\ inside \in [Users -> SUBSET Counters]
    /\ rpc \in {"live", "drain_opens", "drain_io", "drained", "reset_io",
                "reset_state", "unbound", "bind_io", "bind"}
    /\ binds \in Nat

\* The remover has locked counter c and not given it up yet.
IsLocked(c) ==
    \/ rpc = "drained"
    \/ c = "opens" /\ rpc = "drain_io"
    \/ c = "io_active" /\ rpc = "reset_io"

FirstLife == binds = 0 \/ (binds = 1 /\ rpc \in {"live", "drain_opens", "drain_io", "drained"})

\* During a device's first life the counters are exact: each equals the number
\* of threads that hold a reference, or the sentinel once nobody does.  A lost
\* update of a CAS loop, or an end without its begin, would break it.
CountsExact ==
    FirstLife => \A c \in Counters :
        IF IsLocked(c) THEN cnt[c] = Locked /\ Holders(c) = {}
                       ELSE cnt[c] = Cardinality(Holders(c))

\* When dev_lc_remove_drain has returned MINI_OK the remover is alone: no
\* thread is inside an open or an I/O while the driver frees its hardware and
\* its pool slot, however late a begin passed the state check.
DrainedAlone == (binds = 1 /\ rpc = "drained") => \A u \in Users : inside[u] = {}
=============================================================================
