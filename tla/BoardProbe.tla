----------------------------- MODULE BoardProbe -----------------------------
(***************************************************************************)
(* Bring-up and teardown of all devices: board_driver_probe_all and        *)
(* board_driver_remove_all of board/src/board_driver.c over the status     *)
(* machine of board/src/board_device.c.                                    *)
(*                                                                         *)
(* Devices are numbered in probe order.  The device-tree compiler sorts    *)
(* them topologically, so a device depends on smaller ones only, and its   *)
(* cascade table is the transitive closure of the dependants.  What the    *)
(* device tree says and what the drivers return is chosen freely.          *)
(***************************************************************************)
EXTENDS Naturals, FiniteSets

CONSTANTS N,          \* number of devices
          Trees       \* device trees considered: records [deps, kind, fatal]

Device == 1..N
Kinds == {"okay", "disabled", "direct", "no_driver", "unnamed"}

ASSUME BoardProbeAssumption ==
    /\ N \in Nat \ {0}
    /\ \A t \in Trees :
        /\ t.deps \in [Device -> SUBSET Device]
        /\ \A d \in Device : \A e \in t.deps[d] : e < d
        /\ t.kind \in [Device -> Kinds]
        /\ t.fatal \subseteq Device

VARIABLES tree,            \* the device tree of this board
          status,          \* device -> status
          mode,            \* probing, removing, ready, done, panic
          pass, index,     \* loop variables of probe_all / remove_all
          deferred, deferred_prev,
          fail,            \* failures counted (uint8_t in the code)
          failed,          \* devices without a driver, or whose probe or open failed
          ever_deferred    \* some device was deferred

loop == <<pass, index, deferred, deferred_prev>>
vars == <<tree, status, mode, loop, fail, failed, ever_deferred>>

Up == {"PROBED", "RUNNING", "SUSPENDED"}
Statuses == Up \cup {"DISABLED", "READY", "ERROR", "REMOVED"}

\* device_status_can_transit; a refused transition leaves the status alone
\* and every caller here ignores the result.
Allowed ==
    [s \in Statuses |->
        CASE s = "DISABLED"  -> {"READY"}
          [] s = "READY"     -> {"PROBED", "DISABLED", "ERROR"}
          [] s = "PROBED"    -> {"RUNNING", "SUSPENDED", "READY", "REMOVED", "ERROR"}
          [] s = "RUNNING"   -> {"SUSPENDED", "READY", "REMOVED", "ERROR", "PROBED"}
          [] s = "SUSPENDED" -> {"RUNNING", "READY", "REMOVED", "ERROR"}
          [] s = "ERROR"     -> {"REMOVED"}
          [] s = "REMOVED"   -> {"READY", "DISABLED"}]
Moved(from, to) == IF to \in Allowed[from] THEN to ELSE from

\* device_tree_init.
Init ==
    /\ tree \in Trees
    /\ status = [d \in Device |-> IF tree.kind[d] = "disabled" THEN "DISABLED" ELSE "READY"]
    /\ mode = "probing"
    /\ pass = 1 /\ index = 1 /\ deferred = 0 /\ deferred_prev = 0
    /\ fail = 0 /\ failed = {} /\ ever_deferred = FALSE

-----------------------------------------------------------------------------
Managed(d) == {e \in tree.deps[d] : tree.kind[e] # "direct"}

device_dependency_not_ready(d) == \E e \in Managed(d) : status[e] \in {"ERROR", "REMOVED"}
device_dependency_pending(d) == \E e \in Managed(d) : status[e] \notin Up

\* board_cascade_get: everything that depends on d, directly or not, as dtc_lite
\* computes it (compute_cascade_tables).
DependsOn[d \in Device, e \in Device] ==
    e \in tree.deps[d] \/ \E m \in tree.deps[d] : DependsOn[m, e]
Cascade(d) == {c \in Device : DependsOn[c, d]}

\* disable_dependents after the failed device itself was moved to status s.
CascadeForgotten(d, s) ==
    [c \in Device |-> IF c = d THEN Moved(status[d], s) ELSE status[c]]
FailedTo(d, s) ==
    [c \in Device |->
        IF c = d THEN Moved(status[d], s)
        ELSE IF c \in Cascade(d) THEN Moved(status[c], "DISABLED") ELSE status[c]]

\* handle_probe_failure panics on a FATAL device; otherwise disable_dependents
\* and the count follow.
Fails(d, s) ==
    /\ failed' = failed \cup {d}
    /\ IF d \in tree.fatal
       THEN /\ mode' = "panic" /\ UNCHANGED fail
            /\ status' = [status EXCEPT ![d] = Moved(@, s)]
       ELSE /\ fail' = fail + 1 /\ UNCHANGED mode
            /\ status' = FailedTo(d, s)

-----------------------------------------------------------------------------
\* The body of the inner loop for the device at index.
AtDevice(d) == mode = "probing" /\ d = index
Advance == index' = index + 1 /\ UNCHANGED <<tree, pass, deferred_prev>>

Skipped(d) == status[d] \in {"DISABLED", "PROBED", "RUNNING"} \/ tree.kind[d] = "direct"
Skip(d) ==
    /\ AtDevice(d) /\ Skipped(d)
    /\ Advance /\ UNCHANGED <<status, mode, deferred, fail, failed, ever_deferred>>

Defer == deferred' = deferred + 1 /\ ever_deferred' = TRUE

\* A dependency is gone: defer while it counts as pending, otherwise disable.
\* A dependency that is gone always counts as pending.
Unavailable(d) ==
    /\ AtDevice(d) /\ ~Skipped(d) /\ device_dependency_not_ready(d)
    /\ IF device_dependency_pending(d)
       THEN Defer /\ UNCHANGED <<status, fail>>
       ELSE /\ status' = [status EXCEPT ![d] = Moved(@, "DISABLED")]
            /\ fail' = fail + 1
            /\ UNCHANGED <<deferred, ever_deferred>>
    /\ Advance /\ UNCHANGED <<mode, failed>>

Eligible(d) == AtDevice(d) /\ ~Skipped(d) /\ ~device_dependency_not_ready(d)

\* No generated probe for a named device counts as a failure.
NoDriver(d) ==
    /\ Eligible(d) /\ tree.kind[d] = "no_driver"
    /\ Fails(d, "DISABLED")
    /\ Advance /\ UNCHANGED <<deferred, ever_deferred>>

\* A nameless container node without a driver is disabled quietly.
Unnamed(d) ==
    /\ Eligible(d) /\ tree.kind[d] = "unnamed"
    /\ status' = [status EXCEPT ![d] = Moved(@, "DISABLED")]
    /\ Advance /\ UNCHANGED <<mode, deferred, fail, failed, ever_deferred>>

\* probe(pdev): it works, and the device is opened if its driver has an open
\* (RUNNING) or left PROBED.  From ERROR both moves are refused; then the open
\* fails, or without one the device stays in ERROR.
ProbeWorks(d) ==
    /\ Eligible(d) /\ tree.kind[d] = "okay"
    /\ \/ status[d] = "ERROR" /\ Fails(d, "ERROR")
       \/ \E s \in {"PROBED", "RUNNING"} :
            /\ status[d] = "ERROR" => s = "PROBED"
            /\ status' = [status EXCEPT ![d] = IF @ = "ERROR" THEN "ERROR" ELSE s]
            /\ UNCHANGED <<mode, fail, failed>>
    /\ Advance /\ UNCHANGED <<deferred, ever_deferred>>
\* ... the probe or the open fails, ...
ProbeFails(d) ==
    /\ Eligible(d) /\ tree.kind[d] = "okay"
    /\ Fails(d, "ERROR")
    /\ Advance /\ UNCHANGED <<deferred, ever_deferred>>
\* ... or the driver asks to come back later.
ProbeDefers(d) ==
    /\ Eligible(d) /\ tree.kind[d] = "okay"
    /\ Defer
    /\ Advance /\ UNCHANGED <<status, mode, fail, failed>>

\* End of a pass.
PassEnd == mode = "probing" /\ index = N + 1
Finish == mode' = "ready" /\ UNCHANGED <<tree, loop, failed, ever_deferred>>

AllProbed == PassEnd /\ deferred = 0 /\ Finish /\ UNCHANGED <<status, fail>>

\* No progress since the last pass: disable what still waits for a dependency.
StuckOnFailure(d) == status[d] \notin {"PROBED", "RUNNING"} /\ device_dependency_not_ready(d)
Stuck(d) == status[d] \notin {"PROBED", "RUNNING"} /\ device_dependency_pending(d)
Stall ==
    /\ PassEnd /\ deferred # 0 /\ deferred = deferred_prev
    /\ status' = [d \in Device |-> IF Stuck(d) THEN Moved(status[d], "DISABLED") ELSE status[d]]
    /\ fail' = fail + Cardinality({d \in Device : Stuck(d)})
    /\ Finish
NextPass ==
    /\ PassEnd /\ deferred # 0 /\ deferred # deferred_prev
    /\ IF pass = 3 THEN mode' = "ready" /\ UNCHANGED loop
       ELSE /\ pass' = pass + 1 /\ index' = 1
            /\ deferred_prev' = deferred /\ deferred' = 0
            /\ UNCHANGED mode
    /\ UNCHANGED <<tree, status, fail, failed, ever_deferred>>

-----------------------------------------------------------------------------
\* board_driver_remove_all, in reverse probe order.
RemoveForward ==
    /\ mode = "ready"
    /\ mode' = "removing" /\ index' = 1
    /\ UNCHANGED <<tree, status, pass, deferred, deferred_prev, fail, failed, ever_deferred>>
StartRemove ==
    /\ mode = "ready"
    /\ mode' = "removing" /\ index' = N
    /\ UNCHANGED <<tree, status, pass, deferred, deferred_prev, fail, failed, ever_deferred>>
RemoveStep == mode = "removing" /\ index \in Device
RemoveRest ==
    /\ index' = index - 1
    /\ UNCHANGED <<tree, mode, pass, deferred, deferred_prev, fail, failed, ever_deferred>>
RemoveSkip == RemoveStep /\ status[index] \notin Up /\ RemoveRest /\ UNCHANGED status
\* The driver's remove goes through REMOVED (device_ops_unregister).
RemoveOk ==
    /\ RemoveStep /\ status[index] \in Up
    /\ status' = [status EXCEPT ![index] = "READY"]
    /\ RemoveRest
\* It fails early, or after it was marked REMOVED, which refuses ERROR.
RemoveFails ==
    /\ RemoveStep /\ status[index] \in Up
    /\ \E s \in {status[index], "REMOVED"} : status' = [status EXCEPT ![index] = Moved(s, "ERROR")]
    /\ RemoveRest
RemoveDone ==
    /\ mode = "removing" /\ index = 0
    /\ mode' = "done"
    /\ UNCHANGED <<tree, status, loop, fail, failed, ever_deferred>>

ProbeStep ==
    \/ \E d \in Device : \/ Skip(d) \/ Unavailable(d) \/ NoDriver(d) \/ Unnamed(d)
                         \/ ProbeWorks(d) \/ ProbeFails(d) \/ ProbeDefers(d)
    \/ AllProbed \/ Stall \/ NextPass
Remove == StartRemove \/ RemoveSkip \/ RemoveOk \/ RemoveFails \/ RemoveDone
Next == ProbeStep \/ Remove

Spec == Init /\ [][Next]_vars

-----------------------------------------------------------------------------
\* Every variable has its type; pass and index stay within the loops' bounds.
TypeOK ==
    /\ tree \in Trees
    /\ status \in [Device -> Statuses]
    /\ mode \in {"probing", "removing", "ready", "done", "panic"}
    /\ pass \in 1..3 /\ index \in 0..(N + 1)
    /\ deferred \in 0..N /\ deferred_prev \in 0..N
    /\ fail \in Nat /\ failed \subseteq Device

OnFailed(d) == \E e \in failed : DependsOn[d, e]

\* Bring-up misses no failed device in the count board_driver_probe_all returns.
\* While nothing was deferred the count is their exact number, and no device is
\* up on top of a failed one, however indirect the dependency
\* (disable_dependents).
FailuresContained ==
    mode = "ready" =>
        /\ fail >= Cardinality(failed)
        /\ ~ever_deferred =>
              /\ fail = Cardinality(failed)
              /\ \A d \in Device : status[d] \in Up => ~OnFailed(d)

\* After a stall no device is left READY waiting for a dependency that is not
\* up: it is disabled, unless it failed or came up before.  Pass and index stay
\* within the loops' bounds.
StallDisables ==
    /\ TypeOK
    /\ (mode = "ready" /\ deferred # 0 /\ deferred = deferred_prev) =>
        \A d \in Device : device_dependency_pending(d) => status[d] \in {"DISABLED", "ERROR"} \cup Up

\* board_driver_remove_all takes a device down only when nothing that depends
\* on it is up.
RemoveOrder ==
    [][\A d \in Device :
          (mode = "removing" /\ status[d] \in Up /\ status'[d] \notin Up)
              => \A c \in Cascade(d) : status[c] \notin Up]_vars
=============================================================================
