------------------------------ MODULE SbDriver ------------------------------
(***************************************************************************)
(* The life of the Broadwell/Haswell driver: sbridge_init() and            *)
(* sbridge_exit() of boradwell-edac-driver/sb_edac.c, around the probe     *)
(* (module SbProbe) and the polling thread (module SbPoll), on a kernel    *)
(* that may load and unload the module again and again.  The three share   *)
(* sbridge_edac_list, without a lock.                                      *)
(*                                                                         *)
(* The probe is one step here: SbProbe shows that it registers every       *)
(* controller it lists or leaves nothing.  A load that fails there changes *)
(* nothing and has no action.  The thread is PollThread, which SbPoll      *)
(* implements; an entry is a controller.                                   *)
(***************************************************************************)
EXTENDS Integers, Sequences

CONSTANT MaxMc  \* bound: memory controllers of the machine

ASSUME MaxMcAssumption == MaxMc \in Nat

VARIABLES
  num_mc,      \* memory controllers the probe finds on this machine
  mod,         \* where the module is in its init and exit
  list,        \* sbridge_edac_list: list[k] is whether controller k has an mci
  registered,  \* controllers EDAC holds; they outlive the module
  task,        \* the thread that kthread points to, see PollThread,
  at,          \* or "none", or "freed" when its task is gone
  should_stop

vars   == <<num_mc, mod, list, registered, task, at, should_stop>>
thread == <<task, at, should_stop>>

size == Len(list)
Poll == INSTANCE PollThread

Init ==
  /\ num_mc \in 0 .. MaxMc
  /\ mod = "absent"
  /\ list = <<>>
  /\ registered = {}
  /\ task = "none"
  /\ at = 0
  /\ should_stop = FALSE

-----------------------------------------------------------------------------
(* sbridge_init().                                                         *)

(* sbridge_probe() returns 0, with no controller as well.  EDAC refuses a  *)
(* number it knows, so a controller left behind makes every probe fail.    *)
ProbeMutant ==  \* mc counts from one past the first
  /\ mod = "absent"
  /\ registered = {}
  /\ mod' = "probed"
  /\ list' = [k \in 1 .. num_mc |-> TRUE]
  /\ registered' = {k + 1 : k \in 1 .. num_mc}
  /\ UNCHANGED <<num_mc, thread>>
Probe ==
  /\ mod = "absent"
  /\ registered = {}
  /\ mod' = "probed"
  /\ list' = [k \in 1 .. num_mc |-> TRUE]
  /\ registered' = 1 .. num_mc
  /\ UNCHANGED <<num_mc, thread>>

(* kthread_create() and wake_up_process().                                 *)
StartThread ==
  /\ mod = "probed"
  /\ mod' = "live"
  /\ task' = "new"
  /\ at' = 0
  /\ should_stop' = FALSE
  /\ UNCHANGED <<num_mc, list, registered>>

(* Its error is returned as it is; with the module goes its list head.     *)
StartFails ==
  /\ mod = "probed"
  /\ mod' = "absent"
  /\ list' = <<>>
  /\ UNCHANGED <<num_mc, registered, thread>>

-----------------------------------------------------------------------------
(* The thread.                                                             *)

ThreadStep == Poll!Step /\ UNCHANGED <<num_mc, mod, list, registered, should_stop>>

(* The task of a thread that has returned goes, unless kthread_stop()      *)
(* holds a reference on it.                                                *)
Reap ==
  /\ task = "returned" /\ mod # "stopping"
  /\ task' = "freed"
  /\ UNCHANGED <<num_mc, mod, list, registered, at, should_stop>>

-----------------------------------------------------------------------------
(* sbridge_exit().                                                         *)

(* kthread_stop() of a task that exists: sets the request and waits.       *)
Exit ==
  /\ mod = "live" /\ task # "freed"
  /\ mod' = "stopping"
  /\ should_stop' = TRUE
  /\ UNCHANGED <<num_mc, list, registered, task, at>>

(* Of one that is gone: it reads freed memory, and finds a completion that *)
(* is done or waits for one that nobody will signal.                       *)
ExitFreed ==
  /\ mod = "live" /\ task = "freed"
  /\ mod' \in {"stopped", "hung"}
  /\ UNCHANGED <<num_mc, list, registered, thread>>

StoppedMutant ==  \* does not wait for the thread
  /\ mod = "stopping"
  /\ mod' = "stopped"
  /\ UNCHANGED <<num_mc, list, registered, thread>>
Stopped ==
  /\ mod = "stopping" /\ task = "returned"
  /\ mod' = "stopped"
  /\ UNCHANGED <<num_mc, list, registered, thread>>

(* sbridge_remove(): the loop over sbridge_unregister_mci(), from the      *)
(* front; then all devices are put and the list is freed.                  *)
UnregisterMutant ==  \* without sbridge_dev->mci = NULL
  \E k \in DOMAIN list :
    /\ mod = "stopped"
    /\ list[k]
    /\ registered' = registered \ {k}
    /\ UNCHANGED <<num_mc, mod, list, thread>>
Unregister ==
  \E k \in DOMAIN list :
    /\ mod = "stopped"
    /\ list[k] /\ \A j \in 1 .. (k - 1) : ~list[j]
    /\ list' = [list EXCEPT ![k] = FALSE]
    /\ registered' = registered \ {k}
    /\ UNCHANGED <<num_mc, mod, thread>>

FreeMutant ==  \* sbridge_put_all_devices() alone
  /\ mod = "stopped"
  /\ list' = <<>>
  /\ mod' = "absent"
  /\ UNCHANGED <<num_mc, registered, thread>>
Free ==
  /\ mod = "stopped"
  /\ \A k \in DOMAIN list : ~list[k]
  /\ list' = <<>>
  /\ mod' = "absent"
  /\ UNCHANGED <<num_mc, registered, thread>>

Remove == Stopped \/ Unregister \/ Free
Next   == Probe \/ StartThread \/ StartFails \/ ThreadStep \/ Reap \/ Exit \/ ExitFreed
            \/ Remove

Spec == Init /\ [][Next]_vars

(* The thread is scheduled, and what has been begun goes on; loading and   *)
(* unloading are the operator's.                                           *)
FairSpec == Spec /\ WF_vars(ThreadStep) /\ WF_vars(Remove)

-----------------------------------------------------------------------------
(* Properties.                                                             *)

TypeOK ==
  /\ num_mc \in 0 .. MaxMc
  /\ mod \in {"absent", "probed", "live", "stopping", "stopped", "hung"}
  /\ list \in Seq(BOOLEAN)
  /\ registered \subseteq 1 .. num_mc
  /\ task \in Poll!States \cup {"none", "freed"}
  /\ at \in Nat
  /\ should_stop \in BOOLEAN

(* The thread reads list and mci at any time from its creation until it    *)
(* returns.  Through all of it the module is there, the list is whole,     *)
(* every controller on it has its mci, and the entry the thread stands on  *)
(* is one of them: exit waits for the thread before it takes anything away.*)
NoUseAfterFree ==
  task \in Poll!Alive =>
    /\ mod \in {"live", "stopping"}
    /\ Len(list) = num_mc
    /\ \A k \in DOMAIN list : list[k]
    /\ task = "visit" => at \in DOMAIN list

(* Unloading leaves no controller with EDAC (its operations would be code  *)
(* that is gone, and the next load would fail); among all the ways back to *)
(* "absent" only a failed kthread_create() does.                           *)
UnloadUnregisters ==
  [][mod # "absent" /\ mod' = "absent" /\ registered' # {} => StartFails]_vars

(* Unloading ends once kthread_stop() has found the thread.                *)
UnloadEnds == mod = "stopping" ~> mod = "absent"

(* "sbridge_exit() Module exit function / Unregister the driver"           *)
(* (sb_edac.c:3789), whenever the module is unloaded.                      *)
ExitUnregisters == mod \in {"stopping", "stopped", "hung"} ~> mod = "absent"
=============================================================================
