----------------------------- MODULE SkxDriver -----------------------------
(***************************************************************************)
(* The life of the Skylake driver: skx_init() and skx_exit() of            *)
(* skylake-edac-driver/skx_base.c around the search of SkxProbe, with the  *)
(* ACPI address translation of skx_common.c (its two buffers), the debugfs *)
(* file through which an error can be injected, and the polling thread, on *)
(* a kernel that may load and unload the module again and again.           *)
(*                                                                         *)
(* The thread is PollThread, which SkxPoll implements; an entry is a       *)
(* socket here.  The file is there with CONFIG_EDAC_DEBUG; without it      *)
(* setup_skx_debug() does what it does here when the file cannot be made.  *)
(***************************************************************************)
EXTENDS SkxProbe

VARIABLES
  adxl,         \* [count, values, msg]: is adxl_component_count set; the buffers
  debugfs,      \* the file is there
  task,         \* the thread that kthread points to, see PollThread,
  at,           \* or "none", or "freed" when its task is gone
  should_stop,
  abandoned     \* a load ended at a failed kthread_create() (history)

thread     == <<task, at, should_stop>>
driverVars == <<adxl, debugfs, thread, abandoned>>
vars       == <<probeVars, driverVars>>

size == Len(list)
Poll == INSTANCE PollThread

NoAdxl == [count |-> FALSE, values |-> "null", msg |-> "null"]

Init ==
  /\ ProbeInit
  /\ adxl = NoAdxl
  /\ debugfs = FALSE
  /\ task = "none"
  /\ at = 0
  /\ should_stop = FALSE
  /\ abandoned = FALSE

(* The module's init and exit move on, and leave the search as it is.      *)
Moves(from, to) ==
  /\ pc = from
  /\ pc' = to
  /\ UNCHANGED <<machine, refs, list, unit, ndev, prev, mc, nvdimm, registered>>

ProbeStep  == Probe /\ UNCHANGED driverVars
RemoveStep == Remove /\ UNCHANGED driverVars

-----------------------------------------------------------------------------
(* skx_init() behind the registration.                                     *)

(* skx_adxl_get(), with an NVDIMM only.  Firmware without translation or   *)
(* with other names for the components leaves it unset; so does a failed   *)
(* allocation, the second one with the first buffer freed.                 *)
AdxlOutcomes ==
  {NoAdxl,
   [count |-> FALSE, values |-> "freed", msg |-> "null"],
   [count |-> TRUE, values |-> "live", msg |-> "live"]}
AdxlGet ==
  /\ Moves("adxl", "debug")
  /\ IF nvdimm THEN adxl' \in AdxlOutcomes ELSE UNCHANGED adxl
  /\ UNCHANGED <<debugfs, thread, abandoned>>

SetupDebug ==
  /\ Moves("debug", "start")
  /\ \E made \in BOOLEAN : debugfs' = (debugfs \/ made)
  /\ UNCHANGED <<adxl, thread, abandoned>>

StartThread ==
  /\ Moves("start", "live")
  /\ task' = "new" /\ at' = 0 /\ should_stop' = FALSE
  /\ UNCHANGED <<adxl, debugfs, abandoned>>

(* Its error is returned as it is: with the module go its list head and    *)
(* its buffers' pointers, all else stays.                                  *)
StartFails ==
  /\ pc = "start"
  /\ pc' = "absent"
  /\ list' = <<>>
  /\ nvdimm' = FALSE
  /\ adxl' = NoAdxl
  /\ abandoned' = TRUE
  /\ UNCHANGED <<machine, refs, unit, ndev, prev, mc, registered, debugfs, thread>>

-----------------------------------------------------------------------------
(* The polling thread.                                                     *)

ThreadStep == Poll!Step /\ UNCHANGED <<probeVars, adxl, debugfs, should_stop, abandoned>>

(* The task of a thread that has returned goes, unless kthread_stop()      *)
(* holds a reference on it.                                                *)
Reap ==
  /\ task = "returned" /\ pc # "stopping"
  /\ task' = "freed"
  /\ UNCHANGED <<probeVars, adxl, debugfs, at, should_stop, abandoned>>

-----------------------------------------------------------------------------
(* skx_exit().                                                             *)

(* kthread_stop() of a task that exists sets the request and waits.        *)
Exit ==
  /\ Moves("live", "stopping")
  /\ task # "freed"
  /\ should_stop' = TRUE
  /\ UNCHANGED <<adxl, debugfs, task, at, abandoned>>

(* Of one that is gone: it finds a completion that is done, or waits for   *)
(* ever.                                                                   *)
ExitFreed ==
  /\ \E to \in {"teardown", "hung"} : Moves("live", to)
  /\ task = "freed"
  /\ UNCHANGED driverVars

StoppedMutant ==  \* does not wait for the thread
  /\ Moves("stopping", "teardown")
  /\ UNCHANGED driverVars
Stopped ==
  /\ Moves("stopping", "teardown")
  /\ task = "returned"
  /\ UNCHANGED driverVars

(* teardown_skx_debug().  The file has no user: an open one pins the       *)
(* module.                                                                 *)
TeardownMutant ==  \* skx_test is not removed
  /\ Moves("teardown", "adxl_put")
  /\ UNCHANGED driverVars
Teardown ==
  /\ Moves("teardown", "adxl_put")
  /\ debugfs' = FALSE
  /\ UNCHANGED <<adxl, thread, abandoned>>

(* skx_adxl_put(), with an NVDIMM only.                                    *)
Freed(buf) == CASE buf = "live" -> "freed" [] buf = "null" -> "null" [] OTHER -> "freed twice"
AdxlPutMutant ==  \* kfree(adxl_msg) in both lines
  /\ Moves("adxl_put", "remove")
  /\ adxl' = IF nvdimm THEN [adxl EXCEPT !.msg = Freed(Freed(@))] ELSE adxl
  /\ UNCHANGED <<debugfs, thread, abandoned>>
AdxlPut ==
  /\ Moves("adxl_put", "remove")
  /\ adxl' = IF nvdimm
               THEN [adxl EXCEPT !.values = Freed(@), !.msg = Freed(@)]
               ELSE adxl
  /\ UNCHANGED <<debugfs, thread, abandoned>>

(* The next load has fresh data.                                           *)
FreshLoad ==
  /\ Load
  /\ adxl' = NoAdxl
  /\ UNCHANGED <<debugfs, thread, abandoned>>

InitGoesOn == ProbeStep \/ AdxlGet \/ SetupDebug \/ StartThread \/ StartFails
ExitGoesOn == Stopped \/ Teardown \/ AdxlPut \/ RemoveStep
Next == FreshLoad \/ InitGoesOn \/ ThreadStep \/ Reap \/ Exit \/ ExitFreed \/ ExitGoesOn

Spec == Init /\ [][Next]_vars

(* The thread is scheduled, and what has been begun goes on; loading and   *)
(* unloading are the operator's.                                           *)
FairSpec == Spec /\ WF_vars(ThreadStep) /\ WF_vars(InitGoesOn) /\ WF_vars(ExitGoesOn)

-----------------------------------------------------------------------------
(* Properties.                                                             *)

Phases == {"absent", "buses", "units", "register", "adxl", "debug", "start", "live",
           "stopping", "teardown", "hung", "adxl_put", "remove"}
Buffer == {"null", "live", "freed", "freed twice"}

TypeOK ==
  /\ ProbeTypeOK
  /\ pc \in Phases
  /\ adxl \in [count : BOOLEAN, values : Buffer, msg : Buffer]
  /\ debugfs \in BOOLEAN
  /\ task \in Poll!States \cup {"none", "freed"}
  /\ at \in Nat
  /\ should_stop \in BOOLEAN
  /\ abandoned \in BOOLEAN

(* Through both walks, every failure on the way and removal, a device has  *)
(* exactly the references the driver needs.  Only the edevs, which         *)
(* skx_remove() (skx_common.c:627) does not put, keep those of earlier     *)
(* loads, and so does every device of an abandoned load.                   *)
RefsExact ==
  \A n \in Devices :
    IF abandoned \/ IsErr(n) THEN refs[n] >= Due(n) ELSE refs[n] = Due(n)

(* What the thread and an injected error reach without a lock: a list of   *)
(* sockets with all devices and controllers, and, if the address is        *)
(* translated by firmware, its two buffers.                                *)
Whole ==
  /\ list # <<>>
  /\ \A k \in DOMAIN list : /\ \A s \in Slots : list[k].slot[s] # NULL
                            /\ Cardinality(list[k].mci) = NumImc
  /\ adxl.count => adxl.values = "live" /\ adxl.msg = "live"

(* All of it is there from the moment the thread is created or the debugfs *)
(* file made until the one has returned and the other is gone, however the *)
(* loads before went, but for a load that was abandoned at kthread_create()*)
(* and left the file behind without the module.                            *)
NoUseAfterFree ==
  task \in Poll!Alive \/ (debugfs /\ ~abandoned) =>
    Whole /\ (task = "visit" => at \in DOMAIN list)

(* A buffer is freed twice only where skx_adxl_get() lacked memory for the *)
(* second one: it frees the first and keeps the pointer (skx_common.c:87), *)
(* and skx_init() goes on.                                                 *)
FreedOnce ==
  adxl.msg # "freed twice" /\ (adxl.values = "freed twice" => adxl.msg = "null")

(* After a failed kthread_create() the controllers stay with EDAC, under   *)
(* the numbers the next load wants: the driver never comes up again.       *)
(* Otherwise the module goes without a controller, file or thread left.    *)
LeavesNothing ==
  IF abandoned THEN pc \notin {"adxl", "debug", "start", "live"}
  ELSE pc = "absent" => registered = {} /\ ~debugfs /\ task \notin Poll!Alive

(* A load comes to an end, and so does an unload that found its thread.    *)
InitEnds == pc \in {"buses", "units", "register", "adxl", "debug", "start"} ~> pc \in {"live", "absent"}
ExitEnds == pc = "stopping" ~> pc = "absent"
Ends == InitEnds /\ ExitEnds
=============================================================================
