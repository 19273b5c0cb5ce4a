--------------------------- MODULE SbDriverProofs ---------------------------
(***************************************************************************)
(* The safety properties of SbDriver, for any number of controllers.       *)
(***************************************************************************)
EXTENDS SbDriver, TLAPS

(* What the properties rest on.  From the probe to the end of              *)
(* kthread_stop() the list is whole; outside of the time between creation  *)
(* and stop there is no living thread; while the module is there EDAC      *)
(* holds exactly the controllers on the list that still have an mci.       *)
WholeList == list = [k \in 1 .. num_mc |-> TRUE]

DriverInv ==
  /\ TypeOK
  /\ mod = "absent" => list = <<>>
  /\ mod \in {"probed", "live", "stopping"} => WholeList
  /\ task \in Poll!Alive => mod \in {"live", "stopping"}
  /\ mod # "absent" => registered = {k \in DOMAIN list : list[k]}
  /\ task = "visit" => at \in 1 .. num_mc

LEMMA WholeListFacts ==
  ASSUME num_mc \in Nat, WholeList
  PROVE  /\ list \in Seq(BOOLEAN)
         /\ Len(list) = num_mc
         /\ DOMAIN list = 1 .. num_mc
         /\ \A k \in DOMAIN list : list[k]
BY DEF WholeList

LEMMA InitDriver == Init => DriverInv
<1> SUFFICES ASSUME Init PROVE DriverInv
    OBVIOUS
<1>1. num_mc \in 0 .. MaxMc /\ registered \subseteq 1 .. num_mc
      BY DEF Init
<1>2. at \in Nat /\ should_stop \in BOOLEAN
      BY DEF Init
<1>3. mod = "absent" /\ task = "none" /\ list = <<>>
      BY DEF Init
<1>4. <<>> \in Seq(BOOLEAN)
      OBVIOUS
<1> QED BY <1>1, <1>2, <1>3, <1>4 DEF DriverInv, TypeOK, Poll!States, Poll!Alive

LEMMA StepDriver == DriverInv /\ [Next]_vars => DriverInv'
<1> SUFFICES ASSUME DriverInv, [Next]_vars PROVE DriverInv'
    OBVIOUS
<1> USE MaxMcAssumption
<1>1. CASE Probe
  <2>1. WholeList' /\ num_mc' = num_mc /\ num_mc \in Nat
        BY <1>1 DEF Probe, WholeList, DriverInv, TypeOK
  <2>2. list' \in Seq(BOOLEAN) /\ DOMAIN list' = 1 .. num_mc /\ \A k \in DOMAIN list' : list'[k]
        BY <2>1 DEF WholeList
  <2> QED BY <1>1, <2>1, <2>2
          DEF Probe, thread, DriverInv, TypeOK, Poll!States, Poll!Alive
<1>2. CASE StartThread
  BY <1>2 DEF StartThread, DriverInv, TypeOK, WholeList, Poll!States, Poll!Alive
<1>3. CASE StartFails
  BY <1>3 DEF StartFails, thread, DriverInv, TypeOK, WholeList, Poll!States, Poll!Alive
<1>4. CASE ThreadStep
  <2>1. task \in Poll!Alive
        BY <1>4 DEF ThreadStep, Poll!Step, Poll!Begin, Poll!Check, Poll!Visit, Poll!Fail,
                    Poll!Wake, Poll!Alive
  <2>2. WholeList /\ Len(list) = num_mc
        BY <2>1, WholeListFacts DEF DriverInv, TypeOK
  <2>3. /\ task' \in Poll!States
        /\ at' \in Nat
        /\ task' = "visit" => at' \in 1 .. num_mc
        BY <1>4, <2>2 DEF ThreadStep, Poll!Step, Poll!Begin, Poll!Check, Poll!Visit,
                    Poll!Fail, Poll!Wake, Poll!Walk, Poll!Return, Poll!States, Poll!Alive,
                    DriverInv, TypeOK, size
  <2> QED BY <1>4, <2>1, <2>2, <2>3 DEF ThreadStep, DriverInv, TypeOK, WholeList
<1>5. CASE Reap
  BY <1>5 DEF Reap, DriverInv, TypeOK, WholeList, Poll!States, Poll!Alive
<1>6. CASE Exit
  BY <1>6 DEF Exit, DriverInv, TypeOK, WholeList, Poll!States, Poll!Alive
<1>7. CASE ExitFreed
  BY <1>7 DEF ExitFreed, thread, DriverInv, TypeOK, WholeList, Poll!States, Poll!Alive
<1>8. CASE Stopped
  BY <1>8 DEF Stopped, thread, DriverInv, TypeOK, WholeList, Poll!States, Poll!Alive
<1>9. CASE Unregister
  <2>1. PICK k \in DOMAIN list :
          /\ mod = "stopped"
          /\ list' = [list EXCEPT ![k] = FALSE]
          /\ registered' = registered \ {k}
          /\ UNCHANGED <<num_mc, mod, thread>>
        BY <1>9 DEF Unregister
  <2>2. list' \in Seq(BOOLEAN) /\ DOMAIN list' = DOMAIN list
        BY <2>1 DEF DriverInv, TypeOK
  <2>3. registered' = {j \in DOMAIN list' : list'[j]}
        BY <2>1, <2>2 DEF DriverInv, TypeOK
  <2> QED BY <2>1, <2>2, <2>3 DEF DriverInv, TypeOK, thread, Poll!States, Poll!Alive
<1>10. CASE Free
  BY <1>10 DEF Free, thread, DriverInv, TypeOK, WholeList, Poll!States, Poll!Alive
<1>11. CASE UNCHANGED vars
  BY <1>11 DEF vars, DriverInv, TypeOK, WholeList
<1> QED BY <1>1, <1>2, <1>3, <1>4, <1>5, <1>6, <1>7, <1>8, <1>9, <1>10, <1>11
        DEF Next, Remove

LEMMA InductiveInvariant == Spec => []DriverInv
BY InitDriver, StepDriver, PTL DEF Spec

(* The types hold.                                                         *)
THEOREM TypeCorrect == Spec => []TypeOK
<1>1. DriverInv => TypeOK
      BY DEF DriverInv
<1> QED BY <1>1, InductiveInvariant, PTL

(* From its creation until it returns the thread finds the module loaded,  *)
(* the list whole and every controller registered: kthread_stop() waits    *)
(* for it before sbridge_remove() begins.                                  *)
THEOREM ListOutlivesThread == Spec => []NoUseAfterFree
<1>1. DriverInv => NoUseAfterFree
      BY WholeListFacts DEF DriverInv, NoUseAfterFree, TypeOK
<1> QED BY <1>1, InductiveInvariant, PTL

(* Only a failed kthread_create() leaves controllers with EDAC.            *)
THEOREM UnloadIsClean == Spec => UnloadUnregisters
<1>1. DriverInv /\ [Next]_vars =>
        [mod # "absent" /\ mod' = "absent" /\ registered' # {} => StartFails]_vars
  <2> SUFFICES ASSUME DriverInv, Next, mod # "absent", mod' = "absent", ~StartFails
               PROVE  registered' = {}
      BY DEF vars
  <2>1. Free
        BY DEF Next, Probe, StartThread, ThreadStep, Reap, Exit, ExitFreed, Remove, Stopped,
               Unregister
  <2> QED BY <2>1 DEF Free, DriverInv
<1> QED BY <1>1, InductiveInvariant, PTL DEF Spec, UnloadUnregisters
=============================================================================
