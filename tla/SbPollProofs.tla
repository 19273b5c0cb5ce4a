---------------------------- MODULE SbPollProofs ----------------------------
(***************************************************************************)
(* Theorems about the polling thread of sb_edac.c, for every number of     *)
(* channels, ranks, sockets and processors and every bound on the errors.  *)
(***************************************************************************)
EXTENDS SbPoll, FiniteSetTheorems, TLAPS

(* The unsigned difference of two counters is a number, and it is zero     *)
(* only when the counters are equal: a test of it against zero sees every  *)
(* change of a counter, also one across a wrap.                            *)
LEMMA NewErrFacts ==
  ASSUME NEW a \in 0 .. (CounterMod - 1), NEW b \in 0 .. (CounterMod - 1)
  PROVE  /\ NewErr(a, b) \in Nat
         /\ NewErr(a, b) = 0 <=> a = b
         /\ a >= b => NewErr(a, b) = a - b
BY SizeAssumption DEF NewErr, U16Sub

LEMMA OnlineFinite ==
  ASSUME TypeOK
  PROVE  Cardinality(online) \div (NumSockets * 2) \in Nat
<1>1. IsFiniteSet(online)
  BY TopologyAssumption, FS_Subset DEF TypeOK, HardwareTypeOK
<1>2. Cardinality(online) \in Nat
  BY <1>1, FS_CardinalityType
<1>3. NumSockets * 2 \in Nat /\ NumSockets * 2 > 0
  BY TopologyAssumption
<1>4. \A n \in Nat, d \in Nat : d > 0 => n \div d \in Nat
  OBVIOUS
<1>. QED
  BY <1>2, <1>3, <1>4

LEMMA InitTypeOK == Init => TypeOK
<1>. SUFFICES ASSUME Init PROVE TypeOK
  OBVIOUS
<1>1. hw \in [Channels -> [Ranks -> 0 .. (CounterMod - 1)]]
  BY SizeAssumption DEF Init, HardwareInit
<1>2. errs \in [Channels -> [Ranks -> Nat]]
  BY <1>1, SizeAssumption DEF Init, HardwareInit
<1>3. /\ curr_err \in [Ranks -> 0 .. (CounterMod - 1)]
      /\ prev_err \in [Channels -> [Ranks -> 0 .. (CounterMod - 1)]]
      /\ reported \in [Channels -> [Ranks -> Nat]]
  BY SizeAssumption DEF Init, HardwareInit
<1>4. cpus_per_core \in Nat /\ ch \in Channels \cup {0} /\ i \in 0 .. NDword
  BY SizeAssumption DEF Init, HardwareInit
<1>5. /\ pc = "init" /\ should_stop \in BOOLEAN
      /\ online \subseteq Cpus /\ msr_addr \in Channels \cup {NoAddr}
  BY DEF Init, HardwareInit
<1>6. ha_addr \in [HomeAgents -> Channels \cup {NoAddr}]
  BY DEF Init, HardwareInit
<1>7. pc \in PCs /\ (Visiting => ch \in Channels) /\ (pc = "read" => i < NDword)
  BY <1>5 DEF PCs, Visiting
<1>. QED
  BY <1>1, <1>2, <1>3, <1>4, <1>5, <1>6, <1>7 DEF TypeOK, HardwareTypeOK

(* After Visit, ch and i are what TypeOK wants of the new pc.              *)
LEMMA VisitTypes ==
  ASSUME NEW c \in Nat \ {0}, Visit(c)
  PROVE  /\ pc' \in {"read", "sleep"}
         /\ ch' \in Channels \cup {0}
         /\ pc' = "read" => ch' \in Channels
         /\ i' \in 0 .. NDword /\ i' < NDword
BY SizeAssumption DEF Visit, Channels

LEMMA StepTypeOK ==
  ASSUME TypeOK, [Next]_vars
  PROVE  TypeOK'
<1>. USE SizeAssumption, TopologyAssumption DEF TypeOK, HardwareTypeOK, PCs, Visiting, NoAddr
<1>1. ASSUME NEW c \in Channels, NEW r \in Ranks, CorrectError(c, r), Undisturbed
      PROVE  TypeOK'
  <2>1. HomeAgent(c) \in HomeAgents
    BY DEF HomeAgent, HomeAgents
  <2>2. hw' \in [Channels -> [Ranks -> 0 .. (CounterMod - 1)]]
    <3>1. \A n \in 0 .. (CounterMod - 1) :
            (IF n = CounterMod - 1 THEN 0 ELSE n + 1) \in 0 .. (CounterMod - 1)
      OBVIOUS
    <3>. QED  BY <1>1, <3>1 DEF CorrectError, Undisturbed
  <2>3. errs' \in [Channels -> [Ranks -> Nat]]
    BY <1>1 DEF CorrectError, Undisturbed
  <2>4. ha_addr' \in [HomeAgents -> Channels \cup {NoAddr}]
    BY <1>1, <2>1 DEF CorrectError, Undisturbed
  <2>. QED
    BY <1>1, <2>2, <2>3, <2>4 DEF CorrectError, Undisturbed, locals
<1>2. ASSUME NEW p \in HotCpus, Offline(p) \/ Online(p), Undisturbed
      PROVE  TypeOK'
  BY <1>2 DEF Offline, Online, Undisturbed, locals
<1>3. CASE StopRequest
  BY <1>3 DEF StopRequest, locals, hardware
<1>4. CASE Start
  BY <1>4, OnlineFinite DEF Start, hardware
<1>5. CASE CheckStop
  <2>1. CASE should_stop
    BY <1>5, <2>1 DEF CheckStop, hardware
  <2>2. CASE ~should_stop
    BY <1>5, <2>2, VisitTypes DEF CheckStop, hardware
  <2>. QED  BY <2>1, <2>2
<1>6. CASE ReadDword
  <2>1. curr_err' \in [Ranks -> 0 .. (CounterMod - 1)]
    BY <1>6 DEF ReadDword
  <2>. QED
    BY <1>6, <2>1 DEF ReadDword, hardware
<1>7. CASE Quiet
  <2>1. Visit(ch + 1) /\ ch + 1 \in Nat \ {0}
    BY <1>7 DEF Quiet, Channels
  <2>. QED
    BY <1>7, <2>1, VisitTypes DEF Quiet, hardware
<1>8. CASE HasErrors \/ ReadFails \/ Wake
  BY <1>8 DEF HasErrors, ReadFails, Wake, hardware, locals
<1>9. CASE ReadStatus
  BY <1>9 DEF ReadStatus, hardware
<1>10. CASE ReadAddr
  <2>1. AgentRead(Cpu, ch) \in HomeAgents
    BY <1>10 DEF ReadAddr, AgentRead, HomeAgents, Doms, IMC0, IMC1
  <2>. QED
    BY <1>10, <2>1 DEF ReadAddr, hardware
<1>11. CASE Log
  <2>1. ch \in Channels /\ Visit(ch + 1) /\ ch + 1 \in Nat \ {0}
    BY <1>11 DEF Log, Channels
  <2>2. \A r \in Ranks : reported[ch][r] + NewErrs(ch)[r] \in Nat
    BY <2>1, NewErrFacts DEF NewErrs
  <2>3. reported' \in [Channels -> [Ranks -> Nat]]
    BY <1>11, <2>1, <2>2 DEF Log
  <2>4. prev_err' \in [Channels -> [Ranks -> 0 .. (CounterMod - 1)]]
    BY <1>11, <2>1 DEF Log, Remember
  <2>. QED
    BY <1>11, <2>1, <2>3, <2>4, VisitTypes DEF Log, hardware
<1>12. CASE UNCHANGED vars
  BY <1>12 DEF vars
<1>. QED
  BY <1>1, <1>2, <1>3, <1>4, <1>5, <1>6, <1>7, <1>8, <1>9, <1>10, <1>11, <1>12
     DEF Next, Thread, Environment, Hardware, HardwareStep

(* In every reachable state the thread's locals, prev_err and the log are  *)
(* well typed, and while it visits a channel, ch names one of them.        *)
THEOREM TypeCorrect == Spec => []TypeOK
BY InitTypeOK, StepTypeOK, PTL DEF Spec
-----------------------------------------------------------------------------
(* The ledger, while no counter can wrap.                                  *)

(* Whether curr_err[r] was read in the current visit.                      *)
Fresh(r) == \/ pc = "read" /\ r < 2 * i
            \/ pc \in {"diff", "status", "addr", "log"}

(* The inductive strengthening of Ledger: a counter that has not wrapped   *)
(* is the number of errors; what was read lies between what was logged and *)
(* what has occurred.                                                      *)
LedgerInv ==
  /\ hw = errs
  /\ \A c \in Channels, r \in Ranks :
       /\ errs[c][r] <= MaxErrors
       /\ reported[c][r] = prev_err[c][r]
       /\ prev_err[c][r] <= errs[c][r]
  /\ \A r \in Ranks : Fresh(r) =>
       prev_err[ch][r] <= curr_err[r] /\ curr_err[r] <= errs[ch][r]

LEMMA InitLedger ==
  ASSUME Init, MaxErrors < CounterMod
  PROVE  LedgerInv
<1>1. \A c \in Channels, r \in Ranks : errs[c][r] \in 0 .. MaxErrors
  BY SizeAssumption DEF Init, HardwareInit
<1>2. \A c \in Channels, r \in Ranks : reported[c][r] = 0 /\ prev_err[c][r] = 0
  BY DEF Init, HardwareInit
<1>3. hw = errs /\ \A r \in Ranks : ~Fresh(r)
  BY DEF Init, HardwareInit, Fresh
<1>. QED
  BY <1>1, <1>2, <1>3, SizeAssumption DEF LedgerInv

LEMMA StepLedger ==
  ASSUME TypeOK, LedgerInv, [Next]_vars, MaxErrors < CounterMod
  PROVE  LedgerInv'
<1>. USE SizeAssumption DEF LedgerInv
<1>1. ASSUME NEW c \in Channels, NEW r \in Ranks, CorrectError(c, r), Undisturbed
      PROVE  LedgerInv'
  <2>1. errs[c][r] < CounterMod - 1 /\ errs[c][r] # CounterMod - 1
    BY <1>1 DEF CorrectError, Undisturbed, TypeOK, HardwareTypeOK
  <2>2. hw' = [hw EXCEPT ![c][r] = @ + 1]
    BY <1>1, <2>1 DEF CorrectError, Undisturbed
  <2>3. errs' = [errs EXCEPT ![c][r] = @ + 1]
    BY <1>1 DEF CorrectError, Undisturbed
  <2>4. \A d \in Channels, q \in Ranks :
          errs'[d][q] >= errs[d][q] /\ errs'[d][q] <= MaxErrors /\ errs'[d][q] \in Nat
    BY <1>1, <2>3 DEF CorrectError, Undisturbed, TypeOK, HardwareTypeOK
  <2>5. UNCHANGED <<pc, i, ch, curr_err, prev_err, reported>>
    BY <1>1 DEF CorrectError, Undisturbed, locals
  <2>6. ASSUME NEW d \in Channels, NEW q \in Ranks
        PROVE  /\ reported'[d][q] = prev_err'[d][q]
               /\ prev_err'[d][q] <= errs'[d][q]
    BY <2>4, <2>5 DEF TypeOK, HardwareTypeOK
  <2>7. ASSUME NEW q \in Ranks, Fresh(q)'
        PROVE  prev_err'[ch'][q] <= curr_err'[q] /\ curr_err'[q] <= errs'[ch'][q]
    <3>1. Fresh(q) /\ ch \in Channels
      BY <2>5, <2>7 DEF Fresh, TypeOK, HardwareTypeOK, Visiting
    <3>. QED
      BY <2>4, <2>5, <3>1 DEF TypeOK, HardwareTypeOK
  <2>. QED
    BY <2>2, <2>3, <2>4, <2>6, <2>7
<1>2. ASSUME NEW p \in HotCpus, Offline(p) \/ Online(p), Undisturbed
      PROVE  LedgerInv'
  BY <1>2 DEF Offline, Online, Undisturbed, locals, Fresh
<1>3. CASE StopRequest \/ HasErrors \/ ReadStatus \/ ReadAddr \/ ReadFails \/ Wake
  BY <1>3 DEF StopRequest, HasErrors, ReadStatus, ReadAddr, ReadFails, Wake, locals,
              hardware, Fresh
<1>4. CASE Start \/ CheckStop \/ Quiet
  <2>1. \A q \in Ranks : ~Fresh(q)'
    BY <1>4 DEF Start, CheckStop, Quiet, Visit, Fresh, Ranks
  <2>. QED
    BY <1>4, <2>1 DEF Start, CheckStop, Quiet, hardware
<1>5. CASE ReadDword
  <2>. USE <1>5 DEF ReadDword, hardware, TypeOK, HardwareTypeOK, Visiting
  <2>1. ASSUME NEW q \in Ranks, Fresh(q)'
        PROVE  prev_err'[ch'][q] <= curr_err'[q] /\ curr_err'[q] <= errs'[ch'][q]
    <3>1. CASE q \in RanksOf(i)
      BY <3>1
    <3>2. CASE q \notin RanksOf(i)
      <4>1. q < 2 * i
        BY <2>1, <3>2 DEF Fresh, RanksOf, Ranks
      <4>. QED
        BY <3>2, <4>1 DEF Fresh
    <3>. QED
      BY <3>1, <3>2
  <2>. QED
    BY <2>1
<1>6. CASE Log
  <2>. USE <1>6 DEF Log, Remember, hardware, TypeOK, HardwareTypeOK, Visiting
  <2>1. \A q \in Ranks : /\ prev_err[ch][q] <= curr_err[q]
                         /\ curr_err[q] <= errs[ch][q]
                         /\ NewErrs(ch)[q] = curr_err[q] - prev_err[ch][q]
    BY NewErrFacts DEF Fresh, NewErrs
  <2>2. \A q \in Ranks : reported'[ch][q] = curr_err[q] /\ prev_err'[ch][q] = curr_err[q]
    BY <2>1
  <2>3. \A d \in Channels \ {ch} : reported'[d] = reported[d] /\ prev_err'[d] = prev_err[d]
    OBVIOUS
  <2>4. \A q \in Ranks : ~Fresh(q)'
    BY DEF Visit, Fresh, Ranks
  <2>. QED
    BY <2>1, <2>2, <2>3, <2>4
<1>7. CASE UNCHANGED vars
  BY <1>7 DEF vars, Fresh
<1>. QED
  BY <1>1, <1>2, <1>3, <1>4, <1>5, <1>6, <1>7 DEF Next, Thread, Environment, Hardware, HardwareStep

(* As long as no counter wraps, the log accounts for every error at most   *)
(* once and for nothing else, however errors, failures of the MSR reads    *)
(* and unloading interleave with the thread.                               *)
THEOREM LedgerHolds ==
  ASSUME MaxErrors < CounterMod
  PROVE  Spec => []Ledger
<1>1. Init => LedgerInv
  BY InitLedger
<1>2. TypeOK /\ LedgerInv /\ [Next]_vars => LedgerInv'
  BY StepLedger
<1>3. LedgerInv => Ledger
  BY DEF LedgerInv, Ledger
<1>. QED
  BY <1>1, <1>2, <1>3, TypeCorrect, PTL DEF Spec
-----------------------------------------------------------------------------
(* The thread implements the ledger.                                       *)

LEMMA StepRefines ==
  ASSUME TypeOK, TypeOK', LedgerInv, LedgerInv', [Next]_vars
  PROVE  [Promise!Next]_<<errs, reported>>
<1>. USE DEF Promise!Next, Promise!Occur, Promise!Report
<1>1. ASSUME NEW c \in Channels, NEW r \in Ranks, CorrectError(c, r), Undisturbed
      PROVE  Promise!Next
  BY <1>1 DEF CorrectError, Undisturbed
<1>2. ASSUME NEW p \in HotCpus, Offline(p) \/ Online(p), Undisturbed
      PROVE  UNCHANGED <<errs, reported>>
  BY <1>2 DEF Offline, Online, Undisturbed
<1>3. CASE \/ StopRequest \/ Start \/ CheckStop \/ ReadDword \/ Quiet \/ HasErrors
           \/ ReadStatus \/ ReadAddr \/ ReadFails \/ Wake
  BY <1>3 DEF StopRequest, Start, CheckStop, ReadDword, Quiet, HasErrors, ReadStatus,
              ReadAddr, ReadFails, Wake, hardware
<1>4. CASE Log
  <2>1. ch \in Channels /\ errs' = errs
    BY <1>4 DEF Log, TypeOK, HardwareTypeOK, Visiting, hardware
  <2>2. \A d \in Channels \ {ch} : reported'[d] = reported[d]
    BY <1>4, <2>1 DEF Log, TypeOK, HardwareTypeOK
  <2>3. \A q \in Ranks : reported'[ch][q] = reported[ch][q] + NewErrs(ch)[q]
    BY <1>4, <2>1 DEF Log, TypeOK, HardwareTypeOK
  <2>4. \A q \in Ranks : NewErrs(ch)[q] \in Nat
    BY <2>1, NewErrFacts DEF NewErrs, TypeOK, HardwareTypeOK
  <2>5. \A q \in Ranks : /\ reported[ch][q] <= reported'[ch][q]
                         /\ reported'[ch][q] <= errs[ch][q]
    <3>1. \A q \in Ranks : reported[ch][q] \in Nat
      BY <2>1 DEF TypeOK, HardwareTypeOK
    <3>2. \A q \in Ranks : reported'[ch][q] <= errs[ch][q]
      BY <2>1 DEF LedgerInv
    <3>. QED
      BY <2>3, <2>4, <3>1, <3>2
  <2>6. CASE AnyNew(ch)
    <3>1. PICK q \in Ranks : NewErrs(ch)[q] # 0
      BY <2>6 DEF AnyNew
    <3>2. reported[ch][q] < reported'[ch][q]
      BY <2>1, <2>3, <2>4, <3>1 DEF TypeOK, HardwareTypeOK
    <3>3. Promise!Report(ch)
      BY <2>1, <2>2, <2>5, <3>2 DEF TypeOK, HardwareTypeOK
    <3>. QED
      BY <2>1, <3>3
  <2>7. CASE ~AnyNew(ch)
    <3>1. \A q \in Ranks : reported'[ch][q] = reported[ch][q]
      <4>1. \A q \in Ranks : NewErrs(ch)[q] = 0
        BY <2>7 DEF AnyNew
      <4>2. \A q \in Ranks : reported[ch][q] \in Nat
        BY <2>1 DEF TypeOK, HardwareTypeOK
      <4>. QED
        BY <2>3, <4>1, <4>2
    <3>2. reported' = reported
      BY <2>1, <2>2, <3>1 DEF TypeOK, HardwareTypeOK
    <3>. QED
      BY <2>1, <3>2
  <2>. QED
    BY <2>6, <2>7
<1>5. CASE UNCHANGED vars
  BY <1>5 DEF vars
<1>. QED
  BY <1>1, <1>2, <1>3, <1>4, <1>5 DEF Next, Thread, Environment, Hardware, HardwareStep

(* As long as no counter wraps, every behaviour of the polling thread and  *)
(* its hardware is a behaviour of ErrorLedger: each log line is about one  *)
(* channel and carries errors of it that occurred and were not yet logged. *)
THEOREM PollImplementsLedger ==
  ASSUME MaxErrors < CounterMod
  PROVE  Spec => KeepsLedger
<1>1. Init => Promise!Init
  <2>1. Init => errs \in [Channels -> [Ranks -> Nat]]
    BY InitTypeOK DEF TypeOK, HardwareTypeOK
  <2>. QED
    BY <2>1 DEF Init, HardwareInit, Promise!Init
<1>2. Init => LedgerInv
  BY InitLedger
<1>3. TypeOK /\ LedgerInv /\ [Next]_vars => LedgerInv'
  BY StepLedger
<1>4. TypeOK /\ TypeOK' /\ LedgerInv /\ LedgerInv' /\ [Next]_vars
        => [Promise!Next]_<<errs, reported>>
  BY StepRefines
<1>. QED
  BY <1>1, <1>2, <1>3, <1>4, TypeCorrect, PTL
     DEF Spec, KeepsLedger, Promise!Spec, Promise!vars

-----------------------------------------------------------------------------
(* The address of a line.                                                  *)

(* An agent with an error on one of its channels holds an address, and     *)
(* only of its own channels; non-zero counts anywhere in the thread come   *)
(* from errors of that rank.                                               *)
AddressInv ==
  /\ \A c \in Channels, r \in Ranks :
       /\ hw[c][r] # 0 \/ prev_err[c][r] # 0 => errs[c][r] # 0
       /\ errs[c][r] # 0 => ha_addr[HomeAgent(c)] # NoAddr
  /\ \A h \in HomeAgents : ha_addr[h] # NoAddr => HomeAgent(ha_addr[h]) = h
  /\ \A r \in Ranks : Fresh(r) /\ curr_err[r] # 0 => errs[ch][r] # 0
  /\ pc \in {"status", "addr", "log"} => AnyNew(ch)
  /\ AddressFromOwnHomeAgent

LEMMA AgentTypes ==
  ASSUME NEW c \in Channels
  PROVE  HomeAgent(c) \in HomeAgents
BY TopologyAssumption DEF HomeAgent, HomeAgents

(* A channel with something to log has an address at its agent.            *)
LEMMA NewHasAddress ==
  ASSUME TypeOK, AddressInv, pc \in {"diff", "status", "addr", "log"}, AnyNew(ch)
  PROVE  /\ ch \in Channels
         /\ ha_addr[HomeAgent(ch)] \in Channels
         /\ HomeAgent(ha_addr[HomeAgent(ch)]) = HomeAgent(ch)
<1>1. ch \in Channels
  BY DEF TypeOK, HardwareTypeOK, Visiting
<1>2. PICK r \in Ranks : NewErrs(ch)[r] # 0
  BY DEF AnyNew
<1>3. curr_err[r] # prev_err[ch][r]
  BY <1>1, <1>2, NewErrFacts DEF NewErrs, TypeOK, HardwareTypeOK
<1>4. errs[ch][r] # 0
  BY <1>1, <1>3 DEF AddressInv, Fresh
<1>. QED
  BY <1>1, <1>4, AgentTypes DEF AddressInv, TypeOK, HardwareTypeOK

LEMMA InitAddress ==
  ASSUME Init
  PROVE  AddressInv
<1>1. TypeOK
  BY InitTypeOK
<1>2. ASSUME NEW c \in Channels, NEW r \in Ranks, errs[c][r] # 0
      PROVE  ha_addr[HomeAgent(c)] # NoAddr
  <2>1. c \in Latched(HomeAgent(c))
    BY <1>1, <1>2 DEF Init, HardwareInit, Latched, TypeOK, HardwareTypeOK
  <2>2. ha_addr[HomeAgent(c)] \in Latched(HomeAgent(c))
    BY <2>1, AgentTypes DEF Init, HardwareInit
  <2>3. Latched(HomeAgent(c)) \subseteq Channels
    BY DEF Latched
  <2>4. \A d \in Channels : d # NoAddr
    BY SizeAssumption DEF Channels, NoAddr
  <2>. QED
    BY <2>2, <2>3, <2>4
<1>3. ASSUME NEW h \in HomeAgents, ha_addr[h] # NoAddr
      PROVE  HomeAgent(ha_addr[h]) = h
  BY <1>3 DEF Init, HardwareInit, Latched
<1>4. \A c \in Channels, r \in Ranks : hw[c][r] = errs[c][r] /\ prev_err[c][r] = 0
  BY DEF Init, HardwareInit
<1>5. pc = "init"
  BY DEF Init, HardwareInit
<1>. QED
  BY <1>2, <1>3, <1>4, <1>5 DEF AddressInv, Fresh, AddressFromOwnHomeAgent

LEMMA StepAddress ==
  ASSUME TypeOK, TypeOK', AddressInv, [Next]_vars
  PROVE  AddressInv'
<1>1. ASSUME NEW c \in Channels, NEW r \in Ranks, CorrectError(c, r), Undisturbed
      PROVE  AddressInv'
  <2>1. UNCHANGED <<pc, i, ch, curr_err, prev_err, msr_addr, cpus_per_core>>
    BY <1>1 DEF CorrectError, Undisturbed, locals
  <2>2. \A d \in Channels, q \in Ranks :
          /\ errs[d][q] # 0 => errs'[d][q] # 0
          /\ hw'[d][q] # 0 => hw[d][q] # 0 \/ errs'[d][q] # 0
    BY <1>1 DEF CorrectError, Undisturbed, TypeOK, HardwareTypeOK
  <2>3. \A h \in HomeAgents : \/ ha_addr'[h] = ha_addr[h]
                              \/ h = HomeAgent(c) /\ ha_addr'[h] = c
    BY <1>1, AgentTypes DEF CorrectError, Undisturbed, TypeOK, HardwareTypeOK
  <2>4. c # NoAddr /\ ha_addr'[HomeAgent(c)] # NoAddr
    BY <1>1, AgentTypes DEF CorrectError, Undisturbed, TypeOK, HardwareTypeOK, NoAddr, Channels
  <2>5. ASSUME NEW d \in Channels, NEW q \in Ranks
        PROVE  /\ hw'[d][q] # 0 \/ prev_err'[d][q] # 0 => errs'[d][q] # 0
               /\ errs'[d][q] # 0 => ha_addr'[HomeAgent(d)] # NoAddr
    <3>1. d = c \/ errs'[d][q] = errs[d][q]
      BY <1>1 DEF CorrectError, Undisturbed, TypeOK, HardwareTypeOK
    <3>. QED
      BY <2>1, <2>2, <2>3, <2>4, <3>1, AgentTypes DEF AddressInv
  <2>6. \A h \in HomeAgents : ha_addr'[h] # NoAddr => HomeAgent(ha_addr'[h]) = h
    BY <2>3 DEF AddressInv
  <2>7. \A q \in Ranks : Fresh(q)' /\ curr_err'[q] # 0 => errs'[ch'][q] # 0
    BY <2>1, <2>2 DEF AddressInv, Fresh, TypeOK, HardwareTypeOK, Visiting
  <2>8. /\ pc' \in {"status", "addr", "log"} => AnyNew(ch)'
        /\ AddressFromOwnHomeAgent'
    BY <2>1 DEF AddressInv, AnyNew, NewErrs, AddressFromOwnHomeAgent, Placed
  <2>. QED
    BY <2>5, <2>6, <2>7, <2>8 DEF AddressInv
<1>2. ASSUME NEW p \in HotCpus, Offline(p) \/ Online(p), Undisturbed
      PROVE  AddressInv'
  BY <1>2 DEF Offline, Online, Undisturbed, locals, AddressInv, Fresh, AnyNew, NewErrs,
              AddressFromOwnHomeAgent, Placed
<1>3. CASE StopRequest
  BY <1>3 DEF StopRequest, hardware, locals, AddressInv, Fresh, AnyNew, NewErrs,
              AddressFromOwnHomeAgent, Placed
<1>4. CASE Start \/ CheckStop \/ Quiet \/ ReadFails \/ Wake
  <2>1. /\ pc' \notin {"diff", "status", "addr", "log"}
        /\ \A q \in Ranks : ~Fresh(q)'
    BY <1>4 DEF Start, CheckStop, Quiet, ReadFails, Wake, Visit, Fresh, Ranks, locals
  <2>2. UNCHANGED <<hw, errs, ha_addr, prev_err>>
    BY <1>4 DEF Start, CheckStop, Quiet, ReadFails, Wake, hardware
  <2>. QED
    BY <2>1, <2>2 DEF AddressInv, AddressFromOwnHomeAgent
<1>5. CASE ReadDword
  <2>1. UNCHANGED <<hw, errs, ha_addr, prev_err, ch>> /\ pc' \in {"read", "diff"}
    BY <1>5 DEF ReadDword, hardware
  <2>2. ch \in Channels /\ i \in Nat
    BY <1>5 DEF ReadDword, TypeOK, HardwareTypeOK, Visiting
  <2>3. ASSUME NEW q \in Ranks, Fresh(q)', curr_err'[q] # 0
        PROVE  errs'[ch'][q] # 0
    <3>1. CASE q \in RanksOf(i)
      BY <1>5, <2>1, <2>2, <2>3, <3>1 DEF ReadDword, AddressInv
    <3>2. CASE q \notin RanksOf(i)
      <4>1. q < 2 * i
        BY <1>5, <2>2, <2>3, <3>2, SizeAssumption
           DEF ReadDword, Fresh, RanksOf, Ranks, TypeOK, HardwareTypeOK
      <4>. QED
        BY <1>5, <2>1, <2>3, <3>2, <4>1 DEF ReadDword, AddressInv, Fresh
    <3>. QED
      BY <3>1, <3>2
  <2>. QED
    BY <2>1, <2>3 DEF AddressInv, AddressFromOwnHomeAgent
<1>6. CASE HasErrors
  BY <1>6 DEF HasErrors, hardware, locals, AddressInv, Fresh, AnyNew, NewErrs,
              AddressFromOwnHomeAgent
<1>7. CASE ReadStatus
  BY <1>7 DEF ReadStatus, hardware, AddressInv, Fresh, AnyNew, NewErrs,
              AddressFromOwnHomeAgent
<1>8. CASE ReadAddr
  <2>1. AnyNew(ch) /\ pc = "addr"
    BY <1>8 DEF ReadAddr, AddressInv
  <2>2. ASSUME Placed(ch)
        PROVE  AgentRead(Cpu, ch) = HomeAgent(ch)
    <3>1. ch \in Channels
      BY <2>1, NewHasAddress
    <3>2. SocketOf[Cpu] = SourceId[ch]
      BY <2>2 DEF Placed, Cpu
    <3>3. Dom[ch] = (IF Dom[ch] = IMC0 THEN IMC0 ELSE IMC1)
      BY <3>1, TopologyAssumption DEF Doms, IMC0, IMC1
    <3>. QED
      BY <3>2, <3>3 DEF AgentRead, HomeAgent
  <2>3. AddressFromOwnHomeAgent'
    <3>1. UNCHANGED <<ch, cpus_per_core>> /\ msr_addr' = ha_addr[AgentRead(Cpu, ch)]
      BY <1>8 DEF ReadAddr
    <3>. QED
      BY <2>1, <2>2, <3>1, NewHasAddress DEF AddressFromOwnHomeAgent, Placed
  <2>. QED
    BY <1>8, <2>1, <2>3 DEF ReadAddr, hardware, AddressInv, Fresh, AnyNew, NewErrs
<1>9. CASE Log
  <2>1. ch \in Channels /\ UNCHANGED <<hw, errs, ha_addr>>
    BY <1>9 DEF Log, hardware, TypeOK, HardwareTypeOK, Visiting
  <2>2. /\ pc' \in {"read", "sleep"}
        /\ \A q \in Ranks : ~Fresh(q)'
    BY <1>9 DEF Log, Visit, Fresh, Ranks
  <2>3. \A d \in Channels, q \in Ranks : prev_err'[d][q] # 0 => errs[d][q] # 0
    BY <1>9, <2>1 DEF Log, Remember, AddressInv, Fresh, TypeOK, HardwareTypeOK
  <2>. QED
    BY <2>1, <2>2, <2>3 DEF AddressInv, AddressFromOwnHomeAgent
<1>10. CASE UNCHANGED vars
  BY <1>10 DEF vars, AddressInv, Fresh, AnyNew, NewErrs, AddressFromOwnHomeAgent, Placed
<1>. QED
  BY <1>1, <1>2, <1>3, <1>4, <1>5, <1>6, <1>7, <1>8, <1>9, <1>10
     DEF Next, Thread, Environment, Hardware, HardwareStep

(* Wrapped counters or not: a line never pairs the counts of a channel     *)
(* with an empty address register or with an address of another home       *)
(* agent, when the processor the read ran on is of the channel's socket.   *)
THEOREM AddressHolds == Spec => []AddressFromOwnHomeAgent
<1>1. Init => AddressInv
  BY InitAddress
<1>2. TypeOK /\ TypeOK' /\ AddressInv /\ [Next]_vars => AddressInv'
  BY StepAddress
<1>3. AddressInv => AddressFromOwnHomeAgent
  BY DEF AddressInv
<1>. QED
  BY <1>1, <1>2, <1>3, TypeCorrect, PTL DEF Spec

-----------------------------------------------------------------------------
(* The thread as its driver sees it.                                       *)

LEMMA StepLives == TypeOK /\ TypeOK' /\ [Next]_vars => [Life!Next]_(Life!vars)
<1>. SUFFICES ASSUME TypeOK, TypeOK', [Next]_vars
              PROVE  [Life!Next]_(Life!vars)
  OBVIOUS
<1>. USE DEF Life!Next, Life!vars, Life!Step, Life!Walk, Life!Return
<1>1. CASE Hardware
  BY <1>1 DEF Hardware, Undisturbed, locals, TaskOf, Visiting
<1>2. CASE StopRequest
  <2>1. Life!Stop
    BY <1>2 DEF StopRequest, locals, TaskOf, Visiting, Life!Stop
  <2>. QED
    BY <2>1
<1>3. CASE Start
  <2>1. Life!Begin /\ UNCHANGED should_stop
    BY <1>3 DEF Start, TaskOf, Visiting, Life!Begin
  <2>. QED
    BY <2>1
<1>4. CASE CheckStop
  <2>1. Life!Check /\ UNCHANGED should_stop
    BY <1>4 DEF CheckStop, Visit, TaskOf, Visiting, Life!Check
  <2>. QED
    BY <2>1
<1>5. CASE ReadDword \/ HasErrors \/ ReadStatus \/ ReadAddr
  BY <1>5 DEF ReadDword, HasErrors, ReadStatus, ReadAddr, locals, TaskOf, Visiting
<1>6. CASE Quiet \/ Log
  <2>1. ch \in Channels
    BY <1>6 DEF Quiet, Log, TypeOK, Visiting
  <2>2. Life!Visit /\ UNCHANGED should_stop
    BY <1>6, <2>1 DEF Quiet, Log, Visit, TaskOf, Visiting, Life!Visit
  <2>. QED
    BY <2>2
<1>7. CASE ReadFails
  <2>1. Life!Fail /\ UNCHANGED should_stop
    BY <1>7 DEF ReadFails, TaskOf, Visiting, Life!Fail
  <2>. QED
    BY <2>1
<1>8. CASE Wake
  <2>1. Life!Wake /\ UNCHANGED should_stop
    BY <1>8 DEF Wake, locals, TaskOf, Visiting, Life!Wake
  <2>. QED
    BY <2>1
<1>9. CASE UNCHANGED vars
  BY <1>9 DEF vars, TaskOf, Visiting
<1>. QED
  BY <1>1, <1>2, <1>3, <1>4, <1>5, <1>6, <1>7, <1>8, <1>9
     DEF Next, Thread, Environment

(* Every behaviour of the polling thread is one of PollThread, which is    *)
(* how SbDriver may put that module in its place.                          *)
THEOREM PollIsPollThread == Spec => LivesAsThread
<1>1. Init => Life!Init
  BY DEF Init, Life!Init, TaskOf, Visiting
<1>2. TypeOK /\ TypeOK' /\ [Next]_vars => [Life!Next]_(Life!vars)
  BY StepLives
<1>. QED
  BY <1>1, <1>2, TypeCorrect, PTL DEF Spec, LivesAsThread, Life!Spec
=============================================================================
