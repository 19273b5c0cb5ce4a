--------------------------- MODULE SkxPollProofs ---------------------------
(***************************************************************************)
(* Theorems about the polling thread of skx_base.c, for every number of    *)
(* channels, ranks, sockets and processors and every bound on the errors.  *)
(* They are the four that SbPollProofs states of the other driver; the     *)
(* arguments differ because this thread moves prev forward before it reads *)
(* the MSRs and carries the differences in new_vals.                       *)
(***************************************************************************)
EXTENDS SkxPoll, FiniteSetTheorems, TLAPS

(* The unsigned difference of two counters is a number, and zero only when *)
(* the counters are equal.                                                 *)
LEMMA DifferenceFacts ==
  ASSUME NEW a \in 0 .. (CounterMod - 1), NEW b \in 0 .. (CounterMod - 1)
  PROVE  /\ U16Sub(a, b) \in Nat
         /\ U16Sub(a, b) = 0 <=> a = b
         /\ a >= b => U16Sub(a, b) = a - b
BY SizeAssumption DEF U16Sub

LEMMA ShareOfCpus ==
  ASSUME TypeOK
  PROVE  Cardinality(online) \div (NumSockets * 2) \in Nat
<1>1. Cardinality(online) \in Nat
  BY TopologyAssumption, FS_Subset, FS_CardinalityType DEF TypeOK, HardwareTypeOK
<1>2. NumSockets * 2 \in Nat /\ NumSockets * 2 > 0
  BY TopologyAssumption
<1>3. \A n \in Nat, d \in Nat : d > 0 => n \div d \in Nat
  OBVIOUS
<1>. QED
  BY <1>1, <1>2, <1>3

LEMMA InitTypeOK == Init => TypeOK
<1>. SUFFICES ASSUME Init PROVE TypeOK
  OBVIOUS
<1>1. HardwareTypeOK
  BY SizeAssumption DEF Init, HardwareInit, HardwareTypeOK
<1>2. /\ curr_vals \in [Ranks -> 0 .. (CounterMod - 1)]
      /\ new_vals \in [Ranks -> Nat]
      /\ prev \in [Channels -> [Ranks -> 0 .. (CounterMod - 1)]]
      /\ reported \in [Channels -> [Ranks -> Nat]]
  BY SizeAssumption DEF Init
<1>3. cpus_per_core \in Nat /\ ch = 0 /\ j \in 0 .. NDword /\ msr_addr = NoAddr
  BY SizeAssumption DEF Init
<1>4. pc = "init" /\ should_stop \in BOOLEAN
  BY DEF Init
<1>. QED
  BY <1>1, <1>2, <1>3, <1>4 DEF TypeOK, Visiting

(* After Visit, ch and j are what TypeOK wants of the new pc.              *)
LEMMA VisitTypes ==
  ASSUME NEW c \in Nat \ {0}, Visit(c)
  PROVE  /\ pc' \in {"read", "sleep"}
         /\ ch' \in Channels \cup {0}
         /\ pc' = "read" => ch' \in Channels
         /\ j' \in 0 .. NDword /\ j' < NDword
BY SizeAssumption DEF Visit, Channels

(* A step of the hardware keeps the hardware's types.                      *)
LEMMA HardwareTypes ==
  ASSUME HardwareTypeOK, HardwareStep
  PROVE  HardwareTypeOK'
<1>. USE DEF HardwareTypeOK
<1>1. ASSUME NEW c \in Channels, NEW r \in Ranks, CorrectError(c, r)
      PROVE  HardwareTypeOK'
  <2>1. HomeAgent(c) \in HomeAgents
    BY TopologyAssumption DEF HomeAgent, HomeAgents
  <2>2. \A n \in 0 .. (CounterMod - 1) :
          (IF n = CounterMod - 1 THEN 0 ELSE n + 1) \in 0 .. (CounterMod - 1)
    BY SizeAssumption
  <2>3. hw' \in [Channels -> [Ranks -> 0 .. (CounterMod - 1)]]
    BY <1>1, <2>2 DEF CorrectError
  <2>4. errs' \in [Channels -> [Ranks -> Nat]] /\ online' \subseteq Cpus
    BY <1>1 DEF CorrectError
  <2>5. ha_addr' \in [HomeAgents -> Channels \cup {NoAddr}]
    BY <1>1, <2>1 DEF CorrectError
  <2>. QED
    BY <2>3, <2>4, <2>5
<1>2. ASSUME NEW p \in HotCpus, Offline(p) \/ Online(p)
      PROVE  HardwareTypeOK'
  BY <1>2, TopologyAssumption DEF Offline, Online
<1>. QED
  BY <1>1, <1>2 DEF HardwareStep

LEMMA StepTypeOK ==
  ASSUME TypeOK, [Next]_vars
  PROVE  TypeOK'
<1>. USE SizeAssumption DEF TypeOK, Visiting
<1>1. CASE Hardware
  BY <1>1, HardwareTypes DEF Hardware, Undisturbed, locals
<1>2. CASE StopRequest \/ ReadFails \/ Wake
  BY <1>2 DEF StopRequest, ReadFails, Wake, locals, hardware, HardwareTypeOK
<1>3. CASE Start
  BY <1>3, ShareOfCpus DEF Start, hardware, HardwareTypeOK
<1>4. CASE CheckStop
  <2>1. CASE should_stop
    BY <1>4, <2>1 DEF CheckStop, hardware, HardwareTypeOK
  <2>2. CASE ~should_stop
    BY <1>4, <2>2, VisitTypes DEF CheckStop, hardware, HardwareTypeOK
  <2>. QED  BY <2>1, <2>2
<1>5. CASE ReadDword
  <2>1. curr_vals' \in [Ranks -> 0 .. (CounterMod - 1)]
    BY <1>5 DEF ReadDword, HardwareTypeOK
  <2>. QED
    BY <1>5, <2>1 DEF ReadDword, hardware, HardwareTypeOK
<1>6. CASE Diff
  <2>1. ch \in Channels /\ ch + 1 \in Nat \ {0}
    BY <1>6 DEF Diff, Channels
  <2>2. new_vals' \in [Ranks -> Nat]
    BY <1>6, <2>1, DifferenceFacts DEF Diff, Differences
  <2>3. prev' \in [Channels -> [Ranks -> 0 .. (CounterMod - 1)]]
    BY <1>6, <2>1 DEF Diff, Stored
  <2>4. CASE AnyNonZero(new_vals')
    BY <1>6, <2>1, <2>2, <2>3, <2>4 DEF Diff, hardware, HardwareTypeOK
  <2>5. CASE ~AnyNonZero(new_vals')
    BY <1>6, <2>1, <2>2, <2>3, <2>5, VisitTypes DEF Diff, hardware, HardwareTypeOK
  <2>. QED  BY <2>4, <2>5
<1>7. CASE ReadStatus
  BY <1>7 DEF ReadStatus, hardware, HardwareTypeOK
<1>8. CASE ReadAddr
  <2>1. AgentRead(Cpu, ch) \in HomeAgents
    BY <1>8, TopologyAssumption
       DEF ReadAddr, AgentRead, HomeAgents, Doms, IMC0, IMC1, HardwareTypeOK
  <2>. QED
    BY <1>8, <2>1 DEF ReadAddr, hardware, HardwareTypeOK
<1>9. CASE Log
  <2>1. ch \in Channels /\ ch + 1 \in Nat \ {0}
    BY <1>9 DEF Log, Channels
  <2>2. reported' \in [Channels -> [Ranks -> Nat]]
    BY <1>9, <2>1 DEF Log
  <2>. QED
    BY <1>9, <2>1, <2>2, VisitTypes DEF Log, hardware, HardwareTypeOK
<1>10. CASE UNCHANGED vars
  BY <1>10 DEF vars, HardwareTypeOK
<1>. QED
  BY <1>1, <1>2, <1>3, <1>4, <1>5, <1>6, <1>7, <1>8, <1>9, <1>10
     DEF Next, Thread, Environment

(* In every reachable state the thread's locals, prev and the log are well *)
(* typed, and while it visits a channel, ch names one of them.             *)
THEOREM TypeCorrect == Spec => []TypeOK
BY InitTypeOK, StepTypeOK, PTL DEF Spec
-----------------------------------------------------------------------------
(* The account, while no counter can wrap.                                 *)

(* Whether curr_vals[r] was read in the current visit and is still to be   *)
(* compared with prev.                                                     *)
Fresh(r) == \/ pc = "read" /\ r \div 2 < j
            \/ pc = "diff"

(* The inductive strengthening of Accounted: a counter that has not        *)
(* wrapped is the number of errors, and what was read lies between what    *)
(* prev remembers and what has occurred.                                   *)
AccountInv ==
  /\ Accounted
  /\ hw = errs
  /\ \A c \in Channels, r \in Ranks : errs[c][r] <= MaxErrors
  /\ \A r \in Ranks : Fresh(r) =>
       prev[ch][r] <= curr_vals[r] /\ curr_vals[r] <= errs[ch][r]

LEMMA RankHalf ==
  ASSUME NEW r \in Ranks
  PROVE  /\ r \in Nat /\ r \div 2 \in 0 .. (NDword - 1)
         /\ \A n \in Nat : r \div 2 < n + 1 => r \div 2 < n \/ r \div 2 = n
BY SizeAssumption DEF Ranks

LEMMA InitAccount ==
  ASSUME Init, MaxErrors < CounterMod
  PROVE  AccountInv
<1>1. \A c \in Channels, r \in Ranks : errs[c][r] \in 0 .. MaxErrors
  BY SizeAssumption DEF Init, HardwareInit
<1>2. \A c \in Channels, r \in Ranks : reported[c][r] = 0 /\ prev[c][r] = 0
  BY DEF Init
<1>3. hw = errs /\ pc = "init"
  BY DEF Init, HardwareInit
<1>4. Accounted
  BY <1>1, <1>2, <1>3, SizeAssumption DEF Accounted, Carried
<1>. QED
  BY <1>1, <1>3, <1>4, SizeAssumption DEF AccountInv, Fresh

(* An error that occurs disturbs no account.                               *)
LEMMA ErrorKeepsAccount ==
  ASSUME TypeOK, AccountInv, MaxErrors < CounterMod,
         NEW c \in Channels, NEW r \in Ranks, CorrectError(c, r), Undisturbed
  PROVE  AccountInv'
<1>. USE SizeAssumption DEF TypeOK, HardwareTypeOK
<1>1. errs[c][r] # CounterMod - 1 /\ hw = errs
  BY DEF CorrectError, AccountInv
<1>2. hw' = errs' /\ errs' = [errs EXCEPT ![c][r] = @ + 1]
  BY <1>1 DEF CorrectError
<1>3. \A d \in Channels, q \in Ranks :
        errs'[d][q] >= errs[d][q] /\ errs'[d][q] <= MaxErrors /\ errs'[d][q] \in Nat
  BY <1>2 DEF CorrectError, AccountInv
<1>4. UNCHANGED <<pc, ch, j, curr_vals, new_vals, prev, reported>>
  BY DEF Undisturbed, locals
<1>5. ASSUME NEW d \in Channels, NEW q \in Ranks
      PROVE  /\ prev'[d][q] = reported'[d][q] + Carried(d, q)'
             /\ prev'[d][q] <= errs'[d][q]
  <2>1. Carried(d, q)' = Carried(d, q)
    BY <1>4 DEF Carried
  <2>. QED
    BY <1>3, <1>4, <2>1 DEF AccountInv, Accounted
<1>6. ASSUME NEW q \in Ranks, Fresh(q)'
      PROVE  prev'[ch'][q] <= curr_vals'[q] /\ curr_vals'[q] <= errs'[ch'][q]
  <2>1. Fresh(q) /\ ch \in Channels
    BY <1>4, <1>6 DEF Fresh, Visiting
  <2>. QED
    BY <1>3, <1>4, <2>1 DEF AccountInv
<1>. QED
  BY <1>2, <1>3, <1>5, <1>6 DEF AccountInv, Accounted

LEMMA StepAccount ==
  ASSUME TypeOK, AccountInv, [Next]_vars, MaxErrors < CounterMod
  PROVE  AccountInv'
<1>. USE SizeAssumption DEF AccountInv
<1>1. ASSUME NEW c \in Channels, NEW r \in Ranks, CorrectError(c, r), Undisturbed
      PROVE  AccountInv'
  BY <1>1, ErrorKeepsAccount
<1>2. ASSUME NEW p \in HotCpus, Offline(p) \/ Online(p), Undisturbed
      PROVE  AccountInv'
  BY <1>2 DEF Offline, Online, Undisturbed, locals, Fresh, Accounted, Carried
<1>3. CASE StopRequest \/ ReadStatus \/ ReadAddr \/ ReadFails
  BY <1>3 DEF StopRequest, ReadStatus, ReadAddr, ReadFails, locals, hardware, Fresh,
              Accounted, Carried
<1>4. CASE Start \/ CheckStop \/ Wake
  <2>1. \A c \in Channels, q \in Ranks : Carried(c, q) = 0 /\ Carried(c, q)' = 0
    BY <1>4 DEF Start, CheckStop, Wake, Visit, Carried
  <2>2. \A q \in Ranks : ~Fresh(q)'
    BY <1>4, RankHalf DEF Start, CheckStop, Wake, Visit, Fresh
  <2>. QED
    BY <1>4, <2>1, <2>2 DEF Start, CheckStop, Wake, hardware, locals, Accounted
<1>5. CASE ReadDword
  <2>. USE <1>5 DEF ReadDword, hardware, TypeOK, HardwareTypeOK, Visiting
  <2>1. ASSUME NEW q \in Ranks, Fresh(q)'
        PROVE  prev'[ch'][q] <= curr_vals'[q] /\ curr_vals'[q] <= errs'[ch'][q]
    <3>1. CASE q \div 2 = j
      BY <3>1 DEF Accounted
    <3>2. CASE q \div 2 # j
      <4>1. q \div 2 < j
        BY <2>1, <3>2, RankHalf DEF Fresh
      <4>. QED
        BY <3>2, <4>1 DEF Fresh
    <3>. QED
      BY <3>1, <3>2
  <2>2. Accounted'
    BY DEF Accounted, Carried
  <2>. QED
    BY <2>1, <2>2
<1>6. CASE Diff
  <2>. USE <1>6 DEF Diff, hardware, TypeOK, HardwareTypeOK, Visiting
  <2>1. ch \in Channels
    OBVIOUS
  <2>2. \A q \in Ranks : /\ prev[ch][q] = reported[ch][q]
                         /\ prev[ch][q] <= curr_vals[q] /\ curr_vals[q] <= errs[ch][q]
    BY <2>1 DEF Fresh, Accounted, Carried
  <2>3. \A q \in Ranks : /\ new_vals'[q] = curr_vals[q] - prev[ch][q]
                         /\ prev'[ch][q] = curr_vals[q]
    BY <2>1, <2>2, DifferenceFacts DEF Differences, Stored
  <2>4. \A d \in Channels \ {ch} : prev'[d] = prev[d]
    BY <2>1 DEF Stored
  <2>5. CASE AnyNonZero(new_vals')
    <3>1. \A d \in Channels, q \in Ranks :
            Carried(d, q) = 0 /\ Carried(d, q)' = (IF d = ch THEN new_vals'[q] ELSE 0)
      BY <2>5 DEF Carried
    <3>2. Accounted'
      BY <2>1, <2>2, <2>3, <2>4, <3>1 DEF Accounted
    <3>. QED
      BY <2>5, <3>2 DEF Fresh
  <2>6. CASE ~AnyNonZero(new_vals')
    <3>1. \A d \in Channels, q \in Ranks : Carried(d, q) = 0 /\ Carried(d, q)' = 0
      BY <2>6 DEF Carried, Visit
    <3>2. \A q \in Ranks : new_vals'[q] = 0
      BY <2>6 DEF AnyNonZero
    <3>3. prev' = prev
      <4>1. ASSUME NEW q \in Ranks
            PROVE  prev'[ch][q] = prev[ch][q]
        <5>1. curr_vals[q] \in Nat /\ prev[ch][q] \in Nat
          BY <2>1
        <5>2. curr_vals[q] - prev[ch][q] = 0
          BY <2>3, <3>2
        <5>3. curr_vals[q] = prev[ch][q]
          BY ONLY <5>1, <5>2
        <5>. QED
          BY <2>3, <5>3
      <4>2. prev' \in [Channels -> [Ranks -> 0 .. (CounterMod - 1)]]
        BY <2>1 DEF Stored
      <4>. QED
        BY <2>1, <2>4, <4>1, <4>2
    <3>5. Accounted'
      BY <3>1, <3>3 DEF Accounted
    <3>4. \A q \in Ranks : ~Fresh(q)'
      BY <2>6, RankHalf DEF Fresh, Visit
    <3>. QED
      BY <3>4, <3>5
  <2>. QED
    BY <2>5, <2>6
<1>7. CASE Log
  <2>. USE <1>7 DEF Log, hardware, TypeOK, HardwareTypeOK, Visiting
  <2>1. \A q \in Ranks : reported'[ch][q] = reported[ch][q] + new_vals[q]
    OBVIOUS
  <2>2. \A d \in Channels \ {ch} : reported'[d] = reported[d]
    OBVIOUS
  <2>3. \A d \in Channels, q \in Ranks :
          /\ Carried(d, q) = (IF d = ch THEN new_vals[q] ELSE 0)
          /\ Carried(d, q)' = 0
    BY DEF Carried, Visit
  <2>4. Accounted'
    BY <2>1, <2>2, <2>3 DEF Accounted
  <2>5. \A q \in Ranks : ~Fresh(q)'
    BY RankHalf DEF Fresh, Visit
  <2>. QED
    BY <2>4, <2>5
<1>8. CASE UNCHANGED vars
  BY <1>8 DEF vars, Fresh, Accounted, Carried
<1>. QED
  BY <1>1, <1>2, <1>3, <1>4, <1>5, <1>6, <1>7, <1>8
     DEF Next, Thread, Environment, Hardware, HardwareStep

(* As long as no counter wraps, what prev remembers of a channel is in the *)
(* log or on its way there, errors are never counted twice, and the death  *)
(* of the thread leaves at most one channel's differences out of the log.  *)
THEOREM AccountHolds ==
  ASSUME MaxErrors < CounterMod
  PROVE  Spec => []Accounted
<1>1. Init => AccountInv
  BY InitAccount
<1>2. TypeOK /\ AccountInv /\ [Next]_vars => AccountInv'
  BY StepAccount
<1>3. AccountInv => Accounted
  BY DEF AccountInv
<1>. QED
  BY <1>1, <1>2, <1>3, TypeCorrect, PTL DEF Spec

-----------------------------------------------------------------------------
(* The thread implements the ledger.                                       *)

LEMMA StepRefines ==
  ASSUME TypeOK, TypeOK', AccountInv, [Next]_vars
  PROVE  [Promise!Next]_<<errs, reported>>
<1>. USE DEF Promise!Next, Promise!Occur, Promise!Report
<1>1. ASSUME NEW c \in Channels, NEW r \in Ranks, CorrectError(c, r), Undisturbed
      PROVE  Promise!Next
  BY <1>1 DEF CorrectError, Undisturbed
<1>2. ASSUME NEW p \in HotCpus, Offline(p) \/ Online(p), Undisturbed
      PROVE  UNCHANGED <<errs, reported>>
  BY <1>2 DEF Offline, Online, Undisturbed
<1>3. CASE \/ StopRequest \/ Start \/ CheckStop \/ ReadDword \/ Diff
           \/ ReadStatus \/ ReadAddr \/ ReadFails \/ Wake
  BY <1>3 DEF StopRequest, Start, CheckStop, ReadDword, Diff, ReadStatus, ReadAddr,
              ReadFails, Wake, hardware
<1>4. CASE Log
  <2>1. ch \in Channels /\ errs' = errs
    BY <1>4 DEF Log, TypeOK, Visiting, hardware
  <2>2. \A d \in Channels \ {ch} : reported'[d] = reported[d]
    BY <1>4, <2>1 DEF Log, TypeOK
  <2>3. ASSUME NEW q \in Ranks
        PROVE  /\ reported'[ch][q] = reported[ch][q] + new_vals[q]
               /\ reported[ch][q] \in Nat /\ new_vals[q] \in Nat
               /\ reported'[ch][q] <= errs[ch][q]
    <3>1. reported'[ch][q] = reported[ch][q] + new_vals[q]
      BY <1>4, <2>1 DEF Log, TypeOK
    <3>2. prev[ch][q] = reported[ch][q] + new_vals[q] /\ prev[ch][q] <= errs[ch][q]
      BY <1>4, <2>1 DEF Log, AccountInv, Accounted, Carried
    <3>. QED
      BY <2>1, <3>1, <3>2 DEF TypeOK
  <2>4. CASE AnyNonZero(new_vals)
    <3>1. PICK q \in Ranks : new_vals[q] # 0
      BY <2>4 DEF AnyNonZero
    <3>2. reported[ch][q] < reported'[ch][q]
      BY <2>3, <3>1
    <3>3. \A r \in Ranks : reported[ch][r] <= reported'[ch][r]
      BY <2>3
    <3>4. Promise!Report(ch)
      BY <2>1, <2>2, <2>3, <3>2, <3>3 DEF TypeOK
    <3>. QED
      BY <2>1, <3>4
  <2>5. CASE ~AnyNonZero(new_vals)
    <3>1. \A q \in Ranks : reported'[ch][q] = reported[ch][q]
      BY <2>3, <2>5 DEF AnyNonZero
    <3>2. reported' = reported
      BY <2>1, <2>2, <3>1 DEF TypeOK
    <3>. QED
      BY <2>1, <3>2
  <2>. QED
    BY <2>4, <2>5
<1>5. CASE UNCHANGED vars
  BY <1>5 DEF vars
<1>. QED
  BY <1>1, <1>2, <1>3, <1>4, <1>5 DEF Next, Thread, Environment, Hardware, HardwareStep

(* As long as no counter wraps, every behaviour of this thread and its     *)
(* hardware is a behaviour of ErrorLedger, the specification that the      *)
(* Broadwell thread implements as well.                                    *)
THEOREM PollImplementsLedger ==
  ASSUME MaxErrors < CounterMod
  PROVE  Spec => KeepsLedger
<1>1. Init => Promise!Init
  <2>1. Init => errs \in [Channels -> [Ranks -> Nat]]
    BY InitTypeOK DEF TypeOK, HardwareTypeOK
  <2>. QED
    BY <2>1 DEF Init, Promise!Init
<1>2. Init => AccountInv
  BY InitAccount
<1>3. TypeOK /\ AccountInv /\ [Next]_vars => AccountInv'
  BY StepAccount
<1>4. TypeOK /\ TypeOK' /\ AccountInv /\ [Next]_vars
        => [Promise!Next]_<<errs, reported>>
  BY StepRefines
<1>. QED
  BY <1>1, <1>2, <1>3, <1>4, TypeCorrect, PTL
     DEF Spec, KeepsLedger, Promise!Spec, Promise!vars
-----------------------------------------------------------------------------
(* The address of a line.                                                  *)

(* Non-zero counts anywhere in the thread come from errors of that rank;   *)
(* an agent with an error on one of its channels holds an address, and     *)
(* only of its own channels.                                               *)
AddressInv ==
  /\ \A c \in Channels, r \in Ranks :
       /\ hw[c][r] # 0 \/ prev[c][r] # 0 => errs[c][r] # 0
       /\ errs[c][r] # 0 => ha_addr[HomeAgent(c)] # NoAddr
  /\ \A h \in HomeAgents : ha_addr[h] # NoAddr => HomeAgent(ha_addr[h]) = h
  /\ \A r \in Ranks : Fresh(r) /\ curr_vals[r] # 0 => errs[ch][r] # 0
  /\ pc \in {"status", "addr", "log"} => \E r \in Ranks : errs[ch][r] # 0
  /\ AddressFromOwnHomeAgent

LEMMA AgentTypes ==
  ASSUME NEW c \in Channels
  PROVE  HomeAgent(c) \in HomeAgents
BY TopologyAssumption DEF HomeAgent, HomeAgents

LEMMA InitAddress ==
  ASSUME Init
  PROVE  AddressInv
<1>1. TypeOK
  BY InitTypeOK
<1>2. ASSUME NEW c \in Channels, NEW r \in Ranks, errs[c][r] # 0
      PROVE  ha_addr[HomeAgent(c)] # NoAddr
  <2>1. c \in Latched(HomeAgent(c))
    BY <1>1, <1>2 DEF Init, HardwareInit, Latched, TypeOK, HardwareTypeOK
  <2>2. ha_addr[HomeAgent(c)] \in Latched(HomeAgent(c))
    BY <2>1, AgentTypes DEF Init, HardwareInit
  <2>3. Latched(HomeAgent(c)) \subseteq Channels /\ NoAddr \notin Channels
    BY SizeAssumption DEF Latched, Channels, NoAddr
  <2>. QED
    BY <2>2, <2>3
<1>3. ASSUME NEW h \in HomeAgents, ha_addr[h] # NoAddr
      PROVE  HomeAgent(ha_addr[h]) = h
  BY <1>3 DEF Init, HardwareInit, Latched
<1>4. \A c \in Channels, r \in Ranks : hw[c][r] = errs[c][r] /\ prev[c][r] = 0
  BY DEF Init, HardwareInit
<1>5. pc = "init"
  BY DEF Init
<1>. QED
  BY <1>2, <1>3, <1>4, <1>5 DEF AddressInv, Fresh, AddressFromOwnHomeAgent

(* An error gives its home agent an address of its own, if it had none.    *)
LEMMA ErrorKeepsAddress ==
  ASSUME TypeOK, AddressInv,
         NEW c \in Channels, NEW r \in Ranks, CorrectError(c, r), Undisturbed
  PROVE  AddressInv'
<1>. USE DEF TypeOK, HardwareTypeOK
<1>1. UNCHANGED <<pc, j, ch, curr_vals, prev, msr_addr, cpus_per_core>>
  BY DEF Undisturbed, locals
<1>2. \A d \in Channels, q \in Ranks :
        /\ errs[d][q] # 0 => errs'[d][q] # 0
        /\ hw'[d][q] # 0 => hw[d][q] # 0 \/ errs'[d][q] # 0
  BY DEF CorrectError
<1>3. \A h \in HomeAgents : \/ ha_addr'[h] = ha_addr[h]
                            \/ h = HomeAgent(c) /\ ha_addr'[h] = c
  BY AgentTypes DEF CorrectError
<1>4. c # NoAddr /\ ha_addr'[HomeAgent(c)] # NoAddr
  <2>1. c # NoAddr
    BY SizeAssumption DEF NoAddr, Channels
  <2>. QED
    BY <2>1, AgentTypes DEF CorrectError
<1>5. ASSUME NEW d \in Channels, NEW q \in Ranks
      PROVE  /\ hw'[d][q] # 0 \/ prev'[d][q] # 0 => errs'[d][q] # 0
             /\ errs'[d][q] # 0 => ha_addr'[HomeAgent(d)] # NoAddr
  <2>1. d = c \/ errs'[d][q] = errs[d][q]
    BY DEF CorrectError
  <2>. QED
    BY <1>1, <1>2, <1>3, <1>4, <2>1, AgentTypes DEF AddressInv
<1>6. \A h \in HomeAgents : ha_addr'[h] # NoAddr => HomeAgent(ha_addr'[h]) = h
  BY <1>3 DEF AddressInv
<1>7. /\ \A q \in Ranks : Fresh(q)' /\ curr_vals'[q] # 0 => errs'[ch'][q] # 0
      /\ pc' \in {"status", "addr", "log"} => \E q \in Ranks : errs'[ch'][q] # 0
  BY <1>1, <1>2 DEF AddressInv, Fresh, Visiting
<1>8. AddressFromOwnHomeAgent'
  BY <1>1 DEF AddressInv, AddressFromOwnHomeAgent, Placed
<1>. QED
  BY <1>5, <1>6, <1>7, <1>8 DEF AddressInv

LEMMA StepAddress ==
  ASSUME TypeOK, AddressInv, [Next]_vars
  PROVE  AddressInv'
<1>1. ASSUME NEW c \in Channels, NEW r \in Ranks, CorrectError(c, r), Undisturbed
      PROVE  AddressInv'
  BY <1>1, ErrorKeepsAddress
<1>2. ASSUME NEW p \in HotCpus, Offline(p) \/ Online(p), Undisturbed
      PROVE  AddressInv'
  BY <1>2 DEF Offline, Online, Undisturbed, locals, AddressInv, Fresh,
              AddressFromOwnHomeAgent, Placed
<1>3. CASE StopRequest
  BY <1>3 DEF StopRequest, hardware, locals, AddressInv, Fresh, AddressFromOwnHomeAgent,
              Placed
<1>4. CASE Start \/ CheckStop \/ ReadFails \/ Wake
  <2>1. /\ pc' \notin {"diff", "status", "addr", "log"}
        /\ \A q \in Ranks : ~Fresh(q)'
    BY <1>4, RankHalf DEF Start, CheckStop, ReadFails, Wake, Visit, Fresh, locals
  <2>2. UNCHANGED <<hw, errs, ha_addr, prev>>
    BY <1>4 DEF Start, CheckStop, ReadFails, Wake, hardware
  <2>. QED
    BY <2>1, <2>2 DEF AddressInv, AddressFromOwnHomeAgent
<1>5. CASE ReadDword
  <2>1. UNCHANGED <<hw, errs, ha_addr, prev, ch>> /\ pc' \in {"read", "diff"}
    BY <1>5 DEF ReadDword, hardware
  <2>2. ch \in Channels /\ j \in Nat
    BY <1>5 DEF ReadDword, TypeOK, Visiting
  <2>3. ASSUME NEW q \in Ranks, Fresh(q)', curr_vals'[q] # 0
        PROVE  errs'[ch'][q] # 0
    <3>1. CASE q \div 2 = j
      BY <1>5, <2>1, <2>2, <2>3, <3>1 DEF ReadDword, AddressInv
    <3>2. CASE q \div 2 # j
      <4>1. q \div 2 < j
        BY <1>5, <2>2, <2>3, <3>2, RankHalf, SizeAssumption DEF ReadDword, Fresh, TypeOK
      <4>. QED
        BY <1>5, <2>1, <2>3, <3>2, <4>1 DEF ReadDword, AddressInv, Fresh
    <3>. QED
      BY <3>1, <3>2
  <2>. QED
    BY <2>1, <2>3 DEF AddressInv, AddressFromOwnHomeAgent
<1>6. CASE Diff
  <2>1. ch \in Channels /\ pc = "diff" /\ UNCHANGED <<hw, errs, ha_addr>>
    BY <1>6 DEF Diff, hardware, TypeOK, Visiting
  <2>2. \A d \in Channels, q \in Ranks :
          prev'[d][q] = (IF d = ch THEN curr_vals[q] ELSE prev[d][q])
    BY <1>6, <2>1 DEF Diff, Stored, TypeOK
  <2>3. \A q \in Ranks : curr_vals[q] # 0 => errs[ch][q] # 0
    BY <2>1 DEF AddressInv, Fresh
  <2>4. \A q \in Ranks : ~Fresh(q)'
    BY <1>6, RankHalf DEF Diff, Visit, Fresh
  <2>5. ASSUME pc' \in {"status", "addr", "log"}
        PROVE  ch' = ch /\ \E q \in Ranks : errs[ch][q] # 0
    <3>1. ch' = ch /\ AnyNonZero(new_vals') /\ new_vals' = Differences(ch)
      BY <1>6, <2>5 DEF Diff, Visit
    <3>2. PICK q \in Ranks : Differences(ch)[q] # 0
      BY <3>1 DEF AnyNonZero
    <3>3. curr_vals[q] # prev[ch][q]
      BY <2>1, <3>2, DifferenceFacts DEF Differences, TypeOK
    <3>. QED
      BY <2>1, <2>3, <3>1, <3>3 DEF AddressInv
  <2>6. pc' # "log"
    BY <1>6 DEF Diff, Visit
  <2>. QED
    BY <2>1, <2>2, <2>3, <2>4, <2>5, <2>6 DEF AddressInv, AddressFromOwnHomeAgent
<1>7. CASE ReadStatus
  BY <1>7 DEF ReadStatus, hardware, AddressInv, Fresh, AddressFromOwnHomeAgent
<1>8. CASE ReadAddr
  <2>1. ch \in Channels /\ pc = "addr"
    BY <1>8 DEF ReadAddr, TypeOK, Visiting
  <2>2. PICK q \in Ranks : errs[ch][q] # 0
    BY <2>1 DEF AddressInv
  <2>3. /\ ha_addr[HomeAgent(ch)] \in Channels
        /\ HomeAgent(ha_addr[HomeAgent(ch)]) = HomeAgent(ch)
    BY <2>1, <2>2, AgentTypes DEF AddressInv, TypeOK, HardwareTypeOK
  <2>4. ASSUME Placed(ch)
        PROVE  AgentRead(Cpu, ch) = HomeAgent(ch)
    <3>1. SocketOf[Cpu] = SourceId[ch]
      BY <2>4 DEF Placed, Cpu
    <3>2. Dom[ch] = (IF Dom[ch] # 0 THEN IMC1 ELSE IMC0)
      BY <2>1, TopologyAssumption DEF Doms, IMC0, IMC1
    <3>. QED
      BY <3>1, <3>2 DEF AgentRead, HomeAgent
  <2>5. UNCHANGED <<ch, cpus_per_core>> /\ msr_addr' = ha_addr[AgentRead(Cpu, ch)]
    BY <1>8 DEF ReadAddr
  <2>6. AddressFromOwnHomeAgent'
    BY <2>3, <2>4, <2>5 DEF AddressFromOwnHomeAgent, Placed
  <2>. QED
    BY <1>8, <2>1, <2>6 DEF ReadAddr, hardware, AddressInv, Fresh
<1>9. CASE Log
  <2>1. UNCHANGED <<hw, errs, ha_addr, prev>> /\ pc' \in {"read", "sleep"}
    BY <1>9 DEF Log, Visit, hardware
  <2>2. \A q \in Ranks : ~Fresh(q)'
    BY <1>9, RankHalf DEF Log, Visit, Fresh
  <2>. QED
    BY <2>1, <2>2 DEF AddressInv, AddressFromOwnHomeAgent
<1>10. CASE UNCHANGED vars
  BY <1>10 DEF vars, AddressInv, Fresh, AddressFromOwnHomeAgent, Placed
<1>. QED
  BY <1>1, <1>2, <1>3, <1>4, <1>5, <1>6, <1>7, <1>8, <1>9, <1>10
     DEF Next, Thread, Environment, Hardware, HardwareStep

(* Wrapped counters or not: a line never pairs the counts of a channel     *)
(* with an empty address register or with an address of another home       *)
(* agent, when the processor the read ran on is of the channel's socket.   *)
THEOREM AddressHolds == Spec => []AddressFromOwnHomeAgent
<1>1. Init => AddressInv
  BY InitAddress
<1>2. TypeOK /\ AddressInv /\ [Next]_vars => AddressInv'
  BY StepAddress
<1>3. AddressInv => AddressFromOwnHomeAgent
  BY DEF AddressInv
<1>. QED
  BY <1>1, <1>2, <1>3, TypeCorrect, PTL DEF Spec
-----------------------------------------------------------------------------
(* The thread as its driver sees it.                                       *)

LEMMA StepLives == TypeOK /\ [Next]_vars => [Life!Next]_(Life!vars)
<1>. SUFFICES ASSUME TypeOK, [Next]_vars
              PROVE  [Life!Next]_(Life!vars)
  OBVIOUS
<1>. USE DEF Life!Next, Life!vars, Life!Step, Life!Walk, Life!Return
<1>1. CASE Hardware
  BY <1>1 DEF Hardware, Undisturbed, locals, TaskOf, Visiting
<1>2. CASE StopRequest
  <2>1. Life!Stop
    BY <1>2 DEF StopRequest, locals, TaskOf, Visiting, Life!Stop
  <2>. QED
    BY <2>1
<1>3. CASE Start
  <2>1. Life!Begin /\ UNCHANGED should_stop
    BY <1>3 DEF Start, TaskOf, Visiting, Life!Begin
  <2>. QED
    BY <2>1
<1>4. CASE CheckStop
  <2>1. Life!Check /\ UNCHANGED should_stop
    BY <1>4 DEF CheckStop, Visit, TaskOf, Visiting, Life!Check
  <2>. QED
    BY <2>1
<1>5. CASE ReadDword \/ ReadStatus \/ ReadAddr
  BY <1>5 DEF ReadDword, ReadStatus, ReadAddr, locals, TaskOf, Visiting
<1>6. CASE Diff
  <2>1. ch \in Channels
    BY <1>6 DEF Diff, TypeOK, Visiting
  <2>2. CASE AnyNonZero(new_vals')
    BY <1>6, <2>1, <2>2 DEF Diff, TaskOf, Visiting
  <2>3. CASE ~AnyNonZero(new_vals')
    <3>1. Life!Visit /\ UNCHANGED should_stop
      BY <1>6, <2>1, <2>3 DEF Diff, Visit, TaskOf, Visiting, Life!Visit
    <3>. QED
      BY <3>1
  <2>. QED
    BY <2>2, <2>3
<1>7. CASE Log
  <2>1. ch \in Channels
    BY <1>7 DEF Log, TypeOK, Visiting
  <2>2. Life!Visit /\ UNCHANGED should_stop
    BY <1>7, <2>1 DEF Log, Visit, TaskOf, Visiting, Life!Visit
  <2>. QED
    BY <2>2
<1>8. CASE ReadFails
  <2>1. Life!Fail /\ UNCHANGED should_stop
    BY <1>8 DEF ReadFails, TaskOf, Visiting, Life!Fail
  <2>. QED
    BY <2>1
<1>9. CASE Wake
  <2>1. Life!Wake /\ UNCHANGED should_stop
    BY <1>9 DEF Wake, locals, TaskOf, Visiting, Life!Wake
  <2>. QED
    BY <2>1
<1>10. CASE UNCHANGED vars
  BY <1>10 DEF vars, TaskOf, Visiting
<1>. QED
  BY <1>1, <1>2, <1>3, <1>4, <1>5, <1>6, <1>7, <1>8, <1>9, <1>10
     DEF Next, Thread, Environment

(* Every behaviour of this thread is one of PollThread, which is how       *)
(* SkxDriver may put that module in its place.                             *)
THEOREM PollIsPollThread == Spec => LivesAsThread
<1>1. Init => Life!Init
  BY DEF Init, Life!Init, TaskOf, Visiting
<1>2. TypeOK /\ [Next]_vars => [Life!Next]_(Life!vars)
  BY StepLives
<1>. QED
  BY <1>1, <1>2, TypeCorrect, PTL DEF Spec, LivesAsThread, Life!Spec
=============================================================================
