------------------------------- MODULE SbPoll -------------------------------
(***************************************************************************)
(* The polling thread of the Broadwell/Haswell driver, sb_rd_err_log() of  *)
(* boradwell-edac-driver/sb_edac.c, against the hardware it reads.         *)
(*                                                                         *)
(* The thread walks the list of memory controllers and the channels of     *)
(* each that have a pci_cerr device.  Every PCI dword is read by a         *)
(* transaction of its own, so an error may be counted between two dwords   *)
(* of one channel.                                                         *)
(***************************************************************************)
EXTENDS CeHardware

VARIABLES
  should_stop,   \* kthread_stop() has been called
  pc,            \* where the thread is
  cpus_per_core,
  ch,            \* the channel it is at
  i,             \* the next dword to read
  curr_err,      \* counters of ch read so far in this visit
  msr_addr,      \* what it read from MCi_ADDR
  prev_err,      \* pvt->channel[].prev_err
  reported       \* reported[c][r]: sum over the log of the counts printed

locals   == <<cpus_per_core, ch, i, curr_err, msr_addr>>
vars     == <<hw, errs, ha_addr, online, should_stop, pc, cpus_per_core, ch, i,
              curr_err, msr_addr, prev_err, reported>>

(* What is printed for one rank.  The test for a wrapped counter compares  *)
(* an unsigned variable with zero: its branch is never taken.              *)
NewErr(curr, prev) == U16Sub(curr, prev)

NewErrs(c) == [r \in Ranks |-> NewErr(curr_err[r], prev_err[c][r])]

(* The scan that decides whether the channel is worth a line.              *)
AnyNewMutant(c) == \E r \in Ranks \ {0} : NewErrs(c)[r] # 0  \* scan from 1
AnyNew(c) == \E r \in Ranks : NewErrs(c)[r] # 0

(* The processor whose MSRs are read for a controller of socket s (a u8).  *)
TargetCpu(perCore, s) == (perCore * s) % 256

(* A dword's two counters.                                                 *)
RanksOf(k) == {2 * k, 2 * k + 1}

(* The MSR the code picks: 0x41D/0x41E for IMC0, 0x421/0x422 otherwise, on *)
(* the socket of the processor it runs the read on.                        *)
AgentReadMutant(p, c) == <<SocketOf[p], IF Dom[c] = IMC0 THEN IMC1 ELSE IMC0>>
AgentRead(p, c) == <<SocketOf[p], IF Dom[c] = IMC0 THEN IMC0 ELSE IMC1>>

-----------------------------------------------------------------------------
(* prev_err comes zeroed from edac_mc_alloc(), the counters need not.      *)
Init ==
  /\ HardwareInit
  /\ should_stop = FALSE
  /\ pc = "init"
  /\ cpus_per_core = 0
  /\ ch = 0
  /\ i = 0
  /\ curr_err = [r \in Ranks |-> 0]
  /\ msr_addr = NoAddr
  /\ prev_err = [c \in Channels |-> [r \in Ranks |-> 0]]
  /\ reported = [c \in Channels |-> [r \in Ranks |-> 0]]

-----------------------------------------------------------------------------
(* The environment.                                                        *)

Undisturbed == UNCHANGED <<should_stop, pc, locals, prev_err, reported>>
Hardware    == HardwareStep /\ Undisturbed

(* sbridge_exit() calls kthread_stop().                                    *)
StopRequest ==
  /\ ~should_stop
  /\ should_stop' = TRUE
  /\ UNCHANGED <<hardware, pc, locals, prev_err, reported>>

-----------------------------------------------------------------------------
(* The thread.                                                             *)

(* Before its loop the function counts sockets and processors, once.  A    *)
(* kernel thread stopped before it first runs never calls its function.    *)
Start ==
  /\ pc = "init"
  /\ IF should_stop
       THEN pc' = "stopped" /\ UNCHANGED cpus_per_core
       ELSE /\ pc' = "check"
            /\ cpus_per_core' = Cardinality(online) \div (NumSockets * 2)
  /\ UNCHANGED <<hardware, should_stop, ch, i, curr_err, msr_addr, prev_err, reported>>

(* Go to the first channel at or after c, or to sleep behind the last.     *)
VisitMutant(c) ==  \* the loop bound is one too large
  /\ pc' = IF c <= NChannel + 1 THEN "read" ELSE "sleep"
  /\ ch' = IF c <= NChannel + 1 THEN c ELSE 0
  /\ i' = 0
Visit(c) ==
  /\ pc' = IF c <= NChannel THEN "read" ELSE "sleep"
  /\ ch' = IF c <= NChannel THEN c ELSE 0
  /\ i' = 0

CheckStopMutant ==  \* while (1)
  /\ pc = "check"
  /\ Visit(1)
  /\ UNCHANGED <<hardware, should_stop, cpus_per_core, curr_err, msr_addr, prev_err,
                 reported>>
CheckStop ==
  /\ pc = "check"
  /\ IF should_stop
       THEN pc' = "stopped" /\ UNCHANGED <<ch, i>>
       ELSE Visit(1)
  /\ UNCHANGED <<hardware, should_stop, cpus_per_core, curr_err, msr_addr, prev_err,
                 reported>>

ReadDword ==
  /\ pc = "read"
  /\ curr_err' = [r \in Ranks |-> IF r \in RanksOf(i) THEN hw[ch][r] ELSE curr_err[r]]
  /\ i' = i + 1
  /\ pc' = IF i + 1 = NDword THEN "diff" ELSE "read"
  /\ UNCHANGED <<hardware, should_stop, cpus_per_core, ch, msr_addr, prev_err, reported>>

(* Nothing new on any rank: on to the next channel, prev_err untouched.    *)
Quiet ==
  /\ pc = "diff"
  /\ ~AnyNew(ch)
  /\ Visit(ch + 1)
  /\ UNCHANGED <<hardware, should_stop, cpus_per_core, curr_err, msr_addr, prev_err,
                 reported>>

HasErrors ==
  /\ pc = "diff"
  /\ AnyNew(ch)
  /\ pc' = "status"
  /\ UNCHANGED <<hardware, should_stop, locals, prev_err, reported>>

Cpu == TargetCpu(cpus_per_core, SourceId[ch])

(* rdmsrl_on_cpu() of MCi_STATUS; its value is only printed.               *)
ReadStatus ==
  /\ pc = "status"
  /\ Cpu \in online
  /\ pc' = "addr"
  /\ msr_addr' = NoAddr
  /\ UNCHANGED <<hardware, should_stop, cpus_per_core, ch, i, curr_err, prev_err, reported>>

ReadAddr ==
  /\ pc = "addr"
  /\ Cpu \in online
  /\ msr_addr' = ha_addr[AgentRead(Cpu, ch)]
  /\ pc' = "log"
  /\ UNCHANGED <<hardware, should_stop, cpus_per_core, ch, i, curr_err, prev_err, reported>>

(* Either read fails when the processor is not there: the function returns *)
(* the error and the thread is gone; nothing starts another.               *)
ReadFails ==
  /\ pc \in {"status", "addr"}
  /\ Cpu \notin online
  /\ pc' = "failed"
  /\ UNCHANGED <<hardware, should_stop, locals, prev_err, reported>>

(* What memcpy() leaves in prev_err: the counters the line was made from.  *)
RememberMutant == [prev_err EXCEPT ![ch] = hw[ch]]  \* read again after the line
ForgetMutant   == prev_err  \* no memcpy()
Remember == [prev_err EXCEPT ![ch] = curr_err]

(* The log line, then the memcpy() to prev_err; only this thread uses it.  *)
Log ==
  /\ pc = "log"
  /\ reported' = [reported EXCEPT ![ch] = [r \in Ranks |-> @[r] + NewErrs(ch)[r]]]
  /\ prev_err' = Remember
  /\ Visit(ch + 1)
  /\ UNCHANGED <<hardware, should_stop, cpus_per_core, curr_err, msr_addr>>

(* msleep(sleep_ms) returns.                                               *)
WakeMutant ==  \* a stop request ends the thread from its sleep
  /\ pc = "sleep"
  /\ pc' = IF should_stop THEN "stopped" ELSE "check"
  /\ UNCHANGED <<hardware, should_stop, locals, prev_err, reported>>
Wake ==
  /\ pc = "sleep"
  /\ pc' = "check"
  /\ UNCHANGED <<hardware, should_stop, locals, prev_err, reported>>

Thread ==
  Start \/ CheckStop \/ ReadDword \/ Quiet \/ HasErrors \/ ReadStatus \/ ReadAddr
    \/ ReadFails \/ Log \/ Wake

Environment == Hardware \/ StopRequest

Next == Thread \/ Environment

Spec == Init /\ [][Next]_vars

(* The scheduler runs a runnable kernel thread and msleep() returns; when  *)
(* errors occur, processors come and go or the module is unloaded is open. *)
FairSpec == Spec /\ WF_vars(Thread)

-----------------------------------------------------------------------------
(* Properties.                                                             *)

PCs == {"init", "check", "read", "diff", "status", "addr", "log", "sleep", "stopped",
        "failed"}
Visiting == pc \in {"read", "diff", "status", "addr", "log"}

(* Types; and while the thread visits a channel, ch is a channel and i the *)
(* number of dwords of it already read.                                    *)
TypeOK ==
  /\ HardwareTypeOK
  /\ should_stop \in BOOLEAN
  /\ pc \in PCs
  /\ cpus_per_core \in Nat
  /\ ch \in Channels \cup {0}
  /\ i \in 0 .. NDword
  /\ curr_err \in [Ranks -> 0 .. (CounterMod - 1)]
  /\ msr_addr \in Channels \cup {NoAddr}
  /\ prev_err \in [Channels -> [Ranks -> 0 .. (CounterMod - 1)]]
  /\ reported \in [Channels -> [Ranks -> Nat]]
  /\ Visiting => ch \in Channels
  /\ pc = "read" => i < NDword

(* While no counter has wrapped, the log accounts for exactly the errors   *)
(* prev_err says were seen, and for none that did not occur: errors that   *)
(* come while a channel is read, or between its read and its line, and a   *)
(* failed MSR read, lose and repeat nothing.                               *)
Ledger ==
  \A c \in Channels, r \in Ranks :
    /\ reported[c][r] = prev_err[c][r]
    /\ reported[c][r] <= errs[c][r]

(* While no counter has wrapped, the thread implements ErrorLedger.        *)
Promise == INSTANCE ErrorLedger WITH
             Channel <- Channels, Rank <- Ranks, occurred <- errs, reported <- reported
KeepsLedger == Promise!Spec

(* The thread lives as PollThread describes, the thread module SbDriver    *)
(* runs between init and exit: asked to stop it visits no further round,   *)
(* and it returns from a visit only by a failed MSR read.                  *)
TaskOf(p) == CASE p = "init"                 -> "new"
               [] p \in {"stopped", "failed"} -> "returned"
               [] p \in {"check", "sleep"}    -> p
               [] OTHER                      -> "visit"
Life == INSTANCE PollThread WITH
          task <- TaskOf(pc), at <- IF Visiting THEN ch ELSE 0, size <- NChannel
LivesAsThread == Life!Spec

(* The read of MSRs for channel c would run on the socket of c.            *)
Placed(c) ==
  LET p == TargetCpu(cpus_per_core, SourceId[c])
  IN  p \in Cpus /\ SocketOf[p] = SourceId[c]

(* The address of a line is one that the home agent of the line's channel  *)
(* latched, and not "no address", whenever the chosen processor is on that *)
(* agent's socket.                                                         *)
AddressFromOwnHomeAgent ==
  pc = "log" /\ Placed(ch) =>
    msr_addr \in Channels /\ HomeAgent(msr_addr) = HomeAgent(ch)

(* Once errors cease (MaxErrors bounds them), the log catches up with      *)
(* every one of them, unless the thread ends: unloaded, or dead from a     *)
(* failed MSR read.                                                        *)
Ended == pc \in {"stopped", "failed"}
EveryErrorReported ==
  <>[](Ended \/ \A c \in Channels, r \in Ranks : reported[c][r] = errs[c][r])

(* Module unload ends: kthread_stop() waits for the thread to return.      *)
StopEnds == should_stop ~> Ended

(* The comment "Get a CPU/core from the socket where the IMC channel is    *)
(* located" (sb_edac.c:3109), of the processor the MSRs are read on.       *)
CpuOnSocket == pc = "status" => Placed(ch)

(* "Log if there are errors" (sb_edac.c:3096): what a line adds to the log *)
(* are errors that occurred.                                               *)
LinesAreErrors ==
  pc = "log" => \A r \in Ranks : reported[ch][r] + NewErrs(ch)[r] <= errs[ch][r]
=============================================================================
