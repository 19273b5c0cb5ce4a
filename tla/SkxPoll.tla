------------------------------ MODULE SkxPoll ------------------------------
(***************************************************************************)
(* The polling thread of the Skylake driver, skx_rd_err_log() of           *)
(* skylake-edac-driver/skx_base.c, against the hardware it reads.          *)
(*                                                                         *)
(* The thread walks the sockets, their memory controllers and the channels *)
(* of each that have an edev.  Unlike the Broadwell thread it moves the    *)
(* remembered counters forward as soon as it has the differences, before   *)
(* the MSR reads that may fail, and carries the differences to the line.   *)
(***************************************************************************)
EXTENDS CeHardware

VARIABLES
  should_stop,   \* kthread_stop() has been called
  pc,            \* where the thread is
  cpus_per_core,
  ch,            \* the channel it is at
  j,             \* the next dword to read
  curr_vals,     \* counters of ch read so far in this visit
  new_vals,      \* their differences
  msr_addr,      \* what it read from MCi_ADDR
  prev,          \* chan[].prev
  reported       \* reported[c][r]: sum over the log of the counts printed

locals == <<cpus_per_core, ch, j, curr_vals, new_vals, msr_addr>>
vars   == <<hw, errs, ha_addr, online, should_stop, pc, cpus_per_core, ch, j, curr_vals,
            new_vals, msr_addr, prev, reported>>

(* any_non_zero().                                                         *)
AnyNonZeroMutant(vals) == \E r \in Ranks : vals[r] > 1  \* arr[i] > 1
AnyNonZero(vals) == \E r \in Ranks : vals[r] # 0

(* The test for a wrapped counter compares an unsigned value with zero.    *)
Differences(c) == [r \in Ranks |-> U16Sub(curr_vals[r], prev[c][r])]

Cpu == cpus_per_core * SourceId[ch]

(* lmc ? 0x422 : 0x41E, on the socket of the processor read from.          *)
AgentReadMutant(p, c) == <<SocketOf[p], IMC0>>  \* lmc is not looked at
AgentRead(p, c) == <<SocketOf[p], IF Dom[c] # 0 THEN IMC1 ELSE IMC0>>

-----------------------------------------------------------------------------
Init ==
  /\ HardwareInit
  /\ should_stop = FALSE
  /\ pc = "init"
  /\ cpus_per_core = 0
  /\ ch = 0
  /\ j = 0
  /\ curr_vals = [r \in Ranks |-> 0]
  /\ new_vals = [r \in Ranks |-> 0]
  /\ msr_addr = NoAddr
  /\ prev = [c \in Channels |-> [r \in Ranks |-> 0]]
  /\ reported = [c \in Channels |-> [r \in Ranks |-> 0]]

Undisturbed == UNCHANGED <<should_stop, pc, locals, prev, reported>>
Hardware    == HardwareStep /\ Undisturbed

(* skx_exit() calls kthread_stop().                                        *)
StopRequest ==
  /\ ~should_stop
  /\ should_stop' = TRUE
  /\ UNCHANGED <<hardware, pc, locals, prev, reported>>

-----------------------------------------------------------------------------
(* The thread.  Before its loop it counts sockets and processors, once; a  *)
(* kernel thread stopped before it first runs never calls its function.    *)
Start ==
  /\ pc = "init"
  /\ IF should_stop
       THEN pc' = "stopped" /\ UNCHANGED cpus_per_core
       ELSE /\ pc' = "check"
            /\ cpus_per_core' = Cardinality(online) \div (NumSockets * 2)
  /\ UNCHANGED <<hardware, should_stop, ch, j, curr_vals, new_vals, msr_addr, prev,
                 reported>>

(* Go to the first channel at or after c, or to sleep behind the last.     *)
Visit(c) ==
  /\ pc' = IF c <= NChannel THEN "read" ELSE "sleep"
  /\ ch' = IF c <= NChannel THEN c ELSE 0
  /\ j' = 0

CheckStop ==
  /\ pc = "check"
  /\ IF should_stop
       THEN pc' = "stopped" /\ UNCHANGED <<ch, j>>
       ELSE Visit(1)
  /\ UNCHANGED <<hardware, should_stop, cpus_per_core, curr_vals, new_vals, msr_addr, prev,
                 reported>>

ReadDwordMutant ==  \* reads on past the four dwords
  /\ pc = "read"
  /\ curr_vals' =
       [r \in Ranks |-> IF r \div 2 = j THEN hw[ch][r] ELSE curr_vals[r]]
  /\ j' = j + 1
  /\ pc' = IF j = NDword THEN "diff" ELSE "read"
  /\ UNCHANGED <<hardware, should_stop, cpus_per_core, ch, new_vals, msr_addr, prev,
                 reported>>
ReadDword ==
  /\ pc = "read"
  /\ curr_vals' =
       [r \in Ranks |-> IF r \div 2 = j THEN hw[ch][r] ELSE curr_vals[r]]
  /\ j' = j + 1
  /\ pc' = IF j + 1 = NDword THEN "diff" ELSE "read"
  /\ UNCHANGED <<hardware, should_stop, cpus_per_core, ch, new_vals, msr_addr, prev,
                 reported>>

(* The differences are taken and prev is moved forward; then the next      *)
(* channel, or on to the MSRs.                                             *)
StoredMutant == prev  \* chan[ch].prev[j] is not assigned
Stored == [prev EXCEPT ![ch] = curr_vals]
Diff ==
  /\ pc = "diff"
  /\ new_vals' = Differences(ch)
  /\ prev' = Stored
  /\ IF AnyNonZero(new_vals')
       THEN pc' = "status" /\ UNCHANGED <<ch, j>>
       ELSE Visit(ch + 1)
  /\ UNCHANGED <<hardware, should_stop, cpus_per_core, curr_vals, msr_addr, reported>>

(* rdmsrl_on_cpu() of MCi_STATUS; its value is only printed.               *)
ReadStatus ==
  /\ pc = "status"
  /\ Cpu \in online
  /\ pc' = "addr"
  /\ msr_addr' = NoAddr
  /\ UNCHANGED <<hardware, should_stop, cpus_per_core, ch, j, curr_vals, new_vals, prev,
                 reported>>

ReadAddr ==
  /\ pc = "addr"
  /\ Cpu \in online
  /\ msr_addr' = ha_addr[AgentRead(Cpu, ch)]
  /\ pc' = "log"
  /\ UNCHANGED <<hardware, should_stop, cpus_per_core, ch, j, curr_vals, new_vals, prev,
                 reported>>

(* The function returns the error; the differences are in no line.         *)
ReadFails ==
  /\ pc \in {"status", "addr"}
  /\ Cpu \notin online
  /\ pc' = "failed"
  /\ UNCHANGED <<hardware, should_stop, locals, prev, reported>>

LogMutant ==  \* Rank0= of every field
  /\ pc = "log"
  /\ reported' = [reported EXCEPT ![ch] = [r \in Ranks |-> @[r] + new_vals[0]]]
  /\ Visit(ch + 1)
  /\ UNCHANGED <<hardware, should_stop, cpus_per_core, curr_vals, new_vals, msr_addr, prev>>
Log ==
  /\ pc = "log"
  /\ reported' = [reported EXCEPT ![ch] = [r \in Ranks |-> @[r] + new_vals[r]]]
  /\ Visit(ch + 1)
  /\ UNCHANGED <<hardware, should_stop, cpus_per_core, curr_vals, new_vals, msr_addr, prev>>

WakeMutant ==  \* asks whether to stop as it wakes, too
  /\ pc = "sleep"
  /\ pc' = IF should_stop THEN "stopped" ELSE "check"
  /\ UNCHANGED <<hardware, should_stop, locals, prev, reported>>
Wake ==
  /\ pc = "sleep"
  /\ pc' = "check"
  /\ UNCHANGED <<hardware, should_stop, locals, prev, reported>>

Thread == Start \/ CheckStop \/ ReadDword \/ Diff \/ ReadStatus \/ ReadAddr \/ ReadFails
            \/ Log \/ Wake
Environment == Hardware \/ StopRequest

Next == Thread \/ Environment

Spec == Init /\ [][Next]_vars

(* As in SbPoll: the thread is scheduled, everything else is open.         *)
FairSpec == Spec /\ WF_vars(Thread)

-----------------------------------------------------------------------------
(* Properties.                                                             *)

Visiting == pc \in {"read", "diff", "status", "addr", "log"}

TypeOK ==
  /\ HardwareTypeOK
  /\ should_stop \in BOOLEAN
  /\ pc \in {"init", "check", "read", "diff", "status", "addr", "log", "sleep",
             "stopped", "failed"}
  /\ cpus_per_core \in Nat
  /\ ch \in Channels \cup {0}
  /\ j \in 0 .. NDword
  /\ curr_vals \in [Ranks -> 0 .. (CounterMod - 1)]
  /\ new_vals \in [Ranks -> Nat]
  /\ msr_addr \in Channels \cup {NoAddr}
  /\ prev \in [Channels -> [Ranks -> 0 .. (CounterMod - 1)]]
  /\ reported \in [Channels -> [Ranks -> Nat]]
  /\ Visiting => ch \in Channels
  /\ pc = "read" => j < NDword

(* While no counter has wrapped: what prev says was seen is in the log or  *)
(* is carried to the line being made.  Errors that come during a visit     *)
(* lose and repeat nothing, and at most one channel's differences are out  *)
(* of the log, also when the thread has died of a failed MSR read.         *)
Carried(c, r) ==
  IF c = ch /\ pc \in {"status", "addr", "log", "failed"} THEN new_vals[r] ELSE 0
Accounted ==
  \A c \in Channels, r \in Ranks :
    /\ prev[c][r] = reported[c][r] + Carried(c, r)
    /\ prev[c][r] <= errs[c][r]

(* While no counter has wrapped, the thread implements ErrorLedger.        *)
Promise == INSTANCE ErrorLedger WITH
             Channel <- Channels, Rank <- Ranks, occurred <- errs, reported <- reported
KeepsLedger == Promise!Spec

(* The thread lives as PollThread describes, the thread module SkxDriver   *)
(* runs between init and exit: asked to stop it visits no further round,   *)
(* and it returns from a visit only by a failed MSR read.                  *)
TaskOf(p) == CASE p = "init"                  -> "new"
               [] p \in {"stopped", "failed"} -> "returned"
               [] p \in {"check", "sleep"}    -> p
               [] OTHER                       -> "visit"
Life == INSTANCE PollThread WITH
          task <- TaskOf(pc), at <- IF Visiting THEN ch ELSE 0, size <- NChannel
LivesAsThread == Life!Spec

(* The read of MSRs for channel c would run on the socket of c.            *)
Placed(c) ==
  LET p == cpus_per_core * SourceId[c]
  IN  p \in Cpus /\ SocketOf[p] = SourceId[c]

(* The address of a line is one that the home agent of the line's channel  *)
(* latched, and not "no address", whenever the chosen processor is on that *)
(* agent's socket.                                                         *)
AddressFromOwnHomeAgent ==
  pc = "log" /\ Placed(ch) =>
    msr_addr \in Channels /\ HomeAgent(msr_addr) = HomeAgent(ch)

(* Once errors cease (MaxErrors bounds them), the log catches up with      *)
(* every one of them, unless the thread ends: unloaded, or dead from a     *)
(* failed MSR read.                                                        *)
Ended == pc \in {"stopped", "failed"}
EveryErrorReported ==
  <>[](Ended \/ \A c \in Channels, r \in Ranks : reported[c][r] = errs[c][r])
=============================================================================
