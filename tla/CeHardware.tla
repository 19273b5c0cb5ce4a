----------------------------- MODULE CeHardware -----------------------------
(***************************************************************************)
(* What both drivers poll: the 15-bit corrected-error counters of every    *)
(* rank, the address register of every home agent, and the processors      *)
(* through which that register is read, some of which come and go.         *)
(*                                                                         *)
(* A driver visits its channels, over all its memory controllers, in a     *)
(* fixed order, which numbers them 1 .. NChannel.  Every PCI dword holds   *)
(* the counters of an even and of an odd rank.                             *)
(***************************************************************************)
EXTENDS Integers, FiniteSets

CONSTANTS
  NChannel,    \* number of (controller, channel) pairs that are polled
  NDword,      \* dwords of counters per channel (4 in the hardware)
  CounterMod,  \* a hardware counter counts modulo this (2^15)
  SourceId,    \* SourceId[c]: the socket of the controller of channel c
  Dom,         \* Dom[c]: its home agent on that socket, IMC0 or IMC1
  NumSockets,  \* one more than the largest source id of a controller
  Cpus,        \* the processors' numbers
  SocketOf,    \* SocketOf[p]: the socket processor p is on
  HotCpus,     \* the processors that can be taken offline
  MaxErrors    \* bound: corrected errors of one rank in a behaviour

Channels == 1 .. NChannel
Ranks    == 0 .. (2 * NDword - 1)
IMC0     == 0
IMC1     == 1
Doms     == {IMC0, IMC1}

ASSUME SizeAssumption ==
  /\ NChannel \in Nat
  /\ NDword \in Nat \ {0}
  /\ CounterMod \in Nat \ {0}
  /\ MaxErrors \in Nat

ASSUME TopologyAssumption ==
  /\ NumSockets \in Nat \ {0}
  /\ SourceId \in [Channels -> 0 .. (NumSockets - 1)]
  /\ Dom \in [Channels -> Doms]
  /\ Cpus \subseteq Nat /\ IsFiniteSet(Cpus)
  /\ SocketOf \in [Cpus -> 0 .. (NumSockets - 1)]
  /\ HotCpus \subseteq Cpus

VARIABLES
  hw,          \* hw[c][r]: the counter of rank r of channel c
  errs,        \* errs[c][r]: errors that really occurred there (history)
  ha_addr,     \* ha_addr[h]: MCi_ADDR of home agent h, the channel whose
               \* address it holds
  online       \* processors that are online

hardware == <<hw, errs, ha_addr, online>>

HomeAgents   == (0 .. (NumSockets - 1)) \X Doms
HomeAgent(c) == <<SourceId[c], Dom[c]>>
NoAddr       == 0   \* MCi_ADDR of an agent that latched nothing

(* u16 subtraction.  Counters are below CounterMod and the width of a u16  *)
(* is twice that, so one correction reduces the difference modulo 2^16.    *)
U16Sub(a, b) == IF a >= b THEN a - b ELSE a - b + 2 * CounterMod

(* The machine may have counted errors before the driver is loaded.        *)
Latched(h) == {c \in Channels : HomeAgent(c) = h /\ \E r \in Ranks : hw[c][r] > 0}

HardwareInit ==
  /\ hw \in [Channels -> [Ranks -> {n \in 0 .. MaxErrors : n < CounterMod}]]
  /\ errs = hw
  /\ ha_addr \in [HomeAgents -> Channels \cup {NoAddr}]
  /\ \A h \in HomeAgents :
       IF Latched(h) = {} THEN ha_addr[h] = NoAddr ELSE ha_addr[h] \in Latched(h)
  /\ online = Cpus

(* The memory controller corrects an error: its counter wraps to zero past *)
(* its 15 bits; the home agent latches the address if it holds none, and   *)
(* otherwise keeps the one it has or replaces it.                          *)
CorrectError(c, r) ==
  /\ errs[c][r] < MaxErrors
  /\ errs' = [errs EXCEPT ![c][r] = @ + 1]
  /\ hw' = [hw EXCEPT ![c][r] = IF @ = CounterMod - 1 THEN 0 ELSE @ + 1]
  /\ \/ ha_addr' = [ha_addr EXCEPT ![HomeAgent(c)] = c]
     \/ ha_addr[HomeAgent(c)] # NoAddr /\ UNCHANGED ha_addr
  /\ UNCHANGED online

Offline(p) ==
  /\ p \in HotCpus \cap online
  /\ online' = online \ {p}
  /\ UNCHANGED <<hw, errs, ha_addr>>

Online(p) ==
  /\ p \in HotCpus \ online
  /\ online' = online \cup {p}
  /\ UNCHANGED <<hw, errs, ha_addr>>

HardwareStep ==
  \/ \E c \in Channels, r \in Ranks : CorrectError(c, r)
  \/ \E p \in HotCpus : Offline(p) \/ Online(p)

HardwareTypeOK ==
  /\ hw \in [Channels -> [Ranks -> 0 .. (CounterMod - 1)]]
  /\ errs \in [Channels -> [Ranks -> Nat]]
  /\ ha_addr \in [HomeAgents -> Channels \cup {NoAddr}]
  /\ online \subseteq Cpus
=============================================================================
