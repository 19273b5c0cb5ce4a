------------------------------- MODULE SbDimm -------------------------------
(***************************************************************************)
(* What sb_edac.c learns of a controller's memory when it registers it:    *)
(* get_dimm_config(), __populate_dimms() and, for Knights Landing, whose   *)
(* DIMMs do not tell their size, knl_get_dimm_capacity().                  *)
(*                                                                         *)
(* Registers are records of their fields.  Addresses are numbers of cache  *)
(* lines, and the scale of memory is a constant.                           *)
(***************************************************************************)
EXTENDS Integers, Sequences, FiniteSets, Functions

CONSTANTS
  ChunkBits,   \* 26 - 6: the unit of SAD and TAD limits, in lines
  LineMiB      \* the size of a line in MiB (2^-14 in the hardware)

VARIABLES
  machine,     \* its registers, see below
  phase,       \* "config", then "live" or "failed"
  at,          \* the controller to register next
  pvt,         \* mirror_mode, is_lockstep, is_close_pg, is_chan_hash, by controller
  size         \* dimm_info: MiB by controller, channel and slot

dimmVars == <<machine, phase, at, pvt, size>>

(* machine.ctl[c] is a controller: its node id and dom, the bits of its    *)
(* HASYSDEFEATURE2 (hash, range), RASENABLES (mirror) and MCMTR (ecc,      *)
(* lockstep, close_pg), and its channels with a TAD device, each of which  *)
(* has the MTRs of its slots.  The DIMMs are DDR4 or not, which the driver *)
(* knows by the DDRIO device if there is one.                              *)
Knl     == machine.type = "KNIGHTS_LANDING"
Haswells == {"HASWELL", "BROADWELL"}
Haswell == machine.type \in Haswells
Ctl     == machine.ctl
Slots   == 0 .. 2
Dimms(c)   == {d \in {c} \X (DOMAIN Ctl[c].chan) \X Slots : Knl => d[3] = 0}
Mtr(d)     == Ctl[d[1]].chan[d[2]].slot[d[3]]
Present(c) == {d \in Dimms(c) : Mtr(d).present}
Places     == UNION {Dimms(c) : c \in DOMAIN Ctl}

First(S)  == {i \in S : \A k \in S : i <= k}
Limit(n)  == (n + 1) * 2 ^ ChunkBits - 1

-----------------------------------------------------------------------------
(* numrank(), numrow(), numcol(): a field out of range becomes -EINVAL,    *)
(* which goes into the product of unsigned numbers like any other.         *)
MaxRankBits(type) == IF type \in {"SANDY_BRIDGE", "IVY_BRIDGE"} THEN 2 ELSE 3
InRange(type, mtr) == mtr.ranks <= MaxRankBits(type) /\ mtr.rows \in 1 .. 6 /\ mtr.cols <= 2
Garbage == -1

BankBits == IF Knl \/ (machine.ddrio /\ machine.ddr4) THEN 4 ELSE 3
SizeOf(mtr) ==
  IF InRange(machine.type, mtr) THEN 2 ^ ((12 + mtr.rows) + (10 + mtr.cols) + mtr.ranks + BankBits - 17)
  ELSE Garbage

-----------------------------------------------------------------------------
(* knl_get_dimm_capacity().  A SAD rule has a limit, eight packages, and   *)
(* bits for EDRAM and mod 3; a TAD rule of a controller has the line it    *)
(* ends at, and in its offset all the lines below that are not in the      *)
(* controller's table.                                                     *)

knl_channel_remap(mc, chan) == IF mc # 0 THEN chan ELSE chan + 3
knl_channel_mc(ch)          == IF ch < 3 THEN 1 ELSE 0

SadRegions(m) == {i \in DOMAIN m.sad : \A k \in 1 .. i : m.sad[k].enable}
SadBase(m, i) == IF i = 1 THEN 0 ELSE Limit(m.sad[i - 1].limit) + 1
SadEnd(m, i)  == Limit(m.sad[i].limit) + 1
Mapping(m)    == {i \in SadRegions(m) : ~m.sad[i].edram}

(* The list is read up to the first repetition of its first package.       *)
Repeated(pkgs) == First({w \in 1 .. 7 : pkgs[w] = pkgs[0]} \cup {8})
Ways(m, i) ==
  (CHOOSE w \in Repeated(m.sad[i].pkgs) : TRUE) * (IF m.sad[i].mod3 THEN 3 ELSE 1)
NonLocal(m, i) ==
  \E w \in Repeated(m.sad[i].pkgs) : \E k \in 1 .. w : k < 8 /\ m.sad[i].pkgs[k] < 8

(* The lines of each TAD rule, and those of a region in the table of mc.   *)
Live(m, mc, t)    == IF t = 0 THEN 0 ELSE m.tad[mc][t].limit + 1 - m.tad[mc][t].offset
TadSize(m, mc, t) == Live(m, mc, t) - Live(m, mc, t - 1)
TadBase(m, mc, t) == m.tad[mc][t].limit + 1 - TadSize(m, mc, t)
RulesIn(m, i, mc) ==
  {t \in DOMAIN m.tad[mc] : /\ SadBase(m, i) <= TadBase(m, mc, t) /\ TadBase(m, mc, t) < SadEnd(m, i)
                            /\ m.tad[mc][t].limit + 1 <= SadEnd(m, i)}
ActualSize(m, i, mc) == SumFunction([t \in RulesIn(m, i, mc) |-> TadSize(m, mc, t)])

(* A channel that any CHA routes any target to takes part in each region.  *)
Participants(m) == {knl_channel_remap(r.mc, r.chan) : r \in UNION {{cha[k] : k \in DOMAIN cha} : cha \in m.route}}
Contributes(m, i, ch) == ActualSize(m, i, knl_channel_mc(ch)) \div Ways(m, i)
McSize(m, ch) ==
  IF ch \in Participants(m) THEN SumFunction([i \in Mapping(m) |-> Contributes(m, i, ch)]) ELSE 0

-----------------------------------------------------------------------------
(* get_dimm_config() of one controller.                                    *)

Mode(c) ==
  [mirror |-> CASE Knl -> "NON_MIRRORING"
                [] Haswell /\ Ctl[c].range -> "ADDR_RANGE_MIRRORING"
                [] ~Knl /\ ~(Haswell /\ Ctl[c].range) ->
                     IF Ctl[c].mirror THEN "FULL_MIRRORING" ELSE "NON_MIRRORING",
   lockstep |-> ~Knl /\ Ctl[c].lockstep,
   close_pg |-> ~Knl /\ Ctl[c].close_pg,
   hash     |-> Haswell /\ Ctl[c].hash]

DimmInit ==
  /\ phase = "config"
  /\ at = 1
  /\ pvt = [c \in DOMAIN Ctl |->
              [mirror |-> "NON_MIRRORING", lockstep |-> FALSE, close_pg |-> FALSE, hash |-> FALSE]]
  /\ size = [d \in Places |-> 0]

Refused(c) ==
  \/ Knl /\ \E i \in SadRegions(machine) : NonLocal(machine, i)
  \/ Present(c) # {} /\ ~Ctl[c].ecc

GetDimmConfig ==
  /\ phase = "config" /\ at \in DOMAIN Ctl /\ ~Refused(at)
  /\ pvt' = [pvt EXCEPT ![at] = Mode(at)]
  /\ size' = [d \in Places |-> IF d \notin Present(at) THEN size[d]
                               ELSE IF Knl THEN LineMiB * McSize(machine, d[2]) ELSE SizeOf(Mtr(d))]
  /\ at' = at + 1
  /\ UNCHANGED <<machine, phase>>

(* Any of its registers may be unreadable; then registration fails, and    *)
(* with it the load of the driver.                                         *)
ConfigFails ==
  /\ phase = "config" /\ at \in DOMAIN Ctl
  /\ phase' = "failed"
  /\ UNCHANGED <<machine, at, pvt, size>>

AllRegistered ==
  /\ phase = "config" /\ at \notin DOMAIN Ctl
  /\ phase' = "live"
  /\ UNCHANGED <<machine, at, pvt, size>>

Config == GetDimmConfig \/ ConfigFails \/ AllRegistered
=============================================================================
