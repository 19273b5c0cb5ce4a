------------------------------ MODULE SbDecode ------------------------------
(***************************************************************************)
(* The address decoder of sb_edac.c: get_memory_error_data() takes an      *)
(* address through the SAD, TAD and RIR registers, or, when only its page  *)
(* is known, get_memory_error_data_from_mce() trusts the bank and channel  *)
(* of the machine check; sbridge_mce_output_error() chooses between them   *)
(* and reports.  In this tree the registration of the notifier is a        *)
(* comment, so nothing calls sbridge_mce_check_error(): Handle is what a   *)
(* call of it does.                                                        *)
(*                                                                         *)
(* As in SkxDecode the bit positions are constants, and a stage yields the *)
(* set of its results, which is empty where the code returns an error.     *)
(***************************************************************************)
EXTENDS SbDimm

CONSTANTS
  Machines,
  XorBit,       \* 16 - 6: the lowest address bit of the XOR interleave
  HashBits,     \* {12 - 6, 14 - 6, ... 26 - 6}: the bit pairs of the channel hash
  RirBits,      \* 29 - 6: the unit of RIR limits
  OpenPgShift,  \* 13 - 6
  HoleBits,     \* 32 - 6: no memory between tolm and 2^32
  IntLines,     \* 2^31: an int is at least -IntLines and less than IntLines
  Errors(_)     \* machine checks of a machine: line address, lsb beyond a
                \* line (page) or not, bank, channel and socket

ASSUME ScaleAssumption ==
  /\ {ChunkBits, XorBit, RirBits, OpenPgShift, HoleBits, LineMiB} \subseteq Nat
  /\ HashBits \subseteq Nat /\ IsFiniteSet(HashBits)
  /\ IntLines \in Nat \ {0}

(* What the fields of the registers can hold, those that matter: a channel *)
(* interleave has one to four ways and ranks have four bits.               *)
IsTable(t) == Len(t) \in Nat /\ DOMAIN t = 1 .. Len(t)
ASSUME MachinesAssumption ==
  \A m \in Machines :
    /\ m.type \in {"SANDY_BRIDGE", "IVY_BRIDGE", "HASWELL", "BROADWELL", "KNIGHTS_LANDING"}
    /\ m.shiftup \in 0 .. 1 /\ {m.tolm, m.tohm} \subseteq Nat
    /\ IsTable(m.sad) /\ IsTable(m.ctl) /\ \A i \in DOMAIN m.sad : m.sad[i].limit \in Nat
    /\ \A c \in DOMAIN m.ctl :
         LET ctl == m.ctl[c]
         IN  /\ {ctl.hash, ctl.mirror, ctl.lockstep, ctl.close_pg} \subseteq BOOLEAN
             /\ IsTable(ctl.tad)
             /\ \A n \in DOMAIN ctl.tad :
                  /\ ctl.tad[n].limit \in Nat /\ ctl.tad[n].sock_way \in 0 .. 3 /\ ctl.tad[n].ch_way \in 1 .. 4
                  /\ \A ch \in DOMAIN ctl.chan : ctl.chan[ch].offset[n] \in Nat
             /\ \A ch \in DOMAIN ctl.chan :
                  /\ \A s \in Slots : {ctl.chan[ch].slot[s].ranks, ctl.chan[ch].slot[s].rows, ctl.chan[ch].slot[s].cols} \subseteq Nat
                  /\ IsTable(ctl.chan[ch].rir)
                  /\ \A i \in DOMAIN ctl.chan[ch].rir :
                       LET rule == ctl.chan[ch].rir[i]
                       IN  rule.limit \in Nat /\ rule.ways \in Nat \ {0} /\ \A k \in 0 .. rule.ways - 1 : rule.rank[k] \in 0 .. 15
    /\ m.type = "KNIGHTS_LANDING" =>
         \A mc \in 0 .. 1 :
           /\ IsTable(m.tad[mc])
           /\ \A t \in DOMAIN m.tad[mc] : m.tad[mc][t].limit \in Nat /\ m.tad[mc][t].offset \in Nat
ASSUME ErrorsAssumption ==
  \A m \in Machines : \A e \in Errors(m) :
    e.addr \in Nat /\ e.page \in BOOLEAN /\ e.channel \in 0 .. 15

VARIABLE report   \* what was handed to edac_mc_handle_error(), or none yet
vars == <<dimmVars, report>>

Bits(a, lo, n) == (a \div 2 ^ lo) % 2 ^ n

(* An index is an int: what is left of a number in one, and the remainder  *)
(* of that, which has its sign.                                            *)
ToInt(x)     == ((x + IntLines) % (2 * IntLines)) - IntLines
Rem(x, n)    == IF x >= 0 THEN x % n ELSE -((-x) % n)
IntRem(x, n) == Rem(ToInt(x), n)

-----------------------------------------------------------------------------
(* Step 0.  get_memory_layout() keeps TOLM and TOHM; haswell_get_tohm()    *)
(* fills one bit less of the last chunk than the others do.                *)
Tohm == IF Haswell THEN machine.tohm - 2 ^ (ChunkBits - 1) ELSE machine.tohm
Hole(m, a) == m.tolm < a /\ a < 2 ^ HoleBits
Special(a) == Hole(machine, a) \/ a > Tohm

(* The first rule of a table that ends at or above a, if the limits before *)
(* it rise.                                                                *)
Rule(rules, used, a) ==
  {i \in First({k \in used : a <= Limit(rules[k].limit)}) :
     \A j, k \in used : j < k /\ k <= i => rules[j].limit < rules[k].limit}

-----------------------------------------------------------------------------
(* Step 1: the socket and its home agent.                                  *)
sad_pkg_socket(pkg) == (pkg \div 8) * 4 + (pkg % 4)
sad_pkg_ha(pkg)     == (pkg \div 4) % 2

Digit(x, k)     == Bits(x, k, 1)
Xored(bits, a)  ==
  LET xor(k) == (Digit(bits, k) + Digit(a, XorBit + k)) % 2
  IN  xor(0) + 2 * xor(1) + 4 * xor(2)
A7(a)           == Bits(a, 1, 2) * 2 + Bits(a, 3, 1)
IsA7(m, rule) == m.type \in Haswells /\ rule.a7mode
IsXor(m, rule) ==
  \/ m.type = "SANDY_BRIDGE" /\ rule.interleave_mode = 1
  \/ m.type \in Haswells /\ rule.interleave_mode = 0
Index(rule, a) ==
  LET bits == IF IsA7(machine, rule) THEN A7(a) ELSE Bits(a, 0, 3)
  IN  IF IsXor(machine, rule) THEN Xored(bits, a) ELSE bits

(* Entry i of the interleave list of a rule.                               *)
Target(m, rule, i) ==
  IF m.type = "SANDY_BRIDGE"
    THEN {[node |-> rule.pkgs[i % ways], dom |-> 0] : ways \in Repeated(rule.pkgs) \cap {1, 2, 4, 8}}
    ELSE {[node |-> sad_pkg_socket(rule.pkgs[i]), dom |-> sad_pkg_ha(rule.pkgs[i])]}

Mci(m, node, ha) == First({c \in DOMAIN m.ctl : m.ctl[c].node = node /\ m.ctl[c].dom = ha})
get_mci_for_node_id(node, ha) == Mci(machine, node, ha)

(* All sockets have the same SAD, so the reporting one does not matter.    *)
SadRule(m, a) == {m.sad[i] : i \in Rule(m.sad, {k \in DOMAIN m.sad : m.sad[k].enable}, a)}
Owner(m, rule, i) == UNION {Mci(m, t.node, t.dom) : t \in Target(m, rule, i)}
Shiftup(m, rule) == IF IsA7(m, rule) THEN m.shiftup ELSE 0
SadDecode(a) ==
  UNION {{[c |-> c, shift |-> Shiftup(machine, rule)] : c \in Owner(machine, rule, Index(rule, a))} :
           rule \in SadRule(machine, a)}

-----------------------------------------------------------------------------
(* Step 2: the channels, and the address in them.                          *)
Hash(idx, a) ==  \* idx exclusive or all the pairs
  LET xor(k) == (Digit(idx, k) + Cardinality({b \in HashBits : Digit(a, b + k) = 1})) % 2
  IN  xor(0) + 2 * xor(1)

ChannelIndexMutant(c, tad, shift, a) ==  \* the bits of the sockets
  LET idx == Bits(a, shift, 2)
  IN  IF tad.ch_way = 3 THEN IntRem(a, 3)
      ELSE (IF pvt[c].hash THEN Hash(idx, a) ELSE idx) % tad.ch_way
ChannelIndex(c, tad, shift, a) ==
  LET idx == Bits(a, tad.sock_way + shift, 2)
  IN  IF tad.ch_way = 3 THEN IntRem(a, 3)
      ELSE (IF pvt[c].hash THEN Hash(idx, a) ELSE idx) % tad.ch_way

Mirrored(c, rule1) ==
  \/ pvt[c].mirror = "FULL_MIRRORING"
  \/ pvt[c].mirror = "ADDR_RANGE_MIRRORING" /\ rule1
Mask(base, mirrored, lockstep) ==
  {base} \cup (IF mirrored THEN {(base + 2) % 4} ELSE {})
         \cup (IF lockstep THEN {(base + 1) % 4} ELSE {})

ChannelAddress(a, offset, shift, sck_xch) ==
  (((a - offset) \div 2 ^ shift) \div sck_xch) * 2 ^ shift + (a % 2 ^ shift)

(* Rule n of the controller's home agent; no target has a negative index.  *)
TadResult(s, n, a) ==
  LET tad      == Ctl[s.c].tad[n]
      index    == ChannelIndex(s.c, tad, s.shift, a)
      base     == tad.tgt[index]
      mirrored == Mirrored(s.c, n = 1)
      ways     == IF mirrored THEN tad.ch_way \div 2 ELSE tad.ch_way
      offset   == Ctl[s.c].chan[base].offset[n] * 2 ^ ChunkBits
  IN  IF index < 0 \/ (mirrored /\ tad.ch_way \notin {2, 4}) \/ offset > a THEN {}
      ELSE {[c |-> s.c, base |-> base, mirrored |-> mirrored, mask |-> Mask(base, mirrored, pvt[s.c].lockstep),
             ch_addr |-> ChannelAddress(a, offset, s.shift, 2 ^ tad.sock_way * ways)]}
TadDecode(s, a) ==
  UNION {TadResult(s, n, a) : n \in Rule(Ctl[s.c].tad, DOMAIN Ctl[s.c].tad, a)}

-----------------------------------------------------------------------------
(* Step 3: the rank, of a channel.                                         *)
RirRule(rir, ch_addr) ==
  First({k \in DOMAIN rir : rir[k].valid /\ ch_addr < (rir[k].limit + 1) * 2 ^ RirBits})
Page(close_pg, ch_addr) == ch_addr \div 2 ^ (IF close_pg THEN 0 ELSE OpenPgShift)
RankAt(rule, index) ==  \* in front of its row rir_offset has any register
  IF index < 0 THEN 0 .. 15 ELSE {rule.rank[index]}
RanksAt(rir, close_pg, ch_addr) ==
  UNION {RankAt(rir[i], IntRem(Page(close_pg, ch_addr), rir[i].ways)) : i \in RirRule(rir, ch_addr)}
Ranked(t) ==
  {[c |-> t.c, base |-> t.base, mirrored |-> t.mirrored, mask |-> t.mask, ch_addr |-> t.ch_addr, rank |-> rank] :
     rank \in RanksAt(Ctl[t.c].chan[t.base].rir, pvt[t.c].close_pg, t.ch_addr)}

Place(a)  == UNION {Ranked(t) : t \in UNION {TadDecode(s, a) : s \in SadDecode(a)}}
Decode(a) == IF Special(a) THEN {} ELSE Place(a)

-----------------------------------------------------------------------------
(* get_memory_error_data_from_mce(): 255 is no home agent, and no rank.    *)
get_ha(bank) ==
  CASE machine.type = "SANDY_BRIDGE" -> 0
    [] machine.type # "SANDY_BRIDGE" /\ bank \in 7 .. 8  -> bank - 7
    [] machine.type # "SANDY_BRIDGE" /\ bank \in 9 .. 16 -> (bank - 9) \div 4
    [] machine.type # "SANDY_BRIDGE" /\ bank \notin 7 .. 16 -> 255

MirroredRangeMutant(c, a) == a < Limit(Ctl[c].tad[1].limit)
MirroredRange(c, a) == a <= Limit(Ctl[c].tad[1].limit)
MceResult(m, c, mirrored) ==
  [c |-> c, mirrored |-> mirrored, mask |-> Mask(m.channel, mirrored, pvt[c].lockstep), rank |-> 255]
FromMce(m) ==
  {MceResult(m, c, Mirrored(c, MirroredRange(c, m.addr))) :
     c \in {x \in get_mci_for_node_id(m.socket, get_ha(m.bank)) : m.channel < 6}}

-----------------------------------------------------------------------------
None == [kind |-> "none"]
CHANNEL_UNSPECIFIED == 15
DimmOfMutant(rank) == rank \div 4
DimmOf(rank) == CASE rank = 255 -> -1 [] rank < 4 -> 0 [] rank \in 4 .. 7 -> 1 [] rank \in 8 .. 15 -> 2

(* The channel is the decoder's only where it is a single one, and else    *)
(* the machine check's.                                                    *)
Channel(m, p) ==
  IF ~pvt[p.c].lockstep /\ ~p.mirrored /\ ~pvt[p.c].close_pg
    THEN CHOOSE ch \in p.mask : \A x \in p.mask : ch <= x
  ELSE IF m.channel = CHANNEL_UNSPECIFIED THEN -1 ELSE m.channel

(* sbridge_mce_check_error() of a memory error with a physical address,    *)
(* and sbridge_mce_output_error().                                         *)
Handled(m) ==
  [kind |-> "error", mce |-> m, c |-> 0, mask |-> {}, channel |-> -1, dimm |-> -1]
ReporterOf(m) == get_mci_for_node_id(m.socket, 0)
Handle(m) ==
  /\ phase = "live" /\ report = None /\ ~Knl
  /\ \E c \in ReporterOf(m) :
       LET found == IF m.page THEN FromMce(m) ELSE Decode(m.addr)
       IN  IF found = {} THEN report' = [Handled(m) EXCEPT !.kind = "err_parsing", !.c = c]
           ELSE \E p \in found :
                  report' = [Handled(m) EXCEPT !.c = p.c, !.mask = p.mask,
                                               !.channel = Channel(m, p), !.dimm = DimmOf(p.rank)]
  /\ UNCHANGED dimmVars

(* Knights Landing names the channel by the bank; 14 is an EDRAM, which is *)
(* not reported.                                                           *)
HandleKnl(m) ==
  /\ phase = "live" /\ report = None /\ Knl /\ m.channel # 14
  /\ \E c \in ReporterOf(m) :
       LET channel == knl_channel_remap(IF m.bank = 16 THEN 1 ELSE 0, m.channel)
       IN  report' = [Handled(m) EXCEPT !.c = c, !.mask = {channel}, !.channel = channel, !.dimm = 0]
  /\ UNCHANGED dimmVars

Init ==
  /\ machine \in Machines
  /\ DimmInit
  /\ report = None
Next ==
  \/ Config /\ UNCHANGED report
  \/ \E m \in Errors(machine) : Handle(m) \/ HandleKnl(m)
Spec == Init /\ [][Next]_vars

-----------------------------------------------------------------------------
(* Properties.                                                             *)

TypeOK ==
  /\ machine \in Machines
  /\ phase \in {"config", "live", "failed"}
  /\ at \in 1 .. Len(Ctl) + 1
  /\ \A c \in DOMAIN Ctl :
       pvt[c] \in [mirror : {"NON_MIRRORING", "ADDR_RANGE_MIRRORING", "FULL_MIRRORING"},
                  lockstep : BOOLEAN, close_pg : BOOLEAN, hash : BOOLEAN]
  /\ \A d \in Places : size[d] \in Nat \cup {Garbage}
  /\ report # None =>
       /\ report.kind \in {"error", "err_parsing"}
       /\ report.c \in DOMAIN Ctl /\ report.channel \in -1 .. 18 /\ report.dimm \in -1 .. 2

(* The lines that are memory; mapped pairs each with its place.            *)
Memory(m) == {a \in 0 .. m.tohm : ~Hole(m, a)}
Mapped == UNION {{[line |-> a, place |-> p] : p \in Place(a)} : a \in Memory(machine)}

(* Every line of memory has a channel set and an address in it, and those  *)
(* of no other line, through any interleave of sockets, home agents and    *)
(* channels, swapped, exclusive-ored or hashed bits and holes.             *)
OneToOne(mapped) ==
  Cardinality({<<x.place.c, x.place.mask, x.place.ch_addr>> : x \in mapped}) = Cardinality(Memory(machine))

(* The lines that decode to a DIMM are as many as the size that the driver *)
(* gives EDAC for it has, and none to an empty slot.  In lockstep a line   *)
(* is half in each of two channels, mirrored it is whole in both.          *)
LinesIn(mapped, d) ==
  Cardinality({x \in mapped : x.place.c = d[1] /\ d[2] \in x.place.mask /\ DimmOf(x.place.rank) = d[3]})
FillsDimms(mapped) ==
  \A d \in Places :
    LinesIn(mapped, d) * LineMiB = IF pvt[d[1]].lockstep THEN 2 * size[d] ELSE size[d]

(* For Knights Landing, which has no decoder: together the DIMMs are as    *)
(* large as the memory that the SAD rules map, holes and EDRAM aside.      *)
Region(m, i)  == {a \in Memory(m) : SadBase(m, i) <= a /\ a < SadEnd(m, i)}
InEdram(m, a) == \E i \in SadRegions(m) : m.sad[i].edram /\ a \in Region(m, i)
KnlTotal ==
  SumFunction(size) = LineMiB * Cardinality({a \in Memory(machine) : ~InEdram(machine, a)})

(* Machines about which the driver can know all of it: the DDRIO device    *)
(* tells the kind of the DIMMs, their fields are in range, mirrored ranges *)
(* have two or four channels, and no range of addresses is mirrored alone, *)
(* for which no TAD offset of what follows can be right.  Channels are not *)
(* mirrored and in lockstep, for of the four that have a line the mask     *)
(* then names three.  Nor are three channels in turn below sockets told by *)
(* exclusive-ored bits: a block of six lines or more may lie across bit 16 *)
(* of the address, and then two lines of it have one channel and one       *)
(* address there, whatever the tables (see the FIXME at sb_edac.c:2189).   *)
(* Last, the numbers fit in an int: three channels in turn are below 128   *)
(* GiB, and so is what the ranks of a channel with closed pages share.     *)
Plain(m) ==
  \A c \in DOMAIN m.ctl :
    /\ ~(m.type \in Haswells /\ m.ctl[c].range) /\ ~(m.ctl[c].mirror /\ m.ctl[c].lockstep)
    /\ \A n \in DOMAIN m.ctl[c].tad :
         /\ m.ctl[c].mirror => m.ctl[c].tad[n].ch_way \in {2, 4}
         /\ m.ctl[c].tad[n].ch_way = 3 /\ m.ctl[c].tad[n].sock_way > 0 => \A i \in DOMAIN m.sad : ~IsXor(m, m.sad[i])
         /\ m.ctl[c].tad[n].ch_way = 3 => Limit(m.ctl[c].tad[n].limit) < IntLines
    /\ \A ch \in DOMAIN m.ctl[c].chan : \A i \in DOMAIN m.ctl[c].chan[ch].rir :
         LET rule == m.ctl[c].chan[ch].rir[i]
         IN  rule.valid => Page(m.ctl[c].close_pg, (rule.limit + 1) * 2 ^ RirBits - 1) < IntLines
    /\ \A ch \in DOMAIN m.ctl[c].chan : \A s \in Slots :
         m.ctl[c].chan[ch].slot[s].present => InRange(m.type, m.ctl[c].chan[ch].slot[s])
Known == machine.ddrio /\ Plain(machine)
MemoryMapped ==
  phase = "live" /\ report = None /\ Known =>
    IF Knl THEN KnlTotal
    ELSE LET mapped == Mapped
         IN  OneToOne(mapped) /\ FillsDimms(mapped)

(* A machine check by the agent that has the line names it whichever way   *)
(* it is decoded: an error of which only the page is known goes to the     *)
(* controller and channels to which the registers map its line, and one of *)
(* a line in particular to its slot.  Only what haswell_get_tohm()         *)
(* (sb_edac.c:1123) cuts off the end of memory is refused.  Nothing is     *)
(* promised of a line for which an index does not fit in an int (2180,     *)
(* 2289): from 128 GiB on one of three channels in turn may be refused or  *)
(* go to another channel, and one of a channel with closed pages to any    *)
(* rank.  On Knights Landing the channel is of the controller whose bank   *)
(* reports.                                                                *)
Narrow(a) ==
  /\ \A s \in SadDecode(a) : \A n \in Rule(Ctl[s.c].tad, DOMAIN Ctl[s.c].tad, a) :
       Ctl[s.c].tad[n].ch_way = 3 => a < IntLines
  /\ \A p \in Place(a) : Page(pvt[p.c].close_pg, p.ch_addr) < IntLines
Truthful(m, p) ==
  m.socket = Ctl[p.c].node /\ get_ha(m.bank) = Ctl[p.c].dom /\ m.channel = p.base
KnlPlace(m) ==
  m.bank \in 15 .. 16 /\ m.channel \in 0 .. 2 =>
    report.channel \in {ch \in 0 .. 5 : knl_channel_mc(ch) = m.bank - 15}
ReportsPlace ==
  report # None =>
    IF Knl THEN KnlPlace(report.mce) ELSE
    Narrow(report.mce.addr) => \A p \in Place(report.mce.addr) : Truthful(report.mce, p) =>
      IF report.kind = "error"
        THEN /\ report.c = p.c /\ report.mask = p.mask
             /\ report.channel \in p.mask
             /\ report.dimm = IF report.mce.page THEN -1 ELSE DimmOf(p.rank)
             /\ ~report.mce.page => <<p.c, report.channel, report.dimm>> \in Present(p.c)
        ELSE Special(report.mce.addr) /\ ~report.mce.page
=============================================================================
