---------------------------- MODULE SbFirmware ----------------------------
(***************************************************************************)
(* Registers that describe a memory, as firmware programs them.  SbDecode  *)
(* takes the tables of a machine as they are, and sb_edac.c trusts them;   *)
(* that all lines of memory have places of their own, which fill the DIMMs *)
(* of the sizes the driver tells, is true only if the tables fit each      *)
(* other.  Here is what fits means.  Nothing of it is code of the driver.  *)
(***************************************************************************)
EXTENDS SbDecode

(* Channels that are there as targets, ranks of installed DIMMs and, for   *)
(* Knights Landing, a TAD table in which the lines of the controller never *)
(* become fewer from one rule to the next.                                 *)
Installed(m) ==
  \A c \in DOMAIN m.ctl :
    LET ctl == m.ctl[c]
    IN  /\ \A n \in DOMAIN ctl.tad : \A k \in 0 .. ctl.tad[n].ch_way - 1 :
             ctl.tad[n].tgt[k] \in (0 .. 3) \cap DOMAIN ctl.chan
        /\ \A ch \in DOMAIN ctl.chan : \A i \in DOMAIN ctl.chan[ch].rir :
             LET rule == ctl.chan[ch].rir[i]
             IN  rule.valid => \A k \in 0 .. rule.ways - 1 : ctl.chan[ch].slot[DimmOf(rule.rank[k])].present
Growing(m) ==
  \A mc \in 0 .. 1 : \A t \in DOMAIN m.tad[mc] : Live(m, mc, t - 1) <= Live(m, mc, t)

-----------------------------------------------------------------------------
(* Every chunk of memory has a SAD rule, all eight entries of which name   *)
(* controllers that are there.                                             *)

Chunks(m)     == {a \div 2 ^ ChunkBits : a \in Memory(m)}
Sad(m, x)     == SadRule(m, x * 2 ^ ChunkBits)
Sends(m, c, x) == \E rule \in Sad(m, x), i \in 0 .. 7 : c \in Owner(m, rule, i)
Reached(m) ==
  \A x \in Chunks(m) : \E rule \in Sad(m, x) : \A i \in 0 .. 7 : Owner(m, rule, i) # {}

(* A7 mode is one of the machine.                                          *)
A7Mode(m) == \E i \in DOMAIN m.sad : m.sad[i].enable /\ IsA7(m, m.sad[i])
Shift(m)  == IF A7Mode(m) THEN m.shiftup ELSE 0
OneMode(m) ==
  A7Mode(m) => \A i \in DOMAIN m.sad : m.sad[i].enable => IsA7(m, m.sad[i])

-----------------------------------------------------------------------------
(* A part of memory: a chunk, one of the controllers that it goes to, the  *)
(* controller's TAD rule for it, and a way of the rule.                    *)

TadAt(m, c, x) == Rule(m.ctl[c].tad, DOMAIN m.ctl[c].tad, x * 2 ^ ChunkBits)
WaysOf(m, c, x) ==
  {[c |-> c, x |-> x, n |-> n, k |-> k] : n \in TadAt(m, c, x), k \in 0 .. 3}
Parts(m) ==
  {p \in UNION {WaysOf(m, c, x) : c \in DOMAIN m.ctl, x \in Chunks(m)} :
     Sends(m, p.c, p.x) /\ p.k < m.ctl[p.c].tad[p.n].ch_way}

TadOf(m, p)   == m.ctl[p.c].tad[p.n]
ChWays(m, p)  == IF m.ctl[p.c].mirror THEN TadOf(m, p).ch_way \div 2 ELSE TadOf(m, p).ch_way
Base(m, p)    == TadOf(m, p).tgt[p.k]
ChanOf(m, p)    == m.ctl[p.c].chan[Base(m, p)]
Group(m, p)   == Mask(Base(m, p), m.ctl[p.c].mirror, m.ctl[p.c].lockstep)
Offset(m, p)  == ChanOf(m, p).offset[p.n]

(* The blocks of the channel that the part may be in.                      *)
Share(m, p)  == 2 ^ TadOf(m, p).sock_way * ChWays(m, p)
Blocks(m)    == 2 ^ (ChunkBits - Shift(m))
From(m, p)   == ((p.x - Offset(m, p)) * Blocks(m)) \div Share(m, p)
Upto(m, p)   == ((p.x + 1 - Offset(m, p)) * Blocks(m) - 1) \div Share(m, p)

(* Every chunk has a TAD rule of each controller it goes to, whose offset  *)
(* is not above it, and RIR rules that reach the part.                     *)
Decoded(m) ==
  /\ \A c \in DOMAIN m.ctl, x \in Chunks(m) : Sends(m, c, x) => TadAt(m, c, x) # {}
  /\ \A p \in Parts(m) :
       /\ Offset(m, p) <= p.x
       /\ RirRule(ChanOf(m, p).rir, (Upto(m, p) + 1) * 2 ^ Shift(m) - 1) # {}

(* The entries of one controller agree in the digits that tell the sockets *)
(* or home agents by turns; the bits that are mixed in lie above those     *)
(* that take turns.                                                        *)
Fed(m, q) == IF A7Mode(m) THEN (q + 1) % 3 ELSE q
RulesOf(m, c, n) == UNION {Sad(m, x) : x \in {y \in Chunks(m) : n \in TadAt(m, c, y)}}
SameTurns(m, c, n) ==
  \A rule, other \in RulesOf(m, c, n) : \A i, j \in 0 .. 7 :
    c \in Owner(m, rule, i) /\ c \in Owner(m, other, j) =>
      \A q \in 0 .. m.ctl[c].tad[n].sock_way - 1 : Digit(i, Fed(m, q)) = Digit(j, Fed(m, q))
InTurn(m) ==
  \A c \in DOMAIN m.ctl : \A n \in DOMAIN m.ctl[c].tad :
    /\ A7Mode(m) /\ m.ctl[c].tad[n].sock_way > 0 => m.shiftup = 1
    /\ \A b \in {ChunkBits, XorBit} \cup HashBits : m.ctl[c].tad[n].sock_way + Shift(m) + 2 <= b
    /\ SameTurns(m, c, n)

(* Of the parts that go to the same channels, those of one rule take the   *)
(* same turn, and those of different ones go to different blocks.          *)
Apart(m) ==
  \A p, r \in Parts(m) :
    p.c = r.c /\ Group(m, p) = Group(m, r) =>
      IF p.n = r.n THEN Offset(m, p) = Offset(m, r) /\ p.k % ChWays(m, p) = r.k % ChWays(m, r)
      ELSE Upto(m, p) < From(m, r) \/ Upto(m, r) < From(m, p)

-----------------------------------------------------------------------------
(* The DIMMs.  Channels of a group have the same RIR rules, and no channel *)
(* is in two groups; those without a group have no DIMM.                   *)

Groups(m, c) == {Group(m, p) : p \in {r \in Parts(m) : r.c = c}}
Bases(m, c, g) == {Base(m, p) : p \in {r \in Parts(m) : r.c = c /\ Group(m, r) = g}}
Paired(m) ==
  \A c \in DOMAIN m.ctl :
    /\ \A g, h \in Groups(m, c) : g = h \/ g \cap h = {}
    /\ \A g \in Groups(m, c) : \A b \in Bases(m, c, g), ch \in g \cap DOMAIN m.ctl[c].chan :
         m.ctl[c].chan[ch].rir = m.ctl[c].chan[b].rir
    /\ \A ch \in DOMAIN m.ctl[c].chan \ UNION Groups(m, c) : \A s \in Slots : ~m.ctl[c].chan[ch].slot[s].present

(* The lines of a channel that its RIR rules place, and those in a slot.   *)
Placed(rir) == UNION {0 .. (rir[i].limit + 1) * 2 ^ RirBits - 1 : i \in {k \in DOMAIN rir : rir[k].valid}}
InSlot(m, c, ch, s) ==
  {x \in Placed(m.ctl[c].chan[ch].rir) :
     \E rank \in RanksAt(m.ctl[c].chan[ch].rir, m.ctl[c].close_pg, x) : DimmOf(rank) = s}

(* As many as the DIMM has: 2^22 columns and rows for each of its banks,   *)
(* of eight bytes.  In lockstep a line of the group is in two channels.    *)
Capacity(m, dimm) ==
  IF dimm.present THEN 2 ^ (22 + dimm.rows + dimm.cols + dimm.ranks + (IF m.ddr4 THEN 4 ELSE 3) - 17) ELSE 0
Filled(m) ==
  \A c \in DOMAIN m.ctl : \A g \in Groups(m, c) : \A ch \in g \cap DOMAIN m.ctl[c].chan, s \in Slots :
    Cardinality(InSlot(m, c, ch, s)) * LineMiB =
      (IF m.ctl[c].lockstep THEN 2 ELSE 1) * Capacity(m, m.ctl[c].chan[ch].slot[s])

(* And all of them together are as many as the lines of memory.            *)
Cells(m) ==
  UNION {UNION {{<<c, g, x>> : x \in UNION {Placed(m.ctl[c].chan[b].rir) : b \in Bases(m, c, g)}} :
                  g \in Groups(m, c)} : c \in DOMAIN m.ctl}
Whole(m) == IsFiniteSet(Cells(m)) /\ Cardinality(Cells(m)) = Cardinality(Memory(m))

Consistent(m) ==
  /\ Reached(m) /\ OneMode(m) /\ Decoded(m) /\ InTurn(m) /\ Apart(m)
  /\ Paired(m) /\ Filled(m) /\ Whole(m)

-----------------------------------------------------------------------------
(* Knights Landing, with one controller of up to six channels.  Its SAD    *)
(* regions follow each other over all of memory; in a region that is not   *)
(* EDRAM the TAD rules of a memory controller have all the lines or none,  *)
(* each line once; and its ways are the channels of the controllers that   *)
(* have it, with a DIMM each.                                              *)

TadLines(m, mc, t) == TadBase(m, mc, t) .. m.tad[mc][t].limit
LinesOf(m, i, mc)  == UNION {TadLines(m, mc, t) : t \in RulesIn(m, i, mc)}
Takers(m, i)       == {ch \in Participants(m) : LinesOf(m, i, knl_channel_mc(ch)) # {}}
KnlRegions(m) ==
  /\ \A i, k \in SadRegions(m) : i < k => SadEnd(m, i) <= SadBase(m, k)
  /\ \A a \in Memory(m) : \E i \in SadRegions(m) : a \in Region(m, i)
KnlTables(m) ==
  \A mc \in 0 .. 1 :
    /\ \A t, r \in DOMAIN m.tad[mc] : t # r => TadLines(m, mc, t) \cap TadLines(m, mc, r) = {}
    /\ \A i \in Mapping(m) : LinesOf(m, i, mc) \in {Region(m, i), {}}
KnlWays(m) ==
  \A i \in Mapping(m) : Region(m, i) # {} =>
    Cardinality(Takers(m, i)) = Ways(m, i) /\ Cardinality(Region(m, i)) % Ways(m, i) = 0
KnlDimms(m) ==
  /\ DOMAIN m.ctl = {1} /\ DOMAIN m.ctl[1].chan \subseteq 0 .. 5
  /\ Participants(m) \subseteq {ch \in DOMAIN m.ctl[1].chan : m.ctl[1].chan[ch].slot[0].present}
KnlConsistent(m) == KnlRegions(m) /\ KnlTables(m) /\ KnlWays(m) /\ KnlDimms(m)

ASSUME FirmwareAssumption ==
  \A m \in Machines :
    /\ Installed(m)
    /\ m.type = "KNIGHTS_LANDING" =>
         Growing(m) /\ DOMAIN m.ctl # {} /\ (KnlConsistent(m) \/ \E i \in SadRegions(m) : NonLocal(m, i))
    /\ m.type # "KNIGHTS_LANDING" /\ Plain(m) => Consistent(m)
=============================================================================
