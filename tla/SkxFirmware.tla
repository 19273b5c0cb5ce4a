---------------------------- MODULE SkxFirmware ----------------------------
(***************************************************************************)
(* Registers that describe a memory.  SkxDecode takes the registers of a   *)
(* machine as they are, and the driver trusts them; that no two addresses  *)
(* have one place is true only if the tables of its stages fit each other. *)
(* Here is what fits means.  Nothing of it is code of the driver: firmware *)
(* programs the tables, src/ only reads them.                              *)
(***************************************************************************)
EXTENDS SkxDecode

Channels(m) == {[d |-> d, imc |-> i, channel |-> c] : d \in DOMAIN m.sockets, i \in Imcs, c \in Chans}

(* The memory that the SAD sends to a channel, and the channels it uses.   *)
Sent(m, s) == {a \in Memory(m) : s \in SadDecode(m, a)}
Used(m) == {s \in Channels(m) : Sent(m, s) # {}}

(* Sockets have names of their own, and SAD and TAD rules reach all of     *)
(* memory.                                                                 *)
Named(m)   == \A d, e \in DOMAIN m.sockets : m.sockets[d].src_id = m.sockets[e].src_id => d = e
Reached(m) == \A a \in Memory(m) : \E s \in SadDecode(m, a) : TadRules(m, s, a) # {}

(* A stage of an interleave, the first and the last number that it makes   *)
(* of numbers from lo or up to hi, and which of its ways a number takes.   *)
From(lo, stage) == ((lo \div 2 ^ stage.shift) \div stage.ways) * 2 ^ stage.shift
Upto(hi, stage) == From(hi, stage) + 2 ^ stage.shift - 1
Way(n, stage)   == (n \div 2 ^ stage.shift) % stage.ways

-----------------------------------------------------------------------------
(* The TAD rules of a channel.                                             *)

BySocket(tad)  == [shift |-> Gran(tad.skt_gran), ways |-> tad.sktways]
ByChannel(tad) == [shift |-> Gran(tad.chn_gran), ways |-> tad.chanways]
Turned(tad)    == ChannelFirst(tad, Gran(tad.skt_gran), Gran(tad.chn_gran))
Outer(tad)     == IF Turned(tad) THEN ByChannel(tad) ELSE BySocket(tad)
Inner(tad)     == IF Turned(tad) THEN BySocket(tad) ELSE ByChannel(tad)

Start(tad, c, a) == a - tad.offset[c] * 2 ^ ChunkBits
Halfway(tad, c, a) ==
  Interleave(Start(tad, c, a), Outer(tad).shift, Outer(tad).ways, IF Turned(tad) THEN Start(tad, c, a) ELSE a)
ChanFrom(tad, c) == From(From(Start(tad, c, tad.base * 2 ^ ChunkBits), Outer(tad)), Inner(tad))
ChanUpto(tad, c) == Upto(Upto(Start(tad, c, Limit(tad.limit, ChunkBits)), Outer(tad)), Inner(tad))

(* What a rule takes out is known from the channel: of the memory that the  *)
(* SAD sends to it, all that lies alike in its blocks takes the same ways. *)
OneWay(n, k, stage) ==
  n % 2 ^ stage.shift = k % 2 ^ stage.shift => Way(n, stage) = Way(k, stage)
InTurn(m, s) ==
  \A a, b \in Sent(m, s) : \A i \in TadRules(m, s, a) \cap TadRules(m, s, b) :
    LET tad == Tad(m, s)[i]
    IN  /\ OneWay(Start(tad, s.channel, a), Start(tad, s.channel, b), Outer(tad))
        /\ OneWay(Halfway(tad, s.channel, a), Halfway(tad, s.channel, b), Inner(tad))

(* Channels are not the coarser of two interleaves, unless they go first;   *)
(* rules lead to different parts of the channel.                           *)
TadFits(m, s) ==
  \A i \in DOMAIN Tad(m, s) :
    /\ \/ Turned(Tad(m, s)[i]) \/ Tad(m, s)[i].sktways = 1
       \/ Inner(Tad(m, s)[i]).shift <= Outer(Tad(m, s)[i]).shift
    /\ 0 <= ChanFrom(Tad(m, s)[i], s.channel)
    /\ \A j \in DOMAIN Tad(m, s) \ {i} :
         \/ ChanUpto(Tad(m, s)[i], s.channel) < ChanFrom(Tad(m, s)[j], s.channel)
         \/ ChanUpto(Tad(m, s)[j], s.channel) < ChanFrom(Tad(m, s)[i], s.channel)

-----------------------------------------------------------------------------
(* The RIR rules of a channel, for either page mode.                       *)

Shifts == {ClosePgShift, OpenPgShift}

Below(m, s, i)        == IF i = 1 THEN 0 ELSE Limit(Rir(m, s)[i - 1].limit, RirChunkBits) + 1
ByRank(m, s, i, sh)   == [shift |-> sh, ways |-> Rir(m, s)[i].ways]
Offset(m, s, i, k)    == Rir(m, s)[i].ilv[k].offset * 2 ^ ChunkBits
RankFrom(m, s, i, k, sh) == From(Below(m, s, i), ByRank(m, s, i, sh)) - Offset(m, s, i, k)
RankUpto(m, s, i, k, sh) == Upto(Limit(Rir(m, s)[i].limit, RirChunkBits), ByRank(m, s, i, sh)) - Offset(m, s, i, k)
Valid(m, s) == {i \in DOMAIN Rir(m, s) : Rir(m, s)[i].valid}
Ilvs(m, s, i) == 0 .. Rir(m, s)[i].ways - 1

(* Rules are the first ones, with rising limits, and reach all that TAD    *)
(* rules lead to; ranks of a rule are different, and if two rules have one *)
(* rank, then in different parts.                                          *)
RirFits(m, s) ==
  /\ \A i \in Valid(m, s) : i > 1 => i - 1 \in Valid(m, s) /\ Rir(m, s)[i - 1].limit < Rir(m, s)[i].limit
  /\ \A r \in DOMAIN Tad(m, s) : \E i \in Valid(m, s) :
       ChanUpto(Tad(m, s)[r], s.channel) <= Limit(Rir(m, s)[i].limit, RirChunkBits)
  /\ \A i, j \in Valid(m, s) : \A k \in Ilvs(m, s, i), l \in Ilvs(m, s, j) :
       Rir(m, s)[i].ilv[k].rank = Rir(m, s)[j].ilv[l].rank =>
         \/ i = j /\ k = l
         \/ i # j /\ \A sh \in Shifts : \/ RankUpto(m, s, i, k, sh) < RankFrom(m, s, j, l, sh)
                                        \/ RankUpto(m, s, j, l, sh) < RankFrom(m, s, i, k, sh)

(* The places that the rules have, from the first of each rank on: as many *)
(* as there is memory sent to the channel.                                 *)
PlaceOf(m, s, i, k, x) ==
  [socket |-> m.sockets[s.d].src_id, imc |-> s.imc, channel |-> s.channel,
   dimm |-> Rir(m, s)[i].ilv[k].rank \div 4, rank |-> Rir(m, s)[i].ilv[k].rank % 4, rank_address |-> x]
RankPlaces(m, s, sh) ==
  UNION {UNION {{PlaceOf(m, s, i, k, x) : x \in RankFrom(m, s, i, k, sh) .. RankUpto(m, s, i, k, sh)} :
                  k \in Ilvs(m, s, i)} : i \in Valid(m, s)}
Filled(m, s) ==
  \A sh \in Shifts :
    /\ IsFiniteSet(RankPlaces(m, s, sh)) /\ Cardinality(RankPlaces(m, s, sh)) = Cardinality(Sent(m, s))
    /\ \A p \in RankPlaces(m, s, sh) : p.rank_address > 0 => Before(p) \in RankPlaces(m, s, sh)

Consistent(m) ==
  /\ Named(m) /\ Reached(m)
  /\ \A s \in Used(m) : InTurn(m, s) /\ TadFits(m, s) /\ RirFits(m, s) /\ Filled(m, s)

ASSUME FirmwareAssumption == \A m \in Machines : ~m.adxl => Consistent(m)
=============================================================================
