----------------------------- MODULE SkxDecode -----------------------------
(***************************************************************************)
(* The Skylake address decoder, skx_decode() of skx_base.c, and the path   *)
(* by which an address comes to it in this tree: a write to the debugfs    *)
(* file (debugfs_u64_set()), skx_mce_check_error() and                     *)
(* skx_mce_output_error() of skx_common.c, which report the place to EDAC. *)
(* Several writers may have the file open; what they share is in the       *)
(* module's static data.  Each write is a process of its own.              *)
(*                                                                         *)
(* The bit positions at which hardware interleaves are constants, so that  *)
(* TLC can go through all addresses of a small machine.  A stage of the    *)
(* decoder yields the set of its results, which is empty where the code    *)
(* returns false and has one member otherwise.                             *)
(***************************************************************************)
EXTENDS SkxDimm, FiniteSetsExt

CONSTANTS
  Machines,         \* machines: registers of sockets, tolm, tohm
  Granularity,      \* skx_granularity[]: <<6, 8, 12, 30>>
  ChunkBits,        \* 26, the unit of SAD and TAD rules
  RirChunkBits,     \* 29, the unit of RIR limits
  ClosePgShift,     \* 6
  OpenPgShift,      \* 13
  HoleBits,         \* 32: I/O space lies between tolm and 2^32
  Writes,           \* writes of the debugfs file
  Addresses(_, _),  \* the addresses of a write, on a machine
  adxl_component_count,  \* the values of a translation by firmware,
  component_indices,     \* which of them are the socket to the dimm,
  Absent(_, _)           \* and those that an address does not have, ~0

Components == 1 .. adxl_component_count
component_names == <<"socket", "imc", "channel", "dimm">>
Fields == {"socket", "imc", "channel", "dimm"}

ASSUME AdxlAssumption ==
  /\ adxl_component_count \in Nat /\ adxl_component_count >= Len(component_names)
  /\ component_indices \in [Fields -> Components]
ASSUME GranularityAssumption ==
  /\ Granularity \in Seq(Nat) /\ Len(Granularity) = 4
  /\ {ChunkBits, RirChunkBits, ClosePgShift, OpenPgShift} \subseteq Nat

(* The registers: every table is one of rules from the first on, a target  *)
(* on the node itself is one of the six logical channels, each of which    *)
(* the route table gives a controller and a channel, and fields are        *)
(* numbers of their width.                                                 *)
IsTable(t) == Len(t) \in Nat /\ DOMAIN t = 1 .. Len(t)
IsSad(sad) ==
  /\ {sad.interleave, sad.mod3mode, sad.mod3asmod2} \subseteq 0 .. 3
  /\ \A k \in 0 .. 7 : ~sad.ilv[k].remote => sad.ilv[k].target \in 0 .. 5
IsTad(tad) ==
  /\ {tad.skt_gran, tad.chn_gran} \subseteq 0 .. 3
  /\ {tad.sktways, tad.chanways} \subseteq Nat \ {0}
  /\ {tad.base, tad.limit} \subseteq Nat /\ \A c \in Chans : tad.offset[c] \in Nat
IsRir(rir) ==
  /\ rir.limit \in Nat /\ rir.ways \in Nat \ {0}
  /\ rir.valid => \A k \in 0 .. rir.ways - 1 : rir.ilv[k].rank \in 0 .. 15 /\ rir.ilv[k].offset \in Nat
IsChan(chan) ==
  /\ IsTable(chan.rir) /\ \A r \in DOMAIN chan.rir : IsRir(chan.rir[r])
  /\ \A s \in Slots : LET mtr == chan.slot[s] IN {mtr.ranks, mtr.rows, mtr.cols, mtr.mib} \subseteq Nat
IsImc(imc) ==
  /\ IsTable(imc.tad) /\ \A r \in DOMAIN imc.tad : IsTad(imc.tad[r])
  /\ \A c \in Chans : IsChan(imc.chan[c])
IsNode(node) ==
  /\ IsTable(node.sad) /\ \A r \in DOMAIN node.sad : IsSad(node.sad[r])
  /\ \A l \in 0 .. 5 : node.mcroute[l].imc \in Imcs /\ node.mcroute[l].channel \in Chans
  /\ \A i \in Imcs : IsImc(node.imc[i])
ASSUME MachinesAssumption ==
  \A m \in Machines :
    /\ m.tohm \in Nat /\ IsTable(m.sockets) /\ 1 \in DOMAIN m.sockets
    /\ \A d \in DOMAIN m.sockets : IsNode(m.sockets[d])
ASSUME AddressesAssumption ==
  \A w \in Writes, m \in Machines : Addresses(w, m) \subseteq Nat

VARIABLES
  pc,           \* pc[w]: where a write is, "idle" before and "done" after
  next,         \* the next component, field or piece of the loop it is in
  len,          \* the pieces it has put into adxl_msg
  addr,         \* the address written
  res,          \* struct decoded_addr on the stack
  adxl_values,  \* by component: the address whose value it holds
  adxl_msg,     \* text, by piece: a component and an address, or its end
  skx_msg,      \* text
  report,       \* what it handed to edac_mc_handle_error()
  met           \* the writes that ran between its begin and its end (history)

shared == <<adxl_values, adxl_msg, skx_msg>>
locals == <<pc, next, len, addr, res, shared, report, met>>
vars   == <<dimmVars, locals>>

Gran(g)             == Granularity[g + 1]
Field(v, lo, width) == (v \div 2 ^ lo) % 2 ^ width
Limit(n, bits)      == (n + 1) * 2 ^ bits - 1
First(S)            == {i \in S : \A k \in S : i <= k}

-----------------------------------------------------------------------------
(* skx_sad_decode().                                                       *)

InRange(m, a) == a < m.tohm /\ (a >= m.tolm => a >= 2 ^ HoleBits)

(* The first enabled rule of socket d from behind the rule before it, be   *)
(* that enabled or not, to its limit.                                      *)
Sad(m, d) == m.sockets[d].sad
SadRules(m, d, a) ==
  First({i \in DOMAIN Sad(m, d) :
           /\ Sad(m, d)[i].enable
           /\ i > 1 => a > Limit(Sad(m, d)[i - 1].limit, ChunkBits)
           /\ a <= Limit(Sad(m, d)[i].limit, ChunkBits)})

(* The entry of its interleave list that three bits of the address choose. *)
Targets(m, d, a) ==
  {[d |-> d, sad |-> Sad(m, d)[i], tgt |-> Sad(m, d)[i].ilv[Field(a, Gran(Sad(m, d)[i].interleave), 3)]] :
     i \in SadRules(m, d, a)}

(* A target on another node is looked up again there, once.                *)
NodeOf(m, id) == First({d \in DOMAIN m.sockets : m.sockets[d].src_id = id})
Local(m, a) ==
  LET here   == Targets(m, 1, a)
      remote == {t \in here : t.tgt.remote}
      there  == UNION {Targets(m, d, a) : d \in UNION {NodeOf(m, t.tgt.target) : t \in remote}}
  IN  {t \in here \cup there : ~t.tgt.remote}

(* The logical channel: the target itself, or two or three of them taken   *)
(* in turn.                                                                *)
Mod3(sad, a) ==
  LET n == a \div 2 ^ Gran(sad.mod3mode)
  IN  CASE sad.mod3asmod2 = 0 -> n % 3
        [] sad.mod3asmod2 = 1 -> n % 2
        [] sad.mod3asmod2 = 2 -> 2 * (n % 2) + (1 - (n % 2))
        [] sad.mod3asmod2 = 3 -> 2 * (n % 2)
LChan(t, a) ==
  IF t.sad.mod3 THEN 2 * Mod3(t.sad, a) + (t.tgt.target % 2) ELSE t.tgt.target

Route(m, t, a) == m.sockets[t.d].mcroute[LChan(t, a)]
SadDecode(m, a) ==
  {[d |-> t.d, imc |-> Route(m, t, a).imc, channel |-> Route(m, t, a).channel] :
     t \in {x \in Local(m, a) : InRange(m, a) /\ (x.sad.mod3 => x.sad.mod3mode < 3)}}

-----------------------------------------------------------------------------
(* skx_tad_decode(): takes socket and channel interleaving out.            *)

(* skx_do_interleave().                                                    *)
Interleave(a, shift, ways, lowbits) ==
  ((a \div 2 ^ shift) \div ways) * 2 ^ shift + (lowbits % 2 ^ shift)

ChannelFirst(tad, skt, chn) == tad.chanways = 3 /\ skt > chn
ChanAddrMutant(tad, channel, a) ==  \* always socket, then channel
  LET skt   == Gran(tad.skt_gran)
      chn   == Gran(tad.chn_gran)
      start == a - tad.offset[channel] * 2 ^ ChunkBits
  IN  Interleave(Interleave(start, skt, tad.sktways, a), chn, tad.chanways, a)
ChanAddr(tad, channel, a) ==
  LET skt   == Gran(tad.skt_gran)
      chn   == Gran(tad.chn_gran)
      start == a - tad.offset[channel] * 2 ^ ChunkBits
  IN  IF ChannelFirst(tad, skt, chn)
        THEN LET x == Interleave(start, chn, tad.chanways, start)
             IN  Interleave(x, skt, tad.sktways, x)
        ELSE Interleave(Interleave(start, skt, tad.sktways, a), chn, tad.chanways, a)

Tad(m, s) == m.sockets[s.d].imc[s.imc].tad
TadRules(m, s, a) ==
  First({i \in DOMAIN Tad(m, s) : /\ Tad(m, s)[i].base * 2 ^ ChunkBits <= a
                               /\ a <= Limit(Tad(m, s)[i].limit, ChunkBits)})
TadDecode(s, a) ==
  {[d |-> s.d, imc |-> s.imc, channel |-> s.channel,
    chan_addr |-> ChanAddr(Tad(machine, s)[i], s.channel, a)] : i \in TadRules(machine, s, a)}

-----------------------------------------------------------------------------
(* skx_rir_decode(): takes rank interleaving out.  The page mode is that   *)
(* of the channel's first slot, whatever is in it.                         *)

Rir(m, t) == m.sockets[t.d].imc[t.imc].chan[t.channel].rir
Shift(t)  == IF dimms[<<t.d, t.imc, t.channel, 0>>].close_pg THEN ClosePgShift ELSE OpenPgShift

RirRules(t) ==
  First({i \in DOMAIN Rir(machine, t) :
           /\ Rir(machine, t)[i].valid
           /\ i > 1 => t.chan_addr >= Limit(Rir(machine, t)[i - 1].limit, RirChunkBits)
           /\ t.chan_addr <= Limit(Rir(machine, t)[i].limit, RirChunkBits)})

RirDecode(t) ==
  {LET rule == Rir(machine, t)[i]
       ilv  == rule.ilv[(t.chan_addr \div 2 ^ Shift(t)) % rule.ways]
   IN  [socket |-> machine.sockets[t.d].src_id, imc |-> t.imc, channel |-> t.channel,
        dimm |-> ilv.rank \div 4, rank |-> ilv.rank % 4,
        rank_address |-> Interleave(t.chan_addr, Shift(t), rule.ways, t.chan_addr)
                           - ilv.offset * 2 ^ ChunkBits] :
     i \in RirRules(t)}

(* skx_decode(), up to skx_mad_decode() of SkxDimm, which cannot fail.     *)
Decode(a) == UNION {RirDecode(t) : t \in UNION {TadDecode(s, a) : s \in SadDecode(machine, a)}}

-----------------------------------------------------------------------------
(* A text is its pieces, then its end, then what is left of older ones:    *)
(* one piece of adxl_msg for a component, one of skx_msg for a piece of    *)
(* adxl_msg or for a field of res, the address in the rank for the row,    *)
(* column and bank that skx_mad_decode() makes of it.  MSG_SIZE is enough  *)
(* for all of them.                                                        *)
End     == <<>>
Cells   == 1 .. adxl_component_count + 1
NoText  == [j \in Cells |-> End]
Printed == <<"socket", "imc", "rank", "rank_address">>
Piece(p, j) == IF j \in DOMAIN Printed THEN <<Printed[j], p[Printed[j]]>> ELSE End

Unset == -1   \* zeros, of no address
Init ==
  /\ machine \in Machines
  /\ DimmInit
  /\ pc = [w \in Writes |-> "idle"]
  /\ next = [w \in Writes |-> 1]
  /\ len = [w \in Writes |-> 0]
  /\ addr = [w \in Writes |-> 0]
  /\ res = [w \in Writes |-> {}]
  /\ adxl_values = [j \in Components |-> Unset]
  /\ adxl_msg = NoText
  /\ skx_msg = NoText
  /\ report = [w \in Writes |-> [place |-> {}, msg |-> {}]]
  /\ met = [w \in Writes |-> {}]

Configure == Config /\ UNCHANGED locals

Goes(w, from, to) ==
  pc[w] = from /\ pc' = [pc EXCEPT ![w] = to] /\ next' = [next EXCEPT ![w] = 1]
(* One round of a loop that ends with the number last.                     *)
Round(w, from, again, last, to) ==
  IF next[w] = last THEN Goes(w, from, to)
  ELSE pc[w] = from /\ pc' = [pc EXCEPT ![w] = again] /\ next' = [next EXCEPT ![w] = @ + 1]

(* A write of the file makes a machine check of a memory read with an      *)
(* address, which passes the first tests of skx_mce_check_error().         *)
Inject(w) ==
  /\ phase = "live"
  /\ Goes(w, "idle", "check")
  /\ \E a \in Addresses(w, machine) : addr' = [addr EXCEPT ![w] = a]
  /\ LET others == {v \in Writes \ {w} : pc[v] \notin {"idle", "done"}}
     IN  met' = [v \in Writes |-> IF v = w THEN others ELSE IF v \in others THEN met[v] \cup {w} ELSE met[v]]
  /\ UNCHANGED <<dimmVars, len, res, shared, report>>

(* EDAC's reporting is switched off, by a parameter of its own.            *)
Disabled(w) ==
  /\ Goes(w, "check", "done")
  /\ UNCHANGED <<dimmVars, len, addr, res, shared, report, met>>

(* The translation is firmware's if there is one (adxl_component_count).   *)
(* adxl_decode() fills adxl_values; that a value is of the address is all  *)
(* that is said of it.                                                     *)
Translate(w) ==
  /\ machine.adxl /\ InRange(machine, addr[w])
  /\ Goes(w, "check", "fill")
  /\ res' = [res EXCEPT ![w] = {[f \in Fields |-> Unset]}]
  /\ UNCHANGED <<dimmVars, len, addr, shared, report, met>>
Fill(w) ==
  /\ Round(w, "fill", "fill", adxl_component_count, "take")
  /\ adxl_values' = [adxl_values EXCEPT ![next[w]] = addr[w]]
  /\ UNCHANGED <<dimmVars, len, addr, res, adxl_msg, skx_msg, report, met>>

(* skx_adxl_decode() takes socket to dimm out of adxl_values, one by one,  *)
(* and then makes text of all of them: it tests each and prints it.        *)
TakeValues(w) ==
  /\ Round(w, "take", "take", Len(component_names), "text")
  /\ LET field == component_names[next[w]]
     IN  res' = [res EXCEPT ![w] = {[p EXCEPT ![field] = adxl_values[component_indices[field]]] : p \in @}]
  /\ UNCHANGED <<dimmVars, len, addr, shared, report, met>>

SkipAbsent(w) ==
  /\ Absent(next[w], adxl_values[next[w]])
  /\ Round(w, "text", "text", adxl_component_count, "message")
  /\ UNCHANGED <<dimmVars, len, addr, res, shared, report, met>>
IsPresent(w) ==
  /\ pc[w] = "text" /\ ~Absent(next[w], adxl_values[next[w]])
  /\ pc' = [pc EXCEPT ![w] = "print"]
  /\ UNCHANGED <<dimmVars, next, len, addr, res, shared, report, met>>
MakeText(w) ==
  /\ Round(w, "print", "text", adxl_component_count, "message")
  /\ adxl_msg' = [adxl_msg EXCEPT ![len[w] + 1] = <<next[w], adxl_values[next[w]]>>, ![len[w] + 2] = End]
  /\ len' = [len EXCEPT ![w] = @ + 1]
  /\ UNCHANGED <<dimmVars, addr, res, adxl_values, skx_msg, report, met>>

(* Out of range, not translated, or for a controller the list has not, as  *)
(* when the socket is absent.  An absent controller, -1, indexes before    *)
(* imc[], and what is there may go for one.                                *)
HasMci(p) == machine.adxl => ~Absent(component_indices["socket"], p["socket"])
NotTranslated(w) ==
  /\ machine.adxl /\ next[w] = 1
  /\ \E from \in {"check", "message"} : Goes(w, from, "done")
  /\ UNCHANGED <<dimmVars, len, addr, res, shared, report, met>>

DecodedMutant(w) ==  \* res is static
  /\ ~machine.adxl
  /\ Goes(w, "check", IF Decode(addr[w]) = {} THEN "done" ELSE "message")
  /\ res' = [v \in Writes |-> Decode(addr[w])]
  /\ UNCHANGED <<dimmVars, len, addr, shared, report, met>>
Decoded(w) ==
  /\ ~machine.adxl
  /\ Goes(w, "check", IF Decode(addr[w]) = {} THEN "done" ELSE "message")
  /\ res' = [res EXCEPT ![w] = Decode(addr[w])]
  /\ UNCHANGED <<dimmVars, len, addr, shared, report, met>>

(* skx_mce_output_error(): the message, piece by piece, and then the       *)
(* report, for which it is read in the same way.                           *)
Message(w) ==
  /\ \E p \in res[w] :
       LET piece == IF machine.adxl THEN adxl_msg[next[w]] ELSE Piece(p, next[w])
       IN  /\ HasMci(p)
           /\ Round(w, "message", "message", IF piece = End THEN next[w] ELSE 0, "report")
           /\ skx_msg' = [skx_msg EXCEPT ![next[w]] = piece]
  /\ UNCHANGED <<dimmVars, len, addr, res, adxl_values, adxl_msg, report, met>>

Report(w) ==
  /\ LET piece == skx_msg[next[w]]
     IN  /\ Round(w, "report", "report", IF piece = End THEN next[w] ELSE 0, "done")
         /\ report' = IF piece = End THEN [report EXCEPT ![w].place = res[w]]
                      ELSE [report EXCEPT ![w].msg = @ \cup {piece}]
  /\ UNCHANGED <<dimmVars, len, addr, res, shared, met>>

Next ==
  \/ Configure
  \/ \E w \in Writes :
       \/ Inject(w) \/ Disabled(w) \/ Translate(w) \/ Fill(w) \/ TakeValues(w)
       \/ SkipAbsent(w) \/ IsPresent(w) \/ MakeText(w) \/ NotTranslated(w)
       \/ Decoded(w) \/ Message(w) \/ Report(w)

Spec == Init /\ [][Next]_vars

-----------------------------------------------------------------------------
(* Properties.                                                             *)

TypeOK ==
  /\ machine \in Machines
  /\ DimmTypeOK
  /\ pc \in [Writes -> {"idle", "check", "fill", "take", "text", "print", "message", "report", "done"}]
  /\ \A w \in Writes : /\ next[w] \in Cells /\ len[w] \in 0 .. adxl_component_count
                       /\ addr[w] \in Nat /\ Cardinality(res[w]) <= 1
  /\ adxl_values \in [Components -> Nat \cup {Unset}]
  /\ DOMAIN adxl_msg = Cells /\ DOMAIN skx_msg = Cells
  /\ met \in [Writes -> SUBSET Writes]

Reported(w) == report[w].place # {}
Memory(m)   == {a \in 0 .. m.tohm - 1 : InRange(m, a)}

(* The place that a write reports is that of no other address of memory,   *)
(* and the byte before it in its rank has an address too: SAD, TAD and RIR *)
(* stages together map memory onto the ranks of the machine, one to one    *)
(* and without gaps, however the registers interleave it over sockets,     *)
(* controllers, channels and ranks.  No address of memory is left without  *)
(* a place.                                                                *)
Before(p) == [p EXCEPT !.rank_address = @ - 1]
OneToOne ==
  ~machine.adxl => \A w \in Writes :
    /\ pc[w] = "check" /\ addr[w] \in Memory(machine) => Decode(addr[w]) # {}
    /\ Reported(w) =>
         /\ addr[w] \in Memory(machine)
         /\ \A p \in report[w].place :
              /\ \A a \in Memory(machine) \ {addr[w]} : p \notin Decode(a)
              /\ p.rank_address > 0 => \E a \in Memory(machine) : Before(p) \in Decode(a)

(* Nothing of the decoder is shared: whoever writes meanwhile, its report  *)
(* has the place of the address written.  Of a translation each part may   *)
(* be of a different address, as adxl_values is read one by one and by     *)
(* nobody's leave, but only of the write's own or of one that ran at the   *)
(* same time.  And the message, which all writes make in the same two      *)
(* buffers, is whole and of the address written if no other one ran then.  *)
OwnText(w) ==
  IF machine.adxl THEN {<<j, addr[w]>> : j \in {x \in Components : ~Absent(x, addr[w])}}
  ELSE {Piece(p, j) : p \in Decode(addr[w]), j \in DOMAIN Printed}
OwnPlace ==
  \A w \in Writes : Reported(w) =>
    /\ IF machine.adxl
         THEN \A p \in report[w].place, f \in Fields : p[f] \in {addr[v] : v \in {w} \cup met[w]}
         ELSE report[w].place = Decode(addr[w])
    /\ met[w] = {} => report[w].msg = OwnText(w)
=============================================================================
