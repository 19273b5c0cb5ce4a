------------------------------ MODULE SkxDimm ------------------------------
(***************************************************************************)
(* What the Skylake driver learns of the DIMMs of its channels             *)
(* (skx_get_dimm_config() of skx_base.c, skx_get_dimm_info() and           *)
(* skx_get_nvdimm_info() of skx_common.c), and the last step of the        *)
(* decoder, which makes row, column and bank of an address within a rank   *)
(* from it (skx_mad_decode() of skx_base.c).                               *)
(*                                                                         *)
(* Registers are records of their fields.  An address within a rank is the *)
(* set of its bits that are one, row, column and banks are sets of bits as *)
(* well: with up to 34 bits the tables keep their real positions.          *)
(***************************************************************************)
EXTENDS Integers, Sequences, FiniteSets

NumImc      == 2
NumChannels == 3
NumDimms    == 2
Imcs  == 0 .. NumImc - 1
Chans == 0 .. NumChannels - 1
Slots == 0 .. NumDimms - 1

VARIABLES
  machine,   \* the registers of its sockets, see below
  phase,     \* "config", then "live" or "failed"
  at,        \* the number of the next channel to look at
  dimms,     \* chan[].dimms[], by socket, controller, channel, slot
  size,      \* dimm_info: the size of each in MiB
  nvdimm     \* nvdimm_count is not 0

dimmVars == <<machine, phase, at, dimms, size, nvdimm>>

(* machine.sockets[d].imc[i] has the mcmtr of its first channel and its    *)
(* channels, a channel its slots, a slot what MTR and MCDDRTCFG say is in  *)
(* it ("ddr4", "nvdimm", "none"), the three size fields of MTR, and the    *)
(* size that firmware has for an NVDIMM.                                   *)
Sockets == DOMAIN machine.sockets
Imc(d, i)     == machine.sockets[d].imc[i]
Chan(d, i, c) == Imc(d, i).chan[c]
Places        == Sockets \X Imcs \X Chans \X Slots
SlotAt(p)     == Chan(p[1], p[2], p[3]).slot[p[4]]

(* A structure fresh from kzalloc().                                       *)
Blank == [close_pg |-> FALSE, bank_xor_enable |-> FALSE, fine_grain_bank |-> FALSE,
          rowbits |-> 0, colbits |-> 0]

-----------------------------------------------------------------------------
(* skx_get_dimm_attr(): its error is used as a number like any other.      *)
EINVAL == 22
Attr(val, add, minval, maxval) == IF val \in minval .. maxval THEN val + add ELSE -EINVAL
U8Mutant(n) == n  \* int rowbits
U8(n) == n % 256

NumRank(mtr) == Attr(mtr.ranks, 0, 0, 2)
NumRow(mtr)  == Attr(mtr.rows, 12, 1, 6)
NumCol(mtr)  == Attr(mtr.cols, 10, 0, 2)

(* 16 banks of 8-byte words, in MiB; the shift drops what is less.  By a   *)
(* negative number, which the sum with an error may be, it gives anything. *)
Garbage == -1
SizeOf(mtr) ==
  LET bits == NumRow(mtr) + NumCol(mtr) + NumRank(mtr)
  IN  IF bits < 0 THEN Garbage ELSE IF bits + 4 < 17 THEN 0 ELSE 2 ^ (bits + 4 - 17)

DimmInfo(mtr, mcmtr, amap) ==
  [close_pg |-> mcmtr.close_pg, bank_xor_enable |-> mcmtr.bank_xor_enable,
   fine_grain_bank |-> amap.fine_grain_bank,
   rowbits |-> U8(NumRow(mtr)), colbits |-> U8(NumCol(mtr))]

(* The channel whose number is at, in the order of the loops over sockets, *)
(* controllers and channels.                                               *)
AtSocket == at \div (NumImc * NumChannels) + 1
AtImc    == (at \div NumChannels) % NumImc
AtChan   == at % NumChannels
Here     == {p \in Places : p[1] = AtSocket /\ p[2] = AtImc /\ p[3] = AtChan}
Kind(k)  == {p \in Here : SlotAt(p).kind = k}

(* One channel.  The size of an NVDIMM comes from firmware tables, which   *)
(* may not know it; then it does not count as a DIMM that needs ECC.       *)
ConfigChannel ==
  /\ phase = "config" /\ AtSocket \in Sockets
  /\ LET mcmtr == Imc(AtSocket, AtImc).mcmtr
         amap  == Chan(AtSocket, AtImc, AtChan).amap
     IN  \E sized \in SUBSET Kind("nvdimm") :
           /\ dimms' = [p \in Places |-> IF p \in Kind("ddr4")
                                           THEN DimmInfo(SlotAt(p), mcmtr, amap)
                                           ELSE dimms[p]]
           /\ size' = [p \in Places |-> IF p \in Kind("ddr4") THEN SizeOf(SlotAt(p))
                                        ELSE IF p \in sized THEN SlotAt(p).mib ELSE size[p]]
           /\ phase' = IF Kind("ddr4") \cup sized # {} /\ ~mcmtr.ecc
                         THEN "failed" ELSE "config"
  /\ nvdimm' = (nvdimm \/ Kind("nvdimm") # {})
  /\ at' = at + 1
  /\ UNCHANGED machine

ConfigDone ==
  /\ phase = "config" /\ AtSocket \notin Sockets
  /\ phase' = "live"
  /\ UNCHANGED <<machine, at, dimms, size, nvdimm>>

Config == ConfigChannel \/ ConfigDone

DimmInit ==
  /\ phase = "config"
  /\ at = 0
  /\ dimms = [p \in Places |-> Blank]
  /\ size = [p \in Places |-> 0]
  /\ nvdimm = FALSE

-----------------------------------------------------------------------------
(* skx_mad_decode().                                                       *)

CloseRowMutant ==  \* 19 for 20
  <<15, 16, 17, 18, 19, 21, 22, 28, 10, 11, 12, 13, 29, 30, 31, 32, 33>>
CloseRow    == <<15, 16, 17, 18, 20, 21, 22, 28, 10, 11, 12, 13, 29, 30, 31, 32, 33>>
CloseColumn == <<3, 4, 5, 14, 19, 23, 24, 25, 26, 27>>
OpenRow     == <<14, 15, 16, 20, 28, 21, 22, 23, 24, 25, 26, 27, 29, 30, 31, 32, 33>>
OpenColumn  == <<3, 4, 5, 6, 7, 8, 9, 10, 11, 12>>
FineColumn  == <<3, 4, 5, 7, 8, 9, 10, 11, 12, 13>>

(* Past the end of its table skx_bits() reads whatever is there; it is not *)
(* asked about here.                                                       *)
Bits(addr, nbits, bits) == {k \in 1 .. nbits : k \in DOMAIN bits /\ bits[k] \in addr}

(* Two bits of the address, perhaps xored with two others.                 *)
BankBits(addr, b, do_xor, x) == {k \in 1 .. 2 : (b[k] \in addr) # (do_xor /\ x[k] \in addr)}

MadDecode(dimm, addr) ==
  LET xor == dimm.bank_xor_enable
      bg0 == IF dimm.fine_grain_bank THEN 6 ELSE 13
  IN  IF dimm.close_pg
        THEN [row          |-> Bits(addr, dimm.rowbits, CloseRow),
              column       |-> Bits(addr, dimm.colbits, CloseColumn),
              bank_address |-> BankBits(addr, <<8, 9>>, xor, <<22, 28>>),
              bank_group   |-> BankBits(addr, <<6, 7>>, xor, <<20, 21>>)]
        ELSE [row          |-> Bits(addr, dimm.rowbits, OpenRow),
              column       |-> Bits(addr, dimm.colbits,
                                    IF dimm.fine_grain_bank THEN FineColumn ELSE OpenColumn),
              bank_address |-> BankBits(addr, <<18, 19>>, xor, <<22, 23>>),
              bank_group   |-> BankBits(addr, <<bg0, 17>>, xor, <<20, 21>>)]

-----------------------------------------------------------------------------
(* Properties.                                                             *)

DimmTypeOK ==
  /\ phase \in {"config", "live", "failed"}
  /\ at \in 0 .. NumImc * NumChannels * Cardinality(Sockets)
  /\ \A p \in Places : /\ dimms[p].rowbits \in 0 .. 255
                       /\ dimms[p].colbits \in 0 .. 255
                       /\ size[p] \in Nat \cup {Garbage}
  /\ nvdimm \in BOOLEAN

(* A DIMM whose fields are in range and whose rows and columns the tables  *)
(* have.                                                                   *)
InTables(p) ==
  /\ SlotAt(p).kind = "ddr4" /\ size[p] > 0
  /\ SlotAt(p).ranks \in 0 .. 2
  /\ dimms[p].rowbits <= Len(CloseRow) /\ dimms[p].colbits <= Len(CloseColumn)

(* The bits of an address within a rank, by the size the driver gave EDAC. *)
RankBits(p) ==
  3 .. (CHOOSE b \in 20 .. 60 : 2 ^ (b - 20) * 2 ^ SlotAt(p).ranks = size[p]) - 1

(* Row, column and banks tell all words of a rank apart, and no more than  *)
(* that: up to the size that skx_get_dimm_info() (skx_common.c:303)        *)
(* computes from the same fields no bit of the address is lost in          *)
(* skx_mad_decode(), not behind a xor either, and none above it is used.   *)
(* Two addresses collide just if the bits in which they differ decode as   *)
(* zero does, so one and two bits are compared with none.                  *)
Words(bits) == {{a, b} : a, b \in bits}
MadExact ==
  phase = "config" => \A p \in Places : InTables(p) =>
    /\ \A addr \in Words(RankBits(p)) : MadDecode(dimms[p], addr) # MadDecode(dimms[p], {})
    /\ \A b \in (3 .. 33) \ RankBits(p) : MadDecode(dimms[p], {b}) = MadDecode(dimms[p], {})
=============================================================================
