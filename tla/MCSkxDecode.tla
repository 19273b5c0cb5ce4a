---------------------------- MODULE MCSkxDecode ----------------------------
(***************************************************************************)
(* Machines for SkxDecode, with the bit positions scaled down so that      *)
(* memory has some hundred addresses: interleaving at bits 1, 2, 3 and 5,  *)
(* chunks of 16, I/O space up to 64, pages closed at bit 1 and open at 2.  *)
(***************************************************************************)
EXTENDS SkxFirmware, TLC

Scaled == <<1, 2, 3, 5>>

-----------------------------------------------------------------------------
\* DIMMs.  A channel has slots, rank rules and an amap, a controller an
\* mcmtr, its channels and its TAD rules.
Ddr4(ranks, rows, cols) == [kind |-> "ddr4", ranks |-> ranks, rows |-> rows, cols |-> cols, mib |-> 0]
Nvdimm == [Ddr4(0, 0, 0) EXCEPT !.kind = "nvdimm", !.mib = 2 ^ 17]
Empty  == [Nvdimm EXCEPT !.kind = "none"]
Slots2(a, b) == [s \in Slots |-> IF s = 0 THEN a ELSE b]

\* One rule per limit: ways ranks, from rank number first, of which offset
\* chunks are at other rules.
RirRule(limit, ways, first, offset) ==
  [valid |-> TRUE, limit |-> limit, ways |-> ways,
   ilv |-> [k \in 0 .. ways - 1 |-> [rank |-> first + k, offset |-> offset]]]
Unused == [valid |-> FALSE, limit |-> 0, ways |-> 1, ilv |-> <<>>]

Channel(slots, fine, rir) == [slot |-> slots, amap |-> [fine_grain_bank |-> fine], rir |-> rir]
NoChannel == Channel(Slots2(Empty, Empty), FALSE, <<Unused>>)

Mcmtr(close, xor, ecc) == [close_pg |-> close, bank_xor_enable |-> xor, ecc |-> ecc]
Closed == Mcmtr(TRUE, TRUE, TRUE)
Open   == Mcmtr(FALSE, FALSE, TRUE)

TadRule(base, limit, skt, sktways, chn, chanways, offset) ==
  [base |-> base, limit |-> limit, skt_gran |-> skt, sktways |-> sktways,
   chn_gran |-> chn, chanways |-> chanways, offset |-> [c \in Chans |-> offset]]
Controller(mcmtr, channel, n, tad) ==
  [mcmtr |-> mcmtr, chan |-> [c \in Chans |-> IF c < n THEN channel ELSE NoChannel], tad |-> tad]
NoController == Controller(Open, NoChannel, 0, <<>>)

\* SAD rules: the limit, the granularity and the eight targets.
To(t)  == [remote |-> FALSE, target |-> t]
Via(n) == [remote |-> TRUE, target |-> n]
SadRule(limit, g, ilv(_)) ==
  [enable |-> TRUE, limit |-> limit, interleave |-> g, mod3 |-> FALSE, mod3mode |-> 0,
   mod3asmod2 |-> 0, ilv |-> [k \in 0 .. 7 |-> ilv(k)]]
Mod3Rule(limit, mode, asmod2, g, ilv(_)) ==
  [SadRule(limit, g, ilv) EXCEPT !.mod3 = TRUE, !.mod3mode = mode, !.mod3asmod2 = asmod2]

\* Logical channels of two controllers alternate, or are all of the first.
Alternating == [l \in 0 .. 5 |-> [imc |-> l % 2, channel |-> l \div 2]]
Alone       == [l \in 0 .. 5 |-> [imc |-> 0, channel |-> l \div 2]]

Node(src_id, mcroute, sad, imc0, imc1) ==
  [src_id |-> src_id, mcroute |-> mcroute, sad |-> sad, imc |-> [i \in Imcs |-> IF i = 0 THEN imc0 ELSE imc1]]
Machine(tolm, tohm, sockets) == [tolm |-> tolm, tohm |-> tohm, sockets |-> sockets, adxl |-> FALSE]

-----------------------------------------------------------------------------
\* One channel; two ranks alternate below, one is alone above; 64 addresses.
Single(slots, rir) ==
  Machine(48, 80,
    << Node(0, Alone, << SadRule(4, 0, LAMBDA k : To(0)) >>,
            Controller(Open, Channel(slots, TRUE, rir), 1,
                       << TadRule(0, 2, 0, 1, 0, 1, 0), TadRule(4, 4, 0, 1, 0, 1, 1) >>),
            NoController) >>)
OneChannel == Single(Slots2(Ddr4(1, 4, 0), Ddr4(0, 3, 0)), << RirRule(0, 2, 0, 0), RirRule(1, 1, 4, 2) >>)

\* Two controllers and two channels by turns, with closed pages.
TwoByTwo ==
  LET tad == << TadRule(0, 2, 0, 2, 0, 2, 0), TadRule(4, 8, 0, 2, 0, 2, 1) >>
      imc == Controller(Closed, Channel(Slots2(Ddr4(1, 1, 0), Empty), FALSE, << RirRule(0, 2, 0, 0) >>), 2, tad)
  IN  Machine(48, 144, << Node(0, Alternating, << SadRule(8, 0, LAMBDA k : To(k % 4)) >>, imc, imc) >>)

\* Three channels at the finer, two controllers at the coarser bit.
ThreeByTwo(closed) ==
  LET tad == << TadRule(0, 11, 1, 2, 0, 3, 0) >>
      imc == Controller(closed, Channel(Slots2(Ddr4(0, 5, 0), Empty), FALSE, << RirRule(0, 1, 0, 0) >>), 3, tad)
  IN  Machine(64, 192, << Node(0, Alternating, << Mod3Rule(11, 0, 0, 1, LAMBDA k : To(k % 2)) >>, imc, imc) >>)

\* Three channels of one controller; two of them used as two of three.
ThreeByOne ==
  Machine(64, 96,
    << Node(0, Alone, << Mod3Rule(5, 1, 0, 0, LAMBDA k : To(0)) >>,
            Controller(Open, Channel(Slots2(Ddr4(0, 2, 0), Empty), TRUE, << RirRule(0, 1, 0, 0) >>), 3,
                       << TadRule(0, 5, 0, 1, 1, 3, 0) >>), NoController) >>)
TwoOfThree(asmod2) ==
  Machine(64, 64,
    << Node(0, Alone, << Mod3Rule(3, 0, asmod2, 0, LAMBDA k : To(0)) >>,
            Controller(Open, Channel(Slots2(Ddr4(0, 2, 0), Empty), FALSE, << RirRule(0, 1, 0, 0) >>), 3,
                       << TadRule(0, 3, 0, 1, 0, 2, 0) >>), NoController) >>)

\* Two sockets, one after the other, and interleaved.
NodeMemory(tad) ==
  Controller(Closed, Channel(Slots2(Ddr4(0, 6, 0), Nvdimm), FALSE, << RirRule(0, 1, 0, 0), RirRule(1, 1, 0, 0) >>), 1, tad)
Numa ==
  LET ranges(l(_)) == << SadRule(3, 0, LAMBDA k : l(0)), SadRule(7, 0, LAMBDA k : l(1)) >>
  IN  Machine(64, 128,
        << Node(0, Alone, ranges(LAMBDA n : IF n = 0 THEN To(0) ELSE Via(1)),
                NodeMemory(<< TadRule(0, 3, 0, 1, 0, 1, 0) >>), NoController),
           Node(1, Alone, ranges(LAMBDA n : IF n = 1 THEN To(0) ELSE Via(0)),
                NodeMemory(<< TadRule(4, 7, 0, 1, 0, 1, 4) >>), NoController) >>)
Interleaved ==
  LET node(id) == Node(id, Alone, << SadRule(7, 2, LAMBDA k : IF k % 2 = id THEN To(0) ELSE Via(1 - id)) >>,
                       NodeMemory(<< TadRule(0, 7, 2, 2, 0, 1, 0) >>), NoController)
  IN  Machine(64, 128, << node(0), node(1) >>)

\* Translation by firmware; ECC is off, and a size field is out of range.
Translated == [Numa EXCEPT !.adxl = TRUE]
NoEcc ==
  [Single(Slots2(Ddr4(0, 0, 0), Empty), << RirRule(1, 1, 0, 0) >>)
     EXCEPT !.sockets[1].imc[0].mcmtr = Mcmtr(FALSE, FALSE, FALSE)]

AllMachines ==
  {OneChannel, TwoByTwo, ThreeByTwo(Open), ThreeByTwo(Closed), ThreeByOne, TwoOfThree(1), TwoOfThree(2), TwoOfThree(3),
   Numa, Interleaved, Translated, NoEcc}

\* One write of any address; a second one of a few, at any time, on two of
\* the machines.
SomeAddresses(w, m) ==
  IF m = Translated THEN (IF w = 1 THEN {17} ELSE {33})
  ELSE IF m = TwoByTwo THEN (IF w = 1 THEN {0, 17, 33, 50} ELSE {17, 33})
  ELSE IF w = 1 THEN 0 .. m.tohm ELSE {}

\* Firmware's translation has the DIMM before the channel, and no DIMM for
\* one of the addresses.
Indices == [f \in Fields |-> CASE f = "socket" -> 1 [] f = "imc" -> 2 [] f = "channel" -> 4 [] f = "dimm" -> 3]
IsAbsent(j, a) == j = 3 /\ a = 17
=============================================================================
