----------------------------- MODULE MCSbDecode -----------------------------
(***************************************************************************)
(* Machines for SbDecode, with the bit positions scaled down: a chunk of   *)
(* 128 lines stands for 512 MiB and is a unit of all limits, so a line     *)
(* counts for 4 MiB; XOR bits 4 to 6, hash pairs at 4 and 6, pages open    *)
(* at 5, the hole below 4 GiB up to line 512, and the int that an index    *)
(* is goes up to 1023.                                                     *)
(***************************************************************************)
EXTENDS SbFirmware, TLC

Pairs == {4, 6}

-----------------------------------------------------------------------------
\* DIMMs of 2^(ranks + rows + cols) * 256 MiB, or twice that as DDR4.
Dimm(ranks, rows, cols) == [present |-> TRUE, ranks |-> ranks, rows |-> rows, cols |-> cols]
Empty == [present |-> FALSE, ranks |-> 0, rows |-> 0, cols |-> 0]
One(d)        == [s \in 0 .. 2 |-> IF s = 0 THEN d ELSE Empty]
Three(a, b, c) == [s \in 0 .. 2 |-> CASE s = 0 -> a [] s = 1 -> b [] s = 2 -> c]

\* RIR rules: the limit and the ranks by turns.
Invalid == [valid |-> FALSE, limit |-> 0, ways |-> 1, rank |-> [k \in {0} |-> 0]]
Ranks(limit, ranks) ==
  [valid |-> TRUE, limit |-> limit, ways |-> Len(ranks), rank |-> [k \in 0 .. Len(ranks) - 1 |-> ranks[k + 1]]]
ChannelWith(slot, offset, rir) == [slot |-> slot, offset |-> offset, rir |-> rir]

TadRule(limit, sock_way, tgt) ==
  [limit |-> limit, sock_way |-> sock_way, ch_way |-> Len(tgt),
   tgt |-> [k \in 0 .. Len(tgt) - 1 |-> tgt[k + 1]]]
Controller(node, dom, tad, chans, channel) ==
  [node |-> node, dom |-> dom, hash |-> FALSE, range |-> FALSE, mirror |-> FALSE, ecc |-> TRUE,
   lockstep |-> FALSE, close_pg |-> TRUE, tad |-> tad, chan |-> [ch \in chans |-> channel]]

SadEntry(enable, limit, mode, a7, pkg(_)) ==
  [enable |-> enable, limit |-> limit, interleave_mode |-> mode, a7mode |-> a7,
   pkgs |-> [k \in 0 .. 7 |-> pkg(k)]]
Machine(type, tolm, tohm, sad, ctl) ==
  [type |-> type, ddr4 |-> FALSE, ddrio |-> TRUE, shiftup |-> 0, tolm |-> tolm, tohm |-> tohm,
   sad |-> sad, ctl |-> ctl]

-----------------------------------------------------------------------------
Chans == 0 .. 3
NoHole(type, chunks, sad, ctl) == Machine(type, 511, chunks * 128 - 1, sad, ctl)
OneRank == << Invalid, Ranks(0, <<0>>) >>
Small   == ChannelWith(One(Dimm(0, 1, 0)), <<0>>, OneRank)   \* 512 MiB
Small4  == ChannelWith(One(Dimm(0, 1, 0)), <<0>>, << Ranks(1, <<0>>) >>)   \* 1 GiB of DDR4

\* Four channels of two ranks, with a hole; XOR of bits 18 to 16.
SnbHole ==
  Machine("SANDY_BRIDGE", 255, 1279, << SadEntry(TRUE, 9, 1, FALSE, LAMBDA k : 0) >>,
    << Controller(0, 0, << TadRule(1, 0, <<0, 1, 2, 3>>), TadRule(9, 0, <<0, 1, 2, 3>>) >>, Chans,
                  ChannelWith(One(Dimm(1, 1, 0)), <<0, 2>>, << Ranks(1, <<0, 1>>) >>)) >>)

\* Two and four sockets by turns.
SnbTwo ==
  NoHole("SANDY_BRIDGE", 4, << SadEntry(TRUE, 3, 1, FALSE, LAMBDA k : k % 2) >>,
    [c \in 1 .. 2 |-> Controller(c - 1, 0, << TadRule(3, 1, <<0, 1>>) >>, {0, 1}, Small)])
SnbFour ==
  NoHole("SANDY_BRIDGE", 4, << SadEntry(TRUE, 3, 0, FALSE, LAMBDA k : k % 4) >>,
    [c \in 1 .. 4 |-> Controller(c - 1, 0, << TadRule(3, 2, <<1>>) >>, {1}, Small)])

\* Three channels below two sockets, the bits as they are and exclusive-ored.
SnbSix(mode) ==
  NoHole("SANDY_BRIDGE", 6, << SadEntry(TRUE, 5, mode, FALSE, LAMBDA k : k % 2) >>,
    [c \in 1 .. 2 |-> Controller(c - 1, 0, << TadRule(5, 1, <<0, 1, 2>>) >>, 0 .. 2, Small)])

\* Two sockets one after the other, three channels each, a rule out of use.
SnbNuma ==
  NoHole("SANDY_BRIDGE", 6,
    << SadEntry(TRUE, 2, 0, FALSE, LAMBDA k : 0), SadEntry(FALSE, 1, 0, FALSE, LAMBDA k : 1),
       SadEntry(TRUE, 5, 0, FALSE, LAMBDA k : 1) >>,
    [c \in 1 .. 2 |-> Controller(c - 1, 0, << TadRule(3 * c - 1, 0, <<0, 1, 2>>) >>, 0 .. 2,
                                [Small EXCEPT !.offset = <<3 * c - 3>>])])

\* More lines than an int has numbers: over three channels, two of which
\* get the lines refused that make negative indices, and in one channel of
\* two ranks.
SnbWide(chunks, tgt, channel) ==
  NoHole("SANDY_BRIDGE", chunks, << SadEntry(TRUE, chunks - 1, 0, FALSE, LAMBDA k : 0) >>,
    << Controller(0, 0, << TadRule(chunks - 1, 0, tgt) >>, Range(tgt), channel) >>)
SnbWideThree == SnbWide(12, <<0, 1, 2>>, ChannelWith(One(Dimm(1, 2, 0)), <<0>>, << Ranks(3, <<0, 1>>) >>))
SnbWideRanks == SnbWide(16, <<1>>, ChannelWith(One(Dimm(2, 3, 0)), <<0>>, << Ranks(15, <<0, 1>>) >>))

\* Two home agents by turns; lockstep.
IvbTwo ==
  NoHole("IVY_BRIDGE", 4, << SadEntry(TRUE, 3, 0, FALSE, LAMBDA k : 4 * (k % 2)) >>,
    [c \in 1 .. 2 |-> Controller(0, c - 1, << TadRule(3, 1, <<2, 3>>) >>, {2, 3}, Small)])
IvbLockstep ==
  NoHole("IVY_BRIDGE", 4, << SadEntry(TRUE, 3, 0, FALSE, LAMBDA k : 0) >>,
    << [Controller(0, 0, << TadRule(3, 0, <<0, 2>>) >>, Chans, [Small EXCEPT !.rir = << Ranks(1, <<0>>) >>])
          EXCEPT !.lockstep = TRUE] >>)

\* Two sockets of DDR4 with hashed channels; two home agents in A7 mode.
HswHash ==
  [NoHole("HASWELL", 16, << SadEntry(TRUE, 15, 0, FALSE, LAMBDA k : k % 2) >>,
     [c \in 1 .. 2 |-> [Controller(c - 1, 0, << TadRule(15, 1, <<0, 1, 2, 3>>) >>, Chans, Small4) EXCEPT !.hash = TRUE]])
   EXCEPT !.ddr4 = TRUE]
HswA7 ==
  [NoHole("HASWELL", 8, << SadEntry(TRUE, 7, 0, TRUE, LAMBDA k : 4 * ((k \div 2) % 2)) >>,
     [c \in 1 .. 2 |-> Controller(0, c - 1, << TadRule(7, 1, <<0, 1>>) >>, {0, 1}, Small4)])
   EXCEPT !.ddr4 = TRUE, !.shiftup = 1]

\* Mirrored, over four and over two channels, and in the first range only.
Bdw(chunks, tad, channel) ==
  NoHole("BROADWELL", chunks, << SadEntry(TRUE, chunks - 1, 1, FALSE, LAMBDA k : 0) >>,
         << Controller(0, 0, tad, Chans, channel) >>)
Full(m) == [m EXCEPT !.ctl[1].mirror = TRUE]
BdwMirror4 == Full(Bdw(2, << TadRule(1, 0, <<0, 1, 2, 3>>) >>, Small))
BdwMirror2 ==
  LET m == Full(Bdw(1, << TadRule(0, 0, <<0, 2>>) >>, Small))
  IN  [m EXCEPT !.ctl[1].chan = [ch \in {0, 2} |-> Small]]
BdwMirror3 == Full(Bdw(1, << TadRule(0, 0, <<0, 1, 2>>) >>, Small))   \* refused
BdwRange ==
  [Bdw(3, << TadRule(0, 0, <<0, 1, 2, 3>>), TadRule(2, 0, <<0, 1, 2, 3>>) >>,
       ChannelWith(One(Dimm(1, 1, 0)), <<0, 0>>, << Ranks(1, <<0, 1>>) >>))
     EXCEPT !.ctl[1].range = TRUE]

\* Three slots: four ranks by turns on open pages, a fifth alone.
BdwRanks ==
  LET m == Bdw(10, << TadRule(9, 0, <<0, 1>>) >>,
               ChannelWith(Three(Dimm(1, 1, 0), Dimm(1, 1, 0), Dimm(0, 1, 0)), <<0>>,
                       << Invalid, Ranks(3, <<0, 4, 1, 5>>), Ranks(4, <<8>>) >>))
  IN  [m EXCEPT !.ctl[1].close_pg = FALSE, !.ctl[1].chan = [ch \in {0, 1} |-> m.ctl[1].chan[ch]]]

\* DDR4 that the driver cannot tell; a field out of range; no ECC.
NoDdrio == [HswA7 EXCEPT !.ddrio = FALSE]
BadRanks == [SnbTwo EXCEPT !.ctl[2].chan[0] = [Small EXCEPT !.slot[0].ranks = 3]]
NoEcc    == [SnbTwo EXCEPT !.ctl[2].ecc = FALSE]

-----------------------------------------------------------------------------
\* Knights Landing.  Packages have bit 3 set if they are local.
KnlRule(enable, limit, mod3, edram, pkg(_)) ==
  [enable |-> enable, limit |-> limit, mod3 |-> mod3, edram |-> edram, pkgs |-> [k \in 0 .. 7 |-> pkg(k)]]
KnlTad(limit, offset) == [limit |-> limit, offset |-> offset]
KnlMachine(tolm, tohm, sad, tad0, tad1) ==
  [Machine("KNIGHTS_LANDING", tolm, tohm, sad, << Controller(0, 0, <<>>, 0 .. 5, Small) >>) EXCEPT !.ddr4 = TRUE]
    @@ [tad |-> [mc \in 0 .. 1 |-> IF mc = 0 THEN tad0 ELSE tad1],
        route |-> {[k \in 0 .. 5 |-> [mc |-> k \div 3, chan |-> k % 3]],
                   [k \in 0 .. 5 |-> [mc |-> k % 2, chan |-> k \div 2]]}]
OverSix(k) == 8 + (k % 6)

\* All channels, with a hole, and EDRAM behind; then three channels alone.
KnlHole ==
  LET tad == << KnlTad(255, 0), KnlTad(1023, 256) >>
  IN  KnlMachine(255, 1279, << KnlRule(TRUE, 7, FALSE, FALSE, OverSix), KnlRule(TRUE, 9, FALSE, TRUE, LAMBDA k : 8),
                               KnlRule(FALSE, 12, FALSE, FALSE, LAMBDA k : 8) >>, tad, tad)
KnlThree ==
  KnlMachine(511, 1151, << KnlRule(TRUE, 5, FALSE, FALSE, OverSix), KnlRule(TRUE, 8, TRUE, FALSE, LAMBDA k : 8) >>,
             << KnlTad(767, 0) >>, << KnlTad(767, 0), KnlTad(1151, 0) >>)
KnlRemote == [KnlThree EXCEPT !.sad[2].pkgs[1] = 3]

AllMachines ==
  {SnbHole, SnbTwo, SnbFour, SnbSix(0), SnbSix(1), SnbNuma, SnbWideThree, SnbWideRanks, IvbTwo, IvbLockstep, HswHash, HswA7, BdwMirror4, BdwMirror2, BdwMirror3,
   BdwRange, BdwRanks, NoDdrio, BadRanks, NoEcc, KnlHole, KnlThree, KnlRemote}

\* Lines at the ends of ranges and some between, reported by any agent and
\* channel; some reports of no agent, channel or socket there is.
SomeLines(m) ==
  {0, 7, 90, 127, 128, 200, 255, 300, 383, 384, 600, m.tohm - 64, m.tohm - 63, m.tohm, m.tohm + 1,
   1023, 1024, 1025, 1300}
Report(a, page, bank, channel, socket) ==
  [addr |-> a, page |-> page, bank |-> bank, channel |-> channel, socket |-> socket]
SomeErrors(m) ==
  {Report(a, page, bank, channel, m.ctl[c].node) :
     a \in SomeLines(m), page \in BOOLEAN, bank \in {7, 14}, channel \in Chans, c \in DOMAIN m.ctl}
  \cup {Report(90, page, 5, 1, 0) : page \in BOOLEAN}
  \cup {Report(90, page, 7, ch, 0) : page \in BOOLEAN, ch \in {9, 14, 15}}
  \cup {Report(90, page, bank, 1, s) : page \in BOOLEAN, bank \in {9, 15, 16}, s \in {0, 3}}
=============================================================================
