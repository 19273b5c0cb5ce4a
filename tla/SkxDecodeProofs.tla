-------------------------- MODULE SkxDecodeProofs --------------------------
(***************************************************************************)
(* Theorems about the Skylake address decoder, for every machine whose     *)
(* registers hold what their fields can: a write of the debugfs file is    *)
(* decoded to one place at most, and what it reports is the place of its   *)
(* own address, or, translated by firmware, made of parts of its own and   *)
(* of those written meanwhile.  If the registers describe a memory, as     *)
(* SkxFirmware says, then no other address has its place.                  *)
(***************************************************************************)
EXTENDS SkxFirmware, FiniteSetTheorems, SequenceTheorems, WellFoundedInduction, TLAPS

-----------------------------------------------------------------------------
(* Sets of one element at most.                                            *)

AtMostOne(S) == \A x, y \in S : x = y

LEMMA OneOrNone ==
  ASSUME NEW S, AtMostOne(S)
  PROVE  Cardinality(S) <= 1
<1>1. CASE S = {}
  BY <1>1, FS_EmptySet
<1>2. CASE S # {}
  <2>1. PICK x \in S : TRUE
    BY <1>2
  <2>2. S = {x}
    BY <2>1 DEF AtMostOne
  <2>3. Cardinality({x}) = 1
    BY FS_Singleton
  <2>. QED
    BY <2>2, <2>3
<1>. QED
  BY <1>1, <1>2

LEMMA FirstFacts ==
  ASSUME NEW S \in SUBSET Int
  PROVE  First(S) \subseteq S /\ AtMostOne(First(S))
BY DEF First, AtMostOne

LEMMA UnionOfOne ==
  ASSUME NEW S, AtMostOne(S), \A T \in S : AtMostOne(T)
  PROVE  AtMostOne(UNION S)
BY DEF AtMostOne

LEMMA SubsetOfOne ==
  ASSUME NEW S, AtMostOne(S), NEW T \in SUBSET S
  PROVE  AtMostOne(T)
BY DEF AtMostOne

LEMMA SubsetsOf ==
  ASSUME NEW n \in Nat
  PROVE  IsFiniteSet(SUBSET (1 .. n)) /\ Cardinality(SUBSET (1 .. n)) = 2 ^ n
<1>1. IsFiniteSet(1 .. n) /\ Cardinality(1 .. n) = n
  BY FS_Interval
<1>. QED
  BY <1>1, FS_SUBSET

LEMMA PowerOfTwo ==
  ASSUME NEW n \in Nat
  PROVE  2 ^ n \in Nat \ {0}
<1>1. SUBSET (1 .. n) # {}
  OBVIOUS
<1>. QED
  BY <1>1, SubsetsOf, FS_CardinalityType, FS_EmptySet

LEMMA GranFacts ==
  ASSUME NEW g \in 0 .. 3
  PROVE  Gran(g) \in Nat
<1>1. Granularity \in [1 .. 4 -> Nat]
  BY GranularityAssumption, LenProperties
<1>. QED
  BY <1>1 DEF Gran

(* Three bits of an address.                                               *)
LEMMA FieldFacts ==
  ASSUME NEW a \in Nat, NEW lo \in Nat
  PROVE  a \div 2 ^ lo \in Nat /\ Field(a, lo, 3) \in 0 .. 7
<1>1. 2 ^ lo \in Nat \ {0}
  BY PowerOfTwo
<1>2. \A p \in Nat \ {0} : a \div p \in Nat
  OBVIOUS
<1>3. a \div 2 ^ lo \in Nat
  BY <1>1, <1>2
<1>4. 2 ^ 3 = 8
  OBVIOUS
<1>5. \A x \in Nat : x % 8 \in 0 .. 7
  OBVIOUS
<1>. QED
  BY <1>3, <1>4, <1>5 DEF Field

-----------------------------------------------------------------------------
(* The stages of the decoder.                                              *)

LEMMA Registers ==
  ASSUME machine \in Machines
  PROVE  /\ machine.tohm \in Nat /\ IsTable(machine.sockets) /\ 1 \in DOMAIN machine.sockets
         /\ \A d \in DOMAIN machine.sockets :
              /\ IsNode(machine.sockets[d])
              /\ \A i \in Imcs : /\ IsImc(machine.sockets[d].imc[i])
                                 /\ \A c \in Chans : IsChan(machine.sockets[d].imc[i].chan[c])
<1>1. /\ machine.tohm \in Nat /\ IsTable(machine.sockets) /\ 1 \in DOMAIN machine.sockets
      /\ \A d \in DOMAIN machine.sockets : IsNode(machine.sockets[d])
  BY MachinesAssumption
<1>2. \A node : IsNode(node) => \A i \in Imcs : IsImc(node.imc[i])
  BY DEF IsNode
<1>3. \A imc : IsImc(imc) => \A c \in Chans : IsChan(imc.chan[c])
  BY DEF IsImc
<1>. QED
  BY <1>1, <1>2, <1>3, Zenon

LEMMA MachineFacts ==
  ASSUME machine \in Machines
  PROVE  /\ IsTable(machine.sockets) /\ 1 \in Sockets
         /\ \A d \in Sockets :
              /\ IsTable(Sad(machine, d))
              /\ \A r \in DOMAIN Sad(machine, d) :
                   /\ Sad(machine, d)[r].interleave \in 0 .. 3
                   /\ Sad(machine, d)[r].mod3mode \in 0 .. 3 /\ Sad(machine, d)[r].mod3asmod2 \in 0 .. 3
                   /\ \A k \in 0 .. 7 : ~Sad(machine, d)[r].ilv[k].remote => Sad(machine, d)[r].ilv[k].target \in 0 .. 5
              /\ \A l \in 0 .. 5 : /\ machine.sockets[d].mcroute[l].imc \in Imcs
                                   /\ machine.sockets[d].mcroute[l].channel \in Chans
              /\ \A i \in Imcs : /\ IsTable(Imc(d, i).tad)
                                 /\ \A c \in Chans : IsTable(Chan(d, i, c).rir)
<1>. SUFFICES ASSUME NEW d \in Sockets
              PROVE  /\ IsTable(Sad(machine, d))
                     /\ \A r \in DOMAIN Sad(machine, d) :
                          /\ Sad(machine, d)[r].interleave \in 0 .. 3
                          /\ Sad(machine, d)[r].mod3mode \in 0 .. 3 /\ Sad(machine, d)[r].mod3asmod2 \in 0 .. 3
                          /\ \A k \in 0 .. 7 : ~Sad(machine, d)[r].ilv[k].remote => Sad(machine, d)[r].ilv[k].target \in 0 .. 5
                     /\ \A l \in 0 .. 5 : /\ machine.sockets[d].mcroute[l].imc \in Imcs
                                          /\ machine.sockets[d].mcroute[l].channel \in Chans
                     /\ \A i \in Imcs : /\ IsTable(Imc(d, i).tad)
                                        /\ \A c \in Chans : IsTable(Chan(d, i, c).rir)
  BY Registers DEF Sockets
<1>1. d \in DOMAIN machine.sockets
  BY DEF Sockets
<1>2. IsTable(Sad(machine, d)) /\ \A r \in DOMAIN Sad(machine, d) : IsSad(Sad(machine, d)[r])
  BY <1>1, Registers DEF Sad, IsNode
<1>3. \A l \in 0 .. 5 : /\ machine.sockets[d].mcroute[l].imc \in Imcs
                        /\ machine.sockets[d].mcroute[l].channel \in Chans
  BY <1>1, Registers DEF IsNode
<1>4. \A i \in Imcs : IsTable(Imc(d, i).tad) /\ \A c \in Chans : IsTable(Chan(d, i, c).rir)
  BY <1>1, Registers DEF Imc, Chan, IsImc, IsChan
<1>. QED
  BY <1>2, <1>3, <1>4 DEF IsSad

LEMMA TableFacts ==
  ASSUME NEW t, IsTable(t)
  PROVE  DOMAIN t \in SUBSET Int
BY DEF IsTable

(* A stage finds one rule at most, and with it one result.                 *)
LEMMA TargetsFacts ==
  ASSUME machine \in Machines, NEW a \in Nat, NEW d \in Sockets
  PROVE  /\ AtMostOne(Targets(machine, d, a))
         /\ \A t \in Targets(machine, d, a) :
              /\ t.d = d /\ t.sad.mod3mode \in 0 .. 3 /\ t.sad.mod3asmod2 \in 0 .. 3
              /\ ~t.tgt.remote => t.tgt.target \in 0 .. 5
<1>1. DOMAIN Sad(machine, d) \in SUBSET Int
  BY MachineFacts, TableFacts
<1>2. SadRules(machine, d, a) \subseteq DOMAIN Sad(machine, d) /\ AtMostOne(SadRules(machine, d, a))
  <2>. DEFINE S == {i \in DOMAIN Sad(machine, d) :
                      /\ Sad(machine, d)[i].enable
                      /\ i > 1 => a > Limit(Sad(machine, d)[i - 1].limit, ChunkBits)
                      /\ a <= Limit(Sad(machine, d)[i].limit, ChunkBits)}
  <2>1. S \in SUBSET Int /\ S \subseteq DOMAIN Sad(machine, d)
    BY <1>1
  <2>2. SadRules(machine, d, a) = First(S)
    BY DEF SadRules
  <2>. HIDE DEF S
  <2>. QED
    BY <2>1, <2>2, FirstFacts
<1>3. AtMostOne(Targets(machine, d, a))
  BY <1>2 DEF AtMostOne, Targets
<1>4. ASSUME NEW t \in Targets(machine, d, a)
      PROVE  /\ t.d = d /\ t.sad.mod3mode \in 0 .. 3 /\ t.sad.mod3asmod2 \in 0 .. 3
             /\ ~t.tgt.remote => t.tgt.target \in 0 .. 5
  <2>1. PICK i \in SadRules(machine, d, a) :
          t = [d |-> d, sad |-> Sad(machine, d)[i], tgt |-> Sad(machine, d)[i].ilv[Field(a, Gran(Sad(machine, d)[i].interleave), 3)]]
    BY DEF Targets
  <2>2. i \in DOMAIN Sad(machine, d)
    BY <1>2
  <2>3. Field(a, Gran(Sad(machine, d)[i].interleave), 3) \in 0 .. 7
    BY <2>2, MachineFacts, GranFacts, FieldFacts
  <2>. QED
    BY <2>1, <2>2, <2>3, MachineFacts
<1>. QED
  BY <1>3, <1>4

LEMMA LocalFacts ==
  ASSUME machine \in Machines, NEW a \in Nat
  PROVE  /\ AtMostOne(Local(machine, a))
         /\ \A t \in Local(machine, a) :
              /\ t.d \in Sockets /\ t.sad.mod3mode \in 0 .. 3 /\ t.sad.mod3asmod2 \in 0 .. 3
              /\ t.tgt.target \in 0 .. 5
<1>. DEFINE here   == Targets(machine, 1, a)
            remote == {t \in here : t.tgt.remote}
            nodes  == UNION {NodeOf(machine, t.tgt.target) : t \in remote}
            there  == UNION {Targets(machine, d, a) : d \in nodes}
<1>1. Local(machine, a) = {t \in here \cup there : ~t.tgt.remote}
  BY DEF Local
<1>2. Sockets \in SUBSET Int
  BY MachineFacts, TableFacts DEF Sockets
<1>3. AtMostOne(here) /\ here \subseteq Targets(machine, 1, a)
  BY MachineFacts, TargetsFacts
<1>4. nodes \subseteq Sockets /\ AtMostOne(nodes)
  <2>1. ASSUME NEW id PROVE NodeOf(machine, id) \subseteq Sockets /\ AtMostOne(NodeOf(machine, id))
    <3>. DEFINE named == {d \in Sockets : machine.sockets[d].src_id = id}
    <3>1. named \in SUBSET Int /\ named \subseteq Sockets
      BY <1>2
    <3>2. NodeOf(machine, id) = First(named)
      BY DEF NodeOf, Sockets
    <3>. HIDE DEF named
    <3>. QED
      BY <3>1, <3>2, FirstFacts
  <2>2. AtMostOne({NodeOf(machine, t.tgt.target) : t \in remote})
    BY <1>3 DEF AtMostOne
  <2>. QED
    BY <2>1, <2>2, UnionOfOne
<1>5. AtMostOne(there)
  <2>1. AtMostOne({Targets(machine, d, a) : d \in nodes})
    BY <1>4 DEF AtMostOne
  <2>2. \A T \in {Targets(machine, d, a) : d \in nodes} : AtMostOne(T)
    BY <1>4, TargetsFacts
  <2>. QED
    BY <2>1, <2>2, UnionOfOne
<1>6. \A t \in there : \E d \in Sockets : t \in Targets(machine, d, a)
  BY <1>4
<1>7. there # {} => remote # {}
  OBVIOUS
<1>. HIDE DEF here, there, nodes
<1>8. AtMostOne(Local(machine, a))
  BY <1>1, <1>3, <1>5, <1>7 DEF AtMostOne
<1>9. \A t \in Local(machine, a) : ~t.tgt.remote /\ \E d \in Sockets : t \in Targets(machine, d, a)
  BY <1>1, <1>6, MachineFacts DEF here
<1>. QED
  BY <1>8, <1>9, TargetsFacts

LEMMA LChanFacts ==
  ASSUME NEW t, NEW a \in Nat, t.tgt.target \in 0 .. 5,
         t.sad.mod3 => t.sad.mod3mode \in 0 .. 3 /\ t.sad.mod3asmod2 \in 0 .. 3
  PROVE  LChan(t, a) \in 0 .. 5
<1>1. CASE ~t.sad.mod3
  BY <1>1 DEF LChan
<1>2. CASE t.sad.mod3
  <2>. DEFINE n == a \div 2 ^ Gran(t.sad.mod3mode)
  <2>1. n \in Nat
    BY <1>2, GranFacts, FieldFacts
  <2>2. Mod3(t.sad, a) = CASE t.sad.mod3asmod2 = 0 -> n % 3
                           [] t.sad.mod3asmod2 = 1 -> n % 2
                           [] t.sad.mod3asmod2 = 2 -> 2 * (n % 2) + (1 - (n % 2))
                           [] t.sad.mod3asmod2 = 3 -> 2 * (n % 2)
    BY DEF Mod3
  <2>. HIDE DEF n
  <2>3. n % 3 \in 0 .. 2 /\ n % 2 \in 0 .. 1 /\ t.tgt.target % 2 \in 0 .. 1
    BY <2>1
  <2>4. t.sad.mod3asmod2 \in {0, 1, 2, 3}
    BY <1>2
  <2>5. Mod3(t.sad, a) \in 0 .. 2
    BY <2>2, <2>3, <2>4
  <2>. QED
    BY <1>2, <2>3, <2>5 DEF LChan
<1>. QED
  BY <1>1, <1>2

LEMMA SadFacts ==
  ASSUME machine \in Machines, NEW a \in Nat
  PROVE  /\ AtMostOne(SadDecode(machine, a))
         /\ \A s \in SadDecode(machine, a) : s.d \in Sockets /\ s.imc \in Imcs /\ s.channel \in Chans
<1>. DEFINE L == {x \in Local(machine, a) : InRange(machine, a) /\ (x.sad.mod3 => x.sad.mod3mode < 3)}
            out(t) == [d |-> t.d, imc |-> Route(machine, t, a).imc, channel |-> Route(machine, t, a).channel]
<1>1. SadDecode(machine, a) = {out(t) : t \in L}
  BY DEF SadDecode
<1>2. AtMostOne(L) /\ L \subseteq Local(machine, a)
  BY LocalFacts, SubsetOfOne
<1>3. ASSUME NEW t \in L PROVE out(t).d \in Sockets /\ out(t).imc \in Imcs /\ out(t).channel \in Chans
  <2>1. t.d \in Sockets /\ LChan(t, a) \in 0 .. 5
    BY <1>2, LocalFacts, LChanFacts
  <2>. QED
    BY <2>1, MachineFacts DEF Route
<1>. HIDE DEF L
<1>4. AtMostOne(SadDecode(machine, a))
  BY <1>1, <1>2 DEF AtMostOne
<1>. HIDE DEF out
<1>. QED
  BY <1>1, <1>3, <1>4

LEMMA TadRulesFacts ==
  ASSUME machine \in Machines, NEW a, NEW s,
         s.d \in Sockets, s.imc \in Imcs, s.channel \in Chans
  PROVE  /\ AtMostOne(TadRules(machine, s, a))
         /\ \A i \in TadRules(machine, s, a) :
              /\ i \in DOMAIN Tad(machine, s)
              /\ Tad(machine, s)[i].base * 2 ^ ChunkBits <= a
              /\ a <= Limit(Tad(machine, s)[i].limit, ChunkBits)
<1>. DEFINE S == {i \in DOMAIN Tad(machine, s) : /\ Tad(machine, s)[i].base * 2 ^ ChunkBits <= a
                                                 /\ a <= Limit(Tad(machine, s)[i].limit, ChunkBits)}
<1>1. Tad(machine, s) = Imc(s.d, s.imc).tad
  BY DEF Tad, Imc
<1>2. S \in SUBSET Int
  BY <1>1, MachineFacts, TableFacts
<1>3. TadRules(machine, s, a) = First(S)
  BY DEF TadRules
<1>4. First(S) \subseteq S /\ AtMostOne(First(S))
  <2>. HIDE DEF S
  <2>. QED
    BY <1>2, FirstFacts
<1>. QED
  BY <1>3, <1>4

LEMMA TadFacts ==
  ASSUME machine \in Machines, NEW a, NEW s,
         s.d \in Sockets, s.imc \in Imcs, s.channel \in Chans
  PROVE  /\ AtMostOne(TadDecode(s, a))
         /\ \A t \in TadDecode(s, a) : t.d = s.d /\ t.imc = s.imc /\ t.channel = s.channel
BY TadRulesFacts DEF AtMostOne, TadDecode

LEMMA RirFacts ==
  ASSUME machine \in Machines, NEW t,
         t.d \in Sockets, t.imc \in Imcs, t.channel \in Chans
  PROVE  AtMostOne(RirDecode(t))
<1>. DEFINE S == {i \in DOMAIN Rir(machine, t) :
                    /\ Rir(machine, t)[i].valid
                    /\ i > 1 => t.chan_addr >= Limit(Rir(machine, t)[i - 1].limit, RirChunkBits)
                    /\ t.chan_addr <= Limit(Rir(machine, t)[i].limit, RirChunkBits)}
<1>1. S \in SUBSET Int
  <2>1. Rir(machine, t) = Chan(t.d, t.imc, t.channel).rir
    BY DEF Rir, Chan, Imc
  <2>. QED
    BY <2>1, MachineFacts, TableFacts
<1>2. RirRules(t) = First(S)
  BY DEF RirRules
<1>. HIDE DEF S
<1>3. AtMostOne(RirRules(t))
  BY <1>1, <1>2, FirstFacts
<1>. QED
  BY <1>3 DEF AtMostOne, RirDecode

(* An address is decoded to one place at most.                             *)
LEMMA DecodeFacts ==
  ASSUME machine \in Machines, NEW a \in Nat
  PROVE  AtMostOne(Decode(a))
<1>. DEFINE T == UNION {TadDecode(s, a) : s \in SadDecode(machine, a)}
<1>1. AtMostOne(T) /\ \A t \in T : t.d \in Sockets /\ t.imc \in Imcs /\ t.channel \in Chans
  <2>1. AtMostOne({TadDecode(s, a) : s \in SadDecode(machine, a)})
    BY SadFacts DEF AtMostOne
  <2>2. \A X \in {TadDecode(s, a) : s \in SadDecode(machine, a)} :
          /\ AtMostOne(X)
          /\ \A t \in X : t.d \in Sockets /\ t.imc \in Imcs /\ t.channel \in Chans
    BY SadFacts, TadFacts
  <2>. QED
    BY <2>1, <2>2, UnionOfOne
<1>2. Decode(a) = UNION {RirDecode(t) : t \in T}
  BY DEF Decode
<1>. HIDE DEF T
<1>3. AtMostOne({RirDecode(t) : t \in T})
  BY <1>1 DEF AtMostOne
<1>4. \A X \in {RirDecode(t) : t \in T} : AtMostOne(X)
  BY <1>1, RirFacts
<1>. QED
  BY <1>2, <1>3, <1>4, UnionOfOne

-----------------------------------------------------------------------------
(* The inductive invariant.                                                *)

DimmTypes ==
  /\ phase \in {"config", "live", "failed"}
  /\ at \in 0 .. NumImc * NumChannels * Len(machine.sockets)
  /\ DOMAIN dimms = Places /\ DOMAIN size = Places
  /\ \A p \in Places : /\ dimms[p].rowbits \in 0 .. 255
                       /\ dimms[p].colbits \in 0 .. 255
                       /\ size[p] \in Nat \cup {Garbage}
  /\ nvdimm \in BOOLEAN

Steps == {"idle", "check", "fill", "take", "text", "print", "message", "report", "done"}
Last  == adxl_component_count + 1
Types ==
  /\ machine \in Machines
  /\ DimmTypes
  /\ pc \in [Writes -> Steps]
  /\ next \in [Writes -> Cells]
  /\ len \in [Writes -> 0 .. adxl_component_count]
  /\ addr \in [Writes -> Nat]
  /\ DOMAIN res = Writes /\ \A w \in Writes : AtMostOne(res[w])
  /\ adxl_values \in [Components -> Nat \cup {Unset}]
  /\ DOMAIN adxl_msg = Cells /\ adxl_msg[Last] = End
  /\ DOMAIN skx_msg = Cells /\ skx_msg[Last] = End
  /\ DOMAIN report = Writes
  /\ \A w \in Writes : report[w] = [place |-> report[w].place, msg |-> report[w].msg]
  /\ met \in [Writes -> SUBSET Writes]

(* A loop stays within what it goes through.                               *)
Loops(w) ==
  /\ pc[w] \in {"fill", "text", "print"} => next[w] \in Components
  /\ pc[w] = "take" => next[w] \in 1 .. 4
  /\ pc[w] \in {"idle", "check", "fill", "take"} => len[w] = 0
  /\ pc[w] \in {"text", "print"} => len[w] < next[w]

(* There is a file to write when the DIMMs are known and stay as they are. *)
FileLast == phase # "live" => \A w \in Writes : pc[w] = "idle"

(* What a slot is known to hold: nothing yet, or what its registers say.   *)
DimmOf(p) == DimmInfo(SlotAt(p), Imc(p[1], p[2]).mcmtr, Chan(p[1], p[2], p[3]).amap)
Learnt(p) ==
  SlotAt(p).kind = "ddr4" =>
    \/ dimms[p] = Blank /\ size[p] = 0
    \/ dimms[p] = DimmOf(p) /\ size[p] = SizeOf(SlotAt(p))

(* Writes that run at the same time have met.                              *)
Running(w) == pc[w] \notin {"idle", "done"}
Meeting(v, w) ==
  /\ v # w /\ Running(v) /\ Running(w) => v \in met[w]
  /\ v \in met[w] => pc[v] # "idle"

(* A write has its own place, if the driver itself decodes, and reports it *)
(* at its end.                                                             *)
Private(w) ==
  /\ ~machine.adxl =>
       /\ pc[w] \notin {"fill", "take", "text", "print"}
       /\ pc[w] \in {"message", "report"} => res[w] = Decode(addr[w])
       /\ Reported(w) => report[w].place = Decode(addr[w])
  /\ Reported(w) => pc[w] = "done"
  /\ pc[w] \notin {"report", "done"} => report[w].msg = {}

(* If firmware does, what it finds in adxl_values is of a write that it    *)
(* has met or its own.                                                     *)
Seen(w) == {addr[v] : v \in {w} \cup met[w]}
PlaceSeen(w, places) == \A p \in places, f \in Fields : p[f] \in Seen(w)
Translation(w) ==
  machine.adxl =>
    /\ pc[w] = "fill" => \A i \in Components : i < next[w] => adxl_values[i] \in Seen(w)
    /\ pc[w] \in {"take", "text", "print"} => \A i \in Components : adxl_values[i] \in Seen(w)
    /\ pc[w] \in {"fill", "take"} => \A p \in res[w] : DOMAIN p = Fields
    /\ pc[w] = "take" =>
         \A p \in res[w], i \in 1 .. 4 : i < next[w] => p[component_names[i]] \in Seen(w)
    /\ pc[w] \in {"text", "print", "message", "report"} => PlaceSeen(w, res[w])
    /\ Reported(w) => PlaceSeen(w, report[w].place)

(* The texts of a write that has met no other one: pieces 1 to n are set S *)
(* of pieces, and in a text that is complete its end comes after them.     *)
Pieces(t, n)   == \A i \in 1 .. n : t[i] # End
Content(t, n)  == {t[i] : i \in 1 .. n}
Complete(t, S) == \E n \in 0 .. adxl_component_count :
                    t[n + 1] = End /\ Pieces(t, n) /\ Content(t, n) = S
Source(p)      == IF machine.adxl THEN adxl_msg ELSE [j \in Cells |-> Piece(p, j)]
Present(w, n)  == {<<j, addr[w]>> : j \in {x \in 1 .. n : ~Absent(x, addr[w])}}
Making(w) ==
  /\ Pieces(adxl_msg, len[w]) /\ Content(adxl_msg, len[w]) = Present(w, next[w] - 1)
  /\ len[w] > 0 => adxl_msg[len[w] + 1] = End
Undisturbed(w) ==
  /\ pc[w] \in {"text", "print"} => Making(w)
  /\ pc[w] = "print" => ~Absent(next[w], addr[w])
  /\ pc[w] = "message" =>
       /\ machine.adxl /\ OwnText(w) # {} => Complete(adxl_msg, OwnText(w))
       /\ \A p \in res[w] : \A i \in 1 .. next[w] - 1 : skx_msg[i] = Source(p)[i] /\ skx_msg[i] # End
  /\ pc[w] = "report" =>
       /\ Complete(skx_msg, OwnText(w))
       /\ Pieces(skx_msg, next[w] - 1) /\ report[w].msg = Content(skx_msg, next[w] - 1)
  /\ Reported(w) => report[w].msg = OwnText(w)

OfWrite(w) == Loops(w) /\ Private(w) /\ Translation(w) /\ (met[w] = {} => Undisturbed(w))
DecodeInv ==
  /\ Types /\ FileLast
  /\ \A p \in Places : Learnt(p)
  /\ \A v, w \in Writes : Meeting(v, w)
  /\ \A w \in Writes : OfWrite(w)

-----------------------------------------------------------------------------
(* The decoder depends on nothing but the registers and the DIMMs.         *)

LEMMA DecodeSame ==
  ASSUME UNCHANGED dimmVars, NEW a, NEW w, addr'[w] = a, addr[w] = a
  PROVE  Decode(addr[w])' = Decode(addr[w])
<1>. USE DEF dimmVars
<1>1. \A d : Targets(machine, d, a)' = Targets(machine, d, a)
  BY DEF Targets, SadRules, Sad
<1>2. \A id : NodeOf(machine, id)' = NodeOf(machine, id)
  BY DEF NodeOf, Sockets
<1>3. Local(machine, a)' = Local(machine, a)
  <2>. DEFINE here    == Targets(machine, 1, a)
              far     == {t \in here : t.tgt.remote}
              nodes   == UNION {NodeOf(machine, t.tgt.target) : t \in far}
              there   == UNION {Targets(machine, d, a) : d \in nodes}
  <2>1. here' = here /\ far' = far
    BY <1>1
  <2>2. nodes' = nodes
    BY <1>2, <2>1
  <2>3. there' = there
    BY <1>1, <2>2
  <2>4. Local(machine, a) = {t \in here \cup there : ~t.tgt.remote}
    BY DEF Local
  <2>5. Local(machine, a)' = {t \in here' \cup there' : ~t.tgt.remote}
    BY DEF Local
  <2>. QED
    BY <2>1, <2>3, <2>4, <2>5
<1>4. SadDecode(machine, a)' = SadDecode(machine, a)
  BY <1>3 DEF SadDecode, InRange, Route
<1>5. \A s : TadDecode(s, a)' = TadDecode(s, a)
  BY DEF TadDecode, Tad, Imc
<1>6. \A t : RirDecode(t)' = RirDecode(t)
  BY DEF RirDecode, Rir, RirRules, Shift, Chan, Imc
<1>7. Decode(a)' = Decode(a)
  BY <1>4, <1>5, <1>6, ZenonT(30) DEF Decode
<1>. QED
  BY <1>7 DEF Decode

LEMMA OwnSame ==
  ASSUME UNCHANGED dimmVars, NEW w, addr'[w] = addr[w]
  PROVE  Decode(addr[w])' = Decode(addr[w]) /\ OwnText(w)' = OwnText(w)
<1>1. Decode(addr[w])' = Decode(addr[w])
  BY DecodeSame
<1>. QED
  BY <1>1 DEF OwnText, dimmVars

-----------------------------------------------------------------------------
(* The DIMMs.                                                              *)

LEMMA SlotFacts ==
  ASSUME machine \in Machines, NEW p \in Places
  PROVE  /\ SlotAt(p).ranks \in Nat /\ SlotAt(p).rows \in Nat
         /\ SlotAt(p).cols \in Nat /\ SlotAt(p).mib \in Nat
<1>1. p[1] \in DOMAIN machine.sockets /\ p[2] \in Imcs /\ p[3] \in Chans /\ p[4] \in Slots
  BY DEF Places, Sockets
<1>. DEFINE chan == machine.sockets[p[1]].imc[p[2]].chan[p[3]]
<1>2. IsChan(chan) /\ SlotAt(p) = chan.slot[p[4]]
  BY <1>1, Registers DEF SlotAt, Chan, Imc
<1>. HIDE DEF chan
<1>. QED
  BY <1>1, <1>2 DEF IsChan

LEMMA InfoFacts ==
  ASSUME NEW mtr, NEW mcmtr, NEW amap, mtr.ranks \in Nat, mtr.rows \in Nat, mtr.cols \in Nat
  PROVE  /\ NumRow(mtr) \in Int /\ NumCol(mtr) \in Int /\ NumRank(mtr) \in Int
         /\ DimmInfo(mtr, mcmtr, amap).rowbits \in 0 .. 255
         /\ DimmInfo(mtr, mcmtr, amap).colbits \in 0 .. 255
         /\ SizeOf(mtr) \in Nat \cup {Garbage}
<1>1. NumRow(mtr) \in Int /\ NumCol(mtr) \in Int /\ NumRank(mtr) \in Int
  BY DEF NumRow, NumCol, NumRank, Attr, EINVAL
<1>2. \A n \in Int : U8(n) \in 0 .. 255
  BY DEF U8
<1>3. SizeOf(mtr) \in Nat \cup {Garbage}
  <2>. DEFINE bits == NumRow(mtr) + NumCol(mtr) + NumRank(mtr)
  <2>1. bits \in Int
    BY <1>1
  <2>2. SizeOf(mtr) = IF bits < 0 THEN Garbage ELSE IF bits + 4 < 17 THEN 0 ELSE 2 ^ (bits + 4 - 17)
    BY DEF SizeOf
  <2>. HIDE DEF bits
  <2>3. bits + 4 >= 17 => 2 ^ (bits + 4 - 17) \in Nat
    BY <2>1, PowerOfTwo
  <2>. QED
    BY <2>1, <2>2, <2>3
<1>. QED
  BY <1>1, <1>2, <1>3 DEF DimmInfo

LEMMA ConfigStep ==
  ASSUME machine \in Machines, DimmTypes, \A p \in Places : Learnt(p), Config
  PROVE  machine' = machine /\ phase = "config" /\ DimmTypes' /\ (\A p \in Places : Learnt(p))'
<1>0. machine' = machine /\ phase = "config" /\ Places' = Places
  BY DEF Config, ConfigChannel, ConfigDone, Places, Sockets
<1>1. CASE ConfigChannel
  <2>. DEFINE mcmtr == Imc(AtSocket, AtImc).mcmtr
              amap  == Chan(AtSocket, AtImc, AtChan).amap
  <2>1. PICK sized \in SUBSET Kind("nvdimm") :
           /\ dimms' = [p \in Places |-> IF p \in Kind("ddr4")
                                           THEN DimmInfo(SlotAt(p), mcmtr, amap)
                                           ELSE dimms[p]]
           /\ size' = [p \in Places |-> IF p \in Kind("ddr4") THEN SizeOf(SlotAt(p))
                                        ELSE IF p \in sized THEN SlotAt(p).mib ELSE size[p]]
           /\ phase' = IF Kind("ddr4") \cup sized # {} /\ ~mcmtr.ecc
                         THEN "failed" ELSE "config"
    BY <1>1 DEF ConfigChannel
  <2>2. \A p \in Kind("ddr4") : /\ SlotAt(p).kind = "ddr4"
                                /\ p[1] = AtSocket /\ p[2] = AtImc /\ p[3] = AtChan
    BY DEF Kind, Here
  <2>3. \A p \in sized : SlotAt(p).kind = "nvdimm"
    BY DEF Kind
  <2>4. at' \in 0 .. NumImc * NumChannels * Len(machine'.sockets)
    <3>1. /\ Len(machine.sockets) \in Nat /\ DOMAIN machine.sockets = 1 .. Len(machine.sockets)
      BY MachineFacts DEF IsTable
    <3>2. at \in Nat /\ at' = at + 1 /\ at \div 6 + 1 <= Len(machine.sockets)
      BY <1>1, <3>1 DEF ConfigChannel, AtSocket, Sockets, DimmTypes, NumImc, NumChannels
    <3>3. at + 1 <= 6 * Len(machine.sockets)
      BY <3>1, <3>2
    <3>. QED
      BY <1>0, <3>1, <3>2, <3>3 DEF NumImc, NumChannels
  <2>5. ASSUME NEW p \in Places
        PROVE  dimms'[p].rowbits \in 0 .. 255 /\ dimms'[p].colbits \in 0 .. 255 /\ size'[p] \in Nat \cup {Garbage}
    <3>1. /\ dimms'[p] = IF p \in Kind("ddr4") THEN DimmInfo(SlotAt(p), mcmtr, amap)
                         ELSE dimms[p]
          /\ size'[p] = IF p \in Kind("ddr4") THEN SizeOf(SlotAt(p))
                        ELSE IF p \in sized THEN SlotAt(p).mib ELSE size[p]
      BY <2>1
    <3>2. /\ dimms[p].rowbits \in 0 .. 255 /\ dimms[p].colbits \in 0 .. 255 /\ size[p] \in Nat \cup {Garbage}
      BY DEF DimmTypes
    <3>. HIDE DEF mcmtr, amap
    <3>3. /\ DimmInfo(SlotAt(p), mcmtr, amap).rowbits \in 0 .. 255
          /\ DimmInfo(SlotAt(p), mcmtr, amap).colbits \in 0 .. 255
      BY SlotFacts, InfoFacts
    <3>4. SizeOf(SlotAt(p)) \in Nat \cup {Garbage} /\ SlotAt(p).mib \in Nat
      BY SlotFacts, InfoFacts
    <3>. QED
      BY <3>1, <3>2, <3>3, <3>4, Zenon
  <2>6. DimmTypes'
    <3>1. DOMAIN dimms' = Places /\ DOMAIN size' = Places /\ phase' \in {"config", "live", "failed"}
      BY <2>1
    <3>2. nvdimm' \in BOOLEAN
      BY <1>1 DEF DimmTypes, ConfigChannel
    <3>. QED
      BY <1>0, <2>4, <2>5, <3>1, <3>2 DEF DimmTypes
  <2>7. ASSUME NEW p \in Places PROVE Learnt(p)'
    <3>1. SlotAt(p)' = SlotAt(p) /\ DimmOf(p)' = DimmOf(p)
      BY <1>0 DEF SlotAt, DimmOf, Chan, Imc
    <3>2. CASE p \in Kind("ddr4")
      BY <2>1, <2>2, <3>1, <3>2 DEF Learnt, DimmOf
    <3>3. CASE p \notin Kind("ddr4")
      BY <2>1, <2>3, <3>1, <3>3 DEF Learnt
    <3>. QED
      BY <3>2, <3>3
  <2>. QED
    BY <1>0, <2>6, <2>7
<1>2. CASE ConfigDone
  <2>1. DimmTypes'
    BY <1>0, <1>2 DEF ConfigDone, DimmTypes
  <2>2. ASSUME NEW p \in Places PROVE Learnt(p)'
    BY <1>2 DEF ConfigDone, Learnt, DimmOf, SlotAt, Chan, Imc
  <2>. QED
    BY <1>0, <2>1, <2>2
<1>. QED
  BY <1>1, <1>2 DEF Config

LEMMA DimmSame ==
  ASSUME DimmTypes, \A p \in Places : Learnt(p), UNCHANGED dimmVars
  PROVE  DimmTypes' /\ (\A p \in Places : Learnt(p))'
<1>1. Places' = Places
  BY DEF dimmVars, Places, Sockets
<1>2. DimmTypes'
  BY <1>1 DEF dimmVars, DimmTypes
<1>3. ASSUME NEW p \in Places PROVE Learnt(p)'
  BY DEF dimmVars, Learnt, DimmOf, SlotAt, Chan, Imc
<1>. QED
  BY <1>1, <1>2, <1>3

-----------------------------------------------------------------------------
(* The writes.                                                             *)

WriteStep(w) ==
  Inject(w) \/ Disabled(w) \/ Translate(w) \/ Fill(w) \/ TakeValues(w) \/ SkipAbsent(w)
    \/ IsPresent(w) \/ MakeText(w) \/ NotTranslated(w) \/ Decoded(w) \/ Message(w) \/ Report(w)

LEMMA NextCases ==
  ASSUME [Next]_vars
  PROVE  Configure \/ (\E w \in Writes : WriteStep(w)) \/ UNCHANGED vars
BY DEF Next, WriteStep

LEMMA Sizes ==
  /\ adxl_component_count \in Nat /\ adxl_component_count >= 4 /\ Last \in Cells
  /\ Len(component_names) = 4
  /\ \A f \in Fields : \E i \in 1 .. 4 : component_names[i] = f
  /\ \A i \in 1 .. 4 : component_names[i] \in Fields
  /\ component_indices \in [Fields -> Components]
<1>1. Len(component_names) = 4
  BY DEF component_names
<1>2. /\ component_names[1] = "socket" /\ component_names[2] = "imc"
      /\ component_names[3] = "channel" /\ component_names[4] = "dimm"
  BY DEF component_names
<1>3. \A i \in 1 .. 4 : i = 1 \/ i = 2 \/ i = 3 \/ i = 4
  OBVIOUS
<1>. QED
  BY <1>1, <1>2, <1>3, AdxlAssumption DEF Last, Cells, Fields

LEMMA GoesFacts ==
  ASSUME Types, NEW w \in Writes, NEW from, NEW to, Goes(w, from, to)
  PROVE  /\ pc[w] = from /\ pc'[w] = to /\ next'[w] = 1
         /\ DOMAIN pc' = Writes /\ DOMAIN next' = Writes
         /\ \A v \in Writes \ {w} : pc'[v] = pc[v] /\ next'[v] = next[v]
BY DEF Goes, Types

LEMMA RoundFacts ==
  ASSUME Types, NEW w \in Writes, NEW from, NEW again, NEW last, NEW to,
         Round(w, from, again, last, to)
  PROVE  /\ pc[w] = from
         /\ pc'[w] = IF next[w] = last THEN to ELSE again
         /\ next'[w] = IF next[w] = last THEN 1 ELSE next[w] + 1
         /\ DOMAIN pc' = Writes /\ DOMAIN next' = Writes
         /\ \A v \in Writes \ {w} : pc'[v] = pc[v] /\ next'[v] = next[v]
BY DEF Round, Goes, Types

(* The steps one by one: where each leads.                                 *)
LEMMA Moves ==
  ASSUME Types, NEW w \in Writes, Loops(w), WriteStep(w)
  PROVE  /\ DOMAIN pc' = Writes /\ DOMAIN next' = Writes
         /\ \A v \in Writes \ {w} : pc'[v] = pc[v] /\ next'[v] = next[v]
         /\ pc[w] # "done" /\ pc'[w] \in Steps \ {"idle"}
         /\ next'[w] \in Cells
         /\ Loops(w)'
<1>. USE Sizes
<1>0. pc \in [Writes -> Steps] /\ next[w] \in Cells /\ len \in [Writes -> 0 .. adxl_component_count]
  BY DEF Types
<1>1. CASE Inject(w) \/ Disabled(w) \/ Translate(w) \/ NotTranslated(w) \/ Decoded(w)
  <2>1. PICK from, to : /\ Goes(w, from, to) /\ from \in {"idle", "check", "message"}
                        /\ to \in {"check", "fill", "message", "done"} /\ len' = len
                        /\ from = "message" => to = "done"
    <3>1. CASE Inject(w)
      <4>1. Goes(w, "idle", "check") /\ len' = len
        BY <3>1 DEF Inject
      <4>. QED
        BY <4>1
    <3>2. CASE Disabled(w)
      BY <3>2, Zenon DEF Disabled
    <3>3. CASE Translate(w)
      <4>1. Goes(w, "check", "fill") /\ len' = len
        BY <3>3 DEF Translate
      <4>. QED
        BY <4>1
    <3>4. CASE NotTranslated(w)
      BY <3>4 DEF NotTranslated
    <3>5. CASE Decoded(w)
      BY <3>5 DEF Decoded
    <3>. QED
      BY <1>1, <3>1, <3>2, <3>3, <3>4, <3>5
  <2>. QED
    BY <1>0, <2>1, GoesFacts DEF Loops, Steps, Cells, Components
<1>2. CASE Fill(w)
  BY <1>0, <1>2, RoundFacts DEF Fill, Loops, Steps, Cells, Components
<1>3. CASE TakeValues(w)
  BY <1>0, <1>3, RoundFacts DEF TakeValues, Loops, Steps, Cells, Components
<1>4. CASE SkipAbsent(w)
  BY <1>0, <1>4, RoundFacts DEF SkipAbsent, Loops, Steps, Cells, Components
<1>5. CASE IsPresent(w)
  BY <1>0, <1>5 DEF IsPresent, Loops, Steps, Types
<1>6. CASE MakeText(w)
  BY <1>0, <1>6, RoundFacts DEF MakeText, Loops, Steps, Cells, Components
<1>7. CASE Message(w)
  <2>1. PICK p \in res[w] :
          LET piece == IF machine.adxl THEN adxl_msg[next[w]] ELSE Piece(p, next[w])
          IN  Round(w, "message", "message", IF piece = End THEN next[w] ELSE 0, "report")
    BY <1>7 DEF Message
  <2>2. Piece(p, Last) = End /\ adxl_msg[Last] = End
    BY DEF Types, Last, Piece, Printed
  <2>. QED
    BY <1>0, <2>1, <2>2, RoundFacts DEF Loops, Steps, Cells, Components, Last
<1>8. CASE Report(w)
  <2>1. Round(w, "report", "report", IF skx_msg[next[w]] = End THEN next[w] ELSE 0, "done")
    BY <1>8 DEF Report
  <2>2. skx_msg[Last] = End
    BY DEF Types
  <2>. QED
    BY <1>0, <2>1, <2>2, RoundFacts DEF Loops, Steps, Cells, Components, Last
<1>. QED
  BY <1>1, <1>2, <1>3, <1>4, <1>5, <1>6, <1>7, <1>8 DEF WriteStep

(* What a write makes of the other writes: nothing, but that it has met    *)
(* those that run when it begins.                                          *)
LEMMA WriteFrame ==
  ASSUME Types, NEW w \in Writes, Loops(w), WriteStep(w)
  PROVE  /\ UNCHANGED dimmVars
         /\ DOMAIN len' = Writes /\ DOMAIN addr' = Writes /\ DOMAIN res' = Writes
         /\ DOMAIN report' = Writes
         /\ \A v \in Writes \ {w} : /\ len'[v] = len[v] /\ addr'[v] = addr[v]
                                    /\ res'[v] = res[v] /\ report'[v] = report[v]
         /\ pc[w] = "idle" => Inject(w)
         /\ pc[w] # "idle" => addr' = addr /\ met' = met
         /\ met' \in [Writes -> SUBSET Writes]
         /\ \A v \in Writes \ {w}, u \in Writes :
              u \in met'[v] <=> u \in met[v] \/ (pc[w] = "idle" /\ Running(v) /\ u = w)
         /\ pc[w] = "idle" => \A u \in Writes : u \in met'[w] <=> u # w /\ Running(u)
<1>0. /\ pc \in [Writes -> Steps] /\ addr \in [Writes -> Nat] /\ met \in [Writes -> SUBSET Writes]
      /\ DOMAIN len = Writes /\ DOMAIN res = Writes /\ DOMAIN report = Writes
  BY DEF Types
<1>1. CASE Inject(w)
  <2>. DEFINE others == {v \in Writes \ {w} : pc[v] \notin {"idle", "done"}}
  <2>1. /\ pc[w] = "idle" /\ UNCHANGED <<dimmVars, len, res, report>>
        /\ \E a : addr' = [addr EXCEPT ![w] = a]
        /\ met' = [v \in Writes |-> IF v = w THEN others
                                    ELSE IF v \in others THEN met[v] \cup {w} ELSE met[v]]
    BY <1>1 DEF Inject, Goes
  <2>2. \A v \in Writes : v \in others <=> v # w /\ Running(v)
    BY DEF Running
  <2>3. others \subseteq Writes
    OBVIOUS
  <2>. HIDE DEF others
  <2>. QED
    BY <1>0, <1>1, <2>1, <2>2, <2>3
<1>2. CASE ~Inject(w)
  <2>1. pc[w] # "idle"
    BY <1>2, GoesFacts, RoundFacts DEF WriteStep, Disabled, Translate, Fill, TakeValues, SkipAbsent,
         IsPresent, MakeText, NotTranslated, Decoded, Message, Report
  <2>2. UNCHANGED <<dimmVars, addr, met>>
    BY <1>2 DEF WriteStep, Disabled, Translate, Fill, TakeValues, SkipAbsent, IsPresent, MakeText,
         NotTranslated, Decoded, Message, Report
  <2>3. /\ DOMAIN len' = Writes /\ DOMAIN res' = Writes
        /\ \A v \in Writes \ {w} : len'[v] = len[v] /\ res'[v] = res[v]
    BY <1>0, <1>2 DEF WriteStep, Disabled, Translate, Fill, TakeValues, SkipAbsent, IsPresent, MakeText,
         NotTranslated, Decoded, Message, Report
  <2>4. DOMAIN report' = Writes /\ \A v \in Writes \ {w} : report'[v] = report[v]
    BY <1>0, <1>2 DEF WriteStep, Disabled, Translate, Fill, TakeValues, SkipAbsent, IsPresent, MakeText,
         NotTranslated, Decoded, Message, Report
  <2>. QED
    BY <1>0, <2>1, <2>2, <2>3, <2>4
<1>. QED
  BY <1>1, <1>2

LEMMA WriteTypes ==
  ASSUME Types, \A p \in Places : Learnt(p), NEW w \in Writes, Loops(w), WriteStep(w)
  PROVE  Types'
<1>0. /\ DOMAIN adxl_msg = Cells /\ DOMAIN skx_msg = Cells /\ DOMAIN report = Writes
      /\ adxl_values \in [Components -> Nat \cup {Unset}] /\ addr \in [Writes -> Nat]
      /\ adxl_msg[Last] = End /\ skx_msg[Last] = End /\ len \in [Writes -> 0 .. adxl_component_count]
  BY DEF Types
<1>1. machine' = machine /\ DimmTypes'
  BY WriteFrame, DimmSame DEF Types, dimmVars
<1>2. pc' \in [Writes -> Steps] /\ next' \in [Writes -> Cells]
  <2>1. \E f : pc' = [pc EXCEPT ![w] = f]
    BY DEF WriteStep, Inject, Disabled, Translate, Fill, TakeValues, SkipAbsent, IsPresent, MakeText,
         NotTranslated, Decoded, Message, Report, Goes, Round
  <2>2. \E f : next' = [next EXCEPT ![w] = f]
    <3>1. CASE IsPresent(w)
      <4>1. next' = [next EXCEPT ![w] = next[w]]
        BY <3>1 DEF IsPresent, Types
      <4>. QED
        BY <4>1
    <3>2. CASE ~IsPresent(w)
      BY <3>2 DEF WriteStep, Inject, Disabled, Translate, Fill, TakeValues, SkipAbsent, MakeText,
           NotTranslated, Decoded, Message, Report, Goes, Round
    <3>. QED
      BY <3>1, <3>2
  <2>. QED
    BY <2>1, <2>2, Moves DEF Types
<1>3. addr' \in [Writes -> Nat]
  <2>1. CASE Inject(w)
    <3>1. PICK a \in Addresses(w, machine) : addr' = [addr EXCEPT ![w] = a]
      BY <2>1 DEF Inject
    <3>2. a \in Nat
      BY AddressesAssumption DEF Types
    <3>. QED
      BY <1>0, <3>1, <3>2
  <2>2. CASE ~Inject(w)
    BY <1>0, <2>2, WriteFrame
  <2>. QED
    BY <2>1, <2>2
<1>4. len' \in [Writes -> 0 .. adxl_component_count]
  <2>1. CASE MakeText(w)
    <3>1. len[w] + 1 \in 0 .. adxl_component_count /\ len' = [len EXCEPT ![w] = @ + 1]
      BY <1>0, <2>1, RoundFacts, Sizes DEF MakeText, Loops, Components
    <3>. QED
      BY <1>0, <3>1
  <2>2. CASE ~MakeText(w)
    BY <1>0, <2>2 DEF WriteStep, Inject, Disabled, Translate, Fill, TakeValues, SkipAbsent, IsPresent,
         NotTranslated, Decoded, Message, Report
  <2>. QED
    BY <2>1, <2>2
<1>5. AtMostOne(res'[w])
  <2>0. AtMostOne(res[w]) /\ w \in DOMAIN res
    BY DEF Types
  <2>1. CASE TakeValues(w)
    <3>. DEFINE f == component_names[next[w]]
                x == adxl_values[component_indices[f]]
    <3>1. res' = [res EXCEPT ![w] = {[p EXCEPT ![f] = x] : p \in @}]
      BY <2>1 DEF TakeValues
    <3>. HIDE DEF f, x
    <3>. QED
      BY <2>0, <3>1 DEF AtMostOne
  <2>2. CASE Decoded(w)
    <3>1. res'[w] = Decode(addr[w]) /\ addr[w] \in Nat
      BY <2>0, <2>2 DEF Decoded, Types
    <3>. QED
      BY <3>1, DecodeFacts DEF Types
  <2>3. CASE Translate(w)
    BY <2>0, <2>3 DEF Translate, AtMostOne
  <2>4. CASE ~TakeValues(w) /\ ~Decoded(w) /\ ~Translate(w)
    <3>1. res' = res
      BY <2>4 DEF WriteStep, Inject, Disabled, Fill, SkipAbsent, IsPresent, MakeText, NotTranslated,
           Message, Report
    <3>. QED
      BY <2>0, <3>1
  <2>. QED
    BY <2>1, <2>2, <2>3, <2>4
<1>6. adxl_values' \in [Components -> Nat \cup {Unset}]
  <2>1. CASE Fill(w)
    <3>1. adxl_values' = [adxl_values EXCEPT ![next[w]] = addr[w]]
      BY <2>1 DEF Fill
    <3>. QED
      BY <1>0, <3>1
  <2>2. CASE ~Fill(w)
    BY <1>0, <2>2 DEF WriteStep, Inject, Disabled, Translate, TakeValues, SkipAbsent, IsPresent, MakeText,
         NotTranslated, Decoded, Message, Report, shared
  <2>. QED
    BY <2>1, <2>2
<1>7. DOMAIN adxl_msg' = Cells /\ adxl_msg'[Last] = End
  <2>1. CASE MakeText(w)
    <3>1. /\ adxl_msg' = [adxl_msg EXCEPT ![len[w] + 1] = <<next[w], adxl_values[next[w]]>>,
                                          ![len[w] + 2] = End]
          /\ len[w] + 1 < Last
      BY <1>0, <2>1, RoundFacts, Sizes DEF MakeText, Loops, Components, Last
    <3>. QED
      BY <1>0, <3>1, Sizes
  <2>2. CASE ~MakeText(w)
    BY <1>0, <2>2 DEF WriteStep, Inject, Disabled, Translate, Fill, TakeValues, SkipAbsent, IsPresent,
         NotTranslated, Decoded, Message, Report, shared
  <2>. QED
    BY <2>1, <2>2
<1>8. DOMAIN skx_msg' = Cells /\ skx_msg'[Last] = End
  <2>1. CASE Message(w)
    <3>1. PICK p \in res[w] :
            skx_msg' = [skx_msg EXCEPT ![next[w]] = IF machine.adxl THEN adxl_msg[next[w]]
                                                    ELSE Piece(p, next[w])]
      BY <2>1 DEF Message
    <3>2. Piece(p, Last) = End
      BY Sizes DEF Last, Piece, Printed
    <3>. QED
      BY <1>0, <3>1, <3>2, Sizes
  <2>2. CASE ~Message(w)
    BY <1>0, <2>2 DEF WriteStep, Inject, Disabled, Translate, Fill, TakeValues, SkipAbsent, IsPresent,
         MakeText, NotTranslated, Decoded, Report, shared
  <2>. QED
    BY <2>1, <2>2
<1>9. \A v \in Writes : report'[v] = [place |-> report'[v].place, msg |-> report'[v].msg]
  <2>0. \A v \in Writes : report[v] = [place |-> report[v].place, msg |-> report[v].msg]
    BY DEF Types
  <2>1. \A v \in Writes \ {w} : report'[v] = report[v]
    BY WriteFrame
  <2>2. \E x, y : report'[w] = [place |-> x, msg |-> y]
    <3>1. CASE Report(w)
      <4>1. \/ \E x : report' = [report EXCEPT ![w].place = x]
            \/ \E x : report' = [report EXCEPT ![w].msg = @ \cup {x}]
        BY <3>1 DEF Report
      <4>2. PICK x, y : report[w] = [place |-> x, msg |-> y]
        BY <2>0
      <4>. QED
        BY <1>0, <4>1, <4>2
    <3>2. CASE ~Report(w)
      <4>1. report' = report
        BY <3>2 DEF WriteStep, Inject, Disabled, Translate, Fill, TakeValues, SkipAbsent, IsPresent,
             MakeText, NotTranslated, Decoded, Message
      <4>. QED
        BY <2>0, <4>1
    <3>. QED
      BY <3>1, <3>2
  <2>. QED
    BY <2>0, <2>1, <2>2
<1>10. \A v \in Writes : AtMostOne(res'[v])
  BY <1>5, WriteFrame DEF Types
<1>. QED
  BY <1>1, <1>2, <1>3, <1>4, <1>6, <1>7, <1>8, <1>9, <1>10, WriteFrame DEF Types

(* What a write has seen it has seen for good.                             *)
LEMMA SeenGrows ==
  ASSUME Types, NEW w \in Writes, Loops(w), WriteStep(w), NEW v \in Writes,
         \A u \in Writes : Meeting(u, v), pc[v] # "idle"
  PROVE  /\ Seen(v) \subseteq Seen(v)' /\ met[v] \subseteq met'[v]
         /\ v # w /\ Running(v) => addr'[w] \in Seen(v)'
<1>1. /\ met[v] \in SUBSET Writes /\ met[v] \subseteq met'[v]
      /\ v = w => addr'[w] = addr[w]
      /\ \A u \in Writes : pc[u] # "idle" => addr'[u] = addr[u]
  <2>1. met \in [Writes -> SUBSET Writes] /\ met' \in [Writes -> SUBSET Writes]
    BY WriteFrame DEF Types
  <2>2. \A u \in Writes : u \in met[v] => u \in met'[v]
    BY WriteFrame
  <2>3. \A u \in Writes : pc[u] # "idle" => addr'[u] = addr[u]
    BY WriteFrame
  <2>. QED
    BY <2>1, <2>2, <2>3
<1>2. Seen(v) \subseteq Seen(v)'
  BY <1>1 DEF Seen, Meeting
<1>3. v # w /\ Running(v) => w \in met'[v]
  <2>1. CASE pc[w] = "idle"
    BY <2>1, WriteFrame
  <2>2. CASE pc[w] # "idle"
    <3>1. Running(w)
      BY <2>2, Moves DEF Running
    <3>. QED
      BY <1>1, <3>1 DEF Meeting
  <2>. QED
    BY <2>1, <2>2
<1>. QED
  BY <1>1, <1>2, <1>3 DEF Seen

LEMMA MeetingStep ==
  ASSUME Types, NEW w \in Writes, Loops(w), WriteStep(w), NEW u \in Writes, NEW v \in Writes,
         Meeting(u, v)
  PROVE  Meeting(u, v)'
<1>1. /\ pc[w] # "done" /\ pc'[w] # "idle"
      /\ \A x \in Writes \ {w} : pc'[x] = pc[x]
  BY Moves
<1>2. CASE pc[w] = "idle"
  BY <1>1, <1>2, WriteFrame DEF Meeting, Running
<1>3. CASE pc[w] # "idle"
  BY <1>1, <1>3, WriteFrame DEF Meeting, Running
<1>. QED
  BY <1>2, <1>3

LEMMA LoopsStep ==
  ASSUME Types, NEW w \in Writes, Loops(w), WriteStep(w), NEW v \in Writes, Loops(v)
  PROVE  Loops(v)'
<1>1. CASE v = w
  BY <1>1, Moves
<1>2. CASE v # w
  BY <1>2, Moves, WriteFrame DEF Loops
<1>. QED
  BY <1>1, <1>2

LEMMA PrivateStep ==
  ASSUME Types, NEW w \in Writes, Loops(w), WriteStep(w), NEW v \in Writes, Private(v)
  PROVE  Private(v)'
<1>1. UNCHANGED dimmVars /\ machine' = machine
  BY WriteFrame DEF dimmVars
<1>2. CASE v # w
  <2>1. pc'[v] = pc[v] /\ addr'[v] = addr[v] /\ res'[v] = res[v] /\ report'[v] = report[v]
    BY <1>2, Moves, WriteFrame
  <2>2. Decode(addr[v])' = Decode(addr[v])
    BY <1>1, <2>1, OwnSame
  <2>. QED
    BY <1>1, <2>1, <2>2 DEF Private, Reported
<1>3. CASE v = w
  <2>0. /\ w \in DOMAIN res /\ w \in DOMAIN report
        /\ \E x, y : report[w] = [place |-> x, msg |-> y]
    BY DEF Types
  <2>1. ~Reported(w) /\ (pc[w] # "report" => report[w].msg = {})
    BY <1>3, Moves DEF Private
  <2>2. CASE Inject(w)
    <3>1. pc[w] = "idle" /\ pc'[w] = "check" /\ report' = report
      BY <2>2, GoesFacts DEF Inject
    <3>. QED
      BY <1>3, <2>1, <3>1 DEF Private, Reported
  <2>3. CASE ~Inject(w)
    <3>1. addr' = addr
      BY <2>3, WriteFrame
    <3>2. Decode(addr[w])' = Decode(addr[w])
      BY <1>1, <3>1, OwnSame
    <3>3. CASE Decoded(w)
      <4>1. /\ ~machine.adxl /\ pc[w] = "check" /\ pc'[w] \in {"done", "message"}
            /\ res'[w] = Decode(addr[w]) /\ report' = report
        BY <2>0, <3>3, GoesFacts DEF Decoded
      <4>. QED
        BY <1>1, <1>3, <2>1, <3>2, <4>1 DEF Private, Reported
    <3>4. CASE Report(w)
      <4>1. /\ pc[w] = "report"
            /\ \/ pc'[w] = "done" /\ report'[w].place = res[w]
               \/ pc'[w] = "report" /\ report'[w].place = report[w].place
            /\ res' = res
        BY <2>0, <3>4, RoundFacts, Sizes DEF Report, Types, Cells
      <4>. QED
        BY <1>1, <1>3, <2>1, <3>1, <3>2, <4>1 DEF Private, Reported
    <3>5. CASE Translate(w) \/ Fill(w) \/ TakeValues(w) \/ SkipAbsent(w) \/ IsPresent(w) \/ MakeText(w)
      <4>1. machine.adxl /\ pc[w] \notin {"report", "done"} /\ report' = report
        BY <1>3, <3>5, GoesFacts, RoundFacts DEF Translate, Fill, TakeValues, SkipAbsent, IsPresent,
             MakeText, Private
      <4>. QED
        BY <1>1, <1>3, <2>1, <4>1 DEF Private, Reported
    <3>6. CASE Disabled(w) \/ NotTranslated(w)
      <4>1. pc[w] # "report" /\ pc'[w] = "done" /\ report' = report
        BY <3>6, GoesFacts DEF Disabled, NotTranslated
      <4>. QED
        BY <1>3, <2>1, <4>1 DEF Private, Reported
    <3>7. CASE Message(w)
      <4>1. pc[w] = "message" /\ pc'[w] \in {"message", "report"} /\ report' = report /\ res' = res
        BY <3>7, RoundFacts DEF Message
      <4>. QED
        BY <1>1, <1>3, <2>1, <3>1, <3>2, <4>1 DEF Private, Reported
    <3>. QED
      BY <2>3, <3>3, <3>4, <3>5, <3>6, <3>7 DEF WriteStep
  <2>. QED
    BY <2>2, <2>3
<1>. QED
  BY <1>2, <1>3

(* What firmware or another write puts into adxl_values and what is taken  *)
(* out of it.                                                              *)
LEMMA TranslationStep ==
  ASSUME Types, NEW w \in Writes, Loops(w), WriteStep(w), NEW v \in Writes, Translation(v), Private(v),
         \A u \in Writes : Meeting(u, v)
  PROVE  Translation(v)'
<1>. SUFFICES ASSUME machine.adxl PROVE Translation(v)'
  BY WriteFrame DEF Translation, dimmVars
<1>0. /\ machine' = machine /\ machine.adxl
      /\ DOMAIN adxl_values = Components /\ w \in DOMAIN res /\ w \in DOMAIN report
      /\ w \in DOMAIN addr
  BY WriteFrame DEF Types, dimmVars
<1>1. CASE pc[v] = "idle"
  <2>1. ~Reported(v)
    BY <1>1 DEF Private
  <2>2. CASE v = w
    <3>1. pc'[v] = "check" /\ report' = report
      BY <1>1, <2>2, WriteFrame, GoesFacts DEF Inject
    <3>. QED
      BY <2>1, <3>1 DEF Translation, Reported
  <2>3. CASE v # w
    <3>1. pc'[v] = "idle" /\ report'[v] = report[v]
      BY <1>1, <2>3, Moves, WriteFrame
    <3>. QED
      BY <2>1, <3>1 DEF Translation, Reported
  <2>. QED
    BY <2>2, <2>3
<1>2. CASE pc[v] # "idle" /\ v # w
  <2>1. /\ pc'[v] = pc[v] /\ next'[v] = next[v] /\ res'[v] = res[v] /\ report'[v] = report[v]
    BY <1>2, Moves, WriteFrame
  <2>2. Seen(v) \subseteq Seen(v)' /\ (Running(v) => addr'[w] \in Seen(v)')
    BY <1>2, SeenGrows
  <2>3. CASE Fill(w)
    <3>1. adxl_values' = [adxl_values EXCEPT ![next[w]] = addr[w]] /\ addr' = addr
      BY <2>3 DEF Fill
    <3>2. \A i \in Components : adxl_values'[i] = adxl_values[i] \/ adxl_values'[i] = addr'[w]
      BY <1>0, <3>1
    <3>. QED
      BY <1>0, <2>1, <2>2, <3>2 DEF Translation, PlaceSeen, Reported, Running
  <2>4. CASE ~Fill(w)
    <3>1. adxl_values' = adxl_values
      BY <2>4 DEF WriteStep, Inject, Disabled, Translate, TakeValues, SkipAbsent, IsPresent, MakeText,
           NotTranslated, Decoded, Message, Report, shared
    <3>. QED
      BY <1>0, <2>1, <2>2, <3>1 DEF Translation, PlaceSeen, Reported
  <2>. QED
    BY <2>3, <2>4
<1>3. CASE pc[v] # "idle" /\ v = w
  <2>0. addr'[w] = addr[w] /\ Seen(w)' = Seen(w) /\ addr[w] \in Seen(w) /\ ~Reported(w)
    BY <1>3, WriteFrame, Moves DEF Seen, Private
  <2>1. CASE Translate(w)
    <3>1. /\ pc'[w] = "fill" /\ next'[w] = 1 /\ res'[w] = {[f \in Fields |-> Unset]}
          /\ report' = report
      BY <1>0, <2>1, GoesFacts DEF Translate
    <3>. QED
      BY <1>3, <2>0, <3>1 DEF Translation, Reported, Components
  <2>2. CASE Fill(w)
    <3>1. /\ pc[w] = "fill" /\ next[w] \in Components
          /\ \/ next[w] = adxl_component_count /\ pc'[w] = "take" /\ next'[w] = 1
             \/ next[w] # adxl_component_count /\ pc'[w] = "fill" /\ next'[w] = next[w] + 1
          /\ adxl_values' = [adxl_values EXCEPT ![next[w]] = addr[w]] /\ res' = res
          /\ report' = report
      BY <2>2, RoundFacts DEF Fill, Loops
    <3>2. \A i \in Components : i < next[w] + 1 => adxl_values'[i] \in Seen(w)
      BY <1>0, <1>3, <2>0, <3>1 DEF Translation, Components
    <3>. QED
      BY <1>0, <1>3, <2>0, <3>1, <3>2, Sizes DEF Translation, Reported, Components
  <2>3. CASE TakeValues(w)
    <3>. DEFINE f == component_names[next[w]]
                x == adxl_values[component_indices[f]]
    <3>1. /\ pc[w] = "take" /\ next[w] \in 1 .. 4
          /\ \/ next[w] = 4 /\ pc'[w] = "text" /\ next'[w] = 1
             \/ next[w] # 4 /\ pc'[w] = "take" /\ next'[w] = next[w] + 1
          /\ adxl_values' = adxl_values /\ report' = report
      BY <2>3, RoundFacts, Sizes DEF TakeValues, Loops, shared
    <3>2. res'[w] = {[p EXCEPT ![f] = x] : p \in res[w]}
      BY <1>0, <2>3 DEF TakeValues
    <3>3. f \in Fields /\ x \in Seen(w)
      BY <1>0, <1>3, <3>1, Sizes DEF Translation
    <3>. HIDE DEF x
    <3>4. ASSUME NEW q \in res'[w]
          PROVE  /\ DOMAIN q = Fields
                 /\ \A i \in 1 .. 4 : i < next[w] + 1 => q[component_names[i]] \in Seen(w)
      <4>1. PICK p \in res[w] : q = [p EXCEPT ![f] = x]
        BY <3>2, <3>4
      <4>2. /\ DOMAIN p = Fields
            /\ \A i \in 1 .. 4 : i < next[w] => p[component_names[i]] \in Seen(w)
        BY <1>0, <1>3, <3>1 DEF Translation
      <4>3. ASSUME NEW i \in 1 .. 4, i < next[w] + 1 PROVE q[component_names[i]] \in Seen(w)
        <5>1. component_names[i] \in Fields
          BY Sizes
        <5>2. CASE component_names[i] = f
          BY <3>3, <4>1, <4>2, <5>1, <5>2
        <5>3. CASE component_names[i] # f
          <6>1. i < next[w]
            BY <3>1, <4>3, <5>3
          <6>2. q[component_names[i]] = p[component_names[i]]
            BY <4>1, <4>2, <5>1, <5>3
          <6>. QED
            BY <4>2, <6>1, <6>2
        <5>. QED
          BY <5>2, <5>3
      <4>. QED
        BY <4>1, <4>2, <4>3
    <3>. HIDE DEF f
    <3>5. CASE next[w] = 4
      <4>1. PlaceSeen(w, res'[w])
        BY <3>4, <3>5, Sizes DEF PlaceSeen
      <4>2. pc'[w] = "text" /\ \A i \in Components : adxl_values'[i] \in Seen(w)
        BY <1>0, <1>3, <3>1, <3>5 DEF Translation
      <4>. QED
        BY <1>3, <2>0, <3>1, <4>1, <4>2 DEF Translation, PlaceSeen, Reported
    <3>6. CASE next[w] # 4
      <4>1. pc'[w] = "take" /\ next'[w] = next[w] + 1 /\ \A i \in Components : adxl_values'[i] \in Seen(w)
        BY <1>0, <1>3, <3>1, <3>6 DEF Translation
      <4>. QED
        BY <1>3, <2>0, <3>1, <3>4, <4>1 DEF Translation, Reported
    <3>. QED
      BY <3>5, <3>6
  <2>4. CASE SkipAbsent(w) \/ IsPresent(w) \/ MakeText(w)
    <3>1. /\ pc[w] \in {"text", "print"} /\ pc'[w] \in {"text", "print", "message"}
          /\ adxl_values' = adxl_values /\ res' = res /\ report' = report
      BY <2>4, RoundFacts, Moves DEF SkipAbsent, IsPresent, MakeText, Types, shared
    <3>. QED
      BY <1>0, <1>3, <2>0, <3>1 DEF Translation, PlaceSeen, Reported
  <2>5. CASE Message(w)
    <3>1. pc[w] = "message" /\ pc'[w] \in {"message", "report"} /\ res' = res /\ report' = report
      BY <2>5, RoundFacts DEF Message
    <3>. QED
      BY <1>0, <1>3, <2>0, <3>1 DEF Translation, PlaceSeen, Reported
  <2>6. CASE Report(w)
    <3>0. \E a, b : report[w] = [place |-> a, msg |-> b]
      BY DEF Types
    <3>1. /\ pc[w] = "report" /\ res' = res
          /\ \/ pc'[w] = "done" /\ report'[w].place = res[w]
             \/ pc'[w] = "report" /\ report'[w].place = report[w].place
      BY <1>0, <2>6, <3>0, RoundFacts, Sizes DEF Report, Types, Cells
    <3>. QED
      BY <1>0, <1>3, <2>0, <3>1 DEF Translation, PlaceSeen, Reported
  <2>7. CASE Disabled(w) \/ NotTranslated(w) \/ Decoded(w) \/ Inject(w)
    <3>1. pc'[w] = "done" /\ report' = report
      BY <1>0, <1>3, <2>7, GoesFacts DEF Disabled, NotTranslated, Decoded, Inject
    <3>. QED
      BY <1>3, <2>0, <3>1 DEF Translation, Reported
  <2>. QED
    BY <2>1, <2>2, <2>3, <2>4, <2>5, <2>6, <2>7 DEF WriteStep
<1>. QED
  BY <1>1, <1>2, <1>3

LEMMA TextFacts ==
  /\ \A x, y : <<x, y>> # End
  /\ \A p, j : j \in 1 .. 4 => Piece(p, j) # End
  /\ \A p, j : j \in Nat /\ j > 4 => Piece(p, j) = End
  /\ DOMAIN Printed = 1 .. 4
<1>1. \A x, y : <<x, y>> # End
  <2>. SUFFICES ASSUME NEW x, NEW y, <<x, y>> = End PROVE FALSE
    OBVIOUS
  <2>1. Len(<<x, y>>) = 2
    OBVIOUS
  <2>2. Len(End) = 0
    BY DEF End
  <2>3. Len(<<x, y>>) = Len(End)
    BY Zenon
  <2>. QED
    BY <2>1, <2>2, <2>3
<1>2. DOMAIN Printed = 1 .. 4
  BY DEF Printed
<1>3. \A p, j : j \in 1 .. 4 => Piece(p, j) # End
  BY <1>1, <1>2 DEF Piece
<1>4. \A p, j : j \in Nat /\ j > 4 => Piece(p, j) = End
  BY <1>2 DEF Piece
<1>. QED
  BY <1>1, <1>2, <1>3, <1>4

(* A text read up to its end has been read as a whole.                     *)
LEMMA WholeText ==
  ASSUME NEW t, NEW S, Complete(t, S), NEW k \in Cells, Pieces(t, k - 1), t[k] = End
  PROVE  Content(t, k - 1) = S
<1>1. PICK n \in 0 .. adxl_component_count : t[n + 1] = End /\ Pieces(t, n) /\ Content(t, n) = S
  BY DEF Complete
<1>2. ~(k - 1 < n)
  <2>1. k - 1 < n => k \in 1 .. n
    BY Sizes DEF Cells
  <2>. QED
    BY <1>1, <2>1 DEF Pieces
<1>3. ~(n < k - 1)
  <2>1. n < k - 1 => n + 1 \in 1 .. k - 1
    BY Sizes DEF Cells
  <2>. QED
    BY <1>1, <2>1 DEF Pieces
<1>4. k - 1 = n
  BY <1>2, <1>3, Sizes DEF Cells
<1>. QED
  BY <1>1, <1>4

LEMMA SourceComplete ==
  ASSUME Types, NEW w \in Writes, Private(w), Translation(w), Undisturbed(w), met[w] = {},
         pc[w] = "message", NEW p \in res[w], HasMci(p)
  PROVE  Complete(Source(p), OwnText(w))
<1>1. CASE machine.adxl
  <2>1. p["socket"] = addr[w]
    <3>1. p["socket"] \in Seen(w)
      BY <1>1 DEF Translation, PlaceSeen, Fields
    <3>. QED
      BY <3>1 DEF Seen
  <2>. DEFINE c == component_indices["socket"]
  <2>2. c \in Components /\ ~Absent(c, addr[w])
    BY <1>1, <2>1, Sizes DEF HasMci, Fields
  <2>. HIDE DEF c
  <2>3. <<c, addr[w]>> \in {<<j, addr[w]>> : j \in {x \in Components : ~Absent(x, addr[w])}}
    BY <2>2
  <2>4. OwnText(w) # {}
    <3>1. OwnText(w) = {<<j, addr[w]>> : j \in {x \in Components : ~Absent(x, addr[w])}}
      BY <1>1 DEF OwnText
    <3>. QED
      BY <2>3, <3>1, Zenon
  <2>. QED
    BY <1>1, <2>4 DEF Undisturbed, Source
<1>2. CASE ~machine.adxl
  <2>1. res[w] = Decode(addr[w]) /\ Decode(addr[w]) = {p}
    BY <1>2 DEF Private, Types, AtMostOne
  <2>2. OwnText(w) = {Piece(p, j) : j \in 1 .. 4}
    BY <1>2, <2>1, TextFacts DEF OwnText
  <2>3. Source(p) = [j \in Cells |-> Piece(p, j)] /\ \A j \in 1 .. 5 : j \in Cells
    BY <1>2, Sizes DEF Source, Cells
  <2>. HIDE DEF Source
  <2>4. \A j \in 1 .. 5 : Source(p)[j] = Piece(p, j)
    BY <2>3
  <2>5. Content(Source(p), 4) = OwnText(w)
    BY <2>2, <2>4 DEF Content
  <2>6. Pieces(Source(p), 4) /\ Source(p)[4 + 1] = End
    BY <2>4, TextFacts DEF Pieces
  <2>7. 4 \in 0 .. adxl_component_count
    BY Sizes
  <2>. QED
    BY <2>5, <2>6, <2>7 DEF Complete
<1>. QED
  BY <1>1, <1>2

(* The text in adxl_msg when all components have been gone through.        *)
LEMMA TextDone ==
  ASSUME NEW t, NEW w, NEW n \in 0 .. adxl_component_count, machine.adxl,
         Pieces(t, n), Content(t, n) = Present(w, adxl_component_count),
         n > 0 => t[n + 1] = End, OwnText(w) # {}
  PROVE  Complete(t, OwnText(w))
<1>1. OwnText(w) = Present(w, adxl_component_count)
  BY DEF OwnText, Present, Components
<1>2. n # 0
  BY <1>1 DEF Content
<1>. QED
  BY <1>1, <1>2 DEF Complete

LEMMA UndisturbedStep ==
  ASSUME Types, NEW w \in Writes, Loops(w), WriteStep(w), NEW v \in Writes, Private(v),
         Translation(v), \A u \in Writes : Meeting(u, v), met[v] = {} => Undisturbed(v), met'[v] = {}
  PROVE  Undisturbed(v)'
<1>1. UNCHANGED dimmVars /\ machine' = machine
  BY WriteFrame DEF dimmVars
<1>2. /\ pc \in [Writes -> Steps] /\ DOMAIN res = Writes /\ DOMAIN report = Writes
      /\ DOMAIN len = Writes /\ len[w] \in 0 .. adxl_component_count
      /\ DOMAIN adxl_msg = Cells /\ DOMAIN skx_msg = Cells
      /\ \E x, y : report[w] = [place |-> x, msg |-> y]
  BY DEF Types
(* Another write: it had ended, or the two would have met.                 *)
<1>3. CASE v # w
  <2>1. /\ pc'[v] = pc[v] /\ addr'[v] = addr[v] /\ res'[v] = res[v] /\ report'[v] = report[v]
        /\ met[v] = {}
    <3>1. met[v] \in SUBSET Writes /\ \A u \in Writes : u \in met[v] => u \in met'[v]
      BY <1>3, WriteFrame DEF Types
    <3>. QED
      BY <1>3, <3>1, Moves, WriteFrame
  <2>2. OwnText(v)' = OwnText(v)
    BY <1>1, <2>1, OwnSame
  <2>3. ~Running(v)
    <3>1. CASE pc[w] = "idle"
      BY <1>3, <3>1, WriteFrame
    <3>2. CASE pc[w] # "idle"
      BY <1>3, <2>1, <3>2, Moves DEF Meeting, Running
    <3>. QED
      BY <3>1, <3>2
  <2>. QED
    BY <2>1, <2>2, <2>3 DEF Undisturbed, Reported, Running
<1>4. CASE v = w /\ Inject(w)
  <2>1. pc[w] = "idle" /\ pc'[w] = "check" /\ report' = report
    BY <1>4, GoesFacts DEF Inject
  <2>. QED
    BY <1>4, <2>1 DEF Undisturbed, Reported, Private
(* Its own steps: none of the others takes any.                            *)
<1>5. CASE v = w /\ ~Inject(w)
  <2>1. addr' = addr /\ met[w] = {}
    BY <1>5, WriteFrame
  <2>2. OwnText(w)' = OwnText(w) /\ \A n : Present(w, n)' = Present(w, n)
    BY <1>1, <2>1, OwnSame DEF Present
  <2>3. ~Reported(w) /\ Undisturbed(w) /\ Private(w) /\ Translation(w)
    BY <1>5, <2>1, Moves DEF Private
  <2>4. machine.adxl /\ pc[w] \in {"text", "print"} => \A i \in Components : adxl_values[i] = addr[w]
    <3>1. Seen(w) = {addr[w]}
      BY <2>1 DEF Seen
    <3>. QED
      BY <2>3, <3>1 DEF Translation
  <2>5. CASE Disabled(w) \/ Translate(w) \/ Fill(w) \/ NotTranslated(w) \/ Decoded(w)
    <3>1. /\ report' = report
          /\ \/ pc'[w] \in {"done", "fill", "take"}
             \/ pc'[w] = "message" /\ next'[w] = 1 /\ ~machine.adxl
      <4>1. CASE Disabled(w) \/ NotTranslated(w)
        BY <4>1, GoesFacts DEF Disabled, NotTranslated
      <4>2. CASE Translate(w)
        BY <4>2, GoesFacts DEF Translate
      <4>3. CASE Fill(w)
        BY <4>3, RoundFacts DEF Fill
      <4>4. CASE Decoded(w)
        BY <4>4, GoesFacts DEF Decoded
      <4>. QED
        BY <2>5, <4>1, <4>2, <4>3, <4>4
    <3>. QED
      BY <1>1, <1>5, <2>3, <3>1 DEF Undisturbed, Reported
  <2>6. CASE TakeValues(w)
    <3>1. /\ pc[w] = "take" /\ report' = report /\ len' = len
          /\ pc'[w] = "take" \/ (pc'[w] = "text" /\ next'[w] = 1)
      BY <2>6, RoundFacts DEF TakeValues
    <3>2. len[w] = 0
      BY <3>1 DEF Loops
    <3>3. Pieces(adxl_msg, 0)' /\ Content(adxl_msg, 0)' = {} /\ Present(w, 0) = {}
      BY DEF Pieces, Content, Present
    <3>4. pc'[w] = "text" => Making(w)'
      BY <2>2, <3>1, <3>2, <3>3 DEF Making
    <3>. QED
      BY <1>5, <2>3, <3>1, <3>4 DEF Undisturbed, Reported
  <2>7. CASE SkipAbsent(w)
    <3>1. /\ pc[w] = "text" /\ adxl_msg' = adxl_msg /\ len' = len /\ report' = report
          /\ Absent(next[w], adxl_values[next[w]])
          /\ \/ next[w] = adxl_component_count /\ pc'[w] = "message" /\ next'[w] = 1
             \/ next[w] # adxl_component_count /\ pc'[w] = "text" /\ next'[w] = next[w] + 1
      BY <2>7, RoundFacts DEF SkipAbsent, shared
    <3>2. next[w] \in Components /\ machine.adxl /\ Absent(next[w], addr[w])
      BY <2>3, <2>4, <3>1 DEF Loops, Private
    <3>3. Present(w, next[w]) = Present(w, next[w] - 1)
      <4>1. \A x : x \in 1 .. next[w] /\ ~Absent(x, addr[w])
                     <=> x \in 1 .. next[w] - 1 /\ ~Absent(x, addr[w])
        BY <3>2 DEF Components
      <4>. QED
        BY <4>1 DEF Present
    <3>4. Making(w)
      BY <2>3, <3>1 DEF Undisturbed
    <3>5. CASE pc'[w] = "text"
      <4>1. Making(w)'
        BY <2>2, <3>1, <3>2, <3>3, <3>4, <3>5 DEF Making, Pieces, Content, Components
      <4>. QED
        BY <1>5, <2>3, <3>1, <3>5, <4>1 DEF Undisturbed, Reported
    <3>6. CASE pc'[w] = "message"
      <4>1. OwnText(w) # {} => Complete(adxl_msg, OwnText(w))
        BY <1>2, <3>1, <3>2, <3>3, <3>4, <3>6, TextDone DEF Making
      <4>2. Complete(adxl_msg, OwnText(w))' = Complete(adxl_msg, OwnText(w))
        BY <2>2, <3>1 DEF Complete, Pieces, Content
      <4>. QED
        BY <1>5, <2>2, <2>3, <3>1, <3>6, <4>1, <4>2 DEF Undisturbed, Reported
    <3>. QED
      BY <3>1, <3>5, <3>6
  <2>8. CASE IsPresent(w)
    <3>1. /\ pc[w] = "text" /\ pc'[w] = "print" /\ ~Absent(next[w], adxl_values[next[w]])
          /\ next' = next /\ len' = len /\ adxl_msg' = adxl_msg /\ report' = report
      BY <1>2, <2>8 DEF IsPresent, shared
    <3>2. ~Absent(next[w], addr[w]) /\ Making(w)
      BY <2>3, <2>4, <3>1 DEF Loops, Private, Undisturbed
    <3>3. Making(w)'
      BY <2>2, <3>1, <3>2 DEF Making, Pieces, Content
    <3>. QED
      BY <1>5, <2>1, <2>3, <3>1, <3>2, <3>3 DEF Undisturbed, Reported
  <2>9. CASE MakeText(w)
    <3>. DEFINE n == len[w]
                k == next[w]
    <3>1. /\ pc[w] = "print" /\ len'[w] = n + 1 /\ report' = report
          /\ adxl_msg' = [adxl_msg EXCEPT ![n + 1] = <<k, adxl_values[k]>>, ![n + 2] = End]
          /\ \/ k = adxl_component_count /\ pc'[w] = "message" /\ next'[w] = 1
             \/ k # adxl_component_count /\ pc'[w] = "text" /\ next'[w] = k + 1
      BY <1>2, <2>9, RoundFacts DEF MakeText
    <3>2. k \in Components /\ machine.adxl /\ adxl_values[k] = addr[w] /\ n < k /\ n \in Nat
      BY <1>2, <2>3, <2>4, <3>1 DEF Loops, Private
    <3>3. ~Absent(k, addr[w]) /\ Pieces(adxl_msg, n) /\ Content(adxl_msg, n) = Present(w, k - 1)
      BY <2>3, <3>1 DEF Undisturbed, Making
    <3>. HIDE DEF n, k
    <3>4. /\ n + 1 \in Cells /\ n + 2 \in Cells /\ 1 .. n \subseteq Cells
          /\ n + 1 \in 0 .. adxl_component_count
      BY <3>2, Sizes DEF Cells, Components
    <3>5. /\ adxl_msg'[n + 1] = <<k, addr[w]>> /\ adxl_msg'[n + 2] = End
          /\ \A i \in 1 .. n : adxl_msg'[i] = adxl_msg[i]
      BY <1>2, <3>1, <3>2, <3>4
    <3>6. 1 .. n + 1 = (1 .. n) \cup {n + 1} /\ 1 .. k = (1 .. k - 1) \cup {k}
      BY <3>2 DEF Components
    <3>7. Pieces(adxl_msg', n + 1)
      BY <3>3, <3>5, <3>6, TextFacts DEF Pieces
    <3>8. Content(adxl_msg', n + 1) = Content(adxl_msg, n) \cup {<<k, addr[w]>>}
      BY <3>5, <3>6 DEF Content
    <3>9. Present(w, k) = Present(w, k - 1) \cup {<<k, addr[w]>>}
      BY <3>3, <3>6 DEF Present
    <3>10. Content(adxl_msg', n + 1) = Present(w, k)
      BY <3>3, <3>8, <3>9
    <3>11. CASE pc'[w] = "text"
      <4>1. next'[w] = k + 1 /\ next'[w] - 1 = k /\ n + 1 + 1 = n + 2
        BY <3>1, <3>2, <3>11 DEF Components
      <4>2. Present(w, next[w] - 1)' = Present(w, k)
        BY <2>1, <4>1 DEF Present
      <4>3. Content(adxl_msg, len[w])' = Content(adxl_msg', n + 1)
        BY <3>1 DEF Content
      <4>4. Pieces(adxl_msg, len[w])' /\ (len[w] > 0 => adxl_msg[len[w] + 1] = End)'
        BY <3>1, <3>5, <3>7, <4>1 DEF Pieces
      <4>5. Making(w)'
        BY <3>10, <4>2, <4>3, <4>4 DEF Making
      <4>. QED
        BY <1>5, <2>3, <3>1, <3>11, <4>5 DEF Undisturbed, Reported
    <3>12. CASE pc'[w] = "message"
      <4>1. k = adxl_component_count /\ next'[w] = 1 /\ n + 1 + 1 = n + 2
        BY <3>1, <3>2, <3>12
      <4>2. OwnText(w) # {} => Complete(adxl_msg', OwnText(w))
        BY <3>2, <3>4, <3>5, <3>7, <3>10, <4>1, TextDone
      <4>3. Complete(adxl_msg, OwnText(w))' = Complete(adxl_msg', OwnText(w))
        BY <2>2 DEF Complete, Pieces, Content
      <4>. QED
        BY <1>5, <2>2, <2>3, <3>1, <3>12, <4>1, <4>2, <4>3 DEF Undisturbed, Reported
    <3>. QED
      BY <3>1, <3>11, <3>12
  <2>10. CASE Message(w)
    <3>. DEFINE k == next[w]
    <3>1. PICK p \in res[w] :
            /\ HasMci(p)
            /\ Round(w, "message", "message", IF Source(p)[k] = End THEN k ELSE 0, "report")
            /\ skx_msg' = [skx_msg EXCEPT ![k] = Source(p)[k]]
      <4>1. k \in Cells
        BY DEF Types
      <4>2. \A p : Source(p)[k] = IF machine.adxl THEN adxl_msg[k] ELSE Piece(p, k)
        BY <4>1 DEF Source
      <4>. QED
        BY <2>10, <4>2 DEF Message
    <3>2. pc[w] = "message" /\ adxl_msg' = adxl_msg /\ res' = res /\ report' = report /\ k \in Cells
      BY <2>10, <3>1, RoundFacts DEF Message, Types
    <3>3. res[w] = {p} /\ \A q : Source(q)' = Source(q)
      BY <1>1, <3>1, <3>2 DEF Types, AtMostOne, Source
    <3>4. Complete(Source(p), OwnText(w))
      BY <2>1, <2>3, <3>1, <3>2, SourceComplete
    <3>5. \A i \in 1 .. k - 1 : skx_msg[i] = Source(p)[i] /\ skx_msg[i] # End
      BY <2>3, <3>1, <3>2 DEF Undisturbed
    <3>6. pc'[w] = IF Source(p)[k] = End THEN "report" ELSE "message"
      BY <3>1, <3>2, RoundFacts, Sizes DEF Cells
    <3>7. next'[w] = IF Source(p)[k] = End THEN 1 ELSE k + 1
      BY <3>1, <3>2, RoundFacts, Sizes DEF Cells
    <3>. HIDE DEF k
    <3>8. skx_msg'[k] = Source(p)[k] /\ \A i \in 1 .. k - 1 : skx_msg'[i] = skx_msg[i]
      BY <1>2, <3>1, <3>2, Sizes DEF Cells
    <3>9. CASE Source(p)[k] # End
      <4>1. pc'[w] = "message" /\ next'[w] = k + 1
        BY <3>6, <3>7, <3>9
      <4>2. \A i \in 1 .. k + 1 - 1 : i = k \/ i \in 1 .. k - 1
        BY <3>2 DEF Cells
      <4>3. \A i \in 1 .. k + 1 - 1 : skx_msg'[i] = Source(p)[i] /\ skx_msg'[i] # End
        BY <3>5, <3>8, <3>9, <4>2
      <4>4. ASSUME NEW q \in res'[w], NEW i \in 1 .. next'[w] - 1
            PROVE  skx_msg'[i] = Source(q)'[i] /\ skx_msg'[i] # End
        <5>1. q = p /\ i \in 1 .. k + 1 - 1
          BY <3>2, <3>3, <4>1 DEF Cells
        <5>2. Source(q)' = Source(p)
          BY <3>3, <5>1
        <5>. QED
          BY <4>3, <5>1, <5>2
      <4>5. machine.adxl /\ OwnText(w) # {} => Complete(adxl_msg, OwnText(w))
        BY <2>3, <3>2 DEF Undisturbed
      <4>6. Complete(adxl_msg, OwnText(w))' = Complete(adxl_msg, OwnText(w))
        BY <2>2, <3>2 DEF Complete, Pieces, Content
      <4>. QED
        BY <1>1, <1>5, <2>2, <2>3, <3>2, <4>1, <4>4, <4>5, <4>6 DEF Undisturbed, Reported
    <3>10. CASE Source(p)[k] = End
      <4>1. pc'[w] = "report" /\ next'[w] = 1
        BY <3>6, <3>7, <3>10
      <4>2. Pieces(Source(p), k - 1) /\ Content(Source(p), k - 1) = OwnText(w)
        BY <3>2, <3>4, <3>5, <3>10, WholeText DEF Pieces
      <4>3. Pieces(skx_msg', k - 1) /\ skx_msg'[k] = End
        BY <3>5, <3>8, <3>10 DEF Pieces
      <4>4. Content(skx_msg', k - 1) = Content(Source(p), k - 1)
        BY <3>5, <3>8 DEF Content
      <4>5. k - 1 \in 0 .. adxl_component_count /\ k - 1 + 1 = k
        BY <3>2, Sizes DEF Cells
      <4>6. Complete(skx_msg', OwnText(w))
        BY <4>2, <4>3, <4>4, <4>5 DEF Complete
      <4>7. Complete(skx_msg, OwnText(w))' = Complete(skx_msg', OwnText(w))
        BY <2>2 DEF Complete, Pieces, Content
      <4>8. report'[w].msg = {}
        BY <2>3, <3>2 DEF Private
      <4>9. Pieces(skx_msg, next[w] - 1)' /\ Content(skx_msg, next[w] - 1)' = {}
        BY <4>1 DEF Pieces, Content
      <4>. QED
        BY <1>5, <2>3, <3>2, <4>1, <4>6, <4>7, <4>8, <4>9 DEF Undisturbed, Reported
    <3>. QED
      BY <3>9, <3>10
  <2>11. CASE Report(w)
    <3>. DEFINE k == next[w]
    <3>1. /\ pc[w] = "report" /\ skx_msg' = skx_msg /\ k \in Cells
          /\ pc'[w] = IF skx_msg[k] = End THEN "done" ELSE "report"
          /\ next'[w] = IF skx_msg[k] = End THEN 1 ELSE k + 1
      <4>1. /\ Round(w, "report", "report", IF skx_msg[k] = End THEN k ELSE 0, "done")
            /\ skx_msg' = skx_msg /\ k \in Cells
        BY <2>11 DEF Report, Types, shared
      <4>2. pc[w] = "report" /\ pc'[w] = IF skx_msg[k] = End THEN "done" ELSE "report"
        BY <4>1, RoundFacts, Sizes DEF Cells
      <4>3. next'[w] = IF skx_msg[k] = End THEN 1 ELSE k + 1
        BY <4>1, RoundFacts, Sizes DEF Cells
      <4>. QED
        BY <4>1, <4>2, <4>3
    <3>2. report'[w].msg = IF skx_msg[k] = End THEN report[w].msg ELSE report[w].msg \cup {skx_msg[k]}
      BY <1>2, <2>11 DEF Report
    <3>3. /\ Complete(skx_msg, OwnText(w)) /\ Pieces(skx_msg, k - 1)
          /\ report[w].msg = Content(skx_msg, k - 1)
      BY <2>3, <3>1 DEF Undisturbed
    <3>. HIDE DEF k
    <3>4. CASE skx_msg[k] = End
      <4>1. Content(skx_msg, k - 1) = OwnText(w)
        BY <3>1, <3>3, <3>4, WholeText
      <4>. QED
        BY <1>5, <2>2, <3>1, <3>2, <3>3, <3>4, <4>1 DEF Undisturbed
    <3>5. CASE skx_msg[k] # End
      <4>1. pc'[w] = "report" /\ next'[w] - 1 = k
        BY <3>1, <3>5 DEF Cells
      <4>2. 1 .. k = (1 .. k - 1) \cup {k}
        BY <3>1 DEF Cells
      <4>3. Pieces(skx_msg, k) /\ Content(skx_msg, k) = Content(skx_msg, k - 1) \cup {skx_msg[k]}
        BY <3>3, <3>5, <4>2 DEF Pieces, Content
      <4>4. Pieces(skx_msg, next[w] - 1)' /\ (report[w].msg = Content(skx_msg, next[w] - 1))'
        <5>1. Content(skx_msg, next[w] - 1)' = Content(skx_msg, k)
          BY <3>1, <4>1 DEF Content
        <5>2. Pieces(skx_msg, next[w] - 1)'
          BY <3>1, <4>1, <4>3 DEF Pieces
        <5>3. report'[w].msg = Content(skx_msg, k)
          BY <3>2, <3>3, <3>5, <4>3
        <5>. QED
          BY <5>1, <5>2, <5>3
      <4>5. Complete(skx_msg, OwnText(w))'
        BY <2>2, <3>1, <3>3 DEF Complete, Pieces, Content
      <4>6. ~Reported(w)'
        <5>1. report'[w].place = report[w].place
          BY <1>2, <2>11, <3>5 DEF Report, k
        <5>. QED
          BY <2>3, <5>1 DEF Reported
      <4>. QED
        BY <1>5, <4>1, <4>4, <4>5, <4>6 DEF Undisturbed
    <3>. QED
      BY <3>4, <3>5
  <2>. QED
    BY <1>5, <2>5, <2>6, <2>7, <2>8, <2>9, <2>10, <2>11 DEF WriteStep
<1>. QED
  BY <1>3, <1>4, <1>5

-----------------------------------------------------------------------------
(* Every step.                                                             *)

LEMMA DecodeInit == Init => DecodeInv
<1>. SUFFICES ASSUME Init PROVE DecodeInv
  OBVIOUS
<1>1. /\ machine \in Machines /\ DimmInit /\ pc = [w \in Writes |-> "idle"]
      /\ \A w \in Writes : ~Reported(w)
  BY DEF Init, Reported
<1>2. DimmTypes
  <2>1. Len(machine.sockets) \in Nat
    BY <1>1, MachineFacts DEF IsTable
  <2>2. \A n \in Nat : 0 \in 0 .. 2 * 3 * n
    OBVIOUS
  <2>3. at \in 0 .. NumImc * NumChannels * Len(machine.sockets)
    BY <1>1, <2>1, <2>2 DEF DimmInit, NumImc, NumChannels
  <2>4. \A p \in Places : dimms[p] = Blank /\ size[p] = 0
    BY <1>1 DEF DimmInit
  <2>5. Blank.rowbits \in 0 .. 255 /\ Blank.colbits \in 0 .. 255
    BY DEF Blank
  <2>6. DOMAIN dimms = Places /\ DOMAIN size = Places /\ phase = "config" /\ nvdimm = FALSE
    BY <1>1 DEF DimmInit
  <2>7. \A p \in Places : /\ dimms[p].rowbits \in 0 .. 255 /\ dimms[p].colbits \in 0 .. 255
                           /\ size[p] \in Nat \cup {Garbage}
    BY <2>4, <2>5
  <2>. QED
    BY <2>3, <2>6, <2>7 DEF DimmTypes
<1>3. Types
  BY <1>1, <1>2, Sizes DEF Init, Types, Steps, AtMostOne, Cells, NoText
<1>4. ASSUME NEW p \in Places PROVE Learnt(p)
  BY <1>1 DEF DimmInit, Learnt
<1>5. ASSUME NEW w \in Writes PROVE OfWrite(w) /\ \A v \in Writes : Meeting(v, w)
  <2>1. len[w] = 0 /\ report[w].msg = {} /\ met[w] = {} /\ pc[w] = "idle" /\ ~Reported(w)
    BY <1>1 DEF Init
  <2>. QED
    BY <2>1 DEF OfWrite, Loops, Private, Translation, Undisturbed, Meeting, Running
<1>. QED
  BY <1>1, <1>3, <1>4, <1>5 DEF DecodeInv, FileLast

(* As long as the DIMMs are not known, no write has begun.                 *)
LEMMA ConfigureStep ==
  ASSUME DecodeInv, Configure
  PROVE  DecodeInv'
<1>1. machine' = machine /\ phase = "config" /\ DimmTypes' /\ (\A p \in Places : Learnt(p))'
  BY ConfigStep DEF DecodeInv, Types, Configure
<1>2. UNCHANGED <<pc, next, len, addr, res, adxl_values, adxl_msg, skx_msg, report, met>>
  BY DEF Configure, locals, shared
<1>3. \A w \in Writes : pc[w] = "idle"
  BY <1>1 DEF DecodeInv, FileLast
<1>4. Types'
  BY <1>1, <1>2 DEF DecodeInv, Types
<1>5. ASSUME NEW w \in Writes PROVE OfWrite(w)' /\ \A v \in Writes : Meeting(v, w)'
  <2>1. /\ pc'[w] = "idle" /\ ~Reported(w)' /\ len'[w] = 0 /\ report'[w].msg = {}
        /\ \A v \in Writes : Meeting(v, w)
    BY <1>2, <1>3 DEF DecodeInv, OfWrite, Private, Loops, Reported
  <2>2. \A v \in Writes : Meeting(v, w)'
    BY <1>2, <2>1 DEF Meeting, Running
  <2>. QED
    BY <2>1, <2>2 DEF OfWrite, Loops, Private, Translation, Undisturbed
<1>. QED
  BY <1>1, <1>2, <1>3, <1>4, <1>5 DEF DecodeInv, FileLast

LEMMA WriteInvStep ==
  ASSUME DecodeInv, NEW w \in Writes, WriteStep(w)
  PROVE  DecodeInv'
<1>1. /\ Types /\ (\A p \in Places : Learnt(p)) /\ Loops(w)
      /\ \A v \in Writes : OfWrite(v) /\ \A u \in Writes : Meeting(u, v)
  BY DEF DecodeInv, OfWrite
<1>2. Types'
  BY <1>1, WriteTypes
<1>3. UNCHANGED dimmVars /\ phase' = phase
  BY <1>1, WriteFrame DEF dimmVars
<1>4. (\A p \in Places : Learnt(p))'
  BY <1>1, <1>3, DimmSame DEF Types
<1>5. FileLast'
  <2>1. phase = "live"
    <3>1. CASE pc[w] = "idle"
      BY <1>1, <3>1, WriteFrame DEF Inject
    <3>2. CASE pc[w] # "idle"
      BY <3>2 DEF DecodeInv, FileLast
    <3>. QED
      BY <3>1, <3>2
  <2>. QED
    BY <1>3, <2>1 DEF FileLast
<1>6. ASSUME NEW v \in Writes PROVE OfWrite(v)' /\ \A u \in Writes : Meeting(u, v)'
  <2>1. Loops(v) /\ Private(v) /\ Translation(v) /\ (met[v] = {} => Undisturbed(v))
    BY <1>1 DEF OfWrite
  <2>2. Loops(v)' /\ Private(v)' /\ Translation(v)' /\ \A u \in Writes : Meeting(u, v)'
    BY <1>1, <2>1, LoopsStep, PrivateStep, TranslationStep, MeetingStep
  <2>3. ASSUME met'[v] = {} PROVE Undisturbed(v)'
    BY <1>1, <2>1, <2>3, UndisturbedStep
  <2>. QED
    BY <2>2, <2>3 DEF OfWrite
<1>. QED
  BY <1>2, <1>4, <1>5, <1>6 DEF DecodeInv

LEMMA IdleStep ==
  ASSUME DecodeInv, UNCHANGED vars
  PROVE  DecodeInv'
<1>1. /\ UNCHANGED dimmVars
      /\ UNCHANGED <<pc, next, len, addr, res, adxl_values, adxl_msg, skx_msg, report, met>>
  BY DEF vars, locals, shared
<1>2. machine' = machine /\ phase' = phase
  BY <1>1 DEF dimmVars
<1>3. DimmTypes' /\ (\A p \in Places : Learnt(p))'
  BY <1>1, DimmSame DEF DecodeInv, Types
<1>4. Types'
  BY <1>1, <1>2, <1>3 DEF DecodeInv, Types
<1>5. FileLast'
  BY <1>1, <1>2 DEF DecodeInv, FileLast
<1>6. ASSUME NEW v \in Writes PROVE OfWrite(v)' /\ \A u \in Writes : Meeting(u, v)'
  <2>1. Decode(addr[v])' = Decode(addr[v]) /\ OwnText(v)' = OwnText(v)
    BY <1>1, OwnSame
  <2>2. OfWrite(v) /\ \A u \in Writes : Meeting(u, v)
    BY DEF DecodeInv
  <2>3. Loops(v)' /\ Private(v)' /\ \A u \in Writes : Meeting(u, v)'
    BY <1>1, <1>2, <2>1, <2>2 DEF OfWrite, Loops, Private, Meeting, Running, Reported
  <2>4. Translation(v)'
    BY <1>1, <1>2, <2>2 DEF OfWrite, Translation, PlaceSeen, Seen, Reported
  <2>5. Making(v)' <=> Making(v)
    BY <1>1 DEF Making, Pieces, Content, Present
  <2>6. \A t, S : Complete(t, S)' <=> Complete(t, S)
    BY DEF Complete, Pieces, Content
  <2>7. \A p : Source(p)' = Source(p)
    BY <1>1, <1>2 DEF Source
  <2>8. met'[v] = {} => Undisturbed(v)'
    BY <1>1, <1>2, <2>1, <2>2, <2>5, <2>7 DEF OfWrite, Undisturbed, Complete, Pieces, Content, Reported
  <2>. QED
    BY <2>2, <2>3, <2>4, <2>8 DEF OfWrite
<1>. QED
  BY <1>3, <1>4, <1>5, <1>6 DEF DecodeInv

LEMMA DecodeInvariant == Spec => []DecodeInv
<1>1. Init => DecodeInv
  BY DecodeInit
<1>2. DecodeInv /\ [Next]_vars => DecodeInv'
  BY NextCases, ConfigureStep, WriteInvStep, IdleStep
<1>. QED
  BY <1>1, <1>2, PTL DEF Spec

(* Whatever the registers of a machine hold and however many write the     *)
(* file: a DIMM's row and column counts fit their bytes, an address is     *)
(* decoded to one place at most, and each variable has its type.           *)
THEOREM TypeCorrect == Spec => []TypeOK
<1>1. DecodeInv => TypeOK
  <2>. SUFFICES ASSUME DecodeInv PROVE TypeOK
    OBVIOUS
  <2>1. Cardinality(Sockets) = Len(machine.sockets)
    <3>1. Len(machine.sockets) \in Nat /\ Sockets = 1 .. Len(machine.sockets)
      BY MachineFacts DEF DecodeInv, Types, IsTable, Sockets
    <3>. QED
      BY <3>1, FS_Interval
  <2>2. DimmTypeOK
    BY <2>1 DEF DecodeInv, Types, DimmTypes, DimmTypeOK
  <2>3. \A w \in Writes : Cardinality(res[w]) <= 1
    BY OneOrNone DEF DecodeInv, Types
  <2>. QED
    BY <2>2, <2>3 DEF DecodeInv, Types, Steps, TypeOK
<1>. QED
  BY <1>1, DecodeInvariant, PTL

(* Without firmware translation a report has the place of the address      *)
(* written, whoever writes meanwhile.  With it, each part of the place is  *)
(* of the address written or of that of a write that ran at the same time: *)
(* adxl_values is filled and read one by one and without a lock.  And the  *)
(* message, made and read piece by piece in two buffers of all writes, is  *)
(* whole and of the address written if no other write ran at the same time. *)
THEOREM OwnPlaceHolds == Spec => []OwnPlace
<1>1. DecodeInv => OwnPlace
  <2>. SUFFICES ASSUME DecodeInv, NEW w \in Writes, Reported(w)
                PROVE  /\ IF machine.adxl
                             THEN \A p \in report[w].place, f \in Fields : p[f] \in Seen(w)
                             ELSE report[w].place = Decode(addr[w])
                       /\ met[w] = {} => report[w].msg = OwnText(w)
    BY DEF OwnPlace, Seen
  <2>1. Private(w) /\ Translation(w) /\ (met[w] = {} => Undisturbed(w))
    BY DEF DecodeInv, OfWrite
  <2>. QED
    BY <2>1 DEF Private, Translation, PlaceSeen, Undisturbed
<1>. QED
  BY <1>1, DecodeInvariant, PTL

-----------------------------------------------------------------------------
(* The bits of an address within a rank.                                   *)

LEMMA PowerLess ==
  ASSUME NEW n \in Nat, NEW m \in Nat, n < m
  PROVE  2 ^ n < 2 ^ m
<1>. DEFINE S == SUBSET (1 .. n)
            T == SUBSET (1 .. m)
<1>1. /\ IsFiniteSet(S) /\ Cardinality(S) = 2 ^ n
      /\ IsFiniteSet(T) /\ Cardinality(T) = 2 ^ m
  BY SubsetsOf
<1>2. S \in SUBSET T
  OBVIOUS
<1>3. 1 .. m \in T /\ 1 .. m \notin S
  OBVIOUS
<1>. HIDE DEF S, T
<1>4. Cardinality(S) <= Cardinality(T) /\ Cardinality(S) # Cardinality(T)
  BY <1>1, <1>2, <1>3, FS_Subset
<1>5. Cardinality(S) \in Nat /\ Cardinality(T) \in Nat
  BY <1>1, FS_CardinalityType
<1>. QED
  BY <1>1, <1>4, <1>5

LEMMA PowerNext ==
  ASSUME NEW n \in Nat
  PROVE  2 ^ (n + 1) = 2 * 2 ^ n
<1>. DEFINE S == SUBSET (1 .. n)
            T == {s \cup {n + 1} : s \in S}
            f == [s \in S |-> s \cup {n + 1}]
<1>1. IsFiniteSet(S) /\ Cardinality(S) = 2 ^ n /\ Cardinality(S) \in Nat
  BY SubsetsOf, FS_CardinalityType
<1>2. Cardinality(SUBSET (1 .. n + 1)) = 2 ^ (n + 1)
  BY SubsetsOf
<1>3. \A s \in S : n + 1 \notin s
  OBVIOUS
<1>4. f \in Bijection(S, T)
  <2>1. \A a, b \in S : f[a] = f[b] => a = b
    BY <1>3
  <2>2. \A t \in T : \E s \in S : f[s] = t
    OBVIOUS
  <2>3. f \in [S -> T]
    OBVIOUS
  <2>. HIDE DEF f, T, S
  <2>. QED
    BY <2>1, <2>2, <2>3 DEF Bijection, Injection, Surjection, IsInjective
<1>5. IsFiniteSet(T) /\ Cardinality(T) = Cardinality(S)
  BY <1>1, <1>4, FS_Bijection DEF ExistsBijection
<1>6. S \cap T = {}
  BY <1>3
<1>7. SUBSET (1 .. n + 1) = S \cup T
  <2>0. 1 .. n \subseteq 1 .. n + 1 /\ n + 1 \in 1 .. n + 1
    OBVIOUS
  <2>1. S \cup T \subseteq SUBSET (1 .. n + 1)
    BY <2>0
  <2>2. ASSUME NEW u \in SUBSET (1 .. n + 1) PROVE u \in S \cup T
    <3>1. CASE n + 1 \notin u
      BY <3>1
    <3>2. CASE n + 1 \in u
      <4>1. u \ {n + 1} \in S
        OBVIOUS
      <4>2. u = (u \ {n + 1}) \cup {n + 1}
        BY <3>2
      <4>. QED
        BY <4>1, <4>2
    <3>. QED
      BY <3>1, <3>2
  <2>. QED
    BY <2>1, <2>2
<1>. HIDE DEF S, T
<1>8. Cardinality(S \cup T) = Cardinality(S) + Cardinality(T) - Cardinality({})
  BY <1>1, <1>5, <1>6, FS_Union
<1>9. \A c \in Nat : c + c - 0 = 2 * c
  OBVIOUS
<1>10. 2 ^ (n + 1) = 2 * Cardinality(S)
  BY <1>1, <1>2, <1>5, <1>7, <1>8, <1>9, FS_EmptySet
<1>. QED
  BY <1>1, <1>10

LEMMA RankSize ==
  ASSUME NEW n \in Nat, NEW q \in Nat, NEW r \in 0 .. 2
  PROVE  (2 ^ n * 2 ^ r = 2 ^ (q + r)) <=> (n = q)
<1>. DEFINE x == 2 ^ n
            y == 2 ^ q
<1>1. 2 ^ 0 = 1 /\ 2 ^ 1 = 2 /\ 2 ^ 2 = 4
  BY SMT
<1>2. 2 ^ (q + 1) = 2 * y /\ 2 ^ ((q + 1) + 1) = 2 * 2 ^ (q + 1)
  BY PowerNext
<1>3. x \in Nat /\ y \in Nat
  BY PowerOfTwo
<1>4. (x = y) <=> (n = q)
  <2>1. n < q => x < y
    BY PowerLess
  <2>2. q < n => y < x
    BY PowerLess
  <2>. HIDE DEF x, y
  <2>3. n = q => x = y
    BY DEF x, y
  <2>. QED
    BY <1>3, <2>1, <2>2, <2>3
<1>5. CASE r = 0
  <2>1. q + r = q
    BY <1>5
  <2>. QED
    BY <1>1, <1>3, <1>4, <1>5, <2>1
<1>6. CASE r = 1
  <2>1. q + r = q + 1
    BY <1>6
  <2>. QED
    BY <1>1, <1>2, <1>3, <1>4, <1>6, <2>1
<1>7. CASE r = 2
  <2>1. q + r = (q + 1) + 1
    BY <1>7
  <2>2. 2 ^ (q + r) = 4 * y
    BY <1>2, <1>3, <2>1
  <2>. QED
    BY <1>1, <1>3, <1>4, <1>7, <2>2
<1>. QED
  BY <1>5, <1>6, <1>7

(* A DIMM that the tables can take has 13 to 17 row and 10 column bits,    *)
(* and the size that the driver computed for it is that of its ranks.      *)
LEMMA InTablesFacts ==
  ASSUME machine \in Machines, NEW p \in Places, Learnt(p), InTables(p)
  PROVE  /\ dimms[p].rowbits \in 13 .. 17 /\ dimms[p].colbits = 10
         /\ RankBits(p) = 3 .. dimms[p].rowbits + 16
<1>. DEFINE mtr == SlotAt(p)
            n   == dimms[p].rowbits
<1>1. /\ mtr.ranks \in Nat /\ mtr.rows \in Nat /\ mtr.cols \in Nat
      /\ mtr.ranks \in 0 .. 2 /\ n <= 17 /\ dimms[p].colbits <= 10
  BY SlotFacts DEF InTables, CloseRow, CloseColumn
<1>2. dimms[p] = DimmOf(p) /\ size[p] = SizeOf(mtr)
  <2>1. mtr.kind = "ddr4" /\ size[p] > 0
    BY DEF InTables
  <2>. QED
    BY <2>1 DEF Learnt
<1>. HIDE DEF mtr
<1>3. n = U8(NumRow(mtr)) /\ dimms[p].colbits = U8(NumCol(mtr))
  BY <1>2 DEF DimmOf, DimmInfo, mtr
<1>4. n \in 13 .. 17 /\ NumRow(mtr) = n
  BY <1>1, <1>3 DEF NumRow, Attr, U8, EINVAL
<1>5. dimms[p].colbits = 10 /\ NumCol(mtr) = 10
  BY <1>1, <1>3 DEF NumCol, Attr, U8, EINVAL
<1>6. NumRank(mtr) = mtr.ranks
  BY <1>1 DEF NumRank, Attr, EINVAL
<1>. HIDE DEF n
<1>7. size[p] = 2 ^ ((n - 3) + mtr.ranks)
  <2>. DEFINE bits == NumRow(mtr) + NumCol(mtr) + NumRank(mtr)
  <2>1. bits \in Nat /\ bits >= 13 /\ bits + 4 - 17 = (n - 3) + mtr.ranks
    BY <1>1, <1>4, <1>5, <1>6
  <2>2. SizeOf(mtr) = IF bits < 0 THEN Garbage ELSE IF bits + 4 < 17 THEN 0 ELSE 2 ^ (bits + 4 - 17)
    BY DEF SizeOf
  <2>. HIDE DEF bits
  <2>3. SizeOf(mtr) = 2 ^ (bits + 4 - 17)
    BY <2>1, <2>2
  <2>. QED
    BY <1>2, <2>1, <2>3
<1>8. \A b \in 20 .. 60 : (2 ^ (b - 20) * 2 ^ mtr.ranks = size[p]) <=> (b = n + 17)
  <2>. TAKE b \in 20 .. 60
  <2>. DEFINE k == b - 20
              q == n - 3
  <2>1. k \in Nat /\ q \in Nat /\ ((k = q) <=> (b = n + 17))
    BY <1>4
  <2>2. size[p] = 2 ^ (q + mtr.ranks)
    BY <1>7
  <2>. HIDE DEF q
  <2>3. \A m \in Nat : (2 ^ m * 2 ^ mtr.ranks = 2 ^ (q + mtr.ranks)) <=> (m = q)
    <3>1. mtr.ranks \in 0 .. 2 /\ q \in Nat
      BY <1>1, <2>1
    <3>. QED
      BY <3>1, RankSize, Zenon
  <2>4. (2 ^ k * 2 ^ mtr.ranks = size[p]) <=> (k = q)
    BY <2>1, <2>2, <2>3
  <2>. QED
    BY <2>1, <2>4
<1>9. (CHOOSE b \in 20 .. 60 : 2 ^ (b - 20) * 2 ^ mtr.ranks = size[p]) = n + 17
  <2>1. n + 17 \in 20 .. 60
    BY <1>4
  <2>. QED
    BY <1>8, <2>1
<1>10. RankBits(p) = 3 .. (n + 17) - 1
  BY <1>9 DEF RankBits, mtr
<1>. QED
  BY <1>4, <1>5, <1>10 DEF n

LEMMA Tables ==
  /\ CloseRow[1] = 15 /\ CloseRow[2] = 16 /\ CloseRow[3] = 17 /\ CloseRow[4] = 18
  /\ CloseRow[5] = 20 /\ CloseRow[6] = 21 /\ CloseRow[7] = 22 /\ CloseRow[8] = 28
  /\ CloseRow[9] = 10 /\ CloseRow[10] = 11 /\ CloseRow[11] = 12 /\ CloseRow[12] = 13
  /\ OpenRow[1] = 14 /\ OpenRow[2] = 15 /\ OpenRow[3] = 16 /\ OpenRow[4] = 20
  /\ OpenRow[5] = 28 /\ OpenRow[6] = 21 /\ OpenRow[7] = 22 /\ OpenRow[8] = 23
  /\ OpenRow[9] = 24 /\ OpenRow[10] = 25 /\ OpenRow[11] = 26 /\ OpenRow[12] = 27
  /\ \A row \in {CloseRow, OpenRow} :
       /\ DOMAIN row = 1 .. 17
       /\ row[13] = 29 /\ row[14] = 30 /\ row[15] = 31 /\ row[16] = 32 /\ row[17] = 33
  /\ \A column \in {CloseColumn, OpenColumn, FineColumn} :
       DOMAIN column = 1 .. 10 /\ column[1] = 3 /\ column[2] = 4 /\ column[3] = 5
  /\ CloseColumn[4] = 14 /\ CloseColumn[5] = 19 /\ CloseColumn[6] = 23 /\ CloseColumn[7] = 24
  /\ CloseColumn[8] = 25 /\ CloseColumn[9] = 26 /\ CloseColumn[10] = 27
  /\ OpenColumn[4] = 6 /\ OpenColumn[5] = 7 /\ OpenColumn[6] = 8 /\ OpenColumn[7] = 9
  /\ OpenColumn[8] = 10 /\ OpenColumn[9] = 11 /\ OpenColumn[10] = 12
  /\ FineColumn[4] = 7 /\ FineColumn[5] = 8 /\ FineColumn[6] = 9 /\ FineColumn[7] = 10
  /\ FineColumn[8] = 11 /\ FineColumn[9] = 12 /\ FineColumn[10] = 13
BY DEF CloseRow, OpenRow, CloseColumn, OpenColumn, FineColumn

Alike(a, b, x) == x \in a <=> x \in b

LEMMA BitsAlike ==
  ASSUME NEW a, NEW b, NEW n \in Nat, NEW t, NEW m \in Nat, DOMAIN t = 1 .. m, n <= m
  PROVE  (Bits(a, n, t) = Bits(b, n, t)) <=> \A k \in 1 .. n : Alike(a, b, t[k])
<1>1. \A k : k \in 1 .. n => k \in DOMAIN t
  OBVIOUS
<1>2. \A k : (k \in Bits(a, n, t) <=> (k \in 1 .. n /\ t[k] \in a))
         /\ (k \in Bits(b, n, t) <=> (k \in 1 .. n /\ t[k] \in b))
  BY <1>1 DEF Bits
<1>3. (Bits(a, n, t) = Bits(b, n, t)) <=> \A k : (k \in Bits(a, n, t) <=> k \in Bits(b, n, t))
  OBVIOUS
<1>. QED
  BY <1>2, <1>3, Zenon DEF Alike

(* Where the bits of a xor are alike, so are those it is made to.          *)
LEMMA BanksAlike ==
  ASSUME NEW a, NEW b, NEW y1, NEW y2, NEW x1, NEW x2, NEW xor,
         Alike(a, b, x1), Alike(a, b, x2)
  PROVE  (BankBits(a, <<y1, y2>>, xor, <<x1, x2>>) = BankBits(b, <<y1, y2>>, xor, <<x1, x2>>))
           <=> (Alike(a, b, y1) /\ Alike(a, b, y2))
<1>. DEFINE A == BankBits(a, <<y1, y2>>, xor, <<x1, x2>>)
            B == BankBits(b, <<y1, y2>>, xor, <<x1, x2>>)
<1>1. /\ A \subseteq {1, 2} /\ B \subseteq {1, 2}
      /\ 1 \in A <=> ((y1 \in a) # (xor /\ x1 \in a))
      /\ 2 \in A <=> ((y2 \in a) # (xor /\ x2 \in a))
      /\ 1 \in B <=> ((y1 \in b) # (xor /\ x1 \in b))
      /\ 2 \in B <=> ((y2 \in b) # (xor /\ x2 \in b))
  BY DEF BankBits
<1>2. (1 \in A <=> 1 \in B) <=> Alike(a, b, y1)
  BY <1>1 DEF Alike
<1>3. (2 \in A <=> 2 \in B) <=> Alike(a, b, y2)
  BY <1>1 DEF Alike
<1>4. (A = B) <=> ((1 \in A <=> 1 \in B) /\ (2 \in A <=> 2 \in B))
  BY <1>1
<1>. QED
  BY <1>2, <1>3, <1>4

(* Two addresses decode alike just if they are alike in every bit of the   *)
(* rank.                                                                   *)
LEMMA MadAlike ==
  ASSUME NEW dimm, dimm.rowbits \in 13 .. 17, dimm.colbits = 10, NEW a, NEW b
  PROVE  (MadDecode(dimm, a) = MadDecode(dimm, b))
           <=> \A x \in 3 .. dimm.rowbits + 16 : Alike(a, b, x)
<1>. DEFINE n   == dimm.rowbits
            xor == dimm.bank_xor_enable
            S(x) == Alike(a, b, x)
<1>0. n \in Nat /\ n <= 17 /\ 17 \in Nat /\ 10 \in Nat /\ 10 <= 10
  OBVIOUS
<1>1. (\A x \in 3 .. n + 16 : S(x)) <=>
        /\ S(3) /\ S(4) /\ S(5) /\ S(6) /\ S(7) /\ S(8) /\ S(9) /\ S(10) /\ S(11) /\ S(12)
        /\ S(13) /\ S(14) /\ S(15) /\ S(16) /\ S(17) /\ S(18) /\ S(19) /\ S(20) /\ S(21) /\ S(22)
        /\ S(23) /\ S(24) /\ S(25) /\ S(26) /\ S(27) /\ S(28) /\ S(29)
        /\ (n >= 14 => S(30)) /\ (n >= 15 => S(31)) /\ (n >= 16 => S(32)) /\ (n >= 17 => S(33))
  <2>. HIDE DEF S
  <2>. QED
    BY <1>0
<1>2. CASE dimm.close_pg
  <2>1. MadDecode(dimm, a) = MadDecode(dimm, b) <=>
          /\ Bits(a, n, CloseRow) = Bits(b, n, CloseRow)
          /\ Bits(a, 10, CloseColumn) = Bits(b, 10, CloseColumn)
          /\ BankBits(a, <<8, 9>>, xor, <<22, 28>>) = BankBits(b, <<8, 9>>, xor, <<22, 28>>)
          /\ BankBits(a, <<6, 7>>, xor, <<20, 21>>) = BankBits(b, <<6, 7>>, xor, <<20, 21>>)
    BY <1>2 DEF MadDecode
  <2>2. (Bits(a, n, CloseRow) = Bits(b, n, CloseRow)) <=>
          /\ S(15) /\ S(16) /\ S(17) /\ S(18) /\ S(20) /\ S(21) /\ S(22) /\ S(28) /\ S(10) /\ S(11)
          /\ S(12) /\ S(13) /\ S(29)
          /\ (n >= 14 => S(30)) /\ (n >= 15 => S(31)) /\ (n >= 16 => S(32)) /\ (n >= 17 => S(33))
    <3>1. (Bits(a, n, CloseRow) = Bits(b, n, CloseRow)) <=> \A k \in 1 .. n : S(CloseRow[k])
      BY <1>0, Tables, BitsAlike, Zenon
    <3>. HIDE DEF S
    <3>. QED
      BY <3>1, Tables
  <2>3. (Bits(a, 10, CloseColumn) = Bits(b, 10, CloseColumn)) <=>
          S(3) /\ S(4) /\ S(5) /\ S(14) /\ S(19) /\ S(23) /\ S(24) /\ S(25) /\ S(26) /\ S(27)
    <3>1. (Bits(a, 10, CloseColumn) = Bits(b, 10, CloseColumn))
            <=> \A k \in 1 .. 10 : S(CloseColumn[k])
      BY <1>0, Tables, BitsAlike, Zenon
    <3>. HIDE DEF S
    <3>. QED
      BY <3>1, Tables
  <2>4. S(20) /\ S(21) /\ S(22) /\ S(28) =>
          (/\ BankBits(a, <<8, 9>>, xor, <<22, 28>>) = BankBits(b, <<8, 9>>, xor, <<22, 28>>)
           /\ BankBits(a, <<6, 7>>, xor, <<20, 21>>) = BankBits(b, <<6, 7>>, xor, <<20, 21>>))
          <=> S(8) /\ S(9) /\ S(6) /\ S(7)
    BY BanksAlike
  <2>. QED
    BY <1>1, <2>1, <2>2, <2>3, <2>4, Zenon
<1>3. CASE ~dimm.close_pg
  <2>. DEFINE column == IF dimm.fine_grain_bank THEN FineColumn ELSE OpenColumn
              bg0    == IF dimm.fine_grain_bank THEN 6 ELSE 13
  <2>1. MadDecode(dimm, a) = MadDecode(dimm, b) <=>
          /\ Bits(a, n, OpenRow) = Bits(b, n, OpenRow)
          /\ Bits(a, 10, column) = Bits(b, 10, column)
          /\ BankBits(a, <<18, 19>>, xor, <<22, 23>>) = BankBits(b, <<18, 19>>, xor, <<22, 23>>)
          /\ BankBits(a, <<bg0, 17>>, xor, <<20, 21>>) = BankBits(b, <<bg0, 17>>, xor, <<20, 21>>)
    BY <1>3 DEF MadDecode
  <2>2. (Bits(a, n, OpenRow) = Bits(b, n, OpenRow)) <=>
          /\ S(14) /\ S(15) /\ S(16) /\ S(20) /\ S(28) /\ S(21) /\ S(22) /\ S(23) /\ S(24) /\ S(25)
          /\ S(26) /\ S(27) /\ S(29)
          /\ (n >= 14 => S(30)) /\ (n >= 15 => S(31)) /\ (n >= 16 => S(32)) /\ (n >= 17 => S(33))
    <3>1. (Bits(a, n, OpenRow) = Bits(b, n, OpenRow)) <=> \A k \in 1 .. n : S(OpenRow[k])
      BY <1>0, Tables, BitsAlike, Zenon
    <3>. HIDE DEF S
    <3>. QED
      BY <3>1, Tables
  <2>3. (Bits(a, 10, column) = Bits(b, 10, column)) /\ S(bg0) <=>
          /\ S(3) /\ S(4) /\ S(5) /\ S(6) /\ S(7) /\ S(8) /\ S(9) /\ S(10) /\ S(11) /\ S(12) /\ S(13)
    <3>1. (Bits(a, 10, column) = Bits(b, 10, column)) <=> \A k \in 1 .. 10 : S(column[k])
      <4>1. DOMAIN column = 1 .. 10
        BY Tables
      <4>. HIDE DEF column
      <4>. QED
        BY <1>0, <4>1, BitsAlike, Zenon
    <3>. HIDE DEF S
    <3>. QED
      BY <3>1, Tables
  <2>4. S(20) /\ S(21) /\ S(22) /\ S(23) =>
          (/\ BankBits(a, <<18, 19>>, xor, <<22, 23>>) = BankBits(b, <<18, 19>>, xor, <<22, 23>>)
           /\ BankBits(a, <<bg0, 17>>, xor, <<20, 21>>) = BankBits(b, <<bg0, 17>>, xor, <<20, 21>>))
          <=> S(18) /\ S(19) /\ S(bg0) /\ S(17)
    BY BanksAlike
  <2>. HIDE DEF column, bg0
  <2>. QED
    BY <1>1, <2>1, <2>2, <2>3, <2>4, Zenon
<1>. QED
  BY <1>2, <1>3

(* Row, column and banks tell all words of a rank apart, and nothing more. *)
THEOREM MadHolds == Spec => []MadExact
<1>1. DecodeInv => MadExact
  <2>. SUFFICES ASSUME DecodeInv, NEW p \in Places, InTables(p)
                PROVE  /\ \A word \in Words(RankBits(p)) :
                            MadDecode(dimms[p], word) # MadDecode(dimms[p], {})
                       /\ \A b \in (3 .. 33) \ RankBits(p) :
                            MadDecode(dimms[p], {b}) = MadDecode(dimms[p], {})
    BY DEF MadExact
  <2>. DEFINE R == RankBits(p)
  <2>1. /\ dimms[p].rowbits \in 13 .. 17 /\ dimms[p].colbits = 10
        /\ R = 3 .. dimms[p].rowbits + 16
    BY InTablesFacts DEF DecodeInv, Types
  <2>2. \A a, b : (MadDecode(dimms[p], a) = MadDecode(dimms[p], b)) <=> \A x \in R : Alike(a, b, x)
    BY <2>1, MadAlike
  <2>. HIDE DEF R
  <2>3. ASSUME NEW word \in Words(R)
        PROVE  MadDecode(dimms[p], word) # MadDecode(dimms[p], {})
    <3>1. \E x \in R : x \in word
      BY DEF Words
    <3>. QED
      BY <2>2, <3>1 DEF Alike
  <2>4. ASSUME NEW b \in (3 .. 33) \ R
        PROVE  MadDecode(dimms[p], {b}) = MadDecode(dimms[p], {})
    BY <2>2 DEF Alike
  <2>. QED
    BY <2>3, <2>4 DEF R
<1>. QED
  BY <1>1, DecodeInvariant, PTL

-----------------------------------------------------------------------------
(* The least of a set of numbers.                                          *)

LEMMA LeastExists ==
  ASSUME NEW S \in SUBSET Nat, NEW R,
         R = {ss \in Nat \X Nat : ss[1] < ss[2]},
         \E n \in S : \A k \in S : ~(<<k, n>> \in R)
  PROVE  \E n \in S : \A k \in S : n <= k
<1>1. PICK n \in S : \A k \in S : ~(<<k, n>> \in R)
  OBVIOUS
<1>2. ASSUME NEW k \in S PROVE n <= k
  <2>1. k \in Nat /\ n \in Nat
    OBVIOUS
  <2>2. <<k, n>> \in Nat \X Nat /\ <<k, n>>[1] = k /\ <<k, n>>[2] = n
    BY <2>1
  <2>3. ~(k < n)
    BY <1>1, <2>2, Zenon
  <2>. QED
    BY <2>1, <2>3
<1>. QED
  BY <1>2

LEMMA Least ==
  ASSUME NEW S \in SUBSET Nat, S # {}
  PROVE  \E n \in S : \A k \in S : n <= k
<1>1. \E n \in S : \A k \in S : ~(<<k, n>> \in OpToRel(<, Nat))
  BY NatLessThanWellFounded, WFMin
<1>2. OpToRel(<, Nat) = {ss \in Nat \X Nat : ss[1] < ss[2]}
  BY Zenon DEF OpToRel
<1>. QED
  BY ONLY <1>1, <1>2, LeastExists, Zenon

LEMMA FirstExists ==
  ASSUME NEW S \in SUBSET Nat, S # {}
  PROVE  \E n \in S : First(S) = {n}
<1>1. PICK n \in S : \A k \in S : n <= k
  BY Least
<1>2. ASSUME NEW i \in S, \A k \in S : i <= k PROVE i = n
  BY <1>1, <1>2
<1>3. First(S) = {n}
  BY <1>1, <1>2 DEF First
<1>. QED
  BY <1>3

-----------------------------------------------------------------------------
(* Interleaves can be undone by who knows the way taken.                   *)

(* What the lemmas below say of numbers: they are at one place of blocks of *)
(* size p; they are as far apart as two others; one is a multiple of the   *)
(* other; m is n moved by j blocks; place r of block x is place q of y.    *)
Congruent(m, n, p)  == m % p = n % p
Apace(m, n, a, b)   == m - n = a - b
Multiple(q, k, p)   == q = k * p
Moved(m, j, p, n)   == m = j * p + n
Same(x, r, y, q, p) == x * p + r = y * p + q

LEMMA DivMod ==
  ASSUME NEW n \in Int, NEW p \in Nat \ {0}
  PROVE  n \div p \in Int /\ n % p \in 0 .. p - 1 /\ n = p * (n \div p) + (n % p)
OBVIOUS

LEMMA SameBlock ==
  ASSUME NEW p \in Nat \ {0}, NEW x \in Int, NEW y \in Int, NEW r \in 0 .. p - 1, NEW q \in 0 .. p - 1,
         Same(x, r, y, q, p)
  PROVE  x = y /\ r = q
<1>. USE DEF Same
<1>1. r \in Int /\ q \in Int /\ r - q < p /\ q - r < p /\ (x - y) * p = q - r
  OBVIOUS
<1>2. CASE x - y >= 1
  <2>1. (x - y) * p >= p
    BY <1>2
  <2>. QED
    BY <1>1, <2>1
<1>3. CASE x - y <= -1
  <2>1. (x - y) * p <= -p
    BY <1>3
  <2>. QED
    BY <1>1, <2>1
<1>4. CASE x - y = 0
  BY <1>1, <1>4
<1>. QED
  BY <1>2, <1>3, <1>4

(* Two numbers come out of a stage alike; they are of one block of its      *)
(* ways, and of one place within their own.                                *)
SameOut(m, k, n, l, stage) ==
  Interleave(m, stage.shift, stage.ways, k) = Interleave(n, stage.shift, stage.ways, l)
SameTurn(m, n, stage) ==
  (m \div 2 ^ stage.shift) \div stage.ways = (n \div 2 ^ stage.shift) \div stage.ways
SameEnd(k, l, stage) == k % 2 ^ stage.shift = l % 2 ^ stage.shift

LEMMA Kept ==
  ASSUME NEW m \in Int, NEW n \in Int, NEW k \in Int, NEW l \in Int,
         NEW stage, stage.shift \in Nat, stage.ways \in Nat \ {0}, SameOut(m, k, n, l, stage)
  PROVE  SameTurn(m, n, stage) /\ SameEnd(k, l, stage)
<1>. DEFINE p == 2 ^ stage.shift
            w == stage.ways
<1>1. p \in Nat \ {0} /\ w \in Nat \ {0}
  BY PowerOfTwo
<1>2. Same((m \div p) \div w, k % p, (n \div p) \div w, l % p, p)
  BY DEF SameOut, Interleave, Same
<1>. HIDE DEF p, w
<1>3. /\ (m \div p) \div w \in Int /\ (n \div p) \div w \in Int
      /\ k % p \in 0 .. p - 1 /\ l % p \in 0 .. p - 1
  BY <1>1, DivMod
<1>4. (m \div p) \div w = (n \div p) \div w /\ k % p = l % p
  BY <1>1, <1>2, <1>3, SameBlock
<1>. QED
  BY <1>4 DEF p, w, SameTurn, SameEnd

LEMMA Back ==
  ASSUME NEW m \in Int, NEW n \in Int, NEW p \in Nat \ {0}, NEW ways \in Nat \ {0},
         (m \div p) \div ways = (n \div p) \div ways, (m \div p) % ways = (n \div p) % ways, m % p = n % p
  PROVE  m = n
<1>1. m \div p \in Int /\ n \div p \in Int
  BY DivMod
<1>2. m \div p = ways * ((m \div p) \div ways) + ((m \div p) % ways)
      /\ n \div p = ways * ((n \div p) \div ways) + ((n \div p) % ways)
  BY <1>1, DivMod
<1>3. m \div p = n \div p
  BY <1>2
<1>4. m = p * (m \div p) + (m % p) /\ n = p * (n \div p) + (n % p)
  BY DivMod
<1>. QED
  BY <1>3, <1>4

LEMMA DivMonotone ==
  ASSUME NEW m \in Int, NEW n \in Int, NEW p \in Nat \ {0}, m <= n
  PROVE  m \div p <= n \div p
<1>. DEFINE x == m \div p
            y == n \div p
<1>1. /\ x \in Int /\ y \in Int /\ m % p \in 0 .. p - 1 /\ n % p \in 0 .. p - 1
      /\ m = p * x + (m % p) /\ n = p * y + (n % p)
  BY DivMod
<1>. HIDE DEF x, y
<1>2. CASE x >= y + 1
  <2>1. p * x >= p * (y + 1)
    BY <1>1, <1>2
  <2>2. p * (y + 1) = p * y + p
    BY <1>1
  <2>. QED
    BY <1>1, <2>1, <2>2
<1>3. CASE x <= y
  BY <1>3 DEF x, y
<1>. QED
  BY <1>1, <1>2, <1>3

LEMMA Bounds ==
  ASSUME NEW lo \in Int, NEW hi \in Int, NEW n \in lo .. hi, NEW l \in Int, NEW stage,
         stage.shift \in Nat, stage.ways \in Nat \ {0}
  PROVE  /\ From(lo, stage) \in Int /\ Upto(hi, stage) \in Int
         /\ Interleave(n, stage.shift, stage.ways, l) \in From(lo, stage) .. Upto(hi, stage)
<1>. DEFINE p == 2 ^ stage.shift
            w == stage.ways
            x == (lo \div p) \div w
            y == (n \div p) \div w
            z == (hi \div p) \div w
<1>1. p \in Nat \ {0} /\ w \in Nat \ {0}
  BY PowerOfTwo
<1>2. /\ From(lo, stage) = x * p /\ Upto(hi, stage) = z * p + p - 1
      /\ Interleave(n, stage.shift, stage.ways, l) = y * p + (l % p)
  BY DEF From, Upto, Interleave
<1>. HIDE DEF p, w
<1>3. l % p \in 0 .. p - 1 /\ x \in Int /\ y \in Int /\ z \in Int
  BY <1>1, DivMod
<1>4. x <= y /\ y <= z
  <2>1. lo \div p <= n \div p /\ n \div p <= hi \div p
    BY <1>1, DivMonotone
  <2>2. lo \div p \in Int /\ n \div p \in Int /\ hi \div p \in Int
    BY <1>1, DivMod
  <2>. QED
    BY <1>1, <2>1, <2>2, DivMonotone
<1>. HIDE DEF x, y, z
<1>5. x * p <= y * p /\ y * p <= z * p /\ x * p \in Int /\ y * p \in Int /\ z * p \in Int
  BY <1>1, <1>3, <1>4
<1>6. y * p + (l % p) \in x * p .. z * p + p - 1
  BY <1>1, <1>3, <1>5
<1>. QED
  BY <1>1, <1>2, <1>5, <1>6

LEMMA SameRest ==
  ASSUME NEW m \in Int, NEW n \in Int, NEW p \in Nat \ {0}, NEW j \in Int, Moved(m, j, p, n)
  PROVE  Congruent(m, n, p)
<1>. DEFINE x == m \div p
            y == n \div p
            z == y + j
            r == m % p
            q == n % p
<1>1. /\ x \in Int /\ y \in Int /\ r \in 0 .. p - 1 /\ q \in 0 .. p - 1
      /\ m = p * x + r /\ n = p * y + q
  BY DivMod
<1>. HIDE DEF x, y, r, q
<1>2. z \in Int /\ z * p = j * p + p * y /\ x * p = p * x
  BY <1>1
<1>. HIDE DEF z
<1>3. j * p \in Int /\ p * y \in Int /\ p * x \in Int
  BY <1>1
<1>4. Same(x, r, z, q, p)
  BY <1>1, <1>2, <1>3 DEF Same, Moved
<1>5. r = q
  BY <1>1, <1>2, <1>4, SameBlock
<1>. QED
  BY <1>5 DEF r, q, Congruent

LEMMA RestApart ==
  ASSUME NEW m \in Int, NEW n \in Int, NEW p \in Nat \ {0}, Congruent(m, n, p)
  PROVE  \E j \in Int : Moved(m, j, p, n)
<1>. DEFINE x == m \div p
            y == n \div p
<1>1. /\ x \in Int /\ y \in Int /\ m % p \in 0 .. p - 1
      /\ m = p * x + (m % p) /\ n = p * y + (m % p)
  BY DivMod DEF Congruent
<1>. HIDE DEF x, y
<1>2. x - y \in Int /\ (x - y) * p = p * x - p * y
  BY <1>1
<1>3. Moved(m, x - y, p, n)
  BY <1>1, <1>2 DEF Moved
<1>. QED
  BY <1>2, <1>3

(* Two numbers that are moved alike keep a common rest.                    *)
LEMMA RestMoved ==
  ASSUME NEW a \in Int, NEW b \in Int, NEW p \in Nat \ {0}, Congruent(a, b, p),
         NEW m \in Int, NEW n \in Int, Apace(m, n, a, b)
  PROVE  Congruent(m, n, p)
<1>1. PICK j \in Int : Moved(a, j, p, b)
  BY RestApart
<1>2. Moved(m, j, p, n)
  BY <1>1 DEF Moved, Apace
<1>. QED
  BY <1>2, SameRest

LEMMA NoLeast ==
  ASSUME NEW S \in SUBSET Nat, \A d \in S : d - 1 \in S
  PROVE  S = {}
<1>1. ASSUME NEW d \in S, \A k \in S : d <= k PROVE FALSE
  <2>1. d - 1 \in S /\ d \in Int
    OBVIOUS
  <2>2. d <= d - 1
    BY <1>1, <2>1
  <2>. QED
    BY <2>1, <2>2
<1>. QED
  BY <1>1, Least

LEMMA SmallerPower ==
  ASSUME NEW n \in Nat, NEW S \in SUBSET Nat, S = {d \in Nat : ~\E k \in Nat : 2 ^ (n + d) = k * 2 ^ n}
  PROVE  S = {}
<1>1. 0 \notin S
  <2>1. 2 ^ (n + 0) = 1 * 2 ^ n
    BY PowerOfTwo
  <2>. QED
    BY <2>1
<1>2. ASSUME NEW d \in S PROVE d - 1 \in S
  <2>1. d \in Nat /\ d # 0 /\ d - 1 \in Nat
    BY <1>1
  <2>2. SUFFICES ASSUME NEW k \in Nat, 2 ^ (n + (d - 1)) = k * 2 ^ n
                 PROVE  FALSE
    BY <2>1
  <2>3. 2 ^ ((n + (d - 1)) + 1) = 2 * 2 ^ (n + (d - 1))
    BY <2>1, PowerNext
  <2>4. (n + (d - 1)) + 1 = n + d
    BY <2>1
  <2>5. 2 ^ n \in Nat
    BY PowerOfTwo
  <2>6. 2 ^ (n + d) = 2 * (k * 2 ^ n)
    BY <2>2, <2>3, <2>4
  <2>7. \A p \in Nat : 2 * (k * p) = (2 * k) * p
    OBVIOUS
  <2>8. 2 ^ (n + d) = (2 * k) * 2 ^ n /\ 2 * k \in Nat
    BY <2>5, <2>6, <2>7
  <2>. QED
    BY <2>8
<1>. QED
  BY <1>2, NoLeast

LEMMA PowerDivides ==
  ASSUME NEW n \in Nat, NEW m \in Nat, n <= m
  PROVE  \E k \in Nat : 2 ^ m = k * 2 ^ n
<1>. DEFINE S == {d \in Nat : ~\E k \in Nat : 2 ^ (n + d) = k * 2 ^ n}
<1>1. S = {}
  <2>1. S \in SUBSET Nat
    OBVIOUS
  <2>2. \A T \in SUBSET Nat : T = {d \in Nat : ~\E k \in Nat : 2 ^ (n + d) = k * 2 ^ n} => T = {}
    BY SmallerPower, Zenon
  <2>. QED
    BY <2>1, <2>2, Zenon
<1>2. m - n \in Nat /\ n + (m - n) = m
  OBVIOUS
<1>. QED
  BY <1>1, <1>2

LEMMA InterleaveType ==
  ASSUME NEW n \in Int, NEW l \in Int, NEW shift \in Nat, NEW ways \in Nat \ {0}
  PROVE  Interleave(n, shift, ways, l) \in Int
<1>. DEFINE p == 2 ^ shift
            x == (n \div p) \div ways
            r == l % p
<1>1. p \in Nat \ {0}
  BY PowerOfTwo
<1>2. Interleave(n, shift, ways, l) = x * p + r
  BY DEF Interleave
<1>. HIDE DEF p
<1>3. x \in Int /\ r \in Int
  BY <1>1, DivMod
<1>. HIDE DEF x, r
<1>. QED
  BY <1>1, <1>2, <1>3

(* Two numbers of one block and one place take the same way.               *)
LEMMA WayBack ==
  ASSUME NEW m \in Int, NEW n \in Int, NEW stage, stage.shift \in Nat, stage.ways \in Nat \ {0},
         OneWay(m, n, stage), SameTurn(m, n, stage), SameEnd(m, n, stage)
  PROVE  m = n
<1>. DEFINE p == 2 ^ stage.shift
            w == stage.ways
<1>1. /\ m % p = n % p /\ (m \div p) \div w = (n \div p) \div w
      /\ (m \div p) % w = (n \div p) % w
  BY DEF OneWay, Way, SameTurn, SameEnd
<1>2. p \in Nat \ {0} /\ w \in Nat \ {0}
  BY PowerOfTwo
<1>. HIDE DEF p, w
<1>. QED
  BY <1>1, <1>2, Back

Out(x, u, a, o) == x = Interleave(u, o.shift, o.ways, a)

LEMMA OutBounds ==
  ASSUME NEW lo \in Int, NEW hi \in Int, NEW n \in lo .. hi, NEW l \in Int, NEW stage,
         stage.shift \in Nat, stage.ways \in Nat \ {0}, NEW x, Out(x, n, l, stage)
  PROVE  From(lo, stage) \in Int /\ Upto(hi, stage) \in Int /\ x \in From(lo, stage) .. Upto(hi, stage)
BY Bounds DEF Out

(* Channel first: each stage keeps the place of what it is given.          *)
LEMMA TurnedBack ==
  ASSUME NEW u \in Int, NEW v \in Int, NEW o, NEW i,
         o.shift \in Nat, o.ways \in Nat \ {0}, i.shift \in Nat, i.ways \in Nat \ {0},
         NEW x, Out(x, u, u, o), NEW y, Out(y, v, v, o),
         OneWay(u, v, o), OneWay(x, y, i), SameOut(x, x, y, y, i)
  PROVE  u = v
<1>1. x \in Int /\ y \in Int
  BY InterleaveType DEF Out
<1>2. x = y
  BY <1>1, Kept, WayBack
<1>3. SameOut(u, u, v, v, o)
  BY <1>2 DEF SameOut, Out
<1>. QED
  BY <1>3, Kept, WayBack

(* A rest of a rest.                                                       *)
LEMMA FinerRest ==
  ASSUME NEW a \in Int, NEW b \in Int, NEW p \in Nat \ {0}, NEW q \in Nat \ {0}, NEW k \in Nat,
         Multiple(q, k, p), Congruent(a, b, q)
  PROVE  Congruent(a, b, p)
<1>1. PICK j \in Int : Moved(a, j, q, b)
  BY RestApart
<1>2. j * q = (j * k) * p /\ j * k \in Int
  BY DEF Multiple
<1>3. Moved(a, j * k, p, b)
  BY <1>1, <1>2 DEF Moved
<1>. QED
  BY <1>2, <1>3, SameRest

(* A stage keeps the place of the number from which it takes the low bits. *)
LEMMA OutFacts ==
  ASSUME NEW a \in Int, NEW u \in Int, NEW o, o.shift \in Nat, o.ways \in Nat \ {0},
         NEW p \in Nat \ {0}, p = 2 ^ o.shift, NEW x, Out(x, u, a, o)
  PROVE  /\ x \in Int
         /\ \E j \in Int : Moved(x, j, p, a)
         /\ o.ways = 1 => x = u - (u % p) + (a % p)
<1>. DEFINE w == o.ways
            t == (u \div p) \div w
            r == a % p
            s == a \div p
            q == u \div p
            e == u % p
<1>1. x = t * p + r /\ x \in Int
  BY InterleaveType DEF Interleave, Out
<1>. HIDE DEF w
<1>2. r \in Int /\ s \in Int /\ q \in Int /\ e \in Int /\ a = p * s + r /\ u = p * q + e
  <2>1. \A n \in Int : n \div p \in Int /\ n % p \in Int /\ n = p * (n \div p) + (n % p)
    BY ONLY p \in Nat \ {0}, DivMod
  <2>. QED
    BY <2>1, Zenon
<1>. HIDE DEF q, e, r, s
<1>3. t \in Int
  BY <1>2, DivMod DEF w
<1>4. Moved(x, t - s, p, a) /\ t - s \in Int
  <2>. HIDE DEF t
  <2>1. t * p = (t - s) * p + p * s /\ (t - s) * p \in Int /\ p * s \in Int
    BY <1>2, <1>3
  <2>. QED
    BY <1>1, <1>2, <1>3, <2>1 DEF Moved
<1>5. ASSUME o.ways = 1 PROVE x = u - e + r
  <2>1. \A n \in Int : n \div 1 = n
    OBVIOUS
  <2>2. t = q
    BY <1>2, <1>5, <2>1 DEF q, w
  <2>. HIDE DEF t
  <2>3. t * p = p * q /\ p * q \in Int
    BY <1>2, <2>2
  <2>. QED
    BY <1>1, <1>2, <2>3
<1>. QED
  BY <1>1, <1>4, <1>5 DEF e, r

(* Socket first: both stages keep the place of the address itself.  If the *)
(* second is the finer one that is the place of what it is given, and it   *)
(* is if the first takes nothing out.                                      *)
LEMMA StraightEnd ==
  ASSUME NEW a \in Int, NEW b \in Int, NEW u \in Int, NEW v \in Int, Apace(u, v, a, b), NEW o, NEW i,
         o.shift \in Nat, o.ways \in Nat \ {0}, i.shift \in Nat, i.ways \in Nat \ {0},
         o.ways = 1 \/ i.shift <= o.shift,
         NEW x, Out(x, u, a, o), NEW y, Out(y, v, b, o), SameEnd(a, b, i)
  PROVE  SameEnd(x, y, i)
<1>. DEFINE p == 2 ^ o.shift
            q == 2 ^ i.shift
<1>1. p \in Nat \ {0} /\ q \in Nat \ {0}
  BY PowerOfTwo
<1>2. /\ x \in Int /\ y \in Int
      /\ \E j \in Int : Moved(x, j, p, a)
      /\ \E j \in Int : Moved(y, j, p, b)
      /\ o.ways = 1 => x = u - (u % p) + (a % p) /\ y = v - (v % p) + (b % p)
  BY <1>1, OutFacts
<1>3. Congruent(a, b, q)
  BY DEF SameEnd, Congruent
<1>4. /\ i.shift <= o.shift => \E k \in Nat : Multiple(p, k, q)
      /\ o.shift <= i.shift => \E k \in Nat : Multiple(q, k, p)
  BY PowerDivides DEF Multiple
<1>5. Congruent(x, y, q) => SameEnd(x, y, i)
  BY DEF SameEnd, Congruent
<1>. HIDE DEF p, q
<1>6. CASE i.shift <= o.shift
  <2>1. PICK k \in Nat : Multiple(p, k, q)
    BY <1>4, <1>6
  <2>2. ASSUME NEW m \in Int, NEW n \in Int, NEW j \in Int, Moved(m, j, p, n)
        PROVE  Congruent(m, n, q)
    <3>1. j * p = (j * k) * q /\ j * k \in Int
      BY <1>1, <2>1 DEF Multiple
    <3>2. Moved(m, j * k, q, n)
      BY <2>2, <3>1 DEF Moved
    <3>. QED
      BY <1>1, <3>1, <3>2, SameRest
  <2>3. Congruent(x, a, q) /\ Congruent(y, b, q)
    BY <1>2, <2>2
  <2>. QED
    BY <1>3, <1>5, <2>3 DEF Congruent
<1>7. CASE o.ways = 1 /\ o.shift <= i.shift
  <2>1. PICK k \in Nat : Multiple(q, k, p)
    BY <1>4, <1>7
  <2>2. Congruent(a, b, p)
    BY <1>1, <1>3, <2>1, FinerRest
  <2>3. Congruent(u, v, p)
    BY <1>1, <2>2, RestMoved
  <2>4. a % p \in Int /\ u % p \in Int
    BY <1>1, DivMod
  <2>5. Apace(x, y, a, b)
    BY <1>2, <1>7, <2>2, <2>3, <2>4 DEF Apace, Congruent
  <2>6. Congruent(x, y, q)
    BY <1>1, <1>2, <1>3, <2>5, RestMoved
  <2>. QED
    BY <1>5, <2>6
<1>. QED
  BY <1>6, <1>7

LEMMA StraightBack ==
  ASSUME NEW a \in Int, NEW b \in Int, NEW u \in Int, NEW v \in Int, Apace(u, v, a, b), NEW o, NEW i,
         o.shift \in Nat, o.ways \in Nat \ {0}, i.shift \in Nat, i.ways \in Nat \ {0},
         o.ways = 1 \/ i.shift <= o.shift,
         NEW x, Out(x, u, a, o), NEW y, Out(y, v, b, o),
         OneWay(u, v, o), OneWay(x, y, i), SameOut(x, a, y, b, i)
  PROVE  a = b
<1>1. x \in Int /\ y \in Int
  BY InterleaveType DEF Out
<1>2. SameTurn(x, y, i) /\ SameEnd(a, b, i)
  BY <1>1, Kept
<1>3. SameEnd(x, y, i)
  BY <1>2, StraightEnd
<1>4. x = y
  BY <1>1, <1>2, <1>3, WayBack
<1>5. SameOut(u, a, v, b, o)
  BY <1>4 DEF SameOut, Out
<1>6. SameTurn(u, v, o) /\ SameEnd(a, b, o)
  BY <1>5, Kept
<1>7. SameEnd(u, v, o)
  <2>1. 2 ^ o.shift \in Nat \ {0}
    BY PowerOfTwo
  <2>2. Congruent(a, b, 2 ^ o.shift)
    BY <1>6 DEF SameEnd, Congruent
  <2>3. Congruent(u, v, 2 ^ o.shift)
    BY <2>1, <2>2, RestMoved
  <2>. QED
    BY <2>3 DEF SameEnd, Congruent
<1>8. u = v
  BY <1>6, <1>7, WayBack
<1>. QED
  BY <1>8 DEF Apace

-----------------------------------------------------------------------------
(* The TAD rules of a channel.                                             *)

Typed(s) == s.d \in Sockets /\ s.imc \in Imcs /\ s.channel \in Chans

LEMMA TadFields ==
  ASSUME machine \in Machines, NEW s, Typed(s), NEW i \in DOMAIN Tad(machine, s),
         NEW tad, tad = Tad(machine, s)[i]
  PROVE  /\ tad.skt_gran \in 0 .. 3 /\ tad.chn_gran \in 0 .. 3
         /\ tad.sktways \in Nat \ {0} /\ tad.chanways \in Nat \ {0}
         /\ tad.base \in Nat /\ tad.limit \in Nat /\ tad.offset[s.channel] \in Nat
<1>. DEFINE imc == machine.sockets[s.d].imc[s.imc]
<1>1. s.d \in DOMAIN machine.sockets /\ s.imc \in Imcs /\ s.channel \in Chans
  BY DEF Typed, Sockets
<1>2. IsImc(imc) /\ imc.tad = Tad(machine, s)
  BY <1>1, Registers DEF Tad
<1>. HIDE DEF imc
<1>3. IsTad(tad)
  BY <1>2 DEF IsImc
<1>. QED
  BY <1>1, <1>3 DEF IsTad

LEMMA TadTypes ==
  ASSUME machine \in Machines, NEW s, Typed(s), NEW i \in DOMAIN Tad(machine, s),
         NEW tad, tad = Tad(machine, s)[i]
  PROVE  /\ Outer(tad).shift \in Nat /\ Outer(tad).ways \in Nat \ {0}
         /\ Inner(tad).shift \in Nat /\ Inner(tad).ways \in Nat \ {0}
         /\ \A n \in Int : Start(tad, s.channel, n) \in Int
         /\ tad.base * 2 ^ ChunkBits \in Int /\ Limit(tad.limit, ChunkBits) \in Int
<1>1. /\ tad.skt_gran \in 0 .. 3 /\ tad.chn_gran \in 0 .. 3
      /\ tad.sktways \in Nat \ {0} /\ tad.chanways \in Nat \ {0}
      /\ tad.base \in Nat /\ tad.limit \in Nat /\ tad.offset[s.channel] \in Nat
  BY TadFields
<1>2. Gran(tad.skt_gran) \in Nat /\ Gran(tad.chn_gran) \in Nat
  BY <1>1, GranFacts
<1>3. 2 ^ ChunkBits \in Nat \ {0}
  BY GranularityAssumption, PowerOfTwo
<1>4. \A n, k, p \in Int : n - k * p \in Int /\ n * p \in Int /\ (n + 1) * p - 1 \in Int
  OBVIOUS
<1>5. Start(tad, s.channel, 0) \in Int /\ \A n \in Int : Start(tad, s.channel, n) \in Int
  BY <1>1, <1>3, <1>4 DEF Start
<1>6. tad.base * 2 ^ ChunkBits \in Int /\ Limit(tad.limit, ChunkBits) \in Int
  BY <1>1, <1>3, <1>4 DEF Limit
<1>. QED
  BY <1>1, <1>2, <1>5, <1>6 DEF Outer, Inner, BySocket, ByChannel

LEMMA ChanAddrForm ==
  ASSUME NEW tad, NEW c, NEW a
  PROVE  /\ Turned(tad) => /\ Out(Halfway(tad, c, a), Start(tad, c, a), Start(tad, c, a), Outer(tad))
                           /\ Out(ChanAddr(tad, c, a), Halfway(tad, c, a), Halfway(tad, c, a), Inner(tad))
         /\ ~Turned(tad) => /\ Out(Halfway(tad, c, a), Start(tad, c, a), a, Outer(tad))
                            /\ Out(ChanAddr(tad, c, a), Halfway(tad, c, a), a, Inner(tad))
BY DEF Turned, Out, Halfway, ChanAddr, Start, Outer, Inner, BySocket, ByChannel

(* One rule leads different addresses of a channel to different places.    *)
LEMMA TadBack ==
  ASSUME machine \in Machines, NEW s, Typed(s), NEW i \in DOMAIN Tad(machine, s),
         TadFits(machine, s), NEW a \in Int, NEW b \in Int,
         NEW tad, tad = Tad(machine, s)[i], NEW c, c = s.channel,
         OneWay(Start(tad, c, a), Start(tad, c, b), Outer(tad)),
         OneWay(Halfway(tad, c, a), Halfway(tad, c, b), Inner(tad)),
         ChanAddr(tad, c, a) = ChanAddr(tad, c, b)
  PROVE  a = b
<1>1. /\ Outer(tad).shift \in Nat /\ Outer(tad).ways \in Nat \ {0}
      /\ Inner(tad).shift \in Nat /\ Inner(tad).ways \in Nat \ {0}
      /\ Start(tad, c, a) \in Int /\ Start(tad, c, b) \in Int
  BY TadTypes
<1>2. Apace(Start(tad, c, a), Start(tad, c, b), a, b)
  <2>. DEFINE k == tad.offset[c] * 2 ^ ChunkBits
  <2>1. Start(tad, c, a) = a - k /\ Start(tad, c, b) = b - k
    BY DEF Start
  <2>2. k \in Int
    <3>1. tad.offset[c] \in Nat
      BY TadFields
    <3>2. 2 ^ ChunkBits \in Nat
      BY GranularityAssumption, PowerOfTwo
    <3>. QED
      BY <3>1, <3>2
  <2>. HIDE DEF k
  <2>. QED
    BY <2>1, <2>2 DEF Apace
<1>3. CASE Turned(tad)
  <2>1. SameOut(Halfway(tad, c, a), Halfway(tad, c, a), Halfway(tad, c, b), Halfway(tad, c, b), Inner(tad))
    BY <1>3, ChanAddrForm DEF SameOut, Out
  <2>2. /\ Out(Halfway(tad, c, a), Start(tad, c, a), Start(tad, c, a), Outer(tad))
        /\ Out(Halfway(tad, c, b), Start(tad, c, b), Start(tad, c, b), Outer(tad))
    BY <1>3, ChanAddrForm
  <2>3. Start(tad, c, a) = Start(tad, c, b)
    BY <1>1, <2>1, <2>2, TurnedBack
  <2>. QED
    BY <1>1, <1>2, <2>3 DEF Apace
<1>4. CASE ~Turned(tad)
  <2>1. SameOut(Halfway(tad, c, a), a, Halfway(tad, c, b), b, Inner(tad))
    BY <1>4, ChanAddrForm DEF SameOut, Out
  <2>2. /\ Out(Halfway(tad, c, a), Start(tad, c, a), a, Outer(tad))
        /\ Out(Halfway(tad, c, b), Start(tad, c, b), b, Outer(tad))
    BY <1>4, ChanAddrForm
  <2>3. Outer(tad).ways = 1 \/ Inner(tad).shift <= Outer(tad).shift
    BY <1>4 DEF TadFits, Outer, BySocket
  <2>. QED
    BY <1>1, <1>2, <2>1, <2>2, <2>3, StraightBack
<1>. QED
  BY <1>3, <1>4

(* What a rule leads to lies where it should.                              *)
LEMMA TadBounds ==
  ASSUME machine \in Machines, NEW s, Typed(s), NEW a \in Nat, NEW i \in TadRules(machine, s, a),
         NEW tad, tad = Tad(machine, s)[i], NEW c, c = s.channel
  PROVE  /\ ChanAddr(tad, c, a) \in Int /\ ChanFrom(tad, c) \in Int /\ ChanUpto(tad, c) \in Int
         /\ ChanFrom(tad, c) <= ChanAddr(tad, c, a) /\ ChanAddr(tad, c, a) <= ChanUpto(tad, c)
<1>. DEFINE lo == tad.base * 2 ^ ChunkBits
            hi == Limit(tad.limit, ChunkBits)
            u  == Start(tad, c, a)
            x  == Halfway(tad, c, a)
            o  == Outer(tad)
            n  == Inner(tad)
<1>1. i \in DOMAIN Tad(machine, s) /\ lo <= a /\ a <= hi
  BY TadRulesFacts DEF Typed
<1>2. /\ o.shift \in Nat /\ o.ways \in Nat \ {0} /\ n.shift \in Nat /\ n.ways \in Nat \ {0}
      /\ lo \in Int /\ hi \in Int /\ Start(tad, c, lo) \in Int /\ u \in Int /\ Start(tad, c, hi) \in Int
  BY <1>1, TadTypes
<1>3. u \in Start(tad, c, lo) .. Start(tad, c, hi)
  <2>. DEFINE k == tad.offset[c] * 2 ^ ChunkBits
  <2>1. Start(tad, c, lo) = lo - k /\ u = a - k /\ Start(tad, c, hi) = hi - k
    BY DEF Start
  <2>2. k \in Int
    <3>1. tad.offset[c] \in Nat
      BY <1>1, TadFields
    <3>2. 2 ^ ChunkBits \in Nat
      BY GranularityAssumption, PowerOfTwo
    <3>. QED
      BY <3>1, <3>2
  <2>. HIDE DEF k, lo, hi, u
  <2>. QED
    BY <1>1, <1>2, <2>1, <2>2
<1>4. \E l, k \in Int : Out(x, u, l, o) /\ Out(ChanAddr(tad, c, a), x, k, n)
  <2>1. CASE Turned(tad)
    <3>1. Out(x, u, u, o) /\ Out(ChanAddr(tad, c, a), x, x, n)
      BY <2>1, ChanAddrForm
    <3>. HIDE DEF x, u, o, n
    <3>2. x \in Int
      BY <1>2, <3>1, InterleaveType DEF Out
    <3>. QED
      BY <1>2, <3>1, <3>2
  <2>2. CASE ~Turned(tad)
    BY <1>2, <2>2, ChanAddrForm
  <2>. QED
    BY <2>1, <2>2
<1>5. PICK l \in Int, k \in Int : Out(x, u, l, o) /\ Out(ChanAddr(tad, c, a), x, k, n)
  BY <1>4
<1>. DEFINE f == From(Start(tad, c, lo), o)
            t == Upto(Start(tad, c, hi), o)
<1>6. ChanFrom(tad, c) = From(f, n) /\ ChanUpto(tad, c) = Upto(t, n)
  BY DEF ChanFrom, ChanUpto
<1>7. f \in Int /\ t \in Int /\ x \in f .. t
  <2>. DEFINE m == Start(tad, c, lo)
              h == Start(tad, c, hi)
  <2>1. m \in Int /\ h \in Int /\ u \in m .. h
    BY <1>2, <1>3
  <2>2. f = From(m, o) /\ t = Upto(h, o)
    OBVIOUS
  <2>. HIDE DEF m, h, f, t, x, o, n, u, lo, hi
  <2>. QED
    BY <1>2, <1>5, <2>1, <2>2, OutBounds
<1>. HIDE DEF f, t, x, o, n, u, lo, hi
<1>8. From(f, n) \in Int /\ Upto(t, n) \in Int /\ ChanAddr(tad, c, a) \in From(f, n) .. Upto(t, n)
  BY <1>2, <1>5, <1>7, OutBounds
<1>. QED
  BY <1>6, <1>8
LEMMA SentFacts ==
  ASSUME machine \in Machines, NEW s, NEW a \in Sent(machine, s)
  PROVE  a \in Nat /\ a \in Memory(machine) /\ s \in SadDecode(machine, a)
<1>1. machine.tohm \in Nat
  BY Registers
<1>2. a \in Memory(machine) /\ s \in SadDecode(machine, a)
  BY DEF Sent
<1>. QED
  BY <1>1, <1>2 DEF Memory

(* The rules of a channel lead different addresses to different places.    *)
LEMMA TadApart ==
  ASSUME machine \in Machines, NEW s, Typed(s), TadFits(machine, s), InTurn(machine, s),
         NEW a \in Sent(machine, s), NEW b \in Sent(machine, s),
         NEW i \in TadRules(machine, s, a), NEW j \in TadRules(machine, s, b),
         ChanAddr(Tad(machine, s)[i], s.channel, a) = ChanAddr(Tad(machine, s)[j], s.channel, b)
  PROVE  a = b
<1>. DEFINE c == s.channel
            T == Tad(machine, s)
<1>1. a \in Nat /\ b \in Nat /\ i \in DOMAIN T /\ j \in DOMAIN T
  BY SentFacts, TadRulesFacts DEF Typed
<1>2. /\ ChanAddr(T[i], c, a) \in Int /\ ChanAddr(T[j], c, b) \in Int
      /\ ChanFrom(T[i], c) \in Int /\ ChanUpto(T[i], c) \in Int
      /\ ChanFrom(T[j], c) \in Int /\ ChanUpto(T[j], c) \in Int
      /\ ChanFrom(T[i], c) <= ChanAddr(T[i], c, a) /\ ChanAddr(T[i], c, a) <= ChanUpto(T[i], c)
      /\ ChanFrom(T[j], c) <= ChanAddr(T[j], c, b) /\ ChanAddr(T[j], c, b) <= ChanUpto(T[j], c)
  BY <1>1, TadBounds
<1>3. i = j
  <2>1. j # i => \/ ChanUpto(T[i], c) < ChanFrom(T[j], c) \/ ChanUpto(T[j], c) < ChanFrom(T[i], c)
    BY <1>1 DEF TadFits
  <2>. QED
    BY <1>2, <2>1
<1>4. /\ OneWay(Start(T[i], c, a), Start(T[i], c, b), Outer(T[i]))
      /\ OneWay(Halfway(T[i], c, a), Halfway(T[i], c, b), Inner(T[i]))
  BY <1>3 DEF InTurn
<1>. QED
  BY <1>1, <1>3, <1>4, TadBack

-----------------------------------------------------------------------------
(* The RIR rules of a channel.                                             *)

LEMMA LimitLess ==
  ASSUME NEW m \in Nat, NEW n \in Nat, NEW bits \in Nat
  PROVE  Limit(m, bits) \in Nat /\ (m < n => Limit(m, bits) < Limit(n, bits))
<1>. DEFINE p == 2 ^ bits
<1>1. p \in Nat \ {0}
  BY PowerOfTwo
<1>2. Limit(m, bits) = (m + 1) * p - 1 /\ Limit(n, bits) = (n + 1) * p - 1
  BY DEF Limit
<1>. HIDE DEF p
<1>3. (m + 1) * p \in Nat /\ (m + 1) * p >= 1
  BY <1>1
<1>4. ASSUME m < n PROVE (m + 1) * p < (n + 1) * p
  <2>1. (n + 1) * p = (m + 1) * p + (n - m) * p /\ n - m >= 1
    BY <1>1, <1>4
  <2>2. (n - m) * p >= 1 /\ (n - m) * p \in Int
    BY <1>1, <2>1
  <2>. QED
    BY <1>3, <2>1, <2>2
<1>. QED
  BY <1>1, <1>2, <1>3, <1>4

LEMMA RirFields ==
  ASSUME machine \in Machines, NEW s, Typed(s)
  PROVE  /\ IsTable(Rir(machine, s))
         /\ \A i \in DOMAIN Rir(machine, s) :
              /\ Rir(machine, s)[i].limit \in Nat /\ Rir(machine, s)[i].ways \in Nat \ {0}
              /\ i \in Valid(machine, s) => \A k \in Ilvs(machine, s, i) :
                   Rir(machine, s)[i].ilv[k].rank \in 0 .. 15 /\ Rir(machine, s)[i].ilv[k].offset \in Nat
<1>. DEFINE chan == machine.sockets[s.d].imc[s.imc].chan[s.channel]
<1>1. s.d \in DOMAIN machine.sockets /\ s.imc \in Imcs /\ s.channel \in Chans
  BY DEF Typed, Sockets
<1>2. IsChan(chan) /\ chan.rir = Rir(machine, s)
  BY <1>1, Registers DEF Rir
<1>. HIDE DEF chan
<1>3. IsTable(Rir(machine, s)) /\ \A r \in DOMAIN Rir(machine, s) : IsRir(Rir(machine, s)[r])
  BY <1>2 DEF IsChan
<1>. QED
  BY <1>3 DEF IsRir, Valid, Ilvs

(* A place on the channel, given as s or as t with an address on it.       *)
On(t, s) == t.d = s.d /\ t.imc = s.imc /\ t.channel = s.channel

(* The rule that is taken is that in whose part of the channel it is.      *)
LEMMA RirRulesFacts ==
  ASSUME machine \in Machines, NEW s, Typed(s), RirFits(machine, s),
         NEW t, On(t, s), t.chan_addr \in Nat, NEW i \in RirRules(t)
  PROVE  /\ i \in Valid(machine, s) /\ Below(machine, s, i) \in Int
         /\ Below(machine, s, i) <= t.chan_addr
         /\ t.chan_addr <= Limit(Rir(machine, s)[i].limit, RirChunkBits)
<1>. DEFINE R == Rir(machine, s)
            c == t.chan_addr
            L(n) == Limit(R[n].limit, RirChunkBits)
            Takes(n) == /\ R[n].valid
                        /\ n > 1 => c >= L(n - 1)
                        /\ c <= L(n)
            S == {n \in DOMAIN R : Takes(n)}
<1>1. Rir(machine, t) = R
  BY DEF On, Rir
<1>2. RirRules(t) = First(S)
  BY <1>1 DEF RirRules
<1>3. i \in DOMAIN R /\ Takes(i) /\ \A n \in DOMAIN R : Takes(n) => i <= n
  BY <1>2 DEF First
<1>4. i \in Nat /\ i >= 1 /\ i \in Valid(machine, s)
  BY <1>3, RirFields, TableFacts DEF IsTable, Valid
<1>5. \A n \in Valid(machine, s) : n \in DOMAIN R /\ R[n].valid /\ R[n].limit \in Nat /\ L(n) \in Nat
  BY RirFields, LimitLess, GranularityAssumption DEF Valid
<1>6. \A n \in Valid(machine, s) : n > 1 => n - 1 \in Valid(machine, s) /\ L(n - 1) < L(n)
  <2>1. \A n \in Valid(machine, s) : n > 1 => n - 1 \in Valid(machine, s) /\ R[n - 1].limit < R[n].limit
    BY DEF RirFits
  <2>2. RirChunkBits \in Nat
    BY GranularityAssumption
  <2>. QED
    BY <1>5, <2>1, <2>2, LimitLess
<1>7. CASE i = 1
  BY <1>3, <1>4, <1>7 DEF Below
<1>8. CASE i # 1
  <2>1. i > 1 /\ i - 1 \in Valid(machine, s) /\ c >= L(i - 1) /\ L(i - 1) \in Nat
    BY <1>3, <1>4, <1>5, <1>6, <1>8
  <2>2. c # L(i - 1)
    <3>1. SUFFICES ASSUME c = L(i - 1) PROVE Takes(i - 1)
      <4>1. ~ i <= i - 1
        BY <1>4
      <4>. QED
        BY <1>3, <1>5, <2>1, <4>1
    <3>2. i - 1 > 1 => L((i - 1) - 1) < L(i - 1) /\ L((i - 1) - 1) \in Nat
      BY <1>5, <1>6, <2>1
    <3>3. R[i - 1].valid /\ L(i - 1) \in Nat
      BY <1>5, <2>1
    <3>. HIDE DEF L, R
    <3>. QED
      BY <3>1, <3>2, <3>3
  <2>3. Below(machine, s, i) = L(i - 1) + 1
    BY <1>8 DEF Below
  <2>4. c \in Nat
    OBVIOUS
  <2>5. c <= L(i)
    BY <1>3
  <2>. HIDE DEF L, c
  <2>6. L(i - 1) + 1 \in Int /\ L(i - 1) + 1 <= c
    BY <2>1, <2>2, <2>4
  <2>. QED
    BY <1>4, <2>3, <2>5, <2>6 DEF L, c
<1>. QED
  BY <1>7, <1>8
LEMMA ShiftFacts ==
  ASSUME NEW t
  PROVE  Shift(t) \in Shifts /\ Shift(t) \in Nat
BY GranularityAssumption DEF Shift, Shifts

(* The way of a number on a channel, and the number within its rank.       *)
RankAddr(s, i, k, sh, c) ==
  Interleave(c, ByRank(machine, s, i, sh).shift, ByRank(machine, s, i, sh).ways, c) - Offset(machine, s, i, k)

LEMMA RirTypes ==
  ASSUME machine \in Machines, NEW s, Typed(s), NEW i \in Valid(machine, s), NEW sh \in Nat, NEW c \in Int
  PROVE  /\ ByRank(machine, s, i, sh).shift \in Nat /\ ByRank(machine, s, i, sh).ways \in Nat \ {0}
         /\ Way(c, ByRank(machine, s, i, sh)) \in Ilvs(machine, s, i)
         /\ \A k \in Ilvs(machine, s, i) : Offset(machine, s, i, k) \in Int
<1>. DEFINE w == Rir(machine, s)[i].ways
            p == 2 ^ sh
<1>1. w \in Nat \ {0} /\ p \in Nat \ {0}
  BY RirFields, PowerOfTwo DEF Valid
<1>2. ByRank(machine, s, i, sh).shift = sh /\ ByRank(machine, s, i, sh).ways = w
  BY DEF ByRank
<1>3. Way(c, ByRank(machine, s, i, sh)) = (c \div p) % w
  BY <1>2 DEF Way
<1>4. Ilvs(machine, s, i) = 0 .. w - 1
  BY DEF Ilvs
<1>. HIDE DEF w, p
<1>5. (c \div p) % w \in 0 .. w - 1
  BY <1>1, DivMod
<1>6. ASSUME NEW k \in Ilvs(machine, s, i) PROVE Offset(machine, s, i, k) \in Int
  <2>1. Rir(machine, s)[i].ilv[k].offset \in Nat
    BY RirFields DEF Valid
  <2>2. 2 ^ ChunkBits \in Nat
    BY GranularityAssumption, PowerOfTwo
  <2>. QED
    BY <2>1, <2>2 DEF Offset
<1>. QED
  BY <1>1, <1>2, <1>3, <1>4, <1>5, <1>6

(* A place is one of the rule, the way and the number that the address has *)
(* on the channel, and it lies where the rule's places lie.                *)
LEMMA RirPlaces ==
  ASSUME machine \in Machines, NEW s, Typed(s), RirFits(machine, s),
         NEW t, On(t, s), t.chan_addr \in Nat, NEW p \in RirDecode(t)
  PROVE  \E i \in RirRules(t) : \E k \in Ilvs(machine, s, i) :
           /\ i \in Valid(machine, s) /\ k = Way(t.chan_addr, ByRank(machine, s, i, Shift(s)))
           /\ p = PlaceOf(machine, s, i, k, RankAddr(s, i, k, Shift(s), t.chan_addr))
           /\ RankAddr(s, i, k, Shift(s), t.chan_addr)
                \in RankFrom(machine, s, i, k, Shift(s)) .. RankUpto(machine, s, i, k, Shift(s))
           /\ RankFrom(machine, s, i, k, Shift(s)) \in Int /\ RankUpto(machine, s, i, k, Shift(s)) \in Int
<1>. DEFINE c  == t.chan_addr
            sh == Shift(s)
<1>1. /\ Rir(machine, t) = Rir(machine, s) /\ Shift(t) = sh
      /\ t.d = s.d /\ t.imc = s.imc /\ t.channel = s.channel
  BY DEF On, Rir, Shift
<1>2. sh \in Nat
  BY ShiftFacts
<1>. HIDE DEF sh
<1>3. PICK i \in RirRules(t) :
        p = LET rule == Rir(machine, s)[i]
                ilv  == rule.ilv[(c \div 2 ^ sh) % rule.ways]
            IN  [socket |-> machine.sockets[s.d].src_id, imc |-> s.imc, channel |-> s.channel,
                 dimm |-> ilv.rank \div 4, rank |-> ilv.rank % 4,
                 rank_address |-> Interleave(c, sh, rule.ways, c) - ilv.offset * 2 ^ ChunkBits]
  BY <1>1 DEF RirDecode
<1>. DEFINE stage == ByRank(machine, s, i, sh)
            k     == Way(c, stage)
            x     == RankAddr(s, i, k, sh, c)
<1>4. /\ i \in Valid(machine, s) /\ Below(machine, s, i) \in Int
      /\ Below(machine, s, i) <= c /\ c <= Limit(Rir(machine, s)[i].limit, RirChunkBits)
  BY RirRulesFacts
<1>5. stage.shift = sh /\ stage.ways = Rir(machine, s)[i].ways
  BY DEF ByRank
<1>6. /\ stage.shift \in Nat /\ stage.ways \in Nat \ {0} /\ k \in Ilvs(machine, s, i)
      /\ Offset(machine, s, i, k) \in Int
  BY <1>2, <1>4, RirTypes
<1>7. p = PlaceOf(machine, s, i, k, x)
  BY <1>3, <1>5 DEF PlaceOf, RankAddr, Way, Offset
<1>8. Limit(Rir(machine, s)[i].limit, RirChunkBits) \in Int
  <2>1. Rir(machine, s)[i].limit \in Nat /\ RirChunkBits \in Nat
    BY <1>4, RirFields, GranularityAssumption DEF Valid
  <2>2. \A n, bits \in Nat : Limit(n, bits) \in Int
    BY LimitLess
  <2>. QED
    BY <2>1, <2>2, Zenon
<1>. DEFINE lo  == Below(machine, s, i)
            hi  == Limit(Rir(machine, s)[i].limit, RirChunkBits)
            y   == Interleave(c, stage.shift, stage.ways, c)
            off == Offset(machine, s, i, k)
<1>9. x = y - off /\ Out(y, c, c, stage)
  BY DEF RankAddr, Out
<1>10. /\ RankFrom(machine, s, i, k, sh) = From(lo, stage) - off
       /\ RankUpto(machine, s, i, k, sh) = Upto(hi, stage) - off
  BY DEF RankFrom, RankUpto
<1>11. From(lo, stage) \in Int /\ Upto(hi, stage) \in Int /\ y \in From(lo, stage) .. Upto(hi, stage)
  <2>. HIDE DEF stage, lo, hi, y
  <2>. QED
    BY <1>4, <1>6, <1>8, <1>9, OutBounds DEF lo, hi
<1>12. x \in From(lo, stage) - off .. Upto(hi, stage) - off /\ From(lo, stage) - off \in Int /\ Upto(hi, stage) - off \in Int
  <2>1. \A l, m, n, q \in Int : n \in l .. m => n - q \in l - q .. m - q /\ l - q \in Int /\ m - q \in Int
    OBVIOUS
  <2>2. off \in Int /\ y \in Int
    BY <1>6, <1>11
  <2>. HIDE DEF stage, lo, hi, y, off, x
  <2>. QED
    BY <1>9, <1>11, <2>1, <2>2
<1>. HIDE DEF x
<1>. QED
  BY <1>1, <1>4, <1>6, <1>7, <1>10, <1>12 DEF x, sh

LEMMA RankOf ==
  ASSUME NEW q \in 0 .. 15, NEW r \in 0 .. 15, q \div 4 = r \div 4, q % 4 = r % 4
  PROVE  q = r
OBVIOUS

(* Numbers of a channel that have one place are one.                       *)
LEMMA RirApart ==
  ASSUME machine \in Machines, NEW s, Typed(s), RirFits(machine, s),
         NEW t, On(t, s), t.chan_addr \in Nat, NEW u, On(u, s), u.chan_addr \in Nat,
         NEW p \in RirDecode(t), p \in RirDecode(u)
  PROVE  t.chan_addr = u.chan_addr
<1>. DEFINE c  == t.chan_addr
            e  == u.chan_addr
            sh == Shift(s)
            At(i, k, n) ==
              /\ i \in Valid(machine, s) /\ k = Way(n, ByRank(machine, s, i, sh))
              /\ p = PlaceOf(machine, s, i, k, RankAddr(s, i, k, sh, n))
              /\ RankAddr(s, i, k, sh, n) \in RankFrom(machine, s, i, k, sh) .. RankUpto(machine, s, i, k, sh)
              /\ RankFrom(machine, s, i, k, sh) \in Int /\ RankUpto(machine, s, i, k, sh) \in Int
<1>0. sh \in Nat /\ sh \in Shifts
  BY ShiftFacts
<1>1. PICK i \in RirRules(t) : \E k \in Ilvs(machine, s, i) : At(i, k, c)
  BY RirPlaces
<1>2. PICK k \in Ilvs(machine, s, i) : At(i, k, c)
  BY <1>1
<1>3. PICK j \in RirRules(u) : \E l \in Ilvs(machine, s, j) : At(j, l, e)
  BY RirPlaces
<1>4. PICK l \in Ilvs(machine, s, j) : At(j, l, e)
  BY <1>3
<1>5. At(i, k, c) /\ At(j, l, e)
  BY <1>2, <1>4
<1>. HIDE DEF sh
<1>6. RankAddr(s, i, k, sh, c) = RankAddr(s, j, l, sh, e)
  BY <1>5 DEF PlaceOf
<1>7. Rir(machine, s)[i].ilv[k].rank = Rir(machine, s)[j].ilv[l].rank
  <2>. DEFINE q == Rir(machine, s)[i].ilv[k].rank
              r == Rir(machine, s)[j].ilv[l].rank
  <2>1. q \in 0 .. 15 /\ r \in 0 .. 15
    BY <1>5, RirFields DEF Valid
  <2>2. q \div 4 = r \div 4 /\ q % 4 = r % 4
    BY <1>5 DEF PlaceOf
  <2>. HIDE DEF q, r
  <2>3. q = r
    BY <2>1, <2>2, RankOf
  <2>. QED
    BY <2>3 DEF q, r
<1>8. i = j /\ k = l
  <2>1. CASE i # j
    <3>1. \/ RankUpto(machine, s, i, k, sh) < RankFrom(machine, s, j, l, sh)
          \/ RankUpto(machine, s, j, l, sh) < RankFrom(machine, s, i, k, sh)
      BY <1>0, <1>5, <1>7, <2>1 DEF RirFits
    <3>. QED
      BY <1>5, <1>6, <3>1
  <2>2. CASE i = j
    BY <1>5, <1>7, <2>2 DEF RirFits
  <2>. QED
    BY <2>1, <2>2
<1>. DEFINE stage == ByRank(machine, s, i, sh)
            x == Interleave(c, stage.shift, stage.ways, c)
            y == Interleave(e, stage.shift, stage.ways, e)
            o == Offset(machine, s, i, k)
<1>9. /\ stage.shift \in Nat /\ stage.ways \in Nat \ {0} /\ o \in Int /\ x \in Int /\ y \in Int
  <2>1. i \in Valid(machine, s) /\ c \in Int /\ e \in Int
    BY <1>5
  <2>2. stage.shift \in Nat /\ stage.ways \in Nat \ {0} /\ o \in Int
    BY <1>0, <2>1, RirTypes
  <2>. HIDE DEF stage, c, e
  <2>. QED
    BY <2>1, <2>2, InterleaveType
<1>10. x - o = y - o
  BY <1>6, <1>8 DEF RankAddr
<1>11. x = y
  <2>. HIDE DEF x, y, o
  <2>. QED
    BY <1>9, <1>10
<1>12. SameTurn(c, e, stage) /\ SameEnd(c, e, stage)
  <2>1. SameOut(c, c, e, e, stage)
    BY <1>11 DEF SameOut
  <2>2. c \in Int /\ e \in Int
    OBVIOUS
  <2>. HIDE DEF stage, c, e
  <2>. QED
    BY <1>9, <2>1, <2>2, Kept
<1>13. OneWay(c, e, stage)
  BY <1>5, <1>8 DEF OneWay
<1>. HIDE DEF stage, c, e
<1>14. c \in Int /\ e \in Int
  BY DEF c, e
<1>15. c = e
  BY <1>9, <1>12, <1>13, <1>14, WayBack
<1>. QED
  BY <1>15 DEF c, e
-----------------------------------------------------------------------------
(* All stages.                                                             *)

(* Address a on channel s, by rule i.                                      *)
Spot(s, i, a) ==
  [d |-> s.d, imc |-> s.imc, channel |-> s.channel,
   chan_addr |-> ChanAddr(Tad(machine, s)[i], s.channel, a)]

LEMMA DecodeStages ==
  ASSUME NEW a, NEW p
  PROVE  p \in Decode(a) <=> \E s \in SadDecode(machine, a) : \E i \in TadRules(machine, s, a) :
                               p \in RirDecode(Spot(s, i, a))
<1>. DEFINE T == UNION {TadDecode(s, a) : s \in SadDecode(machine, a)}
<1>1. \A s : TadDecode(s, a) = {Spot(s, i, a) : i \in TadRules(machine, s, a)}
  BY DEF TadDecode, Spot
<1>2. \A t : t \in T <=> \E s \in SadDecode(machine, a) : \E i \in TadRules(machine, s, a) : t = Spot(s, i, a)
  BY <1>1
<1>3. Decode(a) = UNION {RirDecode(t) : t \in T}
  BY DEF Decode
<1>. HIDE DEF T
<1>4. p \in Decode(a) <=> \E t \in T : p \in RirDecode(t)
  BY <1>3
<1>. QED
  BY <1>2, <1>4, Zenon

LEMMA RirChannel ==
  ASSUME NEW t, NEW p \in RirDecode(t)
  PROVE  p.socket = machine.sockets[t.d].src_id /\ p.imc = t.imc /\ p.channel = t.channel
BY DEF RirDecode

LEMMA SentTo ==
  ASSUME machine \in Machines, Consistent(machine), NEW a \in Memory(machine),
         NEW s \in SadDecode(machine, a)
  PROVE  /\ Typed(s) /\ a \in Sent(machine, s) /\ a \in Nat /\ s \in Used(machine)
         /\ InTurn(machine, s) /\ TadFits(machine, s) /\ RirFits(machine, s) /\ Filled(machine, s)
<1>1. a \in Sent(machine, s)
  BY DEF Sent
<1>2. a \in Nat
  BY <1>1, SentFacts
<1>3. Typed(s)
  BY <1>2, SadFacts DEF Typed
<1>4. \E d, n, c : s = [d |-> d, imc |-> n, channel |-> c]
  BY DEF SadDecode
<1>5. s \in Channels(machine)
  BY <1>3, <1>4 DEF Channels, Typed, Sockets
<1>6. s \in Used(machine)
  BY <1>1, <1>5 DEF Used
<1>. QED
  BY <1>1, <1>2, <1>3, <1>6 DEF Consistent

LEMMA SpotFacts ==
  ASSUME machine \in Machines, Consistent(machine), NEW a \in Memory(machine),
         NEW s \in SadDecode(machine, a), NEW i \in TadRules(machine, s, a)
  PROVE  /\ On(Spot(s, i, a), s) /\ Spot(s, i, a).chan_addr \in Nat
         /\ i \in DOMAIN Tad(machine, s) /\ ChanUpto(Tad(machine, s)[i], s.channel) \in Int
         /\ Spot(s, i, a).chan_addr <= ChanUpto(Tad(machine, s)[i], s.channel)
<1>. DEFINE T == Tad(machine, s)
            c == s.channel
<1>1. Typed(s) /\ a \in Nat /\ TadFits(machine, s)
  BY SentTo
<1>2. i \in DOMAIN T
  BY <1>1, TadRulesFacts DEF Typed
<1>3. 0 <= ChanFrom(T[i], c)
  BY <1>1, <1>2 DEF TadFits
<1>4. /\ ChanAddr(T[i], c, a) \in Int /\ ChanFrom(T[i], c) \in Int /\ ChanUpto(T[i], c) \in Int
      /\ ChanFrom(T[i], c) <= ChanAddr(T[i], c, a) /\ ChanAddr(T[i], c, a) <= ChanUpto(T[i], c)
  BY <1>1, TadBounds
<1>5. Spot(s, i, a).chan_addr = ChanAddr(T[i], c, a)
  BY DEF Spot
<1>6. ChanAddr(T[i], c, a) \in Nat
  BY <1>3, <1>4
<1>. QED
  BY <1>2, <1>4, <1>5, <1>6 DEF Spot, On

(* An address that has a place is the only one that has it.                *)
LEMMA PlacesApart ==
  ASSUME machine \in Machines, Consistent(machine), NEW a \in Memory(machine), NEW b \in Memory(machine),
         NEW p \in Decode(a), p \in Decode(b)
  PROVE  a = b
<1>1. PICK s \in SadDecode(machine, a) : \E i \in TadRules(machine, s, a) : p \in RirDecode(Spot(s, i, a))
  BY DecodeStages
<1>2. PICK i \in TadRules(machine, s, a) : p \in RirDecode(Spot(s, i, a))
  BY <1>1
<1>3. PICK r \in SadDecode(machine, b) : \E j \in TadRules(machine, r, b) : p \in RirDecode(Spot(r, j, b))
  BY DecodeStages
<1>4. PICK j \in TadRules(machine, r, b) : p \in RirDecode(Spot(r, j, b))
  BY <1>3
<1>5. s = r
  <2>1. /\ p.socket = machine.sockets[s.d].src_id /\ p.imc = s.imc /\ p.channel = s.channel
        /\ p.socket = machine.sockets[r.d].src_id /\ p.imc = r.imc /\ p.channel = r.channel
    BY <1>2, <1>4, RirChannel DEF Spot
  <2>2. s \in Channels(machine) /\ r \in Channels(machine)
    BY SentTo DEF Used
  <2>3. \A x \in Channels(machine) : x.d \in DOMAIN machine.sockets /\ x = [d |-> x.d, imc |-> x.imc, channel |-> x.channel]
    BY DEF Channels
  <2>4. s.d = r.d
    BY <2>1, <2>2, <2>3 DEF Consistent, Named
  <2>. QED
    BY <2>1, <2>2, <2>3, <2>4, Zenon
<1>6. /\ Typed(s) /\ a \in Sent(machine, s) /\ b \in Sent(machine, s)
      /\ InTurn(machine, s) /\ TadFits(machine, s) /\ RirFits(machine, s)
  BY <1>5, SentTo
<1>7. /\ On(Spot(s, i, a), s) /\ Spot(s, i, a).chan_addr \in Nat
      /\ On(Spot(s, j, b), s) /\ Spot(s, j, b).chan_addr \in Nat
  BY <1>4, <1>5, SpotFacts
<1>8. Spot(s, i, a).chan_addr = Spot(s, j, b).chan_addr
  BY <1>2, <1>4, <1>5, <1>6, <1>7, RirApart
<1>. QED
  BY <1>4, <1>5, <1>6, <1>8, TadApart DEF Spot

(* No address of memory is left without a place.                           *)
LEMMA Placed ==
  ASSUME machine \in Machines, Consistent(machine), NEW a \in Memory(machine)
  PROVE  Decode(a) # {}
<1>1. PICK s \in SadDecode(machine, a) : TadRules(machine, s, a) # {}
  BY DEF Consistent, Reached
<1>2. PICK i \in TadRules(machine, s, a) : TRUE
  BY <1>1
<1>. DEFINE t == Spot(s, i, a)
            c == t.chan_addr
            R == Rir(machine, s)
            L(n) == Limit(R[n].limit, RirChunkBits)
            S == {n \in DOMAIN R : R[n].valid /\ c <= L(n)}
<1>3. /\ Typed(s) /\ RirFits(machine, s) /\ On(t, s) /\ c \in Nat /\ i \in DOMAIN Tad(machine, s)
      /\ ChanUpto(Tad(machine, s)[i], s.channel) \in Int
      /\ c <= ChanUpto(Tad(machine, s)[i], s.channel)
  BY SentTo, SpotFacts
<1>4. DOMAIN R \subseteq Nat /\ \A n \in DOMAIN R : L(n) \in Nat
  <2>1. \A n \in DOMAIN R : R[n].limit \in Nat
    BY <1>3, RirFields
  <2>2. DOMAIN R \subseteq Nat
    BY <1>3, RirFields DEF IsTable
  <2>. QED
    BY <2>1, <2>2, LimitLess, GranularityAssumption
<1>5. S # {}
  <2>1. PICK n \in Valid(machine, s) : ChanUpto(Tad(machine, s)[i], s.channel) <= L(n)
    BY <1>3 DEF RirFits
  <2>2. n \in DOMAIN R /\ R[n].valid
    BY <2>1 DEF Valid
  <2>3. L(n) \in Nat
    BY <1>4, <2>2
  <2>. HIDE DEF L, c, R
  <2>4. c <= L(n)
    BY <1>3, <2>1, <2>3
  <2>. QED
    BY <2>2, <2>4
<1>. HIDE DEF t
<1>6. PICK n \in S : \A k \in S : n <= k
  <2>1. S \in SUBSET Nat
    BY <1>4
  <2>. HIDE DEF S
  <2>. QED
    BY <1>5, <2>1, Least
<1>7. n \in RirRules(t)
  <2>1. n > 1 => c >= L(n - 1)
    <3>1. SUFFICES ASSUME n > 1 PROVE c >= L(n - 1)
      OBVIOUS
    <3>2. n - 1 \in Valid(machine, s)
      BY <1>3, <1>6, <3>1 DEF RirFits, Valid
    <3>3. n - 1 \in DOMAIN R /\ R[n - 1].valid
      BY <3>2 DEF Valid
    <3>4. n - 1 \notin S
      BY <1>4, <1>6
    <3>5. ~(c <= L(n - 1)) /\ L(n - 1) \in Nat
      BY <1>4, <3>3, <3>4
    <3>. HIDE DEF L, c, S
    <3>. QED
      BY <1>3, <3>5
  <2>. DEFINE U == {k \in DOMAIN R : R[k].valid /\ (k > 1 => c >= L(k - 1)) /\ c <= L(k)}
  <2>2. U \subseteq S /\ n \in U
    BY <1>6, <2>1
  <2>3. RirRules(t) = First(U)
    BY <1>3 DEF RirRules, On, Rir
  <2>. HIDE DEF U, S
  <2>. QED
    BY <1>6, <2>2, <2>3 DEF First
<1>8. RirDecode(t) # {}
  BY <1>7 DEF RirDecode
<1>. QED
  BY <1>8, DecodeStages DEF t
(* All that is sent to a channel has its place in the ranks of it.         *)
LEMMA InRanks ==
  ASSUME machine \in Machines, Consistent(machine), NEW a \in Memory(machine),
         NEW s \in SadDecode(machine, a), NEW p \in Decode(a)
  PROVE  p \in RankPlaces(machine, s, Shift(s))
<1>1. /\ Typed(s) /\ RirFits(machine, s) /\ AtMostOne(SadDecode(machine, a))
  BY SentTo, SadFacts
<1>2. \E i \in TadRules(machine, s, a) : p \in RirDecode(Spot(s, i, a))
  BY <1>1, DecodeStages DEF AtMostOne
<1>3. PICK r \in TadRules(machine, s, a) : p \in RirDecode(Spot(s, r, a))
  BY <1>2
<1>. DEFINE t == Spot(s, r, a)
            sh == Shift(s)
<1>4. On(t, s) /\ t.chan_addr \in Nat
  BY SpotFacts
<1>5. PICK i \in RirRules(t) : \E k \in Ilvs(machine, s, i) :
           /\ i \in Valid(machine, s)
           /\ p = PlaceOf(machine, s, i, k, RankAddr(s, i, k, sh, t.chan_addr))
           /\ RankAddr(s, i, k, sh, t.chan_addr) \in RankFrom(machine, s, i, k, sh) .. RankUpto(machine, s, i, k, sh)
  <2>. HIDE DEF t
  <2>. QED
    BY <1>1, <1>3, <1>4, RirPlaces DEF t
<1>6. PICK k \in Ilvs(machine, s, i) :
           /\ i \in Valid(machine, s)
           /\ p = PlaceOf(machine, s, i, k, RankAddr(s, i, k, sh, t.chan_addr))
           /\ RankAddr(s, i, k, sh, t.chan_addr) \in RankFrom(machine, s, i, k, sh) .. RankUpto(machine, s, i, k, sh)
  BY <1>5
<1>. DEFINE x == RankAddr(s, i, k, sh, t.chan_addr)
<1>. HIDE DEF sh, t, x
<1>7. p \in {PlaceOf(machine, s, i, k, y) : y \in RankFrom(machine, s, i, k, sh) .. RankUpto(machine, s, i, k, sh)}
  BY <1>6 DEF x
<1>8. p \in RankPlaces(machine, s, sh)
  BY <1>6, <1>7 DEF RankPlaces
<1>. QED
  BY <1>8 DEF sh

(* As many addresses as places, and none with the place of another: every  *)
(* place of the ranks is the place of an address.                          *)
LEMMA RanksFull ==
  ASSUME machine \in Machines, Consistent(machine), NEW s \in Used(machine),
         NEW q \in RankPlaces(machine, s, Shift(s))
  PROVE  \E b \in Memory(machine) : q \in Decode(b)
<1>. DEFINE S == Sent(machine, s)
            T == RankPlaces(machine, s, Shift(s))
            f == [b \in S |-> CHOOSE p : p \in Decode(b)]
<1>1. IsFiniteSet(T) /\ Cardinality(T) = Cardinality(S)
  BY ShiftFacts DEF Consistent, Filled
<1>2. ASSUME NEW b \in S PROVE b \in Memory(machine) /\ f[b] \in Decode(b) /\ f[b] \in T
  <2>1. b \in Memory(machine) /\ s \in SadDecode(machine, b)
    BY SentFacts
  <2>2. f[b] \in Decode(b)
    BY <2>1, Placed
  <2>. QED
    BY <2>1, <2>2, InRanks
<1>3. f \in Injection(S, T)
  <2>1. f \in [S -> T]
    BY <1>2
  <2>2. ASSUME NEW b \in S, NEW c \in S, f[b] = f[c] PROVE b = c
    BY <1>2, <2>2, PlacesApart
  <2>. HIDE DEF f, S, T
  <2>. QED
    BY <2>1, <2>2 DEF Injection, IsInjective
<1>. HIDE DEF f, S, T
<1>4. f \in Surjection(S, T)
  BY <1>1, <1>3, FS_Injection
<1>5. PICK b \in S : f[b] = q
  BY <1>4 DEF Surjection, T
<1>. QED
  BY <1>2, <1>5

LEMMA NoGaps ==
  ASSUME machine \in Machines, Consistent(machine), NEW a \in Memory(machine),
         NEW p \in Decode(a), p.rank_address > 0
  PROVE  \E b \in Memory(machine) : Before(p) \in Decode(b)
<1>1. PICK s \in SadDecode(machine, a) : TRUE
  BY DecodeStages
<1>2. p \in RankPlaces(machine, s, Shift(s)) /\ s \in Used(machine) /\ Filled(machine, s)
  BY InRanks, SentTo
<1>3. Before(p) \in RankPlaces(machine, s, Shift(s))
  BY <1>2, ShiftFacts DEF Filled
<1>. QED
  BY <1>2, <1>3, RanksFull

(* If the registers of a machine describe a memory, no two of its addresses *)
(* have one place, no address is without a place, and the places of a rank *)
(* are without a gap, for any number of sockets, rules and ways, any widths *)
(* of the interleaves and either page mode.                                *)
THEOREM OneToOneHolds == Spec => []OneToOne
<1>1. DecodeInv => OneToOne
  <2>. SUFFICES ASSUME DecodeInv, ~machine.adxl, NEW w \in Writes
                PROVE  /\ pc[w] = "check" /\ addr[w] \in Memory(machine) => Decode(addr[w]) # {}
                       /\ Reported(w) =>
                            /\ addr[w] \in Memory(machine)
                            /\ \A p \in report[w].place :
                                 /\ \A a \in Memory(machine) \ {addr[w]} : p \notin Decode(a)
                                 /\ p.rank_address > 0 =>
                                      \E a \in Memory(machine) : Before(p) \in Decode(a)
    BY DEF OneToOne
  <2>1. machine \in Machines /\ addr[w] \in Nat /\ Private(w)
    BY DEF DecodeInv, Types, OfWrite
  <2>2. Consistent(machine)
    BY <2>1, FirmwareAssumption
  <2>3. ASSUME Reported(w)
        PROVE  addr[w] \in Memory(machine) /\ report[w].place = Decode(addr[w])
    <3>1. report[w].place = Decode(addr[w]) /\ Decode(addr[w]) # {}
      BY <2>1, <2>3 DEF Private, Reported
    <3>2. SadDecode(machine, addr[w]) # {}
      BY <3>1, DecodeStages
    <3>3. InRange(machine, addr[w]) /\ machine.tohm \in Nat
      BY <2>1, <3>2, Registers DEF SadDecode
    <3>. QED
      BY <2>1, <3>1, <3>3 DEF Memory, InRange
  <2>4. addr[w] \in Memory(machine) => Decode(addr[w]) # {}
    BY <2>1, <2>2, Placed
  <2>5. ASSUME Reported(w), NEW p \in report[w].place
        PROVE  /\ \A a \in Memory(machine) \ {addr[w]} : p \notin Decode(a)
               /\ p.rank_address > 0 => \E a \in Memory(machine) : Before(p) \in Decode(a)
    <3>1. addr[w] \in Memory(machine) /\ p \in Decode(addr[w])
      BY <2>3, <2>5
    <3>. QED
      BY <2>1, <2>2, <3>1, PlacesApart, NoGaps
  <2>. QED
    BY <2>3, <2>4, <2>5
<1>. QED
  BY <1>1, DecodeInvariant, PTL
=============================================================================
