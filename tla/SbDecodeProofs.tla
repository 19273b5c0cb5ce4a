--------------------------- MODULE SbDecodeProofs ---------------------------
(***************************************************************************)
(* Theorems about the decoder of sb_edac.c, for every machine whose        *)
(* registers hold what their fields can and are programmed as by           *)
(* firmware: DIMM sizes, decoded places and reports have their types; a    *)
(* machine check of the agent that has a line is reported for the place    *)
(* of the line, whichever way it is decoded; and the places of all lines   *)
(* are different and fill the DIMMs, whose sizes on Knights Landing add up *)
(* to the memory.                                                          *)
(***************************************************************************)
EXTENDS SbFirmware, FiniteSetTheorems, WellFoundedInduction, TLAPS

-----------------------------------------------------------------------------
(* A non-empty set of numbers has a least one, which First yields.         *)

LEMMA LeastExists ==
  ASSUME NEW S \in SUBSET Nat, NEW R,
         R = {ss \in Nat \X Nat : ss[1] < ss[2]},
         \E n \in S : \A k \in S : ~(<<k, n>> \in R)
  PROVE  \E n \in S : \A k \in S : n <= k
<1>1. PICK n \in S : \A k \in S : ~(<<k, n>> \in R)
  OBVIOUS
<1>2. ASSUME NEW k \in S PROVE n <= k
  <2>1. k \in Nat /\ n \in Nat
    OBVIOUS
  <2>2. <<k, n>> \in Nat \X Nat /\ <<k, n>>[1] = k /\ <<k, n>>[2] = n
    BY <2>1
  <2>3. ~(k < n)
    BY <1>1, <2>2, Zenon
  <2>. QED
    BY <2>1, <2>3
<1>. QED
  BY <1>2

LEMMA Least ==
  ASSUME NEW S \in SUBSET Nat, S # {}
  PROVE  \E n \in S : \A k \in S : n <= k
<1>1. \E n \in S : \A k \in S : ~(<<k, n>> \in OpToRel(<, Nat))
  BY NatLessThanWellFounded, WFMin
<1>2. OpToRel(<, Nat) = {ss \in Nat \X Nat : ss[1] < ss[2]}
  BY Zenon DEF OpToRel
<1>. QED
  BY ONLY <1>1, <1>2, LeastExists, Zenon

AtMostOne(S) == \A x, y \in S : x = y

LEMMA FirstFacts ==
  ASSUME NEW S \in SUBSET Int
  PROVE  First(S) \subseteq S /\ AtMostOne(First(S))
BY DEF First, AtMostOne

LEMMA FirstExists ==
  ASSUME NEW S \in SUBSET Nat, S # {}
  PROVE  \E n \in S : First(S) = {n}
<1>1. PICK n \in S : \A k \in S : n <= k
  BY Least
<1>2. ASSUME NEW i \in S, \A k \in S : i <= k PROVE i = n
  BY <1>1, <1>2
<1>3. First(S) = {n}
  BY <1>1, <1>2 DEF First
<1>. QED
  BY <1>3

LEMMA UnionOfOne ==
  ASSUME NEW S, AtMostOne(S), \A T \in S : AtMostOne(T)
  PROVE  AtMostOne(UNION S)
BY DEF AtMostOne

-----------------------------------------------------------------------------
(* SumFunction is defined through a function on the subsets of a domain;   *)
(* there is one, and it has numbers as values.                             *)

Summing(f, g) == \A s \in DOMAIN g :
  g[s] = IF s = {} THEN 0 ELSE f[CHOOSE x \in s : TRUE] + g[s \ {CHOOSE x \in s : TRUE}]
Small(S, n)   == {s \in SUBSET S : Cardinality(s) <= n}

LEMMA Smaller ==
  ASSUME NEW S, IsFiniteSet(S), NEW s \in SUBSET S, s # {}
  PROVE  /\ (CHOOSE x \in s : TRUE) \in s
         /\ s \ {CHOOSE x \in s : TRUE} \in SUBSET S
         /\ Cardinality(s) \in Nat /\ Cardinality(s \ {CHOOSE x \in s : TRUE}) = Cardinality(s) - 1
<1>. DEFINE y == CHOOSE x \in s : TRUE
<1>1. y \in s
  OBVIOUS
<1>2. IsFiniteSet(s)
  BY FS_Subset
<1>. HIDE DEF y
<1>3. Cardinality(s) \in Nat /\ Cardinality(s \ {y}) = Cardinality(s) - 1
  BY <1>1, <1>2, FS_CardinalityType, FS_RemoveElement
<1>. QED
  BY <1>1, <1>3 DEF y

LEMMA SumStep ==
  ASSUME NEW S, IsFiniteSet(S), NEW f \in [S -> Nat], NEW n \in Nat,
         NEW g \in [Small(S, n) -> Nat], Summing(f, g)
  PROVE  \E h \in [Small(S, n + 1) -> Nat] : Summing(f, h)
<1>. DEFINE ch(s) == CHOOSE x \in s : TRUE
            h == [s \in Small(S, n + 1) |-> IF s = {} THEN 0 ELSE f[ch(s)] + g[s \ {ch(s)}]]
<1>1. ASSUME NEW s \in Small(S, n + 1), s # {}
      PROVE  ch(s) \in S /\ s \ {ch(s)} \in Small(S, n)
  <2>1. s \in SUBSET S /\ Cardinality(s) <= n + 1
    BY DEF Small
  <2>2. /\ ch(s) \in s /\ s \ {ch(s)} \in SUBSET S
        /\ Cardinality(s) \in Nat /\ Cardinality(s \ {ch(s)}) = Cardinality(s) - 1
    BY <1>1, <2>1, Smaller
  <2>3. Cardinality(s \ {ch(s)}) <= n
    BY <2>1, <2>2
  <2>. QED
    BY <2>1, <2>2, <2>3 DEF Small
<1>. HIDE DEF ch
<1>2. h \in [Small(S, n + 1) -> Nat]
  BY <1>1
<1>3. Small(S, n) \subseteq Small(S, n + 1)
  <2>1. ASSUME NEW s \in SUBSET S PROVE Cardinality(s) \in Nat
    BY FS_Subset, FS_CardinalityType
  <2>. QED
    BY <2>1 DEF Small
<1>4. ASSUME NEW s \in Small(S, n) PROVE h[s] = g[s]
  <2>1. h[s] = IF s = {} THEN 0 ELSE f[ch(s)] + g[s \ {ch(s)}]
    BY <1>3
  <2>2. g[s] = IF s = {} THEN 0 ELSE f[ch(s)] + g[s \ {ch(s)}]
    BY DEF Summing, ch
  <2>. QED
    BY <2>1, <2>2
<1>5. ASSUME NEW s \in Small(S, n + 1)
      PROVE  h[s] = IF s = {} THEN 0 ELSE f[ch(s)] + h[s \ {ch(s)}]
  <2>1. s # {} => h[s \ {ch(s)}] = g[s \ {ch(s)}]
    BY <1>1, <1>4
  <2>. QED
    BY <2>1
<1>6. Summing(f, h)
  <2>1. DOMAIN h = Small(S, n + 1)
    BY DEF h
  <2>. HIDE DEF h
  <2>. QED
    BY <2>1, <1>5 DEF Summing, ch
<1>. QED
  BY <1>2, <1>6

LEMMA SumExists ==
  ASSUME NEW S, IsFiniteSet(S), NEW f \in [S -> Nat]
  PROVE  \E g \in [SUBSET S -> Nat] : Summing(f, g)
<1>. DEFINE Bad == {n \in Nat : ~ \E g \in [Small(S, n) -> Nat] : Summing(f, g)}
<1>1. Bad = {}
  <2>1. SUFFICES ASSUME Bad # {} PROVE FALSE
    OBVIOUS
  <2>2. PICK n \in Bad : \A k \in Bad : n <= k
    <3>1. Bad \in SUBSET Nat
      OBVIOUS
    <3>. HIDE DEF Bad
    <3>. QED
      BY <2>1, <3>1, Least
  <2>3. CASE n = 0
    <3>1. Small(S, 0) = {{}}
      <4>1. ASSUME NEW s \in SUBSET S PROVE Cardinality(s) <= 0 <=> s = {}
        BY FS_Subset, FS_CardinalityType, FS_EmptySet
      <4>. QED
        BY <4>1 DEF Small
    <3>. DEFINE g == [s \in Small(S, 0) |-> 0]
    <3>2. g \in [Small(S, 0) -> Nat] /\ Summing(f, g)
      BY <3>1 DEF Summing
    <3>. HIDE DEF g
    <3>. QED
      BY <2>2, <2>3, <3>2
  <2>4. CASE n # 0
    <3>1. n \in Nat /\ n - 1 \in Nat /\ n - 1 \notin Bad /\ (n - 1) + 1 = n
      BY <2>2, <2>4
    <3>2. PICK g \in [Small(S, n - 1) -> Nat] : Summing(f, g)
      BY <3>1
    <3>3. \E h \in [Small(S, n) -> Nat] : Summing(f, h)
      BY <3>1, <3>2, SumStep
    <3>. QED
      BY <2>2, <3>3
  <2>. QED
    BY <2>3, <2>4
<1>2. Small(S, Cardinality(S)) = SUBSET S /\ Cardinality(S) \in Nat
  BY FS_Subset, FS_CardinalityType DEF Small
<1>. QED
  BY <1>1, <1>2

LEMMA SumValues ==
  ASSUME NEW S, IsFiniteSet(S), NEW f \in [S -> Nat], NEW g, DOMAIN g = SUBSET S, Summing(f, g)
  PROVE  g[S] \in Nat
<1>. DEFINE Bad == {n \in Nat : \E s \in SUBSET S : Cardinality(s) = n /\ g[s] \notin Nat}
<1>1. SUFFICES ASSUME g[S] \notin Nat PROVE FALSE
  OBVIOUS
<1>2. Bad \in SUBSET Nat /\ Bad # {}
  BY <1>1, FS_CardinalityType
<1>3. PICK n \in Bad : \A k \in Bad : n <= k
  <2>. HIDE DEF Bad
  <2>. QED
    BY <1>2, Least
<1>4. PICK s \in SUBSET S : Cardinality(s) = n /\ g[s] \notin Nat
  BY <1>3
<1>5. s # {} /\ g[s] = f[CHOOSE x \in s : TRUE] + g[s \ {CHOOSE x \in s : TRUE}]
  BY <1>4 DEF Summing
<1>. DEFINE y == CHOOSE x \in s : TRUE
<1>6. y \in S /\ s \ {y} \in SUBSET S /\ n \in Nat /\ Cardinality(s \ {y}) = n - 1 /\ n # 0
  <2>1. y \in s /\ s \ {y} \in SUBSET S /\ n \in Nat /\ Cardinality(s \ {y}) = n - 1
    BY <1>4, <1>5, Smaller
  <2>2. Cardinality(s \ {y}) \in Nat
    BY <2>1, FS_Subset, FS_CardinalityType
  <2>. HIDE DEF y
  <2>. QED
    BY <2>1, <2>2
<1>7. g[s \ {y}] \in Nat
  <2>1. n - 1 \notin Bad /\ n - 1 \in Nat
    BY <1>3, <1>6
  <2>. QED
    BY <1>6, <2>1
<1>. HIDE DEF y
<1>8. f[y] \in Nat
  BY <1>6
<1>. QED
  BY <1>4, <1>5, <1>7, <1>8 DEF y

LEMMA SumType ==
  ASSUME NEW S, IsFiniteSet(S), NEW f \in [S -> Nat]
  PROVE  SumFunction(f) \in Nat
<1>. DEFINE Def(g) == g = [s \in SUBSET S |->
              IF s = {} THEN 0 ELSE f[CHOOSE x \in s : TRUE] + g[s \ {CHOOSE x \in s : TRUE}]]
            iter == CHOOSE g : Def(g)
<1>1. SumFunction(f) = iter[S]
  BY Zenon DEF SumFunction, SumFunctionOnSet, FoldFunctionOnSet, MapThenFoldSet
<1>2. \E g : Def(g)
  <2>1. PICK g \in [SUBSET S -> Nat] : Summing(f, g)
    BY SumExists
  <2>2. Def(g)
    BY <2>1 DEF Summing
  <2>. QED
    BY <2>2
<1>3. Def(iter)
  BY <1>2
<1>4. DOMAIN iter = SUBSET S /\ Summing(f, iter)
  <2>. HIDE DEF iter
  <2>. QED
    BY <1>3 DEF Summing
<1>5. iter[S] \in Nat
  <2>. HIDE DEF iter
  <2>. QED
    BY <1>4, SumValues
<1>. QED
  BY <1>1, <1>5, Zenon

-----------------------------------------------------------------------------
(* Numbers.                                                                *)

LEMMA SubsetsOf ==
  ASSUME NEW n \in Nat
  PROVE  IsFiniteSet(SUBSET (1 .. n)) /\ Cardinality(SUBSET (1 .. n)) = 2 ^ n
<1>1. IsFiniteSet(1 .. n) /\ Cardinality(1 .. n) = n
  BY FS_Interval
<1>. QED
  BY <1>1, FS_SUBSET

LEMMA PowerOfTwo ==
  ASSUME NEW n \in Nat
  PROVE  2 ^ n \in Nat \ {0}
<1>1. SUBSET (1 .. n) # {}
  OBVIOUS
<1>. QED
  BY <1>1, SubsetsOf, FS_CardinalityType, FS_EmptySet

LEMMA QuotientType ==
  ASSUME NEW x \in Nat, NEW p \in Nat \ {0}
  PROVE  x \div p \in Nat /\ x % p \in 0 .. p - 1
OBVIOUS

LEMMA TableFacts ==
  ASSUME NEW t, IsTable(t)
  PROVE  DOMAIN t \in SUBSET (Nat \ {0}) /\ DOMAIN t \in SUBSET Int /\ IsFiniteSet(DOMAIN t)
<1>1. Len(t) \in Nat /\ DOMAIN t = 1 .. Len(t)
  BY DEF IsTable
<1>2. IsFiniteSet(1 .. Len(t))
  BY <1>1, FS_Interval
<1>. QED
  BY <1>1, <1>2

-----------------------------------------------------------------------------
(* The registers of a machine.                                             *)

LEMMA MachineFacts ==
  ASSUME machine \in Machines
  PROVE  /\ machine.type \in {"SANDY_BRIDGE", "IVY_BRIDGE", "HASWELL", "BROADWELL", "KNIGHTS_LANDING"}
         /\ machine.shiftup \in 0 .. 1 /\ IsTable(machine.sad) /\ IsTable(Ctl)
         /\ Knl => \A mc \in 0 .. 1 : IsTable(machine.tad[mc])
BY MachinesAssumption DEF Ctl, Knl

LEMMA ControllerFacts ==
  ASSUME machine \in Machines, NEW c \in DOMAIN Ctl
  PROVE  /\ Ctl[c].hash \in BOOLEAN /\ Ctl[c].mirror \in BOOLEAN
         /\ Ctl[c].lockstep \in BOOLEAN /\ Ctl[c].close_pg \in BOOLEAN
         /\ IsTable(Ctl[c].tad)
BY MachinesAssumption DEF Ctl

LEMMA TadFacts ==
  ASSUME machine \in Machines, NEW c \in DOMAIN Ctl, NEW n \in DOMAIN Ctl[c].tad
  PROVE  /\ Ctl[c].tad[n].limit \in Nat /\ Ctl[c].tad[n].sock_way \in 0 .. 3 /\ Ctl[c].tad[n].ch_way \in 1 .. 4
         /\ \A ch \in DOMAIN Ctl[c].chan : Ctl[c].chan[ch].offset[n] \in Nat
         /\ \A k \in 0 .. Ctl[c].tad[n].ch_way - 1 : Ctl[c].tad[n].tgt[k] \in (0 .. 3) \cap DOMAIN Ctl[c].chan
<1>1. \A k \in 0 .. Ctl[c].tad[n].ch_way - 1 : Ctl[c].tad[n].tgt[k] \in (0 .. 3) \cap DOMAIN Ctl[c].chan
  BY FirmwareAssumption DEF Ctl, Installed
<1>2. /\ Ctl[c].tad[n].limit \in Nat /\ Ctl[c].tad[n].sock_way \in 0 .. 3 /\ Ctl[c].tad[n].ch_way \in 1 .. 4
      /\ \A ch \in DOMAIN Ctl[c].chan : Ctl[c].chan[ch].offset[n] \in Nat
  BY MachinesAssumption DEF Ctl
<1>. QED
  BY <1>1, <1>2

LEMMA ChannelFacts ==
  ASSUME machine \in Machines, NEW c \in DOMAIN Ctl, NEW ch \in DOMAIN Ctl[c].chan
  PROVE  /\ \A s \in Slots : /\ Ctl[c].chan[ch].slot[s].ranks \in Nat /\ Ctl[c].chan[ch].slot[s].rows \in Nat
                             /\ Ctl[c].chan[ch].slot[s].cols \in Nat
         /\ IsTable(Ctl[c].chan[ch].rir)
         /\ \A i \in DOMAIN Ctl[c].chan[ch].rir :
              /\ Ctl[c].chan[ch].rir[i].ways \in Nat \ {0}
              /\ \A k \in 0 .. Ctl[c].chan[ch].rir[i].ways - 1 :
                   /\ Ctl[c].chan[ch].rir[i].rank[k] \in 0 .. 15
                   /\ Ctl[c].chan[ch].rir[i].valid => Ctl[c].chan[ch].slot[DimmOf(Ctl[c].chan[ch].rir[i].rank[k])].present
<1>1. /\ IsTable(Ctl[c].chan[ch].rir)
      /\ \A s \in Slots : {Ctl[c].chan[ch].slot[s].ranks, Ctl[c].chan[ch].slot[s].rows, Ctl[c].chan[ch].slot[s].cols} \subseteq Nat
  BY MachinesAssumption DEF Ctl
<1>2. ASSUME NEW i \in DOMAIN Ctl[c].chan[ch].rir
      PROVE  /\ Ctl[c].chan[ch].rir[i].ways \in Nat \ {0}
             /\ \A k \in 0 .. Ctl[c].chan[ch].rir[i].ways - 1 : Ctl[c].chan[ch].rir[i].rank[k] \in 0 .. 15
  BY MachinesAssumption DEF Ctl
<1>3. ASSUME NEW i \in DOMAIN Ctl[c].chan[ch].rir, NEW k \in 0 .. Ctl[c].chan[ch].rir[i].ways - 1
      PROVE  Ctl[c].chan[ch].rir[i].valid => Ctl[c].chan[ch].slot[DimmOf(Ctl[c].chan[ch].rir[i].rank[k])].present
  BY FirmwareAssumption DEF Ctl, Installed
<1>. QED
  BY <1>1, <1>2, <1>3

-----------------------------------------------------------------------------
(* The sizes.                                                              *)

LEMMA SizeType ==
  ASSUME machine \in Machines, NEW d \in Places
  PROVE  SizeOf(Mtr(d)) \in Nat \cup {Garbage}
<1>1. PICK c \in DOMAIN Ctl : d \in Dimms(c)
  BY DEF Places
<1>2. d[1] = c /\ d[2] \in DOMAIN Ctl[c].chan /\ d[3] \in Slots
  BY <1>1 DEF Dimms
<1>3. Mtr(d).ranks \in Nat /\ Mtr(d).rows \in Nat /\ Mtr(d).cols \in Nat
  BY <1>2, ChannelFacts DEF Mtr
<1>4. CASE InRange(machine.type, Mtr(d))
  <2>1. BankBits \in {3, 4}
    BY DEF BankBits
  <2>2. Mtr(d).rows >= 1
    BY <1>4 DEF InRange
  <2>3. (12 + Mtr(d).rows) + (10 + Mtr(d).cols) + Mtr(d).ranks + BankBits - 17 \in Nat
    BY <1>3, <2>1, <2>2
  <2>. QED
    BY <1>4, <2>3, PowerOfTwo DEF SizeOf
<1>5. CASE ~InRange(machine.type, Mtr(d))
  BY <1>5 DEF SizeOf
<1>. QED
  BY <1>4, <1>5

LEMMA WaysFacts ==
  ASSUME machine \in Machines, NEW i
  PROVE  Ways(machine, i) \in Nat \ {0}
<1>. DEFINE S == {w \in 1 .. 7 : machine.sad[i].pkgs[w] = machine.sad[i].pkgs[0]} \cup {8}
<1>1. S \in SUBSET Nat /\ S # {} /\ S \subseteq Nat \ {0}
  OBVIOUS
<1>2. Repeated(machine.sad[i].pkgs) = First(S)
  BY DEF Repeated
<1>. HIDE DEF S
<1>3. PICK n \in S : Repeated(machine.sad[i].pkgs) = {n}
  BY <1>1, <1>2, FirstExists
<1>4. (CHOOSE w \in Repeated(machine.sad[i].pkgs) : TRUE) \in Nat \ {0}
  BY <1>1, <1>3
<1>. QED
  BY <1>4 DEF Ways

LEMMA TadSizeType ==
  ASSUME machine \in Machines, Knl, NEW mc \in 0 .. 1, NEW t \in DOMAIN machine.tad[mc]
  PROVE  TadSize(machine, mc, t) \in Nat /\ machine.tad[mc][t].limit \in Nat
<1>1. /\ IsTable(machine.tad[mc])
      /\ \A r \in DOMAIN machine.tad[mc] : machine.tad[mc][r].limit \in Nat /\ machine.tad[mc][r].offset \in Nat
  BY MachinesAssumption DEF Knl
<1>2. t \in Nat \ {0} /\ (t - 1 = 0 \/ t - 1 \in DOMAIN machine.tad[mc])
  BY <1>1 DEF IsTable
<1>3. Live(machine, mc, t) \in Int /\ Live(machine, mc, t - 1) \in Int
  BY <1>1, <1>2 DEF Live
<1>4. Live(machine, mc, t - 1) <= Live(machine, mc, t)
  BY FirmwareAssumption DEF Knl, Growing
<1>. QED
  BY <1>1, <1>3, <1>4 DEF TadSize

LEMMA KnlFinite ==
  ASSUME machine \in Machines, Knl, NEW i, NEW mc \in 0 .. 1
  PROVE  /\ IsFiniteSet(RulesIn(machine, i, mc)) /\ RulesIn(machine, i, mc) \subseteq DOMAIN machine.tad[mc]
         /\ IsFiniteSet(Mapping(machine)) /\ Mapping(machine) \subseteq SadRegions(machine)
<1>1. IsFiniteSet(DOMAIN machine.tad[mc]) /\ IsFiniteSet(DOMAIN machine.sad)
  BY MachineFacts, TableFacts
<1>2. RulesIn(machine, i, mc) \subseteq DOMAIN machine.tad[mc]
  BY DEF RulesIn
<1>3. Mapping(machine) \subseteq SadRegions(machine) /\ SadRegions(machine) \subseteq DOMAIN machine.sad
  BY DEF Mapping, SadRegions
<1>. QED
  BY <1>1, <1>2, <1>3, FS_Subset

LEMMA ContributesType ==
  ASSUME machine \in Machines, Knl, NEW i, NEW ch
  PROVE  Contributes(machine, i, ch) \in Nat
<1>. DEFINE mc == knl_channel_mc(ch)
            f == [t \in RulesIn(machine, i, mc) |-> TadSize(machine, mc, t)]
<1>1. mc \in 0 .. 1
  BY DEF knl_channel_mc
<1>2. Contributes(machine, i, ch) = SumFunction(f) \div Ways(machine, i)
  BY DEF Contributes, ActualSize
<1>. HIDE DEF mc
<1>3. IsFiniteSet(RulesIn(machine, i, mc)) /\ f \in [RulesIn(machine, i, mc) -> Nat]
  BY <1>1, KnlFinite, TadSizeType
<1>. HIDE DEF f
<1>4. SumFunction(f) \in Nat /\ Ways(machine, i) \in Nat \ {0}
  BY <1>3, SumType, WaysFacts
<1>. QED
  BY <1>2, <1>4, QuotientType

LEMMA McSizeType ==
  ASSUME machine \in Machines, Knl, NEW ch
  PROVE  McSize(machine, ch) \in Nat
<1>. DEFINE f == [i \in Mapping(machine) |-> Contributes(machine, i, ch)]
<1>1. f \in [Mapping(machine) -> Nat]
  BY ContributesType
<1>2. IsFiniteSet(Mapping(machine))
  BY KnlFinite
<1>3. McSize(machine, ch) = IF ch \in Participants(machine) THEN SumFunction(f) ELSE 0
  BY DEF McSize
<1>. HIDE DEF f
<1>. QED
  BY <1>1, <1>2, <1>3, SumType

-----------------------------------------------------------------------------
(* The stages of the decoder.  Each finds one result at most.              *)

LEMMA RuleFacts ==
  ASSUME NEW rules, NEW used \in SUBSET Int, NEW a
  PROVE  /\ AtMostOne(Rule(rules, used, a))
         /\ \A i \in Rule(rules, used, a) :
              /\ i \in used /\ a <= Limit(rules[i].limit)
              /\ \A k \in used : a <= Limit(rules[k].limit) => i <= k
<1>. DEFINE S == {k \in used : a <= Limit(rules[k].limit)}
<1>1. S \in SUBSET Int
  OBVIOUS
<1>2. First(S) \subseteq S /\ AtMostOne(First(S)) /\ \A i \in First(S) : \A k \in S : i <= k
  BY <1>1, FirstFacts DEF First
<1>3. Rule(rules, used, a) \subseteq First(S)
  BY DEF Rule
<1>. QED
  BY <1>2, <1>3 DEF AtMostOne

LEMMA NodeFacts ==
  ASSUME machine \in Machines, NEW node, NEW dom
  PROVE  /\ AtMostOne(get_mci_for_node_id(node, dom))
         /\ \A c \in get_mci_for_node_id(node, dom) :
              c \in DOMAIN Ctl /\ Ctl[c].node = node /\ Ctl[c].dom = dom
<1>. DEFINE S == {c \in DOMAIN Ctl : Ctl[c].node = node /\ Ctl[c].dom = dom}
<1>1. S \in SUBSET Int
  BY MachineFacts, TableFacts
<1>2. First(S) \subseteq S /\ AtMostOne(First(S))
  BY <1>1, FirstFacts
<1>. QED
  BY <1>2 DEF get_mci_for_node_id, Mci, Ctl

(* The decoder and the machine check name the same controller.             *)
LEMMA NodeOfOne ==
  ASSUME machine \in Machines, NEW node, NEW dom, NEW c \in get_mci_for_node_id(node, dom)
  PROVE  get_mci_for_node_id(Ctl[c].node, Ctl[c].dom) = {c}
<1>1. Ctl[c].node = node /\ Ctl[c].dom = dom
  BY NodeFacts
<1>. QED
  BY <1>1, NodeFacts DEF AtMostOne

LEMMA TargetFacts ==
  ASSUME NEW m, NEW rule, NEW i
  PROVE  AtMostOne(Target(m, rule, i))
<1>1. CASE m.type = "SANDY_BRIDGE"
  <2>1. Target(m, rule, i) =
          {[node |-> rule.pkgs[i % ways], dom |-> 0] : ways \in Repeated(rule.pkgs) \cap {1, 2, 4, 8}}
    BY <1>1 DEF Target
  <2>2. AtMostOne(Repeated(rule.pkgs))
    <3>1. ({w \in 1 .. 7 : rule.pkgs[w] = rule.pkgs[0]} \cup {8}) \in SUBSET Int
      OBVIOUS
    <3>. QED
      BY <3>1, FirstFacts DEF Repeated
  <2>. QED
    BY <2>1, <2>2 DEF AtMostOne
<1>2. CASE m.type # "SANDY_BRIDGE"
  <2>1. Target(m, rule, i) = {[node |-> sad_pkg_socket(rule.pkgs[i]), dom |-> sad_pkg_ha(rule.pkgs[i])]}
    BY <1>2 DEF Target
  <2>. QED
    BY <2>1 DEF AtMostOne
<1>. QED
  BY <1>1, <1>2

LEMMA OwnerFacts ==
  ASSUME machine \in Machines, NEW rule, NEW i
  PROVE  /\ AtMostOne(Owner(machine, rule, i))
         /\ \A c \in Owner(machine, rule, i) : \E node, dom : c \in get_mci_for_node_id(node, dom)
<1>. DEFINE Mcis == {get_mci_for_node_id(t.node, t.dom) : t \in Target(machine, rule, i)}
<1>1. Owner(machine, rule, i) = UNION Mcis
  BY DEF Owner, get_mci_for_node_id
<1>2. AtMostOne(Mcis)
  BY TargetFacts DEF AtMostOne
<1>3. \A S \in Mcis : AtMostOne(S)
  BY NodeFacts
<1>. QED
  BY <1>1, <1>2, <1>3, UnionOfOne

(* What the SAD finds: a controller, the first of its node and agent.      *)
Agent(s) ==
  /\ s.c \in DOMAIN Ctl /\ s.shift \in Nat
  /\ get_mci_for_node_id(Ctl[s.c].node, Ctl[s.c].dom) = {s.c}

LEMMA SadFacts ==
  ASSUME machine \in Machines, ~Knl, NEW a
  PROVE  AtMostOne(SadDecode(a)) /\ \A s \in SadDecode(a) : Agent(s)
<1>. DEFINE Mcs(rule)   == Owner(machine, rule, Index(rule, a))
            Found(rule) == {[c |-> c, shift |-> Shiftup(machine, rule)] : c \in Mcs(rule)}
<1>1. SadDecode(a) = UNION {Found(rule) : rule \in SadRule(machine, a)}
  BY DEF SadDecode
<1>2. AtMostOne(SadRule(machine, a))
  <2>1. {k \in DOMAIN machine.sad : machine.sad[k].enable} \in SUBSET Int
    BY MachineFacts, TableFacts
  <2>2. AtMostOne(Rule(machine.sad, {k \in DOMAIN machine.sad : machine.sad[k].enable}, a))
    BY <2>1, RuleFacts
  <2>. QED
    BY <2>2 DEF SadRule, AtMostOne
<1>4. ASSUME NEW rule PROVE AtMostOne(Found(rule)) /\ \A s \in Found(rule) : Agent(s)
  <2>1. Shiftup(machine, rule) \in Nat
    BY MachineFacts DEF Shiftup
  <2>2. ASSUME NEW c \in Mcs(rule) PROVE Agent([c |-> c, shift |-> Shiftup(machine, rule)])
    <3>1. PICK node, dom : c \in get_mci_for_node_id(node, dom)
      BY OwnerFacts
    <3>. QED
      BY <2>1, <3>1, NodeFacts, NodeOfOne DEF Agent
  <2>3. AtMostOne(Mcs(rule))
    BY OwnerFacts
  <2>. HIDE DEF Mcs
  <2>. QED
    BY <2>2, <2>3 DEF AtMostOne
<1>. HIDE DEF Found
<1>5. AtMostOne({Found(rule) : rule \in SadRule(machine, a)})
  BY <1>2 DEF AtMostOne
<1>. QED
  BY <1>1, <1>4, <1>5, UnionOfOne

LEMMA BitsType ==
  ASSUME NEW a \in Nat, NEW lo \in Nat, NEW n \in Nat
  PROVE  Bits(a, lo, n) \in Nat
<1>1. 2 ^ lo \in Nat \ {0} /\ 2 ^ n \in Nat \ {0}
  BY PowerOfTwo
<1>2. a \div 2 ^ lo \in Nat
  BY <1>1, QuotientType
<1>3. \A x \in Nat, p \in Nat \ {0} : x % p \in Nat
  OBVIOUS
<1>. QED
  BY <1>1, <1>2, <1>3 DEF Bits

LEMMA HashType ==
  ASSUME NEW idx \in Nat, NEW a \in Nat
  PROVE  Hash(idx, a) \in Nat
<1>. DEFINE Ones(k) == Cardinality({b \in HashBits : Digit(a, b + k) = 1})
            xor(k)  == (Digit(idx, k) + Ones(k)) % 2
<1>1. ASSUME NEW k \in 0 .. 1 PROVE xor(k) \in Nat
  <2>1. Ones(k) \in Nat
    BY ScaleAssumption, FS_Subset, FS_CardinalityType
  <2>2. Digit(idx, k) \in Nat
    BY BitsType DEF Digit
  <2>. HIDE DEF Ones
  <2>. QED
    BY <2>1, <2>2
<1>2. Hash(idx, a) = xor(0) + 2 * xor(1)
  BY DEF Hash
<1>. HIDE DEF xor
<1>. QED
  BY <1>1, <1>2

(* The remainder of an int, which is that of the number if it fits.        *)
LEMMA IntFacts ==
  ASSUME NEW x \in Nat, NEW n \in Nat \ {0}
  PROVE  /\ IntRem(x, n) \in Int /\ (IntRem(x, n) >= 0 => IntRem(x, n) \in 0 .. n - 1)
         /\ x < IntLines => IntRem(x, n) = x % n
<1>. DEFINE y == ToInt(x)
<1>1. IntLines \in Nat \ {0}
  BY ScaleAssumption
<1>2. y \in Int /\ (x < IntLines => y = x)
  <2>1. \A u \in Nat, p \in Nat \ {0} : u % p \in 0 .. p - 1 /\ (u < p => u % p = u)
    OBVIOUS
  <2>2. x + IntLines \in Nat /\ 2 * IntLines \in Nat \ {0}
    BY <1>1
  <2>. DEFINE w == (x + IntLines) % (2 * IntLines)
  <2>3. w \in Int /\ (x + IntLines < 2 * IntLines => w = x + IntLines)
    <3>. DEFINE u == x + IntLines
                p == 2 * IntLines
    <3>1. u \in Nat /\ p \in Nat \ {0}
      BY <2>2
    <3>. HIDE DEF u, p
    <3>2. u % p \in Int /\ (u < p => u % p = u)
      BY <2>1, <3>1
    <3>. QED
      BY <3>2 DEF u, p
  <2>4. y = w - IntLines
    BY DEF ToInt
  <2>. HIDE DEF w, y
  <2>. QED
    BY <1>1, <2>3, <2>4
<1>3. IntRem(x, n) = IF y >= 0 THEN y % n ELSE -((-y) % n)
  BY DEF IntRem, Rem
<1>. HIDE DEF y
<1>4. \A u \in Nat : u % n \in 0 .. n - 1
  OBVIOUS
<1>5. CASE y >= 0
  <2>1. y \in Nat /\ IntRem(x, n) = y % n
    BY <1>2, <1>3, <1>5
  <2>2. y % n \in 0 .. n - 1
    BY <1>4, <2>1
  <2>3. y % n \in Int
    BY <2>2
  <2>4. x < IntLines => IntRem(x, n) = x % n
    BY <1>2, <2>1
  <2>. QED
    BY <2>1, <2>2, <2>3, <2>4, Zenon
<1>6. CASE ~(y >= 0)
  <2>. DEFINE z == (-y) % n
  <2>1. -y \in Nat /\ IntRem(x, n) = -z /\ ~(x < IntLines)
    BY <1>2, <1>3, <1>6
  <2>2. z \in 0 .. n - 1
    BY <1>4, <2>1
  <2>. HIDE DEF z
  <2>. QED
    BY <2>1, <2>2
<1>. QED
  BY <1>5, <1>6

(* The channel picked is one of the rule's, if there is one.               *)
LEMMA ChannelIndexFacts ==
  ASSUME machine \in Machines, NEW c \in DOMAIN Ctl, NEW n \in DOMAIN Ctl[c].tad,
         NEW shift \in Nat, NEW a \in Nat
  PROVE  LET index == ChannelIndex(c, Ctl[c].tad[n], shift, a)
         IN  /\ index \in Int /\ (index >= 0 => index \in 0 .. Ctl[c].tad[n].ch_way - 1)
             /\ (Ctl[c].tad[n].ch_way = 3 => a < IntLines) => index >= 0
<1>. DEFINE tad == Ctl[c].tad[n]
            idx == Bits(a, tad.sock_way + shift, 2)
            mix == IF pvt[c].hash THEN Hash(idx, a) ELSE idx
<1>1. tad.sock_way \in Nat /\ tad.ch_way \in 1 .. 4
  BY TadFacts
<1>2. mix \in Nat
  <2>1. tad.sock_way + shift \in Nat /\ 2 \in Nat
    BY <1>1
  <2>2. idx \in Nat
    <3>. HIDE DEF tad
    <3>. QED
      BY <2>1, BitsType
  <2>. HIDE DEF idx
  <2>. QED
    BY <2>2, HashType
<1>3. ChannelIndex(c, tad, shift, a) = IF tad.ch_way = 3 THEN IntRem(a, 3) ELSE mix % tad.ch_way
  BY DEF ChannelIndex
<1>. HIDE DEF mix, tad
<1>4. IntRem(a, 3) \in Int /\ (IntRem(a, 3) >= 0 => IntRem(a, 3) \in 0 .. 2) /\ (a < IntLines => IntRem(a, 3) >= 0)
  <2>1. 3 \in Nat \ {0} /\ a % 3 \in 0 .. 2
    OBVIOUS
  <2>2. IntRem(a, 3) \in Int /\ (IntRem(a, 3) >= 0 => IntRem(a, 3) \in 0 .. 3 - 1) /\ (a < IntLines => IntRem(a, 3) = a % 3)
    BY <2>1, IntFacts
  <2>. QED
    BY <2>1, <2>2
<1>5. mix % tad.ch_way \in 0 .. tad.ch_way - 1
  <2>1. \A x \in Nat, w \in Nat \ {0} : x % w \in 0 .. w - 1
    OBVIOUS
  <2>2. tad.ch_way \in Nat \ {0}
    BY <1>1
  <2>. QED
    BY <1>2, <2>1, <2>2, Zenon
<1>6. LET index == ChannelIndex(c, tad, shift, a)
      IN  /\ index \in Int /\ (index >= 0 => index \in 0 .. tad.ch_way - 1)
          /\ (tad.ch_way = 3 => a < IntLines) => index >= 0
  BY <1>1, <1>3, <1>4, <1>5
<1>. QED
  BY <1>6 DEF tad

(* What the TAD finds: a channel of the controller, and with it those that *)
(* the modes in which it runs add, as the machine check's own channel does.*)
Chan(t) ==
  /\ t.c \in DOMAIN Ctl /\ t.base \in (0 .. 3) \cap DOMAIN Ctl[t.c].chan
  /\ get_mci_for_node_id(Ctl[t.c].node, Ctl[t.c].dom) = {t.c}
InMode(t, a) ==
  /\ t.mirrored = Mirrored(t.c, MirroredRange(t.c, a))
  /\ t.mask = Mask(t.base, t.mirrored, pvt[t.c].lockstep)

LEMMA FirstRule ==
  ASSUME machine \in Machines, NEW c \in DOMAIN Ctl, NEW a,
         NEW n \in Rule(Ctl[c].tad, DOMAIN Ctl[c].tad, a)
  PROVE  n \in DOMAIN Ctl[c].tad /\ (n = 1 <=> MirroredRange(c, a))
<1>1. IsTable(Ctl[c].tad) /\ DOMAIN Ctl[c].tad \in SUBSET Int
  BY ControllerFacts, TableFacts
<1>2. /\ n \in DOMAIN Ctl[c].tad /\ a <= Limit(Ctl[c].tad[n].limit)
      /\ \A k \in DOMAIN Ctl[c].tad : a <= Limit(Ctl[c].tad[k].limit) => n <= k
  BY <1>1, RuleFacts
<1>3. 1 \in DOMAIN Ctl[c].tad /\ n \in Nat /\ n >= 1
  BY <1>1, <1>2 DEF IsTable
<1>. QED
  BY <1>2, <1>3 DEF MirroredRange

LEMMA ChannelAddressType ==
  ASSUME NEW a \in Nat, NEW offset \in Nat, offset <= a, NEW shift \in Nat, NEW sck_xch \in Nat \ {0}
  PROVE  ChannelAddress(a, offset, shift, sck_xch) \in Nat
<1>. DEFINE p == 2 ^ shift
            q == (a - offset) \div p
            r == q \div sck_xch
            low == a % p
<1>1. p \in Nat \ {0}
  BY PowerOfTwo
<1>2. ChannelAddress(a, offset, shift, sck_xch) = r * p + low
  BY DEF ChannelAddress
<1>. HIDE DEF p
<1>3. q \in Nat
  BY <1>1, QuotientType
<1>. HIDE DEF q
<1>4. r \in Nat
  BY <1>3, QuotientType
<1>5. low \in Nat
  BY <1>1, QuotientType
<1>. HIDE DEF r, low
<1>6. r * p \in Nat
  BY <1>1, <1>4
<1>. QED
  BY <1>2, <1>5, <1>6

LEMMA PageType ==
  ASSUME NEW close_pg, NEW x \in Nat
  PROVE  Page(close_pg, x) \in Nat
<1>. DEFINE unit == 2 ^ (IF close_pg THEN 0 ELSE OpenPgShift)
<1>1. unit \in Nat \ {0}
  BY ScaleAssumption, PowerOfTwo
<1>. HIDE DEF unit
<1>2. x \div unit \in Nat
  BY <1>1, QuotientType
<1>. QED
  BY <1>2 DEF Page, unit

LEMMA TadResultFacts ==
  ASSUME machine \in Machines, NEW a \in Nat, NEW s, Agent(s),
         NEW n \in Rule(Ctl[s.c].tad, DOMAIN Ctl[s.c].tad, a)
  PROVE  /\ AtMostOne(TadResult(s, n, a))
         /\ \A t \in TadResult(s, n, a) : Chan(t) /\ InMode(t, a) /\ t.ch_addr \in Nat
<1>. DEFINE tad      == Ctl[s.c].tad[n]
            index    == ChannelIndex(s.c, tad, s.shift, a)
            base     == tad.tgt[index]
            mirrored == Mirrored(s.c, n = 1)
            ways     == IF mirrored THEN tad.ch_way \div 2 ELSE tad.ch_way
            offset   == Ctl[s.c].chan[base].offset[n] * 2 ^ ChunkBits
            addr     == ChannelAddress(a, offset, s.shift, 2 ^ tad.sock_way * ways)
            t        == [c |-> s.c, base |-> base, mirrored |-> mirrored, mask |-> Mask(base, mirrored, pvt[s.c].lockstep),
                         ch_addr |-> addr]
<1>1. TadResult(s, n, a) \subseteq {t} /\ (TadResult(s, n, a) # {} => ~(index < 0))
  BY DEF TadResult
<1>2. s.c \in DOMAIN Ctl /\ s.shift \in Nat /\ n \in DOMAIN Ctl[s.c].tad /\ (n = 1 <=> MirroredRange(s.c, a))
  BY FirstRule DEF Agent
<1>0. SUFFICES ASSUME TadResult(s, n, a) # {}
               PROVE  /\ AtMostOne(TadResult(s, n, a))
                      /\ \A u \in TadResult(s, n, a) : Chan(u) /\ InMode(u, a) /\ u.ch_addr \in Nat
  BY Zenon DEF AtMostOne
<1>9. ~(index < 0)
  BY <1>0, <1>1, Zenon
<1>3. base \in (0 .. 3) \cap DOMAIN Ctl[s.c].chan
  <2>1. index \in Int /\ (index >= 0 => index \in 0 .. tad.ch_way - 1)
    BY <1>2, ChannelIndexFacts
  <2>. HIDE DEF index
  <2>2. index \in 0 .. tad.ch_way - 1
    <3>1. ~(index < 0)
      BY <1>9 DEF index
    <3>. QED
      BY <2>1, <3>1
  <2>. QED
    BY <1>2, <2>2, TadFacts
<1>. HIDE DEF base
<1>4. mirrored = Mirrored(s.c, MirroredRange(s.c, a))
  BY <1>2 DEF Mirrored
<1>. HIDE DEF mirrored
<1>5. Chan(t) /\ InMode(t, a)
  <2>. HIDE DEF addr
  <2>. QED
    BY <1>2, <1>3, <1>4 DEF Agent, Chan, InMode
<1>6. addr \in Nat
  <2>1. ~((mirrored /\ tad.ch_way \notin {2, 4}) \/ offset > a)
    BY <1>0 DEF TadResult, base, mirrored
  <2>2. tad.ch_way \in 1 .. 4 /\ tad.sock_way \in Nat
    BY <1>2, TadFacts
  <2>3. ways \in Nat \ {0}
    <3>. HIDE DEF tad
    <3>. QED
      BY <2>1, <2>2
  <2>4. 2 ^ tad.sock_way \in Nat \ {0} /\ 2 ^ ChunkBits \in Nat \ {0}
    BY <2>2, ScaleAssumption, PowerOfTwo
  <2>5. 2 ^ tad.sock_way * ways \in Nat \ {0}
    <3>1. \A x, y \in Nat \ {0} : x * y \in Nat \ {0}
      OBVIOUS
    <3>. HIDE DEF tad, ways
    <3>. QED
      BY <2>3, <2>4, <3>1
  <2>6. Ctl[s.c].chan[base].offset[n] \in Nat
    BY <1>2, <1>3, TadFacts
  <2>7. offset \in Nat
    <3>1. \A x, y \in Nat : x * y \in Nat
      OBVIOUS
    <3>. QED
      BY <2>4, <2>6, <3>1
  <2>. HIDE DEF offset
  <2>8. offset <= a
    BY <2>1, <2>7
  <2>. HIDE DEF ways, tad
  <2>. QED
    BY <1>2, <2>5, <2>7, <2>8, ChannelAddressType
<1>7. t.ch_addr = addr
  OBVIOUS
<1>. HIDE DEF t, addr
<1>. QED
  BY <1>1, <1>5, <1>6, <1>7 DEF AtMostOne

LEMMA TadDecodeFacts ==
  ASSUME machine \in Machines, NEW a \in Nat, NEW s, Agent(s)
  PROVE  /\ AtMostOne(TadDecode(s, a))
         /\ \A t \in TadDecode(s, a) : Chan(t) /\ InMode(t, a) /\ t.ch_addr \in Nat
<1>. DEFINE rules == Rule(Ctl[s.c].tad, DOMAIN Ctl[s.c].tad, a)
<1>1. TadDecode(s, a) = UNION {TadResult(s, n, a) : n \in rules}
  BY DEF TadDecode
<1>2. AtMostOne(rules)
  BY ControllerFacts, TableFacts, RuleFacts DEF Agent
<1>3. \A n \in rules : AtMostOne(TadResult(s, n, a))
                     /\ \A t \in TadResult(s, n, a) : Chan(t) /\ InMode(t, a) /\ t.ch_addr \in Nat
  BY TadResultFacts
<1>. HIDE DEF rules
<1>4. AtMostOne({TadResult(s, n, a) : n \in rules})
  BY <1>2 DEF AtMostOne
<1>. QED
  BY <1>1, <1>3, <1>4, UnionOfOne

(* The rank of a place in a channel; and the slot, if the page fits.       *)
LEMMA RankFacts ==
  ASSUME machine \in Machines, NEW c \in DOMAIN Ctl, NEW ch \in DOMAIN Ctl[c].chan, NEW close_pg, NEW x \in Nat
  PROVE  /\ RanksAt(Ctl[c].chan[ch].rir, close_pg, x) \subseteq 0 .. 15
         /\ Page(close_pg, x) < IntLines =>
              /\ AtMostOne(RanksAt(Ctl[c].chan[ch].rir, close_pg, x))
              /\ \A rank \in RanksAt(Ctl[c].chan[ch].rir, close_pg, x) : Ctl[c].chan[ch].slot[DimmOf(rank)].present
<1>. DEFINE rir == Ctl[c].chan[ch].rir
            q   == Page(close_pg, x)
            Found(i) == RankAt(rir[i], IntRem(q, rir[i].ways))
<1>1. {k \in DOMAIN rir : rir[k].valid /\ x < (rir[k].limit + 1) * 2 ^ RirBits} \in SUBSET Int
  BY ChannelFacts, TableFacts
<1>2. AtMostOne(RirRule(rir, x)) /\ \A i \in RirRule(rir, x) : i \in DOMAIN rir /\ rir[i].valid
  BY <1>1, FirstFacts DEF RirRule
<1>3. RanksAt(rir, close_pg, x) = UNION {Found(i) : i \in RirRule(rir, x)}
  BY DEF RanksAt
<1>4. q \in Nat
  BY PageType
<1>. HIDE DEF q
<1>5. ASSUME NEW i \in RirRule(rir, x)
      PROVE  /\ Found(i) \subseteq 0 .. 15
             /\ q < IntLines => /\ AtMostOne(Found(i))
                                /\ \A rank \in Found(i) : Ctl[c].chan[ch].slot[DimmOf(rank)].present
  <2>. DEFINE ways  == rir[i].ways
              index == IntRem(q, ways)
  <2>1. i \in DOMAIN rir /\ rir[i].valid
    BY <1>2
  <2>2. /\ ways \in Nat \ {0}
        /\ \A k \in 0 .. ways - 1 : rir[i].rank[k] \in 0 .. 15 /\ Ctl[c].chan[ch].slot[DimmOf(rir[i].rank[k])].present
    BY <2>1, ChannelFacts
  <2>3. Found(i) = IF index < 0 THEN 0 .. 15 ELSE {rir[i].rank[index]}
    BY DEF RankAt
  <2>. HIDE DEF ways
  <2>4. index \in Int /\ (index >= 0 => index \in 0 .. ways - 1)
    BY <1>4, <2>2, IntFacts
  <2>5. q < IntLines => index \in 0 .. ways - 1
    <3>1. q < IntLines => index = q % ways
      BY <1>4, <2>2, IntFacts
    <3>2. q % ways \in 0 .. ways - 1
      BY <1>4, <2>2, QuotientType
    <3>. QED
      BY <3>1, <3>2
  <2>. HIDE DEF index
  <2>6. Found(i) \subseteq 0 .. 15
    <3>1. CASE index < 0
      BY <2>3, <3>1
    <3>2. CASE ~(index < 0)
      <4>1. index \in 0 .. ways - 1 /\ Found(i) = {rir[i].rank[index]}
        BY <2>3, <2>4, <3>2
      <4>. QED
        BY <2>2, <4>1, Zenon
    <3>. QED
      BY <3>1, <3>2
  <2>7. ASSUME q < IntLines
        PROVE  /\ AtMostOne(Found(i))
               /\ \A rank \in Found(i) : Ctl[c].chan[ch].slot[DimmOf(rank)].present
    <3>1. index \in 0 .. ways - 1
      BY <2>5, <2>7
    <3>2. Found(i) = {rir[i].rank[index]}
      BY <2>3, <3>1
    <3>. QED
      BY <2>2, <3>1, <3>2, Zenon DEF AtMostOne
  <2>. QED
    BY <2>6, <2>7
<1>. HIDE DEF rir, Found
<1>6. AtMostOne({Found(i) : i \in RirRule(rir, x)})
  BY <1>2 DEF AtMostOne
<1>7. RanksAt(rir, close_pg, x) \subseteq 0 .. 15
  BY <1>3, <1>5
<1>8. ASSUME q < IntLines
      PROVE  /\ AtMostOne(RanksAt(rir, close_pg, x))
             /\ \A rank \in RanksAt(rir, close_pg, x) : Ctl[c].chan[ch].slot[DimmOf(rank)].present
  BY <1>3, <1>5, <1>6, <1>8, UnionOfOne
<1>. QED
  BY <1>7, <1>8 DEF rir, q

(* A place in a channel, with a rank found there; a page that is an int.   *)
Settled(p) ==
  p.ch_addr \in Nat /\ p.rank \in RanksAt(Ctl[p.c].chan[p.base].rir, pvt[p.c].close_pg, p.ch_addr)
Fits(t) == Page(pvt[t.c].close_pg, t.ch_addr) < IntLines

LEMMA RankedFacts ==
  ASSUME machine \in Machines, NEW a, NEW t, Chan(t), InMode(t, a), t.ch_addr \in Nat
  PROVE  /\ \A p \in Ranked(t) :
              Chan(p) /\ InMode(p, a) /\ p.rank \in 0 .. 15 /\ p.c = t.c /\ p.ch_addr = t.ch_addr /\ Settled(p)
         /\ Fits(t) =>
              /\ AtMostOne(Ranked(t))
              /\ \A p \in Ranked(t) : Ctl[p.c].chan[p.base].slot[DimmOf(p.rank)].present
<1>. DEFINE ranks == RanksAt(Ctl[t.c].chan[t.base].rir, pvt[t.c].close_pg, t.ch_addr)
            Found(rank) == [c |-> t.c, base |-> t.base, mirrored |-> t.mirrored, mask |-> t.mask,
                            ch_addr |-> t.ch_addr, rank |-> rank]
<1>1. t.c \in DOMAIN Ctl /\ t.base \in DOMAIN Ctl[t.c].chan
  BY DEF Chan
<1>2. Ranked(t) = {Found(rank) : rank \in ranks}
  BY DEF Ranked
<1>3. /\ ranks \subseteq 0 .. 15
      /\ Fits(t) => AtMostOne(ranks) /\ \A rank \in ranks : Ctl[t.c].chan[t.base].slot[DimmOf(rank)].present
  BY <1>1, RankFacts DEF Fits
<1>. HIDE DEF ranks
<1>4. Fits(t) => AtMostOne(Ranked(t))
  <2>. HIDE DEF Found
  <2>. QED
    BY <1>2, <1>3 DEF AtMostOne
<1>5. ASSUME NEW p \in Ranked(t)
      PROVE  /\ Chan(p) /\ InMode(p, a) /\ p.rank \in 0 .. 15 /\ p.c = t.c /\ p.ch_addr = t.ch_addr /\ Settled(p)
             /\ Fits(t) => Ctl[p.c].chan[p.base].slot[DimmOf(p.rank)].present
  <2>1. PICK rank \in ranks : p = Found(rank)
    BY <1>2
  <2>2. /\ p.c = t.c /\ p.base = t.base /\ p.mirrored = t.mirrored /\ p.mask = t.mask /\ p.rank = rank
        /\ p.ch_addr = t.ch_addr
    BY <2>1
  <2>3. Settled(p)
    BY <2>2 DEF Settled, ranks
  <2>. QED
    BY <1>3, <2>2, <2>3 DEF Chan, InMode
<1>. QED
  BY <1>4, <1>5

(* A line has one place at most, in a DIMM that is there.                  *)
LEMMA PlaceFacts ==
  ASSUME machine \in Machines, ~Knl, NEW a \in Nat
  PROVE  /\ \A p \in Place(a) : Chan(p) /\ InMode(p, a) /\ p.rank \in 0 .. 15 /\ Settled(p)
         /\ Narrow(a) =>
              /\ AtMostOne(Place(a))
              /\ \A p \in Place(a) : Ctl[p.c].chan[p.base].slot[DimmOf(p.rank)].present
<1>. DEFINE Tads == UNION {TadDecode(s, a) : s \in SadDecode(a)}
<1>1. AtMostOne(SadDecode(a)) /\ \A s \in SadDecode(a) : Agent(s)
  BY SadFacts
<1>2. AtMostOne(Tads) /\ \A t \in Tads : Chan(t) /\ InMode(t, a) /\ t.ch_addr \in Nat
  <2>1. AtMostOne({TadDecode(s, a) : s \in SadDecode(a)})
    BY <1>1 DEF AtMostOne
  <2>. QED
    BY <1>1, <2>1, TadDecodeFacts, UnionOfOne
<1>. HIDE DEF Tads
<1>3. AtMostOne({Ranked(t) : t \in Tads})
  BY <1>2 DEF AtMostOne
<1>4. Place(a) = UNION {Ranked(t) : t \in Tads}
  BY DEF Place, Tads
<1>5. \A p \in Place(a) : Chan(p) /\ InMode(p, a) /\ p.rank \in 0 .. 15 /\ Settled(p)
  BY <1>2, <1>4, RankedFacts
<1>6. ASSUME Narrow(a), NEW t \in Tads
      PROVE  /\ AtMostOne(Ranked(t))
             /\ \A p \in Ranked(t) : Ctl[p.c].chan[p.base].slot[DimmOf(p.rank)].present
  <2>1. CASE Ranked(t) = {}
    BY <2>1 DEF AtMostOne
  <2>2. CASE Ranked(t) # {}
    <3>1. PICK p : p \in Ranked(t)
      BY <2>2
    <3>2. p \in Place(a) /\ p.c = t.c /\ p.ch_addr = t.ch_addr
      BY <1>2, <1>4, <3>1, RankedFacts
    <3>3. Fits(t)
      BY <1>6, <3>2, Zenon DEF Narrow, Fits
    <3>. QED
      BY <1>2, <3>3, RankedFacts
  <2>. QED
    BY <2>1, <2>2
<1>7. ASSUME Narrow(a)
      PROVE  /\ AtMostOne(Place(a))
             /\ \A p \in Place(a) : Ctl[p.c].chan[p.base].slot[DimmOf(p.rank)].present
  BY <1>3, <1>4, <1>6, <1>7, UnionOfOne
<1>. QED
  BY <1>5, <1>7

-----------------------------------------------------------------------------
(* The inductive invariant.  A report is made once, of a live machine,     *)
(* whose modes nothing changes any more.                                   *)

Modes == [mirror : {"NON_MIRRORING", "ADDR_RANGE_MIRRORING", "FULL_MIRRORING"},
          lockstep : BOOLEAN, close_pg : BOOLEAN, hash : BOOLEAN]
Configured ==
  /\ machine \in Machines
  /\ phase \in {"config", "live", "failed"}
  /\ at \in 1 .. Len(Ctl) + 1
  /\ pvt \in [DOMAIN Ctl -> Modes]
  /\ size \in [Places -> Nat \cup {Garbage}]
ReportType ==
  report # None =>
    /\ phase = "live"
    /\ report.kind \in {"error", "err_parsing"}
    /\ report.c \in DOMAIN Ctl /\ report.channel \in -1 .. 18 /\ report.dimm \in -1 .. 2
DecodeInv == Configured /\ ReportType /\ ReportsPlace

LEMMA ModeType ==
  ASSUME machine \in Machines, NEW c \in DOMAIN Ctl
  PROVE  Mode(c) \in Modes
<1>1. Ctl[c].hash \in BOOLEAN /\ Ctl[c].lockstep \in BOOLEAN /\ Ctl[c].close_pg \in BOOLEAN
  BY ControllerFacts
<1>2. Mode(c).mirror \in {"NON_MIRRORING", "ADDR_RANGE_MIRRORING", "FULL_MIRRORING"}
  BY DEF Mode
<1>3. /\ (~Knl /\ Ctl[c].lockstep) \in BOOLEAN /\ (~Knl /\ Ctl[c].close_pg) \in BOOLEAN
      /\ (Haswell /\ Ctl[c].hash) \in BOOLEAN
  BY <1>1
<1>. QED
  BY <1>2, <1>3 DEF Mode, Modes

LEMMA InvInit == Init => DecodeInv
<1>. SUFFICES ASSUME Init PROVE DecodeInv
  OBVIOUS
<1>1. machine \in Machines /\ Len(Ctl) \in Nat
  BY MachineFacts DEF Init, IsTable
<1>. QED
  BY <1>1 DEF Init, DimmInit, DecodeInv, Configured, ReportType, ReportsPlace, Modes

LEMMA ConfigStep ==
  ASSUME Configured, Config
  PROVE  Configured' /\ phase = "config" /\ machine' = machine
<1>0. machine' = machine /\ Ctl' = Ctl /\ Places' = Places /\ phase = "config"
  <2>1. machine' = machine /\ phase = "config"
    BY DEF Config, GetDimmConfig, ConfigFails, AllRegistered
  <2>. QED
    BY <2>1 DEF Ctl, Places, Dimms, Knl
<1>1. CASE GetDimmConfig
  <2>1. /\ at \in DOMAIN Ctl /\ phase' = phase /\ at' = at + 1 /\ pvt' = [pvt EXCEPT ![at] = Mode(at)]
        /\ size' = [d \in Places |-> IF d \notin Present(at) THEN size[d]
                                     ELSE IF Knl THEN LineMiB * McSize(machine, d[2]) ELSE SizeOf(Mtr(d))]
    BY <1>1 DEF GetDimmConfig
  <2>2. at' \in 1 .. Len(Ctl) + 1
    <3>1. Len(Ctl) \in Nat /\ DOMAIN Ctl = 1 .. Len(Ctl)
      BY MachineFacts DEF Configured, IsTable
    <3>. QED
      BY <2>1, <3>1
  <2>3. pvt' \in [DOMAIN Ctl -> Modes]
    BY <2>1, ModeType DEF Configured
  <2>4. ASSUME NEW d \in Places, Knl PROVE LineMiB * McSize(machine, d[2]) \in Nat
    <3>1. LineMiB \in Nat /\ McSize(machine, d[2]) \in Nat
      BY <2>4, ScaleAssumption, McSizeType DEF Configured
    <3>. QED
      BY <3>1
  <2>5. \A d \in Places : SizeOf(Mtr(d)) \in Nat \cup {Garbage}
    BY SizeType DEF Configured
  <2>6. size' \in [Places -> Nat \cup {Garbage}]
    BY <2>1, <2>4, <2>5 DEF Configured
  <2>. QED
    BY <1>0, <2>1, <2>2, <2>3, <2>6 DEF Configured, Garbage
<1>2. CASE ConfigFails \/ AllRegistered
  BY <1>0, <1>2 DEF ConfigFails, AllRegistered, Configured, Garbage
<1>. QED
  BY <1>0, <1>1, <1>2 DEF Config

-----------------------------------------------------------------------------
(* What Handle makes of a machine check.                                   *)

LEMMA MaskFacts ==
  ASSUME NEW ch, NEW mirrored, NEW lockstep
  PROVE  ch \in Mask(ch, mirrored, lockstep) /\ (~lockstep /\ ~mirrored => Mask(ch, mirrored, lockstep) = {ch})
BY DEF Mask

(* Of a single channel the channel is reported, or else the machine        *)
(* check's, which is the same for the agent that has the line.             *)
LEMMA ChannelOf ==
  ASSUME NEW m, NEW p, NEW ch \in 0 .. 14, p.mask = Mask(ch, p.mirrored, pvt[p.c].lockstep)
  PROVE  /\ Channel(m, p) \in {ch, -1, m.channel}
         /\ m.channel = ch => Channel(m, p) = ch
<1>1. CASE ~pvt[p.c].lockstep /\ ~p.mirrored /\ ~pvt[p.c].close_pg
  <2>1. p.mask = {ch}
    BY <1>1, MaskFacts
  <2>2. \A x \in p.mask : ch <= x
    BY <2>1
  <2>3. (CHOOSE x \in p.mask : \A y \in p.mask : x <= y) = ch
    BY <2>1, <2>2
  <2>. QED
    BY <1>1, <2>3 DEF Channel
<1>2. CASE ~(~pvt[p.c].lockstep /\ ~p.mirrored /\ ~pvt[p.c].close_pg)
  BY <1>2 DEF Channel, CHANNEL_UNSPECIFIED
<1>. QED
  BY <1>1, <1>2

LEMMA DimmFacts ==
  /\ DimmOf(255) = -1
  /\ \A rank \in 0 .. 15 : DimmOf(rank) \in 0 .. 2
BY DEF DimmOf

LEMMA FromMceFacts ==
  ASSUME machine \in Machines, NEW m
  PROVE  \A p \in FromMce(m) :
           /\ p.c \in get_mci_for_node_id(m.socket, get_ha(m.bank)) /\ p.c \in DOMAIN Ctl
           /\ m.channel < 6 /\ p.rank = 255
           /\ p.mirrored = Mirrored(p.c, MirroredRange(p.c, m.addr))
           /\ p.mask = Mask(m.channel, p.mirrored, pvt[p.c].lockstep)
BY NodeFacts DEF FromMce, MceResult

(* The report of an error known by its page, and of one known by its line. *)
LEMMA PageReport ==
  ASSUME machine \in Machines, ~Knl, NEW m \in Errors(machine), NEW p \in Place(m.addr), Truthful(m, p),
         NEW q \in FromMce(m)
  PROVE  q.c = p.c /\ q.mask = p.mask /\ Channel(m, q) \in p.mask /\ DimmOf(q.rank) = -1
<1>1. m.addr \in Nat /\ m.channel \in 0 .. 15
  BY ErrorsAssumption
<1>2. Chan(p) /\ InMode(p, m.addr)
  BY <1>1, PlaceFacts
<1>3. m.socket = Ctl[p.c].node /\ get_ha(m.bank) = Ctl[p.c].dom /\ m.channel = p.base
  BY DEF Truthful
<1>4. q.c = p.c
  BY <1>2, <1>3, FromMceFacts DEF Chan
<1>5. q.mirrored = p.mirrored /\ q.mask = Mask(m.channel, q.mirrored, pvt[q.c].lockstep) /\ q.mask = p.mask /\ q.rank = 255
  BY <1>2, <1>3, <1>4, FromMceFacts DEF InMode
<1>6. m.channel \in 0 .. 14
  BY <1>2, <1>3 DEF Chan
<1>7. m.channel \in q.mask
  <2>1. m.channel \in Mask(m.channel, q.mirrored, pvt[q.c].lockstep)
    BY MaskFacts
  <2>. QED
    BY <1>5, <2>1
<1>8. Channel(m, q) = m.channel
  <2>1. q.mask = Mask(m.channel, q.mirrored, pvt[q.c].lockstep)
    BY <1>5
  <2>. QED
    BY <1>6, <2>1, ChannelOf
<1>. QED
  BY <1>4, <1>5, <1>7, <1>8, DimmFacts

LEMMA LineReport ==
  ASSUME machine \in Machines, ~Knl, NEW m \in Errors(machine), Narrow(m.addr), NEW p \in Place(m.addr), Truthful(m, p)
  PROVE  /\ Channel(m, p) \in p.mask
         /\ <<p.c, Channel(m, p), DimmOf(p.rank)>> \in Present(p.c)
<1>1. m.addr \in Nat
  BY ErrorsAssumption
<1>2. /\ Chan(p) /\ InMode(p, m.addr) /\ p.rank \in 0 .. 15
      /\ Ctl[p.c].chan[p.base].slot[DimmOf(p.rank)].present
  BY <1>1, PlaceFacts
<1>3. m.channel = p.base /\ p.base \in 0 .. 14 /\ p.base \in DOMAIN Ctl[p.c].chan
  BY <1>2 DEF Truthful, Chan
<1>4. Channel(m, p) = p.base /\ p.base \in p.mask
  BY <1>2, <1>3, ChannelOf, MaskFacts DEF InMode
<1>5. DimmOf(p.rank) \in Slots
  BY <1>2, DimmFacts DEF Slots
<1>. DEFINE d == <<p.c, p.base, DimmOf(p.rank)>>
<1>6. d \in Dimms(p.c)
  BY <1>3, <1>5 DEF Dimms
<1>7. Mtr(d).present
  BY <1>2 DEF Mtr
<1>. QED
  BY <1>4, <1>6, <1>7 DEF Present

(* What depends on the machine and the modes alone.                        *)
LEMMA SamePlaces ==
  ASSUME UNCHANGED <<machine, pvt>>
  PROVE  /\ Knl' = Knl /\ Ctl' = Ctl
         /\ \A a : Place(a)' = Place(a) /\ Special(a)' = Special(a) /\ Narrow(a)' = Narrow(a)
         /\ \A c : Present(c)' = Present(c)
         /\ \A bank : get_ha(bank)' = get_ha(bank)
<1>1. machine' = machine /\ pvt' = pvt
  OBVIOUS
<1>2. Knl' = Knl /\ Ctl' = Ctl
  BY <1>1, Zenon DEF Knl, Ctl
<1>3. \A c : Present(c)' = Present(c)
  BY <1>1, Zenon DEF Present, Dimms, Mtr, Ctl, Knl
<1>4. \A bank : get_ha(bank)' = get_ha(bank)
  BY <1>1, Zenon DEF get_ha
<1>5. \A a : Special(a)' = Special(a)
  BY <1>1, Zenon DEF Special, Tohm, Haswell
<1>6. \A a : SadDecode(a)' = SadDecode(a)
  BY <1>1 DEF SadDecode, Index
<1>7. \A s, a : TadDecode(s, a)' = TadDecode(s, a)
  BY <1>1 DEF TadDecode, TadResult, Mirrored, ChannelIndex, Ctl
<1>8. \A t : Ranked(t)' = Ranked(t)
  BY <1>1 DEF Ranked, Ctl
<1>9. \A a : Place(a)' = Place(a)
  BY <1>6, <1>7, <1>8, Zenon DEF Place
<1>10. \A a : Narrow(a)' = Narrow(a)
  BY <1>1, <1>2, <1>6, <1>9 DEF Narrow
<1>. QED
  BY <1>2, <1>3, <1>4, <1>5, <1>9, <1>10

LEMMA RecordFacts ==
  ASSUME NEW m, NEW kind, NEW c, NEW mask, NEW channel, NEW dimm, NEW r,
         r = [kind |-> kind, mce |-> m, c |-> c, mask |-> mask, channel |-> channel, dimm |-> dimm]
  PROVE  /\ r.kind = kind /\ r.mce = m /\ r.c = c /\ r.mask = mask /\ r.channel = channel /\ r.dimm = dimm
         /\ r # None
BY DEF None

(* What a report of m must be, seen from the machine as it is.             *)
Right(m, r) ==
  Narrow(m.addr) => \A p \in Place(m.addr) : Truthful(m, p) =>
    IF r.kind = "error"
      THEN /\ r.c = p.c /\ r.mask = p.mask /\ r.channel \in p.mask
           /\ r.dimm = IF m.page THEN -1 ELSE DimmOf(p.rank)
           /\ ~m.page => <<p.c, r.channel, r.dimm>> \in Present(p.c)
      ELSE Special(m.addr) /\ ~m.page

LEMMA HandleStep ==
  ASSUME machine \in Machines, NEW m \in Errors(machine), Handle(m)
  PROVE  ReportType' /\ ReportsPlace'
<1>1. phase = "live" /\ ~Knl /\ phase' = phase /\ UNCHANGED <<machine, pvt>>
  BY DEF Handle, dimmVars
<1>2. m.addr \in Nat /\ m.page \in BOOLEAN /\ m.channel \in 0 .. 15
  BY ErrorsAssumption
<1>3. /\ Knl' = Knl /\ Ctl' = Ctl
      /\ \A a : Place(a)' = Place(a) /\ Special(a)' = Special(a) /\ Narrow(a)' = Narrow(a)
      /\ \A c : Present(c)' = Present(c)
      /\ \A bank : get_ha(bank)' = get_ha(bank)
  BY <1>1, SamePlaces
<1>4. report'.mce = m /\ Right(m, report') => ReportsPlace'
  <2>1. SUFFICES ASSUME report'.mce = m, Right(m, report'), report' # None, Narrow(m.addr), NEW p \in Place(m.addr), Truthful(m, p)
                 PROVE  IF report'.kind = "error"
                          THEN /\ report'.c = p.c /\ report'.mask = p.mask
                               /\ report'.channel \in p.mask
                               /\ report'.dimm = IF report'.mce.page THEN -1 ELSE DimmOf(p.rank)
                               /\ ~report'.mce.page => <<p.c, report'.channel, report'.dimm>> \in Present(p.c)
                          ELSE Special(report'.mce.addr) /\ ~report'.mce.page
    BY <1>1, <1>3 DEF ReportsPlace, Truthful, None
  <2>. QED
    BY <2>1 DEF Right
<1>5. PICK c \in ReporterOf(m) :
        LET found == IF m.page THEN FromMce(m) ELSE Decode(m.addr)
        IN  IF found = {} THEN report' = [Handled(m) EXCEPT !.kind = "err_parsing", !.c = c]
            ELSE \E p \in found :
                   report' = [Handled(m) EXCEPT !.c = p.c, !.mask = p.mask,
                                                !.channel = Channel(m, p), !.dimm = DimmOf(p.rank)]
  BY DEF Handle
<1>. DEFINE found == IF m.page THEN FromMce(m) ELSE Decode(m.addr)
<1>6. c \in DOMAIN Ctl
  BY <1>1, NodeFacts DEF ReporterOf
<1>7. CASE found = {}
  <2>1. report' = [kind |-> "err_parsing", mce |-> m, c |-> c, mask |-> {}, channel |-> -1, dimm |-> -1]
    BY <1>5, <1>7 DEF Handled
  <2>2. /\ report'.kind = "err_parsing" /\ report'.mce = m /\ report'.c = c
        /\ report'.channel = -1 /\ report'.dimm = -1
    BY <2>1
  <2>3. ReportType'
    BY <1>1, <1>3, <1>6, <2>2 DEF ReportType
  <2>4. ASSUME NEW p \in Place(m.addr), Truthful(m, p) PROVE Special(m.addr) /\ ~m.page
    <3>1. CASE m.page
      <4>1. Chan(p) /\ m.socket = Ctl[p.c].node /\ get_ha(m.bank) = Ctl[p.c].dom /\ m.channel = p.base
        BY <1>1, <1>2, <2>4, PlaceFacts DEF Truthful
      <4>2. m.channel < 6 /\ p.c \in get_mci_for_node_id(m.socket, get_ha(m.bank))
        BY <4>1 DEF Chan
      <4>3. FromMce(m) # {}
        BY <4>2 DEF FromMce
      <4>. QED
        BY <1>7, <3>1, <4>3
    <3>2. CASE ~m.page
      BY <1>7, <3>2 DEF Decode
    <3>. QED
      BY <3>1, <3>2
  <2>5. Right(m, report')
    BY <2>2, <2>4 DEF Right
  <2>. QED
    BY <1>4, <2>2, <2>3, <2>5
<1>8. CASE found # {}
  <2>1. PICK q \in found :
          report' = [Handled(m) EXCEPT !.c = q.c, !.mask = q.mask, !.channel = Channel(m, q), !.dimm = DimmOf(q.rank)]
    BY <1>5, <1>8
  <2>2. report' = [kind |-> "error", mce |-> m, c |-> q.c, mask |-> q.mask,
                   channel |-> Channel(m, q), dimm |-> DimmOf(q.rank)]
    BY <2>1 DEF Handled
  <2>3. /\ report'.kind = "error" /\ report'.mce = m /\ report'.c = q.c /\ report'.mask = q.mask
        /\ report'.channel = Channel(m, q) /\ report'.dimm = DimmOf(q.rank)
    BY <2>2
  <2>4. CASE m.page
    <3>1. q \in FromMce(m)
      BY <2>4
    <3>2. /\ q.c \in DOMAIN Ctl /\ m.channel < 6 /\ q.rank = 255
          /\ q.mask = Mask(m.channel, q.mirrored, pvt[q.c].lockstep)
      BY <1>1, <3>1, FromMceFacts
    <3>3. Channel(m, q) \in -1 .. 18
      <4>1. m.channel \in 0 .. 14
        BY <1>2, <3>2
      <4>. QED
        BY <3>2, <4>1, ChannelOf
    <3>4. ReportType'
      BY <1>1, <1>3, <2>3, <3>2, <3>3, DimmFacts DEF ReportType
    <3>5. Right(m, report')
      BY <1>1, <2>3, <2>4, <3>1, PageReport DEF Right
    <3>. QED
      BY <1>4, <2>3, <3>4, <3>5
  <2>5. CASE ~m.page
    <3>1. q \in Place(m.addr)
      BY <2>5 DEF Decode
    <3>2. /\ Narrow(m.addr) => AtMostOne(Place(m.addr))
          /\ Chan(q) /\ InMode(q, m.addr) /\ q.rank \in 0 .. 15
      BY <1>1, <1>2, <3>1, PlaceFacts
    <3>3. Channel(m, q) \in -1 .. 18
      <4>1. q.base \in 0 .. 14 /\ q.mask = Mask(q.base, q.mirrored, pvt[q.c].lockstep)
        BY <3>2 DEF Chan, InMode
      <4>2. Channel(m, q) \in {q.base, -1, m.channel}
        BY <4>1, ChannelOf
      <4>. QED
        BY <1>2, <4>1, <4>2
    <3>4. ReportType'
      BY <1>1, <1>3, <2>3, <3>2, <3>3, DimmFacts DEF ReportType, Chan
    <3>5. Right(m, report')
      <4>1. Narrow(m.addr) => \A p \in Place(m.addr) : p = q
        BY <3>1, <3>2 DEF AtMostOne
      <4>2. Narrow(m.addr) /\ Truthful(m, q) => /\ Channel(m, q) \in q.mask
                              /\ <<q.c, Channel(m, q), DimmOf(q.rank)>> \in Present(q.c)
        BY <1>1, <3>1, LineReport
      <4>. QED
        BY <2>3, <2>5, <4>1, <4>2 DEF Right
    <3>. QED
      BY <1>4, <2>3, <3>4, <3>5
  <2>. QED
    BY <1>2, <2>4, <2>5
<1>. QED
  BY <1>7, <1>8

LEMMA HandleKnlStep ==
  ASSUME machine \in Machines, NEW m \in Errors(machine), HandleKnl(m)
  PROVE  ReportType' /\ ReportsPlace'
<1>1. phase = "live" /\ Knl /\ phase' = phase /\ UNCHANGED <<machine, pvt>>
  BY DEF HandleKnl, dimmVars
<1>2. Knl' = Knl /\ Ctl' = Ctl
  BY <1>1, SamePlaces
<1>. DEFINE channel == knl_channel_remap(IF m.bank = 16 THEN 1 ELSE 0, m.channel)
<1>3. PICK c \in ReporterOf(m) :
        report' = [Handled(m) EXCEPT !.c = c, !.mask = {channel}, !.channel = channel, !.dimm = 0]
  BY DEF HandleKnl
<1>4. report' = [kind |-> "error", mce |-> m, c |-> c, mask |-> {channel}, channel |-> channel, dimm |-> 0]
  BY <1>3 DEF Handled
<1>5. report'.kind = "error" /\ report'.mce = m /\ report'.c = c /\ report'.channel = channel /\ report'.dimm = 0
  <2>. HIDE DEF channel
  <2>. QED
    BY <1>4
<1>6. c \in DOMAIN Ctl /\ m.channel \in 0 .. 15
  BY NodeFacts, ErrorsAssumption DEF ReporterOf
<1>7. channel \in -1 .. 18
  BY <1>6 DEF knl_channel_remap
<1>8. ReportType'
  <2>. HIDE DEF channel
  <2>. QED
    BY <1>1, <1>2, <1>5, <1>6, <1>7 DEF ReportType
<1>9. m.bank \in 15 .. 16 /\ m.channel \in 0 .. 2 => channel \in {ch \in 0 .. 5 : knl_channel_mc(ch) = m.bank - 15}
  <2>1. SUFFICES ASSUME m.bank \in 15 .. 16, m.channel \in 0 .. 2
                 PROVE  channel \in {ch \in 0 .. 5 : knl_channel_mc(ch) = m.bank - 15}
    OBVIOUS
  <2>2. CASE m.bank = 16
    BY <2>1, <2>2 DEF knl_channel_remap, knl_channel_mc
  <2>3. CASE m.bank = 15
    BY <2>1, <2>3 DEF knl_channel_remap, knl_channel_mc
  <2>. QED
    BY <2>1, <2>2, <2>3
<1>10. ReportsPlace'
  <2>. HIDE DEF channel
  <2>. QED
    BY <1>1, <1>2, <1>5, <1>9 DEF ReportsPlace, KnlPlace
<1>. QED
  BY <1>8, <1>10

LEMMA InvStep == DecodeInv /\ [Next]_vars => DecodeInv'
<1>. SUFFICES ASSUME DecodeInv, [Next]_vars PROVE DecodeInv'
  OBVIOUS
<1>1. ASSUME Config, UNCHANGED report PROVE DecodeInv'
  <2>1. Configured' /\ phase = "config"
    BY <1>1, ConfigStep DEF DecodeInv
  <2>2. report = None
    BY <2>1 DEF DecodeInv, ReportType
  <2>3. report' = None
    BY <1>1, <2>2
  <2>4. None' = None
    BY DEF None
  <2>. QED
    BY <2>1, <2>3, <2>4 DEF DecodeInv, ReportType, ReportsPlace
<1>2. ASSUME NEW m \in Errors(machine), Handle(m) \/ HandleKnl(m) PROVE DecodeInv'
  <2>1. UNCHANGED dimmVars /\ machine \in Machines
    BY <1>2 DEF Handle, HandleKnl, DecodeInv, Configured
  <2>2. Configured'
    BY <2>1 DEF Configured, dimmVars, DecodeInv, Ctl, Places, Dimms, Knl
  <2>3. ReportType' /\ ReportsPlace'
    BY <1>2, <2>1, HandleStep, HandleKnlStep
  <2>. QED
    BY <2>2, <2>3 DEF DecodeInv
<1>3. CASE UNCHANGED vars
  <2>1. UNCHANGED dimmVars /\ UNCHANGED <<machine, pvt>> /\ phase' = phase /\ report' = report
    BY <1>3 DEF vars, dimmVars
  <2>2. Configured'
    BY <2>1 DEF Configured, dimmVars, DecodeInv, Ctl, Places, Dimms, Knl
  <2>3. ReportType'
    BY <2>1 DEF DecodeInv, ReportType, Ctl, None
  <2>4. ReportsPlace'
    BY <2>1, SamePlaces DEF DecodeInv, ReportsPlace, KnlPlace, Truthful, None
  <2>. QED
    BY <2>2, <2>3, <2>4 DEF DecodeInv
<1>. QED
  BY <1>1, <1>2, <1>3 DEF Next

LEMMA Invariance == Spec => []DecodeInv
<1>. QED
  BY InvInit, InvStep, PTL DEF Spec

-----------------------------------------------------------------------------
(* The modes, sizes and reports of the decoder keep their types, on every  *)
(* machine of the five processors: a size is that of fields in range, of   *)
(* Knights Landing's tables, or the product of a field out of range.       *)
THEOREM TypeCorrect == Spec => []TypeOK
<1>1. DecodeInv => TypeOK
  BY DEF DecodeInv, Configured, ReportType, TypeOK, Modes
<1>. QED
  BY <1>1, Invariance, PTL

(* A machine check of the agent that has a line is reported for the        *)
(* controller, the channels and, if the line is known, the DIMM that the   *)
(* registers give it, which is there; it is refused only for what          *)
(* haswell_get_tohm() cuts off.  This is of lines whose indices are ints;  *)
(* for others get_memory_error_data() may refuse or misplace the line.  Of *)
(* Knights Landing the channel reported is the reporting controller's.     *)
THEOREM ReportsPlaceHolds == Spec => []ReportsPlace
<1>1. DecodeInv => ReportsPlace
  BY DEF DecodeInv
<1>. QED
  BY <1>1, Invariance, PTL

-----------------------------------------------------------------------------
(* Quotients and powers of two.                                            *)

LEMMA DivMod ==
  ASSUME NEW n \in Int, NEW p \in Nat \ {0}
  PROVE  n \div p \in Int /\ n % p \in 0 .. p - 1 /\ n = p * (n \div p) + (n % p)
OBVIOUS

Same(x, r, y, q, p) == x * p + r = y * p + q
LEMMA SameBlock ==
  ASSUME NEW p \in Nat \ {0}, NEW x \in Int, NEW y \in Int, NEW r \in 0 .. p - 1, NEW q \in 0 .. p - 1,
         Same(x, r, y, q, p)
  PROVE  x = y /\ r = q
<1>. USE DEF Same
<1>1. r \in Int /\ q \in Int /\ r - q < p /\ q - r < p /\ (x - y) * p = q - r
  OBVIOUS
<1>2. CASE x - y >= 1
  <2>1. (x - y) * p >= p
    BY <1>2
  <2>. QED
    BY <1>1, <2>1
<1>3. CASE x - y <= -1
  <2>1. (x - y) * p <= -p
    BY <1>3
  <2>. QED
    BY <1>1, <2>1
<1>4. CASE x - y = 0
  BY <1>1, <1>4
<1>. QED
  BY <1>2, <1>3, <1>4

LEMMA DivMonotone ==
  ASSUME NEW m \in Int, NEW n \in Int, NEW p \in Nat \ {0}, m <= n
  PROVE  m \div p <= n \div p
<1>. DEFINE x == m \div p
            y == n \div p
<1>1. /\ x \in Int /\ y \in Int /\ m % p \in 0 .. p - 1 /\ n % p \in 0 .. p - 1
      /\ m = p * x + (m % p) /\ n = p * y + (n % p)
  BY DivMod
<1>. HIDE DEF x, y
<1>2. CASE x >= y + 1
  <2>1. p * x >= p * (y + 1)
    BY <1>1, <1>2
  <2>2. p * (y + 1) = p * y + p
    BY <1>1
  <2>. QED
    BY <1>1, <2>1, <2>2
<1>3. CASE x <= y
  BY <1>3 DEF x, y
<1>. QED
  BY <1>1, <1>2, <1>3

LEMMA PowerNext ==
  ASSUME NEW n \in Nat
  PROVE  2 ^ (n + 1) = 2 * 2 ^ n
<1>. DEFINE S == SUBSET (1 .. n)
            T == {s \cup {n + 1} : s \in S}
            f == [s \in S |-> s \cup {n + 1}]
<1>1. IsFiniteSet(S) /\ Cardinality(S) = 2 ^ n /\ Cardinality(S) \in Nat
  BY SubsetsOf, FS_CardinalityType
<1>2. Cardinality(SUBSET (1 .. n + 1)) = 2 ^ (n + 1)
  BY SubsetsOf
<1>3. \A s \in S : n + 1 \notin s
  OBVIOUS
<1>4. f \in Bijection(S, T)
  <2>1. \A a, b \in S : f[a] = f[b] => a = b
    BY <1>3
  <2>2. \A t \in T : \E s \in S : f[s] = t
    OBVIOUS
  <2>3. f \in [S -> T]
    OBVIOUS
  <2>. HIDE DEF f, T, S
  <2>. QED
    BY <2>1, <2>2, <2>3 DEF Bijection, Injection, Surjection, IsInjective
<1>5. IsFiniteSet(T) /\ Cardinality(T) = Cardinality(S)
  BY <1>1, <1>4, FS_Bijection DEF ExistsBijection
<1>6. S \cap T = {}
  BY <1>3
<1>7. SUBSET (1 .. n + 1) = S \cup T
  <2>0. 1 .. n \subseteq 1 .. n + 1 /\ n + 1 \in 1 .. n + 1
    OBVIOUS
  <2>1. S \cup T \subseteq SUBSET (1 .. n + 1)
    BY <2>0
  <2>2. ASSUME NEW u \in SUBSET (1 .. n + 1) PROVE u \in S \cup T
    <3>1. CASE n + 1 \notin u
      BY <3>1
    <3>2. CASE n + 1 \in u
      <4>1. u \ {n + 1} \in S
        OBVIOUS
      <4>2. u = (u \ {n + 1}) \cup {n + 1}
        BY <3>2
      <4>. QED
        BY <4>1, <4>2
    <3>. QED
      BY <3>1, <3>2
  <2>. QED
    BY <2>1, <2>2
<1>. HIDE DEF S, T
<1>8. Cardinality(S \cup T) = Cardinality(S) + Cardinality(T) - Cardinality({})
  BY <1>1, <1>5, <1>6, FS_Union
<1>9. \A c \in Nat : c + c - 0 = 2 * c
  OBVIOUS
<1>10. 2 ^ (n + 1) = 2 * Cardinality(S)
  BY <1>1, <1>2, <1>5, <1>7, <1>8, <1>9, FS_EmptySet
<1>. QED
  BY <1>1, <1>10

LEMMA NoLeast ==
  ASSUME NEW S \in SUBSET Nat, \A d \in S : d - 1 \in S
  PROVE  S = {}
<1>1. ASSUME NEW d \in S, \A k \in S : d <= k PROVE FALSE
  <2>1. d - 1 \in S /\ d \in Int
    OBVIOUS
  <2>2. d <= d - 1
    BY <1>1, <2>1
  <2>. QED
    BY <2>1, <2>2
<1>. QED
  BY <1>1, Least

LEMMA SmallerPower ==
  ASSUME NEW n \in Nat, NEW S \in SUBSET Nat, S = {d \in Nat : ~\E k \in Nat : 2 ^ (n + d) = k * 2 ^ n}
  PROVE  S = {}
<1>1. 0 \notin S
  <2>1. 2 ^ (n + 0) = 1 * 2 ^ n
    BY PowerOfTwo
  <2>. QED
    BY <2>1
<1>2. ASSUME NEW d \in S PROVE d - 1 \in S
  <2>1. d \in Nat /\ d # 0 /\ d - 1 \in Nat
    BY <1>1
  <2>2. SUFFICES ASSUME NEW k \in Nat, 2 ^ (n + (d - 1)) = k * 2 ^ n
                 PROVE  FALSE
    BY <2>1
  <2>3. 2 ^ ((n + (d - 1)) + 1) = 2 * 2 ^ (n + (d - 1))
    BY <2>1, PowerNext
  <2>4. (n + (d - 1)) + 1 = n + d
    BY <2>1
  <2>5. 2 ^ n \in Nat
    BY PowerOfTwo
  <2>6. 2 ^ (n + d) = 2 * (k * 2 ^ n)
    BY <2>2, <2>3, <2>4
  <2>7. \A p \in Nat : 2 * (k * p) = (2 * k) * p
    OBVIOUS
  <2>8. 2 ^ (n + d) = (2 * k) * 2 ^ n /\ 2 * k \in Nat
    BY <2>5, <2>6, <2>7
  <2>. QED
    BY <2>8
<1>. QED
  BY <1>2, NoLeast

LEMMA PowerDivides ==
  ASSUME NEW n \in Nat, NEW m \in Nat, n <= m
  PROVE  \E k \in Nat : 2 ^ m = k * 2 ^ n
<1>. DEFINE S == {d \in Nat : ~\E k \in Nat : 2 ^ (n + d) = k * 2 ^ n}
<1>1. S = {}
  <2>1. S \in SUBSET Nat
    OBVIOUS
  <2>2. \A T \in SUBSET Nat : T = {d \in Nat : ~\E k \in Nat : 2 ^ (n + d) = k * 2 ^ n} => T = {}
    BY SmallerPower, Zenon
  <2>. QED
    BY <2>1, <2>2, Zenon
<1>2. m - n \in Nat /\ n + (m - n) = m
  OBVIOUS
<1>. QED
  BY <1>1, <1>2


LEMMA Powers ==
  2 ^ 0 = 1 /\ 2 ^ 1 = 2 /\ 2 ^ 2 = 4 /\ 2 ^ 3 = 8 /\ 2 ^ 4 = 16 /\ 2 ^ 5 = 32 /\ 2 ^ 6 = 64
<1>1. 2 ^ 0 = 1
  BY SubsetsOf, FS_EmptySet, FS_Singleton
<1>2. /\ 2 ^ (0 + 1) = 2 * 2 ^ 0 /\ 2 ^ (1 + 1) = 2 * 2 ^ 1 /\ 2 ^ (2 + 1) = 2 * 2 ^ 2
      /\ 2 ^ (3 + 1) = 2 * 2 ^ 3 /\ 2 ^ (4 + 1) = 2 * 2 ^ 4 /\ 2 ^ (5 + 1) = 2 * 2 ^ 5
  BY PowerNext
<1>. QED
  BY <1>1, <1>2

(* Dividing twice.                                                         *)
Multiple(q, t, p) == q = t * p
LEMMA DivDiv ==
  ASSUME NEW n \in Int, NEW p \in Nat \ {0}, NEW t \in Nat \ {0}, NEW q, Multiple(q, t, p)
  PROVE  q \in Nat \ {0} /\ n \div q = (n \div p) \div t
<1>. DEFINE x == n \div p
            y == x \div t
            s == x % t
            r == n % p
            z == n \div q
            u == n % q
            v == p * s + r
<1>1. x \in Int /\ r \in 0 .. p - 1 /\ n = p * x + r
  BY DivMod
<1>. HIDE DEF x, r
<1>2. y \in Int /\ s \in 0 .. t - 1 /\ x = t * y + s
  BY <1>1, DivMod
<1>. HIDE DEF y, s
<1>3. q \in Nat \ {0} /\ q = t * p
  BY DEF Multiple
<1>. HIDE DEF z, u, v
<1>4. p * x = q * y + p * s
  <2>1. p * x = p * (t * y + s)
    BY <1>2
  <2>2. p * (t * y + s) = p * (t * y) + p * s
    BY <1>2
  <2>3. p * (t * y) = (t * p) * y
    BY <1>2
  <2>4. (t * p) * y = q * y
    BY <1>3
  <2>. QED
    BY <2>1, <2>2, <2>3, <2>4
<1>5. v \in 0 .. q - 1
  <2>1. p * s \in Int /\ 0 <= p * s
    BY <1>2
  <2>2. p * s <= p * (t - 1)
    BY <1>2
  <2>3. p * (t - 1) = q - p
    <3>1. p * (t - 1) = p * t - p
      OBVIOUS
    <3>2. p * t = t * p
      OBVIOUS
    <3>. QED
      BY <1>3, <3>1, <3>2
  <2>. QED
    BY <1>1, <1>3, <2>1, <2>2, <2>3 DEF v
<1>6. n = q * y + v
  <2>1. q * y \in Int /\ p * s \in Int /\ p * x \in Int
    BY <1>1, <1>2, <1>3
  <2>. QED
    BY <1>1, <1>4, <2>1 DEF v
<1>7. z \in Int /\ u \in 0 .. q - 1 /\ n = q * z + u
  BY <1>3, DivMod DEF z, u
<1>8. Same(z, u, y, v, q)
  <2>1. z * q = q * z /\ y * q = q * y
    BY <1>2, <1>3, <1>7
  <2>. QED
    BY <1>6, <1>7, <2>1 DEF Same
<1>9. z = y
  BY <1>2, <1>3, <1>5, <1>7, <1>8, SameBlock
<1>. QED
  BY <1>3, <1>9 DEF z, y, x

Twice(n, q, t, p) == n \in Int /\ p \in Nat \ {0} /\ t \in Nat \ {0} /\ Multiple(q, t, p)
LEMMA Divided ==
  ASSUME NEW n, NEW q, NEW t, NEW p, Twice(n, q, t, p)
  PROVE  q \in Nat \ {0} /\ n \div q = (n \div p) \div t
BY DivDiv DEF Twice

-----------------------------------------------------------------------------
(* The digits of an address.                                               *)

LEMMA DigitForm ==
  ASSUME NEW a \in Nat, NEW k \in Nat
  PROVE  Digit(a, k) = (a \div 2 ^ k) % 2 /\ Digit(a, k) \in 0 .. 1
<1>1. 2 ^ k \in Nat \ {0}
  BY PowerOfTwo
<1>2. a \div 2 ^ k \in Nat
  BY <1>1, QuotientType
<1>. QED
  BY <1>2, Powers DEF Digit, Bits

LEMMA SameAbove ==
  ASSUME NEW a \in Nat, NEW b \in Nat, NEW e \in Nat, NEW z \in Nat, e <= z, a \div 2 ^ e = b \div 2 ^ e
  PROVE  a \div 2 ^ z = b \div 2 ^ z /\ Digit(a, z) = Digit(b, z)
<1>. DEFINE p == 2 ^ e
            q == 2 ^ z
<1>1. PICK t \in Nat : q = t * p
  BY PowerDivides
<1>2. q \in Nat \ {0} /\ p \in Nat \ {0} /\ a \div p = b \div p
  BY PowerOfTwo
<1>. HIDE DEF p, q
<1>3. t \in Nat \ {0} /\ a \in Int /\ b \in Int /\ Multiple(q, t, p)
  BY <1>1, <1>2 DEF Multiple
<1>4. a \div q = (a \div p) \div t
  <2>1. Twice(a, q, t, p)
    BY <1>2, <1>3 DEF Twice
  <2>. QED
    BY <2>1, Divided
<1>5. b \div q = (b \div p) \div t
  <2>1. Twice(b, q, t, p)
    BY <1>2, <1>3 DEF Twice
  <2>. QED
    BY <2>1, Divided
<1>6. a \div q = b \div q
  BY <1>2, <1>4, <1>5
<1>7. Digit(a, z) = (a \div q) % 2
  BY DigitForm DEF q
<1>8. Digit(b, z) = (b \div q) % 2
  BY DigitForm DEF q
<1>. QED
  BY <1>6, <1>7, <1>8 DEF q

LEMMA DigitShift ==
  ASSUME NEW a \in Nat, NEW s \in 0 .. 1, NEW q \in Nat
  PROVE  a \div 2 ^ s \in Nat /\ Digit(a, s + q) = Digit(a \div 2 ^ s, q)
<1>1. CASE s = 0
  <2>1. a \div 2 ^ 0 = a
    <3>1. a \div 1 = a
      OBVIOUS
    <3>. QED
      BY <3>1, Powers
  <2>. QED
    BY <1>1, <2>1
<1>2. CASE s = 1
  <2>. DEFINE p == 2 ^ q
              h == a \div 2
  <2>1. 2 ^ (1 + q) = 2 * p /\ p \in Nat \ {0} /\ 2 \in Nat \ {0} /\ a \in Int
    <3>1. 2 ^ q \in Nat \ {0} /\ 2 ^ (q + 1) = 2 * 2 ^ q /\ q + 1 = 1 + q
      BY PowerNext, PowerOfTwo
    <3>. QED
      BY <3>1
  <2>. HIDE DEF p
  <2>2. a \div 2 ^ (1 + q) = h \div p
    <3>1. 2 * p = p * 2
      BY <2>1
    <3>2. Multiple(2 ^ (1 + q), p, 2)
      BY <2>1, <3>1 DEF Multiple
    <3>. DEFINE w == 2 ^ (1 + q)
                two == 2
    <3>3. Multiple(w, p, two) /\ two \in Nat \ {0}
      BY <3>2
    <3>. HIDE DEF w, two
    <3>4. a \div w = (a \div two) \div p
      <4>1. Twice(a, w, p, two)
        BY <2>1, <3>3 DEF Twice
      <4>. QED
        BY <4>1, Divided
    <3>. QED
      BY <3>4 DEF w, two, h
  <2>3. h \in Nat
    OBVIOUS
  <2>. HIDE DEF h
  <2>4. Digit(a, 1 + q) = (a \div 2 ^ (1 + q)) % 2
    BY DigitForm
  <2>5. Digit(h, q) = (h \div p) % 2
    BY <2>3, DigitForm DEF p
  <2>6. a \div 2 ^ 1 = h
    BY Powers DEF h
  <2>. QED
    BY <1>2, <2>1, <2>2, <2>3, <2>4, <2>5, <2>6
<1>. QED
  BY <1>1, <1>2

LEMMA NextDigit ==
  ASSUME NEW a \in Nat, NEW q \in Nat
  PROVE  a % 2 ^ (q + 1) = 2 ^ q * Digit(a, q) + (a % 2 ^ q)
<1>. DEFINE p == 2 ^ q
            w == 2 ^ (q + 1)
            h == a \div p
            x == h \div 2
            d == h % 2
            r == a % p
            v == p * d + r
            u == a % w
            z == a \div w
<1>1. p \in Nat \ {0} /\ w = 2 * p /\ Digit(a, q) = d /\ Multiple(w, 2, p)
  BY PowerOfTwo, PowerNext, DigitForm DEF Multiple
<1>. HIDE DEF p, w
<1>2. w \in Nat \ {0} /\ z = x
  <2>1. Twice(a, w, 2, p)
    BY <1>1 DEF Twice
  <2>. QED
    BY <2>1, Divided
<1>3. h \in Int /\ r \in 0 .. p - 1 /\ a = p * h + r
  <2>1. p \in Nat \ {0} /\ a \in Int
    BY <1>1
  <2>. QED
    BY <2>1, DivMod
<1>5. z \in Int /\ u \in 0 .. w - 1 /\ a = w * z + u
  BY <1>2, DivMod
<1>. HIDE DEF r, u, z, h
<1>6. x \in Int /\ d \in 0 .. 1 /\ h = 2 * x + d
  BY <1>3
<1>. HIDE DEF x, d
<1>7. p * h = w * x + p * d
  BY <1>1, <1>6
<1>8. u = v
  <2>1. w * x \in Int /\ p * d \in Int
    BY <1>1, <1>2, <1>6
  <2>. QED
    BY <1>2, <1>3, <1>5, <1>7, <2>1
<1>. QED
  BY <1>1, <1>8 DEF u, v, r, p, w

(* Numbers with the same low digits are in the same place of their blocks. *)
LEMMA LowDigits ==
  ASSUME NEW a \in Nat, NEW b \in Nat, NEW r \in 0 .. 5, \A q \in 0 .. r - 1 : Digit(a, q) = Digit(b, q)
  PROVE  a % 2 ^ r = b % 2 ^ r
<1>. DEFINE Alike(n) == a % 2 ^ n = b % 2 ^ n
<1>1. Alike(0)
  <2>1. a % 1 = 0 /\ b % 1 = 0
    OBVIOUS
  <2>. QED
    BY <2>1, Powers
<1>2. ASSUME NEW q \in 0 .. 4, q < r, Alike(q) PROVE Alike(q + 1)
  <2>1. q \in Nat /\ Digit(a, q) = Digit(b, q)
    BY <1>2
  <2>2. a % 2 ^ (q + 1) = 2 ^ q * Digit(a, q) + (a % 2 ^ q)
    BY <2>1, NextDigit
  <2>3. b % 2 ^ (q + 1) = 2 ^ q * Digit(b, q) + (b % 2 ^ q)
    BY <2>1, NextDigit
  <2>. QED
    BY <1>2, <2>1, <2>2, <2>3
<1>. HIDE DEF Alike
<1>3. /\ 0 < r => Alike(1)
      /\ 1 < r /\ Alike(1) => Alike(2)
      /\ 2 < r /\ Alike(2) => Alike(3)
      /\ 3 < r /\ Alike(3) => Alike(4)
      /\ 4 < r /\ Alike(4) => Alike(5)
  BY <1>1, <1>2
<1>4. r = 0 \/ r = 1 \/ r = 2 \/ r = 3 \/ r = 4 \/ r = 5
  OBVIOUS
<1>5. Alike(r)
  BY <1>1, <1>3, <1>4
<1>. QED
  BY <1>5 DEF Alike

-----------------------------------------------------------------------------
(* The digits of an interleave index.                                      *)

LEMMA FirstDigits ==
  ASSUME NEW n \in Nat
  PROVE  /\ Digit(n, 0) = n % 2 /\ Digit(n, 1) = (n \div 2) % 2 /\ Digit(n, 2) = (n \div 4) % 2
         /\ Digit(n, 0) \in 0 .. 1 /\ Digit(n, 1) \in 0 .. 1 /\ Digit(n, 2) \in 0 .. 1 /\ Digit(n, 3) \in 0 .. 1
<1>1. n \div 1 = n
  OBVIOUS
<1>2. /\ Digit(n, 0) = (n \div 2 ^ 0) % 2 /\ Digit(n, 0) \in 0 .. 1
      /\ Digit(n, 1) = (n \div 2 ^ 1) % 2 /\ Digit(n, 1) \in 0 .. 1
      /\ Digit(n, 2) = (n \div 2 ^ 2) % 2 /\ Digit(n, 2) \in 0 .. 1
      /\ Digit(n, 3) \in 0 .. 1
  <2>1. 0 \in Nat /\ 1 \in Nat /\ 2 \in Nat /\ 3 \in Nat
    OBVIOUS
  <2>. QED
    BY <2>1, DigitForm, Zenon
<1>. QED
  BY <1>1, <1>2, Powers

LEMMA Sum3 ==
  ASSUME NEW x \in 0 .. 1, NEW y \in 0 .. 1, NEW z \in 0 .. 1, NEW i, i = x + 2 * y + 4 * z
  PROVE  i \in 0 .. 7 /\ Digit(i, 0) = x /\ Digit(i, 1) = y /\ Digit(i, 2) = z
<1>1. i \in 0 .. 7 /\ i % 2 = x /\ (i \div 2) % 2 = y /\ (i \div 4) % 2 = z
  OBVIOUS
<1>. QED
  <2>1. i \in Nat
    BY <1>1
  <2>. QED
    BY <1>1, <2>1, FirstDigits

(* The bits of an address that take turns, by digit of the index.          *)
Turn(rule, r) == IF IsA7(machine, rule) /\ r = 0 THEN 3 ELSE r
Mixed(rule, a, r) ==
  IF IsXor(machine, rule) THEN (Digit(a, Turn(rule, r)) + Digit(a, XorBit + r)) % 2 ELSE Digit(a, Turn(rule, r))

LEMMA EightEntries ==
  ASSUME NEW n \in Nat
  PROVE  n % 8 = (n % 2) + 2 * ((n \div 2) % 2) + 4 * ((n \div 4) % 2)
OBVIOUS

LEMMA LowBits ==
  ASSUME NEW a \in Nat
  PROVE  /\ Bits(a, 0, 3) = Digit(a, 0) + 2 * Digit(a, 1) + 4 * Digit(a, 2)
         /\ A7(a) = Digit(a, 3) + 2 * Digit(a, 1) + 4 * Digit(a, 2)
<1>1. a \div 1 = a
  OBVIOUS
<1>2. Bits(a, 0, 3) = a % 8 /\ Bits(a, 1, 2) = (a \div 2) % 4 /\ Bits(a, 3, 1) = Digit(a, 3)
  BY <1>1, Powers DEF Bits, Digit
<1>3. (a \div 2) % 4 = ((a \div 2) % 2) + 2 * ((a \div 4) % 2)
  OBVIOUS
<1>4. a % 8 = Digit(a, 0) + 2 * Digit(a, 1) + 4 * Digit(a, 2)
  BY FirstDigits, EightEntries
<1>5. (a \div 2) % 4 = Digit(a, 1) + 2 * Digit(a, 2)
  BY <1>3, FirstDigits
<1>6. Digit(a, 1) \in 0 .. 1 /\ Digit(a, 2) \in 0 .. 1 /\ Digit(a, 3) \in 0 .. 1
  BY FirstDigits
<1>7. A7(a) = (Digit(a, 1) + 2 * Digit(a, 2)) * 2 + Digit(a, 3)
  BY <1>2, <1>5 DEF A7
<1>. QED
  BY <1>2, <1>4, <1>6, <1>7

LEMMA IndexDigits ==
  ASSUME NEW rule, NEW a \in Nat
  PROVE  /\ Index(rule, a) \in 0 .. 7
         /\ \A r \in 0 .. 2 : Digit(Index(rule, a), r) = Mixed(rule, a, r)
<1>. DEFINE bits == IF IsA7(machine, rule) THEN A7(a) ELSE Bits(a, 0, 3)
            D(r) == Digit(a, Turn(rule, r))
            X(r) == (D(r) + Digit(a, XorBit + r)) % 2
<1>1. \A r \in 0 .. 2 : D(r) \in 0 .. 1 /\ Turn(rule, r) \in Nat
  <2>1. ASSUME NEW r \in 0 .. 2 PROVE Turn(rule, r) \in Nat
    BY DEF Turn
  <2>. QED
    BY <2>1, DigitForm
<1>2. bits = D(0) + 2 * D(1) + 4 * D(2)
  BY LowBits DEF Turn
<1>3. Index(rule, a) = IF IsXor(machine, rule) THEN Xored(bits, a) ELSE bits
  BY DEF Index
<1>. HIDE DEF bits, D
<1>4. bits \in 0 .. 7 /\ Digit(bits, 0) = D(0) /\ Digit(bits, 1) = D(1) /\ Digit(bits, 2) = D(2)
  <2>1. D(0) \in 0 .. 1 /\ D(1) \in 0 .. 1 /\ D(2) \in 0 .. 1
    BY <1>1
  <2>. QED
    BY <1>2, <2>1, Sum3
<1>5. \A r \in 0 .. 2 : Digit(a, XorBit + r) \in 0 .. 1
  <2>1. ASSUME NEW r \in 0 .. 2 PROVE XorBit + r \in Nat
    BY ScaleAssumption
  <2>. QED
    BY <2>1, DigitForm
<1>6. X(0) \in 0 .. 1 /\ X(1) \in 0 .. 1 /\ X(2) \in 0 .. 1
  BY <1>1, <1>5
<1>7. Xored(bits, a) = X(0) + 2 * X(1) + 4 * X(2)
  BY <1>4 DEF Xored
<1>. HIDE DEF X
<1>8. Xored(bits, a) \in 0 .. 7 /\ \A r \in 0 .. 2 : Digit(Xored(bits, a), r) = X(r)
  <2>1. /\ Xored(bits, a) \in 0 .. 7 /\ Digit(Xored(bits, a), 0) = X(0)
        /\ Digit(Xored(bits, a), 1) = X(1) /\ Digit(Xored(bits, a), 2) = X(2)
    BY <1>6, <1>7, Sum3
  <2>. QED
    BY <2>1
<1>9. \A r \in 0 .. 2 : Digit(bits, r) = D(r)
  BY <1>4
<1>10. \A r \in 0 .. 2 : Mixed(rule, a, r) = IF IsXor(machine, rule) THEN X(r) ELSE D(r)
  BY DEF Mixed, X, D
<1>. QED
  BY <1>3, <1>4, <1>8, <1>9, <1>10

-----------------------------------------------------------------------------
(* Limits are in chunks: the rules of a line are those of its chunk.       *)
Chunk(a) == a \div 2 ^ ChunkBits

LEMMA ChunkLimit ==
  ASSUME NEW a \in Nat, NEW l \in Nat
  PROVE  /\ Chunk(a) \in Nat /\ Chunk(a) * 2 ^ ChunkBits \in Nat
         /\ a <= Limit(l) <=> Chunk(a) * 2 ^ ChunkBits <= Limit(l)
<1>. DEFINE p == 2 ^ ChunkBits
            x == a \div p
            r == a % p
<1>1. p \in Nat \ {0}
  BY ScaleAssumption, PowerOfTwo
<1>. HIDE DEF p
<1>2. x \in Nat /\ r \in 0 .. p - 1 /\ a = p * x + r
  <2>1. x \in Nat
    BY <1>1, QuotientType
  <2>2. a \in Int
    OBVIOUS
  <2>3. r \in 0 .. p - 1 /\ a = p * x + r
    BY <1>1, <2>2, DivMod
  <2>. QED
    BY <2>1, <2>3
<1>3. Limit(l) = (l + 1) * p - 1
  BY DEF Limit, p
<1>. HIDE DEF x, r
<1>4. x * p \in Nat /\ x * p = p * x
  BY <1>1, <1>2
<1>5. CASE x <= l
  <2>1. (x + 1) * p <= (l + 1) * p
    BY <1>1, <1>2, <1>5
  <2>2. (x + 1) * p = x * p + p
    BY <1>1, <1>2
  <2>3. (l + 1) * p \in Nat
    BY <1>1
  <2>4. a <= Limit(l) /\ x * p <= Limit(l)
    BY <1>1, <1>2, <1>3, <1>4, <2>1, <2>2, <2>3
  <2>. QED
    BY <1>2, <1>4, <2>4 DEF Chunk, x, p
<1>6. CASE x >= l + 1
  <2>1. x * p >= (l + 1) * p
    BY <1>1, <1>2, <1>6
  <2>2. (l + 1) * p \in Nat
    BY <1>1
  <2>3. ~(a <= Limit(l)) /\ ~(x * p <= Limit(l))
    BY <1>1, <1>2, <1>3, <1>4, <2>1, <2>2
  <2>. QED
    BY <1>2, <1>4, <2>3 DEF Chunk, x, p
<1>. QED
  BY <1>2, <1>5, <1>6

LEMMA SameRule ==
  ASSUME NEW rules, NEW used, \A k \in used : rules[k].limit \in Nat, NEW a \in Nat
  PROVE  Rule(rules, used, a) = Rule(rules, used, Chunk(a) * 2 ^ ChunkBits)
<1>1. {k \in used : a <= Limit(rules[k].limit)} = {k \in used : Chunk(a) * 2 ^ ChunkBits <= Limit(rules[k].limit)}
  BY ChunkLimit
<1>. QED
  BY <1>1, Zenon DEF Rule

LEMMA ChunkTables ==
  ASSUME machine \in Machines, NEW a \in Nat
  PROVE  /\ SadRule(machine, a) = Sad(machine, Chunk(a))
         /\ \A c \in DOMAIN Ctl : Rule(Ctl[c].tad, DOMAIN Ctl[c].tad, a) = TadAt(machine, c, Chunk(a))
<1>. DEFINE used == {k \in DOMAIN machine.sad : machine.sad[k].enable}
<1>1. \A k \in used : machine.sad[k].limit \in Nat
  BY MachinesAssumption
<1>2. Rule(machine.sad, used, a) = Rule(machine.sad, used, Chunk(a) * 2 ^ ChunkBits)
  BY <1>1, SameRule
<1>3. SadRule(machine, a) = Sad(machine, Chunk(a))
  BY <1>2, Zenon DEF SadRule, Sad
<1>4. ASSUME NEW c \in DOMAIN Ctl
      PROVE  Rule(Ctl[c].tad, DOMAIN Ctl[c].tad, a) = TadAt(machine, c, Chunk(a))
  <2>1. \A k \in DOMAIN Ctl[c].tad : Ctl[c].tad[k].limit \in Nat
    BY TadFacts
  <2>2. Rule(Ctl[c].tad, DOMAIN Ctl[c].tad, a) = Rule(Ctl[c].tad, DOMAIN Ctl[c].tad, Chunk(a) * 2 ^ ChunkBits)
    BY <2>1, SameRule
  <2>. QED
    BY <2>2, Zenon DEF TadAt, Ctl
<1>. QED
  BY <1>3, <1>4

-----------------------------------------------------------------------------
(* A machine the tables of which fit, and its parts.                       *)
Fit == machine \in Machines /\ ~Knl /\ Plain(machine)

LEMMA FitFacts ==
  ASSUME Fit
  PROVE  machine \in Machines /\ ~Knl /\ Plain(machine) /\ Consistent(machine)
BY FirmwareAssumption DEF Fit, Knl

LEMMA ShiftFacts ==
  ASSUME Fit
  PROVE  /\ Shift(machine) \in 0 .. 1 /\ Shift(machine) \in Nat
         /\ \A a : \A rule \in SadRule(machine, a) :
              Shiftup(machine, rule) = Shift(machine) /\ (IsA7(machine, rule) <=> A7Mode(machine))
<1>1. Shift(machine) \in 0 .. 1 /\ Shift(machine) \in Nat
  BY FitFacts, MachineFacts DEF Shift
<1>2. ASSUME NEW a, NEW rule \in SadRule(machine, a)
      PROVE  Shiftup(machine, rule) = Shift(machine) /\ (IsA7(machine, rule) <=> A7Mode(machine))
  <2>. DEFINE used == {k \in DOMAIN machine.sad : machine.sad[k].enable}
  <2>1. used \in SUBSET Int
    BY FitFacts, MachineFacts, TableFacts
  <2>2. PICK i \in Rule(machine.sad, used, a) : rule = machine.sad[i]
    BY DEF SadRule
  <2>. HIDE DEF used
  <2>3. i \in used
    BY <2>1, <2>2, RuleFacts
  <2>4. i \in DOMAIN machine.sad /\ machine.sad[i].enable
    BY <2>3 DEF used
  <2>5. IsA7(machine, rule) <=> A7Mode(machine)
    BY <2>2, <2>4, FitFacts DEF Consistent, OneMode, A7Mode
  <2>. QED
    BY <2>5 DEF Shiftup, Shift
<1>. QED
  BY <1>1, <1>2

LEMMA WidthFacts ==
  ASSUME Fit, NEW c \in DOMAIN Ctl, NEW n \in DOMAIN Ctl[c].tad
  PROVE  LET top == Ctl[c].tad[n].sock_way + Shift(machine) + 2
         IN  top \in Nat /\ top <= ChunkBits /\ top <= XorBit /\ \A b \in HashBits : top <= b
<1>1. Ctl[c].tad[n].sock_way \in Nat
  BY FitFacts, TadFacts
<1>2. InTurn(machine)
  BY FitFacts DEF Consistent
<1>. QED
  BY <1>1, <1>2, ShiftFacts DEF InTurn, Ctl

(* The indices of its lines are ints.                                      *)
LEMMA SmallTad ==
  ASSUME Fit, NEW c \in DOMAIN Ctl, NEW a \in Nat, NEW n \in Rule(Ctl[c].tad, DOMAIN Ctl[c].tad, a),
         Ctl[c].tad[n].ch_way = 3
  PROVE  a < IntLines
<1>1. n \in DOMAIN Ctl[c].tad /\ a <= Limit(Ctl[c].tad[n].limit)
  BY FitFacts, ControllerFacts, TableFacts, RuleFacts
<1>. DEFINE l == Limit(Ctl[c].tad[n].limit)
<1>2. l < IntLines
  BY <1>1, FitFacts DEF Plain, Ctl
<1>3. l \in Int
  <2>1. Ctl[c].tad[n].limit \in Nat /\ 2 ^ ChunkBits \in Nat
    BY <1>1, FitFacts, TadFacts, ScaleAssumption, PowerOfTwo
  <2>. QED
    BY <2>1 DEF Limit
<1>. HIDE DEF l
<1>. QED
  BY <1>1, <1>2, <1>3, ScaleAssumption DEF l

LEMMA SmallPage ==
  ASSUME Fit, NEW c \in DOMAIN Ctl, NEW ch \in DOMAIN Ctl[c].chan, NEW i \in DOMAIN Ctl[c].chan[ch].rir,
         Ctl[c].chan[ch].rir[i].valid, NEW x \in Nat, x < (Ctl[c].chan[ch].rir[i].limit + 1) * 2 ^ RirBits
  PROVE  Page(Ctl[c].close_pg, x) < IntLines
<1>. DEFINE z    == (Ctl[c].chan[ch].rir[i].limit + 1) * 2 ^ RirBits
            unit == 2 ^ (IF Ctl[c].close_pg THEN 0 ELSE OpenPgShift)
<1>1. Page(Ctl[c].close_pg, z - 1) < IntLines
  BY FitFacts DEF Plain, Ctl
<1>2. z \in Int
  <2>1. Ctl[c].chan[ch].rir[i].limit \in Nat
    BY FitFacts, MachinesAssumption DEF Ctl
  <2>2. 2 ^ RirBits \in Nat
    BY ScaleAssumption, PowerOfTwo
  <2>. QED
    BY <2>1, <2>2
<1>. HIDE DEF z
<1>3. x <= z - 1 /\ z - 1 \in Int
  BY <1>2 DEF z
<1>4. unit \in Nat \ {0}
  BY ScaleAssumption, PowerOfTwo
<1>. HIDE DEF unit
<1>5. x \div unit <= (z - 1) \div unit /\ x \div unit \in Int /\ (z - 1) \div unit \in Int
  BY <1>3, <1>4, DivMonotone, DivMod
<1>6. (z - 1) \div unit < IntLines
  BY <1>1 DEF Page, unit
<1>. QED
  BY <1>5, <1>6, ScaleAssumption DEF Page, unit

LEMMA SmallPlaced ==
  ASSUME Fit, NEW c \in DOMAIN Ctl, NEW ch \in DOMAIN Ctl[c].chan, NEW x \in Nat,
         RirRule(Ctl[c].chan[ch].rir, x) # {} \/ x \in Placed(Ctl[c].chan[ch].rir)
  PROVE  Page(Ctl[c].close_pg, x) < IntLines
<1>. DEFINE rir == Ctl[c].chan[ch].rir
<1>1. \A k \in DOMAIN rir : (rir[k].limit + 1) * 2 ^ RirBits \in Int
  <2>1. \A k \in DOMAIN rir : rir[k].limit \in Nat
    BY FitFacts, MachinesAssumption DEF Ctl
  <2>2. 2 ^ RirBits \in Nat
    BY ScaleAssumption, PowerOfTwo
  <2>. QED
    BY <2>1, <2>2
<1>2. PICK i \in DOMAIN rir : rir[i].valid /\ x < (rir[i].limit + 1) * 2 ^ RirBits
  <2>. HIDE DEF rir
  <2>1. CASE RirRule(rir, x) # {}
    BY <2>1 DEF RirRule, First
  <2>2. CASE x \in Placed(rir)
    BY <1>1, <2>2 DEF Placed
  <2>. QED
    BY <2>1, <2>2 DEF rir
<1>. QED
  BY <1>2, SmallPage

LEMMA PartFacts ==
  ASSUME Fit, NEW p \in Parts(machine)
  PROVE  /\ p.c \in DOMAIN Ctl /\ p.x \in Chunks(machine) /\ p.n \in TadAt(machine, p.c, p.x)
         /\ Sends(machine, p.c, p.x)
         /\ p.n \in DOMAIN Ctl[p.c].tad /\ TadOf(machine, p) = Ctl[p.c].tad[p.n]
         /\ p.k \in 0 .. TadOf(machine, p).ch_way - 1
<1>1. PICK c \in DOMAIN machine.ctl, x \in Chunks(machine) : p \in WaysOf(machine, c, x)
  BY DEF Parts
<1>2. p.c = c /\ p.x = x /\ p.n \in TadAt(machine, c, x) /\ p.k \in 0 .. 3
  BY <1>1 DEF WaysOf
<1>3. Sends(machine, p.c, p.x) /\ p.k < machine.ctl[p.c].tad[p.n].ch_way
  BY DEF Parts
<1>4. c \in DOMAIN Ctl /\ TadOf(machine, p) = Ctl[p.c].tad[p.n]
  BY <1>1 DEF Ctl, TadOf
<1>5. p.n \in DOMAIN Ctl[c].tad
  <2>1. DOMAIN Ctl[c].tad \in SUBSET Int
    BY <1>4, FitFacts, ControllerFacts, TableFacts
  <2>2. p.n \in Rule(Ctl[c].tad, DOMAIN Ctl[c].tad, x * 2 ^ ChunkBits)
    BY <1>2 DEF TadAt, Ctl
  <2>. QED
    BY <2>1, <2>2, RuleFacts
<1>6. Ctl[c].tad[p.n].ch_way \in 1 .. 4
  BY <1>4, <1>5, FitFacts, TadFacts
<1>. QED
  BY <1>1, <1>2, <1>3, <1>4, <1>5, <1>6 DEF Ctl

LEMMA PartWays ==
  ASSUME Fit, NEW p \in Parts(machine)
  PROVE  /\ TadOf(machine, p).sock_way \in 0 .. 3 /\ TadOf(machine, p).ch_way \in 1 .. 4
         /\ ChWays(machine, p) \in 1 .. 4
         /\ Ctl[p.c].mirror => TadOf(machine, p).ch_way \in {2, 4}
         /\ TadOf(machine, p).ch_way = IF Ctl[p.c].mirror THEN 2 * ChWays(machine, p) ELSE ChWays(machine, p)
         /\ Base(machine, p) \in (0 .. 3) \cap DOMAIN Ctl[p.c].chan
         /\ ChanOf(machine, p) = Ctl[p.c].chan[Base(machine, p)]
         /\ Offset(machine, p) \in Nat /\ Offset(machine, p) <= p.x
<1>1. /\ p.c \in DOMAIN Ctl /\ p.n \in DOMAIN Ctl[p.c].tad /\ TadOf(machine, p) = Ctl[p.c].tad[p.n]
      /\ p.k \in 0 .. TadOf(machine, p).ch_way - 1
  BY PartFacts
<1>2. TadOf(machine, p).sock_way \in 0 .. 3 /\ TadOf(machine, p).ch_way \in 1 .. 4
  BY <1>1, FitFacts, TadFacts
<1>3. Base(machine, p) \in (0 .. 3) \cap DOMAIN Ctl[p.c].chan
  BY <1>1, FitFacts, TadFacts DEF Base
<1>4. Ctl[p.c].mirror \in BOOLEAN
  BY <1>1, FitFacts, ControllerFacts
<1>5. Ctl[p.c].mirror => TadOf(machine, p).ch_way \in {2, 4}
  BY <1>1, FitFacts DEF Plain, Ctl
<1>6. ChanOf(machine, p) = Ctl[p.c].chan[Base(machine, p)]
  BY DEF ChanOf, Ctl
<1>7. Offset(machine, p) \in Nat
  BY <1>1, <1>3, <1>6, FitFacts, TadFacts DEF Offset
<1>8. Offset(machine, p) <= p.x
  BY FitFacts DEF Consistent, Decoded
<1>9. ChWays(machine, p) = IF Ctl[p.c].mirror THEN TadOf(machine, p).ch_way \div 2 ELSE TadOf(machine, p).ch_way
  BY DEF ChWays, Ctl
<1>10. /\ ChWays(machine, p) \in 1 .. 4
       /\ TadOf(machine, p).ch_way = IF Ctl[p.c].mirror THEN 2 * ChWays(machine, p) ELSE ChWays(machine, p)
  <2>. DEFINE w == TadOf(machine, p).ch_way
  <2>1. w \in 1 .. 4 /\ (Ctl[p.c].mirror => w \in {2, 4})
    BY <1>2, <1>5
  <2>2. w = 2 \/ w = 4 => w \div 2 \in 1 .. 4 /\ w = 2 * (w \div 2)
    OBVIOUS
  <2>. HIDE DEF w
  <2>3. CASE Ctl[p.c].mirror
    BY <1>9, <2>1, <2>2, <2>3 DEF w
  <2>4. CASE ~Ctl[p.c].mirror
    BY <1>9, <2>1, <2>4 DEF w
  <2>. QED
    BY <2>3, <2>4
<1>. QED
  BY <1>2, <1>3, <1>5, <1>6, <1>7, <1>8, <1>10

-----------------------------------------------------------------------------
(* Every line of memory is in a part.                                      *)

Holds(p, a) ==
  /\ a \in Memory(machine) /\ p \in Parts(machine) /\ p.x = Chunk(a)
  /\ p.k = ChannelIndex(p.c, TadOf(machine, p), Shift(machine), a)
  /\ \E rule \in SadRule(machine, a) : p.c \in Owner(machine, rule, Index(rule, a))

LEMMA MemoryFacts ==
  ASSUME machine \in Machines, NEW a \in Memory(machine)
  PROVE  a \in Nat /\ Chunk(a) \in Chunks(machine)
<1>1. machine.tohm \in Nat
  BY MachinesAssumption
<1>. QED
  BY <1>1 DEF Memory, Chunks, Chunk

LEMMA OwnerThere ==
  ASSUME machine \in Machines, NEW rule, NEW i, NEW c \in Owner(machine, rule, i)
  PROVE  c \in DOMAIN Ctl
<1>1. PICK node, dom : c \in get_mci_for_node_id(node, dom)
  BY OwnerFacts
<1>. QED
  BY <1>1, NodeFacts

LEMMA LineHasPart ==
  ASSUME Fit, NEW a \in Memory(machine)
  PROVE  \E p : Holds(p, a)
<1>. DEFINE x == Chunk(a)
<1>1. a \in Nat /\ x \in Chunks(machine) /\ machine \in Machines
  BY FitFacts, MemoryFacts
<1>2. SadRule(machine, a) = Sad(machine, x)
  BY <1>1, ChunkTables
<1>3. PICK rule \in Sad(machine, x) : \A i \in 0 .. 7 : Owner(machine, rule, i) # {}
  BY <1>1, FitFacts DEF Consistent, Reached
<1>. DEFINE i == Index(rule, a)
<1>4. i \in 0 .. 7
  BY <1>1, IndexDigits
<1>5. PICK c : c \in Owner(machine, rule, i)
  BY <1>3, <1>4
<1>6. c \in DOMAIN Ctl /\ c \in DOMAIN machine.ctl
  BY <1>1, <1>5, OwnerThere DEF Ctl
<1>7. Sends(machine, c, x)
  BY <1>3, <1>4, <1>5 DEF Sends
<1>8. PICK n : n \in TadAt(machine, c, x)
  BY <1>1, <1>6, <1>7, FitFacts DEF Consistent, Decoded
<1>9. n \in DOMAIN Ctl[c].tad
  <2>1. DOMAIN Ctl[c].tad \in SUBSET Int
    BY <1>6, FitFacts, ControllerFacts, TableFacts
  <2>2. n \in Rule(Ctl[c].tad, DOMAIN Ctl[c].tad, x * 2 ^ ChunkBits)
    BY <1>8 DEF TadAt, Ctl
  <2>. QED
    BY <2>1, <2>2, RuleFacts
<1>18. n \in Rule(Ctl[c].tad, DOMAIN Ctl[c].tad, a)
  BY <1>1, <1>6, <1>8, ChunkTables
<1>. DEFINE k == ChannelIndex(c, Ctl[c].tad[n], Shift(machine), a)
            p == [c |-> c, x |-> x, n |-> n, k |-> k]
<1>10. k \in 0 .. Ctl[c].tad[n].ch_way - 1 /\ Ctl[c].tad[n].ch_way \in 1 .. 4
  <2>1. Ctl[c].tad[n].ch_way = 3 => a < IntLines
    BY <1>1, <1>6, <1>18, SmallTad
  <2>2. k >= 0 /\ (k >= 0 => k \in 0 .. Ctl[c].tad[n].ch_way - 1)
    <3>1. Shift(machine) \in Nat
      BY ShiftFacts
    <3>. QED
      BY <1>1, <1>6, <1>9, <2>1, <3>1, ChannelIndexFacts
  <2>. HIDE DEF k
  <2>. QED
    BY <1>1, <1>6, <1>9, <2>2, TadFacts
<1>11. p.c = c /\ p.x = x /\ p.n = n /\ p.k = k
  OBVIOUS
<1>. HIDE DEF k, x, i
<1>12. k \in 0 .. 3 /\ k < Ctl[c].tad[n].ch_way
  BY <1>10
<1>13. p \in WaysOf(machine, c, x)
  BY <1>8, <1>12 DEF WaysOf
<1>. HIDE DEF p
<1>14. p \in Parts(machine)
  BY <1>1, <1>6, <1>7, <1>11, <1>12, <1>13 DEF Parts, Ctl
<1>15. TadOf(machine, p) = Ctl[c].tad[n]
  BY <1>11 DEF TadOf, Ctl
<1>16. p.k = ChannelIndex(p.c, TadOf(machine, p), Shift(machine), a)
  BY <1>11, <1>15 DEF k
<1>17. rule \in SadRule(machine, a) /\ p.c \in Owner(machine, rule, Index(rule, a))
  BY <1>2, <1>3, <1>5, <1>11 DEF i
<1>. QED
  BY <1>11, <1>14, <1>16, <1>17 DEF Holds, x

-----------------------------------------------------------------------------
(* The block of a line: what is left of its address, in the channel.       *)

LEMMA DivShift ==
  ASSUME NEW a \in Int, NEW s \in Nat \ {0}, NEW e \in Int
  PROVE  (a - s * e) \div s = (a \div s) - e
<1>. DEFINE x == a \div s
            r == a % s
            b == a - s * e
            y == b \div s
            q == b % s
<1>1. x \in Int /\ r \in 0 .. s - 1 /\ a = s * x + r
  BY DivMod
<1>2. b \in Int
  OBVIOUS
<1>3. y \in Int /\ q \in 0 .. s - 1 /\ b = s * y + q
  BY <1>2, DivMod
<1>. HIDE DEF x, r, y, q
<1>4. b = s * (x - e) + r
  <2>1. s * (x - e) = s * x - s * e
    BY <1>1
  <2>. QED
    BY <1>1, <2>1
<1>. HIDE DEF b
<1>5. Same(y, q, x - e, r, s)
  <2>1. y * s = s * y /\ (x - e) * s = s * (x - e)
    BY <1>1, <1>3
  <2>. QED
    BY <1>3, <1>4, <2>1 DEF Same
<1>6. y = x - e
  BY <1>1, <1>3, <1>5, SameBlock
<1>. QED
  BY <1>6 DEF y, x, b

Inside(a, s, B, P, o) ==
  /\ P \in Nat \ {0} /\ o * P \in Nat /\ o * P <= a
  /\ (a - o * P) \div s = (a \div s) - o * B
  /\ ((a \div P) - o) * B <= (a \div s) - o * B
  /\ (a \div s) - o * B <= ((a \div P) + 1 - o) * B - 1
NotAbove(o, a, P) == o <= a \div P
LEMMA Within ==
  ASSUME NEW a \in Nat, NEW s \in Nat \ {0}, NEW B \in Nat \ {0}, NEW P, Multiple(P, B, s),
         NEW o \in Nat, NotAbove(o, a, P)
  PROVE  Inside(a, s, B, P, o)
<1>. DEFINE A == a \div s
            x == a \div P
            r == A % B
<1>1. P \in Nat \ {0} /\ x = A \div B /\ P = B * s
  <2>1. a \in Int
    OBVIOUS
  <2>2. P \in Nat \ {0} /\ a \div P = (a \div s) \div B
    <3>1. Twice(a, P, B, s)
      BY <2>1 DEF Twice
    <3>. QED
      BY <3>1, Divided
  <2>3. P = B * s
    BY DEF Multiple
  <2>. QED
    BY <2>2, <2>3
<1>2. A \in Nat
  BY QuotientType
<1>3. x \in Int /\ r \in 0 .. B - 1 /\ A = B * x + r
  <2>1. A \in Int
    BY <1>2
  <2>2. A \div B \in Int /\ r \in 0 .. B - 1 /\ A = B * (A \div B) + r
    BY <2>1, DivMod
  <2>. QED
    BY <1>1, <2>2
<1>4. o * P \in Nat /\ o * P <= a
  <2>1. a % P \in 0 .. P - 1 /\ a = P * x + (a % P)
    <3>1. a \in Int
      OBVIOUS
    <3>. QED
      BY <1>1, <3>1, DivMod
  <2>. HIDE DEF x
  <2>2. P * x >= P * o
    BY <1>1, <1>3 DEF x, NotAbove
  <2>3. P * o = o * P /\ o * P \in Nat /\ P * x \in Int
    BY <1>1, <1>3
  <2>. QED
    BY <1>1, <2>1, <2>2, <2>3
<1>5. (a - o * P) \div s = A - o * B
  <2>1. o * P = s * (o * B)
    <3>1. o * (B * s) = s * (o * B)
      OBVIOUS
    <3>. QED
      BY <1>1, <3>1
  <2>. DEFINE e == o * B
  <2>2. a \in Int /\ e \in Int
    OBVIOUS
  <2>. HIDE DEF e
  <2>3. (a - s * e) \div s = (a \div s) - e
    BY <2>2, DivShift
  <2>. QED
    BY <2>1, <2>3 DEF e
<1>. HIDE DEF A, x, r
<1>6. A - o * B = (x - o) * B + r
  <2>1. (x - o) * B = x * B - o * B /\ x * B = B * x
    BY <1>3
  <2>2. x * B \in Int /\ o * B \in Int
    BY <1>3
  <2>. QED
    BY <1>3, <2>1, <2>2
<1>7. (x + 1 - o) * B = (x - o) * B + B
  BY <1>3
<1>8. (x - o) * B \in Int
  BY <1>3
<1>. QED
  BY <1>1, <1>3, <1>4, <1>5, <1>6, <1>7, <1>8 DEF A, x, Inside

Block(p, a) ==
  ((a - Offset(machine, p) * 2 ^ ChunkBits) \div 2 ^ Shift(machine)) \div Share(machine, p)
At(p, a) == ChannelAddress(a, Offset(machine, p) * 2 ^ ChunkBits, Shift(machine), Share(machine, p))

LEMMA UnitFacts ==
  ASSUME Fit
  PROVE  /\ 2 ^ Shift(machine) \in Nat \ {0} /\ 2 ^ ChunkBits \in Nat \ {0}
         /\ (\E c \in DOMAIN Ctl : DOMAIN Ctl[c].tad # {}) =>
              /\ Blocks(machine) \in Nat \ {0}
              /\ Multiple(2 ^ ChunkBits, Blocks(machine), 2 ^ Shift(machine))
<1>1. Shift(machine) \in 0 .. 1 /\ Shift(machine) \in Nat /\ ChunkBits \in Nat
  BY ShiftFacts, ScaleAssumption
<1>2. 2 ^ Shift(machine) \in Nat \ {0} /\ 2 ^ ChunkBits \in Nat \ {0}
  BY <1>1, PowerOfTwo
<1>3. ASSUME NEW c \in DOMAIN Ctl, NEW n \in DOMAIN Ctl[c].tad
      PROVE  /\ Blocks(machine) \in Nat \ {0}
             /\ Multiple(2 ^ ChunkBits, Blocks(machine), 2 ^ Shift(machine))
  <2>1. Ctl[c].tad[n].sock_way \in 0 .. 3 /\ Ctl[c].tad[n].sock_way + Shift(machine) + 2 <= ChunkBits
    BY FitFacts, TadFacts, WidthFacts
  <2>2. ChunkBits - Shift(machine) \in Nat
    BY <1>1, <2>1
  <2>3. Blocks(machine) \in Nat \ {0} /\ Blocks(machine) = 2 ^ (ChunkBits - Shift(machine))
    BY <2>2, PowerOfTwo DEF Blocks
  <2>4. 2 ^ ChunkBits = Blocks(machine) * 2 ^ Shift(machine)
    <3>1. CASE Shift(machine) = 0
      <4>1. ChunkBits - 0 = ChunkBits
        BY <1>1
      <4>2. \A b \in Nat : b * 1 = b
        OBVIOUS
      <4>. QED
        BY <2>3, <3>1, <4>1, <4>2, Powers
    <3>2. CASE Shift(machine) = 1
      <4>1. ChunkBits - 1 \in Nat /\ (ChunkBits - 1) + 1 = ChunkBits
        BY <1>1, <2>2, <3>2
      <4>2. 2 ^ ((ChunkBits - 1) + 1) = 2 * 2 ^ (ChunkBits - 1)
        BY <4>1, PowerNext
      <4>3. \A b \in Nat : b * 2 = 2 * b
        OBVIOUS
      <4>. QED
        BY <2>3, <3>2, <4>1, <4>2, <4>3, Powers
    <3>. QED
      BY <1>1, <3>1, <3>2
  <2>. QED
    BY <2>3, <2>4 DEF Multiple
<1>. QED
  BY <1>2, <1>3

LEMMA ShareFacts ==
  ASSUME Fit, NEW p \in Parts(machine)
  PROVE  /\ Share(machine, p) \in Nat \ {0} /\ 2 ^ TadOf(machine, p).sock_way \in Nat \ {0}
         /\ Multiple(Share(machine, p), ChWays(machine, p), 2 ^ TadOf(machine, p).sock_way)
<1>. DEFINE s == 2 ^ TadOf(machine, p).sock_way
            w == ChWays(machine, p)
<1>1. s \in Nat \ {0} /\ w \in 1 .. 4
  <2>1. TadOf(machine, p).sock_way \in Nat
    BY PartWays
  <2>. QED
    BY <2>1, PartWays, PowerOfTwo
<1>2. Share(machine, p) = s * w
  BY DEF Share
<1>. HIDE DEF s, w
<1>3. s * w \in Nat \ {0} /\ s * w = w * s
  BY <1>1
<1>. QED
  BY <1>1, <1>2, <1>3 DEF Multiple, s, w

LEMMA BlockFacts ==
  ASSUME Fit, NEW p, NEW a, Holds(p, a)
  PROVE  /\ a \in Nat /\ Offset(machine, p) * 2 ^ ChunkBits \in Nat /\ Offset(machine, p) * 2 ^ ChunkBits <= a
         /\ (a - Offset(machine, p) * 2 ^ ChunkBits) \div 2 ^ Shift(machine)
              = (a \div 2 ^ Shift(machine)) - Offset(machine, p) * Blocks(machine)
         /\ Block(p, a) \in Int /\ From(machine, p) \in Int /\ Upto(machine, p) \in Int
         /\ From(machine, p) <= Block(p, a) /\ Block(p, a) <= Upto(machine, p)
<1>. DEFINE P == 2 ^ ChunkBits
            s == 2 ^ Shift(machine)
            B == Blocks(machine)
            o == Offset(machine, p)
            v == Share(machine, p)
            x == p.x
            A == a \div s
<1>1. p \in Parts(machine) /\ a \in Nat /\ x = a \div P
  BY FitFacts, MemoryFacts DEF Holds, Chunk
<1>2. p.c \in DOMAIN Ctl /\ p.n \in DOMAIN Ctl[p.c].tad
  BY <1>1, PartFacts
<1>3. s \in Nat \ {0} /\ P \in Nat \ {0} /\ B \in Nat \ {0} /\ Multiple(P, B, s)
  BY <1>2, UnitFacts
<1>4. o \in Nat /\ o <= x
  BY <1>1, PartWays
<1>5. v \in Nat \ {0}
  BY <1>1, ShareFacts
<1>6. Block(p, a) = ((a - o * P) \div s) \div v
  BY DEF Block
<1>7. From(machine, p) = ((x - o) * B) \div v /\ Upto(machine, p) = ((x + 1 - o) * B - 1) \div v
  BY DEF From, Upto
<1>. HIDE DEF P, s, B, o, v, x
<1>8. /\ o * P \in Nat /\ o * P <= a /\ (a - o * P) \div s = A - o * B
      /\ (x - o) * B <= A - o * B /\ A - o * B <= (x + 1 - o) * B - 1
  <2>1. a \in Nat /\ o \in Nat /\ NotAbove(o, a, P)
    BY <1>1, <1>4 DEF NotAbove
  <2>2. Inside(a, s, B, P, o)
    BY <1>3, <2>1, Within
  <2>. QED
    BY <1>1, <2>2, Zenon DEF Inside
<1>9. A - o * B \in Int /\ (x - o) * B \in Int /\ (x + 1 - o) * B - 1 \in Int
  <2>1. A \in Int
    BY <1>1, <1>3, QuotientType
  <2>2. x \in Int
    <3>1. a \in Int
      BY <1>1
    <3>. QED
      BY <1>1, <1>3, <3>1, DivMod
  <2>3. o * B \in Int /\ (x - o) * B \in Int /\ (x + 1 - o) * B \in Int
    BY <1>3, <1>4, <2>2
  <2>. QED
    BY <2>1, <2>3
<1>. DEFINE q == A - o * B
            lo == (x - o) * B
            hi == (x + 1 - o) * B - 1
<1>10. q \in Int /\ lo \in Int /\ hi \in Int /\ lo <= q /\ q <= hi
  BY <1>8, <1>9
<1>. HIDE DEF q, lo, hi
<1>11. q \div v \in Int /\ lo \div v \in Int /\ hi \div v \in Int /\ lo \div v <= q \div v /\ q \div v <= hi \div v
  BY <1>5, <1>10, DivMod, DivMonotone
<1>. QED
  BY <1>1, <1>6, <1>7, <1>8, <1>11 DEF P, s, B, o, v, q, lo, hi, x

LEMMA AtFacts ==
  ASSUME Fit, NEW p, NEW a, Holds(p, a)
  PROVE  /\ At(p, a) \in Nat
         /\ Same(Block(p, a), a % 2 ^ Shift(machine), 0, At(p, a), 2 ^ Shift(machine))
         /\ a % 2 ^ Shift(machine) \in 0 .. 2 ^ Shift(machine) - 1
         /\ At(p, a) <= (Upto(machine, p) + 1) * 2 ^ Shift(machine) - 1
<1>. DEFINE s == 2 ^ Shift(machine)
            w == Block(p, a)
            r == a % s
            u == Upto(machine, p)
<1>1. a \in Nat /\ w \in Int /\ w <= u /\ p \in Parts(machine)
  BY BlockFacts DEF Holds
<1>2. s \in Nat \ {0}
  BY UnitFacts
<1>3. r \in 0 .. s - 1
  BY <1>1, <1>2, QuotientType
<1>4. At(p, a) = w * s + r
  BY DEF At, ChannelAddress, Block
<1>5. At(p, a) \in Nat
  <2>1. Share(machine, p) \in Nat \ {0}
    BY <1>1, ShareFacts
  <2>. QED
    BY <2>1, BlockFacts, ShiftFacts, ChannelAddressType DEF At
<1>6. u \in Int
  BY BlockFacts
<1>. HIDE DEF s, w, r, u
<1>7. w * s <= u * s /\ (u + 1) * s = u * s + s /\ w * s \in Int /\ u * s \in Int
  BY <1>1, <1>2, <1>6
<1>8. At(p, a) <= (u + 1) * s - 1
  BY <1>2, <1>3, <1>4, <1>7
<1>9. Same(w, r, 0, At(p, a), s)
  <2>1. 0 * s = 0
    BY <1>2
  <2>. QED
    BY <1>4, <1>5, <2>1 DEF Same
<1>. QED
  BY <1>3, <1>5, <1>8, <1>9 DEF s, w, r, u

-----------------------------------------------------------------------------
(* The place of a line is in the channels of its part, at its block.       *)

Registered == \A c \in DOMAIN Ctl : pvt[c] = Mode(c)

LEMMA ModeFacts ==
  ASSUME Fit, Registered, NEW c \in DOMAIN Ctl
  PROVE  /\ pvt[c].lockstep = Ctl[c].lockstep /\ pvt[c].close_pg = Ctl[c].close_pg
         /\ \A first \in BOOLEAN : Mirrored(c, first) = Ctl[c].mirror
<1>1. pvt[c] = Mode(c) /\ ~Knl
  BY FitFacts DEF Registered
<1>2. Ctl[c].mirror \in BOOLEAN /\ Ctl[c].lockstep \in BOOLEAN /\ Ctl[c].close_pg \in BOOLEAN
  BY FitFacts, ControllerFacts
<1>3. ~(Haswell /\ Ctl[c].range)
  BY FitFacts DEF Plain, Ctl, Haswell
<1>4. pvt[c].mirror = IF Ctl[c].mirror THEN "FULL_MIRRORING" ELSE "NON_MIRRORING"
  BY <1>1, <1>3 DEF Mode
<1>5. pvt[c].lockstep = (~Knl /\ Ctl[c].lockstep) /\ pvt[c].close_pg = (~Knl /\ Ctl[c].close_pg)
  <2>1. Mode(c).lockstep = (~Knl /\ Ctl[c].lockstep) /\ Mode(c).close_pg = (~Knl /\ Ctl[c].close_pg)
    BY SMT DEF Mode
  <2>. QED
    BY <1>1, <2>1, Zenon
<1>6. pvt[c].lockstep = Ctl[c].lockstep /\ pvt[c].close_pg = Ctl[c].close_pg
  BY <1>1, <1>2, <1>5
<1>7. \A first \in BOOLEAN : Mirrored(c, first) = Ctl[c].mirror
  BY <1>2, <1>4 DEF Mirrored
<1>. QED
  BY <1>6, <1>7

LEMMA NarrowLine ==
  ASSUME Fit, Registered, NEW a \in Nat
  PROVE  Narrow(a)
<1>1. ASSUME NEW s \in SadDecode(a), NEW n \in Rule(Ctl[s.c].tad, DOMAIN Ctl[s.c].tad, a), Ctl[s.c].tad[n].ch_way = 3
      PROVE  a < IntLines
  <2>1. s.c \in DOMAIN Ctl
    BY FitFacts, SadFacts DEF Agent
  <2>. QED
    BY <1>1, <2>1, SmallTad
<1>2. ASSUME NEW p \in Place(a) PROVE Page(pvt[p.c].close_pg, p.ch_addr) < IntLines
  <2>1. Chan(p) /\ Settled(p)
    BY FitFacts, PlaceFacts
  <2>2. p.c \in DOMAIN Ctl /\ p.base \in DOMAIN Ctl[p.c].chan /\ p.ch_addr \in Nat
    BY <2>1 DEF Chan, Settled
  <2>3. RirRule(Ctl[p.c].chan[p.base].rir, p.ch_addr) # {}
    BY <2>1 DEF Settled, RanksAt
  <2>4. Page(Ctl[p.c].close_pg, p.ch_addr) < IntLines
    BY <2>2, <2>3, SmallPlaced
  <2>. QED
    BY <2>2, <2>4, ModeFacts
<1>. QED
  BY <1>1, <1>2 DEF Narrow

LEMMA ResultOfLine ==
  ASSUME Fit, Registered, NEW p, NEW a, Holds(p, a)
  PROVE  \E s \in SadDecode(a) : \E t \in TadDecode(s, a) :
           /\ t.c = p.c /\ t.base = Base(machine, p) /\ t.mask = Group(machine, p) /\ t.ch_addr = At(p, a)
<1>. DEFINE s == [c |-> p.c, shift |-> Shift(machine)]
            tad == Ctl[p.c].tad[p.n]
            base == Base(machine, p)
            off == Offset(machine, p) * 2 ^ ChunkBits
            mirrored == Mirrored(p.c, p.n = 1)
            t == [c |-> p.c, base |-> base, mirrored |-> mirrored, mask |-> Mask(base, mirrored, pvt[p.c].lockstep),
                  ch_addr |-> At(p, a)]
<1>1. /\ a \in Nat /\ p \in Parts(machine) /\ p.x = Chunk(a)
      /\ p.k = ChannelIndex(p.c, TadOf(machine, p), Shift(machine), a)
  BY FitFacts, MemoryFacts DEF Holds
<1>2. /\ p.c \in DOMAIN Ctl /\ p.n \in TadAt(machine, p.c, p.x) /\ TadOf(machine, p) = tad
  BY <1>1, PartFacts
<1>3. s \in SadDecode(a)
  <2>1. PICK rule \in SadRule(machine, a) : p.c \in Owner(machine, rule, Index(rule, a))
    BY DEF Holds
  <2>2. Shiftup(machine, rule) = Shift(machine)
    BY <2>1, ShiftFacts
  <2>3. s \in {[c |-> c, shift |-> Shiftup(machine, rule)] : c \in Owner(machine, rule, Index(rule, a))}
    BY <2>1, <2>2
  <2>. HIDE DEF s
  <2>. QED
    BY <2>1, <2>3 DEF SadDecode
<1>4. p.n \in Rule(Ctl[p.c].tad, DOMAIN Ctl[p.c].tad, a)
  BY <1>1, <1>2, FitFacts, ChunkTables
<1>5. mirrored = Ctl[p.c].mirror /\ pvt[p.c].lockstep = Ctl[p.c].lockstep
  <2>1. (p.n = 1) \in BOOLEAN
    OBVIOUS
  <2>. QED
    BY <1>2, <2>1, ModeFacts
<1>6. (mirrored => tad.ch_way \in {2, 4}) /\ off <= a
  BY <1>1, <1>2, <1>5, PartWays, BlockFacts
<1>7. /\ base = tad.tgt[ChannelIndex(p.c, tad, Shift(machine), a)]
      /\ off = Ctl[p.c].chan[base].offset[p.n] * 2 ^ ChunkBits
      /\ Share(machine, p) = 2 ^ tad.sock_way * (IF mirrored THEN tad.ch_way \div 2 ELSE tad.ch_way)
      /\ Group(machine, p) = Mask(base, mirrored, pvt[p.c].lockstep)
  <2>1. base = tad.tgt[ChannelIndex(p.c, tad, Shift(machine), a)]
    BY <1>1, <1>2 DEF Base
  <2>2. off = Ctl[p.c].chan[base].offset[p.n] * 2 ^ ChunkBits
    BY DEF Offset, ChanOf, Ctl
  <2>3. Share(machine, p) = 2 ^ tad.sock_way * (IF mirrored THEN tad.ch_way \div 2 ELSE tad.ch_way)
    BY <1>2, <1>5 DEF Share, ChWays, Ctl
  <2>4. Group(machine, p) = Mask(base, mirrored, pvt[p.c].lockstep)
    BY <1>5 DEF Group, Ctl
  <2>. QED
    BY <2>1, <2>2, <2>3, <2>4
<1>8. t \in TadResult(s, p.n, a)
  <2>1. At(p, a) = ChannelAddress(a, off, Shift(machine), 2 ^ tad.sock_way * (IF mirrored THEN tad.ch_way \div 2 ELSE tad.ch_way))
    BY <1>7 DEF At
  <2>2. ~((mirrored /\ tad.ch_way \notin {2, 4}) \/ off > a)
    <3>1. a \in Nat /\ off \in Nat
      BY <1>1, BlockFacts
    <3>. HIDE DEF off, mirrored, tad
    <3>. QED
      BY <1>6, <3>1
  <2>3. s.c = p.c /\ s.shift = Shift(machine)
    OBVIOUS
  <2>4. ~(ChannelIndex(p.c, tad, Shift(machine), a) < 0)
    <3>1. p.k \in 0 .. tad.ch_way - 1 /\ p.k = ChannelIndex(p.c, tad, Shift(machine), a)
      BY <1>1, <1>2, PartFacts
    <3>. QED
      BY <3>1
  <2>. HIDE DEF s, mirrored
  <2>. QED
    BY <1>7, <2>1, <2>2, <2>3, <2>4 DEF TadResult, mirrored
<1>9. t \in TadDecode(s, a)
  <2>1. s.c = p.c
    OBVIOUS
  <2>. HIDE DEF s, t
  <2>. QED
    BY <1>4, <1>8, <2>1 DEF TadDecode
<1>10. t.c = p.c /\ t.base = base /\ t.mask = Group(machine, p) /\ t.ch_addr = At(p, a)
  <2>. HIDE DEF base, mirrored
  <2>. QED
    BY <1>7
<1>. QED
  BY <1>3, <1>9, <1>10

LEMMA RirFacts ==
  ASSUME Fit, NEW p, NEW a, Holds(p, a), NEW close_pg
  PROVE  /\ RirRule(ChanOf(machine, p).rir, At(p, a)) # {}
         /\ RanksAt(ChanOf(machine, p).rir, close_pg, At(p, a)) # {}
<1>. DEFINE rir == ChanOf(machine, p).rir
            u == (Upto(machine, p) + 1) * 2 ^ Shift(machine) - 1
            x == At(p, a)
            V(z) == {k \in DOMAIN rir : rir[k].valid /\ z < (rir[k].limit + 1) * 2 ^ RirBits}
<1>1. p \in Parts(machine) /\ x \in Nat /\ x <= u
  BY AtFacts DEF Holds
<1>2. DOMAIN rir \in SUBSET Nat /\ \A k \in DOMAIN rir : rir[k].limit \in Nat
  <2>1. /\ p.c \in DOMAIN Ctl /\ Base(machine, p) \in DOMAIN Ctl[p.c].chan
        /\ ChanOf(machine, p) = Ctl[p.c].chan[Base(machine, p)]
    BY <1>1, PartFacts, PartWays
  <2>2. IsTable(rir)
    BY <2>1, FitFacts, ChannelFacts
  <2>3. \A k \in DOMAIN rir : rir[k].limit \in Nat
    BY <2>1, FitFacts, MachinesAssumption DEF Ctl
  <2>. QED
    BY <2>2, <2>3, TableFacts
<1>3. First(V(u)) # {}
  <2>1. RirRule(rir, u) # {}
    BY <1>1, FitFacts DEF Consistent, Decoded
  <2>. QED
    BY <2>1 DEF RirRule
<1>4. V(u) # {}
  BY <1>3 DEF First
<1>5. V(u) \subseteq V(x)
  <2>1. u \in Int
    <3>1. Upto(machine, p) \in Int
      BY BlockFacts
    <3>. QED
      BY <3>1, UnitFacts
  <2>2. 2 ^ RirBits \in Nat
    BY ScaleAssumption, PowerOfTwo
  <2>. HIDE DEF u, x, rir
  <2>3. ASSUME NEW k \in V(u) PROVE k \in V(x)
    <3>1. (rir[k].limit + 1) * 2 ^ RirBits \in Int
      BY <1>2, <2>2
    <3>. QED
      BY <1>1, <2>1, <3>1
  <2>. QED
    BY <2>3
<1>6. V(x) \in SUBSET Nat /\ V(x) # {}
  BY <1>2, <1>4, <1>5
<1>7. First(V(x)) # {}
  <2>. HIDE DEF V
  <2>. QED
    BY <1>6, FirstExists
<1>8. RirRule(rir, x) # {}
  BY <1>7 DEF RirRule
<1>9. RanksAt(rir, close_pg, x) # {}
  <2>1. \A rule, index : RankAt(rule, index) # {}
    <3>1. 0 \in 0 .. 15
      OBVIOUS
    <3>. QED
      BY <3>1, Zenon DEF RankAt
  <2>2. PICK i : i \in RirRule(rir, x)
    BY <1>8
  <2>. HIDE DEF rir, x
  <2>. QED
    BY <2>1, <2>2 DEF RanksAt
<1>. QED
  BY <1>8, <1>9

(* What of a place tells it from others.                                   *)
IsPlace(q, p, a) ==
  /\ q.c = p.c /\ q.mask = Group(machine, p) /\ q.ch_addr = At(p, a)
  /\ q.rank \in RanksAt(ChanOf(machine, p).rir, Ctl[p.c].close_pg, At(p, a))

LEMMA PlaceOfLine ==
  ASSUME Fit, Registered, NEW p, NEW a, Holds(p, a)
  PROVE  \E q : Place(a) = {q} /\ IsPlace(q, p, a)
<1>1. a \in Nat /\ p \in Parts(machine) /\ p.c \in DOMAIN Ctl
  BY FitFacts, MemoryFacts, PartFacts DEF Holds
<1>0. PICK s \in SadDecode(a) : \E t \in TadDecode(s, a) :
        t.c = p.c /\ t.base = Base(machine, p) /\ t.mask = Group(machine, p) /\ t.ch_addr = At(p, a)
  BY ResultOfLine
<1>2. PICK t \in TadDecode(s, a) :
        t.c = p.c /\ t.base = Base(machine, p) /\ t.mask = Group(machine, p) /\ t.ch_addr = At(p, a)
  BY <1>0
<1>3. ChanOf(machine, p) = Ctl[t.c].chan[t.base] /\ pvt[t.c].close_pg = Ctl[p.c].close_pg
  BY <1>1, <1>2, PartWays, ModeFacts
<1>4. PICK rank : rank \in RanksAt(Ctl[t.c].chan[t.base].rir, pvt[t.c].close_pg, t.ch_addr)
  BY <1>2, <1>3, RirFacts
<1>. DEFINE q == [c |-> t.c, base |-> t.base, mirrored |-> t.mirrored, mask |-> t.mask, ch_addr |-> t.ch_addr, rank |-> rank]
<1>5. q \in Ranked(t)
  BY <1>4 DEF Ranked
<1>6. IsPlace(q, p, a)
  BY <1>2, <1>3, <1>4 DEF IsPlace
<1>. HIDE DEF q
<1>7. q \in Place(a)
  BY <1>2, <1>5 DEF Place
<1>8. AtMostOne(Place(a))
  BY <1>1, FitFacts, NarrowLine, PlaceFacts
<1>9. Place(a) = {q}
  BY <1>7, <1>8 DEF AtMostOne
<1>. QED
  BY <1>6, <1>9

-----------------------------------------------------------------------------
(* Two lines of one block are in the same place of it.                     *)

LEMMA NextPowers ==
  ASSUME NEW n \in 0 .. 3
  PROVE  2 ^ n \in {1, 2, 4, 8} /\ 2 ^ (n + 1) = 2 * 2 ^ n /\ 2 ^ (n + 2) = 4 * 2 ^ n /\ 2 ^ (n + 3) = 8 * 2 ^ n
<1>1. 2 ^ (n + 1) = 2 * 2 ^ n
  BY PowerNext
<1>2. 2 ^ ((n + 1) + 1) = 2 * 2 ^ (n + 1) /\ (n + 1) + 1 = n + 2
  BY PowerNext
<1>3. 2 ^ ((n + 2) + 1) = 2 * 2 ^ (n + 2) /\ (n + 2) + 1 = n + 3
  BY PowerNext
<1>4. 2 ^ n \in {1, 2, 4, 8}
  <2>1. n = 0 \/ n = 1 \/ n = 2 \/ n = 3
    OBVIOUS
  <2>2. CASE n = 0
    BY <2>2, Powers
  <2>3. CASE n = 1
    BY <2>3, Powers
  <2>4. CASE n = 2
    BY <2>4, Powers
  <2>5. CASE n = 3
    BY <2>5, Powers
  <2>. QED
    BY <2>1, <2>2, <2>3, <2>4, <2>5
<1>5. \A p \in {1, 2, 4, 8} : 2 * (2 * p) = 4 * p /\ 2 * (4 * p) = 8 * p
  OBVIOUS
<1>. QED
  BY <1>1, <1>2, <1>3, <1>4, <1>5

LEMMA TwoShifts ==
  ASSUME NEW sw \in 0 .. 3, NEW sh \in 0 .. 1
  PROVE  /\ Multiple(2 ^ (sw + sh), 2 ^ sw, 2 ^ sh) /\ Multiple(2 ^ (sw + sh + 2), 4, 2 ^ (sw + sh))
         /\ Multiple(2 ^ (sw + 2), 4, 2 ^ sw)
         /\ 2 ^ sw \in {1, 2, 4, 8} /\ 2 ^ sh \in {1, 2} /\ 2 ^ (sw + sh) \in Nat \ {0}
<1>. DEFINE t == 2 ^ sw
<1>1. t \in {1, 2, 4, 8} /\ 2 ^ (sw + 1) = 2 * t /\ 2 ^ (sw + 2) = 4 * t /\ 2 ^ (sw + 3) = 8 * t
  BY NextPowers
<1>. HIDE DEF t
<1>2. CASE sh = 0
  <2>1. sw + sh = sw /\ sw + sh + 2 = sw + 2
    BY <1>2
  <2>2. 2 ^ sh = 1
    BY <1>2, Powers
  <2>3. 2 ^ (sw + sh) = t /\ 2 ^ (sw + sh + 2) = 4 * t
    BY <1>1, <2>1 DEF t
  <2>4. \A p \in {1, 2, 4, 8} : p = p * 1 /\ p \in Nat \ {0}
    OBVIOUS
  <2>. QED
    BY <1>1, <2>2, <2>3, <2>4 DEF Multiple, t
<1>3. CASE sh = 1
  <2>1. sw + sh = sw + 1 /\ sw + sh + 2 = sw + 3
    BY <1>3
  <2>2. 2 ^ sh = 2
    BY <1>3, Powers
  <2>3. 2 ^ (sw + sh) = 2 * t /\ 2 ^ (sw + sh + 2) = 8 * t
    BY <1>1, <2>1
  <2>4. \A p \in {1, 2, 4, 8} : 2 * p = p * 2 /\ 2 * p \in Nat \ {0} /\ 8 * p = 4 * (2 * p)
    OBVIOUS
  <2>. QED
    BY <1>1, <2>2, <2>3, <2>4 DEF Multiple, t
<1>. QED
  BY <1>2, <1>3

LEMMA Quotients ==
  ASSUME NEW a \in Nat, NEW sw \in 0 .. 3, NEW sh \in 0 .. 1
  PROVE  /\ a \div 2 ^ (sw + sh) = (a \div 2 ^ sh) \div 2 ^ sw
         /\ a \div 2 ^ (sw + sh + 2) = ((a \div 2 ^ sh) \div 2 ^ sw) \div 4
         /\ (a \div 2 ^ sh) \div 2 ^ sw \in Nat /\ a \div 2 ^ sh \in Nat
<1>. DEFINE s == 2 ^ sh
            t == 2 ^ sw
            v == 2 ^ (sw + sh)
            w == 2 ^ (sw + sh + 2)
            four == 4
<1>1. s \in Nat \ {0} /\ t \in Nat \ {0} /\ v \in Nat \ {0} /\ four \in Nat \ {0} /\ a \in Int
  BY PowerOfTwo
<1>2. Multiple(v, t, s)
  BY TwoShifts, Zenon
<1>7. Multiple(w, four, v)
  BY TwoShifts, Zenon
<1>. HIDE DEF s, t, v, w, four
<1>3. a \div v = (a \div s) \div t
  <2>1. s \in Nat \ {0} /\ t \in Nat \ {0} /\ a \in Int
    BY <1>1
  <2>. QED
    <3>1. Twice(a, v, t, s)
      BY <1>2, <2>1 DEF Twice
    <3>. QED
      BY <3>1, Divided
<1>4. a \div w = (a \div v) \div four
  <2>1. Twice(a, w, four, v)
    BY <1>1, <1>7 DEF Twice
  <2>. QED
    BY <2>1, Divided
<1>5. a \div s \in Nat
  BY <1>1, QuotientType
<1>6. (a \div s) \div t \in Nat
  BY <1>1, <1>5, QuotientType
<1>. QED
  BY <1>3, <1>4, <1>5, <1>6 DEF s, t, v, w, four

Skips(g, t, e) == g = t * (4 * e)
LEMMA Turns ==
  ASSUME NEW A \in Nat, NEW t \in Nat \ {0}, NEW w \in 1 .. 4, NEW v, Multiple(v, w, t),
         NEW e \in Int, NEW g, Skips(g, t, e)
  PROVE  (A - g) \div v = ((A \div t) - 4 * e) \div w
<1>. DEFINE f == 4 * e
            n == A - g
<1>1. f \in Int /\ g = t * f /\ A \in Int /\ w \in Nat \ {0}
  BY DEF Skips
<1>. HIDE DEF f
<1>2. n \div t = (A \div t) - f
  <2>1. (A - t * f) \div t = (A \div t) - f
    BY <1>1, DivShift
  <2>. QED
    BY <1>1, <2>1
<1>3. n \in Int
  BY <1>1
<1>. HIDE DEF n
<1>4. n \div v = (n \div t) \div w
  <2>1. Twice(n, v, w, t)
    BY <1>1, <1>3 DEF Twice
  <2>. QED
    BY <2>1, Divided
<1>. QED
  BY <1>2, <1>4 DEF f, n

Level(Y, Z, w, e) ==
  Y \in Nat /\ Z \in Nat /\ w \in 1 .. 4 /\ e \in Int /\ (Y - 4 * e) \div w = (Z - 4 * e) \div w
LEMMA Near ==
  ASSUME NEW Y, NEW Z, NEW w, NEW e, Level(Y, Z, w, e)
  PROVE  /\ Y % w = Z % w => Y = Z
         /\ w # 3 => Y \div 4 = Z \div 4
         /\ Y - Z \in -3 .. 3 /\ (w = 3 => Y - Z \in -2 .. 2)
<1>0. Y \in Nat /\ Z \in Nat /\ w \in 1 .. 4 /\ e \in Int /\ (Y - 4 * e) \div w = (Z - 4 * e) \div w
  BY DEF Level
<1>1. CASE w = 1
  BY <1>0, <1>1
<1>2. CASE w = 2
  BY <1>0, <1>2
<1>3. CASE w = 3
  BY <1>0, <1>3
<1>4. CASE w = 4
  BY <1>0, <1>4
<1>. QED
  BY <1>0, <1>1, <1>2, <1>3, <1>4

SameMod(x, y, w) == x % w = y % w
InThree(a, b, s, t, Y, Z, l, u) ==
  /\ {Y, Z, l, u, a, b} \subseteq Nat /\ Y - Z \in -2 .. 2 /\ t \in {1, 2, 4, 8} /\ s \in {1, 2}
  /\ a = s * (t * Y + l) + u /\ b = s * (t * Z + l) + u /\ a % 3 = b % 3
LEMMA SameOfThree ==
  ASSUME NEW a, NEW b, NEW s, NEW t, NEW Y, NEW Z, NEW l, NEW u, InThree(a, b, s, t, Y, Z, l, u)
  PROVE  Y = Z
<1>. USE DEF InThree
<1>. DEFINE d == Y - Z
            st == s * t
<1>1. st \in {1, 2, 4, 8, 16} /\ a = b + st * d
  <2>1. CASE s = 1
    BY <2>1
  <2>2. CASE s = 2
    BY <2>2
  <2>. QED
    BY <2>1, <2>2
<1>2. d \in -2 .. 2
  OBVIOUS
<1>4. a \in Nat /\ b \in Nat /\ a % 3 = b % 3
  OBVIOUS
<1>. HIDE DEF d, st, InThree
<1>3. d = 0
  <2>1. CASE st = 1
    BY <1>1, <1>2, <1>4, <2>1
  <2>2. CASE st = 2
    BY <1>1, <1>2, <1>4, <2>2
  <2>3. CASE st = 4
    BY <1>1, <1>2, <1>4, <2>3
  <2>4. CASE st = 8
    BY <1>1, <1>2, <1>4, <2>4
  <2>5. CASE st = 16
    BY <1>1, <1>2, <1>4, <2>5
  <2>. QED
    BY <1>1, <2>1, <2>2, <2>3, <2>4, <2>5
<1>. QED
  BY <1>3 DEF d, InThree

Pos(p, a) == (a \div 2 ^ Shift(machine)) \div 2 ^ TadOf(machine, p).sock_way

LEMMA SadRuleFacts ==
  ASSUME machine \in Machines, NEW a
  PROVE  /\ AtMostOne(SadRule(machine, a))
         /\ \A rule \in SadRule(machine, a) : \E i \in DOMAIN machine.sad : rule = machine.sad[i]
<1>. DEFINE used == {k \in DOMAIN machine.sad : machine.sad[k].enable}
<1>1. used \in SUBSET Int /\ used \subseteq DOMAIN machine.sad
  BY MachineFacts, TableFacts
<1>2. SadRule(machine, a) = {machine.sad[i] : i \in Rule(machine.sad, used, a)}
  BY DEF SadRule
<1>. HIDE DEF used
<1>3. AtMostOne(Rule(machine.sad, used, a)) /\ Rule(machine.sad, used, a) \subseteq used
  BY <1>1, RuleFacts
<1>. QED
  BY <1>1, <1>2, <1>3 DEF AtMostOne

Feeds(rule, i, c, n) == rule \in RulesOf(machine, c, n) /\ i \in 0 .. 7 /\ c \in Owner(machine, rule, i)
LEMMA InTurnOf ==
  ASSUME NEW c, NEW n, SameTurns(machine, c, n), NEW rule, NEW i, NEW other, NEW j,
         Feeds(rule, i, c, n), Feeds(other, j, c, n), NEW q \in 0 .. machine.ctl[c].tad[n].sock_way - 1
  PROVE  Digit(i, Fed(machine, q)) = Digit(j, Fed(machine, q))
BY DEF SameTurns, Feeds

LEMMA TurnOf ==
  ASSUME Fit, NEW a, NEW rule \in SadRule(machine, a), NEW q \in 0 .. 2, A7Mode(machine) => machine.shiftup = 1
  PROVE  Fed(machine, q) \in 0 .. 2 /\ Turn(rule, Fed(machine, q)) = Shift(machine) + q
<1>1. IsA7(machine, rule) <=> A7Mode(machine)
  BY ShiftFacts
<1>2. CASE A7Mode(machine)
  <2>1. q = 0 \/ q = 1 \/ q = 2
    OBVIOUS
  <2>2. Shift(machine) = 1 /\ Fed(machine, q) = (q + 1) % 3
    BY <1>2 DEF Shift, Fed
  <2>. QED
    BY <1>1, <1>2, <2>1, <2>2 DEF Turn
<1>3. CASE ~A7Mode(machine)
  BY <1>1, <1>3 DEF Turn, Shift, Fed
<1>. QED
  BY <1>2, <1>3

(* Above a block of four positions all digits are the same.                *)
LEMMA AboveBlock ==
  ASSUME Fit, NEW p \in Parts(machine), NEW a \in Nat, NEW b \in Nat, Pos(p, a) \div 4 = Pos(p, b) \div 4
  PROVE  /\ Chunk(a) = Chunk(b)
         /\ \A k \in Nat : Digit(a, XorBit + k) = Digit(b, XorBit + k)
         /\ \A h \in HashBits, k \in Nat : Digit(a, h + k) = Digit(b, h + k)
<1>. DEFINE top == TadOf(machine, p).sock_way + Shift(machine) + 2
<1>1. p.c \in DOMAIN Ctl /\ p.n \in DOMAIN Ctl[p.c].tad /\ TadOf(machine, p) = Ctl[p.c].tad[p.n]
  BY PartFacts
<1>2. top \in Nat /\ top <= ChunkBits /\ top <= XorBit /\ \A h \in HashBits : top <= h
  BY <1>1, WidthFacts
<1>3. TadOf(machine, p).sock_way \in 0 .. 3 /\ Shift(machine) \in 0 .. 1
  BY PartWays, ShiftFacts
<1>4. a \div 2 ^ top = Pos(p, a) \div 4 /\ b \div 2 ^ top = Pos(p, b) \div 4
  BY <1>3, Quotients DEF Pos
<1>. HIDE DEF top
<1>5. a \div 2 ^ top = b \div 2 ^ top
  BY <1>4
<1>6. ASSUME NEW z \in Nat, top <= z
      PROVE  a \div 2 ^ z = b \div 2 ^ z /\ Digit(a, z) = Digit(b, z)
  BY <1>2, <1>5, <1>6, SameAbove
<1>7. Chunk(a) = Chunk(b)
  BY <1>2, <1>6, ScaleAssumption DEF Chunk
<1>8. ASSUME NEW k \in Nat PROVE Digit(a, XorBit + k) = Digit(b, XorBit + k)
  <2>1. XorBit + k \in Nat /\ top <= XorBit + k
    BY <1>2, ScaleAssumption
  <2>. QED
    BY <1>6, <2>1
<1>9. ASSUME NEW h \in HashBits, NEW k \in Nat PROVE Digit(a, h + k) = Digit(b, h + k)
  <2>1. h + k \in Nat /\ top <= h + k
    BY <1>2, ScaleAssumption
  <2>. QED
    BY <1>6, <2>1
<1>. QED
  BY <1>7, <1>8, <1>9

LEMMA SameTurn ==
  ASSUME Fit, NEW p, NEW r, NEW a, NEW b, Holds(p, a), Holds(r, b), p.c = r.c, p.n = r.n,
         ChWays(machine, p) # 3 => Pos(p, a) \div 4 = Pos(p, b) \div 4
  PROVE  LET s == 2 ^ Shift(machine)
             t == 2 ^ TadOf(machine, p).sock_way
         IN  (a \div s) % t = (b \div s) % t
<1>. DEFINE c == p.c
            n == p.n
            sw == TadOf(machine, p).sock_way
            sh == Shift(machine)
            A == a \div 2 ^ sh
            C == b \div 2 ^ sh
<1>1. /\ p \in Parts(machine) /\ a \in Nat /\ p.x = Chunk(a) /\ p.x \in Chunks(machine)
      /\ r \in Parts(machine) /\ b \in Nat /\ r.x = Chunk(b) /\ r.x \in Chunks(machine) /\ machine \in Machines
  BY FitFacts, MemoryFacts DEF Holds
<1>2. PICK rule \in SadRule(machine, a) : c \in Owner(machine, rule, Index(rule, a))
  BY DEF Holds
<1>3. PICK other \in SadRule(machine, b) : c \in Owner(machine, other, Index(other, b))
  BY DEF Holds
<1>4. c \in DOMAIN machine.ctl /\ n \in DOMAIN machine.ctl[c].tad /\ TadOf(machine, p) = machine.ctl[c].tad[n]
  BY <1>1, PartFacts DEF Ctl
<1>5. n \in TadAt(machine, c, p.x) /\ n \in TadAt(machine, c, r.x)
  BY <1>1, PartFacts
<1>6. rule \in RulesOf(machine, c, n) /\ other \in RulesOf(machine, c, n)
  <2>1. rule \in Sad(machine, p.x) /\ other \in Sad(machine, r.x)
    BY <1>1, <1>2, <1>3, ChunkTables
  <2>. QED
    BY <1>1, <1>5, <2>1 DEF RulesOf
<1>7. Index(rule, a) \in 0 .. 7 /\ Index(other, b) \in 0 .. 7
  BY <1>1, IndexDigits
<1>8. sw \in 0 .. 3 /\ sh \in 0 .. 1
  BY <1>1, PartWays, ShiftFacts
<1>9. InTurn(machine)
  BY FitFacts DEF Consistent
<1>10. ASSUME NEW q \in 0 .. sw - 1 PROVE Digit(A, q) = Digit(C, q)
  <2>1. q \in 0 .. 2 /\ q \in Nat /\ sw > 0
    BY <1>8
  <2>2. A7Mode(machine) => machine.shiftup = 1
    BY <1>4, <1>9, <2>1 DEF InTurn
  <2>3. Digit(Index(rule, a), Fed(machine, q)) = Digit(Index(other, b), Fed(machine, q))
    <3>2. q \in 0 .. machine.ctl[c].tad[n].sock_way - 1
      BY <1>4
    <3>3. SameTurns(machine, c, n)
      BY <1>4, <1>9 DEF InTurn
    <3>. DEFINE i == Index(rule, a)
                j == Index(other, b)
    <3>4. i \in 0 .. 7 /\ j \in 0 .. 7 /\ c \in Owner(machine, rule, i) /\ c \in Owner(machine, other, j)
      BY <1>2, <1>3, <1>7
    <3>. HIDE DEF c, n, i, j
    <3>5. Digit(i, Fed(machine, q)) = Digit(j, Fed(machine, q))
      <4>1. Feeds(rule, i, c, n) /\ Feeds(other, j, c, n)
        BY <1>6, <3>4 DEF Feeds
      <4>. QED
        BY <3>2, <3>3, <4>1, InTurnOf
    <3>. QED
      BY <3>5 DEF i, j
  <2>4. /\ Fed(machine, q) \in 0 .. 2 /\ Fed(machine, q) \in Nat
        /\ Turn(rule, Fed(machine, q)) = sh + q /\ Turn(other, Fed(machine, q)) = sh + q
    BY <2>1, <2>2, TurnOf
  <2>. DEFINE f == Fed(machine, q)
  <2>5. Mixed(rule, a, f) = Mixed(other, b, f)
    BY <1>1, <2>3, <2>4, IndexDigits
  <2>6. Digit(a, sh + q) \in 0 .. 1 /\ Digit(b, sh + q) \in 0 .. 1
    <3>1. sh + q \in Nat
      BY <1>8, <2>1
    <3>. QED
      BY <1>1, <3>1, DigitForm
  <2>. HIDE DEF f
  <2>7. CASE ChWays(machine, p) = 3
    <3>1. TadOf(machine, p).ch_way = 3
      BY <1>1, <2>7, PartWays
    <3>2. (\E i \in DOMAIN machine.sad : rule = machine.sad[i]) /\ (\E i \in DOMAIN machine.sad : other = machine.sad[i])
      BY <1>1, <1>2, <1>3, SadRuleFacts
    <3>3. ~IsXor(machine, rule) /\ ~IsXor(machine, other)
      BY <1>4, <2>1, <3>1, <3>2, FitFacts DEF Plain
    <3>4. Digit(a, sh + q) = Digit(b, sh + q)
      BY <2>4, <2>5, <3>3 DEF Mixed, f
    <3>. QED
      BY <1>1, <1>8, <2>1, <3>4, DigitShift
  <2>8. CASE ChWays(machine, p) # 3
    <3>1. Pos(p, a) \div 4 = Pos(p, b) \div 4
      BY <2>8
    <3>2. Chunk(a) = Chunk(b) /\ Digit(a, XorBit + f) = Digit(b, XorBit + f) /\ Digit(a, XorBit + f) \in 0 .. 1
      <4>1. f \in Nat /\ XorBit + f \in Nat
        BY <2>4, ScaleAssumption DEF f
      <4>. QED
        BY <1>1, <3>1, <4>1, AboveBlock, DigitForm
    <3>3. rule = other
      <4>1. SadRule(machine, a) = SadRule(machine, b)
        BY <1>1, <3>2, ChunkTables
      <4>2. AtMostOne(SadRule(machine, a))
        BY <1>1, SadRuleFacts
      <4>. QED
        BY <1>2, <1>3, <4>1, <4>2 DEF AtMostOne
    <3>4. Mixed(rule, a, f) = IF IsXor(machine, rule) THEN (Digit(a, sh + q) + Digit(a, XorBit + f)) % 2 ELSE Digit(a, sh + q)
      BY <2>4 DEF Mixed, f
    <3>5. Mixed(rule, b, f) = IF IsXor(machine, rule) THEN (Digit(b, sh + q) + Digit(b, XorBit + f)) % 2 ELSE Digit(b, sh + q)
      BY <2>4 DEF Mixed, f
    <3>6. Digit(a, sh + q) = Digit(b, sh + q)
      BY <2>5, <2>6, <3>2, <3>3, <3>4, <3>5
    <3>. QED
      BY <1>1, <1>8, <2>1, <3>6, DigitShift
  <2>. QED
    BY <2>7, <2>8
<1>11. A \in Nat /\ C \in Nat
  BY <1>1, <1>8, Quotients
<1>. HIDE DEF sw, sh, A, C
<1>12. A % 2 ^ sw = C % 2 ^ sw
  <2>1. sw \in 0 .. 5
    BY <1>8
  <2>. QED
    BY <1>10, <1>11, <2>1, LowDigits
<1>. QED
  BY <1>12 DEF A, C, sw, sh

SameAboves(a, b) == \A h \in HashBits, k \in Nat : Digit(a, h + k) = Digit(b, h + k)
LEMMA SameHash ==
  ASSUME NEW i \in 0 .. 3, NEW j \in 0 .. 3, NEW a \in Nat, NEW b \in Nat, NEW w \in {1, 2, 4},
         SameAboves(a, b), SameMod(Hash(i, a), Hash(j, b), w)
  PROVE  SameMod(i, j, w)
<1>. DEFINE N(k) == Cardinality({h \in HashBits : Digit(a, h + k) = 1})
            M(k) == Cardinality({h \in HashBits : Digit(b, h + k) = 1})
            x == (Digit(i, 0) + N(0)) % 2
            y == (Digit(i, 1) + N(1)) % 2
            u == (Digit(j, 0) + N(0)) % 2
            v == (Digit(j, 1) + N(1)) % 2
<1>1. N(0) \in Nat /\ N(1) \in Nat
  BY ScaleAssumption, FS_Subset, FS_CardinalityType
<1>2. M(0) = N(0) /\ M(1) = N(1)
  <2>1. 0 \in Nat /\ 1 \in Nat
    OBVIOUS
  <2>2. /\ {h \in HashBits : Digit(a, h + 0) = 1} = {h \in HashBits : Digit(b, h + 0) = 1}
        /\ {h \in HashBits : Digit(a, h + 1) = 1} = {h \in HashBits : Digit(b, h + 1) = 1}
    BY <2>1 DEF SameAboves
  <2>. QED
    BY <2>2
<1>3. Hash(i, a) = x + 2 * y
  BY DEF Hash
<1>4. Hash(j, b) = u + 2 * v
  BY <1>2 DEF Hash
<1>. HIDE DEF N, M
<1>5. /\ Digit(i, 0) = i % 2 /\ Digit(i, 1) = (i \div 2) % 2
      /\ Digit(j, 0) = j % 2 /\ Digit(j, 1) = (j \div 2) % 2
  <2>1. i \in Nat /\ j \in Nat
    OBVIOUS
  <2>. QED
    BY <2>1, FirstDigits
<1>6. /\ x \in 0 .. 1 /\ y \in 0 .. 1 /\ u \in 0 .. 1 /\ v \in 0 .. 1
      /\ x = u => i % 2 = j % 2
      /\ y = v => (i \div 2) % 2 = (j \div 2) % 2
  BY <1>1, <1>5
<1>. HIDE DEF x, y, u, v
<1>. USE DEF SameMod
<1>7. CASE w = 1
  BY <1>7
<1>8. CASE w = 2
  <2>1. x = u
    BY <1>3, <1>4, <1>6, <1>8
  <2>. QED
    BY <1>6, <1>8, <2>1
<1>9. CASE w = 4
  <2>1. x = u /\ y = v
    BY <1>3, <1>4, <1>6, <1>9
  <2>2. i % 2 = j % 2 /\ (i \div 2) % 2 = (j \div 2) % 2
    BY <1>6, <2>1
  <2>. QED
    BY <1>9, <2>2
<1>. QED
  BY <1>7, <1>8, <1>9

LEMMA ModTwice ==
  ASSUME NEW n \in Nat, NEW m \in Nat, NEW w \in {1, 2, 4}, NEW v \in 1 .. 4, v = w \/ v = 2 * w,
         SameMod(n % v, m % v, w)
  PROVE  SameMod(n, m, w)
<1>. USE DEF SameMod
<1>1. CASE w = 1
  BY <1>1
<1>2. CASE w = 2
  <2>1. v = 2 \/ v = 4
    BY <1>2
  <2>2. CASE v = 2
    BY <1>2, <2>2
  <2>3. CASE v = 4
    BY <1>2, <2>3
  <2>. QED
    BY <2>1, <2>2, <2>3
<1>3. CASE w = 4
  <2>1. v = 4
    BY <1>3
  <2>. QED
    BY <1>3, <2>1
<1>. QED
  BY <1>1, <1>2, <1>3

LEMMA ModOfFour ==
  ASSUME NEW n \in Nat, NEW m \in Nat, NEW w \in {1, 2, 4}, SameMod(n % 4, m % 4, w)
  PROVE  SameMod(n, m, w)
<1>. USE DEF SameMod
<1>1. CASE w = 1
  BY <1>1
<1>2. CASE w = 2
  BY <1>2
<1>3. CASE w = 4
  BY <1>3
<1>. QED
  BY <1>1, <1>2, <1>3

LEMMA SameWay ==
  ASSUME Fit, NEW p, NEW r, NEW a, NEW b, Holds(p, a), Holds(r, b), p.c = r.c, p.n = r.n,
         ChWays(machine, p) # 3, p.k % ChWays(machine, p) = r.k % ChWays(machine, p),
         Pos(p, a) \div 4 = Pos(p, b) \div 4
  PROVE  Pos(p, a) % ChWays(machine, p) = Pos(p, b) % ChWays(machine, p)
<1>. DEFINE c == p.c
            tad == TadOf(machine, p)
            sw == tad.sock_way
            sh == Shift(machine)
            w == ChWays(machine, p)
            v == tad.ch_way
            i == Bits(a, sw + sh, 2)
            j == Bits(b, sw + sh, 2)
            m == IF pvt[c].hash THEN Hash(i, a) ELSE i
            n == IF pvt[c].hash THEN Hash(j, b) ELSE j
<1>1. a \in Nat /\ b \in Nat /\ p \in Parts(machine)
  BY FitFacts, MemoryFacts DEF Holds
<1>2. TadOf(machine, r) = tad
  BY DEF TadOf
<1>3. sw \in 0 .. 3 /\ sh \in 0 .. 1 /\ w \in {1, 2, 4} /\ v \in 1 .. 4 /\ (v = w \/ v = 2 * w) /\ v # 3
  <2>1. sw \in 0 .. 3 /\ sh \in 0 .. 1 /\ w \in 1 .. 4 /\ v \in 1 .. 4 /\ (v = w \/ v = 2 * w)
    BY <1>1, PartWays, ShiftFacts
  <2>. QED
    BY <2>1
<1>4. p.k = m % v /\ r.k = n % v
  <2>1. p.k = ChannelIndex(c, tad, sh, a)
    BY DEF Holds
  <2>2. r.k = ChannelIndex(c, tad, sh, b)
    BY <1>2 DEF Holds
  <2>. HIDE DEF c, tad, sh
  <2>. QED
    BY <1>3, <2>1, <2>2 DEF ChannelIndex
<1>5. i = Pos(p, a) % 4 /\ j = Pos(p, b) % 4 /\ Pos(p, a) \in Nat /\ Pos(p, b) \in Nat
  BY <1>1, <1>3, Quotients, Powers DEF Bits, Pos
<1>. HIDE DEF i, j
<1>6. i \in 0 .. 3 /\ j \in 0 .. 3
  BY <1>5
<1>7. m \in Nat /\ n \in Nat
  <2>1. i \in Nat /\ j \in Nat
    BY <1>6
  <2>2. Hash(i, a) \in Nat /\ Hash(j, b) \in Nat
    BY <1>1, <2>1, HashType
  <2>. QED
    BY <2>1, <2>2
<1>8. SameMod(m, n, w)
  <2>1. SameMod(m % v, n % v, w)
    BY <1>4 DEF SameMod
  <2>. HIDE DEF m, n, v, w
  <2>. QED
    BY <1>3, <1>7, <2>1, ModTwice
<1>9. SameMod(i, j, w)
  <2>1. CASE pvt[c].hash
    <3>1. SameAboves(a, b)
      BY <1>1, AboveBlock DEF SameAboves
    <3>2. SameMod(Hash(i, a), Hash(j, b), w)
      BY <1>8, <2>1
    <3>. HIDE DEF w
    <3>. QED
      BY <1>1, <1>3, <1>6, <3>1, <3>2, SameHash
  <2>2. CASE ~pvt[c].hash
    BY <1>8, <2>2
  <2>. QED
    BY <2>1, <2>2
<1>. DEFINE P == Pos(p, a)
            Q == Pos(p, b)
<1>10. P \in Nat /\ Q \in Nat /\ SameMod(P % 4, Q % 4, w)
  BY <1>5, <1>9
<1>. HIDE DEF P, Q, w
<1>11. SameMod(P, Q, w)
  BY <1>3, <1>10, ModOfFour
<1>. QED
  BY <1>11 DEF P, Q, w, SameMod

-----------------------------------------------------------------------------
(* No two lines have one address in the same channels.                     *)

LEMMA SamePart ==
  ASSUME Fit, NEW p, NEW r, NEW a, NEW b, Holds(p, a), Holds(r, b), p.c = r.c,
         Group(machine, p) = Group(machine, r), At(p, a) = At(r, b)
  PROVE  /\ Block(p, a) = Block(r, b) /\ a % 2 ^ Shift(machine) = b % 2 ^ Shift(machine)
         /\ p.n = r.n /\ Offset(machine, p) = Offset(machine, r)
         /\ ChWays(machine, p) = ChWays(machine, r)
         /\ p.k % ChWays(machine, p) = r.k % ChWays(machine, p)
<1>. DEFINE s == 2 ^ Shift(machine)
<1>1. p \in Parts(machine) /\ r \in Parts(machine)
  BY DEF Holds
<1>2. /\ Block(p, a) \in Int /\ From(machine, p) \in Int /\ Upto(machine, p) \in Int
      /\ From(machine, p) <= Block(p, a) /\ Block(p, a) <= Upto(machine, p)
  BY BlockFacts
<1>3. /\ Block(r, b) \in Int /\ From(machine, r) \in Int /\ Upto(machine, r) \in Int
      /\ From(machine, r) <= Block(r, b) /\ Block(r, b) <= Upto(machine, r)
  BY BlockFacts
<1>4. Block(p, a) = Block(r, b) /\ a % s = b % s
  <2>1. s \in Nat \ {0} /\ a % s \in 0 .. s - 1 /\ b % s \in 0 .. s - 1
    BY UnitFacts, AtFacts
  <2>2. Same(Block(p, a), a % s, Block(r, b), b % s, s)
    <3>1. Same(Block(p, a), a % s, 0, At(p, a), s)
      BY AtFacts
    <3>2. Same(Block(r, b), b % s, 0, At(p, a), s)
      BY AtFacts
    <3>. QED
      BY <3>1, <3>2, Zenon DEF Same
  <2>. HIDE DEF s
  <2>. DEFINE u == a % s
              v == b % s
  <2>. HIDE DEF u, v
  <2>3. Block(p, a) = Block(r, b) /\ u = v
    BY <1>2, <1>3, <2>1, <2>2, SameBlock DEF u, v
  <2>. QED
    BY <2>3 DEF u, v
<1>5. p.n = r.n
  <2>1. ~(Upto(machine, p) < From(machine, r)) /\ ~(Upto(machine, r) < From(machine, p))
    BY <1>2, <1>3, <1>4
  <2>. QED
    BY <1>1, <2>1, FitFacts DEF Consistent, Apart
<1>6. Offset(machine, p) = Offset(machine, r) /\ p.k % ChWays(machine, p) = r.k % ChWays(machine, r)
  BY <1>1, <1>5, FitFacts DEF Consistent, Apart
<1>7. ChWays(machine, p) = ChWays(machine, r)
  BY <1>5 DEF ChWays, TadOf
<1>. QED
  BY <1>4, <1>5, <1>6, <1>7

LEMMA SmallLine ==
  ASSUME Fit, NEW p, NEW a, Holds(p, a), TadOf(machine, p).ch_way = 3
  PROVE  a < IntLines
<1>1. a \in Nat /\ p \in Parts(machine) /\ p.x = Chunk(a)
  BY FitFacts, MemoryFacts DEF Holds
<1>2. p.c \in DOMAIN Ctl /\ p.n \in TadAt(machine, p.c, p.x) /\ TadOf(machine, p) = Ctl[p.c].tad[p.n]
  BY <1>1, PartFacts
<1>3. p.n \in Rule(Ctl[p.c].tad, DOMAIN Ctl[p.c].tad, a)
  BY <1>1, <1>2, FitFacts, ChunkTables
<1>. QED
  BY <1>1, <1>2, <1>3, SmallTad

LEMMA OneLine ==
  ASSUME Fit, NEW p, NEW r, NEW a, NEW b, Holds(p, a), Holds(r, b), p.c = r.c,
         Group(machine, p) = Group(machine, r), At(p, a) = At(r, b)
  PROVE  a = b
<1>. DEFINE s == 2 ^ Shift(machine)
            sw == TadOf(machine, p).sock_way
            t == 2 ^ sw
            w == ChWays(machine, p)
            v == Share(machine, p)
            A == a \div s
            C == b \div s
            Y == Pos(p, a)
            Z == Pos(p, b)
            o == Offset(machine, p)
            B == Blocks(machine)
<1>1. /\ Block(p, a) = Block(r, b) /\ a % s = b % s
      /\ p.n = r.n /\ o = Offset(machine, r) /\ w = ChWays(machine, r) /\ p.k % w = r.k % w
  BY SamePart
<1>2. p \in Parts(machine) /\ a \in Nat /\ b \in Nat
  BY FitFacts, MemoryFacts DEF Holds
<1>3. sw \in 0 .. 3 /\ Shift(machine) \in 0 .. 1 /\ w \in 1 .. 4 /\ o \in Nat
  BY <1>2, PartWays, ShiftFacts
<1>4. t \in {1, 2, 4, 8} /\ s \in {1, 2} /\ Multiple(2 ^ (sw + 2), 4, t)
  BY <1>3, TwoShifts, Zenon
<1>5. A \in Nat /\ C \in Nat /\ Y \in Nat /\ Z \in Nat /\ Y = A \div t /\ Z = C \div t
  BY <1>2, <1>3, Quotients DEF Pos
<1>6. Share(machine, r) = v /\ TadOf(machine, r) = TadOf(machine, p)
  <2>1. TadOf(machine, r) = TadOf(machine, p)
    BY <1>1 DEF TadOf
  <2>. QED
    BY <1>1, <2>1 DEF Share
<1>7. Multiple(v, w, t)
  BY <1>2, ShareFacts
<1>8. PICK k \in Nat : B = k * 2 ^ (sw + 2)
  <2>1. p.c \in DOMAIN Ctl /\ p.n \in DOMAIN Ctl[p.c].tad /\ TadOf(machine, p) = Ctl[p.c].tad[p.n]
    BY <1>2, PartFacts
  <2>2. sw + Shift(machine) + 2 <= ChunkBits
    BY <2>1, WidthFacts
  <2>3. sw + 2 \in Nat /\ ChunkBits - Shift(machine) \in Nat /\ sw + 2 <= ChunkBits - Shift(machine)
    BY <1>3, <2>2, ScaleAssumption
  <2>. QED
    BY <2>3, PowerDivides DEF Blocks
<1>. DEFINE e == o * k
            g == o * B
<1>9. e \in Int /\ g = t * (4 * e)
  <2>1. \A x \in {1, 2, 4, 8} : o * (k * (4 * x)) = x * (4 * (o * k))
    <3>1. o * (k * 4) = 4 * (o * k) /\ o * (k * 8) = 8 * (o * k) /\ o * (k * 16) = 16 * (o * k) /\ o * (k * 32) = 32 * (o * k)
      BY <1>3
    <3>2. o * k \in Nat
      BY <1>3
    <3>. QED
      BY <3>1, <3>2
  <2>2. 2 ^ (sw + 2) = 4 * t
    BY <1>4 DEF Multiple
  <2>3. o * k \in Int
    BY <1>3
  <2>. HIDE DEF t, o, B
  <2>. QED
    BY <1>4, <1>8, <2>1, <2>2, <2>3
<1>10. Block(p, a) = (A - g) \div v
  BY BlockFacts DEF Block
<1>11. Block(r, b) = (C - g) \div v
  <2>1. /\ Block(r, b) = ((b - o * 2 ^ ChunkBits) \div s) \div v
        /\ (b - o * 2 ^ ChunkBits) \div s = C - g
    BY <1>1, <1>6, BlockFacts DEF Block
  <2>. QED
    BY <2>1
<1>. HIDE DEF s, sw, t, w, v, A, C, Y, Z, o, B, e, g
<1>12. t \in Nat \ {0} /\ Skips(g, t, e)
  BY <1>4, <1>9 DEF Skips
<1>13. (A - g) \div v = (Y - 4 * e) \div w
  <2>1. A \in Nat /\ e \in Int
    BY <1>5, <1>9
  <2>2. (A - g) \div v = ((A \div t) - 4 * e) \div w
    BY <1>3, <1>7, <1>12, <2>1, Turns
  <2>. QED
    BY <1>5, <2>2
<1>14. (C - g) \div v = (Z - 4 * e) \div w
  <2>1. C \in Nat /\ e \in Int
    BY <1>5, <1>9
  <2>2. (C - g) \div v = ((C \div t) - 4 * e) \div w
    BY <1>3, <1>7, <1>12, <2>1, Turns
  <2>. QED
    BY <1>5, <2>2
<1>15. (Y - 4 * e) \div w = (Z - 4 * e) \div w
  BY <1>1, <1>10, <1>11, <1>13, <1>14
<1>16. /\ Y % w = Z % w => Y = Z
       /\ w # 3 => Y \div 4 = Z \div 4
       /\ w = 3 => Y - Z \in -2 .. 2
  <2>1. Level(Y, Z, w, e)
    BY <1>3, <1>5, <1>9, <1>15 DEF Level
  <2>. QED
    BY <2>1, Near
<1>17. A % t = C % t
  <2>1. ChWays(machine, p) # 3 => Pos(p, a) \div 4 = Pos(p, b) \div 4
    BY <1>16 DEF w, Y, Z
  <2>. QED
    BY <1>1, <2>1, SameTurn DEF A, C, s, t, sw
<1>. DEFINE l == A % t
            u == a % s
<1>18. l \in Nat /\ A = t * Y + l /\ C = t * Z + l
  <2>1. A \in Int /\ C \in Int
    BY <1>5
  <2>2. A % t \in 0 .. t - 1 /\ A = t * (A \div t) + (A % t)
    BY <1>12, <2>1, DivMod
  <2>3. C % t \in 0 .. t - 1 /\ C = t * (C \div t) + (C % t)
    BY <1>12, <2>1, DivMod
  <2>. QED
    BY <1>5, <1>12, <1>17, <2>2, <2>3
<1>19. u \in Nat /\ a = s * A + u /\ b = s * C + u
  <2>1. a \in Int /\ b \in Int /\ s \in Nat \ {0}
    BY <1>2, <1>4
  <2>2. a % s \in 0 .. s - 1 /\ a = s * (a \div s) + (a % s)
    BY <2>1, DivMod
  <2>3. b % s \in 0 .. s - 1 /\ b = s * (b \div s) + (b % s)
    BY <2>1, DivMod
  <2>. QED
    BY <1>1, <2>1, <2>2, <2>3 DEF A, C
<1>. HIDE DEF l, u
<1>20. Y = Z
  <2>1. CASE w = 3
    <3>1. TadOf(machine, p).ch_way = 3
      BY <1>2, <2>1, PartWays DEF w
    <3>2. p.k = a % 3 /\ r.k = b % 3
      <4>1. p.k = IntRem(a, 3) /\ r.k = IntRem(b, 3)
        BY <1>6, <3>1 DEF Holds, ChannelIndex
      <4>2. a < IntLines /\ b < IntLines
        BY <1>6, <3>1, SmallLine
      <4>3. 3 \in Nat \ {0}
        OBVIOUS
      <4>. QED
        BY <1>2, <4>1, <4>2, <4>3, IntFacts
    <3>3. (a % 3) % 3 = (b % 3) % 3
      BY <1>1, <2>1, <3>2
    <3>4. a % 3 = b % 3
      BY <1>2, <3>3
    <3>5. a = s * (t * Y + l) + u /\ b = s * (t * Z + l) + u
      BY <1>18, <1>19
    <3>6. InThree(a, b, s, t, Y, Z, l, u)
      BY <1>2, <1>4, <1>5, <1>16, <1>18, <1>19, <2>1, <3>4, <3>5 DEF InThree
    <3>. QED
      BY <3>6, SameOfThree
  <2>2. CASE w # 3
    <3>1. Pos(p, a) \div 4 = Pos(p, b) \div 4
      BY <1>16, <2>2 DEF Y, Z
    <3>2. Y % w = Z % w
      BY <1>1, <2>2, <3>1, SameWay DEF w, Y, Z
    <3>. QED
      BY <1>16, <3>2
  <2>. QED
    BY <2>1, <2>2
<1>. QED
  BY <1>18, <1>19, <1>20

-----------------------------------------------------------------------------
(* Lines and cells: an address in the channels of a group.                 *)

PartOf(a)  == CHOOSE p : Holds(p, a)
PlaceOf(a) == CHOOSE q : Place(a) = {q} /\ IsPlace(q, PartOf(a), a)
Key(q)     == <<q.c, q.mask, q.ch_addr>>
Lined(a)   == [line |-> a, place |-> PlaceOf(a)]

LEMMA LineFacts ==
  ASSUME Fit, Registered, NEW a \in Memory(machine)
  PROVE  Holds(PartOf(a), a) /\ Place(a) = {PlaceOf(a)} /\ IsPlace(PlaceOf(a), PartOf(a), a)
<1>1. Holds(PartOf(a), a)
  BY LineHasPart DEF PartOf
<1>. QED
  BY <1>1, PlaceOfLine DEF PlaceOf

LEMMA MappedLines ==
  ASSUME Fit, Registered
  PROVE  Mapped = {Lined(a) : a \in Memory(machine)}
<1>1. ASSUME NEW a \in Memory(machine)
      PROVE  {[line |-> a, place |-> p] : p \in Place(a)} = {Lined(a)}
  BY LineFacts DEF Lined
<1>. QED
  BY <1>1 DEF Mapped

LEMMA KeysDiffer ==
  ASSUME Fit, Registered, NEW a \in Memory(machine), NEW b \in Memory(machine),
         Key(PlaceOf(a)) = Key(PlaceOf(b))
  PROVE  a = b
<1>. DEFINE p == PartOf(a)
            r == PartOf(b)
<1>1. Holds(p, a) /\ Holds(r, b) /\ IsPlace(PlaceOf(a), p, a) /\ IsPlace(PlaceOf(b), r, b)
  BY LineFacts
<1>. HIDE DEF p, r
<1>2. p.c = r.c /\ Group(machine, p) = Group(machine, r) /\ At(p, a) = At(r, b)
  BY <1>1 DEF Key, IsPlace
<1>. QED
  BY <1>1, <1>2, OneLine

LEMMA MemoryFinite ==
  ASSUME machine \in Machines
  PROVE  IsFiniteSet(Memory(machine))
<1>1. machine.tohm \in Nat
  BY MachinesAssumption
<1>2. IsFiniteSet(0 .. machine.tohm)
  BY <1>1, FS_Interval
<1>3. Memory(machine) \in SUBSET (0 .. machine.tohm)
  BY DEF Memory
<1>. QED
  BY <1>2, <1>3, FS_Subset

Keys == {Key(PlaceOf(a)) : a \in Memory(machine)}

LEMMA KeysCount ==
  ASSUME Fit, Registered
  PROVE  IsFiniteSet(Keys) /\ Cardinality(Keys) = Cardinality(Memory(machine))
<1>. DEFINE M == Memory(machine)
            K(a) == Key(PlaceOf(a))
            f == [a \in M |-> K(a)]
<1>1. IsFiniteSet(M)
  BY FitFacts, MemoryFinite
<1>2. \A a, b \in M : K(a) = K(b) => a = b
  BY KeysDiffer
<1>3. Keys = {K(a) : a \in M}
  BY DEF Keys
<1>. HIDE DEF M, K
<1>4. f \in [M -> Keys] /\ (\A a, b \in M : f[a] = f[b] => a = b) /\ \A k \in Keys : \E a \in M : f[a] = k
  BY <1>2, <1>3
<1>. HIDE DEF f
<1>5. f \in Bijection(M, Keys)
  BY <1>4 DEF Bijection, Injection, Surjection, IsInjective
<1>. QED
  BY <1>1, <1>5, FS_Bijection DEF ExistsBijection, M

LEMMA OneToOneOfFit ==
  ASSUME Fit, Registered
  PROVE  OneToOne(Mapped)
<1>1. {<<x.place.c, x.place.mask, x.place.ch_addr>> : x \in Mapped} = Keys
  <2>1. \A a : <<Lined(a).place.c, Lined(a).place.mask, Lined(a).place.ch_addr>> = Key(PlaceOf(a))
    BY DEF Lined, Key
  <2>2. Mapped = {Lined(a) : a \in Memory(machine)}
    BY MappedLines
  <2>. QED
    BY <2>1, <2>2 DEF Keys
<1>. QED
  BY <1>1, KeysCount DEF OneToOne

LEMMA KeyIsCell ==
  ASSUME Fit, Registered, NEW a \in Memory(machine)
  PROVE  Key(PlaceOf(a)) \in Cells(machine)
<1>. DEFINE p == PartOf(a)
            c == p.c
            g == Group(machine, p)
            b == Base(machine, p)
            x == At(p, a)
            rir == ChanOf(machine, p).rir
<1>1. Holds(p, a) /\ IsPlace(PlaceOf(a), p, a)
  BY LineFacts
<1>2. p \in Parts(machine) /\ c \in DOMAIN machine.ctl
  BY <1>1, PartFacts DEF Holds, Ctl
<1>3. g \in Groups(machine, c) /\ b \in Bases(machine, c, g)
  BY <1>2 DEF Groups, Bases
<1>4. rir = machine.ctl[c].chan[b].rir
  BY DEF ChanOf
<1>5. x \in Placed(rir)
  <2>1. x \in Nat /\ RirRule(rir, x) # {}
    BY <1>1, AtFacts, RirFacts
  <2>2. PICK k \in DOMAIN rir : rir[k].valid /\ x < (rir[k].limit + 1) * 2 ^ RirBits
    BY <2>1 DEF RirRule, First
  <2>3. rir[k].limit \in Nat
    <3>1. b \in DOMAIN Ctl[c].chan
      BY <1>2, PartWays
    <3>. QED
      BY <1>2, <1>4, <2>2, <3>1, FitFacts, MachinesAssumption DEF Ctl
  <2>4. (rir[k].limit + 1) * 2 ^ RirBits \in Int
    <3>1. 2 ^ RirBits \in Nat
      BY ScaleAssumption, PowerOfTwo
    <3>. QED
      BY <2>3, <3>1
  <2>. HIDE DEF x, rir
  <2>5. x \in 0 .. (rir[k].limit + 1) * 2 ^ RirBits - 1
    BY <2>1, <2>2, <2>4
  <2>. QED
    BY <2>2, <2>5 DEF Placed
<1>6. Key(PlaceOf(a)) = <<c, g, x>>
  BY <1>1 DEF Key, IsPlace
<1>. HIDE DEF c, g, b, x, p
<1>7. x \in UNION {Placed(machine.ctl[c].chan[d].rir) : d \in Bases(machine, c, g)}
  BY <1>3, <1>4, <1>5
<1>. QED
  BY <1>2, <1>3, <1>6, <1>7 DEF Cells

LEMMA KeysAreCells ==
  ASSUME Fit, Registered
  PROVE  Keys = Cells(machine)
<1>1. Keys \in SUBSET Cells(machine)
  BY KeyIsCell DEF Keys
<1>2. IsFiniteSet(Cells(machine)) /\ Cardinality(Cells(machine)) = Cardinality(Memory(machine))
  BY FitFacts DEF Consistent, Whole
<1>. QED
  BY <1>1, <1>2, KeysCount, FS_Subset

-----------------------------------------------------------------------------
(* The lines of a DIMM are the addresses of its channel in its slot.       *)

InDimm(c, ch, s) ==
  {x \in Mapped : x.place.c = c /\ ch \in x.place.mask /\ DimmOf(x.place.rank) = s}

LEMMA LineInDimm ==
  ASSUME Fit, Registered, NEW c \in DOMAIN Ctl, NEW g \in Groups(machine, c),
         NEW ch \in g \cap DOMAIN Ctl[c].chan, NEW a \in Memory(machine),
         PlaceOf(a).c = c, ch \in PlaceOf(a).mask
  PROVE  /\ PlaceOf(a).mask = g /\ PlaceOf(a).ch_addr \in Placed(Ctl[c].chan[ch].rir)
         /\ PlaceOf(a).rank \in RanksAt(Ctl[c].chan[ch].rir, Ctl[c].close_pg, PlaceOf(a).ch_addr)
<1>. DEFINE p == PartOf(a)
            b == Base(machine, p)
<1>1. Holds(p, a) /\ IsPlace(PlaceOf(a), p, a)
  BY LineFacts
<1>2. p \in Parts(machine) /\ p.c = c /\ PlaceOf(a).mask = Group(machine, p) /\ PlaceOf(a).ch_addr = At(p, a)
  BY <1>1 DEF Holds, IsPlace
<1>3. Group(machine, p) \in Groups(machine, c)
  BY <1>2 DEF Groups
<1>4. Group(machine, p) = g
  <2>1. ch \in g \cap Group(machine, p)
    BY <1>2
  <2>. QED
    BY <1>3, <2>1, FitFacts DEF Consistent, Paired, Ctl
<1>5. Ctl[c].chan[ch].rir = Ctl[c].chan[b].rir
  <2>1. b \in Bases(machine, c, g)
    BY <1>2, <1>4 DEF Bases
  <2>. QED
    BY <2>1, FitFacts DEF Consistent, Paired, Ctl
<1>6. ChanOf(machine, p) = Ctl[c].chan[b]
  BY <1>2 DEF ChanOf, Ctl
<1>7. PlaceOf(a).rank \in RanksAt(Ctl[c].chan[ch].rir, Ctl[c].close_pg, PlaceOf(a).ch_addr)
  BY <1>1, <1>2, <1>5, <1>6 DEF IsPlace
<1>8. PlaceOf(a).ch_addr \in Placed(Ctl[c].chan[ch].rir)
  <2>1. Key(PlaceOf(a)) = <<c, g, At(p, a)>>
    BY <1>2, <1>4 DEF Key
  <2>2. <<c, g, At(p, a)>> \in Cells(machine)
    BY <2>1, KeyIsCell
  <2>3. At(p, a) \in UNION {Placed(Ctl[c].chan[d].rir) : d \in Bases(machine, c, g)}
    BY <2>2 DEF Cells, Ctl
  <2>4. PICK d \in Bases(machine, c, g) : At(p, a) \in Placed(Ctl[c].chan[d].rir)
    BY <2>3
  <2>5. Ctl[c].chan[ch].rir = Ctl[c].chan[d].rir
    BY FitFacts DEF Consistent, Paired, Ctl
  <2>. QED
    BY <1>2, <2>4, <2>5
<1>. QED
  BY <1>2, <1>4, <1>7, <1>8

LEMMA PlacedIsNat ==
  ASSUME NEW rir
  PROVE  Placed(rir) \subseteq Nat
BY DEF Placed

LEMMA CellHasLine ==
  ASSUME Fit, Registered, NEW c \in DOMAIN Ctl, NEW g \in Groups(machine, c),
         NEW ch \in g \cap DOMAIN Ctl[c].chan, NEW y \in Placed(Ctl[c].chan[ch].rir)
  PROVE  \E a \in Memory(machine) : PlaceOf(a).c = c /\ PlaceOf(a).mask = g /\ PlaceOf(a).ch_addr = y
<1>1. PICK b : b \in Bases(machine, c, g)
  BY DEF Groups, Bases
<1>2. Ctl[c].chan[ch].rir = Ctl[c].chan[b].rir
  BY <1>1, FitFacts DEF Consistent, Paired, Ctl
<1>3. y \in UNION {Placed(machine.ctl[c].chan[d].rir) : d \in Bases(machine, c, g)}
  BY <1>1, <1>2 DEF Ctl
<1>4. <<c, g, y>> \in Cells(machine)
  BY <1>3 DEF Cells, Ctl
<1>5. PICK a \in Memory(machine) : Key(PlaceOf(a)) = <<c, g, y>>
  BY <1>4, KeysAreCells DEF Keys
<1>. QED
  BY <1>5 DEF Key

LEMMA DimmLines ==
  ASSUME Fit, Registered, NEW c \in DOMAIN Ctl, NEW g \in Groups(machine, c),
         NEW ch \in g \cap DOMAIN Ctl[c].chan, NEW s
  PROVE  Cardinality(InDimm(c, ch, s)) = Cardinality(InSlot(machine, c, ch, s))
<1>. DEFINE L == InDimm(c, ch, s)
            S == InSlot(machine, c, ch, s)
            f == [x \in L |-> x.place.ch_addr]
            rir == Ctl[c].chan[ch].rir
            pg == Ctl[c].close_pg
<1>1. S = {y \in Placed(rir) : \E rank \in RanksAt(rir, pg, y) : DimmOf(rank) = s}
  BY DEF InSlot, Ctl
<1>2. L \subseteq Mapped /\ IsFiniteSet(L)
  <2>1. L \subseteq Mapped
    BY DEF InDimm
  <2>2. IsFiniteSet(Mapped)
    <3>. DEFINE M == Memory(machine)
                h == [a \in M |-> Lined(a)]
    <3>1. IsFiniteSet(M)
      BY FitFacts, MemoryFinite
    <3>2. Mapped = {Lined(a) : a \in M}
      BY MappedLines
    <3>. HIDE DEF M
    <3>3. h \in [M -> Mapped] /\ \A x \in Mapped : \E a \in M : h[a] = x
      BY <3>2
    <3>4. \A a, b \in M : h[a] = h[b] => a = b
      BY DEF Lined
    <3>. HIDE DEF h
    <3>5. h \in Bijection(M, Mapped)
      BY <3>3, <3>4 DEF Bijection, Injection, Surjection, IsInjective
    <3>. QED
      BY <3>1, <3>5, FS_Bijection DEF ExistsBijection
  <2>. QED
    BY <2>1, <2>2, FS_Subset
<1>3. ASSUME NEW x \in L
      PROVE  \E a \in Memory(machine) :
               /\ x = Lined(a) /\ PlaceOf(a).c = c /\ PlaceOf(a).mask = g /\ PlaceOf(a).ch_addr \in Placed(rir)
               /\ PlaceOf(a).rank \in RanksAt(rir, pg, PlaceOf(a).ch_addr) /\ DimmOf(PlaceOf(a).rank) = s
  <2>1. PICK a \in Memory(machine) : x = Lined(a)
    BY <1>2, MappedLines
  <2>2. x.place = PlaceOf(a)
    BY <2>1 DEF Lined
  <2>3. PlaceOf(a).c = c /\ ch \in PlaceOf(a).mask /\ DimmOf(PlaceOf(a).rank) = s
    BY <2>2 DEF InDimm
  <2>. QED
    BY <2>1, <2>3, LineInDimm
<1>4. \A a : Lined(a).place = PlaceOf(a)
  BY DEF Lined
<1>5. ASSUME NEW x \in L PROVE f[x] \in S
  <2>1. PICK a \in Memory(machine) :
               /\ x = Lined(a) /\ PlaceOf(a).c = c /\ PlaceOf(a).mask = g /\ PlaceOf(a).ch_addr \in Placed(rir)
               /\ PlaceOf(a).rank \in RanksAt(rir, pg, PlaceOf(a).ch_addr) /\ DimmOf(PlaceOf(a).rank) = s
    BY <1>3
  <2>2. f[x] = PlaceOf(a).ch_addr
    BY <1>4, <2>1
  <2>. HIDE DEF f, rir, pg, S
  <2>. QED
    BY <1>1, <2>1, <2>2
<1>6. ASSUME NEW x \in L, NEW y \in L, f[x] = f[y] PROVE x = y
  <2>1. PICK a \in Memory(machine) : x = Lined(a) /\ PlaceOf(a).c = c /\ PlaceOf(a).mask = g
    BY <1>3
  <2>2. PICK b \in Memory(machine) : y = Lined(b) /\ PlaceOf(b).c = c /\ PlaceOf(b).mask = g
    BY <1>3
  <2>3. PlaceOf(a).ch_addr = PlaceOf(b).ch_addr
    BY <1>4, <1>6, <2>1, <2>2
  <2>4. Key(PlaceOf(a)) = Key(PlaceOf(b))
    BY <2>1, <2>2, <2>3 DEF Key
  <2>. QED
    BY <2>1, <2>2, <2>4, KeysDiffer
<1>7. ASSUME NEW y \in S PROVE \E x \in L : f[x] = y
  <2>1. y \in Placed(rir)
    BY <1>1
  <2>2. PICK rank \in RanksAt(rir, pg, y) : DimmOf(rank) = s
    BY <1>1
  <2>3. PICK a \in Memory(machine) : PlaceOf(a).c = c /\ PlaceOf(a).mask = g /\ PlaceOf(a).ch_addr = y
    BY <2>1, CellHasLine
  <2>4. PlaceOf(a).rank \in RanksAt(rir, pg, y)
    BY <2>3, LineInDimm
  <2>5. AtMostOne(RanksAt(rir, pg, y))
    <3>1. y \in Nat
      BY <2>1, PlacedIsNat
    <3>2. Page(pg, y) < IntLines
      BY <2>1, <3>1, SmallPlaced
    <3>. QED
      BY <3>1, <3>2, FitFacts, RankFacts
  <2>6. DimmOf(PlaceOf(a).rank) = s
    BY <2>2, <2>4, <2>5 DEF AtMostOne
  <2>7. Lined(a) \in L
    <3>1. Lined(a) \in Mapped
      BY MappedLines
    <3>. QED
      BY <1>4, <2>3, <2>6, <3>1 DEF InDimm
  <2>8. f[Lined(a)] = y
    BY <1>4, <2>3, <2>7
  <2>. QED
    BY <2>7, <2>8
<1>8. f \in [L -> S]
  BY <1>5
<1>. HIDE DEF f, L, S
<1>9. f \in Bijection(L, S)
  BY <1>6, <1>7, <1>8 DEF Bijection, Injection, Surjection, IsInjective
<1>10. Cardinality(S) = Cardinality(L)
  BY <1>2, <1>9, FS_Bijection DEF ExistsBijection
<1>. QED
  BY <1>10 DEF L, S

-----------------------------------------------------------------------------
(* As many lines as the DIMM has.                                          *)

Sized == \A d \in Places : size[d] = IF d \in Present(d[1]) THEN SizeOf(Mtr(d)) ELSE 0

LEMMA CapacityFacts ==
  ASSUME Fit, machine.ddrio, Sized, NEW d \in Places
  PROVE  /\ d[1] \in DOMAIN Ctl /\ d[2] \in DOMAIN Ctl[d[1]].chan /\ d[3] \in Slots
         /\ size[d] = Capacity(machine, Ctl[d[1]].chan[d[2]].slot[d[3]])
<1>. DEFINE m == Ctl[d[1]].chan[d[2]].slot[d[3]]
<1>1. PICK c \in DOMAIN Ctl : d \in Dimms(c)
  BY DEF Places
<1>2. d[1] = c /\ d[2] \in DOMAIN Ctl[d[1]].chan /\ d[3] \in Slots
  BY <1>1 DEF Dimms
<1>3. Mtr(d) = m /\ (d \in Present(d[1]) <=> m.present)
  BY <1>1, <1>2 DEF Present, Mtr
<1>4. size[d] = IF m.present THEN SizeOf(m) ELSE 0
  BY <1>3 DEF Sized
<1>5. ASSUME m.present PROVE SizeOf(m) = Capacity(machine, m)
  <2>1. m.ranks \in Nat /\ m.rows \in Nat /\ m.cols \in Nat
    BY <1>1, <1>2, FitFacts, ChannelFacts
  <2>2. InRange(machine.type, m)
    BY <1>1, <1>2, <1>5, FitFacts DEF Plain, Ctl
  <2>3. BankBits = IF machine.ddr4 THEN 4 ELSE 3
    BY FitFacts DEF BankBits
  <2>4. /\ SizeOf(m) = 2 ^ ((12 + m.rows) + (10 + m.cols) + m.ranks + BankBits - 17)
        /\ Capacity(machine, m) = 2 ^ (22 + m.rows + m.cols + m.ranks + BankBits - 17)
    BY <1>5, <2>2, <2>3 DEF SizeOf, Capacity
  <2>5. BankBits \in Nat
    BY <2>3
  <2>. HIDE DEF m
  <2>6. (12 + m.rows) + (10 + m.cols) + m.ranks + BankBits - 17 = 22 + m.rows + m.cols + m.ranks + BankBits - 17
    BY <2>1, <2>5
  <2>. QED
    BY <2>4, <2>6
<1>. QED
  BY <1>1, <1>2, <1>4, <1>5 DEF Capacity

LEMMA FillsOfFit ==
  ASSUME Fit, Registered, Sized, machine.ddrio
  PROVE  FillsDimms(Mapped)
<1>. SUFFICES ASSUME NEW d \in Places
              PROVE  LinesIn(Mapped, d) * LineMiB = IF pvt[d[1]].lockstep THEN 2 * size[d] ELSE size[d]
  BY DEF FillsDimms
<1>. DEFINE c == d[1]
            ch == d[2]
            s == d[3]
            dimm == Ctl[c].chan[ch].slot[s]
<1>1. c \in DOMAIN Ctl /\ ch \in DOMAIN Ctl[c].chan /\ s \in Slots /\ size[d] = Capacity(machine, dimm)
  BY CapacityFacts
<1>2. LinesIn(Mapped, d) = Cardinality(InDimm(c, ch, s))
  BY DEF LinesIn, InDimm
<1>3. pvt[c].lockstep = Ctl[c].lockstep /\ Ctl[c].lockstep \in BOOLEAN
  BY <1>1, ModeFacts, FitFacts, ControllerFacts
<1>4. CASE \E g \in Groups(machine, c) : ch \in g
  <2>1. PICK g \in Groups(machine, c) : ch \in g
    BY <1>4
  <2>2. Cardinality(InDimm(c, ch, s)) = Cardinality(InSlot(machine, c, ch, s))
    BY <1>1, <2>1, DimmLines
  <2>3. Cardinality(InSlot(machine, c, ch, s)) * LineMiB = (IF Ctl[c].lockstep THEN 2 ELSE 1) * Capacity(machine, dimm)
    BY <1>1, <2>1, FitFacts DEF Consistent, Filled, Ctl
  <2>4. Capacity(machine, dimm) \in Int
    <3>1. size[d] \in Int
      <4>1. SizeOf(Mtr(d)) \in Int
        BY FitFacts, SizeType DEF Garbage
      <4>. QED
        BY <4>1 DEF Sized
    <3>. QED
      BY <1>1, <3>1
  <2>. HIDE DEF c, ch, s, dimm
  <2>5. (IF Ctl[c].lockstep THEN 2 ELSE 1) * Capacity(machine, dimm) = IF pvt[c].lockstep THEN 2 * size[d] ELSE size[d]
    BY <1>1, <1>3, <2>4
  <2>. QED
    BY <1>2, <2>2, <2>3, <2>5 DEF c
<1>5. CASE ~\E g \in Groups(machine, c) : ch \in g
  <2>1. InDimm(c, ch, s) = {}
    <3>1. SUFFICES ASSUME NEW x \in InDimm(c, ch, s) PROVE FALSE
      OBVIOUS
    <3>2. x \in Mapped /\ x.place.c = c /\ ch \in x.place.mask
      BY DEF InDimm
    <3>3. PICK a \in Memory(machine) : x = Lined(a)
      BY <3>2, MappedLines
    <3>4. x.place = PlaceOf(a)
      BY <3>3 DEF Lined
    <3>5. Holds(PartOf(a), a) /\ IsPlace(PlaceOf(a), PartOf(a), a)
      BY LineFacts
    <3>6. PlaceOf(a).c = PartOf(a).c /\ PlaceOf(a).mask = Group(machine, PartOf(a)) /\ PartOf(a) \in Parts(machine)
      BY <3>5 DEF IsPlace, Holds
    <3>7. Group(machine, PartOf(a)) \in Groups(machine, c)
      BY <3>2, <3>4, <3>6 DEF Groups
    <3>. QED
      BY <1>5, <3>2, <3>4, <3>6, <3>7
  <2>2. ~dimm.present
    <3>1. ch \notin UNION Groups(machine, c)
      BY <1>5
    <3>2. Paired(machine)
      BY FitFacts DEF Consistent
    <3>3. ch \in DOMAIN machine.ctl[c].chan \ UNION Groups(machine, c) /\ c \in DOMAIN machine.ctl /\ s \in Slots
      BY <1>1, <3>1 DEF Ctl
    <3>. HIDE DEF c, ch, s
    <3>4. ~machine.ctl[c].chan[ch].slot[s].present
      BY <3>2, <3>3, Zenon DEF Paired
    <3>. QED
      BY <3>4 DEF Ctl
  <2>3. size[d] = 0
    BY <1>1, <2>2 DEF Capacity
  <2>4. LinesIn(Mapped, d) = 0
    BY <1>2, <2>1, FS_EmptySet
  <2>5. LineMiB \in Nat
    BY ScaleAssumption
  <2>. QED
    BY <2>3, <2>4, <2>5
<1>. QED
  BY <1>4, <1>5

-----------------------------------------------------------------------------
(* A sum is the number of elements of any set that has f[x] elements for   *)
(* each x.                                                                 *)

Fibre(A, h, s) == {a \in A : h[a] \in s}
Fibred(f, A, h) ==
  /\ IsFiniteSet(A) /\ h \in [A -> DOMAIN f]
  /\ \A x \in DOMAIN f : Cardinality(Fibre(A, h, {x})) = f[x]

LEMMA FibreStep ==
  ASSUME NEW A, IsFiniteSet(A), NEW h, NEW s, NEW y \in s
  PROVE  /\ Cardinality(Fibre(A, h, s)) \in Nat /\ Cardinality(Fibre(A, h, {y})) \in Nat
         /\ Cardinality(Fibre(A, h, s \ {y})) \in Nat
         /\ Cardinality(Fibre(A, h, s)) = Cardinality(Fibre(A, h, {y})) + Cardinality(Fibre(A, h, s \ {y}))
<1>. DEFINE U == Fibre(A, h, {y})
            V == Fibre(A, h, s \ {y})
            W == Fibre(A, h, s)
<1>1. W = U \cup V /\ U \cap V = {}
  BY DEF Fibre
<1>2. U \in SUBSET A /\ V \in SUBSET A /\ W \in SUBSET A
  BY DEF Fibre
<1>. HIDE DEF U, V, W
<1>3. IsFiniteSet(U) /\ IsFiniteSet(V) /\ IsFiniteSet(W)
  BY <1>2, FS_Subset
<1>4. Cardinality(U) \in Nat /\ Cardinality(V) \in Nat /\ Cardinality(W) \in Nat /\ Cardinality(U \cap V) = 0
  BY <1>1, <1>3, FS_CardinalityType, FS_EmptySet
<1>5. Cardinality(W) = Cardinality(U) + Cardinality(V)
  <2>1. Cardinality(U \cup V) = Cardinality(U) + Cardinality(V) - Cardinality(U \cap V)
    BY <1>3, FS_Union
  <2>. QED
    BY <1>1, <1>4, <2>1
<1>. QED
  BY <1>4, <1>5 DEF U, V, W

LEMMA SumsFibres ==
  ASSUME NEW S, IsFiniteSet(S), NEW f \in [S -> Nat], NEW A, NEW h, Fibred(f, A, h),
         NEW g, DOMAIN g = SUBSET S, Summing(f, g)
  PROVE  g[S] = Cardinality(A)
<1>. DEFINE N(s) == Cardinality(Fibre(A, h, s))
            Bad == {n \in Nat : \E s \in SUBSET S : Cardinality(s) = n /\ g[s] # N(s)}
<1>1. N(S) = Cardinality(A)
  BY DEF Fibre, Fibred
<1>2. SUFFICES ASSUME g[S] # N(S) PROVE FALSE
  BY <1>1
<1>3. Bad \in SUBSET Nat /\ Bad # {}
  BY <1>2, FS_CardinalityType
<1>4. PICK n \in Bad : \A k \in Bad : n <= k
  <2>. HIDE DEF Bad
  <2>. QED
    BY <1>3, Least
<1>5. PICK s \in SUBSET S : Cardinality(s) = n /\ g[s] # N(s)
  BY <1>4
<1>6. s # {}
  <2>1. SUFFICES ASSUME s = {} PROVE FALSE
    OBVIOUS
  <2>2. Fibre(A, h, s) = {}
    BY <2>1 DEF Fibre
  <2>3. N(s) = 0
    BY <2>2, FS_EmptySet
  <2>4. g[s] = 0
    BY <2>1 DEF Summing
  <2>. QED
    BY <1>5, <2>3, <2>4
<1>. DEFINE y == CHOOSE x \in s : TRUE
<1>7. g[s] = f[y] + g[s \ {y}]
  BY <1>5, <1>6 DEF Summing
<1>8. y \in s /\ s \ {y} \in SUBSET S /\ n \in Nat /\ Cardinality(s \ {y}) = n - 1
  BY <1>5, <1>6, Smaller
<1>. HIDE DEF y
<1>9. g[s \ {y}] = N(s \ {y})
  <2>1. Cardinality(s \ {y}) \in Nat
    BY <1>8, FS_Subset, FS_CardinalityType
  <2>2. n - 1 \notin Bad /\ n - 1 \in Nat
    BY <1>4, <1>8, <2>1
  <2>. QED
    BY <1>8, <2>2
<1>10. f[y] = N({y})
  <2>1. y \in DOMAIN f
    BY <1>8
  <2>. QED
    BY <2>1 DEF Fibred
<1>11. N(s) = N({y}) + N(s \ {y})
  BY <1>8, FibreStep DEF Fibred
<1>. QED
  BY <1>5, <1>7, <1>9, <1>10, <1>11

LEMMA SumIsCount ==
  ASSUME NEW S, IsFiniteSet(S), NEW f \in [S -> Nat], NEW A, NEW h, Fibred(f, A, h)
  PROVE  SumFunction(f) = Cardinality(A)
<1>. DEFINE Def(g) == g = [s \in SUBSET S |->
              IF s = {} THEN 0 ELSE f[CHOOSE x \in s : TRUE] + g[s \ {CHOOSE x \in s : TRUE}]]
            iter == CHOOSE g : Def(g)
<1>1. SumFunction(f) = iter[S]
  BY Zenon DEF SumFunction, SumFunctionOnSet, FoldFunctionOnSet, MapThenFoldSet
<1>2. \E g : Def(g)
  <2>1. PICK g \in [SUBSET S -> Nat] : Summing(f, g)
    BY SumExists
  <2>2. Def(g)
    BY <2>1 DEF Summing
  <2>. QED
    BY <2>2
<1>3. Def(iter)
  BY <1>2
<1>4. DOMAIN iter = SUBSET S /\ Summing(f, iter)
  <2>. HIDE DEF iter
  <2>. QED
    BY <1>3 DEF Summing
<1>5. iter[S] = Cardinality(A)
  <2>. HIDE DEF iter
  <2>. QED
    BY <1>4, SumsFibres
<1>. QED
  BY <1>1, <1>5, Zenon

-----------------------------------------------------------------------------
(* Knights Landing: the sizes of its channels add up to the memory.        *)

KnlFit == machine \in Machines /\ Knl /\ KnlConsistent(machine)

LEMMA RegionFacts ==
  ASSUME KnlFit, NEW i
  PROVE  /\ IsFiniteSet(Region(machine, i)) /\ Cardinality(Region(machine, i)) \in Nat
         /\ IsFiniteSet(Participants(machine)) /\ IsFiniteSet(Takers(machine, i))
         /\ Takers(machine, i) \subseteq Participants(machine) /\ Cardinality(Takers(machine, i)) \in Nat
<1>1. IsFiniteSet(Region(machine, i))
  <2>1. IsFiniteSet(Memory(machine))
    BY MemoryFinite DEF KnlFit
  <2>. QED
    BY <2>1, FS_Subset DEF Region
<1>2. IsFiniteSet(Participants(machine))
  <2>1. Participants(machine) \in SUBSET (0 .. 5)
    BY DEF KnlFit, KnlConsistent, KnlDimms
  <2>2. IsFiniteSet(0 .. 5)
    <3>. DEFINE lo == 0
                hi == 5
    <3>1. lo \in Int /\ hi \in Int
      OBVIOUS
    <3>. HIDE DEF lo, hi
    <3>2. IsFiniteSet(lo .. hi)
      BY <3>1, FS_Interval
    <3>. QED
      BY <3>2 DEF lo, hi
  <2>. QED
    BY <2>1, <2>2, FS_Subset
<1>3. Takers(machine, i) \in SUBSET Participants(machine)
  BY DEF Takers
<1>4. IsFiniteSet(Takers(machine, i))
  BY <1>2, <1>3, FS_Subset
<1>. QED
  BY <1>1, <1>2, <1>3, <1>4, FS_CardinalityType

(* The lines that a controller's TAD rules have of a region.               *)
LEMMA SizeOfRegion ==
  ASSUME KnlFit, NEW i \in Mapping(machine), NEW mc \in 0 .. 1
  PROVE  /\ LinesOf(machine, i, mc) \in {Region(machine, i), {}}
         /\ ActualSize(machine, i, mc) = Cardinality(LinesOf(machine, i, mc))
<1>. DEFINE A == LinesOf(machine, i, mc)
            S == RulesIn(machine, i, mc)
            T(t) == TadLines(machine, mc, t)
            f == [t \in S |-> TadSize(machine, mc, t)]
            h == [a \in A |-> CHOOSE t \in S : a \in T(t)]
<1>1. A \in {Region(machine, i), {}}
  BY DEF KnlFit, KnlConsistent, KnlTables
<1>2. IsFiniteSet(A)
  BY <1>1, RegionFacts, FS_EmptySet
<1>3. IsFiniteSet(S) /\ S \subseteq DOMAIN machine.tad[mc]
  BY KnlFinite DEF KnlFit
<1>4. A = UNION {T(t) : t \in S}
  BY DEF LinesOf
<1>5. \A t, r \in S : t # r => T(t) \cap T(r) = {}
  BY <1>3 DEF KnlFit, KnlConsistent, KnlTables
<1>6. ASSUME NEW t \in S PROVE TadSize(machine, mc, t) \in Nat /\ Cardinality(T(t)) = TadSize(machine, mc, t)
  <2>1. TadSize(machine, mc, t) \in Nat /\ machine.tad[mc][t].limit \in Nat
    BY <1>3, TadSizeType DEF KnlFit
  <2>. DEFINE lo == TadBase(machine, mc, t)
              hi == machine.tad[mc][t].limit
  <2>2. lo \in Int /\ lo = hi + 1 - TadSize(machine, mc, t) /\ hi \in Int
    BY <2>1 DEF TadBase
  <2>3. T(t) = lo .. hi
    BY DEF TadLines
  <2>. HIDE DEF lo, hi
  <2>4. Cardinality(lo .. hi) = IF lo > hi THEN 0 ELSE hi - lo + 1
    BY <2>2, FS_Interval
  <2>. QED
    BY <2>1, <2>2, <2>3, <2>4
<1>7. f \in [S -> Nat]
  BY <1>6
<1>8. ActualSize(machine, i, mc) = SumFunction(f)
  BY DEF ActualSize
<1>. HIDE DEF A, S, T
<1>9. \A a \in A : h[a] \in S /\ a \in T(h[a])
  BY <1>4
<1>10. ASSUME NEW t \in S PROVE Fibre(A, h, {t}) = T(t)
  <2>1. T(t) \subseteq A
    BY <1>4
  <2>. HIDE DEF h
  <2>. QED
    BY <1>5, <1>9, <2>1 DEF Fibre
<1>11. h \in [A -> S] /\ DOMAIN f = S /\ \A t \in S : f[t] = TadSize(machine, mc, t)
  BY <1>9
<1>. HIDE DEF f, h
<1>12. Fibred(f, A, h)
  BY <1>2, <1>6, <1>10, <1>11 DEF Fibred
<1>13. SumFunction(f) = Cardinality(A)
  BY <1>3, <1>7, <1>12, SumIsCount
<1>. QED
  BY <1>1, <1>8, <1>13 DEF A

(* What a channel has of a region.                                         *)
Slice(i) == Cardinality(Region(machine, i)) \div Ways(machine, i)

LEMMA NoLines ==
  ASSUME NEW w \in Nat \ {0}
  PROVE  0 \div w = 0
<1>. DEFINE q == 0 \div w
<1>1. q \in Int /\ 0 % w \in 0 .. w - 1 /\ 0 = w * q + (0 % w)
  BY DivMod
<1>. HIDE DEF q
<1>2. CASE q >= 1
  <2>1. w * q >= w
    BY <1>1, <1>2
  <2>. QED
    BY <1>1, <2>1
<1>3. CASE q <= -1
  <2>1. w * q <= -w
    BY <1>1, <1>3
  <2>. QED
    BY <1>1, <2>1
<1>. QED
  BY <1>1, <1>2, <1>3 DEF q

LEMMA SliceFacts ==
  ASSUME KnlFit, NEW i \in Mapping(machine)
  PROVE  /\ Slice(i) \in Nat
         /\ Cardinality(Takers(machine, i)) * Slice(i) = Cardinality(Region(machine, i))
         /\ \A ch \in Participants(machine) :
              Contributes(machine, i, ch) = IF ch \in Takers(machine, i) THEN Slice(i) ELSE 0
<1>. DEFINE n == Cardinality(Region(machine, i))
            w == Ways(machine, i)
            k == Cardinality(Takers(machine, i))
<1>1. n \in Nat /\ w \in Nat \ {0} /\ k \in Nat
  BY RegionFacts, WaysFacts DEF KnlFit
<1>2. Slice(i) \in Nat
  BY <1>1, QuotientType DEF Slice
<1>3. k * Slice(i) = n
  <2>1. CASE Region(machine, i) = {}
    <3>1. n = 0
      BY <2>1, FS_EmptySet
    <3>2. Slice(i) = 0
      BY <1>1, <3>1, NoLines DEF Slice
    <3>. QED
      BY <1>1, <3>1, <3>2
  <2>2. CASE Region(machine, i) # {}
    <3>1. k = w /\ n % w = 0
      BY <2>2 DEF KnlFit, KnlConsistent, KnlWays
    <3>2. n = w * (n \div w) + (n % w)
      <4>. HIDE DEF n, w
      <4>1. n \in Int
        BY <1>1
      <4>. QED
        BY <1>1, <4>1, DivMod
    <3>3. n \div w = Slice(i)
      BY DEF Slice
    <3>. HIDE DEF n, w, k
    <3>. QED
      BY <1>1, <1>2, <3>1, <3>2, <3>3
  <2>. QED
    BY <2>1, <2>2
<1>4. ASSUME NEW ch \in Participants(machine)
      PROVE  Contributes(machine, i, ch) = IF ch \in Takers(machine, i) THEN Slice(i) ELSE 0
  <2>. DEFINE mc == knl_channel_mc(ch)
  <2>1. mc \in 0 .. 1
    BY DEF knl_channel_mc
  <2>2. Contributes(machine, i, ch) = ActualSize(machine, i, mc) \div w
    BY DEF Contributes
  <2>3. ch \in Takers(machine, i) <=> LinesOf(machine, i, mc) # {}
    BY DEF Takers
  <2>. HIDE DEF mc
  <2>4. /\ LinesOf(machine, i, mc) \in {Region(machine, i), {}}
        /\ ActualSize(machine, i, mc) = Cardinality(LinesOf(machine, i, mc))
    BY <2>1, SizeOfRegion
  <2>5. CASE ch \in Takers(machine, i)
    BY <2>2, <2>3, <2>4, <2>5 DEF Slice
  <2>6. CASE ch \notin Takers(machine, i)
    <3>1. ActualSize(machine, i, mc) = 0
      BY <2>3, <2>4, <2>6, FS_EmptySet
    <3>. QED
      BY <1>1, <2>2, <2>6, <3>1, NoLines
  <2>. QED
    BY <2>5, <2>6
<1>. QED
  BY <1>2, <1>3, <1>4

-----------------------------------------------------------------------------
(* The slices of all channels, one by one: <<region, <<channel, number>>>>. *)

Slices(i)   == {i} \X (Takers(machine, i) \X (0 .. Slice(i) - 1))
Bricks      == UNION {Slices(i) : i \in Mapping(machine)}
BricksOf(ch) == {q \in Bricks : q[2][1] = ch}

LEMMA CountTo ==
  ASSUME NEW n \in Nat
  PROVE  IsFiniteSet(0 .. n - 1) /\ Cardinality(0 .. n - 1) = n
<1>. DEFINE lo == 0
            hi == n - 1
<1>1. lo \in Int /\ hi \in Int /\ lo = 0 /\ hi = n - 1
  OBVIOUS
<1>. HIDE DEF lo, hi
<1>2. IsFiniteSet(lo .. hi) /\ Cardinality(lo .. hi) = IF lo > hi THEN 0 ELSE hi - lo + 1
  BY <1>1, FS_Interval
<1>. QED
  BY <1>1, <1>2

LEMMA OneBy ==
  ASSUME NEW x, NEW S, IsFiniteSet(S)
  PROVE  IsFiniteSet({x} \X S) /\ Cardinality({x} \X S) = Cardinality(S)
<1>. DEFINE X == {x}
<1>1. IsFiniteSet(X) /\ Cardinality(X) = 1 /\ Cardinality(S) \in Nat
  BY FS_Singleton, FS_CardinalityType
<1>. HIDE DEF X
<1>2. IsFiniteSet(X \X S) /\ Cardinality(X \X S) = Cardinality(X) * Cardinality(S)
  BY <1>1, FS_Product
<1>. QED
  BY <1>1, <1>2 DEF X

LEMMA SlicesCount ==
  ASSUME KnlFit, NEW i \in Mapping(machine)
  PROVE  IsFiniteSet(Slices(i)) /\ Cardinality(Slices(i)) = Cardinality(Region(machine, i))
<1>. DEFINE C == Takers(machine, i)
            N == 0 .. Slice(i) - 1
<1>1. IsFiniteSet(C) /\ IsFiniteSet(N) /\ Cardinality(N) = Slice(i)
  BY RegionFacts, SliceFacts, CountTo
<1>2. Slices(i) = {i} \X (C \X N)
  BY DEF Slices
<1>3. Cardinality(C) * Slice(i) = Cardinality(Region(machine, i))
  BY SliceFacts
<1>. HIDE DEF C, N
<1>4. IsFiniteSet(C \X N) /\ Cardinality(C \X N) = Cardinality(C) * Cardinality(N)
  BY <1>1, FS_Product
<1>5. IsFiniteSet({i} \X (C \X N)) /\ Cardinality({i} \X (C \X N)) = Cardinality(C \X N)
  BY <1>4, OneBy
<1>. QED
  BY <1>1, <1>2, <1>3, <1>4, <1>5

LEMMA BrickFacts ==
  ASSUME KnlFit
  PROVE  /\ IsFiniteSet(Bricks) /\ IsFiniteSet(Mapping(machine))
         /\ \A q \in Bricks : /\ q[1] \in Mapping(machine) /\ q \in Slices(q[1])
                              /\ q[2][1] \in Takers(machine, q[1]) /\ q[2][1] \in Participants(machine)
<1>1. IsFiniteSet(Mapping(machine))
  <2>1. knl_channel_mc(0) \in 0 .. 1
    BY DEF knl_channel_mc
  <2>. QED
    BY <2>1, KnlFinite DEF KnlFit
<1>2. IsFiniteSet(Bricks)
  <2>. DEFINE I == Mapping(machine)
              F == {Slices(i) : i \in I}
              s == [i \in I |-> Slices(i)]
  <2>1. \A T \in F : IsFiniteSet(T)
    BY SlicesCount
  <2>2. IsFiniteSet(F)
    <3>1. s \in Surjection(I, F)
      BY DEF Surjection
    <3>2. IsFiniteSet(I)
      BY <1>1
    <3>. HIDE DEF I, F, s
    <3>. QED
      BY <3>1, <3>2, FS_Surjection DEF ExistsSurjection
  <2>3. Bricks = UNION F
    BY DEF Bricks
  <2>. HIDE DEF F
  <2>. QED
    BY <2>1, <2>2, <2>3, FS_UNION
<1>3. ASSUME NEW q \in Bricks
      PROVE  /\ q[1] \in Mapping(machine) /\ q \in Slices(q[1])
             /\ q[2][1] \in Takers(machine, q[1]) /\ q[2][1] \in Participants(machine)
  <2>1. PICK i \in Mapping(machine) : q \in Slices(i)
    BY DEF Bricks
  <2>2. q[1] = i /\ q[2][1] \in Takers(machine, i)
    BY <2>1 DEF Slices
  <2>. QED
    BY <2>1, <2>2, RegionFacts
<1>. QED
  BY <1>1, <1>2, <1>3

(* A channel's size is the number of its slices.                           *)
LEMMA ChannelCount ==
  ASSUME KnlFit, NEW ch
  PROVE  IsFiniteSet(BricksOf(ch)) /\ Cardinality(BricksOf(ch)) = McSize(machine, ch)
<1>. DEFINE A == BricksOf(ch)
            I == Mapping(machine)
            f == [i \in I |-> Contributes(machine, i, ch)]
            h == [q \in A |-> q[1]]
<1>1. IsFiniteSet(A) /\ A \subseteq Bricks
  <2>1. A \in SUBSET Bricks
    BY DEF BricksOf
  <2>. QED
    BY <2>1, BrickFacts, FS_Subset
<1>2. CASE ch \notin Participants(machine)
  <2>1. A = {}
    BY <1>2, BrickFacts DEF BricksOf
  <2>2. McSize(machine, ch) = 0
    BY <1>2 DEF McSize
  <2>. QED
    BY <1>1, <2>1, <2>2, FS_EmptySet
<1>3. CASE ch \in Participants(machine)
  <2>1. f \in [I -> Nat] /\ IsFiniteSet(I)
    BY ContributesType, BrickFacts DEF KnlFit
  <2>2. McSize(machine, ch) = SumFunction(f)
    BY <1>3 DEF McSize
  <2>3. h \in [A -> I]
    BY <1>1, BrickFacts
  <2>4. ASSUME NEW i \in I PROVE Cardinality(Fibre(A, h, {i})) = f[i]
    <3>. DEFINE N == 0 .. Slice(i) - 1
    <3>1. f[i] = IF ch \in Takers(machine, i) THEN Slice(i) ELSE 0
      BY <1>3, SliceFacts
    <3>2. Fibre(A, h, {i}) = {q \in Slices(i) : q[2][1] = ch}
      <4>1. \A q \in Slices(i) : q[1] = i /\ q \in Bricks
        BY DEF Slices, Bricks
      <4>2. \A q \in Bricks : q \in Slices(q[1])
        BY BrickFacts
      <4>3. \A q \in A : h[q] = q[1]
        OBVIOUS
      <4>. HIDE DEF h
      <4>. QED
        BY <1>1, <4>1, <4>2, <4>3 DEF Fibre, BricksOf
    <3>3. CASE ch \in Takers(machine, i)
      <4>1. {q \in Slices(i) : q[2][1] = ch} = {i} \X ({ch} \X N)
        BY <3>3 DEF Slices
      <4>2. IsFiniteSet(N) /\ Cardinality(N) = Slice(i)
        BY SliceFacts, CountTo
      <4>. HIDE DEF N
      <4>3. IsFiniteSet({ch} \X N) /\ Cardinality({ch} \X N) = Slice(i)
        BY <4>2, OneBy
      <4>4. Cardinality({i} \X ({ch} \X N)) = Slice(i)
        BY <4>3, OneBy
      <4>. QED
        BY <3>1, <3>2, <3>3, <4>1, <4>4
    <3>4. CASE ch \notin Takers(machine, i)
      <4>1. {q \in Slices(i) : q[2][1] = ch} = {}
        BY <3>4 DEF Slices
      <4>. QED
        BY <3>1, <3>2, <3>4, <4>1, FS_EmptySet
    <3>. QED
      BY <3>3, <3>4
  <2>5. DOMAIN f = I
    OBVIOUS
  <2>. HIDE DEF f, h, A, I
  <2>6. Fibred(f, A, h)
    BY <1>1, <2>3, <2>4, <2>5 DEF Fibred
  <2>. QED
    BY <1>1, <2>1, <2>2, <2>6, SumIsCount DEF A
<1>. QED
  BY <1>2, <1>3

-----------------------------------------------------------------------------
(* The regions that are not EDRAM divide the memory that is not.           *)

Dram == {a \in Memory(machine) : ~InEdram(machine, a)}

LEMMA RegionsApart ==
  ASSUME KnlFit, NEW i \in SadRegions(machine), NEW k \in SadRegions(machine), NEW a \in Nat,
         a \in Region(machine, i), a \in Region(machine, k)
  PROVE  i = k
<1>1. /\ SadBase(machine, i) <= a /\ a < SadEnd(machine, i)
      /\ SadBase(machine, k) <= a /\ a < SadEnd(machine, k)
  BY DEF Region
<1>2. /\ i < k => SadEnd(machine, i) <= SadBase(machine, k)
      /\ k < i => SadEnd(machine, k) <= SadBase(machine, i)
  BY DEF KnlFit, KnlConsistent, KnlRegions
<1>3. i \in Int /\ k \in Int
  <2>1. SadRegions(machine) \subseteq DOMAIN machine.sad /\ IsTable(machine.sad)
    BY MachineFacts DEF KnlFit, SadRegions
  <2>. QED
    BY <2>1, TableFacts
<1>4. ASSUME NEW r \in SadRegions(machine) PROVE SadBase(machine, r) \in Int /\ SadEnd(machine, r) \in Int
  <2>1. r \in DOMAIN machine.sad /\ (r = 1 \/ r - 1 \in DOMAIN machine.sad)
    <3>1. r \in DOMAIN machine.sad /\ DOMAIN machine.sad = 1 .. Len(machine.sad) /\ Len(machine.sad) \in Nat
      BY MachineFacts DEF KnlFit, SadRegions, IsTable
    <3>. QED
      BY <3>1
  <2>2. \A x \in DOMAIN machine.sad : machine.sad[x].limit \in Nat
    BY MachinesAssumption DEF KnlFit
  <2>3. 2 ^ ChunkBits \in Nat
    BY ScaleAssumption, PowerOfTwo
  <2>4. \A n \in Nat : Limit(n) \in Int
    BY <2>3 DEF Limit
  <2>. QED
    BY <2>1, <2>2, <2>4 DEF SadBase, SadEnd
<1>. QED
  BY <1>1, <1>2, <1>3, <1>4

LEMMA BricksCount ==
  ASSUME KnlFit
  PROVE  Cardinality(Bricks) = Cardinality(Dram)
<1>. DEFINE I == Mapping(machine)
            R(i) == Region(machine, i)
            f == [i \in I |-> Cardinality(R(i))]
            h == [q \in Bricks |-> q[1]]
            g == [a \in Dram |-> CHOOSE i \in I : a \in R(i)]
<1>1. f \in [I -> Nat] /\ DOMAIN f = I /\ IsFiniteSet(I)
  BY RegionFacts, BrickFacts
<1>2. Fibred(f, Bricks, h)
  <2>1. h \in [Bricks -> I]
    BY BrickFacts
  <2>2. ASSUME NEW i \in I PROVE Cardinality(Fibre(Bricks, h, {i})) = f[i]
    <3>1. Fibre(Bricks, h, {i}) = Slices(i)
      <4>1. \A q \in Slices(i) : q[1] = i /\ q \in Bricks
        BY DEF Slices, Bricks
      <4>2. \A q \in Bricks : q \in Slices(q[1])
        BY BrickFacts
      <4>3. \A q \in Bricks : h[q] = q[1]
        OBVIOUS
      <4>. HIDE DEF h
      <4>. QED
        BY <4>1, <4>2, <4>3 DEF Fibre
    <3>. QED
      BY <3>1, SlicesCount
  <2>. HIDE DEF f, h, I
  <2>. QED
    BY <1>1, <2>1, <2>2, BrickFacts DEF Fibred
<1>3. IsFiniteSet(Dram)
  <2>1. IsFiniteSet(Memory(machine))
    BY MemoryFinite DEF KnlFit
  <2>. QED
    BY <2>1, FS_Subset DEF Dram
<1>4. I \subseteq SadRegions(machine) /\ \A i \in SadRegions(machine) : i \in I <=> ~machine.sad[i].edram
  BY DEF Mapping
<1>5. ASSUME NEW a \in Dram PROVE \E i \in I : a \in R(i)
  <2>1. PICK i \in SadRegions(machine) : a \in Region(machine, i)
    BY DEF Dram, KnlFit, KnlConsistent, KnlRegions
  <2>2. ~machine.sad[i].edram
    BY <2>1 DEF Dram, InEdram
  <2>. QED
    BY <1>4, <2>1, <2>2
<1>6. ASSUME NEW i \in I PROVE R(i) \subseteq Dram
  <2>1. SUFFICES ASSUME NEW a \in R(i) PROVE a \in Dram
    OBVIOUS
  <2>2. a \in Memory(machine) /\ a \in Nat
    BY <2>1 DEF Region, Memory
  <2>3. SUFFICES ASSUME InEdram(machine, a) PROVE FALSE
    BY <2>2 DEF Dram
  <2>4. PICK k \in SadRegions(machine) : machine.sad[k].edram /\ a \in Region(machine, k)
    BY <2>3 DEF InEdram
  <2>5. i = k
    BY <1>4, <2>1, <2>2, <2>4, RegionsApart
  <2>. QED
    BY <1>4, <2>4, <2>5
<1>7. Fibred(f, Dram, g)
  <2>1. \A a \in Dram : g[a] \in I /\ a \in R(g[a])
    BY <1>5
  <2>2. g \in [Dram -> I]
    BY <2>1
  <2>3. ASSUME NEW i \in I PROVE Fibre(Dram, g, {i}) = R(i)
    <3>1. ASSUME NEW a \in R(i) PROVE a \in Dram /\ g[a] = i
      <4>1. a \in Dram /\ a \in Nat
        BY <1>6, <3>1 DEF Dram, Memory
      <4>2. g[a] \in I /\ a \in R(g[a])
        BY <2>1, <4>1
      <4>3. g[a] \in SadRegions(machine) /\ i \in SadRegions(machine)
        BY <1>4, <4>2
      <4>. HIDE DEF g
      <4>. QED
        BY <3>1, <4>1, <4>2, <4>3, RegionsApart
    <3>2. ASSUME NEW a \in Dram, g[a] = i PROVE a \in R(i)
      BY <2>1, <3>2
    <3>. HIDE DEF g, R
    <3>. QED
      BY <3>1, <3>2 DEF Fibre
  <2>4. \A i \in I : f[i] = Cardinality(R(i))
    OBVIOUS
  <2>. HIDE DEF f, g, I, R
  <2>. QED
    BY <1>1, <1>3, <2>2, <2>3, <2>4 DEF Fibred
<1>. HIDE DEF f, g, h, I
<1>8. SumFunction(f) = Cardinality(Bricks)
  BY <1>1, <1>2, SumIsCount
<1>9. SumFunction(f) = Cardinality(Dram)
  BY <1>1, <1>7, SumIsCount
<1>. QED
  BY <1>8, <1>9

-----------------------------------------------------------------------------
(* The sizes, of all channels with a DIMM.                                 *)

KnlSized ==
  /\ size \in [Places -> Nat \cup {Garbage}]
  /\ \A d \in Places : size[d] = IF d \in Present(d[1]) THEN LineMiB * McSize(machine, d[2]) ELSE 0

LEMMA KnlPlaces ==
  ASSUME KnlFit
  PROVE  /\ IsFiniteSet(Places)
         /\ \A d \in Places : d = <<1, d[2], 0>>
         /\ \A ch \in Participants(machine) : <<1, ch, 0>> \in Places /\ <<1, ch, 0>> \in Present(1)
<1>1. /\ DOMAIN Ctl = {1} /\ DOMAIN Ctl[1].chan \subseteq 0 .. 5
      /\ \A ch \in Participants(machine) : ch \in DOMAIN Ctl[1].chan /\ Ctl[1].chan[ch].slot[0].present
  BY DEF KnlFit, KnlConsistent, KnlDimms, Ctl
<1>2. Dimms(1) = {<<1, ch, 0>> : ch \in DOMAIN Ctl[1].chan}
  BY DEF Dimms, KnlFit, Slots
<1>3. Places = {<<1, ch, 0>> : ch \in DOMAIN Ctl[1].chan}
  BY <1>1, <1>2 DEF Places
<1>4. IsFiniteSet(Places)
  <2>. DEFINE C == DOMAIN Ctl[1].chan
              s == [ch \in C |-> <<1, ch, 0>>]
  <2>1. IsFiniteSet(C)
    <3>1. C \in SUBSET Nat /\ \A x \in C : x <= 5
      BY <1>1
    <3>. HIDE DEF C
    <3>. QED
      BY <3>1, FS_BoundedSetOfNaturals
  <2>2. s \in Surjection(C, Places)
    BY <1>3 DEF Surjection
  <2>. HIDE DEF C, s
  <2>. QED
    BY <2>1, <2>2, FS_Surjection DEF ExistsSurjection
<1>5. ASSUME NEW ch \in Participants(machine)
      PROVE  <<1, ch, 0>> \in Places /\ <<1, ch, 0>> \in Present(1)
  BY <1>1, <1>2, <1>3 DEF Present, Mtr
<1>6. \A d \in Places : d = <<1, d[2], 0>>
  BY <1>3
<1>. QED
  BY <1>4, <1>5, <1>6

LEMMA KnlTotalOfFit ==
  ASSUME KnlFit, KnlSized
  PROVE  KnlTotal
<1>. DEFINE U == 0 .. LineMiB - 1
            A == Bricks \X U
            h == [x \in A |-> <<1, x[1][2][1], 0>>]
<1>1. IsFiniteSet(U) /\ Cardinality(U) = LineMiB /\ LineMiB \in Nat
  BY ScaleAssumption, CountTo
<1>2. IsFiniteSet(Bricks) /\ Cardinality(Bricks) \in Nat
  BY BrickFacts, FS_CardinalityType
<1>3. IsFiniteSet(A) /\ Cardinality(A) = Cardinality(Bricks) * LineMiB
  <2>. HIDE DEF U
  <2>. QED
    BY <1>1, <1>2, FS_Product
<1>4. ASSUME NEW d \in Places PROVE size[d] = LineMiB * McSize(machine, d[2])
  <2>1. d = <<1, d[2], 0>> /\ d[1] = 1
    BY KnlPlaces
  <2>2. CASE d \in Present(1)
    BY <2>1, <2>2 DEF KnlSized
  <2>3. CASE d \notin Present(1)
    <3>1. d[2] \notin Participants(machine)
      BY <2>1, <2>3, KnlPlaces
    <3>2. McSize(machine, d[2]) = 0
      BY <3>1 DEF McSize
    <3>. QED
      BY <1>1, <2>1, <2>3, <3>2 DEF KnlSized
  <2>. QED
    BY <2>2, <2>3
<1>5. size \in [Places -> Nat] /\ DOMAIN size = Places
  <2>1. \A d \in Places : LineMiB * McSize(machine, d[2]) \in Nat
    <3>1. \A ch : McSize(machine, ch) \in Nat
      BY McSizeType DEF KnlFit
    <3>. QED
      BY <1>1, <3>1
  <2>. QED
    BY <1>4, <2>1 DEF KnlSized
<1>6. h \in [A -> Places]
  <2>1. \A q \in Bricks : <<1, q[2][1], 0>> \in Places
    BY BrickFacts, KnlPlaces
  <2>. QED
    BY <2>1
<1>7. ASSUME NEW d \in Places PROVE Cardinality(Fibre(A, h, {d})) = size[d]
  <2>. DEFINE B == BricksOf(d[2])
  <2>1. IsFiniteSet(B) /\ Cardinality(B) = McSize(machine, d[2])
    BY ChannelCount
  <2>2. d = <<1, d[2], 0>>
    BY KnlPlaces
  <2>3. Fibre(A, h, {d}) = B \X U
    <3>. DEFINE ch == d[2]
    <3>1. \A q : <<1, q[2][1], 0>> = d <=> q[2][1] = ch
      BY <2>2
    <3>2. \A x \in A : h[x] = <<1, x[1][2][1], 0>> /\ x[1] \in Bricks /\ x[2] \in U /\ x = <<x[1], x[2]>>
      OBVIOUS
    <3>3. \A q : q \in B <=> q \in Bricks /\ q[2][1] = ch
      BY DEF BricksOf
    <3>4. ASSUME NEW x \in Fibre(A, h, {d}) PROVE x \in B \X U
      <4>1. x \in A /\ h[x] = d
        BY DEF Fibre
      <4>. HIDE DEF A, h, B, U, ch
      <4>2. x[1] \in B
        BY <3>1, <3>2, <3>3, <4>1
      <4>. QED
        BY <3>2, <4>1, <4>2
    <3>5. ASSUME NEW x \in B \X U PROVE x \in Fibre(A, h, {d})
      <4>1. x[1] \in B /\ x[2] \in U /\ x = <<x[1], x[2]>>
        OBVIOUS
      <4>2. x[1] \in Bricks
        BY <3>3, <4>1
      <4>3. x \in A
        BY <4>1, <4>2
      <4>4. h[x] = d
        BY <3>1, <3>2, <3>3, <4>1, <4>3
      <4>. QED
        BY <4>3, <4>4 DEF Fibre
    <3>. QED
      BY <3>4, <3>5
  <2>4. McSize(machine, d[2]) \in Nat
    BY McSizeType DEF KnlFit
  <2>. HIDE DEF B, U, A, h
  <2>5. Cardinality(B \X U) = Cardinality(B) * Cardinality(U)
    BY <1>1, <2>1, FS_Product
  <2>6. Cardinality(Fibre(A, h, {d})) = McSize(machine, d[2]) * LineMiB
    BY <1>1, <2>1, <2>3, <2>5
  <2>. QED
    BY <1>1, <1>4, <2>4, <2>6
<1>. HIDE DEF U, A, h
<1>8. Fibred(size, A, h)
  BY <1>3, <1>5, <1>6, <1>7 DEF Fibred
<1>9. SumFunction(size) = Cardinality(A)
  BY <1>5, <1>8, KnlPlaces, SumIsCount
<1>10. Cardinality(Bricks) = Cardinality(Dram)
  BY BricksCount
<1>. QED
  BY <1>1, <1>2, <1>3, <1>9, <1>10 DEF KnlTotal, Dram

-----------------------------------------------------------------------------
(* What registration has learnt when the driver is live.                   *)

Told(d) == IF Knl THEN LineMiB * McSize(machine, d[2]) ELSE SizeOf(Mtr(d))
Learnt ==
  /\ \A c \in DOMAIN Ctl : c < at => pvt[c] = Mode(c) /\ ~Refused(c)
  /\ \A d \in Places : size[d] = IF d[1] < at /\ d \in Present(d[1]) THEN Told(d) ELSE 0
  /\ phase = "live" => at \notin DOMAIN Ctl

LEMMA LearntInit == Init => Learnt
<1>. SUFFICES ASSUME Init PROVE Learnt
  OBVIOUS
<1>1. machine \in Machines /\ IsTable(Ctl)
  BY MachineFacts DEF Init
<1>2. at = 1 /\ phase = "config" /\ size = [d \in Places |-> 0]
  BY DEF Init, DimmInit
<1>3. \A c \in DOMAIN Ctl : ~(c < at)
  BY <1>1, <1>2 DEF IsTable
<1>4. \A d \in Places : d[1] \in DOMAIN Ctl
  BY DEF Places, Dimms
<1>. QED
  BY <1>2, <1>3, <1>4 DEF Learnt

LEMMA SameRegisters ==
  ASSUME machine' = machine
  PROVE  /\ Ctl' = Ctl /\ (Knl' <=> Knl) /\ Places' = Places
         /\ \A c : Mode(c)' = Mode(c)
         /\ \A c : Present(c)' = Present(c) /\ (Refused(c)' <=> Refused(c))
         /\ \A d : Told(d)' = Told(d)
<1>1. Ctl' = Ctl /\ (Knl' <=> Knl) /\ (Haswell' <=> Haswell) /\ BankBits' = BankBits
  BY DEF Ctl, Knl, Haswell, BankBits
<1>2. \A d : Mtr(d)' = Mtr(d)
  BY <1>1 DEF Mtr
<1>3. \A c : Dimms(c)' = Dimms(c)
  BY <1>1 DEF Dimms
<1>4. Places' = Places /\ \A c : Present(c)' = Present(c)
  BY <1>1, <1>2, <1>3 DEF Places, Present
<1>5. \A c : Mode(c)' = Mode(c)
  BY <1>1 DEF Mode
<1>6. \A d : SizeOf(Mtr(d))' = SizeOf(Mtr(d))
  BY <1>1, <1>2 DEF SizeOf
<1>7. \A d : Told(d)' = Told(d)
  BY <1>1, <1>6 DEF Told
<1>8. \A c : Refused(c)' <=> Refused(c)
  BY <1>1, <1>4 DEF Refused
<1>. QED
  BY <1>1, <1>4, <1>5, <1>7, <1>8

LEMMA LearntStep == DecodeInv /\ Learnt /\ [Next]_vars => Learnt'
<1>. SUFFICES ASSUME DecodeInv, Learnt, [Next]_vars PROVE Learnt'
  OBVIOUS
<1>1. machine' = machine
  <2>1. CASE Config
    BY <2>1 DEF Config, GetDimmConfig, ConfigFails, AllRegistered
  <2>2. CASE UNCHANGED dimmVars
    BY <2>2 DEF dimmVars
  <2>. QED
    BY <2>1, <2>2 DEF Next, Handle, HandleKnl, vars
<1>2. /\ Ctl' = Ctl /\ Places' = Places /\ \A c : Mode(c)' = Mode(c)
      /\ \A c : Present(c)' = Present(c) /\ (Refused(c)' <=> Refused(c))
      /\ \A d : Told(d)' = Told(d)
  BY <1>1, SameRegisters
<1>3. /\ machine \in Machines /\ at \in Nat /\ IsTable(Ctl) /\ DOMAIN pvt = DOMAIN Ctl
      /\ \A d \in Places : d[1] \in DOMAIN Ctl
  <2>1. machine \in Machines /\ at \in 1 .. Len(Ctl) + 1 /\ DOMAIN pvt = DOMAIN Ctl
    BY DEF DecodeInv, Configured
  <2>2. IsTable(Ctl)
    BY <2>1, MachineFacts
  <2>3. \A d \in Places : d[1] \in DOMAIN Ctl
    BY DEF Places, Dimms
  <2>. QED
    BY <2>1, <2>2, <2>3 DEF IsTable
<1>4. /\ \A c \in DOMAIN Ctl : c < at => pvt[c] = Mode(c) /\ ~Refused(c)
      /\ \A d \in Places : size[d] = IF d[1] < at /\ d \in Present(d[1]) THEN Told(d) ELSE 0
      /\ phase = "live" => at \notin DOMAIN Ctl
  BY DEF Learnt
<1>5. CASE GetDimmConfig
  <2>1. /\ at \in DOMAIN Ctl /\ phase = "config" /\ phase' = phase /\ at' = at + 1 /\ pvt' = [pvt EXCEPT ![at] = Mode(at)]
        /\ size' = [d \in Places |-> IF d \notin Present(at) THEN size[d] ELSE Told(d)]
        /\ ~Refused(at)
    BY <1>5 DEF GetDimmConfig, Told
  <2>2. ASSUME NEW c \in DOMAIN Ctl, c < at' PROVE pvt'[c] = Mode(c) /\ ~Refused(c)
    <3>1. c \in Int
      BY <1>3, TableFacts
    <3>2. c = at \/ c < at
      BY <1>3, <2>1, <2>2, <3>1
    <3>. QED
      BY <1>3, <1>4, <2>1, <3>2
  <2>3. ASSUME NEW d \in Places
        PROVE  size'[d] = IF d[1] < at' /\ d \in Present(d[1]) THEN Told(d) ELSE 0
    <3>1. d[1] \in Int
      BY <1>3, TableFacts
    <3>2. d \in Present(at) => d[1] = at
      BY DEF Present, Dimms
    <3>3. CASE d[1] = at
      <4>1. d[1] < at'
        BY <1>3, <2>1, <3>3
      <4>2. size[d] = 0
        BY <1>3, <1>4, <3>3
      <4>. QED
        BY <2>1, <3>3, <4>1, <4>2
    <3>4. CASE d[1] # at
      <4>1. d[1] < at' <=> d[1] < at
        BY <1>3, <2>1, <3>1, <3>4
      <4>2. size'[d] = size[d]
        BY <2>1, <3>2, <3>4
      <4>. QED
        BY <1>4, <4>1, <4>2
    <3>. QED
      BY <3>3, <3>4
  <2>. QED
    BY <1>2, <2>1, <2>2, <2>3 DEF Learnt
<1>6. CASE ConfigFails \/ AllRegistered \/ UNCHANGED dimmVars
  <2>1. at' = at /\ pvt' = pvt /\ size' = size /\ (phase' = "live" => phase = "live" \/ at \notin DOMAIN Ctl)
    BY <1>6 DEF ConfigFails, AllRegistered, dimmVars
  <2>. QED
    BY <1>2, <1>4, <2>1 DEF Learnt
<1>. QED
  BY <1>5, <1>6 DEF Next, Config, Handle, HandleKnl, vars

LEMMA LearntHolds == Spec => []Learnt
<1>. QED
  BY LearntInit, LearntStep, Invariance, PTL DEF Spec

(* Everything of a live driver is registered.                              *)
LEMMA LiveFacts ==
  ASSUME DecodeInv, Learnt, phase = "live"
  PROVE  \A c \in DOMAIN Ctl : c < at
<1>1. machine \in Machines /\ at \in 1 .. Len(Ctl) + 1 /\ at \notin DOMAIN Ctl
  BY DEF Learnt, DecodeInv, Configured
<1>2. DOMAIN Ctl = 1 .. Len(Ctl) /\ Len(Ctl) \in Nat
  BY <1>1, MachineFacts DEF IsTable
<1>. QED
  BY <1>1, <1>2

(* If the tables of a machine fit each other, and the indices that         *)
(* get_memory_error_data() takes an int for are small enough, the places   *)
(* of all lines of memory are different, and fill the DIMMs of the sizes   *)
(* that get_dimm_config() tells EDAC; and on Knights Landing the sizes of  *)
(* knl_get_dimm_capacity() add up to the memory that is not EDRAM.         *)
THEOREM MemoryMappedHolds == Spec => []MemoryMapped
<1>1. ASSUME DecodeInv, Learnt, phase = "live", Known, ~Knl
      PROVE  OneToOne(Mapped) /\ FillsDimms(Mapped)
  <2>1. Fit /\ machine.ddrio
    BY <1>1 DEF Fit, Known, DecodeInv, Configured
  <2>2. Registered
    BY <1>1, LiveFacts DEF Registered, Learnt
  <2>3. Sized
    <3>1. \A d \in Places : d[1] \in DOMAIN Ctl
      BY DEF Places, Dimms
    <3>. QED
      BY <1>1, <3>1, LiveFacts DEF Sized, Learnt, Told
  <2>. QED
    BY <2>1, <2>2, <2>3, OneToOneOfFit, FillsOfFit
<1>2. ASSUME DecodeInv, Learnt, phase = "live", Knl PROVE KnlTotal
  <2>1. machine \in Machines /\ machine.type = "KNIGHTS_LANDING"
    BY <1>2 DEF DecodeInv, Configured, Knl
  <2>2. ~\E i \in SadRegions(machine) : NonLocal(machine, i)
    <3>1. PICK c \in DOMAIN Ctl : TRUE
      BY <2>1, FirmwareAssumption DEF Ctl
    <3>2. ~Refused(c)
      BY <1>2, <3>1, LiveFacts DEF Learnt
    <3>. QED
      BY <1>2, <3>2 DEF Refused
  <2>3. KnlFit
    BY <1>2, <2>1, <2>2, FirmwareAssumption DEF KnlFit
  <2>4. KnlSized
    <3>1. \A d \in Places : d[1] \in DOMAIN Ctl
      BY DEF Places, Dimms
    <3>2. \A d \in Places : size[d] = IF d \in Present(d[1]) THEN LineMiB * McSize(machine, d[2]) ELSE 0
      BY <1>2, <3>1, LiveFacts DEF Learnt, Told
    <3>. QED
      BY <1>2, <3>2 DEF KnlSized, DecodeInv, Configured
  <2>. QED
    BY <2>3, <2>4, KnlTotalOfFit
<1>3. DecodeInv /\ Learnt => MemoryMapped
  BY <1>1, <1>2 DEF MemoryMapped
<1>. QED
  BY <1>3, Invariance, LearntHolds, PTL
=============================================================================
