-------------------------- MODULE SkxDriverProofs --------------------------
(***************************************************************************)
(* Theorems about the life of the Skylake driver, for every machine: the   *)
(* references it holds on devices, its buffers, what it leaves behind, and *)
(* what its thread finds when it runs.                                     *)
(***************************************************************************)
EXTENDS SkxDriver, SequenceTheorems, FiniteSetTheorems, WellFoundedInduction, TLAPS

(* A non-empty set of numbers has a least one, and Min returns it.         *)
LEMMA LeastExists ==
  ASSUME NEW S \in SUBSET Nat, NEW R,
         R = {ss \in Nat \X Nat : ss[1] < ss[2]},
         \E n \in S : \A k \in S : ~(<<k, n>> \in R)
  PROVE  \E n \in S : \A k \in S : n <= k
<1>1. PICK n \in S : \A k \in S : ~(<<k, n>> \in R)
  OBVIOUS
<1>2. ASSUME NEW k \in S PROVE n <= k
  <2>1. k \in Nat /\ n \in Nat
    OBVIOUS
  <2>2. <<k, n>> \in Nat \X Nat /\ <<k, n>>[1] = k /\ <<k, n>>[2] = n
    BY <2>1
  <2>3. ~(k < n)
    BY <1>1, <2>2, Zenon
  <2>. QED
    BY <2>1, <2>3
<1>. QED
  BY <1>2

LEMMA MinFacts ==
  ASSUME NEW S \in SUBSET Nat, S # {}
  PROVE  Min(S) \in S /\ \A k \in S : Min(S) <= k
<1>1. \E n \in S : \A k \in S : ~(<<k, n>> \in OpToRel(<, Nat))
  BY NatLessThanWellFounded, WFMin
<1>2. OpToRel(<, Nat) = {ss \in Nat \X Nat : ss[1] < ss[2]}
  BY Zenon DEF OpToRel
<1>3. \E n \in S : \A k \in S : n <= k
  BY ONLY <1>1, <1>2, LeastExists, Zenon
<1>. QED
  BY <1>3 DEF Min
-----------------------------------------------------------------------------
(* The table of units.                                                     *)

LEMMA MunitRows ==
  /\ Len(Munits) = 9 /\ DOMAIN Munits = 1 .. 9
  /\ Munits[1].did = "2054" /\ Munits[1].mtype = "SAD_ALL" /\ Munits[1].per_socket = 1
  /\ Munits[2].did = "2055" /\ Munits[2].mtype = "UTIL_ALL" /\ Munits[2].per_socket = 1
  /\ Munits[3].did = "2040" /\ Munits[3].mtype = "CHAN0" /\ Munits[3].per_socket = 2
  /\ Munits[4].did = "2044" /\ Munits[4].mtype = "CHAN1" /\ Munits[4].per_socket = 2
  /\ Munits[5].did = "2048" /\ Munits[5].mtype = "CHAN2" /\ Munits[5].per_socket = 2
  /\ Munits[6].did = "2043" /\ Munits[6].mtype = "ERRCHAN0" /\ Munits[6].per_socket = 2
  /\ Munits[7].did = "2047" /\ Munits[7].mtype = "ERRCHAN1" /\ Munits[7].per_socket = 2
  /\ Munits[8].did = "204b" /\ Munits[8].mtype = "ERRCHAN2" /\ Munits[8].per_socket = 2
  /\ Munits[9].did = "208e" /\ Munits[9].mtype = "SAD" /\ Munits[9].per_socket = 0
<1>0. Len(Munits) = 9 /\ DOMAIN Munits = 1 .. 9
  BY DEF Munits
<1>1. Munits[1].did = "2054" /\ Munits[1].mtype = "SAD_ALL" /\ Munits[1].per_socket = 1
  BY DEF Munits, Munit
<1>2. Munits[2].did = "2055" /\ Munits[2].mtype = "UTIL_ALL" /\ Munits[2].per_socket = 1
  BY DEF Munits, Munit
<1>3. Munits[3].did = "2040" /\ Munits[3].mtype = "CHAN0" /\ Munits[3].per_socket = 2
  BY DEF Munits, Munit
<1>4. Munits[4].did = "2044" /\ Munits[4].mtype = "CHAN1" /\ Munits[4].per_socket = 2
  BY DEF Munits, Munit
<1>5. Munits[5].did = "2048" /\ Munits[5].mtype = "CHAN2" /\ Munits[5].per_socket = 2
  BY DEF Munits, Munit
<1>6. Munits[6].did = "2043" /\ Munits[6].mtype = "ERRCHAN0" /\ Munits[6].per_socket = 2
  BY DEF Munits, Munit
<1>7. Munits[7].did = "2047" /\ Munits[7].mtype = "ERRCHAN1" /\ Munits[7].per_socket = 2
  BY DEF Munits, Munit
<1>8. Munits[8].did = "204b" /\ Munits[8].mtype = "ERRCHAN2" /\ Munits[8].per_socket = 2
  BY DEF Munits, Munit
<1>9. Munits[9].did = "208e" /\ Munits[9].mtype = "SAD" /\ Munits[9].per_socket = 0
  BY DEF Munits, Munit
<1>. QED
  BY <1>0, <1>1, <1>2, <1>3, <1>4, <1>5, <1>6, <1>7, <1>8, <1>9

LEMMA MunitFacts ==
  /\ \A u, v \in DOMAIN Munits :
       Munits[u].did = Munits[v].did \/ Munits[u].mtype = Munits[v].mtype => u = v
  /\ \A u \in DOMAIN Munits :
       /\ Munits[u].mtype \in ErrTypes \cup ChanTypes => Munits[u].per_socket = NumImc
       /\ Munits[u].mtype \in {"SAD_ALL", "UTIL_ALL"} => Munits[u].per_socket # NumImc
       /\ Munits[u].mtype \in ErrTypes \cup ChanTypes \cup {"SAD_ALL", "UTIL_ALL", "SAD"}
<1>1. \A u \in DOMAIN Munits : u \in {1, 2, 3, 4, 5, 6, 7, 8, 9}
  BY MunitRows
<1>. QED
  BY <1>1, MunitRows DEF ErrTypes, ChanTypes, NumImc
-----------------------------------------------------------------------------
(* The inductive invariant.                                                *)

Rows == [bus : {machine[n].buses : n \in Devices},
         slot : [Slots -> Devices \cup {NULL}],
         mcroute : {machine[n].route : n \in Devices} \cup {0},
         mci : SUBSET Nat]

(* The types, but for refs, which may as well be negative: that it is not  *)
(* follows from the counting.                                              *)
ProbeTypes ==
  /\ machine \in Machines
  /\ refs \in [Devices -> Int]
  /\ list \in Seq(Rows)
  /\ unit \in 1 .. Len(Munits) + 1
  /\ ndev \in Nat
  /\ prev \in Devices \cup {NULL}
  /\ mc \in Nat
  /\ nvdimm \in BOOLEAN
  /\ registered \in SUBSET Nat
DriverTypes ==
  /\ pc \in Phases
  /\ adxl \in [count : BOOLEAN, values : Buffer, msg : Buffer]
  /\ debugfs \in BOOLEAN
  /\ task \in Poll!States \cup {"none", "freed"}
  /\ at \in Nat
  /\ should_stop \in BOOLEAN
  /\ abandoned \in BOOLEAN

(* What the place in skx_init() says of its local variables.               *)
Control ==
  /\ pc = "absent" => list = <<>>
  /\ prev # NULL => pc \in {"buses", "units"}
  /\ pc = "buses" => unit = 1
  /\ pc = "units" => unit \in DOMAIN Munits
  /\ pc \in {"buses", "units"} => mc = 0
  /\ pc \in {"units", "register"} => list # <<>>

(* Where a device is found tells its kind, its bus and its address, and    *)
(* that the search is past it.                                             *)
Fits(u, k, s, n) ==
  /\ Munits[u].mtype = s[1]
  /\ machine[n].did = Munits[u].did
  /\ machine[n].bus = list[k].bus[Munits[u].busidx]
  /\ Munits[u].per_socket = NumImc => machine[n].devfn = Munits[u].devfn[s[2]]
Past(u, n) ==
  /\ pc # "buses"
  /\ pc = "units" => u < unit \/ (u = unit /\ n <= prev)
Placed ==
  \A k \in DOMAIN list : \A s \in Slots : \A n \in Devices :
    list[k].slot[s] = n => \E u \in DOMAIN Munits : Fits(u, k, s, n) /\ Past(u, n)

(* A device is in one slot of one socket at most.                          *)
Unique ==
  \A k, l \in DOMAIN list : \A s, t \in Slots :
    list[k].slot[s] = list[l].slot[t] /\ list[k].slot[s] # NULL => k = l /\ s = t

(* The buffers are new until skx_adxl_get(), what it made of them until    *)
(* skx_adxl_put(), and freed once behind.                                  *)
Buffers ==
  /\ pc \in {"buses", "units", "register", "adxl"} => adxl = NoAdxl
  /\ pc \in {"debug", "start", "live", "stopping", "teardown", "hung", "adxl_put"} =>
       adxl \in AdxlOutcomes
  /\ FreedOnce

(* Controllers, file and thread are where the module can take them away,   *)
(* or a load was abandoned and keeps the first controller's number.        *)
Kept ==
  /\ \A i \in registered : \E k \in DOMAIN list : i \in list[k].mci
  /\ debugfs => pc \in {"start", "live", "stopping", "teardown", "hung"}
  /\ pc = "register" => 0 .. (mc - 1) \subseteq registered
  /\ pc \in {"adxl", "debug", "start"} => 0 \in registered
Lost ==
  /\ 0 \in registered
  /\ \A k \in DOMAIN list : 0 \notin list[k].mci
  /\ pc \in {"absent", "buses", "units", "register", "remove"}
  /\ pc = "register" => mc = 0
KeptOrLost ==
  /\ IF abandoned THEN Lost ELSE Kept
  /\ task \in Poll!Alive => pc \in {"live", "stopping"}

DeviceInv == ProbeTypes /\ DriverTypes /\ Control /\ Placed /\ Unique /\ RefsExact
DriverInv == DeviceInv /\ Buffers /\ KeptOrLost

-----------------------------------------------------------------------------
(* The machine, the search and the list.                                   *)

LEMMA MachineFacts ==
  ASSUME machine \in Machines
  PROVE  /\ Devices \in SUBSET Nat /\ NULL \notin Devices
         /\ \A a, b \in Devices : \A u \in DOMAIN Munits :
              /\ Munits[u].mtype # "SAD"
              /\ machine[a].did = Munits[u].did /\ machine[b].did = Munits[u].did
              /\ machine[a].bus = machine[b].bus
              /\ Munits[u].per_socket = NumImc => machine[a].devfn = machine[b].devfn
              => a = b
<1>1. Len(machine) \in Nat /\ DOMAIN machine = 1 .. Len(machine)
  BY MachinesAssumption
<1>2. Devices \in SUBSET Nat /\ NULL \notin Devices
  BY <1>1 DEF Devices, NULL
<1>3. \A a, b \in DOMAIN machine : \A u \in DOMAIN Munits :
        /\ Munits[u].mtype # "SAD"
        /\ machine[a].did = Munits[u].did /\ machine[b].did = Munits[u].did
        /\ machine[a].bus = machine[b].bus
        /\ Munits[u].per_socket = NumImc => machine[a].devfn = machine[b].devfn
        => a = b
  BY MachinesAssumption, Zenon
<1>. QED
  BY <1>2, <1>3 DEF Devices

(* What a search returns is the next device behind the one it goes on from.*)
LEMMA SearchFacts ==
  ASSUME machine \in Machines, NEW did, NEW from, Search(did, from) # NULL
  PROVE  /\ Search(did, from) \in Devices
         /\ Search(did, from) > from
         /\ machine[Search(did, from)].did = did
         /\ \A n \in Devices : n > from /\ machine[n].did = did => Search(did, from) <= n
<1>. DEFINE found == {n \in Devices : n > from /\ machine[n].did = did}
<1>1. found # {} /\ Search(did, from) = Min(found)
  BY DEF Search
<1>2. found \in SUBSET Nat
  BY MachineFacts
<1>3. Min(found) \in found /\ \A n \in found : Min(found) <= n
  BY <1>1, <1>2, MinFacts
<1>. QED
  BY <1>1, <1>3

LEMMA ListFacts ==
  ASSUME ProbeTypes
  PROVE  /\ Len(list) \in Nat /\ DOMAIN list = 1 .. Len(list)
         /\ \A k \in DOMAIN list :
              /\ list[k] \in Rows
              /\ list[k].slot \in [Slots -> Devices \cup {NULL}]
              /\ list[k].mci \in SUBSET Nat
<1>1. list \in Seq(Rows)
  BY DEF ProbeTypes
<1>2. Len(list) \in Nat /\ DOMAIN list = 1 .. Len(list) /\ list \in [1 .. Len(list) -> Rows]
  BY <1>1, LenProperties
<1>3. \A r \in Rows : r.slot \in [Slots -> Devices \cup {NULL}] /\ r.mci \in SUBSET Nat
  BY DEF Rows
<1>. QED
  BY <1>2, <1>3

(* The socket a device is given to is one that has its bus.                *)
LEMMA SkxDevFacts ==
  ASSUME ProbeTypes, NEW n, SkxDev(n) # NULL
  PROVE  SkxDev(n) \in DOMAIN list /\ list[SkxDev(n)].bus[Unit.busidx] = machine[n].bus
<1>. DEFINE own == {k \in DOMAIN list : list[k].bus[Unit.busidx] = machine[n].bus}
<1>1. own # {} /\ SkxDev(n) = Min(own)
  BY DEF SkxDev
<1>2. own \in SUBSET Nat
  BY ListFacts
<1>3. Min(own) \in own
  BY <1>1, <1>2, MinFacts
<1>. QED
  BY <1>1, <1>3

LEMMA SlotFacts ==
  ASSUME NEW n, unit \in DOMAIN Munits, Unit.mtype # "SAD", ImcOf(n) # {}
  PROVE  /\ SlotOf(n) \in Slots
         /\ SlotOf(n)[1] = Unit.mtype
         /\ Unit.per_socket = NumImc => machine[n].devfn = Unit.devfn[SlotOf(n)[2]]
<1>. DEFINE i == CHOOSE x \in ImcOf(n) : TRUE
<1>1. i \in ImcOf(n)
  OBVIOUS
<1>2. SlotOf(n) = <<Unit.mtype, i>> /\ SlotOf(n)[1] = Unit.mtype /\ SlotOf(n)[2] = i
  BY DEF SlotOf
<1>. HIDE DEF i
<1>3. CASE Unit.per_socket = NumImc
  <2>1. i \in Imcs /\ Unit.devfn[i] = machine[n].devfn
    BY <1>1, <1>3 DEF ImcOf
  <2>2. Unit.mtype \in ChanTypes \cup ErrTypes
    BY <1>3, MunitFacts DEF Unit
  <2>. QED
    BY <1>2, <2>1, <2>2 DEF Slots
<1>4. CASE Unit.per_socket # NumImc
  <2>1. i = 0
    BY <1>1, <1>4 DEF ImcOf
  <2>2. Unit.mtype \in {"SAD_ALL", "UTIL_ALL"}
    BY <1>4, MunitFacts DEF Unit
  <2>. QED
    BY <1>2, <1>4, <2>1, <2>2 DEF Slots, SocketSlots
<1>. QED
  BY <1>3, <1>4

-----------------------------------------------------------------------------
(* What the steps that touch the list make of it.                          *)

(* The slots, the buses and the number of the sockets are what they were.  *)
SameSlots ==
  /\ DOMAIN list' = DOMAIN list
  /\ \A k \in DOMAIN list : list'[k].slot = list[k].slot /\ list'[k].bus = list[k].bus

LEMMA AppendEffect ==
  ASSUME ProbeTypes, BusMapped
  PROVE  /\ list' \in Seq(Rows)
         /\ Decs \in Devices /\ Decs > prev
         /\ DOMAIN list' = 1 .. Len(list) + 1
         /\ \A k \in DOMAIN list : list'[k] = list[k]
         /\ list'[Len(list) + 1].slot = [s \in Slots |-> NULL]
         /\ list'[Len(list) + 1].mcroute = 0
         /\ list'[Len(list) + 1].mci = {}
<1>1. Decs \in Devices /\ Decs > prev
  BY SearchFacts DEF BusMapped, Decs, ProbeTypes
<1>. DEFINE r == Socket(machine[Decs].buses)
<1>2. r \in Rows /\ r.slot = [s \in Slots |-> NULL] /\ r.mcroute = 0 /\ r.mci = {}
  BY <1>1 DEF Rows, Socket
<1>. HIDE DEF r
<1>3. list \in Seq(Rows) /\ list' = Append(list, r)
  BY DEF BusMapped, ProbeTypes, r
<1>4. /\ list' \in Seq(Rows) /\ Len(list') = Len(list) + 1
      /\ \A k \in 1 .. Len(list) : list'[k] = list[k]
      /\ list'[Len(list) + 1] = r
  BY <1>2, <1>3, AppendProperties
<1>5. DOMAIN list' = 1 .. Len(list) + 1
  BY <1>4, LenProperties
<1>. QED
  BY <1>1, <1>2, <1>4, <1>5, ListFacts

LEMMA StoreEffect ==
  ASSUME ProbeTypes, Control, Placed, UnitStored,
         NEW f, NEW h, NEW s, f = Found, h = SkxDev(Found), s = SlotOf(Found)
  PROVE  /\ f \in Devices /\ f > prev
         /\ h \in DOMAIN list /\ s \in Slots
         /\ Fits(unit, h, s, f)
         /\ list' \in Seq(Rows) /\ DOMAIN list' = DOMAIN list
         /\ \A k \in DOMAIN list : /\ list'[k].bus = list[k].bus /\ list'[k].mci = list[k].mci
                                   /\ list'[k].mcroute = list[k].mcroute
                                   /\ \A t \in Slots :
                                        list'[k].slot[t] = IF k = h /\ t = s THEN f ELSE list[k].slot[t]
         /\ \A k \in DOMAIN list : \A t \in Slots : list[k].slot[t] # f
         /\ list[h].slot[s] = NULL
<1>1. pc = "units" /\ unit \in DOMAIN Munits /\ Unit.mtype # "SAD"
  BY DEF UnitStored, Control
<1>2. f \in Devices /\ f > prev /\ machine[f].did = Unit.did
  BY SearchFacts DEF UnitStored, Found, ProbeTypes
<1>3. h \in DOMAIN list /\ list[h].bus[Unit.busidx] = machine[f].bus
  BY SkxDevFacts DEF UnitStored, Settled
<1>4. /\ s \in Slots /\ s[1] = Unit.mtype
      /\ Unit.per_socket = NumImc => machine[f].devfn = Unit.devfn[s[2]]
  BY <1>1, SlotFacts DEF UnitStored, Settled
<1>5. Fits(unit, h, s, f)
  BY <1>2, <1>3, <1>4 DEF Fits, Unit
<1>6. /\ list' \in Seq(Rows) /\ DOMAIN list' = DOMAIN list
      /\ \A k \in DOMAIN list : /\ list'[k].bus = list[k].bus /\ list'[k].mci = list[k].mci
                                /\ list'[k].mcroute = list[k].mcroute
                                /\ \A t \in Slots :
                                     list'[k].slot[t] = IF k = h /\ t = s THEN f ELSE list[k].slot[t]
  <2>. DEFINE r == [list[h] EXCEPT !.slot = [list[h].slot EXCEPT ![s] = f]]
  <2>1. list[h] \in Rows /\ list[h].slot \in [Slots -> Devices \cup {NULL}]
    BY <1>3, ListFacts
  <2>2. [list[h].slot EXCEPT ![s] = f] \in [Slots -> Devices \cup {NULL}]
    BY <1>2, <1>4, <2>1
  <2>3. /\ r \in Rows /\ r.bus = list[h].bus /\ r.mci = list[h].mci
        /\ r.mcroute = list[h].mcroute
        /\ \A t \in Slots : r.slot[t] = IF t = s THEN f ELSE list[h].slot[t]
    BY <2>1, <2>2, <1>4 DEF Rows
  <2>4. list' = [list EXCEPT ![h] = r]
    BY <1>3, <1>4 DEF UnitStored
  <2>. HIDE DEF r
  <2>5. list \in Seq(Rows) /\ h \in 1 .. Len(list)
    BY <1>3, ListFacts DEF ProbeTypes
  <2>6. /\ list' \in Seq(Rows) /\ Len(list') = Len(list)
        /\ \A k \in 1 .. Len(list) : list'[k] = IF k = h THEN r ELSE list[k]
    BY <2>3, <2>4, <2>5, ExceptSeq
  <2>7. DOMAIN list' = 1 .. Len(list')
    BY <2>6, LenProperties
  <2>. QED
    BY <2>3, <2>6, <2>7, ListFacts
<1>7. ASSUME NEW k \in DOMAIN list, NEW t \in Slots, NEW n \in Devices, list[k].slot[t] = n
      PROVE  /\ machine[n].did = Unit.did => n <= prev
             /\ t[1] = Unit.mtype => Fits(unit, k, t, n) /\ n <= prev
  <2>1. PICK u \in DOMAIN Munits : Fits(u, k, t, n) /\ Past(u, n)
    BY <1>7 DEF Placed
  <2>2. machine[n].did = Munits[u].did /\ t[1] = Munits[u].mtype
    BY <2>1 DEF Fits
  <2>3. machine[n].did = Unit.did \/ t[1] = Unit.mtype => u = unit
    BY <1>1, <2>2, MunitFacts DEF Unit
  <2>4. u = unit => n <= prev
    BY <1>1, <2>1, MunitRows DEF Past
  <2>. QED
    BY <2>1, <2>3, <2>4
<1>8. \A k \in DOMAIN list : \A t \in Slots : list[k].slot[t] # f
  <2>1. \A x \in Nat \cup {NULL} : f > x => ~(f <= x)
    BY <1>2, MachineFacts DEF ProbeTypes, NULL
  <2>2. prev \in Nat \cup {NULL}
    BY MachineFacts DEF ProbeTypes
  <2>. QED
    BY <1>2, <1>7, <2>1, <2>2
<1>9. list[h].slot[s] = NULL
  <2>1. SUFFICES ASSUME list[h].slot[s] # NULL PROVE FALSE
    OBVIOUS
  <2>2. list[h].slot[s] \in Devices
    BY <1>3, <1>4, <2>1, ListFacts
  <2>. DEFINE n == list[h].slot[s]
  <2>3. Fits(unit, h, s, n)
    BY <1>3, <1>4, <1>7, <2>2
  <2>4. /\ machine[n].did = Munits[unit].did /\ machine[f].did = Munits[unit].did
        /\ machine[n].bus = machine[f].bus
        /\ Munits[unit].per_socket = NumImc => machine[n].devfn = machine[f].devfn
    BY <1>5, <2>3 DEF Fits
  <2>5. n = f
    BY <1>1, <1>2, <2>2, <2>4, MachineFacts DEF ProbeTypes, Unit
  <2>. QED
    BY <1>3, <1>4, <1>8, <2>5
<1>. QED
  BY <1>2, <1>3, <1>4, <1>5, <1>6, <1>8, <1>9

LEMMA RouteEffect ==
  ASSUME ProbeTypes, UnitRoute
  PROVE  /\ Found \in Devices /\ Found > prev
         /\ list' \in Seq(Rows) /\ SameSlots
         /\ \A k \in DOMAIN list : list'[k].mci = list[k].mci
         /\ SkxDev(Found) \in DOMAIN list
         /\ list[SkxDev(Found)].bus[Unit.busidx] = machine[Found].bus
         /\ \A k \in DOMAIN list :
              list'[k].mcroute = IF k = SkxDev(Found) /\ Route(Found) # 0
                                   THEN Route(Found) ELSE list[k].mcroute
<1>1. Found \in Devices /\ Found > prev
  BY SearchFacts DEF UnitRoute, Found, ProbeTypes
<1>. DEFINE h == SkxDev(Found)
            v == IF Route(Found) = 0 THEN list[h].mcroute ELSE Route(Found)
            r == [list[h] EXCEPT !.mcroute = v]
<1>2. h \in DOMAIN list /\ list[h] \in Rows /\ list[h].bus[Unit.busidx] = machine[Found].bus
  BY SkxDevFacts, ListFacts DEF UnitRoute, Settled
<1>3. v \in {machine[n].route : n \in Devices} \cup {0}
  BY <1>1, <1>2 DEF Rows, Route
<1>4. /\ r \in Rows /\ r.bus = list[h].bus /\ r.mci = list[h].mci /\ r.slot = list[h].slot
      /\ r.mcroute = v
  BY <1>2, <1>3 DEF Rows
<1>5. list' = [list EXCEPT ![h] = r]
  BY <1>2 DEF UnitRoute
<1>. HIDE DEF r
<1>6. list \in Seq(Rows) /\ h \in 1 .. Len(list)
  BY <1>2, ListFacts DEF ProbeTypes
<1>7. /\ list' \in Seq(Rows) /\ Len(list') = Len(list)
      /\ \A k \in 1 .. Len(list) : list'[k] = IF k = h THEN r ELSE list[k]
  BY <1>4, <1>5, <1>6, ExceptSeq
<1>8. DOMAIN list' = 1 .. Len(list')
  BY <1>7, LenProperties
<1>9. \A k \in DOMAIN list :
        list'[k].mcroute = IF k = h /\ Route(Found) # 0 THEN Route(Found) ELSE list[k].mcroute
  BY <1>2, <1>4, <1>7, ListFacts
<1>. QED
  BY <1>1, <1>2, <1>4, <1>7, <1>8, <1>9, ListFacts DEF SameSlots

LEMMA RegisterEffect ==
  ASSUME ProbeTypes, RegisterOK
  PROVE  /\ list' \in Seq(Rows) /\ SameSlots
         /\ SocketOfMc \in DOMAIN list
         /\ \A k \in DOMAIN list : list'[k].mcroute = list[k].mcroute
         /\ \A k \in DOMAIN list :
              list'[k].mci = IF k = SocketOfMc THEN list[k].mci \cup {mc} ELSE list[k].mci
<1>. DEFINE h == SocketOfMc
            r == [list[h] EXCEPT !.mci = list[h].mci \cup {mc}]
<1>1. mc \in Nat /\ mc \div NumImc \in Nat
  <2>1. \A x \in Nat : x \div 2 \in Nat
    OBVIOUS
  <2>. QED
    BY <2>1 DEF ProbeTypes, NumImc
<1>2. h \in DOMAIN list /\ list[h] \in Rows
  BY <1>1, ListFacts DEF RegisterOK, SocketOfMc
<1>3. /\ r \in Rows /\ r.bus = list[h].bus /\ r.slot = list[h].slot /\ r.mcroute = list[h].mcroute
      /\ r.mci = list[h].mci \cup {mc}
  BY <1>1, <1>2 DEF Rows
<1>4. list' = [list EXCEPT ![h] = r]
  BY <1>2 DEF RegisterOK
<1>. HIDE DEF r, h
<1>5. list \in Seq(Rows) /\ h \in 1 .. Len(list)
  BY <1>2, ListFacts DEF ProbeTypes
<1>6. /\ list' \in Seq(Rows) /\ Len(list') = Len(list)
      /\ \A k \in 1 .. Len(list) : list'[k] = IF k = h THEN r ELSE list[k]
  BY <1>3, <1>4, <1>5, ExceptSeq
<1>7. DOMAIN list' = 1 .. Len(list')
  BY <1>6, LenProperties
<1>8. \A k \in DOMAIN list :
        /\ list'[k].slot = list[k].slot /\ list'[k].bus = list[k].bus
        /\ list'[k].mcroute = list[k].mcroute
        /\ list'[k].mci = IF k = h THEN list[k].mci \cup {mc} ELSE list[k].mci
  BY <1>3, <1>6, ListFacts
<1>. QED
  BY <1>2, <1>6, <1>7, <1>8, ListFacts DEF SameSlots, h

LEMMA RemoveEffect ==
  ASSUME ProbeTypes, RemoveSocket
  PROVE  /\ list' \in Seq(Rows)
         /\ 1 \in DOMAIN list /\ Head(list) = list[1]
         /\ \A k \in DOMAIN list' : k + 1 \in DOMAIN list /\ list'[k] = list[k + 1]
         /\ \A k \in DOMAIN list : k # 1 => k - 1 \in DOMAIN list'
<1>1. list \in Seq(Rows) /\ list # <<>> /\ list' = Tail(list)
  BY DEF ProbeTypes, RemoveSocket
<1>2. /\ list' \in Seq(Rows) /\ Len(list') = Len(list) - 1
      /\ \A i \in 1 .. Len(list') : list'[i] = list[i + 1]
  BY <1>1, HeadTailProperties
<1>3. DOMAIN list' = 1 .. Len(list')
  BY <1>2, LenProperties
<1>4. Len(list) \in Nat \ {0}
  BY <1>1, EmptySeq
<1>5. Head(list) = list[1]
  BY <1>1
<1>. QED
  BY <1>2, <1>3, <1>4, <1>5, ListFacts

-----------------------------------------------------------------------------
(* Types and control.                                                      *)

LEMMA GetPutFacts ==
  ASSUME NEW r \in [Devices -> Int], NEW n \in Devices \cup {NULL}, NULL \notin Devices
  PROVE  /\ Get(r, n) \in [Devices -> Int] /\ Put(r, n) \in [Devices -> Int]
         /\ \A x \in Devices : Get(r, n)[x] = r[x] + One(n = x)
         /\ \A x \in Devices : Put(r, n)[x] = r[x] - One(n = x)
BY DEF Get, Put, One

LEMMA SameMachine ==
  ASSUME machine' = machine
  PROVE  Devices' = Devices /\ Rows' = Rows
BY DEF Devices, Rows

LEMMA TypesInit == Init => ProbeTypes /\ DriverTypes /\ Control
<1>. SUFFICES ASSUME Init PROVE ProbeTypes /\ DriverTypes /\ Control
  OBVIOUS
<1>1. ProbeTypes
  <2>1. list = <<>> /\ <<>> \in Seq(Rows)
    BY EmptySeq DEF Init, ProbeInit
  <2>2. refs \in [Devices -> Int]
    BY DEF Init, ProbeInit, Devices
  <2>3. /\ machine \in Machines /\ unit = 1 /\ ndev = 0 /\ prev = NULL /\ mc = 0
        /\ nvdimm = FALSE /\ registered = {}
    BY DEF Init, ProbeInit
  <2>. QED
    <3>1. unit \in 1 .. Len(Munits) + 1
      BY <2>3, MunitRows
    <3>. QED
      BY <2>1, <2>2, <2>3, <3>1 DEF ProbeTypes
<1>2. DriverTypes
  BY DEF Init, DriverTypes, Phases, NoAdxl, Buffer, ProbeInit
<1>3. Control
  BY DEF Init, ProbeInit, Control
<1>. QED
  BY <1>1, <1>2, <1>3

(* A step of the search leaves the search's variables well typed.          *)
LEMMA ProbeStepTypes ==
  ASSUME ProbeTypes, Control, Placed, Probe \/ Remove
  PROVE  ProbeTypes' /\ Control' /\ pc' \in Phases
<1>1. machine' = machine /\ machine \in Machines
  BY DEF Probe, Remove, ProbeTypes, BusMapped, BusFails, BusesDone, UnitStored, UnitRoute,
         UnitFails, UnitDone, RegisterOK, RegisterFails, RegisterDone, RemoveSocket, Removed
<1>2. NULL \notin Devices /\ refs \in [Devices -> Int] /\ prev \in Devices \cup {NULL}
  BY MachineFacts DEF ProbeTypes
<1>3. Put(refs, prev) \in [Devices -> Int]
  BY <1>2, GetPutFacts
<1>4. Devices' = Devices /\ Rows' = Rows
  BY <1>1, SameMachine
<1>5. CASE BusMapped
  <2>1. /\ list' \in Seq(Rows) /\ Decs \in Devices
    BY <1>5, AppendEffect
  <2>2. refs' \in [Devices -> Int]
    BY <1>2, <1>3, <1>5, <2>1, GetPutFacts DEF BusMapped
  <2>. QED
    BY <1>1, <1>4, <1>5, <2>1, <2>2 DEF BusMapped, ProbeTypes, Control, Phases
<1>6. CASE BusFails
  BY <1>1, <1>3, <1>4, <1>6 DEF BusFails, ProbeTypes, Control, Phases
<1>7. CASE BusesDone
  BY <1>1, <1>3, <1>4, <1>7, MunitRows DEF BusesDone, ProbeTypes, Control, Phases
<1>8. CASE UnitStored
  <2>1. list' \in Seq(Rows) /\ DOMAIN list' = DOMAIN list /\ Found \in Devices
    BY <1>8, StoreEffect, Zenon
  <2>2. refs' \in [Devices -> Int]
    BY <1>2, <1>3, <1>8, <2>1, GetPutFacts DEF UnitStored
  <2>3. list # <<>> => list' # <<>>
    BY <2>1, ListFacts, EmptySeq
  <2>. QED
    BY <1>1, <1>4, <1>8, <2>1, <2>2, <2>3 DEF UnitStored, ProbeTypes, Control, Phases
<1>9. CASE UnitRoute
  <2>1. list' \in Seq(Rows) /\ DOMAIN list' = DOMAIN list /\ Found \in Devices
    BY <1>9, RouteEffect DEF SameSlots
  <2>2. refs' \in [Devices -> Int]
    BY <1>2, <1>3, <1>9, <2>1, GetPutFacts DEF UnitRoute
  <2>3. list # <<>> => list' # <<>>
    BY <2>1, ListFacts, EmptySeq
  <2>. QED
    BY <1>1, <1>4, <1>9, <2>1, <2>2, <2>3 DEF UnitRoute, ProbeTypes, Control, Phases
<1>10. CASE UnitFails
  BY <1>1, <1>3, <1>4, <1>10 DEF UnitFails, ProbeTypes, Control, Phases
<1>11. CASE UnitDone
  <2>1. unit \in 1 .. 9 /\ unit' \in {unit, unit + 1} /\ (unit' \in 1 .. 9 \/ unit' = 10)
    BY <1>11, MunitRows DEF UnitDone, Control
  <2>2. /\ refs' \in [Devices -> Int] /\ list' = list /\ prev' = NULL /\ ndev' = 0
        /\ mc' = mc /\ nvdimm' = nvdimm /\ registered' = registered
    BY <1>3, <1>11 DEF UnitDone
  <2>3. ProbeTypes'
    BY <1>1, <1>4, <2>1, <2>2, MunitRows DEF ProbeTypes
  <2>4. pc = "units" /\ pc' \in {"remove", "register", "units"}
        /\ (pc' = "units" => unit' \in 1 .. 9)
    BY <1>11, <2>1, MunitRows DEF UnitDone
  <2>. QED
    BY <2>2, <2>3, <2>4, MunitRows DEF Control, Phases
<1>12. CASE RegisterOK
  <2>1. list' \in Seq(Rows) /\ DOMAIN list' = DOMAIN list
    BY <1>12, RegisterEffect DEF SameSlots
  <2>2. list # <<>> => list' # <<>>
    BY <2>1, ListFacts, EmptySeq
  <2>. QED
    BY <1>1, <1>4, <1>12, <2>1, <2>2 DEF RegisterOK, ProbeTypes, Control, Phases
<1>13. CASE RegisterFails
  BY <1>1, <1>4, <1>13 DEF RegisterFails, ProbeTypes, Control, Phases
<1>14. CASE RegisterDone
  BY <1>1, <1>4, <1>14 DEF RegisterDone, ProbeTypes, Control, Phases
<1>15. CASE RemoveSocket
  <2>1. refs' \in [Devices -> Int]
    BY <1>15, <1>2 DEF RemoveSocket, PutSocket
  <2>. QED
    BY <1>1, <1>4, <1>15, <2>1, RemoveEffect DEF RemoveSocket, ProbeTypes, Control, Phases
<1>16. CASE Removed
  BY <1>1, <1>4, <1>16 DEF Removed, ProbeTypes, Control, Phases
<1>. QED
  BY <1>5, <1>6, <1>7, <1>8, <1>9, <1>10, <1>11, <1>12, <1>13, <1>14, <1>15, <1>16
     DEF Probe, Remove

(* The other steps leave the machine and the devices alone; but for a      *)
(* start that fails, they leave the list too.                              *)
OtherStep ==
  FreshLoad \/ AdxlGet \/ SetupDebug \/ StartThread \/ ThreadStep \/ Reap \/ Exit \/ ExitFreed
    \/ Stopped \/ Teardown \/ AdxlPut

LEMMA NextCases ==
  ASSUME [Next]_vars
  PROVE  \/ (Probe \/ Remove) /\ UNCHANGED driverVars
         \/ OtherStep \/ StartFails \/ UNCHANGED vars
BY DEF Next, InitGoesOn, ExitGoesOn, ProbeStep, RemoveStep, OtherStep

LEMMA OtherFrame ==
  ASSUME OtherStep, Control
  PROVE  /\ UNCHANGED <<machine, refs, list, prev, nvdimm, registered, abandoned>>
         /\ \/ pc' = "buses" /\ list = <<>>
            \/ UNCHANGED <<pc, unit, mc>>
            \/ pc' \in {"debug", "start", "live", "stopping", "teardown", "hung", "adxl_put", "remove"}
BY DEF OtherStep, FreshLoad, Load, AdxlGet, SetupDebug, StartThread, ThreadStep, Reap, Exit,
       ExitFreed, Stopped, Teardown, AdxlPut, Moves, probeVars, driverVars, Control

LEMMA TypesStep ==
  ASSUME ProbeTypes, DriverTypes, Control, Placed, [Next]_vars
  PROVE  ProbeTypes' /\ DriverTypes' /\ Control'
<1>1. CASE (Probe \/ Remove) /\ UNCHANGED driverVars
  BY <1>1, ProbeStepTypes DEF DriverTypes, driverVars, thread
<1>2. CASE OtherStep
  <2>1. machine' = machine /\ Devices' = Devices /\ Rows' = Rows
    BY <1>2, OtherFrame, SameMachine
  <2>2. CASE FreshLoad
    <3>1. ProbeTypes'
      BY <2>1, <2>2, MunitRows DEF FreshLoad, Load, ProbeTypes
    <3>2. Control'
      BY <2>2 DEF FreshLoad, Load, Control
    <3>3. DriverTypes'
      BY <2>2 DEF FreshLoad, Load, DriverTypes, NoAdxl, Buffer, Phases, thread
    <3>. QED
      BY <3>1, <3>2, <3>3
  <2>3. CASE ~FreshLoad
    <3>1. UNCHANGED <<machine, refs, list, unit, ndev, prev, mc, nvdimm, registered>>
      BY <1>2, <2>3 DEF OtherStep, AdxlGet, SetupDebug, StartThread, ThreadStep, Reap, Exit,
           ExitFreed, Stopped, Teardown, AdxlPut, Moves, probeVars, driverVars
    <3>2. ProbeTypes'
      BY <2>1, <3>1 DEF ProbeTypes
    <3>3. \/ pc' = pc
          \/ /\ pc' \in {"debug", "start", "live", "stopping", "teardown", "hung", "adxl_put", "remove"}
             /\ pc \notin {"buses", "units"}
      BY <1>2, <2>3 DEF OtherStep, AdxlGet, SetupDebug, StartThread, ThreadStep, Reap, Exit,
           ExitFreed, Stopped, Teardown, AdxlPut, Moves, probeVars, driverVars
    <3>4. Control'
      BY <3>1, <3>3 DEF Control
    <3>5. DriverTypes'
      <4>1. pc' \in Phases
        BY <3>3 DEF DriverTypes, Phases
      <4>2. adxl' \in [count : BOOLEAN, values : Buffer, msg : Buffer]
        <5>1. AdxlOutcomes \subseteq [count : BOOLEAN, values : Buffer, msg : Buffer]
          BY DEF AdxlOutcomes, NoAdxl, Buffer
        <5>2. \A b : Freed(b) \in Buffer
          BY DEF Freed, Buffer
        <5>3. CASE AdxlPut
          BY <5>2, <5>3 DEF AdxlPut, DriverTypes
        <5>4. CASE ~AdxlPut
          BY <1>2, <2>3, <5>1, <5>4 DEF OtherStep, AdxlGet, SetupDebug, StartThread, ThreadStep,
               Reap, Exit, ExitFreed, Stopped, Teardown, DriverTypes, driverVars
        <5>. QED
          BY <5>3, <5>4
      <4>3. debugfs' \in BOOLEAN /\ should_stop' \in BOOLEAN /\ abandoned' \in BOOLEAN
        BY <1>2, <2>3 DEF OtherStep, AdxlGet, SetupDebug, StartThread, ThreadStep, Reap, Exit,
             ExitFreed, Stopped, Teardown, AdxlPut, DriverTypes, driverVars, thread
      <4>4. task' \in Poll!States \cup {"none", "freed"} /\ at' \in Nat
        <5>1. CASE ThreadStep
          <6>1. task' \in Poll!States /\ (at' \in Nat \/ at' = at \/ at' = at + 1)
            BY <5>1 DEF ThreadStep, Poll!Step, Poll!Begin, Poll!Check, Poll!Visit, Poll!Fail,
                 Poll!Wake, Poll!Return, Poll!Walk, Poll!States, Poll!Alive
          <6>. QED
            BY <6>1 DEF DriverTypes
        <5>2. CASE ~ThreadStep
          BY <1>2, <2>3, <5>2 DEF OtherStep, AdxlGet, SetupDebug, StartThread, Reap, Exit,
               ExitFreed, Stopped, Teardown, AdxlPut, DriverTypes, driverVars, thread,
               Poll!States, Poll!Alive
        <5>. QED
          BY <5>1, <5>2
      <4>. QED
        BY <4>1, <4>2, <4>3, <4>4 DEF DriverTypes
    <3>. QED
      BY <3>2, <3>4, <3>5
  <2>. QED
    BY <2>2, <2>3
<1>3. CASE StartFails
  <2>1. Devices' = Devices /\ Rows' = Rows
    BY <1>3, SameMachine DEF StartFails
  <2>2. list' \in Seq(Rows)
    BY <1>3, EmptySeq DEF StartFails
  <2>3. ProbeTypes'
    BY <1>3, <2>1, <2>2 DEF StartFails, ProbeTypes
  <2>4. Control'
    BY <1>3 DEF StartFails, Control
  <2>5. DriverTypes'
    BY <1>3 DEF StartFails, DriverTypes, NoAdxl, Buffer, Phases, thread
  <2>. QED
    BY <2>3, <2>4, <2>5
<1>4. CASE UNCHANGED vars
  <2>1. Devices' = Devices /\ Rows' = Rows
    BY <1>4, SameMachine DEF vars, probeVars
  <2>. QED
    BY <1>4, <2>1 DEF vars, probeVars, driverVars, thread, ProbeTypes, DriverTypes, Control
<1>. QED
  BY <1>1, <1>2, <1>3, <1>4, NextCases

-----------------------------------------------------------------------------
(* Where the devices are.                                                  *)

(* A step that leaves the slots and the buses alone, and whose search does *)
(* not fall behind a device that was kept.                                 *)
LEMMA PlacedSame ==
  ASSUME ProbeTypes, Placed, machine' = machine, SameSlots,
         ASSUME NEW u \in DOMAIN Munits, NEW n \in Devices, Past(u, n) PROVE Past(u, n)'
  PROVE  Placed'
<1>1. Devices' = Devices
  BY SameMachine
<1>. SUFFICES ASSUME NEW k \in DOMAIN list, NEW s \in Slots, NEW n \in Devices,
                     list'[k].slot[s] = n
              PROVE  \E u \in DOMAIN Munits : Fits(u, k, s, n)' /\ Past(u, n)'
  BY <1>1 DEF Placed, SameSlots
<1>2. list[k].slot[s] = n
  BY DEF SameSlots
<1>3. PICK u \in DOMAIN Munits : Fits(u, k, s, n) /\ Past(u, n)
  BY <1>2 DEF Placed
<1>4. Fits(u, k, s, n)'
  BY <1>3 DEF Fits, SameSlots
<1>5. Past(u, n)'
  BY <1>3
<1>. QED
  BY <1>4, <1>5

LEMMA UniqueSame ==
  ASSUME Unique, SameSlots
  PROVE  Unique'
BY DEF Unique, SameSlots

(* With no socket there is nothing to be at a wrong place.                 *)
LEMMA NoSockets ==
  ASSUME list' = <<>>
  PROVE  Placed' /\ Unique'
<1>1. DOMAIN list' = {}
  OBVIOUS
<1>. QED
  BY <1>1 DEF Placed, Unique

LEMMA PlacedStep ==
  ASSUME ProbeTypes, Control, Placed, Unique, [Next]_vars
  PROVE  Placed' /\ Unique'
<1>1. NULL \notin Devices /\ Devices \in SUBSET Nat
  BY MachineFacts DEF ProbeTypes
<1>2. ASSUME NEW u \in DOMAIN Munits, NEW n \in Devices, Past(u, n),
             machine' = machine, SameSlots, pc' \notin {"buses", "units"}
      PROVE  Past(u, n)'
  BY <1>2 DEF Past
<1>3. ASSUME machine' = machine, SameSlots, pc' \notin {"buses", "units"}
      PROVE  Placed' /\ Unique'
  BY <1>3, <1>2, PlacedSame, UniqueSame
<1>4. CASE BusMapped
  <2>1. Placed' /\ Unique'
    <3>1. /\ DOMAIN list' = 1 .. Len(list) + 1
          /\ \A k \in DOMAIN list : list'[k] = list[k]
          /\ list'[Len(list) + 1].slot = [s \in Slots |-> NULL]
      BY <1>4, AppendEffect
    <3>2. Len(list) \in Nat /\ DOMAIN list = 1 .. Len(list)
      BY ListFacts
    <3>3. \A k \in DOMAIN list' : \A s \in Slots :
            list'[k].slot[s] # NULL => k \in DOMAIN list /\ list'[k] = list[k]
      BY <3>1, <3>2
    <3>4. Unique'
      BY <3>3 DEF Unique
    <3>5. Placed'
      <4>1. \A k \in DOMAIN list : \A s \in Slots : list[k].slot[s] = NULL
        <5>1. \A k \in DOMAIN list : \A s \in Slots : list[k].slot[s] \notin Devices
          BY <1>4 DEF Placed, Past, BusMapped
        <5>. QED
          BY <5>1, ListFacts
      <4>2. \A k \in DOMAIN list' : \A s \in Slots : list'[k].slot[s] = NULL
        BY <3>3, <4>1
      <4>. QED
        BY <1>1, <1>4, <4>2, SameMachine DEF Placed, BusMapped
    <3>. QED
      BY <3>4, <3>5
  <2>. QED
    BY <2>1
<1>5. CASE BusFails
  BY <1>5, <1>3 DEF BusFails, SameSlots
<1>6. CASE BusesDone
  <2>1. machine' = machine /\ list' = list /\ pc' # "buses" /\ SameSlots
    BY <1>6 DEF BusesDone, SameSlots
  <2>2. \A u \in DOMAIN Munits : \A n \in Devices : ~Past(u, n)
    BY <1>6 DEF BusesDone, Past
  <2>. QED
    BY <2>1, <2>2, PlacedSame, UniqueSame
<1>7. CASE UnitStored
  <2>. DEFINE f == Found
              h == SkxDev(Found)
              s == SlotOf(Found)
  <2>1. /\ f \in Devices /\ f > prev
        /\ h \in DOMAIN list /\ s \in Slots
        /\ Fits(unit, h, s, f)
        /\ DOMAIN list' = DOMAIN list
        /\ \A k \in DOMAIN list : /\ list'[k].bus = list[k].bus
                                  /\ \A t \in Slots :
                                       list'[k].slot[t] = IF k = h /\ t = s THEN f ELSE list[k].slot[t]
        /\ \A k \in DOMAIN list : \A t \in Slots : list[k].slot[t] # f
    BY <1>7, StoreEffect
  <2>2. /\ pc = "units" /\ pc' = "units" /\ unit' = unit /\ prev' = f /\ machine' = machine
        /\ unit \in DOMAIN Munits /\ prev \in Nat
    BY <1>1, <1>7 DEF UnitStored, Control, ProbeTypes, NULL
  <2>. HIDE DEF f, h, s
  <2>3. Unique'
    BY <1>1, <2>1 DEF Unique
  <2>4. Placed'
    <3>. SUFFICES ASSUME NEW k \in DOMAIN list, NEW t \in Slots, NEW n \in Devices,
                         list'[k].slot[t] = n
                  PROVE  \E u \in DOMAIN Munits : Fits(u, k, t, n)' /\ Past(u, n)'
      BY <2>1, <2>2, SameMachine DEF Placed
    <3>1. CASE k = h /\ t = s
      <4>1. n = f
        BY <2>1, <3>1
      <4>2. Fits(unit, k, t, n)'
        BY <2>1, <2>2, <3>1, <4>1 DEF Fits
      <4>3. Past(unit, n)'
        BY <1>1, <2>1, <2>2, <4>1 DEF Past
      <4>. QED
        BY <2>2, <4>2, <4>3
    <3>2. CASE ~(k = h /\ t = s)
      <4>1. list[k].slot[t] = n
        BY <2>1, <3>2
      <4>2. PICK u \in DOMAIN Munits : Fits(u, k, t, n) /\ Past(u, n)
        BY <4>1 DEF Placed
      <4>3. Fits(u, k, t, n)'
        BY <2>1, <2>2, <4>2 DEF Fits
      <4>4. Past(u, n)'
        BY <1>1, <2>1, <2>2, <4>2 DEF Past
      <4>. QED
        BY <4>3, <4>4
    <3>. QED
      BY <3>1, <3>2
  <2>. QED
    BY <2>3, <2>4
<1>8. CASE UnitRoute
  <2>1. Found \in Devices /\ Found > prev /\ SameSlots
    BY <1>8, RouteEffect
  <2>2. /\ pc = "units" /\ pc' = "units" /\ unit' = unit /\ prev' = Found /\ machine' = machine
        /\ prev \in Nat
    BY <1>1, <1>8 DEF UnitRoute, ProbeTypes, NULL
  <2>3. ASSUME NEW u \in DOMAIN Munits, NEW n \in Devices, Past(u, n) PROVE Past(u, n)'
    BY <1>1, <2>1, <2>2, <2>3 DEF Past
  <2>. QED
    BY <2>1, <2>2, <2>3, PlacedSame, UniqueSame
<1>9. CASE UnitFails
  BY <1>9, <1>3 DEF UnitFails, SameSlots
<1>10. CASE UnitDone
  <2>1. machine' = machine /\ SameSlots /\ pc = "units" /\ unit \in 1 .. 9
    BY <1>10, MunitRows DEF UnitDone, SameSlots, Control
  <2>2. pc' = "remove" \/ (pc' \in {"units", "register"} /\ unit' = unit + 1)
    BY <1>10 DEF UnitDone
  <2>3. ASSUME NEW u \in DOMAIN Munits, NEW n \in Devices, Past(u, n) PROVE Past(u, n)'
    BY <2>1, <2>2, <2>3, MunitRows DEF Past
  <2>. QED
    BY <2>1, <2>3, PlacedSame, UniqueSame
<1>11. CASE RegisterOK
  BY <1>11, <1>3, RegisterEffect DEF RegisterOK
<1>12. CASE RegisterFails
  BY <1>12, <1>3 DEF RegisterFails, SameSlots
<1>13. CASE RegisterDone
  BY <1>13, <1>3 DEF RegisterDone, SameSlots
<1>14. CASE RemoveSocket
  <2>1. /\ machine' = machine /\ pc' = "remove"
        /\ \A k \in DOMAIN list' : k + 1 \in DOMAIN list /\ list'[k] = list[k + 1]
        /\ \A k \in DOMAIN list' : k \in Int
    <3>1. \A k \in DOMAIN list' : k \in Int
      <4>1. list' \in Seq(Rows)
        BY <1>14, RemoveEffect
      <4>. QED
        BY <4>1, LenProperties
    <3>. QED
      BY <1>14, <3>1, RemoveEffect DEF RemoveSocket
  <2>2. Unique'
    <3>. SUFFICES ASSUME NEW k \in DOMAIN list', NEW l \in DOMAIN list', NEW s \in Slots, NEW t \in Slots,
                         list'[k].slot[s] = list'[l].slot[t], list'[k].slot[s] # NULL
                  PROVE  k = l /\ s = t
      BY DEF Unique
    <3>1. k + 1 = l + 1 /\ s = t
      BY <2>1 DEF Unique
    <3>. QED
      BY <2>1, <3>1
  <2>3. Placed'
    <3>. SUFFICES ASSUME NEW k \in DOMAIN list', NEW s \in Slots, NEW n \in Devices,
                         list'[k].slot[s] = n
                  PROVE  \E u \in DOMAIN Munits : Fits(u, k, s, n)' /\ Past(u, n)'
      BY <2>1, SameMachine DEF Placed
    <3>1. k + 1 \in DOMAIN list /\ list'[k] = list[k + 1]
      BY <2>1
    <3>2. PICK u \in DOMAIN Munits : Fits(u, k + 1, s, n)
      BY <3>1 DEF Placed
    <3>3. Fits(u, k, s, n)'
      BY <2>1, <3>1, <3>2 DEF Fits
    <3>4. Past(u, n)'
      BY <2>1 DEF Past
    <3>. QED
      BY <3>3, <3>4
  <2>. QED
    BY <2>2, <2>3
<1>15. CASE Removed
  BY <1>15, <1>3 DEF Removed, SameSlots
<1>16. CASE OtherStep
  <2>1. machine' = machine /\ list' = list /\ prev' = prev /\ SameSlots
    BY <1>16, OtherFrame DEF SameSlots
  <2>2. CASE pc' = "buses" /\ list = <<>>
    BY <2>1, <2>2, NoSockets
  <2>3. CASE UNCHANGED <<pc, unit, mc>>
    <3>1. ASSUME NEW u \in DOMAIN Munits, NEW n \in Devices, Past(u, n) PROVE Past(u, n)'
      BY <2>1, <2>3, <3>1 DEF Past
    <3>. QED
      BY <2>1, <3>1, PlacedSame, UniqueSame
  <2>4. CASE pc' \notin {"buses", "units"}
    BY <1>3, <2>1, <2>4
  <2>. QED
    BY <1>16, <2>2, <2>3, <2>4, OtherFrame
<1>17. CASE StartFails
  BY <1>17, NoSockets DEF StartFails
<1>18. CASE UNCHANGED vars
  BY <1>18 DEF vars, probeVars, Placed, Unique, Fits, Past, Devices
<1>. QED
  BY <1>4, <1>5, <1>6, <1>7, <1>8, <1>9, <1>10, <1>11, <1>12, <1>13, <1>14, <1>15, <1>16, <1>17,
     <1>18, NextCases DEF Probe, Remove

-----------------------------------------------------------------------------
(* The references.                                                         *)

LEMMA DueFacts ==
  ASSUME NEW n
  PROVE  Due(n) \in Int /\ Due(n) >= 0
BY DEF Due, One

(* Who keeps the difference of references and needs keeps the invariant; a *)
(* device of an abandoned load and an edev may gain.                       *)
LEMMA RefsBy ==
  ASSUME machine' = machine, refs \in [Devices -> Int], refs' \in [Devices -> Int],
         abandoned \in BOOLEAN, abandoned' \in BOOLEAN, abandoned => abandoned', RefsExact,
         \A n \in Devices :
           /\ refs'[n] - Due(n)' >= refs[n] - Due(n)
           /\ abandoned' \/ IsErr(n) \/ refs'[n] - Due(n)' = refs[n] - Due(n)
  PROVE  RefsExact'
<1>1. Devices' = Devices
  BY SameMachine
<1>2. \A n \in Devices : IsErr(n)' <=> IsErr(n)
  BY DEF IsErr
<1>. SUFFICES ASSUME NEW n \in Devices
              PROVE  IF abandoned' \/ IsErr(n) THEN refs'[n] >= Due(n)' ELSE refs'[n] = Due(n)'
  BY <1>1, <1>2, Zenon DEF RefsExact
<1>. DEFINE d == Due(n)
            e == Due(n)'
<1>3. d \in Int /\ e \in Int /\ refs[n] \in Int /\ refs'[n] \in Int
  BY <1>1, DueFacts DEF Due, One
<1>4. IF abandoned \/ IsErr(n) THEN refs[n] >= d ELSE refs[n] = d
  BY DEF RefsExact
<1>5. refs'[n] - e >= refs[n] - d /\ (abandoned' \/ IsErr(n) \/ refs'[n] - e = refs[n] - d)
  OBVIOUS
<1>. HIDE DEF d, e
<1>6. IF abandoned' \/ IsErr(n) THEN refs'[n] >= e ELSE refs'[n] = e
  BY <1>3, <1>4, <1>5
<1>. QED
  BY <1>6 DEF d, e

LEMMA HeldSame ==
  ASSUME SameSlots, NEW n
  PROVE  Held(n)' <=> Held(n)
BY DEF SameSlots, Held

(* The search goes on from prev to where: it drops one and takes one.      *)
LEMMA SearchRefs ==
  ASSUME ProbeTypes, RefsExact, machine' = machine, abandoned' = abandoned, abandoned \in BOOLEAN,
         NEW where \in Devices \cup {NULL}, prev' = where,
         refs' = Get(Put(refs, prev), where),
         \A n \in Devices : Held(n)' <=> Held(n)
  PROVE  RefsExact'
<1>1. NULL \notin Devices /\ refs \in [Devices -> Int] /\ prev \in Devices \cup {NULL}
  BY MachineFacts DEF ProbeTypes
<1>2. /\ refs' \in [Devices -> Int]
      /\ \A n \in Devices : refs'[n] = (refs[n] - One(prev = n)) + One(where = n)
  BY <1>1, GetPutFacts
<1>3. \A n \in Devices : refs'[n] - Due(n)' = refs[n] - Due(n)
  <2>. SUFFICES ASSUME NEW n \in Devices PROVE refs'[n] - Due(n)' = refs[n] - Due(n)
    OBVIOUS
  <2>1. Due(n)' = One(Held(n)) + One(where = n) /\ Due(n) = One(Held(n)) + One(prev = n)
    BY DEF Due, One
  <2>2. /\ refs[n] \in Int /\ One(Held(n)) \in Int
        /\ One(where = n) \in Int /\ One(prev = n) \in Int
    BY <1>1 DEF One
  <2>. QED
    BY <1>2, <2>1, <2>2
<1>4. \A n \in Devices : refs'[n] - Due(n)' >= refs[n] - Due(n)
  <2>1. \A n \in Devices : Due(n) \in Int /\ refs[n] \in Int
    BY <1>1, DueFacts
  <2>. QED
    BY <1>3, <2>1
<1>. QED
  BY <1>1, <1>2, <1>3, <1>4, RefsBy

LEMMA RefsSame ==
  ASSUME ProbeTypes, RefsExact, machine' = machine, abandoned' = abandoned,
         refs' = refs, prev' = prev, SameSlots
  PROVE  RefsExact'
<1>1. Devices' = Devices
  BY SameMachine
<1>2. \A n \in Devices : (IsErr(n)' <=> IsErr(n)) /\ (Held(n)' <=> Held(n))
  BY HeldSame DEF IsErr
<1>3. \A n \in Devices : Due(n)' = Due(n)
  BY <1>2 DEF Due, One
<1>. QED
  BY <1>1, <1>2, <1>3 DEF RefsExact

(* A device that no slot of skx_remove() holds, but some slot, is an edev. *)
LEMMA ErrFacts ==
  ASSUME Placed, NEW k \in DOMAIN list, NEW s \in Slots \ PutSlots, NEW n \in Devices,
         list[k].slot[s] = n
  PROVE  IsErr(n)
<1>1. PICK u \in DOMAIN Munits : Munits[u].mtype = s[1] /\ machine[n].did = Munits[u].did
  BY DEF Placed, Fits
<1>2. s[1] \in ErrTypes
  BY DEF Slots, PutSlots, SocketSlots
<1>. QED
  BY <1>1, <1>2 DEF IsErr

LEMMA RemoveRefs ==
  ASSUME ProbeTypes, Control, Placed, Unique, RefsExact, abandoned \in BOOLEAN,
         RemoveSocket, abandoned' = abandoned
  PROVE  RefsExact'
<1>1. /\ NULL \notin Devices /\ refs \in [Devices -> Int] /\ machine' = machine
      /\ prev = NULL /\ prev' = NULL
  BY MachineFacts DEF ProbeTypes, Control, RemoveSocket
<1>. DEFINE put(n) == \E s \in PutSlots : list[1].slot[s] = n
<1>2. /\ 1 \in DOMAIN list /\ Head(list) = list[1]
      /\ \A k \in DOMAIN list' : k + 1 \in DOMAIN list /\ list'[k] = list[k + 1]
      /\ \A k \in DOMAIN list : k # 1 => k - 1 \in DOMAIN list'
      /\ \A k \in DOMAIN list : k \in Int
      /\ \A k \in DOMAIN list' : k \in Nat /\ k # 0
  <2>1. \A k \in DOMAIN list' : k \in Nat /\ k # 0
    <3>1. list' \in Seq(Rows)
      BY RemoveEffect
    <3>. QED
      BY <3>1, LenProperties
  <2>. QED
    BY <2>1, RemoveEffect, ListFacts
<1>3. /\ refs' \in [Devices -> Int]
      /\ \A n \in Devices : refs'[n] = IF put(n) THEN refs[n] - 1 ELSE refs[n]
  BY <1>1, <1>2 DEF RemoveSocket, PutSocket
<1>4. PutSlots \subseteq Slots
  BY DEF PutSlots, Slots
<1>5. ASSUME NEW n \in Devices
      PROVE  /\ put(n) => Held(n) /\ ~Held(n)'
             /\ ~put(n) => (Held(n)' <=> Held(n)) \/ (IsErr(n) /\ ~Held(n)')
  <2>1. \A k \in DOMAIN list' : \A s \in Slots : list'[k].slot[s] = n => list[k + 1].slot[s] = n
    BY <1>2
  <2>2. ASSUME NEW s \in Slots, list[1].slot[s] = n PROVE ~Held(n)'
    <3>. SUFFICES ASSUME NEW k \in DOMAIN list', NEW t \in Slots, list'[k].slot[t] = n PROVE FALSE
      BY DEF Held
    <3>1. k + 1 = 1
      BY <1>1, <1>2, <2>1, <2>2 DEF Unique
    <3>. QED
      BY <1>2, <3>1
  <2>3. put(n) => Held(n) /\ ~Held(n)'
    BY <1>2, <1>4, <2>2 DEF Held
  <2>4. ASSUME NEW s \in Slots, list[1].slot[s] = n, ~put(n) PROVE IsErr(n) /\ ~Held(n)'
    BY <1>2, <2>2, <2>4, ErrFacts
  <2>5. ASSUME \A s \in Slots : list[1].slot[s] # n PROVE Held(n)' <=> Held(n)
    <3>1. Held(n)' => Held(n)
      BY <1>2, <2>1 DEF Held
    <3>2. ASSUME NEW k \in DOMAIN list, NEW s \in Slots, list[k].slot[s] = n PROVE Held(n)'
      <4>1. k # 1 /\ k - 1 \in DOMAIN list' /\ (k - 1) + 1 = k
        BY <1>2, <2>5, <3>2
      <4>2. list'[k - 1] = list[k]
        BY <1>2, <4>1
      <4>. QED
        BY <3>2, <4>1, <4>2 DEF Held
    <3>. QED
      BY <3>1, <3>2 DEF Held
  <2>. QED
    BY <2>3, <2>4, <2>5
<1>6. ASSUME NEW n \in Devices
      PROVE  /\ refs'[n] - Due(n)' >= refs[n] - Due(n)
             /\ IsErr(n) \/ refs'[n] - Due(n)' = refs[n] - Due(n)
  <2>1. Due(n) = One(Held(n)) /\ Due(n)' = One(Held(n)')
    BY <1>1 DEF Due, One
  <2>2. refs[n] \in Int
    BY <1>1
  <2>3. CASE put(n)
    <3>1. Due(n) = 1 /\ Due(n)' = 0
      BY <1>5, <2>1, <2>3 DEF One
    <3>. QED
      BY <1>3, <2>2, <2>3, <3>1
  <2>4. CASE ~put(n) /\ (Held(n)' <=> Held(n))
    <3>1. Due(n)' = Due(n) /\ Due(n) \in Int
      BY <2>1, <2>4 DEF One
    <3>. QED
      BY <1>3, <2>2, <2>4, <3>1
  <2>5. CASE ~put(n) /\ IsErr(n) /\ ~Held(n)'
    <3>1. Due(n) \in {0, 1} /\ Due(n)' = 0
      BY <2>1, <2>5 DEF One
    <3>. QED
      BY <1>3, <2>2, <2>5, <3>1
  <2>. QED
    BY <1>5, <2>3, <2>4, <2>5
<1>. QED
  BY <1>1, <1>3, <1>6, RefsBy

LEMMA RefsStep ==
  ASSUME ProbeTypes, DriverTypes, Control, Placed, Unique, RefsExact, [Next]_vars
  PROVE  RefsExact'
<1>1. NULL \notin Devices /\ refs \in [Devices -> Int] /\ prev \in Devices \cup {NULL}
  BY MachineFacts DEF ProbeTypes
<1>2. abandoned \in BOOLEAN
  BY DEF DriverTypes
<1>3. \A r : Get(r, NULL) = r
  BY DEF Get
<1>4. CASE (Probe \/ Remove) /\ UNCHANGED driverVars
  <2>1. abandoned' = abandoned
    BY <1>4 DEF driverVars
  <2>2. CASE BusMapped
    <3>1. ASSUME NEW n \in Devices PROVE Held(n)' <=> Held(n)
      <4>1. /\ DOMAIN list' = 1 .. Len(list) + 1
            /\ \A k \in DOMAIN list : list'[k] = list[k]
            /\ list'[Len(list) + 1].slot = [s \in Slots |-> NULL]
            /\ Len(list) \in Nat /\ DOMAIN list = 1 .. Len(list)
        BY <2>2, AppendEffect, ListFacts
      <4>2. \A k \in DOMAIN list' : \A s \in Slots :
              list'[k].slot[s] = n => k \in DOMAIN list /\ list'[k] = list[k]
        BY <1>1, <4>1
      <4>3. \A k \in DOMAIN list : k \in DOMAIN list' /\ list'[k] = list[k]
        BY <4>1
      <4>. QED
        BY <4>2, <4>3 DEF Held
    <3>2. Decs \in Devices
      BY <2>2, AppendEffect
    <3>. QED
      BY <1>2, <2>1, <2>2, <3>1, <3>2, SearchRefs DEF BusMapped
  <2>3. CASE UnitStored
    <3>. DEFINE f == Found
                h == SkxDev(Found)
                s == SlotOf(Found)
    <3>1. /\ f \in Devices /\ f > prev
          /\ h \in DOMAIN list /\ s \in Slots
          /\ DOMAIN list' = DOMAIN list
          /\ \A k \in DOMAIN list : \A t \in Slots :
                list'[k].slot[t] = IF k = h /\ t = s THEN f ELSE list[k].slot[t]
          /\ \A k \in DOMAIN list : \A t \in Slots : list[k].slot[t] # f
          /\ list[h].slot[s] = NULL
      BY <2>3, StoreEffect
    <3>2. /\ refs' = Get(Get(Put(refs, prev), f), f) /\ prev' = f /\ machine' = machine
      BY <2>3 DEF UnitStored
    <3>. HIDE DEF f, h, s
    <3>3. prev # f
      BY <1>1, <3>1, MachineFacts DEF ProbeTypes, NULL
    <3>4. /\ Put(refs, prev) \in [Devices -> Int]
          /\ \A n \in Devices : Put(refs, prev)[n] = refs[n] - One(prev = n)
      BY <1>1, GetPutFacts
    <3>5. /\ Get(Put(refs, prev), f) \in [Devices -> Int]
          /\ \A n \in Devices : Get(Put(refs, prev), f)[n] = (refs[n] - One(prev = n)) + One(f = n)
      BY <1>1, <3>1, <3>4, GetPutFacts
    <3>6. /\ refs' \in [Devices -> Int]
          /\ \A n \in Devices : refs'[n] = ((refs[n] - One(prev = n)) + One(f = n)) + One(f = n)
      BY <1>1, <3>1, <3>2, <3>5, GetPutFacts
    <3>7. ASSUME NEW n \in Devices
          PROVE  refs'[n] - Due(n)' = refs[n] - Due(n) /\ refs[n] - Due(n) \in Int
      <4>1. Held(n)' <=> Held(n) \/ n = f
        BY <1>1, <3>1 DEF Held
      <4>2. ~Held(f)
        BY <3>1 DEF Held
      <4>3. Due(n)' = One(Held(n)') + One(f = n) /\ Due(n) = One(Held(n)) + One(prev = n)
        BY <3>2 DEF Due, One
      <4>4. refs[n] \in Int
        BY <1>1
      <4>5. CASE n = f
        <5>1. /\ Due(n)' = 2 /\ Due(n) = 0
              /\ One(prev = n) = 0 /\ One(f = n) = 1
          BY <3>3, <4>1, <4>2, <4>3, <4>5 DEF One
        <5>. QED
          BY <3>6, <4>4, <5>1
      <4>6. CASE n # f
        <5>1. /\ One(f = n) = 0 /\ One(Held(n)') = One(Held(n))
              /\ One(Held(n)) \in Int /\ One(prev = n) \in Int
          BY <4>1, <4>6 DEF One
        <5>. QED
          BY <3>6, <4>3, <4>4, <5>1
      <4>. QED
        BY <4>5, <4>6
    <3>8. \A n \in Devices : refs'[n] - Due(n)' >= refs[n] - Due(n)
      BY <3>7
    <3>. QED
      BY <1>1, <1>2, <2>1, <3>2, <3>6, <3>7, <3>8, RefsBy
  <2>4. CASE UnitRoute
    <3>1. Found \in Devices /\ \A n \in Devices : Held(n)' <=> Held(n)
      BY <2>4, RouteEffect, HeldSame
    <3>. QED
      BY <1>2, <2>1, <2>4, <3>1, SearchRefs DEF UnitRoute
  <2>5. CASE BusFails \/ BusesDone \/ UnitFails \/ UnitDone
    <3>1. /\ refs' = Put(refs, prev) /\ prev' = NULL /\ machine' = machine /\ SameSlots
      BY <2>5 DEF BusFails, BusesDone, UnitFails, UnitDone, SameSlots
    <3>2. refs' = Get(Put(refs, prev), NULL)
      BY <1>3, <3>1
    <3>3. \A n \in Devices : Held(n)' <=> Held(n)
      BY <3>1, HeldSame
    <3>. QED
      BY <1>2, <2>1, <3>1, <3>2, <3>3, SearchRefs
  <2>6. CASE RegisterOK \/ RegisterFails \/ RegisterDone \/ Removed
    <3>1. SameSlots
      BY <2>6, RegisterEffect DEF RegisterFails, RegisterDone, Removed, SameSlots
    <3>2. machine' = machine /\ refs' = refs /\ prev' = prev
      BY <2>6 DEF RegisterOK, RegisterFails, RegisterDone, Removed
    <3>. QED
      BY <2>1, <3>1, <3>2, RefsSame
  <2>7. CASE RemoveSocket
    BY <1>2, <2>1, <2>7, RemoveRefs
  <2>. QED
    BY <1>4, <2>2, <2>3, <2>4, <2>5, <2>6, <2>7 DEF Probe, Remove
<1>5. CASE OtherStep
  BY <1>5, OtherFrame, RefsSame DEF SameSlots
<1>6. CASE StartFails
  <2>1. machine' = machine /\ refs' = refs /\ prev' = prev /\ list' = <<>> /\ abandoned'
    BY <1>6 DEF StartFails
  <2>2. prev = NULL
    BY <1>6 DEF StartFails, Control
  <2>3. \A n \in Devices : ~Held(n)'
    <3>1. DOMAIN list' = {}
      BY <2>1
    <3>. QED
      BY <3>1 DEF Held
  <2>4. ASSUME NEW n \in Devices PROVE refs'[n] - Due(n)' >= refs[n] - Due(n)
    <3>1. Due(n)' = 0 /\ Due(n) \in {0, 1}
      BY <1>1, <2>1, <2>2, <2>3 DEF Due, One
    <3>2. refs[n] \in Int
      BY <1>1
    <3>. QED
      BY <2>1, <3>1, <3>2
  <2>. QED
    BY <1>1, <1>2, <2>1, <2>4, RefsBy, Zenon DEF StartFails
<1>7. CASE UNCHANGED vars
  BY <1>7, RefsSame DEF vars, probeVars, driverVars, SameSlots
<1>. QED
  BY <1>4, <1>5, <1>6, <1>7, NextCases

LEMMA DevicesInit == Init => Placed /\ Unique /\ RefsExact
<1>. SUFFICES ASSUME Init PROVE Placed /\ Unique /\ RefsExact
  OBVIOUS
<1>1. list = <<>> /\ DOMAIN list = {} /\ prev = NULL /\ abandoned = FALSE
  BY DEF Init, ProbeInit
<1>2. Placed /\ Unique
  BY <1>1 DEF Placed, Unique
<1>3. NULL \notin Devices
  BY MachineFacts DEF Init, ProbeInit
<1>4. \A n \in Devices : refs[n] = 0 /\ Due(n) = 0
  BY <1>1, <1>3 DEF Init, ProbeInit, Devices, Due, One, Held
<1>5. RefsExact
  BY <1>4 DEF RefsExact
<1>. QED
  BY <1>2, <1>5

-----------------------------------------------------------------------------
(* The buffers, and what is left behind.                                   *)

LEMMA OutcomeFacts ==
  ASSUME NEW a \in AdxlOutcomes
  PROVE  /\ a.msg \in {"null", "live"} /\ a.values \in {"null", "live", "freed"}
         /\ a.values = "freed" => a.msg = "null"
BY DEF AdxlOutcomes, NoAdxl

LEMMA BuffersStep ==
  ASSUME DriverTypes, Control, Buffers, [Next]_vars
  PROVE  Buffers'
<1>1. NoAdxl \in AdxlOutcomes
  BY DEF AdxlOutcomes
<1>3. CASE (Probe \/ Remove) /\ UNCHANGED driverVars
  <2>1. adxl' = adxl
    BY <1>3 DEF driverVars
  <2>2. /\ pc \in {"buses", "units", "register", "remove"}
        /\ pc' \in {"buses", "units", "register", "adxl", "remove", "absent"}
        /\ pc' \in {"buses", "units", "register", "adxl"} => pc # "remove"
    BY <1>3 DEF Probe, Remove, BusMapped, BusFails, BusesDone, UnitStored, UnitRoute,
         UnitFails, UnitDone, RegisterOK, RegisterFails, RegisterDone, RemoveSocket, Removed
  <2>. QED
    BY <2>1, <2>2 DEF Buffers, FreedOnce
<1>4. CASE FreshLoad \/ StartFails
  <2>1. adxl' = NoAdxl /\ pc' \in {"buses", "absent"}
    BY <1>4 DEF FreshLoad, Load, StartFails
  <2>. QED
    BY <2>1 DEF Buffers, FreedOnce, NoAdxl
<1>5. CASE AdxlGet
  <2>1. pc' = "debug" /\ adxl' \in AdxlOutcomes
    BY <1>1, <1>5 DEF AdxlGet, Moves, Buffers
  <2>2. adxl'.msg # "freed twice" /\ (adxl'.values = "freed twice" => adxl'.msg = "null")
    BY <2>1, OutcomeFacts
  <2>. QED
    BY <2>1, <2>2 DEF Buffers, FreedOnce
<1>6. CASE SetupDebug \/ StartThread \/ Exit \/ ExitFreed \/ Stopped \/ Teardown
  <2>1. /\ adxl' = adxl
        /\ pc \in {"debug", "start", "live", "stopping", "teardown"}
        /\ pc' \in {"start", "live", "stopping", "teardown", "hung", "adxl_put"}
    BY <1>6 DEF SetupDebug, StartThread, Exit, ExitFreed, Stopped, Teardown, Moves, driverVars
  <2>. QED
    BY <2>1 DEF Buffers, FreedOnce
<1>7. CASE AdxlPut
  <2>1. pc' = "remove" /\ adxl \in AdxlOutcomes
    BY <1>7 DEF AdxlPut, Moves, Buffers
  <2>2. \/ adxl' = adxl
        \/ /\ adxl'.values = Freed(adxl.values)
           /\ adxl'.msg = Freed(adxl.msg)
    BY <1>7 DEF AdxlPut, DriverTypes
  <2>3. /\ adxl.msg \in {"null", "live"}
        /\ adxl.values = "freed" => adxl.msg = "null"
        /\ adxl.values \in {"null", "live", "freed"}
    BY <2>1, OutcomeFacts
  <2>. QED
    BY <2>1, <2>2, <2>3 DEF Buffers, FreedOnce, Freed
<1>8. CASE ThreadStep \/ Reap \/ UNCHANGED vars
  <2>1. adxl' = adxl /\ pc' = pc
    BY <1>8 DEF ThreadStep, Reap, vars, probeVars, driverVars
  <2>. QED
    BY <2>1 DEF Buffers, FreedOnce
<1>. QED
  BY <1>3, <1>4, <1>5, <1>6, <1>7, <1>8, NextCases DEF OtherStep

(* The controllers of the sockets are what they were, a new one has none.  *)
SameMci ==
  /\ \A k \in DOMAIN list : k \in DOMAIN list' /\ list'[k].mci = list[k].mci
  /\ \A k \in DOMAIN list' : k \in DOMAIN list \/ list'[k].mci = {}

LEMMA KeptSame ==
  ASSUME KeptOrLost, SameMci, registered' = registered, abandoned' = abandoned,
         task' \notin Poll!Alive,
         ~abandoned => ~debugfs',
         pc' \in {"buses", "units", "register", "remove", "absent"},
         pc' = "register" => mc' = 0
  PROVE  KeptOrLost'
<1>1. CASE abandoned
  BY <1>1 DEF KeptOrLost, Lost, SameMci
<1>2. CASE ~abandoned
  BY <1>2 DEF KeptOrLost, Kept, SameMci
<1>. QED
  BY <1>1, <1>2

(* A load, from the first look at a device to the last controller, and the *)
(* removal leave the file and the thread alone.                            *)
LEMMA KeptByProbe ==
  ASSUME ProbeTypes, DriverTypes, Control, Placed, KeptOrLost, Probe \/ Remove, UNCHANGED driverVars
  PROVE  KeptOrLost'
<1>1. debugfs' = debugfs /\ task' = task /\ abandoned' = abandoned /\ abandoned \in BOOLEAN
  BY DEF driverVars, thread, DriverTypes
<1>2. pc \in {"buses", "units", "register", "remove"}
  BY DEF Probe, Remove, BusMapped, BusFails, BusesDone, UnitStored, UnitRoute,
       UnitFails, UnitDone, RegisterOK, RegisterFails, RegisterDone, RemoveSocket, Removed
<1>3. task' \notin Poll!Alive /\ (~abandoned => ~debugfs')
  BY <1>1, <1>2 DEF KeptOrLost, Kept
<1>4. CASE BusMapped
  <2>1. /\ DOMAIN list' = 1 .. Len(list) + 1
        /\ \A k \in DOMAIN list : list'[k] = list[k]
        /\ list'[Len(list) + 1].mci = {}
        /\ Len(list) \in Nat /\ DOMAIN list = 1 .. Len(list)
    BY <1>4, AppendEffect, ListFacts
  <2>2. SameMci
    BY <2>1 DEF SameMci
  <2>. QED
    BY <1>1, <1>3, <1>4, <2>2, KeptSame DEF BusMapped
<1>5. CASE UnitStored
  <2>1. SameMci
    BY <1>5, StoreEffect DEF SameMci
  <2>. QED
    BY <1>1, <1>3, <1>5, <2>1, KeptSame DEF UnitStored
<1>6. CASE UnitRoute
  <2>1. SameMci
    BY <1>6, RouteEffect DEF SameMci, SameSlots
  <2>. QED
    BY <1>1, <1>3, <1>6, <2>1, KeptSame DEF UnitRoute
<1>7. CASE BusFails \/ BusesDone \/ UnitFails \/ UnitDone \/ RegisterFails \/ Removed
  <2>1. /\ list' = list /\ registered' = registered
        /\ pc' \in {"units", "register", "remove", "absent"}
        /\ pc' = "register" => mc' = 0
    BY <1>7 DEF BusFails, BusesDone, UnitFails, UnitDone, RegisterFails, Removed, Control
  <2>2. SameMci
    BY <2>1 DEF SameMci
  <2>. QED
    BY <1>1, <1>3, <2>1, <2>2, KeptSame
<1>8. CASE RegisterOK
  <2>1. /\ SocketOfMc \in DOMAIN list /\ DOMAIN list' = DOMAIN list
        /\ \A k \in DOMAIN list :
             list'[k].mci = IF k = SocketOfMc THEN list[k].mci \cup {mc} ELSE list[k].mci
    BY <1>8, RegisterEffect DEF SameSlots
  <2>2. /\ pc = "register" /\ pc' = "register" /\ mc \notin registered
        /\ registered' = registered \cup {mc} /\ mc' = mc + 1 /\ mc \in Nat
    BY <1>8 DEF RegisterOK, ProbeTypes
  <2>3. CASE abandoned
    BY <1>1, <2>2, <2>3 DEF KeptOrLost, Lost
  <2>4. CASE ~abandoned
    <3>1. \A i \in registered' : \E k \in DOMAIN list' : i \in list'[k].mci
      BY <2>1, <2>2, <2>4 DEF KeptOrLost, Kept
    <3>2. 0 .. (mc' - 1) \subseteq registered'
      BY <2>2, <2>4 DEF KeptOrLost, Kept
    <3>. QED
      BY <1>1, <1>3, <2>2, <2>4, <3>1, <3>2 DEF KeptOrLost, Kept
  <2>. QED
    BY <2>3, <2>4
<1>9. CASE RegisterDone
  <2>1. /\ pc = "register" /\ pc' = "adxl" /\ list' = list /\ registered' = registered
        /\ SocketOfMc > Len(list) /\ mc \in Nat
    BY <1>9 DEF RegisterDone, ProbeTypes
  <2>2. Len(list) \in Nat \ {0}
    BY <2>1, EmptySeq DEF Control, ProbeTypes
  <2>3. mc # 0
    BY <2>1, <2>2 DEF SocketOfMc, NumImc
  <2>4. ~abandoned
    BY <2>1, <2>3 DEF KeptOrLost, Lost
  <2>5. 0 \in registered'
    BY <2>1, <2>3, <2>4 DEF KeptOrLost, Kept
  <2>. QED
    BY <1>1, <1>3, <2>1, <2>4, <2>5 DEF KeptOrLost, Kept
<1>10. CASE RemoveSocket
  <2>1. /\ pc' = "remove" /\ registered' = registered \ list[1].mci
        /\ \A k \in DOMAIN list' : k + 1 \in DOMAIN list /\ list'[k] = list[k + 1]
        /\ \A k \in DOMAIN list : k # 1 => k - 1 \in DOMAIN list' /\ (k - 1) + 1 = k
        /\ 1 \in DOMAIN list
    BY <1>10, RemoveEffect, ListFacts DEF RemoveSocket
  <2>2. CASE abandoned
    BY <1>1, <1>3, <2>1, <2>2 DEF KeptOrLost, Lost
  <2>3. CASE ~abandoned
    <3>1. ASSUME NEW i \in registered' PROVE \E k \in DOMAIN list' : i \in list'[k].mci
      <4>1. PICK k \in DOMAIN list : i \in list[k].mci
        BY <2>1, <2>3 DEF KeptOrLost, Kept
      <4>2. k # 1
        BY <2>1, <4>1
      <4>3. k - 1 \in DOMAIN list' /\ list'[k - 1] = list[k]
        BY <2>1, <4>2
      <4>. QED
        BY <4>1, <4>3
    <3>. QED
      BY <1>1, <1>3, <2>1, <2>3, <3>1 DEF KeptOrLost, Kept
  <2>. QED
    BY <2>2, <2>3
<1>. QED
  BY <1>4, <1>5, <1>6, <1>7, <1>8, <1>9, <1>10 DEF Probe, Remove

LEMMA KeptStep ==
  ASSUME ProbeTypes, DriverTypes, Control, Placed, KeptOrLost, [Next]_vars
  PROVE  KeptOrLost'
<1>1. abandoned \in BOOLEAN /\ Poll!Alive \subseteq Poll!States
  BY DEF DriverTypes, Poll!States
<1>2. CASE FreshLoad
  <2>1. /\ pc = "absent" /\ pc' = "buses" /\ SameMci
        /\ UNCHANGED <<registered, abandoned, debugfs, task>>
    BY <1>2 DEF FreshLoad, Load, thread, SameMci
  <2>2. task' \notin Poll!Alive /\ (~abandoned => ~debugfs')
    BY <2>1 DEF KeptOrLost, Kept
  <2>. QED
    BY <2>1, <2>2, KeptSame
<1>3. CASE AdxlGet \/ SetupDebug \/ StartThread
  <2>1. /\ pc \in {"adxl", "debug", "start"} /\ pc' \in {"debug", "start", "live"}
        /\ UNCHANGED <<list, registered, abandoned>>
        /\ debugfs' => debugfs \/ pc' = "start"
        /\ task' = task \/ pc' = "live"
    BY <1>3 DEF AdxlGet, SetupDebug, StartThread, Moves, thread
  <2>2. ~abandoned
    BY <2>1 DEF KeptOrLost, Lost
  <2>3. task' \in Poll!Alive => pc' = "live"
    BY <2>1 DEF KeptOrLost
  <2>4. debugfs' => pc' \in {"start", "live"}
    BY <1>3, <2>2 DEF KeptOrLost, Kept, AdxlGet, SetupDebug, StartThread, Moves
  <2>. QED
    BY <2>1, <2>2, <2>3, <2>4 DEF KeptOrLost, Kept
<1>4. CASE StartFails
  <2>1. /\ pc = "start" /\ pc' = "absent" /\ list' = <<>> /\ abandoned' = TRUE
        /\ registered' = registered /\ task' = task
    BY <1>4 DEF StartFails, thread
  <2>2. ~abandoned /\ 0 \in registered
    BY <2>1 DEF KeptOrLost, Lost, Kept
  <2>3. task' \notin Poll!Alive
    BY <2>1 DEF KeptOrLost
  <2>4. DOMAIN list' = {}
    BY <2>1
  <2>. QED
    BY <2>1, <2>2, <2>3, <2>4 DEF KeptOrLost, Lost
<1>5. CASE ThreadStep
  <2>1. task \in Poll!Alive
    BY <1>5 DEF ThreadStep, Poll!Step, Poll!Begin, Poll!Check, Poll!Visit, Poll!Fail, Poll!Wake,
         Poll!Alive
  <2>2. pc' = pc /\ UNCHANGED <<list, registered, abandoned, debugfs>> /\ mc' = mc
    BY <1>5 DEF ThreadStep, probeVars
  <2>. QED
    BY <2>1, <2>2 DEF KeptOrLost, Kept, Lost
<1>6. CASE Reap
  <2>1. /\ task' = "freed" /\ pc' = pc /\ UNCHANGED <<list, registered, abandoned, debugfs, mc>>
    BY <1>6 DEF Reap, probeVars
  <2>2. task' \notin Poll!Alive
    BY <2>1 DEF Poll!Alive
  <2>. QED
    BY <2>1, <2>2 DEF KeptOrLost, Kept, Lost
<1>7. CASE Exit \/ ExitFreed \/ Stopped \/ Teardown \/ AdxlPut
  <2>1. /\ UNCHANGED <<list, registered, abandoned, task>>
        /\ pc \in {"live", "stopping", "teardown", "adxl_put"}
        /\ pc' \in {"stopping", "teardown", "hung", "adxl_put", "remove"}
        /\ pc' \in {"stopping", "teardown", "hung"} \/ ~debugfs' \/ pc = "adxl_put"
        /\ debugfs' = debugfs \/ ~debugfs'
    <3>1. CASE Exit
      BY <3>1 DEF Exit, Moves
    <3>2. CASE ExitFreed
      BY <3>2 DEF ExitFreed, Moves, driverVars, thread
    <3>3. CASE Stopped
      BY <3>3 DEF Stopped, Moves, driverVars, thread
    <3>4. CASE Teardown
      BY <3>4 DEF Teardown, Moves, thread
    <3>5. CASE AdxlPut
      BY <3>5 DEF AdxlPut, Moves, thread
    <3>. QED
      BY <1>7, <3>1, <3>2, <3>3, <3>4, <3>5
  <2>2. pc' = "stopping" \/ task \in {"freed", "returned"} \/ pc \notin {"live", "stopping"}
    BY <1>7 DEF Exit, ExitFreed, Stopped, Teardown, AdxlPut, Moves
  <2>3. task' \in Poll!Alive => pc' = "stopping"
    BY <2>1, <2>2 DEF KeptOrLost, Poll!Alive
  <2>4. ~abandoned => (debugfs' => pc' \in {"stopping", "teardown", "hung"})
    BY <2>1 DEF KeptOrLost, Kept
  <2>5. ~abandoned \/ pc = "remove"
    BY <2>1 DEF KeptOrLost, Lost
  <2>. QED
    BY <2>1, <2>3, <2>4, <2>5 DEF KeptOrLost, Kept
<1>8. CASE UNCHANGED vars
  BY <1>8 DEF vars, probeVars, driverVars, thread, KeptOrLost, Kept, Lost
<1>. QED
  BY <1>2, <1>3, <1>4, <1>5, <1>6, <1>7, <1>8, KeptByProbe, NextCases DEF OtherStep

-----------------------------------------------------------------------------
(* The theorems.                                                           *)

LEMMA InvInit == Init => DriverInv
<1>. SUFFICES ASSUME Init PROVE DriverInv
  OBVIOUS
<1>1. Buffers
  BY DEF Init, ProbeInit, Buffers, FreedOnce, NoAdxl
<1>2. KeptOrLost
  BY DEF Init, ProbeInit, KeptOrLost, Kept, Poll!Alive
<1>. QED
  BY <1>1, <1>2, TypesInit, DevicesInit DEF DriverInv, DeviceInv

LEMMA InvStep == DriverInv /\ [Next]_vars => DriverInv'
<1>. SUFFICES ASSUME DriverInv, [Next]_vars PROVE DriverInv'
  OBVIOUS
<1>. USE DEF DriverInv, DeviceInv
<1>1. ProbeTypes' /\ DriverTypes' /\ Control'
  BY TypesStep
<1>2. Placed' /\ Unique'
  BY PlacedStep
<1>3. RefsExact'
  BY RefsStep
<1>4. Buffers'
  BY BuffersStep
<1>5. KeptOrLost'
  BY KeptStep
<1>. QED
  BY <1>1, <1>2, <1>3, <1>4, <1>5

LEMMA Invariance == Spec => []DriverInv
BY InvInit, InvStep, PTL DEF Spec

(* The references never fall below zero, because they are never fewer than *)
(* the driver needs: the counting is what makes the types hold.            *)
THEOREM TypeCorrect == Spec => []TypeOK
<1>1. DriverInv => TypeOK
  <2>. SUFFICES ASSUME DriverInv PROVE TypeOK
    OBVIOUS
  <2>1. refs \in [Devices -> Nat]
    <3>1. ASSUME NEW n \in Devices PROVE refs[n] \in Nat
      <4>1. refs[n] >= Due(n) /\ refs[n] \in Int
        BY DueFacts DEF DriverInv, DeviceInv, ProbeTypes, RefsExact
      <4>. QED
        BY <4>1, DueFacts
    <3>. QED
      BY <3>1 DEF DriverInv, DeviceInv, ProbeTypes
  <2>2. ProbeTypeOK
    BY <2>1 DEF DriverInv, DeviceInv, ProbeTypes, ProbeTypeOK, Rows
  <2>. QED
    BY <2>2 DEF DriverInv, DeviceInv, DriverTypes, TypeOK
<1>. QED
  BY <1>1, Invariance, PTL

(* On whatever machine and through every failure, the driver holds on a    *)
(* device as many references as it has pointers to it, but for the error-  *)
(* counter devices, which skx_remove() (skx_common.c:627) does not put,    *)
(* and those of a load that was abandoned.                                 *)
THEOREM RefsHold == Spec => []RefsExact
<1>1. DriverInv => RefsExact
  BY DEF DriverInv, DeviceInv
<1>. QED
  BY <1>1, Invariance, PTL

(* No buffer of the address translation is freed a second time, but where  *)
(* the second allocation failed (skx_common.c:87).                         *)
THEOREM BuffersHold == Spec => []FreedOnce
<1>1. DriverInv => FreedOnce
  BY DEF DriverInv, Buffers
<1>. QED
  BY <1>1, Invariance, PTL

(* A module that went left no controller, file or thread; one whose thread *)
(* could not be created left the controllers and does not come up again.   *)
THEOREM NothingLeft == Spec => []LeavesNothing
<1>1. DriverInv => LeavesNothing
  <2>. SUFFICES ASSUME DriverInv PROVE LeavesNothing
    OBVIOUS
  <2>1. CASE abandoned
    BY <2>1 DEF DriverInv, KeptOrLost, Lost, LeavesNothing
  <2>2. CASE ~abandoned /\ pc = "absent"
    <3>1. DOMAIN list = {}
      BY <2>2 DEF DriverInv, DeviceInv, Control
    <3>2. registered = {}
      BY <2>2, <3>1 DEF DriverInv, KeptOrLost, Kept
    <3>. QED
      BY <2>2, <3>2 DEF DriverInv, KeptOrLost, Kept, LeavesNothing
  <2>. QED
    BY <2>1, <2>2 DEF LeavesNothing
<1>. QED
  BY <1>1, Invariance, PTL
-----------------------------------------------------------------------------
(* What the driver's thread finds when it runs: sockets that have all      *)
(* their devices, the right ones, the route their cores agree on, and two  *)
(* controllers each.                                                       *)
(*                                                                         *)
(* The count that get_all_munits() compares says that every slot of a unit *)
(* is filled, because no device is stored twice and none in a slot that is *)
(* taken (Placed and Unique): so the invariant counts slots, not devices.  *)

(* The inductive invariant.                                                *)

SlotsOf(u) == {s \in Slots : s[1] = Munits[u].mtype}
Filled(u)  == {p \in (DOMAIN list) \X SlotsOf(u) : list[p[1]].slot[p[2]] # NULL}
Full(u)    == \A k \in DOMAIN list : \A s \in SlotsOf(u) : list[k].slot[s] # NULL

(* Where skx_init() is behind the search, and behind the registration.     *)
Running == {"adxl", "debug", "start", "live", "stopping", "teardown", "hung", "adxl_put"}
Behind  == Running \cup {"register"}

(* The devices counted are the slots filled, and the units that the search *)
(* is past have none left.                                                 *)
SlotsCounted ==
  /\ pc = "buses" => ndev = 0
  /\ pc = "units" => ndev = Cardinality(Filled(unit))
  /\ \A u \in DOMAIN Munits : (pc = "units" /\ u < unit) \/ pc \in Behind => Full(u)

(* The routes read of a socket's cores up to a device, and the one kept.   *)
Core(k, n)      == machine[n].did = "208e" /\ machine[n].bus = list[k].bus[1]
RoutesTo(k, to) == {machine[n].route : n \in {x \in Devices : Core(k, x) /\ x <= to}} \ {0}
KeptRoute(k)    == IF list[k].mcroute = 0 THEN {} ELSE {list[k].mcroute}
RoutesKept ==
  /\ pc = "buses" \/ (pc = "units" /\ unit < 9) => \A k \in DOMAIN list : list[k].mcroute = 0
  /\ pc = "units" /\ unit = 9 => \A k \in DOMAIN list : RoutesTo(k, prev) = KeptRoute(k)
  /\ pc \in Behind => \A k \in DOMAIN list : RoutesOf(k) = KeptRoute(k)

(* A socket has those of its two controllers whose turn was.               *)
McsKept ==
  /\ pc \in {"buses", "units"} => \A k \in DOMAIN list : list[k].mci = {}
  /\ pc = "register" =>
       \A k \in DOMAIN list : list[k].mci = {i \in 0 .. mc - 1 : i \div NumImc + 1 = k}
  /\ pc \in Running =>
       list # <<>> /\ \A k \in DOMAIN list : Cardinality(list[k].mci) = NumImc

(* The thread walks the list, which nobody changes while it runs.          *)
WalkInList == task = "visit" => at \in DOMAIN list

WholeInv == DriverInv /\ SlotsCounted /\ RoutesKept /\ McsKept /\ WalkInList

-----------------------------------------------------------------------------
(* The slots.                                                              *)

LEMMA MunitBuses == Munits[1].busidx = 1 /\ Munits[9].busidx = 1
BY DEF Munits, Munit

(* A socket has as many slots for a unit as get_all_munits() counts.       *)
LEMMA SlotCount ==
  ASSUME NEW u \in DOMAIN Munits
  PROVE  /\ SlotsOf(u) \subseteq Slots
         /\ IsFiniteSet(SlotsOf(u)) /\ Cardinality(SlotsOf(u)) = Munits[u].per_socket
<1>0. SlotsOf(u) \subseteq Slots
  BY DEF SlotsOf
<1>1. u \in {1, 2, 3, 4, 5, 6, 7, 8, 9}
  BY MunitRows
<1>2. CASE u \in {1, 2}
  <2>1. SlotsOf(u) = {<<Munits[u].mtype, 0>>}
    BY <1>2, MunitRows DEF SlotsOf, Slots, SocketSlots, ChanTypes, ErrTypes
  <2>2. Munits[u].per_socket = 1
    BY <1>2, MunitRows
  <2>. QED
    BY <1>0, <2>1, <2>2, FS_Singleton
<1>3. CASE u \in {3, 4, 5, 6, 7, 8}
  <2>. DEFINE a == <<Munits[u].mtype, 0>>
              b == <<Munits[u].mtype, 1>>
  <2>1. Imcs = {0, 1}
    BY DEF Imcs, NumImc
  <2>2. SlotsOf(u) = {a} \cup {b} /\ a # b
    BY <1>3, <2>1, MunitRows DEF SlotsOf, Slots, SocketSlots, ChanTypes, ErrTypes
  <2>. HIDE DEF a, b
  <2>3. IsFiniteSet({a}) /\ Cardinality({a}) = 1
    BY FS_Singleton
  <2>4. IsFiniteSet({a} \cup {b}) /\ Cardinality({a} \cup {b}) = 2
    BY <2>2, <2>3, FS_AddElement
  <2>5. Munits[u].per_socket = 2
    BY <1>3, MunitRows
  <2>. QED
    BY <1>0, <2>2, <2>4, <2>5
<1>4. CASE u = 9
  <2>1. SlotsOf(u) = {}
    BY <1>4, MunitRows DEF SlotsOf, Slots, SocketSlots, ChanTypes, ErrTypes
  <2>. QED
    BY <1>4, <2>1, FS_EmptySet, MunitRows
<1>. QED
  BY <1>1, <1>2, <1>3, <1>4

LEMMA FilledFacts ==
  ASSUME ProbeTypes, NEW u \in DOMAIN Munits
  PROVE  /\ IsFiniteSet(Filled(u)) /\ Cardinality(Filled(u)) \in Nat
         /\ Cardinality(Filled(u)) = Munits[u].per_socket * Len(list) => Full(u)
<1>. DEFINE all == (DOMAIN list) \X SlotsOf(u)
<1>1. DOMAIN list = 1 .. Len(list) /\ Len(list) \in Nat
  BY ListFacts
<1>2. IsFiniteSet(DOMAIN list) /\ Cardinality(DOMAIN list) = Len(list)
  BY <1>1, FS_Interval
<1>3. IsFiniteSet(all) /\ Cardinality(all) = Len(list) * Munits[u].per_socket
  BY <1>2, SlotCount, FS_Product
<1>4. Filled(u) \in SUBSET all
  BY DEF Filled
<1>5. /\ IsFiniteSet(Filled(u)) /\ Cardinality(Filled(u)) \in Nat
      /\ Cardinality(all) = Cardinality(Filled(u)) => all = Filled(u)
  BY <1>3, <1>4, FS_Subset, FS_CardinalityType
<1>6. Munits[u].per_socket \in Nat
  BY SlotCount, FS_CardinalityType
<1>7. ASSUME Cardinality(Filled(u)) = Munits[u].per_socket * Len(list) PROVE Full(u)
  <2>1. Cardinality(Filled(u)) = Cardinality(all)
    BY <1>1, <1>3, <1>6, <1>7
  <2>2. Filled(u) = all
    BY <1>5, <2>1
  <2>3. \A k \in DOMAIN list : \A s \in SlotsOf(u) : <<k, s>> \in Filled(u)
    BY <2>2
  <2>. QED
    BY <2>3 DEF Full, Filled
<1>. QED
  BY <1>5, <1>7

(* No slot is filled for a unit whose search has not begun.                *)
LEMMA NoneFilled ==
  ASSUME ProbeTypes, Placed, NEW u \in DOMAIN Munits,
         pc = "buses" \/ (pc = "units" /\ unit \in DOMAIN Munits /\ unit < u)
  PROVE  Filled(u) = {}
<1>. SUFFICES ASSUME NEW k \in DOMAIN list, NEW s \in SlotsOf(u), list[k].slot[s] # NULL
              PROVE  FALSE
  BY DEF Filled
<1>1. s \in Slots /\ s[1] = Munits[u].mtype
  BY DEF SlotsOf
<1>2. list[k].slot[s] \in Devices
  BY <1>1, ListFacts
<1>3. PICK v \in DOMAIN Munits : Munits[v].mtype = s[1] /\ Past(v, list[k].slot[s])
  BY <1>1, <1>2 DEF Placed, Fits
<1>4. v = u
  BY <1>1, <1>3, MunitFacts
<1>. QED
  BY <1>3, <1>4, MunitRows DEF Past

LEMMA FullSame ==
  ASSUME SameSlots, NEW u, Full(u)
  PROVE  Full(u)'
BY DEF Full, SlotsOf, SameSlots

LEMMA FilledSame ==
  ASSUME SameSlots, NEW u, unit' = u
  PROVE  Filled(unit)' = Filled(u)
BY DEF Filled, SlotsOf, SameSlots

-----------------------------------------------------------------------------
(* The steps.  One that ends or leaves a load makes no promise; most of    *)
(* the others leave the sockets as they are.                               *)
Gives  == pc' \in {"absent", "remove"}
Rests  == UNCHANGED probeVars
RunsOn == pc \in Running /\ pc' \in Running /\ UNCHANGED <<machine, list>>

LEMMA StepKinds ==
  ASSUME [Next]_vars
  PROVE  \/ Gives \/ Rests \/ RunsOn
         \/ (FreshLoad \/ BusMapped \/ BusesDone \/ UnitStored \/ UnitRoute \/ UnitDone
               \/ RegisterOK \/ RegisterDone)
<1>1. CASE BusFails \/ UnitFails \/ RegisterFails \/ RemoveSocket \/ Removed \/ StartFails \/ AdxlPut
  BY <1>1 DEF BusFails, UnitFails, RegisterFails, RemoveSocket, Removed, StartFails, AdxlPut,
       Moves, Gives
<1>2. CASE ThreadStep \/ Reap \/ UNCHANGED vars
  BY <1>2 DEF ThreadStep, Reap, vars, Rests
<1>3. CASE AdxlGet \/ SetupDebug \/ StartThread \/ Exit \/ ExitFreed \/ Stopped \/ Teardown
  BY <1>3 DEF AdxlGet, SetupDebug, StartThread, Exit, ExitFreed, Stopped, Teardown, Moves,
       RunsOn, Running
<1>. QED
  BY <1>1, <1>2, <1>3 DEF Next, InitGoesOn, ExitGoesOn, ProbeStep, RemoveStep, Probe, Remove

(* A new load has no sockets.                                              *)
LEMMA LoadEffect ==
  ASSUME FreshLoad, Control
  PROVE  pc' = "buses" /\ ndev' = 0 /\ list' = <<>> /\ DOMAIN list' = {}
<1>1. pc' = "buses" /\ ndev' = 0 /\ list' = <<>>
  BY DEF FreshLoad, Load, Control
<1>. QED
  BY <1>1

LEMMA UnitRange ==
  ASSUME Control, pc = "units"
  PROVE  unit \in DOMAIN Munits /\ unit \in 1 .. 9 /\ list # <<>>
BY MunitRows DEF Control

(* The search comes to its end: the unit's slots are full, and those of    *)
(* the next one, if there is one, are empty.                               *)
LEMMA UnitDoneEffect ==
  ASSUME ProbeTypes, Control, Placed, SlotsCounted, UnitDone, ~Gives
  PROVE  /\ unit' = unit + 1 /\ prev' = NULL /\ ndev' = 0
         /\ machine' = machine /\ list' = list /\ mc' = mc
         /\ pc = "units" /\ unit \in 1 .. 9
         /\ pc' = IF unit = 9 THEN "register" ELSE "units"
         /\ Full(unit)
         /\ \A n \in Devices : machine[n].did = Unit.did => ~(n > prev)
<1>1. pc = "units" /\ unit \in 1 .. 9
  BY UnitRange DEF UnitDone
<1>2. Counted /\ Found = NULL
  BY DEF UnitDone, Gives
<1>3. Full(unit)
  BY <1>1, <1>2, FilledFacts, MunitRows DEF Counted, SlotsCounted, Unit
<1>4. \A n \in Devices : machine[n].did = Unit.did => ~(n > prev)
  <2>. DEFINE found == {n \in Devices : n > prev /\ machine[n].did = Unit.did}
  <2>1. Found = IF found = {} THEN NULL ELSE Min(found)
    BY DEF Found, Search
  <2>2. found \in SUBSET Devices /\ Devices \in SUBSET Nat /\ NULL \notin Devices
    BY MachineFacts DEF ProbeTypes
  <2>3. found = {}
    BY <1>2, <2>1, <2>2, MinFacts
  <2>. QED
    BY <2>3
<1>. QED
  BY <1>1, <1>2, <1>3, <1>4, MunitRows DEF UnitDone

-----------------------------------------------------------------------------
(* The slots are counted.                                                  *)

LEMMA CountedStep ==
  ASSUME ProbeTypes, DriverTypes, Control, Placed, SlotsCounted, [Next]_vars
  PROVE  SlotsCounted'
<1>1. CASE Gives
  BY <1>1 DEF Gives, SlotsCounted, Behind, Running
<1>2. CASE Rests
  <2>1. SameSlots /\ pc' = pc /\ unit' = unit /\ ndev' = ndev
    BY <1>2 DEF Rests, probeVars, SameSlots
  <2>. QED
    BY <2>1, FullSame, FilledSame DEF SlotsCounted
<1>3. CASE RunsOn
  <2>1. SameSlots /\ pc \in Behind /\ pc' \in Behind \ {"buses", "units"}
    BY <1>3 DEF RunsOn, SameSlots, Running, Behind
  <2>. QED
    BY <2>1, FullSame DEF SlotsCounted
<1>4. CASE FreshLoad
  BY <1>4, LoadEffect DEF SlotsCounted, Full, Behind, Running
<1>5. CASE BusMapped
  BY <1>5 DEF BusMapped, SlotsCounted, Behind, Running
<1>6. CASE BusesDone /\ ~Gives
  <2>1. pc = "buses" /\ pc' = "units" /\ unit' = unit /\ ndev' = ndev /\ unit = 1 /\ SameSlots
    BY <1>6 DEF BusesDone, Gives, Control, SameSlots
  <2>2. Filled(unit)' = {}
    BY <2>1, NoneFilled, FilledSame, MunitRows
  <2>3. ndev' = Cardinality(Filled(unit))'
    BY <2>1, <2>2, FS_EmptySet DEF SlotsCounted
  <2>4. \A u \in DOMAIN Munits : ~(u < unit')
    BY <2>1, MunitRows
  <2>. QED
    BY <2>1, <2>3, <2>4 DEF SlotsCounted, Behind, Running
<1>7. CASE UnitStored
  <2>. DEFINE f == Found
              h == SkxDev(Found)
              s == SlotOf(Found)
  <2>1. /\ f \in Devices /\ h \in DOMAIN list /\ s \in Slots /\ Fits(unit, h, s, f)
        /\ DOMAIN list' = DOMAIN list
        /\ \A k \in DOMAIN list : \A t \in Slots :
             list'[k].slot[t] = IF k = h /\ t = s THEN f ELSE list[k].slot[t]
        /\ list[h].slot[s] = NULL
    BY <1>7, StoreEffect
  <2>2. pc = "units" /\ pc' = "units" /\ unit' = unit /\ ndev' = ndev + 1
    BY <1>7 DEF UnitStored
  <2>3. unit \in DOMAIN Munits
    BY <2>2, UnitRange
  <2>. HIDE DEF f, h, s
  <2>4. f # NULL
    BY <2>1, MachineFacts DEF ProbeTypes
  <2>5. Filled(unit)' = Filled(unit) \cup {<<h, s>>} /\ <<h, s>> \notin Filled(unit)
    <3>1. s \in SlotsOf(unit)
      BY <2>1 DEF SlotsOf, Fits
    <3>2. \A k \in DOMAIN list : \A t \in SlotsOf(unit) :
            list'[k].slot[t] # NULL <=> list[k].slot[t] # NULL \/ (k = h /\ t = s)
      BY <2>1, <2>4 DEF SlotsOf
    <3>3. Filled(unit)' = {p \in (DOMAIN list) \X SlotsOf(unit) : list'[p[1]].slot[p[2]] # NULL}
      BY <2>1, <2>2 DEF Filled, SlotsOf
    <3>4. \A p \in (DOMAIN list) \X SlotsOf(unit) :
            /\ p[1] \in DOMAIN list /\ p[2] \in SlotsOf(unit)
            /\ p = <<h, s>> <=> p[1] = h /\ p[2] = s
      OBVIOUS
    <3>5. <<h, s>> \in (DOMAIN list) \X SlotsOf(unit)
      BY <2>1, <3>1
    <3>. QED
      BY <2>1, <3>2, <3>3, <3>4, <3>5 DEF Filled
  <2>6. ndev' = Cardinality(Filled(unit))'
    <3>1. ndev = Cardinality(Filled(unit))
      BY <2>2 DEF SlotsCounted
    <3>2. IsFiniteSet(Filled(unit))
      BY <2>3, FilledFacts
    <3>3. Cardinality(Filled(unit) \cup {<<h, s>>}) = Cardinality(Filled(unit)) + 1
      BY <2>5, <3>2, FS_AddElement, Zenon
    <3>4. Cardinality(Filled(unit)') = Cardinality(Filled(unit) \cup {<<h, s>>})
      BY <2>5, Zenon
    <3>. QED
      BY <2>2, <3>1, <3>3, <3>4
  <2>7. ASSUME NEW u \in DOMAIN Munits, Full(u) PROVE Full(u)'
    BY <2>1, <2>4, <2>7 DEF Full, SlotsOf
  <2>. QED
    BY <2>2, <2>6, <2>7 DEF SlotsCounted, Behind, Running
<1>8. CASE UnitRoute
  <2>1. SameSlots /\ pc' = pc /\ unit' = unit /\ ndev' = ndev
    BY <1>8, RouteEffect DEF UnitRoute
  <2>. QED
    BY <2>1, FullSame, FilledSame DEF SlotsCounted
<1>9. CASE UnitDone /\ ~Gives
  <2>1. /\ unit' = unit + 1 /\ ndev' = 0 /\ pc = "units" /\ unit \in 1 .. 9
        /\ pc' = IF unit = 9 THEN "register" ELSE "units"
        /\ Full(unit) /\ list' = list
    BY <1>9, UnitDoneEffect
  <2>2. SameSlots
    BY <2>1 DEF SameSlots
  <2>3. \A u \in DOMAIN Munits : u <= unit => Full(u)'
    <3>1. \A u \in DOMAIN Munits : u <= unit => u < unit \/ u = unit
      BY <2>1, MunitRows
    <3>. QED
      BY <2>1, <2>2, <3>1, FullSame DEF SlotsCounted
  <2>4. CASE unit = 9
    <3>1. \A u \in DOMAIN Munits : u <= unit
      BY <2>4, MunitRows
    <3>. QED
      BY <2>1, <2>3, <2>4, <3>1 DEF SlotsCounted
  <2>5. CASE unit # 9
    <3>1. unit' \in DOMAIN Munits /\ unit < unit'
      BY <2>1, <2>5, MunitRows
    <3>2. Filled(unit)' = {}
      <4>1. PICK u \in DOMAIN Munits : u = unit'
        BY <3>1
      <4>2. Filled(u) = {}
        BY <2>1, <3>1, <4>1, NoneFilled, MunitRows
      <4>. QED
        BY <2>2, <4>1, <4>2, FilledSame
    <3>3. ndev' = Cardinality(Filled(unit))'
      BY <2>1, <3>2, FS_EmptySet
    <3>4. \A u \in DOMAIN Munits : u < unit' => u <= unit
      BY <2>1, MunitRows
    <3>. QED
      BY <2>1, <2>3, <2>5, <3>3, <3>4 DEF SlotsCounted, Behind, Running
  <2>. QED
    BY <2>4, <2>5
<1>10. CASE RegisterOK \/ RegisterDone
  <2>1. SameSlots /\ pc \in Behind /\ pc' \in Behind \ {"buses", "units"}
    BY <1>10, RegisterEffect DEF RegisterOK, RegisterDone, SameSlots, Running, Behind
  <2>. QED
    BY <2>1, FullSame DEF SlotsCounted
<1>. QED
  BY <1>1, <1>2, <1>3, <1>4, <1>5, <1>6, <1>7, <1>8, <1>9, <1>10, StepKinds

-----------------------------------------------------------------------------
(* The routes.                                                             *)

(* Two sockets do not share the bus of their cores: it is that of the SAD  *)
(* device each has, and there is one such device on a bus.                 *)
LEMMA OwnBus ==
  ASSUME ProbeTypes, Placed, Unique, Full(1),
         NEW k \in DOMAIN list, NEW l \in DOMAIN list, list[k].bus[1] = list[l].bus[1]
  PROVE  k = l
<1>. DEFINE s == <<"SAD_ALL", 0>>
<1>1. s \in Slots /\ s \in SlotsOf(1) /\ s[1] = "SAD_ALL"
  BY MunitRows DEF Slots, SocketSlots, SlotsOf
<1>2. list[k].slot[s] \in Devices /\ list[l].slot[s] \in Devices
  BY <1>1, ListFacts DEF Full
<1>3. ASSUME NEW j \in DOMAIN list, list[j].slot[s] \in Devices
      PROVE  /\ machine[list[j].slot[s]].did = Munits[1].did
             /\ machine[list[j].slot[s]].bus = list[j].bus[1]
  <2>1. PICK u \in DOMAIN Munits : Fits(u, j, s, list[j].slot[s])
    BY <1>1, <1>3 DEF Placed
  <2>2. u = 1
    BY <1>1, <2>1, MunitFacts, MunitRows DEF Fits
  <2>. QED
    BY <2>1, <2>2, MunitBuses DEF Fits
<1>4. list[k].slot[s] = list[l].slot[s]
  <2>1. Munits[1].mtype # "SAD" /\ Munits[1].per_socket # NumImc /\ 1 \in DOMAIN Munits
    BY MunitRows DEF NumImc
  <2>2. machine \in Machines
    BY DEF ProbeTypes
  <2>. QED
    BY <1>2, <1>3, <2>1, <2>2, MachineFacts
<1>5. list[k].slot[s] # NULL
  BY <1>2, MachineFacts DEF ProbeTypes
<1>. QED
  BY <1>1, <1>4, <1>5 DEF Unique

(* The sockets are the same, with the buses and the routes kept.           *)
SameRoutes ==
  /\ machine' = machine /\ DOMAIN list' = DOMAIN list
  /\ \A k \in DOMAIN list : list'[k].bus = list[k].bus /\ list'[k].mcroute = list[k].mcroute

LEMMA RoutesSame ==
  ASSUME SameRoutes, NEW k \in DOMAIN list
  PROVE  /\ RoutesOf(k)' = RoutesOf(k) /\ KeptRoute(k)' = KeptRoute(k)
         /\ prev' = prev => RoutesTo(k, prev)' = RoutesTo(k, prev)
<1>1. list'[k].bus = list[k].bus /\ list'[k].mcroute = list[k].mcroute /\ machine' = machine
  BY DEF SameRoutes
<1>2. RoutesOf(k)' = RoutesOf(k)
  BY <1>1, Zenon DEF RoutesOf, Devices
<1>3. KeptRoute(k)' = KeptRoute(k)
  BY <1>1, Zenon DEF KeptRoute
<1>4. \A n : Core(k, n)' <=> Core(k, n)
  BY <1>1 DEF Core
<1>5. ASSUME prev' = prev PROVE RoutesTo(k, prev)' = RoutesTo(k, prev)
  BY <1>1, <1>5, Zenon DEF RoutesTo, Core, Devices
<1>. QED
  BY <1>2, <1>3, <1>5

(* One more core is read.                                                  *)
LEMMA RouteRead ==
  ASSUME ProbeTypes, Control, Placed, Unique, SlotsCounted, RoutesKept, UnitRoute,
         NEW k \in DOMAIN list
  PROVE  RoutesTo(k, prev)' = KeptRoute(k)'
<1>. DEFINE f == Found
            h == SkxDev(Found)
<1>1. /\ f \in Devices /\ f > prev /\ machine[f].did = Unit.did
      /\ \A n \in Devices : n > prev /\ machine[n].did = Unit.did => f <= n
  BY SearchFacts DEF UnitRoute, Found, ProbeTypes
<1>2. /\ SameSlots /\ h \in DOMAIN list
      /\ list[h].bus[Unit.busidx] = machine[f].bus
      /\ \A l \in DOMAIN list :
           list'[l].mcroute = IF l = h /\ Route(f) # 0 THEN Route(f) ELSE list[l].mcroute
  BY RouteEffect
<1>3. /\ pc = "units" /\ prev' = f /\ machine' = machine
      /\ Route(f) = 0 \/ list[h].mcroute \in {0, Route(f)}
  BY DEF UnitRoute, Matches
<1>. HIDE DEF f, h
<1>4. unit = 9 /\ Unit.did = "208e" /\ list[h].bus[1] = machine[f].bus
  <2>1. unit \in {1, 2, 3, 4, 5, 6, 7, 8, 9} /\ Unit.mtype = "SAD"
    BY <1>3, UnitRange DEF UnitRoute
  <2>2. unit = 9
    BY <2>1, MunitRows DEF Unit
  <2>. QED
    BY <1>2, <2>2, MunitRows, MunitBuses DEF Unit
<1>5. RoutesTo(k, prev) = KeptRoute(k)
  BY <1>3, <1>4 DEF RoutesKept
<1>6. Core(k, f) <=> k = h
  <2>1. Full(1)
    BY <1>3, <1>4, MunitRows DEF SlotsCounted
  <2>. QED
    BY <1>1, <1>2, <1>4, <2>1, OwnBus DEF Core
<1>7. \A n \in Devices : Core(k, n) /\ n <= f <=> (Core(k, n) /\ n <= prev) \/ (n = f /\ k = h)
  <2>1. Devices \in SUBSET Nat /\ prev \in Nat
    BY MachineFacts DEF ProbeTypes, NULL
  <2>2. \A n \in Devices : Core(k, n) /\ n > prev => f <= n
    BY <1>1, <1>4 DEF Core
  <2>. QED
    BY <1>1, <1>6, <2>1, <2>2
<1>8. RoutesTo(k, prev)' = {machine[n].route : n \in {x \in Devices : Core(k, x) /\ x <= f}} \ {0}
  BY <1>2, <1>3 DEF RoutesTo, Core, SameSlots, Devices
<1>9. CASE k # h
  <2>1. RoutesTo(k, prev)' = RoutesTo(k, prev)
    BY <1>7, <1>8, <1>9 DEF RoutesTo
  <2>2. KeptRoute(k)' = KeptRoute(k)
    BY <1>2, <1>9 DEF KeptRoute
  <2>. QED
    BY <1>5, <2>1, <2>2
<1>10. CASE k = h
  <2>1. RoutesTo(k, prev)' = (RoutesTo(k, prev) \cup {Route(f)}) \ {0}
    BY <1>1, <1>7, <1>8, <1>10 DEF RoutesTo, Route
  <2>2. KeptRoute(k)' = IF Route(f) # 0 THEN {Route(f)} ELSE KeptRoute(k)
    BY <1>2, <1>10 DEF KeptRoute
  <2>. QED
    BY <1>3, <1>5, <1>10, <2>1, <2>2 DEF KeptRoute
<1>. QED
  BY <1>9, <1>10

LEMMA RoutesStep ==
  ASSUME ProbeTypes, DriverTypes, Control, Placed, Unique, SlotsCounted, RoutesKept, [Next]_vars
  PROVE  RoutesKept'
<1>1. CASE Gives
  BY <1>1 DEF Gives, RoutesKept, Behind, Running
<1>2. CASE Rests
  <2>1. SameRoutes /\ pc' = pc /\ unit' = unit /\ prev' = prev
    BY <1>2 DEF Rests, probeVars, SameRoutes
  <2>2. \A k \in DOMAIN list' : k \in DOMAIN list /\ list'[k].mcroute = list[k].mcroute
    BY <2>1 DEF SameRoutes
  <2>. QED
    BY <2>1, <2>2, RoutesSame DEF RoutesKept
<1>3. CASE RunsOn
  <2>1. SameRoutes /\ pc \in Behind /\ pc' \in Behind \ {"buses", "units"} /\ list' = list
    BY <1>3 DEF RunsOn, SameRoutes, Running, Behind
  <2>. QED
    BY <2>1, RoutesSame DEF RoutesKept
<1>4. CASE FreshLoad
  BY <1>4, LoadEffect DEF RoutesKept, Behind, Running
<1>5. CASE BusMapped
  <2>1. /\ DOMAIN list' = 1 .. Len(list) + 1
        /\ \A k \in DOMAIN list : list'[k] = list[k]
        /\ list'[Len(list) + 1].mcroute = 0
        /\ Len(list) \in Nat /\ DOMAIN list = 1 .. Len(list)
    BY <1>5, AppendEffect, ListFacts
  <2>2. \A k \in DOMAIN list' : k \in DOMAIN list \/ k = Len(list) + 1
    BY <2>1
  <2>3. \A k \in DOMAIN list' : list'[k].mcroute = 0
    BY <1>5, <2>1, <2>2 DEF RoutesKept, BusMapped
  <2>. QED
    BY <1>5, <2>3 DEF BusMapped, RoutesKept, Behind, Running
<1>6. CASE BusesDone /\ ~Gives
  BY <1>6 DEF BusesDone, Gives, Control, RoutesKept, Behind, Running
<1>7. CASE UnitStored
  <2>1. /\ SameRoutes /\ pc = "units" /\ pc' = "units" /\ unit' = unit /\ unit # 9
    <3>1. Munits[9].mtype = "SAD"
      BY MunitRows
    <3>. QED
      BY <1>7, <3>1, StoreEffect DEF UnitStored, SameRoutes, Unit
  <2>2. unit < 9
    BY <2>1, UnitRange
  <2>. QED
    BY <2>1, <2>2 DEF SameRoutes, RoutesKept, Behind, Running
<1>8. CASE UnitRoute
  <2>1. pc' = "units" /\ unit' = unit /\ DOMAIN list' = DOMAIN list
    BY <1>8, RouteEffect DEF UnitRoute, SameSlots
  <2>2. unit = 9
    <3>1. unit \in {1, 2, 3, 4, 5, 6, 7, 8, 9} /\ Unit.mtype = "SAD"
      BY <1>8, UnitRange DEF UnitRoute
    <3>. QED
      BY <3>1, MunitRows DEF Unit
  <2>3. \A k \in DOMAIN list : RoutesTo(k, prev)' = KeptRoute(k)'
    BY <1>8, RouteRead
  <2>. QED
    BY <2>1, <2>2, <2>3 DEF RoutesKept, Behind, Running
<1>9. CASE UnitDone /\ ~Gives
  <2>1. /\ unit' = unit + 1 /\ prev' = NULL /\ pc = "units" /\ unit \in 1 .. 9
        /\ pc' = IF unit = 9 THEN "register" ELSE "units"
        /\ list' = list /\ machine' = machine
        /\ \A n \in Devices : machine[n].did = Unit.did => ~(n > prev)
    BY <1>9, UnitDoneEffect
  <2>2. SameRoutes /\ Devices \in SUBSET Nat /\ prev \in Nat /\ NULL \notin Devices
    BY <2>1, MachineFacts DEF SameRoutes, ProbeTypes, NULL
  <2>3. CASE unit = 9
    <3>1. \A n \in Devices : machine[n].did = "208e" => n <= prev
      BY <2>1, <2>2, <2>3, MunitRows DEF Unit
    <3>2. \A k \in DOMAIN list : RoutesOf(k) = RoutesTo(k, prev)
      BY <3>1 DEF RoutesOf, RoutesTo, Core
    <3>3. \A k \in DOMAIN list : RoutesOf(k)' = KeptRoute(k)'
      BY <2>1, <2>2, <2>3, <3>2, RoutesSame DEF RoutesKept
    <3>. QED
      BY <2>1, <2>3, <3>3 DEF RoutesKept
  <2>4. CASE unit # 9
    <3>1. \A k \in DOMAIN list : list'[k].mcroute = 0
      BY <2>1, <2>4 DEF RoutesKept
    <3>2. \A k \in DOMAIN list : RoutesTo(k, prev)' = {} /\ KeptRoute(k)' = {}
      <4>1. \A n \in Devices : ~(n <= NULL)
        BY <2>2 DEF NULL
      <4>. QED
        BY <2>1, <3>1, <4>1 DEF RoutesTo, KeptRoute, Devices
    <3>. QED
      BY <2>1, <2>4, <3>1, <3>2 DEF RoutesKept, Behind, Running
  <2>. QED
    BY <2>3, <2>4
<1>10. CASE RegisterOK \/ RegisterDone
  <2>1. SameRoutes /\ pc \in Behind /\ pc' \in Behind \ {"buses", "units"}
    BY <1>10, RegisterEffect DEF RegisterOK, RegisterDone, SameSlots, SameRoutes, Running, Behind
  <2>2. DOMAIN list' = DOMAIN list
    BY <2>1 DEF SameRoutes
  <2>. QED
    BY <2>1, <2>2, RoutesSame DEF RoutesKept
<1>. QED
  BY <1>1, <1>2, <1>3, <1>4, <1>5, <1>6, <1>7, <1>8, <1>9, <1>10, StepKinds

-----------------------------------------------------------------------------
(* The controllers and the walk.                                           *)

(* Controller i is of socket i \div 2 + 1.                                 *)
LEMMA OfSocket ==
  ASSUME NEW i \in Nat, NEW k \in Nat \ {0}
  PROVE  i \div NumImc + 1 = k <=> i \in {2 * k - 2, 2 * k - 1}
<1>1. i \div 2 \in Nat /\ 2 * (i \div 2) <= i /\ i <= 2 * (i \div 2) + 1
  OBVIOUS
<1>. QED
  BY <1>1 DEF NumImc

LEMMA McsStep ==
  ASSUME ProbeTypes, DriverTypes, Control, McsKept, [Next]_vars
  PROVE  McsKept'
<1>0. \A k \in DOMAIN list : k \in Nat \ {0}
  BY ListFacts
<1>1. CASE Gives
  BY <1>1 DEF Gives, McsKept, Running
<1>2. CASE Rests
  BY <1>2 DEF Rests, probeVars, McsKept
<1>3. CASE RunsOn
  BY <1>3 DEF RunsOn, McsKept, Running
<1>4. CASE FreshLoad
  BY <1>4, LoadEffect DEF McsKept, Running
<1>5. CASE BusMapped
  <2>1. /\ DOMAIN list' = 1 .. Len(list) + 1
        /\ \A k \in DOMAIN list : list'[k] = list[k]
        /\ list'[Len(list) + 1].mci = {}
        /\ Len(list) \in Nat /\ DOMAIN list = 1 .. Len(list)
    BY <1>5, AppendEffect, ListFacts
  <2>2. \A k \in DOMAIN list' : k \in DOMAIN list \/ k = Len(list) + 1
    BY <2>1
  <2>3. \A k \in DOMAIN list' : list'[k].mci = {}
    BY <1>5, <2>1, <2>2 DEF McsKept, BusMapped
  <2>. QED
    BY <1>5, <2>3 DEF BusMapped, McsKept, Running
<1>6. CASE BusesDone /\ ~Gives
  BY <1>6 DEF BusesDone, Gives, McsKept, Running
<1>7. CASE UnitStored
  BY <1>7, StoreEffect DEF UnitStored, McsKept, Running
<1>8. CASE UnitRoute
  BY <1>8, RouteEffect DEF UnitRoute, SameSlots, McsKept, Running
<1>9. CASE UnitDone /\ ~Gives
  <2>1. pc = "units" /\ pc' \in {"units", "register"} /\ list' = list /\ mc' = mc /\ mc = 0
    BY <1>9 DEF UnitDone, Gives, Control
  <2>2. \A k : {i \in 0 .. mc - 1 : i \div NumImc + 1 = k} = {}
    BY <2>1
  <2>. QED
    BY <2>1, <2>2 DEF McsKept, Running
<1>10. CASE RegisterOK
  <2>1. /\ SocketOfMc \in DOMAIN list /\ DOMAIN list' = DOMAIN list
        /\ \A k \in DOMAIN list :
             list'[k].mci = IF k = SocketOfMc THEN list[k].mci \cup {mc} ELSE list[k].mci
    BY <1>10, RegisterEffect DEF SameSlots
  <2>2. pc = "register" /\ pc' = "register" /\ mc' = mc + 1 /\ mc \in Nat
    BY <1>10 DEF RegisterOK, ProbeTypes
  <2>3. 0 .. mc' - 1 = (0 .. mc - 1) \cup {mc}
    BY <2>2
  <2>4. ASSUME NEW k \in DOMAIN list
        PROVE  list'[k].mci = {i \in 0 .. mc' - 1 : i \div NumImc + 1 = k}
    <3>1. list[k].mci = {i \in 0 .. mc - 1 : i \div NumImc + 1 = k}
      BY <2>2 DEF McsKept
    <3>2. k = SocketOfMc <=> mc \div NumImc + 1 = k
      BY DEF SocketOfMc
    <3>. QED
      BY <2>1, <2>3, <3>1, <3>2
  <2>. QED
    BY <2>1, <2>2, <2>4 DEF McsKept, Running
<1>11. CASE RegisterDone
  <2>1. /\ pc = "register" /\ pc' = "adxl" /\ list' = list /\ list # <<>>
        /\ mc \div NumImc + 1 > Len(list) /\ mc \in Nat
    BY <1>11 DEF RegisterDone, SocketOfMc, Control, ProbeTypes
  <2>2. mc >= 2 * Len(list)
    <3>1. mc \div 2 \in Nat /\ 2 * (mc \div 2) <= mc /\ mc \div 2 >= Len(list)
      BY <2>1, ListFacts DEF NumImc
    <3>. QED
      BY <2>1, <3>1, ListFacts
  <2>3. ASSUME NEW k \in DOMAIN list PROVE Cardinality(list[k].mci) = NumImc
    <3>. DEFINE a == 2 * k - 2
                b == 2 * k - 1
    <3>1. k \in Nat \ {0} /\ k <= Len(list) /\ Len(list) \in Nat
      BY ListFacts
    <3>2. a \in 0 .. mc - 1 /\ b \in 0 .. mc - 1 /\ a # b
      BY <2>1, <2>2, <3>1
    <3>3. list[k].mci = {i \in 0 .. mc - 1 : i \div NumImc + 1 = k}
      BY <2>1 DEF McsKept
    <3>4. \A i \in 0 .. mc - 1 : i \div NumImc + 1 = k <=> i \in {a, b}
      <4>1. \A i \in 0 .. mc - 1 : i \in Nat
        BY <2>1
      <4>. QED
        BY <3>1, <4>1, OfSocket, Zenon
    <3>. HIDE DEF a, b
    <3>5. list[k].mci = {a} \cup {b}
      BY <3>2, <3>3, <3>4
    <3>6. IsFiniteSet({a}) /\ Cardinality({a}) = 1
      BY FS_Singleton
    <3>. QED
      BY <3>2, <3>5, <3>6, FS_AddElement DEF NumImc
  <2>. QED
    BY <2>1, <2>3 DEF McsKept
<1>. QED
  BY <1>1, <1>2, <1>3, <1>4, <1>5, <1>6, <1>7, <1>8, <1>9, <1>10, <1>11, StepKinds

(* The list changes only while no thread is there.                         *)
LEMMA WalkStep ==
  ASSUME ProbeTypes, DriverTypes, Control, KeptOrLost, WalkInList, [Next]_vars
  PROVE  WalkInList'
<1>1. task = "visit" => pc \in {"live", "stopping"}
  BY DEF KeptOrLost, Poll!Alive
<1>2. CASE ThreadStep
  <2>1. list' = list /\ DOMAIN list = 1 .. Len(list) /\ Len(list) \in Nat /\ at \in Nat
    BY <1>2, ListFacts DEF ThreadStep, probeVars, DriverTypes
  <2>2. task' = "visit" => at' \in {1, at + 1} /\ at' <= Len(list)
    BY <1>2, <2>1 DEF ThreadStep, Poll!Step, Poll!Begin, Poll!Check, Poll!Visit, Poll!Fail,
         Poll!Wake, Poll!Return, Poll!Walk, size
  <2>. QED
    BY <2>1, <2>2 DEF WalkInList
<1>3. CASE ~ThreadStep
  <2>1. task' = "visit" => task = "visit" /\ at' = at
    BY <1>3 DEF Next, InitGoesOn, ExitGoesOn, ProbeStep, RemoveStep, FreshLoad, AdxlGet, SetupDebug,
         StartThread, StartFails, Reap, Exit, ExitFreed, Stopped, Teardown, AdxlPut, vars, driverVars,
         thread
  <2>2. pc \in {"live", "stopping"} => list' = list
    BY <1>3 DEF Next, InitGoesOn, ExitGoesOn, ProbeStep, RemoveStep, FreshLoad, Load, AdxlGet,
         SetupDebug, StartThread, StartFails, Reap, Exit, ExitFreed, Stopped, Teardown, AdxlPut, Moves,
         Probe, Remove, BusMapped, BusFails, BusesDone, UnitStored, UnitRoute, UnitFails, UnitDone,
         RegisterOK, RegisterFails, RegisterDone, RemoveSocket, Removed, vars, probeVars
  <2>. QED
    BY <1>1, <2>1, <2>2 DEF WalkInList
<1>. QED
  BY <1>2, <1>3

-----------------------------------------------------------------------------
(* The theorems.                                                           *)

LEMMA WholeInit == Init => WholeInv
<1>. SUFFICES ASSUME Init PROVE WholeInv
  OBVIOUS
<1>1. pc = "absent" /\ task = "none"
  BY DEF Init, ProbeInit
<1>. QED
  BY <1>1, InvInit DEF WholeInv, SlotsCounted, RoutesKept, McsKept, WalkInList, Behind, Running

LEMMA WholeStep == WholeInv /\ [Next]_vars => WholeInv'
<1>. SUFFICES ASSUME WholeInv, [Next]_vars PROVE WholeInv'
  OBVIOUS
<1>. USE DEF WholeInv, DriverInv, DeviceInv
<1>1. DriverInv'
  BY InvStep
<1>2. SlotsCounted'
  BY CountedStep
<1>3. RoutesKept'
  BY RoutesStep
<1>4. McsKept'
  BY McsStep
<1>5. WalkInList'
  BY WalkStep
<1>. QED
  BY <1>1, <1>2, <1>3, <1>4, <1>5

LEMMA WholeInvariance == Spec => []WholeInv
BY WholeInit, WholeStep, PTL DEF Spec

(* A slot of a socket is of one unit, and when that is full the device in  *)
(* it is one that fits.                                                    *)
LEMMA RightAtLast ==
  ASSUME WholeInv, pc \in Behind, NEW k \in DOMAIN list, NEW s \in Slots
  PROVE  RightDevice(k, s, list[k].slot[s])
<1>. USE DEF WholeInv, DriverInv, DeviceInv
<1>1. PICK u \in DOMAIN Munits : Munits[u].mtype = s[1]
  <2>1. s[1] \in {"SAD_ALL", "UTIL_ALL"} \cup ChanTypes \cup ErrTypes
    BY DEF Slots, SocketSlots
  <2>. QED
    BY <2>1, MunitRows DEF ChanTypes, ErrTypes
<1>2. list[k].slot[s] \in Devices
  <2>1. list[k].slot[s] # NULL
    BY <1>1 DEF SlotsCounted, Full, SlotsOf
  <2>. QED
    BY <2>1, ListFacts
<1>3. PICK v \in DOMAIN Munits : Fits(v, k, s, list[k].slot[s])
  BY <1>2 DEF Placed
<1>4. MunitOf(s[1]) = v
  <2>1. Munits[v].mtype = s[1] /\ \A w \in DOMAIN Munits : Munits[w].mtype = s[1] => w = v
    BY <1>3, MunitFacts DEF Fits
  <2>. QED
    BY <2>1 DEF MunitOf
<1>. QED
  BY <1>2, <1>3, <1>4 DEF RightDevice, Fits

(* The count of skx_base.c:821 is enough: behind the search every socket   *)
(* has every device, of its own bus and of the right address, and goes by  *)
(* the route that all its cores agree on.                                  *)
THEOREM SocketsHold == Spec => []SocketsWhole
<1>1. WholeInv => SocketsWhole
  <2>. SUFFICES ASSUME WholeInv, pc \notin {"absent", "buses", "units", "remove"},
                       NEW k \in DOMAIN list
                PROVE  /\ \A s \in Slots : RightDevice(k, s, list[k].slot[s])
                       /\ RoutesOf(k) = KeptRoute(k)
    BY DEF SocketsWhole, KeptRoute
  <2>1. pc \in Behind
    BY DEF WholeInv, DriverInv, DeviceInv, DriverTypes, Phases, Behind, Running
  <2>. QED
    BY <2>1, RightAtLast DEF WholeInv, RoutesKept
<1>. QED
  BY <1>1, WholeInvariance, PTL

(* What the thread and an injected error reach without a lock is there as  *)
(* long as the one lives or the other can be made, whatever loads came     *)
(* before and failed.                                                      *)
THEOREM NoUseAfterFreeHolds == Spec => []NoUseAfterFree
<1>1. WholeInv => NoUseAfterFree
  <2>. SUFFICES ASSUME WholeInv, task \in Poll!Alive \/ (debugfs /\ ~abandoned)
                PROVE  Whole /\ (task = "visit" => at \in DOMAIN list)
    BY DEF NoUseAfterFree
  <2>. USE DEF WholeInv, DriverInv, DeviceInv
  <2>1. pc \in {"start", "live", "stopping", "teardown", "hung"}
    BY DEF KeptOrLost, Kept
  <2>2. pc \in Running /\ pc \in Behind
    BY <2>1 DEF Running, Behind
  <2>3. \A k \in DOMAIN list : \A s \in Slots : list[k].slot[s] # NULL
    <3>1. \A k \in DOMAIN list : \A s \in Slots : list[k].slot[s] \in Devices
      BY <2>2, RightAtLast DEF RightDevice
    <3>. QED
      BY <3>1, MachineFacts DEF ProbeTypes
  <2>4. list # <<>> /\ \A k \in DOMAIN list : Cardinality(list[k].mci) = NumImc
    BY <2>2 DEF McsKept
  <2>5. adxl.count => adxl.values = "live" /\ adxl.msg = "live"
    BY <2>1 DEF Buffers, AdxlOutcomes, NoAdxl
  <2>. QED
    BY <2>3, <2>4, <2>5 DEF Whole, WalkInList
<1>. QED
  BY <1>1, WholeInvariance, PTL
=============================================================================
