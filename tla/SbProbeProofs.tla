--------------------------- MODULE SbProbeProofs ---------------------------
(***************************************************************************)
(* Theorems about sbridge_probe() and sbridge_remove(), for every machine  *)
(* of every processor of SbTables: however the PCI devices lie and         *)
(* whatever fails, the references are those of the controllers' devices,   *)
(* and all are put in the end.                                             *)
(*                                                                         *)
(* Two conditions on a machine make the difference.  Its sockets agree     *)
(* whether they have a second home agent, or none has one: where only some *)
(* have, the skip of sb_edac.c:2443 leaves *prev where it is and puts it   *)
(* again and again.  And the devices of a controller fit its pdev array.   *)
(***************************************************************************)
EXTENDS SbProbe, FiniteSetTheorems, SequenceTheorems, WellFoundedInduction, TLAPS

-----------------------------------------------------------------------------
(* The conditions.                                                         *)

IsFor(n, d)  == table.descr[d].id = Dev(n).id
HA1On(b)     == /\ table.descr[HA1Entry].dom = IMC1
                /\ \E h \in Devices : IsFor(h, HA1Entry) /\ Dev(h).bus = b
SocketsAgree ==
  \/ \A h \in Devices : ~IsFor(h, HA1Entry)
  \/ \A n \in Devices, d \in DOMAIN table.descr :
       IsFor(n, d) /\ table.descr[d].dom = IMC1 => HA1On(Dev(n).bus)

Share(bus, dom) ==
  {n \in Devices : /\ Dev(n).bus = bus
                   /\ \E d \in DOMAIN table.descr : IsFor(n, d) /\ table.descr[d].dom \in {SOCK, dom}}
Fits ==
  ~Knl => \A n \in Devices, dom \in {IMC0, IMC1} :
            Cardinality(Share(Dev(n).bus, dom)) <= table.n_devs_per_imc

-----------------------------------------------------------------------------
(* The inductive invariant.                                                *)

Buses       == {Dev(n).bus : n \in Devices}
Controllers == [bus : Buses, dom : {IMC0, IMC1}, pdev : Seq(TableDevices), mci : BOOLEAN]
Types ==
  /\ machine \in Machines
  /\ refs \in [Devices -> Int]
  /\ list \in Seq(Controllers)
  /\ pc \in {"get", "register", "fail1", "done", "removed"}
  /\ devno \in 1 .. Len(table.descr) + 1
  /\ prev \in TableDevices \cup {NULL}
  /\ left \in SUBSET TableDevices
  /\ mc \in Nat \ {0}
  /\ rc \in {-1, 0}

(* How far it has come.                                                    *)
Progress ==
  /\ pc = "get" => devno <= Len(table.descr) /\ mc = 1
  /\ pc \in {"get", "register"} => rc = 0
  /\ pc = "fail1" => rc = -1
  /\ pc = "removed" => rc = 0
  /\ Released => list = <<>>
  /\ list # <<>> => mc <= Len(list) + 1
  /\ pc = "register" => \A k \in DOMAIN list : k < mc => list[k].mci
  /\ pc = "done" /\ rc = 0 => \A k \in DOMAIN list : list[k].mci

(* A device that the search has behind it, when it looks for an entry from *)
(* a device on: no entry to come is for it but, with the device no further *)
(* than that one, the present entry.                                       *)
BehindAt(n, entry, from) ==
  \A d \in entry .. Len(table.descr) :
    IsFor(n, d) => ~Knl /\ d = entry /\ from # NULL /\ n <= from
Behind(n) == BehindAt(n, devno, prev)

(* Where the search stands: on a device of the entry; the devices stored   *)
(* nowhere are behind it; a bus whose second home agent is behind it has   *)
(* its second controller, and only such a bus has; that of Knights Landing *)
(* comes with the first entry.                                             *)
HasIMC1In(l, bus) == \E k \in DOMAIN l : l[k].bus = bus /\ l[k].dom = IMC1
WalkAt(l, entry, from, lost) ==
  /\ from # NULL => /\ IsFor(from, entry)
                    /\ table.descr[entry].dom = IMC1 => HasIMC1In(l, Dev(from).bus)
  /\ \A n \in lost : BehindAt(n, entry, from)
  /\ table.descr[HA1Entry].dom = IMC1 =>
       \A h \in Devices : IsFor(h, HA1Entry) /\ BehindAt(h, entry, from) => HasIMC1In(l, Dev(h).bus)
  /\ \A k \in DOMAIN l : l[k].dom = IMC1 => HA1On(l[k].bus)
  /\ Knl /\ (entry # HA0Entry \/ from # NULL) => l # <<>>
Searched == pc = "get" \/ (pc = "register" /\ devno > Len(table.descr))
Walk     == Searched => WalkAt(list, devno, prev, left)

(* What it has gathered: one controller of a bus and domain, one for each  *)
(* device of the first controller that is behind it, and in each all of    *)
(* its share that is.                                                      *)
GatheredAt(l, entry, from) ==
  /\ \A j, k \in DOMAIN l : l[j].bus = l[k].bus /\ l[j].dom = l[k].dom => j = k
  /\ \A n \in Devices, d \in DOMAIN table.descr :
       IsFor(n, d) /\ table.descr[d].dom = IMC0 /\ BehindAt(n, entry, from) =>
         \E k \in DOMAIN l : l[k].bus = Dev(n).bus /\ l[k].dom = IMC0
  /\ \A k \in DOMAIN l : \A n \in Share(l[k].bus, l[k].dom) :
       BehindAt(n, entry, from) => \E s \in DOMAIN l[k].pdev : l[k].pdev[s] = n
Gathered == Searched /\ ~Knl /\ SocketsAgree => GatheredAt(list, devno, prev)

(* What a controller holds, and that it is no more than its share; one of  *)
(* Knights Landing has gained one device at most of every entry.           *)
Stored(c, most) ==
  IF Knl
    THEN Len(c.pdev) <= most
    ELSE /\ \A s, t \in DOMAIN c.pdev : c.pdev[s] = c.pdev[t] => s = t
         /\ \A s \in DOMAIN c.pdev : c.pdev[s] \in Share(c.bus, c.dom)
StoresAt(l, entry, from) ==
  \A k \in DOMAIN l : /\ Stored(l[k], entry - 1)
                      /\ ~Knl => \A s \in DOMAIN l[k].pdev : BehindAt(l[k].pdev[s], entry, from)
Stores == IF pc = "get" THEN StoresAt(list, devno, prev)
                        ELSE \A k \in DOMAIN list : Stored(list[k], table.n_devs_per_imc)

(* The references, with one on the device the search goes on from and one  *)
(* on each that was lost.                                                  *)
HoldersIn(l, n) == UNION {{k} \X {s \in DOMAIN l[k].pdev : l[k].pdev[s] = n} : k \in DOMAIN l}
StandsOn(n, from) == IF from = n THEN 1 ELSE 0
LostOf(n, lost)   == IF n \in lost THEN 1 ELSE 0
Exact(r, l, from, lost) ==
  /\ \A n \in Devices \ TableDevices : r[n] >= 0
  /\ \A n \in TableDevices : r[n] = Cardinality(HoldersIn(l, n)) + StandsOn(n, from) + LostOf(n, lost)
Counted ==
  /\ \A n \in Devices : IsFiniteSet(HoldersIn(list, n))
  /\ SocketsAgree =>
       /\ ~Released => Exact(refs, list, IF pc = "get" THEN prev ELSE NULL, left)
       /\ Released => \A n \in Devices : refs[n] >= 0
       /\ Released /\ Fits => \A n \in TableDevices : refs[n] = LostOf(n, left)

ProbeInv == Types /\ Progress /\ Walk /\ Gathered /\ Stores /\ Counted

-----------------------------------------------------------------------------
(* The tables.                                                             *)

(* Entries of the same id stand together and are Knights Landing's; those  *)
(* of a second controller come after its home agent's, which is the second *)
(* of the table; those of the socket come last.                            *)
WellFormed(descr, knl) ==
  /\ Len(descr) \in Nat /\ Len(descr) >= 2 /\ DOMAIN descr = 1 .. Len(descr)
  /\ descr[HA0Entry].dom = IMC0 /\ (knl => ~descr[HA0Entry].optional)
  /\ \A d \in DOMAIN descr :
       /\ descr[d].dom \in {IMC0, IMC1, SOCK} /\ descr[d].id # "VTD"
       /\ descr[d].dom = IMC1 => d >= HA1Entry /\ descr[HA1Entry].dom = IMC1 /\ ~knl
  /\ \A d, e \in DOMAIN descr :
       d < e => /\ descr[d].id = descr[e].id => knl /\ descr[d + 1].id = descr[d].id
                /\ descr[d].dom = SOCK => descr[e].dom = SOCK

LEMMA Apart == IMC0 # IMC1 /\ IMC0 # SOCK /\ IMC1 # SOCK
BY DEF IMC0, IMC1, SOCK

(* A table of two home agents, each id once and the sockets' devices last. *)
LEMMA TwoHomeAgents ==
  ASSUME NEW t, NEW n \in Nat, n >= 2, Len(t) = n, DOMAIN t = 1 .. n,
         \A d \in 1 .. n : t[d].dom \in {IMC0, IMC1, SOCK},
         t[1].dom = IMC0, t[2].dom = IMC1,
         \A d, e \in 1 .. n : t[d].id = t[e].id /\ d < e => FALSE,
         \A d \in 1 .. n : t[d].id # "VTD",
         \A d, e \in 1 .. n : d < e /\ t[d].dom = SOCK => t[e].dom = SOCK
  PROVE  WellFormed(t, FALSE)
<1>1. ASSUME NEW d \in DOMAIN t
      PROVE  /\ t[d].dom \in {IMC0, IMC1, SOCK} /\ t[d].id # "VTD"
             /\ t[d].dom = IMC1 => d >= 2
  <2>1. d # 1 => d >= 2
    OBVIOUS
  <2>2. t[d].dom = IMC1 => d # 1
    BY Apart
  <2>3. t[d].dom \in {IMC0, IMC1, SOCK} /\ t[d].id # "VTD"
    OBVIOUS
  <2>. QED
    BY <2>1, <2>2, <2>3
<1>2. ASSUME NEW d \in DOMAIN t, NEW e \in DOMAIN t, d < e
      PROVE  t[d].id # t[e].id /\ (t[d].dom = SOCK => t[e].dom = SOCK)
  BY <1>2, Zenon
<1>3. /\ Len(t) \in Nat /\ Len(t) >= 2 /\ DOMAIN t = 1 .. Len(t)
      /\ t[HA0Entry].dom = IMC0 /\ t[HA1Entry].dom = IMC1 /\ HA1Entry = 2
  BY DEF HA0Entry, HA1Entry
<1>. QED
  BY <1>1, <1>2, <1>3, Zenon DEF WellFormed

LEMMA SandyBridgeTable ==
  /\ WellFormed(pci_dev_descr_sbridge, FALSE)
  /\ \A d \in DOMAIN pci_dev_descr_sbridge : pci_dev_descr_sbridge[d].dom # IMC1
<1>. DEFINE t == pci_dev_descr_sbridge
<1>1. Len(t) = 11 /\ DOMAIN t = 1 .. 11
  BY DEF pci_dev_descr_sbridge, Descr
<1>2. \A d \in 1 .. 11 :
        /\ t[d].dom \in {IMC0, IMC1, SOCK} /\ t[d].id # "VTD"
        /\ d = 1 => t[d].dom = IMC0
        /\ t[d].dom = IMC1 => d >= 2 /\ FALSE
  BY DEF pci_dev_descr_sbridge, Descr, IMC0, IMC1, SOCK
<1>3. \A d, e \in 1 .. 11 : t[d].id = t[e].id /\ d < e => FALSE
  BY DEF pci_dev_descr_sbridge, Descr
<1>9. \A d, e \in 1 .. 11 : d < e /\ t[d].dom = SOCK => t[e].dom = SOCK
  BY DEF pci_dev_descr_sbridge, Descr, IMC0, IMC1, SOCK
<1>. HIDE DEF t
<1>4. WellFormed(t, FALSE)
  BY <1>1, <1>2, <1>3, <1>9 DEF WellFormed, HA0Entry, HA1Entry
<1>5. \A d \in DOMAIN t : t[d].dom # IMC1
  BY <1>1, <1>2
<1>. QED
  BY <1>4, <1>5 DEF t

LEMMA IvyBridgeTable == WellFormed(pci_dev_descr_ibridge, FALSE)
<1>. DEFINE t == pci_dev_descr_ibridge
<1>1. Len(t) = 19 /\ DOMAIN t = 1 .. 19
  BY DEF pci_dev_descr_ibridge, Descr
<1>2. \A d \in 1 .. 19 : t[d].dom \in {IMC0, IMC1, SOCK}
  BY DEF pci_dev_descr_ibridge, Descr, IMC0, IMC1, SOCK
<1>3. t[1].dom = IMC0 /\ t[2].dom = IMC1
  BY DEF pci_dev_descr_ibridge, Descr, IMC0, IMC1
<1>4. \A d, e \in 1 .. 19 : t[d].id = t[e].id /\ d < e => FALSE
  BY DEF pci_dev_descr_ibridge, Descr
<1>5. \A d \in 1 .. 19 : t[d].id # "VTD"
  BY SMTT(30) DEF pci_dev_descr_ibridge, Descr
<1>9. \A d, e \in 1 .. 19 : d < e /\ t[d].dom = SOCK => t[e].dom = SOCK
  BY DEF pci_dev_descr_ibridge, Descr, IMC0, IMC1, SOCK
<1>. HIDE DEF t
<1>6. WellFormed(t, FALSE)
  <2>1. 19 \in Nat /\ 19 >= 2
    OBVIOUS
  <2>. QED
    BY <1>1, <1>2, <1>3, <1>4, <1>5, <1>9, <2>1, TwoHomeAgents, Zenon
<1>. QED
  BY <1>6 DEF t

LEMMA HaswellTable == WellFormed(pci_dev_descr_haswell, FALSE)
<1>. DEFINE t == pci_dev_descr_haswell
<1>1. Len(t) = 24 /\ DOMAIN t = 1 .. 24
  BY DEF pci_dev_descr_haswell, Descr
<1>2. \A d \in 1 .. 24 : t[d].dom \in {IMC0, IMC1, SOCK}
  BY DEF pci_dev_descr_haswell, Descr, IMC0, IMC1, SOCK
<1>3. t[1].dom = IMC0 /\ t[2].dom = IMC1
  BY DEF pci_dev_descr_haswell, Descr, IMC0, IMC1
<1>4. \A d, e \in 1 .. 24 : t[d].id = t[e].id /\ d < e => FALSE
  BY DEF pci_dev_descr_haswell, Descr
<1>5. \A d \in 1 .. 24 : t[d].id # "VTD"
  BY SMTT(30) DEF pci_dev_descr_haswell, Descr
<1>9. \A d, e \in 1 .. 24 : d < e /\ t[d].dom = SOCK => t[e].dom = SOCK
  BY DEF pci_dev_descr_haswell, Descr, IMC0, IMC1, SOCK
<1>. HIDE DEF t
<1>6. WellFormed(t, FALSE)
  <2>1. 24 \in Nat /\ 24 >= 2
    OBVIOUS
  <2>. QED
    BY <1>1, <1>2, <1>3, <1>4, <1>5, <1>9, <2>1, TwoHomeAgents, Zenon
<1>. QED
  BY <1>6 DEF t

LEMMA BroadwellTable == WellFormed(pci_dev_descr_broadwell, FALSE)
<1>. DEFINE t == pci_dev_descr_broadwell
<1>1. Len(t) = 25 /\ DOMAIN t = 1 .. 25
  BY DEF pci_dev_descr_broadwell, Descr
<1>2. \A d \in 1 .. 25 : t[d].dom \in {IMC0, IMC1, SOCK}
  BY DEF pci_dev_descr_broadwell, Descr, IMC0, IMC1, SOCK
<1>3. t[1].dom = IMC0 /\ t[2].dom = IMC1
  BY DEF pci_dev_descr_broadwell, Descr, IMC0, IMC1
<1>4. \A d, e \in 1 .. 25 : t[d].id = t[e].id /\ d < e => FALSE
  BY DEF pci_dev_descr_broadwell, Descr
<1>5. \A d \in 1 .. 25 : t[d].id # "VTD"
  BY SMTT(30) DEF pci_dev_descr_broadwell, Descr
<1>9. \A d, e \in 1 .. 25 : d < e /\ t[d].dom = SOCK => t[e].dom = SOCK
  BY DEF pci_dev_descr_broadwell, Descr, IMC0, IMC1, SOCK
<1>. HIDE DEF t
<1>6. WellFormed(t, FALSE)
  <2>1. 25 \in Nat /\ 25 >= 2
    OBVIOUS
  <2>. QED
    BY <1>1, <1>2, <1>3, <1>4, <1>5, <1>9, <2>1, TwoHomeAgents, Zenon
<1>. QED
  BY <1>6 DEF t

(* The entries of Knights Landing's table, those of an id together.        *)
KnlId(d) == IF d <= 2 THEN "MC" ELSE IF d <= 8 THEN "CHAN" ELSE IF d = 9 THEN "TA" ELSE IF d = 10 THEN "TOLHM"
            ELSE IF d = 11 THEN "SAD0" ELSE IF d = 12 THEN "SAD1" ELSE "CHA"

LEMMA KnlEntries ==
  /\ Len(pci_dev_descr_knl) = 50 /\ DOMAIN pci_dev_descr_knl = 1 .. 50
  /\ \A d \in 1 .. 50 : /\ pci_dev_descr_knl[d].id = KnlId(d)
                        /\ pci_dev_descr_knl[d].optional = FALSE
                        /\ pci_dev_descr_knl[d].dom = IF d <= 10 THEN IMC0 ELSE SOCK
<1>1. Len(pci_dev_descr_knl) = 50 /\ DOMAIN pci_dev_descr_knl = 1 .. 50
  BY SMTT(60) DEF pci_dev_descr_knl, Descr, KNL_MAX_CHAS
<1>2. \A d \in 1 .. 50 : pci_dev_descr_knl[d].id = KnlId(d)
  BY SMTT(60) DEF pci_dev_descr_knl, Descr, KNL_MAX_CHAS, KnlId
<1>3. \A d \in 1 .. 50 : pci_dev_descr_knl[d].optional = FALSE
  BY SMTT(60) DEF pci_dev_descr_knl, Descr, KNL_MAX_CHAS
<1>4. \A d \in 1 .. 50 : pci_dev_descr_knl[d].dom = IF d <= 10 THEN IMC0 ELSE SOCK
  BY SMTT(60) DEF pci_dev_descr_knl, Descr, KNL_MAX_CHAS
<1>. QED
  BY <1>1, <1>2, <1>3, <1>4

LEMMA KnlTable == WellFormed(pci_dev_descr_knl, TRUE)
<1>. DEFINE t == pci_dev_descr_knl
<1>1. Len(t) = 50 /\ DOMAIN t = 1 .. 50
  BY KnlEntries
<1>. HIDE DEF t
<1>0. \A d \in 1 .. 50 : /\ t[d].id = KnlId(d) /\ t[d].optional = FALSE
                          /\ t[d].dom = IF d <= 10 THEN IMC0 ELSE SOCK
  BY KnlEntries DEF t
<1>2. \A d \in 1 .. 50 :
        /\ t[d].dom \in {IMC0, SOCK} /\ t[d].id # "VTD"
        /\ d = 1 => t[d].dom = IMC0 /\ ~t[d].optional
  <2>1. \A d \in 1 .. 50 : KnlId(d) # "VTD" /\ (d = 1 => d <= 10)
    BY DEF KnlId
  <2>. QED
    BY <1>0, <2>1, Zenon
<1>3. \A d, e \in 1 .. 50 : t[d].id = t[e].id /\ d < e => t[d + 1].id = t[d].id
  <2>1. \A d, e \in 1 .. 50 : KnlId(d) = KnlId(e) /\ d < e => KnlId(d + 1) = KnlId(d)
    BY DEF KnlId
  <2>2. \A d, e \in 1 .. 50 : d < e => d + 1 \in 1 .. 50
    OBVIOUS
  <2>. QED
    BY <1>0, <2>1, <2>2
<1>9. \A d, e \in 1 .. 50 : d < e /\ t[d].dom = SOCK => t[e].dom = SOCK
  <2>. SUFFICES ASSUME NEW d \in 1 .. 50, NEW e \in 1 .. 50, d < e, t[d].dom = SOCK
                PROVE  t[e].dom = SOCK
    OBVIOUS
  <2>1. ~(d <= 10)
    BY <1>0, Apart, Zenon
  <2>2. ~(e <= 10)
    BY <2>1
  <2>. QED
    BY <1>0, <2>2, Zenon
<1>4. WellFormed(t, TRUE)
  <2>1. \A d \in DOMAIN t : t[d].dom # IMC1 /\ t[d].dom \in {IMC0, IMC1, SOCK} /\ t[d].id # "VTD"
    BY <1>1, <1>2, Apart
  <2>2. \A d, e \in DOMAIN t : t[d].id = t[e].id /\ d < e => TRUE /\ t[d + 1].id = t[d].id
    BY <1>1, <1>3
  <2>3. ASSUME NEW d \in DOMAIN t, NEW e \in DOMAIN t, d < e, t[d].dom = SOCK PROVE t[e].dom = SOCK
    <3>1. d \in 1 .. 50 /\ e \in 1 .. 50
      BY <1>1
    <3>. QED
      BY <1>9, <2>3, <3>1
  <2>4. Len(t) \in Nat /\ Len(t) >= 2 /\ DOMAIN t = 1 .. Len(t) /\ t[1].dom = IMC0 /\ ~t[1].optional
    <3>1. 1 \in 1 .. 50 /\ 50 \in Nat /\ 50 >= 2
      OBVIOUS
    <3>. QED
      BY <1>1, <1>2, <3>1, Zenon
  <2>. QED
    BY <2>1, <2>2, <2>3, <2>4, Zenon DEF WellFormed, HA0Entry, HA1Entry
<1>. QED
  BY <1>4 DEF t

LEMMA TableFacts ==
  ASSUME machine \in Machines
  PROVE  /\ WellFormed(table.descr, Knl)
         /\ table.n_devs_per_imc \in Nat /\ table.n_imcs_per_sock \in {1, 2}
         /\ Knl => Len(table.descr) = table.n_devs_per_imc
         /\ table.n_imcs_per_sock = 1 => \A d \in DOMAIN table.descr : table.descr[d].dom # IMC1
<1>0. machine.type \in {"SANDY_BRIDGE", "IVY_BRIDGE", "HASWELL", "BROADWELL", "KNIGHTS_LANDING"}
  BY MachinesAssumption DEF PciIdTable
<1>1. CASE machine.type = "SANDY_BRIDGE"
  <2>1. table.descr = pci_dev_descr_sbridge /\ table.n_devs_per_imc = 11 /\ table.n_imcs_per_sock = 1
    BY <1>1 DEF table, PciIdTable
  <2>2. Knl = FALSE
    BY <1>1 DEF Knl
  <2>3. WellFormed(table.descr, Knl)
    BY <2>1, <2>2, SandyBridgeTable, Zenon
  <2>4. \A d \in DOMAIN table.descr : table.descr[d].dom # IMC1
    BY <2>1, SandyBridgeTable, Zenon
  <2>. QED
    BY <2>1, <2>2, <2>3, <2>4
<1>2. CASE machine.type = "IVY_BRIDGE"
  <2>1. table.descr = pci_dev_descr_ibridge /\ table.n_devs_per_imc = 12 /\ table.n_imcs_per_sock = 2
    BY <1>2 DEF table, PciIdTable
  <2>2. Knl = FALSE
    BY <1>2 DEF Knl
  <2>3. WellFormed(table.descr, Knl)
    BY <2>1, <2>2, IvyBridgeTable, Zenon
  <2>. QED
    BY <2>1, <2>2, <2>3
<1>3. CASE machine.type = "HASWELL"
  <2>1. table.descr = pci_dev_descr_haswell /\ table.n_devs_per_imc = 13 /\ table.n_imcs_per_sock = 2
    BY <1>3 DEF table, PciIdTable
  <2>2. Knl = FALSE
    BY <1>3 DEF Knl
  <2>3. WellFormed(table.descr, Knl)
    BY <2>1, <2>2, HaswellTable, Zenon
  <2>. QED
    BY <2>1, <2>2, <2>3
<1>4. CASE machine.type = "BROADWELL"
  <2>1. table.descr = pci_dev_descr_broadwell /\ table.n_devs_per_imc = 13 /\ table.n_imcs_per_sock = 2
    BY <1>4 DEF table, PciIdTable
  <2>2. Knl = FALSE
    BY <1>4 DEF Knl
  <2>3. WellFormed(table.descr, Knl)
    BY <2>1, <2>2, BroadwellTable, Zenon
  <2>. QED
    BY <2>1, <2>2, <2>3
<1>5. CASE machine.type = "KNIGHTS_LANDING"
  <2>1. table.descr = pci_dev_descr_knl /\ table.n_devs_per_imc = 50 /\ table.n_imcs_per_sock = 1
    BY <1>5 DEF table, PciIdTable
  <2>2. Len(pci_dev_descr_knl) = 50
    BY DEF pci_dev_descr_knl, Descr, KNL_MAX_CHAS
  <2>3. Knl = TRUE
    BY <1>5 DEF Knl
  <2>4. WellFormed(table.descr, Knl)
    BY <2>1, <2>3, KnlTable, Zenon
  <2>5. \A d \in DOMAIN table.descr : table.descr[d].dom # IMC1
    BY <2>3, <2>4, Zenon DEF WellFormed
  <2>. QED
    BY <2>1, <2>2, <2>4, <2>5
<1>. QED
  BY <1>0, <1>1, <1>2, <1>3, <1>4, <1>5

-----------------------------------------------------------------------------
(* Searching and choosing.                                                 *)

LEMMA LeastExists ==
  ASSUME NEW S \in SUBSET Nat, NEW R,
         R = {ss \in Nat \X Nat : ss[1] < ss[2]},
         \E n \in S : \A k \in S : ~(<<k, n>> \in R)
  PROVE  \E n \in S : \A k \in S : n <= k
<1>1. PICK n \in S : \A k \in S : ~(<<k, n>> \in R)
  OBVIOUS
<1>2. ASSUME NEW k \in S PROVE n <= k
  <2>1. k \in Nat /\ n \in Nat
    OBVIOUS
  <2>2. <<k, n>> \in Nat \X Nat /\ <<k, n>>[1] = k /\ <<k, n>>[2] = n
    BY <2>1
  <2>3. ~(k < n)
    BY <1>1, <2>2, Zenon
  <2>. QED
    BY <2>1, <2>3
<1>. QED
  BY <1>2

LEMMA MinFacts ==
  ASSUME NEW S \in SUBSET Nat, S # {}
  PROVE  Min(S) \in S /\ \A k \in S : Min(S) <= k
<1>1. \E n \in S : \A k \in S : ~(<<k, n>> \in OpToRel(<, Nat))
  BY NatLessThanWellFounded, WFMin
<1>2. OpToRel(<, Nat) = {ss \in Nat \X Nat : ss[1] < ss[2]}
  BY Zenon DEF OpToRel
<1>3. \E n \in S : \A k \in S : n <= k
  BY ONLY <1>1, <1>2, LeastExists, Zenon
<1>. QED
  BY <1>3 DEF Min

LEMMA MachineFacts ==
  ASSUME machine \in Machines
  PROVE  /\ Len(machine.devs) \in Nat /\ Devices = 1 .. Len(machine.devs)
         /\ Devices \in SUBSET Nat /\ NULL \notin Devices /\ IsFiniteSet(Devices)
<1>1. Len(machine.devs) \in Nat /\ Devices = 1 .. Len(machine.devs)
  BY MachinesAssumption DEF Devices
<1>. QED
  BY <1>1, FS_Interval DEF NULL

LEMMA SearchFacts ==
  ASSUME machine \in Machines, NEW id, NEW from
  PROVE  /\ Search(id, from) = NULL => \A n \in Devices : n > from => Dev(n).id # id
         /\ Search(id, from) # NULL =>
              /\ Search(id, from) \in Devices /\ Search(id, from) > from
              /\ Dev(Search(id, from)).id = id
              /\ \A n \in Devices : n > from /\ Dev(n).id = id => Search(id, from) <= n
<1>. DEFINE found == {n \in Devices : n > from /\ Dev(n).id = id}
<1>1. found \in SUBSET Nat /\ Devices \in SUBSET Nat /\ NULL \notin Devices
  BY MachineFacts
<1>2. Search(id, from) = IF found = {} THEN NULL ELSE Min(found)
  BY DEF Search
<1>3. found # {} => Min(found) \in found /\ \A k \in found : Min(found) <= k
  BY <1>1, MinFacts
<1>4. CASE found = {}
  BY <1>2, <1>4
<1>5. CASE found # {}
  BY <1>1, <1>2, <1>3, <1>5
<1>. QED
  BY <1>4, <1>5

LEMMA LeastFacts ==
  ASSUME NEW S \in SUBSET Nat, NEW n \in Nat \ {0}
  PROVE  Least(S, n) \subseteq S /\ (S # {} => Least(S, n) # {})
<1>1. ASSUME S # {} PROVE Min(S) \in Least(S, n)
  <2>0. Min(S) \in S /\ \A k \in S : Min(S) <= k
    BY <1>1, MinFacts
  <2>. DEFINE m == Min(S)
  <2>. HIDE DEF m
  <2>1. m \in S /\ \A k \in S : m <= k
    BY <2>0 DEF m
  <2>2. {y \in S : y < m} = {}
    <3>1. \A k \in S : ~(k < m)
      <4>. TAKE k \in S
      <4>1. m <= k /\ k \in Nat /\ m \in Nat
        BY <2>1
      <4>. QED
        BY <4>1, SMT
    <3>. QED
      BY <3>1, Zenon
  <2>3. Cardinality({y \in S : y < m}) < n
    BY <2>2, FS_EmptySet
  <2>4. m \in Least(S, n)
    BY <2>1, <2>3 DEF Least
  <2>. QED
    BY <2>4 DEF m
<1>. QED
  BY <1>1 DEF Least

LEMMA OwnersFacts ==
  ASSUME Types, NEW bus, NEW dom
  PROVE  /\ Owners(bus, dom) \subseteq DOMAIN list /\ IsFiniteSet(Owners(bus, dom))
         /\ ~Knl => \A k \in Owners(bus, dom) : list[k].bus = bus /\ dom \in {SOCK, list[k].dom}
         /\ Knl /\ list # <<>> => Owners(bus, dom) # {}
         /\ ~Knl => \A k \in DOMAIN list : list[k].bus = bus /\ list[k].dom = dom => Owners(bus, dom) # {}
<1>. DEFINE n == IF dom = SOCK THEN table.n_imcs_per_sock ELSE 1
<1>1. n \in Nat \ {0}
  BY TableFacts DEF Types
<1>2. DOMAIN list = 1 .. Len(list) /\ Len(list) \in Nat
  BY DEF Types
<1>3. Matching(bus, dom) \in SUBSET Nat /\ Matching(bus, dom) \subseteq DOMAIN list
  BY <1>2 DEF Matching
<1>4. Owners(bus, dom) = Least(Matching(bus, dom), n)
  BY DEF Owners
<1>. HIDE DEF n
<1>5. Owners(bus, dom) \subseteq Matching(bus, dom)
      /\ (Matching(bus, dom) # {} => Owners(bus, dom) # {})
  BY <1>1, <1>3, <1>4, LeastFacts
<1>6. IsFiniteSet(Owners(bus, dom))
  <2>1. IsFiniteSet(1 .. Len(list))
    BY <1>2, FS_Interval
  <2>. QED
    BY <1>2, <1>3, <1>5, <2>1, FS_Subset
<1>7. Knl => Matching(bus, dom) = DOMAIN list
  BY DEF Matching, multi_bus
<1>8. ~Knl => \A k \in DOMAIN list : k \in Matching(bus, dom) <=> list[k].bus = bus /\ dom \in {SOCK, list[k].dom}
  BY DEF Matching, multi_bus
<1>9. list # <<>> => 1 \in DOMAIN list
  BY <1>2 DEF Types
<1>. QED
  BY <1>3, <1>5, <1>6, <1>7, <1>8, <1>9

-----------------------------------------------------------------------------
(* Taking devices in and putting them.                                     *)

LEMMA ListFacts ==
  ASSUME Types
  PROVE  /\ Len(list) \in Nat /\ DOMAIN list = 1 .. Len(list)
         /\ \A k \in DOMAIN list :
              /\ list[k] \in Controllers
              /\ Len(list[k].pdev) \in Nat /\ DOMAIN list[k].pdev = 1 .. Len(list[k].pdev)
              /\ \A s \in DOMAIN list[k].pdev : list[k].pdev[s] \in TableDevices
<1>1. Len(list) \in Nat /\ DOMAIN list = 1 .. Len(list) /\ \A k \in DOMAIN list : list[k] \in Controllers
  BY LenProperties DEF Types
<1>2. \A c \in Controllers : c.pdev \in Seq(TableDevices)
  BY DEF Controllers
<1>. QED
  BY <1>1, <1>2, LenProperties

(* What a controller holds are devices of the table.                       *)
LEMMA HoldersFacts ==
  ASSUME NEW l \in Seq(Controllers), NEW n
  PROVE  n \notin TableDevices => HoldersIn(l, n) = {}
<1>1. \A k \in DOMAIN l : l[k] \in Controllers
  BY LenProperties
<1>2. \A c \in Controllers : \A s \in DOMAIN c.pdev : c.pdev[s] \in TableDevices
  <2>. TAKE c \in Controllers
  <2>1. c.pdev \in Seq(TableDevices)
    BY DEF Controllers
  <2>. QED
    BY <2>1, LenProperties
<1>. QED
  BY <1>1, <1>2 DEF HoldersIn

(* A controller does not hold more than fits its array.                    *)
LEMMA StoredFits ==
  ASSUME machine \in Machines, Fits, NEW c \in Controllers, Stored(c, table.n_devs_per_imc)
  PROVE  Seen(c) = DOMAIN c.pdev
<1>1. Len(c.pdev) \in Nat /\ DOMAIN c.pdev = 1 .. Len(c.pdev)
  <2>1. c.pdev \in Seq(TableDevices)
    BY DEF Controllers
  <2>. QED
    BY <2>1, LenProperties
<1>2. table.n_devs_per_imc \in Nat
  BY TableFacts
<1>3. Len(c.pdev) <= table.n_devs_per_imc
  <2>1. CASE Knl
    BY <1>1, <1>2, <2>1 DEF Stored
  <2>2. CASE ~Knl
    <3>. DEFINE D == 1 .. Len(c.pdev)
                S == Share(c.bus, c.dom)
    <3>1. c.pdev \in Injection(D, S)
      <4>1. c.pdev \in [D -> S]
        <5>1. c.pdev \in Seq(TableDevices)
          BY DEF Controllers
        <5>2. c.pdev \in [D -> TableDevices]
          BY <5>1, LenProperties
        <5>. QED
          BY <1>1, <2>2, <5>2 DEF Stored
      <4>2. IsInjective(c.pdev)
        BY <2>2 DEF Stored, IsInjective
      <4>. QED
        BY <4>1, <4>2 DEF Injection
    <3>2. IsFiniteSet(S) /\ Cardinality(S) <= table.n_devs_per_imc
      <4>1. S \in SUBSET Devices
        BY DEF Share
      <4>2. c.bus \in Buses /\ c.dom \in {IMC0, IMC1}
        BY DEF Controllers
      <4>. QED
        BY <2>2, <4>1, <4>2, MachineFacts, FS_Subset DEF Fits, Buses
    <3>3. IsFiniteSet(D) /\ Cardinality(D) = Len(c.pdev)
      <4>1. \A n \in Nat : IsFiniteSet(1 .. n) /\ Cardinality(1 .. n) = n
        <5>. TAKE n \in Nat
        <5>1. IsFiniteSet(1 .. n) /\ Cardinality(1 .. n) = IF 1 > n THEN 0 ELSE n - 1 + 1
          BY FS_Interval
        <5>. QED
          BY <5>1
      <4>. QED
        BY <1>1, <4>1
    <3>. HIDE DEF D, S
    <3>5. Cardinality(D) <= Cardinality(S)
      BY <3>1, <3>2, FS_Injection, Zenon
    <3>4. Cardinality(S) \in Nat
      BY <3>2, FS_CardinalityType
    <3>. QED
      BY <1>1, <1>2, <3>2, <3>3, <3>4, <3>5
  <2>. QED
    BY <2>1, <2>2
<1>. QED
  BY <1>1, <1>2, <1>3 DEF Seen

(* What sbridge_put_all_devices() leaves of counted references.            *)
LEMMA PutAllFacts ==
  ASSUME machine \in Machines, NEW l \in Seq(Controllers), NEW r \in [Devices -> Int],
         \A n \in Devices : IsFiniteSet(HoldersIn(l, n))
  PROVE  /\ PutAll(r, l) \in [Devices -> Int]
         /\ \A n \in Devices \ TableDevices : PutAll(r, l)[n] = r[n]
         /\ \A n \in Devices : PutAll(r, l)[n] >= r[n] - Cardinality(HoldersIn(l, n))
         /\ Fits /\ (\A k \in DOMAIN l : Stored(l[k], table.n_devs_per_imc)) =>
              \A n \in Devices : PutAll(r, l)[n] = r[n] - Cardinality(HoldersIn(l, n))
<1>1. \A n \in Devices : /\ Held(l, n) \in SUBSET HoldersIn(l, n)
                         /\ IsFiniteSet(Held(l, n))
                         /\ Cardinality(Held(l, n)) \in Nat
                         /\ Cardinality(HoldersIn(l, n)) \in Nat
                         /\ Cardinality(Held(l, n)) <= Cardinality(HoldersIn(l, n))
  <2>. TAKE n \in Devices
  <2>1. Held(l, n) \in SUBSET HoldersIn(l, n)
    BY DEF Held, HoldersIn, Seen
  <2>. QED
    BY <2>1, FS_Subset, FS_CardinalityType
<1>2. PutAll(r, l) = [n \in Devices |-> r[n] - Cardinality(Held(l, n))]
  BY DEF PutAll
<1>3. ASSUME NEW n \in Devices \ TableDevices PROVE Cardinality(Held(l, n)) = 0
  <2>1. Held(l, n) = {}
    BY <1>1, HoldersFacts
  <2>. QED
    BY <2>1, FS_EmptySet
<1>4. ASSUME Fits, \A k \in DOMAIN l : Stored(l[k], table.n_devs_per_imc), NEW n \in Devices
      PROVE  Held(l, n) = HoldersIn(l, n)
  <2>1. \A k \in DOMAIN l : l[k] \in Controllers
    BY LenProperties
  <2>2. \A k \in DOMAIN l : Seen(l[k]) = DOMAIN l[k].pdev
    BY <1>4, <2>1, StoredFits
  <2>. QED
    BY <2>2 DEF Held, HoldersIn
<1>5. PutAll(r, l) \in [Devices -> Int]
  BY <1>1, <1>2
<1>6. \A n \in Devices : PutAll(r, l)[n] >= r[n] - Cardinality(HoldersIn(l, n))
  BY <1>1, <1>2
<1>7. \A n \in Devices \ TableDevices : PutAll(r, l)[n] = r[n]
  BY <1>2, <1>3
<1>8. ASSUME Fits, \A k \in DOMAIN l : Stored(l[k], table.n_devs_per_imc), NEW n \in Devices
      PROVE  PutAll(r, l)[n] = r[n] - Cardinality(HoldersIn(l, n))
  BY <1>2, <1>4, <1>8
<1>. QED
  BY <1>5, <1>6, <1>7, <1>8

-----------------------------------------------------------------------------
(* Storing a device.                                                       *)

LEMMA Holds ==
  ASSUME NEW l, NEW n, NEW x
  PROVE  x \in HoldersIn(l, n) <=> \E k \in DOMAIN l : \E s \in DOMAIN l[k].pdev :
                                     x = <<k, s>> /\ l[k].pdev[s] = n
BY DEF HoldersIn

(* The controllers in O of list b take device n in, which makes it a: the  *)
(* device is held once more by each.                                       *)
Takes(a, b, O, n) ==
  /\ DOMAIN a = DOMAIN b
  /\ \A k \in DOMAIN b : a[k].pdev = IF k \in O THEN Append(b[k].pdev, n) ELSE b[k].pdev
LEMMA TakeIn ==
  ASSUME NEW b \in Seq(Controllers), NEW O \in SUBSET DOMAIN b, IsFiniteSet(O), NEW n,
         NEW a, Takes(a, b, O, n)
  PROVE  /\ \A m : m # n => HoldersIn(a, m) = HoldersIn(b, m)
         /\ IsFiniteSet(HoldersIn(b, n)) =>
              /\ IsFiniteSet(HoldersIn(a, n))
              /\ Cardinality(HoldersIn(a, n)) = Cardinality(HoldersIn(b, n)) + Cardinality(O)
<1>. USE DEF Takes
<1>1. \A k \in DOMAIN b : /\ b[k].pdev \in Seq(TableDevices) /\ Len(b[k].pdev) \in Nat
                          /\ DOMAIN b[k].pdev = 1 .. Len(b[k].pdev)
  <2>1. \A k \in DOMAIN b : b[k] \in Controllers
    BY LenProperties
  <2>2. \A c \in Controllers : c.pdev \in Seq(TableDevices)
    BY DEF Controllers
  <2>. QED
    BY <2>1, <2>2, LenProperties
<1>. DEFINE top(k) == Len(b[k].pdev) + 1
            N      == {<<k, top(k)>> : k \in O}
<1>2. \A k \in DOMAIN b \ O : a[k].pdev = b[k].pdev
  OBVIOUS
<1>3. \A k \in O : /\ DOMAIN a[k].pdev = DOMAIN b[k].pdev \cup {top(k)}
                   /\ a[k].pdev[top(k)] = n /\ top(k) \notin DOMAIN b[k].pdev
                   /\ \A s \in DOMAIN b[k].pdev : a[k].pdev[s] = b[k].pdev[s]
  <2>. TAKE k \in O
  <2>. DEFINE q == b[k].pdev
  <2>1. q \in Seq(TableDevices) /\ Len(q) \in Nat /\ DOMAIN q = 1 .. Len(q) /\ a[k].pdev = Append(q, n)
    BY <1>1
  <2>. HIDE DEF q
  <2>2. /\ DOMAIN Append(q, n) = DOMAIN q \cup {Len(q) + 1}
        /\ Append(q, n)[Len(q) + 1] = n /\ Len(q) + 1 \notin DOMAIN q
        /\ \A s \in DOMAIN q : Append(q, n)[s] = q[s]
    BY <2>1
  <2>. QED
    BY <2>1, <2>2 DEF q
<1>. HIDE DEF top
<1>4. \A m, x : x \in HoldersIn(a, m) <=> x \in HoldersIn(b, m) \/ (m = n /\ x \in N)
  <2>. TAKE m, x
  <2>1. ASSUME x \in HoldersIn(a, m) PROVE x \in HoldersIn(b, m) \/ (m = n /\ x \in N)
    <3>0. PICK k \in DOMAIN b : \E s \in DOMAIN a[k].pdev : x = <<k, s>> /\ a[k].pdev[s] = m
      BY <2>1, Holds
    <3>1. PICK s \in DOMAIN a[k].pdev : x = <<k, s>> /\ a[k].pdev[s] = m
      BY <3>0
    <3>2. CASE k \notin O
      BY <1>2, <3>1, <3>2, Holds
    <3>3. CASE k \in O /\ s \in DOMAIN b[k].pdev
      BY <1>3, <3>1, <3>3, Holds
    <3>4. CASE k \in O /\ s = top(k)
      BY <1>3, <3>1, <3>4
    <3>. QED
      BY <1>3, <3>1, <3>2, <3>3, <3>4
  <2>2. ASSUME x \in HoldersIn(b, m) PROVE x \in HoldersIn(a, m)
    <3>0. PICK k \in DOMAIN b : \E s \in DOMAIN b[k].pdev : x = <<k, s>> /\ b[k].pdev[s] = m
      BY <2>2, Holds
    <3>1. PICK s \in DOMAIN b[k].pdev : x = <<k, s>> /\ b[k].pdev[s] = m
      BY <3>0
    <3>2. s \in DOMAIN a[k].pdev /\ a[k].pdev[s] = m
      BY <1>2, <1>3, <3>1
    <3>. QED
      BY <3>1, <3>2, Holds
  <2>3. ASSUME m = n, x \in N PROVE x \in HoldersIn(a, m)
    <3>1. PICK k \in O : x = <<k, top(k)>>
      BY <2>3
    <3>2. top(k) \in DOMAIN a[k].pdev /\ a[k].pdev[top(k)] = n
      BY <1>3
    <3>. QED
      BY <2>3, <3>1, <3>2, Holds
  <2>. QED
    BY <2>1, <2>2, <2>3
<1>5. HoldersIn(b, n) \cap N = {}
  <2>1. ASSUME NEW x \in HoldersIn(b, n), x \in N PROVE FALSE
    <3>0. PICK k \in DOMAIN b : \E s \in DOMAIN b[k].pdev : x = <<k, s>>
      BY Holds
    <3>1. PICK s \in DOMAIN b[k].pdev : x = <<k, s>>
      BY <3>0
    <3>2. PICK j \in O : x = <<j, top(j)>>
      BY <2>1
    <3>. QED
      BY <1>3, <3>1, <3>2
  <2>. QED
    BY <2>1
<1>6. IsFiniteSet(N) /\ Cardinality(N) = Cardinality(O)
  <2>. DEFINE f == [k \in O |-> <<k, top(k)>>]
  <2>1. f \in [O -> N]
    OBVIOUS
  <2>2. \A j, k \in O : f[j] = f[k] => j = k
    OBVIOUS
  <2>3. \A x \in N : \E k \in O : f[k] = x
    OBVIOUS
  <2>. HIDE DEF f, N
  <2>4. f \in Bijection(O, N)
    BY <2>1, <2>2, <2>3 DEF Bijection, Injection, IsInjective, Surjection
  <2>5. ExistsBijection(O, N)
    BY <2>4 DEF ExistsBijection
  <2>. QED
    BY <2>5, FS_Bijection
<1>. HIDE DEF N
<1>7. \A m : m # n => HoldersIn(a, m) = HoldersIn(b, m)
  BY <1>4
<1>8. HoldersIn(a, n) = HoldersIn(b, n) \cup N
  BY <1>4
<1>9. ASSUME IsFiniteSet(HoldersIn(b, n))
      PROVE  /\ IsFiniteSet(HoldersIn(a, n))
             /\ Cardinality(HoldersIn(a, n)) = Cardinality(HoldersIn(b, n)) + Cardinality(O)
  <2>0. /\ IsFiniteSet(HoldersIn(b, n) \cup N)
        /\ Cardinality(HoldersIn(b, n) \cup N)
             = Cardinality(HoldersIn(b, n)) + Cardinality(N) - Cardinality(HoldersIn(b, n) \cap N)
    BY <1>6, <1>9, FS_Union, Zenon
  <2>1. /\ IsFiniteSet(HoldersIn(b, n) \cup N)
        /\ Cardinality(HoldersIn(b, n) \cup N)
             = Cardinality(HoldersIn(b, n)) + Cardinality(N) - Cardinality({})
    BY <1>5, <2>0, Zenon
  <2>2. Cardinality({}) = 0 /\ Cardinality(HoldersIn(b, n)) \in Nat /\ Cardinality(N) \in Nat
    BY <1>6, <1>9, FS_EmptySet, FS_CardinalityType
  <2>. QED
    BY <1>6, <1>8, <2>1, <2>2
<1>. QED
  BY <1>7, <1>9

(* The steps of Store: the list a new controller may have been added to,   *)
(* the controllers the device goes to, and the list it ends up with.       *)
Before    == IF Creates THEN Append(list, NewController(Dev(Found).bus, Entry.dom)) ELSE list
OwnersNow == IF Creates THEN {Len(Before)} ELSE Owners(Dev(Found).bus, Entry.dom)
After     == [k \in DOMAIN Before |-> IF k \in OwnersNow
                                        THEN [Before[k] EXCEPT !.pdev = Append(@, Found)]
                                        ELSE Before[k]]
Lost      == IF OwnersNow = {} THEN {Found} ELSE {}
Stores1   == Found # NULL /\ (Creates \/ Entry.dom = SOCK \/ Owners(Dev(Found).bus, Entry.dom) # {})

LEMMA StoreCases ==
  Store => /\ Calling /\ Stores1
           /\ \/ /\ list' = After
                 /\ refs' = Get(StoreRefs(OwnersNow), Found, 1)
                 /\ Advance(Found, Lost)
              \/ Failed(StoreRefs(OwnersNow), After, Lost)
BY Zenon DEF Store, Stores1, After, Before, OwnersNow, Lost

LEMMA FoundFacts ==
  ASSUME Types, devno <= Len(table.descr), Found # NULL
  PROVE  /\ Found \in TableDevices /\ Found \in Devices /\ Found \in Nat /\ Found > prev /\ IsFor(Found, devno)
         /\ devno \in DOMAIN table.descr /\ Entry.dom \in {IMC0, IMC1, SOCK} /\ Dev(Found).bus \in Buses
         /\ prev \in Nat /\ ~Behind(Found)
<1>1. machine \in Machines /\ devno \in Nat /\ devno >= 1 /\ prev \in Nat
  BY TableFacts, MachineFacts DEF Types, WellFormed, TableDevices, NULL
<1>2. devno \in DOMAIN table.descr /\ Entry.dom \in {IMC0, IMC1, SOCK} /\ devno \in devno .. Len(table.descr)
  BY <1>1, TableFacts DEF WellFormed, Entry
<1>3. Found \in Devices /\ Found > prev /\ Dev(Found).id = Entry.id /\ Found \in Nat
  BY <1>1, SearchFacts, MachineFacts DEF Found
<1>4. IsFor(Found, devno)
  BY <1>3 DEF IsFor, Entry
<1>5. Found \in TableDevices /\ Dev(Found).bus \in Buses
  BY <1>2, <1>3, <1>4 DEF TableDevices, IsFor, Buses
<1>6. ~Behind(Found)
  BY <1>1, <1>2, <1>3, <1>4 DEF Behind, BehindAt
<1>. QED
  BY <1>1, <1>2, <1>3, <1>4, <1>5, <1>6

(* The list before the device is stored: the old one, or a controller of   *)
(* the device's bus and domain more.                                       *)
LEMMA BeforeFacts ==
  ASSUME ProbeInv, pc = "get", Stores1
  PROVE  /\ Before \in Seq(Controllers) /\ IsFiniteSet(OwnersNow) /\ OwnersNow \in SUBSET DOMAIN Before
         /\ DOMAIN list \subseteq DOMAIN Before
         /\ \A k \in DOMAIN list : Before[k] = list[k]
         /\ \A k \in DOMAIN Before \ DOMAIN list :
              Creates /\ Before[k] = NewController(Dev(Found).bus, Entry.dom)
         /\ \A n : HoldersIn(Before, n) = HoldersIn(list, n)
         /\ Entry.dom # SOCK => OwnersNow # {}
         /\ Knl => OwnersNow # {}
         /\ ~Knl => \A k \in OwnersNow : /\ Before[k].bus = Dev(Found).bus
                                         /\ Entry.dom \in {SOCK, Before[k].dom}
<1>. DEFINE c == NewController(Dev(Found).bus, Entry.dom)
<1>1. Types /\ devno <= Len(table.descr) /\ machine \in Machines
  BY DEF ProbeInv, Progress, Types
<1>2. Len(list) \in Nat /\ DOMAIN list = 1 .. Len(list) /\ list \in Seq(Controllers)
  BY <1>1, ListFacts DEF Types
<1>3. CASE Creates
  <2>1. c \in Controllers
    BY <1>1, <1>3, FoundFacts DEF Creates, Stores1, NewController, Controllers
  <2>2. c.bus = Dev(Found).bus /\ c.dom = Entry.dom /\ c.pdev = <<>>
    BY DEF NewController
  <2>3. Before = Append(list, c) /\ OwnersNow = {Len(Before)}
    BY <1>3 DEF Before, OwnersNow
  <2>. HIDE DEF c
  <2>4. /\ Before \in Seq(Controllers) /\ Len(Before) = Len(list) + 1
        /\ DOMAIN Before = DOMAIN list \cup {Len(list) + 1}
        /\ \A k \in DOMAIN list : Before[k] = list[k]
        /\ Before[Len(list) + 1] = c
    BY <1>2, <2>1, <2>3
  <2>5. \A n : HoldersIn(Before, n) = HoldersIn(list, n)
    BY <2>2, <2>4 DEF HoldersIn
  <2>6. IsFiniteSet(OwnersNow) /\ OwnersNow \in SUBSET DOMAIN Before /\ OwnersNow # {}
    BY <2>3, <2>4, FS_Singleton
  <2>7. \A k \in OwnersNow : Before[k] = c
    BY <2>3, <2>4
  <2>. QED
    BY <1>3, <2>2, <2>4, <2>5, <2>6, <2>7 DEF c
<1>4. CASE ~Creates
  <2>1. Before = list /\ OwnersNow = Owners(Dev(Found).bus, Entry.dom)
    BY <1>4 DEF Before, OwnersNow
  <2>2. Knl => list # <<>>
    <3>1. ASSUME Knl, list = <<>> PROVE FALSE
      <4>1. devno = HA0Entry
        BY <3>1 DEF ProbeInv, Walk, WalkAt, Searched
      <4>2. Entry.dom = IMC0
        BY <1>1, <4>1, TableFacts DEF Entry, WellFormed
      <4>3. Matching(Dev(Found).bus, Entry.dom) = {}
        BY <1>2, <3>1 DEF Matching
      <4>4. Owners(Dev(Found).bus, Entry.dom) = {}
        BY <4>3 DEF Owners, Least
      <4>. QED
        BY <1>4, <4>2, <4>4, Apart DEF Creates, NeedsHA1
    <3>. QED
      BY <3>1
  <2>3. Entry.dom # SOCK => OwnersNow # {}
    BY <1>4, <2>1 DEF Stores1
  <2>4. /\ OwnersNow \subseteq DOMAIN list /\ IsFiniteSet(OwnersNow) /\ (Knl => OwnersNow # {})
        /\ ~Knl => \A k \in OwnersNow : list[k].bus = Dev(Found).bus /\ Entry.dom \in {SOCK, list[k].dom}
    BY <1>1, <2>1, <2>2, OwnersFacts
  <2>. QED
    BY <1>2, <2>1, <2>3, <2>4
<1>. QED
  BY <1>3, <1>4

(* The list after it: the same controllers with a device more.             *)
LEMMA AfterFacts ==
  ASSUME ProbeInv, pc = "get", Stores1
  PROVE  /\ After \in Seq(Controllers) /\ DOMAIN After = DOMAIN Before /\ (Knl => After # <<>>)
         /\ \A k \in DOMAIN After :
              /\ After[k].bus = Before[k].bus /\ After[k].dom = Before[k].dom
              /\ After[k].pdev = IF k \in OwnersNow THEN Append(Before[k].pdev, Found) ELSE Before[k].pdev
         /\ \A n : n # Found => HoldersIn(After, n) = HoldersIn(list, n)
         /\ IsFiniteSet(HoldersIn(After, Found))
         /\ Cardinality(HoldersIn(After, Found)) = Cardinality(HoldersIn(list, Found)) + Cardinality(OwnersNow)
<1>0. Found \in TableDevices /\ Found \in Devices
  BY FoundFacts DEF Stores1, ProbeInv, Progress
<1>1. Before \in Seq(Controllers) /\ Len(Before) \in Nat /\ DOMAIN Before = 1 .. Len(Before)
  BY BeforeFacts, LenProperties
<1>2. \A c \in Controllers :
        LET d == [c EXCEPT !.pdev = Append(@, Found)]
        IN  d \in Controllers /\ d.bus = c.bus /\ d.dom = c.dom /\ d.pdev = Append(c.pdev, Found)
  <2>. TAKE c \in Controllers
  <2>. DEFINE q == c.pdev
              d == [c EXCEPT !.pdev = Append(q, Found)]
  <2>1. Append(q, Found) \in Seq(TableDevices)
    <3>1. q \in Seq(TableDevices)
      BY DEF Controllers
    <3>. HIDE DEF q
    <3>. QED
      BY <1>0, <3>1
  <2>2. c \in [bus : Buses, dom : {IMC0, IMC1}, pdev : Seq(TableDevices), mci : BOOLEAN]
    BY DEF Controllers
  <2>3. d \in [bus : Buses, dom : {IMC0, IMC1}, pdev : Seq(TableDevices), mci : BOOLEAN]
        /\ d.bus = c.bus /\ d.dom = c.dom /\ d.pdev = Append(q, Found)
    BY <2>1, <2>2
  <2>. QED
    BY <2>3 DEF Controllers
<1>3. \A k \in DOMAIN Before : Before[k] \in Controllers
  BY <1>1, LenProperties
<1>4. \A k \in DOMAIN Before : After[k] \in Controllers
  BY <1>2, <1>3 DEF After
<1>5. DOMAIN After = DOMAIN Before
  BY DEF After
<1>6. After \in Seq(Controllers)
  <2>1. After = [k \in 1 .. Len(Before) |-> After[k]]
    BY <1>1 DEF After
  <2>. QED
    BY <1>1, <1>4, <2>1
<1>7. \A k \in DOMAIN After :
        /\ After[k].bus = Before[k].bus /\ After[k].dom = Before[k].dom
        /\ After[k].pdev = IF k \in OwnersNow THEN Append(Before[k].pdev, Found) ELSE Before[k].pdev
  BY <1>2, <1>3 DEF After
<1>8. /\ \A n : n # Found => HoldersIn(After, n) = HoldersIn(Before, n)
      /\ IsFiniteSet(HoldersIn(Before, Found)) =>
           /\ IsFiniteSet(HoldersIn(After, Found))
           /\ Cardinality(HoldersIn(After, Found))
                = Cardinality(HoldersIn(Before, Found)) + Cardinality(OwnersNow)
  <2>1. OwnersNow \in SUBSET DOMAIN Before /\ IsFiniteSet(OwnersNow)
    BY BeforeFacts
  <2>2. Takes(After, Before, OwnersNow, Found)
    BY <1>5, <1>7 DEF Takes
  <2>. QED
    BY <1>1, <2>1, <2>2, TakeIn, Zenon
<1>9. IsFiniteSet(HoldersIn(list, Found)) /\ \A n : HoldersIn(Before, n) = HoldersIn(list, n)
  BY <1>0, BeforeFacts DEF ProbeInv, Counted
<1>10. Knl => After # <<>>
  BY <1>5, BeforeFacts
<1>. QED
  BY <1>5, <1>6, <1>7, <1>8, <1>9, <1>10

-----------------------------------------------------------------------------
(* What the search has behind it.                                          *)

LEMMA BehindNext ==
  ASSUME NEW n, NEW d \in Nat, NEW p, NEW from, BehindAt(n, d, p)
  PROVE  BehindAt(n, d + 1, from)
<1>1. \A e \in (d + 1) .. Len(table.descr) : e \in d .. Len(table.descr) /\ e # d
  OBVIOUS
<1>. QED
  BY <1>1 DEF BehindAt

LEMMA BehindFound ==
  ASSUME Types, devno <= Len(table.descr), Found # NULL
  PROVE  /\ \A n \in Devices : Behind(n) => BehindAt(n, devno, Found)
         /\ ~Knl => BehindAt(Found, devno, Found)
         /\ Knl /\ ~Same(devno) => \A p : BehindAt(Found, devno + 1, p)
<1>1. /\ Found \in Devices /\ Found \in Nat /\ Found > prev /\ IsFor(Found, devno) /\ prev \in Nat
      /\ devno \in DOMAIN table.descr
  BY FoundFacts
<1>2. /\ Len(table.descr) \in Nat /\ DOMAIN table.descr = 1 .. Len(table.descr)
      /\ \A d, e \in DOMAIN table.descr : table.descr[d].id = table.descr[e].id /\ d < e =>
           Knl /\ table.descr[d + 1].id = table.descr[d].id
  BY TableFacts DEF Types, WellFormed
<1>3. Devices \in SUBSET Nat
  BY MachineFacts DEF Types
<1>4. \A n \in Devices : Behind(n) => BehindAt(n, devno, Found)
  BY <1>1, <1>3 DEF Behind, BehindAt
<1>5. ASSUME NEW d \in (devno + 1) .. Len(table.descr), IsFor(Found, d)
      PROVE  Same(devno)
  <2>1. d \in DOMAIN table.descr /\ devno < d /\ devno + 1 \in DOMAIN table.descr
    BY <1>1, <1>2
  <2>2. table.descr[devno].id = table.descr[d].id
    BY <1>1, <1>5 DEF IsFor
  <2>3. Knl /\ table.descr[devno + 1].id = table.descr[devno].id
    BY <1>1, <1>2, <2>1, <2>2
  <2>. QED
    BY <2>1, <2>3 DEF Same, allow_dups
<1>6. ~Knl => BehindAt(Found, devno, Found)
  <2>1. ASSUME ~Knl, NEW d \in devno .. Len(table.descr), IsFor(Found, d) PROVE d = devno
    <3>1. ~Same(devno)
      BY <2>1 DEF Same, allow_dups
    <3>2. d \notin (devno + 1) .. Len(table.descr)
      BY <1>5, <2>1, <3>1
    <3>. QED
      BY <1>1, <1>2, <2>1, <3>2
  <2>. QED
    BY <1>1, <2>1 DEF BehindAt
<1>7. Knl /\ ~Same(devno) => \A p : BehindAt(Found, devno + 1, p)
  BY <1>5 DEF BehindAt
<1>. QED
  BY <1>4, <1>6, <1>7

LEMMA StoredLess ==
  ASSUME NEW c \in Controllers, NEW m \in Int, NEW most \in Int, Stored(c, m), Knl => m <= most
  PROVE  Stored(c, most)
<1>1. c.pdev \in Seq(TableDevices)
  BY DEF Controllers
<1>2. Len(c.pdev) \in Nat
  BY <1>1, LenProperties
<1>. QED
  BY <1>2 DEF Stored

(* What the controllers hold after the device is stored.                   *)
LEMMA StoredAfter ==
  ASSUME ProbeInv, pc = "get", Stores1, NEW k \in DOMAIN After
  PROVE  /\ Stored(After[k], devno)
         /\ ~Knl => \A s \in DOMAIN After[k].pdev : BehindAt(After[k].pdev[s], devno, Found)
         /\ After[k].dom = IMC1 => HA1On(After[k].bus)
<1>. DEFINE q   == Before[k].pdev
            bus == Before[k].bus
            dom == Before[k].dom
<1>0. Types /\ devno <= Len(table.descr) /\ Found # NULL /\ machine \in Machines
  BY DEF ProbeInv, Progress, Types, Stores1
<1>1. k \in DOMAIN Before /\ After[k].bus = bus /\ After[k].dom = dom
      /\ After[k].pdev = IF k \in OwnersNow THEN Append(q, Found) ELSE q
  BY AfterFacts
<1>2. q \in Seq(TableDevices)
  <2>1. Before[k] \in Controllers
    BY <1>1, BeforeFacts, LenProperties
  <2>. QED
    BY <2>1 DEF Controllers
<1>3. Len(q) \in Nat /\ DOMAIN q = 1 .. Len(q) /\ \A s \in DOMAIN q : q[s] \in Devices
  BY <1>2, LenProperties DEF TableDevices
<1>4. /\ Found \in Devices /\ IsFor(Found, devno) /\ ~Behind(Found) /\ devno \in DOMAIN table.descr
  BY <1>0, FoundFacts
<1>5. devno \in Nat /\ devno >= 1
  BY <1>0, TableFacts DEF Types, WellFormed
<1>6. /\ Knl => Len(q) <= devno - 1
      /\ ~Knl => /\ \A s, t \in DOMAIN q : q[s] = q[t] => s = t
                 /\ \A s \in DOMAIN q : q[s] \in Share(bus, dom) /\ Behind(q[s])
      /\ dom = IMC1 => HA1On(bus)
  <2>1. CASE k \in DOMAIN list
    <3>1. Before[k] = list[k]
      BY <2>1, BeforeFacts
    <3>2. Stored(list[k], devno - 1)
      BY <2>1 DEF ProbeInv, Stores, StoresAt
    <3>3. ~Knl => \A s \in DOMAIN list[k].pdev : Behind(list[k].pdev[s])
      BY <2>1 DEF ProbeInv, Stores, StoresAt, Behind
    <3>4. list[k].dom = IMC1 => HA1On(list[k].bus)
      BY <2>1 DEF ProbeInv, Walk, WalkAt, Searched
    <3>. QED
      BY <3>1, <3>2, <3>3, <3>4 DEF Stored
  <2>2. CASE k \notin DOMAIN list
    <3>1. Creates /\ Before[k] = NewController(Dev(Found).bus, Entry.dom)
      BY <1>1, <2>2, BeforeFacts
    <3>2. q = <<>> /\ bus = Dev(Found).bus /\ dom = Entry.dom
      BY <3>1 DEF NewController
    <3>3. dom = IMC1 => HA1On(bus)
      <4>1. dom = IMC1 => devno = HA1Entry
        BY <3>1, <3>2 DEF Creates, NeedsHA1
      <4>. QED
        BY <1>4, <3>2, <4>1 DEF HA1On, Entry
    <3>. QED
      BY <1>5, <3>2, <3>3
  <2>. QED
    BY <2>1, <2>2
<1>. HIDE DEF q, bus, dom
<1>7. CASE k \notin OwnersNow
  <2>1. After[k].pdev = q
    BY <1>1, <1>7
  <2>2. Knl => Len(q) <= devno
    BY <1>3, <1>5, <1>6
  <2>3. Stored(After[k], devno)
    BY <1>1, <1>6, <2>1, <2>2 DEF Stored
  <2>4. ~Knl => \A s \in DOMAIN q : BehindAt(q[s], devno, Found)
    BY <1>0, <1>3, <1>6, BehindFound
  <2>. QED
    BY <1>1, <1>6, <2>1, <2>3, <2>4
<1>8. CASE k \in OwnersNow
  <2>1. After[k].pdev = Append(q, Found)
    BY <1>1, <1>8
  <2>2. /\ DOMAIN Append(q, Found) = DOMAIN q \cup {Len(q) + 1} /\ Len(Append(q, Found)) = Len(q) + 1
        /\ Append(q, Found)[Len(q) + 1] = Found
        /\ \A s \in DOMAIN q : Append(q, Found)[s] = q[s]
    BY <1>2, <1>3
  <2>3. ~Knl => Found \in Share(bus, dom)
    <3>1. ~Knl => bus = Dev(Found).bus /\ Entry.dom \in {SOCK, dom}
      BY <1>8, BeforeFacts DEF bus, dom
    <3>. QED
      BY <1>4, <3>1 DEF Share, Entry
  <2>4. ~Knl => \A s \in DOMAIN q : q[s] # Found
    BY <1>4, <1>6
  <2>5. Knl => Len(Append(q, Found)) <= devno
    BY <1>3, <1>5, <1>6, <2>2
  <2>6. ~Knl => /\ \A s, t \in DOMAIN Append(q, Found) :
                     Append(q, Found)[s] = Append(q, Found)[t] => s = t
                /\ \A s \in DOMAIN Append(q, Found) : Append(q, Found)[s] \in Share(bus, dom)
    BY <1>6, <2>2, <2>3, <2>4
  <2>7. Stored(After[k], devno)
    BY <1>1, <2>1, <2>5, <2>6 DEF Stored
  <2>8. ~Knl => \A s \in DOMAIN Append(q, Found) : BehindAt(Append(q, Found)[s], devno, Found)
    BY <1>0, <1>3, <1>6, <2>2, BehindFound
  <2>. QED
    BY <1>1, <1>6, <2>1, <2>7, <2>8
<1>. QED
  BY <1>7, <1>8

(* A device found is all that comes to lie behind.                         *)
LEMMA FoundNext ==
  ASSUME ProbeInv, pc = "get", Found # NULL, NEW h \in Devices,
         BehindAt(h, devno, Found), ~BehindAt(h, devno, prev)
  PROVE  h = Found
<1>1. Types /\ devno <= Len(table.descr) /\ machine \in Machines
  BY DEF ProbeInv, Progress, Types
<1>2. PICK d \in devno .. Len(table.descr) : IsFor(h, d) /\ ~(~Knl /\ d = devno /\ prev # NULL /\ h <= prev)
  BY DEF BehindAt
<1>3. ~Knl /\ d = devno /\ h <= Found
  BY <1>2 DEF BehindAt
<1>4. ~(prev # NULL /\ h <= prev) /\ IsFor(h, devno)
  BY <1>2, <1>3
<1>5. h > prev
  <2>1. prev \in Nat /\ h \in Nat /\ h # NULL /\ NULL = 0
    BY <1>1, FoundFacts, MachineFacts DEF NULL
  <2>. QED
    BY <1>4, <2>1
<1>6. Found <= h
  BY <1>1, <1>4, <1>5, SearchFacts DEF Found, IsFor, Entry
<1>7. h \in Nat /\ Found \in Nat
  BY <1>1, FoundFacts, MachineFacts
<1>. QED
  BY <1>3, <1>6, <1>7

(* A second controller is there once its home agent is.                    *)
LEMMA HasIMC1After ==
  ASSUME ProbeInv, pc = "get", Stores1
  PROVE  /\ \A b : HasIMC1In(list, b) => HasIMC1In(After, b)
         /\ Entry.dom = IMC1 => HasIMC1In(After, Dev(Found).bus)
<1>1. DOMAIN list \subseteq DOMAIN After /\ \A k \in DOMAIN list : After[k].bus = list[k].bus /\ After[k].dom = list[k].dom
  BY BeforeFacts, AfterFacts
<1>2. ASSUME Entry.dom = IMC1 PROVE HasIMC1In(After, Dev(Found).bus)
  <2>1. ~Knl
    <3>1. machine \in Machines /\ devno \in DOMAIN table.descr
      BY TableFacts DEF ProbeInv, Types, Progress, WellFormed
    <3>. QED
      BY <1>2, <3>1, TableFacts DEF WellFormed, Entry
  <2>2. PICK k \in OwnersNow : TRUE
    BY <1>2, BeforeFacts, Apart
  <2>3. k \in DOMAIN After /\ Before[k].bus = Dev(Found).bus /\ Before[k].dom = IMC1
    BY <1>2, <2>1, BeforeFacts, AfterFacts, Apart
  <2>4. After[k].bus = Dev(Found).bus /\ After[k].dom = IMC1
    BY <2>3, AfterFacts
  <2>. QED
    BY <2>3, <2>4 DEF HasIMC1In
<1>. QED
  BY <1>1, <1>2 DEF HasIMC1In

-----------------------------------------------------------------------------
(* The steps.                                                              *)

LEMMA SameMachine ==
  ASSUME machine' = machine
  PROVE  /\ Devices' = Devices /\ table' = table /\ Knl' = Knl
         /\ TableDevices' = TableDevices /\ Buses' = Buses /\ Controllers' = Controllers
         /\ SocketsAgree' = SocketsAgree /\ Fits' = Fits
         /\ \A n, d : IsFor(n, d)' = IsFor(n, d)
         /\ \A b : HA1On(b)' = HA1On(b)
         /\ \A b, dom : Share(b, dom)' = Share(b, dom)
         /\ \A c, m : Stored(c, m)' = Stored(c, m)
         /\ \A n, d, p : BehindAt(n, d, p)' = BehindAt(n, d, p)
         /\ \A n : Dev(n)' = Dev(n)
<1>1. Devices' = Devices /\ table' = table /\ Knl' = Knl /\ \A n : Dev(n)' = Dev(n)
  BY DEF Devices, table, Knl, Dev
<1>2. TableDevices' = TableDevices /\ Buses' = Buses
  BY <1>1 DEF TableDevices, Buses
<1>3. Controllers' = Controllers
  BY <1>2 DEF Controllers
<1>4. \A n, d : IsFor(n, d)' = IsFor(n, d)
  BY <1>1 DEF IsFor
<1>5. \A b : HA1On(b)' = HA1On(b)
  BY <1>1, <1>4 DEF HA1On
<1>6. SocketsAgree' = SocketsAgree
  BY <1>1, <1>4, <1>5 DEF SocketsAgree
<1>7. \A b, dom : Share(b, dom)' = Share(b, dom)
  BY <1>1, <1>4 DEF Share
<1>8. Fits' = Fits
  BY <1>1, <1>7 DEF Fits
<1>9. \A c, m : Stored(c, m)' = Stored(c, m)
  BY <1>1, <1>7 DEF Stored
<1>10. \A n, d, p : BehindAt(n, d, p)' = BehindAt(n, d, p)
  BY <1>1, <1>4 DEF BehindAt
<1>. QED
  BY <1>1, <1>2, <1>3, <1>4, <1>5, <1>6, <1>7, <1>8, <1>9, <1>10

LEMMA ExactFacts ==
  ASSUME NEW r \in [Devices -> Int], NEW l, NEW from, NEW lost, Exact(r, l, from, lost),
         \A n \in Devices : IsFiniteSet(HoldersIn(l, n))
  PROVE  \A n \in Devices : r[n] >= 0
<1>. SUFFICES ASSUME NEW n \in Devices PROVE r[n] >= 0
  OBVIOUS
<1>1. CASE n \in TableDevices
  <2>. DEFINE c == Cardinality(HoldersIn(l, n))
              o == StandsOn(n, from)
              f == LostOf(n, lost)
  <2>1. c \in Nat /\ o \in {0, 1} /\ f \in {0, 1} /\ r[n] = c + o + f
    BY <1>1, FS_CardinalityType DEF Exact, StandsOn, LostOf
  <2>. HIDE DEF c, o, f
  <2>. QED
    BY <2>1
<1>. QED
  BY <1>1 DEF Exact

(* Exact references are put but for the lost ones.                         *)
LEMMA Emptied ==
  ASSUME machine \in Machines, NEW l \in Seq(Controllers), NEW r \in [Devices -> Int], NEW lost,
         \A n \in Devices : IsFiniteSet(HoldersIn(l, n)),
         \A k \in DOMAIN l : Stored(l[k], table.n_devs_per_imc)
  PROVE  /\ PutAll(r, l) \in [Devices -> Int]
         /\ Exact(r, l, NULL, lost) =>
              /\ \A n \in Devices : PutAll(r, l)[n] >= 0
              /\ Fits => \A n \in TableDevices : PutAll(r, l)[n] = LostOf(n, lost)
<1>1. /\ PutAll(r, l) \in [Devices -> Int]
      /\ \A n \in Devices \ TableDevices : PutAll(r, l)[n] = r[n]
      /\ \A n \in Devices : PutAll(r, l)[n] >= r[n] - Cardinality(HoldersIn(l, n))
      /\ Fits => \A n \in Devices : PutAll(r, l)[n] = r[n] - Cardinality(HoldersIn(l, n))
  BY PutAllFacts
<1>2. \A n \in Devices : Cardinality(HoldersIn(l, n)) \in Nat /\ r[n] \in Int /\ LostOf(n, lost) \in Nat
  BY FS_CardinalityType DEF LostOf
<1>3. TableDevices \in SUBSET Devices /\ \A n \in TableDevices : StandsOn(n, NULL) = 0
  BY MachineFacts DEF TableDevices, StandsOn
<1>4. ASSUME Exact(r, l, NULL, lost), NEW n \in Devices PROVE PutAll(r, l)[n] >= 0
  BY <1>1, <1>2, <1>3, <1>4 DEF Exact
<1>5. ASSUME Exact(r, l, NULL, lost), Fits, NEW n \in TableDevices PROVE PutAll(r, l)[n] = LostOf(n, lost)
  BY <1>1, <1>2, <1>3, <1>5 DEF Exact
<1>. QED
  BY <1>1, <1>4, <1>5

(* sbridge_put_all_devices() and the end.                                  *)
LEMMA PutStep ==
  ASSUME machine \in Machines, machine' = machine,
         NEW l \in Seq(Controllers), NEW r \in [Devices -> Int],
         refs' = PutAll(r, l), list' = <<>>, Released',
         \A n \in Devices : IsFiniteSet(HoldersIn(l, n)),
         \A k \in DOMAIN l : Stored(l[k], table.n_devs_per_imc),
         SocketsAgree => Exact(r, l, NULL, left')
  PROVE  refs' \in [Devices -> Int] /\ Walk' /\ Gathered' /\ Stores' /\ Counted'
<1>. USE SameMachine
<1>1. pc' # "get" /\ ~Searched'
  BY DEF Released, Searched
<1>2. /\ PutAll(r, l) \in [Devices -> Int]
      /\ SocketsAgree => /\ \A n \in Devices : PutAll(r, l)[n] >= 0
                         /\ Fits => \A n \in TableDevices : PutAll(r, l)[n] = LostOf(n, left')
  BY Emptied
<1>3. Walk' /\ Gathered' /\ Stores'
  BY <1>1 DEF Walk, Gathered, Stores
<1>4. \A n \in Devices : IsFiniteSet(HoldersIn(list', n))
  <2>1. \A n \in Devices : HoldersIn(list', n) = {}
    BY DEF HoldersIn
  <2>. QED
    BY <2>1, FS_EmptySet
<1>5. Counted'
  BY <1>2, <1>4 DEF Counted
<1>. QED
  BY <1>2, <1>3, <1>5

LEMMA FailedStep ==
  ASSUME ProbeInv, pc = "get", machine' = machine, mc' = mc,
         NEW l \in Seq(Controllers), NEW r \in [Devices -> Int], NEW lost \in SUBSET TableDevices,
         Failed(r, l, lost),
         \A k \in DOMAIN l : Stored(l[k], devno),
         \A n \in Devices : IsFiniteSet(HoldersIn(l, n)),
         SocketsAgree => Exact(r, l, NULL, left \cup lost)
  PROVE  ProbeInv'
<1>. USE SameMachine
<1>1. /\ Types /\ machine \in Machines /\ mc = 1 /\ devno \in Nat /\ devno <= Len(table.descr)
      /\ table.n_devs_per_imc \in Nat /\ (Knl => devno <= table.n_devs_per_imc)
  BY TableFacts DEF ProbeInv, Types, Progress, WellFormed
<1>2. \A k \in DOMAIN l : Stored(l[k], table.n_devs_per_imc)
  <2>1. \A k \in DOMAIN l : l[k] \in Controllers
    BY LenProperties
  <2>. QED
    BY <1>1, <2>1, StoredLess
<1>3. left' = left \cup lost /\ devno' = devno /\ prev' = prev
  BY DEF Failed
<1>4. CASE devno = HA0Entry
  <2>1. pc' = "register" /\ refs' = r /\ list' = l /\ rc' = 0
    BY <1>4 DEF Failed
  <2>2. Types'
    BY <1>1, <1>3, <2>1 DEF Types
  <2>3. Progress'
    BY <1>1, <2>1 DEF Progress, Released
  <2>4. Walk' /\ Gathered' /\ Stores'
    <3>1. ~Searched'
      BY <1>1, <1>3, <2>1 DEF Searched
    <3>. QED
      BY <1>2, <2>1, <3>1 DEF Walk, Gathered, Stores
  <2>5. Counted'
    <3>1. \A n \in Devices : IsFiniteSet(HoldersIn(list', n))
      BY <2>1
    <3>2. ~Released'
      BY <2>1 DEF Released
    <3>3. SocketsAgree => Exact(refs, list, IF pc = "get" THEN prev ELSE NULL, left)'
      BY <1>3, <2>1 DEF Exact
    <3>. QED
      BY <3>1, <3>2, <3>3 DEF Counted
  <2>. QED
    BY <2>2, <2>3, <2>4, <2>5 DEF ProbeInv
<1>5. CASE devno # HA0Entry
  <2>1. pc' = "done" /\ refs' = PutAll(r, l) /\ list' = <<>> /\ rc' = -1
    BY <1>5 DEF Failed
  <2>2. Released'
    BY <2>1 DEF Released
  <2>3. refs' \in [Devices -> Int] /\ Walk' /\ Gathered' /\ Stores' /\ Counted'
    BY <1>1, <1>2, <1>3, <2>1, <2>2, PutStep
  <2>4. Types'
    BY <1>1, <1>3, <2>1, <2>3 DEF Types
  <2>5. Progress'
    BY <1>1, <2>1 DEF Progress, Released
  <2>. QED
    BY <2>3, <2>4, <2>5 DEF ProbeInv
<1>. QED
  BY <1>4, <1>5

LEMMA OnStep ==
  ASSUME ProbeInv, pc = "get", machine' = machine, mc' = mc, rc' = 0,
         pc' = IF devno' > Len(table.descr) THEN "register" ELSE "get",
         devno' \in {devno, devno + 1}, prev' \in TableDevices \cup {NULL},
         prev' # NULL => devno' <= Len(table.descr),
         left' \in SUBSET TableDevices,
         list' \in Seq(Controllers), refs' \in [Devices -> Int],
         \A n \in Devices : IsFiniteSet(HoldersIn(list', n)),
         WalkAt(list', devno', prev', left'),
         ~Knl /\ SocketsAgree => GatheredAt(list', devno', prev'),
         StoresAt(list', devno', prev'),
         SocketsAgree => Exact(refs', list', prev', left')
  PROVE  ProbeInv'
<1>. USE SameMachine
<1>1. /\ Types /\ machine \in Machines /\ mc = 1 /\ devno \in Nat /\ devno >= 1 /\ devno <= Len(table.descr)
      /\ Len(table.descr) \in Nat /\ table.n_devs_per_imc \in Nat
      /\ (Knl => Len(table.descr) = table.n_devs_per_imc)
  BY TableFacts DEF ProbeInv, Types, Progress, WellFormed
<1>2. devno' \in Nat /\ devno' >= 1 /\ devno' \in 1 .. Len(table.descr) + 1
  BY <1>1
<1>3. Types'
  BY <1>1, <1>2 DEF Types
<1>4. Progress'
  BY <1>1, <1>2 DEF Progress, Released
<1>5. Walk' /\ Gathered'
  <2>1. WalkAt(list, devno, prev, left)'
    BY DEF WalkAt
  <2>2. ~Knl /\ SocketsAgree => GatheredAt(list, devno, prev)'
    BY DEF GatheredAt
  <2>. QED
    BY <2>1, <2>2 DEF Walk, Gathered
<1>6. Stores'
  <2>1. StoresAt(list, devno, prev)'
    BY DEF StoresAt
  <2>2. ASSUME NEW k \in DOMAIN list', pc' # "get"
        PROVE  Stored(list'[k], table.n_devs_per_imc)
    <3>1. list'[k] \in Controllers
      BY <2>2, LenProperties
    <3>2. Stored(list'[k], devno' - 1)
      BY <2>2 DEF StoresAt
    <3>3. devno' - 1 \in Int /\ table.n_devs_per_imc \in Int
          /\ (Knl => devno' - 1 <= table.n_devs_per_imc)
      BY <1>1, <1>2
    <3>. QED
      BY <3>1, <3>2, <3>3, StoredLess
  <2>. QED
    BY <2>1, <2>2 DEF Stores
<1>7. Counted'
  <2>1. ~Released'
    BY DEF Released
  <2>2. prev' = IF pc' = "get" THEN prev' ELSE NULL
    BY <1>1, <1>2
  <2>3. SocketsAgree => Exact(refs, list, IF pc = "get" THEN prev ELSE NULL, left)'
    BY <2>2 DEF Exact
  <2>. QED
    BY <2>1, <2>3 DEF Counted
<1>. QED
  BY <1>3, <1>4, <1>5, <1>6, <1>7 DEF ProbeInv

-----------------------------------------------------------------------------
(* Counting.                                                               *)

LEMMA PutPrev ==
  ASSUME machine \in Machines, NEW r \in [Devices -> Int], NEW l, NEW lost,
         NEW p \in TableDevices \cup {NULL}, \A n \in Devices : IsFiniteSet(HoldersIn(l, n))
  PROVE  /\ Put(r, p) \in [Devices -> Int]
         /\ Exact(r, l, p, lost) => Exact(Put(r, p), l, NULL, lost)
<1>1. TableDevices \in SUBSET Devices /\ NULL \notin Devices
  BY MachineFacts DEF TableDevices
<1>2. CASE p = NULL
  BY <1>2 DEF Put
<1>3. CASE p \in TableDevices
  <2>1. Put(r, p) = [r EXCEPT ![p] = @ - 1]
    BY <1>1, <1>3 DEF Put
  <2>2. ASSUME Exact(r, l, p, lost), NEW n \in Devices \ TableDevices PROVE Put(r, p)[n] >= 0
    BY <1>3, <2>1, <2>2 DEF Exact
  <2>3. ASSUME Exact(r, l, p, lost), NEW n \in TableDevices
        PROVE  Put(r, p)[n] = Cardinality(HoldersIn(l, n)) + StandsOn(n, NULL) + LostOf(n, lost)
    <3>. DEFINE c == Cardinality(HoldersIn(l, n))
                f == LostOf(n, lost)
    <3>1. c \in Nat /\ f \in Nat /\ r[n] = c + StandsOn(n, p) + f
      BY <1>1, <2>3, FS_CardinalityType DEF LostOf, Exact
    <3>2. StandsOn(n, p) = (IF n = p THEN 1 ELSE 0) /\ StandsOn(n, NULL) = 0
      BY <1>1 DEF StandsOn
    <3>3. Put(r, p)[n] = IF n = p THEN r[n] - 1 ELSE r[n]
      BY <1>1, <2>1
    <3>. HIDE DEF c, f
    <3>4. Put(r, p)[n] = c + StandsOn(n, NULL) + f
      BY <3>1, <3>2, <3>3
    <3>. QED
      BY <3>4 DEF c, f
  <2>4. Put(r, p) \in [Devices -> Int]
    BY <1>1, <1>3, <2>1
  <2>5. Exact(r, l, p, lost) => Exact(Put(r, p), l, NULL, lost)
    <3>1. SUFFICES ASSUME Exact(r, l, p, lost) PROVE Exact(Put(r, p), l, NULL, lost)
      OBVIOUS
    <3>. QED
      BY <2>2, <2>3, <3>1, Zenon DEF Exact
  <2>. QED
    BY <2>4, <2>5
<1>. QED
  BY <1>2, <1>3

LEMMA GetOn ==
  ASSUME machine \in Machines, NEW r \in [Devices -> Int], NEW l, NEW lost,
         NEW p \in TableDevices, \A n \in Devices : IsFiniteSet(HoldersIn(l, n))
  PROVE  /\ Get(r, p, 1) \in [Devices -> Int]
         /\ Exact(r, l, NULL, lost) =>
              /\ Exact(Get(r, p, 1), l, p, lost)
              /\ p \notin lost => Exact(Get(r, p, 1), l, NULL, lost \cup {p})
<1>1. TableDevices \in SUBSET Devices /\ NULL \notin Devices
  BY MachineFacts DEF TableDevices
<1>2. Get(r, p, 1) = [r EXCEPT ![p] = @ + 1]
  BY <1>1 DEF Get
<1>3. ASSUME Exact(r, l, NULL, lost), NEW n \in Devices \ TableDevices PROVE Get(r, p, 1)[n] >= 0
  BY <1>2, <1>3 DEF Exact
<1>4. ASSUME Exact(r, l, NULL, lost), NEW n \in TableDevices
      PROVE  /\ Get(r, p, 1)[n] = Cardinality(HoldersIn(l, n)) + StandsOn(n, p) + LostOf(n, lost)
             /\ p \notin lost =>
                  Get(r, p, 1)[n] = Cardinality(HoldersIn(l, n)) + StandsOn(n, NULL) + LostOf(n, lost \cup {p})
  <2>. DEFINE c == Cardinality(HoldersIn(l, n))
              f == LostOf(n, lost)
  <2>1. c \in Nat /\ f \in Nat /\ r[n] = c + StandsOn(n, NULL) + f
    BY <1>1, <1>4, FS_CardinalityType DEF LostOf, Exact
  <2>2. StandsOn(n, p) = (IF n = p THEN 1 ELSE 0) /\ StandsOn(n, NULL) = 0
    BY <1>1 DEF StandsOn
  <2>3. Get(r, p, 1)[n] = IF n = p THEN r[n] + 1 ELSE r[n]
    BY <1>1, <1>2
  <2>4. p \notin lost => LostOf(n, lost \cup {p}) = IF n = p THEN f + 1 ELSE f
    BY DEF LostOf
  <2>. HIDE DEF c, f
  <2>5. Get(r, p, 1)[n] = c + StandsOn(n, p) + f
    BY <2>1, <2>2, <2>3
  <2>6. p \notin lost => Get(r, p, 1)[n] = c + StandsOn(n, NULL) + LostOf(n, lost \cup {p})
    BY <2>1, <2>2, <2>3, <2>4
  <2>. QED
    BY <2>5, <2>6 DEF c, f
<1>. QED
  BY <1>2, <1>3, <1>4 DEF Exact

LEMMA StoreExact ==
  ASSUME ProbeInv, pc = "get", Stores1
  PROVE  /\ StoreRefs(OwnersNow) \in [Devices -> Int]
         /\ SocketsAgree => Exact(StoreRefs(OwnersNow), After, NULL, left \cup Lost)
<1>. DEFINE p == Put(refs, prev)
            m == IF OwnersNow = {} THEN 1 ELSE Cardinality(OwnersNow)
            r == StoreRefs(OwnersNow)
<1>1. /\ machine \in Machines /\ refs \in [Devices -> Int] /\ prev \in TableDevices \cup {NULL}
      /\ \A n \in Devices : IsFiniteSet(HoldersIn(list, n))
      /\ Types /\ devno <= Len(table.descr) /\ Found # NULL
  BY DEF ProbeInv, Types, Progress, Counted, Stores1
<1>2. Found \in TableDevices /\ Found \in Devices /\ Found # prev /\ ~Behind(Found)
  BY <1>1, FoundFacts
<1>3. p \in [Devices -> Int] /\ (SocketsAgree => Exact(p, list, NULL, left))
  <2>1. SocketsAgree => Exact(refs, list, prev, left)
    BY DEF ProbeInv, Counted, Released
  <2>. QED
    BY <1>1, <2>1, PutPrev
<1>4. IsFiniteSet(OwnersNow) /\ Cardinality(OwnersNow) \in Nat /\ m \in Nat
      /\ (OwnersNow = {} => Cardinality(OwnersNow) = 0)
  BY BeforeFacts, FS_CardinalityType, FS_EmptySet
<1>5. r = [p EXCEPT ![Found] = @ + m]
  <2>1. r = Put([refs EXCEPT ![Found] = @ + m], prev)
    BY <1>1 DEF StoreRefs, Get
  <2>. HIDE DEF m, r
  <2>2. CASE prev = NULL
    BY <2>1, <2>2 DEF Put
  <2>3. CASE prev # NULL
    <3>1. prev \in Devices
      BY <1>1, <2>3 DEF TableDevices
    <3>2. r = [[refs EXCEPT ![Found] = @ + m] EXCEPT ![prev] = @ - 1]
      BY <2>1, <2>3 DEF Put
    <3>3. p = [refs EXCEPT ![prev] = @ - 1]
      BY <2>3 DEF Put
    <3>. QED
      BY <1>1, <1>2, <1>4, <3>1, <3>2, <3>3
  <2>. QED
    BY <2>2, <2>3
<1>6. Found \notin left
  BY <1>2 DEF ProbeInv, Walk, WalkAt, Searched, Behind
<1>. HIDE DEF p, m, r
<1>7. r \in [Devices -> Int]
  BY <1>2, <1>3, <1>4, <1>5
<1>8. TableDevices \in SUBSET Devices
  BY DEF TableDevices
<1>9. ASSUME SocketsAgree, NEW n \in Devices \ TableDevices PROVE r[n] >= 0
  BY <1>2, <1>3, <1>5, <1>9 DEF Exact
<1>10. ASSUME SocketsAgree, NEW n \in TableDevices
       PROVE  r[n] = Cardinality(HoldersIn(After, n)) + StandsOn(n, NULL) + LostOf(n, left \cup Lost)
  <2>1. p[n] = Cardinality(HoldersIn(list, n)) + StandsOn(n, NULL) + LostOf(n, left)
    BY <1>3, <1>10 DEF Exact
  <2>2. StandsOn(n, NULL) = 0
    BY <1>1, <1>8, MachineFacts DEF StandsOn
  <2>3. CASE n # Found
    <3>1. r[n] = p[n] /\ HoldersIn(After, n) = HoldersIn(list, n)
      BY <1>3, <1>5, <1>8, <2>3, AfterFacts
    <3>2. LostOf(n, left \cup Lost) = LostOf(n, left)
      BY <2>3 DEF LostOf, Lost
    <3>. QED
      BY <2>1, <3>1, <3>2
  <2>4. CASE n = Found
    <3>. DEFINE c == Cardinality(HoldersIn(list, n))
                o == Cardinality(OwnersNow)
    <3>1. c \in Nat
      BY <1>1, <1>8, FS_CardinalityType
    <3>2. p[n] = c + 0 + 0
      BY <1>6, <2>1, <2>2, <2>4 DEF LostOf
    <3>3. r[n] = p[n] + m
      BY <1>2, <1>3, <1>5, <2>4
    <3>4. Cardinality(HoldersIn(After, n)) = c + o
      BY <2>4, AfterFacts
    <3>5. LostOf(n, left \cup Lost) = IF OwnersNow = {} THEN 1 ELSE 0
      BY <1>6, <2>4 DEF LostOf, Lost
    <3>6. m = IF OwnersNow = {} THEN 1 ELSE o
      BY DEF m
    <3>7. o \in Nat /\ (OwnersNow = {} => o = 0)
      BY <1>4
    <3>. HIDE DEF c, o
    <3>8. r[n] = c + o + 0 + LostOf(n, left \cup Lost)
      BY <3>1, <3>2, <3>3, <3>5, <3>6, <3>7
    <3>. QED
      BY <2>2, <3>4, <3>8 DEF c, o
  <2>. QED
    BY <2>3, <2>4
<1>. QED
  BY <1>7, <1>9, <1>10 DEF Exact, r

-----------------------------------------------------------------------------
(* One call of get_onedevice().                                            *)

LEMMA CallFacts ==
  ASSUME ProbeInv, pc = "get"
  PROVE  /\ Types /\ machine \in Machines /\ devno \in Nat /\ devno >= 1 /\ devno <= Len(table.descr)
         /\ devno \in DOMAIN table.descr /\ prev \in Nat /\ Devices \in SUBSET Nat
         /\ list \in Seq(Controllers) /\ refs \in [Devices -> Int]
         /\ \A n \in Devices : IsFiniteSet(HoldersIn(list, n))
         /\ WalkAt(list, devno, prev, left) /\ StoresAt(list, devno, prev)
         /\ ~Knl /\ SocketsAgree => GatheredAt(list, devno, prev)
         /\ SocketsAgree => Exact(refs, list, prev, left)
<1>1. Types /\ machine \in Machines /\ devno <= Len(table.descr)
  BY DEF ProbeInv, Types, Progress
<1>2. devno \in Nat /\ devno >= 1 /\ devno \in DOMAIN table.descr
  BY <1>1, TableFacts DEF Types, WellFormed
<1>3. prev \in Nat /\ Devices \in SUBSET Nat
  BY <1>1, MachineFacts DEF Types, TableDevices, NULL
<1>. QED
  BY <1>1, <1>2, <1>3 DEF ProbeInv, Types, Walk, Gathered, Searched, Stores, Counted, Released

LEMMA OneEntry ==
  ASSUME machine \in Machines, ~Knl, NEW n, NEW d \in DOMAIN table.descr, NEW e \in DOMAIN table.descr,
         IsFor(n, d), IsFor(n, e)
  PROVE  d = e
<1>1. WellFormed(table.descr, Knl) /\ d \in Nat /\ e \in Nat
  BY TableFacts DEF WellFormed
<1>2. table.descr[d].id = table.descr[e].id
  BY DEF IsFor
<1>3. ~(d < e) /\ ~(e < d)
  BY <1>1, <1>2 DEF WellFormed
<1>. QED
  BY <1>1, <1>3

LEMMA NewlyBehind ==
  ASSUME devno \in Nat, ~Knl, NEW n, BehindAt(n, devno + 1, NULL), ~BehindAt(n, devno, prev)
  PROVE  IsFor(n, devno) /\ ~(prev # NULL /\ n <= prev)
<1>1. \A d \in devno .. Len(table.descr) : d = devno \/ d \in (devno + 1) .. Len(table.descr)
  OBVIOUS
<1>. QED
  BY <1>1 DEF BehindAt

(* The list is as it was, and no *prev is left.                            *)
LEMMA NextStep ==
  ASSUME ProbeInv, Calling, list' = list, refs' = Put(refs, prev), Advance(NULL, {}),
         Knl /\ devno = HA0Entry => list # <<>>,
         table.descr[HA1Entry].dom = IMC1 =>
           \A h \in Devices : IsFor(h, HA1Entry) /\ IsFor(h, devno) => prev # NULL /\ h <= prev,
         ~Knl /\ SocketsAgree => \A n \in Devices :
           IsFor(n, devno) /\ ~(prev # NULL /\ n <= prev) =>
             table.descr[devno].dom = IMC1 /\ \A k \in DOMAIN list : list[k].dom # IMC1
  PROVE  ProbeInv'
<1>1. pc = "get" /\ machine' = machine /\ mc' = mc
  BY DEF Calling
<1>2. /\ Types /\ machine \in Machines /\ devno \in Nat /\ devno >= 1 /\ devno <= Len(table.descr)
      /\ list \in Seq(Controllers) /\ refs \in [Devices -> Int]
      /\ \A n \in Devices : IsFiniteSet(HoldersIn(list, n))
      /\ WalkAt(list, devno, prev, left) /\ StoresAt(list, devno, prev)
      /\ ~Knl /\ SocketsAgree => GatheredAt(list, devno, prev)
      /\ SocketsAgree => Exact(refs, list, prev, left)
  BY <1>1, CallFacts
<1>3. /\ devno' = devno + 1 /\ prev' = NULL /\ left' = left /\ rc' = 0
      /\ pc' = IF devno' > Len(table.descr) THEN "register" ELSE "get"
  BY DEF Advance, Again
<1>4. left \in SUBSET TableDevices /\ prev \in TableDevices \cup {NULL}
  BY <1>2 DEF Types
<1>5. WalkAt(list, devno + 1, NULL, left)
  <2>1. \A n \in left : BehindAt(n, devno + 1, NULL)
    BY <1>2, BehindNext DEF WalkAt
  <2>2. ASSUME table.descr[HA1Entry].dom = IMC1, NEW h \in Devices, IsFor(h, HA1Entry),
               BehindAt(h, devno + 1, NULL)
        PROVE  HasIMC1In(list, Dev(h).bus)
    <3>1. ~Knl
      <4>1. HA1Entry \in DOMAIN table.descr
        BY <1>2, TableFacts DEF WellFormed, HA1Entry
      <4>. QED
        BY <1>2, <2>2, <4>1, TableFacts DEF WellFormed
    <3>3. BehindAt(h, devno, prev)
      BY <1>2, <2>2, <3>1, NewlyBehind
    <3>. QED
      BY <1>2, <2>2, <3>3 DEF WalkAt
  <2>3. \A k \in DOMAIN list : list[k].dom = IMC1 => HA1On(list[k].bus)
    BY <1>2 DEF WalkAt
  <2>4. Knl => list # <<>>
    BY <1>2 DEF WalkAt
  <2>. QED
    BY <2>1, <2>2, <2>3, <2>4 DEF WalkAt
<1>6. StoresAt(list, devno + 1, NULL)
  <2>1. ASSUME NEW k \in DOMAIN list PROVE Stored(list[k], (devno + 1) - 1)
    <3>1. list[k] \in Controllers
      BY <1>2, LenProperties
    <3>2. Stored(list[k], devno - 1)
      BY <1>2 DEF StoresAt
    <3>3. devno - 1 \in Int /\ (devno + 1) - 1 \in Int /\ devno - 1 <= (devno + 1) - 1
      BY <1>2
    <3>. QED
      BY <3>1, <3>2, <3>3, StoredLess
  <2>2. ~Knl => \A k \in DOMAIN list : \A s \in DOMAIN list[k].pdev :
                  BehindAt(list[k].pdev[s], devno + 1, NULL)
    BY <1>2, BehindNext DEF StoresAt
  <2>. QED
    BY <2>1, <2>2, Zenon DEF StoresAt
<1>7. Put(refs, prev) \in [Devices -> Int]
      /\ (SocketsAgree => Exact(Put(refs, prev), list, NULL, left))
  BY <1>2, <1>4, PutPrev
<1>8. ASSUME ~Knl, SocketsAgree
      PROVE  GatheredAt(list, devno + 1, NULL)
  <2>1. GatheredAt(list, devno, prev) /\ devno \in DOMAIN table.descr
    BY <1>1, <1>8, CallFacts
  <2>2. ASSUME NEW n \in Devices, NEW d \in DOMAIN table.descr, IsFor(n, d),
               BehindAt(n, devno + 1, NULL), ~BehindAt(n, devno, prev)
        PROVE  /\ table.descr[d].dom = IMC1 /\ \A k \in DOMAIN list : list[k].dom # IMC1
    <3>1. IsFor(n, devno) /\ ~(prev # NULL /\ n <= prev)
      BY <1>2, <1>8, <2>2, NewlyBehind
    <3>2. d = devno
      BY <1>2, <1>8, <2>1, <2>2, <3>1, OneEntry
    <3>. QED
      BY <1>8, <3>1, <3>2
  <2>3. ASSUME NEW n \in Devices, NEW d \in DOMAIN table.descr,
               IsFor(n, d), table.descr[d].dom = IMC0, BehindAt(n, devno + 1, NULL)
        PROVE  \E k \in DOMAIN list : list[k].bus = Dev(n).bus /\ list[k].dom = IMC0
    <3>1. BehindAt(n, devno, prev)
      BY <2>2, <2>3, Apart
    <3>. QED
      BY <2>1, <2>3, <3>1 DEF GatheredAt
  <2>4. ASSUME NEW k \in DOMAIN list, NEW n \in Share(list[k].bus, list[k].dom), BehindAt(n, devno + 1, NULL)
        PROVE  \E s \in DOMAIN list[k].pdev : list[k].pdev[s] = n
    <3>1. PICK d \in DOMAIN table.descr : IsFor(n, d) /\ table.descr[d].dom \in {SOCK, list[k].dom}
      BY DEF Share
    <3>2. n \in Devices
      BY DEF Share
    <3>3. BehindAt(n, devno, prev)
      BY <2>2, <2>4, <3>1, <3>2, Apart
    <3>. QED
      BY <2>1, <3>3 DEF GatheredAt
  <2>. QED
    BY <2>1, <2>3, <2>4 DEF GatheredAt
<1>. QED
  BY <1>1, <1>2, <1>3, <1>4, <1>5, <1>6, <1>7, <1>8, OnStep

LEMMA ExhaustedStep ==
  ASSUME ProbeInv, Exhausted
  PROVE  ProbeInv'
<1>1. /\ Calling /\ Found = NULL /\ (prev # NULL \/ Entry.optional) /\ list' = list
      /\ refs' = Put(refs, prev) /\ Advance(NULL, {}) /\ pc = "get"
  BY DEF Exhausted, Calling
<1>2. Knl /\ devno = HA0Entry => list # <<>>
  <2>1. machine \in Machines /\ WalkAt(list, devno, prev, left)
    BY <1>1, CallFacts
  <2>2. Knl /\ devno = HA0Entry => prev # NULL
    BY <1>1, <2>1, TableFacts DEF WellFormed, Entry
  <2>. QED
    BY <2>1, <2>2 DEF WalkAt
<1>3. \A h \in Devices : IsFor(h, devno) => prev # NULL /\ h <= prev
  <2>1. machine \in Machines /\ prev \in Nat /\ Devices \in SUBSET Nat /\ NULL \notin Devices
    BY <1>1, CallFacts, MachineFacts
  <2>2. \A h \in Devices : h > prev => Dev(h).id # Entry.id
    BY <1>1, <2>1, SearchFacts DEF Found
  <2>3. ASSUME NEW h \in Devices, IsFor(h, devno) PROVE prev # NULL /\ h <= prev
    <3>1. ~(h > prev)
      BY <2>2, <2>3 DEF IsFor, Entry
    <3>. QED
      BY <2>1, <3>1 DEF NULL
  <2>. QED
    BY <2>3
<1>. QED
  BY <1>1, <1>2, <1>3, NextStep

LEMMA MissingStep ==
  ASSUME ProbeInv, Missing
  PROVE  ProbeInv'
<1>1. pc = "get" /\ machine' = machine /\ mc' = mc /\ prev = NULL /\ Failed(refs, list, {})
  BY DEF Missing, Calling
<1>2. /\ devno \in Nat /\ list \in Seq(Controllers) /\ refs \in [Devices -> Int]
      /\ \A n \in Devices : IsFiniteSet(HoldersIn(list, n))
      /\ StoresAt(list, devno, prev)
      /\ SocketsAgree => Exact(refs, list, prev, left)
  BY <1>1, CallFacts
<1>3. \A k \in DOMAIN list : Stored(list[k], devno)
  <2>1. \A k \in DOMAIN list : list[k] \in Controllers /\ Stored(list[k], devno - 1)
    BY <1>2, LenProperties DEF StoresAt
  <2>2. devno - 1 \in Int /\ devno \in Int /\ devno - 1 <= devno
    BY <1>2
  <2>. QED
    BY <2>1, <2>2, StoredLess
<1>4. SocketsAgree => Exact(refs, list, NULL, left \cup {})
  <2>1. left \cup {} = left
    OBVIOUS
  <2>. QED
    BY <1>1, <1>2, <2>1
<1>. QED
  BY <1>1, <1>2, <1>3, <1>4, FailedStep

LEMMA AllocFailsStep ==
  ASSUME ProbeInv, AllocFails
  PROVE  ProbeInv'
<1>1. pc = "get" /\ machine' = machine /\ mc' = mc /\ Failed(Put(refs, prev), list, {})
  BY DEF AllocFails, Calling
<1>2. /\ Types /\ machine \in Machines /\ devno \in Nat /\ list \in Seq(Controllers) /\ refs \in [Devices -> Int]
      /\ \A n \in Devices : IsFiniteSet(HoldersIn(list, n))
      /\ StoresAt(list, devno, prev)
      /\ SocketsAgree => Exact(refs, list, prev, left)
  BY <1>1, CallFacts
<1>3. \A k \in DOMAIN list : Stored(list[k], devno)
  <2>1. \A k \in DOMAIN list : list[k] \in Controllers /\ Stored(list[k], devno - 1)
    BY <1>2, LenProperties DEF StoresAt
  <2>2. devno - 1 \in Int /\ devno \in Int /\ devno - 1 <= devno
    BY <1>2
  <2>. QED
    BY <2>1, <2>2, StoredLess
<1>4. Put(refs, prev) \in [Devices -> Int] /\ (SocketsAgree => Exact(Put(refs, prev), list, NULL, left))
  <2>1. prev \in TableDevices \cup {NULL}
    BY <1>2 DEF Types
  <2>. QED
    BY <1>2, <2>1, PutPrev
<1>5. SocketsAgree => Exact(Put(refs, prev), list, NULL, left \cup {})
  <2>1. left \cup {} = left
    OBVIOUS
  <2>. QED
    BY <1>4, <2>1
<1>6. {} \in SUBSET TableDevices
  OBVIOUS
<1>. QED
  BY <1>1, <1>2, <1>3, <1>4, <1>5, <1>6, FailedStep, Zenon

(* Where the sockets agree, a device of a second controller is skipped     *)
(* only if there is none, and so never behind one that was stored.         *)
LEMMA NoIMC1 ==
  ASSUME ProbeInv, SkipIMC1, SocketsAgree, NEW j \in DOMAIN list, list[j].dom = IMC1
  PROVE  FALSE
<1>1. /\ pc = "get" /\ Found # NULL /\ Entry.dom = IMC1 /\ devno # HA1Entry
      /\ Owners(Dev(Found).bus, IMC1) = {}
  BY DEF SkipIMC1, Calling, NeedsHA1
<1>2. /\ Types /\ machine \in Machines /\ devno \in Nat /\ devno <= Len(table.descr) /\ devno \in DOMAIN table.descr
      /\ WalkAt(list, devno, prev, left)
  BY <1>1, CallFacts
<1>3. /\ WellFormed(table.descr, Knl)
      /\ table.descr[devno].dom = IMC1
  BY <1>1, <1>2, TableFacts DEF Entry
<1>4. devno >= HA1Entry /\ table.descr[HA1Entry].dom = IMC1 /\ ~Knl
  BY <1>2, <1>3 DEF WellFormed
<1>5. Found \in Devices /\ IsFor(Found, devno)
  BY <1>1, <1>2, FoundFacts
<1>6. \E h \in Devices : IsFor(h, HA1Entry)
  <2>1. HA1On(list[j].bus)
    BY <1>2 DEF WalkAt
  <2>. QED
    BY <2>1 DEF HA1On
<1>7. PICK h \in Devices : IsFor(h, HA1Entry) /\ Dev(h).bus = Dev(Found).bus
  <2>1. HA1On(Dev(Found).bus)
    BY <1>2, <1>3, <1>5, <1>6 DEF SocketsAgree
  <2>. QED
    BY <2>1 DEF HA1On
<1>8. BehindAt(h, devno, prev)
  <2>1. ASSUME NEW d \in devno .. Len(table.descr), IsFor(h, d) PROVE FALSE
    <3>1. d \in DOMAIN table.descr /\ HA1Entry \in DOMAIN table.descr /\ HA1Entry < d
      BY <1>1, <1>2, <1>3, <1>4 DEF WellFormed, HA1Entry
    <3>2. table.descr[HA1Entry].id = table.descr[d].id
      BY <1>7, <2>1 DEF IsFor
    <3>. QED
      BY <1>3, <1>4, <3>1, <3>2 DEF WellFormed
  <2>. QED
    BY <2>1 DEF BehindAt
<1>9. HasIMC1In(list, Dev(Found).bus)
  BY <1>2, <1>4, <1>7, <1>8 DEF WalkAt
<1>. QED
  BY <1>1, <1>2, <1>4, <1>9, OwnersFacts DEF HasIMC1In

LEMMA NoSkip ==
  ASSUME ProbeInv, SkipIMC1, SocketsAgree
  PROVE  prev = NULL /\ \A k \in DOMAIN list : list[k].dom # IMC1
<1>1. \A k \in DOMAIN list : list[k].dom # IMC1
  BY NoIMC1
<1>2. pc = "get" /\ Entry.dom = IMC1
  BY DEF SkipIMC1, Calling, NeedsHA1
<1>3. WalkAt(list, devno, prev, left)
  BY <1>2, CallFacts
<1>. QED
  BY <1>1, <1>2, <1>3 DEF WalkAt, HasIMC1In, Entry

LEMMA SkipIMC1Step ==
  ASSUME ProbeInv, SkipIMC1
  PROVE  ProbeInv'
<1>1. /\ Calling /\ pc = "get" /\ machine' = machine /\ mc' = mc /\ Entry.dom = IMC1 /\ devno # HA1Entry
      /\ list' = list /\ refs' = Put(refs, prev) /\ Advance(prev, {})
  BY DEF SkipIMC1, Calling, NeedsHA1
<1>2. /\ Types /\ machine \in Machines /\ devno \in Nat /\ devno <= Len(table.descr) /\ devno \in DOMAIN table.descr
      /\ list \in Seq(Controllers) /\ refs \in [Devices -> Int]
      /\ \A n \in Devices : IsFiniteSet(HoldersIn(list, n))
      /\ WalkAt(list, devno, prev, left) /\ StoresAt(list, devno, prev)
      /\ left \in SUBSET TableDevices /\ prev \in TableDevices \cup {NULL}
  BY <1>1, CallFacts DEF Types
<1>3. WellFormed(table.descr, Knl) /\ ~Knl
  BY <1>1, <1>2, TableFacts DEF WellFormed, Entry
<1>4. CASE prev = NULL
  <2>1. \A h \in Devices : ~(IsFor(h, HA1Entry) /\ IsFor(h, devno))
    <3>1. HA1Entry \in DOMAIN table.descr /\ HA1Entry \in Nat
      BY <1>3 DEF WellFormed, HA1Entry
    <3>2. table.descr[HA1Entry].id # table.descr[devno].id
      <4>1. HA1Entry < devno \/ devno < HA1Entry
        BY <1>1, <1>2, <3>1
      <4>. QED
        BY <1>2, <1>3, <3>1, <4>1 DEF WellFormed
    <3>. QED
      BY <3>2 DEF IsFor
  <2>2. Advance(NULL, {})
    BY <1>1, <1>4
  <2>3. SocketsAgree => \A k \in DOMAIN list : list[k].dom # IMC1
    BY NoSkip
  <2>4. table.descr[devno].dom = IMC1
    BY <1>1 DEF Entry
  <2>. QED
    BY <1>1, <1>3, <2>1, <2>2, <2>3, <2>4, NextStep
<1>5. CASE prev # NULL
  <2>1. /\ devno' = devno /\ prev' = prev /\ left' = left /\ rc' = 0
        /\ pc' = IF devno' > Len(table.descr) THEN "register" ELSE "get"
    BY <1>1, <1>3, <1>5 DEF Advance, Again, allow_dups
  <2>2. ~SocketsAgree
    BY <1>5, NoSkip
  <2>3. Put(refs, prev) \in [Devices -> Int]
    BY <1>2, PutPrev
  <2>. QED
    BY <1>1, <1>2, <2>1, <2>2, <2>3, OnStep
<1>. QED
  BY <1>4, <1>5

LEMMA Created ==
  ASSUME Types
  PROVE  /\ Creates => /\ OwnersNow = {Len(list) + 1} /\ DOMAIN Before = DOMAIN list \cup {Len(list) + 1}
                       /\ Before[Len(list) + 1] = NewController(Dev(Found).bus, Entry.dom)
         /\ ~Creates => Before = list /\ OwnersNow = Owners(Dev(Found).bus, Entry.dom)
<1>1. Len(list) \in Nat /\ DOMAIN list = 1 .. Len(list)
  BY ListFacts
<1>2. CASE Creates
  <2>. DEFINE c == NewController(Dev(Found).bus, Entry.dom)
  <2>1. Before = Append(list, c) /\ OwnersNow = {Len(Before)}
    BY <1>2 DEF Before, OwnersNow
  <2>. HIDE DEF c
  <2>2. /\ Len(Append(list, c)) = Len(list) + 1 /\ DOMAIN Append(list, c) = DOMAIN list \cup {Len(list) + 1}
        /\ Append(list, c)[Len(list) + 1] = c
    BY <1>1 DEF Types
  <2>. QED
    BY <1>2, <2>1, <2>2 DEF c
<1>3. CASE ~Creates
  BY <1>3 DEF Before, OwnersNow
<1>. QED
  BY <1>2, <1>3

(* Where there are no more than n, the first n are all.                    *)
LEMMA AllLeast ==
  ASSUME NEW S \in SUBSET Nat, NEW n \in {1, 2}, NEW k \in S,
         n = 1 => \A y \in S : y = k,
         \A y, z \in S \ {k} : y = z
  PROVE  k \in Least(S, n)
<1>. DEFINE T == {y \in S : y < k}
<1>1. k \in Nat /\ k \notin T /\ T \subseteq S \ {k}
  OBVIOUS
<1>2. CASE T = {}
  <2>1. Cardinality(T) < n
    BY <1>2, FS_EmptySet
  <2>. QED
    BY <2>1 DEF Least
<1>3. CASE T # {}
  <2>1. PICK y \in T : TRUE
    BY <1>3
  <2>2. y \in S \ {k} /\ \A z \in T : z = y
    <3>. HIDE DEF T
    <3>. QED
      BY <1>1, <2>1
  <2>3. n = 2
    BY <2>2
  <2>. HIDE DEF T
  <2>4. T = {y}
    BY <2>1, <2>2
  <2>5. Cardinality(T) < n
    <3>1. Cardinality({y}) = 1
      BY FS_Singleton
    <3>. QED
      BY <2>3, <2>4, <3>1
  <2>. QED
    BY <2>5 DEF Least, T
<1>. QED
  BY <1>2, <1>3

(* Every controller a device belongs to takes it.                          *)
LEMMA AllOwners ==
  ASSUME ProbeInv, pc = "get", ~Knl, SocketsAgree, Found # NULL,
         NEW k \in DOMAIN list, list[k].bus = Dev(Found).bus, Entry.dom \in {SOCK, list[k].dom}
  PROVE  k \in Owners(Dev(Found).bus, Entry.dom)
<1>. DEFINE S == Matching(Dev(Found).bus, Entry.dom)
            n == IF Entry.dom = SOCK THEN table.n_imcs_per_sock ELSE 1
<1>1. /\ Types /\ machine \in Machines /\ WalkAt(list, devno, prev, left) /\ GatheredAt(list, devno, prev)
  BY CallFacts
<1>2. DOMAIN list \in SUBSET Nat /\ \A j \in DOMAIN list : list[j].dom \in {IMC0, IMC1}
  <2>1. DOMAIN list \in SUBSET Nat /\ \A j \in DOMAIN list : list[j] \in Controllers
    BY <1>1, ListFacts
  <2>. QED
    BY <2>1 DEF Controllers
<1>3. \A j \in DOMAIN list : j \in S <=> list[j].bus = Dev(Found).bus /\ Entry.dom \in {SOCK, list[j].dom}
  BY DEF Matching, multi_bus
<1>4. S \in SUBSET Nat /\ S \subseteq DOMAIN list /\ k \in S
  BY <1>2, <1>3 DEF Matching
<1>5. Owners(Dev(Found).bus, Entry.dom) = Least(S, n)
  BY DEF Owners
<1>6. n \in {1, 2}
  BY <1>1, TableFacts
<1>7. \A x, y \in S : list[x].dom = list[y].dom => x = y
  BY <1>1, <1>3, <1>4 DEF GatheredAt
<1>8. \A x, y \in S \ {k} : x = y
  BY <1>2, <1>4, <1>7
<1>9. ASSUME n = 1, NEW y \in S PROVE y = k
  <2>1. CASE Entry.dom # SOCK
    BY <1>3, <1>4, <1>7, <2>1
  <2>2. CASE Entry.dom = SOCK
    <3>1. \A d \in DOMAIN table.descr : table.descr[d].dom # IMC1
      BY <1>1, <1>9, <2>2, TableFacts
    <3>2. HA1Entry \in DOMAIN table.descr
      BY <1>1, TableFacts DEF WellFormed, HA1Entry
    <3>3. \A j \in DOMAIN list : list[j].dom # IMC1
      BY <1>1, <3>1, <3>2 DEF WalkAt, HA1On
    <3>. QED
      BY <1>2, <1>4, <1>7, <3>3
  <2>. QED
    BY <2>1, <2>2
<1>. HIDE DEF S, n
<1>10. k \in Least(S, n)
  BY <1>4, <1>6, <1>8, <1>9, AllLeast, Zenon
<1>. QED
  BY <1>5, <1>10

(* A new controller has missed no device of its share.                     *)
LEMMA NothingMissed ==
  ASSUME ProbeInv, pc = "get", ~Knl, SocketsAgree, Found # NULL, Creates,
         NEW n \in Share(Dev(Found).bus, Entry.dom), BehindAt(n, devno, prev)
  PROVE  FALSE
<1>1. /\ Types /\ machine \in Machines /\ WalkAt(list, devno, prev, left) /\ GatheredAt(list, devno, prev)
      /\ devno \in Nat /\ devno \in DOMAIN table.descr
  BY CallFacts
<1>2. WellFormed(table.descr, Knl)
  BY <1>1, TableFacts
<1>3. PICK d \in DOMAIN table.descr : IsFor(n, d) /\ table.descr[d].dom \in {SOCK, Entry.dom}
  BY DEF Share
<1>4. n \in Devices /\ Dev(n).bus = Dev(Found).bus
  BY DEF Share
<1>5. d <= devno
  <2>1. d \in devno .. Len(table.descr) => d = devno
    BY <1>3 DEF BehindAt
  <2>. QED
    BY <1>1, <1>2, <2>1 DEF WellFormed
<1>6. Entry.dom # SOCK /\ Owners(Dev(Found).bus, Entry.dom) = {} /\ (Entry.dom = IMC1 => devno = HA1Entry)
  BY DEF Creates, NeedsHA1
<1>7. ~\E k \in DOMAIN list : list[k].bus = Dev(Found).bus /\ list[k].dom = Entry.dom
  BY <1>1, <1>6, OwnersFacts
<1>8. table.descr[d].dom = Entry.dom
  <2>1. ASSUME table.descr[d].dom = SOCK PROVE FALSE
    <3>1. d \in Nat /\ (d = devno \/ d < devno)
      BY <1>1, <1>2, <1>5 DEF WellFormed
    <3>2. Entry.dom = SOCK
      BY <1>1, <1>2, <2>1, <3>1 DEF WellFormed, Entry
    <3>. QED
      BY <1>6, <3>2
  <2>. QED
    BY <1>3, <2>1
<1>9. CASE Entry.dom = IMC0
  BY <1>1, <1>3, <1>4, <1>7, <1>8, <1>9 DEF GatheredAt
<1>10. CASE Entry.dom = IMC1
  <2>1. d = HA1Entry /\ table.descr[HA1Entry].dom = IMC1
    <3>1. d \in Nat /\ d >= HA1Entry
      BY <1>2, <1>8, <1>10 DEF WellFormed, HA1Entry
    <3>2. d <= HA1Entry
      BY <1>5, <1>6, <1>10
    <3>3. d = HA1Entry
      BY <3>1, <3>2 DEF HA1Entry
    <3>. QED
      BY <1>8, <1>10, <3>3
  <2>2. HasIMC1In(list, Dev(n).bus)
    BY <1>1, <1>3, <1>4, <2>1 DEF WalkAt
  <2>. QED
    BY <1>4, <1>7, <1>10, <2>2 DEF HasIMC1In
<1>. QED
  BY <1>1, <1>2, <1>6, <1>9, <1>10 DEF WellFormed, Entry

LEMMA GatheredAfter ==
  ASSUME ProbeInv, pc = "get", Stores1, ~Knl, SocketsAgree
  PROVE  GatheredAt(After, devno, Found)
<1>. DEFINE bus == Dev(Found).bus
            new == Len(list) + 1
<1>1. /\ Types /\ machine \in Machines /\ GatheredAt(list, devno, prev) /\ Found # NULL
      /\ devno \in Nat /\ devno <= Len(table.descr) /\ devno \in DOMAIN table.descr
  BY CallFacts DEF Stores1
<1>2. Found \in Devices /\ IsFor(Found, devno)
  BY <1>1, FoundFacts
<1>3. /\ DOMAIN list \subseteq DOMAIN After
      /\ \A k \in DOMAIN list : After[k].bus = list[k].bus /\ After[k].dom = list[k].dom
      /\ \A k \in DOMAIN After \ DOMAIN list : /\ Creates /\ k = new /\ k \in OwnersNow
                                               /\ After[k].bus = bus /\ After[k].dom = Entry.dom
  <2>1. \A b, dom : NewController(b, dom).bus = b /\ NewController(b, dom).dom = dom
    BY DEF NewController
  <2>. QED
    BY <1>1, <2>1, Created, BeforeFacts, AfterFacts
<1>4. /\ \A k \in DOMAIN After : Len(Before[k].pdev) \in Nat /\ DOMAIN Before[k].pdev = 1 .. Len(Before[k].pdev)
                                /\ Before[k].pdev \in Seq(TableDevices)
  <2>1. \A k \in DOMAIN After : Before[k] \in Controllers
    BY AfterFacts, BeforeFacts, LenProperties
  <2>2. \A c \in Controllers : c.pdev \in Seq(TableDevices)
    BY DEF Controllers
  <2>. QED
    BY <2>1, <2>2, LenProperties
<1>5. \A k \in OwnersNow : \E s \in DOMAIN After[k].pdev : After[k].pdev[s] = Found
  <2>. TAKE k \in OwnersNow
  <2>. DEFINE q == Before[k].pdev
  <2>1. k \in DOMAIN After /\ After[k].pdev = Append(q, Found) /\ Len(q) \in Nat /\ q \in Seq(TableDevices)
    BY <1>4, BeforeFacts, AfterFacts
  <2>. HIDE DEF q
  <2>2. Len(q) + 1 \in DOMAIN Append(q, Found) /\ Append(q, Found)[Len(q) + 1] = Found
    BY <2>1
  <2>. QED
    BY <2>1, <2>2
<1>6. \A k \in DOMAIN list : \A s \in DOMAIN list[k].pdev :
        s \in DOMAIN After[k].pdev /\ After[k].pdev[s] = list[k].pdev[s]
  <2>. TAKE k \in DOMAIN list
  <2>. DEFINE q == list[k].pdev
  <2>1. /\ k \in DOMAIN After /\ Before[k] = list[k]
        /\ After[k].pdev = IF k \in OwnersNow THEN Append(q, Found) ELSE q
        /\ Len(q) \in Nat /\ DOMAIN q = 1 .. Len(q) /\ q \in Seq(TableDevices)
    BY <1>3, <1>4, BeforeFacts, AfterFacts
  <2>. HIDE DEF q
  <2>2. \A s \in DOMAIN q : s \in DOMAIN Append(q, Found) /\ Append(q, Found)[s] = q[s]
    BY <2>1
  <2>. QED
    BY <2>1, <2>2 DEF q
<1>7. Creates => ~\E k \in DOMAIN list : list[k].bus = bus /\ list[k].dom = Entry.dom
  BY <1>1, OwnersFacts DEF Creates
<1>. HIDE DEF new
<1>8. ASSUME NEW j \in DOMAIN After, NEW k \in DOMAIN After, After[j].bus = After[k].bus, After[j].dom = After[k].dom
      PROVE  j = k
  BY <1>1, <1>3, <1>7, <1>8 DEF GatheredAt
<1>9. ASSUME NEW n \in Devices, NEW d \in DOMAIN table.descr,
             IsFor(n, d), table.descr[d].dom = IMC0, BehindAt(n, devno, Found)
      PROVE  \E k \in DOMAIN After : After[k].bus = Dev(n).bus /\ After[k].dom = IMC0
  <2>1. CASE BehindAt(n, devno, prev)
    <3>1. PICK k \in DOMAIN list : list[k].bus = Dev(n).bus /\ list[k].dom = IMC0
      BY <1>1, <1>9, <2>1 DEF GatheredAt
    <3>. QED
      BY <1>3, <3>1
  <2>2. CASE ~BehindAt(n, devno, prev)
    <3>1. n = Found
      BY <1>1, <1>9, <2>2, FoundNext
    <3>2. Entry.dom = IMC0
      BY <1>1, <1>2, <1>9, <3>1, OneEntry DEF Entry
    <3>3. PICK k \in OwnersNow : TRUE
      BY <3>2, BeforeFacts, Apart
    <3>4. k \in DOMAIN After /\ After[k].bus = bus /\ After[k].dom = IMC0
      BY <3>2, BeforeFacts, AfterFacts, Apart
    <3>. QED
      BY <3>1, <3>4
  <2>. QED
    BY <2>1, <2>2
<1>10. ASSUME NEW k \in DOMAIN After, NEW n \in Share(After[k].bus, After[k].dom), BehindAt(n, devno, Found)
       PROVE  \E s \in DOMAIN After[k].pdev : After[k].pdev[s] = n
  <2>0. n \in Devices
    BY DEF Share
  <2>1. CASE k \in DOMAIN list /\ BehindAt(n, devno, prev)
    <3>1. PICK s \in DOMAIN list[k].pdev : list[k].pdev[s] = n
      BY <1>1, <1>3, <1>10, <2>1 DEF GatheredAt
    <3>. QED
      BY <1>6, <2>1, <3>1
  <2>2. CASE k \in DOMAIN list /\ n = Found
    <3>1. list[k].bus = bus
      BY <1>3, <1>10, <2>2 DEF Share
    <3>2. PICK d \in DOMAIN table.descr : IsFor(n, d) /\ table.descr[d].dom \in {SOCK, list[k].dom}
      BY <1>3, <1>10, <2>2 DEF Share
    <3>3. Entry.dom \in {SOCK, list[k].dom}
      BY <1>1, <1>2, <2>2, <3>2, OneEntry DEF Entry
    <3>4. k \in Owners(bus, Entry.dom)
      BY <1>1, <2>2, <3>1, <3>3, AllOwners
    <3>5. ~Creates
      BY <3>4 DEF Creates
    <3>6. k \in OwnersNow
      BY <3>4, <3>5 DEF OwnersNow
    <3>. QED
      BY <1>5, <2>2, <3>6
  <2>3. CASE k \notin DOMAIN list
    <3>1. Creates /\ k \in OwnersNow /\ After[k].bus = bus /\ After[k].dom = Entry.dom
      BY <1>3, <2>3
    <3>2. ~BehindAt(n, devno, prev)
      BY <1>1, <1>10, <3>1, NothingMissed
    <3>3. n = Found
      BY <1>1, <1>10, <2>0, <3>2, FoundNext
    <3>. QED
      BY <1>5, <3>1, <3>3
  <2>4. BehindAt(n, devno, prev) \/ n = Found
    BY <1>1, <1>10, <2>0, FoundNext
  <2>. QED
    BY <2>1, <2>2, <2>3, <2>4
<1>. QED
  BY <1>8, <1>9, <1>10 DEF GatheredAt

LEMMA StoreStep ==
  ASSUME ProbeInv, Store
  PROVE  ProbeInv'
<1>1. pc = "get" /\ machine' = machine /\ mc' = mc /\ Stores1 /\ Found # NULL
  BY StoreCases DEF Calling, Stores1
<1>2. /\ Types /\ machine \in Machines /\ devno \in Nat /\ devno >= 1 /\ devno <= Len(table.descr)
      /\ devno \in DOMAIN table.descr
      /\ WalkAt(list, devno, prev, left)
      /\ left \in SUBSET TableDevices
  BY <1>1, CallFacts DEF Types
<1>3. Found \in TableDevices /\ Found \in Devices /\ IsFor(Found, devno) /\ ~Behind(Found) /\ Found > prev
  BY <1>1, <1>2, FoundFacts
<1>4. After \in Seq(Controllers)
  BY <1>1, AfterFacts
<1>5. \A n \in Devices : IsFiniteSet(HoldersIn(After, n))
  <2>1. \A n \in Devices : IsFiniteSet(HoldersIn(list, n))
    BY <1>1, CallFacts
  <2>. QED
    BY <1>1, <2>1, AfterFacts
<1>6. /\ StoreRefs(OwnersNow) \in [Devices -> Int]
      /\ SocketsAgree => Exact(StoreRefs(OwnersNow), After, NULL, left \cup Lost)
  BY <1>1, StoreExact
<1>7. Lost \in SUBSET TableDevices /\ (Knl => Lost = {}) /\ Lost \in SUBSET {Found}
  BY <1>1, <1>3, BeforeFacts DEF Lost
<1>8. \A k \in DOMAIN After :
        /\ Stored(After[k], devno)
        /\ ~Knl => \A s \in DOMAIN After[k].pdev : BehindAt(After[k].pdev[s], devno, Found)
        /\ After[k].dom = IMC1 => HA1On(After[k].bus)
  BY <1>1, StoredAfter
<1>9. CASE Failed(StoreRefs(OwnersNow), After, Lost)
  BY <1>1, <1>4, <1>5, <1>6, <1>7, <1>8, <1>9, FailedStep, Zenon
<1>10. CASE /\ list' = After
            /\ refs' = Get(StoreRefs(OwnersNow), Found, 1)
            /\ Advance(Found, Lost)
  <2>1. rc' = 0 /\ pc' = IF devno' > Len(table.descr) THEN "register" ELSE "get"
    BY <1>10 DEF Advance
  <2>2. /\ refs' \in [Devices -> Int]
        /\ SocketsAgree =>
             /\ Exact(refs', After, Found, left \cup Lost)
             /\ Found \notin left \cup Lost => Exact(refs', After, NULL, (left \cup Lost) \cup {Found})
    <3>. DEFINE gone == left \cup Lost
    <3>. HIDE DEF gone
    <3>1. /\ StoreRefs(OwnersNow) \in [Devices -> Int]
          /\ SocketsAgree => Exact(StoreRefs(OwnersNow), After, NULL, gone)
      BY <1>6 DEF gone
    <3>2. /\ refs' \in [Devices -> Int]
          /\ Exact(StoreRefs(OwnersNow), After, NULL, gone) =>
               /\ Exact(refs', After, Found, gone)
               /\ Found \notin gone => Exact(refs', After, NULL, gone \cup {Found})
      BY <1>2, <1>3, <1>5, <1>10, <3>1, GetOn
    <3>. QED
      BY <3>1, <3>2 DEF gone
  <2>3. \A n \in Devices : Behind(n) => BehindAt(n, devno, Found)
    BY <1>1, <1>2, BehindFound
  <2>4. \A n \in left : Behind(n)
    BY <1>2 DEF WalkAt, Behind
  <2>5. left \in SUBSET Devices /\ Found \notin left
    BY <1>2, <1>3, <2>4 DEF TableDevices
  <2>6. CASE ~Knl
    <3>1. devno' = devno /\ prev' = Found /\ left' = left \cup Lost
      BY <1>1, <1>10, <2>6 DEF Advance, Again, allow_dups
    <3>2. WalkAt(After, devno, Found, left \cup Lost)
      <4>1. table.descr[devno].dom = IMC1 => HasIMC1In(After, Dev(Found).bus)
        BY <1>1, HasIMC1After DEF Entry
      <4>2. \A n \in left \cup Lost : BehindAt(n, devno, Found)
        BY <1>1, <1>2, <1>7, <2>3, <2>4, <2>5, <2>6, BehindFound
      <4>3. ASSUME table.descr[HA1Entry].dom = IMC1, NEW h \in Devices, IsFor(h, HA1Entry),
                   BehindAt(h, devno, Found)
            PROVE  HasIMC1In(After, Dev(h).bus)
        <5>1. CASE BehindAt(h, devno, prev)
          BY <1>1, <1>2, <4>3, <5>1, HasIMC1After DEF WalkAt
        <5>2. CASE ~BehindAt(h, devno, prev)
          <6>6. h = Found
            BY <1>1, <4>3, <5>2, FoundNext
          <6>7. devno = HA1Entry
            <7>1. WellFormed(table.descr, Knl) /\ HA1Entry \in Nat
              BY <1>2, TableFacts DEF HA1Entry
            <7>2. table.descr[HA1Entry].id = table.descr[devno].id /\ HA1Entry \in DOMAIN table.descr
              BY <1>3, <4>3, <6>6, <7>1 DEF IsFor, WellFormed, HA1Entry
            <7>3. ~(devno < HA1Entry) /\ ~(HA1Entry < devno)
              BY <1>2, <2>6, <7>1, <7>2 DEF WellFormed
            <7>. QED
              BY <1>2, <7>1, <7>3
          <6>. QED
            BY <1>1, <4>3, <6>6, <6>7, HasIMC1After DEF Entry
        <5>. QED
          BY <5>1, <5>2
      <4>. QED
        BY <1>3, <1>8, <2>6, <4>1, <4>2, <4>3 DEF WalkAt
    <3>3. StoresAt(After, devno, Found)
      <4>1. ASSUME NEW k \in DOMAIN After PROVE Stored(After[k], devno - 1)
        BY <1>8, <2>6 DEF Stored
      <4>. QED
        BY <1>8, <4>1 DEF StoresAt
    <3>4. prev' \in TableDevices \cup {NULL} /\ left' \in SUBSET TableDevices
      BY <1>2, <1>3, <1>7, <3>1
    <3>5. /\ list' \in Seq(Controllers) /\ \A n \in Devices : IsFiniteSet(HoldersIn(list', n))
          /\ WalkAt(list', devno', prev', left') /\ StoresAt(list', devno', prev')
      BY <1>4, <1>5, <1>10, <3>1, <3>2, <3>3
    <3>6. SocketsAgree => Exact(refs', list', prev', left')
      BY <1>10, <2>2, <3>1
    <3>7. SocketsAgree => GatheredAt(list', devno', prev')
      BY <1>1, <1>10, <2>6, <3>1, GatheredAfter
    <3>. QED
      BY <1>1, <1>2, <2>1, <2>2, <2>6, <3>1, <3>4, <3>5, <3>6, <3>7, OnStep
  <2>7. CASE Knl
    <3>. DEFINE next == devno + 1
    <3>1. /\ devno' = next /\ Lost = {}
          /\ \/ Same(devno) /\ prev' = Found /\ left' = left
             \/ ~Same(devno) /\ prev' = NULL /\ left' = left \cup {Found}
      BY <1>1, <1>7, <1>10, <2>7 DEF Advance, Again, allow_dups
    <3>2. /\ \A d \in DOMAIN table.descr : table.descr[d].dom # IMC1
          /\ HA1Entry \in DOMAIN table.descr /\ DOMAIN table.descr = 1 .. Len(table.descr)
          /\ Len(table.descr) \in Nat
      BY <1>2, <2>7, TableFacts DEF WellFormed, HA1Entry
    <3>3. prev' # NULL => IsFor(prev', next) /\ next \in DOMAIN table.descr
      BY <1>3, <3>1 DEF Same, IsFor
    <3>4. \A n \in left' : BehindAt(n, next, prev')
      <4>1. \A n \in left : BehindAt(n, next, prev')
        BY <1>2, <2>4, BehindNext DEF Behind
      <4>2. ~Same(devno) => BehindAt(Found, next, prev')
        BY <1>1, <1>2, <2>7, BehindFound
      <4>. QED
        BY <3>1, <4>1, <4>2
    <3>5. WalkAt(After, next, prev', left')
      <4>1. After # <<>>
        BY <1>1, <2>7, AfterFacts
      <4>. HIDE DEF next
      <4>. QED
        BY <1>8, <3>2, <3>3, <3>4, <4>1 DEF WalkAt
    <3>6. StoresAt(After, next, prev')
      <4>1. next - 1 = devno
        BY <1>2
      <4>. HIDE DEF next
      <4>. QED
        BY <1>8, <2>7, <4>1 DEF StoresAt
    <3>7. prev' \in TableDevices \cup {NULL} /\ left' \in SUBSET TableDevices
      BY <1>2, <1>3, <3>1
    <3>8. prev' # NULL => devno' <= Len(table.descr)
      BY <1>2, <3>1, <3>2, <3>3
    <3>9. SocketsAgree => Exact(refs', After, prev', left')
      <4>1. left \cup Lost = left
        BY <3>1
      <4>. QED
        BY <2>2, <2>5, <3>1, <4>1
    <3>10. /\ list' \in Seq(Controllers) /\ \A n \in Devices : IsFiniteSet(HoldersIn(list', n))
           /\ WalkAt(list', devno', prev', left') /\ StoresAt(list', devno', prev')
           /\ (SocketsAgree => Exact(refs', list', prev', left'))
           /\ devno' \in {devno, devno + 1}
      BY <1>4, <1>5, <1>10, <3>1, <3>5, <3>6, <3>9
    <3>. QED
      BY <1>1, <2>1, <2>2, <2>7, <3>7, <3>8, <3>10, OnStep
  <2>. QED
    BY <2>6, <2>7
<1>. QED
  BY <1>9, <1>10, StoreCases

-----------------------------------------------------------------------------
(* The rest of the probe, and the removal.                                 *)

(* The VT-d device is not in the tables.                                   *)
LEMMA BoundFacts ==
  ASSUME machine \in Machines, NEW r \in [Devices -> Int], r = refs
  PROVE  /\ BoundRefs \in [Devices -> Int]
         /\ \A n \in TableDevices : BoundRefs[n] = r[n]
         /\ \A n \in Devices : BoundRefs[n] >= r[n]
<1>1. Vtd # NULL => Vtd \in Devices /\ Dev(Vtd).id = "VTD"
  BY SearchFacts DEF Vtd
<1>2. Vtd # NULL => Vtd \notin TableDevices
  BY <1>1, TableFacts DEF TableDevices, WellFormed
<1>3. BoundRefs = r \/ (Vtd # NULL /\ BoundRefs = [r EXCEPT ![Vtd] = @ + 1])
  BY DEF BoundRefs, Get
<1>4. TableDevices \in SUBSET Devices
  BY DEF TableDevices
<1>. QED
  BY <1>1, <1>2, <1>3, <1>4

LEMMA BoundExact ==
  ASSUME machine \in Machines, refs \in [Devices -> Int], NEW r \in {refs, BoundRefs},
         NEW l, NEW lost, NEW b, \A n : HoldersIn(b, n) = HoldersIn(l, n), Exact(refs, l, NULL, lost)
  PROVE  Exact(r, b, NULL, lost)
<1>1. /\ BoundRefs \in [Devices -> Int]
      /\ \A n \in TableDevices : BoundRefs[n] = refs[n]
      /\ \A n \in Devices : BoundRefs[n] >= refs[n]
  BY BoundFacts
<1>2. \A n \in Devices \ TableDevices : r[n] >= 0
  BY <1>1 DEF Exact
<1>3. \A n \in TableDevices : r[n] = refs[n]
  BY <1>1
<1>. QED
  BY <1>2, <1>3 DEF Exact

LEMMA RegisterOKStep ==
  ASSUME ProbeInv, RegisterOK
  PROVE  ProbeInv'
<1>. USE SameMachine
<1>1. /\ pc = "register" /\ mc <= Len(list) /\ list' = [list EXCEPT ![mc].mci = TRUE]
      /\ refs' = BoundRefs /\ mc' = mc + 1
      /\ machine' = machine /\ pc' = pc /\ devno' = devno /\ prev' = prev /\ left' = left /\ rc' = rc
  BY DEF RegisterOK
<1>2. /\ Types /\ machine \in Machines /\ mc \in Nat \ {0} /\ refs \in [Devices -> Int] /\ rc = 0
      /\ list \in Seq(Controllers) /\ Len(list) \in Nat /\ DOMAIN list = 1 .. Len(list)
      /\ \A k \in DOMAIN list : list[k] \in Controllers
  BY <1>1, ListFacts DEF ProbeInv, Types, Progress
<1>3. mc \in DOMAIN list
  BY <1>1, <1>2
<1>4. \A c \in Controllers : LET d == [c EXCEPT !.mci = TRUE]
                             IN  d \in Controllers /\ d.bus = c.bus /\ d.dom = c.dom /\ d.pdev = c.pdev /\ d.mci
  <2>. TAKE c \in Controllers
  <2>1. c \in [bus : Buses, dom : {IMC0, IMC1}, pdev : Seq(TableDevices), mci : BOOLEAN]
    BY DEF Controllers
  <2>. DEFINE d == [c EXCEPT !.mci = TRUE]
  <2>2. d \in [bus : Buses, dom : {IMC0, IMC1}, pdev : Seq(TableDevices), mci : BOOLEAN]
        /\ d.bus = c.bus /\ d.dom = c.dom /\ d.pdev = c.pdev /\ d.mci
    BY <2>1
  <2>. QED
    BY <2>2 DEF Controllers
<1>5. /\ DOMAIN list' = DOMAIN list /\ Len(list') = Len(list) /\ list' \in Seq(Controllers)
      /\ \A k \in DOMAIN list : /\ k # mc => list'[k] = list[k]
                                /\ k = mc => list'[k] = [list[mc] EXCEPT !.mci = TRUE]
  <2>1. [list[mc] EXCEPT !.mci = TRUE] \in Controllers
    BY <1>2, <1>3, <1>4
  <2>2. list' = [list EXCEPT ![mc] = [list[mc] EXCEPT !.mci = TRUE]]
    BY <1>1
  <2>. DEFINE d == [list[mc] EXCEPT !.mci = TRUE]
  <2>. HIDE DEF d
  <2>3. d \in Controllers /\ list' = [list EXCEPT ![mc] = d]
    BY <2>1, <2>2 DEF d
  <2>4. /\ DOMAIN list' = DOMAIN list /\ Len(list') = Len(list) /\ list' \in Seq(Controllers)
        /\ \A k \in DOMAIN list : (k # mc => list'[k] = list[k]) /\ (k = mc => list'[k] = d)
    BY <1>2, <1>3, <2>3
  <2>. QED
    BY <2>4 DEF d
<1>6. \A k \in DOMAIN list : /\ list'[k].bus = list[k].bus /\ list'[k].dom = list[k].dom
                             /\ list'[k].pdev = list[k].pdev /\ (list[k].mci \/ k = mc => list'[k].mci)
  <2>. TAKE k \in DOMAIN list
  <2>1. CASE k = mc
    <3>. DEFINE c == list[k]
                d == [c EXCEPT !.mci = TRUE]
    <3>1. c \in Controllers /\ list'[k] = d
      BY <1>2, <1>5, <2>1
    <3>2. d.bus = c.bus /\ d.dom = c.dom /\ d.pdev = c.pdev /\ d.mci
      BY <1>4, <3>1
    <3>. HIDE DEF d
    <3>. QED
      BY <3>1, <3>2
  <2>2. CASE k # mc
    BY <1>5, <2>2
  <2>. QED
    BY <2>1, <2>2
<1>7. BoundRefs \in [Devices -> Int]
  BY <1>2, BoundFacts
<1>8. Types'
  BY <1>1, <1>2, <1>5, <1>7 DEF Types
<1>9. Progress'
  <2>1. \A k \in DOMAIN list : k < mc => list[k].mci
    BY <1>1 DEF ProbeInv, Progress
  <2>2. \A k \in DOMAIN list : k < mc + 1 => k < mc \/ k = mc
    BY <1>2
  <2>3. \A k \in DOMAIN list' : k < mc' => list'[k].mci
    BY <1>1, <1>5, <1>6, <2>1, <2>2
  <2>4. mc' <= Len(list') + 1
    BY <1>1, <1>2, <1>5
  <2>5. ~Released'
    BY <1>1 DEF Released
  <2>. QED
    BY <1>1, <1>2, <2>3, <2>4, <2>5 DEF Progress
<1>10. Walk' /\ Gathered'
  <2>1. Searched' = Searched
    BY <1>1 DEF Searched
  <2>2. WalkAt(list, devno, prev, left) => WalkAt(list', devno', prev', left')
    <3>1. \A b : HasIMC1In(list, b) => HasIMC1In(list', b)
      BY <1>5, <1>6 DEF HasIMC1In
    <3>2. list # <<>> => list' # <<>>
      BY <1>2, <1>5
    <3>3. \A k \in DOMAIN list' : list'[k].dom = list[k].dom /\ list'[k].bus = list[k].bus
      BY <1>5, <1>6
    <3>. QED
      BY <1>1, <1>5, <3>1, <3>2, <3>3 DEF WalkAt
  <2>3. GatheredAt(list, devno, prev) => GatheredAt(list', devno', prev')
    BY <1>1, <1>5, <1>6 DEF GatheredAt
  <2>4. WalkAt(list', devno', prev', left') => WalkAt(list, devno, prev, left)'
    BY <1>1 DEF WalkAt
  <2>5. GatheredAt(list', devno', prev') => GatheredAt(list, devno, prev)'
    BY <1>1 DEF GatheredAt
  <2>. QED
    BY <1>1, <2>1, <2>2, <2>3, <2>4, <2>5 DEF ProbeInv, Walk, Gathered
<1>11. Stores'
  <2>1. \A k \in DOMAIN list : Stored(list[k], table.n_devs_per_imc)
    BY <1>1 DEF ProbeInv, Stores
  <2>2. \A k \in DOMAIN list' : Stored(list'[k], table.n_devs_per_imc)
    BY <1>5, <1>6, <2>1 DEF Stored
  <2>. QED
    BY <1>1, <2>2 DEF Stores
<1>12. Counted'
  <2>1. \A n : HoldersIn(list', n) = HoldersIn(list, n)
    BY <1>5, <1>6 DEF HoldersIn
  <2>2. \A n \in Devices : IsFiniteSet(HoldersIn(list', n))
    BY <2>1 DEF ProbeInv, Counted
  <2>3. ~Released' /\ ~Released
    BY <1>1 DEF Released
  <2>4. SocketsAgree => Exact(refs', list', NULL, left)
    <3>1. SocketsAgree => Exact(refs, list, NULL, left)
      BY <1>1, <2>3 DEF ProbeInv, Counted
    <3>. QED
      BY <1>1, <1>2, <2>1, <3>1, BoundExact
  <2>5. SocketsAgree => Exact(refs, list, IF pc = "get" THEN prev ELSE NULL, left)'
    BY <1>1, <2>4 DEF Exact
  <2>6. Devices' = Devices /\ SocketsAgree' = SocketsAgree
    BY <1>1
  <2>. QED
    BY ONLY <2>2, <2>3, <2>5, <2>6 DEF Counted
<1>. QED
  BY <1>8, <1>9, <1>10, <1>11, <1>12 DEF ProbeInv

LEMMA RegisterFailsStep ==
  ASSUME ProbeInv, RegisterFails
  PROVE  ProbeInv'
<1>. USE SameMachine
<1>1. /\ pc = "register" /\ refs' \in {refs, BoundRefs} /\ pc' = "fail1" /\ rc' = -1
      /\ machine' = machine /\ list' = list /\ devno' = devno /\ prev' = prev /\ left' = left /\ mc' = mc
  BY DEF RegisterFails
<1>2. Types /\ machine \in Machines /\ refs \in [Devices -> Int]
  BY DEF ProbeInv, Types
<1>3. refs' \in [Devices -> Int]
  BY <1>1, <1>2, BoundFacts
<1>4. Types'
  BY <1>1, <1>2, <1>3 DEF Types
<1>5. ~Released' /\ ~Released
  BY <1>1 DEF Released
<1>6. Progress'
  BY <1>1, <1>5 DEF ProbeInv, Progress
<1>7. Walk' /\ Gathered' /\ Stores'
  <2>1. ~Searched'
    BY <1>1 DEF Searched
  <2>. QED
    BY <1>1, <2>1 DEF ProbeInv, Walk, Gathered, Stores
<1>8. Counted'
  <2>1. \A n \in Devices : IsFiniteSet(HoldersIn(list', n))
    BY <1>1 DEF ProbeInv, Counted
  <2>2. SocketsAgree => Exact(refs', list', NULL, left)
    <3>1. SocketsAgree => Exact(refs, list, NULL, left)
      BY <1>1, <1>5 DEF ProbeInv, Counted
    <3>. QED
      BY <1>1, <1>2, <3>1, BoundExact
  <2>3. SocketsAgree => Exact(refs, list, IF pc = "get" THEN prev ELSE NULL, left)'
    BY <1>1, <2>2 DEF Exact
  <2>. QED
    BY <1>1, <1>5, <2>1, <2>3 DEF Counted
<1>. QED
  BY <1>4, <1>6, <1>7, <1>8 DEF ProbeInv

LEMMA RegisteredStep ==
  ASSUME ProbeInv, Registered
  PROVE  ProbeInv'
<1>. USE SameMachine
<1>1. /\ pc = "register" /\ mc > Len(list) /\ pc' = "done" /\ refs' = refs /\ rc' = rc
      /\ machine' = machine /\ list' = list /\ devno' = devno /\ prev' = prev /\ left' = left /\ mc' = mc
  BY DEF Registered
<1>2. /\ Types /\ Len(list) \in Nat /\ DOMAIN list = 1 .. Len(list) /\ mc \in Nat /\ rc = 0
  BY <1>1, ListFacts DEF ProbeInv, Types, Progress
<1>3. Types'
  BY <1>1, <1>2 DEF Types
<1>4. ~Released' /\ ~Released
  BY <1>1, <1>2 DEF Released
<1>5. Progress'
  <2>1. \A k \in DOMAIN list : k < mc
    BY <1>1, <1>2
  <2>. QED
    BY <1>1, <1>2, <1>4, <2>1 DEF ProbeInv, Progress
<1>6. Walk' /\ Gathered' /\ Stores'
  <2>1. ~Searched'
    BY <1>1 DEF Searched
  <2>. QED
    BY <1>1, <2>1 DEF ProbeInv, Walk, Gathered, Stores
<1>7. Counted'
  <2>1. SocketsAgree => Exact(refs, list, NULL, left)
    BY <1>1, <1>4 DEF ProbeInv, Counted
  <2>2. SocketsAgree => Exact(refs, list, IF pc = "get" THEN prev ELSE NULL, left)'
    BY <1>1, <2>1 DEF Exact
  <2>. QED
    BY <1>1, <1>4, <2>2 DEF ProbeInv, Counted
<1>. QED
  BY <1>3, <1>5, <1>6, <1>7 DEF ProbeInv

LEMMA CleanupStep ==
  ASSUME ProbeInv, Fail1 \/ Remove
  PROVE  ProbeInv'
<1>1. /\ refs' = PutAll(refs, list) /\ list' = <<>>
      /\ \/ pc = "fail1" /\ pc' = "done"
         \/ pc = "done" /\ pc' = "removed" /\ rc = 0
      /\ machine' = machine /\ devno' = devno /\ prev' = prev /\ left' = left /\ mc' = mc /\ rc' = rc
  BY DEF Fail1, Remove, Cleanup
<1>2. /\ Types /\ machine \in Machines /\ list \in Seq(Controllers) /\ refs \in [Devices -> Int]
      /\ (pc = "fail1" => rc = -1)
  BY DEF ProbeInv, Types, Progress
<1>3. ~Released /\ Released' /\ pc # "get"
  BY <1>1, <1>2 DEF Released
<1>4. refs' \in [Devices -> Int] /\ Walk' /\ Gathered' /\ Stores' /\ Counted'
  <2>1. \A n \in Devices : IsFiniteSet(HoldersIn(list, n))
    BY DEF ProbeInv, Counted
  <2>2. \A k \in DOMAIN list : Stored(list[k], table.n_devs_per_imc)
    BY <1>3 DEF ProbeInv, Stores
  <2>3. SocketsAgree => Exact(refs, list, NULL, left')
    BY <1>1, <1>3 DEF ProbeInv, Counted
  <2>. QED
    BY <1>1, <1>2, <1>3, <2>1, <2>2, <2>3, PutStep
<1>5. Types'
  BY <1>1, <1>2, <1>4, SameMachine DEF Types
<1>6. Progress'
  BY <1>1, <1>2, <1>3 DEF Progress
<1>. QED
  BY <1>4, <1>5, <1>6 DEF ProbeInv

-----------------------------------------------------------------------------
(* The theorems.                                                           *)

LEMMA ProbeInit ==
  Init => ProbeInv
<1>. SUFFICES ASSUME Init PROVE ProbeInv
  OBVIOUS
<1>1. /\ machine \in Machines /\ refs = [n \in Devices |-> 0] /\ list = <<>> /\ pc = "get" /\ devno = 1
      /\ prev = NULL /\ left = {} /\ mc = 1 /\ rc = 0
  BY DEF Init, HA0Entry
<1>2. /\ WellFormed(table.descr, Knl) /\ Len(table.descr) \in Nat /\ Len(table.descr) >= 2
      /\ HA1Entry \in DOMAIN table.descr /\ HA1Entry \in devno .. Len(table.descr) /\ HA1Entry # devno
  BY <1>1, TableFacts DEF WellFormed, HA1Entry
<1>3. Types
  BY <1>1, <1>2 DEF Types
<1>4. Progress
  BY <1>1, <1>2 DEF Progress, Released
<1>5. Walk /\ Gathered
  <2>0. \A n \in Devices, d \in DOMAIN table.descr : IsFor(n, d) => ~BehindAt(n, devno, prev)
    BY <1>1, <1>2 DEF BehindAt, WellFormed
  <2>1. \A h \in Devices : IsFor(h, HA1Entry) => ~BehindAt(h, devno, prev)
    BY <1>2 DEF BehindAt
  <2>. QED
    BY <1>1, <2>0, <2>1 DEF Walk, WalkAt, Gathered, GatheredAt, HA0Entry
<1>6. Stores
  BY <1>1 DEF Stores, StoresAt
<1>7. Counted
  <2>1. \A n \in Devices : HoldersIn(list, n) = {}
    BY <1>1 DEF HoldersIn
  <2>2. \A n \in Devices : IsFiniteSet(HoldersIn(list, n)) /\ Cardinality(HoldersIn(list, n)) = 0
    BY <2>1, FS_EmptySet
  <2>3. TableDevices \in SUBSET Devices /\ NULL \notin Devices
    BY <1>1, MachineFacts DEF TableDevices
  <2>4. Exact(refs, list, prev, left)
    BY <1>1, <2>2, <2>3 DEF Exact, StandsOn, LostOf
  <2>5. ~Released
    BY <1>1 DEF Released
  <2>. QED
    BY <1>1, <2>2, <2>4, <2>5 DEF Counted
<1>. QED
  BY <1>3, <1>4, <1>5, <1>6, <1>7 DEF ProbeInv

LEMMA ProbeNext ==
  ProbeInv /\ [Next]_vars => ProbeInv'
<1>. SUFFICES ASSUME ProbeInv, [Next]_vars PROVE ProbeInv'
  OBVIOUS
<1>1. CASE Exhausted
  BY <1>1, ExhaustedStep
<1>2. CASE Missing
  BY <1>2, MissingStep
<1>3. CASE SkipIMC1
  BY <1>3, SkipIMC1Step
<1>4. CASE AllocFails
  BY <1>4, AllocFailsStep
<1>5. CASE Store
  BY <1>5, StoreStep
<1>6. CASE RegisterOK
  BY <1>6, RegisterOKStep
<1>7. CASE RegisterFails
  BY <1>7, RegisterFailsStep
<1>8. CASE Registered
  BY <1>8, RegisteredStep
<1>9. CASE Fail1 \/ Remove
  BY <1>9, CleanupStep
<1>10. CASE UNCHANGED vars
  <2>1. /\ machine' = machine /\ refs' = refs /\ list' = list /\ pc' = pc /\ devno' = devno
        /\ prev' = prev /\ left' = left /\ mc' = mc /\ rc' = rc
    BY <1>10 DEF vars
  <2>. USE SameMachine
  <2>2. Types' /\ Progress' /\ Stores'
    BY <2>1 DEF ProbeInv, Types, Progress, Released, Stores, StoresAt
  <2>3. Walk' /\ Gathered'
    BY <2>1 DEF ProbeInv, Walk, WalkAt, Gathered, GatheredAt, Searched
  <2>4. Counted'
    <3>1. Released' = Released
      BY <2>1 DEF Released
    <3>2. \A from, lost : Exact(refs, list, from, lost) => Exact(refs', list', from, lost)
      BY <2>1
    <3>3. Exact(refs, list, IF pc = "get" THEN prev ELSE NULL, left)
            => Exact(refs, list, IF pc = "get" THEN prev ELSE NULL, left)'
      BY <2>1 DEF Exact
    <3>. QED
      BY <2>1, <3>1, <3>3 DEF ProbeInv, Counted
  <2>. QED
    BY <2>2, <2>3, <2>4 DEF ProbeInv
<1>. QED
  BY <1>1, <1>2, <1>3, <1>4, <1>5, <1>6, <1>7, <1>8, <1>9, <1>10 DEF Next, Probe, GetOneDevice

LEMMA ProbeInvariant == Spec => []ProbeInv
BY ProbeInit, ProbeNext, PTL DEF Spec

LEMMA InvTypes ==
  ProbeInv => (SocketsAgree => TypeOK)
<1>. SUFFICES ASSUME ProbeInv, SocketsAgree PROVE TypeOK
  OBVIOUS
<1>1. Types
  BY DEF ProbeInv
<1>2. \A n \in Devices : refs[n] >= 0
  <2>1. CASE Released
    BY <2>1 DEF ProbeInv, Counted
  <2>2. CASE ~Released
    BY <1>1, <2>2, ExactFacts DEF ProbeInv, Counted, Types
  <2>. QED
    BY <2>1, <2>2
<1>3. refs \in [Devices -> Nat]
  BY <1>1, <1>2 DEF Types
<1>4. TableDevices \in SUBSET Devices
  BY DEF TableDevices
<1>5. mc \in 1 .. Len(list) + 1 \/ list = <<>>
  BY <1>1, ListFacts DEF ProbeInv, Progress, Types
<1>6. \A k \in DOMAIN list : \A s \in DOMAIN list[k].pdev : list[k].pdev[s] \in Devices
  BY <1>1, <1>4, ListFacts
<1>. QED
  BY <1>1, <1>3, <1>4, <1>5, <1>6 DEF TypeOK, Types

(* The types, and that no reference is put which is not held: the counts   *)
(* of pci_get_device() and pci_dev_put() in get_onedevice(),               *)
(* sbridge_put_all_devices() and the bindings never fall below zero.       *)
THEOREM TypeCorrect == Spec => [](SocketsAgree => TypeOK)
BY ProbeInvariant, InvTypes, PTL

LEMMA InvRefs ==
  ProbeInv => (SocketsAgree /\ (Fits \/ ~Released) => RefsExact)
<1>. SUFFICES ASSUME ProbeInv, SocketsAgree, Fits \/ ~Released, NEW n \in TableDevices
              PROVE  refs[n] = Cardinality(Holders(n)) + (IF pc = "get" /\ prev = n THEN 1 ELSE 0)
                                                       + (IF n \in left THEN 1 ELSE 0)
  BY DEF RefsExact
<1>1. Types /\ machine \in Machines
  BY DEF ProbeInv, Types
<1>2. Holders(n) = HoldersIn(list, n)
  BY DEF Holders, HoldersIn
<1>3. n # NULL /\ n \in Devices
  BY <1>1, MachineFacts DEF TableDevices
<1>4. CASE ~Released
  <2>1. refs[n] = Cardinality(HoldersIn(list, n))
                  + StandsOn(n, IF pc = "get" THEN prev ELSE NULL) + LostOf(n, left)
    BY <1>4 DEF ProbeInv, Counted, Exact
  <2>2. StandsOn(n, IF pc = "get" THEN prev ELSE NULL) = IF pc = "get" /\ prev = n THEN 1 ELSE 0
    BY <1>3 DEF StandsOn
  <2>. QED
    BY <1>2, <2>1, <2>2 DEF LostOf
<1>5. CASE Released
  <2>1. refs[n] = LostOf(n, left) /\ list = <<>> /\ pc # "get"
    BY <1>5 DEF ProbeInv, Counted, Progress, Released
  <2>2. HoldersIn(list, n) = {}
    BY <2>1 DEF HoldersIn
  <2>3. Cardinality(Holders(n)) = 0
    BY <1>2, <2>2, FS_EmptySet
  <2>. QED
    BY <2>1, <2>3 DEF LostOf
<1>. QED
  BY <1>4, <1>5

(* The references of every device of the table are exactly those of the    *)
(* controllers that hold it, of the search that stands on it, and the one  *)
(* that sb_edac.c:2451 and :2526 lose: all through the probe, where the    *)
(* sockets agree, and after it where the devices fit the array.            *)
THEOREM RefsHold == Spec => [](SocketsAgree /\ (Fits \/ ~Released) => RefsExact)
BY ProbeInvariant, InvRefs, PTL

LEMMA InvAllOrNothing ==
  ProbeInv => (SocketsAgree /\ Fits => AllOrNothing)
<1>. SUFFICES ASSUME ProbeInv, SocketsAgree, Fits PROVE AllOrNothing
  OBVIOUS
<1>1. /\ pc = "done" /\ rc = 0 => \A k \in DOMAIN list : list[k].mci
      /\ Released => list = <<>>
  BY DEF ProbeInv, Progress
<1>2. AllPut
  <2>1. Released => \A n \in TableDevices : refs[n] = LostOf(n, left)
    BY DEF ProbeInv, Counted
  <2>. QED
    BY <2>1 DEF AllPut, LostOf
<1>. QED
  BY <1>1, <1>2 DEF AllOrNothing

(* A probe registers every controller it found or gives everything back,   *)
(* wherever it fails, and so does module unload (sbridge_probe(),          *)
(* sbridge_remove()), where the sockets agree and the devices fit.         *)
THEOREM AllOrNothingHolds == Spec => [](SocketsAgree /\ Fits => AllOrNothing)
BY ProbeInvariant, InvAllOrNothing, PTL

LEMMA InvComplete ==
  ProbeInv => (~Knl /\ SocketsAgree => Complete)
<1>. SUFFICES ASSUME ProbeInv, ~Knl, SocketsAgree, pc = "register", devno > Len(table.descr)
              PROVE  /\ \A n \in TableDevices :
                          EntriesOf(n) \cap {HA0Entry, HA1Entry} # {} /\ DomOf(n) # SOCK =>
                            \E k \in DOMAIN list : list[k].bus = Dev(n).bus /\ list[k].dom = DomOf(n)
                     /\ \A k \in DOMAIN list : \A n \in TableDevices :
                          (\E s \in DOMAIN list[k].pdev : <<k, s>> \in Holders(n))
                            <=> /\ Expected(n)
                                /\ multi_bus \/ (Dev(n).bus = list[k].bus /\ DomOf(n) \in {SOCK, list[k].dom})
  BY DEF Complete
<1>1. /\ Types /\ machine \in Machines /\ WellFormed(table.descr, Knl) /\ devno \in Nat
      /\ WalkAt(list, devno, prev, left) /\ GatheredAt(list, devno, prev)
  <2>1. Types /\ machine \in Machines /\ Searched /\ Walk /\ Gathered
    BY DEF ProbeInv, Types, Searched
  <2>2. WellFormed(table.descr, Knl)
    BY <2>1, TableFacts
  <2>. QED
    BY <2>1, <2>2 DEF Walk, Gathered, Types, WellFormed
<1>2. \A n : BehindAt(n, devno, prev)
  <2>1. devno .. Len(table.descr) = {}
    BY <1>1 DEF WellFormed
  <2>. QED
    BY <2>1 DEF BehindAt
<1>3. ASSUME NEW n \in TableDevices
      PROVE  \E d \in DOMAIN table.descr : IsFor(n, d) /\ EntriesOf(n) = {d} /\ DomOf(n) = table.descr[d].dom
  <2>1. PICK d \in DOMAIN table.descr : IsFor(n, d)
    BY DEF TableDevices, IsFor
  <2>2. EntriesOf(n) = {d}
    BY <1>1, <2>1, OneEntry DEF EntriesOf, IsFor
  <2>3. {d} \in SUBSET Nat
    BY <1>1 DEF WellFormed
  <2>4. Min({d}) = d
    BY <2>3, MinFacts
  <2>. QED
    BY <2>1, <2>2, <2>4 DEF DomOf
<1>4. ASSUME NEW n \in TableDevices, EntriesOf(n) \cap {HA0Entry, HA1Entry} # {}, DomOf(n) # SOCK
      PROVE  \E k \in DOMAIN list : list[k].bus = Dev(n).bus /\ list[k].dom = DomOf(n)
  <2>1. PICK d \in DOMAIN table.descr : IsFor(n, d) /\ EntriesOf(n) = {d} /\ DomOf(n) = table.descr[d].dom
    BY <1>3
  <2>2. n \in Devices /\ d \in {HA0Entry, HA1Entry} /\ table.descr[d].dom \in {IMC0, IMC1}
    BY <1>1, <1>4, <2>1 DEF TableDevices, WellFormed
  <2>3. CASE table.descr[d].dom = IMC0
    BY <1>1, <1>2, <2>1, <2>2, <2>3 DEF GatheredAt
  <2>4. CASE table.descr[d].dom = IMC1
    <3>1. d = HA1Entry
      BY <1>1, <2>2, <2>4, Apart DEF WellFormed
    <3>2. HasIMC1In(list, Dev(n).bus)
      BY <1>1, <1>2, <2>1, <2>2, <2>4, <3>1 DEF WalkAt
    <3>. QED
      BY <2>1, <2>4, <3>2 DEF HasIMC1In
  <2>. QED
    BY <2>2, <2>3, <2>4
<1>5. ASSUME NEW k \in DOMAIN list, NEW n \in TableDevices
      PROVE  (\E s \in DOMAIN list[k].pdev : <<k, s>> \in Holders(n))
               <=> /\ Expected(n)
                   /\ multi_bus \/ (Dev(n).bus = list[k].bus /\ DomOf(n) \in {SOCK, list[k].dom})
  <2>1. PICK d \in DOMAIN table.descr : IsFor(n, d) /\ EntriesOf(n) = {d} /\ DomOf(n) = table.descr[d].dom
    BY <1>3
  <2>2. n \in Devices
    BY DEF TableDevices
  <2>3. (\E s \in DOMAIN list[k].pdev : <<k, s>> \in Holders(n)) <=> \E s \in DOMAIN list[k].pdev : list[k].pdev[s] = n
    <3>1. Holders(n) = HoldersIn(list, n)
      BY DEF Holders, HoldersIn
    <3>2. \A s : <<k, s>> \in HoldersIn(list, n) <=> \E j \in DOMAIN list : \E t \in DOMAIN list[j].pdev :
                                                   <<k, s>> = <<j, t>> /\ list[j].pdev[t] = n
      BY Holds
    <3>. QED
      BY <3>1, <3>2
  <2>4. n \in Share(list[k].bus, list[k].dom)
          <=> Dev(n).bus = list[k].bus /\ DomOf(n) \in {SOCK, list[k].dom}
    <3>1. \A e \in DOMAIN table.descr : IsFor(n, e) => e = d
      BY <1>1, <2>1, OneEntry
    <3>. QED
      BY <2>1, <2>2, <3>1 DEF Share
  <2>5. (\E s \in DOMAIN list[k].pdev : list[k].pdev[s] = n) => n \in Share(list[k].bus, list[k].dom)
    BY DEF ProbeInv, Stores, Stored
  <2>6. n \in Share(list[k].bus, list[k].dom) => \E s \in DOMAIN list[k].pdev : list[k].pdev[s] = n
    BY <1>1, <1>2 DEF GatheredAt
  <2>7. Expected(n) /\ ~multi_bus
    BY DEF Expected, allow_dups, multi_bus
  <2>. QED
    BY <2>3, <2>4, <2>5, <2>6, <2>7
<1>. QED
  BY <1>4, <1>5

-----------------------------------------------------------------------------
(* Knights Landing.  Its table has several entries for an id, one behind   *)
(* the other, and no other processor's has.                                *)

OfId(id)      == {m \in Devices : Dev(m).id = id}
UpTo(n)       == {m \in Devices : m <= n /\ Dev(m).id = Dev(n).id}
EntriesBelow(id, entry) == {d \in DOMAIN table.descr : table.descr[d].id = id /\ d < entry}
Rank(n)       == Cardinality(UpTo(n))
Passed(id, entry) == Cardinality(EntriesBelow(id, entry))

(* The only controller has as many devices of each id as the search is     *)
(* past entries of it, the first ones.  The next is the one behind *prev,  *)
(* or there is no more: then the search begins with the first again, and   *)
(* stores what is there already.                                           *)
TakenAt(l, entry, from) ==
  /\ DOMAIN l \subseteq {1}
  /\ \A k \in DOMAIN l :
       l[k].dom = IMC0 /\ \E n \in Devices : IsFor(n, HA0Entry) /\ Dev(n).bus = l[k].bus
  /\ \A n \in TableDevices : HoldersIn(l, n) # {} <=> Rank(n) <= Passed(Dev(n).id, entry)
  /\ entry \in DOMAIN table.descr =>
       LET id == table.descr[entry].id
       IN  \/ Cardinality(OfId(id)) <= Passed(id, entry)
           \/ from = NULL /\ Passed(id, entry) = 0
           \/ from # NULL /\ Rank(from) = Passed(id, entry)
Taken == Knl /\ Searched => TakenAt(list, devno, prev)

(* The devices of the first entries, which tell the controller's bus, are  *)
(* on one.                                                                 *)
MemoryOnOneBus ==
  \A m, n \in Devices : EntriesOf(m) \cap {HA0Entry, HA1Entry} # {} /\ IsFor(n, HA0Entry) => Dev(m).bus = Dev(n).bus

LEMMA KnlRuns ==
  ASSUME Knl
  PROVE  \A d, e \in DOMAIN table.descr :
           table.descr[d].id = table.descr[e].id /\ d < e => table.descr[e - 1].id = table.descr[e].id
<1>. DEFINE t == pci_dev_descr_knl
<1>1. DOMAIN t = 1 .. 50
  BY KnlEntries
<1>2. \A d, e \in 1 .. 50 : t[d].id = t[e].id /\ d < e => t[e - 1].id = t[e].id
  <2>1. \A d \in 1 .. 50 : t[d].id = KnlId(d)
    BY KnlEntries
  <2>. HIDE DEF t
  <2>2. \A e \in 1 .. 50 : e # 1 => e - 1 \in 1 .. 50
    OBVIOUS
  <2>3. \A d, e \in 1 .. 50 : KnlId(d) = KnlId(e) /\ d < e => KnlId(e - 1) = KnlId(e)
    BY DEF KnlId
  <2>4. \A d, e \in 1 .. 50 : d < e => e # 1
    OBVIOUS
  <2>. QED
    BY <2>1, <2>2, <2>3, <2>4
<1>3. table.descr = t
  BY DEF table, PciIdTable, Knl
<1>. HIDE DEF t
<1>. QED
  BY <1>1, <1>2, <1>3

LEMMA PassedFacts ==
  ASSUME machine \in Machines, NEW id, NEW d \in DOMAIN table.descr
  PROVE  /\ Passed(id, d) \in Nat
         /\ Passed(id, d + 1) = IF table.descr[d].id = id THEN Passed(id, d) + 1 ELSE Passed(id, d)
<1>1. DOMAIN table.descr = 1 .. Len(table.descr) /\ Len(table.descr) \in Nat
  BY TableFacts DEF WellFormed
<1>. DEFINE S == EntriesBelow(id, d)
            T == EntriesBelow(id, d + 1)
<1>2. IsFiniteSet(S)
  <2>1. S \in SUBSET (1 .. Len(table.descr))
    BY <1>1 DEF EntriesBelow
  <2>2. IsFiniteSet(1 .. Len(table.descr))
    BY <1>1, FS_Interval
  <2>. HIDE DEF S
  <2>. QED
    BY <2>1, <2>2, FS_Subset
<1>3. T = IF table.descr[d].id = id THEN S \cup {d} ELSE S
  <2>1. \A e \in DOMAIN table.descr : e < d + 1 <=> e < d \/ e = d
    BY <1>1
  <2>. QED
    BY <2>1 DEF EntriesBelow
<1>4. d \notin S
  BY <1>1 DEF EntriesBelow
<1>. HIDE DEF S, T
<1>5. Cardinality(S \cup {d}) = Cardinality(S) + 1
  BY <1>2, <1>4, FS_AddElement
<1>6. Cardinality(S) \in Nat
  BY <1>2, FS_CardinalityType
<1>. QED
  BY <1>3, <1>5, <1>6 DEF Passed, S, T

LEMMA RankFacts ==
  ASSUME machine \in Machines, NEW n \in Devices
  PROVE  /\ Rank(n) \in Nat /\ IsFiniteSet(UpTo(n))
         /\ Cardinality(OfId(Dev(n).id)) \in Nat /\ Rank(n) <= Cardinality(OfId(Dev(n).id))
         /\ \A m \in Devices : Dev(m).id = Dev(n).id /\ m # n => Rank(m) # Rank(n)
<1>1. IsFiniteSet(Devices) /\ Devices \in SUBSET Nat
  BY MachineFacts
<1>2. /\ \A m \in Devices : IsFiniteSet(UpTo(m)) /\ Rank(m) \in Nat
      /\ IsFiniteSet(OfId(Dev(n).id)) /\ Cardinality(OfId(Dev(n).id)) \in Nat
  <2>1. \A m \in Devices : UpTo(m) \in SUBSET Devices
    BY DEF UpTo
  <2>2. OfId(Dev(n).id) \in SUBSET Devices
    BY DEF OfId
  <2>. QED
    BY <1>1, <2>1, <2>2, FS_Subset, FS_CardinalityType DEF Rank
<1>3. Rank(n) <= Cardinality(OfId(Dev(n).id))
  <2>1. UpTo(n) \in SUBSET OfId(Dev(n).id)
    BY DEF UpTo, OfId
  <2>. QED
    BY <1>2, <2>1, FS_Subset DEF Rank
<1>4. ASSUME NEW j \in Devices, NEW k \in Devices, Dev(j).id = Dev(k).id, j < k
      PROVE  Rank(j) # Rank(k)
  <2>1. UpTo(j) \in SUBSET UpTo(k) /\ k \in UpTo(k) /\ k \notin UpTo(j)
    <3>1. \A m \in Devices : m <= j => m <= k
      BY <1>1, <1>4
    <3>2. k <= k /\ ~(k <= j)
      BY <1>1, <1>4
    <3>. QED
      BY <1>4, <3>1, <3>2 DEF UpTo
  <2>. QED
    BY <1>2, <2>1, FS_Subset DEF Rank
<1>5. \A m \in Devices : Dev(m).id = Dev(n).id /\ m # n => Rank(m) # Rank(n)
  <2>. TAKE m \in Devices
  <2>1. m # n => m < n \/ n < m
    BY <1>1
  <2>. QED
    BY <1>4, <2>1
<1>. QED
  BY <1>2, <1>3, <1>5

(* The device found is the next of its id.                                 *)
LEMMA NextRank ==
  ASSUME Types, devno <= Len(table.descr), Found # NULL
  PROVE  /\ prev = NULL => Rank(Found) = 1
         /\ prev # NULL /\ IsFor(prev, devno) => Rank(Found) = Rank(prev) + 1
<1>1. machine \in Machines /\ Devices \in SUBSET Nat /\ NULL \notin Devices /\ prev \in TableDevices \cup {NULL}
  BY MachineFacts DEF Types
<1>2. Found \in Devices /\ Found > prev /\ Dev(Found).id = Entry.id /\ prev \in Nat
  BY <1>1, FoundFacts DEF IsFor, Entry
<1>3. \A n \in Devices : n > prev /\ Dev(n).id = Entry.id => Found <= n
  BY <1>1, <1>2, SearchFacts DEF Found
<1>4. ASSUME prev = NULL PROVE Rank(Found) = 1
  <2>1. \A m \in Devices : m > prev
    BY <1>1, <1>4 DEF NULL
  <2>2. \A m \in Devices : Dev(m).id = Entry.id => (m <= Found <=> m = Found)
    BY <1>1, <1>2, <1>3, <2>1
  <2>3. UpTo(Found) = {Found}
    BY <1>2, <2>2 DEF UpTo
  <2>. QED
    BY <2>3, FS_Singleton DEF Rank
<1>5. ASSUME prev # NULL, IsFor(prev, devno) PROVE Rank(Found) = Rank(prev) + 1
  <2>1. prev \in Devices /\ Dev(prev).id = Entry.id
    BY <1>1, <1>5 DEF TableDevices, IsFor, Entry
  <2>2. \A m \in Devices : Dev(m).id = Entry.id => (m <= Found <=> m <= prev \/ m = Found)
    BY <1>1, <1>2, <1>3
  <2>3. UpTo(Found) = UpTo(prev) \cup {Found}
    BY <1>2, <2>1, <2>2 DEF UpTo
  <2>4. Found \notin UpTo(prev)
    BY <1>1, <1>2 DEF UpTo
  <2>5. IsFiniteSet(UpTo(prev))
    BY <1>1, <2>1, RankFacts
  <2>. QED
    BY <2>3, <2>4, <2>5, FS_AddElement DEF Rank
<1>. QED
  BY <1>4, <1>5

(* A search that finds no more has the last one behind it.                 *)
LEMMA LastRank ==
  ASSUME ProbeInv, pc = "get", Found = NULL
  PROVE  Cardinality(OfId(Entry.id)) = IF prev = NULL THEN 0 ELSE Rank(prev)
<1>1. /\ Types /\ machine \in Machines /\ Devices \in SUBSET Nat /\ prev \in Nat /\ NULL \notin Devices
      /\ WalkAt(list, devno, prev, left)
  BY CallFacts, MachineFacts
<1>2. \A n \in Devices : n > prev => Dev(n).id # Entry.id
  BY <1>1, SearchFacts DEF Found
<1>3. CASE prev = NULL
  <2>1. \A n \in Devices : n > prev
    BY <1>1, <1>3 DEF NULL
  <2>2. OfId(Entry.id) = {}
    BY <1>2, <2>1 DEF OfId
  <2>. QED
    BY <1>3, <2>2, FS_EmptySet
<1>4. CASE prev # NULL
  <2>1. Dev(prev).id = Entry.id
    BY <1>1, <1>4 DEF WalkAt, IsFor, Entry
  <2>2. OfId(Entry.id) = UpTo(prev)
    <3>1. \A m \in Devices : Dev(m).id = Entry.id => m <= prev
      BY <1>1, <1>2
    <3>. QED
      BY <2>1, <3>1 DEF OfId, UpTo
  <2>. QED
    BY <1>4, <2>2 DEF Rank
<1>. QED
  BY <1>3, <1>4

(* No entry of the next id was passed.                                     *)
LEMMA NewId ==
  ASSUME Knl, machine \in Machines, NEW d \in DOMAIN table.descr, d + 1 \in DOMAIN table.descr,
         table.descr[d + 1].id # table.descr[d].id
  PROVE  Passed(table.descr[d + 1].id, d + 1) = 0
<1>1. DOMAIN table.descr \in SUBSET Nat
  BY TableFacts DEF WellFormed
<1>2. (d + 1) - 1 = d
  BY <1>1
<1>3. EntriesBelow(table.descr[d + 1].id, d + 1) = {}
  BY <1>2, KnlRuns DEF EntriesBelow
<1>. QED
  BY <1>3, FS_EmptySet DEF Passed

LEMMA TakenExhausted ==
  ASSUME ProbeInv, Knl, pc = "get", Found = NULL, TakenAt(list, devno, prev)
  PROVE  TakenAt(list, devno + 1, NULL)
<1>. DEFINE b   == Passed(Entry.id, devno)
            all == Cardinality(OfId(Entry.id))
<1>1. machine \in Machines /\ devno \in DOMAIN table.descr /\ devno \in Nat
  BY CallFacts
<1>2. \A id : /\ Passed(id, devno) \in Nat
              /\ Passed(id, devno + 1) = IF Entry.id = id THEN Passed(id, devno) + 1 ELSE Passed(id, devno)
  BY <1>1, PassedFacts DEF Entry
<1>3. all <= b /\ all \in Int
  <2>1. \/ all <= b
        \/ prev = NULL /\ b = 0
        \/ prev # NULL /\ Rank(prev) = b
    BY <1>1 DEF TakenAt, Entry
  <2>2. all = IF prev = NULL THEN 0 ELSE Rank(prev)
    BY LastRank
  <2>3. prev # NULL => Rank(prev) \in Nat
    <3>1. prev \in TableDevices \cup {NULL}
      BY DEF ProbeInv, Types
    <3>. QED
      BY <1>1, <3>1, RankFacts DEF TableDevices
  <2>. HIDE DEF all, b
  <2>4. b \in Nat
    BY <1>2 DEF b
  <2>. QED
    BY <2>1, <2>2, <2>3, <2>4
<1>4. ASSUME NEW n \in TableDevices
      PROVE  HoldersIn(list, n) # {} <=> Rank(n) <= Passed(Dev(n).id, devno + 1)
  <2>1. HoldersIn(list, n) # {} <=> Rank(n) <= Passed(Dev(n).id, devno)
    BY DEF TakenAt
  <2>2. CASE Dev(n).id # Entry.id
    BY <1>2, <2>1, <2>2
  <2>3. CASE Dev(n).id = Entry.id
    <3>1. Rank(n) \in Nat /\ Rank(n) <= all
      BY <1>1, <2>3, RankFacts DEF TableDevices
    <3>2. b \in Nat /\ Passed(Dev(n).id, devno) = b /\ Passed(Dev(n).id, devno + 1) = b + 1
      BY <1>2, <2>3
    <3>. HIDE DEF all, b
    <3>. QED
      BY <1>3, <2>1, <3>1, <3>2
  <2>. QED
    BY <2>2, <2>3
<1>5. ASSUME devno + 1 \in DOMAIN table.descr
      PROVE  LET id == table.descr[devno + 1].id
             IN  Cardinality(OfId(id)) <= Passed(id, devno + 1) \/ Passed(id, devno + 1) = 0
  <2>1. CASE table.descr[devno + 1].id = Entry.id
    <3>1. b \in Nat /\ Passed(Entry.id, devno + 1) = b + 1
      BY <1>2
    <3>. HIDE DEF all, b
    <3>2. all <= b + 1
      BY <1>3, <3>1
    <3>. QED
      BY <2>1, <3>1, <3>2 DEF all
  <2>2. CASE table.descr[devno + 1].id # Entry.id
    BY <1>1, <1>5, <2>2, NewId DEF Entry
  <2>. QED
    BY <2>1, <2>2
<1>. QED
  BY <1>4, <1>5 DEF TakenAt

LEMMA TakenStored ==
  ASSUME ProbeInv, Knl, pc = "get", Stores1, TakenAt(list, devno, prev)
  PROVE  TakenAt(After, devno + 1, IF Same(devno) THEN Found ELSE NULL)
<1>. DEFINE b    == Passed(Entry.id, devno)
            all  == Cardinality(OfId(Entry.id))
            next == IF Same(devno) THEN Found ELSE NULL
<1>1. /\ Types /\ machine \in Machines /\ devno \in DOMAIN table.descr /\ devno \in Nat /\ Found # NULL
      /\ devno <= Len(table.descr) /\ WalkAt(list, devno, prev, left)
  BY CallFacts DEF Stores1
<1>2. \A id : /\ Passed(id, devno) \in Nat
              /\ Passed(id, devno + 1) = IF Entry.id = id THEN Passed(id, devno) + 1 ELSE Passed(id, devno)
  BY <1>1, PassedFacts DEF Entry
<1>3. /\ Found \in TableDevices /\ Found \in Devices /\ Dev(Found).id = Entry.id /\ Rank(Found) \in Nat
      /\ IsFor(Found, devno) /\ all \in Nat
  BY <1>1, FoundFacts, RankFacts DEF IsFor, Entry
<1>4. all <= b \/ Rank(Found) = b + 1
  <2>1. \/ all <= b
        \/ prev = NULL /\ b = 0
        \/ prev # NULL /\ Rank(prev) = b
    BY <1>1 DEF TakenAt, Entry
  <2>2. prev # NULL => IsFor(prev, devno)
    BY <1>1 DEF WalkAt
  <2>3. /\ prev = NULL => Rank(Found) = 1
        /\ prev # NULL => Rank(Found) = Rank(prev) + 1
    BY <1>1, <2>2, NextRank
  <2>. HIDE DEF all, b
  <2>. QED
    BY <2>1, <2>3
<1>5. \A n \in Devices : Dev(n).id = Entry.id => Rank(n) \in Nat /\ Rank(n) <= all
  BY <1>1, RankFacts
<1>6. ASSUME NEW n \in TableDevices
      PROVE  HoldersIn(After, n) # {} <=> Rank(n) <= Passed(Dev(n).id, devno + 1)
  <2>1. HoldersIn(list, n) # {} <=> Rank(n) <= Passed(Dev(n).id, devno)
    BY DEF TakenAt
  <2>2. n # Found => HoldersIn(After, n) = HoldersIn(list, n)
    BY AfterFacts
  <2>3. CASE Dev(n).id # Entry.id
    BY <1>2, <1>3, <2>1, <2>2, <2>3
  <2>4. CASE Dev(n).id = Entry.id
    <3>1. b \in Nat /\ Passed(Dev(n).id, devno) = b /\ Passed(Dev(n).id, devno + 1) = b + 1
      BY <1>2, <2>4
    <3>2. Rank(n) \in Nat /\ Rank(n) <= all
      BY <1>5, <2>4 DEF TableDevices
    <3>3. CASE n # Found
      <4>1. Rank(n) # Rank(Found)
        BY <1>1, <1>3, <2>4, <3>3, RankFacts DEF TableDevices
      <4>. HIDE DEF all, b
      <4>2. Rank(n) <= b <=> Rank(n) <= b + 1
        BY <1>3, <1>4, <3>1, <3>2, <4>1
      <4>. QED
        BY <2>1, <2>2, <3>1, <3>3, <4>2
    <3>4. CASE n = Found
      <4>1. HoldersIn(After, Found) # {}
        <5>1. /\ Cardinality(HoldersIn(After, Found)) = Cardinality(HoldersIn(list, Found)) + Cardinality(OwnersNow)
              /\ IsFiniteSet(HoldersIn(list, Found)) /\ IsFiniteSet(OwnersNow) /\ OwnersNow # {}
          BY <1>3, AfterFacts, BeforeFacts, CallFacts
        <5>2. Cardinality(HoldersIn(list, Found)) \in Nat /\ Cardinality(OwnersNow) \in Nat /\ Cardinality(OwnersNow) # 0
          BY <5>1, FS_CardinalityType, FS_EmptySet
        <5>3. Cardinality(HoldersIn(After, Found)) # 0
          BY <5>1, <5>2
        <5>. QED
          BY <5>3, FS_EmptySet
      <4>. HIDE DEF all, b
      <4>2. Rank(Found) <= b + 1
        BY <1>3, <1>4, <3>1, <3>2, <3>4
      <4>. QED
        BY <3>1, <3>4, <4>1, <4>2
    <3>. QED
      BY <3>3, <3>4
  <2>. QED
    BY <2>3, <2>4
<1>7. ASSUME devno + 1 \in DOMAIN table.descr
      PROVE  LET id == table.descr[devno + 1].id
             IN  \/ Cardinality(OfId(id)) <= Passed(id, devno + 1)
                 \/ next = NULL /\ Passed(id, devno + 1) = 0
                 \/ next # NULL /\ Rank(next) = Passed(id, devno + 1)
  <2>1. CASE table.descr[devno + 1].id = Entry.id
    <3>1. next = Found
      BY <1>7, <2>1 DEF Same, allow_dups, Entry
    <3>2. b \in Nat /\ Passed(Entry.id, devno + 1) = b + 1
      BY <1>2
    <3>. HIDE DEF all, b, next
    <3>3. all <= b + 1 \/ Rank(Found) = b + 1
      BY <1>3, <1>4, <3>2
    <3>. QED
      BY <1>1, <2>1, <3>1, <3>2, <3>3 DEF all
  <2>2. CASE table.descr[devno + 1].id # Entry.id
    <3>1. next = NULL
      BY <2>2 DEF Same, Entry
    <3>. QED
      BY <1>1, <1>7, <2>2, <3>1, NewId DEF Entry
  <2>. QED
    BY <2>1, <2>2
<1>8. /\ DOMAIN After \subseteq {1}
      /\ \A k \in DOMAIN After :
           After[k].dom = IMC0 /\ \E n \in Devices : IsFor(n, HA0Entry) /\ Dev(n).bus = After[k].bus
  <2>1. /\ DOMAIN After = DOMAIN Before
        /\ \A k \in DOMAIN After : After[k].bus = Before[k].bus /\ After[k].dom = Before[k].dom
    BY AfterFacts
  <2>2. CASE Creates
    <3>1. list = <<>>
      BY <1>1, <2>2, OwnersFacts DEF Creates
    <3>2. devno = HA0Entry
      BY <1>1, <3>1 DEF WalkAt
    <3>3. Entry.dom = IMC0
      BY <1>1, <3>2, TableFacts DEF WellFormed, Entry
    <3>4. DOMAIN Before = {1} /\ Before[1] = NewController(Dev(Found).bus, Entry.dom)
      <4>1. Len(list) + 1 = 1 /\ DOMAIN list = {}
        BY <3>1
      <4>. QED
        BY <1>1, <2>2, <4>1, Created
    <3>. QED
      BY <1>3, <2>1, <3>2, <3>3, <3>4 DEF NewController
  <2>3. CASE ~Creates
    <3>1. Before = list
      BY <2>3 DEF Before
    <3>. QED
      BY <2>1, <3>1 DEF TakenAt
  <2>. QED
    BY <2>2, <2>3
<1>. HIDE DEF b, all, next
<1>. QED
  BY <1>6, <1>7, <1>8 DEF TakenAt, next

LEMMA SameRanks ==
  ASSUME machine' = machine, NEW l, NEW entry, NEW from, TakenAt(l, entry, from)
  PROVE  TakenAt(l, entry, from)'
<1>1. Devices' = Devices /\ table' = table /\ TableDevices' = TableDevices /\ \A n : Dev(n)' = Dev(n)
  BY SameMachine
<1>2. \A n : Rank(n)' = Rank(n)
  BY <1>1 DEF Rank, UpTo
<1>3. \A id, e : Passed(id, e)' = Passed(id, e)
  BY <1>1 DEF Passed, EntriesBelow
<1>4. \A id : OfId(id)' = OfId(id)
  BY <1>1 DEF OfId
<1>. QED
  BY <1>1, <1>2, <1>3, <1>4 DEF TakenAt, IsFor, HoldersIn

LEMMA TakenInit == Init => Taken
<1>. SUFFICES ASSUME Init, Knl PROVE TakenAt(list, devno, prev)
  BY DEF Taken
<1>1. /\ machine \in Machines /\ list = <<>> /\ devno = HA0Entry /\ prev = NULL
      /\ DOMAIN table.descr \in SUBSET Nat /\ devno \in DOMAIN table.descr
  BY TableFacts DEF Init, WellFormed, HA0Entry
<1>2. \A id : Passed(id, devno) = 0
  <2>1. \A id : EntriesBelow(id, devno) = {}
    BY <1>1, TableFacts DEF EntriesBelow, WellFormed, HA0Entry
  <2>. QED
    BY <2>1, FS_EmptySet DEF Passed
<1>3. \A n \in TableDevices : HoldersIn(list, n) = {} /\ ~(Rank(n) <= 0)
  <2>. TAKE n \in TableDevices
  <2>1. n \in Devices /\ IsFiniteSet(UpTo(n)) /\ Rank(n) \in Nat
    BY <1>1, RankFacts DEF TableDevices
  <2>2. n \in UpTo(n)
    BY <1>1, <2>1, MachineFacts DEF UpTo
  <2>3. Rank(n) # 0
    BY <2>1, <2>2, FS_EmptySet DEF Rank
  <2>4. HoldersIn(list, n) = {}
    BY <1>1 DEF HoldersIn
  <2>. QED
    BY <2>1, <2>3, <2>4
<1>. QED
  BY <1>1, <1>2, <1>3 DEF TakenAt

LEMMA TakenNext == ProbeInv /\ Taken /\ [Next]_vars => Taken'
<1>. SUFFICES ASSUME ProbeInv, Taken, [Next]_vars PROVE Taken'
  OBVIOUS
<1>1. CASE Exhausted
  <2>1. pc = "get" /\ Found = NULL /\ list' = list /\ machine' = machine /\ Advance(NULL, {})
    BY <1>1 DEF Exhausted, Calling
  <2>2. Knl => devno' = devno + 1 /\ prev' = NULL
    BY <2>1 DEF Advance, Again
  <2>3. Knl => TakenAt(list, devno + 1, NULL)
    BY <2>1, TakenExhausted DEF Taken, Searched
  <2>4. Knl => TakenAt(list', devno', prev')
    BY <2>1, <2>2, <2>3
  <2>. QED
    BY <2>1, <2>4, SameMachine, SameRanks DEF Taken
<1>2. CASE Store
  <2>1. pc = "get" /\ Stores1 /\ machine' = machine
    BY <1>2, StoreCases DEF Calling
  <2>2. CASE Failed(StoreRefs(OwnersNow), After, Lost)
    <3>1. ~Searched'
      BY <2>1, <2>2, CallFacts, SameMachine DEF Failed, Searched
    <3>. QED
      BY <3>1 DEF Taken
  <2>3. CASE list' = After /\ Advance(Found, Lost)
    <3>1. Knl => devno' = devno + 1 /\ prev' = IF Same(devno) THEN Found ELSE NULL
      BY <2>3 DEF Advance, Again, allow_dups
    <3>2. Knl => TakenAt(After, devno + 1, IF Same(devno) THEN Found ELSE NULL)
      BY <2>1, TakenStored DEF Taken, Searched
    <3>3. Knl => TakenAt(list', devno', prev')
      BY <2>3, <3>1, <3>2
    <3>. QED
      BY <2>1, <3>3, SameMachine, SameRanks DEF Taken
  <2>. QED
    BY <1>2, <2>2, <2>3, StoreCases
<1>3. CASE Missing \/ AllocFails
  <2>1. pc = "get" /\ machine' = machine /\ \E r, l : Failed(r, l, {})
    BY <1>3 DEF Missing, AllocFails, Calling
  <2>2. ~Searched'
    BY <2>1, CallFacts, SameMachine DEF Failed, Searched
  <2>. QED
    BY <2>2 DEF Taken
<1>4. CASE SkipIMC1
  <2>1. pc = "get" /\ machine' = machine /\ Entry.dom = IMC1
    BY <1>4 DEF SkipIMC1, Calling, NeedsHA1
  <2>2. ~Knl
    BY <2>1, CallFacts, TableFacts DEF WellFormed, Entry
  <2>. QED
    BY <2>1, <2>2, SameMachine DEF Taken
<1>5. CASE RegisterOK
  <2>1. /\ pc = "register" /\ machine' = machine /\ pc' = pc /\ devno' = devno /\ prev' = prev
        /\ list' = [list EXCEPT ![mc].mci = TRUE]
    BY <1>5 DEF RegisterOK
  <2>2. Searched' = Searched
    BY <2>1, SameMachine DEF Searched
  <2>3. TakenAt(list, devno, prev) => TakenAt(list', devno', prev')
    <3>1. /\ DOMAIN list' = DOMAIN list
          /\ \A k \in DOMAIN list : list'[k].bus = list[k].bus /\ list'[k].dom = list[k].dom
                                      /\ list'[k].pdev = list[k].pdev
      <4>1. \A k \in DOMAIN list : list[k] \in Controllers
        BY ListFacts DEF ProbeInv
      <4>. QED
        BY <2>1, <4>1 DEF Controllers
    <3>2. \A n : HoldersIn(list', n) = HoldersIn(list, n)
      BY <3>1 DEF HoldersIn
    <3>3. \A d, p : TakenAt(list, d, p) => TakenAt(list', d, p)
      <4>. SUFFICES ASSUME NEW d, NEW p, TakenAt(list, d, p) PROVE TakenAt(list', d, p)
        BY Zenon
      <4>1. DOMAIN list' \subseteq {1}
        BY <3>1 DEF TakenAt
      <4>2. ASSUME NEW k \in DOMAIN list'
            PROVE  /\ list'[k].dom = IMC0
                   /\ \E n \in Devices : IsFor(n, HA0Entry) /\ Dev(n).bus = list'[k].bus
        <5>1. k \in DOMAIN list /\ list'[k].bus = list[k].bus /\ list'[k].dom = list[k].dom
          BY <3>1
        <5>2. list[k].dom = IMC0 /\ \E n \in Devices : IsFor(n, HA0Entry) /\ Dev(n).bus = list[k].bus
          BY <5>1, Zenon DEF TakenAt
        <5>. QED
          BY <5>1, <5>2, Zenon
      <4>3. \A n \in TableDevices : HoldersIn(list', n) # {} <=> Rank(n) <= Passed(Dev(n).id, d)
        BY <3>2, Zenon DEF TakenAt
      <4>. QED
        BY <4>1, <4>2, <4>3, Zenon DEF TakenAt
    <3>. QED
      BY <2>1, <3>3, Zenon
  <2>. QED
    BY <2>1, <2>2, <2>3, SameMachine, SameRanks DEF Taken
<1>6. CASE RegisterFails \/ Registered \/ Fail1 \/ Remove
  <2>1. pc' \in {"fail1", "done", "removed"}
    BY <1>6 DEF RegisterFails, Registered, Fail1, Remove, Cleanup
  <2>. QED
    BY <2>1 DEF Taken, Searched
<1>7. CASE UNCHANGED vars
  <2>1. machine' = machine /\ list' = list /\ devno' = devno /\ prev' = prev /\ pc' = pc
    BY <1>7 DEF vars
  <2>2. Searched' = Searched
    BY <2>1, SameMachine DEF Searched
  <2>3. TakenAt(list, devno, prev) => TakenAt(list', devno', prev')
    BY <2>1, Zenon
  <2>. QED
    BY <2>1, <2>2, <2>3, SameMachine, SameRanks DEF Taken
<1>. QED
  BY <1>1, <1>2, <1>3, <1>4, <1>5, <1>6, <1>7 DEF Next, Probe, GetOneDevice

LEMMA TakenInvariant == Spec => []Taken
BY TakenInit, TakenNext, ProbeInvariant, PTL DEF Spec

LEMMA InvCompleteKnl ==
  ProbeInv /\ Taken => (Knl /\ MemoryOnOneBus => Complete)
<1>. SUFFICES ASSUME ProbeInv, Taken, Knl, MemoryOnOneBus, pc = "register", devno > Len(table.descr)
              PROVE  /\ \A n \in TableDevices :
                          EntriesOf(n) \cap {HA0Entry, HA1Entry} # {} /\ DomOf(n) # SOCK =>
                            \E k \in DOMAIN list : list[k].bus = Dev(n).bus /\ list[k].dom = DomOf(n)
                     /\ \A k \in DOMAIN list : \A n \in TableDevices :
                          (\E s \in DOMAIN list[k].pdev : <<k, s>> \in Holders(n))
                            <=> /\ Expected(n)
                                /\ multi_bus \/ (Dev(n).bus = list[k].bus /\ DomOf(n) \in {SOCK, list[k].dom})
  BY DEF Complete
<1>1. /\ Types /\ machine \in Machines /\ WellFormed(table.descr, Knl) /\ devno \in Nat
      /\ WalkAt(list, devno, prev, left) /\ TakenAt(list, devno, prev)
  <2>1. Types /\ machine \in Machines /\ Searched /\ Walk
    BY DEF ProbeInv, Types, Searched
  <2>2. WellFormed(table.descr, Knl)
    BY <2>1, TableFacts
  <2>. QED
    BY <2>1, <2>2 DEF Walk, Taken, Types, WellFormed
<1>2. DOMAIN list = {1}
  <2>1. list # <<>>
    <3>1. devno # HA0Entry
      BY <1>1 DEF WellFormed, HA0Entry
    <3>. QED
      BY <1>1, <3>1 DEF WalkAt
  <2>2. Len(list) \in Nat /\ DOMAIN list = 1 .. Len(list) /\ list \in Seq(Controllers)
    BY <1>1, ListFacts DEF Types
  <2>3. 1 \in DOMAIN list
    BY <2>1, <2>2
  <2>. QED
    BY <1>1, <2>3 DEF TakenAt
<1>3. \A n \in TableDevices : DomOf(n) \in {IMC0, SOCK}
  <2>. TAKE n \in TableDevices
  <2>1. EntriesOf(n) # {} /\ EntriesOf(n) \subseteq DOMAIN table.descr /\ EntriesOf(n) \in SUBSET Nat
    BY <1>1 DEF TableDevices, EntriesOf, WellFormed
  <2>2. Min(EntriesOf(n)) \in DOMAIN table.descr
    BY <2>1, MinFacts
  <2>. QED
    BY <1>1, <2>2 DEF DomOf, WellFormed
<1>4. ASSUME NEW n \in TableDevices, EntriesOf(n) \cap {HA0Entry, HA1Entry} # {}, DomOf(n) # SOCK
      PROVE  \E k \in DOMAIN list : list[k].bus = Dev(n).bus /\ list[k].dom = DomOf(n)
  <2>1. n \in Devices
    BY DEF TableDevices
  <2>2. PICK m \in Devices : IsFor(m, HA0Entry) /\ Dev(m).bus = list[1].bus
    BY <1>1, <1>2 DEF TakenAt
  <2>3. Dev(n).bus = list[1].bus /\ list[1].dom = IMC0
    BY <1>1, <1>2, <1>4, <2>1, <2>2 DEF MemoryOnOneBus, TakenAt
  <2>. QED
    BY <1>2, <1>3, <1>4, <2>3
<1>5. ASSUME NEW k \in DOMAIN list, NEW n \in TableDevices
      PROVE  (\E s \in DOMAIN list[k].pdev : <<k, s>> \in Holders(n)) <=> Expected(n)
  <2>1. (\E s \in DOMAIN list[k].pdev : <<k, s>> \in Holders(n)) <=> HoldersIn(list, n) # {}
    <3>1. Holders(n) = HoldersIn(list, n) /\ k = 1
      BY <1>2 DEF Holders, HoldersIn
    <3>2. \A x : x \in HoldersIn(list, n) <=> \E s \in DOMAIN list[1].pdev : x = <<1, s>> /\ list[1].pdev[s] = n
      BY <1>2, Holds
    <3>. QED
      BY <3>1, <3>2
  <2>2. HoldersIn(list, n) # {} <=> Rank(n) <= Passed(Dev(n).id, devno)
    BY <1>1 DEF TakenAt
  <2>3. EntriesBelow(Dev(n).id, devno) = EntriesOf(n)
    <3>1. \A d \in DOMAIN table.descr : d < devno
      BY <1>1 DEF WellFormed
    <3>. QED
      BY <3>1 DEF EntriesBelow, EntriesOf
  <2>4. Expected(n) <=> Cardinality(UpTo(n)) <= Cardinality(EntriesOf(n))
    BY DEF Expected, UpTo, allow_dups
  <2>. QED
    BY <2>1, <2>2, <2>3, <2>4 DEF Rank, Passed
<1>6. multi_bus
  BY DEF multi_bus
<1>. QED
  BY <1>4, <1>5, <1>6

(* A search that found all it needed leaves a controller for each home     *)
(* agent, with exactly the devices of its bus and domain and its socket's  *)
(* (sbridge_get_onedevice() and get_sbridge_dev()), where the sockets      *)
(* agree; for Knights Landing the only controller, with as many devices of *)
(* each id as there are entries, where its memory controllers are on one   *)
(* bus.                                                                    *)
THEOREM CompleteHolds == Spec => [](SocketsAgree /\ (Knl => MemoryOnOneBus) => Complete)
BY ProbeInvariant, TakenInvariant, InvComplete, InvCompleteKnl, PTL
=============================================================================
