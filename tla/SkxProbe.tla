------------------------------ MODULE SkxProbe ------------------------------
(***************************************************************************)
(* How the Skylake driver finds its sockets and devices, registers its     *)
(* memory controllers and gives everything back: the search in skx_init()  *)
(* with get_all_munits() (skylake-edac-driver/skx_base.c), and             *)
(* skx_get_all_bus_mappings(), skx_register_mci() and skx_remove()         *)
(* (skx_common.c).                                                         *)
(*                                                                         *)
(* The machine is the sequence of its PCI devices in the order in which    *)
(* pci_get_device() walks them, as in SbProbe: a device is its position,   *)
(* 0 is NULL.  A bus is one with its segment.                              *)
(***************************************************************************)
EXTENDS Integers, Sequences, FiniteSets, FiniteSetsExt

CONSTANTS
  Machines,  \* the machines: sequences of [did, bus, devfn, buses, route]
  MaxRefs    \* bound: references on a device before another load

ASSUME MaxRefsAssumption == MaxRefs \in Nat

NULL   == 0
NumImc == 2
Imcs   == 0 .. NumImc - 1

(* skx_all_munits: device id, devfn of each controller's device, which of  *)
(* the socket's buses it is on, how many a socket has, and what it is for. *)
Munit(did, devfn, busidx, per_socket, mtype) ==
  [did |-> did, devfn |-> devfn, busidx |-> busidx, per_socket |-> per_socket,
   mtype |-> mtype]
OnImcs(a, b) == [i \in Imcs |-> IF i = 0 THEN a ELSE b]
Munits == <<
  Munit("2054", OnImcs("", ""), 1, 1, "SAD_ALL"),
  Munit("2055", OnImcs("", ""), 1, 1, "UTIL_ALL"),
  Munit("2040", OnImcs("10.0", "12.0"), 2, 2, "CHAN0"),
  Munit("2044", OnImcs("10.4", "12.4"), 2, 2, "CHAN1"),
  Munit("2048", OnImcs("11.0", "13.0"), 2, 2, "CHAN2"),
  Munit("2043", OnImcs("10.3", "12.3"), 2, 2, "ERRCHAN0"),
  Munit("2047", OnImcs("10.7", "12.7"), 2, 2, "ERRCHAN1"),
  Munit("204b", OnImcs("11.3", "13.3"), 2, 2, "ERRCHAN2"),
  Munit("208e", OnImcs("", ""), 1, 0, "SAD") >>
HiLoDid == "2034"
DecsDid == "2016"

(* A device is at one place.  That of a channel is its bus and its devfn;  *)
(* a socket has one device at most for each of the other slots.            *)
ASSUME MachinesAssumption ==
  \A m \in Machines :
    /\ Len(m) \in Nat /\ DOMAIN m = 1 .. Len(m)
    /\ \A a, b \in DOMAIN m : \A u \in DOMAIN Munits :
         /\ Munits[u].mtype # "SAD"
         /\ m[a].did = Munits[u].did /\ m[b].did = Munits[u].did
         /\ m[a].bus = m[b].bus
         /\ Munits[u].per_socket = NumImc => m[a].devfn = m[b].devfn
         => a = b

(* Where a socket keeps its devices: sad_all and util_all, and the cdev    *)
(* and edev of every channel of its controllers.                           *)
ChanTypes   == {"CHAN0", "CHAN1", "CHAN2"}
ErrTypes    == {"ERRCHAN0", "ERRCHAN1", "ERRCHAN2"}
SocketSlots == {"SAD_ALL", "UTIL_ALL"} \X {0}
Slots       == SocketSlots \cup ((ChanTypes \cup ErrTypes) \X Imcs)

(* Those that skx_remove() puts.                                           *)
PutSlots == SocketSlots \cup (ChanTypes \X Imcs)

VARIABLES
  machine,     \* the PCI devices
  refs,        \* refs[n]: references the driver holds on device n
  list,        \* dev_edac_list: records [bus, slot, mcroute, mci]
  pc,          \* where the module is
  unit,        \* the munit it looks for
  ndev,        \* devices of it found
  prev,        \* the device its search goes on from
  mc,          \* the number of the next controller
  nvdimm,      \* nvdimm_count is not 0
  registered   \* numbers of the controllers EDAC holds

probeVars == <<machine, refs, list, pc, unit, ndev, prev, mc, nvdimm, registered>>

Devices == DOMAIN machine

ProbeInit ==
  /\ machine \in Machines
  /\ refs = [n \in DOMAIN machine |-> 0]
  /\ list = <<>>
  /\ pc = "absent"
  /\ unit = 1
  /\ ndev = 0
  /\ prev = NULL
  /\ mc = 0
  /\ nvdimm = FALSE
  /\ registered = {}

-----------------------------------------------------------------------------
(* The PCI core: pci_get_device(did, from) drops the reference on from and *)
(* takes one on what it returns.                                           *)

Get(r, n) == IF n = NULL THEN r ELSE [r EXCEPT ![n] = @ + 1]
Put(r, n) == IF n = NULL THEN r ELSE [r EXCEPT ![n] = @ - 1]

Search(did, from) ==
  LET found == {n \in Devices : n > from /\ machine[n].did = did}
  IN  IF found = {} THEN NULL ELSE Min(found)

-----------------------------------------------------------------------------
(* skx_init() up to the bus mappings.  skx_get_hi_lo() gets and puts one   *)
(* device; a load that fails there, or at the owner or the processor       *)
(* model, changes nothing and has no action.                               *)
Load ==
  /\ pc = "absent"
  /\ \A n \in Devices : refs[n] < MaxRefs
  /\ Search(HiLoDid, NULL) # NULL
  /\ pc' = "buses"
  /\ unit' = 1 /\ ndev' = 0 /\ prev' = NULL /\ mc' = 0
  /\ UNCHANGED <<machine, refs, list, nvdimm, registered>>

(* skx_get_all_bus_mappings(), one device at a time.                       *)
Decs == Search(DecsDid, prev)
Socket(bus) == [bus |-> bus, slot |-> [s \in Slots |-> NULL], mcroute |-> 0, mci |-> {}]

BusMapped ==
  /\ pc = "buses" /\ Decs # NULL
  /\ refs' = Get(Put(refs, prev), Decs)
  /\ list' = Append(list, Socket(machine[Decs].buses))
  /\ prev' = Decs
  /\ UNCHANGED <<machine, pc, unit, ndev, mc, nvdimm, registered>>

(* No memory, or the bus numbers cannot be read: the device is put.        *)
BusFailsMutant ==  \* puts the device twice
  /\ pc = "buses" /\ Decs # NULL
  /\ refs' = Put(Put(refs, prev), Decs)
  /\ prev' = NULL
  /\ pc' = "remove"
  /\ UNCHANGED <<machine, list, unit, ndev, mc, nvdimm, registered>>
BusFails ==
  /\ pc = "buses" /\ Decs # NULL
  /\ refs' = Put(refs, prev)
  /\ prev' = NULL
  /\ pc' = "remove"
  /\ UNCHANGED <<machine, list, unit, ndev, mc, nvdimm, registered>>

BusesDone ==
  /\ pc = "buses" /\ Decs = NULL
  /\ refs' = Put(refs, prev)
  /\ prev' = NULL
  /\ pc' = IF list = <<>> THEN "absent" ELSE "units"
  /\ UNCHANGED <<machine, list, unit, ndev, mc, nvdimm, registered>>

-----------------------------------------------------------------------------
(* get_all_munits(), one device at a time.                                 *)

Unit  == Munits[unit]
Found == Search(Unit.did, prev)

(* get_skx_dev(): the socket that has the device's bus at this place.      *)
SkxDev(n) ==
  LET own == {k \in DOMAIN list : list[k].bus[Unit.busidx] = machine[n].bus}
  IN  IF own = {} THEN NULL ELSE Min(own)

(* Which controller of the socket the device's address says it is of.      *)
ImcOf(n) ==
  IF Unit.per_socket = NumImc
    THEN {i \in Imcs : Unit.devfn[i] = machine[n].devfn}
    ELSE {0}

Settled(n) == ImcOf(n) # {} /\ SkxDev(n) # NULL

SlotOf(n) == <<Unit.mtype, CHOOSE i \in ImcOf(n) : TRUE>>

UnitStored ==
  /\ pc = "units" /\ Unit.mtype # "SAD"
  /\ Found # NULL /\ Settled(Found)
  /\ refs' = Get(Get(Put(refs, prev), Found), Found)
  /\ list' = [list EXCEPT ![SkxDev(Found)].slot[SlotOf(Found)] = Found]
  /\ ndev' = ndev + 1
  /\ prev' = Found
  /\ UNCHANGED <<machine, pc, unit, mc, nvdimm, registered>>

(* The route table of a core: zero is ignored, others must be the same.    *)
Route(n) == machine[n].route
Matches(n) == Route(n) = 0 \/ list[SkxDev(n)].mcroute \in {0, Route(n)}
UnitRoute ==
  /\ pc = "units" /\ Unit.mtype = "SAD"
  /\ Found # NULL /\ Settled(Found) /\ Matches(Found)
  /\ refs' = Get(Put(refs, prev), Found)
  /\ list' = [list EXCEPT ![SkxDev(Found)].mcroute = IF Route(Found) = 0 THEN @ ELSE Route(Found)]
  /\ prev' = Found
  /\ UNCHANGED <<machine, pc, unit, ndev, mc, nvdimm, registered>>

(* A device that is nobody's or differs from the others; any device may    *)
(* fail to be enabled.  It is put.                                         *)
UnitFailsMutant ==  \* goto fail without the pci_dev_put() at its label
  /\ pc = "units" /\ Found # NULL
  /\ refs' = Get(Put(refs, prev), Found)
  /\ prev' = NULL
  /\ pc' = "remove"
  /\ UNCHANGED <<machine, list, unit, ndev, mc, nvdimm, registered>>
UnitFails ==
  /\ pc = "units" /\ Found # NULL
  /\ refs' = Put(refs, prev)
  /\ prev' = NULL
  /\ pc' = "remove"
  /\ UNCHANGED <<machine, list, unit, ndev, mc, nvdimm, registered>>

(* No more of them: there must be as many as the sockets have.             *)
Counted == ndev = Unit.per_socket * Len(list)
UnitDoneMutant ==  \* the number found is not compared
  /\ pc = "units" /\ Found = NULL
  /\ refs' = Put(refs, prev)
  /\ prev' = NULL
  /\ ndev' = 0
  /\ unit' = unit + 1
  /\ pc' = IF unit' > Len(Munits) THEN "register" ELSE "units"
  /\ UNCHANGED <<machine, list, mc, nvdimm, registered>>
UnitDoneAgainMutant ==  \* the next unit only if devices of this one were kept
  /\ pc = "units" /\ Found = NULL
  /\ refs' = Put(refs, prev)
  /\ prev' = NULL
  /\ ndev' = 0
  /\ unit' = IF Counted /\ ndev > 0 THEN unit + 1 ELSE unit
  /\ pc' = IF ~Counted THEN "remove" ELSE IF unit' > Len(Munits) THEN "register" ELSE "units"
  /\ UNCHANGED <<machine, list, mc, nvdimm, registered>>
UnitDone ==
  /\ pc = "units" /\ Found = NULL
  /\ refs' = Put(refs, prev)
  /\ prev' = NULL
  /\ ndev' = 0
  /\ unit' = IF Counted THEN unit + 1 ELSE unit
  /\ pc' = IF ~Counted THEN "remove" ELSE IF unit' > Len(Munits) THEN "register" ELSE "units"
  /\ UNCHANGED <<machine, list, mc, nvdimm, registered>>

-----------------------------------------------------------------------------
(* The loop of skx_init() over sockets and controllers.                    *)

SocketOfMc == mc \div NumImc + 1

(* The ids are read, a controller is made, its DIMMs are looked at (some   *)
(* may be NVDIMMs) and EDAC takes it, unless it has one of that number.    *)
RegisterOK ==
  /\ pc = "register" /\ SocketOfMc <= Len(list)
  /\ mc \notin registered
  /\ registered' = registered \cup {mc}
  /\ list' = [list EXCEPT ![SocketOfMc].mci = @ \cup {mc}]
  /\ \E found \in BOOLEAN : nvdimm' = (nvdimm \/ found)
  /\ mc' = mc + 1
  /\ UNCHANGED <<machine, refs, pc, unit, ndev, prev>>

(* An id cannot be read, there is no memory, ECC is off, or EDAC refuses,  *)
(* the last two with the DIMMs looked at: what was made is freed and       *)
(* imc->mci is NULL again.                                                 *)
RegisterFails ==
  /\ pc = "register" /\ SocketOfMc <= Len(list)
  /\ pc' = "remove"
  /\ \E found \in BOOLEAN : nvdimm' = (nvdimm \/ found)
  /\ UNCHANGED <<machine, refs, list, unit, ndev, prev, mc, registered>>

RegisterDone ==
  /\ pc = "register" /\ SocketOfMc > Len(list)
  /\ pc' = "adxl"
  /\ UNCHANGED <<machine, refs, list, unit, ndev, prev, mc, nvdimm, registered>>

-----------------------------------------------------------------------------
(* skx_remove(): the first socket leaves the list, its controllers are     *)
(* unregistered and its devices put.  A device is in one slot at most.     *)
PutSocket(r, d) ==
  [n \in Devices |-> IF \E s \in PutSlots : d.slot[s] = n THEN r[n] - 1 ELSE r[n]]

RemoveSocket ==
  /\ pc = "remove" /\ list # <<>>
  /\ list' = Tail(list)
  /\ refs' = PutSocket(refs, Head(list))
  /\ registered' = registered \ Head(list).mci
  /\ UNCHANGED <<machine, pc, unit, ndev, prev, mc, nvdimm>>

(* The module is gone, and its static data with it.                        *)
Removed ==
  /\ pc = "remove" /\ list = <<>>
  /\ pc' = "absent"
  /\ nvdimm' = FALSE
  /\ UNCHANGED <<machine, refs, list, unit, ndev, prev, mc, registered>>

Probe  == BusMapped \/ BusFails \/ BusesDone \/ UnitStored \/ UnitRoute \/ UnitFails \/ UnitDone
            \/ RegisterOK \/ RegisterFails \/ RegisterDone
Remove == RemoveSocket \/ Removed

-----------------------------------------------------------------------------
(* Properties.                                                             *)

ProbeTypeOK ==
  /\ machine \in Machines
  /\ refs \in [Devices -> Nat]
  /\ list \in Seq([bus : {machine[n].buses : n \in Devices},
                   slot : [Slots -> Devices \cup {NULL}],
                   mcroute : {machine[n].route : n \in Devices} \cup {0},
                   mci : SUBSET Nat])
  /\ unit \in 1 .. Len(Munits) + 1
  /\ ndev \in Nat
  /\ prev \in Devices \cup {NULL}
  /\ mc \in Nat
  /\ nvdimm \in BOOLEAN
  /\ registered \subseteq Nat

Held(n)  == \E k \in DOMAIN list : \E s \in Slots : list[k].slot[s] = n
IsErr(n) == \E u \in DOMAIN Munits : Munits[u].mtype \in ErrTypes /\ Munits[u].did = machine[n].did
One(b)   == IF b THEN 1 ELSE 0

(* The references the driver needs on a device: one if a socket holds it   *)
(* and one more while a search stands on it.                               *)
Due(n) == One(Held(n)) + One(prev = n)

(* Behind the search every socket has every device it needs, from its own  *)
(* bus and of the right address: the count of skx_base.c:821 is enough for *)
(* the pointers that skx_get_dimm_config() and the thread dereference.     *)
(* And it goes by the one route its cores agree on, in whatever order they *)
(* were met: "Ignore any that read a route table of zero, make sure all    *)
(* the non-zero values match." (skx_base.c:154).                           *)
MunitOf(t) == CHOOSE u \in DOMAIN Munits : Munits[u].mtype = t
RightDevice(k, s, n) ==
  LET m == Munits[MunitOf(s[1])]
  IN  /\ n \in Devices
      /\ machine[n].did = m.did
      /\ machine[n].bus = list[k].bus[m.busidx]
      /\ m.per_socket = NumImc => machine[n].devfn = m.devfn[s[2]]
RoutesOf(k) ==
  {machine[n].route : n \in {x \in Devices : machine[x].did = "208e"
                                         /\ machine[x].bus = list[k].bus[1]}} \ {0}
SocketsWhole ==
  pc \notin {"absent", "buses", "units", "remove"} => \A k \in DOMAIN list :
    /\ \A s \in Slots : RightDevice(k, s, list[k].slot[s])
    /\ RoutesOf(k) = IF list[k].mcroute = 0 THEN {} ELSE {list[k].mcroute}
=============================================================================
