------------------------------ MODULE SbProbe ------------------------------
(***************************************************************************)
(* How boradwell-edac-driver/sb_edac.c takes hold of its PCI devices and   *)
(* gives them back: sbridge_probe() with sbridge_get_all_devices(),        *)
(* sbridge_get_onedevice(), the bindings and the registration of the       *)
(* memory controllers, and sbridge_remove(), for the processors of         *)
(* SbTables.                                                               *)
(*                                                                         *)
(* The machine is the sequence of its PCI devices in the order in which    *)
(* pci_get_device() walks them.  A device is its position there; position  *)
(* 0 is NULL.  pci_get_device(id, from) takes a reference on what it       *)
(* returns and drops the one on "from".                                    *)
(***************************************************************************)
EXTENDS SbTables, FiniteSets, FiniteSetsExt

CONSTANT
  Machines  \* the machines to probe: [type, devs], devs a sequence of [id, bus, dev, fn]

NULL == 0
HA0Entry == 1  \* "first item must be the HA"
HA1Entry == 2

ASSUME MachinesAssumption ==
  \A m \in Machines : /\ m.type \in DOMAIN PciIdTable
                      /\ Len(m.devs) \in Nat /\ DOMAIN m.devs = 1 .. Len(m.devs)

VARIABLES
  machine,   \* the type of its processors and its PCI devices
  refs,      \* refs[n]: references the driver holds on device n
  list,      \* sbridge_edac_list: records [bus, dom, pdev, mci]
  pc,        \* where the module's init thread is
  devno,     \* the table entry it looks for
  prev,      \* the device its search goes on from
  left,      \* devices a reference on which nobody has any more (history)
  mc,        \* the controller to register next
  rc         \* what sbridge_probe() returned

vars == <<machine, refs, list, pc, devno, prev, left, mc, rc>>

Devices == DOMAIN machine.devs
Dev(n)  == machine.devs[n]
table   == PciIdTable[machine.type]
Entry   == table.descr[devno]

(* Entries of the same id stand for several devices, on several buses, of  *)
(* the only controller.                                                    *)
Knl        == machine.type = "KNIGHTS_LANDING"
allow_dups == Knl
multi_bus  == Knl

Init ==
  /\ machine \in Machines
  /\ refs = [n \in Devices |-> 0]
  /\ list = <<>>
  /\ pc = "get"
  /\ devno = HA0Entry
  /\ prev = NULL
  /\ left = {}
  /\ mc = 1
  /\ rc = 0

-----------------------------------------------------------------------------
(* The PCI core.                                                           *)

Get(r, n, k) == IF n = NULL THEN r ELSE [r EXCEPT ![n] = @ + k]
Put(r, n)    == IF n = NULL THEN r ELSE [r EXCEPT ![n] = @ - 1]

Search(id, from) ==
  LET found == {n \in Devices : n > from /\ Dev(n).id = id}
  IN  IF found = {} THEN NULL ELSE Min(found)

-----------------------------------------------------------------------------
(* The list of controllers.                                                *)

(* The first n elements of a set of numbers.                               *)
Least(S, n) == {x \in S : Cardinality({y \in S : y < x}) < n}

(* get_sbridge_dev(), called until it has no more or enough: the           *)
(* controllers a device of domain dom on a bus goes to.                    *)
Matching(bus, dom) ==
  {k \in DOMAIN list : multi_bus \/ (list[k].bus = bus /\ dom \in {SOCK, list[k].dom})}
OwnersMutant(bus, dom) == Least(Matching(bus, dom), 1)  \* no goto next_imc
Owners(bus, dom) == Least(Matching(bus, dom), IF dom = SOCK THEN table.n_imcs_per_sock ELSE 1)

NewController(bus, dom) == [bus |-> bus, dom |-> dom, pdev |-> <<>>, mci |-> FALSE]

(* What the driver sees of a controller's devices: its loops over pdev run *)
(* to n_devs.  An entry stored behind the array lands in the rest of the   *)
(* allocation, zeroed as the array is (13 pointers in an object of 16).    *)
Seen(c) == {s \in DOMAIN c.pdev : s <= table.n_devs_per_imc}

(* The entries of all controllers that hold device n.                      *)
Held(l, n) == UNION {{k} \X {s \in Seen(l[k]) : l[k].pdev[s] = n} : k \in DOMAIN l}

(* sbridge_put_all_devices().                                              *)
PutAll(r, l) == [n \in Devices |-> r[n] - Cardinality(Held(l, n))]

-----------------------------------------------------------------------------
(* sbridge_get_all_devices(): its loop around sbridge_get_onedevice().     *)

(* get_onedevice() returned 0 and left p in *prev, and stored the devices  *)
(* in lost nowhere.  The search goes on from p for the same entry, or for  *)
(* the next one if it has the same id; otherwise p is forgotten.           *)
Again(p) == p # NULL /\ ~allow_dups
Same(d)  == /\ allow_dups /\ d + 1 \in DOMAIN table.descr
            /\ table.descr[d + 1].id = table.descr[d].id
AdvanceMutant(p, lost) ==  \* i++ only behind a device that was found
  /\ rc' = 0
  /\ prev' = p
  /\ devno' = IF p # NULL \/ prev = NULL THEN devno ELSE devno + 1
  /\ pc' = IF devno' > Len(table.descr) THEN "register" ELSE "get"
  /\ UNCHANGED left
Advance(p, lost) ==
  /\ rc' = 0
  /\ devno' = IF Again(p) THEN devno ELSE devno + 1
  /\ IF Again(p) \/ Same(devno)
       THEN prev' = p /\ left' = left \cup lost
       ELSE prev' = NULL /\ left' = left \cup lost \cup ({p} \ {NULL})
  /\ pc' = IF devno' > Len(table.descr) THEN "register" ELSE "get"

(* It returned an error with references r and the list l: without the      *)
(* first device the search ends, and ends well; otherwise all is put.      *)
Failed(r, l, lost) ==
  /\ left' = left \cup lost
  /\ UNCHANGED <<devno, prev>>
  /\ IF devno = HA0Entry
       THEN pc' = "register" /\ refs' = r /\ list' = l /\ rc' = 0
       ELSE pc' = "done" /\ refs' = PutAll(r, l) /\ list' = <<>> /\ rc' = -1

Calling == pc = "get" /\ UNCHANGED <<machine, mc>>
Found   == Search(Entry.id, prev)

(* No more devices of this id, or none and it is optional.                 *)
Exhausted ==
  /\ Calling
  /\ Found = NULL
  /\ prev # NULL \/ Entry.optional
  /\ refs' = Put(refs, prev)
  /\ Advance(NULL, {})
  /\ UNCHANGED list

Missing ==
  /\ Calling
  /\ Found = NULL
  /\ prev = NULL /\ ~Entry.optional
  /\ Failed(refs, list, {})

(* A device of an IMC1 whose HA1 is absent: put, and *prev stays.          *)
NeedsHA1 == Entry.dom = IMC1 /\ devno # HA1Entry
SkipIMC1Mutant ==  \* no pci_dev_put() on the early return
  /\ Calling
  /\ Found # NULL
  /\ NeedsHA1 /\ Owners(Dev(Found).bus, IMC1) = {}
  /\ refs' = Get(Put(refs, prev), Found, 1)
  /\ Advance(prev, {})
  /\ UNCHANGED list
SkipIMC1 ==
  /\ Calling
  /\ Found # NULL
  /\ NeedsHA1 /\ Owners(Dev(Found).bus, IMC1) = {}
  /\ refs' = Put(refs, prev)
  /\ Advance(prev, {})
  /\ UNCHANGED list

(* The device goes into every controller it belongs to, which for one of a *)
(* socket without controllers are none; the first HA of a bus and domain   *)
(* makes the controller, for which there may be no memory.                 *)
Creates == /\ Entry.dom # SOCK
           /\ ~NeedsHA1
           /\ Owners(Dev(Found).bus, Entry.dom) = {}

AllocFails ==
  /\ Calling
  /\ Found # NULL
  /\ Creates
  /\ Failed(Put(refs, prev), list, {})

StoreRefsMutant(owners) == Put(Get(refs, Found, 1), prev)  \* no extra gets
StoreRefs(owners) ==  \* pci_get_device(), and a get for every further owner
  Put(Get(refs, Found, IF owners = {} THEN 1 ELSE Cardinality(owners)), prev)

Store ==
  /\ Calling
  /\ Found # NULL
  /\ Creates \/ Entry.dom = SOCK \/ Owners(Dev(Found).bus, Entry.dom) # {}
  /\ LET bus    == Dev(Found).bus
         before == IF Creates THEN Append(list, NewController(bus, Entry.dom)) ELSE list
         owners == IF Creates THEN {Len(before)} ELSE Owners(bus, Entry.dom)
         after  == [k \in DOMAIN before |->
                      IF k \in owners
                        THEN [before[k] EXCEPT !.pdev = Append(@, Found)]
                        ELSE before[k]]
         lost   == IF owners = {} THEN {Found} ELSE {}
     IN  \/ /\ list' = after  \* pci_enable_device() succeeds; a get for *prev
            /\ refs' = Get(StoreRefs(owners), Found, 1)
            /\ Advance(Found, lost)
         \/ Failed(StoreRefs(owners), after, lost)

-----------------------------------------------------------------------------
(* The rest of sbridge_probe(), and sbridge_remove().                      *)

Vtd == Search("VTD", NULL)

(* ..._mci_bind_devs() finds all it needs.                                 *)
Bindable(c) == Binds(machine.type, {Dev(c.pdev[s]) : s \in Seen(c)}, Vtd # NULL)

(* What binding does to the references, for a type that takes the VT-d     *)
(* device.                                                                 *)
BoundRefs == IF TakesVtd(machine.type) THEN Get(refs, Vtd, 1) ELSE refs

(* The next controller is registered.  Its binding takes a reference on    *)
(* the VT-d device for the controller and has no place to keep it for a    *)
(* put.                                                                    *)
RegisterOK ==
  /\ pc = "register" /\ mc <= Len(list)
  /\ Bindable(list[mc])
  /\ list' = [list EXCEPT ![mc].mci = TRUE]
  /\ refs' = BoundRefs
  /\ mc' = mc + 1
  /\ UNCHANGED <<machine, pc, devno, prev, left, rc>>

(* No memory for the controller, or it cannot be bound, or its registers   *)
(* cannot be read or EDAC does not take it.                                *)
RegisterFailsMutant ==  \* goes on with the next controller
  /\ pc = "register" /\ mc <= Len(list)
  /\ refs' = BoundRefs
  /\ mc' = mc + 1
  /\ UNCHANGED <<machine, list, pc, devno, prev, left, rc>>
RegisterFails ==
  /\ pc = "register" /\ mc <= Len(list)
  /\ \E bound \in BOOLEAN : refs' = IF bound THEN BoundRefs ELSE refs
  /\ pc' = "fail1"
  /\ rc' = -1
  /\ UNCHANGED <<machine, list, devno, prev, left, mc>>

Registered ==
  /\ pc = "register" /\ mc > Len(list)
  /\ pc' = "done"
  /\ UNCHANGED <<machine, refs, list, devno, prev, left, mc, rc>>

(* Both unregister every controller that has an mci, then put and free.    *)
Cleanup(from, to) ==
  /\ pc = from
  /\ refs' = PutAll(refs, list)
  /\ list' = <<>>
  /\ pc' = to
  /\ UNCHANGED <<machine, devno, prev, left, mc, rc>>

Fail1  == Cleanup("fail1", "done")
Remove == rc = 0 /\ Cleanup("done", "removed")

GetOneDevice == Exhausted \/ Missing \/ SkipIMC1 \/ AllocFails \/ Store
Probe == GetOneDevice \/ RegisterOK \/ RegisterFails \/ Registered \/ Fail1
Next  == Probe \/ Remove

Spec == Init /\ [][Next]_vars

(* The init thread runs; when the module is unloaded is open.              *)
FairSpec == Spec /\ WF_vars(Probe)

-----------------------------------------------------------------------------
(* Properties.                                                             *)

TypeOK ==
  /\ machine \in Machines
  /\ refs \in [Devices -> Nat]
  /\ pc \in {"get", "register", "fail1", "done", "removed"}
  /\ devno \in 1 .. Len(table.descr) + 1
  /\ prev \in Devices \cup {NULL}
  /\ left \subseteq Devices
  /\ mc \in 1 .. Len(list) + 1 \/ list = <<>>
  /\ rc \in {-1, 0}
  /\ \A k \in DOMAIN list : \A s \in DOMAIN list[k].pdev : list[k].pdev[s] \in Devices

TableDevices == {n \in Devices : \E d \in DOMAIN table.descr : table.descr[d].id = Dev(n).id}
Holders(n) == UNION {{k} \X {s \in DOMAIN list[k].pdev : list[k].pdev[s] = n} : k \in DOMAIN list}

(* Through the walk over the devices, the shared ones of a socket, and     *)
(* every failure on the way, a device is referenced once for each time a   *)
(* controller holds it and once more while the search stands on it: never  *)
(* fewer (it could be removed under the driver), never more -- but for two *)
(* kinds of device of which one reference is nobody's: the last of an id   *)
(* of Knights Landing, forgotten when the search turns to the next id      *)
(* (sb_edac.c:2526), and that of a socket which has no controller          *)
(* (sb_edac.c:2451).                                                       *)
RefsExact ==
  \A n \in TableDevices :
    refs[n] = Cardinality(Holders(n)) + (IF pc = "get" /\ prev = n THEN 1 ELSE 0)
                                      + (IF n \in left THEN 1 ELSE 0)

(* A search that found all it needed leaves a controller for each home     *)
(* agent, with the devices of its bus and domain and its socket's.  Of a   *)
(* Knights Landing id it takes the devices it has entries for.             *)
EntriesOf(n) == {d \in DOMAIN table.descr : table.descr[d].id = Dev(n).id}
DomOf(n)     == table.descr[Min(EntriesOf(n))].dom
Expected(n)  ==
  allow_dups => Cardinality({m \in Devices : m <= n /\ Dev(m).id = Dev(n).id}) <= Cardinality(EntriesOf(n))
Complete ==
  pc = "register" /\ devno > Len(table.descr) =>
    /\ \A n \in TableDevices :
         EntriesOf(n) \cap {HA0Entry, HA1Entry} # {} /\ DomOf(n) # SOCK =>
           \E k \in DOMAIN list : list[k].bus = Dev(n).bus /\ list[k].dom = DomOf(n)
    /\ \A k \in DOMAIN list : \A n \in TableDevices :
         (\E s \in DOMAIN list[k].pdev : <<k, s>> \in Holders(n))
           <=> /\ Expected(n)
               /\ multi_bus \/ (Dev(n).bus = list[k].bus /\ DomOf(n) \in {SOCK, list[k].dom})

(* "'put' all the devices that we have reserved via 'get'"                 *)
(* (sb_edac.c:2366): a failed probe and module unload leave no reference   *)
(* on a device of the table, the forgotten ones apart.                     *)
Released == pc = "removed" \/ (pc = "done" /\ rc < 0)
AllPut == Released => \A n \in TableDevices \ left : refs[n] = 0

(* A probe that returns 0 has registered every controller on the list; one *)
(* that returns an error, wherever it failed, leaves no list and holds no  *)
(* device, and neither does module unload.                                 *)
AllOrNothing ==
  /\ pc = "done" /\ rc = 0 => \A k \in DOMAIN list : list[k].mci
  /\ Released => list = <<>>
  /\ AllPut

(* The probe returns.                                                      *)
ProbeEnds == <>(pc \in {"done", "removed"})
=============================================================================
