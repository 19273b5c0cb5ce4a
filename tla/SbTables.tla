------------------------------ MODULE SbTables ------------------------------
(***************************************************************************)
(* The processors of boradwell-edac-driver/sb_edac.c: the table of the PCI *)
(* devices of a socket that the driver looks for, and what the binding of  *)
(* a controller must have found among its devices.                         *)
(*                                                                         *)
(* Ids are those of sb_edac.c without PCI_DEVICE_ID_INTEL and the name of  *)
(* the processor; CEn is the device with the error counters of a channel,  *)
(* CHANNELERRORn.                                                          *)
(***************************************************************************)
EXTENDS Integers, Sequences

IMC0 == "IMC0"
IMC1 == "IMC1"
SOCK == "SOCK"

(* PCI_DESCR() for each id of a sequence.                                  *)
Descr(ids, optional, dom) ==
  [k \in DOMAIN ids |-> [id |-> ids[k], optional |-> optional, dom |-> dom]]

pci_dev_descr_sbridge ==
     Descr(<<"HA0", "HA0_TA", "HA0_RAS", "HA0_TAD0", "HA0_TAD1", "HA0_TAD2", "HA0_TAD3">>, FALSE, IMC0)
  \o Descr(<<"DDRIO0">>, TRUE, SOCK)
  \o Descr(<<"SAD0", "SAD1", "BR0">>, FALSE, SOCK)

pci_dev_descr_ibridge ==
     Descr(<<"HA0">>, FALSE, IMC0) \o Descr(<<"HA1">>, TRUE, IMC1)
  \o Descr(<<"HA0_TA", "HA0_RAS", "HA0_TAD0", "HA0_TAD1", "HA0_TAD2", "HA0_TAD3">>, FALSE, IMC0)
  \o Descr(<<"HA1_TA", "HA1_RAS", "HA1_TAD0", "HA1_TAD1", "HA1_TAD2", "HA1_TAD3">>, TRUE, IMC1)
  \o Descr(<<"1HA_DDRIO0", "2HA_DDRIO0">>, TRUE, SOCK)
  \o Descr(<<"SAD0">>, FALSE, SOCK)
  \o Descr(<<"BR0">>, TRUE, SOCK) \o Descr(<<"BR1">>, FALSE, SOCK)

pci_dev_descr_haswell ==
     Descr(<<"HA0">>, FALSE, IMC0) \o Descr(<<"HA1">>, TRUE, IMC1)
  \o Descr(<<"HA0_TA", "HA0_TM", "HA0_TAD0", "HA0_TAD1">>, FALSE, IMC0)
  \o Descr(<<"HA0_TAD2", "HA0_TAD3", "CE0", "CE1">>, TRUE, IMC0)
  \o Descr(<<"HA1_TA", "HA1_TM", "HA1_TAD0", "HA1_TAD1", "HA1_TAD2", "HA1_TAD3", "CE4", "CE5">>,
           TRUE, IMC1)
  \o Descr(<<"SAD0", "SAD1">>, FALSE, SOCK)
  \o Descr(<<"DDRIO0", "DDRIO1", "DDRIO2", "DDRIO3">>, TRUE, SOCK)

pci_dev_descr_broadwell ==
     Descr(<<"HA0">>, FALSE, IMC0) \o Descr(<<"HA1">>, TRUE, IMC1)
  \o Descr(<<"HA0_TA", "HA0_TM", "HA0_TAD0", "HA0_TAD1">>, FALSE, IMC0)
  \o Descr(<<"CE0", "CE1", "CE2", "CE3", "HA0_TAD2", "HA0_TAD3">>, TRUE, IMC0)
  \o Descr(<<"HA1_TA", "HA1_TM", "HA1_TAD0", "HA1_TAD1", "HA1_TAD2", "HA1_TAD3",
             "CE4", "CE5", "CE6", "CE7">>, TRUE, IMC1)
  \o Descr(<<"SAD0", "SAD1">>, FALSE, SOCK)
  \o Descr(<<"DDRIO0">>, TRUE, SOCK)

(* Knights Landing has several devices of an id, and as many entries.      *)
KNL_MAX_CHAS     == 38
KNL_MAX_CHANNELS == 6
pci_dev_descr_knl ==
     Descr(<<"MC", "MC", "CHAN", "CHAN", "CHAN", "CHAN", "CHAN", "CHAN", "TA", "TOLHM">>, FALSE, IMC0)
  \o Descr(<<"SAD0", "SAD1">> \o [k \in 1 .. KNL_MAX_CHAS |-> "CHA"], FALSE, SOCK)

-----------------------------------------------------------------------------
(* What the bindings take a device for: a role and a number, of which a    *)
(* controller needs some.  Those of a Knights Landing device come from its *)
(* place, device and function.                                             *)

One(names) == names \X {0}
NoRole == <<"", 0>>

RoleOf(dev) ==
  CASE dev.id \in {"HA0", "HA1"}                             -> <<"ha", 0>>
    [] dev.id \in {"HA0_TA", "HA1_TA", "TA"}                 -> <<"ta", 0>>
    [] dev.id \in {"HA0_RAS", "HA1_RAS", "HA0_TM", "HA1_TM"} -> <<"ras", 0>>
    [] dev.id \in {"HA0_TAD0", "HA1_TAD0"}                   -> <<"tad", 0>>
    [] dev.id \in {"HA0_TAD1", "HA1_TAD1"}                   -> <<"tad", 1>>
    [] dev.id \in {"HA0_TAD2", "HA1_TAD2"}                   -> <<"tad", 2>>
    [] dev.id \in {"HA0_TAD3", "HA1_TAD3"}                   -> <<"tad", 3>>
    [] dev.id \in {"SAD0", "SAD1", "BR0", "BR1"}             -> <<dev.id, 0>>
    [] OTHER -> NoRole

KnlRoleOf(dev) ==
  LET channel == CASE dev.dev = 9 -> dev.fn - 2 [] dev.dev = 8 -> 3 + dev.fn - 2 [] OTHER -> -1
      cha     == (dev.dev - 14) * 8 + dev.fn
  IN  CASE dev.id = "MC" -> IF dev.dev \in {8, 9} THEN <<"mc", dev.dev - 8>> ELSE NoRole
        [] dev.id = "CHAN" -> IF channel \in 0 .. KNL_MAX_CHANNELS - 1 THEN <<"channel", channel>> ELSE NoRole
        [] dev.id = "CHA"  -> IF cha \in 0 .. KNL_MAX_CHAS - 1 THEN <<"cha", cha>> ELSE NoRole
        [] OTHER -> RoleOf(dev)

Numbered(name, n)    == {name} \X (0 .. n - 1)
FourTads(roles)      == Numbered("tad", 4) \subseteq roles
TwoOrFourTads(roles) == roles \cap Numbered("tad", 4) \in {Numbered("tad", 2), Numbered("tad", 4)}

(* The devices have all that binding them needs, vtd the VT-d device.      *)
SbridgeBinds(devs, vtd) ==
  LET roles == {RoleOf(d) : d \in devs}
  IN  One({"SAD0", "SAD1", "ha", "ras", "ta"}) \subseteq roles /\ FourTads(roles)
IbridgeBinds(devs, vtd) ==
  LET roles == {RoleOf(d) : d \in devs}
  IN  One({"SAD0", "BR0", "BR1", "ha", "ras", "ta"}) \subseteq roles /\ TwoOrFourTads(roles)
HaswellBinds(devs, vtd) ==
  LET roles == {RoleOf(d) : d \in devs}
  IN  vtd /\ One({"SAD0", "SAD1", "ha", "ras", "ta"}) \subseteq roles /\ TwoOrFourTads(roles)
BroadwellBinds(devs, vtd) == HaswellBinds(devs, vtd)  \* its ids differ
KnlBinds(devs, vtd) ==
  Numbered("mc", 2) \cup One({"SAD0", "SAD1", "ta"}) \cup Numbered("channel", KNL_MAX_CHANNELS)
    \cup Numbered("cha", KNL_MAX_CHAS) \subseteq {KnlRoleOf(d) : d \in devs}

Binds(type, devs, vtd) ==
  CASE type = "SANDY_BRIDGE"    -> SbridgeBinds(devs, vtd)
    [] type = "IVY_BRIDGE"      -> IbridgeBinds(devs, vtd)
    [] type = "HASWELL"         -> HaswellBinds(devs, vtd)
    [] type = "BROADWELL"       -> BroadwellBinds(devs, vtd)
    [] type = "KNIGHTS_LANDING" -> KnlBinds(devs, vtd)

-----------------------------------------------------------------------------
(* struct pci_id_table: the devices, the length of a controller's pdev     *)
(* array and the controllers that share a socket's devices.                *)
PciIdTable ==
  [SANDY_BRIDGE    |-> [descr |-> pci_dev_descr_sbridge, n_devs_per_imc |-> 11, n_imcs_per_sock |-> 1],
   IVY_BRIDGE      |-> [descr |-> pci_dev_descr_ibridge, n_devs_per_imc |-> 12, n_imcs_per_sock |-> 2],
   HASWELL         |-> [descr |-> pci_dev_descr_haswell, n_devs_per_imc |-> 13, n_imcs_per_sock |-> 2],
   BROADWELL       |-> [descr |-> pci_dev_descr_broadwell, n_devs_per_imc |-> 13, n_imcs_per_sock |-> 2],
   KNIGHTS_LANDING |-> [descr |-> pci_dev_descr_knl, n_devs_per_imc |-> 50, n_imcs_per_sock |-> 1]]

(* Those whose binding takes a reference on the VT-d device.               *)
TakesVtd(type) == type \in {"HASWELL", "BROADWELL"}
=============================================================================
