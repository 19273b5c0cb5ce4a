----------------------------- MODULE MCSbProbe -----------------------------
(***************************************************************************)
(* Machines to probe with the tables of sb_edac.c.                         *)
(***************************************************************************)
EXTENDS SbProbe

On(bus, ids) == [k \in DOMAIN ids |-> [id |-> ids[k], bus |-> bus, dev |-> 0, fn |-> 0]]
VtdDev == On(1, <<"VTD">>)
Machine(type, devs) == [type |-> type, devs |-> devs]

\* Broadwell sockets.  A part with one two-channel memory controller, with
\* two, and a server part with two four-channel controllers.
OneImc  == <<"HA0", "HA0_TA", "HA0_TM", "HA0_TAD0", "HA0_TAD1", "CE0", "CE1",
             "SAD0", "SAD1", "DDRIO0">>
SecondImc == <<"HA1", "HA1_TA", "HA1_TM", "HA1_TAD0", "HA1_TAD1", "CE4", "CE5">>
TwoImcs == OneImc \o SecondImc
Server  == TwoImcs \o <<"HA0_TAD2", "HA0_TAD3", "CE2", "CE3",
                        "HA1_TAD2", "HA1_TAD3", "CE6", "CE7">>
\* A second controller without its home agent, and a socket that lacks SAD1.
NoHA1 == OneImc \o Tail(SecondImc)
NoSad == SelectSeq(OneImc, LAMBDA id : id # "SAD1")
\* A server part whose DDRIO0 is hidden: its devices fill the pdev array.
Full  == SelectSeq(Server, LAMBDA id : id # "DDRIO0")

\* A socket whose home agent is hidden.
NoHA == <<"SAD0", "SAD1", "DDRIO0">>

Broadwell(devs) == Machine("BROADWELL", devs)

\* All devices of a table, and those of it whose number is in N.
Ids(type)     == [d \in DOMAIN PciIdTable[type].descr |-> PciIdTable[type].descr[d].id]
Some(type, N) == LET ids == Ids(type) IN SelectSeq(ids, LAMBDA id : \E d \in N : ids[d] = id)
Ivy(N)        == Machine("IVY_BRIDGE", On(1, Some("IVY_BRIDGE", N)))

\* Knights Landing: controllers and channels at devices 8 and 9 of a bus, home
\* agents from device 14 of another.  There are two TA, and one entry for it.
KnlAt(ids, bus, dev, fn) ==
  [k \in DOMAIN ids |-> [id |-> ids[k], bus |-> bus, dev |-> dev[k], fn |-> fn[k]]]
KnlMachine(chas) ==
  Machine("KNIGHTS_LANDING",
     KnlAt(<<"TOLHM">>, 0, <<5>>, <<0>>)
  \o KnlAt([k \in 1 .. chas |-> "CHA"], 1, [k \in 1 .. chas |-> 14 + (k - 1) \div 8],
           [k \in 1 .. chas |-> (k - 1) % 8])
  \o KnlAt(<<"SAD0", "SAD1">>, 1, <<29, 29>>, <<0, 1>>)
  \o KnlAt(<<"MC", "CHAN", "CHAN", "CHAN", "MC", "CHAN", "CHAN", "CHAN", "TA", "TA">>, 2,
           <<8, 8, 8, 8, 9, 9, 9, 9, 10, 11>>, <<0, 2, 3, 4, 0, 2, 3, 4, 1, 1>>))

SmallMachines == {
  Broadwell(VtdDev \o On(1, TwoImcs) \o On(2, TwoImcs)),
  Broadwell(VtdDev \o On(1, OneImc) \o On(2, OneImc)),
  Broadwell(VtdDev \o On(1, NoHA1) \o On(2, NoHA1)),
  Broadwell(VtdDev \o On(1, NoSad)),
  Broadwell(VtdDev \o On(1, OneImc) \o On(2, NoHA)),
  Broadwell(VtdDev \o On(1, Full)),
  Broadwell(On(1, OneImc)),
  Broadwell(VtdDev),   \* no memory controller
  Machine("HASWELL", VtdDev \o On(1, TwoImcs)),
  Machine("SANDY_BRIDGE", On(1, Ids("SANDY_BRIDGE")) \o On(2, Ids("SANDY_BRIDGE"))),
  Ivy(DOMAIN Ids("IVY_BRIDGE") \ {15}),           \* two home agents
  Ivy({1} \cup 3 .. 8 \cup {15} \cup 17 .. 19),   \* one home agent
  Ivy({1} \cup 3 .. 8 \cup {15, 17, 19}),         \* without BR0, cannot be bound
  KnlMachine(KNL_MAX_CHAS),
  KnlMachine(KNL_MAX_CHAS - 2) }
ServerMachine == {Broadwell(VtdDev \o On(1, Server))}
=============================================================================
