---------------------------- MODULE MCSkxDriver ----------------------------
(***************************************************************************)
(* Machines for SkxDriver: the devices of one and of two sockets, and      *)
(* machines on which the search must fail.                                 *)
(***************************************************************************)
EXTENDS SkxDriver, TLC

NoBuses == [i \in 0 .. 3 |-> 0]
Dev(did, bus, devfn, route) ==
  [did |-> did, bus |-> bus, devfn |-> devfn, buses |-> NoBuses, route |-> route]

\* The buses of a socket, and the devices on them, with the routes its
\* cores read.
Buses(k) == [i \in 0 .. 3 |-> 10 * k + i]
Global(k) == << [Dev(DecsDid, 10 * k, "8.0", 0) EXCEPT !.buses = Buses(k)],
                Dev("2054", 10 * k + 1, "29.0", 0), Dev("2055", 10 * k + 1, "29.1", 0) >>
OfMunit(k, u, i) == Dev(Munits[u].did, 10 * k + 2, Munits[u].devfn[i], 0)
Channels(k) == [x \in 1 .. 12 |-> OfMunit(k, 3 + (x - 1) \div 2, (x - 1) % 2)]
Cores(k, routes) == [x \in DOMAIN routes |-> Dev("208e", 10 * k + 1, "30." \o ToString(x), routes[x])]
HiLo == << Dev(HiLoDid, 9, "5.0", 0) >>

OneSocket  == HiLo \o Global(1) \o Channels(1) \o Cores(1, <<5, 0, 5>>)
TwoSockets == HiLo \o Global(1) \o Channels(1) \o Global(2) \o Channels(2)
                   \o Cores(1, <<0, 6>>) \o Cores(2, <<7, 7>>)
\* An error-counter device is hidden; channels are on a bus of no socket;
\* cores disagree; no core tells a route; no socket at all.
NoEdev   == HiLo \o Global(1) \o Tail(Channels(1)) \o Cores(1, <<5>>)
Stray    == HiLo \o Global(1) \o Global(2) \o Channels(1) \o Channels(3)
Disagree == HiLo \o Global(1) \o Channels(1) \o Cores(1, <<5, 0, 4>>)
NoRoute  == HiLo \o Global(1) \o Channels(1) \o Cores(1, <<0, 0>>)

AllMachines == {OneSocket, TwoSockets, NoEdev, Stray, Disagree, NoRoute, HiLo}
=============================================================================
