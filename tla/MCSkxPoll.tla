----------------------------- MODULE MCSkxPoll -----------------------------
(***************************************************************************)
(* An instance of SkxPoll for TLC: one channel on each of two sockets, the *)
(* second behind its socket's second home agent, two threads per core and  *)
(* one more on socket 0, so that taking processor 1 away leaves the        *)
(* quotient the code computes as it was.                                   *)
(***************************************************************************)
EXTENDS SkxPoll

Sockets  == <<0, 1>>
Agents   == <<0, 1>>
PlusCpus == 0 .. 4
Places   == [p \in PlusCpus |-> p % 2]
=============================================================================
