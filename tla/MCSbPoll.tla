------------------------------ MODULE MCSbPoll ------------------------------
(***************************************************************************)
(* Instances of SbPoll for TLC: two sockets with one core each, and a      *)
(* memory controller with a polled channel per socket, or two on one.      *)
(* Linux numbers the first threads of all cores before the second ones.    *)
(***************************************************************************)
EXTENDS SbPoll

TwoSockets == <<0, 1>>
OneAgent   == <<0, 0>>
TwoAgents  == <<0, 1>>

\* Hyper-threading on: processors 0 and 2 on socket 0, 1 and 3 on socket 1.
SmtCpus   == 0 .. 3
SmtSocket == [p \in SmtCpus |-> p % 2]

\* The same with a third thread on socket 0: taking processor 1 away leaves
\* the quotient the code computes as it was, the MSR reads on it fail.
PlusCpus   == 0 .. 4
PlusSocket == [p \in PlusCpus |-> p % 2]

\* Hyper-threading off: one processor per core.
NoSmtCpus   == 0 .. 1
NoSmtSocket == [p \in NoSmtCpus |-> p]
=============================================================================
