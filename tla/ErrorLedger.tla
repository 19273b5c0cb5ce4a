---------------------------- MODULE ErrorLedger ----------------------------
(***************************************************************************)
(* What a poller of corrected-error counters promises, whatever driver it  *)
(* is part of: memory errors occur on ranks, each belonging to a channel,  *)
(* and from time to time one line about one channel is logged.  A line     *)
(* carries, for every rank of the channel, a number of errors that did     *)
(* occur and that no earlier line carried; a line with nothing new is      *)
(* never printed.                                                          *)
(***************************************************************************)
EXTENDS Naturals

CONSTANTS
  Channel,  \* the memory channels that are polled
  Rank      \* the ranks of a channel

VARIABLES
  occurred, \* occurred[c][r]: corrected errors of rank r of channel c so far
  reported  \* reported[c][r]: sum of what the lines about c say of rank r

vars == <<occurred, reported>>

Init ==
  /\ occurred \in [Channel -> [Rank -> Nat]]
  /\ reported = [c \in Channel |-> [r \in Rank |-> 0]]

Occur(c, r) ==
  /\ occurred' = [occurred EXCEPT ![c][r] = @ + 1]
  /\ UNCHANGED reported

Report(c) ==
  /\ reported' \in [Channel -> [Rank -> Nat]]
  /\ \A d \in Channel \ {c} : reported'[d] = reported[d]
  /\ \A r \in Rank : reported[c][r] <= reported'[c][r] /\ reported'[c][r] <= occurred[c][r]
  /\ \E r \in Rank : reported[c][r] < reported'[c][r]
  /\ UNCHANGED occurred

Next == \E c \in Channel : Report(c) \/ \E r \in Rank : Occur(c, r)

Spec == Init /\ [][Next]_vars
=============================================================================
