--------------------------- MODULE MetricsService ---------------------------
(***************************************************************************)
(* What mem_inspector promises its user: every command of the table has    *)
(* one task, which waits for its delay and then runs, over and over and    *)
(* whatever comes of it.                                                   *)
(***************************************************************************)
CONSTANT Commands

VARIABLE phase

Init == phase = [c \in Commands |-> "waiting"]

Begin(c) == phase[c] = "waiting" /\ phase' = [phase EXCEPT ![c] = "running"]

(* Commands that have ended start to wait again, several at a time.        *)
End(C) ==
  /\ \A c \in C : phase[c] = "running"
  /\ phase' = [c \in Commands |-> IF c \in C THEN "waiting" ELSE phase[c]]

Next ==
  \/ \E c \in Commands : Begin(c)
  \/ \E C \in SUBSET Commands : C # {} /\ End(C)

Ends(c) == \E C \in SUBSET Commands : c \in C /\ End(C)

Spec == /\ Init /\ [][Next]_phase
        /\ \A c \in Commands : WF_phase(Begin(c)) /\ WF_phase(Ends(c))
=============================================================================
