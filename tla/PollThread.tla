----------------------------- MODULE PollThread -----------------------------
(***************************************************************************)
(* The life of a driver's polling thread, seen from outside: created, then *)
(* in turn asking whether to stop, walking a list of size entries, and     *)
(* sleeping, until it returns, because it was asked to or because it       *)
(* failed on an entry.  The list and the request are its surroundings'.    *)
(***************************************************************************)
EXTENDS Naturals

VARIABLES
  task,        \* where the thread is
  at,          \* the entry it is at while it walks
  should_stop, \* kthread_stop() has been called on it
  size         \* the number of entries

vars == <<task, at, should_stop, size>>

Alive  == {"new", "check", "visit", "sleep"}
States == Alive \cup {"returned"}

Init ==
  /\ task = "new"
  /\ at = 0
  /\ should_stop = FALSE

Return == task' = "returned" /\ at' = 0

(* A kernel thread that is stopped before it first runs does not run.      *)
Begin ==
  /\ task = "new"
  /\ IF should_stop THEN Return ELSE task' = "check" /\ at' = at

(* Goes to entry k of the list, or to sleep behind the last.               *)
Walk(k) ==
  /\ task' = IF k <= size THEN "visit" ELSE "sleep"
  /\ at' = IF k <= size THEN k ELSE 0

Check ==
  /\ task = "check"
  /\ IF should_stop THEN Return ELSE Walk(1)

Visit == task = "visit" /\ Walk(at + 1)
Fail  == task = "visit" /\ Return
Wake  == task = "sleep" /\ task' = "check" /\ at' = at

Step == Begin \/ Check \/ Visit \/ Fail \/ Wake

(* What the surroundings do to a thread whose list does not change.        *)
Stop == ~should_stop /\ should_stop' = TRUE /\ UNCHANGED <<task, at>>

Next == UNCHANGED size /\ ((Step /\ UNCHANGED should_stop) \/ Stop)

Spec == Init /\ [][Next]_vars
=============================================================================
