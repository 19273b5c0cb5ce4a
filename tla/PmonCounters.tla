---------------------------- MODULE PmonCounters ----------------------------
(***************************************************************************)
(* Counters of the memory controllers as the metrics program and read      *)
(* them: set_event() of libs/pmon/pmon.py, the two-part read of get() in   *)
(* libs/pmon/pmon_driver_linuxkernel.py, and their uses in                 *)
(* read_pmoncntr() of libs/pmon/pmon_native_helpers.py and measure() of    *)
(* libs/pmon/pmon_utils.py.                                                *)
(*                                                                         *)
(* A measurement is a pair of the command that makes it and the counter.   *)
(* The controller counts whenever it likes, also between two instructions  *)
(* of the program, and the file with its registers comes and goes: without *)
(* it a write is not made and a read is -1, and nobody is told.            *)
(*                                                                         *)
(* Counter 0 always has the event CAS_COUNT_RD and counter 1 CAS_COUNT_WR, *)
(* so the event is not in the model.                                       *)
(***************************************************************************)
EXTENDS Integers

CONSTANTS
  Measurements,  \* pairs <<command, counter>>
  LowSize,       \* 2^32: what the low four bytes of a counter hold
  HighSize,      \* 2^16: what the two bytes above them hold
  MaxCount       \* bound: events of a counter within one measurement

ASSUME SizeAssumption ==
  /\ LowSize \in Nat \ {0} /\ HighSize \in Nat \ {0}
  /\ MaxCount \in Nat /\ MaxCount < LowSize * HighSize

VARIABLES
  cnt,   \* by counter: its value and whether it is enabled
  meas   \* by measurement, see Unused

pmonVars == <<cnt, meas>>

Counters == {m[2] : m \in Measurements}

(* What the program has: where it is in its window ("none", "open",        *)
(* "stopped", "low" with one part read, "done"), the low part, the value.  *)
(* And what an observer knows: the events since the window was opened, how *)
(* many there were when the counter was stopped or else at the first read, *)
(* whether no other command has written the counter's configuration, and   *)
(* whether every write of its own has been made.                           *)
Unused == [at |-> "none", low |-> 0, value |-> 0, events |-> 0, first |-> 0,
           alone |-> TRUE, reached |-> TRUE]
Missing == -1

PmonInit ==
  /\ cnt = [k \in Counters |-> [value |-> 0, en |-> FALSE]]
  /\ meas = [m \in Measurements |-> Unused]

Window(m) == meas[m].at \in {"open", "stopped", "low"}

(* An event of the memory controller.                                      *)
Count(k) ==
  /\ \A m \in Measurements : m[2] = k /\ Window(m) => meas[m].events < MaxCount
  /\ cnt' = [cnt EXCEPT ![k].value =
               IF cnt[k].en THEN (@ + 1) % (LowSize * HighSize) ELSE @]
  /\ meas' = [m \in Measurements |->
               IF m[2] = k /\ Window(m) THEN [meas[m] EXCEPT !.events = @ + 1] ELSE meas[m]]
  /\ cnt' # cnt \/ meas' # meas

(* set_event(event, enable, reset) writes the whole register; W are the    *)
(* measurements for which set() finds the file and does.                   *)
SetEvent(reg, enable, reset) ==
  [value |-> IF reset THEN 0 ELSE reg.value, en |-> enable]
Configured(W, enable, reset) ==
  [k \in Counters |-> IF \E m \in W : m[2] = k THEN SetEvent(cnt[k], enable, reset) ELSE cnt[k]]

(* Windows of others on a counter that is written for one of W.            *)
Disturbed(m, W) == m \notin W /\ Window(m) /\ \E x \in W : x[2] = m[2]
Disturb(W)      == [m \in Measurements |-> [meas[m] EXCEPT !.alone = @ /\ ~Disturbed(m, W)]]

(* set_event(event): enabled and reset, for all of M.                      *)
Open(M) ==
  \E W \in SUBSET M :
    /\ cnt' = Configured(W, TRUE, TRUE)
    /\ meas' = [m \in Measurements |->
                 IF m \in M THEN [Unused EXCEPT !.at = "open", !.reached = m \in W] ELSE Disturb(W)[m]]

(* set_event(event, False, False): read_pmoncntr() stops the counter.      *)
Stopped(m, W) ==
  [Disturb(W) EXCEPT ![m].at = "stopped", ![m].first = meas[m].events,
                     ![m].reached = @ /\ m \in W]
FreezeMutant(m) ==  \* enable is left at its default
  \E W \in SUBSET {m} : cnt' = Configured(W, TRUE, FALSE) /\ meas' = Stopped(m, W)
Freeze(m) ==
  \E W \in SUBSET {m} : cnt' = Configured(W, FALSE, FALSE) /\ meas' = Stopped(m, W)

(* get(Size.COUNTER) finds no file, which it looks for once, before the    *)
(* first part.                                                             *)
ReadMissing(m) ==
  /\ meas[m].at \in {"open", "stopped"}
  /\ meas' = [meas EXCEPT ![m] = [Unused EXCEPT !.at = "done", !.value = Missing]]
  /\ UNCHANGED cnt

(* Or it reads four bytes, then two.                                       *)
ReadLow(m) ==
  /\ meas[m].at \in {"open", "stopped"}
  /\ meas' = [meas EXCEPT ![m].at = "low", ![m].low = cnt[m[2]].value % LowSize,
                          ![m].first = IF meas[m].at = "open" THEN meas[m].events ELSE @]
  /\ UNCHANGED cnt

ReadHighMutant(m) ==  \* the low part is not taken away first
  /\ meas[m].at = "low"
  /\ meas' = [meas EXCEPT ![m] = [Unused EXCEPT !.at = "done",
                                  !.value = cnt[m[2]].value * LowSize + meas[m].low]]
  /\ UNCHANGED cnt
ReadHigh(m) ==
  /\ meas[m].at = "low"
  /\ meas' = [meas EXCEPT ![m] =
       [Unused EXCEPT !.at = "done",
                      !.value = (cnt[m[2]].value \div LowSize) * LowSize + meas[m].low]]
  /\ UNCHANGED cnt

(* set_event(event, False, True): read_pmoncntr() leaves the counter so.   *)
Clear(m) ==
  \E W \in SUBSET {m} :
    /\ cnt' = Configured(W, FALSE, TRUE)
    /\ meas' = [Disturb(W) EXCEPT ![m] = Unused]

(* A command is left by an exception: its measurements go on to no avail.  *)
Drop(M) == [m \in Measurements |-> IF m \in M THEN Unused ELSE meas[m]]
=============================================================================
