-------------------------- MODULE MetricsScheduler --------------------------
(***************************************************************************)
(* mem_inspector: the loop that keeps one asyncio task per command of its  *)
(* table (MetricsReader.run() and exec_task() of bin/mem_inspector.py,     *)
(* NativeCallMap.cmd() of libs/native.py), the commands                    *)
(* (libs/pmon/pmon_native_helpers.py), and the CSV lines, of which only    *)
(* those that differ from the one before are printed.                      *)
(*                                                                         *)
(* Tasks take turns only where they await: a task that is at "frozen",     *)
(* "low" or "read" has the event loop.  Sleeps take any time.              *)
(***************************************************************************)
EXTENDS PmonCounters, Sequences, FiniteSets

CONSTANTS
  Commands,  \* the numbers of the entries of a table
  Tables,    \* tables: [Commands -> [name, op, items, counters]]
  Values,    \* what the registers of a device or sensor may hold
  MaxCopies  \* bound: tasks of one entry

(* As in main(), no two entries have a name or a command in common;        *)
(* read_pmoncntr() uses one counter.                                       *)
ASSUME TablesAssumption ==
  \A t \in Tables :
    /\ DOMAIN t = Commands
    /\ \A c, d \in Commands : t[c].name = t[d].name \/ t[c].op = t[d].op => c = d
    /\ \A c \in Commands : {c} \X t[c].counters \subseteq Measurements
    /\ \A c \in Commands : t[c].op = "pmoncntr" => \E k \in t[c].counters : t[c].counters = {k}

ASSUME CopiesAssumption == MaxCopies \in Nat \ {0}

(* Commands that read all their registers without awaiting.                *)
Readers == {"read_correrrcnt", "read_hwmon_temp", "read_dimm_temp"}

VARIABLES
  cmds,     \* the table
  task,     \* task[c, n]: where task n of entry c is, "none" if there is none
  current,  \* the task that has the event loop, if it was left in the middle
  filter,   \* Filter.data: the last values of an item, {} or one element
  latest,   \* those last handed to csv_output(), and those of the last
  printed,  \* line that was printed (history)
  failed    \* printing the line of the latest values failed (history)

csvVars == <<filter, latest, printed, failed>>
vars    == <<pmonVars, cmds, task, current, csvVars>>

Copies == 1 .. MaxCopies
Tasks  == Commands \X Copies
Nobody == <<0, 0>>

Items(c) == cmds[c].items  \* the devices it reports, in their order
ItemSet(c) == {Items(c)[i] : i \in DOMAIN Items(c)}
Keys == UNION {{c} \X ItemSet(c) : c \in Commands}
MeasurementsOf(c) == {c} \X cmds[c].counters

Init ==
  /\ PmonInit
  /\ cmds \in Tables
  /\ task = [t \in Tasks |-> IF t[2] = 1 THEN "delay" ELSE "none"]
  /\ current = Nobody
  /\ filter = [k \in Keys |-> {}]
  /\ latest = [k \in Keys |-> {}]
  /\ printed = [k \in Keys |-> {}]
  /\ failed = [k \in Keys |-> FALSE]

Op(t) == cmds[t[1]].op

(* A task goes on, when the loop is free or is its own, and gives it up    *)
(* unless it is in the middle of something.                                *)
Goes(t, from, to) ==
  /\ current \in {Nobody, t}
  /\ task[t] = from
  /\ task' = [task EXCEPT ![t] = to]
  /\ current' = IF to \in {"frozen", "low", "read"} THEN t ELSE Nobody
  /\ UNCHANGED cmds

-----------------------------------------------------------------------------
(* exec_task() after its sleep: NativeCallMap.cmd() calls the command.     *)

Call(t) ==
  /\ Goes(t, "delay", "called")
  /\ UNCHANGED <<pmonVars, csvVars>>

(* There is no such command, or arguments are missing; or it is            *)
(* read_scrubaddress(), for which write_metric() has no line.              *)
PrintsNothing(t) ==
  /\ Op(t) \in {"unknown", "scrubaddress"}
  /\ Goes(t, "called", "done")
  /\ UNCHANGED <<pmonVars, csvVars>>

(* read_pcicfg() uses names that its module does not import.  Any command  *)
(* may fail to open, read or write a file that it found; what it would     *)
(* have printed is lost, and its measurements are left alone.              *)
Raises(t) ==
  /\ \E from \in {"called", "measuring", "frozen", "low", "read"} : Goes(t, from, "raised")
  /\ Op(t) # "unknown"
  /\ meas' = Drop(MeasurementsOf(t[1]))
  /\ UNCHANGED <<cnt, csvVars>>

-----------------------------------------------------------------------------
(* CSV lines.                                                              *)

(* Filter.process(): is it to be printed, and what is kept.                *)
Differs(k, value) == filter[k] # {value}
KeepMutant(kept, value) == IF kept = {} THEN {value} ELSE kept  \* the first values stay
Keep(kept, value) == {value}

(* write_metric() of the first n items; the line of the last one cannot be *)
(* printed if broken, and the task ends there with an exception.           *)
WriteMetric(c, value, n, broken) ==
  LET written   == {<<c, Items(c)[i]>> : i \in 1 .. n}
      changed   == {k \in written : Differs(k, value[k[2]])}
      unprinted == {k \in changed : broken /\ k[2] = Items(c)[n]}
  IN  /\ broken => unprinted # {}
      /\ filter' = [k \in Keys |-> IF k \in changed THEN Keep(filter[k], value[k[2]]) ELSE filter[k]]
      /\ latest' = [k \in Keys |-> IF k \in written THEN {value[k[2]]} ELSE latest[k]]
      /\ printed' = [k \in Keys |-> IF k \in changed \ unprinted THEN {value[k[2]]} ELSE printed[k]]
      /\ failed' = [k \in Keys |-> IF k \in changed THEN k \in unprinted ELSE failed[k]]

Readings(c) == [ItemSet(c) -> Values]

Written(t, from, value) ==
  LET c == t[1]
  IN  \/ /\ WriteMetric(c, value, Len(Items(c)), FALSE)
         /\ Goes(t, from, "done")
      \/ /\ \E n \in 1 .. Len(Items(c)) : WriteMetric(c, value, n, TRUE)
         /\ Goes(t, from, "raised")

(* read_correrrcnt() and the like: whatever the registers hold.            *)
ReadAndWrite(t) ==
  /\ Op(t) \in Readers
  /\ \E value \in Readings(t[1]) : Written(t, "called", value)
  /\ UNCHANGED pmonVars

-----------------------------------------------------------------------------
(* read_bw() and read_pmoncntr().                                          *)

(* measure() for all counters, one after the other, before anything else   *)
(* has its turn; or one counter.                                           *)
StartMeasuring(t) ==
  /\ Op(t) \in {"read_bw", "pmoncntr"}
  /\ Goes(t, "called", "measuring")
  /\ Open(MeasurementsOf(t[1]))
  /\ UNCHANGED csvVars

(* set_event() raised for some of them: the task of read_bw() ends with an *)
(* exception, others have been written.                                    *)
StartFails(t) ==
  /\ Op(t) \in {"read_bw", "pmoncntr"}
  /\ Goes(t, "called", "raised")
  /\ \E W \in SUBSET MeasurementsOf(t[1]) :
       /\ W # MeasurementsOf(t[1])
       /\ cnt' = Configured(W, TRUE, TRUE)
       /\ meas' = Disturb(W)
  /\ UNCHANGED csvVars

(* measure() of one counter after its sleep.                               *)
MeasureMissing(t, m) ==
  /\ Op(t) = "read_bw"
  /\ Goes(t, "measuring", "measuring")
  /\ ReadMissing(m)
  /\ UNCHANGED csvVars
MeasureLow(t, m) ==
  /\ Op(t) = "read_bw"
  /\ Goes(t, "measuring", "low")
  /\ ReadLow(m)
  /\ UNCHANGED csvVars
MeasureHigh(t, m) ==
  /\ Op(t) = "read_bw"
  /\ Goes(t, "low", "measuring")
  /\ ReadHigh(m)
  /\ UNCHANGED csvVars

(* All measured: gather() is over, and the bandwidths are written.  That   *)
(* lines are equal or not is all that counts of the numbers in them.       *)
ReportBandwidth(t) ==
  /\ Op(t) = "read_bw"
  /\ \A m \in MeasurementsOf(t[1]) : meas[m].at = "done"
  /\ \E value \in Readings(t[1]) : Written(t, "measuring", value)
  /\ meas' = Drop(MeasurementsOf(t[1]))
  /\ UNCHANGED cnt

(* read_pmoncntr() after its sleep.  write_metric() has no line for what   *)
(* it reports.                                                             *)
Stop(t, m) ==
  /\ Op(t) = "pmoncntr"
  /\ Goes(t, "measuring", "frozen")
  /\ Freeze(m)
  /\ UNCHANGED csvVars
StoppedMissing(t, m) ==
  /\ Op(t) = "pmoncntr"
  /\ Goes(t, "frozen", "read")
  /\ ReadMissing(m)
  /\ UNCHANGED csvVars
StoppedLow(t, m) ==
  /\ Op(t) = "pmoncntr"
  /\ Goes(t, "frozen", "low")
  /\ ReadLow(m)
  /\ UNCHANGED csvVars
StoppedHigh(t, m) ==
  /\ Op(t) = "pmoncntr"
  /\ Goes(t, "low", "read")
  /\ ReadHigh(m)
  /\ UNCHANGED csvVars
Restart(t, m) ==
  /\ Op(t) = "pmoncntr"
  /\ Goes(t, "read", "done")
  /\ Clear(m)
  /\ UNCHANGED csvVars

-----------------------------------------------------------------------------
(* The loop of run(): the tasks that have ended are awaited, one exception *)
(* or not, and every entry of such a task's name gets a new one.           *)
Ended == {t \in Tasks : task[t] \in {"done", "raised"}}

(* New tasks of an entry, in places that are free.                         *)
NewTasks(ended) ==
  [c \in Commands |-> Cardinality({t \in ended : cmds[t[1]].name = cmds[c].name})]
Created(kept, new) ==
  [t \in Tasks |->
     IF t \in kept THEN task[t]
     ELSE IF Cardinality({n \in Copies : <<t[1], n>> \notin kept /\ n < t[2]}) < new[t[1]]
       THEN "delay" ELSE "none"]

RenewMutant ==  \* a task that raised is not started again
  /\ current = Nobody
  /\ Ended # {}
  /\ task' = Created({t \in Tasks \ Ended : task[t] # "none"}, NewTasks({t \in Ended : task[t] = "done"}))
  /\ UNCHANGED <<pmonVars, cmds, current, csvVars>>
Renew ==
  /\ current = Nobody
  /\ Ended # {}
  /\ task' = Created({t \in Tasks \ Ended : task[t] # "none"}, NewTasks(Ended))
  /\ UNCHANGED <<pmonVars, cmds, current, csvVars>>

-----------------------------------------------------------------------------
Hardware == \E k \in Counters : Count(k) /\ UNCHANGED <<cmds, task, current, csvVars>>

Task(t) ==
  \/ Call(t) \/ PrintsNothing(t) \/ Raises(t) \/ ReadAndWrite(t)
  \/ StartMeasuring(t) \/ StartFails(t) \/ ReportBandwidth(t)
  \/ \E m \in MeasurementsOf(t[1]) :
       \/ MeasureMissing(t, m) \/ MeasureLow(t, m) \/ MeasureHigh(t, m) \/ Stop(t, m)
       \/ StoppedMissing(t, m) \/ StoppedLow(t, m) \/ StoppedHigh(t, m) \/ Restart(t, m)

Next == Hardware \/ Renew \/ \E t \in Tasks : Task(t)

Spec == Init /\ [][Next]_vars

(* The event loop takes its ready handles in their order, and sleeps end.  *)
FairSpec == Spec /\ WF_vars(Renew) /\ \A t \in Tasks : SF_vars(Task(t))

-----------------------------------------------------------------------------
(* Properties.                                                             *)

TypeOK ==
  /\ cmds \in Tables
  /\ cnt \in [Counters -> [value : 0 .. LowSize * HighSize - 1, en : BOOLEAN]]
  /\ meas \in [Measurements ->
       [at : {"none", "open", "stopped", "low", "done"}, low : 0 .. LowSize - 1,
        value : -1 .. LowSize * HighSize - 1, events : 0 .. MaxCount, first : 0 .. MaxCount,
        alone : BOOLEAN, reached : BOOLEAN]]
  /\ task \in [Tasks -> {"none", "delay", "called", "measuring", "frozen", "low", "read",
                         "done", "raised"}]
  /\ current = Nobody \/ (current \in Tasks /\ task[current] \in {"frozen", "low", "read"})
  /\ \A k \in Keys : Cardinality(filter[k]) <= 1 /\ Cardinality(printed[k]) <= 1
  /\ failed \in [Keys -> BOOLEAN]

(* However its tasks end, run() keeps one for every entry of the table, no *)
(* more, and calls every entry again and again (mem_inspector.py:116).     *)
Live(c) == {n \in Copies : task[<<c, n>>] # "none"}
Phase(c) ==
  IF Cardinality(Live(c)) # 1 THEN "broken"
  ELSE IF \E n \in Live(c) : task[<<c, n>>] = "delay" THEN "waiting" ELSE "running"
Service == INSTANCE MetricsService WITH phase <- [c \in Commands |-> Phase(c)]
Serves  == Service!Spec

(* What a measurement yields.  It is -1 if get() did not find the file,    *)
(* and nothing else is.  A number that was read is right if every write of *)
(* its own was made and no other command wrote the counter's configuration *)
(* in its window: for read_pmoncntr(), the events up to where it stopped   *)
(* the counter; for read_bw(), which does not stop it, those up to the     *)
(* first part of the read, and 2^32 more each time that the low part       *)
(* overflows before the second.                                            *)
Carries(m) == meas[m].events \div LowSize - meas[m].first \div LowSize
Exact(m, value) ==
  value = meas[m].first + (IF cmds[m[1]].op = "pmoncntr" THEN 0 ELSE Carries(m) * LowSize)
Truthful(m, value) ==
  IF meas[m].at = "low"
    THEN value # Missing /\ (meas[m].alone /\ meas[m].reached => Exact(m, value))
    ELSE value = Missing
CountsExact ==
  [][\A m \in Measurements :
       meas[m].at # "done" /\ meas'[m].at = "done" => Truthful(m, meas'[m].value)]_vars

(* The file has the latest values of every item in its last line of it,    *)
(* though equal lines are not repeated; but values whose line could not be *)
(* printed are missing for as long as they do not change                   *)
(* (mem_inspector.py:60 keeps them before it prints).                      *)
CsvCurrent == \A k \in Keys : ~failed[k] => printed[k] = latest[k]
=============================================================================
