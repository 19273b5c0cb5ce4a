--------------------------- MODULE MetricsProofs ---------------------------
(***************************************************************************)
(* Theorems about mem_inspector's loop, its counters and its CSV lines,    *)
(* for every set of tables, any number of copies of a task that the loop   *)
(* could make, and counters of every width.                                *)
(***************************************************************************)
EXTENDS MetricsScheduler, FiniteSetTheorems, TLAPS

Phases == {"none", "delay", "called", "measuring", "frozen", "low", "read", "done", "raised"}
Mid    == {"frozen", "low", "read"}
-----------------------------------------------------------------------------
(* One task for every entry.                                               *)

OneTask == \A c \in Commands : \E n \in Copies : Live(c) = {n}

LEMMA CopiesFacts == IsFiniteSet(Copies) /\ 1 \in Copies /\ \A n \in Copies : n \in Nat /\ 1 <= n
BY CopiesAssumption, FS_Interval DEF Copies

LEMMA CardinalityFacts ==
  /\ Cardinality({}) = 0
  /\ \A x : Cardinality({x}) = 1
  /\ \A S : IsFiniteSet(S) => Cardinality(S) \in Nat /\ (Cardinality(S) < 1 <=> S = {})
<1>1. Cardinality({}) = 0 /\ \A x : Cardinality({x}) = 1
  BY FS_EmptySet, FS_Singleton
<1>2. ASSUME NEW S, IsFiniteSet(S)
      PROVE  Cardinality(S) \in Nat /\ (Cardinality(S) < 1 <=> S = {})
  <2>1. Cardinality(S) \in Nat /\ (Cardinality(S) = 0 <=> S = {})
    BY <1>2, FS_EmptySet, FS_CardinalityType
  <2>. QED
    BY <2>1
<1>. QED
  BY <1>1, <1>2

(* A task that goes on is the one task of its entry.                       *)
LEMMA GoesAlone ==
  ASSUME OneTask, task \in [Tasks -> Phases], NEW t \in Tasks, NEW from, NEW to \in Phases,
         Goes(t, from, to), from # "none", to # "none"
  PROVE  /\ Live(t[1]) = {t[2]}
         /\ t[1] \in Commands /\ t[2] \in Copies /\ t = <<t[1], t[2]>>
         /\ \A n \in Copies : n # t[2] => task[<<t[1], n>>] = "none"
         /\ \A c \in Commands, n \in Copies : c # t[1] => task'[<<c, n>>] = task[<<c, n>>]
         /\ \A n \in Copies : task'[<<t[1], n>>] = (IF n = t[2] THEN to ELSE "none")
         /\ OneTask'
<1>1. t[1] \in Commands /\ t[2] \in Copies /\ t = <<t[1], t[2]>> /\ task[t] # "none"
  BY DEF Tasks, Goes
<1>2. Live(t[1]) = {t[2]}
  BY <1>1 DEF OneTask, Live
<1>3. \A n \in Copies : n # t[2] => task[<<t[1], n>>] = "none"
  BY <1>2 DEF Live
<1>4. task' = [task EXCEPT ![t] = to]
  BY DEF Goes
<1>5. \A c \in Commands, n \in Copies : c # t[1] => task'[<<c, n>>] = task[<<c, n>>]
  BY <1>1, <1>4 DEF Tasks
<1>6. \A n \in Copies : task'[<<t[1], n>>] = (IF n = t[2] THEN to ELSE "none")
  <2>1. \A n \in Copies : <<t[1], n>> \in Tasks
    BY <1>1 DEF Tasks
  <2>. QED
    BY <1>1, <1>3, <1>4, <2>1
<1>7. OneTask'
  <2>1. \A n \in Copies : task'[<<t[1], n>>] # "none" <=> n = t[2]
    BY <1>6
  <2>2. Live(t[1])' = {t[2]}
    BY <1>1, <2>1 DEF Live
  <2>3. \A c \in Commands : c # t[1] => Live(c)' = Live(c)
    BY <1>5 DEF Live
  <2>. QED
    BY <1>1, <2>2, <2>3 DEF OneTask
<1>. QED
  BY <1>1, <1>2, <1>3, <1>5, <1>6, <1>7

(* Whatever has ended, the loop leaves one task of every entry: a new one  *)
(* for one that has ended, the others as they are.                         *)
LEMMA RenewOne ==
  ASSUME OneTask, cmds \in Tables, task \in [Tasks -> Phases], Renew
  PROVE  /\ OneTask'
         /\ task' \in [Tasks -> Phases]
         /\ \A c \in Commands, n \in Copies :
              task'[<<c, n>>] \notin {"none", "delay"} => task'[<<c, n>>] = task[<<c, n>>]
         /\ \A c \in Commands :
              \/ /\ Live(c)' = Live(c)
                 /\ \A n \in Live(c) : /\ task'[<<c, n>>] = task[<<c, n>>]
                                       /\ task[<<c, n>>] \notin {"done", "raised"}
              \/ /\ \E n \in Copies : Live(c)' = {n} /\ task'[<<c, n>>] = "delay"
                 /\ \E n \in Live(c) : task[<<c, n>>] \in {"done", "raised"}
<1>. DEFINE kept == {t \in Tasks \ Ended : task[t] # "none"}
            new  == NewTasks(Ended)
            free(c, j) == {n \in Copies : <<c, n>> \notin kept /\ n < j}
<1>1. task' = Created(kept, new)
  BY DEF Renew
<1>2. \A c \in Commands, j \in Copies : <<c, j>> \in Tasks /\ <<c, j>>[1] = c /\ <<c, j>>[2] = j
  BY DEF Tasks
<1>3. \A c \in Commands, j \in Copies :
        task'[<<c, j>>] = (IF <<c, j>> \in kept THEN task[<<c, j>>]
                           ELSE IF Cardinality(free(c, j)) < new[c] THEN "delay" ELSE "none")
  BY <1>1, <1>2 DEF Created
<1>4. \A c \in Commands, j \in Copies : Cardinality(free(c, j)) \in Nat
                                        /\ (Cardinality(free(c, j)) < 1 <=> free(c, j) = {})
  <2>1. ASSUME NEW c \in Commands, NEW j \in Copies
        PROVE  IsFiniteSet(free(c, j))
    <3>1. free(c, j) \subseteq Copies
      OBVIOUS
    <3>. QED
      BY <3>1, CopiesFacts, FS_Subset
  <2>. HIDE DEF free
  <2>. QED
    BY <2>1, CardinalityFacts
<1>5. ASSUME NEW c \in Commands
      PROVE  /\ \E n \in Copies : Live(c)' = {n}
             /\ \/ /\ Live(c)' = Live(c)
                   /\ \A n \in Live(c) : /\ task'[<<c, n>>] = task[<<c, n>>]
                                         /\ task[<<c, n>>] \notin {"done", "raised"}
                \/ /\ \E n \in Copies : Live(c)' = {n} /\ task'[<<c, n>>] = "delay"
                   /\ \E n \in Live(c) : task[<<c, n>>] \in {"done", "raised"}
  <2>1. PICK n \in Copies : Live(c) = {n}
    BY DEF OneTask
  <2>2. /\ task[<<c, n>>] # "none"
        /\ \A j \in Copies : j # n => task[<<c, j>>] = "none"
    BY <2>1 DEF Live
  <2>3. {t \in Ended : cmds[t[1]].name = cmds[c].name}
          = (IF <<c, n>> \in Ended THEN {<<c, n>>} ELSE {})
    <3>1. ASSUME NEW t \in Ended, cmds[t[1]].name = cmds[c].name
          PROVE  t = <<c, n>>
      <4>1. t[1] \in Commands /\ t[2] \in Copies /\ t = <<t[1], t[2]>>
        BY DEF Ended, Tasks
      <4>2. t[1] = c
        BY <3>1, <4>1, TablesAssumption
      <4>3. task[<<c, t[2]>>] # "none"
        BY <4>1, <4>2 DEF Ended
      <4>. QED
        BY <2>2, <4>1, <4>2, <4>3
    <3>2. <<c, n>>[1] = c
      OBVIOUS
    <3>. QED
      BY <3>1, <3>2
  <2>4. new[c] = (IF <<c, n>> \in Ended THEN 1 ELSE 0)
    BY <2>3, CardinalityFacts DEF NewTasks
  <2>5. \A j \in Copies : <<c, j>> \in kept <=> j = n /\ <<c, n>> \notin Ended
    BY <1>2, <2>2
  <2>6. CASE <<c, n>> \in Ended
    <3>1. \A i \in Copies : <<c, i>> \notin kept
      BY <2>5, <2>6
    <3>2. ASSUME NEW j \in Copies
          PROVE  free(c, j) = {} <=> j = 1
      <4>1. j # 1 => 1 < j
        BY CopiesFacts
      <4>2. j = 1 => \A i \in Copies : ~(i < j)
        BY CopiesFacts
      <4>3. 1 \in Copies
        BY CopiesFacts
      <4>. QED
        BY <3>1, <4>1, <4>2, <4>3
    <3>. HIDE DEF free, kept, new
    <3>3. \A j \in Copies : task'[<<c, j>>] = (IF j = 1 THEN "delay" ELSE "none")
      BY <1>3, <1>4, <2>4, <2>5, <2>6, <3>2
    <3>4. Live(c)' = {1} /\ task'[<<c, 1>>] = "delay"
      BY <3>3, CopiesFacts DEF Live
    <3>5. task[<<c, n>>] \in {"done", "raised"}
      BY <2>6 DEF Ended
    <3>. QED
      BY <2>1, <3>4, <3>5, CopiesFacts
  <2>7. CASE <<c, n>> \notin Ended
    <3>1. \A j \in Copies : task'[<<c, j>>] = (IF j = n THEN task[<<c, n>>] ELSE "none")
      <4>1. \A j \in Copies : ~(Cardinality(free(c, j)) < new[c])
        <5>. HIDE DEF free, kept, new
        <5>. QED
          BY <1>4, <2>4, <2>7
      <4>. HIDE DEF free, kept, new
      <4>. QED
        BY <1>3, <2>5, <2>7, <4>1
    <3>2. Live(c)' = {n}
      BY <2>2, <3>1 DEF Live
    <3>3. task[<<c, n>>] \notin {"done", "raised"}
      BY <1>2, <2>7 DEF Ended
    <3>. QED
      BY <2>1, <3>1, <3>2, <3>3
  <2>. QED
    BY <2>6, <2>7
<1>6. task' \in [Tasks -> Phases]
  BY <1>1 DEF Created, Phases
<1>7. \A c \in Commands, n \in Copies :
        task'[<<c, n>>] \notin {"none", "delay"} => task'[<<c, n>>] = task[<<c, n>>]
  BY <1>3
<1>. QED
  BY <1>5, <1>6, <1>7 DEF OneTask
-----------------------------------------------------------------------------
(* Types.                                                                  *)

Total       == LowSize * HighSize
Register    == [value : 0 .. Total - 1, en : BOOLEAN]
Measurement ==
  [at : {"none", "open", "stopped", "low", "done"}, low : 0 .. LowSize - 1,
   value : -1 .. Total - 1, events : 0 .. MaxCount, first : 0 .. MaxCount,
   alone : BOOLEAN, reached : BOOLEAN]
PmonTyped   == cnt \in [Counters -> Register] /\ meas \in [Measurements -> Measurement]

Small(S) == S = {} \/ \E x : S = {x}

(* As TypeOK, with one task for every entry, and without Cardinality.      *)
Types ==
  /\ cmds \in Tables
  /\ PmonTyped
  /\ task \in [Tasks -> Phases]
  /\ current = Nobody \/ (current \in Tasks /\ task[current] \in Mid)
  /\ \A k \in Keys : Small(filter[k]) /\ Small(printed[k])
  /\ failed \in [Keys -> BOOLEAN]
  /\ OneTask

LEMMA TypesSuffice == Types => TypeOK
<1>. SUFFICES ASSUME Types PROVE TypeOK
  OBVIOUS
<1>1. \A k \in Keys : Cardinality(filter[k]) <= 1 /\ Cardinality(printed[k]) <= 1
  <2>1. \A S : Small(S) => Cardinality(S) \in {0, 1}
    BY CardinalityFacts DEF Small
  <2>. QED
    BY <2>1 DEF Types
<1>. QED
  BY <1>1 DEF Types, TypeOK, Phases, Mid, PmonTyped, Register, Measurement, Total

LEMMA TotalFacts ==
  /\ Total \in Nat \ {0}
  /\ \A v \in Nat, low \in 0 .. LowSize - 1 :
       v < Total => (v \div LowSize) * LowSize + low \in 0 .. Total - 1
  /\ \A v \in Nat : v = (v \div LowSize) * LowSize + (v % LowSize) /\ v % LowSize \in 0 .. LowSize - 1
<1>1. Total \in Nat \ {0}
  BY SizeAssumption DEF Total
<1>2. ASSUME NEW v \in Nat
      PROVE  /\ v \div LowSize \in Nat
             /\ v = (v \div LowSize) * LowSize + (v % LowSize)
             /\ v % LowSize \in 0 .. LowSize - 1
  BY SizeAssumption
<1>3. ASSUME NEW v \in Nat, NEW low \in 0 .. LowSize - 1, v < Total
      PROVE  (v \div LowSize) * LowSize + low \in 0 .. Total - 1
  <2>. DEFINE q == v \div LowSize
  <2>1. q \in Nat /\ q * LowSize <= v /\ q * LowSize \in Nat
    BY <1>2, SizeAssumption
  <2>2. \A p \in Nat, l \in Nat, h \in Nat : p >= h => p * l >= l * h
    OBVIOUS
  <2>3. q < HighSize
    BY <1>3, <2>1, <2>2, SizeAssumption DEF Total
  <2>4. \A p \in Nat, l \in Nat, h \in Nat : p < h => p * l + l <= l * h
    OBVIOUS
  <2>5. q * LowSize + LowSize <= Total
    BY <2>1, <2>3, <2>4, SizeAssumption DEF Total
  <2>. HIDE DEF q
  <2>. QED
    BY <1>1, <2>1, <2>5, SizeAssumption DEF q
<1>. QED
  BY <1>1, <1>2, <1>3

LEMMA InitTypes == Init => Types
<1>. SUFFICES ASSUME Init PROVE Types
  OBVIOUS
<1>1. 0 \in 0 .. LowSize - 1 /\ 0 \in 0 .. Total - 1 /\ 0 \in 0 .. MaxCount
  BY SizeAssumption, TotalFacts
<1>2. PmonTyped
  BY <1>1 DEF Init, PmonInit, Unused, PmonTyped, Register, Measurement
<1>3. \A c \in Commands, n \in Copies :
        <<c, n>> \in Tasks /\ task[<<c, n>>] = (IF n = 1 THEN "delay" ELSE "none")
  BY DEF Init, Tasks
<1>4. OneTask
  BY <1>3, CopiesFacts DEF OneTask, Live
<1>5. task \in [Tasks -> Phases]
  BY DEF Init, Phases
<1>. QED
  BY <1>2, <1>4, <1>5 DEF Init, Types, Small

(* The measurements of a command are ones that the counters have.          *)
LEMMA OfCommand ==
  ASSUME cmds \in Tables, NEW c \in Commands
  PROVE  /\ MeasurementsOf(c) \subseteq Measurements
         /\ \A m \in Measurements : m[2] \in Counters
         /\ \A m \in MeasurementsOf(c) : m[1] = c /\ m[2] \in cmds[c].counters
BY TablesAssumption DEF MeasurementsOf, Counters

LEMMA UnusedTypes ==
  /\ Unused \in Measurement
  /\ \A b \in BOOLEAN : [Unused EXCEPT !.at = "open", !.reached = b] \in Measurement
  /\ \A v \in -1 .. Total - 1 : [Unused EXCEPT !.at = "done", !.value = v] \in Measurement
<1>1. 0 \in 0 .. LowSize - 1 /\ 0 \in -1 .. Total - 1 /\ 0 \in 0 .. MaxCount
  BY SizeAssumption, TotalFacts
<1>. QED
  BY <1>1 DEF Unused, Measurement

LEMMA DisturbTypes ==
  ASSUME PmonTyped, NEW S
  PROVE  Disturb(S) \in [Measurements -> Measurement]
<1>1. ASSUME NEW x \in Measurements, NEW b \in BOOLEAN
      PROVE  [meas[x] EXCEPT !.alone = b] \in Measurement
  BY DEF PmonTyped, Measurement
<1>2. \A x \in Measurements : (meas[x].alone /\ ~Disturbed(x, S)) \in BOOLEAN
  OBVIOUS
<1>. QED
  BY <1>1, <1>2, Zenon DEF Disturb

LEMMA ConfiguredTypes ==
  ASSUME PmonTyped, NEW W
  PROVE  /\ Configured(W, TRUE, TRUE) \in [Counters -> Register]
         /\ Configured(W, FALSE, FALSE) \in [Counters -> Register]
         /\ Configured(W, FALSE, TRUE) \in [Counters -> Register]
<1>1. \A r \in Register : /\ SetEvent(r, TRUE, TRUE) \in Register
                          /\ SetEvent(r, FALSE, FALSE) \in Register
                          /\ SetEvent(r, FALSE, TRUE) \in Register
  BY TotalFacts DEF SetEvent, Register
<1>. QED
  BY <1>1 DEF Configured, PmonTyped

(* A write for W leaves the other counters as they are.                    *)
LEMMA ConfiguredFacts ==
  ASSUME NEW W, NEW m \in Measurements
  PROVE  /\ m \in W =>
              /\ Configured(W, TRUE, TRUE)[m[2]] = SetEvent(cnt[m[2]], TRUE, TRUE)
              /\ Configured(W, FALSE, FALSE)[m[2]] = SetEvent(cnt[m[2]], FALSE, FALSE)
         /\ (\A x \in W : x[2] # m[2]) =>
              /\ Configured(W, TRUE, TRUE)[m[2]] = cnt[m[2]]
              /\ Configured(W, FALSE, FALSE)[m[2]] = cnt[m[2]]
              /\ Configured(W, FALSE, TRUE)[m[2]] = cnt[m[2]]
BY DEF Configured, Counters

LEMMA PmonSteps ==
  ASSUME PmonTyped, NEW M \in SUBSET Measurements, NEW m \in Measurements
  PROVE  /\ Open(M) \/ Freeze(m) \/ ReadMissing(m) \/ ReadLow(m) \/ ReadHigh(m) \/ Clear(m)
              => PmonTyped'
         /\ Drop(M) \in [Measurements -> Measurement]
         /\ Disturb(M) \in [Measurements -> Measurement]
         /\ \A k \in Counters : Count(k) => PmonTyped'
<1>1. 0 \in 0 .. LowSize - 1 /\ 0 \in 0 .. Total - 1 /\ 0 \in 0 .. MaxCount
  BY SizeAssumption, TotalFacts
<1>2. /\ Unused \in Measurement
      /\ \A b \in BOOLEAN : [Unused EXCEPT !.at = "open", !.reached = b] \in Measurement
  BY UnusedTypes
<1>3. \A S : /\ Configured(S, TRUE, TRUE) \in [Counters -> Register]
             /\ Configured(S, FALSE, FALSE) \in [Counters -> Register]
             /\ Configured(S, FALSE, TRUE) \in [Counters -> Register]
  BY ConfiguredTypes
<1>4. \A S : Disturb(S) \in [Measurements -> Measurement]
  BY DisturbTypes
<1>5. Drop(M) \in [Measurements -> Measurement]
  BY <1>2 DEF Drop, PmonTyped
<1>6. m[2] \in Counters
  BY DEF Counters
<1>7. ASSUME Open(M) PROVE PmonTyped'
  <2>1. PICK W \in SUBSET M :
          /\ cnt' = Configured(W, TRUE, TRUE)
          /\ meas' = [x \in Measurements |->
                       IF x \in M THEN [Unused EXCEPT !.at = "open", !.reached = x \in W] ELSE Disturb(W)[x]]
    BY <1>7 DEF Open
  <2>2. meas' \in [Measurements -> Measurement]
    <3>1. \A x \in Measurements : (x \in W) \in BOOLEAN
      OBVIOUS
    <3>2. \A x \in Measurements : [Unused EXCEPT !.at = "open", !.reached = x \in W] \in Measurement
      BY <1>2, <3>1, Zenon
    <3>. QED
      BY <1>4, <2>1, <3>2, Zenon
  <2>. QED
    BY <1>3, <2>1, <2>2 DEF PmonTyped
<1>8. ASSUME Freeze(m) PROVE PmonTyped'
  <2>1. PICK W \in SUBSET {m} : cnt' = Configured(W, FALSE, FALSE) /\ meas' = Stopped(m, W)
    BY <1>8 DEF Freeze
  <2>. DEFINE b == Disturb(W)[m].reached /\ m \in W
  <2>2. meas[m].events \in 0 .. MaxCount /\ Disturb(W)[m] \in Measurement /\ b \in BOOLEAN
    BY <1>4 DEF PmonTyped, Measurement
  <2>3. Stopped(m, W) = [Disturb(W) EXCEPT ![m] =
          [Disturb(W)[m] EXCEPT !.at = "stopped", !.first = meas[m].events, !.reached = b]]
    BY <1>4 DEF Stopped
  <2>. HIDE DEF b
  <2>4. [Disturb(W)[m] EXCEPT !.at = "stopped", !.first = meas[m].events, !.reached = b] \in Measurement
    BY <2>2 DEF Measurement
  <2>5. Stopped(m, W) \in [Measurements -> Measurement]
    BY <1>4, <2>3, <2>4
  <2>. QED
    BY <1>3, <2>1, <2>5 DEF PmonTyped
<1>9. ASSUME ReadLow(m) PROVE PmonTyped'
  <2>1. cnt[m[2]].value \in Nat
    BY <1>6 DEF PmonTyped, Register
  <2>2. cnt[m[2]].value % LowSize \in 0 .. LowSize - 1
    BY <2>1, TotalFacts
  <2>3. meas[m].events \in 0 .. MaxCount /\ meas[m].first \in 0 .. MaxCount
    BY DEF PmonTyped, Measurement
  <2>. DEFINE f == IF meas[m].at = "open" THEN meas[m].events ELSE meas[m].first
              r == [meas[m] EXCEPT !.at = "low", !.low = cnt[m[2]].value % LowSize, !.first = f]
  <2>4. f \in 0 .. MaxCount
    BY <2>3
  <2>5. r \in Measurement
    <3>. HIDE DEF f
    <3>. QED
      BY <2>2, <2>4 DEF PmonTyped, Measurement
  <2>6. meas' = [meas EXCEPT ![m] = r] /\ cnt' = cnt
    BY <1>9 DEF ReadLow, PmonTyped, Measurement
  <2>. HIDE DEF r
  <2>. QED
    BY <2>5, <2>6 DEF PmonTyped
<1>10. ASSUME ReadHigh(m) PROVE PmonTyped'
  <2>1. /\ cnt[m[2]].value \in Nat /\ cnt[m[2]].value < Total
        /\ meas[m].low \in 0 .. LowSize - 1
    <3>1. cnt[m[2]] \in Register /\ meas[m] \in Measurement
      BY <1>6 DEF PmonTyped
    <3>2. \A v \in 0 .. Total - 1 : v \in Nat /\ v < Total
      BY TotalFacts
    <3>. QED
      BY <3>1, <3>2 DEF Register, Measurement
  <2>2. (cnt[m[2]].value \div LowSize) * LowSize + meas[m].low \in 0 .. Total - 1
    BY <2>1, TotalFacts
  <2>3. meas' = [meas EXCEPT ![m] =
          [Unused EXCEPT !.at = "done", !.value = (cnt[m[2]].value \div LowSize) * LowSize + meas[m].low]]
    BY <1>10 DEF ReadHigh
  <2>4. \A v \in 0 .. Total - 1 : v \in -1 .. Total - 1
    BY TotalFacts
  <2>. QED
    BY <1>10, <2>2, <2>3, <2>4, UnusedTypes DEF ReadHigh, PmonTyped
<1>11. ASSUME Clear(m) PROVE PmonTyped'
  <2>1. PICK W : cnt' = Configured(W, FALSE, TRUE) /\ meas' = [Disturb(W) EXCEPT ![m] = Unused]
    BY <1>11 DEF Clear
  <2>2. meas' \in [Measurements -> Measurement]
    BY <1>2, <1>4, <2>1
  <2>. QED
    BY <1>3, <2>1, <2>2 DEF PmonTyped
<1>13. ASSUME ReadMissing(m) PROVE PmonTyped'
  <2>1. Missing \in -1 .. Total - 1
    BY TotalFacts DEF Missing
  <2>. QED
    BY <1>13, <2>1, UnusedTypes DEF ReadMissing, PmonTyped
<1>12. ASSUME NEW k \in Counters, Count(k) PROVE PmonTyped'
  <2>1. \A v \in Nat : (v + 1) % Total \in 0 .. Total - 1
    BY TotalFacts
  <2>2. cnt' \in [Counters -> Register]
    BY <1>12, <2>1 DEF Count, PmonTyped, Register, Total
  <2>3. ASSUME NEW x \in Measurements, x[2] = k, Window(x)
        PROVE  meas[x].events + 1 \in 0 .. MaxCount
    BY <1>12, <2>3, SizeAssumption DEF Count, PmonTyped, Measurement
  <2>4. meas' \in [Measurements -> Measurement]
    BY <1>12, <2>3 DEF Count, PmonTyped, Measurement
  <2>. QED
    BY <2>2, <2>4 DEF PmonTyped
<1>. QED
  BY <1>4, <1>5, <1>7, <1>8, <1>9, <1>10, <1>11, <1>12, <1>13

CsvTyped ==
  /\ \A k \in Keys : Small(filter[k]) /\ Small(printed[k])
  /\ failed \in [Keys -> BOOLEAN]

LEMMA GoesTypes ==
  ASSUME Types, NEW t \in Tasks, NEW from, NEW to \in Phases \ {"none"},
         Goes(t, from, to), from # "none"
  PROVE  /\ cmds' \in Tables /\ Keys' = Keys
         /\ task' \in [Tasks -> Phases]
         /\ current' = Nobody \/ (current' \in Tasks /\ task'[current'] \in Mid)
         /\ OneTask'
         /\ t[1] \in Commands /\ MeasurementsOf(t[1]) \subseteq Measurements
<1>1. OneTask' /\ t[1] \in Commands
  BY GoesAlone DEF Types
<1>2. MeasurementsOf(t[1]) \subseteq Measurements
  BY <1>1, OfCommand DEF Types
<1>3. UNCHANGED cmds /\ task' = [task EXCEPT ![t] = to]
  BY DEF Goes
<1>4. Keys' = Keys
  BY <1>3 DEF Keys, ItemSet, Items
<1>5. task' \in [Tasks -> Phases] /\ task'[t] = to
  BY <1>3 DEF Types
<1>6. current' = Nobody \/ (current' = t /\ to \in Mid)
  BY DEF Goes, Mid
<1>. QED
  BY <1>1, <1>2, <1>3, <1>4, <1>5, <1>6 DEF Types

LEMMA WriteTypes ==
  ASSUME CsvTyped, NEW c, NEW value, NEW n, NEW broken \in BOOLEAN,
         WriteMetric(c, value, n, broken), Keys' = Keys
  PROVE  CsvTyped'
<1>1. \A x : Small({x})
  BY DEF Small
<1>2. \A kept, v : Keep(kept, v) = {v}
  BY DEF Keep
<1>3. \A k \in Keys : Small(filter'[k])
  BY <1>1, <1>2 DEF WriteMetric, CsvTyped
<1>4. \A k \in Keys : Small(printed'[k])
  BY <1>1 DEF WriteMetric, CsvTyped
<1>5. PICK changed, unprinted :
        failed' = [k \in Keys |-> IF k \in changed THEN k \in unprinted ELSE failed[k]]
  BY Zenon DEF WriteMetric
<1>6. ASSUME NEW k \in Keys
      PROVE  (IF k \in changed THEN k \in unprinted ELSE failed[k]) \in BOOLEAN
  <2>1. failed[k] \in BOOLEAN
    BY DEF CsvTyped
  <2>2. CASE k \in changed
    <3>1. (k \in unprinted) \in BOOLEAN
      OBVIOUS
    <3>. QED
      BY <2>2, <3>1, Zenon
  <2>3. CASE k \notin changed
    BY <2>1, <2>3, Zenon
  <2>. QED
    BY <2>2, <2>3
<1>7. failed' \in [Keys -> BOOLEAN]
  BY <1>5, <1>6, Zenon
<1>. QED
  BY <1>3, <1>4, <1>7 DEF CsvTyped

LEMMA WrittenTypes ==
  ASSUME Types, NEW t \in Tasks, NEW from, from # "none", NEW value, Written(t, from, value)
  PROVE  /\ \E to \in {"done", "raised"} : Goes(t, from, to)
         /\ CsvTyped'
<1>1. PICK to \in {"done", "raised"} : Goes(t, from, to)
  BY DEF Written
<1>2. Keys' = Keys
  BY <1>1, GoesTypes DEF Phases
<1>3. \E n : \E broken \in BOOLEAN : WriteMetric(t[1], value, n, broken)
  BY Zenon DEF Written
<1>4. CsvTyped'
  BY <1>2, <1>3, WriteTypes DEF Types, CsvTyped
<1>. QED
  BY <1>1, <1>4

LEMMA TaskTypes ==
  ASSUME Types, NEW t \in Tasks, Task(t)
  PROVE  Types'
<1>. USE DEF Phases
<1>1. ASSUME NEW from \in Phases \ {"none"}, NEW to \in Phases \ {"none"}, Goes(t, from, to),
             PmonTyped', CsvTyped' \/ UNCHANGED csvVars
      PROVE  Types'
  BY <1>1, GoesTypes DEF Types, CsvTyped, csvVars
<1>2. \A from \in Phases \ {"none"}, to \in Phases \ {"none"} :
        Goes(t, from, to) => MeasurementsOf(t[1]) \subseteq Measurements
  BY GoesTypes
<1>3. PmonTyped
  BY DEF Types
<1>4. CASE Call(t) \/ PrintsNothing(t)
  BY <1>1, <1>3, <1>4 DEF Call, PrintsNothing, pmonVars, PmonTyped
<1>5. CASE Raises(t)
  <2>1. PICK from \in {"called", "measuring", "frozen", "low", "read"} : Goes(t, from, "raised")
    BY <1>5 DEF Raises
  <2>2. PmonTyped'
    <3>1. Counters' = Counters /\ Measurements' = Measurements
      BY DEF Counters
    <3>2. Drop(MeasurementsOf(t[1])) \in [Measurements -> Measurement]
      <4>1. Unused \in Measurement
        BY UnusedTypes
      <4>. QED
        BY <1>3, <4>1 DEF Drop, PmonTyped
    <3>. QED
      BY <1>3, <1>5, <3>2 DEF Raises, PmonTyped
  <2>. QED
    BY <1>1, <1>5, <2>1, <2>2 DEF Raises
<1>6. CASE ReadAndWrite(t)
  <2>1. PICK value \in Readings(t[1]) : Written(t, "called", value)
    BY <1>6 DEF ReadAndWrite
  <2>2. PmonTyped'
    BY <1>3, <1>6 DEF ReadAndWrite, pmonVars, PmonTyped
  <2>. QED
    BY <1>1, <2>1, <2>2, WrittenTypes
<1>7. CASE StartMeasuring(t)
  <2>1. Goes(t, "called", "measuring") /\ Open(MeasurementsOf(t[1])) /\ UNCHANGED csvVars
    BY <1>7 DEF StartMeasuring
  <2>2. PmonTyped'
    <3>1. MeasurementsOf(t[1]) \subseteq Measurements
      BY <1>2, <2>1
    <3>2. CASE Measurements = {}
      BY <1>3, <2>1, <3>1, <3>2 DEF Open, PmonTyped, Configured, Counters
    <3>3. CASE Measurements # {}
      BY <1>3, <2>1, <3>1, <3>3, PmonSteps
    <3>. QED
      BY <3>2, <3>3
  <2>. QED
    BY <1>1, <2>1, <2>2
<1>8. CASE StartFails(t)
  <2>1. PICK W \in SUBSET MeasurementsOf(t[1]) : cnt' = Configured(W, TRUE, TRUE) /\ meas' = Disturb(W)
    BY <1>8 DEF StartFails
  <2>2. PmonTyped'
    BY <1>3, <2>1, DisturbTypes, ConfiguredTypes DEF PmonTyped
  <2>. QED
    BY <1>1, <1>8, <2>2 DEF StartFails
<1>9. CASE ReportBandwidth(t)
  <2>1. PICK value \in Readings(t[1]) : Written(t, "measuring", value)
    BY <1>9 DEF ReportBandwidth
  <2>2. PmonTyped'
    <3>1. Unused \in Measurement
      BY UnusedTypes
    <3>. QED
      BY <1>3, <1>9, <3>1 DEF ReportBandwidth, Drop, PmonTyped
  <2>. QED
    BY <1>1, <2>1, <2>2, WrittenTypes
<1>10. ASSUME NEW m \in MeasurementsOf(t[1]),
              \/ MeasureMissing(t, m) \/ MeasureLow(t, m) \/ MeasureHigh(t, m) \/ Stop(t, m)
              \/ StoppedMissing(t, m) \/ StoppedLow(t, m) \/ StoppedHigh(t, m) \/ Restart(t, m)
       PROVE  Types'
  <2>1. PICK from \in Phases \ {"none"}, to \in Phases \ {"none"} : Goes(t, from, to)
    BY <1>10 DEF MeasureMissing, MeasureLow, MeasureHigh, Stop, StoppedMissing, StoppedLow,
                 StoppedHigh, Restart
  <2>2. /\ UNCHANGED csvVars
        /\ Freeze(m) \/ ReadMissing(m) \/ ReadLow(m) \/ ReadHigh(m) \/ Clear(m)
    BY <1>10 DEF MeasureMissing, MeasureLow, MeasureHigh, Stop, StoppedMissing, StoppedLow,
                 StoppedHigh, Restart
  <2>3. m \in Measurements
    BY <1>2, <1>10, <2>1
  <2>4. PmonTyped'
    BY <1>3, <2>2, <2>3, PmonSteps
  <2>. QED
    BY <1>1, <2>1, <2>2, <2>4
<1>. QED
  BY <1>4, <1>5, <1>6, <1>7, <1>8, <1>9, <1>10 DEF Task

LEMMA StepTypes == Types /\ [Next]_vars => Types'
<1>. SUFFICES ASSUME Types, [Next]_vars PROVE Types'
  OBVIOUS
<1>1. CASE Hardware
  <2>1. PICK k \in Counters : Count(k) /\ UNCHANGED <<cmds, task, current, csvVars>>
    BY <1>1 DEF Hardware
  <2>2. PmonTyped'
    <3>1. \E m : m \in Measurements
      BY DEF Counters
    <3>. QED
      BY <2>1, <3>1, PmonSteps DEF Types
  <2>. QED
    BY <2>1, <2>2 DEF Types, csvVars, OneTask, Live, Keys, ItemSet, Items
<1>2. CASE Renew
  <2>1. OneTask' /\ task' \in [Tasks -> Phases]
    BY <1>2, RenewOne DEF Types
  <2>. QED
    BY <1>2, <2>1 DEF Renew, Types, csvVars, pmonVars, PmonTyped, Keys, ItemSet, Items
<1>3. ASSUME NEW t \in Tasks, Task(t) PROVE Types'
  BY <1>3, TaskTypes
<1>4. CASE UNCHANGED vars
  BY <1>4 DEF vars, pmonVars, csvVars, Types, PmonTyped, OneTask, Live, Keys, ItemSet, Items
<1>. QED
  BY <1>1, <1>2, <1>3, <1>4 DEF Next

LEMMA TypesHold == Spec => []Types
BY InitTypes, StepTypes, PTL DEF Spec

(* The loop's table of tasks, the counters, the measurements and the CSV   *)
(* filter are well typed, and no counter's value outgrows its register.    *)
THEOREM TypeCorrect == Spec => []TypeOK
BY TypesHold, TypesSuffice, PTL
-----------------------------------------------------------------------------
(* What the loop promises, but for fairness.                               *)

LEMMA PhaseFacts ==
  ASSUME NEW c \in Commands, NEW n
  PROVE  /\ Live(c) = {n} =>
              Phase(c) = IF task[<<c, n>>] = "delay" THEN "waiting" ELSE "running"
         /\ Live(c)' = {n} =>
              Phase(c)' = IF task'[<<c, n>>] = "delay" THEN "waiting" ELSE "running"
<1>1. Cardinality({n}) = 1
  BY CardinalityFacts
<1>. QED
  BY <1>1 DEF Phase

LEMMA GoesServes ==
  ASSUME Types, NEW t \in Tasks, NEW from \in Phases \ {"none"},
         NEW to \in Phases \ {"none", "delay"}, Goes(t, from, to)
  PROVE  [Service!Next]_([c \in Commands |-> Phase(c)])
<1>1. /\ Live(t[1]) = {t[2]} /\ Live(t[1])' = {t[2]}
      /\ t[1] \in Commands /\ task[<<t[1], t[2]>>] = from /\ task'[<<t[1], t[2]>>] = to
  <2>1. /\ Live(t[1]) = {t[2]} /\ t[1] \in Commands /\ t[2] \in Copies
        /\ t = <<t[1], t[2]>>
        /\ \A n \in Copies : task'[<<t[1], n>>] = (IF n = t[2] THEN to ELSE "none")
    BY GoesAlone DEF Types
  <2>2. Live(t[1])' = {t[2]}
    BY <2>1 DEF Live
  <2>. QED
    BY <2>1, <2>2 DEF Goes
<1>2. /\ Phase(t[1]) = (IF from = "delay" THEN "waiting" ELSE "running")
      /\ Phase(t[1])' = "running"
  BY <1>1, PhaseFacts
<1>3. ASSUME NEW c \in Commands, c # t[1]
      PROVE  Phase(c)' = Phase(c)
  <2>1. \A n \in Copies : task'[<<c, n>>] = task[<<c, n>>]
    BY <1>3, GoesAlone DEF Types
  <2>. QED
    BY <2>1 DEF Phase, Live
<1>. QED
  BY <1>1, <1>2, <1>3 DEF Service!Next, Service!Begin

LEMMA RenewServes ==
  ASSUME Types, Renew
  PROVE  Service!Next
<1>. DEFINE C == {c \in Commands : \E n \in Live(c) : task[<<c, n>>] \in {"done", "raised"}}
<1>1. ASSUME NEW c \in Commands
      PROVE  IF c \in C THEN Phase(c) = "running" /\ Phase(c)' = "waiting"
                        ELSE Phase(c)' = Phase(c)
  <2>1. PICK n \in Copies : Live(c) = {n}
    BY DEF Types, OneTask
  <2>2. CASE c \in C
    <3>1. task[<<c, n>>] \in {"done", "raised"}
      BY <2>1, <2>2
    <3>2. PICK i \in Copies : Live(c)' = {i} /\ task'[<<c, i>>] = "delay"
      BY <2>1, <3>1, RenewOne DEF Types
    <3>. QED
      BY <2>1, <2>2, <3>1, <3>2, PhaseFacts
  <2>3. CASE c \notin C
    <3>1. Live(c)' = {n} /\ task'[<<c, n>>] = task[<<c, n>>]
      BY <2>1, <2>3, RenewOne DEF Types
    <3>. QED
      BY <2>1, <2>3, <3>1, PhaseFacts
  <2>. QED
    BY <2>2, <2>3
<1>2. C # {}
  <2>1. PICK t \in Tasks : task[t] \in {"done", "raised"}
    BY DEF Renew, Ended
  <2>2. t[1] \in Commands /\ t[2] \in Live(t[1]) /\ t = <<t[1], t[2]>>
    BY <2>1 DEF Tasks, Live
  <2>. QED
    BY <2>1, <2>2
<1>3. Service!End(C)
  <2>. HIDE DEF C
  <2>. QED
    BY <1>1 DEF Service!End, C
<1>4. C \in SUBSET Commands
  OBVIOUS
<1>. HIDE DEF C
<1>. QED
  BY <1>2, <1>3, <1>4 DEF Service!Next

LEMMA StepServes ==
  ASSUME Types, [Next]_vars
  PROVE  [Service!Next]_([c \in Commands |-> Phase(c)])
<1>1. CASE Hardware \/ UNCHANGED vars
  BY <1>1 DEF Hardware, vars, Phase, Live
<1>2. CASE Renew
  BY <1>2, RenewServes
<1>3. ASSUME NEW t \in Tasks, Task(t)
      PROVE  [Service!Next]_([c \in Commands |-> Phase(c)])
  <2>1. \E from \in Phases \ {"none"}, to \in Phases \ {"none", "delay"} : Goes(t, from, to)
    BY <1>3 DEF Task, Phases, Call, PrintsNothing, Raises, ReadAndWrite, StartMeasuring,
                StartFails, ReportBandwidth, Written, MeasureMissing, MeasureLow, MeasureHigh,
                Stop, StoppedMissing, StoppedLow, StoppedHigh, Restart
  <2>. QED
    BY <2>1, GoesServes
<1>. QED
  BY <1>1, <1>2, <1>3 DEF Next

(* However its tasks end, run() never has two tasks of an entry and never  *)
(* loses one: the phases of the entries take only the steps of             *)
(* MetricsService (mem_inspector.py:108-120).                              *)
THEOREM ServesSafely == Spec => Service!Init /\ [][Service!Next]_([c \in Commands |-> Phase(c)])
<1>1. Init => Service!Init
  <2>. SUFFICES ASSUME Init PROVE \A c \in Commands : Phase(c) = "waiting"
    BY DEF Service!Init
  <2>1. \A c \in Commands, n \in Copies :
          <<c, n>> \in Tasks /\ task[<<c, n>>] = (IF n = 1 THEN "delay" ELSE "none")
    BY DEF Init, Tasks
  <2>2. \A c \in Commands : Live(c) = {1}
    BY <2>1, CopiesFacts DEF Live
  <2>. QED
    BY <2>1, <2>2, CopiesFacts, PhaseFacts
<1>2. Types /\ [Next]_vars => [Service!Next]_([c \in Commands |-> Phase(c)])
  BY StepServes
<1>. QED
  BY <1>1, <1>2, TypesHold, PTL DEF Spec
-----------------------------------------------------------------------------
(* The CSV file.                                                           *)

CsvInv ==
  \A k \in Keys : filter[k] = latest[k] /\ (~failed[k] => printed[k] = filter[k])

LEMMA WriteCurrent ==
  ASSUME CsvTyped, CsvInv, NEW c, NEW value, NEW n, NEW broken \in BOOLEAN,
         WriteMetric(c, value, n, broken), Keys' = Keys
  PROVE  CsvInv'
<1>. DEFINE written   == {<<c, Items(c)[i]>> : i \in 1 .. n}
            changed   == {k \in written : Differs(k, value[k[2]])}
            unprinted == {k \in changed : broken /\ k[2] = Items(c)[n]}
<1>1. ASSUME NEW k \in Keys
      PROVE  /\ filter'[k] = IF k \in changed THEN {value[k[2]]} ELSE filter[k]
             /\ latest'[k] = IF k \in written THEN {value[k[2]]} ELSE latest[k]
             /\ printed'[k] = IF k \in changed \ unprinted THEN {value[k[2]]} ELSE printed[k]
  BY DEF WriteMetric, Keep
<1>2. ASSUME NEW k \in Keys
      PROVE  /\ k \in changed => (failed'[k] <=> k \in unprinted)
             /\ k \notin changed => (failed'[k] <=> failed[k])
  <2>1. failed' = [x \in Keys |-> IF x \in changed THEN x \in unprinted ELSE failed[x]]
    BY Zenon DEF WriteMetric
  <2>. HIDE DEF changed, unprinted
  <2>2. failed'[k] = (IF k \in changed THEN k \in unprinted ELSE failed[k])
    BY <2>1, Zenon
  <2>3. CASE k \in changed
    BY <2>2, <2>3, Zenon
  <2>4. CASE k \notin changed
    BY <2>2, <2>4, Zenon
  <2>. QED
    BY <2>3, <2>4
<1>3. \A k \in written : k \notin changed => filter[k] = {value[k[2]]}
  BY DEF Differs
<1>4. changed \subseteq written
  OBVIOUS
<1>5. ASSUME NEW k \in Keys
      PROVE  filter'[k] = latest'[k] /\ (~failed'[k] => printed'[k] = filter'[k])
  <2>. HIDE DEF written, changed, unprinted
  <2>1. filter[k] = latest[k] /\ (~failed[k] => printed[k] = filter[k])
    BY DEF CsvInv
  <2>. QED
    BY <1>1, <1>2, <1>3, <1>4, <2>1
<1>. QED
  BY <1>5 DEF CsvInv

LEMMA StepCsv ==
  ASSUME Types, CsvInv, [Next]_vars
  PROVE  CsvInv'
<1>1. CASE \/ Hardware \/ Renew \/ UNCHANGED vars
  BY <1>1 DEF Hardware, Renew, vars, csvVars, CsvInv, Keys, ItemSet, Items
<1>2. ASSUME NEW t \in Tasks, Task(t)
      PROVE  CsvInv'
  <2>1. \E from \in Phases \ {"none"}, to \in Phases \ {"none"} : Goes(t, from, to)
    BY <1>2 DEF Task, Phases, Call, PrintsNothing, Raises, ReadAndWrite, StartMeasuring,
                StartFails, ReportBandwidth, Written, MeasureMissing, MeasureLow, MeasureHigh,
                Stop, StoppedMissing, StoppedLow, StoppedHigh, Restart
  <2>2. Keys' = Keys
    BY <2>1, GoesTypes
  <2>3. CASE UNCHANGED csvVars
    BY <2>2, <2>3 DEF csvVars, CsvInv
  <2>4. CASE ReadAndWrite(t) \/ ReportBandwidth(t)
    <3>1. \E value, n : \E broken \in BOOLEAN : WriteMetric(t[1], value, n, broken)
      BY <2>4, Zenon DEF ReadAndWrite, ReportBandwidth, Written
    <3>. QED
      BY <2>2, <3>1, WriteCurrent DEF Types, CsvTyped
  <2>5. UNCHANGED csvVars \/ ReadAndWrite(t) \/ ReportBandwidth(t)
    BY <1>2 DEF Task, Call, PrintsNothing, Raises, StartMeasuring, StartFails, MeasureMissing,
                MeasureLow, MeasureHigh, Stop, StoppedMissing, StoppedLow, StoppedHigh, Restart
  <2>. QED
    BY <2>3, <2>4, <2>5
<1>. QED
  BY <1>1, <1>2 DEF Next

(* Leaving out equal lines loses nothing: the last line of an item has its *)
(* latest values, except while the print of those very values has failed.  *)
THEOREM CsvHolds == Spec => []CsvCurrent
<1>1. Init => CsvInv
  BY DEF Init, CsvInv
<1>2. Types /\ CsvInv /\ [Next]_vars => CsvInv'
  BY StepCsv
<1>3. CsvInv => CsvCurrent
  BY DEF CsvInv, CsvCurrent
<1>. QED
  BY <1>1, <1>2, <1>3, TypesHold, PTL DEF Spec
-----------------------------------------------------------------------------
(* The counters.  First, where a measurement's window can be open.         *)

At(c, p) == \E n \in Copies : task[<<c, n>>] = p

(* Only while the task of its command is at the place that goes with it.   *)
InPlace(m) ==
  Window(m) =>
    /\ m[1] \in Commands /\ m \in MeasurementsOf(m[1])
    /\ \/ /\ cmds[m[1]].op = "read_bw"
          /\ meas[m].at \in {"open", "low"} /\ (At(m[1], "measuring") \/ At(m[1], "low"))
       \/ /\ cmds[m[1]].op = "pmoncntr"
          /\ \/ meas[m].at = "open" /\ At(m[1], "measuring")
             \/ meas[m].at = "stopped" /\ At(m[1], "frozen")
             \/ meas[m].at = "low" /\ At(m[1], "low")
AllOpen(c) ==
  cmds[c].op = "pmoncntr" /\ At(c, "measuring") =>
    \A m \in MeasurementsOf(c) : meas[m].at = "open"
Places == (\A m \in Measurements : InPlace(m)) /\ (\A c \in Commands : AllOpen(c))

LEMMA GoesPlaces ==
  ASSUME Types, NEW t \in Tasks, NEW from \in Phases \ {"none"}, NEW to \in Phases \ {"none"},
         Goes(t, from, to)
  PROVE  /\ t[1] \in Commands /\ MeasurementsOf(t[1]) \subseteq Measurements
         /\ \A m \in MeasurementsOf(t[1]) : m[1] = t[1]
         /\ UNCHANGED cmds
         /\ \A c : MeasurementsOf(c)' = MeasurementsOf(c)
         /\ \A c \in Commands, p \in Phases : c # t[1] => At(c, p)' = At(c, p)
         /\ \A p \in Phases \ {"none"} : At(t[1], p) <=> p = from
         /\ \A p \in Phases \ {"none"} : At(t[1], p)' <=> p = to
<1>1. UNCHANGED cmds
  BY DEF Goes
<1>2. /\ t[1] \in Commands /\ t[2] \in Copies /\ t = <<t[1], t[2]>>
      /\ \A n \in Copies : n # t[2] => task[<<t[1], n>>] = "none"
      /\ \A c \in Commands, n \in Copies : c # t[1] => task'[<<c, n>>] = task[<<c, n>>]
      /\ \A n \in Copies : task'[<<t[1], n>>] = (IF n = t[2] THEN to ELSE "none")
  BY GoesAlone DEF Types
<1>3. task[<<t[1], t[2]>>] = from
  BY <1>2 DEF Goes
<1>4. MeasurementsOf(t[1]) \subseteq Measurements /\ \A m \in MeasurementsOf(t[1]) : m[1] = t[1]
  BY <1>2, OfCommand DEF Types
<1>5. \A c : MeasurementsOf(c)' = MeasurementsOf(c)
  BY <1>1 DEF MeasurementsOf
<1>6. \A c \in Commands, p \in Phases : c # t[1] => At(c, p)' = At(c, p)
  BY <1>2 DEF At
<1>7. \A p \in Phases \ {"none"} : At(t[1], p) <=> p = from
  BY <1>2, <1>3 DEF At
<1>8. \A p \in Phases \ {"none"} : At(t[1], p)' <=> p = to
  BY <1>2 DEF At
<1>. QED
  BY <1>1, <1>2, <1>4, <1>5, <1>6, <1>7, <1>8

(* A task leaves the windows of other commands where they are; what is to  *)
(* be shown is where its own are.                                          *)
LEMMA OwnPlaces ==
  ASSUME Types, Places, NEW t \in Tasks,
         NEW from \in Phases \ {"none"}, NEW to \in Phases \ {"none"}, Goes(t, from, to),
         \A m \in Measurements \ MeasurementsOf(t[1]) : meas'[m].at = meas[m].at,
         \A m \in MeasurementsOf(t[1]) : InPlace(m)',
         AllOpen(t[1])'
  PROVE  Places'
<1>. USE GoesPlaces
<1>1. ASSUME NEW m \in Measurements PROVE InPlace(m)'
  <2>1. CASE m \in MeasurementsOf(t[1])
    BY <2>1
  <2>2. CASE m \notin MeasurementsOf(t[1])
    <3>1. meas'[m].at = meas[m].at /\ InPlace(m)
      BY <2>2 DEF Places
    <3>2. Window(m) => m[1] \in Commands /\ m[1] # t[1]
      BY <2>2, <3>1 DEF InPlace
    <3>3. m[1] \in Commands /\ m[1] # t[1] =>
            /\ At(m[1], "measuring")' = At(m[1], "measuring")
            /\ At(m[1], "frozen")' = At(m[1], "frozen")
            /\ At(m[1], "low")' = At(m[1], "low")
      BY DEF Phases
    <3>. QED
      BY <3>1, <3>2, <3>3 DEF InPlace, Window
  <2>. QED
    BY <2>1, <2>2
<1>2. ASSUME NEW c \in Commands PROVE AllOpen(c)'
  <2>1. CASE c = t[1]
    BY <2>1
  <2>2. CASE c # t[1]
    <3>1. At(c, "measuring")' = At(c, "measuring") /\ AllOpen(c)
      BY <2>2 DEF Places, Phases
    <3>2. \A m \in MeasurementsOf(c) : m \in Measurements /\ m[1] = c
      BY OfCommand DEF Types
    <3>3. \A m \in MeasurementsOf(c) : meas'[m].at = meas[m].at
      BY <2>2, <3>2
    <3>. QED
      BY <3>1, <3>3 DEF AllOpen
  <2>. QED
    BY <2>1, <2>2
<1>. QED
  BY <1>1, <1>2 DEF Places

(* What the actions on counters do to where measurements are.              *)
LEMMA PmonPlaces ==
  ASSUME PmonTyped, NEW M \in SUBSET Measurements, NEW m \in Measurements
  PROVE  /\ meas' = Drop(M) =>
              /\ \A x \in M : meas'[x].at = "none"
              /\ \A x \in Measurements \ M : meas'[x].at = meas[x].at
         /\ meas' = Disturb(M) => \A x \in Measurements : meas'[x].at = meas[x].at
         /\ Open(M) =>
              /\ \A x \in M : meas'[x].at = "open"
              /\ \A x \in Measurements \ M : meas'[x].at = meas[x].at
         /\ Freeze(m) =>
              /\ meas'[m].at = "stopped"
              /\ \A x \in Measurements \ {m} : meas'[x].at = meas[x].at
         /\ ReadMissing(m) =>
              /\ meas[m].at \in {"open", "stopped"} /\ meas'[m].at = "done"
              /\ \A x \in Measurements \ {m} : meas'[x] = meas[x]
         /\ ReadLow(m) =>
              /\ meas[m].at \in {"open", "stopped"} /\ meas'[m].at = "low"
              /\ \A x \in Measurements \ {m} : meas'[x] = meas[x]
         /\ ReadHigh(m) =>
              /\ meas[m].at = "low" /\ meas'[m].at = "done"
              /\ \A x \in Measurements \ {m} : meas'[x] = meas[x]
         /\ Clear(m) =>
              /\ meas'[m].at = "none"
              /\ \A x \in Measurements \ {m} : meas'[x].at = meas[x].at
<1>1. \A S : \A x \in Measurements : Disturb(S)[x].at = meas[x].at
  BY DEF Disturb, PmonTyped, Measurement
<1>2. \A S : Disturb(S) = [x \in Measurements |-> Disturb(S)[x]]
  BY DEF Disturb
<1>3. meas' = Drop(M) => /\ \A x \in M : meas'[x].at = "none"
                         /\ \A x \in Measurements \ M : meas'[x].at = meas[x].at
  BY DEF Drop, Unused
<1>4. Open(M) => /\ \A x \in M : meas'[x].at = "open"
                 /\ \A x \in Measurements \ M : meas'[x].at = meas[x].at
  <2>. SUFFICES ASSUME Open(M)
                PROVE  /\ \A x \in M : meas'[x].at = "open"
                       /\ \A x \in Measurements \ M : meas'[x].at = meas[x].at
    OBVIOUS
  <2>1. PICK W \in SUBSET M :
          meas' = [x \in Measurements |->
                   IF x \in M THEN [Unused EXCEPT !.at = "open", !.reached = x \in W] ELSE Disturb(W)[x]]
    BY DEF Open
  <2>2. \A b : [Unused EXCEPT !.at = "open", !.reached = b].at = "open"
    BY DEF Unused
  <2>3. \A x \in M : meas'[x].at = "open"
    BY <2>1, <2>2, Zenon
  <2>. QED
    BY <1>1, <2>1, <2>3
<1>5. Freeze(m) => /\ meas'[m].at = "stopped"
                   /\ \A x \in Measurements \ {m} : meas'[x].at = meas[x].at
  <2>. SUFFICES ASSUME Freeze(m)
                PROVE  /\ meas'[m].at = "stopped"
                       /\ \A x \in Measurements \ {m} : meas'[x].at = meas[x].at
    OBVIOUS
  <2>1. PICK W : meas' = Stopped(m, W)
    BY DEF Freeze
  <2>2. Disturb(W) \in [Measurements -> Measurement]
    BY DisturbTypes
  <2>3. /\ Stopped(m, W)[m].at = "stopped"
        /\ \A x \in Measurements \ {m} : Stopped(m, W)[x] = Disturb(W)[x]
    BY <2>2 DEF Stopped, Measurement
  <2>. QED
    BY <1>1, <2>1, <2>3
<1>6. ReadLow(m) => /\ meas[m].at \in {"open", "stopped"} /\ meas'[m].at = "low"
                    /\ \A x \in Measurements \ {m} : meas'[x] = meas[x]
  BY DEF ReadLow, PmonTyped, Measurement
<1>7. ReadHigh(m) => /\ meas[m].at = "low" /\ meas'[m].at = "done"
                     /\ \A x \in Measurements \ {m} : meas'[x] = meas[x]
  BY DEF ReadHigh, PmonTyped, Unused
<1>8. Clear(m) => /\ meas'[m].at = "none"
                  /\ \A x \in Measurements \ {m} : meas'[x].at = meas[x].at
  BY <1>1, <1>2 DEF Clear, Unused
<1>9. ReadMissing(m) => /\ meas[m].at \in {"open", "stopped"} /\ meas'[m].at = "done"
                        /\ \A x \in Measurements \ {m} : meas'[x] = meas[x]
  BY DEF ReadMissing, PmonTyped, Unused
<1>. QED
  BY <1>1, <1>3, <1>4, <1>5, <1>6, <1>7, <1>8, <1>9

LEMMA TaskPlaces ==
  ASSUME Types, Places, NEW t \in Tasks, Task(t)
  PROVE  Places'
<1>. DEFINE c == t[1]
<1>. USE DEF Phases
<1>1. ASSUME NEW from \in Phases \ {"none"}, NEW to \in Phases \ {"none", "measuring"},
             Goes(t, from, to),
             \A m \in Measurements \ MeasurementsOf(c) : meas'[m].at = meas[m].at,
             \A m \in MeasurementsOf(c) : ~Window(m)'
      PROVE  Places'
  <2>1. AllOpen(c)' /\ \A m \in MeasurementsOf(c) : InPlace(m)'
    BY <1>1, GoesPlaces DEF AllOpen, InPlace
  <2>. QED
    BY <1>1, <2>1, OwnPlaces
<1>2. ASSUME NEW from \in {"delay", "called"}, NEW to \in Phases \ {"none"}, Goes(t, from, to)
      PROVE  \A m \in MeasurementsOf(c) : ~Window(m)
  BY <1>2, GoesPlaces DEF Places, InPlace
<1>3. c \in Commands /\ PmonTyped /\ cmds \in Tables
  BY DEF Types, Tasks
<1>4. MeasurementsOf(c) \subseteq Measurements /\ \A m \in MeasurementsOf(c) : m[1] = c
  BY <1>3, OfCommand
<1>5. ASSUME cmds[c].op = "pmoncntr", NEW m \in MeasurementsOf(c)
      PROVE  MeasurementsOf(c) = {m}
  <2>1. PICK k \in cmds[c].counters : cmds[c].counters = {k}
    BY <1>3, <1>5, TablesAssumption
  <2>. QED
    BY <1>5, <2>1 DEF MeasurementsOf
<1>6. CASE Call(t) \/ PrintsNothing(t) \/ ReadAndWrite(t)
  <2>1. UNCHANGED meas /\ \E from \in {"delay", "called"}, to \in {"called", "done", "raised"} :
                            Goes(t, from, to)
    BY <1>6 DEF Call, PrintsNothing, ReadAndWrite, Written, pmonVars
  <2>2. \A m \in MeasurementsOf(c) : ~Window(m)'
    BY <1>2, <2>1 DEF Window
  <2>. QED
    BY <1>1, <2>1, <2>2
<1>7. CASE Raises(t) \/ ReportBandwidth(t)
  <2>1. /\ meas' = Drop(MeasurementsOf(c))
        /\ \E from \in Phases \ {"none"}, to \in {"done", "raised"} : Goes(t, from, to)
    BY <1>7 DEF Raises, ReportBandwidth, Written
  <2>2. \A m \in Measurements \ MeasurementsOf(c) : meas'[m].at = meas[m].at
    BY <1>3, <1>4, <2>1, PmonPlaces DEF Drop
  <2>3. \A m \in MeasurementsOf(c) : ~Window(m)'
    BY <1>4, <2>1 DEF Drop, Unused, Window
  <2>. QED
    BY <1>1, <2>1, <2>2, <2>3
<1>8. CASE StartMeasuring(t)
  <2>1. /\ Goes(t, "called", "measuring") /\ cmds[c].op \in {"read_bw", "pmoncntr"}
        /\ Open(MeasurementsOf(c))
    BY <1>8 DEF StartMeasuring, Op
  <2>2. ASSUME NEW m \in Measurements \ MeasurementsOf(c) PROVE meas'[m].at = meas[m].at
    BY <1>3, <1>4, <2>1, PmonPlaces
  <2>3. \A m \in MeasurementsOf(c) : meas'[m].at = "open"
    BY <1>4, <2>1 DEF Open, Unused
  <2>4. At(c, "measuring")' /\ UNCHANGED cmds /\ MeasurementsOf(c)' = MeasurementsOf(c)
    BY <2>1, GoesPlaces
  <2>5. AllOpen(c)' /\ \A m \in MeasurementsOf(c) : InPlace(m)'
    BY <1>3, <1>4, <2>1, <2>3, <2>4 DEF AllOpen, InPlace
  <2>. QED
    BY <2>1, <2>2, <2>5, OwnPlaces
<1>9. CASE StartFails(t)
  <2>1. Goes(t, "called", "raised") /\ \E M : meas' = Disturb(M)
    BY <1>9 DEF StartFails
  <2>2. \A m \in Measurements : meas'[m].at = meas[m].at
    BY <1>3, <2>1 DEF Disturb, PmonTyped, Measurement
  <2>3. \A m \in MeasurementsOf(c) : ~Window(m)'
    BY <1>2, <1>4, <2>1, <2>2 DEF Window
  <2>. QED
    BY <1>1, <2>1, <2>2, <2>3
<1>10. ASSUME NEW m \in MeasurementsOf(c),
              MeasureMissing(t, m) \/ MeasureLow(t, m) \/ MeasureHigh(t, m)
       PROVE  Places'
  <2>1. /\ cmds[c].op = "read_bw"
        /\ \/ Goes(t, "measuring", "low") /\ ReadLow(m)
           \/ Goes(t, "low", "measuring") /\ ReadHigh(m)
           \/ Goes(t, "measuring", "measuring") /\ ReadMissing(m)
    BY <1>10 DEF MeasureMissing, MeasureLow, MeasureHigh, Op
  <2>2. PICK from \in {"measuring", "low"}, to \in {"measuring", "low"} : Goes(t, from, to)
    BY <2>1
  <2>3. /\ \A x \in Measurements \ {m} : meas'[x] = meas[x]
        /\ meas'[m].at \in {"low", "done"}
    BY <1>3, <1>4, <2>1, PmonPlaces
  <2>4. /\ UNCHANGED cmds /\ MeasurementsOf(c)' = MeasurementsOf(c)
        /\ At(c, "measuring")' \/ At(c, "low")'
    BY <2>2, GoesPlaces
  <2>5. ASSUME NEW x \in MeasurementsOf(c) PROVE InPlace(x)'
    <3>1. Window(x) => meas[x].at \in {"open", "low"}
      BY <1>4, <2>1 DEF Places, InPlace
    <3>2. Window(x)' => meas'[x].at \in {"open", "low"}
      BY <1>4, <2>3, <3>1 DEF Window
    <3>. QED
      BY <1>3, <1>4, <2>1, <2>4, <3>2 DEF InPlace
  <2>6. AllOpen(c)'
    BY <2>1, <2>4 DEF AllOpen
  <2>7. \A x \in Measurements \ MeasurementsOf(c) : meas'[x].at = meas[x].at
    BY <1>10, <2>3
  <2>. QED
    BY <2>2, <2>5, <2>6, <2>7, OwnPlaces
<1>11. ASSUME NEW m \in MeasurementsOf(c), Stop(t, m) \/ StoppedLow(t, m)
       PROVE  Places'
  <2>1. /\ cmds[c].op = "pmoncntr"
        /\ \/ Goes(t, "measuring", "frozen") /\ Freeze(m)
           \/ Goes(t, "frozen", "low") /\ ReadLow(m)
    BY <1>11 DEF Stop, StoppedLow, Op
  <2>2. /\ \A x \in Measurements \ {m} : meas'[x].at = meas[x].at
        /\ \/ Goes(t, "measuring", "frozen") /\ meas'[m].at = "stopped"
           \/ Goes(t, "frozen", "low") /\ meas'[m].at = "low"
    BY <1>3, <1>4, <2>1, PmonPlaces
  <2>3. /\ UNCHANGED cmds /\ MeasurementsOf(c)' = MeasurementsOf(c)
        /\ ~At(c, "measuring")'
        /\ \/ At(c, "frozen")' /\ meas'[m].at = "stopped"
           \/ At(c, "low")' /\ meas'[m].at = "low"
    BY <2>2, GoesPlaces
  <2>4. AllOpen(c)' /\ \A x \in MeasurementsOf(c) : InPlace(x)'
    BY <1>3, <1>4, <1>5, <2>1, <2>3 DEF AllOpen, InPlace
  <2>5. \A x \in Measurements \ MeasurementsOf(c) : meas'[x].at = meas[x].at
    BY <1>11, <2>2
  <2>. QED
    BY <2>2, <2>4, <2>5, OwnPlaces
<1>12. ASSUME NEW m \in MeasurementsOf(c),
              StoppedMissing(t, m) \/ StoppedHigh(t, m) \/ Restart(t, m)
       PROVE  Places'
  <2>1. /\ cmds[c].op = "pmoncntr"
        /\ \/ Goes(t, "frozen", "read") /\ ReadMissing(m)
           \/ Goes(t, "low", "read") /\ ReadHigh(m)
           \/ Goes(t, "read", "done") /\ Clear(m)
    BY <1>12 DEF StoppedMissing, StoppedHigh, Restart, Op
  <2>2. /\ \A x \in Measurements \ {m} : meas'[x].at = meas[x].at
        /\ meas'[m].at \in {"done", "none"}
    BY <1>3, <1>4, <2>1, PmonPlaces
  <2>3. \A x \in MeasurementsOf(c) : ~Window(x)'
    BY <1>5, <1>12, <2>1, <2>2 DEF Window
  <2>4. \A x \in Measurements \ MeasurementsOf(c) : meas'[x].at = meas[x].at
    BY <1>12, <2>2
  <2>. QED
    BY <1>1, <2>1, <2>3, <2>4
<1>. QED
  BY <1>6, <1>7, <1>8, <1>9, <1>10, <1>11, <1>12 DEF Task

LEMMA StepPlaces == Types /\ Places /\ [Next]_vars => Places'
<1>. SUFFICES ASSUME Types, Places, [Next]_vars PROVE Places'
  OBVIOUS
<1>1. CASE Hardware \/ UNCHANGED vars
  <2>1. /\ UNCHANGED <<cmds, task>>
        /\ \A m \in Measurements : meas'[m].at = meas[m].at
    BY <1>1 DEF Hardware, Count, vars, pmonVars, Types, PmonTyped, Measurement
  <2>2. \A c \in Commands : MeasurementsOf(c)' = MeasurementsOf(c)
                            /\ MeasurementsOf(c) \subseteq Measurements
    BY <2>1, OfCommand DEF MeasurementsOf, Types
  <2>. QED
    BY <2>1, <2>2 DEF Places, InPlace, AllOpen, At, Window
<1>2. CASE Renew
  <2>1. UNCHANGED <<cmds, meas>>
    BY <1>2 DEF Renew, pmonVars
  <2>2. ASSUME NEW c \in Commands, NEW p \in {"measuring", "frozen", "low"}
        PROVE  At(c, p)' <=> At(c, p)
    <3>1. ASSUME At(c, p)' PROVE At(c, p)
      BY <1>2, <3>1, RenewOne DEF At, Types
    <3>2. ASSUME At(c, p) PROVE At(c, p)'
      <4>1. PICK n \in Copies : task[<<c, n>>] = p
        BY <3>2 DEF At
      <4>2. Live(c) = {n}
        BY <4>1 DEF Types, OneTask, Live
      <4>3. task'[<<c, n>>] = p
        BY <1>2, <4>1, <4>2, RenewOne DEF Types
      <4>. QED
        BY <4>3 DEF At
    <3>. QED
      BY <3>1, <3>2
  <2>. QED
    BY <2>1, <2>2 DEF Places, InPlace, AllOpen, Window, MeasurementsOf
<1>3. ASSUME NEW t \in Tasks, Task(t) PROVE Places'
  BY <1>3, TaskPlaces
<1>. QED
  BY <1>1, <1>2, <1>3 DEF Next
-----------------------------------------------------------------------------
(* What the counters hold.                                                 *)

IsStopped(m) == cmds[m[1]].op = "pmoncntr" /\ meas[m].at \in {"stopped", "low"}

(* A counter that every write of its own has reached, and nobody else has  *)
(* written since, has the events of the window, or those up to where it    *)
(* was stopped; a low part that has been read is that of the events        *)
(* counted then.                                                           *)
Right(m) ==
  Window(m) /\ meas[m].alone /\ meas[m].reached =>
    /\ IF IsStopped(m) THEN ~cnt[m[2]].en /\ cnt[m[2]].value = meas[m].first
                       ELSE cnt[m[2]].en /\ cnt[m[2]].value = meas[m].events
    /\ meas[m].at \in {"stopped", "low"} => meas[m].first <= meas[m].events
    /\ meas[m].at = "low" => meas[m].low = meas[m].first % LowSize
AllRight == \A m \in Measurements : Right(m)

LEMMA DisturbFacts ==
  ASSUME PmonTyped, NEW M, NEW m \in Measurements
  PROVE  /\ Disturb(M)[m].at = meas[m].at
         /\ Disturb(M)[m].low = meas[m].low
         /\ Disturb(M)[m].events = meas[m].events
         /\ Disturb(M)[m].first = meas[m].first
         /\ Disturb(M)[m].reached = meas[m].reached
         /\ Disturb(M)[m].alone => meas[m].alone /\ ~Disturbed(m, M)
         /\ Disturb(M) = [x \in Measurements |-> Disturb(M)[x]]
<1>1. Disturb(M)[m] = [meas[m] EXCEPT !.alone = meas[m].alone /\ ~Disturbed(m, M)]
  BY DEF Disturb
<1>2. meas[m] \in Measurement
  BY DEF PmonTyped
<1>3. Disturb(M)[m].alone = (meas[m].alone /\ ~Disturbed(m, M))
  <2>. HIDE DEF Disturbed
  <2>. QED
    BY <1>1, <1>2 DEF Measurement
<1>4. Disturb(M) = [x \in Measurements |-> Disturb(M)[x]]
  BY DEF Disturb
<1>. QED
  BY <1>1, <1>2, <1>3, <1>4 DEF Measurement

(* A window of another measurement is right, or no longer alone.           *)
LEMMA OthersRight ==
  ASSUME PmonTyped, UNCHANGED cmds, NEW M, NEW m \in Measurements, m \notin M, Right(m),
         meas'[m] = Disturb(M)[m],
         (\A x \in M : x[2] # m[2]) => cnt'[m[2]] = cnt[m[2]]
  PROVE  Right(m)'
<1>. SUFFICES ASSUME Window(m)', meas'[m].alone, meas'[m].reached PROVE Right(m)'
  BY DEF Right
<1>1. Window(m) /\ meas[m].alone /\ meas[m].reached /\ ~Disturbed(m, M)
  BY DisturbFacts DEF Window
<1>2. cnt'[m[2]] = cnt[m[2]]
  BY <1>1 DEF Disturbed
<1>3. IsStopped(m)' <=> IsStopped(m)
  BY DisturbFacts DEF IsStopped
<1>. QED
  BY <1>1, <1>2, <1>3, DisturbFacts DEF Right

LEMMA CountRight ==
  ASSUME PmonTyped, UNCHANGED cmds, NEW k \in Counters, Count(k), NEW m \in Measurements, Right(m)
  PROVE  Right(m)'
<1>1. meas[m] \in Measurement /\ m[2] \in Counters /\ cnt[m[2]] \in Register
  BY DEF PmonTyped, Counters
<1>2. CASE m[2] # k \/ ~Window(m)
  <2>1. meas'[m] = meas[m] /\ (Window(m) => cnt'[m[2]] = cnt[m[2]])
    BY <1>1, <1>2 DEF Count, PmonTyped
  <2>. QED
    BY <2>1 DEF Right, Window, IsStopped
<1>3. CASE m[2] = k /\ Window(m)
  <2>1. meas'[m] = [meas[m] EXCEPT !.events = meas[m].events + 1]
    BY <1>3 DEF Count
  <2>2. /\ meas'[m].at = meas[m].at /\ meas'[m].low = meas[m].low
        /\ meas'[m].first = meas[m].first /\ meas'[m].alone = meas[m].alone
        /\ meas'[m].reached = meas[m].reached
        /\ meas'[m].events = meas[m].events + 1
    BY <1>1, <2>1 DEF Measurement
  <2>3. /\ cnt'[k].en = cnt[k].en
        /\ cnt'[k].value = (IF cnt[k].en THEN (cnt[k].value + 1) % Total ELSE cnt[k].value)
    BY <1>1, <1>3 DEF Count, PmonTyped, Register, Total
  <2>4. meas[m].events < MaxCount /\ MaxCount < Total
    BY <1>3, SizeAssumption DEF Count, Total
  <2>5. (meas[m].events + 1) % Total = meas[m].events + 1
    <3>1. \A n \in Nat, d \in Nat : n < d => n % d = n
      OBVIOUS
    <3>2. Total \in Nat
      BY TotalFacts
    <3>3. meas[m].events + 1 \in Nat /\ meas[m].events + 1 < Total
      BY <1>1, <2>4, <3>2, SizeAssumption DEF Measurement
    <3>. QED
      BY <3>1, <3>2, <3>3
  <2>6. /\ (Window(m)' <=> Window(m)) /\ (IsStopped(m)' <=> IsStopped(m))
    BY <2>2 DEF Window, IsStopped
  <2>7. meas[m].first \in Nat /\ meas[m].events \in Nat
    BY <1>1, SizeAssumption DEF Measurement
  <2>. QED
    BY <1>3, <2>2, <2>3, <2>5, <2>6, <2>7 DEF Right
<1>. QED
  BY <1>2, <1>3

LEMMA TaskRight ==
  ASSUME Types, Places, AllRight, NEW t \in Tasks, Task(t), NEW m \in Measurements
  PROVE  Right(m)'
<1>. DEFINE c == t[1]
<1>. USE DEF Phases
<1>1. /\ c \in Commands /\ PmonTyped /\ cmds \in Tables /\ Right(m) /\ InPlace(m)
      /\ meas[m] \in Measurement /\ m[2] \in Counters /\ cnt[m[2]] \in Register
  BY DEF Types, Tasks, PmonTyped, AllRight, Places, Counters
<1>2. MeasurementsOf(c) \subseteq Measurements /\ \A x \in MeasurementsOf(c) : x[1] = c
  BY <1>1, OfCommand
<1>3. CASE UNCHANGED meas /\ UNCHANGED cnt /\ UNCHANGED cmds
  BY <1>1, <1>3 DEF Right, Window, IsStopped
<1>4. CASE Call(t) \/ PrintsNothing(t) \/ ReadAndWrite(t)
  BY <1>3, <1>4 DEF Call, PrintsNothing, ReadAndWrite, Written, Goes, pmonVars
<1>5. CASE Raises(t) \/ ReportBandwidth(t)
  <2>1. meas' = Drop(MeasurementsOf(c)) /\ UNCHANGED cnt /\ UNCHANGED cmds
    BY <1>5 DEF Raises, ReportBandwidth, Written, Goes
  <2>2. CASE m \in MeasurementsOf(c)
    BY <2>1, <2>2 DEF Drop, Unused, Right, Window
  <2>3. CASE m \notin MeasurementsOf(c)
    BY <1>1, <2>1, <2>3 DEF Drop, Right, Window, IsStopped
  <2>. QED
    BY <2>2, <2>3
<1>6. CASE StartMeasuring(t)
  <2>1. Open(MeasurementsOf(c)) /\ UNCHANGED cmds
    BY <1>6 DEF StartMeasuring, Goes
  <2>2. PICK W \in SUBSET MeasurementsOf(c) :
          /\ cnt' = Configured(W, TRUE, TRUE)
          /\ meas' = [x \in Measurements |->
                       IF x \in MeasurementsOf(c)
                         THEN [Unused EXCEPT !.at = "open", !.reached = x \in W] ELSE Disturb(W)[x]]
    BY <2>1 DEF Open
  <2>3. CASE m \in W
    <3>1. meas'[m] = [Unused EXCEPT !.at = "open", !.reached = m \in W]
      BY <2>2, <2>3
    <3>2. cnt'[m[2]] = SetEvent(cnt[m[2]], TRUE, TRUE)
      BY <2>2, <2>3, ConfiguredFacts
    <3>. QED
      BY <3>1, <3>2 DEF Right, Window, IsStopped, Unused, SetEvent
  <2>4. CASE m \in MeasurementsOf(c) \ W
    <3>1. meas'[m] = [Unused EXCEPT !.at = "open", !.reached = m \in W]
      BY <2>2, <2>4
    <3>2. ~meas'[m].reached
      BY <2>4, <3>1 DEF Unused
    <3>. QED
      BY <3>2 DEF Right
  <2>5. CASE m \notin MeasurementsOf(c)
    <3>1. meas'[m] = Disturb(W)[m] /\ m \notin W
      BY <2>2, <2>5
    <3>2. (\A x \in W : x[2] # m[2]) => cnt'[m[2]] = cnt[m[2]]
      BY <2>2, ConfiguredFacts
    <3>. QED
      BY <1>1, <2>1, <3>1, <3>2, OthersRight
  <2>. QED
    BY <2>3, <2>4, <2>5
<1>7. CASE StartFails(t)
  <2>1. PICK M \in SUBSET MeasurementsOf(c) : cnt' = Configured(M, TRUE, TRUE) /\ meas' = Disturb(M)
    BY <1>7 DEF StartFails
  <2>2. Goes(t, "called", "raised") /\ UNCHANGED cmds
    BY <1>7 DEF StartFails, Goes
  <2>3. CASE m \in M
    <3>1. ~Window(m)
      BY <1>1, <1>2, <2>2, <2>3, GoesPlaces DEF InPlace
    <3>2. ~Window(m)'
      BY <1>1, <2>1, <3>1, DisturbFacts DEF Window
    <3>. QED
      BY <3>2 DEF Right
  <2>4. CASE m \notin M
    <3>1. (\A x \in M : x[2] # m[2]) => cnt'[m[2]] = cnt[m[2]]
      BY <2>1, ConfiguredFacts
    <3>. QED
      BY <1>1, <2>1, <2>2, <2>4, <3>1, OthersRight
  <2>. QED
    BY <2>3, <2>4
<1>8. ASSUME NEW x \in MeasurementsOf(c), MeasureLow(t, x) \/ StoppedLow(t, x)
      PROVE  Right(m)'
  <2>1. ReadLow(x) /\ UNCHANGED cmds
    BY <1>8 DEF MeasureLow, StoppedLow, Goes
  <2>2. CASE m # x
    <3>1. meas'[m] = meas[m] /\ UNCHANGED cnt
      BY <1>1, <1>2, <2>1, <2>2 DEF ReadLow, PmonTyped
    <3>. QED
      BY <1>1, <2>1, <3>1 DEF Right, Window, IsStopped
  <2>3. CASE m = x
    <3>1. /\ meas'[m].at = "low" /\ meas[m].at \in {"open", "stopped"}
          /\ meas'[m].low = cnt[m[2]].value % LowSize
          /\ meas'[m].first = (IF meas[m].at = "open" THEN meas[m].events ELSE meas[m].first)
          /\ meas'[m].events = meas[m].events /\ meas'[m].alone = meas[m].alone
          /\ meas'[m].reached = meas[m].reached
          /\ UNCHANGED cnt
      BY <1>1, <2>1, <2>3 DEF ReadLow, PmonTyped, Measurement
    <3>2. \/ MeasureLow(t, x) /\ cmds[c].op = "read_bw" /\ meas[m].at = "open"
          \/ StoppedLow(t, x) /\ cmds[c].op = "pmoncntr" /\ meas[m].at = "stopped"
      <4>1. Window(m) /\ m[1] = c
        BY <1>2, <1>8, <2>3, <3>1 DEF Window
      <4>2. CASE MeasureLow(t, x)
        BY <1>1, <3>1, <4>1, <4>2 DEF MeasureLow, Op, InPlace
      <4>3. CASE StoppedLow(t, x)
        <5>1. Goes(t, "frozen", "low") /\ cmds[c].op = "pmoncntr"
          BY <4>3 DEF StoppedLow, Op
        <5>2. ~At(c, "measuring")
          BY <5>1, GoesPlaces
        <5>. QED
          BY <1>1, <3>1, <4>1, <4>3, <5>1, <5>2 DEF InPlace
      <4>. QED
        BY <1>8, <4>2, <4>3
    <3>3. meas[m].alone /\ meas[m].reached =>
            cnt[m[2]].value = meas'[m].first /\ meas'[m].first <= meas[m].events
      <4>1. m[1] = c /\ meas[m].events \in Nat /\ meas[m].first \in Nat
        BY <1>1, <1>2, <1>8, <2>3, SizeAssumption DEF Measurement
      <4>. QED
        BY <1>1, <3>1, <3>2, <4>1 DEF Right, Window, IsStopped
    <3>4. IsStopped(m)' <=> cmds[c].op = "pmoncntr"
      BY <1>2, <1>8, <2>1, <2>3, <3>1 DEF IsStopped
    <3>. QED
      BY <1>1, <1>2, <1>8, <2>3, <3>1, <3>2, <3>3, <3>4 DEF Right, Window, IsStopped
  <2>. QED
    BY <2>2, <2>3
<1>9. ASSUME NEW x \in MeasurementsOf(c),
             \/ MeasureHigh(t, x) \/ StoppedHigh(t, x)
             \/ MeasureMissing(t, x) \/ StoppedMissing(t, x)
      PROVE  Right(m)'
  <2>1. (ReadHigh(x) \/ ReadMissing(x)) /\ UNCHANGED cmds
    BY <1>9 DEF MeasureHigh, StoppedHigh, MeasureMissing, StoppedMissing, Goes
  <2>2. CASE m # x
    <3>1. meas'[m] = meas[m] /\ UNCHANGED cnt
      BY <1>1, <1>2, <2>1, <2>2 DEF ReadHigh, ReadMissing, PmonTyped
    <3>. QED
      BY <1>1, <2>1, <3>1 DEF Right, Window, IsStopped
  <2>3. CASE m = x
    <3>1. meas'[m].at = "done"
      BY <1>1, <2>1, <2>3 DEF ReadHigh, ReadMissing, PmonTyped, Unused
    <3>. QED
      BY <3>1 DEF Right, Window
  <2>. QED
    BY <2>2, <2>3
<1>10. ASSUME NEW x \in MeasurementsOf(c), Stop(t, x) \/ Restart(t, x)
       PROVE  Right(m)'
  <2>1. UNCHANGED cmds /\ x \in Measurements
    BY <1>2, <1>10 DEF Stop, Restart, Goes
  <2>2. PICK W \in SUBSET {x} :
          \/ /\ Stop(t, x) /\ cnt' = Configured(W, FALSE, FALSE) /\ meas' = Stopped(x, W)
          \/ /\ Restart(t, x) /\ cnt' = Configured(W, FALSE, TRUE)
             /\ meas' = [Disturb(W) EXCEPT ![x] = Unused]
    BY <1>10 DEF Stop, Restart, Freeze, Clear
  <2>3. Disturb(W) = [y \in Measurements |-> Disturb(W)[y]]
    BY DEF Disturb
  <2>4. CASE m # x
    <3>1. meas'[m] = Disturb(W)[m] /\ m \notin W
      BY <2>1, <2>2, <2>3, <2>4 DEF Stopped
    <3>2. (\A y \in W : y[2] # m[2]) => cnt'[m[2]] = cnt[m[2]]
      <4>1. cnt' = Configured(W, FALSE, FALSE) \/ cnt' = Configured(W, FALSE, TRUE)
        BY <2>2
      <4>. QED
        BY <4>1, ConfiguredFacts, Zenon
    <3>. QED
      BY <1>1, <2>1, <3>1, <3>2, OthersRight
  <2>5. CASE m = x /\ meas' = [Disturb(W) EXCEPT ![x] = Unused]
    <3>1. meas'[m].at = "none"
      BY <1>1, <2>3, <2>5 DEF Unused
    <3>. QED
      BY <3>1 DEF Right, Window
  <2>6. CASE /\ m = x /\ Stop(t, x) /\ cnt' = Configured(W, FALSE, FALSE)
             /\ meas' = Stopped(x, W)
    <3>1. Goes(t, "measuring", "frozen") /\ cmds[c].op = "pmoncntr"
      BY <2>6 DEF Stop, Op
    <3>2. meas[m].at = "open"
      <4>1. At(c, "measuring")
        BY <3>1, GoesPlaces
      <4>. QED
        BY <1>1, <1>10, <2>6, <3>1, <4>1 DEF Places, AllOpen
    <3>3. /\ meas'[m].at = "stopped" /\ meas'[m].first = meas[m].events
          /\ meas'[m].events = meas[m].events
          /\ meas'[m].alone => meas[m].alone
          /\ meas'[m].reached => meas[m].reached /\ m \in W
      <4>. DEFINE b == Disturb(W)[m].reached /\ m \in W
      <4>1. meas'[m] = [Disturb(W)[m] EXCEPT !.at = "stopped", !.first = meas[m].events,
                                             !.reached = b]
        BY <2>3, <2>6 DEF Stopped
      <4>2. Disturb(W)[m] \in Measurement
        BY <1>1, DisturbTypes
      <4>. HIDE DEF b
      <4>3. /\ meas'[m].at = "stopped" /\ meas'[m].first = meas[m].events
            /\ meas'[m].events = Disturb(W)[m].events
            /\ meas'[m].alone = Disturb(W)[m].alone
            /\ meas'[m].reached = b
        BY <4>1, <4>2 DEF Measurement
      <4>. QED
        BY <1>1, <4>3, DisturbFacts DEF b
    <3>4. m \in W => cnt'[m[2]] = [value |-> cnt[m[2]].value, en |-> FALSE]
      BY <1>1, <2>6, ConfiguredFacts DEF SetEvent
    <3>5. meas[m].alone /\ meas[m].reached => cnt[m[2]].value = meas[m].events
      BY <1>1, <3>2 DEF Right, Window, IsStopped
    <3>6. IsStopped(m)'
      BY <1>2, <1>10, <2>1, <2>6, <3>1, <3>3 DEF IsStopped
    <3>7. meas[m].events \in Nat
      BY <1>1, SizeAssumption DEF Measurement
    <3>. QED
      BY <3>3, <3>4, <3>5, <3>6, <3>7 DEF Right
  <2>. QED
    BY <2>2, <2>4, <2>5, <2>6
<1>. QED
  BY <1>4, <1>5, <1>6, <1>7, <1>8, <1>9, <1>10 DEF Task

LEMMA StepValues == Types /\ Places /\ AllRight /\ [Next]_vars => AllRight'
<1>. SUFFICES ASSUME Types, Places, AllRight, [Next]_vars, NEW m \in Measurements
              PROVE  Right(m)'
  BY DEF AllRight
<1>1. CASE Hardware
  <2>1. PICK k \in Counters : Count(k) /\ UNCHANGED cmds
    BY <1>1 DEF Hardware
  <2>. QED
    BY <2>1, CountRight DEF Types, AllRight
<1>2. CASE Renew \/ UNCHANGED vars
  BY <1>2 DEF Renew, vars, pmonVars, AllRight, Right, Window, IsStopped
<1>3. ASSUME NEW t \in Tasks, Task(t) PROVE Right(m)'
  BY <1>3, TaskRight
<1>. QED
  BY <1>1, <1>2, <1>3 DEF Next

LEMMA StepCounts ==
  ASSUME Types, Types', Places, AllRight, [Next]_vars, NEW m \in Measurements,
         meas[m].at # "done", meas'[m].at = "done"
  PROVE  Truthful(m, meas'[m].value)
<1>1. Right(m) /\ InPlace(m) /\ PmonTyped
  BY DEF AllRight, Places, Types
<1>2. ReadHigh(m) \/ ReadMissing(m)
  <2>1. ~(\A x \in Measurements : meas'[x].at = meas[x].at)
    OBVIOUS
  <2>2. CASE Hardware \/ Renew \/ UNCHANGED vars
    BY <1>1, <2>1, <2>2 DEF Hardware, Count, Renew, vars, pmonVars, PmonTyped, Measurement
  <2>3. ASSUME NEW t \in Tasks, Task(t) PROVE ReadHigh(m) \/ ReadMissing(m)
    <3>1. t[1] \in Commands /\ MeasurementsOf(t[1]) \subseteq Measurements
      BY OfCommand DEF Types, Tasks
    <3>2. CASE \/ Call(t) \/ PrintsNothing(t) \/ Raises(t) \/ ReadAndWrite(t)
               \/ StartMeasuring(t) \/ StartFails(t) \/ ReportBandwidth(t)
      <4>1. \/ UNCHANGED meas \/ meas' = Drop(MeasurementsOf(t[1]))
            \/ Open(MeasurementsOf(t[1])) \/ \E M : meas' = Disturb(M)
        BY <3>2, Zenon
           DEF Call, PrintsNothing, Raises, ReadAndWrite, StartMeasuring, StartFails,
               ReportBandwidth, pmonVars
      <4>2. \A M : Disturb(M)[m].at = meas[m].at
        BY <1>1, DisturbFacts
      <4>3. meas'[m].at = meas[m].at \/ meas'[m].at \in {"none", "open"}
        <5>1. CASE meas' = Drop(MeasurementsOf(t[1]))
          BY <5>1 DEF Drop, Unused
        <5>2. CASE Open(MeasurementsOf(t[1]))
          BY <1>1, <3>1, <5>2, PmonPlaces
        <5>3. CASE \E M : meas' = Disturb(M)
          BY <4>2, <5>3
        <5>. QED
          BY <4>1, <5>1, <5>2, <5>3
      <4>. QED
        BY <4>3
    <3>3. ASSUME NEW x \in MeasurementsOf(t[1]),
                 \/ MeasureMissing(t, x) \/ MeasureLow(t, x) \/ MeasureHigh(t, x) \/ Stop(t, x)
                 \/ StoppedMissing(t, x) \/ StoppedLow(t, x) \/ StoppedHigh(t, x) \/ Restart(t, x)
          PROVE  ReadHigh(m) \/ ReadMissing(m)
      <4>1. /\ x \in Measurements
            /\ ReadMissing(x) \/ ReadLow(x) \/ ReadHigh(x) \/ Freeze(x) \/ Clear(x)
        BY <3>1, <3>3
           DEF MeasureMissing, MeasureLow, MeasureHigh, Stop, StoppedMissing, StoppedLow,
               StoppedHigh, Restart
      <4>2. x = m /\ (ReadHigh(x) \/ ReadMissing(x))
        BY <1>1, <4>1, PmonPlaces
      <4>. QED
        BY <4>2
    <3>. QED
      BY <2>3, <3>2, <3>3 DEF Task
  <2>. QED
    BY <2>2, <2>3 DEF Next
<1>3. /\ meas[m] \in Measurement /\ m[2] \in Counters /\ cnt[m[2]] \in Register
      /\ meas[m].first \in Nat /\ meas[m].events \in Nat
  <2>1. meas[m] \in Measurement /\ m[2] \in Counters
    BY <1>1 DEF PmonTyped, Counters
  <2>2. meas[m].first \in Nat /\ meas[m].events \in Nat
    BY <2>1, SizeAssumption DEF Measurement
  <2>. QED
    BY <1>1, <2>1, <2>2 DEF PmonTyped
<1>4. CASE ReadMissing(m)
  <2>1. meas[m].at # "low" /\ meas'[m].value = Missing
    BY <1>1, <1>4 DEF ReadMissing, PmonTyped, Unused
  <2>. QED
    BY <2>1 DEF Truthful
<1>5. CASE ReadHigh(m)
  <2>. DEFINE f == meas[m].first
              e == meas[m].events
              v == cnt[m[2]].value
  <2>1. /\ meas[m].at = "low"
        /\ meas'[m].value = (v \div LowSize) * LowSize + meas[m].low
    BY <1>1, <1>5 DEF ReadHigh, PmonTyped, Unused
  <2>2. meas'[m].value # Missing
    <3>1. v \in Nat /\ v < Total /\ meas[m].low \in 0 .. LowSize - 1
      <4>1. \A n \in 0 .. Total - 1 : n \in Nat /\ n < Total
        BY TotalFacts
      <4>. QED
        BY <1>3, <4>1 DEF Register, Measurement
    <3>2. meas'[m].value \in 0 .. Total - 1
      BY <2>1, <3>1, TotalFacts
    <3>. QED
      BY <3>2, TotalFacts DEF Missing
  <2>3. ASSUME meas[m].alone, meas[m].reached PROVE Exact(m, meas'[m].value)
    <3>1. meas[m].low = f % LowSize
      BY <1>1, <2>1, <2>3 DEF Right, Window
    <3>2. f = (f \div LowSize) * LowSize + (f % LowSize)
      BY <1>3, TotalFacts
    <3>3. CASE cmds[m[1]].op = "pmoncntr"
      <4>1. v = f
        BY <1>1, <2>1, <2>3, <3>3 DEF Right, IsStopped, Window
      <4>2. meas'[m].value = f
        BY <2>1, <3>1, <3>2, <4>1
      <4>. QED
        BY <1>3, <3>3, <4>2 DEF Exact
    <3>4. CASE cmds[m[1]].op # "pmoncntr"
      <4>1. v = e
        BY <1>1, <2>1, <2>3, <3>4 DEF Right, IsStopped, Window
      <4>2. \A p, q, r, l \in Int : p * l + r = (q * l + r) + (p - q) * l
        OBVIOUS
      <4>3. f \div LowSize \in Int /\ e \div LowSize \in Int /\ f % LowSize \in Int /\ LowSize \in Int
        BY <1>3, SizeAssumption
      <4>4. (e \div LowSize) * LowSize + (f % LowSize)
              = ((f \div LowSize) * LowSize + (f % LowSize))
                  + ((e \div LowSize) - (f \div LowSize)) * LowSize
        <5>. HIDE DEF e, f
        <5>. QED
          BY <4>2, <4>3
      <4>. QED
        BY <2>1, <3>1, <3>2, <3>4, <4>1, <4>4 DEF Exact, Carries
    <3>. QED
      BY <3>3, <3>4
  <2>. QED
    BY <2>1, <2>2, <2>3 DEF Truthful
<1>. QED
  BY <1>2, <1>4, <1>5

(* For registers of any width: what a measurement yields is -1 if the file *)
(* was not found and otherwise never is; then read_pmoncntr() yields the   *)
(* events up to where it stopped the counter, and read_bw() those at its   *)
(* first read, and the size of the low part more for each time that this   *)
(* overflows before the second, whatever the counters of other commands    *)
(* do, unless a write of its own was not made or another command wrote the *)
(* configuration of this counter in its window.                            *)
THEOREM CountsHold == Spec => CountsExact
<1>1. Init => Places /\ AllRight
  <2>. SUFFICES ASSUME Init PROVE Places /\ AllRight
    OBVIOUS
  <2>1. \A m \in Measurements : ~Window(m)
    BY DEF Init, PmonInit, Window, Unused
  <2>2. \A c \in Commands, n \in Copies : <<c, n>> \in Tasks /\ task[<<c, n>>] # "measuring"
    BY DEF Init, Tasks
  <2>3. \A c \in Commands : ~At(c, "measuring")
    BY <2>2 DEF At
  <2>. QED
    BY <2>1, <2>3 DEF Places, InPlace, AllOpen, AllRight, Right
<1>2. Types /\ Places /\ [Next]_vars => Places'
  BY StepPlaces
<1>3. Types /\ Places /\ AllRight /\ [Next]_vars => AllRight'
  BY StepValues
<1>4. Types /\ Types' /\ Places /\ AllRight /\ [Next]_vars =>
        [\A m \in Measurements :
           meas[m].at # "done" /\ meas'[m].at = "done"
             => Truthful(m, meas'[m].value)]_vars
  BY StepCounts
<1>. QED
  BY <1>1, <1>2, <1>3, <1>4, TypesHold, PTL DEF Spec, CountsExact
=============================================================================
