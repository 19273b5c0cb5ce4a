------------------------------ MODULE MCMetrics ------------------------------
(***************************************************************************)
(* Tables for MetricsScheduler: the one of main(); two commands of which   *)
(* one is unknown and one always raises; and the commented-out read_bw,    *)
(* alone with both of its counters and with a pmoncntr on the same         *)
(* controller.                                                             *)
(***************************************************************************)
EXTENDS MetricsScheduler

Entry(op, items, counters) == [name |-> op, op |-> op, items |-> items, counters |-> counters]

Scheduled == <<
  Entry("read_hwmon_temp", <<"sensor1">>, {}),
  Entry("read_correrrcnt", <<"mc0", "mc1">>, {}) >>

Useless == <<
  Entry("unknown", <<>>, {}),
  Entry("pcicfg_dump", <<>>, {}) >>

\* Counter 0 counts reads, counter 1 writes.  Its lines are in Shared.
Bandwidth == <<
  Entry("read_bw", <<>>, {0, 1}),
  Entry("scrubaddress", <<>>, {}) >>

Shared == <<
  Entry("read_bw", <<"imc0">>, {0}),
  Entry("pmoncntr", <<>>, {0}) >>

AllTables == {Scheduled, Useless, Bandwidth, Shared}
AllMeasurements == {1, 2} \X {0, 1}
=============================================================================
