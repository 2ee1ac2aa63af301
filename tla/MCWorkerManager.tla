--------------------------- MODULE MCWorkerManager ---------------------------
(* The table the process begins with: a worker to start, and a row that is  *)
(* yet to be created.  Settings are only compared with those of the same    *)
(* row, so which one the worker begins with does not matter.                *)
EXTENDS WorkerManager, TLC

CONSTANTS c1, c2, a, x

MCOldTable ==
  {(c1 :> [is |-> "enabled", setting |-> [routing |-> a, extra |-> x]]
    @@ c2 :> [is |-> "absent", setting |-> None])}
==============================================================================
