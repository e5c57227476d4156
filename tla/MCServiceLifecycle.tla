------------------------ MODULE MCServiceLifecycle ------------------------
(* A consumer that acknowledges early and may recycle the process, and one *)
(* that acknowledges late and adds a dispatcher.  (No process of the       *)
(* system has both; together they cover the builder and the coordinator.)  *)
EXTENDS ServiceLifecycle

MCQueue == [m \in Msgs |-> IF m = "task" THEN "builder-task" ELSE "builder-reg"]
=============================================================================
