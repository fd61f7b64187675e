----------------------------- MODULE MCWorkerJobs -----------------------------
EXTENDS WorkerJobs

(* Fewer queues than workers, as many, an uneven share and ranges that run *)
(* over a port boundary; no queue at all with queues_per_port = 0.         *)
MCSettings == [ports : 1 .. 2, queues_per_port : 0 .. 3] \cup
              {[ports |-> 3, queues_per_port |-> 1]}
===============================================================================
