--------------------------- MODULE MCWorkerCapacity ---------------------------
(* Bounds for model checking WorkerCapacity: two ordinary jobs, the          *)
(* compression and a reserved job, in the order of their names, and one slot. *)
EXTENDS WorkerCapacity

Mixed == <<"audit", "compress", "health", "mail">>
Health == {"health"}
Compress == {"compress"}
Empty == {}
OneSlot == <<"capacity-0">>
=============================================================================
