----------------------------- MODULE MCWriteQueue -----------------------------
(* Four jobs: one reporting, one active, one waiting and one submitted late *)
(* by a slot, three calls of _on_done deep.                                 *)
EXTENDS WriteQueue
=============================================================================
