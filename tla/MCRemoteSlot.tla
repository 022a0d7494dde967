----------------------------- MODULE MCRemoteSlot -----------------------------
(* Two repositories; three workers, of which at most two are prefetches: a   *)
(* prefetch that is promoted, the fetch that waits for it, its repetition   *)
(* after a login, and a second prefetch or a second request on top.         *)
EXTENDS RemoteSlot

CONSTANTS A, B

MCRepos == {A, B}
OneRepo == {A}
===============================================================================
