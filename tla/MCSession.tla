------------------------------ MODULE MCSession -------------------------------
(* Two repositories, three queues: away from a repository and back, with    *)
(* jobs left in the first queue and new ones in the last.                   *)
EXTENDS Session

CONSTANTS A, B

MCRepos == {A, B}
===============================================================================
