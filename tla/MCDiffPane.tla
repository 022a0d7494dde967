------------------------------ MODULE MCDiffPane ------------------------------
(* Two repositories, one commit and one file with its two sides; three      *)
(* requests: one answered late, one that replaces it, one that follows an   *)
(* application.                                                             *)
EXTENDS DiffPane

CONSTANTS A, B, c1, p

MCRepos == {A, B}
MCCommits == {c1}
MCPaths == {p}
===============================================================================
