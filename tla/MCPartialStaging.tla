--------------------------- MODULE MCPartialStaging ---------------------------
(* Files of up to five lines with one line of context: enough for two hunks *)
(* (a change, three lines that stay, a change), for blocks of several       *)
(* deletions and additions, for new, deleted and emptied files, and for     *)
(* last lines without newline on either side.                               *)
EXTENDS PartialStaging
===============================================================================
