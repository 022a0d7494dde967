------------------------------ MODULE MCGraphLanes -----------------------------
(* GraphLanes on the histories of a few commits, all orders of parents.     *)
EXTENDS GraphLanes
===============================================================================
