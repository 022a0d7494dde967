------------------------------ MODULE MCTransfer ------------------------------
(* Instance of Transfer: a clone and another one after it, or under its     *)
(* remains, or a fetch, over a destination that is absent or the user's (it *)
(* is empty when a clone has been taken away but for its folder).           *)
EXTENDS Transfer

MCOrders == {<<"fetch">>, <<"clone">>, <<"clone", "clone">>}
MCFound == {"absent", "files"}
===============================================================================
