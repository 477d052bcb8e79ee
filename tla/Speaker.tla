-------------------------------- MODULE Speaker --------------------------------
(***************************************************************************)
(* What the building's speakers promise: nobody or exactly one admin owns  *)
(* them, and they pass from one to another only through being free.        *)
(***************************************************************************)
CONSTANTS Sockets, None

VARIABLE owner

Init == owner = None

Acquire(s) == owner = None /\ owner' = s

Release == owner # None /\ owner' = None

Next == Release \/ \E s \in Sockets : Acquire(s)

Spec == Init /\ [][Next]_owner
================================================================================
