------------------------------ MODULE Supervisor ------------------------------
(***************************************************************************)
(* What a supervised capture service promises, whatever its processes,     *)
(* timers and devices: it is down or live, it is brought back while it is  *)
(* in service, and once halted it never comes back.                        *)
(***************************************************************************)

VARIABLES service,   \* "down" or "live"
          halted     \* the service has been told to stop for good

vars == <<service, halted>>

Init == service = "down" /\ halted = FALSE

\* The service comes (back) up; impossible after a halt.
Rise == /\ ~halted
        /\ service = "down"
        /\ service' = "live"
        /\ UNCHANGED halted

\* The process behind the service ends, for any reason.
Fall == /\ service = "live"
        /\ service' = "down"
        /\ UNCHANGED halted

Halt == /\ ~halted
        /\ halted' = TRUE
        /\ UNCHANGED service

Next == Rise \/ Fall \/ Halt

Spec == Init /\ [][Next]_vars
===============================================================================
