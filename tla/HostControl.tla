---------------------------- MODULE HostControl ----------------------------
(***************************************************************************)
(* The interface of the resident host (HostServer, _host/server.py) to the *)
(* node that owns it: start() and stop() hold no lock of their own, so the *)
(* host is only correct when its calls come one at a time.  Provider makes *)
(* its calls in this order, HostServer answers them in this order.         *)
(***************************************************************************)

VARIABLES
    up,             \* the host has a listener
    stoppers        \* the callers that are inside stop()

controlVars == <<up, stoppers>>

Init == up = FALSE /\ stoppers = {}

\* start() opens the listener, or finds it open; never beside a stop().
Open == stoppers = {} /\ up' = TRUE /\ stoppers' = {}

\* stop() is entered by one caller at a time ...
Close == stoppers = {} /\ (\E c \in stoppers' : stoppers' = {c}) /\ up' = up

\* ... and leaves no listener behind.
Closed == stoppers # {} /\ stoppers' = {} /\ up' = FALSE

Next == Open \/ Close \/ Closed

Spec == Init /\ [][Next]_controlVars
=============================================================================
