------------------------------ MODULE LatestRequest ------------------------------
(***************************************************************************)
(* What FastPlay promises about superseded work, with every mechanism      *)
(* left out: requests (a seek, an open, a recovery) are numbered as they   *)
(* are made, intermediate ones may be skipped, and the only request that   *)
(* may ever be served is the newest one at the moment it is served.        *)
(*                                                                         *)
(* It is the abstract side of two refinements: DecodeControl (the command  *)
(* mailbox between the UI thread and one decode worker) and DecodeThread   *)
(* (the whole path from a user's seek to the frames the coordinator        *)
(* accepts).                                                               *)
(***************************************************************************)
EXTENDS Naturals

VARIABLES
    requested,   \* number of requests made so far; the newest request
    served,      \* the request whose effect is visible, 0 for none
    stopped      \* nothing is served after a stop

vars == <<requested, served, stopped>>

Init ==
    /\ requested = 0
    /\ served = 0
    /\ stopped = FALSE

Request ==
    /\ requested' = requested + 1
    /\ UNCHANGED <<served, stopped>>

Serve ==
    /\ ~stopped
    /\ served < requested
    /\ served' = requested
    /\ UNCHANGED <<requested, stopped>>

Stop ==
    /\ stopped' = TRUE
    /\ UNCHANGED <<requested, served>>

Next == Request \/ Serve \/ Stop

(* What may happen. *)
Safety == Init /\ [][Next]_vars

(* What must happen too: the newest request is served, or the server stops. *)
Spec == Safety /\ WF_vars(Serve)
==================================================================================
