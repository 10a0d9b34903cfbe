-------------------------------- MODULE SurfaceMap --------------------------------
(***************************************************************************)
(* What a registry of video surfaces promises: a finite map from handles   *)
(* to surfaces in which every insertion gets a handle never used before.   *)
(* A handle that was released therefore never resolves again, whoever      *)
(* still holds it.                                                         *)
(*                                                                         *)
(* It is the abstract side of Surfaces, where the map is a vector that is  *)
(* cut and renumbered each time it empties (render/surface_registry.rs).   *)
(***************************************************************************)
EXTENDS Naturals

CONSTANT Surface   \* what a handle resolves to

VARIABLES
    map,      \* the live surfaces, by handle
    issued    \* the newest handle handed out

vars == <<map, issued>>

Init ==
    /\ map = <<>>
    /\ issued = 0

\* Any number of surfaces is released; the rest stay under their handles.
Release ==
    /\ \E kept \in SUBSET (DOMAIN map) : map' = [h \in kept |-> map[h]]
    /\ UNCHANGED issued

\* A surface is registered under a fresh handle. The same step may release others.
Register ==
    /\ issued' = issued + 1
    /\ \E kept \in SUBSET (DOMAIN map), s \in Surface :
          map' = [h \in kept \union {issued'} |-> IF h = issued' THEN s ELSE map[h]]

Next == Release \/ Register

Spec == Init /\ [][Next]_vars
===================================================================================
