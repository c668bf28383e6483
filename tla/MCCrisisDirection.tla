-------------------------- MODULE MCCrisisDirection --------------------------
(* The first of two venues has a resolution to direct, the second another    *)
(* one and an instruction; two events become due at different times.         *)
EXTENDS CrisisDirection, TLC

CONSTANTS u, v, i, r, s, p, q

MCVenues == <<u, v>>
MCVenueOf == i :> v @@ r :> v @@ s :> u
MCPool == <<p, q>>
MCDue == p :> 1 @@ q :> 2
=============================================================================
