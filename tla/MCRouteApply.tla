---------------------------- MODULE MCRouteApply ----------------------------
(* Two users; basic, which is everybody's, and an agent of u's whose slug has *)
(* an underscore; one number beside the catch-all.                            *)
EXTENDS RouteApply, TLC

CONSTANTS u, v, admin, none, nobody, service_desk, basic, d1, any, a1, a2, o1

MCOwner == service_desk :> u @@ basic :> nobody
MCUser  == a1 :> admin @@ a2 :> v

Active(s) == [slug |-> s, active |-> TRUE]
MCInitRoutes == {d1 :> Active(basic) @@ any :> NoRoute}
=============================================================================
