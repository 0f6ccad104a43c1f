-------------------------- MODULE MCZWaveNetwork ---------------------------
(* A network for TLC: the controller, a shutter (node 2) of whose class    *)
(* list updateNode meets the first four, and a switch of which it meets    *)
(* the first and, because its id is 32, the class BASIC.                   *)
EXTENDS ZWaveNetwork

MCNodes == {1, 2, 32}
MCListed == [n \in MCNodes |->
    CASE n = 2 -> <<114, 112, 145, 38, 39, 133, 142, 37, 115, 134, 96>>
      [] n = 32 -> <<114, 37, 39, 115, 134, 133, 142, 130>>
      [] OTHER -> <<>>]
MCStart == [n \in MCNodes |->
    [p \in Param |-> CASE p = "product" -> IF n = 2 THEN FGR222 ELSE 257
                       [] p = "value" -> 255
                       [] p = "slatTime" -> 150
                       [] OTHER -> 50]]
NoPost == [p \in PostParam |-> None]
Tilt == [NoPost EXCEPT !["position.blinds"] = 0, !["position.slat"] = 99,
                       !["config.slatTime"] = 100]
Lift == [NoPost EXCEPT !["position.blinds"] = 80, !["state"] = 1]
MCPosts == {Tilt, Lift}
MCPosition == {0, 50}
=============================================================================
