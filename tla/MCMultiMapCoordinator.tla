----------------------- MODULE MCMultiMapCoordinator -----------------------
(* Two and three robots in a corridor of three cells with a bay on either  *)
(* side of the middle one and a stair at the end.                          *)
EXTENDS MultiMapCoordinator

Frames == INSTANCE RouteFrames

Hall(x) == [map |-> "hall", x |-> x, y |-> 0]
Bay == [map |-> "hall", x |-> 1, y |-> 1]
South == [map |-> "hall", x |-> 1, y |-> -1]
Upper == [map |-> "upper", x |-> 0, y |-> 0]

Path(cells, d) ==
  [k \in DOMAIN cells |->
     [pos |-> cells[k], tick |-> d * (k - 1),
      transition |-> IF k > 1 /\ cells[k].map # cells[k - 1].map THEN "stair" ELSE ""]]

(* Through the cells at d ticks a move; to the first of legs, where service*)
(* takes its time, and on through the second.                              *)
Route(legs, d, service, options) ==
  Frames!make_frames(
    [start |-> Head(legs[1]), segments |-> [k \in DOMAIN legs |-> Path(legs[k], d)],
     stops |-> <<[location |-> Last(legs[1]), service |-> service]>>], options)

Plain == [regions |-> <<>>, buffer |-> 0]
Gate == [regions |-> <<[id |-> "gate", cells |-> {Hall(1)}, buffer |-> 0]>>, buffer |-> 0]

East(d) == Route(<<<<Hall(0), Hall(1), Hall(2)>>>>, d, 0, Plain)
West(d) == Route(<<<<Hall(2), Hall(1), Hall(0)>>>>, d, 0, Plain)
Aside(d) == Route(<<<<Hall(2), Hall(1), Bay>>>>, d, 0, Plain)
Cross(d) == Route(<<<<Bay, Hall(1), South>>>>, d, 0, Gate)
Linger(s) == Route(<<<<Bay, Hall(1)>>, <<Hall(1), South>>>>, 1, s, Gate)
Ascend(d) == Route(<<<<Hall(0), Hall(1), Hall(2), Upper>>>>, d, 0, Gate)
Descend(d) == Route(<<<<Upper, Hall(2), Hall(1), South>>>>, d, 0, Plain)
Stand == Route(<<<<Bay>>>>, 1, 0, Plain)

Mission(routes, size, repair, max) ==
  [routes |-> routes, size |-> size, regions |-> {}, repair |-> repair, max_nodes |-> max,
   max_high_level |-> 6]

Either == {East(1), East(2), West(1), Aside(1), Aside(2), Cross(1), Cross(2), Linger(2),
           Linger(3), Ascend(1), Ascend(2), Descend(2), Stand}

Pairs ==
  {Mission(<<a, b>>, size, TRUE, 20) :
     a \in Either, b \in Either, size \in {<<0, 0>>, <<1, 2>>, <<2, 2>>}}

(* The repair out of nodes in its first or its second search, or off.      *)
Short ==
  {Mission(<<Linger(3), Ascend(1)>>, <<0, 0>>, repair, max) :
     repair \in BOOLEAN, max \in {0, 2, 4, 6, 8}}

Triples ==
  {Mission(<<a, b, c>>, size, TRUE, 20) :
     a \in {Linger(2), Aside(1), Cross(2), Descend(1)},
     b \in {Linger(3), Cross(1), Descend(1), East(1)},
     c \in {Ascend(1), East(1), Descend(2), West(1), Aside(2)},
     size \in {<<0, 0, 0>>, <<0, 1, 1>>}}

(* A pair too slow for each other, and one that meets both: two blockers.  *)
Quads ==
  {Mission(<<Linger(3), Descend(2), a, b>>, <<0, 0, 0, 0>>, TRUE, 30) :
     a \in {East(1), Cross(1), Stand}, b \in {East(2), Ascend(1)}}

(* The first robot parks in the corridor where the second has to pass the  *)
(* corner later on.                                                        *)
PassTheCorner ==
  Mission(<<Route(<<<<Hall(0), Hall(1)>>>>, 1, 0, Plain),
            Route(<<<<Upper, Hall(2), Bay>>>>, 1, 0, Plain)>>, <<1, 2>>, TRUE, 20)

ParkedMissions == {PassTheCorner}

MCMissions == ParkedMissions \cup Pairs \cup Short \cup Triples \cup Quads
-----------------------------------------------------------------------------
(* The gate is now the two cells at the end of the corridor.  One robot    *)
(* stays in it for good and another comes by; or one leaves it slowly and  *)
(* another looks in at its other end.                                      *)
Wide == [regions |-> <<[id |-> "gate", cells |-> {Hall(1), Hall(2)}, buffer |-> 0]>>,
         buffer |-> 0]

Stop == Route(<<<<Hall(0), Hall(1), Hall(2)>>>>, 1, 0, Wide)
Over == Route(<<<<Bay, Hall(1), South>>>>, 1, 0, Wide)
Leave == Route(<<<<Hall(0), Hall(1), South>>>>, 2, 0, Wide)
LookIn == Route(<<<<Upper, Hall(2), Upper>>>>, 3, 0, Wide)

RegionMissions ==
  {[Mission(pair, <<0, 0>>, FALSE, 0) EXCEPT !.regions = {{Hall(1), Hall(2)}}] :
     pair \in {<<Stop, Over>>, <<Leave, LookIn>>}}
=============================================================================
