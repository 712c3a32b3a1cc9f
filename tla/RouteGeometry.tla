--------------------------- MODULE RouteGeometry ---------------------------
(***************************************************************************)
(* Route frames and the tests for two of them coming too close.            *)
(*                                                                         *)
(* A frame is what a robot does during one tick of its route: the cell it  *)
(* is in and the resource it holds there.  The ROOT coordinates of a frame *)
(* are those of its cell under the rigid transform of the cell's map, so   *)
(* distances between frames of one map are distances between cells.        *)
(* Footprints and margins are counted in quarter cells; the 1e-9 the code  *)
(* adds makes footprints that touch too close.                             *)
(***************************************************************************)
EXTENDS Integers, Sequences

NoResource == <<>>     \* the empty string

(* The resource of the two cells an edge joins, whichever way it is run.   *)
EdgeResource(from, to) == <<"edge", {from, to}>>
TransitionResource(id) == <<"transition", id>>
RegionResource(id) == <<"region", id>>

(* Midway along an edge or a transition: the robot cannot stop there.      *)
InTransit(frame) ==
  frame.res # NoResource /\ Head(frame.res) \in {"edge", "transition"}

Holds(frame) == frame.res # NoResource

SharesResource(a, b) == Holds(a) /\ a.res = b.res

(* Footprints a and b apart by reach quarter cells or less, standing still.*)
Near(a, b, reach) ==
  /\ a.pos.map = b.pos.map
  /\ LET dx == 4 * (a.pos.x - b.pos.x)
         dy == 4 * (a.pos.y - b.pos.y)
     IN dx * dx + dy * dy <= reach * reach

(* The least distance of a and b while a moves from af to at and b from bf *)
(* to bt during the same tick, both at constant speed.  With d the         *)
(* distance at the start and v the relative motion, |d + u*v| is least at  *)
(* u = -(d.v)/(v.v), clamped to 0..1.                                      *)
Swept(af, at, bf, bt, reach) ==
  /\ {af.pos.map, at.pos.map, bt.pos.map} = {bf.pos.map}
  /\ LET dx == 4 * (af.pos.x - bf.pos.x)
         dy == 4 * (af.pos.y - bf.pos.y)
         vx == 4 * (at.pos.x - af.pos.x - (bt.pos.x - bf.pos.x))
         vy == 4 * (at.pos.y - af.pos.y - (bt.pos.y - bf.pos.y))
         dd == dx * dx + dy * dy
         dv == dx * vx + dy * vy
         vv == vx * vx + vy * vy
         rr == reach * reach
     IN \/ dv >= 0 /\ dd <= rr
        \/ -dv >= vv /\ dd + 2 * dv + vv <= rr
        \/ dv < 0 /\ -dv < vv /\ dd * vv - dv * dv <= rr * vv
=============================================================================
