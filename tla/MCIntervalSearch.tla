-------------------------- MODULE MCIntervalSearch --------------------------
(* A corridor of three cells with bays on both sides of the middle one, a  *)
(* stair at its end, and one or two other robots that follow routes of     *)
(* their own and wait wherever they may.                                   *)
(*                                                                         *)
(* Beside it, the table in which robots under way reserve: two robots      *)
(* contend for two resources, and four ticks leave room for disjoint,      *)
(* touching, overlapping and nested intervals.  The two share nothing, and *)
(* a behaviour is one of either.                                           *)
EXTENDS IntervalSearch, LiveReservation, TLC

Frames == INSTANCE RouteFrames

Hall(x) == [map |-> "hall", x |-> x, y |-> 0]
Bay == [map |-> "hall", x |-> 1, y |-> 1]
South == [map |-> "hall", x |-> 1, y |-> -1]
Upper == [map |-> "upper", x |-> 0, y |-> 0]

(* A path through the cells, each move of d ticks; by the stair when the   *)
(* map changes.                                                            *)
Path(cells, d) ==
  [k \in DOMAIN cells |->
     [pos |-> cells[k], tick |-> d * (k - 1),
      transition |-> IF k > 1 /\ cells[k].map # cells[k - 1].map THEN "stair" ELSE ""]]

Request(cells, d) ==
  [start |-> Head(cells), segments |-> <<Path(cells, d)>>,
   stops |-> <<[location |-> Last(cells), service |-> 0]>>]

Gate == <<[id |-> "gate", cells |-> {Hall(1)}, buffer |-> 0]>>

Route(cells, d, buffer) ==
  Frames!make_frames(Request(cells, d), [regions |-> Gate, buffer |-> buffer])

East == <<Hall(0), Hall(1), Hall(2)>>
West == <<Hall(2), Hall(1), Hall(0)>>
IntoBay == <<Hall(0), Hall(1), Bay>>
OutOfBay == <<Bay, Hall(1), Hall(2)>>
Aside == <<Hall(2), Hall(1), Bay>>
Cross == <<Bay, Hall(1), South>>
Slant == <<Hall(2), Bay>>     \* passes the corner of the middle cell
Climb == <<Hall(1), Hall(2), Upper>>
Descend == <<Upper, Hall(2), Hall(1)>>

Routes ==
  {Route(cells, d, 0) : cells \in {East, Climb}, d \in 1..2}
  \cup {Route(cells, 1, 0) : cells \in {OutOfBay, <<Hall(1), Hall(2)>>, <<Hall(0)>>}}
  \cup {Route(East, 2, 1)}

OtherRoutes ==
  {Route(cells, d, 0) : cells \in {Cross, Aside, IntoBay}, d \in 1..2}
  \cup {Route(cells, 1, 0) : cells \in {West, Slant, <<Bay>>}}
  \cup {Route(Descend, 2, 0)}

(* The ways to run a route with waits w[f] at its frame f. *)
Delayed(route, w) ==
  FlattenSeq([f \in DOMAIN route |-> [k \in 1..(1 + w[f]) |-> route[f]]])

WaitBound == 2   \* in all, per track

Waits(route) ==
  {w \in [DOMAIN route -> 0..WaitBound] :
     /\ FoldFunction(+, 0, w) <= WaitBound
     /\ \A f \in DOMAIN route : w[f] > 0 => f < Len(route) /\ ~InTransit(route[f])}

Tracks(routes, reach) ==
  UNION {{[robot |-> 2, path |-> Delayed(r, w), reach |-> reach] : w \in Waits(r)} :
           r \in routes}

Job(route, tracks, limit) ==
  [route |-> route, tracks |-> tracks, limit |-> limit,
   horizon |-> Len(route) + FoldSet(LAMBDA o, n : n + Len(o.path), 0, tracks)]

(* The coordinator rejects robots that collide before they move. *)
StartsFree(j) == Free(j, 1, 0)

OneOther ==
  {Job(r, {o}, limit) : r \in Routes, limit \in {0, 3},
                        o \in UNION {Tracks(OtherRoutes, reach) : reach \in {0, 3, 4}}}

Apart(a, b, reach, last) ==
  \A t \in 0..last :
    ~Meet(FrameAt(a.path, t), FrameAt(a.path, t + 1),
          FrameAt(b.path, t), FrameAt(b.path, t + 1), reach)

(* Two others, at peace with each other. *)
TwoOthers ==
  {Job(r, {a, [b EXCEPT !.robot = 3]}, 0) :
     r \in {Route(East, 1, 0), Route(OutOfBay, 2, 0), Route(Climb, 1, 0)},
     <<a, b>> \in {ab \in Tracks({Route(Cross, 1, 0), Route(Aside, 2, 0)}, 2)
                          \X Tracks({Route(Descend, 1, 0), Route(<<Upper, Hall(2)>>, 4, 0),
                                     Route(<<Bay>>, 1, 0)}, 2) :
                     Apart(ab[1], ab[2], 2, 12)}}

MCJobs == {j \in OneOther \cup TwoOthers : StartsFree(j)}

(* What FindsEarliest asks of the jobs. *)
ASSUME TimeAssumption == \A j \in MCJobs : LeavesTime(j)

CONSTANTS r1, r2, door, lift

MCRobots == {r1, r2}
MCResources == {door, lift}
MCClock == 0..3

SymmetricIds == Permutations(MCRobots) \cup Permutations(MCResources)

OneJob == CHOOSE j \in MCJobs : TRUE

EitherInit == Init /\ tableInit

EitherNext ==
  \/ tableInit /\ Next /\ UNCHANGED tableVars
  \/ verdict = "idle" /\ job = OneJob /\ tableNext /\ UNCHANGED searchVars

EitherSpec == EitherInit /\ [][EitherNext]_<<searchVars, tableVars>>
=============================================================================
