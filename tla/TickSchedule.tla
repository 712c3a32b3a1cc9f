---------------------------- MODULE TickSchedule ----------------------------
(***************************************************************************)
(* What it is for a robot to follow its route among robots that keep to    *)
(* theirs, tick by tick.  This is the promise the interval scheduler is    *)
(* held to; it knows nothing of intervals.                                 *)
(*                                                                         *)
(* A job is [route, tracks, horizon, limit]: the frames of the robot, the  *)
(* tracks of the others (see RouteReservations), the last tick considered  *)
(* and the most nodes the search may expand (0: as many as it takes).      *)
(***************************************************************************)
EXTENDS RouteGeometry, FiniteSets, SequencesExt

(* A sequence of frames, one at least. *)
IsRoute(route) ==
  /\ Len(route) \in Nat \ {0} /\ DOMAIN route = 1..Len(route)
  /\ \A f \in DOMAIN route : route[f].pos.x \in Int /\ route[f].pos.y \in Int

(* Another robot that stops within the horizon.                            *)
IsTrack(track, horizon) ==
  /\ IsRoute(track.path) /\ Len(track.path) - 1 <= horizon
  /\ track.reach \in Int

(* What a robot is given that starts where it can stop.                    *)
IsCall(route, tracks, horizon) ==
  /\ IsRoute(route) /\ ~InTransit(route[1])
  /\ horizon \in Nat
  /\ \A o \in tracks : IsTrack(o, horizon)

(* Where a path has its robot at tick t: parked at its end once it is over.*)
FrameAt(path, t) == IF t < Len(path) THEN path[t + 1] ELSE path[Len(path)]

(* Frames a and b cannot be occupied at once. *)
Collide(a, b, reach) == SharesResource(a, b) \/ Near(a, b, reach)

(* Two robots at frame a and b move on to a2 and b2 in the same tick: they *)
(* meet on departure or under way.                                         *)
Meet(a, a2, b, b2, reach) == Collide(a, b, reach) \/ Swept(a, a2, b, b2, reach)

Free(job, f, t) ==
  \A o \in job.tracks : ~Collide(job.route[f], FrameAt(o.path, t), o.reach)

(* From frame f at tick t to frame g at the next. *)
Passable(job, f, g, t) ==
  /\ Free(job, g, t + 1)
  /\ \A o \in job.tracks :
       ~Swept(job.route[f], job.route[g],
              FrameAt(o.path, t), FrameAt(o.path, t + 1), o.reach)

(* A robot advances by one frame, or waits where it may stop. *)
MayStep(job, f, g, t) ==
  /\ g = f + 1 \/ (g = f /\ ~InTransit(job.route[f]))
  /\ Passable(job, f, g, t)

(* The frames the robot can be at, as a set for every tick up to last: the *)
(* set of tick t is Reachable(job, last)[t + 1].                           *)
Reachable(job, last) ==
  LET sets[t \in 0..last] ==
        IF t = 0 THEN << {f \in {1} : Free(job, 1, 0)} >>
        ELSE LET before == sets[t - 1]
             IN Append(before, {g \in DOMAIN job.route : \E f \in before[t] :
                                  MayStep(job, f, g, t - 1)})
  IN sets[last]

(* At the end of its route from tick t on, never in the way of the others. *)
MayPark(job, t, last) ==
  /\ Free(job, Len(job.route), t)
  /\ \A s \in t..(last - 1) : Passable(job, Len(job.route), Len(job.route), s)

(* The ticks up to last at which the robot can finish. *)
Finishes(job, last) ==
  LET sets == Reachable(job, last)
  IN {t \in 0..last : Len(job.route) \in sets[t + 1] /\ MayPark(job, t, last)}

(* The horizon is past the stops of the others by the length of the route, *)
(* as the sum of the lengths of all routes is for robots planned in turn.  *)
LeavesTime(j) ==
  /\ Len(j.route) - 1 <= j.horizon
  /\ \A o \in j.tracks : (Len(o.path) - 1) + (Len(j.route) - 1) <= j.horizon

(* The robot takes its whole route and stops only where it can. *)
Follows(route, plan) ==
  /\ plan # <<>> /\ plan[1] = 1 /\ plan[Len(plan)] = Len(route)
  /\ \A t \in 1..(Len(plan) - 1) :
       \/ plan[t + 1] = plan[t] + 1
       \/ plan[t + 1] = plan[t] /\ ~InTransit(route[plan[t]])

(* A schedule, one frame of the route per tick, that does all that *)
(* among the others.                                                       *)
Legal(job, schedule, last) ==
  /\ schedule # <<>>
  /\ schedule[1] = 1 /\ Free(job, 1, 0)
  /\ \A t \in 1..(Len(schedule) - 1) :
       MayStep(job, schedule[t], schedule[t + 1], t - 1)
  /\ schedule[Len(schedule)] = Len(job.route)
  /\ MayPark(job, Len(schedule) - 1, last)
-----------------------------------------------------------------------------
(***************************************************************************)
(* The schedules of all the robots of a mission [routes, size, ...]: plans *)
(* gives each the frame of its route for every tick from 0 on.             *)
(***************************************************************************)
(* One route and size per robot, and each starts where it can stop and ends*)
(* where it holds nothing (see Park in RouteFrames).                       *)
IsMission(m) ==
  /\ Len(m.routes) \in Nat /\ DOMAIN m.routes = 1..Len(m.routes)
  /\ \A r \in DOMAIN m.routes :
       /\ IsRoute(m.routes[r]) /\ ~InTransit(m.routes[r][1])
       /\ ~Holds(m.routes[r][Len(m.routes[r])])
       /\ m.size[r] \in Nat

Reach(m, a, b) == m.size[a] + m.size[b]

PathOf(m, plans, r) == [t \in DOMAIN plans[r] |-> m.routes[r][plans[r][t]]]

Cost(plan) == Len(plan) - 1

Makespan(plans) == Max({Cost(plans[r]) : r \in DOMAIN plans})

TotalCost(plans) ==
  LET upTo[n \in 0..Len(plans)] == IF n = 0 THEN 0 ELSE upTo[n - 1] + Cost(plans[n])
  IN upTo[Len(plans)]

(* Robots a and b get too close to each other at tick t or before the next.*)
MeetAt(m, plans, a, b, t) ==
  LET pa == PathOf(m, plans, a)
      pb == PathOf(m, plans, b)
  IN Meet(FrameAt(pa, t), FrameAt(pa, t + 1), FrameAt(pb, t), FrameAt(pb, t + 1),
          Reach(m, a, b))

(* The ways for all robots to move on from frames f, each by one frame or, *)
(* where it may, not at all, without meeting.                              *)
JointSteps(m, f) ==
  {g \in [DOMAIN m.routes -> UNION {f[r]..(f[r] + 1) : r \in DOMAIN m.routes}] :
     /\ \A r \in DOMAIN m.routes :
          \/ g[r] = f[r] + 1 /\ g[r] <= Len(m.routes[r])
          \/ g[r] = f[r] /\ ~InTransit(m.routes[r][f[r]])
     /\ \A a, b \in DOMAIN m.routes :
          a < b => /\ ~Meet(m.routes[a][f[a]], m.routes[a][g[a]],
                            m.routes[b][f[b]], m.routes[b][g[b]], Reach(m, a, b))
                   /\ ~Collide(m.routes[a][g[a]], m.routes[b][g[b]], Reach(m, a, b))}

(* The robots still on their way at frames f. *)
OnTheWay(m, f) == {r \in DOMAIN m.routes : f[r] < Len(m.routes[r])}

(* From states of frames and the cost so far, to which every robot on its  *)
(* way adds one per tick, to those of the next tick that stay below bound. *)
JointMoves(m, states, bound) ==
  UNION {IF OnTheWay(m, s[1]) = {} THEN {s}
         ELSE {<<g, s[2] + Cardinality(OnTheWay(m, s[1]))>> : g \in JointSteps(m, s[1])} :
           s \in {x \in states : x[2] + Cardinality(OnTheWay(m, x[1])) < bound}}

(* Whether schedules exist that meet nowhere and cost less than bound in   *)
(* all: searched tick by tick over the frames of all robots.               *)
CheaperExists(m, bound) ==
  LET reached[t \in 0..bound] ==
        IF t = 0 THEN {<<[r \in DOMAIN m.routes |-> 1], 0>>}
        ELSE JointMoves(m, reached[t - 1], bound)
  IN \E s \in reached[bound] : OnTheWay(m, s[1]) = {} /\ s[2] < bound
=============================================================================
