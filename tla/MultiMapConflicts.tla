------------------------- MODULE MultiMapConflicts -------------------------
(***************************************************************************)
(* The environment that the multi-map coordinator gives conflict-based     *)
(* search (class Environment in multi_map_coordinator.cpp), and what the   *)
(* low-level A* returns in it.                                             *)
(*                                                                         *)
(* A constraint is <<"vertex", tick, pos>>: not to be at pos at the tick,  *)
(* <<"resource", tick, res>>: not to hold res then, or <<"edge", tick,     *)
(* from, to>>: not to leave from for to at the tick.                       *)
(***************************************************************************)
EXTENDS TickSchedule

ConflictAt(m, plans, t, a, b) ==
  LET pa == PathOf(m, plans, a)
      pb == PathOf(m, plans, b)
      fa == FrameAt(pa, t)
      fb == FrameAt(pb, t)
      At(kind) == {[kind |-> kind, tick |-> t, first |-> a, second |-> b,
                    from |-> <<fa, fb>>, to |-> <<FrameAt(pa, t + 1), FrameAt(pb, t + 1)>>]}
  IN IF SharesResource(fa, fb) THEN At("resource")
     ELSE IF Near(fa, fb, Reach(m, a, b)) THEN At("vertex")
     ELSE IF /\ t < Makespan(plans)
             /\ Swept(fa, FrameAt(pa, t + 1), fb, FrameAt(pb, t + 1), Reach(m, a, b))
       THEN At("edge")
     ELSE {}

PairsOf(m) == {p \in (DOMAIN m.routes) \X (DOMAIN m.routes) : p[1] < p[2]}

Conflicts(m, plans) ==
  UNION {UNION {ConflictAt(m, plans, t, p[1], p[2]) : p \in PairsOf(m)} : t \in 0..Makespan(plans)}

(* The conflict of the first tick, and of the first two robots at it: none *)
(* or one.                                                                 *)
getFirstConflict(m, plans) ==
  LET all == Conflicts(m, plans)
      Sooner(c, d) ==
        \/ c.tick < d.tick
        \/ c.tick = d.tick /\ c.first < d.first
        \/ c.tick = d.tick /\ c.first = d.first /\ c.second < d.second
  IN {c \in all : \A d \in all : ~Sooner(d, c)}

Constraint(c, k) ==
  CASE c.kind = "vertex" -> <<"vertex", c.tick, c.from[k].pos>>
    [] c.kind = "resource" -> <<"resource", c.tick, c.from[k].res>>
    [] c.kind = "edge" -> <<"edge", c.tick, c.from[k].pos, c.to[k].pos>>

SecondGivesWay(c) ==   \* mutated: one child only, the first robot never gives way
  [r \in {c.second} |-> {Constraint(c, 2)}]

createConstraintsFromConflict(c) ==
  [r \in {c.first, c.second} |-> {Constraint(c, IF r = c.first THEN 1 ELSE 2)}]

allowed(constraints, from, to, t) ==
  /\ <<"vertex", t + 1, to.pos>> \notin constraints
  /\ Holds(to) => <<"resource", t + 1, to.res>> \notin constraints
  /\ <<"edge", t, from.pos, to.pos>> \notin constraints

(* From frame f to frame g at tick t: a robot may wait at a cell, but not  *)
(* midway through an edge or transition.                                   *)
Neighbor(route, constraints, f, g, t) ==
  /\ g \in DOMAIN route
  /\ g = f + 1 \/ (g = f /\ ~InTransit(route[f]))
  /\ allowed(constraints, route[f], route[g], t)

NoGoalConstraint(route, constraints) == -1   \* mutated: the goal may be reached too soon

(* The latest tick at which the robot must not be at the end of its route, *)
(* so far as vertex constraints say.                                       *)
LastGoalConstraint(route, constraints) ==
  Max({-1} \cup {c[2] : c \in {d \in constraints : d[1] = "vertex" /\ d[3] = Last(route).pos}})

isSolution(route, constraints, f, t) ==
  f = Len(route) /\ t > LastGoalConstraint(route, constraints)

(* The frames that can be reached at tick 0 and at each of the next t. *)
Reached(route, constraints, last) ==
  LET sets[t \in 0..last] ==
        IF t = 0 THEN << {1} >>
        ELSE LET before == sets[t - 1]
             IN Append(before, {g \in DOMAIN route : \E f \in before[t] :
                                  Neighbor(route, constraints, f, g, t - 1)})
  IN sets[last]

(* The last ticks of the way that is at the end of the route at tick last, *)
(* traced back to the start.                                               *)
Traced(route, constraints, reached, last) ==
  LET Waited(f, t) == f \in reached[t] /\ Neighbor(route, constraints, f, f, t - 1)
      ways[k \in 0..last] ==
        IF k = 0 THEN << Len(route) >>
        ELSE LET way == ways[k - 1]
                 f == Head(way)
             IN <<IF Waited(f, last - k + 1) THEN f ELSE f - 1>> \o way
  IN ways[last]

(* The A* search over <<tick, frame>>.  A state costs its tick; two states *)
(* of the same estimate tick + frames to go and the same tick are one, so  *)
(* that the order of the queue is complete.  It ends at the first tick at  *)
(* which the route can be over.  The estimate grows by one with a wait and *)
(* not at all with an advance: a state that can be reached by both was     *)
(* reached by the wait first, and keeps it as its origin.  After the last  *)
(* constraint nothing stops a robot that is anywhere at all.               *)
lowLevel(m, r, constraints) ==
  LET route == m.routes[r]
      last == Max({0} \cup {c[2] : c \in constraints}) + Len(route)
      reached == Reached(route, constraints, last)
      ends == {t \in 0..last : /\ Len(route) \in reached[t + 1]
                               /\ isSolution(route, constraints, Len(route), t)}
  IN IF ends = {} THEN {} ELSE {Traced(route, constraints, reached, Min(ends))}
=============================================================================
