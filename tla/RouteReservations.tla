------------------------- MODULE RouteReservations -------------------------
(***************************************************************************)
(* RouteReservations (route_reservations.cpp): the trajectories of the     *)
(* robots already scheduled, compressed into runs of constant occupancy    *)
(* and constant motion, and the tick intervals they leave to another       *)
(* robot at each frame of its route.                                       *)
(*                                                                         *)
(* A track is [robot, path, reach]: path[t+1] is the frame of the robot at *)
(* tick t, its last frame is kept to the horizon, and reach is the sum of  *)
(* the footprints and margins of the two robots.  Intervals are inclusive; *)
(* the sorted vectors of them that the code keeps are sets here.           *)
(* The bucket index of the code only narrows the runs a frame is compared  *)
(* with; here it is compared with all of them.                             *)
(***************************************************************************)
EXTENDS RouteGeometry, FiniteSets, SequencesExt

AtLeast(a, b) == IF a >= b THEN a ELSE b
AtMost(a, b) == IF a <= b THEN a ELSE b

(* The numbers of a set in their order. *)
InOrder(numbers) ==
  [k \in 1..Cardinality(numbers) |->
     CHOOSE n \in numbers : Cardinality({i \in numbers : i < n}) = k - 1]

(* The maximal stretches of ticks over which val is constant.  The last    *)
(* one is prolonged to tail.                                               *)
Runs(val, tail) ==
  LET Starts == {t \in DOMAIN val : t = 0 \/ val[t] # val[t - 1]}
      Later(t) == {s \in Starts : s > t}
  IN {[val |-> val[t], begin |-> t,
       end |-> IF Later(t) = {} THEN tail ELSE Min(Later(t)) - 1] : t \in Starts}

LastTick(track) == Len(track.path) - 1

Occupancy(track, horizon) ==
  Runs([t \in 0..LastTick(track) |-> track.path[t + 1]], horizon)

(* Where the track is at each tick and where it goes from there. *)
Steps(track) ==
  [t \in 0..LastTick(track) |->
     <<track.path[t + 1].pos, track.path[AtMost(t + 2, Len(track.path))].pos>>]

ParkedTooLong(track, horizon) ==   \* mutated: the last motion is not prolonged
  Runs(Steps(track), LastTick(track))

Motion(track, horizon) ==
  Runs(Steps(track), horizon - 1)

(* The ticks of a set of intervals. *)
Ticks(intervals) == UNION {i.begin..i.end : i \in intervals}

(* Intervals that overlap or adjoin joined, and empty ones dropped. *)
Merge(intervals) ==
  LET ticks == Ticks(intervals)
      Begins == {t \in ticks : t - 1 \notin ticks}
      Ends == {t \in ticks : t + 1 \notin ticks}
  IN {[begin |-> b, end |-> Min({e \in Ends : e >= b})] : b \in Begins}

(* When another robot is too close to the frame or holds its resource.     *)
OccupancyOf(track, frame, horizon) ==
  {[begin |-> run.begin, end |-> run.end] :
     run \in {o \in Occupancy(track, horizon) :
                Near(frame, o.val, track.reach) \/ SharesResource(frame, o.val)}}

BlockedOccupancy(frame, tracks, horizon) ==
  Merge(UNION {OccupancyOf(track, frame, horizon) : track \in tracks})

(* When its motion crosses a step from a to b. *)
SweepsOf(track, a, b, horizon) ==
  {[begin |-> run.begin, end |-> run.end] :
     run \in {m \in Motion(track, horizon) :
                Swept(a, b, [pos |-> m.val[1]], [pos |-> m.val[2]], track.reach)}}

(* The departure ticks at which a step from a to b meets the other robot:  *)
(* it is there when the step arrives, or its sweep crosses the step's.     *)
MotionOf(track, a, b, horizon) ==
  {[begin |-> AtLeast(0, o.begin - 1), end |-> o.end - 1] :
     o \in OccupancyOf(track, b, horizon)}
  \cup SweepsOf(track, a, b, horizon)

BlockedMotion(a, b, tracks, horizon) ==
  Merge(UNION {MotionOf(track, a, b, horizon) : track \in tracks})

BlockedAdvance(route, f, tracks, horizon) ==
  BlockedMotion(route[f], route[f + 1], tracks, horizon)

BlockedWait(route, f, tracks, horizon) ==
  BlockedMotion(route[f], route[f], tracks, horizon)

(* The gaps that blocked leaves in 0..horizon: each begins at 0 or after a *)
(* blocked interval, and lasts to the next one or to the horizon.          *)
Gaps(blocked, horizon) ==
  LET Begins == {0} \cup {b.end + 1 : b \in blocked}
      End(t) == Min({horizon} \cup {b.begin - 1 : b \in {c \in blocked : c.end >= t}})
  IN {[begin |-> t, end |-> End(t)] : t \in {s \in Begins : s <= End(s)}}

(* Waiting through a blocked departure is not safe even when both its ends *)
(* are: the interval is cut after each of its ticks that is in waiting.    *)
(* One of a single tick is listed twice if a departure blocked since       *)
(* before covers it: as what the cut leaves before it, and as the rest.    *)
Split(interval, waiting) ==
  LET Cuts == {t \in interval.begin..(interval.end - 1) : t \in Ticks(waiting)}
      Twice == /\ interval.begin = interval.end
               /\ \E b \in waiting : b.begin < interval.begin /\ interval.end <= b.end
  IN {[begin |-> t, end |-> Min({interval.end} \cup {c \in Cuts : c >= t}), copy |-> n] :
        t \in {interval.begin} \cup {c + 1 : c \in Cuts}, n \in IF Twice THEN 1..2 ELSE {1}}

SafeIntervals(route, f, tracks, horizon) ==
  UNION {Split(gap, BlockedWait(route, f, tracks, horizon)) :
           gap \in Gaps(BlockedOccupancy(route[f], tracks, horizon), horizon)}

(* The object the scheduler queries; the code computes its parts on demand *)
(* and keeps them.                                                         *)
Reserve(route, tracks, horizon) ==
  [route   |-> route,
   tracks  |-> tracks,
   horizon |-> horizon,
   safe    |-> [f \in 1..Len(route) |-> SafeIntervals(route, f, tracks, horizon)],
   advance |-> [f \in 1..(Len(route) - 1) |-> BlockedAdvance(route, f, tracks, horizon)]]
=============================================================================
