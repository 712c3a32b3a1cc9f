--------------------------- MODULE IntervalSearch ---------------------------
(***************************************************************************)
(* One call of the interval scheduler, on any of the Jobs, held to what a  *)
(* schedule is tick by tick.                                               *)
(***************************************************************************)
EXTENDS SafeIntervalScheduler, TickSchedule

CONSTANT Jobs   \* the calls: [route, tracks, horizon, limit]

(* A route starts in a cell, and a schedule found before ends within the   *)
(* horizon, so the tracks made of them do.                                 *)
ASSUME JobsAssumption ==
  \A j \in Jobs : IsCall(j.route, j.tracks, j.horizon)

Init ==
  /\ job \in Jobs
  /\ best = <<>> /\ nodes = <<>> /\ open = {} /\ expanded = 0
  /\ verdict = "idle" /\ schedule = <<>>

Begin ==
  /\ verdict = "idle"
  /\ StartSearch(Reserve(job.route, job.tracks, job.horizon), job.limit)

Returned ==
  /\ verdict \in {"found", "failed"}
  /\ UNCHANGED searchVars

Next == Begin \/ Search \/ Returned

Spec == Init /\ [][Next]_searchVars
-----------------------------------------------------------------------------
(* "Even two safe endpoint ticks cannot be connected by waiting when a     *)
(* moving footprint crosses the stationary robot between those ticks"      *)
(* (route_reservations.cpp:311): the intervals compressed from the tracks  *)
(* are exactly the ticks the frame is free, joined exactly where waiting   *)
(* from one to the next is safe, and the blocked departures exactly those  *)
(* that meet another robot.                                                *)
IntervalsExact ==
  (verdict # "idle" /\ expanded = 0) =>
    \A f \in DOMAIN job.route :
      /\ \A t \in 0..job.horizon : t \in Ticks(job.safe[f]) <=> Free(job, f, t)
      /\ \A t \in 0..(job.horizon - 1) :
           (\E i \in job.safe[f] : i.begin <= t /\ t < i.end)
             <=> Free(job, f, t) /\ Passable(job, f, f, t)
      /\ f < LastFrame =>
           \A t \in 0..(job.horizon - 1) :
             t \in Ticks(job.advance[f]) <=> ~Passable(job, f, f + 1, t)

(* A schedule that is found takes the robot along its whole route without  *)
(* meeting anybody, stopping only where it can, and leaves it parked out   *)
(* of everybody's way, for longer than the search looked ahead.            *)
ScheduleLegal ==
  verdict = "found" => Legal(job, schedule, 2 * job.horizon)

(* No schedule finishes earlier than the one found; and when the search    *)
(* ends for want of nodes there is none, however late: dropping later      *)
(* arrivals, moving over transit frames in one go and the horizon lose     *)
(* nothing.                                                                *)
EarliestOrNone ==
  LET finishes == Finishes(job, 2 * job.horizon)
  IN /\ verdict = "found" =>
          /\ Len(schedule) - 1 \in finishes
          /\ \A t \in finishes : t >= Len(schedule) - 1
     /\ verdict = "failed" /\ ~(job.limit # 0 /\ expanded >= job.limit) =>
          finishes = {}

(* The first arrival found in an interval is never improved on, so that no *)
(* interval is queued or expanded twice and the node limit counts distinct *)
(* ones: the search needs its check for stale entries only if this fails.  *)
ArriveOnce == Len(nodes) = Cardinality(DOMAIN best)
=============================================================================
