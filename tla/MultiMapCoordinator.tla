------------------------ MODULE MultiMapCoordinator ------------------------
(***************************************************************************)
(* coordinate_multi_map_routes (multi_map_coordinator.cpp): the robots are *)
(* scheduled one after the other, in their order, each around those before *)
(* it; then one transaction tries to shorten the schedule of the robot     *)
(* that finishes last.  Each schedule is searched for by the interval      *)
(* scheduler, step by step.                                                *)
(*                                                                         *)
(* A mission is [routes, size, regions, repair, max_nodes]: the frames of  *)
(* each robot, its footprint and margin in quarter cells, the cells of the *)
(* shared regions, the repair options and the most high-level nodes.  The  *)
(* wall-clock budget of the repair can run out at any of its steps.  Where *)
(* some robot finds no schedule, conflict-based search starts afresh.      *)
(***************************************************************************)
EXTENDS SafeIntervalScheduler, MultiMapConflicts

CONSTANT Missions

ASSUME MissionsAssumption == \A m \in Missions : IsMission(m)

VARIABLES mission,
          phase,      \* what the call is at
          plans,      \* the schedule of each robot, <<>> if it has none yet
          agent,      \* the robot being scheduled
          blocking,   \* departure ticks robot r lost to robot o: blocking[r][o]
          candidate,  \* the plans the repair is trying out
          queue,      \* the robots the repair has still to reschedule
          trial,      \* all robots it may reschedule
          used,       \* the nodes its searches have expanded
          tree, next_id, taken, answer, agreed   \* see ConflictBasedSearch

coordinatorVars == <<mission, phase, plans, agent, blocking, candidate, queue, trial, used>>
cbsVars == <<tree, next_id, taken, answer, agreed>>
vars == <<coordinatorVars, searchVars, cbsVars>>

RobotsOf(m) == DOMAIN m.routes
MaxHighLevelNodes(m) == m.max_high_level

Cbs == INSTANCE ConflictBasedSearch WITH
         problem <- mission,
         Agents <- RobotsOf,
         LowLevel <- lowLevel,
         FirstConflict <- getFirstConflict,
         ConstraintsFor <- createConstraintsFromConflict,
         PlanCost <- Cost,
         Limit <- MaxHighLevelNodes

Robots == DOMAIN mission.routes
RobotCount == Len(mission.routes)

(* The sum of all frame counts. *)
Horizon ==
  LET upTo[n \in 0..RobotCount] ==
        IF n = 0 THEN 0 ELSE upTo[n - 1] + Len(mission.routes[n])
  IN upTo[RobotCount]

OthersReach(schedules, fixed, r) ==   \* mutated: only the other's footprint and margin
  {[robot |-> o, path |-> PathOf(mission, schedules, o), reach |-> mission.size[o]] :
     o \in fixed}

TracksOf(schedules, fixed, r) ==
  {[robot |-> o, path |-> PathOf(mission, schedules, o), reach |-> Reach(mission, r, o)] :
     o \in fixed}

prepare_reservations(r, schedules, fixed) ==
  Reserve(mission.routes[r], TracksOf(schedules, fixed, r), Horizon)

ClearSearch ==
  /\ job' = <<>> /\ best' = <<>> /\ nodes' = <<>> /\ open' = {} /\ expanded' = 0
  /\ verdict' = "idle" /\ schedule' = <<>>

Init ==
  /\ mission \in Missions
  /\ phase = "start"
  /\ plans = [r \in Robots |-> <<>>]
  /\ agent = 1
  /\ blocking = [r \in Robots |-> [o \in Robots |-> 0]]
  /\ candidate = <<>> /\ queue = <<>> /\ trial = {} /\ used = 0
  /\ job = <<>> /\ best = <<>> /\ nodes = <<>> /\ open = {} /\ expanded = 0
  /\ verdict = "idle" /\ schedule = <<>>
  /\ tree = {} /\ next_id = 0 /\ taken = 0 /\ answer = "idle" /\ agreed = <<>>

(* Robots that collide before they move are turned down. *)
StartsCollide ==
  getFirstConflict(mission, [r \in Robots |-> <<1>>]) # {}

CheckStarts ==
  /\ phase = "start"
  /\ phase' = IF StartsCollide THEN "rejected" ELSE "schedule"
  /\ UNCHANGED <<mission, plans, agent, blocking, candidate, queue, trial, used, searchVars>>
-----------------------------------------------------------------------------
(* prioritized_schedule *)

ScheduleNext ==
  /\ phase = "schedule"
  /\ verdict = "idle"
  /\ agent <= RobotCount
  /\ StartSearch(prepare_reservations(agent, plans, 1..(agent - 1)), 0)
  /\ UNCHANGED coordinatorVars

SearchOn ==
  /\ Search
  /\ UNCHANGED coordinatorVars

(* The departures that track o took from a robot that ran its route by     *)
(* plan: the ticks t at which it waited to begin a move and the frames g   *)
(* of the move it could not have left because of o.                        *)
BlockedDepartures(route, plan, o) ==
  LET Waits == {t \in 0..(Len(plan) - 2) : plan[t + 1] = plan[t + 2]}
      Move(t) == plan[t + 1]..(MoveEnd(route, plan[t + 1]) - 1)
      Blocked(t, g) ==
        t + g - plan[t + 1] \in Ticks(MotionOf(o, route[g], route[g + 1], Horizon))
  IN {tg \in Waits \X DOMAIN route : tg[2] \in Move(tg[1]) /\ Blocked(tg[1], tg[2])}

Scheduled ==
  /\ phase = "schedule"
  /\ verdict = "found"
  /\ plans' = [plans EXCEPT ![agent] = schedule]
  /\ blocking' =
       [blocking EXCEPT ![agent] =
          [r \in Robots |->
             LET own == {o \in job.tracks : o.robot = r}
             IN Cardinality(UNION {BlockedDepartures(job.route, schedule, o) : o \in own})]]
  /\ agent' = agent + 1
  /\ ClearSearch
  /\ UNCHANGED <<mission, phase, candidate, queue, trial, used>>

NoSchedule ==
  /\ phase = "schedule"
  /\ verdict = "failed"
  /\ phase' = "cbs"
  /\ ClearSearch
  /\ UNCHANGED <<mission, plans, agent, blocking, candidate, queue, trial, used>>

AllScheduled ==
  /\ phase = "schedule"
  /\ agent > RobotCount
  /\ phase' = IF getFirstConflict(mission, plans) # {} THEN "cbs" ELSE "repair"
  /\ UNCHANGED <<mission, plans, agent, blocking, candidate, queue, trial, used, searchVars>>
-----------------------------------------------------------------------------
(* repair_critical_schedule *)

(* The first of the robots that finish last. *)
Critical == Min({r \in Robots : Cost(plans[r]) = Makespan(plans)})

Mandatory == Len(mission.routes[Critical]) - 1

Blockers == {r \in Robots \ {Critical} : blocking[Critical][r] > 0}

(* The two that cost it most, the first of equals. *)
WorstBlockers ==
  LET Worse(a, b) == \/ blocking[Critical][a] > blocking[Critical][b]
                     \/ blocking[Critical][a] = blocking[Critical][b] /\ a < b
  IN {r \in Blockers : Cardinality({o \in Blockers : Worse(o, r)}) < 2}

WorthRepairing ==
  /\ mission.repair
  /\ RobotCount >= 2
  /\ Cost(plans[Critical]) - Mandatory >= AtLeast(2, Mandatory \div 20)
  /\ Blockers # {}

SkipRepair ==
  /\ phase = "repair"
  /\ ~WorthRepairing
  /\ phase' = "done"
  /\ UNCHANGED <<mission, plans, agent, blocking, candidate, queue, trial, used, searchVars>>

(* The robot that finishes last first, then the others in their order. *)
BeginRepair ==
  /\ phase = "repair"
  /\ WorthRepairing
  /\ phase' = "trying"
  /\ candidate' = plans
  /\ trial' = {Critical} \cup WorstBlockers
  /\ queue' = <<Critical>> \o InOrder(WorstBlockers)
  /\ used' = 0
  /\ UNCHANGED <<mission, plans, agent, blocking, searchVars>>

(* All robots but those still to be rescheduled keep their schedules. *)
Reschedule ==
  /\ phase = "trying"
  /\ verdict = "idle"
  /\ queue # <<>>
  /\ used < mission.max_nodes
  /\ StartSearch(prepare_reservations(Head(queue), candidate, Robots \ Range(queue)),
                 mission.max_nodes - used)
  /\ UNCHANGED coordinatorVars

RescheduledAgain ==   \* mutated: the robot is not marked as done
  /\ phase = "trying"
  /\ verdict = "found"
  /\ candidate' = [candidate EXCEPT ![Head(queue)] = schedule]
  /\ ClearSearch
  /\ UNCHANGED <<mission, phase, plans, agent, blocking, trial, queue, used>>

Rescheduled ==
  /\ phase = "trying"
  /\ verdict = "found"
  /\ candidate' = [candidate EXCEPT ![Head(queue)] = schedule]
  /\ queue' = Tail(queue)
  /\ used' = used + expanded
  /\ ClearSearch
  /\ UNCHANGED <<mission, phase, plans, agent, blocking, trial>>

(* No schedule within the nodes left, no nodes left for the next search,   *)
(* or no time left: the schedules stay as they were.                       *)
EndRepair ==
  /\ phase' = "done"
  /\ ClearSearch
  /\ UNCHANGED <<mission, plans, agent, blocking, candidate, queue, trial, used>>

RepairFails == phase = "trying" /\ verdict = "failed" /\ EndRepair

OutOfNodes ==
  /\ phase = "trying"
  /\ verdict = "idle"
  /\ queue # <<>>
  /\ used >= mission.max_nodes
  /\ EndRepair

OutOfTime == phase = "trying" /\ EndRepair

NoLonger(new, old) ==   \* mutated: <= for <, and the total is not compared
  Makespan(new) <= Makespan(old)

Improvement(new, old) ==
  /\ Makespan(new) < Makespan(old)
  /\ TotalCost(new) <= TotalCost(old)

Retried == phase = "trying" /\ queue = <<>>

AcceptRepair ==
  /\ Retried
  /\ Improvement(candidate, plans)
  /\ getFirstConflict(mission, candidate) = {}
  /\ plans' = candidate
  /\ phase' = "done"
  /\ UNCHANGED <<mission, agent, blocking, candidate, queue, trial, used, searchVars>>

RejectRepair ==
  /\ Retried
  /\ ~Improvement(candidate, plans) \/ getFirstConflict(mission, candidate) # {}
  /\ EndRepair
-----------------------------------------------------------------------------
(* The fallback starts from the routes alone. *)
FallBack ==
  /\ phase = "cbs"
  /\ Cbs!Start \/ Cbs!Step
  /\ UNCHANGED <<coordinatorVars, searchVars>>

AgreedByCbs ==
  /\ phase = "cbs"
  /\ answer = "found"
  /\ plans' = agreed
  /\ phase' = "done"
  /\ UNCHANGED <<mission, agent, blocking, candidate, queue, trial, used, searchVars>>

CbsFails ==
  /\ phase = "cbs"
  /\ answer \in {"limit", "none"}
  /\ phase' = "failed"
  /\ UNCHANGED <<mission, plans, agent, blocking, candidate, queue, trial, used, searchVars>>
-----------------------------------------------------------------------------
Ended == phase \in {"done", "rejected", "failed"}

Returned == Ended /\ UNCHANGED vars

Prioritized ==
  \/ CheckStarts \/ ScheduleNext \/ SearchOn \/ Scheduled \/ NoSchedule \/ AllScheduled
  \/ SkipRepair \/ BeginRepair \/ Reschedule \/ Rescheduled
  \/ RepairFails \/ OutOfNodes \/ OutOfTime \/ AcceptRepair \/ RejectRepair

Next ==
  \/ (Prioritized \/ AgreedByCbs \/ CbsFails) /\ UNCHANGED cbsVars
  \/ FallBack
  \/ Returned

(* The call is one thread: until it ends it takes its next step.  (That it *)
(* always has one is what the check for deadlocks says.)                   *)
GoesOn == []<>Ended \/ []<><<Next>>_vars

Spec == Init /\ [][Next]_vars /\ GoesOn
-----------------------------------------------------------------------------
Meets(schedules, a, b) ==
  \E t \in 0..Makespan(schedules) : MeetAt(mission, schedules, a, b, t)

(* Schedules found one at a time around those found before are free of     *)
(* conflicts between any two, so that the checks that prioritized_schedule *)
(* and the repair make at their end never fail; and so are those that are  *)
(* returned, by whichever of the three ways they were come by.             *)
DecidedNeverMeet ==
  /\ phase = "schedule" =>
       \A a, b \in 1..(agent - 1) :
         a < b => ~Meets([r \in 1..(agent - 1) |-> plans[r]], a, b)
  /\ phase = "trying" =>
       \A a, b \in Robots \ Range(queue) : a < b => ~Meets(candidate, a, b)
  /\ phase \in {"repair", "trying", "done"} =>
       \A a, b \in Robots : a < b => ~Meets(plans, a, b)

(* The ticks the first n routes take with nothing in their way.            *)
Lengths(n) ==
  LET upTo[k \in 0..RobotCount] ==
        IF k = 0 THEN 0 ELSE upTo[k - 1] + (Len(mission.routes[k]) - 1)
  IN upTo[n]

(* The sum of the frame counts is horizon enough: once the robots before   *)
(* it have stopped nothing moves in a robot's way, so it finishes within   *)
(* the length of its route after the last of them, or never.  A repair     *)
(* changes the order, not the sum over all robots.                         *)
HorizonSuffices ==
  answer # "found" => \A r \in 1..(agent - 1) :
    Cost(plans[r]) <= Lengths(IF phase = "done" THEN RobotCount ELSE r)

(* Conflict-based search agrees on schedules of the least total cost there *)
(* is, and never runs out of nodes to take: as the robots can always wait  *)
(* for one another where they start, it fails by its node limit only.      *)
CheapestAgreed ==
  /\ answer # "none"
  /\ phase = "done" /\ answer = "found" => ~CheaperExists(mission, TotalCost(plans))

(* The plans of every open node keep its constraints: those on a cell or a *)
(* resource also where the robot is parked when its plan is over, and      *)
(* those on a move as long as it is under way.  Once it is parked it does  *)
(* not heed them (multi_map_coordinator.cpp:321-325), see                  *)
(* NoConstraintTwice.                                                      *)
ConstraintsKept ==
  \A n \in tree : \A r \in Robots : \A c \in n.constraints[r] :
    LET path == PathOf(mission, n.solution, r)
        frame == FrameAt(path, c[2])
        next == FrameAt(path, c[2] + 1)
    IN /\ c[1] = "vertex" => frame.pos # c[3]
       /\ c[1] = "resource" => frame.res # c[3]
       /\ c[1] = "edge" /\ c[2] < Cost(path) => ~(frame.pos = c[3] /\ next.pos = c[4])

(* assert(!newNode.constraints[i].overlap(c.second)), that is: no conflict  *)
(* gives a robot a constraint that it has in the node taken already         *)
(* (conflict_based_search.hpp:166).                                        *)
NoConstraintTwice ==
  answer = "searching" /\ ~Cbs!LimitReached =>
    \A n \in Cbs!Cheapest : \A c \in getFirstConflict(mission, n.solution) :
      LET added == createConstraintsFromConflict(c)
      IN \A r \in DOMAIN added : added[r] \cap n.constraints[r] = {}

(* What the caller gets: nothing until every robot has a schedule, then    *)
(* those of the first pass, and perhaps the repaired ones, or those agreed *)
(* by conflict-based search.                                               *)
Published == IF phase \in {"repair", "trying", "done"} THEN plans ELSE <<>>

Contract == INSTANCE CoordinationContract WITH published <- Published

(* The call publishes sound schedules only, and a repair of them only when *)
(* it is better, whatever runs out half way.                               *)
ImplementsContract == Contract!Spec

(* The call ends: every search does, and a robot is rescheduled only once. *)
Terminates == <>Ended

(* "capacity-1 shared resources, and the end point stays occupied"         *)
(* (README.md:199, translated): of the robots whose schedules are          *)
(* returned, no two are in cells of one shared region at the same tick.    *)
RegionHoldsOne ==
  phase = "done" =>
    \A a, b \in Robots, t \in 0..Makespan(plans), cells \in mission.regions :
      a < b => ~(/\ FrameAt(PathOf(mission, plans, a), t).pos \in cells
                 /\ FrameAt(PathOf(mission, plans, b), t).pos \in cells)
=============================================================================
