------------------------ MODULE CoordinationContract ------------------------
(***************************************************************************)
(* What the time coordination of routes promises its caller: schedules     *)
(* that send no two robots into each other, and at most one repair of them *)
(* that is better for the last robot to finish, no worse for all robots    *)
(* together and leaves all but three alone.                                *)
(*                                                                         *)
(* A schedule gives the frame of a robot's route for every tick from 0 on; *)
(* the robot stays at the last.                                            *)
(***************************************************************************)
EXTENDS TickSchedule, FiniteSets

CONSTANT Missions   \* [routes, size, repair, max_nodes], one route and size per robot

VARIABLES mission,
          published   \* the schedules decided on, or <<>>

contractVars == <<mission, published>>

ConflictFree(m, plans) ==
  \A a, b \in DOMAIN m.routes :
    a < b => \A t \in 0..Makespan(plans) : ~MeetAt(m, plans, a, b, t)

Sound(m, plans) ==
  /\ DOMAIN plans = DOMAIN m.routes
  /\ \A r \in DOMAIN m.routes : Follows(m.routes[r], plans[r])
  /\ ConflictFree(m, plans)

Better(m, new, old) ==
  /\ Makespan(new) < Makespan(old)
  /\ TotalCost(new) <= TotalCost(old)
  /\ Cardinality({r \in DOMAIN m.routes : new[r] # old[r]}) <= 3
-----------------------------------------------------------------------------
Init == mission \in Missions /\ published = <<>>

Publish ==
  /\ published = <<>>
  /\ published' # <<>>
  /\ Sound(mission, published')
  /\ UNCHANGED mission

Repair ==
  /\ published # <<>>
  /\ Sound(mission, published')
  /\ Better(mission, published', published)
  /\ UNCHANGED mission

Next == Publish \/ Repair

Spec == Init /\ [][Next]_contractVars
=============================================================================
