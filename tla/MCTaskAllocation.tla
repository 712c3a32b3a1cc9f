-------------------------- MODULE MCTaskAllocation --------------------------
(* Two or three robots of different speeds and abilities and up to four    *)
(* tasks on a small floor, two of them at one place, with budgets that cut *)
(* the search short and budgets that do not.                               *)
EXTENDS TaskAllocation

Places == {<<0, 0>>, <<1, 0>>, <<3, 0>>, <<0, 2>>, <<2, 2>>, <<4, 1>>}

Abs(n) == IF n < 0 THEN -n ELSE n

(* Rounded up, for robots that take pace / 2 ticks per cell.               *)
Ticks(pace) ==
  [leg \in Places \X Places |->
     (pace * (Abs(leg[1][1] - leg[2][1]) + Abs(leg[1][2] - leg[2][2])) + 1) \div 2]

(* There is no way for it from the place, nor perhaps to it.                *)
CutOff(ticks, place, ends) ==
  [leg \in DOMAIN ticks |->
     IF (\E k \in ends : leg[k] = place) /\ leg[1] # leg[2] THEN NoPath ELSE ticks[leg]]

Robot(start, home, caps, pace) ==
  [start |-> start, home |-> home, caps |-> caps, ticks |-> Ticks(pace)]

Task(location, needs, service, tolerance, high) ==
  [location |-> location, needs |-> needs, service |-> service,
   tolerance |-> tolerance, high |-> high]

Fleets ==
  {<<Robot(<<0, 0>>, home, {"lift", "scan"}, 2), Robot(<<4, 1>>, NoHome, {"scan"}, pace)>> :
     home \in {NoHome, <<0, 0>>}, pace \in {2, 3}}
  \cup {<<Robot(<<0, 0>>, NoHome, {"lift", "scan"}, 2), Robot(<<0, 2>>, <<0, 2>>, {"scan"}, 3),
          Robot(<<4, 1>>, <<4, 1>>, {"lift"}, 1)>>}
  \cup {<<Robot(<<0, 0>>, NoHome, {"lift", "scan"}, 2),
          [Robot(<<4, 1>>, NoHome, {"scan"}, 2) EXCEPT !.ticks = CutOff(@, <<2, 2>>, ends)]>> :
          ends \in {{1}, {1, 2}}}

TaskLists ==
  {<<Task(<<1, 0>>, {}, 0, 0, FALSE), Task(<<3, 0>>, needs, service, 1, TRUE),
     Task(<<2, 2>>, {}, 1, 0, FALSE), Task(<<3, 0>>, {"scan"}, 0, 2, FALSE)>> :
     needs \in {{}, {"lift"}}, service \in {0, 4}}
  \cup {<<Task(<<0, 2>>, {"scan"}, 1, 0, FALSE), Task(<<1, 0>>, {}, 0, 0, TRUE),
          Task(<<3, 0>>, {}, 2, 0, FALSE)>>}

MCProblems ==
  [robots : Fleets, tasks : TaskLists,
   weights : {[maximum |-> 10, total |-> 1], [maximum |-> 0, total |-> 1]},
   options : {[max_passes |-> most, max_candidates |-> candidates,
               balance |-> TRUE, slack |-> slack] :
                most \in {1, 4}, candidates \in {20, 1000}, slack \in {0, 10, 60}}
             \cup {[max_passes |-> 8, max_candidates |-> 1000,
                    balance |-> FALSE, slack |-> 10]}]
=============================================================================
