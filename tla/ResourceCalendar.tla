-------------------------- MODULE ResourceCalendar --------------------------
(***************************************************************************)
(* What the execution-layer reservation table promises its adapter: every  *)
(* tick of every resource belongs to at most one robot.  A robot is given  *)
(* a whole interval or nothing, a new interval replaces the one the robot  *)
(* had on that resource, and only a robot's own calls give up its ticks.   *)
(***************************************************************************)
EXTENDS Integers

CONSTANTS
  Robots,      \* robot ids
  Resources,   \* resource names
  Clock,       \* the ticks reservations are made for
  NoName       \* the empty string: no robot, no resource

VARIABLES
  owner,       \* owner[res][t]: the robot that holds res at tick t, or NoName
  granted      \* the answer of the latest request

calendar == <<owner, granted>>

Init ==
  /\ owner = [res \in Resources |-> [t \in Clock |-> NoName]]
  /\ granted = FALSE

(* r asks for all the ticks of I on res: granted exactly when no other     *)
(* robot holds one of them.                                                *)
Available(r, res, I) == \A t \in I : owner[res][t] \in {NoName, r}

Reserve(r, res, I) ==
  /\ granted' = TRUE
  /\ I # {}
  /\ Available(r, res, I)
  /\ owner' = [owner EXCEPT ![res] =
                 [t \in Clock |-> IF t \in I THEN r
                                  ELSE IF @[t] = r THEN NoName ELSE @[t]]]

Refuse(r, res, I) ==
  /\ granted' = FALSE
  /\ I = {} \/ res = NoName \/ r = NoName \/ ~Available(r, res, I)
  /\ UNCHANGED owner

(* r gives up its ticks before now, on every resource. *)
Progress(r, now) ==
  /\ owner' = [res \in Resources |->
                 [t \in Clock |-> IF owner[res][t] = r /\ t < now
                                  THEN NoName ELSE owner[res][t]]]
  /\ UNCHANGED granted

Release(r) ==
  /\ owner' = [res \in Resources |->
                 [t \in Clock |-> IF owner[res][t] = r
                                  THEN NoName ELSE owner[res][t]]]
  /\ UNCHANGED granted

Interval(a, b) == {t \in Clock : a <= t /\ t <= b}

Next ==
  \/ \E r \in Robots, res \in Resources, a, b \in Clock :
       Reserve(r, res, Interval(a, b))
  \/ \E r \in Robots \cup {NoName}, res \in Resources \cup {NoName}, a, b \in Clock :
       Refuse(r, res, Interval(a, b))
  \/ \E r \in Robots, now \in Clock : Progress(r, now)
  \/ \E r \in Robots : Release(r)

Spec == Init /\ [][Next]_calendar
=============================================================================
