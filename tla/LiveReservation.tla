--------------------------- MODULE LiveReservation ---------------------------
(***************************************************************************)
(* LiveReservationTable (live_reservation.cpp): the execution-layer table  *)
(* of timed resource reservations.  An adapter calls try_reserve,          *)
(* update_progress and release_robot, in any order and with any ticks: the *)
(* progress reports of a robot may arrive late, twice or out of order.     *)
(*                                                                         *)
(* The vector _reservations is a set here: the code never looks at the     *)
(* order of its items and keeps no two equal ones.                         *)
(***************************************************************************)
EXTENDS Integers

CONSTANTS
  Robots,      \* robot ids
  Resources,   \* resource names
  Clock,       \* the ticks calls are made with
  NoName       \* the empty string, which try_reserve rejects as an id

ASSUME ClockAssumption == Clock \subseteq Int
ASSUME NoNameAssumption == NoName \notin Robots \cup Resources

VARIABLES
  reservations,   \* the table
  granted         \* what the latest try_reserve returned

tableVars == <<reservations, granted>>

Candidate == [resource : Resources \cup {NoName}, robot_id : Robots \cup {NoName},
              start_tick : Clock, end_tick : Clock]

tableInit ==
  /\ reservations = {}
  /\ granted = FALSE

(* Both ends of an interval are reserved: intervals that share one tick    *)
(* overlap.                                                                *)
OverlapOpen(a, b) ==   \* mutated: intervals that touch are taken for disjoint
  a.start_tick < b.end_tick /\ b.start_tick < a.end_tick

Overlap(a, b) == a.start_tick <= b.end_tick /\ b.start_tick <= a.end_tick

Malformed(c) ==
  \/ c.resource = NoName
  \/ c.robot_id = NoName
  \/ c.start_tick > c.end_tick

Contended(c) ==
  \E e \in reservations :
    /\ e.resource = c.resource
    /\ e.robot_id # c.robot_id
    /\ Overlap(e, c)

(* The robot's earlier entry for the same resource, which a grant replaces. *)
SameInterval(e, c) ==  \* mutated: a renewal replaces only the entry it repeats
  e.robot_id = c.robot_id /\ e.resource = c.resource /\ e.start_tick = c.start_tick

SameSlot(e, c) == e.robot_id = c.robot_id /\ e.resource = c.resource

try_reserve(c) ==
  \/ /\ Malformed(c) \/ Contended(c)
     /\ granted' = FALSE
     /\ UNCHANGED reservations
  \/ /\ ~Malformed(c)
     /\ ~Contended(c)
     /\ reservations' = {e \in reservations : ~SameSlot(e, c)} \cup {c}
     /\ granted' = TRUE

release_robot(r) ==
  /\ reservations' = {e \in reservations : e.robot_id # r}
  /\ UNCHANGED granted

(* r reports that it has reached tick now: its entries start no earlier    *)
(* than now, and those that ended before it are dropped.                   *)
Restarted(e, r, now) ==   \* mutated: the latest report wins, even a stale one
  IF e.robot_id = r THEN [e EXCEPT !.start_tick = now] ELSE e

Trimmed(e, r, now) ==
  IF e.robot_id = r /\ e.start_tick < now THEN [e EXCEPT !.start_tick = now] ELSE e

ExpiredLate(e, r, now) ==   \* mutated: an entry that just ended is kept
  e.robot_id = r /\ e.end_tick < now - 1

Expired(e, r, now) == e.robot_id = r /\ e.end_tick < now

update_progress(r, now) ==
  /\ reservations' = {Trimmed(e, r, now) : e \in {x \in reservations : ~Expired(x, r, now)}}
  /\ UNCHANGED granted

tableNext ==
  \/ \E c \in Candidate : try_reserve(c)
  \/ \E r \in Robots : release_robot(r)
  \/ \E r \in Robots, now \in Clock : update_progress(r, now)

tableSpec == tableInit /\ [][tableNext]_tableVars
-----------------------------------------------------------------------------
(* Every entry has a resource, a robot and a non-empty interval, whatever   *)
(* progress has been reported on it (live_reservation.cpp:9, 37).           *)
Reservation ==
  {e \in [resource : Resources, robot_id : Robots, start_tick : Clock, end_tick : Clock] :
     e.start_tick <= e.end_tick}

TypeOK ==
  /\ reservations \subseteq Reservation
  /\ granted \in BOOLEAN

(* Two robots never hold the same resource at the same tick, whatever the  *)
(* sequence of grants, renewals and late progress reports                  *)
(* (live_reservation.cpp:11-16).                                           *)
Covers(e, res, t) == e.resource = res /\ e.start_tick <= t /\ t <= e.end_tick

Exclusive ==
  \A e, f \in reservations : \A res \in Resources, t \in Clock :
    Covers(e, res, t) /\ Covers(f, res, t) => e.robot_id = f.robot_id

(* A renewal leaves no second entry behind that would keep ticks reserved  *)
(* after the robot gave them up (live_reservation.cpp:17-20).              *)
SingleSlot ==
  \A e, f \in reservations :
    e.robot_id = f.robot_id /\ e.resource = f.resource => e = f

(* The table is a calendar: it answers every request, and moves every tick *)
(* of every resource between robots, as ResourceCalendar allows.           *)
HolderIn(table, res, t) ==
  CHOOSE r \in Robots \cup {NoName} :
    IF \E e \in table : Covers(e, res, t)
    THEN \E e \in table : Covers(e, res, t) /\ e.robot_id = r
    ELSE r = NoName

Owner == [res \in Resources |-> [t \in Clock |-> HolderIn(reservations, res, t)]]

Calendar == INSTANCE ResourceCalendar WITH owner <- Owner

ImplementsCalendar == Calendar!Spec
=============================================================================
