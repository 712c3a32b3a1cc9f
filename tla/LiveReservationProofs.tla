------------------------ MODULE LiveReservationProofs ------------------------
(***************************************************************************)
(* Theorems about LiveReservation, for any robots, resources and ticks:    *)
(* the table never gives a resource to two robots at once, keeps one entry *)
(* per robot and resource, and implements ResourceCalendar.                *)
(***************************************************************************)
EXTENDS LiveReservation, TLAPS

(* Exclusive alone is inductive given the types; SingleSlot is what makes   *)
(* the entries of a robot on one resource the interval of its latest grant. *)
IInv == TypeOK /\ Exclusive /\ SingleSlot

-----------------------------------------------------------------------------
(* A progress report leaves an entry on its resource and robot and takes    *)
(* away ticks only; what is left of an unexpired entry is not empty.        *)
LEMMA TrimmedShrinks ==
  ASSUME NEW e \in Reservation, NEW r \in Robots, NEW now \in Clock,
         ~Expired(e, r, now)
  PROVE  /\ Trimmed(e, r, now) \in Reservation
         /\ Trimmed(e, r, now).resource = e.resource
         /\ Trimmed(e, r, now).robot_id = e.robot_id
         /\ \A res : \A t \in Clock : Covers(Trimmed(e, r, now), res, t) => Covers(e, res, t)
<1>1. /\ e.start_tick \in Clock /\ e.end_tick \in Clock
      /\ e.start_tick \in Int /\ e.end_tick \in Int /\ now \in Int
      /\ e.start_tick <= e.end_tick
  BY ClockAssumption DEF Reservation
<1>2. CASE e.robot_id = r /\ e.start_tick < now
  <2>1. Trimmed(e, r, now) = [e EXCEPT !.start_tick = now]
    BY <1>2 DEF Trimmed
  <2>2. now <= e.end_tick /\ e.start_tick <= now
    BY <1>1, <1>2 DEF Expired
  <2>3. Trimmed(e, r, now) \in Reservation
    BY <2>1, <2>2 DEF Reservation
  <2>4. /\ Trimmed(e, r, now).resource = e.resource
        /\ Trimmed(e, r, now).robot_id = e.robot_id
        /\ Trimmed(e, r, now).start_tick = now
        /\ Trimmed(e, r, now).end_tick = e.end_tick
    BY <2>1 DEF Reservation
  <2>5. ASSUME NEW res, NEW t \in Clock, Covers(Trimmed(e, r, now), res, t)
        PROVE  Covers(e, res, t)
    <3>1. t \in Int
      BY ClockAssumption
    <3> QED BY <1>1, <2>2, <2>4, <2>5, <3>1 DEF Covers
  <2> QED BY <2>3, <2>4, <2>5
<1>3. CASE ~(e.robot_id = r /\ e.start_tick < now)
  BY <1>3 DEF Trimmed
<1> QED BY <1>2, <1>3

-----------------------------------------------------------------------------
(* Granting an uncontended interval gives no tick to two robots.            *)
LEMMA GrantKeepsInv ==
  ASSUME IInv, NEW c \in Candidate, try_reserve(c)
  PROVE  IInv'
<1>1. CASE UNCHANGED reservations /\ granted' = FALSE
  BY <1>1 DEF IInv, TypeOK, Exclusive, SingleSlot
<1>2. CASE /\ ~Malformed(c) /\ ~Contended(c)
           /\ reservations' = {e \in reservations : ~SameSlot(e, c)} \cup {c}
           /\ granted' = TRUE
  <2>1. c \in Reservation
    <3>1. /\ c.resource \in Resources /\ c.robot_id \in Robots
          /\ c.start_tick \in Clock /\ c.end_tick \in Clock
          /\ ~(c.start_tick > c.end_tick)
      BY <1>2 DEF Malformed, Candidate
    <3>2. c.start_tick \in Int /\ c.end_tick \in Int
      BY <3>1, ClockAssumption
    <3>3. c.start_tick <= c.end_tick
      BY <3>1, <3>2
    <3> QED BY <3>1, <3>3 DEF Candidate, Reservation
  <2>2. TypeOK'
    BY <1>2, <2>1 DEF IInv, TypeOK
  <2>3. ASSUME NEW e \in reservations, NEW res \in Resources, NEW t \in Clock,
               Covers(e, res, t), Covers(c, res, t)
        PROVE  e.robot_id = c.robot_id
    <3>1. /\ e.start_tick \in Int /\ e.end_tick \in Int
          /\ c.start_tick \in Int /\ c.end_tick \in Int /\ t \in Int
      BY <2>1, ClockAssumption DEF IInv, TypeOK, Reservation
    <3>2. e.resource = c.resource /\ Overlap(e, c)
      BY <2>3, <3>1 DEF Covers, Overlap
    <3> QED BY <1>2, <3>2 DEF Contended
  <2>4. Exclusive'
    BY <1>2, <2>3 DEF IInv, Exclusive
  <2>5. SingleSlot'
    BY <1>2 DEF IInv, SingleSlot, SameSlot
  <2> QED BY <2>2, <2>4, <2>5 DEF IInv
<1> QED BY <1>1, <1>2 DEF try_reserve

LEMMA ReleaseKeepsInv ==
  ASSUME IInv, NEW r \in Robots, release_robot(r)
  PROVE  IInv'
BY DEF IInv, TypeOK, Exclusive, SingleSlot, release_robot

(* A progress report, however stale, only takes ticks away.                 *)
LEMMA ProgressKeepsInv ==
  ASSUME IInv, NEW r \in Robots, NEW now \in Clock, update_progress(r, now)
  PROVE  IInv'
<1>1. ASSUME NEW f \in reservations'
      PROVE  \E e \in reservations :
               /\ f \in Reservation
               /\ f = Trimmed(e, r, now)
               /\ f.resource = e.resource /\ f.robot_id = e.robot_id
               /\ \A res : \A t \in Clock : Covers(f, res, t) => Covers(e, res, t)
  <2>1. PICK e \in reservations : ~Expired(e, r, now) /\ f = Trimmed(e, r, now)
    BY <1>1 DEF update_progress
  <2>2. e \in Reservation
    BY DEF IInv, TypeOK
  <2> QED BY <2>1, <2>2, TrimmedShrinks
<1>2. TypeOK'
  BY <1>1 DEF IInv, TypeOK, update_progress
<1>3. Exclusive'
  BY <1>1 DEF IInv, Exclusive
<1>4. SingleSlot'
  BY <1>1 DEF IInv, SingleSlot
<1> QED BY <1>2, <1>3, <1>4 DEF IInv

LEMMA InductiveInvariant ==
  /\ tableInit => IInv
  /\ IInv /\ [tableNext]_tableVars => IInv'
<1>1. tableInit => IInv
  BY DEF tableInit, IInv, TypeOK, Exclusive, SingleSlot
<1>2. ASSUME IInv, [tableNext]_tableVars
      PROVE  IInv'
  <2>1. CASE UNCHANGED tableVars
    BY <1>2, <2>1 DEF tableVars, IInv, TypeOK, Exclusive, SingleSlot
  <2>2. CASE tableNext
    BY <1>2, <2>2, GrantKeepsInv, ReleaseKeepsInv, ProgressKeepsInv DEF tableNext
  <2> QED BY <1>2, <2>1, <2>2
<1> QED BY <1>1, <1>2

(* Every entry is a reservation with a resource, a robot and a non-empty    *)
(* interval (live_reservation.cpp:9, 33-44).                                *)
THEOREM TypeCorrect == tableSpec => []TypeOK
<1>1. IInv => TypeOK
  BY DEF IInv
<1> QED BY <1>1, InductiveInvariant, PTL DEF tableSpec

(* No tick of a resource is held by two robots, for any number of robots,   *)
(* resources and ticks, and any sequence of calls                           *)
(* (live_reservation.cpp:11-16).                                            *)
THEOREM MutualExclusion == tableSpec => []Exclusive
<1>1. IInv => Exclusive
  BY DEF IInv
<1> QED BY <1>1, InductiveInvariant, PTL DEF tableSpec

(* A robot has at most one entry per resource, the one its latest grant     *)
(* left (live_reservation.cpp:17-21).                                       *)
THEOREM OneEntryPerRobot == tableSpec => []SingleSlot
<1>1. IInv => SingleSlot
  BY DEF IInv
<1> QED BY <1>1, InductiveInvariant, PTL DEF tableSpec

-----------------------------------------------------------------------------
(* The robot an entry covering a tick belongs to is the tick's holder, and  *)
(* a tick no entry covers has none: what Owner means for a table that       *)
(* gives no tick to two robots.                                             *)
Disjoint(table) ==
  \A e, f \in table : \A res \in Resources, t \in Clock :
    Covers(e, res, t) /\ Covers(f, res, t) => e.robot_id = f.robot_id

LEMMA HolderOfCovered ==
  ASSUME NEW table \in SUBSET Reservation, Disjoint(table),
         NEW res \in Resources, NEW t \in Clock,
         NEW e \in table, Covers(e, res, t)
  PROVE  HolderIn(table, res, t) = e.robot_id
<1>1. e.robot_id \in Robots
  BY DEF Reservation
<1>2. \A f \in table : Covers(f, res, t) => f.robot_id = e.robot_id
  BY DEF Disjoint
<1> QED BY <1>1, <1>2 DEF HolderIn

LEMMA HolderOfFree ==
  ASSUME NEW table, NEW res, NEW t,
         \A e \in table : ~Covers(e, res, t)
  PROVE  HolderIn(table, res, t) = NoName
BY DEF HolderIn

LEMMA TableIsDisjoint ==
  ASSUME IInv
  PROVE  reservations \in SUBSET Reservation /\ Disjoint(reservations)
BY DEF IInv, TypeOK, Exclusive, Disjoint

LEMMA NextTableIsDisjoint ==
  ASSUME IInv'
  PROVE  reservations' \in SUBSET Reservation /\ Disjoint(reservations')
BY DEF IInv, TypeOK, Exclusive, Disjoint

LEMMA InitMaps == tableInit => Calendar!Init
<1>1. ASSUME tableInit
      PROVE  \A res \in Resources, t \in Clock : HolderIn(reservations, res, t) = NoName
  BY <1>1, HolderOfFree DEF tableInit
<1> QED BY <1>1 DEF tableInit, Calendar!Init, Owner

LEMMA ReleaseMaps ==
  ASSUME IInv, IInv', NEW r \in Robots, release_robot(r)
  PROVE  Calendar!Release(r)
<1> DEFINE Freed(res, t) == IF Owner[res][t] = r THEN NoName ELSE Owner[res][t]
<1>1. ASSUME NEW res \in Resources, NEW t \in Clock
      PROVE  HolderIn(reservations', res, t) = Freed(res, t)
  <2>1. Owner[res][t] = HolderIn(reservations, res, t)
    BY DEF Owner
  <2>2. CASE \A e \in reservations : ~Covers(e, res, t)
    <3>1. \A e \in reservations' : ~Covers(e, res, t)
      BY <2>2 DEF release_robot
    <3> QED BY <2>1, <2>2, <3>1, HolderOfFree
  <2>3. ASSUME NEW e \in reservations, Covers(e, res, t)
        PROVE  HolderIn(reservations', res, t) = Freed(res, t)
    <3>1. Owner[res][t] = e.robot_id
      BY <2>1, <2>3, HolderOfCovered, TableIsDisjoint
    <3>2. CASE e.robot_id = r
      <4>1. \A f \in reservations' : ~Covers(f, res, t)
        BY <2>3, <3>2, TableIsDisjoint DEF release_robot, Disjoint
      <4> QED BY <3>1, <3>2, <4>1, HolderOfFree
    <3>3. CASE e.robot_id # r
      <4>1. e \in reservations'
        BY <3>3 DEF release_robot
      <4>2. HolderIn(reservations', res, t) = e.robot_id
        BY <2>3, <4>1, HolderOfCovered, NextTableIsDisjoint
      <4> QED BY <3>1, <3>3, <4>2
    <3> QED BY <3>2, <3>3
  <2> QED BY <2>2, <2>3
<1>2. Owner' = [res \in Resources |-> [t \in Clock |-> Freed(res, t)]]
  BY <1>1 DEF Owner
<1> QED BY <1>2 DEF Calendar!Release, release_robot

LEMMA ProgressMaps ==
  ASSUME IInv, IInv', NEW r \in Robots, NEW now \in Clock, update_progress(r, now)
  PROVE  Calendar!Progress(r, now)
<1> DEFINE Left(res, t) == IF Owner[res][t] = r /\ t < now THEN NoName ELSE Owner[res][t]
<1>1. ASSUME NEW f \in reservations'
      PROVE  \E e \in reservations :
               /\ ~Expired(e, r, now)
               /\ f = Trimmed(e, r, now)
               /\ f.resource = e.resource /\ f.robot_id = e.robot_id
               /\ \A res : \A t \in Clock : Covers(f, res, t) => Covers(e, res, t)
  <2>1. PICK e \in reservations : ~Expired(e, r, now) /\ f = Trimmed(e, r, now)
    BY <1>1 DEF update_progress
  <2> QED BY <2>1, TrimmedShrinks DEF IInv, TypeOK
<1>2. ASSUME NEW res \in Resources, NEW t \in Clock
      PROVE  HolderIn(reservations', res, t) = Left(res, t)
  <2>1. Owner[res][t] = HolderIn(reservations, res, t)
    BY DEF Owner
  <2>2. CASE \A e \in reservations : ~Covers(e, res, t)
    <3>1. \A f \in reservations' : ~Covers(f, res, t)
      BY <1>1, <2>2
    <3> QED BY <2>1, <2>2, <3>1, HolderOfFree
  <2>3. ASSUME NEW e \in reservations, Covers(e, res, t)
        PROVE  HolderIn(reservations', res, t) = Left(res, t)
    <3>1. Owner[res][t] = e.robot_id
      BY <2>1, <2>3, HolderOfCovered, TableIsDisjoint
    <3>2. /\ e.start_tick \in Int /\ e.end_tick \in Int /\ t \in Int /\ now \in Int
          /\ e.start_tick <= t /\ t <= e.end_tick
      BY <2>3, ClockAssumption DEF IInv, TypeOK, Reservation, Covers
    <3>3. CASE e.robot_id = r /\ t < now
      <4>1. ASSUME NEW f \in reservations', Covers(f, res, t)
            PROVE  FALSE
        <5>1. PICK g \in reservations : f = Trimmed(g, r, now) /\ Covers(g, res, t)
          BY <1>1, <4>1
        <5>2. g.robot_id = r /\ g.start_tick <= t
          BY <2>3, <3>3, <5>1, TableIsDisjoint DEF Disjoint, Covers
        <5>3. g.start_tick \in Int
          BY ClockAssumption DEF IInv, TypeOK, Reservation
        <5>4. g.start_tick < now
          BY <3>2, <3>3, <5>2, <5>3
        <5>5. f.start_tick = now
          BY <5>1, <5>2, <5>4 DEF Trimmed, IInv, TypeOK, Reservation
        <5> QED BY <3>2, <3>3, <4>1, <5>5 DEF Covers
      <4> QED BY <3>1, <3>3, <4>1, HolderOfFree
    <3>4. CASE ~(e.robot_id = r /\ t < now)
      <4>1. ~Expired(e, r, now)
        BY <3>2, <3>4 DEF Expired
      <4>2. Trimmed(e, r, now) \in reservations'
        BY <4>1 DEF update_progress
      <4>3. Covers(Trimmed(e, r, now), res, t)
        <5>1. CASE e.robot_id = r /\ e.start_tick < now
          <6>1. /\ Trimmed(e, r, now).start_tick = now
                /\ Trimmed(e, r, now).end_tick = e.end_tick
                /\ Trimmed(e, r, now).resource = e.resource
            BY <5>1 DEF Trimmed, IInv, TypeOK, Reservation
          <6>2. now <= t
            BY <3>2, <3>4, <5>1
          <6> QED BY <2>3, <3>2, <6>1, <6>2 DEF Covers
        <5>2. CASE ~(e.robot_id = r /\ e.start_tick < now)
          BY <2>3, <5>2 DEF Trimmed
        <5> QED BY <5>1, <5>2
      <4>4. Trimmed(e, r, now).robot_id = e.robot_id
        BY <4>1, TrimmedShrinks DEF IInv, TypeOK
      <4>5. HolderIn(reservations', res, t) = e.robot_id
        BY <4>2, <4>3, <4>4, HolderOfCovered, NextTableIsDisjoint
      <4> QED BY <3>1, <3>4, <4>5
    <3> QED BY <3>3, <3>4
  <2> QED BY <2>2, <2>3
<1>3. Owner' = [res \in Resources |-> [t \in Clock |-> Left(res, t)]]
  BY <1>2 DEF Owner
<1> QED BY <1>3 DEF Calendar!Progress, update_progress

(* A grant moves to the robot exactly the ticks of its interval that were   *)
(* free, and gives back the rest of its former interval.                    *)
LEMMA GrantMaps ==
  ASSUME IInv, IInv', NEW c \in Candidate, try_reserve(c),
         ~Malformed(c), ~Contended(c)
  PROVE  Calendar!Reserve(c.robot_id, c.resource,
                          Calendar!Interval(c.start_tick, c.end_tick))
<1> DEFINE I == Calendar!Interval(c.start_tick, c.end_tick)
           Moved(res, t) == IF res = c.resource
                            THEN IF t \in I THEN c.robot_id
                                 ELSE IF Owner[res][t] = c.robot_id THEN NoName
                                      ELSE Owner[res][t]
                            ELSE Owner[res][t]
<1>1. /\ reservations' = {e \in reservations : ~SameSlot(e, c)} \cup {c}
      /\ granted' = TRUE
  BY DEF try_reserve
<1>2. /\ c.resource \in Resources /\ c.robot_id \in Robots
      /\ c.start_tick \in Clock /\ c.end_tick \in Clock
      /\ c.start_tick \in Int /\ c.end_tick \in Int
  BY ClockAssumption DEF Malformed, Candidate
<1>3. c.start_tick <= c.end_tick
  BY <1>2 DEF Malformed
<1>4. \A t \in Clock : t \in I <=> Covers(c, c.resource, t)
  BY DEF Covers, Calendar!Interval
<1>5. I # {}
  BY <1>2, <1>3 DEF Calendar!Interval
<1>6. ASSUME NEW e \in reservations, NEW res \in Resources, NEW t \in Clock,
             Covers(e, res, t), Covers(c, res, t)
      PROVE  e.robot_id = c.robot_id
  <2>1. c \in reservations'
    BY <1>1
  <2>2. CASE SameSlot(e, c)
    BY <2>2 DEF SameSlot
  <2>3. CASE ~SameSlot(e, c)
    BY <1>1, <1>6, <2>1, <2>3, NextTableIsDisjoint DEF Disjoint
  <2> QED BY <2>2, <2>3
<1>7. ASSUME NEW res \in Resources, NEW t \in Clock
      PROVE  HolderIn(reservations', res, t) = Moved(res, t)
  <2>1. Owner[res][t] = HolderIn(reservations, res, t)
    BY DEF Owner
  <2>2. CASE res = c.resource /\ t \in I
    <3>1. c \in reservations' /\ Covers(c, res, t)
      BY <1>1, <1>4, <2>2
    <3>2. HolderIn(reservations', res, t) = c.robot_id
      BY <3>1, HolderOfCovered, NextTableIsDisjoint
    <3> QED BY <2>2, <3>2
  <2>3. CASE ~(res = c.resource /\ t \in I)
    <3>1. ~Covers(c, res, t)
      BY <1>4, <2>3 DEF Covers
    <3>2. CASE \A e \in reservations : ~Covers(e, res, t)
      <4>1. \A e \in reservations' : ~Covers(e, res, t)
        BY <1>1, <3>1, <3>2
      <4>2. Owner[res][t] = NoName /\ HolderIn(reservations', res, t) = NoName
        BY <2>1, <3>2, <4>1, HolderOfFree
      <4> QED BY <2>3, <4>2
    <3>3. ASSUME NEW e \in reservations, Covers(e, res, t)
          PROVE  HolderIn(reservations', res, t) = Moved(res, t)
      <4>1. Owner[res][t] = e.robot_id /\ e.resource = res
        BY <2>1, <3>3, HolderOfCovered, TableIsDisjoint DEF Covers
      <4>2. CASE SameSlot(e, c)
        <5>1. \A f \in reservations : Covers(f, res, t) => SameSlot(f, c)
          BY <3>3, <4>2, TableIsDisjoint DEF Disjoint, SameSlot, Covers
        <5>2. \A f \in reservations' : ~Covers(f, res, t)
          BY <1>1, <3>1, <5>1
        <5>3. HolderIn(reservations', res, t) = NoName
          BY <5>2, HolderOfFree
        <5> QED BY <2>3, <4>1, <4>2, <5>3 DEF SameSlot
      <4>3. CASE ~SameSlot(e, c)
        <5>1. e \in reservations'
          BY <1>1, <4>3
        <5>2. HolderIn(reservations', res, t) = e.robot_id
          BY <3>3, <5>1, HolderOfCovered, NextTableIsDisjoint
        <5>3. res = c.resource => e.robot_id # c.robot_id
          BY <4>1, <4>3 DEF SameSlot
        <5> QED BY <2>3, <4>1, <5>2, <5>3
      <4> QED BY <4>2, <4>3
    <3> QED BY <3>2, <3>3
  <2> QED BY <2>2, <2>3
<1>8. Calendar!Available(c.robot_id, c.resource, I)
  <2> SUFFICES ASSUME NEW t \in I
               PROVE  Owner[c.resource][t] \in {NoName, c.robot_id}
    BY DEF Calendar!Available
  <2>1. t \in Clock
    BY DEF Calendar!Interval
  <2>2. Owner[c.resource][t] = HolderIn(reservations, c.resource, t)
    BY <1>2, <2>1 DEF Owner
  <2>3. CASE \A e \in reservations : ~Covers(e, c.resource, t)
    BY <2>2, <2>3, HolderOfFree
  <2>4. ASSUME NEW e \in reservations, Covers(e, c.resource, t)
        PROVE  Owner[c.resource][t] = c.robot_id
    <3>1. e.robot_id = c.robot_id
      BY <1>2, <1>4, <1>6, <2>1, <2>4
    <3> QED BY <1>2, <2>1, <2>2, <2>4, <3>1, HolderOfCovered, TableIsDisjoint
  <2> QED BY <2>3, <2>4
<1>9. Owner' = [res \in Resources |-> [t \in Clock |-> Moved(res, t)]]
  BY <1>7 DEF Owner
<1>10. Owner' = [Owner EXCEPT ![c.resource] =
                   [t \in Clock |-> IF t \in I THEN c.robot_id
                                    ELSE IF @[t] = c.robot_id THEN NoName ELSE @[t]]]
  <2> DEFINE Row == [t \in Clock |-> IF t \in I THEN c.robot_id
                                     ELSE IF Owner[c.resource][t] = c.robot_id
                                          THEN NoName ELSE Owner[c.resource][t]]
  <2>1. Owner = [res \in Resources |-> Owner[res]]
    BY DEF Owner
  <2>2. \A res \in Resources : Owner[res] = [t \in Clock |-> Owner[res][t]]
    BY DEF Owner
  <2>3. [t \in Clock |-> Moved(c.resource, t)] = Row
    OBVIOUS
  <2>4. ASSUME NEW res \in Resources, res # c.resource
        PROVE  [t \in Clock |-> Moved(res, t)] = Owner[res]
    BY <2>2, <2>4
  <2> HIDE DEF Moved, Row, I
  <2>5. Owner' = [res \in Resources |-> IF res = c.resource THEN Row ELSE Owner[res]]
    BY <1>9, <2>3, <2>4
  <2>6. Owner' = [Owner EXCEPT ![c.resource] = Row]
    BY <1>2, <2>1, <2>5
  <2> QED BY <2>6 DEF Row
<1> HIDE DEF I
<1> QED BY <1>1, <1>5, <1>8, <1>10 DEF Calendar!Reserve, I

(* A refusal changes nothing, and is given only when the interval is empty, *)
(* a name is missing or another robot holds one of the ticks.               *)
LEMMA RefusalMaps ==
  ASSUME IInv, NEW c \in Candidate, Malformed(c) \/ Contended(c),
         granted' = FALSE, UNCHANGED reservations
  PROVE  Calendar!Refuse(c.robot_id, c.resource,
                         Calendar!Interval(c.start_tick, c.end_tick))
<1> DEFINE I == Calendar!Interval(c.start_tick, c.end_tick)
<1>1. /\ c.start_tick \in Clock /\ c.end_tick \in Clock
      /\ c.start_tick \in Int /\ c.end_tick \in Int
  BY ClockAssumption DEF Candidate
<1>2. CASE c.start_tick > c.end_tick
  <2>1. ASSUME NEW t \in I
        PROVE  FALSE
    <3>1. t \in Int /\ c.start_tick <= t /\ t <= c.end_tick
      BY ClockAssumption DEF Calendar!Interval
    <3> QED BY <1>1, <1>2, <3>1
  <2> QED BY <2>1 DEF Calendar!Refuse, Owner
<1>3. CASE c.resource = NoName \/ c.robot_id = NoName
  BY <1>3 DEF Calendar!Refuse, Owner
<1>4. CASE ~Malformed(c)
  <2>1. c.resource \in Resources /\ c.robot_id \in Robots /\ c.start_tick <= c.end_tick
    BY <1>1, <1>4 DEF Malformed, Candidate
  <2>2. PICK e \in reservations :
          e.resource = c.resource /\ e.robot_id # c.robot_id /\ Overlap(e, c)
    BY <1>4 DEF Contended
  <2>3. /\ e.start_tick \in Clock /\ e.start_tick \in Int /\ e.end_tick \in Int
        /\ e.start_tick <= e.end_tick /\ e.robot_id \in Robots
    BY ClockAssumption DEF IInv, TypeOK, Reservation
  <2>4. \E t \in I : Covers(e, c.resource, t)
    <3>1. CASE e.start_tick <= c.start_tick
      BY <1>1, <2>1, <2>2, <2>3, <3>1 DEF Overlap, Covers, Calendar!Interval
    <3>2. CASE c.start_tick <= e.start_tick
      BY <1>1, <2>1, <2>2, <2>3, <3>2 DEF Overlap, Covers, Calendar!Interval
    <3> QED BY <1>1, <2>3, <3>1, <3>2
  <2>5. PICK t \in I : Covers(e, c.resource, t)
    BY <2>4
  <2>6. t \in Clock
    BY DEF Calendar!Interval
  <2>7. Owner[c.resource][t] = e.robot_id
    BY <2>1, <2>5, <2>6, HolderOfCovered, TableIsDisjoint DEF Owner
  <2>8. e.robot_id \notin {NoName, c.robot_id}
    BY <2>2, <2>3, NoNameAssumption
  <2>9. ~Calendar!Available(c.robot_id, c.resource, I)
    BY <2>5, <2>7, <2>8 DEF Calendar!Available
  <2> QED BY <2>9 DEF Calendar!Refuse, Owner
<1> QED BY <1>2, <1>3, <1>4 DEF Malformed

LEMMA StepMaps ==
  ASSUME IInv, IInv', [tableNext]_tableVars
  PROVE  [Calendar!Next]_(Calendar!calendar)
<1>1. CASE UNCHANGED tableVars
  BY <1>1 DEF tableVars, Calendar!calendar, Owner
<1>2. ASSUME NEW c \in Candidate, try_reserve(c)
      PROVE  Calendar!Next
  <2>1. CASE Malformed(c) \/ Contended(c)
    <3>1. granted' = FALSE /\ UNCHANGED reservations
      BY <1>2, <2>1 DEF try_reserve
    <3>2. Calendar!Refuse(c.robot_id, c.resource,
                          Calendar!Interval(c.start_tick, c.end_tick))
      BY <2>1, <3>1, RefusalMaps
    <3>3. /\ c.robot_id \in Robots \cup {NoName} /\ c.resource \in Resources \cup {NoName}
          /\ c.start_tick \in Clock /\ c.end_tick \in Clock
      BY DEF Candidate
    <3> QED BY <3>2, <3>3 DEF Calendar!Next
  <2>2. CASE ~Malformed(c) /\ ~Contended(c)
    <3>1. Calendar!Reserve(c.robot_id, c.resource,
                           Calendar!Interval(c.start_tick, c.end_tick))
      BY <1>2, <2>2, GrantMaps
    <3>2. /\ c.robot_id \in Robots /\ c.resource \in Resources
          /\ c.start_tick \in Clock /\ c.end_tick \in Clock
      BY <2>2 DEF Candidate, Malformed
    <3> QED BY <3>1, <3>2 DEF Calendar!Next
  <2> QED BY <2>1, <2>2
<1>3. ASSUME NEW r \in Robots, release_robot(r)
      PROVE  Calendar!Next
  BY <1>3, ReleaseMaps DEF Calendar!Next
<1>4. ASSUME NEW r \in Robots, NEW now \in Clock, update_progress(r, now)
      PROVE  Calendar!Next
  BY <1>4, ProgressMaps DEF Calendar!Next
<1> QED BY <1>1, <1>2, <1>3, <1>4 DEF tableNext

(* The table implements the calendar for any robots, resources and ticks:   *)
(* it answers each request as a tick-by-tick calendar would, and every tick *)
(* changes hands only as one allows (live_reservation.cpp:7-44).            *)
THEOREM CalendarImplemented == tableSpec => ImplementsCalendar
<1>1. tableSpec => []IInv
  BY InductiveInvariant, PTL DEF tableSpec
<1> QED BY <1>1, InitMaps, StepMaps, PTL DEF tableSpec, ImplementsCalendar, Calendar!Spec
=============================================================================
