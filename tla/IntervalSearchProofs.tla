------------------------ MODULE IntervalSearchProofs ------------------------
(***************************************************************************)
(* One call of the interval scheduler, for any calls: the intervals it     *)
(* searches are exact, what it finds is legal tick by tick and the earliest*)
(* there is, and no arrival it has found is improved on.                   *)
(***************************************************************************)
EXTENDS IntervalSearch, SafeIntervalSchedulerProofs

(* The inductive invariant: that of the search, once there is one.         *)
CallInv ==
  /\ verdict = "idle" => job \in Jobs
  /\ SearchInv

LEMMA CallInvInitially ==
  ASSUME Init
  PROVE  CallInv
BY DEF Init, CallInv, SearchInv

LEMMA CallInvKept ==
  ASSUME CallInv, [Next]_searchVars
  PROVE  CallInv'
<1>1. CASE Begin
  <2>1. job \in Jobs
    BY <1>1 DEF Begin, CallInv
  <2>2. IsCall(job.route, job.tracks, job.horizon)
    BY <2>1, JobsAssumption
  <2>3. SearchInv' /\ verdict' # "idle"
    BY <1>1, <2>2, StartsSearched DEF Begin
  <2> QED BY <2>3 DEF CallInv
<1>2. CASE Search
  BY <1>2, SearchKeepsInv DEF CallInv
<1>3. CASE Returned \/ UNCHANGED searchVars
  <2>1. UNCHANGED searchVars
    BY <1>3 DEF Returned
  <2> QED BY <2>1 DEF CallInv, SearchInv, searchVars
<1> QED BY <1>1, <1>2, <1>3 DEF Next

LEMMA CallInvAlways == Spec => []CallInv
<1> QED BY CallInvInitially, CallInvKept, PTL DEF Spec
-----------------------------------------------------------------------------
(* A schedule that is found takes the robot along its whole route without  *)
(* meeting anybody, stopping only where it can, and leaves it parked out   *)
(* of everybody's way, for longer than the search looked ahead.            *)
THEOREM SchedulesAreLegal == Spec => []ScheduleLegal
<1>1. CallInv => ScheduleLegal
  BY DEF CallInv, SearchInv, ScheduleLegal
<1> QED BY <1>1, CallInvAlways, PTL

LEMMA PreparedIsExact ==
  ASSUME Prepared(job)
  PROVE  \A f \in DOMAIN job.route :
           /\ \A t \in 0..job.horizon : t \in Ticks(job.safe[f]) <=> Free(job, f, t)
           /\ \A t \in 0..(job.horizon - 1) :
                (\E i \in job.safe[f] : i.begin <= t /\ t < i.end)
                  <=> Free(job, f, t) /\ Passable(job, f, f, t)
           /\ f < LastFrame =>
                \A t \in 0..(job.horizon - 1) :
                  t \in Ticks(job.advance[f]) <=> ~Passable(job, f, f + 1, t)
<1>1. PICK j : j = job
  OBVIOUS
<1>2. PICK N \in Nat \ {0}, h \in Nat : N = Len(j.route) /\ h = j.horizon
  BY <1>1 DEF Prepared, IsCall, IsRoute
<1>3. DOMAIN j.route = 1..N /\ IsCall(j.route, j.tracks, j.horizon)
  BY <1>1, <1>2 DEF Prepared, IsCall, IsRoute
<1>4. ASSUME NEW f \in 1..N
      PROVE  /\ \A t \in 0..h : t \in Ticks(j.safe[f]) <=> Free(j, f, t)
             /\ \A t \in 0..(h - 1) :
                  (\E i \in j.safe[f] : i.begin <= t /\ t < i.end)
                    <=> Free(j, f, t) /\ Passable(j, f, f, t)
  <2>1. PICK S : S = j.safe[f]
    OBVIOUS
  <2>2. S = SafeIntervals(j.route, f, j.tracks, j.horizon) /\ f \in 1..Len(j.route)
    BY <1>1, <1>2, <2>1 DEF Prepared
  <2>3. /\ \A i \in S : /\ i.begin \in Int /\ i.end \in Int
                        /\ 0 <= i.begin /\ i.begin <= i.end /\ i.end <= h
                        /\ \A t \in i.begin..i.end : Free(j, f, t)
                        /\ \A t \in i.begin..(i.end - 1) : Passable(j, f, f, t)
        /\ \A t \in 0..h : Free(j, f, t) => \E i \in S : i.begin <= t /\ t <= i.end
        /\ \A i \in S : \A t \in i.begin..i.end :
             t < h /\ Passable(j, f, f, t) => t + 1 <= i.end
    BY <1>2, <1>3, <2>2, SafeIntervalsExact
  <2>4. ASSUME NEW t \in 0..h
        PROVE  t \in Ticks(S) <=> Free(j, f, t)
    BY <2>3, InTicks
  <2>5. ASSUME NEW t \in 0..(h - 1), NEW i \in S, i.begin <= t, t < i.end
        PROVE  Free(j, f, t) /\ Passable(j, f, f, t)
    BY <2>3, <2>5
  <2>6. ASSUME NEW t \in 0..(h - 1), Free(j, f, t), Passable(j, f, f, t)
        PROVE  \E i \in S : i.begin <= t /\ t < i.end
    <3>1. PICK i \in S : i.begin <= t /\ t <= i.end
      BY <2>3, <2>6
    <3>2. i.begin \in Int /\ i.end \in Int /\ t \in i.begin..i.end
      BY <2>3, <3>1
    <3>3. t + 1 <= i.end
      BY <2>3, <2>6, <3>2
    <3> QED BY <3>1, <3>2, <3>3
  <2> QED BY <2>1, <2>4, <2>5, <2>6
<1>5. ASSUME NEW f \in 1..N, f < N
      PROVE  \A t \in 0..(h - 1) : t \in Ticks(j.advance[f]) <=> ~Passable(j, f, f + 1, t)
  <2>1. PICK A : A = j.advance[f]
    OBVIOUS
  <2>2. /\ f \in 1..(Len(j.route) - 1)
        /\ A = BlockedAdvance(j.route, f, j.tracks, j.horizon)
    BY <1>1, <1>2, <1>5, <2>1 DEF Prepared
  <2>3. \A t \in 0..(j.horizon - 1) : t \in Ticks(A) <=> ~Passable(j, f, f + 1, t)
    BY <1>3, <2>2, AdvanceExact
  <2> QED BY <1>2, <2>1, <2>3
<1> QED BY <1>1, <1>2, <1>3, <1>4, <1>5 DEF LastFrame

(* The intervals compressed from the tracks are exactly the ticks a frame  *)
(* is free, joined exactly where waiting from one to the next is safe, and *)
(* the blocked departures exactly those that meet another robot.           *)
THEOREM IntervalsAreExact == Spec => []IntervalsExact
<1>1. CallInv => IntervalsExact
  BY PreparedIsExact DEF CallInv, SearchInv, IntervalsExact
<1> QED BY <1>1, CallInvAlways, PTL
-----------------------------------------------------------------------------
(* Whoever answers for it, the search has been thorough; and the calls made*)
(* leave time, if those in Jobs do.                                        *)
LEMMA ThoroughInvInitially ==
  ASSUME Init
  PROVE  ThoroughInv
<1>1. Indexed(<<>>, <<>>)
  BY DEF Indexed
<1> QED BY <1>1 DEF Init, ThoroughInv

LEMMA ThoroughInvKept ==
  ASSUME CallInv, ThoroughInv, [Next]_searchVars
  PROVE  ThoroughInv'
<1>1. CASE Begin
  <2>1. IsCall(job.route, job.tracks, job.horizon)
    BY <1>1, JobsAssumption DEF Begin, CallInv
  <2> QED BY <1>1, <2>1, StartsThorough DEF Begin
<1>2. CASE Search
  BY <1>2, SearchKeepsThorough DEF CallInv
<1>3. CASE Returned \/ UNCHANGED searchVars
  <2>1. UNCHANGED searchVars
    BY <1>3 DEF Returned
  <2> QED BY <2>1 DEF ThoroughInv, LimitReached, searchVars
<1> QED BY <1>1, <1>2, <1>3 DEF Next

(* The first arrival found in an interval is never improved on, so that no *)
(* interval is queued or expanded twice and the node limit counts distinct *)
(* ones.                                                                   *)
THEOREM ArrivesOnce == Spec => []ArriveOnce
<1>1. Init => CallInv /\ ThoroughInv
  BY CallInvInitially, ThoroughInvInitially
<1>2. CallInv /\ ThoroughInv /\ [Next]_searchVars => (CallInv /\ ThoroughInv)'
  BY CallInvKept, ThoroughInvKept
<1>3. ThoroughInv => ArriveOnce
  BY IndexCountsNodes DEF ThoroughInv, ArriveOnce
<1> QED BY <1>1, <1>2, <1>3, PTL DEF Spec

TimeLeft == verdict # "idle" => LeavesTime(job)

LEMMA TimeLeftKept ==
  ASSUME \A j \in Jobs : LeavesTime(j), CallInv, TimeLeft, [Next]_searchVars
  PROVE  TimeLeft'
<1>1. CASE Begin
  <2>1. job \in Jobs /\ IsCall(job.route, job.tracks, job.horizon)
    BY <1>1, JobsAssumption DEF Begin, CallInv
  <2>2. job'.route = job.route /\ job'.tracks = job.tracks /\ job'.horizon = job.horizon
    BY <1>1, <2>1, StartsSearched DEF Begin
  <2> QED BY <2>1, <2>2 DEF TimeLeft, LeavesTime
<1>2. CASE Search
  BY <1>2, SearchKeepsInv DEF CallInv, TimeLeft
<1>3. CASE Returned \/ UNCHANGED searchVars
  BY <1>3 DEF Returned, TimeLeft, searchVars
<1> QED BY <1>1, <1>2, <1>3 DEF Next

(* No schedule finishes earlier than the one found, and when the search    *)
(* ends for want of nodes there is none, however late, given a horizon past*)
(* the stops of the others by the length of the route: what the search     *)
(* leaves out, the later arrivals in an interval, pausing at a transit     *)
(* frame and all that is after the horizon, loses nothing.                 *)
THEOREM FindsEarliest ==
  ASSUME \A j \in Jobs : LeavesTime(j)
  PROVE  Spec => []EarliestOrNone
<1>1. Init => CallInv /\ ThoroughInv /\ TimeLeft
  BY CallInvInitially, ThoroughInvInitially DEF Init, TimeLeft
<1>2. CallInv /\ ThoroughInv /\ TimeLeft /\ [Next]_searchVars =>
        (CallInv /\ ThoroughInv /\ TimeLeft)'
  BY CallInvKept, ThoroughInvKept, TimeLeftKept
<1>3. ThoroughInv /\ TimeLeft => EarliestOrNone
  BY DEF ThoroughInv, TimeLeft, Earliest, EarliestOrNone, LimitReached
<1> QED BY <1>1, <1>2, <1>3, PTL DEF Spec
=============================================================================
