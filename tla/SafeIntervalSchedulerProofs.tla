--------------------- MODULE SafeIntervalSchedulerProofs ---------------------
(***************************************************************************)
(* What RouteReservations computes, for any route, tracks and horizon: the *)
(* safe intervals of a frame are exactly the ticks at which it is free,    *)
(* joined where waiting is safe, and the blocked departures exactly those  *)
(* that meet somebody, as TickSchedule says it tick by tick.               *)
(*                                                                         *)
(* From this: the nodes of the interval search stand for schedules that    *)
(* are legal tick by tick, for any node limit too.  The theorems about a   *)
(* single call and about the coordinator rest on it.                       *)
(***************************************************************************)
EXTENDS SafeIntervalScheduler, TickSchedule, OrderLemmas, SequenceTheorems

(* Intervals, empty ones among them, between lo and hi.                     *)
Bounded(intervals, lo, hi) ==
  \A i \in intervals : i.begin \in Int /\ i.end \in Int /\ lo <= i.begin /\ i.end <= hi

LEMMA InTicks ==
  ASSUME NEW I, \A i \in I : i.begin \in Int /\ i.end \in Int
  PROVE  \A t : t \in Ticks(I) <=> t \in Int /\ \E i \in I : i.begin <= t /\ t <= i.end
BY DEF Ticks

(* Merging changes no tick; the merged intervals are not empty, and the     *)
(* tick after one is free.                                                  *)
LEMMA MergeKeepsTicks ==
  ASSUME NEW I, NEW lo \in Int, NEW hi \in Int, Bounded(I, lo, hi)
  PROVE  /\ Ticks(Merge(I)) = Ticks(I)
         /\ Bounded(Merge(I), lo, hi)
         /\ \A m \in Merge(I) : m.begin <= m.end /\ m.end + 1 \notin Ticks(I)
<1> DEFINE ticks == Ticks(I)
           Begins == {t \in ticks : t - 1 \notin ticks}
           Ends == {t \in ticks : t + 1 \notin ticks}
           End(b) == Min({e \in Ends : e >= b})
<1>1. \A t : t \in ticks <=> t \in Int /\ \E i \in I : i.begin <= t /\ t <= i.end
  BY InTicks DEF Bounded
<1>2. \A t \in ticks : t \in Int /\ lo <= t /\ t <= hi
  BY <1>1 DEF Bounded
<1>3. Merge(I) = {[begin |-> b, end |-> End(b)] : b \in Begins}
  BY Zenon DEF Merge
<1> HIDE DEF ticks
<1>4. ASSUME NEW b \in ticks
      PROVE  End(b) \in ticks /\ b <= End(b) /\ End(b) + 1 \notin ticks
             /\ \A t \in b..End(b) : t \in ticks
  <2>1. PICK D \in SUBSET Int : D = {t \in ticks : b <= t /\ \A s \in b..t : s \in ticks}
    BY <1>2
  <2>2. b \in D
    BY <1>2, <1>4, <2>1
  <2>3. Max(D) \in D /\ \A t \in D : t <= Max(D)
    <3>1. \A t \in D : t <= hi
      BY <1>2, <2>1
    <3> QED BY <2>2, <3>1, MaxIsGreatest
  <2>4. PICK e \in D : e = Max(D)
    BY <2>3
  <2>5. e + 1 \notin ticks
    <3>1. SUFFICES ASSUME e + 1 \in ticks PROVE e + 1 \in D
      BY <2>3, <2>4
    <3>2. b \in Int /\ e \in Int /\ b <= e
      BY <1>2, <2>1
    <3>3. \A s \in b..(e + 1) : s \in ticks
      BY <2>1, <3>1, <3>2
    <3> QED BY <2>1, <3>1, <3>2, <3>3
  <2>6. PICK E \in SUBSET Int : E = {x \in Ends : x >= b}
    BY <1>2
  <2>7. E # {}
    BY <2>1, <2>4, <2>5, <2>6
  <2>8. Min(E) \in E /\ \A x \in E : Min(E) <= x
    BY <1>2, <2>6, <2>7, MinIsLeast
  <2>9. \A t \in b..Min(E) : t \in ticks
    <3>1. Min(E) <= e
      BY <2>1, <2>4, <2>5, <2>6, <2>8
    <3> QED BY <1>2, <2>1, <2>6, <2>8, <3>1
  <2> QED BY <2>6, <2>8, <2>9
<1> HIDE DEF End
<1>5. Bounded(Merge(I), lo, hi)
  BY <1>2, <1>3, <1>4 DEF Bounded
<1>6. \A m \in Merge(I) : m.begin <= m.end /\ m.end + 1 \notin ticks
                          /\ \A t \in m.begin..m.end : t \in ticks
  BY <1>3, <1>4
<1>7. ASSUME NEW t \in ticks
      PROVE  \E m \in Merge(I) : m.begin <= t /\ t <= m.end
  <2>1. PICK D \in SUBSET Int : D = {s \in ticks : s <= t /\ \A u \in s..t : u \in ticks}
    BY <1>2
  <2>2. t \in D
    BY <1>2, <1>7, <2>1
  <2>3. PICK b \in D : \A s \in D : b <= s
    <3>1. \A s \in D : lo <= s
      BY <1>2, <2>1
    <3>2. Min(D) \in D /\ \A s \in D : Min(D) <= s
      BY <2>2, <3>1, MinIsLeast
    <3> QED BY <3>2
  <2>4. b - 1 \notin ticks
    <3>1. SUFFICES ASSUME b - 1 \in ticks PROVE b - 1 \in D
      BY <2>3
    <3>2. b \in Int /\ t \in Int /\ b <= t
      BY <1>2, <2>1
    <3>3. \A u \in (b - 1)..t : u \in ticks
      BY <2>1, <3>1, <3>2
    <3> QED BY <2>1, <3>1, <3>2, <3>3
  <2>5. b \in Begins
    BY <2>1, <2>4
  <2>6. t <= End(b)
    <3>1. b \in Int /\ t \in Int /\ End(b) \in Int /\ b <= End(b) /\ End(b) + 1 \notin ticks
      BY <1>2, <1>4, <2>5
    <3>2. \A u \in b..t : u \in ticks
      BY <2>1
    <3> QED BY <3>1, <3>2
  <2>7. PICK m \in Merge(I) : m = [begin |-> b, end |-> End(b)]
    BY <1>3, <2>5
  <2> QED BY <2>1, <2>6, <2>7
<1>8. \A t : t \in Ticks(Merge(I)) <=> t \in ticks
  <2>1. \A t : t \in Ticks(Merge(I)) <=>
                 t \in Int /\ \E m \in Merge(I) : m.begin <= t /\ t <= m.end
    BY <1>5, InTicks DEF Bounded
  <2>2. \A m \in Merge(I) : m.begin \in Int /\ m.end \in Int
    BY <1>5 DEF Bounded
  <2> QED BY <1>2, <1>6, <1>7, <2>1, <2>2
<1> QED BY <1>5, <1>6, <1>8 DEF ticks
-----------------------------------------------------------------------------
(* The runs of a function on 0..n cover every tick to the tail, and within  *)
(* a run the function does not change (past n, it keeps its last value).    *)
LEMMA RunsExact ==
  ASSUME NEW n \in Nat, NEW tail \in Int, n - 1 <= tail, NEW val, DOMAIN val = 0..n
  PROVE  /\ Bounded(Runs(val, tail), 0, tail)
         /\ \A r \in Runs(val, tail) : \A t \in r.begin..r.end : r.val = val[AtMost(t, n)]
         /\ \A t \in 0..tail : \E r \in Runs(val, tail) : r.begin <= t /\ t <= r.end
<1> DEFINE Starts == {t \in DOMAIN val : t = 0 \/ val[t] # val[t - 1]}
           Later(t) == {s \in Starts : s > t}
           End(t) == IF Later(t) = {} THEN tail ELSE Min(Later(t)) - 1
<1>1. Runs(val, tail) = {[val |-> val[t], begin |-> t, end |-> End(t)] : t \in Starts}
  BY Zenon DEF Runs
<1>2. 0 \in Starts /\ \A s \in Starts : s \in Int /\ 0 <= s /\ s <= n
  OBVIOUS
<1>3. \A t \in 1..n : t \notin Starts => val[t] = val[t - 1]
  OBVIOUS
<1> HIDE DEF Starts
<1>4. ASSUME NEW s \in Starts
      PROVE  /\ End(s) \in Int /\ End(s) <= tail
             /\ End(s) >= n => Later(s) = {}
             /\ \A t \in Starts : s < t => End(s) < t
             /\ End(s) < tail => End(s) + 1 \in Starts /\ End(s) >= s
  <2>1. CASE Later(s) = {}
    BY <2>1
  <2>2. CASE Later(s) # {}
    <3>1. PICK L \in SUBSET Int : L = Later(s)
      BY <1>2
    <3>2. Min(L) \in L /\ \A t \in L : Min(L) <= t
      <4>1. s \in Int /\ L # {} /\ \A t \in L : s <= t
        BY <1>2, <2>2, <3>1
      <4> QED BY <4>1, MinIsLeast
    <3>3. End(s) = Min(L) - 1
      BY <2>2, <3>1
    <3>4. \A t : t \in L <=> t \in Starts /\ s < t
      BY <3>1
    <3> HIDE DEF Later, End
    <3> QED BY <1>2, <2>2, <3>2, <3>3, <3>4
  <2> QED BY <2>1, <2>2
<1> HIDE DEF End, Later
<1>5. Bounded(Runs(val, tail), 0, tail)
  BY <1>1, <1>2, <1>4 DEF Bounded
<1>6. ASSUME NEW s \in Starts, NEW t \in s..n, t <= End(s)
      PROVE  val[t] = val[s]
  <2>1. PICK D \in SUBSET Int : D = {u \in s..t : val[u] # val[s]}
    <3>1. \A u \in s..t : u \in Int
      OBVIOUS
    <3> QED BY <3>1
  <2> SUFFICES ASSUME D # {} PROVE FALSE
    BY <1>2, <2>1
  <2>2. PICK u \in D : \A w \in D : u <= w
    <3>1. \A w \in D : s <= w
      BY <2>1
    <3>2. Min(D) \in D /\ \A w \in D : Min(D) <= w
      BY <1>2, <3>1, MinIsLeast
    <3> QED BY <3>2
  <2>3. u \in s..t /\ u # s /\ val[u] # val[s]
    BY <2>1
  <2>4. u - 1 \in s..t /\ u - 1 \notin D
    BY <1>2, <2>2, <2>3
  <2>5. val[u - 1] = val[s]
    BY <2>1, <2>4
  <2>6. u \in 1..n
    BY <1>2, <2>3
  <2>7. u \in Starts
    BY <1>3, <2>3, <2>5, <2>6
  <2> QED BY <1>2, <1>4, <1>6, <2>3, <2>7
<1>7. ASSUME NEW s \in Starts, NEW t \in s..End(s)
      PROVE  val[s] = val[AtMost(t, n)]
  <2>1. s \in 0..n /\ End(s) \in Int
    BY <1>2, <1>4
  <2>2. CASE t <= n
    BY <1>6, <2>1, <2>2 DEF AtMost
  <2>3. CASE t > n
    BY <1>6, <2>1, <2>3 DEF AtMost
  <2> QED BY <2>1, <2>2, <2>3
<1>8. \A r \in Runs(val, tail) : \A t \in r.begin..r.end : r.val = val[AtMost(t, n)]
  BY <1>1, <1>7
<1>9. ASSUME NEW t \in 0..tail
      PROVE  \E r \in Runs(val, tail) : r.begin <= t /\ t <= r.end
  <2>1. PICK D \in SUBSET Int : D = {s \in Starts : s <= t}
    BY <1>2
  <2>2. PICK s \in D : \A u \in D : u <= s
    <3>1. t \in Int /\ 0 \in D /\ D # {} /\ \A u \in D : u <= t
      BY <1>2, <2>1
    <3>2. Max(D) \in D /\ \A u \in D : u <= Max(D)
      BY <3>1, MaxIsGreatest
    <3> QED BY <3>2
  <2>3. t <= End(s)
    <3>1. s \in Starts /\ s <= t /\ End(s) \in Int
      BY <1>4, <2>1
    <3>2. SUFFICES ASSUME End(s) < t PROVE FALSE
      BY <3>1
    <3>3. End(s) + 1 \in Starts /\ End(s) >= s
      BY <1>4, <3>1, <3>2
    <3>4. End(s) + 1 \in D
      BY <2>1, <3>1, <3>2, <3>3
    <3> QED BY <2>2, <3>1, <3>3, <3>4
  <2>4. PICK r \in Runs(val, tail) : r = [val |-> val[s], begin |-> s, end |-> End(s)]
    BY <1>1, <2>1
  <2> QED BY <2>1, <2>3, <2>4
<1> QED BY <1>5, <1>8, <1>9
-----------------------------------------------------------------------------
(* The ticks of a track's occupancy of a frame are those at which the other *)
(* robot and one at the frame would collide.                                *)
LEMMA OccupancyExact ==
  ASSUME NEW track, NEW horizon \in Nat, IsTrack(track, horizon), NEW frame
  PROVE  /\ Bounded(OccupancyOf(track, frame, horizon), 0, horizon)
         /\ \A t \in 0..horizon :
              t \in Ticks(OccupancyOf(track, frame, horizon)) <=>
                Collide(frame, FrameAt(track.path, t), track.reach)
<1>1. PICK n \in Nat : n = LastTick(track)
  <2>1. Len(track.path) \in Nat \ {0}
    BY DEF IsTrack, IsRoute
  <2>2. Len(track.path) - 1 \in Nat
    BY <2>1
  <2> QED BY <2>2 DEF LastTick
<1>2. n <= horizon /\ Len(track.path) = n + 1
  BY <1>1 DEF IsTrack, IsRoute, LastTick
<1>3. PICK val : val = [t \in 0..n |-> track.path[t + 1]]
  OBVIOUS
<1>4. PICK runs : runs = Runs(val, horizon)
  OBVIOUS
<1>5. runs = Occupancy(track, horizon)
  BY <1>1, <1>3, <1>4, Zenon DEF Occupancy
<1>6. /\ Bounded(runs, 0, horizon)
      /\ \A r \in runs : \A t \in r.begin..r.end : r.val = val[AtMost(t, n)]
      /\ \A t \in 0..horizon : \E r \in runs : r.begin <= t /\ t <= r.end
  <2>1. DOMAIN val = 0..n /\ n - 1 <= horizon /\ horizon \in Int
    BY <1>2, <1>3
  <2>2. /\ Bounded(Runs(val, horizon), 0, horizon)
        /\ \A r \in Runs(val, horizon) : \A t \in r.begin..r.end : r.val = val[AtMost(t, n)]
        /\ \A t \in 0..horizon : \E r \in Runs(val, horizon) : r.begin <= t /\ t <= r.end
    BY <2>1, RunsExact
  <2> QED BY <1>4, <2>2, Zenon
<1>7. \A t \in 0..horizon : val[AtMost(t, n)] = FrameAt(track.path, t)
  BY <1>2, <1>3 DEF AtMost, FrameAt
<1>8. PICK I : I = OccupancyOf(track, frame, horizon)
  OBVIOUS
<1>9. I = {[begin |-> r.begin, end |-> r.end] :
             r \in {o \in runs : Near(frame, o.val, track.reach) \/ SharesResource(frame, o.val)}}
  BY <1>5, <1>8, Zenon DEF OccupancyOf
<1>10. Bounded(I, 0, horizon)
  BY <1>6, <1>9 DEF Bounded
<1>11. \A t : t \in Ticks(I) <=> t \in Int /\ \E i \in I : i.begin <= t /\ t <= i.end
  BY <1>10, InTicks DEF Bounded
<1>12. ASSUME NEW t \in 0..horizon
       PROVE  t \in Ticks(I) <=> Collide(frame, FrameAt(track.path, t), track.reach)
  <2>1. \A r \in runs : r.begin <= t /\ t <= r.end => r.val = FrameAt(track.path, t)
    BY <1>6, <1>7 DEF Bounded
  <2>2. PICK r \in runs : r.begin <= t /\ t <= r.end
    BY <1>6
  <2>3. ASSUME Collide(frame, FrameAt(track.path, t), track.reach) PROVE t \in Ticks(I)
    <3>1. Near(frame, r.val, track.reach) \/ SharesResource(frame, r.val)
      BY <2>1, <2>2, <2>3 DEF Collide
    <3>2. [begin |-> r.begin, end |-> r.end] \in I
      BY <1>9, <3>1
    <3> QED BY <1>11, <2>2, <3>2
  <2>4. ASSUME t \in Ticks(I) PROVE Collide(frame, FrameAt(track.path, t), track.reach)
    <3>1. PICK i \in I : i.begin <= t /\ t <= i.end
      BY <1>11, <2>4
    <3>2. PICK o \in runs : /\ Near(frame, o.val, track.reach) \/ SharesResource(frame, o.val)
                            /\ i = [begin |-> o.begin, end |-> o.end]
      BY <1>9
    <3> QED BY <2>1, <3>1, <3>2 DEF Collide
  <2> QED BY <2>3, <2>4
<1> QED BY <1>8, <1>10, <1>12

(* Of the other robot's frames only their positions matter.                 *)
LEMMA PositionsTell ==
  ASSUME NEW a, NEW b, NEW f, NEW g, NEW reach
  PROVE  Swept(a, b, [pos |-> f.pos], [pos |-> g.pos], reach) <=> Swept(a, b, f, g, reach)
<1>1. PICK p, q : p = [pos |-> f.pos] /\ q = [pos |-> g.pos]
  OBVIOUS
<1>2. p.pos = f.pos /\ q.pos = g.pos
  BY <1>1
<1>3. Swept(a, b, p, q, reach) <=> Swept(a, b, f, g, reach)
  BY <1>2 DEF Swept
<1> QED BY <1>1, <1>3, Zenon

(* The ticks of a track's motion across a step from a to b are those at     *)
(* which the other robot, on its way to the next tick, would sweep it.      *)
LEMMA SweepsExact ==
  ASSUME NEW track, NEW horizon \in Nat, IsTrack(track, horizon), NEW a, NEW b
  PROVE  /\ Bounded(SweepsOf(track, a, b, horizon), 0, horizon - 1)
         /\ \A t \in 0..(horizon - 1) :
              t \in Ticks(SweepsOf(track, a, b, horizon)) <=>
                Swept(a, b, FrameAt(track.path, t), FrameAt(track.path, t + 1), track.reach)
<1>1. PICK n \in Nat : n = LastTick(track)
  <2>1. Len(track.path) \in Nat \ {0}
    BY DEF IsTrack, IsRoute
  <2>2. Len(track.path) - 1 \in Nat
    BY <2>1
  <2> QED BY <2>2 DEF LastTick
<1>2. n <= horizon /\ Len(track.path) = n + 1
  BY <1>1 DEF IsTrack, IsRoute, LastTick
<1>3. PICK val : val = [t \in 0..n |->
                          <<track.path[t + 1].pos, track.path[AtMost(t + 2, n + 1)].pos>>]
  OBVIOUS
<1>4. PICK runs : runs = Runs(val, horizon - 1)
  OBVIOUS
<1>5. runs = Motion(track, horizon)
  <2>1. Steps(track) = val
    BY <1>1, <1>2, <1>3, Zenon DEF Steps
  <2> QED BY <1>4, <2>1 DEF Motion
<1>6. /\ Bounded(runs, 0, horizon - 1)
      /\ \A r \in runs : \A t \in r.begin..r.end : r.val = val[AtMost(t, n)]
      /\ \A t \in 0..(horizon - 1) : \E r \in runs : r.begin <= t /\ t <= r.end
  <2>1. DOMAIN val = 0..n
    BY <1>3
  <2>2. horizon - 1 \in Int /\ n - 1 <= horizon - 1
    BY <1>2
  <2> QED BY <1>4, <2>1, <2>2, RunsExact
<1> DEFINE Sweeps(v) == Swept(a, b, [pos |-> v[1]], [pos |-> v[2]], track.reach)
           Met(t) == Swept(a, b, FrameAt(track.path, t), FrameAt(track.path, t + 1), track.reach)
<1>7. ASSUME NEW t \in 0..(horizon - 1)
      PROVE  Sweeps(val[AtMost(t, n)]) <=> Met(t)
  <2>1. PICK u \in 0..n : u = AtMost(t, n)
    BY DEF AtMost
  <2>2. val[u] = <<track.path[u + 1].pos, track.path[AtMost(u + 2, n + 1)].pos>>
    BY <1>3
  <2>3. track.path[u + 1] = FrameAt(track.path, t)
    BY <1>2, <2>1 DEF AtMost, FrameAt
  <2>4. track.path[AtMost(u + 2, n + 1)] = FrameAt(track.path, t + 1)
    <3>1. PICK path : path = track.path
      OBVIOUS
    <3>2. FrameAt(path, t + 1) = IF t + 1 < n + 1 THEN path[t + 1 + 1] ELSE path[n + 1]
      BY <1>2, <3>1, Zenon DEF FrameAt
    <3>3. AtMost(u + 2, n + 1) = IF t + 1 < n + 1 THEN t + 1 + 1 ELSE n + 1
      BY <2>1 DEF AtMost
    <3> QED BY <3>1, <3>2, <3>3, Zenon
  <2>6. PICK p, q : p = FrameAt(track.path, t).pos /\ q = FrameAt(track.path, t + 1).pos
    OBVIOUS
  <2>7. track.path[u + 1].pos = p /\ track.path[AtMost(u + 2, n + 1)].pos = q
    BY <2>3, <2>4, <2>6
  <2>8. val[u] = <<p, q>>
    BY <2>2, <2>7
  <2>5. val[u][1] = FrameAt(track.path, t).pos /\ val[u][2] = FrameAt(track.path, t + 1).pos
    <3>1. <<p, q>>[1] = p /\ <<p, q>>[2] = q
      OBVIOUS
    <3> QED BY <2>6, <2>8, <3>1, Zenon
  <2> QED BY <2>1, <2>5, PositionsTell, Zenon
<1> PICK I : I = SweepsOf(track, a, b, horizon)
  OBVIOUS
<1>8. I = {[begin |-> r.begin, end |-> r.end] : r \in {m \in runs : Sweeps(m.val)}}
  BY <1>5 DEF SweepsOf
<1> HIDE DEF Sweeps, Met
<1>9. Bounded(I, 0, horizon - 1)
  BY <1>6, <1>8 DEF Bounded
<1>10. \A t : t \in Ticks(I) <=> t \in Int /\ \E i \in I : i.begin <= t /\ t <= i.end
  BY <1>9, InTicks DEF Bounded
<1>11. ASSUME NEW t \in 0..(horizon - 1)
       PROVE  t \in Ticks(I) <=> Met(t)
  <2>1. \A r \in runs : r.begin <= t /\ t <= r.end => (Sweeps(r.val) <=> Met(t))
    BY <1>6, <1>7 DEF Bounded
  <2>2. PICK r \in runs : r.begin <= t /\ t <= r.end
    BY <1>6
  <2>3. ASSUME Met(t) PROVE t \in Ticks(I)
    <3>1. [begin |-> r.begin, end |-> r.end] \in I
      BY <1>8, <2>1, <2>2, <2>3
    <3> QED BY <1>10, <2>2, <3>1
  <2>4. ASSUME t \in Ticks(I) PROVE Met(t)
    <3>1. PICK i \in I : i.begin <= t /\ t <= i.end
      BY <1>10, <2>4
    <3>2. PICK o \in runs : Sweeps(o.val) /\ i = [begin |-> o.begin, end |-> o.end]
      BY <1>8
    <3> QED BY <2>1, <3>1, <3>2
  <2> QED BY <2>3, <2>4
<1> QED BY <1>9, <1>11 DEF Met

(* So the departures a track blocks are those at which the step would meet  *)
(* the other robot under way or on arrival.                                 *)
LEMMA MotionExact ==
  ASSUME NEW track, NEW horizon \in Nat, IsTrack(track, horizon), NEW a, NEW b
  PROVE  /\ Bounded(MotionOf(track, a, b, horizon), 0, horizon - 1)
         /\ \A t \in 0..(horizon - 1) :
              t \in Ticks(MotionOf(track, a, b, horizon)) <=>
                \/ Collide(b, FrameAt(track.path, t + 1), track.reach)
                \/ Swept(a, b, FrameAt(track.path, t), FrameAt(track.path, t + 1), track.reach)
<1>1. PICK O : O = OccupancyOf(track, b, horizon)
  OBVIOUS
<1>2. PICK S : S = SweepsOf(track, a, b, horizon)
  OBVIOUS
<1>3. PICK M : M = MotionOf(track, a, b, horizon)
  OBVIOUS
<1>4. M = {[begin |-> AtLeast(0, o.begin - 1), end |-> o.end - 1] : o \in O} \cup S
  BY <1>1, <1>2, <1>3, Zenon DEF MotionOf
<1>5. /\ Bounded(O, 0, horizon)
      /\ \A t \in 0..horizon :
           t \in Ticks(O) <=> Collide(b, FrameAt(track.path, t), track.reach)
  BY <1>1, OccupancyExact
<1>6. /\ Bounded(S, 0, horizon - 1)
      /\ \A t \in 0..(horizon - 1) :
           t \in Ticks(S) <=>
             Swept(a, b, FrameAt(track.path, t), FrameAt(track.path, t + 1), track.reach)
  BY <1>2, SweepsExact
<1>7. \A t : t \in Ticks(O) <=> t \in Int /\ \E i \in O : i.begin <= t /\ t <= i.end
  BY <1>5, InTicks DEF Bounded
<1>8. \A t : t \in Ticks(S) <=> t \in Int /\ \E i \in S : i.begin <= t /\ t <= i.end
  BY <1>6, InTicks DEF Bounded
<1>9. Bounded(M, 0, horizon - 1)
  <2> SUFFICES ASSUME NEW m \in M
               PROVE  m.begin \in Int /\ m.end \in Int /\ 0 <= m.begin /\ m.end <= horizon - 1
    BY DEF Bounded
  <2>1. CASE m \in S
    BY <1>6, <2>1 DEF Bounded
  <2>2. CASE m \notin S
    <3>1. PICK o \in O : m = [begin |-> AtLeast(0, o.begin - 1), end |-> o.end - 1]
      BY <1>4, <2>2
    <3> QED BY <1>5, <3>1 DEF Bounded, AtLeast
  <2> QED BY <2>1, <2>2
<1>10. \A t : t \in Ticks(M) <=> t \in Int /\ \E i \in M : i.begin <= t /\ t <= i.end
  BY <1>9, InTicks DEF Bounded
<1>11. ASSUME NEW t \in 0..(horizon - 1)
       PROVE  t \in Ticks(M) <=> t + 1 \in Ticks(O) \/ t \in Ticks(S)
  <2>1. ASSUME t \in Ticks(S) PROVE t \in Ticks(M)
    BY <1>4, <1>8, <1>10, <2>1
  <2>2. ASSUME t + 1 \in Ticks(O) PROVE t \in Ticks(M)
    <3>1. PICK o \in O : o.begin <= t + 1 /\ t + 1 <= o.end
      BY <1>7, <2>2
    <3>2. PICK m \in M : m = [begin |-> AtLeast(0, o.begin - 1), end |-> o.end - 1]
      BY <1>4
    <3>3. m.begin <= t /\ t <= m.end
      BY <1>5, <3>1, <3>2 DEF Bounded, AtLeast
    <3> QED BY <1>10, <3>3
  <2>3. ASSUME t \in Ticks(M) PROVE t + 1 \in Ticks(O) \/ t \in Ticks(S)
    <3>1. PICK m \in M : m.begin <= t /\ t <= m.end
      BY <1>10, <2>3
    <3>2. CASE m \in S
      BY <1>8, <3>1, <3>2
    <3>3. CASE m \notin S
      <4>1. PICK o \in O : m = [begin |-> AtLeast(0, o.begin - 1), end |-> o.end - 1]
        BY <1>4, <3>3
      <4>2. o.begin <= t + 1 /\ t + 1 <= o.end
        BY <1>5, <3>1, <4>1 DEF Bounded, AtLeast
      <4> QED BY <1>7, <4>2
    <3> QED BY <3>2, <3>3
  <2> QED BY <2>1, <2>2, <2>3
<1>12. ASSUME NEW t \in 0..(horizon - 1)
       PROVE  t \in Ticks(M) <=>
                \/ Collide(b, FrameAt(track.path, t + 1), track.reach)
                \/ Swept(a, b, FrameAt(track.path, t), FrameAt(track.path, t + 1), track.reach)
  <2>1. t + 1 \in 0..horizon
    OBVIOUS
  <2> QED BY <1>5, <1>6, <1>11, <2>1
<1> QED BY <1>3, <1>9, <1>12
-----------------------------------------------------------------------------
(* The motion from a to b that starts at t meets one of the tracks.         *)
MotionMeets(tracks, a, b, t) ==
  \E o \in tracks : \/ Collide(b, FrameAt(o.path, t + 1), o.reach)
                    \/ Swept(a, b, FrameAt(o.path, t), FrameAt(o.path, t + 1), o.reach)

(* The same of several tracks, merged.                                      *)
LEMMA BlockedMotionExact ==
  ASSUME NEW tracks, NEW horizon \in Nat, \A o \in tracks : IsTrack(o, horizon),
         NEW a, NEW b, NEW B, B = BlockedMotion(a, b, tracks, horizon)
  PROVE  /\ Bounded(B, 0, horizon - 1)
         /\ \A t \in 0..(horizon - 1) : t \in Ticks(B) <=> MotionMeets(tracks, a, b, t)
<1>1. PICK U : U = UNION {MotionOf(o, a, b, horizon) : o \in tracks}
  OBVIOUS
<1>2. B = Merge(U)
  BY <1>1, Zenon DEF BlockedMotion
<1>3. \A o \in tracks :
        /\ Bounded(MotionOf(o, a, b, horizon), 0, horizon - 1)
        /\ \A t \in 0..(horizon - 1) :
             t \in Ticks(MotionOf(o, a, b, horizon)) <=>
               \/ Collide(b, FrameAt(o.path, t + 1), o.reach)
               \/ Swept(a, b, FrameAt(o.path, t), FrameAt(o.path, t + 1), o.reach)
  BY MotionExact
<1>4. Bounded(U, 0, horizon - 1)
  BY <1>1, <1>3 DEF Bounded
<1>5. Ticks(B) = Ticks(U) /\ Bounded(B, 0, horizon - 1)
  BY <1>2, <1>4, MergeKeepsTicks
<1>6. \A t : t \in Ticks(U) <=> \E o \in tracks : t \in Ticks(MotionOf(o, a, b, horizon))
  BY <1>1 DEF Ticks
<1>7. \A t \in 0..(horizon - 1) :
        t \in Ticks(B) <=>
          \E o \in tracks :
            \/ Collide(b, FrameAt(o.path, t + 1), o.reach)
            \/ Swept(a, b, FrameAt(o.path, t), FrameAt(o.path, t + 1), o.reach)
  BY <1>3, <1>5, <1>6
<1> QED BY <1>5, <1>7, Zenon DEF MotionMeets
-----------------------------------------------------------------------------
(* The gaps between blocked intervals hold exactly the ticks that are not   *)
(* blocked, do not overlap, and end only before a blocked tick.             *)
LEMMA GapsExact ==
  ASSUME NEW blocked, NEW horizon \in Nat, Bounded(blocked, 0, horizon),
         \A b \in blocked : b.begin <= b.end,
         NEW G, G = Gaps(blocked, horizon)
  PROVE  /\ \A g \in G : /\ g.begin \in Int /\ g.end \in Int
                         /\ 0 <= g.begin /\ g.begin <= g.end /\ g.end <= horizon
                         /\ \A t \in g.begin..g.end : t \notin Ticks(blocked)
         /\ \A t \in 0..horizon :
              t \notin Ticks(blocked) => \E g \in G : g.begin <= t /\ t <= g.end
         /\ \A g \in G : \A t \in g.begin..g.end :
              t < horizon /\ t + 1 \notin Ticks(blocked) => t + 1 <= g.end
         /\ \A g, h \in G : \A t \in g.begin..g.end : t \in h.begin..h.end => g = h
<1> DEFINE Begins == {0} \cup {b.end + 1 : b \in blocked}
           Limits(t) == {horizon} \cup {b.begin - 1 : b \in {c \in blocked : c.end >= t}}
           End(t) == Min(Limits(t))
<1>1. G = {[begin |-> t, end |-> End(t)] : t \in {s \in Begins : s <= End(s)}}
  BY Zenon DEF Gaps
<1>2. \A t : t \in Ticks(blocked) <=> t \in Int /\ \E b \in blocked : b.begin <= t /\ t <= b.end
  BY InTicks DEF Bounded
<1>3. \A b \in blocked : b.begin \in Int /\ b.end \in Int /\ 0 <= b.begin /\ b.begin <= b.end
  BY DEF Bounded
<1>4. \A t \in Begins : t \in Int /\ 0 <= t /\ (t = 0 \/ \E b \in blocked : t = b.end + 1)
  BY <1>3
<1>5. \A b \in blocked : b.end + 1 \in Begins
  OBVIOUS
<1>6. 0 \in Begins
  OBVIOUS
<1>7. ASSUME NEW t \in Int
      PROVE  /\ End(t) \in Int /\ End(t) <= horizon
             /\ \A b \in blocked : b.end >= t => End(t) <= b.begin - 1
             /\ End(t) = horizon \/ \E b \in blocked : b.end >= t /\ End(t) = b.begin - 1
  <2>1. PICK L \in SUBSET Int : L = Limits(t)
    <3>1. \A l \in Limits(t) : l \in Int
      BY <1>3
    <3>2. Limits(t) \in SUBSET Int
      BY <3>1
    <3> QED BY <3>2
  <2>2. /\ horizon \in L
        /\ \A b \in blocked : b.end >= t => b.begin - 1 \in L
        /\ \A l \in L : l = horizon \/ \E b \in blocked : b.end >= t /\ l = b.begin - 1
    BY <2>1
  <2>3. Min(L) \in L /\ \A l \in L : Min(L) <= l
    <3>1. L # {} /\ -1 \in Int /\ \A l \in L : -1 <= l
      BY <1>3, <2>2
    <3> QED BY <3>1, MinIsLeast
  <2>4. End(t) = Min(L)
    BY <2>1
  <2> HIDE DEF End, Limits
  <2> QED BY <1>3, <2>2, <2>3, <2>4
<1> HIDE DEF Begins, End, Limits
<1>8. ASSUME NEW g \in G
      PROVE  g.begin \in Begins /\ g.end = End(g.begin) /\ g.begin <= g.end
  BY <1>1
<1>9. \A g \in G : g.begin \in Int /\ g.end \in Int /\ 0 <= g.begin
                   /\ g.begin <= g.end /\ g.end <= horizon
  BY <1>4, <1>7, <1>8
<1>10. ASSUME NEW g \in G, NEW t \in g.begin..g.end
       PROVE  t \notin Ticks(blocked)
  <2>1. SUFFICES ASSUME NEW b \in blocked, b.begin <= t, t <= b.end PROVE FALSE
    BY <1>2
  <2>2. b.end >= g.begin
    BY <1>3, <1>9, <2>1
  <2>3. g.end <= b.begin - 1
    BY <1>7, <1>8, <1>9, <2>2
  <2> QED BY <1>3, <1>9, <2>1, <2>3
<1>11. ASSUME NEW t \in 0..horizon, t \notin Ticks(blocked)
       PROVE  \E g \in G : g.begin <= t /\ t <= g.end
  <2>1. PICK D \in SUBSET Int : D = {s \in Begins : s <= t}
    BY <1>4
  <2>2. PICK s \in D : \A u \in D : u <= s
    <3>1. t \in Int /\ D # {} /\ \A u \in D : u <= t
      BY <1>6, <2>1
    <3>2. Max(D) \in D /\ \A u \in D : u <= Max(D)
      BY <3>1, MaxIsGreatest
    <3> QED BY <3>2
  <2>3. \A b \in blocked : b.end >= s => t <= b.begin - 1
    <3> SUFFICES ASSUME NEW b \in blocked, b.end >= s, ~(t <= b.begin - 1) PROVE FALSE
      OBVIOUS
    <3>1. b.end < t
      BY <1>2, <1>3, <1>11
    <3>2. b.end + 1 \in D
      BY <1>3, <1>5, <2>1, <3>1
    <3> QED BY <1>3, <2>2, <3>2
  <2>4. s <= t /\ t <= End(s)
    BY <1>7, <2>1, <2>3
  <2>5. PICK g \in G : g = [begin |-> s, end |-> End(s)]
    <3>1. s \in Begins /\ s <= End(s)
      BY <1>7, <2>1, <2>4
    <3> QED BY <1>1, <3>1
  <2> QED BY <2>4, <2>5
<1>12. ASSUME NEW g \in G, NEW t \in g.begin..g.end, t < horizon, t + 1 \notin Ticks(blocked)
       PROVE  t + 1 <= g.end
  <2> SUFFICES ASSUME g.end = t PROVE FALSE
    BY <1>9
  <2>1. PICK b \in blocked : b.end >= g.begin /\ t = b.begin - 1
    BY <1>7, <1>8, <1>9, <1>12
  <2> QED BY <1>2, <1>3, <1>12, <2>1
<1>13. ASSUME NEW g \in G, NEW h \in G, NEW t \in g.begin..g.end, t \in h.begin..h.end,
              g.begin < h.begin
       PROVE  FALSE
  <2>1. PICK b \in blocked : h.begin = b.end + 1
    BY <1>4, <1>8, <1>9, <1>13
  <2>2. b.end \in g.begin..g.end /\ b.end \in Ticks(blocked)
    BY <1>2, <1>3, <1>9, <1>13, <2>1
  <2> QED BY <1>10, <2>2
<1>14. ASSUME NEW g \in G, NEW h \in G, NEW t \in g.begin..g.end, t \in h.begin..h.end
       PROVE  g = h
  <2>1. g.begin = h.begin
    BY <1>9, <1>13, <1>14
  <2> QED BY <1>1, <2>1
<1> QED BY <1>9, <1>10, <1>11, <1>12, <1>14

(* Cutting a gap loses none of its ticks, and parts two successive ones     *)
(* only where waiting from one to the next is blocked.                      *)
LEMMA SplitExact ==
  ASSUME NEW gap, gap.begin \in Int, gap.end \in Int, gap.begin <= gap.end, NEW waiting,
         NEW P, P = Split(gap, waiting)
  PROVE  /\ \A p \in P : /\ p.begin \in Int /\ p.end \in Int /\ p.copy \in 1..2
                         /\ gap.begin <= p.begin /\ p.begin <= p.end /\ p.end <= gap.end
                         /\ \A t \in p.begin..(p.end - 1) : t \notin Ticks(waiting)
                         /\ p.begin = 0 /\ gap.begin = 0 /\ (\A b \in waiting : b.begin \in Nat)
                            => p.copy = 1
         /\ \A t \in gap.begin..gap.end : \E p \in P : p.begin <= t /\ t <= p.end
         /\ \A p \in P : \A t \in p.begin..p.end :
              t < gap.end /\ t \notin Ticks(waiting) => t + 1 <= p.end
         /\ \A p, q \in P : p.begin = q.begin /\ p.copy = q.copy => p = q
<1> DEFINE Cuts == {t \in gap.begin..(gap.end - 1) : t \in Ticks(waiting)}
           Twice == /\ gap.begin = gap.end
                    /\ \E b \in waiting : b.begin < gap.begin /\ gap.end <= b.end
           Begins == {gap.begin} \cup {c + 1 : c \in Cuts}
           Copies == IF Twice THEN 1..2 ELSE {1}
           Limits(t) == {gap.end} \cup {c \in Cuts : c >= t}
           End(t) == Min(Limits(t))
<1>1. P = {[begin |-> t, end |-> End(t), copy |-> n] : t \in Begins, n \in Copies}
  BY SMT DEF Split
<1>2. \A c : c \in Cuts <=> c \in gap.begin..(gap.end - 1) /\ c \in Ticks(waiting)
  OBVIOUS
<1>3. \A t \in Begins : t \in Int /\ t \in gap.begin..gap.end
  OBVIOUS
<1>4. gap.begin \in Begins /\ \A c \in Cuts : c + 1 \in Begins
  OBVIOUS
<1>5. 1 \in Copies /\ \A n \in Copies : n \in 1..2
  OBVIOUS
<1>6. gap.begin = 0 /\ (\A b \in waiting : b.begin \in Nat) => \A n \in Copies : n = 1
  <2> SUFFICES ASSUME gap.begin = 0, \A b \in waiting : b.begin \in Nat PROVE ~Twice
    OBVIOUS
  <2>1. \A b \in waiting : ~(b.begin < gap.begin)
    OBVIOUS
  <2> QED BY <2>1
<1> HIDE DEF Twice, Copies
<1>7. ASSUME NEW t \in gap.begin..gap.end
      PROVE  /\ End(t) \in Int /\ t <= End(t) /\ End(t) <= gap.end
             /\ \A c \in Cuts : c >= t => End(t) <= c
             /\ End(t) = gap.end \/ End(t) \in Cuts
  <2>1. PICK L \in SUBSET Int : L = Limits(t)
    <3>1. \A l \in Limits(t) : l \in Int
      OBVIOUS
    <3>2. Limits(t) \in SUBSET Int
      BY <3>1
    <3> QED BY <3>2
  <2>2. /\ gap.end \in L
        /\ \A c \in Cuts : c >= t => c \in L
        /\ \A l \in L : t <= l /\ (l = gap.end \/ l \in Cuts)
    BY <2>1
  <2>3. Min(L) \in L /\ \A l \in L : Min(L) <= l
    <3>1. L # {} /\ t \in Int /\ \A l \in L : t <= l
      BY <2>2
    <3> QED BY <3>1, MinIsLeast
  <2>4. End(t) = Min(L)
    BY <2>1
  <2> HIDE DEF End, Limits
  <2> QED BY <1>2, <2>2, <2>3, <2>4
<1> HIDE DEF Begins, End, Limits, Cuts
<1>8. \A p \in P : p.begin \in Begins /\ p.end = End(p.begin) /\ p.copy \in Copies
  BY <1>1
<1>9. ASSUME NEW p \in P
      PROVE  /\ p.begin \in Int /\ p.end \in Int /\ p.copy \in 1..2
             /\ gap.begin <= p.begin /\ p.begin <= p.end /\ p.end <= gap.end
             /\ p.begin \in gap.begin..gap.end
  BY <1>3, <1>5, <1>7, <1>8
<1>10. ASSUME NEW p \in P, NEW t \in p.begin..(p.end - 1)
       PROVE  t \notin Ticks(waiting)
  <2> SUFFICES ASSUME t \in Ticks(waiting) PROVE FALSE
    OBVIOUS
  <2>1. t \in Cuts /\ t >= p.begin
    BY <1>2, <1>9
  <2> QED BY <1>7, <1>8, <1>9, <2>1
<1>11. ASSUME NEW t \in gap.begin..gap.end
       PROVE  \E p \in P : p.begin <= t /\ t <= p.end
  <2>1. PICK D \in SUBSET Int : D = {s \in Begins : s <= t}
    BY <1>3
  <2>2. PICK s \in D : \A u \in D : u <= s
    <3>1. t \in Int /\ D # {} /\ \A u \in D : u <= t
      BY <1>4, <2>1
    <3>2. Max(D) \in D /\ \A u \in D : u <= Max(D)
      BY <3>1, MaxIsGreatest
    <3> QED BY <3>2
  <2>3. s \in Begins /\ s \in gap.begin..gap.end /\ s <= t
    BY <1>3, <2>1
  <2>4. t <= End(s)
    <3> SUFFICES ASSUME End(s) < t PROVE FALSE
      BY <1>7, <2>3
    <3>1. End(s) \in Cuts /\ s <= End(s)
      BY <1>7, <2>3
    <3>2. End(s) + 1 \in D
      BY <1>2, <1>4, <2>1, <3>1
    <3> QED BY <1>7, <2>2, <2>3, <3>1, <3>2
  <2>5. PICK p : p = [begin |-> s, end |-> End(s), copy |-> 1]
    OBVIOUS
  <2>6. p \in P
    BY <1>1, <1>5, <2>3, <2>5
  <2> QED BY <2>3, <2>4, <2>5, <2>6
<1>12. ASSUME NEW p \in P, NEW t \in p.begin..p.end, t < gap.end, t \notin Ticks(waiting)
       PROVE  t + 1 <= p.end
  BY <1>2, <1>7, <1>8, <1>9, <1>12
<1>13. ASSUME NEW p \in P, NEW q \in P, p.begin = q.begin, p.copy = q.copy
       PROVE  p = q
  BY <1>1, <1>13
<1>14. ASSUME NEW p \in P, gap.begin = 0, \A b \in waiting : b.begin \in Nat
       PROVE  p.copy = 1
  BY <1>6, <1>8, <1>14
<1> QED BY <1>9, <1>10, <1>11, <1>12, <1>13, <1>14
-----------------------------------------------------------------------------
(* A frame is occupied by another robot exactly when it is not free.        *)
LEMMA OccupiedExact ==
  ASSUME NEW j, IsCall(j.route, j.tracks, j.horizon), NEW f \in 1..Len(j.route),
         NEW B, B = BlockedOccupancy(j.route[f], j.tracks, j.horizon)
  PROVE  /\ Bounded(B, 0, j.horizon)
         /\ \A m \in B : m.begin <= m.end
         /\ \A t \in 0..j.horizon : t \in Ticks(B) <=> ~Free(j, f, t)
<1>1. PICK h \in Nat : h = j.horizon
  BY DEF IsCall
<1>2. PICK a, tracks : a = j.route[f] /\ tracks = j.tracks
  OBVIOUS
<1>3. \A o \in tracks : IsTrack(o, h)
  BY <1>1, <1>2 DEF IsCall
<1>4. PICK U : U = UNION {OccupancyOf(o, a, h) : o \in tracks}
  OBVIOUS
<1>5. B = Merge(U)
  BY <1>1, <1>2, <1>4, Zenon DEF BlockedOccupancy
<1>6. \A o \in tracks :
        /\ Bounded(OccupancyOf(o, a, h), 0, h)
        /\ \A t \in 0..h :
             t \in Ticks(OccupancyOf(o, a, h)) <=> Collide(a, FrameAt(o.path, t), o.reach)
  BY <1>3, OccupancyExact
<1>7. Bounded(U, 0, h)
  BY <1>4, <1>6 DEF Bounded
<1>8. Ticks(B) = Ticks(U) /\ Bounded(B, 0, h) /\ \A m \in B : m.begin <= m.end
  BY <1>5, <1>7, MergeKeepsTicks
<1>9. \A t : t \in Ticks(U) <=> \E o \in tracks : t \in Ticks(OccupancyOf(o, a, h))
  BY <1>4 DEF Ticks
<1>10. \A t \in 0..h :
         t \in Ticks(B) <=> \E o \in tracks : Collide(a, FrameAt(o.path, t), o.reach)
  BY <1>6, <1>8, <1>9
<1> QED BY <1>1, <1>2, <1>8, <1>10, Zenon DEF Free

(* A departure of a robot that stays is blocked exactly when it meets.      *)
LEMMA WaitExact ==
  ASSUME NEW j, IsCall(j.route, j.tracks, j.horizon), NEW f \in 1..Len(j.route),
         NEW W, W = BlockedWait(j.route, f, j.tracks, j.horizon)
  PROVE  /\ Bounded(W, 0, j.horizon - 1)
         /\ \A t \in 0..(j.horizon - 1) : t \in Ticks(W) <=> ~Passable(j, f, f, t)
<1>1. PICK h \in Nat : h = j.horizon
  BY DEF IsCall
<1>2. PICK a, tracks : a = j.route[f] /\ tracks = j.tracks
  OBVIOUS
<1>3. W = BlockedMotion(a, a, tracks, h) /\ \A o \in tracks : IsTrack(o, h)
  BY <1>1, <1>2 DEF BlockedWait, IsCall
<1>4. /\ Bounded(W, 0, h - 1)
      /\ \A t \in 0..(h - 1) : t \in Ticks(W) <=> MotionMeets(tracks, a, a, t)
  BY <1>3, BlockedMotionExact
<1> QED BY <1>1, <1>2, <1>4, Zenon DEF Passable, Free, MotionMeets

(* The safe intervals of a frame are exactly the ticks at which it is free, *)
(* together exactly where waiting from one to the next is safe.             *)
LEMMA SafeIntervalsExact ==
  ASSUME NEW j, IsCall(j.route, j.tracks, j.horizon), NEW f \in 1..Len(j.route),
         NEW S, S = SafeIntervals(j.route, f, j.tracks, j.horizon)
  PROVE  /\ \A i \in S : /\ i.begin \in Int /\ i.end \in Int /\ i.copy \in 1..2
                         /\ 0 <= i.begin /\ i.begin <= i.end /\ i.end <= j.horizon
                         /\ i.begin = 0 => i.copy = 1
                         /\ \A t \in i.begin..i.end : Free(j, f, t)
                         /\ \A t \in i.begin..(i.end - 1) : Passable(j, f, f, t)
         /\ \A t \in 0..j.horizon :
              Free(j, f, t) => \E i \in S : i.begin <= t /\ t <= i.end
         /\ \A i \in S : \A t \in i.begin..i.end :
              t < j.horizon /\ Passable(j, f, f, t) => t + 1 <= i.end
         /\ \A i, k \in S : i.begin = k.begin /\ i.copy = k.copy => i = k
<1>1. PICK h \in Nat : h = j.horizon
  BY DEF IsCall
<1>2. PICK B : B = BlockedOccupancy(j.route[f], j.tracks, h)
  OBVIOUS
<1>3. PICK W : W = BlockedWait(j.route, f, j.tracks, h)
  OBVIOUS
<1>4. PICK G : G = Gaps(B, h)
  OBVIOUS
<1>5. S = UNION {Split(g, W) : g \in G}
  BY <1>1, <1>2, <1>3, <1>4, Zenon DEF SafeIntervals
<1>6. \A o \in j.tracks : IsTrack(o, h)
  BY <1>1 DEF IsCall
<1>7. /\ Bounded(B, 0, h)
      /\ \A m \in B : m.begin <= m.end
      /\ \A t \in 0..h : t \in Ticks(B) <=> ~Free(j, f, t)
  BY <1>1, <1>2, OccupiedExact
<1>8. Bounded(W, 0, h - 1) /\ \A t \in 0..(h - 1) : t \in Ticks(W) <=> ~Passable(j, f, f, t)
  BY <1>1, <1>3, WaitExact
<1>9. /\ \A g \in G : /\ g.begin \in Int /\ g.end \in Int
                      /\ 0 <= g.begin /\ g.begin <= g.end /\ g.end <= h
                      /\ \A t \in g.begin..g.end : t \notin Ticks(B)
      /\ \A t \in 0..h : t \notin Ticks(B) => \E g \in G : g.begin <= t /\ t <= g.end
      /\ \A g \in G : \A t \in g.begin..g.end :
           t < h /\ t + 1 \notin Ticks(B) => t + 1 <= g.end
      /\ \A g, k \in G : \A t \in g.begin..g.end : t \in k.begin..k.end => g = k
  BY <1>4, <1>7, GapsExact
<1>10. \A b \in W : b.begin \in Nat
  BY <1>8 DEF Bounded
<1>11. ASSUME NEW g \in G, NEW P, P = Split(g, W)
       PROVE  /\ \A p \in P : /\ p.begin \in Int /\ p.end \in Int /\ p.copy \in 1..2
                              /\ g.begin <= p.begin /\ p.begin <= p.end /\ p.end <= g.end
                              /\ \A t \in p.begin..(p.end - 1) : t \notin Ticks(W)
                              /\ p.begin = 0 /\ g.begin = 0 => p.copy = 1
              /\ \A t \in g.begin..g.end : \E p \in P : p.begin <= t /\ t <= p.end
              /\ \A p \in P : \A t \in p.begin..p.end :
                   t < g.end /\ t \notin Ticks(W) => t + 1 <= p.end
              /\ \A p, q \in P : p.begin = q.begin /\ p.copy = q.copy => p = q
  <2>1. g.begin \in Int /\ g.end \in Int /\ g.begin <= g.end
    BY <1>9
  <2> QED BY <1>10, <1>11, <2>1, SplitExact
<1>12. \A i \in S : \E g \in G : i \in Split(g, W)
  BY <1>5
<1>13. ASSUME NEW i \in S
       PROVE  /\ i.begin \in Int /\ i.end \in Int /\ i.copy \in 1..2
              /\ 0 <= i.begin /\ i.begin <= i.end /\ i.end <= h
              /\ i.begin = 0 => i.copy = 1
              /\ \A t \in i.begin..i.end : Free(j, f, t)
              /\ \A t \in i.begin..(i.end - 1) : Passable(j, f, f, t)
              /\ \A t \in i.begin..i.end : t < h /\ Passable(j, f, f, t) => t + 1 <= i.end
  <2>1. PICK g \in G : i \in Split(g, W)
    BY <1>12
  <2>2. /\ i.begin \in Int /\ i.end \in Int /\ i.copy \in 1..2
        /\ g.begin <= i.begin /\ i.begin <= i.end /\ i.end <= g.end
        /\ \A t \in i.begin..(i.end - 1) : t \notin Ticks(W)
        /\ i.begin = 0 /\ g.begin = 0 => i.copy = 1
        /\ \A t \in i.begin..i.end : t < g.end /\ t \notin Ticks(W) => t + 1 <= i.end
    BY <1>11, <2>1
  <2>3. /\ g.begin \in Int /\ g.end \in Int /\ 0 <= g.begin /\ g.end <= h
        /\ \A t \in g.begin..g.end : t \notin Ticks(B)
        /\ \A t \in g.begin..g.end : t < h /\ t + 1 \notin Ticks(B) => t + 1 <= g.end
    BY <1>9
  <2>4. \A t \in i.begin..i.end : Free(j, f, t)
    BY <1>7, <2>2, <2>3
  <2>5. \A t \in i.begin..(i.end - 1) : Passable(j, f, f, t)
    BY <1>8, <2>2, <2>3
  <2>6. ASSUME NEW t \in i.begin..i.end, t < h, Passable(j, f, f, t)
        PROVE  t + 1 <= i.end
    <3>1. Free(j, f, t + 1)
      BY <2>6 DEF Passable
    <3>2. t \in 0..(h - 1) /\ t + 1 \in 0..h /\ t \in g.begin..g.end
      BY <2>2, <2>3, <2>6
    <3>3. t + 1 <= g.end
      BY <1>7, <2>3, <2>6, <3>1, <3>2
    <3>4. t \notin Ticks(W)
      BY <1>8, <2>6, <3>2
    <3> QED BY <2>2, <2>3, <3>2, <3>3, <3>4
  <2>7. i.begin = 0 => i.copy = 1
    BY <2>2, <2>3
  <2> QED BY <2>2, <2>3, <2>4, <2>5, <2>6, <2>7
<1>14. ASSUME NEW t \in 0..h, Free(j, f, t)
       PROVE  \E i \in S : i.begin <= t /\ t <= i.end
  <2>1. PICK g \in G : g.begin <= t /\ t <= g.end
    BY <1>7, <1>9, <1>14
  <2>2. PICK P : P = Split(g, W)
    OBVIOUS
  <2>3. t \in g.begin..g.end
    BY <1>9, <2>1
  <2>4. PICK p \in P : p.begin <= t /\ t <= p.end
    BY <1>11, <2>2, <2>3
  <2> QED BY <1>5, <2>2, <2>4
<1>15. ASSUME NEW i \in S, NEW k \in S, i.begin = k.begin, i.copy = k.copy
       PROVE  i = k
  <2>1. PICK g \in G : i \in Split(g, W)
    BY <1>12
  <2>2. PICK q \in G : k \in Split(q, W)
    BY <1>12
  <2>3. /\ i.begin \in Int /\ g.begin <= i.begin /\ i.begin <= g.end
    BY <1>9, <1>11, <2>1
  <2>4. /\ q.begin <= k.begin /\ k.begin <= q.end
    BY <1>9, <1>11, <2>2
  <2>5. g = q
    BY <1>9, <1>15, <2>3, <2>4
  <2> QED BY <1>11, <1>15, <2>1, <2>2, <2>5
<1>16. \A i \in S : /\ i.begin \in Int /\ i.end \in Int /\ i.copy \in 1..2
                    /\ 0 <= i.begin /\ i.begin <= i.end /\ i.end <= h
                    /\ i.begin = 0 => i.copy = 1
                    /\ \A t \in i.begin..i.end : Free(j, f, t)
                    /\ \A t \in i.begin..(i.end - 1) : Passable(j, f, f, t)
  BY <1>13
<1>17. \A i \in S : \A t \in i.begin..i.end :
         t < h /\ Passable(j, f, f, t) => t + 1 <= i.end
  BY <1>13
<1> QED BY <1>1, <1>14, <1>15, <1>16, <1>17

(* The blocked departures of a frame are exactly those that meet somebody.  *)
LEMMA AdvanceExact ==
  ASSUME NEW j, IsCall(j.route, j.tracks, j.horizon), NEW f \in 1..(Len(j.route) - 1),
         NEW A, A = BlockedAdvance(j.route, f, j.tracks, j.horizon)
  PROVE  /\ Bounded(A, 0, j.horizon - 1)
         /\ \A t \in 0..(j.horizon - 1) : t \in Ticks(A) <=> ~Passable(j, f, f + 1, t)
<1>1. PICK h \in Nat : h = j.horizon
  BY DEF IsCall
<1>2. PICK a, b, tracks : a = j.route[f] /\ b = j.route[f + 1] /\ tracks = j.tracks
  OBVIOUS
<1>3. A = BlockedMotion(a, b, tracks, h) /\ \A o \in tracks : IsTrack(o, h)
  BY <1>1, <1>2 DEF BlockedAdvance, IsCall
<1>4. /\ Bounded(A, 0, h - 1)
      /\ \A t \in 0..(h - 1) : t \in Ticks(A) <=> MotionMeets(tracks, a, b, t)
  BY <1>3, BlockedMotionExact
<1> QED BY <1>1, <1>2, <1>4, Zenon DEF Passable, Free, MotionMeets
-----------------------------------------------------------------------------
(* The search.                                                              *)
(* A move ends after where it begins, where the robot can stop or at the   *)
(* end of its route.                                                       *)
LEMMA MoveEndExact ==
  ASSUME NEW route, IsRoute(route), NEW f \in 1..(Len(route) - 1),
         NEW next, next = MoveEnd(route, f)
  PROVE  /\ next \in (f + 1)..Len(route)
         /\ next = Len(route) \/ ~InTransit(route[next])
<1>1. PICK n \in Nat \ {0} : n = Len(route)
  BY DEF IsRoute
<1>2. f \in Int /\ f < n /\ 1 <= f
  BY <1>1
<1>3. PICK D : D = {g \in (f + 1)..n : g = n \/ ~InTransit(route[g])}
  OBVIOUS
<1>4. D \in SUBSET Int /\ n \in D /\ \A g \in D : f + 1 <= g
  BY <1>2, <1>3
<1>5. Min(D) \in D
  <2>1. D # {} /\ f + 1 \in Int
    BY <1>2, <1>4
  <2> QED BY <1>4, <2>1, MinIsLeast
<1>6. next = Min(D)
  BY <1>1, <1>3, Zenon DEF MoveEnd
<1> QED BY <1>1, <1>3, <1>5, <1>6

(* Each departure in B is blocked for one of the frames from f to next.    *)
BlockedUnderway(reserved, f, next, B) ==
  \A d \in Ticks(B) : \E g \in f..(next - 1) : d + g - f \in Ticks(reserved.advance[g])

(* A departure is blocked for a move when it is blocked for one of the     *)
(* frames the move passes, at the tick it leaves that frame.               *)
LEMMA MoveBlockedExact ==
  ASSUME NEW reserved, reserved.horizon \in Nat, NEW f \in Int, NEW next \in Int, f < next,
         \A g \in f..(next - 1) : Bounded(reserved.advance[g], 0, reserved.horizon - 1),
         NEW B, B = MoveBlocked(reserved, f, next)
  PROVE  /\ \A b \in B : b.begin \in Int /\ b.end \in Int /\ b.end + 1 \notin Ticks(B)
         /\ \A d \in 0..(reserved.horizon - (next - f)), g \in f..(next - 1) :
              d + g - f \in Ticks(reserved.advance[g]) => d \in Ticks(B)
         /\ BlockedUnderway(reserved, f, next, B)
<1>1. PICK last \in Int : last = reserved.horizon - (next - f)
  OBVIOUS
<1>2. PICK A : A = reserved.advance
  OBVIOUS
<1> DEFINE Shifted(b, offset) ==
             [begin |-> AtLeast(0, b.begin - offset),
              end   |-> AtMost(reserved.horizon - (next - f), b.end - offset)]
<1>3. PICK I : I = UNION {{Shifted(b, g - f) : b \in reserved.advance[g]} :
                            g \in f..(next - 1)}
  OBVIOUS
<1>4. B = Merge(I)
  BY <1>3, Zenon DEF MoveBlocked
<1>5. \A g \in f..(next - 1) : \A b \in A[g] : b.begin \in Int /\ b.end \in Int
  BY <1>2 DEF Bounded
<1>6. ASSUME NEW i \in I
      PROVE  i.begin \in Int /\ i.end \in Int /\ 0 <= i.begin /\ i.end <= last
  <2>1. PICK g \in f..(next - 1) : \E b \in A[g] : i = Shifted(b, g - f)
    BY <1>2, <1>3
  <2>2. PICK b \in A[g] : i = Shifted(b, g - f)
    BY <2>1
  <2>3. b.begin - (g - f) \in Int /\ b.end - (g - f) \in Int
    BY <1>5
  <2> QED BY <1>1, <2>2, <2>3 DEF AtLeast, AtMost
<1>7. Bounded(I, 0, last)
  BY <1>6 DEF Bounded
<1>8. /\ Ticks(B) = Ticks(I) /\ Bounded(B, 0, last)
      /\ \A b \in B : b.end + 1 \notin Ticks(I)
  BY <1>4, <1>7, MergeKeepsTicks
<1>9. ASSUME NEW d \in 0..last, NEW g \in f..(next - 1), d + g - f \in Ticks(A[g])
      PROVE  d \in Ticks(I)
  <2>1. PICK b \in A[g] : b.begin <= d + g - f /\ d + g - f <= b.end
    BY <1>5, <1>9, InTicks
  <2>2. PICK i : i = Shifted(b, g - f)
    OBVIOUS
  <2>3. i \in I
    BY <1>2, <1>3, <2>2
  <2>4. i.begin <= d /\ d <= i.end
    BY <1>1, <1>5, <2>1, <2>2 DEF AtLeast, AtMost
  <2> QED BY <1>6, <2>3, <2>4, InTicks
<1>10. ASSUME NEW d \in Ticks(I)
       PROVE  \E g \in f..(next - 1) : d + g - f \in Ticks(A[g])
  <2>1. d \in Int /\ \E i \in I : i.begin <= d /\ d <= i.end
    BY <1>6, InTicks
  <2>2. PICK i \in I : i.begin <= d /\ d <= i.end
    BY <2>1
  <2>3. PICK g \in f..(next - 1) : \E b \in A[g] : i = Shifted(b, g - f)
    BY <1>2, <1>3
  <2>4. PICK b \in A[g] : i = Shifted(b, g - f)
    BY <2>3
  <2>5. b.begin \in Int /\ b.end \in Int
    BY <1>5
  <2>6. b.begin <= d + g - f /\ d + g - f <= b.end
    BY <2>1, <2>2, <2>4, <2>5 DEF AtLeast, AtMost
  <2>7. d + g - f \in Ticks(A[g])
    BY <1>5, <2>1, <2>6, InTicks
  <2> QED BY <2>7
<1>11. BlockedUnderway(reserved, f, next, B)
  BY <1>2, <1>8, <1>10 DEF BlockedUnderway
<1> QED BY <1>1, <1>2, <1>8, <1>9, <1>11 DEF Bounded

(* The departure chosen is not blocked and no earlier than asked for.      *)
LEMMA FirstClearIsClear ==
  ASSUME NEW B, \A b \in B : b.begin \in Int /\ b.end \in Int /\ b.end + 1 \notin Ticks(B),
         NEW earliest \in Int, NEW d, d = FirstClear(B, earliest)
  PROVE  d \in Int /\ earliest <= d /\ d \notin Ticks(B)
<1>1. PICK hits : hits = {b \in B : b.begin <= earliest /\ earliest <= b.end}
  OBVIOUS
<1>2. d = IF hits = {} THEN earliest ELSE (CHOOSE b \in hits : TRUE).end + 1
  BY <1>1 DEF FirstClear
<1>3. CASE hits = {}
  <2>1. earliest \notin Ticks(B)
    BY <1>1, <1>3, InTicks
  <2> QED BY <1>2, <1>3, <2>1
<1>4. CASE hits # {}
  <2>1. PICK b \in hits : d = b.end + 1
    BY <1>2, <1>4
  <2> QED BY <1>1, <2>1
<1> QED BY <1>3, <1>4

(* The numbers of a finite set in their order are numbers of the set.      *)
LEMMA InOrderExact ==
  ASSUME NEW S \in SUBSET Int, IsFiniteSet(S), NEW order, order = InOrder(S)
  PROVE  /\ Cardinality(S) \in Nat
         /\ order \in [1..Cardinality(S) -> S]
<1>1. Cardinality(S) \in Nat
  BY FS_CardinalityType
<1>2. ASSUME NEW k \in 1..Cardinality(S)
      PROVE  (CHOOSE n \in S : Cardinality({i \in S : i < n}) = k - 1) \in S
  BY RankIsTaken
<1> QED BY <1>1, <1>2 DEF InOrder

(* The queue has a first entry.                                            *)
LEMMA QueueHasFirst ==
  ASSUME NEW Q, Q # {}, NEW least \in Int,
         \A e \in Q : e[1] \in Nat /\ e[2] \in Int /\ least <= e[2] /\ e[3] \in Nat
  PROVE  \E e \in Q : \A o \in Q :
           \/ e[1] = o[1] /\ e[2] = o[2] /\ e[3] = o[3]
           \/ Before(e, o)
<1>1. PICK P \in SUBSET Nat : P = {e[1] : e \in Q}
  <2>1. \A n \in {e[1] : e \in Q} : n \in Nat
    OBVIOUS
  <2>2. {e[1] : e \in Q} \in SUBSET Nat
    BY <2>1
  <2> QED BY <2>2
<1>2. PICK p \in P : \A n \in P : p <= n
  <2>1. P # {}
    BY <1>1
  <2> QED BY <2>1, LeastNatural
<1>3. PICK R \in SUBSET Int : R = {e[2] : e \in {x \in Q : x[1] = p}}
  <2>1. \A n \in {e[2] : e \in {x \in Q : x[1] = p}} : n \in Int
    OBVIOUS
  <2>2. {e[2] : e \in {x \in Q : x[1] = p}} \in SUBSET Int
    BY <2>1
  <2> QED BY <2>2
<1>4. R # {} /\ \A n \in R : least <= n
  BY <1>1, <1>3
<1>5. Min(R) \in R /\ \A n \in R : Min(R) <= n
  BY <1>4, MinIsLeast
<1>6. PICK r \in R : \A n \in R : r <= n
  BY <1>5
<1>7. PICK T \in SUBSET Nat : T = {e[3] : e \in {x \in Q : x[1] = p /\ x[2] = r}}
  <2>1. \A n \in {e[3] : e \in {x \in Q : x[1] = p /\ x[2] = r}} : n \in Nat
    OBVIOUS
  <2>2. {e[3] : e \in {x \in Q : x[1] = p /\ x[2] = r}} \in SUBSET Nat
    BY <2>1
  <2> QED BY <2>2
<1>8. T # {}
  BY <1>3, <1>7
<1>9. PICK t \in T : \A n \in T : t <= n
  BY <1>8, LeastNatural
<1>10. PICK e \in Q : e[1] = p /\ e[2] = r /\ e[3] = t
  BY <1>7
<1>11. ASSUME NEW o \in Q
       PROVE  \/ e[1] = o[1] /\ e[2] = o[2] /\ e[3] = o[3]
              \/ Before(e, o)
  <2>1. p <= o[1]
    BY <1>1, <1>2
  <2>2. o[1] = p => r <= o[2]
    BY <1>3, <1>6
  <2>3. o[1] = p /\ o[2] = r => t <= o[3]
    BY <1>7, <1>9
  <2>4. /\ o[1] \in Nat /\ o[2] \in Int /\ o[3] \in Nat /\ p \in Nat /\ r \in Int /\ t \in Nat
    BY <1>10
  <2> QED BY <1>10, <2>1, <2>2, <2>3, <2>4 DEF Before
<1> QED BY <1>11
-----------------------------------------------------------------------------
(* What the search is given: the reservations of a call and the moves      *)
(* computed from them.                                                     *)
Prepared(j) ==
  /\ IsCall(j.route, j.tracks, j.horizon)
  /\ \A f \in 1..Len(j.route) : j.safe[f] = SafeIntervals(j.route, f, j.tracks, j.horizon)
  /\ \A f \in 1..(Len(j.route) - 1) :
       /\ j.advance[f] = BlockedAdvance(j.route, f, j.tracks, j.horizon)
       /\ j.edges[f] = MacroEdge(j, f)

NodesOf(j) ==
  [frame : Int, interval : UNION {j.safe[f] : f \in 1..Len(j.route)},
   arrival : Int, parent : Int, departure : Int]

(* A node is an arrival in a safe interval of a frame the robot may stop   *)
(* at, or of the last one.                                                 *)
IsArrival(j, n) ==
  /\ n.frame \in 1..Len(j.route)
  /\ n.interval \in j.safe[n.frame]
  /\ n.arrival \in n.interval.begin..n.interval.end
  /\ n.frame < Len(j.route) => ~InTransit(j.route[n.frame])

(* It is reached from node p by one move, after a wait p's interval allows.*)
IsLeg(j, p, n) ==
  /\ p.frame < Len(j.route)
  /\ n.frame = j.edges[p.frame].next
  /\ p.arrival <= n.departure /\ n.departure <= p.interval.end
  /\ n.arrival = n.departure + n.frame - p.frame
  /\ n.departure \notin Ticks(j.edges[p.frame].blocked)

IsTree(j, found) ==
  /\ found \in Seq(NodesOf(j)) /\ found # <<>>
  /\ found[1].frame = 1 /\ found[1].arrival = 0
  /\ \A id \in 1..Len(found) : IsArrival(j, found[id])
  /\ \A id \in 2..Len(found) :
       found[id].parent \in 1..(id - 1) /\ IsLeg(j, found[found[id].parent], found[id])

EntriesOf(j, found) ==
  {Entry(j.route, found[id].frame, found[id].arrival, id) : id \in 1..Len(found)}

(* The inductive invariant of a search.                                    *)
SearchInv ==
  /\ verdict \in {"idle", "searching", "found", "failed"}
  /\ verdict # "idle" => Prepared(job)
  /\ verdict = "searching" => IsTree(job, nodes) /\ open \subseteq EntriesOf(job, nodes)
  /\ verdict = "found" => /\ Legal(job, schedule, 2 * job.horizon)
                          /\ schedule \in Seq(Int) /\ Len(schedule) - 1 <= job.horizon

LEMMA IntervalFacts ==
  ASSUME NEW j, Prepared(j), NEW f \in 1..Len(j.route), NEW i \in j.safe[f]
  PROVE  /\ i.begin \in Int /\ i.end \in Int /\ i.copy \in 1..2
         /\ 0 <= i.begin /\ i.begin <= i.end /\ i.end <= j.horizon
         /\ \A t \in i.begin..i.end : Free(j, f, t)
         /\ \A t \in i.begin..(i.end - 1) : Passable(j, f, f, t)
<1>1. PICK S : S = j.safe[f]
  OBVIOUS
<1>2. IsCall(j.route, j.tracks, j.horizon) /\ S = SafeIntervals(j.route, f, j.tracks, j.horizon)
  BY <1>1 DEF Prepared
<1>3. \A k \in S :
        /\ k.begin \in Int /\ k.end \in Int /\ k.copy \in 1..2
        /\ 0 <= k.begin /\ k.begin <= k.end /\ k.end <= j.horizon
        /\ \A t \in k.begin..k.end : Free(j, f, t)
        /\ \A t \in k.begin..(k.end - 1) : Passable(j, f, f, t)
  BY <1>2, SafeIntervalsExact
<1> QED BY <1>1, <1>3

(* The ticks of a move that ends by the horizon are before it.              *)
LEMMA DuringMove ==
  ASSUME NEW f \in Int, NEW next \in Int, NEW h \in Int,
         NEW d \in 0..(h - (next - f)), NEW g \in f..(next - 1)
  PROVE  d + g - f \in 0..(h - 1)
OBVIOUS

(* A move whose departure is not blocked meets nobody on its way.           *)
LEMMA MoveFacts ==
  ASSUME NEW j, Prepared(j), NEW f \in 1..(Len(j.route) - 1),
         NEW next, next = j.edges[f].next, NEW B, B = j.edges[f].blocked
  PROVE  /\ next \in (f + 1)..Len(j.route)
         /\ next = Len(j.route) \/ ~InTransit(j.route[next])
         /\ \A b \in B : b.begin \in Int /\ b.end \in Int /\ b.end + 1 \notin Ticks(B)
         /\ \A d \in 0..(j.horizon - (next - f)), g \in f..(next - 1) :
              d \notin Ticks(B) => Passable(j, g, g + 1, d + g - f)
<1>1. /\ IsCall(j.route, j.tracks, j.horizon)
      /\ j.edges[f] = MacroEdge(j, f)
      /\ \A g \in 1..(Len(j.route) - 1) :
           j.advance[g] = BlockedAdvance(j.route, g, j.tracks, j.horizon)
  BY DEF Prepared
<1>2. next = MoveEnd(j.route, f) /\ B = MoveBlocked(j, f, next)
  BY <1>1 DEF MacroEdge
<1>3. PICK n \in Nat \ {0}, h \in Nat : n = Len(j.route) /\ h = j.horizon
  BY <1>1 DEF IsCall, IsRoute
<1>4. /\ next \in (f + 1)..n
      /\ next = n \/ ~InTransit(j.route[next])
  BY <1>1, <1>2, <1>3, MoveEndExact DEF IsCall
<1>5. ASSUME NEW g \in 1..(n - 1)
      PROVE  /\ Bounded(j.advance[g], 0, h - 1)
             /\ \A t \in 0..(h - 1) : t \in Ticks(j.advance[g]) <=> ~Passable(j, g, g + 1, t)
  BY <1>1, <1>3, AdvanceExact
<1>6. f \in Int /\ next \in Int /\ f < next /\ f..(next - 1) \subseteq 1..(n - 1)
  BY <1>3, <1>4
<1>7. /\ \A b \in B : b.begin \in Int /\ b.end \in Int /\ b.end + 1 \notin Ticks(B)
      /\ \A d \in 0..(h - (next - f)), g \in f..(next - 1) :
           d + g - f \in Ticks(j.advance[g]) => d \in Ticks(B)
  <2>1. \A g \in f..(next - 1) : Bounded(j.advance[g], 0, h - 1)
    BY <1>5, <1>6
  <2> QED BY <1>2, <1>3, <1>6, <2>1, MoveBlockedExact
<1>9. h - (next - f) \in Int /\ next - 1 \in Int
  BY <1>6
<1>8. ASSUME NEW d \in 0..(h - (next - f)), NEW g \in f..(next - 1), d \notin Ticks(B)
      PROVE  Passable(j, g, g + 1, d + g - f)
  <2>1. g \in 1..(n - 1)
    BY <1>6
  <2>2. f \in Int /\ next \in Int
    BY <1>6
  <2>4. h \in Int
    OBVIOUS
  <2>3. d + g - f \in 0..(h - 1)
    BY <2>2, <2>4, DuringMove, Zenon
  <2> QED BY <1>5, <1>7, <1>8, <2>1, <2>3
<1> QED BY <1>3, <1>4, <1>7, <1>8

(* The entry taken from the queue is that of a node found, and no other    *)
(* entry's estimate is less.                                                *)
LEMMA TopIsFirst ==
  ASSUME IsTree(job, nodes), Prepared(job), open \subseteq EntriesOf(job, nodes), open # {}
  PROVE  /\ Top \in open /\ Top[3] \in 1..Len(nodes)
         /\ Top = Entry(job.route, nodes[Top[3]].frame, nodes[Top[3]].arrival, Top[3])
         /\ \A o \in open : Top[1] <= o[1]
<1>1. PICK j, found, Q : j = job /\ found = nodes /\ Q = open
  OBVIOUS
<1>2. PICK n \in Nat \ {0}, h \in Nat : n = Len(j.route) /\ h = j.horizon
  BY <1>1 DEF Prepared, IsCall, IsRoute
<1>3. PICK m \in Nat : m = Len(found)
  BY <1>1 DEF IsTree
<1>4. ASSUME NEW id \in 1..m
      PROVE  /\ found[id].frame \in 1..n
             /\ found[id].arrival \in 0..h
  <2>1. /\ found[id].frame \in 1..n /\ found[id].interval \in j.safe[found[id].frame]
        /\ found[id].arrival \in found[id].interval.begin..found[id].interval.end
    BY <1>1, <1>2, <1>3 DEF IsTree, IsArrival
  <2>2. /\ found[id].interval.begin \in Int /\ found[id].interval.end \in Int
        /\ 0 <= found[id].interval.begin /\ found[id].interval.end <= h
    BY <1>1, <1>2, <2>1, IntervalFacts
  <2> QED BY <2>1, <2>2
<1>5. ASSUME NEW e \in Q
      PROVE  /\ e = <<e[1], e[2], e[3]>> /\ e[3] \in 1..m
             /\ e[1] \in Nat /\ e[2] \in Int /\ -h <= e[2] /\ e[3] \in Nat
             /\ e = Entry(j.route, found[e[3]].frame, found[e[3]].arrival, e[3])
  <2>1. PICK id \in 1..m : e = Entry(j.route, found[id].frame, found[id].arrival, id)
    BY <1>1, <1>3 DEF EntriesOf
  <2>2. e = <<found[id].arrival + n - found[id].frame, -found[id].arrival, id>>
    BY <1>2, <2>1 DEF Entry
  <2>3. e[3] = id
    BY <2>2
  <2>4. e = Entry(j.route, found[e[3]].frame, found[e[3]].arrival, e[3])
    BY <2>1, <2>3
  <2> QED BY <1>4, <2>2, <2>4
<1>6. PICK e \in Q : \A o \in Q :
        (e[1] = o[1] /\ e[2] = o[2] /\ e[3] = o[3]) \/ Before(e, o)
  <2>1. -h \in Int /\ Q # {}
    BY <1>1
  <2> QED BY <1>5, <2>1, QueueHasFirst
<1>7. \A o \in Q : e = o \/ Before(e, o)
  BY <1>5, <1>6
<1>8. PICK top : top = CHOOSE x \in Q : \A o \in Q : x = o \/ Before(x, o)
  OBVIOUS
<1>9. top \in Q /\ \A o \in Q : top = o \/ Before(top, o)
  BY <1>7, <1>8, Zenon
<1>10. ASSUME NEW o \in Q
       PROVE  top[1] <= o[1]
  <2>1. top[1] \in Nat /\ o[1] \in Nat
    BY <1>5, <1>9
  <2>2. top = o \/ top[1] < o[1] \/ top[1] = o[1]
    BY <1>9 DEF Before
  <2> QED BY <2>1, <2>2
<1>11. Top = top
  BY <1>1, <1>8, Zenon DEF Top
<1>12. top[3] \in 1..m /\ top = Entry(j.route, found[top[3]].frame, found[top[3]].arrival, top[3])
  BY <1>5, <1>9
<1> QED BY <1>1, <1>3, <1>9, <1>10, <1>11, <1>12

LEMMA TopIsFound ==
  ASSUME IsTree(job, nodes), Prepared(job), open \subseteq EntriesOf(job, nodes), open # {}
  PROVE  Top[3] \in 1..Len(nodes) /\ Current = nodes[Top[3]]
BY TopIsFirst DEF Current
-----------------------------------------------------------------------------
(* The search begins with a tree of the one node it starts from.            *)
LEMMA StartsSearched ==
  ASSUME NEW route, NEW tracks, NEW horizon, IsCall(route, tracks, horizon), NEW limit,
         StartSearch(Reserve(route, tracks, horizon), limit)
  PROVE  /\ SearchInv' /\ verdict' # "idle"
         /\ job'.route = route /\ job'.tracks = tracks /\ job'.horizon = horizon
<1>1. PICK r : r = Reserve(route, tracks, horizon)
  OBVIOUS
<1>2. PICK n \in Nat \ {0} : n = Len(route)
  BY DEF IsCall, IsRoute
<1>3. /\ r.route = route /\ r.tracks = tracks /\ r.horizon = horizon
      /\ r.safe = [f \in 1..n |-> SafeIntervals(route, f, tracks, horizon)]
      /\ r.advance = [f \in 1..(n - 1) |-> BlockedAdvance(route, f, tracks, horizon)]
  BY <1>1, <1>2 DEF Reserve
<1>4. PICK j : j = [route |-> route, tracks |-> tracks, horizon |-> horizon, limit |-> limit,
                    safe |-> r.safe, advance |-> r.advance,
                    edges |-> [f \in 1..(n - 1) |-> MacroEdge(r, f)]]
  OBVIOUS
<1>5. job' = j
  BY <1>1, <1>2, <1>3, <1>4 DEF StartSearch
<1>6. /\ j.route = route /\ j.tracks = tracks /\ j.horizon = horizon
      /\ j.safe = r.safe /\ j.advance = r.advance
      /\ j.edges = [f \in 1..(n - 1) |-> MacroEdge(r, f)]
  BY <1>4
<1>7. \A f \in 1..(n - 1) : MacroEdge(j, f) = MacroEdge(r, f)
  BY <1>3, <1>6 DEF MacroEdge, MoveBlocked
<1>8. Prepared(j)
  BY <1>2, <1>3, <1>6, <1>7 DEF Prepared
<1>9. PICK starts : starts = {i \in r.safe[1] : i.begin = 0}
  OBVIOUS
<1>10. CASE starts = {}
  <2>1. verdict' = "failed"
    BY <1>1, <1>9, <1>10 DEF StartSearch
  <2> QED BY <1>5, <1>6, <1>8, <2>1 DEF SearchInv
<1>11. CASE starts # {}
  <2>1. /\ verdict' = "searching"
        /\ open' = {Entry(route, 1, 0, 1)}
        /\ \E start \in starts : nodes' = << Node(1, start, 0, 1, 0) >>
    BY <1>1, <1>3, <1>9, <1>11 DEF StartSearch
  <2>2. PICK start \in starts : nodes' = << Node(1, start, 0, 1, 0) >>
    BY <2>1
  <2>3. start \in j.safe[1] /\ start.begin = 0
    BY <1>6, <1>9
  <2>4. 1 \in 1..Len(j.route)
    BY <1>2, <1>6
  <2>5. start.end \in Int /\ 0 <= start.end
    BY <1>8, <2>3, <2>4, IntervalFacts
  <2>6. PICK node : node = Node(1, start, 0, 1, 0)
    OBVIOUS
  <2>7. PICK found : found = << node >>
    OBVIOUS
  <2>8. /\ node.frame = 1 /\ node.interval = start /\ node.arrival = 0
        /\ node \in NodesOf(j)
    BY <2>3, <2>4, <2>6 DEF Node, NodesOf
  <2>9. found \in Seq(NodesOf(j)) /\ Len(found) = 1 /\ found[1] = node /\ found # <<>>
    BY <2>7, <2>8
  <2>10. ~InTransit(route[1])
    BY DEF IsCall
  <2>11. IsArrival(j, node)
    BY <1>6, <2>3, <2>4, <2>5, <2>8, <2>10 DEF IsArrival
  <2>12. IsTree(j, found)
    BY <2>8, <2>9, <2>11 DEF IsTree
  <2>13. open' \subseteq EntriesOf(j, found)
    BY <1>6, <2>1, <2>8, <2>9 DEF EntriesOf
  <2>14. nodes' = found
    BY <2>2, <2>6, <2>7
  <2> QED BY <1>5, <1>6, <1>8, <2>1, <2>12, <2>13, <2>14 DEF SearchInv
<1> QED BY <1>10, <1>11

LEMMA PlaceBounded ==
  ASSUME NEW h \in Nat, NEW i, i.begin \in 0..h, i.copy \in 1..2
  PROVE  Place(i) \in 1..(2 * h + 2)
BY DEF Place

(* Expanding a node adds legs to the tree.                                  *)
LEMMA ExpandGrowsTree ==
  ASSUME Prepared(job), IsTree(job, nodes), open \subseteq EntriesOf(job, nodes), Expand
  PROVE  job' = job /\ IsTree(job, nodes') /\ open' \subseteq EntriesOf(job, nodes')
<1>1. PICK j, found, top : j = job /\ found = nodes /\ top = Top[3]
  OBVIOUS
<1>2. PICK p : p = Current
  OBVIOUS
<1>3. open # {} /\ p.frame < Len(j.route) /\ job' = job
  BY <1>1, <1>2 DEF Expand, Taken, Searching, LastFrame
<1>4. PICK n \in Nat \ {0}, h \in Nat, m \in Nat : n = Len(j.route) /\ h = j.horizon /\ m = Len(found)
  BY <1>1 DEF Prepared, IsCall, IsRoute, IsTree
<1>5. top \in 1..m /\ p = found[top] /\ IsArrival(j, p)
  BY <1>1, <1>2, <1>3, <1>4, TopIsFound DEF IsTree
<1>6. p.frame \in 1..(n - 1)
  BY <1>3, <1>4, <1>5 DEF IsArrival
<1>7. PICK f \in 1..(n - 1) : f = p.frame
  BY <1>6
<1>8. PICK e : e = j.edges[f]
  OBVIOUS
<1>9. /\ e.next \in (f + 1)..n
      /\ e.next = n \/ ~InTransit(j.route[e.next])
      /\ \A b \in e.blocked : /\ b.begin \in Int /\ b.end \in Int
                              /\ b.end + 1 \notin Ticks(e.blocked)
  BY <1>1, <1>4, <1>8, MoveFacts
<1>10. p.arrival \in Int /\ 0 <= p.arrival
  <2>1. /\ p.frame \in 1..Len(j.route) /\ p.interval \in j.safe[p.frame]
        /\ p.arrival \in p.interval.begin..p.interval.end
    BY <1>5 DEF IsArrival
  <2>2. p.interval.begin \in Int /\ p.interval.end \in Int /\ 0 <= p.interval.begin
    BY <1>1, <2>1, IntervalFacts
  <2> QED BY <2>1, <2>2
<1> DEFINE edge == job.edges[Current.frame]
           Arrive(to) == Offer(Current, edge, to)
           reached == {to \in job.safe[edge.next] :
                         Serves(Current, edge, to) /\ Improves(Arrive(to))}
           places == {Place(to) : to \in reached}
           order == InOrder({Place(to) : to \in reached})
           added == [k \in DOMAIN order |-> Arrive(CHOOSE to \in reached : Place(to) = order[k])]
<1>11. /\ nodes' = nodes \o added
       /\ open' = (open \ {Top}) \cup
                    {Entry(job.route, edge.next, added[k].arrival, Len(nodes) + k) :
                       k \in DOMAIN added}
  BY Zenon DEF Expand
<1>12. Current = p /\ edge = e
  BY <1>1, <1>2, <1>7, <1>8
<1>13. ASSUME NEW to \in reached
       PROVE  /\ Place(to) \in 1..(2 * h + 2)
              /\ Arrive(to) \in NodesOf(j) /\ Arrive(to).parent = top
              /\ Arrive(to).frame = e.next
              /\ IsArrival(j, Arrive(to)) /\ IsLeg(j, p, Arrive(to))
  <2>1. to \in j.safe[e.next] /\ Serves(p, e, to)
    BY <1>1, <1>12
  <2>2. e.next \in 1..n /\ e.next \in Int /\ f \in Int /\ e.next > f
    BY <1>9
  <2>3. /\ to.begin \in Int /\ to.end \in Int /\ to.copy \in 1..2
        /\ 0 <= to.begin /\ to.begin <= to.end /\ to.end <= h
    BY <1>1, <1>4, <2>1, <2>2, IntervalFacts
  <2>4. p.interval.end \in Int
    BY <1>1, <1>4, <1>5, IntervalFacts DEF IsArrival
  <2>5. PICK earliest \in Int : earliest = AtLeast(p.arrival, to.begin - (e.next - f))
    BY <1>10, <2>2, <2>3 DEF AtLeast
  <2>6. p.arrival <= earliest /\ to.begin - (e.next - f) <= earliest
    BY <1>10, <2>2, <2>3, <2>5 DEF AtLeast
  <2>7. PICK d : d = FirstClear(e.blocked, earliest)
    OBVIOUS
  <2>8. d \in Int /\ earliest <= d /\ d \notin Ticks(e.blocked)
    BY <1>9, <2>7, FirstClearIsClear
  <2>9. Departure(p, e, to) = d
    BY <1>7, <2>5, <2>7 DEF Departure
  <2>10. d <= p.interval.end /\ d <= to.end - (e.next - f)
    BY <1>7, <2>1, <2>2, <2>3, <2>4, <2>8, <2>9 DEF Serves, AtMost
  <2>11. PICK x : x = Node(e.next, to, d + e.next - f, top, d)
    OBVIOUS
  <2>12. Arrive(to) = x
    BY <1>1, <1>7, <1>12, <2>9, <2>11 DEF Offer
  <2>13. /\ x.frame = e.next /\ x.interval = to /\ x.arrival = d + e.next - f
         /\ x.parent = top /\ x.departure = d
    BY <2>11 DEF Node
  <2>14. x \in NodesOf(j)
    <3>1. to \in UNION {j.safe[g] : g \in 1..Len(j.route)}
      BY <1>4, <2>1, <2>2
    <3>2. d + e.next - f \in Int /\ top \in Int
      BY <1>5, <2>2, <2>8
    <3> QED BY <2>2, <2>8, <2>11, <3>1, <3>2 DEF Node, NodesOf
  <2>15. IsArrival(j, x)
    <3>1. d + e.next - f \in to.begin..to.end
      BY <2>2, <2>3, <2>6, <2>8, <2>10
    <3> QED BY <1>4, <1>9, <2>1, <2>2, <2>13, <3>1 DEF IsArrival
  <2>16. IsLeg(j, p, x)
    <3>1. p.arrival <= d
      BY <1>10, <2>6, <2>8
    <3> QED BY <1>3, <1>7, <1>8, <2>8, <2>10, <2>13, <3>1 DEF IsLeg
  <2>17. Place(to) \in 1..(2 * h + 2)
    <3>1. to.begin \in 0..h
      BY <2>3
    <3> QED BY <2>3, <3>1, PlaceBounded
  <2> QED BY <2>12, <2>13, <2>14, <2>15, <2>16, <2>17
<1>14. PICK N \in Nat : /\ DOMAIN order = 1..N
                        /\ \A k \in 1..N : order[k] \in places
  <2>1. IsFiniteSet(1..(2 * h + 2))
    BY FS_Interval
  <2>2. \A x \in places : x \in 1..(2 * h + 2)
    BY <1>13
  <2> HIDE DEF places
  <2>3. places \in SUBSET (1..(2 * h + 2)) /\ places \in SUBSET Int
    BY <2>2
  <2>4. IsFiniteSet(places)
    BY <2>1, <2>3, FS_Subset
  <2>5. order = InOrder(places)
    BY DEF places
  <2> HIDE DEF order
  <2> QED BY <2>3, <2>4, <2>5, InOrderExact
<1>15. ASSUME NEW k \in 1..N
       PROVE  \E to \in reached : added[k] = Arrive(to)
  <2>1. \E to \in reached : Place(to) = order[k]
    BY <1>14
  <2>2. PICK to \in reached : to = CHOOSE x \in reached : Place(x) = order[k]
    BY <2>1
  <2>3. added[k] = Arrive(CHOOSE x \in reached : Place(x) = order[k])
    BY <1>14
  <2> QED BY <2>2, <2>3
<1>16. PICK new : new = added
  OBVIOUS
<1>17. ASSUME NEW k \in 1..N
       PROVE  /\ new[k] \in NodesOf(j) /\ new[k].parent = top /\ new[k].frame = e.next
              /\ IsArrival(j, new[k]) /\ IsLeg(j, p, new[k])
  <2>1. PICK to \in reached : new[k] = Arrive(to)
    BY <1>15, <1>16
  <2>2. /\ Arrive(to) \in NodesOf(j) /\ Arrive(to).parent = top /\ Arrive(to).frame = e.next
        /\ IsArrival(j, Arrive(to)) /\ IsLeg(j, p, Arrive(to))
    BY <1>13
  <2> HIDE DEF Arrive
  <2> QED BY <2>1, <2>2, Zenon
<1>18. DOMAIN new = 1..N /\ new \in [1..N -> NodesOf(j)]
  <2> DEFINE X(k) == Arrive(CHOOSE to \in reached : Place(to) = order[k])
  <2>1. new = [k \in 1..N |-> X(k)]
    BY <1>14, <1>16
  <2> HIDE DEF X
  <2>2. \A k \in 1..N : X(k) \in NodesOf(j)
    BY <1>17, <2>1
  <2> QED BY <2>1, <2>2
<1> HIDE DEF edge, Arrive, reached, places, order, added
<1>19. /\ nodes' = found \o new
       /\ open' = (open \ {Top}) \cup
                    {Entry(j.route, e.next, new[k].arrival, m + k) : k \in 1..N}
  BY <1>1, <1>4, <1>11, <1>12, <1>16, <1>18
<1>20. new \in Seq(NodesOf(j)) /\ Len(new) = N
  BY <1>18
<1>21. PICK grown : grown = found \o new
  OBVIOUS
<1>22. /\ grown \in Seq(NodesOf(j)) /\ Len(grown) = m + N
       /\ \A id \in 1..(m + N) :
            grown[id] = IF id <= m THEN found[id] ELSE new[id - m]
  <2>1. found \in Seq(NodesOf(j))
    BY <1>1 DEF IsTree
  <2>2. /\ grown \in Seq(NodesOf(j)) /\ Len(grown) = Len(found) + Len(new)
        /\ \A i \in 1..(Len(found) + Len(new)) :
             grown[i] = IF i <= Len(found) THEN found[i] ELSE new[i - Len(found)]
    BY <1>20, <1>21, <2>1, ConcatProperties
  <2> QED BY <1>4, <1>20, <2>2
<1>23. \A id \in 1..(m + N) : IsArrival(j, grown[id])
  <2>1. ASSUME NEW id \in 1..(m + N), id > m
        PROVE  id - m \in 1..N
    BY <2>1
  <2>2. \A id \in 1..m : IsArrival(j, found[id])
    BY <1>1, <1>4 DEF IsTree
  <2> QED BY <1>17, <1>22, <2>1, <2>2
<1>24. \A id \in 2..(m + N) :
         grown[id].parent \in 1..(id - 1) /\ IsLeg(j, grown[grown[id].parent], grown[id])
  <2> TAKE id \in 2..(m + N)
  <2>1. CASE id <= m
    <3>1. found[id].parent \in 1..(id - 1) /\ IsLeg(j, found[found[id].parent], found[id])
      BY <1>1, <1>4, <2>1 DEF IsTree
    <3> QED BY <1>22, <2>1, <3>1
  <2>2. CASE id > m
    <3>1. id - m \in 1..N /\ grown[id] = new[id - m]
      BY <1>22, <2>2
    <3>2. grown[id].parent = top /\ IsLeg(j, p, grown[id])
      BY <1>17, <3>1
    <3>3. grown[top] = p /\ top \in 1..(id - 1)
      BY <1>5, <1>22, <2>2
    <3> QED BY <3>2, <3>3
  <2> QED BY <2>1, <2>2
<1>25. m >= 1 /\ grown[1] = found[1]
  <2>1. found # <<>> /\ found \in Seq(NodesOf(j))
    BY <1>1 DEF IsTree
  <2>2. m >= 1
    BY <1>4, <2>1
  <2> QED BY <1>22, <2>2
<1>26. IsTree(j, grown)
  <2>1. found[1].frame = 1 /\ found[1].arrival = 0
    BY <1>1 DEF IsTree
  <2>2. grown # <<>>
    BY <1>22, <1>25
  <2> QED BY <1>22, <1>23, <1>24, <1>25, <2>1, <2>2 DEF IsTree
<1>27. open' \subseteq EntriesOf(j, grown)
  <2> SUFFICES ASSUME NEW x \in open' PROVE x \in EntriesOf(j, grown)
    OBVIOUS
  <2>1. CASE x \in open
    <3>1. PICK id \in 1..m : x = Entry(j.route, found[id].frame, found[id].arrival, id)
      BY <1>1, <1>4, <2>1 DEF EntriesOf
    <3>2. id \in 1..(m + N) /\ grown[id] = found[id]
      BY <1>22
    <3> QED BY <1>22, <3>1, <3>2 DEF EntriesOf
  <2>2. CASE x \notin open
    <3>1. PICK k \in 1..N : x = Entry(j.route, e.next, new[k].arrival, m + k)
      BY <1>19, <2>2
    <3>2. m + k \in 1..(m + N) /\ ~(m + k <= m) /\ (m + k) - m = k
      OBVIOUS
    <3>3. grown[m + k] = new[k]
      BY <1>22, <3>2
    <3>4. x = Entry(j.route, grown[m + k].frame, grown[m + k].arrival, m + k)
      BY <1>17, <3>1, <3>3
    <3> QED BY <1>22, <3>2, <3>4 DEF EntriesOf
  <2> QED BY <2>1, <2>2
<1> QED BY <1>1, <1>3, <1>19, <1>21, <1>26, <1>27
-----------------------------------------------------------------------------
(* Frames that take the robot from the start to the arrival n.              *)
IsWay(j, frames, n) ==
  /\ frames \in Seq(Int) /\ Len(frames) = n.arrival + 1
  /\ frames[1] = 1 /\ frames[Len(frames)] = n.frame
  /\ \A t \in 1..(Len(frames) - 1) : MayStep(j, frames[t], frames[t + 1], t - 1)

(* The frames of a leg appended to others, by position.                     *)
LEMMA FollowAppends ==
  ASSUME nodes \in Seq(NodesOf(job)), NEW id \in 1..Len(nodes),
         NEW s \in Seq(Int), s # <<>>
  PROVE  LET w == AtLeast(0, nodes[id].departure - Len(s) + 1)
             from == s[Len(s)]
             steps == AtLeast(0, nodes[id].frame - from)
             F == Follow(s, id)
         IN /\ w \in Nat /\ steps \in Nat /\ from \in Int
            /\ F \in Seq(Int) /\ Len(F) = Len(s) + w + steps
            /\ \A t \in 1..Len(s) : F[t] = s[t]
            /\ \A t \in (Len(s) + 1)..(Len(s) + w) : F[t] = from
            /\ \A t \in (Len(s) + w + 1)..(Len(s) + w + steps) : F[t] = from + t - Len(s) - w
<1>17. PICK from, F : from = s[Len(s)] /\ F = Follow(s, id)
  OBVIOUS
<1>18. PICK w, steps : /\ w = AtLeast(0, nodes[id].departure - Len(s) + 1)
                      /\ steps = AtLeast(0, nodes[id].frame - from)
  OBVIOUS
<1>1. PICK l \in Nat \ {0} : l = Len(s)
  <2>1. Len(s) \in Nat /\ Len(s) # 0
    OBVIOUS
  <2> QED BY <2>1
<1>2. PICK n : n = nodes[id]
  OBVIOUS
<1>3. n.departure \in Int /\ n.frame \in Int
  <2>1. n \in NodesOf(job)
    BY <1>2
  <2> QED BY <2>1 DEF NodesOf
<1>4. from \in Int
  BY <1>1, <1>17
<1>5. w \in Nat /\ steps \in Nat
  <2>1. PICK u \in Int, v \in Int : u = n.departure - l + 1 /\ v = n.frame - from
    BY <1>1, <1>3, <1>4
  <2>2. w = AtLeast(0, u) /\ steps = AtLeast(0, v)
    BY <1>1, <1>2, <1>18, <2>1, Zenon
  <2>3. AtLeast(0, u) \in Nat /\ AtLeast(0, v) \in Nat
    BY DEF AtLeast
  <2> QED BY <2>2, <2>3
<1>6. PICK wait : wait = [k \in 1..w |-> from]
  OBVIOUS
<1>7. PICK move : move = [k \in 1..(n.frame - from) |-> from + k]
  OBVIOUS
<1>8. wait \in Seq(Int) /\ Len(wait) = w
  BY <1>4, <1>5, <1>6
<1>9. move \in Seq(Int) /\ Len(move) = steps /\ \A k \in 1..steps : move[k] = from + k
  <2>1. 1..(n.frame - from) = 1..steps
    BY <1>2, <1>3, <1>4, <1>18 DEF AtLeast
  <2>2. move = [k \in 1..steps |-> from + k]
    BY <1>7, <2>1
  <2>3. \A k \in 1..steps : from + k \in Int
    BY <1>4, <1>5
  <2>4. move \in [1..steps -> Int]
    BY <2>2, <2>3
  <2> QED BY <1>5, <2>2, <2>4
<1>10. F = s \o wait \o move
  <2>1. Last(s) = from
    BY <1>17 DEF Last
  <2> QED BY <1>2, <1>6, <1>7, <1>17, <1>18, <2>1 DEF Follow
<1>11. PICK g : g = s \o wait
  OBVIOUS
<1>12. /\ g \in Seq(Int) /\ Len(g) = l + w
       /\ \A t \in 1..(l + w) : g[t] = IF t <= l THEN s[t] ELSE wait[t - l]
  <2>1. /\ g \in Seq(Int) /\ Len(g) = Len(s) + Len(wait)
        /\ \A i \in 1..(Len(s) + Len(wait)) :
             g[i] = IF i <= Len(s) THEN s[i] ELSE wait[i - Len(s)]
    BY <1>8, <1>11, ConcatProperties
  <2> QED BY <1>1, <1>8, <2>1
<1>13. /\ F \in Seq(Int) /\ Len(F) = l + w + steps
       /\ \A t \in 1..(l + w + steps) : F[t] = IF t <= l + w THEN g[t] ELSE move[t - (l + w)]
  <2>1. F = g \o move
    BY <1>10, <1>11
  <2>2. g \in Seq(Int) /\ move \in Seq(Int)
    BY <1>9, <1>12
  <2>3. /\ F \in Seq(Int) /\ Len(F) = Len(g) + Len(move)
        /\ \A i \in 1..(Len(g) + Len(move)) :
             F[i] = IF i <= Len(g) THEN g[i] ELSE move[i - Len(g)]
    BY <2>1, <2>2, ConcatProperties
  <2>4. Len(g) = l + w /\ Len(move) = steps
    BY <1>9, <1>12
  <2> QED BY <2>3, <2>4
<1>14. ASSUME NEW t \in 1..l
       PROVE  F[t] = s[t]
  <2>1. t \in 1..(l + w) /\ t \in 1..(l + w + steps) /\ t <= l + w
    BY <1>5
  <2> QED BY <1>12, <1>13, <2>1
<1>15. ASSUME NEW t \in (l + 1)..(l + w)
       PROVE  F[t] = from
  <2>1. /\ t \in 1..(l + w) /\ t \in 1..(l + w + steps) /\ t <= l + w
        /\ ~(t <= l) /\ t - l \in 1..w
    BY <1>5
  <2>2. wait[t - l] = from
    BY <1>6, <2>1
  <2> QED BY <1>12, <1>13, <2>1, <2>2
<1>16. ASSUME NEW t \in (l + w + 1)..(l + w + steps)
       PROVE  F[t] = from + t - l - w
  <2>1. /\ t \in 1..(l + w + steps) /\ ~(t <= l + w) /\ t - (l + w) \in 1..steps
    BY <1>5
  <2>2. F[t] = from + (t - (l + w))
    BY <1>9, <1>13, <2>1
  <2> QED BY <1>4, <1>5, <2>2
<1> QED BY <1>1, <1>4, <1>5, <1>13, <1>14, <1>15, <1>16, <1>17, <1>18

(* A way to a node followed along a leg is a way to the next.               *)
LEMMA FollowIsWay ==
  ASSUME Prepared(job), IsTree(job, nodes), NEW id \in 2..Len(nodes),
         NEW s, IsWay(job, s, nodes[nodes[id].parent])
  PROVE  IsWay(job, Follow(s, id), nodes[id])
<1>1. PICK j, p, n : j = job /\ p = nodes[nodes[id].parent] /\ n = nodes[id]
  OBVIOUS
<1>2. PICK N \in Nat \ {0}, h \in Nat : N = Len(j.route) /\ h = j.horizon
  BY <1>1 DEF Prepared, IsCall, IsRoute
<1>3. /\ n.parent \in 1..(id - 1) /\ IsLeg(j, p, n) /\ IsArrival(j, n) /\ IsArrival(j, p)
      /\ nodes \in Seq(NodesOf(j)) /\ n \in NodesOf(j) /\ p \in NodesOf(j)
      /\ id \in 1..Len(nodes)
  <2>1. /\ nodes \in Seq(NodesOf(j)) /\ Len(nodes) \in Nat /\ id \in 1..Len(nodes)
        /\ n.parent \in 1..(id - 1) /\ IsLeg(j, p, n)
    BY <1>1 DEF IsTree
  <2>2. n.parent \in 1..Len(nodes)
    BY <2>1
  <2> QED BY <1>1, <2>1, <2>2 DEF IsTree
<1>4. PICK a, d \in Int : a = p.arrival /\ d = n.departure
  BY <1>3 DEF NodesOf
<1>5. PICK f, next \in 1..N : f = p.frame /\ next = n.frame
  BY <1>2, <1>3 DEF IsArrival
<1>6. /\ f \in 1..(N - 1) /\ next = j.edges[f].next /\ ~InTransit(j.route[f])
      /\ a <= d /\ n.arrival = d + next - f
      /\ d \notin Ticks(j.edges[f].blocked)
  <2>1. /\ p.frame < Len(j.route) /\ n.frame = j.edges[p.frame].next
        /\ p.arrival <= n.departure /\ n.arrival = n.departure + n.frame - p.frame
        /\ n.departure \notin Ticks(j.edges[p.frame].blocked)
    BY <1>3 DEF IsLeg
  <2>2. ~InTransit(j.route[p.frame])
    BY <1>3, <2>1 DEF IsArrival
  <2>3. f < N /\ f \in 1..(N - 1)
    BY <1>2, <1>5, <2>1
  <2> QED BY <1>4, <1>5, <2>1, <2>2, <2>3
<1>7. /\ 0 <= a /\ p.interval.begin <= a /\ d <= p.interval.end
      /\ p.interval.begin \in Int /\ p.interval.end \in Int
      /\ \A t \in p.interval.begin..(p.interval.end - 1) : Passable(j, f, f, t)
  <2>1. /\ f \in 1..Len(j.route) /\ p.interval \in j.safe[f] /\ d <= p.interval.end
        /\ a \in p.interval.begin..p.interval.end
    BY <1>2, <1>3, <1>4, <1>5 DEF IsArrival, IsLeg
  <2>2. /\ p.interval.begin \in Int /\ p.interval.end \in Int /\ 0 <= p.interval.begin
        /\ \A t \in p.interval.begin..(p.interval.end - 1) : Passable(j, f, f, t)
    BY <1>1, <2>1, IntervalFacts
  <2> QED BY <2>1, <2>2
<1>8. d + next - f <= h
  <2>1. /\ next \in 1..Len(j.route) /\ n.interval \in j.safe[next]
        /\ n.arrival \in n.interval.begin..n.interval.end
    BY <1>2, <1>3, <1>5 DEF IsArrival
  <2>2. n.interval.begin \in Int /\ n.interval.end \in Int /\ n.interval.end <= h
    BY <1>1, <1>2, <2>1, IntervalFacts
  <2>3. PICK last \in Int : last = n.interval.end /\ last <= h
    BY <2>2
  <2>4. n.arrival = d + next - f /\ n.arrival <= last
    BY <1>6, <2>1, <2>2, <2>3
  <2>5. d + next - f \in Int
    BY <1>4, <1>5
  <2> QED BY <1>2, <2>3, <2>4, <2>5
<1>20. f \in Int /\ next \in Int /\ a <= d /\ 0 <= d
  BY <1>5, <1>6, <1>7
<1>22. 0 <= a
  BY <1>7
<1>9. next \in (f + 1)..N /\ \A g \in f..(next - 1) : Passable(j, g, g + 1, d + g - f)
  <2>1. /\ next \in (f + 1)..N
        /\ \A e \in 0..(h - (next - f)), g \in f..(next - 1) :
             e \notin Ticks(j.edges[f].blocked) => Passable(j, g, g + 1, e + g - f)
    BY <1>1, <1>2, <1>6, MoveFacts
  <2>2. d \in 0..(h - (next - f))
    BY <1>8, <1>20
  <2> QED BY <1>6, <2>1, <2>2
<1>10. /\ s \in Seq(Int) /\ Len(s) = a + 1 /\ s[1] = 1 /\ s[a + 1] = f
       /\ \A t \in 1..a : MayStep(j, s[t], s[t + 1], t - 1)
  BY <1>1, <1>4, <1>5 DEF IsWay
<1>11. PICK F : F = Follow(s, id)
  OBVIOUS
<1>12. /\ AtLeast(0, d - Len(s) + 1) = d - a
       /\ AtLeast(0, next - f) = next - f
  <2>1. PICK u \in Int, v \in Int : u = d - Len(s) + 1 /\ v = next - f /\ u = d - a
    BY <1>10, <1>20
  <2>2. 0 <= u /\ 0 <= v
    BY <1>9, <1>20, <2>1
  <2>3. AtLeast(0, u) = u /\ AtLeast(0, v) = v
    BY <2>2 DEF AtLeast
  <2> QED BY <2>1, <2>3
<1>13. /\ F \in Seq(Int) /\ Len(F) = d + 1 + next - f
       /\ \A t \in 1..(a + 1) : F[t] = s[t]
       /\ \A t \in (a + 2)..(d + 1) : F[t] = f
       /\ \A t \in (d + 2)..(d + 1 + next - f) : F[t] = f + t - d - 1
  <2>1. s # <<>>
    BY <1>7, <1>10
  <2>2. PICK w, steps : w = AtLeast(0, d - Len(s) + 1) /\ steps = AtLeast(0, next - f)
    OBVIOUS
  <2>3. w = d - a /\ steps = next - f /\ s[Len(s)] = f
    BY <1>10, <1>12, <2>2
  <2>4. /\ nodes \in Seq(NodesOf(job)) /\ id \in 1..Len(nodes) /\ s \in Seq(Int)
        /\ f = s[Len(s)]
        /\ w = AtLeast(0, nodes[id].departure - Len(s) + 1)
        /\ steps = AtLeast(0, nodes[id].frame - f)
    BY <1>1, <1>3, <1>4, <1>5, <1>10, <2>2, <2>3
  <2>5. /\ F \in Seq(Int) /\ Len(F) = Len(s) + w + steps
        /\ \A t \in 1..Len(s) : F[t] = s[t]
        /\ \A t \in (Len(s) + 1)..(Len(s) + w) : F[t] = f
        /\ \A t \in (Len(s) + w + 1)..(Len(s) + w + steps) : F[t] = f + t - Len(s) - w
    <3>1. /\ Follow(s, id) \in Seq(Int)
          /\ Len(Follow(s, id)) = Len(s) + AtLeast(0, nodes[id].departure - Len(s) + 1)
                                  + AtLeast(0, nodes[id].frame - s[Len(s)])
          /\ \A t \in 1..Len(s) : Follow(s, id)[t] = s[t]
          /\ \A t \in (Len(s) + 1)..(Len(s) + AtLeast(0, nodes[id].departure - Len(s) + 1)) :
               Follow(s, id)[t] = s[Len(s)]
          /\ \A t \in (Len(s) + AtLeast(0, nodes[id].departure - Len(s) + 1) + 1)
                      ..(Len(s) + AtLeast(0, nodes[id].departure - Len(s) + 1)
                         + AtLeast(0, nodes[id].frame - s[Len(s)])) :
               Follow(s, id)[t]
                 = s[Len(s)] + t - Len(s) - AtLeast(0, nodes[id].departure - Len(s) + 1)
      BY <2>1, <2>4, FollowAppends, Zenon
    <3>2. /\ w = AtLeast(0, nodes[id].departure - Len(s) + 1)
          /\ steps = AtLeast(0, nodes[id].frame - s[Len(s)]) /\ s[Len(s)] = f
      BY <2>3, <2>4, Zenon
    <3> QED BY <1>11, <3>1, <3>2, Zenon
  <2>6. \A t \in (a + 1 + w + 1)..(a + 1 + w + steps) : F[t] = f + t - (a + 1) - w
    BY <1>10, <2>5
  <2>7. ASSUME NEW t \in (d + 2)..(d + 1 + next - f)
        PROVE  F[t] = f + t - d - 1
    <3>3. a + 1 + w + 1 = d + 2 /\ a + 1 + w + steps = d + 1 + next - f /\ a + 1 + w = d + 1
      BY <1>20, <2>3
    <3>1. t \in (a + 1 + w + 1)..(a + 1 + w + steps)
      BY <3>3
    <3>2. F[t] = f + t - (a + 1) - w
      BY <2>6, <3>1
    <3>4. t \in Int
      OBVIOUS
    <3> QED BY <1>20, <2>3, <3>2, <3>4
  <2>8. Len(F) = d + 1 + next - f
    BY <1>10, <2>3, <2>5
  <2>9. ASSUME NEW t \in (a + 2)..(d + 1)
        PROVE  F[t] = f
    <3>2. PICK l \in Int : l = Len(s) /\ l = a + 1
      BY <1>10
    <3>3. l + 1 = a + 2 /\ l + w = d + 1
      BY <2>3, <3>2
    <3>1. t \in (Len(s) + 1)..(Len(s) + w)
      BY <3>2, <3>3
    <3> QED BY <2>5, <3>1
  <2> QED BY <1>10, <2>5, <2>7, <2>8, <2>9
<1>21. F[a + 1] = f
  <2>1. a + 1 \in 1..(a + 1)
    BY <1>22
  <2>2. F[a + 1] = s[a + 1]
    BY <1>13, <2>1
  <2> QED BY <1>10, <2>2
<1>14. F[d + 1] = f
  <2>1. CASE a = d
    BY <1>21, <2>1
  <2>2. CASE a # d
    <3>1. d + 1 \in (a + 2)..(d + 1)
      BY <1>20, <2>2
    <3> QED BY <1>13, <3>1
  <2> QED BY <2>1, <2>2
<1>15. ASSUME NEW t \in (d + 1)..(d + 1 + next - f)
       PROVE  F[t] = f + t - d - 1
  <2>1. CASE t = d + 1
    BY <1>14, <1>20, <2>1
  <2>2. CASE t # d + 1
    <3>1. t \in (d + 2)..(d + 1 + next - f)
      BY <1>20, <2>2
    <3> QED BY <1>13, <3>1
  <2> QED BY <2>1, <2>2
<1>16. ASSUME NEW t \in (a + 1)..(d + 1)
       PROVE  F[t] = f
  <2>1. CASE t = a + 1
    BY <1>21, <2>1
  <2>2. CASE t # a + 1
    <3>1. t \in (a + 2)..(d + 1)
      BY <1>20, <2>2
    <3> QED BY <1>13, <3>1
  <2> QED BY <2>1, <2>2
<1>17. ASSUME NEW t \in 1..(d + next - f)
       PROVE  MayStep(j, F[t], F[t + 1], t - 1)
  <2>1. CASE t <= a
    <3>1. t \in 1..a /\ t \in 1..(a + 1) /\ t + 1 \in 1..(a + 1)
      BY <2>1
    <3> QED BY <1>10, <1>13, <3>1
  <2>2. CASE a + 1 <= t /\ t <= d
    <3>0. t \in (a + 1)..(d + 1) /\ t + 1 \in (a + 1)..(d + 1)
      BY <1>20, <2>2
    <3>1. F[t] = f /\ F[t + 1] = f
      BY <1>16, <3>0
    <3>2. t - 1 \in p.interval.begin..(p.interval.end - 1)
      <4>1. PICK b, e \in Int : b = p.interval.begin /\ e = p.interval.end
        BY <1>7
      <4>2. b <= a /\ d <= e
        BY <1>7, <4>1
      <4>3. t \in Int
        OBVIOUS
      <4>4. t - 1 \in b..(e - 1)
        BY <2>2, <4>2, <4>3
      <4> QED BY <4>1, <4>4
    <3> QED BY <1>6, <1>7, <3>1, <3>2 DEF MayStep
  <2>3. CASE d + 1 <= t
    <3>1. /\ t \in (d + 1)..(d + 1 + next - f) /\ t + 1 \in (d + 1)..(d + 1 + next - f)
          /\ f + t - d - 1 \in f..(next - 1) /\ f + (t + 1) - d - 1 = f + t - d - 1 + 1
      BY <1>20, <2>3
    <3>2. PICK g \in f..(next - 1) : g = f + t - d - 1
      BY <3>1
    <3>4. F[t] = f + t - d - 1 /\ F[t + 1] = f + (t + 1) - d - 1
      BY <1>15, <3>1
    <3>3. F[t] = g /\ F[t + 1] = g + 1 /\ d + g - f = t - 1
      BY <1>20, <3>1, <3>2, <3>4
    <3> QED BY <1>9, <3>3 DEF MayStep
  <2> QED BY <2>1, <2>2, <2>3
<1>18. F[1] = 1 /\ F[Len(F)] = next /\ Len(F) = n.arrival + 1
  <2>0. 1 \in 1..(a + 1)
    BY <1>22
  <2>1. F[1] = 1
    BY <1>10, <1>13, <2>0
  <2>6. next - f \in Nat
    BY <1>9, <1>20
  <2>2. Len(F) \in (d + 1)..(d + 1 + next - f) /\ Len(F) - d - 1 = next - f
    <3>1. PICK l \in Int : l = Len(F) /\ l = d + 1 + next - f
      BY <1>13, <1>20
    <3>2. l \in (d + 1)..(d + 1 + next - f) /\ l - d - 1 = next - f
      BY <1>20, <2>6, <3>1
    <3> QED BY <3>1, <3>2
  <2>3. F[Len(F)] = f + Len(F) - d - 1
    BY <1>15, <2>2
  <2>4. f + (Len(F) - d - 1) = next /\ Len(F) = d + next - f + 1
    BY <1>13, <1>20, <2>2
  <2>5. f + Len(F) - d - 1 = next
    BY <1>13, <1>20, <2>4
  <2> QED BY <1>6, <2>1, <2>3, <2>4, <2>5
<1>19. Len(F) - 1 = d + next - f
  BY <1>13
<1> QED BY <1>1, <1>5, <1>11, <1>13, <1>17, <1>18, <1>19 DEF IsWay

(* The recursion that writes out the schedule to a node is well-founded.    *)
LEMMA TimedFollows ==
  ASSUME Prepared(job), IsTree(job, nodes)
  PROVE  /\ Timed[1] = <<1>>
         /\ \A id \in 2..Len(nodes) : Timed[id] = Follow(Timed[nodes[id].parent], id)
<1>1. PICK m \in Nat \ {0} : m = Len(nodes)
  <2>1. nodes \in Seq(NodesOf(job)) /\ nodes # <<>>
    BY DEF IsTree
  <2>2. Len(nodes) \in Nat /\ Len(nodes) # 0
    BY <2>1
  <2> QED BY <2>2
<1>2. PICK V : V = {s \in Seq(Int) : s # <<>>}
  OBVIOUS
<1>3. ASSUME NEW k \in 2..m, NEW s \in V
      PROVE  Follow(s, k) \in V
  <2>1. /\ nodes \in Seq(NodesOf(job)) /\ k \in 1..Len(nodes)
        /\ s \in Seq(Int) /\ s # <<>> /\ Len(s) \in Nat /\ Len(s) # 0
    BY <1>1, <1>2 DEF IsTree
  <2>4. PICK from, u, v : /\ from = s[Len(s)]
                          /\ u = AtLeast(0, nodes[k].departure - Len(s) + 1)
                          /\ v = AtLeast(0, nodes[k].frame - from)
    OBVIOUS
  <2>5. /\ u \in Nat /\ v \in Nat
        /\ Follow(s, k) \in Seq(Int) /\ Len(Follow(s, k)) = Len(s) + u + v
    BY <2>1, <2>4, FollowAppends
  <2>2. PICK w \in Nat, l \in Nat :
          Follow(s, k) \in Seq(Int) /\ Len(Follow(s, k)) = Len(s) + w + l
    BY <2>5
  <2>3. Len(Follow(s, k)) # 0
    BY <2>1, <2>2
  <2>6. Follow(s, k) # <<>>
    BY <2>3
  <2> QED BY <1>2, <2>2, <2>6
<1>4. PICK parent : parent = [k \in 1..m |-> nodes[k].parent]
  OBVIOUS
<1>5. \A k \in (1 + 1)..m : parent[k] \in 1..(k - 1) /\ parent[k] = nodes[k].parent
  BY <1>1, <1>4 DEF IsTree
<1>6. PICK next : next = [k \in (1 + 1)..m |-> [s \in V |-> Follow(s, k)]]
  OBVIOUS
<1>7. next \in [(1 + 1)..m -> [V -> V]]
  BY <1>3, <1>6
<1>8. PICK root \in V : root = <<1>>
  <2>1. <<1>> \in Seq(Int) /\ <<1>> # <<>>
    OBVIOUS
  <2> QED BY <1>2, <2>1
<1>9. PICK f \in [1..m -> V] :
        /\ f[1] = root
        /\ \A k \in (1 + 1)..m : f[k] = next[k][f[parent[k]]]
  <2>1. PICK a, n \in Int : a = 1 /\ n = m
    OBVIOUS
  <2>2. /\ a <= n /\ next \in [(a + 1)..n -> [V -> V]]
        /\ \A k \in (a + 1)..n : parent[k] \in a..(k - 1)
    BY <1>5, <1>7, <2>1
  <2>3. PICK f \in [a..n -> V] : IsRecursive(f, a, n, root, parent, next)
    BY <2>2, TreeRecursion
  <2> QED BY <2>1, <2>3 DEF IsRecursive
<1>10. ASSUME NEW k \in 2..m
       PROVE  f[k] = Follow(f[nodes[k].parent], k)
  <2>1. parent[k] \in 1..m /\ parent[k] = nodes[k].parent
    BY <1>5
  <2>2. f[parent[k]] \in V
    BY <2>1
  <2>3. next[k][f[parent[k]]] = Follow(f[parent[k]], k)
    BY <1>6, <2>2
  <2> QED BY <1>9, <2>1, <2>3
<1>11. f = [id \in 1..m |-> IF id = 1 THEN <<1>> ELSE Follow(f[nodes[id].parent], id)]
  BY <1>8, <1>9, <1>10
<1>12. f = [id \in 1..Len(nodes) |-> IF id = 1 THEN <<1>> ELSE Follow(f[nodes[id].parent], id)]
  BY <1>1, <1>11
<1>13. Timed = [id \in 1..Len(nodes) |->
                  IF id = 1 THEN <<1>> ELSE Follow(Timed[nodes[id].parent], id)]
  BY <1>12, Zenon DEF Timed
<1>14. PICK g : g = Timed
  OBVIOUS
<1>15. g = [id \in 1..m |-> IF id = 1 THEN <<1>> ELSE Follow(g[nodes[id].parent], id)]
  BY <1>1, <1>13, <1>14
<1>16. g[1] = <<1>> /\ \A id \in 2..m : g[id] = Follow(g[nodes[id].parent], id)
  <2>1. 1 \in 1..m /\ \A id \in 2..m : id \in 1..m /\ id # 1
    OBVIOUS
  <2> QED BY <1>15, <2>1, Zenon
<1> QED BY <1>1, <1>14, <1>16, Zenon

(* So it takes the robot to the node.                                       *)
LEMMA TimedIsWay ==
  ASSUME Prepared(job), IsTree(job, nodes), NEW id \in 1..Len(nodes)
  PROVE  IsWay(job, Timed[id], nodes[id])
<1>1. PICK m \in Nat : m = Len(nodes)
  BY DEF IsTree
<1>2. PICK D : D = {k \in 1..m : ~IsWay(job, Timed[k], nodes[k])}
  OBVIOUS
<1> SUFFICES ASSUME id \in D PROVE FALSE
  BY <1>1, <1>2
<1>3. PICK d \in D : \A k \in D : d <= k
  <2>1. D \in SUBSET Nat /\ D # {}
    BY <1>2
  <2> QED BY <2>1, LeastNatural
<1>4. d \in 1..m /\ ~IsWay(job, Timed[d], nodes[d])
  BY <1>2
<1>5. CASE d = 1
  <2>1. Timed[1] = <<1>> /\ nodes[1].frame = 1 /\ nodes[1].arrival = 0
    BY TimedFollows DEF IsTree
  <2>2. PICK s : s = <<1>>
    OBVIOUS
  <2>3. s \in Seq(Int) /\ Len(s) = 1 /\ s[1] = 1
    BY <2>2
  <2>4. \A t \in 1..(Len(s) - 1) : FALSE
    BY <2>3
  <2>5. IsWay(job, s, nodes[1])
    BY <2>1, <2>3, <2>4 DEF IsWay
  <2> QED BY <1>4, <1>5, <2>1, <2>2, <2>5
<1>6. CASE d # 1
  <2>1. d \in 2..m
    BY <1>4, <1>6
  <2>2. nodes[d].parent \in 1..(d - 1)
    BY <1>1, <2>1 DEF IsTree
  <2>3. nodes[d].parent \in 1..m /\ nodes[d].parent \notin D
    BY <1>3, <1>4, <2>2
  <2>4. IsWay(job, Timed[nodes[d].parent], nodes[nodes[d].parent])
    BY <1>2, <2>3
  <2>5. Timed[d] = Follow(Timed[nodes[d].parent], d)
    BY <1>1, <2>1, TimedFollows
  <2>6. PICK s : s = Timed[nodes[d].parent]
    OBVIOUS
  <2>7. IsWay(job, Follow(s, d), nodes[d])
    BY <1>1, <2>1, <2>4, <2>6, FollowIsWay
  <2> QED BY <1>4, <2>5, <2>6, <2>7
<1> QED BY <1>5, <1>6
-----------------------------------------------------------------------------
(* Two robots that stand still come as near as they are.                    *)
LEMMA StillIsNear ==
  ASSUME NEW a, NEW b, NEW r \in Int,
         a.pos.x \in Int, a.pos.y \in Int, b.pos.x \in Int, b.pos.y \in Int,
         ~Near(a, b, r)
  PROVE  ~Swept(a, a, b, b, r)
<1> SUFFICES ASSUME Swept(a, a, b, b, r) PROVE FALSE
  OBVIOUS
<1>1. PICK dx, dy \in Int : dx = 4 * (a.pos.x - b.pos.x) /\ dy = 4 * (a.pos.y - b.pos.y)
  OBVIOUS
<1>2. a.pos.map = b.pos.map /\ ~(dx * dx + dy * dy <= r * r)
  BY <1>1 DEF Near, Swept
<1>3. /\ 4 * (a.pos.x - a.pos.x - (b.pos.x - b.pos.x)) = 0
      /\ 4 * (a.pos.y - a.pos.y - (b.pos.y - b.pos.y)) = 0
  OBVIOUS
<1>4. PICK dd \in Int, rr \in Int : dd = dx * dx + dy * dy /\ rr = r * r
  OBVIOUS
<1>5. dx * 0 + dy * 0 = 0 /\ 0 * 0 + 0 * 0 = 0
  OBVIOUS
<1>6. \/ 0 >= 0 /\ dd <= rr
      \/ -0 >= 0 /\ dd + 2 * 0 + 0 <= rr
      \/ 0 < 0
  BY <1>1, <1>3, <1>4, <1>5 DEF Swept
<1> QED BY <1>2, <1>4, <1>6

(* A robot whose frame is free when the others have stopped is free for good.*)
LEMMA ParkedForGood ==
  ASSUME NEW j, IsCall(j.route, j.tracks, j.horizon), NEW f \in 1..Len(j.route),
         Free(j, f, j.horizon), NEW t \in Nat, j.horizon <= t
  PROVE  Free(j, f, t) /\ Passable(j, f, f, t)
<1>1. PICK a, h : a = j.route[f] /\ h = j.horizon /\ h \in Nat
  BY DEF IsCall
<1>2. ASSUME NEW o \in j.tracks
      PROVE  /\ FrameAt(o.path, t) = FrameAt(o.path, h)
             /\ FrameAt(o.path, t + 1) = FrameAt(o.path, h)
             /\ FrameAt(o.path, h).pos.x \in Int /\ FrameAt(o.path, h).pos.y \in Int
             /\ o.reach \in Int
  <2>1. IsTrack(o, h)
    BY <1>1 DEF IsCall
  <2>2. PICK l \in Nat \ {0} : l = Len(o.path)
    BY <2>1 DEF IsTrack, IsRoute
  <2>3. l - 1 <= h
    BY <2>1, <2>2 DEF IsTrack
  <2>4. /\ o.reach \in Int
        /\ \A k \in 1..l : o.path[k].pos.x \in Int /\ o.path[k].pos.y \in Int
    BY <2>1, <2>2 DEF IsTrack, IsRoute
  <2>5. /\ FrameAt(o.path, h) = o.path[l] /\ FrameAt(o.path, t) = o.path[l]
        /\ FrameAt(o.path, t + 1) = o.path[l]
    BY <1>1, <2>2, <2>3 DEF FrameAt
  <2> QED BY <2>2, <2>4, <2>5
<1>3. ASSUME NEW o \in j.tracks
      PROVE  ~Swept(a, a, FrameAt(o.path, t), FrameAt(o.path, t + 1), o.reach)
  <2>1. PICK b, r : b = FrameAt(o.path, h) /\ r = o.reach
    OBVIOUS
  <2>2. ~Near(a, b, r)
    BY <1>1, <2>1 DEF Free, Collide
  <2>3. /\ a.pos.x \in Int /\ a.pos.y \in Int /\ b.pos.x \in Int /\ b.pos.y \in Int
        /\ r \in Int
    BY <1>1, <1>2, <2>1 DEF IsCall, IsRoute
  <2>4. ~Swept(a, a, b, b, r)
    BY <2>2, <2>3, StillIsNear
  <2> QED BY <1>2, <2>1, <2>4
<1>4. Free(j, f, t) /\ Free(j, f, t + 1)
  BY <1>1, <1>2 DEF Free
<1> QED BY <1>1, <1>3, <1>4 DEF Passable

(* The schedule written out for a goal that is free to the horizon is legal *)
(* for as long as anybody looks.                                            *)
LEMMA ParkIsLegal ==
  ASSUME Prepared(job), IsTree(job, nodes), open \subseteq EntriesOf(job, nodes), ParkAtGoal
  PROVE  /\ job' = job /\ Legal(job, schedule', 2 * job.horizon)
         /\ schedule' \in Seq(Int) /\ Len(schedule') - 1 <= job.horizon
         /\ Len(schedule') - 1 = Current.arrival
<1>1. PICK j, s, n : j = job /\ s = schedule' /\ n = Current
  OBVIOUS
<1>2. PICK N \in Nat \ {0}, h \in Nat : N = Len(j.route) /\ h = j.horizon
  BY <1>1 DEF Prepared, IsCall, IsRoute
<1>3. /\ open # {} /\ n.frame = N /\ n.interval.end = h
      /\ job' = job /\ schedule' = Timed[Top[3]]
  BY <1>1, <1>2 DEF ParkAtGoal, Taken, Searching, CanPark, LastFrame
<1>4. PICK id : id = Top[3]
  OBVIOUS
<1>5. id \in 1..Len(nodes) /\ n = nodes[id]
  BY <1>1, <1>3, <1>4, TopIsFound
<1>6. IsWay(j, s, n)
  <2>1. s = Timed[id]
    BY <1>1, <1>3, <1>4
  <2> QED BY <1>1, <1>5, <2>1, TimedIsWay
<1>7. /\ n.arrival \in Int /\ 0 <= n.arrival /\ n.arrival <= h
      /\ \A t \in n.arrival..h : Free(j, N, t)
      /\ \A t \in n.arrival..(h - 1) : Passable(j, N, N, t)
  <2>1. /\ N \in 1..Len(j.route) /\ n.interval \in j.safe[N]
        /\ n.arrival \in n.interval.begin..n.interval.end
    BY <1>1, <1>2, <1>3, <1>5 DEF IsTree, IsArrival
  <2>2. /\ n.interval.begin \in Int /\ n.interval.end \in Int /\ 0 <= n.interval.begin
        /\ \A t \in n.interval.begin..n.interval.end : Free(j, N, t)
        /\ \A t \in n.interval.begin..(n.interval.end - 1) : Passable(j, N, N, t)
    BY <1>1, <2>1, IntervalFacts
  <2>3. PICK b, a \in Int : b = n.interval.begin /\ a = n.arrival
    BY <2>1, <2>2
  <2>4. 0 <= b /\ b <= a /\ a <= h
    BY <1>3, <2>1, <2>2, <2>3
  <2>5. /\ \A t \in b..h : Free(j, N, t)
        /\ \A t \in b..(h - 1) : Passable(j, N, N, t)
    BY <1>3, <2>2, <2>3
  <2> QED BY <2>3, <2>4, <2>5
<1>8. PICK a \in 0..h : a = n.arrival
  BY <1>7
<1>9. IsCall(j.route, j.tracks, j.horizon) /\ N \in 1..Len(j.route)
  BY <1>1, <1>2 DEF Prepared
<1>10. ASSUME NEW t \in Nat, h <= t
       PROVE  Passable(j, N, N, t)
  <2>1. Free(j, N, j.horizon)
    BY <1>2, <1>7, <1>8
  <2> QED BY <1>2, <1>9, <1>10, <2>1, ParkedForGood
<1>11. ASSUME NEW t \in a..(2 * h - 1)
       PROVE  Passable(j, N, N, t)
  <2>1. CASE t < h
    <3>1. t \in a..(h - 1)
      BY <2>1
    <3> QED BY <1>7, <1>8, <3>1
  <2>2. CASE h <= t
    BY <1>10, <2>2
  <2> QED BY <2>1, <2>2
<1>12. MayPark(j, a, 2 * h)
  <2>1. Free(j, N, a)
    BY <1>7, <1>8
  <2> QED BY <1>2, <1>11, <2>1 DEF MayPark
<1>13. Free(j, 1, 0)
  <2>1. /\ 1 \in 1..Len(j.route) /\ nodes[1].interval \in j.safe[1]
        /\ 0 \in nodes[1].interval.begin..nodes[1].interval.end
    <3>1. 1 \in 1..Len(nodes)
      BY <1>1, <1>5 DEF IsTree
    <3> QED BY <1>1, <1>2, <3>1 DEF IsTree, IsArrival
  <2> QED BY <1>1, <2>1, IntervalFacts
<1>14. /\ s \in Seq(Int) /\ Len(s) = a + 1 /\ s[1] = 1 /\ s[Len(s)] = N
       /\ \A t \in 1..(Len(s) - 1) : MayStep(j, s[t], s[t + 1], t - 1)
  BY <1>3, <1>6, <1>8 DEF IsWay
<1>15. s # <<>> /\ Len(s) - 1 = a
  BY <1>14
<1>16. Legal(j, s, 2 * h)
  BY <1>2, <1>12, <1>13, <1>14, <1>15 DEF Legal
<1> QED BY <1>1, <1>2, <1>3, <1>8, <1>14, <1>15, <1>16

(* Every step of the search keeps its invariant.                            *)
LEMMA SearchKeepsInv ==
  ASSUME SearchInv, Search
  PROVE  SearchInv' /\ job' = job /\ verdict = "searching" /\ verdict' # "idle"
<1>1. verdict = "searching"
  BY DEF Search, PassOver, GiveUp, ParkAtGoal, Expand, Exhausted, Taken, Searching
<1>2. Prepared(job) /\ IsTree(job, nodes) /\ open \subseteq EntriesOf(job, nodes)
  BY <1>1 DEF SearchInv
<1>3. CASE PassOver
  <2>1. job' = job /\ nodes' = nodes /\ verdict' = verdict /\ open' \subseteq open
    BY <1>3 DEF PassOver
  <2> QED BY <1>1, <1>2, <2>1 DEF SearchInv
<1>4. CASE GiveUp
  <2>1. job' = job /\ verdict' = "failed"
    BY <1>4 DEF GiveUp
  <2> QED BY <1>1, <1>2, <2>1 DEF SearchInv
<1>5. CASE ParkAtGoal
  <2>1. /\ job' = job /\ verdict' = "found" /\ Legal(job, schedule', 2 * job.horizon)
        /\ schedule' \in Seq(Int) /\ Len(schedule') - 1 <= job.horizon
    BY <1>2, <1>5, ParkIsLegal DEF ParkAtGoal
  <2> QED BY <1>1, <1>2, <2>1 DEF SearchInv
<1>6. CASE Expand
  <2>1. /\ job' = job /\ verdict' = verdict
        /\ IsTree(job, nodes') /\ open' \subseteq EntriesOf(job, nodes')
    BY <1>2, <1>6, ExpandGrowsTree DEF Expand
  <2> QED BY <1>1, <1>2, <2>1 DEF SearchInv
<1>7. CASE Exhausted
  <2>1. job' = job /\ verdict' = "failed"
    BY <1>7 DEF Exhausted
  <2> QED BY <1>1, <1>2, <2>1 DEF SearchInv
<1> QED BY <1>3, <1>4, <1>5, <1>6, <1>7 DEF Search
-----------------------------------------------------------------------------
(* No arrival is improved on.  A node's successors are offered the first   *)
(* departure it can make, and nodes are taken in the order of the finish   *)
(* they promise: of two at the same frame, the one that arrived first.     *)
KeyOf(n) == <<n.frame, n.interval>>

EntryOf(j, found, id) == Entry(j.route, found[id].frame, found[id].arrival, id)

(* Of the departures from p that arrive in n's interval, n's is the first. *)
LeavesFirst(j, p, n) ==
  \A d \in Int :
    /\ d \notin Ticks(j.edges[p.frame].blocked)
    /\ p.arrival <= d /\ n.interval.begin - (n.frame - p.frame) <= d
    => n.departure <= d

(* The arrivals known are those of the nodes, one to an interval.          *)
Indexed(found, known) ==
  /\ Len(found) \in Nat
  /\ DOMAIN known = {KeyOf(found[id]) : id \in 1..Len(found)}
  /\ \A id \in 1..Len(found) : known[KeyOf(found[id])] = found[id].arrival
  /\ \A a, b \in 1..Len(found) : KeyOf(found[a]) = KeyOf(found[b]) => a = b

(* The nodes taken from the queue promise to finish before those in it do; *)
(* a node is found by one that was taken.                                  *)
Settled(j, found, queue) ==
  /\ \A id \in 1..Len(found) :
       EntryOf(j, found, id) \notin queue =>
         \A o \in queue : found[id].arrival + Len(j.route) - found[id].frame <= o[1]
  /\ \A id \in 2..Len(found) :
       /\ EntryOf(j, found, found[id].parent) \notin queue
       /\ LeavesFirst(j, found[found[id].parent], found[id])

LEMMA FirstClearIsFirst ==
  ASSUME NEW B, \A b \in B : b.begin \in Int /\ b.end \in Int,
         NEW earliest \in Int, NEW d \in Int, earliest <= d, d \notin Ticks(B)
  PROVE  FirstClear(B, earliest) <= d
<1>1. PICK hits : hits = {b \in B : b.begin <= earliest /\ earliest <= b.end}
  OBVIOUS
<1>2. FirstClear(B, earliest) = IF hits = {} THEN earliest ELSE (CHOOSE b \in hits : TRUE).end + 1
  BY <1>1 DEF FirstClear
<1>3. CASE hits = {}
  BY <1>2, <1>3
<1>4. CASE hits # {}
  <2>1. PICK b \in hits : FirstClear(B, earliest) = b.end + 1
    BY <1>2, <1>4
  <2>2. b \in B /\ b.begin \in Int /\ b.end \in Int /\ b.begin <= earliest
    BY <1>1
  <2>3. ~(b.begin <= d /\ d <= b.end)
    BY <2>2, InTicks
  <2> QED BY <2>1, <2>2, <2>3
<1> QED BY <1>3, <1>4

(* The order of a finite set of numbers has each of them once.             *)
LEMMA InOrderOnce ==
  ASSUME NEW S \in SUBSET Int, IsFiniteSet(S), NEW order, order = InOrder(S)
  PROVE  /\ \A n \in S : \E k \in 1..Cardinality(S) : order[k] = n
         /\ \A a, b \in 1..Cardinality(S) : order[a] = order[b] => a = b
<1>1. PICK c \in Nat : c = Cardinality(S)
  BY FS_CardinalityType
<1> DEFINE Rank(n) == Cardinality({i \in S : i < n})
<1>2. \A k \in 1..c : order[k] = CHOOSE n \in S : Rank(n) = k - 1
  BY <1>1 DEF InOrder
<1>3. \A k \in 1..c : \E n \in S : Rank(n) = k - 1
  BY <1>1, RankIsTaken
<1>4. \A n \in S : Rank(n) \in 0..(c - 1)
  BY <1>1, RankBounded
<1>5. \A m, n \in S : m < n => Rank(m) < Rank(n)
  BY RanksGrow
<1> HIDE DEF Rank
<1>6. \A m, n \in S : Rank(m) = Rank(n) => m = n
  <2> SUFFICES ASSUME NEW m \in S, NEW n \in S, m # n PROVE Rank(m) # Rank(n)
    OBVIOUS
  <2>1. Rank(m) \in Int /\ Rank(n) \in Int
    BY <1>4
  <2>2. m < n \/ n < m
    OBVIOUS
  <2> QED BY <1>5, <2>1, <2>2
<1>7. \A k \in 1..c : order[k] \in S /\ Rank(order[k]) = k - 1
  BY <1>2, <1>3
<1>8. ASSUME NEW n \in S
      PROVE  \E k \in 1..c : order[k] = n
  <2>1. PICK k \in 1..c : Rank(n) = k - 1
    <3>1. Rank(n) + 1 \in 1..c /\ Rank(n) = (Rank(n) + 1) - 1
      BY <1>4
    <3> QED BY <3>1
  <2>2. order[k] \in S /\ Rank(order[k]) = Rank(n)
    BY <1>7, <2>1
  <2> QED BY <1>6, <2>2
<1>9. ASSUME NEW a \in 1..c, NEW b \in 1..c, order[a] = order[b]
      PROVE  a = b
  <2>1. a - 1 = b - 1
    BY <1>7, <1>9
  <2> QED BY <2>1
<1> QED BY <1>1, <1>8, <1>9

(* A move ends at the first frame where the robot can stop.                *)
LEMMA MoveEndIsFirst ==
  ASSUME NEW route, IsRoute(route), NEW f \in 1..(Len(route) - 1),
         NEW g \in (f + 1)..Len(route), ~InTransit(route[g])
  PROVE  MoveEnd(route, f) <= g
<1>1. PICK n \in Nat \ {0} : n = Len(route)
  BY DEF IsRoute
<1>2. PICK D : D = {x \in (f + 1)..n : x = n \/ ~InTransit(route[x])}
  OBVIOUS
<1>3. f \in Int /\ D \in SUBSET Int /\ g \in D /\ \A x \in D : f + 1 <= x
  BY <1>1, <1>2
<1>4. Min(D) <= g
  <2>1. D # {} /\ f + 1 \in Int
    BY <1>3
  <2> QED BY <1>3, <2>1, MinIsLeast
<1>5. MoveEnd(route, f) = Min(D)
  BY <1>1, <1>2, Zenon DEF MoveEnd
<1> QED BY <1>4, <1>5

(* Moves from different frames end at different frames.                    *)
LEMMA MovesEndApart ==
  ASSUME NEW j, Prepared(j), NEW f \in 1..(Len(j.route) - 1), NEW g \in 1..(Len(j.route) - 1),
         ~InTransit(j.route[f]), ~InTransit(j.route[g]), j.edges[f].next = j.edges[g].next
  PROVE  f = g
<1>1. PICK n \in Nat \ {0} : n = Len(j.route) /\ IsRoute(j.route)
  BY DEF Prepared, IsCall, IsRoute
<1>2. ASSUME NEW x \in 1..(n - 1)
      PROVE  j.edges[x].next = MoveEnd(j.route, x)
  <2>1. j.edges[x] = MacroEdge(j, x)
    BY <1>1 DEF Prepared
  <2> QED BY <2>1 DEF MacroEdge
<1>3. ASSUME NEW x \in 1..(n - 1), NEW y \in 1..(n - 1), x < y, ~InTransit(j.route[y])
      PROVE  j.edges[x].next # j.edges[y].next
  <2>1. y \in (x + 1)..n
    BY <1>3
  <2>2. MoveEnd(j.route, x) <= y
    BY <1>1, <1>3, <2>1, MoveEndIsFirst
  <2>3. MoveEnd(j.route, x) \in Int
    BY <1>1, MoveEndExact
  <2>4. MoveEnd(j.route, y) \in (y + 1)..n
    BY <1>1, MoveEndExact
  <2> QED BY <1>2, <2>2, <2>3, <2>4
<1>4. f < g \/ g < f \/ f = g
  BY <1>1
<1> QED BY <1>1, <1>3, <1>4

(* A node that may be added after p: it leaves p when it first can.        *)
IsOffer(j, p, x) ==
  /\ x.frame = j.edges[p.frame].next
  /\ x.departure \in Int /\ x.departure \notin Ticks(j.edges[p.frame].blocked)
  /\ p.arrival <= x.departure
  /\ x.interval.begin - (x.frame - p.frame) <= x.departure
  /\ x.arrival = x.departure + x.frame - p.frame
  /\ LeavesFirst(j, p, x)

LEMMA OffersLeaveFirst ==
  ASSUME Prepared(job), NEW p, IsArrival(job, p), p.frame < Len(job.route),
         NEW to \in job.safe[job.edges[p.frame].next],
         NEW x, x = Offer(p, job.edges[p.frame], to)
  PROVE  IsOffer(job, p, x) /\ x.interval = to /\ x.parent = Top[3]
<1>1. PICK j : j = job
  OBVIOUS
<1>2. PICK n \in Nat \ {0} : n = Len(j.route)
  BY <1>1 DEF Prepared, IsCall, IsRoute
<1>3. PICK f \in 1..(n - 1) : f = p.frame
  BY <1>1, <1>2 DEF IsArrival
<1>4. PICK e : e = j.edges[f]
  OBVIOUS
<1>5. /\ e.next \in (f + 1)..n
      /\ \A b \in e.blocked : /\ b.begin \in Int /\ b.end \in Int
                              /\ b.end + 1 \notin Ticks(e.blocked)
  BY <1>1, <1>2, <1>4, MoveFacts
<1>6. p.arrival \in Int
  <2>1. p.frame \in 1..Len(j.route) /\ p.interval \in j.safe[p.frame]
    BY <1>1 DEF IsArrival
  <2>2. p.interval.begin \in Int /\ p.interval.end \in Int
    BY <1>1, <2>1, IntervalFacts
  <2> QED BY <1>1, <2>2 DEF IsArrival
<1>7. to.begin \in Int
  <2>1. e.next \in 1..Len(j.route) /\ to \in j.safe[e.next]
    BY <1>1, <1>2, <1>3, <1>4, <1>5
  <2> QED BY <1>1, <2>1, IntervalFacts
<1>8. PICK next \in Int, a \in Int, b \in Int : next = e.next /\ a = p.arrival /\ b = to.begin
  BY <1>5, <1>6, <1>7
<1>9. PICK earliest : earliest = AtLeast(a, b - (next - f))
  OBVIOUS
<1>10. /\ earliest \in Int /\ a <= earliest /\ b - (next - f) <= earliest
       /\ \A t \in Int : a <= t /\ b - (next - f) <= t => earliest <= t
  BY <1>9 DEF AtLeast
<1>11. PICK d : d = FirstClear(e.blocked, earliest)
  OBVIOUS
<1>12. d \in Int /\ earliest <= d /\ d \notin Ticks(e.blocked)
  BY <1>5, <1>10, <1>11, FirstClearIsClear
<1>13. \A t \in Int : t \notin Ticks(e.blocked) /\ earliest <= t => d <= t
  BY <1>5, <1>10, <1>11, FirstClearIsFirst
<1>14. Departure(p, e, to) = d
  BY <1>3, <1>8, <1>9, <1>11 DEF Departure
<1>15. x = Node(next, to, d + next - f, Top[3], d)
  BY <1>1, <1>3, <1>4, <1>8, <1>14 DEF Offer
<1>16. /\ x.frame = next /\ x.interval = to /\ x.arrival = d + next - f
       /\ x.parent = Top[3] /\ x.departure = d
  BY <1>15 DEF Node
<1>17. ASSUME NEW t \in Int, t \notin Ticks(e.blocked), a <= t, b - (next - f) <= t
       PROVE  d <= t
  BY <1>10, <1>13, <1>17
<1>18. LeavesFirst(j, p, x)
  BY <1>3, <1>4, <1>8, <1>16, <1>17 DEF LeavesFirst
<1>19. a <= d /\ b - (next - f) <= d
  BY <1>10, <1>12
<1> QED BY <1>1, <1>3, <1>4, <1>8, <1>12, <1>16, <1>18, <1>19 DEF IsOffer

(* What a node taken from the queue offers is no better than what is known.*)
LEMMA OffersNothingBetter ==
  ASSUME NEW j, Prepared(j), NEW found, IsTree(j, found), NEW queue, Settled(j, found, queue),
         NEW top \in 1..Len(found), EntryOf(j, found, top) \in queue,
         NEW p, p = found[top], p.frame < Len(j.route),
         NEW x, IsOffer(j, p, x),
         NEW id \in 1..Len(found), KeyOf(found[id]) = KeyOf(x)
  PROVE  found[id].arrival <= x.arrival
<1>1. PICK n \in Nat \ {0}, m \in Nat : n = Len(j.route) /\ m = Len(found)
  BY DEF Prepared, IsCall, IsRoute, IsTree
<1>2. PICK y : y = found[id]
  OBVIOUS
<1>3. y.frame = x.frame /\ y.interval = x.interval
  BY <1>2 DEF KeyOf
<1>4. IsArrival(j, p) /\ IsArrival(j, y)
  BY <1>2 DEF IsTree
<1>5. PICK f \in 1..(n - 1) : f = p.frame
  BY <1>1, <1>4 DEF IsArrival
<1>6. j.edges[f].next \in (f + 1)..n
  BY <1>1, <1>5, MoveFacts
<1>7. x.frame = j.edges[f].next
  BY <1>5 DEF IsOffer
<1>8. id # 1
  <2>1. found[1].frame = 1
    BY DEF IsTree
  <2> QED BY <1>2, <1>3, <1>5, <1>6, <1>7, <2>1
<1>9. id \in 2..m
  BY <1>1, <1>8
<1>10. PICK up \in 1..(id - 1) : up = y.parent /\ IsLeg(j, found[up], y)
  BY <1>1, <1>2, <1>9 DEF IsTree
<1>11. PICK q : q = found[up]
  OBVIOUS
<1>12. up \in 1..m /\ IsArrival(j, q)
  <2>1. up \in 1..m
    BY <1>1, <1>9
  <2> QED BY <1>1, <1>11, <2>1 DEF IsTree
<1>13. PICK g \in 1..(n - 1) : g = q.frame
  <2>1. q.frame \in 1..n
    BY <1>1, <1>12 DEF IsArrival
  <2>2. q.frame < n
    BY <1>1, <1>10, <1>11 DEF IsLeg
  <2> QED BY <2>1, <2>2
<1>14. g = f
  <2>1. j.edges[g].next = j.edges[f].next
    BY <1>3, <1>7, <1>10, <1>11, <1>13 DEF IsLeg
  <2>2. ~InTransit(j.route[f]) /\ ~InTransit(j.route[g])
    BY <1>1, <1>4, <1>5, <1>12, <1>13 DEF IsArrival
  <2> QED BY <1>1, <2>1, <2>2, MovesEndApart
<1>15. /\ EntryOf(j, found, up) \notin queue
       /\ LeavesFirst(j, q, y)
  BY <1>1, <1>2, <1>9, <1>10, <1>11 DEF Settled
<1>16. q.arrival + Len(j.route) - q.frame <= EntryOf(j, found, top)[1]
  BY <1>1, <1>11, <1>12, <1>15 DEF Settled
<1>17. EntryOf(j, found, top)[1] = p.arrival + n - f
  BY <1>1, <1>5 DEF EntryOf, Entry
<1>18. p.arrival \in Int /\ q.arrival \in Int /\ x.interval.begin \in Int
  <2>1. ASSUME NEW z, IsArrival(j, z)
        PROVE  z.arrival \in Int /\ z.interval.begin \in Int
    <3>1. z.frame \in 1..Len(j.route) /\ z.interval \in j.safe[z.frame]
      BY <2>1 DEF IsArrival
    <3>2. z.interval.begin \in Int /\ z.interval.end \in Int
      BY <3>1, IntervalFacts
    <3> QED BY <2>1, <3>2 DEF IsArrival
  <2> QED BY <1>3, <1>4, <1>12, <2>1
<1>19. q.arrival <= p.arrival
  <2>1. q.arrival + n - f <= p.arrival + n - f
    BY <1>1, <1>13, <1>14, <1>16, <1>17
  <2> QED BY <1>18, <2>1
<1>20. PICK d \in Int : /\ d = x.departure /\ d \notin Ticks(j.edges[f].blocked)
                        /\ p.arrival <= d /\ x.interval.begin - (x.frame - f) <= d
                        /\ x.arrival = d + x.frame - f
  BY <1>5 DEF IsOffer
<1>21. y.departure <= d
  <2>1. q.arrival <= d
    BY <1>18, <1>19, <1>20
  <2>2. y.interval.begin - (y.frame - q.frame) <= d
    BY <1>3, <1>13, <1>14, <1>20
  <2>3. d \notin Ticks(j.edges[q.frame].blocked)
    BY <1>13, <1>14, <1>20
  <2> QED BY <1>15, <2>1, <2>2, <2>3 DEF LeavesFirst
<1>22. y.arrival = y.departure + x.frame - f
  BY <1>3, <1>10, <1>11, <1>13, <1>14 DEF IsLeg
<1>23. y.departure \in Int
  <2>1. y \in NodesOf(j)
    BY <1>2 DEF IsTree
  <2> QED BY <2>1 DEF NodesOf
<1>24. x.frame \in Int
  BY <1>6, <1>7
<1>25. PICK b \in Int, c \in Int : b = y.departure /\ c = x.frame
  BY <1>23, <1>24
<1>26. b + c - f <= d + c - f
  BY <1>21, <1>25
<1> QED BY <1>2, <1>20, <1>22, <1>25, <1>26

LEMMA PlacesApart ==
  ASSUME NEW j, Prepared(j), NEW f \in 1..Len(j.route),
         NEW a \in j.safe[f], NEW b \in j.safe[f], Place(a) = Place(b)
  PROVE  a = b
<1>1. PICK S : S = j.safe[f]
  OBVIOUS
<1>2. IsCall(j.route, j.tracks, j.horizon) /\ S = SafeIntervals(j.route, f, j.tracks, j.horizon)
  BY <1>1 DEF Prepared
<1>3. \A x, y \in S : x.begin = y.begin /\ x.copy = y.copy => x = y
  BY <1>2, SafeIntervalsExact
<1>4. PICK p \in Int, q \in Int : p = a.begin /\ q = b.begin
  BY IntervalFacts
<1>5. PICK c \in 1..2, d \in 1..2 : c = a.copy /\ d = b.copy
  BY IntervalFacts
<1>6. 2 * p + c = 2 * q + d
  BY <1>4, <1>5 DEF Place
<1>7. p = q /\ c = d
  BY <1>6
<1> QED BY <1>1, <1>3, <1>4, <1>5, <1>7

(* What expanding a node adds: the nodes new, N of them, one for every     *)
(* interval that gets a better arrival than was known, if any was.         *)
Finds(N, new, e) ==
  \A to \in job.safe[e.next] :
    Serves(Current, e, to) /\ Improves(Offer(Current, e, to)) =>
      \E k \in 1..N : new[k] = Offer(Current, e, to)

Adds(N, new) ==
  /\ Len(nodes') = Len(nodes) + N
  /\ \A id \in 1..Len(nodes) : nodes'[id] = nodes[id]
  /\ \A k \in 1..N : /\ nodes'[Len(nodes) + k] = new[k]
                     /\ IsOffer(job, Current, new[k]) /\ new[k].parent = Top[3]
                     /\ KeyOf(new[k]) \in DOMAIN best => best[KeyOf(new[k])] > new[k].arrival
  /\ \A a, b \in 1..N : KeyOf(new[a]) = KeyOf(new[b]) => a = b
  /\ Finds(N, new, job.edges[Current.frame])
  /\ open' = (open \ {Top}) \cup {EntryOf(job, nodes', Len(nodes) + k) : k \in 1..N}
  /\ DOMAIN best' = DOMAIN best \cup {KeyOf(new[k]) : k \in 1..N}
  /\ \A k \in 1..N : best'[KeyOf(new[k])] = new[k].arrival
  /\ \A key \in DOMAIN best : key \notin {KeyOf(new[k]) : k \in 1..N} => best'[key] = best[key]

LEMMA ExpandAdds ==
  ASSUME Prepared(job), IsTree(job, nodes), open \subseteq EntriesOf(job, nodes), Expand
  PROVE  \E N \in Nat : \E new : Adds(N, new)
<1>1. PICK j, found, p : j = job /\ found = nodes /\ p = Current
  OBVIOUS
<1>2. PICK n \in Nat \ {0}, h \in Nat, m \in Nat : n = Len(j.route) /\ h = j.horizon /\ m = Len(found)
  BY <1>1 DEF Prepared, IsCall, IsRoute, IsTree
<1>3. open # {} /\ p.frame < Len(j.route)
  BY <1>1 DEF Expand, Taken, Searching, LastFrame
<1>4. IsArrival(j, p)
  BY <1>1, <1>3, TopIsFound DEF IsTree
<1>5. PICK f \in 1..(n - 1) : f = p.frame
  BY <1>2, <1>3, <1>4 DEF IsArrival
<1>6. PICK e : e = j.edges[f]
  OBVIOUS
<1>7. e.next \in 1..n
  <2>1. e.next \in (f + 1)..n
    BY <1>1, <1>2, <1>6, MoveFacts
  <2> QED BY <2>1
<1> DEFINE edge == job.edges[Current.frame]
           Arrive(to) == Offer(Current, edge, to)
           reached == {to \in job.safe[edge.next] :
                         Serves(Current, edge, to) /\ Improves(Arrive(to))}
           places == {Place(to) : to \in reached}
           order == InOrder({Place(to) : to \in reached})
           added == [k \in DOMAIN order |-> Arrive(CHOOSE to \in reached : Place(to) = order[k])]
<1>8. /\ best' = [key \in DOMAIN best \cup ({edge.next} \X reached) |->
                   IF key \in {edge.next} \X reached THEN Arrive(key[2]).arrival ELSE best[key]]
      /\ nodes' = nodes \o added
      /\ open' = (open \ {Top}) \cup
                   {Entry(job.route, edge.next, added[k].arrival, Len(nodes) + k) :
                      k \in DOMAIN added}
  BY Zenon DEF Expand
<1>9. Current = p /\ edge = e
  BY <1>1, <1>5, <1>6
<1>10. ASSUME NEW to \in reached
       PROVE  /\ to \in j.safe[e.next] /\ IsOffer(j, p, Arrive(to))
              /\ Arrive(to).interval = to /\ Arrive(to).parent = Top[3]
              /\ Arrive(to).frame = e.next /\ KeyOf(Arrive(to)) = <<e.next, to>>
              /\ KeyOf(Arrive(to)) \in DOMAIN best => best[KeyOf(Arrive(to))] > Arrive(to).arrival
              /\ Place(to) \in 1..(2 * h + 2)
  <2>1. to \in j.safe[e.next] /\ Improves(Arrive(to))
    BY <1>1, <1>9
  <2>2. PICK x : x = Arrive(to)
    OBVIOUS
  <2>3. x = Offer(p, job.edges[p.frame], to)
    BY <1>1, <2>2
  <2>4. KeyOf(x) \in DOMAIN best => best[KeyOf(x)] > x.arrival
    BY <2>1, <2>2 DEF Improves, KeyOf
  <2> HIDE DEF edge, Arrive, reached, places, order, added
  <2>5. to \in job.safe[job.edges[p.frame].next]
    BY <1>1, <1>5, <1>6, <2>1
  <2>6. IsOffer(job, p, x) /\ x.interval = to /\ x.parent = Top[3]
    <3>1. IsArrival(job, p) /\ p.frame < Len(job.route)
      BY <1>1, <1>3, <1>4
    <3> QED BY <2>3, <2>5, <3>1, OffersLeaveFirst
  <2>7. x.frame = e.next
    BY <1>1, <1>5, <1>6, <2>6 DEF IsOffer
  <2>8. KeyOf(x) = <<e.next, to>>
    BY <2>6, <2>7 DEF KeyOf
  <2>9. /\ to.begin \in Int /\ to.end \in Int /\ to.copy \in 1..2
        /\ 0 <= to.begin /\ to.begin <= to.end /\ to.end <= h
    BY <1>1, <1>2, <1>7, <2>1, IntervalFacts
  <2>10. to.begin \in 0..h
    BY <2>9
  <2>11. Place(to) \in 1..(2 * h + 2)
    BY <2>9, <2>10, PlaceBounded
  <2> QED BY <1>1, <2>1, <2>2, <2>6, <2>7, <2>8, <2>4, <2>11
<1>11. PICK N \in Nat :
         /\ DOMAIN order = 1..N
         /\ \A k \in 1..N : order[k] \in places
         /\ \A x \in places : \E k \in 1..N : order[k] = x
         /\ \A a, b \in 1..N : order[a] = order[b] => a = b
  <2>1. \A x \in places : x \in 1..(2 * h + 2)
    BY <1>10
  <2>2. IsFiniteSet(1..(2 * h + 2))
    BY FS_Interval
  <2>3. order = InOrder(places)
    OBVIOUS
  <2> HIDE DEF places, order
  <2>4. places \in SUBSET (1..(2 * h + 2)) /\ places \in SUBSET Int
    BY <2>1
  <2>5. IsFiniteSet(places)
    BY <2>2, <2>4, FS_Subset
  <2>6. /\ Cardinality(places) \in Nat
        /\ order \in [1..Cardinality(places) -> places]
    BY <2>3, <2>4, <2>5, InOrderExact
  <2>7. /\ \A x \in places : \E k \in 1..Cardinality(places) : order[k] = x
        /\ \A a, b \in 1..Cardinality(places) : order[a] = order[b] => a = b
    BY <2>3, <2>4, <2>5, InOrderOnce
  <2> QED BY <2>6, <2>7
<1>12. PICK at : at = [k \in 1..N |-> CHOOSE to \in reached : Place(to) = order[k]]
  OBVIOUS
<1>13. \A k \in 1..N : at[k] \in reached /\ Place(at[k]) = order[k]
  <2> TAKE k \in 1..N
  <2>1. \E to \in reached : Place(to) = order[k]
    <3>1. order[k] \in places
      <4> HIDE DEF places, order
      <4> QED BY <1>11
    <3> QED BY <3>1
  <2>2. at[k] = CHOOSE to \in reached : Place(to) = order[k]
    BY <1>12
  <2> HIDE DEF reached, order
  <2> QED BY <2>1, <2>2
<1>14. PICK new : new = added
  OBVIOUS
<1>15. DOMAIN new = 1..N /\ \A k \in 1..N : new[k] = Arrive(at[k])
  <2>1. DOMAIN order = 1..N
    <3> HIDE DEF order
    <3> QED BY <1>11
  <2> HIDE DEF order, reached, Arrive
  <2> QED BY <1>12, <1>14, <2>1
<1>16. \A to \in reached : \E k \in 1..N : at[k] = to
  <2> TAKE to \in reached
  <2>1. Place(to) \in places
    OBVIOUS
  <2>2. PICK k \in 1..N : order[k] = Place(to)
    BY <1>11, <2>1
  <2>3. at[k] \in reached /\ Place(at[k]) = Place(to)
    BY <1>13, <2>2
  <2>4. at[k] \in j.safe[e.next] /\ to \in j.safe[e.next]
    BY <1>10, <2>3
  <2>5. at[k] = to
    BY <1>1, <1>2, <1>7, <2>3, <2>4, PlacesApart
  <2> QED BY <2>5
<1>17. \A a, b \in 1..N : at[a] = at[b] => a = b
  BY <1>11, <1>13
<1>18. new = [k \in 1..N |-> new[k]]
  <2> HIDE DEF Arrive, reached, order
  <2> QED BY <1>14, <1>15
<1>19. /\ best' = [key \in DOMAIN best \cup ({e.next} \X reached) |->
                    IF key \in {e.next} \X reached THEN Arrive(key[2]).arrival ELSE best[key]]
       /\ nodes' = found \o new
       /\ open' = (open \ {Top}) \cup
                    {Entry(j.route, e.next, new[k].arrival, m + k) : k \in 1..N}
  BY <1>1, <1>2, <1>8, <1>9, <1>14, <1>15
<1>33. Finds(N, new, edge)
  <2> HIDE DEF edge
  <2>1. ASSUME NEW to \in job.safe[edge.next],
               Serves(Current, edge, to), Improves(Offer(Current, edge, to))
        PROVE  \E k \in 1..N : new[k] = Offer(Current, edge, to)
    <3>1. to \in reached
      BY <2>1
    <3> HIDE DEF reached, order, added
    <3>2. PICK k \in 1..N : at[k] = to
      BY <1>16, <3>1
    <3>3. new[k] = Offer(Current, edge, to)
      BY <1>15, <3>2
    <3> QED BY <3>3
  <2> QED BY <2>1 DEF Finds
<1>34. Finds(N, new, job.edges[Current.frame])
  BY <1>33
<1> HIDE DEF edge, Arrive, reached, places, order, added
<1>20. ASSUME NEW k \in 1..N
       PROVE  /\ IsOffer(j, p, new[k]) /\ new[k].parent = Top[3]
              /\ new[k].frame = e.next /\ KeyOf(new[k]) = <<e.next, at[k]>>
              /\ KeyOf(new[k]) \in DOMAIN best => best[KeyOf(new[k])] > new[k].arrival
  BY <1>10, <1>13, <1>15
<1>21. /\ Len(nodes') = m + N
       /\ \A id \in 1..m : nodes'[id] = found[id]
       /\ \A k \in 1..N : nodes'[m + k] = new[k]
  <2>1. PICK S : S = NodesOf(j) \cup {new[k] : k \in 1..N}
    OBVIOUS
  <2>2. new \in Seq(S) /\ Len(new) = N
    BY <1>18, <2>1
  <2>3. found \in Seq(S)
    <3>1. found \in Seq(NodesOf(j))
      BY <1>1 DEF IsTree
    <3> QED BY <2>1, <3>1
  <2>4. /\ Len(found \o new) = m + N
        /\ \A i \in 1..(m + N) : (found \o new)[i] = IF i <= m THEN found[i] ELSE new[i - m]
    <3>1. /\ Len(found \o new) = Len(found) + Len(new)
          /\ \A i \in 1..(Len(found) + Len(new)) :
               (found \o new)[i] = IF i <= Len(found) THEN found[i] ELSE new[i - Len(found)]
      BY <2>2, <2>3, ConcatProperties, Zenon
    <3> QED BY <1>2, <2>2, <3>1
  <2>5. ASSUME NEW k \in 1..N
        PROVE  m + k \in 1..(m + N) /\ ~(m + k <= m) /\ (m + k) - m = k
    OBVIOUS
  <2>6. 1..m \subseteq 1..(m + N)
    OBVIOUS
  <2> QED BY <1>19, <2>4, <2>5, <2>6
<1>22. \A a, b \in 1..N : KeyOf(new[a]) = KeyOf(new[b]) => a = b
  <2> SUFFICES ASSUME NEW a \in 1..N, NEW b \in 1..N, KeyOf(new[a]) = KeyOf(new[b]) PROVE a = b
    OBVIOUS
  <2>1. at[a] = at[b]
    BY <1>20
  <2> QED BY <1>17, <2>1
<1>23. open' = (open \ {Top}) \cup {EntryOf(j, nodes', m + k) : k \in 1..N}
  <2>1. \A k \in 1..N : EntryOf(j, nodes', m + k) = Entry(j.route, e.next, new[k].arrival, m + k)
    BY <1>20, <1>21 DEF EntryOf
  <2> QED BY <1>19, <2>1
<1>24. {e.next} \X reached = {KeyOf(new[k]) : k \in 1..N}
  <2>1. \A k \in 1..N : KeyOf(new[k]) \in {e.next} \X reached
    BY <1>13, <1>20
  <2>2. ASSUME NEW to \in reached
        PROVE  \E k \in 1..N : <<e.next, to>> = KeyOf(new[k])
    BY <1>16, <1>20
  <2> QED BY <2>1, <2>2
<1>25. PICK better : better = [key \in {e.next} \X reached |-> Arrive(key[2]).arrival]
  OBVIOUS
<1>26. /\ DOMAIN best' = DOMAIN better \cup DOMAIN best
       /\ \A key \in DOMAIN better : best'[key] = better[key]
       /\ \A key \in DOMAIN best : key \notin DOMAIN better => best'[key] = best[key]
  BY <1>19, <1>25
<1>27. DOMAIN better = {KeyOf(new[k]) : k \in 1..N}
  BY <1>24, <1>25
<1>28. ASSUME NEW k \in 1..N
       PROVE  better[KeyOf(new[k])] = new[k].arrival
  <2>1. KeyOf(new[k]) = <<e.next, at[k]>> /\ at[k] \in reached
    BY <1>13, <1>20
  <2>2. better[<<e.next, at[k]>>] = Arrive(at[k]).arrival
    BY <1>25, <2>1
  <2> QED BY <1>15, <2>1, <2>2
<1>29. /\ DOMAIN best' = DOMAIN best \cup {KeyOf(new[k]) : k \in 1..N}
       /\ \A k \in 1..N : best'[KeyOf(new[k])] = new[k].arrival
       /\ \A key \in DOMAIN best : key \notin {KeyOf(new[k]) : k \in 1..N} =>
            best'[key] = best[key]
  <2>1. \A k \in 1..N : KeyOf(new[k]) \in DOMAIN better
    BY <1>27
  <2> QED BY <1>26, <1>27, <1>28, <2>1
<1>30. /\ Len(nodes') = Len(nodes) + N
       /\ \A id \in 1..Len(nodes) : nodes'[id] = nodes[id]
       /\ open' = (open \ {Top}) \cup {EntryOf(job, nodes', Len(nodes) + k) : k \in 1..N}
  BY <1>1, <1>2, <1>21, <1>23
<1>31. \A k \in 1..N : /\ nodes'[Len(nodes) + k] = new[k]
                       /\ IsOffer(job, Current, new[k]) /\ new[k].parent = Top[3]
                       /\ KeyOf(new[k]) \in DOMAIN best =>
                            best[KeyOf(new[k])] > new[k].arrival
  BY <1>1, <1>2, <1>20, <1>21
<1>32. Adds(N, new)
  BY <1>22, <1>29, <1>30, <1>31, <1>34 DEF Adds
<1> QED BY <1>32

(* An expansion keeps the index of the nodes, and what is settled.         *)
LEMMA ExpandKeepsIndex ==
  ASSUME Prepared(job), IsTree(job, nodes), open \subseteq EntriesOf(job, nodes),
         Indexed(nodes, best), Settled(job, nodes, open), Expand
  PROVE  Indexed(nodes', best')
<1>1. PICK j, found, known, p, top : j = job /\ found = nodes /\ known = best /\ p = Current /\ top = Top[3]
  OBVIOUS
<1>2. PICK m \in Nat : m = Len(found)
  BY <1>1 DEF IsTree
<1>3. open # {} /\ p.frame < Len(j.route)
  BY <1>1 DEF Expand, Taken, Searching, LastFrame
<1>4. top \in 1..m /\ p = found[top] /\ EntryOf(j, found, top) \in open
  BY <1>1, <1>2, <1>3, TopIsFirst DEF EntryOf, Current
<1>5. PICK N \in Nat : \E new : Adds(N, new)
  BY ExpandAdds
<1>6. PICK new : Adds(N, new)
  BY <1>5
<1>7. PICK grown, index : grown = nodes' /\ index = best'
  OBVIOUS
<1>8. /\ Len(grown) = m + N
      /\ \A id \in 1..m : grown[id] = found[id]
      /\ \A k \in 1..N : grown[m + k] = new[k]
  BY <1>1, <1>2, <1>6, <1>7 DEF Adds
<1>9. /\ DOMAIN known = {KeyOf(found[id]) : id \in 1..m}
      /\ \A id \in 1..m : known[KeyOf(found[id])] = found[id].arrival
      /\ \A a, b \in 1..m : KeyOf(found[a]) = KeyOf(found[b]) => a = b
  BY <1>1, <1>2 DEF Indexed
<1>10. ASSUME NEW k \in 1..N
      PROVE  KeyOf(new[k]) \notin DOMAIN known
  <2> SUFFICES ASSUME KeyOf(new[k]) \in DOMAIN known PROVE FALSE
    OBVIOUS
  <2>1. PICK id \in 1..m : KeyOf(new[k]) = KeyOf(found[id])
    BY <1>9
  <2>2. IsOffer(j, p, new[k]) /\ known[KeyOf(new[k])] > new[k].arrival
    BY <1>1, <1>6 DEF Adds
  <2>3. found[id].arrival <= new[k].arrival
    BY <1>1, <1>2, <1>3, <1>4, <2>1, <2>2, OffersNothingBetter
  <2>4. known[KeyOf(new[k])] = found[id].arrival
    BY <1>9, <2>1
  <2>5. found[id].arrival \in Int
    <3>1. found[id] \in NodesOf(j)
      BY <1>1, <1>2 DEF IsTree
    <3> QED BY <3>1 DEF NodesOf
  <2>6. new[k].arrival \in Int
    <3>1. \A y : y \in NodesOf(j) => y.arrival \in Int
      BY DEF NodesOf
    <3>2. IsTree(job, nodes')
      BY ExpandGrowsTree
    <3>3. m + k \in 1..Len(grown)
      BY <1>8
    <3>4. grown[m + k] \in NodesOf(j)
      BY <1>1, <1>7, <3>2, <3>3 DEF IsTree
    <3> QED BY <1>8, <3>1, <3>4
  <2> QED BY <2>2, <2>3, <2>4, <2>5, <2>6
<1>11. \A id \in 1..(m + N) : id \in 1..m \/ \E k \in 1..N : id = m + k
  <2> TAKE id \in 1..(m + N)
  <2>1. CASE id <= m
    BY <2>1
  <2>2. CASE ~(id <= m)
    <3>1. id - m \in 1..N /\ id = m + (id - m)
      BY <2>2
    <3> QED BY <3>1
  <2> QED BY <2>1, <2>2
<1>12. /\ DOMAIN index = DOMAIN known \cup {KeyOf(new[k]) : k \in 1..N}
       /\ \A k \in 1..N : index[KeyOf(new[k])] = new[k].arrival
       /\ \A key \in DOMAIN known : key \notin {KeyOf(new[k]) : k \in 1..N} =>
            index[key] = known[key]
       /\ \A a, b \in 1..N : KeyOf(new[a]) = KeyOf(new[b]) => a = b
  BY <1>1, <1>6, <1>7 DEF Adds
<1>13. \A k \in 1..N : m + k \in 1..(m + N)
  OBVIOUS
<1>14. 1..m \subseteq 1..(m + N)
  OBVIOUS
<1>15. DOMAIN index = {KeyOf(grown[id]) : id \in 1..(m + N)}
  <2>1. ASSUME NEW key \in DOMAIN index
        PROVE  \E id \in 1..(m + N) : key = KeyOf(grown[id])
    <3>1. CASE key \in DOMAIN known
      BY <1>8, <1>9, <1>14, <3>1
    <3>2. CASE key \notin DOMAIN known
      <4>1. PICK k \in 1..N : key = KeyOf(new[k])
        BY <1>12, <3>2
      <4> QED BY <1>8, <1>13, <4>1
    <3> QED BY <3>1, <3>2
  <2>2. ASSUME NEW id \in 1..(m + N)
        PROVE  KeyOf(grown[id]) \in DOMAIN index
    <3>1. CASE id \in 1..m
      BY <1>8, <1>9, <1>12, <3>1
    <3>2. ASSUME NEW k \in 1..N, id = m + k
          PROVE  KeyOf(grown[id]) \in DOMAIN index
      <4>1. grown[id] = new[k]
        BY <1>8, <3>2
      <4> QED BY <1>12, <4>1
    <3> QED BY <1>11, <3>1, <3>2
  <2> QED BY <2>1, <2>2
<1>16. ASSUME NEW id \in 1..(m + N)
       PROVE  index[KeyOf(grown[id])] = grown[id].arrival
  <2>1. CASE id \in 1..m
    <3>1. KeyOf(found[id]) \in DOMAIN known
      BY <1>9, <2>1
    <3>2. KeyOf(found[id]) \notin {KeyOf(new[k]) : k \in 1..N}
      BY <1>10, <3>1
    <3>3. index[KeyOf(found[id])] = known[KeyOf(found[id])]
      BY <1>12, <3>1, <3>2
    <3>4. grown[id] = found[id]
      BY <1>8, <2>1
    <3>5. known[KeyOf(found[id])] = found[id].arrival
      BY <1>9, <2>1
    <3> QED BY <3>3, <3>4, <3>5
  <2>2. ASSUME NEW k \in 1..N, id = m + k
        PROVE  index[KeyOf(grown[id])] = grown[id].arrival
    <3>1. grown[id] = new[k]
      BY <1>8, <2>2
    <3>2. index[KeyOf(new[k])] = new[k].arrival
      BY <1>12
    <3> QED BY <3>1, <3>2
  <2> QED BY <1>11, <2>1, <2>2
<1>17. ASSUME NEW a \in 1..(m + N), NEW b \in 1..(m + N), KeyOf(grown[a]) = KeyOf(grown[b])
       PROVE  a = b
  <2>1. CASE a \in 1..m /\ b \in 1..m
    BY <1>8, <1>9, <1>17, <2>1
  <2>2. ASSUME NEW x \in 1..m, NEW k \in 1..N
        PROVE  KeyOf(grown[x]) # KeyOf(grown[m + k])
    BY <1>8, <1>9, <1>10
  <2>3. CASE \E k, l \in 1..N : a = m + k /\ b = m + l
    <3>1. PICK k \in 1..N, l \in 1..N : a = m + k /\ b = m + l
      BY <2>3
    <3>2. KeyOf(new[k]) = KeyOf(new[l])
      BY <1>8, <1>17, <3>1
    <3>3. k = l
      BY <1>12, <3>2
    <3> QED BY <3>1, <3>3
  <2> QED BY <1>11, <1>17, <2>1, <2>2, <2>3
<1>18. Indexed(grown, index)
  <2>1. Len(grown) \in Nat /\ m + N = Len(grown)
    BY <1>8
  <2>2. /\ DOMAIN index = {KeyOf(grown[id]) : id \in 1..Len(grown)}
        /\ \A id \in 1..Len(grown) : index[KeyOf(grown[id])] = grown[id].arrival
        /\ \A a, b \in 1..Len(grown) : KeyOf(grown[a]) = KeyOf(grown[b]) => a = b
    BY <1>15, <1>16, <1>17, <2>1
  <2> QED BY <2>1, <2>2, Zenon DEF Indexed
<1> QED BY <1>7, <1>18

LEMMA ExpandKeepsSettled ==
  ASSUME Prepared(job), IsTree(job, nodes), open \subseteq EntriesOf(job, nodes),
         Settled(job, nodes, open), Expand
  PROVE  Settled(job, nodes', open')
<1>1. PICK j, found, p, top, first : /\ j = job /\ found = nodes /\ p = Current
                                    /\ top = Top[3] /\ first = Top
  OBVIOUS
<1>2. PICK n \in Nat \ {0}, m \in Nat : n = Len(j.route) /\ m = Len(found)
  BY <1>1 DEF Prepared, IsCall, IsRoute, IsTree
<1>3. open # {} /\ p.frame < n
  BY <1>1, <1>2 DEF Expand, Taken, Searching, LastFrame
<1>4. /\ top \in 1..m /\ p = found[top] /\ first \in open
      /\ first = EntryOf(j, found, top) /\ \A o \in open : first[1] <= o[1]
  BY <1>1, <1>2, <1>3, TopIsFirst DEF EntryOf, Current
<1>5. PICK N \in Nat : \E new : Adds(N, new)
  BY ExpandAdds
<1>6. PICK new : Adds(N, new)
  BY <1>5
<1>7. PICK grown, queue : grown = nodes' /\ queue = open'
  OBVIOUS
<1>8. /\ Len(grown) = m + N
      /\ \A id \in 1..m : grown[id] = found[id]
      /\ \A k \in 1..N : /\ grown[m + k] = new[k] /\ new[k].parent = top
                         /\ IsOffer(j, p, new[k])
      /\ queue = (open \ {first}) \cup {EntryOf(j, grown, m + k) : k \in 1..N}
  <2>1. /\ Len(nodes') = Len(nodes) + N
        /\ \A id \in 1..Len(nodes) : nodes'[id] = nodes[id]
        /\ \A k \in 1..N : /\ nodes'[Len(nodes) + k] = new[k] /\ new[k].parent = Top[3]
                           /\ IsOffer(job, Current, new[k])
        /\ open' = (open \ {Top}) \cup {EntryOf(job, nodes', Len(nodes) + k) : k \in 1..N}
    BY <1>6, Zenon DEF Adds
  <2> QED BY <1>1, <1>2, <1>7, <2>1
<1>9. /\ \A id \in 1..m : EntryOf(j, found, id) \notin open =>
           \A o \in open : found[id].arrival + n - found[id].frame <= o[1]
      /\ \A id \in 2..m : /\ EntryOf(j, found, found[id].parent) \notin open
                          /\ LeavesFirst(j, found[found[id].parent], found[id])
  BY <1>1, <1>2 DEF Settled
<1>10. ASSUME NEW some, NEW id
      PROVE  /\ EntryOf(j, some, id)[1] = some[id].arrival + n - some[id].frame
             /\ EntryOf(j, some, id)[3] = id
  BY <1>2 DEF EntryOf, Entry
<1>11. \A id \in 1..m : EntryOf(j, grown, id) = EntryOf(j, found, id)
  BY <1>8 DEF EntryOf
<1>12. \A id \in 1..(m + N) : id \in 1..m \/ \E k \in 1..N : id = m + k
  <2> TAKE id \in 1..(m + N)
  <2>1. CASE id <= m
    BY <2>1
  <2>2. CASE ~(id <= m)
    <3>1. id - m \in 1..N /\ id = m + (id - m)
      BY <2>2
    <3> QED BY <3>1
  <2> QED BY <2>1, <2>2
<1>13. \A id \in 1..m : \A k \in 1..N : EntryOf(j, grown, id) # EntryOf(j, grown, m + k)
  <2> TAKE id \in 1..m
  <2> TAKE k \in 1..N
  <2>1. id # m + k
    OBVIOUS
  <2> QED BY <1>10, <2>1
<1>14. \A id \in 1..m : EntryOf(j, found, id) \in queue =>
          EntryOf(j, found, id) \in open /\ id # top
  BY <1>4, <1>8, <1>11, <1>13
<1>15. \A id \in 1..m : found[id].arrival \in Int /\ found[id].frame \in Int
  <2> TAKE id \in 1..m
  <2>1. found[id] \in NodesOf(j)
    BY <1>1, <1>2 DEF IsTree
  <2> QED BY <2>1 DEF NodesOf
<1>16. PICK a \in Int, f \in Int : a = p.arrival /\ f = p.frame
  BY <1>4, <1>15
<1>17. first[1] = a + n - f
  BY <1>4, <1>10, <1>16
<1>18. ASSUME NEW k \in 1..N
       PROVE  first[1] <= EntryOf(j, grown, m + k)[1]
  <2>1. PICK d \in Int : d = new[k].departure
    BY <1>8 DEF IsOffer
  <2>2. PICK next : next = new[k].frame
    OBVIOUS
  <2>3. a <= d /\ new[k].arrival = d + next - f /\ next = j.edges[f].next
    BY <1>8, <1>16, <2>1, <2>2 DEF IsOffer
  <2>4. next \in Int
    <3>1. f \in 1..(n - 1)
      <4>1. IsArrival(j, p)
        BY <1>1, <1>2, <1>4 DEF IsTree
      <4> QED BY <1>2, <1>3, <1>16, <4>1 DEF IsArrival
    <3>2. next \in (f + 1)..n
      BY <1>1, <1>2, <2>3, <3>1, MoveFacts
    <3> QED BY <3>2
  <2>5. EntryOf(j, grown, m + k)[1] = (d + next - f) + n - next
    <3>1. EntryOf(j, grown, m + k)[1] = grown[m + k].arrival + n - grown[m + k].frame
      BY <1>10
    <3>2. grown[m + k] = new[k]
      BY <1>8
    <3> QED BY <2>2, <2>3, <3>1, <3>2
  <2>6. a + n - f <= (d + next - f) + n - next
    BY <2>3, <2>4
  <2> QED BY <1>17, <2>5, <2>6
<1>19. ASSUME NEW k \in 1..N
       PROVE  EntryOf(j, grown, m + k)[1] \in Int
  <2>1. IsTree(job, nodes')
    BY ExpandGrowsTree
  <2>2. m + k \in 1..Len(grown)
    BY <1>8
  <2>3. grown[m + k] \in NodesOf(j)
    BY <1>1, <1>7, <2>1, <2>2 DEF IsTree
  <2>4. grown[m + k].arrival \in Int /\ grown[m + k].frame \in Int
    BY <2>3 DEF NodesOf
  <2> QED BY <1>10, <2>4
<1>20. ASSUME NEW id \in 1..(m + N), EntryOf(j, grown, id) \notin queue, NEW o \in queue
       PROVE  grown[id].arrival + n - grown[id].frame <= o[1]
  <2>1. id \in 1..m
    BY <1>8, <1>12, <1>20
  <2>2. PICK b \in Int : b = found[id].arrival + n - found[id].frame
    BY <1>15, <2>1
  <2>3. EntryOf(j, found, id) \notin open \/ EntryOf(j, found, id) = first
    BY <1>8, <1>11, <1>20, <2>1
  <2>4. b <= first[1]
    <3>1. CASE EntryOf(j, found, id) \notin open
      BY <1>4, <1>9, <2>1, <2>2, <3>1
    <3>2. CASE EntryOf(j, found, id) = first
      BY <1>10, <2>2, <3>2
    <3> QED BY <2>3, <3>1, <3>2
  <2>5. CASE o \in open
    <3>1. CASE EntryOf(j, found, id) \notin open
      BY <1>8, <1>9, <2>1, <2>5, <3>1
    <3>2. CASE EntryOf(j, found, id) = first
      <4>1. b = first[1]
        BY <1>10, <2>2, <3>2
      <4> QED BY <1>4, <1>8, <2>1, <2>2, <2>5, <4>1
    <3> QED BY <2>3, <3>1, <3>2
  <2>6. CASE o \notin open
    <3>1. PICK k \in 1..N : o = EntryOf(j, grown, m + k)
      BY <1>8, <2>6
    <3>2. PICK x \in Int, y \in Int : x = first[1] /\ y = o[1]
      BY <1>17, <1>19, <3>1
    <3>3. b <= x /\ x <= y
      BY <1>18, <2>4, <3>1, <3>2
    <3>4. b <= y
      BY <3>3
    <3> QED BY <1>8, <2>1, <2>2, <3>2, <3>4
  <2> QED BY <2>5, <2>6
<1>21. ASSUME NEW id \in 2..(m + N)
       PROVE  /\ EntryOf(j, grown, grown[id].parent) \notin queue
              /\ LeavesFirst(j, grown[grown[id].parent], grown[id])
  <2>1. CASE id \in 1..m
    <3>1. id \in 2..m
      BY <2>1
    <3>2. found[id].parent \in 1..(id - 1)
      BY <1>1, <1>2, <3>1 DEF IsTree
    <3>3. found[id].parent \in 1..m
      BY <2>1, <3>2
    <3>4. /\ grown[id] = found[id]
          /\ grown[found[id].parent] = found[found[id].parent]
      BY <1>8, <2>1, <3>3
    <3>5. EntryOf(j, found, found[id].parent) \notin queue
      BY <1>9, <1>14, <3>1, <3>3
    <3> QED BY <1>9, <1>11, <3>1, <3>3, <3>4, <3>5
  <2>2. CASE id \notin 1..m
    <3>1. PICK k \in 1..N : id = m + k
      BY <1>12, <2>2
    <3>2. grown[id] = new[k] /\ new[k].parent = top /\ grown[top] = p /\ LeavesFirst(j, p, new[k])
      BY <1>4, <1>8, <3>1 DEF IsOffer
    <3>3. EntryOf(j, grown, top) \notin queue
      BY <1>4, <1>11, <1>14
    <3> QED BY <3>2, <3>3
  <2> QED BY <2>1, <2>2
<1> QED BY <1>1, <1>2, <1>7, <1>8, <1>20, <1>21 DEF Settled

(* Taking a node from the queue leaves it settled.                         *)
LEMMA TakingKeepsSettled ==
  ASSUME Prepared(job), IsTree(job, nodes), open \subseteq EntriesOf(job, nodes), open # {},
         Settled(job, nodes, open)
  PROVE  Settled(job, nodes, open \ {Top})
<1>1. PICK j, found, first : j = job /\ found = nodes /\ first = Top
  OBVIOUS
<1>2. /\ first[3] \in 1..Len(found) /\ first = EntryOf(j, found, first[3])
      /\ \A o \in open : first[1] <= o[1]
  BY <1>1, TopIsFirst DEF EntryOf
<1>3. ASSUME NEW id \in 1..Len(found), EntryOf(j, found, id) \notin open \ {first}, NEW o \in open
      PROVE  found[id].arrival + Len(j.route) - found[id].frame <= o[1]
  <2>1. CASE EntryOf(j, found, id) \notin open
    BY <1>1, <2>1 DEF Settled
  <2>2. CASE EntryOf(j, found, id) = first
    <3>1. first[1] = found[id].arrival + Len(j.route) - found[id].frame
      BY <2>2 DEF EntryOf, Entry
    <3> QED BY <1>2, <3>1
  <2> QED BY <1>3, <2>1, <2>2
<1>4. \A id \in 2..Len(found) :
         /\ EntryOf(j, found, found[id].parent) \notin open \ {first}
         /\ LeavesFirst(j, found[found[id].parent], found[id])
  BY <1>1 DEF Settled
<1> QED BY <1>1, <1>3, <1>4 DEF Settled

LEMMA IndexCountsNodes ==
  ASSUME NEW found, NEW known, Indexed(found, known)
  PROVE  Len(found) = Cardinality(DOMAIN known)
<1>1. PICK m \in Nat : m = Len(found)
  BY DEF Indexed
<1>2. PICK key : key = [id \in 1..m |-> KeyOf(found[id])]
  OBVIOUS
<1>3. PICK K : K = DOMAIN known
  OBVIOUS
<1>4. /\ K = {key[id] : id \in 1..m}
      /\ \A a, b \in 1..m : key[a] = key[b] => a = b
  BY <1>1, <1>2, <1>3 DEF Indexed
<1>5. key \in Bijection(1..m, K)
  <2>1. key \in [1..m -> K]
    BY <1>2, <1>4
  <2>2. \A x \in K : \E id \in 1..m : key[id] = x
    BY <1>4
  <2> QED BY <1>4, <2>1, <2>2, Zenon DEF Bijection, Injection, Surjection, IsInjective
<1>6. IsFiniteSet(1..m) /\ Cardinality(1..m) = m
  BY FS_Interval
<1>7. Cardinality(K) = m
  BY <1>5, <1>6, FS_Bijection, Zenon DEF ExistsBijection
<1> QED BY <1>1, <1>3, <1>7

-----------------------------------------------------------------------------
(* Nothing is missed.  What a tick-by-tick search could reach, the nodes   *)
(* cover: whenever the robot can be at a frame, some node has arrived in   *)
(* the interval it is in, or in the one its move began in, before.         *)
LEMMA ReachableExact ==
  ASSUME NEW j, IsRoute(j.route), NEW last \in Nat, NEW R, R = Reachable(j, last)
  PROVE  /\ \A g : g \in R[1] <=> g = 1 /\ Free(j, 1, 0)
         /\ \A t \in 1..last : \A g :
              g \in R[t + 1] <=> g \in DOMAIN j.route /\ \E f \in R[t] : MayStep(j, f, g, t - 1)
<1>1. PICK V : V = Seq(SUBSET Int)
  OBVIOUS
<1>2. DOMAIN j.route \in SUBSET Int
  BY DEF IsRoute
<1>3. PICK first : first = {f \in {1} : Free(j, 1, 0)}
  OBVIOUS
<1> DEFINE Onward(before, t) == {g \in DOMAIN j.route : \E f \in before[t] : MayStep(j, f, g, t - 1)}
           Grow(t, before) == Append(before, Onward(before, t))
<1>4. ASSUME NEW t \in 1..last, NEW before \in V
      PROVE  Grow(t, before) \in V
  <2>1. Onward(before, t) \in SUBSET Int
    BY <1>2
  <2> HIDE DEF Onward
  <2> QED BY <1>1, <2>1
<1>5. PICK next : next = [t \in 1..last |-> [before \in V |-> Grow(t, before)]]
  OBVIOUS
<1>6. next \in [1..last -> [V -> V]]
  <2> HIDE DEF Grow
  <2> QED BY <1>4, <1>5
<1>7. PICK parent : parent = [t \in 1..last |-> t - 1]
  OBVIOUS
<1>8. PICK root \in V : root = << first >>
  <2>1. << first >> \in Seq(SUBSET Int)
    BY <1>3
  <2> QED BY <1>1, <2>1
<1>9. PICK f \in [0..last -> V] :
        /\ f[0] = root
        /\ \A t \in 1..last : f[t] = next[t][f[parent[t]]]
  <2>1. PICK a, m \in Int : a = 0 /\ m = last
    OBVIOUS
  <2>2. a <= m /\ next \in [(a + 1)..m -> [V -> V]]
    BY <1>6, <2>1
  <2>3. \A t \in (a + 1)..m : parent[t] \in a..(t - 1)
    BY <1>7, <2>1
  <2>4. PICK f \in [a..m -> V] : IsRecursive(f, a, m, root, parent, next)
    BY <2>2, <2>3, TreeRecursion
  <2> QED BY <2>1, <2>4 DEF IsRecursive
<1>10. ASSUME NEW t \in 1..last
       PROVE  f[t] = Grow(t, f[t - 1])
  <2>1. t - 1 \in 0..last /\ parent[t] = t - 1
    BY <1>7
  <2>2. f[t - 1] \in V
    BY <2>1
  <2> HIDE DEF Grow
  <2> QED BY <1>5, <1>9, <2>1, <2>2
<1>11. f = [t \in 0..last |-> IF t = 0 THEN << first >> ELSE Grow(t, f[t - 1])]
  <2>1. \A t \in 0..last : t # 0 => t \in 1..last
    OBVIOUS
  <2> HIDE DEF Grow
  <2> QED BY <1>8, <1>9, <1>10, <2>1
<1> DEFINE sets == CHOOSE g : g = [t \in 0..last |-> IF t = 0 THEN << {x \in {1} : Free(j, 1, 0)} >>
                                                     ELSE Grow(t, g[t - 1])]
<1>12. sets = [t \in 0..last |-> IF t = 0 THEN << {x \in {1} : Free(j, 1, 0)} >>
                                 ELSE Grow(t, sets[t - 1])]
  <2>1. f = [t \in 0..last |-> IF t = 0 THEN << {x \in {1} : Free(j, 1, 0)} >>
                               ELSE Grow(t, f[t - 1])]
    <3> HIDE DEF Grow
    <3> QED BY <1>3, <1>11, Zenon
  <2> HIDE DEF Grow
  <2> QED BY <2>1, Zenon
<1>13. R = sets[last]
  BY Zenon DEF Reachable
<1> HIDE DEF sets
<1>14. PICK s : s = sets
  OBVIOUS
<1>15. s[0] = << first >> /\ \A t \in 1..last : s[t] = Grow(t, s[t - 1])
  <2> HIDE DEF Grow
  <2>1. \A t \in 1..last : t \in 0..last /\ t # 0
    OBVIOUS
  <2>2. 0 \in 0..last
    OBVIOUS
  <2> QED BY <1>3, <1>12, <1>14, <2>1, <2>2
<1> HIDE DEF Onward
<1> DEFINE Exact(t) ==
             /\ s[t] \in V /\ Len(s[t]) = t + 1 /\ s[t][1] = first
             /\ \A k \in 1..t : s[t][k + 1] = Onward(s[t], k)
<1>16. ASSUME NEW D, D = {t \in 0..last : ~Exact(t)}, D # {}
       PROVE  FALSE
  <2>1. D \in SUBSET Nat
    BY <1>16
  <2>2. PICK d \in D : \A k \in D : d <= k
    BY <1>16, <2>1, LeastNatural
  <2>3. d \in 0..last /\ ~Exact(d)
    BY <1>16, <2>2
  <2>4. d # 0
    <3>1. Exact(0)
      BY <1>8, <1>15
    <3> QED BY <2>3, <3>1
  <2>5. d \in 1..last /\ d - 1 \in 0..last /\ ~(d <= d - 1)
    BY <2>3, <2>4
  <2>6. Exact(d - 1)
    <3> HIDE DEF Exact
    <3> QED BY <1>16, <2>2, <2>5
  <2>7. PICK e, before : e \in 0..last /\ e = d - 1 /\ before = s[e] /\ e + 1 = d
    BY <2>5
  <2>8. PICK O : O = Onward(before, d)
    OBVIOUS
  <2>9. /\ before \in V /\ Len(before) = d /\ before[1] = first
        /\ \A k \in 1..e : before[k + 1] = Onward(before, k)
    BY <2>6, <2>7
  <2>10. O \in SUBSET Int
    BY <1>2, <2>8 DEF Onward
  <2>11. PICK now : now = Append(before, O)
    OBVIOUS
  <2>12. s[d] = now
    BY <1>15, <2>5, <2>7, <2>8, <2>11
  <2>13. /\ now \in V /\ Len(now) = d + 1 /\ now[d + 1] = O
         /\ \A k \in 1..d : now[k] = before[k]
    BY <1>1, <2>9, <2>10, <2>11
  <2>14. \A k \in 1..d : Onward(now, k) = Onward(before, k)
    BY <2>13 DEF Onward
  <2>15. ASSUME NEW k \in 1..d
         PROVE  now[k + 1] = Onward(now, k)
    <3>1. CASE k = d
      BY <2>5, <2>8, <2>13, <2>14, <3>1
    <3>2. CASE k # d
      <4>1. k \in 1..e /\ k + 1 \in 1..d
        BY <2>7, <3>2
      <4> QED BY <2>9, <2>13, <2>14, <4>1
    <3> QED BY <3>1, <3>2
  <2>16. now[1] = first
    BY <2>5, <2>9, <2>13
  <2>17. Exact(d)
    BY <2>12, <2>13, <2>15, <2>16
  <2> QED BY <2>3, <2>17
<1>17. Exact(last)
  <2> HIDE DEF Exact
  <2>1. last \in 0..last
    OBVIOUS
  <2> QED BY <1>16, <2>1
<1>18. R = s[last]
  BY <1>13, <1>14
<1>19. R[1] = first /\ \A t \in 1..last : R[t + 1] = Onward(R, t)
  BY <1>17, <1>18
<1>20. \A g : g \in first <=> g = 1 /\ Free(j, 1, 0)
  BY <1>3
<1>21. ASSUME NEW t \in 1..last, NEW g
       PROVE  g \in R[t + 1] <=> g \in DOMAIN j.route /\ \E x \in R[t] : MayStep(j, x, g, t - 1)
  <2>1. R[t + 1] = Onward(R, t)
    BY <1>19
  <2> QED BY <2>1, Zenon DEF Onward
<1> QED BY <1>19, <1>20, <1>21

(* Waiting where it is safe does not leave the interval.                   *)
LEMMA WaitStaysInside ==
  ASSUME NEW j, Prepared(j), NEW f \in 1..Len(j.route), NEW i \in j.safe[f],
         NEW t \in i.begin..i.end, t < j.horizon, Passable(j, f, f, t)
  PROVE  t + 1 <= i.end
<1>1. PICK S : S = j.safe[f]
  OBVIOUS
<1>2. IsCall(j.route, j.tracks, j.horizon) /\ S = SafeIntervals(j.route, f, j.tracks, j.horizon)
  BY <1>1 DEF Prepared
<1>3. \A k \in S : \A u \in k.begin..k.end :
        u < j.horizon /\ Passable(j, f, f, u) => u + 1 <= k.end
  BY <1>2, SafeIntervalsExact
<1> QED BY <1>1, <1>3

LEMMA FreeIsSafe ==
  ASSUME NEW j, Prepared(j), NEW f \in 1..Len(j.route), NEW t \in 0..j.horizon, Free(j, f, t)
  PROVE  \E i \in j.safe[f] : i.begin <= t /\ t <= i.end
<1>1. PICK S : S = j.safe[f]
  OBVIOUS
<1>2. IsCall(j.route, j.tracks, j.horizon) /\ S = SafeIntervals(j.route, f, j.tracks, j.horizon)
  BY <1>1 DEF Prepared
<1>3. \A u \in 0..j.horizon : Free(j, f, u) => \E i \in S : i.begin <= u /\ u <= i.end
  BY <1>2, SafeIntervalsExact
<1> QED BY <1>1, <1>3

(* A move that meets nobody on its way is not blocked.                     *)
LEMMA ClearIsNotBlocked ==
  ASSUME NEW j, Prepared(j), NEW f \in 1..(Len(j.route) - 1), NEW next, next = j.edges[f].next,
         NEW d \in Nat, \A g \in f..(next - 1) : Passable(j, g, g + 1, d + g - f)
  PROVE  d \notin Ticks(j.edges[f].blocked)
<1>1. PICK n \in Nat \ {0}, h \in Nat : n = Len(j.route) /\ h = j.horizon
  BY DEF Prepared, IsCall, IsRoute
<1>2. next \in (f + 1)..n
  BY <1>1, MoveFacts
<1>3. PICK B : B = MoveBlocked(j, f, next)
  OBVIOUS
<1>4. j.edges[f].blocked = B
  <2>1. j.edges[f] = MacroEdge(j, f)
    BY DEF Prepared
  <2> QED BY <1>3, <2>1 DEF MacroEdge
<1>5. ASSUME NEW g \in 1..(n - 1)
      PROVE  /\ Bounded(j.advance[g], 0, h - 1)
             /\ \A t \in 0..(h - 1) : t \in Ticks(j.advance[g]) <=> ~Passable(j, g, g + 1, t)
  <2>1. IsCall(j.route, j.tracks, j.horizon) /\ j.advance[g] = BlockedAdvance(j.route, g, j.tracks, j.horizon)
    BY <1>1 DEF Prepared
  <2> QED BY <1>1, <2>1, AdvanceExact
<1>6. f \in Int /\ next \in Int /\ f < next /\ f..(next - 1) \subseteq 1..(n - 1)
  BY <1>1, <1>2
<1>7. \A t \in Ticks(B) : \E g \in f..(next - 1) : t + g - f \in Ticks(j.advance[g])
  <2>1. \A g \in f..(next - 1) : Bounded(j.advance[g], 0, j.horizon - 1)
    BY <1>1, <1>5, <1>6
  <2>2. j.horizon \in Nat /\ f \in Int /\ next \in Int /\ f < next
    BY <1>1, <1>6
  <2>3. BlockedUnderway(j, f, next, B)
    BY <1>3, <2>1, <2>2, MoveBlockedExact
  <2> QED BY <2>3, Zenon DEF BlockedUnderway
<1>8. ASSUME d \in Ticks(B)
      PROVE  FALSE
  <2>1. PICK g \in f..(next - 1) : d + g - f \in Ticks(j.advance[g])
    BY <1>7, <1>8
  <2>2. g \in 1..(n - 1)
    BY <1>6
  <2>3. PICK t : t = d + g - f
    OBVIOUS
  <2>4. PICK A : A = j.advance[g]
    OBVIOUS
  <2>5. \A a \in A : a.begin \in Int /\ a.end \in Int /\ 0 <= a.begin /\ a.end <= h - 1
    BY <1>5, <2>2, <2>4 DEF Bounded
  <2>6. t \in Ticks(A)
    BY <2>1, <2>3, <2>4
  <2>7. t \in Int /\ \E a \in A : a.begin <= t /\ t <= a.end
    BY <2>5, <2>6, InTicks
  <2>8. t \in 0..(h - 1)
    BY <2>5, <2>7
  <2>9. ~Passable(j, g, g + 1, t)
    BY <1>5, <2>2, <2>4, <2>6, <2>8
  <2> QED BY <2>1, <2>3, <2>9
<1> QED BY <1>4, <1>8

(* A node taken from the queue has answered for every way on from it: for  *)
(* each departure and each interval it leads to there is a node that has   *)
(* arrived by then.  One at the end of the route was taken without parking.*)
Explored(j, found, p) ==
  /\ p.frame = Len(j.route) => p.interval.end # j.horizon
  /\ p.frame < Len(j.route) =>
       \A d \in Int : \A to \in j.safe[j.edges[p.frame].next] :
         /\ p.arrival <= d /\ d <= p.interval.end /\ d \notin Ticks(j.edges[p.frame].blocked)
         /\ to.begin <= d + j.edges[p.frame].next - p.frame
         /\ d + j.edges[p.frame].next - p.frame <= to.end
         => \E id \in 1..Len(found) :
              /\ KeyOf(found[id]) = <<j.edges[p.frame].next, to>>
              /\ found[id].arrival <= d + j.edges[p.frame].next - p.frame

(* At frame g at tick t, in the interval of node n or on the move from it. *)
CoveredBy(j, n, g, t) ==
  /\ n.frame <= g /\ n.arrival <= t - (g - n.frame) /\ t - (g - n.frame) <= n.interval.end
  /\ g = n.frame \/ (n.frame < Len(j.route) /\ g < j.edges[n.frame].next)
  /\ \A x \in n.frame..(g - 1) : Passable(j, x, x + 1, t - (g - x))

Covered(j, found, g, t) == \E id \in 1..Len(found) : CoveredBy(j, found[id], g, t)

LEMMA ArrivalFacts ==
  ASSUME NEW j, Prepared(j), NEW n, IsArrival(j, n)
  PROVE  /\ n.frame \in 1..Len(j.route) /\ n.interval \in j.safe[n.frame]
         /\ n.interval.begin \in Int /\ n.interval.end \in Int /\ n.arrival \in Int
         /\ 0 <= n.interval.begin /\ n.interval.begin <= n.arrival
         /\ n.arrival <= n.interval.end /\ n.interval.end <= j.horizon
<1>1. n.frame \in 1..Len(j.route) /\ n.interval \in j.safe[n.frame]
  BY DEF IsArrival
<1>2. /\ n.interval.begin \in Int /\ n.interval.end \in Int
      /\ 0 <= n.interval.begin /\ n.interval.end <= j.horizon
  BY <1>1, IntervalFacts
<1> QED BY <1>1, <1>2 DEF IsArrival

(* A robot that is covered and waits is covered by the same node.          *)
LEMMA WaitIsCovered ==
  ASSUME NEW j, Prepared(j), NEW n, IsArrival(j, n),
         NEW g \in 1..Len(j.route), NEW t \in Nat, t < j.horizon, CoveredBy(j, n, g, t),
         ~InTransit(j.route[g]), Passable(j, g, g, t)
  PROVE  CoveredBy(j, n, g, t + 1)
<1>1. PICK N \in Nat \ {0} : N = Len(j.route) /\ IsRoute(j.route)
  BY DEF Prepared, IsCall, IsRoute
<1>2. PICK f \in 1..N : f = n.frame
  BY <1>1, ArrivalFacts
<1>3. g = f
  <2> SUFFICES ASSUME g # f PROVE FALSE
    OBVIOUS
  <2>1. f \in 1..(N - 1) /\ g < j.edges[f].next /\ f <= g
    BY <1>1, <1>2 DEF CoveredBy
  <2>2. g \in (f + 1)..N
    BY <1>1, <2>1
  <2>3. MoveEnd(j.route, f) <= g
    BY <1>1, <2>1, <2>2, MoveEndIsFirst
  <2>4. j.edges[f].next = MoveEnd(j.route, f)
    <3>1. j.edges[f] = MacroEdge(j, f)
      BY <1>1, <2>1 DEF Prepared
    <3> QED BY <3>1 DEF MacroEdge
  <2>5. MoveEnd(j.route, f) \in Int
    BY <1>1, <2>1, MoveEndExact
  <2> QED BY <1>1, <2>1, <2>3, <2>4, <2>5
<1>4. PICK b \in Int, e \in Int, a \in Int : b = n.interval.begin /\ e = n.interval.end /\ a = n.arrival
  BY ArrivalFacts
<1>5. g - f = 0
  BY <1>1, <1>3
<1>6. b <= a /\ a <= t /\ t <= e
  BY <1>2, <1>4, <1>5, ArrivalFacts DEF CoveredBy
<1>7. t + 1 <= e
  <2>1. t \in b..e
    BY <1>6
  <2>2. f \in 1..Len(j.route) /\ n.interval \in j.safe[f]
    BY <1>1, <1>2, ArrivalFacts
  <2> QED BY <1>3, <1>4, <2>1, <2>2, WaitStaysInside
<1>8. f..(g - 1) = {}
  BY <1>1, <1>3
<1>9. a <= (t + 1) - (g - f) /\ (t + 1) - (g - f) <= e
  BY <1>5, <1>6, <1>7
<1> QED BY <1>2, <1>3, <1>4, <1>8, <1>9 DEF CoveredBy

(* One that moves on is covered by the same node, or by one that this node *)
(* has answered with.                                                      *)
LEMMA MoveIsCovered ==
  ASSUME NEW j, Prepared(j), NEW found, IsTree(j, found), NEW id \in 1..Len(found),
         NEW g \in 1..(Len(j.route) - 1), NEW t \in Nat, t < j.horizon,
         CoveredBy(j, found[id], g, t), Passable(j, g, g + 1, t),
         Explored(j, found, found[id])
  PROVE  Covered(j, found, g + 1, t + 1)
<1>1. PICK N \in Nat \ {0}, h \in Nat : N = Len(j.route) /\ h = j.horizon
  BY DEF Prepared, IsCall, IsRoute
<1>2. PICK n : n = found[id]
  OBVIOUS
<1>3. IsArrival(j, n)
  BY <1>2 DEF IsTree
<1>4. PICK f \in 1..N : f = n.frame
  BY <1>1, <1>3, ArrivalFacts
<1>5. PICK e \in Int, a \in Int : e = n.interval.end /\ a = n.arrival /\ 0 <= a /\ e <= h
  <2>1. /\ n.interval.begin \in Int /\ n.interval.end \in Int /\ n.arrival \in Int
        /\ 0 <= n.interval.begin /\ n.interval.begin <= n.arrival /\ n.interval.end <= h
    BY <1>1, <1>3, ArrivalFacts
  <2> QED BY <2>1
<1>6. /\ f <= g /\ a <= t - (g - f) /\ t - (g - f) <= e
      /\ \A x \in f..(g - 1) : Passable(j, x, x + 1, t - (g - x))
  BY <1>2, <1>4, <1>5 DEF CoveredBy
<1>7. f \in 1..(N - 1)
  BY <1>1, <1>6
<1>8. PICK next \in (f + 1)..N : next = j.edges[f].next
  BY <1>1, <1>7, MoveFacts
<1>9. g < next
  BY <1>1, <1>2, <1>4, <1>8 DEF CoveredBy
<1>10. PICK d \in Nat : d = t - (g - f)
  BY <1>1, <1>5, <1>6
<1>11. ASSUME NEW x \in f..g
       PROVE  Passable(j, x, x + 1, (t + 1) - (g + 1 - x))
  <2>1. (t + 1) - (g + 1 - x) = t - (g - x)
    BY <1>1
  <2>2. CASE x \in f..(g - 1)
    BY <1>6, <2>1, <2>2
  <2>3. CASE x = g
    <3>1. t - (g - x) = t
      BY <1>1, <2>3
    <3> QED BY <2>1, <2>3, <3>1
  <2>4. x \in f..(g - 1) \/ x = g
    BY <1>1
  <2> QED BY <2>2, <2>3, <2>4
<1>12. (t + 1) - (g + 1 - f) = d /\ a <= d /\ d <= e
  BY <1>1, <1>6, <1>10
<1>13. (g + 1) - 1 = g /\ f <= g + 1
  BY <1>1, <1>6
<1>14. CASE g + 1 < next
  <2>1. PICK u \in Int, v \in Int : u = g + 1 /\ v = t + 1
    OBVIOUS
  <2>2. \A x \in f..(u - 1) : Passable(j, x, x + 1, v - (u - x))
    BY <1>11, <1>13, <2>1
  <2>3. f <= u /\ a <= v - (u - f) /\ v - (u - f) <= e
    BY <1>12, <1>13, <2>1
  <2>4. f < Len(j.route) /\ u < j.edges[f].next
    BY <1>1, <1>7, <1>8, <1>14, <2>1
  <2>5. /\ n.frame <= u /\ n.arrival <= v - (u - n.frame) /\ v - (u - n.frame) <= n.interval.end
        /\ n.frame < Len(j.route) /\ u < j.edges[n.frame].next
        /\ \A x \in n.frame..(u - 1) : Passable(j, x, x + 1, v - (u - x))
    BY <1>4, <1>5, <2>2, <2>3, <2>4
  <2>6. CoveredBy(j, n, u, v)
    BY <2>5, Zenon DEF CoveredBy
  <2> QED BY <1>2, <2>1, <2>6 DEF Covered
<1>15. CASE g + 1 = next
  <2>1. d \notin Ticks(j.edges[f].blocked)
    <3>1. next - 1 = g
      BY <1>13, <1>15
    <3>2. ASSUME NEW x \in f..g
          PROVE  Passable(j, x, x + 1, d + x - f)
      <4>1. (t + 1) - (g + 1 - x) = d + x - f
        BY <1>1, <1>10
      <4> QED BY <1>11, <4>1
    <3> QED BY <1>1, <1>7, <1>8, <3>1, <3>2, ClearIsNotBlocked
  <2>2. PICK to \in j.safe[next] : to.begin <= t + 1 /\ t + 1 <= to.end
    <3>1. Free(j, next, t + 1)
      BY <1>15 DEF Passable
    <3>2. t + 1 \in 0..j.horizon /\ next \in 1..Len(j.route)
      <4>1. t < h /\ t + 1 \in 0..h
        BY <1>1
      <4>2. next \in 1..N
        BY <1>8
      <4> QED BY <1>1, <4>1, <4>2
    <3> QED BY <3>1, <3>2, FreeIsSafe
  <2>3. d + next - f = t + 1
    BY <1>1, <1>10, <1>15
  <2>4. PICK k \in 1..Len(found) : KeyOf(found[k]) = <<next, to>> /\ found[k].arrival <= t + 1
    <3>1. n.frame < Len(j.route)
      BY <1>1, <1>4, <1>7
    <3>2. \A u \in Int : \A v \in j.safe[next] :
            /\ a <= u /\ u <= e /\ u \notin Ticks(j.edges[f].blocked)
            /\ v.begin <= u + next - f /\ u + next - f <= v.end
            => \E k \in 1..Len(found) :
                 KeyOf(found[k]) = <<next, v>> /\ found[k].arrival <= u + next - f
      BY <1>2, <1>4, <1>5, <1>8, <3>1 DEF Explored
    <3> QED BY <1>12, <2>1, <2>2, <2>3, <3>2
  <2>5. found[k].frame = next /\ found[k].interval = to
    BY <2>4 DEF KeyOf
  <2>6. next..(next - 1) = {} /\ (t + 1) - (next - next) = t + 1 /\ next <= next
    <3>1. PICK x \in Int : x = next
      BY <1>8
    <3>2. x..(x - 1) = {}
      OBVIOUS
    <3>3. (t + 1) - (x - x) = t + 1 /\ x <= x
      OBVIOUS
    <3> QED BY <3>1, <3>2, <3>3
  <2>7. /\ found[k].arrival <= (t + 1) - (next - next)
        /\ (t + 1) - (next - next) <= found[k].interval.end
    BY <2>2, <2>4, <2>5, <2>6
  <2>8. CoveredBy(j, found[k], next, t + 1)
    BY <2>5, <2>6, <2>7 DEF CoveredBy
  <2> QED BY <1>15, <2>8 DEF Covered
<1>16. g + 1 < next \/ g + 1 = next
  BY <1>8, <1>9
<1> QED BY <1>14, <1>15, <1>16

(* All nodes that promise to finish by tick t have been answered for.      *)
ExploredBy(j, found, t) ==
  \A id \in 1..Len(found) :
    found[id].arrival + Len(j.route) - found[id].frame <= t => Explored(j, found, found[id])

LEMMA ReachableIsCovered ==
  ASSUME NEW j, Prepared(j), NEW found, IsTree(j, found),
         NEW last \in Nat, NEW tf \in 0..j.horizon, tf <= last, ExploredBy(j, found, tf),
         NEW R, R = Reachable(j, last)
  PROVE  \A t \in 0..tf : \A g \in R[t + 1] :
           g \in 1..Len(j.route) /\ (t + Len(j.route) - g <= tf => Covered(j, found, g, t))
<1>1. PICK N \in Nat \ {0}, h \in Nat :
        N = Len(j.route) /\ h = j.horizon /\ IsRoute(j.route) /\ DOMAIN j.route = 1..N
  BY DEF Prepared, IsCall, IsRoute
<1>2. /\ \A g : g \in R[1] <=> g = 1 /\ Free(j, 1, 0)
      /\ \A t \in 1..last : \A g :
           g \in R[t + 1] <=> g \in 1..N /\ \E f \in R[t] : MayStep(j, f, g, t - 1)
  <2>1. /\ \A g : g \in R[1] <=> g = 1 /\ Free(j, 1, 0)
        /\ \A t \in 1..last : \A g :
             g \in R[t + 1] <=> g \in DOMAIN j.route /\ \E f \in R[t] : MayStep(j, f, g, t - 1)
    BY <1>1, ReachableExact
  <2> QED BY <1>1, <2>1
<1> DEFINE Good(t) == \A g \in R[t + 1] :
                        g \in 1..N /\ (t + N - g <= tf => Covered(j, found, g, t))
<1>3. Good(0)
  <2>1. \A g \in R[1] : g = 1
    BY <1>2
  <2>2. CoveredBy(j, found[1], 1, 0)
    <3>1. PICK n : n = found[1]
      OBVIOUS
    <3>2. n.frame = 1 /\ n.arrival = 0 /\ IsArrival(j, n)
      BY <3>1 DEF IsTree
    <3>3. n.interval.end \in Int /\ n.arrival <= n.interval.end
      BY <3>2, ArrivalFacts
    <3>4. 0 - (1 - 1) = 0 /\ 1..(1 - 1) = {}
      OBVIOUS
    <3> QED BY <3>1, <3>2, <3>3, <3>4 DEF CoveredBy
  <2>3. 1 \in 1..Len(found) /\ 1 \in 1..N
    BY <1>1 DEF IsTree
  <2>4. Covered(j, found, 1, 0)
    BY <2>2, <2>3 DEF Covered
  <2> QED BY <2>1, <2>3, <2>4
<1>4. ASSUME NEW t \in 1..tf, Good(t - 1)
      PROVE  Good(t)
  <2>1. PICK s \in 0..tf : s = t - 1 /\ s < h /\ s + 1 = t /\ t \in 1..last
    BY <1>1
  <2> SUFFICES ASSUME NEW g \in R[t + 1]
               PROVE  g \in 1..N /\ (t + N - g <= tf => Covered(j, found, g, t))
    OBVIOUS
  <2>2. g \in 1..N
    BY <1>2, <2>1
  <2>3. PICK f \in R[t] : MayStep(j, f, g, t - 1)
    BY <1>2, <2>1
  <2>4. f \in 1..N /\ (s + N - f <= tf => Covered(j, found, f, s))
    <3>1. \A x \in R[s + 1] : x \in 1..N /\ (s + N - x <= tf => Covered(j, found, x, s))
      BY <1>4, <2>1
    <3> QED BY <2>1, <2>3, <3>1
  <2>5. SUFFICES ASSUME t + N - g <= tf PROVE Covered(j, found, g, t)
    BY <2>2
  <2>6. MayStep(j, f, g, s)
    BY <2>1, <2>3
  <2>7. CASE g = f + 1
    <3>1. s + N - f <= tf
      BY <1>1, <2>1, <2>4, <2>5, <2>7
    <3>2. PICK id \in 1..Len(found) : CoveredBy(j, found[id], f, s)
      BY <2>4, <3>1 DEF Covered
    <3>3. f \in 1..(Len(j.route) - 1)
      BY <1>1, <2>2, <2>4, <2>7
    <3>4. Explored(j, found, found[id])
      <4>1. IsArrival(j, found[id])
        BY DEF IsTree
      <4>2. PICK a \in Int, x \in Int : a = found[id].arrival /\ x = found[id].frame
        BY <1>1, <4>1, ArrivalFacts
      <4>3. a <= s - (f - x)
        BY <3>2, <4>2 DEF CoveredBy
      <4>4. a + N - x <= tf
        <5>1. PICK y \in Int, u \in Int, v \in Int : y = f /\ u = s /\ v = tf
          BY <1>1, <2>1, <2>4
        <5>2. u + N - y <= v /\ a <= u - (y - x)
          BY <3>1, <4>3, <5>1
        <5>3. a + N - x <= v
          BY <5>2
        <5> QED BY <5>1, <5>3
      <4> QED BY <1>1, <4>2, <4>4 DEF ExploredBy
    <3>5. Passable(j, f, f + 1, s)
      BY <2>6, <2>7 DEF MayStep
    <3>6. s \in Nat /\ s < j.horizon
      BY <1>1, <2>1
    <3>7. Covered(j, found, f + 1, s + 1)
      BY <3>2, <3>3, <3>4, <3>5, <3>6, MoveIsCovered
    <3> QED BY <2>1, <2>7, <3>7
  <2>8. CASE g # f + 1
    <3>1. g = f /\ ~InTransit(j.route[g]) /\ Passable(j, g, g, s)
      BY <2>6, <2>8 DEF MayStep
    <3>2. s + N - f <= tf
      BY <1>1, <2>1, <2>4, <2>5, <3>1
    <3>3. PICK id \in 1..Len(found) : CoveredBy(j, found[id], g, s)
      BY <2>4, <3>1, <3>2 DEF Covered
    <3>4. IsArrival(j, found[id])
      BY DEF IsTree
    <3>5. s \in Nat /\ s < j.horizon /\ g \in 1..Len(j.route)
      BY <1>1, <2>1, <2>2
    <3>6. CoveredBy(j, found[id], g, s + 1)
      BY <3>1, <3>3, <3>4, <3>5, WaitIsCovered
    <3> QED BY <2>1, <3>6 DEF Covered
  <2> QED BY <2>7, <2>8
<1>5. ASSUME NEW D, D = {t \in 0..tf : ~Good(t)}, D # {}
      PROVE  FALSE
  <2> HIDE DEF Good
  <2>1. D \in SUBSET Nat
    BY <1>5
  <2>2. PICK d \in D : \A k \in D : d <= k
    BY <1>5, <2>1, LeastNatural
  <2>3. d \in 0..tf /\ ~Good(d)
    BY <1>5, <2>2
  <2>4. d # 0
    BY <1>3, <2>3
  <2>5. d \in 1..tf /\ d - 1 \in 0..tf /\ ~(d <= d - 1)
    BY <2>3, <2>4
  <2>6. Good(d - 1)
    BY <1>5, <2>2, <2>5
  <2> QED BY <1>4, <2>3, <2>5, <2>6
<1>6. \A t \in 0..tf : Good(t)
  <2> HIDE DEF Good
  <2> QED BY <1>5
<1> QED BY <1>1, <1>6

(* So the robot cannot finish at a tick all nodes that promise to finish by*)
(* then have been answered for.                                            *)
LEMMA NoFinishAt ==
  ASSUME NEW j, Prepared(j), NEW found, IsTree(j, found),
         NEW tf \in 0..j.horizon, ExploredBy(j, found, tf)
  PROVE  tf \notin Finishes(j, 2 * j.horizon)
<1>1. PICK N \in Nat \ {0}, h \in Nat : N = Len(j.route) /\ h = j.horizon
  BY DEF Prepared, IsCall, IsRoute
<1>2. PICK last \in Nat : last = 2 * h
  OBVIOUS
<1>20. PICK R : R = Reachable(j, last)
  OBVIOUS
<1> SUFFICES ASSUME tf \in Finishes(j, last) PROVE FALSE
  BY <1>1, <1>2
<1>3. N \in R[tf + 1] /\ MayPark(j, tf, last)
  BY <1>1, <1>20, Zenon DEF Finishes
<1>4. Covered(j, found, N, tf)
  <2>1. tf <= last /\ tf \in 0..tf /\ tf + N - N <= tf
    BY <1>1, <1>2
  <2>2. \A t \in 0..tf : \A g \in R[t + 1] :
          g \in 1..Len(j.route) /\ (t + Len(j.route) - g <= tf => Covered(j, found, g, t))
    BY <1>20, <2>1, ReachableIsCovered
  <2> QED BY <1>1, <1>3, <2>1, <2>2
<1>5. PICK id \in 1..Len(found) : CoveredBy(j, found[id], N, tf)
  BY <1>4 DEF Covered
<1>6. PICK n : n = found[id] /\ IsArrival(j, n)
  BY DEF IsTree
<1>7. PICK f \in 1..N : f = n.frame
  BY <1>1, <1>6, ArrivalFacts
<1>8. f = N
  <2> SUFFICES ASSUME f # N PROVE FALSE
    OBVIOUS
  <2>1. f \in 1..(N - 1) /\ N < j.edges[f].next
    BY <1>1, <1>5, <1>6, <1>7 DEF CoveredBy
  <2>2. j.edges[f].next \in (f + 1)..N
    BY <1>1, <2>1, MoveFacts
  <2> QED BY <2>1, <2>2
<1>9. PICK b \in Int, e \in Int, a \in Int :
        /\ b = n.interval.begin /\ e = n.interval.end /\ a = n.arrival
        /\ b <= a /\ e <= h
  BY <1>1, <1>6, ArrivalFacts
<1>10. a <= tf /\ tf <= e
  <2>1. a <= tf - (N - f) /\ tf - (N - f) <= e
    BY <1>5, <1>6, <1>7, <1>9 DEF CoveredBy
  <2> QED BY <1>8, <2>1
<1>11. e # h
  <2>1. a + N - f <= tf
    BY <1>8, <1>9, <1>10
  <2>2. Explored(j, found, n)
    BY <1>1, <1>6, <1>7, <1>9, <2>1 DEF ExploredBy
  <2> QED BY <1>1, <1>7, <1>8, <1>9, <2>2 DEF Explored
<1>12. e < h /\ e \in b..e /\ e \in tf..(last - 1)
  <2>1. e < h /\ b <= e
    BY <1>9, <1>10, <1>11
  <2>2. tf \in Int
    BY <1>1
  <2>3. e <= last - 1
    BY <1>2, <2>1
  <2> QED BY <1>2, <1>10, <2>1, <2>2, <2>3
<1>13. Passable(j, N, N, e)
  BY <1>1, <1>3, <1>12 DEF MayPark
<1>14. n.interval \in j.safe[N] /\ N \in 1..Len(j.route)
  BY <1>1, <1>6, <1>7, <1>8, ArrivalFacts
<1>15. e + 1 <= e
  BY <1>1, <1>9, <1>12, <1>13, <1>14, WaitStaysInside
<1> QED BY <1>15

(* Every node taken from the queue has been answered for.                  *)
AllExplored(j, found, queue) ==
  \A id \in 1..Len(found) :
    EntryOf(j, found, id) \notin queue => Explored(j, found, found[id])

LEMMA GrowingKeepsExplored ==
  ASSUME NEW j, NEW found, NEW grown, Len(found) \in Nat, Len(grown) \in Nat,
         Len(found) <= Len(grown), \A id \in 1..Len(found) : grown[id] = found[id],
         NEW p, Explored(j, found, p)
  PROVE  Explored(j, grown, p)
<1>1. \A id \in 1..Len(found) : id \in 1..Len(grown)
  OBVIOUS
<1>2. ASSUME NEW key, NEW t, \E id \in 1..Len(found) : KeyOf(found[id]) = key /\ found[id].arrival <= t
      PROVE  \E id \in 1..Len(grown) : KeyOf(grown[id]) = key /\ grown[id].arrival <= t
  BY <1>1, <1>2
<1> QED BY <1>2 DEF Explored

(* What an expansion finds and what was known before answer for all ways on*)
(* from the node it takes.                                                 *)
LEMMA ExpandExplores ==
  ASSUME Prepared(job), IsTree(job, nodes), open \subseteq EntriesOf(job, nodes),
         Indexed(nodes, best), Expand, NEW N \in Nat, NEW new, Adds(N, new)
  PROVE  Explored(job, nodes', Current)
<1>1. PICK j, found, known, p : j = job /\ found = nodes /\ known = best /\ p = Current
  OBVIOUS
<1>2. PICK n \in Nat \ {0}, m \in Nat : n = Len(j.route) /\ m = Len(found)
  BY <1>1 DEF Prepared, IsCall, IsRoute, IsTree
<1>3. open # {} /\ p.frame < n
  BY <1>1, <1>2 DEF Expand, Taken, Searching, LastFrame
<1>4. IsArrival(j, p)
  BY <1>1, <1>3, TopIsFound DEF IsTree
<1>5. PICK f \in 1..(n - 1) : f = p.frame
  BY <1>1, <1>2, <1>3, <1>4, ArrivalFacts
<1>6. PICK e, next : e = j.edges[f] /\ next = e.next
  OBVIOUS
<1>7. next \in (f + 1)..n
  BY <1>1, <1>2, <1>6, MoveFacts
<1>8. PICK grown : grown = nodes'
  OBVIOUS
<1>9. /\ Len(grown) = m + N
      /\ \A id \in 1..m : grown[id] = found[id]
      /\ \A k \in 1..N : grown[m + k] = new[k]
      /\ Finds(N, new, e)
  BY <1>1, <1>2, <1>5, <1>6, <1>8 DEF Adds
<1>10. PICK a \in Int, last \in Int : a = p.arrival /\ last = p.interval.end
  BY <1>1, <1>4, ArrivalFacts
<1>11. ASSUME NEW d \in Int, NEW to \in j.safe[next], a <= d, d <= last,
              d \notin Ticks(e.blocked), to.begin <= d + next - f, d + next - f <= to.end
       PROVE  \E id \in 1..Len(grown) : KeyOf(grown[id]) = <<next, to>> /\ grown[id].arrival <= d + next - f
  <2>1. PICK x : x = Offer(p, e, to)
    OBVIOUS
  <2>2. IsOffer(j, p, x) /\ x.interval = to
    <3>1. p.frame < Len(job.route) /\ IsArrival(job, p) /\ job.edges[p.frame] = e
      BY <1>1, <1>2, <1>3, <1>4, <1>5, <1>6
    <3>2. to \in job.safe[job.edges[p.frame].next]
      BY <1>1, <1>5, <1>6
    <3>3. x = Offer(p, job.edges[p.frame], to)
      BY <2>1, <3>1
    <3> QED BY <1>1, <3>1, <3>2, <3>3, OffersLeaveFirst
  <2>3. x.frame = next /\ KeyOf(x) = <<next, to>>
    BY <1>5, <1>6, <2>2 DEF IsOffer, KeyOf
  <2>4. PICK c \in Int : c = x.departure /\ x.arrival = c + next - f
    BY <1>5, <2>2, <2>3 DEF IsOffer
  <2>5. PICK b \in Int, g \in Int : b = to.begin /\ g = to.end
    <3>1. next \in 1..Len(j.route)
      BY <1>2, <1>7
    <3> QED BY <1>1, <3>1, IntervalFacts
  <2>6. c <= d
    <3>1. x.interval.begin - (x.frame - p.frame) <= d
      <4>1. b - (next - f) <= d
        BY <1>7, <1>11, <2>5
      <4> QED BY <1>5, <2>2, <2>3, <2>5, <4>1
    <3>2. LeavesFirst(j, p, x)
      BY <2>2 DEF IsOffer
    <3> QED BY <1>5, <1>6, <1>10, <1>11, <2>4, <3>1, <3>2 DEF LeavesFirst
  <2>7. x.arrival <= d + next - f
    BY <1>7, <2>4, <2>6
  <2>8. Serves(p, e, to)
    <3>1. Departure(p, e, to) = c
      BY <2>1, <2>4 DEF Offer, Node
    <3>2. c <= AtMost(last, g - (next - f))
      <4>1. c <= last /\ c <= g - (next - f)
        BY <1>7, <1>11, <2>5, <2>6
      <4> QED BY <4>1 DEF AtMost
    <3> QED BY <1>5, <1>6, <1>10, <2>5, <3>1, <3>2 DEF Serves
  <2>9. CASE Improves(x)
    <3>1. PICK k \in 1..N : new[k] = x
      BY <1>1, <1>6, <1>9, <2>1, <2>8, <2>9 DEF Finds
    <3>2. m + k \in 1..Len(grown) /\ grown[m + k] = x
      BY <1>9, <3>1
    <3> QED BY <2>3, <2>7, <3>2
  <2>10. CASE ~Improves(x)
    <3>1. <<next, to>> \in DOMAIN known /\ ~(known[<<next, to>>] > x.arrival)
      BY <1>1, <2>2, <2>3, <2>10 DEF Improves
    <3>2. PICK id \in 1..m : KeyOf(found[id]) = <<next, to>> /\ known[<<next, to>>] = found[id].arrival
      BY <1>1, <1>2, <3>1 DEF Indexed
    <3>3. found[id].arrival \in Int
      BY <1>1, <1>2, ArrivalFacts DEF IsTree
    <3>4. PICK y \in Int, z \in Int : y = found[id].arrival /\ z = x.arrival
      BY <1>7, <2>4, <3>3
    <3>5. ~(y > z) /\ z <= d + next - f
      BY <2>7, <3>1, <3>2, <3>4
    <3>6. y <= d + next - f
      BY <1>7, <3>5
    <3>7. id \in 1..Len(grown) /\ grown[id] = found[id]
      BY <1>9
    <3> QED BY <3>2, <3>4, <3>6, <3>7
  <2> QED BY <2>9, <2>10
<1>12. Explored(j, grown, p)
  <2>1. p.frame # Len(j.route)
    BY <1>2, <1>5
  <2>2. \A d \in Int : \A to \in j.safe[j.edges[p.frame].next] :
          /\ p.arrival <= d /\ d <= p.interval.end /\ d \notin Ticks(j.edges[p.frame].blocked)
          /\ to.begin <= d + j.edges[p.frame].next - p.frame
          /\ d + j.edges[p.frame].next - p.frame <= to.end
          => \E id \in 1..Len(grown) :
               /\ KeyOf(grown[id]) = <<j.edges[p.frame].next, to>>
               /\ grown[id].arrival <= d + j.edges[p.frame].next - p.frame
    <3>1. /\ j.edges[p.frame].next = next /\ j.edges[p.frame].blocked = e.blocked
          /\ p.frame = f /\ p.arrival = a /\ p.interval.end = last
      BY <1>5, <1>6, <1>10
    <3> QED BY <1>11, <3>1
  <2> QED BY <2>1, <2>2, Zenon DEF Explored
<1> QED BY <1>1, <1>8, <1>12

LEMMA ExpandKeepsExplored ==
  ASSUME Prepared(job), IsTree(job, nodes), open \subseteq EntriesOf(job, nodes),
         Indexed(nodes, best), AllExplored(job, nodes, open), Expand
  PROVE  AllExplored(job, nodes', open')
<1>1. PICK j, found, top, first, grown, queue :
        /\ j = job /\ found = nodes /\ top = Top[3] /\ first = Top
        /\ grown = nodes' /\ queue = open'
  OBVIOUS
<1>2. PICK m \in Nat : m = Len(found)
  BY <1>1 DEF IsTree
<1>3. open # {}
  BY DEF Expand, Taken, Searching
<1>4. /\ top \in 1..m /\ Current = found[top] /\ first = EntryOf(j, found, top)
  BY <1>1, <1>2, <1>3, TopIsFirst DEF EntryOf, Current
<1>5. PICK N \in Nat : \E new : Adds(N, new)
  BY ExpandAdds
<1>6. PICK new : Adds(N, new)
  BY <1>5
<1>7. /\ Len(grown) = m + N
      /\ \A id \in 1..m : grown[id] = found[id]
      /\ queue = (open \ {first}) \cup {EntryOf(j, grown, m + k) : k \in 1..N}
  BY <1>1, <1>2, <1>6 DEF Adds
<1>8. ASSUME NEW id \in 1..(m + N), EntryOf(j, grown, id) \notin queue
      PROVE  Explored(j, grown, grown[id])
  <2>1. id \in 1..m
    <3> SUFFICES ASSUME ~(id <= m) PROVE FALSE
      OBVIOUS
    <3>1. id - m \in 1..N /\ id = m + (id - m)
      OBVIOUS
    <3> QED BY <1>7, <1>8, <3>1
  <2>2. grown[id] = found[id] /\ EntryOf(j, grown, id) = EntryOf(j, found, id)
    BY <1>7, <2>1 DEF EntryOf
  <2>3. CASE EntryOf(j, found, id) \notin open
    <3>1. Explored(j, found, found[id])
      BY <1>1, <1>2, <2>1, <2>3 DEF AllExplored
    <3>2. m <= m + N /\ m + N \in Nat
      OBVIOUS
    <3>3. Explored(j, grown, found[id])
      BY <1>2, <1>7, <3>1, <3>2, GrowingKeepsExplored
    <3> QED BY <2>2, <3>3
  <2>4. CASE EntryOf(j, found, id) \in open
    <3>1. EntryOf(j, found, id) = first
      BY <1>7, <1>8, <2>2, <2>4
    <3>2. id = top
      <4>1. EntryOf(j, found, id)[3] = id /\ EntryOf(j, found, top)[3] = top
        BY DEF EntryOf, Entry
      <4> QED BY <1>4, <3>1, <4>1
    <3>3. Explored(job, nodes', Current)
      BY <1>6, ExpandExplores
    <3> QED BY <1>1, <1>4, <2>2, <3>2, <3>3
  <2> QED BY <2>3, <2>4
<1> QED BY <1>1, <1>7, <1>8 DEF AllExplored

(* A node passed over is at the end of the route, where it cannot park.    *)
LEMMA PassingKeepsExplored ==
  ASSUME Prepared(job), IsTree(job, nodes), open \subseteq EntriesOf(job, nodes),
         Indexed(nodes, best), AllExplored(job, nodes, open), PassOver
  PROVE  AllExplored(job, nodes, open \ {Top})
<1>1. open # {} /\ PassedOver(Current)
  BY DEF PassOver, Searching
<1>2. PICK j, found, top, first, p :
        /\ j = job /\ found = nodes /\ top = Top[3] /\ first = Top /\ p = Current
  OBVIOUS
<1>3. /\ top \in 1..Len(found) /\ p = found[top] /\ first = EntryOf(j, found, top)
  BY <1>1, <1>2, TopIsFirst DEF EntryOf, Current
<1>4. ~Stale(p)
  <2>1. best[KeyOf(p)] = p.arrival
    BY <1>2, <1>3 DEF Indexed
  <2> QED BY <2>1 DEF Stale, KeyOf
<1>5. p.frame = Len(j.route) /\ p.interval.end # j.horizon
  BY <1>1, <1>2, <1>4 DEF PassedOver, LastFrame, CanPark
<1>6. Explored(j, found, p)
  <2>1. ~(p.frame < Len(j.route))
    <3>1. Len(j.route) \in Int
      BY <1>2 DEF Prepared, IsCall, IsRoute
    <3> QED BY <1>5, <3>1
  <2> QED BY <1>5, <2>1 DEF Explored
<1>7. ASSUME NEW id \in 1..Len(found), EntryOf(j, found, id) \notin open \ {first}
      PROVE  Explored(j, found, found[id])
  <2>1. CASE EntryOf(j, found, id) \notin open
    BY <1>2, <2>1 DEF AllExplored
  <2>2. CASE EntryOf(j, found, id) = first
    <3>1. EntryOf(j, found, id)[3] = id /\ EntryOf(j, found, top)[3] = top
      BY DEF EntryOf, Entry
    <3>2. id = top
      BY <1>3, <2>2, <3>1
    <3> QED BY <1>3, <1>6, <3>2
  <2> QED BY <1>7, <2>1, <2>2
<1> QED BY <1>2, <1>7 DEF AllExplored

(* A legal schedule is one of the ways to finish.                          *)
LEMMA LegalFinishes ==
  ASSUME NEW j, IsRoute(j.route), NEW last \in Nat, NEW s \in Seq(Int),
         Legal(j, s, last), Len(s) - 1 <= last
  PROVE  Len(s) - 1 \in Finishes(j, last)
<1>1. PICK N \in Nat \ {0} : N = Len(j.route) /\ DOMAIN j.route = 1..N
  BY DEF IsRoute
<1>2. PICK l \in Nat \ {0} : l = Len(s)
  BY DEF Legal
<1>3. /\ s[1] = 1 /\ Free(j, 1, 0) /\ s[l] = N
      /\ \A t \in 1..(l - 1) : MayStep(j, s[t], s[t + 1], t - 1)
      /\ MayPark(j, l - 1, last)
      /\ \A t \in 1..l : s[t] \in Int
  BY <1>1, <1>2 DEF Legal
<1>4. PICK R : R = Reachable(j, last)
  OBVIOUS
<1>5. /\ \A g : g \in R[1] <=> g = 1 /\ Free(j, 1, 0)
      /\ \A t \in 1..last : \A g :
           g \in R[t + 1] <=> g \in 1..N /\ \E f \in R[t] : MayStep(j, f, g, t - 1)
  <2>1. /\ \A g : g \in R[1] <=> g = 1 /\ Free(j, 1, 0)
        /\ \A t \in 1..last : \A g :
             g \in R[t + 1] <=> g \in DOMAIN j.route /\ \E f \in R[t] : MayStep(j, f, g, t - 1)
    BY <1>4, ReachableExact
  <2> QED BY <1>1, <2>1
<1>6. \A t \in 1..(l - 1) : s[t + 1] = s[t] + 1 \/ s[t + 1] = s[t]
  BY <1>3 DEF MayStep
<1>7. ASSUME NEW t \in 1..l
      PROVE  s[t] <= N
  <2> SUFFICES ASSUME s[t] > N PROVE FALSE
    <3>1. s[t] \in Int
      BY <1>3
    <3> QED BY <3>1
  <2>1. PICK D : D = {k \in 0..(l - 1) : s[l - k] > N}
    OBVIOUS
  <2>2. l - t \in D
    <3>1. l - t \in 0..(l - 1) /\ l - (l - t) = t
      OBVIOUS
    <3> QED BY <2>1, <3>1
  <2>3. D \in SUBSET Nat /\ D # {}
    <3>1. \A k \in D : k \in 0..(l - 1)
      BY <2>1
    <3>2. \A k \in D : k \in Nat
      BY <3>1
    <3> QED BY <2>2, <3>2
  <2>4. PICK k \in D : \A i \in D : k <= i
    BY <2>3, LeastNatural
  <2>5. k \in 0..(l - 1) /\ s[l - k] > N
    BY <2>1, <2>4
  <2>6. k # 0
    <3>1. k = 0 => l - k = l
      OBVIOUS
    <3> QED BY <1>1, <1>3, <2>5, <3>1
  <2>7. /\ k - 1 \in 0..(l - 1) /\ ~(k <= k - 1)
        /\ l - k \in 1..(l - 1) /\ (l - k) + 1 = l - (k - 1)
    BY <2>5, <2>6
  <2>8. ~(s[l - (k - 1)] > N)
    BY <2>1, <2>4, <2>7
  <2>9. s[l - (k - 1)] = s[l - k] + 1 \/ s[l - (k - 1)] = s[l - k]
    BY <1>6, <2>7
  <2>10. PICK x \in Int : x = s[l - k]
    <3>1. l - k \in 1..l
      BY <2>7
    <3> QED BY <1>3, <3>1
  <2>11. x > N /\ (~(x + 1 > N) \/ ~(x > N))
    BY <2>5, <2>8, <2>9, <2>10
  <2> QED BY <2>11
<1> DEFINE There(t) == s[t] \in R[t] /\ s[t] >= 1
<1>8. There(1)
  BY <1>3, <1>5
<1>9. ASSUME NEW t \in 1..(l - 1), There(t)
      PROVE  There(t + 1)
  <2>1. t \in 1..last /\ t + 1 \in 1..l /\ t \in 1..l
    BY <1>2
  <2>2. PICK x \in Int, y \in Int : x = s[t] /\ y = s[t + 1]
    BY <1>3, <2>1
  <2>3. y = x + 1 \/ y = x
    BY <1>6, <2>2
  <2>4. y \in 1..N
    BY <1>7, <1>9, <2>1, <2>2, <2>3
  <2>5. MayStep(j, x, y, t - 1)
    BY <1>3, <2>2
  <2>6. y \in R[t + 1]
    BY <1>5, <1>9, <2>1, <2>2, <2>4, <2>5
  <2> QED BY <2>2, <2>4, <2>6
<1>10. ASSUME NEW D, D = {t \in 1..l : ~There(t)}, D # {}
       PROVE  FALSE
  <2> HIDE DEF There
  <2>1. D \in SUBSET Nat
    BY <1>10
  <2>2. PICK d \in D : \A k \in D : d <= k
    BY <1>10, <2>1, LeastNatural
  <2>3. d \in 1..l /\ ~There(d)
    BY <1>10, <2>2
  <2>4. d # 1
    BY <1>8, <2>3
  <2>5. d - 1 \in 1..(l - 1) /\ d - 1 \in 1..l /\ (d - 1) + 1 = d /\ ~(d <= d - 1)
    BY <2>3, <2>4
  <2>6. There(d - 1)
    BY <1>10, <2>2, <2>5
  <2> QED BY <1>9, <2>3, <2>5, <2>6
<1>11. N \in R[(l - 1) + 1]
  <2>1. There(l)
    <3> HIDE DEF There
    <3>1. \A t \in 1..l : There(t)
      BY <1>10
    <3>2. l \in 1..l
      OBVIOUS
    <3> QED BY <3>1, <3>2
  <2>2. (l - 1) + 1 = l
    OBVIOUS
  <2> QED BY <1>3, <2>1, <2>2
<1>12. l - 1 \in 0..last
  BY <1>2
<1> QED BY <1>1, <1>2, <1>3, <1>4, <1>11, <1>12, Zenon DEF Finishes

(* Once the others have stopped, nothing changes.                          *)
StoppedBy(j, E) == \A o \in j.tracks : Len(o.path) - 1 <= E

LEMMA StoppedStays ==
  ASSUME NEW j, IsCall(j.route, j.tracks, j.horizon), NEW E \in Nat, StoppedBy(j, E),
         NEW t \in Nat, NEW u \in Nat, E <= t, E <= u, NEW f, NEW g
  PROVE  /\ Free(j, f, t) => Free(j, f, u)
         /\ Passable(j, f, g, t) => Passable(j, f, g, u)
<1>1. ASSUME NEW o \in j.tracks
      PROVE  /\ FrameAt(o.path, t) = FrameAt(o.path, u)
             /\ FrameAt(o.path, t + 1) = FrameAt(o.path, u + 1)
             /\ FrameAt(o.path, t + 1) = FrameAt(o.path, u)
  <2>1. PICK l \in Nat \ {0} : l = Len(o.path)
    BY DEF IsCall, IsTrack, IsRoute
  <2>2. l - 1 <= E
    BY <2>1 DEF StoppedBy
  <2>3. \A v \in Nat : E <= v => (v < l => v + 1 = l)
    BY <2>2
  <2>4. \A v \in Nat : E <= v => FrameAt(o.path, v) = o.path[l]
    BY <2>1, <2>3 DEF FrameAt
  <2>5. t + 1 \in Nat /\ u + 1 \in Nat /\ E <= t + 1 /\ E <= u + 1
    OBVIOUS
  <2> QED BY <2>4, <2>5
<1>2. \A o \in j.tracks : /\ FrameAt(o.path, t) = FrameAt(o.path, u)
                          /\ FrameAt(o.path, t + 1) = FrameAt(o.path, u + 1)
  BY <1>1
<1>3. Free(j, f, t) => Free(j, f, u)
  BY <1>2 DEF Free
<1>4. Free(j, g, t + 1) => Free(j, g, u + 1)
  BY <1>2 DEF Free
<1>5. Passable(j, f, g, t) => Passable(j, f, g, u)
  BY <1>2, <1>4 DEF Passable
<1> QED BY <1>3, <1>5

(* A frame that can be reached after that can be reached within its number *)
(* of ticks.                                                               *)
LEMMA LateIsReached ==
  ASSUME NEW j, IsCall(j.route, j.tracks, j.horizon), NEW E \in Nat, StoppedBy(j, E),
         NEW last \in Nat, NEW R, R = Reachable(j, last)
  PROVE  \A t \in E..last : \A g \in R[t + 1] :
           \E s \in E..t : s <= E + g - 1 /\ g \in R[s + 1]
<1>1. PICK N \in Nat \ {0} : N = Len(j.route) /\ IsRoute(j.route) /\ DOMAIN j.route = 1..N
  BY DEF IsCall, IsRoute
<1>2. /\ \A g : g \in R[1] <=> g = 1 /\ Free(j, 1, 0)
      /\ \A t \in 1..last : \A g :
           g \in R[t + 1] <=> g \in 1..N /\ \E f \in R[t] : MayStep(j, f, g, t - 1)
  <2>1. /\ \A g : g \in R[1] <=> g = 1 /\ Free(j, 1, 0)
        /\ \A t \in 1..last : \A g :
             g \in R[t + 1] <=> g \in DOMAIN j.route /\ \E f \in R[t] : MayStep(j, f, g, t - 1)
    BY <1>1, ReachableExact
  <2> QED BY <1>1, <2>1
<1>3. ASSUME NEW t \in 0..last, NEW g \in R[t + 1]
      PROVE  g \in 1..N
  <2>1. CASE t = 0
    BY <1>1, <1>2, <1>3, <2>1
  <2>2. CASE t # 0
    <3>1. t \in 1..last
      BY <2>2
    <3> QED BY <1>2, <1>3, <3>1
  <2> QED BY <2>1, <2>2
<1> DEFINE Soon(t) == \A g \in R[t + 1] : \E s \in E..t : s <= E + g - 1 /\ g \in R[s + 1]
<1>4. ASSUME E <= last
      PROVE  Soon(E)
  <2> TAKE g \in R[E + 1]
  <2>1. g \in 1..N
    BY <1>3, <1>4
  <2>2. E \in E..E /\ E <= E + g - 1
    BY <2>1
  <2> WITNESS E \in E..E
  <2> QED BY <2>2
<1>5. ASSUME NEW t \in (E + 1)..last, Soon(t - 1)
      PROVE  Soon(t)
  <2>1. PICK p \in E..last : p = t - 1 /\ p + 1 = t /\ t \in 1..last
    OBVIOUS
  <2> TAKE g \in R[t + 1]
  <2>2. g \in 1..N
    BY <1>2, <2>1
  <2>3. PICK f \in R[t] : MayStep(j, f, g, p)
    BY <1>2, <2>1
  <2>4. f \in R[p + 1] /\ p \in 0..last
    BY <2>1, <2>3
  <2>5. f \in 1..N
    BY <1>3, <2>4
  <2>6. PICK s \in E..p : s <= E + f - 1 /\ f \in R[s + 1]
    BY <1>5, <2>1, <2>4
  <2>7. CASE g = f
    <3>1. s \in E..t
      BY <2>1
    <3> QED BY <2>6, <2>7, <3>1
  <2>8. CASE g # f
    <3>1. g = f + 1 /\ Passable(j, f, g, p)
      BY <2>3, <2>8 DEF MayStep
    <3>2. s \in Nat /\ p \in Nat /\ E <= s /\ E <= p
      BY <2>1
    <3>3. Passable(j, f, g, s)
      BY <3>1, <3>2, StoppedStays
    <3>4. PICK v \in Int : v = s + 1
      OBVIOUS
    <3>5. v \in 1..last /\ v \in E..t /\ v - 1 = s
      BY <2>1, <3>4
    <3>6. MayStep(j, f, g, s)
      BY <3>1, <3>3 DEF MayStep
    <3>7. g \in R[v + 1]
      <4>1. f \in R[v]
        BY <2>6, <3>4
      <4> QED BY <1>2, <2>2, <3>5, <3>6, <4>1
    <3>8. v <= E + g - 1
      BY <2>5, <2>6, <3>1, <3>4
    <3> QED BY <3>5, <3>7, <3>8
  <2> QED BY <2>7, <2>8
<1>6. ASSUME NEW D, D = {t \in E..last : ~Soon(t)}, D # {}
      PROVE  FALSE
  <2> HIDE DEF Soon
  <2>1. D \in SUBSET Nat
    BY <1>6
  <2>2. PICK d \in D : \A k \in D : d <= k
    BY <1>6, <2>1, LeastNatural
  <2>3. d \in E..last /\ ~Soon(d)
    BY <1>6, <2>2
  <2>4. d # E
    BY <1>4, <2>3
  <2>5. d \in (E + 1)..last /\ d - 1 \in E..last /\ ~(d <= d - 1)
    BY <2>3, <2>4
  <2>6. Soon(d - 1)
    BY <1>6, <2>2, <2>5
  <2> QED BY <1>5, <2>3, <2>5, <2>6
<1>7. \A t \in E..last : Soon(t)
  <2> HIDE DEF Soon
  <2> QED BY <1>6
<1> QED BY <1>7

(* What can be finished after the others have stopped can be finished      *)
(* within the length of the route from then on.                            *)
LEMMA FinishSoon ==
  ASSUME NEW j, IsCall(j.route, j.tracks, j.horizon),
         NEW E \in Nat, StoppedBy(j, E), E <= j.horizon,
         NEW tf \in Finishes(j, 2 * j.horizon)
  PROVE  \E t \in Finishes(j, 2 * j.horizon) : t \in Nat /\ t <= E + Len(j.route) - 1
<1>1. PICK N \in Nat \ {0}, h \in Nat : N = Len(j.route) /\ h = j.horizon
  BY DEF IsCall, IsRoute
<1>2. PICK last \in Nat : last = 2 * h
  OBVIOUS
<1>3. PICK R : R = Reachable(j, last)
  OBVIOUS
<1>4. \A t : t \in Finishes(j, last) <=> t \in 0..last /\ N \in R[t + 1] /\ MayPark(j, t, last)
  BY <1>1, <1>3, Zenon DEF Finishes
<1>5. /\ tf \in 0..last /\ N \in R[tf + 1] /\ MayPark(j, tf, last)
  BY <1>1, <1>2, <1>4
<1>6. CASE tf < E
  <2>1. tf \in Nat /\ tf <= E + N - 1
    BY <1>5, <1>6
  <2> QED BY <1>1, <2>1
<1>7. CASE ~(tf < E)
  <2>1. tf \in E..last
    BY <1>5, <1>7
  <2>2. PICK s \in E..tf : s <= E + N - 1 /\ N \in R[s + 1]
    BY <1>3, <1>5, <2>1, LateIsReached
  <2>3. s \in 0..last
    BY <1>5, <2>2
  <2>4. Free(j, N, tf)
    BY <1>1, <1>5 DEF MayPark
  <2>5. s \in Nat /\ tf \in Nat /\ E <= s /\ E <= tf /\ E <= h
    BY <1>1, <2>1, <2>3
  <2>6. Free(j, N, s) /\ Free(j, N, h)
    BY <2>4, <2>5, StoppedStays
  <2>7. Passable(j, N, N, h)
    BY <1>1, <2>6, ParkedForGood
  <2>8. ASSUME NEW u \in s..(last - 1)
        PROVE  Passable(j, N, N, u)
    <3>1. u \in Nat /\ E <= u
      BY <2>5
    <3> QED BY <2>5, <2>7, <3>1, StoppedStays
  <2>9. MayPark(j, s, last)
    BY <1>1, <2>6, <2>8 DEF MayPark
  <2>10. s \in Finishes(j, last)
    BY <1>4, <2>2, <2>3, <2>9
  <2> QED BY <1>1, <1>2, <2>2, <2>5, <2>10
<1> QED BY <1>6, <1>7

(* With a horizon that leaves time, by the horizon.                        *)
LEMMA FinishInTime ==
  ASSUME NEW j, IsCall(j.route, j.tracks, j.horizon), LeavesTime(j),
         NEW tf \in Finishes(j, 2 * j.horizon)
  PROVE  \E t \in 0..j.horizon : t \in Finishes(j, 2 * j.horizon)
<1>1. PICK N \in Nat \ {0}, h \in Nat : N = Len(j.route) /\ h = j.horizon
  BY DEF IsCall, IsRoute
<1>2. PICK E \in Nat : E = h - (N - 1)
  <2>1. N - 1 <= h
    BY <1>1 DEF LeavesTime
  <2> QED BY <2>1
<1>3. StoppedBy(j, E)
  <2> SUFFICES ASSUME NEW o \in j.tracks PROVE Len(o.path) - 1 <= E
    BY DEF StoppedBy
  <2>1. PICK l \in Nat : l = Len(o.path)
    BY DEF IsCall, IsTrack, IsRoute
  <2>2. (l - 1) + (N - 1) <= h
    BY <1>1, <2>1 DEF LeavesTime
  <2> QED BY <1>2, <2>1, <2>2
<1>4. E <= j.horizon
  BY <1>1, <1>2
<1>5. PICK t \in Finishes(j, 2 * j.horizon) : t \in Nat /\ t <= E + Len(j.route) - 1
  BY <1>3, <1>4, FinishSoon
<1>6. t \in 0..h
  BY <1>1, <1>2, <1>5
<1> QED BY <1>1, <1>5, <1>6

(* A robot that is in the way where it starts cannot finish.               *)
LEMMA NoStartNoFinish ==
  ASSUME NEW j, IsRoute(j.route), ~Free(j, 1, 0), NEW last \in Nat
  PROVE  Finishes(j, last) = {}
<1>1. PICK R : R = Reachable(j, last)
  OBVIOUS
<1>2. /\ \A g : g \in R[1] <=> g = 1 /\ Free(j, 1, 0)
      /\ \A t \in 1..last : \A g :
           g \in R[t + 1] <=> g \in DOMAIN j.route /\ \E f \in R[t] : MayStep(j, f, g, t - 1)
  BY <1>1, ReachableExact
<1>3. ASSUME NEW D, D = {t \in 0..last : \E g : g \in R[t + 1]}, D # {}
      PROVE  FALSE
  <2>1. D \in SUBSET Nat
    BY <1>3
  <2>2. PICK d \in D : \A k \in D : d <= k
    BY <1>3, <2>1, LeastNatural
  <2>3. PICK g : d \in 0..last /\ g \in R[d + 1]
    BY <1>3, <2>2
  <2>4. d # 0
    <3>1. d = 0 => d + 1 = 1
      OBVIOUS
    <3> QED BY <1>2, <2>3, <3>1
  <2>5. d \in 1..last /\ d - 1 \in 0..last /\ ~(d <= d - 1) /\ (d - 1) + 1 = d
    BY <2>3, <2>4
  <2>6. \E f : f \in R[d]
    BY <1>2, <2>3, <2>5
  <2>7. d - 1 \in D
    BY <1>3, <2>5, <2>6
  <2> QED BY <2>2, <2>5, <2>7
<1>4. \A t \in 0..last : ~\E g : g \in R[t + 1]
  BY <1>3
<1>5. \A t \in Finishes(j, last) : t \in 0..last /\ Len(j.route) \in R[t + 1]
  BY <1>1, Zenon DEF Finishes
<1> QED BY <1>4, <1>5
-----------------------------------------------------------------------------
(* No schedule finishes before s.                                          *)
Earliest(j, s) ==
  /\ Len(s) - 1 \in Finishes(j, 2 * j.horizon)
  /\ \A t \in Finishes(j, 2 * j.horizon) : t >= Len(s) - 1

(* What a search has seen to at any time, besides its inductive invariant. *)
ThoroughInv ==
  /\ Indexed(nodes, best)
  /\ verdict = "searching" => Settled(job, nodes, open) /\ AllExplored(job, nodes, open)
  /\ verdict = "found" => Earliest(job, schedule)
  /\ verdict = "failed" /\ ~LimitReached /\ LeavesTime(job) =>
       Finishes(job, 2 * job.horizon) = {}

LEMMA StartsIndexed ==
  ASSUME NEW route, NEW tracks, NEW horizon, IsCall(route, tracks, horizon), NEW limit,
         StartSearch(Reserve(route, tracks, horizon), limit)
  PROVE  /\ Indexed(nodes', best')
         /\ verdict' = "searching" => Settled(job', nodes', open')
<1>1. PICK r : r = Reserve(route, tracks, horizon)
  OBVIOUS
<1>2. r.route = route
  BY <1>1 DEF Reserve
<1>3. PICK starts : starts = {i \in r.safe[1] : i.begin = 0}
  OBVIOUS
<1>4. CASE starts = {}
  <2>1. verdict' = "failed" /\ best' = <<>> /\ nodes' = <<>>
    BY <1>1, <1>3, <1>4 DEF StartSearch
  <2>2. Indexed(<<>>, <<>>)
    BY DEF Indexed
  <2> QED BY <2>1, <2>2
<1>5. CASE starts # {}
  <2>1. /\ job'.route = route
        /\ open' = {Entry(route, 1, 0, 1)}
        /\ \E start \in starts : /\ best' = [key \in {<<1, start>>} |-> 0]
                                 /\ nodes' = << Node(1, start, 0, 1, 0) >>
    BY <1>1, <1>2, <1>3, <1>5 DEF StartSearch
  <2>2. PICK start \in starts : /\ best' = [key \in {<<1, start>>} |-> 0]
                               /\ nodes' = << Node(1, start, 0, 1, 0) >>
    BY <2>1
  <2>3. PICK node : node = Node(1, start, 0, 1, 0)
    OBVIOUS
  <2>4. node.frame = 1 /\ node.interval = start /\ node.arrival = 0
    BY <2>3 DEF Node
  <2>5. PICK found, known : found = << node >> /\ known = [key \in {<<1, start>>} |-> 0]
    OBVIOUS
  <2>6. Len(found) = 1 /\ found[1] = node
    BY <2>5
  <2>7. KeyOf(node) = <<1, start>>
    BY <2>4 DEF KeyOf
  <2>8. Indexed(found, known)
    <3>1. DOMAIN known = {KeyOf(found[id]) : id \in 1..1}
      BY <2>5, <2>6, <2>7
    <3>2. known[KeyOf(found[1])] = found[1].arrival
      BY <2>4, <2>5, <2>6, <2>7
    <3>3. 1..1 = {1}
      OBVIOUS
    <3> QED BY <2>6, <3>1, <3>2, <3>3 DEF Indexed
  <2>9. EntryOf(job', found, 1) \in open'
    BY <2>1, <2>4, <2>6 DEF EntryOf
  <2>10. Settled(job', found, open')
    <3>1. 1..1 = {1} /\ 2..1 = {}
      OBVIOUS
    <3> QED BY <2>6, <2>9, <3>1 DEF Settled
  <2> QED BY <2>2, <2>3, <2>5, <2>8, <2>10
<1> QED BY <1>4, <1>5

LEMMA StartsExplored ==
  ASSUME NEW route, NEW tracks, NEW horizon, IsCall(route, tracks, horizon), NEW limit,
         StartSearch(Reserve(route, tracks, horizon), limit)
  PROVE  /\ verdict' = "searching" => AllExplored(job', nodes', open')
         /\ verdict' # "found"
         /\ verdict' = "failed" => Finishes(job', 2 * job'.horizon) = {}
<1>1. PICK r : r = Reserve(route, tracks, horizon)
  OBVIOUS
<1>2. r.route = route /\ r.tracks = tracks /\ r.horizon = horizon
  BY <1>1 DEF Reserve
<1>3. PICK starts : starts = {i \in r.safe[1] : i.begin = 0}
  OBVIOUS
<1>4. PICK j : j = job'
  OBVIOUS
<1>5. /\ Prepared(j) /\ j.route = route /\ j.safe = r.safe
  <2>1. SearchInv' /\ verdict' # "idle"
    BY StartsSearched
  <2>2. (verdict # "idle" => Prepared(job))'
    BY <2>1 DEF SearchInv
  <2>3. j.route = route /\ j.safe = r.safe
    BY <1>1, <1>2, <1>4 DEF StartSearch
  <2> QED BY <1>4, <2>1, <2>2, <2>3
<1>6. CASE starts = {}
  <2>1. verdict' = "failed"
    BY <1>1, <1>3, <1>6 DEF StartSearch
  <2>2. PICK h \in Nat : h = j.horizon
    BY <1>5 DEF Prepared, IsCall
  <2>3. IsRoute(j.route) /\ 1 \in 1..Len(j.route)
    BY <1>5 DEF Prepared, IsCall, IsRoute
  <2>4. ~Free(j, 1, 0)
    <3> SUFFICES ASSUME Free(j, 1, 0) PROVE FALSE
      OBVIOUS
    <3>1. 0 \in 0..j.horizon
      BY <2>2
    <3>2. PICK i \in j.safe[1] : i.begin <= 0 /\ 0 <= i.end
      BY <1>5, <2>3, <3>1, FreeIsSafe
    <3>3. i.begin \in Int /\ 0 <= i.begin
      BY <1>5, <2>3, IntervalFacts
    <3>4. i.begin = 0
      BY <3>2, <3>3
    <3> QED BY <1>3, <1>5, <1>6, <3>4
  <2>5. 2 * j.horizon \in Nat
    BY <2>2
  <2>6. Finishes(j, 2 * j.horizon) = {}
    BY <2>3, <2>4, <2>5, NoStartNoFinish
  <2> QED BY <1>4, <2>1, <2>6
<1>7. CASE starts # {}
  <2>1. /\ verdict' = "searching" /\ open' = {Entry(route, 1, 0, 1)}
        /\ \E start \in starts : nodes' = << Node(1, start, 0, 1, 0) >>
    BY <1>1, <1>2, <1>3, <1>7 DEF StartSearch
  <2>2. PICK node, found : /\ node.frame = 1 /\ node.arrival = 0
                           /\ found = << node >> /\ nodes' = found
    BY <2>1 DEF Node
  <2>3. Len(found) = 1 /\ found[1] = node
    BY <2>2
  <2>4. EntryOf(j, found, 1) \in open'
    BY <1>5, <2>1, <2>2, <2>3 DEF EntryOf
  <2>5. \A id \in 1..Len(found) : id = 1
    BY <2>3
  <2>6. AllExplored(j, found, open')
    BY <2>4, <2>5 DEF AllExplored
  <2> QED BY <1>4, <2>1, <2>2, <2>6
<1> QED BY <1>6, <1>7

(* The goal taken from the queue is reached first of all.                  *)
LEMMA ParksFirst ==
  ASSUME Prepared(job), IsTree(job, nodes), open \subseteq EntriesOf(job, nodes),
         AllExplored(job, nodes, open), ParkAtGoal
  PROVE  Earliest(job, schedule')
<1>1. PICK j, found, first, p, s :
        j = job /\ found = nodes /\ first = Top /\ p = Current /\ s = schedule'
  OBVIOUS
<1>2. PICK N \in Nat \ {0}, h \in Nat : N = Len(j.route) /\ h = j.horizon
  BY <1>1 DEF Prepared, IsCall, IsRoute
<1>3. open # {} /\ p.frame = N /\ job' = job /\ verdict' = "found"
  BY <1>1, <1>2 DEF ParkAtGoal, Taken, Searching, LastFrame
<1>4. /\ first[3] \in 1..Len(found) /\ p = found[first[3]]
      /\ first = EntryOf(j, found, first[3])
      /\ \A o \in open : first[1] <= o[1]
  BY <1>1, <1>3, TopIsFirst DEF EntryOf, Current
<1>5. PICK a \in Int : a = p.arrival /\ 0 <= a /\ a <= h
  <2>1. IsArrival(j, p)
    BY <1>1, <1>4 DEF IsTree
  <2>2. /\ p.arrival \in Int /\ p.interval.begin \in Int /\ p.interval.end \in Int
        /\ 0 <= p.interval.begin /\ p.interval.begin <= p.arrival
        /\ p.arrival <= p.interval.end /\ p.interval.end <= h
    BY <1>1, <1>2, <2>1, ArrivalFacts
  <2> QED BY <2>2
<1>6. first[1] = a
  <2>1. first[1] = p.arrival + N - p.frame
    BY <1>2, <1>4 DEF EntryOf, Entry
  <2> QED BY <1>3, <1>5, <2>1
<1>7. /\ Legal(j, s, 2 * h) /\ s \in Seq(Int) /\ Len(s) - 1 = a
  BY <1>1, <1>2, <1>5, ParkIsLegal
<1>8. a \in Finishes(j, 2 * h)
  <2>1. IsRoute(j.route) /\ 2 * h \in Nat /\ a <= 2 * h
    BY <1>1, <1>5 DEF Prepared, IsCall
  <2> QED BY <1>7, <2>1, LegalFinishes
<1>9. ASSUME NEW t \in Finishes(j, 2 * h)
      PROVE  t >= a
  <2>1. t \in 0..(2 * h)
    BY Zenon DEF Finishes
  <2> SUFFICES ASSUME t < a PROVE FALSE
    BY <2>1
  <2>2. t \in 0..j.horizon
    BY <1>2, <1>5, <2>1
  <2>3. ASSUME NEW id \in 1..Len(found), found[id].arrival + N - found[id].frame <= t
        PROVE  Explored(j, found, found[id])
    <3>1. EntryOf(j, found, id)[1] = found[id].arrival + N - found[id].frame
      BY <1>2 DEF EntryOf, Entry
    <3>2. found[id].arrival \in Int /\ found[id].frame \in Int
      <4>1. found[id] \in NodesOf(j)
        BY <1>1 DEF IsTree
      <4> QED BY <4>1 DEF NodesOf
    <3>3. PICK x \in Int : x = found[id].arrival + N - found[id].frame
      BY <3>2
    <3>4. x <= t /\ t < a
      BY <2>3, <3>3
    <3>5. ~(a <= x)
      BY <2>1, <3>4
    <3>6. EntryOf(j, found, id) \notin open
      BY <1>4, <1>6, <3>1, <3>3, <3>5
    <3> QED BY <1>1, <3>6 DEF AllExplored
  <2>4. ExploredBy(j, found, t)
    BY <1>2, <2>3 DEF ExploredBy
  <2> QED BY <1>1, <1>2, <2>2, <2>4, NoFinishAt
<1> QED BY <1>1, <1>2, <1>7, <1>8, <1>9 DEF Earliest

(* When the queue is empty, every way to finish has been looked for.       *)
LEMMA ExhaustedIsNone ==
  ASSUME Prepared(job), IsTree(job, nodes), LeavesTime(job),
         AllExplored(job, nodes, open), open = {}
  PROVE  Finishes(job, 2 * job.horizon) = {}
<1>1. PICK j, found : j = job /\ found = nodes
  OBVIOUS
<1>2. ASSUME NEW t \in 0..j.horizon
      PROVE  t \notin Finishes(j, 2 * j.horizon)
  <2>1. ExploredBy(j, found, t)
    BY <1>1 DEF AllExplored, ExploredBy
  <2> QED BY <1>1, <2>1, NoFinishAt
<1>3. IsCall(j.route, j.tracks, j.horizon)
  BY <1>1 DEF Prepared
<1> QED BY <1>1, <1>2, <1>3, FinishInTime

LEMMA StartsThorough ==
  ASSUME NEW route, NEW tracks, NEW horizon, IsCall(route, tracks, horizon), NEW limit,
         StartSearch(Reserve(route, tracks, horizon), limit)
  PROVE  ThoroughInv'
BY StartsIndexed, StartsExplored DEF ThoroughInv

LEMMA SearchKeepsThorough ==
  ASSUME SearchInv, ThoroughInv, Search
  PROVE  ThoroughInv'
<1>1. verdict = "searching" /\ job' = job
  BY SearchKeepsInv
<1>2. /\ Prepared(job) /\ IsTree(job, nodes) /\ open \subseteq EntriesOf(job, nodes)
      /\ Indexed(nodes, best) /\ Settled(job, nodes, open) /\ AllExplored(job, nodes, open)
  BY <1>1 DEF SearchInv, ThoroughInv
<1>3. CASE PassOver
  <2>1. /\ open # {} /\ open' = open \ {Top} /\ nodes' = nodes /\ best' = best
        /\ verdict' = verdict
    BY <1>3 DEF PassOver, Searching
  <2>2. Settled(job, nodes, open \ {Top}) /\ AllExplored(job, nodes, open \ {Top})
    BY <1>2, <1>3, <2>1, TakingKeepsSettled, PassingKeepsExplored
  <2> QED BY <1>1, <1>2, <2>1, <2>2 DEF ThoroughInv
<1>4. CASE GiveUp
  <2>1. /\ verdict' = "failed" /\ expanded' = expanded /\ nodes' = nodes /\ best' = best
        /\ LimitReached
    BY <1>4 DEF GiveUp
  <2>2. LimitReached'
    BY <1>1, <2>1 DEF LimitReached
  <2> QED BY <1>2, <2>1, <2>2 DEF ThoroughInv
<1>5. CASE ParkAtGoal
  <2>1. verdict' = "found" /\ nodes' = nodes /\ best' = best
    BY <1>5 DEF ParkAtGoal
  <2>2. Earliest(job, schedule')
    BY <1>2, <1>5, ParksFirst
  <2>3. Earliest(job', schedule')
    BY <1>1, <2>2
  <2> QED BY <1>2, <2>1, <2>3 DEF ThoroughInv
<1>6. CASE Expand
  <2>1. verdict' = "searching"
    BY <1>1, <1>6 DEF Expand
  <2>2. /\ Indexed(nodes', best') /\ Settled(job, nodes', open')
        /\ AllExplored(job, nodes', open')
    BY <1>2, <1>6, ExpandKeepsIndex, ExpandKeepsSettled, ExpandKeepsExplored
  <2> QED BY <1>1, <2>1, <2>2 DEF ThoroughInv
<1>7. CASE Exhausted
  <2>1. open = {} /\ verdict' = "failed" /\ nodes' = nodes /\ best' = best
    BY <1>7 DEF Exhausted
  <2>2. LeavesTime(job) => Finishes(job, 2 * job.horizon) = {}
    BY <1>2, <2>1, ExhaustedIsNone
  <2> QED BY <1>1, <1>2, <2>1, <2>2 DEF ThoroughInv
<1> QED BY <1>3, <1>4, <1>5, <1>6, <1>7 DEF Search
=============================================================================
