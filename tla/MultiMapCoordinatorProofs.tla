---------------------- MODULE MultiMapCoordinatorProofs ----------------------
(***************************************************************************)
(* The coordinator, for any missions: schedules found one at a time around *)
(* those found before never meet, and what the call publishes is what      *)
(* CoordinationContract promises.                                          *)
(***************************************************************************)
EXTENDS MultiMapCoordinator, SafeIntervalSchedulerProofs

(* Meeting is mutual.                                                       *)
LEMMA SweptIsMutual ==
  ASSUME NEW a, NEW a2, NEW b, NEW b2, NEW r \in Int,
         \A f \in {a, a2, b, b2} : f.pos.x \in Int /\ f.pos.y \in Int,
         Swept(a, a2, b, b2, r)
  PROVE  Swept(b, b2, a, a2, r)
<1>1. PICK ax, ay, bx, by \in Int :
        ax = a.pos.x /\ ay = a.pos.y /\ bx = b.pos.x /\ by = b.pos.y
  OBVIOUS
<1>2. PICK cx, cy, ex, ey \in Int :
        cx = a2.pos.x /\ cy = a2.pos.y /\ ex = b2.pos.x /\ ey = b2.pos.y
  OBVIOUS
<1>3. PICK dx, dy \in Int : dx = 4 * (ax - bx) /\ dy = 4 * (ay - by)
  OBVIOUS
<1>4. PICK vx, vy \in Int :
        vx = 4 * (cx - ax - (ex - bx)) /\ vy = 4 * (cy - ay - (ey - by))
  OBVIOUS
<1>5. PICK qx, qy \in Int : qx = 4 * (bx - ax) /\ qy = 4 * (by - ay)
  OBVIOUS
<1>6. PICK wx, wy \in Int :
        wx = 4 * (ex - bx - (cx - ax)) /\ wy = 4 * (ey - by - (cy - ay))
  OBVIOUS
<1>7. qx = -dx /\ qy = -dy /\ wx = -vx /\ wy = -vy
  BY <1>3, <1>4, <1>5, <1>6
<1>8. \A m, n \in Int : (-m) * (-n) = m * n
  OBVIOUS
<1>9. /\ qx * qx + qy * qy = dx * dx + dy * dy
      /\ qx * wx + qy * wy = dx * vx + dy * vy
      /\ wx * wx + wy * wy = vx * vx + vy * vy
  BY <1>7, <1>8
<1>10. {b.pos.map, b2.pos.map, a2.pos.map} = {a.pos.map}
  BY DEF Swept
<1> QED BY <1>1, <1>2, <1>3, <1>4, <1>5, <1>6, <1>9, <1>10 DEF Swept

LEMMA MeetIsMutual ==
  ASSUME NEW a, NEW a2, NEW b, NEW b2, NEW r \in Int,
         \A f \in {a, a2, b, b2} : f.pos.x \in Int /\ f.pos.y \in Int,
         Meet(a, a2, b, b2, r)
  PROVE  Meet(b, b2, a, a2, r)
<1>1. CASE SharesResource(a, b)
  BY <1>1 DEF Meet, Collide, SharesResource, Holds
<1>2. CASE Near(a, b, r)
  <2>1. PICK dx, dy \in Int : dx = 4 * (a.pos.x - b.pos.x) /\ dy = 4 * (a.pos.y - b.pos.y)
    OBVIOUS
  <2>2. 4 * (b.pos.x - a.pos.x) = -dx /\ 4 * (b.pos.y - a.pos.y) = -dy
    BY <2>1
  <2>3. (-dx) * (-dx) = dx * dx /\ (-dy) * (-dy) = dy * dy
    OBVIOUS
  <2>4. Near(b, a, r)
    BY <1>2, <2>1, <2>2, <2>3 DEF Near
  <2> QED BY <2>4 DEF Meet, Collide
<1>3. CASE Swept(a, a2, b, b2, r)
  BY <1>3, SweptIsMutual DEF Meet
<1> QED BY <1>1, <1>2, <1>3 DEF Meet, Collide

(* A robot that follows its route is always on it.                          *)
LEMMA FollowsStays ==
  ASSUME NEW route, IsRoute(route), NEW plan \in Seq(Int), Follows(route, plan)
  PROVE  \A t \in 1..Len(plan) : plan[t] \in 1..Len(route)
<1>1. PICK n \in Nat, l \in Nat : n = Len(route) /\ l = Len(plan)
  <2>1. Len(route) \in Nat
    BY DEF IsRoute
  <2>2. Len(plan) \in Nat
    OBVIOUS
  <2> QED BY <2>1, <2>2
<1>2. /\ l # 0 /\ plan[1] = 1 /\ plan[l] = n
      /\ \A t \in 1..(l - 1) : plan[t + 1] = plan[t] + 1 \/ plan[t + 1] = plan[t]
      /\ \A t \in 1..l : plan[t] \in Int
  BY <1>1 DEF Follows
<1>3. ASSUME NEW bad \in SUBSET (1..l), bad # {},
             bad = {t \in 1..l : plan[t] < 1}
      PROVE  FALSE
  <2>1. bad \in SUBSET Nat
    OBVIOUS
  <2>2. PICK t \in bad : \A u \in bad : t <= u
    BY <1>3, <2>1, LeastNatural
  <2>3. t \in 2..l /\ plan[t] < 1
    BY <1>2, <1>3, <2>2
  <2>4. t - 1 \in 1..(l - 1) /\ (t - 1) + 1 = t
    BY <2>3
  <2>5. plan[t] = plan[t - 1] + 1 \/ plan[t] = plan[t - 1]
    BY <1>2, <2>4
  <2>6. plan[t - 1] \in Int /\ plan[t] \in Int
    BY <1>2, <2>3, <2>4
  <2>7. plan[t - 1] < 1
    BY <2>3, <2>5, <2>6
  <2>8. t - 1 \in bad
    BY <1>3, <2>4, <2>7
  <2> QED BY <2>2, <2>4, <2>8
<1>4. ASSUME NEW bad \in SUBSET (1..l), bad # {},
             bad = {t \in 1..l : plan[t] > n}
      PROVE  FALSE
  <2>1. /\ bad \in SUBSET Int /\ bad # {} /\ l \in Int
        /\ \A u \in bad : u <= l
    BY <1>4
  <2>2. Max(bad) \in bad /\ \A u \in bad : u <= Max(bad)
    BY <2>1, MaxIsGreatest
  <2>3. PICK t \in bad : \A u \in bad : u <= t
    BY <2>2
  <2>4. t \in 1..(l - 1) /\ t + 1 \in 1..l
    BY <1>2, <1>4, <2>3
  <2>5. plan[t + 1] = plan[t] + 1 \/ plan[t + 1] = plan[t]
    BY <1>2, <2>4
  <2>6. plan[t + 1] > n
    BY <1>2, <1>4, <2>3, <2>4, <2>5
  <2>7. t + 1 \in bad
    BY <1>4, <2>4, <2>6
  <2> QED BY <2>3, <2>4, <2>7
<1>5. {t \in 1..l : plan[t] < 1} = {} /\ {t \in 1..l : plan[t] > n} = {}
  BY <1>3, <1>4
<1>6. \A t \in 1..l : plan[t] \in Int /\ ~(plan[t] < 1) /\ ~(plan[t] > n)
  BY <1>2, <1>5
<1> QED BY <1>1, <1>6

(* The frame a schedule has reached, at its end and after it.               *)
FrameOf(plan, t) == IF t < Len(plan) THEN plan[t + 1] ELSE plan[Len(plan)]

(* The schedule of robot r follows its route.                               *)
Walks(m, schedules, r) ==
  /\ IsRoute(m.routes[r])
  /\ schedules[r] \in Seq(Int) /\ Follows(m.routes[r], schedules[r])

(* The frames of its path, tick by tick and after it has stopped.           *)
LEMMA PathFacts ==
  ASSUME NEW m, NEW schedules, NEW r, Walks(m, schedules, r)
  PROVE  /\ Len(PathOf(m, schedules, r)) = Len(schedules[r])
         /\ IsRoute(PathOf(m, schedules, r))
         /\ \A t \in Nat :
              /\ FrameOf(schedules[r], t) \in 1..Len(m.routes[r])
              /\ FrameAt(PathOf(m, schedules, r), t) = m.routes[r][FrameOf(schedules[r], t)]
<1>0. /\ IsRoute(m.routes[r])
      /\ schedules[r] \in Seq(Int) /\ Follows(m.routes[r], schedules[r])
  BY DEF Walks
<1>1. PICK plan, route : /\ plan = schedules[r] /\ route = m.routes[r]
                         /\ IsRoute(route) /\ plan \in Seq(Int) /\ Follows(route, plan)
  BY <1>0
<1>2. PICK l \in Nat, n \in Nat : l = Len(plan) /\ n = Len(route)
  <2>1. Len(route) \in Nat
    BY <1>1 DEF IsRoute
  <2>2. Len(plan) \in Nat
    BY <1>1
  <2> QED BY <2>1, <2>2
<1>3. l # 0
  BY <1>1, <1>2 DEF Follows
<1>4. \A t \in 1..l : plan[t] \in 1..n
  BY <1>1, <1>2, FollowsStays
<1>5. DOMAIN plan = 1..l /\ DOMAIN route = 1..n
  BY <1>1, <1>2 DEF IsRoute
<1>6. PICK V : V = {route[k] : k \in 1..n}
  OBVIOUS
<1>7. PICK path : path = PathOf(m, schedules, r)
  OBVIOUS
<1>8. path = [t \in 1..l |-> route[plan[t]]]
  BY <1>1, <1>5, <1>7 DEF PathOf
<1>9. path \in [1..l -> V]
  BY <1>4, <1>6, <1>8
<1>10. path \in Seq(V) /\ Len(path) = l /\ DOMAIN path = 1..l
  BY <1>9
<1>11. \A t \in 1..l : path[t] = route[plan[t]]
  BY <1>8
<1>12. \A k \in 1..n : route[k].pos.x \in Int /\ route[k].pos.y \in Int
  BY <1>1, <1>5 DEF IsRoute
<1>13. IsRoute(path)
  <2>1. \A t \in 1..l : path[t].pos.x \in Int /\ path[t].pos.y \in Int
    BY <1>4, <1>11, <1>12
  <2> QED BY <1>3, <1>10, <2>1 DEF IsRoute
<1>14. ASSUME NEW t \in Nat
       PROVE  FrameOf(plan, t) \in 1..n /\ FrameAt(path, t) = route[FrameOf(plan, t)]
  <2>1. CASE t < l
    <3>1. t + 1 \in 1..l
      BY <2>1
    <3> QED BY <1>2, <1>4, <1>10, <1>11, <2>1, <3>1 DEF FrameOf, FrameAt
  <2>2. CASE ~(t < l)
    <3>1. l \in 1..l
      BY <1>3
    <3> QED BY <1>2, <1>4, <1>10, <1>11, <2>2, <3>1 DEF FrameOf, FrameAt
  <2> QED BY <2>1, <2>2
<1> QED BY <1>1, <1>2, <1>7, <1>10, <1>13, <1>14

(* A legal schedule follows the route.                                      *)
LEMMA LegalFollows ==
  ASSUME NEW j, NEW last, NEW plan \in Seq(Int), Legal(j, plan, last)
  PROVE  Follows(j.route, plan)
<1>1. PICK l \in Nat : l = Len(plan)
  OBVIOUS
<1>2. /\ plan # <<>> /\ plan[1] = 1 /\ plan[Len(plan)] = Len(j.route)
      /\ \A t \in 1..(l - 1) : MayStep(j, plan[t], plan[t + 1], t - 1)
  BY <1>1 DEF Legal
<1>3. \A t \in 1..(l - 1) :
        \/ plan[t + 1] = plan[t] + 1
        \/ plan[t + 1] = plan[t] /\ ~InTransit(j.route[plan[t]])
  BY <1>2 DEF MayStep
<1> QED BY <1>1, <1>2, <1>3 DEF Follows

(* It never meets a robot it was scheduled around, up to the horizon or     *)
(* after it.                                                                *)
LEMMA LegalIsApart ==
  ASSUME NEW j, IsCall(j.route, j.tracks, j.horizon),
         NEW plan \in Seq(Int), Legal(j, plan, 2 * j.horizon), Len(plan) - 1 <= j.horizon,
         NEW o \in j.tracks, NEW t \in Nat
  PROVE  ~Meet(j.route[FrameOf(plan, t)], j.route[FrameOf(plan, t + 1)],
               FrameAt(o.path, t), FrameAt(o.path, t + 1), o.reach)
<1>1. PICK l \in Nat, h \in Nat : l = Len(plan) /\ h = j.horizon
  <2>1. Len(plan) \in Nat /\ j.horizon \in Nat
    BY DEF IsCall
  <2> QED BY <2>1
<1>2. PICK n \in Nat \ {0} : n = Len(j.route)
  BY DEF IsCall, IsRoute
<1>3. /\ l # 0 /\ l - 1 <= h /\ plan[1] = 1 /\ Free(j, 1, 0) /\ plan[l] = n
      /\ \A s \in 1..(l - 1) : MayStep(j, plan[s], plan[s + 1], s - 1)
      /\ MayPark(j, l - 1, 2 * h)
  <2>1. Legal(j, plan, 2 * h)
    BY <1>1
  <2>2. plan # <<>> /\ plan[1] = 1 /\ Free(j, 1, 0) /\ plan[l] = n
    BY <1>1, <1>2, <2>1 DEF Legal
  <2>3. /\ \A s \in 1..(l - 1) : MayStep(j, plan[s], plan[s + 1], s - 1)
        /\ MayPark(j, l - 1, 2 * h)
    BY <1>1, <2>1 DEF Legal
  <2>4. l # 0 /\ l - 1 <= h
    BY <1>1, <2>2
  <2> QED BY <2>2, <2>3, <2>4
<1>4. /\ Free(j, n, l - 1)
      /\ \A s \in (l - 1)..(2 * h - 1) : Passable(j, n, n, s)
  BY <1>2, <1>3 DEF MayPark
<1>5. ASSUME NEW s \in Nat
      PROVE  /\ Free(j, FrameOf(plan, s), s)
             /\ Passable(j, FrameOf(plan, s), FrameOf(plan, s + 1), s)
  <2>1. CASE s < l - 1
    <3>1. s + 1 \in 1..(l - 1) /\ (s + 1) - 1 = s /\ s + 1 < l /\ (s + 1) + 1 = s + 2
      BY <2>1
    <3>2. FrameOf(plan, s) = plan[s + 1] /\ FrameOf(plan, s + 1) = plan[(s + 1) + 1]
      BY <1>1, <2>1, <3>1 DEF FrameOf
    <3>3. MayStep(j, plan[s + 1], plan[(s + 1) + 1], (s + 1) - 1)
      BY <1>3, <3>1
    <3>4. Passable(j, plan[s + 1], plan[(s + 1) + 1], s)
      BY <3>1, <3>3 DEF MayStep
    <3>5. Free(j, plan[s + 1], s)
      <4>1. CASE s = 0
        BY <1>3, <4>1
      <4>2. CASE s # 0
        <5>1. s \in 1..(l - 1) /\ (s - 1) + 1 = s
          BY <2>1, <4>2
        <5>2. MayStep(j, plan[s], plan[s + 1], s - 1)
          BY <1>3, <5>1
        <5> QED BY <5>1, <5>2 DEF MayStep, Passable
      <4> QED BY <4>1, <4>2
    <3> QED BY <3>2, <3>4, <3>5
  <2>2. CASE ~(s < l - 1)
    <3>1. FrameOf(plan, s) = n /\ FrameOf(plan, s + 1) = n
      <4>1. ~(s + 1 < l)
        BY <2>2
      <4>2. FrameOf(plan, s + 1) = plan[l]
        BY <1>1, <4>1 DEF FrameOf
      <4>3. FrameOf(plan, s) = plan[l]
        <5>1. s < l => s + 1 = l
          BY <2>2
        <5> QED BY <1>1, <5>1 DEF FrameOf
      <4> QED BY <1>3, <4>2, <4>3
    <3>2. ASSUME NEW u \in (l - 1)..h
          PROVE  Free(j, n, u)
      <4>1. CASE u = l - 1
        BY <1>4, <4>1
      <4>2. CASE u # l - 1
        <5>1. u - 1 \in (l - 1)..(2 * h - 1) /\ (u - 1) + 1 = u
          <6>1. u \in Int /\ l \in Int /\ h \in Int /\ l - 1 <= u /\ u <= h /\ 0 < l
            BY <1>3
          <6>2. l - 1 < u
            BY <4>2, <6>1
          <6> QED BY <6>1, <6>2
        <5> QED BY <1>4, <5>1 DEF Passable
      <4> QED BY <4>1, <4>2
    <3>3. CASE s < h
      <4>1. s \in (l - 1)..h /\ s \in (l - 1)..(2 * h - 1)
        BY <2>2, <3>3
      <4> QED BY <1>4, <3>1, <3>2, <4>1
    <3>4. CASE h <= s
      <4>1. h \in (l - 1)..h
        BY <1>3
      <4>2. Free(j, n, j.horizon) /\ n \in 1..Len(j.route) /\ j.horizon <= s
        BY <1>1, <1>2, <3>2, <3>4, <4>1
      <4>3. Free(j, n, s) /\ Passable(j, n, n, s)
        BY <4>2, ParkedForGood
      <4> QED BY <3>1, <4>3
    <3> QED BY <3>3, <3>4
  <2> QED BY <2>1, <2>2
<1>6. PICK f, g : f = FrameOf(plan, t) /\ g = FrameOf(plan, t + 1)
  OBVIOUS
<1>7. Free(j, f, t) /\ Passable(j, f, g, t)
  BY <1>5, <1>6
<1>8. /\ ~Collide(j.route[f], FrameAt(o.path, t), o.reach)
      /\ ~Swept(j.route[f], j.route[g], FrameAt(o.path, t), FrameAt(o.path, t + 1), o.reach)
  BY <1>7 DEF Free, Passable
<1> QED BY <1>6, <1>8 DEF Meet

(* The frames of all robots can be counted.                                 *)
LEMMA HorizonIsSum ==
  ASSUME IsMission(mission)
  PROVE  /\ RobotCount \in Nat
         /\ [k \in 1..RobotCount |-> Len(mission.routes[k])] \in [1..RobotCount -> Nat]
         /\ \E f : /\ IsSum(f, RobotCount, [k \in 1..RobotCount |-> Len(mission.routes[k])])
                  /\ Horizon = f[RobotCount]
<1>1. PICK n \in Nat : n = RobotCount
  BY DEF IsMission, RobotCount
<1>2. PICK routes : routes = mission.routes
  OBVIOUS
<1>3. PICK add : add = [k \in 1..n |-> Len(routes[k])]
  OBVIOUS
<1>4. add \in [1..n -> Nat]
  BY <1>1, <1>2, <1>3 DEF IsMission, IsRoute, RobotCount
<1>5. PICK f : f = [k \in 0..n |-> IF k = 0 THEN 0 ELSE f[k - 1] + add[k]]
  BY <1>4, SumExists, Zenon DEF IsSum
<1>6. \A g : g = [k \in 0..n |-> IF k = 0 THEN 0 ELSE g[k - 1] + add[k]] <=>
             g = [k \in 0..n |-> IF k = 0 THEN 0 ELSE g[k - 1] + Len(routes[k])]
  <2> TAKE g
  <2>1. \A k \in 0..n : k # 0 => add[k] = Len(routes[k])
    BY <1>3
  <2>2. [k \in 0..n |-> IF k = 0 THEN 0 ELSE g[k - 1] + add[k]] =
        [k \in 0..n |-> IF k = 0 THEN 0 ELSE g[k - 1] + Len(routes[k])]
    BY <2>1
  <2> QED BY <2>2
<1> DEFINE upTo == CHOOSE g : g = [k \in 0..n |-> IF k = 0 THEN 0 ELSE g[k - 1] + Len(routes[k])]
<1>7. upTo = [k \in 0..n |-> IF k = 0 THEN 0 ELSE upTo[k - 1] + Len(routes[k])]
  BY <1>5, <1>6, Zenon
<1>8. Horizon = upTo[n]
  BY <1>1, <1>2, Zenon DEF Horizon
<1> HIDE DEF upTo
<1>9. IsSum(upTo, n, add)
  BY <1>6, <1>7, Zenon DEF IsSum
<1> QED BY <1>1, <1>2, <1>3, <1>4, <1>8, <1>9, Zenon

LEMMA HorizonIsNat ==
  ASSUME IsMission(mission)
  PROVE  Horizon \in Nat
<1>1. PICK n \in Nat : n = RobotCount
  BY HorizonIsSum
<1>2. PICK add \in [1..n -> Nat] : add = [k \in 1..n |-> Len(mission.routes[k])]
  BY <1>1, HorizonIsSum
<1>3. PICK f : IsSum(f, n, add) /\ Horizon = f[n]
  BY <1>1, <1>2, HorizonIsSum
<1>4. \A k \in 0..n : f[k] \in Nat
  BY <1>3, SumGrows
<1>5. n \in 0..n
  OBVIOUS
<1> QED BY <1>3, <1>4, <1>5

(* The ticks of the first n routes, which the horizon never falls short of. *)
LEMMA LengthsIsSum ==
  ASSUME IsMission(mission)
  PROVE  /\ [k \in 1..RobotCount |-> Len(mission.routes[k]) - 1] \in [1..RobotCount -> Nat]
         /\ \E f : /\ IsSum(f, RobotCount,
                          [k \in 1..RobotCount |-> Len(mission.routes[k]) - 1])
                  /\ \A r : Lengths(r) = f[r]
<1>1. PICK n \in Nat : n = RobotCount
  BY DEF IsMission, RobotCount
<1>2. PICK routes : routes = mission.routes
  OBVIOUS
<1>3. PICK add : add = [k \in 1..n |-> Len(routes[k]) - 1]
  OBVIOUS
<1>4. \A k \in 1..n : Len(routes[k]) \in Nat /\ Len(routes[k]) # 0
  BY <1>1, <1>2 DEF IsMission, IsRoute, RobotCount
<1>5. add \in [1..n -> Nat]
  <2>1. \A k \in 1..n : Len(routes[k]) - 1 \in Nat
    BY <1>4
  <2> QED BY <1>3, <2>1
<1>6. PICK f : f = [k \in 0..n |-> IF k = 0 THEN 0 ELSE f[k - 1] + add[k]]
  BY <1>5, SumExists, Zenon DEF IsSum
<1>7. IsSum(f, n, add)
  BY <1>6, Zenon DEF IsSum
<1>8. \A g : g = [k \in 0..n |-> IF k = 0 THEN 0 ELSE g[k - 1] + add[k]] <=>
             g = [k \in 0..n |-> IF k = 0 THEN 0 ELSE g[k - 1] + (Len(routes[k]) - 1)]
  <2> TAKE g
  <2>1. \A k \in 0..n : k # 0 => add[k] = Len(routes[k]) - 1
    BY <1>3
  <2>2. [k \in 0..n |-> IF k = 0 THEN 0 ELSE g[k - 1] + add[k]] =
        [k \in 0..n |-> IF k = 0 THEN 0 ELSE g[k - 1] + (Len(routes[k]) - 1)]
    BY <2>1
  <2> QED BY <2>2
<1> DEFINE upTo == CHOOSE g :
             g = [k \in 0..n |-> IF k = 0 THEN 0 ELSE g[k - 1] + (Len(routes[k]) - 1)]
<1>9. upTo = [k \in 0..n |-> IF k = 0 THEN 0 ELSE upTo[k - 1] + (Len(routes[k]) - 1)]
  BY <1>6, <1>8, Zenon
<1>10. \A r : Lengths(r) = upTo[r]
  BY <1>1, <1>2, Zenon DEF Lengths
<1> HIDE DEF upTo
<1>11. IsSum(upTo, n, add)
  BY <1>8, <1>9, Zenon DEF IsSum
<1> QED BY <1>1, <1>2, <1>3, <1>5, <1>10, <1>11, Zenon

LEMMA LengthsFacts ==
  ASSUME IsMission(mission)
  PROVE  /\ \A k \in 1..RobotCount : Lengths(k) = Lengths(k - 1) + (Len(mission.routes[k]) - 1)
         /\ \A k \in 0..RobotCount : Lengths(k) \in Nat /\ Lengths(k) <= Horizon
         /\ \A a, b \in 0..RobotCount : a <= b => Lengths(a) <= Lengths(b)
<1>1. PICK n \in Nat : n = RobotCount
  BY HorizonIsSum
<1>2. PICK more \in [1..n -> Nat] : more = [k \in 1..n |-> Len(mission.routes[k])]
  BY <1>1, HorizonIsSum
<1>3. PICK add \in [1..n -> Nat] : add = [k \in 1..n |-> Len(mission.routes[k]) - 1]
  BY <1>1, LengthsIsSum
<1>4. PICK g : IsSum(g, n, more) /\ Horizon = g[n]
  BY <1>1, <1>2, HorizonIsSum
<1>5. PICK f : IsSum(f, n, add) /\ \A r : Lengths(r) = f[r]
  BY <1>1, <1>3, LengthsIsSum
<1>6. IsSum(f, n, add) /\ IsSum(g, n, more)
  BY <1>4, <1>5
<1>7. /\ \A k \in 1..n : f[k] = f[k - 1] + add[k]
      /\ \A k \in 0..n : f[k] \in Nat
      /\ \A a, b \in 0..n : a <= b => f[a] <= f[b]
  BY <1>6, SumGrows
<1>8. \A k \in 1..n : add[k] <= more[k]
  <2> TAKE k \in 1..n
  <2>1. more[k] \in Nat /\ add[k] = more[k] - 1
    BY <1>2, <1>3
  <2> QED BY <2>1
<1>9. \A k \in 0..n : f[k] <= g[k]
  BY <1>6, <1>8, SumOrder
<1>10. /\ \A k \in 0..n : g[k] \in Nat
       /\ \A a, b \in 0..n : a <= b => g[a] <= g[b]
  BY <1>6, SumGrows
<1>11. \A k \in 0..n : f[k] <= g[n]
  <2> TAKE k \in 0..n
  <2>1. n \in 0..n /\ k <= n
    OBVIOUS
  <2>2. f[k] <= g[k] /\ g[k] <= g[n]
    BY <1>9, <1>10, <2>1
  <2> QED BY <1>7, <1>10, <2>1, <2>2
<1>12. \A k \in 1..n : add[k] = Len(mission.routes[k]) - 1
  BY <1>3
<1>13. \A k \in 1..n : Lengths(k) = Lengths(k - 1) + (Len(mission.routes[k]) - 1)
  BY <1>5, <1>7, <1>12
<1> QED BY <1>1, <1>4, <1>5, <1>7, <1>11, <1>13
-----------------------------------------------------------------------------
(* The robots of R have schedules that follow their routes, end in time and *)
(* never meet.                                                              *)
IsPlanned(m, h, schedules, r) ==
  /\ schedules[r] \in Seq(Int) /\ Len(schedules[r]) - 1 <= h
  /\ Follows(m.routes[r], schedules[r])

Apart(m, schedules, R) ==
  \A a, b \in R : a # b => \A t \in Nat : ~MeetAt(m, schedules, a, b, t)

Decided(m, h, schedules, R) ==
  /\ \A r \in R : IsPlanned(m, h, schedules, r)
  /\ Apart(m, schedules, R)

TracksIn(m, schedules, R, r) ==
  {[robot |-> o, path |-> PathOf(m, schedules, o), reach |-> Reach(m, r, o)] : o \in R}

(* Where a robot that keeps to its schedule is.                             *)
LEMMA PlannedFrames ==
  ASSUME NEW m, IsMission(m), NEW h, NEW schedules, NEW r \in DOMAIN m.routes,
         IsPlanned(m, h, schedules, r), NEW t \in Nat
  PROVE  /\ FrameAt(PathOf(m, schedules, r), t) = m.routes[r][FrameOf(schedules[r], t)]
         /\ FrameAt(PathOf(m, schedules, r), t).pos.x \in Int
         /\ FrameAt(PathOf(m, schedules, r), t).pos.y \in Int
<1>1. IsRoute(m.routes[r])
  BY DEF IsMission
<1>2. schedules[r] \in Seq(Int) /\ Follows(m.routes[r], schedules[r])
  BY DEF IsPlanned
<1>3. PICK f : f = FrameOf(schedules[r], t)
  OBVIOUS
<1>4. f \in 1..Len(m.routes[r]) /\ FrameAt(PathOf(m, schedules, r), t) = m.routes[r][f]
  <2>1. /\ FrameOf(schedules[r], t) \in 1..Len(m.routes[r])
        /\ FrameAt(PathOf(m, schedules, r), t) = m.routes[r][FrameOf(schedules[r], t)]
    <3>1. Walks(m, schedules, r)
      BY <1>1, <1>2 DEF Walks
    <3> QED BY <3>1, PathFacts
  <2> QED BY <1>3, <2>1, Zenon
<1>5. m.routes[r][f].pos.x \in Int /\ m.routes[r][f].pos.y \in Int
  BY <1>1, <1>4 DEF IsRoute
<1> QED BY <1>3, <1>4, <1>5

(* Robot r can be scheduled around them.                                    *)
LEMMA DecidedAreTracks ==
  ASSUME NEW m, IsMission(m), NEW h \in Nat, NEW schedules,
         NEW R \in SUBSET (DOMAIN m.routes), Decided(m, h, schedules, R),
         NEW r \in DOMAIN m.routes
  PROVE  IsCall(m.routes[r], TracksIn(m, schedules, R, r), h)
<1>1. ASSUME NEW o \in R
      PROVE  /\ IsRoute(PathOf(m, schedules, o))
             /\ Len(PathOf(m, schedules, o)) - 1 <= h
             /\ Reach(m, r, o) \in Int
  <2>1. IsRoute(m.routes[o]) /\ m.size[o] \in Nat /\ m.size[r] \in Nat
    BY DEF IsMission
  <2>2. /\ schedules[o] \in Seq(Int) /\ Follows(m.routes[o], schedules[o])
        /\ Len(schedules[o]) - 1 <= h
    BY DEF Decided, IsPlanned
  <2>3. /\ Len(PathOf(m, schedules, o)) = Len(schedules[o])
        /\ IsRoute(PathOf(m, schedules, o))
    <3>1. Walks(m, schedules, o)
      BY <2>1, <2>2 DEF Walks
    <3> QED BY <3>1, PathFacts
  <2> QED BY <2>1, <2>2, <2>3 DEF Reach
<1>2. ASSUME NEW t \in TracksIn(m, schedules, R, r)
      PROVE  IsTrack(t, h)
  <2>1. PICK o \in R : /\ t.path = PathOf(m, schedules, o)
                       /\ t.reach = Reach(m, r, o)
    BY DEF TracksIn
  <2> QED BY <1>1, <2>1 DEF IsTrack
<1>3. IsRoute(m.routes[r]) /\ ~InTransit(m.routes[r][1])
  BY DEF IsMission
<1> QED BY <1>2, <1>3 DEF IsCall

(* A schedule found around them never meets theirs: r joins the robots      *)
(* that have decided.                                                       *)
LEMMA FoundIsDecided ==
  ASSUME NEW m, IsMission(m), NEW h \in Nat, NEW schedules,
         NEW R \in SUBSET (DOMAIN m.routes), Decided(m, h, schedules, R),
         NEW r \in DOMAIN m.routes, r \notin R,
         NEW j, j.route = m.routes[r], j.tracks = TracksIn(m, schedules, R, r), j.horizon = h,
         NEW plan \in Seq(Int), Legal(j, plan, 2 * j.horizon), Len(plan) - 1 <= j.horizon,
         NEW new, new[r] = plan, \A o \in R : new[o] = schedules[o]
  PROVE  Decided(m, h, new, R \cup {r})
<1>1. IsCall(j.route, j.tracks, j.horizon)
  BY DecidedAreTracks
<1>2. Follows(m.routes[r], plan)
  BY LegalFollows
<1>3. \A o \in R : IsPlanned(m, h, schedules, o)
  BY DEF Decided
<1>4. \A o \in R \cup {r} : IsPlanned(m, h, new, o)
  <2>1. IsPlanned(m, h, new, r)
    BY <1>2 DEF IsPlanned
  <2>2. \A o \in R : IsPlanned(m, h, new, o)
    BY <1>3 DEF IsPlanned
  <2> QED BY <2>1, <2>2
<1>5. \A o \in R : PathOf(m, new, o) = PathOf(m, schedules, o)
  BY DEF PathOf
<1>6. \A o \in R : o \in DOMAIN m.routes /\ o # r
  OBVIOUS
<1>7. j.tracks = {[robot |-> o, path |-> PathOf(m, new, o), reach |-> Reach(m, r, o)] : o \in R}
  BY <1>5 DEF TracksIn
<1>8. \A t \in Nat : FrameAt(PathOf(m, new, r), t) = j.route[FrameOf(plan, t)]
  BY <1>4, PlannedFrames
<1>9. ASSUME NEW o \in R, NEW t \in Nat
      PROVE  ~MeetAt(m, new, r, o, t) /\ ~MeetAt(m, new, o, r, t)
  <2>1. PICK track \in j.tracks : track.path = PathOf(m, new, o) /\ track.reach = Reach(m, r, o)
    <3>1. PICK p, d : p = PathOf(m, new, o) /\ d = Reach(m, r, o)
      OBVIOUS
    <3>2. PICK track : track = [robot |-> o, path |-> p, reach |-> d]
      OBVIOUS
    <3>3. track \in j.tracks
      BY <1>7, <3>1, <3>2
    <3>4. track.path = p /\ track.reach = d
      BY <3>2
    <3> QED BY <3>1, <3>3, <3>4
  <2>2. ~Meet(j.route[FrameOf(plan, t)], j.route[FrameOf(plan, t + 1)],
              FrameAt(track.path, t), FrameAt(track.path, t + 1), track.reach)
    BY <1>1, LegalIsApart
  <2>3. t \in Nat /\ t + 1 \in Nat
    OBVIOUS
  <2>4. PICK a, a2 : /\ a = FrameAt(PathOf(m, new, r), t)
                     /\ a2 = FrameAt(PathOf(m, new, r), t + 1)
    OBVIOUS
  <2>5. PICK b, b2 : b = FrameAt(PathOf(m, new, o), t) /\ b2 = FrameAt(PathOf(m, new, o), t + 1)
    OBVIOUS
  <2>6. m.size[r] \in Nat /\ m.size[o] \in Nat
    BY <1>6 DEF IsMission
  <2>7. Reach(m, r, o) \in Int /\ Reach(m, o, r) = Reach(m, r, o)
    BY <2>6 DEF Reach
  <2>8. PICK d \in Int : d = Reach(m, r, o) /\ d = Reach(m, o, r)
    BY <2>7
  <2>9. ~Meet(a, a2, b, b2, d)
    BY <1>8, <2>1, <2>2, <2>3, <2>4, <2>5, <2>8
  <2>10. \A f \in {b, b2, a, a2} : f.pos.x \in Int /\ f.pos.y \in Int
    <3>1. \A q \in {o, r}, u \in {t, t + 1} :
            /\ FrameAt(PathOf(m, new, q), u).pos.x \in Int
            /\ FrameAt(PathOf(m, new, q), u).pos.y \in Int
      BY <1>4, <1>6, <2>3, PlannedFrames
    <3> QED BY <2>4, <2>5, <3>1, Zenon
  <2>11. ~Meet(b, b2, a, a2, d)
    BY <2>9, <2>10, MeetIsMutual
  <2> QED BY <2>4, <2>5, <2>8, <2>9, <2>11 DEF MeetAt
<1>10. ASSUME NEW a \in R, NEW b \in R, a # b, NEW t \in Nat
       PROVE  ~MeetAt(m, new, a, b, t)
  <2>1. ~MeetAt(m, schedules, a, b, t)
    BY <1>10 DEF Decided, Apart
  <2> QED BY <1>5, <2>1 DEF MeetAt
<1>11. Apart(m, new, R \cup {r})
  BY <1>9, <1>10 DEF Apart
<1> QED BY <1>4, <1>11 DEF Decided
-----------------------------------------------------------------------------
(* The search under way is for robot r, around the robots of R.             *)
JobIs(r, schedules, R) ==
  /\ r \in Robots \ R
  /\ job.route = mission.routes[r]
  /\ job.tracks = TracksIn(mission, schedules, R, r)
  /\ job.horizon = Horizon

ScheduleInv ==
  /\ agent \in 1..(RobotCount + 1)
  /\ Decided(mission, Horizon, plans, 1..(agent - 1))
  /\ verdict # "idle" => JobIs(agent, plans, 1..(agent - 1))

(* The robots out of the queue have decided, and only the robots on trial   *)
(* can have other schedules than before.                                    *)
RepairInv ==
  /\ DOMAIN candidate = Robots /\ Robots # {}
  /\ trial \subseteq Robots /\ IsFiniteSet(trial) /\ Cardinality(trial) <= 3
  /\ queue \in Seq(trial)
  /\ \A r \in Robots \ trial : candidate[r] = plans[r]
  /\ \A r \in Robots : IsPlanned(mission, Horizon, candidate, r)
  /\ Decided(mission, Horizon, candidate, Robots \ Range(queue))
  /\ verdict # "idle" => /\ queue # <<>>
                         /\ JobIs(Head(queue), candidate, Robots \ Range(queue))

(* The inductive invariant of the call, but for conflict-based search.      *)
CoordinationInv ==
  /\ mission \in Missions
  /\ SearchInv
  /\ phase \in {"start", "schedule", "repair", "trying"} => DOMAIN plans = Robots
  /\ phase = "start" => agent = 1
  /\ blocking \in [Robots -> [Robots -> Int]]
  /\ verdict # "idle" => phase \in {"schedule", "trying"}
  /\ phase = "schedule" => ScheduleInv
  /\ phase \in {"repair", "trying"} => Decided(mission, Horizon, plans, Robots)
  /\ phase = "trying" => RepairInv

LEMMA MissionStays ==
  ASSUME mission' = mission
  PROVE  Horizon' = Horizon /\ Robots' = Robots /\ RobotCount' = RobotCount
BY DEF Horizon, Robots, RobotCount

LEMMA MissionFacts ==
  ASSUME mission \in Missions
  PROVE  /\ IsMission(mission) /\ Horizon \in Nat
         /\ RobotCount \in Nat /\ Robots = 1..RobotCount
<1>1. IsMission(mission)
  BY MissionsAssumption
<1> QED BY <1>1, HorizonIsNat DEF IsMission, Robots, RobotCount

(* A search begun for robot r, and one that goes on.                        *)
LEMMA SearchBegins ==
  ASSUME mission \in Missions, NEW schedules, NEW R \in SUBSET Robots, NEW r \in Robots \ R,
         Decided(mission, Horizon, schedules, R), NEW limit,
         StartSearch(prepare_reservations(r, schedules, R), limit)
  PROVE  /\ SearchInv' /\ verdict' # "idle"
         /\ job'.route = mission.routes[r]
         /\ job'.tracks = TracksIn(mission, schedules, R, r)
         /\ job'.horizon = Horizon
<1>1. PICK route, tracks, horizon :
        /\ route = mission.routes[r]
        /\ tracks = TracksIn(mission, schedules, R, r)
        /\ horizon = Horizon
  OBVIOUS
<1>2. IsCall(route, tracks, horizon)
  <2>1. r \in DOMAIN mission.routes /\ R \in SUBSET (DOMAIN mission.routes)
    BY DEF Robots
  <2> QED BY <1>1, <2>1, MissionFacts, DecidedAreTracks
<1>3. prepare_reservations(r, schedules, R) = Reserve(route, tracks, horizon)
  BY <1>1 DEF prepare_reservations, TracksOf, TracksIn
<1>4. StartSearch(Reserve(route, tracks, horizon), limit)
  BY <1>3
<1> QED BY <1>1, <1>2, <1>4, StartsSearched

(* A schedule that is found joins those it was searched around.             *)
LEMMA SearchFinds ==
  ASSUME mission \in Missions, NEW schedules, NEW R \in SUBSET Robots, NEW r,
         Decided(mission, Horizon, schedules, R), JobIs(r, schedules, R),
         SearchInv, verdict = "found", r \in DOMAIN schedules,
         NEW new, new = [schedules EXCEPT ![r] = schedule], R \subseteq DOMAIN schedules
  PROVE  Decided(mission, Horizon, new, R \cup {r})
<1>1. PICK m, h, j, plan : m = mission /\ h = Horizon /\ j = job /\ plan = schedule
  OBVIOUS
<1>2. IsMission(m) /\ h \in Nat
  BY <1>1, MissionFacts
<1>3. r \in DOMAIN m.routes /\ r \notin R /\ R \in SUBSET (DOMAIN m.routes)
  BY <1>1 DEF JobIs, Robots
<1>4. j.route = m.routes[r] /\ j.tracks = TracksIn(m, schedules, R, r) /\ j.horizon = h
  BY <1>1 DEF JobIs
<1>5. plan \in Seq(Int) /\ Legal(j, plan, 2 * j.horizon) /\ Len(plan) - 1 <= j.horizon
  BY <1>1 DEF SearchInv
<1>6. new[r] = plan /\ \A o \in R : new[o] = schedules[o]
  BY <1>1, <1>3
<1>7. Decided(m, h, schedules, R)
  BY <1>1
<1>8. Decided(m, h, new, R \cup {r})
  BY <1>2, <1>3, <1>4, <1>5, <1>6, <1>7, FoundIsDecided
<1> QED BY <1>1, <1>8

LEMMA SearchCleared ==
  ASSUME ClearSearch
  PROVE  SearchInv' /\ verdict' = "idle"
BY DEF ClearSearch, SearchInv

LEMMA CoordinationInvInitially ==
  ASSUME Init
  PROVE  CoordinationInv
<1>1. /\ mission \in Missions /\ verdict = "idle" /\ phase = "start"
      /\ DOMAIN plans = Robots /\ agent = 1
  BY DEF Init
<1>2. blocking \in [Robots -> [Robots -> Int]]
  <2>1. blocking = [r \in Robots |-> [o \in Robots |-> 0]]
    BY DEF Init
  <2> QED BY <2>1
<1> QED BY <1>1, <1>2 DEF CoordinationInv, SearchInv

(* The departures lost to another robot can be counted.                     *)
LEMMA BlockedIsFinite ==
  ASSUME NEW route, IsRoute(route), NEW p \in Seq(Int), NEW others
  PROVE  Cardinality(UNION {BlockedDepartures(route, p, o) : o \in others}) \in Int
<1>1. PICK l, n \in Int : l = Len(p) - 2 /\ n = Len(route)
  <2>1. Len(p) \in Nat /\ Len(route) \in Nat
    BY DEF IsRoute
  <2>2. Len(p) - 2 \in Int /\ Len(route) \in Int
    BY <2>1
  <2> QED BY <2>2
<1>2. PICK ticks : ticks = {t \in 0..l : p[t + 1] = p[t + 2]}
  OBVIOUS
<1>3. IsFiniteSet(ticks \X DOMAIN route)
  <2>1. IsFiniteSet(0..l) /\ IsFiniteSet(1..n)
    BY FS_Interval
  <2>2. ticks \in SUBSET (0..l) /\ DOMAIN route = 1..n
    BY <1>1, <1>2 DEF IsRoute
  <2>3. IsFiniteSet(ticks)
    BY <2>1, <2>2, FS_Subset
  <2> QED BY <2>1, <2>2, <2>3, FS_Product
<1>4. \A o \in others : BlockedDepartures(route, p, o) \subseteq ticks \X DOMAIN route
  <2> TAKE o \in others
  <2> DEFINE Waits == {t \in 0..(Len(p) - 2) : p[t + 1] = p[t + 2]}
             Leaving(t) == p[t + 1]..(MoveEnd(route, p[t + 1]) - 1)
             Lost(t, g) ==
               t + g - p[t + 1] \in Ticks(MotionOf(o, route[g], route[g + 1], Horizon))
  <2>1. BlockedDepartures(route, p, o) =
          {tg \in Waits \X DOMAIN route : tg[2] \in Leaving(tg[1]) /\ Lost(tg[1], tg[2])}
    BY Zenon DEF BlockedDepartures
  <2>2. Waits = ticks
    BY <1>1, <1>2
  <2> HIDE DEF Waits, Leaving, Lost
  <2> QED BY <2>1, <2>2
<1>5. PICK all : all = UNION {BlockedDepartures(route, p, o) : o \in others}
  OBVIOUS
<1>6. all \in SUBSET (ticks \X DOMAIN route)
  BY <1>4, <1>5
<1>7. Cardinality(all) \in Nat
  BY <1>3, <1>6, FS_Subset, FS_CardinalityType
<1> QED BY <1>5, <1>7

LEMMA ScheduleNextKeepsInv ==
  ASSUME CoordinationInv, ScheduleNext
  PROVE  CoordinationInv'
<1>1. /\ phase = "schedule" /\ agent <= RobotCount
      /\ StartSearch(prepare_reservations(agent, plans, 1..(agent - 1)), 0)
      /\ UNCHANGED coordinatorVars
  BY DEF ScheduleNext
<1>2. mission \in Missions /\ ScheduleInv
  BY <1>1 DEF CoordinationInv
<1>3. agent \in Robots \ (1..(agent - 1)) /\ 1..(agent - 1) \in SUBSET Robots
  <2>1. RobotCount \in Nat /\ Robots = 1..RobotCount /\ agent \in 1..(RobotCount + 1)
    BY <1>2, MissionFacts DEF ScheduleInv
  <2>2. agent \in 1..RobotCount /\ agent \notin 1..(agent - 1)
    BY <1>1, <2>1
  <2>3. \A o \in 1..(agent - 1) : o \in 1..RobotCount
    BY <2>1, <2>2
  <2> QED BY <2>1, <2>2, <2>3
<1>4. Decided(mission, Horizon, plans, 1..(agent - 1))
  BY <1>2 DEF ScheduleInv
<1>5. /\ SearchInv' /\ verdict' # "idle"
      /\ job'.route = mission.routes[agent]
      /\ job'.tracks = TracksIn(mission, plans, 1..(agent - 1), agent)
      /\ job'.horizon = Horizon
  BY <1>1, <1>2, <1>3, <1>4, SearchBegins
<1>6. /\ mission' = mission /\ phase' = phase /\ plans' = plans /\ agent' = agent
      /\ blocking' = blocking
  BY <1>1 DEF coordinatorVars
<1>7. Horizon' = Horizon /\ Robots' = Robots /\ RobotCount' = RobotCount
  BY <1>6, MissionStays
<1>8. JobIs(agent, plans, 1..(agent - 1))'
  BY <1>3, <1>5, <1>6, <1>7 DEF JobIs
<1>9. ScheduleInv'
  BY <1>2, <1>6, <1>7, <1>8 DEF ScheduleInv
<1> QED BY <1>1, <1>5, <1>6, <1>7, <1>9 DEF CoordinationInv

LEMMA SearchOnKeepsInv ==
  ASSUME CoordinationInv, SearchOn
  PROVE  CoordinationInv'
<1>1. SearchInv /\ Search /\ UNCHANGED coordinatorVars
  BY DEF SearchOn, CoordinationInv
<1>2. SearchInv' /\ job' = job /\ verdict # "idle"
  BY <1>1, SearchKeepsInv
<1>3. /\ mission' = mission /\ phase' = phase /\ plans' = plans /\ agent' = agent
      /\ blocking' = blocking /\ candidate' = candidate /\ queue' = queue /\ trial' = trial
  BY <1>1 DEF coordinatorVars
<1>4. Horizon' = Horizon /\ Robots' = Robots /\ RobotCount' = RobotCount
  BY <1>3, MissionStays
<1>5. phase = "schedule" => ScheduleInv'
  BY <1>2, <1>3, <1>4 DEF CoordinationInv, ScheduleInv, JobIs
<1>6. phase = "trying" => RepairInv'
  BY <1>2, <1>3, <1>4 DEF CoordinationInv, RepairInv, JobIs
<1> QED BY <1>2, <1>3, <1>4, <1>5, <1>6 DEF CoordinationInv

LEMMA ScheduledKeepsInv ==
  ASSUME CoordinationInv, Scheduled
  PROVE  CoordinationInv'
<1>1. /\ phase = "schedule" /\ verdict = "found" /\ plans' = [plans EXCEPT ![agent] = schedule]
      /\ agent' = agent + 1 /\ ClearSearch /\ mission' = mission /\ phase' = phase
  BY DEF Scheduled
<1>2. /\ mission \in Missions /\ ScheduleInv /\ SearchInv /\ DOMAIN plans = Robots
      /\ blocking \in [Robots -> [Robots -> Int]]
  BY <1>1 DEF CoordinationInv
<1>3. PICK R : R = 1..(agent - 1)
  OBVIOUS
<1>4. /\ agent \in 1..(RobotCount + 1) /\ Decided(mission, Horizon, plans, R)
      /\ JobIs(agent, plans, R)
  BY <1>1, <1>2, <1>3 DEF ScheduleInv
<1>5. RobotCount \in Nat /\ Robots = 1..RobotCount /\ agent \in 1..RobotCount
  BY <1>2, <1>4, MissionFacts DEF JobIs
<1>6. R \in SUBSET Robots /\ R \cup {agent} = 1..agent
  BY <1>3, <1>5
<1>7. Decided(mission, Horizon, plans', R \cup {agent})
  BY <1>1, <1>2, <1>4, <1>5, <1>6, SearchFinds
<1>8. Horizon' = Horizon /\ Robots' = Robots /\ RobotCount' = RobotCount
  BY <1>1, MissionStays
<1>9. SearchInv' /\ verdict' = "idle"
  BY <1>1, SearchCleared
<1>10. ScheduleInv'
  <2>1. (agent + 1) - 1 = agent /\ agent + 1 \in 1..(RobotCount + 1)
    BY <1>5
  <2>2. Decided(mission, Horizon, plans', 1..((agent + 1) - 1))
    BY <1>6, <1>7, <2>1
  <2> QED BY <1>1, <1>8, <1>9, <2>1, <2>2 DEF ScheduleInv
<1>11. blocking' \in [Robots -> [Robots -> Int]]
  <2>1. IsRoute(job.route) /\ schedule \in Seq(Int)
    BY <1>1, <1>2 DEF SearchInv, Prepared, IsCall
  <2>2. PICK new : new = [r \in Robots |->
                 LET own == {o \in job.tracks : o.robot = r}
                 IN Cardinality(UNION {BlockedDepartures(job.route, schedule, o) : o \in own})]
    OBVIOUS
  <2>3. blocking' = [blocking EXCEPT ![agent] = new]
    BY <2>2 DEF Scheduled
  <2>4. new \in [Robots -> Int]
    BY <2>1, <2>2, BlockedIsFinite
  <2> QED BY <1>2, <2>3, <2>4
<1> QED BY <1>1, <1>2, <1>8, <1>9, <1>10, <1>11 DEF CoordinationInv

LEMMA CheckStartsKeepsInv ==
  ASSUME CoordinationInv, CheckStarts
  PROVE  CoordinationInv'
<1>1. /\ phase = "start" /\ phase' \in {"rejected", "schedule"}
      /\ mission' = mission /\ plans' = plans /\ agent' = agent /\ blocking' = blocking
      /\ UNCHANGED searchVars
  BY DEF CheckStarts
<1>2. /\ mission \in Missions /\ agent = 1 /\ verdict = "idle" /\ SearchInv
      /\ DOMAIN plans = Robots
  BY <1>1 DEF CoordinationInv
<1>3. Horizon' = Horizon /\ Robots' = Robots /\ RobotCount' = RobotCount
  BY <1>1, MissionStays
<1>4. SearchInv' /\ verdict' = verdict
  BY <1>1, <1>2 DEF searchVars, SearchInv
<1>5. Decided(mission, Horizon, plans, 1..(1 - 1))
  <2>1. 1..(1 - 1) = {}
    OBVIOUS
  <2> QED BY <2>1 DEF Decided, Apart
<1>6. ScheduleInv'
  <2>1. 1 \in 1..(RobotCount + 1)
    BY <1>2, MissionFacts
  <2> QED BY <1>1, <1>2, <1>3, <1>4, <1>5, <2>1 DEF ScheduleInv
<1> QED BY <1>1, <1>2, <1>3, <1>4, <1>6 DEF CoordinationInv

LEMMA AllScheduledKeepsInv ==
  ASSUME CoordinationInv, AllScheduled
  PROVE  /\ CoordinationInv'
         /\ Decided(mission, Horizon, plans, Robots) /\ DOMAIN plans = Robots
<1>1. /\ phase = "schedule" /\ phase' \in {"cbs", "repair"} /\ agent > RobotCount
      /\ mission' = mission /\ plans' = plans /\ agent' = agent /\ blocking' = blocking
      /\ UNCHANGED searchVars
  BY DEF AllScheduled
<1>2. /\ mission \in Missions /\ ScheduleInv /\ SearchInv
      /\ DOMAIN plans = Robots
  BY <1>1 DEF CoordinationInv
<1>3. Horizon' = Horizon /\ Robots' = Robots /\ RobotCount' = RobotCount
  BY <1>1, MissionStays
<1>4. RobotCount \in Nat /\ Robots = 1..RobotCount /\ agent \in 1..(RobotCount + 1)
  BY <1>2, MissionFacts DEF ScheduleInv
<1>5. agent - 1 = RobotCount
  BY <1>1, <1>4
<1>6. Decided(mission, Horizon, plans, Robots)
  <2>1. 1..(agent - 1) = Robots
    BY <1>4, <1>5
  <2> QED BY <1>2, <2>1 DEF ScheduleInv
<1>7. verdict = "idle"
  <2>1. agent \notin Robots
    BY <1>1, <1>4
  <2> QED BY <1>2, <2>1 DEF ScheduleInv, JobIs
<1>8. SearchInv' /\ verdict' = verdict
  BY <1>1, <1>2 DEF searchVars, SearchInv
<1> QED BY <1>1, <1>2, <1>3, <1>6, <1>7, <1>8 DEF CoordinationInv

(* Steps that leave the schedules or are done with them.                    *)
LEMMA EndingsKeepInv ==
  ASSUME CoordinationInv, mission' = mission, blocking' = blocking,
         phase' \in {"cbs", "done", "failed"},
         ClearSearch \/ (verdict = "idle" /\ UNCHANGED searchVars)
  PROVE  CoordinationInv'
<1>1. Horizon' = Horizon /\ Robots' = Robots /\ RobotCount' = RobotCount
  BY MissionStays
<1>2. SearchInv' /\ verdict' = "idle"
  <2>1. CASE ClearSearch
    BY <2>1, SearchCleared
  <2>2. CASE verdict = "idle" /\ UNCHANGED searchVars
    BY <2>2 DEF searchVars, SearchInv
  <2> QED BY <2>1, <2>2
<1> QED BY <1>1, <1>2 DEF CoordinationInv

LEMMA BeginRepairKeepsInv ==
  ASSUME CoordinationInv, BeginRepair
  PROVE  CoordinationInv'
<1>1. /\ phase = "repair" /\ phase' = "trying" /\ candidate' = plans
      /\ trial' = {Critical} \cup WorstBlockers /\ queue' = <<Critical>> \o InOrder(WorstBlockers)
      /\ mission' = mission /\ plans' = plans /\ blocking' = blocking /\ UNCHANGED searchVars
      /\ RobotCount >= 2
  BY DEF BeginRepair, WorthRepairing
<1>2. /\ mission \in Missions /\ SearchInv /\ verdict = "idle" /\ DOMAIN plans = Robots
      /\ Decided(mission, Horizon, plans, Robots) /\ blocking \in [Robots -> [Robots -> Int]]
  BY <1>1 DEF CoordinationInv
<1>3. PICK n \in Nat : n = RobotCount /\ Robots = 1..n /\ n >= 2
  BY <1>1, <1>2, MissionFacts
<1>4. IsFiniteSet(Robots)
  BY <1>3, FS_Interval
<1>5. Critical \in Robots
  <2>1. PICK costs : costs = {Cost(plans[r]) : r \in Robots}
    OBVIOUS
  <2>2. costs \in SUBSET Int /\ costs # {}
    <3>1. \A r \in Robots : Cost(plans[r]) \in Int
      BY <1>2 DEF Decided, IsPlanned, Cost
    <3>2. 1 \in Robots
      BY <1>3
    <3> QED BY <2>1, <3>1, <3>2
  <2>3. \A c \in costs : c <= Horizon
    BY <1>2, <2>1 DEF Decided, IsPlanned, Cost
  <2>4. Max(costs) \in costs
    <3>1. PICK h \in Int : h = Horizon
      BY <1>2, MissionFacts
    <3>2. \A c \in costs : c <= h
      BY <2>3, <3>1
    <3> QED BY <2>2, <3>2, MaxIsGreatest
  <2>5. Makespan(plans) = Max(costs)
    BY <1>2, <2>1 DEF Makespan
  <2>6. PICK last : last = {r \in Robots : Cost(plans[r]) = Makespan(plans)}
    OBVIOUS
  <2>7. last # {}
    BY <2>1, <2>4, <2>5, <2>6
  <2>8. last \in SUBSET Int /\ \A r \in last : 1 <= r
    BY <1>3, <2>6
  <2>9. Min(last) \in last
    BY <2>7, <2>8, MinIsLeast
  <2> QED BY <2>6, <2>9 DEF Critical
<1>6. WorstBlockers \subseteq Robots /\ IsFiniteSet(WorstBlockers) /\ Cardinality(WorstBlockers) <= 2
  <2>1. PICK B : B = Blockers
    OBVIOUS
  <2>2. B \in SUBSET Robots
    BY <2>1 DEF Blockers
  <2>3. B \in SUBSET Int /\ IsFiniteSet(B)
    <3>1. IsFiniteSet(B)
      BY <1>4, <2>2, FS_Subset
    <3> QED BY <1>3, <2>2, <3>1
  <2>4. PICK score : score = blocking[Critical]
    OBVIOUS
  <2>5. \A r \in B : score[r] \in Int
    BY <1>2, <1>5, <2>2, <2>4
  <2>6. WorstBlockers = {r \in B : Cardinality({o \in B : \/ score[o] > score[r]
                                                          \/ score[o] = score[r] /\ o < r}) < 2}
    BY <2>1, <2>4 DEF WorstBlockers
  <2>7. IsFiniteSet(WorstBlockers) /\ Cardinality(WorstBlockers) <= 2
    BY <2>3, <2>5, <2>6, TwoComeFirst
  <2> QED BY <2>2, <2>6, <2>7
<1>7. PICK S : S = trial'
  OBVIOUS
<1>8. S \subseteq Robots /\ IsFiniteSet(S) /\ Cardinality(S) <= 3
  <2>1. Cardinality(WorstBlockers) \in Nat
    BY <1>6, FS_CardinalityType
  <2>2. S = WorstBlockers \cup {Critical}
    BY <1>1, <1>7
  <2>3. /\ IsFiniteSet(WorstBlockers \cup {Critical})
        /\ \/ Cardinality(WorstBlockers \cup {Critical}) = Cardinality(WorstBlockers)
           \/ Cardinality(WorstBlockers \cup {Critical}) = Cardinality(WorstBlockers) + 1
    BY <1>6, FS_AddElement
  <2> QED BY <1>5, <1>6, <2>1, <2>2, <2>3
<1>9. queue' \in Seq(S)
  <2>1. PICK rest : rest = InOrder(WorstBlockers)
    OBVIOUS
  <2>2. WorstBlockers \in SUBSET Int
    BY <1>3, <1>6
  <2>3. rest \in [1..Cardinality(WorstBlockers) -> WorstBlockers] /\ Cardinality(WorstBlockers) \in Nat
    BY <1>6, <2>1, <2>2, InOrderExact
  <2>4. rest \in Seq(S) /\ <<Critical>> \in Seq(S)
    BY <1>1, <1>7, <2>3
  <2>5. <<Critical>> \o rest \in Seq(S)
    BY <2>4
  <2> QED BY <1>1, <2>1, <2>5
<1>10. Horizon' = Horizon /\ Robots' = Robots /\ RobotCount' = RobotCount
  BY <1>1, MissionStays
<1>11. SearchInv' /\ verdict' = verdict
  BY <1>1, <1>2 DEF searchVars, SearchInv
<1>12. Decided(mission, Horizon, plans, Robots \ Range(queue'))
  BY <1>2 DEF Decided, Apart
<1>13. \A r \in Robots : IsPlanned(mission, Horizon, plans, r)
  BY <1>2 DEF Decided
<1>14. RepairInv'
  BY <1>1, <1>2, <1>5, <1>7, <1>8, <1>9, <1>10, <1>11, <1>12, <1>13 DEF RepairInv
<1> QED BY <1>1, <1>2, <1>10, <1>11, <1>14 DEF CoordinationInv

LEMMA DecidedAmongFewer ==
  ASSUME NEW m, NEW h, NEW schedules, NEW R, NEW S \in SUBSET R, Decided(m, h, schedules, R)
  PROVE  Decided(m, h, schedules, S)
BY DEF Decided, Apart

(* The head of the queue, and the robots without it.                        *)
LEMMA QueueFacts ==
  ASSUME NEW S, NEW q \in Seq(S), q # <<>>
  PROVE  /\ Head(q) \in S /\ Tail(q) \in Seq(S)
         /\ Range(q) = Range(Tail(q)) \cup {Head(q)}
<1>1. PICK n \in Nat : n = Len(q) /\ n # 0
  OBVIOUS
<1>2. /\ Head(q) = q[1] /\ Head(q) \in S /\ Tail(q) \in Seq(S)
      /\ Len(Tail(q)) = n - 1 /\ \A k \in 1..(n - 1) : Tail(q)[k] = q[k + 1]
  BY <1>1
<1>3. /\ DOMAIN q = 1..n /\ DOMAIN Tail(q) = 1..(n - 1)
  BY <1>1, <1>2
<1>4. ASSUME NEW x \in Range(q)
      PROVE  x \in Range(Tail(q)) \cup {Head(q)}
  <2>1. PICK k \in 1..n : x = q[k]
    BY <1>3 DEF Range
  <2>2. CASE k = 1
    BY <1>2, <2>1, <2>2
  <2>3. CASE k # 1
    <3>1. k - 1 \in 1..(n - 1) /\ (k - 1) + 1 = k
      BY <2>3
    <3>2. x = Tail(q)[k - 1]
      BY <1>2, <2>1, <3>1
    <3> QED BY <1>3, <3>1, <3>2 DEF Range
  <2> QED BY <2>2, <2>3
<1>5. ASSUME NEW x \in Range(Tail(q))
      PROVE  x \in Range(q)
  <2>1. PICK k \in 1..(n - 1) : x = Tail(q)[k]
    BY <1>3 DEF Range
  <2>2. k + 1 \in 1..n /\ x = q[k + 1]
    BY <1>2, <2>1
  <2> QED BY <1>3, <2>2 DEF Range
<1>6. Head(q) \in Range(q)
  <2>1. 1 \in 1..n
    BY <1>1
  <2> QED BY <1>2, <1>3, <2>1 DEF Range
<1> QED BY <1>2, <1>4, <1>5, <1>6

LEMMA RescheduleKeepsInv ==
  ASSUME CoordinationInv, Reschedule
  PROVE  CoordinationInv'
<1>1. /\ phase = "trying" /\ queue # <<>> /\ UNCHANGED coordinatorVars
      /\ StartSearch(prepare_reservations(Head(queue), candidate, Robots \ Range(queue)),
                     mission.max_nodes - used)
  BY DEF Reschedule
<1>2. mission \in Missions /\ RepairInv
  BY <1>1 DEF CoordinationInv
<1>3. PICK r, R : r = Head(queue) /\ R = Robots \ Range(queue)
  OBVIOUS
<1>4. r \in Robots \ R /\ R \in SUBSET Robots /\ Decided(mission, Horizon, candidate, R)
  <2>1. queue \in Seq(trial) /\ trial \subseteq Robots /\ Decided(mission, Horizon, candidate, R)
    BY <1>2, <1>3 DEF RepairInv
  <2>2. r \in trial /\ r \in Range(queue)
    BY <1>1, <1>3, <2>1, QueueFacts
  <2> QED BY <1>3, <2>1, <2>2
<1>5. /\ SearchInv' /\ verdict' # "idle"
      /\ job'.route = mission.routes[r]
      /\ job'.tracks = TracksIn(mission, candidate, R, r)
      /\ job'.horizon = Horizon
  <2>1. StartSearch(prepare_reservations(r, candidate, R), mission.max_nodes - used)
    BY <1>1, <1>3
  <2> QED BY <1>2, <1>4, <2>1, SearchBegins
<1>6. /\ mission' = mission /\ phase' = phase /\ plans' = plans /\ agent' = agent
      /\ blocking' = blocking /\ candidate' = candidate /\ queue' = queue /\ trial' = trial
  BY <1>1 DEF coordinatorVars
<1>7. Horizon' = Horizon /\ Robots' = Robots /\ RobotCount' = RobotCount
  BY <1>6, MissionStays
<1>8. JobIs(Head(queue), candidate, Robots \ Range(queue))'
  <2>1. Head(queue') = r /\ Robots' \ Range(queue') = R
    BY <1>3, <1>6, <1>7
  <2> QED BY <1>4, <1>5, <1>6, <1>7, <2>1 DEF JobIs
<1>9. RepairInv'
  BY <1>1, <1>2, <1>6, <1>7, <1>8 DEF RepairInv
<1> QED BY <1>1, <1>5, <1>6, <1>7, <1>9 DEF CoordinationInv

LEMMA RescheduledKeepsInv ==
  ASSUME CoordinationInv, Rescheduled
  PROVE  CoordinationInv'
<1>1. /\ phase = "trying" /\ phase' = phase /\ verdict = "found"
      /\ candidate' = [candidate EXCEPT ![Head(queue)] = schedule]
      /\ queue' = Tail(queue) /\ ClearSearch
      /\ mission' = mission /\ plans' = plans /\ blocking' = blocking /\ trial' = trial
  BY DEF Rescheduled
<1>2. /\ mission \in Missions /\ RepairInv /\ SearchInv /\ DOMAIN plans = Robots
      /\ Decided(mission, Horizon, plans, Robots) /\ blocking \in [Robots -> [Robots -> Int]]
  BY <1>1 DEF CoordinationInv
<1>3. PICK r, R : r = Head(queue) /\ R = Robots \ Range(queue)
  OBVIOUS
<1>4. /\ queue \in Seq(trial) /\ queue # <<>> /\ trial \subseteq Robots
      /\ DOMAIN candidate = Robots /\ \A o \in Robots \ trial : candidate[o] = plans[o]
      /\ Decided(mission, Horizon, candidate, R) /\ JobIs(r, candidate, R)
  BY <1>1, <1>2, <1>3 DEF RepairInv
<1>5. /\ r \in trial /\ Tail(queue) \in Seq(trial)
      /\ Range(queue) = Range(Tail(queue)) \cup {r}
  BY <1>3, <1>4, QueueFacts
<1>6. R \in SUBSET Robots /\ r \in Robots
  BY <1>3, <1>4, <1>5
<1>7. Decided(mission, Horizon, candidate', R \cup {r})
  BY <1>1, <1>2, <1>3, <1>4, <1>6, SearchFinds
<1>8. Decided(mission, Horizon, candidate', Robots \ Range(queue'))
  <2>1. Robots \ Range(queue') \in SUBSET (R \cup {r})
    BY <1>1, <1>3, <1>5
  <2> QED BY <1>7, <2>1, DecidedAmongFewer
<1>9. Horizon' = Horizon /\ Robots' = Robots /\ RobotCount' = RobotCount
  BY <1>1, MissionStays
<1>10. SearchInv' /\ verdict' = "idle"
  BY <1>1, SearchCleared
<1>11. /\ DOMAIN candidate' = Robots
       /\ \A o \in Robots \ trial : candidate'[o] = plans[o]
  BY <1>1, <1>3, <1>4, <1>5
<1>12. IsFiniteSet(trial) /\ Cardinality(trial) <= 3
  BY <1>2 DEF RepairInv
<1>13. \A o \in Robots : IsPlanned(mission, Horizon, candidate', o)
  <2>1. IsPlanned(mission, Horizon, candidate', r)
    BY <1>7 DEF Decided
  <2>2. ASSUME NEW o \in Robots, o # r
        PROVE  IsPlanned(mission, Horizon, candidate', o)
    <3>1. candidate'[o] = candidate[o]
      BY <1>1, <1>3, <1>4, <2>2
    <3>2. IsPlanned(mission, Horizon, candidate, o)
      BY <1>2 DEF RepairInv
    <3> QED BY <3>1, <3>2 DEF IsPlanned
  <2> QED BY <2>1, <2>2
<1>14. RepairInv'
  BY <1>1, <1>4, <1>5, <1>8, <1>9, <1>10, <1>11, <1>12, <1>13 DEF RepairInv
<1> QED BY <1>1, <1>2, <1>9, <1>10, <1>14 DEF CoordinationInv

(* Every step of the call keeps the invariant.                              *)
LEMMA CoordinationInvKept ==
  ASSUME CoordinationInv, [Next]_vars
  PROVE  CoordinationInv'
<1>1. CASE Prioritized
  <2>1. CASE NoSchedule
    BY <2>1, EndingsKeepInv DEF NoSchedule
  <2>2. CASE SkipRepair
    <3>1. verdict = "idle"
      BY <2>2 DEF SkipRepair, CoordinationInv
    <3> QED BY <2>2, <3>1, EndingsKeepInv DEF SkipRepair
  <2>3. CASE RepairFails \/ OutOfNodes \/ OutOfTime \/ RejectRepair
    <3>1. EndRepair
      BY <2>3 DEF RepairFails, OutOfNodes, OutOfTime, RejectRepair
    <3> QED BY <3>1, EndingsKeepInv DEF EndRepair
  <2>4. CASE AcceptRepair
    <3>1. verdict = "idle"
      BY <2>4 DEF AcceptRepair, Retried, CoordinationInv, RepairInv
    <3> QED BY <2>4, <3>1, EndingsKeepInv DEF AcceptRepair
  <2> QED BY <1>1, <2>1, <2>2, <2>3, <2>4, CheckStartsKeepsInv, ScheduleNextKeepsInv,
             SearchOnKeepsInv, ScheduledKeepsInv, AllScheduledKeepsInv, BeginRepairKeepsInv,
             RescheduleKeepsInv, RescheduledKeepsInv DEF Prioritized
<1>2. CASE AgreedByCbs \/ CbsFails
  <2>1. verdict = "idle"
    BY <1>2 DEF AgreedByCbs, CbsFails, CoordinationInv
  <2> QED BY <1>2, <2>1, EndingsKeepInv DEF AgreedByCbs, CbsFails
<1>3. CASE FallBack \/ Returned \/ UNCHANGED vars
  <2>1. /\ mission' = mission /\ phase' = phase /\ plans' = plans /\ agent' = agent
        /\ blocking' = blocking /\ candidate' = candidate /\ queue' = queue /\ trial' = trial
        /\ UNCHANGED searchVars
    BY <1>3 DEF FallBack, Returned, vars, coordinatorVars
  <2>2. Horizon' = Horizon /\ Robots' = Robots /\ RobotCount' = RobotCount
    BY <2>1, MissionStays
  <2>3. SearchInv' /\ verdict' = verdict /\ job' = job
    BY <2>1 DEF searchVars, SearchInv, CoordinationInv
  <2>4. phase = "schedule" => ScheduleInv'
    BY <2>1, <2>2, <2>3 DEF CoordinationInv, ScheduleInv, JobIs
  <2>5. phase = "trying" => RepairInv'
    BY <2>1, <2>2, <2>3 DEF CoordinationInv, RepairInv, JobIs
  <2> QED BY <2>1, <2>2, <2>3, <2>4, <2>5 DEF CoordinationInv
<1> QED BY <1>1, <1>2, <1>3 DEF Next

LEMMA CoordinationInvAlways == Spec => []CoordinationInv
<1> QED BY CoordinationInvInitially, CoordinationInvKept, PTL DEF Spec
-----------------------------------------------------------------------------
(* The makespan is the last tick of some schedule.                          *)
LEMMA MakespanFacts ==
  ASSUME NEW schedules, IsFiniteSet(DOMAIN schedules), DOMAIN schedules # {},
         \A r \in DOMAIN schedules : schedules[r] \in Seq(Int) /\ schedules[r] # <<>>
  PROVE  /\ Makespan(schedules) \in Nat
         /\ \A r \in DOMAIN schedules : Len(schedules[r]) - 1 <= Makespan(schedules)
         /\ \E r \in DOMAIN schedules : Makespan(schedules) = Cost(schedules[r])
<1>1. PICK R : R = DOMAIN schedules
  OBVIOUS
<1>2. PICK cost : cost = [r \in R |-> Cost(schedules[r])]
  OBVIOUS
<1>3. PICK costs : costs = {Cost(schedules[r]) : r \in R}
  OBVIOUS
<1>4. \A r \in R : Cost(schedules[r]) \in Nat
  <2> TAKE r \in R
  <2>1. Len(schedules[r]) \in Nat /\ Len(schedules[r]) # 0
    BY <1>1
  <2> QED BY <2>1 DEF Cost
<1>5. costs \in SUBSET Nat /\ costs # {}
  BY <1>1, <1>3, <1>4
<1>6. cost \in Surjection(R, costs)
  BY <1>2, <1>3 DEF Surjection
<1>7. IsFiniteSet(costs)
  BY <1>1, <1>6, FS_Surjection
<1>8. Max(costs) \in costs /\ \A c \in costs : c <= Max(costs)
  BY <1>5, <1>7, FiniteHasMax
<1>9. Makespan(schedules) = Max(costs)
  BY <1>1, <1>3 DEF Makespan
<1> QED BY <1>1, <1>3, <1>5, <1>8, <1>9 DEF Cost

LEMMA PlannedIsSome ==
  ASSUME NEW m, NEW h, NEW schedules, NEW r, IsPlanned(m, h, schedules, r)
  PROVE  schedules[r] \in Seq(Int) /\ schedules[r] # <<>>
BY DEF IsPlanned, Follows

(* How late the robots finish: each within the lengths of the routes up to  *)
(* its own, since the search it is scheduled by finds the first finish.     *)
SpanInv ==
  /\ ThoroughInv
  /\ agent \in 1..(RobotCount + 1)
  /\ phase \in {"repair", "trying"} => agent = RobotCount + 1
  /\ phase # "done" => \A r \in 1..(agent - 1) : Cost(plans[r]) \in 0..Lengths(r)
  /\ phase = "done" /\ answer # "found" =>
       \A r \in 1..(agent - 1) : Cost(plans[r]) <= Lengths(RobotCount)

LEMMA LengthsStay ==
  ASSUME mission' = mission
  PROVE  \A n : Lengths(n)' = Lengths(n)
BY DEF Lengths, RobotCount

LEMMA ClearIsThorough ==
  ASSUME ClearSearch
  PROVE  ThoroughInv'
<1>1. Indexed(<<>>, <<>>)
  BY DEF Indexed
<1> QED BY <1>1 DEF ClearSearch, ThoroughInv

LEMMA IdleStaysThorough ==
  ASSUME ThoroughInv, UNCHANGED searchVars
  PROVE  ThoroughInv'
BY DEF ThoroughInv, LimitReached, searchVars

LEMMA BeginsThorough ==
  ASSUME mission \in Missions, NEW schedules, NEW R \in SUBSET Robots, NEW r \in Robots \ R,
         Decided(mission, Horizon, schedules, R), NEW limit,
         StartSearch(prepare_reservations(r, schedules, R), limit)
  PROVE  ThoroughInv'
<1>1. PICK route, tracks, horizon :
        /\ route = mission.routes[r]
        /\ tracks = TracksIn(mission, schedules, R, r)
        /\ horizon = Horizon
  OBVIOUS
<1>2. IsCall(route, tracks, horizon)
  <2>1. r \in DOMAIN mission.routes /\ R \in SUBSET (DOMAIN mission.routes)
    BY DEF Robots
  <2> QED BY <1>1, <2>1, MissionFacts, DecidedAreTracks
<1>3. prepare_reservations(r, schedules, R) = Reserve(route, tracks, horizon)
  BY <1>1 DEF prepare_reservations, TracksOf, TracksIn
<1>4. StartSearch(Reserve(route, tracks, horizon), limit)
  BY <1>3
<1> QED BY <1>2, <1>4, StartsThorough

LEMMA SpanInvInitially ==
  ASSUME Init
  PROVE  SpanInv
<1>1. Indexed(<<>>, <<>>)
  BY DEF Indexed
<1>2. ThoroughInv
  BY <1>1 DEF Init, ThoroughInv
<1>3. mission \in Missions /\ agent = 1 /\ phase = "start"
  BY DEF Init
<1>4. 1 \in 1..(RobotCount + 1) /\ 1..(1 - 1) = {}
  BY <1>3, MissionFacts
<1> QED BY <1>2, <1>3, <1>4 DEF SpanInv

(* The schedule found for a robot around those before it finishes within    *)
(* the length of its route of the last of them.                             *)
LEMMA NextFinishesSoon ==
  ASSUME CoordinationInv, SpanInv, phase = "schedule", verdict = "found"
  PROVE  agent \in 1..RobotCount /\ Cost(schedule) \in 0..Lengths(agent)
<1>1. PICK R : R = 1..(agent - 1)
  OBVIOUS
<1>2. /\ mission \in Missions /\ SearchInv /\ agent \in 1..(RobotCount + 1)
      /\ Decided(mission, Horizon, plans, R) /\ JobIs(agent, plans, R)
  BY <1>1 DEF CoordinationInv, ScheduleInv
<1>3. /\ IsMission(mission) /\ Horizon \in Nat /\ RobotCount \in Nat
      /\ Robots = 1..RobotCount /\ agent \in 1..RobotCount
  BY <1>2, MissionFacts DEF JobIs
<1>4. Earliest(job, schedule)
  BY DEF SpanInv, ThoroughInv
<1>5. /\ IsCall(job.route, job.tracks, job.horizon) /\ schedule \in Seq(Int)
  BY <1>2 DEF SearchInv, Prepared
<1>6. /\ job.route = mission.routes[agent] /\ job.tracks = TracksIn(mission, plans, R, agent)
      /\ job.horizon = Horizon
  BY <1>2 DEF JobIs
<1>7. PICK E \in Nat : E = Lengths(agent - 1) /\ E <= Horizon
  <2>1. agent - 1 \in 0..RobotCount
    BY <1>3
  <2> QED BY <1>3, <2>1, LengthsFacts
<1>8. PICK a \in Nat : a = Lengths(agent) /\ a = E + (Len(job.route) - 1)
  <2>1. agent \in 0..RobotCount
    BY <1>3
  <2>2. Lengths(agent) = Lengths(agent - 1) + (Len(mission.routes[agent]) - 1)
    BY <1>3, LengthsFacts
  <2>3. Lengths(agent) \in Nat
    BY <1>3, <2>1, LengthsFacts
  <2> QED BY <1>6, <1>7, <2>2, <2>3
<1>9. StoppedBy(job, E)
  <2>1. ASSUME NEW o \in R
        PROVE  Len(PathOf(mission, plans, o)) - 1 <= E
    <3>1. o \in 1..(agent - 1) /\ o \in DOMAIN mission.routes
      BY <1>1, <1>3 DEF Robots
    <3>2. IsPlanned(mission, Horizon, plans, o)
      BY <1>2 DEF Decided
    <3>3. IsRoute(mission.routes[o])
      BY <1>3, <3>1 DEF IsMission
    <3>4. Len(PathOf(mission, plans, o)) = Len(plans[o])
      BY <3>2, <3>3, PathFacts DEF Walks, IsPlanned
    <3>5. Len(plans[o]) - 1 <= Lengths(o)
      <4>1. Cost(plans[o]) <= Lengths(o)
        BY <3>1 DEF SpanInv
      <4> QED BY <4>1 DEF Cost
    <3>6. o \in 0..RobotCount /\ agent - 1 \in 0..RobotCount /\ o <= agent - 1
      BY <1>3, <3>1
    <3>7. Lengths(o) <= Lengths(agent - 1) /\ Lengths(o) \in Nat
      BY <1>3, <3>6, LengthsFacts
    <3>8. Len(plans[o]) \in Nat
      BY <3>2 DEF IsPlanned
    <3> QED BY <1>7, <3>4, <3>5, <3>7, <3>8
  <2>2. \A o \in job.tracks : \E q \in R : o.path = PathOf(mission, plans, q)
    BY <1>6 DEF TracksIn
  <2> QED BY <2>1, <2>2 DEF StoppedBy
<1>10. PICK t \in Finishes(job, 2 * job.horizon) : t \in Nat /\ t <= E + Len(job.route) - 1
  <2>1. Len(schedule) - 1 \in Finishes(job, 2 * job.horizon)
    BY <1>4 DEF Earliest
  <2>2. E <= job.horizon
    BY <1>6, <1>7
  <2> QED BY <1>5, <1>9, <2>1, <2>2, FinishSoon
<1>11. t >= Len(schedule) - 1
  BY <1>4 DEF Earliest
<1>12. Len(schedule) \in Nat \ {0} /\ Len(job.route) \in Nat
  <2>1. schedule # <<>>
    BY <1>2 DEF SearchInv, Legal
  <2> QED BY <1>5, <2>1 DEF IsCall, IsRoute
<1>13. Len(schedule) - 1 \in 0..a
  BY <1>8, <1>10, <1>11, <1>12
<1> QED BY <1>3, <1>8, <1>13 DEF Cost

(* A repair that is accepted finishes before the schedules it replaces.     *)
LEMMA AcceptedFinishesSoon ==
  ASSUME CoordinationInv, SpanInv, AcceptRepair
  PROVE  \A r \in 1..(agent - 1) : Cost(candidate[r]) <= Lengths(RobotCount)
<1>1. /\ phase = "trying" /\ Makespan(candidate) < Makespan(plans)
  BY DEF AcceptRepair, Retried, Improvement
<1>2. /\ mission \in Missions /\ DOMAIN plans = Robots /\ RepairInv
      /\ Decided(mission, Horizon, plans, Robots)
  BY <1>1 DEF CoordinationInv
<1>3. /\ IsMission(mission) /\ RobotCount \in Nat /\ Robots = 1..RobotCount
      /\ IsFiniteSet(Robots)
  BY <1>2, MissionFacts, FS_Interval
<1>4. /\ DOMAIN candidate = Robots /\ Robots # {}
  BY <1>2 DEF RepairInv
<1>5. \A r \in Robots : /\ candidate[r] \in Seq(Int) /\ candidate[r] # <<>>
                       /\ plans[r] \in Seq(Int) /\ plans[r] # <<>>
  BY <1>2, PlannedIsSome DEF RepairInv, Decided
<1>6. /\ Makespan(candidate) \in Nat
      /\ \A r \in Robots : Len(candidate[r]) - 1 <= Makespan(candidate)
  BY <1>3, <1>4, <1>5, MakespanFacts
<1>7. /\ Makespan(plans) \in Nat
      /\ \E r \in Robots : Makespan(plans) = Cost(plans[r])
  BY <1>2, <1>3, <1>4, <1>5, MakespanFacts
<1>8. PICK last \in Robots : Makespan(plans) = Cost(plans[last])
  BY <1>7
<1>9. Cost(plans[last]) <= Lengths(RobotCount) /\ Lengths(RobotCount) \in Nat
  <2>1. last \in 1..(agent - 1)
    BY <1>1, <1>3 DEF SpanInv
  <2>2. Cost(plans[last]) <= Lengths(last)
    BY <1>1, <2>1 DEF SpanInv
  <2>3. last \in 0..RobotCount /\ RobotCount \in 0..RobotCount /\ last <= RobotCount
    BY <1>3
  <2>4. /\ Lengths(last) <= Lengths(RobotCount)
        /\ Lengths(last) \in Nat /\ Lengths(RobotCount) \in Nat
    BY <1>3, <2>3, LengthsFacts
  <2> QED BY <1>7, <1>8, <2>2, <2>4
<1>10. ASSUME NEW r \in 1..(agent - 1)
       PROVE  Cost(candidate[r]) <= Lengths(RobotCount)
  <2>1. r \in Robots
    BY <1>1, <1>3 DEF SpanInv
  <2>2. Len(candidate[r]) - 1 <= Makespan(candidate) /\ Len(candidate[r]) \in Nat
    BY <1>5, <1>6, <2>1
  <2>3. Len(candidate[r]) - 1 <= Lengths(RobotCount)
    BY <1>1, <1>6, <1>7, <1>8, <1>9, <2>2
  <2> QED BY <2>3 DEF Cost
<1> QED BY <1>10

(* Steps that keep the schedules, and end with none but those.              *)
LEMMA KeepingKeepsSpan ==
  ASSUME CoordinationInv, SpanInv, mission' = mission, agent' = agent, plans' = plans,
         ThoroughInv',
         phase' \in {"repair", "trying"} => agent = RobotCount + 1,
         phase = "done" => phase' = "done" /\ answer' = answer
  PROVE  SpanInv'
<1>1. /\ mission \in Missions /\ RobotCount' = RobotCount
      /\ \A n : Lengths(n)' = Lengths(n)
  BY MissionStays, LengthsStay DEF CoordinationInv
<1>2. RobotCount \in Nat /\ agent \in 1..(RobotCount + 1) /\ IsMission(mission)
  BY <1>1, MissionFacts DEF SpanInv
<1>3. CASE phase = "done"
  BY <1>1, <1>3 DEF SpanInv
<1>4. CASE phase # "done"
  <2>1. ASSUME NEW r \in 1..(agent - 1)
        PROVE  Cost(plans[r]) \in 0..Lengths(r) /\ Cost(plans[r]) <= Lengths(RobotCount)
    <3>1. Cost(plans[r]) \in 0..Lengths(r)
      BY <1>4 DEF SpanInv
    <3>2. r \in 0..RobotCount /\ RobotCount \in 0..RobotCount /\ r <= RobotCount
      BY <1>2
    <3>3. /\ Lengths(r) <= Lengths(RobotCount)
          /\ Lengths(r) \in Nat /\ Lengths(RobotCount) \in Nat
      BY <1>2, <3>2, LengthsFacts
    <3> QED BY <3>1, <3>3
  <2> QED BY <1>1, <1>2, <2>1 DEF SpanInv
<1> QED BY <1>3, <1>4

LEMMA ScheduledKeepsSpan ==
  ASSUME CoordinationInv, SpanInv, Scheduled
  PROVE  SpanInv'
<1>1. /\ phase = "schedule" /\ verdict = "found" /\ plans' = [plans EXCEPT ![agent] = schedule]
      /\ agent' = agent + 1 /\ ClearSearch /\ mission' = mission /\ phase' = phase
  BY DEF Scheduled
<1>2. /\ mission \in Missions /\ DOMAIN plans = Robots /\ RobotCount' = RobotCount
      /\ \A n : Lengths(n)' = Lengths(n)
  BY <1>1, MissionStays, LengthsStay DEF CoordinationInv
<1>3. /\ RobotCount \in Nat /\ Robots = 1..RobotCount
      /\ agent \in 1..RobotCount /\ Cost(schedule) \in 0..Lengths(agent)
  BY <1>1, <1>2, MissionFacts, NextFinishesSoon
<1>4. ASSUME NEW r \in 1..((agent + 1) - 1)
      PROVE  Cost(plans'[r]) \in 0..Lengths(r)
  <2>1. CASE r = agent
    BY <1>1, <1>2, <1>3, <2>1
  <2>2. CASE r # agent
    <3>1. r \in 1..(agent - 1) /\ r \in Robots
      BY <1>3, <2>2
    <3>2. Cost(plans[r]) \in 0..Lengths(r)
      BY <1>1, <3>1 DEF SpanInv
    <3>3. plans'[r] = plans[r]
      BY <1>1, <1>2, <2>2, <3>1
    <3> QED BY <3>2, <3>3
  <2> QED BY <2>1, <2>2
<1>5. agent + 1 \in 1..(RobotCount + 1)
  BY <1>3
<1>6. ThoroughInv'
  BY <1>1, ClearIsThorough
<1> QED BY <1>1, <1>2, <1>4, <1>5, <1>6 DEF SpanInv

LEMMA SpanInvKept ==
  ASSUME CoordinationInv, SpanInv, [Next]_vars
  PROVE  SpanInv'
<1>1. mission \in Missions /\ SearchInv /\ ThoroughInv
  BY DEF CoordinationInv, SpanInv
<1>2. CASE CheckStarts \/ AllScheduled \/ SkipRepair \/ BeginRepair
  <2>1. /\ mission' = mission /\ agent' = agent /\ plans' = plans /\ UNCHANGED searchVars
        /\ phase # "done"
    BY <1>2 DEF CheckStarts, AllScheduled, SkipRepair, BeginRepair
  <2>2. phase' \in {"repair", "trying"} => agent = RobotCount + 1
    <3>1. CASE CheckStarts \/ SkipRepair
      BY <3>1 DEF CheckStarts, SkipRepair
    <3>2. CASE BeginRepair
      BY <3>2 DEF BeginRepair, SpanInv
    <3>3. CASE AllScheduled
      <4>1. agent > RobotCount /\ agent \in 1..(RobotCount + 1) /\ RobotCount \in Nat
        BY <1>1, <3>3, MissionFacts DEF AllScheduled, SpanInv
      <4> QED BY <4>1
    <3> QED BY <1>2, <3>1, <3>2, <3>3
  <2> QED BY <1>1, <2>1, <2>2, IdleStaysThorough, KeepingKeepsSpan
<1>3. CASE ScheduleNext \/ Reschedule
  <2>1. /\ mission' = mission /\ agent' = agent /\ plans' = plans /\ phase' = phase
        /\ phase \in {"schedule", "trying"}
    BY <1>3 DEF ScheduleNext, Reschedule, coordinatorVars
  <2>2. ASSUME ScheduleNext
        PROVE  ThoroughInv'
    <3>1. /\ phase = "schedule" /\ agent <= RobotCount
          /\ StartSearch(prepare_reservations(agent, plans, 1..(agent - 1)), 0)
      BY <2>2 DEF ScheduleNext
    <3>2. /\ agent \in 1..(RobotCount + 1) /\ RobotCount \in Nat /\ Robots = 1..RobotCount
          /\ Decided(mission, Horizon, plans, 1..(agent - 1))
      BY <1>1, <3>1, MissionFacts DEF CoordinationInv, ScheduleInv
    <3>3. agent \in Robots \ (1..(agent - 1)) /\ 1..(agent - 1) \in SUBSET Robots
      <4>1. agent \in 1..RobotCount /\ agent \notin 1..(agent - 1)
        BY <3>1, <3>2
      <4>2. \A o \in 1..(agent - 1) : o \in 1..RobotCount
        BY <3>2, <4>1
      <4> QED BY <3>2, <4>1, <4>2
    <3> QED BY <1>1, <3>1, <3>2, <3>3, BeginsThorough
  <2>3. ASSUME Reschedule
        PROVE  ThoroughInv'
    <3>1. PICK r, R : r = Head(queue) /\ R = Robots \ Range(queue)
      OBVIOUS
    <3>2. /\ phase = "trying" /\ queue # <<>>
          /\ StartSearch(prepare_reservations(r, candidate, R), mission.max_nodes - used)
      BY <2>3, <3>1 DEF Reschedule
    <3>3. /\ queue \in Seq(trial) /\ trial \subseteq Robots
          /\ Decided(mission, Horizon, candidate, R)
      BY <3>1, <3>2 DEF CoordinationInv, RepairInv
    <3>4. r \in trial /\ r \in Range(queue)
      BY <3>1, <3>2, <3>3, QueueFacts
    <3>5. r \in Robots \ R /\ R \in SUBSET Robots
      BY <3>1, <3>3, <3>4
    <3> QED BY <1>1, <3>2, <3>3, <3>5, BeginsThorough
  <2>4. ThoroughInv'
    BY <1>3, <2>2, <2>3
  <2> QED BY <2>1, <2>4, KeepingKeepsSpan DEF SpanInv
<1>4. CASE SearchOn
  <2>1. Search /\ UNCHANGED coordinatorVars
    BY <1>4 DEF SearchOn
  <2>2. /\ mission' = mission /\ agent' = agent /\ plans' = plans /\ phase' = phase
    BY <2>1 DEF coordinatorVars
  <2>3. phase # "done"
    <3>1. verdict # "idle"
      BY <1>1, <2>1, SearchKeepsInv
    <3> QED BY <3>1 DEF CoordinationInv
  <2>4. ThoroughInv'
    BY <1>1, <2>1, SearchKeepsThorough
  <2> QED BY <2>2, <2>3, <2>4, KeepingKeepsSpan DEF SpanInv
<1>5. CASE NoSchedule \/ Rescheduled \/ RepairFails \/ OutOfNodes \/ OutOfTime \/ RejectRepair
  <2>1. /\ mission' = mission /\ agent' = agent /\ plans' = plans /\ ClearSearch
        /\ phase # "done" /\ (phase' \in {"repair", "trying"} => phase' = phase)
    BY <1>5 DEF NoSchedule, Rescheduled, RepairFails, OutOfNodes, OutOfTime, EndRepair,
                RejectRepair, Retried
  <2> QED BY <2>1, ClearIsThorough, KeepingKeepsSpan DEF SpanInv
<1>6. CASE AcceptRepair
  <2>1. /\ mission' = mission /\ agent' = agent /\ plans' = candidate /\ phase' = "done"
        /\ UNCHANGED searchVars
    BY <1>6 DEF AcceptRepair
  <2>2. RobotCount' = RobotCount /\ \A n : Lengths(n)' = Lengths(n)
    BY <2>1, MissionStays, LengthsStay
  <2>3. \A r \in 1..(agent - 1) : Cost(candidate[r]) <= Lengths(RobotCount)
    BY <1>6, AcceptedFinishesSoon
  <2>4. ThoroughInv' /\ agent \in 1..(RobotCount + 1)
    BY <1>1, <2>1, IdleStaysThorough DEF SpanInv
  <2> QED BY <2>1, <2>2, <2>3, <2>4 DEF SpanInv
<1>7. CASE AgreedByCbs /\ UNCHANGED cbsVars
  <2>1. /\ mission' = mission /\ agent' = agent /\ phase' = "done" /\ answer' = "found"
        /\ UNCHANGED searchVars
    BY <1>7 DEF AgreedByCbs, cbsVars
  <2>2. RobotCount' = RobotCount
    BY <2>1, MissionStays
  <2>3. ThoroughInv' /\ agent \in 1..(RobotCount + 1)
    BY <1>1, <2>1, IdleStaysThorough DEF SpanInv
  <2> QED BY <2>1, <2>2, <2>3 DEF SpanInv
<1>8. CASE CbsFails \/ FallBack \/ Returned \/ UNCHANGED vars
  <2>1. /\ mission' = mission /\ agent' = agent /\ plans' = plans /\ UNCHANGED searchVars
        /\ (phase' \in {"repair", "trying"} => phase' = phase)
    BY <1>8 DEF CbsFails, FallBack, Returned, vars, coordinatorVars
  <2>2. phase = "done" => phase' = "done" /\ answer' = answer
    BY <1>8 DEF CbsFails, FallBack, Returned, vars, coordinatorVars, cbsVars
  <2>3. ThoroughInv'
    BY <1>1, <2>1, IdleStaysThorough
  <2> QED BY <2>1, <2>2, <2>3, KeepingKeepsSpan DEF SpanInv
<1> QED BY <1>2, <1>3, <1>4, <1>5, <1>6, <1>7, <1>8, ScheduledKeepsSpan
        DEF Next, Prioritized

(* The horizon is enough for any missions: a robot finishes within the      *)
(* lengths of the routes up to its own, and after a repair within those of  *)
(* all, unless conflict-based search made the schedules.                    *)
THEOREM FinishInHorizon == Spec => []HorizonSuffices
<1>1. Init => CoordinationInv /\ SpanInv
  BY CoordinationInvInitially, SpanInvInitially
<1>2. CoordinationInv /\ SpanInv /\ [Next]_vars => (CoordinationInv /\ SpanInv)'
  BY CoordinationInvKept, SpanInvKept
<1>3. CoordinationInv /\ SpanInv => HorizonSuffices
  <2> SUFFICES ASSUME CoordinationInv, SpanInv, answer # "found", NEW r \in 1..(agent - 1)
               PROVE  Cost(plans[r]) <= Lengths(IF phase = "done" THEN RobotCount ELSE r)
    BY DEF HorizonSuffices
  <2>1. CASE phase = "done"
    BY <2>1 DEF SpanInv
  <2>2. CASE phase # "done"
    <3>1. Cost(plans[r]) \in 0..Lengths(r)
      BY <2>2 DEF SpanInv
    <3>2. r \in 0..RobotCount /\ IsMission(mission)
      <4>1. /\ RobotCount \in Nat /\ agent \in 1..(RobotCount + 1)
            /\ IsMission(mission)
        BY MissionFacts DEF CoordinationInv, SpanInv
      <4> QED BY <4>1
    <3>3. Lengths(r) \in Nat
      BY <3>2, LengthsFacts
    <3> QED BY <2>2, <3>1, <3>3
  <2> QED BY <2>1, <2>2
<1> QED BY <1>1, <1>2, <1>3, PTL DEF Spec
-----------------------------------------------------------------------------
(* The contract speaks of the same paths, meetings and costs.               *)
LEMMA SameTerms ==
  /\ \A route, plan : Follows(route, plan) => Contract!Follows(route, plan)
  /\ \A m, schedules, a, b, t : Contract!MeetAt(m, schedules, a, b, t)
                                  <=> MeetAt(m, schedules, a, b, t)
  /\ \A schedules : Contract!Makespan(schedules) = Makespan(schedules)
  /\ \A schedules : Contract!TotalCost(schedules) = TotalCost(schedules)
<1>1. \A frame : Contract!InTransit(frame) = InTransit(frame)
  BY Zenon DEF Contract!InTransit, InTransit, Contract!NoResource, NoResource
<1>2. ASSUME NEW route, NEW plan, Follows(route, plan)
      PROVE  Contract!Follows(route, plan)
  BY <1>1, <1>2 DEF Follows, Contract!Follows
<1>3. ASSUME NEW m, NEW schedules, NEW a
      PROVE  Contract!PathOf(m, schedules, a) = PathOf(m, schedules, a)
  BY Zenon DEF Contract!PathOf, PathOf
<1>4. ASSUME NEW m, NEW a, NEW b
      PROVE  Contract!Reach(m, a, b) = Reach(m, a, b)
  BY Zenon DEF Contract!Reach, Reach
<1>5. ASSUME NEW path, NEW t
      PROVE  Contract!FrameAt(path, t) = FrameAt(path, t)
  BY Zenon DEF Contract!FrameAt, FrameAt
<1>6. ASSUME NEW a, NEW a2, NEW b, NEW b2, NEW r
      PROVE  Contract!Meet(a, a2, b, b2, r) = Meet(a, a2, b, b2, r)
  BY Zenon DEF Contract!Meet, Meet, Contract!Collide, Collide, Contract!Near, Near,
        Contract!SharesResource, SharesResource, Contract!Holds, Holds,
        Contract!NoResource, NoResource, Contract!Swept, Swept
<1>7. ASSUME NEW m, NEW schedules, NEW a, NEW b, NEW t
      PROVE  Contract!MeetAt(m, schedules, a, b, t) <=> MeetAt(m, schedules, a, b, t)
  <2>1. Contract!MeetAt(m, schedules, a, b, t) => MeetAt(m, schedules, a, b, t)
    BY <1>3, <1>4, <1>5, <1>6, Zenon DEF Contract!MeetAt, MeetAt
  <2>2. MeetAt(m, schedules, a, b, t) => Contract!MeetAt(m, schedules, a, b, t)
    BY <1>3, <1>4, <1>5, <1>6, Zenon DEF Contract!MeetAt, MeetAt
  <2> QED BY <2>1, <2>2
<1>8. ASSUME NEW plan
      PROVE  Contract!Cost(plan) = Cost(plan)
  BY Zenon DEF Contract!Cost, Cost
<1>9. ASSUME NEW schedules
      PROVE  Contract!Makespan(schedules) = Makespan(schedules)
  BY Zenon DEF Contract!Makespan, Makespan, Contract!Cost, Cost, Contract!Max, Max
<1>10. ASSUME NEW schedules
       PROVE  Contract!TotalCost(schedules) = TotalCost(schedules)
  BY Zenon DEF Contract!TotalCost, TotalCost, Contract!Cost, Cost
<1> QED BY <1>2, <1>7, <1>9, <1>10
-----------------------------------------------------------------------------
(* The frames that can be reached at each tick follow from those before.    *)
Onward(route, constraints, before, t) ==
  {g \in DOMAIN route : \E f \in before : Neighbor(route, constraints, f, g, t)}

LEMMA ReachedExact ==
  ASSUME NEW route, IsRoute(route), NEW constraints, NEW last \in Nat,
         NEW R, R = Reached(route, constraints, last)
  PROVE  /\ R[1] = {1}
         /\ \A t \in 1..last : R[t + 1] = Onward(route, constraints, R[t], t - 1)
<1>1. PICK V : V = Seq(SUBSET Int)
  OBVIOUS
<1>2. DOMAIN route \in SUBSET Int
  BY DEF IsRoute
<1> DEFINE Grow(t, before) == Append(before, Onward(route, constraints, before[t], t - 1))
<1>3. ASSUME NEW t \in 1..last, NEW before \in V
      PROVE  Grow(t, before) \in V
  <2>1. Onward(route, constraints, before[t], t - 1) \in SUBSET Int
    BY <1>2 DEF Onward
  <2> QED BY <1>1, <2>1
<1>4. PICK next : next = [t \in 1..last |-> [before \in V |-> Grow(t, before)]]
  OBVIOUS
<1>5. next \in [1..last -> [V -> V]]
  BY <1>3, <1>4
<1>6. PICK parent : parent = [t \in 1..last |-> t - 1]
  OBVIOUS
<1>7. PICK root \in V : root = << {1} >>
  <2>1. << {1} >> \in Seq(SUBSET Int)
    OBVIOUS
  <2> QED BY <1>1, <2>1
<1>8. PICK f \in [0..last -> V] :
        /\ f[0] = root
        /\ \A t \in 1..last : f[t] = next[t][f[parent[t]]]
  <2>1. PICK a, m \in Int : a = 0 /\ m = last
    OBVIOUS
  <2>2. a <= m /\ next \in [(a + 1)..m -> [V -> V]]
    BY <1>5, <2>1
  <2>3. \A t \in (a + 1)..m : parent[t] \in a..(t - 1)
    BY <1>6, <2>1
  <2>4. PICK f \in [a..m -> V] : IsRecursive(f, a, m, root, parent, next)
    BY <2>2, <2>3, TreeRecursion
  <2> QED BY <2>1, <2>4 DEF IsRecursive
<1>9. ASSUME NEW t \in 1..last
      PROVE  f[t] = Grow(t, f[t - 1])
  <2>1. t - 1 \in 0..last /\ parent[t] = t - 1
    BY <1>6
  <2>2. f[t - 1] \in V
    BY <2>1
  <2> HIDE DEF Grow
  <2> QED BY <1>4, <1>8, <2>1, <2>2
<1>10. f = [t \in 0..last |-> IF t = 0 THEN << {1} >> ELSE Grow(t, f[t - 1])]
  <2>1. \A t \in 0..last : t # 0 => t \in 1..last
    OBVIOUS
  <2> HIDE DEF Grow
  <2> QED BY <1>7, <1>8, <1>9, <2>1
<1> DEFINE sets == CHOOSE g : g = [t \in 0..last |-> IF t = 0 THEN << {1} >> ELSE Grow(t, g[t - 1])]
<1>11. sets = [t \in 0..last |-> IF t = 0 THEN << {1} >> ELSE Grow(t, sets[t - 1])]
  <2> HIDE DEF Grow
  <2> QED BY <1>10, Zenon
<1>12. R = sets[last]
  BY Zenon DEF Reached, Onward
<1> HIDE DEF sets
<1>13. PICK s : s = sets
  OBVIOUS
<1>14. s[0] = << {1} >> /\ \A t \in 1..last : s[t] = Grow(t, s[t - 1])
  <2> HIDE DEF Grow
  <2>1. \A t \in 1..last : t \in 0..last /\ t # 0
    OBVIOUS
  <2>2. 0 \in 0..last
    OBVIOUS
  <2> QED BY <1>11, <1>13, <2>1, <2>2
<1> DEFINE Exact(t) ==
             /\ s[t] \in V /\ Len(s[t]) = t + 1 /\ s[t][1] = {1}
             /\ \A k \in 1..t : s[t][k + 1] = Onward(route, constraints, s[t][k], k - 1)
<1>15. ASSUME NEW D, D = {t \in 0..last : ~Exact(t)}, D # {}
       PROVE  FALSE
  <2>1. D \in SUBSET Nat
    BY <1>15
  <2>2. PICK d \in D : \A k \in D : d <= k
    BY <1>15, <2>1, LeastNatural
  <2>3. d \in 0..last /\ ~Exact(d)
    BY <1>15, <2>2
  <2>4. d # 0
    <3>1. Exact(0)
      BY <1>7, <1>14
    <3> QED BY <2>3, <3>1
  <2>5. d \in 1..last /\ d - 1 \in 0..last /\ ~(d <= d - 1)
    BY <2>3, <2>4
  <2>6. Exact(d - 1)
    <3> HIDE DEF Exact
    <3> QED BY <1>15, <2>2, <2>5
  <2>7. PICK e, before : e \in 0..last /\ e = d - 1 /\ before = s[e] /\ e + 1 = d
    BY <2>5
  <2>8. PICK O : O = Onward(route, constraints, before[d], d - 1)
    OBVIOUS
  <2>9. /\ before \in V /\ Len(before) = d /\ before[1] = {1}
        /\ \A k \in 1..e : before[k + 1] = Onward(route, constraints, before[k], k - 1)
    BY <2>6, <2>7
  <2>10. O \in SUBSET Int
    BY <1>2, <2>8 DEF Onward
  <2>11. PICK now : now = Append(before, O)
    OBVIOUS
  <2>12. s[d] = now
    BY <1>14, <2>5, <2>7, <2>8, <2>11
  <2>13. /\ now \in V /\ Len(now) = d + 1 /\ now[d + 1] = O
         /\ \A k \in 1..d : now[k] = before[k]
    BY <1>1, <2>9, <2>10, <2>11
  <2>14. ASSUME NEW k \in 1..d
         PROVE  now[k + 1] = Onward(route, constraints, now[k], k - 1)
    <3>1. CASE k = d
      BY <2>5, <2>8, <2>13, <3>1
    <3>2. CASE k # d
      <4>1. k \in 1..e /\ k + 1 \in 1..d
        BY <2>7, <3>2
      <4> QED BY <2>9, <2>13, <4>1
    <3> QED BY <3>1, <3>2
  <2>15. now[1] = {1}
    BY <2>5, <2>9, <2>13
  <2>16. Exact(d)
    BY <2>12, <2>13, <2>14, <2>15
  <2> QED BY <2>3, <2>16
<1>16. Exact(last)
  <2> HIDE DEF Exact
  <2>1. PICK D : D = {t \in 0..last : ~Exact(t)}
    OBVIOUS
  <2>2. D = {}
    BY <1>15, <2>1
  <2>3. last \in 0..last
    OBVIOUS
  <2> QED BY <2>1, <2>2, <2>3
<1> QED BY <1>12, <1>13, <1>16
(* A frame that is reached at a tick is traced to one reached at the tick   *)
(* before, from where the robot waited or moved on.                         *)
Origin(route, constraints, before, g, t) ==
  IF g \in before /\ Neighbor(route, constraints, g, g, t) THEN g ELSE g - 1

LEMMA OriginIsReached ==
  ASSUME NEW route, NEW constraints, NEW before \in SUBSET Int, NEW t,
         NEW g \in Int, g \in Onward(route, constraints, before, t),
         NEW f, f = Origin(route, constraints, before, g, t)
  PROVE  f \in before /\ Neighbor(route, constraints, f, g, t)
<1>1. PICK e \in before : Neighbor(route, constraints, e, g, t)
  BY DEF Onward
<1>2. e \in Int /\ (g = e + 1 \/ (g = e /\ ~InTransit(route[e])))
  BY <1>1 DEF Neighbor
<1>3. CASE g \in before /\ Neighbor(route, constraints, g, g, t)
  BY <1>3 DEF Origin
<1>4. CASE ~(g \in before /\ Neighbor(route, constraints, g, g, t))
  <2>1. g # e
    BY <1>1, <1>4
  <2>2. f = g - 1
    BY <1>4 DEF Origin
  <2> QED BY <1>1, <1>2, <2>1, <2>2
<1> QED BY <1>3, <1>4

(* The way traced back from the end of the route takes only steps the       *)
(* search may take, each at its tick.                                       *)
LegalSteps(route, constraints, last, plan) ==
  /\ plan \in Seq(Int) /\ Len(plan) = last + 1
  /\ plan[1] = 1 /\ plan[last + 1] = Len(route)
  /\ \A i \in 1..last : Neighbor(route, constraints, plan[i], plan[i + 1], i - 1)

LEMMA TracedSteps ==
  ASSUME NEW route, IsRoute(route), NEW constraints, NEW bound \in Nat,
         NEW R, R = Reached(route, constraints, bound),
         NEW last \in 0..bound, Len(route) \in R[last + 1],
         NEW plan, plan = Traced(route, constraints, R, last)
  PROVE  LegalSteps(route, constraints, last, plan)
<1>1. PICK V : V = {w \in Seq(Int) : w # <<>>}
  OBVIOUS
<1>2. DOMAIN route \in SUBSET Int /\ Len(route) \in Int
  BY DEF IsRoute
<1>3. /\ R[1] = {1}
      /\ \A t \in 1..bound : R[t + 1] = Onward(route, constraints, R[t], t - 1)
  BY ReachedExact
<1>4. \A t \in 1..last : R[t] \in SUBSET Int
  <2> TAKE t \in 1..last
  <2>1. CASE t = 1
    BY <1>3, <2>1
  <2>2. CASE t # 1
    <3>1. t - 1 \in 1..bound /\ (t - 1) + 1 = t
      BY <2>2
    <3>2. R[t] = Onward(route, constraints, R[t - 1], (t - 1) - 1)
      BY <1>3, <3>1
    <3> QED BY <1>2, <3>2 DEF Onward
  <2> QED BY <2>1, <2>2
<1> DEFINE Waited(f, t) == f \in R[t] /\ Neighbor(route, constraints, f, f, t - 1)
           Grow(k, way) ==
             <<IF Waited(Head(way), last - k + 1) THEN Head(way) ELSE Head(way) - 1>> \o way
<1>5. ASSUME NEW k \in 1..last, NEW way \in V
      PROVE  Grow(k, way) \in V
  <2>1. PICK h \in Int : h = Head(way)
    BY <1>1
  <2>2. PICK g \in Int : g = IF Waited(h, last - k + 1) THEN h ELSE h - 1
    <3> HIDE DEF Waited
    <3> QED OBVIOUS
  <2>3. Grow(k, way) = <<g>> \o way
    BY <2>1, <2>2
  <2>4. <<g>> \in Seq(Int) /\ way \in Seq(Int) /\ <<g>> # <<>>
    BY <1>1
  <2>5. <<g>> \o way \in Seq(Int) /\ Len(<<g>> \o way) = Len(<<g>>) + Len(way)
    BY <2>4
  <2>6. Len(<<g>>) = 1 /\ Len(way) \in Nat
    BY <2>4
  <2>7. <<g>> \o way # <<>>
    BY <2>5, <2>6
  <2> QED BY <1>1, <2>3, <2>5, <2>7
<1>6. PICK next : next = [k \in 1..last |-> [way \in V |-> Grow(k, way)]]
  OBVIOUS
<1>7. next \in [1..last -> [V -> V]]
  <2> HIDE DEF Grow
  <2> QED BY <1>5, <1>6
<1>8. PICK parent : parent = [k \in 1..last |-> k - 1]
  OBVIOUS
<1>9. PICK root \in V : root = <<Len(route)>>
  <2>1. PICK n \in Int : n = Len(route)
    BY <1>2
  <2>2. <<n>> \in Seq(Int) /\ Len(<<n>>) = 1 /\ <<n>> # <<>>
    OBVIOUS
  <2> QED BY <1>1, <2>1, <2>2
<1>10. PICK f \in [0..last -> V] :
        /\ f[0] = root
        /\ \A k \in 1..last : f[k] = next[k][f[parent[k]]]
  <2>1. PICK a, m \in Int : a = 0 /\ m = last
    OBVIOUS
  <2>2. a <= m /\ next \in [(a + 1)..m -> [V -> V]]
    BY <1>7, <2>1
  <2>3. \A k \in (a + 1)..m : parent[k] \in a..(k - 1)
    BY <1>8, <2>1
  <2>4. PICK f \in [a..m -> V] : IsRecursive(f, a, m, root, parent, next)
    BY <2>2, <2>3, TreeRecursion
  <2> QED BY <2>1, <2>4 DEF IsRecursive
<1>11. ASSUME NEW k \in 1..last
       PROVE  f[k] = Grow(k, f[k - 1])
  <2>1. k - 1 \in 0..last /\ parent[k] = k - 1
    BY <1>8
  <2>2. f[k - 1] \in V
    BY <2>1
  <2> HIDE DEF Grow
  <2> QED BY <1>6, <1>10, <2>1, <2>2
<1>12. f = [k \in 0..last |-> IF k = 0 THEN <<Len(route)>> ELSE Grow(k, f[k - 1])]
  <2>1. \A k \in 0..last : k # 0 => k \in 1..last
    OBVIOUS
  <2> HIDE DEF Grow
  <2> QED BY <1>9, <1>10, <1>11, <2>1
<1> DEFINE ways == CHOOSE g : g = [k \in 0..last |-> IF k = 0 THEN <<Len(route)>>
                                                     ELSE Grow(k, g[k - 1])]
<1>13. ways = [k \in 0..last |-> IF k = 0 THEN <<Len(route)>> ELSE Grow(k, ways[k - 1])]
  <2> HIDE DEF Grow
  <2> QED BY <1>12, Zenon
<1>14. plan = ways[last]
  BY Zenon DEF Traced
<1> HIDE DEF ways
<1>15. PICK s : s = ways
  OBVIOUS
<1>16. s[0] = <<Len(route)>> /\ \A k \in 1..last : s[k] = Grow(k, s[k - 1])
  <2> HIDE DEF Grow
  <2>1. \A k \in 1..last : k \in 0..last /\ k # 0
    OBVIOUS
  <2>2. 0 \in 0..last
    OBVIOUS
  <2> QED BY <1>13, <1>15, <2>1, <2>2
<1> DEFINE Good(k) ==
             /\ s[k] \in Seq(Int) /\ Len(s[k]) = k + 1
             /\ s[k][1] \in R[last - k + 1] /\ s[k][k + 1] = Len(route)
             /\ \A i \in 1..k :
                  Neighbor(route, constraints, s[k][i], s[k][i + 1], last - k + i - 1)
<1>17. ASSUME NEW D, D = {k \in 0..last : ~Good(k)}, D # {}
       PROVE  FALSE
  <2>1. D \in SUBSET Nat
    BY <1>17
  <2>2. PICK d \in D : \A k \in D : d <= k
    BY <1>17, <2>1, LeastNatural
  <2>3. d \in 0..last /\ ~Good(d)
    BY <1>17, <2>2
  <2>4. d # 0
    <3>1. Good(0)
      BY <1>2, <1>16
    <3> QED BY <2>3, <3>1
  <2>5. d \in 1..last /\ d - 1 \in 0..last /\ ~(d <= d - 1)
    BY <2>3, <2>4
  <2>6. Good(d - 1)
    <3> HIDE DEF Good
    <3> QED BY <1>17, <2>2, <2>5
  <2>7. PICK way, h : way = s[d - 1] /\ h = way[1]
    OBVIOUS
  <2>8. PICK u \in 1..last : u = last - d + 1
    BY <2>5
  <2>9. /\ way \in Seq(Int) /\ Len(way) = d /\ way[d] = Len(route)
        /\ h \in R[u + 1]
        /\ \A i \in 1..(d - 1) : Neighbor(route, constraints, way[i], way[i + 1], u + i - 1)
    <3>1. (d - 1) + 1 = d /\ last - (d - 1) + 1 = u + 1
      BY <2>5, <2>8
    <3>2. \A i \in 1..(d - 1) : last - (d - 1) + i - 1 = u + i - 1
      BY <2>5, <2>8
    <3> QED BY <2>6, <2>7, <3>1, <3>2
  <2>10. h \in Int /\ Head(way) = h
    <3>1. 1 \in 1..Len(way) /\ way # <<>>
      BY <2>5, <2>9
    <3> QED BY <2>7, <2>9, <3>1
  <2>11. R[u] \in SUBSET Int /\ h \in Onward(route, constraints, R[u], u - 1)
    <3>1. u \in 1..last
      BY <2>8
    <3>2. R[u + 1] = Onward(route, constraints, R[u], u - 1)
      BY <1>3, <3>1
    <3>3. R[u] \in SUBSET Int
      BY <1>4, <3>1
    <3> QED BY <2>9, <3>2, <3>3
  <2>12. PICK g : g = Origin(route, constraints, R[u], h, u - 1)
    OBVIOUS
  <2>13. /\ g \in R[u] /\ g \in Int
         /\ Neighbor(route, constraints, g, h, u - 1)
    BY <2>10, <2>11, <2>12, OriginIsReached
  <2>14. s[d] = <<g>> \o way
    <3>1. s[d] = Grow(d, way)
      <4> HIDE DEF Grow
      <4> QED BY <1>16, <2>5, <2>7
    <3>2. Grow(d, way) = <<Origin(route, constraints, R[u], h, u - 1)>> \o way
      BY <2>8, <2>10, Zenon DEF Origin
    <3> QED BY <2>12, <3>1, <3>2
  <2>15. PICK now : now = s[d]
    OBVIOUS
  <2>16. /\ now \in Seq(Int) /\ Len(now) = d + 1 /\ now[1] = g
         /\ \A i \in 1..d : now[i + 1] = way[i]
    <3>1. <<g>> \in Seq(Int) /\ Len(<<g>>) = 1 /\ <<g>>[1] = g
      BY <2>13
    <3>2. <<g>> \o way \in Seq(Int) /\ Len(<<g>> \o way) = 1 + d
      BY <2>9, <3>1
    <3>3. \A i \in 1..(1 + d) : (<<g>> \o way)[i] = IF i <= 1 THEN <<g>>[i] ELSE way[i - 1]
      BY <2>9, <3>1
    <3>4. (<<g>> \o way)[1] = g
      BY <2>5, <3>1, <3>3
    <3>5. ASSUME NEW i \in 1..d
          PROVE  (<<g>> \o way)[i + 1] = way[i]
      <4>1. i + 1 \in 1..(1 + d) /\ ~(i + 1 <= 1) /\ (i + 1) - 1 = i
        BY <2>5
      <4> QED BY <3>3, <4>1
    <3>6. 1 + d = d + 1
      BY <2>5
    <3>7. now = <<g>> \o way
      BY <2>14, <2>15
    <3> QED BY <3>2, <3>4, <3>5, <3>6, <3>7
  <2>17. ASSUME NEW i \in 1..d
         PROVE  Neighbor(route, constraints, now[i], now[i + 1], last - d + i - 1)
    <3>1. CASE i = 1
      <4>1. now[2] = h /\ last - d + i - 1 = u - 1
        BY <2>5, <2>7, <2>8, <2>16, <3>1
      <4> QED BY <2>13, <2>16, <3>1, <4>1
    <3>2. CASE i # 1
      <4>1. i - 1 \in 1..(d - 1) /\ (i - 1) + 1 = i /\ i - 1 \in 1..d
        BY <2>5, <3>2
      <4>2. now[i + 1] = way[i] /\ now[i] = way[i - 1]
        BY <2>16, <4>1
      <4>3. last - d + i - 1 = u + (i - 1) - 1
        <5>1. d \in Int /\ last \in Int /\ u \in Int
          BY <2>5
        <5>2. i \in Int
          BY <5>1
        <5> QED BY <2>8, <5>1, <5>2
      <4> QED BY <2>9, <4>1, <4>2, <4>3
    <3> QED BY <3>1, <3>2
  <2>18. now[1] \in R[last - d + 1] /\ now[d + 1] = Len(route)
    <3>1. now[1] \in R[last - d + 1]
      BY <2>8, <2>13, <2>16
    <3>2. d \in 1..d
      BY <2>5
    <3> QED BY <2>9, <2>16, <3>1, <3>2
  <2>19. Good(d)
    BY <2>15, <2>16, <2>17, <2>18
  <2> QED BY <2>3, <2>19
<1>18. Good(last)
  <2> HIDE DEF Good
  <2>1. PICK D : D = {k \in 0..last : ~Good(k)}
    OBVIOUS
  <2>2. D = {}
    BY <1>17, <2>1
  <2>3. last \in 0..last
    OBVIOUS
  <2> QED BY <2>1, <2>2, <2>3
<1>19. /\ plan \in Seq(Int) /\ Len(plan) = last + 1
       /\ plan[1] \in R[1] /\ plan[last + 1] = Len(route)
       /\ \A i \in 1..last : Neighbor(route, constraints, plan[i], plan[i + 1], i - 1)
  <2>1. last - last + 1 = 1 /\ \A i \in 1..last : last - last + i - 1 = i - 1
    OBVIOUS
  <2> QED BY <1>14, <1>15, <1>18, <2>1
<1> QED BY <1>3, <1>19 DEF LegalSteps

(* The low-level search looks at the ticks at which the route may be over,  *)
(* as far as its length beyond the latest constraint.                       *)
LowLevelEnds(m, r, constraints, latest) ==
  LET route == m.routes[r]
      bound == latest + Len(route)
      R == Reached(route, constraints, bound)
      ends == {t \in 0..bound : /\ Len(route) \in R[t + 1]
                               /\ isSolution(route, constraints, Len(route), t)}
  IN /\ \A c \in constraints : c[2] <= latest
     /\ lowLevel(m, r, constraints)
          = IF ends = {} THEN {} ELSE {Traced(route, constraints, R, Min(ends))}

LEMMA LowLevelHasEnds ==
  ASSUME NEW m, NEW r, NEW constraints, IsFiniteSet(constraints),
         \A c \in constraints : c[2] \in Nat
  PROVE  \E latest \in Nat : LowLevelEnds(m, r, constraints, latest)
<1>1. PICK own : own = {c[2] : c \in constraints}
  OBVIOUS
<1>2. PICK ticks : ticks = {0} \cup own
  OBVIOUS
<1>3. PICK tick : tick = [c \in constraints |-> c[2]]
  OBVIOUS
<1>4. tick \in Surjection(constraints, own)
  BY <1>1, <1>3 DEF Surjection
<1>5. IsFiniteSet(own)
  BY <1>4, FS_Surjection
<1>6. IsFiniteSet(ticks)
  BY <1>2, <1>5, FS_AddElement
<1>7. ticks \in SUBSET Nat /\ ticks \in SUBSET Int /\ ticks # {}
  BY <1>1, <1>2
<1>8. Max(ticks) \in ticks /\ \A t \in ticks : t <= Max(ticks)
  BY <1>6, <1>7, FiniteHasMax
<1>9. PICK latest \in Nat : latest = Max(ticks)
  BY <1>7, <1>8
<1>10. \A c \in constraints : c[2] <= latest
  BY <1>1, <1>2, <1>8, <1>9
<1>11. Max({0} \cup {c[2] : c \in constraints}) = latest
  BY <1>1, <1>2, <1>9
<1>12. LowLevelEnds(m, r, constraints, latest)
  BY <1>10, <1>11, Zenon DEF LowLevelEnds, lowLevel
<1> QED BY <1>12

(* So does what the low-level search returns, to the end of the route at a  *)
(* tick at which it may be over.                                            *)
LEMMA LowLevelSteps ==
  ASSUME NEW m, IsMission(m), NEW r \in DOMAIN m.routes,
         NEW constraints, IsFiniteSet(constraints), \A c \in constraints : c[2] \in Nat,
         NEW plan \in lowLevel(m, r, constraints)
  PROVE  \E last \in Nat :
           /\ plan \in Seq(Int) /\ Len(plan) = last + 1
           /\ plan[1] = 1 /\ plan[last + 1] = Len(m.routes[r])
           /\ \A i \in 1..last :
                Neighbor(m.routes[r], constraints, plan[i], plan[i + 1], i - 1)
           /\ isSolution(m.routes[r], constraints, Len(m.routes[r]), last)
<1>1. PICK route : route = m.routes[r]
  OBVIOUS
<1>2. IsRoute(route) /\ Len(route) \in Nat
  BY <1>1 DEF IsMission, IsRoute
<1>3. PICK latest \in Nat : LowLevelEnds(m, r, constraints, latest)
  BY LowLevelHasEnds
<1>5. PICK bound \in Nat : bound = latest + Len(route)
  BY <1>2
<1>6. PICK R : R = Reached(route, constraints, bound)
  OBVIOUS
<1>7. PICK ends : ends = {t \in 0..bound : /\ Len(route) \in R[t + 1]
                                          /\ isSolution(route, constraints, Len(route), t)}
  OBVIOUS
<1>8. lowLevel(m, r, constraints)
        = IF ends = {} THEN {} ELSE {Traced(route, constraints, R, Min(ends))}
  BY <1>1, <1>3, <1>5, <1>6, <1>7, Zenon DEF LowLevelEnds
<1>9. ends # {} /\ plan = Traced(route, constraints, R, Min(ends))
  BY <1>8
<1>10. Min(ends) \in ends
  <2>1. ends \in SUBSET Int /\ 0 \in Int /\ \A t \in ends : 0 <= t
    BY <1>7
  <2> QED BY <1>9, <2>1, MinIsLeast
<1>11. PICK last \in 0..bound : /\ last = Min(ends) /\ Len(route) \in R[last + 1]
                                /\ isSolution(route, constraints, Len(route), last)
  BY <1>7, <1>10
<1>12. /\ plan \in Seq(Int) /\ Len(plan) = last + 1
       /\ plan[1] = 1 /\ plan[last + 1] = Len(route)
       /\ \A i \in 1..last : Neighbor(route, constraints, plan[i], plan[i + 1], i - 1)
  <2>1. plan = Traced(route, constraints, R, last)
    BY <1>9, <1>11
  <2>2. IsRoute(route) /\ last \in 0..bound /\ Len(route) \in R[last + 1]
    BY <1>2, <1>11
  <2>3. LegalSteps(route, constraints, last, plan)
    BY <1>6, <2>1, <2>2, TracedSteps
  <2> QED BY <2>3 DEF LegalSteps
<1>13. last \in Nat
  OBVIOUS
<1> QED BY <1>1, <1>11, <1>12, <1>13

(* It follows the route.                                                    *)
LEMMA LowLevelFollows ==
  ASSUME NEW m, IsMission(m), NEW r \in DOMAIN m.routes,
         NEW constraints, IsFiniteSet(constraints), \A c \in constraints : c[2] \in Nat,
         NEW plan \in lowLevel(m, r, constraints)
  PROVE  plan \in Seq(Int) /\ Follows(m.routes[r], plan)
<1>1. PICK last \in Nat :
        /\ plan \in Seq(Int) /\ Len(plan) = last + 1
        /\ plan[1] = 1 /\ plan[last + 1] = Len(m.routes[r])
        /\ \A i \in 1..last :
             Neighbor(m.routes[r], constraints, plan[i], plan[i + 1], i - 1)
  BY LowLevelSteps
<1>2. plan # <<>> /\ Len(plan) - 1 = last
  BY <1>1
<1>3. \A i \in 1..last : \/ plan[i + 1] = plan[i] + 1
                         \/ plan[i + 1] = plan[i] /\ ~InTransit(m.routes[r][plan[i]])
  BY <1>1 DEF Neighbor
<1> QED BY <1>1, <1>2, <1>3 DEF Follows

(* A constraint names its kind, its tick and the cell, the resource or the  *)
(* move it bars, and no start.                                              *)
IsConstraint(c) ==
  /\ c[2] \in Nat
  /\ c[1] \in {"vertex", "resource"} => c[2] # 0 /\ c = <<c[1], c[2], c[3]>>
  /\ c[1] = "resource" => c[3] # NoResource
  /\ c[1] = "edge" => c = <<c[1], c[2], c[3], c[4]>>

Keeps(route, plan, constraints) ==
  \A c \in constraints :
    /\ c[1] = "vertex" => route[FrameOf(plan, c[2])].pos # c[3]
    /\ c[1] = "resource" => route[FrameOf(plan, c[2])].res # c[3]
    /\ c[1] = "edge" /\ c[2] < Len(plan) - 1 =>
         ~(route[plan[c[2] + 1]].pos = c[3] /\ route[plan[c[2] + 2]].pos = c[4])

(* And it keeps the constraints: those on cells and resources also where    *)
(* the robot is parked, those on moves until then.                          *)
LEMMA LowLevelKeeps ==
  ASSUME NEW m, IsMission(m), NEW r \in DOMAIN m.routes,
         NEW constraints, IsFiniteSet(constraints), \A c \in constraints : IsConstraint(c),
         NEW plan \in lowLevel(m, r, constraints)
  PROVE  Keeps(m.routes[r], plan, constraints)
<1>1. PICK route, n : route = m.routes[r] /\ n = Len(route)
  OBVIOUS
<1>2. \A c \in constraints : c[2] \in Nat
  BY DEF IsConstraint
<1>3. PICK last \in Nat :
        /\ plan \in Seq(Int) /\ Len(plan) = last + 1 /\ plan[last + 1] = n
        /\ \A i \in 1..last : Neighbor(route, constraints, plan[i], plan[i + 1], i - 1)
        /\ isSolution(route, constraints, n, last)
  BY <1>1, <1>2, LowLevelSteps
<1>4. ~Holds(route[n])
  BY <1>1 DEF IsMission
<1>5. ASSUME NEW c \in constraints, c[1] = "vertex", c[3] = route[n].pos
      PROVE  c[2] < last
  <2>1. PICK barred : barred = {d \in constraints : d[1] = "vertex" /\ d[3] = Last(route).pos}
    OBVIOUS
  <2>2. PICK own : own = {d[2] : d \in barred}
    OBVIOUS
  <2>3. PICK ticks : ticks = {-1} \cup own
    OBVIOUS
  <2>4. own \in SUBSET Nat
    BY <1>2, <2>1, <2>2
  <2>5. IsFiniteSet(own)
    <3>1. IsFiniteSet(barred)
      <4>1. barred \subseteq constraints
        BY <2>1
      <4> QED BY <4>1, FS_Subset
    <3>2. PICK tick : tick = [d \in barred |-> d[2]]
      OBVIOUS
    <3>3. tick \in Surjection(barred, own)
      BY <2>2, <3>2 DEF Surjection
    <3> QED BY <3>1, <3>3, FS_Surjection
  <2>6. IsFiniteSet(ticks) /\ ticks # {} /\ ticks \in SUBSET Int
    <3>1. IsFiniteSet(own \cup {-1})
      BY <2>5, FS_AddElement
    <3>2. ticks = own \cup {-1}
      BY <2>3
    <3> QED BY <2>3, <2>4, <3>1, <3>2
  <2>7. Max(ticks) \in ticks /\ \A t \in ticks : t <= Max(ticks)
    BY <2>6, FiniteHasMax
  <2>8. c[2] \in ticks
    BY <1>1, <1>5, <2>1, <2>2, <2>3 DEF Last
  <2>9. last > Max(ticks)
    BY <1>3, <2>1, <2>2, <2>3 DEF isSolution, LastGoalConstraint
  <2>10. c[2] <= Max(ticks) /\ Max(ticks) \in Int /\ c[2] \in Int
    BY <2>6, <2>7, <2>8
  <2> QED BY <2>9, <2>10
<1>6. ASSUME NEW c \in constraints, c[1] \in {"vertex", "resource"}, c[2] <= last
      PROVE  /\ c[1] = "vertex" => route[plan[c[2] + 1]].pos # c[3]
             /\ c[1] = "resource" => route[plan[c[2] + 1]].res # c[3]
  <2>1. c[2] \in 1..last /\ c = <<c[1], c[2], c[3]>>
    BY <1>6 DEF IsConstraint
  <2>2. PICK t \in 1..last : t = c[2]
    BY <2>1
  <2>3. PICK to : to = route[plan[t + 1]]
    OBVIOUS
  <2>4. /\ <<"vertex", t, to.pos>> \notin constraints
        /\ Holds(to) => <<"resource", t, to.res>> \notin constraints
    <3>1. (t - 1) + 1 = t
      OBVIOUS
    <3>2. allowed(constraints, route[plan[t]], to, t - 1)
      BY <1>3, <2>3 DEF Neighbor
    <3> QED BY <3>1, <3>2 DEF allowed
  <2>5. c[1] = "vertex" => to.pos # c[3]
    BY <1>6, <2>1, <2>2, <2>4
  <2>6. c[1] = "resource" => to.res # c[3]
    BY <1>6, <2>1, <2>2, <2>4 DEF IsConstraint, Holds
  <2> QED BY <2>2, <2>3, <2>5, <2>6
<1>7. ASSUME NEW c \in constraints, c[1] \in {"vertex", "resource"}
      PROVE  /\ c[1] = "vertex" => route[FrameOf(plan, c[2])].pos # c[3]
             /\ c[1] = "resource" => route[FrameOf(plan, c[2])].res # c[3]
  <2>1. CASE c[2] <= last
    <3>1. FrameOf(plan, c[2]) = plan[c[2] + 1]
      BY <1>2, <1>3, <2>1 DEF FrameOf
    <3> QED BY <1>6, <1>7, <2>1, <3>1
  <2>2. CASE ~(c[2] <= last)
    <3>1. FrameOf(plan, c[2]) = n
      BY <1>2, <1>3, <2>2 DEF FrameOf
    <3>2. c[1] = "resource" => route[n].res # c[3]
      BY <1>4 DEF Holds, IsConstraint
    <3>3. c[1] = "vertex" => route[n].pos # c[3]
      BY <1>2, <1>5, <2>2
    <3> QED BY <3>1, <3>2, <3>3
  <2> QED BY <2>1, <2>2
<1>8. ASSUME NEW c \in constraints, c[1] = "edge", c[2] < Len(plan) - 1
      PROVE  ~(route[plan[c[2] + 1]].pos = c[3] /\ route[plan[c[2] + 2]].pos = c[4])
  <2>1. PICK t, from, to : t = c[2] /\ from = c[3] /\ to = c[4]
    OBVIOUS
  <2>2. c = <<"edge", t, from, to>>
    BY <1>8, <2>1 DEF IsConstraint
  <2>3. t \in Nat /\ t + 1 \in 1..last /\ (t + 1) - 1 = t /\ (t + 1) + 1 = t + 2
    <3>1. t \in Nat /\ t < Len(plan) - 1
      BY <1>2, <1>8, <2>1
    <3>2. Len(plan) - 1 = last
      BY <1>3
    <3> QED BY <3>1, <3>2
  <2>4. Neighbor(route, constraints, plan[t + 1], plan[t + 2], t)
    <3>1. PICK i \in 1..last : i = t + 1 /\ i - 1 = t /\ i + 1 = t + 2
      BY <2>3
    <3>2. Neighbor(route, constraints, plan[i], plan[i + 1], i - 1)
      BY <1>3
    <3> QED BY <3>1, <3>2
  <2>5. <<"edge", t, route[plan[t + 1]].pos, route[plan[t + 2]].pos>> \notin constraints
    BY <2>4 DEF Neighbor, allowed
  <2> QED BY <1>8, <2>1, <2>2, <2>5
<1> QED BY <1>1, <1>7, <1>8 DEF Keeps
-----------------------------------------------------------------------------
(* A conflict is between two robots of the mission, at a tick at which some *)
(* robot may still be on its way.                                           *)
LEMMA ConflictFacts ==
  ASSUME NEW m, IsMission(m), NEW schedules, NEW c \in getFirstConflict(m, schedules),
         NEW fa, fa = FrameAt(PathOf(m, schedules, c.first), c.tick),
         NEW fb, fb = FrameAt(PathOf(m, schedules, c.second), c.tick)
  PROVE  /\ c.first \in DOMAIN m.routes /\ c.second \in DOMAIN m.routes
         /\ c.first < c.second
         /\ c.tick \in 0..Makespan(schedules)
         /\ c.kind \in {"vertex", "resource", "edge"}
         /\ c.from[1] = fa /\ c.from[2] = fb
         /\ c.kind = "resource" => SharesResource(fa, fb)
         /\ c.kind = "vertex" => Near(fa, fb, Reach(m, c.first, c.second))
<1>1. c \in Conflicts(m, schedules)
  BY DEF getFirstConflict
<1>2. PICK t \in 0..Makespan(schedules), p \in PairsOf(m) :
        c \in ConflictAt(m, schedules, t, p[1], p[2])
  BY <1>1 DEF Conflicts
<1>3. /\ c.first = p[1] /\ c.second = p[2] /\ c.tick = t
      /\ c.kind \in {"vertex", "resource", "edge"}
  BY <1>2 DEF ConflictAt
<1>4. p[1] \in DOMAIN m.routes /\ p[2] \in DOMAIN m.routes /\ p[1] < p[2]
  BY DEF PairsOf
<1>5. fa = FrameAt(PathOf(m, schedules, p[1]), t) /\ fb = FrameAt(PathOf(m, schedules, p[2]), t)
  BY <1>3
<1>6. PICK d : d = Reach(m, p[1], p[2])
  OBVIOUS
<1>7. /\ c.from = <<fa, fb>>
      /\ c.kind = "resource" => SharesResource(fa, fb)
      /\ c.kind = "vertex" => Near(fa, fb, d)
  BY <1>2, <1>5, <1>6 DEF ConflictAt
<1> QED BY <1>3, <1>4, <1>6, <1>7

(* Of some conflicts one is the first.                                      *)
LEMMA SomeComesFirst ==
  ASSUME NEW C, C # {}, \A c \in C : c.tick \in Nat /\ c.first \in Nat /\ c.second \in Nat
  PROVE  \E c \in C : \A d \in C :
           ~(\/ d.tick < c.tick
             \/ d.tick = c.tick /\ d.first < c.first
             \/ d.tick = c.tick /\ d.first = c.first /\ d.second < c.second)
<1>1. PICK T : T = {c.tick : c \in C}
  OBVIOUS
<1>2. PICK t \in T : \A u \in T : t <= u
  <2>1. T \in SUBSET Nat /\ T # {}
    BY <1>1
  <2> QED BY <2>1, LeastNatural
<1>3. PICK F : F = {c.first : c \in {d \in C : d.tick = t}}
  OBVIOUS
<1>4. PICK f \in F : \A g \in F : f <= g
  <2>1. F \in SUBSET Nat /\ F # {}
    BY <1>1, <1>2, <1>3
  <2> QED BY <2>1, LeastNatural
<1>5. PICK S : S = {c.second : c \in {d \in C : d.tick = t /\ d.first = f}}
  OBVIOUS
<1>6. PICK s \in S : \A u \in S : s <= u
  <2>1. S \in SUBSET Nat /\ S # {}
    BY <1>3, <1>4, <1>5
  <2> QED BY <2>1, LeastNatural
<1>7. PICK c \in C : c.tick = t /\ c.first = f /\ c.second = s
  BY <1>5, <1>6
<1>8. ASSUME NEW d \in C
      PROVE  ~(\/ d.tick < c.tick
               \/ d.tick = c.tick /\ d.first < c.first
               \/ d.tick = c.tick /\ d.first = c.first /\ d.second < c.second)
  <2>1. t <= d.tick /\ d.tick \in Nat /\ t \in Nat
    BY <1>1, <1>2, <1>7
  <2>2. d.tick = t => f <= d.first /\ d.first \in Nat /\ f \in Nat
    BY <1>3, <1>4, <1>7
  <2>3. d.tick = t /\ d.first = f => s <= d.second /\ d.second \in Nat /\ s \in Nat
    BY <1>5, <1>6, <1>7
  <2>4. ~(d.tick < t)
    BY <2>1
  <2>5. d.tick = t => ~(d.first < f)
    BY <2>2
  <2>6. d.tick = t /\ d.first = f => ~(d.second < s)
    BY <2>3
  <2> QED BY <1>7, <2>4, <2>5, <2>6
<1> QED BY <1>8

(* Any conflict at all is found.                                            *)
LEMMA SomeConflictIsFound ==
  ASSUME NEW m, IsMission(m), NEW schedules, Makespan(schedules) \in Nat,
         NEW a \in DOMAIN m.routes, NEW b \in DOMAIN m.routes, a < b,
         NEW t \in 0..Makespan(schedules), ConflictAt(m, schedules, t, a, b) # {}
  PROVE  getFirstConflict(m, schedules) # {}
<1>1. PICK last \in Nat : last = Makespan(schedules)
  OBVIOUS
<1>2. DOMAIN m.routes \in SUBSET Nat
  BY DEF IsMission
<1>3. PICK C : C = Conflicts(m, schedules)
  OBVIOUS
<1>4. C # {}
  <2>1. PICK p : p = <<a, b>>
    OBVIOUS
  <2>2. p \in PairsOf(m) /\ p[1] = a /\ p[2] = b
    BY <2>1 DEF PairsOf
  <2>3. PICK c \in ConflictAt(m, schedules, t, p[1], p[2]) : TRUE
    BY <2>2
  <2>4. c \in Conflicts(m, schedules)
    BY <2>2, <2>3 DEF Conflicts
  <2> QED BY <1>3, <2>4
<1>5. \A c \in C : c.tick \in Nat /\ c.first \in Nat /\ c.second \in Nat
  <2> TAKE c \in C
  <2>1. PICK u \in 0..last, p \in PairsOf(m) : c \in ConflictAt(m, schedules, u, p[1], p[2])
    BY <1>1, <1>3 DEF Conflicts
  <2>2. c.first = p[1] /\ c.second = p[2] /\ c.tick = u
    BY <2>1 DEF ConflictAt
  <2>3. u \in Nat /\ p[1] \in Nat /\ p[2] \in Nat
    BY <1>2 DEF PairsOf
  <2> QED BY <2>2, <2>3
<1>6. PICK c \in C : \A e \in C :
         ~(\/ e.tick < c.tick
           \/ e.tick = c.tick /\ e.first < c.first
           \/ e.tick = c.tick /\ e.first = c.first /\ e.second < c.second)
  BY <1>4, <1>5, SomeComesFirst
<1>7. c \in getFirstConflict(m, schedules)
  BY <1>3, <1>6 DEF getFirstConflict
<1> QED BY <1>7

(* Where none is found, none meet.                                          *)
LEMMA NoConflictIsFree ==
  ASSUME NEW m, IsMission(m), NEW schedules, DOMAIN schedules = DOMAIN m.routes,
         \A r \in DOMAIN m.routes :
           schedules[r] \in Seq(Int) /\ Follows(m.routes[r], schedules[r]),
         getFirstConflict(m, schedules) = {}
  PROVE  \A a, b \in DOMAIN m.routes :
           a < b => \A t \in 0..Makespan(schedules) : ~MeetAt(m, schedules, a, b, t)
<1> SUFFICES ASSUME NEW a \in DOMAIN m.routes, NEW b \in DOMAIN m.routes, a < b,
                    NEW t \in 0..Makespan(schedules), MeetAt(m, schedules, a, b, t)
             PROVE  FALSE
  OBVIOUS
<1>1. PICK robots : robots = DOMAIN m.routes
  OBVIOUS
<1>2. PICK last : last = Makespan(schedules)
  OBVIOUS
<1>3. robots \in SUBSET Nat /\ IsFiniteSet(robots)
  <2>1. robots = 1..Len(m.routes) /\ Len(m.routes) \in Int /\ 1 \in Int
    BY <1>1 DEF IsMission
  <2> QED BY <2>1, FS_Interval
<1>4. \A r \in robots : schedules[r] # <<>>
  BY <1>1 DEF Follows
<1>5. last \in Nat /\ \A r \in robots : Len(schedules[r]) - 1 <= last
  BY <1>1, <1>2, <1>3, <1>4, MakespanFacts
<1>6. \A r \in robots : IsPlanned(m, last, schedules, r)
  BY <1>1, <1>5 DEF IsPlanned
<1>7. PICK pa, pb : pa = PathOf(m, schedules, a) /\ pb = PathOf(m, schedules, b)
  OBVIOUS
<1>8. t \in Nat /\ t + 1 \in Nat
  BY <1>2, <1>5
<1>9. PICK fa, ga, fb, gb : /\ fa = FrameAt(pa, t) /\ ga = FrameAt(pa, t + 1)
                            /\ fb = FrameAt(pb, t) /\ gb = FrameAt(pb, t + 1)
  OBVIOUS
<1>10. \A f \in {fa, ga, fb, gb} : f.pos.x \in Int /\ f.pos.y \in Int
  BY <1>1, <1>6, <1>7, <1>8, <1>9, PlannedFrames
<1>11. PICK d \in Int : d = Reach(m, a, b)
  <2>1. m.size[a] \in Nat /\ m.size[b] \in Nat
    BY DEF IsMission
  <2>2. Reach(m, a, b) \in Int
    BY <2>1 DEF Reach
  <2> QED BY <2>2
<1>12. Meet(fa, ga, fb, gb, d)
  BY <1>7, <1>9, <1>11 DEF MeetAt
<1>13. ~(t < last) => ga = fa /\ gb = fb
  <2>1. ASSUME ~(t < last), NEW r \in robots
        PROVE  FrameAt(PathOf(m, schedules, r), t + 1) = FrameAt(PathOf(m, schedules, r), t)
    <3>1. Len(schedules[r]) - 1 <= last /\ Len(schedules[r]) \in Nat /\ Len(schedules[r]) # 0
      BY <1>1, <1>4, <1>5
    <3>2. ~(t + 1 < Len(schedules[r]))
      BY <1>5, <1>8, <2>1, <3>1
    <3>3. t + 1 = Len(schedules[r]) \/ ~(t < Len(schedules[r]))
      BY <1>8, <3>1, <3>2
    <3>4. FrameOf(schedules[r], t + 1) = FrameOf(schedules[r], t)
      BY <1>8, <3>1, <3>2, <3>3 DEF FrameOf
    <3>5. PICK path : path = PathOf(m, schedules, r)
      OBVIOUS
    <3>6. FrameAt(path, t) = m.routes[r][FrameOf(schedules[r], t)]
      BY <1>1, <1>6, <1>8, <3>5, PlannedFrames
    <3>7. FrameAt(path, t + 1) = m.routes[r][FrameOf(schedules[r], t + 1)]
      BY <1>1, <1>6, <1>8, <3>5, PlannedFrames
    <3> QED BY <3>4, <3>5, <3>6, <3>7
  <2> QED BY <1>1, <1>7, <1>9, <2>1
<1>14. \/ SharesResource(fa, fb) \/ Near(fa, fb, d)
       \/ t < last /\ Swept(fa, ga, fb, gb, d)
  <2>1. CASE Collide(fa, fb, d)
    BY <2>1 DEF Collide
  <2>2. CASE Swept(fa, ga, fb, gb, d) /\ ~Near(fa, fb, d)
    <3>1. ~Swept(fa, fa, fb, fb, d)
      BY <1>10, <2>2, StillIsNear
    <3> QED BY <1>13, <2>2, <3>1
  <2> QED BY <1>12, <2>1, <2>2 DEF Meet
<1>15. ConflictAt(m, schedules, t, a, b) # {}
  BY <1>2, <1>7, <1>9, <1>11, <1>14, Zenon DEF ConflictAt
<1> QED BY <1>2, <1>5, <1>15, SomeConflictIsFound

(* Robots that are let in do not collide where they start.                  *)
StartsApart(m) ==
  \A a, b \in DOMAIN m.routes :
    a < b => ~Collide(m.routes[a][1], m.routes[b][1], Reach(m, a, b))

LEMMA AcceptedStartsApart ==
  ASSUME NEW m, IsMission(m), NEW ones, ones = [r \in DOMAIN m.routes |-> << 1 >>],
         getFirstConflict(m, ones) = {}
  PROVE  StartsApart(m)
<1> SUFFICES ASSUME NEW a \in DOMAIN m.routes, NEW b \in DOMAIN m.routes, a < b,
                    Collide(m.routes[a][1], m.routes[b][1], Reach(m, a, b))
             PROVE  FALSE
  BY DEF StartsApart
<1>1. IsFiniteSet(DOMAIN m.routes)
  <2>1. DOMAIN m.routes = 1..Len(m.routes) /\ Len(m.routes) \in Int /\ 1 \in Int
    BY DEF IsMission
  <2> QED BY <2>1, FS_Interval
<1>2. DOMAIN ones = DOMAIN m.routes /\ \A r \in DOMAIN m.routes : ones[r] = << 1 >>
  OBVIOUS
<1>3. << 1 >> \in Seq(Int) /\ << 1 >> # <<>> /\ Len(<< 1 >>) = 1 /\ DOMAIN << 1 >> = {1} /\ << 1 >>[1] = 1
  OBVIOUS
<1>4. Makespan(ones) \in Nat
  BY <1>1, <1>2, <1>3, MakespanFacts
<1>5. \A r \in DOMAIN m.routes : FrameAt(PathOf(m, ones, r), 0) = m.routes[r][1]
  <2> TAKE r \in DOMAIN m.routes
  <2>1. PICK V : V = {m.routes[r][1]}
    OBVIOUS
  <2>2. PICK path : path = PathOf(m, ones, r)
    OBVIOUS
  <2>3. path = [t \in 1..1 |-> m.routes[r][1]]
    BY <1>2, <1>3, <2>2 DEF PathOf
  <2>4. path \in [1..1 -> V]
    BY <2>1, <2>3
  <2>5. Len(path) = 1 /\ path[1] = m.routes[r][1]
    BY <2>3, <2>4
  <2> QED BY <2>2, <2>5 DEF FrameAt
<1>6. PICK fa, fb, pa, pb : /\ pa = PathOf(m, ones, a) /\ pb = PathOf(m, ones, b)
                            /\ fa = FrameAt(pa, 0) /\ fb = FrameAt(pb, 0)
  OBVIOUS
<1>7. PICK d : d = Reach(m, a, b)
  OBVIOUS
<1>8. SharesResource(fa, fb) \/ Near(fa, fb, d)
  BY <1>5, <1>6, <1>7 DEF Collide
<1>9. ConflictAt(m, ones, 0, a, b) # {}
  BY <1>6, <1>7, <1>8, Zenon DEF ConflictAt
<1>10. 0 \in 0..Makespan(ones)
  BY <1>4
<1> QED BY <1>4, <1>9, <1>10, SomeConflictIsFound

(* The constraints a conflict gives are of its tick, and bar no start.      *)
LEMMA ConstraintsFacts ==
  ASSUME NEW m, IsMission(m), StartsApart(m), NEW schedules,
         \A r \in DOMAIN m.routes :
           schedules[r] \in Seq(Int) /\ Follows(m.routes[r], schedules[r]),
         NEW c \in getFirstConflict(m, schedules), Makespan(schedules) \in Nat,
         NEW added, added = createConstraintsFromConflict(c)
  PROVE  /\ DOMAIN added \subseteq DOMAIN m.routes
         /\ \A r \in DOMAIN added :
              IsFiniteSet(added[r]) /\ \A d \in added[r] : IsConstraint(d)
<1>1. PICK fa, fb : /\ fa = FrameAt(PathOf(m, schedules, c.first), c.tick)
                    /\ fb = FrameAt(PathOf(m, schedules, c.second), c.tick)
  OBVIOUS
<1>2. /\ c.first \in DOMAIN m.routes /\ c.second \in DOMAIN m.routes
      /\ c.first < c.second /\ c.tick \in 0..Makespan(schedules)
      /\ c.kind \in {"vertex", "resource", "edge"}
      /\ c.from[1] = fa /\ c.from[2] = fb
      /\ c.kind = "resource" => SharesResource(fa, fb)
      /\ c.kind = "vertex" => Near(fa, fb, Reach(m, c.first, c.second))
  BY <1>1, ConflictFacts
<1>3. c.tick \in Nat
  BY <1>2
<1>4. \A r \in DOMAIN m.routes : FrameAt(PathOf(m, schedules, r), 0) = m.routes[r][1]
  <2> TAKE r \in DOMAIN m.routes
  <2>1. IsRoute(m.routes[r])
    BY DEF IsMission
  <2>2. FrameOf(schedules[r], 0) = 1
    <3>1. schedules[r] # <<>> /\ schedules[r][1] = 1 /\ schedules[r] \in Seq(Int)
      BY DEF Follows
    <3>2. 0 < Len(schedules[r])
      BY <3>1
    <3> QED BY <3>1, <3>2 DEF FrameOf
  <2>3. FrameAt(PathOf(m, schedules, r), 0) = m.routes[r][FrameOf(schedules[r], 0)]
    <3>1. Walks(m, schedules, r) /\ 0 \in Nat
      BY <2>1 DEF Walks
    <3> QED BY <3>1, PathFacts
  <2> QED BY <2>2, <2>3
<1>5. c.kind \in {"vertex", "resource"} => c.tick # 0
  <2> SUFFICES ASSUME c.kind \in {"vertex", "resource"}, c.tick = 0
               PROVE  FALSE
    OBVIOUS
  <2>1. fa = m.routes[c.first][1] /\ fb = m.routes[c.second][1]
    BY <1>1, <1>2, <1>4
  <2>2. Collide(fa, fb, Reach(m, c.first, c.second))
    BY <1>2 DEF Collide
  <2> QED BY <1>2, <2>1, <2>2 DEF StartsApart
<1>6. c.kind = "resource" => fa.res # NoResource /\ fb.res # NoResource
  BY <1>2 DEF SharesResource, Holds
<1>7. DOMAIN added = {c.first, c.second}
  BY DEF createConstraintsFromConflict
<1>8. ASSUME NEW r \in DOMAIN added
      PROVE  IsFiniteSet(added[r]) /\ \A d \in added[r] : IsConstraint(d)
  <2>1. PICK k \in {1, 2} : k = IF r = c.first THEN 1 ELSE 2
    OBVIOUS
  <2>2. PICK d : d = Constraint(c, k)
    OBVIOUS
  <2>3. added[r] = {d}
    BY <1>7, <1>8, <2>1, <2>2 DEF createConstraintsFromConflict
  <2>4. IsConstraint(d)
    <3>1. CASE c.kind = "vertex"
      BY <1>3, <1>5, <2>2, <3>1 DEF Constraint, IsConstraint
    <3>2. CASE c.kind = "resource"
      <4>1. c.from[k].res # NoResource
        BY <1>2, <1>6, <2>1, <3>2
      <4> QED BY <1>3, <1>5, <2>2, <3>2, <4>1 DEF Constraint, IsConstraint
    <3>3. CASE c.kind = "edge"
      BY <1>3, <2>2, <3>3 DEF Constraint, IsConstraint
    <3> QED BY <1>2, <3>1, <3>2, <3>3
  <2>5. IsFiniteSet({d})
    BY FS_Singleton
  <2> QED BY <2>3, <2>4, <2>5
<1> QED BY <1>2, <1>7, <1>8

-----------------------------------------------------------------------------
(* Plans that follow the routes, and constraints that they keep.            *)
Followed(m, schedules) ==
  /\ DOMAIN schedules = DOMAIN m.routes
  /\ \A r \in DOMAIN m.routes :
       schedules[r] \in Seq(Int) /\ Follows(m.routes[r], schedules[r])

Constrained(m, solution, constraints) ==
  /\ DOMAIN constraints = DOMAIN m.routes
  /\ \A r \in DOMAIN m.routes :
       /\ IsFiniteSet(constraints[r]) /\ \A c \in constraints[r] : IsConstraint(c)
       /\ Keeps(m.routes[r], solution[r], constraints[r])

NodesSound(m, open_nodes) ==
  \A n \in open_nodes :
    /\ Followed(m, n.solution) /\ Constrained(m, n.solution, n.constraints)
    /\ n.solution \in [DOMAIN m.routes -> Seq(Int)] /\ n.cost = TotalCost(n.solution)

(* The inductive invariant of the conflict-based search: the plans of all   *)
(* its nodes follow the routes and keep their constraints, whatever they    *)
(* still meet, and their costs are the sums of the plans'.                  *)
CbsInv ==
  /\ phase \in {"schedule", "cbs"} => StartsApart(mission)
  /\ NodesSound(mission, tree)
  /\ answer = "found" => Followed(mission, agreed) /\ getFirstConflict(mission, agreed) = {}

LEMMA FollowedMakespan ==
  ASSUME NEW m, IsMission(m), NEW schedules, Followed(m, schedules), DOMAIN m.routes # {}
  PROVE  Makespan(schedules) \in Nat
<1>1. IsFiniteSet(DOMAIN m.routes)
  <2>1. DOMAIN m.routes = 1..Len(m.routes) /\ Len(m.routes) \in Int /\ 1 \in Int
    BY DEF IsMission
  <2> QED BY <2>1, FS_Interval
<1>2. \A r \in DOMAIN m.routes : schedules[r] \in Seq(Int) /\ schedules[r] # <<>>
  BY DEF Followed, Follows
<1> QED BY <1>1, <1>2, MakespanFacts DEF Followed

(* The total cost is the sum of the costs.                                  *)
LEMMA TotalIsSum ==
  ASSUME NEW n \in Nat, NEW schedules \in [1..n -> Seq(Int)],
         \A r \in 1..n : schedules[r] # <<>>,
         NEW cost, cost = [r \in 1..n |-> Cost(schedules[r])]
  PROVE  /\ cost \in [1..n -> Nat]
         /\ \E f : IsSum(f, n, cost) /\ TotalCost(schedules) = f[n]
<1>1. \A r \in 1..n : Cost(schedules[r]) \in Nat
  <2> TAKE r \in 1..n
  <2>1. schedules[r] \in Seq(Int) /\ schedules[r] # <<>>
    OBVIOUS
  <2>2. Len(schedules[r]) \in Nat /\ Len(schedules[r]) # 0
    BY <2>1
  <2> QED BY <2>2 DEF Cost
<1>2. cost \in [1..n -> Nat]
  BY <1>1
<1>3. Len(schedules) = n
  OBVIOUS
<1>4. PICK f : f = [k \in 0..n |-> IF k = 0 THEN 0 ELSE f[k - 1] + cost[k]]
  BY <1>2, SumExists, Zenon DEF IsSum
<1>5. \A g : g = [k \in 0..n |-> IF k = 0 THEN 0 ELSE g[k - 1] + cost[k]] <=>
             g = [k \in 0..n |-> IF k = 0 THEN 0 ELSE g[k - 1] + Cost(schedules[k])]
  <2> TAKE g
  <2>1. \A k \in 0..n : k # 0 => cost[k] = Cost(schedules[k])
    OBVIOUS
  <2>2. [k \in 0..n |-> IF k = 0 THEN 0 ELSE g[k - 1] + cost[k]] =
        [k \in 0..n |-> IF k = 0 THEN 0 ELSE g[k - 1] + Cost(schedules[k])]
    BY <2>1
  <2> QED BY <2>2
<1> DEFINE upTo == CHOOSE g : g = [k \in 0..n |-> IF k = 0 THEN 0
                                                  ELSE g[k - 1] + Cost(schedules[k])]
<1>6. upTo = [k \in 0..n |-> IF k = 0 THEN 0 ELSE upTo[k - 1] + Cost(schedules[k])]
  BY <1>4, <1>5, Zenon
<1>7. TotalCost(schedules) = upTo[n]
  BY <1>3, Zenon DEF TotalCost
<1> HIDE DEF upTo
<1>8. IsSum(upTo, n, cost)
  BY <1>5, <1>6, Zenon DEF IsSum
<1> QED BY <1>2, <1>7, <1>8, Zenon

(* Another schedule for one robot changes it by the difference of the two.  *)
LEMMA TotalDiffers ==
  ASSUME NEW m, IsMission(m),
         NEW old \in [DOMAIN m.routes -> Seq(Int)], Followed(m, old),
         NEW new \in [DOMAIN m.routes -> Seq(Int)], Followed(m, new),
         NEW a \in DOMAIN m.routes, \A r \in DOMAIN m.routes : r # a => new[r] = old[r]
  PROVE  TotalCost(new) = TotalCost(old) - Cost(old[a]) + Cost(new[a])
<1>1. PICK n \in Nat : n = Len(m.routes) /\ DOMAIN m.routes = 1..n
  BY DEF IsMission
<1>2. /\ old \in [1..n -> Seq(Int)] /\ \A r \in 1..n : old[r] # <<>>
      /\ new \in [1..n -> Seq(Int)] /\ \A r \in 1..n : new[r] # <<>>
  BY <1>1 DEF Followed, Follows
<1>3. PICK c, d : c = [r \in 1..n |-> Cost(old[r])] /\ d = [r \in 1..n |-> Cost(new[r])]
  OBVIOUS
<1>4. PICK f : c \in [1..n -> Nat] /\ IsSum(f, n, c) /\ TotalCost(old) = f[n]
  BY <1>2, <1>3, TotalIsSum
<1>5. PICK g : d \in [1..n -> Nat] /\ IsSum(g, n, d) /\ TotalCost(new) = g[n]
  BY <1>2, <1>3, TotalIsSum
<1>6. \A r \in 1..n : r # a => d[r] = c[r]
  BY <1>1, <1>3
<1>7. Differs(f, g, n, a, c, d)
  BY <1>1, <1>4, <1>5, <1>6, SumDiffers
<1>8. c[a] = Cost(old[a]) /\ d[a] = Cost(new[a])
  BY <1>1, <1>3
<1> QED BY <1>4, <1>5, <1>7, <1>8 DEF Differs

LEMMA PlanReplaced ==
  ASSUME NEW R, NEW schedules \in [R -> Seq(Int)], NEW a \in R, NEW plan \in Seq(Int)
  PROVE  [schedules EXCEPT ![a] = plan] \in [R -> Seq(Int)]
OBVIOUS

LEMMA ReplacedCost ==
  ASSUME NEW m, IsMission(m),
         NEW old \in [DOMAIN m.routes -> Seq(Int)], Followed(m, old),
         NEW a \in DOMAIN m.routes, NEW plan,
         Followed(m, [old EXCEPT ![a] = plan])
  PROVE  TotalCost([old EXCEPT ![a] = plan]) = TotalCost(old) - Cost(old[a]) + Cost(plan)
<1>1. PICK new : new = [old EXCEPT ![a] = plan]
  OBVIOUS
<1>2. new[a] = plan /\ \A r \in DOMAIN m.routes : r # a => new[r] = old[r]
  BY <1>1
<1>3. Followed(m, new)
  BY <1>1
<1>4. plan \in Seq(Int)
  BY <1>2, <1>3 DEF Followed
<1>5. new \in [DOMAIN m.routes -> Seq(Int)]
  BY <1>1, <1>4, PlanReplaced
<1>6. TotalCost(new) = TotalCost(old) - Cost(old[a]) + Cost(new[a])
  BY <1>2, <1>3, <1>5, TotalDiffers
<1> QED BY <1>1, <1>2, <1>6

(* What the search adds up for its root is the total cost.                  *)
LEMMA RootCost ==
  ASSUME NEW schedules
  PROVE  Cbs!Total(schedules) = TotalCost(schedules)
BY Zenon DEF Cbs!Total, TotalCost

LEMMA CbsStarts ==
  ASSUME mission \in Missions, Cbs!Start
  PROVE  NodesSound(mission, tree')
<1>1. PICK m : m = mission /\ IsMission(m)
  BY MissionsAssumption
<1>2. ASSUME NEW n \in tree'
      PROVE  /\ Followed(m, n.solution) /\ Constrained(m, n.solution, n.constraints)
             /\ n.solution \in [DOMAIN m.routes -> Seq(Int)]
             /\ n.cost = TotalCost(n.solution)
  <2>1. PICK options : options = [a \in DOMAIN m.routes |-> lowLevel(m, a, {})]
    OBVIOUS
  <2>2. PICK free : free = [a \in DOMAIN m.routes |-> {}]
    OBVIOUS
  <2>3. PICK plans0 \in Cbs!Selections(options) :
          n = Cbs!Node(0, plans0, free, Cbs!Total(plans0))
    BY <1>1, <1>2, <2>1, <2>2 DEF Cbs!Start, RobotsOf
  <2>4. n.solution = plans0 /\ n.constraints = free /\ n.cost = TotalCost(plans0)
    BY <2>3, RootCost DEF Cbs!Node
  <2>5. DOMAIN plans0 = DOMAIN m.routes /\ \A a \in DOMAIN m.routes : plans0[a] \in lowLevel(m, a, {})
    BY <2>1, <2>3 DEF Cbs!Selections
  <2>6. IsFiniteSet({})
    BY FS_EmptySet
  <2>7. \A a \in DOMAIN m.routes : plans0[a] \in Seq(Int) /\ Follows(m.routes[a], plans0[a])
    BY <1>1, <2>5, <2>6, LowLevelFollows
  <2>8. \A a \in DOMAIN m.routes : free[a] = {} /\ Keeps(m.routes[a], plans0[a], free[a])
    BY <2>2 DEF Keeps
  <2>9. Constrained(m, plans0, free)
    BY <2>2, <2>6, <2>8 DEF Constrained
  <2>10. plans0 \in [DOMAIN m.routes -> Seq(Int)]
    <3>1. plans0 = [a \in DOMAIN m.routes |-> plans0[a]]
      BY <2>1, <2>3 DEF Cbs!Selections
    <3> QED BY <2>7, <3>1
  <2> QED BY <2>4, <2>5, <2>7, <2>9, <2>10 DEF Followed
<1> QED BY <1>1, <1>2 DEF NodesSound

(* A child of a node: one robot has a constraint more, and a new plan.      *)
LEMMA ChildFollows ==
  ASSUME NEW m, IsMission(m), NEW solution, Followed(m, solution),
         NEW constraints, Constrained(m, solution, constraints),
         NEW a \in DOMAIN m.routes, NEW more, IsFiniteSet(more), \A c \in more : IsConstraint(c),
         NEW plan \in lowLevel(m, a, constraints[a] \cup more)
  PROVE  /\ Followed(m, [solution EXCEPT ![a] = plan])
         /\ Constrained(m, [solution EXCEPT ![a] = plan],
                        [constraints EXCEPT ![a] = constraints[a] \cup more])
<1>1. PICK all : all = constraints[a] \cup more
  OBVIOUS
<1>2. IsFiniteSet(all) /\ \A c \in all : IsConstraint(c)
  <2>1. IsFiniteSet(constraints[a]) /\ \A c \in constraints[a] : IsConstraint(c)
    BY DEF Constrained
  <2>2. IsFiniteSet(constraints[a] \cup more)
    BY <2>1, FS_Union
  <2> QED BY <1>1, <2>1, <2>2
<1>3. plan \in Seq(Int) /\ Follows(m.routes[a], plan)
  BY <1>1, <1>2, LowLevelFollows DEF IsConstraint
<1>4. Keeps(m.routes[a], plan, all)
  BY <1>1, <1>2, LowLevelKeeps
<1>5. PICK new : new = [solution EXCEPT ![a] = plan]
  OBVIOUS
<1>6. /\ DOMAIN new = DOMAIN m.routes /\ new[a] = plan
      /\ \A r \in DOMAIN m.routes : r # a => new[r] = solution[r]
  BY <1>5 DEF Followed
<1>7. Followed(m, new)
  BY <1>3, <1>6 DEF Followed
<1>8. PICK grown : grown = [constraints EXCEPT ![a] = all]
  OBVIOUS
<1>9. /\ DOMAIN grown = DOMAIN m.routes /\ grown[a] = all
      /\ \A r \in DOMAIN m.routes : r # a => grown[r] = constraints[r]
  BY <1>8 DEF Constrained
<1>10. Constrained(m, new, grown)
  <2>1. ASSUME NEW r \in DOMAIN m.routes
        PROVE  /\ IsFiniteSet(grown[r]) /\ \A c \in grown[r] : IsConstraint(c)
               /\ Keeps(m.routes[r], new[r], grown[r])
    <3>1. CASE r = a
      BY <1>2, <1>4, <1>6, <1>9, <3>1
    <3>2. CASE r # a
      BY <1>6, <1>9, <3>2 DEF Constrained
    <3> QED BY <3>1, <3>2
  <2> QED BY <1>9, <2>1 DEF Constrained
<1> QED BY <1>1, <1>5, <1>7, <1>8, <1>10

(* The constraints that a conflict between the plans of a node gives.       *)
LEMMA AddedFacts ==
  ASSUME NEW m, IsMission(m), StartsApart(m), NEW solution, Followed(m, solution),
         NEW c \in getFirstConflict(m, solution),
         NEW added, added = createConstraintsFromConflict(c)
  PROVE  /\ DOMAIN added \subseteq DOMAIN m.routes
         /\ \A r \in DOMAIN added :
              IsFiniteSet(added[r]) /\ \A d \in added[r] : IsConstraint(d)
<1>1. c.first \in DOMAIN m.routes
  BY ConflictFacts
<1>2. Makespan(solution) \in Nat
  BY <1>1, FollowedMakespan
<1> QED BY <1>2, ConstraintsFacts DEF Followed

(* Node o is the child of node n in which robot a gives way in conflict c.  *)
IsChild(m, n, c, a, o) ==
  LET all == n.constraints[a] \cup createConstraintsFromConflict(c)[a]
  IN /\ \E plan \in lowLevel(m, a, all) : o.solution = [n.solution EXCEPT ![a] = plan]
     /\ o.constraints = [n.constraints EXCEPT ![a] = all]
     /\ o.cost = TotalCost(o.solution)

(* The children of n for conflict c, one for each robot that has a plan,    *)
(* take the place of n.                                                     *)
IsBranching(m, n, c, before, after) ==
  LET Able == {a \in DOMAIN createConstraintsFromConflict(c) :
                 lowLevel(m, a, n.constraints[a] \cup createConstraintsFromConflict(c)[a]) # {}}
  IN /\ \A o \in after : o \in before \/ \E a \in Able : IsChild(m, n, c, a, o)
     /\ \A o \in before : o = n \/ o \in after
     /\ \A a \in Able : \E o \in after : IsChild(m, n, c, a, o)

LEMMA BranchFacts ==
  ASSUME mission \in Missions, StartsApart(mission), NodesSound(mission, tree), Cbs!Branch
  PROVE  \E n \in Cbs!Cheapest : \E c \in getFirstConflict(mission, n.solution) :
           IsBranching(mission, n, c, tree, tree')
<1>1. PICK m : m = mission /\ IsMission(m)
  BY MissionsAssumption
<1> DEFINE Added(c) == createConstraintsFromConflict(c)
           Kept(n, c, a) == Cbs!Grown(n, a, Added(c)[a])
           Options(n, c) == [a \in DOMAIN Added(c) |-> lowLevel(mission, a, Kept(n, c, a)[a])]
           Able(n, c) == {a \in DOMAIN Added(c) : Options(n, c)[a] # {}}
           Id(c, a) == next_id + Cbs!Cardinality({b \in DOMAIN Added(c) : b < a})
           Children(n, c, plan) ==
             {Cbs!Child(n, Id(c, a), a, plan[a], Kept(n, c, a)) : a \in Able(n, c)}
<1>2. PICK n \in Cbs!Cheapest : \E c \in getFirstConflict(mission, n.solution) :
        \E plan \in Cbs!Selections([a \in Able(n, c) |-> Options(n, c)[a]]) :
          tree' = (tree \ {n}) \cup Children(n, c, plan)
  BY Zenon DEF Cbs!Branch
<1>3. PICK c \in getFirstConflict(m, n.solution) :
        \E plan \in Cbs!Selections([a \in Able(n, c) |-> Options(n, c)[a]]) :
          tree' = (tree \ {n}) \cup Children(n, c, plan)
  <2> HIDE DEF Able, Options, Children
  <2> QED BY <1>1, <1>2
<1>4. PICK plans0 \in Cbs!Selections([a \in Able(n, c) |-> Options(n, c)[a]]) :
        tree' = (tree \ {n}) \cup Children(n, c, plans0)
  BY <1>3
<1>5. PICK able, options, added :
        able = Able(n, c) /\ options = Options(n, c) /\ added = createConstraintsFromConflict(c)
  OBVIOUS
<1>6. /\ Followed(m, n.solution) /\ Constrained(m, n.solution, n.constraints)
      /\ n \in tree /\ n.cost = TotalCost(n.solution)
      /\ n.solution \in [DOMAIN m.routes -> Seq(Int)]
  BY <1>1 DEF NodesSound, Cbs!Cheapest
<1>7. /\ DOMAIN added \subseteq DOMAIN m.routes
      /\ \A r \in DOMAIN added : IsFiniteSet(added[r]) /\ \A d \in added[r] : IsConstraint(d)
  BY <1>1, <1>5, <1>6, AddedFacts
<1>8. ASSUME NEW a \in DOMAIN added
      PROVE  /\ Kept(n, c, a) = [n.constraints EXCEPT ![a] = n.constraints[a] \cup added[a]]
             /\ Kept(n, c, a)[a] = n.constraints[a] \cup added[a]
             /\ options[a] = lowLevel(m, a, n.constraints[a] \cup added[a])
  <2>1. Kept(n, c, a) = [n.constraints EXCEPT ![a] = n.constraints[a] \cup added[a]]
    BY <1>5 DEF Cbs!Grown
  <2>2. Kept(n, c, a)[a] = n.constraints[a] \cup added[a]
    BY <1>6, <1>7, <2>1 DEF Constrained
  <2> QED BY <1>1, <1>5, <2>1, <2>2
<1>9. ASSUME NEW a
      PROVE  a \in able <=> /\ a \in DOMAIN added
                            /\ lowLevel(m, a, n.constraints[a] \cup added[a]) # {}
  <2>1. a \in able <=> a \in DOMAIN added /\ options[a] # {}
    BY <1>5
  <2> QED BY <1>8, <2>1
<1> DEFINE Child(a) == Cbs!Child(n, Id(c, a), a, plans0[a], Kept(n, c, a))
<1>10. ASSUME NEW a \in able
       PROVE  IsChild(m, n, c, a, Child(a))
  <2>1. a \in DOMAIN added
    BY <1>9
  <2>2. plans0[a] \in options[a]
    <3>1. plans0 \in Cbs!Selections([b \in able |-> options[b]])
      BY <1>4, <1>5
    <3> QED BY <3>1 DEF Cbs!Selections
  <2>3. PICK plan : plan = plans0[a]
    OBVIOUS
  <2>4. PICK all : all = n.constraints[a] \cup added[a]
    OBVIOUS
  <2>5. plan \in lowLevel(m, a, all)
    BY <1>8, <2>1, <2>2, <2>3, <2>4
  <2>6. /\ Child(a).solution = [n.solution EXCEPT ![a] = plan]
        /\ Child(a).constraints = Kept(n, c, a)
        /\ Child(a).cost = n.cost - Cost(n.solution[a]) + Cost(plan)
    BY <2>3 DEF Cbs!Child, Cbs!ChildCost, Cbs!Node
  <2>7. Kept(n, c, a) = [n.constraints EXCEPT ![a] = all]
    BY <1>8, <2>1, <2>4
  <2> HIDE DEF Child, Kept
  <2>8. all = n.constraints[a] \cup createConstraintsFromConflict(c)[a]
    BY <1>5, <2>4
  <2>9. Child(a).cost = TotalCost(Child(a).solution)
    <3>1. PICK old : old = n.solution
      OBVIOUS
    <3>2. a \in DOMAIN m.routes
      BY <1>7, <2>1
    <3>3. Followed(m, [old EXCEPT ![a] = plan])
      BY <1>1, <1>6, <1>7, <2>1, <2>4, <2>5, <3>1, <3>2, ChildFollows
    <3>4. TotalCost([old EXCEPT ![a] = plan]) = TotalCost(old) - Cost(old[a]) + Cost(plan)
      BY <1>1, <1>6, <3>1, <3>2, <3>3, ReplacedCost
    <3> QED BY <1>6, <2>6, <3>1, <3>4, Zenon
  <2> QED BY <2>5, <2>6, <2>7, <2>8, <2>9, Zenon DEF IsChild
<1>11. Children(n, c, plans0) = {Child(a) : a \in able}
  BY <1>5
<1> HIDE DEF Child, Children, Able, Options
<1>12. \A o \in tree' : o \in tree \/ \E a \in able : IsChild(m, n, c, a, o)
  BY <1>4, <1>10, <1>11
<1>13. \A o \in tree : o = n \/ o \in tree'
  BY <1>4
<1>14. \A a \in able : \E o \in tree' : IsChild(m, n, c, a, o)
  BY <1>4, <1>10, <1>11
<1>15. able = {a \in DOMAIN createConstraintsFromConflict(c) :
                 lowLevel(m, a, n.constraints[a] \cup createConstraintsFromConflict(c)[a]) # {}}
  BY <1>5, <1>9
<1>16. IsBranching(m, n, c, tree, tree')
  BY <1>12, <1>13, <1>14, <1>15, Zenon DEF IsBranching
<1> QED BY <1>1, <1>16

LEMMA CbsBranches ==
  ASSUME mission \in Missions, StartsApart(mission), NodesSound(mission, tree), Cbs!Branch
  PROVE  NodesSound(mission, tree')
<1>1. PICK m : m = mission /\ IsMission(m)
  BY MissionsAssumption
<1>2. PICK n \in Cbs!Cheapest : \E c \in getFirstConflict(m, n.solution) :
        IsBranching(m, n, c, tree, tree')
  BY <1>1, BranchFacts
<1>3. PICK c \in getFirstConflict(m, n.solution) : IsBranching(m, n, c, tree, tree')
  BY <1>2
<1>4. /\ Followed(m, n.solution) /\ Constrained(m, n.solution, n.constraints)
      /\ n.solution \in [DOMAIN m.routes -> Seq(Int)]
  BY <1>1 DEF NodesSound, Cbs!Cheapest
<1>5. PICK added : added = createConstraintsFromConflict(c)
  OBVIOUS
<1>6. /\ DOMAIN added \subseteq DOMAIN m.routes
      /\ \A r \in DOMAIN added : IsFiniteSet(added[r]) /\ \A d \in added[r] : IsConstraint(d)
  BY <1>1, <1>4, <1>5, AddedFacts
<1>7. ASSUME NEW o \in tree'
      PROVE  /\ Followed(m, o.solution) /\ Constrained(m, o.solution, o.constraints)
             /\ o.solution \in [DOMAIN m.routes -> Seq(Int)]
             /\ o.cost = TotalCost(o.solution)
  <2>1. CASE o \in tree
    BY <1>1, <2>1 DEF NodesSound
  <2>2. CASE o \notin tree
    <3>1. PICK a \in DOMAIN added : IsChild(m, n, c, a, o)
      BY <1>3, <1>5, <2>2, Zenon DEF IsBranching
    <3>2. a \in DOMAIN m.routes /\ IsFiniteSet(added[a]) /\ \A d \in added[a] : IsConstraint(d)
      BY <1>6
    <3>3. PICK plan \in lowLevel(m, a, n.constraints[a] \cup added[a]) :
            o.solution = [n.solution EXCEPT ![a] = plan]
      BY <1>5, <3>1, Zenon DEF IsChild
    <3>4. o.constraints = [n.constraints EXCEPT ![a] = n.constraints[a] \cup added[a]]
      BY <1>5, <3>1, Zenon DEF IsChild
    <3>5. o.cost = TotalCost(o.solution)
      BY <3>1, Zenon DEF IsChild
    <3>6. Followed(m, o.solution) /\ Constrained(m, o.solution, o.constraints)
      BY <1>1, <1>4, <3>2, <3>3, <3>4, ChildFollows
    <3>7. o.solution \in [DOMAIN m.routes -> Seq(Int)]
      <4>1. plan = o.solution[a] /\ o.solution[a] \in Seq(Int)
        BY <1>4, <3>2, <3>3, <3>6 DEF Followed
      <4> QED BY <1>4, <3>2, <3>3, <4>1, PlanReplaced
    <3> QED BY <3>5, <3>6, <3>7
  <2> QED BY <2>1, <2>2
<1> QED BY <1>1, <1>7 DEF NodesSound

LEMMA CbsInvInitially ==
  ASSUME Init
  PROVE  CbsInv
BY DEF Init, CbsInv, NodesSound

LEMMA CbsInvKept ==
  ASSUME mission \in Missions, CbsInv, [Next]_vars
  PROVE  CbsInv'
<1>1. CASE FallBack
  <2>1. mission' = mission /\ phase' = phase /\ phase = "cbs" /\ StartsApart(mission)
    BY <1>1 DEF FallBack, coordinatorVars, CbsInv
  <2>2. CASE Cbs!GiveUp \/ Cbs!Exhausted
    BY <2>1, <2>2 DEF Cbs!GiveUp, Cbs!Exhausted, CbsInv
  <2>3. CASE Cbs!Solve
    <3>1. PICK n \in tree : /\ getFirstConflict(mission, n.solution) = {}
                            /\ tree' = tree \ {n} /\ agreed' = n.solution
      BY <2>3 DEF Cbs!Solve, Cbs!Cheapest
    <3>2. Followed(mission, n.solution) /\ NodesSound(mission, tree \ {n})
      BY DEF CbsInv, NodesSound
    <3> QED BY <2>1, <3>1, <3>2 DEF CbsInv
  <2>4. CASE Cbs!Start
    <3>1. NodesSound(mission, tree') /\ answer' # "found"
      BY <2>4, CbsStarts DEF Cbs!Start
    <3> QED BY <2>1, <3>1 DEF CbsInv
  <2>5. CASE Cbs!Branch
    <3>1. NodesSound(mission, tree') /\ answer' # "found"
      BY <2>1, <2>5, CbsBranches DEF Cbs!Branch, CbsInv
    <3> QED BY <2>1, <3>1 DEF CbsInv
  <2> QED BY <1>1, <2>2, <2>3, <2>4, <2>5 DEF FallBack, Cbs!Step
<1>2. CASE ~FallBack
  <2>1. mission' = mission /\ UNCHANGED cbsVars
    <3>1. CASE Prioritized
      BY <1>2, <3>1
      DEF Next, Prioritized, CheckStarts, ScheduleNext, SearchOn, Scheduled, NoSchedule,
          AllScheduled, SkipRepair, BeginRepair, Reschedule, Rescheduled, RepairFails,
          OutOfNodes, OutOfTime, EndRepair, AcceptRepair, RejectRepair, coordinatorVars,
          AgreedByCbs, CbsFails, Returned, vars
    <3> QED BY <1>2, <3>1 DEF Next, Returned, AgreedByCbs, CbsFails, vars, coordinatorVars
  <2>2. CASE CheckStarts
    <3>1. PICK m : m = mission /\ IsMission(m)
      BY MissionsAssumption
    <3>2. phase' = "schedule" => StartsApart(m)
      <4>1. PICK ones : ones = [r \in DOMAIN m.routes |-> << 1 >>]
        OBVIOUS
      <4>2. StartsCollide <=> getFirstConflict(m, ones) # {}
        BY <3>1, <4>1 DEF StartsCollide, Robots
      <4> QED BY <2>2, <3>1, <4>1, <4>2, AcceptedStartsApart DEF CheckStarts
    <3>3. phase' # "cbs"
      BY <2>2 DEF CheckStarts
    <3> QED BY <2>1, <3>1, <3>2, <3>3 DEF cbsVars, CbsInv
  <2>3. CASE ~CheckStarts
    <3>1. phase' \in {"schedule", "cbs"} => phase \in {"schedule", "cbs"}
      BY <1>2, <2>3
      DEF Next, Prioritized, ScheduleNext, SearchOn, Scheduled, NoSchedule,
          AllScheduled, SkipRepair, BeginRepair, Reschedule, Rescheduled, RepairFails,
          OutOfNodes, OutOfTime, EndRepair, AcceptRepair, RejectRepair, coordinatorVars,
          AgreedByCbs, CbsFails, Returned, vars
    <3> QED BY <2>1, <3>1 DEF cbsVars, CbsInv
  <2> QED BY <2>2, <2>3
<1> QED BY <1>1, <1>2

(* The plans of every open node of conflict-based search keep its           *)
(* constraints: those on cells and resources also where the robot is parked *)
(* when its plan is over, as the low-level search returns to the goal only  *)
(* after the last constraint on that cell and a robot that is parked holds  *)
(* nothing; those on moves as long as the robot is under way.               *)
THEOREM PlansKeepConstraints == Spec => []ConstraintsKept
<1>1. ASSUME mission \in Missions, CbsInv, NEW n \in tree, NEW r \in Robots,
             NEW c \in n.constraints[r],
             NEW path, path = PathOf(mission, n.solution, r),
             NEW frame, frame = FrameAt(path, c[2]),
             NEW next, next = FrameAt(path, c[2] + 1)
      PROVE  /\ c[1] = "vertex" => frame.pos # c[3]
             /\ c[1] = "resource" => frame.res # c[3]
             /\ c[1] = "edge" /\ c[2] < Cost(path) => ~(frame.pos = c[3] /\ next.pos = c[4])
  <2>1. PICK m, solution, constraints :
          /\ m = mission /\ IsMission(m)
          /\ solution = n.solution /\ constraints = n.constraints
    BY <1>1, MissionsAssumption
  <2>2. /\ Followed(m, solution) /\ Constrained(m, solution, constraints)
        /\ r \in DOMAIN m.routes
    BY <1>1, <2>1 DEF CbsInv, NodesSound, Robots
  <2>3. PICK route, plan : route = m.routes[r] /\ plan = solution[r]
    OBVIOUS
  <2>4. /\ plan \in Seq(Int) /\ Follows(route, plan)
        /\ IsConstraint(c) /\ Keeps(route, plan, constraints[r])
    BY <1>1, <2>1, <2>2, <2>3 DEF Followed, Constrained
  <2>5. PICK t \in Nat : t = c[2]
    BY <2>4 DEF IsConstraint
  <2>6. \A u \in Nat : FrameAt(path, u) = route[FrameOf(plan, u)]
    <3>1. Walks(m, solution, r)
      BY <2>1, <2>2, <2>3, <2>4 DEF Walks, IsMission
    <3>2. \A u \in Nat : FrameAt(PathOf(m, solution, r), u) = m.routes[r][FrameOf(solution[r], u)]
      BY <3>1, PathFacts
    <3> QED BY <1>1, <2>1, <2>3, <3>2
  <2>7. frame = route[FrameOf(plan, t)] /\ next = route[FrameOf(plan, t + 1)]
    <3>1. t + 1 \in Nat
      OBVIOUS
    <3> QED BY <1>1, <2>5, <2>6, <3>1
  <2>8. /\ c[1] = "vertex" => frame.pos # c[3]
        /\ c[1] = "resource" => frame.res # c[3]
    BY <1>1, <2>1, <2>4, <2>5, <2>7 DEF Keeps
  <2>9. ASSUME c[1] = "edge", t < Cost(path)
        PROVE  ~(frame.pos = c[3] /\ next.pos = c[4])
    <3>1. Len(path) = Len(plan) /\ Len(plan) \in Nat
      <4>1. Walks(m, solution, r)
        BY <2>1, <2>2, <2>3, <2>4 DEF Walks, IsMission
      <4>2. Len(PathOf(m, solution, r)) = Len(solution[r])
        BY <4>1, PathFacts
      <4> QED BY <1>1, <2>1, <2>3, <2>4, <4>2
    <3>2. t < Len(plan) - 1
      BY <2>9, <3>1 DEF Cost
    <3>3. FrameOf(plan, t) = plan[t + 1] /\ FrameOf(plan, t + 1) = plan[t + 2]
      <4>1. t < Len(plan) /\ t + 1 < Len(plan) /\ (t + 1) + 1 = t + 2
        BY <3>1, <3>2
      <4> QED BY <4>1 DEF FrameOf
    <3>4. ~(route[plan[t + 1]].pos = c[3] /\ route[plan[t + 2]].pos = c[4])
      BY <1>1, <2>1, <2>4, <2>5, <2>9, <3>2 DEF Keeps
    <3> QED BY <2>7, <3>3, <3>4
  <2> QED BY <2>5, <2>8, <2>9
<1>2. CoordinationInv /\ CbsInv => ConstraintsKept
  <2>1. CoordinationInv => mission \in Missions
    BY DEF CoordinationInv
  <2> QED BY <1>1, <2>1 DEF ConstraintsKept
<1>3. Init => CoordinationInv /\ CbsInv
  BY CoordinationInvInitially, CbsInvInitially
<1>4. CoordinationInv /\ CbsInv /\ [Next]_vars => CoordinationInv' /\ CbsInv'
  <2>1. CoordinationInv => mission \in Missions
    BY DEF CoordinationInv
  <2> QED BY <2>1, CoordinationInvKept, CbsInvKept
<1> QED BY <1>2, <1>3, <1>4, PTL DEF Spec
-----------------------------------------------------------------------------
(* A walk takes a robot along its route tick by tick, without end, by steps *)
(* that its constraints allow.                                              *)
Strolls(route, constraints, w) ==
  /\ w \in [Nat -> Int] /\ w[0] = 1
  /\ \A t \in Nat : Neighbor(route, constraints, w[t], w[t + 1], t)

(* It stays on the route, and at its end.                                   *)
LEMMA StrollFacts ==
  ASSUME NEW route, IsRoute(route), NEW C, NEW w, Strolls(route, C, w)
  PROVE  /\ \A t \in Nat : w[t] \in 1..Len(route)
         /\ \A t \in Nat : w[t + 1] = w[t] + 1 \/ w[t + 1] = w[t]
         /\ \A T, t \in Nat : w[T] = Len(route) /\ T <= t => w[t] = Len(route)
<1>0. PICK n \in Nat : n = Len(route)
  <2>1. Len(route) \in Nat
    BY DEF IsRoute
  <2> QED BY <2>1
<1>1. n = Len(route) /\ n # 0 /\ DOMAIN route = 1..n
  BY <1>0 DEF IsRoute
<1>2. ASSUME NEW t \in Nat
      PROVE  w[t + 1] \in 1..n /\ (w[t + 1] = w[t] + 1 \/ w[t + 1] = w[t])
  <2>1. Neighbor(route, C, w[t], w[t + 1], t)
    BY DEF Strolls
  <2> QED BY <1>1, <2>1 DEF Neighbor
<1>3. ASSUME NEW t \in Nat
      PROVE  w[t] \in 1..n
  <2>1. CASE t = 0
    <3>1. w[0] = 1 /\ 1 \in 1..n
      BY <1>1 DEF Strolls
    <3> QED BY <2>1, <3>1
  <2>2. CASE t # 0
    <3>1. t - 1 \in Nat /\ (t - 1) + 1 = t
      BY <2>2
    <3> QED BY <1>2, <3>1
  <2> QED BY <2>1, <2>2
<1>4. ASSUME NEW T \in Nat, w[T] = n, NEW D, D = {t \in Nat : T <= t /\ w[t] # n}, D # {}
      PROVE  FALSE
  <2>1. D \in SUBSET Nat
    BY <1>4
  <2>2. PICK d \in D : \A k \in D : d <= k
    BY <1>4, <2>1, LeastNatural
  <2>3. d \in Nat /\ T <= d /\ w[d] # n /\ d # T
    BY <1>4, <2>2
  <2>4. d - 1 \in Nat /\ (d - 1) + 1 = d /\ T <= d - 1 /\ ~(d <= d - 1)
    BY <2>3
  <2>5. w[d - 1] = n
    BY <1>4, <2>2, <2>4
  <2>6. w[d] = n + 1 \/ w[d] = n
    BY <1>2, <2>4, <2>5
  <2>7. w[d] \in 1..n
    BY <1>3, <2>3
  <2> QED BY <2>3, <2>6, <2>7
<1>5. ASSUME NEW T \in Nat, NEW t \in Nat, w[T] = n, T <= t
      PROVE  w[t] = n
  <2>1. {k \in Nat : T <= k /\ w[k] # n} = {}
    BY <1>4, <1>5
  <2> QED BY <1>5, <2>1
<1> QED BY <1>1, <1>2, <1>3, <1>5

(* The low-level search reaches every frame a walk does, when it does.      *)
LEMMA StrollIsReached ==
  ASSUME NEW route, IsRoute(route), NEW C, NEW w, Strolls(route, C, w),
         NEW last \in Nat, NEW R, R = Reached(route, C, last)
  PROVE  \A t \in 0..last : w[t] \in R[t + 1]
<1>1. /\ R[1] = {1}
      /\ \A t \in 1..last : R[t + 1] = Onward(route, C, R[t], t - 1)
  BY ReachedExact
<1>2. ASSUME NEW D, D = {t \in 0..last : w[t] \notin R[t + 1]}, D # {}
      PROVE  FALSE
  <2>1. D \in SUBSET Nat
    BY <1>2
  <2>2. PICK d \in D : \A k \in D : d <= k
    BY <1>2, <2>1, LeastNatural
  <2>3. d \in 0..last /\ w[d] \notin R[d + 1] /\ d # 0
    BY <1>1, <1>2, <2>2 DEF Strolls
  <2>4. PICK e \in 0..last : e = d - 1 /\ e + 1 = d /\ d \in 1..last /\ ~(d <= e)
    BY <2>3
  <2>5. w[e] \in R[d]
    BY <1>2, <2>2, <2>4
  <2>6. Neighbor(route, C, w[e], w[d], e)
    <3>1. e \in Nat
      OBVIOUS
    <3> QED BY <2>4, <3>1 DEF Strolls
  <2>7. w[d] \in DOMAIN route
    BY <2>6 DEF Neighbor
  <2>8. w[d] \in Onward(route, C, R[d], e)
    BY <2>5, <2>6, <2>7 DEF Onward
  <2>9. R[d + 1] = Onward(route, C, R[d], e)
    BY <1>1, <2>4
  <2> QED BY <2>3, <2>8, <2>9
<1> QED BY <1>2

(* When no constraint is left it can go straight on.                        *)
LEMMA StraightIsReached ==
  ASSUME NEW route, IsRoute(route), NEW C, NEW last \in Nat,
         NEW R, R = Reached(route, C, last),
         NEW u \in 0..last, NEW f \in 1..Len(route), f \in R[u + 1],
         \A c \in C : c[2] < u
  PROVE  \A k \in 0..(Len(route) - f) : u + k <= last => f + k \in R[u + k + 1]
<1>0. PICK n \in Nat : n = Len(route)
  <2>1. Len(route) \in Nat
    BY DEF IsRoute
  <2> QED BY <2>1
<1>1. n = Len(route) /\ n # 0 /\ DOMAIN route = 1..n
  BY <1>0 DEF IsRoute
<1>2. /\ R[1] = {1}
      /\ \A t \in 1..last : R[t + 1] = Onward(route, C, R[t], t - 1)
  BY ReachedExact
<1>3. ASSUME NEW t \in Nat, u <= t, NEW a, NEW b
      PROVE  allowed(C, a, b, t)
  <2>1. \A x : <<"vertex", t + 1, x>> \notin C /\ <<"resource", t + 1, x>> \notin C
    <3> TAKE x
    <3>1. ~(t + 1 < u)
      BY <1>3
    <3>2. <<"vertex", t + 1, x>>[2] = t + 1 /\ <<"resource", t + 1, x>>[2] = t + 1
      OBVIOUS
    <3> QED BY <3>1, <3>2
  <2>2. \A x, y : <<"edge", t, x, y>> \notin C
    <3> TAKE x, y
    <3>1. ~(t < u)
      BY <1>3
    <3>2. <<"edge", t, x, y>>[2] = t
      OBVIOUS
    <3> QED BY <3>1, <3>2
  <2> QED BY <2>1, <2>2 DEF allowed
<1>4. ASSUME NEW D,
             D = {k \in 0..(n - f) : ~(u + k <= last => f + k \in R[u + k + 1])}, D # {}
      PROVE  FALSE
  <2>1. D \in SUBSET Nat
    BY <1>4
  <2>2. PICK d \in D : \A k \in D : d <= k
    BY <1>4, <2>1, LeastNatural
  <2>3. d \in 0..(n - f) /\ u + d <= last /\ f + d \notin R[u + d + 1]
    BY <1>4, <2>2
  <2>4. d # 0
    BY <2>3
  <2>5. PICK e \in 0..(n - f) : e = d - 1 /\ e + 1 = d /\ ~(d <= e)
    BY <2>3, <2>4
  <2>6. PICK t \in Nat : t = u + e
    OBVIOUS
  <2>7. u <= t /\ t + 1 \in 1..last /\ t <= last /\ u + d = t + 1 /\ (t + 1) - 1 = t
    BY <1>1, <2>3, <2>5, <2>6
  <2>8. PICK g \in 1..n : g = f + e
    BY <1>1, <2>3, <2>5
  <2>9. g + 1 \in 1..n /\ f + d = g + 1
    BY <1>1, <2>3, <2>5, <2>8
  <2>10. g \in R[t + 1]
    BY <1>4, <2>2, <2>5, <2>6, <2>7, <2>8
  <2>11. Neighbor(route, C, g, g + 1, t)
    BY <1>1, <1>3, <2>7, <2>9 DEF Neighbor
  <2>12. g + 1 \in Onward(route, C, R[t + 1], t)
    BY <1>1, <2>9, <2>10, <2>11 DEF Onward
  <2>13. R[(t + 1) + 1] = Onward(route, C, R[t + 1], t)
    BY <1>2, <2>7
  <2> QED BY <2>3, <2>7, <2>9, <2>12, <2>13
<1>5. ASSUME NEW k \in 0..(n - f), u + k <= last
      PROVE  f + k \in R[u + k + 1]
  <2>1. PICK D : D = {i \in 0..(n - f) : ~(u + i <= last => f + i \in R[u + i + 1])}
    OBVIOUS
  <2>2. D = {}
    BY <1>4, <2>1
  <2>3. k \notin D
    BY <2>2
  <2> QED BY <1>5, <2>1, <2>3
<1>6. \A k \in 0..(n - f) : u + k <= last => f + k \in R[u + k + 1]
  BY <1>5
<1> QED BY <1>1, <1>6

(* A route may be over when no vertex constraint is left on its end.        *)
LEMMA MayBeOver ==
  ASSUME NEW route, NEW C, IsFiniteSet(C), \A c \in C : c[2] \in Nat, NEW t \in Nat,
         \A c \in C : c[1] = "vertex" /\ c[3] = route[Len(route)].pos => c[2] < t
  PROVE  isSolution(route, C, Len(route), t)
<1>1. PICK barred : barred = {d \in C : d[1] = "vertex" /\ d[3] = Last(route).pos}
  OBVIOUS
<1>2. PICK own : own = {d[2] : d \in barred}
  OBVIOUS
<1>3. PICK ticks : ticks = {-1} \cup own
  OBVIOUS
<1>4. own \in SUBSET Nat /\ \A u \in own : u < t
  BY <1>1, <1>2 DEF Last
<1>5. IsFiniteSet(own)
  <2>1. IsFiniteSet(barred)
    <3>1. barred \subseteq C
      BY <1>1
    <3> QED BY <3>1, FS_Subset
  <2>2. PICK tick : tick = [d \in barred |-> d[2]]
    OBVIOUS
  <2>3. tick \in Surjection(barred, own)
    BY <1>2, <2>2 DEF Surjection
  <2> QED BY <2>1, <2>3, FS_Surjection
<1>6. IsFiniteSet(ticks) /\ ticks # {} /\ ticks \in SUBSET Int
  <2>1. IsFiniteSet(own \cup {-1})
    BY <1>5, FS_AddElement
  <2>2. ticks = own \cup {-1}
    BY <1>3
  <2>3. own \in SUBSET Int /\ -1 \in Int
    BY <1>4
  <2> QED BY <1>3, <2>1, <2>2, <2>3
<1>7. Max(ticks) \in ticks /\ \A u \in ticks : u <= Max(ticks)
  BY <1>6, FiniteHasMax
<1>8. Max(ticks) < t
  <2>1. -1 < t
    OBVIOUS
  <2>2. \A u \in ticks : u < t
    BY <1>3, <1>4, <2>1
  <2> QED BY <1>7, <2>2
<1>9. LastGoalConstraint(route, C) = Max(ticks)
  BY <1>1, <1>2, <1>3, Zenon DEF LastGoalConstraint
<1> QED BY <1>6, <1>7, <1>8, <1>9 DEF isSolution

(* The low level finds a plan wherever there is a walk, and one that is     *)
(* over no later.                                                           *)
LEMMA StrollIsBeaten ==
  ASSUME NEW m, IsMission(m), NEW r \in DOMAIN m.routes,
         NEW C, IsFiniteSet(C), \A c \in C : IsConstraint(c),
         NEW w, Strolls(m.routes[r], C, w)
  PROVE  /\ lowLevel(m, r, C) # {}
         /\ \A plan \in lowLevel(m, r, C) : \A T \in Nat :
              w[T] = Len(m.routes[r]) => Cost(plan) <= T
<1>1. PICK route : route = m.routes[r] /\ IsRoute(route)
  BY DEF IsMission
<1>2. PICK n \in Nat \ {0} : n = Len(route) /\ DOMAIN route = 1..n
  BY <1>1 DEF IsRoute
<1>3. \A c \in C : c[2] \in Nat
  BY DEF IsConstraint
<1>4. PICK latest \in Nat : LowLevelEnds(m, r, C, latest)
  BY <1>3, LowLevelHasEnds
<1>5. PICK bound \in Nat : bound = latest + n
  OBVIOUS
<1>6. PICK R : R = Reached(route, C, bound)
  OBVIOUS
<1>7. PICK ends : ends = {t \in 0..bound : n \in R[t + 1] /\ isSolution(route, C, n, t)}
  OBVIOUS
<1>8. /\ \A c \in C : c[2] <= latest
      /\ lowLevel(m, r, C) = IF ends = {} THEN {} ELSE {Traced(route, C, R, Min(ends))}
  BY <1>1, <1>2, <1>4, <1>5, <1>6, <1>7, Zenon DEF LowLevelEnds
<1>9. /\ \A t \in Nat : w[t] \in 1..n
      /\ \A T, t \in Nat : w[T] = n /\ T <= t => w[t] = n
  BY <1>1, <1>2, StrollFacts
<1>10. \A t \in 0..bound : w[t] \in R[t + 1]
  BY <1>1, <1>6, StrollIsReached
<1>11. ASSUME NEW T \in 0..bound, w[T] = n
       PROVE  T \in ends
  <2>1. ASSUME NEW c \in C, c[1] = "vertex", c[3] = route[n].pos, ~(c[2] < T)
        PROVE  FALSE
    <3>1. PICK s \in Nat : s = c[2] /\ s # 0 /\ c = <<"vertex", s, route[n].pos>>
      BY <2>1 DEF IsConstraint
    <3>2. s - 1 \in Nat /\ (s - 1) + 1 = s /\ T <= s /\ T \in Nat
      BY <2>1, <3>1
    <3>3. w[s] = n
      BY <1>9, <1>11, <3>2
    <3>4. Neighbor(route, C, w[s - 1], w[s], s - 1)
      BY <1>1, <3>2 DEF Strolls
    <3>5. <<"vertex", s, route[w[s]].pos>> \notin C
      BY <3>2, <3>4 DEF Neighbor, allowed
    <3> QED BY <3>1, <3>3, <3>5
  <2>2. isSolution(route, C, n, T)
    <3>1. T \in Nat
      OBVIOUS
    <3> QED BY <1>2, <1>3, <2>1, <3>1, MayBeOver
  <2> QED BY <1>7, <1>10, <1>11, <2>2
<1>12. PICK u \in 0..bound : u = latest + 1
  BY <1>2, <1>5
<1>13. PICK f \in 1..n : f = w[u]
  BY <1>9
<1>14. PICK e \in 0..bound : e = u + (n - f) /\ u <= e
  BY <1>5, <1>12, <1>13
<1>15. e \in ends
  <2>1. \A c \in C : c[2] < u
    BY <1>3, <1>8, <1>12
  <2>2. f \in R[u + 1]
    BY <1>10, <1>13
  <2>3. PICK k \in 0..(n - f) : k = n - f
    OBVIOUS
  <2>4. u + k <= bound => f + k \in R[u + k + 1]
    BY <1>1, <1>2, <1>6, <2>1, <2>2, <2>3, StraightIsReached
  <2>5. u + k = e /\ f + k = n /\ u + k + 1 = e + 1 /\ u + k <= bound
    BY <1>14, <2>3
  <2>6. n \in R[e + 1]
    BY <2>4, <2>5
  <2>7. isSolution(route, C, n, e)
    <3>1. e \in Nat /\ \A c \in C : c[2] < e
      BY <1>3, <1>12, <1>14, <2>1
    <3> QED BY <1>2, <1>3, <3>1, MayBeOver
  <2> QED BY <1>7, <2>6, <2>7
<1>16. Min(ends) \in ends /\ \A t \in ends : Min(ends) <= t
  <2>1. ends \in SUBSET Int /\ 0 \in Int /\ ends # {} /\ \A t \in ends : 0 <= t
    BY <1>7, <1>15
  <2> QED BY <2>1, MinIsLeast
<1>17. PICK last \in 0..bound : last = Min(ends) /\ n \in R[last + 1]
  BY <1>7, <1>16
<1>18. ASSUME NEW plan \in lowLevel(m, r, C)
       PROVE  Cost(plan) = last
  <2>1. plan = Traced(route, C, R, last)
    BY <1>8, <1>15, <1>17
  <2>2. LegalSteps(route, C, last, plan)
    BY <1>1, <1>2, <1>6, <1>17, <2>1, TracedSteps
  <2>3. Len(plan) = last + 1
    BY <2>2 DEF LegalSteps
  <2> QED BY <2>3 DEF Cost
<1>19. ASSUME NEW T \in Nat, w[T] = n
       PROVE  last <= T
  <2>1. CASE T <= bound
    <3>1. T \in ends
      BY <1>11, <1>19, <2>1
    <3> QED BY <1>16, <1>17, <3>1
  <2>2. CASE ~(T <= bound)
    BY <2>2
  <2> QED BY <2>1, <2>2
<1> QED BY <1>1, <1>2, <1>8, <1>15, <1>18, <1>19

(* What two sets of constraints allow, both together do.                    *)
LEMMA StrollsTogether ==
  ASSUME NEW route, NEW C, NEW D, NEW w, Strolls(route, C, w), Strolls(route, D, w)
  PROVE  Strolls(route, C \cup D, w)
<1>1. ASSUME NEW t \in Nat
      PROVE  Neighbor(route, C \cup D, w[t], w[t + 1], t)
  <2>1. Neighbor(route, C, w[t], w[t + 1], t) /\ Neighbor(route, D, w[t], w[t + 1], t)
    BY DEF Strolls
  <2> QED BY <2>1, Zenon DEF Neighbor, allowed
<1> QED BY <1>1 DEF Strolls

(* What a walk that a constraint does not allow does against it.            *)
LEMMA ConstraintBroken ==
  ASSUME NEW route, NEW d, NEW w, Strolls(route, {}, w), ~Strolls(route, {d}, w)
  PROVE  \E t \in Nat :
           \/ d = <<"vertex", t + 1, route[w[t + 1]].pos>>
           \/ d = <<"resource", t + 1, route[w[t + 1]].res>>
           \/ d = <<"edge", t, route[w[t]].pos, route[w[t + 1]].pos>>
<1>1. PICK t \in Nat : ~Neighbor(route, {d}, w[t], w[t + 1], t)
  BY DEF Strolls
<1>2. Neighbor(route, {}, w[t], w[t + 1], t)
  BY DEF Strolls
<1>3. ~allowed({d}, route[w[t]], route[w[t + 1]], t)
  BY <1>1, <1>2, Zenon DEF Neighbor
<1>4. \/ d = <<"vertex", t + 1, route[w[t + 1]].pos>>
      \/ d = <<"resource", t + 1, route[w[t + 1]].res>>
      \/ d = <<"edge", t, route[w[t]].pos, route[w[t + 1]].pos>>
  BY <1>3, Zenon DEF allowed
<1> QED BY <1>4

(* A journey: every robot walks, and no two of them ever meet.              *)
Journey(m, J) ==
  /\ \A r \in DOMAIN m.routes : Strolls(m.routes[r], {}, J[r])
  /\ \A a, b \in DOMAIN m.routes : a < b => \A t \in Nat :
       ~Meet(m.routes[a][J[a][t]], m.routes[a][J[a][t + 1]],
             m.routes[b][J[b][t]], m.routes[b][J[b][t + 1]], Reach(m, a, b))

(* A conflict of moves is one of the moves that its edge constraints name.  *)
LEMMA ConflictMoves ==
  ASSUME NEW m, NEW schedules, NEW c \in getFirstConflict(m, schedules), c.kind = "edge",
         NEW fa, fa = FrameAt(PathOf(m, schedules, c.first), c.tick),
         NEW fb, fb = FrameAt(PathOf(m, schedules, c.second), c.tick)
  PROVE  Swept(fa, c.to[1], fb, c.to[2], Reach(m, c.first, c.second))
<1>1. c \in Conflicts(m, schedules)
  BY DEF getFirstConflict
<1>2. PICK t \in 0..Makespan(schedules), p \in PairsOf(m) :
        c \in ConflictAt(m, schedules, t, p[1], p[2])
  BY <1>1 DEF Conflicts
<1>3. c.first = p[1] /\ c.second = p[2] /\ c.tick = t
  BY <1>2 DEF ConflictAt
<1>4. fa = FrameAt(PathOf(m, schedules, p[1]), t) /\ fb = FrameAt(PathOf(m, schedules, p[2]), t)
  BY <1>3
<1>5. PICK ga, gb : /\ ga = FrameAt(PathOf(m, schedules, p[1]), t + 1)
                    /\ gb = FrameAt(PathOf(m, schedules, p[2]), t + 1)
  OBVIOUS
<1>6. PICK d : d = Reach(m, p[1], p[2])
  OBVIOUS
<1>7. c.to = <<ga, gb>> /\ Swept(fa, ga, fb, gb, d)
  BY <1>2, <1>4, <1>5, <1>6 DEF ConflictAt
<1> QED BY <1>3, <1>6, <1>7

(* On no journey do both robots of a conflict what its constraints forbid:  *)
(* they would meet as they do there.                                        *)
LEMMA NotBothBroken ==
  ASSUME NEW m, IsMission(m), NEW schedules, NEW c \in getFirstConflict(m, schedules),
         NEW J, Journey(m, J), NEW added, added = createConstraintsFromConflict(c)
  PROVE  \E a \in DOMAIN added : Strolls(m.routes[a], added[a], J[a])
<1>1. PICK fa, fb : /\ fa = FrameAt(PathOf(m, schedules, c.first), c.tick)
                    /\ fb = FrameAt(PathOf(m, schedules, c.second), c.tick)
  OBVIOUS
<1>2. PICK a, b : a = c.first /\ b = c.second
  OBVIOUS
<1>3. PICK R : R = Reach(m, a, b)
  OBVIOUS
<1>4. /\ a \in DOMAIN m.routes /\ b \in DOMAIN m.routes /\ a < b
      /\ c.kind \in {"vertex", "resource", "edge"}
      /\ c.from[1] = fa /\ c.from[2] = fb
      /\ c.kind = "resource" => SharesResource(fa, fb)
      /\ c.kind = "vertex" => Near(fa, fb, R)
  BY <1>1, <1>2, <1>3, ConflictFacts
<1>5. c.kind = "edge" => Swept(fa, c.to[1], fb, c.to[2], R)
  BY <1>1, <1>2, <1>3, ConflictMoves
<1>6. a # b
  <2>1. a \in Int /\ b \in Int
    BY <1>4 DEF IsMission
  <2> QED BY <1>4, <2>1
<1>7. PICK da, db : da = Constraint(c, 1) /\ db = Constraint(c, 2)
  OBVIOUS
<1>8. DOMAIN added = {a, b} /\ added[a] = {da} /\ added[b] = {db}
  BY <1>2, <1>6, <1>7 DEF createConstraintsFromConflict
<1> SUFFICES ASSUME ~Strolls(m.routes[a], {da}, J[a]), ~Strolls(m.routes[b], {db}, J[b])
             PROVE  FALSE
  BY <1>8
<1>9. PICK p, q, v, w : p = m.routes[a] /\ q = m.routes[b] /\ v = J[a] /\ w = J[b]
  OBVIOUS
<1>10. PICK t \in Nat : \/ da = <<"vertex", t + 1, p[v[t + 1]].pos>>
                        \/ da = <<"resource", t + 1, p[v[t + 1]].res>>
                        \/ da = <<"edge", t, p[v[t]].pos, p[v[t + 1]].pos>>
  <2>1. Strolls(p, {}, v) /\ ~Strolls(p, {da}, v)
    BY <1>4, <1>9 DEF Journey
  <2> QED BY <2>1, ConstraintBroken
<1>11. PICK u \in Nat : \/ db = <<"vertex", u + 1, q[w[u + 1]].pos>>
                        \/ db = <<"resource", u + 1, q[w[u + 1]].res>>
                        \/ db = <<"edge", u, q[w[u]].pos, q[w[u + 1]].pos>>
  <2>1. Strolls(q, {}, w) /\ ~Strolls(q, {db}, w)
    BY <1>4, <1>9 DEF Journey
  <2> QED BY <2>1, ConstraintBroken
<1>12. \A k \in Nat : ~Meet(p[v[k]], p[v[k + 1]], q[w[k]], q[w[k + 1]], R)
  BY <1>3, <1>4, <1>9 DEF Journey
<1>13. CASE c.kind = "vertex"
  <2>1. da = <<"vertex", c.tick, fa.pos>> /\ db = <<"vertex", c.tick, fb.pos>>
    BY <1>4, <1>7, <1>13 DEF Constraint
  <2>2. t + 1 = c.tick /\ p[v[t + 1]].pos = fa.pos
    BY <1>10, <2>1
  <2>3. u + 1 = c.tick /\ q[w[u + 1]].pos = fb.pos
    BY <1>11, <2>1
  <2>4. PICK k \in Nat : k = c.tick
    BY <2>2
  <2>5. p[v[k]].pos = fa.pos /\ q[w[k]].pos = fb.pos
    BY <2>2, <2>3, <2>4
  <2>6. Near(p[v[k]], q[w[k]], R)
    BY <1>4, <1>13, <2>5 DEF Near
  <2> QED BY <1>12, <2>6 DEF Meet, Collide
<1>14. CASE c.kind = "resource"
  <2>1. da = <<"resource", c.tick, fa.res>> /\ db = <<"resource", c.tick, fb.res>>
    BY <1>4, <1>7, <1>14 DEF Constraint
  <2>2. t + 1 = c.tick /\ p[v[t + 1]].res = fa.res
    BY <1>10, <2>1
  <2>3. u + 1 = c.tick /\ q[w[u + 1]].res = fb.res
    BY <1>11, <2>1
  <2>4. PICK k \in Nat : k = c.tick
    BY <2>2
  <2>5. p[v[k]].res = fa.res /\ q[w[k]].res = fb.res
    BY <2>2, <2>3, <2>4
  <2>6. SharesResource(p[v[k]], q[w[k]])
    BY <1>4, <1>14, <2>5 DEF SharesResource, Holds
  <2> QED BY <1>12, <2>6 DEF Meet, Collide
<1>15. CASE c.kind = "edge"
  <2>1. PICK ga, gb : ga = c.to[1] /\ gb = c.to[2]
    OBVIOUS
  <2>2. da = <<"edge", c.tick, fa.pos, ga.pos>> /\ db = <<"edge", c.tick, fb.pos, gb.pos>>
    BY <1>4, <1>7, <1>15, <2>1 DEF Constraint
  <2>3. t = c.tick /\ p[v[t]].pos = fa.pos /\ p[v[t + 1]].pos = ga.pos
    BY <1>10, <2>2
  <2>4. u = c.tick /\ q[w[u]].pos = fb.pos /\ q[w[u + 1]].pos = gb.pos
    BY <1>11, <2>2
  <2>5. PICK x, x2, y, y2 : x = p[v[t]] /\ x2 = p[v[t + 1]] /\ y = q[w[t]] /\ y2 = q[w[t + 1]]
    OBVIOUS
  <2>6. x.pos = fa.pos /\ x2.pos = ga.pos /\ y.pos = fb.pos /\ y2.pos = gb.pos
    BY <2>3, <2>4, <2>5
  <2>7. Swept(x, x2, y, y2, R)
    BY <1>5, <1>15, <2>1, <2>6, Zenon DEF Swept
  <2> QED BY <1>12, <2>5, <2>7 DEF Meet
<1> QED BY <1>4, <1>13, <1>14, <1>15
-----------------------------------------------------------------------------
(* The ticks at which all robots are at their ends.                         *)
Arrives(m, J, T) ==
  T \in [DOMAIN m.routes -> Nat] /\ \A r \in DOMAIN m.routes : J[r][T[r]] = Len(m.routes[r])

(* No journey takes the robots fewer ticks than total in all.               *)
NoneBelow(m, total) ==
  \A J, T, F : Journey(m, J) /\ Arrives(m, J, T) /\ IsSum(F, Len(m.routes), T) =>
    total <= F[Len(m.routes)]

(* A journey on which all robots keep their constraints.                    *)
Fits(m, J, constraints) ==
  \A r \in DOMAIN m.routes : Strolls(m.routes[r], constraints[r], J[r])

(* No robot that keeps its constraints arrives sooner than by its schedule. *)
Soonest(m, solution, constraints) ==
  \A r \in DOMAIN m.routes : \A w : \A T \in Nat :
    Strolls(m.routes[r], constraints[r], w) /\ w[T] = Len(m.routes[r]) =>
      Cost(solution[r]) <= T

LEMMA FittingCostsMore ==
  ASSUME NEW m, IsMission(m), NEW solution \in [DOMAIN m.routes -> Seq(Int)],
         Followed(m, solution), NEW constraints, Soonest(m, solution, constraints),
         NEW J, Fits(m, J, constraints), NEW T, Arrives(m, J, T),
         NEW F, IsSum(F, Len(m.routes), T)
  PROVE  TotalCost(solution) <= F[Len(m.routes)]
<1>1. PICK n \in Nat : n = Len(m.routes)
  BY DEF IsMission
<1>2. DOMAIN m.routes = 1..n
  BY <1>1 DEF IsMission
<1>3. PICK cost : cost = [r \in 1..n |-> Cost(solution[r])]
  OBVIOUS
<1>4. solution \in [1..n -> Seq(Int)] /\ \A r \in 1..n : solution[r] # <<>>
  BY <1>2 DEF Followed, Follows
<1>5. cost \in [1..n -> Nat]
  BY <1>3, <1>4, TotalIsSum
<1>6. PICK f : IsSum(f, n, cost) /\ TotalCost(solution) = f[n]
  BY <1>3, <1>4, TotalIsSum
<1>7. T \in [1..n -> Nat]
  BY <1>2 DEF Arrives
<1>8. \A k \in 1..n : cost[k] <= T[k]
  <2> TAKE k \in 1..n
  <2>1. Strolls(m.routes[k], constraints[k], J[k]) /\ J[k][T[k]] = Len(m.routes[k]) /\ T[k] \in Nat
    BY <1>2, <1>7 DEF Fits, Arrives
  <2>2. Cost(solution[k]) <= T[k]
    BY <1>2, <2>1 DEF Soonest
  <2> QED BY <1>3, <2>2
<1>9. IsSum(F, n, T)
  BY <1>1
<1>10. \A k \in 0..n : f[k] <= F[k]
  BY <1>5, <1>6, <1>7, <1>8, <1>9, SumOrder
<1> QED BY <1>1, <1>6, <1>10
-----------------------------------------------------------------------------
(* Adding one more for some counts them.                                    *)
OneMore(S, n, add, more) ==
  /\ \A k \in 1..n : k \in S => more[k] = add[k] + 1
  /\ \A k \in 1..n : k \notin S => more[k] = add[k]

Exceeds(S, n, f, g) == g[n] = f[n] + Cardinality(S)

LEMMA SumOfOneMore ==
  ASSUME NEW n \in Nat, NEW add \in [1..n -> Nat], NEW S \in SUBSET (1..n),
         NEW more \in [1..n -> Nat], OneMore(S, n, add, more), NEW f, IsSum(f, n, add), NEW g, IsSum(g, n, more)
  PROVE  Exceeds(S, n, f, g)
<1>2. /\ f[0] = 0 /\ \A k \in 1..n : f[k] = f[k - 1] + add[k]
      /\ \A k \in 0..n : f[k] \in Nat
  BY SumGrows
<1>3. /\ g[0] = 0 /\ \A k \in 1..n : g[k] = g[k - 1] + more[k]
      /\ \A k \in 0..n : g[k] \in Nat
  BY SumGrows
<1>4. ASSUME NEW k \in 0..n
      PROVE  IsFiniteSet(S \cap (1..k)) /\ Cardinality(S \cap (1..k)) \in Nat
  <2>1. IsFiniteSet(1..k)
    BY FS_Interval
  <2>2. IsFiniteSet(S \cap (1..k))
    BY <2>1, FS_Subset
  <2> QED BY <2>2, FS_CardinalityType
<1>5. ASSUME NEW D, D = {k \in 0..n : g[k] # f[k] + Cardinality(S \cap (1..k))}, D # {}
      PROVE  FALSE
  <2>1. D \in SUBSET Nat
    BY <1>5
  <2>2. PICK d \in D : \A k \in D : d <= k
    BY <1>5, <2>1, LeastNatural
  <2>3. d \in 0..n /\ g[d] # f[d] + Cardinality(S \cap (1..d))
    BY <1>5, <2>2
  <2>4. ASSUME d = 0
        PROVE  FALSE
    <3>1. S \cap (1..d) = {}
      BY <2>4
    <3>2. Cardinality(S \cap (1..d)) = 0
      BY <3>1, FS_EmptySet
    <3>3. f[d] = 0 /\ g[d] = 0
      BY <1>2, <1>3, <2>4
    <3> QED BY <2>3, <3>2, <3>3
  <2>5. PICK e \in 0..n : e = d - 1 /\ d \in 1..n /\ ~(d <= e) /\ e + 1 = d
    BY <2>3, <2>4
  <2>6. g[e] = f[e] + Cardinality(S \cap (1..e))
    BY <1>5, <2>2, <2>5
  <2>7. PICK A, B : A = S \cap (1..e) /\ B = S \cap (1..d)
    OBVIOUS
  <2>8. PICK c \in Nat : c = Cardinality(A) /\ IsFiniteSet(A)
    BY <1>4, <2>7
  <2>9. f[d] = f[e] + add[d] /\ g[d] = g[e] + more[d]
    BY <1>2, <1>3, <2>5
  <2>10. CASE d \in S
    <3>1. B = A \cup {d} /\ d \notin A
      BY <2>5, <2>7, <2>10
    <3>2. Cardinality(B) = c + 1
      BY <2>8, <3>1, FS_AddElement
    <3>3. more[d] = add[d] + 1
      BY <2>5, <2>10 DEF OneMore
    <3>4. PICK x, y, z \in Nat : x = f[e] /\ y = g[e] /\ z = add[d]
      BY <1>2, <1>3, <2>5
    <3>5. f[d] = x + z /\ g[d] = y + (z + 1) /\ y = x + c
      BY <2>6, <2>7, <2>8, <2>9, <3>3, <3>4
    <3>6. g[d] = f[d] + (c + 1)
      BY <3>5
    <3> QED BY <2>3, <2>7, <3>2, <3>6
  <2>11. CASE d \notin S
    <3>1. B = A
      BY <2>5, <2>7, <2>11
    <3>2. more[d] = add[d]
      BY <2>5, <2>11 DEF OneMore
    <3>3. PICK x, y, z \in Nat : x = f[e] /\ y = g[e] /\ z = add[d]
      BY <1>2, <1>3, <2>5
    <3>4. f[d] = x + z /\ g[d] = y + z /\ y = x + c
      BY <2>6, <2>7, <2>8, <2>9, <3>2, <3>3
    <3>5. g[d] = f[d] + c
      BY <3>4
    <3> QED BY <2>3, <2>7, <2>8, <3>1, <3>5
  <2> QED BY <2>10, <2>11
<1>6. g[n] = f[n] + Cardinality(S \cap (1..n))
  <2>1. PICK D : D = {k \in 0..n : g[k] # f[k] + Cardinality(S \cap (1..k))}
    OBVIOUS
  <2>2. D = {}
    BY <1>5, <2>1
  <2>3. n \in 0..n /\ n \notin D
    BY <2>2
  <2> QED BY <2>1, <2>3
<1>7. S \cap (1..n) = S
  OBVIOUS
<1> QED BY <1>6, <1>7 DEF Exceeds

(* Robots move jointly along their routes.                                  *)
LEMMA JointStepFacts ==
  ASSUME NEW m, IsMission(m), NEW f \in [DOMAIN m.routes -> Int], NEW g \in JointSteps(m, f)
  PROVE  /\ g \in [DOMAIN m.routes -> Int]
         /\ \A r \in DOMAIN m.routes :
              \/ g[r] = f[r] + 1 /\ g[r] <= Len(m.routes[r])
              \/ g[r] = f[r] /\ ~InTransit(m.routes[r][f[r]])
         /\ \A a, b \in DOMAIN m.routes :
              a < b => /\ ~Meet(m.routes[a][f[a]], m.routes[a][g[a]],
                                m.routes[b][f[b]], m.routes[b][g[b]], Reach(m, a, b))
                       /\ ~Collide(m.routes[a][g[a]], m.routes[b][g[b]], Reach(m, a, b))
<1>1. PICK R, V : R = DOMAIN m.routes /\ V = UNION {f[r]..(f[r] + 1) : r \in DOMAIN m.routes}
  OBVIOUS
<1>2. V \in SUBSET Int
  BY <1>1
<1>3. g \in [R -> V]
  BY <1>1, Zenon DEF JointSteps
<1>4. g \in [R -> Int]
  BY <1>2, <1>3
<1> QED BY <1>1, <1>4, Zenon DEF JointSteps

(* How a state of the joint search came about: the robots were at frames    *)
(* h[k] at tick k and stand still from tick last on.  Robot r is where it   *)
(* is since tick T[r], and the cost is the sum of these ticks.              *)
IsPast(m, s, last, h, T) ==
  /\ h \in [Nat -> [DOMAIN m.routes -> Int]]
  /\ h[0] = [r \in DOMAIN m.routes |-> 1]
  /\ \A k \in Nat : \A r \in DOMAIN m.routes : h[k][r] \in 1..Len(m.routes[r])
  /\ \A k \in Nat : k < last => h[k + 1] \in JointSteps(m, h[k])
  /\ \A k \in Nat : last <= k => h[k] = s[1]
  /\ T \in [DOMAIN m.routes -> Nat]
  /\ \A r \in DOMAIN m.routes :
       /\ T[r] <= last /\ h[T[r]][r] = s[1][r]
       /\ s[1][r] < Len(m.routes[r]) => T[r] = last
  /\ \A F : IsSum(F, Len(m.routes), T) => s[2] = F[Len(m.routes)]

HasPast(m, s) == \E last \in Nat : \E h, T : IsPast(m, s, last, h, T)

LEMMA PastBegins ==
  ASSUME NEW m, IsMission(m), NEW s, s = <<[r \in DOMAIN m.routes |-> 1], 0>>
  PROVE  HasPast(m, s)
<1>1. PICK n \in Nat : n = Len(m.routes)
  BY DEF IsMission
<1>2. PICK R : R = DOMAIN m.routes /\ R = 1..n
  BY <1>1 DEF IsMission
<1>3. PICK f : f = [r \in R |-> 1]
  OBVIOUS
<1>4. PICK h : h = [k \in Nat |-> f]
  OBVIOUS
<1>5. PICK T : T = [r \in R |-> 0]
  OBVIOUS
<1>6. s[1] = f /\ s[2] = 0
  BY <1>2, <1>3
<1>7. f \in [R -> Int] /\ h \in [Nat -> [R -> Int]] /\ \A k \in Nat : h[k] = f
  BY <1>3, <1>4
<1>8. \A r \in R : f[r] \in 1..Len(m.routes[r])
  <2> TAKE r \in R
  <2>1. Len(m.routes[r]) \in Nat \ {0}
    BY <1>2 DEF IsMission, IsRoute
  <2> QED BY <1>3, <2>1
<1>9. T \in [R -> Nat] /\ \A r \in R : T[r] = 0
  BY <1>5
<1>10. ASSUME NEW F, IsSum(F, n, T)
       PROVE  F[n] = 0
  <2>1. T \in [1..n -> Nat]
    BY <1>2, <1>9
  <2>2. /\ F[0] = 0 /\ \A k \in 1..n : F[k] = F[k - 1] + T[k]
        /\ \A k \in 0..n : F[k] \in Nat
    BY <1>10, <2>1, SumGrows
  <2>3. ASSUME NEW D, D = {k \in 0..n : F[k] # 0}, D # {}
        PROVE  FALSE
    <3>1. D \in SUBSET Nat
      BY <2>3
    <3>2. PICK d \in D : \A k \in D : d <= k
      BY <2>3, <3>1, LeastNatural
    <3>3. d \in 1..n /\ F[d] # 0
      BY <2>2, <2>3, <3>2
    <3>4. d - 1 \in 0..n /\ ~(d <= d - 1) /\ T[d] = 0
      BY <1>2, <1>9, <3>3
    <3>5. F[d - 1] = 0
      BY <2>3, <3>2, <3>4
    <3> QED BY <2>2, <3>3, <3>4, <3>5
  <2>4. n \in 0..n
    OBVIOUS
  <2> QED BY <2>3, <2>4
<1>11. IsPast(m, s, 0, h, T)
  <2>1. \A k \in Nat : ~(k < 0)
    OBVIOUS
  <2>2. h[0] = f /\ 0 \in Nat /\ 0 <= 0
    BY <1>7
  <2> QED BY <1>1, <1>2, <1>3, <1>6, <1>7, <1>8, <1>9, <1>10, <2>1, <2>2 DEF IsPast
<1> QED BY <1>11 DEF HasPast

LEMMA PastGrows ==
  ASSUME NEW m, IsMission(m), NEW s, HasPast(m, s), NEW g \in JointSteps(m, s[1]),
         NEW s2, s2 = <<g, s[2] + Cardinality(OnTheWay(m, s[1]))>>
  PROVE  HasPast(m, s2)
<1>1. PICK last \in Nat : \E h, T : IsPast(m, s, last, h, T)
  BY DEF HasPast
<1>2. PICK h, T : IsPast(m, s, last, h, T)
  BY <1>1
<1>3. PICK n \in Nat : n = Len(m.routes)
  BY DEF IsMission
<1>4. PICK R : R = DOMAIN m.routes /\ R = 1..n
  BY <1>3 DEF IsMission
<1>5. PICK f, moving : f = s[1] /\ moving = OnTheWay(m, f)
  OBVIOUS
<1>6. /\ h \in [Nat -> [R -> Int]]
      /\ h[0] = [r \in R |-> 1]
      /\ \A k \in Nat : \A r \in R : h[k][r] \in 1..Len(m.routes[r])
      /\ \A k \in Nat : k < last => h[k + 1] \in JointSteps(m, h[k])
      /\ \A k \in Nat : last <= k => h[k] = f
      /\ T \in [R -> Nat]
      /\ \A r \in R : /\ T[r] <= last /\ h[T[r]][r] = f[r]
                      /\ f[r] < Len(m.routes[r]) => T[r] = last
      /\ \A F : IsSum(F, n, T) => s[2] = F[n]
  BY <1>2, <1>3, <1>4, <1>5, Zenon DEF IsPast
<1>7. h[last] = f
  BY <1>6
<1>8. f \in [R -> Int] /\ \A r \in R : f[r] \in 1..Len(m.routes[r])
  BY <1>6, <1>7
<1>9. g \in [R -> Int] /\ \A r \in R : \/ g[r] = f[r] + 1 /\ g[r] <= Len(m.routes[r])
                                       \/ g[r] = f[r]
  <2>1. f \in [DOMAIN m.routes -> Int] /\ g \in JointSteps(m, f)
    BY <1>4, <1>5, <1>8
  <2>2. g \in [DOMAIN m.routes -> Int]
    BY <2>1, JointStepFacts, Zenon
  <2>3. \A r \in DOMAIN m.routes : \/ g[r] = f[r] + 1 /\ g[r] <= Len(m.routes[r])
                                   \/ g[r] = f[r]
    BY <2>1, JointStepFacts, Zenon
  <2> QED BY <1>4, <2>2, <2>3
<1>10. moving = {r \in R : f[r] < Len(m.routes[r])}
  BY <1>4, <1>5 DEF OnTheWay
<1>11. ASSUME NEW r \in R
       PROVE  /\ g[r] \in 1..Len(m.routes[r])
              /\ r \notin moving => g[r] = f[r] /\ f[r] = Len(m.routes[r])
  <2>1. PICK l \in Nat : l = Len(m.routes[r])
    <3>1. Len(m.routes[r]) \in Nat
      BY <1>4 DEF IsMission, IsRoute
    <3> QED BY <3>1
  <2>2. f[r] \in 1..l /\ ((g[r] = f[r] + 1 /\ g[r] <= l) \/ g[r] = f[r])
    BY <1>8, <1>9, <2>1
  <2>3. g[r] \in 1..l
    BY <2>2
  <2>4. r \notin moving => ~(f[r] < l)
    BY <1>10, <2>1
  <2>5. r \notin moving => g[r] = f[r] /\ f[r] = l
    BY <2>2, <2>4
  <2> QED BY <2>1, <2>3, <2>5
<1>12. PICK h2 : h2 = [k \in Nat |-> IF k <= last THEN h[k] ELSE g]
  OBVIOUS
<1>13. PICK T2 : T2 = [r \in R |-> IF r \in moving THEN T[r] + 1 ELSE T[r]]
  OBVIOUS
<1>14. PICK next \in Nat : next = last + 1
  OBVIOUS
<1>15. /\ h2 \in [Nat -> [R -> Int]]
       /\ \A k \in Nat : k <= last => h2[k] = h[k]
       /\ \A k \in Nat : next <= k => h2[k] = g
  <2>1. \A k \in Nat : h[k] \in [R -> Int]
    BY <1>6
  <2>2. \A k \in Nat : next <= k => ~(k <= last)
    BY <1>14
  <2> QED BY <1>9, <1>12, <2>1, <2>2
<1>16. h2[0] = [r \in R |-> 1]
  <2>1. 0 \in Nat /\ 0 <= last
    OBVIOUS
  <2> QED BY <1>6, <1>15, <2>1
<1>17. \A k \in Nat : \A r \in R : h2[k][r] \in 1..Len(m.routes[r])
  BY <1>6, <1>11, <1>12
<1>18. ASSUME NEW k \in Nat, k < next
       PROVE  h2[k + 1] \in JointSteps(m, h2[k])
  <2>1. k <= last /\ k + 1 \in Nat
    BY <1>14, <1>18
  <2>2. h2[k] = h[k]
    BY <1>15, <2>1
  <2>3. CASE k < last
    <3>1. k + 1 <= last
      BY <2>3
    <3>2. h2[k + 1] = h[k + 1]
      BY <1>15, <2>1, <3>1
    <3> QED BY <1>6, <2>2, <2>3, <3>2
  <2>4. CASE ~(k < last)
    <3>1. k = last /\ next <= k + 1
      BY <1>14, <2>1, <2>4
    <3>2. h2[k + 1] = g
      BY <1>15, <2>1, <3>1
    <3> QED BY <1>5, <1>7, <2>2, <3>1, <3>2
  <2> QED BY <2>3, <2>4
<1>19. T2 \in [R -> Nat]
  BY <1>6, <1>13
<1>20. ASSUME NEW r \in R
       PROVE  /\ T2[r] <= next /\ h2[T2[r]][r] = g[r]
              /\ g[r] < Len(m.routes[r]) => T2[r] = next
  <2>1. CASE r \in moving
    <3>1. T[r] = last
      BY <1>6, <1>10, <2>1
    <3>2. T2[r] = next
      BY <1>13, <1>14, <2>1, <3>1
    <3>3. next <= next
      OBVIOUS
    <3> QED BY <1>15, <3>2, <3>3
  <2>2. CASE r \notin moving
    <3>1. T2[r] = T[r] /\ T[r] \in Nat /\ T[r] <= last
      BY <1>6, <1>13, <2>2
    <3>2. h2[T2[r]][r] = f[r]
      BY <1>6, <1>15, <3>1
    <3>3. g[r] = f[r] /\ f[r] = Len(m.routes[r])
      BY <1>11, <2>2
    <3>4. ~(g[r] < Len(m.routes[r]))
      <4>1. g[r] \in Int
        BY <1>9
      <4> QED BY <3>3, <4>1
    <3>5. T2[r] <= next
      BY <1>14, <3>1
    <3> QED BY <3>2, <3>3, <3>4, <3>5
  <2> QED BY <2>1, <2>2
<1>21. ASSUME NEW F2, IsSum(F2, n, T2)
       PROVE  s2[2] = F2[n]
  <2>1. T \in [1..n -> Nat] /\ moving \in SUBSET (1..n)
    BY <1>4, <1>6, <1>10
  <2>2. PICK F : IsSum(F, n, T)
    BY <2>1, SumExists
  <2>3. T2 \in [1..n -> Nat] /\ OneMore(moving, n, T, T2)
    BY <1>4, <1>13, <1>19 DEF OneMore
  <2>4. Exceeds(moving, n, F, F2)
    BY <1>21, <2>1, <2>2, <2>3, SumOfOneMore, Zenon
  <2>5. s2[2] = s[2] + Cardinality(moving)
    BY <1>5
  <2> QED BY <1>6, <2>2, <2>4, <2>5 DEF Exceeds
<1>22. s2[1] = g
  OBVIOUS
<1>23. IsPast(m, s2, next, h2, T2)
  BY <1>3, <1>4, <1>15, <1>16, <1>17, <1>18, <1>19, <1>20, <1>21, <1>22, Zenon DEF IsPast
<1> QED BY <1>23 DEF HasPast

Pasts(m) == {s \in [DOMAIN m.routes -> Int] \X Int : HasPast(m, s)}

LEMMA MovesKeepPasts ==
  ASSUME NEW m, IsMission(m), NEW states \in SUBSET Pasts(m), NEW bound
  PROVE  JointMoves(m, states, bound) \in SUBSET Pasts(m)
<1> SUFFICES ASSUME NEW s2 \in JointMoves(m, states, bound)
             PROVE  s2 \in Pasts(m)
  OBVIOUS
<1>1. PICK s \in states :
        s2 \in IF OnTheWay(m, s[1]) = {} THEN {s}
               ELSE {<<g, s[2] + Cardinality(OnTheWay(m, s[1]))>> : g \in JointSteps(m, s[1])}
  BY Zenon DEF JointMoves
<1>2. s \in [DOMAIN m.routes -> Int] \X Int /\ HasPast(m, s) /\ s \in Pasts(m)
  BY DEF Pasts
<1>3. PICK f, c : f = s[1] /\ c = s[2]
  OBVIOUS
<1>4. f \in [DOMAIN m.routes -> Int] /\ c \in Int
  BY <1>2, <1>3
<1>5. CASE OnTheWay(m, f) = {}
  <2>1. s2 \in {s}
    BY <1>1, <1>3, <1>5, Zenon
  <2> QED BY <1>2, <2>1
<1>6. CASE OnTheWay(m, f) # {}
  <2>1. PICK moving : moving = Cardinality(OnTheWay(m, f))
    OBVIOUS
  <2>2. s2 \in {<<g, c + moving>> : g \in JointSteps(m, f)}
    BY <1>1, <1>3, <1>6, <2>1, Zenon
  <2>3. PICK g \in JointSteps(m, f) : s2 = <<g, c + moving>>
    BY <2>2
  <2>4. HasPast(m, s2)
    <3>1. g \in JointSteps(m, s[1]) /\ s2 = <<g, s[2] + Cardinality(OnTheWay(m, s[1]))>>
      BY <1>3, <2>1, <2>3
    <3> QED BY <1>2, <3>1, PastGrows, Zenon
  <2>5. moving \in Int
    <3>1. IsFiniteSet(DOMAIN m.routes)
      <4>1. DOMAIN m.routes = 1..Len(m.routes) /\ Len(m.routes) \in Int /\ 1 \in Int
        BY DEF IsMission
      <4> QED BY <4>1, FS_Interval
    <3>2. OnTheWay(m, f) \subseteq DOMAIN m.routes
      BY DEF OnTheWay
    <3>3. IsFiniteSet(OnTheWay(m, f))
      BY <3>1, <3>2, FS_Subset
    <3>4. Cardinality(OnTheWay(m, f)) \in Nat
      BY <3>3, FS_CardinalityType
    <3> QED BY <2>1, <3>4
  <2>6. g \in [DOMAIN m.routes -> Int]
    BY <1>4, JointStepFacts, Zenon
  <2>7. s2 \in [DOMAIN m.routes -> Int] \X Int
    BY <1>4, <2>3, <2>5, <2>6
  <2> QED BY <2>4, <2>7 DEF Pasts
<1> QED BY <1>5, <1>6

(* What the joint search finds came about by such moves.                    *)
LEMMA CheaperHasPast ==
  ASSUME NEW m, IsMission(m), NEW bound \in Nat, CheaperExists(m, bound)
  PROVE  \E s : HasPast(m, s) /\ OnTheWay(m, s[1]) = {} /\ s[2] < bound
<1>1. PICK V : V = SUBSET Pasts(m)
  OBVIOUS
<1> DEFINE Grow(states) == JointMoves(m, states, bound)
<1>2. PICK next : next = [t \in 1..bound |-> [states \in V |-> Grow(states)]]
  OBVIOUS
<1>3. next \in [1..bound -> [V -> V]]
  <2>1. \A states \in V : Grow(states) \in V
    BY <1>1, MovesKeepPasts
  <2> HIDE DEF Grow
  <2> QED BY <1>2, <2>1
<1>4. PICK parent : parent = [t \in 1..bound |-> t - 1]
  OBVIOUS
<1>5. PICK start : start = <<[r \in DOMAIN m.routes |-> 1], 0>>
  OBVIOUS
<1>6. PICK root \in V : root = {start}
  <2>1. start \in [DOMAIN m.routes -> Int] \X Int
    BY <1>5
  <2>2. HasPast(m, start)
    BY <1>5, PastBegins
  <2> QED BY <1>1, <2>1, <2>2 DEF Pasts
<1>7. PICK f \in [0..bound -> V] :
        /\ f[0] = root
        /\ \A t \in 1..bound : f[t] = next[t][f[parent[t]]]
  <2>1. PICK a, b \in Int : a = 0 /\ b = bound
    OBVIOUS
  <2>2. a <= b /\ next \in [(a + 1)..b -> [V -> V]]
    BY <1>3, <2>1
  <2>3. \A t \in (a + 1)..b : parent[t] \in a..(t - 1)
    BY <1>4, <2>1
  <2>4. PICK f \in [a..b -> V] : IsRecursive(f, a, b, root, parent, next)
    BY <2>2, <2>3, TreeRecursion
  <2> QED BY <2>1, <2>4 DEF IsRecursive
<1> HIDE DEF Grow
<1>8. ASSUME NEW t \in 1..bound
      PROVE  f[t] = Grow(f[t - 1])
  <2>1. t - 1 \in 0..bound /\ parent[t] = t - 1
    BY <1>4
  <2>2. f[t - 1] \in V
    BY <2>1
  <2> QED BY <1>2, <1>7, <2>1, <2>2
<1>9. f = [t \in 0..bound |-> IF t = 0 THEN {start} ELSE Grow(f[t - 1])]
  <2>1. \A t \in 0..bound : t # 0 => t \in 1..bound
    OBVIOUS
  <2> QED BY <1>6, <1>7, <1>8, <2>1
<1> DEFINE reached == CHOOSE g : g = [t \in 0..bound |-> IF t = 0 THEN {start} ELSE Grow(g[t - 1])]
<1>10. reached = [t \in 0..bound |-> IF t = 0 THEN {start} ELSE Grow(reached[t - 1])]
  BY <1>9, Zenon
<1>11. \E s \in reached[bound] : OnTheWay(m, s[1]) = {} /\ s[2] < bound
  BY <1>5, Zenon DEF CheaperExists, Grow
<1> HIDE DEF reached
<1>12. PICK g : g = reached
  OBVIOUS
<1>13. ASSUME NEW D, D = {t \in 0..bound : g[t] \notin V}, D # {}
       PROVE  FALSE
  <2>1. D \in SUBSET Nat
    BY <1>13
  <2>2. PICK d \in D : \A k \in D : d <= k
    BY <1>13, <2>1, LeastNatural
  <2>3. d \in 0..bound /\ g[d] \notin V
    BY <1>13, <2>2
  <2>4. ASSUME d = 0
        PROVE  FALSE
    <3>1. g[0] = {start}
      BY <1>10, <1>12
    <3> QED BY <1>6, <2>3, <2>4, <3>1
  <2>5. d - 1 \in 0..bound /\ ~(d <= d - 1) /\ d # 0
    BY <2>3, <2>4
  <2>6. g[d - 1] \in V
    BY <1>13, <2>2, <2>5
  <2>7. g[d] = Grow(g[d - 1])
    BY <1>10, <1>12, <2>3, <2>5
  <2>8. Grow(g[d - 1]) \in V
    BY <1>1, <2>6, MovesKeepPasts DEF Grow
  <2> QED BY <2>3, <2>7, <2>8
<1>14. g[bound] \in V
  <2>1. PICK D : D = {t \in 0..bound : g[t] \notin V}
    OBVIOUS
  <2>2. D = {}
    BY <1>13, <2>1
  <2>3. bound \in 0..bound
    OBVIOUS
  <2> QED BY <2>1, <2>2, <2>3
<1> QED BY <1>1, <1>11, <1>12, <1>14 DEF Pasts

(* Robots that do not collide where they stand may stand still.             *)
LEMMA StandApart ==
  ASSUME NEW m, IsMission(m), NEW a \in DOMAIN m.routes, NEW b \in DOMAIN m.routes,
         NEW f \in DOMAIN m.routes[a], NEW g \in DOMAIN m.routes[b],
         ~Collide(m.routes[a][f], m.routes[b][g], Reach(m, a, b))
  PROVE  ~Meet(m.routes[a][f], m.routes[a][f], m.routes[b][g], m.routes[b][g], Reach(m, a, b))
<1>1. PICK x, y, d : x = m.routes[a][f] /\ y = m.routes[b][g] /\ d = Reach(m, a, b)
  OBVIOUS
<1>2. d \in Int
  BY <1>1 DEF IsMission, Reach
<1>3. x.pos.x \in Int /\ x.pos.y \in Int /\ y.pos.x \in Int /\ y.pos.y \in Int
  BY <1>1 DEF IsMission, IsRoute
<1>4. ~Collide(x, y, d)
  BY <1>1
<1>5. ~Swept(x, x, y, y, d)
  BY <1>2, <1>3, <1>4, StillIsNear DEF Collide
<1>6. ~Meet(x, x, y, y, d)
  BY <1>4, <1>5 DEF Meet
<1> QED BY <1>1, <1>6

(* Robots that came to their ends by such moves made a journey.             *)
LEMMA PastIsJourney ==
  ASSUME NEW m, IsMission(m), StartsApart(m), NEW s, OnTheWay(m, s[1]) = {},
         NEW last \in Nat, NEW h, NEW T, IsPast(m, s, last, h, T)
  PROVE  \E J : Journey(m, J) /\ Arrives(m, J, T)
<1>1. PICK R, f : R = DOMAIN m.routes /\ f = s[1]
  OBVIOUS
<1>2. /\ h \in [Nat -> [R -> Int]]
      /\ h[0] = [r \in R |-> 1]
      /\ \A k \in Nat : \A r \in R : h[k][r] \in 1..Len(m.routes[r])
      /\ \A k \in Nat : k < last => h[k + 1] \in JointSteps(m, h[k])
      /\ \A k \in Nat : last <= k => h[k] = f
      /\ T \in [R -> Nat]
      /\ \A r \in R : T[r] <= last /\ h[T[r]][r] = f[r]
  BY <1>1, Zenon DEF IsPast
<1>3. h[last] = f
  BY <1>2
<1>4. ASSUME NEW r \in R
      PROVE  f[r] = Len(m.routes[r])
  <2>1. Len(m.routes[r]) \in Nat
    BY <1>1 DEF IsMission, IsRoute
  <2>2. f[r] \in 1..Len(m.routes[r])
    BY <1>2, <1>3
  <2>3. ~(f[r] < Len(m.routes[r]))
    BY <1>1 DEF OnTheWay
  <2> QED BY <2>1, <2>2, <2>3
<1>5. PICK J : J = [r \in R |-> [k \in Nat |-> h[k][r]]]
  OBVIOUS
<1>6. \A r \in R : \A k \in Nat : J[r][k] = h[k][r]
  BY <1>5
<1>7. \A k \in Nat : h[k] \in [DOMAIN m.routes -> Int]
  BY <1>1, <1>2
<1>8. ASSUME NEW r \in R, NEW k \in Nat
      PROVE  \/ h[k + 1][r] = h[k][r] + 1
             \/ h[k + 1][r] = h[k][r] /\ ~InTransit(m.routes[r][h[k][r]])
  <2>1. CASE k < last
    <3>1. PICK a, b : a = h[k] /\ b = h[k + 1]
      OBVIOUS
    <3>2. a \in [DOMAIN m.routes -> Int] /\ b \in JointSteps(m, a)
      BY <1>2, <1>7, <2>1, <3>1
    <3>3. b[r] = a[r] + 1 \/ (b[r] = a[r] /\ ~InTransit(m.routes[r][a[r]]))
      <4>1. \A q \in DOMAIN m.routes :
              \/ b[q] = a[q] + 1 /\ b[q] <= Len(m.routes[q])
              \/ b[q] = a[q] /\ ~InTransit(m.routes[q][a[q]])
        BY <3>2, JointStepFacts, Zenon
      <4> QED BY <1>1, <4>1
    <3> QED BY <3>1, <3>3
  <2>2. CASE ~(k < last)
    <3>1. last <= k /\ last <= k + 1 /\ k + 1 \in Nat
      BY <2>2
    <3>2. h[k] = f /\ h[k + 1] = f
      BY <1>2, <3>1
    <3>3. ~Holds(m.routes[r][Len(m.routes[r])])
      BY <1>1 DEF IsMission
    <3>4. ~InTransit(m.routes[r][Len(m.routes[r])])
      BY <3>3 DEF Holds, InTransit
    <3> QED BY <1>4, <3>2, <3>4
  <2> QED BY <2>1, <2>2
<1>9. ASSUME NEW r \in R
      PROVE  Strolls(m.routes[r], {}, J[r])
  <2>1. J[r] \in [Nat -> Int]
    <3>1. \A k \in Nat : h[k][r] \in Int
      BY <1>2
    <3> QED BY <1>5, <3>1
  <2>2. J[r][0] = 1
    BY <1>2, <1>6
  <2>3. ASSUME NEW k \in Nat
        PROVE  Neighbor(m.routes[r], {}, J[r][k], J[r][k + 1], k)
    <3>1. PICK x, y : x = J[r][k] /\ y = J[r][k + 1]
      OBVIOUS
    <3>2. k + 1 \in Nat
      OBVIOUS
    <3>3. x = h[k][r] /\ y = h[k + 1][r]
      BY <1>6, <3>1, <3>2
    <3>4. y \in DOMAIN m.routes[r]
      <4>1. y \in 1..Len(m.routes[r])
        BY <1>2, <3>2, <3>3
      <4>2. DOMAIN m.routes[r] = 1..Len(m.routes[r])
        BY <1>1, Zenon DEF IsMission, IsRoute
      <4> QED BY <4>1, <4>2, Zenon
    <3>5. y = x + 1 \/ (y = x /\ ~InTransit(m.routes[r][x]))
      BY <1>8, <3>3
    <3>6. allowed({}, m.routes[r][x], m.routes[r][y], k)
      BY Zenon DEF allowed
    <3> QED BY <3>1, <3>4, <3>5, <3>6, Zenon DEF Neighbor
  <2> QED BY <2>1, <2>2, <2>3 DEF Strolls
<1>10. ASSUME NEW a \in R, NEW b \in R, a < b
       PROVE  ~Collide(m.routes[a][f[a]], m.routes[b][f[b]], Reach(m, a, b))
  <2>1. CASE last = 0
    <3>1. f[a] = 1 /\ f[b] = 1
      BY <1>2, <1>3, <2>1
    <3> QED BY <1>1, <1>10, <3>1 DEF StartsApart
  <2>2. CASE last # 0
    <3>1. PICK k \in Nat : k = last - 1 /\ k < last /\ k + 1 = last
      BY <2>2
    <3>2. h[k] \in [DOMAIN m.routes -> Int] /\ f \in JointSteps(m, h[k])
      BY <1>2, <1>3, <1>7, <3>1
    <3>3. PICK e : e = h[k]
      OBVIOUS
    <3>4. e \in [DOMAIN m.routes -> Int] /\ f \in JointSteps(m, e)
      BY <3>2, <3>3
    <3>5. \A p, q \in DOMAIN m.routes :
            p < q => /\ ~Meet(m.routes[p][e[p]], m.routes[p][f[p]],
                              m.routes[q][e[q]], m.routes[q][f[q]], Reach(m, p, q))
                     /\ ~Collide(m.routes[p][f[p]], m.routes[q][f[q]], Reach(m, p, q))
      BY <3>4, JointStepFacts, Zenon
    <3> QED BY <1>1, <1>10, <3>5, Zenon
  <2> QED BY <2>1, <2>2
<1>11. ASSUME NEW a \in R, NEW b \in R, a < b, NEW k \in Nat
       PROVE  ~Meet(m.routes[a][J[a][k]], m.routes[a][J[a][k + 1]],
                    m.routes[b][J[b][k]], m.routes[b][J[b][k + 1]], Reach(m, a, b))
  <2>1. PICK e, g : e = h[k] /\ g = h[k + 1]
    OBVIOUS
  <2>2. k + 1 \in Nat
    OBVIOUS
  <2>3. J[a][k] = e[a] /\ J[a][k + 1] = g[a] /\ J[b][k] = e[b] /\ J[b][k + 1] = g[b]
    BY <1>6, <2>1, <2>2
  <2>4. ~Meet(m.routes[a][e[a]], m.routes[a][g[a]],
              m.routes[b][e[b]], m.routes[b][g[b]], Reach(m, a, b))
    <3>1. CASE k < last
      <4>1. e \in [DOMAIN m.routes -> Int] /\ g \in JointSteps(m, e)
        BY <1>2, <1>7, <2>1, <3>1
      <4>2. \A p, q \in DOMAIN m.routes :
              p < q => /\ ~Meet(m.routes[p][e[p]], m.routes[p][g[p]],
                                m.routes[q][e[q]], m.routes[q][g[q]], Reach(m, p, q))
                       /\ ~Collide(m.routes[p][g[p]], m.routes[q][g[q]], Reach(m, p, q))
        BY <4>1, JointStepFacts, Zenon
      <4> QED BY <1>1, <1>11, <4>2, Zenon
    <3>2. CASE ~(k < last)
      <4>1. last <= k /\ last <= k + 1
        BY <3>2
      <4>2. e = f /\ g = f
        BY <1>2, <2>1, <2>2, <4>1
      <4>3. ~Collide(m.routes[a][f[a]], m.routes[b][f[b]], Reach(m, a, b))
        BY <1>10, <1>11
      <4>4. f[a] \in DOMAIN m.routes[a] /\ f[b] \in DOMAIN m.routes[b]
        <5>1. f[a] \in 1..Len(m.routes[a]) /\ f[b] \in 1..Len(m.routes[b])
          BY <1>2, <1>3
        <5>2. /\ DOMAIN m.routes[a] = 1..Len(m.routes[a])
              /\ DOMAIN m.routes[b] = 1..Len(m.routes[b])
          BY <1>1, Zenon DEF IsMission, IsRoute
        <5> QED BY <5>1, <5>2, Zenon
      <4>5. ~Meet(m.routes[a][f[a]], m.routes[a][f[a]],
                  m.routes[b][f[b]], m.routes[b][f[b]], Reach(m, a, b))
        BY <1>1, <4>3, <4>4, StandApart, Zenon
      <4> QED BY <4>2, <4>5
    <3> QED BY <3>1, <3>2
  <2> QED BY <2>3, <2>4
<1>12. Journey(m, J)
  BY <1>1, <1>9, <1>11 DEF Journey
<1>13. Arrives(m, J, T)
  <2>1. ASSUME NEW r \in R
        PROVE  J[r][T[r]] = Len(m.routes[r])
    <3>1. T[r] \in Nat /\ h[T[r]][r] = f[r]
      BY <1>2
    <3> QED BY <1>4, <1>6, <3>1
  <2> QED BY <1>1, <1>2, <2>1 DEF Arrives
<1> QED BY <1>12, <1>13

LEMMA NoneIsCheaper ==
  ASSUME NEW m, IsMission(m), StartsApart(m), NEW total \in Nat, NoneBelow(m, total)
  PROVE  ~CheaperExists(m, total)
<1> SUFFICES ASSUME CheaperExists(m, total)
             PROVE  FALSE
  OBVIOUS
<1>1. PICK s : HasPast(m, s) /\ OnTheWay(m, s[1]) = {} /\ s[2] < total
  BY CheaperHasPast
<1>2. PICK last \in Nat : \E h, T : IsPast(m, s, last, h, T)
  BY <1>1 DEF HasPast
<1>3. PICK h, T : IsPast(m, s, last, h, T)
  BY <1>2
<1>4. PICK J : Journey(m, J) /\ Arrives(m, J, T)
  BY <1>1, <1>3, PastIsJourney
<1>5. PICK n \in Nat : n = Len(m.routes)
  BY DEF IsMission
<1>6. T \in [1..n -> Nat]
  BY <1>3, <1>5 DEF IsPast, IsMission
<1>7. PICK F : IsSum(F, n, T)
  BY <1>6, SumExists
<1>8. s[2] = F[n]
  BY <1>3, <1>5, <1>7 DEF IsPast
<1>9. total <= F[n]
  BY <1>4, <1>5, <1>7 DEF NoneBelow
<1>10. F[n] \in Nat
  <2>1. n \in 0..n
    OBVIOUS
  <2> QED BY <1>6, <1>7, <2>1, SumGrows
<1> QED BY <1>1, <1>8, <1>9, <1>10

(* Robots that start apart may stand where they start for ever.             *)
LEMMA StandingIsJourney ==
  ASSUME NEW m, IsMission(m), StartsApart(m)
  PROVE  \E J : Journey(m, J)
<1>1. PICK still : still = [k \in Nat |-> 1]
  OBVIOUS
<1>2. still \in [Nat -> Int] /\ still[0] = 1 /\ \A k \in Nat : still[k] = 1 /\ still[k + 1] = 1
  BY <1>1
<1>3. PICK J : J = [r \in DOMAIN m.routes |-> still]
  OBVIOUS
<1>4. ASSUME NEW r \in DOMAIN m.routes
      PROVE  1 \in DOMAIN m.routes[r] /\ Strolls(m.routes[r], {}, still)
  <2>1. ~InTransit(m.routes[r][1])
    BY DEF IsMission
  <2>2. 1 \in DOMAIN m.routes[r]
    <3>1. IsRoute(m.routes[r])
      BY DEF IsMission
    <3> QED BY <3>1 DEF IsRoute
  <2>3. ASSUME NEW k \in Nat
        PROVE  Neighbor(m.routes[r], {}, 1, 1, k)
    BY <2>1, <2>2, Zenon DEF Neighbor, allowed
  <2> QED BY <1>2, <2>2, <2>3 DEF Strolls
<1>5. ASSUME NEW a \in DOMAIN m.routes, NEW b \in DOMAIN m.routes, a < b
      PROVE  ~Meet(m.routes[a][1], m.routes[a][1], m.routes[b][1], m.routes[b][1], Reach(m, a, b))
  <2>1. ~Collide(m.routes[a][1], m.routes[b][1], Reach(m, a, b))
    BY <1>5 DEF StartsApart
  <2> QED BY <1>4, <2>1, StandApart, Zenon
<1>6. ASSUME NEW a \in DOMAIN m.routes, NEW b \in DOMAIN m.routes, a < b, NEW t \in Nat
      PROVE  ~Meet(m.routes[a][J[a][t]], m.routes[a][J[a][t + 1]],
                   m.routes[b][J[b][t]], m.routes[b][J[b][t + 1]], Reach(m, a, b))
  <2>1. J[a][t] = 1 /\ J[a][t + 1] = 1 /\ J[b][t] = 1 /\ J[b][t + 1] = 1
    BY <1>2, <1>3
  <2>2. ~Meet(m.routes[a][1], m.routes[a][1], m.routes[b][1], m.routes[b][1], Reach(m, a, b))
    BY <1>5, <1>6
  <2> QED BY <2>1, <2>2
<1>7. \A r \in DOMAIN m.routes : Strolls(m.routes[r], {}, J[r])
  BY <1>3, <1>4
<1>8. Journey(m, J)
  BY <1>6, <1>7, Zenon DEF Journey
<1> QED BY <1>8
-----------------------------------------------------------------------------
(* No robot that keeps the constraints of an open node arrives sooner than  *)
(* by the node's plan, and the node costs what its plans cost.              *)
NodesSoonest(m, open_nodes) ==
  \A n \in open_nodes :
    /\ n.solution \in [DOMAIN m.routes -> Seq(Int)]
    /\ Soonest(m, n.solution, n.constraints)
    /\ n.cost = TotalCost(n.solution)

(* No journey is lost: each keeps the constraints of some open node.        *)
Covering(m, open_nodes) ==
  \A J : Journey(m, J) => \E n \in open_nodes : Fits(m, J, n.constraints)

(* The inductive invariant of the least cost.                               *)
OptimalInv ==
  /\ phase \notin {"cbs", "done", "failed"} => answer = "idle"
  /\ answer # "idle" => StartsApart(mission)
  /\ answer # "none"
  /\ NodesSoonest(mission, tree)
  /\ answer = "searching" => Covering(mission, tree)
  /\ answer = "found" => /\ agreed \in [DOMAIN mission.routes -> Seq(Int)]
                         /\ NoneBelow(mission, TotalCost(agreed))
  /\ phase = "done" /\ answer = "found" => plans = agreed

(* Each robot may go as it likes at first, and can stay where it is.        *)
LEMMA StartCovers ==
  ASSUME mission \in Missions, StartsApart(mission), Cbs!Start
  PROVE  answer' = "searching" /\ NodesSoonest(mission, tree') /\ Covering(mission, tree')
<1>1. PICK m : m = mission /\ IsMission(m)
  BY MissionsAssumption
<1>2. PICK options : options = [a \in DOMAIN m.routes |-> lowLevel(m, a, {})]
  OBVIOUS
<1>3. PICK free : free = [a \in DOMAIN m.routes |-> {}]
  OBVIOUS
<1>4. IsFiniteSet({}) /\ \A d \in {} : IsConstraint(d)
  BY FS_EmptySet
<1>5. ASSUME NEW a \in DOMAIN m.routes, NEW w, Strolls(m.routes[a], {}, w)
      PROVE  /\ lowLevel(m, a, {}) # {}
             /\ \A plan \in lowLevel(m, a, {}) : \A T \in Nat :
                  w[T] = Len(m.routes[a]) => Cost(plan) <= T
  BY <1>1, <1>4, <1>5, StrollIsBeaten
<1>6. \A a \in DOMAIN m.routes : options[a] # {}
  <2>1. PICK J : Journey(m, J)
    BY <1>1, StandingIsJourney
  <2>2. \A a \in DOMAIN m.routes : Strolls(m.routes[a], {}, J[a])
    BY <2>1 DEF Journey
  <2> QED BY <1>2, <1>5, <2>2
<1>7. /\ answer' = "searching"
      /\ \E plans0 \in Cbs!Selections(options) : tree' = {Cbs!Node(0, plans0, free, Cbs!Total(plans0))}
  BY <1>1, <1>2, <1>3, <1>6 DEF Cbs!Start, RobotsOf
<1>8. PICK plans0 \in Cbs!Selections(options) : tree' = {Cbs!Node(0, plans0, free, Cbs!Total(plans0))}
  BY <1>7
<1>9. PICK root : root = Cbs!Node(0, plans0, free, Cbs!Total(plans0))
  OBVIOUS
<1>10. root.solution = plans0 /\ root.constraints = free /\ root.cost = TotalCost(plans0)
  BY <1>9, RootCost DEF Cbs!Node
<1>11. \A a \in DOMAIN m.routes : plans0[a] \in lowLevel(m, a, {})
  BY <1>2, <1>8 DEF Cbs!Selections
<1>12. plans0 \in [DOMAIN m.routes -> Seq(Int)]
  <2>1. \A a \in DOMAIN m.routes : plans0[a] \in Seq(Int)
    BY <1>1, <1>4, <1>11, LowLevelFollows
  <2>2. plans0 = [a \in DOMAIN m.routes |-> plans0[a]]
    BY <1>2, <1>8 DEF Cbs!Selections
  <2> QED BY <2>1, <2>2
<1>13. Soonest(m, plans0, free)
  BY <1>3, <1>5, <1>11 DEF Soonest
<1>14. \A J : Journey(m, J) => Fits(m, J, free)
  BY <1>3 DEF Journey, Fits
<1>15. NodesSoonest(m, tree') /\ Covering(m, tree')
  BY <1>8, <1>9, <1>10, <1>12, <1>13, <1>14 DEF NodesSoonest, Covering
<1> QED BY <1>1, <1>7, <1>15

(* The child's plan is the soonest that its constraints allow.              *)
LEMMA ChildIsSoonest ==
  ASSUME NEW m, IsMission(m), NEW solution \in [DOMAIN m.routes -> Seq(Int)],
         NEW constraints, Constrained(m, solution, constraints),
         Soonest(m, solution, constraints),
         NEW a \in DOMAIN m.routes, NEW more, IsFiniteSet(more), \A c \in more : IsConstraint(c),
         NEW plan \in lowLevel(m, a, constraints[a] \cup more)
  PROVE  /\ [solution EXCEPT ![a] = plan] \in [DOMAIN m.routes -> Seq(Int)]
         /\ Soonest(m, [solution EXCEPT ![a] = plan],
                    [constraints EXCEPT ![a] = constraints[a] \cup more])
<1>1. PICK all : all = constraints[a] \cup more
  OBVIOUS
<1>2. IsFiniteSet(all) /\ \A c \in all : IsConstraint(c)
  <2>1. IsFiniteSet(constraints[a]) /\ \A c \in constraints[a] : IsConstraint(c)
    BY DEF Constrained
  <2>2. IsFiniteSet(constraints[a] \cup more)
    BY <2>1, FS_Union
  <2> QED BY <1>1, <2>1, <2>2
<1>3. plan \in Seq(Int)
  BY <1>1, <1>2, LowLevelFollows DEF IsConstraint
<1>4. PICK new, grown : /\ new = [solution EXCEPT ![a] = plan]
                        /\ grown = [constraints EXCEPT ![a] = all]
  OBVIOUS
<1>5. /\ new \in [DOMAIN m.routes -> Seq(Int)] /\ new[a] = plan
      /\ \A r \in DOMAIN m.routes : r # a => new[r] = solution[r]
  BY <1>3, <1>4
<1>6. /\ grown[a] = all
      /\ \A r \in DOMAIN m.routes : r # a => grown[r] = constraints[r]
  BY <1>4 DEF Constrained
<1>7. ASSUME NEW r \in DOMAIN m.routes, NEW w, NEW T \in Nat,
             Strolls(m.routes[r], grown[r], w), w[T] = Len(m.routes[r])
      PROVE  Cost(new[r]) <= T
  <2>1. CASE r = a
    <3>1. Strolls(m.routes[a], all, w) /\ w[T] = Len(m.routes[a])
      BY <1>6, <1>7, <2>1
    <3>2. Cost(plan) <= T
      BY <1>1, <1>2, <3>1, StrollIsBeaten
    <3> QED BY <1>5, <2>1, <3>2
  <2>2. CASE r # a
    <3>1. Strolls(m.routes[r], constraints[r], w) /\ new[r] = solution[r]
      BY <1>5, <1>6, <1>7, <2>2
    <3>2. Cost(solution[r]) <= T
      BY <1>7, <3>1 DEF Soonest
    <3> QED BY <3>1, <3>2
  <2> QED BY <2>1, <2>2
<1>8. Soonest(m, new, grown)
  BY <1>7 DEF Soonest
<1> QED BY <1>1, <1>4, <1>5, <1>8

(* A journey that keeps the constraints of a node keeps those of one of its *)
(* children.                                                                *)
LEMMA ChildFits ==
  ASSUME NEW m, IsMission(m), StartsApart(m), NEW n, NEW before, NEW after,
         Followed(m, n.solution), Constrained(m, n.solution, n.constraints),
         NEW c \in getFirstConflict(m, n.solution), IsBranching(m, n, c, before, after),
         NEW J, Journey(m, J), Fits(m, J, n.constraints)
  PROVE  \E o \in after : Fits(m, J, o.constraints)
<1>1. PICK added : added = createConstraintsFromConflict(c)
  OBVIOUS
<1>2. PICK a \in DOMAIN added : Strolls(m.routes[a], added[a], J[a])
  BY <1>1, NotBothBroken
<1>3. a \in DOMAIN m.routes /\ IsFiniteSet(added[a]) /\ \A d \in added[a] : IsConstraint(d)
  BY <1>1, AddedFacts
<1>4. PICK all : all = n.constraints[a] \cup added[a]
  OBVIOUS
<1>5. IsFiniteSet(all) /\ \A d \in all : IsConstraint(d)
  <2>1. IsFiniteSet(n.constraints[a]) /\ \A d \in n.constraints[a] : IsConstraint(d)
    BY <1>3 DEF Constrained
  <2>2. IsFiniteSet(n.constraints[a] \cup added[a])
    BY <1>3, <2>1, FS_Union
  <2> QED BY <1>3, <1>4, <2>1, <2>2
<1>6. Strolls(m.routes[a], all, J[a])
  <2>1. Strolls(m.routes[a], n.constraints[a], J[a])
    BY <1>3 DEF Fits
  <2> QED BY <1>2, <1>4, <2>1, StrollsTogether
<1>7. lowLevel(m, a, all) # {}
  BY <1>3, <1>5, <1>6, StrollIsBeaten
<1>8. PICK o \in after : IsChild(m, n, c, a, o)
  <2>1. a \in {b \in DOMAIN createConstraintsFromConflict(c) :
                 lowLevel(m, b, n.constraints[b] \cup createConstraintsFromConflict(c)[b]) # {}}
    BY <1>1, <1>4, <1>7
  <2> QED BY <2>1, Zenon DEF IsBranching
<1>9. o.constraints = [n.constraints EXCEPT ![a] = all]
  BY <1>1, <1>4, <1>8, Zenon DEF IsChild
<1>10. DOMAIN n.constraints = DOMAIN m.routes
  BY DEF Constrained
<1>11. ASSUME NEW r \in DOMAIN m.routes
       PROVE  Strolls(m.routes[r], o.constraints[r], J[r])
  <2>1. CASE r = a
    BY <1>3, <1>6, <1>9, <1>10, <2>1
  <2>2. CASE r # a
    <3>1. o.constraints[r] = n.constraints[r]
      BY <1>9, <1>10, <2>2
    <3> QED BY <3>1 DEF Fits
  <2> QED BY <2>1, <2>2
<1> QED BY <1>11 DEF Fits

LEMMA BranchCovers ==
  ASSUME mission \in Missions, StartsApart(mission), NodesSound(mission, tree),
         NodesSoonest(mission, tree), Covering(mission, tree), Cbs!Branch
  PROVE  NodesSoonest(mission, tree') /\ Covering(mission, tree')
<1>1. PICK m : m = mission /\ IsMission(m)
  BY MissionsAssumption
<1>2. PICK n \in Cbs!Cheapest : \E c \in getFirstConflict(m, n.solution) :
        IsBranching(m, n, c, tree, tree')
  BY <1>1, BranchFacts
<1>3. PICK c \in getFirstConflict(m, n.solution) : IsBranching(m, n, c, tree, tree')
  BY <1>2
<1>4. n \in tree /\ Followed(m, n.solution) /\ Constrained(m, n.solution, n.constraints)
  BY <1>1 DEF NodesSound, Cbs!Cheapest
<1>5. n.solution \in [DOMAIN m.routes -> Seq(Int)] /\ Soonest(m, n.solution, n.constraints)
  BY <1>1, <1>4 DEF NodesSoonest
<1>6. PICK added : added = createConstraintsFromConflict(c)
  OBVIOUS
<1>7. /\ DOMAIN added \subseteq DOMAIN m.routes
      /\ \A r \in DOMAIN added : IsFiniteSet(added[r]) /\ \A d \in added[r] : IsConstraint(d)
  BY <1>1, <1>4, <1>6, AddedFacts
<1>8. ASSUME NEW o \in tree'
      PROVE  /\ o.solution \in [DOMAIN m.routes -> Seq(Int)]
             /\ Soonest(m, o.solution, o.constraints)
             /\ o.cost = TotalCost(o.solution)
  <2>1. CASE o \in tree
    BY <1>1, <2>1 DEF NodesSoonest
  <2>2. CASE o \notin tree
    <3>1. PICK a \in DOMAIN added : IsChild(m, n, c, a, o)
      BY <1>3, <1>6, <2>2, Zenon DEF IsBranching
    <3>2. a \in DOMAIN m.routes /\ IsFiniteSet(added[a]) /\ \A d \in added[a] : IsConstraint(d)
      BY <1>7
    <3>3. PICK plan \in lowLevel(m, a, n.constraints[a] \cup added[a]) :
            o.solution = [n.solution EXCEPT ![a] = plan]
      BY <1>6, <3>1, Zenon DEF IsChild
    <3>4. /\ o.constraints = [n.constraints EXCEPT ![a] = n.constraints[a] \cup added[a]]
          /\ o.cost = TotalCost(o.solution)
      BY <1>6, <3>1, Zenon DEF IsChild
    <3>5. PICK new, grown :
            /\ new = [n.solution EXCEPT ![a] = plan]
            /\ grown = [n.constraints EXCEPT ![a] = n.constraints[a] \cup added[a]]
      OBVIOUS
    <3>6. new \in [DOMAIN m.routes -> Seq(Int)] /\ Soonest(m, new, grown)
      BY <1>1, <1>4, <1>5, <3>2, <3>5, ChildIsSoonest
    <3> QED BY <3>3, <3>4, <3>5, <3>6, Zenon
  <2> QED BY <2>1, <2>2
<1>9. ASSUME NEW J, Journey(m, J)
      PROVE  \E o \in tree' : Fits(m, J, o.constraints)
  <2>1. PICK o \in tree : Fits(m, J, o.constraints)
    BY <1>1, <1>9 DEF Covering
  <2>2. CASE o = n
    BY <1>1, <1>3, <1>4, <1>9, <2>1, <2>2, ChildFits
  <2>3. CASE o # n
    BY <1>3, <2>1, <2>3, Zenon DEF IsBranching
  <2> QED BY <2>2, <2>3
<1> QED BY <1>1, <1>8, <1>9 DEF NodesSoonest, Covering

LEMMA TotalIsNat ==
  ASSUME NEW m, IsMission(m), NEW solution \in [DOMAIN m.routes -> Seq(Int)],
         Followed(m, solution)
  PROVE  TotalCost(solution) \in Nat
<1>1. PICK n \in Nat : n = Len(m.routes)
  BY DEF IsMission
<1>2. DOMAIN m.routes = 1..n
  BY <1>1 DEF IsMission
<1>3. PICK cost : cost = [r \in 1..n |-> Cost(solution[r])]
  OBVIOUS
<1>4. solution \in [1..n -> Seq(Int)] /\ \A r \in 1..n : solution[r] # <<>>
  BY <1>2 DEF Followed, Follows
<1>5. cost \in [1..n -> Nat]
  BY <1>3, <1>4, TotalIsSum
<1>6. PICK f : IsSum(f, n, cost) /\ TotalCost(solution) = f[n]
  BY <1>3, <1>4, TotalIsSum
<1>7. n \in 0..n
  OBVIOUS
<1> QED BY <1>5, <1>6, <1>7, SumGrows

(* The cheapest node is no dearer than the node whose constraints a journey *)
(* keeps, and so than the journey.                                          *)
LEMMA SolvedIsLeast ==
  ASSUME NEW m, IsMission(m), NEW open_nodes, NodesSound(m, open_nodes),
         NodesSoonest(m, open_nodes), Covering(m, open_nodes), NEW n \in open_nodes,
         \A o \in open_nodes : n.cost <= o.cost
  PROVE  NoneBelow(m, TotalCost(n.solution))
<1> SUFFICES ASSUME NEW J, NEW T, NEW F,
                    Journey(m, J), Arrives(m, J, T), IsSum(F, Len(m.routes), T)
             PROVE  TotalCost(n.solution) <= F[Len(m.routes)]
  BY DEF NoneBelow
<1>1. PICK o \in open_nodes : Fits(m, J, o.constraints)
  BY DEF Covering
<1>2. \A x \in open_nodes :
        /\ x.solution \in [DOMAIN m.routes -> Seq(Int)] /\ Followed(m, x.solution)
        /\ Soonest(m, x.solution, x.constraints) /\ x.cost = TotalCost(x.solution)
  BY DEF NodesSound, NodesSoonest
<1>3. TotalCost(o.solution) <= F[Len(m.routes)]
  BY <1>1, <1>2, FittingCostsMore
<1>4. TotalCost(n.solution) <= TotalCost(o.solution)
  BY <1>2
<1>5. TotalCost(n.solution) \in Nat /\ TotalCost(o.solution) \in Nat
  BY <1>2, TotalIsNat
<1>6. F[Len(m.routes)] \in Nat
  <2>1. PICK k \in Nat : k = Len(m.routes)
    BY DEF IsMission
  <2>2. T \in [1..k -> Nat] /\ IsSum(F, k, T)
    BY <2>1 DEF Arrives, IsMission
  <2>3. k \in 0..k
    OBVIOUS
  <2> QED BY <2>1, <2>2, <2>3, SumGrows
<1> QED BY <1>3, <1>4, <1>5, <1>6

LEMMA OptimalInvInitially ==
  ASSUME Init
  PROVE  OptimalInv
BY DEF Init, OptimalInv, NodesSoonest

LEMMA OptimalInvKept ==
  ASSUME mission \in Missions, CbsInv, OptimalInv, [Next]_vars
  PROVE  OptimalInv'
<1>1. CASE FallBack
  <2>1. mission' = mission /\ phase' = phase /\ phase = "cbs" /\ plans' = plans
    BY <1>1 DEF FallBack, coordinatorVars
  <2>2. PICK m : m = mission /\ IsMission(m) /\ StartsApart(m)
    BY <2>1, MissionsAssumption DEF CbsInv
  <2>3. CASE Cbs!GiveUp
    BY <2>1, <2>3 DEF Cbs!GiveUp, OptimalInv
  <2>4. CASE Cbs!Exhausted
    <3>1. Covering(m, {})
      BY <2>2, <2>4 DEF Cbs!Exhausted, OptimalInv
    <3>2. PICK J : Journey(m, J)
      BY <2>2, StandingIsJourney
    <3> QED BY <3>1, <3>2 DEF Covering
  <2>5. CASE Cbs!Solve
    <3>1. /\ answer = "searching" /\ answer' = "found"
          /\ \E n \in Cbs!Cheapest : tree' = tree \ {n} /\ agreed' = n.solution
      BY <2>5 DEF Cbs!Solve
    <3>2. PICK n \in tree : /\ \A o \in tree : n.cost <= o.cost
                            /\ tree' = tree \ {n} /\ agreed' = n.solution
      BY <3>1 DEF Cbs!Cheapest
    <3>3. NodesSound(m, tree) /\ NodesSoonest(m, tree) /\ Covering(m, tree)
      BY <2>2, <3>1 DEF CbsInv, OptimalInv
    <3>4. NoneBelow(m, TotalCost(n.solution))
      BY <2>2, <3>2, <3>3, SolvedIsLeast
    <3>5. NodesSoonest(m, tree \ {n}) /\ n.solution \in [DOMAIN m.routes -> Seq(Int)]
      BY <3>3 DEF NodesSoonest
    <3> QED BY <2>1, <2>2, <3>1, <3>2, <3>4, <3>5 DEF OptimalInv
  <2>6. CASE Cbs!Start
    <3>1. answer' = "searching" /\ NodesSoonest(m, tree') /\ Covering(m, tree')
      BY <2>2, <2>6, StartCovers
    <3> QED BY <2>1, <2>2, <3>1 DEF OptimalInv
  <2>7. CASE Cbs!Branch
    <3>1. answer = "searching" /\ answer' = "searching"
      BY <2>7 DEF Cbs!Branch
    <3>2. NodesSoonest(m, tree') /\ Covering(m, tree')
      BY <2>2, <2>7, <3>1, BranchCovers DEF CbsInv, OptimalInv
    <3> QED BY <2>1, <2>2, <3>1, <3>2 DEF OptimalInv
  <2> QED BY <1>1, <2>3, <2>4, <2>5, <2>6, <2>7 DEF FallBack, Cbs!Step
<1>2. CASE ~FallBack
  <2>1. mission' = mission /\ UNCHANGED cbsVars
    <3>1. CASE Prioritized
      BY <1>2, <3>1
      DEF Next, Prioritized, CheckStarts, ScheduleNext, SearchOn, Scheduled, NoSchedule,
          AllScheduled, SkipRepair, BeginRepair, Reschedule, Rescheduled, RepairFails,
          OutOfNodes, OutOfTime, EndRepair, AcceptRepair, RejectRepair, coordinatorVars,
          AgreedByCbs, CbsFails, Returned, vars
    <3> QED BY <1>2, <3>1 DEF Next, Returned, AgreedByCbs, CbsFails, vars, coordinatorVars
  <2>2. CASE UNCHANGED <<phase, plans>>
    BY <2>1, <2>2 DEF cbsVars, OptimalInv
  <2>3. CASE AgreedByCbs
    BY <2>1, <2>3 DEF AgreedByCbs, cbsVars, OptimalInv
  <2>4. CASE CbsFails
    BY <2>1, <2>4 DEF CbsFails, cbsVars, OptimalInv
  <2>5. CASE Prioritized /\ ~UNCHANGED <<phase, plans>>
    <3>1. phase \notin {"cbs", "done", "failed"}
      BY <2>5
      DEF Prioritized, CheckStarts, ScheduleNext, SearchOn, Scheduled, NoSchedule,
          AllScheduled, SkipRepair, BeginRepair, Reschedule, Rescheduled, RepairFails,
          OutOfNodes, OutOfTime, AcceptRepair, RejectRepair, Retried, coordinatorVars
    <3>2. answer = "idle"
      BY <3>1 DEF OptimalInv
    <3> QED BY <2>1, <3>2 DEF cbsVars, OptimalInv
  <2> QED BY <1>2, <2>2, <2>3, <2>4, <2>5 DEF Next, Returned, vars, coordinatorVars
<1> QED BY <1>1, <1>2

(* Conflict-based search of the coordinator (multi_map_coordinator.cpp: its *)
(* Environment, run by conflict_based_search.hpp) agrees on schedules that  *)
(* no journey of the robots along their routes betters, whichever of the    *)
(* cheapest nodes its heap takes, and it never runs out of nodes: every     *)
(* journey keeps the constraints of some open node.                         *)
THEOREM AgreesOnCheapest == Spec => []CheapestAgreed
<1>1. Init => CoordinationInv /\ CbsInv /\ OptimalInv
  BY CoordinationInvInitially, CbsInvInitially, OptimalInvInitially
<1>2. CoordinationInv => mission \in Missions
  BY DEF CoordinationInv
<1>3. CoordinationInv /\ CbsInv /\ OptimalInv /\ [Next]_vars
        => (CoordinationInv /\ CbsInv /\ OptimalInv)'
  BY <1>2, CoordinationInvKept, CbsInvKept, OptimalInvKept
<1>4. CoordinationInv /\ CbsInv /\ OptimalInv => CheapestAgreed
  <2> SUFFICES ASSUME CoordinationInv, CbsInv, OptimalInv, phase = "done", answer = "found"
               PROVE  ~CheaperExists(mission, TotalCost(plans))
    BY DEF OptimalInv, CheapestAgreed
  <2>1. PICK m, total : m = mission /\ IsMission(m) /\ total = TotalCost(agreed)
    BY <1>2, MissionsAssumption
  <2>2. StartsApart(m) /\ NoneBelow(m, total) /\ plans = agreed
    BY <2>1 DEF OptimalInv
  <2>3. total \in Nat
    <3>1. Followed(m, agreed)
      BY <2>1 DEF CbsInv
    <3>2. agreed \in [DOMAIN m.routes -> Seq(Int)]
      BY <2>1 DEF OptimalInv
    <3> QED BY <2>1, <3>1, <3>2, TotalIsNat
  <2> QED BY <2>1, <2>2, <2>3, NoneIsCheaper
<1> QED BY <1>1, <1>3, <1>4, PTL DEF Spec
-----------------------------------------------------------------------------
(* Schedules that follow the routes and never meet are sound ones.          *)
LEMMA SoundSchedules ==
  ASSUME NEW m, NEW schedules, Followed(m, schedules),
         \A a, b \in DOMAIN m.routes :
           a < b => \A t \in 0..Makespan(schedules) : ~MeetAt(m, schedules, a, b, t)
  PROVE  Contract!Sound(m, schedules)
<1>1. \A r \in DOMAIN m.routes : Contract!Follows(m.routes[r], schedules[r])
  BY SameTerms DEF Followed
<1>2. Contract!ConflictFree(m, schedules)
  BY SameTerms DEF Contract!ConflictFree
<1> QED BY <1>1, <1>2 DEF Followed, Contract!Sound

LEMMA DecidedIsSound ==
  ASSUME NEW m, IsMission(m), NEW h, NEW schedules, DOMAIN schedules = DOMAIN m.routes,
         Decided(m, h, schedules, DOMAIN m.routes)
  PROVE  Contract!Sound(m, schedules)
<1>1. Followed(m, schedules)
  BY DEF Decided, IsPlanned, Followed
<1>2. ASSUME NEW a \in DOMAIN m.routes, NEW b \in DOMAIN m.routes, a < b,
             NEW t \in 0..Makespan(schedules)
      PROVE  ~MeetAt(m, schedules, a, b, t)
  <2>1. Makespan(schedules) \in Nat
    BY <1>1, <1>2, FollowedMakespan
  <2>2. t \in Nat
    BY <2>1
  <2>3. a # b
    <3>1. a \in Int /\ b \in Int
      BY DEF IsMission
    <3> QED BY <1>2, <3>1
  <2> QED BY <2>2, <2>3 DEF Decided, Apart
<1> QED BY <1>1, <1>2, SoundSchedules

(* The first schedules, from the first pass or from conflict-based search.  *)
LEMMA SoundIsPublished ==
  ASSUME mission' = mission, Published = <<>>, Contract!Sound(mission, Published')
  PROVE  [Contract!Next]_(Contract!contractVars)
BY DEF Contract!Next, Contract!Publish, Contract!contractVars

LEMMA ScheduledIsSound ==
  ASSUME CoordinationInv, AllScheduled
  PROVE  Contract!Sound(mission, plans)
<1>1. IsMission(mission) /\ Decided(mission, Horizon, plans, Robots) /\ DOMAIN plans = Robots
  BY AllScheduledKeepsInv, MissionFacts DEF AllScheduled, CoordinationInv
<1> QED BY <1>1, DecidedIsSound DEF Robots

LEMMA AllScheduledPublishes ==
  ASSUME CoordinationInv, AllScheduled
  PROVE  [Contract!Next]_(Contract!contractVars)
<1>1. /\ phase = "schedule" /\ phase' \in {"cbs", "repair"}
      /\ mission' = mission /\ plans' = plans
  BY DEF AllScheduled
<1>2. Published = <<>>
  BY <1>1 DEF Published
<1>3. CASE phase' = "repair"
  <2>1. Published' = plans
    BY <1>1, <1>3 DEF Published
  <2> QED BY <1>1, <1>2, <2>1, ScheduledIsSound, SoundIsPublished
<1>4. CASE phase' = "cbs"
  <2>1. Published' = <<>>
    BY <1>4 DEF Published
  <2> QED BY <1>1, <1>2, <2>1 DEF Contract!contractVars
<1> QED BY <1>1, <1>3, <1>4

LEMMA AgreedIsSound ==
  ASSUME CoordinationInv, CbsInv, AgreedByCbs
  PROVE  Contract!Sound(mission, agreed)
<1>1. IsMission(mission) /\ answer = "found"
  BY MissionFacts DEF AgreedByCbs, CoordinationInv
<1>2. Followed(mission, agreed) /\ getFirstConflict(mission, agreed) = {}
  BY <1>1 DEF CbsInv
<1>3. \A a, b \in DOMAIN mission.routes :
        a < b => \A t \in 0..Makespan(agreed) : ~MeetAt(mission, agreed, a, b, t)
  BY <1>1, <1>2, NoConflictIsFree DEF Followed
<1> QED BY <1>2, <1>3, SoundSchedules

LEMMA AgreedIsPublished ==
  ASSUME CoordinationInv, CbsInv, AgreedByCbs
  PROVE  [Contract!Next]_(Contract!contractVars)
<1>1. phase = "cbs" /\ phase' = "done" /\ plans' = agreed /\ mission' = mission
  BY DEF AgreedByCbs
<1>2. Published = <<>> /\ Published' = agreed
  BY <1>1 DEF Published
<1> QED BY <1>1, <1>2, AgreedIsSound, SoundIsPublished

LEMMA AcceptedIsSound ==
  ASSUME CoordinationInv, AcceptRepair
  PROVE  Contract!Sound(mission, candidate)
<1>1. phase = "trying" /\ queue = <<>>
  BY DEF AcceptRepair, Retried
<1>2. IsMission(mission) /\ RepairInv
  BY <1>1, MissionFacts DEF CoordinationInv
<1>3. Robots \ Range(queue) = Robots
  BY <1>1 DEF Range
<1>4. Decided(mission, Horizon, candidate, Robots) /\ DOMAIN candidate = Robots
  BY <1>2, <1>3 DEF RepairInv
<1> QED BY <1>2, <1>4, DecidedIsSound DEF Robots

(* A repair that is accepted is sound and better, and changes the schedules *)
(* of the robots on trial only.                                             *)
LEMMA AcceptedIsBetter ==
  ASSUME CoordinationInv, AcceptRepair
  PROVE  [Contract!Next]_(Contract!contractVars)
<1>1. /\ phase = "trying" /\ phase' = "done" /\ plans' = candidate /\ mission' = mission
      /\ queue = <<>> /\ Improvement(candidate, plans)
  BY DEF AcceptRepair, Retried
<1>2. /\ mission \in Missions /\ IsMission(mission) /\ DOMAIN plans = Robots
      /\ RepairInv
  BY <1>1, MissionFacts DEF CoordinationInv
<1>3. Published = plans /\ Published' = candidate
  BY <1>1 DEF Published
<1>4. plans # <<>>
  BY <1>2 DEF RepairInv
<1>5. Contract!Sound(mission, candidate)
  BY AcceptedIsSound
<1>6. Cardinality({r \in DOMAIN mission.routes : candidate[r] # plans[r]}) <= 3
  <2>1. PICK changed : changed = {r \in DOMAIN mission.routes : candidate[r] # plans[r]}
    OBVIOUS
  <2>2. /\ changed \subseteq trial /\ IsFiniteSet(trial) /\ Cardinality(trial) <= 3
    BY <1>2, <2>1 DEF RepairInv, Robots
  <2>3. /\ Cardinality(changed) <= Cardinality(trial)
        /\ Cardinality(changed) \in Nat /\ Cardinality(trial) \in Nat
    BY <2>2, FS_Subset, FS_CardinalityType
  <2> QED BY <2>1, <2>2, <2>3
<1>7. Contract!Better(mission, candidate, plans)
  <2>1. \A S : Contract!Cardinality(S) = Cardinality(S)
    BY Zenon DEF Contract!Cardinality, Cardinality
  <2>2. Contract!Makespan(candidate) < Contract!Makespan(plans)
    BY <1>1, SameTerms DEF Improvement
  <2>3. Contract!TotalCost(candidate) <= Contract!TotalCost(plans)
    BY <1>1, SameTerms DEF Improvement
  <2> QED BY <1>6, <2>1, <2>2, <2>3 DEF Contract!Better
<1> QED BY <1>1, <1>3, <1>4, <1>5, <1>7 DEF Contract!Next, Contract!Repair

(* Every other step leaves what is published as it was.                     *)
LEMMA StepsImplement ==
  ASSUME CoordinationInv, CbsInv, [Next]_vars
  PROVE  [Contract!Next]_(Contract!contractVars)
<1>1. ASSUME mission' = mission, Published' = Published
      PROVE  [Contract!Next]_(Contract!contractVars)
  BY <1>1 DEF Contract!contractVars
<1>2. CASE \/ CheckStarts \/ ScheduleNext \/ Scheduled \/ NoSchedule
           \/ SkipRepair \/ BeginRepair \/ Reschedule \/ Rescheduled
           \/ RepairFails \/ OutOfNodes \/ OutOfTime \/ RejectRepair \/ CbsFails
  <2>1. mission' = mission
    BY <1>2 DEF CheckStarts, ScheduleNext, Scheduled, NoSchedule, SkipRepair, BeginRepair,
      Reschedule, Rescheduled, RepairFails, OutOfNodes, OutOfTime, EndRepair, RejectRepair,
      CbsFails, coordinatorVars
  <2>2. Published' = Published
    BY <1>2 DEF CheckStarts, ScheduleNext, Scheduled, NoSchedule, SkipRepair, BeginRepair,
      Reschedule, Rescheduled, RepairFails, OutOfNodes, OutOfTime, EndRepair, RejectRepair,
      CbsFails, coordinatorVars, Published, Retried
  <2> QED BY <1>1, <2>1, <2>2
<1>3. CASE SearchOn \/ FallBack \/ Returned \/ UNCHANGED vars
  <2>1. mission' = mission /\ phase' = phase /\ plans' = plans
    BY <1>3 DEF SearchOn, FallBack, Returned, vars, coordinatorVars
  <2> QED BY <1>1, <2>1 DEF Published
<1> QED BY <1>2, <1>3, AllScheduledPublishes, AgreedIsPublished, AcceptedIsBetter
        DEF Next, Prioritized

(* The call publishes sound schedules only, and a repair of them only when  *)
(* it is better and leaves all but three robots alone, for any missions and *)
(* whatever runs out half way.                                              *)
THEOREM KeepsContract == Spec => ImplementsContract
<1>1. Init => Contract!Init
  BY DEF Init, Contract!Init, Published
<1>2. Init => CoordinationInv /\ CbsInv
  BY CoordinationInvInitially, CbsInvInitially
<1>3. CoordinationInv /\ CbsInv /\ [Next]_vars => CoordinationInv' /\ CbsInv'
  <2>1. CoordinationInv => mission \in Missions
    BY DEF CoordinationInv
  <2> QED BY <2>1, CoordinationInvKept, CbsInvKept
<1>4. CoordinationInv /\ CbsInv /\ [Next]_vars => [Contract!Next]_(Contract!contractVars)
  BY StepsImplement
<1> QED BY <1>1, <1>2, <1>3, <1>4, PTL DEF Spec, ImplementsContract, Contract!Spec
-----------------------------------------------------------------------------
(* The schedules are sound from the end of the first pass on.               *)
InTheEnd == phase \in {"repair", "trying", "done"}

SoundInv == InTheEnd => Contract!Sound(mission, plans)

LEMMA SoundInvKept ==
  ASSUME CoordinationInv, CbsInv, SoundInv, [Next]_vars
  PROVE  SoundInv'
<1>1. CASE AllScheduled
  <2>1. mission' = mission /\ plans' = plans
    BY <1>1 DEF AllScheduled
  <2> QED BY <1>1, <2>1, ScheduledIsSound DEF SoundInv
<1>2. CASE AgreedByCbs
  <2>1. mission' = mission /\ plans' = agreed
    BY <1>2 DEF AgreedByCbs
  <2> QED BY <1>2, <2>1, AgreedIsSound DEF SoundInv
<1>3. CASE AcceptRepair
  <2>1. mission' = mission /\ plans' = candidate
    BY <1>3 DEF AcceptRepair
  <2> QED BY <1>3, <2>1, AcceptedIsSound DEF SoundInv
<1>4. CASE CheckStarts \/ ScheduleNext \/ Scheduled \/ NoSchedule \/ FallBack \/ CbsFails
  <2>1. InTheEnd' => FALSE
    BY <1>4 DEF CheckStarts, ScheduleNext, Scheduled, NoSchedule, FallBack, CbsFails,
      coordinatorVars, InTheEnd
  <2> QED BY <2>1 DEF SoundInv
<1>5. CASE \/ SkipRepair \/ BeginRepair \/ Reschedule \/ Rescheduled
           \/ RepairFails \/ OutOfNodes \/ OutOfTime \/ RejectRepair
           \/ SearchOn \/ Returned \/ UNCHANGED vars
  <2>1. mission' = mission /\ plans' = plans /\ (InTheEnd' => InTheEnd)
    BY <1>5 DEF SkipRepair, BeginRepair, Reschedule, Rescheduled, RepairFails, OutOfNodes,
      OutOfTime, EndRepair, RejectRepair, Retried, SearchOn, Returned, vars, coordinatorVars,
      InTheEnd
  <2> QED BY <2>1 DEF SoundInv
<1> QED BY <1>1, <1>2, <1>3, <1>4, <1>5 DEF Next, Prioritized

(* Schedules found one at a time around those found before are free of      *)
(* conflicts between any two, and so are those returned in the end, from    *)
(* the first pass, the repair or conflict-based search, whatever the routes.*)
THEOREM NeverMeet == Spec => []DecidedNeverMeet
<1>1. ASSUME CoordinationInv, phase = "schedule",
             NEW a \in 1..(agent - 1), NEW b \in 1..(agent - 1), a < b
      PROVE  ~Meets([r \in 1..(agent - 1) |-> plans[r]], a, b)
  <2>1. PICK R : R = 1..(agent - 1)
    OBVIOUS
  <2>2. PICK schedules : schedules = [r \in R |-> plans[r]]
    OBVIOUS
  <2>3. Decided(mission, Horizon, plans, R) /\ agent \in Int
    BY <1>1, <2>1, MissionFacts DEF CoordinationInv, ScheduleInv
  <2>4. IsFiniteSet(R) /\ R # {} /\ a # b
    <3>1. agent - 1 \in Int /\ 1 \in Int
      BY <2>3
    <3>2. IsFiniteSet(R)
      BY <2>1, <3>1, FS_Interval
    <3> QED BY <1>1, <2>1, <2>3, <3>2
  <2>5. Makespan(schedules) \in Nat
    <3>1. \A r \in R : schedules[r] \in Seq(Int) /\ schedules[r] # <<>>
      BY <2>2, <2>3, PlannedIsSome DEF Decided
    <3> QED BY <2>2, <2>4, <3>1, MakespanFacts
  <2>6. \A t \in Nat : ~MeetAt(mission, schedules, a, b, t)
    <3>1. PathOf(mission, schedules, a) = PathOf(mission, plans, a)
      BY <1>1, <2>1, <2>2 DEF PathOf
    <3>2. PathOf(mission, schedules, b) = PathOf(mission, plans, b)
      BY <1>1, <2>1, <2>2 DEF PathOf
    <3>3. \A t \in Nat : ~MeetAt(mission, plans, a, b, t)
      BY <1>1, <2>1, <2>3, <2>4 DEF Decided, Apart
    <3>4. ASSUME NEW t \in Nat
          PROVE  ~MeetAt(mission, schedules, a, b, t)
      <4>1. ~MeetAt(mission, plans, a, b, t)
        BY <3>3
      <4> QED BY <3>1, <3>2, <4>1 DEF MeetAt
    <3> QED BY <3>4
  <2>7. ~Meets(schedules, a, b)
    BY <2>5, <2>6 DEF Meets
  <2> QED BY <2>1, <2>2, <2>7
<1>2. ASSUME CoordinationInv, phase = "trying",
             NEW a \in Robots \ Range(queue), NEW b \in Robots \ Range(queue), a < b
      PROVE  ~Meets(candidate, a, b)
  <2>1. /\ Decided(mission, Horizon, candidate, Robots \ Range(queue))
        /\ Decided(mission, Horizon, plans, Robots) /\ DOMAIN plans = Robots
        /\ DOMAIN candidate = Robots /\ mission \in Missions
    BY <1>2 DEF CoordinationInv, RepairInv
  <2>2. a # b
    BY <1>2, <2>1, MissionFacts
  <2>3. \A t \in Nat : ~MeetAt(mission, candidate, a, b, t)
    BY <1>2, <2>1, <2>2 DEF Decided, Apart
  <2>4. Makespan(candidate) \in Nat
    <3>1. IsFiniteSet(Robots) /\ Robots # {}
      BY <1>2, <2>1, MissionFacts, FS_Interval
    <3>2. \A r \in Robots : candidate[r] \in Seq(Int) /\ candidate[r] # <<>>
      BY <1>2, PlannedIsSome DEF CoordinationInv, RepairInv
    <3> QED BY <2>1, <3>1, <3>2, MakespanFacts
  <2> QED BY <2>3, <2>4 DEF Meets
<1>3. ASSUME SoundInv, InTheEnd, NEW a \in Robots, NEW b \in Robots, a < b
      PROVE  ~Meets(plans, a, b)
  <2>1. Contract!ConflictFree(mission, plans)
    BY <1>3 DEF SoundInv, Contract!Sound
  <2>2. \A t \in 0..Makespan(plans) : ~Contract!MeetAt(mission, plans, a, b, t)
    BY <1>3, <2>1, SameTerms DEF Contract!ConflictFree, Robots
  <2>3. \A t \in 0..Makespan(plans) : ~MeetAt(mission, plans, a, b, t)
    BY <2>2, SameTerms
  <2> QED BY <2>3 DEF Meets
<1>4. CoordinationInv /\ SoundInv => DecidedNeverMeet
  BY <1>1, <1>2, <1>3 DEF DecidedNeverMeet, InTheEnd
<1>5. Init => CoordinationInv /\ CbsInv /\ SoundInv
  BY CoordinationInvInitially, CbsInvInitially DEF Init, InTheEnd, SoundInv
<1>6. CoordinationInv /\ CbsInv /\ SoundInv /\ [Next]_vars
        => (CoordinationInv /\ CbsInv /\ SoundInv)'
  <2>1. CoordinationInv => mission \in Missions
    BY DEF CoordinationInv
  <2> QED BY <2>1, CoordinationInvKept, CbsInvKept, SoundInvKept
<1> QED BY <1>4, <1>5, <1>6, PTL DEF Spec
=============================================================================
