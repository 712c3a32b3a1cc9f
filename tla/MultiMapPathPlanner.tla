------------------------- MODULE MultiMapPathPlanner -------------------------
(***************************************************************************)
(* The path planner of the offline missions over the life of one object:   *)
(* after its bundle is loaded it answers calls in any order, and keeps     *)
(* whole paths, paths within a map and estimates in three caches.  With a  *)
(* coarse factor, ways within one map are looked for on coarse maps by a   *)
(* second planner with a cache of its own.                                 *)
(*                                                                         *)
(* A query is [start, goal, capabilities, profile].  An answer is [ticks,  *)
(* steps]; a step is [at, tick, by], by the transition that leads to it or *)
(* "".  What a single search answers is any cheapest path, always the same.*)
(* The keys of the caches are text, so that the numbers of a profile are   *)
(* in them as they are written, not as they are.                           *)
(***************************************************************************)
EXTENDS MapBundle

CONSTANTS
  Directories,       \* each with a name and the factor of its coarse search, 1 for none
  Calls,             \* [kind, query], or [kind, positions, profile] to precompute
  Requirements,      \* the capabilities each type of transition needs
  TransitionTicks,   \* and its ticks
  Significant(_),    \* the number read back from six significant digits
  Decimal(_),        \* and from six decimals
  MostCalls          \* bounds the calls made

VARIABLES
  dir,      \* the directory
  state,    \* "loading", "refused" or "serving"
  transitions,  \* the transitions of the bundle, in each direction
  map_paths,    \* what a search over one map answers: the same whenever it is asked
  caches,   \* what is kept: paths, segments and estimates, by key
  answer,   \* the last call and what it returned
  made      \* how many calls were made

vars == <<dir, state, transitions, map_paths, caches, answer, made>>

NoCaches == [paths |-> <<>>, segments |-> <<>>, estimates |-> <<>>]

Invalid == [ticks |-> -2, steps |-> <<>>]   \* invalid_argument
NoPath == [ticks |-> -1, steps |-> <<>>]    \* runtime_error

Init ==
  /\ dir \in Directories
  /\ state = "loading" /\ transitions = <<>> /\ map_paths = <<>> /\ caches = NoCaches /\ made = 0
  /\ answer = [call |-> [kind |-> "none"], result |-> NoPath]
-----------------------------------------------------------------------------
Directory(name) == CHOOSE d \in Directories : d.name = name

(* The coarse maps. *)
Coarse ==
  Tabulated([name \in {d.name : d \in Directories} |->
    LET d == Directory(name)
    IN Tabulated([m \in MapIds(d) |-> Coarsened(d.maps[m], d.factor)])])

MapAt(d, level, m) == IF level = 1 THEN d.maps[m] ELSE Coarse[d.name][m]

(* The cheapest path on one map, of the ticks that least says. *)
CheapestPath(map, profile, start, goal, least) ==
  LET IsLast(c, o) ==
        /\ From(c, o) \in map.free
        /\ <<-o[1], -o[2]>> \in MovesFrom(map, profile, From(c, o))
        /\ least[c] = least[From(c, o)]
                      + MovePrice(map, profile, From(c, o), <<-o[1], -o[2]>>)
      Back[n \in Nat] ==
        IF n = 0 THEN <<goal>>
        ELSE LET way == Back[n - 1]
             IN IF Head(way) = start THEN way
                ELSE <<From(Head(way), CHOOSE o \in Offsets : IsLast(Head(way), o))>> \o way
  IN Back[Cardinality(map.free)]

SearchMap(map, m, profile, start, goal, least) ==
  LET way == CheapestPath(map, profile, start, goal, least)
  IN IF ~HasRoom(map, profile, start) \/ ~HasRoom(map, profile, goal)
           \/ least[goal] >= Unreached
     THEN NoPath
     ELSE [ticks |-> least[goal],
           steps |-> [k \in DOMAIN way |->
                        [at |-> <<m, way[k]>>, tick |-> least[way[k]], by |-> ""]]]

(* The profile a call plans for. *)
ProfileOf(call) ==
  CASE call.kind = "precompute" -> call.profile
    [] call.kind = "allocation" -> [call.query.profile EXCEPT !.speed = call.reference]
    [] OTHER -> call.query.profile

Profiles == {ProfileOf(call) : call \in Calls}

(* A profile as the keys of paths and estimates have it, and as those of   *)
(* segments do.                                                            *)
Digits(profile) == <<Significant(profile.clearance), Significant(profile.speed)>>

Decimals(profile) == <<Decimal(profile.clearance), Decimal(profile.speed)>>

(* Every search over one map there can be. *)
Searched(d) ==
  LET OfMap(map, m, profile) ==
        LET least == Tabulated([start \in map.free |-> LeastTicks(map, profile, start)])
        IN Tabulated([ends \in map.free \X map.free |->
                        SearchMap(map, m, profile, ends[1], ends[2], least[ends[1]])])
  IN Tabulated([level \in {1, d.factor} |->
       Tabulated([use \in MapIds(d) \X Profiles |->
                    OfMap(MapAt(d, level, use[1]), use[1], use[2])])])

LoadBundle ==
  /\ state = "loading"
  /\ IF Accepted(dir)
     THEN state' = "serving" /\ transitions' = Directed(dir) /\ map_paths' = Searched(dir)
     ELSE state' = "refused" /\ UNCHANGED <<transitions, map_paths>>
  /\ UNCHANGED <<dir, caches, answer, made>>

SegmentKeyUnprofiled(level, profile, from, to, exact) == <<level, from, to, exact>>   \* mutated

SegmentKey(level, profile, from, to, exact) ==
  <<level, from, to, Decimals(profile), exact>>

(* A path within a map: kept, or searched for now. *)
same_map_path(cache, level, profile, from, to, exact) ==
  LET key == SegmentKey(level, profile, from, to, exact)
  IN IF key \in DOMAIN cache THEN cache[key]
     ELSE map_paths[level][<<from[1], profile>>][<<from[2], to[2]>>]

(* The cache after the paths between pairs were asked for: those found are *)
(* kept, but not those for a final route.                                  *)
Kept(cache, level, profile, pairs, exact) ==
  LET Key(e) == SegmentKey(level, profile, e[1], e[2], exact)
      Way(e) == same_map_path(cache, level, profile, e[1], e[2], exact)
      found == {e \in pairs : Way(e) # NoPath}
  IN IF exact THEN cache
     ELSE [k \in {Key(e) : e \in found} |-> Way(CHOOSE e \in found : Key(e) = k)] @@ cache
-----------------------------------------------------------------------------
(* Between maps: Dijkstra over the endpoints and the transitions the robot *)
(* may use.                                                                *)
Capable(q, t) == Requirements[t.type] \subseteq q.capabilities

Roomy(q, t) ==
  /\ HasRoom(dir.maps[t.from[1]], q.profile, t.from[2])
  /\ HasRoom(dir.maps[t.to[1]], q.profile, t.to[2])

Nodes(q) ==
  {q.start, q.goal} \cup
    UNION {{t.from, t.to} : t \in {t \in Range(transitions) : Capable(q, t) /\ Roomy(q, t)}}

StopWhenReached(q, tree, current) == tree.nodes[q.goal].ticks < Unreached   \* mutated: as soon as seen

Settled(q, tree, current) == current = q.goal

(* One iteration: the nearest node not visited yet offers its ways. *)
Offers(q, exact, cache, tree, current, n) ==
  LET ticks == tree.nodes[current].ticks
      Walks == IF n = current \/ n[1] # current[1] THEN {}
               ELSE {same_map_path(cache, 1, q.profile, current, n, exact).ticks} \ {NoPath.ticks}
      Rides == {k \in DOMAIN transitions :
                  transitions[k].from = current /\ transitions[k].to = n /\ Capable(q, transitions[k])}
  IN {[ticks |-> ticks + walk, from |-> current, by |-> ""] : walk \in Walks}
     \cup {[ticks |-> ticks + TransitionTicks[transitions[k].type],
            from |-> current, by |-> transitions[k].id] : k \in Rides}

Quicker(known, offers) ==
  LET better == {w \in offers : w.ticks < known.ticks}
  IN IF better = {} THEN known ELSE CHOOSE w \in better : \A o \in better : w.ticks <= o.ticks

Visit(q, exact, cache, tree) ==
  LET waiting == {n \in DOMAIN tree.nodes \ tree.visited : tree.nodes[n].ticks < Unreached}
      current == CHOOSE n \in waiting :
                   \A o \in waiting : tree.nodes[n].ticks <= tree.nodes[o].ticks
  IN IF tree.ended \/ waiting = {} \/ Settled(q, tree, current)
     THEN [tree EXCEPT !.ended = TRUE]
     ELSE [nodes |-> Tabulated([n \in DOMAIN tree.nodes |->
                       Quicker(tree.nodes[n], Offers(q, exact, cache, tree, current, n))]),
           visited |-> tree.visited \cup {current},
           ended |-> FALSE]

Tree(q, exact, cache) ==
  FoldLeft(LAMBDA tree, n : Visit(q, exact, cache, tree),
           [nodes |-> [n \in Nodes(q) |->
              [ticks |-> IF n = q.start THEN 0 ELSE Unreached, from |-> n, by |-> ""]],
            visited |-> {}, ended |-> FALSE],
           [n \in 1..Cardinality(Nodes(q)) |-> n])

(* The pairs of nodes between which ways were asked for. *)
Asked(q, tree) ==
  {e \in tree.visited \X DOMAIN tree.nodes : e[1] # e[2] /\ e[1][1] = e[2][1]}

CrossMapPath(q, exact, cache, tree) ==
  LET nodes == tree.nodes
      Walk(from, to) == Tail(same_map_path(cache, 1, q.profile, from, to, exact).steps)
      Later(steps, ticks) == [k \in DOMAIN steps |-> [steps[k] EXCEPT !.tick = @ + ticks]]
      Leg(n) ==
        IF nodes[n].by # "" THEN <<[at |-> n, tick |-> nodes[n].ticks, by |-> nodes[n].by]>>
        ELSE Later(Walk(nodes[n].from, n), nodes[nodes[n].from].ticks)
      Steps[n \in DOMAIN nodes] ==
        IF n = q.start THEN <<[at |-> n, tick |-> 0, by |-> ""]>>
        ELSE Steps[nodes[n].from] \o Leg(n)
  IN IF nodes[q.goal].ticks = Unreached THEN NoPath
     ELSE [ticks |-> nodes[q.goal].ticks, steps |-> Steps[q.goal]]
-----------------------------------------------------------------------------
(* The calls, each with the caches it leaves. *)
PathKey(q, exact) ==
  <<q.start, q.goal, q.capabilities, Digits(q.profile), exact>>

Keeping(c, key, path) ==
  IF path \in {NoPath, Invalid} THEN c ELSE [c EXCEPT !.paths = (key :> path) @@ @]

OnCoarse(p) == <<p[1], <<p[2][1] \div dir.factor, p[2][2] \div dir.factor>>>>

(* What the coarse planner answers. *)
CoarsePlan(q, c) ==
  LET from == OnCoarse(q.start)
      to == OnCoarse(q.goal)
      map == MapAt(dir, dir.factor, q.start[1])
  IN IF ~is_traversable(map, from[2]) \/ ~is_traversable(map, to[2])
     THEN [result |-> Invalid, caches |-> c]
     ELSE [result |-> same_map_path(c.segments, dir.factor, q.profile, from, to, FALSE),
           caches |-> [c EXCEPT !.segments =
                         Kept(@, dir.factor, q.profile, {<<from, to>>}, FALSE)]]

(* A coarse path with its ends put where they were asked for. *)
Refined(q, path) ==
  LET last == Len(path.steps)
      InMap(v, size) == Min({v * dir.factor + dir.factor \div 2, size - 1})
      Centre(p) == LET map == dir.maps[p[1]]
                   IN <<p[1], <<InMap(p[2][1], map.width), InMap(p[2][2], map.height)>>>>
  IN [path EXCEPT !.steps = [k \in DOMAIN path.steps |->
        [path.steps[k] EXCEPT !.at = IF k = 1 THEN q.start
                                     ELSE IF k = last THEN q.goal ELSE Centre(@)]]]

plan_impl(q, exact, c) ==
  LET key == PathKey(q, exact)
      coarse == CoarsePlan(q, c)
      tree == Tree(q, exact, c.segments)
  IN IF ~traversable(dir, q.start) \/ ~traversable(dir, q.goal)
     THEN [result |-> Invalid, caches |-> c]
     ELSE IF key \in DOMAIN c.paths THEN [result |-> c.paths[key], caches |-> c]
     ELSE IF q.start[1] # q.goal[1]
     THEN LET path == CrossMapPath(q, exact, c.segments, tree)
          IN [result |-> path,
              caches |-> [Keeping(c, key, path) EXCEPT !.segments =
                            Kept(@, 1, q.profile, Asked(q, tree), exact)]]
     ELSE IF exact \/ dir.factor = 1
     THEN [result |-> same_map_path(c.segments, 1, q.profile, q.start, q.goal, exact),
           caches |-> [c EXCEPT !.segments =
                         Kept(@, 1, q.profile, {<<q.start, q.goal>>}, exact)]]
     ELSE LET path == Refined(q, coarse.result)
          IN [result |-> path, caches |-> Keeping(coarse.caches, key, path)]

EstimateKey(from, to, profile) == <<from, to, Digits(profile)>>

estimate_distance(q, c) ==
  LET key == EstimateKey(q.start, q.goal, q.profile)
      coarse == CoarsePlan(q, c)
  IN IF key \in DOMAIN c.estimates
     THEN [result |-> [NoPath EXCEPT !.ticks = c.estimates[key]], caches |-> c]
     ELSE IF dir.factor = 1 \/ q.start[1] # q.goal[1] \/ coarse.result = NoPath
     THEN plan_impl(q, FALSE, c)
     ELSE coarse

(* At the speed of the slowest robot, to be scaled. *)
estimate_allocation_ticks(q, reference, c) ==
  LET slow == [q EXCEPT !.profile.speed = reference]
  IN IF q.start[1] = q.goal[1] THEN estimate_distance(slow, c)
     ELSE plan_impl(slow, FALSE, c)

(* The ticks of path at another speed than the reference: moves are        *)
(* scaled, transitions are not.                                            *)
AtSpeed(path, reference, speed) ==
  LET steps == path.steps
      fixed == FoldSet(LAMBDA k, sum : sum + steps[k].tick - steps[k - 1].tick, 0,
                       {k \in DOMAIN steps : steps[k].by # ""})
      moving == path.ticks - fixed
      scaled == Max({IF moving > 0 THEN 1 ELSE 0, (moving * reference + speed - 1) \div speed})
  IN IF path.ticks < 0 \/ speed = reference THEN path.ticks ELSE fixed + scaled

(* The distances between the positions of each map that a robot can use.   *)
precompute_estimates(positions, profile, c) ==
  LET Cell(p) == <<p[2][1] \div dir.factor, p[2][2] \div dir.factor>>
      Usable(p) ==
        LET map == MapAt(dir, dir.factor, p[1])
        IN /\ HasRoom(dir.maps[p[1]], profile, p[2])
           /\ is_traversable(map, Cell(p)) /\ HasRoom(map, profile, Cell(p))
      Way(e) == map_paths[dir.factor][<<e[1][1], profile>>][<<Cell(e[1]), Cell(e[2])>>]
      new == {e \in positions \X positions :
                /\ {e[1][1], e[2][1]} \subseteq MapIds(dir) /\ e[1][1] = e[2][1]
                /\ Usable(e[1]) /\ Usable(e[2]) /\ Way(e) # NoPath}
      Key(e) == EstimateKey(e[1], e[2], profile)
  IN [result |-> NoPath,
      caches |-> [c EXCEPT !.estimates =
        @ @@ [k \in {Key(e) : e \in new} |-> Way(CHOOSE e \in new : Key(e) = k).ticks]]]

Answered(call, c) ==
  CASE call.kind \in {"plan", "plan_exact"} ->
         plan_impl(call.query, call.kind = "plan_exact", c)
    [] call.kind = "estimate" -> estimate_distance(call.query, c)
    [] call.kind = "allocation" -> estimate_allocation_ticks(call.query, call.reference, c)
    [] call.kind = "precompute" -> precompute_estimates(call.positions, call.profile, c)

(* An estimate is of ticks alone. *)
Returned(call, path) ==
  CASE call.kind \in {"plan", "plan_exact", "precompute"} -> path
    [] call.kind = "estimate" -> [NoPath EXCEPT !.ticks = path.ticks]
    [] call.kind = "allocation" ->
         [NoPath EXCEPT !.ticks = AtSpeed(path, call.reference, call.query.profile.speed)]

Call ==
  /\ state = "serving" /\ made < MostCalls
  /\ made' = made + 1
  /\ \E call \in Calls : \E done \in {Answered(call, caches)} :
       /\ answer' = [call |-> call, result |-> Returned(call, done.result)]
       /\ caches' = done.caches
  /\ UNCHANGED <<dir, state, transitions, map_paths>>

Next == LoadBundle \/ Call
-----------------------------------------------------------------------------
(* A directory is served just if its maps, but one map alone without a     *)
(* file of relations, can be placed in one way only that keeps every       *)
(* relation, and each transition point is then a free cell of both its     *)
(* maps, with no two of one name from one map to another.                  *)
BundleSound ==
  LET Rows == Range(dir.relations)
      At(place, m) == IF m = Root THEN <<0, 0>> ELSE place[m]
      Keeps(place) == \A r \in Rows : At(place, r.to) = Plus(At(place, r.from), r.d)
      Tied(maps) == \E r \in Rows : (r.from \in maps) # (r.to \in maps)
      Window == {<<x, y>> : x \in -4..4, y \in -1..1}
      OnBoth(place, row) ==
        \A m \in {row.from, row.to} : Minus(row.at, place[m]) \in dir.maps[m].free
      SameWay(a, b) ==
        \/ a.from = b.from /\ a.to = b.to
        \/ (a.bidirectional \/ b.bidirectional) /\ a.from = b.to /\ a.to = b.from
      placed == {place \in [MapIds(dir) -> Window] : Keeps(place)}
  IN state \in {"serving", "refused"} =>
       (state = "serving" <=>
          /\ \/ ~dir.listed /\ Cardinality(MapIds(dir)) = 1
             \/ \A maps \in SUBSET MapIds(dir) : maps # {} => Tied(maps)
          /\ \E place \in placed : \A row \in Range(dir.rows) : OnBoth(place, row)
          /\ \A j, k \in DOMAIN dir.rows :
               j # k /\ dir.rows[j].id = dir.rows[k].id => ~SameWay(dir.rows[j], dir.rows[k]))

(* No other profile in use is written like this one: those that are share  *)
(* what is kept, whichever of them it was found for.                       *)
Alone(profile) ==
  \A other \in Profiles \ {profile} :
    /\ Digits(other) # Digits(profile)
    /\ Decimals(other) # Decimals(profile)

(* What is kept never shows, unless robots of almost the same clearance    *)
(* and speed plan too: whatever was asked before, with whatever            *)
(* capabilities and by robots of whatever other profile, those that share  *)
(* theirs included, and however much was precomputed, a call is answered   *)
(* as by a planner that has kept nothing.                                  *)
AnswersFresh ==
  answer.call.kind # "none" /\ Alone(ProfileOf(answer.call)) =>
    \A done \in {Answered(answer.call, NoCaches)} :
      answer.result = Returned(answer.call, done.result)

(* All positions at once, whatever the search order: the reference for     *)
(* what the sparse graph of endpoints and transitions finds.               *)
LeastAcross(q) ==
  LET places == UNION {{m} \X dir.maps[m].free : m \in MapIds(dir)}
      Walks(p) == {[to |-> <<p[1], From(p[2], o)>>,
                    ticks |-> MovePrice(dir.maps[p[1]], q.profile, p[2], o)] :
                     o \in MovesFrom(dir.maps[p[1]], q.profile, p[2])}
      Rides(p) == {[to |-> t.to, ticks |-> TransitionTicks[t.type]] :
                     t \in {t \in Range(transitions) :
                              t.from = p /\ Capable(q, t) /\ Roomy(q, t)}}
      onward == Tabulated([p \in places |->
                Walks(p) \cup IF q.start[1] = q.goal[1] THEN {} ELSE Rides(p)])
      Round(ticks) ==
        Tabulated([p \in places |->
           Min({ticks[p]} \cup
               {ticks[from] + w.ticks : <<from, w>> \in
                  UNION {{f} \X {w \in onward[f] : w.to = p} : f \in places}})])
  IN FoldLeft(LAMBDA ticks, n : Round(ticks),
              [p \in places |-> IF p = q.start THEN 0 ELSE Unreached],
              [n \in 1..Cardinality(places) |-> n])

Legal(q, result) ==
  LET steps == result.steps
      Ticks(k) == steps[k].tick - steps[k - 1].tick
      Walked(k) ==
        /\ steps[k].at[1] = steps[k - 1].at[1]
        /\ \E o \in MovesFrom(dir.maps[steps[k].at[1]], q.profile, steps[k - 1].at[2]) :
             /\ From(steps[k - 1].at[2], o) = steps[k].at[2]
             /\ Ticks(k) = MovePrice(dir.maps[steps[k].at[1]], q.profile, steps[k - 1].at[2], o)
      Ridden(k) ==
        \E t \in Range(transitions) :
          /\ t.id = steps[k].by /\ t.from = steps[k - 1].at /\ t.to = steps[k].at
          /\ Capable(q, t) /\ Ticks(k) = TransitionTicks[t.type]
  IN /\ Head(steps) = [at |-> q.start, tick |-> 0, by |-> ""]
     /\ Last(steps).at = q.goal /\ Last(steps).tick = result.ticks
     /\ \A k \in 2..Len(steps) : IF steps[k].by = "" THEN Walked(k) ELSE Ridden(k)

(* A route runs from start to goal, every step a move or a transition that *)
(* the robot may use, at the ticks these take; none is quicker, and there  *)
(* is none when that is the answer.  A route within one map stays there.   *)
(* Start and goal have room: a transition may end at a goal without.  No   *)
(* other profile in use is written like the robot's.                       *)
RouteAnswer ==
  /\ answer.call.kind \in {"plan", "plan_exact"} /\ Alone(answer.call.query.profile)
  /\ \/ answer.call.kind = "plan_exact"
     \/ dir.factor = 1 \/ answer.call.query.start[1] # answer.call.query.goal[1]

RoutesBest ==
  LET q == answer.call.query
      result == answer.result
      Roomful(p) == HasRoom(dir.maps[p[1]], q.profile, p[2])
  IN RouteAnswer =>
       /\ result = Invalid <=> ~traversable(dir, q.start) \/ ~traversable(dir, q.goal)
       /\ result.ticks >= 0 => Legal(q, result)
       /\ result # Invalid /\ Roomful(q.start) /\ Roomful(q.goal) =>
            LET least == LeastAcross(q)[q.goal]
            IN IF result = NoPath THEN least >= Unreached ELSE result.ticks = least
=============================================================================
