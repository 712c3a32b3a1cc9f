---------------------------- MODULE MCPathPlanner ----------------------------
(* The searches over one map; the planner's calls over two maps, and the   *)
(* frames of the routes it answers; and the frames of the routes of        *)
(* MCFrameBuilder.  A behaviour is of one of the three.  Where a route    *)
(* was answered, has a stop with service or bends, it is coordinated in    *)
(* any way and its checkpoints are derived.                                *)
EXTENDS CompactGridSearch, MultiMapPathPlanner

VARIABLES request, options, frames, segment, pass, timed, points

(* Only for the requests it holds. *)
Requested == INSTANCE MCFrameBuilder WITH Requests <- {}, Options <- {}

Framing == INSTANCE FrameBuilder WITH
  Requests <- Requested!MCRequests, Options <- Requested!MCOptions

Timing == INSTANCE NavigationCheckpoints

frameVars == <<request, options, frames, segment, pass>>
checkpointVars == <<timed, points>>

Map(width, height, blocked, narrow, dear) ==
  LET cells == (0..(width - 1)) \X (0..(height - 1))
  IN [width |-> width, height |-> height, resolution |-> 8,
      free |-> cells \ blocked,
      clearance |-> [c \in cells |-> IF c \in blocked THEN 0 ELSE IF c \in narrow THEN 10 ELSE 20],
      cost |-> [c \in cells |-> IF c \in blocked THEN 254 ELSE IF c \in dear THEN 252 ELSE 0]]

Robot(clearance, speed) == [clearance |-> clearance, speed |-> speed]

(* Small passes anywhere, Large only where it is wide; Quick is small.  A  *)
(* number keeps one digit and one place less, so that Just and Over are    *)
(* written alike, though only Just passes where it is narrow.              *)
Small == Robot(0, 8)
Large == Robot(15, 8)
Quick == Robot(0, 16)
Just == Robot(10, 8)
Over == Robot(11, 8)

Nearest(n, step) == step * ((n + step \div 2) \div step)
MCSignificant(n) == IF n < 10 THEN n ELSE Nearest(n, 10)
MCDecimal(n) == Nearest(n, 4)
-----------------------------------------------------------------------------
Square == (0..2) \X (0..2)

SmallMaps ==
  {Map(3, 3, blocked, {<<1, 1>>}, dear) :
     blocked \in {b \in SUBSET (Square \ {<<0, 0>>}) : Cardinality(b) <= 3},
     dear \in {{}, {<<1, 0>>, <<1, 1>>}}}

MCSearches ==
  {[kind |-> "path", map |-> m, profile |-> Small, start |-> <<0, 0>>, targets |-> {t}] :
     m \in {m \in SmallMaps : <<2, 1>> \in m.free}, t \in {<<2, 1>>}}
  \cup
  {[kind |-> "field", map |-> m, profile |-> Large, start |-> <<0, 0>>,
    targets |-> {<<2, 1>>, <<1, 2>>}] :
     m \in {m \in SmallMaps : {<<2, 1>>, <<1, 2>>} \subseteq m.free}}
  \cup
  {[kind |-> "field", map |-> m, profile |-> Small, start |-> <<0, 0>>,
    targets |-> {<<2, 2>>, <<0, 1>>}] :
     m \in {m \in SmallMaps : {<<2, 2>>, <<0, 1>>} \subseteq m.free /\ <<1, 2>> \notin m.free}}
-----------------------------------------------------------------------------
Ground == Map(4, 3, {<<1, 1>>}, {<<3, 0>>}, {<<2, 2>>})
Upper == Map(4, 2, {<<2, 0>>}, {}, {})

Rel(from, to, x, y) == [from |-> from, to |-> to, d |-> <<x, y>>]

Row(id, type, from, to, x, y, both) ==
  [id |-> id, type |-> type, from |-> from, to |-> to, at |-> <<x, y>>, bidirectional |-> both]

Relations == <<Rel(Root, "G", 0, 0), Rel("U", "G", -2, 0)>>

Rows == <<Row("t1", "stairs", "G", "U", 2, 1, TRUE),
          Row("t2", "door", "G", "U", 3, 0, TRUE)>>

Dir(name, relations, rows, factor) ==
  [name |-> name, maps |-> [G |-> Ground, U |-> Upper],
   listed |-> TRUE, relations |-> relations, rows |-> rows, factor |-> factor]

MCDirectories ==
  {Dir("fine", Relations, Rows, 1), Dir("coarse", Relations, Rows, 2),
   Dir("no relations", <<>>, <<>>, 1),
   [Dir("no file", <<>>, <<>>, 1) EXCEPT !.listed = FALSE],
   [Dir("alone", <<>>, <<>>, 1) EXCEPT !.maps = [G |-> Ground], !.listed = FALSE],
   [Dir("alone, listed", <<>>, <<>>, 1) EXCEPT !.maps = [G |-> Ground]],
   Dir("told twice", Append(Relations, Rel("U", Root, -2, 0)), Rows, 1),
   Dir("contradiction", Append(Relations, Rel(Root, "U", 1, 0)), Rows, 1),
   Dir("adrift", <<Rel("U", "G", -2, 0)>>, Rows, 1),
   Dir("same way back", Relations, Append(Rows, Row("t1", "door", "U", "G", 2, 1, FALSE)), 1),
   Dir("other way", Relations, Append(Rows, Row("t3", "door", "U", "G", 3, 0, FALSE)), 1),
   Dir("blocked below", Relations, <<Row("t3", "door", "G", "U", 1, 1, FALSE)>>, 1),
   Dir("off above", Relations, <<Row("t3", "door", "G", "U", 0, 0, FALSE)>>, 1)}

MCRequirements == [type \in {"stairs", "door"} |-> IF type = "stairs" THEN {"climb"} ELSE {}]
MCTransitionTicks == [type \in {"stairs", "door"} |-> IF type = "stairs" THEN 1 ELSE 4]

Query(from, to, capabilities, profile) ==
  [start |-> from, goal |-> to, capabilities |-> capabilities, profile |-> profile]

Entry0 == <<"G", <<0, 0>>>>
Exit == <<"U", <<1, 1>>>>
Corner == <<"G", <<3, 2>>>>
Blocked == <<"G", <<1, 1>>>>
Narrow == <<"G", <<3, 0>>>>

MCQueries ==
  {Query(Entry0, Exit, c, p) :
     c \in {{}, {"climb"}}, p \in {Small, Large}}
  \cup {Query(Entry0, Corner, {}, p) : p \in {Small, Large, Quick}}
  \cup {Query(Exit, Entry0, {"climb"}, Small),
        Query(Exit, Narrow, {"climb"}, Small),
        Query(Blocked, Exit, {}, Small)}
  \cup {Query(Entry0, Exit, {}, p) : p \in {Just, Over}}

MCCalls ==
  {[kind |-> kind, query |-> q] : kind \in {"plan", "plan_exact", "estimate"}, q \in MCQueries}
  \cup
  {[kind |-> "allocation", query |-> Query(Entry0, to, {"climb"}, Quick),
    reference |-> 8] : to \in {Exit, Corner}}
  \cup
  {[kind |-> "precompute", positions |-> {Entry0, Corner, Exit}, profile |-> p] :
     p \in {Small, Large}}
-----------------------------------------------------------------------------
SomeSearch == CHOOSE s \in Searches : s.kind = "path"

NoSearch ==
  /\ search = SomeSearch
  /\ g = <<>> /\ parent = <<>> /\ open = {} /\ closed = {} /\ remaining = {}
  /\ outcome = "searching"

NoAnswer == [call |-> [kind |-> "none"], result |-> NoPath]

NoPlanner ==
  /\ dir = Directory("alone")
  /\ state = "idle" /\ transitions = <<>> /\ map_paths = <<>> /\ caches = NoCaches /\ made = 0
  /\ answer = NoAnswer

NoFrames ==
  /\ request = [start |-> <<>>, segments |-> <<>>, stops |-> <<>>]
  /\ options = [regions |-> <<>>, buffer |-> 0]
  /\ frames = <<>> /\ segment = 1 /\ pass = "none"

(* What the mission planner makes of a route (build_path): the way to one  *)
(* stop with a service of one tick.                                        *)
Place(p) == [map |-> p[1], x |-> p[2][1], y |-> p[2][2]]

RouteRequest(steps) ==
  [start |-> Place(Head(steps).at),
   segments |-> <<[k \in DOMAIN steps |-> [pos |-> Place(steps[k].at), tick |-> steps[k].tick,
                                           transition |-> steps[k].by]]>>,
   stops |-> <<[location |-> Place(Last(steps).at), service |-> 1]>>]

Doorway == [id |-> "door", cells |-> {Place(<<"G", <<2, 1>>>>), Place(<<"U", <<1, 0>>>>)}, buffer |-> 1]

FrameRoute ==
  /\ pass = "none" /\ made = 1
  /\ answer.call.kind = "plan_exact" /\ answer.result.ticks >= 0
  /\ request' = RouteRequest(answer.result.steps)
  /\ options' \in {[regions |-> <<Doorway>>, buffer |-> n] : n \in 0..1}
  /\ frames' = <<[pos |-> request'.start, res |-> <<>>]>>
  /\ segment' = 1 /\ pass' = "walk"
  /\ answer' = NoAnswer   \* judged already, as it was given
  /\ UNCHANGED <<dir, state, transitions, map_paths, caches, made>>

(* Two turns together, and a third one step too far from them to be of one *)
(* bend; then a stop, and on from there at half the pace, home or not.  In *)
(* the middle there may be a region.                                       *)
Field(x, y) == [map |-> "field", x |-> x, y |-> y]
Steps(cells, d) ==
  [k \in DOMAIN cells |-> [pos |-> cells[k], tick |-> d * (k - 1), transition |-> ""]]

There == <<Field(0, 0), Field(1, 0)>> \o [k \in 1..10 |-> Field(k, 1)] \o <<Field(10, 2)>>
Onward == <<Field(10, 2), Field(10, 3), Field(9, 4), Field(9, 5)>>

Bending ==
  {[start |-> Field(0, 0), segments |-> <<Steps(There, 1), Steps(Onward, 2)>>,
    stops |-> <<[location |-> Field(10, 2), service |-> 1]>> \o onward] :
     onward \in {<<>>, <<[location |-> Field(9, 5), service |-> 2]>>}}

MidField == [id |-> "mid", cells |-> {Field(4, 1), Field(5, 1)}, buffer |-> 0]

BendInit ==
  /\ request \in Bending
  /\ options \in {[regions |-> rs, buffer |-> 0] : rs \in {<<>>, <<MidField>>}}
  /\ frames = <<[pos |-> request.start, res |-> <<>>]>>
  /\ segment = 1 /\ pass = "walk"

Coordinated ==
  /\ pass = "done"
  /\ \/ made = 1
     \/ request \in Bending
     \/ /\ request \in Requested!TwoLegs
        /\ Head(request.stops).service = 1 /\ options.buffer = 0

CheckpointStep ==
  \/ Coordinated /\ Timing!Coordinate(2)
  \/ Timing!Annotate

MCInit ==
  /\ \/ Init /\ NoSearch /\ NoFrames
     \/ searchInit /\ NoPlanner /\ NoFrames
     \/ (Framing!Init \/ BendInit) /\ NoSearch /\ NoPlanner
  /\ timed = <<>> /\ points = <<>>

MCNext ==
  \/ /\ state = "idle" /\ pass = "none" /\ SearchStep
     /\ UNCHANGED <<vars, frameVars, checkpointVars>>
  \/ pass = "none" /\ Next /\ UNCHANGED <<searchVars, frameVars, checkpointVars>>
  \/ FrameRoute /\ UNCHANGED <<searchVars, checkpointVars>>
  \/ Framing!Next /\ UNCHANGED <<vars, searchVars, checkpointVars>>
  \/ CheckpointStep /\ UNCHANGED <<vars, searchVars, segment, pass>>

MCSpec == MCInit /\ [][MCNext]_<<vars, searchVars, frameVars, checkpointVars>>

(* What is said of frames, by the module of make_frames, until they are    *)
(* scheduled, which leaves them as they are: the timetable of the paths is *)
(* kept,                                                                   *)
KeepsTimetable == timed = <<>> => Framing!KeepsTimetable

(* a move under way holds its edge or transition after every pass, and     *)
(* buffers reach as far as they are configured to.                         *)
ResourcesHeld == timed = <<>> => Framing!MovesStayHeld /\ Framing!BuffersReach

(* What is said of checkpoints, by their module: they agree with the       *)
(* schedule they are for.                                                  *)
CheckpointsTrue == Timing!CheckpointsTrue
=============================================================================
