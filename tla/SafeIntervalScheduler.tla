----------------------- MODULE SafeIntervalScheduler -----------------------
(***************************************************************************)
(* schedule_safe_intervals (safe_interval_scheduler.cpp): the best-first   *)
(* search that finds when a robot is to be at each frame of its route.     *)
(*                                                                         *)
(* It searches (frame, safe interval) pairs: within an interval waiting is *)
(* safe, so only the earliest arrival in it is kept.  Frames midway along  *)
(* an edge or a transition are passed in one move that cannot pause.       *)
(* Frames and nodes are counted from 1; ticks from 0.                      *)
(***************************************************************************)
EXTENDS RouteReservations

VARIABLES job,       \* the reservations searched, and the limit on nodes
          best,      \* the earliest arrival known, per <<frame, interval>>
          nodes,     \* the arrivals found, in the order they were found
          open,      \* queue of <<estimated finish, -arrival, node>>
          expanded,  \* how many nodes were taken from the queue and used
          verdict,   \* "idle", "searching", "found" or "failed"
          schedule   \* when found: the frame of each tick

searchVars == <<job, best, nodes, open, expanded, verdict, schedule>>

LastFrame == Len(job.route)

Node(f, i, arrival, parent, departure) ==
  [frame |-> f, interval |-> i, arrival |-> arrival,
   parent |-> parent, departure |-> departure]

Entry(route, f, arrival, id) == <<arrival + Len(route) - f, -arrival, id>>

LatestFirst(a, b) ==   \* mutated: the estimate is left out of the key
  \/ a[2] < b[2]
  \/ a[2] = b[2] /\ a[3] < b[3]

Before(a, b) ==
  \/ a[1] < b[1]
  \/ a[1] = b[1] /\ a[2] < b[2]
  \/ a[1] = b[1] /\ a[2] = b[2] /\ a[3] < b[3]

(* The next frame the robot may stop at. *)
MoveEnd(route, f) ==
  Min({g \in (f + 1)..Len(route) : g = Len(route) \/ ~InTransit(route[g])})

(* The departures from f that meet another robot anywhere on the way to    *)
(* next: those of each frame between, shifted to when the move began.      *)
FirstLeg(reserved, f, next) ==   \* mutated: only where the move begins
  Merge({[begin |-> b.begin, end |-> AtMost(reserved.horizon - (next - f), b.end)] :
           b \in reserved.advance[f]})

MoveBlocked(reserved, f, next) ==
  LET Shifted(b, offset) ==
        [begin |-> AtLeast(0, b.begin - offset),
         end   |-> AtMost(reserved.horizon - (next - f), b.end - offset)]
  IN Merge(UNION {{Shifted(b, g - f) : b \in reserved.advance[g]} :
                    g \in f..(next - 1)})

(* The move from frame f; the code computes it when f is first expanded    *)
(* and keeps it.                                                           *)
MacroEdge(reserved, f) ==
  LET next == MoveEnd(reserved.route, f)
  IN [next |-> next, blocked |-> MoveBlocked(reserved, f, next)]

(* The robot starts at tick 0 or not at all.  Reads of the reservations    *)
(* are of the values they have for the whole search.                       *)
StartSearch(reserved, limit) ==
  LET starts == {i \in reserved.safe[1] : i.begin = 0}   \* one at most
  IN /\ job' = [route |-> reserved.route, tracks |-> reserved.tracks,
                horizon |-> reserved.horizon, limit |-> limit,
                safe |-> reserved.safe, advance |-> reserved.advance,
                edges |-> [f \in 1..(Len(reserved.route) - 1) |-> MacroEdge(reserved, f)]]
     /\ expanded' = 0
     /\ schedule' = <<>>
     /\ IF starts = {}
          THEN /\ verdict' = "failed"
               /\ best' = <<>> /\ nodes' = <<>> /\ open' = {}
          ELSE /\ verdict' = "searching"
               /\ open' = {Entry(reserved.route, 1, 0, 1)}
               /\ \E start \in starts :
                    /\ best' = [key \in {<<1, start>>} |-> 0]
                    /\ nodes' = << Node(1, start, 0, 1, 0) >>

Top == CHOOSE e \in open : \A o \in open : e = o \/ Before(e, o)
Current == nodes[Top[3]]

Searching == verdict = "searching" /\ open # {}

(* A better arrival in the interval was found after this one was queued. *)
Stale(node) == best[<<node.frame, node.interval>>] # node.arrival

LimitReached == job.limit # 0 /\ expanded >= job.limit

GiveUp ==
  /\ Searching
  /\ ~Stale(Current)
  /\ LimitReached
  /\ verdict' = "failed"
  /\ open' = open \ {Top}
  /\ UNCHANGED <<job, best, nodes, expanded, schedule>>

Taken == Searching /\ ~Stale(Current) /\ ~LimitReached

(* The robot stays at the end of its route: an interval of it that ends    *)
(* before the horizon is not enough.                                       *)
FreeForNow(node) == TRUE   \* mutated: a goal that is free for a while will do

CanPark(node) == node.interval.end = job.horizon

(* The two nodes the loop takes and does nothing more with: a stale one,   *)
(* before it is counted, and a goal that is not free for good, after.      *)
PassedOver(node) ==
  Stale(node) \/ (~LimitReached /\ node.frame = LastFrame /\ ~CanPark(node))

PassOver ==
  /\ Searching
  /\ PassedOver(Current)
  /\ open' = open \ {Top}
  /\ expanded' = IF Stale(Current) THEN expanded ELSE expanded + 1
  /\ UNCHANGED <<job, best, nodes, verdict, schedule>>

(* The node's part of a schedule: waiting at the last frame reached until  *)
(* its departure, then one tick per frame.                                 *)
Follow(frames, id) ==
  LET waits == AtLeast(0, nodes[id].departure - Len(frames) + 1)
      from == Last(frames)
  IN frames \o [k \in 1..waits |-> from]
            \o [k \in 1..(nodes[id].frame - from) |-> from + k]

(* The schedule up to a node: the parts of the nodes on the way to it from *)
(* the start, which is at frame 1.                                         *)
Timed[id \in 1..Len(nodes)] ==
  IF id = 1 THEN <<1>> ELSE Follow(Timed[nodes[id].parent], id)

ParkAtGoal ==
  /\ Taken
  /\ Current.frame = LastFrame
  /\ CanPark(Current)
  /\ schedule' = Timed[Top[3]]
  /\ verdict' = "found"
  /\ expanded' = expanded + 1
  /\ open' = open \ {Top}
  /\ UNCHANGED <<job, best, nodes>>
-----------------------------------------------------------------------------
(* The first departure from earliest on that is not blocked: blocked       *)
(* intervals neither overlap nor adjoin.                                   *)
OneTickOn(blocked, earliest) ==   \* mutated: <= for < in the lower bound
  LET hits == {b \in blocked : b.begin <= earliest /\ earliest <= b.end + 1}
  IN IF hits = {} THEN earliest ELSE (CHOOSE b \in hits : TRUE).end + 2

FirstClear(blocked, earliest) ==
  LET hits == {b \in blocked : b.begin <= earliest /\ earliest <= b.end}
  IN IF hits = {} THEN earliest ELSE (CHOOSE b \in hits : TRUE).end + 1

(* The departure from node for interval to of the next frame, the earliest *)
(* if it serves.                                                           *)
Departure(node, edge, to) ==
  FirstClear(edge.blocked, AtLeast(node.arrival, to.begin - (edge.next - node.frame)))

Serves(node, edge, to) ==
  Departure(node, edge, to) <= AtMost(node.interval.end, to.end - (edge.next - node.frame))

Offer(node, edge, to) ==
  LET departure == Departure(node, edge, to)
  IN Node(edge.next, to, departure + edge.next - node.frame, Top[3], departure)

Improves(node) ==
  LET key == <<node.frame, node.interval>>
  IN key \in DOMAIN best => best[key] > node.arrival

(* The order of the intervals of a frame. *)
Place(interval) == 2 * interval.begin + interval.copy

(* One arrival in every interval of the next frame that can be reached, in *)
(* the order of the intervals: no two are in the same interval, so each is *)
(* compared with what was known before.                                    *)
Expand ==
  /\ Taken
  /\ Current.frame < LastFrame
  /\ LET edge == job.edges[Current.frame]
         Arrive(to) == Offer(Current, edge, to)
         found == {to \in job.safe[edge.next] :
                     Serves(Current, edge, to) /\ Improves(Arrive(to))}
         order == InOrder({Place(to) : to \in found})
         added == [k \in DOMAIN order |-> Arrive(CHOOSE to \in found : Place(to) = order[k])]
     IN /\ best' = [key \in DOMAIN best \cup ({edge.next} \X found) |->
                      IF key \in {edge.next} \X found THEN Arrive(key[2]).arrival ELSE best[key]]
        /\ nodes' = nodes \o added
        /\ open' = (open \ {Top}) \cup
                   {Entry(job.route, edge.next, added[k].arrival, Len(nodes) + k) :
                      k \in DOMAIN added}
  /\ expanded' = expanded + 1
  /\ UNCHANGED <<job, verdict, schedule>>

Exhausted ==
  /\ verdict = "searching"
  /\ open = {}
  /\ verdict' = "failed"
  /\ UNCHANGED <<job, best, nodes, open, expanded, schedule>>

Search ==
  PassOver \/ GiveUp \/ ParkAtGoal \/ Expand \/ Exhausted
=============================================================================
