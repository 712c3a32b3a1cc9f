---------------------------- MODULE FrameBuilder ----------------------------
(***************************************************************************)
(* make_frames, one step per loop of it, so that what each loop may rely   *)
(* on and must leave alone can be said of the frames between them.         *)
(***************************************************************************)
EXTENDS RouteFrames

CONSTANTS Requests,   \* the planned routes
          Options     \* the traversal options

VARIABLES request,    \* the route being turned into frames
          options,
          frames,     \* the frames built so far
          segment,    \* the next segment to walk
          pass        \* the loop that runs next

vars == <<request, options, frames, segment, pass>>

Init ==
  /\ request \in Requests
  /\ options \in Options
  /\ frames = << FreeFrame(request.start) >>
  /\ segment = 1
  /\ pass = "walk"

WalkSegment ==
  /\ pass = "walk"
  /\ segment <= Len(request.segments)
  /\ frames' = Visit(frames, request, segment)
  /\ segment' = segment + 1
  /\ UNCHANGED <<request, options, pass>>

Arrived ==
  /\ pass = "walk"
  /\ segment > Len(request.segments)
  /\ pass' = "regions"
  /\ UNCHANGED <<request, options, frames, segment>>

Mark ==
  /\ pass = "regions"
  /\ frames' = MarkRegions(frames, options.regions)
  /\ pass' = "region_buffers"
  /\ UNCHANGED <<request, options, segment>>

BufferEachRegion ==
  /\ pass = "region_buffers"
  /\ frames' = BufferRegions(frames, options.regions)
  /\ pass' = "resource_buffer"
  /\ UNCHANGED <<request, options, segment>>

BufferEveryResource ==
  /\ pass = "resource_buffer"
  /\ frames' = BufferResources(frames, options)
  /\ pass' = "park"
  /\ UNCHANGED <<request, options, segment>>

AddParking ==
  /\ pass = "park"
  /\ frames' = Park(frames)
  /\ pass' = "done"
  /\ UNCHANGED <<request, options, segment>>

Next ==
  \/ WalkSegment \/ Arrived \/ Mark
  \/ BufferEachRegion \/ BufferEveryResource \/ AddParking

Spec == Init /\ [][Next]_vars
-----------------------------------------------------------------------------
(* The timetable the frames are to follow, from the request alone: which   *)
(* step of which segment the robot has taken by tick t.  A segment starts  *)
(* when the one before it and the service at its end are over.             *)
Duration(seg) == IF seg = <<>> THEN 0 ELSE Last(seg).tick - Head(seg).tick

Service(k) == IF k <= Len(request.stops) THEN request.stops[k].service ELSE 0

StartOf[k \in 1..(Len(request.segments) + 1)] ==
  IF k = 1 THEN 0
  ELSE StartOf[k - 1] + Duration(request.segments[k - 1]) + Service(k - 1)

(* All arrivals of the route, as [tick, pos]. *)
Arrivals ==
  {[tick |-> 0, pos |-> request.start]} \cup
  UNION {{[tick |-> StartOf[k] + step.tick - Head(request.segments[k]).tick,
           pos |-> step.pos] : step \in Range(request.segments[k])} :
           k \in 1..Len(request.segments)}

LastArrival(t) ==
  CHOOSE a \in Arrivals :
    a.tick <= t /\ \A b \in Arrivals : b.tick <= t => b.tick <= a.tick

RouteTicks == StartOf[Len(request.segments) + 1]

(* The moves of the route, each under way strictly between two ticks. *)
Moves ==
  UNION {LET seg == request.segments[k]
             At(s) == StartOf[k] + seg[s].tick - Head(seg).tick
         IN {[leave |-> At(s), arrive |-> At(s + 1),
              res |-> MoveResource(seg[s], seg[s + 1])] : s \in 1..(Len(seg) - 1)} :
         k \in 1..Len(request.segments)}

Midway(t) == \E m \in Moves : m.leave < t /\ t < m.arrive

(* The region that tick t of the route is to hold, if any. *)
RegionsAt(t) ==
  LET regions == options.regions
      first == SelectInSeq(regions, LAMBDA r : LastArrival(t).pos \in r.cells)
  IN IF Midway(t) \/ first = 0 THEN {} ELSE {regions[first]}
-----------------------------------------------------------------------------
(* The frames keep the timetable of the planned paths: at every tick the   *)
(* robot is where its paths and services have it, whatever was marked and  *)
(* buffered, and the last frame is one it may keep for ever.               *)
KeepsTimetable ==
  pass = "done" =>
    /\ Len(frames) \in {RouteTicks + 1, RouteTicks + 2}
    /\ \A i \in DOMAIN frames : frames[i].pos = LastArrival(i - 1).pos
    /\ ~Holds(Last(frames))

(* No pass takes from a move under way the edge or transition it holds:    *)
(* the scheduler tells by it that the robot cannot stop there.             *)
MovesStayHeld ==
  pass # "walk" =>
    \A m \in Moves : \A t \in (m.leave + 1)..(m.arrive - 1) :
      frames[t + 1].res = m.res

(* A held resource is held for its buffer before and after as well, so far *)
(* as the route lasts and but for the robot's first tick.                  *)
BuffersReach ==
  pass = "done" =>
    \A t \in 0..RouteTicks, u \in 1..RouteTicks :
      LET Within(n) == u \in (t - n)..(t + n)
          buffered == \/ Within(options.buffer) /\ (Midway(t) \/ RegionsAt(t) # {})
                      \/ \E r \in RegionsAt(t) : Within(r.buffer)
      IN buffered => Holds(frames[u + 1])

(* "A robot may wait at a cell, but not midway through an edge or          *)
(* transition" (multi_map_coordinator.cpp:359): a frame on which the robot *)
(* stands at a cell of its path is not one the scheduler has it pass       *)
(* without stopping.                                                       *)
WaitsAtCells ==
  pass = "done" =>
    \A t \in 0..RouteTicks : ~Midway(t) => ~InTransit(frames[t + 1])
=============================================================================
