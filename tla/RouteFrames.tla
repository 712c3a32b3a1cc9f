---------------------------- MODULE RouteFrames ----------------------------
(***************************************************************************)
(* How a robot's planned route becomes the frames it is scheduled by       *)
(* (make_frames in multi_map_coordinator.cpp): one frame per tick of       *)
(* travel and service, then the shared regions, then the buffers around    *)
(* held resources, then a free frame to park on.                           *)
(*                                                                         *)
(* A request is [start, segments, stops]: a segment is the path to a stop  *)
(* (after the last stop, the path home) as steps [pos, tick, transition],  *)
(* a stop is [location, service].  Options are [regions, buffer]: regions  *)
(* as [id, cells, buffer], in the order of the configuration, and every    *)
(* buffer rounded up to ticks.                                             *)
(***************************************************************************)
EXTENDS RouteGeometry, SequencesExt

NoTransition == ""

FreeFrame(pos) == [pos |-> pos, res |-> NoResource]

(* The resource held while a move of several ticks is under way. *)
MoveResource(from, to) ==
  IF to.transition = NoTransition
    THEN EdgeResource(from.pos, to.pos)
    ELSE TransitionResource(to.transition)

Move(from, to) ==
  [k \in 1..(to.tick - from.tick - 1) |->
     [pos |-> from.pos, res |-> MoveResource(from, to)]]
  \o << FreeFrame(to.pos) >>

append_segment(frames, segment) ==
  frames \o FlattenSeq([k \in 1..(Len(segment) - 1) |->
                          Move(segment[k], segment[k + 1])])

Serve(frames, stop) ==
  frames \o [k \in 1..stop.service |-> FreeFrame(stop.location)]

ServeFirst(frames, request, k) ==   \* mutated: the service before the way
  IF k <= Len(request.stops)
    THEN append_segment(Serve(frames, request.stops[k]), request.segments[k])
    ELSE append_segment(frames, request.segments[k])

(* The k-th segment and the service at its end, if it has a stop. *)
Visit(frames, request, k) ==
  LET there == append_segment(frames, request.segments[k])
  IN IF k <= Len(request.stops) THEN Serve(there, request.stops[k]) ELSE there

Walk(request) ==
  FoldLeft(LAMBDA frames, k : Visit(frames, request, k),
           << FreeFrame(request.start) >>,
           [k \in 1..Len(request.segments) |-> k])

(* A cell of several regions counts for the first of them; frames midway   *)
(* along a move already hold its resource and keep it.                     *)
MarkRegions(frames, regions) ==
  [i \in DOMAIN frames |->
     LET first == SelectInSeq(regions, LAMBDA r : frames[i].pos \in r.cells)
     IN IF Holds(frames[i]) \/ first = 0
          THEN frames[i]
          ELSE [frames[i] EXCEPT !.res = RegionResource(regions[first].id)]]

(* Frame i's resource, to the free frames within n ticks of it.  The first *)
(* frame takes no buffer: the robot stands there already.                  *)
Overwriting(frames, i, n) ==   \* mutated: held frames are not spared
  [j \in DOMAIN frames |->
     IF j # 1 /\ j \in (i - n)..(i + n)
       THEN [frames[j] EXCEPT !.res = frames[i].res]
       ELSE frames[j]]

ShortSpread(frames, i, n) ==   \* mutated: offset < buffer
  [j \in DOMAIN frames |->
     IF j # 1 /\ j \in (i - n + 1)..(i + n - 1) /\ ~Holds(frames[j])
       THEN [frames[j] EXCEPT !.res = frames[i].res]
       ELSE frames[j]]

Spread(frames, i, n) ==
  [j \in DOMAIN frames |->
     IF j # 1 /\ j \in (i - n)..(i + n) /\ ~Holds(frames[j])
       THEN [frames[j] EXCEPT !.res = frames[i].res]
       ELSE frames[j]]

(* One pass along the route in place: a frame that has just been given a   *)
(* resource gives it on when the pass reaches it.                          *)
Buffer(frames, resources, n) ==
  FoldLeft(LAMBDA done, i : IF done[i].res \in resources THEN Spread(done, i, n) ELSE done,
           frames, [i \in DOMAIN frames |-> i])

BufferRegion(frames, region) ==
  Buffer(frames, {RegionResource(region.id)}, region.buffer)

BufferRegions(frames, regions) == FoldLeft(BufferRegion, frames, regions)

BufferResources(frames, options) ==
  IF options.buffer > 0
    THEN Buffer(frames, {f.res : f \in Range(frames)} \ {NoResource}, options.buffer)
    ELSE frames

Park(frames) ==
  IF Holds(Last(frames)) THEN Append(frames, FreeFrame(Last(frames).pos)) ELSE frames

make_frames(request, options) ==
  LET marked == MarkRegions(Walk(request), options.regions)
      buffered == BufferRegions(marked, options.regions)
  IN Park(BufferResources(buffered, options))
=============================================================================
