------------------------------- MODULE GridMap -------------------------------
(***************************************************************************)
(* One map as the path planner sees it (MapLayer) and the moves over it.   *)
(* A map is [width, height, resolution, free, clearance, cost]: the cells  *)
(* <<x, y>> that are traversable and, for every cell of it, the distance   *)
(* to the next obstacle and the cost of being near it (at most 253).  A    *)
(* profile is [clearance, speed]: the room a robot needs and the cells it  *)
(* passes in a tick at resolution 1.                                       *)
(***************************************************************************)
EXTENDS Integers, FiniteSetsExt, SequencesExt

CONSTANTS AllowDiagonal, ObstacleWeight

GridCells(map) == (0..(map.width - 1)) \X (0..(map.height - 1))

is_traversable(map, c) == c \in map.free

HasRoom(map, profile, c) == map.clearance[c] >= profile.clearance

Offsets == ((-1..1) \X (-1..1)) \ {<<0, 0>>}

IsDiagonal(o) == o[1] # 0 /\ o[2] # 0

From(c, o) == <<c[1] + o[1], c[2] + o[2]>>

seconds_to_ticks(distance, speed) == Max({1, (distance + speed - 1) \div speed})

MoveTicks(map, profile) == seconds_to_ticks(map.resolution, profile.speed)

DiagonalTicks(map, profile) ==
  seconds_to_ticks(1414 * map.resolution, 1000 * profile.speed)

(* The moves from c: a diagonal one needs both cells it passes between.    *)
MovesFrom(map, profile, c) ==
  {o \in Offsets :
     /\ is_traversable(map, From(c, o)) /\ HasRoom(map, profile, From(c, o))
     /\ IsDiagonal(o) =>
          /\ AllowDiagonal
          /\ is_traversable(map, <<c[1] + o[1], c[2]>>)
          /\ is_traversable(map, <<c[1], c[2] + o[2]>>)}

(* The ticks of move o from c, more of them near obstacles. *)
MovePrice(map, profile, c, o) ==
  LET base == IF IsDiagonal(o) THEN DiagonalTicks(map, profile) ELSE MoveTicks(map, profile)
      penalty == (2 * ObstacleWeight * base * map.cost[From(c, o)] + 252) \div 504
  IN Max({1, base + penalty})

Distance(n) == IF n < 0 THEN -n ELSE n

Heuristic(map, profile, goal, c) ==
  LET dx == Distance(c[1] - goal[1])
      dy == Distance(c[2] - goal[2])
  IN   Min({dx, dy}) * DiagonalTicks(map, profile)
     + (Max({dx, dy}) - Min({dx, dy})) * MoveTicks(map, profile)
-----------------------------------------------------------------------------
(* What the searches are measured by: the least ticks from start to every  *)
(* cell, by as many rounds over all moves as there are cells.              *)
Unreached == 100000

(* f itself; in this form TLC works out its values once. *)
Tabulated(f) == f @@ <<>>

LeastTicks(map, profile, start) ==
  LET Round(ticks, n) ==
        Tabulated([c \in map.free |->
           Min({ticks[c]} \cup
               {ticks[From(c, o)] + MovePrice(map, profile, From(c, o), <<-o[1], -o[2]>>) :
                  o \in {o \in Offsets : /\ From(c, o) \in map.free
                                         /\ <<-o[1], -o[2]>> \in
                                              MovesFrom(map, profile, From(c, o))}})])
  IN FoldLeft(LAMBDA ticks, n : Round(ticks, n),
              [c \in map.free |-> IF c = start THEN 0 ELSE Unreached],
              [n \in 1..Cardinality(map.free) |-> n])
=============================================================================
