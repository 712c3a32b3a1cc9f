------------------------------ MODULE CoreGrid ------------------------------
(***************************************************************************)
(* The grid of the core library (GridMap): [width, height, obstacles], and *)
(* its cells [x, y].                                                       *)
(***************************************************************************)
EXTENDS Integers, SequencesExt

traversable(grid, c) ==
  c.x \in 0..(grid.width - 1) /\ c.y \in 0..(grid.height - 1) /\ c \notin grid.obstacles

getNeighbors(grid, c) ==
  {n \in {[x |-> c.x + 1, y |-> c.y], [x |-> c.x - 1, y |-> c.y],
          [x |-> c.x, y |-> c.y + 1], [x |-> c.x, y |-> c.y - 1]} : traversable(grid, n)}

(* The cells n or fewer moves from start, without any search order. *)
CellsWithin(grid, start, n) ==
  FoldLeft(LAMBDA cells, k : cells \cup UNION {getNeighbors(grid, c) : c \in cells},
           {start}, [k \in 1..n |-> k])

Everywhere(grid, start) == CellsWithin(grid, start, grid.width * grid.height)
=============================================================================
