-------------------------- MODULE CompactGridSearch --------------------------
(***************************************************************************)
(* The two searches over one map: A* to a goal (compact_grid_search) and   *)
(* the distances to several targets (compact_distance_field).  An entry of *)
(* the queue is never changed: a cheaper way to a cell is queued beside    *)
(* the dearer one, which is passed over when its turn comes, the cell      *)
(* being closed by then.                                                   *)
(*                                                                         *)
(* A search is [kind, map, profile, start, targets]: a path has one.       *)
(***************************************************************************)
EXTENDS GridMap

CONSTANT Searches

VARIABLES
  search,
  g,         \* the ticks of the best way known to each cell
  parent,    \* the cell before it, for a path
  open,      \* [cell, g, f] of every entry of the queue
  closed,
  remaining, \* the targets not closed yet
  outcome    \* "searching", "found", "failed" or "done"

searchVars == <<search, g, parent, open, closed, remaining, outcome>>

Entry(s, c, ticks) ==
  [cell |-> c, g |-> ticks,
   f |-> ticks + IF s.kind = "path"
                 THEN Heuristic(s.map, s.profile, CHOOSE t \in s.targets : TRUE, c) ELSE 0]

searchInit ==
  /\ search \in Searches
  /\ g = [c \in search.map.free |-> IF c = search.start THEN 0 ELSE Unreached]
  /\ parent = [c \in search.map.free |-> <<>>]
  /\ open = {Entry(search, search.start, 0)}
  /\ closed = {} /\ remaining = search.targets
  /\ outcome = "searching"

Looking == outcome = "searching" /\ open # {} /\ remaining # {}

IsTop(e) == \A o \in open : e.f < o.f \/ (e.f = o.f /\ e.g >= o.g)

PassOver(e) ==
  /\ e.cell \in closed
  /\ open' = open \ {e}
  /\ UNCHANGED <<search, g, parent, closed, remaining, outcome>>

Find(e) ==
  /\ e.cell \notin closed
  /\ search.kind = "path" /\ e.cell \in search.targets
  /\ open' = open \ {e} /\ closed' = closed \cup {e.cell}
  /\ outcome' = "found"
  /\ UNCHANGED <<search, g, parent, remaining>>

Candidate(e, o) == e.g + MovePrice(search.map, search.profile, e.cell, o)

FirstWay(e, o) == g[From(e.cell, o)] = Unreached   \* mutated: the first way stays

Improves(e, o) == Candidate(e, o) < g[From(e.cell, o)]

Expand(e) ==
  /\ e.cell \notin closed
  /\ ~(search.kind = "path" /\ e.cell \in search.targets)
  /\ closed' = closed \cup {e.cell}
  /\ remaining' = remaining \ {e.cell}
  /\ LET better == {o \in MovesFrom(search.map, search.profile, e.cell) :
                      From(e.cell, o) \notin closed' /\ Improves(e, o)}
         Move(c) == CHOOSE o \in better : From(e.cell, o) = c
         cells == {From(e.cell, o) : o \in better}
     IN /\ g' = [c \in DOMAIN g |-> IF c \in cells THEN Candidate(e, Move(c)) ELSE g[c]]
        /\ parent' = [c \in DOMAIN g |->
                        IF c \in cells /\ search.kind = "path" THEN e.cell ELSE parent[c]]
        /\ open' = (open \ {e}) \cup {Entry(search, c, g'[c]) : c \in cells}
  /\ UNCHANGED <<search, outcome>>

(* A path that is not found is an exception, a field has what it reached. *)
GiveUp ==
  /\ outcome = "searching" /\ (open = {} \/ remaining = {})
  /\ outcome' = IF search.kind = "path" THEN "failed" ELSE "done"
  /\ UNCHANGED <<search, g, parent, open, closed, remaining>>

SearchStep ==
  \/ Looking /\ \E e \in open : IsTop(e) /\ (PassOver(e) \/ Find(e) \/ Expand(e))
  \/ GiveUp
-----------------------------------------------------------------------------
(* From the goal back to the start. *)
Chain(goal) ==
  LET Back[n \in Nat] ==
        IF n = 0 THEN <<goal>>
        ELSE LET way == Back[n - 1]
             IN IF Head(way) = search.start THEN way ELSE <<parent[Head(way)]>> \o way
  IN Back[Cardinality(closed)]

(* What a search answers is the least there is: a path runs from start to  *)
(* goal by moves whose ticks add up to its cost, and no way is cheaper; a  *)
(* path that fails does not exist; a field gives every target just what a  *)
(* path to it would cost, so that estimates and routes agree.              *)
SearchAnswers ==
  outcome # "searching" =>
    LET least == LeastTicks(search.map, search.profile, search.start)
    IN /\ \A t \in search.targets : outcome # "failed" => g[t] = least[t]
       /\ outcome = "failed" => \A t \in search.targets : least[t] >= Unreached
       /\ outcome = "found" =>
            LET chain == Chain(CHOOSE t \in search.targets : TRUE)
            IN /\ Head(chain) = search.start
               /\ \A k \in 1..(Len(chain) - 1) :
                    \E o \in MovesFrom(search.map, search.profile, chain[k]) :
                      /\ From(chain[k], o) = chain[k + 1]
                      /\ g[chain[k + 1]] = g[chain[k]]
                           + MovePrice(search.map, search.profile, chain[k], o)
=============================================================================
