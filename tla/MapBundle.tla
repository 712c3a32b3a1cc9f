------------------------------ MODULE MapBundle ------------------------------
(***************************************************************************)
(* How the maps of a directory become one bundle (MapBundleLoader::load):  *)
(* the relations place every map in the frame ROOT, and each transition    *)
(* point is a cell of both its maps.  A directory is [maps, listed,        *)
(* relations, rows]: the maps by name, whether there is a                  *)
(* map_relations.csv, its rows [from, to, d], and the rows [id, from, to,  *)
(* at, bidirectional, type] of transition_points.csv.  Places in ROOT are  *)
(* counted in cells, and maps are not turned.  A position is <<map, cell>>.*)
(***************************************************************************)
EXTENDS GridMap

Root == "ROOT"

MapIds(d) == DOMAIN d.maps

Plus(a, b) == <<a[1] + b[1], a[2] + b[2]>>
Minus(a, b) == <<a[1] - b[1], a[2] - b[2]>>

(* The relations as edges, each of them in both directions. *)
OneWay(d) ==   \* mutated: a relation leads only from its first map to its second
  {<<d.relations[k].from, d.relations[k].to, d.relations[k].d>> :
     k \in DOMAIN d.relations}

Edges(d) ==
  UNION {{<<r.from, r.to, r.d>>, <<r.to, r.from, Minus(<<0, 0>>, r.d)>>} :
           r \in Range(d.relations)}

(* One round over the edges of the first map of the queue. *)
FollowEdges(d, walk) ==
  LET current == Head(walk.queue)
      out == {e \in Edges(d) : e[1] = current}
      Candidate(e) == Plus(walk.offsets[current], e[3])
      new == {e[2] : e \in out} \ DOMAIN walk.offsets
      offsets == [m \in new |-> Candidate(CHOOSE e \in out : e[2] = m)] @@ walk.offsets
  IN [offsets |-> offsets,
      queue |-> Tail(walk.queue) \o SetToSeq(new),
      consistent |-> \A e \in out : offsets[e[2]] = Candidate(e)]

(* Breadth first from ROOT; a contradiction ends it. *)
PlaceMaps(d) ==
  LET Step(walk, n) ==
        IF walk.consistent /\ walk.queue # <<>> THEN FollowEdges(d, walk) ELSE walk
  IN FoldLeft(Step,
              [offsets |-> (Root :> <<0, 0>>), queue |-> <<Root>>, consistent |-> TRUE],
              [n \in 1..(Cardinality(MapIds(d)) + 1) |-> n])

RelationsHold(d) ==
  \/ ~d.listed /\ Cardinality(MapIds(d)) = 1
  \/ /\ d.listed
     /\ PlaceMaps(d).consistent
     /\ MapIds(d) \subseteq DOMAIN PlaceMaps(d).offsets

OffsetOf(d, m) ==
  IF ~d.listed THEN <<0, 0>> ELSE PlaceMaps(d).offsets[m]

(* The two ways of a row, if it is bidirectional. *)
Directed(d) ==
  LET Way(row, from, to) ==
        [id |-> row.id, type |-> row.type,
         from |-> <<from, Minus(row.at, OffsetOf(d, from))>>,
         to |-> <<to, Minus(row.at, OffsetOf(d, to))>>]
      Ways(row) == IF row.bidirectional
                   THEN <<Way(row, row.from, row.to), Way(row, row.to, row.from)>>
                   ELSE <<Way(row, row.from, row.to)>>
  IN FlattenSeq([k \in DOMAIN d.rows |-> Ways(d.rows[k])])

traversable(d, p) == p[1] \in MapIds(d) /\ is_traversable(d.maps[p[1]], p[2])

TransitionsHold(d) ==
  LET both == Directed(d)
      Name(t) == <<t.id, t.from[1], t.to[1]>>
  IN /\ \A t \in Range(both) : traversable(d, t.from) /\ traversable(d, t.to)
     /\ \A j, k \in DOMAIN both : j # k => Name(both[j]) # Name(both[k])

Accepted(d) == RelationsHold(d) /\ TransitionsHold(d)

(* The map a coarse search uses: a cell of it is factor x factor cells,    *)
(* free if all of them are, with the least clearance and the highest cost. *)
Coarsened(map, factor) ==
  LET Within(c) == {b \in GridCells(map) : <<b[1] \div factor, b[2] \div factor>> = c}
      coarse == [map EXCEPT !.width = (map.width + factor - 1) \div factor,
                            !.height = (map.height + factor - 1) \div factor,
                            !.resolution = @ * factor]
      free == {c \in GridCells(coarse) : Within(c) \subseteq map.free}
  IN [coarse EXCEPT
        !.free = free,
        !.clearance = Tabulated([c \in GridCells(coarse) |->
                        Min({map.clearance[b] : b \in Within(c)})]),
        !.cost = Tabulated([c \in GridCells(coarse) |->
                   IF c \in free THEN Max({map.cost[b] : b \in Within(c)}) ELSE 254])]
=============================================================================
