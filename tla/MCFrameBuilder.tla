---------------------------- MODULE MCFrameBuilder ---------------------------
(* Routes along a corridor of three cells and across a stair to a second   *)
(* map: every mix of fast and slow moves, service, and a way home or none. *)
EXTENDS FrameBuilder

Hall(x) == [map |-> "hall", x |-> x, y |-> 0]
Upper == [map |-> "upper", x |-> 0, y |-> 0]

Step(pos, tick) == [pos |-> pos, tick |-> tick, transition |-> NoTransition]
Stair(pos, tick) == [pos |-> pos, tick |-> tick, transition |-> "stair"]

(* Cells 0 to 2 with moves of a and b ticks, from clock reading c. *)
Out(a, b, c) == <<Step(Hall(0), c), Step(Hall(1), c + a), Step(Hall(2), c + a + b)>>
Back(a) == <<Step(Hall(2), 0), Step(Hall(1), a)>>
Climb(d) == <<Step(Hall(2), 0), Stair(Upper, d)>>
Stay == <<Step(Hall(2), 0)>>

OneStop ==
  {[start |-> Hall(0), segments |-> <<Out(a, b, c)>>,
    stops |-> <<[location |-> Hall(2), service |-> s]>>] :
     a \in 1..3, b \in 1..2, c \in {0, 4}, s \in 0..2}

TwoLegs ==
  {[start |-> Hall(0), segments |-> <<Out(a, b, 0), second>>,
    stops |-> <<[location |-> Hall(2), service |-> s]>> \o home] :
     a \in 1..3, b \in 1..2, s \in 0..1,
     second \in {Back(1), Back(2), Climb(1), Climb(3), Stay},
     home \in {<<>>, <<[location |-> Hall(2), service |-> 1]>>}}

MCRequests ==
  OneStop \cup {r \in TwoLegs :
                  Len(r.stops) = 2 => Last(r.segments[2]).pos = r.stops[2].location}

Region(id, cells, n) == [id |-> id, cells |-> cells, buffer |-> n]

MCOptions ==
  {[regions |-> rs, buffer |-> n] :
     n \in 0..2,
     rs \in {<<>>}
            \cup {<<Region("gate", {Hall(1)}, m)>> : m \in 0..1}
            \cup {<<Region("gate", {Hall(1)}, m), Region("end", {Hall(1), Hall(2)}, 1)>> :
                    m \in {0, 2}}}
=============================================================================
