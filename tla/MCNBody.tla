---- MODULE MCNBody ----
(***************************************************************************)
(* NBody for TLC: universes of three and four bodies.                      *)
(***************************************************************************)
EXTENDS NBody, TLC

Line(mass, position, velocity) ==
    [mass |-> mass, radius |-> 1, position |-> position, velocity |-> velocity]

\* At the origin, beside it, and far away on the way back to it.
Places == {<<0, 0>>, <<1, 0>>, <<9, -8>>}
SomeLines == {Line(m, p[1], p[2]) : m \in 1 .. 2, p \in Places}

\* Three bodies, and a fourth that is far from them.
ThreeBodies == {[count |-> 3, lines |-> l] : l \in [1 .. 3 -> SomeLines]}
FourBodies == {[count |-> 4, lines |-> Append(u.lines, Line(1, p, 0))] :
                  u \in ThreeBodies, p \in {16}}

\* Two of three bodies collide, and the third comes back to what they became: one
\* body is left.
Merging == {u \in ThreeBodies : {u.lines[i].position : i \in 1 .. 3} = {p[1] : p \in Places}}

\* Two collisions at once, in one process or across processes, of bodies that
\* grow.
BigBodies == {[count |-> 4, lines |-> [i \in 1 .. 4 |->
                  [mass |-> m[i], radius |-> 4, position |-> 8 * p[i], velocity |-> -p[i]]]] :
                  m \in {<<1, 2, 2, 1>>, <<2, 1, 1, 1>>},
                  p \in {<<0, 0, 4, 4>>, <<0, 4, 0, 4>>, <<0, 4, 4, 0>>}}

\* Fewer bodies than processes, lines that are missing (with and without a process
\* that is left without bodies), a line that is wrong.
Malformed == {[count |-> 1, lines |-> <<Line(1, 0, 0)>>],
              [count |-> 3, lines |-> <<Line(1, 0, 0), Line(1, 8, 0)>>],
              [count |-> 7, lines |-> [i \in 1 .. 6 |-> Line(1, 8 * i, 0)]],
              [count |-> 3, lines |-> <<Line(1, 0, 0), Line(1, 8, 0), BadLine>>],
              [count |-> 4, lines |-> <<Line(1, 0, 0), BadLine, Line(1, 8, 0), Line(1, 16, 0)>>]}

AllUniverses == FourBodies \cup Merging \cup BigBodies \cup Malformed

\* The universes are those of the theorems about collisions and accelerations.
ASSUME UniversesAreGood == GoodUniverses

====
