---- MODULE Bodies ----
(***************************************************************************)
(* What a Body does: the operations of Body.cpp, with the RealVector       *)
(* arithmetic they use, on a line and on integers.                         *)
(*                                                                         *)
(* The simulator works in three dimensions with doubles.  The properties   *)
(* tell apart which bodies touch and which do not, and who pulls whom, so  *)
(* one dimension is enough, the unit of mass is such that G is 1, and a    *)
(* root or a quotient is its integer part.  Instead of the vector          *)
(* acceleration, which is a sum, a body keeps its summands, each with the  *)
(* body it comes from: the properties ask for the summands.                *)
(***************************************************************************)
EXTENDS Integers, Sequences, SequencesExt

\* Body::Body(): what a line of a universe file says, and no acceleration.
NewBody(line) == [mass |-> line.mass, radius |-> line.radius, position |-> line.position,
                  velocity |-> line.velocity, acceleration |-> << >>]

\* operator<<: the line that NewBody reads back, the sign of the mass included.
\* Six significant digits are written, which the numbers here do not exceed.
ToLine(body) == [mass |-> body.mass, radius |-> body.radius,
                 position |-> body.position, velocity |-> body.velocity]

\* A deactivated body keeps its mass, negative.
IsActive(body) == body.mass > 0
Deactivate(body) == [body EXCEPT !.mass = -@]

Distance(p, q) == IF p < q THEN q - p ELSE p - q

CheckCollision(body, other) ==
    Distance(body.position, other.position) < body.radius + other.radius

Cube(radius) == radius * radius * radius

\* The cube root of the sum of the cubes.
AddRadiuses(radius, other) ==
    Max({r \in 0 .. radius + other : Cube(r) <= Cube(radius) + Cube(other)})

\* Called when the mass is already the sum.  When three bodies collide a mass
\* may be negative here and the divisor 0: the code divides by zero, which makes
\* a velocity that no property is about; 0 stands for it.
MergeVelocities(mass, velocity, otherMass, otherVelocity) ==
    IF mass + otherMass = 0 THEN 0
    ELSE LET sum == velocity * otherMass + otherVelocity * otherMass
             total == mass + otherMass
         IN  IF total > 0 THEN sum \div total ELSE (-sum) \div (-total)

CanAbsorb(body, other) == body.mass >= other.mass

\* Body::absorb() where it returns true.
Absorb(body, other) ==
    LET mass == body.mass + other.mass
    IN  [body EXCEPT !.mass = mass,
                     !.radius = AddRadiuses(@, other.radius),
                     !.velocity = MergeVelocities(mass, @, other.mass, other.velocity)]

ResetAcceleration(body) == [body EXCEPT !.acceleration = << >>]

\* A pull is mass / distance^2, towards the other body.
Pull(position, other) ==
    LET distance == Distance(position, other.position)
        strength == other.mass \div (distance * distance)
    IN  IF position < other.position THEN strength ELSE -strength

\* A body at the same position does not pull.
UpdateAcceleration(body, other) ==
    IF body.position = other.position THEN body
    ELSE [body EXCEPT !.acceleration =
             Append(@, [from |-> other.from, pull |-> Pull(body.position, other)])]

UpdateVelocity(body, deltaTime) ==
    LET sum == FoldLeft(LAMBDA total, term : total + term.pull, 0, body.acceleration)
    IN  [body EXCEPT !.velocity = @ + sum * deltaTime]

UpdatePosition(body, deltaTime) == [body EXCEPT !.position = @ + body.velocity * deltaTime]

====
