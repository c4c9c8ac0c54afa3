---- MODULE MCCalculation ----
(***************************************************************************)
(* Calculation for TLC: one number after the other, and lists of them with *)
(* texts that are not numbers.                                             *)
(***************************************************************************)
EXTENDS Calculation

\* ?number=n, for every number around zero, and squares and primes up to 440.
One == {<<Slash, Letters, Equals, n>> :
           n \in -41 .. 64 \cup {121, 169, 289, 361, 385, 397, 419, 437, 439, 440}}

\* /n,n,n with empty and wrong texts, escaped commas and white space.
List == {<<Slash, Letters, Slash, 12, Comma, Letters, Comma, -11, EscapedComma, 1>>,
         <<Slash, Letters, Equals, Comma, -8, 7, Comma, Comma, Plus, -10, Comma, 9, Plus>>,
         <<Slash, Letters, Equals, 30, Comma, -9, Comma, 0, Comma, 30>>,
         <<Slash, Letters, Slash, Letters, Comma, Letters>>,
         <<Slash, Letters, Equals>>}

AllURIs == One \cup List
AllApps == {"fact", "goldbach"}

====
