---- MODULE Calculators ----
(***************************************************************************)
(* The algorithms that a Calculator thread runs for one number: Prime,     *)
(* PrimeFactCalculator and GoldbachCalculator.  Each fills a vector of     *)
(* numbers, in the order in which the page shows them.                     *)
(*                                                                         *)
(* Prime::isPrime() squares an int while its argument has 64 bits: Square  *)
(* keeps that width, as gcc wraps it.  The other arithmetic is on 64 bits, *)
(* far from its ends.  The loops are recursive functions.                  *)
(***************************************************************************)
EXTENDS Integers, Sequences, SequencesExt

CONSTANT IntLimit  \* the first number that is too large for an int

ASSUME CalculatorsAssumption == IntLimit \in Nat /\ IntLimit > 9

Square(factor) == ((factor * factor + IntLimit) % (2 * IntLimit)) - IntLimit

(* Faulty variant: the square of a prime passes for a prime.               *)
IsPrimeButSquares(number) ==
    LET noFactor[factor \in Nat] ==
            IF Square(factor) >= number THEN TRUE
            ELSE number % factor # 0 /\ noFactor[factor + 2]
    IN  number > 1 /\ (number = 2 \/ (number % 2 # 0 /\ noFactor[3]))

IsPrime(number) ==
    LET noFactor[factor \in Nat] ==
            IF Square(factor) > number THEN TRUE
            ELSE number % factor # 0 /\ noFactor[factor + 2]
    IN  number > 1 /\ (number = 2 \/ (number % 2 # 0 /\ noFactor[3]))

---------------------------------------------------------------------------
(* Prime factorization: <<prime, exponent, prime, exponent, ...>> *)

\* How often factor divides number, and what is left.
DivideWhileDivisible(number, factor) ==
    LET divide[n \in 1 .. number] ==
            IF n % factor # 0 THEN <<0, n>>
            ELSE LET rest == divide[n \div factor] IN <<rest[1] + 1, rest[2]>>
    IN  divide[number]

\* From the factor 3 on; what is left above 1 is a prime.
OddFactors(number) ==
    LET from[factor \in 3 .. number + 2] ==
            [n \in 1 .. number |->
                IF factor * factor > n
                THEN IF n > 1 THEN <<n, 1>> ELSE << >>
                ELSE IF n % factor # 0 \/ ~IsPrime(factor)
                THEN from[factor + 2][n]
                ELSE LET divided == DivideWhileDivisible(n, factor)
                     IN  <<factor, divided[1]>> \o from[factor + 2][divided[2]]]
    IN  from[3][number]

PrimeFactors(number) ==
    IF number <= 1 THEN << >>
    ELSE IF number % 2 # 0 THEN OddFactors(number)
    ELSE LET divided == DivideWhileDivisible(number, 2)
         IN  <<2, divided[1]>> \o OddFactors(divided[2])

---------------------------------------------------------------------------
(* Goldbach sums: the operands of all sums, one sum after the other *)

Abs(number) == IF number < 0 THEN -number ELSE number
Operands(number) == IF Abs(number) % 2 = 0 THEN 2 ELSE 3

\* What a loop from first to last puts at the end of a list, parts[i] in round i.
Collected(first, last, parts) ==
    IF last < first THEN << >>
    ELSE FlattenSeq([k \in 1 .. last - first + 1 |-> parts[first + k - 1]])

StrongGoldbach(number) ==
    LET last == number \div 2
    IN  Collected(2, last,
            [i \in 2 .. last |->
                IF IsPrime(i) /\ IsPrime(number - i) THEN <<i, number - i>> ELSE << >>])

\* The sums of a number whose first operand is i.
WeakGoldbachFrom(number, i) ==
    LET last == (number - i) \div 2
        third(j) == number - i - j
    IN  Collected(i, last,
            [j \in i .. last |->
                IF IsPrime(j) /\ third(j) >= j /\ IsPrime(third(j))
                THEN <<i, j, third(j)>> ELSE << >>])

WeakGoldbach(number) ==
    LET last == number \div 3
    IN  Collected(2, last,
            [i \in 2 .. last |-> IF IsPrime(i) THEN WeakGoldbachFrom(number, i) ELSE << >>])

GoldbachSums(number) ==
    IF Abs(number) % 2 = 0 THEN StrongGoldbach(Abs(number)) ELSE WeakGoldbach(Abs(number))

\* GoldbachData: of a number that is not negative only the sums are counted.
GoldbachResult(number) ==
    LET sums == GoldbachSums(number)
    IN  IF number >= 0 THEN <<Len(sums) \div Operands(number)>> ELSE sums

---------------------------------------------------------------------------
(* What the algorithms are for, without their loops *)

TruePrime(n) == n > 1 /\ \A d \in 2 .. n - 1 : n % d # 0

\* Up to the limit, no factor that isPrime() tries has a square that an int cannot hold.
SafeFactors == {f \in 3 .. IntLimit : f * f < IntLimit /\ f % 2 = 1}
SafeLimit == LET largest == CHOOSE f \in SafeFactors : \A g \in SafeFactors : g <= f
             IN  largest * largest - 1

Product(numbers) == FoldLeft(LAMBDA product, number : product * number, 1, numbers)
Power(base, exponent) == Product([k \in 1 .. exponent |-> base])

\* Is list the factorization of number?
IsFactorization(list, number) ==
    LET primes == [k \in 1 .. Len(list) \div 2 |-> list[2 * k - 1]]
        exponents == [k \in 1 .. Len(list) \div 2 |-> list[2 * k]]
    IN  /\ Len(list) % 2 = 0
        /\ \A k \in DOMAIN primes : TruePrime(primes[k]) /\ exponents[k] > 0
        /\ \A k \in 2 .. Len(primes) : primes[k - 1] < primes[k]
        /\ number = Product([k \in DOMAIN primes |-> Power(primes[k], exponents[k])])

\* The sums of a number in two or three primes, from the smallest to the largest.
TrueSums(number) ==
    LET n == Abs(number)
        primes == {p \in 2 .. n : TruePrime(p)}
    IN  IF n % 2 = 0 THEN {s \in primes \X primes : s[1] <= s[2] /\ s[1] + s[2] = n}
        ELSE {s \in {<<p, q, n - p - q>> : p \in primes, q \in primes} :
                 s[1] <= s[2] /\ s[2] <= s[3] /\ TruePrime(s[3])}

\* The operands of the sums, grouped again.
Grouped(list, operands) ==
    [k \in 1 .. Len(list) \div operands |->
        SubSeq(list, operands * (k - 1) + 1, operands * k)]

====
