---- MODULE CalculationProofs ----
(***************************************************************************)
(* What holds of a request for calculations, for any URI and any numbers:  *)
(* its data have a result for each number asked, of the number and in its  *)
(* place, whether it was computed here or went to a worker and back as     *)
(* text; and the page has an entry for each text of the URI, the answer to *)
(* that text.  The answer is right because the algorithms are, for every   *)
(* number up to the limit from which the square of an int overflows.       *)
(***************************************************************************)
EXTENDS Calculation, TLAPS, WellFoundedInduction, FiniteSetTheorems, SequenceTheorems

---------------------------------------------------------------------------
(* Folds *)

(* A set of natural numbers that has none unless it has a smaller one has  *)
(* none.                                                                   *)
LEMMA NoLeast ==
    ASSUME NEW T, T \subseteq Nat, \A k \in T : \E j \in T : j < k
    PROVE  T = {}
<1> DEFINE Intervals == {1 .. k : k \in T}
           R == StrictSubsetOrdering(Nat)
           F == FiniteSubsetsOf(Nat)
<1>1. SUFFICES ASSUME T # {} PROVE FALSE
    OBVIOUS
<1>2. IsWellFoundedOn(R, F)
    BY FS_StrictSubsetOrderingWellFounded
<1>3. Intervals \subseteq F /\ Intervals # {}
  <2>1. \A k \in T : IsFiniteSet(1 .. k) /\ 1 .. k \subseteq Nat
      BY FS_Interval
  <2> QED
      BY <1>1, <2>1 DEF FiniteSubsetsOf
<1>4. PICK x \in Intervals : \A y \in Intervals : <<y, x>> \notin R
  <2> HIDE DEF R, F, Intervals
  <2> QED
    BY <1>2, <1>3, WFMin
<1>5. PICK k \in T : x = 1 .. k
    OBVIOUS
<1>6. PICK j \in T : j < k
    OBVIOUS
<1>7. 1 .. j \subseteq 1 .. k /\ k \in 1 .. k /\ k \notin 1 .. j
    BY <1>6
<1>8. <<1 .. j, 1 .. k>> \in R
  <2>1. 1 .. j \subseteq Nat /\ 1 .. k \subseteq Nat
    <3> HIDE DEF Intervals, R, F
    <3>1. \A i : i \in 1 .. j \/ i \in 1 .. k => i \in Nat
        OBVIOUS
    <3> QED
      BY <3>1
  <2>2. \A a, b : k \in b /\ k \notin a => a # b
      OBVIOUS
  <2> QED
      BY <1>7, <2>1, <2>2 DEF StrictSubsetOrdering
<1> QED
    BY <1>4, <1>5, <1>8

(* What holds of 0, and of each number when it holds of the one before, is *)
(* so up to n.                                                             *)
LEMMA UpTo ==
    ASSUME NEW n \in Nat, NEW T, 0 \in T, \A k \in 1 .. n : k - 1 \in T => k \in T
    PROVE  \A k \in 0 .. n : k \in T
<1> DEFINE Bad == {k \in 0 .. n : k \notin T}
<1>1. ASSUME NEW k \in Bad
      PROVE  \E j \in Bad : j < k
  <2>1. k \in 1 .. n
      BY <1>1
  <2>2. k - 1 \in Bad
      BY <2>1
  <2> QED
    BY <2>1, <2>2
<1>2. Bad = {}
  <2>1. Bad \subseteq Nat
      OBVIOUS
  <2> HIDE DEF Bad
  <2> QED
    BY <1>1, <2>1, NoLeast
<1> QED
    BY <1>2

(* The folds of a calculation: the parts of a text at a delimiter, those   *)
(* that are not empty, the numbers among them, the text of a result, and a *)
(* product.                                                                *)
Applied(op, par, w, x) ==
    CASE op = "split" -> IF x = par THEN Append(w, << >>) ELSE [w EXCEPT ![Len(w)] = Append(@, x)]
      [] op = "trim" -> IF x = << >> THEN w ELSE Append(w, x)
      [] op = "parse" -> IF IsNumber(x) THEN Append(w, ToNumber(x)) ELSE w
      [] op = "write" -> w \o <<x, Comma>>
      [] op = "product" -> w * x

(* What a fold of the community modules is on the first indexes of a       *)
(* sequence: a function on sets of indexes, each from the set without its  *)
(* greatest.                                                               *)
FoldStep(op, par, base, seq, g, s) ==
    IF s = {} THEN base ELSE LET x == Max(s) IN Applied(op, par, g[s \ {x}], seq[x])

IsFold(op, par, base, seq, n, g) ==
    g = [s \in SUBSET (1 .. n) |-> FoldStep(op, par, base, seq, g, s)]

(* There is such a function, for a sequence of any length.                 *)
LEMMA FoldExists ==
    ASSUME NEW op, NEW par, NEW base, NEW seq, NEW n \in Nat
    PROVE  \E g : IsFold(op, par, base, seq, n, g)
<1> DEFINE Bad == {k \in Nat : ~\E g : IsFold(op, par, base, seq, k, g)}
<1>1. ASSUME NEW k \in Bad
      PROVE  \E j \in Bad : j < k
  <2>1. CASE k = 0
    <3> DEFINE g == [s \in SUBSET (1 .. k) |-> base]
    <3>1. \A s \in SUBSET (1 .. k) : FoldStep(op, par, base, seq, g, s) = base
        BY <2>1 DEF FoldStep
    <3>2. IsFold(op, par, base, seq, k, g)
        BY <3>1 DEF IsFold
    <3> QED
        BY <3>2
  <2>2. CASE k # 0 /\ k - 1 \notin Bad
    <3>1. PICK h : IsFold(op, par, base, seq, k - 1, h)
        BY <2>2
    <3> DEFINE g == [s \in SUBSET (1 .. k) |->
                        IF k \in s THEN Applied(op, par, h[s \ {k}], seq[k]) ELSE h[s]]
    <3>2. ASSUME NEW s \in SUBSET (1 .. k)
          PROVE  g[s] = FoldStep(op, par, base, seq, g, s)
      <4>1. CASE k \in s
        <5>1. Max(s) = k
          <6>1. \A x \in s : k >= x
              OBVIOUS
          <6>2. \A x \in s : (\A y \in s : x >= y) => x = k
              BY <4>1, <6>1
          <6> QED
              BY <4>1, <6>1, <6>2 DEF Max
        <5>2. s \ {k} \in SUBSET (1 .. k - 1) /\ s \ {k} \in SUBSET (1 .. k)
            BY <2>2
        <5>3. g[s \ {k}] = h[s \ {k}]
            BY <5>2
        <5> QED
            BY <4>1, <5>1, <5>3 DEF FoldStep
      <4>2. CASE k \notin s
        <5>1. s \in SUBSET (1 .. k - 1)
            BY <2>2, <4>2
        <5>2. g[s] = h[s] /\ h[s] = FoldStep(op, par, base, seq, h, s)
            BY <3>1, <4>2, <5>1 DEF IsFold
        <5>3. g[s \ {Max(s)}] = h[s \ {Max(s)}]
            BY <4>2, <5>1
        <5> QED
            BY <5>2, <5>3 DEF FoldStep
      <4> QED
        BY <4>1, <4>2
    <3>3. IsFold(op, par, base, seq, k, g)
        BY <3>2 DEF IsFold
    <3> QED
        BY <3>3
  <2> QED
    BY <2>1, <2>2
<1>2. Bad = {}
  <2>1. Bad \subseteq Nat
      OBVIOUS
  <2> HIDE DEF Bad
  <2> QED
    BY <1>1, <2>1, NoLeast
<1> QED
    BY <1>2

(* A fold, one element after the other.                                    *)
Walk(op, par, base, seq, n, w) ==
    w[0] = base /\ \A k \in 1 .. n : w[k] = Applied(op, par, w[k - 1], seq[k])

(* A fold is the last of its steps.                                        *)
LEMMA FoldWalks ==
    ASSUME NEW op, NEW par, NEW base, NEW seq, NEW n \in Nat, NEW g,
           IsFold(op, par, base, seq, n, g)
    PROVE  Walk(op, par, base, seq, n, [k \in 0 .. n |-> g[1 .. k]])
<1> DEFINE w == [k \in 0 .. n |-> g[1 .. k]]
<1>1. w[0] = base
  <2>1. 1 .. 0 = {} /\ {} \in SUBSET (1 .. n)
      OBVIOUS
  <2>2. g[{}] = FoldStep(op, par, base, seq, g, {})
      BY <2>1 DEF IsFold
  <2> QED
    BY <2>1, <2>2 DEF FoldStep
<1>2. ASSUME NEW k \in 1 .. n
      PROVE  w[k] = Applied(op, par, w[k - 1], seq[k])
  <2>1. 1 .. k \in SUBSET (1 .. n) /\ k \in Nat /\ k # 0 /\ k - 1 \in 0 .. n
      OBVIOUS
  <2>2. g[1 .. k] = FoldStep(op, par, base, seq, g, 1 .. k)
      BY <2>1 DEF IsFold
  <2>4. Max(1 .. k) = k
    <3>1. k \in 1 .. k /\ \A x \in 1 .. k : k >= x
        BY <2>1
    <3>2. ASSUME NEW x \in 1 .. k, \A y \in 1 .. k : x >= y
          PROVE  x = k
      <4>1. x >= k
          BY <3>1, <3>2
      <4> QED
          BY <2>1, <4>1
    <3> QED
        BY <3>1, <3>2 DEF Max
  <2>5. (1 .. k) \ {k} = 1 .. k - 1 /\ 1 .. k # {}
    <3>1. \A m \in Nat : \A x : x \in 1 .. m /\ x # m <=> x \in 1 .. m - 1
        OBVIOUS
    <3>2. k \in 1 .. k /\ \A x : x \in (1 .. k) \ {k} <=> x \in 1 .. k - 1
        BY <2>1, <3>1
    <3> QED
        BY <3>1, <3>2
  <2>6. g[1 .. k] = Applied(op, par, g[1 .. k - 1], seq[k])
      BY <2>2, <2>4, <2>5 DEF FoldStep
  <2> QED
    BY <2>1, <2>6
<1> QED
    BY <1>1, <1>2 DEF Walk

(* The parts of a text, empty ones too.                                    *)
Parts(par, text) ==
    FoldLeft(LAMBDA done, c : IF c = par THEN Append(done, << >>)
                              ELSE [done EXCEPT ![Len(done)] = Append(@, c)],
             << << >> >>, text)

(* The parts, character by character.                                      *)
LEMMA PartsWalk ==
    ASSUME NEW n \in Nat, NEW seq, DOMAIN seq = 1 .. n, NEW par
    PROVE  \E w : Walk("split", par, << << >> >>, seq, n, w) /\ Parts(par, seq) = w[n]
<1> DEFINE Step(g, s) == IF s = {} THEN << << >> >>
                         ELSE LET x == Max(s)
                              IN  IF seq[x] = par THEN Append(g[s \ {x}], << >>)
                                     ELSE [g[s \ {x}] EXCEPT ![Len(g[s \ {x}])] = Append(@, seq[x])]
           P(g) == g = [s \in SUBSET (1 .. n) |-> Step(g, s)]
           h == CHOOSE g : P(g)
<1>1. Parts(par, seq) = h[1 .. n]
    BY DEF Parts, FoldLeft, MapThenFoldSet
<1>2. \A g, s : FoldStep("split", par, << << >> >>, seq, g, s) = Step(g, s)
    BY DEF FoldStep, Applied
<1> HIDE DEF Step
<1>3. \A g : P(g) <=> IsFold("split", par, << << >> >>, seq, n, g)
    BY <1>2 DEF IsFold
<1>4. IsFold("split", par, << << >> >>, seq, n, h)
  <2>1. PICK g : IsFold("split", par, << << >> >>, seq, n, g)
      BY FoldExists
  <2>2. \E a : P(a)
      BY <1>3, <2>1
  <2> HIDE DEF P
  <2> QED
    BY <1>3, <2>2
<1> HIDE DEF P, h
<1>5. Walk("split", par, << << >> >>, seq, n, [k \in 0 .. n |-> h[1 .. k]])
    BY <1>4, FoldWalks
<1> QED
    BY <1>1, <1>5

(* The parts that are not empty.                                           *)
Trimmed(parts) ==
    FoldLeft(LAMBDA kept, part : IF part = << >> THEN kept ELSE Append(kept, part),
             << >>, parts)

(* The same, part by part.                                                 *)
LEMMA TrimmedWalk ==
    ASSUME NEW n \in Nat, NEW seq, DOMAIN seq = 1 .. n
    PROVE  \E w : Walk("trim", 0, << >>, seq, n, w) /\ Trimmed(seq) = w[n]
<1> DEFINE Step(g, s) == IF s = {} THEN << >>
                         ELSE LET x == Max(s)
                              IN  IF seq[x] = << >> THEN g[s \ {x}] ELSE Append(g[s \ {x}], seq[x])
           P(g) == g = [s \in SUBSET (1 .. n) |-> Step(g, s)]
           h == CHOOSE g : P(g)
<1>1. Trimmed(seq) = h[1 .. n]
    BY DEF Trimmed, FoldLeft, MapThenFoldSet
<1>2. \A g, s : FoldStep("trim", 0, << >>, seq, g, s) = Step(g, s)
    BY DEF FoldStep, Applied
<1> HIDE DEF Step
<1>3. \A g : P(g) <=> IsFold("trim", 0, << >>, seq, n, g)
    BY <1>2 DEF IsFold
<1>4. IsFold("trim", 0, << >>, seq, n, h)
  <2>1. PICK g : IsFold("trim", 0, << >>, seq, n, g)
      BY FoldExists
  <2>2. \E a : P(a)
      BY <1>3, <2>1
  <2> HIDE DEF P
  <2> QED
    BY <1>3, <2>2
<1> HIDE DEF P, h
<1>5. Walk("trim", 0, << >>, seq, n, [k \in 0 .. n |-> h[1 .. k]])
    BY <1>4, FoldWalks
<1> QED
    BY <1>1, <1>5

(* The numbers of a list of texts.                                         *)
Numbers(parts) ==
    FoldLeft(LAMBDA numbers, part : IF IsNumber(part) THEN Append(numbers, ToNumber(part))
                                    ELSE numbers,
             << >>, parts)

(* The numbers, text by text.                                              *)
LEMMA NumbersWalk ==
    ASSUME NEW n \in Nat, NEW seq, DOMAIN seq = 1 .. n
    PROVE  \E w : Walk("parse", 0, << >>, seq, n, w) /\ Numbers(seq) = w[n]
<1> DEFINE Step(g, s) == IF s = {} THEN << >>
                         ELSE LET x == Max(s)
                              IN  IF IsNumber(seq[x]) THEN Append(g[s \ {x}], ToNumber(seq[x]))
                                        ELSE g[s \ {x}]
           P(g) == g = [s \in SUBSET (1 .. n) |-> Step(g, s)]
           h == CHOOSE g : P(g)
<1>1. Numbers(seq) = h[1 .. n]
    BY DEF Numbers, FoldLeft, MapThenFoldSet
<1>2. \A g, s : FoldStep("parse", 0, << >>, seq, g, s) = Step(g, s)
    BY DEF FoldStep, Applied
<1> HIDE DEF Step
<1>3. \A g : P(g) <=> IsFold("parse", 0, << >>, seq, n, g)
    BY <1>2 DEF IsFold
<1>4. IsFold("parse", 0, << >>, seq, n, h)
  <2>1. PICK g : IsFold("parse", 0, << >>, seq, n, g)
      BY FoldExists
  <2>2. \E a : P(a)
      BY <1>3, <2>1
  <2> HIDE DEF P
  <2> QED
    BY <1>3, <2>2
<1> HIDE DEF P, h
<1>5. Walk("parse", 0, << >>, seq, n, [k \in 0 .. n |-> h[1 .. k]])
    BY <1>4, FoldWalks
<1> QED
    BY <1>1, <1>5

(* The text of a result, with the comma at its end.                        *)
Written(result) ==
    FoldLeft(LAMBDA written, value : written \o <<value, Comma>>,
             <<Equals>>, result)

(* The same, number by number.                                             *)
LEMMA WrittenWalk ==
    ASSUME NEW n \in Nat, NEW seq, DOMAIN seq = 1 .. n
    PROVE  \E w : Walk("write", 0, <<Equals>>, seq, n, w) /\ Written(seq) = w[n]
<1> DEFINE Step(g, s) == IF s = {} THEN <<Equals>>
                         ELSE LET x == Max(s)
                              IN  g[s \ {x}] \o <<seq[x], Comma>>
           P(g) == g = [s \in SUBSET (1 .. n) |-> Step(g, s)]
           h == CHOOSE g : P(g)
<1>1. Written(seq) = h[1 .. n]
    BY DEF Written, FoldLeft, MapThenFoldSet
<1>2. \A g, s : FoldStep("write", 0, <<Equals>>, seq, g, s) = Step(g, s)
    BY DEF FoldStep, Applied
<1> HIDE DEF Step
<1>3. \A g : P(g) <=> IsFold("write", 0, <<Equals>>, seq, n, g)
    BY <1>2 DEF IsFold
<1>4. IsFold("write", 0, <<Equals>>, seq, n, h)
  <2>1. PICK g : IsFold("write", 0, <<Equals>>, seq, n, g)
      BY FoldExists
  <2>2. \E a : P(a)
      BY <1>3, <2>1
  <2> HIDE DEF P
  <2> QED
    BY <1>3, <2>2
<1> HIDE DEF P, h
<1>5. Walk("write", 0, <<Equals>>, seq, n, [k \in 0 .. n |-> h[1 .. k]])
    BY <1>4, FoldWalks
<1> QED
    BY <1>1, <1>5

---------------------------------------------------------------------------
(* What the folds make of a text *)

Symbols == Characters \cup Int

(* The parts of a text are texts.                                          *)
LEMMA PartsType ==
    ASSUME NEW S, NEW text \in Seq(S), NEW c
    PROVE  Parts(c, text) \in Seq(Seq(S))
<1> DEFINE n == Len(text)
           base == << << >> >>
<1>1. n \in Nat /\ DOMAIN text = 1 .. n
    OBVIOUS
<1>2. PICK w : Walk("split", c, base, text, n, w) /\ Parts(c, text) = w[n]
  <2> HIDE DEF n
  <2> QED
    BY <1>1, PartsWalk
<1> DEFINE T == {k \in 0 .. n : w[k] \in Seq(Seq(S)) /\ w[k] # << >>}
<1>3. 0 \in T
  <2>1. w[0] = base
      BY <1>2 DEF Walk
  <2>2. base \in Seq(Seq(S)) /\ base # << >>
      OBVIOUS
  <2>3. 0 \in 0 .. n
      BY <1>1
  <2> QED
    BY <2>1, <2>2, <2>3
<1>4. ASSUME NEW k \in 1 .. n, k - 1 \in T
      PROVE  k \in T
  <2> DEFINE v == w[k - 1]
             x == text[k]
  <2>1. v \in Seq(Seq(S)) /\ Len(v) \in 1 .. Len(v) /\ x \in S
    <3>1. v \in Seq(Seq(S)) /\ v # << >>
        BY <1>4
    <3>2. Len(v) \in Nat /\ Len(v) # 0
        BY <3>1
    <3> QED
      BY <3>1, <3>2
  <2>2. w[k] = IF x = c THEN Append(v, << >>) ELSE [v EXCEPT ![Len(v)] = Append(@, x)]
      BY <1>2 DEF Walk, Applied
  <2> HIDE DEF v, x
  <2>3. Append(v, << >>) \in Seq(Seq(S)) /\ Append(v, << >>) # << >>
      BY <2>1
  <2>4. /\ [v EXCEPT ![Len(v)] = Append(@, x)] \in Seq(Seq(S))
        /\ [v EXCEPT ![Len(v)] = Append(@, x)] # << >>
    <3>1. v[Len(v)] \in Seq(S)
        BY <2>1
    <3>2. Append(v[Len(v)], x) \in Seq(S)
        BY <2>1, <3>1
    <3> DEFINE e == Append(v[Len(v)], x)
    <3>3. [v EXCEPT ![Len(v)] = e] \in Seq(Seq(S)) /\ [v EXCEPT ![Len(v)] = e] # << >>
      <4> HIDE DEF e
      <4> QED
        BY <2>1, <3>2 DEF e
    <3> QED
      BY <3>3
  <2>5. w[k] \in Seq(Seq(S)) /\ w[k] # << >>
      BY <2>2, <2>3, <2>4
  <2>6. k \in 0 .. n
      BY <1>1
  <2> QED
    BY <2>5, <2>6
<1>5. n \in T
  <2> HIDE DEF T, n
  <2>1. \A k \in 0 .. n : k \in T
      BY <1>1, <1>3, <1>4, UpTo
  <2> QED
    BY <1>1, <2>1
<1> QED
    BY <1>2, <1>5

(* The parts that are not empty are among the parts.                       *)
LEMMA TrimmedType ==
    ASSUME NEW V, NEW parts \in Seq(V)
    PROVE  Trimmed(parts) \in Seq(V)
<1> DEFINE n == Len(parts)
<1>1. n \in Nat /\ DOMAIN parts = 1 .. n
    OBVIOUS
<1>2. PICK w : Walk("trim", 0, << >>, parts, n, w) /\ Trimmed(parts) = w[n]
  <2> HIDE DEF n
  <2> QED
    BY <1>1, TrimmedWalk
<1> DEFINE T == {k \in 0 .. n : w[k] \in Seq(V)}
<1>3. 0 \in T
  <2>1. w[0] \in Seq(V)
      BY <1>2 DEF Walk
  <2>2. 0 \in 0 .. n
      BY <1>1
  <2> QED
    BY <2>1, <2>2
<1>4. ASSUME NEW k \in 1 .. n, k - 1 \in T
      PROVE  k \in T
  <2>1. w[k - 1] \in Seq(V) /\ parts[k] \in V
      BY <1>4
  <2>2. w[k] = IF parts[k] = << >> THEN w[k - 1] ELSE Append(w[k - 1], parts[k])
      BY <1>2 DEF Walk, Applied
  <2>3. w[k] \in Seq(V)
      BY <2>1, <2>2
  <2>4. k \in 0 .. n
      BY <1>1
  <2> QED
    BY <2>3, <2>4
<1>5. n \in T
  <2> HIDE DEF T, n
  <2>1. \A k \in 0 .. n : k \in T
      BY <1>1, <1>3, <1>4, UpTo
  <2> QED
    BY <1>1, <2>1
<1> QED
    BY <1>2, <1>5

(* Where no part is empty all are kept.                                    *)
LEMMA TrimmedAll ==
    ASSUME NEW V, NEW parts \in Seq(V), \A k \in DOMAIN parts : parts[k] # << >>
    PROVE  Trimmed(parts) = parts
<1> DEFINE n == Len(parts)
<1>1. n \in Nat /\ DOMAIN parts = 1 .. n
    OBVIOUS
<1>2. PICK w : Walk("trim", 0, << >>, parts, n, w) /\ Trimmed(parts) = w[n]
  <2> HIDE DEF n
  <2> QED
    BY <1>1, TrimmedWalk
<1> DEFINE T == {k \in 0 .. n : w[k] = SubSeq(parts, 1, k)}
<1>3. 0 \in T
  <2>1. SubSeq(parts, 1, 0) = << >>
      OBVIOUS
  <2>2. w[0] = << >>
      BY <1>2 DEF Walk
  <2>3. 0 \in 0 .. n
      BY <1>1
  <2> QED
    BY <2>1, <2>2, <2>3
<1>4. ASSUME NEW k \in 1 .. n, k - 1 \in T
      PROVE  k \in T
  <2>1. w[k - 1] = SubSeq(parts, 1, k - 1)
      BY <1>4
  <2>2. w[k] = IF parts[k] = << >> THEN w[k - 1] ELSE Append(w[k - 1], parts[k])
      BY <1>2 DEF Walk, Applied
  <2>3. SubSeq(parts, 1, k) = Append(SubSeq(parts, 1, k - 1), parts[k])
      OBVIOUS
  <2>4. parts[k] # << >>
      BY <1>1
  <2>5. w[k] = SubSeq(parts, 1, k)
      BY <2>1, <2>2, <2>3, <2>4
  <2>6. k \in 0 .. n
      BY <1>1
  <2> QED
    BY <2>5, <2>6
<1>5. n \in T
  <2> HIDE DEF T, n
  <2>1. \A k \in 0 .. n : k \in T
      BY <1>1, <1>3, <1>4, UpTo
  <2> QED
    BY <1>1, <2>1
<1>6. SubSeq(parts, 1, n) = parts
    OBVIOUS
<1> QED
    BY <1>2, <1>5, <1>6

(* How many of the first k texts are numbers.                              *)
NumbersUpTo(parts, k) == Cardinality({j \in 1 .. k : IsNumber(parts[j])})

(* One text more, and one number more if it is one.                        *)
LEMMA NumbersUpToNext ==
    ASSUME NEW parts, NEW k \in Nat \ {0}
    PROVE  /\ NumbersUpTo(parts, 0) = 0 /\ NumbersUpTo(parts, k - 1) \in Nat
           /\ NumbersUpTo(parts, k) = IF IsNumber(parts[k]) THEN NumbersUpTo(parts, k - 1) + 1
                                      ELSE NumbersUpTo(parts, k - 1)
<1> DEFINE B == {j \in 1 .. k - 1 : IsNumber(parts[j])}
           A == {j \in 1 .. k : IsNumber(parts[j])}
<1>1. {j \in 1 .. 0 : IsNumber(parts[j])} = {}
    OBVIOUS
<1>2. IsFiniteSet(B)
  <2>1. IsFiniteSet(1 .. k - 1)
      BY FS_Interval
  <2> QED
    BY <2>1, FS_Subset
<1>3. A = IF IsNumber(parts[k]) THEN B \cup {k} ELSE B
    OBVIOUS
<1>4. k \notin B
    OBVIOUS
<1> HIDE DEF A, B
<1>5. Cardinality(B) \in Nat /\ Cardinality(B \cup {k}) = Cardinality(B) + 1
    BY <1>2, <1>4, FS_AddElement, FS_CardinalityType
<1>6. NumbersUpTo(parts, k) = Cardinality(A) /\ NumbersUpTo(parts, k - 1) = Cardinality(B)
    BY DEF NumbersUpTo, A, B
<1>7. NumbersUpTo(parts, 0) = 0
    BY <1>1, FS_EmptySet DEF NumbersUpTo
<1> QED
    BY <1>3, <1>5, <1>6, <1>7

(* A text that is read as a number has one at its end.                     *)
LEMMA NumberType ==
    ASSUME NEW part \in Seq(Symbols), IsNumber(part)
    PROVE  ToNumber(part) \in Int
<1>1. Len(part) \in Nat /\ Len(part) # 0
    BY DEF IsNumber
<1>2. part[Len(part)] \in Symbols
    BY <1>1
<1> QED
    BY <1>2 DEF IsNumber, ToNumber, Last, Symbols

(* The numbers of a list of texts are those that are numbers, in order.    *)
NumbersOf(parts, k, v) ==
    /\ v \in Seq(Int) /\ Len(v) = NumbersUpTo(parts, k)
    /\ \A m \in 1 .. k : IsNumber(parts[m]) =>
          /\ NumbersUpTo(parts, m) \in 1 .. Len(v)
          /\ v[NumbersUpTo(parts, m)] = ToNumber(parts[m])

(* The numbers of all texts, in the places that the page counts.           *)
LEMMA NumbersAre ==
    ASSUME NEW parts \in Seq(Seq(Symbols))
    PROVE  NumbersOf(parts, Len(parts), Numbers(parts))
<1> DEFINE n == Len(parts)
<1>1. n \in Nat /\ DOMAIN parts = 1 .. n
    OBVIOUS
<1>2. PICK w : Walk("parse", 0, << >>, parts, n, w) /\ Numbers(parts) = w[n]
  <2> HIDE DEF n
  <2> QED
    BY <1>1, NumbersWalk
<1> DEFINE T == {k \in 0 .. n : NumbersOf(parts, k, w[k])}
<1>3. 0 \in T
  <2>1. w[0] = << >>
      BY <1>2 DEF Walk
  <2>2. NumbersUpTo(parts, 0) = 0
      BY NumbersUpToNext
  <2>3. NumbersOf(parts, 0, w[0])
      BY <2>1, <2>2 DEF NumbersOf
  <2>4. 0 \in 0 .. n
      BY <1>1
  <2> QED
    BY <2>3, <2>4
<1>4. ASSUME NEW k \in 1 .. n, k - 1 \in T
      PROVE  k \in T
  <2> DEFINE v == w[k - 1]
             part == parts[k]
  <2>1. NumbersOf(parts, k - 1, v) /\ part \in Seq(Symbols) /\ k \in Nat \ {0}
      BY <1>4
  <2>2. w[k] = IF IsNumber(part) THEN Append(v, ToNumber(part)) ELSE v
      BY <1>2 DEF Walk, Applied
  <2>3. /\ NumbersUpTo(parts, k - 1) \in Nat
        /\ NumbersUpTo(parts, k) = IF IsNumber(part) THEN NumbersUpTo(parts, k - 1) + 1
                                   ELSE NumbersUpTo(parts, k - 1)
      BY <2>1, NumbersUpToNext
  <2> HIDE DEF v
  <2>4. NumbersOf(parts, k, w[k])
    <3>1. CASE IsNumber(part)
      <4>1. ToNumber(part) \in Int
          BY <2>1, <3>1, NumberType
      <4> DEFINE x == ToNumber(part)
      <4>2. w[k] = Append(v, x)
          BY <2>2, <3>1
      <4>3. part = parts[k]
          OBVIOUS
      <4> HIDE DEF x, part
      <4>4. /\ v \in Seq(Int) /\ x \in Int /\ Len(v) = NumbersUpTo(parts, k - 1)
            /\ NumbersUpTo(parts, k) = Len(v) + 1
          BY <2>1, <2>3, <3>1, <4>1 DEF NumbersOf, x
      <4>5. w[k] \in Seq(Int) /\ Len(w[k]) = NumbersUpTo(parts, k) /\ Len(v) \in Nat
          BY <4>2, <4>4
      <4>6. ASSUME NEW m \in 1 .. k, IsNumber(parts[m])
            PROVE  /\ NumbersUpTo(parts, m) \in 1 .. Len(w[k])
                   /\ w[k][NumbersUpTo(parts, m)] = ToNumber(parts[m])
        <5>1. CASE m = k
            BY <4>2, <4>3, <4>4, <4>5, <5>1 DEF x
        <5>2. CASE m # k
          <6>1. m \in 1 .. k - 1
              BY <5>2
          <6>2. /\ NumbersUpTo(parts, m) \in 1 .. Len(v)
                /\ v[NumbersUpTo(parts, m)] = ToNumber(parts[m])
              BY <2>1, <4>6, <6>1 DEF NumbersOf
          <6> QED
            BY <4>2, <4>4, <4>5, <6>2
        <5> QED
          BY <5>1, <5>2
      <4> QED
        BY <4>5, <4>6 DEF NumbersOf
    <3>2. CASE ~IsNumber(part)
      <4>1. w[k] = v /\ NumbersUpTo(parts, k) = NumbersUpTo(parts, k - 1)
          BY <2>2, <2>3, <3>2
      <4>2. \A m \in 1 .. k : IsNumber(parts[m]) => m \in 1 .. k - 1
          BY <3>2
      <4> QED
        BY <2>1, <4>1, <4>2 DEF NumbersOf
    <3> QED
      BY <3>1, <3>2
  <2>5. k \in 0 .. n
      BY <1>1
  <2> QED
    BY <2>4, <2>5
<1>5. n \in T
  <2> HIDE DEF T, n
  <2>1. \A k \in 0 .. n : k \in T
      BY <1>1, <1>3, <1>4, UpTo
  <2> QED
    BY <1>1, <2>1
<1> QED
    BY <1>2, <1>5

---------------------------------------------------------------------------
(* A result as text *)

(* Two more elements of a sequence.                                        *)
LEMMA TwoMore ==
    ASSUME NEW S, NEW v \in Seq(S), NEW x \in S, NEW y \in S
    PROVE  /\ v \o <<x, y>> \in Seq(S) /\ Len(v \o <<x, y>>) = Len(v) + 2
           /\ \A j \in 1 .. Len(v) : (v \o <<x, y>>)[j] = v[j]
           /\ (v \o <<x, y>>)[Len(v) + 1] = x /\ (v \o <<x, y>>)[Len(v) + 2] = y
<1> DEFINE pair == <<x, y>>
<1>1. pair \in Seq(S) /\ Len(pair) = 2 /\ pair[1] = x /\ pair[2] = y
    OBVIOUS
<1> HIDE DEF pair
<1>2. Len(v) \in Nat
    OBVIOUS
<1>3. /\ v \o pair \in Seq(S) /\ Len(v \o pair) = Len(v) + Len(pair)
      /\ \A i \in 1 .. Len(v) + Len(pair) :
            (v \o pair)[i] = IF i <= Len(v) THEN v[i] ELSE pair[i - Len(v)]
    BY <1>1, ConcatProperties
<1> DEFINE u == v \o pair
<1>4. u \in Seq(S) /\ Len(u) = Len(v) + 2
    BY <1>1, <1>3
<1>5. \A i \in 1 .. Len(v) + 2 : u[i] = IF i <= Len(v) THEN v[i] ELSE pair[i - Len(v)]
    BY <1>1, <1>3
<1> HIDE DEF u
<1>6. u[Len(v) + 1] = pair[Len(v) + 1 - Len(v)] /\ u[Len(v) + 2] = pair[Len(v) + 2 - Len(v)]
    BY <1>2, <1>5
<1>7. u[Len(v) + 1] = x /\ u[Len(v) + 2] = y
  <2>1. Len(v) + 1 - Len(v) = 1 /\ Len(v) + 2 - Len(v) = 2
      BY <1>2
  <2> QED
    BY <1>1, <1>6, <2>1
<1>8. \A j \in 1 .. Len(v) : u[j] = v[j]
    BY <1>2, <1>5
<1> QED
    BY <1>4, <1>7, <1>8 DEF u, pair

(* One more.                                                               *)
LEMMA OneMore ==
    ASSUME NEW k \in Nat, NEW v, v = [i \in 1 .. k |-> v[i]], NEW e
    PROVE  /\ DOMAIN Append(v, e) = 1 .. k + 1 /\ Len(Append(v, e)) = k + 1
           /\ Append(v, e)[k + 1] = e
           /\ \A i \in 1 .. k : Append(v, e)[i] = v[i]
<1> DEFINE S == {v[i] : i \in 1 .. k} \cup {e}
<1>1. v \in [1 .. k -> S]
    OBVIOUS
<1> HIDE DEF S
<1>2. v \in Seq(S) /\ Len(v) = k
    BY <1>1
<1>3. e \in S
    BY DEF S
<1> QED
    BY <1>2, <1>3

(* A sequence whose last element is replaced.                              *)
LEMMA LastReplaced ==
    ASSUME NEW n, NEW u, DOMAIN u = 1 .. n, NEW e,
           NEW f, f = [i \in 1 .. n |-> f[i]], f[n] = e, \A i \in 1 .. n : i # n => f[i] = u[i]
    PROVE  [u EXCEPT ![n] = e] = f
<1> DEFINE g == [u EXCEPT ![n] = e]
<1>1. g = [i \in 1 .. n |-> IF i = n THEN e ELSE u[i]]
    OBVIOUS
<1>2. \A i \in 1 .. n : g[i] = f[i]
    BY <1>1
<1> QED
    BY <1>1, <1>2

(* The text of a result: its prefix, and a comma after each number.        *)
LEMMA WrittenIs ==
    ASSUME NEW result \in Seq(Int)
    PROVE  /\ Written(result) \in Seq(Symbols)
           /\ Len(Written(result)) = 2 * Len(result) + 1 /\ Written(result)[1] = Equals
           /\ \A i \in DOMAIN result : /\ Written(result)[2 * i] = result[i]
                                       /\ Written(result)[2 * i + 1] = Comma
<1> DEFINE n == Len(result)
           Of(k, v) == /\ v \in Seq(Symbols) /\ Len(v) = 2 * k + 1 /\ v[1] = Equals
                       /\ \A i \in 1 .. k : v[2 * i] = result[i] /\ v[2 * i + 1] = Comma
<1>1. n \in Nat /\ DOMAIN result = 1 .. n
    OBVIOUS
<1>2. PICK w : Walk("write", 0, <<Equals>>, result, n, w) /\ Written(result) = w[n]
  <2> HIDE DEF n
  <2> QED
    BY <1>1, WrittenWalk
<1>3. Equals \in Symbols /\ Comma \in Symbols /\ Int \subseteq Symbols
    BY DEF Symbols, Characters
<1> DEFINE T == {k \in 0 .. n : Of(k, w[k])}
<1>4. 0 \in T
  <2>1. w[0] = <<Equals>>
      BY <1>2 DEF Walk
  <2>2. Of(0, w[0])
      BY <1>3, <2>1
  <2>3. 0 \in 0 .. n
      BY <1>1
  <2> QED
    BY <2>2, <2>3
<1>5. ASSUME NEW k \in 1 .. n, k - 1 \in T
      PROVE  k \in T
  <2> DEFINE v == w[k - 1]
             x == result[k]
             pair == <<x, Comma>>
  <2>1. Of(k - 1, v) /\ x \in Int /\ k \in Nat \ {0}
      BY <1>5
  <2>2. w[k] = v \o pair
      BY <1>2 DEF Walk, Applied
  <2>3. pair \in Seq(Symbols) /\ Len(pair) = 2 /\ pair[1] = x /\ pair[2] = Comma
      BY <1>3, <2>1
  <2> HIDE DEF v, pair
  <2>4. v \in Seq(Symbols) /\ Len(v) = 2 * k - 1 /\ Len(v) \in Nat
      BY <2>1
  <2>5. /\ w[k] \in Seq(Symbols) /\ Len(w[k]) = Len(v) + 2
        /\ \A j \in 1 .. Len(v) : w[k][j] = v[j]
        /\ w[k][Len(v) + 1] = x /\ w[k][Len(v) + 2] = Comma
    <3>1. x \in Symbols /\ Comma \in Symbols /\ w[k] = v \o <<x, Comma>>
        BY <1>3, <2>1, <2>2 DEF pair
    <3> HIDE DEF x, Of, T, n
    <3>2. v \in Seq(Symbols) /\ x \in Symbols /\ Comma \in Symbols
        BY <2>4, <3>1
    <3>3. /\ v \o <<x, Comma>> \in Seq(Symbols) /\ Len(v \o <<x, Comma>>) = Len(v) + 2
          /\ \A j \in 1 .. Len(v) : (v \o <<x, Comma>>)[j] = v[j]
          /\ (v \o <<x, Comma>>)[Len(v) + 1] = x /\ (v \o <<x, Comma>>)[Len(v) + 2] = Comma
        BY <3>2, TwoMore
    <3> QED
      BY <3>1, <3>3
  <2>6. \A j \in 1 .. 2 * k - 1 : w[k][j] = v[j]
      BY <2>4, <2>5
  <2>7. w[k][2 * k] = x /\ w[k][2 * k + 1] = Comma /\ Len(w[k]) = 2 * k + 1
    <3>1. Len(v) + 1 = 2 * k /\ Len(v) + 2 = 2 * k + 1
        BY <2>1, <2>4
    <3> QED
      BY <2>5, <3>1
  <2>8. ASSUME NEW i \in 1 .. k
        PROVE  w[k][2 * i] = result[i] /\ w[k][2 * i + 1] = Comma
    <3>1. CASE i = k
        BY <2>7, <3>1
    <3>2. CASE i # k
      <4>1. i \in 1 .. k - 1 /\ 2 * i \in 1 .. 2 * k - 1 /\ 2 * i + 1 \in 1 .. 2 * k - 1
          BY <2>1, <3>2
      <4> QED
        BY <2>1, <2>6, <4>1
    <3> QED
      BY <3>1, <3>2
  <2>9. w[k][1] = Equals
    <3>1. 1 \in 1 .. 2 * k - 1
        BY <2>1
    <3> QED
      BY <2>1, <2>6, <3>1
  <2>10. k \in 0 .. n /\ Of(k, w[k])
      BY <1>1, <2>5, <2>7, <2>8, <2>9
  <2> QED
    BY <2>10
<1>6. Of(n, w[n])
  <2> HIDE DEF T, n, Of
  <2>1. \A k \in 0 .. n : k \in T
      BY <1>1, <1>4, <1>5, UpTo
  <2> QED
    BY <1>1, <2>1 DEF T
<1> QED
    BY <1>1, <1>2, <1>6

(* A list with commas between its elements has each of them as a part.     *)
LEMMA ListParts ==
    ASSUME NEW n \in Nat, NEW text, DOMAIN text = 1 .. 2 * n + 1,
           \A i \in 0 .. n : text[2 * i + 1] # Comma,
           \A i \in 1 .. n : text[2 * i] = Comma
    PROVE  Parts(Comma, text) = [i \in 1 .. n + 1 |-> <<text[2 * i - 1]>>]
<1> DEFINE last == 2 * n + 1
           base == << << >> >>
           Lists(k) == [i \in 1 .. k + 1 |-> <<text[2 * i - 1]>>]
<1>1. last \in Nat
    OBVIOUS
<1>2. PICK w : Walk("split", Comma, base, text, last, w) /\ Parts(Comma, text) = w[last]
  <2> HIDE DEF last
  <2> QED
    BY <1>1, PartsWalk DEF last
<1>3. \A j \in 1 .. last : w[j] = IF text[j] = Comma THEN Append(w[j - 1], << >>)
                                  ELSE [w[j - 1] EXCEPT ![Len(w[j - 1])] = Append(@, text[j])]
    BY <1>2 DEF Walk, Applied
<1> DEFINE T == {k \in 0 .. n : w[2 * k + 1] = Lists(k)}
<1>4. 0 \in T
  <2>1. w[0] = base
      BY <1>2 DEF Walk
  <2>2. text[1] # Comma /\ 1 \in 1 .. last
    <3>1. text[2 * 0 + 1] # Comma
        OBVIOUS
    <3> QED
      BY <3>1
  <2>3. w[1] = [w[0] EXCEPT ![Len(w[0])] = Append(@, text[1])]
      BY <1>3, <2>2
  <2>4. Len(base) = 1 /\ base[1] = << >> /\ DOMAIN base = 1 .. 1
      OBVIOUS
  <2>5. w[1] = [base EXCEPT ![1] = <<text[1]>>]
    <3>1. Append(<< >>, text[1]) = <<text[1]>>
        OBVIOUS
    <3> QED
      BY <2>1, <2>3, <2>4, <3>1
  <2>6. w[1] = [i \in 1 .. 1 |-> <<text[1]>>]
    <3> DEFINE f == [i \in 1 .. 1 |-> <<text[1]>>]
               e == <<text[1]>>
    <3>1. DOMAIN base = 1 .. 1 /\ f = [i \in 1 .. 1 |-> f[i]] /\ f[1] = e
        BY <2>4
    <3>2. \A i \in 1 .. 1 : i # 1 => f[i] = base[i]
        OBVIOUS
    <3> HIDE DEF f, base, e
    <3>3. [base EXCEPT ![1] = e] = f
        BY <3>1, <3>2, LastReplaced
    <3> QED
      BY <2>5, <3>3 DEF f, e
  <2>7. Lists(0) = [i \in 1 .. 1 |-> <<text[1]>>]
      OBVIOUS
  <2>8. w[2 * 0 + 1] = Lists(0)
      BY <2>6, <2>7
  <2> QED
    BY <2>8
<1>5. ASSUME NEW k \in 1 .. n, k - 1 \in T
      PROVE  k \in T
  <2> DEFINE v == w[2 * k - 1]
             x == text[2 * k + 1]
  <2>1. v = Lists(k - 1) /\ k \in Nat \ {0}
    <3>1. w[2 * (k - 1) + 1] = Lists(k - 1)
        BY <1>5
    <3>2. 2 * (k - 1) + 1 = 2 * k - 1
        OBVIOUS
    <3> QED
      BY <3>1, <3>2
  <2>2. v = [i \in 1 .. k |-> <<text[2 * i - 1]>>]
      BY <2>1
  <2>3. w[2 * k] = Append(v, << >>)
    <3>1. 2 * k \in 1 .. last /\ text[2 * k] = Comma
        OBVIOUS
    <3> QED
      BY <1>3, <3>1
  <2>4. w[2 * k + 1] = [w[2 * k] EXCEPT ![Len(w[2 * k])] = Append(@, x)]
    <3>1. 2 * k + 1 \in 1 .. last /\ x # Comma /\ (2 * k + 1) - 1 = 2 * k
        OBVIOUS
    <3> QED
      BY <1>3, <3>1
  <2> DEFINE u == w[2 * k]
  <2>5. /\ DOMAIN u = 1 .. k + 1 /\ Len(u) = k + 1 /\ u[k + 1] = << >>
        /\ \A i \in 1 .. k : u[i] = v[i]
    <3>1. k \in Nat /\ v = [i \in 1 .. k |-> v[i]]
        BY <2>1, <2>2
    <3> HIDE DEF v
    <3> QED
      BY <2>3, <3>1, OneMore
  <2>6. 2 * (k + 1) - 1 = 2 * k + 1 /\ Append(<< >>, x) = <<x>>
      OBVIOUS
  <2>7. w[2 * k + 1] = Lists(k)
    <3> DEFINE f == Lists(k)
    <3>1. w[2 * k + 1] = [u EXCEPT ![k + 1] = <<x>>]
        BY <2>4, <2>5, <2>6
    <3> DEFINE e == <<x>>
               m == k + 1
    <3>2. f = [i \in 1 .. m |-> <<text[2 * i - 1]>>] /\ m \in 1 .. m
        BY <2>1
    <3>3. f = [i \in 1 .. m |-> f[i]] /\ f[m] = e
        BY <2>6, <3>2
    <3>4. \A i \in 1 .. m : i # m => f[i] = u[i]
      <4>1. \A i \in 1 .. m : i # m => i \in 1 .. k
          BY <2>1
      <4> HIDE DEF f, u
      <4> QED
        BY <2>2, <2>5, <3>2, <4>1
    <3>5. DOMAIN u = 1 .. m /\ w[2 * k + 1] = [u EXCEPT ![m] = e]
        BY <2>5, <3>1
    <3> HIDE DEF u, f, m, e
    <3>6. [u EXCEPT ![m] = e] = f
        BY <3>3, <3>4, <3>5, LastReplaced
    <3> QED
      BY <3>5, <3>6 DEF f
  <2> QED
    BY <2>7
<1>6. n \in T
  <2> HIDE DEF T
  <2>1. \A k \in 0 .. n : k \in T
      BY <1>4, <1>5, UpTo
  <2> QED
    BY <2>1
<1> QED
    BY <1>2, <1>6

(* A number is even or odd.                                                *)
LEMMA Halves ==
    ASSUME NEW k \in Nat
    PROVE  \E i \in Nat : k = 2 * i \/ k = 2 * i + 1
<1>1. k \div 2 \in Nat /\ (k = 2 * (k \div 2) \/ k = 2 * (k \div 2) + 1)
    OBVIOUS
<1> QED
    BY <1>1

(* Characters and numbers are told apart.                                  *)
LEMMA CharactersApart ==
    /\ Equals \notin Int /\ Comma \notin Int /\ Equals # Comma
    BY CalculationAssumption DEF Characters

(* What deserializeResult() makes of the text is the result that           *)
(* serializeResult() wrote, with no number lost, added or changed.         *)
LEMMA TextKeepsResult ==
    ASSUME NEW result \in Seq(Int)
    PROVE  DeserializeResult(<< >>, SerializeResult(result)) = result
<1> DEFINE n == Len(result)
           full == Written(result)
           text == SerializeResult(result)
<1>1. n \in Nat /\ DOMAIN result = 1 .. n /\ \A i \in 1 .. n : result[i] \in Int
    OBVIOUS
<1>2. /\ full \in Seq(Symbols) /\ Len(full) = 2 * n + 1 /\ full[1] = Equals
      /\ \A i \in 1 .. n : full[2 * i] = result[i] /\ full[2 * i + 1] = Comma
    BY <1>1, WrittenIs
<1>3. text = SubSeq(full, 1, Len(full) - 1)
    BY DEF SerializeResult, Written
<1> HIDE DEF full, text
<1>4. /\ text \in Seq(Symbols) /\ Len(text) = 2 * n /\ DOMAIN text = 1 .. 2 * n
      /\ \A j \in 1 .. 2 * n : text[j] = full[j]
  <2>1. Len(full) - 1 = 2 * n /\ 2 * n \in Nat
      BY <1>1, <1>2
  <2>2. text = SubSeq(full, 1, 2 * n)
      BY <1>3, <2>1
  <2> DEFINE m == 2 * n
  <2>3. m \in Nat /\ m <= Len(full) /\ text = SubSeq(full, 1, m) /\ Len(full) \in Nat
      BY <1>1, <1>2, <2>1, <2>2
  <2> HIDE DEF m
  <2>4. /\ text \in Seq(Symbols) /\ Len(text) = m /\ DOMAIN text = 1 .. m
        /\ \A j \in 1 .. m : text[j] = full[j]
      BY <1>2, <2>3
  <2> QED
    BY <2>4 DEF m
<1>5. CASE n = 0
  <2>1. text = << >> /\ result = << >>
      BY <1>4, <1>5
  <2> QED
    BY <2>1 DEF DeserializeResult, text
<1>6. CASE n # 0
  <2>1. n - 1 \in Nat /\ 2 * n \in Nat /\ 1 \in 1 .. 2 * n /\ 2 \in 1 .. 2 * n
      BY <1>1, <1>6
  <2>2. text # << >> /\ text[1] = Equals
      BY <1>2, <1>4, <2>1
  <2>3. ASSUME NEW k \in DOMAIN text, text[k] = Equals
        PROVE  k = 1
    <3>1. k \in 1 .. 2 * n /\ k \in Nat /\ full[k] = Equals
        BY <1>4, <2>3
    <3>2. PICK i \in Nat : k = 2 * i \/ k = 2 * i + 1
        BY <3>1, Halves
    <3>3. CASE k = 2 * i
      <4>1. i \in 1 .. n
          BY <1>1, <3>1, <3>3
      <4> QED
        BY <1>1, <1>2, <3>1, <3>3, <4>1, CharactersApart
    <3>4. CASE k = 2 * i + 1 /\ i # 0
      <4>1. i \in 1 .. n
          BY <1>1, <3>1, <3>4
      <4> QED
        BY <1>2, <3>1, <3>4, <4>1, CharactersApart
    <3> QED
      BY <3>2, <3>3, <3>4
  <2>4. (CHOOSE k \in DOMAIN text : text[k] = Equals) = 1
      BY <1>4, <2>1, <2>2, <2>3
  <2> DEFINE rest == SubSeq(text, 1 + 1, Len(text))
             parts == Parts(Comma, rest)
  <2>5. /\ DOMAIN rest = 1 .. 2 * (n - 1) + 1
        /\ \A j \in 1 .. 2 * n - 1 : rest[j] = text[j + 1]
    <3> DEFINE m == 2 * n
    <3>1. m \in Nat /\ m >= 2 /\ Len(text) = m /\ text \in Seq(Symbols)
        BY <1>1, <1>4, <1>6
    <3>2. rest = SubSeq(text, 2, m)
        BY <3>1
    <3> HIDE DEF m, rest
    <3>3. DOMAIN rest = 1 .. m - 1 /\ \A j \in 1 .. m - 1 : rest[j] = text[j + 1]
        BY <3>1, <3>2
    <3>4. m - 1 = 2 * (n - 1) + 1
        BY <1>1 DEF m
    <3> QED
      BY <3>3, <3>4 DEF m
  <2> HIDE DEF rest
  <2>6. ASSUME NEW i \in 1 .. n
        PROVE  rest[2 * i - 1] = result[i]
    <3>1. /\ 2 * i - 1 \in 1 .. 2 * n - 1 /\ 2 * i \in 1 .. 2 * n
          /\ (2 * i - 1) + 1 = 2 * i
        BY <1>1
    <3> QED
      BY <1>2, <1>4, <2>5, <3>1
  <2>7. ASSUME NEW i \in 0 .. n - 1
        PROVE  rest[2 * i + 1] # Comma
    <3>1. i + 1 \in 1 .. n /\ 2 * (i + 1) - 1 = 2 * i + 1
        BY <1>1
    <3>2. rest[2 * i + 1] = result[i + 1]
        BY <2>6, <3>1
    <3> QED
      BY <1>1, <3>1, <3>2, CharactersApart
  <2>8. ASSUME NEW i \in 1 .. n - 1
        PROVE  rest[2 * i] = Comma
    <3>1. 2 * i \in 1 .. 2 * n - 1 /\ 2 * i + 1 \in 1 .. 2 * n /\ i \in 1 .. n
        BY <1>1
    <3> QED
      BY <1>2, <1>4, <2>5, <3>1
  <2>9. parts = [i \in 1 .. n |-> <<result[i]>>]
    <3>1. parts = [i \in 1 .. (n - 1) + 1 |-> <<rest[2 * i - 1]>>]
        BY <2>1, <2>5, <2>7, <2>8, ListParts
    <3>2. (n - 1) + 1 = n
        BY <1>1
    <3> QED
      BY <2>6, <3>1, <3>2
  <2>10. parts \in Seq(Seq(Int)) /\ \A k \in DOMAIN parts : parts[k] # << >>
    <3>1. \A i \in 1 .. n : <<result[i]>> \in Seq(Int) /\ <<result[i]>> # << >>
        BY <1>1
    <3> HIDE DEF parts
    <3>2. parts \in [1 .. n -> Seq(Int)]
        BY <2>9, <3>1
    <3> QED
      BY <1>1, <2>9, <3>1, <3>2
  <2> HIDE DEF parts
  <2>11. Trimmed(parts) = parts
      BY <2>10, TrimmedAll
  <2>12. Split(rest, Comma, TRUE) = parts
      BY <2>11 DEF Split, Trimmed, Parts, parts
  <2>13. [k \in DOMAIN parts |-> ToNumber(parts[k])] = result
    <3>1. \A i \in 1 .. n : ToNumber(<<result[i]>>) = result[i]
        BY DEF ToNumber, Last
    <3>2. DOMAIN parts = 1 .. n /\ \A i \in 1 .. n : parts[i] = <<result[i]>>
        BY <2>9
    <3>3. result = [k \in 1 .. n |-> result[k]]
        BY <1>1
    <3> QED
      BY <3>1, <3>2, <3>3
  <2>14. << >> \o result = result
      OBVIOUS
  <2>15. DeserializeResult(<< >>, text) = << >> \o [k \in DOMAIN parts |-> ToNumber(parts[k])]
    <3> DEFINE start == CHOOSE k \in DOMAIN text : text[k] = Equals
               values == Split(SubSeq(text, start + 1, Len(text)), Comma, TRUE)
    <3>1. DeserializeResult(<< >>, text)
            = IF text = << >> THEN << >> ELSE << >> \o [k \in DOMAIN values |-> ToNumber(values[k])]
        BY DEF DeserializeResult
    <3>2. values = parts
        BY <2>4, <2>12 DEF rest
    <3> HIDE DEF values
    <3> QED
      BY <2>2, <3>1, <3>2
  <2> QED
    BY <2>13, <2>14, <2>15 DEF text
<1> QED
  BY <1>5, <1>6

---------------------------------------------------------------------------
(* The numbers asked *)

(* Among some places of a text there are a first and a last one.           *)
LEMMA FirstAndLast ==
    ASSUME NEW n \in Nat, NEW places, places \subseteq 1 .. n, places # {}
    PROVE  /\ \E k \in places : \A j \in places : k <= j
           /\ \E k \in places : \A j \in places : j <= k
<1>1. \E k \in places : \A j \in places : k <= j
  <2>1. SUFFICES ASSUME \A k \in places : \E j \in places : ~(k <= j)
                 PROVE  FALSE
      OBVIOUS
  <2>2. places \subseteq Nat /\ \A k \in places : \E j \in places : j < k
      BY <2>1
  <2> QED
    BY <2>2, NoLeast
<1>2. \E k \in places : \A j \in places : j <= k
  <2>1. SUFFICES ASSUME \A k \in places : \E j \in places : ~(j <= k)
                 PROVE  FALSE
      OBVIOUS
  <2> DEFINE Mirror == {n - k : k \in places}
  <2>2. Mirror \subseteq Nat /\ Mirror # {}
    <3>1. \A k \in places : n - k \in Nat
        OBVIOUS
    <3> QED
      BY <3>1
  <2>3. ASSUME NEW x \in Mirror
        PROVE  \E y \in Mirror : y < x
    <3>1. PICK k \in places : x = n - k
        OBVIOUS
    <3>2. PICK j \in places : ~(j <= k)
        BY <2>1
    <3>3. n - j \in Mirror /\ n - j < x
        BY <3>1, <3>2
    <3> QED
      BY <3>3
  <2> HIDE DEF Mirror
  <2> QED
    BY <2>2, <2>3, NoLeast
<1> QED
  BY <1>1, <1>2

(* What the page and the calculation read of a URI are texts, and numbers. *)
LEMMA ValuesType ==
    ASSUME NEW text \in URIs
    PROVE  /\ GetURIValues(text) \in Seq(Seq(Symbols))
           /\ ParseRequest(text) = Numbers(GetURIValues(text))
           /\ ParseRequest(text) \in Seq(Int)
<1> DEFINE n == Len(text)
           decoded == DecodeURI(text)
           Places(c) == {k \in DOMAIN decoded : decoded[k] = c}
           start == NumbersStart(decoded)
<1>1. /\ text \in Seq(Symbols) /\ n \in Nat \ {0} /\ DOMAIN text = 1 .. n /\ text[1] = Slash
      /\ \A k \in 1 .. n : text[k] \in Symbols
  <2>1. text \in Seq(Symbols) /\ text # << >> /\ text[1] = Slash
      BY CalculationAssumption DEF Symbols
  <2> QED
    BY <2>1
<1>2. Comma \in Symbols /\ Space \in Symbols /\ Slash # EscapedComma /\ Slash # Plus
    BY CalculationAssumption DEF Symbols, Characters
<1>3. decoded \in Seq(Symbols) /\ DOMAIN decoded = 1 .. n /\ Len(decoded) = n
  <2> DEFINE Decode(c) == CASE c = EscapedComma -> Comma [] c = Plus -> Space [] OTHER -> c
  <2>1. \A k \in 1 .. n : Decode(text[k]) \in Symbols
      BY <1>1, <1>2
  <2>2. decoded = [k \in 1 .. n |-> Decode(text[k])]
      BY <1>1 DEF DecodeURI
  <2> HIDE DEF Decode, decoded, n
  <2>3. decoded \in [1 .. n -> Symbols]
      BY <2>1, <2>2
  <2> QED
    BY <1>1, <2>3
<1>4. decoded[1] = Slash /\ 1 \in DOMAIN decoded
    BY <1>1, <1>2 DEF DecodeURI
<1>5. start = IF Places(Equals) # {}
              THEN CHOOSE k \in Places(Equals) : \A j \in Places(Equals) : k <= j
              ELSE CHOOSE k \in Places(Slash) : \A j \in Places(Slash) : j <= k
    BY DEF NumbersStart
<1> HIDE DEF decoded, start, n
<1>6. start \in 1 .. n
  <2>1. Places(Slash) # {} /\ Places(Slash) \subseteq 1 .. n /\ Places(Equals) \subseteq 1 .. n
      BY <1>3, <1>4
  <2> HIDE DEF Places
  <2>2. Places(Equals) # {} => start \in Places(Equals)
      BY <1>1, <1>5, <2>1, FirstAndLast
  <2>3. Places(Equals) = {} => start \in Places(Slash)
      BY <1>1, <1>5, <2>1, FirstAndLast
  <2> QED
    BY <2>1, <2>2, <2>3
<1> DEFINE rest == SubSeq(decoded, start + 1, Len(decoded))
<1>7. rest \in Seq(Symbols)
    BY <1>1, <1>3, <1>6
<1>8. GetURIValues(text) = Trimmed(Parts(Comma, rest))
    BY DEF GetURIValues, Split, Trimmed, Parts, decoded, start
<1> HIDE DEF rest
<1>9. GetURIValues(text) \in Seq(Seq(Symbols))
  <2>1. Parts(Comma, rest) \in Seq(Seq(Symbols))
      BY <1>7, PartsType
  <2> QED
    BY <1>8, <2>1, TrimmedType
<1>10. ParseRequest(text) = Numbers(GetURIValues(text))
    BY DEF ParseRequest, Numbers
<1>11. Numbers(GetURIValues(text)) \in Seq(Int)
    BY <1>9, NumbersAre DEF NumbersOf
<1> QED
  BY <1>9, <1>10, <1>11

---------------------------------------------------------------------------
(* Types and the counter *)

(* The units that have not been marked ready.                              *)
Unmarked == {i \in DOMAIN at : at[i] # "marked"}

(* The queries are those of the URI, each with a unit; a request that has  *)
(* been responded waits for none.                                          *)
UnitInv ==
    /\ TypeOK
    /\ queries = IF phase = "asked" THEN << >> ELSE ParseRequest(uri)
    /\ phase = "responded" => pending = 0
    /\ DOMAIN wire = DOMAIN queries

(* What follows of the units that are not marked: the counter is zero when *)
(* there are none.                                                         *)
LEMMA UnitsFinite ==
    ASSUME UnitInv
    PROVE  /\ queries \in Seq(Int) /\ DOMAIN at = 1 .. Len(queries) /\ Len(queries) \in Nat
           /\ IsFiniteSet(Unmarked) /\ pending = Cardinality(Unmarked) /\ pending \in Nat
           /\ pending = 0 <=> Unmarked = {}
<1>1. queries \in Seq(Int)
  <2>1. << >> \in Seq(Int) /\ uri \in URIs
      BY DEF UnitInv, TypeOK
  <2> QED
    BY <2>1, ValuesType DEF UnitInv
<1>2. Len(queries) \in Nat /\ DOMAIN at = 1 .. Len(queries)
    BY <1>1 DEF UnitInv, TypeOK
<1>3. IsFiniteSet(Unmarked)
  <2>1. IsFiniteSet(1 .. Len(queries)) /\ Unmarked \subseteq 1 .. Len(queries)
      BY <1>2, FS_Interval DEF Unmarked
  <2> QED
    BY <2>1, FS_Subset
<1>4. pending = Cardinality(Unmarked)
    BY DEF UnitInv, TypeOK, Unmarked
<1> QED
  BY <1>1, <1>2, <1>3, <1>4, FS_CardinalityType, FS_EmptySet

(* A unit on its way is of a request that has not been responded.          *)
LEMMA NotResponded ==
    ASSUME UnitInv, NEW i \in DOMAIN at, at[i] # "marked"
    PROVE  phase = "calculating"
<1>1. i \in Unmarked
    BY DEF Unmarked
<1>2. pending # 0
    BY <1>1, UnitsFinite
<1>3. phase # "asked"
  <2>1. SUFFICES ASSUME phase = "asked" PROVE FALSE
      OBVIOUS
  <2>2. Len(queries) = 0 /\ DOMAIN at = 1 .. 0
      BY <2>1, UnitsFinite DEF UnitInv
  <2> QED
    BY <2>2
<1> QED
  BY <1>2, <1>3 DEF UnitInv, TypeOK

(* A step of a unit that does not mark it.                                 *)
LEMMA UnitMoves ==
    ASSUME UnitInv, NEW i \in DOMAIN at, at[i] # "marked",
           NEW place \in {"asked", "answered", "ready"}, at' = [at EXCEPT ![i] = place],
           UNCHANGED <<app, uri, phase, queries, pending>>,
           DOMAIN results' = DOMAIN results, DOMAIN wire' = DOMAIN wire
    PROVE  UnitInv'
<1>1. DOMAIN at' = DOMAIN at /\ \A j \in DOMAIN at : at'[j] = IF j = i THEN place ELSE at[j]
    OBVIOUS
<1>2. Unmarked' = Unmarked
    BY <1>1 DEF Unmarked
<1>3. pending' = Cardinality(Unmarked')
    BY <1>2, UnitsFinite
<1>4. \A j \in DOMAIN at' : at'[j] \in {"queued", "asked", "answered", "ready", "marked"}
    BY <1>1 DEF UnitInv, TypeOK
<1>5. TypeOK'
    BY <1>1, <1>3, <1>4 DEF UnitInv, TypeOK, Unmarked
<1> QED
  BY <1>5 DEF UnitInv

(* Each step keeps the units and their counter.                            *)
LEMMA UnitInvStep ==
    UnitInv /\ [Next]_vars => UnitInv'
<1> SUFFICES ASSUME UnitInv, [Next]_vars PROVE UnitInv'
    OBVIOUS
<1>1. CASE UNCHANGED vars
    BY <1>1 DEF vars, UnitInv, TypeOK
<1>2. CASE CreateWithoutQueries
  <2>1. phase = "asked" /\ queries = << >> /\ pending = 0
    <3>1. phase = "asked" /\ queries = << >>
        BY <1>2 DEF CreateWithoutQueries, UnitInv
    <3>2. Unmarked = {}
      <4>1. DOMAIN at = 1 .. 0
          BY <3>1, UnitsFinite
      <4> QED
        BY <4>1 DEF Unmarked
    <3> QED
      BY <3>1, <3>2, UnitsFinite
  <2>2. TypeOK'
      BY <1>2 DEF CreateWithoutQueries, UnitInv, TypeOK
  <2> QED
    BY <1>2, <2>1, <2>2 DEF CreateWithoutQueries, UnitInv
<1>3. CASE CreateConcurrentData
  <2>1. queries' = ParseRequest(uri) /\ queries' \in Seq(Int) /\ uri \in URIs
    <3>1. uri \in URIs
        BY DEF UnitInv, TypeOK
    <3> QED
      BY <1>3, <3>1, ValuesType DEF CreateConcurrentData
  <2>2. Len(queries') \in Nat /\ DOMAIN queries' = 1 .. Len(queries')
      BY <2>1
  <2>3. /\ DOMAIN at' = 1 .. Len(queries') /\ \A i \in DOMAIN at' : at'[i] = "queued"
        /\ DOMAIN results' = DOMAIN queries' /\ DOMAIN wire' = DOMAIN queries'
        /\ pending' = Len(queries')
      BY <1>3, <2>2 DEF CreateConcurrentData
  <2>4. pending' = Cardinality(Unmarked')
    <3>1. Unmarked' = 1 .. Len(queries')
        BY <2>3 DEF Unmarked
    <3>2. \A m \in Nat : Cardinality(1 .. m) = m
      <4>1. ASSUME NEW m \in Nat
            PROVE  Cardinality(1 .. m) = IF 1 > m THEN 0 ELSE m - 1 + 1
          BY FS_Interval
      <4> QED
        BY <4>1
    <3>3. Cardinality(1 .. Len(queries')) = Len(queries')
        BY <2>2, <3>2
    <3> QED
      BY <2>3, <3>1, <3>3
  <2>5. TypeOK'
      BY <1>3, <2>2, <2>3, <2>4 DEF CreateConcurrentData, UnitInv, TypeOK, Unmarked
  <2> QED
    BY <1>3, <2>1, <2>3, <2>5 DEF CreateConcurrentData, UnitInv
<1>4. CASE Respond
  <2>1. TypeOK'
      BY <1>4 DEF Respond, UnitInv, TypeOK
  <2> QED
    BY <1>4, <2>1 DEF Respond, UnitInv
<1>5. ASSUME NEW i \in DOMAIN at, Calculate(i)
      PROVE  UnitInv'
    BY <1>5, UnitMoves DEF Calculate
<1>6. ASSUME NEW i \in DOMAIN at, Send(i)
      PROVE  UnitInv'
    BY <1>6, UnitMoves DEF Send
<1>7. ASSUME NEW i \in DOMAIN at, Answer(i)
      PROVE  UnitInv'
    BY <1>7, UnitMoves DEF Answer
<1>8. ASSUME NEW i \in DOMAIN at, Receive(i)
      PROVE  UnitInv'
    BY <1>8, UnitMoves DEF Receive
<1>9. ASSUME NEW i \in DOMAIN at, MarkUnitReady(i)
      PROVE  UnitInv'
  <2>1. /\ at[i] = "ready" /\ at' = [at EXCEPT ![i] = "marked"]
        /\ pending' = IF pending > 0 THEN pending - 1 ELSE pending
        /\ UNCHANGED <<app, uri, phase, queries, results, wire, page>>
      BY <1>9 DEF MarkUnitReady
  <2>2. DOMAIN at' = DOMAIN at /\ \A j \in DOMAIN at : at'[j] = IF j = i THEN "marked" ELSE at[j]
      BY <2>1
  <2>3. Unmarked' = Unmarked \ {i} /\ i \in Unmarked
      BY <2>1, <2>2 DEF Unmarked
  <2>4. IsFiniteSet(Unmarked) /\ pending = Cardinality(Unmarked) /\ pending \in Nat /\ pending # 0
      BY <2>3, UnitsFinite
  <2>5. Cardinality(Unmarked \ {i}) = Cardinality(Unmarked) - 1
      BY <2>3, <2>4, FS_RemoveElement
  <2>6. pending' = Cardinality(Unmarked')
      BY <2>1, <2>3, <2>4, <2>5
  <2>7. \A j \in DOMAIN at' : at'[j] \in {"queued", "asked", "answered", "ready", "marked"}
      BY <2>2 DEF UnitInv, TypeOK
  <2>8. TypeOK'
      BY <2>1, <2>2, <2>6, <2>7 DEF UnitInv, TypeOK, Unmarked
  <2>9. phase' # "responded"
      BY <2>1, NotResponded
  <2> QED
    BY <2>1, <2>8, <2>9 DEF UnitInv
<1> QED
  BY <1>1, <1>2, <1>3, <1>4, <1>5, <1>6, <1>7, <1>8, <1>9 DEF Next

(* Before a request is parsed it has no units.                             *)
LEMMA InitUnits ==
    ASSUME Init
    PROVE  UnitInv
<1>1. DOMAIN at = {} /\ DOMAIN queries = {} /\ DOMAIN results = {} /\ DOMAIN wire = {}
    BY DEF Init
<1>2. {i \in DOMAIN at : at[i] # "marked"} = {}
    BY <1>1
<1> QED
  BY <1>1, <1>2, FS_EmptySet DEF Init, UnitInv, TypeOK

(* However the units travel, one query has one unit, and the counter has   *)
(* those that were not marked ready.                                       *)
THEOREM UnitsInvariant == Spec => []UnitInv
<1>1. Init => UnitInv
    BY InitUnits
<1> QED
  BY <1>1, UnitInvStep, PTL DEF Spec

(* The counter of pending queries counts the units that are not ready.     *)
THEOREM CalculationTypeCorrect == Spec => []TypeOK
<1>1. UnitInv => TypeOK
    BY DEF UnitInv
<1> QED
  BY <1>1, UnitsInvariant, PTL

---------------------------------------------------------------------------
(* Numbers *)

(* A product is such a walk.                                               *)
LEMMA ProductWalk ==
    ASSUME NEW n \in Nat, NEW seq, DOMAIN seq = 1 .. n
    PROVE  \E w : Walk("product", 0, 1, seq, n, w) /\ Product(seq) = w[n]
<1> DEFINE Step(g, s) == IF s = {} THEN 1
                         ELSE LET x == Max(s)
                              IN  g[s \ {x}] * seq[x]
           P(g) == g = [s \in SUBSET (1 .. n) |-> Step(g, s)]
           h == CHOOSE g : P(g)
<1>1. Product(seq) = h[1 .. n]
    BY DEF Product, FoldLeft, MapThenFoldSet
<1>2. \A g, s : FoldStep("product", 0, 1, seq, g, s) = Step(g, s)
    BY DEF FoldStep, Applied
<1> HIDE DEF Step
<1>3. \A g : P(g) <=> IsFold("product", 0, 1, seq, n, g)
    BY <1>2 DEF IsFold
<1>4. IsFold("product", 0, 1, seq, n, h)
  <2>1. PICK g : IsFold("product", 0, 1, seq, n, g)
      BY FoldExists
  <2>2. \E a : P(a)
      BY <1>3, <2>1
  <2> HIDE DEF P
  <2> QED
    BY <1>3, <2>2
<1> HIDE DEF P, h
<1>5. Walk("product", 0, 1, seq, n, [k \in 0 .. n |-> h[1 .. k]])
    BY <1>4, FoldWalks
<1> QED
    BY <1>1, <1>5

---------------------------------------------------------------------------
(* Divisors *)

(* A number is the multiple and the rest.                                  *)
LEMMA Division ==
    ASSUME NEW n \in Nat, NEW d \in Nat, d > 0
    PROVE  /\ n \div d \in Nat /\ n % d \in 0 .. d - 1
           /\ n = d * (n \div d) + (n % d)
  OBVIOUS

(* A multiple leaves nothing.                                              *)
LEMMA Multiple ==
    ASSUME NEW q \in Nat, NEW d \in Nat, d > 0
    PROVE  (d * q) % d = 0 /\ (d * q) \div d = q
  OBVIOUS

(* A number below the divisor is left as it is.                            *)
LEMMA SmallRest ==
    ASSUME NEW n \in Nat, NEW d \in Nat, n < d
    PROVE  n % d = n
  OBVIOUS

(* Larger factors, larger product.                                         *)
LEMMA Products ==
    ASSUME NEW a \in Nat, NEW b \in Nat, NEW c \in Nat, NEW d \in Nat, a <= c, b <= d
    PROVE  a * b \in Nat /\ a * b <= c * d
  OBVIOUS

Divides(d, n) == n % d = 0

(* A number that is divided is a product.                                  *)
LEMMA Quotient ==
    ASSUME NEW n \in Nat, n > 0, NEW d \in Nat, d > 0, Divides(d, n)
    PROVE  /\ n \div d \in Nat /\ n = d * (n \div d) /\ n \div d > 0
           /\ n \div d <= n /\ d <= n
<1> DEFINE q == n \div d
<1>1. q \in Nat /\ n = d * q
    BY Division DEF Divides
<1> HIDE DEF q
<1>2. q > 0
    BY <1>1
<1>3. q <= n /\ d <= n
  <2>1. 1 * q <= d * q /\ d * 1 <= d * q
      BY <1>1, <1>2, Products
  <2> QED
    BY <1>1, <2>1
<1> QED
  BY <1>1, <1>2, <1>3 DEF q

(* Each factor divides a product.                                          *)
LEMMA ProductDivided ==
    ASSUME NEW a \in Nat, NEW b \in Nat, a > 0, b > 0
    PROVE  Divides(a, a * b) /\ Divides(b, a * b)
<1>1. (a * b) % a = 0 /\ (b * a) % b = 0 /\ a * b = b * a
    BY Multiple
<1> QED
  BY <1>1 DEF Divides

(* What divides a divisor divides the number.                              *)
LEMMA DividesOn ==
    ASSUME NEW n \in Nat, n > 0, NEW m \in Nat, m > 0, NEW d \in Nat, d > 0,
           Divides(d, m), Divides(m, n)
    PROVE  Divides(d, n)
<1>1. PICK q \in Nat : m = d * q
    BY Quotient
<1>2. PICK r \in Nat : n = m * r
    BY Quotient
<1>3. n = d * (q * r) /\ q * r \in Nat
    BY <1>1, <1>2
<1>4. (d * (q * r)) % d = 0
  <2> DEFINE k == q * r
  <2>1. k \in Nat
      BY <1>3
  <2> HIDE DEF k
  <2>2. (d * k) % d = 0
      BY <2>1, Multiple
  <2> QED
    BY <2>2 DEF k
<1> QED
  BY <1>3, <1>4 DEF Divides

---------------------------------------------------------------------------
(* Primes *)

(* A number with no divisor up to its root is a prime, and no prime has    *)
(* one.                                                                    *)
LEMMA PrimeUpToRoot ==
    ASSUME NEW n \in Nat, n > 1
    PROVE  TruePrime(n) <=> \A d \in 2 .. n : d * d <= n => ~Divides(d, n)
<1>1. ASSUME NEW d \in 2 .. n, d * d <= n, Divides(d, n)
      PROVE  ~TruePrime(n)
  <2>1. d \in 2 .. n - 1
    <3>1. d # n
      <4>1. SUFFICES ASSUME d = n PROVE FALSE
          OBVIOUS
      <4>2. 2 * n <= n * n
          BY Products
      <4> QED
        BY <1>1, <4>1, <4>2
    <3> QED
      BY <3>1
  <2> QED
    BY <1>1, <2>1 DEF TruePrime, Divides
<1>2. ASSUME ~TruePrime(n)
      PROVE  \E d \in 2 .. n : d * d <= n /\ Divides(d, n)
  <2>1. PICK d \in 2 .. n - 1 : Divides(d, n)
      BY <1>2 DEF TruePrime, Divides
  <2> DEFINE q == n \div d
  <2>2. d \in Nat /\ q \in Nat /\ n = d * q /\ q > 0 /\ q <= n
      BY <2>1, Quotient
  <2> HIDE DEF q
  <2>3. q # 1
      BY <2>1, <2>2
  <2>4. CASE d <= q
    <3>1. d * d <= d * q
        BY <2>2, <2>4, Products
    <3> QED
      BY <2>1, <2>2, <3>1
  <2>5. CASE q <= d
    <3>1. q * q <= d * q
        BY <2>2, <2>5, Products
    <3>2. Divides(q, n)
        BY <2>1, <2>2, ProductDivided
    <3> QED
      BY <2>2, <2>3, <3>1, <3>2
  <2> QED
    BY <2>2, <2>4, <2>5
<1> QED
  BY <1>1, <1>2

(* The numbers whose squares an int can hold have a largest one, and what  *)
(* isPrime() squares is right up to it.                                    *)
LEMMA Largest ==
    \E m \in Nat : /\ m > 0 /\ SafeLimit = (2 * m + 1) * (2 * m + 1) - 1
                   /\ (2 * m + 1) * (2 * m + 1) < IntLimit
<1> DEFINE largest == CHOOSE f \in SafeFactors : \A g \in SafeFactors : g <= f
<1>1. IntLimit \in Nat /\ IntLimit > 9
    BY CalculatorsAssumption
<1>2. SafeFactors \subseteq 1 .. IntLimit
    BY <1>1 DEF SafeFactors
<1>3. 3 \in SafeFactors
    BY <1>1 DEF SafeFactors
<1>4. \E f \in SafeFactors : \A g \in SafeFactors : g <= f
    BY <1>1, <1>2, <1>3, FirstAndLast
<1>5. largest \in SafeFactors
    BY <1>4
<1>6. SafeLimit = largest * largest - 1
    BY DEF SafeLimit
<1> HIDE DEF largest
<1>7. largest \in Nat /\ largest >= 3 /\ largest % 2 = 1 /\ largest * largest < IntLimit
    BY <1>1, <1>5 DEF SafeFactors
<1>8. PICK m \in Nat : largest = 2 * m + 1
    BY <1>7
<1> QED
  BY <1>6, <1>7, <1>8

(* The limit is a number.                                                  *)
LEMMA LimitType == SafeLimit \in Nat
<1>1. PICK m \in Nat : SafeLimit = (2 * m + 1) * (2 * m + 1) - 1
    BY Largest
<1> DEFINE square == (2 * m + 1) * (2 * m + 1)
<1>2. 1 * 1 <= square /\ square \in Nat
  <2>1. 1 <= 2 * m + 1 /\ 2 * m + 1 \in Nat
      OBVIOUS
  <2> DEFINE f == 2 * m + 1
  <2> HIDE DEF f
  <2>2. 1 \in Nat /\ f \in Nat /\ 1 <= f
      BY <2>1 DEF f
  <2>3. 1 * 1 <= f * f /\ f * f \in Nat
      BY <2>2, Products
  <2> QED
    BY <2>3 DEF f
<1> HIDE DEF square
<1>3. square - 1 \in Nat
    BY <1>2
<1> QED
  BY <1>1, <1>3 DEF square

(* A square that an int can hold is not wrapped.                           *)
LEMMA SquareFits ==
    ASSUME NEW f \in Nat, f * f < IntLimit
    PROVE  Square(f) = f * f
<1> DEFINE s == f * f
<1>1. s \in Nat /\ IntLimit \in Nat /\ s < IntLimit
    BY CalculatorsAssumption
<1>2. Square(f) = ((s + IntLimit) % (2 * IntLimit)) - IntLimit
    BY DEF Square
<1> HIDE DEF s
<1>3. (s + IntLimit) % (2 * IntLimit) = s + IntLimit
    BY <1>1, SmallRest
<1> QED
  BY <1>1, <1>2, <1>3 DEF s

(* The loop of isPrime(), from a factor on.                                *)
NoFactorLoop(n, g) ==
    g = [f \in Nat |-> IF Square(f) > n THEN TRUE ELSE n % f # 0 /\ g[f + 2]]

(* There is such a function: it looks for a factor before the first whose  *)
(* square is too large.                                                    *)
LEMMA LoopExists ==
    ASSUME NEW n
    PROVE  \E g : NoFactorLoop(n, g)
<1> DEFINE Reached(f, k) == \A j \in 0 .. k : ~(Square(f + 2 * j) > n)
           g == [f \in Nat |-> \A k \in Nat : Reached(f, k) => n % (f + 2 * k) # 0]
<1>1. ASSUME NEW f \in Nat
      PROVE  g[f] = IF Square(f) > n THEN TRUE ELSE n % f # 0 /\ g[f + 2]
  <2>1. g[f] = (\A k \in Nat : Reached(f, k) => n % (f + 2 * k) # 0)
      OBVIOUS
  <2>2. g[f + 2] = (\A k \in Nat : Reached(f + 2, k) => n % ((f + 2) + 2 * k) # 0)
    <3>1. \A h \in Nat : g[h] = (\A k \in Nat : Reached(h, k) => n % (h + 2 * k) # 0)
        OBVIOUS
    <3>2. f + 2 \in Nat
        OBVIOUS
    <3> HIDE DEF g, Reached
    <3> QED
      BY <3>1, <3>2
  <2>3. CASE Square(f) > n
    <3>1. \A k \in Nat : ~Reached(f, k)
      <4>1. \A k \in Nat : 0 \in 0 .. k /\ f + 2 * 0 = f
          OBVIOUS
      <4> QED
        BY <2>3, <4>1
    <3> QED
      BY <2>1, <2>3, <3>1
  <2>4. CASE ~(Square(f) > n)
    <3>1. Reached(f, 0) /\ f + 2 * 0 = f
      <4>1. \A j \in 0 .. 0 : f + 2 * j = f
          OBVIOUS
      <4> QED
        BY <2>4, <4>1
    <3>2. ASSUME NEW k \in Nat
          PROVE  Reached(f, k + 1) <=> Reached(f + 2, k)
      <4>1. ASSUME Reached(f, k + 1), NEW j \in 0 .. k
            PROVE  ~(Square((f + 2) + 2 * j) > n)
        <5>1. j + 1 \in 0 .. k + 1 /\ f + 2 * (j + 1) = (f + 2) + 2 * j
            OBVIOUS
        <5> QED
          BY <4>1, <5>1
      <4>2. ASSUME Reached(f + 2, k), NEW j \in 0 .. k + 1
            PROVE  ~(Square(f + 2 * j) > n)
        <5>1. CASE j = 0
            BY <2>4, <5>1
        <5>2. CASE j # 0
          <6>1. j - 1 \in 0 .. k /\ (f + 2) + 2 * (j - 1) = f + 2 * j
              BY <5>2
          <6> QED
            BY <4>2, <6>1
        <5> QED
          BY <5>1, <5>2
      <4> QED
        BY <4>1, <4>2
    <3> HIDE DEF Reached
    <3>3. \A k \in Nat : (f + 2) + 2 * k = f + 2 * (k + 1) /\ k + 1 \in Nat
        OBVIOUS
    <3>4. ASSUME NEW k \in Nat, k # 0
          PROVE  \E i \in Nat : k = i + 1
      <4>1. k - 1 \in Nat /\ k = (k - 1) + 1
          BY <3>4
      <4> QED
        BY <4>1
    <3>5. g[f] <=> n % f # 0 /\ g[f + 2]
      <4>1. ASSUME g[f]
            PROVE  n % f # 0 /\ g[f + 2]
        <5>1. n % f # 0
            BY <2>1, <3>1, <4>1
        <5>2. ASSUME NEW k \in Nat, Reached(f + 2, k)
              PROVE  n % ((f + 2) + 2 * k) # 0
          <6>1. Reached(f, k + 1) /\ k + 1 \in Nat
              BY <3>2, <5>2
          <6>2. n % (f + 2 * (k + 1)) # 0
              BY <2>1, <4>1, <6>1
          <6> QED
            BY <3>3, <6>2
        <5> QED
          BY <2>2, <5>1, <5>2
      <4>2. ASSUME n % f # 0, g[f + 2]
            PROVE  g[f]
        <5>1. ASSUME NEW k \in Nat, Reached(f, k)
              PROVE  n % (f + 2 * k) # 0
          <6>1. CASE k = 0
              BY <3>1, <4>2, <6>1
          <6>2. CASE k # 0
            <7>1. PICK i \in Nat : k = i + 1
                BY <3>4, <6>2
            <7>2. Reached(f + 2, i)
                BY <3>2, <5>1, <7>1
            <7>3. n % ((f + 2) + 2 * i) # 0
                BY <2>2, <4>2, <7>2
            <7> QED
              BY <3>3, <7>1, <7>3
          <6> QED
            BY <6>1, <6>2
        <5> QED
          BY <2>1, <5>1
      <4> QED
        BY <4>1, <4>2
    <3>6. g[f] \in BOOLEAN /\ g[f + 2] \in BOOLEAN
        BY <2>1, <2>2
    <3> HIDE DEF g
    <3> QED
      BY <2>4, <3>5, <3>6
  <2> QED
    BY <2>3, <2>4
<1>2. NoFactorLoop(n, g)
  <2> HIDE DEF Reached
  <2>1. g = [f \in Nat |-> g[f]]
      OBVIOUS
  <2> HIDE DEF g
  <2> QED
    BY <1>1, <2>1 DEF NoFactorLoop
<1> QED
  BY <1>2

(* What the loop of isPrime() decides, for what an int can hold.           *)
LEMMA LoopDecides ==
    ASSUME NEW n \in Nat, NEW m \in Nat, m > 0,
           (2 * m + 1) * (2 * m + 1) < IntLimit, n < (2 * m + 1) * (2 * m + 1),
           NEW g, NoFactorLoop(n, g)
    PROVE  g[3] <=> \A i \in 1 .. m : (2 * i + 1) * (2 * i + 1) <= n => ~Divides(2 * i + 1, n)
<1> DEFINE F(i) == 2 * i + 1
           From(i) == \A j \in i .. m : F(j) * F(j) <= n => ~Divides(F(j), n)
           T == {k \in 0 .. m - 1 : g[F(m - k)] <=> From(m - k)}
<1>1. ASSUME NEW i \in 1 .. m
      PROVE  g[F(i)] = IF F(i) * F(i) > n THEN TRUE ELSE ~Divides(F(i), n) /\ g[F(i) + 2]
  <2>1. F(i) \in Nat /\ F(i) <= F(m) /\ F(m) \in Nat
      OBVIOUS
  <2>2. F(i) * F(i) <= F(m) * F(m)
    <3> HIDE DEF F
    <3> QED
      BY <2>1, Products
  <2>3. F(i) * F(i) < IntLimit
    <3>1. F(m) * F(m) < IntLimit /\ F(i) * F(i) \in Nat /\ F(m) * F(m) \in Nat /\ IntLimit \in Nat
        BY <2>1, CalculatorsAssumption
    <3> HIDE DEF F
    <3> QED
      BY <2>2, <3>1
  <2>4. Square(F(i)) = F(i) * F(i)
    <3> HIDE DEF F
    <3> QED
      BY <2>1, <2>3, SquareFits
  <2>5. g[F(i)] = IF Square(F(i)) > n THEN TRUE ELSE n % F(i) # 0 /\ g[F(i) + 2]
    <3> HIDE DEF F
    <3> QED
      BY <2>1 DEF NoFactorLoop
  <2> QED
    BY <2>4, <2>5 DEF Divides
<1>2. ASSUME NEW i \in 1 .. m, F(i) * F(i) > n
      PROVE  From(i)
  <2>1. ASSUME NEW j \in i .. m
        PROVE  F(j) * F(j) > n
    <3>1. F(i) \in Nat /\ F(j) \in Nat /\ F(i) <= F(j)
        OBVIOUS
    <3>2. F(i) * F(i) <= F(j) * F(j) /\ F(i) * F(i) \in Nat /\ F(j) * F(j) \in Nat
      <4> HIDE DEF F
      <4> QED
        BY <3>1, Products
    <3> HIDE DEF F
    <3> QED
      BY <1>2, <3>2
  <2>2. ASSUME NEW j \in i .. m
        PROVE  ~(F(j) * F(j) <= n)
    <3>1. F(j) \in Nat /\ F(j) * F(j) \in Nat
        OBVIOUS
    <3> HIDE DEF F
    <3> QED
      BY <2>1, <3>1
  <2> HIDE DEF F
  <2> QED
    BY <2>2
<1>3. 0 \in T
  <2>1. F(m) * F(m) > n /\ m \in 1 .. m /\ m - 0 = m
      OBVIOUS
  <2>2. g[F(m)] <=> From(m)
    <3>1. g[F(m)] = TRUE
        BY <1>1, <2>1
    <3>2. From(m)
        BY <1>2, <2>1
    <3> QED
      BY <3>1, <3>2
  <2> HIDE DEF F, From
  <2> QED
    BY <2>1, <2>2
<1>4. ASSUME NEW k \in 1 .. m - 1, k - 1 \in T
      PROVE  k \in T
  <2> DEFINE i == m - k
  <2>1. i \in 1 .. m /\ i + 1 \in 1 .. m /\ m - (k - 1) = i + 1 /\ F(i) + 2 = F(i + 1)
        /\ k \in 0 .. m - 1
      OBVIOUS
  <2>2. g[F(i + 1)] <=> From(i + 1)
    <3> HIDE DEF F, From, i
    <3> QED
      BY <1>4, <2>1
  <2> HIDE DEF i
  <2>3. g[F(i)] <=> From(i)
    <3>1. CASE F(i) * F(i) > n
      <4>1. g[F(i)] = TRUE
          BY <1>1, <2>1, <3>1
      <4>2. From(i)
          BY <1>2, <2>1, <3>1
      <4> QED
        BY <4>1, <4>2
    <3>2. CASE ~(F(i) * F(i) > n)
      <4>1. F(i) * F(i) <= n
          BY <2>1, <3>2
      <4>2. g[F(i)] <=> ~Divides(F(i), n) /\ From(i + 1)
        <5>1. g[F(i)] = (~Divides(F(i), n) /\ g[F(i) + 2])
            BY <1>1, <2>1, <3>2
        <5> HIDE DEF From, F
        <5> QED
          BY <2>1, <2>2, <5>1
      <4>3. From(i) <=> ~Divides(F(i), n) /\ From(i + 1)
        <5>1. \A j : j \in i .. m <=> j = i \/ j \in i + 1 .. m
            BY <2>1
        <5> HIDE DEF F
        <5> QED
          BY <4>1, <5>1
      <4> QED
        BY <4>2, <4>3
    <3> QED
      BY <3>1, <3>2
  <2> HIDE DEF F, From
  <2> QED
    BY <2>1, <2>3 DEF i
<1>5. \A k \in 0 .. m - 1 : k \in T
  <2>1. m - 1 \in Nat
      OBVIOUS
  <2> HIDE DEF T
  <2> QED
    BY <1>3, <1>4, <2>1, UpTo
<1>6. m - 1 \in T
  <2>1. m - 1 \in 0 .. m - 1
      OBVIOUS
  <2> HIDE DEF T
  <2> QED
    BY <1>5, <2>1
<1>7. m - (m - 1) = 1 /\ F(1) = 3
    OBVIOUS
<1>8. g[3] <=> From(1)
  <2>1. g[F(m - (m - 1))] <=> From(m - (m - 1))
      BY <1>6
  <2> HIDE DEF F, From
  <2> QED
    BY <1>7, <2>1
<1> QED
  BY <1>8

(* isPrime() is right up to the largest number below which no square is    *)
(* too large for an int.                                                   *)
THEOREM PrimesRight ==
    ASSUME NEW number \in Int, number <= SafeLimit
    PROVE  IsPrime(number) <=> TruePrime(number)
<1>1. CASE ~(number > 1)
    BY <1>1 DEF IsPrime, TruePrime
<1>2. CASE number = 2
  <2>1. TruePrime(2)
      BY DEF TruePrime
  <2> QED
    BY <1>2, <2>1 DEF IsPrime
<1>3. CASE number > 2 /\ number % 2 = 0
  <2>1. 2 \in 2 .. number - 1
      BY <1>3
  <2> QED
    BY <1>3, <2>1 DEF IsPrime, TruePrime
<1>4. CASE number > 2 /\ number % 2 # 0
  <2> DEFINE g == CHOOSE h : NoFactorLoop(number, h)
             noFactor == CHOOSE h : h = [f \in Nat |-> IF Square(f) > number THEN TRUE
                                                    ELSE number % f # 0 /\ h[f + 2]]
  <2>1. IsPrime(number) <=> noFactor[3]
      BY <1>4 DEF IsPrime
  <2>2. noFactor = g
      BY DEF NoFactorLoop
  <2>3. NoFactorLoop(number, g)
      BY LoopExists
  <2> HIDE DEF g, noFactor
  <2>4. PICK m \in Nat : /\ m > 0 /\ SafeLimit = (2 * m + 1) * (2 * m + 1) - 1
                         /\ (2 * m + 1) * (2 * m + 1) < IntLimit
      BY Largest
  <2>5. number \in Nat /\ number < (2 * m + 1) * (2 * m + 1)
      BY <1>4, <2>4
  <2>6. g[3] <=> \A i \in 1 .. m : (2 * i + 1) * (2 * i + 1) <= number
                                => ~Divides(2 * i + 1, number)
      BY <2>3, <2>4, <2>5, LoopDecides
  <2>7. TruePrime(number) <=> \A d \in 2 .. number : d * d <= number => ~Divides(d, number)
      BY <1>4, <2>5, PrimeUpToRoot
  <2>8. ASSUME NEW i \in 1 .. m, (2 * i + 1) * (2 * i + 1) <= number, Divides(2 * i + 1, number)
        PROVE  ~TruePrime(number)
    <3> DEFINE d == 2 * i + 1
    <3>1. d \in Nat /\ d >= 3 /\ d * d <= number
        BY <2>8
    <3>2. d * 1 <= d * d
      <4> HIDE DEF d
      <4> QED
        BY <3>1, Products
    <3>3. d \in 2 .. number
        BY <3>1, <3>2
    <3> QED
      BY <2>7, <2>8, <3>1, <3>3
  <2>9. ASSUME NEW d \in 2 .. number, d * d <= number, Divides(d, number)
        PROVE  \E i \in 1 .. m : /\ (2 * i + 1) * (2 * i + 1) <= number
                                 /\ Divides(2 * i + 1, number)
    <3>1. d % 2 = 1
      <4>1. SUFFICES ASSUME d % 2 # 1 PROVE FALSE
          OBVIOUS
      <4>2. Divides(2, d)
          BY <4>1 DEF Divides
      <4>3. Divides(2, number)
          BY <2>5, <2>9, <4>2, DividesOn
      <4> QED
        BY <1>4, <4>3 DEF Divides
    <3>2. PICK i \in Nat : d = 2 * i + 1
        BY <3>1
    <3>3. i >= 1 /\ d \in Nat
        BY <3>2
    <3>4. i <= m
      <4>1. SUFFICES ASSUME ~(i <= m) PROVE FALSE
          OBVIOUS
      <4>2. 2 * m + 1 <= d /\ 2 * m + 1 \in Nat
          BY <3>2, <4>1
      <4>3. (2 * m + 1) * (2 * m + 1) <= d * d
        <5> DEFINE e == 2 * m + 1
        <5> HIDE DEF e
        <5>1. e * e <= d * d
            BY <3>3, <4>2, Products DEF e
        <5> QED
          BY <5>1 DEF e
      <4> QED
        BY <2>5, <2>9, <4>3
    <3> QED
      BY <2>9, <3>2, <3>3, <3>4
  <2> QED
    BY <2>1, <2>2, <2>6, <2>7, <2>8, <2>9
<1> QED
  BY <1>1, <1>2, <1>3, <1>4

---------------------------------------------------------------------------
(* Products *)

(* The products of the first numbers of a sequence depend on these only.   *)
LEMMA WalksAgree ==
    ASSUME NEW n \in Nat, NEW s, NEW t, \A k \in 1 .. n : s[k] = t[k], NEW v, NEW w,
           Walk("product", 0, 1, s, n, v), Walk("product", 0, 1, t, n, w)
    PROVE  \A k \in 0 .. n : v[k] = w[k]
<1> DEFINE T == {k \in 0 .. n : v[k] = w[k]}
<1>1. 0 \in T
    BY DEF Walk
<1>2. ASSUME NEW k \in 1 .. n, k - 1 \in T
      PROVE  k \in T
  <2>1. v[k] = v[k - 1] * s[k] /\ w[k] = w[k - 1] * t[k]
      BY DEF Walk, Applied
  <2> QED
    BY <1>2, <2>1
<1> HIDE DEF T
<1>3. \A k \in 0 .. n : k \in T
    BY <1>1, <1>2, UpTo
<1> QED
  BY <1>3 DEF T

(* One number more is multiplied at the end.                               *)
LEMMA ProductNext ==
    ASSUME NEW n \in Nat, NEW s, DOMAIN s = 1 .. n + 1, NEW t, DOMAIN t = 1 .. n,
           \A k \in 1 .. n : t[k] = s[k]
    PROVE  Product(s) = Product(t) * s[n + 1]
<1> DEFINE m == n + 1
<1>1. m \in Nat /\ m \in 1 .. m /\ m - 1 = n /\ n \in 0 .. n
    OBVIOUS
<1>2. PICK w : Walk("product", 0, 1, s, m, w) /\ Product(s) = w[m]
  <2> HIDE DEF m
  <2>1. DOMAIN s = 1 .. m
      BY DEF m
  <2> QED
    BY <1>1, <2>1, ProductWalk
<1>3. PICK v : Walk("product", 0, 1, t, n, v) /\ Product(t) = v[n]
    BY ProductWalk
<1>4. Walk("product", 0, 1, s, n, w)
  <2>1. \A k \in 1 .. n : k \in 1 .. m
      OBVIOUS
  <2> HIDE DEF m
  <2> QED
    BY <1>2, <2>1 DEF Walk
<1>5. v[n] = w[n]
    BY <1>1, <1>3, <1>4, WalksAgree
<1>6. w[m] = w[n] * s[m]
  <2> HIDE DEF m
  <2> QED
    BY <1>1, <1>2 DEF Walk, Applied
<1> QED
  BY <1>2, <1>3, <1>5, <1>6

(* The product of no numbers.                                              *)
LEMMA ProductEmpty ==
    ASSUME NEW s, DOMAIN s = 1 .. 0
    PROVE  Product(s) = 1
<1>1. 0 \in Nat
    OBVIOUS
<1>2. PICK w : Walk("product", 0, 1, s, 0, w) /\ Product(s) = w[0]
    BY <1>1, ProductWalk
<1> QED
  BY <1>2 DEF Walk

(* Or at the beginning.                                                    *)
LEMMA ProductFirst ==
    ASSUME NEW n \in Nat, NEW s, DOMAIN s = 1 .. n + 1, \A k \in 1 .. n + 1 : s[k] \in Nat,
           NEW t, DOMAIN t = 1 .. n, \A k \in 1 .. n : t[k] = s[k + 1]
    PROVE  Product(t) \in Nat /\ Product(s) = s[1] * Product(t)
<1> DEFINE m == n + 1
<1>1. m \in Nat /\ 1 \in 1 .. m /\ n \in 0 .. n /\ s[1] \in Nat /\ 0 \in Nat
    OBVIOUS
<1>2. PICK w : Walk("product", 0, 1, s, m, w) /\ Product(s) = w[m]
  <2> HIDE DEF m
  <2>1. DOMAIN s = 1 .. m
      BY DEF m
  <2> QED
    BY <1>1, <2>1, ProductWalk
<1>3. PICK v : Walk("product", 0, 1, t, n, v) /\ Product(t) = v[n]
    BY ProductWalk
<1> DEFINE T == {k \in 0 .. n : v[k] \in Nat /\ w[k + 1] = s[1] * v[k]}
<1>4. 0 \in T
  <2>1. v[0] = 1 /\ w[0] = 1
      BY <1>2, <1>3 DEF Walk
  <2>2. w[1] = w[1 - 1] * s[1]
    <3> HIDE DEF m
    <3> QED
      BY <1>1, <1>2 DEF Walk, Applied
  <2>3. w[0 + 1] = s[1] * v[0] /\ v[0] \in Nat /\ 0 \in 0 .. n
      BY <1>1, <2>1, <2>2
  <2> QED
    BY <2>3
<1>5. ASSUME NEW k \in 1 .. n, k - 1 \in T
      PROVE  k \in T
  <2>1. v[k] = v[k - 1] * t[k]
      BY <1>3 DEF Walk, Applied
  <2>2. w[k + 1] = w[(k + 1) - 1] * s[k + 1]
    <3>1. k + 1 \in 1 .. m
        OBVIOUS
    <3> HIDE DEF m
    <3> QED
      BY <1>2, <3>1 DEF Walk, Applied
  <2>3. (k + 1) - 1 = (k - 1) + 1 /\ s[k + 1] \in Nat /\ t[k] = s[k + 1] /\ k \in 0 .. n
      OBVIOUS
  <2>4. v[k - 1] \in Nat /\ w[(k - 1) + 1] = s[1] * v[k - 1]
      BY <1>5
  <2>5. w[k + 1] = (s[1] * v[k - 1]) * t[k]
      BY <2>2, <2>3, <2>4
  <2>6. (s[1] * v[k - 1]) * t[k] = s[1] * (v[k - 1] * t[k]) /\ v[k - 1] * t[k] \in Nat
    <3> DEFINE a == s[1]
               b == v[k - 1]
               c == t[k]
    <3>1. a \in Nat /\ b \in Nat /\ c \in Nat
        BY <1>1, <2>3, <2>4
    <3> HIDE DEF a, b, c
    <3>2. (a * b) * c = a * (b * c) /\ b * c \in Nat
        BY <3>1
    <3> QED
      BY <3>2 DEF a, b, c
  <2>7. v[k] \in Nat /\ w[k + 1] = s[1] * v[k]
      BY <2>1, <2>5, <2>6
  <2> QED
    BY <2>3, <2>7
<1>6. n \in T
  <2> HIDE DEF T, m
  <2>1. \A k \in 0 .. n : k \in T
      BY <1>4, <1>5, UpTo
  <2> QED
    BY <1>1, <2>1
<1> QED
  BY <1>2, <1>3, <1>6

---------------------------------------------------------------------------
(* Powers *)

(* A power is a product with one factor more.                              *)
LEMMA PowerNext ==
    ASSUME NEW b, NEW e \in Nat
    PROVE  Power(b, 0) = 1 /\ Power(b, e + 1) = Power(b, e) * b
<1> DEFINE s == [k \in 1 .. e + 1 |-> b]
           t == [k \in 1 .. e |-> b]
<1>1. DOMAIN s = 1 .. e + 1 /\ DOMAIN t = 1 .. e /\ \A k \in 1 .. e : t[k] = s[k]
    OBVIOUS
<1>2. s[e + 1] = b
  <2>1. e + 1 \in 1 .. e + 1
      OBVIOUS
  <2> QED
    BY <2>1
<1>3. Power(b, e + 1) = Product(s) /\ Power(b, e) = Product(t)
    BY DEF Power
<1> HIDE DEF s, t
<1>4. Product(s) = Product(t) * b
    BY <1>1, <1>2, ProductNext
<1>5. Power(b, 0) = 1
  <2>1. DOMAIN [k \in 1 .. 0 |-> b] = 1 .. 0
      OBVIOUS
  <2> QED
    BY <2>1, ProductEmpty DEF Power
<1> QED
  BY <1>3, <1>4, <1>5

(* A power of a positive number is positive.                               *)
LEMMA PowerType ==
    ASSUME NEW b \in Nat, b > 0, NEW e \in Nat
    PROVE  Power(b, e) \in Nat /\ Power(b, e) > 0
<1> DEFINE T == {k \in 0 .. e : Power(b, k) \in Nat /\ Power(b, k) > 0}
<1>1. 0 \in T
    BY PowerNext
<1>2. ASSUME NEW k \in 1 .. e, k - 1 \in T
      PROVE  k \in T
  <2>1. k - 1 \in Nat /\ (k - 1) + 1 = k
      OBVIOUS
  <2>2. Power(b, (k - 1) + 1) = Power(b, k - 1) * b
    <3> DEFINE i == k - 1
    <3> HIDE DEF i
    <3>1. Power(b, i + 1) = Power(b, i) * b
        BY <2>1, PowerNext DEF i
    <3> QED
      BY <3>1 DEF i
  <2>3. Power(b, k - 1) \in Nat /\ Power(b, k - 1) > 0
      BY <1>2
  <2>4. Power(b, k - 1) * b \in Nat /\ Power(b, k - 1) * b > 0
    <3> DEFINE p == Power(b, k - 1)
    <3> HIDE DEF p
    <3>1. p \in Nat /\ p > 0
        BY <2>3 DEF p
    <3>2. p * b \in Nat /\ p * b > 0
        BY <3>1
    <3> QED
      BY <3>2 DEF p
  <2> QED
    BY <2>1, <2>2, <2>4
<1> HIDE DEF T
<1>3. \A k \in 0 .. e : k \in T
    BY <1>1, <1>2, UpTo
<1>4. e \in 0 .. e
    OBVIOUS
<1> QED
  BY <1>3, <1>4 DEF T

---------------------------------------------------------------------------
(* divideWhileDivisible() *)

DivideLoop(number, factor, g) ==
    g = [n \in 1 .. number |->
            IF n % factor # 0 THEN <<0, n>>
            ELSE LET rest == g[n \div factor] IN <<rest[1] + 1, rest[2]>>]

(* A number that is divided is smaller.                                    *)
LEMMA QuotientSmaller ==
    ASSUME NEW n \in Nat, n > 0, NEW d \in Nat, d > 1, Divides(d, n)
    PROVE  n \div d \in 1 .. n - 1
<1> DEFINE q == n \div d
<1>1. q \in Nat /\ n = d * q /\ q > 0 /\ q <= n
    BY Quotient
<1> HIDE DEF q
<1>2. 2 * q <= d * q
    BY <1>1, Products
<1>3. q < n
    BY <1>1, <1>2
<1> QED
  BY <1>1, <1>3 DEF q

(* There is such a function: what is left is smaller.                      *)
LEMMA DivideLoopExists ==
    ASSUME NEW number \in Nat, NEW factor \in Nat, factor > 1
    PROVE  \E g : DivideLoop(number, factor, g)
<1> DEFINE T == {k \in 0 .. number : \E g : DivideLoop(k, factor, g)}
<1>1. 0 \in T
  <2> DEFINE g == [n \in 1 .. 0 |-> 0]
  <2>1. DivideLoop(0, factor, g)
      BY DEF DivideLoop
  <2> QED
    BY <2>1
<1>2. ASSUME NEW k \in 1 .. number, k - 1 \in T
      PROVE  k \in T
  <2>1. PICK h : DivideLoop(k - 1, factor, h)
      BY <1>2
  <2> DEFINE Body(f, n) == IF n % factor # 0 THEN <<0, n>>
                           ELSE LET rest == f[n \div factor] IN <<rest[1] + 1, rest[2]>>
             g == [n \in 1 .. k |-> IF n = k THEN Body(h, k) ELSE h[n]]
  <2>2. ASSUME NEW n \in 1 .. k
        PROVE  g[n] = Body(g, n)
    <3>1. Body(g, n) = Body(h, n)
      <4>1. CASE n % factor # 0
          BY <4>1
      <4>2. CASE n % factor = 0
        <5>1. n \div factor \in 1 .. n - 1
          <6>1. n \in Nat /\ n > 0 /\ Divides(factor, n)
              BY <4>2 DEF Divides
          <6> QED
            BY <6>1, QuotientSmaller
        <5>2. n \div factor \in 1 .. k /\ n \div factor # k
            BY <5>1
        <5>3. g[n \div factor] = h[n \div factor]
            BY <5>2
        <5> HIDE DEF g
        <5> QED
          BY <5>3
      <4> QED
        BY <4>1, <4>2
    <3>2. n # k => h[n] = Body(h, n)
      <4>1. n # k => n \in 1 .. k - 1
          OBVIOUS
      <4> QED
        BY <2>1, <4>1 DEF DivideLoop
    <3>3. g[n] = IF n = k THEN Body(h, k) ELSE h[n]
        OBVIOUS
    <3> HIDE DEF g, Body
    <3> QED
      BY <3>1, <3>2, <3>3
  <2>3. g = [n \in 1 .. k |-> g[n]]
      OBVIOUS
  <2> HIDE DEF g
  <2>4. DivideLoop(k, factor, g)
      BY <2>2, <2>3 DEF DivideLoop
  <2> QED
    BY <2>4
<1> HIDE DEF T
<1>3. \A k \in 0 .. number : k \in T
    BY <1>1, <1>2, UpTo
<1>4. number \in 0 .. number
    OBVIOUS
<1> QED
  BY <1>3, <1>4 DEF T

(* How often a factor divides a number, and what is left of it.            *)
Divided(n, factor, result) ==
    \E e \in Nat, m \in 1 .. n : /\ result = <<e, m>> /\ n = Power(factor, e) * m
                                 /\ ~Divides(factor, m) /\ Divides(m, n)
                                 /\ Divides(factor, n) => e > 0

(* divideWhileDivisible() divides as often as it can.                      *)
LEMMA DividesAll ==
    ASSUME NEW number \in Nat, number > 0, NEW factor \in Nat, factor > 1
    PROVE  Divided(number, factor, DivideWhileDivisible(number, factor))
<1> DEFINE g == CHOOSE h : DivideLoop(number, factor, h)
<1>1. DivideWhileDivisible(number, factor) = g[number]
    BY DEF DivideWhileDivisible, DivideLoop
<1>2. DivideLoop(number, factor, g)
    BY DivideLoopExists
<1> HIDE DEF g
<1> DEFINE T == {k \in 0 .. number : \A n \in 1 .. k : Divided(n, factor, g[n])}
<1>3. 0 \in T
    OBVIOUS
<1>4. ASSUME NEW k \in 1 .. number, k - 1 \in T
      PROVE  k \in T
  <2>1. g[k] = IF k % factor # 0 THEN <<0, k>>
               ELSE LET rest == g[k \div factor] IN <<rest[1] + 1, rest[2]>>
      BY <1>2 DEF DivideLoop
  <2>2. k \in Nat /\ k > 0
      OBVIOUS
  <2>3. ASSUME ~Divides(factor, k)
        PROVE  Divided(k, factor, g[k])
    <3>1. g[k] = <<0, k>>
        BY <2>1, <2>3 DEF Divides
    <3>2. k = Power(factor, 0) * k
        BY <2>2, PowerNext
    <3>3. Divides(k, k)
      <4>1. (k * 1) % k = 0 /\ k * 1 = k
          BY <2>2, Multiple
      <4> QED
        BY <4>1 DEF Divides
    <3>4. 0 \in Nat /\ k \in 1 .. k
        BY <2>2
    <3>5. /\ g[k] = <<0, k>> /\ k = Power(factor, 0) * k /\ ~Divides(factor, k) /\ Divides(k, k)
          /\ Divides(factor, k) => 0 > 0
        BY <2>3, <3>1, <3>2, <3>3
    <3> QED
      BY <3>4, <3>5 DEF Divided
  <2>4. ASSUME Divides(factor, k)
        PROVE  Divided(k, factor, g[k])
    <3> DEFINE q == k \div factor
    <3>1. q \in 1 .. k - 1 /\ k = factor * q
        BY <2>2, <2>4, Quotient, QuotientSmaller
    <3>2. g[k] = <<g[q][1] + 1, g[q][2]>>
        BY <2>1, <2>4 DEF Divides
    <3>3. Divided(q, factor, g[q])
        BY <1>4, <3>1
    <3> HIDE DEF q
    <3>4. PICK e \in Nat, m \in 1 .. q : /\ g[q] = <<e, m>> /\ q = Power(factor, e) * m
                                         /\ ~Divides(factor, m) /\ Divides(m, q)
        BY <3>3 DEF Divided
    <3>5. g[k] = <<e + 1, m>>
        BY <3>2, <3>4
    <3>6. k = Power(factor, e + 1) * m
      <4> DEFINE p == Power(factor, e)
      <4>1. p \in Nat
          BY PowerType
      <4>2. Power(factor, e + 1) = p * factor
          BY PowerNext
      <4> HIDE DEF p
      <4>3. factor * (p * m) = (p * factor) * m /\ m \in Nat
          BY <4>1
      <4> QED
        BY <3>1, <3>4, <4>2, <4>3 DEF p
    <3>7. Divides(m, k)
      <4>1. Divides(q, k)
        <5>1. q \in Nat /\ q > 0 /\ factor > 0
            BY <3>1
        <5>2. Divides(q, factor * q)
            BY <5>1, ProductDivided
        <5> QED
          BY <3>1, <5>2
      <4> QED
        BY <2>2, <3>1, <3>4, <4>1, DividesOn
    <3>8. e + 1 \in Nat /\ e + 1 > 0 /\ m \in 1 .. k
        BY <3>1
    <3>9. /\ g[k] = <<e + 1, m>> /\ k = Power(factor, e + 1) * m /\ ~Divides(factor, m)
          /\ Divides(m, k)
          /\ Divides(factor, k) => e + 1 > 0
        BY <3>4, <3>5, <3>6, <3>7, <3>8
    <3> QED
      BY <3>8, <3>9 DEF Divided
  <2>5. Divided(k, factor, g[k])
      BY <2>3, <2>4
  <2>6. \A n \in 1 .. k - 1 : Divided(n, factor, g[n])
      BY <1>4
  <2>7. \A n \in 1 .. k : n = k \/ n \in 1 .. k - 1
      OBVIOUS
  <2> QED
    BY <2>5, <2>6, <2>7
<1> HIDE DEF T
<1>5. \A k \in 0 .. number : k \in T
    BY <1>3, <1>4, UpTo
<1>6. number \in 0 .. number /\ number \in 1 .. number
    OBVIOUS
<1> QED
  BY <1>1, <1>5, <1>6 DEF T

---------------------------------------------------------------------------
(* Factorizations *)

(* A factorization in primes from a number on.                             *)
FactorsFrom(list, number, least) ==
    \E n \in Nat :
       /\ list \in Seq(Nat) /\ Len(list) = 2 * n
       /\ \A k \in 1 .. n : /\ TruePrime(list[2 * k - 1]) /\ list[2 * k - 1] >= least
                            /\ list[2 * k] > 0
       /\ \A k \in 2 .. n : list[2 * k - 3] < list[2 * k - 1]
       /\ number = Product([k \in 1 .. n |-> Power(list[2 * k - 1], list[2 * k])])

(* The factorization of 1 has no factors.                                  *)
LEMMA NoFactors ==
    ASSUME NEW least
    PROVE  FactorsFrom(<< >>, 1, least)
<1> DEFINE list == << >>
           powers == [k \in 1 .. 0 |-> Power(list[2 * k - 1], list[2 * k])]
<1>1. Product(powers) = 1
  <2>1. DOMAIN powers = 1 .. 0
      OBVIOUS
  <2> HIDE DEF powers
  <2> QED
    BY <2>1, ProductEmpty
<1>2. list \in Seq(Nat) /\ Len(list) = 2 * 0
    OBVIOUS
<1> HIDE DEF powers, list
<1>3. FactorsFrom(list, 1, least)
  <2>1. 0 \in Nat /\ (\A k \in 1 .. 0 : FALSE) /\ (\A k \in 2 .. 0 : FALSE)
      OBVIOUS
  <2> QED
    BY <1>1, <1>2, <2>1 DEF FactorsFrom, powers
<1> QED
  BY <1>3 DEF list

(* Two lists in a row.                                                     *)
LEMMA Joined ==
    ASSUME NEW S, NEW a \in Seq(S), NEW b \in Seq(S)
    PROVE  /\ a \o b \in Seq(S) /\ Len(a \o b) = Len(a) + Len(b)
           /\ \A i \in 1 .. Len(a) : (a \o b)[i] = a[i]
           /\ \A i \in 1 .. Len(b) : (a \o b)[Len(a) + i] = b[i]
  OBVIOUS

(* A smaller prime comes first.                                            *)
LEMMA FactorFirst ==
    ASSUME NEW p \in Nat, TruePrime(p), NEW e \in Nat, e > 0, NEW least \in Nat, least <= p,
           NEW next \in Nat, p < next, NEW m, NEW rest, FactorsFrom(rest, m, next)
    PROVE  FactorsFrom(<<p, e>> \o rest, Power(p, e) * m, least)
<1> DEFINE list == <<p, e>> \o rest
<1>1. PICK n \in Nat :
         /\ rest \in Seq(Nat) /\ Len(rest) = 2 * n
         /\ \A k \in 1 .. n : /\ TruePrime(rest[2 * k - 1]) /\ rest[2 * k - 1] >= next
                              /\ rest[2 * k] > 0
         /\ \A k \in 2 .. n : rest[2 * k - 3] < rest[2 * k - 1]
         /\ m = Product([k \in 1 .. n |-> Power(rest[2 * k - 1], rest[2 * k])])
    BY DEF FactorsFrom
<1>2. /\ list \in Seq(Nat) /\ Len(list) = 2 * n + 2 /\ list[1] = p /\ list[2] = e
      /\ \A j \in 1 .. 2 * n : list[j + 2] = rest[j]
  <2> DEFINE pair == <<p, e>>
  <2>1. pair \in Seq(Nat) /\ Len(pair) = 2 /\ pair[1] = p /\ pair[2] = e
      OBVIOUS
  <2> HIDE DEF pair
  <2>2. /\ pair \o rest \in Seq(Nat) /\ Len(pair \o rest) = Len(pair) + Len(rest)
        /\ \A i \in 1 .. Len(pair) : (pair \o rest)[i] = pair[i]
        /\ \A i \in 1 .. Len(rest) : (pair \o rest)[Len(pair) + i] = rest[i]
    <3>1. pair \in Seq(Nat)
        BY <2>1
    <3>2. rest \in Seq(Nat)
        BY <1>1
    <3> QED
      BY <3>1, <3>2, Joined
  <2>3. 1 \in 1 .. Len(pair) /\ 2 \in 1 .. Len(pair) /\ Len(pair) + Len(rest) = 2 * n + 2
      BY <1>1, <2>1
  <2>4. \A j \in 1 .. 2 * n : j \in 1 .. Len(rest) /\ Len(pair) + j = j + 2
      BY <1>1, <2>1
  <2>5. list = pair \o rest
      BY DEF pair
  <2> HIDE DEF list
  <2> QED
    BY <2>1, <2>2, <2>3, <2>4, <2>5
<1> HIDE DEF list
<1>3. ASSUME NEW k \in 1 .. n
      PROVE  list[2 * (k + 1) - 1] = rest[2 * k - 1] /\ list[2 * (k + 1)] = rest[2 * k]
  <2>1. /\ 2 * k - 1 \in 1 .. 2 * n /\ 2 * k \in 1 .. 2 * n
        /\ (2 * k - 1) + 2 = 2 * (k + 1) - 1 /\ 2 * k + 2 = 2 * (k + 1)
      OBVIOUS
  <2> QED
    BY <1>2, <2>1
<1>4. list[2 * 1 - 1] = p /\ list[2 * 1] = e
    BY <1>2
<1>5. ASSUME NEW k \in 1 .. n + 1, k # 1
      PROVE  k - 1 \in 1 .. n /\ (k - 1) + 1 = k
    BY <1>5
<1>6. ASSUME NEW k \in 1 .. n + 1
      PROVE  /\ TruePrime(list[2 * k - 1]) /\ list[2 * k - 1] >= least
             /\ list[2 * k] > 0
  <2>1. CASE k = 1
      BY <1>4, <2>1
  <2>2. CASE k # 1
    <3> DEFINE i == k - 1
    <3>1. i \in 1 .. n /\ i + 1 = k
        BY <1>5, <2>2
    <3> HIDE DEF i
    <3>2. list[2 * k - 1] = rest[2 * i - 1] /\ list[2 * k] = rest[2 * i]
        BY <1>3, <3>1
    <3>3. rest[2 * i - 1] \in Nat
      <4>1. 2 * i - 1 \in 1 .. 2 * n
          BY <3>1
      <4> QED
        BY <1>1, <4>1
    <3> QED
      BY <1>1, <3>1, <3>2, <3>3
  <2> QED
    BY <2>1, <2>2
<1>7. ASSUME NEW k \in 2 .. n + 1
      PROVE  list[2 * k - 3] < list[2 * k - 1]
  <2> DEFINE i == k - 1
  <2>1. i \in 1 .. n /\ i + 1 = k
      OBVIOUS
  <2>2. CASE i = 1
    <3>1. 2 * k - 3 = 1 /\ 1 \in 1 .. n
        BY <2>1, <2>2
    <3>2. list[2 * k - 1] = rest[2 * i - 1]
        BY <1>3, <2>1
    <3>3. rest[2 * i - 1] >= next /\ rest[2 * i - 1] \in Nat
      <4>1. 2 * i - 1 \in 1 .. 2 * n
          BY <2>1
      <4> HIDE DEF i
      <4> QED
        BY <1>1, <2>1, <4>1
    <3> HIDE DEF i
    <3> QED
      BY <1>2, <3>1, <3>2, <3>3
  <2>3. CASE i # 1
    <3>1. i \in 2 .. n /\ i - 1 \in 1 .. n /\ 2 * k - 3 = 2 * ((i - 1) + 1) - 1
          /\ 2 * (i - 1) - 1 = 2 * i - 3
        BY <2>1, <2>3
    <3>2. list[2 * k - 1] = rest[2 * i - 1]
        BY <1>3, <2>1
    <3>3. list[2 * k - 3] = rest[2 * i - 3]
      <4> DEFINE j == i - 1
      <4>1. j \in 1 .. n /\ 2 * k - 3 = 2 * (j + 1) - 1 /\ 2 * j - 1 = 2 * i - 3
          BY <3>1
      <4> HIDE DEF j, i
      <4>2. list[2 * (j + 1) - 1] = rest[2 * j - 1]
          BY <1>3, <4>1
      <4> QED
        BY <4>1, <4>2
    <3> HIDE DEF i
    <3> QED
      BY <1>1, <3>1, <3>2, <3>3
  <2> QED
    BY <2>2, <2>3
<1> DEFINE s == [k \in 1 .. n + 1 |-> Power(list[2 * k - 1], list[2 * k])]
           t == [k \in 1 .. n |-> Power(rest[2 * k - 1], rest[2 * k])]
<1>8. Power(p, e) * m = Product(s)
  <2>1. DOMAIN s = 1 .. n + 1 /\ DOMAIN t = 1 .. n
      OBVIOUS
  <2>2. ASSUME NEW k \in 1 .. n + 1
        PROVE  s[k] \in Nat
    <3>1. list[2 * k - 1] \in Nat /\ list[2 * k] \in Nat
      <4>1. 2 * k - 1 \in 1 .. 2 * n + 2 /\ 2 * k \in 1 .. 2 * n + 2
          OBVIOUS
      <4> QED
        BY <1>2, <4>1
    <3>2. list[2 * k - 1] > 0
        BY <1>6, <3>1 DEF TruePrime
    <3>3. Power(list[2 * k - 1], list[2 * k]) \in Nat
        BY <3>1, <3>2, PowerType
    <3> QED
      BY <3>3
  <2>3. ASSUME NEW k \in 1 .. n
        PROVE  t[k] = s[k + 1]
    <3>1. k + 1 \in 1 .. n + 1
        OBVIOUS
    <3>2. s[k + 1] = Power(list[2 * (k + 1) - 1], list[2 * (k + 1)])
        BY <3>1
    <3> HIDE DEF s
    <3> QED
      BY <1>3, <3>2
  <2>4. s[1] = Power(p, e)
    <3>1. 1 \in 1 .. n + 1
        OBVIOUS
    <3>2. s[1] = Power(list[2 * 1 - 1], list[2 * 1])
        BY <3>1
    <3> HIDE DEF s
    <3> QED
      BY <1>4, <3>2
  <2>5. m = Product(t)
      BY <1>1
  <2> HIDE DEF s, t
  <2>6. Product(t) \in Nat /\ Product(s) = s[1] * Product(t)
    <3>1. DOMAIN s = 1 .. n + 1
        BY <2>1
    <3>2. DOMAIN t = 1 .. n
        BY <2>1
    <3>3. \A k \in 1 .. n + 1 : s[k] \in Nat
        BY <2>2
    <3>4. \A k \in 1 .. n : t[k] = s[k + 1]
        BY <2>3
    <3> QED
      BY <3>1, <3>2, <3>3, <3>4, ProductFirst
  <2> QED
    BY <2>4, <2>5, <2>6
<1>9. n + 1 \in Nat /\ Len(list) = 2 * (n + 1)
    BY <1>2
<1>10. FactorsFrom(list, Power(p, e) * m, least)
  <2> DEFINE c == n + 1
  <2>1. c \in Nat /\ list \in Seq(Nat) /\ Len(list) = 2 * c
      BY <1>2, <1>9
  <2>2. Power(p, e) * m = Product([k \in 1 .. c |-> Power(list[2 * k - 1], list[2 * k])])
      BY <1>8
  <2>3. \A k \in 1 .. c : /\ TruePrime(list[2 * k - 1]) /\ list[2 * k - 1] >= least
                          /\ list[2 * k] > 0
      BY <1>6
  <2>4. \A k \in 2 .. c : list[2 * k - 3] < list[2 * k - 1]
      BY <1>7
  <2> HIDE DEF c
  <2> QED
    BY <2>1, <2>2, <2>3, <2>4 DEF FactorsFrom
<1> QED
  BY <1>10 DEF list

(* It is one in the sense of the definition without loops.                 *)
LEMMA FactorsAreRight ==
    ASSUME NEW number, NEW list, NEW least \in Nat, FactorsFrom(list, number, least)
    PROVE  list \in Seq(Int) /\ IsFactorization(list, number)
<1>1. PICK n \in Nat :
         /\ list \in Seq(Nat) /\ Len(list) = 2 * n
         /\ \A k \in 1 .. n : /\ TruePrime(list[2 * k - 1]) /\ list[2 * k - 1] >= least
                              /\ list[2 * k] > 0
         /\ \A k \in 2 .. n : list[2 * k - 3] < list[2 * k - 1]
         /\ number = Product([k \in 1 .. n |-> Power(list[2 * k - 1], list[2 * k])])
    BY DEF FactorsFrom
<1>2. list \in Seq(Int)
    BY <1>1
<1>3. Len(list) \div 2 = n /\ Len(list) % 2 = 0
    BY <1>1
<1> DEFINE primes == [k \in 1 .. n |-> list[2 * k - 1]]
           exponents == [k \in 1 .. n |-> list[2 * k]]
<1>4. DOMAIN primes = 1 .. n /\ Len(primes) = n
    OBVIOUS
<1>5. \A k \in 1 .. n : primes[k] = list[2 * k - 1] /\ exponents[k] = list[2 * k]
    OBVIOUS
<1>6. \A k \in 2 .. n : primes[k - 1] < primes[k]
  <2>1. SUFFICES ASSUME NEW k \in 2 .. n PROVE primes[k - 1] < primes[k]
      OBVIOUS
  <2>2. k \in 1 .. n /\ k - 1 \in 1 .. n /\ 2 * (k - 1) - 1 = 2 * k - 3
      OBVIOUS
  <2>3. primes[k - 1] = list[2 * (k - 1) - 1]
    <3> DEFINE i == k - 1
    <3> HIDE DEF i, primes
    <3>1. primes[i] = list[2 * i - 1]
        BY <1>5, <2>2 DEF i
    <3> QED
      BY <3>1 DEF i
  <2> HIDE DEF primes
  <2> QED
    BY <1>1, <1>5, <2>2, <2>3
<1>7. [k \in DOMAIN primes |-> Power(primes[k], exponents[k])]
        = [k \in 1 .. n |-> Power(list[2 * k - 1], list[2 * k])]
    BY <1>4, <1>5
<1>8. /\ Len(list) % 2 = 0
      /\ \A k \in DOMAIN primes : TruePrime(primes[k]) /\ exponents[k] > 0
      /\ \A k \in 2 .. Len(primes) : primes[k - 1] < primes[k]
      /\ number = Product([k \in DOMAIN primes |-> Power(primes[k], exponents[k])])
  <2> HIDE DEF primes, exponents
  <2> QED
    BY <1>1, <1>3, <1>4, <1>5, <1>6, <1>7
<1>9. IsFactorization(list, number)
  <2>1. IsFactorization(list, number)
          <=> /\ Len(list) % 2 = 0
              /\ \A k \in DOMAIN primes : TruePrime(primes[k]) /\ exponents[k] > 0
              /\ \A k \in 2 .. Len(primes) : primes[k - 1] < primes[k]
              /\ number = Product([k \in DOMAIN primes |-> Power(primes[k], exponents[k])])
      BY <1>3 DEF IsFactorization
  <2> QED
    BY <1>8, <2>1
<1> QED
  BY <1>2, <1>9

(* A factorization from a number on is one from each smaller number on.    *)
LEMMA FactorsFromLess ==
    ASSUME NEW number, NEW list, NEW least \in Nat, NEW less \in Nat, less <= least,
           FactorsFrom(list, number, least)
    PROVE  FactorsFrom(list, number, less)
<1>1. PICK n \in Nat :
         /\ list \in Seq(Nat) /\ Len(list) = 2 * n
         /\ \A k \in 1 .. n : /\ TruePrime(list[2 * k - 1]) /\ list[2 * k - 1] >= least
                              /\ list[2 * k] > 0
         /\ \A k \in 2 .. n : list[2 * k - 3] < list[2 * k - 1]
         /\ number = Product([k \in 1 .. n |-> Power(list[2 * k - 1], list[2 * k])])
    BY DEF FactorsFrom
<1>2. ASSUME NEW k \in 1 .. n
      PROVE  list[2 * k - 1] >= less
  <2>1. list[2 * k - 1] \in Nat
    <3>1. 2 * k - 1 \in 1 .. 2 * n
        OBVIOUS
    <3> QED
      BY <1>1, <3>1
  <2> QED
    BY <1>1, <2>1
<1> QED
  BY <1>1, <1>2 DEF FactorsFrom

(* What is left, when it is greater than 1, is the last prime.             *)
LEMMA LastFactor ==
    ASSUME NEW n \in Nat, TruePrime(n), NEW least \in Nat, least <= n
    PROVE  FactorsFrom(<<n, 1>>, n, least)
<1>1. FactorsFrom(<< >>, 1, n + 1)
    BY NoFactors
<1>2. FactorsFrom(<<n, 1>> \o << >>, Power(n, 1) * 1, least)
  <2>1. n + 1 \in Nat /\ n < n + 1 /\ 1 \in Nat /\ 1 > 0
      OBVIOUS
  <2> QED
    BY <1>1, <2>1, FactorFirst
<1>3. Power(n, 1) * 1 = n
  <2>1. 0 \in Nat
      OBVIOUS
  <2>2. Power(n, 0) = 1 /\ Power(n, 0 + 1) = Power(n, 0) * n
      BY <2>1, PowerNext
  <2>3. Power(n, 1) = 1 * n
      BY <2>2
  <2>4. (1 * n) * 1 = n
      OBVIOUS
  <2> QED
    BY <2>3, <2>4
<1>4. <<n, 1>> \o << >> = <<n, 1>>
    OBVIOUS
<1> QED
  BY <1>2, <1>3, <1>4

---------------------------------------------------------------------------
(* The loop over the odd factors *)

FactorBody(g, factor, n) ==
    IF factor * factor > n
    THEN IF n > 1 THEN <<n, 1>> ELSE << >>
    ELSE IF n % factor # 0 \/ ~IsPrime(factor)
    THEN g[factor + 2][n]
    ELSE LET divided == DivideWhileDivisible(n, factor)
         IN  <<factor, divided[1]>> \o g[factor + 2][divided[2]]

FactorLoop(number, first, g) ==
    g = [factor \in first .. number + 2 |->
            [n \in 1 .. number |-> FactorBody(g, factor, n)]]

AgreeAfter(number, factor, n, g, h) ==
    factor * factor <= n => \A m \in 1 .. number : g[factor + 2][m] = h[factor + 2][m]

\* Two loops that agree from the next factor on have the same body.
LEMMA SameBody ==
    ASSUME NEW number \in Nat, NEW factor \in Nat, factor > 1, NEW n \in 1 .. number,
           NEW g, NEW h,
           AgreeAfter(number, factor, n, g, h)
    PROVE  FactorBody(g, factor, n) = FactorBody(h, factor, n)
<1>1. n \in Nat /\ n > 0
    OBVIOUS
<1>2. CASE factor * factor > n
    BY <1>2 DEF FactorBody
<1>3. CASE ~(factor * factor > n)
  <2>1. factor * factor <= n
    <3>1. factor * factor \in Nat
        OBVIOUS
    <3> QED
      BY <1>1, <1>3, <3>1
  <2>2. Divided(n, factor, DivideWhileDivisible(n, factor))
      BY <1>1, DividesAll
  <2>3. DivideWhileDivisible(n, factor)[2] \in 1 .. number
    <3>1. PICK e \in Nat, m \in 1 .. n : DivideWhileDivisible(n, factor) = <<e, m>>
        BY <2>2 DEF Divided
    <3> HIDE DEF DivideWhileDivisible
    <3>2. DivideWhileDivisible(n, factor)[2] = m
        BY <3>1
    <3> QED
      BY <3>2
  <2>4. g[factor + 2][n] = h[factor + 2][n]
      BY <2>1 DEF AgreeAfter
  <2>5. g[factor + 2][DivideWhileDivisible(n, factor)[2]]
          = h[factor + 2][DivideWhileDivisible(n, factor)[2]]
      BY <2>1, <2>3 DEF AgreeAfter
  <2> QED
    BY <1>3, <2>4, <2>5 DEF FactorBody
<1> QED
  BY <1>2, <1>3

(* There is such a function: the factor grows, up to the number.           *)
LEMMA FactorLoopExists ==
    ASSUME NEW number \in Nat
    PROVE  \E g : FactorLoop(number, 3, g)
<1> DEFINE T == {k \in 0 .. number : \E g : FactorLoop(number, number + 3 - k, g)}
<1>1. 0 \in T
  <2> DEFINE g == [factor \in number + 3 .. number + 2 |-> 0]
  <2>1. number + 3 - 0 = number + 3 /\ \A f : f \notin number + 3 .. number + 2
      OBVIOUS
  <2>2. g = [factor \in number + 3 .. number + 2 |->
              [n \in 1 .. number |-> FactorBody(g, factor, n)]]
    <3>1. \A c : [factor \in number + 3 .. number + 2 |-> 0]
             = [factor \in number + 3 .. number + 2 |->
                  [n \in 1 .. number |-> FactorBody(c, factor, n)]]
        BY <2>1
    <3> QED
      BY <3>1
  <2> HIDE DEF g
  <2>3. FactorLoop(number, number + 3 - 0, g)
      BY <2>1, <2>2 DEF FactorLoop
  <2> QED
    BY <2>3
<1>2. ASSUME NEW k \in 1 .. number, k - 1 \in T
      PROVE  k \in T
  <2> DEFINE lo == number + 3 - k
  <2>1. lo \in Nat /\ lo >= 3 /\ lo <= number + 2 /\ number + 3 - (k - 1) = lo + 1
      OBVIOUS
  <2>2. PICK h : FactorLoop(number, lo + 1, h)
      BY <1>2, <2>1
  <2> HIDE DEF lo
  <2> DEFINE g == [factor \in lo .. number + 2 |->
                      IF factor = lo THEN [n \in 1 .. number |-> FactorBody(h, factor, n)]
                      ELSE h[factor]]
  <2>3. ASSUME NEW f \in lo + 1 .. number + 2, NEW n \in 1 .. number
        PROVE  g[f][n] = h[f][n] /\ h[f][n] = FactorBody(h, f, n)
    <3>1. f \in lo .. number + 2 /\ f # lo
        BY <2>1
    <3>2. g[f][n] = h[f][n]
        BY <3>1
    <3>3. h[f][n] = FactorBody(h, f, n)
      <4>1. h[f] = [m \in 1 .. number |-> FactorBody(h, f, m)]
          BY <2>2 DEF FactorLoop
      <4> HIDE DEF g
      <4> QED
        BY <4>1
    <3> QED
      BY <3>2, <3>3
  <2>4. ASSUME NEW f \in lo .. number + 2, NEW n \in 1 .. number
        PROVE  g[f][n] = FactorBody(g, f, n)
    <3>1. f \in Nat /\ f > 1
        BY <2>1
    <3>2. f * f <= n => f + 2 \in lo + 1 .. number + 2
      <4>1. ASSUME f * f <= n PROVE f <= n
        <5>1. 1 * f <= f * f
            BY <3>1, Products
        <5>2. f * f \in Nat
            BY <3>1
        <5> QED
          BY <3>1, <4>1, <5>1, <5>2
      <4> QED
        BY <2>1, <3>1, <4>1
    <3>3. AgreeAfter(number, f, n, g, h)
      <4> HIDE DEF g
      <4> QED
        BY <2>3, <3>2 DEF AgreeAfter
    <3>4. g[f][n] = IF f = lo THEN FactorBody(h, f, n) ELSE h[f][n]
        OBVIOUS
    <3> HIDE DEF g
    <3>5. FactorBody(g, f, n) = FactorBody(h, f, n)
      <4>1. number \in Nat /\ n \in 1 .. number
          OBVIOUS
      <4> HIDE DEF T
      <4> QED
        BY <3>1, <3>3, <4>1, SameBody
    <3>6. f # lo => h[f][n] = FactorBody(h, f, n)
      <4>1. f # lo => f \in lo + 1 .. number + 2
          BY <2>1
      <4> QED
        BY <2>3, <4>1
    <3> QED
      BY <3>4, <3>5, <3>6
  <2>5. g = [factor \in lo .. number + 2 |-> [n \in 1 .. number |-> g[factor][n]]]
    <3>1. ASSUME NEW f \in lo .. number + 2
          PROVE  g[f] = [n \in 1 .. number |-> g[f][n]]
      <4>1. CASE f = lo
        <5>1. g[f] = [n \in 1 .. number |-> FactorBody(h, f, n)]
            BY <2>1, <4>1
        <5> HIDE DEF g
        <5> QED
          BY <5>1
      <4>2. CASE f # lo
        <5>1. f \in lo + 1 .. number + 2
            BY <2>1, <4>2
        <5>2. h[f] = [n \in 1 .. number |-> FactorBody(h, f, n)]
            BY <2>2, <5>1 DEF FactorLoop
        <5>3. g[f] = h[f]
            BY <4>2
        <5> HIDE DEF g
        <5> QED
          BY <5>2, <5>3
      <4> QED
        BY <4>1, <4>2
    <3>2. g = [factor \in lo .. number + 2 |-> g[factor]]
        OBVIOUS
    <3> HIDE DEF g
    <3> QED
      BY <3>1, <3>2
  <2> HIDE DEF g
  <2>6. FactorLoop(number, lo, g)
      BY <2>4, <2>5 DEF FactorLoop
  <2> QED
    BY <2>6 DEF lo
<1> HIDE DEF T
<1>3. \A k \in 0 .. number : k \in T
    BY <1>1, <1>2, UpTo
<1>4. number \in 0 .. number /\ number + 3 - number = 3
    OBVIOUS
<1>5. number \in T
    BY <1>3, <1>4
<1> QED
  BY <1>4, <1>5 DEF T

NoDivisorBelow(bound, n) == \A d \in 2 .. bound - 1 : ~Divides(d, n)

(* An odd number without a divisor below an odd one has none below the     *)
(* next odd one, unless that one divides it.                               *)
LEMMA NextOdd ==
    ASSUME NEW n \in Nat, n > 0, n % 2 = 1, NEW f \in Nat, f > 1, f % 2 = 1,
           NoDivisorBelow(f, n), ~Divides(f, n)
    PROVE  NoDivisorBelow(f + 2, n)
<1>1. SUFFICES ASSUME NEW d \in 2 .. (f + 2) - 1, Divides(d, n) PROVE FALSE
    BY DEF NoDivisorBelow
<1>2. d = f + 1
  <2>1. d # f
      BY <1>1
  <2>2. d \notin 2 .. f - 1
      BY <1>1 DEF NoDivisorBelow
  <2> QED
    BY <2>1, <2>2
<1>3. Divides(2, d)
    BY <1>2 DEF Divides
<1>4. Divides(2, n)
    BY <1>1, <1>3, DividesOn
<1> QED
  BY <1>4 DEF Divides

(* The loop finds the factorization of what is left, if nothing below the  *)
(* factor divides it.                                                      *)
LEMMA FactorRound ==
    ASSUME NEW number \in Nat, NEW f \in Nat, f > 1, f % 2 = 1, NEW n \in 1 .. number,
           n % 2 = 1, n <= SafeLimit, NoDivisorBelow(f, n), NEW g,
           f <= n => \A m \in 1 .. number :
                        m % 2 = 1 /\ m <= SafeLimit /\ NoDivisorBelow(f + 2, m)
                           => FactorsFrom(g[f + 2][m], m, f + 2)
    PROVE  FactorsFrom(FactorBody(g, f, n), n, f)
<1>1. n \in Nat /\ n > 0 /\ f * f \in Nat /\ SafeLimit \in Int
    BY LimitType
<1>2. CASE f * f > n
  <2>1. CASE n = 1
    <3>1. FactorBody(g, f, n) = << >>
        BY <1>2, <2>1 DEF FactorBody
    <3> QED
      BY <2>1, <3>1, NoFactors
  <2>2. CASE n # 1
    <3>1. FactorBody(g, f, n) = <<n, 1>> /\ n > 1
        BY <1>1, <1>2, <2>2 DEF FactorBody
    <3>2. ASSUME NEW d \in 2 .. n, d * d <= n
          PROVE  ~Divides(d, n)
      <4>1. d < f
        <5>1. SUFFICES ASSUME f <= d PROVE FALSE
            OBVIOUS
        <5>2. f * f <= d * d /\ d * d \in Nat
            BY <5>1, Products
        <5> QED
          BY <1>1, <1>2, <3>2, <5>2
      <4> QED
        BY <4>1 DEF NoDivisorBelow
    <3>3. TruePrime(n)
        BY <1>1, <3>1, <3>2, PrimeUpToRoot
    <3>4. f <= n
      <4>1. SUFFICES ASSUME n < f PROVE FALSE
          OBVIOUS
      <4>2. n \in 2 .. f - 1 /\ Divides(n, n)
        <5>1. (n * 1) % n = 0 /\ n * 1 = n
            BY <1>1, Multiple
        <5> QED
          BY <3>1, <4>1, <5>1 DEF Divides
      <4> QED
        BY <4>2 DEF NoDivisorBelow
    <3> QED
      BY <1>1, <3>1, <3>3, <3>4, LastFactor
  <2> QED
    BY <2>1, <2>2
<1>3. CASE f * f <= n
  <2>1. f <= n
    <3>1. 1 * f <= f * f
        BY Products
    <3> QED
      BY <1>1, <1>3, <3>1
  <2>2. \A m \in 1 .. number :
           m % 2 = 1 /\ m <= SafeLimit /\ NoDivisorBelow(f + 2, m)
              => FactorsFrom(g[f + 2][m], m, f + 2)
      BY <2>1
  <2>3. ~(f * f > n)
      BY <1>1, <1>3
  <2>4. CASE ~Divides(f, n)
    <3>1. FactorBody(g, f, n) = g[f + 2][n]
        BY <2>3, <2>4 DEF FactorBody, Divides
    <3>2. NoDivisorBelow(f + 2, n)
        BY <1>1, <2>4, NextOdd
    <3>3. FactorsFrom(g[f + 2][n], n, f + 2)
        BY <2>2, <3>2
    <3>4. f + 2 \in Nat /\ f <= f + 2
        OBVIOUS
    <3>5. FactorsFrom(g[f + 2][n], n, f)
        BY <3>3, <3>4, FactorsFromLess
    <3> QED
      BY <3>1, <3>5
  <2>5. CASE Divides(f, n)
    <3>1. TruePrime(f)
      <4>1. SUFFICES ASSUME NEW d \in 2 .. f - 1, f % d = 0 PROVE FALSE
          BY DEF TruePrime
      <4>2. Divides(d, f)
          BY <4>1 DEF Divides
      <4>3. d \in Nat /\ d > 0 /\ f > 0
          OBVIOUS
      <4>4. Divides(d, n)
          BY <1>1, <2>5, <4>2, <4>3, DividesOn
      <4> QED
        BY <4>4 DEF NoDivisorBelow
    <3>2. IsPrime(f)
      <4>1. f \in Int /\ f <= SafeLimit
          BY <1>1, <2>1
      <4> QED
        BY <3>1, <4>1, PrimesRight
    <3> DEFINE divided == DivideWhileDivisible(n, f)
    <3>3. FactorBody(g, f, n) = <<f, divided[1]>> \o g[f + 2][divided[2]]
        BY <2>3, <2>5, <3>2 DEF FactorBody, Divides
    <3>4. Divided(n, f, divided)
        BY <1>1, DividesAll
    <3> HIDE DEF divided
    <3>5. PICK e \in Nat, m \in 1 .. n :
             /\ divided = <<e, m>> /\ n = Power(f, e) * m
             /\ ~Divides(f, m) /\ Divides(m, n) /\ (Divides(f, n) => e > 0)
        BY <3>4 DEF Divided
    <3>6. m \in Nat /\ m > 0 /\ m \in 1 .. number /\ m <= SafeLimit /\ e > 0
        BY <1>1, <2>5, <3>5
    <3>7. m % 2 = 1
      <4>1. ~Divides(2, m)
        <5>1. SUFFICES ASSUME Divides(2, m) PROVE FALSE
            OBVIOUS
        <5>2. Divides(2, n)
            BY <1>1, <3>5, <3>6, <5>1, DividesOn
        <5> QED
          BY <5>2 DEF Divides
      <4> QED
        BY <3>6, <4>1 DEF Divides
    <3>8. NoDivisorBelow(f, m)
      <4>1. SUFFICES ASSUME NEW d \in 2 .. f - 1, Divides(d, m) PROVE FALSE
          BY DEF NoDivisorBelow
      <4>2. Divides(d, n)
          BY <1>1, <3>5, <3>6, <4>1, DividesOn
      <4> QED
        BY <4>2 DEF NoDivisorBelow
    <3>9. NoDivisorBelow(f + 2, m)
        BY <3>5, <3>6, <3>7, <3>8, NextOdd
    <3>10. FactorsFrom(g[f + 2][m], m, f + 2)
        BY <2>2, <3>6, <3>7, <3>9
    <3>11. FactorsFrom(<<f, e>> \o g[f + 2][m], Power(f, e) * m, f)
      <4>1. f + 2 \in Nat /\ f < f + 2 /\ f <= f
          OBVIOUS
      <4> QED
        BY <3>1, <3>6, <3>10, <4>1, FactorFirst
    <3>12. FactorBody(g, f, n) = <<f, e>> \o g[f + 2][m]
        BY <3>3, <3>5
    <3> QED
      BY <3>5, <3>11, <3>12
  <2> QED
    BY <2>4, <2>5
<1>4. f * f > n \/ f * f <= n
    BY <1>1
<1> QED
  BY <1>2, <1>3, <1>4

(* So it does from the factor 3 on.                                        *)
LEMMA OddFactorsRight ==
    ASSUME NEW number \in Nat, number % 2 = 1, number <= SafeLimit
    PROVE  FactorsFrom(OddFactors(number), number, 3)
<1> DEFINE g == CHOOSE h : FactorLoop(number, 3, h)
<1>1. OddFactors(number) = g[3][number]
    BY DEF OddFactors, FactorLoop, FactorBody
<1>2. FactorLoop(number, 3, g)
    BY FactorLoopExists
<1> HIDE DEF g
<1> DEFINE Right(f) == \A n \in 1 .. number :
                          n % 2 = 1 /\ n <= SafeLimit /\ NoDivisorBelow(f, n)
                             => FactorsFrom(g[f][n], n, f)
           T == {k \in 0 .. number :
                   \A f \in number + 3 - k .. number + 2 : f % 2 = 1 => Right(f)}
<1>3. 0 \in T
  <2>1. \A f : f \notin number + 3 - 0 .. number + 2
      OBVIOUS
  <2> HIDE DEF Right
  <2> QED
    BY <2>1
<1>4. ASSUME NEW k \in 1 .. number, k - 1 \in T
      PROVE  k \in T
  <2>1. SUFFICES ASSUME NEW f \in number + 3 - k .. number + 2, f % 2 = 1
                 PROVE  Right(f)
    <3> HIDE DEF Right
    <3> QED
      BY <2>1
  <2>2. CASE f # number + 3 - k
    <3>1. f \in number + 3 - (k - 1) .. number + 2
        BY <2>2
    <3> HIDE DEF Right
    <3> QED
      BY <1>4, <2>1, <3>1
  <2>3. CASE f = number + 3 - k
    <3>1. SUFFICES ASSUME NEW n \in 1 .. number, n % 2 = 1, n <= SafeLimit,
                          NoDivisorBelow(f, n)
                   PROVE  FactorsFrom(g[f][n], n, f)
        OBVIOUS
    <3>2. f \in Nat /\ f > 1 /\ f \in 3 .. number + 2
        BY <2>3
    <3>3. g[f][n] = FactorBody(g, f, n)
      <4>1. g[f] = [m \in 1 .. number |-> FactorBody(g, f, m)]
        <5> HIDE DEF T
        <5> QED
          BY <1>2, <3>2 DEF FactorLoop
      <4> HIDE DEF T
      <4> QED
        BY <4>1
    <3>4. f <= n => Right(f + 2)
      <4>1. f <= n => f + 2 \in number + 3 - (k - 1) .. number + 2 /\ (f + 2) % 2 = 1
          BY <2>1, <2>3, <3>2
      <4> HIDE DEF Right
      <4> QED
        BY <1>4, <4>1
    <3>5. FactorsFrom(FactorBody(g, f, n), n, f)
      <4>1. f <= n => \A m \in 1 .. number :
                        m % 2 = 1 /\ m <= SafeLimit /\ NoDivisorBelow(f + 2, m)
                           => FactorsFrom(g[f + 2][m], m, f + 2)
          BY <3>4
      <4> HIDE DEF T, Right
      <4> QED
        BY <2>1, <3>1, <3>2, <4>1, FactorRound
    <3> QED
      BY <3>3, <3>5
  <2> QED
    BY <2>2, <2>3
<1> HIDE DEF T
<1>5. \A k \in 0 .. number : k \in T
    BY <1>3, <1>4, UpTo
<1>6. number \in 0 .. number /\ 3 \in number + 3 - number .. number + 2 /\ 3 % 2 = 1
      /\ number \in 1 .. number
    OBVIOUS
<1>7. Right(3)
  <2> HIDE DEF Right
  <2> QED
    BY <1>5, <1>6 DEF T
<1>8. NoDivisorBelow(3, number)
  <2>1. \A d \in 2 .. 3 - 1 : d = 2
      OBVIOUS
  <2> QED
    BY <2>1 DEF NoDivisorBelow, Divides
<1> QED
  BY <1>1, <1>6, <1>7, <1>8

(* PrimeFactCalculator finds the factorization of every number below the   *)
(* limit up to which isPrime() is right.                                   *)
THEOREM FactorizationRight ==
    ASSUME NEW number \in Int, number <= SafeLimit
    PROVE  /\ PrimeFactors(number) \in Seq(Int)
           /\ IF number <= 1 THEN PrimeFactors(number) = << >>
              ELSE IsFactorization(PrimeFactors(number), number)
<1>1. CASE number <= 1
    BY <1>1 DEF PrimeFactors
<1>2. CASE number > 1
  <2>1. number \in Nat /\ number > 0 /\ ~(number <= 1)
      BY <1>2
  <2>2. CASE number % 2 # 0
    <3>1. PrimeFactors(number) = OddFactors(number)
        BY <2>1, <2>2 DEF PrimeFactors
    <3>2. FactorsFrom(OddFactors(number), number, 3)
      <4>1. number % 2 = 1
          BY <2>1, <2>2
      <4> QED
        BY <2>1, <4>1, OddFactorsRight
    <3> QED
      BY <2>1, <3>1, <3>2, FactorsAreRight
  <2>3. CASE number % 2 = 0
    <3> DEFINE divided == DivideWhileDivisible(number, 2)
    <3>1. PrimeFactors(number) = <<2, divided[1]>> \o OddFactors(divided[2])
        BY <2>1, <2>3 DEF PrimeFactors
    <3>2. Divided(number, 2, divided)
        BY <2>1, DividesAll
    <3> HIDE DEF divided
    <3>3. PICK e \in Nat, m \in 1 .. number :
             /\ divided = <<e, m>> /\ number = Power(2, e) * m
             /\ ~Divides(2, m) /\ Divides(m, number) /\ (Divides(2, number) => e > 0)
        BY <3>2 DEF Divided
    <3>4. e > 0
        BY <2>3, <3>3 DEF Divides
    <3>5. m \in Nat /\ m % 2 = 1
        BY <3>3 DEF Divides
    <3>6. m <= SafeLimit
        BY LimitType
    <3>7. FactorsFrom(OddFactors(m), m, 3)
        BY <3>5, <3>6, OddFactorsRight
    <3>8. TruePrime(2)
        BY DEF TruePrime
    <3>9. FactorsFrom(<<2, e>> \o OddFactors(m), Power(2, e) * m, 2)
      <4>1. 2 \in Nat /\ 3 \in Nat /\ 2 < 3 /\ 2 <= 2
          OBVIOUS
      <4> QED
        BY <3>4, <3>7, <3>8, <4>1, FactorFirst
    <3>10. FactorsFrom(PrimeFactors(number), number, 2)
        BY <3>1, <3>3, <3>9
    <3> QED
      BY <2>1, <3>10, FactorsAreRight
  <2>4. number % 2 = 0 \/ number % 2 # 0
      OBVIOUS
  <2> QED
    BY <2>2, <2>3
<1> QED
  BY <1>1, <1>2

---------------------------------------------------------------------------
(* Lists of sums *)

Group(list, operands, k) == [j \in 1 .. operands |-> list[operands * (k - 1) + j]]

(* A list has each sum of a set once, its operands in a row.               *)
Enumerates(list, operands, sums) ==
    \E n \in Nat :
       /\ list \in Seq(Int) /\ Len(list) = operands * n
       /\ sums = {Group(list, operands, k) : k \in 1 .. n}
       /\ \A j, k \in 1 .. n : Group(list, operands, j) = Group(list, operands, k) => j = k

(* A list without sums.                                                    *)
LEMMA NoSums ==
    ASSUME NEW operands \in {2, 3}
    PROVE  Enumerates(<< >>, operands, {})
<1>1. /\ 0 \in Nat /\ << >> \in Seq(Int) /\ Len(<< >>) = operands * 0
      /\ \A k : k \notin 1 .. 0
    OBVIOUS
<1>2. {Group(<< >>, operands, k) : k \in 1 .. 0} = {}
    BY <1>1
<1> QED
  BY <1>1, <1>2 DEF Enumerates

(* The list of one sum, of two operands or of three.                       *)
LEMMA OneSum ==
    ASSUME NEW p \in Int, NEW q \in Int, NEW r \in Int
    PROVE  Enumerates(<<p, q>>, 2, {<<p, q>>}) /\ Enumerates(<<p, q, r>>, 3, {<<p, q, r>>})
<1>1. ASSUME NEW list \in Seq(Int), NEW operands \in {2, 3}, Len(list) = operands
      PROVE  Enumerates(list, operands, {list})
  <2>1. Group(list, operands, 1) = list
    <3>1. \A j \in 1 .. operands : operands * (1 - 1) + j = j
        OBVIOUS
    <3>2. Group(list, operands, 1) = [j \in 1 .. operands |-> list[j]]
        BY <3>1 DEF Group
    <3>3. list = [j \in 1 .. operands |-> list[j]]
        BY <1>1
    <3> QED
      BY <3>2, <3>3
  <2>2. {Group(list, operands, k) : k \in 1 .. 1} = {list}
    <3>1. \A k : k \in 1 .. 1 <=> k = 1
        OBVIOUS
    <3> QED
      BY <2>1, <3>1
  <2>3. 1 \in Nat /\ Len(list) = operands * 1 /\ \A j, k \in 1 .. 1 : j = k
      BY <1>1
  <2> QED
    BY <2>2, <2>3 DEF Enumerates
<1>2. <<p, q>> \in Seq(Int) /\ Len(<<p, q>>) = 2 /\ 2 \in {2, 3}
    OBVIOUS
<1>3. <<p, q, r>> \in Seq(Int) /\ Len(<<p, q, r>>) = 3 /\ 3 \in {2, 3}
    OBVIOUS
<1>4. Enumerates(<<p, q>>, 2, {<<p, q>>})
    BY <1>1, <1>2
<1>5. Enumerates(<<p, q, r>>, 3, {<<p, q, r>>})
    BY <1>1, <1>3
<1> QED
  BY <1>4, <1>5

(* Two lists in a row, when no sum is in both.                             *)
LEMMA SumsJoined ==
    ASSUME NEW operands \in {2, 3}, NEW a, NEW b, NEW S, NEW T, S \cap T = {},
           Enumerates(a, operands, S), Enumerates(b, operands, T)
    PROVE  Enumerates(a \o b, operands, S \cup T)
<1>1. PICK m \in Nat :
         /\ a \in Seq(Int) /\ Len(a) = operands * m
         /\ S = {Group(a, operands, k) : k \in 1 .. m}
         /\ \A j, k \in 1 .. m : Group(a, operands, j) = Group(a, operands, k) => j = k
    BY DEF Enumerates
<1>2. PICK n \in Nat :
         /\ b \in Seq(Int) /\ Len(b) = operands * n
         /\ T = {Group(b, operands, k) : k \in 1 .. n}
         /\ \A j, k \in 1 .. n : Group(b, operands, j) = Group(b, operands, k) => j = k
    BY DEF Enumerates
<1> DEFINE list == a \o b
           G(k) == Group(list, operands, k)
<1>3. /\ list \in Seq(Int) /\ Len(list) = Len(a) + Len(b)
      /\ \A i \in 1 .. Len(a) : list[i] = a[i]
      /\ \A i \in 1 .. Len(b) : list[Len(a) + i] = b[i]
  <2>1. a \in Seq(Int)
      BY <1>1
  <2>2. b \in Seq(Int)
      BY <1>2
  <2>3. /\ a \o b \in Seq(Int) /\ Len(a \o b) = Len(a) + Len(b)
        /\ \A i \in 1 .. Len(a) : (a \o b)[i] = a[i]
        /\ \A i \in 1 .. Len(b) : (a \o b)[Len(a) + i] = b[i]
      BY <2>1, <2>2, Joined
  <2> QED
    BY <2>3
<1> HIDE DEF list
<1>4. Len(list) = operands * (m + n) /\ m + n \in Nat
  <2>1. operands = 2 \/ operands = 3
      OBVIOUS
  <2> QED
    BY <1>1, <1>2, <1>3, <2>1
<1>5. ASSUME NEW k \in 1 .. m
      PROVE  G(k) = Group(a, operands, k)
  <2>1. ASSUME NEW j \in 1 .. operands
        PROVE  list[operands * (k - 1) + j] = a[operands * (k - 1) + j]
    <3>1. operands * (k - 1) + j \in 1 .. operands * m
      <4>1. CASE operands = 2
          BY <4>1
      <4>2. CASE operands = 3
          BY <4>2
      <4> QED
        BY <4>1, <4>2
    <3> QED
      BY <1>1, <1>3, <3>1
  <2> QED
    BY <2>1 DEF Group
<1>6. ASSUME NEW k \in 1 .. n
      PROVE  G(m + k) = Group(b, operands, k)
  <2>1. ASSUME NEW j \in 1 .. operands
        PROVE  list[operands * ((m + k) - 1) + j] = b[operands * (k - 1) + j]
    <3>1. /\ operands * (k - 1) + j \in 1 .. operands * n
          /\ operands * ((m + k) - 1) + j = operands * m + (operands * (k - 1) + j)
      <4>1. CASE operands = 2
          BY <4>1
      <4>2. CASE operands = 3
          BY <4>2
      <4> QED
        BY <4>1, <4>2
    <3> QED
      BY <1>1, <1>2, <1>3, <3>1
  <2> QED
    BY <2>1 DEF Group
<1>7. \A k \in 1 .. m + n : k \in 1 .. m \/ \E i \in 1 .. n : k = m + i
  <2>1. SUFFICES ASSUME NEW k \in 1 .. m + n, k \notin 1 .. m
                 PROVE  \E i \in 1 .. n : k = m + i
      OBVIOUS
  <2>2. k - m \in 1 .. n /\ k = m + (k - m)
      BY <2>1
  <2> QED
    BY <2>2
<1>8. \A k \in 1 .. m : k \in 1 .. m + n
    OBVIOUS
<1>9. \A i \in 1 .. n : m + i \in 1 .. m + n
    OBVIOUS
<1>10. \A k \in 1 .. m : G(k) \in S
    BY <1>1, <1>5
<1>11. \A i \in 1 .. n : G(m + i) \in T
    BY <1>2, <1>6
<1>12. S \cup T = {G(k) : k \in 1 .. m + n}
  <2>1. \A s \in S : \E k \in 1 .. m + n : s = G(k)
    <3> HIDE DEF G
    <3> QED
      BY <1>1, <1>5, <1>8
  <2>2. \A s \in T : \E k \in 1 .. m + n : s = G(k)
    <3>1. SUFFICES ASSUME NEW s \in T PROVE \E k \in 1 .. m + n : s = G(k)
        OBVIOUS
    <3>2. PICK i \in 1 .. n : s = Group(b, operands, i)
        BY <1>2
    <3> HIDE DEF G
    <3>3. s = G(m + i) /\ m + i \in 1 .. m + n
        BY <1>6, <1>9, <3>2
    <3> QED
      BY <3>3
  <2>3. \A k \in 1 .. m + n : G(k) \in S \cup T
    <3> HIDE DEF G
    <3> QED
      BY <1>7, <1>10, <1>11
  <2> HIDE DEF G
  <2> QED
    BY <2>1, <2>2, <2>3
<1>13. ASSUME NEW j \in 1 .. m + n, NEW k \in 1 .. m + n, G(j) = G(k)
       PROVE  j = k
  <2> HIDE DEF G
  <2>1. CASE j \in 1 .. m /\ k \in 1 .. m
      BY <1>1, <1>5, <1>13, <2>1
  <2>2. CASE j \notin 1 .. m /\ k \notin 1 .. m
    <3>1. PICK i \in 1 .. n : j = m + i
        BY <1>7, <2>2
    <3>2. PICK h \in 1 .. n : k = m + h
        BY <1>7, <2>2
    <3>3. Group(b, operands, i) = Group(b, operands, h)
        BY <1>6, <1>13, <3>1, <3>2
    <3> QED
      BY <1>2, <3>1, <3>2, <3>3
  <2>3. CASE j \in 1 .. m /\ k \notin 1 .. m
    <3>1. PICK h \in 1 .. n : k = m + h
        BY <1>7, <2>3
    <3> QED
      BY <1>10, <1>11, <1>13, <2>3, <3>1
  <2>4. CASE j \notin 1 .. m /\ k \in 1 .. m
    <3>1. PICK h \in 1 .. n : j = m + h
        BY <1>7, <2>4
    <3> QED
      BY <1>10, <1>11, <1>13, <2>4, <3>1
  <2> QED
    BY <2>1, <2>2, <2>3, <2>4
<1>14. Enumerates(list, operands, S \cup T)
  <2>1. \A j, k \in 1 .. m + n : Group(list, operands, j) = Group(list, operands, k) => j = k
      BY <1>13
  <2> DEFINE c == m + n
  <2>2. /\ c \in Nat /\ list \in Seq(Int) /\ Len(list) = operands * c
        /\ S \cup T = {Group(list, operands, k) : k \in 1 .. c}
        /\ \A j, k \in 1 .. c : Group(list, operands, j) = Group(list, operands, k) => j = k
      BY <1>3, <1>4, <1>12, <2>1
  <2> HIDE DEF c
  <2> QED
    BY <2>2 DEF Enumerates
<1> QED
  BY <1>14 DEF list

Flattened(seqs, n, g) ==
    g = [i \in 1 .. n |-> IF i = 1 THEN seqs[i] ELSE g[i - 1] \o seqs[i]]

(* Sequences one after the other: there is such a function.                *)
LEMMA FlattenedExists ==
    ASSUME NEW seqs, NEW n \in Nat
    PROVE  \E g : Flattened(seqs, n, g)
<1> DEFINE T == {k \in 0 .. n : \E g : Flattened(seqs, k, g)}
<1>1. 0 \in T
  <2> DEFINE g == [i \in 1 .. 0 |-> 0]
  <2>1. \A c : [i \in 1 .. 0 |-> 0]
                  = [i \in 1 .. 0 |-> IF i = 1 THEN seqs[i] ELSE c[i - 1] \o seqs[i]]
      OBVIOUS
  <2>2. Flattened(seqs, 0, g)
      BY <2>1 DEF Flattened
  <2> QED
    BY <2>2
<1>2. ASSUME NEW k \in 1 .. n, k - 1 \in T
      PROVE  k \in T
  <2>1. PICK h : Flattened(seqs, k - 1, h)
      BY <1>2
  <2> DEFINE Body(f, i) == IF i = 1 THEN seqs[i] ELSE f[i - 1] \o seqs[i]
             g == [i \in 1 .. k |-> IF i = k THEN Body(h, k) ELSE h[i]]
  <2>2. ASSUME NEW i \in 1 .. k
        PROVE  g[i] = Body(g, i)
    <3>1. i # 1 => i - 1 \in 1 .. k /\ i - 1 # k
        OBVIOUS
    <3>2. i # 1 => g[i - 1] = h[i - 1]
        BY <3>1
    <3>3. Body(g, i) = Body(h, i)
      <4> HIDE DEF g
      <4> QED
        BY <3>2
    <3>4. i # k => h[i] = Body(h, i)
      <4>1. i # k => i \in 1 .. k - 1
          OBVIOUS
      <4> HIDE DEF g, T
      <4> QED
        BY <2>1, <4>1 DEF Flattened
    <3>5. g[i] = IF i = k THEN Body(h, k) ELSE h[i]
        OBVIOUS
    <3> HIDE DEF g, Body
    <3> QED
      BY <3>3, <3>4, <3>5
  <2>3. g = [i \in 1 .. k |-> g[i]]
      OBVIOUS
  <2> HIDE DEF g
  <2>4. Flattened(seqs, k, g)
      BY <2>2, <2>3 DEF Flattened
  <2> QED
    BY <2>4
<1> HIDE DEF T
<1>3. \A k \in 0 .. n : k \in T
    BY <1>1, <1>2, UpTo
<1>4. n \in 0 .. n
    OBVIOUS
<1> QED
  BY <1>3, <1>4 DEF T

(* Lists of distinct sums, put in a row, have all of them.                 *)
LEMMA SumsFlattened ==
    ASSUME NEW operands \in {2, 3}, NEW n \in Nat, n > 0, NEW seqs, DOMAIN seqs = 1 .. n,
           Len(seqs) = n, NEW sums,
           \A k \in 1 .. n : Enumerates(seqs[k], operands, sums[k]),
           \A j, k \in 1 .. n : j # k => sums[j] \cap sums[k] = {}
    PROVE  Enumerates(FlattenSeq(seqs), operands, UNION {sums[k] : k \in 1 .. n})
<1> DEFINE g == CHOOSE f : Flattened(seqs, n, f)
<1>1. FlattenSeq(seqs) = g[n]
    BY DEF FlattenSeq, Flattened
<1>2. Flattened(seqs, n, g)
    BY FlattenedExists
<1> HIDE DEF g
<1> DEFINE All(k) == UNION {sums[i] : i \in 1 .. k}
           T == {k \in 0 .. n : k > 0 => Enumerates(g[k], operands, All(k))}
<1>3. 0 \in T
    OBVIOUS
<1>4. ASSUME NEW k \in 1 .. n, k - 1 \in T
      PROVE  k \in T
  <2>1. g[k] = IF k = 1 THEN seqs[k] ELSE g[k - 1] \o seqs[k]
    <3> HIDE DEF T
    <3> QED
      BY <1>2 DEF Flattened
  <2>2. Enumerates(seqs[k], operands, sums[k])
      OBVIOUS
  <2>3. CASE k = 1
    <3>1. All(k) = sums[k]
      <4>1. \A i : i \in 1 .. k <=> i = k
          BY <2>3
      <4> QED
        BY <4>1
    <3>2. g[k] = seqs[k]
        BY <2>1, <2>3
    <3> HIDE DEF All
    <3>3. Enumerates(g[k], operands, All(k))
        BY <2>2, <2>3, <3>1, <3>2
    <3>4. k \in 0 .. n
        OBVIOUS
    <3> QED
      BY <3>3, <3>4
  <2>4. CASE k # 1
    <3>1. Enumerates(g[k - 1], operands, All(k - 1))
      <4>1. k - 1 > 0
          BY <2>4
      <4> HIDE DEF All
      <4> QED
        BY <1>4, <4>1
    <3>2. All(k) = All(k - 1) \cup sums[k]
      <4>1. \A i : i \in 1 .. k <=> i \in 1 .. k - 1 \/ i = k
          OBVIOUS
      <4> QED
        BY <4>1
    <3>3. All(k - 1) \cap sums[k] = {}
      <4>1. \A i \in 1 .. k - 1 : i \in 1 .. n /\ i # k
          OBVIOUS
      <4> QED
        BY <4>1
    <3>4. g[k] = g[k - 1] \o seqs[k]
        BY <2>1, <2>4
    <3>5. Enumerates(g[k - 1] \o seqs[k], operands, All(k - 1) \cup sums[k])
      <4> DEFINE a == g[k - 1]
                 S == All(k - 1)
                 b == seqs[k]
                 U == sums[k]
      <4>1. Enumerates(a, operands, S) /\ Enumerates(b, operands, U) /\ S \cap U = {}
          BY <2>2, <3>1, <3>3
      <4> HIDE DEF a, S, b, U, T, All
      <4>2. Enumerates(a \o b, operands, S \cup U)
          BY <4>1, SumsJoined
      <4> QED
        BY <4>2 DEF a, S, b, U
    <3> HIDE DEF All
    <3>6. Enumerates(g[k], operands, All(k))
        BY <3>2, <3>4, <3>5
    <3>7. k \in 0 .. n
        OBVIOUS
    <3> QED
      BY <3>6, <3>7
  <2> QED
    BY <2>3, <2>4
<1> HIDE DEF T
<1>5. \A k \in 0 .. n : k \in T
    BY <1>3, <1>4, UpTo
<1>6. n \in 0 .. n
    OBVIOUS
<1>7. Enumerates(g[n], operands, All(n))
    BY <1>5, <1>6 DEF T
<1> QED
  BY <1>1, <1>7

(* The same for the rounds of a loop.                                      *)
LEMMA SumsCollected ==
    ASSUME NEW operands \in {2, 3}, NEW first \in Int, NEW last \in Int, NEW parts, NEW sums,
           \A i \in first .. last : Enumerates(parts[i], operands, sums[i]),
           \A i, j \in first .. last : i # j => sums[i] \cap sums[j] = {}
    PROVE  Enumerates(Collected(first, last, parts), operands,
                      UNION {sums[i] : i \in first .. last})
<1>1. CASE last < first
  <2>1. Collected(first, last, parts) = << >>
      BY <1>1 DEF Collected
  <2>2. UNION {sums[i] : i \in first .. last} = {}
    <3>1. \A i : i \notin first .. last
        BY <1>1
    <3> QED
      BY <3>1
  <2> QED
    BY <2>1, <2>2, NoSums
<1>2. CASE ~(last < first)
  <2> DEFINE n == last - first + 1
             seqs == [k \in 1 .. n |-> parts[first + k - 1]]
             found == [k \in 1 .. n |-> sums[first + k - 1]]
  <2>1. n \in Nat /\ n > 0
      BY <1>2
  <2>2. Collected(first, last, parts) = FlattenSeq(seqs)
      BY <1>2 DEF Collected
  <2>3. DOMAIN seqs = 1 .. n /\ Len(seqs) = n
      BY <2>1
  <2>4. \A k \in 1 .. n : first + k - 1 \in first .. last
      OBVIOUS
  <2>5. \A k \in 1 .. n : Enumerates(seqs[k], operands, found[k])
      BY <2>4
  <2>6. ASSUME NEW j \in 1 .. n, NEW k \in 1 .. n, j # k
        PROVE  found[j] \cap found[k] = {}
    <3>1. first + j - 1 # first + k - 1
        BY <2>6
    <3> QED
      BY <2>4, <3>1
  <2>7. UNION {found[k] : k \in 1 .. n} = UNION {sums[i] : i \in first .. last}
    <3>1. ASSUME NEW i \in first .. last
          PROVE  \E k \in 1 .. n : found[k] = sums[i]
      <4>1. i - first + 1 \in 1 .. n /\ first + (i - first + 1) - 1 = i
          OBVIOUS
      <4>2. found[i - first + 1] = sums[first + (i - first + 1) - 1]
          BY <4>1
      <4> HIDE DEF found, n
      <4> QED
        BY <4>1, <4>2
    <3>2. \A k \in 1 .. n : \E i \in first .. last : found[k] = sums[i]
      <4>1. \A k \in 1 .. n : found[k] = sums[first + k - 1]
          OBVIOUS
      <4> HIDE DEF found, n
      <4> QED
        BY <2>4, <4>1
    <3> HIDE DEF found, n
    <3> QED
      BY <3>1, <3>2
  <2>8. Enumerates(FlattenSeq(seqs), operands, UNION {found[k] : k \in 1 .. n})
    <3> HIDE DEF n, seqs, found
    <3> QED
      BY <2>1, <2>3, <2>5, <2>6, SumsFlattened
  <2> HIDE DEF n, seqs, found
  <2> QED
    BY <2>2, <2>7, <2>8
<1> QED
  BY <1>1, <1>2

\* The sums that a round of each loop finds.
StrongSums(number, i) ==
    IF TruePrime(i) /\ TruePrime(number - i) THEN {<<i, number - i>>} ELSE {}

WeakRound(number, i, j) ==
    IF TruePrime(j) /\ TruePrime(number - i - j) THEN {<<i, j, number - i - j>>} ELSE {}

WeakSums(number, i) ==
    IF TruePrime(i) THEN UNION {WeakRound(number, i, j) : j \in i .. (number - i) \div 2} ELSE {}

(* isPrime() answers as it should for every operand.                       *)
LEMMA OperandsDecided ==
    ASSUME NEW number \in Nat, number <= SafeLimit
    PROVE  \A i \in Int : i <= number => (IsPrime(i) <=> TruePrime(i))
<1>1. SafeLimit \in Int
    BY LimitType
<1>2. SUFFICES ASSUME NEW i \in Int, i <= number PROVE IsPrime(i) <=> TruePrime(i)
    OBVIOUS
<1>3. i <= SafeLimit
    BY <1>1, <1>2
<1> QED
  BY <1>3, PrimesRight

(* The loop for an even number.                                            *)
LEMMA StrongRight ==
    ASSUME NEW number \in Nat, number <= SafeLimit
    PROVE  Enumerates(StrongGoldbach(number), 2,
                      UNION {StrongSums(number, i) : i \in 2 .. number \div 2})
<1> DEFINE last == number \div 2
           parts == [i \in 2 .. last |-> IF TruePrime(i) /\ TruePrime(number - i)
                                         THEN <<i, number - i>> ELSE << >>]
           sums == [i \in 2 .. last |-> StrongSums(number, i)]
<1>1. last \in Int /\ last <= number
    OBVIOUS
<1>2. StrongGoldbach(number) = Collected(2, last, parts)
  <2> DEFINE Part(i) == IF IsPrime(i) /\ IsPrime(number - i) THEN <<i, number - i>> ELSE << >>
  <2>1. ASSUME NEW i \in 2 .. last
        PROVE  Part(i) = parts[i]
    <3>1. i \in Int /\ i <= number /\ number - i \in Int /\ number - i <= number
        BY <1>1
    <3> HIDE DEF last
    <3>2. (IsPrime(i) <=> TruePrime(i)) /\ (IsPrime(number - i) <=> TruePrime(number - i))
        BY <3>1, OperandsDecided
    <3> QED
      BY <3>1, <3>2
  <2>2. [i \in 2 .. last |-> Part(i)] = parts
    <3> HIDE DEF Part, last
    <3> QED
      BY <2>1
  <2>3. StrongGoldbach(number) = Collected(2, last, [i \in 2 .. last |-> Part(i)])
      BY DEF StrongGoldbach
  <2> QED
    BY <2>2, <2>3
<1>3. ASSUME NEW i \in 2 .. last
      PROVE  Enumerates(parts[i], 2, sums[i])
  <2>1. i \in Int /\ number - i \in Int
      OBVIOUS
  <2>2. CASE TruePrime(i) /\ TruePrime(number - i)
    <3>1. parts[i] = <<i, number - i>> /\ sums[i] = {<<i, number - i>>}
        BY <2>2 DEF StrongSums
    <3>2. Enumerates(<<i, number - i>>, 2, {<<i, number - i>>})
      <4> HIDE DEF parts, sums, last
      <4> DEFINE j == number - i
      <4>1. j \in Int
          BY <2>1
      <4> HIDE DEF j
      <4>2. Enumerates(<<i, j>>, 2, {<<i, j>>})
          BY <2>1, <4>1, OneSum
      <4> QED
        BY <4>2 DEF j
    <3> QED
      BY <3>1, <3>2
  <2>3. CASE ~(TruePrime(i) /\ TruePrime(number - i))
    <3>1. parts[i] = << >> /\ sums[i] = {}
        BY <2>3 DEF StrongSums
    <3>2. 2 \in {2, 3}
        OBVIOUS
    <3>3. Enumerates(<< >>, 2, {})
        BY <3>2, NoSums
    <3> QED
      BY <3>1, <3>3
  <2> QED
    BY <2>2, <2>3
<1>4. ASSUME NEW i \in 2 .. last, NEW j \in 2 .. last, i # j
      PROVE  sums[i] \cap sums[j] = {}
  <2>1. \A s \in sums[i] : s[1] = i
      BY DEF StrongSums
  <2>2. \A s \in sums[j] : s[1] = j
      BY DEF StrongSums
  <2> HIDE DEF sums
  <2> QED
    BY <1>4, <2>1, <2>2
<1>5. UNION {sums[i] : i \in 2 .. last} = UNION {StrongSums(number, i) : i \in 2 .. last}
    OBVIOUS
<1>6. Enumerates(Collected(2, last, parts), 2, UNION {sums[i] : i \in 2 .. last})
  <2>1. 2 \in {2, 3} /\ 2 \in Int
      OBVIOUS
  <2> HIDE DEF parts, sums, last
  <2> QED
    BY <1>1, <1>3, <1>4, <2>1, SumsCollected
<1> HIDE DEF parts, sums
<1> QED
  BY <1>2, <1>5, <1>6

(* The inner loop for an odd number.                                       *)
LEMMA WeakFromRight ==
    ASSUME NEW number \in Nat, number <= SafeLimit, NEW i \in Nat, i > 1, i <= number
    PROVE  Enumerates(WeakGoldbachFrom(number, i), 3,
                      UNION {WeakRound(number, i, j) : j \in i .. (number - i) \div 2})
<1> DEFINE last == (number - i) \div 2
           third(j) == number - i - j
           parts == [j \in i .. last |-> IF TruePrime(j) /\ TruePrime(third(j))
                                         THEN <<i, j, third(j)>> ELSE << >>]
           sums == [j \in i .. last |-> WeakRound(number, i, j)]
<1>1. last \in Int /\ last <= number /\ \A j \in i .. last : third(j) >= j
    OBVIOUS
<1>2. WeakGoldbachFrom(number, i) = Collected(i, last, parts)
  <2> DEFINE Part(j) == IF IsPrime(j) /\ third(j) >= j /\ IsPrime(third(j))
                     THEN <<i, j, third(j)>> ELSE << >>
  <2>1. ASSUME NEW j \in i .. last
        PROVE  Part(j) = parts[j]
    <3>1. /\ j \in Int /\ j <= number /\ third(j) \in Int
          /\ third(j) <= number /\ third(j) >= j
        BY <1>1
    <3> HIDE DEF last, third
    <3>2. (IsPrime(j) <=> TruePrime(j)) /\ (IsPrime(third(j)) <=> TruePrime(third(j)))
        BY <3>1, OperandsDecided
    <3> QED
      BY <3>1, <3>2
  <2>2. [j \in i .. last |-> Part(j)] = parts
    <3> HIDE DEF Part, last
    <3> QED
      BY <2>1
  <2>3. WeakGoldbachFrom(number, i) = Collected(i, last, [j \in i .. last |-> Part(j)])
      BY DEF WeakGoldbachFrom
  <2> QED
    BY <2>2, <2>3
<1>3. ASSUME NEW j \in i .. last
      PROVE  Enumerates(parts[j], 3, sums[j])
  <2>1. i \in Int /\ j \in Int /\ third(j) \in Int
      OBVIOUS
  <2>2. CASE TruePrime(j) /\ TruePrime(third(j))
    <3>1. parts[j] = <<i, j, third(j)>> /\ sums[j] = {<<i, j, third(j)>>}
        BY <2>2 DEF WeakRound
    <3>2. Enumerates(<<i, j, third(j)>>, 3, {<<i, j, third(j)>>})
      <4> HIDE DEF parts, sums, last
      <4> DEFINE h == third(j)
      <4>1. h \in Int
          BY <2>1
      <4> HIDE DEF h
      <4>2. Enumerates(<<i, j, h>>, 3, {<<i, j, h>>})
          BY <2>1, <4>1, OneSum
      <4> QED
        BY <4>2 DEF h
    <3> HIDE DEF parts, sums, third
    <3> QED
      BY <3>1, <3>2
  <2>3. CASE ~(TruePrime(j) /\ TruePrime(third(j)))
    <3>1. parts[j] = << >> /\ sums[j] = {}
        BY <2>3 DEF WeakRound
    <3>2. 3 \in {2, 3}
        OBVIOUS
    <3>3. Enumerates(<< >>, 3, {})
        BY <3>2, NoSums
    <3> QED
      BY <3>1, <3>3
  <2> QED
    BY <2>2, <2>3
<1>4. ASSUME NEW j \in i .. last, NEW k \in i .. last, j # k
      PROVE  sums[j] \cap sums[k] = {}
  <2>1. \A s \in sums[j] : s[2] = j
      BY DEF WeakRound
  <2>2. \A s \in sums[k] : s[2] = k
      BY DEF WeakRound
  <2> HIDE DEF sums
  <2> QED
    BY <1>4, <2>1, <2>2
<1>5. UNION {sums[j] : j \in i .. last} = UNION {WeakRound(number, i, j) : j \in i .. last}
    OBVIOUS
<1>6. Enumerates(Collected(i, last, parts), 3, UNION {sums[j] : j \in i .. last})
  <2>1. 3 \in {2, 3} /\ i \in Int
      OBVIOUS
  <2> HIDE DEF parts, sums, last, third
  <2> QED
    BY <1>1, <1>3, <1>4, <2>1, SumsCollected
<1> HIDE DEF parts, sums
<1> QED
  BY <1>2, <1>5, <1>6

(* The outer one.                                                          *)
LEMMA WeakRight ==
    ASSUME NEW number \in Nat, number <= SafeLimit
    PROVE  Enumerates(WeakGoldbach(number), 3,
                      UNION {WeakSums(number, i) : i \in 2 .. number \div 3})
<1> DEFINE last == number \div 3
           parts == [i \in 2 .. last |-> IF TruePrime(i) THEN WeakGoldbachFrom(number, i)
                                         ELSE << >>]
           sums == [i \in 2 .. last |-> WeakSums(number, i)]
<1>1. last \in Int /\ last <= number
    OBVIOUS
<1>2. WeakGoldbach(number) = Collected(2, last, parts)
  <2> DEFINE Part(i) == IF IsPrime(i) THEN WeakGoldbachFrom(number, i) ELSE << >>
  <2>1. ASSUME NEW i \in 2 .. last
        PROVE  Part(i) = parts[i]
    <3>1. i \in Int /\ i <= number
        BY <1>1
    <3> HIDE DEF last
    <3>2. IsPrime(i) <=> TruePrime(i)
        BY <3>1, OperandsDecided
    <3> QED
      BY <3>1, <3>2
  <2>2. [i \in 2 .. last |-> Part(i)] = parts
    <3> HIDE DEF Part, last
    <3> QED
      BY <2>1
  <2>3. WeakGoldbach(number) = Collected(2, last, [i \in 2 .. last |-> Part(i)])
      BY DEF WeakGoldbach
  <2> QED
    BY <2>2, <2>3
<1>3. ASSUME NEW i \in 2 .. last
      PROVE  Enumerates(parts[i], 3, sums[i])
  <2>1. i \in Nat /\ i > 1 /\ i <= number
      BY <1>1
  <2>2. CASE TruePrime(i)
    <3>1. parts[i] = WeakGoldbachFrom(number, i)
          /\ sums[i] = UNION {WeakRound(number, i, j) : j \in i .. (number - i) \div 2}
        BY <2>2 DEF WeakSums
    <3> HIDE DEF parts, sums, last
    <3>2. Enumerates(WeakGoldbachFrom(number, i), 3,
                     UNION {WeakRound(number, i, j) : j \in i .. (number - i) \div 2})
        BY <2>1, WeakFromRight
    <3> QED
      BY <3>1, <3>2
  <2>3. CASE ~TruePrime(i)
    <3>1. parts[i] = << >> /\ sums[i] = {}
        BY <2>3 DEF WeakSums
    <3>2. 3 \in {2, 3}
        OBVIOUS
    <3>3. Enumerates(<< >>, 3, {})
        BY <3>2, NoSums
    <3> QED
      BY <3>1, <3>3
  <2> QED
    BY <2>2, <2>3
<1>4. ASSUME NEW i \in 2 .. last, NEW j \in 2 .. last, i # j
      PROVE  sums[i] \cap sums[j] = {}
  <2>1. \A s \in sums[i] : s[1] = i
      BY DEF WeakSums, WeakRound
  <2>2. \A s \in sums[j] : s[1] = j
      BY DEF WeakSums, WeakRound
  <2> HIDE DEF sums
  <2> QED
    BY <1>4, <2>1, <2>2
<1>5. UNION {sums[i] : i \in 2 .. last} = UNION {WeakSums(number, i) : i \in 2 .. last}
    OBVIOUS
<1>6. Enumerates(Collected(2, last, parts), 3, UNION {sums[i] : i \in 2 .. last})
  <2>1. 3 \in {2, 3} /\ 2 \in Int
      OBVIOUS
  <2> HIDE DEF parts, sums, last
  <2> QED
    BY <1>1, <1>3, <1>4, <2>1, SumsCollected
<1> HIDE DEF parts, sums
<1> QED
  BY <1>2, <1>5, <1>6

(* The rounds for an even number find its sums.                            *)
LEMMA StrongSumsTrue ==
    ASSUME NEW number \in Int, Abs(number) % 2 = 0
    PROVE  UNION {StrongSums(Abs(number), i) : i \in 2 .. Abs(number) \div 2} = TrueSums(number)
<1> DEFINE n == Abs(number)
           primes == {p \in 2 .. n : TruePrime(p)}
           found == UNION {StrongSums(n, i) : i \in 2 .. n \div 2}
<1>1. n \in Nat
    BY DEF Abs
<1>2. TrueSums(number) = {s \in primes \X primes : s[1] <= s[2] /\ s[1] + s[2] = n}
    BY DEF TrueSums
<1> HIDE DEF n
<1>3. ASSUME NEW s \in found
      PROVE  s \in TrueSums(number)
  <2>1. PICK i \in 2 .. n \div 2 : s \in StrongSums(n, i)
      OBVIOUS
  <2>2. s = <<i, n - i>> /\ TruePrime(i) /\ TruePrime(n - i)
      BY <2>1 DEF StrongSums
  <2>3. i \in 2 .. n /\ n - i \in 2 .. n /\ i <= n - i /\ i + (n - i) = n
      BY <1>1
  <2>4. s[1] = i /\ s[2] = n - i
      BY <2>2
  <2>5. s \in primes \X primes
      BY <2>2, <2>3
  <2> HIDE DEF primes, found
  <2> QED
    BY <1>2, <2>3, <2>4, <2>5
<1>4. ASSUME NEW s \in TrueSums(number)
      PROVE  s \in found
  <2>1. PICK p \in primes, q \in primes : s = <<p, q>> /\ p <= q /\ p + q = n
      BY <1>2
  <2>2. p \in 2 .. n \div 2 /\ q = n - p
      BY <1>1, <2>1
  <2>3. TruePrime(p) /\ TruePrime(n - p)
      BY <2>1, <2>2
  <2>4. s \in StrongSums(n, p)
      BY <2>1, <2>2, <2>3 DEF StrongSums
  <2> QED
    BY <2>2, <2>4
<1>5. found = TrueSums(number)
  <2> HIDE DEF found
  <2>1. \A s : s \in found <=> s \in TrueSums(number)
      BY <1>3, <1>4
  <2> QED
    BY <2>1
<1> QED
  BY <1>5 DEF n

(* And those for an odd one.                                               *)
LEMMA WeakSumsTrue ==
    ASSUME NEW number \in Int, Abs(number) % 2 # 0
    PROVE  UNION {WeakSums(Abs(number), i) : i \in 2 .. Abs(number) \div 3} = TrueSums(number)
<1> DEFINE n == Abs(number)
           primes == {p \in 2 .. n : TruePrime(p)}
           found == UNION {WeakSums(n, i) : i \in 2 .. n \div 3}
           triples == {<<p, q, n - p - q>> : p \in primes, q \in primes}
<1>1. n \in Nat
    BY DEF Abs
<1>2. TrueSums(number) = {s \in triples : s[1] <= s[2] /\ s[2] <= s[3] /\ TruePrime(s[3])}
    BY DEF TrueSums
<1> HIDE DEF n
<1>3. ASSUME NEW s \in found
      PROVE  s \in TrueSums(number)
  <2>1. PICK i \in 2 .. n \div 3 : s \in WeakSums(n, i)
      OBVIOUS
  <2>2. TruePrime(i) /\ \E j \in i .. (n - i) \div 2 : s \in WeakRound(n, i, j)
    <3> HIDE DEF found
    <3> QED
      BY <2>1 DEF WeakSums
  <2>3. PICK j \in i .. (n - i) \div 2 : s \in WeakRound(n, i, j)
      BY <2>2
  <2>4. s = <<i, j, n - i - j>> /\ TruePrime(j) /\ TruePrime(n - i - j)
      BY <2>3 DEF WeakRound
  <2>5. i \in 2 .. n /\ j \in 2 .. n /\ i <= j /\ j <= n - i - j
      BY <1>1
  <2>6. s[1] = i /\ s[2] = j /\ s[3] = n - i - j
      BY <2>4
  <2>7. s \in triples
      BY <2>2, <2>4, <2>5
  <2> HIDE DEF triples, found
  <2> QED
    BY <1>2, <2>4, <2>5, <2>6, <2>7
<1>4. ASSUME NEW s \in TrueSums(number)
      PROVE  s \in found
  <2>1. s \in triples /\ s[1] <= s[2] /\ s[2] <= s[3] /\ TruePrime(s[3])
    <3> HIDE DEF triples
    <3> QED
      BY <1>2
  <2>2. PICK p \in primes, q \in primes : s = <<p, q, n - p - q>>
      BY <2>1
  <2>3. s[1] = p /\ s[2] = q /\ s[3] = n - p - q
      BY <2>2
  <2>4. p <= q /\ q <= n - p - q /\ TruePrime(n - p - q) /\ TruePrime(p) /\ TruePrime(q)
      BY <2>1, <2>3
  <2>5. p \in 2 .. n \div 3 /\ q \in p .. (n - p) \div 2
      BY <1>1, <2>4
  <2>6. s \in WeakRound(n, p, q)
      BY <2>2, <2>4 DEF WeakRound
  <2>7. s \in WeakSums(n, p)
      BY <2>4, <2>5, <2>6 DEF WeakSums
  <2> QED
    BY <2>5, <2>7
<1>5. found = TrueSums(number)
  <2> HIDE DEF found
  <2>1. \A s : s \in found <=> s \in TrueSums(number)
      BY <1>3, <1>4
  <2> QED
    BY <2>1
<1> QED
  BY <1>5 DEF n

(* The sums of a number, grouped, are all its sums, each once.             *)
LEMMA SumsGrouped ==
    ASSUME NEW operands \in {2, 3}, NEW list, NEW S, Enumerates(list, operands, S)
    PROVE  /\ list \in Seq(Int) /\ Range(Grouped(list, operands)) = S
           /\ Len(Grouped(list, operands)) = Cardinality(S)
           /\ Len(list) = Len(Grouped(list, operands)) * operands
           /\ Len(list) \div operands = Cardinality(S)
<1>1. PICK n \in Nat :
         /\ list \in Seq(Int) /\ Len(list) = operands * n
         /\ S = {Group(list, operands, k) : k \in 1 .. n}
         /\ \A j, k \in 1 .. n : Group(list, operands, j) = Group(list, operands, k) => j = k
    BY DEF Enumerates
<1>2. Len(list) \div operands = n /\ Len(list) = n * operands
  <2>1. operands = 2 \/ operands = 3
      OBVIOUS
  <2> QED
    BY <1>1, <2>1
<1>3. ASSUME NEW k \in 1 .. n
      PROVE  SubSeq(list, operands * (k - 1) + 1, operands * k) = Group(list, operands, k)
  <2>1. CASE operands = 2
    <3>1. /\ operands * (k - 1) + 1 \in 1 .. Len(list) /\ operands * k \in 1 .. Len(list)
          /\ operands * k - (operands * (k - 1) + 1) + 1 = operands
        BY <1>1, <2>1
    <3> QED
      BY <1>1, <2>1, <3>1 DEF Group
  <2>2. CASE operands = 3
    <3>1. /\ operands * (k - 1) + 1 \in 1 .. Len(list) /\ operands * k \in 1 .. Len(list)
          /\ operands * k - (operands * (k - 1) + 1) + 1 = operands
        BY <1>1, <2>2
    <3> QED
      BY <1>1, <2>2, <3>1 DEF Group
  <2> QED
    BY <2>1, <2>2
<1>4. Grouped(list, operands) = [k \in 1 .. n |-> Group(list, operands, k)]
    BY <1>2, <1>3 DEF Grouped
<1> DEFINE f == [k \in 1 .. n |-> Group(list, operands, k)]
<1>5. Len(f) = n /\ DOMAIN f = 1 .. n
    OBVIOUS
<1>6. Range(f) = S
    BY <1>1 DEF Range
<1>7. Cardinality(S) = n
  <2>1. f \in Bijection(1 .. n, S)
    <3>1. f \in [1 .. n -> S]
        BY <1>1
    <3>2. \A j, k \in 1 .. n : f[j] = f[k] => j = k
        BY <1>1
    <3>3. \A s \in S : \E k \in 1 .. n : f[k] = s
        BY <1>1
    <3> HIDE DEF f
    <3> QED
      BY <3>1, <3>2, <3>3 DEF Bijection, Injection, IsInjective, Surjection
  <2>2. IsFiniteSet(1 .. n) /\ Cardinality(1 .. n) = n
      BY FS_Interval
  <2>3. ExistsBijection(1 .. n, S)
      BY <2>1 DEF ExistsBijection
  <2>4. IsFiniteSet(S) /\ Cardinality(S) = Cardinality(1 .. n)
      BY <2>2, <2>3, FS_Bijection
  <2> QED
    BY <2>2, <2>4
<1> HIDE DEF f
<1> QED
  BY <1>1, <1>2, <1>4, <1>5, <1>6, <1>7 DEF f

(* GoldbachCalculator finds every sum of a number below the limit up to    *)
(* which isPrime() is right, and each once.                                *)
THEOREM GoldbachRight ==
    ASSUME NEW number \in Int, Abs(number) <= SafeLimit
    PROVE  /\ GoldbachResult(number) \in Seq(Int)
           /\ IF number >= 0 THEN GoldbachResult(number) = <<Cardinality(TrueSums(number))>>
              ELSE LET sums == Grouped(GoldbachResult(number), Operands(number))
                   IN  /\ Range(sums) = TrueSums(number)
                       /\ Len(sums) = Cardinality(TrueSums(number))
                       /\ Len(GoldbachResult(number)) = Len(sums) * Operands(number)
<1> DEFINE n == Abs(number)
           list == GoldbachSums(number)
           operands == Operands(number)
<1>1. n \in Nat /\ n <= SafeLimit
    BY DEF Abs
<1>2. Enumerates(list, operands, TrueSums(number)) /\ operands \in {2, 3}
  <2>1. CASE n % 2 = 0
    <3>1. list = StrongGoldbach(n) /\ operands = 2
        BY <2>1 DEF GoldbachSums, Operands
    <3>2. Enumerates(StrongGoldbach(n), 2, UNION {StrongSums(n, i) : i \in 2 .. n \div 2})
      <4> HIDE DEF n
      <4> QED
        BY <1>1, StrongRight
    <3>3. UNION {StrongSums(n, i) : i \in 2 .. n \div 2} = TrueSums(number)
        BY <2>1, StrongSumsTrue
    <3> HIDE DEF n, list, operands
    <3> QED
      BY <3>1, <3>2, <3>3
  <2>2. CASE n % 2 # 0
    <3>1. list = WeakGoldbach(n) /\ operands = 3
        BY <2>2 DEF GoldbachSums, Operands
    <3>2. Enumerates(WeakGoldbach(n), 3, UNION {WeakSums(n, i) : i \in 2 .. n \div 3})
      <4> HIDE DEF n
      <4> QED
        BY <1>1, WeakRight
    <3>3. UNION {WeakSums(n, i) : i \in 2 .. n \div 3} = TrueSums(number)
        BY <2>2, WeakSumsTrue
    <3> HIDE DEF n, list, operands
    <3> QED
      BY <3>1, <3>2, <3>3
  <2> QED
    BY <2>1, <2>2
<1>3. /\ list \in Seq(Int) /\ Range(Grouped(list, operands)) = TrueSums(number)
      /\ Len(Grouped(list, operands)) = Cardinality(TrueSums(number))
      /\ Len(list) = Len(Grouped(list, operands)) * operands
      /\ Len(list) \div operands = Cardinality(TrueSums(number))
  <2> HIDE DEF list, operands
  <2> QED
    BY <1>2, SumsGrouped
<1>4. GoldbachResult(number) = IF number >= 0 THEN <<Len(list) \div operands>> ELSE list
    BY DEF GoldbachResult
<1>5. CASE number >= 0
  <2>1. GoldbachResult(number) = <<Len(list) \div operands>>
      BY <1>4, <1>5
  <2>2. Len(list) \div operands \in Int
      BY <1>2, <1>3
  <2>3. <<Len(list) \div operands>> \in Seq(Int)
    <3> DEFINE c == Len(list) \div operands
    <3>1. c \in Int
        BY <2>2
    <3> HIDE DEF c
    <3>2. <<c>> \in Seq(Int)
        BY <3>1
    <3> QED
      BY <3>2 DEF c
  <2> HIDE DEF list, operands
  <2> QED
    BY <1>3, <1>5, <2>1, <2>3
<1>6. CASE ~(number >= 0)
  <2>1. GoldbachResult(number) = list
      BY <1>4, <1>6
  <2>2. /\ list \in Seq(Int) /\ Range(Grouped(list, operands)) = TrueSums(number)
        /\ Len(Grouped(list, operands)) = Cardinality(TrueSums(number))
        /\ Len(list) = Len(Grouped(list, operands)) * operands
      BY <1>3
  <2> HIDE DEF list
  <2> QED
    BY <1>6, <2>1, <2>2
<1> QED
  BY <1>5, <1>6

---------------------------------------------------------------------------
(* What the units carry *)

NumbersAsked == UNION {Range(ParseRequest(text)) : text \in URIs}

(* A unit has a query that was asked.                                      *)
LEMMA QueryAsked ==
    ASSUME UnitInv, NEW i \in DOMAIN at
    PROVE  queries[i] \in NumbersAsked
<1>1. phase # "asked"
  <2>1. SUFFICES ASSUME phase = "asked" PROVE FALSE
      OBVIOUS
  <2>2. Len(queries) = 0 /\ DOMAIN at = 1 .. 0
      BY <2>1, UnitsFinite DEF UnitInv
  <2> QED
    BY <2>2
<1>2. queries = ParseRequest(uri) /\ uri \in URIs
    BY <1>1 DEF UnitInv, TypeOK
<1>3. i \in DOMAIN queries
    BY DEF UnitInv, TypeOK
<1> QED
  BY <1>2, <1>3 DEF Range, NumbersAsked

AlgorithmsAreRight ==
    \A number \in NumbersAsked :
       AreFactors(number, PrimeFactors(number)) /\ AreSums(number, GoldbachResult(number))

(* No number asked is above the limit.                                     *)
LEMMA NumberAsked ==
    ASSUME NEW number \in NumbersAsked
    PROVE  number \in Int /\ number <= SafeLimit /\ Abs(number) <= SafeLimit
<1>1. PICK text \in URIs : number \in Range(ParseRequest(text))
    BY DEF NumbersAsked
<1>2. PICK k \in DOMAIN ParseRequest(text) : number = ParseRequest(text)[k]
    BY <1>1 DEF Range
<1>3. number \in Int
    BY <1>2, ValuesType
<1>4. Abs(number) <= SafeLimit
    BY <1>2, CalculationAssumption
<1>5. SafeLimit \in Int
    BY LimitType
<1> QED
  BY <1>3, <1>4, <1>5 DEF Abs

(* The calculators of both applications find the factorization and the     *)
(* sums of every number asked.                                             *)
THEOREM AlgorithmsRight == AlgorithmsAreRight
<1>1. SUFFICES ASSUME NEW number \in NumbersAsked
               PROVE  /\ AreFactors(number, PrimeFactors(number))
                      /\ AreSums(number, GoldbachResult(number))
    BY DEF AlgorithmsAreRight
<1>2. number \in Int /\ number <= SafeLimit /\ Abs(number) <= SafeLimit
    BY NumberAsked
<1>3. IF number <= 1 THEN PrimeFactors(number) = << >>
      ELSE IsFactorization(PrimeFactors(number), number)
    BY <1>2, FactorizationRight
<1>4. IF number >= 0 THEN GoldbachResult(number) = <<Cardinality(TrueSums(number))>>
      ELSE LET sums == Grouped(GoldbachResult(number), Operands(number))
           IN  /\ Range(sums) = TrueSums(number)
               /\ Len(sums) = Cardinality(TrueSums(number))
               /\ Len(GoldbachResult(number)) = Len(sums) * Operands(number)
    BY <1>2, GoldbachRight
<1> QED
  BY <1>3, <1>4 DEF AreFactors, AreSums

(* The result of a number asked is a list of numbers.                      *)
LEMMA ResultType ==
    ASSUME NEW number \in NumbersAsked
    PROVE  ProcessQuery(app, number) \in Seq(Int)
<1>1. number \in Int /\ number <= SafeLimit /\ Abs(number) <= SafeLimit
    BY NumberAsked
<1>2. PrimeFactors(number) \in Seq(Int)
    BY <1>1, FactorizationRight
<1>3. GoldbachResult(number) \in Seq(Int)
    BY <1>1, GoldbachRight
<1> QED
  BY <1>2, <1>3 DEF ProcessQuery

(* And it is the right one.                                                *)
LEMMA ResultRight ==
    ASSUME NEW number \in NumbersAsked
    PROVE  IsResult(number, ProcessQuery(app, number))
  BY AlgorithmsRight DEF AlgorithmsAreRight, ProcessQuery, IsResult

(* What was written of a query and where it came from is what a worker     *)
(* reads.                                                                  *)
LEMMA RequestKeepsQuery ==
    ASSUME NEW i
    PROVE  /\ CreateWorkUnit(SerializeRequest(i)).query = queries[i]
           /\ ToNumber(CreateWorkUnit(SerializeRequest(i)).originalIndex) = i
           /\ ToNumber(CreateWorkUnit(SerializeRequest(i)).appIndex) = app
  BY DEF CreateWorkUnit, SerializeRequest, ToNumber, Last

(* The line with which a worker answers for unit i.                        *)
ResponseFor(i) ==
    SerializeResponse(CreateWorkUnit(SerializeRequest(i)), ProcessQuery(app, queries[i]))

(* A line on its way is the one that was written for its unit; a result is *)
(* there when the unit is ready, of the unit's own query; the page is what *)
(* formatResponse() makes of them.                                         *)
Route(i) ==
    /\ results[i] = IF at[i] \in {"ready", "marked"} THEN ProcessQuery(app, queries[i]) ELSE << >>
    /\ at[i] = "asked" => wire[i] = SerializeRequest(i)
    /\ at[i] = "answered" => wire[i] = ResponseFor(i)

RouteInv ==
    /\ UnitInv
    /\ \A i \in DOMAIN at : Route(i)
    /\ phase = "responded" => page = FormatResponse

(* A step of one unit leaves the others as they were.                      *)
LEMMA OneUnit ==
    ASSUME RouteInv, UnitInv', NEW i \in DOMAIN at, at[i] # "marked",
           UNCHANGED <<app, uri, phase, queries, page>>,
           DOMAIN at' = DOMAIN at,
           \A j \in DOMAIN at : j # i => /\ at'[j] = at[j] /\ results'[j] = results[j]
                                         /\ wire'[j] = wire[j],
           Route(i)'
    PROVE  RouteInv'
<1>1. ASSUME NEW j \in DOMAIN at, j # i
      PROVE  Route(j)'
  <2>1. Route(j)
      BY <1>1 DEF RouteInv
  <2>2. at'[j] = at[j] /\ results'[j] = results[j] /\ wire'[j] = wire[j]
      BY <1>1
  <2>3. ProcessQuery(app, queries[j])' = ProcessQuery(app, queries[j])
      BY DEF ProcessQuery
  <2>4. SerializeRequest(j)' = SerializeRequest(j)
      BY DEF SerializeRequest
  <2>5. ResponseFor(j)' = ResponseFor(j)
      BY <2>3, <2>4 DEF ResponseFor
  <2> QED
    BY <2>1, <2>2, <2>3, <2>4, <2>5 DEF Route
<1>2. phase' # "responded"
  <2>1. phase = "calculating"
      BY NotResponded DEF RouteInv
  <2> QED
    BY <2>1
<1>3. \A j \in DOMAIN at' : Route(j)'
    BY <1>1
<1> QED
  BY <1>2, <1>3 DEF RouteInv

(* Each step keeps what the units carry.                                   *)
LEMMA RouteInvStep ==
    ASSUME RouteInv, [Next]_vars
    PROVE  RouteInv'
<1>1. UnitInv /\ UnitInv'
    BY UnitInvStep DEF RouteInv
<1>2. DOMAIN results = DOMAIN at /\ DOMAIN wire = DOMAIN at /\ DOMAIN queries = DOMAIN at
    BY <1>1 DEF UnitInv, TypeOK
<1>3. UNCHANGED <<app, uri, results>> => FormatResponse' = FormatResponse
    BY DEF FormatResponse, BuildResult
<1>4. ASSUME UNCHANGED <<app, queries, results, at, wire>>
      PROVE  \A i \in DOMAIN at' : Route(i)'
  <2>1. SUFFICES ASSUME NEW i \in DOMAIN at PROVE Route(i)'
      BY <1>4
  <2>2. Route(i)
      BY DEF RouteInv
  <2>3. ProcessQuery(app, queries[i])' = ProcessQuery(app, queries[i])
      BY <1>4 DEF ProcessQuery
  <2>4. SerializeRequest(i)' = SerializeRequest(i)
      BY <1>4 DEF SerializeRequest
  <2>5. ResponseFor(i)' = ResponseFor(i)
      BY <1>4, <2>3, <2>4 DEF ResponseFor
  <2> QED
    BY <1>4, <2>2, <2>3, <2>4, <2>5 DEF Route
<1>5. CASE UNCHANGED vars
  <2>1. UNCHANGED <<app, uri, phase, queries, results, at, wire, page>>
      BY <1>5 DEF vars
  <2>2. FormatResponse' = FormatResponse /\ \A i \in DOMAIN at' : Route(i)'
      BY <1>3, <1>4, <2>1
  <2> QED
    BY <1>1, <2>1, <2>2 DEF RouteInv
<1>6. CASE CreateWithoutQueries \/ Respond
  <2>1. page' = FormatResponse /\ UNCHANGED <<app, uri, queries, results, at, wire>>
      BY <1>6 DEF CreateWithoutQueries, Respond
  <2>2. FormatResponse' = FormatResponse /\ \A i \in DOMAIN at' : Route(i)'
      BY <1>3, <1>4, <2>1
  <2> QED
    BY <1>1, <2>1, <2>2 DEF RouteInv
<1>7. CASE CreateConcurrentData
  <2>1. /\ phase' = "calculating"
        /\ at' = [i \in DOMAIN queries' |-> "queued"]
        /\ results' = [i \in DOMAIN queries' |-> << >>]
      BY <1>7 DEF CreateConcurrentData
  <2>2. \A i \in DOMAIN at' : at'[i] = "queued" /\ results'[i] = << >>
      BY <2>1
  <2>3. \A i \in DOMAIN at' : Route(i)'
      BY <2>2 DEF Route
  <2> QED
    BY <1>1, <2>1, <2>3 DEF RouteInv
<1>8. ASSUME NEW i \in DOMAIN at, Calculate(i)
      PROVE  RouteInv'
  <2>1. /\ at[i] = "queued" /\ at' = [at EXCEPT ![i] = "ready"]
        /\ results' = [results EXCEPT ![i] = ProcessQuery(app, queries[i])]
        /\ UNCHANGED <<app, uri, phase, queries, pending, wire, page>>
      BY <1>8 DEF Calculate
  <2>2. at'[i] = "ready" /\ results'[i] = ProcessQuery(app, queries[i])
      BY <1>2, <2>1
  <2>3. ProcessQuery(app, queries[i])' = ProcessQuery(app, queries[i])
      BY <2>1 DEF ProcessQuery
  <2>4. Route(i)'
      BY <2>2, <2>3 DEF Route
  <2> QED
    BY <1>1, <2>1, <2>4, OneUnit
<1>9. ASSUME NEW i \in DOMAIN at, Send(i)
      PROVE  RouteInv'
  <2>1. /\ at[i] = "queued" /\ at' = [at EXCEPT ![i] = "asked"]
        /\ wire' = [wire EXCEPT ![i] = SerializeRequest(i)]
        /\ UNCHANGED <<app, uri, phase, queries, results, pending, page>>
      BY <1>9 DEF Send
  <2>2. at'[i] = "asked" /\ wire'[i] = SerializeRequest(i) /\ results'[i] = results[i]
      BY <1>2, <2>1
  <2>3. SerializeRequest(i)' = SerializeRequest(i)
      BY <2>1 DEF SerializeRequest
  <2>4. results[i] = << >>
      BY <2>1 DEF RouteInv, Route
  <2>5. Route(i)'
      BY <2>2, <2>3, <2>4 DEF Route
  <2> QED
    BY <1>1, <2>1, <2>5, OneUnit
<1>10. ASSUME NEW i \in DOMAIN at, Answer(i)
       PROVE  RouteInv'
  <2> DEFINE unit == CreateWorkUnit(wire[i])
             result == ProcessQuery(ToNumber(unit.appIndex), unit.query)
  <2>1. /\ at[i] = "asked" /\ at' = [at EXCEPT ![i] = "answered"]
        /\ wire' = [wire EXCEPT ![i] = SerializeResponse(unit, result)]
        /\ UNCHANGED <<app, uri, phase, queries, results, pending, page>>
      BY <1>10 DEF Answer
  <2>2. wire[i] = SerializeRequest(i) /\ results[i] = << >>
      BY <2>1 DEF RouteInv, Route
  <2>3. SerializeResponse(unit, result) = ResponseFor(i)
      BY <2>2, RequestKeepsQuery DEF ResponseFor
  <2> HIDE DEF unit, result
  <2>4. at'[i] = "answered" /\ wire'[i] = ResponseFor(i) /\ results'[i] = results[i]
      BY <1>2, <2>1, <2>3
  <2>5. ResponseFor(i)' = ResponseFor(i)
      BY <2>1 DEF ResponseFor, SerializeRequest, ProcessQuery
  <2>6. Route(i)'
      BY <2>2, <2>4, <2>5 DEF Route
  <2> QED
    BY <1>1, <2>1, <2>6, OneUnit
<1>11. ASSUME NEW i \in DOMAIN at, Receive(i)
       PROVE  RouteInv'
  <2> DEFINE index == ToNumber(wire[i][3])
  <2>1. /\ at[i] = "answered" /\ at' = [at EXCEPT ![i] = "ready"]
        /\ results' = [results EXCEPT ![index] = DeserializeResult(@, wire[i][4])]
        /\ wire' = [wire EXCEPT ![i] = << >>]
        /\ UNCHANGED <<app, uri, phase, queries, pending, page>>
      BY <1>11 DEF Receive
  <2>2. wire[i] = ResponseFor(i) /\ results[i] = << >>
      BY <2>1 DEF RouteInv, Route
  <2>3. index = i /\ wire[i][4] = SerializeResult(ProcessQuery(app, queries[i]))
      BY <2>2, RequestKeepsQuery DEF ResponseFor, SerializeResponse
  <2>4. ProcessQuery(app, queries[i]) \in Seq(Int)
      BY <1>1, QueryAsked, ResultType
  <2>5. DeserializeResult(<< >>, SerializeResult(ProcessQuery(app, queries[i])))
          = ProcessQuery(app, queries[i])
      BY <2>4, TextKeepsResult
  <2> HIDE DEF index
  <2>6. results' = [results EXCEPT ![i] = ProcessQuery(app, queries[i])]
      BY <1>2, <2>1, <2>2, <2>3, <2>5
  <2>7. at'[i] = "ready" /\ results'[i] = ProcessQuery(app, queries[i])
      BY <1>2, <2>1, <2>6
  <2>8. ProcessQuery(app, queries[i])' = ProcessQuery(app, queries[i])
      BY <2>1 DEF ProcessQuery
  <2>9. Route(i)'
      BY <2>7, <2>8 DEF Route
  <2> QED
    BY <1>1, <2>1, <2>6, <2>9, OneUnit
<1>12. ASSUME NEW i \in DOMAIN at, MarkUnitReady(i)
       PROVE  RouteInv'
  <2>1. /\ at[i] = "ready" /\ at' = [at EXCEPT ![i] = "marked"]
        /\ UNCHANGED <<app, uri, phase, queries, results, wire, page>>
      BY <1>12 DEF MarkUnitReady
  <2>2. at'[i] = "marked" /\ results'[i] = ProcessQuery(app, queries[i])
      BY <1>2, <2>1 DEF RouteInv, Route
  <2>3. ProcessQuery(app, queries[i])' = ProcessQuery(app, queries[i])
      BY <2>1 DEF ProcessQuery
  <2>4. Route(i)'
      BY <2>2, <2>3 DEF Route
  <2> QED
    BY <1>1, <2>1, <2>4, OneUnit
<1> QED
  BY <1>5, <1>6, <1>7, <1>8, <1>9, <1>10, <1>11, <1>12 DEF Next

(* Each unit keeps to its own query, on whichever way it goes.             *)
THEOREM RouteInvariant == Spec => []RouteInv
<1>1. Init => RouteInv
  <2> SUFFICES ASSUME Init PROVE RouteInv
      OBVIOUS
  <2>1. UnitInv
      BY InitUnits
  <2> QED
    BY <2>1 DEF Init, RouteInv
<1>2. RouteInv /\ [Next]_vars => RouteInv'
    BY RouteInvStep
<1> QED
  BY <1>1, <1>2, PTL DEF Spec

(* A unit that is ready has the right result for its query, in its own     *)
(* place, whoever computed it.                                             *)
THEOREM ResultsRight == Spec => []ResultsAreRight
<1>1. RouteInv => ResultsAreRight
  <2> SUFFICES ASSUME RouteInv PROVE ResultsAreRight
      OBVIOUS
  <2>1. ASSUME NEW i \in DOMAIN at
        PROVE  IF at[i] \in {"ready", "marked"} THEN IsResult(queries[i], results[i])
               ELSE results[i] = << >>
    <3>1. Route(i) /\ UnitInv
        BY DEF RouteInv
    <3>2. IsResult(queries[i], ProcessQuery(app, queries[i]))
        BY <3>1, QueryAsked, ResultRight
    <3> QED
      BY <3>1, <3>2 DEF Route
  <2> QED
    BY <2>1 DEF ResultsAreRight
<1> QED
  BY <1>1, RouteInvariant, PTL

---------------------------------------------------------------------------
(* The page *)

(* A number above 1 has factors.                                           *)
LEMMA FactorsNotEmpty ==
    ASSUME NEW number \in Int, number > 1, NEW list, Len(list) \in Nat,
           IsFactorization(list, number)
    PROVE  Len(list) \div 2 # 0
<1> SUFFICES ASSUME Len(list) \div 2 = 0 PROVE FALSE
    OBVIOUS
<1> DEFINE n == Len(list) \div 2
           primes == [k \in 1 .. n |-> list[2 * k - 1]]
           exponents == [k \in 1 .. n |-> list[2 * k]]
           powers == [k \in DOMAIN primes |-> Power(primes[k], exponents[k])]
<1>1. number = Product(powers)
    BY DEF IsFactorization
<1>2. DOMAIN powers = 1 .. 0
    OBVIOUS
<1> HIDE DEF powers
<1>3. Product(powers) = 1
    BY <1>2, ProductEmpty
<1> QED
  BY <1>1, <1>3

(* What buildResult() makes of the right result of a number.               *)
LEMMA BuiltRight ==
    ASSUME NEW number \in Int, NEW result \in Seq(Int), IsResult(number, result)
    PROVE  LET built == BuildResult(number, result)
           IN  IF app = "fact" /\ number <= 1 THEN built = Invalid
               ELSE IF app = "fact" THEN built.valid /\ IsFactorization(built.list, number)
               ELSE /\ built.count = Cardinality(TrueSums(number))
                    /\ Range(built.list) = IF number < 0 THEN TrueSums(number) ELSE {}
<1> DEFINE built == BuildResult(number, result)
<1>1. Len(result) \in Nat
    OBVIOUS
<1>2. CASE app = "fact" /\ number <= 1
  <2>1. result = << >>
      BY <1>2 DEF IsResult, AreFactors
  <2>2. Len(result) \div 2 = 0
      BY <2>1
  <2> QED
    BY <1>2, <2>2 DEF BuildResult
<1>3. CASE app = "fact" /\ ~(number <= 1)
  <2>1. IsFactorization(result, number)
      BY <1>3 DEF IsResult, AreFactors
  <2>2. Len(result) \div 2 # 0
    <3>1. number > 1
        BY <1>3
    <3> QED
      BY <1>1, <2>1, <3>1, FactorsNotEmpty
  <2>3. built = [valid |-> TRUE, count |-> Len(result) \div 2, list |-> result]
      BY <1>3, <2>2 DEF BuildResult
  <2> QED
    BY <1>3, <2>1, <2>3
<1>4. CASE app # "fact" /\ number >= 0
  <2>1. result = <<Cardinality(TrueSums(number))>>
      BY <1>4 DEF IsResult, AreSums
  <2>2. built = [valid |-> TRUE, count |-> result[1], list |-> << >>]
    <3>1. ~(number < 0)
        BY <1>4
    <3> QED
      BY <1>4, <3>1 DEF BuildResult
  <2>3. built.count = Cardinality(TrueSums(number))
      BY <2>1, <2>2
  <2>4. Range(built.list) = {} /\ ~(number < 0)
    <3>1. DOMAIN << >> = {}
        OBVIOUS
    <3> QED
      BY <1>4, <2>2, <3>1 DEF Range
  <2> QED
    BY <1>4, <2>3, <2>4
<1>5. CASE app # "fact" /\ ~(number >= 0)
  <2> DEFINE operands == Operands(number)
             grouped == Grouped(result, operands)
             sums == Len(result) \div operands
  <2>1. /\ Range(grouped) = TrueSums(number)
        /\ Len(grouped) = Cardinality(TrueSums(number))
      BY <1>5 DEF IsResult, AreSums
  <2>2. operands \in {2, 3} /\ sums \in Nat
    <3>1. operands \in {2, 3}
        BY DEF Operands
    <3> QED
      BY <1>1, <3>1
  <2>3. DOMAIN grouped = 1 .. sums
      BY DEF Grouped
  <2>4. Len(grouped) = sums
      BY <2>2, <2>3
  <2>5. built = [valid |-> TRUE, count |-> sums, list |-> IF sums > 0 THEN grouped ELSE << >>]
    <3>1. number < 0
        BY <1>5
    <3> QED
      BY <1>5, <3>1 DEF BuildResult
  <2>6. sums > 0 => built.list = grouped
      BY <2>5
  <2>7. ~(sums > 0) => Range(built.list) = {} /\ Range(grouped) = {}
    <3>1. ~(sums > 0) => sums = 0 /\ built.list = << >>
        BY <2>2, <2>5
    <3>2. ~(sums > 0) => DOMAIN grouped = {} /\ DOMAIN built.list = {}
        BY <2>3, <3>1
    <3> HIDE DEF built, grouped, sums
    <3> QED
      BY <3>2 DEF Range
  <2>8. Range(built.list) = TrueSums(number)
      BY <2>1, <2>6, <2>7
  <2>9. built.count = Cardinality(TrueSums(number))
      BY <2>1, <2>4, <2>5
  <2> HIDE DEF built
  <2> QED
    BY <1>5, <2>8, <2>9 DEF built
<1> QED
  BY <1>2, <1>3, <1>4, <1>5

(* The page has an entry for each text of the URI, in its order: an error  *)
(* where the text is not a number or has no factorization, and else the    *)
(* answer to that number and to no other.                                  *)
THEOREM PageRight == Spec => []PageIsRight
<1>1. ASSUME RouteInv, phase = "responded"
      PROVE  PageIsRight
  <2> DEFINE texts == GetURIValues(uri)
             Index(k) == Cardinality({j \in 1 .. k : IsNumber(texts[j])})
             Entry(k) == IF IsNumber(texts[k])
                         THEN BuildResult(ToNumber(texts[k]), results[Index(k)]) ELSE Invalid
  <2>1. UnitInv
      BY <1>1 DEF RouteInv
  <2>2. page = [k \in DOMAIN texts |-> Entry(k)]
      BY <1>1 DEF RouteInv, FormatResponse
  <2>3. texts \in Seq(Seq(Symbols)) /\ ParseRequest(uri) = Numbers(texts)
    <3>1. uri \in URIs
        BY <2>1 DEF UnitInv, TypeOK
    <3> QED
      BY <3>1, ValuesType
  <2>4. queries = Numbers(texts) /\ pending = 0
      BY <1>1, <2>1, <2>3 DEF UnitInv
  <2>5. \A i \in DOMAIN at : at[i] = "marked"
    <3>1. Unmarked = {}
        BY <2>1, <2>4, UnitsFinite
    <3> QED
      BY <3>1 DEF Unmarked
  <2>6. \A i \in DOMAIN at : results[i] = ProcessQuery(app, queries[i])
      BY <1>1, <2>5 DEF RouteInv, Route
  <2> HIDE DEF texts
  <2>7. ASSUME NEW k \in DOMAIN texts, IsNumber(texts[k])
        PROVE  Index(k) \in DOMAIN at /\ queries[Index(k)] = ToNumber(texts[k])
    <3>1. NumbersOf(texts, Len(texts), queries)
        BY <2>3, <2>4, NumbersAre
    <3>2. k \in 1 .. Len(texts)
        BY <2>3
    <3>3. Index(k) = NumbersUpTo(texts, k)
        BY DEF NumbersUpTo
    <3>4. DOMAIN at = 1 .. Len(queries)
        BY <2>1, UnitsFinite
    <3> HIDE DEF Index
    <3> QED
      BY <2>7, <3>1, <3>2, <3>3, <3>4 DEF NumbersOf
  <2> HIDE DEF Index
  <2>8. ASSUME NEW k \in DOMAIN texts, IsNumber(texts[k])
        PROVE  LET n == ToNumber(texts[k])
                   built == page[k]
               IN  IF app = "fact" /\ n <= 1 THEN built = Invalid
                   ELSE IF app = "fact" THEN built.valid /\ IsFactorization(built.list, n)
                   ELSE /\ built.count = Cardinality(TrueSums(n))
                        /\ Range(built.list) = IF n < 0 THEN TrueSums(n) ELSE {}
    <3> DEFINE n == ToNumber(texts[k])
               result == ProcessQuery(app, n)
    <3>1. Index(k) \in DOMAIN at /\ queries[Index(k)] = n
        BY <2>7, <2>8
    <3>2. results[Index(k)] = result
        BY <2>6, <3>1
    <3>3. result \in Seq(Int) /\ IsResult(n, result)
      <4>1. n \in NumbersAsked
          BY <2>1, <3>1, QueryAsked
      <4> QED
        BY <4>1, ResultType, ResultRight
    <3>4. n \in Int
      <4>1. texts[k] \in Seq(Symbols)
          BY <2>3
      <4> QED
        BY <2>8, <4>1, NumberType
    <3>5. page[k] = BuildResult(n, result)
        BY <2>2, <2>8, <3>2
    <3> HIDE DEF n, result
    <3>6. LET built == BuildResult(n, result)
          IN  IF app = "fact" /\ n <= 1 THEN built = Invalid
              ELSE IF app = "fact" THEN built.valid /\ IsFactorization(built.list, n)
              ELSE /\ built.count = Cardinality(TrueSums(n))
                   /\ Range(built.list) = IF n < 0 THEN TrueSums(n) ELSE {}
        BY <3>3, <3>4, BuiltRight
    <3> QED
      BY <3>5, <3>6 DEF n
  <2>9. \A k \in DOMAIN texts : ~IsNumber(texts[k]) => page[k] = Invalid
      BY <2>2
  <2>10. DOMAIN page = DOMAIN texts
      BY <2>2
  <2> QED
    BY <2>8, <2>9, <2>10 DEF PageIsRight, texts
<1>2. RouteInv => PageIsRight
  <2>1. phase # "responded" => PageIsRight
      BY DEF PageIsRight
  <2> QED
    BY <1>1, <2>1
<1> QED
  BY <1>2, RouteInvariant, PTL

====
