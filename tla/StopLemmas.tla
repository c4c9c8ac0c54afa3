---- MODULE StopLemmas ----
(***************************************************************************)
(* Sequences that end with stop conditions, and the threads that heed      *)
(* them: what the proofs about the server's threads and about a worker's   *)
(* have in common.  The stop condition is a parameter of each operator.    *)
(***************************************************************************)
EXTENDS Naturals, Sequences, FiniteSets, Functions, FiniteSetTheorems, SequenceTheorems, TLAPS

(* A sequence has each of its elements once, stop conditions aside.        *)
Distinct(stop, s) == \A i, j \in DOMAIN s : s[i] = s[j] /\ s[i] # stop => i = j

(* How many stop conditions a sequence has.                                *)
StopsAt(stop, s) == {i \in DOMAIN s : s[i] = stop}
Stops(stop, s) == Cardinality(StopsAt(stop, s))

(* The threads that have taken their stop condition, and those of them     *)
(* that have passed it on.                                                 *)
Heeded(f) == {x \in DOMAIN f : f[x].at \in {"halt", "done"}}
Ended(f) == {x \in DOMAIN f : f[x].at = "done"}
AllEnded(f) == \A x \in DOMAIN f : f[x].at = "done"

Count(condition) == IF condition THEN 1 ELSE 0

(* A queue whose producer sends its stop conditions after everything else. *)
Passed(stop, s, sent, heeded) ==
    /\ sent = heeded + Stops(stop, s)
    /\ \A i, j \in DOMAIN s : i < j /\ s[i] = stop => s[j] = stop
    /\ heeded > 0 => Range(s) \subseteq {stop}

(* A queue with many producers, each of which sends a stop condition and   *)
(* nothing after it; over: they all have.                                  *)
Gathered(stop, s, sent, heeded, over) ==
    /\ sent = heeded + Stops(stop, s)
    /\ over => s = << >> \/ s[Len(s)] = stop

(* The stop condition is the last element.                                 *)
StopLast(stop, s) == \A i \in DOMAIN s : s[i] = stop => i = Len(s)

----
(* The length of a sequence, and its elements when one is added or taken.  *)
LEMMA SequenceType ==
    ASSUME NEW S, NEW s \in Seq(S)
    PROVE  /\ DOMAIN s = 1 .. Len(s) /\ Len(s) \in Nat
           /\ s # << >> => Len(s) > 0 /\ Len(s) \in DOMAIN s
<1>1. DOMAIN s = 1 .. Len(s) /\ Len(s) \in Nat
  OBVIOUS
<1>2. s # << >> => Len(s) > 0
  BY EmptySeq, <1>1
<1> QED
  BY <1>1, <1>2

LEMMA AppendRange ==
    ASSUME NEW S, NEW s \in Seq(S), NEW e \in S
    PROVE  /\ Range(Append(s, e)) = Range(s) \cup {e}
           /\ \A i \in DOMAIN Append(s, e) :
                 \/ i \in DOMAIN s /\ Append(s, e)[i] = s[i]
                 \/ i = Len(s) + 1 /\ Append(s, e)[i] = e
<1>1. /\ DOMAIN s = 1 .. Len(s) /\ DOMAIN Append(s, e) = 1 .. Len(s) + 1
      /\ \A i \in 1 .. Len(s) : Append(s, e)[i] = s[i]
      /\ Append(s, e)[Len(s) + 1] = e /\ Len(s) \in Nat
  OBVIOUS
<1>2. \A i \in 1 .. Len(s) + 1 : i \in 1 .. Len(s) \/ i = Len(s) + 1
  BY <1>1
<1>3. 1 .. Len(s) \subseteq 1 .. Len(s) + 1 /\ Len(s) + 1 \in 1 .. Len(s) + 1
  BY <1>1
<1> QED
  BY <1>1, <1>2, <1>3 DEF Range

LEMMA TailRange ==
    ASSUME NEW S, NEW s \in Seq(S), s # << >>
    PROVE  /\ Range(Tail(s)) \subseteq Range(s) /\ Head(s) \in Range(s)
           /\ \A i \in DOMAIN Tail(s) : i + 1 \in DOMAIN s /\ Tail(s)[i] = s[i + 1]
           /\ 1 \in DOMAIN s /\ Head(s) = s[1]
           /\ \A i \in DOMAIN Tail(s) : i \in Nat /\ i + 1 # 1
<1>1. /\ DOMAIN s = 1 .. Len(s) /\ DOMAIN Tail(s) = 1 .. Len(s) - 1
      /\ Len(s) \in Nat /\ Len(s) > 0 /\ Head(s) = s[1]
      /\ \A i \in 1 .. Len(s) - 1 : Tail(s)[i] = s[i + 1]
  OBVIOUS
<1>2. \A i \in 1 .. Len(s) - 1 : i + 1 \in 1 .. Len(s) /\ i + 1 # 1 /\ i \in Nat
  BY <1>1
<1>3. 1 \in 1 .. Len(s)
  BY <1>1
<1> QED
  BY <1>1, <1>2, <1>3 DEF Range

----
(* Sequences whose elements differ.                                        *)
LEMMA DistinctAppend ==
    ASSUME NEW stop, NEW S, NEW s \in Seq(S), NEW e \in S, Distinct(stop, s),
           e = stop \/ e \notin Range(s)
    PROVE  /\ Distinct(stop, Append(s, e))
           /\ Range(Append(s, e)) = Range(s) \cup {e}
<1>1. /\ Range(Append(s, e)) = Range(s) \cup {e}
      /\ \A i \in DOMAIN Append(s, e) :
            \/ i \in DOMAIN s /\ Append(s, e)[i] = s[i]
            \/ i = Len(s) + 1 /\ Append(s, e)[i] = e
  BY AppendRange
<1>2. \A i \in DOMAIN s : s[i] \in Range(s)
  BY DEF Range
<1> QED
  BY <1>1, <1>2 DEF Distinct

LEMMA DistinctTail ==
    ASSUME NEW stop, NEW S, NEW s \in Seq(S), s # << >>, Distinct(stop, s)
    PROVE  /\ Distinct(stop, Tail(s))
           /\ Head(s) # stop => Range(Tail(s)) = Range(s) \ {Head(s)}
           /\ Range(Tail(s)) \ {stop} = (Range(s) \ {stop}) \ {Head(s)}
           /\ Head(s) \in Range(s) /\ Range(Tail(s)) \subseteq Range(s)
<1>1. /\ Range(Tail(s)) \subseteq Range(s) /\ Head(s) \in Range(s)
      /\ \A i \in DOMAIN Tail(s) : i + 1 \in DOMAIN s /\ Tail(s)[i] = s[i + 1]
      /\ 1 \in DOMAIN s /\ Head(s) = s[1]
      /\ \A i \in DOMAIN Tail(s) : i \in Nat /\ i + 1 # 1
  BY TailRange
<1>2. \A i, j \in DOMAIN Tail(s) : i + 1 = j + 1 => i = j
  BY <1>1
<1>3. Distinct(stop, Tail(s))
  BY <1>1, <1>2 DEF Distinct
<1>4. Head(s) # stop => Head(s) \notin Range(Tail(s))
  BY <1>1 DEF Distinct, Range
<1>5. \A x \in Range(s) : x = Head(s) \/ x \in Range(Tail(s))
  <2>1. ASSUME NEW i \in DOMAIN s, i # 1 PROVE s[i] \in Range(Tail(s))
    <3>1. i - 1 \in DOMAIN Tail(s) /\ Tail(s)[i - 1] = s[i]
      BY <2>1
    <3> QED
      BY <3>1 DEF Range
  <2> QED
    BY <1>1, <2>1 DEF Range
<1> QED
  BY <1>1, <1>3, <1>4, <1>5

(* What a crash leaves of a sequence.                                      *)
LEMMA DistinctPrefix ==
    ASSUME NEW stop, NEW S, NEW s \in Seq(S), NEW n \in 0 .. Len(s), Distinct(stop, s)
    PROVE  Distinct(stop, SubSeq(s, 1, n)) /\ Range(SubSeq(s, 1, n)) \subseteq Range(s)
<1>1. /\ DOMAIN SubSeq(s, 1, n) = 1 .. n /\ 1 .. n \subseteq DOMAIN s
      /\ \A i \in 1 .. n : SubSeq(s, 1, n)[i] = s[i]
  OBVIOUS
<1> QED
  BY <1>1 DEF Distinct, Range

LEMMA DistinctEmpty == Range(<< >>) = {} /\ \A stop : Distinct(stop, << >>)
  BY DEF Distinct, Range

----
(* The stop conditions of a sequence, of which one element is added or     *)
(* taken.                                                                  *)
LEMMA StopsType ==
    ASSUME NEW stop, NEW S, NEW s \in Seq(S)
    PROVE  /\ IsFiniteSet(StopsAt(stop, s)) /\ Stops(stop, s) \in Nat
           /\ Stops(stop, s) = 0 => stop \notin Range(s)
<1>1. DOMAIN s = 1 .. Len(s) /\ Len(s) \in Nat
  BY SequenceType
<1>2. IsFiniteSet(1 .. Len(s))
  BY <1>1, FS_Interval
<1>3. IsFiniteSet(StopsAt(stop, s))
  BY <1>1, <1>2, FS_Subset DEF StopsAt
<1>4. Stops(stop, s) \in Nat /\ (Stops(stop, s) = 0 => StopsAt(stop, s) = {})
  BY <1>3, FS_CardinalityType, FS_EmptySet DEF Stops
<1> QED
  BY <1>1, <1>3, <1>4 DEF StopsAt, Range

LEMMA StopsAppend ==
    ASSUME NEW stop, NEW S, NEW s \in Seq(S), NEW e \in S
    PROVE  Stops(stop, Append(s, e)) = Stops(stop, s) + Count(e = stop)
<1>1. /\ DOMAIN s = 1 .. Len(s) /\ DOMAIN Append(s, e) = 1 .. Len(s) + 1
      /\ \A i \in 1 .. Len(s) : Append(s, e)[i] = s[i]
      /\ Append(s, e)[Len(s) + 1] = e /\ Len(s) \in Nat
  OBVIOUS
<1>2. \A i : i \in 1 .. Len(s) + 1 <=> i \in 1 .. Len(s) \/ i = Len(s) + 1
  BY <1>1
<1>3. Len(s) + 1 \notin 1 .. Len(s)
  BY <1>1
<1>4. IsFiniteSet(StopsAt(stop, s)) /\ Stops(stop, s) \in Nat
  BY StopsType
<1>5. CASE e = stop
  <2>1. StopsAt(stop, Append(s, e)) = StopsAt(stop, s) \cup {Len(s) + 1}
    BY <1>1, <1>2, <1>5 DEF StopsAt
  <2>2. Len(s) + 1 \notin StopsAt(stop, s)
    BY <1>1, <1>3 DEF StopsAt
  <2>3. Cardinality(StopsAt(stop, s) \cup {Len(s) + 1}) = Cardinality(StopsAt(stop, s)) + 1
    BY <1>4, <2>2, FS_AddElement
  <2> QED
    BY <1>5, <2>1, <2>3 DEF Stops, Count
<1>6. CASE e # stop
  <2>1. StopsAt(stop, Append(s, e)) = StopsAt(stop, s)
    BY <1>1, <1>2, <1>6 DEF StopsAt
  <2> QED
    BY <1>4, <1>6, <2>1 DEF Stops, Count
<1> QED
  BY <1>5, <1>6

LEMMA StopsTail ==
    ASSUME NEW stop, NEW S, NEW s \in Seq(S), s # << >>
    PROVE  Stops(stop, s) = Stops(stop, Tail(s)) + Count(Head(s) = stop)
<1> DEFINE T == StopsAt(stop, s) \ {1}
           f == [i \in T |-> i - 1]
<1>1. /\ DOMAIN s = 1 .. Len(s) /\ DOMAIN Tail(s) = 1 .. Len(s) - 1
      /\ Len(s) \in Nat /\ Len(s) > 0 /\ Head(s) = s[1]
      /\ \A i \in 1 .. Len(s) - 1 : Tail(s)[i] = s[i + 1]
  OBVIOUS
<1>2. IsFiniteSet(StopsAt(stop, s)) /\ Stops(stop, s) \in Nat
  BY StopsType
<1>3. /\ IsFiniteSet(T)
      /\ Cardinality(T) = IF 1 \in StopsAt(stop, s) THEN Stops(stop, s) - 1 ELSE Stops(stop, s)
  BY <1>2, FS_RemoveElement DEF Stops
<1>4. StopsAt(stop, s) \subseteq Nat /\ (1 \in StopsAt(stop, s) <=> Head(s) = stop)
  BY <1>1 DEF StopsAt
<1>5. ExistsBijection(T, StopsAt(stop, Tail(s)))
  <2>0. \A i \in T : f[i] = i - 1
    OBVIOUS
  <2>1. \A i \in T : /\ i \in 1 .. Len(s) /\ i # 1 /\ s[i] = stop
                     /\ i - 1 \in 1 .. Len(s) - 1 /\ i - 1 + 1 = i
    BY <1>1 DEF StopsAt
  <2>2. f \in [T -> StopsAt(stop, Tail(s))]
    BY <1>1, <2>1 DEF StopsAt
  <2>3. \A i, j \in T : f[i] = f[j] => i = j
    BY <2>1
  <2>4. ASSUME NEW i \in StopsAt(stop, Tail(s)) PROVE \E j \in T : f[j] = i
    <3>1. i \in 1 .. Len(s) - 1 /\ s[i + 1] = stop
      BY <1>1 DEF StopsAt
    <3>2. i + 1 \in 1 .. Len(s) /\ i + 1 # 1 /\ i + 1 - 1 = i
      BY <1>1, <3>1
    <3>3. i + 1 \in T
      BY <1>1, <3>1, <3>2 DEF StopsAt
    <3>4. f[i + 1] = i
      BY <2>0, <3>1, <3>2, <3>3
    <3> QED
      BY <3>3, <3>4
  <2> HIDE DEF f, T
  <2>5. f \in Injection(T, StopsAt(stop, Tail(s)))
    BY <2>2, <2>3 DEF Injection, IsInjective
  <2>6. f \in Surjection(T, StopsAt(stop, Tail(s)))
    BY <2>2, <2>4 DEF Surjection
  <2> QED
    BY <2>5, <2>6 DEF ExistsBijection, Bijection
<1>6. Stops(stop, Tail(s)) = Cardinality(T)
  BY <1>3, <1>5, FS_Bijection DEF Stops
<1> QED
  BY <1>2, <1>3, <1>4, <1>6 DEF Count

(* The four operations on a queue that one producer closes.                *)
LEMMA PassedAppend ==
    ASSUME NEW stop, NEW S, NEW s \in Seq(S), NEW e \in S, NEW n \in Nat, NEW h \in Nat,
           Passed(stop, s, n, h), e = stop \/ n = 0
    PROVE  Passed(stop, Append(s, e), n + Count(e = stop), h)
<1>1. /\ Range(Append(s, e)) = Range(s) \cup {e}
      /\ \A i \in DOMAIN Append(s, e) :
            \/ i \in DOMAIN s /\ Append(s, e)[i] = s[i]
            \/ i = Len(s) + 1 /\ Append(s, e)[i] = e
  BY AppendRange
<1>2. /\ Stops(stop, s) \in Nat /\ DOMAIN s = 1 .. Len(s) /\ Len(s) \in Nat
      /\ Stops(stop, s) = 0 => stop \notin Range(s)
  BY SequenceType, StopsType
<1>3. Stops(stop, Append(s, e)) = Stops(stop, s) + Count(e = stop)
  BY StopsAppend
<1>4. n + Count(e = stop) = h + Stops(stop, Append(s, e))
  BY <1>2, <1>3 DEF Passed, Count
<1>5. ASSUME NEW i \in DOMAIN Append(s, e), NEW j \in DOMAIN Append(s, e), i < j,
             Append(s, e)[i] = stop
      PROVE  Append(s, e)[j] = stop
  <2>1. CASE e = stop
    BY <1>1, <1>2, <1>5, <2>1 DEF Passed
  <2>2. CASE e # stop
    <3>1. stop \notin Range(s)
      BY <1>2, <2>2 DEF Passed
    <3>2. i \in DOMAIN s /\ s[i] = stop
      BY <1>1, <1>5, <2>2
    <3> QED
      BY <3>1, <3>2 DEF Range
  <2> QED
    BY <2>1, <2>2
<1>6. h > 0 => Range(Append(s, e)) \subseteq {stop}
  BY <1>1, <1>2 DEF Passed
<1> QED
  BY <1>4, <1>5, <1>6 DEF Passed

LEMMA PassedMore ==
    ASSUME NEW stop, NEW S, NEW s \in Seq(S), NEW e \in S, NEW n \in Nat, NEW h \in Nat,
           Passed(stop, s, n, h), e # stop, n = 0
    PROVE  Passed(stop, Append(s, e), n, h)
<1>1. Passed(stop, Append(s, e), n + Count(e = stop), h)
  BY PassedAppend
<1>2. n + Count(e = stop) = n
  BY DEF Count
<1> QED
  BY <1>1, <1>2

LEMMA PassedStop ==
    ASSUME NEW stop, NEW S, NEW s \in Seq(S), stop \in S, NEW n \in Nat, NEW h \in Nat,
           Passed(stop, s, n, h)
    PROVE  Passed(stop, Append(s, stop), n + 1, h)
<1>1. ASSUME NEW e \in S, e = stop PROVE Passed(stop, Append(s, e), n + 1, h)
  <2>1. Passed(stop, Append(s, e), n + Count(e = stop), h)
    BY <1>1, PassedAppend
  <2>2. n + Count(e = stop) = n + 1
    BY <1>1 DEF Count
  <2> QED
    BY <2>1, <2>2
<1> QED
  BY <1>1

LEMMA PassedTail ==
    ASSUME NEW stop, NEW S, NEW s \in Seq(S), s # << >>, NEW n \in Nat, NEW h \in Nat,
           Passed(stop, s, n, h)
    PROVE  Passed(stop, Tail(s), n, h + Count(Head(s) = stop))
<1>1. /\ Range(Tail(s)) \subseteq Range(s) /\ Head(s) \in Range(s)
      /\ \A i \in DOMAIN Tail(s) : i + 1 \in DOMAIN s /\ Tail(s)[i] = s[i + 1]
      /\ 1 \in DOMAIN s /\ Head(s) = s[1]
      /\ \A i \in DOMAIN Tail(s) : i \in Nat /\ i + 1 # 1
  BY TailRange
<1>2. Tail(s) \in Seq(S)
  BY HeadTailProperties
<1>3. /\ Stops(stop, s) \in Nat /\ Stops(stop, Tail(s)) \in Nat
      /\ Stops(stop, s) = Stops(stop, Tail(s)) + Count(Head(s) = stop)
  BY <1>2, StopsType, StopsTail
<1>4. n = h + Count(Head(s) = stop) + Stops(stop, Tail(s))
  BY <1>3 DEF Passed, Count
<1>5. ASSUME NEW i \in DOMAIN Tail(s), NEW j \in DOMAIN Tail(s), i < j, Tail(s)[i] = stop
      PROVE  Tail(s)[j] = stop
  <2>1. i + 1 < j + 1 /\ i + 1 \in DOMAIN s /\ j + 1 \in DOMAIN s
    BY <1>1, <1>5
  <2> QED
    BY <1>1, <1>5, <2>1 DEF Passed
<1>6. ASSUME h + Count(Head(s) = stop) > 0 PROVE Range(Tail(s)) \subseteq {stop}
  <2>1. CASE Head(s) = stop
    <3>1. \A i \in DOMAIN Tail(s) : 1 < i + 1
      BY <1>1
    <3>2. \A i \in DOMAIN Tail(s) : Tail(s)[i] = stop
      BY <1>1, <2>1, <3>1 DEF Passed
    <3> QED
      BY <3>2 DEF Range
  <2>2. CASE Head(s) # stop
    BY <1>1, <1>6, <2>2 DEF Passed, Count
  <2> QED
    BY <2>1, <2>2
<1> QED
  BY <1>4, <1>5, <1>6 DEF Passed

(* And on one that many producers close.                                   *)
LEMMA GatheredAppend ==
    ASSUME NEW stop, NEW S, NEW s \in Seq(S), NEW e \in S, NEW n \in Nat, NEW h \in Nat,
           NEW over, NEW overNext, Gathered(stop, s, n, h, over), e = stop \/ ~overNext
    PROVE  Gathered(stop, Append(s, e), n + Count(e = stop), h, overNext)
<1>1. Len(Append(s, e)) = Len(s) + 1 /\ Append(s, e)[Len(s) + 1] = e
  OBVIOUS
<1>2. Stops(stop, s) \in Nat
  BY StopsType
<1>3. Stops(stop, Append(s, e)) = Stops(stop, s) + Count(e = stop)
  BY StopsAppend
<1> QED
  BY <1>1, <1>2, <1>3 DEF Gathered, Count

LEMMA GatheredMore ==
    ASSUME NEW stop, NEW S, NEW s \in Seq(S), NEW e \in S, NEW n \in Nat, NEW h \in Nat,
           NEW over, NEW overNext, Gathered(stop, s, n, h, over), e # stop, ~overNext
    PROVE  Gathered(stop, Append(s, e), n, h, overNext)
<1>1. Gathered(stop, Append(s, e), n + Count(e = stop), h, overNext)
  BY GatheredAppend
<1>2. n + Count(e = stop) = n
  BY DEF Count
<1> QED
  BY <1>1, <1>2

LEMMA GatheredStop ==
    ASSUME NEW stop, NEW S, NEW s \in Seq(S), stop \in S, NEW n \in Nat, NEW h \in Nat,
           NEW over, NEW overNext, Gathered(stop, s, n, h, over)
    PROVE  Gathered(stop, Append(s, stop), n + 1, h, overNext)
<1>1. ASSUME NEW e \in S, e = stop PROVE Gathered(stop, Append(s, e), n + 1, h, overNext)
  <2>1. Gathered(stop, Append(s, e), n + Count(e = stop), h, overNext)
    BY <1>1, GatheredAppend
  <2>2. n + Count(e = stop) = n + 1
    BY <1>1 DEF Count
  <2> QED
    BY <2>1, <2>2
<1> QED
  BY <1>1

LEMMA GatheredTail ==
    ASSUME NEW stop, NEW S, NEW s \in Seq(S), s # << >>, NEW n \in Nat, NEW h \in Nat, NEW over,
           Gathered(stop, s, n, h, over)
    PROVE  Gathered(stop, Tail(s), n, h + Count(Head(s) = stop), over)
<1>1. /\ Tail(s) \in Seq(S) /\ Len(Tail(s)) = Len(s) - 1 /\ Len(s) \in Nat
      /\ \A i \in 1 .. Len(s) - 1 : Tail(s)[i] = s[i + 1]
  BY HeadTailProperties
<1>2. /\ Stops(stop, s) \in Nat /\ Stops(stop, Tail(s)) \in Nat
      /\ Stops(stop, s) = Stops(stop, Tail(s)) + Count(Head(s) = stop)
  BY <1>1, StopsType, StopsTail
<1>3. n = h + Count(Head(s) = stop) + Stops(stop, Tail(s))
  BY <1>2 DEF Gathered, Count
<1>4. ASSUME over, Tail(s) # << >> PROVE Tail(s)[Len(Tail(s))] = stop
  <2>1. Len(Tail(s)) \in Nat /\ Len(Tail(s)) > 0
    BY <1>1, <1>4, SequenceType
  <2>2. Len(s) - 1 \in 1 .. Len(s) - 1 /\ Len(s) - 1 + 1 = Len(s)
    BY <1>1, <2>1
  <2>3. s[Len(s)] = stop
    BY <1>4 DEF Gathered
  <2> QED
    BY <1>1, <2>2, <2>3
<1> QED
  BY <1>3, <1>4 DEF Gathered

(* When as many stop conditions were heeded as were sent.                 *)
LEMMA PassedAll ==
    ASSUME NEW stop, NEW S, NEW s \in Seq(S), NEW n \in Nat, NEW h \in Nat, Passed(stop, s, n, h),
           h > 0, n <= h
    PROVE  s = << >>
<1>1. Stops(stop, s) \in Nat /\ (Stops(stop, s) = 0 => stop \notin Range(s))
  BY StopsType
<1>2. stop \notin Range(s) /\ Range(s) \subseteq {stop}
  BY <1>1 DEF Passed
<1>3. s # << >> => Len(s) \in DOMAIN s
  BY SequenceType
<1> QED
  BY <1>2, <1>3 DEF Range

LEMMA GatheredAll ==
    ASSUME NEW stop, NEW S, NEW s \in Seq(S), NEW n \in Nat, NEW h \in Nat, NEW over,
           Gathered(stop, s, n, h, over), n <= h, n = h => over
    PROVE  s = << >> /\ over
<1>1. Stops(stop, s) \in Nat /\ (Stops(stop, s) = 0 => stop \notin Range(s))
  BY StopsType
<1>2. n = h /\ stop \notin Range(s)
  BY <1>1 DEF Gathered
<1>3. s = << >> \/ s[Len(s)] = stop
  BY <1>2 DEF Gathered
<1>4. s # << >> => Len(s) \in DOMAIN s
  BY SequenceType
<1> QED
  BY <1>2, <1>3, <1>4 DEF Range

----
(* A thread of several moves from a position to another.                   *)
Moved(f, g, x, a, b) ==
    /\ DOMAIN g = DOMAIN f /\ x \in DOMAIN f
    /\ f[x].at = a /\ g[x].at = b
    /\ \A y \in DOMAIN f \ {x} : g[y].at = f[y].at

LEMMA HeededType ==
    ASSUME NEW f, IsFiniteSet(DOMAIN f)
    PROVE  /\ IsFiniteSet(Heeded(f)) /\ IsFiniteSet(Ended(f))
           /\ Cardinality(Heeded(f)) \in Nat /\ Cardinality(Ended(f)) \in Nat
           /\ Cardinality(DOMAIN f) \in Nat
           /\ Cardinality(Ended(f)) <= Cardinality(DOMAIN f)
           /\ Cardinality(Ended(f)) = Cardinality(DOMAIN f) => AllEnded(f)
           /\ AllEnded(f) => Cardinality(Heeded(f)) = Cardinality(DOMAIN f)
           /\ Heeded(f) # {} => Cardinality(Heeded(f)) > 0
<1>1. Heeded(f) \subseteq DOMAIN f /\ Ended(f) \subseteq DOMAIN f
  BY DEF Heeded, Ended
<1>2. /\ IsFiniteSet(Heeded(f)) /\ IsFiniteSet(Ended(f))
      /\ Cardinality(Ended(f)) <= Cardinality(DOMAIN f)
      /\ Cardinality(Ended(f)) = Cardinality(DOMAIN f) => Ended(f) = DOMAIN f
  BY <1>1, FS_Subset
<1>3. /\ Cardinality(Heeded(f)) \in Nat /\ Cardinality(Ended(f)) \in Nat
      /\ Cardinality(DOMAIN f) \in Nat
  BY <1>2, FS_CardinalityType
<1>4. Ended(f) = DOMAIN f => AllEnded(f)
  BY DEF Ended, AllEnded
<1>5. AllEnded(f) => Heeded(f) = DOMAIN f
  BY DEF AllEnded, Heeded
<1>6. Heeded(f) # {} => Cardinality(Heeded(f)) # 0
  BY <1>2, FS_EmptySet
<1> QED
  BY <1>2, <1>3, <1>4, <1>5, <1>6

LEMMA MovedHeeded ==
    ASSUME NEW f, NEW g, NEW x, NEW a, NEW b, IsFiniteSet(DOMAIN f), Moved(f, g, x, a, b)
    PROVE  /\ a = "take" /\ b = "halt" =>
                 Cardinality(Heeded(g)) = Cardinality(Heeded(f)) + 1 /\ Ended(g) = Ended(f)
           /\ a = "halt" /\ b = "done" =>
                 Cardinality(Ended(g)) = Cardinality(Ended(f)) + 1 /\ Heeded(g) = Heeded(f)
           /\ a \notin {"halt", "done"} /\ b \notin {"halt", "done"} =>
                 Ended(g) = Ended(f) /\ Heeded(g) = Heeded(f)
           /\ AllEnded(g) => AllEnded(f) \/ b = "done"
           /\ a # "done" => ~AllEnded(f)
           /\ b # "done" => ~AllEnded(g)
<1> USE DEF Moved
<1>1. IsFiniteSet(Heeded(f)) /\ IsFiniteSet(Ended(f))
  BY HeededType
<1>2. ASSUME a = "take", b = "halt"
      PROVE  Cardinality(Heeded(g)) = Cardinality(Heeded(f)) + 1 /\ Ended(g) = Ended(f)
  <2>1. Heeded(g) = Heeded(f) \cup {x} /\ x \notin Heeded(f)
    BY <1>2 DEF Heeded
  <2>2. Ended(g) = Ended(f)
    BY <1>2 DEF Ended
  <2> QED
    BY <1>1, <2>1, <2>2, FS_AddElement
<1>3. ASSUME a = "halt", b = "done"
      PROVE  Cardinality(Ended(g)) = Cardinality(Ended(f)) + 1 /\ Heeded(g) = Heeded(f)
  <2>1. Ended(g) = Ended(f) \cup {x} /\ x \notin Ended(f)
    BY <1>3 DEF Ended
  <2>2. Heeded(g) = Heeded(f)
    BY <1>3 DEF Heeded
  <2> QED
    BY <1>1, <2>1, <2>2, FS_AddElement
<1>4. ASSUME a \notin {"halt", "done"}, b \notin {"halt", "done"}
      PROVE  Ended(g) = Ended(f) /\ Heeded(g) = Heeded(f)
  BY <1>4 DEF Ended, Heeded
<1>5. AllEnded(g) => AllEnded(f) \/ b = "done"
  BY DEF AllEnded
<1>6. (a # "done" => ~AllEnded(f)) /\ (b # "done" => ~AllEnded(g))
  BY DEF AllEnded
<1> QED
  BY <1>2, <1>3, <1>4, <1>5, <1>6

----
(* A conversation whose last message is the stop condition.                *)
LEMMA StopLastAppend ==
    ASSUME NEW stop, NEW S, NEW s \in Seq(S), NEW e \in S, stop \notin Range(s)
    PROVE  StopLast(stop, Append(s, e)) /\ Range(Append(s, e)) = Range(s) \cup {e}
<1>1. /\ Range(Append(s, e)) = Range(s) \cup {e}
      /\ \A i \in DOMAIN Append(s, e) :
            \/ i \in DOMAIN s /\ Append(s, e)[i] = s[i]
            \/ i = Len(s) + 1 /\ Append(s, e)[i] = e
  BY AppendRange
<1>2. \A i \in DOMAIN s : s[i] # stop
  BY DEF Range
<1>3. Len(Append(s, e)) = Len(s) + 1
  OBVIOUS
<1> QED
  BY <1>1, <1>2, <1>3 DEF StopLast

LEMMA StopLastTail ==
    ASSUME NEW stop, NEW S, NEW s \in Seq(S), s # << >>, StopLast(stop, s)
    PROVE  /\ StopLast(stop, Tail(s)) /\ Tail(s) \in Seq(S)
           /\ Range(Tail(s)) \subseteq Range(s) /\ Head(s) \in Range(s)
           /\ Head(s) = stop => Tail(s) = << >>
<1>1. /\ Range(Tail(s)) \subseteq Range(s) /\ Head(s) \in Range(s)
      /\ \A i \in DOMAIN Tail(s) : i + 1 \in DOMAIN s /\ Tail(s)[i] = s[i + 1]
      /\ 1 \in DOMAIN s /\ Head(s) = s[1]
      /\ \A i \in DOMAIN Tail(s) : i \in Nat /\ i + 1 # 1
  BY TailRange
<1>2. Tail(s) \in Seq(S) /\ Len(Tail(s)) = Len(s) - 1 /\ Len(s) \in Nat
  BY HeadTailProperties
<1>3. \A i \in DOMAIN Tail(s) : i + 1 = Len(s) => i = Len(s) - 1
  BY <1>1, <1>2
<1>4. StopLast(stop, Tail(s))
  BY <1>1, <1>2, <1>3 DEF StopLast
<1>5. Head(s) = stop => Len(Tail(s)) = 0
  BY <1>1, <1>2 DEF StopLast
<1>6. Tail(s) # << >> => Len(Tail(s)) > 0
  BY <1>2, SequenceType
<1> QED
  BY <1>1, <1>2, <1>4, <1>5, <1>6

LEMMA StopLastPrefix ==
    ASSUME NEW stop, NEW S, NEW s \in Seq(S), NEW n \in 0 .. Len(s), stop \notin Range(s)
    PROVE  StopLast(stop, SubSeq(s, 1, n)) /\ Range(SubSeq(s, 1, n)) \subseteq Range(s)
<1>1. /\ DOMAIN SubSeq(s, 1, n) = 1 .. n /\ 1 .. n \subseteq DOMAIN s
      /\ \A i \in 1 .. n : SubSeq(s, 1, n)[i] = s[i]
  OBVIOUS
<1> QED
  BY <1>1 DEF StopLast, Range

LEMMA StopLastEmpty == Range(<< >>) = {} /\ \A stop : StopLast(stop, << >>)
  BY DEF StopLast, Range

====
