---- MODULE Calculation ----
(***************************************************************************)
(* One request for calculations, from its URI to its page: CalcWebApp and  *)
(* CalcData, with the data of their two subclasses.                        *)
(*                                                                         *)
(*   URI -> queries -> units -> results -> page                            *)
(*                                                                         *)
(* Each unit is computed by a calculator of this process, or as a WorkUnit *)
(* in a worker process, which it reaches and leaves as lines of text.      *)
(* ProductionLine models how units travel; here the way is abstract, and   *)
(* what they carry is not.  A text is a sequence of characters and of      *)
(* numbers: the digits of a number are one element.                        *)
(***************************************************************************)
EXTENDS Calculators, FiniteSets

CONSTANTS
    URIs,         \* the URIs asked
    Apps,         \* indexes of the applications: "fact", "goldbach"
    Slash, Equals, Comma, Plus, Space,  \* characters
    EscapedComma, \* the three characters %2C
    Letters,      \* some letters
    Address       \* of the request's CalcData in the master

VARIABLES
    app,      \* appIndex
    uri,      \* httpRequest.getURI()
    phase,    \* of the request
    queries, results, pending,  \* the CalcData
    at,       \* where each unit is
    wire,     \* the lines that are on their way to a worker, or back
    page      \* what formatResponse() writes for each text of the URI

vars == <<app, uri, phase, queries, results, pending, at, wire, page>>

Characters == {Slash, Equals, Comma, Plus, Space, EscapedComma, Letters}

Init ==
    /\ app \in Apps
    /\ uri \in URIs
    /\ phase = "asked"
    /\ queries = << >> /\ results = << >> /\ pending = 0
    /\ at = << >> /\ wire = << >>
    /\ page = << >>

---------------------------------------------------------------------------
(* Texts *)

DecodeURI(text) ==
    [k \in DOMAIN text |-> CASE text[k] = EscapedComma -> Comma
                             [] text[k] = Plus -> Space
                             [] OTHER -> text[k]]

\* Util::split(): the parts between the delimiters, those that are empty too
\* unless they are trimmed.
Split(text, delimiter, trimEmpty) ==
    LET parts == FoldLeft(LAMBDA done, c :
                             IF c = delimiter THEN Append(done, << >>)
                             ELSE [done EXCEPT ![Len(done)] = Append(@, c)],
                          << << >> >>, text)
    IN  IF trimEmpty
        THEN FoldLeft(LAMBDA kept, part : IF part = << >> THEN kept ELSE Append(kept, part),
                      << >>, parts)
        ELSE parts

\* std::stoll() reads a number after white space; what follows it is an error.
IsNumber(text) ==
    /\ text # << >>
    /\ Last(text) \notin Characters
    /\ \A k \in 1 .. Len(text) - 1 : text[k] = Space

ToNumber(text) == Last(text)

\* The numbers start after the first '=', or else after the last '/'.
NumbersStart(text) ==
    LET Places(c) == {k \in DOMAIN text : text[k] = c}
    IN  IF Places(Equals) # {} THEN CHOOSE k \in Places(Equals) : \A j \in Places(Equals) : k <= j
        ELSE CHOOSE k \in Places(Slash) : \A j \in Places(Slash) : j <= k

\* getURIValues(), which parseRequest() repeats.
GetURIValues(text) ==
    LET decoded == DecodeURI(text)
    IN  Split(SubSeq(decoded, NumbersStart(decoded) + 1, Len(decoded)), Comma, TRUE)

\* What is not a number is left out.
ParseRequest(text) ==
    FoldLeft(LAMBDA numbers, part : IF IsNumber(part) THEN Append(numbers, ToNumber(part))
                                    ELSE numbers,
             << >>, GetURIValues(text))

\* What an application is asked starts with its prefix, as in /fact; the numbers asked
\* have primes that isPrime() can tell, see SafeLimit.
ASSUME CalculationAssumption ==
    /\ Characters \cap Int = {} /\ Equals # Comma /\ Slash \notin {EscapedComma, Plus}
    /\ \A text \in URIs : /\ text \in Seq(Characters \cup Int) /\ text # << >> /\ text[1] = Slash
                          /\ \A k \in DOMAIN ParseRequest(text) :
                                Abs(ParseRequest(text)[k]) <= SafeLimit

---------------------------------------------------------------------------
(* Lines between master and worker *)

SerializeRequest(i) == << <<app>>, <<Address>>, <<i>>, <<queries[i]>> >>

\* The prefix and the values; the last character is removed, which is the prefix
\* where there are no values.
SerializeResult(result) ==
    LET text == FoldLeft(LAMBDA written, value : written \o <<value, Comma>>, <<Equals>>, result)
    IN  SubSeq(text, 1, Len(text) - 1)

\* createWorkUnit(), from the lines of a request: a CalcData of its own for the
\* one query, and what the response has to say of the master's.
CreateWorkUnit(request) == [appIndex |-> request[1], originalData |-> request[2],
                            originalIndex |-> request[3], query |-> ToNumber(request[4])]

SerializeResponse(unit, result) ==
    <<unit.appIndex, unit.originalData, unit.originalIndex, SerializeResult(result)>>

\* The values are appended to those that the result already has.
DeserializeResult(result, text) ==
    IF text = << >> THEN result
    ELSE LET start == CHOOSE k \in DOMAIN text : text[k] = Equals
             values == Split(SubSeq(text, start + 1, Len(text)), Comma, TRUE)
         IN  result \o [k \in DOMAIN values |-> ToNumber(values[k])]

---------------------------------------------------------------------------
(* The page *)

\* processQuery() of PrimeFactData and of GoldbachData.
ProcessQuery(application, number) ==
    IF application = "fact" THEN PrimeFactors(number) ELSE GoldbachResult(number)

Invalid == [valid |-> FALSE, count |-> 0, list |-> << >>]

\* buildResult(): a factorization, or the count of sums and, for a negative
\* number, the sums.
BuildResult(number, result) ==
    IF app = "fact"
    THEN IF Len(result) \div 2 = 0 THEN Invalid
         ELSE [valid |-> TRUE, count |-> Len(result) \div 2, list |-> result]
    ELSE LET sums == IF number >= 0 THEN result[1] ELSE Len(result) \div Operands(number)
         IN  [valid |-> TRUE, count |-> sums,
              list |-> IF number < 0 /\ sums > 0 THEN Grouped(result, Operands(number)) ELSE << >>]

(* Faulty variant: results are looked up at the place of the text.         *)
FormatByPlace ==
    LET texts == GetURIValues(uri)
    IN  [k \in DOMAIN texts |->
            IF IsNumber(texts[k]) /\ k \in DOMAIN results
            THEN BuildResult(ToNumber(texts[k]), results[k]) ELSE Invalid]

\* The URI is parsed again, and the next result belongs to the next number.
FormatResponse ==
    LET texts == GetURIValues(uri)
        Index(k) == Cardinality({j \in 1 .. k : IsNumber(texts[j])})
    IN  [k \in DOMAIN texts |->
            IF IsNumber(texts[k]) THEN BuildResult(ToNumber(texts[k]), results[Index(k)])
            ELSE Invalid]

---------------------------------------------------------------------------
(* Steps *)

\* createConcurrentData() where no number was asked: it responds at once.
CreateWithoutQueries ==
    /\ phase = "asked"
    /\ ParseRequest(uri) = << >>
    /\ page' = FormatResponse
    /\ phase' = "responded"
    /\ UNCHANGED <<app, uri, queries, results, pending, at, wire>>

\* createConcurrentData() with updatePending(), and decompose().
CreateConcurrentData ==
    /\ phase = "asked"
    /\ ParseRequest(uri) # << >>
    /\ phase' = "calculating"
    /\ queries' = ParseRequest(uri)
    /\ pending' = Len(queries')
    /\ results' = [i \in DOMAIN queries' |-> << >>]
    /\ at' = [i \in DOMAIN queries' |-> "queued"]
    /\ wire' = [i \in DOMAIN queries' |-> << >>]
    /\ UNCHANGED <<app, uri, page>>

\* A calculator of this process.
Calculate(i) ==
    /\ at[i] = "queued"
    /\ results' = [results EXCEPT ![i] = ProcessQuery(app, queries[i])]
    /\ at' = [at EXCEPT ![i] = "ready"]
    /\ UNCHANGED <<app, uri, phase, queries, pending, wire, page>>

Send(i) ==
    /\ at[i] = "queued"
    /\ wire' = [wire EXCEPT ![i] = SerializeRequest(i)]
    /\ at' = [at EXCEPT ![i] = "asked"]
    /\ UNCHANGED <<app, uri, phase, queries, results, pending, page>>

\* A worker: deserializeRequest(), a calculator, and ResponseClient.
Answer(i) ==
    /\ at[i] = "asked"
    /\ LET unit == CreateWorkUnit(wire[i])
           result == ProcessQuery(ToNumber(unit.appIndex), unit.query)
       IN  wire' = [wire EXCEPT ![i] = SerializeResponse(unit, result)]
    /\ at' = [at EXCEPT ![i] = "answered"]
    /\ UNCHANGED <<app, uri, phase, queries, results, pending, page>>

(* Faulty variant: the response of a worker goes to the first free result.  *)
ReceiveInOrder(i) ==
    /\ at[i] = "answered"
    /\ LET index == CHOOSE k \in DOMAIN at :
                         at[k] # "ready" /\ \A j \in 1 .. k - 1 : at[j] = "ready"
       IN  results' = [results EXCEPT ![index] = DeserializeResult(@, wire[i][4])]
    /\ at' = [at EXCEPT ![i] = "ready"]
    /\ wire' = [wire EXCEPT ![i] = << >>]
    /\ UNCHANGED <<app, uri, phase, queries, pending, page>>

\* deserializeResponse(): the response says where its result goes.
Receive(i) ==
    /\ at[i] = "answered"
    /\ LET index == ToNumber(wire[i][3])
       IN  results' = [results EXCEPT ![index] = DeserializeResult(@, wire[i][4])]
    /\ at' = [at EXCEPT ![i] = "ready"]
    /\ wire' = [wire EXCEPT ![i] = << >>]
    /\ UNCHANGED <<app, uri, phase, queries, pending, page>>

(* Faulty variant: a unit counts for two pending queries.                  *)
MarkTwice(i) ==
    /\ at[i] = "ready"
    /\ pending' = pending - 2
    /\ at' = [at EXCEPT ![i] = "marked"]
    /\ UNCHANGED <<app, uri, phase, queries, results, wire, page>>

MarkUnitReady(i) ==
    /\ at[i] = "ready"
    /\ pending' = IF pending > 0 THEN pending - 1 ELSE pending
    /\ at' = [at EXCEPT ![i] = "marked"]
    /\ UNCHANGED <<app, uri, phase, queries, results, wire, page>>

Respond ==
    /\ phase = "calculating"
    /\ pending = 0
    /\ page' = FormatResponse
    /\ phase' = "responded"
    /\ UNCHANGED <<app, uri, queries, results, pending, at, wire>>

Next ==
    \/ CreateWithoutQueries \/ CreateConcurrentData \/ Respond
    \/ \E i \in DOMAIN at :
          Calculate(i) \/ Send(i) \/ Answer(i) \/ Receive(i) \/ MarkUnitReady(i)

Spec == Init /\ [][Next]_vars

---------------------------------------------------------------------------
(* What a request is promised *)

(* The request's data have a result for each query, and the counter of     *)
(* pending queries counts those whose unit has not been marked ready.      *)
TypeOK ==
    /\ app \in Apps /\ uri \in URIs
    /\ phase \in {"asked", "calculating", "responded"}
    /\ DOMAIN results = DOMAIN queries /\ DOMAIN at = DOMAIN queries
    /\ \A i \in DOMAIN at : at[i] \in {"queued", "asked", "answered", "ready", "marked"}
    /\ pending = Cardinality({i \in DOMAIN at : at[i] # "marked"})

AreFactors(number, result) ==
    IF number <= 1 THEN result = << >> ELSE IsFactorization(result, number)

AreSums(number, result) ==
    IF number >= 0 THEN result = <<Cardinality(TrueSums(number))>>
    ELSE LET sums == Grouped(result, Operands(number))
         IN  /\ Range(sums) = TrueSums(number)
             /\ Len(sums) = Cardinality(TrueSums(number))
             /\ Len(result) = Len(sums) * Operands(number)

IsResult(number, result) ==
    IF app = "fact" THEN AreFactors(number, result) ELSE AreSums(number, result)

(* A unit that is ready has the right result for its query, in its own     *)
(* place, whoever computed it: the primes are all primes, no sum is missed *)
(* or told twice, and nothing was lost as text.                            *)
ResultsAreRight ==
    \A i \in DOMAIN at :
       IF at[i] \in {"ready", "marked"} THEN IsResult(queries[i], results[i])
       ELSE results[i] = << >>

(* The page has an entry for each text of the URI, in its order: an error  *)
(* where the text is not a number or has no factorization, and else the    *)
(* answer to that number and to no other.                                  *)
PageIsRight ==
    phase = "responded" =>
       LET texts == GetURIValues(uri)
       IN  /\ DOMAIN page = DOMAIN texts
           /\ \A k \in DOMAIN texts :
                 IF ~IsNumber(texts[k]) \/ (app = "fact" /\ ToNumber(texts[k]) <= 1)
                 THEN page[k] = Invalid
                 ELSE LET n == ToNumber(texts[k])
                      IN  IF app = "fact"
                          THEN page[k].valid /\ IsFactorization(page[k].list, n)
                          ELSE /\ page[k].count = Cardinality(TrueSums(n))
                               /\ Range(page[k].list) = IF n < 0 THEN TrueSums(n) ELSE {}
====
