---- MODULE ClientConnectionProofs ----
(***************************************************************************)
(* That no connection is leaked and no response is at two places, and why  *)
(* a response may go astray, for whatever a client asks on its connection, *)
(* in whatever segments it arrives; and that a client that waits for its   *)
(* answers gets them in order.                                             *)
(***************************************************************************)
EXTENDS ClientConnection, StopLemmas

(* The threads, and where they may be.  The words that the parser reads    *)
(* have no part in what follows.                                           *)
Reading == {"request line", "header", "body", "route"}
Answering == {"head", "body of page", "write", "clear"}
HandlerPlaces == Reading \cup Answering \cup {"after", "close", "gone"}
ResponderPlaces == {"idle", "head", "body", "write", "clear", "delete"}

IsHandler(h) ==
    /\ h = [at |-> h.at, request |-> h.request, length |-> h.length, missing |-> h.missing]
    /\ h.at \in HandlerPlaces

TypeInv ==
    /\ script \in Scripts /\ manners \in Manners
    /\ asked \in 0 .. Len(script)
    /\ descriptor \in {"open", "closed"}
    /\ IsHandler(handler)
    /\ responder \in [at : ResponderPlaces, response : Nat]
    /\ handled \in Seq(Range(handled))
    /\ done \in Seq(Nat \ {0})
    /\ output \in Seq(Nat \X {"head", "body"})
    /\ astray \subseteq 1 .. Len(handled)

(* A response is at one place: it is calculated, or it awaits the          *)
(* responder, or the responder has it.                                     *)
OnePlace ==
    /\ Distinct(0, done)
    /\ calculating \cap Range(done) = {}
    /\ responder.at # "idle" => responder.response \notin calculating \cup Range(done)

PendingAreCalculations ==
    \A k \in Pending : k \in 1 .. Len(handled) /\ App(handled[k]) = "calculation"

NoConnectionLeaks == descriptor = "open" => handler.at # "gone" \/ Pending # {}

(* The handler answers the last request that it routed, a page.  While no  *)
(* page is asked after a calculation, no response is due at that time: the *)
(* buffer has one writer.                                                  *)
AnswersLast ==
    /\ handler.at \in Answering =>
          handled # << >> /\ App(handled[Len(handled)]) # "calculation"
    /\ handler.at \in {"after", "close"} \cup Answering =>
          handled # << >> /\ handler.request = handled[Len(handled)]
    /\ handler.at = "close" => IsOld(handler.request)

(* With one writer, no thread sends an empty buffer.                       *)
NothingEmptyIsSent ==
    handler.at \in {"body of page", "write"} \/ responder.at \in {"body", "write"} =>
        output # << >>

(* And the connection is closed only when the handler is done with it.     *)
ClosedByHandler ==
    descriptor = "closed" =>
        /\ handler.at = "gone"
        /\ Pending # {} => over \/ IsOld(handled[Len(handled)])

ConnectionInv ==
    /\ TypeInv /\ OnePlace /\ PendingAreCalculations /\ NoConnectionLeaks /\ AnswersLast
    /\ ~TwoWriters => NothingEmptyIsSent /\ ClosedByHandler
    /\ AstrayOnlyByClose

----
LEMMA HandledType ==
    ASSUME TypeInv
    PROVE  /\ Len(handled) \in Nat /\ DOMAIN handled = 1 .. Len(handled)
           /\ handled # << >> => Len(handled) \in DOMAIN handled
<1> handled \in Seq(Range(handled))
  BY DEF TypeInv
<1> QED
  BY SequenceType

(* While there is one writer, the handler answers a page when nothing is   *)
(* due.                                                                    *)
LEMMA OneWriter ==
    ASSUME ConnectionInv, ~TwoWriters, handler.at \in Answering
    PROVE  Pending = {}
<1>1. /\ handled # << >> /\ App(handled[Len(handled)]) # "calculation"
      /\ \A k \in Pending : k \in 1 .. Len(handled) /\ App(handled[k]) = "calculation"
  BY DEF ConnectionInv, AnswersLast, PendingAreCalculations
<1>2. Len(handled) \in Nat /\ DOMAIN handled = 1 .. Len(handled)
      /\ Len(handled) \in DOMAIN handled
  BY <1>1, HandledType DEF ConnectionInv
<1>3. \A k \in Pending : k \in DOMAIN handled /\ k < Len(handled)
  BY <1>1, <1>2
<1> QED
  BY <1>1, <1>2, <1>3 DEF TwoWriters

(* Steps that leave the requests and the responses where they are.         *)
Calm == UNCHANGED <<responder, calculating, done, handled, astray>>

LEMMA CalmKeeps ==
    ASSUME Calm
    PROVE  /\ Pending' = Pending /\ TwoWriters' = TwoWriters
           /\ OnePlace => OnePlace'
           /\ PendingAreCalculations => PendingAreCalculations'
<1>1. Pending' = Pending
  BY DEF Calm, Pending
<1>2. TwoWriters' = TwoWriters
  BY DEF Calm, TwoWriters
<1> QED
  BY <1>1, <1>2 DEF Calm, OnePlace, PendingAreCalculations

LEMMA AstrayKept ==
    ASSUME AstrayOnlyByClose, TypeInv, astray' = astray, handled' = handled, over => over'
    PROVE  AstrayOnlyByClose'
  BY DEF AstrayOnlyByClose, TwoWriters

----
(* A step of the client changes nothing that the threads have.             *)
LEMMA ClientSteps ==
    ASSUME ConnectionInv, Ask \/ Leave \/ UNCHANGED vars
    PROVE  ConnectionInv'
<1>1. /\ Calm /\ UNCHANGED <<script, manners, descriptor, handler, output>>
      /\ over => over'
  BY DEF Ask, Leave, vars, client, Calm
<1>2. TypeInv'
  <2>1. Len(script) \in Nat
    BY ScriptsAssumption DEF ConnectionInv, TypeInv
  <2>2. asked' \in 0 .. Len(script)
    BY <2>1 DEF ConnectionInv, TypeInv, Ask, Leave, vars, client
  <2> QED
    BY <1>1, <2>2 DEF ConnectionInv, TypeInv, Calm
<1>3. Pending' = Pending /\ TwoWriters' = TwoWriters /\ OnePlace' /\ PendingAreCalculations'
  BY <1>1, CalmKeeps DEF ConnectionInv
<1>4. NoConnectionLeaks' /\ AnswersLast'
  BY <1>1, <1>3 DEF ConnectionInv, NoConnectionLeaks, AnswersLast, Calm
<1>5. ~TwoWriters => NothingEmptyIsSent' /\ ClosedByHandler'
  BY <1>1, <1>3 DEF ConnectionInv, NothingEmptyIsSent, ClosedByHandler, Calm
<1>6. AstrayOnlyByClose'
  BY <1>1, AstrayKept DEF ConnectionInv, Calm
<1> QED
  BY <1>2, <1>3, <1>4, <1>5, <1>6 DEF ConnectionInv

----
(* What the handler does before it answers: it goes on reading, or it      *)
(* ends, and closes the connection if nobody else has it or its peer left. *)
GoesOn == handler'.at \in Reading /\ UNCHANGED descriptor

Ends ==
    /\ handler'.at = "gone" /\ descriptor' \in {descriptor, "closed"}
    /\ Pending = {} => descriptor' = "closed"
    /\ descriptor' = descriptor \/ Pending = {} \/ over

Reads ==
    /\ handler.at \in Reading /\ IsHandler(handler')
    /\ GoesOn \/ Ends
    /\ Calm /\ UNCHANGED <<client, output>>

LEMMA QuitEnds ==
    ASSUME TypeInv, Quit
    PROVE  IsHandler(handler') /\ Ends
<1>1. IsHandler(handler) /\ descriptor \in {"open", "closed"}
  BY DEF TypeInv
<1> QED
  BY <1>1 DEF Quit, Ends, IsHandler, HandlerPlaces

LEMMA PlaceChanges ==
    ASSUME TypeInv, NEW place \in HandlerPlaces, GoTo(place)
    PROVE  /\ IsHandler(handler') /\ handler'.at = place
           /\ handler'.request = handler.request /\ descriptor' = descriptor
<1>1. IsHandler(handler)
  BY DEF TypeInv
<1> QED
  BY <1>1 DEF GoTo, IsHandler

LEMMA ReadSteps ==
    ASSUME TypeInv,
           \/ CallRecv \/ Receive \/ PeerDisconnected \/ ReadFails \/ ParseRequestLine
           \/ ParseHeader \/ ReadBody
    PROVE  Reads
<1>1. IsHandler(handler) /\ descriptor \in {"open", "closed"}
  BY DEF TypeInv
<1>2. CASE CallRecv \/ Receive
  BY <1>1, <1>2 DEF CallRecv, WaitsForBytes, Receive, Reads, GoesOn, Calm, Reading
<1>3. CASE PeerDisconnected
  <2>1. handler.at \in Reading
    BY <1>3 DEF PeerDisconnected, WaitsForBytes, Reading
  <2>2. IsHandler(handler') /\ handler'.at = "gone"
    BY <1>1, <1>3 DEF PeerDisconnected, IsHandler, HandlerPlaces
  <2> QED
    BY <1>3, <2>1, <2>2 DEF PeerDisconnected, Reads, Ends, Calm
<1>4. CASE ReadFails
  <2>1. handler.at \in Reading
    BY <1>4 DEF ReadFails, WaitsForBytes, Reading
  <2> QED
    BY <1>4, <2>1, QuitEnds DEF ReadFails, Reads, Calm
<1>5. CASE ParseRequestLine
  <2>1. Quit \/ (IsHandler(handler') /\ GoesOn)
    <3>1. Quit \/ (/\ \E request : handler' = [handler EXCEPT !.at = "header",
                                                    !.length = NoLength, !.request = request]
                   /\ UNCHANGED descriptor)
      BY <1>5 DEF ParseRequestLine
    <3> QED
      BY <1>1, <3>1 DEF IsHandler, GoesOn, Reading, HandlerPlaces
  <2>2. (IsHandler(handler') /\ GoesOn) \/ (IsHandler(handler') /\ Ends)
    BY <2>1, QuitEnds
  <2> QED
    BY <1>5, <2>2 DEF ParseRequestLine, Reads, Calm, Reading
<1>6. CASE ParseHeader
  <2>1. Quit \/ (IsHandler(handler') /\ GoesOn)
    <3>1. \/ EndHeader \/ Quit
          \/ /\ \E length : handler' \in {handler, [handler EXCEPT !.length = length]}
             /\ UNCHANGED descriptor
      BY <1>6 DEF ParseHeader
    <3>2. CASE EndHeader
      <4>1. \/ GoTo("route") \/ Quit
            \/ /\ \E missing : handler' = [handler EXCEPT !.at = "body", !.missing = missing]
               /\ UNCHANGED descriptor
        BY <3>2 DEF EndHeader
      <4> QED
        BY <1>1, <4>1 DEF GoTo, IsHandler, GoesOn, Reading, HandlerPlaces
    <3>3. handler.at = "header"
      BY <1>6 DEF ParseHeader
    <3> QED
      BY <1>1, <3>1, <3>2, <3>3 DEF IsHandler, GoesOn, Reading, HandlerPlaces
  <2>2. (IsHandler(handler') /\ GoesOn) \/ (IsHandler(handler') /\ Ends)
    BY <2>1, QuitEnds
  <2> QED
    BY <1>6, <2>2 DEF ParseHeader, Reads, Calm, Reading
<1>7. CASE ReadBody
  <2>1. \E missing : \E place \in {"route", "body"} :
            handler' = [handler EXCEPT !.missing = missing, !.at = place]
    BY <1>7 DEF ReadBody
  <2> QED
    BY <1>1, <1>7, <2>1 DEF ReadBody, IsHandler, Reads, GoesOn, Calm, Reading, HandlerPlaces
<1> QED
  BY <1>2, <1>3, <1>4, <1>5, <1>6, <1>7

LEMMA ReadsKeeps ==
    ASSUME ConnectionInv, Reads
    PROVE  ConnectionInv'
<1>1. /\ Calm /\ UNCHANGED <<client, output>>
      /\ handler.at \in Reading /\ IsHandler(handler') /\ (GoesOn \/ Ends)
  BY DEF Reads
<1>2. Pending' = Pending /\ TwoWriters' = TwoWriters /\ OnePlace' /\ PendingAreCalculations'
  BY <1>1, CalmKeeps DEF ConnectionInv
<1>3. TypeInv'
  <2>1. IsHandler(handler') /\ descriptor' \in {"open", "closed"}
    BY DEF Reads, GoesOn, Ends, ConnectionInv, TypeInv
  <2> QED
    BY <2>1 DEF Reads, Calm, client, ConnectionInv, TypeInv
<1>4. handler'.at \in Reading \cup {"gone"}
  BY DEF Reads, GoesOn, Ends
<1>5. NoConnectionLeaks'
  <2>1. CASE GoesOn
    BY <2>1 DEF GoesOn, NoConnectionLeaks, Reading
  <2>2. CASE Ends
    BY <1>2, <2>2 DEF Ends, NoConnectionLeaks
  <2> QED
    BY <2>1, <2>2 DEF Reads
<1>6. AnswersLast'
  BY <1>4 DEF AnswersLast, Reading, Answering
<1>7. ~TwoWriters => NothingEmptyIsSent'
  BY <1>4 DEF Reads, Calm, ConnectionInv, NothingEmptyIsSent, Reading
<1>8. ~TwoWriters => ClosedByHandler'
  <2>1. SUFFICES ASSUME ~TwoWriters, descriptor' = "closed" PROVE ClosedByHandler'
    BY DEF ClosedByHandler
  <2>2. descriptor # "closed"
    BY <1>1, <2>1 DEF ConnectionInv, ClosedByHandler, Reading
  <2>3. Ends
    BY <2>1, <2>2 DEF Reads, GoesOn
  <2> QED
    BY <1>2, <2>1, <2>2, <2>3 DEF Ends, ClosedByHandler, Reads, client
<1>9. AstrayOnlyByClose'
  BY AstrayKept DEF ConnectionInv, Reads, Calm, client
<1> QED
  BY <1>2, <1>3, <1>5, <1>6, <1>7, <1>8, <1>9 DEF ConnectionInv

----
(* Route() has a new request: of those before it none becomes another, and *)
(* what was written by two threads remains so.                             *)
LEMMA OneMoreHandled ==
    ASSUME TypeInv, NEW request, handled' = Append(handled, request)
    PROVE  /\ handled' \in Seq(Range(handled')) /\ handled' # << >>
           /\ Len(handled') = Len(handled) + 1 /\ handled'[Len(handled')] = request
           /\ \A k \in 1 .. Len(handled) : handled'[k] = handled[k]
           /\ ~TwoWriters' => ~TwoWriters
<1> DEFINE T == Range(handled) \cup {request}
<1>1. handled \in Seq(T) /\ request \in T
  BY DEF TypeInv
<1> HIDE DEF T
<1>2. /\ Len(handled') = Len(handled) + 1 /\ handled'[Len(handled) + 1] = request
      /\ \A k \in 1 .. Len(handled) : handled'[k] = handled[k]
      /\ DOMAIN handled = 1 .. Len(handled) /\ DOMAIN handled' = 1 .. Len(handled')
      /\ Len(handled) \in Nat
  BY <1>1
<1>3. Range(handled') = T
  <2>1. Range(handled') = Range(handled) \cup {request}
    BY <1>1, AppendRange
  <2> QED
    BY <2>1 DEF T
<1>4. handled' \in Seq(Range(handled')) /\ handled' # << >>
  BY <1>1, <1>3
<1>5. ~TwoWriters' => ~TwoWriters
  <2>1. \A k \in DOMAIN handled : k \in DOMAIN handled' /\ handled'[k] = handled[k]
    BY <1>2
  <2> QED
    BY <2>1 DEF TwoWriters
<1> QED
  BY <1>2, <1>4, <1>5

LEMMA RouteKeeps ==
    ASSUME ConnectionInv, Route
    PROVE  ConnectionInv'
<1> DEFINE n == Len(handled) + 1
           calculates == App(handler.request) = "calculation"
<1>1. TypeInv /\ Len(handled) \in Nat /\ DOMAIN handled = 1 .. Len(handled)
  BY HandledType DEF ConnectionInv
<1>2. /\ handled' \in Seq(Range(handled')) /\ handled' # << >>
      /\ Len(handled') = n /\ handled'[n] = handler.request
      /\ \A k \in 1 .. Len(handled) : handled'[k] = handled[k]
      /\ ~TwoWriters' => ~TwoWriters
  <2>1. handled' = Append(handled, handler.request)
    BY DEF Route
  <2> QED
    BY <1>1, <2>1, OneMoreHandled
<1>3. /\ UNCHANGED <<client, output, responder, done, astray>> /\ handler.at = "route"
      /\ calculating' = IF calculates THEN calculating \cup {n} ELSE calculating
  BY <1>2 DEF Route
<1>4. /\ IsHandler(handler') /\ handler'.at = IF calculates THEN "after" ELSE "head"
      /\ handler'.request = handler.request /\ descriptor' = descriptor
  <2>1. GoTo(IF calculates THEN "after" ELSE "head")
    BY DEF Route
  <2>2. (IF calculates THEN "after" ELSE "head") \in HandlerPlaces
    BY DEF HandlerPlaces, Answering
  <2> QED
    BY <1>1, <2>1, <2>2, PlaceChanges
<1> HIDE DEF n, calculates
<1>5. n \in Nat /\ n = Len(handled) + 1
  BY <1>1 DEF n
<1>6. TypeInv'
  <2>1. astray' \subseteq 1 .. Len(handled')
    BY <1>1, <1>2, <1>3, <1>5 DEF TypeInv
  <2> QED
    BY <1>1, <1>2, <1>3, <1>4, <2>1 DEF TypeInv, client
<1>7. n \notin Pending
  BY <1>1, <1>5 DEF ConnectionInv, PendingAreCalculations
<1>8. Pending' = IF calculates THEN Pending \cup {n} ELSE Pending
  BY <1>3 DEF Pending
<1>9. OnePlace'
  <2>1. n \notin Range(done) /\ (responder.at # "idle" => responder.response # n)
    BY <1>7 DEF Pending
  <2> QED
    BY <1>3, <2>1 DEF ConnectionInv, OnePlace
<1>10. PendingAreCalculations'
  <2>1. ASSUME NEW k \in Pending'
        PROVE  k \in 1 .. Len(handled') /\ App(handled'[k]) = "calculation"
    <3>1. CASE k \in Pending
      <4>1. k \in 1 .. Len(handled) /\ App(handled[k]) = "calculation"
        BY <3>1 DEF ConnectionInv, PendingAreCalculations
      <4> QED
        BY <1>1, <1>2, <1>5, <4>1
    <3>2. CASE k = n /\ calculates
      BY <1>2, <1>5, <3>2 DEF calculates
    <3> QED
      BY <1>8, <2>1, <3>1, <3>2
  <2> QED
    BY <2>1 DEF PendingAreCalculations
<1>11. NoConnectionLeaks'
  BY <1>4 DEF NoConnectionLeaks
<1>12. AnswersLast'
  BY <1>2, <1>4 DEF AnswersLast, Answering, calculates
<1>13. ~TwoWriters' => NothingEmptyIsSent' /\ ClosedByHandler'
  <2>1. SUFFICES ASSUME ~TwoWriters' PROVE NothingEmptyIsSent' /\ ClosedByHandler'
    OBVIOUS
  <2>2. NothingEmptyIsSent /\ ClosedByHandler
    BY <1>2, <2>1 DEF ConnectionInv
  <2>3. NothingEmptyIsSent'
    BY <1>3, <1>4, <2>2 DEF NothingEmptyIsSent
  <2>4. ClosedByHandler'
    BY <1>3, <1>4, <2>2 DEF ClosedByHandler
  <2> QED
    BY <2>3, <2>4
<1>14. AstrayOnlyByClose'
  <2>1. SUFFICES ASSUME ~TwoWriters', NEW k \in astray
                 PROVE  /\ App(handled'[k]) = "calculation"
                        /\ over \/ \E j \in k .. Len(handled') : IsOld(handled'[j])
    BY <1>3 DEF AstrayOnlyByClose, client
  <2>2. k \in 1 .. Len(handled)
    BY <1>1 DEF TypeInv
  <2>3. /\ App(handled[k]) = "calculation"
        /\ over \/ \E j \in k .. Len(handled) : IsOld(handled[j])
    BY <1>2, <2>1 DEF ConnectionInv, AstrayOnlyByClose
  <2>4. \A j \in k .. Len(handled) :
            j \in 1 .. Len(handled) /\ j \in k .. Len(handled') /\ handled'[j] = handled[j]
    BY <1>1, <1>2, <1>5, <2>2
  <2> QED
    BY <1>2, <2>2, <2>3, <2>4
<1> QED
  BY <1>6, <1>9, <1>10, <1>11, <1>12, <1>13, <1>14 DEF ConnectionInv

LEMMA AfterRequestKeeps ==
    ASSUME ConnectionInv, AfterRequest
    PROVE  ConnectionInv'
<1> DEFINE place == IF IsOld(handler.request) THEN "close" ELSE "request line"
<1>1. TypeInv /\ handler.at = "after" /\ Calm /\ UNCHANGED <<client, output>>
  BY DEF ConnectionInv, AfterRequest, Calm
<1>2. /\ IsHandler(handler') /\ handler'.at = place
      /\ handler'.request = handler.request /\ descriptor' = descriptor
  <2>1. GoTo(place) /\ place \in HandlerPlaces
    BY DEF AfterRequest, HandlerPlaces, Reading
  <2> QED
    BY <1>1, <2>1, PlaceChanges
<1>3. Pending' = Pending /\ TwoWriters' = TwoWriters /\ OnePlace' /\ PendingAreCalculations'
  BY <1>1, CalmKeeps DEF ConnectionInv
<1>4. TypeInv'
  BY <1>1, <1>2 DEF TypeInv, Calm, client
<1>5. NoConnectionLeaks'
  BY <1>2 DEF NoConnectionLeaks
<1>6. AnswersLast'
  BY <1>1, <1>2 DEF ConnectionInv, AnswersLast, Calm, Answering
<1>7. ~TwoWriters => NothingEmptyIsSent' /\ ClosedByHandler'
  BY <1>1, <1>2 DEF ConnectionInv, NothingEmptyIsSent, ClosedByHandler, Calm
<1>8. AstrayOnlyByClose'
  BY <1>1, AstrayKept DEF ConnectionInv, Calm, client
<1> QED
  BY <1>3, <1>4, <1>5, <1>6, <1>7, <1>8 DEF ConnectionInv

(* The one step that closes the connection while a response may be due and *)
(* the client is there: that was asked for.                                *)
LEMMA CloseKeeps ==
    ASSUME ConnectionInv, Close
    PROVE  ConnectionInv'
<1>1. /\ TypeInv /\ handler.at = "close" /\ Calm /\ UNCHANGED <<client, output>>
      /\ descriptor' = "closed"
  BY DEF ConnectionInv, Close, Calm
<1>2. IsHandler(handler') /\ handler'.at = "gone"
  BY <1>1 DEF TypeInv, Close, IsHandler, HandlerPlaces
<1>3. Pending' = Pending /\ TwoWriters' = TwoWriters /\ OnePlace' /\ PendingAreCalculations'
  BY <1>1, CalmKeeps DEF ConnectionInv
<1>4. TypeInv'
  BY <1>1, <1>2 DEF TypeInv, Calm, client
<1>5. NoConnectionLeaks' /\ AnswersLast'
  BY <1>1, <1>2 DEF NoConnectionLeaks, AnswersLast, Answering
<1>6. IsOld(handled[Len(handled)])
  BY <1>1 DEF ConnectionInv, AnswersLast
<1>7. ~TwoWriters => NothingEmptyIsSent' /\ ClosedByHandler'
  BY <1>1, <1>2, <1>6 DEF ConnectionInv, NothingEmptyIsSent, ClosedByHandler, Calm
<1>8. AstrayOnlyByClose'
  BY <1>1, AstrayKept DEF ConnectionInv, Calm, client
<1> QED
  BY <1>3, <1>4, <1>5, <1>7, <1>8 DEF ConnectionInv

----
(* The handler sends a page.  With one writer no response is due then, so  *)
(* that nothing is in the buffer but what it put there.                    *)
LEMMA HandlerSendsKeeps ==
    ASSUME ConnectionInv, HandlerSends
    PROVE  ConnectionInv'
<1>1. /\ TypeInv /\ handler.at \in Answering /\ handled # << >>
      /\ handler.request = handled[Len(handled)] /\ App(handled[Len(handled)]) # "calculation"
      /\ UNCHANGED <<client, responder, calculating, done, handled>>
  BY DEF ConnectionInv, HandlerSends, Answering, AnswersLast
<1>2. Len(handled) \in Nat /\ Len(handled) \in 1 .. Len(handled)
  BY <1>1, HandledType
<1>3. /\ IsHandler(handler') /\ handler'.at \in {"body of page", "write", "clear", "after"}
      /\ handler'.request = handler.request
  <2>1. \E place \in {"body of page", "write", "clear", "after"} :
            handler' = [handler EXCEPT !.at = place]
    BY DEF HandlerSends, GoTo
  <2> QED
    BY <1>1, <2>1 DEF TypeInv, IsHandler, HandlerPlaces, Answering
<1>4. /\ Pending' = Pending /\ TwoWriters' = TwoWriters
      /\ OnePlace' /\ PendingAreCalculations'
  BY <1>1 DEF Pending, TwoWriters, ConnectionInv, OnePlace, PendingAreCalculations
<1>5. /\ output' \in Seq(Nat \X {"head", "body"}) /\ descriptor' \in {"open", "closed"}
      /\ astray' \subseteq 1 .. Len(handled)
  <2>1. <<Len(handled), "head">> \in Nat \X {"head", "body"}
        /\ <<Len(handled), "body">> \in Nat \X {"head", "body"}
    BY <1>2
  <2>2. output' \in Seq(Nat \X {"head", "body"})
    <3>1. \/ \E part \in {"head", "body"} : output' = Append(output, <<Len(handled), part>>)
          \/ output' \in {output, << >>}
      BY DEF HandlerSends, PutHead, PutBody, Clear
    <3>2. output \in Seq(Nat \X {"head", "body"})
      BY <1>1 DEF TypeInv
    <3>3. << >> \in Seq(Nat \X {"head", "body"})
      BY EmptySeq
    <3>4. ASSUME NEW part \in Nat \X {"head", "body"}
          PROVE  Append(output, part) \in Seq(Nat \X {"head", "body"})
      BY <3>2, AppendProperties
    <3> QED
      BY <2>1, <3>1, <3>2, <3>3, <3>4
  <2>3. descriptor' \in {"open", "closed"} /\ astray' \subseteq 1 .. Len(handled)
    BY <1>1, <1>2 DEF HandlerSends, Write, GoTo, TypeInv
  <2> QED
    BY <2>2, <2>3
<1>6. TypeInv'
  BY <1>1, <1>3, <1>5 DEF TypeInv, client
<1>7. NoConnectionLeaks'
  BY <1>3 DEF NoConnectionLeaks
<1>8. AnswersLast'
  BY <1>1, <1>3 DEF AnswersLast, Answering
<1>9. ASSUME ~TwoWriters
      PROVE  /\ descriptor = "open" /\ descriptor' = "open" /\ astray' = astray
             /\ NothingEmptyIsSent'
  <2>1. /\ Pending = {} /\ responder.at = "idle" /\ descriptor = "open"
        /\ handler.at \in {"body of page", "write"} => output # << >>
    <3>1. Pending = {}
      BY <1>1, <1>9, OneWriter
    <3>2. descriptor = "open"
      BY <1>1, <1>9 DEF ConnectionInv, ClosedByHandler, TypeInv, Answering
    <3> QED
      BY <1>9, <3>1, <3>2 DEF Pending, ConnectionInv, NothingEmptyIsSent
  <2>2. descriptor' = "open" /\ astray' = astray
    BY <2>1 DEF HandlerSends, Write, GoTo
  <2>3. handler'.at \in {"body of page", "write"} => output' # << >>
    <3>1. handler'.at \in {"body of page", "write"} =>
              \E part \in {"head", "body"} : output' = Append(output, <<Len(handled), part>>)
      BY <1>1 DEF HandlerSends, PutHead, PutBody, GoTo, TypeInv, IsHandler
    <3>2. \A part \in {"head", "body"} : Append(output, <<Len(handled), part>>) # << >>
      <4>1. \A part \in {"head", "body"} : <<Len(handled), part>> \in Nat \X {"head", "body"}
        BY <1>2
      <4> QED
        BY <1>1, <4>1 DEF TypeInv
    <3> QED
      BY <3>1, <3>2
  <2> QED
    BY <1>1, <2>1, <2>2, <2>3 DEF NothingEmptyIsSent
<1>10. ~TwoWriters => NothingEmptyIsSent' /\ ClosedByHandler'
  BY <1>9 DEF ClosedByHandler
<1>11. AstrayOnlyByClose'
  BY <1>1, <1>4, <1>9 DEF ConnectionInv, AstrayOnlyByClose, client
<1> QED
  BY <1>4, <1>6, <1>7, <1>8, <1>10, <1>11 DEF ConnectionInv

----
(* Responses move from place to place, and none is lost or doubled.        *)
LEMMA FinishKeeps ==
    ASSUME ConnectionInv, NEW response \in calculating, Finish(response)
    PROVE  ConnectionInv'
<1>1. /\ TypeInv /\ UNCHANGED <<client, descriptor, output, handler, responder, handled, astray>>
      /\ calculating' = calculating \ {response} /\ done' = Append(done, response)
  BY DEF ConnectionInv, Finish
<1>2. response \in Nat \ {0} /\ response \notin Range(done)
  <2>1. response \in Pending
    BY DEF Pending
  <2> QED
    BY <1>1, <2>1, HandledType DEF ConnectionInv, PendingAreCalculations, OnePlace
<1>3. done \in Seq(Nat \ {0}) /\ Distinct(0, done)
  BY DEF ConnectionInv, TypeInv, OnePlace
<1>4. Distinct(0, done') /\ Range(done') = Range(done) \cup {response}
  BY <1>1, <1>2, <1>3, DistinctAppend
<1>5. Pending' = Pending /\ TwoWriters' = TwoWriters
  BY <1>1, <1>4 DEF Pending, TwoWriters
<1>6. TypeInv'
  BY <1>1, <1>2, <1>3 DEF TypeInv, client
<1>7. OnePlace'
  BY <1>1, <1>4 DEF ConnectionInv, OnePlace
<1>8. PendingAreCalculations' /\ NoConnectionLeaks' /\ AnswersLast'
  BY <1>1, <1>5 DEF ConnectionInv, PendingAreCalculations, NoConnectionLeaks, AnswersLast
<1>9. ~TwoWriters => NothingEmptyIsSent' /\ ClosedByHandler'
  BY <1>1, <1>5 DEF ConnectionInv, NothingEmptyIsSent, ClosedByHandler, client
<1>10. AstrayOnlyByClose'
  BY <1>1, AstrayKept DEF ConnectionInv, client
<1> QED
  BY <1>5, <1>6, <1>7, <1>8, <1>9, <1>10 DEF ConnectionInv

LEMMA ResponderTakesKeeps ==
    ASSUME ConnectionInv, ResponderTakes
    PROVE  ConnectionInv'
<1>1. /\ TypeInv /\ responder.at = "idle" /\ done # << >>
      /\ UNCHANGED <<client, descriptor, output, handler, calculating, handled, astray>>
      /\ responder' = [at |-> "head", response |-> Head(done)] /\ done' = Tail(done)
  BY DEF ConnectionInv, ResponderTakes
<1>2. done \in Seq(Nat \ {0}) /\ Distinct(0, done)
  BY DEF ConnectionInv, TypeInv, OnePlace
<1>3. Head(done) \in Nat \ {0} /\ Tail(done) \in Seq(Nat \ {0})
  BY <1>1, <1>2
<1>4. /\ Distinct(0, done') /\ Range(done') = Range(done) \ {Head(done)}
      /\ Head(done) \in Range(done)
  BY <1>1, <1>2, <1>3, DistinctTail
<1>5. Pending' = Pending /\ TwoWriters' = TwoWriters
  BY <1>1, <1>4 DEF Pending, TwoWriters
<1>6. TypeInv'
  BY <1>1, <1>3 DEF TypeInv, client, ResponderPlaces
<1>7. OnePlace'
  BY <1>1, <1>4 DEF ConnectionInv, OnePlace
<1>8. PendingAreCalculations' /\ NoConnectionLeaks' /\ AnswersLast'
  BY <1>1, <1>5 DEF ConnectionInv, PendingAreCalculations, NoConnectionLeaks, AnswersLast
<1>9. ~TwoWriters => NothingEmptyIsSent' /\ ClosedByHandler'
  BY <1>1, <1>5 DEF ConnectionInv, NothingEmptyIsSent, ClosedByHandler, client
<1>10. AstrayOnlyByClose'
  BY <1>1, AstrayKept DEF ConnectionInv, client
<1> QED
  BY <1>5, <1>6, <1>7, <1>8, <1>9, <1>10 DEF ConnectionInv

----
(* The responder sends an answer.  That was the last of a calculation, so  *)
(* with one writer the handler sends no page.                              *)
LEMMA ResponderSendsKeeps ==
    ASSUME ConnectionInv, ResponderSends
    PROVE  ConnectionInv'
<1> DEFINE mine == responder.response
           Parts == Nat \X {"head", "body"}
<1>1. /\ TypeInv /\ responder.at \in {"head", "body", "write", "clear"}
      /\ UNCHANGED <<client, handler, calculating, done, handled>>
  BY DEF ConnectionInv, ResponderSends, ResponderAt
<1>2. /\ responder' \in [at : ResponderPlaces, response : Nat] /\ responder'.response = mine
      /\ responder'.at \in {"body", "write", "clear", "delete"}
  <2>1. \E place \in {"body", "write", "clear", "delete"} :
            responder' = [responder EXCEPT !.at = place]
    BY DEF ResponderSends, ResponderAt
  <2>2. responder \in [at : ResponderPlaces, response : Nat]
    BY <1>1 DEF TypeInv
  <2> QED
    BY <2>1, <2>2 DEF ResponderPlaces
<1>3. mine \in Pending /\ mine \in 1 .. Len(handled) /\ App(handled[mine]) = "calculation"
  <2>1. mine \in Pending
    BY <1>1 DEF Pending
  <2> QED
    BY <2>1 DEF ConnectionInv, PendingAreCalculations
<1>4. Pending' = Pending /\ TwoWriters' = TwoWriters
  BY <1>1, <1>2 DEF Pending, TwoWriters
<1>5. OnePlace' /\ PendingAreCalculations'
  BY <1>1, <1>2, <1>4 DEF ConnectionInv, OnePlace, PendingAreCalculations
<1>6. \/ \E part \in {"head", "body"} : output' = Append(output, <<mine, part>>)
      \/ output' \in {output, << >>}
  BY DEF ResponderSends, PutHead, PutBody, Clear
<1>7. output' \in Seq(Parts) /\ (output' \notin {output, << >>} => output' # << >>)
  <2>1. output \in Seq(Parts)
    BY <1>1 DEF TypeInv
  <2>2. << >> \in Seq(Parts)
    BY EmptySeq
  <2>3. \A part \in {"head", "body"} : <<mine, part>> \in Parts
    BY <1>3
  <2> HIDE DEF Parts
  <2>4. ASSUME NEW part \in Parts PROVE Append(output, part) \in Seq(Parts)
    BY <2>1, AppendProperties
  <2> QED
    BY <1>6, <2>1, <2>2, <2>3, <2>4
<1>8. descriptor' \in {"open", "closed"} /\ astray' \subseteq 1 .. Len(handled)
  BY <1>1, <1>3 DEF ResponderSends, Write, TypeInv
<1>9. TypeInv'
  BY <1>1, <1>2, <1>7, <1>8 DEF TypeInv, client
<1>10. NoConnectionLeaks'
  BY <1>3, <1>4 DEF NoConnectionLeaks
<1>11. AnswersLast'
  BY <1>1 DEF ConnectionInv, AnswersLast
<1>12. ASSUME ~TwoWriters
       PROVE  /\ descriptor' = descriptor /\ NothingEmptyIsSent'
              /\ astray' = astray
                 \/ (astray' = astray \cup {mine} /\ descriptor = "closed")
  <2>1. handler.at \notin Answering
    BY <1>3, <1>12, OneWriter
  <2>2. responder.at \in {"body", "write"} => output # << >>
    BY <1>12 DEF ConnectionInv, NothingEmptyIsSent
  <2>3. descriptor' = descriptor
        /\ (astray' = astray \/ (astray' = astray \cup {mine} /\ descriptor = "closed"))
    <3>1. CASE responder.at = "write"
      <4>1. Write(mine)
        BY <3>1 DEF ResponderSends, ResponderAt
      <4> QED
        BY <2>2, <3>1, <4>1 DEF Write
    <3>2. CASE responder.at # "write"
      BY <3>2 DEF ResponderSends, ResponderAt
    <3> QED
      BY <3>1, <3>2
  <2>4. responder'.at \in {"body", "write"} => output' # << >>
    <3>1. responder'.at \in {"body", "write"} =>
              \E part \in {"head", "body"} : output' = Append(output, <<mine, part>>)
      BY <1>1 DEF ResponderSends, ResponderAt, PutHead, PutBody, TypeInv
    <3>2. ASSUME NEW part \in {"head", "body"} PROVE Append(output, <<mine, part>>) # << >>
      <4>1. <<mine, part>> \in Parts /\ output \in Seq(Parts)
        BY <1>1, <1>3 DEF TypeInv
      <4> QED
        BY <4>1, AppendProperties
    <3> QED
      BY <3>1, <3>2
  <2> QED
    BY <1>1, <2>1, <2>3, <2>4 DEF NothingEmptyIsSent, Answering
<1>13. ~TwoWriters => NothingEmptyIsSent' /\ ClosedByHandler'
  BY <1>1, <1>4, <1>12 DEF ConnectionInv, ClosedByHandler, client
<1>14. AstrayOnlyByClose'
  <2>1. SUFFICES ASSUME ~TwoWriters, NEW k \in astray'
                 PROVE  /\ App(handled[k]) = "calculation"
                        /\ over \/ \E j \in k .. Len(handled) : IsOld(handled[j])
    BY <1>1, <1>4 DEF AstrayOnlyByClose, client
  <2>2. CASE k \in astray
    BY <2>1, <2>2 DEF ConnectionInv, AstrayOnlyByClose
  <2>3. CASE k = mine /\ descriptor = "closed"
    <3>1. over \/ IsOld(handled[Len(handled)])
      BY <1>3, <2>1, <2>3 DEF ConnectionInv, ClosedByHandler
    <3>2. Len(handled) \in k .. Len(handled)
      BY <1>1, <1>3, <2>3, HandledType
    <3> QED
      BY <1>3, <2>3, <3>1, <3>2
  <2> QED
    BY <1>12, <2>1, <2>2, <2>3
<1> QED
  BY <1>4, <1>5, <1>9, <1>10, <1>11, <1>13, <1>14 DEF ConnectionInv

(* The last copy of the socket closes it: it is that of the response, when *)
(* the handler has gone and nothing else is due.                           *)
LEMMA ResponderDeletesKeeps ==
    ASSUME ConnectionInv, ResponderDeletes
    PROVE  ConnectionInv'
<1>1. /\ TypeInv /\ responder.at = "delete" /\ responder' = [at |-> "idle", response |-> 0]
      /\ UNCHANGED <<client, output, handler, calculating, done, handled, astray>>
      /\ descriptor' = IF handler.at = "gone" /\ calculating = {} /\ done = << >> THEN "closed"
                       ELSE descriptor
  BY DEF ConnectionInv, ResponderDeletes
<1>2. /\ Pending' = calculating \cup Range(done) /\ Pending' \subseteq Pending
      /\ TwoWriters' = TwoWriters
  BY <1>1 DEF Pending, TwoWriters
<1>3. TypeInv'
  BY <1>1 DEF TypeInv, client, ResponderPlaces
<1>4. OnePlace' /\ PendingAreCalculations'
  BY <1>1, <1>2 DEF ConnectionInv, OnePlace, PendingAreCalculations
<1>5. Pending' = {} <=> calculating = {} /\ done = << >>
  <2>1. done # << >> => Range(done) # {}
    <3>1. done \in Seq(Nat \ {0})
      BY <1>1 DEF TypeInv
    <3>2. done # << >> => Head(done) \in Range(done)
      BY <3>1, TailRange
    <3> QED
      BY <3>2
  <2>2. Range(<< >>) = {}
    BY DistinctEmpty
  <2> QED
    BY <1>2, <2>1, <2>2
<1>6. NoConnectionLeaks'
  BY <1>1, <1>5 DEF NoConnectionLeaks
<1>7. AnswersLast'
  BY <1>1 DEF ConnectionInv, AnswersLast
<1>8. ~TwoWriters => NothingEmptyIsSent'
  BY <1>1 DEF ConnectionInv, NothingEmptyIsSent
<1>9. ~TwoWriters => ClosedByHandler'
  BY <1>1, <1>2, <1>5 DEF ConnectionInv, ClosedByHandler, client
<1>10. AstrayOnlyByClose'
  BY <1>1, AstrayKept DEF ConnectionInv, client
<1> QED
  BY <1>2, <1>3, <1>4, <1>6, <1>7, <1>8, <1>9, <1>10 DEF ConnectionInv

----
LEMMA ConnectionInitial == Init => ConnectionInv
<1> SUFFICES ASSUME Init PROVE ConnectionInv
  OBVIOUS
<1>1. Range(<< >>) = {} /\ Distinct(0, << >>) /\ DOMAIN << >> = {}
  BY DistinctEmpty
<1>2. /\ handled = << >> /\ done = << >> /\ output = << >> /\ calculating = {} /\ astray = {}
      /\ responder = [at |-> "idle", response |-> 0] /\ descriptor = "open"
      /\ handler = [at |-> "request line", request |-> << >>, length |-> NoLength,
                    missing |-> 0]
  BY DEF Init
<1>3. Pending = {}
  BY <1>1, <1>2 DEF Pending
<1>4. TypeInv
  <2>1. asked \in 0 .. Len(script)
    <3>1. script \in Scripts /\ asked = 0
      BY DEF Init
    <3>2. Len(script) \in Nat
      BY <3>1, ScriptsAssumption
    <3> QED
      BY <3>1, <3>2
  <2>2. << >> \in Seq({}) /\ << >> \in Seq(Nat \ {0}) /\ << >> \in Seq(Nat \X {"head", "body"})
    BY EmptySeq
  <2>3. IsHandler(handler) /\ responder \in [at : ResponderPlaces, response : Nat]
    BY <1>2 DEF IsHandler, HandlerPlaces, Reading, ResponderPlaces
  <2> QED
    BY <1>1, <1>2, <2>1, <2>2, <2>3 DEF TypeInv, Init
<1>5. OnePlace /\ PendingAreCalculations /\ NoConnectionLeaks
  BY <1>1, <1>2, <1>3 DEF OnePlace, PendingAreCalculations, NoConnectionLeaks
<1>6. AnswersLast /\ NothingEmptyIsSent /\ ClosedByHandler
  BY <1>2 DEF AnswersLast, NothingEmptyIsSent, ClosedByHandler, Answering
<1>7. AstrayOnlyByClose
  BY <1>2 DEF AstrayOnlyByClose
<1> QED
  BY <1>4, <1>5, <1>6, <1>7 DEF ConnectionInv

LEMMA ConnectionStep == ConnectionInv /\ [Next]_vars => ConnectionInv'
<1> SUFFICES ASSUME ConnectionInv, [Next]_vars PROVE ConnectionInv'
  OBVIOUS
<1>1. CASE Ask \/ Leave \/ UNCHANGED vars
  BY <1>1, ClientSteps
<1>2. CASE HandlerSteps
  <2>1. CASE \/ CallRecv \/ Receive \/ PeerDisconnected \/ ReadFails \/ ParseRequestLine
             \/ ParseHeader \/ ReadBody
    <3>1. TypeInv
      BY DEF ConnectionInv
    <3>2. Reads
      BY <2>1, <3>1, ReadSteps
    <3> QED
      BY <3>2, ReadsKeeps
  <2>2. CASE Route \/ HandlerSends \/ AfterRequest \/ Close
    BY <2>2, RouteKeeps, HandlerSendsKeeps, AfterRequestKeeps, CloseKeeps
  <2> QED
    BY <1>2, <2>1, <2>2 DEF HandlerSteps
<1>3. CASE ResponderSteps
  BY <1>3, ResponderTakesKeeps, ResponderSendsKeeps, ResponderDeletesKeeps DEF ResponderSteps
<1>4. CASE \E response \in calculating : Finish(response)
  BY <1>4, FinishKeeps
<1> QED
  BY <1>1, <1>2, <1>3, <1>4 DEF Next

(* What the threads and the places of responses have to do with each other *)
(* at every moment, whatever the client asks and however it arrives.       *)
THEOREM ConnectionInvariant == Spec => []ConnectionInv
<1> QED
  BY ConnectionInitial, ConnectionStep, PTL DEF Spec

----
(* A response is at one place, so that as many are due as the places have. *)
LEMMA PendingIsCounted ==
    ASSUME ConnectionInv
    PROVE  Cardinality(Pending) = Cardinality(calculating) + Len(done)
                                  + (IF responder.at = "idle" THEN 0 ELSE 1)
<1> DEFINE waiting == Range(done)
           mine == IF responder.at = "idle" THEN {} ELSE {responder.response}
           f == [i \in 1 .. Len(done) |-> done[i]]
<1>1. /\ done \in Seq(Nat \ {0}) /\ Distinct(0, done) /\ calculating \cap waiting = {}
      /\ mine \cap (calculating \cup waiting) = {}
      /\ Len(done) \in Nat /\ DOMAIN done = 1 .. Len(done)
  BY SequenceType DEF ConnectionInv, TypeInv, OnePlace
<1>2. IsFiniteSet(calculating) /\ Cardinality(calculating) \in Nat
  <2>1. Len(handled) \in Nat
    BY HandledType DEF ConnectionInv
  <2>2. IsFiniteSet(1 .. Len(handled))
    BY <2>1, FS_Interval
  <2>3. calculating \subseteq 1 .. Len(handled)
    BY DEF ConnectionInv, PendingAreCalculations, Pending
  <2>4. IsFiniteSet(calculating)
    BY <2>2, <2>3, FS_Subset
  <2> QED
    BY <2>4, FS_CardinalityType
<1>3. IsFiniteSet(waiting) /\ Cardinality(waiting) = Len(done)
  <2>1. IsFiniteSet(1 .. Len(done)) /\ Cardinality(1 .. Len(done)) = Len(done)
    BY <1>1, FS_Interval
  <2>2. /\ f \in [1 .. Len(done) -> waiting]
        /\ \A i, j \in 1 .. Len(done) : f[i] = f[j] => i = j
        /\ \A e \in waiting : \E i \in 1 .. Len(done) : f[i] = e
    <3>1. \A i \in DOMAIN done : done[i] # 0
      BY <1>1
    <3> QED
      BY <1>1, <3>1 DEF Range, Distinct
  <2> HIDE DEF f, waiting
  <2>3. f \in Bijection(1 .. Len(done), waiting)
    BY <2>2 DEF Bijection, Injection, IsInjective, Surjection
  <2>4. ExistsBijection(1 .. Len(done), waiting)
    BY <2>3 DEF ExistsBijection
  <2> QED
    BY <2>1, <2>4, FS_Bijection
<1>4. IsFiniteSet(mine) /\ Cardinality(mine) = IF responder.at = "idle" THEN 0 ELSE 1
  BY FS_EmptySet, FS_Singleton
<1> HIDE DEF waiting, mine
<1>5. /\ IsFiniteSet(calculating \cup waiting)
      /\ Cardinality(calculating \cup waiting) = Cardinality(calculating) + Len(done)
  <2>1. IsFiniteSet(calculating \cup waiting)
        /\ Cardinality(calculating \cup waiting)
             = Cardinality(calculating) + Cardinality(waiting)
               - Cardinality(calculating \cap waiting)
    BY <1>2, <1>3, FS_Union
  <2>2. Cardinality(calculating \cap waiting) = 0
    BY <1>1, FS_EmptySet
  <2> QED
    BY <1>1, <1>2, <1>3, <2>1, <2>2
<1>6. Cardinality((calculating \cup waiting) \cup mine)
        = Cardinality(calculating) + Len(done) + Cardinality(mine)
  <2>1. Cardinality((calculating \cup waiting) \cup mine)
          = Cardinality(calculating \cup waiting) + Cardinality(mine)
            - Cardinality((calculating \cup waiting) \cap mine)
    BY <1>4, <1>5, FS_Union
  <2>2. Cardinality((calculating \cup waiting) \cap mine) = 0
    <3>1. (calculating \cup waiting) \cap mine = {}
      BY <1>1
    <3> QED
      BY <3>1, FS_EmptySet
  <2>3. Cardinality(mine) \in Nat
    BY <1>4, FS_CardinalityType
  <2> QED
    BY <1>1, <1>2, <1>5, <2>1, <2>2, <2>3
<1>7. Pending = (calculating \cup waiting) \cup mine
  BY DEF Pending, waiting, mine
<1> QED
  BY <1>4, <1>6, <1>7

(* No connection is leaked, and none is closed that a thread is to use:    *)
(* the descriptor is open no longer than the handler or a response needs   *)
(* it, and each response that is due is at one place.                      *)
THEOREM ConnectionTypeCorrect == Spec => []TypeOK
<1>1. ConnectionInv => TypeOK
  <2> SUFFICES ASSUME ConnectionInv PROVE TypeOK
    OBVIOUS
  <2>1. Pending \subseteq 1 .. Len(handled)
    BY DEF ConnectionInv, PendingAreCalculations
  <2> QED
    BY <2>1, PendingIsCounted DEF TypeOK, ConnectionInv, TypeInv, NoConnectionLeaks
<1> QED
  BY <1>1, ConnectionInvariant, PTL

(* However the client asks, while it asks no page after a calculation, a   *)
(* response goes astray only because the client had ended its side, or     *)
(* because this or a later request was made with HTTP/1.0.                 *)
THEOREM AstrayResponses == Spec => []AstrayOnlyByClose
<1>1. ConnectionInv => AstrayOnlyByClose
  BY DEF ConnectionInv
<1> QED
  BY <1>1, ConnectionInvariant, PTL

----
(* The order of the answers.  What is in the buffer and in the stream is   *)
(* always the rest of one request, line by line; and of what was asked all *)
(* is answered but the last.  So each step of the parser is an equation    *)
(* between what is left and the lines of that request.  To join sequences  *)
(* is an operator here: the provers do not expand what is in them.         *)
Join(s, t) == s \o t

LEMMA JoinType ==
    \A S : \A s, t \in Seq(S) : Join(s, t) \in Seq(S)
BY DEF Join

LEMMA JoinAssociative ==
    \A S : \A s, t, u \in Seq(S) : Join(Join(s, t), u) = Join(s, Join(t, u))
BY ConcatAssociative DEF Join

LEMMA FiveJoined ==
    ASSUME NEW S, NEW a \in Seq(S), NEW b \in Seq(S), NEW c \in Seq(S), NEW d \in Seq(S),
           NEW e \in Seq(S)
    PROVE  Join(Join(Join(Join(a, b), c), d), e) = Join(a, Join(b, Join(c, Join(d, e))))
<1>1. Join(a, b) \in Seq(S) /\ Join(d, e) \in Seq(S)
  BY JoinType
<1>2. Join(c, Join(d, e)) \in Seq(S) /\ Join(Join(a, b), c) \in Seq(S)
  BY <1>1, JoinType
<1>3. Join(Join(Join(Join(a, b), c), d), e) = Join(Join(a, b), Join(c, Join(d, e)))
  BY <1>1, <1>2, JoinAssociative
<1> QED
  BY <1>2, <1>3, JoinAssociative

(* What a client sends: words, and the ends of lines.                      *)
Tokens ==
    Words \cup {"GET", "HTTP/1.", "User-Agent:", "web", "browser", "Content-Length:", "x",
                "CR", "NL"}

(* A line of the stream: it ends with "CR" and "NL", its only one.         *)
IsLine(line) ==
    /\ line \in Seq(Tokens) /\ Len(line) >= 2
    /\ line[Len(line)] = "NL" /\ line[Len(line) - 1] = "CR"
    /\ \A k \in 1 .. Len(line) - 1 : line[k] # "NL"

LineWords(line) == SubSeq(line, 1, Len(line) - 2)

(* What is in the buffer are whole lines.                                  *)
WholeLines(buffer) == buffer # << >> => buffer[Len(buffer)] = "NL"

LEMMA Joined ==
    ASSUME NEW S, NEW s \in Seq(S), NEW t \in Seq(S)
    PROVE  /\ s \o t \in Seq(S) /\ Len(s \o t) = Len(s) + Len(t)
           /\ \A k \in 1 .. Len(s) : (s \o t)[k] = s[k]
           /\ \A k \in 1 .. Len(t) : (s \o t)[Len(s) + k] = t[k]
<1>1. /\ s \o t \in Seq(S) /\ Len(s \o t) = Len(s) + Len(t)
      /\ \A i \in 1 .. Len(s) + Len(t) :
            (s \o t)[i] = IF i <= Len(s) THEN s[i] ELSE t[i - Len(s)]
  BY ConcatProperties
<1>2. Len(s) \in Nat /\ Len(t) \in Nat
  BY SequenceType
<1> QED
  BY <1>1, <1>2

(* The parser reads the words of the first line, and leaves what follows.  *)
LEMMA LineRead ==
    \A line : IsLine(line) =>
        \A more, buffer, stream \in Seq(Tokens) :
            buffer # << >> /\ WholeLines(buffer) /\ Join(buffer, stream) = Join(line, more)
              => /\ WithoutCR(FirstLine(buffer)) = LineWords(line)
                 /\ AfterLine(buffer) \in Seq(Tokens) /\ WholeLines(AfterLine(buffer))
                 /\ Join(AfterLine(buffer), stream) = more
<1> SUFFICES ASSUME NEW line, IsLine(line), NEW more \in Seq(Tokens),
                    NEW buffer \in Seq(Tokens), NEW stream \in Seq(Tokens),
                    buffer # << >>, WholeLines(buffer), Join(buffer, stream) = Join(line, more)
             PROVE  /\ WithoutCR(FirstLine(buffer)) = LineWords(line)
                    /\ AfterLine(buffer) \in Seq(Tokens) /\ WholeLines(AfterLine(buffer))
                    /\ Join(AfterLine(buffer), stream) = more
  OBVIOUS
<1> DEFINE l == Len(line)
           b == Len(buffer)
<1>1. /\ l \in Nat /\ l >= 2 /\ b \in Nat /\ b > 0 /\ line \in Seq(Tokens)
      /\ Len(more) \in Nat /\ Len(stream) \in Nat
      /\ buffer[b] = "NL" /\ line[l] = "NL" /\ line[l - 1] = "CR"
      /\ \A k \in 1 .. l - 1 : line[k] # "NL"
  BY SequenceType DEF IsLine, WholeLines
<1>2. /\ Len(buffer \o stream) = b + Len(stream) /\ Len(line \o more) = l + Len(more)
      /\ \A k \in 1 .. b : (buffer \o stream)[k] = buffer[k]
      /\ \A k \in 1 .. Len(stream) : (buffer \o stream)[b + k] = stream[k]
      /\ \A k \in 1 .. l : (line \o more)[k] = line[k]
      /\ \A k \in 1 .. Len(more) : (line \o more)[l + k] = more[k]
  BY <1>1, Joined DEF l, b
<1> HIDE DEF l, b
<1> buffer \o stream = line \o more
  BY DEF Join
<1>3. b >= l
  <2>1. b < l => b \in 1 .. l - 1 /\ buffer[b] = line[b]
    BY <1>1, <1>2
  <2> QED
    BY <1>1, <2>1
<1>4. \A k \in 1 .. l : buffer[k] = line[k]
  BY <1>1, <1>2, <1>3
<1>5. LineEnd(buffer) = l
  <2>1. l \in 1 .. b /\ l \in 1 .. l /\ b \in 1 .. b
    BY <1>1, <1>3
  <2>2. buffer[l] = "NL" /\ \A j \in 1 .. l - 1 : buffer[j] # "NL"
    <3>1. \A j \in 1 .. l - 1 : j \in 1 .. l
      BY <1>1
    <3> QED
      BY <1>1, <1>4, <2>1, <3>1
  <2>3. ASSUME NEW k \in 1 .. b, buffer[k] = "NL" \/ k = b,
               \A j \in 1 .. k - 1 : buffer[j] # "NL"
        PROVE  k = l
    <3>1. ~(k < l)
      <4>1. k < l => k \in 1 .. l - 1 /\ k # b
        BY <1>1, <1>3
      <4> QED
        BY <2>2, <2>3, <4>1
    <3>2. ~(l < k)
      <4>1. l < k => l \in 1 .. k - 1
        BY <1>1
      <4> QED
        BY <2>2, <2>3, <4>1
    <3> QED
      BY <1>1, <3>1, <3>2
  <2> QED
    BY <2>1, <2>2, <2>3 DEF LineEnd, b
<1>6. FirstLine(buffer) = SubSeq(buffer, 1, l - 1)
  BY <1>1, <1>3, <1>4, <1>5 DEF FirstLine
<1>7. WithoutCR(FirstLine(buffer)) = SubSeq(line, 1, l - 2)
  <2> DEFINE first == SubSeq(buffer, 1, l - 1)
  <2>1. /\ first \in Seq(Tokens) /\ Len(first) = l - 1
        /\ \A k \in 1 .. l - 1 : first[k] = line[k]
    BY <1>1, <1>3, <1>4 DEF b
  <2> HIDE DEF first
  <2>2. first # << >> /\ Last(first) = "CR"
    BY <1>1, <2>1 DEF Last
  <2>3. Front(first) = SubSeq(first, 1, l - 2)
    BY <1>1, <2>1 DEF Front
  <2>4. SubSeq(first, 1, l - 2) = SubSeq(line, 1, l - 2)
    <3>1. \A s \in Seq(Tokens) : \A n \in Nat : n <= Len(s) =>
              /\ SubSeq(s, 1, n) \in Seq(Tokens) /\ Len(SubSeq(s, 1, n)) = n
              /\ \A k \in 1 .. n : SubSeq(s, 1, n)[k] = s[k]
      OBVIOUS
    <3>2. l - 2 \in Nat /\ l - 2 <= Len(first) /\ l - 2 <= Len(line)
      BY <1>1, <2>1 DEF l
    <3>3. \A k \in 1 .. l - 2 : k \in 1 .. l - 1
      BY <1>1
    <3> QED
      BY <1>1, <2>1, <3>1, <3>2, <3>3, SeqEqual
  <2> QED
    BY <1>6, <2>2, <2>3, <2>4 DEF WithoutCR, first
<1>8. /\ AfterLine(buffer) \in Seq(Tokens) /\ Len(AfterLine(buffer)) = b - l
      /\ \A k \in 1 .. b - l : AfterLine(buffer)[k] = buffer[l + k]
  BY <1>1, <1>3, <1>5 DEF AfterLine, b
<1>9. WholeLines(AfterLine(buffer))
  <2>1. AfterLine(buffer) # << >> => b - l \in 1 .. b - l
    BY <1>1, <1>3, <1>8, SequenceType
  <2>2. b - l \in 1 .. b - l => AfterLine(buffer)[b - l] = buffer[b]
    BY <1>1, <1>8
  <2> QED
    BY <1>1, <1>8, <2>1, <2>2 DEF WholeLines
<1>10. Join(AfterLine(buffer), stream) = more
  <2> DEFINE rest == AfterLine(buffer) \o stream
  <2>1. /\ rest \in Seq(Tokens) /\ Len(rest) = Len(AfterLine(buffer)) + Len(stream)
        /\ \A k \in 1 .. Len(AfterLine(buffer)) : rest[k] = AfterLine(buffer)[k]
        /\ \A k \in 1 .. Len(stream) : rest[Len(AfterLine(buffer)) + k] = stream[k]
    <3>1. AfterLine(buffer) \in Seq(Tokens)
      BY <1>8
    <3> HIDE DEF rest
    <3> QED
      BY <3>1, Joined DEF rest
  <2> HIDE DEF rest
  <2>2. Len(rest) = Len(more)
    BY <1>1, <1>2, <1>8, <2>1
  <2>3. ASSUME NEW i \in 1 .. Len(rest) PROVE rest[i] = more[i]
    <3> i \in Nat /\ i > 0 /\ i <= (b - l) + Len(stream)
        /\ b \in Nat /\ l \in Nat /\ b >= l /\ Len(stream) \in Nat
      BY <1>1, <1>3, <1>8, <2>1
    <3>1. more[i] = (buffer \o stream)[l + i]
      BY <1>2, <2>2
    <3>2. CASE i <= b - l
      <4>1. i \in 1 .. b - l /\ l + i \in 1 .. b
        BY <3>2
      <4> QED
        BY <1>2, <1>8, <2>1, <3>1, <4>1
    <3>3. CASE i > b - l
      <4>1. i - (b - l) \in 1 .. Len(stream)
        BY <3>3
      <4>2. PICK k \in 1 .. Len(stream) : k = i - (b - l)
        BY <4>1
      <4>3. i = Len(AfterLine(buffer)) + k /\ l + i = b + k
        BY <1>8, <4>2
      <4>4. rest[Len(AfterLine(buffer)) + k] = stream[k] /\ (buffer \o stream)[b + k] = stream[k]
        BY <1>2, <2>1
      <4> QED
        BY <3>1, <4>3, <4>4
    <3> QED
      BY <3>2, <3>3
  <2> QED
    BY <1>1, <2>1, <2>2, <2>3, SeqEqual DEF rest, Join
<1> QED
  BY <1>7, <1>8, <1>9, <1>10 DEF l, LineWords

----
(* What the client sends for a request, line by line, and what the parser  *)
(* is to make of it.                                                       *)
RequestLine(request) == <<"GET", request.uri, "HTTP/1.", request.minor, "CR", "NL">>
AgentLine == <<"User-Agent:", "web", "browser", "CR", "NL">>
LengthLine(request) == <<"Content-Length:", request.length, "CR", "NL">>
EmptyLine == <<"CR", "NL">>

Bytes(n) == [k \in 1 .. n |-> "x"]
Body(request) == IF request.length \in DOMAIN Sizes THEN Bytes(Sizes[request.length]) ELSE << >>

LastPart(request) == Join(EmptyLine, Body(request))
LengthPart(request) ==
    IF request.length = NoLength THEN LastPart(request)
    ELSE Join(LengthLine(request), LastPart(request))
AgentPart(request) ==
    IF request.agent THEN Join(AgentLine, LengthPart(request)) ELSE LengthPart(request)

Parsed(request) ==
    [method |-> "GET", uri |-> request.uri, version |-> <<"HTTP/1.", request.minor>>]

(* A response becomes answered when its body is written.                   *)
Unanswered ==
    calculating \cup Range(done)
    \cup (IF responder.at \in {"head", "body", "write"} THEN {responder.response} ELSE {})
    \cup (IF handler.at \in {"head", "body of page", "write"} THEN {Len(handled)} ELSE {})

(* What a client has got that has so many answers.                         *)
Transcript(n) ==
    [k \in 1 .. 2 * n |-> <<(k + 1) \div 2, IF k % 2 = 1 THEN "head" ELSE "body">>]

(* The requests are routed as they were asked, one at a time.              *)
RequestsKept ==
    /\ asked \in {Len(handled), Len(handled) + 1}
    /\ \A k \in DOMAIN handled : handled[k] = Parsed(script[k])

(* All are answered, or all but the last, and then there is no other.      *)
AnswersKept ==
    \/ received = Transcript(Len(handled)) /\ Unanswered = {}
    \/ /\ handled # << >> /\ asked = Len(handled)
       /\ received = Transcript(Len(handled) - 1)
       /\ Unanswered \subseteq {Len(handled)}

(* The buffer has what its one writer has put there, for the last request. *)
OutputKept ==
    /\ handler.at = "body of page" \/ responder.at = "body" =>
          output = <<<<Len(handled), "head">>>>
    /\ handler.at = "write" \/ responder.at = "write" =>
          output = <<<<Len(handled), "head">>, <<Len(handled), "body">>>>
    /\ output # << >> =>
          \/ handler.at \in {"body of page", "write", "clear"}
          \/ responder.at \in {"body", "write", "clear"}

(* How far the parser is with a request that was asked.                    *)
Awaited(request) ==
    /\ handler.at \in {"clear", "after", "close"} /\ input = << >>
    /\ net = Message(request)
AtRequestLine(request) ==
    /\ handler.at = "request line" /\ WholeLines(input)
    /\ Join(input, net) = Message(request)
AtHeader(request) ==
    /\ handler.at = "header" /\ WholeLines(input) /\ handler.request = Parsed(request)
    /\ \/ /\ Join(input, net) \in {AgentPart(request), LengthPart(request)}
          /\ handler.length = NoLength
       \/ /\ Join(input, net) = LastPart(request)
          /\ handler.length = request.length
AtBody(request) ==
    /\ handler.at = "body" /\ handler.request = Parsed(request) /\ handler.missing \in Nat
    /\ input = << >> /\ net = Bytes(handler.missing)
AtRoute(request) ==
    /\ handler.at = "route" /\ handler.request = Parsed(request)
    /\ input = << >> /\ net = << >>

Served(request) ==
    \/ Awaited(request) \/ AtRequestLine(request) \/ AtHeader(request) \/ AtBody(request)
    \/ AtRoute(request)

(* Of the stream there is what the handler has not read of that request.   *)
StreamKept ==
    handler.at # "gone" =>
        \/ /\ asked = Len(handled) /\ input = << >> /\ net = << >>
           /\ handler.at \notin {"header", "body", "route"}
        \/ /\ asked = Len(handled) + 1 /\ input \in Seq(Tokens) /\ net \in Seq(Tokens)
           /\ Served(script[asked])

Mannerly == manners.waits /\ whole /\ ~TwoWriters

OrderKept == RequestsKept /\ AnswersKept /\ OutputKept /\ StreamKept
OrderInv == Mannerly => OrderKept

----
Requests == [uri : Words, minor : Words, agent : BOOLEAN, length : Words]

LEMMA SizesAre == \A length \in DOMAIN Sizes : Sizes[length] \in Nat
BY DEF Sizes

LEMMA BytesAre ==
    ASSUME NEW n \in Nat
    PROVE  Bytes(n) \in Seq(Tokens) /\ Len(Bytes(n)) = n /\ \A k \in 1 .. n : Bytes(n)[k] = "x"
<1> "x" \in Tokens
  BY DEF Tokens
<1>1. DOMAIN Bytes(n) = 1 .. n /\ \A k \in 1 .. n : Bytes(n)[k] = "x"
  BY DEF Bytes
<1>2. Bytes(n) \in [1 .. n -> Tokens]
  BY DEF Bytes
<1>3. Bytes(n) \in Seq(Tokens)
  BY <1>2
<1>4. Len(Bytes(n)) = n
  <2>1. DOMAIN Bytes(n) = 1 .. Len(Bytes(n)) /\ Len(Bytes(n)) \in Nat
    BY <1>3, SequenceType
  <2> QED
    BY <1>1, <2>1
<1> QED
  BY <1>1, <1>3, <1>4

LEMMA LinesAre ==
    /\ \A a, b \in Tokens \ {"NL"} : IsLine(<<a, b, "CR", "NL">>)
    /\ \A a, b, c \in Tokens \ {"NL"} : IsLine(<<a, b, c, "CR", "NL">>)
    /\ \A a, b, c, d \in Tokens \ {"NL"} : IsLine(<<a, b, c, d, "CR", "NL">>)
    /\ IsLine(EmptyLine)
<1> "CR" \in Tokens /\ "NL" \in Tokens
  BY DEF Tokens
<1>1. 6 - 1 = 5 /\ 5 - 1 = 4 /\ 4 - 1 = 3 /\ 2 - 1 = 1
  OBVIOUS
<1>2. \A a, b \in Tokens \ {"NL"} : IsLine(<<a, b, "CR", "NL">>)
  <2> TAKE a, b \in Tokens \ {"NL"}
  <2> DEFINE line == <<a, b, "CR", "NL">>
  <2>1. /\ line \in Seq(Tokens) /\ Len(line) = 4
        /\ line[1] = a /\ line[2] = b /\ line[3] = "CR" /\ line[4] = "NL"
    OBVIOUS
  <2>2. \A k \in 1 .. 3 : k = 1 \/ k = 2 \/ k = 3
    OBVIOUS
  <2> HIDE DEF line
  <2>3. IsLine(line)
    BY <1>1, <2>1, <2>2 DEF IsLine
  <2> QED
    BY <2>3 DEF line
<1>3. \A a, b, c \in Tokens \ {"NL"} : IsLine(<<a, b, c, "CR", "NL">>)
  <2> TAKE a, b, c \in Tokens \ {"NL"}
  <2> DEFINE line == <<a, b, c, "CR", "NL">>
  <2>1. /\ line \in Seq(Tokens) /\ Len(line) = 5 /\ line[1] = a /\ line[2] = b
        /\ line[3] = c /\ line[4] = "CR" /\ line[5] = "NL"
    OBVIOUS
  <2>2. \A k \in 1 .. 4 : k = 1 \/ k = 2 \/ k = 3 \/ k = 4
    OBVIOUS
  <2> HIDE DEF line
  <2>3. IsLine(line)
    BY <1>1, <2>1, <2>2 DEF IsLine
  <2> QED
    BY <2>3 DEF line
<1>4. \A a, b, c, d \in Tokens \ {"NL"} : IsLine(<<a, b, c, d, "CR", "NL">>)
  <2> TAKE a, b, c, d \in Tokens \ {"NL"}
  <2> DEFINE line == <<a, b, c, d, "CR", "NL">>
  <2>1. /\ line \in Seq(Tokens) /\ Len(line) = 6 /\ line[1] = a /\ line[2] = b
        /\ line[3] = c /\ line[4] = d /\ line[5] = "CR" /\ line[6] = "NL"
    OBVIOUS
  <2>2. \A k \in 1 .. 5 : k = 1 \/ k = 2 \/ k = 3 \/ k = 4 \/ k = 5
    OBVIOUS
  <2> HIDE DEF line
  <2>3. IsLine(line)
    BY <1>1, <2>1, <2>2 DEF IsLine
  <2> QED
    BY <2>3 DEF line
<1>5. IsLine(EmptyLine)
  <2> DEFINE line == EmptyLine
  <2>1. /\ line \in Seq(Tokens) /\ Len(line) = 2 /\ line[1] = "CR" /\ line[2] = "NL"
    BY DEF EmptyLine
  <2>2. \A k \in 1 .. 1 : k = 1
    OBVIOUS
  <2> HIDE DEF line
  <2>3. IsLine(line)
    BY <1>1, <2>1, <2>2 DEF IsLine
  <2> QED
    BY <2>3 DEF line
<1> QED
  BY <1>2, <1>3, <1>4, <1>5

LEMMA PartsAre ==
    ASSUME NEW request \in Requests
    PROVE  /\ Body(request) \in Seq(Tokens) /\ LastPart(request) \in Seq(Tokens)
           /\ LengthPart(request) \in Seq(Tokens) /\ AgentPart(request) \in Seq(Tokens)
           /\ IsLine(RequestLine(request)) /\ IsLine(LengthLine(request))
           /\ IsLine(AgentLine) /\ IsLine(EmptyLine)
           /\ \A k \in 1 .. Len(Body(request)) : Body(request)[k] # "NL"
<1>1. /\ request.uri \in Tokens \ {"NL"} /\ request.minor \in Tokens \ {"NL"}
      /\ request.length \in Tokens \ {"NL"}
      /\ \A token \in {"GET", "HTTP/1.", "User-Agent:", "web", "browser", "Content-Length:"} :
            token \in Tokens \ {"NL"}
  BY DEF Requests, Words, Tokens
<1>2. /\ IsLine(RequestLine(request)) /\ IsLine(LengthLine(request))
      /\ IsLine(AgentLine) /\ IsLine(EmptyLine)
  BY <1>1, LinesAre DEF RequestLine, LengthLine, AgentLine
<1>3. /\ Body(request) \in Seq(Tokens)
      /\ \A k \in 1 .. Len(Body(request)) : Body(request)[k] # "NL"
  <2>1. CASE request.length \in DOMAIN Sizes
    BY <2>1, SizesAre, BytesAre DEF Body
  <2>2. CASE request.length \notin DOMAIN Sizes
    BY <2>2, EmptySeq DEF Body
  <2> QED
    BY <2>1, <2>2
<1>4. /\ RequestLine(request) \in Seq(Tokens) /\ LengthLine(request) \in Seq(Tokens)
      /\ AgentLine \in Seq(Tokens) /\ EmptyLine \in Seq(Tokens)
  BY <1>2 DEF IsLine
<1>5. LastPart(request) \in Seq(Tokens)
  BY <1>3, <1>4, JoinType DEF LastPart
<1>6. LengthPart(request) \in Seq(Tokens)
  BY <1>4, <1>5, JoinType DEF LengthPart
<1>7. AgentPart(request) \in Seq(Tokens)
  BY <1>4, <1>6, JoinType DEF AgentPart
<1> QED
  BY <1>2, <1>3, <1>5, <1>6, <1>7

LEMMA MessageParts ==
    ASSUME NEW request \in Requests
    PROVE  Message(request) = Join(RequestLine(request), AgentPart(request))
<1> DEFINE first == RequestLine(request)
           agent == IF request.agent THEN AgentLine ELSE << >>
           length == IF request.length = NoLength THEN << >> ELSE LengthLine(request)
           body == Body(request)
<1>1. /\ first \in Seq(Tokens) /\ agent \in Seq(Tokens) /\ length \in Seq(Tokens)
      /\ EmptyLine \in Seq(Tokens) /\ body \in Seq(Tokens)
      /\ LastPart(request) \in Seq(Tokens) /\ LengthPart(request) \in Seq(Tokens)
  BY PartsAre, EmptySeq DEF IsLine
<1>2. Message(request) = Join(Join(Join(Join(first, agent), length), EmptyLine), body)
  BY DEF Message, RequestLine, AgentLine, LengthLine, EmptyLine, Body, Bytes, Join
<1>3. \A s \in Seq(Tokens) : Join(<< >>, s) = s
  BY ConcatEmptySeq DEF Join
<1>4. LengthPart(request) = Join(length, LastPart(request))
  BY <1>1, <1>3 DEF LengthPart
<1>5. AgentPart(request) = Join(agent, LengthPart(request))
  BY <1>1, <1>3 DEF AgentPart
<1> HIDE DEF first, agent, length, body
<1>6. Join(Join(Join(Join(first, agent), length), EmptyLine), body)
        = Join(first, Join(agent, Join(length, Join(EmptyLine, body))))
  BY <1>1, FiveJoined
<1>7. LastPart(request) = Join(EmptyLine, body)
  BY DEF LastPart, body
<1> QED
  BY <1>2, <1>4, <1>5, <1>6, <1>7 DEF first

----
(* The words of each line.                                                 *)
LEMMA WordsOfLine ==
    \A n \in Nat : \A s \in Seq(Tokens) : Len(s) = n + 2 =>
        /\ LineWords(s) \in Seq(Tokens) /\ Len(LineWords(s)) = n
        /\ \A k \in 1 .. n : LineWords(s)[k] = s[k]
<1> TAKE n \in Nat
<1> TAKE s \in Seq(Tokens)
<1> HAVE Len(s) = n + 2
<1>1. /\ SubSeq(s, 1, n) \in Seq(Tokens) /\ Len(SubSeq(s, 1, n)) = n
      /\ \A k \in 1 .. n : SubSeq(s, 1, n)[k] = s[k]
  OBVIOUS
<1>2. Len(s) - 2 = n
  OBVIOUS
<1> QED
  BY <1>1, <1>2 DEF LineWords

LEMMA WordsOfLines ==
    /\ \A s \in Seq(Tokens) : Len(s) = 6 =>
          /\ LineWords(s) \in Seq(Tokens) /\ Len(LineWords(s)) = 4
          /\ \A k \in 1 .. 4 : LineWords(s)[k] = s[k]
    /\ \A s \in Seq(Tokens) : Len(s) = 5 =>
          /\ LineWords(s) \in Seq(Tokens) /\ Len(LineWords(s)) = 3
          /\ \A k \in 1 .. 3 : LineWords(s)[k] = s[k]
    /\ \A s \in Seq(Tokens) : Len(s) = 4 =>
          /\ LineWords(s) \in Seq(Tokens) /\ Len(LineWords(s)) = 2
          /\ \A k \in 1 .. 2 : LineWords(s)[k] = s[k]
    /\ \A s \in Seq(Tokens) : Len(s) = 2 =>
          /\ LineWords(s) \in Seq(Tokens) /\ Len(LineWords(s)) = 0
          /\ \A k \in 1 .. 0 : LineWords(s)[k] = s[k]
<1>1. 4 + 2 = 6 /\ 3 + 2 = 5 /\ 2 + 2 = 4 /\ 0 + 2 = 2
  OBVIOUS
<1>2. \A s \in Seq(Tokens) : Len(s) = 6 =>
          /\ LineWords(s) \in Seq(Tokens) /\ Len(LineWords(s)) = 4
          /\ \A k \in 1 .. 4 : LineWords(s)[k] = s[k]
  BY <1>1, WordsOfLine, 4 \in Nat
<1>3. \A s \in Seq(Tokens) : Len(s) = 5 =>
          /\ LineWords(s) \in Seq(Tokens) /\ Len(LineWords(s)) = 3
          /\ \A k \in 1 .. 3 : LineWords(s)[k] = s[k]
  BY <1>1, WordsOfLine, 3 \in Nat
<1>4. \A s \in Seq(Tokens) : Len(s) = 4 =>
          /\ LineWords(s) \in Seq(Tokens) /\ Len(LineWords(s)) = 2
          /\ \A k \in 1 .. 2 : LineWords(s)[k] = s[k]
  BY <1>1, WordsOfLine, 2 \in Nat
<1>5. \A s \in Seq(Tokens) : Len(s) = 2 =>
          /\ LineWords(s) \in Seq(Tokens) /\ Len(LineWords(s)) = 0
          /\ \A k \in 1 .. 0 : LineWords(s)[k] = s[k]
  BY <1>1, WordsOfLine, 0 \in Nat
<1> QED
  BY <1>2, <1>3, <1>4, <1>5

LEMMA LastTwo == \A s \in Seq(Tokens) : Len(s) = 4 => SubSeq(s, 3, 4) = <<s[3], s[4]>>
<1> TAKE s \in Seq(Tokens)
<1> HAVE Len(s) = 4
<1> DEFINE end == SubSeq(s, 3, 4)
           two == <<s[3], s[4]>>
<1>1. end \in Seq(Tokens) /\ Len(end) = 2 /\ end[1] = s[3] /\ end[2] = s[4]
  BY SubSeqProperties
<1>2. two \in Seq(Tokens) /\ Len(two) = 2 /\ two[1] = s[3] /\ two[2] = s[4]
  OBVIOUS
<1> HIDE DEF end, two
<1>3. \A k \in 1 .. 2 : k = 1 \/ k = 2
  OBVIOUS
<1>4. end = two
  BY <1>1, <1>2, <1>3, SeqEqual
<1> QED
  BY <1>4 DEF end, two

LEMMA RequestWords ==
    ASSUME NEW request \in Requests
    PROVE  LET words == LineWords(RequestLine(request))
           IN  /\ Len(words) = 4 /\ words[1] = "GET" /\ words[2] = request.uri
               /\ SubSeq(words, 3, Len(words)) = <<"HTTP/1.", request.minor>>
<1> DEFINE words == LineWords(RequestLine(request))
<1>1. RequestLine(request) \in Seq(Tokens)
  BY PartsAre DEF IsLine
<1>2. /\ Len(RequestLine(request)) = 6 /\ RequestLine(request)[1] = "GET"
      /\ RequestLine(request)[2] = request.uri /\ RequestLine(request)[3] = "HTTP/1."
      /\ RequestLine(request)[4] = request.minor
  BY DEF RequestLine
<1>3. /\ words \in Seq(Tokens) /\ Len(words) = 4
      /\ \A k \in 1 .. 4 : words[k] = RequestLine(request)[k]
  BY <1>1, <1>2, WordsOfLines
<1> HIDE DEF words
<1>4. /\ words[1] = "GET" /\ words[2] = request.uri /\ words[3] = "HTTP/1."
      /\ words[4] = request.minor
  BY <1>2, <1>3
<1>5. SubSeq(words, 3, Len(words)) = <<"HTTP/1.", request.minor>>
  BY <1>3, <1>4, LastTwo
<1> QED
  BY <1>3, <1>4, <1>5 DEF words

LEMMA HeaderWords ==
    ASSUME NEW request \in Requests
    PROVE  /\ LineWords(AgentLine) \in Seq(Tokens) /\ Len(LineWords(AgentLine)) = 3
           /\ LineWords(AgentLine)[1] = "User-Agent:"
           /\ LineWords(LengthLine(request)) \in Seq(Tokens)
           /\ Len(LineWords(LengthLine(request))) = 2
           /\ LineWords(LengthLine(request))[1] = "Content-Length:"
           /\ LineWords(LengthLine(request))[2] = request.length
           /\ LineWords(EmptyLine) = << >>
<1>1. /\ AgentLine \in Seq(Tokens) /\ LengthLine(request) \in Seq(Tokens)
      /\ EmptyLine \in Seq(Tokens)
  BY PartsAre DEF IsLine
<1>2. /\ Len(AgentLine) = 5 /\ AgentLine[1] = "User-Agent:"
      /\ Len(LengthLine(request)) = 4 /\ LengthLine(request)[1] = "Content-Length:"
      /\ LengthLine(request)[2] = request.length
      /\ Len(EmptyLine) = 2
  BY DEF AgentLine, LengthLine, EmptyLine
<1>3. /\ LineWords(AgentLine) \in Seq(Tokens) /\ Len(LineWords(AgentLine)) = 3
      /\ LineWords(AgentLine)[1] = "User-Agent:"
  BY <1>1, <1>2, WordsOfLines, 1 \in 1 .. 3
<1>4. /\ LineWords(LengthLine(request)) \in Seq(Tokens)
      /\ Len(LineWords(LengthLine(request))) = 2
      /\ LineWords(LengthLine(request))[1] = "Content-Length:"
      /\ LineWords(LengthLine(request))[2] = request.length
  BY <1>1, <1>2, WordsOfLines, 1 \in 1 .. 2, 2 \in 1 .. 2
<1>5. LineWords(EmptyLine) = << >>
  <2>1. Len(LineWords(EmptyLine)) = 0 /\ LineWords(EmptyLine) \in Seq(Tokens)
    BY <1>1, <1>2, WordsOfLines
  <2> QED
    BY <2>1, EmptySeq
<1> QED
  BY <1>3, <1>4, <1>5

(* Steps of a handler that reads change nothing but the stream.            *)
LEMMA ReadsOrder ==
    ASSUME OrderKept, Reads, received' = received, StreamKept'
    PROVE  OrderKept'
<1>1. /\ UNCHANGED <<responder, calculating, done, handled, astray, script, asked, output>>
      /\ handler.at \in Reading /\ handler'.at \in Reading \cup {"gone"}
  BY DEF Reads, Calm, client, GoesOn, Ends
<1>2. Unanswered' = Unanswered
  BY <1>1 DEF Unanswered, Reading
<1>3. RequestsKept' /\ AnswersKept'
  BY <1>1, <1>2 DEF OrderKept, RequestsKept, AnswersKept
<1>4. OutputKept'
  BY <1>1 DEF OrderKept, OutputKept, Reading
<1> QED
  BY <1>3, <1>4 DEF OrderKept

(* The handler reads only a request that was asked.                        *)
LEMMA AskedRequest ==
    ASSUME TypeInv, asked = Len(handled) + 1
    PROVE  script[asked] \in Requests
<1>1. script \in Seq(Requests) /\ asked \in 0 .. Len(script)
  BY ScriptsAssumption DEF TypeInv, Requests
<1>2. Len(script) \in Nat /\ Len(handled) \in Nat
  BY <1>1, SequenceType, HandledType
<1>3. asked \in 1 .. Len(script)
  BY <1>1, <1>2
<1> QED
  BY <1>1, <1>3, ElementOfSeq

LEMMA QuitOrder ==
    ASSUME TypeInv, Quit
    PROVE  StreamKept'
<1>1. handler'.at = "gone"
  BY QuitEnds DEF Ends
<1> QED
  BY <1>1 DEF StreamKept

LEMMA RequestLineOrder ==
    ASSUME TypeInv, StreamKept, ParseRequestLine
    PROVE  StreamKept'
<1> DEFINE words == WithoutCR(FirstLine(input))
<1>1. handler.at = "request line" /\ input # << >> /\ input' = AfterLine(input)
      /\ IsHandler(handler) /\ UNCHANGED <<client, net, handled>>
  BY DEF ParseRequestLine, TypeInv
<1>2. PICK request \in Requests :
          /\ asked = Len(handled) + 1 /\ request = script[asked]
          /\ input \in Seq(Tokens) /\ net \in Seq(Tokens) /\ AtRequestLine(request)
  <2>1. /\ asked = Len(handled) + 1 /\ input \in Seq(Tokens) /\ net \in Seq(Tokens)
        /\ Served(script[asked])
    BY <1>1 DEF StreamKept
  <2>2. script[asked] \in Requests
    BY <2>1, AskedRequest
  <2>3. AtRequestLine(script[asked])
    BY <1>1, <2>1 DEF Served, Awaited, AtHeader, AtBody, AtRoute
  <2> QED
    BY <2>1, <2>2, <2>3
<1>3. UNCHANGED <<asked, handled, net, script>>
  BY <1>1 DEF client
<1>4. /\ WholeLines(input) /\ IsLine(RequestLine(request))
      /\ AgentPart(request) \in Seq(Tokens)
      /\ Join(input, net) = Join(RequestLine(request), AgentPart(request))
  BY <1>2, PartsAre, MessageParts DEF AtRequestLine
<1>5. /\ words = LineWords(RequestLine(request)) /\ input' \in Seq(Tokens)
      /\ WholeLines(input') /\ Join(input', net) = AgentPart(request)
  <2>1. input # << >>
    BY <1>1
  <2>2. /\ words = LineWords(RequestLine(request))
        /\ AfterLine(input) \in Seq(Tokens) /\ WholeLines(AfterLine(input))
        /\ Join(AfterLine(input), net) = AgentPart(request)
    BY <1>2, <1>4, <2>1, LineRead
  <2> QED
    BY <1>1, <2>2
<1>6. /\ Len(words) = 4 /\ words[1] = "GET" /\ words[2] = request.uri
      /\ SubSeq(words, 3, Len(words)) = <<"HTTP/1.", request.minor>>
  BY <1>2, <1>5, RequestWords
<1>7. ~(Len(words) < 3)
  BY <1>6
<1>8. handler' = [handler EXCEPT !.at = "header", !.length = NoLength,
                      !.request = [method |-> words[1], uri |-> words[2],
                                   version |-> SubSeq(words, 3, Len(words))]]
  BY <1>7 DEF ParseRequestLine
<1> HIDE DEF words
<1>9. handler' = [handler EXCEPT !.at = "header", !.length = NoLength,
                      !.request = Parsed(request)]
  BY <1>6, <1>8 DEF Parsed
<1>10. /\ handler'.at = "header" /\ handler'.length = NoLength
       /\ handler'.request = Parsed(request)
  BY <1>1, <1>9 DEF IsHandler
<1>11. AtHeader(request)'
  <2>1. Join(input', net') \in {AgentPart(request), LengthPart(request)}
    BY <1>3, <1>5
  <2>2. WholeLines(input')
    BY <1>5
  <2> QED
    BY <1>10, <2>1, <2>2, SMT DEF AtHeader
<1> QED
  BY <1>2, <1>3, <1>5, <1>11 DEF StreamKept, Served

LEMMA JoinEmpty == \A s, t \in Seq(Tokens) : s = << >> => Join(s, t) = t
BY ConcatEmptySeq DEF Join

(* Where no line is left, the buffer is empty.                             *)
LEMMA NoLineLeft ==
    \A body, buffer, stream \in Seq(Tokens) :
        (\A k \in 1 .. Len(body) : body[k] # "NL")
        /\ WholeLines(buffer) /\ Join(buffer, stream) = body
        => buffer = << >> /\ stream = body
<1> TAKE body, buffer, stream \in Seq(Tokens)
<1> HAVE /\ \A k \in 1 .. Len(body) : body[k] # "NL"
         /\ WholeLines(buffer) /\ Join(buffer, stream) = body
<1>1. /\ Len(body) = Len(buffer) + Len(stream)
      /\ \A k \in 1 .. Len(buffer) : body[k] = buffer[k]
  BY Joined DEF Join
<1>2. Len(buffer) \in Nat /\ Len(stream) \in Nat
  BY SequenceType
<1>3. buffer = << >>
  <2>1. SUFFICES ASSUME buffer # << >> PROVE FALSE
    OBVIOUS
  <2>2. Len(buffer) > 0 /\ buffer[Len(buffer)] = "NL"
    BY <2>1, SequenceType DEF WholeLines
  <2>3. Len(buffer) \in 1 .. Len(buffer) /\ Len(buffer) \in 1 .. Len(body)
    BY <1>1, <1>2, <2>2
  <2> QED
    BY <1>1, <2>2, <2>3
<1>4. stream = body
  BY <1>3, JoinEmpty
<1> QED
  BY <1>3, <1>4

(* The end of the header: the request has no body, or one that is to be    *)
(* read, or a length that makes the handler end.                           *)
LEMMA EndHeaderOrder ==
    ASSUME TypeInv, NEW request \in Requests, EndHeader, handler.length = request.length,
           handler.request = Parsed(request), net' = net, net = Body(request), input' = << >>
    PROVE  handler'.at = "gone" \/ AtBody(request)' \/ AtRoute(request)'
<1>1. IsHandler(handler)
  BY DEF TypeInv
<1>2. CASE Quit
  BY <1>2, QuitEnds DEF Ends
<1>3. CASE handler.length = NoLength
  <2>1. handler'.at = "route" /\ handler'.request = handler.request
    BY <1>1, <1>3 DEF EndHeader, GoTo, IsHandler
  <2>2. Body(request) = << >>
    BY <1>3 DEF Body, Sizes, NoLength
  <2> QED
    BY <2>1, <2>2 DEF AtRoute
<1>4. CASE ~Quit /\ handler.length # NoLength
  <2>1. /\ handler.length \in DOMAIN Sizes
        /\ handler' = [handler EXCEPT !.at = "body", !.missing = Sizes[handler.length]]
    BY <1>4 DEF EndHeader
  <2>2. /\ handler'.at = "body" /\ handler'.request = handler.request
        /\ handler'.missing = Sizes[handler.length]
    BY <1>1, <2>1 DEF IsHandler
  <2>3. Sizes[handler.length] \in Nat /\ Body(request) = Bytes(Sizes[handler.length])
    BY <2>1, SizesAre DEF Body
  <2> QED
    BY <2>2, <2>3 DEF AtBody
<1> QED
  BY <1>2, <1>3, <1>4

LEMMA ColonFound ==
    \A line \in Seq(Tokens) :
        Len(line) > 0 /\ line[1] \in {"User-Agent:", "Content-Length:"}
          => line # << >> /\ HasColon(line)
<1> TAKE line \in Seq(Tokens)
<1> HAVE Len(line) > 0 /\ line[1] \in {"User-Agent:", "Content-Length:"}
<1>1. DOMAIN line = 1 .. Len(line) /\ Len(line) \in Nat
  BY SequenceType
<1>2. 1 \in DOMAIN line
  BY <1>1
<1> QED
  BY <1>1, <1>2, EmptySeq DEF HasColon

LEMMA HeaderOrder ==
    ASSUME TypeInv, StreamKept, ParseHeader
    PROVE  StreamKept'
<1> DEFINE line == WithoutCR(FirstLine(input))
           Left == Join(input, net)
<1>1. handler.at = "header" /\ input # << >> /\ input' = AfterLine(input) /\ IsHandler(handler)
      /\ UNCHANGED <<client, net, handled>>
  BY DEF ParseHeader, TypeInv
<1>2. PICK request \in Requests :
          /\ asked = Len(handled) + 1 /\ request = script[asked]
          /\ input \in Seq(Tokens) /\ net \in Seq(Tokens) /\ AtHeader(request)
  <2>1. /\ asked = Len(handled) + 1 /\ input \in Seq(Tokens) /\ net \in Seq(Tokens)
        /\ Served(script[asked])
    BY <1>1 DEF StreamKept
  <2>2. script[asked] \in Requests
    BY <2>1, AskedRequest
  <2>3. AtHeader(script[asked])
    BY <1>1, <2>1 DEF Served, Awaited, AtRequestLine, AtBody, AtRoute
  <2> QED
    BY <2>1, <2>2, <2>3
<1>3. UNCHANGED <<asked, handled, net, script>>
  BY <1>1 DEF client
<1>4. /\ WholeLines(input) /\ handler.request = Parsed(request)
      /\ \/ Left \in {AgentPart(request), LengthPart(request)} /\ handler.length = NoLength
         \/ Left = LastPart(request) /\ handler.length = request.length
  BY <1>2 DEF AtHeader
<1>5. /\ LastPart(request) \in Seq(Tokens) /\ LengthPart(request) \in Seq(Tokens)
      /\ Body(request) \in Seq(Tokens)
      /\ IsLine(AgentLine) /\ IsLine(LengthLine(request)) /\ IsLine(EmptyLine)
      /\ \A k \in 1 .. Len(Body(request)) : Body(request)[k] # "NL"
  BY <1>2, PartsAre
<1>6. input # << >>
  BY <1>1
<1>7. ASSUME NEW next, IsLine(next), NEW more \in Seq(Tokens), Left = Join(next, more)
      PROVE  /\ line = LineWords(next) /\ input' \in Seq(Tokens) /\ WholeLines(input')
             /\ Join(input', net) = more
  <2>1. /\ line = LineWords(next) /\ AfterLine(input) \in Seq(Tokens)
        /\ WholeLines(AfterLine(input)) /\ Join(AfterLine(input), net) = more
    BY <1>2, <1>4, <1>6, <1>7, LineRead
  <2> QED
    BY <1>1, <2>1
<1>8. \/ Left = Join(AgentLine, LengthPart(request)) /\ handler.length = NoLength
      \/ /\ Left = Join(LengthLine(request), LastPart(request))
         /\ handler.length = NoLength
      \/ Left = Join(EmptyLine, Body(request)) /\ handler.length = request.length
  BY <1>4 DEF AgentPart, LengthPart, LastPart
<1>9. CASE Left = Join(AgentLine, LengthPart(request)) /\ handler.length = NoLength
  <2>1. /\ line = LineWords(AgentLine) /\ input' \in Seq(Tokens) /\ WholeLines(input')
        /\ Join(input', net) = LengthPart(request)
    BY <1>5, <1>7, <1>9
  <2>2. line # << >> /\ HasColon(line) /\ line[1] # "Content-Length:"
    <3>1. line \in Seq(Tokens) /\ Len(line) = 3 /\ line[1] = "User-Agent:"
      BY <1>2, <2>1, HeaderWords
    <3> QED
      BY <3>1, ColonFound
  <2>3. handler' = handler
    BY <2>2 DEF ParseHeader
  <2>4. AtHeader(request)'
    BY <1>1, <1>3, <1>4, <1>9, <2>1, <2>3 DEF AtHeader, WholeLines
  <2> QED
    BY <1>2, <1>3, <2>1, <2>4 DEF StreamKept, Served
<1>10. CASE /\ Left = Join(LengthLine(request), LastPart(request))
            /\ handler.length = NoLength
  <2>1. /\ line = LineWords(LengthLine(request)) /\ input' \in Seq(Tokens)
        /\ WholeLines(input') /\ Join(input', net) = LastPart(request)
    BY <1>5, <1>7, <1>10
  <2>2. /\ line # << >> /\ HasColon(line) /\ line[1] = "Content-Length:" /\ Len(line) > 1
        /\ line[2] = request.length
    <3>1. /\ line \in Seq(Tokens) /\ Len(line) = 2 /\ line[1] = "Content-Length:"
          /\ line[2] = request.length
      BY <1>2, <2>1, HeaderWords
    <3> QED
      BY <3>1, ColonFound
  <2>3. handler' = [handler EXCEPT !.length = line[2]]
    BY <2>2 DEF ParseHeader
  <2>4. handler'.at = "header" /\ handler'.length = request.length
        /\ handler'.request = handler.request
    BY <1>1, <2>2, <2>3 DEF IsHandler
  <2>5. AtHeader(request)'
    BY <1>3, <1>4, <2>1, <2>4 DEF AtHeader, WholeLines
  <2> QED
    BY <1>2, <1>3, <2>1, <2>5 DEF StreamKept, Served
<1>11. CASE Left = Join(EmptyLine, Body(request)) /\ handler.length = request.length
  <2>1. /\ line = LineWords(EmptyLine) /\ input' \in Seq(Tokens) /\ WholeLines(input')
        /\ Join(input', net) = Body(request)
    BY <1>5, <1>7, <1>11
  <2>2. line = << >>
    BY <1>2, <2>1, HeaderWords
  <2>3. EndHeader
    BY <2>2 DEF ParseHeader
  <2>4. input' = << >> /\ net = Body(request)
    BY <1>2, <1>5, <2>1, NoLineLeft
  <2>5. handler'.at = "gone" \/ AtBody(request)' \/ AtRoute(request)'
    BY <1>2, <1>3, <1>4, <1>11, <2>3, <2>4, EndHeaderOrder
  <2> QED
    BY <1>2, <1>3, <2>1, <2>5 DEF StreamKept, Served
<1> QED
  BY <1>8, <1>9, <1>10, <1>11

----
(* What is received of a stream is a beginning of it.                      *)
LEMMA SegmentIsPrefix ==
    \A stream \in Seq(Tokens) : \A capacity \in Nat : \A segment \in Segments(stream, capacity) :
        \E n \in 1 .. Len(stream) :
            /\ segment = SubSeq(stream, 1, n) /\ n <= capacity
            /\ segment \in Seq(Tokens) /\ Len(segment) = n
            /\ \A k \in 1 .. n : segment[k] = stream[k]
            /\ After(stream, segment) \in Seq(Tokens)
            /\ Len(After(stream, segment)) = Len(stream) - n
            /\ \A k \in 1 .. Len(stream) - n : After(stream, segment)[k] = stream[n + k]
<1> TAKE stream \in Seq(Tokens)
<1> TAKE capacity \in Nat
<1> TAKE segment \in Segments(stream, capacity)
<1>1. PICK n \in 1 .. Len(stream) : segment = SubSeq(stream, 1, n) /\ n <= capacity
  BY DEF Segments
<1>2. Len(stream) \in Nat /\ n \in Nat /\ n <= Len(stream)
  BY <1>1, SequenceType
<1>3. /\ SubSeq(stream, 1, n) \in Seq(Tokens) /\ Len(SubSeq(stream, 1, n)) = n
      /\ \A k \in 1 .. n : SubSeq(stream, 1, n)[k] = stream[k]
  BY <1>2
<1>4. /\ SubSeq(stream, n + 1, Len(stream)) \in Seq(Tokens)
      /\ Len(SubSeq(stream, n + 1, Len(stream))) = Len(stream) - n
      /\ \A k \in 1 .. Len(stream) - n :
            SubSeq(stream, n + 1, Len(stream))[k] = stream[n + k]
  BY <1>2
<1>5. After(stream, segment) = SubSeq(stream, n + 1, Len(stream))
  BY <1>1, <1>3 DEF After
<1> WITNESS n \in 1 .. Len(stream)
<1> QED
  BY <1>1, <1>3, <1>4, <1>5

LEMMA SegmentJoins ==
    \A stream \in Seq(Tokens) : \A capacity \in Nat : \A segment \in Segments(stream, capacity) :
        /\ segment \in Seq(Tokens) /\ After(stream, segment) \in Seq(Tokens)
        /\ segment # << >> /\ stream # << >>
        /\ Join(segment, After(stream, segment)) = stream
<1> TAKE stream \in Seq(Tokens)
<1> TAKE capacity \in Nat
<1> TAKE segment \in Segments(stream, capacity)
<1> DEFINE rest == After(stream, segment)
           both == segment \o rest
<1>1. PICK n \in 1 .. Len(stream) :
          /\ segment \in Seq(Tokens) /\ Len(segment) = n
          /\ \A k \in 1 .. n : segment[k] = stream[k]
          /\ rest \in Seq(Tokens) /\ Len(rest) = Len(stream) - n
          /\ \A k \in 1 .. Len(stream) - n : rest[k] = stream[n + k]
  BY SegmentIsPrefix
<1> HIDE DEF rest
<1>2. Len(stream) \in Nat /\ n \in Nat /\ n > 0 /\ n <= Len(stream)
  BY <1>1, SequenceType
<1>3. /\ both \in Seq(Tokens) /\ Len(both) = n + (Len(stream) - n)
      /\ \A k \in 1 .. n : both[k] = stream[k]
      /\ \A k \in 1 .. Len(stream) - n : both[n + k] = stream[n + k]
  <2>1. segment \in Seq(Tokens) /\ rest \in Seq(Tokens)
    BY <1>1
  <2> HIDE DEF both
  <2>2. /\ both \in Seq(Tokens) /\ Len(both) = Len(segment) + Len(rest)
        /\ \A k \in 1 .. Len(segment) : both[k] = segment[k]
        /\ \A k \in 1 .. Len(rest) : both[Len(segment) + k] = rest[k]
    BY <2>1, Joined DEF both
  <2> QED
    BY <1>1, <2>2
<1> HIDE DEF both
<1>4. Len(both) = Len(stream)
  BY <1>2, <1>3
<1>5. ASSUME NEW i \in 1 .. Len(stream) PROVE both[i] = stream[i]
  <2>1. CASE i <= n
    BY <1>2, <1>3, <2>1
  <2>2. CASE i > n
    <3>1. i - n \in 1 .. Len(stream) - n
      BY <1>2, <2>2
    <3>2. PICK k \in 1 .. Len(stream) - n : k = i - n
      BY <3>1
    <3>3. i = n + k
      BY <1>2, <3>2
    <3> QED
      BY <1>3, <3>3
  <2> QED
    BY <1>2, <2>1, <2>2
<1>6. both = stream
  BY <1>3, <1>4, <1>5, SeqEqual
<1>7. segment # << >> /\ stream # << >>
  BY <1>1, <1>2, EmptySeq
<1> QED
  BY <1>1, <1>6, <1>7 DEF both, rest, Join

LEMMA BytesReceived ==
    \A n \in Nat : \A segment \in Segments(Bytes(n), n) :
        Len(segment) \in 1 .. n /\ After(Bytes(n), segment) = Bytes(n - Len(segment))
<1> TAKE n \in Nat
<1> TAKE segment \in Segments(Bytes(n), n)
<1> DEFINE stream == Bytes(n)
           rest == After(stream, segment)
<1>1. stream \in Seq(Tokens) /\ Len(stream) = n /\ \A k \in 1 .. n : stream[k] = "x"
  BY BytesAre
<1>2. PICK m \in 1 .. n :
          /\ Len(segment) = m /\ rest \in Seq(Tokens) /\ Len(rest) = n - m
          /\ \A k \in 1 .. n - m : rest[k] = stream[m + k]
  <2>1. n \in Nat /\ segment \in Segments(stream, n)
    OBVIOUS
  <2> HIDE DEF stream, rest
  <2>2. PICK m \in 1 .. Len(stream) :
            /\ Len(segment) = m /\ After(stream, segment) \in Seq(Tokens)
            /\ Len(After(stream, segment)) = Len(stream) - m
            /\ \A k \in 1 .. Len(stream) - m : After(stream, segment)[k] = stream[m + k]
    BY <1>1, <2>1, SegmentIsPrefix
  <2> QED
    BY <1>1, <2>2 DEF rest
<1> HIDE DEF stream, rest
<1>3. n - m \in Nat /\ \A k \in 1 .. n - m : m + k \in 1 .. n
  BY <1>2
<1>4. \A k \in 1 .. n - m : rest[k] = "x"
  BY <1>1, <1>2, <1>3
<1> DEFINE bytes == Bytes(n - m)
<1>5. bytes \in Seq(Tokens) /\ Len(bytes) = n - m /\ \A k \in 1 .. n - m : bytes[k] = "x"
  BY <1>3, BytesAre
<1> HIDE DEF bytes
<1>6. rest = bytes
  BY <1>2, <1>4, <1>5, SeqEqual
<1> QED
  BY <1>2, <1>6 DEF rest, stream, bytes

(* A segment that ends with a line joins the buffer; and bytes of a body   *)
(* are read out of the stream.                                             *)
LEMMA ReceiveOrder ==
    ASSUME TypeInv, StreamKept, Receive, whole'
    PROVE  StreamKept'
<1>1. /\ handler.at \in {"request line", "header"} /\ input = << >>
      /\ UNCHANGED <<client, handler, handled>>
  BY DEF Receive
<1>2. PICK segment \in Segments(net, Len(net)) :
          /\ input' = segment /\ net' = After(net, segment) /\ Last(segment) = "NL"
  BY DEF Receive
<1>3. net # << >>
  <2>1. SUFFICES ASSUME net = << >> PROVE FALSE
    OBVIOUS
  <2>2. net \in Seq(Tokens) /\ Len(net) \in Nat
    BY <2>1, EmptySeq
  <2> QED
    BY <1>2, <2>1, <2>2, SegmentJoins
<1>4. PICK request :
          /\ asked = Len(handled) + 1 /\ request = script[asked]
          /\ input \in Seq(Tokens) /\ net \in Seq(Tokens)
          /\ AtRequestLine(request) \/ AtHeader(request)
  <2>1. /\ asked = Len(handled) + 1 /\ input \in Seq(Tokens) /\ net \in Seq(Tokens)
        /\ Served(script[asked])
    BY <1>1, <1>3 DEF StreamKept
  <2>2. AtRequestLine(script[asked]) \/ AtHeader(script[asked])
    BY <1>1, <2>1 DEF Served, Awaited, AtBody, AtRoute
  <2> QED
    BY <2>1, <2>2
<1>5. Join(input, net) = net
  BY <1>1, <1>4, JoinEmpty
<1>6. /\ input' \in Seq(Tokens) /\ net' \in Seq(Tokens) /\ input' # << >>
      /\ Join(input', net') = net
  <2>1. Len(net) \in Nat
    BY <1>4, SequenceType
  <2>2. /\ segment \in Seq(Tokens) /\ After(net, segment) \in Seq(Tokens) /\ segment # << >>
        /\ Join(segment, After(net, segment)) = net
    BY <1>4, <2>1, SegmentJoins
  <2> QED
    BY <1>2, <2>2
<1>7. WholeLines(input')
  BY <1>2 DEF WholeLines, Last
<1>8. UNCHANGED <<asked, handled, script, handler>>
  BY <1>1 DEF client
<1>9. AtRequestLine(request)' \/ AtHeader(request)'
  <2>1. CASE AtRequestLine(request)
    BY <1>5, <1>6, <1>7, <1>8, <2>1 DEF AtRequestLine
  <2>2. CASE AtHeader(request)
    BY <1>5, <1>6, <1>7, <1>8, <2>2 DEF AtHeader
  <2> QED
    BY <1>4, <2>1, <2>2
<1> QED
  BY <1>4, <1>6, <1>8, <1>9 DEF StreamKept, Served

LEMMA BodyOrder ==
    ASSUME TypeInv, StreamKept, ReadBody
    PROVE  StreamKept'
<1>1. handler.at = "body" /\ IsHandler(handler) /\ UNCHANGED <<client, input, handled>>
  BY DEF ReadBody, TypeInv
<1>2. UNCHANGED <<asked, handled, script, input>>
  BY <1>1 DEF client
<1>3. PICK request :
          /\ asked = Len(handled) + 1 /\ request = script[asked]
          /\ input \in Seq(Tokens) /\ net \in Seq(Tokens) /\ AtBody(request)
  <2>1. /\ asked = Len(handled) + 1 /\ input \in Seq(Tokens) /\ net \in Seq(Tokens)
        /\ Served(script[asked])
    BY <1>1 DEF StreamKept
  <2>2. AtBody(script[asked])
    BY <1>1, <2>1 DEF Served, Awaited, AtRequestLine, AtHeader, AtRoute
  <2> QED
    BY <2>1, <2>2
<1>4. PICK segment \in Segments(net, handler.missing) :
          /\ net' = After(net, segment)
          /\ handler' = [handler EXCEPT !.missing = @ - Len(segment),
                             !.at = IF Len(segment) = handler.missing THEN "route" ELSE "body"]
  BY DEF ReadBody
<1>5. handler.missing \in Nat /\ net = Bytes(handler.missing) /\ input = << >>
      /\ handler.request = Parsed(request)
  BY <1>3 DEF AtBody
<1>6. Len(segment) \in 1 .. handler.missing /\ net' = Bytes(handler.missing - Len(segment))
  BY <1>4, <1>5, BytesReceived
<1>7. /\ handler'.missing = handler.missing - Len(segment) /\ handler'.missing \in Nat
      /\ handler'.request = handler.request
      /\ handler'.at = IF Len(segment) = handler.missing THEN "route" ELSE "body"
  BY <1>1, <1>4, <1>5, <1>6 DEF IsHandler
<1>8. net' = Bytes(handler'.missing) /\ net' \in Seq(Tokens)
  BY <1>6, <1>7, BytesAre
<1>9. CASE Len(segment) = handler.missing
  <2>1. handler'.missing = 0
    BY <1>5, <1>7, <1>9
  <2>2. Len(Bytes(0)) = 0 /\ Bytes(0) \in Seq(Tokens)
    BY BytesAre
  <2>3. net' = << >>
    BY <1>8, <2>1, <2>2, EmptySeq
  <2>4. AtRoute(request)'
    BY <1>2, <1>5, <1>7, <1>9, <2>3 DEF AtRoute
  <2> QED
    BY <1>2, <1>3, <1>8, <2>4 DEF StreamKept, Served
<1>10. CASE Len(segment) # handler.missing
  <2>1. AtBody(request)'
    BY <1>2, <1>5, <1>7, <1>8, <1>10 DEF AtBody
  <2> QED
    BY <1>2, <1>3, <1>8, <2>1 DEF StreamKept, Served
<1> QED
  BY <1>9, <1>10

(* Whatever the handler reads.                                             *)
LEMMA ReadStepsOrder ==
    ASSUME TypeInv, OrderKept, whole',
           \/ CallRecv \/ Receive \/ PeerDisconnected \/ ReadFails \/ ParseRequestLine
           \/ ParseHeader \/ ReadBody
    PROVE  OrderKept'
<1>1. Reads
  BY ReadSteps
<1>2. received' = received
  BY DEF CallRecv, Receive, PeerDisconnected, ReadFails, ParseRequestLine, ParseHeader, ReadBody
<1>3. StreamKept
  BY DEF OrderKept
<1>4. StreamKept'
  <2>1. CASE PeerDisconnected
    <3>1. handler'.at = "gone"
      BY <2>1 DEF PeerDisconnected, TypeInv, IsHandler
    <3> QED
      BY <3>1 DEF StreamKept
  <2>2. CASE ReadFails
    BY <2>2, QuitOrder DEF ReadFails
  <2>3. CASE CallRecv
    <3>1. UNCHANGED <<client, net, input, handler, handled>>
      BY <2>3 DEF CallRecv
    <3> QED
      BY <1>3, <3>1 DEF client, StreamKept, Served, Awaited, AtRequestLine, AtHeader, AtBody,
                        AtRoute
  <2> QED
    BY <1>3, <2>1, <2>2, <2>3, ReceiveOrder, RequestLineOrder, HeaderOrder, BodyOrder
<1> QED
  BY <1>1, <1>2, <1>4, ReadsOrder

----
(* What a client has got: half as many answers as parts, and an answer     *)
(* adds two parts.                                                         *)
Parts == Nat \X {"head", "body"}
PartOf(k) == <<(k + 1) \div 2, IF k % 2 = 1 THEN "head" ELSE "body">>

LEMMA PartIs ==
    \A n \in Nat : n > 0 =>
        /\ PartOf(2 * n) = <<n, "body">> /\ PartOf(2 * n - 1) = <<n, "head">>
        /\ \A k \in 1 .. 2 * n : PartOf(k) \in Parts
<1> TAKE n \in Nat
<1> HAVE n > 0
<1>1. (2 * n + 1) \div 2 = n /\ (2 * n) % 2 = 0
  OBVIOUS
<1>2. (2 * n - 1 + 1) \div 2 = n /\ (2 * n - 1) % 2 = 1
  OBVIOUS
<1>3. \A k \in 1 .. 2 * n : (k + 1) \div 2 \in Nat
  OBVIOUS
<1> QED
  BY <1>1, <1>2, <1>3 DEF PartOf, Parts

LEMMA TranscriptIs ==
    \A n \in Nat :
        /\ Transcript(n) \in Seq(Parts) /\ Len(Transcript(n)) = 2 * n
        /\ DOMAIN Transcript(n) = 1 .. 2 * n
        /\ \A k \in 1 .. 2 * n : Transcript(n)[k] = PartOf(k)
<1> TAKE n \in Nat
<1>1. /\ DOMAIN Transcript(n) = 1 .. 2 * n
      /\ \A k \in 1 .. 2 * n : Transcript(n)[k] = PartOf(k)
  BY DEF Transcript, PartOf
<1>2. \A k \in 1 .. 2 * n : PartOf(k) \in Parts
  <2>1. n = 0 => 1 .. 2 * n = {}
    OBVIOUS
  <2> QED
    BY <2>1, PartIs
<1>3. Transcript(n) \in [1 .. 2 * n -> Parts]
  <2>1. Transcript(n) = [k \in 1 .. 2 * n |-> PartOf(k)]
    BY DEF Transcript, PartOf
  <2> QED
    BY <1>2, <2>1
<1>4. 2 * n \in Nat
  OBVIOUS
<1>5. Transcript(n) \in Seq(Parts)
  BY <1>3, <1>4
<1>6. Len(Transcript(n)) = 2 * n
  <2>1. DOMAIN Transcript(n) = 1 .. Len(Transcript(n)) /\ Len(Transcript(n)) \in Nat
    BY <1>5, SequenceType
  <2> QED
    BY <1>1, <1>4, <2>1
<1> QED
  BY <1>1, <1>5, <1>6

(* The answer to a request.                                                *)
Answer(n) == <<<<n, "head">>, <<n, "body">>>>

LEMMA TranscriptGrows ==
    \A n \in Nat : Join(Transcript(n), Answer(n + 1)) = Transcript(n + 1)
<1> TAKE n \in Nat
<1> DEFINE before == Transcript(n)
           answer == Answer(n + 1)
           all == Transcript(n + 1)
           both == before \o answer
<1>1. /\ before \in Seq(Parts) /\ Len(before) = 2 * n
      /\ \A k \in 1 .. 2 * n : before[k] = PartOf(k)
  BY TranscriptIs
<1>2. /\ all \in Seq(Parts) /\ Len(all) = 2 * n + 2
      /\ \A k \in 1 .. 2 * n + 2 : all[k] = PartOf(k)
  <2>1. n + 1 \in Nat /\ 2 * (n + 1) = 2 * n + 2
    OBVIOUS
  <2> HIDE DEF all
  <2> QED
    BY <2>1, TranscriptIs DEF all
<1>3. /\ answer \in Seq(Parts) /\ Len(answer) = 2
      /\ answer[1] = <<n + 1, "head">> /\ answer[2] = <<n + 1, "body">>
  <2>1. <<n + 1, "head">> \in Parts /\ <<n + 1, "body">> \in Parts
    BY DEF Parts
  <2> QED
    BY <2>1 DEF Answer
<1>4. PartOf(2 * n + 1) = <<n + 1, "head">> /\ PartOf(2 * n + 2) = <<n + 1, "body">>
  <2>1. n + 1 \in Nat /\ n + 1 > 0 /\ 2 * (n + 1) = 2 * n + 2 /\ 2 * (n + 1) - 1 = 2 * n + 1
    OBVIOUS
  <2> QED
    BY <2>1, PartIs
<1> HIDE DEF before, all, answer
<1>5. /\ both \in Seq(Parts) /\ Len(both) = 2 * n + 2
      /\ \A k \in 1 .. 2 * n : both[k] = PartOf(k)
      /\ both[2 * n + 1] = answer[1] /\ both[2 * n + 2] = answer[2]
  <2> HIDE DEF both
  <2>1. /\ both \in Seq(Parts) /\ Len(both) = Len(before) + Len(answer)
        /\ \A k \in 1 .. Len(before) : both[k] = before[k]
        /\ \A k \in 1 .. Len(answer) : both[Len(before) + k] = answer[k]
    <3>1. before \in Seq(Parts) /\ answer \in Seq(Parts)
      BY <1>1, <1>3
    <3> QED
      BY <3>1, Joined DEF both
  <2>2. 1 \in 1 .. 2 /\ 2 \in 1 .. 2
    OBVIOUS
  <2> QED
    BY <1>1, <1>3, <2>1, <2>2
<1> HIDE DEF both
<1>6. ASSUME NEW k \in 1 .. 2 * n + 2 PROVE both[k] = all[k]
  <2>1. k \in 1 .. 2 * n \/ k = 2 * n + 1 \/ k = 2 * n + 2
    OBVIOUS
  <2> QED
    BY <1>2, <1>3, <1>4, <1>5, <2>1
<1>7. both = all
  BY <1>2, <1>5, <1>6, SeqEqual
<1> QED
  BY <1>7 DEF both, before, answer, all, Join

LEMMA AnswersCounted ==
    \A n \in Nat : received = Transcript(n) => Answers = n
<1> TAKE n \in Nat
<1> HAVE received = Transcript(n)
<1> DEFINE bodies == {k \in DOMAIN received : received[k][2] = "body"}
           f == [j \in 1 .. n |-> 2 * j]
<1>1. bodies = {k \in 1 .. 2 * n : k % 2 = 0}
  <2>1. DOMAIN received = 1 .. 2 * n /\ \A k \in 1 .. 2 * n : received[k] = PartOf(k)
    BY TranscriptIs
  <2>2. \A k \in 1 .. 2 * n : received[k][2] = "body" <=> k % 2 = 0
    <3>1. \A k \in 1 .. 2 * n : k % 2 = 0 \/ k % 2 = 1
      OBVIOUS
    <3>2. \A k \in 1 .. 2 * n : PartOf(k)[2] = IF k % 2 = 1 THEN "head" ELSE "body"
      BY DEF PartOf
    <3> QED
      BY <2>1, <3>1, <3>2
  <2> QED
    BY <2>1, <2>2
<1>2. f \in Bijection(1 .. n, bodies)
  <2>1. f \in [1 .. n -> bodies]
    <3>1. \A j \in 1 .. n : 2 * j \in 1 .. 2 * n /\ (2 * j) % 2 = 0
      OBVIOUS
    <3> QED
      BY <1>1, <3>1
  <2>2. \A i, j \in 1 .. n : f[i] = f[j] => i = j
    OBVIOUS
  <2>3. \A k \in bodies : \E j \in 1 .. n : f[j] = k
    <3> SUFFICES ASSUME NEW k \in 1 .. 2 * n, k % 2 = 0 PROVE \E j \in 1 .. n : f[j] = k
      BY <1>1
    <3>1. k \div 2 \in 1 .. n /\ 2 * (k \div 2) = k
      OBVIOUS
    <3> QED
      BY <3>1
  <2> HIDE DEF f, bodies
  <2> QED
    BY <2>1, <2>2, <2>3 DEF Bijection, Injection, IsInjective, Surjection
<1>3. IsFiniteSet(1 .. n) /\ Cardinality(1 .. n) = n
  BY FS_Interval
<1> HIDE DEF f, bodies
<1>4. Cardinality(bodies) = n
  <2>1. ExistsBijection(1 .. n, bodies)
    BY <1>2 DEF ExistsBijection
  <2> QED
    BY <1>3, <2>1, FS_Bijection
<1> QED
  BY <1>4 DEF Answers, bodies

----
(* Steps that leave the requests and the answers where they are.           *)
LEMMA NothingMoves ==
    ASSUME OrderKept,
           UNCHANGED <<script, asked, net, input, received, output, handler, responder,
                       calculating, done, handled>>
    PROVE  OrderKept'
<1>1. Unanswered' = Unanswered
  BY DEF Unanswered
<1>2. RequestsKept' /\ AnswersKept' /\ OutputKept'
  BY <1>1 DEF OrderKept, RequestsKept, AnswersKept, OutputKept
<1>3. StreamKept'
  BY DEF OrderKept, StreamKept, Served, Awaited, AtRequestLine, AtHeader, AtBody, AtRoute
<1> QED
  BY <1>2, <1>3 DEF OrderKept

(* A client that waits has all answers when it asks more, so that nothing  *)
(* is left of what it had asked.                                           *)
LEMMA AllAnswered ==
    ASSUME TypeInv, OrderKept, Answers >= asked
    PROVE  asked = Len(handled) /\ received = Transcript(Len(handled)) /\ Unanswered = {}
<1>1. Len(handled) \in Nat /\ (handled # << >> => Len(handled) \in 1 .. Len(handled))
  BY HandledType
<1>2. asked \in {Len(handled), Len(handled) + 1}
  BY DEF OrderKept, RequestsKept
<1>3. CASE received = Transcript(Len(handled)) /\ Unanswered = {}
  <2>1. Answers = Len(handled)
    BY <1>1, <1>3, AnswersCounted
  <2> QED
    BY <1>1, <1>2, <1>3, <2>1
<1>4. CASE /\ handled # << >> /\ asked = Len(handled)
           /\ received = Transcript(Len(handled) - 1)
  <2>1. Len(handled) - 1 \in Nat
    BY <1>1, <1>4
  <2>2. Answers = Len(handled) - 1
    BY <1>4, <2>1, AnswersCounted
  <2> QED
    BY <1>1, <1>4, <2>2
<1> QED
  BY <1>3, <1>4 DEF OrderKept, AnswersKept

LEMMA AskOrder ==
    ASSUME TypeInv, OrderKept, manners.waits, Ask
    PROVE  OrderKept'
<1> DEFINE n == Len(handled)
<1> PICK request : request = script[asked + 1]
  OBVIOUS
<1>1. /\ asked < Len(script) /\ Answers >= asked /\ asked' = asked + 1
      /\ net' = Join(net, Message(request))
      /\ UNCHANGED <<script, input, received, output, handler, responder, calculating, done,
                     handled>>
  BY DEF Ask, Join
<1>2. /\ asked = n /\ received = Transcript(n) /\ Unanswered = {} /\ n \in Nat
  BY <1>1, AllAnswered, HandledType
<1>3. request \in Requests
  <2>1. script \in Seq(Requests)
    BY ScriptsAssumption DEF TypeInv, Requests
  <2>2. Len(script) \in Nat
    BY <2>1, SequenceType
  <2>3. asked + 1 \in 1 .. Len(script)
    BY <1>1, <1>2, <2>2
  <2> QED
    BY <2>1, <2>3, ElementOfSeq
<1>4. Message(request) \in Seq(Tokens)
  <2>1. RequestLine(request) \in Seq(Tokens) /\ AgentPart(request) \in Seq(Tokens)
    BY <1>3, PartsAre DEF IsLine
  <2> QED
    BY <1>3, <2>1, MessageParts, JoinType
<1>5. Unanswered' = Unanswered
  BY <1>1 DEF Unanswered
<1>6. RequestsKept' /\ AnswersKept' /\ OutputKept'
  BY <1>1, <1>2, <1>5 DEF OrderKept, RequestsKept, AnswersKept, OutputKept
<1>7. ASSUME handler.at # "gone"
      PROVE  /\ input = << >> /\ net = << >>
             /\ handler.at \in {"request line", "clear", "after", "close"}
  <2>1. asked # n + 1
    BY <1>2
  <2>2. /\ input = << >> /\ net = << >> /\ handler.at \notin {"header", "body", "route"}
    BY <1>7, <2>1 DEF OrderKept, StreamKept
  <2>3. handler.at \notin {"head", "body of page", "write"}
    BY <1>2 DEF Unanswered
  <2>4. handler.at \in HandlerPlaces
    BY DEF TypeInv, IsHandler
  <2> QED
    BY <1>7, <2>2, <2>3, <2>4 DEF HandlerPlaces, Reading, Answering
<1>8. StreamKept'
  <2>1. SUFFICES ASSUME handler.at # "gone"
                 PROVE  /\ input' \in Seq(Tokens) /\ net' \in Seq(Tokens)
                        /\ Awaited(request)' \/ AtRequestLine(request)'
    <3>1. asked' = Len(handled') + 1 /\ request = script'[asked'] /\ handler' = handler
      BY <1>1, <1>2
    <3> QED
      BY <3>1 DEF StreamKept, Served
  <2>2. << >> \in Seq(Tokens)
    BY EmptySeq
  <2>3. input' = << >> /\ net' = Message(request)
    BY <1>1, <1>4, <1>7, <2>1, <2>2, JoinEmpty
  <2>4. Join(input', net') = Message(request)
    BY <1>4, <2>2, <2>3, JoinEmpty
  <2>5. handler' = handler /\ handler.at \in {"request line", "clear", "after", "close"}
    BY <1>1, <1>7, <2>1
  <2>6. WholeLines(input')
    BY <2>3 DEF WholeLines
  <2> QED
    BY <1>4, <2>2, <2>3, <2>4, <2>5, <2>6 DEF Awaited, AtRequestLine
<1> QED
  BY <1>6, <1>8 DEF OrderKept

(* The request that the handler routes is the last that was asked, and the *)
(* one that has no answer then.                                            *)
LEMMA RouteOrder ==
    ASSUME TypeInv, OrderKept, Route
    PROVE  OrderKept'
<1> DEFINE n == Len(handled)
           request == script[asked]
<1>1. TypeInv /\ n \in Nat /\ DOMAIN handled = 1 .. n
  BY HandledType
<1>2. /\ handler.at = "route" /\ handled' = Append(handled, handler.request)
      /\ UNCHANGED <<script, asked, net, received, input, output, responder, done>>
  BY DEF Route, client
<1>3. /\ handled' \in Seq(Range(handled')) /\ handled' # << >>
      /\ Len(handled') = n + 1 /\ handled'[n + 1] = handler.request
      /\ \A k \in 1 .. n : handled'[k] = handled[k]
  BY <1>1, <1>2, OneMoreHandled
<1>4. handler'.at \in {"head", "after"} /\ calculating' \in {calculating, calculating \cup {n + 1}}
  <2>1. GoTo("after") \/ GoTo("head")
    BY DEF Route
  <2>2. "after" \in HandlerPlaces /\ "head" \in HandlerPlaces
    BY DEF HandlerPlaces, Answering
  <2>3. handler'.at \in {"head", "after"}
    BY <1>1, <2>1, <2>2, PlaceChanges
  <2> QED
    BY <1>3, <2>3 DEF Route
<1>5. /\ asked = n + 1 /\ handler.request = Parsed(request) /\ input = << >> /\ net = << >>
  BY <1>2 DEF OrderKept, StreamKept, Served, Awaited, AtRequestLine, AtHeader, AtBody, AtRoute
<1>6. received = Transcript(n) /\ Unanswered = {}
  <2>1. asked = n + 1
    BY <1>5
  <2>2. n \in Nat
    BY <1>1
  <2> HIDE DEF n
  <2>3. asked # n
    BY <2>1, <2>2
  <2> QED
    BY <2>3 DEF n, OrderKept, AnswersKept
<1> HIDE DEF n, request
<1>7. RequestsKept'
  <2>1. asked' = Len(handled')
    BY <1>2, <1>3, <1>5
  <2>2. DOMAIN handled' = 1 .. n + 1
    BY <1>3, SequenceType
  <2>3. \A k \in DOMAIN handled' : handled'[k] = Parsed(script[k])
    <3>1. \A k \in 1 .. n : handled[k] = Parsed(script[k])
      BY <1>1 DEF OrderKept, RequestsKept
    <3>2. \A k \in 1 .. n + 1 : k \in 1 .. n \/ k = n + 1
      BY <1>1
    <3> QED
      BY <1>3, <1>5, <2>2, <3>1, <3>2 DEF request
  <2> QED
    BY <1>2, <2>1, <2>3 DEF RequestsKept
<1>8. Unanswered' \subseteq {Len(handled')}
  BY <1>2, <1>3, <1>4, <1>6 DEF Unanswered
<1>9. AnswersKept'
  <2>1. Len(handled') - 1 = n
    BY <1>1, <1>3
  <2>2. received' = Transcript(Len(handled') - 1) /\ asked' = Len(handled')
    BY <1>2, <1>3, <1>5, <1>6, <2>1
  <2> QED
    BY <1>3, <1>8, <2>2 DEF AnswersKept
<1>10. OutputKept'
  <2>1. responder.at \notin {"head", "body", "write"}
    BY <1>6 DEF Unanswered
  <2> QED
    BY <1>2, <1>4, <2>1 DEF OrderKept, OutputKept
<1>11. StreamKept'
  BY <1>2, <1>3, <1>4, <1>5 DEF StreamKept
<1> QED
  BY <1>7, <1>9, <1>10, <1>11 DEF OrderKept

----
(* The handler puts the parts of its answer in an empty buffer.            *)
LEMMA NoneAtWriters ==
    ASSUME OrderKept, handler.at \notin {"body of page", "write", "clear"},
           responder.at \notin {"body", "write", "clear"}
    PROVE  output = << >>
BY DEF OrderKept, OutputKept

LEMMA PartsPut ==
    \A S : \A a, b \in S : Append(<< >>, a) = <<a>> /\ Append(<<a>>, b) = <<a, b>>
<1> TAKE S
<1> TAKE a, b \in S
<1> DEFINE one == Append(<< >>, a)
           two == Append(<<a>>, b)
<1>1. << >> \in Seq(S) /\ Len(<< >>) = 0
  BY EmptySeq
<1>2. <<a>> \in Seq(S) /\ Len(<<a>>) = 1 /\ <<a>>[1] = a
  OBVIOUS
<1>3. <<a, b>> \in Seq(S) /\ Len(<<a, b>>) = 2 /\ <<a, b>>[1] = a /\ <<a, b>>[2] = b
  OBVIOUS
<1>4. one \in Seq(S) /\ Len(one) = 1 /\ one[1] = a
  BY <1>1, AppendProperties
<1>5. two \in Seq(S) /\ Len(two) = 2 /\ two[1] = a /\ two[2] = b
  BY <1>2, AppendProperties
<1> HIDE DEF one, two
<1>6. one = <<a>>
  <2>1. \A k \in 1 .. 1 : k = 1
    OBVIOUS
  <2>2. PICK s : s = <<a>>
    OBVIOUS
  <2>3. s \in Seq(S) /\ Len(s) = 1 /\ s[1] = a
    BY <1>2, <2>2
  <2>4. one = s
    BY <1>4, <2>1, <2>3, SeqEqual
  <2> QED
    BY <2>2, <2>4
<1>7. two = <<a, b>>
  <2>1. \A k \in 1 .. 2 : k = 1 \/ k = 2
    OBVIOUS
  <2>2. PICK s : s = <<a, b>>
    OBVIOUS
  <2>3. s \in Seq(S) /\ Len(s) = 2 /\ s[1] = a /\ s[2] = b
    BY <1>3, <2>2
  <2>4. two = s
    BY <1>5, <2>1, <2>3, SeqEqual
  <2> QED
    BY <2>2, <2>4
<1> QED
  BY <1>6, <1>7 DEF one, two

LEMMA AnswerPut ==
    \A n \in Nat :
        /\ Append(<< >>, <<n, "head">>) = <<<<n, "head">>>>
        /\ Append(<<<<n, "head">>>>, <<n, "body">>) = Answer(n)
<1> TAKE n \in Nat
<1>1. <<n, "head">> \in Parts /\ <<n, "body">> \in Parts
  BY DEF Parts
<1> HIDE DEF Parts
<1> QED
  BY <1>1, PartsPut DEF Answer

LEMMA HandlerSendsOrder ==
    ASSUME ConnectionInv, OrderKept, ~TwoWriters, HandlerSends
    PROVE  OrderKept'
<1> DEFINE n == Len(handled)
<1>1. /\ TypeInv /\ handler.at \in {"head", "body of page", "write", "clear"} /\ handled # << >>
      /\ UNCHANGED <<script, asked, net, input, responder, calculating, done, handled>>
  BY DEF ConnectionInv, HandlerSends, Answering, AnswersLast, client
<1>2. n \in Nat /\ n > 0
  <2>1. n \in Nat /\ n \in 1 .. n
    BY <1>1, HandledType
  <2> QED
    BY <2>1
<1>3. Pending = {} /\ descriptor = "open"
  <2>1. Pending = {}
    BY <1>1, OneWriter DEF Answering
  <2>2. descriptor = "open"
    BY <1>1 DEF ConnectionInv, ClosedByHandler, TypeInv
  <2> QED
    BY <2>1, <2>2
<1>4. calculating = {} /\ Range(done) = {} /\ responder.at = "idle"
  BY <1>3 DEF Pending
<1>5. /\ handler.at = "head" => handler'.at = "body of page"
      /\ handler.at = "body of page" => handler'.at = "write"
      /\ handler.at = "write" => handler'.at = "clear"
      /\ handler.at = "clear" => handler'.at = "after"
  BY <1>1 DEF HandlerSends, GoTo, TypeInv, IsHandler
<1>6. /\ Unanswered = IF handler.at = "clear" THEN {} ELSE {n}
      /\ Unanswered' = IF handler'.at \in {"clear", "after"} THEN {} ELSE {n}
  BY <1>1, <1>4, <1>5 DEF Unanswered
<1>7. ASSUME handler.at # "clear"
      PROVE  asked = n /\ received = Transcript(n - 1) /\ input = << >> /\ net = << >>
  <2>1. asked = n /\ received = Transcript(n - 1)
    BY <1>6, <1>7 DEF OrderKept, AnswersKept
  <2>2. ~Served(script[asked])
    BY <1>1, <1>7 DEF Served, Awaited, AtRequestLine, AtHeader, AtBody, AtRoute
  <2>3. input = << >> /\ net = << >>
    BY <1>1, <2>2 DEF OrderKept, StreamKept
  <2> QED
    BY <2>1, <2>3
<1>8. StreamKept'
  <2>1. CASE handler.at = "clear"
    <3>1. handler'.at = "after"
      BY <1>5, <2>1
    <3>2. \/ asked = n /\ input = << >> /\ net = << >>
          \/ /\ asked = n + 1 /\ input \in Seq(Tokens) /\ net \in Seq(Tokens)
             /\ Awaited(script[asked])
      BY <2>1 DEF OrderKept, StreamKept, Served, AtRequestLine, AtHeader, AtBody, AtRoute
    <3> QED
      BY <1>1, <3>1, <3>2 DEF StreamKept, Served, Awaited
  <2>2. CASE handler.at # "clear"
    BY <1>1, <1>5, <1>7, <2>2 DEF StreamKept
  <2> QED
    BY <2>1, <2>2
<1>9. RequestsKept'
  BY <1>1 DEF OrderKept, RequestsKept
<1>10. CASE handler.at = "head"
  <2>1. output = << >> /\ output' = Append(output, <<n, "head">>) /\ received' = received
    BY <1>4, <1>10, NoneAtWriters DEF HandlerSends, PutHead
  <2>2. output' = <<<<n, "head">>>>
    BY <1>2, <2>1, AnswerPut
  <2>3. OutputKept'
    BY <1>1, <1>4, <1>5, <1>10, <2>2 DEF OutputKept
  <2>4. AnswersKept'
    BY <1>1, <1>5, <1>6, <1>7, <1>10, <2>1 DEF AnswersKept
  <2> QED
    BY <1>8, <1>9, <2>3, <2>4 DEF OrderKept
<1>11. CASE handler.at = "body of page"
  <2>1. /\ output = <<<<n, "head">>>> /\ output' = Append(output, <<n, "body">>)
        /\ received' = received
    BY <1>11 DEF HandlerSends, PutBody, OrderKept, OutputKept
  <2>2. output' = Answer(n)
    BY <1>2, <2>1, AnswerPut
  <2>3. OutputKept'
    BY <1>1, <1>4, <1>5, <1>11, <2>2 DEF OutputKept, Answer
  <2>4. AnswersKept'
    BY <1>1, <1>5, <1>6, <1>7, <1>11, <2>1 DEF AnswersKept
  <2> QED
    BY <1>8, <1>9, <2>3, <2>4 DEF OrderKept
<1>12. CASE handler.at = "write"
  <2>1. output = Answer(n) /\ output' = output /\ received' = Join(received, output)
    BY <1>3, <1>12 DEF HandlerSends, Write, OrderKept, OutputKept, Answer, Join
  <2>2. received' = Transcript(n)
    <3>1. n - 1 \in Nat /\ n - 1 + 1 = n
      BY <1>2
    <3>2. Join(Transcript(n - 1), Answer(n)) = Transcript(n)
      BY <3>1, TranscriptGrows
    <3> QED
      BY <1>7, <1>12, <2>1, <3>2
  <2>3. OutputKept'
    BY <1>1, <1>4, <1>5, <1>12, <2>1 DEF OutputKept
  <2>4. AnswersKept'
    BY <1>1, <1>5, <1>6, <1>12, <2>2 DEF AnswersKept
  <2> QED
    BY <1>8, <1>9, <2>3, <2>4 DEF OrderKept
<1>13. CASE handler.at = "clear"
  <2>1. output' = << >> /\ received' = received
    BY <1>13 DEF HandlerSends, Clear
  <2>2. OutputKept'
    BY <1>1, <1>4, <1>5, <1>13, <2>1 DEF OutputKept
  <2>3. AnswersKept'
    BY <1>1, <1>5, <1>6, <1>13, <2>1 DEF OrderKept, AnswersKept
  <2> QED
    BY <1>8, <1>9, <2>2, <2>3 DEF OrderKept
<1> QED
  BY <1>1, <1>10, <1>11, <1>12, <1>13

(* After an answer the handler awaits the next request, or closes.         *)
LEMMA AfterRequestOrder ==
    ASSUME TypeInv, OrderKept, AfterRequest \/ Close
    PROVE  OrderKept'
<1>1. /\ handler.at \in {"after", "close"} /\ handler'.at \in {"close", "request line", "gone"}
      /\ UNCHANGED <<script, asked, net, received, input, output, responder, calculating, done,
                     handled>>
  <2>1. CASE AfterRequest
    <3>1. /\ handler.at = "after" /\ UNCHANGED <<client, net, received, input, output, responder,
                                                 calculating, done, handled>>
      BY <2>1 DEF AfterRequest
    <3>2. GoTo(IF IsOld(handler.request) THEN "close" ELSE "request line")
      BY <2>1 DEF AfterRequest
    <3>3. "close" \in HandlerPlaces /\ "request line" \in HandlerPlaces
      BY DEF HandlerPlaces, Reading
    <3>4. handler'.at \in {"close", "request line"}
      BY <3>2, <3>3, PlaceChanges
    <3> QED
      BY <3>1, <3>4 DEF client
  <2>2. CASE Close
    BY <2>2 DEF Close, TypeInv, IsHandler, client
  <2> QED
    BY <2>1, <2>2
<1>2. Unanswered' = Unanswered
  BY <1>1 DEF Unanswered
<1>3. RequestsKept' /\ AnswersKept' /\ OutputKept'
  BY <1>1, <1>2 DEF OrderKept, RequestsKept, AnswersKept, OutputKept
<1>4. StreamKept'
  <2>1. CASE asked = Len(handled) /\ input = << >> /\ net = << >>
    BY <1>1, <2>1 DEF StreamKept
  <2>2. CASE ~(asked = Len(handled) /\ input = << >> /\ net = << >>)
    <3>1. /\ asked = Len(handled) + 1 /\ input \in Seq(Tokens) /\ net \in Seq(Tokens)
          /\ Awaited(script[asked])
      BY <1>1, <2>2 DEF OrderKept, StreamKept, Served, AtRequestLine, AtHeader, AtBody, AtRoute
    <3>2. PICK request : request = script[asked]
      OBVIOUS
    <3>3. input = << >> /\ net = Message(request)
      BY <3>1, <3>2 DEF Awaited
    <3>4. Join(input, net) = Message(request)
      BY <3>1, <3>3, JoinEmpty
    <3>5. handler'.at = "gone" \/ Awaited(request)' \/ AtRequestLine(request)'
      BY <1>1, <3>3, <3>4 DEF Awaited, AtRequestLine, WholeLines
    <3> QED
      BY <1>1, <3>1, <3>2, <3>5 DEF StreamKept, Served
  <2> QED
    BY <2>1, <2>2
<1> QED
  BY <1>3, <1>4 DEF OrderKept

----
(* Responses that move on their way remain the same ones.                  *)
LEMMA MovesOrder ==
    ASSUME OrderKept, Unanswered' = Unanswered, OutputKept',
           UNCHANGED <<script, asked, net, input, received, handler, handled>>
    PROVE  OrderKept'
<1>1. RequestsKept' /\ AnswersKept'
  BY DEF OrderKept, RequestsKept, AnswersKept
<1>2. StreamKept'
  BY DEF OrderKept, StreamKept, Served, Awaited, AtRequestLine, AtHeader, AtBody, AtRoute
<1> QED
  BY <1>1, <1>2 DEF OrderKept

LEMMA FinishOrder ==
    ASSUME ConnectionInv, OrderKept, NEW response \in calculating, Finish(response)
    PROVE  OrderKept'
<1>1. /\ calculating' = calculating \ {response} /\ done' = Append(done, response)
      /\ UNCHANGED <<script, asked, net, input, received, output, handler, responder, handled>>
  BY DEF Finish, client
<1>2. response \in Nat \ {0} /\ done \in Seq(Nat \ {0})
  <2>1. response \in Pending
    BY DEF Pending
  <2> QED
    BY <2>1, HandledType DEF ConnectionInv, PendingAreCalculations, TypeInv
<1>3. Range(done') = Range(done) \cup {response}
  BY <1>1, <1>2, AppendRange
<1>4. Unanswered' = Unanswered
  BY <1>1, <1>3 DEF Unanswered
<1>5. OutputKept'
  BY <1>1 DEF OrderKept, OutputKept
<1> QED
  BY <1>1, <1>4, <1>5, MovesOrder

LEMMA ResponderTakesOrder ==
    ASSUME ConnectionInv, OrderKept, ResponderTakes
    PROVE  OrderKept'
<1>1. /\ responder.at = "idle" /\ done # << >>
      /\ responder' = [at |-> "head", response |-> Head(done)] /\ done' = Tail(done)
      /\ UNCHANGED <<script, asked, net, input, received, output, handler, calculating, handled>>
  BY DEF ResponderTakes, client
<1>2. done \in Seq(Nat \ {0}) /\ Distinct(0, done)
  BY DEF ConnectionInv, TypeInv, OnePlace
<1>3. Head(done) \in Nat \ {0}
  BY <1>1, <1>2
<1>4. Range(done') = Range(done) \ {Head(done)} /\ Head(done) \in Range(done)
  BY <1>1, <1>2, <1>3, DistinctTail
<1>5. Unanswered' = Unanswered
  BY <1>1, <1>4 DEF Unanswered
<1>6. OutputKept'
  BY <1>1 DEF OrderKept, OutputKept
<1> QED
  BY <1>1, <1>5, <1>6, MovesOrder

LEMMA ResponderDeletesOrder ==
    ASSUME OrderKept, ResponderDeletes
    PROVE  OrderKept'
<1>1. /\ responder.at = "delete" /\ responder'.at = "idle"
      /\ UNCHANGED <<script, asked, net, input, received, output, handler, calculating, done,
                     handled>>
  BY DEF ResponderDeletes, client
<1>2. Unanswered' = Unanswered
  BY <1>1 DEF Unanswered
<1>3. OutputKept'
  BY <1>1 DEF OrderKept, OutputKept
<1> QED
  BY <1>1, <1>2, <1>3, MovesOrder

(* The responder sends the answer to the last request; where the handler   *)
(* has closed the connection, nothing more arrives.                        *)
LEMMA ResponderSendsOrder ==
    ASSUME ConnectionInv, OrderKept, ~TwoWriters, ResponderSends
    PROVE  OrderKept'
<1> DEFINE n == Len(handled)
<1>1. /\ TypeInv /\ responder.at \in {"head", "body", "write", "clear"}
      /\ UNCHANGED <<script, asked, net, input, handler, calculating, done, handled>>
  BY DEF ConnectionInv, ResponderSends, ResponderAt, client
<1>2. /\ responder.response \notin calculating \cup Range(done)
      /\ handler.at \notin {"head", "body of page", "write", "clear"}
  <2>1. responder.response \in Pending
    BY <1>1 DEF Pending
  <2>2. handler.at \notin Answering
    BY <2>1, OneWriter
  <2> QED
    BY <1>1, <2>2 DEF ConnectionInv, OnePlace, Answering
<1>3. /\ responder.at = "head" => responder'.at = "body"
      /\ responder.at = "body" => responder'.at = "write"
      /\ responder.at = "write" => responder'.at = "clear"
      /\ responder.at = "clear" => responder'.at = "delete"
      /\ responder'.response = responder.response
  BY <1>1 DEF ResponderSends, ResponderAt, TypeInv
<1>4. ASSUME responder.at # "clear"
      PROVE  /\ n \in Nat /\ n > 0 /\ responder.response = n /\ handled # << >>
             /\ asked = n /\ received = Transcript(n - 1) /\ Unanswered \subseteq {n}
  <2>1. responder.response \in Unanswered
    BY <1>1, <1>4 DEF Unanswered
  <2>2. /\ responder.response = n /\ handled # << >>
        /\ asked = n /\ received = Transcript(n - 1) /\ Unanswered \subseteq {n}
    BY <2>1 DEF OrderKept, AnswersKept
  <2>3. n \in Nat /\ n \in 1 .. n
    BY <1>1, <2>2, HandledType
  <2>4. n > 0
    BY <2>3
  <2> QED
    BY <2>2, <2>3, <2>4
<1>5. CASE responder.at = "head"
  <2>1. output = << >> /\ output' = Append(output, <<n, "head">>) /\ received' = received
    BY <1>2, <1>4, <1>5, NoneAtWriters DEF ResponderSends, ResponderAt, PutHead
  <2>2. output' = <<<<n, "head">>>>
    BY <1>4, <1>5, <2>1, AnswerPut
  <2>3. OutputKept'
    BY <1>1, <1>2, <1>3, <1>5, <2>2 DEF OutputKept
  <2>4. Unanswered' = Unanswered
    BY <1>1, <1>3, <1>5 DEF Unanswered
  <2> QED
    BY <1>1, <2>1, <2>3, <2>4, MovesOrder
<1>6. CASE responder.at = "body"
  <2>1. /\ output = <<<<n, "head">>>> /\ output' = Append(output, <<n, "body">>)
        /\ received' = received
    BY <1>4, <1>6 DEF ResponderSends, ResponderAt, PutBody, OrderKept, OutputKept
  <2>2. output' = Answer(n)
    BY <1>4, <1>6, <2>1, AnswerPut
  <2>3. OutputKept'
    BY <1>1, <1>2, <1>3, <1>6, <2>2 DEF OutputKept, Answer
  <2>4. Unanswered' = Unanswered
    BY <1>1, <1>3, <1>6 DEF Unanswered
  <2> QED
    BY <1>1, <2>1, <2>3, <2>4, MovesOrder
<1>7. CASE responder.at = "write"
  <2>1. /\ output = Answer(n) /\ output' = output
        /\ received' \in {received, Join(received, output)}
    BY <1>7 DEF ResponderSends, ResponderAt, Write, OrderKept, OutputKept, Answer, Join
  <2>2. OutputKept'
    BY <1>1, <1>2, <1>3, <1>7, <2>1 DEF OutputKept
  <2>3. Unanswered' = {}
    <3>1. Unanswered' = calculating \cup Range(done)
      BY <1>1, <1>2, <1>3, <1>7 DEF Unanswered
    <3>2. calculating \cup Range(done) \subseteq {n}
      BY <1>4, <1>7 DEF Unanswered
    <3> QED
      BY <1>2, <1>4, <1>7, <3>1, <3>2
  <2>4. received' = received \/ received' = Transcript(n)
    <3>1. n - 1 \in Nat /\ n - 1 + 1 = n
      BY <1>4, <1>7
    <3>2. Join(Transcript(n - 1), Answer(n)) = Transcript(n)
      BY <3>1, TranscriptGrows
    <3> QED
      BY <1>4, <1>7, <2>1, <3>2
  <2>5. AnswersKept'
    BY <1>1, <1>4, <1>7, <2>3, <2>4 DEF AnswersKept
  <2>6. RequestsKept'
    BY <1>1 DEF OrderKept, RequestsKept
  <2>7. StreamKept'
    BY <1>1 DEF OrderKept, StreamKept, Served, Awaited, AtRequestLine, AtHeader, AtBody, AtRoute
  <2> QED
    BY <2>2, <2>5, <2>6, <2>7 DEF OrderKept
<1>8. CASE responder.at = "clear"
  <2>1. output' = << >> /\ received' = received
    BY <1>8 DEF ResponderSends, ResponderAt, Clear
  <2>2. OutputKept'
    BY <1>1, <1>2, <1>3, <1>8, <2>1 DEF OutputKept
  <2>3. Unanswered' = Unanswered
    BY <1>1, <1>3, <1>8 DEF Unanswered
  <2> QED
    BY <1>1, <2>1, <2>2, <2>3, MovesOrder
<1> QED
  BY <1>1, <1>5, <1>6, <1>7, <1>8

----
LEMMA OrderInitial == Init => OrderInv
<1> SUFFICES ASSUME Init PROVE OrderKept
  BY DEF OrderInv
<1>1. /\ handled = << >> /\ asked = 0 /\ received = << >> /\ input = << >> /\ net = << >>
      /\ output = << >> /\ calculating = {} /\ done = << >>
      /\ responder.at = "idle" /\ handler.at = "request line"
  BY DEF Init
<1>2. Len(handled) = 0 /\ DOMAIN handled = {}
  <2>1. Len(<< >>) = 0 /\ DOMAIN << >> = {}
    BY EmptySeq
  <2> QED
    BY <1>1, <2>1
<1>3. RequestsKept
  BY <1>1, <1>2 DEF RequestsKept
<1>4. received = Transcript(Len(handled))
  <2>1. Len(Transcript(0)) = 0 /\ Transcript(0) \in Seq(Parts)
    BY TranscriptIs
  <2> QED
    BY <1>1, <1>2, <2>1, EmptySeq
<1>5. Unanswered = {}
  BY <1>1, DistinctEmpty DEF Unanswered
<1>6. OutputKept
  BY <1>1 DEF OutputKept
<1>7. StreamKept
  BY <1>1, <1>2 DEF StreamKept
<1> QED
  BY <1>3, <1>4, <1>5, <1>6, <1>7 DEF OrderKept, AnswersKept

(* What makes a client's segments whole and its buffer have one writer     *)
(* now, made it so before.                                                 *)
LEMMA MannerlyBefore ==
    ASSUME TypeInv, [Next]_vars, Mannerly'
    PROVE  Mannerly
<1>1. manners' = manners
  BY DEF Next, HandlerSteps, ResponderSteps, vars, client, Ask, Leave, CallRecv, Receive,
         PeerDisconnected, ReadFails, ParseRequestLine, ParseHeader, ReadBody, Route,
         HandlerSends, AfterRequest, Close, ResponderTakes, ResponderSends, ResponderAt,
         ResponderDeletes, Finish
<1>2. whole' => whole
  BY DEF Next, HandlerSteps, ResponderSteps, vars, client, Ask, Leave, CallRecv, Receive,
         PeerDisconnected, ReadFails, ParseRequestLine, ParseHeader, ReadBody, Route,
         HandlerSends, AfterRequest, Close, ResponderTakes, ResponderSends, ResponderAt,
         ResponderDeletes, Finish
<1>3. handled' = handled \/ handled' = Append(handled, handler.request)
  BY DEF Next, HandlerSteps, ResponderSteps, vars, client, Ask, Leave, CallRecv, Receive,
         PeerDisconnected, ReadFails, ParseRequestLine, ParseHeader, ReadBody, Route,
         HandlerSends, AfterRequest, Close, ResponderTakes, ResponderSends, ResponderAt,
         ResponderDeletes, Finish
<1>4. ~TwoWriters' => ~TwoWriters
  <2>1. handled' = handled => TwoWriters' = TwoWriters
    BY DEF TwoWriters
  <2> QED
    BY <1>3, <2>1, OneMoreHandled
<1> QED
  BY <1>1, <1>2, <1>4 DEF Mannerly

LEMMA OrderStep == ConnectionInv /\ OrderInv /\ [Next]_vars => OrderInv'
<1> SUFFICES ASSUME ConnectionInv, OrderInv, [Next]_vars, Mannerly'
             PROVE  OrderKept'
  BY DEF OrderInv
<1>1. TypeInv /\ Mannerly
  BY MannerlyBefore DEF ConnectionInv
<1>2. OrderKept /\ manners.waits /\ ~TwoWriters /\ whole'
  BY <1>1 DEF OrderInv, Mannerly
<1>3. CASE Ask
  BY <1>1, <1>2, <1>3, AskOrder
<1>4. CASE Leave \/ UNCHANGED vars
  <2>1. UNCHANGED <<script, asked, net, input, received, output, handler, responder,
                    calculating, done, handled>>
    BY <1>4 DEF Leave, vars, client
  <2> QED
    BY <1>2, <2>1, NothingMoves
<1>5. CASE HandlerSteps
  <2>1. CASE \/ CallRecv \/ Receive \/ PeerDisconnected \/ ReadFails \/ ParseRequestLine
             \/ ParseHeader \/ ReadBody
    BY <1>1, <1>2, <2>1, ReadStepsOrder
  <2>2. CASE Route \/ HandlerSends \/ AfterRequest \/ Close
    BY <1>1, <1>2, <2>2, RouteOrder, HandlerSendsOrder, AfterRequestOrder
  <2> QED
    BY <1>5, <2>1, <2>2 DEF HandlerSteps
<1>6. CASE ResponderSteps
  BY <1>2, <1>6, ResponderTakesOrder, ResponderSendsOrder, ResponderDeletesOrder
     DEF ResponderSteps
<1>7. CASE \E response \in calculating : Finish(response)
  BY <1>2, <1>7, FinishOrder
<1> QED
  BY <1>3, <1>4, <1>5, <1>6, <1>7 DEF Next

(* What a mannerly client has asked, what is left of it in the stream and  *)
(* the buffers, and what it has got, fit together at every moment.         *)
THEOREM OrderInvariant == Spec => []OrderInv
<1>1. ConnectionInv /\ OrderInv /\ [Next]_vars => (ConnectionInv /\ OrderInv)'
  BY ConnectionStep, OrderStep
<1>2. Init => ConnectionInv /\ OrderInv
  BY ConnectionInitial, OrderInitial
<1> QED
  BY <1>1, <1>2, PTL DEF Spec

(* A client that waits for each answer before it asks more, whose lines    *)
(* arrive whole, and that asks no page after a calculation, gets the parts *)
(* of its answers in the order of its requests, none twice and nothing     *)
(* between them; and the server answers what was asked.                    *)
THEOREM AnswersKeepOrder == Spec => []AnswersInOrder
<1>1. ConnectionInv /\ OrderInv => AnswersInOrder
  <2> SUFFICES ASSUME ConnectionInv, OrderKept PROVE AnswersInOrder
    BY DEF OrderInv, Mannerly, AnswersInOrder
  <2> DEFINE n == Len(handled)
  <2>1. n \in Nat /\ DOMAIN handled = 1 .. n /\ (handled # << >> => n \in 1 .. n)
    BY HandledType DEF ConnectionInv
  <2>2. asked \in {n, n + 1} /\ \A k \in DOMAIN handled : handled[k] = Parsed(script[k])
    BY DEF OrderKept, RequestsKept
  <2>3. \E m \in Nat : received = Transcript(m)
    <3>1. handled # << >> => n - 1 \in Nat
      BY <2>1
    <3> QED
      BY <2>1, <3>1 DEF OrderKept, AnswersKept
  <2>4. \A k \in DOMAIN received : received[k] = PartOf(k)
    BY <2>3, TranscriptIs
  <2> HIDE DEF n
  <2>5. \A k \in DOMAIN handled : k <= asked
    BY <2>1, <2>2
  <2> QED
    BY <2>2, <2>4, <2>5 DEF AnswersInOrder, Parsed, PartOf
<1>2. Spec => []ConnectionInv /\ []OrderInv
  BY ConnectionInvariant, OrderInvariant
<1> QED
  BY <1>1, <1>2, PTL

====
