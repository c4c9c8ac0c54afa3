---- MODULE ClientConnection ----
(***************************************************************************)
(* One client's connection: what the thread of HttpConnectionHandler and   *)
(* that of ClientResponder do with a socket that they share.               *)
(*                                                                         *)
(*   client -> net -> input -> handler -> output -> client                 *)
(*                                |                   ^                    *)
(*                                v                   |                    *)
(*                            calculating -> done -> responder             *)
(*                                                                         *)
(* The handler reads requests while there are valid ones, and answers      *)
(* pages itself.  Requests for calculations leave for the production line, *)
(* which finishes them in any order (ProductionLine models it).  Nothing   *)
(* protects the socket: its output buffer and its descriptor are shared.   *)
(***************************************************************************)
EXTENDS SocketStream, FiniteSets

CONSTANTS
    Scripts,  \* what clients ask: sequences of requests
    Manners   \* of clients: records [waits, patient] of Booleans

Words == STRING \ {"CR", "NL"}  \* in a request; a line has its ends from the client

ASSUME ScriptsAssumption ==
    \A s \in Scripts :
        s \in Seq([uri : Words, minor : Words, agent : BOOLEAN, length : Words])

VARIABLES
    script, manners,  \* the client's: it waits for each answer before it asks
                      \* more, or not; it is patient if it awaits all answers
    asked,      \* how many requests of the script it has sent
    over,       \* it has ended its side of the connection
    net,        \* what it has sent and the server has not received
    received,   \* the parts of responses that it got
    descriptor, \* socketFileDescriptor: "open" or "closed"
    input, output, \* buffers of the SharedSocket
    handler, responder, \* the threads
    receiving,  \* the handler has called recv(), which keeps the connection that it
                \* was called for: it returns when something comes, or the end
    calculating, done,  \* ConcurrentData in the production line, and in the
                        \* queue of the responder
    handled,    \* requests that were routed: a response names its request by
                \* its place here
    astray,     \* responses that were sent when the descriptor was closed
    whole       \* no segment has ended within a line, or had a body in it

client == <<script, manners, asked, over>>
vars == <<script, manners, asked, over, net, received, descriptor, input, output,
          handler, responder, calculating, done, handled, astray, receiving, whole>>

---------------------------------------------------------------------------
(* Requests: records [uri, minor, agent, length] *)

\* The values of Content-Length that are numbers, and none: no such line, or no value.
Sizes == [length \in {"0", "2"} |-> IF length = "0" THEN 0 ELSE 2]
NoLength == "none"

Message(request) ==
    <<"GET", request.uri, "HTTP/1.", request.minor, "CR", "NL">>
    \o (IF request.agent THEN <<"User-Agent:", "web", "browser", "CR", "NL">> ELSE << >>)
    \o (IF request.length = NoLength THEN << >>
        ELSE <<"Content-Length:", request.length, "CR", "NL">>)
    \o <<"CR", "NL">>
    \o (IF request.length \in DOMAIN Sizes
        THEN [k \in 1 .. Sizes[request.length] |-> "x"]
        ELSE << >>)

HasColon(line) == \E k \in DOMAIN line : line[k] \in {"User-Agent:", "Content-Length:"}

HomeHandles(request) == request.method = "GET" /\ request.uri = "/"
CalcHandles(request) == request.uri \in {"/fact/12", "/fact/x"}

\* The first application of the chain that handles a request; a calculation
\* without numbers is answered at once, as pages are.
App(request) ==
    CASE HomeHandles(request) -> "home"
      [] CalcHandles(request) -> IF request.uri = "/fact/x" THEN "no numbers" ELSE "calculation"
      [] OTHER -> "not found"

IsOld(request) == request.version = <<"HTTP/1.", "0">>

---------------------------------------------------------------------------

Init ==
    /\ script \in Scripts /\ manners \in Manners
    /\ asked = 0 /\ over = FALSE
    /\ net = << >> /\ received = << >>
    /\ descriptor = "open"
    /\ input = << >> /\ output = << >>
    /\ handler = [at |-> "request line", request |-> << >>, length |-> NoLength, missing |-> 0]
    /\ responder = [at |-> "idle", response |-> 0]
    /\ receiving = FALSE
    /\ calculating = {} /\ done = << >>
    /\ handled = << >> /\ astray = {}
    /\ whole = TRUE

\* Responses that hold a copy of the socket: those of ConcurrentData.
Pending ==
    calculating \cup Range(done) \cup (IF responder.at = "idle" THEN {} ELSE {responder.response})

---------------------------------------------------------------------------
(* The client *)

Answers == Cardinality({k \in DOMAIN received : received[k][2] = "body"})

Ask ==
    /\ asked < Len(script)
    /\ ~over
    /\ manners.waits => Answers >= asked
    /\ net' = net \o Message(script[asked + 1])
    /\ asked' = asked + 1
    /\ UNCHANGED <<script, manners, over, received, descriptor, input, output, handler,
                   responder, calculating, done, handled, astray, receiving, whole>>

Leave ==
    /\ asked = Len(script)
    /\ ~over
    /\ manners.patient => Answers >= asked
    /\ over' = TRUE
    /\ UNCHANGED <<script, manners, asked, net, received, descriptor, input, output, handler,
                   responder, calculating, done, handled, astray, receiving, whole>>

---------------------------------------------------------------------------
(* The handler reads *)

(* Faulty variant: what cannot be parsed closes the connection.            *)
QuitAndClose == handler' = [handler EXCEPT !.at = "gone"] /\ descriptor' = "closed"

\* consume() ends: the last copy of a socket closes it, when it is destroyed.
Quit ==
    /\ handler' = [handler EXCEPT !.at = "gone"]
    /\ descriptor' = IF Pending = {} THEN "closed" ELSE descriptor

GoTo(place) == handler' = [handler EXCEPT !.at = place] /\ UNCHANGED descriptor

WaitsForBytes ==
    \/ handler.at \in {"request line", "header"} /\ input = << >>
    \/ handler.at = "body"

\* readAvailable(): receive(), where readLine() finds nothing in the buffer, or read().
CallRecv ==
    /\ WaitsForBytes
    /\ ~receiving /\ descriptor = "open"
    /\ receiving' = TRUE
    /\ UNCHANGED <<client, net, received, descriptor, input, output, handler, responder,
                   calculating, done, handled, astray, whole>>

\* receive() has bytes.
Receive ==
    /\ handler.at \in {"request line", "header"}
    /\ input = << >> /\ receiving
    /\ receiving' = FALSE
    /\ \E segment \in Segments(net, Len(net)) :
          /\ input' = segment
          /\ net' = After(net, segment)
          /\ whole' = (whole /\ Last(segment) = "NL" /\ "x" \notin Range(segment))
    /\ UNCHANGED <<client, received, descriptor, output, handler, responder, calculating, done,
                   handled, astray>>

\* The end of the stream: readAvailable() closes.
PeerDisconnected ==
    /\ WaitsForBytes /\ receiving
    /\ net = << >> /\ over
    /\ receiving' = FALSE
    /\ descriptor' = "closed"
    /\ handler' = [handler EXCEPT !.at = "gone"]
    /\ UNCHANGED <<client, net, received, input, output, responder, calculating, done, handled,
                   astray, whole>>

\* A send of no bytes closed the socket, see Write, before recv() was called.
ReadFails ==
    /\ WaitsForBytes
    /\ ~receiving /\ descriptor = "closed"
    /\ Quit
    /\ UNCHANGED <<client, net, received, input, output, responder, calculating, done, handled,
                   astray, receiving, whole>>

ParseRequestLine ==
    /\ handler.at = "request line"
    /\ input # << >>
    /\ input' = AfterLine(input)
    /\ LET words == WithoutCR(FirstLine(input))
       IN  IF Len(words) < 3 THEN Quit
           ELSE /\ handler' = [handler EXCEPT !.at = "header", !.length = NoLength,
                                   !.request = [method |-> words[1], uri |-> words[2],
                                                version |-> SubSeq(words, 3, Len(words))]]
                /\ UNCHANGED descriptor
    /\ UNCHANGED <<client, net, received, output, responder, calculating, done, handled,
                   astray, receiving, whole>>

\* The end of the header: parseBody() follows.  A length that is no number is an
\* error, and reading a body of no bytes fails as the end of the stream does.
EndHeader ==
    IF handler.length = NoLength THEN GoTo("route")
    ELSE IF handler.length \notin DOMAIN Sizes \/ Sizes[handler.length] = 0 THEN Quit
    ELSE handler' = [handler EXCEPT !.at = "body", !.missing = Sizes[handler.length]]
         /\ UNCHANGED descriptor

ParseHeader ==
    /\ handler.at = "header"
    /\ input # << >>
    /\ input' = AfterLine(input)
    /\ LET line == WithoutCR(FirstLine(input))
       IN  IF line = << >> THEN EndHeader
           ELSE IF ~HasColon(line) THEN Quit
           ELSE /\ handler' = IF line[1] # "Content-Length:" THEN handler
                              ELSE [handler EXCEPT !.length =
                                        IF Len(line) > 1 THEN line[2] ELSE NoLength]
                /\ UNCHANGED descriptor
    /\ UNCHANGED <<client, net, received, output, responder, calculating, done, handled,
                   astray, receiving, whole>>

\* read() takes the body from the connection, whatever the buffer has of it.
ReadBody ==
    /\ handler.at = "body" /\ receiving
    /\ receiving' = FALSE
    /\ \E segment \in Segments(net, handler.missing) :
          /\ net' = After(net, segment)
          /\ handler' = [handler EXCEPT !.missing = @ - Len(segment),
                             !.at = IF Len(segment) = handler.missing THEN "route" ELSE "body"]
    /\ UNCHANGED <<client, received, descriptor, input, output, responder, calculating, done,
                   handled, astray, whole>>

---------------------------------------------------------------------------
(* The handler answers *)

\* route(), and handleHttpRequest() or createConcurrentData() of the application.
Route ==
    /\ handler.at = "route"
    /\ handled' = Append(handled, handler.request)
    /\ IF App(handler.request) = "calculation"
       THEN calculating' = calculating \cup {Len(handled')} /\ GoTo("after")
       ELSE GoTo("head") /\ UNCHANGED calculating
    /\ UNCHANGED <<client, net, received, input, output, responder, done, astray, receiving,
                   whole>>

(* Faulty variant: the connection is closed after every response.          *)
CloseAfterEach ==
    /\ handler.at = "after"
    /\ GoTo("close")
    /\ UNCHANGED <<client, net, received, input, output, responder, calculating, done, handled,
                   astray, receiving, whole>>

\* The connection stays open, except with HTTP/1.0.
AfterRequest ==
    /\ handler.at = "after"
    /\ GoTo(IF IsOld(handler.request) THEN "close" ELSE "request line")
    /\ UNCHANGED <<client, net, received, input, output, responder, calculating, done, handled,
                   astray, receiving, whole>>

\* The other thread may still have a response to send.
Close ==
    /\ handler.at = "close"
    /\ descriptor' = "closed"
    /\ handler' = [handler EXCEPT !.at = "gone"]
    /\ UNCHANGED <<client, net, received, input, output, responder, calculating, done, handled,
                   astray, receiving, whole>>

---------------------------------------------------------------------------
(* HttpResponse::send(), by either thread, for the response to a request *)

PutHead(response) == output' = Append(output, <<response, "head">>)
PutBody(response) == output' = Append(output, <<response, "body">>)

\* Socket::send() writes a copy of the buffer.  Once the descriptor is closed that
\* fails, or goes to a new connection while the field has the old number; and a
\* copy of nothing is sent with the result 0, which is taken for a disconnection.
Write(response) ==
    IF descriptor = "closed"
    THEN astray' = astray \cup {response} /\ UNCHANGED <<received, descriptor>>
    ELSE /\ received' = received \o output
         /\ descriptor' = IF output = << >> THEN "closed" ELSE descriptor
         /\ UNCHANGED astray

(* Faulty variant: what was sent stays in the buffer.                      *)
ClearNothing == UNCHANGED output

\* A failed write() returns -1, which as a size is enough to clear the buffer.
Clear == output' = << >>

HandlerSends ==
    \/ /\ handler.at = "head" /\ PutHead(Len(handled)) /\ GoTo("body of page")
       /\ UNCHANGED <<client, net, received, input, responder, calculating, done, handled,
                      astray, receiving, whole>>
    \/ /\ handler.at = "body of page" /\ PutBody(Len(handled)) /\ GoTo("write")
       /\ UNCHANGED <<client, net, received, input, responder, calculating, done, handled,
                      astray, receiving, whole>>
    \/ /\ handler.at = "write" /\ Write(Len(handled)) /\ handler' = [handler EXCEPT !.at = "clear"]
       /\ UNCHANGED <<client, net, input, output, responder, calculating, done, handled,
                      receiving, whole>>
    \/ /\ handler.at = "clear" /\ Clear /\ GoTo("after")
       /\ UNCHANGED <<client, net, received, input, responder, calculating, done, handled,
                      astray, receiving, whole>>

---------------------------------------------------------------------------
(* Calculations, and the ClientResponder *)

\* The production line has all results of a request.
Finish(response) ==
    /\ response \in calculating
    /\ calculating' = calculating \ {response}
    /\ done' = Append(done, response)
    /\ UNCHANGED <<client, net, received, descriptor, input, output, handler, responder,
                   handled, astray, receiving, whole>>

ResponderTakes ==
    /\ responder.at = "idle"
    /\ done # << >>
    /\ responder' = [at |-> "head", response |-> Head(done)]
    /\ done' = Tail(done)
    /\ UNCHANGED <<client, net, received, descriptor, input, output, handler, calculating,
                   handled, astray, receiving, whole>>

ResponderAt(place, next) ==
    /\ responder.at = place
    /\ responder' = [responder EXCEPT !.at = next]
    /\ UNCHANGED <<client, net, input, handler, calculating, done, handled, receiving, whole>>

ResponderSends ==
    \/ /\ ResponderAt("head", "body") /\ PutHead(responder.response)
       /\ UNCHANGED <<received, astray, descriptor>>
    \/ /\ ResponderAt("body", "write") /\ PutBody(responder.response)
       /\ UNCHANGED <<received, astray, descriptor>>
    \/ /\ ResponderAt("write", "clear") /\ Write(responder.response)
       /\ UNCHANGED output
    \/ /\ ResponderAt("clear", "delete") /\ Clear
       /\ UNCHANGED <<received, astray, descriptor>>

(* Faulty variant: the responder leaves the ConcurrentData, and with it a  *)
(* copy of the socket, where it is.                                        *)
ResponderForgets ==
    /\ responder.at = "delete"
    /\ responder' = [at |-> "idle", response |-> 0]
    /\ UNCHANGED <<client, net, received, descriptor, input, output, handler, calculating, done,
                   handled, astray, receiving, whole>>

\* Deletes the ConcurrentData, maybe with the last copy of the socket.
ResponderDeletes ==
    /\ responder.at = "delete"
    /\ responder' = [at |-> "idle", response |-> 0]
    /\ descriptor' = IF handler.at = "gone" /\ calculating = {} /\ done = << >> THEN "closed"
                     ELSE descriptor
    /\ UNCHANGED <<client, net, received, input, output, handler, calculating, done, handled,
                   astray, receiving, whole>>

---------------------------------------------------------------------------

HandlerSteps ==
    \/ CallRecv \/ Receive \/ PeerDisconnected \/ ReadFails \/ ReadBody
    \/ ParseRequestLine \/ ParseHeader \/ Route \/ HandlerSends \/ AfterRequest \/ Close

ResponderSteps == ResponderTakes \/ ResponderSends \/ ResponderDeletes

Next ==
    \/ Ask \/ Leave
    \/ HandlerSteps \/ ResponderSteps
    \/ \E response \in calculating : Finish(response)

Spec == Init /\ [][Next]_vars

\* The threads are scheduled, what is sent arrives, and calculations end.  The
\* client does what it wants.
FairSpec ==
    /\ Spec
    /\ WF_vars(HandlerSteps) /\ WF_vars(ResponderSteps)
    /\ WF_vars(\E response \in calculating : Finish(response))

---------------------------------------------------------------------------
(* Properties *)

(* Each response that is due is at one place, and the descriptor is open   *)
(* no longer than a thread or a response needs it: no connection is leaked *)
(* (Socket: "The file will be closed when last copy is destroyed").        *)
TypeOK ==
    /\ script \in Scripts /\ manners \in Manners
    /\ asked \in 0 .. Len(script)
    /\ descriptor \in {"open", "closed"}
    /\ Pending \subseteq 1 .. Len(handled)
    /\ Cardinality(Pending) = Cardinality(calculating) + Len(done)
                                + (IF responder.at = "idle" THEN 0 ELSE 1)
    /\ descriptor = "open" => handler.at # "gone" \/ Pending # {}

\* A page was answered after a calculation: the handler may have written it while
\* the responder was still to clear the buffer, even where the client had waited
\* for the answer.  Then either may be sent twice, in parts, or not.
TwoWriters ==
    \E j, k \in DOMAIN handled :
        j < k /\ App(handled[j]) = "calculation" /\ App(handled[k]) # "calculation"

(* A client that waits for each answer before it asks more, whose lines    *)
(* arrive whole, and that asks no page after a calculation, gets the parts *)
(* of its answers in the order of its requests, none twice and nothing     *)
(* between them; and the server answers what was asked.                    *)
AnswersInOrder ==
    manners.waits /\ whole /\ ~TwoWriters =>
        /\ \A k \in DOMAIN handled :
              /\ k <= asked
              /\ handled[k] = [method |-> "GET", uri |-> script[k].uri,
                               version |-> <<"HTTP/1.", script[k].minor>>]
        /\ \A k \in DOMAIN received :
              received[k] = <<(k + 1) \div 2, IF k % 2 = 1 THEN "head" ELSE "body">>

(* However the client asks, a response goes astray only if it is that of a *)
(* calculation and the connection was closed for one of two reasons: the   *)
(* client had ended its side, or this or a later request was made with     *)
(* HTTP/1.0.  What cannot be parsed does no harm to earlier requests, as   *)
(* HttpConnectionHandler promises ("Do not close the connection yet").     *)
AstrayOnlyByClose ==
    ~TwoWriters =>
        \A response \in astray :
            /\ App(handled[response]) = "calculation"
            /\ over \/ \E k \in response .. Len(handled) : IsOld(handled[k])

\* Requests that the parser can read, of a version that keeps the connection.
Kept == \A k \in DOMAIN script : script[k].minor = "1" /\ script[k].length \in {NoLength, "2"}

(* A patient client that waits for each answer, asks with HTTP/1.1, whose  *)
(* lines arrive whole and that asks no page after a calculation is         *)
(* answered every time, as long as a body arrives after its header and not *)
(* in the same segment: neither thread waits for bytes or for a response   *)
(* that another has taken.                                                 *)
Answered ==
    \A k \in 1 .. 2 :
        manners.waits /\ manners.patient /\ Kept /\ asked >= k
            ~> Answers >= k \/ ~whole \/ TwoWriters

====
