---- MODULE SocketStream ----
(***************************************************************************)
(* Lines out of a stream of bytes, as Socket::readLine() finds them.  TCP  *)
(* delivers what the peer wrote in segments of any length.  A segment is   *)
(* kept in an input buffer, and std::getline() takes lines from it.  The   *)
(* end of the buffer ends a line as well as a separator does, so a line    *)
(* that two segments share is read as two lines.                           *)
(*                                                                         *)
(* A stream is a sequence of tokens: words, "CR" and "NL".                 *)
(***************************************************************************)
EXTENDS Naturals, Sequences, SequencesExt

\* Where the first line of a buffer that is not empty ends.
LineEnd(buffer) ==
    CHOOSE k \in 1 .. Len(buffer) :
        /\ buffer[k] = "NL" \/ k = Len(buffer)
        /\ \A j \in 1 .. k - 1 : buffer[j] # "NL"

\* getline(): the line without its separator, and what stays in the buffer.
FirstLine(buffer) ==
    LET end == LineEnd(buffer)
    IN  SubSeq(buffer, 1, IF buffer[end] = "NL" THEN end - 1 ELSE end)
AfterLine(buffer) == SubSeq(buffer, LineEnd(buffer) + 1, Len(buffer))

\* The trailing "CR", if any, is none of the words: the header removes it, and the
\* request line takes it for a space.
WithoutCR(line) == IF line # << >> /\ Last(line) = "CR" THEN Front(line) ELSE line

\* recv(): what may be received of a stream, at most so many tokens.
Segments(stream, capacity) ==
    {SubSeq(stream, 1, n) : n \in {k \in 1 .. Len(stream) : k <= capacity}}
After(stream, segment) == SubSeq(stream, Len(segment) + 1, Len(stream))

====
