---------------------------- MODULE SourceReader ----------------------------
(***************************************************************************)
(* How execute_query (clickhouse.rs) reads one answer of the server over a  *)
(* fresh connection: the status line, the headers, and a body that is       *)
(* chunked, of a given length, or ends with the connection.  The server, or *)
(* the network, may fall silent (the read times out after 30 s), reset the  *)
(* connection or close it at any moment, and a chunk may end anywhere, in   *)
(* the middle of a character included.                                      *)
(*                                                                          *)
(* Bodies are sequences of bytes: characters of one byte, of which "LF" ends *)
(* a line, and "L" and "C" for the two bytes of a longer one.               *)
(***************************************************************************)
EXTENDS Integers, SequencesExt

CONSTANTS OneByte,    \* the characters of one byte
          Body,       \* the answers the server may give
          Framing     \* how it may frame them

Byte == OneByte \cup {"L", "C"}

\* An L has its C behind it and a C its L before it.
WellFormed(s) ==
  \A i \in DOMAIN s : /\ s[i] = "L" => i < Len(s) /\ s[i + 1] = "C"
                      /\ s[i] = "C" => i > 1 /\ s[i - 1] = "L"

ASSUME ReaderAssumption ==
  /\ OneByte \cap {"L", "C", "?"} = {}
  /\ \A b \in Body : b \in Seq(Byte) /\ WellFormed(b)
  /\ Framing \subseteq {"chunked", "length", "close"}

VARIABLES body,       \* the answer the server gives
          framing,    \* how it frames it
          pc,         \* where the reader is
          unread,     \* what it has not read of the body
          chunk,      \* the size of the chunk it is reading
          response,   \* what it has collected
          cut,        \* has the connection failed
          torn,       \* has a chunk ended inside a character
          result      \* what execute_query returns

Drop(s, n) == SubSeq(s, n + 1, Len(s))

given == <<body, framing>>
vars == <<given, pc, unread, chunk, response, cut, torn, result>>

Pc == {"connect", "status", "headers", "body", "chunk", "returned"}

TypeOK ==
  /\ body \in Body /\ framing \in Framing
  /\ pc \in Pc
  /\ \E n \in 0..Len(body) : unread = Drop(body, n)
  /\ chunk \in 0..Len(unread)
  /\ response \in Seq(Byte \cup {"?"})
  /\ cut \in BOOLEAN /\ torn \in BOOLEAN
  /\ result \in {"none", "ok", "err"}

-----------------------------------------------------------------------------
\* from_utf8_lossy: bytes that are no character become replacement characters.
Lossy(s) ==
  [i \in DOMAIN s |->
     IF \/ s[i] = "L" /\ (i = Len(s) \/ s[i + 1] # "C")
        \/ s[i] = "C" /\ (i = 1 \/ s[i - 1] # "L")
     THEN "?" ELSE s[i]]

\* The bytes that one read_line takes.
LineLen(s) ==
  IF "LF" \in ToSet(s) THEN CHOOSE i \in DOMAIN s :
                              s[i] = "LF" /\ \A j \in 1..(i - 1) : s[j] # "LF"
  ELSE Len(s)

-----------------------------------------------------------------------------
Init ==
  /\ body \in Body /\ framing \in Framing
  /\ pc = "connect"
  /\ unread = body /\ chunk = 0 /\ response = <<>>
  /\ cut = FALSE /\ torn = FALSE
  /\ result = "none"

Return(how) == pc' = "returned" /\ result' = how

Goto(place) == pc' = place /\ UNCHANGED result

\* The query is sent, a status line with 200 in it read, then the headers.
Proceeds ==
  /\ \/ pc = "connect" /\ Goto("status")
     \/ pc = "status" /\ Goto("headers")
     \/ pc = "headers" /\ Goto("body")
  /\ UNCHANGED <<given, unread, chunk, response, cut, torn>>

\* Connecting, writing, or a read whose error is passed on; a status line
\* without 200 in it, the empty one at the end of the stream included.  What has
\* ended or failed reads as ended from then on.
Fails ==
  /\ ~ cut
  /\ pc # "returned" /\ ~ (pc = "body" /\ framing = "close")
  /\ cut' = TRUE
  /\ Return("err")
  /\ UNCHANGED <<given, unread, chunk, response, torn>>

\* The stream ends among the headers: read_line yields an empty line, which
\* passes for the end of the headers, with or without that for the framing; a
\* body read until the end of the stream is empty then, a chunked one as well,
\* and one of a given length cannot be read.
HeadersEnd ==
  /\ pc = "headers"
  /\ cut' = TRUE
  /\ \E seenFraming \in BOOLEAN :
       Return(IF seenFraming /\ framing = "length" /\ body # <<>> THEN "err" ELSE "ok")
  /\ UNCHANGED <<given, unread, chunk, response, torn>>

-----------------------------------------------------------------------------
(* The chunked body. *)

ChunkSize ==
  /\ pc = "body" /\ framing = "chunked" /\ ~ cut
  /\ \/ unread # <<>> /\ chunk' \in 1..Len(unread) /\ Goto("chunk")
     \/ unread = <<>> /\ UNCHANGED chunk /\ Return("ok")
  /\ UNCHANGED <<given, unread, response, cut, torn>>

\* Fault: a size line that is no number is skipped, the one at the end of the
\* stream for ever.
chunk_size_skips ==
  /\ pc = "body" /\ framing = "chunked"
  /\ cut' = TRUE
  /\ UNCHANGED <<given, pc, unread, chunk, response, torn, result>>

\* The stream ends where a size should come (or inside the line end before it,
\* whose absence is not noticed): the empty line parses as size 0.
ChunkSizeEnds ==
  /\ pc = "body" /\ framing = "chunked"
  /\ cut' = TRUE
  /\ Return("ok")
  /\ UNCHANGED <<given, unread, chunk, response, torn>>

\* Fault: the chunk is put before what has been read.
chunk_data_prepended ==
  /\ pc = "chunk"
  /\ response' = Lossy(SubSeq(unread, 1, chunk)) \o response
  /\ torn' = (torn \/ ~ WellFormed(SubSeq(unread, 1, chunk)))
  /\ unread' = Drop(unread, chunk) /\ chunk' = 0
  /\ Goto("body")
  /\ UNCHANGED <<given, cut>>

\* Fault: the size of the last chunk stays behind.
chunk_data_keeps_size ==
  /\ pc = "chunk"
  /\ response' = response \o Lossy(SubSeq(unread, 1, chunk))
  /\ torn' = (torn \/ ~ WellFormed(SubSeq(unread, 1, chunk)))
  /\ unread' = Drop(unread, chunk)
  /\ Goto("body")
  /\ UNCHANGED <<given, chunk, cut>>

\* Each chunk is made a text by itself.
ChunkData ==
  /\ pc = "chunk"
  /\ response' = response \o Lossy(SubSeq(unread, 1, chunk))
  /\ torn' = (torn \/ ~ WellFormed(SubSeq(unread, 1, chunk)))
  /\ unread' = Drop(unread, chunk) /\ chunk' = 0
  /\ Goto("body")
  /\ UNCHANGED <<given, cut>>

-----------------------------------------------------------------------------
(* The body of a given length, and the one that ends with the connection. *)

\* Fault: read instead of read_exact.
length_body_short ==
  /\ pc = "body" /\ framing = "length"
  /\ \E n \in 0..Len(unread) : response' = Lossy(SubSeq(unread, 1, n))
  /\ unread' = <<>>
  /\ Return("ok")
  /\ UNCHANGED <<given, chunk, cut, torn>>

LengthBody ==
  /\ pc = "body" /\ framing = "length"
  /\ response' = Lossy(unread) /\ unread' = <<>>
  /\ Return("ok")
  /\ UNCHANGED <<given, chunk, cut, torn>>

\* Fault: a last line without a line end is not one.
close_line_ended ==
  /\ pc = "body" /\ framing = "close"
  /\ \/ /\ "LF" \in ToSet(unread)
        /\ response' = response \o SubSeq(unread, 1, LineLen(unread))
        /\ unread' = Drop(unread, LineLen(unread))
        /\ Goto("body")
     \/ "LF" \notin ToSet(unread) /\ Return("ok") /\ UNCHANGED <<response, unread>>
  /\ UNCHANGED <<given, chunk, cut, torn>>

CloseLine ==
  /\ pc = "body" /\ framing = "close"
  /\ \/ /\ unread # <<>>
        /\ response' = response \o SubSeq(unread, 1, LineLen(unread))
        /\ unread' = Drop(unread, LineLen(unread))
        /\ Goto("body")
     \/ unread = <<>> /\ Return("ok") /\ UNCHANGED <<response, unread>>
  /\ UNCHANGED <<given, chunk, cut, torn>>

\* The stream ends early, in a line of whole characters or between lines, or
\* read_line fails (a timeout, a reset, an end inside a character) and its bytes
\* are dropped: either ends the loop.
CloseEnds ==
  /\ pc = "body" /\ framing = "close"
  /\ cut' = TRUE
  /\ \E n \in 0..LineLen(unread) :
       /\ WellFormed(SubSeq(unread, 1, n))
       /\ response' = response \o SubSeq(unread, 1, n)
       /\ unread' = Drop(unread, n)
  /\ Return("ok")
  /\ UNCHANGED <<given, chunk, torn>>

Next ==
  \/ Proceeds \/ Fails \/ HeadersEnd
  \/ ChunkSize \/ ChunkSizeEnds \/ ChunkData
  \/ LengthBody \/ CloseLine \/ CloseEnds

Spec == Init /\ [][Next]_vars

\* Every read returns, with data, an end or an error: the socket has timeouts.
FairSpec == Spec /\ WF_vars(Next)

-----------------------------------------------------------------------------
\* source.rs:118 "fetch all rows for a table": a query that succeeds has the
\* whole answer of the server.
OkMeansAll == result = "ok" => response = body

\* On a connection that holds, nothing but a chunk that ends inside a character
\* can alter the answer, however it is framed and cut into chunks.
OkMeansAllUnlessCut == (result = "ok" /\ ~ cut /\ ~ torn) => response = body

\* With a content length a cut is always noticed once the headers are through.
LengthNoticesCut ==
  [][(pc = "body" /\ framing = "length" /\ result' = "ok") => response' = body]_vars

\* Whatever happens, what is collected is the beginning of the answer: nothing
\* is doubled, skipped or out of order, but for bytes of torn characters.
NothingInvented ==
  /\ Len(response) <= Len(body)
  /\ \A i \in DOMAIN response : response[i] \in {body[i], "?"}
  /\ ~ torn => "?" \notin ToSet(response)

\* The caller gets an answer in the end, so the sync thread is never stuck here.
QueryReturns == <>(pc = "returned")
=============================================================================
