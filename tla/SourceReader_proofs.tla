------------------------ MODULE SourceReader_proofs ------------------------
(***************************************************************************)
(* What execute_query makes of an answer, for every set of well-formed      *)
(* answers, however long, and every way to frame and to cut them.           *)
(***************************************************************************)
EXTENDS SourceReader, Loops_proofs, TLAPS

-----------------------------------------------------------------------------
(* Parts of texts. *)

\* What is left of a text when n bytes have been read.
LEMMA DropFacts ==
  ASSUME NEW S, NEW s \in Seq(S), NEW n \in 0..Len(s)
  PROVE  /\ Drop(s, n) \in Seq(S)
         /\ Len(Drop(s, n)) = Len(s) - n
         /\ \A i \in 1..(Len(s) - n) : Drop(s, n)[i] = s[n + i]
<1>1. \A i \in (n + 1)..Len(s) : s[i] \in S
  OBVIOUS
<1> QED BY <1>1, SubSeqProperties, Z3 DEF Drop

\* The n bytes themselves.
LEMMA TakeFacts ==
  ASSUME NEW S, NEW s \in Seq(S), NEW n \in 0..Len(s)
  PROVE  /\ SubSeq(s, 1, n) \in Seq(S)
         /\ Len(SubSeq(s, 1, n)) = n
         /\ \A i \in 1..n : SubSeq(s, 1, n)[i] = s[i]
<1>1. \A i \in 1..n : s[i] \in S
  OBVIOUS
<1> QED BY <1>1, SubSeqProperties

\* Reading n bytes and then m leaves what reading n + m does.
LEMMA DropTwice ==
  ASSUME NEW S, NEW s \in Seq(S), NEW n \in 0..Len(s), NEW m \in 0..(Len(s) - n)
  PROVE  Drop(Drop(s, n), m) = Drop(s, n + m)
<1> DEFINE once == Drop(s, n)
           twice == Drop(once, m)
           both == Drop(s, n + m)
<1>1. /\ once \in Seq(S) /\ Len(once) = Len(s) - n
      /\ \A i \in 1..(Len(s) - n) : once[i] = s[n + i]
  BY DropFacts
<1>2. /\ both \in Seq(S) /\ Len(both) = Len(s) - (n + m)
      /\ \A i \in 1..(Len(s) - (n + m)) : both[i] = s[n + m + i]
  <2>1. n + m \in 0..Len(s)
    OBVIOUS
  <2> QED BY <2>1, DropFacts
<1> HIDE DEF once
<1>3. /\ twice \in Seq(S) /\ Len(twice) = Len(s) - n - m
      /\ \A i \in 1..(Len(s) - n - m) : twice[i] = once[m + i]
  <2>1. m \in 0..Len(once)
    BY <1>1
  <2>2. once \in Seq(S) /\ Len(once) = Len(s) - n
    BY <1>1
  <2>3. /\ Drop(once, m) \in Seq(S) /\ Len(Drop(once, m)) = Len(once) - m
        /\ \A i \in 1..(Len(once) - m) : Drop(once, m)[i] = once[m + i]
    BY <2>1, <2>2, DropFacts
  <2> QED BY <2>2, <2>3
<1> HIDE DEF twice, both
<1>4. ASSUME NEW i \in 1..Len(twice) PROVE twice[i] = both[i]
  <2>1. i \in 1..(Len(s) - n - m) /\ m + i \in 1..(Len(s) - n) /\ i \in 1..(Len(s) - (n + m))
    BY <1>3
  <2>2. twice[i] = once[m + i]
    BY <1>3, <2>1
  <2>3. once[m + i] = s[n + (m + i)]
    BY <1>1, <2>1
  <2>4. both[i] = s[n + m + i]
    BY <1>2, <2>1
  <2>5. n + (m + i) = n + m + i
    BY <2>1
  <2> QED BY <2>2, <2>3, <2>4, <2>5
<1>5. Len(twice) = Len(both)
  BY <1>2, <1>3
<1>6. twice = both
  BY <1>2, <1>3, <1>4, <1>5
<1> QED BY <1>6 DEF twice, both, once

\* A line is taken from what there is.
LEMMA LineIsThere ==
  ASSUME NEW s \in Seq(Byte)
  PROVE  LineLen(s) \in 0..Len(s)
<1>1. CASE "LF" \in ToSet(s)
  <2> DEFINE ends == {i \in DOMAIN s : s[i] = "LF"}
  <2>1. ends \in SUBSET Nat /\ ends # {}
    BY <1>1 DEF ToSet
  <2>2. PICK i \in ends : \A j \in ends : i <= j
    BY <2>1, LeastElement
  <2>3. i \in DOMAIN s /\ s[i] = "LF" /\ \A j \in 1..(i - 1) : s[j] # "LF"
    BY <2>2
  <2>4. LineLen(s) \in DOMAIN s
    BY <1>1, <2>3 DEF LineLen
  <2> QED BY <2>4
<1>2. CASE "LF" \notin ToSet(s)
  BY <1>2 DEF LineLen
<1> QED BY <1>1, <1>2

\* Conversion changes bytes of characters that are not whole, into marks.
LEMMA LossyFacts ==
  ASSUME NEW s \in Seq(Byte)
  PROVE  /\ Lossy(s) \in Seq(Byte \cup {"?"})
         /\ Len(Lossy(s)) = Len(s)
         /\ \A i \in 1..Len(s) : Lossy(s)[i] \in {s[i], "?"}
         /\ WellFormed(s) => \A i \in 1..Len(s) : Lossy(s)[i] = s[i]
<1>1. \A i \in 1..Len(s) : Lossy(s)[i] \in {s[i], "?"} /\ Lossy(s)[i] \in Byte \cup {"?"}
  BY DEF Lossy
<1>2. DOMAIN Lossy(s) = 1..Len(s) /\ Lossy(s) \in [1..Len(s) -> Byte \cup {"?"}]
  BY <1>1 DEF Lossy
<1>3. ASSUME WellFormed(s), NEW i \in 1..Len(s) PROVE Lossy(s)[i] = s[i]
  <2>1. DOMAIN s = 1..Len(s)
    OBVIOUS
  <2>2. /\ s[i] = "L" => i < Len(s) /\ s[i + 1] = "C"
        /\ s[i] = "C" => i > 1 /\ s[i - 1] = "L"
    BY <1>3, <2>1 DEF WellFormed
  <2>3. /\ ~(s[i] = "L" /\ (i = Len(s) \/ s[i + 1] # "C"))
        /\ ~(s[i] = "C" /\ (i = 1 \/ s[i - 1] # "L"))
    BY <2>2
  <2> QED BY <2>1, <2>3 DEF Lossy
<1> QED BY <1>1, <1>2, <1>3

-----------------------------------------------------------------------------
(* The inductive invariant: what is collected and what is unread make the   *)
(* answer, but for bytes that a torn chunk has spoilt.                      *)

CollectedOf(b, u, r, t) ==
  /\ r \in Seq(Byte \cup {"?"})
  /\ Len(r) <= Len(b)
  /\ u = Drop(b, Len(r))
  /\ \A i \in 1..Len(r) : r[i] \in {b[i], "?"} /\ (~t => r[i] = b[i])

Collected == CollectedOf(body, unread, response, torn)

\* Before the body nothing has been collected, and an answer of a given length
\* is read at once.
Fresh ==
  /\ pc \in {"connect", "status", "headers"} \/ (pc = "body" /\ framing = "length") => response = <<>>
  /\ pc = "chunk" => framing = "chunked"
  /\ pc \in {"connect", "status", "headers", "body"} => chunk = 0
  /\ result = "none" <=> pc # "returned"

\* A success on a connection that held has left nothing unread.
Complete == result = "ok" /\ ~cut => unread = <<>>

\* The rest of what TypeOK says.
Shape ==
  /\ body \in Body /\ framing \in Framing
  /\ pc \in Pc
  /\ chunk \in 0..Len(unread)
  /\ cut \in BOOLEAN /\ torn \in BOOLEAN
  /\ result \in {"none", "ok", "err"}

IInv == Shape /\ Collected /\ Fresh /\ Complete

\* A piece of what is unread, put behind what is collected.
LEMMA PieceCollected ==
  ASSUME NEW b \in Seq(Byte), NEW r, NEW t \in BOOLEAN, NEW t2 \in BOOLEAN,
         CollectedOf(b, Drop(b, Len(r)), r, t), t => t2,
         NEW n \in 0..(Len(b) - Len(r)), NEW piece \in Seq(Byte \cup {"?"}), Len(piece) = n,
         \A i \in 1..n : /\ piece[i] \in {Drop(b, Len(r))[i], "?"}
                         /\ ~t2 => piece[i] = Drop(b, Len(r))[i]
  PROVE  CollectedOf(b, Drop(Drop(b, Len(r)), n), r \o piece, t2)
<1>1. /\ r \in Seq(Byte \cup {"?"}) /\ Len(r) \in 0..Len(b)
      /\ \A i \in 1..Len(r) : r[i] \in {b[i], "?"} /\ (~t => r[i] = b[i])
  BY DEF CollectedOf
<1>2. /\ r \o piece \in Seq(Byte \cup {"?"})
      /\ Len(r \o piece) = Len(r) + n
      /\ \A i \in 1..(Len(r) + n) : (r \o piece)[i] = IF i <= Len(r) THEN r[i] ELSE piece[i - Len(r)]
  BY <1>1, ConcatProperties
<1>3. Drop(Drop(b, Len(r)), n) = Drop(b, Len(r) + n)
  BY <1>1, DropTwice
<1>4. \A i \in 1..(Len(b) - Len(r)) : Drop(b, Len(r))[i] = b[Len(r) + i]
  BY <1>1, DropFacts
<1>5. ASSUME NEW i \in 1..(Len(r) + n)
      PROVE  (r \o piece)[i] \in {b[i], "?"} /\ (~t2 => (r \o piece)[i] = b[i])
  <2>1. CASE i <= Len(r)
    BY <1>1, <1>2, <2>1
  <2>2. CASE ~(i <= Len(r))
    <3>1. i - Len(r) \in 1..n /\ b[Len(r) + (i - Len(r))] = b[i]
      BY <1>1, <2>2
    <3>2. (r \o piece)[i] = piece[i - Len(r)]
      BY <1>2, <2>2
    <3>3. Drop(b, Len(r))[i - Len(r)] = b[i]
      BY <1>1, <1>4, <3>1
    <3> QED BY <3>1, <3>2, <3>3
  <2> QED BY <2>1, <2>2
<1> QED BY <1>1, <1>2, <1>3, <1>5 DEF CollectedOf

\* Answers are texts of whole characters.
LEMMA BodyIsText ==
  ASSUME IInv
  PROVE  body \in Seq(Byte) /\ WellFormed(body)
  BY ReaderAssumption DEF IInv, Shape

\* What is unread is a text as long as what is missing.
LEMMA UnreadIsText ==
  ASSUME IInv
  PROVE  /\ unread = Drop(body, Len(response))
         /\ unread \in Seq(Byte) /\ Len(unread) = Len(body) - Len(response)
         /\ Len(response) \in 0..Len(body)
<1>1. /\ response \in Seq(Byte \cup {"?"}) /\ Len(response) <= Len(body)
      /\ unread = Drop(body, Len(response))
  BY DEF IInv, Collected, CollectedOf
<1>2. Len(response) \in 0..Len(body) /\ body \in Seq(Byte)
  BY <1>1, BodyIsText
<1> QED BY <1>1, <1>2, DropFacts

LEMMA InvariantIsTyped ==
  ASSUME IInv
  PROVE  TypeOK
  BY UnreadIsText DEF IInv, Shape, Collected, CollectedOf, TypeOK

\* A step that reads n bytes and keeps what it has made of them.
LEMMA PieceStep ==
  ASSUME IInv, UNCHANGED given, torn' \in BOOLEAN, torn => torn',
         NEW n \in 0..Len(unread), NEW piece \in Seq(Byte \cup {"?"}), Len(piece) = n,
         \A i \in 1..n : piece[i] \in {unread[i], "?"} /\ (~torn' => piece[i] = unread[i]),
         response' = response \o piece, unread' = Drop(unread, n)
  PROVE  Collected' /\ Len(unread') = Len(unread) - n
<1>1. /\ unread = Drop(body, Len(response)) /\ Len(unread) = Len(body) - Len(response)
      /\ body \in Seq(Byte) /\ body' = body /\ torn \in BOOLEAN
      /\ CollectedOf(body, Drop(body, Len(response)), response, torn)
  BY UnreadIsText, BodyIsText DEF IInv, Shape, Collected, given
<1>2. CollectedOf(body, Drop(Drop(body, Len(response)), n), response \o piece, torn')
  BY <1>1, PieceCollected
<1>3. Len(unread') = Len(unread) - n
  BY UnreadIsText, DropFacts
<1> QED BY <1>1, <1>2, <1>3 DEF Collected

\* A step that reads nothing.
LEMMA StillCollected ==
  ASSUME IInv, UNCHANGED <<given, unread, response, torn>>
  PROVE  Collected' /\ unread' = unread /\ body' = body /\ framing' = framing
  BY DEF IInv, Collected, given

\* Each byte of a part of the unread text is a byte.
LEMMA PartIsBytes ==
  ASSUME IInv, NEW n \in 0..Len(unread)
  PROVE  /\ SubSeq(unread, 1, n) \in Seq(Byte) /\ SubSeq(unread, 1, n) \in Seq(Byte \cup {"?"})
         /\ Len(SubSeq(unread, 1, n)) = n
         /\ \A i \in 1..n : SubSeq(unread, 1, n)[i] = unread[i]
<1>1. unread \in Seq(Byte) /\ unread \in Seq(Byte \cup {"?"})
  BY UnreadIsText
<1> QED BY <1>1, TakeFacts

LEMMA InitSound ==
  ASSUME Init
  PROVE  IInv
<1>1. body \in Seq(Byte) /\ Drop(body, 0) = body
  <2>1. body \in Seq(Byte)
    BY ReaderAssumption DEF Init
  <2> QED BY <2>1, SubSeqFull DEF Drop
<1>2. Collected
  BY <1>1 DEF Init, Collected, CollectedOf
<1>3. Shape
  <2>1. unread = body /\ 0 \in 0..Len(unread)
    BY <1>1 DEF Init
  <2> QED BY <2>1 DEF Init, Shape, Pc
<1>4. Fresh /\ Complete
  BY DEF Init, Fresh, Complete
<1> QED BY <1>2, <1>3, <1>4 DEF IInv

-----------------------------------------------------------------------------
(* Every read keeps it. *)

LEMMA ProceedsSound ==
  ASSUME IInv, Proceeds
  PROVE  IInv'
<1>1. Collected' /\ unread' = unread /\ body' = body /\ framing' = framing
  BY StillCollected DEF Proceeds
<1>2. result' = result /\ result = "none"
  BY DEF Proceeds, Goto, IInv, Fresh
<1>3. chunk = 0 /\ response = <<>> /\ pc' \in {"status", "headers", "body"}
  BY DEF Proceeds, Goto, IInv, Fresh
<1> QED BY <1>1, <1>2, <1>3 DEF Proceeds, IInv, Shape, Fresh, Complete, Pc

LEMMA FailsSound ==
  ASSUME IInv, Fails
  PROVE  IInv'
<1>1. Collected' /\ unread' = unread /\ body' = body /\ framing' = framing
  BY StillCollected DEF Fails
<1> QED BY <1>1 DEF Fails, Return, IInv, Shape, Fresh, Complete, Pc

LEMMA HeadersEndSound ==
  ASSUME IInv, HeadersEnd
  PROVE  IInv'
<1>1. Collected' /\ unread' = unread /\ body' = body /\ framing' = framing
  BY StillCollected DEF HeadersEnd
<1>2. pc' = "returned" /\ result' \in {"ok", "err"} /\ cut' = TRUE
  BY DEF HeadersEnd, Return
<1> QED BY <1>1, <1>2 DEF HeadersEnd, IInv, Shape, Fresh, Complete, Pc

LEMMA ChunkSizeSound ==
  ASSUME IInv, ChunkSize
  PROVE  IInv'
<1>1. Collected' /\ unread' = unread /\ body' = body /\ framing' = framing
  BY StillCollected DEF ChunkSize
<1>2. unread \in Seq(Byte)
  BY UnreadIsText
<1>3. CASE unread # <<>> /\ chunk' \in 1..Len(unread) /\ Goto("chunk")
  BY <1>1, <1>2, <1>3 DEF ChunkSize, Goto, IInv, Shape, Fresh, Complete, Pc
<1>4. CASE unread = <<>> /\ UNCHANGED chunk /\ Return("ok")
  BY <1>1, <1>4 DEF ChunkSize, Return, IInv, Shape, Fresh, Complete, Pc
<1> QED BY <1>3, <1>4 DEF ChunkSize

LEMMA ChunkSizeEndsSound ==
  ASSUME IInv, ChunkSizeEnds
  PROVE  IInv'
<1>1. Collected' /\ unread' = unread /\ body' = body /\ framing' = framing
  BY StillCollected DEF ChunkSizeEnds
<1> QED BY <1>1 DEF ChunkSizeEnds, Return, IInv, Shape, Fresh, Complete, Pc

LEMMA ChunkDataSound ==
  ASSUME IInv, ChunkData
  PROVE  IInv'
<1> DEFINE part == SubSeq(unread, 1, chunk)
<1>1. chunk \in 0..Len(unread)
  BY DEF IInv, Shape
<1>2. /\ part \in Seq(Byte) /\ Len(part) = chunk
      /\ \A i \in 1..chunk : part[i] = unread[i]
  BY <1>1, PartIsBytes
<1>3. /\ response' = response \o Lossy(part) /\ torn' = (torn \/ ~ WellFormed(part))
      /\ unread' = Drop(unread, chunk) /\ UNCHANGED given
  BY DEF ChunkData
<1>4. torn' \in BOOLEAN /\ (torn => torn') /\ (~torn' => WellFormed(part))
  BY <1>3
<1> HIDE DEF part
<1>5. /\ Lossy(part) \in Seq(Byte \cup {"?"}) /\ Len(Lossy(part)) = chunk
      /\ \A i \in 1..chunk : /\ Lossy(part)[i] \in {unread[i], "?"}
                             /\ ~torn' => Lossy(part)[i] = unread[i]
  BY <1>2, <1>4, LossyFacts
<1>6. Collected' /\ Len(unread') = Len(unread) - chunk
  BY <1>1, <1>3, <1>4, <1>5, PieceStep
<1>7. /\ pc = "chunk" /\ pc' = "body" /\ result' = result /\ chunk' = 0 /\ cut' = cut
      /\ body' = body /\ framing' = framing
  BY DEF ChunkData, Goto, given
<1>8. framing = "chunked" /\ result = "none"
  BY <1>7 DEF IInv, Fresh
<1>9. 0 \in 0..Len(unread')
  BY <1>1, <1>6
<1> QED BY <1>4, <1>6, <1>7, <1>8, <1>9 DEF IInv, Shape, Fresh, Complete, Pc

LEMMA LengthBodySound ==
  ASSUME IInv, LengthBody
  PROVE  IInv' /\ response' = body
<1>1. response = <<>> /\ chunk = 0
  BY DEF IInv, Fresh, LengthBody
<1>2. unread = body /\ unread \in Seq(Byte) /\ WellFormed(unread)
  BY <1>1, UnreadIsText, BodyIsText, SubSeqFull DEF Drop
<1>3. /\ Lossy(unread) \in Seq(Byte \cup {"?"}) /\ Len(Lossy(unread)) = Len(unread)
      /\ \A i \in 1..Len(unread) : Lossy(unread)[i] = unread[i]
  BY <1>2, LossyFacts
<1>4. Lossy(unread) = unread
  <2>1. Lossy(unread) \in Seq(Byte \cup {"?"}) /\ unread \in Seq(Byte \cup {"?"})
    BY <1>2, <1>3
  <2> QED BY <1>3, <2>1, SeqEqual
<1>5. /\ response' = body /\ unread' = <<>> /\ UNCHANGED given
      /\ chunk' = 0 /\ cut' = cut /\ torn' = torn /\ pc' = "returned" /\ result' = "ok"
  BY <1>1, <1>2, <1>4 DEF LengthBody, Return
<1>6. Drop(body, Len(body)) = <<>>
  BY <1>2, SubSeqEmpty DEF Drop
<1>7. Collected'
  BY <1>2, <1>5, <1>6 DEF Collected, CollectedOf, given
<1> QED BY <1>5, <1>7 DEF IInv, Shape, Fresh, Complete, Pc, given

LEMMA CloseLineSound ==
  ASSUME IInv, CloseLine
  PROVE  IInv'
<1>1. pc = "body" /\ framing = "close" /\ UNCHANGED <<given, chunk, cut, torn>>
  BY DEF CloseLine
<1>2. /\ chunk = 0 /\ result = "none" /\ torn \in BOOLEAN /\ torn' = torn
      /\ body' = body /\ framing' = framing /\ chunk' = chunk /\ cut' = cut
  BY <1>1 DEF IInv, Fresh, Shape, given
<1>3. CASE /\ unread # <<>>
           /\ response' = response \o SubSeq(unread, 1, LineLen(unread))
           /\ unread' = Drop(unread, LineLen(unread))
           /\ Goto("body")
  <2> DEFINE n == LineLen(unread)
             part == SubSeq(unread, 1, n)
  <2>1. n \in 0..Len(unread)
    BY UnreadIsText, LineIsThere
  <2> HIDE DEF n
  <2>2. /\ part \in Seq(Byte \cup {"?"}) /\ Len(part) = n
        /\ \A i \in 1..n : part[i] = unread[i]
    BY <2>1, PartIsBytes
  <2>3. response' = response \o part /\ unread' = Drop(unread, n)
    BY <1>3 DEF n
  <2> HIDE DEF part
  <2>4. /\ UNCHANGED given /\ torn' \in BOOLEAN /\ (torn => torn')
        /\ \A i \in 1..n : part[i] \in {unread[i], "?"} /\ (~torn' => part[i] = unread[i])
    BY <1>1, <1>2, <2>2
  <2>5. Collected' /\ Len(unread') = Len(unread) - n
    BY <2>1, <2>2, <2>3, <2>4, PieceStep
  <2>6. 0 \in 0..Len(unread')
    BY <2>1, <2>5
  <2> QED BY <1>1, <1>2, <1>3, <2>5, <2>6 DEF Goto, IInv, Shape, Fresh, Complete, Pc
<1>4. CASE unread = <<>> /\ Return("ok") /\ UNCHANGED <<response, unread>>
  <2>1. Collected'
    BY <1>1, <1>4, StillCollected
  <2> QED BY <1>1, <1>2, <1>4, <2>1 DEF Return, IInv, Shape, Fresh, Complete, Pc
<1> QED BY <1>3, <1>4 DEF CloseLine

LEMMA CloseEndsSound ==
  ASSUME IInv, CloseEnds
  PROVE  IInv'
<1>1. /\ pc = "body" /\ framing = "close" /\ cut' = TRUE /\ Return("ok")
      /\ UNCHANGED <<given, chunk, torn>>
  BY DEF CloseEnds
<1>2. /\ chunk = 0 /\ torn \in BOOLEAN /\ torn' = torn
      /\ body' = body /\ framing' = framing /\ chunk' = chunk
  BY <1>1 DEF IInv, Fresh, Shape, given
<1>3. PICK n \in 0..LineLen(unread) : response' = response \o SubSeq(unread, 1, n) /\ unread' = Drop(unread, n)
  BY DEF CloseEnds
<1>4. n \in 0..Len(unread)
  <2>1. LineLen(unread) \in 0..Len(unread)
    BY UnreadIsText, LineIsThere
  <2> QED BY <2>1
<1> DEFINE part == SubSeq(unread, 1, n)
<1>5. /\ part \in Seq(Byte \cup {"?"}) /\ Len(part) = n
      /\ \A i \in 1..n : part[i] = unread[i]
  BY <1>4, PartIsBytes
<1>6. response' = response \o part /\ unread' = Drop(unread, n)
  BY <1>3
<1> HIDE DEF part
<1>7. Collected' /\ Len(unread') = Len(unread) - n
  <2>1. /\ UNCHANGED given /\ torn' \in BOOLEAN /\ (torn => torn')
        /\ \A i \in 1..n : part[i] \in {unread[i], "?"} /\ (~torn' => part[i] = unread[i])
    BY <1>1, <1>2, <1>5
  <2> QED BY <1>4, <1>5, <1>6, <2>1, PieceStep
<1>8. 0 \in 0..Len(unread')
  BY <1>4, <1>7
<1> QED BY <1>1, <1>2, <1>7, <1>8 DEF Return, IInv, Shape, Fresh, Complete, Pc

LEMMA StepSound ==
  ASSUME IInv, [Next]_vars
  PROVE  IInv'
<1>1. CASE UNCHANGED vars
  BY <1>1 DEF vars, given, IInv, Shape, Collected, Fresh, Complete
<1>2. CASE Next
  BY <1>2, ProceedsSound, FailsSound, HeadersEndSound, ChunkSizeSound, ChunkSizeEndsSound,
     ChunkDataSound, LengthBodySound, CloseLineSound, CloseEndsSound DEF Next
<1> QED BY <1>1, <1>2

-----------------------------------------------------------------------------
(* The theorems. *)

\* Nothing is read twice or left out on the way: what is unread is always the
\* end of the answer, and no chunk is longer than what is there
\* (clickhouse.rs: execute_query).
THEOREM ReaderTypeCorrect == Spec => []TypeOK
<1>1. Spec => []IInv
  BY InitSound, StepSound, PTL DEF Spec
<1>2. IInv => TypeOK
  BY InvariantIsTyped
<1> QED BY <1>1, <1>2, PTL

\* What is collected is the beginning of the answer but for torn characters,
\* however it is cut into chunks and lines and wherever the connection fails
\* (clickhouse.rs: execute_query).
THEOREM BeginningOfAnswer == Spec => []NothingInvented
<1>1. Spec => []IInv
  BY InitSound, StepSound, PTL DEF Spec
<1>2. IInv => NothingInvented
  <2> SUFFICES ASSUME IInv PROVE NothingInvented
    OBVIOUS
  <2>1. /\ response \in Seq(Byte \cup {"?"}) /\ Len(response) <= Len(body)
        /\ \A i \in 1..Len(response) : response[i] \in {body[i], "?"} /\ (~torn => response[i] = body[i])
        /\ body \in Seq(Byte)
    BY BodyIsText DEF IInv, Collected, CollectedOf
  <2>2. ASSUME ~torn, NEW i \in DOMAIN response PROVE response[i] # "?"
    <3>1. i \in 1..Len(response) /\ i \in 1..Len(body)
      BY <2>1
    <3>2. response[i] \in Byte
      BY <2>1, <2>2, <3>1
    <3> QED BY <3>2, ReaderAssumption DEF Byte
  <2> QED BY <2>1, <2>2 DEF NothingInvented, ToSet
<1> QED BY <1>1, <1>2, PTL

\* A query that succeeds on a connection that held, with no character torn by
\* the chunks, returns the answer, all of it (clickhouse.rs: execute_query).
THEOREM UncutIsWhole == Spec => []OkMeansAllUnlessCut
<1>1. Spec => []IInv
  BY InitSound, StepSound, PTL DEF Spec
<1>2. IInv => OkMeansAllUnlessCut
  <2> SUFFICES ASSUME IInv, result = "ok", ~cut, ~torn PROVE response = body
    BY DEF OkMeansAllUnlessCut
  <2>1. unread = <<>> /\ Len(response) = Len(body)
    BY UnreadIsText DEF IInv, Complete
  <2>2. /\ response \in Seq(Byte \cup {"?"}) /\ body \in Seq(Byte \cup {"?"})
        /\ \A i \in 1..Len(response) : response[i] = body[i]
    BY BodyIsText DEF IInv, Collected, CollectedOf
  <2> QED BY <2>1, <2>2, SeqEqual
<1> QED BY <1>1, <1>2, PTL

\* Once the headers are through, an answer whose length was given is complete or
\* an error, though its characters are converted (clickhouse.rs: read_exact in
\* execute_query).
THEOREM LengthTells == Spec => LengthNoticesCut
<1>1. Spec => []IInv
  BY InitSound, StepSound, PTL DEF Spec
<1>2. IInv /\ [Next]_vars =>
        [(pc = "body" /\ framing = "length" /\ result' = "ok") => response' = body]_vars
  <2> SUFFICES ASSUME IInv, Next, pc = "body", framing = "length", result' = "ok"
               PROVE  response' = body
    BY DEF vars
  <2>1. CASE LengthBody
    BY <2>1, LengthBodySound
  <2>2. CASE Fails
    BY <2>2 DEF Fails, Return
  <2> QED BY <2>1, <2>2 DEF Next, Proceeds, HeadersEnd, ChunkSize, ChunkSizeEnds, ChunkData,
               CloseLine, CloseEnds
<1>3. Spec => [][Next]_vars
  BY PTL DEF Spec
<1> QED BY <1>1, <1>2, <1>3, PTL DEF LengthNoticesCut
=============================================================================
