---------------------------- MODULE SessionProofs ---------------------------
(***************************************************************************)
(* Theorems about Session, for any script of the client, any way TCP cuts  *)
(* the stream, any size of the read buffer and room of the socket.         *)
(***************************************************************************)
EXTENDS SessionProps, FiniteSetTheorems, SequenceTheorems, WellFoundedInduction, TLAPS

LEMMA LeastIsMin ==
  ASSUME NEW S, S \subseteq Nat, S # {}
  PROVE  Min(S) \in S /\ \A y \in S : Min(S) <= y
<1>1. PICK x \in S : \A y \in S : ~(<<y, x>> \in OpToRel(<, Nat))
  BY NatLessThanWellFounded, WFMin
<1>2. ASSUME NEW y \in S PROVE ~(y < x)
  <2>1. x \in Nat /\ y \in Nat /\ ~(<<y, x>> \in OpToRel(<, Nat))
    BY <1>1
  <2>. QED
    BY <2>1, Zenon DEF OpToRel
<1>3. \A y \in S : x <= y
  BY <1>2
<1>. QED
  BY <1>3 DEF Min

(* Bytes that came from what the client has sent. *)
OfSent(q) == \A a \in DOMAIN q : q[a].of \in 1 .. sent

LEMMA EndsInside ==
  ASSUME TypeOK, NEW d \in Seq(Token), OfSent(d)
  PROVE  /\ HeaderEnd(d) \in 0 .. Len(d)
         /\ ExpectedTotal(d) \in Nat /\ ExpectedTotal(d) >= HeaderEnd(d)
<1>1. \A parts : At(d, parts) \subseteq 1 .. Len(d)
  BY DEF At
<1>2. HeaderEnd(d) \in 0 .. Len(d)
  BY <1>1, LeastIsMin DEF HeaderEnd
<1>3. LengthLine(d) \in 0 .. Len(d)
  <2>. DEFINE lines == {i \in At(d, {"length", "junk"}) : i < HeaderEnd(d)}
  <2>1. lines \subseteq 1 .. Len(d)
    BY <1>1
  <2>2. ASSUME lines # {} PROVE Min(lines) \in 1 .. Len(d)
    <3>1. lines \subseteq Nat
      BY <2>1
    <3>. HIDE DEF lines
    <3>. QED
      BY <2>1, <2>2, <3>1, LeastIsMin
  <2>3. LengthLine(d) = IF lines = {} \/ Min(lines) = HeaderEnd(d) - 1 THEN 0 ELSE Min(lines)
    BY DEF LengthLine
  <2>. HIDE DEF lines
  <2>. QED
    BY <2>2, <2>3
<1>4. ContentLength(d) \in Nat
  <2>1. CASE LengthLine(d) = 0
    BY <2>1 DEF ContentLength
  <2>2. CASE LengthLine(d) # 0
    <3>1. LengthLine(d) \in DOMAIN d
      BY <1>3, <2>2
    <3>2. d[LengthLine(d)].of \in 1 .. Len(Script)
      BY <3>1, SessionAssumption DEF OfSent, TypeOK
    <3>3. Script[d[LengthLine(d)].of] \in Message
      BY <3>2, SessionAssumption
    <3>. QED
      BY <2>2, <3>3 DEF ContentLength, Message
  <2>. QED
    BY <2>1, <2>2
<1>. QED
  BY <1>2, <1>4 DEF ExpectedTotal

(***************************************************************************)
(* What handle_read does, whatever it finds in the bytes: it keeps all of  *)
(* them and waits, or throws; or it handles a part from the beginning and  *)
(* forgets the bytes behind it.                                            *)
(***************************************************************************)
Waits(d) ==
  data' = d /\ phase' \in {phase, "thrown"} /\ UNCHANGED <<handled, unsent, pipe>>

Serves(d) ==
  \E m \in 1 .. Len(d), valid \in BOOLEAN, length \in Nat \ {0} :
    data' = SubSeq(d, 1, m) /\ StartReply(SubSeq(d, 1, m), valid, length)

Come(n) == data \o SubSeq(wire, 1, n)

LEMMA SentInScript ==
  TypeOK => sent \in Nat /\ \A m \in 1 .. sent : m \in DOMAIN Script /\ Script[m] \in Message
BY SessionAssumption DEF TypeOK

LEMMA ReplyLengthIsPositive ==
  ASSUME TypeOK, NEW q \in Seq(Token), OfSent(q), q # <<>>
  PROVE  ReplyLength(q) \in Nat \ {0}
<1>1. 1 \in DOMAIN q /\ Script[q[1].of] \in Message
  BY SentInScript DEF OfSent
<1>. QED
  BY <1>1 DEF ReplyLength, Message

LEMMA Coming ==
  ASSUME TypeOK, OfSent(data), OfSent(wire), NEW n \in 1 .. Len(wire)
  PROVE  /\ Come(n) \in Seq(Token) /\ Len(Come(n)) = Len(data) + n /\ OfSent(Come(n))
         /\ \A i \in 1 .. Len(data) + n :
              Come(n)[i] = IF i <= Len(data) THEN data[i] ELSE wire[i - Len(data)]
<1>. DEFINE new == SubSeq(wire, 1, n)
<1>0. /\ data \in Seq(Token) /\ Len(data) \in Nat /\ DOMAIN data = 1 .. Len(data)
      /\ wire \in Seq(Token) /\ Len(wire) \in Nat /\ DOMAIN wire = 1 .. Len(wire)
  BY DEF TypeOK
<1>1. new \in Seq(Token) /\ Len(new) = n /\ \A i \in 1 .. n : new[i] = wire[i]
  BY <1>0
<1>. HIDE DEF new
<1>2. /\ data \o new \in Seq(Token) /\ Len(data \o new) = Len(data) + n
      /\ \A i \in 1 .. Len(data) + n :
           (data \o new)[i] = IF i <= Len(data) THEN data[i] ELSE new[i - Len(data)]
  BY <1>0, <1>1, ConcatProperties
<1>3. \A i \in 1 .. Len(data) + n : ~(i <= Len(data)) => i - Len(data) \in 1 .. n /\ i - Len(data) \in DOMAIN wire
  BY <1>0
<1>4. \A i \in 1 .. Len(data) + n :
        (data \o new)[i] = IF i <= Len(data) THEN data[i] ELSE wire[i - Len(data)]
  BY <1>0, <1>1, <1>2, <1>3
<1>5. OfSent(data \o new)
  <2>1. DOMAIN (data \o new) = 1 .. Len(data) + n
    BY <1>0, <1>2, LenProperties
  <2>2. ASSUME NEW i \in 1 .. Len(data) + n PROVE (data \o new)[i].of \in 1 .. sent
    <3>1. CASE i <= Len(data)
      <4>1. i \in DOMAIN data /\ (data \o new)[i] = data[i]
        BY <1>0, <1>4, <3>1
      <4>. QED
        BY <4>1 DEF OfSent
    <3>2. CASE ~(i <= Len(data))
      <4>1. i - Len(data) \in DOMAIN wire /\ (data \o new)[i] = wire[i - Len(data)]
        BY <1>0, <1>3, <1>4, <3>2
      <4>. QED
        BY <4>1 DEF OfSent
    <3>. QED
      BY <3>1, <3>2
  <2>. QED
    BY <2>1, <2>2 DEF OfSent
<1>. QED
  BY <1>2, <1>4, <1>5 DEF Come, new

LEMMA ReadStep ==
  ASSUME TypeOK, OfSent(data), OfSent(wire), HandleRead
  PROVE  \E n \in 1 .. Len(wire) :
           /\ wire' = SubSeq(wire, n + 1, Len(wire))
           /\ Waits(Come(n)) \/ Serves(Come(n))
<1>1. PICK n \in 1 .. Len(wire) : Process(Come(n)) /\ wire' = SubSeq(wire, n + 1, Len(wire))
  BY DEF HandleRead, Come
<1>. DEFINE d == Come(n)
<1>2. d \in Seq(Token) /\ OfSent(d) /\ Len(d) \in Nat \ {0}
  BY Coming DEF TypeOK
<1>3. CASE HeaderEnd(d) # 0 /\ Malformed(d)
  <2>1. SubSeq(d, 1, Len(d)) = d
    BY <1>2, SubSeqFull
  <2>2. StartReply(d, FALSE, 1) /\ data' = d
    BY <1>1, <1>3 DEF Process
  <2>. HIDE DEF d
  <2>3. Len(d) \in 1 .. Len(d) /\ 1 \in Nat \ {0} /\ FALSE \in BOOLEAN
    BY <1>2
  <2>4. data' = SubSeq(d, 1, Len(d)) /\ StartReply(SubSeq(d, 1, Len(d)), FALSE, 1)
    BY <2>1, <2>2, Zenon
  <2>5. Serves(d)
    BY <2>3, <2>4, Zenon DEF Serves
  <2>. QED
    BY <1>1, <2>5 DEF d
<1>4. CASE HeaderEnd(d) # 0 /\ ~Malformed(d) /\ LengthIsJunk(d)
  <2>1. Waits(d)
    BY <1>1, <1>4 DEF Process, Waits
  <2>. QED
    BY <1>1, <2>1
<1>5. CASE ~(HeaderEnd(d) # 0 /\ (Malformed(d) \/ LengthIsJunk(d))) /\ Complete(d)
  <2>. DEFINE m == ExpectedTotal(d)
              request == SubSeq(d, 1, m)
  <2>1. m \in 1 .. Len(d)
    BY <1>2, <1>5, EndsInside DEF Complete
  <2>2. request \in Seq(Token) /\ request # <<>> /\ \A i \in DOMAIN request : i \in DOMAIN d /\ request[i] = d[i]
    BY <1>2, <2>1
  <2>3. ReplyLength(request) \in Nat \ {0}
    BY <1>2, <2>2, ReplyLengthIsPositive DEF OfSent
  <2>4. StartReply(request, TRUE, ReplyLength(request)) /\ data' = request
    BY <1>1, <1>5 DEF Process
  <2>. HIDE DEF m, d
  <2>5. Serves(d)
    BY <2>1, <2>3, <2>4 DEF Serves
  <2>. QED
    BY <1>1, <2>5 DEF d
<1>6. CASE ~(HeaderEnd(d) # 0 /\ (Malformed(d) \/ LengthIsJunk(d))) /\ ~Complete(d)
  <2>1. Waits(d)
    BY <1>1, <1>6 DEF Process, Waits
  <2>. QED
    BY <1>1, <2>1
<1>. QED
  BY <1>3, <1>4, <1>5, <1>6

-----------------------------------------------------------------------------
(* Types. *)

(* What is in the buffers was sent, and a pending write has what to write. *)
BufferInv ==
  /\ OfSent(data) /\ OfSent(wire)
  /\ \A i \in DOMAIN handled : OfSent(handled[i].request)
  /\ phase = "writing" => unsent # <<>>

LEMMA PiecesType ==
  ASSUME TypeOK, NEW n \in Nat
  PROVE  /\ Pieces(n) \in Seq(Piece) /\ Len(Pieces(n)) = n
         /\ \A i \in 1 .. n : /\ Pieces(n)[i].re = Len(handled) + 1 /\ Pieces(n)[i].intact
                             /\ Pieces(n)[i].behind = Len(pipe)
<1>1. Len(handled) + 1 \in Nat /\ Len(pipe) \in Nat
  BY DEF TypeOK
<1>2. \A i \in 1 .. n :
        [re |-> Len(handled) + 1, last |-> i = n, intact |-> TRUE, behind |-> Len(pipe)] \in Piece
  BY <1>1 DEF Piece
<1>3. Pieces(n) \in [1 .. n -> Piece] /\ DOMAIN Pieces(n) = 1 .. n
  BY <1>2 DEF Pieces
<1>4. Pieces(n) \in Seq(Piece)
  BY <1>3, SeqDef
<1>. QED
  BY <1>3, <1>4, LenProperties DEF Pieces

(***************************************************************************)
(* The first write takes all, or what the unread pieces leave of Room; all *)
(* of a short reply when nothing is unread.                                *)
(***************************************************************************)
LEMMA WhatIsTaken ==
  ASSUME TypeOK, NEW length \in Nat \ {0}, NEW now \in Taken(length)
  PROVE  /\ now \in 0 .. length
         /\ now < length => now + Len(pipe) >= Room
<1>1. PICK n \in 0 .. Room : Room - n <= Len(pipe) /\ now = IF length < n THEN length ELSE n
  BY DEF Taken, Free
<1>2. Room \in Nat /\ Len(pipe) \in Nat
  BY SessionAssumption DEF TypeOK
<1>. QED
  BY <1>1, <1>2

LEMMA ReplyEffect ==
  ASSUME TypeOK, NEW q \in Seq(Token), NEW valid \in BOOLEAN, NEW length \in Nat \ {0},
         StartReply(q, valid, length)
  PROVE  \E now \in 0 .. length :
         /\ now < length => now + Len(pipe) >= Room
         /\ handled' = Append(handled, [request |-> q, valid |-> valid])
         /\ handled' \in Seq(Handled)
         /\ pipe' = pipe \o SubSeq(Pieces(length), 1, now) /\ pipe' \in Seq(Piece)
         /\ unsent' = SubSeq(Pieces(length), now + 1, length) /\ unsent' \in Seq(Piece)
         /\ Len(unsent') = length - now
         /\ phase' = IF now = length THEN "written" ELSE "writing"
<1>1. PICK now \in Taken(length) :
        /\ handled' = Append(handled, [request |-> q, valid |-> valid])
        /\ pipe' = pipe \o SubSeq(Pieces(length), 1, now)
        /\ unsent' = SubSeq(Pieces(length), now + 1, length)
        /\ phase' = IF now = length THEN "written" ELSE "writing"
  BY DEF StartReply
<1>2. Pieces(length) \in Seq(Piece) /\ Len(Pieces(length)) = length
  BY PiecesType
<1>3. now \in 0 .. length /\ (now < length => now + Len(pipe) >= Room)
  BY WhatIsTaken
<1>4. [request |-> q, valid |-> valid] \in Handled
  BY DEF Handled
<1>5. handled' \in Seq(Handled)
  BY <1>1, <1>4 DEF TypeOK
<1>6. /\ SubSeq(Pieces(length), 1, now) \in Seq(Piece)
      /\ SubSeq(Pieces(length), now + 1, length) \in Seq(Piece)
      /\ Len(SubSeq(Pieces(length), now + 1, length)) = length - now
  BY <1>2, <1>3
<1>7. pipe' \in Seq(Piece)
  BY <1>1, <1>6 DEF TypeOK
<1>. QED
  BY <1>1, <1>3, <1>5, <1>6, <1>7

LEMMA TokensType ==
  \A m \in DOMAIN Script :
    TokensOf(m) \in Seq(Token) /\ \A a \in DOMAIN TokensOf(m) : TokensOf(m)[a] = [of |-> m, at |-> a]
<1>. SUFFICES ASSUME NEW m \in DOMAIN Script
              PROVE  /\ TokensOf(m) \in Seq(Token)
                     /\ \A a \in DOMAIN TokensOf(m) : TokensOf(m)[a] = [of |-> m, at |-> a]
  OBVIOUS
<1>0. m \in Nat /\ Script[m] \in Message
  <2>1. m \in 1 .. Len(Script) /\ Len(Script) \in Nat
    BY SessionAssumption
  <2>. QED
    BY <2>1, SessionAssumption
<1>1. m \in Nat /\ Script[m].parts \in Seq(Part)
  BY <1>0 DEF Message
<1>2. DOMAIN Script[m].parts = 1 .. Len(Script[m].parts) /\ Len(Script[m].parts) \in Nat
  BY <1>1
<1>3. TokensOf(m) \in [1 .. Len(Script[m].parts) -> Token]
  BY <1>1, <1>2 DEF TokensOf, Token
<1>4. TokensOf(m) \in Seq(Token)
  BY <1>2, <1>3, SeqDef
<1>. QED
  BY <1>4 DEF TokensOf

LEMMA BufferNext == TypeOK /\ BufferInv /\ [Next]_vars => TypeOK' /\ BufferInv'
<1>. SUFFICES ASSUME TypeOK, BufferInv, [Next]_vars PROVE TypeOK' /\ BufferInv'
  OBVIOUS
<1>1. CASE Send
  <2>1. sent + 1 \in DOMAIN Script /\ sent' = sent + 1 /\ sent' \in 0 .. Len(Script)
    BY <1>1, SessionAssumption DEF Send, TypeOK
  <2>. DEFINE new == TokensOf(sent + 1)
  <2>2. new \in Seq(Token) /\ \A a \in DOMAIN new : new[a].of = sent'
    BY <2>1, TokensType
  <2>. HIDE DEF new
  <2>3. wire' = wire \o new /\ wire' \in Seq(Token) /\ DOMAIN wire' = 1 .. Len(wire) + Len(new)
    BY <1>1, <2>2 DEF Send, TypeOK, new
  <2>4. \A i \in 1 .. Len(wire) + Len(new) :
          wire'[i] = IF i <= Len(wire) THEN wire[i] ELSE new[i - Len(wire)]
    BY <2>2, <2>3, ConcatProperties DEF TypeOK
  <2>5. \A m \in 1 .. sent : m \in 1 .. sent'
    BY <2>1 DEF TypeOK
  <2>6. sent' \in 1 .. sent'
    BY <2>1 DEF TypeOK
  <2>7. OfSent(wire)'
    <3>. SUFFICES ASSUME NEW i \in 1 .. Len(wire) + Len(new) PROVE wire'[i].of \in 1 .. sent'
      BY <2>3 DEF OfSent
    <3>1. Len(wire) \in Nat /\ Len(new) \in Nat /\ DOMAIN wire = 1 .. Len(wire) /\ DOMAIN new = 1 .. Len(new)
      BY <2>2 DEF TypeOK
    <3>2. CASE i <= Len(wire)
      <4>1. i \in DOMAIN wire /\ wire'[i] = wire[i]
        BY <2>4, <3>1, <3>2
      <4>. QED
        BY <2>5, <4>1 DEF BufferInv, OfSent
    <3>3. CASE ~(i <= Len(wire))
      <4>1. i - Len(wire) \in DOMAIN new /\ wire'[i] = new[i - Len(wire)]
        BY <2>4, <3>1, <3>3
      <4>. QED
        BY <2>2, <2>6, <4>1
    <3>. QED
      BY <3>2, <3>3
  <2>8. TypeOK'
    BY <1>1, <2>1, <2>3 DEF Send, TypeOK
  <2>. QED
    BY <1>1, <2>5, <2>7, <2>8 DEF Send, BufferInv, OfSent
<1>2. CASE Receive
  BY <1>2 DEF Receive, TypeOK, BufferInv, OfSent
<1>3. CASE Disconnect
  BY <1>3 DEF Disconnect, TypeOK, BufferInv, OfSent
<1>4. CASE HandleRead
  <2>1. PICK n \in 1 .. Len(wire) :
          /\ wire' = SubSeq(wire, n + 1, Len(wire))
          /\ Waits(Come(n)) \/ Serves(Come(n))
    BY <1>4, ReadStep DEF BufferInv
  <2>2. Come(n) \in Seq(Token) /\ OfSent(Come(n))
    BY Coming DEF BufferInv
  <2>3. wire' \in Seq(Token) /\ \A i \in DOMAIN wire' : i + n \in DOMAIN wire /\ wire'[i] = wire[i + n]
    <3>1. wire \in Seq(Token) /\ Len(wire) \in Nat /\ n + 1 \in 1 .. Len(wire) + 1
      BY DEF TypeOK
    <3>2. DOMAIN wire = 1 .. Len(wire)
      BY <3>1
    <3>3. /\ wire' \in Seq(Token) /\ DOMAIN wire' = 1 .. Len(wire) - n
          /\ \A i \in 1 .. Len(wire) - n : wire'[i] = wire[i + n]
      BY <2>1, <3>1
    <3>. QED
      BY <3>1, <3>2, <3>3
  <2>4. UNCHANGED <<sent, gone, got, kept>> /\ phase = "reading" /\ unsent = <<>>
    BY <1>4 DEF HandleRead, TypeOK
  <2>5. OfSent(wire)'
    BY <2>3, <2>4 DEF BufferInv, OfSent
  <2>6. CASE Waits(Come(n))
    <3>1. TypeOK'
      BY <2>2, <2>3, <2>4, <2>6 DEF Waits, TypeOK, Phase
    <3>2. data' = Come(n) /\ handled' = handled /\ sent' = sent /\ phase' # "writing"
      BY <2>4, <2>6 DEF Waits
    <3>3. OfSent(data)'
      BY <2>2, <3>2 DEF OfSent
    <3>4. (\A i \in DOMAIN handled : OfSent(handled[i].request))'
      BY <3>2 DEF BufferInv, OfSent
    <3>5. BufferInv'
      BY <2>5, <3>2, <3>3, <3>4 DEF BufferInv
    <3>. QED
      BY <3>1, <3>5
  <2>7. ASSUME NEW m \in 1 .. Len(Come(n)), NEW valid \in BOOLEAN, NEW length \in Nat \ {0},
               data' = SubSeq(Come(n), 1, m), StartReply(SubSeq(Come(n), 1, m), valid, length)
        PROVE  TypeOK' /\ BufferInv'
    <3>. DEFINE q == SubSeq(Come(n), 1, m)
    <3>1. q \in Seq(Token) /\ \A i \in DOMAIN q : i \in DOMAIN Come(n) /\ q[i] = Come(n)[i]
      BY <2>2
    <3>2. \A i \in DOMAIN q : q[i].of \in 1 .. sent
      BY <2>2, <3>1 DEF OfSent
    <3>. HIDE DEF q
    <3>3. StartReply(q, valid, length) /\ data' = q
      BY <2>7 DEF q
    <3>4. PICK now \in 0 .. length :
            /\ handled' = Append(handled, [request |-> q, valid |-> valid])
            /\ handled' \in Seq(Handled) /\ pipe' \in Seq(Piece) /\ unsent' \in Seq(Piece)
            /\ Len(unsent') = length - now
            /\ phase' = IF now = length THEN "written" ELSE "writing"
      BY <3>1, <3>3, ReplyEffect
    <3>5. phase' = "writing" <=> unsent' # <<>>
      BY <3>4
    <3>6. TypeOK'
      BY <2>3, <2>4, <3>1, <3>3, <3>4, <3>5 DEF TypeOK, Phase
    <3>7. handled \in Seq(Handled) /\ Len(handled) \in Nat /\ DOMAIN handled = 1 .. Len(handled)
      BY DEF TypeOK
    <3>8. /\ DOMAIN handled' = 1 .. Len(handled) + 1 /\ handled'[Len(handled) + 1].request = q
          /\ \A i \in 1 .. Len(handled) : handled'[i] = handled[i]
      BY <3>4, <3>7
    <3>9. \A i \in DOMAIN handled' : i \in DOMAIN handled \/ i = Len(handled) + 1
      BY <3>7, <3>8
    <3>10. ASSUME NEW i \in DOMAIN handled' PROVE \A a \in DOMAIN handled'[i].request : handled'[i].request[a].of \in 1 .. sent
      <4>1. CASE i \in DOMAIN handled
        BY <3>7, <3>8, <4>1 DEF BufferInv, OfSent
      <4>2. CASE i = Len(handled) + 1
        BY <3>2, <3>8, <4>2
      <4>. QED
        BY <3>9, <4>1, <4>2
    <3>11. (\A i \in DOMAIN handled : OfSent(handled[i].request))'
      BY <2>4, <3>10 DEF OfSent
    <3>12. OfSent(data)'
      BY <2>4, <3>2, <3>3 DEF OfSent
    <3>. QED
      BY <2>5, <3>5, <3>6, <3>11, <3>12 DEF BufferInv
  <2>. QED
    BY <2>1, <2>6, <2>7 DEF Serves
<1>5. CASE ContinueWrite
  <2>1. unsent # <<>> /\ Head(unsent) \in Piece /\ Tail(unsent) \in Seq(Piece)
        /\ Len(Tail(unsent)) = Len(unsent) - 1
    BY <1>5 DEF ContinueWrite, BufferInv, TypeOK
  <2>2. PICK intact \in BOOLEAN : pipe' = Append(pipe, [Head(unsent) EXCEPT !.intact = intact])
    BY <1>5 DEF ContinueWrite
  <2>3. [Head(unsent) EXCEPT !.intact = intact] \in Piece
    BY <2>1 DEF Piece
  <2>4. pipe' \in Seq(Piece)
    BY <2>2, <2>3 DEF TypeOK
  <2>5. phase' \in {"written", "writing"} /\ (phase' = "writing" <=> unsent' # <<>>)
        /\ unsent' \in Seq(Piece)
    <3>1. unsent' = Tail(unsent) /\ phase' = IF Len(unsent) = 1 THEN "written" ELSE "writing"
      BY <1>5 DEF ContinueWrite
    <3>2. Len(unsent) \in Nat
      BY DEF TypeOK
    <3>3. unsent' = <<>> <=> Len(unsent) = 1
      <4>1. Tail(unsent) = <<>> <=> Len(Tail(unsent)) = 0
        BY <2>1, EmptySeq
      <4>. QED
        BY <2>1, <3>1, <3>2, <4>1
    <3>. QED
      BY <2>1, <3>1, <3>3
  <2>. QED
    BY <1>5, <2>4, <2>5 DEF ContinueWrite, TypeOK, BufferInv, OfSent, Phase
<1>6. CASE HandleWrite
  BY <1>6 DEF HandleWrite, TypeOK, BufferInv, OfSent, Phase
<1>7. CASE OperationFails
  BY <1>7 DEF OperationFails, TypeOK, BufferInv, OfSent, Phase
<1>8. CASE UNCHANGED vars
  BY <1>8 DEF vars, TypeOK, BufferInv, OfSent
<1>. QED
  BY <1>1, <1>2, <1>3, <1>4, <1>5, <1>6, <1>7, <1>8 DEF Next, Client, Server

LEMMA BufferAlways == Spec => [](TypeOK /\ BufferInv)
<1>1. Init => TypeOK /\ BufferInv
  <2>. SUFFICES ASSUME Init PROVE TypeOK /\ BufferInv
    OBVIOUS
  <2>1. sent \in 0 .. Len(Script) /\ DOMAIN <<>> = {}
    BY SessionAssumption DEF Init
  <2>2. wire \in Seq(Token) /\ data \in Seq(Token) /\ handled \in Seq(Handled)
    BY DEF Init
  <2>3. unsent \in Seq(Piece) /\ pipe \in Seq(Piece) /\ got \in Seq(Piece)
    BY DEF Init
  <2>4. gone \in BOOLEAN /\ kept \in BOOLEAN /\ phase \in Phase /\ phase # "writing" /\ unsent = <<>>
    BY DEF Init, Phase
  <2>5. OfSent(<<>>)
    BY <2>1, Zenon DEF OfSent
  <2>6. BufferInv
    BY <2>1, <2>4, <2>5, Zenon DEF Init, BufferInv
  <2>. QED
    BY <2>1, <2>2, <2>3, <2>4, <2>6 DEF TypeOK
<1>. QED
  BY <1>1, BufferNext, PTL DEF Spec

(***************************************************************************)
(* The variables keep their types; there is a rest of a reply only while a *)
(* write is pending, or was when the session was deleted.                  *)
(***************************************************************************)
THEOREM SessionTyping == Spec => []TypeOK
BY BufferAlways, PTL

-----------------------------------------------------------------------------
(* The order of what the client sent. *)

Ordered(q) == \A a, b \in DOMAIN q : a < b => Before(q[a], q[b])

Precedes(p, q) == \A a \in DOMAIN p, b \in DOMAIN q : Before(p[a], q[b])

(***************************************************************************)
(* Everything that was handled lies behind what was handled before, and    *)
(* before what is still on its way.  request_data continues it only while  *)
(* a read is pending: after a request is handled, and until handle_write   *)
(* clears it, request_data is the request itself.                          *)
(***************************************************************************)
StreamInv ==
  /\ Ordered(data) /\ Ordered(wire) /\ Precedes(data, wire)
  /\ \A i \in DOMAIN handled :
       Ordered(handled[i].request) /\ Precedes(handled[i].request, wire)

HandledInv ==
  /\ \A i, j \in DOMAIN handled : i < j => Precedes(handled[i].request, handled[j].request)
  /\ phase = "reading" => \A i \in DOMAIN handled : Precedes(handled[i].request, data)

LEMMA ComingInOrder ==
  ASSUME TypeOK, BufferInv, StreamInv, NEW n \in 1 .. Len(wire), wire' = SubSeq(wire, n + 1, Len(wire))
  PROVE  /\ Ordered(Come(n)) /\ Ordered(wire') /\ Precedes(Come(n), wire')
         /\ \A p : Precedes(p, wire) => Precedes(p, wire')
         /\ \A p : Precedes(p, data) /\ Precedes(p, wire) => Precedes(p, Come(n))
<1>. DEFINE d == Come(n)
<1>0. /\ data \in Seq(Token) /\ Len(data) \in Nat /\ DOMAIN data = 1 .. Len(data)
      /\ wire \in Seq(Token) /\ Len(wire) \in Nat /\ DOMAIN wire = 1 .. Len(wire)
      /\ n \in Nat
  BY DEF TypeOK
<1>1. /\ d \in Seq(Token) /\ Len(d) = Len(data) + n
      /\ \A i \in 1 .. Len(data) + n : d[i] = IF i <= Len(data) THEN data[i] ELSE wire[i - Len(data)]
  BY Coming DEF BufferInv
<1>2. DOMAIN d = 1 .. Len(data) + n
  BY <1>1, LenProperties
<1>. HIDE DEF d
<1>3. DOMAIN wire' = 1 .. Len(wire) - n /\ \A i \in 1 .. Len(wire) - n : wire'[i] = wire[i + n]
  BY <1>0
<1>4. \A i \in DOMAIN wire' : i \in Nat /\ i + n \in DOMAIN wire /\ wire'[i] = wire[i + n] /\ n < i + n
  BY <1>0, <1>3
<1>5. \A i \in DOMAIN d :
        \/ i \in DOMAIN data /\ d[i] = data[i]
        \/ ~(i <= Len(data)) /\ i - Len(data) \in DOMAIN wire /\ i - Len(data) <= n /\ d[i] = wire[i - Len(data)]
  BY <1>0, <1>1, <1>2, SMTT(30)
<1>6. ASSUME NEW i \in DOMAIN d, NEW j \in DOMAIN d, i < j PROVE Before(d[i], d[j])
  <2>1. CASE i \in DOMAIN data /\ d[i] = data[i] /\ j \in DOMAIN data /\ d[j] = data[j]
    BY <1>6, <2>1 DEF StreamInv, Ordered
  <2>2. CASE i \in DOMAIN data /\ d[i] = data[i] /\ j - Len(data) \in DOMAIN wire /\ d[j] = wire[j - Len(data)]
    BY <2>2 DEF StreamInv, Precedes
  <2>3. CASE /\ i - Len(data) \in DOMAIN wire /\ d[i] = wire[i - Len(data)]
             /\ j - Len(data) \in DOMAIN wire /\ d[j] = wire[j - Len(data)]
    <3>1. i - Len(data) < j - Len(data)
      BY <1>0, <1>2, <1>6
    <3>. QED
      BY <2>3, <3>1 DEF StreamInv, Ordered
  <2>4. ~(~(i <= Len(data)) /\ j \in DOMAIN data)
    BY <1>0, <1>2, <1>6
  <2>. QED
    BY <1>5, <2>1, <2>2, <2>3, <2>4
<1>7. ASSUME NEW i \in DOMAIN wire', NEW j \in DOMAIN wire', i < j PROVE Before(wire'[i], wire'[j])
  <2>1. i + n < j + n
    BY <1>0, <1>4, <1>7
  <2>. QED
    BY <1>4, <2>1 DEF StreamInv, Ordered
<1>8. ASSUME NEW i \in DOMAIN d, NEW j \in DOMAIN wire' PROVE Before(d[i], wire'[j])
  <2>1. CASE i \in DOMAIN data /\ d[i] = data[i]
    BY <1>4, <2>1 DEF StreamInv, Precedes
  <2>2. CASE i - Len(data) \in DOMAIN wire /\ i - Len(data) <= n /\ d[i] = wire[i - Len(data)]
    <3>1. i - Len(data) < j + n
      BY <1>0, <1>2, <1>4, <2>2
    <3>. QED
      BY <1>4, <2>2, <3>1 DEF StreamInv, Ordered
  <2>. QED
    BY <1>5, <2>1, <2>2
<1>9. ASSUME NEW p, Precedes(p, wire) PROVE Precedes(p, wire')
  BY <1>4, <1>9 DEF Precedes
<1>10. ASSUME NEW p, Precedes(p, data), Precedes(p, wire) PROVE Precedes(p, d)
  BY <1>5, <1>10 DEF Precedes
<1>11. Ordered(d) /\ Ordered(wire') /\ Precedes(d, wire')
  BY <1>6, <1>7, <1>8 DEF Ordered, Precedes
<1>. QED
  BY <1>9, <1>10, <1>11 DEF d

(* A part of the stream from its beginning is ordered as the stream is. *)
LEMMA PrefixInOrder ==
  ASSUME NEW d \in Seq(Token), NEW m \in 1 .. Len(d), Ordered(d)
  PROVE  /\ Ordered(SubSeq(d, 1, m))
         /\ \A p : Precedes(p, d) => Precedes(p, SubSeq(d, 1, m))
         /\ \A p : Precedes(d, p) => Precedes(SubSeq(d, 1, m), p)
<1>. DEFINE q == SubSeq(d, 1, m)
<1>1. \A i \in DOMAIN q : i \in DOMAIN d /\ q[i] = d[i]
  OBVIOUS
<1>. HIDE DEF q
<1>. QED
  BY <1>1 DEF Ordered, Precedes, q

(* The new message lies behind all that was sent before. *)
LEMMA SendInOrder ==
  ASSUME TypeOK, BufferInv, StreamInv, Send
  PROVE  /\ Ordered(wire)'
         /\ \A p : OfSent(p) /\ Precedes(p, wire) => Precedes(p, wire')
<1>1. sent + 1 \in DOMAIN Script /\ sent \in Nat
  BY SessionAssumption DEF Send, TypeOK
<1>. DEFINE new == TokensOf(sent + 1)
<1>2. new \in Seq(Token) /\ \A a \in DOMAIN new : new[a] = [of |-> sent + 1, at |-> a]
  BY <1>1, TokensType
<1>. HIDE DEF new
<1>3. /\ Len(wire) \in Nat /\ DOMAIN wire = 1 .. Len(wire)
      /\ Len(new) \in Nat /\ DOMAIN new = 1 .. Len(new)
  BY <1>2, LenProperties DEF TypeOK
<1>4. /\ wire' = wire \o new /\ DOMAIN wire' = 1 .. Len(wire) + Len(new)
      /\ \A i \in 1 .. Len(wire) + Len(new) :
           wire'[i] = IF i <= Len(wire) THEN wire[i] ELSE new[i - Len(wire)]
  <2>1. wire' = wire \o new /\ wire \in Seq(Token)
    BY DEF Send, TypeOK, new
  <2>. QED
    BY <1>2, <1>3, <2>1, ConcatProperties, LenProperties
<1>5. \A i \in DOMAIN wire' :
        \/ i \in DOMAIN wire /\ wire'[i] = wire[i]
        \/ /\ ~(i <= Len(wire)) /\ i - Len(wire) \in DOMAIN new
           /\ wire'[i] = [of |-> sent + 1, at |-> i - Len(wire)]
  <2>1. ASSUME NEW i \in DOMAIN wire', ~(i <= Len(wire))
        PROVE  i - Len(wire) \in DOMAIN new /\ wire'[i] = new[i - Len(wire)]
    BY <1>3, <1>4, <2>1
  <2>2. ASSUME NEW i \in DOMAIN wire', i <= Len(wire) PROVE i \in DOMAIN wire /\ wire'[i] = wire[i]
    BY <1>3, <1>4, <2>2
  <2>. QED
    BY <1>2, <2>1, <2>2
<1>6. ASSUME NEW t, t.of \in 1 .. sent, NEW a \in Nat PROVE Before(t, [of |-> sent + 1, at |-> a])
  BY <1>1, <1>6 DEF Before
<1>7. \A i \in DOMAIN new : i \in Nat
  BY <1>3
<1>8. ASSUME NEW i \in DOMAIN wire', NEW j \in DOMAIN wire', i < j PROVE Before(wire'[i], wire'[j])
  <2>1. CASE i \in DOMAIN wire /\ wire'[i] = wire[i] /\ j \in DOMAIN wire /\ wire'[j] = wire[j]
    BY <1>8, <2>1 DEF StreamInv, Ordered
  <2>2. CASE /\ i \in DOMAIN wire /\ wire'[i] = wire[i]
             /\ j - Len(wire) \in DOMAIN new /\ wire'[j] = [of |-> sent + 1, at |-> j - Len(wire)]
    BY <1>6, <1>7, <2>2 DEF BufferInv, OfSent
  <2>3. CASE /\ i - Len(wire) \in DOMAIN new /\ wire'[i] = [of |-> sent + 1, at |-> i - Len(wire)]
             /\ j - Len(wire) \in DOMAIN new /\ wire'[j] = [of |-> sent + 1, at |-> j - Len(wire)]
    <3>1. i - Len(wire) < j - Len(wire)
      BY <1>3, <1>4, <1>8
    <3>. QED
      BY <2>3, <3>1 DEF Before
  <2>4. ~(~(i <= Len(wire)) /\ j \in DOMAIN wire)
    BY <1>3, <1>4, <1>8
  <2>. QED
    BY <1>5, <2>1, <2>2, <2>3, <2>4
<1>9. ASSUME NEW p, OfSent(p), Precedes(p, wire) PROVE Precedes(p, wire')
  <2>. SUFFICES ASSUME NEW i \in DOMAIN p, NEW j \in DOMAIN wire' PROVE Before(p[i], wire'[j])
    BY DEF Precedes
  <2>1. CASE j \in DOMAIN wire /\ wire'[j] = wire[j]
    BY <1>9, <2>1 DEF Precedes
  <2>2. CASE j - Len(wire) \in DOMAIN new /\ wire'[j] = [of |-> sent + 1, at |-> j - Len(wire)]
    BY <1>6, <1>7, <1>9, <2>2 DEF OfSent
  <2>. QED
    BY <1>5, <2>1, <2>2
<1>. QED
  BY <1>8, <1>9 DEF Ordered

LEMMA OrderNext ==
  ASSUME TypeOK, BufferInv, StreamInv, HandledInv, [Next]_vars
  PROVE  StreamInv' /\ HandledInv'
<1>1. CASE Send
  <2>1. UNCHANGED <<data, handled, phase>>
    BY <1>1 DEF Send
  <2>2. Ordered(wire)' /\ Precedes(data, wire')
    BY <1>1, SendInOrder DEF BufferInv, StreamInv
  <2>3. \A i \in DOMAIN handled : Precedes(handled[i].request, wire')
    BY <1>1, SendInOrder DEF BufferInv, StreamInv
  <2>. QED
    BY <2>1, <2>2, <2>3 DEF StreamInv, HandledInv, Ordered, Precedes
<1>2. CASE UNCHANGED <<data, wire, handled, phase>>
  BY <1>2 DEF StreamInv, HandledInv, Ordered, Precedes
<1>3. CASE HandleRead
  <2>1. PICK n \in 1 .. Len(wire) :
          /\ wire' = SubSeq(wire, n + 1, Len(wire))
          /\ Waits(Come(n)) \/ Serves(Come(n))
    BY <1>3, ReadStep DEF BufferInv
  <2>. DEFINE d == Come(n)
  <2>2. d \in Seq(Token)
    BY Coming DEF BufferInv
  <2>3. /\ Ordered(d) /\ Ordered(wire') /\ Precedes(d, wire')
        /\ \A p : Precedes(p, wire) => Precedes(p, wire')
        /\ \A p : Precedes(p, data) /\ Precedes(p, wire) => Precedes(p, d)
    BY <2>1, ComingInOrder
  <2>4. \A i \in DOMAIN handled :
          /\ Ordered(handled[i].request) /\ Precedes(handled[i].request, wire')
          /\ Precedes(handled[i].request, d)
    BY <1>3, <2>3 DEF HandleRead, StreamInv, HandledInv
  <2>5. Waits(d) \/ Serves(d)
    BY <2>1
  <2>. HIDE DEF d
  <2>6. CASE Waits(d)
    <3>1. data' = d /\ handled' = handled
      BY <2>6 DEF Waits
    <3>. QED
      BY <2>3, <2>4, <3>1 DEF StreamInv, HandledInv, Ordered, Precedes
  <2>7. ASSUME NEW m \in 1 .. Len(d), NEW valid \in BOOLEAN, NEW length \in Nat \ {0},
               data' = SubSeq(d, 1, m), StartReply(SubSeq(d, 1, m), valid, length)
        PROVE  StreamInv' /\ HandledInv'
    <3>. DEFINE q == SubSeq(d, 1, m)
    <3>1. /\ Ordered(q) /\ Precedes(q, wire')
          /\ \A i \in DOMAIN handled : Precedes(handled[i].request, q)
      BY <2>2, <2>3, <2>4, PrefixInOrder
    <3>2. /\ q \in Seq(Token) /\ data' = q /\ StartReply(q, valid, length)
      BY <2>2, <2>7
    <3>. HIDE DEF q
    <3>3. handled' = Append(handled, [request |-> q, valid |-> valid]) /\ phase' # "reading"
      BY <3>2, ReplyEffect
    <3>4. handled \in Seq(Handled) /\ Len(handled) \in Nat /\ DOMAIN handled = 1 .. Len(handled)
      BY DEF TypeOK
    <3>5. /\ DOMAIN handled' = 1 .. Len(handled) + 1 /\ handled'[Len(handled) + 1].request = q
          /\ \A i \in DOMAIN handled : handled'[i] = handled[i]
      <4>1. [request |-> q, valid |-> valid] \in Handled
        BY <3>2 DEF Handled
      <4>. QED
        BY <3>3, <3>4, <4>1
    <3>6. \A i \in DOMAIN handled' : i \in DOMAIN handled \/ i = Len(handled) + 1
      BY <3>4, <3>5
    <3>7. StreamInv'
      <4>1. ASSUME NEW i \in DOMAIN handled'
            PROVE  Ordered(handled'[i].request) /\ Precedes(handled'[i].request, wire')
        BY <2>4, <3>1, <3>5, <3>6
      <4>2. Ordered(data') /\ Ordered(wire') /\ Precedes(data', wire')
        BY <2>3, <3>1, <3>2
      <4>. QED
        BY <4>1, <4>2 DEF StreamInv, Ordered, Precedes
    <3>8. ASSUME NEW i \in DOMAIN handled', NEW j \in DOMAIN handled', i < j
          PROVE  Precedes(handled'[i].request, handled'[j].request)
      <4>1. i \in DOMAIN handled
        BY <3>4, <3>5, <3>8
      <4>2. CASE j \in DOMAIN handled
        BY <3>5, <3>8, <4>1, <4>2 DEF HandledInv
      <4>3. CASE j = Len(handled) + 1
        BY <3>1, <3>5, <4>1, <4>3
      <4>. QED
        BY <3>6, <4>2, <4>3
    <3>. QED
      BY <3>3, <3>7, <3>8 DEF HandledInv, Precedes
  <2>. QED
    BY <2>5, <2>6, <2>7 DEF Serves
<1>4. CASE HandleWrite
  BY <1>4 DEF HandleWrite, StreamInv, HandledInv, Ordered, Precedes
<1>5. ASSUME UNCHANGED <<data, wire, handled>>, phase' # "reading" PROVE StreamInv' /\ HandledInv'
  BY <1>5 DEF StreamInv, HandledInv, Ordered, Precedes
<1>6. CASE Receive \/ Disconnect \/ UNCHANGED vars
  BY <1>2, <1>6 DEF Receive, Disconnect, vars
<1>7. CASE ContinueWrite \/ OperationFails
  BY <1>5, <1>7 DEF ContinueWrite, OperationFails
<1>. QED
  BY <1>1, <1>3, <1>4, <1>6, <1>7 DEF Next, Client, Server

LEMMA OrderAlways == Spec => [](StreamInv /\ HandledInv)
<1>1. Init => StreamInv /\ HandledInv
  <2>1. DOMAIN <<>> = {}
    OBVIOUS
  <2>. QED
    BY <2>1, Zenon DEF Init, StreamInv, HandledInv, Ordered, Precedes
<1>2. TypeOK /\ BufferInv /\ StreamInv /\ HandledInv /\ [Next]_vars => (StreamInv /\ HandledInv)'
  BY OrderNext
<1>. QED
  BY <1>1, <1>2, BufferAlways, PTL DEF Spec

(***************************************************************************)
(* Whatever the client does and however TCP cuts the stream, a session     *)
(* handles no byte twice, and handles what it handles in the order sent.   *)
(***************************************************************************)
THEOREM RequestsAreSlices == Spec => []NothingHandledTwice
<1>1. StreamInv /\ HandledInv => NothingHandledTwice
  BY DEF StreamInv, HandledInv, NothingHandledTwice, Ordered, Precedes
<1>. QED
  BY <1>1, OrderAlways, PTL

-----------------------------------------------------------------------------
(* What arrives spoiled. *)

Arrived == got \o pipe
Of(q, re) == {k \in DOMAIN q : q[k].re = re}

Spoiled(q) ==
  \A i \in DOMAIN q : ~q[i].intact =>
    Cardinality({k \in DOMAIN q : k < i /\ q[k].re = q[i].re}) + q[i].behind >= Room

(* A rest is of the last reply, whose first write filled the send buffer. *)
RestInv ==
  /\ Spoiled(Arrived)
  /\ \A i \in DOMAIN unsent :
       /\ unsent[i].re = Len(handled)
       /\ Cardinality(Of(Arrived, Len(handled))) + unsent[i].behind >= Room

LEMMA OfIsFinite ==
  ASSUME NEW q \in Seq(Piece), NEW S, S \subseteq DOMAIN q
  PROVE  IsFiniteSet(S) /\ Cardinality(S) \in Nat
<1>1. IsFiniteSet(DOMAIN q)
  <2>1. DOMAIN q = 1 .. Len(q) /\ Len(q) \in Nat
    OBVIOUS
  <2>. QED
    BY <2>1, FS_Interval
<1>. QED
  BY <1>1, FS_Subset, FS_CardinalityType

LEMMA Joined ==
  ASSUME NEW q \in Seq(Piece), NEW r \in Seq(Piece)
  PROVE  /\ q \o r \in Seq(Piece) /\ DOMAIN (q \o r) = 1 .. Len(q) + Len(r)
         /\ DOMAIN q = 1 .. Len(q) /\ DOMAIN r = 1 .. Len(r) /\ Len(q) \in Nat /\ Len(r) \in Nat
         /\ \A i \in DOMAIN q : i \in DOMAIN (q \o r) /\ (q \o r)[i] = q[i]
         /\ \A i \in DOMAIN (q \o r) :
              \/ i \in DOMAIN q /\ (q \o r)[i] = q[i]
              \/ Len(q) < i /\ i - Len(q) \in DOMAIN r /\ (q \o r)[i] = r[i - Len(q)]
<1>1. DOMAIN q = 1 .. Len(q) /\ DOMAIN r = 1 .. Len(r) /\ Len(q) \in Nat /\ Len(r) \in Nat
  OBVIOUS
<1>2. /\ q \o r \in Seq(Piece) /\ Len(q \o r) = Len(q) + Len(r)
      /\ \A i \in 1 .. Len(q) + Len(r) : (q \o r)[i] = IF i <= Len(q) THEN q[i] ELSE r[i - Len(q)]
  BY ConcatProperties
<1>3. DOMAIN (q \o r) = 1 .. Len(q) + Len(r)
  BY <1>2, LenProperties
<1>. DEFINE s == q \o r
<1>. HIDE DEF s
<1>4. s \in Seq(Piece) /\ DOMAIN s = 1 .. Len(q) + Len(r)
      /\ \A i \in 1 .. Len(q) + Len(r) : s[i] = IF i <= Len(q) THEN q[i] ELSE r[i - Len(q)]
  BY <1>2, <1>3 DEF s
<1>5. \A i \in DOMAIN q : i \in DOMAIN s /\ s[i] = q[i]
  BY <1>1, <1>4
<1>6. ASSUME NEW i \in DOMAIN s
      PROVE  \/ i \in DOMAIN q /\ s[i] = q[i]
             \/ Len(q) < i /\ i - Len(q) \in DOMAIN r /\ s[i] = r[i - Len(q)]
  BY <1>1, <1>4
<1>. QED
  BY <1>1, <1>4, <1>5, <1>6 DEF s

(* Pieces that follow the others spoil nothing that arrived before. *)
LEMMA Follow ==
  ASSUME NEW q \in Seq(Piece), NEW r \in Seq(Piece), Spoiled(q),
         \A i \in DOMAIN r : ~r[i].intact => Cardinality(Of(q, r[i].re)) + r[i].behind >= Room
  PROVE  /\ Spoiled(q \o r)
         /\ \A re : Cardinality(Of(q \o r, re)) >= Cardinality(Of(q, re))
<1>. DEFINE s == q \o r
<1>1. s \in Seq(Piece) /\ \A i \in DOMAIN q : i \in DOMAIN s /\ s[i] = q[i]
  BY Joined
<1>2. \A i \in DOMAIN s :
        \/ i \in DOMAIN q /\ s[i] = q[i]
        \/ Len(q) < i /\ i - Len(q) \in DOMAIN r /\ s[i] = r[i - Len(q)]
  BY Joined
<1>3. /\ DOMAIN q = 1 .. Len(q) /\ Len(q) \in Nat /\ Room \in Nat
      /\ \A i \in DOMAIN s : i \in Nat
      /\ \A i \in DOMAIN s : s[i].behind \in Nat
  <2>1. \A i \in DOMAIN s : s[i] \in Piece
    BY <1>1
  <2>. QED
    BY <2>1, Joined, SessionAssumption DEF Piece
<1>. HIDE DEF s
<1>4. ASSUME NEW re PROVE Cardinality(Of(s, re)) >= Cardinality(Of(q, re))
  <2>1. Of(q, re) \subseteq Of(s, re) /\ Of(s, re) \subseteq DOMAIN s /\ Of(q, re) \subseteq DOMAIN q
    BY <1>1 DEF Of
  <2>2. IsFiniteSet(Of(s, re)) /\ Cardinality(Of(s, re)) \in Nat /\ Cardinality(Of(q, re)) \in Nat
    BY <1>1, <2>1, OfIsFinite
  <2>. QED
    BY <2>1, <2>2, FS_Subset
<1>5. ASSUME NEW i \in DOMAIN s, ~s[i].intact
      PROVE  Cardinality({k \in DOMAIN s : k < i /\ s[k].re = s[i].re}) + s[i].behind >= Room
  <2>. DEFINE A == {k \in DOMAIN s : k < i /\ s[k].re = s[i].re}
  <2>1. IsFiniteSet(A) /\ Cardinality(A) \in Nat
    BY <1>1, OfIsFinite
  <2>2. CASE i \in DOMAIN q /\ s[i] = q[i]
    <3>. DEFINE B == {k \in DOMAIN q : k < i /\ q[k].re = q[i].re}
    <3>1. B \subseteq A
      BY <1>1, <2>2
    <3>2. Cardinality(B) + s[i].behind >= Room
      BY <1>5, <2>2 DEF Spoiled
    <3>3. Cardinality(B) \in Nat
      BY OfIsFinite
    <3>. HIDE DEF A, B
    <3>4. Cardinality(B) <= Cardinality(A)
      BY <2>1, <3>1, FS_Subset
    <3>5. Cardinality(A) + s[i].behind >= Room
      BY <1>3, <2>1, <3>2, <3>3, <3>4
    <3>. QED
      BY <3>5 DEF A
  <2>3. CASE Len(q) < i /\ i - Len(q) \in DOMAIN r /\ s[i] = r[i - Len(q)]
    <3>. DEFINE B == Of(q, s[i].re)
    <3>1. B \subseteq A
      <4>. SUFFICES ASSUME NEW k \in DOMAIN q, q[k].re = s[i].re PROVE k \in A
        BY DEF Of
      <4>1. k < i
        BY <1>3, <2>3
      <4>2. k \in DOMAIN s /\ s[k] = q[k]
        BY <1>1
      <4>. QED
        BY <4>1, <4>2
    <3>2. Cardinality(B) + s[i].behind >= Room
      BY <1>5, <2>3
    <3>3. B \subseteq DOMAIN q
      BY DEF Of
    <3>4. Cardinality(B) \in Nat
      BY <3>3, OfIsFinite
    <3>. HIDE DEF A, B
    <3>5. Cardinality(B) <= Cardinality(A)
      BY <2>1, <3>1, FS_Subset
    <3>6. Cardinality(A) + s[i].behind >= Room
      BY <1>3, <2>1, <3>2, <3>4, <3>5
    <3>. QED
      BY <3>6 DEF A
  <2>. QED
    BY <1>2, <2>2, <2>3
<1>. QED
  BY <1>4, <1>5 DEF Spoiled, s

LEMMA ReceiveKeepsArrived ==
  ASSUME TypeOK, Receive
  PROVE  Arrived' = Arrived
<1>1. got \in Seq(Piece) /\ pipe \in Seq(Piece) /\ pipe # <<>>
  BY DEF TypeOK, Receive
<1>2. Head(pipe) \in Piece /\ Tail(pipe) \in Seq(Piece) /\ <<Head(pipe)>> \in Seq(Piece)
  BY <1>1
<1>3. got' = got \o <<Head(pipe)>> /\ pipe' = Tail(pipe)
  BY <1>1, <1>2, AppendIsConcat DEF Receive
<1>4. pipe = <<Head(pipe)>> \o Tail(pipe)
  <2>. DEFINE one == <<Head(pipe)>>
              rest == Tail(pipe)
              both == one \o rest
  <2>1. /\ Len(rest) = Len(pipe) - 1 /\ Len(pipe) \in Nat /\ Head(pipe) = pipe[1]
        /\ \A i \in 1 .. Len(pipe) - 1 : rest[i] = pipe[i + 1]
    BY <1>1
  <2>2. Len(one) = 1 /\ one[1] = pipe[1] /\ one \in Seq(Piece) /\ rest \in Seq(Piece)
    BY <1>2, <2>1
  <2>. HIDE DEF one, rest
  <2>3. /\ both \in Seq(Piece) /\ Len(both) = 1 + Len(rest)
        /\ \A i \in 1 .. 1 + Len(rest) : both[i] = IF i <= 1 THEN one[i] ELSE rest[i - 1]
    <3>1. /\ both \in Seq(Piece) /\ Len(both) = Len(one) + Len(rest)
          /\ \A i \in 1 .. Len(one) + Len(rest) :
               both[i] = IF i <= Len(one) THEN one[i] ELSE rest[i - Len(one)]
      BY <2>2, ConcatProperties
    <3>. HIDE DEF both
    <3>. QED
      BY <2>2, <3>1
  <2>. HIDE DEF both
  <2>4. Len(both) = Len(pipe)
    BY <2>1, <2>3
  <2>5. \A i \in 1 .. Len(pipe) : both[i] = pipe[i]
    <3>. SUFFICES ASSUME NEW i \in 1 .. Len(pipe) PROVE both[i] = pipe[i]
      OBVIOUS
    <3>1. CASE i = 1
      BY <2>1, <2>2, <2>3, <3>1
    <3>2. CASE i # 1
      <4>1. /\ ~(i <= 1) /\ i \in 1 .. 1 + Len(rest)
            /\ i - 1 \in 1 .. Len(pipe) - 1 /\ (i - 1) + 1 = i
        BY <2>1, <3>2
      <4>. QED
        BY <2>1, <2>3, <4>1
    <3>. QED
      BY <3>1, <3>2
  <2>6. both = pipe
    BY <1>1, <2>3, <2>4, <2>5, SeqEqual
  <2>. QED
    BY <2>6 DEF both, rest, one
<1>5. (got \o <<Head(pipe)>>) \o Tail(pipe) = got \o (<<Head(pipe)>> \o Tail(pipe))
  BY <1>1, <1>2, ConcatAssociative
<1>. QED
  BY <1>3, <1>4, <1>5 DEF Arrived

LEMMA RestNext ==
  ASSUME TypeOK, BufferInv, RestInv, [Next]_vars
  PROVE  RestInv'
<1>0. /\ got \in Seq(Piece) /\ pipe \in Seq(Piece) /\ unsent \in Seq(Piece)
      /\ Arrived \in Seq(Piece) /\ Room \in Nat \ {0} /\ Len(handled) \in Nat
  BY SessionAssumption DEF TypeOK, Arrived
<1>1. CASE Arrived' = Arrived /\ UNCHANGED <<unsent, handled>>
  BY <1>1 DEF RestInv, Spoiled, Of
<1>2. CASE UNCHANGED <<got, pipe, unsent, handled>>
  BY <1>1, <1>2 DEF Arrived
<1>3. CASE Receive
  BY <1>1, <1>3, ReceiveKeepsArrived DEF Receive
<1>4. CASE ContinueWrite
  <2>1. unsent # <<>> /\ unsent' = Tail(unsent) /\ handled' = handled /\ got' = got
    BY <1>4 DEF ContinueWrite, BufferInv
  <2>2. PICK intact \in BOOLEAN : pipe' = Append(pipe, [Head(unsent) EXCEPT !.intact = intact])
    BY <1>4 DEF ContinueWrite
  <2>. DEFINE x == [Head(unsent) EXCEPT !.intact = intact]
  <2>3. Head(unsent) = unsent[1] /\ 1 \in DOMAIN unsent /\ Head(unsent) \in Piece
        /\ \A i \in DOMAIN Tail(unsent) : i + 1 \in DOMAIN unsent /\ Tail(unsent)[i] = unsent[i + 1]
    BY <1>0, <2>1
  <2>4. x \in Piece /\ x.re = Len(handled) /\ x.behind = unsent[1].behind
    BY <2>3 DEF Piece, RestInv
  <2>5. pipe' = Append(pipe, x)
    BY <2>2
  <2>. HIDE DEF x
  <2>6. Arrived' = Arrived \o <<x>> /\ <<x>> \in Seq(Piece)
    <3>1. <<x>> \in Seq(Piece)
      BY <2>4
    <3>2. pipe' = pipe \o <<x>>
      BY <1>0, <2>4, <2>5, AppendIsConcat
    <3>3. (got \o pipe) \o <<x>> = got \o (pipe \o <<x>>)
      BY <1>0, <3>1, ConcatAssociative, SMTT(30)
    <3>. QED
      BY <2>1, <3>1, <3>2, <3>3 DEF Arrived
  <2>7. Cardinality(Of(Arrived, Len(handled))) + x.behind >= Room
    BY <2>3, <2>4 DEF RestInv
  <2>8. \A i \in DOMAIN <<x>> : <<x>>[i].re = Len(handled) /\ <<x>>[i].behind = x.behind
    BY <2>4
  <2>9. /\ Spoiled(Arrived \o <<x>>)
        /\ \A re : Cardinality(Of(Arrived \o <<x>>, re)) >= Cardinality(Of(Arrived, re))
    BY <1>0, <2>6, <2>7, <2>8, Follow DEF RestInv
  <2>10. /\ Cardinality(Of(Arrived', Len(handled))) \in Nat /\ Cardinality(Of(Arrived, Len(handled))) \in Nat
         /\ Cardinality(Of(Arrived', Len(handled))) >= Cardinality(Of(Arrived, Len(handled)))
    <3>. DEFINE s == Arrived \o <<x>>
    <3>1. s \in Seq(Piece) /\ Of(s, Len(handled)) \subseteq DOMAIN s
          /\ Of(Arrived, Len(handled)) \subseteq DOMAIN Arrived
      BY <1>0, <2>6, Joined DEF Of
    <3>2. Cardinality(Of(s, Len(handled))) \in Nat /\ Cardinality(Of(Arrived, Len(handled))) \in Nat
      BY <1>0, <3>1, OfIsFinite
    <3>3. Cardinality(Of(s, Len(handled))) >= Cardinality(Of(Arrived, Len(handled)))
      BY <2>9
    <3>4. Arrived' = s
      BY <2>6
    <3>5. Of(Arrived', Len(handled)) = Of(s, Len(handled))
      BY <3>4, Zenon
    <3>. HIDE DEF s
    <3>. QED
      BY <3>2, <3>3, <3>5, Zenon
  <2>11. ASSUME NEW i \in DOMAIN Tail(unsent)
         PROVE  /\ Tail(unsent)[i].re = Len(handled)
                /\ Cardinality(Of(Arrived', Len(handled))) + Tail(unsent)[i].behind >= Room
    <3>0. i + 1 \in DOMAIN unsent /\ Tail(unsent)[i] = unsent[i + 1]
      BY <2>3
    <3>1. i + 1 \in DOMAIN unsent /\ Tail(unsent)[i] = unsent[i + 1] /\ unsent[i + 1].behind \in Nat
      <4>1. unsent[i + 1] \in Piece
        BY <1>0, <3>0
      <4>. QED
        BY <3>0, <4>1 DEF Piece
    <3>2. unsent[i + 1].re = Len(handled)
          /\ Cardinality(Of(Arrived, Len(handled))) + unsent[i + 1].behind >= Room
      BY <3>1 DEF RestInv
    <3>. QED
      BY <1>0, <2>10, <3>1, <3>2
  <2>12. Spoiled(Arrived')
    BY <2>6, <2>9
  <2>. QED
    BY <2>1, <2>11, <2>12 DEF RestInv, Spoiled, Of
<1>5. CASE HandleRead
  <2>1. PICK n \in 1 .. Len(wire) : Waits(Come(n)) \/ Serves(Come(n))
    BY <1>5, ReadStep DEF BufferInv
  <2>. DEFINE d == Come(n)
  <2>2. d \in Seq(Token)
    BY Coming DEF BufferInv
  <2>3. Waits(d) \/ Serves(d)
    BY <2>1
  <2>4. got' = got
    BY <1>5 DEF HandleRead
  <2>. HIDE DEF d
  <2>5. CASE Waits(d)
    BY <1>2, <2>4, <2>5 DEF Waits
  <2>6. ASSUME NEW q \in Seq(Token), NEW valid \in BOOLEAN, NEW length \in Nat \ {0},
               StartReply(q, valid, length)
        PROVE  RestInv'
    <3>0. PICK now \in 0 .. length :
            /\ now < length => now + Len(pipe) >= Room
            /\ handled' = Append(handled, [request |-> q, valid |-> valid])
            /\ pipe' = pipe \o SubSeq(Pieces(length), 1, now)
            /\ unsent' = SubSeq(Pieces(length), now + 1, length) /\ unsent' \in Seq(Piece)
            /\ Len(unsent') = length - now
      BY <2>6, ReplyEffect
    <3>. DEFINE first == SubSeq(Pieces(length), 1, now)
    <3>1. /\ handled' = Append(handled, [request |-> q, valid |-> valid])
          /\ now \in 0 .. length
          /\ pipe' = pipe \o first
          /\ unsent' = SubSeq(Pieces(length), now + 1, length)
      BY <3>0
    <3>2. Len(handled') = Len(handled) + 1
      <4>1. [request |-> q, valid |-> valid] \in Handled /\ handled \in Seq(Handled)
        BY DEF Handled, TypeOK
      <4>. QED
        BY <3>1, <4>1
    <3>3. /\ Pieces(length) \in Seq(Piece) /\ Len(Pieces(length)) = length
          /\ \A i \in 1 .. length : /\ Pieces(length)[i].re = Len(handled) + 1 /\ Pieces(length)[i].intact
                                   /\ Pieces(length)[i].behind = Len(pipe)
      BY PiecesType
    <3>4. /\ first \in Seq(Piece) /\ Len(first) = now /\ DOMAIN first = 1 .. now
          /\ \A i \in 1 .. now : first[i].re = Len(handled) + 1 /\ first[i].intact
      BY <3>1, <3>3
    <3>5. \A i \in DOMAIN unsent' : unsent'[i].re = Len(handled') /\ unsent'[i].behind = Len(pipe)
      <4>1. /\ DOMAIN unsent' = 1 .. length - now
            /\ \A i \in 1 .. length - now : unsent'[i] = Pieces(length)[i + now]
        BY <3>1, <3>3, SMTT(30)
      <4>2. \A i \in 1 .. length - now : i + now \in 1 .. length
        BY <3>1
      <4>. QED
        BY <3>2, <3>3, <4>1, <4>2
    <3>7. \A i \in DOMAIN unsent' : now + Len(pipe) >= Room
      <4>1. DOMAIN unsent' = 1 .. length - now
        BY <3>0
      <4>. QED
        BY <3>0, <4>1
    <3>. HIDE DEF first
    <3>8. Arrived' = Arrived \o first
      <4>1. (got \o pipe) \o first = got \o (pipe \o first)
        <5>1. got \in Seq(Piece) /\ pipe \in Seq(Piece) /\ first \in Seq(Piece)
          BY <1>0, <3>4
        <5>. QED
          BY <5>1, ConcatAssociative
      <4>. QED
        BY <2>4, <3>1, <4>1 DEF Arrived
    <3>9. Spoiled(Arrived \o first)
      BY <1>0, <3>4, Follow DEF RestInv
    <3>10. /\ Cardinality(Of(Arrived \o first, Len(handled) + 1)) \in Nat
           /\ Cardinality(Of(Arrived \o first, Len(handled) + 1)) >= now
      <4>. DEFINE s == Arrived \o first
                  from == Len(Arrived)
                  new == from + 1 .. from + now
      <4>1. from \in Nat
        BY <1>0
      <4>2. /\ s \in Seq(Piece) /\ DOMAIN s = 1 .. from + now
            /\ \A i \in 1 .. from + now : from < i => i - from \in 1 .. now /\ s[i] = first[i - from]
        <5>1. first \in Seq(Piece) /\ Len(first) = now
          BY <3>4
        <5>2. /\ s \in Seq(Piece) /\ DOMAIN s = 1 .. from + now
              /\ \A i \in DOMAIN s :
                   \/ i \in DOMAIN Arrived
                   \/ from < i /\ i - from \in DOMAIN first /\ s[i] = first[i - from]
          <6>1. Arrived \in Seq(Piece)
            BY <1>0
          <6>2. /\ s \in Seq(Piece) /\ DOMAIN s = 1 .. from + Len(first)
                /\ \A i \in DOMAIN s :
                     \/ i \in DOMAIN Arrived /\ s[i] = Arrived[i]
                     \/ from < i /\ i - from \in DOMAIN first /\ s[i] = first[i - from]
            BY <5>1, <6>1, Joined
          <6>. HIDE DEF s, from
          <6>. QED
            BY <5>1, <6>2
        <5>3. DOMAIN Arrived = 1 .. from
          BY <1>0
        <5>. HIDE DEF s, from
        <5>. QED
          <6>1. now \in Nat /\ DOMAIN first = 1 .. now
            BY <1>0, <3>4, <5>1
          <6>2. ASSUME NEW i \in 1 .. from + now, from < i
                PROVE  i - from \in 1 .. now /\ s[i] = first[i - from]
            <7>1. i \notin DOMAIN Arrived /\ i \in DOMAIN s
              BY <4>1, <5>2, <5>3, <6>2
            <7>2. i - from \in DOMAIN first /\ s[i] = first[i - from]
              BY <5>2, <7>1
            <7>. QED
              BY <6>1, <7>2
          <6>. QED
            BY <5>2, <6>2
      <4>. HIDE DEF s, from
      <4>3. new \subseteq Of(s, Len(handled) + 1)
        BY <1>0, <3>4, <4>1, <4>2 DEF Of
      <4>4. Cardinality(new) = now
        <5>1. from + 1 \in Int /\ from + now \in Int /\ now \in Nat
          BY <3>1, <4>1
        <5>2. CASE now = 0
          <6>1. from + 1 > from + now
            BY <4>1, <5>2
          <6>. QED
            BY <5>1, <5>2, <6>1, FS_Interval
        <5>3. CASE now # 0
          <6>1. ~(from + 1 > from + now) /\ (from + now) - (from + 1) + 1 = now
            BY <4>1, <5>1, <5>3
          <6>. QED
            BY <5>1, <6>1, FS_Interval
        <5>. QED
          BY <5>2, <5>3
      <4>5. Of(s, Len(handled) + 1) \subseteq DOMAIN s
        BY DEF Of
      <4>6. IsFiniteSet(Of(s, Len(handled) + 1)) /\ Cardinality(Of(s, Len(handled) + 1)) \in Nat
        BY <4>2, <4>5, OfIsFinite
      <4>. HIDE DEF new
      <4>7. Cardinality(new) <= Cardinality(Of(s, Len(handled) + 1))
        BY <4>3, <4>6, FS_Subset
      <4>8. Cardinality(Of(s, Len(handled) + 1)) >= now
        BY <4>4, <4>6, <4>7
      <4>. QED
        BY <4>6, <4>8 DEF s
    <3>11. /\ Spoiled(Arrived')
           /\ \A i \in DOMAIN unsent' : Cardinality(Of(Arrived', Len(handled'))) + Len(pipe) >= Room
      <4>1. now \in Nat /\ Len(pipe) \in Nat
        BY <1>0, <3>1
      <4>. QED
        BY <1>0, <3>2, <3>7, <3>8, <3>9, <3>10, <4>1
    <3>. QED
      BY <3>5, <3>11 DEF RestInv, Spoiled, Of
  <2>7. \A m \in 1 .. Len(d) : SubSeq(d, 1, m) \in Seq(Token)
    BY <2>2
  <2>. QED
    BY <2>3, <2>5, <2>6, <2>7 DEF Serves
<1>6. CASE Send \/ Disconnect \/ HandleWrite \/ OperationFails \/ UNCHANGED vars
  BY <1>2, <1>6 DEF Send, Disconnect, HandleWrite, OperationFails, vars
<1>. QED
  BY <1>3, <1>4, <1>5, <1>6 DEF Next, Client, Server

LEMMA RestAlways == Spec => []RestInv
<1>1. Init => RestInv
  <2>1. DOMAIN <<>> = {} /\ <<>> \o <<>> = <<>>
    OBVIOUS
  <2>. QED
    BY <2>1, Zenon DEF Init, RestInv, Spoiled, Arrived
<1>2. TypeOK /\ BufferInv /\ RestInv /\ [Next]_vars => RestInv'
  BY RestNext
<1>. QED
  BY <1>1, <1>2, BufferAlways, PTL DEF Spec

(***************************************************************************)
(* Whatever the size of a reply and of the buffers, and whatever a client  *)
(* leaves unread, a piece that arrives spoiled was one too many for the    *)
(* send buffer when its reply was started: with the pieces of that reply   *)
(* before it and those unread then, there are Room or more.                *)
(***************************************************************************)
THEOREM FirstWritesArriveIntact == Spec => []OnlyRestsSpoiled
<1>1. RestInv => OnlyRestsSpoiled
  BY DEF RestInv, Spoiled, Arrived, OnlyRestsSpoiled
<1>. QED
  BY <1>1, RestAlways, PTL

-----------------------------------------------------------------------------
(* Where a message ends, while it comes. *)

LEMMA MinIs ==
  ASSUME NEW S, S \subseteq Nat, NEW x \in S, \A y \in S : x <= y
  PROVE  Min(S) = x
<1>1. Min(S) \in S /\ Min(S) <= x
  BY LeastIsMin
<1>2. Min(S) \in Nat /\ x \in Nat /\ x <= Min(S)
  BY <1>1
<1>. QED
  BY <1>1, <1>2

(* What came of message m, and nothing else. *)
Begins(d, m) ==
  /\ d \in Seq(Token) /\ Len(d) \in 1 .. Len(Script[m].parts)
  /\ \A i \in 1 .. Len(d) : d[i] = [of |-> m, at |-> i]

LEMMA HeadFound ==
  ASSUME NEW m, NEW d, Begins(d, m),
         NEW e \in DOMAIN Script[m].parts, Script[m].parts \in Seq(Part),
         HeadIs(Script[m].parts, e), BodyIs(Script[m].parts, e, Script[m].body)
  PROVE  /\ \A names : At(d, names) = {i \in 1 .. Len(d) : Script[m].parts[i] \in names}
         /\ HeaderEnd(d) = IF e <= Len(d) THEN e ELSE 0
         /\ Malformed(d) <=> Script[m].parts[1] # "line"
<1>. DEFINE parts == Script[m].parts
<1>1. /\ d \in Seq(Token) /\ Len(d) \in Nat /\ DOMAIN d = 1 .. Len(d) /\ Len(d) >= 1
      /\ Len(parts) \in Nat /\ Len(d) <= Len(parts) /\ e \in 1 .. Len(parts)
  BY DEF Begins
<1>2. \A i \in 1 .. Len(d) : PartOf(d[i]) = parts[i]
  <2>. SUFFICES ASSUME NEW i \in 1 .. Len(d) PROVE PartOf(d[i]) = parts[i]
    OBVIOUS
  <2>1. d[i] = [of |-> m, at |-> i]
    BY DEF Begins
  <2>2. d[i].of = m /\ d[i].at = i
    BY <2>1
  <2>. QED
    BY <2>2, Zenon DEF PartOf
<1>3. \A names : At(d, names) = {i \in 1 .. Len(d) : parts[i] \in names}
  BY <1>1, <1>2 DEF At
<1>4. \A i \in 1 .. Len(d) :
        /\ i < e => parts[i] \in {"line", "badline", "host", "length", "junk"}
        /\ i > e => parts[i] \in {"data", "gap"} /\ (parts[e] = "lf_end" => parts[i] = "data")
        /\ parts[e] \in {"end", "lf_end"}
  <2>1. ASSUME NEW i \in 1 .. Len(d), i < e
        PROVE  parts[i] \in {"line", "badline", "host", "length", "junk"}
    <3>1. i = 1 \/ i \in 2 .. e - 1
      BY <1>1, <2>1
    <3>. QED
      BY <3>1 DEF HeadIs
  <2>2. ASSUME NEW i \in 1 .. Len(d), i > e
        PROVE  parts[i] \in {"data", "gap"} /\ (parts[e] = "lf_end" => parts[i] = "data")
    <3>1. i \in e + 1 .. Len(parts)
      BY <1>1, <2>2
    <3>. QED
      BY <3>1 DEF BodyIs
  <2>. QED
    BY <2>1, <2>2 DEF HeadIs
<1>. HIDE DEF parts
<1>5. /\ parts[1] \in {"line", "badline"} /\ parts[e] \in {"end", "lf_end"} /\ e > 1
  BY DEF HeadIs, parts
<1>6. Malformed(d) <=> parts[1] # "line"
  <2>1. 1 \in At(d, {"line", "badline"})
    BY <1>1, <1>3, <1>5
  <2>2. PartOf(d[1]) = parts[1]
    BY <1>1, <1>2
  <2>. QED
    BY <2>1, <2>2 DEF Malformed
<1>7. CASE ~(e <= Len(d))
  <2>1. At(d, {"end", "gap"}) = {} /\ At(d, {"lf_end"}) = {}
    <3>1. \A i \in 1 .. Len(d) : parts[i] \in {"line", "badline", "host", "length", "junk"}
      BY <1>1, <1>4, <1>7
    <3>. QED
      BY <1>3, <3>1
  <2>. QED
    BY <1>3, <1>6, <1>7, <2>1 DEF HeaderEnd, parts
<1>8. CASE e <= Len(d) /\ parts[e] = "end"
  <2>. DEFINE S == At(d, {"end", "gap"})
  <2>1. S \subseteq Nat /\ e \in S
    BY <1>1, <1>3, <1>8
  <2>2. \A i \in S : e <= i
    <3>. SUFFICES ASSUME NEW i \in 1 .. Len(d), parts[i] \in {"end", "gap"} PROVE ~(i < e)
      BY <1>1, <1>3
    <3>. QED
      BY <1>4
  <2>. HIDE DEF S
  <2>3. Min(S) = e /\ S # {}
    BY <2>1, <2>2, MinIs
  <2>4. HeaderEnd(d) = e
    BY <2>3 DEF HeaderEnd, S
  <2>. QED
    BY <1>3, <1>6, <1>8, <2>4 DEF parts
<1>9. CASE e <= Len(d) /\ parts[e] = "lf_end"
  <2>. DEFINE S == At(d, {"lf_end"})
  <2>1. S \subseteq Nat /\ e \in S
    BY <1>1, <1>3, <1>9
  <2>2. \A i \in S : e <= i
    <3>. SUFFICES ASSUME NEW i \in 1 .. Len(d), parts[i] \in {"lf_end"} PROVE ~(i < e)
      BY <1>1, <1>3
    <3>. QED
      BY <1>4
  <2>3. At(d, {"end", "gap"}) = {}
    <3>. SUFFICES ASSUME NEW i \in 1 .. Len(d) PROVE parts[i] \notin {"end", "gap"}
      BY <1>3
    <3>1. i < e \/ i = e \/ i > e
      BY <1>1
    <3>. QED
      BY <1>4, <1>9, <3>1
  <2>. HIDE DEF S
  <2>4. Min(S) = e /\ S # {}
    BY <2>1, <2>2, MinIs
  <2>5. HeaderEnd(d) = e
    BY <2>3, <2>4 DEF HeaderEnd, S
  <2>. QED
    BY <1>3, <1>6, <1>9, <2>5 DEF parts
<1>. QED
  BY <1>5, <1>7, <1>8, <1>9

(***************************************************************************)
(* A message of the rules is complete when all of it is there, and not     *)
(* before: with a bad method when its head is.                             *)
(***************************************************************************)
LEMMA EndFound ==
  ASSUME NEW m \in DOMAIN Script, HttpMessage(m), Framed(m), NEW d, Begins(d, m)
  PROVE  /\ Len(d) = Len(Script[m].parts) =>
              /\ HeaderEnd(d) # 0 /\ (Malformed(d) <=> Script[m].parts[1] # "line")
              /\ Script[m].parts[1] = "line" =>
                   ~LengthIsJunk(d) /\ Complete(d) /\ ExpectedTotal(d) = Len(d)
         /\ Len(d) # Len(Script[m].parts) =>
              ~(HeaderEnd(d) # 0 /\ (Malformed(d) \/ LengthIsJunk(d))) /\ ~Complete(d)
<1>. DEFINE parts == Script[m].parts
<1>1. m \in Nat /\ Script[m] \in Message
  BY SessionAssumption
<1>2. parts \in Seq(Part) /\ Script[m].body \in Nat
  BY <1>1 DEF Message
<1>3. PICK e \in DOMAIN parts : HeadIs(parts, e) /\ BodyIs(parts, e, Script[m].body)
  BY DEF HttpMessage
<1>4. /\ \A names : At(d, names) = {i \in 1 .. Len(d) : parts[i] \in names}
      /\ HeaderEnd(d) = IF e <= Len(d) THEN e ELSE 0
      /\ Malformed(d) <=> parts[1] # "line"
  BY <1>2, <1>3, HeadFound
<1>5. /\ Len(d) \in Nat /\ Len(d) >= 1 /\ Len(parts) \in Nat /\ Len(d) <= Len(parts)
      /\ e \in Nat /\ 1 < e /\ e <= Len(parts) /\ DOMAIN parts = 1 .. Len(parts)
      /\ \A i \in 1 .. Len(d) : d[i] = [of |-> m, at |-> i]
  BY <1>2, <1>3 DEF Begins, HeadIs
<1>6. CASE ~(e <= Len(d))
  BY <1>4, <1>5, <1>6 DEF Complete
<1>7. CASE e <= Len(d)
  <2>1. HeaderEnd(d) = e /\ HeaderEnd(d) # 0
    BY <1>4, <1>5, <1>7
  <2>2. CASE parts[1] # "line"
    <3>1. Len(parts) = e
      BY <1>2, <1>3, <1>5, <2>2 DEF BodyIs
    <3>. QED
      BY <1>4, <1>5, <1>7, <2>1, <2>2, <3>1
  <2>3. CASE parts[1] = "line"
    <3>. DEFINE lines == {i \in At(d, {"length", "junk"}) : i < HeaderEnd(d)}
    <3>1. lines = {i \in 2 .. e - 1 : parts[i] = "length"}
      <4>1. \A i \in 1 .. Len(d) : parts[i] # "junk"
        BY <1>5 DEF Framed
      <4>2. \A i : i \in lines <=> i \in 1 .. Len(d) /\ parts[i] = "length" /\ i < e
        BY <1>4, <2>1, <4>1
      <4>3. \A i : i \in 1 .. Len(d) /\ parts[i] = "length" /\ i < e => i \in 2 .. e - 1
        BY <1>5, <2>3
      <4>4. \A i \in 2 .. e - 1 : i \in 1 .. Len(d) /\ i < e
        BY <1>5, <1>7
      <4>. HIDE DEF lines, parts
      <4>. QED
        BY <4>2, <4>3, <4>4
    <3>2. LengthLine(d) = IF lines = {} \/ Min(lines) = e - 1 THEN 0 ELSE Min(lines)
      BY <2>1 DEF LengthLine
    <3>3. lines # {} => /\ Min(lines) \in 2 .. e - 1 /\ parts[Min(lines)] = "length"
                        /\ Min(lines) # e - 1
      <4>. SUFFICES ASSUME lines # {}
                    PROVE  /\ Min(lines) \in 2 .. e - 1 /\ parts[Min(lines)] = "length"
                           /\ Min(lines) # e - 1
        OBVIOUS
      <4>1. lines \subseteq Nat
        BY <1>5, <3>1
      <4>2. Min(lines) \in lines
        BY <4>1, LeastIsMin
      <4>3. Min(lines) \in 2 .. e - 1 /\ parts[Min(lines)] = "length"
        BY <3>1, <4>2
      <4>4. parts[Min(lines) + 1] \notin {"end", "lf_end"}
        BY <1>5, <4>3 DEF Framed
      <4>5. (e - 1) + 1 = e /\ parts[e] \in {"end", "lf_end"}
        BY <1>3, <1>5 DEF HeadIs
      <4>. QED
        BY <4>3, <4>4, <4>5
    <3>4. Len(parts) = e + (IF lines # {} THEN Script[m].body ELSE 0)
      <4>1. (\E i \in 2 .. e - 1 : parts[i] = "length") <=> lines # {}
        BY <3>1
      <4>2. Len(parts) = e + (IF parts[1] = "line" /\ \E i \in 2 .. e - 1 : parts[i] = "length"
                              THEN Script[m].body ELSE 0)
        BY <1>3 DEF BodyIs
      <4>. QED
        BY <2>3, <4>1, <4>2
    <3>. HIDE DEF lines
    <3>5. ~LengthIsJunk(d) /\ ContentLength(d) = IF lines # {} THEN Script[m].body ELSE 0
      <4>1. CASE lines = {}
        BY <3>2, <4>1 DEF LengthIsJunk, ContentLength
      <4>2. CASE lines # {}
        <5>1. LengthLine(d) = Min(lines) /\ LengthLine(d) # 0 /\ LengthLine(d) \in 1 .. Len(d)
          BY <1>5, <1>7, <3>2, <3>3, <4>2
        <5>2. d[LengthLine(d)] = [of |-> m, at |-> LengthLine(d)]
          BY <1>5, <5>1
        <5>3. PartOf(d[LengthLine(d)]) = "length" /\ d[LengthLine(d)].of = m
          BY <3>3, <4>2, <5>1, <5>2 DEF PartOf
        <5>. QED
          BY <4>2, <5>1, <5>3 DEF LengthIsJunk, ContentLength
      <4>. QED
        BY <4>1, <4>2
    <3>6. ExpectedTotal(d) = Len(parts)
      BY <2>1, <3>4, <3>5 DEF ExpectedTotal
    <3>. QED
      BY <1>4, <1>5, <2>1, <2>3, <3>5, <3>6 DEF Complete
  <2>. QED
    BY <2>2, <2>3
<1>. QED
  BY <1>6, <1>7

-----------------------------------------------------------------------------
(* The refinement of Exchange. *)

(* The message that the client sent and the server has not handled. *)
Unhandled == IF sent = Len(handled) THEN <<>> ELSE TokensOf(sent)

(* The pieces that the client has not received. *)
Rest == pipe \o unsent

(***************************************************************************)
(* While the client keeps to the rules, at most one message is not         *)
(* handled, which is what lies in request_data and on the wire, and at     *)
(* most one reply is on its way, the last, and never both.                 *)
(***************************************************************************)
MessageInv ==
  /\ Len(handled) <= sent /\ sent <= Len(handled) + 1
  /\ sent # Len(handled) => Framed(sent) /\ Rest = <<>>
  /\ phase = "reading" => data \o wire = Unhandled
  /\ phase \in {"writing", "written"} => wire = Unhandled

ReplyInv ==
  /\ \A i \in DOMAIN Rest :
       Rest[i].re = Len(handled) /\ (Rest[i].last <=> i = Len(Rest))
  /\ Cardinality(ReplyEnds) = IF Rest = <<>> THEN Len(handled) ELSE Len(handled) - 1
  /\ \A k \in 1 .. Cardinality(ReplyEnds) : EndOf(k) \in ReplyEnds /\ got[EndOf(k)].re = k

(* A reply that the socket takes at once has no rest to be spoiled. *)
Shorts == {m \in DOMAIN Script : Script[m].reply <= Room}

ShortInv ==
  /\ \A i \in DOMAIN Arrived : Arrived[i].re \in Shorts => Arrived[i].intact
  /\ unsent # <<>> => Len(handled) \notin Shorts

ExchangeInv == kept => MessageInv /\ ReplyInv /\ ShortInv

LEMMA EndsAreFinite ==
  ASSUME TypeOK, NEW S, S \subseteq ReplyEnds
  PROVE  IsFiniteSet(S) /\ Cardinality(S) \in Nat
<1>1. got \in Seq(Piece) /\ S \subseteq DOMAIN got
  BY DEF TypeOK, ReplyEnds
<1>. QED
  BY <1>1, OfIsFinite

(* One piece more. *)
LEMMA NextEnd ==
  ASSUME TypeOK, NEW x \in Piece, got' = Append(got, x)
  PROVE  /\ ReplyEnds' = IF x.last THEN ReplyEnds \cup {Len(got) + 1} ELSE ReplyEnds
         /\ \A i \in DOMAIN got : got'[i] = got[i]
         /\ got'[Len(got) + 1] = x /\ DOMAIN got' = 1 .. Len(got) + 1
         /\ Cardinality(ReplyEnds') = Cardinality(ReplyEnds) + IF x.last THEN 1 ELSE 0
         /\ \A k \in 1 .. Cardinality(ReplyEnds) : EndOf(k)' = EndOf(k)
         /\ \A k : x.last /\ k = Cardinality(ReplyEnds) + 1 => EndOf(k)' = Len(got) + 1
<1>. DEFINE n == Len(got) + 1
            card == Cardinality(ReplyEnds)
<1>1. /\ got \in Seq(Piece) /\ Len(got) \in Nat /\ DOMAIN got = 1 .. Len(got) /\ n \in Nat
      /\ DOMAIN got' = 1 .. n /\ got'[n] = x /\ \A i \in 1 .. Len(got) : got'[i] = got[i]
  BY DEF TypeOK
<1>2. ReplyEnds' = IF x.last THEN ReplyEnds \cup {n} ELSE ReplyEnds
  <2>1. \A i \in 1 .. n : i \in 1 .. Len(got) \/ i = n
    BY <1>1
  <2>2. n \notin 1 .. Len(got) /\ 1 .. Len(got) \subseteq 1 .. n /\ n \in 1 .. n
    BY <1>1
  <2>. HIDE DEF n
  <2>. QED
    BY <1>1, <2>1, <2>2 DEF ReplyEnds
<1>3. IsFiniteSet(ReplyEnds) /\ card \in Nat
  BY EndsAreFinite
<1>4. \A i \in ReplyEnds : i \in Nat /\ i < n
  BY <1>1 DEF ReplyEnds
<1>5. Cardinality(ReplyEnds') = card + IF x.last THEN 1 ELSE 0
  <2>1. n \notin ReplyEnds
    BY <1>1, <1>4
  <2>2. Cardinality(ReplyEnds \cup {n}) = card + 1
    BY <1>3, <2>1, FS_AddElement
  <2>. QED
    BY <1>2, <1>3, <2>2
<1>6. ASSUME NEW i \in ReplyEnds PROVE {j \in ReplyEnds' : j <= i} = {j \in ReplyEnds : j <= i}
  <2>1. ~(n <= i)
    BY <1>1, <1>4
  <2>. HIDE DEF n
  <2>. QED
    BY <1>2, <2>1
<1>7. \A i \in ReplyEnds : Cardinality({j \in ReplyEnds : j <= i}) <= card
  <2>. SUFFICES ASSUME NEW i \in ReplyEnds PROVE Cardinality({j \in ReplyEnds : j <= i}) <= card
    OBVIOUS
  <2>. QED
    BY <1>3, FS_Subset
<1>8. x.last => Cardinality({j \in ReplyEnds' : j <= n}) = card + 1
  <2>1. \A j \in ReplyEnds : j <= n
    BY <1>1, <1>4
  <2>2. n <= n
    BY <1>1
  <2>3. x.last => {j \in ReplyEnds' : j <= n} = ReplyEnds'
    BY <1>2, <2>1, <2>2
  <2>. QED
    BY <1>3, <1>5, <2>3
<1>9. ASSUME NEW k \in 1 .. card PROVE EndOf(k)' = EndOf(k)
  <2>1. ASSUME NEW i
        PROVE  (i \in ReplyEnds' /\ Cardinality({j \in ReplyEnds' : j <= i}) = k)
               <=> (i \in ReplyEnds /\ Cardinality({j \in ReplyEnds : j <= i}) = k)
    <3>1. CASE i \in ReplyEnds
      <4>1. i \in ReplyEnds'
        BY <1>2, <3>1
      <4>. QED
        BY <1>6, <3>1, <4>1
    <3>2. CASE i \notin ReplyEnds
      <4>. SUFFICES ASSUME i \in ReplyEnds' PROVE Cardinality({j \in ReplyEnds' : j <= i}) # k
        BY <3>2
      <4>1. x.last /\ i = n
        BY <1>2, <3>2
      <4>2. Cardinality({j \in ReplyEnds' : j <= i}) = card + 1
        BY <1>8, <4>1
      <4>. QED
        BY <1>3, <4>2
    <3>. QED
      BY <3>1, <3>2
  <2>. QED
    BY <2>1 DEF EndOf
<1>10. ASSUME NEW k, x.last, k = card + 1 PROVE EndOf(k)' = n
  <2>. DEFINE P(i) == i \in ReplyEnds' /\ Cardinality({j \in ReplyEnds' : j <= i}) = k
  <2>1. P(n)
    BY <1>2, <1>8, <1>10
  <2>2. ASSUME NEW i, P(i) PROVE i = n
    <3>1. i \in ReplyEnds => Cardinality({j \in ReplyEnds' : j <= i}) <= card
      BY <1>6, <1>7
    <3>2. i \notin ReplyEnds
      BY <1>3, <1>10, <2>2, <3>1
    <3>. QED
      BY <1>2, <2>2, <3>2
  <2>3. EndOf(k)' = CHOOSE i : P(i)
    BY DEF EndOf
  <2>. HIDE DEF P
  <2>. QED
    BY <2>1, <2>2, <2>3
<1>. QED
  BY <1>1, <1>2, <1>5, <1>9, <1>10

HttpScript == \A m \in DOMAIN Script : HttpMessage(m)

(* Handling sent, or still waiting for the rest of it. *)
StillWaits ==
  UNCHANGED <<phase, handled, unsent, pipe>> /\ data' \o wire' = TokensOf(sent)

HandlesIt ==
  /\ wire' = <<>>
  /\ \E length \in Nat \ {0} :
       /\ StartReply(TokensOf(sent), Script[sent].parts[1] = "line", length)
       /\ sent \in Shorts => length <= Room

LEMMA PoliteRead ==
  ASSUME TypeOK, BufferInv, HttpScript, MessageInv, HandleRead
  PROVE  /\ sent = Len(handled) + 1 /\ sent \in DOMAIN Script /\ Rest = <<>>
         /\ StillWaits \/ HandlesIt
<1>1. PICK n \in 1 .. Len(wire) : Process(Come(n)) /\ wire' = SubSeq(wire, n + 1, Len(wire))
  BY DEF HandleRead, Come
<1>. DEFINE d == Come(n)
            t == TokensOf(sent)
<1>2. /\ data \in Seq(Token) /\ wire \in Seq(Token) /\ Len(wire) \in Nat /\ Len(data) \in Nat
      /\ n \in 1 .. Len(wire) /\ n \in Nat /\ sent \in Nat /\ Len(handled) \in Nat
      /\ Len(Script) \in Nat /\ sent <= Len(Script) /\ DOMAIN Script = 1 .. Len(Script)
  BY SessionAssumption DEF TypeOK
<1>3. data \o wire = Unhandled /\ phase = "reading"
  BY DEF HandleRead, MessageInv
<1>4. sent # Len(handled)
  <2>1. Len(data \o wire) = Len(data) + Len(wire)
    BY <1>2, ConcatProperties
  <2>2. Len(data \o wire) # 0
    BY <1>2, <2>1
  <2>. QED
    BY <1>3, <2>2 DEF Unhandled
<1>5. sent = Len(handled) + 1 /\ sent \in DOMAIN Script /\ Framed(sent) /\ Rest = <<>>
  BY <1>2, <1>4 DEF MessageInv
<1>6. data \o wire = t
  BY <1>3, <1>4 DEF Unhandled
<1>7. d \in Seq(Token) /\ Len(d) = Len(data) + n /\ Len(d) \in Nat \ {0}
  BY <1>2, Coming DEF BufferInv
<1>8. wire' \in Seq(Token) /\ Len(wire') = Len(wire) - n
  BY <1>1, <1>2
<1>9. d \o wire' = t
  <2>. DEFINE new == SubSeq(wire, 1, n)
              rest == SubSeq(wire, n + 1, Len(wire))
  <2>1. new \in Seq(Token) /\ rest \in Seq(Token)
    BY <1>2
  <2>2. new \o rest = wire
    <3>1. 1 \in 1 .. Len(wire) + 1 /\ n \in 1 - 1 .. Len(wire) /\ Len(wire) \in n .. Len(wire)
      BY <1>2
    <3>2. new \o rest = SubSeq(wire, 1, Len(wire))
      BY <1>2, <3>1, ConcatAdjacentSubSeq
    <3>. QED
      BY <1>2, <3>2, SubSeqFull
  <2>3. d = data \o new /\ wire' = rest
    BY <1>1 DEF Come
  <2>. HIDE DEF new, rest, d
  <2>4. (data \o new) \o rest = data \o (new \o rest)
    <3>1. data \in Seq(Token) /\ new \in Seq(Token) /\ rest \in Seq(Token)
      BY <1>2, <2>1
    <3>. QED
      BY <3>1, ConcatAssociative
  <2>. QED
    BY <1>6, <2>2, <2>3, <2>4
<1>. DEFINE parts == Script[sent].parts
<1>10. /\ parts \in Seq(Part) /\ Len(parts) \in Nat /\ Len(t) = Len(parts)
       /\ t \in Seq(Token) /\ DOMAIN t = 1 .. Len(parts)
       /\ \A i \in 1 .. Len(parts) : t[i] = [of |-> sent, at |-> i]
  <2>1. Script[sent] \in Message
    BY <1>5, SentInScript, SessionAssumption
  <2>2. parts \in Seq(Part)
    BY <2>1 DEF Message
  <2>3. t \in Seq(Token)
    BY <1>5, TokensType
  <2>4. DOMAIN t = 1 .. Len(parts) /\ Len(parts) \in Nat
    BY <2>2 DEF TokensOf
  <2>5. Len(t) = Len(parts)
    BY <2>3, <2>4, LenProperties
  <2>6. \A i \in 1 .. Len(parts) : t[i] = [of |-> sent, at |-> i]
    BY <1>5, <2>4, TokensType
  <2>. QED
    BY <2>2, <2>3, <2>4, <2>5, <2>6
<1>11. d \in Seq(Token) /\ wire' \in Seq(Token)
  BY <1>7, <1>8
<1>. HIDE DEF d
<1>12. /\ Len(t) = Len(d) + Len(wire')
       /\ \A i \in 1 .. Len(d) + Len(wire') : i <= Len(d) => t[i] = d[i]
  <2>1. /\ Len(d \o wire') = Len(d) + Len(wire')
        /\ \A i \in 1 .. Len(d) + Len(wire') :
             (d \o wire')[i] = IF i <= Len(d) THEN d[i] ELSE wire'[i - Len(d)]
    BY <1>11, ConcatProperties
  <2>. HIDE DEF t
  <2>. QED
    BY <1>9, <2>1
<1>13. /\ Begins(d, sent)
       /\ Len(d) = Len(parts) => wire' = <<>> /\ d = t
  <2>1. Len(wire') \in Nat
    BY <1>11
  <2>2. Len(d) \in 1 .. Len(parts)
    BY <1>7, <1>10, <1>12, <2>1
  <2>3. \A i \in 1 .. Len(d) : d[i] = [of |-> sent, at |-> i]
    <3>. SUFFICES ASSUME NEW i \in 1 .. Len(d) PROVE d[i] = [of |-> sent, at |-> i]
      OBVIOUS
    <3>1. i \in 1 .. Len(d) + Len(wire') /\ i <= Len(d) /\ i \in 1 .. Len(parts)
      BY <1>7, <1>10, <1>12, <2>1
    <3>. HIDE DEF t, parts
    <3>. QED
      BY <1>10, <1>12, <3>1
  <2>4. ASSUME Len(d) = Len(parts) PROVE wire' = <<>> /\ d = t
    <3>1. Len(wire') = 0
      BY <1>7, <1>10, <1>12, <2>1, <2>4
    <3>2. wire' = <<>>
      BY <1>11, <3>1, EmptySeq
    <3>3. d \o <<>> = d
      BY <1>11, ConcatEmptySeq
    <3>. QED
      BY <1>9, <3>2, <3>3
  <2>. QED
    BY <1>11, <2>2, <2>3, <2>4 DEF Begins
<1>14. /\ Len(d) = Len(parts) =>
            /\ HeaderEnd(d) # 0 /\ (Malformed(d) <=> parts[1] # "line")
            /\ parts[1] = "line" => ~LengthIsJunk(d) /\ Complete(d) /\ ExpectedTotal(d) = Len(d)
       /\ Len(d) # Len(parts) =>
            ~(HeaderEnd(d) # 0 /\ (Malformed(d) \/ LengthIsJunk(d))) /\ ~Complete(d)
  BY <1>5, <1>13, EndFound DEF HttpScript
<1>15. Process(d)
  BY <1>1 DEF d
<1>16. CASE Len(d) # Len(parts)
  <2>1. data' = d /\ UNCHANGED <<phase, handled, unsent, pipe>>
    BY <1>14, <1>15, <1>16 DEF Process
  <2>. QED
    BY <1>5, <1>9, <2>1 DEF StillWaits
<1>17. CASE Len(d) = Len(parts) /\ parts[1] # "line"
  <2>1. StartReply(d, FALSE, 1)
    BY <1>14, <1>15, <1>17 DEF Process
  <2>2. StartReply(t, parts[1] = "line", 1)
    <3>1. (parts[1] = "line") = FALSE
      BY <1>17
    <3>. QED
      BY <1>13, <1>17, <2>1, <3>1
  <2>3. 1 \in Nat \ {0} /\ 1 <= Room
    BY SessionAssumption
  <2>. QED
    BY <1>5, <1>13, <1>17, <2>2, <2>3 DEF HandlesIt
<1>18. CASE Len(d) = Len(parts) /\ parts[1] = "line"
  <2>1. SubSeq(d, 1, ExpectedTotal(d)) = d
    BY <1>11, <1>14, <1>18, SubSeqFull
  <2>2. StartReply(d, TRUE, ReplyLength(d))
    BY <1>14, <1>15, <1>18, <2>1 DEF Process
  <2>3. ReplyLength(d) = Script[sent].reply
    <3>1. d[1] = [of |-> sent, at |-> 1]
      BY <1>7, <1>13 DEF Begins
    <3>2. d[1].of = sent /\ d[1].at = 1
      BY <3>1
    <3>. QED
      BY <1>18, <3>2 DEF ReplyLength, PartOf
  <2>4. StartReply(t, parts[1] = "line", Script[sent].reply)
    <3>1. (parts[1] = "line") = TRUE
      BY <1>18
    <3>. QED
      BY <1>13, <1>18, <2>2, <2>3, <3>1
  <2>5. Script[sent].reply \in Nat \ {0}
    BY <1>5, SentInScript, SessionAssumption, SMTT(30) DEF Message
  <2>6. sent \in Shorts => Script[sent].reply <= Room
    BY DEF Shorts
  <2>. QED
    BY <1>5, <1>13, <1>18, <2>4, <2>5, <2>6 DEF HandlesIt
<1>. QED
  BY <1>16, <1>17, <1>18

LEMMA RestIsOfPieces ==
  ASSUME TypeOK
  PROVE  /\ Rest \in Seq(Piece) /\ Len(Rest) \in Nat /\ DOMAIN Rest = 1 .. Len(Rest)
         /\ pipe # <<>> \/ unsent # <<>> => Rest # <<>>
         /\ Rest = <<>> => pipe = <<>> /\ unsent = <<>>
<1>1. pipe \in Seq(Piece) /\ unsent \in Seq(Piece)
  BY DEF TypeOK
<1>2. Rest \in Seq(Piece)
  BY <1>1 DEF Rest
<1>3. Rest = <<>> <=> pipe = <<>> /\ unsent = <<>>
  BY <1>1, ConcatEqualIffEmpty DEF Rest
<1>. QED
  BY <1>2, <1>3, LenProperties

LEMMA RepliesKept ==
  ASSUME UNCHANGED <<handled, unsent, pipe, got>>, ReplyInv, ShortInv
  PROVE  ReplyInv' /\ ShortInv'
<1>1. Rest' = Rest /\ Arrived' = Arrived /\ ReplyEnds' = ReplyEnds
  BY DEF Rest, Arrived, ReplyEnds
<1>2. \A k : EndOf(k)' = EndOf(k)
  BY <1>1, Zenon DEF EndOf
<1>3. ReplyInv'
  BY <1>1, <1>2 DEF ReplyInv
<1>4. ShortInv'
  BY <1>1 DEF ShortInv, Shorts
<1>. QED
  BY <1>3, <1>4

LEMMA ExchangeSend ==
  ASSUME TypeOK, BufferInv, ExchangeInv, Send
  PROVE  ExchangeInv'
<1>. SUFFICES ASSUME kept' PROVE MessageInv' /\ ReplyInv' /\ ShortInv'
  BY DEF ExchangeInv
<1>1. kept /\ Cardinality(ReplyEnds) = sent /\ Framed(sent + 1) /\ sent' = sent + 1
  BY DEF Send
<1>2. MessageInv /\ ReplyInv /\ ShortInv
  BY <1>1 DEF ExchangeInv
<1>3. sent \in Nat /\ Len(handled) \in Nat
  BY DEF TypeOK
<1>4. Len(handled) = sent /\ Rest = <<>>
  <2>1. Cardinality(ReplyEnds) = IF Rest = <<>> THEN Len(handled) ELSE Len(handled) - 1
    BY <1>2 DEF ReplyInv
  <2>. QED
    BY <1>1, <1>2, <1>3, <2>1 DEF MessageInv
<1>5. UNCHANGED <<phase, data, handled, unsent, pipe, got>> /\ wire' = wire \o TokensOf(sent + 1)
  BY DEF Send
<1>6. ReplyInv' /\ ShortInv'
  BY <1>2, <1>5, RepliesKept
<1>7. Unhandled = <<>> /\ Unhandled' = TokensOf(sent + 1)
  BY <1>1, <1>3, <1>4, <1>5 DEF Unhandled, TokensOf
<1>8. wire = <<>> => wire' = TokensOf(sent + 1)
  <2>1. sent + 1 \in DOMAIN Script
    BY <1>3, SessionAssumption DEF Send
  <2>2. TokensOf(sent + 1) \in Seq(Token)
    BY <2>1, TokensType
  <2>. QED
    BY <1>5, <2>2, ConcatEmptySeq
<1>9. ASSUME phase = "reading" PROVE data' \o wire' = TokensOf(sent + 1)
  <2>1. data \in Seq(Token) /\ wire \in Seq(Token)
    BY DEF TypeOK
  <2>2. data = <<>> /\ wire = <<>>
    <3>1. data \o wire = <<>>
      BY <1>2, <1>7, <1>9 DEF MessageInv
    <3>. QED
      BY <2>1, <3>1, ConcatEqualIffEmpty
  <2>3. TokensOf(sent + 1) \in Seq(Token)
    <3>1. sent + 1 \in DOMAIN Script
      BY <1>3, SessionAssumption DEF Send
    <3>. QED
      BY <3>1, TokensType
  <2>. QED
    BY <1>5, <1>8, <2>2, <2>3, ConcatEmptySeq
<1>10. phase \in {"writing", "written"} => wire' = TokensOf(sent + 1)
  BY <1>2, <1>7, <1>8 DEF MessageInv
<1>11. Rest' = <<>> /\ Framed(sent + 1)
  BY <1>1, <1>4, <1>5 DEF Rest
<1>12. Framed(sent)'
  BY <1>1, <1>11 DEF Framed
<1>13. MessageInv'
  BY <1>1, <1>3, <1>4, <1>5, <1>7, <1>9, <1>10, <1>11, <1>12 DEF MessageInv
<1>. QED
  BY <1>6, <1>13

LEMMA ExchangeReceive ==
  ASSUME TypeOK, BufferInv, MessageInv, ReplyInv, ShortInv, Receive
  PROVE  MessageInv' /\ ReplyInv' /\ ShortInv'
<1>. DEFINE x == Head(pipe)
<1>1. /\ pipe \in Seq(Piece) /\ pipe # <<>> /\ unsent \in Seq(Piece) /\ got \in Seq(Piece)
      /\ x \in Piece /\ x.last \in BOOLEAN
      /\ Tail(pipe) \in Seq(Piece)
      /\ Len(Tail(pipe)) = Len(pipe) - 1 /\ x = pipe[1] /\ Len(pipe) \in Nat /\ Len(pipe) >= 1
      /\ \A i \in 1 .. Len(pipe) - 1 : Tail(pipe)[i] = pipe[i + 1]
  <2>1. pipe \in Seq(Piece) /\ pipe # <<>> /\ unsent \in Seq(Piece) /\ got \in Seq(Piece)
    BY DEF Receive, TypeOK
  <2>2. /\ x \in Piece /\ Tail(pipe) \in Seq(Piece) /\ Len(Tail(pipe)) = Len(pipe) - 1
        /\ x = pipe[1] /\ Len(pipe) \in Nat /\ Len(pipe) >= 1
        /\ \A i \in 1 .. Len(pipe) - 1 : Tail(pipe)[i] = pipe[i + 1]
    BY <2>1
  <2>. HIDE DEF x
  <2>3. x.last \in BOOLEAN
    BY <2>2 DEF Piece
  <2>. QED
    BY <2>1, <2>2, <2>3
<1>2. /\ got' = Append(got, x) /\ pipe' = Tail(pipe)
      /\ UNCHANGED <<sent, wire, phase, data, handled, unsent>>
  BY DEF Receive
<1>3. Rest \in Seq(Piece) /\ Rest # <<>> /\ Len(Rest) \in Nat /\ DOMAIN Rest = 1 .. Len(Rest)
  BY <1>1, RestIsOfPieces
<1>4. /\ Len(Rest) = Len(pipe) + Len(unsent) /\ Len(unsent) \in Nat
      /\ \A i \in 1 .. Len(Rest) : Rest[i] = IF i <= Len(pipe) THEN pipe[i] ELSE unsent[i - Len(pipe)]
  BY <1>1, ConcatProperties DEF Rest
<1>. HIDE DEF x
<1>5. /\ Rest' \in Seq(Piece) /\ Len(Rest') = Len(Rest) - 1 /\ DOMAIN Rest' = 1 .. Len(Rest) - 1
      /\ \A i \in 1 .. Len(Rest) - 1 : Rest'[i] = Rest[i + 1]
  <2>. DEFINE tail == Tail(pipe)
  <2>1. Rest' = tail \o unsent /\ tail \in Seq(Piece) /\ Len(tail) = Len(pipe) - 1
        /\ \A i \in 1 .. Len(pipe) - 1 : tail[i] = pipe[i + 1]
    BY <1>1, <1>2 DEF Rest
  <2>. HIDE DEF tail
  <2>2. /\ tail \o unsent \in Seq(Piece) /\ Len(tail \o unsent) = Len(tail) + Len(unsent)
        /\ \A i \in 1 .. Len(tail) + Len(unsent) :
             (tail \o unsent)[i] = IF i <= Len(tail) THEN tail[i] ELSE unsent[i - Len(tail)]
    <3>1. tail \in Seq(Piece) /\ unsent \in Seq(Piece)
      BY <1>1, <2>1
    <3>. QED
      BY <3>1, ConcatProperties
  <2>3. Rest' \in Seq(Piece) /\ Len(Rest') = Len(Rest) - 1 /\ DOMAIN Rest' = 1 .. Len(Rest) - 1
    BY <1>1, <1>4, <2>1, <2>2, LenProperties
  <2>4. ASSUME NEW i \in 1 .. Len(Rest) - 1 PROVE Rest'[i] = Rest[i + 1]
    <3>1. /\ i \in 1 .. Len(tail) + Len(unsent) /\ i + 1 \in 1 .. Len(Rest)
          /\ (i + 1) - Len(pipe) = i - Len(tail)
          /\ i <= Len(tail) <=> i + 1 <= Len(pipe)
          /\ i <= Len(tail) => i \in 1 .. Len(pipe) - 1
      BY <1>1, <1>4, <2>1
    <3>2. Rest'[i] = IF i <= Len(tail) THEN tail[i] ELSE unsent[i - Len(tail)]
      BY <2>1, <2>2, <3>1
    <3>3. Rest[i + 1] = IF i + 1 <= Len(pipe) THEN pipe[i + 1] ELSE unsent[(i + 1) - Len(pipe)]
      BY <1>4, <3>1
    <3>. QED
      BY <2>1, <3>1, <3>2, <3>3
  <2>. QED
    BY <2>3, <2>4
<1>6. x = Rest[1] /\ 1 \in DOMAIN Rest
  BY <1>1, <1>3, <1>4
<1>7. x.re = Len(handled) /\ (x.last <=> Len(Rest) = 1)
  BY <1>3, <1>6 DEF ReplyInv
<1>8. Cardinality(ReplyEnds) = Len(handled) - 1 /\ Len(handled) \in Nat
  BY <1>3 DEF ReplyInv, TypeOK
<1>9. sent = Len(handled)
  BY <1>3 DEF MessageInv
<1>10. Rest' = <<>> <=> x.last
  <2>1. Rest' = <<>> <=> Len(Rest') = 0
    BY <1>5, EmptySeq
  <2>. QED
    BY <1>3, <1>5, <1>7, <2>1
<1>11. MessageInv'
  BY <1>2, <1>9 DEF MessageInv, Unhandled
<1>12. /\ ReplyEnds' = IF x.last THEN ReplyEnds \cup {Len(got) + 1} ELSE ReplyEnds
       /\ \A i \in DOMAIN got : got'[i] = got[i]
       /\ got'[Len(got) + 1] = x
       /\ Cardinality(ReplyEnds') = Cardinality(ReplyEnds) + IF x.last THEN 1 ELSE 0
       /\ \A k \in 1 .. Cardinality(ReplyEnds) : EndOf(k)' = EndOf(k)
       /\ \A k : x.last /\ k = Cardinality(ReplyEnds) + 1 => EndOf(k)' = Len(got) + 1
  BY <1>1, <1>2, NextEnd
<1>13. ReplyInv'
  <2>1. ASSUME NEW i \in DOMAIN Rest'
        PROVE  Rest'[i].re = Len(handled') /\ (Rest'[i].last <=> i = Len(Rest'))
    <3>1. i \in 1 .. Len(Rest) - 1 /\ i + 1 \in DOMAIN Rest /\ (i + 1 = Len(Rest) <=> i = Len(Rest'))
      BY <1>3, <1>5, <2>1
    <3>2. Rest'[i] = Rest[i + 1]
      BY <1>5, <3>1
    <3>. QED
      BY <1>2, <3>1, <3>2 DEF ReplyInv
  <2>2. Cardinality(ReplyEnds') = IF Rest' = <<>> THEN Len(handled') ELSE Len(handled') - 1
    BY <1>2, <1>8, <1>10, <1>12
  <2>3. ASSUME NEW k \in 1 .. Cardinality(ReplyEnds')
        PROVE  EndOf(k)' \in ReplyEnds' /\ got'[EndOf(k)'].re = k
    <3>1. CASE k \in 1 .. Cardinality(ReplyEnds)
      <4>1. EndOf(k) \in ReplyEnds /\ got[EndOf(k)].re = k /\ EndOf(k) \in DOMAIN got
        BY <3>1 DEF ReplyInv, ReplyEnds
      <4>2. EndOf(k)' = EndOf(k) /\ EndOf(k) \in ReplyEnds'
        BY <1>12, <3>1, <4>1
      <4>. QED
        BY <1>12, <4>1, <4>2
    <3>2. CASE k \notin 1 .. Cardinality(ReplyEnds)
      <4>1. x.last /\ k = Cardinality(ReplyEnds) + 1 /\ k = Len(handled)
        BY <1>8, <1>12, <3>2
      <4>2. EndOf(k)' = Len(got) + 1 /\ Len(got) + 1 \in ReplyEnds'
        BY <1>12, <4>1
      <4>. QED
        BY <1>7, <1>12, <4>1, <4>2
    <3>. QED
      BY <3>1, <3>2
  <2>. QED
    BY <2>1, <2>2, <2>3 DEF ReplyInv
<1>14. ShortInv'
  <2>1. Arrived' = Arrived
    BY ReceiveKeepsArrived
  <2>. QED
    BY <1>2, <2>1 DEF ShortInv, Shorts
<1>. QED
  BY <1>11, <1>13, <1>14

LEMMA ExchangeWrite ==
  ASSUME TypeOK, BufferInv, MessageInv, ReplyInv, ShortInv, ContinueWrite
  PROVE  MessageInv' /\ ReplyInv' /\ ShortInv'
<1>1. PICK intact \in BOOLEAN : pipe' = Append(pipe, [Head(unsent) EXCEPT !.intact = intact])
  BY DEF ContinueWrite
<1>. DEFINE x == [Head(unsent) EXCEPT !.intact = intact]
            tail == Tail(unsent)
<1>2. /\ UNCHANGED <<sent, wire, data, handled, got>> /\ unsent' = tail /\ pipe' = Append(pipe, x)
      /\ phase = "writing" /\ phase' \in {"writing", "written"}
  BY <1>1 DEF ContinueWrite
<1>3. /\ pipe \in Seq(Piece) /\ unsent \in Seq(Piece) /\ unsent # <<>> /\ got \in Seq(Piece)
      /\ Len(unsent) \in Nat /\ Len(unsent) >= 1 /\ Len(pipe) \in Nat
      /\ unsent[1] = Head(unsent) /\ Head(unsent) \in Piece
      /\ tail \in Seq(Piece) /\ Len(tail) = Len(unsent) - 1
      /\ \A i \in 1 .. Len(unsent) - 1 : tail[i] = unsent[i + 1]
  <2>1. pipe \in Seq(Piece) /\ unsent \in Seq(Piece) /\ unsent # <<>> /\ got \in Seq(Piece)
    BY DEF TypeOK, BufferInv, ContinueWrite
  <2>. QED
    BY <2>1
<1>4. x \in Piece /\ x.re = unsent[1].re /\ x.last = unsent[1].last
  BY <1>3 DEF Piece
<1>. HIDE DEF x, tail
<1>5. Rest \in Seq(Piece) /\ Rest # <<>> /\ Len(Rest) \in Nat /\ DOMAIN Rest = 1 .. Len(Rest)
  BY <1>3, RestIsOfPieces
<1>6. /\ Len(Rest) = Len(pipe) + Len(unsent)
      /\ \A i \in 1 .. Len(Rest) : Rest[i] = IF i <= Len(pipe) THEN pipe[i] ELSE unsent[i - Len(pipe)]
  BY <1>3, ConcatProperties DEF Rest
<1>7. /\ pipe' \in Seq(Piece) /\ Len(pipe') = Len(pipe) + 1 /\ pipe'[Len(pipe) + 1] = x
      /\ \A i \in 1 .. Len(pipe) : pipe'[i] = pipe[i]
  BY <1>2, <1>3, <1>4
<1>8. /\ Len(Rest') = Len(Rest) /\ DOMAIN Rest' = 1 .. Len(Rest)
      /\ \A i \in 1 .. Len(Rest) : Rest'[i].re = Rest[i].re /\ Rest'[i].last = Rest[i].last
  <2>. DEFINE new == pipe'
  <2>1. /\ Rest' = new \o tail /\ new \in Seq(Piece) /\ tail \in Seq(Piece)
        /\ Len(new) = Len(pipe) + 1 /\ new[Len(pipe) + 1] = x
        /\ \A i \in 1 .. Len(pipe) : new[i] = pipe[i]
    BY <1>2, <1>3, <1>7 DEF Rest
  <2>. HIDE DEF new
  <2>2. /\ new \o tail \in Seq(Piece) /\ Len(new \o tail) = Len(new) + Len(tail)
        /\ \A i \in 1 .. Len(new) + Len(tail) :
             (new \o tail)[i] = IF i <= Len(new) THEN new[i] ELSE tail[i - Len(new)]
    BY <2>1, ConcatProperties
  <2>3. Len(new \o tail) = Len(Rest) /\ Len(new) + Len(tail) = Len(Rest)
    BY <1>3, <1>6, <2>1, <2>2
  <2>4. DOMAIN (new \o tail) = 1 .. Len(Rest)
    BY <2>2, <2>3, LenProperties
  <2>5. ASSUME NEW i \in 1 .. Len(Rest)
        PROVE  (new \o tail)[i].re = Rest[i].re /\ (new \o tail)[i].last = Rest[i].last
    <3>1. /\ (new \o tail)[i] = IF i <= Len(new) THEN new[i] ELSE tail[i - Len(new)]
          /\ Rest[i] = IF i <= Len(pipe) THEN pipe[i] ELSE unsent[i - Len(pipe)]
      BY <1>6, <2>2, <2>3
    <3>2. CASE i <= Len(pipe)
      <4>1. i <= Len(new) /\ i \in 1 .. Len(pipe)
        BY <1>3, <1>5, <2>1, <3>2
      <4>. QED
        BY <2>1, <3>1, <3>2, <4>1
    <3>3. CASE i = Len(pipe) + 1
      <4>1. i <= Len(new) /\ ~(i <= Len(pipe)) /\ i - Len(pipe) = 1
        BY <1>3, <2>1, <3>3
      <4>2. (new \o tail)[i] = x /\ Rest[i] = unsent[1]
        BY <2>1, <3>1, <3>3, <4>1
      <4>. QED
        BY <1>4, <4>2
    <3>4. CASE ~(i <= Len(pipe)) /\ i # Len(pipe) + 1
      <4>1. /\ ~(i <= Len(new)) /\ i - Len(new) \in 1 .. Len(unsent) - 1
            /\ (i - Len(new)) + 1 = i - Len(pipe)
        BY <1>3, <1>6, <2>1, <3>4
      <4>2. tail[i - Len(new)] = unsent[i - Len(pipe)]
        BY <1>3, <4>1
      <4>. QED
        BY <3>1, <3>4, <4>1, <4>2
    <3>. QED
      BY <3>2, <3>3, <3>4
  <2>. QED
    BY <2>1, <2>3, <2>4, <2>5
<1>9. sent = Len(handled)
  BY <1>5 DEF MessageInv
<1>10. MessageInv'
  BY <1>2, <1>9 DEF MessageInv, Unhandled
<1>11. ReplyInv'
  <2>1. ReplyEnds' = ReplyEnds
    BY <1>2 DEF ReplyEnds
  <2>2. \A k : EndOf(k)' = EndOf(k)
    BY <2>1, Zenon DEF EndOf
  <2>3. Rest' # <<>>
    BY <1>5, <1>8
  <2>4. ASSUME NEW i \in DOMAIN Rest'
        PROVE  Rest'[i].re = Len(handled') /\ (Rest'[i].last <=> i = Len(Rest'))
    <3>1. i \in DOMAIN Rest /\ Rest'[i].re = Rest[i].re /\ Rest'[i].last = Rest[i].last
      BY <1>5, <1>8
    <3>. QED
      BY <1>2, <1>8, <3>1 DEF ReplyInv
  <2>5. Cardinality(ReplyEnds') = IF Rest' = <<>> THEN Len(handled') ELSE Len(handled') - 1
    BY <1>2, <1>5, <2>1, <2>3 DEF ReplyInv
  <2>6. \A k \in 1 .. Cardinality(ReplyEnds') : EndOf(k)' \in ReplyEnds' /\ got'[EndOf(k)'].re = k
    BY <1>2, <2>1, <2>2 DEF ReplyInv
  <2>. QED
    BY <2>4, <2>5, <2>6 DEF ReplyInv
<1>12. ShortInv'
  <2>1. x.re = Len(handled)
    <3>1. Len(pipe) + 1 \in 1 .. Len(Rest) /\ ~(Len(pipe) + 1 <= Len(pipe)) /\ (Len(pipe) + 1) - Len(pipe) = 1
      BY <1>3, <1>6
    <3>2. Rest[Len(pipe) + 1] = unsent[1]
      BY <1>6, <3>1
    <3>. QED
      BY <1>4, <1>5, <3>1, <3>2 DEF ReplyInv
  <2>2. Len(handled) \notin Shorts
    BY <1>3 DEF ShortInv
  <2>3. /\ Arrived \in Seq(Piece) /\ Len(Arrived) \in Nat /\ DOMAIN Arrived = 1 .. Len(Arrived)
        /\ Arrived' = Append(Arrived, x)
    <3>1. Arrived \in Seq(Piece)
      BY <1>3 DEF Arrived
    <3>2. <<x>> \in Seq(Piece)
      BY <1>4
    <3>3. pipe' = pipe \o <<x>> /\ Append(Arrived, x) = Arrived \o <<x>>
      BY <1>2, <1>3, <1>4, <3>1, AppendIsConcat
    <3>4. (got \o pipe) \o <<x>> = got \o (pipe \o <<x>>)
      BY <1>3, <3>2, ConcatAssociative, SMTT(30)
    <3>5. Arrived' = Append(Arrived, x)
      BY <1>2, <3>3, <3>4 DEF Arrived
    <3>. QED
      BY <3>1, <3>5
  <2>4. ASSUME NEW i \in DOMAIN Arrived', Arrived'[i].re \in Shorts PROVE Arrived'[i].intact
    <3>1. DOMAIN Arrived' = 1 .. Len(Arrived) + 1 /\ Arrived'[Len(Arrived) + 1] = x
          /\ \A j \in 1 .. Len(Arrived) : Arrived'[j] = Arrived[j]
      BY <1>4, <2>3
    <3>2. i # Len(Arrived) + 1
      BY <2>1, <2>2, <2>4, <3>1
    <3>3. i \in DOMAIN Arrived /\ Arrived'[i] = Arrived[i]
      BY <2>3, <3>1, <3>2
    <3>. QED
      BY <2>4, <3>3 DEF ShortInv
  <2>5. Shorts' = Shorts
    BY DEF Shorts
  <2>. QED
    BY <1>2, <2>2, <2>4, <2>5 DEF ShortInv
<1>. QED
  BY <1>10, <1>11, <1>12

LEMMA ExchangeRead ==
  ASSUME TypeOK, BufferInv, HttpScript, MessageInv, ReplyInv, ShortInv, HandleRead
  PROVE  /\ MessageInv' /\ ReplyInv' /\ ShortInv'
         /\ \/ UNCHANGED <<handled, got>>
            \/ /\ sent = Len(handled) + 1 /\ sent \in DOMAIN Script
               /\ handled' = Append(handled, [request |-> TokensOf(sent),
                                              valid |-> Script[sent].parts[1] = "line"])
<1>1. /\ sent = Len(handled) + 1 /\ sent \in DOMAIN Script /\ Rest = <<>>
      /\ StillWaits \/ HandlesIt
  BY PoliteRead
<1>2. UNCHANGED <<sent, gone, got, kept>> /\ phase = "reading"
  BY DEF HandleRead
<1>3. Len(handled) \in Nat /\ sent # Len(handled) /\ handled \in Seq(Handled)
  BY <1>1 DEF TypeOK
<1>4. CASE StillWaits
  <2>1. UNCHANGED <<phase, handled, unsent, pipe>> /\ data' \o wire' = TokensOf(sent)
    BY <1>4 DEF StillWaits
  <2>2. ReplyInv' /\ ShortInv'
    BY <1>2, <2>1, RepliesKept
  <2>3. Unhandled' = TokensOf(sent)
    BY <1>2, <1>3, <2>1 DEF Unhandled, TokensOf
  <2>4. Rest' = Rest /\ (Framed(sent) => Framed(sent)')
    BY <1>2, <2>1 DEF Rest, Framed
  <2>5. MessageInv'
    BY <1>1, <1>2, <1>3, <2>1, <2>3, <2>4 DEF MessageInv
  <2>. QED
    BY <1>2, <2>1, <2>2, <2>5
<1>5. CASE HandlesIt
  <2>. DEFINE q == TokensOf(sent)
              valid == Script[sent].parts[1] = "line"
  <2>1. PICK length \in Nat \ {0} : StartReply(q, valid, length) /\ (sent \in Shorts => length <= Room)
    BY <1>5 DEF HandlesIt
  <2>2. q \in Seq(Token) /\ valid \in BOOLEAN
    BY <1>1, TokensType
  <2>. DEFINE reply == Pieces(length)
  <2>. HIDE DEF q, valid
  <2>3. PICK now \in 0 .. length :
          /\ now < length => now + Len(pipe) >= Room
          /\ handled' = Append(handled, [request |-> q, valid |-> valid])
          /\ pipe' = pipe \o SubSeq(reply, 1, now)
          /\ unsent' = SubSeq(reply, now + 1, length) /\ unsent' \in Seq(Piece)
          /\ Len(unsent') = length - now
          /\ phase' \in {"writing", "written"}
    BY <2>1, <2>2, ReplyEffect
  <2>4. [request |-> q, valid |-> valid] \in Handled
    BY <2>2 DEF Handled
  <2>5. Len(handled') = Len(handled) + 1 /\ Len(handled') = sent
    BY <1>1, <1>3, <2>3, <2>4
  <2>6. /\ reply \in Seq(Piece) /\ Len(reply) = length /\ DOMAIN reply = 1 .. length
        /\ \A i \in 1 .. length :
             reply[i].re = sent /\ reply[i].intact /\ (reply[i].last <=> i = length)
    <3>1. reply \in Seq(Piece) /\ Len(reply) = length /\ DOMAIN reply = 1 .. length
      BY PiecesType
    <3>2. \A i \in 1 .. length : reply[i].re = Len(handled) + 1 /\ reply[i].intact
      BY PiecesType
    <3>3. \A i \in 1 .. length : reply[i].last <=> i = length
      BY DEF Pieces
    <3>. HIDE DEF reply
    <3>. QED
      BY <1>1, <3>1, <3>2, <3>3
  <2>. HIDE DEF reply
  <2>7. pipe = <<>> /\ unsent = <<>>
    BY <1>1, RestIsOfPieces
  <2>8. now < length => now >= Room
    <3>1. Len(pipe) = 0
      BY <2>7
    <3>. QED
      BY <2>3, <3>1
  <2>9. SubSeq(reply, 1, now) \in Seq(Piece) /\ Len(SubSeq(reply, 1, now)) = now
        /\ \A i \in 1 .. now : SubSeq(reply, 1, now)[i] = reply[i]
    BY <2>3, <2>6
  <2>10. pipe' = SubSeq(reply, 1, now)
    BY <2>3, <2>7, <2>9, ConcatEmptySeq
  <2>11. Rest' = reply
    <3>1. /\ 1 \in 1 .. Len(reply) + 1 /\ now \in 1 - 1 .. Len(reply) /\ length \in now .. Len(reply)
      BY <2>3, <2>6
    <3>2. SubSeq(reply, 1, now) \o SubSeq(reply, now + 1, length) = SubSeq(reply, 1, length)
      BY <2>6, <3>1, ConcatAdjacentSubSeq
    <3>3. SubSeq(reply, 1, length) = reply
      BY <2>6, SubSeqFull
    <3>. QED
      BY <2>3, <2>10, <3>2, <3>3 DEF Rest
  <2>12. wire' = <<>> /\ sent' = sent
    BY <1>2, <1>5 DEF HandlesIt
  <2>13. MessageInv'
    <3>1. Unhandled' = <<>>
      BY <2>5, <2>12 DEF Unhandled
    <3>. QED
      BY <1>3, <2>3, <2>5, <2>12, <3>1 DEF MessageInv
  <2>14. ReplyInv'
    <3>1. ReplyEnds' = ReplyEnds
      BY <1>2 DEF ReplyEnds
    <3>2. \A k : EndOf(k)' = EndOf(k)
      BY <3>1, Zenon DEF EndOf
    <3>3. Rest' # <<>>
      BY <2>6, <2>11
    <3>4. Cardinality(ReplyEnds) = Len(handled)
      BY <1>1 DEF ReplyInv
    <3>5. Cardinality(ReplyEnds') = IF Rest' = <<>> THEN Len(handled') ELSE Len(handled') - 1
      BY <1>3, <2>5, <3>1, <3>3, <3>4
    <3>6. \A k \in 1 .. Cardinality(ReplyEnds') : EndOf(k)' \in ReplyEnds' /\ got'[EndOf(k)'].re = k
      BY <1>2, <3>1, <3>2 DEF ReplyInv
    <3>7. \A i \in DOMAIN Rest' : Rest'[i].re = Len(handled') /\ (Rest'[i].last <=> i = Len(Rest'))
      BY <2>5, <2>6, <2>11
    <3>. QED
      BY <3>5, <3>6, <3>7 DEF ReplyInv
  <2>15. ShortInv'
    <3>1. unsent' # <<>> => Len(handled') \notin Shorts
      <4>. SUFFICES ASSUME sent \in Shorts PROVE unsent' = <<>>
        BY <2>5
      <4>1. length <= Room
        BY <2>1
      <4>2. Len(unsent') = 0
        BY <2>3, <2>8, <4>1, SessionAssumption
      <4>. QED
        BY <2>3, <4>2, EmptySeq
    <3>2. got \in Seq(Piece) /\ Arrived = got \o pipe /\ Arrived = got
      BY <2>7, ConcatEmptySeq DEF TypeOK, Arrived
    <3>. DEFINE new == SubSeq(reply, 1, now)
    <3>3. new \in Seq(Piece) /\ \A i \in DOMAIN new : new[i].intact
      <4>1. DOMAIN new = 1 .. now
        BY <2>9
      <4>. QED
        BY <2>3, <2>6, <2>9, <4>1, SMTT(30)
    <3>4. Arrived' = got \o new
      BY <1>2, <2>10 DEF Arrived
    <3>. HIDE DEF new
    <3>5. \A i \in DOMAIN (got \o new) :
            \/ i \in DOMAIN got /\ (got \o new)[i] = got[i]
            \/ i - Len(got) \in DOMAIN new /\ (got \o new)[i] = new[i - Len(got)]
      BY <3>2, <3>3, Joined
    <3>6. \A i \in DOMAIN Arrived' : Arrived'[i].re \in Shorts => Arrived'[i].intact
      BY <3>2, <3>3, <3>4, <3>5 DEF ShortInv
    <3>7. Shorts' = Shorts
      BY DEF Shorts
    <3>. QED
      BY <3>1, <3>6, <3>7 DEF ShortInv
  <2>. QED
    BY <1>1, <2>3, <2>13, <2>14, <2>15 DEF q, valid
<1>. QED
  BY <1>1, <1>4, <1>5

LEMMA ExchangeNext ==
  ASSUME TypeOK, BufferInv, HttpScript, ExchangeInv, [Next]_vars
  PROVE  ExchangeInv'
<1>1. CASE Send
  BY <1>1, ExchangeSend
<1>2. ASSUME ~Send, kept' PROVE MessageInv' /\ ReplyInv' /\ ShortInv'
  <2>1. kept
    BY <1>2 DEF Next, Client, Server, Receive, Disconnect, HandleRead, ContinueWrite, HandleWrite,
                OperationFails, vars
  <2>2. MessageInv /\ ReplyInv /\ ShortInv
    BY <2>1 DEF ExchangeInv
  <2>3. CASE Receive
    BY <2>2, <2>3, ExchangeReceive
  <2>4. CASE HandleRead
    BY <2>2, <2>4, ExchangeRead
  <2>5. CASE ContinueWrite
    BY <2>2, <2>5, ExchangeWrite
  <2>6. CASE HandleWrite
    <3>1. /\ phase = "written" /\ phase' = "reading" /\ data' = <<>>
          /\ UNCHANGED <<sent, wire, handled, unsent, pipe, got>>
      BY <2>6 DEF HandleWrite
    <3>2. wire \in Seq(Token) /\ wire = Unhandled
      BY <2>2, <3>1 DEF MessageInv, TypeOK
    <3>3. data' \o wire' = Unhandled'
      <4>1. <<>> \o wire = wire
        BY <3>2, ConcatEmptySeq
      <4>2. Unhandled' = Unhandled
        BY <3>1 DEF Unhandled, TokensOf
      <4>. QED
        BY <3>1, <3>2, <4>1, <4>2
    <3>4. Rest' = Rest /\ (Framed(sent) => Framed(sent)')
      BY <3>1 DEF Rest, Framed
    <3>5. MessageInv'
      BY <2>2, <3>1, <3>3, <3>4 DEF MessageInv
    <3>. QED
      BY <2>2, <3>1, <3>5, RepliesKept
  <2>7. ASSUME UNCHANGED <<sent, wire, data, handled, unsent, pipe, got>>,
               phase' = phase \/ phase' = "deleted"
        PROVE  MessageInv' /\ ReplyInv' /\ ShortInv'
    <3>1. Rest' = Rest /\ (Framed(sent) => Framed(sent)') /\ Unhandled' = Unhandled
      BY <2>7 DEF Rest, Framed, Unhandled, TokensOf
    <3>2. MessageInv'
      BY <2>2, <2>7, <3>1 DEF MessageInv
    <3>. QED
      BY <2>2, <2>7, <3>2, RepliesKept
  <2>8. CASE Disconnect
    BY <2>7, <2>8 DEF Disconnect
  <2>9. CASE OperationFails
    BY <2>7, <2>9 DEF OperationFails
  <2>10. CASE UNCHANGED vars
    BY <2>7, <2>10 DEF vars
  <2>. QED
    BY <1>2, <2>3, <2>4, <2>5, <2>6, <2>8, <2>9, <2>10 DEF Next, Client, Server
<1>. QED
  BY <1>1, <1>2 DEF ExchangeInv

LEMMA ExchangeInit == Init => ExchangeInv
<1>. SUFFICES ASSUME Init PROVE ExchangeInv
  OBVIOUS
<1>1. DOMAIN <<>> = {} /\ <<>> \o <<>> = <<>> /\ Len(<<>>) = 0
  OBVIOUS
<1>2. /\ sent = 0 /\ wire = <<>> /\ phase = "reading" /\ data = <<>> /\ handled = <<>>
      /\ unsent = <<>> /\ pipe = <<>> /\ got = <<>>
  BY DEF Init
<1>3. Rest = <<>> /\ Arrived = <<>> /\ Unhandled = <<>> /\ ReplyEnds = {}
  <2>1. ReplyEnds = {}
    BY <1>1, <1>2 DEF ReplyEnds
  <2>. QED
    BY <1>1, <1>2, <2>1 DEF Rest, Arrived, Unhandled
<1>4. Cardinality(ReplyEnds) = 0
  BY <1>3, FS_EmptySet
<1>5. MessageInv
  BY <1>1, <1>2, <1>3 DEF MessageInv
<1>6. ReplyInv
  BY <1>1, <1>2, <1>3, <1>4 DEF ReplyInv
<1>7. ShortInv
  BY <1>1, <1>2, <1>3 DEF ShortInv
<1>. QED
  BY <1>5, <1>6, <1>7 DEF ExchangeInv

LEMMA RepliesSeenKept == UNCHANGED got => RepliesSeen' = RepliesSeen
<1>. SUFFICES ASSUME UNCHANGED got PROVE RepliesSeen' = RepliesSeen
  OBVIOUS
<1>1. ReplyEnds' = ReplyEnds
  BY DEF ReplyEnds
<1>2. \A k : EndOf(k)' = EndOf(k)
  BY <1>1, Zenon DEF EndOf
<1>3. \A k : ReplySeen(k)' = ReplySeen(k)
  BY <1>2 DEF ReplySeen
<1>. QED
  BY <1>1, <1>3 DEF RepliesSeen

LEMMA RepliesSeenLength ==
  TypeOK => /\ Len(RepliesSeen) = Cardinality(ReplyEnds) /\ Cardinality(ReplyEnds) \in Nat
            /\ DOMAIN RepliesSeen = 1 .. Cardinality(ReplyEnds)
<1>. SUFFICES ASSUME TypeOK PROVE Len(RepliesSeen) = Cardinality(ReplyEnds) /\ Cardinality(ReplyEnds) \in Nat
  BY DEF RepliesSeen
<1>1. Cardinality(ReplyEnds) \in Nat
  BY EndsAreFinite
<1>. QED
  BY <1>1 DEF RepliesSeen

(* The last piece of a reply arrives: the reply is seen. *)
LEMMA ReplyArrives ==
  ASSUME TypeOK, TypeOK', MessageInv, ReplyInv, ShortInv, ShortInv', Receive
  PROVE  \/ RepliesSeen' = RepliesSeen
         \/ /\ Len(RepliesSeen) < Len(handled)
            /\ \E intact \in BOOLEAN :
                 /\ Len(RepliesSeen) + 1 \in Shorts => intact
                 /\ RepliesSeen' = Append(RepliesSeen, [re |-> Len(RepliesSeen) + 1, intact |-> intact])
<1>. DEFINE x == Head(pipe)
            n == Len(got) + 1
            card == Cardinality(ReplyEnds)
<1>1. /\ pipe \in Seq(Piece) /\ pipe # <<>> /\ unsent \in Seq(Piece) /\ got \in Seq(Piece)
      /\ x = pipe[1] /\ x \in Piece /\ Len(pipe) \in Nat /\ Len(pipe) >= 1
      /\ got' = Append(got, x) /\ Len(got) \in Nat /\ DOMAIN got = 1 .. Len(got)
  <2>1. pipe \in Seq(Piece) /\ pipe # <<>> /\ unsent \in Seq(Piece) /\ got \in Seq(Piece)
    BY DEF Receive, TypeOK
  <2>. QED
    BY <2>1 DEF Receive
<1>. HIDE DEF x
<1>2. Rest # <<>> /\ 1 \in DOMAIN Rest /\ Rest[1] = x
  <2>1. Rest # <<>>
    BY <1>1, RestIsOfPieces
  <2>2. /\ Len(Rest) = Len(pipe) + Len(unsent) /\ Len(unsent) \in Nat
        /\ \A i \in 1 .. Len(pipe) + Len(unsent) :
             Rest[i] = IF i <= Len(pipe) THEN pipe[i] ELSE unsent[i - Len(pipe)]
    BY <1>1, ConcatProperties DEF Rest
  <2>3. 1 \in 1 .. Len(pipe) + Len(unsent)
    BY <1>1, <2>2
  <2>4. DOMAIN Rest = 1 .. Len(Rest)
    BY RestIsOfPieces
  <2>. QED
    BY <1>1, <2>1, <2>2, <2>3, <2>4
<1>3. x.re = Len(handled) /\ card = Len(handled) - 1 /\ Len(handled) \in Nat /\ card \in Nat
  BY <1>2, EndsAreFinite, SMTT(30) DEF ReplyInv, TypeOK
<1>4. /\ ReplyEnds' = IF x.last THEN ReplyEnds \cup {n} ELSE ReplyEnds
      /\ \A i \in DOMAIN got : got'[i] = got[i]
      /\ got'[n] = x /\ DOMAIN got' = 1 .. n
      /\ Cardinality(ReplyEnds') = card + IF x.last THEN 1 ELSE 0
      /\ \A k \in 1 .. card : EndOf(k)' = EndOf(k)
      /\ \A k : x.last /\ k = card + 1 => EndOf(k)' = n
  BY <1>1, NextEnd
<1>5. \A i \in DOMAIN got' : i \in DOMAIN got \/ i = n
  BY <1>1, <1>4
<1>. HIDE DEF n
<1>6. ASSUME NEW k \in 1 .. card PROVE ReplySeen(k)' = ReplySeen(k)
  <2>1. EndOf(k) \in DOMAIN got /\ got[EndOf(k)].re = k
    BY <1>6 DEF ReplyInv, ReplyEnds
  <2>2. EndOf(k)' = EndOf(k) /\ got'[EndOf(k)] = got[EndOf(k)]
    BY <1>4, <1>6, <2>1
  <2>3. x.re # k
    BY <1>3
  <2>4. (\A i \in DOMAIN got' : got'[i].re = k => got'[i].intact)
        <=> (\A i \in DOMAIN got : got[i].re = k => got[i].intact)
    <3>1. \A i \in DOMAIN got : i \in DOMAIN got'
      BY <1>1, <1>4 DEF n
    <3>. QED
      BY <1>4, <1>5, <2>3, <3>1
  <2>5. ReplySeen(k)' = [re |-> k, intact |-> \A i \in DOMAIN got' : got'[i].re = k => got'[i].intact]
    BY <2>1, <2>2 DEF ReplySeen
  <2>6. ReplySeen(k) = [re |-> k, intact |-> \A i \in DOMAIN got : got[i].re = k => got[i].intact]
    BY <2>1 DEF ReplySeen
  <2>7. (\A i \in DOMAIN got' : got'[i].re = k => got'[i].intact)
        = (\A i \in DOMAIN got : got[i].re = k => got[i].intact)
    BY <2>4
  <2>. QED
    BY <2>5, <2>6, <2>7, Zenon
<1>7. CASE ~x.last
  <2>1. Cardinality(ReplyEnds') = card
    BY <1>3, <1>4, <1>7
  <2>. QED
    BY <1>6, <2>1 DEF RepliesSeen
<1>8. CASE x.last
  <2>. DEFINE intact == \A i \in DOMAIN got' : got'[i].re = card + 1 => got'[i].intact
  <2>1. Cardinality(ReplyEnds') = card + 1 /\ Len(RepliesSeen) = card
    BY <1>3, <1>4, <1>8, RepliesSeenLength
  <2>2. ASSUME NEW k, k = card + 1 PROVE ReplySeen(k)' = [re |-> card + 1, intact |-> intact]
    <3>1. EndOf(k)' = n
      BY <1>4, <1>8, <2>2
    <3>2. got'[n].re = k
      <4>1. x.re = k
        BY <1>3, <2>2
      <4>. QED
        BY <1>4, <4>1
    <3>. QED
      BY <2>2, <3>1, <3>2 DEF ReplySeen
  <2>3. card + 1 \in Shorts => intact
    <3>. SUFFICES ASSUME card + 1 \in Shorts, NEW i \in DOMAIN got', got'[i].re = card + 1
                  PROVE  got'[i].intact
      OBVIOUS
    <3>1. got' \in Seq(Piece) /\ pipe' \in Seq(Piece)
      BY DEF TypeOK
    <3>2. Arrived' = got' \o pipe'
      BY DEF Arrived
    <3>3. i \in DOMAIN Arrived' /\ Arrived'[i] = got'[i]
      BY <3>1, <3>2, Joined
    <3>4. Shorts' = Shorts
      BY DEF Shorts
    <3>. QED
      BY <3>3, <3>4 DEF ShortInv
  <2>4. RepliesSeen' = Append(RepliesSeen, [re |-> card + 1, intact |-> intact])
    <3>. DEFINE new == [re |-> card + 1, intact |-> intact]
                s == RepliesSeen
    <3>1. DOMAIN s = 1 .. card /\ \A k \in 1 .. card : s[k] = ReplySeen(k)
      BY DEF RepliesSeen
    <3>2. RepliesSeen' = [k \in 1 .. card + 1 |-> ReplySeen(k)']
      BY <2>1 DEF RepliesSeen
    <3>3. \A k \in 1 .. card + 1 : ReplySeen(k)' = IF k <= card THEN s[k] ELSE new
      <4>. SUFFICES ASSUME NEW k \in 1 .. card + 1 PROVE ReplySeen(k)' = IF k <= card THEN s[k] ELSE new
        OBVIOUS
      <4>1. CASE k <= card
        <5>1. k \in 1 .. card
          BY <1>3, <4>1
        <5>. QED
          BY <1>6, <3>1, <4>1, <5>1
      <4>2. CASE ~(k <= card)
        <5>1. k = card + 1
          BY <1>3, <4>2
        <5>. QED
          BY <2>2, <4>2, <5>1
      <4>. QED
        BY <4>1, <4>2
    <3>. DEFINE Answer == [re : Nat, intact : BOOLEAN]
    <3>4. \A k \in 1 .. card : s[k] \in Answer
      <4>. SUFFICES ASSUME NEW k \in 1 .. card PROVE ReplySeen(k) \in Answer
        BY <3>1
      <4>1. got[EndOf(k)].re = k /\ k \in Nat
        BY DEF ReplyInv
      <4>. QED
        BY <4>1 DEF ReplySeen
    <3>5. new \in Answer
      BY <1>3
    <3>6. s = [k \in 1 .. card |-> s[k]] /\ RepliesSeen' = [k \in 1 .. card + 1 |-> IF k <= card THEN s[k] ELSE new]
      BY <3>2, <3>3 DEF RepliesSeen
    <3>. HIDE DEF new, s, Answer
    <3>7. s \in [1 .. card -> Answer]
      BY <3>4, <3>6
    <3>8. s \in Seq(Answer) /\ Len(s) = card
      BY <1>3, <3>1, <3>7, SeqDef, LenProperties
    <3>9. RepliesSeen' \in [1 .. card + 1 -> Answer] /\ DOMAIN RepliesSeen' = 1 .. card + 1
      <4>1. \A k \in 1 .. card + 1 : k <= card => k \in 1 .. card
        BY <1>3
      <4>. QED
        BY <3>4, <3>5, <3>6, <4>1
    <3>10. card + 1 \in Nat
      BY <1>3
    <3>11. RepliesSeen' \in Seq(Answer) /\ Len(RepliesSeen') = card + 1
      BY <3>9, <3>10, SeqDef, LenProperties
    <3>12. /\ Append(s, new) \in Seq(Answer) /\ Len(Append(s, new)) = card + 1
           /\ Append(s, new)[card + 1] = new
           /\ \A k \in 1 .. card : Append(s, new)[k] = s[k]
      BY <3>5, <3>8, AppendProperties
    <3>13. ASSUME NEW k \in 1 .. card + 1 PROVE RepliesSeen'[k] = Append(s, new)[k]
      <4>1. RepliesSeen'[k] = IF k <= card THEN s[k] ELSE new
        BY <3>6
      <4>2. CASE k <= card
        <5>1. k \in 1 .. card
          BY <1>3, <4>2
        <5>. QED
          BY <3>12, <4>1, <4>2, <5>1
      <4>3. CASE ~(k <= card)
        <5>1. k = card + 1
          BY <1>3, <4>3
        <5>. QED
          BY <3>12, <4>1, <4>3, <5>1
      <4>. QED
        BY <4>2, <4>3
    <3>14. RepliesSeen' = Append(s, new)
      <4>. DEFINE u == RepliesSeen'
                  v == Append(s, new)
      <4>1. /\ u \in Seq(Answer) /\ v \in Seq(Answer) /\ Len(u) = Len(v)
            /\ \A k \in 1 .. Len(u) : u[k] = v[k]
        BY <3>11, <3>12, <3>13
      <4>. HIDE DEF u, v
      <4>2. u = v
        BY <4>1, SeqEqual
      <4>. QED
        BY <4>2 DEF u, v
    <3>. QED
      BY <3>14 DEF s, new
  <2>5. intact \in BOOLEAN
    OBVIOUS
  <2>. HIDE DEF intact
  <2>6. card < Len(handled)
    BY <1>3
  <2>. QED
    BY <2>1, <2>3, <2>4, <2>5, <2>6
<1>. QED
  BY <1>7, <1>8

LEMMA StepImplementsExchange ==
  ASSUME TypeOK, TypeOK', BufferInv, HttpScript, ExchangeInv, ExchangeInv', [Next]_vars
  PROVE  [E!Next]_(E!exchangeVars)
<1>. DEFINE Request == [m \in DOMAIN Script |->
                         [request |-> TokensOf(m), valid |-> Script[m].parts[1] = "line"]]
<1>1. CASE Send
  <2>1. /\ sent < Len(Script) /\ ~gone /\ sent' = sent + 1
        /\ kept' = (kept /\ Cardinality(ReplyEnds) = sent /\ Framed(sent + 1))
        /\ UNCHANGED <<handled, got, gone>>
    BY <1>1 DEF Send
  <2>2. RepliesSeen' = RepliesSeen /\ Len(RepliesSeen) = Cardinality(ReplyEnds)
    BY <2>1, RepliesSeenKept, RepliesSeenLength
  <2>3. sent + 1 \in {m \in DOMAIN Script : Framed(m)} <=> Framed(sent + 1)
    <3>1. sent + 1 \in DOMAIN Script
      BY <2>1, SessionAssumption DEF TypeOK
    <3>. QED
      BY <3>1
  <2>4. Len(Request) = Len(Script)
    BY SessionAssumption
  <2>. HIDE DEF Request
  <2>5. E!Ask
    BY <2>1, <2>2, <2>3, <2>4 DEF E!Ask, Request
  <2>. QED
    BY <2>5 DEF E!Next
<1>2. CASE Receive
  <2>1. UNCHANGED <<sent, handled, gone, kept>>
    BY <1>2 DEF Receive
  <2>2. CASE ~kept
    BY <2>1, <2>2 DEF E!Next, E!Void
  <2>3. CASE kept
    <3>1. \/ RepliesSeen' = RepliesSeen
          \/ /\ Len(RepliesSeen) < Len(handled)
             /\ \E intact \in BOOLEAN :
                  /\ Len(RepliesSeen) + 1 \in Shorts => intact
                  /\ RepliesSeen' = Append(RepliesSeen, [re |-> Len(RepliesSeen) + 1, intact |-> intact])
      BY <1>2, <2>1, <2>3, ReplyArrives DEF ExchangeInv
    <3>2. CASE RepliesSeen' = RepliesSeen
      BY <2>1, <3>2 DEF E!exchangeVars
    <3>3. CASE RepliesSeen' # RepliesSeen
      <4>1. E!Reply
        BY <2>1, <2>3, <3>1, <3>3 DEF E!Reply, Shorts
      <4>. QED
        BY <4>1 DEF E!Next
    <3>. QED
      BY <3>2, <3>3
  <2>. QED
    BY <2>2, <2>3
<1>3. CASE Disconnect
  <2>1. gone' = TRUE /\ UNCHANGED <<sent, handled, got, kept>>
    BY <1>3 DEF Disconnect
  <2>2. E!Leave
    BY <2>1, RepliesSeenKept DEF E!Leave
  <2>. QED
    BY <2>2 DEF E!Next
<1>4. CASE HandleRead
  <2>1. UNCHANGED <<sent, gone, got, kept>>
    BY <1>4 DEF HandleRead
  <2>2. RepliesSeen' = RepliesSeen
    BY <2>1, RepliesSeenKept
  <2>3. CASE ~kept
    BY <2>1, <2>3 DEF E!Next, E!Void
  <2>4. CASE kept
    <3>1. \/ UNCHANGED <<handled, got>>
          \/ /\ sent = Len(handled) + 1 /\ sent \in DOMAIN Script
             /\ handled' = Append(handled, [request |-> TokensOf(sent),
                                            valid |-> Script[sent].parts[1] = "line"])
      BY <1>4, <2>4, ExchangeRead DEF ExchangeInv
    <3>2. CASE UNCHANGED <<handled, got>>
      BY <2>1, <2>2, <3>2 DEF E!exchangeVars
    <3>3. CASE /\ sent = Len(handled) + 1 /\ sent \in DOMAIN Script
               /\ handled' = Append(handled, [request |-> TokensOf(sent),
                                              valid |-> Script[sent].parts[1] = "line"])
      <4>1. Request[Len(handled) + 1] = [request |-> TokensOf(sent),
                                         valid |-> Script[sent].parts[1] = "line"]
        BY <3>3
      <4>2. Len(handled) < sent
        BY <3>3 DEF TypeOK
      <4>3. handled' = Append(handled, Request[Len(handled) + 1])
        BY <3>3, <4>1
      <4>. HIDE DEF Request
      <4>4. E!Handle
        BY <2>1, <2>2, <2>4, <4>2, <4>3 DEF E!Handle, Request
      <4>. QED
        BY <4>4 DEF E!Next
    <3>. QED
      BY <3>1, <3>2, <3>3
  <2>. QED
    BY <2>3, <2>4
<1>5. CASE UNCHANGED <<sent, handled, got, gone, kept>>
  BY <1>5, RepliesSeenKept DEF E!exchangeVars
<1>6. CASE ContinueWrite \/ HandleWrite \/ OperationFails \/ UNCHANGED vars
  BY <1>5, <1>6 DEF ContinueWrite, HandleWrite, OperationFails, vars
<1>. QED
  BY <1>1, <1>2, <1>3, <1>4, <1>6 DEF Next, Client, Server

LEMMA InitImplementsExchange == Init => E!Init
<1>. SUFFICES ASSUME Init PROVE E!Init
  OBVIOUS
<1>1. sent = 0 /\ handled = <<>> /\ got = <<>> /\ gone = FALSE /\ kept = TRUE
  BY DEF Init
<1>2. ReplyEnds = {}
  <2>1. DOMAIN <<>> = {}
    OBVIOUS
  <2>. QED
    BY <1>1, <2>1 DEF ReplyEnds
<1>3. Cardinality(ReplyEnds) = 0
  BY <1>2, FS_EmptySet
<1>4. RepliesSeen = <<>>
  BY <1>3 DEF RepliesSeen
<1>. QED
  BY <1>1, <1>4 DEF E!Init

(***************************************************************************)
(* A session implements Exchange for every script of HTTP messages,        *)
(* however TCP cuts the stream, and whatever the socket takes at once: as  *)
(* long as the client keeps to the rules, every step is the handling of    *)
(* the next whole request, the arrival of the next reply, or a stutter.    *)
(***************************************************************************)
THEOREM SessionIsAnExchange ==
  ASSUME HttpScript
  PROVE  Spec => ImplementsExchange
<1>1. TypeOK /\ BufferInv /\ ExchangeInv /\ [Next]_vars => ExchangeInv'
  BY ExchangeNext
<1>2. Spec => []ExchangeInv
  BY <1>1, ExchangeInit, BufferAlways, PTL DEF Spec
<1>3. TypeOK /\ TypeOK' /\ BufferInv /\ ExchangeInv /\ ExchangeInv' /\ [Next]_vars
        => [E!Next]_(E!exchangeVars)
  BY StepImplementsExchange
<1>. QED
  BY <1>2, <1>3, BufferAlways, InitImplementsExchange, PTL DEF Spec, ImplementsExchange, E!Spec

=============================================================================
