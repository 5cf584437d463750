------------------------------ MODULE Session -------------------------------
(***************************************************************************)
(* One connection: class session and the client at the other end.          *)
(*                                                                         *)
(* A session has one asynchronous operation pending at any time, a read or *)
(* a write, so its handlers never run at the same time.  handle_read finds *)
(* the end of a request in the bytes that came so far, whichever way TCP   *)
(* cut them, handles the request and starts to write the reply;            *)
(* handle_write forgets the request and reads on.                          *)
(*                                                                         *)
(* Bytes are cut into tokens: the lines of the head, the empty line after  *)
(* it, and pieces of the body.  Nothing in handle_read depends on half a   *)
(* token.                                                                  *)
(***************************************************************************)
EXTENDS Naturals, Sequences, FiniteSetsExt

CONSTANTS
  Script,       \* the messages of the client, in order
  Pipelining,   \* whether the client sends on before it has its reply
  MaxRead,      \* the tokens one read takes at most (8192 bytes in the code)
  Room,         \* the pieces that the send buffer of the socket holds
  Window        \* the pieces that the client's receive buffer holds

(***************************************************************************)
(*   line     a request line with a method that isValidHttpRequest knows   *)
(*   badline  one with another method                                      *)
(*   host     a header line without meaning for the session                *)
(*   length   Content-Length, with the length of the body in tokens        *)
(*   junk     Content-Length, with a value that is no number               *)
(*   end      the empty line, after CRLF line ends; lf_end after LF        *)
(*   data     a piece of the body                                          *)
(*   gap      a piece of the body up to and with an empty line, as between *)
(*            the header of a part of multipart/form-data and its content  *)
(***************************************************************************)
Part == {"line", "badline", "host", "length", "junk", "end", "lf_end", "data", "gap"}

(* A message is its parts, the length of its body, and that of its reply. *)
Message == [parts : Seq(Part), body : Nat, reply : Nat \ {0}]

ASSUME SessionAssumption ==
  /\ Script \in Seq(Message)
  /\ Pipelining \in BOOLEAN
  /\ MaxRead \in Nat \ {0} /\ Room \in Nat \ {0} /\ Window \in Nat

Token == [of : Nat, at : Nat]
PartOf(t) == Script[t.of].parts[t.at]
TokensOf(m) == [i \in DOMAIN Script[m].parts |-> [of |-> m, at |-> i]]

VARIABLES
  sent,       \* how many messages the client has sent
  wire,       \* tokens on their way to the server
  gone,       \* the client has closed the connection
  phase,      \* the pending operation of the session, or how it ended
  data,       \* request_data
  handled,    \* history: what was handled, or refused as malformed
  unsent,     \* the pieces of the reply that async_write has not written
  pipe,       \* pieces in the two buffers, which the client has not read
  got,        \* the pieces the client received
  kept        \* history: the client asked one thing at a time, in plain frames

vars == <<sent, wire, gone, phase, data, handled, unsent, pipe, got, kept>>

Phase == {"reading", "writing", "written", "deleted", "thrown"}

(***************************************************************************)
(* A piece of a reply.  History: behind how many pieces that the client    *)
(* had not read its reply was started.                                     *)
(***************************************************************************)
Piece == [re : Nat, last : BOOLEAN, intact : BOOLEAN, behind : Nat]
Handled == [request : Seq(Token), valid : BOOLEAN]

TypeOK ==
  /\ sent \in 0 .. Len(Script)
  /\ wire \in Seq(Token) /\ data \in Seq(Token)
  /\ gone \in BOOLEAN /\ kept \in BOOLEAN
  /\ phase \in Phase
  /\ handled \in Seq(Handled)
  /\ unsent \in Seq(Piece) /\ pipe \in Seq(Piece) /\ got \in Seq(Piece)
  /\ (unsent # <<>>) => phase \in {"writing", "deleted"}

Init ==
  /\ sent = 0 /\ wire = <<>> /\ gone = FALSE
  /\ phase = "reading" /\ data = <<>> /\ handled = <<>>
  /\ unsent = <<>> /\ pipe = <<>> /\ got = <<>> /\ kept = TRUE

-----------------------------------------------------------------------------
(* The client. *)

(* Where the replies end that the client has in full. *)
ReplyEnds == {i \in DOMAIN got : got[i].last}

(* Content-Length, if message m has one, is a number and has a header behind it. *)
Framed(m) ==
  \A i \in DOMAIN Script[m].parts :
    /\ Script[m].parts[i] # "junk"
    /\ Script[m].parts[i] = "length" => Script[m].parts[i + 1] \notin {"end", "lf_end"}

Send ==
  /\ sent < Len(Script) /\ ~gone
  /\ Pipelining \/ Cardinality(ReplyEnds) = sent
  /\ kept' = (kept /\ Cardinality(ReplyEnds) = sent /\ Framed(sent + 1))
  /\ sent' = sent + 1
  /\ wire' = wire \o TokensOf(sent + 1)
  /\ UNCHANGED <<gone, phase, data, handled, unsent, pipe, got>>

Receive ==
  /\ pipe # <<>> /\ ~gone
  /\ got' = Append(got, Head(pipe))
  /\ pipe' = Tail(pipe)
  /\ UNCHANGED <<sent, wire, gone, phase, data, handled, unsent, kept>>

Disconnect ==
  /\ ~gone
  /\ gone' = TRUE
  /\ UNCHANGED <<sent, wire, phase, data, handled, unsent, pipe, got, kept>>

-----------------------------------------------------------------------------
(* Where a request ends. *)

At(d, parts) == {i \in DOMAIN d : PartOf(d[i]) \in parts}

(* header_end: the first CRLF CRLF, else the first LF LF, else 0 for npos. *)
HeaderEnd(d) ==
  LET crlf == At(d, {"end", "gap"})
      lf   == At(d, {"lf_end"})
  IN IF crlf # {} THEN Min(crlf) ELSE IF lf # {} THEN Min(lf) ELSE 0

(* The request line is one of the four methods, or there is no HTTP/. *)
Malformed(d) == At(d, {"line", "badline"}) # {} /\ PartOf(d[1]) # "line"

(***************************************************************************)
(* The Content-Length line in headers, the text before the empty line.     *)
(* The line end of the last header is not part of that text, so the value  *)
(* on that line is not read, and 0 for npos.                               *)
(***************************************************************************)
LengthLine(d) ==
  LET lines == {i \in At(d, {"length", "junk"}) : i < HeaderEnd(d)}
  IN IF lines = {} \/ Min(lines) = HeaderEnd(d) - 1 THEN 0 ELSE Min(lines)

LengthIsJunk(d) == LengthLine(d) # 0 /\ PartOf(d[LengthLine(d)]) = "junk"
ContentLength(d) == IF LengthLine(d) = 0 THEN 0 ELSE Script[d[LengthLine(d)].of].body

\* Mutants of ExpectedTotal: without the body, and off by one.
HeadOnly(d) == HeaderEnd(d)
OneTooMany(d) == HeaderEnd(d) + ContentLength(d) + 1
ExpectedTotal(d) == HeaderEnd(d) + ContentLength(d)

Complete(d) == HeaderEnd(d) # 0 /\ Len(d) >= ExpectedTotal(d)

-----------------------------------------------------------------------------
(* Writing a reply. *)

(***************************************************************************)
(* async_write writes what the send buffer has free before it returns,     *)
(* which may be nothing.  The rest is written later, from a buffer that is *)
(* then gone: response_str is a local variable of handle_read.             *)
(***************************************************************************)
Pieces(n) ==
  [i \in 1 .. n |-> [re |-> Len(handled) + 1, last |-> i = n, intact |-> TRUE, behind |-> Len(pipe)]]

(* What the client has not read lies in either buffer, as the network goes. *)
Free == {n \in 0 .. Room : Len(pipe) - Window <= Room - n /\ Room - n <= Len(pipe)}

(* How much of a reply the first write may take. *)
Taken(length) == {IF length < n THEN length ELSE n : n \in Free}

\* Mutant of StartReply: the write is taken for finished when it is started.
StartReplyAndForget(d, valid, length) ==
  \E now \in Taken(length) :
    /\ handled' = Append(handled, [request |-> d, valid |-> valid])
    /\ pipe' = pipe \o SubSeq(Pieces(length), 1, now)
    /\ unsent' = SubSeq(Pieces(length), now + 1, length)
    /\ phase' = "written"

\* Mutant of StartReply: async_write only starts, and writes nothing at once.
StartReplyLater(d, valid, length) ==
  /\ handled' = Append(handled, [request |-> d, valid |-> valid])
  /\ unsent' = Pieces(length)
  /\ pipe' = pipe
  /\ phase' = "writing"

StartReply(d, valid, length) ==
  \E now \in Taken(length) :
    /\ handled' = Append(handled, [request |-> d, valid |-> valid])
    /\ pipe' = pipe \o SubSeq(Pieces(length), 1, now)
    /\ unsent' = SubSeq(Pieces(length), now + 1, length)
    /\ phase' = IF now = length THEN "written" ELSE "writing"

(* The length of the reply to what d begins with; 1 for an error page. *)
ReplyLength(d) == IF PartOf(d[1]) = "line" THEN Script[d[1].of].reply ELSE 1

(* Some room is free again, and the socket takes the next piece. *)
ContinueWrite ==
  /\ phase = "writing" /\ ~gone
  /\ Len(pipe) < Room + Window
  /\ \E intact \in BOOLEAN : pipe' = Append(pipe, [Head(unsent) EXCEPT !.intact = intact])
  /\ unsent' = Tail(unsent)
  /\ phase' = IF Len(unsent) = 1 THEN "written" ELSE "writing"
  /\ UNCHANGED <<sent, wire, gone, data, handled, got, kept>>

-----------------------------------------------------------------------------
(* The handlers of the session. *)

(* What handle_read does with request_data once the new tokens are in it. *)
Process(d) ==
  IF HeaderEnd(d) # 0 /\ Malformed(d) THEN
    /\ StartReply(d, FALSE, 1)
    /\ data' = d
  ELSE IF HeaderEnd(d) # 0 /\ LengthIsJunk(d) THEN  \* stoul throws
    /\ phase' = "thrown"
    /\ data' = d
    /\ UNCHANGED <<handled, unsent, pipe>>
  ELSE IF Complete(d) THEN
    LET request == SubSeq(d, 1, ExpectedTotal(d))
    IN /\ StartReply(request, TRUE, ReplyLength(request))
       /\ data' = request
  ELSE
    /\ data' = d
    /\ UNCHANGED <<phase, handled, unsent, pipe>>

HandleRead ==
  /\ phase = "reading"
  /\ \E n \in 1 .. Len(wire) :
       /\ n <= MaxRead
       /\ Process(data \o SubSeq(wire, 1, n))
       /\ wire' = SubSeq(wire, n + 1, Len(wire))
  /\ UNCHANGED <<sent, gone, got, kept>>

\* Mutant of HandleWrite: request_data is not cleared.
HandleWriteKeepsData ==
  /\ phase = "written"
  /\ phase' = "reading"
  /\ UNCHANGED <<sent, wire, gone, data, handled, unsent, pipe, got, kept>>

HandleWrite ==
  /\ phase = "written"
  /\ data' = <<>>
  /\ phase' = "reading"
  /\ UNCHANGED <<sent, wire, gone, handled, unsent, pipe, got, kept>>

(***************************************************************************)
(* A read ends with an error at the end of the stream or on a reset, a     *)
(* write on a reset, and handle_read or handle_write deletes the session.  *)
(***************************************************************************)
OperationFails ==
  /\ gone /\ phase \in {"reading", "writing", "written"}
  /\ phase' = "deleted"
  /\ UNCHANGED <<sent, wire, gone, data, handled, unsent, pipe, got, kept>>

Client == Send \/ Receive \/ Disconnect
Server == HandleRead \/ ContinueWrite \/ HandleWrite \/ OperationFails

Next == Client \/ Server

Spec == Init /\ [][Next]_vars

(***************************************************************************)
(* A thread of the server runs whatever handler is ready, and the client   *)
(* reads its replies.  Nobody has to send, or to stay.                     *)
(***************************************************************************)
FairSpec == Spec /\ WF_vars(Server) /\ WF_vars(Receive)

=============================================================================
