---------------------------- MODULE SessionProps ----------------------------
(***************************************************************************)
(* What a session owes its client.                                         *)
(***************************************************************************)
EXTENDS Session

(* Where the k-th reply ends, and the replies, each intact if its pieces are. *)
EndOf(k) == CHOOSE i \in ReplyEnds : Cardinality({j \in ReplyEnds : j <= i}) = k

ReplySeen(k) ==
  LET number == got[EndOf(k)].re
  IN [re |-> number, intact |-> \A i \in DOMAIN got : got[i].re = number => got[i].intact]

RepliesSeen == [k \in 1 .. Cardinality(ReplyEnds) |-> ReplySeen(k)]

E == INSTANCE Exchange WITH
       Request <- [m \in DOMAIN Script |->
                    [request |-> TokensOf(m), valid |-> Script[m].parts[1] = "line"]],
       Plain <- {m \in DOMAIN Script : Framed(m)},
       Short <- {m \in DOMAIN Script : Script[m].reply <= Room},
       got <- RepliesSeen

(***************************************************************************)
(* What a client sends as an HTTP message: a request line, header lines,   *)
(* an empty line, and a body as long as Content-Length says (none without  *)
(* that header, nor behind a bad method).  A client that ends the lines of *)
(* its head with LF has no CRLF CRLF in its body.                          *)
(***************************************************************************)
HeadIs(parts, e) ==
  /\ e > 1 /\ parts[1] \in {"line", "badline"}
  /\ \A i \in 2 .. e - 1 : parts[i] \in {"host", "length", "junk"}
  /\ parts[e] \in {"end", "lf_end"}

BodyIs(parts, e, body) ==
  /\ \A i \in e + 1 .. Len(parts) :
       parts[i] \in (IF parts[e] = "end" THEN {"data", "gap"} ELSE {"data"})
  /\ Len(parts) = e + (IF parts[1] = "line" /\ \E i \in 2 .. e - 1 : parts[i] = "length"
                       THEN body ELSE 0)

HttpMessage(m) ==
  \E e \in DOMAIN Script[m].parts : HeadIs(Script[m].parts, e) /\ BodyIs(Script[m].parts, e, Script[m].body)

(***************************************************************************)
(* The session implements Exchange, however the stream is cut: as long as  *)
(* a client waits for its replies, and no Content-Length is the last       *)
(* header, each request is handled once, whole and in order (or refused    *)
(* with a 400), and its reply arrives, as it was made if the send buffer   *)
(* has room for all of it.                                                 *)
(***************************************************************************)
ImplementsExchange == E!Spec

(***************************************************************************)
(* Such a client is answered every time, unless it leaves: the session     *)
(* never waits for bytes that are not to come.                             *)
(***************************************************************************)
EveryMessageAnswered == E!Answered

(***************************************************************************)
(* Whatever the client does, each handled request is a slice of what it    *)
(* sent that starts behind the slice before: request_data never leaks from *)
(* one request into the next.                                              *)
(***************************************************************************)
Before(s, t) == s.of < t.of \/ (s.of = t.of /\ s.at < t.at)

NothingHandledTwice ==
  \A i, j \in DOMAIN handled :
    \A a \in DOMAIN handled[i].request, b \in DOMAIN handled[j].request :
      i < j \/ (i = j /\ a < b) => Before(handled[i].request[a], handled[j].request[b])

(***************************************************************************)
(* response_str lives as long as handle_read: what arrives spoiled did not *)
(* fit into the send buffer when the reply was started.  The buffer has    *)
(* room for the pieces of the same reply before it, unless the client had  *)
(* left earlier replies unread; a client that reads them gets the first    *)
(* Room pieces of each reply as they were made.                            *)
(***************************************************************************)
OnlyRestsSpoiled ==
  LET arrived == got \o pipe
  IN \A i \in DOMAIN arrived : ~arrived[i].intact =>
       Cardinality({k \in DOMAIN arrived : k < i /\ arrived[k].re = arrived[i].re})
         + arrived[i].behind >= Room

-----------------------------------------------------------------------------
(* A claim of the repository that the code does not keep. *)

(***************************************************************************)
(* session.cc:133: "Only process the request if it's complete".  When      *)
(* Content-Length is the last header, its value is not read, and the       *)
(* request is processed as soon as its head is there, without its body.    *)
(***************************************************************************)
OnlyCompleteProcessed ==
  \A i \in DOMAIN handled : handled[i].valid =>
    \E m \in DOMAIN Script : handled[i].request = TokensOf(m)

=============================================================================
