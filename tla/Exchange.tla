------------------------------ MODULE Exchange ------------------------------
(***************************************************************************)
(* What a connection promises a client that keeps to the rules, whatever   *)
(* way the bytes travel: each request is handled once, whole and in order, *)
(* and answered; a reply that the socket takes at once arrives as it was   *)
(* made.  The rules are to ask one thing at a time, in a plain frame; the  *)
(* promise is void from the first request that breaks them.                *)
(***************************************************************************)
EXTENDS Naturals, Sequences

CONSTANTS
  Request,      \* the requests of the client, in order
  Plain,        \* which of them are framed by the rules
  Short         \* which of them have a reply that the socket takes at once

VARIABLES
  sent,       \* how many requests the client has sent
  handled,    \* what the server handled
  got,        \* the replies that arrived: to which request, and intact or not
  gone,       \* the client has closed the connection
  kept        \* the client has kept to the rules

exchangeVars == <<sent, handled, got, gone, kept>>

Init == sent = 0 /\ handled = <<>> /\ got = <<>> /\ gone = FALSE /\ kept = TRUE

Ask ==
  /\ sent < Len(Request) /\ ~gone
  /\ sent' = sent + 1
  /\ kept' = (kept /\ Len(got) = sent /\ sent + 1 \in Plain)
  /\ UNCHANGED <<handled, got, gone>>

Handle ==
  /\ kept /\ Len(handled) < sent
  /\ handled' = Append(handled, Request[Len(handled) + 1])
  /\ UNCHANGED <<sent, got, gone, kept>>

Reply ==
  /\ kept /\ Len(got) < Len(handled)
  /\ \E intact \in BOOLEAN :
       /\ Len(got) + 1 \in Short => intact
       /\ got' = Append(got, [re |-> Len(got) + 1, intact |-> intact])
  /\ UNCHANGED <<sent, handled, gone, kept>>

Leave ==
  /\ gone' = TRUE
  /\ UNCHANGED <<sent, handled, got, kept>>

(* What the server handles and answers then is not promised. *)
Void == ~kept /\ UNCHANGED <<sent, gone, kept>>

Next == Ask \/ Handle \/ Reply \/ Leave \/ Void

Spec == Init /\ [][Next]_exchangeVars

(* Every request is answered, unless the client breaks the rules or leaves. *)
Answered ==
  \A n \in DOMAIN Request : (kept /\ sent >= n) ~> (Len(got) >= n \/ gone \/ ~kept)

=============================================================================
