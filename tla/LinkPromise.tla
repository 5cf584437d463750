---------------------------- MODULE LinkPromise -----------------------------
(***************************************************************************)
(* What the link shortener promises, whatever happens inside: a table of   *)
(* links, in which the link of a request appears once, under a code that   *)
(* no other link has, stays as it is until it is erased, and is charged    *)
(* with visits only while it is there.  A request is told of its link only *)
(* when the link was made; a link that was made may never be told.         *)
(***************************************************************************)
CONSTANTS
  Code,
  Req,
  NoLink

Link == [type : {"url", "file"}, by : Req]

VARIABLES
  table,    \* the link under each code
  told,     \* the requests that were told their link exists
  gone,     \* the requests whose link was erased
  visits    \* the visits that were counted

vars == <<table, told, gone, visits>>

Init ==
  /\ table = [c \in Code |-> NoLink]
  /\ told = {} /\ gone = {} /\ visits = {}

(* The requests whose link is in the table, or was. *)
Made == gone \cup {table[c].by : c \in {d \in Code : table[d] # NoLink}}

Create(c, link) ==
  /\ table[c] = NoLink /\ link.by \notin Made
  /\ table' = [table EXCEPT ![c] = link]
  /\ UNCHANGED <<told, gone, visits>>

Tell(r) ==
  /\ r \in Made
  /\ told' = told \cup {r}
  /\ UNCHANGED <<table, gone, visits>>

Erase(c) ==
  /\ table[c] # NoLink
  /\ table' = [table EXCEPT ![c] = NoLink]
  /\ gone' = gone \cup {table[c].by}
  /\ visits' = {x \in visits : x.code # c}
  /\ UNCHANGED told

Visit(c, r) ==
  /\ table[c] # NoLink
  /\ visits' = visits \cup {[code |-> c, by |-> r]}
  /\ UNCHANGED <<table, told, gone>>

Next ==
  \/ \E c \in Code, link \in Link : Create(c, link)
  \/ \E c \in Code : Erase(c)
  \/ \E c \in Code, r \in Req : Visit(c, r)
  \/ \E r \in Req : Tell(r)

Spec == Init /\ [][Next]_vars

=============================================================================
