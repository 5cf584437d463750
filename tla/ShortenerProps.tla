--------------------------- MODULE ShortenerProps ---------------------------
(***************************************************************************)
(* What makes the link shortener correct.                                  *)
(***************************************************************************)
EXTENDS Shortener

(***************************************************************************)
(* A link that was acknowledged is there, with what its own request        *)
(* stored, until it is deleted: neither another request that drew the same *)
(* code, nor a failed code_exists, nor a crash takes it away.              *)
(***************************************************************************)
AckedLinkKept ==
  \A r \in Req : resp[r] = "created" /\ r \notin erased =>
    links[code[r]] # NoLink /\ links[code[r]].by = r

(***************************************************************************)
(* Behind every row of type file is the complete file that its request     *)
(* uploaded, through failed uploads, deletions and crashes.                *)
(***************************************************************************)
FileBehindLink ==
  \A c \in Code : links[c] # NoLink /\ links[c].type = "file" =>
    files[PathOf(c, links[c].by)] = links[c].by

(***************************************************************************)
(* A click is kept for a link that exists, and for the very link the       *)
(* visitor was redirected by: a code that was deleted and given away again *)
(* inherits no clicks, however the deletion falls between resolve_code and *)
(* record_click.                                                           *)
(***************************************************************************)
ClickOfSeenLink ==
  \A x \in clicks : links[x.code] # NoLink /\ (seen[x.by].type = "url" => links[x.code] = seen[x.by])

(***************************************************************************)
(* Whoever asks for a link that was acknowledged before gets it: the URL   *)
(* that was shortened, or the complete file that was uploaded.             *)
(***************************************************************************)
Visited(r, s) ==
  IF kind[s] = "shorten" THEN resp[r] = "redirect" /\ seen[r].by = s
  ELSE resp[r] = "file" /\ served[r] = s

AckedLinkServed ==
  \A r \in Req : \A s \in before[r] :
    /\ kind[r] = "redirect" /\ resp[r] \notin {"none", "cut"} /\ r \notin faulted
    /\ code[r] = code[s] /\ s \notin erased
    => Visited(r, s)

(***************************************************************************)
(* The total that /stats shows is the sum of its days, though other        *)
(* requests record clicks between the two queries.                         *)
(***************************************************************************)
StatsConsistent ==
  \A r \in Req : resp[r] = "stats" /\ r \notin faulted => stats[r].total = stats[r].daily

(***************************************************************************)
(* A click that was counted belongs to a visitor who got the link.  The    *)
(* click comes first, so a visitor for whom the disk then fails leaves one *)
(* behind, and nobody else does: neither whoever is turned away by the     *)
(* database, nor whoever finds no file behind the row.                     *)
(***************************************************************************)
ServingFailed(r) == resp[r] = "error" /\ seen[r].type = "file" /\ r \in faulted

CountedWasServed ==
  \A x \in clicks : resp[x.by] \in {"none", "cut", "redirect", "file"} \/ ServingFailed(x.by)

(***************************************************************************)
(* When no request is under way, a file that no row points to was left     *)
(* behind by a crash or a failing disk: a lost race alone leaves none.     *)
(***************************************************************************)
AtRest == UnderWay = {}
Linked(p) == links[p[1]] # NoLink /\ links[p[1]].type = "file" /\ PathOf(p[1], links[p[1]].by) = p

NoFileLeftBehind ==
  AtRest => \A p \in Path : files[p] # NoFile /\ ~Linked(p) =>
    \E r \in Req : PathOf(code[r], r) = p /\ (resp[r] = "cut" \/ r \in faulted)

(***************************************************************************)
(* A row is never changed in place, and clicks go only with their link.    *)
(***************************************************************************)
RowsStay ==
  /\ \A c \in Code : links[c] # NoLink => links'[c] \in {links[c], NoLink}
  /\ \A x \in clicks : x \in clicks' \/ links'[x.code] = NoLink

RowsStable == [][RowsStay]_vars

(***************************************************************************)
(* The whole of it implements a table with one step per link created, told *)
(* of, erased or visited.  Between the row and its acknowledgement others  *)
(* may visit or erase the link, or a crash leave a row nobody was told of; *)
(* but nobody is told of a link that was not made, and none is made twice. *)
(***************************************************************************)
Promise == INSTANCE LinkPromise WITH
  table <- links, told <- Acknowledged, gone <- erased, visits <- clicks

ImplementsLinkPromise == Promise!Spec

(***************************************************************************)
(* Every request is answered, or cut off by a crash: generate_unique_code  *)
(* gives up when all codes are taken, and nothing waits for the database.  *)
(***************************************************************************)
EveryRequestAnswered ==
  \A r \in Req : (pc[r] \notin {"idle", "done"}) ~> (pc[r] = "done")

-----------------------------------------------------------------------------
(* Claims of the repository that the code does not keep. *)

(***************************************************************************)
(* sqlite_database_test.cc:484 of concurrent record_click calls: "All      *)
(* writes should succeed".  The server gives each request connections of   *)
(* its own, and a visitor who is redirected while another connection       *)
(* writes is not counted.                                                  *)
(***************************************************************************)
EveryVisitCounted ==
  \A r \in Req : resp[r] = "redirect" /\ r \notin faulted /\ seen[r].by \notin erased =>
    [code |-> code[r], by |-> r] \in clicks

=============================================================================
