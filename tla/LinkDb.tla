------------------------------- MODULE LinkDb -------------------------------
(***************************************************************************)
(* The SQLite database of the link shortener, as SQLiteDatabase drives it. *)
(*                                                                         *)
(* One database file, in WAL mode, is shared by every connection of the    *)
(* process.  Each SQLiteDatabase object owns one connection with prepared  *)
(* statements and no busy timeout.  What the callers can observe:          *)
(*                                                                         *)
(*   - a query that returned a row is left where it stopped until the same *)
(*     statement is used again, so its read transaction stays open and     *)
(*     later queries of the same connection see the same old snapshot;     *)
(*   - a write needs the one WAL write lock of the file, and fails at once *)
(*     when another connection holds it, or when the connection still has  *)
(*     a snapshot that is no longer the newest;                            *)
(*   - a failed call and an unknown code both come back as false/nullopt.  *)
(***************************************************************************)
EXTENDS Naturals, FiniteSets

CONSTANTS
  Code,       \* the codes SlugGenerator can draw (8 characters of CHARSET)
  Req,        \* the requests; each has a handler, and so connections, of its own
  NoLink,     \* no row in table links
  NoView,     \* the connection has no open read transaction
  NoConn      \* nobody holds the write lock

(***************************************************************************)
(* URLShortenerHandler opens two connections per request, one for each     *)
(* service.                                                                *)
(***************************************************************************)
Service == {"url", "file"}
Conn == Req \X Service

(***************************************************************************)
(* A row of links.  `by` stands for the destination column: the URL, or    *)
(* the path of the file, that request `by` stored.                         *)
(***************************************************************************)
Link == [type: {"url", "file"}, by: Req]

(* A row of clicks: the code, and the request that recorded the access. *)
Click == [code: Code, by: Req]

(* The prepared queries whose read transaction can stay open. *)
Query == {"get_link", "code_exists", "get_stats"}

(* What a read transaction sees: the state as of one commit. *)
View == [version: Nat, links: [Code -> Link \cup {NoLink}], clicks: SUBSET Click]

ASSUME LinkDbAssumption ==
  /\ NoLink \notin Link
  /\ NoView \notin View
  /\ NoConn \notin Conn

VARIABLES
  links,      \* the committed table links, by primary key
  clicks,     \* the committed table clicks
  version,    \* the number of commits, which the WAL header tells apart
  writer,     \* the connection that holds the WAL write lock, or NoConn
  open,       \* for each connection, the queries left at a row
  view        \* for each connection, its snapshot while a query is open

dbVars == <<links, clicks, version, writer, open, view>>

DbTypeOK ==
  /\ links \in [Code -> Link \cup {NoLink}]
  /\ clicks \in SUBSET Click
  /\ version \in Nat
  /\ writer \in Conn \cup {NoConn}
  /\ open \in [Conn -> SUBSET Query]
  /\ view \in [Conn -> View \cup {NoView}]
  /\ \A k \in Conn : (open[k] = {}) <=> (view[k] = NoView)

DbInit ==
  /\ links = [c \in Code |-> NoLink]
  /\ clicks = {}
  /\ version = 0
  /\ writer = NoConn
  /\ open = [k \in Conn |-> {}]
  /\ view = [k \in Conn |-> NoView]

Newest == [version |-> version, links |-> links, clicks |-> clicks]

(***************************************************************************)
(* Every call first resets its own statement.  That ends the read          *)
(* transaction when no other query is open, and the query then sees the    *)
(* newest commit.                                                          *)
(***************************************************************************)
StillOpen(k, q) == open[k] \ {q}
Sees(k, q) == IF StillOpen(k, q) = {} THEN Newest ELSE view[k]

(* Query q of connection k stopped at a row: its transaction stays open. *)
StopAtRow(k, q) ==
  /\ open' = [open EXCEPT ![k] = @ \cup {q}]
  /\ view' = [view EXCEPT ![k] = Sees(k, q)]

(* Query q of connection k found no row, or failed: its own use is over. *)
RunToEnd(k, q) ==
  /\ open' = [open EXCEPT ![k] = StillOpen(k, q)]
  /\ view' = [view EXCEPT ![k] = IF StillOpen(k, q) = {} THEN NoView ELSE @]

(* A query that found a row iff `found`; the tables do not change. *)
RunQuery(k, q, found) ==
  /\ IF found THEN StopAtRow(k, q) ELSE RunToEnd(k, q)
  /\ UNCHANGED <<links, clicks, version, writer>>

(* get_link and code_exists: the row connection k sees for code c. *)
RowSeen(k, q, c) == Sees(k, q).links[c]

(* get_click_stats counts the rows of clicks with the code. *)
ClicksSeen(k, q, c) == {x \in Sees(k, q).clicks : x.code = c}

(***************************************************************************)
(* sqlite3_step of an INSERT or DELETE: first the write lock ...           *)
(* SQLITE_BUSY when it is taken, SQLITE_BUSY_SNAPSHOT when the connection  *)
(* has a snapshot that is not the newest.                                  *)
(***************************************************************************)
\* Mutant of SnapshotIsStale: a write may start from an old snapshot.
SnapshotNeverStale(k) == FALSE
SnapshotIsStale(k) == open[k] # {} /\ view[k].version # version
CanWrite(k) == writer = NoConn /\ ~SnapshotIsStale(k)

BeginWrite(k) ==
  /\ CanWrite(k)
  /\ writer' = k
  /\ UNCHANGED <<links, clicks, version, open, view>>

RefuseWrite(k) ==
  /\ ~CanWrite(k)
  /\ UNCHANGED dbVars

(***************************************************************************)
(* ... and then the statement itself, with its constraints, which commits  *)
(* or rolls back and gives the lock back.                                  *)
(***************************************************************************)
Commit(k, newLinks, newClicks) ==
  /\ writer = k
  /\ links' = newLinks
  /\ clicks' = newClicks
  /\ version' = version + 1
  /\ writer' = NoConn
  /\ view' = [view EXCEPT ![k] =
                IF open[k] = {} THEN NoView
                ELSE [version |-> version + 1, links |-> newLinks, clicks |-> newClicks]]
  /\ UNCHANGED open

Rollback(k) ==
  /\ writer = k
  /\ writer' = NoConn
  /\ UNCHANGED <<links, clicks, version, open, view>>

\* Mutant of InsertLinkOK: INSERT OR REPLACE.
InsertLinkReplaces(c) == TRUE

(* INSERT INTO links: code is the primary key. *)
InsertLinkOK(c) == links[c] = NoLink
InsertLink(k, c, row) ==
  IF InsertLinkOK(c) THEN Commit(k, [links EXCEPT ![c] = row], clicks) ELSE Rollback(k)

(* INSERT INTO clicks: code is a foreign key into links. *)
InsertClickOK(c) == links[c] # NoLink
InsertClick(k, c, r) ==
  IF InsertClickOK(c)
  THEN Commit(k, links, clicks \cup {[code |-> c, by |-> r]})
  ELSE Rollback(k)

(* DELETE FROM links: the clicks of the link go with it (ON DELETE CASCADE). *)
DeleteLinkOK(c) == links[c] # NoLink

DeleteLink(k, c) ==
  IF DeleteLinkOK(c)
  THEN Commit(k, [links EXCEPT ![c] = NoLink], {x \in clicks : x.code # c})
  ELSE Rollback(k)

(* The connections of a set are closed: ~SQLiteDatabase, or the process dies. *)
Close(ks) ==
  /\ open' = [k \in Conn |-> IF k \in ks THEN {} ELSE open[k]]
  /\ view' = [k \in Conn |-> IF k \in ks THEN NoView ELSE view[k]]
  /\ writer' = IF writer \in ks THEN NoConn ELSE writer
  /\ UNCHANGED <<links, clicks, version>>

=============================================================================
