-------------------------- MODULE ShortenerProofs ---------------------------
(***************************************************************************)
(* Theorems about Shortener, for any sets of requests, codes and names,    *)
(* any number of attempts, faults and crashes.                             *)
(***************************************************************************)
EXTENDS ShortenerProps, TLAPS

-----------------------------------------------------------------------------
(***************************************************************************)
(* The calls of LinkDb: each keeps DbTypeOK, what a query returns has its  *)
(* type, and snapshots are the states of commits.                          *)
(***************************************************************************)

(* What a query of connection k sees is the state as of some commit. *)
LEMMA SeesType ==
  ASSUME DbTypeOK, NEW k \in Conn, NEW q
  PROVE  Sees(k, q) \in View
<1>1. Newest \in View
  BY DEF DbTypeOK, Newest, View
<1>2. CASE StillOpen(k, q) = {}
  BY <1>1, <1>2 DEF Sees
<1>3. CASE StillOpen(k, q) # {}
  <2>1. open[k] # {}
    BY <1>3 DEF StillOpen
  <2>2. view[k] \in View
    BY <2>1 DEF DbTypeOK
  <2>. QED
    BY <1>3, <2>2 DEF Sees
<1>. QED
  BY <1>2, <1>3

(* get_link and code_exists find a row of links, or nothing. *)
LEMMA RowSeenType ==
  ASSUME DbTypeOK, NEW k \in Conn, NEW q, NEW c \in Code
  PROVE  RowSeen(k, q, c) \in Link \cup {NoLink}
BY SeesType DEF RowSeen, View

(* get_click_stats counts rows of clicks. *)
LEMMA ClicksSeenType ==
  ASSUME DbTypeOK, NEW k \in Conn, NEW q, NEW c \in Code
  PROVE  ClicksSeen(k, q, c) \in SUBSET Click
BY SeesType DEF ClicksSeen, View

(* A query keeps the type of the database, whether it finds a row or not. *)
LEMMA RunQueryType ==
  ASSUME DbTypeOK, NEW k \in Conn, NEW q \in Query, NEW found \in BOOLEAN,
         RunQuery(k, q, found)
  PROVE  DbTypeOK'
<1>0. UNCHANGED <<links, clicks, version, writer>>
  BY DEF RunQuery
<1>1. CASE StopAtRow(k, q)
  <2>1. Sees(k, q) \in View /\ Sees(k, q) # NoView
    BY SeesType, LinkDbAssumption
  <2>2. open[k] \cup {q} \in SUBSET Query /\ open[k] \cup {q} # {}
    BY DEF DbTypeOK
  <2>. QED
    BY <1>0, <1>1, <2>1, <2>2 DEF DbTypeOK, StopAtRow
<1>2. CASE RunToEnd(k, q)
  <2>1. StillOpen(k, q) \in SUBSET Query
    BY DEF DbTypeOK, StillOpen
  <2>2. StillOpen(k, q) # {} => view[k] \in View /\ view[k] # NoView
    BY LinkDbAssumption DEF DbTypeOK, StillOpen
  <2>. QED
    BY <1>0, <1>2, <2>1, <2>2 DEF DbTypeOK, RunToEnd
<1>. QED
  BY <1>1, <1>2 DEF RunQuery

(* Taking the write lock, or failing to, keeps the type of the database. *)
LEMMA BeginWriteType ==
  ASSUME DbTypeOK, NEW k \in Conn, BeginWrite(k)
  PROVE  DbTypeOK'
BY DEF DbTypeOK, BeginWrite

LEMMA RefuseWriteType ==
  ASSUME DbTypeOK, NEW k, RefuseWrite(k)
  PROVE  DbTypeOK'
BY DEF DbTypeOK, RefuseWrite, dbVars

(* A commit keeps the type of the database, when the new tables have theirs. *)
LEMMA CommitType ==
  ASSUME DbTypeOK, NEW k \in Conn,
         NEW newLinks \in [Code -> Link \cup {NoLink}], NEW newClicks \in SUBSET Click,
         Commit(k, newLinks, newClicks)
  PROVE  DbTypeOK'
<1>. DEFINE new == [version |-> version + 1, links |-> newLinks, clicks |-> newClicks]
<1>1. new \in View /\ new # NoView
  BY LinkDbAssumption DEF DbTypeOK, View
<1>2. view' = [view EXCEPT ![k] = IF open[k] = {} THEN NoView ELSE new]
  BY DEF Commit
<1>3. /\ links' = newLinks /\ clicks' = newClicks /\ version' = version + 1
      /\ writer' = NoConn /\ open' = open
  BY DEF Commit
<1>. HIDE DEF new
<1>. QED
  BY <1>1, <1>2, <1>3 DEF DbTypeOK

LEMMA RollbackType ==
  ASSUME DbTypeOK, NEW k, Rollback(k)
  PROVE  DbTypeOK'
BY DEF DbTypeOK, Rollback

(* The three statements that write keep the type of the database. *)
LEMMA InsertLinkType ==
  ASSUME DbTypeOK, NEW k \in Conn, NEW c \in Code, NEW row \in Link, InsertLink(k, c, row)
  PROVE  DbTypeOK'
<1>1. [links EXCEPT ![c] = row] \in [Code -> Link \cup {NoLink}] /\ clicks \in SUBSET Click
  BY DEF DbTypeOK
<1>. QED
  BY <1>1, CommitType, RollbackType DEF InsertLink

LEMMA InsertClickType ==
  ASSUME DbTypeOK, NEW k \in Conn, NEW c \in Code, NEW r \in Req, InsertClick(k, c, r)
  PROVE  DbTypeOK'
<1>1. /\ links \in [Code -> Link \cup {NoLink}]
      /\ clicks \cup {[code |-> c, by |-> r]} \in SUBSET Click
  BY DEF DbTypeOK, Click
<1>. QED
  BY <1>1, CommitType, RollbackType DEF InsertClick

LEMMA DeleteLinkType ==
  ASSUME DbTypeOK, NEW k \in Conn, NEW c \in Code, DeleteLink(k, c)
  PROVE  DbTypeOK'
<1>1. /\ [links EXCEPT ![c] = NoLink] \in [Code -> Link \cup {NoLink}]
      /\ {x \in clicks : x.code # c} \in SUBSET Click
  BY DEF DbTypeOK
<1>. QED
  BY <1>1, CommitType, RollbackType DEF DeleteLink

(* Closing connections keeps the type of the database. *)
LEMMA CloseType ==
  ASSUME DbTypeOK, NEW ks, Close(ks)
  PROVE  DbTypeOK'
BY DEF DbTypeOK, Close

-----------------------------------------------------------------------------
(* Snapshots and the write lock. *)

(***************************************************************************)
(* What one call through connection k can do to the database, the closing  *)
(* of connections apart.                                                   *)
(***************************************************************************)
DbCall(k) ==
  \/ UNCHANGED dbVars
  \/ \E q \in Query, found \in BOOLEAN : RunQuery(k, q, found)
  \/ BeginWrite(k)
  \/ Rollback(k)
  \/ \E newLinks, newClicks : Commit(k, newLinks, newClicks)

(***************************************************************************)
(* A snapshot is the state of some commit, and the tables as they are when *)
(* that commit is the newest.                                              *)
(***************************************************************************)
ViewOK(k) == view[k] # NoView =>
  /\ view[k].version <= version
  /\ view[k].version = version => view[k].links = links /\ view[k].clicks = clicks

(* A call moves the snapshot of its own connection only. *)
LEMMA CallOfOther ==
  ASSUME DbTypeOK, NEW k \in Conn, NEW j \in Conn, j # k, DbCall(k)
  PROVE  open'[j] = open[j] /\ view'[j] = view[j]
BY DEF DbCall, dbVars, DbTypeOK, RunQuery, StopAtRow, RunToEnd, BeginWrite, Rollback, Commit

(* While connection j holds the write lock, no other call changes a table. *)
LEMMA CallUnderLock ==
  ASSUME DbTypeOK, NEW k \in Conn, NEW j \in Conn, j # k, DbCall(k), writer = j
  PROVE  UNCHANGED <<links, clicks, version, writer>>
BY LinkDbAssumption DEF DbCall, dbVars, RunQuery, BeginWrite, CanWrite, Rollback, Commit

(* Every call keeps every snapshot the state of some commit. *)
LEMMA CallKeepsViews ==
  ASSUME DbTypeOK, \A j \in Conn : ViewOK(j), NEW k \in Conn, DbCall(k), NEW j \in Conn
  PROVE  ViewOK(j)'
<1>. USE DEF DbTypeOK, ViewOK
<1>1. CASE UNCHANGED dbVars
  BY <1>1 DEF dbVars
<1>2. CASE \E q \in Query, found \in BOOLEAN : RunQuery(k, q, found)
  <2>1. PICK q \in Query, found \in BOOLEAN : RunQuery(k, q, found)
    BY <1>2
  <2>2. view'[j] \in {view[j], Newest, NoView}
    BY <2>1 DEF RunQuery, StopAtRow, RunToEnd, Sees
  <2>3. UNCHANGED <<links, clicks, version>>
    BY <2>1 DEF RunQuery
  <2>. QED
    BY <2>2, <2>3 DEF Newest
<1>3. CASE BeginWrite(k) \/ Rollback(k)
  BY <1>3 DEF BeginWrite, Rollback
<1>4. CASE \E newLinks, newClicks : Commit(k, newLinks, newClicks)
  <2>1. CASE j = k
    BY <1>4, <2>1 DEF Commit
  <2>2. CASE j # k
    <3>1. view'[j] = view[j] /\ version' = version + 1
      BY <1>4, <2>2 DEF Commit
    <3>2. view[j] # NoView => view[j].version \in Nat
      BY DEF View
    <3>. QED
      BY <3>1, <3>2
  <2>. QED
    BY <2>1, <2>2
<1>. QED
  BY <1>1, <1>2, <1>3, <1>4 DEF DbCall

(* Closing connections keeps the snapshots of the others. *)
LEMMA CloseKeepsViews ==
  ASSUME DbTypeOK, NEW j \in Conn, ViewOK(j), NEW ks, Close(ks)
  PROVE  ViewOK(j)'
BY DEF DbTypeOK, ViewOK, Close

(***************************************************************************)
(* A query that runs while another one of its connection is open sees the  *)
(* snapshot that is there, and leaves it there.                            *)
(***************************************************************************)
LEMMA QueryInSnapshot ==
  ASSUME DbTypeOK, NEW k \in Conn, NEW q, NEW found, NEW other,
         other \in open[k], other # q, RunQuery(k, q, found)
  PROVE  Sees(k, q) = view[k] /\ view'[k] = view[k] /\ other \in open'[k]
<1>1. other \in StillOpen(k, q)
  BY DEF StillOpen
<1>. QED
  BY <1>1 DEF DbTypeOK, Sees, RunQuery, StopAtRow, RunToEnd

(* A query that stops at a row leaves what it saw as the snapshot. *)
LEMMA QueryAtRow ==
  ASSUME DbTypeOK, NEW k \in Conn, NEW q, RunQuery(k, q, TRUE)
  PROVE  view'[k] = Sees(k, q) /\ q \in open'[k]
BY DEF DbTypeOK, RunQuery, StopAtRow

-----------------------------------------------------------------------------

(***************************************************************************)
(* What TypeOK leans on: a request has settled on a code, and has read a   *)
(* row, by the time it makes the calls that use them, and it stops drawing *)
(* at MaxAttempts.                                                         *)
(***************************************************************************)
Over == {"answered", "done"}

StepOK(r) ==
  /\ pc[r] \notin {"idle", "draw"} \cup Over => code[r] \in Code
  /\ pc[r] \in {"metadata", "click", "commit_click", "serve", "read", "unlink"} => seen[r] \in Link
  /\ pc[r] \in {"delete", "commit_delete"} /\ kind[r] = "delete_file" => seen[r] \in Link
  /\ pc[r] = "exists" => seen[r] \in Link
  /\ pc[r] \in {"idle", "draw"} => tries[r] < MaxAttempts
  /\ resp[r] = "created" => pc[r] \in Over /\ code[r] \in Code

IInv == TypeOK /\ \A r \in Req : StepOK(r)

USE DEF Over

LEMMA InitIInv == Init => IInv
<1>. SUFFICES ASSUME Init PROVE IInv
  OBVIOUS
<1>1. DbTypeOK
  BY DEF Init, DbInit, DbTypeOK
<1>2. RequestTypeOK
  BY ShortenerAssumption DEF Init, RequestTypeOK, Step, Answer, Content, Kind
<1>3. \A r \in Req : StepOK(r)
  BY ShortenerAssumption DEF Init, StepOK
<1>. QED
  BY <1>1, <1>2, <1>3 DEF IInv, TypeOK

(* A request calls the database through a connection of its own. *)
LEMMA DbConn == \A r \in Req : Db(r) \in Conn
BY DEF Db, ServiceOf, Service, Conn

(* No call of a request spoils the type of the database. *)
LEMMA DbStep ==
  ASSUME IInv, [Next]_vars
  PROVE  DbTypeOK'
<1>. USE DbConn DEF IInv, TypeOK
<1>1. ASSUME UNCHANGED dbVars PROVE DbTypeOK'
  BY <1>1 DEF dbVars, DbTypeOK
<1>2. ASSUME NEW r \in Req, Arrive(r) PROVE DbTypeOK'
  BY <1>1, <1>2 DEF Arrive, HandleRequest, ServicesFail, RejectInput
<1>3. ASSUME NEW r \in Req, DrawFreeCode(r) \/ DrawUncheckedCode(r) \/ DrawTakenCode(r)
      PROVE  DbTypeOK'
  BY <1>3, RunQueryType DEF DrawFreeCode, DrawUncheckedCode, DrawTakenCode, Query
<1>4. ASSUME NEW r \in Req, StartWrite(r) PROVE DbTypeOK'
  BY <1>4, BeginWriteType DEF StartWrite
<1>5. ASSUME NEW r \in Req, InsertRefused(r) \/ ClickRefused(r) \/ DeleteRefused(r)
      PROVE  DbTypeOK'
  BY <1>5, RefuseWriteType DEF InsertRefused, ClickRefused, DeleteRefused
<1>6. ASSUME NEW r \in Req, CommitLink(r) PROVE DbTypeOK'
  <2>1. code[r] \in Code
    BY <1>6 DEF StepOK, CommitLink
  <2>2. [type |-> IF kind[r] = "upload" THEN "file" ELSE "url", by |-> r] \in Link
    BY DEF Link
  <2>. QED
    BY <1>6, <2>1, <2>2, InsertLinkType DEF CommitLink
<1>7. ASSUME NEW r \in Req, CommitClick(r) PROVE DbTypeOK'
  <2>1. code[r] \in Code
    BY <1>7 DEF StepOK, CommitClick
  <2>. QED
    BY <1>7, <2>1, InsertClickType DEF CommitClick
<1>8. ASSUME NEW r \in Req, CommitDelete(r) PROVE DbTypeOK'
  <2>1. code[r] \in Code
    BY <1>8 DEF StepOK, CommitDelete
  <2>. QED
    BY <1>8, <2>1, DeleteLinkType DEF CommitDelete
<1>9. ASSUME NEW r \in Req, ResolveCode(r) \/ CheckExists(r) \/ GetFilePath(r) \/ GetFileMetadata(r)
      PROVE  DbTypeOK'
  BY <1>9, RunQueryType DEF ResolveCode, CheckExists, GetFilePath, GetFileMetadata, Query
<1>10. ASSUME NEW r \in Req, QueryFails(r) \/ CountTotal(r) PROVE DbTypeOK'
  BY <1>10, RunQueryType DEF QueryFails, CountTotal, Query
<1>11. ASSUME NEW r \in Req, DestroyHandler(r) PROVE DbTypeOK'
  BY <1>11, CloseType DEF DestroyHandler
<1>12. ASSUME NEW r \in Req,
              \/ OpenFile(r) \/ WriteFile(r) \/ WriteFileFails(r) \/ CleanUpFile(r)
              \/ ServeFile(r) \/ ReadFile(r) \/ CountDaily(r) \/ CountFails(r)
              \/ Acknowledge(r) \/ ServeFails(r)
              \/ RemoveFile(r) \/ RemoveFails(r)
       PROVE  DbTypeOK'
  BY <1>1, <1>12 DEF OpenFile, WriteFile, WriteFileFails, CleanUpFile, Acknowledge, ServeFile,
     ReadFile, ServeFails,
     CountDaily, CountFails, RemoveFile, RemoveFails
<1>13. CASE Crash
  BY <1>13, CloseType DEF Crash
<1>14. CASE UNCHANGED vars
  BY <1>1, <1>14 DEF vars
<1>. QED
  BY <1>2, <1>3, <1>4, <1>5, <1>6, <1>7, <1>8, <1>9, <1>10, <1>11, <1>12, <1>13, <1>14 DEF Next, Run

(* Every step of a request keeps the types of the requests. *)
LEMMA RequestTypeStep ==
  ASSUME IInv, NEW r \in Req, Arrive(r) \/ Run(r)
  PROVE  RequestTypeOK'
<1>. USE DbConn, ShortenerAssumption
     DEF IInv, TypeOK, RequestTypeOK, Step, Answer, Content, callVars, histVars
<1>1. CASE HandleRequest(r)
  <2>1. code' \in [Req -> Code \cup {NoCode}]
    BY <1>1 DEF HandleRequest
  <2>2. pc' \in [Req -> Step] /\ resp' = resp
    BY <1>1 DEF HandleRequest, FirstCall, GoTo, Kind
  <2>3. before' \in [Req -> SUBSET Req]
    BY <1>1 DEF HandleRequest, Acknowledged
  <2>. QED
    BY <1>1, <2>1, <2>2, <2>3 DEF HandleRequest
<1>2. CASE ServicesFail(r)
  BY <1>2 DEF StepOK, ServicesFail, Fault, Reply
<1>3. CASE RejectInput(r)
  BY <1>3 DEF StepOK, RejectInput, Reply
<1>4. CASE DrawFreeCode(r)
  BY <1>4 DEF StepOK, DrawFreeCode, AfterDraw, GoTo
<1>5. CASE DrawUncheckedCode(r)
  BY <1>5 DEF StepOK, DrawUncheckedCode, AfterDraw, GoTo, Fault
<1>6. CASE DrawTakenCode(r)
  BY <1>6 DEF StepOK, DrawTakenCode, Reply
<1>7. CASE OpenFile(r)
  BY <1>7 DEF StepOK, OpenFile, GoTo
<1>8. CASE WriteFile(r)
  BY <1>8 DEF StepOK, WriteFile, GoTo
<1>9. CASE CleanUpFile(r)
  BY <1>9 DEF StepOK, CleanUpFile, Reply
<1>10. CASE WriteFileFails(r)
  BY <1>10 DEF StepOK, WriteFileFails, Reply, Fault
<1>11. CASE RemoveFails(r)
  BY <1>11 DEF StepOK, RemoveFails, Reply, Fault
<1>12. CASE StartWrite(r)
  BY <1>12 DEF StepOK, StartWrite, CommitStep, GoTo
<1>13. CASE InsertRefused(r)
  BY <1>13, ZenonT(40) DEF StepOK, InsertRefused, LinkNotInserted, GoTo, Reply
<1>14. CASE ClickRefused(r)
  BY <1>14, ZenonT(40) DEF StepOK, ClickRefused, ClickDone, GoTo, Reply
<1>15. CASE DeleteRefused(r)
  BY <1>15 DEF StepOK, DeleteRefused, Reply
<1>16. CASE CommitLink(r)
  BY <1>16, ZenonT(40) DEF StepOK, CommitLink, LinkInserted, LinkNotInserted, GoTo, Reply
<1>17. CASE CommitClick(r)
  BY <1>17, ZenonT(40) DEF StepOK, CommitClick, ClickDone, GoTo, Reply
<1>18. CASE CommitDelete(r)
  <2>1. pc' \in [Req -> Step] /\ resp' \in [Req -> Answer]
    BY <1>18, ZenonT(40) DEF CommitDelete, GoTo, Reply
  <2>2. erased' \in SUBSET Req
    <3>1. code[r] \in Code
      BY <1>18 DEF StepOK, CommitDelete
    <3>2. DeleteLinkOK(code[r]) => links[code[r]].by \in Req
      BY <3>1 DEF DeleteLinkOK, DbTypeOK, Link
    <3>. QED
      BY <1>18, <3>2 DEF CommitDelete
  <2>. QED
    BY <1>18, <2>1, <2>2 DEF CommitDelete
<1>19. CASE ResolveCode(r)
  <2>1. RowSeen(Db(r), "get_link", code[r]) \in Link \cup {NoLink}
    BY <1>19, RowSeenType DEF StepOK, ResolveCode
  <2>2. seen' \in [Req -> Link \cup {NoLink}]
    BY <1>19, <2>1 DEF ResolveCode
  <2>3. pc' \in [Req -> Step] /\ resp' = resp
    BY <1>19 DEF ResolveCode, GoTo
  <2>4. UNCHANGED <<files, kind, code, tries, served, stats, histVars>>
    BY <1>19 DEF ResolveCode
  <2>. QED
    BY <2>2, <2>3, <2>4
<1>20. CASE CheckExists(r)
  BY <1>20, ZenonT(40) DEF StepOK, CheckExists, GoTo, Reply
<1>21. CASE GetFilePath(r)
  <2>1. RowSeen(Db(r), "get_link", code[r]) \in Link \cup {NoLink}
    BY <1>21, RowSeenType DEF StepOK, GetFilePath
  <2>2. seen' \in [Req -> Link \cup {NoLink}]
    BY <1>21, <2>1 DEF GetFilePath
  <2>3. pc' \in [Req -> Step] /\ resp' \in [Req -> Answer]
    BY <1>21, ZenonT(40) DEF GetFilePath, GoTo, Reply
  <2>4. UNCHANGED <<files, kind, code, tries, served, stats, histVars>>
    BY <1>21 DEF GetFilePath
  <2>. QED
    BY <2>2, <2>3, <2>4
<1>22. CASE GetFileMetadata(r)
  BY <1>22 DEF StepOK, GetFileMetadata, GoTo
<1>23. CASE QueryFails(r)
  BY <1>23, ZenonT(40) DEF StepOK, QueryFails, AfterFailedQuery, Fault, GoTo, Reply
<1>24. CASE ServeFile(r)
  BY <1>24, ZenonT(40) DEF StepOK, ServeFile, GoTo, Reply
<1>25. CASE ReadFile(r)
  BY <1>25 DEF StepOK, ReadFile, Reply, SeenPath, PathOf, Path, Link
<1>26. CASE CountTotal(r)
  BY <1>26, ClicksSeenType DEF StepOK, CountTotal, GoTo
<1>27. CASE CountDaily(r)
  BY <1>27, ClicksSeenType DEF StepOK, CountDaily, Reply
<1>28. CASE CountFails(r)
  BY <1>28 DEF StepOK, CountFails, Reply, Fault
<1>29. CASE RemoveFile(r)
  BY <1>29 DEF StepOK, RemoveFile, Reply
<1>30. CASE DestroyHandler(r)
  BY <1>30 DEF StepOK, DestroyHandler
<1>31. CASE Acknowledge(r)
  BY <1>31 DEF StepOK, Acknowledge, Reply
<1>32. CASE ServeFails(r)
  BY <1>32 DEF StepOK, ServeFails, Reply, Fault
<1>. QED
  BY <1>1, <1>2, <1>3, <1>4, <1>5, <1>6, <1>7, <1>8, <1>9, <1>10, <1>11, <1>12, <1>13, <1>14, <1>15, <1>16, <1>17, <1>18, <1>19, <1>20, <1>21, <1>22, <1>23, <1>24, <1>25, <1>26, <1>27, <1>28, <1>29, <1>30, <1>31, <1>32 DEF Arrive, Run

(* Every step of a request keeps StepOK, its own and that of the others. *)
LEMMA StepOKStep ==
  ASSUME IInv, NEW r \in Req, Arrive(r) \/ Run(r), NEW s \in Req
  PROVE  StepOK(s)'
<1>. USE DbConn, ShortenerAssumption
     DEF IInv, TypeOK, RequestTypeOK, callVars, histVars, StepOK
<1>1. CASE HandleRequest(r)
  <2>1. Creator(r) <=> FirstCall[kind[r]] = "draw"
    BY DEF Creator, FirstCall, Kind
  <2>2. code'[s] \in Code \/ (s = r /\ Creator(r)) \/ code'[s] = code[s]
    BY <1>1 DEF HandleRequest
  <2>3. s = r /\ ~Creator(r) => code'[s] \in Code
    BY <1>1 DEF HandleRequest
  <2>4. FirstCall[kind[r]] \in {"draw", "resolve", "total", "delete", "lookup"}
        /\ (FirstCall[kind[r]] = "delete" => kind[r] = "delete_link")
    BY DEF FirstCall, Kind
  <2>5. /\ pc' = [pc EXCEPT ![r] = FirstCall[kind[r]]]
        /\ UNCHANGED <<resp, seen, tries, kind>> /\ pc[r] = "idle"
    BY <1>1 DEF HandleRequest, GoTo
  <2>. QED
    BY <2>1, <2>2, <2>3, <2>4, <2>5
<1>2. CASE ServicesFail(r)
  BY <1>2 DEF ServicesFail, Fault, Reply
<1>3. CASE RejectInput(r)
  BY <1>3 DEF RejectInput, Reply
<1>4. CASE DrawFreeCode(r)
  BY <1>4 DEF DrawFreeCode, AfterDraw, GoTo
<1>5. CASE DrawUncheckedCode(r)
  BY <1>5 DEF DrawUncheckedCode, AfterDraw, GoTo, Fault
<1>6. CASE DrawTakenCode(r)
  BY <1>6 DEF DrawTakenCode, Reply
<1>7. CASE OpenFile(r)
  BY <1>7 DEF OpenFile, GoTo
<1>8. CASE WriteFile(r)
  BY <1>8 DEF WriteFile, GoTo
<1>9. CASE CleanUpFile(r)
  BY <1>9 DEF CleanUpFile, Reply
<1>10. CASE WriteFileFails(r)
  BY <1>10 DEF WriteFileFails, Reply, Fault
<1>11. CASE RemoveFails(r)
  BY <1>11 DEF RemoveFails, Reply, Fault
<1>12. CASE StartWrite(r)
  BY <1>12 DEF StartWrite, CommitStep, GoTo
<1>13. CASE InsertRefused(r)
  BY <1>13, ZenonT(40) DEF InsertRefused, LinkNotInserted, GoTo, Reply
<1>14. CASE ClickRefused(r)
  BY <1>14 DEF ClickRefused, ClickDone, GoTo, Reply
<1>15. CASE DeleteRefused(r)
  BY <1>15 DEF DeleteRefused, Reply
<1>16. CASE CommitLink(r)
  BY <1>16, ZenonT(40) DEF CommitLink, LinkInserted, LinkNotInserted, GoTo, Reply
<1>17. CASE CommitClick(r)
  BY <1>17 DEF CommitClick, ClickDone, GoTo, Reply
<1>18. CASE CommitDelete(r)
  BY <1>18, SMTT(30) DEF CommitDelete, GoTo, Reply, DeleteLinkOK, Link, DbTypeOK
<1>19. CASE ResolveCode(r)
  BY <1>19, RowSeenType DEF ResolveCode, GoTo
<1>20. CASE CheckExists(r)
  BY <1>20 DEF CheckExists, GoTo, Reply
<1>21. CASE GetFilePath(r)
  BY <1>21, RowSeenType DEF GetFilePath, GoTo, Reply
<1>22. CASE GetFileMetadata(r)
  BY <1>22 DEF GetFileMetadata, GoTo
<1>23. CASE QueryFails(r)
  BY <1>23, ZenonT(40) DEF QueryFails, AfterFailedQuery, Fault, GoTo, Reply
<1>24. CASE ServeFile(r)
  BY <1>24 DEF ServeFile, GoTo, Reply
<1>25. CASE ReadFile(r)
  BY <1>25 DEF ReadFile, Reply, SeenPath, PathOf, Path, Link
<1>26. CASE CountTotal(r)
  BY <1>26, ClicksSeenType DEF CountTotal, GoTo
<1>27. CASE CountDaily(r)
  BY <1>27, ClicksSeenType DEF CountDaily, Reply
<1>28. CASE CountFails(r)
  BY <1>28 DEF CountFails, Reply, Fault
<1>29. CASE RemoveFile(r)
  BY <1>29 DEF RemoveFile, Reply
<1>30. CASE DestroyHandler(r)
  BY <1>30 DEF DestroyHandler
<1>31. CASE Acknowledge(r)
  BY <1>31 DEF Acknowledge, Reply
<1>32. CASE ServeFails(r)
  BY <1>32 DEF ServeFails, Reply, Fault
<1>. QED
  BY <1>1, <1>2, <1>3, <1>4, <1>5, <1>6, <1>7, <1>8, <1>9, <1>10, <1>11, <1>12, <1>13, <1>14, <1>15, <1>16, <1>17, <1>18, <1>19, <1>20, <1>21, <1>22, <1>23, <1>24, <1>25, <1>26, <1>27, <1>28, <1>29, <1>30, <1>31, <1>32 DEF Arrive, Run

LEMMA NextIInv == IInv /\ [Next]_vars => IInv'
<1>. SUFFICES ASSUME IInv, [Next]_vars PROVE IInv'
  OBVIOUS
<1>1. DbTypeOK'
  BY DbStep
<1>2. RequestTypeOK' /\ \A s \in Req : StepOK(s)'
  <2>1. CASE \E r \in Req : Arrive(r) \/ Run(r)
    BY <2>1, RequestTypeStep, StepOKStep
  <2>2. CASE Crash
    BY <2>2, ShortenerAssumption
       DEF Crash, IInv, TypeOK, RequestTypeOK, StepOK, callVars, UnderWay, Step, Answer
  <2>3. CASE UNCHANGED vars
    BY <2>3 DEF vars, IInv, TypeOK, RequestTypeOK, StepOK, callVars, histVars
  <2>. QED
    BY <2>1, <2>2, <2>3 DEF Next
<1>. QED
  BY <1>1, <1>2 DEF IInv, TypeOK

LEMMA IInvAlways == Spec => []IInv
BY InitIInv, NextIInv, PTL DEF Spec

(***************************************************************************)
(* The variables keep their types: the database, the upload directory and  *)
(* what each request carries from call to call.                            *)
(***************************************************************************)
THEOREM Typing == Spec => []TypeOK
BY IInvAlways, PTL DEF IInv

-----------------------------------------------------------------------------
(* Acknowledged links. *)

Inserts(r) == CommitLink(r) /\ InsertLinkOK(code[r])
Deletes(r) == CommitDelete(r) /\ DeleteLinkOK(code[r])
Visits(r)  == CommitClick(r) /\ InsertClickOK(code[r])

(***************************************************************************)
(* The rows of links change only when a request inserts one or deletes     *)
(* one, and a deletion is remembered in erased.  A click comes for a row   *)
(* that is there, and goes only with such a deletion.                      *)
(***************************************************************************)
LEMMA LinksStep ==
  ASSUME IInv, NEW r \in Req, Arrive(r) \/ Run(r)
  PROVE  \/ UNCHANGED <<links, erased, clicks>>
         \/ Visits(r) /\ UNCHANGED <<links, erased>>
            /\ clicks' = clicks \cup {[code |-> code[r], by |-> r]}
         \/ Inserts(r) /\ UNCHANGED <<erased, clicks>>
            /\ \E t \in {"url", "file"} : links' = [links EXCEPT ![code[r]] = [type |-> t, by |-> r]]
         \/ /\ Deletes(r)
            /\ links' = [links EXCEPT ![code[r]] = NoLink]
            /\ erased' = erased \cup {links[code[r]].by}
            /\ clicks' = {x \in clicks : x.code # code[r]}
<1>. USE DEF histVars
<1>1. CASE HandleRequest(r)
  BY <1>1 DEF HandleRequest, dbVars
<1>2. CASE ServicesFail(r)
  BY <1>2 DEF ServicesFail, Fault, dbVars
<1>3. CASE RejectInput(r)
  BY <1>3 DEF RejectInput, dbVars
<1>4. CASE DrawFreeCode(r)
  BY <1>4 DEF DrawFreeCode, RunQuery
<1>5. CASE DrawUncheckedCode(r)
  BY <1>5 DEF DrawUncheckedCode, Fault, RunQuery
<1>6. CASE DrawTakenCode(r)
  BY <1>6 DEF DrawTakenCode, RunQuery
<1>7. CASE OpenFile(r)
  BY <1>7 DEF OpenFile, dbVars
<1>8. CASE WriteFile(r)
  BY <1>8 DEF WriteFile, dbVars
<1>9. CASE CleanUpFile(r)
  BY <1>9 DEF CleanUpFile, dbVars
<1>10. CASE WriteFileFails(r)
  BY <1>10 DEF WriteFileFails, Fault, dbVars
<1>11. CASE RemoveFails(r)
  BY <1>11 DEF RemoveFails, Fault, dbVars
<1>12. CASE StartWrite(r)
  BY <1>12 DEF StartWrite, BeginWrite
<1>13. CASE InsertRefused(r)
  BY <1>13 DEF InsertRefused, RefuseWrite, dbVars
<1>14. CASE ClickRefused(r)
  BY <1>14 DEF ClickRefused, RefuseWrite, dbVars
<1>15. CASE DeleteRefused(r)
  BY <1>15 DEF DeleteRefused, RefuseWrite, dbVars
<1>16. CASE CommitLink(r)
  BY <1>16 DEF CommitLink, Inserts, InsertLink, Commit, Rollback
<1>17. CASE CommitClick(r)
  BY <1>17 DEF CommitClick, Visits, InsertClick, Commit, Rollback
<1>18. CASE CommitDelete(r)
  BY <1>18 DEF CommitDelete, Deletes, DeleteLink, Commit, Rollback
<1>19. CASE ResolveCode(r)
  BY <1>19 DEF ResolveCode, RunQuery
<1>20. CASE CheckExists(r)
  BY <1>20 DEF CheckExists, RunQuery
<1>21. CASE GetFilePath(r)
  BY <1>21 DEF GetFilePath, RunQuery
<1>22. CASE GetFileMetadata(r)
  BY <1>22 DEF GetFileMetadata, RunQuery
<1>23. CASE QueryFails(r)
  BY <1>23 DEF QueryFails, Fault, RunQuery
<1>24. CASE ServeFile(r)
  BY <1>24 DEF ServeFile, dbVars
<1>25. CASE ReadFile(r)
  BY <1>25 DEF ReadFile, dbVars
<1>26. CASE CountTotal(r)
  BY <1>26 DEF CountTotal, RunQuery
<1>27. CASE CountDaily(r)
  BY <1>27 DEF CountDaily, dbVars
<1>28. CASE CountFails(r)
  BY <1>28 DEF CountFails, Fault, dbVars
<1>29. CASE RemoveFile(r)
  BY <1>29 DEF RemoveFile, dbVars
<1>30. CASE DestroyHandler(r)
  BY <1>30 DEF DestroyHandler, Close
<1>31. CASE Acknowledge(r)
  BY <1>31 DEF Acknowledge, dbVars
<1>32. CASE ServeFails(r)
  BY <1>32 DEF ServeFails, Fault, dbVars
<1>. QED
  BY <1>1, <1>2, <1>3, <1>4, <1>5, <1>6, <1>7, <1>8, <1>9, <1>10, <1>11, <1>12, <1>13, <1>14, <1>15, <1>16, <1>17, <1>18, <1>19, <1>20, <1>21, <1>22, <1>23, <1>24, <1>25, <1>26, <1>27, <1>28, <1>29, <1>30, <1>31, <1>32 DEF Arrive, Run

(***************************************************************************)
(* A request is about to tell, or has told, that its link exists only when *)
(* it has inserted it, and nothing changes its code afterwards.            *)
(***************************************************************************)
Inserted(s) == pc[s] = "acknowledge" \/ resp[s] = "created"

LEMMA AckStep ==
  ASSUME IInv, NEW r \in Req, Arrive(r) \/ Run(r), NEW s \in Req, Inserted(s)'
  PROVE  code'[s] = code[s] /\ (Inserted(s) \/ (s = r /\ Inserts(r)))
<1>. USE DEF Inserted, IInv, TypeOK, RequestTypeOK, StepOK, callVars
<1>1. CASE HandleRequest(r)
  <2>1. FirstCall[kind[r]] # "acknowledge" /\ kind[r] \in Kind
    BY DEF FirstCall, Kind
  <2>2. /\ pc' = [pc EXCEPT ![r] = FirstCall[kind[r]]] /\ resp' = resp /\ pc[r] = "idle"
        /\ \/ code' = code
           \/ \E c \in Code : code' = [code EXCEPT ![r] = c]
    BY <1>1 DEF HandleRequest, GoTo
  <2>3. resp[r] # "created"
    BY <2>2 DEF Over
  <2>4. s # r
    BY <2>1, <2>2, <2>3
  <2>. QED
    BY <2>2, <2>4
<1>2. CASE ServicesFail(r)
  BY <1>2 DEF ServicesFail, Reply
<1>3. CASE RejectInput(r)
  BY <1>3 DEF RejectInput, Reply
<1>4. CASE DrawFreeCode(r)
  BY <1>4 DEF DrawFreeCode, AfterDraw, GoTo
<1>5. CASE DrawUncheckedCode(r)
  BY <1>5 DEF DrawUncheckedCode, AfterDraw, GoTo
<1>6. CASE DrawTakenCode(r)
  BY <1>6 DEF DrawTakenCode, Reply
<1>7. CASE OpenFile(r)
  BY <1>7 DEF OpenFile, GoTo
<1>8. CASE WriteFile(r)
  BY <1>8 DEF WriteFile, GoTo
<1>9. CASE CleanUpFile(r)
  BY <1>9 DEF CleanUpFile, Reply
<1>10. CASE WriteFileFails(r)
  BY <1>10 DEF WriteFileFails, Reply
<1>11. CASE RemoveFails(r)
  BY <1>11 DEF RemoveFails, Reply
<1>12. CASE StartWrite(r)
  BY <1>12 DEF StartWrite, CommitStep, GoTo
<1>13. CASE InsertRefused(r)
  BY <1>13 DEF InsertRefused, LinkNotInserted, GoTo, Reply
<1>14. CASE ClickRefused(r)
  BY <1>14 DEF ClickRefused, ClickDone, GoTo, Reply
<1>15. CASE DeleteRefused(r)
  BY <1>15 DEF DeleteRefused, Reply
<1>16. CASE CommitLink(r)
  BY <1>16 DEF CommitLink, LinkInserted, LinkNotInserted, GoTo, Reply, Inserts
<1>17. CASE CommitClick(r)
  BY <1>17 DEF CommitClick, ClickDone, GoTo, Reply
<1>18. CASE CommitDelete(r)
  BY <1>18 DEF CommitDelete, GoTo, Reply
<1>19. CASE ResolveCode(r)
  BY <1>19 DEF ResolveCode, GoTo
<1>20. CASE CheckExists(r)
  BY <1>20 DEF CheckExists, GoTo, Reply
<1>21. CASE GetFilePath(r)
  BY <1>21 DEF GetFilePath, GoTo, Reply
<1>22. CASE GetFileMetadata(r)
  BY <1>22 DEF GetFileMetadata, GoTo
<1>23. CASE QueryFails(r)
  BY <1>23 DEF QueryFails, AfterFailedQuery, GoTo, Reply
<1>24. CASE ServeFile(r)
  BY <1>24 DEF ServeFile, GoTo, Reply
<1>25. CASE ReadFile(r)
  BY <1>25 DEF ReadFile, Reply
<1>26. CASE CountTotal(r)
  BY <1>26 DEF CountTotal, GoTo
<1>27. CASE CountDaily(r)
  BY <1>27 DEF CountDaily, Reply
<1>28. CASE CountFails(r)
  BY <1>28 DEF CountFails, Reply
<1>29. CASE RemoveFile(r)
  BY <1>29 DEF RemoveFile, Reply
<1>30. CASE DestroyHandler(r)
  BY <1>30 DEF DestroyHandler
<1>31. CASE Acknowledge(r)
  BY <1>31 DEF Acknowledge, Reply
<1>32. CASE ServeFails(r)
  BY <1>32 DEF ServeFails, Reply
<1>. QED
  BY <1>1, <1>2, <1>3, <1>4, <1>5, <1>6, <1>7, <1>8, <1>9, <1>10, <1>11, <1>12, <1>13, <1>14, <1>15, <1>16, <1>17, <1>18, <1>19, <1>20, <1>21, <1>22, <1>23, <1>24, <1>25, <1>26, <1>27, <1>28, <1>29, <1>30, <1>31, <1>32 DEF Arrive, Run

(* The link is there from the insert on, when nobody is told of it yet. *)
InsertedKept ==
  \A s \in Req : Inserted(s) /\ s \notin erased =>
    links[code[s]] # NoLink /\ links[code[s]].by = s

LEMMA AckedInit == Init => InsertedKept
BY DEF Init, Inserted, InsertedKept

(***************************************************************************)
(* The primary key keeps the row of an acknowledged link from another      *)
(* request that drew the same code; only a deletion takes it.              *)
(***************************************************************************)
LEMMA AckedNext == IInv /\ InsertedKept /\ [Next]_vars => InsertedKept'
<1>. SUFFICES ASSUME IInv, InsertedKept, [Next]_vars,
                     NEW s \in Req, Inserted(s)', s \notin erased'
              PROVE  links'[code'[s]] # NoLink /\ links'[code'[s]].by = s
  BY DEF InsertedKept
<1>1. ASSUME NEW r \in Req, Arrive(r) \/ Run(r)
      PROVE  links'[code'[s]] # NoLink /\ links'[code'[s]].by = s
  <2>1. code'[s] = code[s] /\ (Inserted(s) \/ (s = r /\ Inserts(r)))
    BY <1>1, AckStep
  <2>2. CASE UNCHANGED <<links, erased>> /\ Inserted(s)
    BY <2>1, <2>2 DEF InsertedKept
  <2>3. CASE Inserts(r)
    <3>1. PICK t \in {"url", "file"} :
            UNCHANGED erased /\ links' = [links EXCEPT ![code[r]] = [type |-> t, by |-> r]]
      BY <2>3 DEF Inserts, CommitLink, InsertLink, Commit, histVars
    <3>2. code[r] \in Code /\ links[code[r]] = NoLink
      BY <2>3 DEF Inserts, CommitLink, InsertLinkOK, IInv, StepOK
    <3>3. [type |-> t, by |-> r] # NoLink
      BY LinkDbAssumption DEF Link
    <3>4. CASE s = r
      BY <2>1, <3>1, <3>2, <3>3, <3>4 DEF IInv, TypeOK, DbTypeOK
    <3>5. CASE s # r
      <4>1. links[code[s]] # NoLink /\ links[code[s]].by = s
        BY <2>1, <3>1, <3>5 DEF InsertedKept
      <4>. QED
        BY <2>1, <3>1, <3>2, <4>1 DEF IInv, TypeOK, DbTypeOK
    <3>. QED
      BY <3>4, <3>5
  <2>4. CASE Deletes(r)
    <3>1. /\ links' = [links EXCEPT ![code[r]] = NoLink]
          /\ erased' = erased \cup {links[code[r]].by}
      BY <2>4 DEF Deletes, CommitDelete, DeleteLink, Commit
    <3>2. Inserted(s) /\ s \notin erased
      BY <2>1, <2>4, <3>1 DEF Inserts, Deletes, CommitLink, CommitDelete
    <3>3. links[code[s]] # NoLink /\ links[code[s]].by = s
      BY <3>2 DEF InsertedKept
    <3>4. code[s] # code[r]
      BY <3>1, <3>3
    <3>. QED
      BY <2>1, <3>1, <3>3, <3>4 DEF IInv, TypeOK, DbTypeOK
  <2>. QED
    BY <1>1, <2>1, <2>2, <2>3, <2>4, LinksStep
<1>2. CASE Crash
  BY <1>2 DEF Crash, Close, UnderWay, callVars, InsertedKept, Inserted, IInv, TypeOK, RequestTypeOK
<1>3. CASE UNCHANGED vars
  BY <1>3 DEF vars, dbVars, callVars, histVars, InsertedKept, Inserted
<1>. QED
  BY <1>1, <1>2, <1>3 DEF Next

(***************************************************************************)
(* A link that was acknowledged stays, with what its own request stored,   *)
(* until it is deleted: in every interleaving of any number of requests,   *)
(* with failing queries, and across crashes.                               *)
(***************************************************************************)
THEOREM AcknowledgedLinksAreKept == Spec => []AckedLinkKept
<1>1. InsertedKept => AckedLinkKept
  BY DEF InsertedKept, Inserted, AckedLinkKept
<1>. QED
  BY <1>1, IInvAlways, AckedInit, AckedNext, PTL DEF Spec

-----------------------------------------------------------------------------
(* Rows. *)

(***************************************************************************)
(* One step never changes a row: an insert finds no row at its code, a     *)
(* deletion leaves none, and takes the clicks on its own code only.        *)
(***************************************************************************)
LEMMA RowsStayNext == IInv /\ [Next]_vars => [RowsStay]_vars
<1>. SUFFICES ASSUME IInv, Next
              PROVE  RowsStay
  OBVIOUS
<1>1. ASSUME NEW r \in Req, Arrive(r) \/ Run(r)
      PROVE  RowsStay
  <2>1. CASE UNCHANGED links /\ clicks \subseteq clicks'
    BY <2>1 DEF RowsStay
  <2>2. CASE /\ Inserts(r) /\ UNCHANGED <<erased, clicks>>
             /\ \E t \in {"url", "file"} :
                  links' = [links EXCEPT ![code[r]] = [type |-> t, by |-> r]]
    <3>1. code[r] \in Code /\ links[code[r]] = NoLink
      BY <2>2 DEF Inserts, CommitLink, InsertLinkOK, IInv, StepOK
    <3>2. \A c \in Code \ {code[r]} : links'[c] = links[c]
      BY <2>2 DEF IInv, TypeOK, DbTypeOK
    <3>. QED
      BY <2>2, <3>1, <3>2 DEF RowsStay
  <2>3. CASE /\ Deletes(r)
             /\ links' = [links EXCEPT ![code[r]] = NoLink]
             /\ clicks' = {x \in clicks : x.code # code[r]}
    <3>1. \A c \in Code : links'[c] = IF c = code[r] THEN NoLink ELSE links[c]
      BY <2>3 DEF IInv, TypeOK, DbTypeOK
    <3>2. \A x \in clicks : x.code \in Code
      BY DEF IInv, TypeOK, DbTypeOK, Click
    <3>. QED
      BY <2>3, <3>1, <3>2 DEF RowsStay
  <2>. QED
    BY <1>1, <2>1, <2>2, <2>3, LinksStep
<1>2. CASE Crash
  BY <1>2 DEF Crash, Close, RowsStay
<1>. QED
  BY <1>1, <1>2 DEF Next

(***************************************************************************)
(* Whatever requests run at once, fail or are cut off: a row of links is   *)
(* stored once and at most deleted, never changed, and a click is lost     *)
(* with its link only.                                                     *)
(***************************************************************************)
THEOREM RowsAreStable == Spec => RowsStable
BY IInvAlways, RowsStayNext, PTL DEF Spec, RowsStable

-----------------------------------------------------------------------------
(***************************************************************************)
(* What visitors leave, see and are served: the clicks and the statistics, *)
(* the files behind the links, and that whoever asks for a link that was   *)
(* acknowledged gets it.  This rests on snapshots: a query that was left   *)
(* at its row pins what the later calls of its connection see.             *)
(*                                                                         *)
(* Two hypotheses appear.  DistinctUploads: no two uploads use the same    *)
(* sanitized name; without it the code breaks these properties, as the run *)
(* ShortenerSameName shows.  RoutesOnly: requests come from the routes of  *)
(* the handler, none of which deletes.                                     *)
(***************************************************************************)

(***************************************************************************)
(* A step of one request, as seen by the others and by the database.       *)
(***************************************************************************)

(* The requests other than r keep what is theirs, and no kind changes. *)
LEMMA FrameStep ==
  ASSUME IInv, NEW r \in Req, Arrive(r) \/ Run(r), NEW s \in Req, s # r
  PROVE  /\ pc'[s] = pc[s] /\ code'[s] = code[s] /\ seen'[s] = seen[s]
         /\ served'[s] = served[s] /\ stats'[s] = stats[s] /\ resp'[s] = resp[s]
         /\ before'[s] = before[s] /\ (s \in faulted' <=> s \in faulted)
         /\ kind' = kind
<1>. USE DEF IInv, TypeOK, RequestTypeOK, callVars, histVars
<1>1. CASE HandleRequest(r)
  BY <1>1 DEF HandleRequest, FirstCall, GoTo
<1>2. CASE ServicesFail(r)
  BY <1>2 DEF ServicesFail, Fault, Reply
<1>3. CASE RejectInput(r)
  BY <1>3 DEF RejectInput, Reply
<1>4. CASE DrawFreeCode(r)
  BY <1>4 DEF DrawFreeCode, AfterDraw, GoTo
<1>5. CASE DrawUncheckedCode(r)
  BY <1>5 DEF DrawUncheckedCode, AfterDraw, GoTo, Fault
<1>6. CASE DrawTakenCode(r)
  BY <1>6 DEF DrawTakenCode, Reply
<1>7. CASE OpenFile(r)
  BY <1>7 DEF OpenFile, GoTo
<1>8. CASE WriteFile(r)
  BY <1>8 DEF WriteFile, GoTo
<1>9. CASE CleanUpFile(r)
  BY <1>9 DEF CleanUpFile, Reply
<1>10. CASE WriteFileFails(r)
  BY <1>10 DEF WriteFileFails, Reply, Fault
<1>11. CASE RemoveFails(r)
  BY <1>11 DEF RemoveFails, Reply, Fault
<1>12. CASE StartWrite(r)
  BY <1>12 DEF StartWrite, CommitStep, GoTo
<1>13. CASE InsertRefused(r)
  BY <1>13 DEF InsertRefused, LinkNotInserted, GoTo, Reply
<1>14. CASE ClickRefused(r)
  BY <1>14 DEF ClickRefused, ClickDone, GoTo, Reply
<1>15. CASE DeleteRefused(r)
  BY <1>15 DEF DeleteRefused, Reply
<1>16. CASE CommitLink(r)
  BY <1>16 DEF CommitLink, LinkInserted, LinkNotInserted, GoTo, Reply
<1>17. CASE CommitClick(r)
  BY <1>17 DEF CommitClick, ClickDone, GoTo, Reply
<1>18. CASE CommitDelete(r)
  BY <1>18 DEF CommitDelete, GoTo, Reply
<1>19. CASE ResolveCode(r)
  BY <1>19 DEF ResolveCode, GoTo
<1>20. CASE CheckExists(r)
  BY <1>20 DEF CheckExists, GoTo, Reply
<1>21. CASE GetFilePath(r)
  BY <1>21 DEF GetFilePath, GoTo, Reply
<1>22. CASE GetFileMetadata(r)
  BY <1>22 DEF GetFileMetadata, GoTo
<1>23. CASE QueryFails(r)
  BY <1>23 DEF QueryFails, AfterFailedQuery, Fault, GoTo, Reply
<1>24. CASE ServeFile(r)
  BY <1>24 DEF ServeFile, GoTo, Reply
<1>25. CASE ReadFile(r)
  BY <1>25 DEF ReadFile, Reply
<1>26. CASE CountTotal(r)
  BY <1>26 DEF CountTotal, GoTo
<1>27. CASE CountDaily(r)
  BY <1>27 DEF CountDaily, Reply
<1>28. CASE CountFails(r)
  BY <1>28 DEF CountFails, Reply, Fault
<1>29. CASE RemoveFile(r)
  BY <1>29 DEF RemoveFile, Reply
<1>30. CASE DestroyHandler(r)
  BY <1>30 DEF DestroyHandler
<1>31. CASE Acknowledge(r)
  BY <1>31 DEF Acknowledge, Reply
<1>32. CASE ServeFails(r)
  BY <1>32 DEF ServeFails, Reply, Fault
<1>. QED
  BY <1>1, <1>2, <1>3, <1>4, <1>5, <1>6, <1>7, <1>8, <1>9, <1>10, <1>11, <1>12, <1>13, <1>14, <1>15,
     <1>16, <1>17, <1>18, <1>19, <1>20, <1>21, <1>22, <1>23, <1>24, <1>25, <1>26, <1>27, <1>28, <1>29, <1>30, <1>31, <1>32 DEF Arrive, Run
(***************************************************************************)
(* Each step makes at most one call of the database, through the request's *)
(* own connection, or closes its connections at the end.                   *)
(***************************************************************************)
LEMMA DbCallStep ==
  ASSUME NEW r \in Req, Arrive(r) \/ Run(r)
  PROVE  DbCall(Db(r)) \/ (DestroyHandler(r) /\ Close({r} \X Service))
<1>. USE DEF DbCall, Query
<1>1. CASE HandleRequest(r)
  BY <1>1 DEF HandleRequest
<1>2. CASE ServicesFail(r)
  BY <1>2 DEF ServicesFail
<1>3. CASE RejectInput(r)
  BY <1>3 DEF RejectInput
<1>4. CASE DrawFreeCode(r)
  BY <1>4 DEF DrawFreeCode
<1>5. CASE DrawUncheckedCode(r)
  BY <1>5 DEF DrawUncheckedCode
<1>6. CASE DrawTakenCode(r)
  BY <1>6 DEF DrawTakenCode
<1>7. CASE OpenFile(r)
  BY <1>7 DEF OpenFile
<1>8. CASE WriteFile(r)
  BY <1>8 DEF WriteFile
<1>9. CASE CleanUpFile(r)
  BY <1>9 DEF CleanUpFile
<1>10. CASE WriteFileFails(r)
  BY <1>10 DEF WriteFileFails
<1>11. CASE RemoveFails(r)
  BY <1>11 DEF RemoveFails
<1>12. CASE StartWrite(r)
  BY <1>12 DEF StartWrite
<1>13. CASE InsertRefused(r)
  BY <1>13 DEF InsertRefused, RefuseWrite
<1>14. CASE ClickRefused(r)
  BY <1>14 DEF ClickRefused, RefuseWrite
<1>15. CASE DeleteRefused(r)
  BY <1>15 DEF DeleteRefused, RefuseWrite
<1>16. CASE CommitLink(r)
  BY <1>16 DEF CommitLink, InsertLink
<1>17. CASE CommitClick(r)
  BY <1>17 DEF CommitClick, InsertClick
<1>18. CASE CommitDelete(r)
  BY <1>18 DEF CommitDelete, DeleteLink
<1>19. CASE ResolveCode(r)
  BY <1>19 DEF ResolveCode
<1>20. CASE CheckExists(r)
  BY <1>20 DEF CheckExists
<1>21. CASE GetFilePath(r)
  BY <1>21 DEF GetFilePath
<1>22. CASE GetFileMetadata(r)
  BY <1>22 DEF GetFileMetadata
<1>23. CASE QueryFails(r)
  BY <1>23 DEF QueryFails
<1>24. CASE ServeFile(r)
  BY <1>24 DEF ServeFile
<1>25. CASE ReadFile(r)
  BY <1>25 DEF ReadFile
<1>26. CASE CountTotal(r)
  BY <1>26 DEF CountTotal
<1>27. CASE CountDaily(r)
  BY <1>27 DEF CountDaily
<1>28. CASE CountFails(r)
  BY <1>28 DEF CountFails
<1>29. CASE RemoveFile(r)
  BY <1>29 DEF RemoveFile
<1>30. CASE DestroyHandler(r)
  BY <1>30 DEF DestroyHandler
<1>31. CASE Acknowledge(r)
  BY <1>31 DEF Acknowledge
<1>32. CASE ServeFails(r)
  BY <1>32 DEF ServeFails
<1>. QED
  BY <1>1, <1>2, <1>3, <1>4, <1>5, <1>6, <1>7, <1>8, <1>9, <1>10, <1>11, <1>12, <1>13, <1>14, <1>15,
     <1>16, <1>17, <1>18, <1>19, <1>20, <1>21, <1>22, <1>23, <1>24, <1>25, <1>26, <1>27, <1>28, <1>29, <1>30, <1>31, <1>32 DEF Arrive, Run
(***************************************************************************)
(* Which action takes a request to a step; none changes its kind.          *)
(***************************************************************************)
CameFrom(r) ==
  /\ kind' = kind
  /\ pc'[r] # "idle"
  /\ pc'[r] \in {"resolve", "total"} => HandleRequest(r)
  /\ pc'[r] = "draw" => HandleRequest(r) \/ DrawTakenCode(r)
  /\ pc'[r] = "open_file" => DrawFreeCode(r) \/ DrawUncheckedCode(r)
  /\ pc'[r] = "write_file" => OpenFile(r)
  /\ pc'[r] = "insert" => DrawFreeCode(r) \/ DrawUncheckedCode(r) \/ WriteFile(r)
  /\ pc'[r] = "cleanup" => InsertRefused(r) \/ CommitLink(r)
  /\ pc'[r] = "acknowledge" => CommitLink(r)
  /\ pc'[r] = "exists" => ResolveCode(r)
  /\ pc'[r] = "lookup" => HandleRequest(r) \/ ResolveCode(r) \/ QueryFails(r)
  /\ pc'[r] = "metadata" => GetFilePath(r)
  /\ pc'[r] = "click" => CheckExists(r) \/ GetFileMetadata(r)
  /\ pc'[r] \in {"commit_link", "commit_click", "commit_delete"} => StartWrite(r)
  /\ pc'[r] = "serve" =>
       ClickRefused(r) \/ CommitClick(r) \/ GetFileMetadata(r) \/ QueryFails(r)
  /\ pc'[r] = "read" => ServeFile(r)
  /\ pc'[r] = "daily" => CountTotal(r)
  /\ pc'[r] = "delete" => HandleRequest(r) \/ GetFilePath(r)
  /\ pc'[r] = "unlink" => CommitDelete(r)

LEMMA CameFromStep ==
  ASSUME IInv, NEW r \in Req, Arrive(r) \/ Run(r)
  PROVE  CameFrom(r)
<1>. USE DEF IInv, TypeOK, RequestTypeOK, callVars, CameFrom
<1>1. CASE HandleRequest(r)
  <2>1. FirstCall[kind[r]] \in {"draw", "resolve", "total", "delete", "lookup"}
    BY DEF FirstCall, Kind
  <2>. QED
    BY <1>1, <2>1 DEF HandleRequest, GoTo
<1>2. CASE ServicesFail(r)
  BY <1>2 DEF ServicesFail, Fault, Reply
<1>3. CASE RejectInput(r)
  BY <1>3 DEF RejectInput, Reply
<1>4. CASE DrawFreeCode(r)
  BY <1>4 DEF DrawFreeCode, AfterDraw, GoTo
<1>5. CASE DrawUncheckedCode(r)
  BY <1>5 DEF DrawUncheckedCode, AfterDraw, GoTo, Fault
<1>6. CASE DrawTakenCode(r)
  BY <1>6 DEF DrawTakenCode, Reply
<1>7. CASE OpenFile(r)
  BY <1>7 DEF OpenFile, GoTo
<1>8. CASE WriteFile(r)
  BY <1>8 DEF WriteFile, GoTo
<1>9. CASE CleanUpFile(r)
  BY <1>9 DEF CleanUpFile, Reply
<1>10. CASE WriteFileFails(r)
  BY <1>10 DEF WriteFileFails, Reply, Fault
<1>11. CASE RemoveFails(r)
  BY <1>11 DEF RemoveFails, Reply, Fault
<1>12. CASE StartWrite(r)
  BY <1>12 DEF StartWrite, CommitStep, GoTo
<1>13. CASE InsertRefused(r)
  BY <1>13 DEF InsertRefused, LinkNotInserted, GoTo, Reply
<1>14. CASE ClickRefused(r)
  BY <1>14 DEF ClickRefused, ClickDone, GoTo, Reply
<1>15. CASE DeleteRefused(r)
  BY <1>15 DEF DeleteRefused, Reply
<1>16. CASE CommitLink(r)
  BY <1>16 DEF CommitLink, LinkInserted, LinkNotInserted, GoTo, Reply
<1>17. CASE CommitClick(r)
  BY <1>17 DEF CommitClick, ClickDone, GoTo, Reply
<1>18. CASE CommitDelete(r)
  BY <1>18 DEF CommitDelete, GoTo, Reply
<1>19. CASE ResolveCode(r)
  BY <1>19 DEF ResolveCode, GoTo
<1>20. CASE CheckExists(r)
  BY <1>20 DEF CheckExists, GoTo, Reply
<1>21. CASE GetFilePath(r)
  BY <1>21 DEF GetFilePath, GoTo, Reply
<1>22. CASE GetFileMetadata(r)
  BY <1>22 DEF GetFileMetadata, GoTo
<1>23. CASE QueryFails(r)
  BY <1>23 DEF QueryFails, AfterFailedQuery, Fault, GoTo, Reply
<1>24. CASE ServeFile(r)
  BY <1>24 DEF ServeFile, GoTo, Reply
<1>25. CASE ReadFile(r)
  BY <1>25 DEF ReadFile, Reply
<1>26. CASE CountTotal(r)
  BY <1>26 DEF CountTotal, GoTo
<1>27. CASE CountDaily(r)
  BY <1>27 DEF CountDaily, Reply
<1>28. CASE CountFails(r)
  BY <1>28 DEF CountFails, Reply, Fault
<1>29. CASE RemoveFile(r)
  BY <1>29 DEF RemoveFile, Reply
<1>30. CASE DestroyHandler(r)
  BY <1>30 DEF DestroyHandler
<1>31. CASE Acknowledge(r)
  BY <1>31 DEF Acknowledge, Reply
<1>32. CASE ServeFails(r)
  BY <1>32 DEF ServeFails, Reply, Fault
<1>. QED
  BY <1>1, <1>2, <1>3, <1>4, <1>5, <1>6, <1>7, <1>8, <1>9, <1>10, <1>11, <1>12, <1>13, <1>14, <1>15,
     <1>16, <1>17, <1>18, <1>19, <1>20, <1>21, <1>22, <1>23, <1>24, <1>25, <1>26, <1>27, <1>28, <1>29, <1>30, <1>31, <1>32 DEF Arrive, Run

-----------------------------------------------------------------------------
(* The inductive invariant of the snapshots. *)

Committing == {"commit_link", "commit_click", "commit_delete"}

(***************************************************************************)
(* Each kind of request keeps to its calls; a row of links has been read   *)
(* by the calls that need one, and by no others.                           *)
(***************************************************************************)
PathOK(r) ==
  /\ pc[r] \in {"draw", "insert", "commit_link", "acknowledge"} => Creator(r)
  /\ pc[r] \in {"open_file", "write_file", "cleanup"} => kind[r] = "upload"
  /\ pc[r] \in {"resolve", "exists", "metadata", "click", "commit_click", "serve", "read"} =>
       kind[r] = "redirect"
  /\ pc[r] = "lookup" => kind[r] \in {"redirect", "delete_file"}
  /\ pc[r] \in {"total", "daily"} => kind[r] = "stats"
  /\ pc[r] \in {"delete", "commit_delete"} => kind[r] \in {"delete_link", "delete_file"}
  /\ pc[r] = "unlink" => kind[r] = "delete_file"
  /\ pc[r] \in {"idle", "resolve", "lookup"} \/ kind[r] \notin {"redirect", "delete_file"} =>
       seen[r] = NoLink
  /\ pc[r] = "exists" => seen[r].type = "url"
  /\ pc[r] \in {"metadata", "serve", "read"} => seen[r].type = "file"
  /\ kind[r] = "delete_file" /\ seen[r] # NoLink => seen[r].type = "file"
  /\ pc[r] \in Over <=> resp[r] # "none"

(* A write that has begun holds the lock, on the newest snapshot if on any. *)
LockOK(r) == pc[r] \in Committing =>
  /\ writer = Db(r)
  /\ open[Db(r)] # {} => view[Db(r)].version = version

(***************************************************************************)
(* From resolve_code to the commit of the click, the connection of a       *)
(* visitor who was given a URL stays in the snapshot of get_link, and so   *)
(* does that of get_click_stats from its first query to its second.        *)
(***************************************************************************)
SnapOK(r) ==
  /\ pc[r] \in {"exists", "click", "commit_click"} /\ seen[r].type = "url" =>
       "get_link" \in open[Db(r)] /\ view[Db(r)].links[code[r]] = seen[r]
  /\ pc[r] = "daily" =>
       /\ "get_stats" \in open[Db(r)]
       /\ stats[r].total = {x \in view[Db(r)].clicks : x.code = code[r]}

SnapInv ==
  /\ \A k \in Conn : ViewOK(k)
  /\ \A r \in Req : PathOK(r) /\ LockOK(r) /\ SnapOK(r)

USE DEF Over, Committing

LEMMA PathStep ==
  ASSUME IInv, NEW r \in Req, Arrive(r) \/ Run(r), PathOK(r)
  PROVE  PathOK(r)'
<1>. USE ShortenerAssumption, LinkDbAssumption
     DEF IInv, TypeOK, RequestTypeOK, callVars, PathOK, Creator
<1>1. CASE HandleRequest(r)
  <2>1. /\ FirstCall[kind[r]] \in {"draw", "resolve", "total", "delete", "lookup"}
        /\ FirstCall[kind[r]] = "draw" => Creator(r)
        /\ FirstCall[kind[r]] = "resolve" => kind[r] = "redirect"
        /\ FirstCall[kind[r]] = "lookup" => kind[r] = "delete_file"
        /\ FirstCall[kind[r]] = "total" => kind[r] = "stats"
        /\ FirstCall[kind[r]] = "delete" => kind[r] = "delete_link"
    BY DEF FirstCall, Kind
  <2>2. /\ pc'[r] = FirstCall[kind[r]] /\ resp'[r] = "none" /\ seen'[r] = NoLink /\ kind' = kind
    BY <1>1 DEF HandleRequest, GoTo
  <2>. QED
    BY <2>1, <2>2
<1>2. CASE ServicesFail(r)
  BY <1>2 DEF ServicesFail, Fault, Reply
<1>3. CASE RejectInput(r)
  BY <1>3 DEF RejectInput, Reply
<1>4. CASE DrawFreeCode(r)
  BY <1>4 DEF DrawFreeCode, AfterDraw, GoTo
<1>5. CASE DrawUncheckedCode(r)
  BY <1>5 DEF DrawUncheckedCode, AfterDraw, GoTo, Fault
<1>6. CASE DrawTakenCode(r)
  BY <1>6 DEF DrawTakenCode, Reply
<1>7. CASE OpenFile(r)
  BY <1>7 DEF OpenFile, GoTo
<1>8. CASE WriteFile(r)
  BY <1>8 DEF WriteFile, GoTo
<1>9. CASE CleanUpFile(r)
  BY <1>9 DEF CleanUpFile, Reply
<1>10. CASE WriteFileFails(r)
  BY <1>10 DEF WriteFileFails, Reply, Fault
<1>11. CASE RemoveFails(r)
  BY <1>11 DEF RemoveFails, Reply, Fault
<1>12. CASE StartWrite(r)
  BY <1>12 DEF StartWrite, CommitStep, GoTo, StepOK
<1>13. CASE InsertRefused(r)
  BY <1>13 DEF InsertRefused, LinkNotInserted, GoTo, Reply
<1>14. CASE ClickRefused(r)
  BY <1>14 DEF ClickRefused, ClickDone, GoTo, Reply, StepOK, Link
<1>15. CASE DeleteRefused(r)
  BY <1>15 DEF DeleteRefused, Reply
<1>16. CASE CommitLink(r)
  BY <1>16 DEF CommitLink, LinkInserted, LinkNotInserted, GoTo, Reply
<1>17. CASE CommitClick(r)
  BY <1>17 DEF CommitClick, ClickDone, GoTo, Reply, StepOK, Link
<1>18. CASE CommitDelete(r)
  BY <1>18 DEF CommitDelete, GoTo, Reply, StepOK
<1>19. CASE ResolveCode(r)
  BY <1>19 DEF ResolveCode, GoTo
<1>20. CASE CheckExists(r)
  BY <1>20 DEF CheckExists, GoTo, Reply, StepOK
<1>21. CASE GetFilePath(r)
  BY <1>21 DEF GetFilePath, GoTo, Reply
<1>22. CASE GetFileMetadata(r)
  BY <1>22 DEF GetFileMetadata, GoTo
<1>23. CASE QueryFails(r)
  <2>1. /\ pc[r] \in {"resolve", "exists", "lookup", "metadata"}
        /\ kind' = kind /\ seen' = seen
    BY <1>23 DEF QueryFails
  <2>2. /\ pc[r] = "resolve" => pc'[r] = "lookup" /\ resp'[r] = resp[r]
        /\ pc[r] = "exists" => pc'[r] \in Over /\ resp'[r] # "none"
        /\ pc[r] = "lookup" => pc'[r] \in Over /\ resp'[r] # "none"
        /\ pc[r] = "metadata" => pc'[r] = "serve" /\ resp'[r] = resp[r]
    BY <1>23 DEF QueryFails, AfterFailedQuery, GoTo, Reply
  <2>. QED
    BY <2>1, <2>2
<1>24. CASE ServeFile(r)
  BY <1>24 DEF ServeFile, GoTo, Reply, StepOK
<1>25. CASE ReadFile(r)
  BY <1>25 DEF ReadFile, Reply, StepOK
<1>26. CASE CountTotal(r)
  BY <1>26 DEF CountTotal, GoTo
<1>27. CASE CountDaily(r)
  BY <1>27 DEF CountDaily, Reply
<1>28. CASE CountFails(r)
  BY <1>28 DEF CountFails, Reply, Fault
<1>29. CASE RemoveFile(r)
  BY <1>29 DEF RemoveFile, Reply
<1>30. CASE DestroyHandler(r)
  BY <1>30 DEF DestroyHandler
<1>31. CASE Acknowledge(r)
  BY <1>31 DEF Acknowledge, Reply
<1>32. CASE ServeFails(r)
  BY <1>32 DEF ServeFails, Reply, Fault
<1>. QED
  BY <1>1, <1>2, <1>3, <1>4, <1>5, <1>6, <1>7, <1>8, <1>9, <1>10, <1>11, <1>12, <1>13, <1>14, <1>15,
     <1>16, <1>17, <1>18, <1>19, <1>20, <1>21, <1>22, <1>23, <1>24, <1>25, <1>26, <1>27, <1>28, <1>29, <1>30, <1>31, <1>32 DEF Arrive, Run

(* The connection of a request is its own, whatever the other requests do. *)
LEMMA SnapOther ==
  ASSUME IInv, SnapInv, NEW r \in Req, Arrive(r) \/ Run(r), NEW s \in Req, s # r
  PROVE  PathOK(s)' /\ LockOK(s)' /\ SnapOK(s)'
<1>. DEFINE k == Db(s)
<1>1. /\ pc'[s] = pc[s] /\ code'[s] = code[s] /\ seen'[s] = seen[s]
      /\ stats'[s] = stats[s] /\ resp'[s] = resp[s] /\ kind' = kind
  BY FrameStep
<1>2. Db(s)' = k
  BY <1>1 DEF Db, ServiceOf, UsesFileService
<1>3. k \in Conn /\ Db(r) \in Conn /\ k # Db(r) /\ k \notin {r} \X Service
  BY DbConn DEF Db
<1>4. DbTypeOK /\ (DbCall(Db(r)) \/ Close({r} \X Service))
  BY DbCallStep DEF IInv, TypeOK
<1>. HIDE DEF k
<1>5. open'[k] = open[k] /\ view'[k] = view[k]
  BY <1>3, <1>4, CallOfOther DEF Close
<1>6. writer = k => writer' = k /\ version' = version
  BY <1>3, <1>4, CallUnderLock DEF Close
<1>7. PathOK(s)'
  BY <1>1 DEF SnapInv, PathOK, Creator
<1>8. LockOK(s)'
  BY <1>1, <1>2, <1>5, <1>6 DEF SnapInv, LockOK, k
<1>9. SnapOK(s)'
  BY <1>1, <1>2, <1>5 DEF SnapInv, SnapOK, k
<1>. QED
  BY <1>7, <1>8, <1>9

(* A request that begins to write takes the lock in the newest snapshot. *)
LEMMA LockOwn ==
  ASSUME IInv, NEW r \in Req, Arrive(r) \/ Run(r)
  PROVE  LockOK(r)'
<1>. SUFFICES ASSUME pc'[r] \in Committing PROVE LockOK(r)'
  BY DEF LockOK
<1>1. StartWrite(r)
  BY CameFromStep DEF CameFrom
<1>2. Db(r)' = Db(r)
  BY <1>1 DEF StartWrite, GoTo, CommitStep, callVars, Db, ServiceOf, UsesFileService, IInv, TypeOK, RequestTypeOK
<1>. QED
  BY <1>1, <1>2 DEF StartWrite, BeginWrite, CanWrite, SnapshotIsStale, LockOK

(* What a request has seen is what its snapshot still shows. *)
LEMMA SnapOwn ==
  ASSUME IInv, NEW r \in Req, PathOK(r), SnapOK(r), Arrive(r) \/ Run(r)
  PROVE  SnapOK(r)'
<1>. DEFINE k == Db(r)
<1>. USE DEF IInv, TypeOK, RequestTypeOK, callVars
<1>1. k \in Conn /\ CameFrom(r)
  BY DbConn, CameFromStep
<1>2. ASSUME ResolveCode(r), pc'[r] = "exists"
      PROVE  /\ "get_link" \in open'[Db(r)'] /\ view'[Db(r)'].links[code'[r]] = seen'[r]
  <2>. DEFINE row == RowSeen(k, "get_link", code[r])
  <2>1. row # NoLink /\ row.type = "url" /\ seen'[r] = row
    BY <1>2 DEF ResolveCode, GoTo
  <2>2. /\ pc[r] = "resolve" /\ kind[r] = "redirect" /\ seen[r] = NoLink
        /\ kind' = kind /\ code'[r] = code[r]
    BY <1>2 DEF ResolveCode, PathOK
  <2>3. Db(r)' = k
    BY <1>2, <2>1, <2>2 DEF Db, ServiceOf, UsesFileService
  <2>4. view'[k] = Sees(k, "get_link") /\ "get_link" \in open'[k]
    BY <1>1, <1>2, <2>1, QueryAtRow DEF ResolveCode
  <2>. QED
    BY <2>1, <2>2, <2>3, <2>4 DEF RowSeen
<1>3. ASSUME CheckExists(r), pc'[r] = "click"
      PROVE  /\ "get_link" \in open'[Db(r)'] /\ view'[Db(r)'].links[code'[r]] = seen'[r]
  <2>1. /\ pc[r] = "exists" /\ seen[r].type = "url"
        /\ kind' = kind /\ code' = code /\ seen' = seen
    BY <1>3 DEF CheckExists, PathOK
  <2>2. Db(r)' = k
    BY <1>3, <2>1 DEF Db, ServiceOf, UsesFileService
  <2>3. "get_link" \in open[k] /\ view[k].links[code[r]] = seen[r]
    BY <2>1 DEF SnapOK
  <2>4. PICK found : RunQuery(k, "code_exists", found)
    BY <1>3 DEF CheckExists
  <2>5. view'[k] = view[k] /\ "get_link" \in open'[k]
    BY <1>1, <2>3, <2>4, QueryInSnapshot
  <2>. QED
    BY <2>1, <2>2, <2>3, <2>5
<1>4. ASSUME StartWrite(r), pc'[r] = "commit_click", seen'[r].type = "url"
      PROVE  /\ "get_link" \in open'[Db(r)'] /\ view'[Db(r)'].links[code'[r]] = seen'[r]
  <2>1. /\ pc[r] = "click" /\ kind' = kind /\ code' = code /\ seen' = seen
        /\ open' = open /\ view' = view
    BY <1>4 DEF StartWrite, BeginWrite, CommitStep, GoTo
  <2>2. Db(r)' = k
    BY <1>4, <2>1 DEF Db, ServiceOf, UsesFileService
  <2>. QED
    BY <1>4, <2>1, <2>2 DEF SnapOK
<1>5. ASSUME GetFileMetadata(r), pc'[r] = "click"
      PROVE  seen'[r].type = "file"
  BY <1>5 DEF GetFileMetadata, PathOK
<1>6. ASSUME CountTotal(r), pc'[r] = "daily"
      PROVE  /\ "get_stats" \in open'[Db(r)']
             /\ stats'[r].total = {x \in view'[Db(r)'].clicks : x.code = code'[r]}
  <2>1. /\ pc[r] = "total" /\ kind' = kind /\ code' = code /\ seen' = seen
        /\ stats'[r].total = ClicksSeen(k, "get_stats", code[r])
    BY <1>6 DEF CountTotal
  <2>2. Db(r)' = k
    BY <1>6, <2>1 DEF Db, ServiceOf, UsesFileService
  <2>3. view'[k] = Sees(k, "get_stats") /\ "get_stats" \in open'[k]
    BY <1>1, <1>6, QueryAtRow DEF CountTotal
  <2>. QED
    BY <2>1, <2>2, <2>3 DEF ClicksSeen
<1>. QED
  BY <1>1, <1>2, <1>3, <1>4, <1>5, <1>6 DEF CameFrom, SnapOK

LEMMA SnapInit == Init => SnapInv
<1>. SUFFICES ASSUME Init PROVE SnapInv
  OBVIOUS
<1>1. \A k \in Conn : ViewOK(k)
  BY DEF Init, DbInit, ViewOK
<1>2. \A r \in Req : PathOK(r) /\ LockOK(r) /\ SnapOK(r)
  BY DEF Init, PathOK, LockOK, SnapOK
<1>. QED
  BY <1>1, <1>2 DEF SnapInv

LEMMA SnapNext == IInv /\ SnapInv /\ [Next]_vars => SnapInv'
<1>. SUFFICES ASSUME IInv, SnapInv, [Next]_vars PROVE SnapInv'
  OBVIOUS
<1>. USE DEF SnapInv
<1>1. ASSUME NEW r \in Req, Arrive(r) \/ Run(r) PROVE SnapInv'
  <2>1. \A k \in Conn : ViewOK(k)'
    BY <1>1, DbCallStep, DbConn, CallKeepsViews, CloseKeepsViews DEF IInv, TypeOK
  <2>2. \A s \in Req : PathOK(s)' /\ LockOK(s)' /\ SnapOK(s)'
    BY <1>1, SnapOther, PathStep, LockOwn, SnapOwn
  <2>. QED
    BY <2>1, <2>2
<1>2. CASE Crash
  <2>1. \A k \in Conn : ViewOK(k)'
    BY <1>2, CloseKeepsViews DEF Crash, IInv, TypeOK
  <2>2. \A r \in Req : PathOK(r)'
    BY <1>2 DEF Crash, callVars, UnderWay, PathOK, IInv, TypeOK, RequestTypeOK
  <2>3. \A r \in Req : LockOK(r)' /\ SnapOK(r)'
    BY <1>2 DEF Crash, LockOK, SnapOK
  <2>. QED
    BY <2>1, <2>2, <2>3
<1>3. CASE UNCHANGED vars
  BY <1>3 DEF vars, dbVars, callVars, ViewOK, PathOK, LockOK, SnapOK, Creator, Db, ServiceOf, UsesFileService
<1>. QED
  BY <1>1, <1>2, <1>3 DEF Next

LEMMA SnapAlways == Spec => [](IInv /\ SnapInv)
BY InitIInv, NextIInv, SnapInit, SnapNext, PTL DEF Spec

-----------------------------------------------------------------------------
(* Answers. *)

(* Which action gives a request its answer; DestroyHandler leaves it.      *)
AnsweredBy(r) ==
  /\ resp'[r] = "created" => Acknowledge(r) \/ DestroyHandler(r)
  /\ resp'[r] = "redirect" =>
       CheckExists(r) \/ ClickRefused(r) \/ CommitClick(r) \/ QueryFails(r) \/ DestroyHandler(r)
  /\ resp'[r] = "file" => ReadFile(r) \/ DestroyHandler(r)
  /\ resp'[r] = "stats" => CountDaily(r) \/ CountFails(r) \/ DestroyHandler(r)
  /\ resp'[r] = "deleted" => CommitDelete(r) \/ RemoveFile(r) \/ DestroyHandler(r)
  /\ resp'[r] = "missing" =>
       GetFilePath(r) \/ ServeFile(r) \/ QueryFails(r) \/ DestroyHandler(r)
  /\ resp'[r] = "error" => ServicesFail(r) \/ ReadFile(r) \/ ServeFails(r) \/ DestroyHandler(r)
  /\ resp'[r] = "bad" =>
       \/ RejectInput(r) \/ DrawTakenCode(r) \/ WriteFileFails(r) \/ InsertRefused(r)
       \/ CommitLink(r) \/ CleanUpFile(r) \/ RemoveFails(r) \/ DestroyHandler(r)
  /\ resp'[r] = "cut" => DestroyHandler(r)

LEMMA AnsweredStep ==
  ASSUME IInv, NEW r \in Req, PathOK(r), Arrive(r) \/ Run(r)
  PROVE  AnsweredBy(r)
<1>0. pc[r] \notin Over => resp[r] = "none"
  BY DEF PathOK
<1>. USE <1>0 DEF IInv, TypeOK, RequestTypeOK, callVars, AnsweredBy
<1>1. CASE HandleRequest(r)
  <2>1. resp' = resp /\ pc[r] = "idle"
    BY <1>1 DEF HandleRequest, GoTo
  <2>. QED
    BY <2>1
<1>2. CASE ServicesFail(r)
  BY <1>2 DEF ServicesFail, Fault, Reply
<1>3. CASE RejectInput(r)
  BY <1>3 DEF RejectInput, Reply
<1>4. CASE DrawFreeCode(r)
  BY <1>4 DEF DrawFreeCode, AfterDraw, GoTo
<1>5. CASE DrawUncheckedCode(r)
  BY <1>5 DEF DrawUncheckedCode, AfterDraw, GoTo, Fault
<1>6. CASE DrawTakenCode(r)
  BY <1>6 DEF DrawTakenCode, Reply
<1>7. CASE OpenFile(r)
  BY <1>7 DEF OpenFile, GoTo
<1>8. CASE WriteFile(r)
  BY <1>8 DEF WriteFile, GoTo
<1>9. CASE CleanUpFile(r)
  BY <1>9 DEF CleanUpFile, Reply
<1>10. CASE WriteFileFails(r)
  BY <1>10 DEF WriteFileFails, Reply, Fault
<1>11. CASE RemoveFails(r)
  BY <1>11 DEF RemoveFails, Reply, Fault
<1>12. CASE StartWrite(r)
  BY <1>12 DEF StartWrite, CommitStep, GoTo
<1>13. CASE InsertRefused(r)
  BY <1>13 DEF InsertRefused, LinkNotInserted, GoTo, Reply
<1>14. CASE ClickRefused(r)
  BY <1>14 DEF ClickRefused, ClickDone, GoTo, Reply
<1>15. CASE DeleteRefused(r)
  BY <1>15 DEF DeleteRefused, Reply
<1>16. CASE CommitLink(r)
  BY <1>16 DEF CommitLink, LinkInserted, LinkNotInserted, GoTo, Reply
<1>17. CASE CommitClick(r)
  BY <1>17 DEF CommitClick, ClickDone, GoTo, Reply
<1>18. CASE CommitDelete(r)
  BY <1>18 DEF CommitDelete, GoTo, Reply
<1>19. CASE ResolveCode(r)
  BY <1>19 DEF ResolveCode, GoTo
<1>20. CASE CheckExists(r)
  BY <1>20 DEF CheckExists, GoTo, Reply
<1>21. CASE GetFilePath(r)
  BY <1>21 DEF GetFilePath, GoTo, Reply
<1>22. CASE GetFileMetadata(r)
  BY <1>22 DEF GetFileMetadata, GoTo
<1>23. CASE QueryFails(r)
  BY <1>23 DEF QueryFails, AfterFailedQuery, Fault, GoTo, Reply
<1>24. CASE ServeFile(r)
  BY <1>24 DEF ServeFile, GoTo, Reply
<1>25. CASE ReadFile(r)
  BY <1>25 DEF ReadFile, Reply
<1>26. CASE CountTotal(r)
  BY <1>26 DEF CountTotal, GoTo
<1>27. CASE CountDaily(r)
  BY <1>27 DEF CountDaily, Reply
<1>28. CASE CountFails(r)
  BY <1>28 DEF CountFails, Reply, Fault
<1>29. CASE RemoveFile(r)
  BY <1>29 DEF RemoveFile, Reply
<1>30. CASE DestroyHandler(r)
  BY <1>30 DEF DestroyHandler
<1>31. CASE Acknowledge(r)
  BY <1>31 DEF Acknowledge, Reply
<1>32. CASE ServeFails(r)
  BY <1>32 DEF ServeFails, Reply, Fault
<1>. QED
  BY <1>1, <1>2, <1>3, <1>4, <1>5, <1>6, <1>7, <1>8, <1>9, <1>10, <1>11, <1>12, <1>13, <1>14, <1>15,
     <1>16, <1>17, <1>18, <1>19, <1>20, <1>21, <1>22, <1>23, <1>24, <1>25, <1>26, <1>27, <1>28, <1>29, <1>30, <1>31, <1>32 DEF Arrive, Run

(***************************************************************************)
(* Once its click or its link is in, a request asks the database for       *)
(* nothing more: what is left is to read the file and to answer.           *)
(***************************************************************************)
LEMMA LateStep ==
  ASSUME IInv, NEW r \in Req, Arrive(r) \/ Run(r),
         pc[r] \in {"serve", "read", "acknowledge"} \cup Over
  PROVE  ServeFile(r) \/ ReadFile(r) \/ ServeFails(r) \/ Acknowledge(r) \/ DestroyHandler(r)
BY DEF Arrive, HandleRequest, ServicesFail, RejectInput, Run, DrawFreeCode, DrawUncheckedCode,
   DrawTakenCode, OpenFile, WriteFile, WriteFileFails, CleanUpFile, StartWrite, CommitStep,
   InsertRefused, ClickRefused, DeleteRefused, CommitLink, CommitClick, CommitDelete,
   ResolveCode, CheckExists, GetFilePath, GetFileMetadata, QueryFails, CountTotal, CountDaily,
   CountFails, RemoveFile, RemoveFails

-----------------------------------------------------------------------------
(* Clicks. *)

(***************************************************************************)
(* A click was recorded by a visitor who had read a row, with the code it  *)
(* asked for; if the row was a URL, it is the row that is there now.       *)
(***************************************************************************)
ClickOK(x) ==
  /\ x.code = code[x.by]
  /\ pc[x.by] \in {"serve", "read"} \cup Over
  /\ kind[x.by] = "redirect" /\ seen[x.by] \in Link
  /\ links[x.code] # NoLink
  /\ seen[x.by].type = "url" => links[x.code] = seen[x.by]

ClickInv == \A x \in clicks : ClickOK(x)

(***************************************************************************)
(* The snapshot of get_link is still the newest when the click commits: a  *)
(* deletion in between would have made it stale, and the click refused.    *)
(***************************************************************************)
LEMMA ClickOnSeenRow ==
  ASSUME IInv, SnapInv, NEW r \in Req, Visits(r), seen[r].type = "url"
  PROVE  links[code[r]] = seen[r]
<1>. DEFINE k == Db(r)
<1>1. pc[r] = "commit_click"
  BY DEF Visits, CommitClick
<1>2. "get_link" \in open[k] /\ view[k].links[code[r]] = seen[r]
  BY <1>1 DEF SnapInv, SnapOK
<1>3. view[k].version = version
  BY <1>1, <1>2 DEF SnapInv, LockOK
<1>4. k \in Conn /\ view[k] # NoView
  BY <1>2, DbConn DEF IInv, TypeOK, DbTypeOK
<1>. QED
  BY <1>2, <1>3, <1>4 DEF SnapInv, ViewOK

LEMMA ClickNext == IInv /\ SnapInv /\ ClickInv /\ [Next]_vars => ClickInv'
<1>. SUFFICES ASSUME IInv, SnapInv, ClickInv, [Next]_vars, NEW x \in clicks'
              PROVE  ClickOK(x)'
  BY DEF ClickInv
<1>1. ASSUME NEW r \in Req, Arrive(r) \/ Run(r)
      PROVE  ClickOK(x)'
  <2>1. ASSUME x \in clicks
        PROVE  /\ x.code \in Code /\ x.by \in Req /\ x.code = code'[x.by]
               /\ pc'[x.by] \in {"serve", "read"} \cup Over
               /\ kind'[x.by] = "redirect" /\ seen'[x.by] \in Link /\ seen'[x.by] = seen[x.by]
    <3>1. x.code \in Code /\ x.by \in Req /\ ClickOK(x)
      BY <2>1 DEF ClickInv, IInv, TypeOK, DbTypeOK, Click
    <3>2. CASE x.by # r
      BY <1>1, <3>1, <3>2, FrameStep DEF ClickOK
    <3>3. CASE x.by = r
      <4>1. ServeFile(r) \/ ReadFile(r) \/ ServeFails(r) \/ DestroyHandler(r)
        BY <1>1, <3>1, <3>3, LateStep DEF ClickOK, Acknowledge
      <4>. QED
        BY <3>1, <3>3, <4>1
           DEF ServeFile, ReadFile, ServeFails, DestroyHandler, GoTo, Reply, callVars, ClickOK, IInv, TypeOK, RequestTypeOK
    <3>. QED
      BY <3>2, <3>3
  <2>2. CASE UNCHANGED <<links, erased, clicks>>
    BY <2>1, <2>2 DEF ClickInv, ClickOK
  <2>3. CASE /\ Visits(r) /\ UNCHANGED <<links, erased>>
             /\ clicks' = clicks \cup {[code |-> code[r], by |-> r]}
    <3>1. CASE x \in clicks
      BY <2>1, <2>3, <3>1 DEF ClickInv, ClickOK
    <3>2. CASE x = [code |-> code[r], by |-> r]
      <4>1. pc[r] = "commit_click" /\ seen[r] \in Link /\ kind[r] = "redirect"
        BY <2>3 DEF Visits, CommitClick, IInv, StepOK, SnapInv, PathOK
      <4>2. pc'[r] \in {"serve", "answered"} /\ code' = code /\ seen' = seen /\ kind' = kind
        BY <2>3 DEF Visits, CommitClick, ClickDone, GoTo, Reply, callVars, IInv, TypeOK, RequestTypeOK
      <4>3. links[code[r]] # NoLink
        BY <2>3 DEF Visits, InsertClickOK
      <4>4. seen[r].type = "url" => links[code[r]] = seen[r]
        BY <2>3, ClickOnSeenRow
      <4>. QED
        BY <2>3, <3>2, <4>1, <4>2, <4>3, <4>4 DEF ClickOK
    <3>. QED
      BY <2>3, <3>1, <3>2
  <2>4. CASE /\ Inserts(r) /\ UNCHANGED <<erased, clicks>>
             /\ \E t \in {"url", "file"} : links' = [links EXCEPT ![code[r]] = [type |-> t, by |-> r]]
    <3>1. links[code[r]] = NoLink /\ ClickOK(x)
      BY <2>4 DEF Inserts, InsertLinkOK, ClickInv
    <3>2. links'[x.code] = links[x.code]
      BY <2>1, <2>4, <3>1 DEF ClickOK, IInv, TypeOK, DbTypeOK
    <3>. QED
      BY <2>1, <2>4, <3>1, <3>2 DEF ClickOK
  <2>5. CASE /\ Deletes(r)
             /\ links' = [links EXCEPT ![code[r]] = NoLink]
             /\ erased' = erased \cup {links[code[r]].by}
             /\ clicks' = {y \in clicks : y.code # code[r]}
    <3>1. x \in clicks /\ ClickOK(x) /\ links'[x.code] = links[x.code]
      BY <2>1, <2>5 DEF ClickInv, IInv, TypeOK, DbTypeOK
    <3>. QED
      BY <2>1, <3>1 DEF ClickOK
  <2>. QED
    BY <1>1, <2>2, <2>3, <2>4, <2>5, LinksStep
<1>2. CASE Crash
  BY <1>2 DEF Crash, Close, callVars, ClickInv, ClickOK, IInv, TypeOK, DbTypeOK, RequestTypeOK, Click
<1>3. CASE UNCHANGED vars
  BY <1>3 DEF vars, dbVars, callVars, ClickInv, ClickOK
<1>. QED
  BY <1>1, <1>2, <1>3 DEF Next

LEMMA ClickAlways == Spec => [](IInv /\ SnapInv /\ ClickInv)
<1>1. Init => ClickInv
  BY DEF Init, DbInit, ClickInv
<1>. QED
  BY <1>1, SnapAlways, ClickNext, PTL DEF Spec

(***************************************************************************)
(* A click is kept for a link that exists, and for the very link that its  *)
(* visitor was redirected by, in every interleaving with deletions and     *)
(* with requests that are given the freed code.                            *)
(***************************************************************************)
THEOREM ClicksAreOfTheLinkSeen == Spec => []ClickOfSeenLink
<1>1. ClickInv => ClickOfSeenLink
  BY DEF ClickInv, ClickOK, ClickOfSeenLink
<1>. QED
  BY <1>1, ClickAlways, PTL

-----------------------------------------------------------------------------
(* Statistics. *)

LEMMA StatsNext == IInv /\ SnapInv /\ StatsConsistent /\ [Next]_vars => StatsConsistent'
<1>. SUFFICES ASSUME IInv, SnapInv, StatsConsistent, [Next]_vars,
                     NEW s \in Req, resp'[s] = "stats", s \notin faulted'
              PROVE  stats'[s].total = stats'[s].daily
  BY DEF StatsConsistent
<1>. USE DEF IInv, TypeOK, RequestTypeOK, callVars, histVars
<1>1. ASSUME NEW r \in Req, Arrive(r) \/ Run(r)
      PROVE  stats'[s].total = stats'[s].daily
  <2>1. CASE s # r
    BY <1>1, <2>1, FrameStep DEF StatsConsistent
  <2>2. CASE s = r
    <3>1. CountDaily(r) \/ CountFails(r) \/ DestroyHandler(r)
      BY <1>1, <2>2, AnsweredStep DEF AnsweredBy, SnapInv
    <3>2. CASE CountDaily(r)
      <4>1. /\ "get_stats" \in open[Db(r)]
            /\ stats[r].total = {x \in view[Db(r)].clicks : x.code = code[r]}
        BY <3>2 DEF CountDaily, SnapInv, SnapOK
      <4>2. Sees(Db(r), "daily") = view[Db(r)]
        BY <4>1 DEF Sees, StillOpen
      <4>. QED
        BY <2>2, <3>2, <4>1, <4>2 DEF CountDaily, ClicksSeen
    <3>3. CASE CountFails(r)
      BY <2>2, <3>3 DEF CountFails, Fault
    <3>4. CASE DestroyHandler(r)
      BY <2>2, <3>4 DEF DestroyHandler, StatsConsistent
    <3>. QED
      BY <3>1, <3>2, <3>3, <3>4
  <2>. QED
    BY <2>1, <2>2
<1>2. CASE Crash
  BY <1>2 DEF Crash, UnderWay, StatsConsistent
<1>3. CASE UNCHANGED vars
  BY <1>3 DEF vars, StatsConsistent
<1>. QED
  BY <1>1, <1>2, <1>3 DEF Next

(***************************************************************************)
(* The total that /stats shows is the sum of its days, however many clicks *)
(* other requests record, or deletions take, between the two queries.      *)
(***************************************************************************)
THEOREM StatisticsAreConsistent == Spec => []StatsConsistent
<1>1. Init => StatsConsistent
  BY DEF Init, StatsConsistent
<1>. QED
  BY <1>1, SnapAlways, StatsNext, PTL DEF Spec

-----------------------------------------------------------------------------
DistinctUploads ==
  \A r, s \in Req : "upload" \in MayDo[r] \cap MayDo[s] /\ NameOf[r] = NameOf[s] => r = s

RoutesOnly == \A r \in Req : MayDo[r] \subseteq {"shorten", "upload", "redirect", "stats"}

USE DEF Over, Committing

-----------------------------------------------------------------------------
(* Rows and their owners. *)

(***************************************************************************)
(* A row of links for code c was stored by a request that drew c and has   *)
(* no call of the database left, and is of type file if that request is an *)
(* upload.                                                                 *)
(***************************************************************************)
Through(s) == pc[s] \in {"acknowledge"} \cup Over

Owned(row, c) == row # NoLink =>
  /\ Through(row.by) /\ code[row.by] = c
  /\ Creator(row.by) /\ (row.type = "file" <=> kind[row.by] = "upload")

(* So are the rows of every snapshot, the row that a request has read, and  *)
(* the rows that were deleted.                                             *)
RowInv ==
  /\ \A r \in Req : kind[r] \in MayDo[r]
  /\ \A c \in Code : Owned(links[c], c)
  /\ \A k \in Conn : view[k] # NoView => \A c \in Code : Owned(view[k].links[c], c)
  /\ \A r \in Req : Owned(seen[r], code[r])
  /\ \A s \in erased : Through(s)

(* Whoever was told that its link exists is through with the rest.         *)
LEMMA CreatedStays ==
  ASSUME IInv, [Next]_vars, NEW s \in Req, resp[s] = "created"
  PROVE  resp'[s] = "created" /\ code'[s] = code[s] /\ kind'[s] = kind[s]
<1>1. ASSUME NEW r \in Req, Arrive(r) \/ Run(r)
      PROVE  resp'[s] = "created" /\ code'[s] = code[s] /\ kind'[s] = kind[s]
  <2>1. CASE s # r
    BY <1>1, <2>1, FrameStep
  <2>2. CASE s = r
    <3>1. pc[r] \in Over
      BY <2>2 DEF IInv, StepOK
    <3>2. DestroyHandler(r)
      BY <1>1, <3>1, LateStep DEF ServeFile, ReadFile, ServeFails, Acknowledge
    <3>. QED
      BY <2>2, <3>2 DEF DestroyHandler, callVars
  <2>. QED
    BY <2>1, <2>2
<1>2. CASE Crash
  BY <1>2 DEF Crash, UnderWay, callVars, IInv, StepOK
<1>3. CASE UNCHANGED vars
  BY <1>3 DEF vars, callVars
<1>. QED
  BY <1>1, <1>2, <1>3 DEF Next

(* So is whoever has inserted its link.                                    *)
LEMMA ThroughStays ==
  ASSUME IInv, [Next]_vars, NEW s \in Req, Through(s)
  PROVE  Through(s)' /\ code'[s] = code[s] /\ kind'[s] = kind[s]
<1>. USE DEF Through, IInv, TypeOK, RequestTypeOK
<1>1. ASSUME NEW r \in Req, Arrive(r) \/ Run(r)
      PROVE  Through(s)' /\ code'[s] = code[s] /\ kind'[s] = kind[s]
  <2>1. CASE s # r
    BY <1>1, <2>1, FrameStep
  <2>2. CASE s = r
    <3>1. Acknowledge(r) \/ DestroyHandler(r)
      BY <1>1, <2>2, LateStep DEF ServeFile, ReadFile, ServeFails
    <3>. QED
      BY <2>2, <3>1 DEF Acknowledge, DestroyHandler, Reply, callVars
  <2>. QED
    BY <2>1, <2>2
<1>2. CASE Crash
  BY <1>2 DEF Crash, callVars
<1>3. CASE UNCHANGED vars
  BY <1>3 DEF vars, callVars
<1>. QED
  BY <1>1, <1>2, <1>3 DEF Next

LEMMA OwnedStays ==
  ASSUME IInv, [Next]_vars, NEW row \in Link \cup {NoLink}, NEW c, Owned(row, c)
  PROVE  Owned(row, c)'
<1>. SUFFICES ASSUME row # NoLink PROVE Owned(row, c)'
  BY DEF Owned
<1>1. row.by \in Req
  BY DEF Link
<1>. QED
  BY <1>1, ThroughStays DEF Owned, Creator

(***************************************************************************)
(* What a query sees is owned, and so is what a call leaves as snapshots:  *)
(* the tables, as far as a commit does not change them.                    *)
(***************************************************************************)
LEMMA RowSeenOwned ==
  ASSUME IInv, RowInv, NEW k \in Conn, NEW q, NEW c \in Code
  PROVE  Owned(RowSeen(k, q, c), c)
<1>1. StillOpen(k, q) # {} => view[k] # NoView
  BY DEF StillOpen, IInv, TypeOK, DbTypeOK
<1>. QED
  BY <1>1 DEF RowInv, RowSeen, Sees, Newest

(***************************************************************************)
(* Every row of a new snapshot was in a snapshot or in the tables, or is   *)
(* in the tables now.                                                      *)
(***************************************************************************)
LEMMA ViewRows ==
  ASSUME DbTypeOK, NEW k \in Conn, DbCall(k), NEW j \in Conn, view'[j] # NoView, NEW c \in Code
  PROVE  \/ view[j] # NoView /\ view'[j].links[c] = view[j].links[c]
         \/ view'[j].links[c] \in {links[c], links'[c]}
<1>. USE DEF DbTypeOK
<1>1. CASE j # k \/ UNCHANGED dbVars
  BY <1>1, CallOfOther DEF dbVars
<1>2. CASE j = k /\ \E q \in Query, found \in BOOLEAN : RunQuery(k, q, found)
  <2>1. PICK q \in Query, found \in BOOLEAN : RunQuery(k, q, found)
    BY <1>2
  <2>2. view'[j] \in {view[j], Newest}
    BY <1>2, <2>1 DEF RunQuery, StopAtRow, RunToEnd, Sees
  <2>. QED
    BY <2>2 DEF Newest
<1>3. CASE BeginWrite(k) \/ Rollback(k)
  BY <1>3 DEF BeginWrite, Rollback
<1>4. CASE j = k /\ \E newLinks, newClicks : Commit(k, newLinks, newClicks)
  BY <1>4 DEF Commit
<1>. QED
  BY <1>1, <1>2, <1>3, <1>4 DEF DbCall

(* The row that a request inserts is its own. *)
LEMMA InsertOwned ==
  ASSUME IInv, SnapInv, NEW r \in Req, Inserts(r), NEW row,
         row = [type |-> IF kind[r] = "upload" THEN "file" ELSE "url", by |-> r]
  PROVE  /\ links' = [links EXCEPT ![code[r]] = row] /\ row \in Link /\ row # NoLink
         /\ code[r] \in Code /\ links[code[r]] = NoLink /\ Owned(row, code[r])'
<1>1. /\ links' = [links EXCEPT ![code[r]] = row]
      /\ pc' = [pc EXCEPT ![r] = "acknowledge"] /\ code' = code /\ kind' = kind
      /\ links[code[r]] = NoLink /\ pc[r] = "commit_link"
  BY DEF Inserts, InsertLinkOK, CommitLink, InsertLink, Commit, LinkInserted, GoTo, callVars
<1>2. code[r] \in Code /\ Creator(r)
  BY <1>1 DEF IInv, StepOK, SnapInv, PathOK
<1>3. row \in Link /\ row # NoLink
  BY LinkDbAssumption DEF Link
<1>4. /\ row.by = r /\ (row.type = "file" <=> kind[r] = "upload")
      /\ Through(r)' /\ code'[r] = code[r] /\ Creator(r)'
  BY <1>1, <1>2 DEF Through, Creator, IInv, TypeOK, RequestTypeOK
<1>. QED
  BY <1>1, <1>2, <1>3, <1>4 DEF Owned, Creator

LEMMA RowInit == Init => RowInv
BY DEF Init, DbInit, RowInv, Owned

(* The tables stay owned, by what is there or by what was. *)
LEMMA LinksOwned ==
  ASSUME IInv, SnapInv, RowInv, NEW r \in Req, Arrive(r) \/ Run(r), NEW c \in Code,
         NEW row \in {links[c], links'[c]}
  PROVE  Owned(row, c)'
<1>1. ASSUME row = links[c] PROVE Owned(row, c)'
  <2>1. row \in Link \cup {NoLink} /\ Owned(row, c)
    BY <1>1 DEF RowInv, IInv, TypeOK, DbTypeOK
  <2>. QED
    BY <2>1, OwnedStays DEF Next
<1>2. CASE UNCHANGED links
  BY <1>1, <1>2
<1>3. CASE Inserts(r)
  <2>1. PICK new : new = [type |-> IF kind[r] = "upload" THEN "file" ELSE "url", by |-> r]
    OBVIOUS
  <2>2. links' = [links EXCEPT ![code[r]] = new] /\ Owned(new, code[r])'
    BY <1>3, <2>1, InsertOwned
  <2>3. row = links[c] \/ (c = code[r] /\ row = new)
    BY <2>2 DEF IInv, TypeOK, DbTypeOK
  <2>4. code' = code
    BY <1>3 DEF Inserts, CommitLink, callVars
  <2>. QED
    BY <1>1, <2>2, <2>3, <2>4
<1>4. CASE links' = [links EXCEPT ![code[r]] = NoLink]
  <2>1. row = links[c] \/ row = NoLink
    BY <1>4 DEF IInv, TypeOK, DbTypeOK
  <2>2. row = NoLink => Owned(row, c)'
    BY DEF Owned
  <2>. QED
    BY <1>1, <2>1, <2>2
<1>. QED
  BY <1>1, <1>2, <1>3, <1>4, LinksStep

(* So do the snapshots. *)
LEMMA ViewsOwned ==
  ASSUME IInv, SnapInv, RowInv, NEW r \in Req, Arrive(r) \/ Run(r),
         NEW k \in Conn, view'[k] # NoView, NEW c \in Code, NEW row, row = view'[k].links[c]
  PROVE  Owned(row, c)'
<1>1. ASSUME view[k] # NoView, row = view[k].links[c] PROVE Owned(row, c)'
  <2>1. row \in Link \cup {NoLink} /\ Owned(row, c)
    BY <1>1 DEF RowInv, IInv, TypeOK, DbTypeOK, View
  <2>. QED
    BY <2>1, OwnedStays DEF Next
<1>2. CASE DbCall(Db(r))
  BY <1>1, <1>2, DbConn, ViewRows, LinksOwned DEF IInv, TypeOK
<1>3. CASE Close({r} \X Service)
  BY <1>1, <1>3 DEF Close
<1>. QED
  BY <1>2, <1>3, DbCallStep

(***************************************************************************)
(* get_link is the only call that stores a row with its request, and the   *)
(* row is what its snapshot shows for the code that was asked.             *)
(***************************************************************************)
LEMMA SeenStep ==
  ASSUME IInv, SnapInv, NEW r \in Req, Arrive(r) \/ Run(r)
  PROVE  \/ seen'[r] = seen[r] /\ (code'[r] = code[r] \/ seen[r] = NoLink)
         \/ /\ ResolveCode(r) \/ GetFilePath(r)
            /\ seen'[r] = RowSeen(Db(r), "get_link", code[r])
            /\ code'[r] = code[r] /\ code[r] \in Code
<1>. USE DEF callVars
<1>1. CASE pc[r] \in {"idle", "draw"}
  <2>1. seen[r] = NoLink
    BY <1>1 DEF SnapInv, PathOK, Creator
  <2>2. seen' = seen
    BY <1>1 DEF Arrive, HandleRequest, ServicesFail, RejectInput, Run, DrawFreeCode,
       DrawUncheckedCode, DrawTakenCode, OpenFile, WriteFile, WriteFileFails, CleanUpFile,
       StartWrite, CommitStep, InsertRefused, ClickRefused, DeleteRefused, CommitLink,
       CommitClick, CommitDelete, ResolveCode, CheckExists, GetFilePath, GetFileMetadata,
       QueryFails, Acknowledge, ServeFile, ReadFile, ServeFails, CountTotal, CountDaily, CountFails, RemoveFile,
       RemoveFails, DestroyHandler
  <2>. QED
    BY <2>1, <2>2
<1>2. CASE ResolveCode(r) \/ GetFilePath(r)
  BY <1>2 DEF ResolveCode, GetFilePath, IInv, StepOK, TypeOK, RequestTypeOK
<1>3. CASE pc[r] \notin {"idle", "draw"} /\ ~(ResolveCode(r) \/ GetFilePath(r))
  BY <1>3 DEF Arrive, HandleRequest, ServicesFail, RejectInput, Run, DrawFreeCode,
     DrawUncheckedCode, DrawTakenCode, OpenFile, WriteFile, WriteFileFails, CleanUpFile,
     StartWrite, InsertRefused, ClickRefused, DeleteRefused, CommitLink,
     CommitClick, CommitDelete, CheckExists, GetFileMetadata,
     QueryFails, Acknowledge, ServeFile, ReadFile, ServeFails, CountTotal, CountDaily, CountFails, RemoveFile,
     RemoveFails, DestroyHandler
<1>. QED
  BY <1>1, <1>2, <1>3

LEMMA RowNext == IInv /\ SnapInv /\ RowInv /\ [Next]_vars => RowInv'
<1>. SUFFICES ASSUME IInv, SnapInv, RowInv, [Next]_vars PROVE RowInv'
  OBVIOUS
<1>1. ASSUME NEW s \in Req, seen'[s] = seen[s], code'[s] = code[s] \/ seen[s] = NoLink
      PROVE  Owned(seen[s], code[s])'
  <2>. DEFINE row == seen[s]
  <2>1. row \in Link \cup {NoLink} /\ Owned(row, code[s])
    BY DEF RowInv, IInv, TypeOK, RequestTypeOK
  <2>2. \A x \in Link \cup {NoLink} : \A c : Owned(x, c) => Owned(x, c)'
    BY OwnedStays
  <2>3. PICK x \in Link \cup {NoLink}, c \in {code[s]} : x = seen[s] /\ c = code[s] /\ Owned(x, c)'
    BY <2>1, <2>2
  <2>. QED
    BY <1>1, <2>3 DEF Owned
<1>2. ASSUME NEW r \in Req, Arrive(r) \/ Run(r) PROVE RowInv'
  <2>1. \A s \in Req : kind'[s] \in MayDo[s]
    <3>1. kind' = kind
      BY <1>2, CameFromStep DEF CameFrom
    <3>. QED
      BY <3>1 DEF RowInv
  <2>2. \A c \in Code : Owned(links[c], c)'
    <3>. TAKE c \in Code
    <3>1. PICK row : row = links'[c]
      OBVIOUS
    <3>. QED
      BY <1>2, <3>1, LinksOwned DEF Owned
  <2>3. ASSUME NEW k \in Conn, view'[k] # NoView, NEW c \in Code
        PROVE  Owned(view[k].links[c], c)'
    <3>1. PICK row : row = view'[k].links[c]
      OBVIOUS
    <3>. QED
      BY <1>2, <2>3, <3>1, ViewsOwned DEF Owned
  <2>4. ASSUME NEW s \in Req PROVE Owned(seen[s], code[s])'
    <3>1. CASE s # r
      BY <1>1, <1>2, <3>1, FrameStep
    <3>2. CASE s = r /\ seen'[r] = seen[r] /\ (code'[r] = code[r] \/ seen[r] = NoLink)
      BY <1>1, <3>2
    <3>3. CASE /\ s = r /\ seen'[r] = RowSeen(Db(r), "get_link", code[r])
               /\ code'[r] = code[r] /\ code[r] \in Code
      <4>1. PICK row, c : row = seen'[r] /\ c = code[r]
        OBVIOUS
      <4>2. row \in Link \cup {NoLink} /\ Owned(row, c)
        BY <3>3, <4>1, DbConn, RowSeenOwned, RowSeenType DEF IInv, TypeOK
      <4>3. Owned(row, c)'
        BY <4>2, OwnedStays
      <4>. QED
        BY <3>3, <4>1, <4>3 DEF Owned
    <3>. QED
      BY <1>2, <3>1, <3>2, <3>3, SeenStep
  <2>5. ASSUME NEW s \in erased' PROVE Through(s)'
    <3>1. CASE s \in erased
      BY <3>1, ThroughStays DEF RowInv, IInv, TypeOK, RequestTypeOK
    <3>2. CASE s \notin erased
      <4>1. Deletes(r) /\ s = links[code[r]].by
        BY <1>2, <2>5, <3>2, LinksStep
      <4>2. code[r] \in Code /\ links[code[r]] # NoLink
        BY <4>1 DEF Deletes, CommitDelete, DeleteLinkOK, IInv, StepOK
      <4>3. s \in Req /\ Through(s)
        BY <4>1, <4>2 DEF RowInv, Owned, Link, IInv, TypeOK, DbTypeOK
      <4>. QED
        BY <4>3, ThroughStays
    <3>. QED
      BY <3>1, <3>2
  <2>. QED
    BY <2>1, <2>2, <2>3, <2>4, <2>5 DEF RowInv
<1>3. CASE Crash
  <2>1. \A x \in Link \cup {NoLink} : \A c : Owned(x, c) => Owned(x, c)'
    BY OwnedStays
  <2>2. UNCHANGED <<links, kind, code, seen>> /\ \A k \in Conn : view'[k] = NoView
    BY <1>3 DEF Crash, Close, callVars
  <2>3. \A c \in Code : Owned(links[c], c)'
    <3>. TAKE c \in Code
    <3>1. PICK row \in Link \cup {NoLink} : row = links[c] /\ Owned(row, c)'
      BY <2>1 DEF RowInv, IInv, TypeOK, DbTypeOK
    <3>. QED
      BY <2>2, <3>1 DEF Owned
  <2>4. \A s \in erased' : Through(s)'
    BY <1>3, ThroughStays DEF Crash, RowInv, IInv, TypeOK, RequestTypeOK
  <2>. QED
    BY <1>1, <2>2, <2>3, <2>4 DEF RowInv
<1>4. CASE UNCHANGED vars
  BY <1>4 DEF vars, dbVars, callVars, histVars, RowInv, Owned, Through, Creator
<1>. QED
  BY <1>2, <1>3, <1>4 DEF Next

LEMMA RowAlways == Spec => [](IInv /\ SnapInv /\ RowInv)
BY SnapAlways, RowInit, RowNext, PTL DEF Spec

-----------------------------------------------------------------------------
(* The abstract specification. *)

(***************************************************************************)
(* An acknowledgement is not taken back: the request is over, and all that *)
(* is left of it is to close its connections.                              *)
(***************************************************************************)
LEMMA AckKept ==
  ASSUME IInv, NEW r \in Req, Arrive(r) \/ Run(r), NEW s \in Req, resp[s] = "created"
  PROVE  resp'[s] = "created"
<1>. USE DEF IInv, TypeOK, RequestTypeOK, StepOK, callVars
<1>1. CASE HandleRequest(r)
  BY <1>1 DEF HandleRequest, GoTo
<1>2. CASE ServicesFail(r)
  BY <1>2 DEF ServicesFail, Reply
<1>3. CASE RejectInput(r)
  BY <1>3 DEF RejectInput, Reply
<1>4. CASE DrawFreeCode(r)
  BY <1>4 DEF DrawFreeCode, GoTo
<1>5. CASE DrawUncheckedCode(r)
  BY <1>5 DEF DrawUncheckedCode, GoTo
<1>6. CASE DrawTakenCode(r)
  BY <1>6 DEF DrawTakenCode, Reply
<1>7. CASE OpenFile(r)
  BY <1>7 DEF OpenFile, GoTo
<1>8. CASE WriteFile(r)
  BY <1>8 DEF WriteFile, GoTo
<1>9. CASE CleanUpFile(r)
  BY <1>9 DEF CleanUpFile, Reply
<1>10. CASE WriteFileFails(r)
  BY <1>10 DEF WriteFileFails, Reply
<1>11. CASE RemoveFails(r)
  BY <1>11 DEF RemoveFails, Reply
<1>12. CASE StartWrite(r)
  BY <1>12 DEF StartWrite, GoTo
<1>13. CASE InsertRefused(r)
  BY <1>13 DEF InsertRefused, LinkNotInserted, GoTo, Reply
<1>14. CASE ClickRefused(r)
  BY <1>14 DEF ClickRefused, ClickDone, GoTo, Reply
<1>15. CASE DeleteRefused(r)
  BY <1>15 DEF DeleteRefused, Reply
<1>16. CASE CommitLink(r)
  BY <1>16 DEF CommitLink, LinkInserted, LinkNotInserted, GoTo, Reply
<1>17. CASE CommitClick(r)
  BY <1>17 DEF CommitClick, ClickDone, GoTo, Reply
<1>18. CASE CommitDelete(r)
  BY <1>18 DEF CommitDelete, GoTo, Reply
<1>19. CASE ResolveCode(r)
  BY <1>19 DEF ResolveCode, GoTo
<1>20. CASE CheckExists(r)
  BY <1>20 DEF CheckExists, GoTo, Reply
<1>21. CASE GetFilePath(r)
  BY <1>21 DEF GetFilePath, GoTo, Reply
<1>22. CASE GetFileMetadata(r)
  BY <1>22 DEF GetFileMetadata, GoTo
<1>23. CASE QueryFails(r)
  BY <1>23 DEF QueryFails, AfterFailedQuery, GoTo, Reply
<1>24. CASE ServeFile(r)
  BY <1>24 DEF ServeFile, GoTo, Reply
<1>25. CASE ReadFile(r)
  BY <1>25 DEF ReadFile, Reply
<1>26. CASE CountTotal(r)
  BY <1>26 DEF CountTotal, GoTo
<1>27. CASE CountDaily(r)
  BY <1>27 DEF CountDaily, Reply
<1>28. CASE CountFails(r)
  BY <1>28 DEF CountFails, Reply
<1>29. CASE RemoveFile(r)
  BY <1>29 DEF RemoveFile, Reply
<1>30. CASE DestroyHandler(r)
  BY <1>30 DEF DestroyHandler
<1>31. CASE Acknowledge(r)
  BY <1>31 DEF Acknowledge, Reply
<1>32. CASE ServeFails(r)
  BY <1>32 DEF ServeFails, Reply
<1>. QED
  BY <1>1, <1>2, <1>3, <1>4, <1>5, <1>6, <1>7, <1>8, <1>9, <1>10, <1>11, <1>12, <1>13, <1>14, <1>15, <1>16, <1>17, <1>18, <1>19, <1>20, <1>21, <1>22, <1>23, <1>24, <1>25, <1>26, <1>27, <1>28, <1>29, <1>30, <1>31, <1>32 DEF Arrive, Run

(* Only Acknowledge tells a request that its link exists. *)
LEMMA OnlyAcknowledge ==
  ASSUME IInv, SnapInv, NEW r \in Req, Arrive(r) \/ Run(r), ~Acknowledge(r),
         NEW s \in Req, resp'[s] = "created"
  PROVE  resp[s] = "created"
<1>1. CASE s # r
  BY <1>1, FrameStep
<1>2. CASE s = r
  BY <1>2, AnsweredStep DEF AnsweredBy, SnapInv, DestroyHandler
<1>. QED
  BY <1>1, <1>2

LEMMA PromiseInit == Init => Promise!Init
BY DEF Init, DbInit, Promise!Init, Acknowledged

(* Whoever is about to be told that its link exists, or has been, made it. *)
LEMMA InsertedMade ==
  ASSUME IInv, InsertedKept, NEW s \in Req, Inserted(s)
  PROVE  s \in Promise!Made
<1>1. code[s] \in Code
  BY DEF Inserted, IInv, StepOK
<1>. QED
  BY <1>1 DEF InsertedKept, Promise!Made

(* Whoever is still to insert its link has made none. *)
LEMMA InsertOnce ==
  ASSUME RowInv, NEW r \in Req, pc[r] = "commit_link"
  PROVE  r \notin Promise!Made
BY DEF RowInv, Owned, Through, Promise!Made

(***************************************************************************)
(* Each step of a request is a step of the promise or none: an insert is   *)
(* Create, an acknowledgement is Tell, a deletion is Erase, a click that   *)
(* is recorded is Visit, and all else changes nothing of it.               *)
(***************************************************************************)
LEMMA PromiseStep ==
  ASSUME IInv, SnapInv, InsertedKept, RowInv, NEW r \in Req, Arrive(r) \/ Run(r)
  PROVE  [Promise!Next]_(Promise!vars)
<1>1. ASSUME ~Acknowledge(r) PROVE Acknowledged' = Acknowledged
  <2>1. \A s \in Req : resp'[s] = "created" => resp[s] = "created"
    BY <1>1, OnlyAcknowledge
  <2>. QED
    BY <2>1, AckKept DEF Acknowledged
<1>2. CASE Acknowledge(r)
  <2>1. /\ pc[r] = "acknowledge" /\ resp' = [resp EXCEPT ![r] = "created"]
        /\ UNCHANGED <<links, erased, clicks>>
    BY <1>2 DEF Acknowledge, Reply, dbVars, histVars
  <2>2. Acknowledged' = Acknowledged \cup {r}
    BY <2>1 DEF Acknowledged, IInv, TypeOK, RequestTypeOK
  <2>3. r \in Promise!Made
    BY <2>1, InsertedMade DEF Inserted
  <2>4. Promise!Tell(r)
    BY <2>1, <2>2, <2>3 DEF Promise!Tell
  <2>. QED
    BY <2>4 DEF Promise!Next
<1>3. CASE UNCHANGED <<links, erased, clicks>> /\ ~Acknowledge(r)
  BY <1>1, <1>3 DEF Promise!vars
<1>4. CASE /\ Visits(r) /\ UNCHANGED <<links, erased>>
           /\ clicks' = clicks \cup {[code |-> code[r], by |-> r]}
  <2>1. code[r] \in Code /\ links[code[r]] # NoLink
    BY <1>4 DEF Visits, CommitClick, InsertClickOK, IInv, StepOK
  <2>2. Acknowledged' = Acknowledged
    BY <1>1, <1>4 DEF Visits, CommitClick, Acknowledge
  <2>3. Promise!Visit(code[r], r)
    BY <1>4, <2>1, <2>2 DEF Promise!Visit
  <2>. QED
    BY <2>1, <2>3 DEF Promise!Next
<1>5. CASE /\ Inserts(r) /\ UNCHANGED <<erased, clicks>>
           /\ \E t \in {"url", "file"} : links' = [links EXCEPT ![code[r]] = [type |-> t, by |-> r]]
  <2>1. PICK t \in {"url", "file"} : links' = [links EXCEPT ![code[r]] = [type |-> t, by |-> r]]
    BY <1>5
  <2>2. code[r] \in Code /\ links[code[r]] = NoLink /\ pc[r] = "commit_link"
    BY <1>5 DEF Inserts, CommitLink, InsertLinkOK, IInv, StepOK
  <2>3. Acknowledged' = Acknowledged
    BY <1>1, <2>2 DEF Acknowledge
  <2>4. r \notin Promise!Made
    BY <2>2, InsertOnce
  <2>5. Promise!Create(code[r], [type |-> t, by |-> r])
    BY <1>5, <2>1, <2>2, <2>3, <2>4 DEF Promise!Create
  <2>6. [type |-> t, by |-> r] \in Promise!Link
    BY DEF Promise!Link
  <2>. QED
    BY <2>2, <2>5, <2>6 DEF Promise!Next
<1>6. CASE /\ Deletes(r)
           /\ links' = [links EXCEPT ![code[r]] = NoLink]
           /\ erased' = erased \cup {links[code[r]].by}
           /\ clicks' = {x \in clicks : x.code # code[r]}
  <2>1. code[r] \in Code /\ links[code[r]] # NoLink
    BY <1>6 DEF Deletes, CommitDelete, DeleteLinkOK, IInv, StepOK
  <2>2. Acknowledged' = Acknowledged
    BY <1>1, <1>6 DEF Deletes, CommitDelete, Acknowledge
  <2>3. Promise!Erase(code[r])
    BY <1>6, <2>1, <2>2 DEF Promise!Erase
  <2>. QED
    BY <2>1, <2>3 DEF Promise!Next
<1>. QED
  BY <1>2, <1>3, <1>4, <1>5, <1>6, LinksStep

LEMMA PromiseNext ==
  IInv /\ SnapInv /\ InsertedKept /\ RowInv /\ [Next]_vars => [Promise!Next]_(Promise!vars)
<1>. SUFFICES ASSUME IInv, SnapInv, InsertedKept, RowInv, [Next]_vars
              PROVE  [Promise!Next]_(Promise!vars)
  OBVIOUS
<1>1. CASE \E r \in Req : Arrive(r) \/ Run(r)
  BY <1>1, PromiseStep
<1>2. CASE Crash
  <2>1. UNCHANGED <<links, clicks, erased>>
    BY <1>2 DEF Crash, Close
  <2>2. Acknowledged' = Acknowledged
    BY <1>2 DEF Crash, Acknowledged, UnderWay, IInv, TypeOK, RequestTypeOK, StepOK
  <2>. QED
    BY <2>1, <2>2 DEF Promise!vars
<1>3. CASE UNCHANGED vars
  BY <1>3 DEF vars, dbVars, histVars, Promise!vars, Acknowledged
<1>. QED
  BY <1>1, <1>2, <1>3 DEF Next

(***************************************************************************)
(* Shortener implements LinkPromise: any number of requests, with crashes  *)
(* and failing calls between any two of their steps, look like one step    *)
(* per link created, told of, erased or visited; only a link that was made *)
(* is told of, and no request makes two.                                   *)
(***************************************************************************)
THEOREM ShortenerKeepsItsPromise == Spec => ImplementsLinkPromise
BY RowAlways, AckedInit, AckedNext, PromiseInit, PromiseNext, PTL
   DEF Spec, ImplementsLinkPromise, Promise!Spec

-----------------------------------------------------------------------------
(* Files. *)

(***************************************************************************)
(* Behind every row of type file is its file; it is there already when the *)
(* row is about to be inserted, and the row is gone when delete_file is    *)
(* about to remove the file.                                               *)
(***************************************************************************)
WrittenBeforeInsert ==
  \A r \in Req : pc[r] \in {"insert", "commit_link"} /\ kind[r] = "upload" =>
    files[PathOf(code[r], r)] = r

UnlinkedAfterDelete ==
  \A r \in Req : pc[r] = "unlink" =>
    links[code[r]] = NoLink \/ links[code[r]].by # seen[r].by

FileInv == FileBehindLink /\ WrittenBeforeInsert /\ UnlinkedAfterDelete

(* Which actions change the upload directory. *)
LEMMA FilesStep ==
  ASSUME NEW r \in Req, Arrive(r) \/ Run(r)
  PROVE  files' = files \/ OpenFile(r) \/ WriteFile(r) \/ CleanUpFile(r) \/ RemoveFile(r)
BY DEF Arrive, HandleRequest, ServicesFail, RejectInput, Run, DrawFreeCode,
   DrawUncheckedCode, DrawTakenCode, WriteFileFails, StartWrite, InsertRefused, ClickRefused,
   DeleteRefused, CommitLink, CommitClick, CommitDelete, ResolveCode, CheckExists, GetFilePath,
   GetFileMetadata, QueryFails, Acknowledge, ServeFile, ReadFile, ServeFails, CountTotal, CountDaily, CountFails,
   RemoveFails, DestroyHandler

(* The row that delete_file goes by is that of an upload which is through. *)
LEMMA UnlinkOfUpload ==
  ASSUME IInv, SnapInv, RowInv, NEW r \in Req, pc[r] = "unlink"
  PROVE  /\ seen[r].by \in Req /\ kind[seen[r].by] = "upload" /\ Through(seen[r].by)
         /\ code[seen[r].by] = code[r]
<1>1. seen[r] \in Link /\ seen[r] # NoLink /\ seen[r].type = "file"
  BY LinkDbAssumption DEF IInv, StepOK, SnapInv, PathOK
<1>. QED
  BY <1>1 DEF RowInv, Owned, Link

(***************************************************************************)
(* The file of upload u stays, but for the steps that u makes itself and   *)
(* for a delete_file of u's own link: no other path has u's name.          *)
(***************************************************************************)
LEMMA FileKept ==
  ASSUME DistinctUploads, IInv, SnapInv, RowInv,
         NEW r \in Req, Arrive(r) \/ Run(r),
         NEW u \in Req, kind[u] = "upload", NEW c \in Code,
         u = r => pc[r] \notin {"open_file", "write_file", "cleanup"},
         pc[r] = "unlink" => code[r] # c \/ seen[r].by # u
  PROVE  files'[PathOf(c, u)] = files[PathOf(c, u)]
<1>0. files \in [Path -> Content] /\ PathOf(c, u) \in Path
  BY ShortenerAssumption DEF IInv, TypeOK, RequestTypeOK, Path, PathOf
<1>1. CASE OpenFile(r) \/ WriteFile(r) \/ CleanUpFile(r)
  <2>1. pc[r] \in {"open_file", "write_file", "cleanup"} /\ r # u
    BY <1>1 DEF OpenFile, WriteFile, CleanUpFile
  <2>2. NameOf[r] # NameOf[u]
    BY <2>1 DEF DistinctUploads, RowInv, SnapInv, PathOK
  <2>3. PathOf(code[r], r) # PathOf(c, u)
    BY <2>2 DEF PathOf
  <2>. QED
    BY <1>0, <1>1, <2>3 DEF OpenFile, WriteFile, CleanUpFile
<1>2. CASE RemoveFile(r)
  <2>1. pc[r] = "unlink"
    BY <1>2 DEF RemoveFile
  <2>2. code[r] # c \/ NameOf[seen[r].by] # NameOf[u]
    BY <2>1, UnlinkOfUpload DEF DistinctUploads, RowInv
  <2>3. SeenPath(r) # PathOf(c, u)
    BY <2>2 DEF SeenPath, PathOf
  <2>. QED
    BY <1>0, <1>2, <2>3 DEF RemoveFile
<1>3. CASE files' = files
  BY <1>3
<1>. QED
  BY <1>1, <1>2, <1>3, FilesStep

LEMMA FileStep ==
  ASSUME DistinctUploads, IInv, SnapInv, RowInv, FileInv, NEW r \in Req, Arrive(r) \/ Run(r)
  PROVE  FileInv'
<1>0. \A s \in Req : Through(s) => pc[s] \in {"acknowledge"} \cup Over
  BY DEF Through
<1>1. CameFrom(r)
  BY CameFromStep
<1>2. ASSUME NEW c \in Code, links'[c] # NoLink, links'[c].type = "file"
      PROVE  files'[PathOf(c, links'[c].by)] = links'[c].by
  <2>1. CASE links'[c] = links[c]
    <3>. DEFINE u == links[c].by
    <3>1. files[PathOf(c, u)] = u
      BY <1>2, <2>1 DEF FileInv, FileBehindLink
    <3>2. u \in Req /\ kind[u] = "upload" /\ Through(u)
      BY <1>2, <2>1 DEF RowInv, Owned, IInv, TypeOK, DbTypeOK, Link
    <3>3. pc[r] = "unlink" => code[r] # c \/ seen[r].by # u
      BY <1>2, <2>1 DEF FileInv, UnlinkedAfterDelete
    <3>4. u = r => pc[r] \notin {"open_file", "write_file", "cleanup"}
      BY <1>0, <3>2
    <3>. HIDE DEF u
    <3>5. files'[PathOf(c, u)] = u
      BY <3>1, <3>2, <3>3, <3>4, FileKept
    <3>. QED
      BY <2>1, <3>5 DEF u
  <2>2. CASE Inserts(r) /\ c = code[r]
    <3>1. links'[c] = [type |-> IF kind[r] = "upload" THEN "file" ELSE "url", by |-> r]
      BY <2>2, InsertOwned DEF IInv, TypeOK, DbTypeOK
    <3>2. pc[r] = "commit_link" /\ kind[r] = "upload" /\ files' = files
      BY <1>2, <2>2, <3>1 DEF Inserts, CommitLink
    <3>. QED
      BY <2>2, <3>1, <3>2 DEF FileInv, WrittenBeforeInsert
  <2>3. links'[c] = links[c] \/ (Inserts(r) /\ c = code[r])
    BY <1>2, LinksStep DEF IInv, TypeOK, DbTypeOK
  <2>. QED
    BY <2>1, <2>2, <2>3
<1>3. ASSUME NEW s \in Req, pc'[s] \in {"insert", "commit_link"}, kind'[s] = "upload"
      PROVE  files'[PathOf(code'[s], s)] = s
  <2>0. kind[s] = "upload"
    BY <1>1, <1>3 DEF CameFrom
  <2>1. CASE s # r
    <3>1. pc[s] \in {"insert", "commit_link"} /\ code'[s] = code[s]
      BY <1>3, <2>1, FrameStep
    <3>2. files[PathOf(code[s], s)] = s /\ code[s] \in Code
      BY <2>0, <3>1 DEF FileInv, WrittenBeforeInsert, IInv, StepOK
    <3>3. pc[r] = "unlink" => seen[r].by # s
      BY <1>0, <3>1, UnlinkOfUpload
    <3>. QED
      BY <2>0, <2>1, <3>1, <3>2, <3>3, FileKept
  <2>2. CASE s = r /\ WriteFile(r)
    BY <2>2, ShortenerAssumption
       DEF WriteFile, callVars, Path, PathOf, IInv, TypeOK, RequestTypeOK, StepOK
  <2>3. CASE s = r /\ StartWrite(r)
    <3>1. pc[r] = "insert" /\ files' = files /\ code' = code
      BY <1>3, <2>3 DEF StartWrite, CommitStep, GoTo, callVars, IInv, TypeOK, RequestTypeOK
    <3>. QED
      BY <2>0, <2>3, <3>1 DEF FileInv, WrittenBeforeInsert
  <2>4. CASE s = r /\ (DrawFreeCode(r) \/ DrawUncheckedCode(r))
    BY <1>3, <2>0, <2>4
       DEF DrawFreeCode, DrawUncheckedCode, AfterDraw, GoTo, IInv, TypeOK, RequestTypeOK
  <2>. QED
    BY <1>1, <1>3, <2>1, <2>2, <2>3, <2>4 DEF CameFrom
<1>4. ASSUME NEW s \in Req, pc'[s] = "unlink"
      PROVE  links'[code'[s]] = NoLink \/ links'[code'[s]].by # seen'[s].by
  <2>1. CASE s # r
    <3>1. pc[s] = "unlink" /\ code'[s] = code[s] /\ seen'[s] = seen[s]
      BY <1>4, <2>1, FrameStep
    <3>2. code[s] \in Code /\ (links[code[s]] = NoLink \/ links[code[s]].by # seen[s].by)
      BY <3>1 DEF FileInv, UnlinkedAfterDelete, IInv, StepOK
    <3>3. CASE Inserts(r) /\ code[r] = code[s]
      <4>0. links'[code[s]] = [type |-> IF kind[r] = "upload" THEN "file" ELSE "url", by |-> r]
        BY <3>2, <3>3, InsertOwned DEF IInv, TypeOK, DbTypeOK
      <4>1. links'[code[s]].by = r
        BY <4>0
      <4>2. r # seen[s].by
        BY <1>0, <3>1, <3>3, UnlinkOfUpload DEF Inserts, CommitLink
      <4>. QED
        BY <3>1, <4>1, <4>2
    <3>4. links'[code[s]] \in {links[code[s]], NoLink} \/ (Inserts(r) /\ code[r] = code[s])
      BY <3>2, LinksStep DEF IInv, TypeOK, DbTypeOK
    <3>. QED
      BY <3>1, <3>2, <3>3, <3>4
  <2>2. CASE s = r
    <3>1. CommitDelete(r) /\ code' = code
      BY <1>1, <1>4, <2>2 DEF CameFrom, CommitDelete, callVars
    <3>2. DeleteLinkOK(code[r]) /\ code[r] \in Code
      BY <1>4, <2>2, <3>1 DEF CommitDelete, Reply, IInv, StepOK, TypeOK, RequestTypeOK
    <3>. QED
      BY <2>2, <3>1, <3>2 DEF CommitDelete, DeleteLink, Commit, IInv, TypeOK, DbTypeOK
  <2>. QED
    BY <2>1, <2>2
<1>. QED
  BY <1>2, <1>3, <1>4 DEF FileInv, FileBehindLink, WrittenBeforeInsert, UnlinkedAfterDelete, PathOf

LEMMA FileNext ==
  ASSUME DistinctUploads, IInv, SnapInv, RowInv, FileInv, [Next]_vars
  PROVE  FileInv'
<1>. USE DEF FileInv, FileBehindLink, WrittenBeforeInsert, UnlinkedAfterDelete, PathOf
<1>1. CASE \E r \in Req : Arrive(r) \/ Run(r)
  BY <1>1, FileStep
<1>2. CASE Crash
  BY <1>2 DEF Crash, Close, IInv, TypeOK, RequestTypeOK
<1>3. CASE UNCHANGED vars
  BY <1>3 DEF vars, dbVars, callVars
<1>. QED
  BY <1>1, <1>2, <1>3 DEF Next

(***************************************************************************)
(* Behind every row of type file is the complete file that its request     *)
(* uploaded: through failed uploads, deletions and crashes, however many   *)
(* requests draw the same code, as long as no two upload the same name.    *)
(***************************************************************************)
THEOREM FilesAreBehindTheirLinks ==
  ASSUME DistinctUploads
  PROVE  Spec => []FileBehindLink
<1>1. Init => FileInv
  BY DEF Init, DbInit, FileInv, FileBehindLink, WrittenBeforeInsert, UnlinkedAfterDelete
<1>2. IInv /\ SnapInv /\ RowInv /\ FileInv /\ [Next]_vars => FileInv'
  BY FileNext
<1>3. FileInv => FileBehindLink
  BY DEF FileInv
<1>. QED
  BY <1>1, <1>2, <1>3, RowAlways, PTL DEF Spec

-----------------------------------------------------------------------------
(* Visitors. *)

(* r asked for the link of s, which was acknowledged by then and is there. *)
Asked(r, s) ==
  /\ s \in before[r] /\ kind[r] = "redirect" /\ r \notin faulted
  /\ code[r] = code[s] /\ s \notin erased

(***************************************************************************)
(* A visitor who asked for the link of s has found the row of s by the     *)
(* time it needs one, and was served accordingly in the end.               *)
(***************************************************************************)
OnTheWay(r, s) ==
  /\ pc[r] \in {"exists", "metadata", "click", "commit_click", "serve", "read"} => seen[r].by = s
  /\ pc[r] = "lookup" => kind[s] = "upload"
  /\ pc[r] \in Over => resp[r] = "cut" \/ Visited(r, s)

(* get_link runs on a connection that has no query open. *)
FreshDb(r) ==
  /\ pc[r] \in {"idle", "resolve"} => \A v \in Service : open[<<r, v>>] = {}
  /\ pc[r] = "lookup" /\ kind[r] = "redirect" => open[<<r, "file">>] = {}

VisitInv ==
  /\ \A r \in Req : FreshDb(r)
  /\ \A r \in Req : pc[r] = "idle" => before[r] = {}
  /\ \A r \in Req : \A s \in before[r] : resp[s] = "created" /\ (Asked(r, s) => OnTheWay(r, s))

LEMMA VisitInit == Init => VisitInv
BY DEF Init, DbInit, VisitInv, FreshDb, Conn, Service

(* A connection stays free of queries until its request uses it. *)
LEMMA FreshStep ==
  ASSUME IInv, SnapInv, NEW r \in Req, Arrive(r) \/ Run(r), NEW s \in Req, FreshDb(s)
  PROVE  FreshDb(s)'
<1>. USE DEF FreshDb
<1>0. \A v \in Service : <<s, v>> \in Conn
  BY DEF Conn
<1>1. CASE s # r
  <2>1. \A v \in Service : open'[<<s, v>>] = open[<<s, v>>]
    <3>1. \A v \in Service : <<s, v>> # Db(r) /\ <<s, v>> \notin {r} \X Service
      BY <1>1 DEF Db
    <3>. QED
      BY <1>0, <3>1, DbConn, DbCallStep, CallOfOther DEF Close, IInv, TypeOK
  <2>2. pc'[s] = pc[s] /\ kind' = kind
    BY <1>1, FrameStep
  <2>. QED
    BY <2>1, <2>2 DEF Service
<1>2. CASE s = r
  <2>1. CameFrom(r)
    BY CameFromStep
  <2>2. CASE HandleRequest(r)
    <3>1. pc[r] = "idle" /\ open' = open
      BY <2>2 DEF HandleRequest, dbVars
    <3>. QED
      BY <1>2, <2>1, <3>1 DEF CameFrom, Service
  <2>3. CASE ResolveCode(r) /\ pc'[r] = "lookup"
    <3>1. pc[r] = "resolve" /\ Db(r) = <<r, "url">>
      BY <2>3 DEF ResolveCode, SnapInv, PathOK, Db, ServiceOf, UsesFileService
    <3>2. <<r, "file">> # Db(r)
      BY <3>1
    <3>3. DbCall(Db(r))
      BY <2>3, DbCallStep DEF ResolveCode, DestroyHandler
    <3>4. open'[<<r, "file">>] = open[<<r, "file">>]
      BY <3>2, <3>3, DbConn, CallOfOther DEF IInv, TypeOK, Conn, Service
    <3>. QED
      BY <1>2, <2>3, <3>1, <3>4 DEF Service
  <2>4. CASE QueryFails(r) /\ pc'[r] = "lookup"
    <3>1. pc[r] = "resolve"
      BY <2>4 DEF QueryFails, AfterFailedQuery, GoTo, Reply, IInv, TypeOK, RequestTypeOK
    <3>2. Db(r) = <<r, "url">>
      BY <3>1 DEF SnapInv, PathOK, Db, ServiceOf, UsesFileService
    <3>3. <<r, "file">> # Db(r)
      BY <3>2
    <3>4. DbCall(Db(r))
      BY <3>1, DbCallStep DEF DestroyHandler
    <3>5. open'[<<r, "file">>] = open[<<r, "file">>]
      BY <3>3, <3>4, DbConn, CallOfOther DEF IInv, TypeOK, Conn, Service
    <3>. QED
      BY <1>2, <2>4, <3>1, <3>5 DEF Service
  <2>. QED
    BY <1>2, <2>1, <2>2, <2>3, <2>4 DEF CameFrom
<1>. QED
  BY <1>1, <1>2

(* The calls of a visitor. *)
LEMMA VisitorStep ==
  ASSUME SnapInv, NEW r \in Req, Arrive(r) \/ Run(r), kind[r] = "redirect"
  PROVE  \/ HandleRequest(r) \/ ServicesFail(r) \/ RejectInput(r)
         \/ ResolveCode(r) \/ CheckExists(r) \/ GetFilePath(r) \/ GetFileMetadata(r)
         \/ QueryFails(r) \/ StartWrite(r) \/ ClickRefused(r) \/ CommitClick(r)
         \/ ServeFile(r) \/ ReadFile(r) \/ ServeFails(r) \/ DestroyHandler(r)
BY DEF SnapInv, PathOK, Creator, Arrive, Run, DrawFreeCode, DrawUncheckedCode,
   DrawTakenCode, OpenFile, WriteFile, WriteFileFails, CleanUpFile, InsertRefused,
   DeleteRefused, CommitLink, Acknowledge, CommitDelete, CountTotal, CountDaily, CountFails,
   RemoveFile, RemoveFails

(* The row that such a visitor asks for is there, and its file too. *)
LEMMA AskedRow ==
  ASSUME IInv, RowInv, InsertedKept, FileInv, NEW r \in Req, NEW s \in Req,
         resp[s] = "created", code[r] = code[s], s \notin erased
  PROVE  /\ code[r] \in Code /\ links[code[r]] \in Link /\ links[code[r]] # NoLink
         /\ links[code[r]].by = s
         /\ links[code[r]].type = (IF kind[s] = "upload" THEN "file" ELSE "url")
         /\ kind[s] \in {"shorten", "upload"}
         /\ kind[s] = "upload" => files[PathOf(code[r], s)] = s
<1>1. code[s] \in Code /\ links[code[s]] # NoLink /\ links[code[s]].by = s
  BY DEF InsertedKept, Inserted, IInv, StepOK
<1>2. links[code[s]] \in Link /\ Owned(links[code[s]], code[s])
  BY <1>1 DEF IInv, TypeOK, DbTypeOK, RowInv
<1>3. Creator(s) /\ (links[code[s]].type = "file" <=> kind[s] = "upload")
  BY <1>1, <1>2 DEF Owned
<1>4. links[code[s]].type \in {"url", "file"}
  BY <1>2 DEF Link
<1>. QED
  BY <1>1, <1>2, <1>3, <1>4 DEF Creator, FileInv, FileBehindLink

(* One step of the visitor itself. *)
LEMMA VisitOwn ==
  ASSUME IInv, SnapInv, RowInv, InsertedKept, FileInv, VisitInv,
         NEW r \in Req, Arrive(r) \/ Run(r), NEW s \in Req,
         resp[s] = "created", kind[r] = "redirect", pc[r] # "idle",
         code[r] = code[s], s \notin erased, r \notin faulted', s \in before[r],
         OnTheWay(r, s)
  PROVE  OnTheWay(r, s)'
<1>. USE DEF OnTheWay, IInv, TypeOK, RequestTypeOK, callVars, histVars, Visited
<1>. DEFINE k == Db(r)
            row == RowSeen(k, "get_link", code[r])
<1>0. /\ code[r] \in Code /\ links[code[r]] \in Link /\ links[code[r]] # NoLink
      /\ links[code[r]].by = s
      /\ links[code[r]].type = (IF kind[s] = "upload" THEN "file" ELSE "url")
      /\ kind[s] \in {"shorten", "upload"}
      /\ kind[s] = "upload" => files[PathOf(code[r], s)] = s
  BY AskedRow
<1>1. kind' = kind /\ pc[r] \in Step
  BY CameFromStep DEF CameFrom
<1>2. CASE ResolveCode(r)
  <2>0. Db(r) = <<r, "url">>
    BY <1>2 DEF ResolveCode, SnapInv, PathOK, Db, ServiceOf, UsesFileService
  <2>1. open[Db(r)] = {}
    <3>1. FreshDb(r) /\ pc[r] = "resolve" /\ "url" \in Service
      BY <1>2 DEF ResolveCode, VisitInv, Service
    <3>2. open[<<r, "url">>] = {}
      BY <3>1 DEF FreshDb
    <3>. QED
      BY <2>0, <3>2
  <2>2. row = links[code[r]]
    BY <2>1 DEF RowSeen, Sees, StillOpen, Newest
  <2>3. CASE kind[s] = "upload"
    BY <1>0, <1>1, <1>2, <2>2, <2>3 DEF ResolveCode, GoTo
  <2>4. CASE kind[s] = "shorten"
    BY <1>0, <1>1, <1>2, <2>2, <2>4 DEF ResolveCode, GoTo
  <2>. QED
    BY <1>0, <2>3, <2>4
<1>3. CASE GetFilePath(r)
  <2>1. Db(r) = <<r, "file">> /\ open[Db(r)] = {}
    BY <1>3 DEF GetFilePath, Db, ServiceOf, UsesFileService, VisitInv, FreshDb
  <2>2. row = links[code[r]]
    BY <2>1 DEF RowSeen, Sees, StillOpen, Newest
  <2>3. kind[s] = "upload"
    BY <1>3 DEF GetFilePath
  <2>. QED
    BY <1>0, <1>1, <1>3, <2>2, <2>3 DEF GetFilePath, GoTo
<1>4. pc[r] \in {"exists", "metadata", "click", "commit_click", "serve", "read"} =>
        (seen[r].type = "file" <=> kind[s] = "upload")
  <2>. SUFFICES ASSUME pc[r] \in {"exists", "metadata", "click", "commit_click", "serve", "read"}
                PROVE  seen[r].type = "file" <=> kind[s] = "upload"
    OBVIOUS
  <2>1. seen[r] \in Link /\ seen[r] # NoLink /\ seen[r].by = s
    BY LinkDbAssumption DEF StepOK
  <2>. QED
    BY <2>1 DEF RowInv, Owned
<1>5. pc[r] \in {"click", "commit_click"} => seen[r].type \in {"url", "file"}
  BY DEF StepOK, Link
<1>6. CASE CheckExists(r)
  <2>1. seen[r].type = "url"
    BY <1>6 DEF CheckExists, SnapInv, PathOK
  <2>. QED
    BY <1>0, <1>1, <1>4, <1>6, <2>1 DEF CheckExists, GoTo, Reply
<1>7. CASE GetFileMetadata(r)
  BY <1>1, <1>7 DEF GetFileMetadata, GoTo
<1>8. CASE QueryFails(r)
  BY <1>8 DEF QueryFails, Fault
<1>9. CASE StartWrite(r)
  BY <1>1, <1>9 DEF StartWrite, CommitStep, GoTo
<1>10. CASE ClickRefused(r) \/ CommitClick(r)
  <2>1. CASE seen[r].type = "url"
    BY <1>0, <1>1, <1>4, <1>10, <2>1 DEF ClickRefused, CommitClick, ClickDone, Reply
  <2>2. CASE seen[r].type = "file"
    BY <1>0, <1>1, <1>10, <2>2 DEF ClickRefused, CommitClick, ClickDone, GoTo
  <2>. QED
    BY <1>5, <1>10, <2>1, <2>2 DEF ClickRefused, CommitClick
<1>11. pc[r] \in {"serve", "read"} =>
         kind[s] = "upload" /\ files[SeenPath(r)] = s /\ s # NoFile
  BY <1>0, <1>4, ShortenerAssumption DEF SnapInv, PathOK, SeenPath
<1>12. CASE ServeFile(r)
  BY <1>1, <1>11, <1>12 DEF ServeFile, GoTo
<1>13. CASE ReadFile(r)
  BY <1>1, <1>11, <1>13 DEF ReadFile, Reply
<1>14. CASE DestroyHandler(r)
  BY <1>1, <1>14 DEF DestroyHandler
<1>15. CASE ServeFails(r)
  BY <1>15 DEF ServeFails, Fault
<1>. QED
  BY <1>2, <1>3, <1>6, <1>7, <1>8, <1>9, <1>10, <1>12, <1>13, <1>14, <1>15, VisitorStep
     DEF HandleRequest, ServicesFail, RejectInput

(* Faults and deletions are not forgotten. *)
LEMMA HistoryGrows ==
  ASSUME IInv, NEW r \in Req, Arrive(r) \/ Run(r)
  PROVE  /\ erased \subseteq erased' /\ faulted \subseteq faulted'
         /\ before'[r] = before[r] \/ HandleRequest(r)
BY DEF histVars, Arrive, HandleRequest, ServicesFail, RejectInput, Run, DrawFreeCode,
   DrawUncheckedCode, DrawTakenCode, OpenFile, WriteFile, WriteFileFails, CleanUpFile,
   StartWrite, InsertRefused, ClickRefused, DeleteRefused, CommitLink, CommitClick,
   CommitDelete, ResolveCode, CheckExists, GetFilePath, GetFileMetadata, QueryFails,
   Acknowledge, ServeFile, ReadFile, ServeFails, CountTotal, CountDaily, CountFails,
   RemoveFile, RemoveFails, DestroyHandler, Fault

LEMMA VisitNext ==
  ASSUME IInv, SnapInv, RowInv, InsertedKept, FileInv, VisitInv, [Next]_vars
  PROVE  VisitInv'
<1>1. ASSUME NEW r \in Req, Arrive(r) \/ Run(r) PROVE VisitInv'
  <2>1. \A v \in Req : FreshDb(v)'
    BY <1>1, FreshStep DEF VisitInv
  <2>2. ASSUME NEW v \in Req, pc'[v] = "idle" PROVE before'[v] = {}
    BY <1>1, <2>2, FrameStep, CameFromStep DEF CameFrom, VisitInv
  <2>3. ASSUME NEW v \in Req, NEW s \in before'[v]
        PROVE  s \in Req /\ resp'[s] = "created" /\ (Asked(v, s)' => OnTheWay(v, s)')
    <3>1. CASE v = r /\ HandleRequest(r)
      <4>1. s \in Req /\ resp'[s] = "created"
        BY <2>3, <3>1 DEF HandleRequest, Acknowledged, GoTo, IInv, TypeOK, RequestTypeOK
      <4>2. kind[r] = "redirect" => pc'[r] = "resolve"
        BY <3>1 DEF HandleRequest, GoTo, FirstCall, IInv, TypeOK, RequestTypeOK
      <4>. QED
        BY <3>1, <4>1, <4>2 DEF HandleRequest, Asked, OnTheWay
    <3>2. CASE v # r \/ ~HandleRequest(r)
      <4>1. s \in before[v] /\ s \in Req /\ resp[s] = "created"
        BY <1>1, <2>3, <3>2, FrameStep, HistoryGrows DEF VisitInv, IInv, TypeOK, RequestTypeOK
      <4>2. resp'[s] = "created" /\ code'[s] = code[s] /\ kind' = kind
        BY <1>1, <4>1, CreatedStays, CameFromStep DEF Next, CameFrom
      <4>. SUFFICES ASSUME Asked(v, s)' PROVE OnTheWay(v, s)'
        BY <4>1, <4>2
      <4>3. kind[v] = "redirect" /\ v \notin faulted /\ v \notin faulted' /\ s \notin erased
        BY <1>1, <4>2, HistoryGrows DEF Asked
      <4>4. CASE v # r
        <5>1. /\ pc'[v] = pc[v] /\ code'[v] = code[v] /\ seen'[v] = seen[v]
              /\ served'[v] = served[v] /\ resp'[v] = resp[v]
          BY <1>1, <4>4, FrameStep
        <5>2. Asked(v, s)
          BY <4>1, <4>2, <4>3, <5>1 DEF Asked
        <5>. QED
          BY <4>1, <4>2, <5>1, <5>2 DEF VisitInv, OnTheWay, Visited
      <4>5. CASE v = r
        <5>1. pc[r] # "idle"
          BY <4>1, <4>5 DEF VisitInv
        <5>2. code'[r] = code[r]
          BY <1>1, <3>2, <4>3, <4>5, VisitorStep
             DEF ServicesFail, RejectInput, ResolveCode, CheckExists, GetFilePath,
                 GetFileMetadata, QueryFails, StartWrite, ClickRefused, CommitClick,
                 ServeFile, ReadFile, ServeFails, DestroyHandler, callVars
        <5>3. Asked(r, s)
          BY <4>1, <4>2, <4>3, <4>5, <5>2 DEF Asked
        <5>. QED
          BY <1>1, <4>1, <4>3, <4>5, <5>1, <5>3, VisitOwn DEF Asked, VisitInv
      <4>. QED
        BY <4>4, <4>5
    <3>. QED
      BY <3>1, <3>2
  <2>. QED
    BY <2>1, <2>2, <2>3 DEF VisitInv
<1>2. CASE Crash
  <2>1. \A r \in Req : FreshDb(r)'
    BY <1>2 DEF Crash, Close, FreshDb, Conn, Service, IInv, TypeOK, RequestTypeOK
  <2>2. ASSUME NEW r \in Req, pc'[r] = "idle" PROVE before'[r] = {}
    BY <1>2, <2>2 DEF Crash, VisitInv, IInv, TypeOK, RequestTypeOK
  <2>3. ASSUME NEW r \in Req, NEW s \in before'[r]
        PROVE  resp'[s] = "created" /\ (Asked(r, s)' => OnTheWay(r, s)')
    <3>1. s \in Req /\ s \in before[r] /\ resp[s] = "created" /\ resp'[s] = "created"
      BY <1>2, <2>3, CreatedStays DEF Crash, VisitInv, IInv, TypeOK, RequestTypeOK
    <3>2. pc[r] # "idle" /\ (Asked(r, s)' => Asked(r, s))
      BY <1>2, <3>1 DEF Crash, callVars, VisitInv, Asked
    <3>3. pc'[r] = "done" /\ (pc[r] \notin Over => resp'[r] = "cut")
          /\ (pc[r] \in Over => resp'[r] = resp[r])
      BY <1>2, <3>2 DEF Crash, UnderWay, IInv, TypeOK, RequestTypeOK
    <3>. QED
      BY <1>2, <3>1, <3>2, <3>3 DEF Crash, callVars, VisitInv, OnTheWay, Visited
  <2>. QED
    BY <2>1, <2>2, <2>3 DEF VisitInv
<1>3. CASE UNCHANGED vars
  BY <1>3 DEF vars, dbVars, callVars, histVars, VisitInv, FreshDb, Asked, OnTheWay, Visited
<1>. QED
  BY <1>1, <1>2, <1>3 DEF Next

(***************************************************************************)
(* Whoever asks for a link that was acknowledged before gets it: the URL   *)
(* that was shortened, or the complete file that was uploaded, unless a    *)
(* call of its own fails, a crash cuts it off or the link is deleted.      *)
(***************************************************************************)
THEOREM AcknowledgedLinksAreServed ==
  ASSUME DistinctUploads
  PROVE  Spec => []AckedLinkServed
<1>. DEFINE Inv == InsertedKept /\ FileInv /\ VisitInv
<1>1. Init => Inv
  BY VisitInit, AckedInit
     DEF Init, DbInit, FileInv, FileBehindLink, WrittenBeforeInsert, UnlinkedAfterDelete
<1>2. IInv /\ SnapInv /\ RowInv /\ Inv /\ [Next]_vars => Inv'
  BY AckedNext, FileNext, VisitNext
<1>3. IInv /\ SnapInv /\ Inv => AckedLinkServed
  <2>. SUFFICES ASSUME IInv, SnapInv, VisitInv, NEW r \in Req, NEW s \in before[r],
                       kind[r] = "redirect", resp[r] \notin {"none", "cut"}, r \notin faulted,
                       code[r] = code[s], s \notin erased
                PROVE  Visited(r, s)
    BY DEF AckedLinkServed
  <2>1. pc[r] \in Over /\ Asked(r, s)
    BY DEF SnapInv, PathOK, Asked
  <2>. QED
    BY <2>1 DEF VisitInv, OnTheWay
<1>. QED
  BY <1>1, <1>2, <1>3, RowAlways, PTL DEF Spec

-----------------------------------------------------------------------------
(* What the routes of the handler leave, none of which deletes. *)

(* Rows are there for good. *)
LEMMA RowsGrow ==
  ASSUME RoutesOnly, IInv, SnapInv, RowInv, NEW r \in Req, Arrive(r) \/ Run(r),
         NEW c \in Code, links[c] # NoLink
  PROVE  links'[c] = links[c]
<1>1. ~Deletes(r)
  BY DEF Deletes, CommitDelete, RoutesOnly, RowInv, SnapInv, PathOK
<1>2. Inserts(r) => links[code[r]] = NoLink
  BY DEF Inserts, InsertLinkOK
<1>. QED
  BY <1>1, <1>2, LinksStep DEF IInv, TypeOK, DbTypeOK

(* So is the row of type file that a visitor has read. *)
RowHeld(r) ==
  pc[r] \in {"metadata", "click", "commit_click", "serve", "read"} /\ seen[r].type = "file" =>
    links[code[r]] = seen[r]

RowsHeld == \A r \in Req : RowHeld(r)

LEMMA RowsHeldNext ==
  ASSUME RoutesOnly, IInv, SnapInv, RowInv, VisitInv, RowsHeld, [Next]_vars
  PROVE  RowsHeld'
<1>1. ASSUME NEW r \in Req, Arrive(r) \/ Run(r), NEW s \in Req,
             pc'[s] \in {"metadata", "click", "commit_click", "serve", "read"},
             seen'[s].type = "file"
      PROVE  links'[code'[s]] = seen'[s]
  <2>1. ASSUME pc[s] \in {"metadata", "click", "commit_click", "serve", "read"},
               code'[s] = code[s], seen'[s] = seen[s]
        PROVE  links'[code'[s]] = seen'[s]
    <3>1. code[s] \in Code /\ seen[s] \in Link /\ links[code[s]] = seen[s]
      BY <1>1, <2>1 DEF IInv, StepOK, RowsHeld, RowHeld
    <3>2. links[code[s]] # NoLink
      BY <3>1, LinkDbAssumption
    <3>. QED
      BY <1>1, <2>1, <3>1, <3>2, RowsGrow
  <2>2. CASE s # r
    BY <1>1, <2>1, <2>2, FrameStep
  <2>3. CASE s = r /\ GetFilePath(r)
    <3>1. kind[r] = "redirect" /\ pc[r] = "lookup"
      BY <1>1, <2>3, CameFromStep
         DEF GetFilePath, GoTo, Reply, RoutesOnly, RowInv, SnapInv, PathOK
    <3>2. Db(r) = <<r, "file">> /\ open[Db(r)] = {}
      BY <3>1 DEF VisitInv, FreshDb, Db, ServiceOf, UsesFileService
    <3>3. RowSeen(Db(r), "get_link", code[r]) = links[code[r]]
      BY <3>2 DEF RowSeen, Sees, StillOpen, Newest
    <3>4. UNCHANGED <<links, code>>
      BY <2>3 DEF GetFilePath, RunQuery
    <3>5. seen'[r] = links[code[r]]
      BY <1>1, <2>3, <3>3 DEF GetFilePath, Reply, IInv, TypeOK, RequestTypeOK
    <3>. QED
      BY <2>3, <3>4, <3>5
  <2>4. CASE s = r /\ CheckExists(r)
    BY <1>1, <2>4 DEF CheckExists, callVars, SnapInv, PathOK
  <2>5. CASE s = r /\ ~GetFilePath(r) /\ ~CheckExists(r)
    <3>1. \/ GetFileMetadata(r) \/ StartWrite(r) \/ ClickRefused(r) \/ CommitClick(r)
          \/ QueryFails(r) \/ ServeFile(r)
      BY <1>1, <2>5, CameFromStep DEF CameFrom
    <3>2. code' = code /\ seen' = seen
      BY <3>1 DEF GetFileMetadata, StartWrite, ClickRefused, CommitClick, QueryFails,
         ServeFile, callVars
    <3>3. StartWrite(r) => pc[r] = "click"
      BY <1>1, <2>5 DEF StartWrite, CommitStep, GoTo, IInv, TypeOK, RequestTypeOK
    <3>4. QueryFails(r) => pc[r] = "metadata"
      BY <1>1, <2>5 DEF QueryFails, AfterFailedQuery, GoTo, Reply, IInv, TypeOK, RequestTypeOK
    <3>5. pc[r] \in {"metadata", "click", "commit_click", "serve", "read"}
      BY <3>1, <3>3, <3>4 DEF GetFileMetadata, ClickRefused, CommitClick, ServeFile
    <3>. QED
      BY <2>1, <2>5, <3>2, <3>5
  <2>. QED
    BY <2>2, <2>3, <2>4, <2>5
<1>2. CASE \E r \in Req : Arrive(r) \/ Run(r)
  BY <1>1, <1>2 DEF RowsHeld, RowHeld
<1>3. CASE Crash
  BY <1>3 DEF Crash, RowsHeld, RowHeld, IInv, TypeOK, RequestTypeOK
<1>4. CASE UNCHANGED vars
  BY <1>4 DEF vars, dbVars, callVars, RowsHeld, RowHeld
<1>. QED
  BY <1>2, <1>3, <1>4 DEF Next

LEMMA CountedNext ==
  ASSUME IInv, SnapInv, RowInv, ClickInv, FileInv, RowsHeld, CountedWasServed, [Next]_vars,
         NEW x \in clicks'
  PROVE  resp'[x.by] \in {"none", "cut", "redirect", "file"} \/ ServingFailed(x.by)'
<1>. USE DEF CountedWasServed, ServingFailed
<1>1. ASSUME NEW r \in Req, Arrive(r) \/ Run(r)
      PROVE  resp'[x.by] \in {"none", "cut", "redirect", "file"} \/ ServingFailed(x.by)'
  <2>1. x \in clicks \/ (Visits(r) /\ x = [code |-> code[r], by |-> r])
    BY <1>1, LinksStep
  <2>2. CASE Visits(r) /\ x = [code |-> code[r], by |-> r]
    <3>1. resp'[r] = "redirect" \/ resp'[r] = resp[r]
      BY <2>2 DEF Visits, CommitClick, ClickDone, GoTo, Reply, IInv, TypeOK, RequestTypeOK
    <3>2. resp[r] = "none"
      BY <2>2 DEF Visits, CommitClick, SnapInv, PathOK, IInv, TypeOK, RequestTypeOK
    <3>. QED
      BY <2>2, <3>1, <3>2
  <2>3. CASE x \in clicks
    <3>1. /\ x.by \in Req /\ ClickOK(x)
          /\ resp[x.by] \in {"none", "cut", "redirect", "file"} \/ ServingFailed(x.by)
      BY <2>3 DEF ClickInv, IInv, TypeOK, DbTypeOK, Click
    <3>2. CASE x.by # r
      BY <1>1, <3>1, <3>2, FrameStep
    <3>3. CASE x.by = r
      <4>1. ServeFile(r) \/ ReadFile(r) \/ ServeFails(r) \/ DestroyHandler(r)
        BY <1>1, <3>1, <3>3, LateStep DEF ClickOK, Acknowledge
      <4>2. ASSUME pc[r] \in {"serve", "read"}
            PROVE  files[SeenPath(r)] # NoFile
        <5>1. seen[r] \in Link /\ seen[r].type = "file" /\ code[r] \in Code
          BY <4>2 DEF IInv, StepOK, SnapInv, PathOK
        <5>2. links[code[r]] = seen[r] /\ links[code[r]] # NoLink
          BY <4>2, <5>1, LinkDbAssumption DEF RowsHeld, RowHeld
        <5>3. files[SeenPath(r)] = seen[r].by
          BY <5>1, <5>2 DEF FileInv, FileBehindLink, SeenPath
        <5>. QED
          BY <5>1, <5>3, ShortenerAssumption DEF Link
      <4>3. CASE ServeFails(r)
        <5>1. seen[r].type = "file" /\ seen' = seen
          BY <4>3 DEF ServeFails, callVars, SnapInv, PathOK
        <5>. QED
          BY <3>1, <3>3, <4>3, <5>1 DEF ServeFails, Fault, Reply, IInv, TypeOK, RequestTypeOK
      <4>4. CASE ServeFile(r) \/ ReadFile(r)
        BY <3>1, <3>3, <4>2, <4>4
           DEF ServeFile, ReadFile, GoTo, Reply, SnapInv, PathOK, IInv, TypeOK, RequestTypeOK
      <4>5. CASE DestroyHandler(r)
        BY <3>1, <3>3, <4>5 DEF DestroyHandler, callVars, histVars
      <4>. QED
        BY <4>1, <4>3, <4>4, <4>5
    <3>. QED
      BY <3>2, <3>3
  <2>. QED
    BY <2>1, <2>2, <2>3
<1>2. CASE Crash
  BY <1>2 DEF Crash, Close, callVars, UnderWay, SnapInv, PathOK, IInv, TypeOK, DbTypeOK, RequestTypeOK, Click
<1>3. CASE UNCHANGED vars
  BY <1>3 DEF vars, dbVars, callVars, histVars
<1>. QED
  BY <1>1, <1>2, <1>3 DEF Next

(***************************************************************************)
(* A click that was counted belongs to a visitor who got the link, was cut *)
(* off by a crash, or met a failing disk when its file was to be read: no  *)
(* visitor is counted and then turned away for any other reason.           *)
(***************************************************************************)
THEOREM CountedVisitorsWereServed ==
  ASSUME DistinctUploads, RoutesOnly
  PROVE  Spec => []CountedWasServed
<1>. DEFINE Inv == InsertedKept /\ FileInv /\ VisitInv /\ RowsHeld /\ CountedWasServed
<1>1. Init => Inv
  BY VisitInit, AckedInit
     DEF Init, DbInit, FileInv, FileBehindLink, WrittenBeforeInsert, UnlinkedAfterDelete,
         RowsHeld, RowHeld, CountedWasServed
<1>2. IInv /\ SnapInv /\ RowInv /\ ClickInv /\ Inv /\ [Next]_vars => Inv'
  <2>. SUFFICES ASSUME IInv, SnapInv, RowInv, ClickInv, Inv, [Next]_vars PROVE Inv'
    OBVIOUS
  <2>1. CountedWasServed'
    BY CountedNext DEF CountedWasServed
  <2>. QED
    BY <2>1, AckedNext, FileNext, VisitNext, RowsHeldNext
<1>. QED
  BY <1>1, <1>2, RowAlways, ClickAlways, PTL DEF Spec

-----------------------------------------------------------------------------
(* Files that no row points to. *)

(***************************************************************************)
(* A file at path p without a row is that of an upload which is still      *)
(* under way, was cut off by a crash, or met a failing disk or database.   *)
(***************************************************************************)
Accounted(p) ==
  \/ Linked(p)
  \/ \E u \in Req :
       /\ kind[u] = "upload" /\ pc[u] \notin {"idle", "draw"} /\ PathOf(code[u], u) = p
       /\ \/ pc[u] \in {"write_file", "insert", "commit_link", "cleanup"}
          \/ resp[u] = "cut" \/ u \in faulted

LeftInv == \A p \in Path : files[p] # NoFile => Accounted(p)

(* The steps of an upload that is to account for its file. *)
LEMMA UploadStep ==
  ASSUME IInv, SnapInv, RowInv, NEW u \in Req, Arrive(u) \/ Run(u),
         kind[u] = "upload", pc[u] \notin {"idle", "draw"},
         NEW p \in Path, PathOf(code[u], u) = p, files'[p] # NoFile,
         \/ pc[u] \in {"write_file", "insert", "commit_link", "cleanup"}
         \/ resp[u] = "cut" \/ u \in faulted
  PROVE  Accounted(p)'
<1>. USE DEF IInv, TypeOK, RequestTypeOK, callVars, histVars
<1>1. /\ WriteFile(u) \/ WriteFileFails(u) \/ StartWrite(u) \/ InsertRefused(u) \/ CommitLink(u)
         \/ Acknowledge(u) \/ CleanUpFile(u) \/ RemoveFails(u) \/ DestroyHandler(u) \/ OpenFile(u)
  BY DEF SnapInv, PathOK, Arrive, HandleRequest, ServicesFail, RejectInput, Run,
     DrawFreeCode, DrawUncheckedCode, DrawTakenCode, ClickRefused, DeleteRefused, CommitClick,
     CommitDelete, ResolveCode, CheckExists, GetFilePath, GetFileMetadata, QueryFails,
     ServeFile, ReadFile, ServeFails, CountTotal, CountDaily, CountFails, RemoveFile
<1>2. code' = code /\ kind' = kind
  BY <1>1 DEF WriteFile, WriteFileFails, StartWrite, InsertRefused, CommitLink, Acknowledge,
     CleanUpFile, RemoveFails, DestroyHandler, OpenFile
<1>3. pc'[u] \notin {"idle", "draw"}
  BY <1>1 DEF WriteFile, WriteFileFails, StartWrite, CommitStep, InsertRefused, CommitLink,
     Acknowledge, LinkInserted, LinkNotInserted, CleanUpFile, RemoveFails, DestroyHandler, OpenFile, GoTo, Reply
<1>4. ASSUME pc'[u] \in {"write_file", "insert", "commit_link", "cleanup"}
             \/ resp'[u] = "cut" \/ u \in faulted'
      PROVE  Accounted(p)'
  BY <1>2, <1>3, <1>4 DEF Accounted, PathOf
<1>5. CASE u \in faulted
  BY <1>4, <1>5, HistoryGrows
<1>6. CASE OpenFile(u) \/ WriteFile(u)
  BY <1>4, <1>6 DEF OpenFile, WriteFile, GoTo
<1>7. CASE WriteFileFails(u) \/ RemoveFails(u)
  BY <1>4, <1>7 DEF WriteFileFails, RemoveFails, Fault
<1>8. CASE StartWrite(u)
  BY <1>4, <1>8 DEF StartWrite, CommitStep, GoTo, SnapInv, PathOK
<1>9. CASE InsertRefused(u)
  BY <1>4, <1>9 DEF InsertRefused, LinkNotInserted, GoTo
<1>10. CASE CommitLink(u)
  <2>1. CASE InsertLinkOK(code[u])
    <3>1. Inserts(u) /\ code[u] \in Code
      BY <1>10, <2>1 DEF Inserts, CommitLink, StepOK
    <3>2. links' = [links EXCEPT ![code[u]] =
                      [type |-> IF kind[u] = "upload" THEN "file" ELSE "url", by |-> u]]
      BY <3>1, InsertOwned
    <3>3. links'[code[u]] = [type |-> "file", by |-> u]
      BY <3>1, <3>2 DEF DbTypeOK
    <3>4. [type |-> "file", by |-> u] \in Link
      BY DEF Link
    <3>5. p[1] = code[u]
      BY DEF PathOf
    <3>6. Linked(p)'
      BY <3>3, <3>4, <3>5, LinkDbAssumption DEF Linked, PathOf
    <3>. QED
      BY <3>6 DEF Accounted
  <2>2. CASE ~InsertLinkOK(code[u])
    BY <1>4, <1>10, <2>2 DEF CommitLink, LinkNotInserted, GoTo
  <2>. QED
    BY <2>1, <2>2
<1>11. CASE CleanUpFile(u)
  BY <1>11 DEF CleanUpFile
<1>12. CASE DestroyHandler(u) \/ Acknowledge(u)
  BY <1>4, <1>5, <1>12 DEF DestroyHandler, Acknowledge, SnapInv, PathOK
<1>. QED
  BY <1>1, <1>6, <1>7, <1>8, <1>9, <1>10, <1>11, <1>12

LEMMA LeftNext ==
  ASSUME RoutesOnly, IInv, SnapInv, RowInv, LeftInv, [Next]_vars, NEW p \in Path,
         files'[p] # NoFile
  PROVE  Accounted(p)'
<1>1. ASSUME NEW r \in Req, Arrive(r) \/ Run(r) PROVE Accounted(p)'
  <2>1. CASE Linked(p)
    <3>1. p[1] \in Code
      BY DEF Path
    <3>2. links'[p[1]] = links[p[1]]
      BY <1>1, <2>1, <3>1, RowsGrow DEF Linked
    <3>3. Linked(p)'
      BY <2>1, <3>2 DEF Linked, PathOf
    <3>. QED
      BY <3>3 DEF Accounted
  <2>2. ASSUME NEW u \in Req, kind[u] = "upload", pc[u] \notin {"idle", "draw"},
               PathOf(code[u], u) = p,
               \/ pc[u] \in {"write_file", "insert", "commit_link", "cleanup"}
               \/ resp[u] = "cut" \/ u \in faulted
        PROVE  Accounted(p)'
    <3>1. CASE u = r
      BY <1>1, <2>2, <3>1, UploadStep
    <3>2. CASE u # r
      <4>1. /\ pc'[u] = pc[u] /\ code'[u] = code[u] /\ resp'[u] = resp[u] /\ kind' = kind
            /\ (u \in faulted' <=> u \in faulted)
        BY <1>1, <3>2, FrameStep
      <4>. QED
        BY <2>2, <4>1 DEF Accounted, PathOf
    <3>. QED
      BY <3>1, <3>2
  <2>3. CASE files[p] # NoFile
    BY <2>1, <2>2, <2>3 DEF LeftInv, Accounted
  <2>4. CASE files[p] = NoFile
    <3>1. (OpenFile(r) \/ WriteFile(r)) /\ PathOf(code[r], r) = p
      BY <1>1, <2>4, FilesStep DEF OpenFile, WriteFile, CleanUpFile, RemoveFile, IInv, TypeOK, RequestTypeOK
    <3>2. /\ pc'[r] \in {"write_file", "insert"} /\ code' = code /\ kind' = kind
          /\ kind[r] = "upload"
      BY <3>1 DEF OpenFile, WriteFile, GoTo, callVars, SnapInv, PathOK, IInv, TypeOK, RequestTypeOK
    <3>. QED
      BY <3>1, <3>2 DEF Accounted, PathOf
  <2>. QED
    BY <2>3, <2>4
<1>2. CASE Crash
  <2>1. /\ UNCHANGED <<files, links, kind, code, faulted>>
        /\ \A u \in Req : pc[u] # "idle" => pc'[u] = "done"
                          /\ (pc[u] \notin Over => resp'[u] = "cut")
                          /\ (pc[u] \in Over => resp'[u] = resp[u])
    BY <1>2 DEF Crash, Close, callVars, UnderWay, IInv, TypeOK, RequestTypeOK
  <2>. QED
    BY <2>1 DEF LeftInv, Accounted, Linked, PathOf
<1>3. CASE UNCHANGED vars
  BY <1>3 DEF vars, dbVars, callVars, histVars, LeftInv, Accounted, Linked, PathOf
<1>. QED
  BY <1>1, <1>2, <1>3 DEF Next

(***************************************************************************)
(* When no request is under way, a file that no row points to was left     *)
(* behind by a crash or a failing disk or database: however many uploads   *)
(* race for a code, under whatever names, the losers remove their files.   *)
(***************************************************************************)
THEOREM LostRacesLeaveNoFile ==
  ASSUME RoutesOnly
  PROVE  Spec => []NoFileLeftBehind
<1>1. Init => LeftInv
  BY DEF Init, LeftInv
<1>2. IInv /\ SnapInv /\ RowInv /\ LeftInv /\ [Next]_vars => LeftInv'
  <2>1. ASSUME IInv, SnapInv, RowInv, LeftInv, [Next]_vars, NEW p \in Path, files'[p] # NoFile
        PROVE  Accounted(p)'
    BY <2>1, LeftNext
  <2>. QED
    BY <2>1 DEF LeftInv, Path
<1>3. LeftInv => NoFileLeftBehind
  BY DEF LeftInv, Accounted, NoFileLeftBehind, AtRest, UnderWay
<1>. QED
  BY <1>1, <1>2, <1>3, RowAlways, PTL DEF Spec

=============================================================================
