----------------------------- MODULE Shortener ------------------------------
(***************************************************************************)
(* Requests of the link shortener against one database and one upload      *)
(* directory: URLShortenerHandler, URLShorteningService, FileUploadService *)
(* and SlugGenerator on top of LinkDb.                                     *)
(*                                                                         *)
(* The server runs handlers on a pool of threads, each request with a      *)
(* handler, two services and two connections of its own.  An action is     *)
(* one call that reads or changes what requests share; the steps of        *)
(* different requests interleave freely.  delete_link and delete_file are  *)
(* calls of the service classes that no route of the handler makes; MayDo  *)
(* says which request may make which call.                                 *)
(***************************************************************************)
EXTENDS LinkDb

CONSTANTS
  Name,         \* sanitized file names
  NameOf,       \* the file name request r uploads under
  MayDo,        \* the calls request r may make
  NoFile,       \* there is no file at the path
  Partial,      \* the file is there, but not all of its content
  NoCode,       \* the request has not settled on a code
  MaxAttempts,  \* max_attempts of generate_unique_code (100 in the code)
  MaxFaults,    \* bound: requests that meet a failing database or disk
  MaxCrashes    \* bound: crashes of the server process

Kind == {"shorten", "upload", "redirect", "stats", "delete_link", "delete_file"}

ASSUME ShortenerAssumption ==
  /\ NameOf \in [Req -> Name]
  /\ MayDo \in [Req -> SUBSET Kind]
  /\ NoFile \notin Req /\ Partial \notin Req /\ NoFile # Partial
  /\ NoCode \notin Code
  /\ MaxAttempts \in Nat \ {0}
  /\ MaxFaults \in Nat
  /\ MaxCrashes \in Nat

(* generate_file_path: the code, then "_", then the name. *)
Path == Code \X Name

VARIABLES
  files,    \* the upload directory: whose data each path holds
  pc,       \* the next call request r makes
  kind,     \* which of the handler's routes or service calls r is
  code,     \* the code r drew, or was asked about
  tries,    \* failed attempts of generate_unique_code
  seen,     \* the row of links that get_link gave r
  served,   \* the content r read from the disk
  stats,    \* the rows get_click_stats counted, in total and by day
  resp,     \* how r was answered
  \* History variables, which no step reads, but for the bounds.
  faulted,  \* the requests that met a failing database or disk
  crashes,  \* how often the server crashed
  erased,   \* the requests whose row of links was deleted
  before    \* the requests whose link was acknowledged when r arrived

callVars == <<kind, code, tries, seen, served, stats>>
histVars == <<faulted, crashes, erased, before>>
vars == <<dbVars, files, pc, callVars, resp, histVars>>

(***************************************************************************)
(* The calls in a request, in the order of the code:                       *)
(*   shorten      draw* insert commit_link acknowledge                     *)
(*   upload       draw* open_file write_file insert commit_link            *)
(*                acknowledge or cleanup                                   *)
(*   redirect     resolve exists click commit_click            (a URL)     *)
(*                resolve lookup metadata click commit_click serve read    *)
(*   stats        total daily                                              *)
(*   delete_link  delete commit_delete                                     *)
(*   delete_file  lookup delete commit_delete unlink                       *)
(***************************************************************************)
Step == {"idle", "draw", "open_file", "write_file", "insert", "commit_link",
         "acknowledge", "cleanup", "resolve", "exists", "lookup", "metadata", "click",
         "commit_click", "serve", "read", "total", "daily", "delete",
         "commit_delete", "unlink", "answered", "done"}

Answer == {"none", "created", "redirect", "file", "stats", "deleted",
           "not_deleted", "bad", "missing", "error", "cut"}

Content == Req \cup {Partial, NoFile}

RequestTypeOK ==
  /\ files \in [Path -> Content]
  /\ pc \in [Req -> Step]
  /\ kind \in [Req -> Kind]
  /\ code \in [Req -> Code \cup {NoCode}]
  /\ tries \in [Req -> 0 .. MaxAttempts]
  /\ seen \in [Req -> Link \cup {NoLink}]
  /\ served \in [Req -> Content]
  /\ stats \in [Req -> [total: SUBSET Click, daily: SUBSET Click]]
  /\ resp \in [Req -> Answer]
  /\ faulted \in SUBSET Req
  /\ crashes \in 0 .. MaxCrashes
  /\ erased \in SUBSET Req
  /\ before \in [Req -> SUBSET Req]

TypeOK == DbTypeOK /\ RequestTypeOK

Init ==
  /\ DbInit
  /\ files = [p \in Path |-> NoFile]
  /\ pc = [r \in Req |-> "idle"]
  /\ kind \in [Req -> Kind] /\ \A r \in Req : kind[r] \in MayDo[r]
  /\ code = [r \in Req |-> NoCode]
  /\ tries = [r \in Req |-> 0]
  /\ seen = [r \in Req |-> NoLink]
  /\ served = [r \in Req |-> NoFile]
  /\ stats = [r \in Req |-> [total |-> {}, daily |-> {}]]
  /\ resp = [r \in Req |-> "none"]
  /\ faulted = {}
  /\ crashes = 0
  /\ erased = {}
  /\ before = [r \in Req |-> {}]

-----------------------------------------------------------------------------
(* The connections and paths of a request. *)

(* The service a request asks: which connection its calls go through. *)
Creator(r) == kind[r] \in {"shorten", "upload"}
UsesFileService(r) ==
  \/ kind[r] \in {"upload", "delete_file"}
  \/ pc[r] = "lookup"
  \/ seen[r] # NoLink /\ seen[r].type = "file"
ServiceOf(r) == IF UsesFileService(r) THEN "file" ELSE "url"
Db(r) == <<r, ServiceOf(r)>>

PathOf(c, r) == <<c, NameOf[r]>>

(* The path in the row that get_link gave r. *)
SeenPath(r) == PathOf(code[r], seen[r].by)

GoTo(r, step) ==
  /\ pc' = [pc EXCEPT ![r] = step]
  /\ UNCHANGED resp

Reply(r, answer) ==
  /\ pc' = [pc EXCEPT ![r] = "answered"]
  /\ resp' = [resp EXCEPT ![r] = answer]

(***************************************************************************)
(* A call of the database or the disk fails: an I/O error, a full disk, a  *)
(* database that cannot be opened while its last connection closes.        *)
(***************************************************************************)
Fault(r) ==
  /\ Cardinality(faulted) < MaxFaults
  /\ faulted' = faulted \cup {r}
  /\ UNCHANGED <<crashes, erased, before>>

-----------------------------------------------------------------------------
(* handle_request: services, routing, validation of the input. *)

FirstCall == [shorten |-> "draw", upload |-> "draw", redirect |-> "resolve",
              stats |-> "total", delete_link |-> "delete", delete_file |-> "lookup"]

Acknowledged == {s \in Req : resp[s] = "created"}

(* initialize_services succeeds, and the request is routed and accepted. *)
HandleRequest(r) ==
  /\ pc[r] = "idle"
  /\ IF Creator(r) THEN UNCHANGED code
     ELSE \E c \in Code : code' = [code EXCEPT ![r] = c]
  /\ GoTo(r, FirstCall[kind[r]])
  /\ before' = [before EXCEPT ![r] = Acknowledged]
  /\ UNCHANGED <<dbVars, files, kind, tries, seen, served, stats, faulted, crashes, erased>>

(* initialize_services fails, and the answer is 500. *)
ServicesFail(r) ==
  /\ pc[r] = "idle"
  /\ kind[r] \notin {"delete_link", "delete_file"}
  /\ Reply(r, "error")
  /\ Fault(r)
  /\ UNCHANGED <<dbVars, files, callVars>>

(* The URL, file, form or code does not validate, and the answer is 400. *)
RejectInput(r) ==
  /\ pc[r] = "idle"
  /\ kind[r] \notin {"delete_link", "delete_file"}
  /\ Reply(r, "bad")
  /\ UNCHANGED <<dbVars, files, callVars, histVars>>

-----------------------------------------------------------------------------
(* generate_unique_code. *)

AfterDraw(r) == IF kind[r] = "upload" THEN "open_file" ELSE "insert"

(* generate_code draws c, and code_exists does not find it. *)
DrawFreeCode(r) ==
  /\ pc[r] = "draw"
  /\ \E c \in Code :
       /\ RowSeen(Db(r), "code_exists", c) = NoLink
       /\ code' = [code EXCEPT ![r] = c]
  /\ RunQuery(Db(r), "code_exists", FALSE)
  /\ GoTo(r, AfterDraw(r))
  /\ UNCHANGED <<files, kind, tries, seen, served, stats, histVars>>

(* code_exists fails, which reads as a code that is not there. *)
DrawUncheckedCode(r) ==
  /\ pc[r] = "draw"
  /\ Fault(r)
  /\ \E c \in Code : code' = [code EXCEPT ![r] = c]
  /\ RunQuery(Db(r), "code_exists", FALSE)
  /\ GoTo(r, AfterDraw(r))
  /\ UNCHANGED <<files, kind, tries, seen, served, stats>>

\* Mutants of DrawTakenCode: one attempt too many, and attempts not counted.
DrawOnceMore(r) ==
  /\ pc[r] = "draw"
  /\ \E c \in Code : RowSeen(Db(r), "code_exists", c) # NoLink
  /\ RunQuery(Db(r), "code_exists", TRUE)
  /\ tries' = [tries EXCEPT ![r] = @ + 1]
  /\ IF tries[r] < MaxAttempts THEN UNCHANGED <<pc, resp>> ELSE Reply(r, "bad")
  /\ UNCHANGED <<files, kind, code, seen, served, stats, histVars>>
DrawForEver(r) ==
  /\ pc[r] = "draw"
  /\ \E c \in Code : RowSeen(Db(r), "code_exists", c) # NoLink
  /\ RunQuery(Db(r), "code_exists", TRUE)
  /\ UNCHANGED <<pc, resp, files, callVars, histVars>>

(* The code is taken: one attempt less, and after the last one no code. *)
DrawTakenCode(r) ==
  /\ pc[r] = "draw"
  /\ \E c \in Code : RowSeen(Db(r), "code_exists", c) # NoLink
  /\ RunQuery(Db(r), "code_exists", TRUE)
  /\ tries' = [tries EXCEPT ![r] = @ + 1]
  /\ IF tries[r] + 1 < MaxAttempts THEN UNCHANGED <<pc, resp>> ELSE Reply(r, "bad")
  /\ UNCHANGED <<files, kind, code, seen, served, stats, histVars>>

-----------------------------------------------------------------------------
(* upload_file: the file, before its row. *)

(* ofstream truncates the file at the path, or creates it. *)
OpenFile(r) ==
  /\ pc[r] = "open_file"
  /\ files' = [files EXCEPT ![PathOf(code[r], r)] = Partial]
  /\ GoTo(r, "write_file")
  /\ UNCHANGED <<dbVars, callVars, histVars>>

WriteFile(r) ==
  /\ pc[r] = "write_file"
  /\ files' = [files EXCEPT ![PathOf(code[r], r)] = r]
  /\ GoTo(r, "insert")
  /\ UNCHANGED <<dbVars, callVars, histVars>>

\* Mutant of WriteFileFails: the result of write_file_to_disk is ignored.
WriteFileFailsUnnoticed(r) ==
  /\ pc[r] \in {"open_file", "write_file"}
  /\ Fault(r)
  /\ GoTo(r, "insert")
  /\ UNCHANGED <<dbVars, files, callVars>>

(* The file cannot be opened, or not be written: what is there stays. *)
WriteFileFails(r) ==
  /\ pc[r] \in {"open_file", "write_file"}
  /\ Fault(r)
  /\ Reply(r, "bad")
  /\ UNCHANGED <<dbVars, files, callVars>>

(* insert_link failed: the file is removed again, and the answer is 400. *)
CleanUpFile(r) ==
  /\ pc[r] = "cleanup"
  /\ files' = [files EXCEPT ![PathOf(code[r], r)] = NoFile]
  /\ Reply(r, "bad")
  /\ UNCHANGED <<dbVars, callVars, histVars>>

-----------------------------------------------------------------------------
(* The writes: insert_link, record_click and delete_link. *)

CommitStep == [insert |-> "commit_link", click |-> "commit_click", delete |-> "commit_delete"]

\* Mutants of LinkNotInserted: the result of insert_link is ignored, and
\* the file of a failed upload stays.
LinkTakenAsInserted(r) == GoTo(r, "acknowledge")
LinkNotInsertedFileStays(r) == Reply(r, "bad")

(* What follows insert_link and record_click. *)
LinkInserted(r) == GoTo(r, "acknowledge")
LinkNotInserted(r) == IF kind[r] = "upload" THEN GoTo(r, "cleanup") ELSE Reply(r, "bad")
ClickDone(r) == IF seen[r].type = "url" THEN Reply(r, "redirect") ELSE GoTo(r, "serve")

StartWrite(r) ==
  /\ pc[r] \in DOMAIN CommitStep
  /\ BeginWrite(Db(r))
  /\ GoTo(r, CommitStep[pc[r]])
  /\ UNCHANGED <<files, callVars, histVars>>

(* SQLITE_BUSY or SQLITE_BUSY_SNAPSHOT: the call returns false at once. *)
InsertRefused(r) ==
  /\ pc[r] = "insert"
  /\ RefuseWrite(Db(r))
  /\ LinkNotInserted(r)
  /\ UNCHANGED <<files, callVars, histVars>>

(* handle_redirect does not look at what record_access returns. *)
ClickRefused(r) ==
  /\ pc[r] = "click"
  /\ RefuseWrite(Db(r))
  /\ ClickDone(r)
  /\ UNCHANGED <<files, callVars, histVars>>

DeleteRefused(r) ==
  /\ pc[r] = "delete"
  /\ RefuseWrite(Db(r))
  /\ Reply(r, "not_deleted")
  /\ UNCHANGED <<files, callVars, histVars>>

CommitLink(r) ==
  /\ pc[r] = "commit_link"
  /\ InsertLink(Db(r), code[r], [type |-> IF kind[r] = "upload" THEN "file" ELSE "url", by |-> r])
  /\ IF InsertLinkOK(code[r]) THEN LinkInserted(r) ELSE LinkNotInserted(r)
  /\ UNCHANGED <<files, callVars, histVars>>

(***************************************************************************)
(* insert_link has returned: the short URL and its QR code are made, and   *)
(* the answer tells that the link is there.                                *)
(***************************************************************************)
Acknowledge(r) ==
  /\ pc[r] = "acknowledge"
  /\ Reply(r, "created")
  /\ UNCHANGED <<dbVars, files, callVars, histVars>>

CommitClick(r) ==
  /\ pc[r] = "commit_click"
  /\ InsertClick(Db(r), code[r], r)
  /\ ClickDone(r)
  /\ UNCHANGED <<files, callVars, histVars>>

(* delete_link returns whether a row went; delete_file goes on if so. *)
CommitDelete(r) ==
  /\ pc[r] = "commit_delete"
  /\ DeleteLink(Db(r), code[r])
  /\ IF DeleteLinkOK(code[r])
     THEN /\ erased' = erased \cup {links[code[r]].by}
          /\ IF kind[r] = "delete_file" THEN GoTo(r, "unlink") ELSE Reply(r, "deleted")
     ELSE /\ UNCHANGED erased
          /\ Reply(r, "not_deleted")
  /\ UNCHANGED <<files, callVars, faulted, crashes, before>>

-----------------------------------------------------------------------------
(* handle_redirect. *)

(* resolve_code: get_link through the url service. *)
ResolveCode(r) ==
  /\ pc[r] = "resolve"
  /\ LET row == RowSeen(Db(r), "get_link", code[r])
     IN /\ RunQuery(Db(r), "get_link", row # NoLink)
        /\ IF row # NoLink /\ row.type = "url"
           THEN seen' = [seen EXCEPT ![r] = row] /\ GoTo(r, "exists")
           ELSE UNCHANGED seen /\ GoTo(r, "lookup")
  /\ UNCHANGED <<files, kind, code, tries, served, stats, histVars>>

(* record_access: code_exists in the transaction that get_link left open. *)
CheckExists(r) ==
  /\ pc[r] = "exists"
  /\ LET found == RowSeen(Db(r), "code_exists", code[r]) # NoLink
     IN /\ RunQuery(Db(r), "code_exists", found)
        /\ IF found THEN GoTo(r, "click") ELSE Reply(r, "redirect")
  /\ UNCHANGED <<files, callVars, histVars>>

(* get_file_path through the file service, for redirect and delete_file. *)
GetFilePath(r) ==
  /\ pc[r] = "lookup"
  /\ LET row == RowSeen(Db(r), "get_link", code[r])
     IN /\ RunQuery(Db(r), "get_link", row # NoLink)
        /\ IF row # NoLink /\ row.type = "file"
           THEN /\ seen' = [seen EXCEPT ![r] = row]
                /\ GoTo(r, IF kind[r] = "redirect" THEN "metadata" ELSE "delete")
           ELSE /\ UNCHANGED seen
                /\ Reply(r, IF kind[r] = "redirect" THEN "missing" ELSE "not_deleted")
  /\ UNCHANGED <<files, kind, code, tries, served, stats, histVars>>

(* record_file_access: get_link again, which ends the old transaction. *)
GetFileMetadata(r) ==
  /\ pc[r] = "metadata"
  /\ LET row == RowSeen(Db(r), "get_link", code[r])
     IN /\ RunQuery(Db(r), "get_link", row # NoLink)
        /\ GoTo(r, IF row # NoLink /\ row.type = "file" THEN "click" ELSE "serve")
  /\ UNCHANGED <<files, callVars, histVars>>

(* A query of these fails, which reads as a code that is not there. *)
AfterFailedQuery(r) ==
  CASE pc[r] = "resolve"  -> GoTo(r, "lookup")
    [] pc[r] = "exists"   -> Reply(r, "redirect")
    [] pc[r] = "lookup"   -> Reply(r, IF kind[r] = "redirect" THEN "missing" ELSE "not_deleted")
    [] pc[r] = "metadata" -> GoTo(r, "serve")

QueryFails(r) ==
  /\ pc[r] \in {"resolve", "exists", "lookup", "metadata"}
  /\ Fault(r)
  /\ RunQuery(Db(r), IF pc[r] = "exists" THEN "code_exists" ELSE "get_link", FALSE)
  /\ AfterFailedQuery(r)
  /\ UNCHANGED <<files, callVars>>

(* create_file_response: the file exists, or not ... *)
ServeFile(r) ==
  /\ pc[r] = "serve"
  /\ IF files[SeenPath(r)] = NoFile THEN Reply(r, "missing") ELSE GoTo(r, "read")
  /\ UNCHANGED <<dbVars, files, callVars, histVars>>

(* ... is opened, or not any more, and is read. *)
ReadFile(r) ==
  /\ pc[r] = "read"
  /\ served' = [served EXCEPT ![r] = files[SeenPath(r)]]
  /\ Reply(r, IF files[SeenPath(r)] = NoFile THEN "error" ELSE "file")
  /\ UNCHANGED <<dbVars, files, kind, code, tries, seen, stats, histVars>>

(***************************************************************************)
(* exists or a read throws, or the file cannot be opened: 500, though the  *)
(* click is in the database by now.                                        *)
(***************************************************************************)
ServeFails(r) ==
  /\ pc[r] \in {"serve", "read"}
  /\ Fault(r)
  /\ Reply(r, "error")
  /\ UNCHANGED <<dbVars, files, callVars>>

-----------------------------------------------------------------------------
(* get_click_stats: two queries; the first is left at its row. *)

\* Mutant of CountTotal: the first statement is reset before the second query.
CountTotalAndReset(r) ==
  /\ pc[r] = "total"
  /\ stats' = [stats EXCEPT ![r] = [total |-> ClicksSeen(Db(r), "get_stats", code[r]), daily |-> {}]]
  /\ RunQuery(Db(r), "get_stats", FALSE)
  /\ GoTo(r, "daily")
  /\ UNCHANGED <<files, kind, code, tries, seen, served, histVars>>

CountTotal(r) ==
  /\ pc[r] = "total"
  /\ stats' = [stats EXCEPT ![r] = [total |-> ClicksSeen(Db(r), "get_stats", code[r]), daily |-> {}]]
  /\ RunQuery(Db(r), "get_stats", TRUE)
  /\ GoTo(r, "daily")
  /\ UNCHANGED <<files, kind, code, tries, seen, served, histVars>>

(* The daily query has a statement of its own, finalized at the end. *)
CountDaily(r) ==
  /\ pc[r] = "daily"
  /\ stats' = [stats EXCEPT ![r] = [total |-> @.total, daily |-> ClicksSeen(Db(r), "daily", code[r])]]
  /\ Reply(r, "stats")
  /\ UNCHANGED <<dbVars, files, kind, code, tries, seen, served, histVars>>

(* Either query fails: what was counted until then is answered. *)
CountFails(r) ==
  /\ pc[r] \in {"total", "daily"}
  /\ Fault(r)
  /\ Reply(r, "stats")
  /\ UNCHANGED <<dbVars, files, callVars>>

-----------------------------------------------------------------------------
(* delete_file, after its row is gone. *)

RemoveFile(r) ==
  /\ pc[r] = "unlink"
  /\ files' = [files EXCEPT ![SeenPath(r)] = NoFile]
  /\ Reply(r, IF files[SeenPath(r)] = NoFile THEN "not_deleted" ELSE "deleted")
  /\ UNCHANGED <<dbVars, callVars, histVars>>

(* filesystem::remove fails, after insert_link failed or delete_link not. *)
RemoveFails(r) ==
  /\ pc[r] \in {"cleanup", "unlink"}
  /\ Fault(r)
  /\ Reply(r, IF pc[r] = "cleanup" THEN "bad" ELSE "not_deleted")
  /\ UNCHANGED <<dbVars, files, callVars>>

-----------------------------------------------------------------------------
(* The response is on its way: the handler and its connections go. *)
DestroyHandler(r) ==
  /\ pc[r] = "answered"
  /\ pc' = [pc EXCEPT ![r] = "done"]
  /\ Close({r} \X Service)
  /\ UNCHANGED <<files, callVars, resp, histVars>>

(***************************************************************************)
(* The server process dies and is started again.  Requests under way are   *)
(* cut off, a write that holds the lock is lost, what is committed or      *)
(* written to a file stays.                                                *)
(***************************************************************************)
UnderWay == {r \in Req : pc[r] \notin {"idle", "answered", "done"}}

Crash ==
  /\ crashes < MaxCrashes
  /\ crashes' = crashes + 1
  /\ pc' = [r \in Req |-> IF pc[r] = "idle" THEN "idle" ELSE "done"]
  /\ resp' = [r \in Req |-> IF r \in UnderWay THEN "cut" ELSE resp[r]]
  /\ Close(Conn)
  /\ UNCHANGED <<files, callVars, faulted, erased, before>>

Run(r) ==
  \/ DrawFreeCode(r) \/ DrawUncheckedCode(r) \/ DrawTakenCode(r)
  \/ OpenFile(r) \/ WriteFile(r) \/ WriteFileFails(r) \/ CleanUpFile(r)
  \/ StartWrite(r) \/ InsertRefused(r) \/ ClickRefused(r) \/ DeleteRefused(r)
  \/ CommitLink(r) \/ Acknowledge(r) \/ CommitClick(r) \/ CommitDelete(r)
  \/ ResolveCode(r) \/ CheckExists(r) \/ GetFilePath(r) \/ GetFileMetadata(r)
  \/ QueryFails(r) \/ ServeFile(r) \/ ReadFile(r) \/ ServeFails(r)
  \/ CountTotal(r) \/ CountDaily(r) \/ CountFails(r)
  \/ RemoveFile(r) \/ RemoveFails(r) \/ DestroyHandler(r)

Arrive(r) == HandleRequest(r) \/ ServicesFail(r) \/ RejectInput(r)

Next == Crash \/ \E r \in Req : Arrive(r) \/ Run(r)

Spec == Init /\ [][Next]_vars

(* The operating system schedules every thread of the pool. *)
FairSpec == Spec /\ \A r \in Req : WF_vars(Run(r))

=============================================================================
