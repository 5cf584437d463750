------------------------------ MODULE ApiStore ------------------------------
(***************************************************************************)
(* The CRUD API: ApiHandler on RealFileSystem.  An entity is a directory,  *)
(* each of its instances a file named by its id.                           *)
(*                                                                         *)
(* Every call of the file system is a step, so that the requests of        *)
(* different threads interleave between a check and what it was for.  A    *)
(* file is an inode with a sequence of blocks; a body is written block by  *)
(* block, and a file that is removed lives on for whoever has it open.     *)
(* POST on an instance makes a directory of it; what is below is left out. *)
(***************************************************************************)
EXTENDS Naturals, Sequences, FiniteSetsExt

CONSTANTS
  Req,          \* the requests, each on a thread of its own
  Entity,       \* the names behind /api/
  MayDo,        \* the jobs request r may have
  Size,         \* the blocks in the body of request r
  NoFile,       \* no such file, or no open file
  Hole,         \* a block nobody wrote
  MaxFaults,    \* bound: requests with a call that fails
  MaxCrashes    \* bound: crashes of the server process

(* POST probes ids from 1, and another request made each that is taken. *)
Id == 1 .. Cardinality(Req)
Path == Entity \X Id

(* What a request is for: an entity (id 0), or one instance of it. *)
Method == {"POST", "PUT", "GET", "DELETE"}
Job == [method : Method, entity : Entity, id : Id \cup {0}]

ASSUME ApiAssumption ==
  /\ IsFiniteSet(Req)
  /\ MayDo \in [Req -> SUBSET Job]
  /\ Size \in [Req -> Nat \ {0}]
  /\ NoFile \notin Req /\ Hole \notin Req /\ NoFile # Hole
  /\ MaxFaults \in Nat /\ MaxCrashes \in Nat

VARIABLES
  dirs,     \* the directories of entities
  folders,  \* the directories at the paths of instances
  inode,    \* the file at each path, named by the request that created it
  blocks,   \* the content of each file: who wrote each block
  pc,       \* the next call of the file system request r makes
  job,      \* what request r asks for
  id,       \* the id r works on; POST looks for it
  fd,       \* the file r has open
  written,  \* the blocks of its body r has written
  got,      \* the blocks r has read
  entries,  \* the directory entries r has yet to look at
  listed,   \* the ids r lists
  resp,     \* how r was answered
  \* History variables, which no step reads, but for the bounds.
  before,   \* the requests answered when r arrived
  touched,  \* the requests that opened each path for writing
  removed,  \* the paths that were removed at some time
  shared,   \* the files that two requests had open for writing at once
  faulted,  \* the requests with a call that failed
  crashes   \* how often the server crashed

fileVars == <<dirs, folders, inode, blocks>>
callVars == <<job, id, fd, written, got, entries, listed>>
histVars == <<before, touched, removed, shared, faulted, crashes>>
vars == <<fileVars, pc, callVars, resp, histVars>>

Step == {"idle", "probe", "mkdir", "open", "write", "check", "is_dir",
         "is_file", "open_read", "read", "list", "filter", "remove", "done"}
Answer == {"none", "created", "ok", "missing", "error", "declined", "thrown", "cut"}

TypeOK ==
  /\ dirs \in SUBSET Entity /\ folders \in SUBSET Path
  /\ inode \in [Path -> Req \cup {NoFile}]
  /\ \A p \in Path : inode[p] # NoFile => p[1] \in dirs /\ p \notin folders
  /\ \A r \in Req : \A i \in DOMAIN blocks[r] : blocks[r][i] \in Req \cup {Hole}
  /\ pc \in [Req -> Step]
  /\ job \in [Req -> Job]
  /\ id \in [Req -> Id \cup {0}]
  /\ fd \in [Req -> Req \cup {NoFile}]
  /\ \A r \in Req : written[r] \in 0 .. Size[r] /\ (pc[r] = "write" => written[r] < Size[r])
  /\ \A r \in Req : \A i \in DOMAIN got[r] : got[r][i] \in Req \cup {Hole}
  /\ entries \in [Req -> SUBSET Id] /\ listed \in [Req -> SUBSET Id]
  /\ resp \in [Req -> Answer]
  /\ \A r \in Req : (resp[r] # "none") <=> (pc[r] = "done")
  /\ before \in [Req -> SUBSET Req] /\ touched \in [Path -> SUBSET Req]
  /\ removed \in SUBSET Path
  /\ shared \in SUBSET Req /\ faulted \in SUBSET Req /\ crashes \in 0 .. MaxCrashes

Init ==
  /\ dirs = {} /\ folders = {}
  /\ inode = [p \in Path |-> NoFile]
  /\ blocks = [r \in Req |-> <<>>]
  /\ pc = [r \in Req |-> "idle"]
  /\ job \in [Req -> Job] /\ \A r \in Req : job[r] \in MayDo[r]
  /\ id = [r \in Req |-> job[r].id]
  /\ fd = [r \in Req |-> NoFile]
  /\ written = [r \in Req |-> 0]
  /\ got = [r \in Req |-> <<>>]
  /\ entries = [r \in Req |-> {}] /\ listed = [r \in Req |-> {}]
  /\ resp = [r \in Req |-> "none"]
  /\ before = [r \in Req |-> {}] /\ touched = [p \in Path |-> {}]
  /\ removed = {} /\ shared = {} /\ faulted = {} /\ crashes = 0

-----------------------------------------------------------------------------
(* Requests. *)

At(r) == <<job[r].entity, id[r]>>
HasFile(r) == id[r] # 0 /\ inode[At(r)] # NoFile

(* The directory of an entity, once there, is never removed. *)
IsDirectory(r) == id[r] = 0 \/ At(r) \in folders
Exists(r) == IF id[r] = 0 THEN job[r].entity \in dirs ELSE IsDirectory(r) \/ HasFile(r)

(* POST on an instance, as if it were an entity. *)
PostsBelow(r) == job[r].method = "POST" /\ job[r].id # 0

GoTo(r, step) == pc' = [pc EXCEPT ![r] = step] /\ UNCHANGED resp
Reply(r, answer) ==
  /\ pc' = [pc EXCEPT ![r] = "done"]
  /\ resp' = [resp EXCEPT ![r] = answer]

Answered == {s \in Req : pc[s] = "done"}

HandleRequest(r) ==
  /\ pc[r] = "idle"
  /\ id' = [id EXCEPT ![r] = IF job[r].method = "POST" /\ @ = 0 THEN 1 ELSE @]
  /\ GoTo(r, IF job[r].method = "POST" THEN "probe" ELSE "check")
  /\ before' = [before EXCEPT ![r] = Answered]
  /\ UNCHANGED <<fileVars, job, fd, written, got, entries, listed,
                 touched, removed, shared, faulted, crashes>>

(* Not below /api/, or another method. *)
Decline(r) ==
  /\ pc[r] = "idle"
  /\ Reply(r, "declined")
  /\ UNCHANGED <<fileVars, callVars, histVars>>

-----------------------------------------------------------------------------
(* POST: the first id without a file or directory. *)

\* Mutants of Probe: the id behind the free one, and always the same id.
ProbeBehind(r) ==
  /\ pc[r] = "probe"
  /\ id' = [id EXCEPT ![r] = IF @ + 1 \in Id THEN @ + 1 ELSE @]
  /\ IF Exists(r) /\ ~PostsBelow(r) THEN UNCHANGED <<pc, resp>> ELSE GoTo(r, "mkdir")
  /\ UNCHANGED <<fileVars, job, fd, written, got, entries, listed, histVars>>
ProbeAgain(r) ==
  /\ pc[r] = "probe"
  /\ IF Exists(r) /\ ~PostsBelow(r) THEN UNCHANGED <<pc, resp>> ELSE GoTo(r, "mkdir")
  /\ UNCHANGED <<fileVars, callVars, histVars>>

Probe(r) ==
  /\ pc[r] = "probe"
  /\ IF Exists(r) /\ ~PostsBelow(r)
     THEN id' = [id EXCEPT ![r] = @ + 1] /\ UNCHANGED <<pc, resp>>
     ELSE UNCHANGED id /\ GoTo(r, "mkdir")
  /\ UNCHANGED <<fileVars, job, fd, written, got, entries, listed, histVars>>

-----------------------------------------------------------------------------
(* overwrite_file, for POST and PUT.  It reports no failure. *)

ReplyWritten(r) == Reply(r, IF job[r].method = "POST" THEN "created" ELSE "ok")

(* The directory above the file; below an instance that is a file it throws. *)
CreateDirectories(r) ==
  /\ pc[r] = "mkdir"
  /\ IF PostsBelow(r) /\ HasFile(r)
     THEN UNCHANGED <<dirs, folders>> /\ Reply(r, "thrown")
     ELSE /\ dirs' = IF id[r] = 0 THEN dirs ELSE dirs \cup {job[r].entity}
          /\ folders' = IF PostsBelow(r) THEN folders \cup {At(r)} ELSE folders
          /\ GoTo(r, "open")
  /\ UNCHANGED <<inode, blocks, callVars, histVars>>

(***************************************************************************)
(* A directory cannot be opened for writing, which nobody is told.  The    *)
(* file below an instance is left out.                                     *)
(***************************************************************************)
OpenElsewhere(r) ==
  /\ pc[r] = "open" /\ (IsDirectory(r) \/ PostsBelow(r))
  /\ ReplyWritten(r)
  /\ UNCHANGED <<fileVars, callVars, histVars>>

File(r) == IF HasFile(r) THEN inode[At(r)] ELSE r
OpenByOther(r) == \E s \in Req \ {r} : pc[s] = "write" /\ fd[s] = File(r)

OpenEffect(r, content) ==
  /\ pc[r] = "open" /\ ~IsDirectory(r) /\ ~PostsBelow(r)
  /\ inode' = [inode EXCEPT ![At(r)] = File(r)]
  /\ blocks' = [blocks EXCEPT ![File(r)] = content]
  /\ fd' = [fd EXCEPT ![r] = File(r)]
  /\ touched' = [touched EXCEPT ![At(r)] = @ \cup {r}]
  /\ shared' = IF OpenByOther(r) THEN shared \cup {File(r)} ELSE shared
  /\ GoTo(r, "write")
  /\ UNCHANGED <<dirs, folders, job, id, written, got, entries, listed,
                 before, removed, faulted, crashes>>

\* Mutant of OpenForWriting: the file is not truncated.
OpenAtStart(r) == OpenEffect(r, blocks[File(r)])
OpenForWriting(r) == OpenEffect(r, <<>>)

(* Block n of a file; a gap before it is a hole. *)
Put(content, n, block) ==
  [i \in 1 .. Max({n, Len(content)}) |->
     IF i = n THEN block ELSE IF i \in DOMAIN content THEN content[i] ELSE Hole]

WriteEffect(r, last) ==
  /\ pc[r] = "write"
  /\ blocks' = [blocks EXCEPT ![fd[r]] = Put(@, written[r] + 1, r)]
  /\ written' = [written EXCEPT ![r] = @ + 1]
  /\ IF written[r] + 1 = last THEN ReplyWritten(r) ELSE UNCHANGED <<pc, resp>>
  /\ UNCHANGED <<dirs, folders, inode, job, id, fd, got, entries, listed, histVars>>

\* Mutants of WriteBlock: the answer after the first block, and one too many.
WriteOneBlock(r) == WriteEffect(r, 1)
WriteOneMore(r) == WriteEffect(r, Size[r] + 1)
WriteBlock(r) == WriteEffect(r, Size[r])

Fails(r) ==
  /\ Cardinality(faulted) < MaxFaults
  /\ faulted' = faulted \cup {r}
  /\ UNCHANGED <<fileVars, callVars, before, touched, removed, shared, crashes>>

(* The disk is full, or the file cannot be opened: the answer is the same. *)
WriteFails(r) ==
  /\ pc[r] = "write" \/ (pc[r] = "open" /\ ~IsDirectory(r))
  /\ ReplyWritten(r)
  /\ Fails(r)

-----------------------------------------------------------------------------
(* PUT, GET and DELETE look whether the path exists. *)

AfterCheck == [PUT |-> "mkdir", GET |-> "is_dir", DELETE |-> "is_file"]

CheckExists(r) ==
  /\ pc[r] = "check"
  /\ IF Exists(r) THEN GoTo(r, AfterCheck[job[r].method]) ELSE Reply(r, "missing")
  /\ UNCHANGED <<fileVars, callVars, histVars>>

CheckDirectory(r) ==
  /\ pc[r] = "is_dir"
  /\ GoTo(r, IF IsDirectory(r) THEN "list" ELSE "is_file")
  /\ UNCHANGED <<fileVars, callVars, histVars>>

CheckRegularFile(r) ==
  /\ pc[r] = "is_file"
  /\ IF HasFile(r) THEN GoTo(r, IF job[r].method = "GET" THEN "open_read" ELSE "remove")
     ELSE Reply(r, "error")
  /\ UNCHANGED <<fileVars, callVars, histVars>>

(***************************************************************************)
(* exists() catches the error of the file system, and says there is none.  *)
(***************************************************************************)
ExistsFails(r) ==
  /\ \/ pc[r] = "probe" /\ GoTo(r, "mkdir")
     \/ pc[r] = "check" /\ Reply(r, "missing")
  /\ Fails(r)

(* The other calls throw, and so does handle_request. *)
Throws(r) ==
  /\ pc[r] \in {"mkdir", "is_dir", "is_file", "list", "filter", "remove"}
  /\ Reply(r, "thrown")
  /\ Fails(r)

(* GET of an instance: read_file.  A directory opens, and reads as empty. *)
OpenForReading(r) ==
  /\ pc[r] = "open_read"
  /\ IF HasFile(r)
     THEN fd' = [fd EXCEPT ![r] = inode[At(r)]] /\ GoTo(r, "read")
     ELSE UNCHANGED fd /\ Reply(r, IF IsDirectory(r) THEN "ok" ELSE "error")
  /\ UNCHANGED <<fileVars, job, id, written, got, entries, listed, histVars>>

ReadBlock(r) ==
  /\ pc[r] = "read"
  /\ LET content == blocks[fd[r]]
         next == Len(got[r]) + 1
     IN IF next \in DOMAIN content
        THEN got' = [got EXCEPT ![r] = Append(@, content[next])] /\ UNCHANGED <<pc, resp>>
        ELSE UNCHANGED got /\ Reply(r, "ok")
  /\ UNCHANGED <<fileVars, job, id, fd, written, entries, listed, histVars>>

(* The file does not open, or what was read so far is the answer. *)
ReadFails(r) ==
  /\ pc[r] \in {"open_read", "read"}
  /\ Reply(r, IF pc[r] = "read" THEN "ok" ELSE "error")
  /\ Fails(r)

(* GET of an entity: get_json_list_of_dir. *)
Files(e) == {i \in Id : inode[<<e, i>>] # NoFile}

ListEffect(r, found) ==
  /\ pc[r] = "list" /\ id[r] = 0
  /\ entries' = [entries EXCEPT ![r] = found]
  /\ GoTo(r, "filter")
  /\ UNCHANGED <<fileVars, job, id, fd, written, got, listed, histVars>>

\* Mutant of ListDirectory: the last entry goes with the trailing comma.
ListButLast(r) == LET all == Files(job[r].entity) IN ListEffect(r, all \ {i \in all : i = Max(all)})
ListDirectory(r) == ListEffect(r, Files(job[r].entity))

ListEntry(r) ==
  /\ pc[r] = "filter"
  /\ \E i \in entries[r] :
       /\ entries' = [entries EXCEPT ![r] = @ \ {i}]
       /\ listed' = [listed EXCEPT ![r] = IF i \in Files(job[r].entity) THEN @ \cup {i} ELSE @]
  /\ UNCHANGED <<fileVars, pc, resp, job, id, fd, written, got, histVars>>

ListEnds(r) ==
  /\ pc[r] = "filter" /\ entries[r] = {}
  /\ Reply(r, "ok")
  /\ UNCHANGED <<fileVars, callVars, histVars>>

(* GET of an instance that is a directory, and may be gone by now. *)
ListBelow(r) ==
  /\ pc[r] = "list" /\ id[r] # 0
  /\ Reply(r, IF IsDirectory(r) THEN "ok" ELSE "thrown")
  /\ UNCHANGED <<fileVars, callVars, histVars>>

(* DELETE.  A file that became a directory since is removed, or not empty. *)
RemoveFile(r) ==
  /\ inode' = [inode EXCEPT ![At(r)] = NoFile]
  /\ removed' = IF HasFile(r) THEN removed \cup {At(r)} ELSE removed
  /\ Reply(r, IF HasFile(r) THEN "ok" ELSE "error")
  /\ UNCHANGED folders

RemoveDirectory(r) ==
  /\ \/ folders' = folders \ {At(r)} /\ removed' = removed \cup {At(r)} /\ Reply(r, "ok")
     \/ UNCHANGED <<folders, removed>> /\ Reply(r, "thrown")
  /\ UNCHANGED inode

Remove(r) ==
  /\ pc[r] = "remove"
  /\ IF IsDirectory(r) THEN RemoveDirectory(r) ELSE RemoveFile(r)
  /\ UNCHANGED <<dirs, blocks, callVars, before, touched, shared, faulted, crashes>>

-----------------------------------------------------------------------------
(* The process dies; the files stay as they are. *)
Crash ==
  /\ crashes < MaxCrashes
  /\ crashes' = crashes + 1
  /\ pc' = [r \in Req |-> IF pc[r] = "idle" THEN "idle" ELSE "done"]
  /\ resp' = [r \in Req |-> IF pc[r] \notin {"idle", "done"} THEN "cut" ELSE resp[r]]
  /\ UNCHANGED <<fileVars, callVars, before, touched, removed, shared, faulted>>

Run(r) ==
  \/ Probe(r) \/ CreateDirectories(r) \/ OpenElsewhere(r) \/ OpenForWriting(r)
  \/ WriteBlock(r) \/ WriteFails(r)
  \/ CheckExists(r) \/ CheckDirectory(r) \/ CheckRegularFile(r)
  \/ ExistsFails(r) \/ Throws(r) \/ ReadFails(r)
  \/ OpenForReading(r) \/ ReadBlock(r)
  \/ ListDirectory(r) \/ ListEntry(r) \/ ListEnds(r) \/ ListBelow(r)
  \/ Remove(r)

Next == Crash \/ \E r \in Req : HandleRequest(r) \/ Decline(r) \/ Run(r)

Spec == Init /\ [][Next]_vars

(* The operating system schedules every thread of the pool. *)
FairSpec == Spec /\ \A r \in Req : WF_vars(Run(r))

=============================================================================
