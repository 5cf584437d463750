--------------------------- MODULE ApiStoreProofs ---------------------------
(***************************************************************************)
(* Theorems about ApiStore, for any number of requests and entities, of    *)
(* failed calls and crashes, and bodies of any size.                       *)
(***************************************************************************)
EXTENDS ApiStoreProps, FiniteSetTheorems, SequenceTheorems, TLAPS

(* A file of blocks that one request wrote alone, up to block n. *)
Alone(w, n) == [i \in 1 .. n |-> w]

LEMMA PutAlone ==
  ASSUME NEW w, NEW n \in Nat
  PROVE  Put(Alone(w, n), n + 1, w) = Alone(w, n + 1)
<1>1. Len(Alone(w, n)) = n /\ DOMAIN Alone(w, n) = 1 .. n
  BY DEF Alone
<1>2. Max({n + 1, n}) = n + 1
  <2>1. \E x \in {n + 1, n} : \A y \in {n + 1, n} : x >= y
    OBVIOUS
  <2>. QED
    BY <2>1 DEF Max
<1>. QED
  BY <1>1, <1>2 DEF Put, Alone

LEMMA PutType ==
  ASSUME NEW S, NEW q \in Seq(S), NEW n \in Nat \ {0}, NEW b \in S, Hole \in S
  PROVE  Put(q, n, b) \in Seq(S)
<1>1. Len(q) \in Nat /\ DOMAIN q = 1 .. Len(q)
  OBVIOUS
<1>2. Max({n, Len(q)}) \in Nat
  <2>1. \E x \in {n, Len(q)} : \A y \in {n, Len(q)} : x >= y
    BY <1>1
  <2>. QED
    BY <1>1, <2>1 DEF Max
<1>. DEFINE top == Max({n, Len(q)})
<1>3. Put(q, n, b) \in [1 .. top -> S]
  BY <1>1 DEF Put
<1>. HIDE DEF top
<1>. QED
  BY <1>2, <1>3, SeqDef DEF top

(* Two requests are at one path if they have the entity and the id in common. *)
LEMMA SamePath ==
  /\ \A r, s : At(r) = At(s) <=> job[r].entity = job[s].entity /\ id[r] = id[s]
  /\ \A r : At(r)' = <<job'[r].entity, id'[r]>>
  /\ TypeOK => \A r \in Req : At(r) \in Path <=> id[r] # 0
BY DEF At, TypeOK, Path, Job, Id

-----------------------------------------------------------------------------
(* The course of a request. *)

(***************************************************************************)
(* Each call of the file system belongs to a method, and is made for an    *)
(* instance or for an entity.                                              *)
(***************************************************************************)
Course(r) ==
  LET method == job[r].method
  IN /\ job[r] \in MayDo[r]
     /\ pc[r] = "idle" \/ method # "POST" \/ job[r].id # 0 => id[r] = job[r].id
     /\ pc[r] = "probe" => method = "POST"
     /\ pc[r] \in {"mkdir", "open", "write"} => method \in {"POST", "PUT"}
     /\ pc[r] = "check" => method \in {"PUT", "GET", "DELETE"}
     /\ pc[r] = "is_file" => method \in {"GET", "DELETE"}
     /\ pc[r] \in {"is_dir", "list", "filter", "open_read", "read"} => method = "GET"
     /\ pc[r] = "remove" => method = "DELETE"
     /\ pc[r] \in {"probe", "mkdir", "open"} /\ method = "POST" => id[r] # 0
     /\ pc[r] = "is_file" /\ method = "GET" => id[r] # 0
     /\ pc[r] \in {"write", "open_read", "read", "remove"} => id[r] # 0
     /\ pc[r] = "filter" => id[r] = 0
     /\ resp[r] = "created" => method = "POST" /\ id[r] # 0

(* What a request has in its hands before it opens, writes and reads. *)
Hands(r) ==
  /\ pc[r] = "idle" => before[r] = {}
  /\ pc[r] \notin {"write", "done"} => written[r] = 0
  /\ pc[r] \notin {"read", "done"} => got[r] = <<>>
  /\ pc[r] \in {"write", "read"} => fd[r] \in Req
  /\ pc[r] = "open" /\ id[r] # 0 => job[r].entity \in dirs

Shape ==
  /\ blocks \in [Req -> Seq(Req \cup {Hole})]
  /\ got \in [Req -> Seq(Req \cup {Hole})]
  /\ written \in [Req -> Nat]

CallInv == TypeOK /\ Shape /\ \A r \in Req : Course(r) /\ Hands(r)

LEMMA IdRange ==
  /\ Cardinality(Req) \in Nat
  /\ Req # {} => 1 \in Id
  /\ \A i \in Id \cup {0} : i \in Nat /\ i + 1 # 0
<1>1. Cardinality(Req) \in Nat /\ (Req # {} => Cardinality(Req) # 0)
  BY FS_CardinalityType, FS_EmptySet, ApiAssumption
<1>. QED
  BY <1>1 DEF Id

(* What remove meets: the file, or a directory that took its place. *)
RemovesFile(r) ==
  /\ pc[r] = "remove" /\ ~IsDirectory(r) /\ RemoveFile(r)
  /\ UNCHANGED <<dirs, blocks, callVars, before, touched, shared, faulted, crashes>>

RemovesFolder(r) ==
  /\ pc[r] = "remove" /\ IsDirectory(r) /\ RemoveDirectory(r)
  /\ UNCHANGED <<dirs, blocks, callVars, before, touched, shared, faulted, crashes>>

LEMMA RemoveSplits == \A r \in Req : Remove(r) => RemovesFile(r) \/ RemovesFolder(r)
BY DEF Remove, RemovesFile, RemovesFolder

(* A call goes on to the next one, or answers the request. *)
TurnOK ==
  /\ pc' \in [Req -> Step] /\ resp' \in [Req -> Answer]
  /\ \A u \in Req : (resp'[u] # "none") <=> (pc'[u] = "done")
  /\ \A u \in Req : pc'[u] = "write" => pc[u] = "write"

LEMMA Turn ==
  ASSUME TypeOK, NEW r \in Req, pc[r] # "done",
         \/ \E step \in Step \ {"done", "write"} : GoTo(r, step)
         \/ \E answer \in Answer \ {"none"} : Reply(r, answer)
         \/ UNCHANGED <<pc, resp>>
  PROVE  TurnOK
<1>. USE DEF TypeOK, TurnOK
<1>1. ASSUME NEW step \in Step \ {"done", "write"}, GoTo(r, step) PROVE TurnOK
  BY <1>1 DEF GoTo
<1>2. ASSUME NEW answer \in Answer \ {"none"}, Reply(r, answer) PROVE TurnOK
  BY <1>2 DEF Reply, Step
<1>3. CASE UNCHANGED <<pc, resp>>
  BY <1>3
<1>. QED
  BY <1>1, <1>2, <1>3

LEMMA CheckGoesOn ==
  /\ AfterCheck["PUT"] = "mkdir" /\ AfterCheck["GET"] = "is_dir" /\ AfterCheck["DELETE"] = "is_file"
BY DEF AfterCheck

LEMMA InitCalls == Init => CallInv
<1>. SUFFICES ASSUME Init PROVE CallInv
  OBVIOUS
<1>. USE DEF Init
<1>1. inode \in [Path -> Req \cup {NoFile}] /\ fd \in [Req -> Req \cup {NoFile}]
      /\ \A p \in Path : inode[p] # NoFile => p[1] \in dirs /\ p \notin folders
      /\ folders \in SUBSET Path
  OBVIOUS
<1>2. pc \in [Req -> Step] /\ resp \in [Req -> Answer]
      /\ \A r \in Req : (resp[r] # "none") <=> (pc[r] = "done")
  BY DEF Step, Answer
<1>3. id \in [Req -> Id \cup {0}]
  BY DEF Job
<1>4. /\ entries \in [Req -> SUBSET Id] /\ listed \in [Req -> SUBSET Id]
      /\ before \in [Req -> SUBSET Req] /\ touched \in [Path -> SUBSET Req]
  OBVIOUS
<1>5. \A r \in Req : written[r] \in 0 .. Size[r] /\ pc[r] # "write"
  BY ApiAssumption
<1>6. Shape
  BY DEF Shape
<1>7. TypeOK
  BY <1>1, <1>2, <1>3, <1>4, <1>5, ApiAssumption DEF TypeOK
<1>8. \A r \in Req : Course(r) /\ Hands(r)
  BY DEF Course, Hands
<1>. QED
  BY <1>6, <1>7, <1>8 DEF CallInv

(* The id that POST tries next is one of Id. *)
IdFits == \A r \in Req : pc[r] = "probe" /\ Exists(r) /\ ~PostsBelow(r) => id[r] + 1 \in Id

LEMMA CallNext == CallInv /\ IdFits /\ [Next]_vars => CallInv'
<1>. SUFFICES ASSUME CallInv, IdFits, [Next]_vars PROVE CallInv'
  OBVIOUS
<1>. USE ApiAssumption DEF CallInv
<1>1. ASSUME NEW r \in Req, HandleRequest(r) PROVE CallInv'
  <2>1. TypeOK'
    <3>1. id' \in [Req -> Id \cup {0}]
      <4>1. 1 \in Id /\ id[r] \in Id \cup {0}
        BY IdRange DEF TypeOK
      <4>. QED
        BY <1>1, <4>1 DEF HandleRequest, TypeOK
    <3>2. pc' \in [Req -> Step] /\ \A u \in Req : (resp'[u] # "none") <=> (pc'[u] = "done")
      BY <1>1 DEF HandleRequest, GoTo, TypeOK, Step
    <3>. QED
      BY <1>1, <3>1, <3>2 DEF HandleRequest, GoTo, Answered, fileVars, TypeOK
  <2>2. Shape'
    BY <1>1 DEF HandleRequest, GoTo, Answered, fileVars, callVars, histVars, Shape, Hands
  <2>3. ASSUME NEW u \in Req PROVE (Course(u) /\ Hands(u))'
    BY <1>1 DEF HandleRequest, GoTo, fileVars, TypeOK, Course, Hands, Job, Method
  <2>. QED
    BY <2>1, <2>2, <2>3
<1>2. ASSUME NEW r \in Req, Decline(r) PROVE CallInv'
  <2>1. TypeOK'
    BY <1>2 DEF Decline, Reply, fileVars, callVars, histVars, TypeOK, Shape, Course, Hands, Step,
       Answer, Path, Job
  <2>2. Shape'
    BY <1>2 DEF Decline, Reply, fileVars, callVars, histVars, Shape, Hands
  <2>3. ASSUME NEW u \in Req PROVE (Course(u) /\ Hands(u))'
    BY <1>2 DEF Decline, Reply, fileVars, callVars, histVars, TypeOK, Shape, Course, Hands, Job
  <2>. QED
    BY <2>1, <2>2, <2>3
<1>3. ASSUME NEW r \in Req, Probe(r) PROVE CallInv'
  <2>1. TypeOK'
    <3>1. id' \in [Req -> Id \cup {0}]
      BY <1>3 DEF Probe, IdFits, TypeOK
    <3>2. pc' \in [Req -> Step] /\ \A u \in Req : (resp'[u] # "none") <=> (pc'[u] = "done")
      BY <1>3 DEF Probe, GoTo, TypeOK, Step
    <3>3. /\ resp' = resp
          /\ \A u \in Req : written[u] \in 0 .. Size[u] /\ (pc'[u] = "write" => written[u] < Size[u])
      BY <1>3 DEF Probe, GoTo, TypeOK
    <3>. QED
      BY <1>3, <3>1, <3>2, <3>3 DEF Probe, fileVars, histVars, TypeOK
  <2>2. Shape'
    BY <1>3 DEF Probe, GoTo, fileVars, callVars, histVars, Shape, Hands
  <2>3. ASSUME NEW u \in Req PROVE (Course(u) /\ Hands(u))'
    <3>1. id[r] + 1 # 0
      BY IdRange DEF TypeOK
    <3>2. /\ \A v \in Req \ {r} : pc'[v] = pc[v] /\ id'[v] = id[v]
          /\ resp' = resp /\ resp[r] = "none"
          /\ \/ id'[r] = id[r] + 1 /\ pc'[r] = "probe" /\ ~PostsBelow(r)
             \/ id'[r] = id[r] /\ pc'[r] = "mkdir"
      BY <1>3 DEF Probe, GoTo, TypeOK
    <3>. QED
      BY <1>3, <3>1, <3>2 DEF Probe, PostsBelow, fileVars, histVars, Course, Hands
  <2>. QED
    BY <2>1, <2>2, <2>3
<1>4. ASSUME NEW r \in Req, CreateDirectories(r) PROVE CallInv'
  <2>1. TurnOK /\ Shape'
    <3>1. TurnOK
      BY <1>4, Turn DEF CreateDirectories, Step, Answer
    <3>. QED
      BY <1>4, <3>1 DEF CreateDirectories, callVars, Shape
  <2>2. TypeOK'
    <3>1. CASE PostsBelow(r) /\ HasFile(r)
      BY <1>4, <2>1, <3>1 DEF CreateDirectories, callVars, histVars, TypeOK, TurnOK
    <3>2. CASE ~(PostsBelow(r) /\ HasFile(r))
      <4>1. /\ dirs \subseteq dirs' /\ dirs' \in SUBSET Entity
            /\ folders' = folders \/ (folders' = folders \cup {At(r)} /\ At(r) \in Path
                                       /\ inode[At(r)] = NoFile)
        <5>1. job[r].entity \in Entity /\ (PostsBelow(r) => id[r] # 0 /\ At(r) \in Path)
          BY SamePath DEF PostsBelow, Course, TypeOK, Job
        <5>. QED
          BY <1>4, <3>2, <5>1 DEF CreateDirectories, HasFile, TypeOK
      <4>2. /\ folders' \in SUBSET Path
            /\ \A p \in Path : inode[p] # NoFile => p[1] \in dirs' /\ p \notin folders'
        BY <4>1 DEF TypeOK
      <4>. QED
        BY <1>4, <2>1, <4>1, <4>2 DEF CreateDirectories, callVars, histVars, TypeOK, TurnOK
    <3>. QED
      BY <3>1, <3>2
  <2>3. ASSUME NEW u \in Req PROVE (Course(u) /\ Hands(u))'
    <3>1. job[r].method \in {"POST", "PUT"} /\ (id[r] # 0 /\ pc'[r] = "open" => job[r].entity \in dirs')
          /\ dirs \subseteq dirs' /\ pc'[r] \in {"open", "done"} /\ (pc'[r] = "open" => resp'[r] = resp[r])
          /\ resp'[r] # "created" /\ (job[r].method = "POST" => id[r] # 0)
          /\ \A v \in Req \ {r} : pc'[v] = pc[v] /\ resp'[v] = resp[v]
      BY <1>4 DEF CreateDirectories, GoTo, Reply, TypeOK, Course
    <3>. QED
      BY <1>4, <3>1 DEF CreateDirectories, callVars, histVars, Course, Hands
  <2>. QED
    BY <2>1, <2>2, <2>3
<1>5. ASSUME NEW r \in Req, OpenElsewhere(r) PROVE CallInv'
  <2>1. TypeOK'
    BY <1>5 DEF OpenElsewhere, ReplyWritten, Reply, IsDirectory, fileVars, callVars, histVars,
       TypeOK, Shape, Course, Hands, Step, Answer, Path, Job
  <2>2. Shape'
    BY <1>5 DEF OpenElsewhere, ReplyWritten, Reply, IsDirectory, fileVars, callVars, histVars,
       Shape, Hands
  <2>3. ASSUME NEW u \in Req PROVE (Course(u) /\ Hands(u))'
    BY <1>5 DEF OpenElsewhere, ReplyWritten, Reply, IsDirectory, fileVars, callVars, histVars,
       TypeOK, Shape, Course, Hands, Job
  <2>. QED
    BY <2>1, <2>2, <2>3
<1>6. ASSUME NEW r \in Req, OpenForWriting(r) PROVE CallInv'
  <2>1. File(r) \in Req /\ At(r) \in Path /\ id[r] # 0 /\ job[r].entity \in dirs
    BY <1>6, SamePath DEF OpenForWriting, OpenEffect, File, IsDirectory, TypeOK, HasFile, Hands
  <2>2. TypeOK'
    <3>1. ASSUME NEW p \in Path, inode'[p] # NoFile PROVE p[1] \in dirs' /\ p \notin folders'
      <4>1. dirs' = dirs /\ folders' = folders /\ At(r) \notin folders
        BY <1>6 DEF OpenForWriting, OpenEffect, IsDirectory
      <4>2. CASE p = At(r)
        <5>1. p[1] = job[r].entity
          BY <4>2 DEF At
        <5>. QED
          BY <2>1, <4>1, <4>2, <5>1
      <4>3. CASE p # At(r)
        <5>1. inode[p] # NoFile
          BY <1>6, <3>1, <4>3 DEF OpenForWriting, OpenEffect, TypeOK
        <5>. QED
          BY <4>1, <5>1 DEF TypeOK
      <4>. QED
        BY <4>2, <4>3
    <3>. QED
      BY <1>6, <2>1, <3>1 DEF OpenForWriting, OpenEffect, GoTo, TypeOK, Step, Hands
  <2>3. Shape'
    <3>1. blocks' = [blocks EXCEPT ![File(r)] = <<>>] /\ got' = got /\ written' = written
      BY <1>6 DEF OpenForWriting, OpenEffect
    <3>2. <<>> \in Seq(Req \cup {Hole})
      OBVIOUS
    <3>. QED
      BY <2>1, <3>1, <3>2 DEF Shape
  <2>4. ASSUME NEW u \in Req PROVE (Course(u) /\ Hands(u))'
    BY <1>6, <2>1 DEF OpenForWriting, OpenEffect, GoTo, TypeOK, Course, Hands
  <2>. QED
    BY <2>2, <2>3, <2>4
<1>7. ASSUME NEW r \in Req, WriteBlock(r) PROVE CallInv'
  <2>1. fd[r] \in Req /\ written[r] + 1 \in 1 .. Size[r] /\ written[r] + 1 \in Nat \ {0}
    BY <1>7 DEF WriteBlock, WriteEffect, Hands, TypeOK, Shape
  <2>2. Put(blocks[fd[r]], written[r] + 1, r) \in Seq(Req \cup {Hole})
    BY <2>1, PutType DEF Shape
  <2>3. Shape'
    BY <1>7, <2>1, <2>2 DEF WriteBlock, WriteEffect, Shape
  <2>4. TypeOK'
    <3>1. \A u \in Req : \A i \in DOMAIN blocks'[u] : blocks'[u][i] \in Req \cup {Hole}
      BY <2>3, SMTT(30) DEF Shape
    <3>2. \A u \in Req : written'[u] \in 0 .. Size[u] /\ (pc'[u] = "write" => written'[u] < Size[u])
      BY <1>7, <2>1, ApiAssumption, SMTT(30) DEF WriteBlock, WriteEffect, ReplyWritten, Reply,
         TypeOK, Shape
    <3>3. /\ pc' \in [Req -> Step] /\ resp' \in [Req -> Answer]
          /\ \A u \in Req : (resp'[u] # "none") <=> (pc'[u] = "done")
      <4>1. \/ UNCHANGED <<pc, resp>>
            \/ \E answer \in {"created", "ok"} :
                 pc' = [pc EXCEPT ![r] = "done"] /\ resp' = [resp EXCEPT ![r] = answer]
        BY <1>7 DEF WriteBlock, WriteEffect, ReplyWritten, Reply
      <4>. QED
        BY <1>7, <4>1 DEF TypeOK, Step, Answer
    <3>. QED
      BY <1>7, <2>1, <3>1, <3>2, <3>3 DEF WriteBlock, WriteEffect, TypeOK, histVars
  <2>5. ASSUME NEW u \in Req PROVE (Course(u) /\ Hands(u))'
    BY <1>7, <2>1, SMTT(30) DEF WriteBlock, WriteEffect, ReplyWritten, Reply, TypeOK, Shape,
       Course, Hands, histVars
  <2>. QED
    BY <2>3, <2>4, <2>5
<1>8. ASSUME NEW r \in Req, WriteFails(r) PROVE CallInv'
  <2>1. TurnOK
    BY <1>8, Turn DEF WriteFails, ReplyWritten, Step, Answer
  <2>2. /\ UNCHANGED <<fileVars, callVars, before, touched, removed, shared, crashes>>
        /\ faulted' = faulted \cup {r}
    BY <1>8 DEF WriteFails, Fails
  <2>3. TypeOK' /\ Shape'
    BY <2>1, <2>2 DEF fileVars, callVars, TypeOK, TurnOK, Shape
  <2>4. /\ \A v \in Req \ {r} : pc'[v] = pc[v] /\ resp'[v] = resp[v]
        /\ pc'[r] = "done" /\ (resp'[r] = "created" => job[r].method = "POST" /\ id[r] # 0)
    BY <1>8 DEF WriteFails, ReplyWritten, GoTo, Reply, TypeOK, Course
  <2>5. ASSUME NEW u \in Req PROVE (Course(u) /\ Hands(u))'
    BY <1>8, <2>2, <2>4 DEF WriteFails, fileVars, callVars, Course, Hands
  <2>. QED
    BY <2>3, <2>5
<1>9. ASSUME NEW r \in Req, CheckExists(r) PROVE CallInv'
  <2>1. TypeOK'
    <3>1. AfterCheck[job[r].method] \in Step \ {"done", "write"}
      BY <1>9, CheckGoesOn DEF CheckExists, Course, Step
    <3>2. TurnOK
      BY <1>9, <3>1, Turn DEF CheckExists, Answer
    <3>. QED
      BY <1>9, <3>2 DEF CheckExists, fileVars, callVars, histVars, TypeOK, TurnOK
  <2>2. Shape'
    BY <1>9, CheckGoesOn DEF CheckExists, GoTo, Reply, fileVars, callVars, histVars, Shape, Hands
  <2>3. ASSUME NEW u \in Req PROVE (Course(u) /\ Hands(u))'
    BY <1>9, CheckGoesOn, SMTT(30) DEF CheckExists, GoTo, Reply, fileVars, callVars, histVars,
       TypeOK, Shape, Course, Hands, Job
  <2>. QED
    BY <2>1, <2>2, <2>3
<1>10. ASSUME NEW r \in Req, CheckDirectory(r) PROVE CallInv'
  <2>1. TypeOK'
    BY <1>10 DEF CheckDirectory, GoTo, IsDirectory, fileVars, callVars, histVars, TypeOK, Shape,
       Course, Hands, Step, Answer, Path, Job
  <2>2. Shape'
    BY <1>10 DEF CheckDirectory, GoTo, IsDirectory, fileVars, callVars, histVars, Shape, Hands
  <2>3. ASSUME NEW u \in Req PROVE (Course(u) /\ Hands(u))'
    BY <1>10 DEF CheckDirectory, GoTo, IsDirectory, fileVars, callVars, histVars, TypeOK, Shape,
       Course, Hands, Job
  <2>. QED
    BY <2>1, <2>2, <2>3
<1>11. ASSUME NEW r \in Req, CheckRegularFile(r) PROVE CallInv'
  <2>1. TypeOK'
    <3>1. TurnOK
      BY <1>11, Turn DEF CheckRegularFile, Step, Answer
    <3>. QED
      BY <1>11, <3>1 DEF CheckRegularFile, fileVars, callVars, histVars, TypeOK, TurnOK
  <2>2. Shape'
    BY <1>11 DEF CheckRegularFile, GoTo, Reply, fileVars, callVars, histVars, Shape, Hands
  <2>3. ASSUME NEW u \in Req PROVE (Course(u) /\ Hands(u))'
    BY <1>11, SMTT(30) DEF CheckRegularFile, GoTo, Reply, HasFile, fileVars, callVars, histVars,
       TypeOK, Shape, Course, Hands, Job
  <2>. QED
    BY <2>1, <2>2, <2>3
<1>12. ASSUME NEW r \in Req, OpenForReading(r) PROVE CallInv'
  <2>4. id[r] # 0 /\ (HasFile(r) => inode[At(r)] \in Req)
    <3>1. id[r] # 0 /\ At(r) \in Path
      BY <1>12, SamePath DEF OpenForReading, Course
    <3>. QED
      BY <3>1 DEF HasFile, TypeOK
  <2>1. TypeOK'
    <3>1. TurnOK
      BY <1>12, Turn DEF OpenForReading, Step, Answer
    <3>2. fd' \in [Req -> Req \cup {NoFile}]
      BY <1>12, <2>4 DEF OpenForReading, TypeOK
    <3>. QED
      BY <1>12, <3>1, <3>2 DEF OpenForReading, fileVars, histVars, TypeOK, TurnOK
  <2>2. Shape'
    BY <1>12 DEF OpenForReading, GoTo, Reply, fileVars, callVars, histVars, Shape, Hands
  <2>3. ASSUME NEW u \in Req PROVE (Course(u) /\ Hands(u))'
    BY <1>12, <2>4 DEF OpenForReading, GoTo, Reply, fileVars, histVars, TypeOK, Course, Hands
  <2>. QED
    BY <2>1, <2>2, <2>3
<1>13. ASSUME NEW r \in Req, ReadBlock(r) PROVE CallInv'
  <2>2. Shape'
    <3>1. fd[r] \in Req /\ blocks[fd[r]] \in Seq(Req \cup {Hole})
      BY <1>13 DEF ReadBlock, Hands, Shape
    <3>2. got[r] \in Seq(Req \cup {Hole}) /\ DOMAIN got = Req
      BY DEF Shape
    <3>3. CASE Len(got[r]) + 1 \in DOMAIN blocks[fd[r]]
      <4>. DEFINE block == blocks[fd[r]][Len(got[r]) + 1]
      <4>1. block \in Req \cup {Hole} /\ got' = [got EXCEPT ![r] = Append(@, block)]
        BY <1>13, <3>1, <3>3 DEF ReadBlock
      <4>2. Append(got[r], block) \in Seq(Req \cup {Hole})
        BY <3>2, <4>1
      <4>. HIDE DEF block
      <4>. QED
        BY <1>13, <4>1, <4>2 DEF ReadBlock, fileVars, Shape
    <3>4. CASE Len(got[r]) + 1 \notin DOMAIN blocks[fd[r]]
      BY <1>13, <3>4 DEF ReadBlock, fileVars, Shape
    <3>. QED
      BY <3>3, <3>4
  <2>1. TypeOK'
    <3>1. TurnOK
      BY <1>13, Turn DEF ReadBlock, Answer
    <3>2. \A u \in Req : \A i \in DOMAIN got'[u] : got'[u][i] \in Req \cup {Hole}
      BY <2>2 DEF Shape
    <3>. QED
      BY <1>13, <3>1, <3>2 DEF ReadBlock, fileVars, histVars, TypeOK, TurnOK
  <2>3. ASSUME NEW u \in Req PROVE (Course(u) /\ Hands(u))'
    <3>1. /\ \A v \in Req \ {r} : pc'[v] = pc[v] /\ got'[v] = got[v] /\ resp'[v] = resp[v]
          /\ pc'[r] \in {"read", "done"} /\ resp'[r] # "created"
      BY <1>13, SMTT(30) DEF ReadBlock, Reply, TypeOK, Shape
    <3>. QED
      BY <1>13, <3>1 DEF ReadBlock, fileVars, histVars, Course, Hands
  <2>. QED
    BY <2>1, <2>2, <2>3
<1>14. ASSUME NEW r \in Req, ListDirectory(r) PROVE CallInv'
  <2>1. TypeOK'
    BY <1>14 DEF ListDirectory, ListEffect, GoTo, Files, fileVars, callVars, histVars, TypeOK,
       Shape, Course, Hands, Step, Answer, Path, Job
  <2>2. Shape'
    BY <1>14 DEF ListDirectory, ListEffect, GoTo, Files, fileVars, callVars, histVars, Shape, Hands
  <2>3. ASSUME NEW u \in Req PROVE (Course(u) /\ Hands(u))'
    BY <1>14 DEF ListDirectory, ListEffect, GoTo, Files, fileVars, callVars, histVars, TypeOK,
       Shape, Course, Hands, Job
  <2>. QED
    BY <2>1, <2>2, <2>3
<1>15. ASSUME NEW r \in Req, ListEntry(r) PROVE CallInv'
  <2>1. TypeOK'
    BY <1>15 DEF ListEntry, fileVars, callVars, histVars, TypeOK, Shape, Course, Hands, Step,
       Answer, Path, Job
  <2>2. Shape'
    BY <1>15 DEF ListEntry, fileVars, callVars, histVars, Shape, Hands
  <2>3. ASSUME NEW u \in Req PROVE (Course(u) /\ Hands(u))'
    BY <1>15 DEF ListEntry, fileVars, callVars, histVars, TypeOK, Shape, Course, Hands, Job
  <2>. QED
    BY <2>1, <2>2, <2>3
<1>16. ASSUME NEW r \in Req, ListEnds(r) PROVE CallInv'
  <2>1. TypeOK'
    BY <1>16 DEF ListEnds, Reply, fileVars, callVars, histVars, TypeOK, Shape, Course, Hands,
       Step, Answer, Path, Job
  <2>2. Shape'
    BY <1>16 DEF ListEnds, Reply, fileVars, callVars, histVars, Shape, Hands
  <2>3. ASSUME NEW u \in Req PROVE (Course(u) /\ Hands(u))'
    BY <1>16 DEF ListEnds, Reply, fileVars, callVars, histVars, TypeOK, Shape, Course, Hands, Job
  <2>. QED
    BY <2>1, <2>2, <2>3
<1>17. ASSUME NEW r \in Req, RemovesFile(r) \/ RemovesFolder(r) PROVE CallInv'
  <2>1. TurnOK
    <3>1. pc[r] = "remove" /\ \E answer \in {"ok", "error", "thrown"} : Reply(r, answer)
      BY <1>17 DEF RemovesFile, RemoveFile, RemovesFolder, RemoveDirectory
    <3>. QED
      BY <3>1, Turn DEF Answer
  <2>2. /\ UNCHANGED <<dirs, blocks, callVars, before, touched, shared, faulted, crashes>>
        /\ id[r] # 0 /\ At(r) \in Path /\ removed' \in SUBSET Path
        /\ inode' \in [Path -> Req \cup {NoFile}] /\ folders' \subseteq folders
        /\ \A p \in Path : inode'[p] # NoFile => inode[p] # NoFile
    <3>1. id[r] # 0 /\ At(r) \in Path
      BY <1>17, SamePath DEF RemovesFile, RemoveFile, RemovesFolder, RemoveDirectory, Course
    <3>. QED
      BY <1>17, <3>1 DEF RemovesFile, RemoveFile, RemovesFolder, RemoveDirectory, TypeOK
  <2>3. TypeOK' /\ Shape'
    BY <2>1, <2>2 DEF callVars, TypeOK, TurnOK, Shape
  <2>4. /\ \A v \in Req \ {r} : pc'[v] = pc[v] /\ resp'[v] = resp[v]
        /\ pc'[r] = "done" /\ resp'[r] # "created"
    BY <1>17 DEF RemovesFile, RemoveFile, RemovesFolder, RemoveDirectory, Reply, TypeOK
  <2>5. ASSUME NEW u \in Req PROVE (Course(u) /\ Hands(u))'
    BY <2>2, <2>4 DEF callVars, Course, Hands
  <2>. QED
    BY <2>3, <2>5
<1>18. CASE Crash
  <2>1. TypeOK'
    BY <1>18 DEF Crash, fileVars, callVars, TypeOK, Step, Answer
  <2>2. Shape'
    BY <1>18 DEF Crash, fileVars, callVars, Shape
  <2>3. ASSUME NEW u \in Req PROVE (Course(u) /\ Hands(u))'
    BY <1>18 DEF Crash, fileVars, callVars, TypeOK, Course, Hands
  <2>. QED
    BY <2>1, <2>2, <2>3
<1>19. CASE UNCHANGED vars
  <2>1. TypeOK' /\ Shape'
    BY <1>19 DEF vars, fileVars, callVars, histVars, TypeOK, Shape
  <2>2. ASSUME NEW u \in Req PROVE (Course(u) /\ Hands(u))'
    BY <1>19 DEF vars, fileVars, callVars, histVars, Course, Hands
  <2>. QED
    BY <2>1, <2>2
<1>20. ASSUME NEW r \in Req, ExistsFails(r) PROVE CallInv'
  <2>1. TurnOK
    BY <1>20, Turn DEF ExistsFails, ReplyWritten, Step, Answer
  <2>2. /\ UNCHANGED <<fileVars, callVars, before, touched, removed, shared, crashes>>
        /\ faulted' = faulted \cup {r}
    BY <1>20 DEF ExistsFails, Fails
  <2>3. TypeOK' /\ Shape'
    BY <2>1, <2>2 DEF fileVars, callVars, TypeOK, TurnOK, Shape
  <2>4. /\ \A v \in Req \ {r} : pc'[v] = pc[v] /\ resp'[v] = resp[v]
        /\ \/ pc'[r] = "mkdir" /\ resp'[r] = resp[r] /\ job[r].method = "POST" /\ id[r] # 0
           \/ pc'[r] = "done" /\ resp'[r] = "missing"
    BY <1>20 DEF ExistsFails, ReplyWritten, GoTo, Reply, TypeOK, Course
  <2>5. ASSUME NEW u \in Req PROVE (Course(u) /\ Hands(u))'
    BY <1>20, <2>2, <2>4 DEF ExistsFails, fileVars, callVars, Course, Hands
  <2>. QED
    BY <2>3, <2>5
<1>21. ASSUME NEW r \in Req, Throws(r) PROVE CallInv'
  <2>1. TurnOK
    BY <1>21, Turn DEF Throws, ReplyWritten, Step, Answer
  <2>2. /\ UNCHANGED <<fileVars, callVars, before, touched, removed, shared, crashes>>
        /\ faulted' = faulted \cup {r}
    BY <1>21 DEF Throws, Fails
  <2>3. TypeOK' /\ Shape'
    BY <2>1, <2>2 DEF fileVars, callVars, TypeOK, TurnOK, Shape
  <2>4. /\ \A v \in Req \ {r} : pc'[v] = pc[v] /\ resp'[v] = resp[v]
        /\ pc'[r] = "done" /\ resp'[r] = "thrown"
    BY <1>21 DEF Throws, ReplyWritten, GoTo, Reply, TypeOK, Course
  <2>5. ASSUME NEW u \in Req PROVE (Course(u) /\ Hands(u))'
    BY <1>21, <2>2, <2>4 DEF Throws, fileVars, callVars, Course, Hands
  <2>. QED
    BY <2>3, <2>5
<1>22. ASSUME NEW r \in Req, ReadFails(r) PROVE CallInv'
  <2>1. TurnOK
    BY <1>22, Turn DEF ReadFails, ReplyWritten, Step, Answer
  <2>2. /\ UNCHANGED <<fileVars, callVars, before, touched, removed, shared, crashes>>
        /\ faulted' = faulted \cup {r}
    BY <1>22 DEF ReadFails, Fails
  <2>3. TypeOK' /\ Shape'
    BY <2>1, <2>2 DEF fileVars, callVars, TypeOK, TurnOK, Shape
  <2>4. /\ \A v \in Req \ {r} : pc'[v] = pc[v] /\ resp'[v] = resp[v]
        /\ pc'[r] = "done" /\ resp'[r] # "created"
    BY <1>22 DEF ReadFails, ReplyWritten, GoTo, Reply, TypeOK, Course
  <2>5. ASSUME NEW u \in Req PROVE (Course(u) /\ Hands(u))'
    BY <1>22, <2>2, <2>4 DEF ReadFails, fileVars, callVars, Course, Hands
  <2>. QED
    BY <2>3, <2>5
<1>23. ASSUME NEW r \in Req, ListBelow(r) PROVE CallInv'
  <2>1. TurnOK
    BY <1>23, Turn DEF ListBelow, Answer
  <2>2. TypeOK' /\ Shape'
    BY <1>23, <2>1 DEF ListBelow, fileVars, callVars, histVars, TypeOK, TurnOK, Shape
  <2>3. ASSUME NEW u \in Req PROVE (Course(u) /\ Hands(u))'
    BY <1>23 DEF ListBelow, Reply, fileVars, callVars, histVars, TypeOK, Course, Hands
  <2>. QED
    BY <2>2, <2>3
<1>. QED
  BY <1>1, <1>2, <1>3, <1>4, <1>5, <1>6, <1>7, <1>8, <1>9, <1>10, <1>11, <1>12, <1>13, <1>14,
     <1>15, <1>16, <1>17, <1>18, <1>19, <1>20, <1>21, <1>22, <1>23,
     RemoveSplits DEF Next, Run

-----------------------------------------------------------------------------
(* The files. *)

(***************************************************************************)
(* Who opened a file for writing works on that path, opened the file of a  *)
(* request that did so, and ends when its body is written, or by a fault.  *)
(***************************************************************************)
Writes(w, p) ==
  /\ At(w) = p /\ fd[w] \in touched[p]
  /\ job[w].method \in {"POST", "PUT"}
  /\ pc[w] \in {"write", "done"}
  /\ pc[w] = "done" => written[w] = Size[w] \/ w \in faulted \/ resp[w] = "cut"

(* A file that was never shared is what its last writer has written so far. *)
LastWriter(p, w) ==
  /\ w \in touched[p] /\ fd[w] = inode[p]
  /\ blocks[inode[p]] = Alone(w, written[w])
  /\ \A u \in Req \ {w} : ~(pc[u] = "write" /\ fd[u] = inode[p])

FileInv ==
  /\ \A p \in Path : \A w \in touched[p] : Writes(w, p)
  /\ \A r \in Req : pc[r] = "write" => r \in touched[At(r)]
  /\ \A r \in Req : Created(r) /\ r \notin faulted =>
       r \in touched[At(r)] \/ At(r) \in folders \cup removed
  /\ \A p \in Path : touched[p] # {} => inode[p] # NoFile \/ p \in removed
  /\ \A p \in Path : inode[p] # NoFile => inode[p] \in touched[p]
  /\ \A f \in shared : \E p \in Path : f \in touched[p] /\ touched[p] # {f}
  /\ \A p \in Path : inode[p] # NoFile /\ inode[p] \notin shared => \E w \in Req : LastWriter(p, w)

(***************************************************************************)
(* A call of a request that has not opened a file for writing, and does    *)
(* not open one, leaves the files and those who write them alone: what it  *)
(* creates, if anything, is a directory already.                           *)
(***************************************************************************)
LEMMA QuietCall ==
  ASSUME CallInv, FileInv, NEW r \in Req, pc[r] \notin {"write", "done"},
         UNCHANGED <<inode, blocks, touched, shared, job>>,
         faulted \subseteq faulted', removed \subseteq removed',
         folders \subseteq folders' \cup removed',
         \A u \in Req \ {r} :
           /\ id'[u] = id[u] /\ fd'[u] = fd[u] /\ written'[u] = written[u]
           /\ pc'[u] = pc[u] /\ resp'[u] = resp[u],
         pc'[r] # "write", Created(r)' => At(r)' \in folders'
  PROVE  FileInv'
<1>1. \A p \in Path : touched[p] \subseteq Req /\ r \notin touched[p]
  BY DEF FileInv, Writes, CallInv, TypeOK
<1>2. \A u \in Req \ {r} : At(u)' = At(u) /\ (Created(u)' <=> Created(u))
  BY SamePath DEF At, Created
<1>3. \A p \in Path : \A w \in touched[p] : Writes(w, p)'
  BY <1>1, <1>2 DEF FileInv, Writes
<1>4. \A u \in Req : /\ pc'[u] = "write" => u \in touched[At(u)']
                     /\ Created(u)' /\ u \notin faulted' =>
                          u \in touched[At(u)'] \/ At(u)' \in folders' \cup removed'
  BY <1>2 DEF FileInv
<1>5. \A p \in Path : \A w \in Req : LastWriter(p, w) => LastWriter(p, w)'
  BY <1>1 DEF LastWriter
<1>. QED
  BY <1>3, <1>4, <1>5 DEF FileInv

LEMMA OpenKeepsFiles ==
  ASSUME CallInv, FileInv, NEW r \in Req, OpenForWriting(r)
  PROVE  FileInv'
<1>. DEFINE f == File(r)
            p0 == At(r)
<1>1. pc[r] = "open" /\ id[r] # 0 /\ p0 \in Path /\ written[r] = 0
  BY SamePath DEF OpenForWriting, OpenEffect, IsDirectory, CallInv, Hands
<1>2. \A p \in Path : touched[p] \subseteq Req /\ r \notin touched[p]
  BY <1>1 DEF FileInv, Writes, CallInv, TypeOK
<1>3. f \in Req /\ (f = r \/ (f = inode[p0] /\ f \in touched[p0]))
  <2>1. inode[p0] \in Req \cup {NoFile} /\ (inode[p0] # NoFile => inode[p0] \in touched[p0])
    BY <1>1 DEF FileInv, CallInv, TypeOK
  <2>2. f = IF inode[p0] # NoFile THEN inode[p0] ELSE r
    BY <1>1 DEF File, HasFile
  <2>. QED
    BY <2>1, <2>2
<1>4. \A p \in Path : p # p0 => inode[p] # f
  BY <1>1, <1>2, <1>3, ApiAssumption DEF FileInv, Writes
<1>5. /\ \A p \in Path : inode'[p] = IF p = p0 THEN f ELSE inode[p]
      /\ \A p \in Path : touched'[p] = IF p = p0 THEN touched[p] \cup {r} ELSE touched[p]
      /\ \A g \in Req : blocks'[g] = IF g = f THEN <<>> ELSE blocks[g]
      /\ \A u \in Req : fd'[u] = IF u = r THEN f ELSE fd[u]
      /\ \A u \in Req : pc'[u] = IF u = r THEN "write" ELSE pc[u]
      /\ shared' = IF OpenByOther(r) THEN shared \cup {f} ELSE shared
      /\ UNCHANGED <<folders, job, id, written, resp, removed, faulted>>
  BY <1>1 DEF OpenForWriting, OpenEffect, GoTo, CallInv, TypeOK, Shape
<1>. HIDE DEF f
<1>6. \A u : At(u)' = At(u)
  BY <1>5 DEF At
<1>. HIDE DEF p0
<1>7. ASSUME NEW p \in Path, NEW w \in touched'[p] PROVE Writes(w, p)'
  <2>1. CASE w = r
    <3>1. p = p0
      BY <1>2, <1>5, <1>7, <2>1
    <3>2. f \in touched'[p0] /\ fd'[r] = f /\ pc'[r] = "write" /\ job'[r] = job[r]
      BY <1>1, <1>3, <1>5
    <3>3. job[r].method \in {"POST", "PUT"}
      BY <1>1 DEF CallInv, Course
    <3>. QED
      BY <1>6, <2>1, <3>1, <3>2, <3>3 DEF Writes, p0
  <2>2. CASE w # r
    <3>1. w \in touched[p] /\ Writes(w, p) /\ w \in Req
      <4>1. w \in touched[p]
        BY <1>5, <1>7, <2>2
      <4>. QED
        BY <1>2, <4>1 DEF FileInv
    <3>2. touched[p] \subseteq touched'[p]
      BY <1>5
    <3>. QED
      BY <1>5, <1>6, <2>2, <3>1, <3>2 DEF Writes
  <2>. QED
    BY <2>1, <2>2
<1>8. ASSUME NEW u \in Req, pc'[u] = "write" \/ (Created(u)' /\ u \notin faulted')
      PROVE  \/ u \in touched'[At(u)']
             \/ pc'[u] # "write" /\ At(u)' \in folders' \cup removed'
  <2>1. CASE u = r
    BY <1>1, <1>5, <1>6, <2>1 DEF p0
  <2>2. CASE u # r
    <3>1. pc'[u] = pc[u] /\ (pc[u] = "write" \/ (Created(u) /\ u \notin faulted))
      BY <1>5, <1>8, <2>2 DEF Created
    <3>2. u \in touched[At(u)] \/ (pc[u] # "write" /\ At(u) \in folders \cup removed)
      BY <3>1 DEF FileInv
    <3>3. At(u) \in Path
      BY <3>1, SamePath DEF CallInv, Course, Created
    <3>4. At(u)' = At(u) /\ removed' = removed /\ folders' = folders
      BY <1>5, <1>6
    <3>5. touched[At(u)] \subseteq touched'[At(u)]
      BY <1>5, <3>3
    <3>6. CASE u \in touched[At(u)]
      BY <3>4, <3>5, <3>6
    <3>7. CASE pc[u] # "write" /\ At(u) \in folders \cup removed
      <4>1. pc'[u] # "write" /\ At(u)' \in folders' \cup removed'
        BY <3>1, <3>4, <3>7
      <4>. QED
        BY <4>1
    <3>. QED
      BY <3>2, <3>6, <3>7
  <2>. QED
    BY <2>1, <2>2
<1>10. ASSUME NEW p \in Path
       PROVE  /\ touched'[p] # {} => inode'[p] # NoFile \/ p \in removed'
              /\ inode'[p] # NoFile => inode'[p] \in touched'[p]
  <2>1. /\ touched[p] # {} => inode[p] # NoFile \/ p \in removed
        /\ inode[p] # NoFile => inode[p] \in touched[p]
    BY DEF FileInv
  <2>2. f # NoFile
    BY <1>3, ApiAssumption
  <2>. QED
    <3>1. CASE p = p0
      <4>1. f \in touched'[p0] /\ inode'[p0] = f
        BY <1>1, <1>3, <1>5
      <4>. QED
        BY <2>2, <3>1, <4>1
    <3>2. CASE p # p0
      BY <1>5, <2>1, <3>2
    <3>. QED
      BY <3>1, <3>2
<1>11. ASSUME NEW g \in shared' PROVE \E p \in Path : g \in touched'[p] /\ touched'[p] # {g}
  <2>1. CASE g \in shared
    <3>1. PICK p \in Path : g \in touched[p] /\ touched[p] # {g}
      BY <2>1 DEF FileInv
    <3>. QED
      BY <1>5, <3>1
  <2>2. CASE g = f /\ OpenByOther(r)
    <3>1. PICK s \in Req \ {r} : pc[s] = "write" /\ fd[s] = f
      BY <2>2 DEF OpenByOther, f
    <3>2. s \in touched[At(s)] /\ At(s) \in Path
      BY <3>1, SamePath DEF FileInv, CallInv, Course
    <3>3. f \in touched[At(s)]
      BY <3>1, <3>2 DEF FileInv, Writes
    <3>4. f = inode[p0] /\ f \in touched[p0] /\ f # r
      BY <1>2, <1>3, <3>2, <3>3
    <3>5. r \in touched'[p0] /\ f \in touched'[p0] /\ p0 \in Path
      BY <1>1, <1>5, <3>4
    <3>. QED
      BY <2>2, <3>4, <3>5
  <2>. QED
    BY <1>5, <1>11, <2>1, <2>2
<1>12. ASSUME NEW p \in Path, inode'[p] # NoFile, inode'[p] \notin shared'
       PROVE  \E w \in Req : LastWriter(p, w)'
  <2>1. CASE p = p0
    <3>1. ~OpenByOther(r)
      BY <1>5, <1>12, <2>1
    <3>2. \A u \in Req \ {r} : ~(pc[u] = "write" /\ fd[u] = f)
      BY <3>1 DEF OpenByOther, f
    <3>3. Alone(r, 0) = <<>>
      BY DEF Alone
    <3>4. inode'[p] = f /\ r \in touched'[p] /\ fd'[r] = f /\ blocks'[f] = <<>> /\ written'[r] = 0
      BY <1>1, <1>3, <1>5, <2>1
    <3>5. \A u \in Req \ {r} : ~(pc'[u] = "write" /\ fd'[u] = f)
      BY <1>5, <3>2
    <3>. QED
      BY <3>3, <3>4, <3>5 DEF LastWriter
  <2>2. CASE p # p0
    <3>1. inode'[p] = inode[p] /\ inode[p] # f /\ inode[p] \notin shared
      BY <1>4, <1>5, <1>12, <2>2
    <3>2. PICK w \in Req : LastWriter(p, w)
      BY <1>12, <3>1 DEF FileInv
    <3>3. w # r /\ inode[p] \in Req
      BY <1>2, <1>12, <3>1, <3>2 DEF LastWriter, CallInv, TypeOK
    <3>4. touched'[p] = touched[p] /\ blocks'[inode[p]] = blocks[inode[p]] /\ fd'[w] = fd[w]
      BY <1>5, <2>2, <3>1, <3>3
    <3>5. \A u \in Req \ {w} : ~(pc'[u] = "write" /\ fd'[u] = inode[p])
      BY <1>5, <3>1, <3>2 DEF LastWriter
    <3>. QED
      BY <1>5, <3>1, <3>2, <3>4, <3>5 DEF LastWriter
  <2>. QED
    BY <2>1, <2>2
<1>. QED
  BY <1>7, <1>8, <1>10, <1>11, <1>12 DEF FileInv

LEMMA WriteKeepsFiles ==
  ASSUME CallInv, FileInv, NEW r \in Req, WriteBlock(r)
  PROVE  FileInv'
<1>. DEFINE f == fd[r]
<1>1. pc[r] = "write" /\ f \in Req /\ r \in touched[At(r)] /\ At(r) \in Path
  BY SamePath DEF WriteBlock, WriteEffect, FileInv, CallInv, Hands, Course
<1>2. /\ \A g \in Req : blocks'[g] = IF g = f THEN Put(blocks[f], written[r] + 1, r) ELSE blocks[g]
      /\ \A u \in Req : written'[u] = IF u = r THEN written[r] + 1 ELSE written[u]
      /\ \A u \in Req \ {r} : pc'[u] = pc[u] /\ resp'[u] = resp[u]
      /\ \/ pc'[r] = "write" /\ resp'[r] = resp[r]
         \/ pc'[r] = "done" /\ written'[r] = Size[r]
      /\ UNCHANGED <<folders, inode, touched, removed, shared, faulted, job, id, fd>>
  BY <1>1 DEF WriteBlock, WriteEffect, ReplyWritten, Reply, histVars, CallInv, TypeOK, Shape
<1>3. \A u : At(u)' = At(u)
  BY <1>2 DEF At
<1>4. \A p \in Path : touched[p] \subseteq Req
  BY DEF CallInv, TypeOK
<1>. HIDE DEF f
<1>5. \A p \in Path : \A w \in touched[p] : Writes(w, p)'
  BY <1>1, <1>2, <1>3, <1>4 DEF FileInv, Writes
<1>6. \A u \in Req : /\ pc'[u] = "write" => u \in touched[At(u)]
                     /\ Created(u)' /\ u \notin faulted =>
                          u \in touched[At(u)] \/ At(u) \in folders \cup removed
  BY <1>1, <1>2 DEF FileInv, Created
<1>7. ASSUME NEW p \in Path, NEW w \in Req, inode[p] # NoFile, LastWriter(p, w) PROVE LastWriter(p, w)'
  <2>1. inode[p] \in Req
    BY <1>7 DEF CallInv, TypeOK
  <2>2. CASE inode[p] = f
    <3>1. w = r
      BY <1>1, <1>7, <2>2 DEF LastWriter, f
    <3>2. blocks'[f] = Alone(r, written'[r])
      BY <1>1, <1>2, <1>7, <2>2, <3>1, PutAlone DEF LastWriter, CallInv, Shape
    <3>. QED
      BY <1>1, <1>2, <1>7, <2>2, <3>1, <3>2 DEF LastWriter
  <2>3. CASE inode[p] # f
    <3>1. w # r
      BY <1>7, <2>3 DEF LastWriter, f
    <3>. QED
      BY <1>1, <1>2, <1>7, <2>1, <2>3, <3>1 DEF LastWriter, f
  <2>. QED
    BY <2>2, <2>3
<1>. QED
  BY <1>2, <1>3, <1>5, <1>6, <1>7 DEF FileInv

LEMMA FailKeepsFiles ==
  ASSUME CallInv, FileInv, NEW r \in Req, WriteFails(r)
  PROVE  FileInv'
<1>1. /\ \A u \in Req \ {r} : pc'[u] = pc[u] /\ resp'[u] = resp[u]
      /\ pc'[r] = "done" /\ faulted' = faulted \cup {r} /\ pc[r] \in {"open", "write"}
      /\ UNCHANGED <<folders, inode, blocks, touched, removed, shared, job, id, fd, written>>
  BY DEF WriteFails, Fails, ReplyWritten, Reply, fileVars, callVars, CallInv, TypeOK
<1>2. \A u : At(u)' = At(u)
  BY <1>1 DEF At
<1>3. \A p \in Path : touched[p] \subseteq Req
  BY DEF CallInv, TypeOK
<1>4. \A p \in Path : \A w \in touched[p] : Writes(w, p)'
  BY <1>1, <1>2, <1>3 DEF FileInv, Writes
<1>5. \A p \in Path, w \in Req : LastWriter(p, w) => LastWriter(p, w)'
  BY <1>1 DEF LastWriter
<1>6. \A u \in Req : /\ pc'[u] = "write" => u \in touched[At(u)]
                     /\ Created(u)' /\ u \notin faulted' =>
                          u \in touched[At(u)] \/ At(u) \in folders \cup removed
  BY <1>1 DEF FileInv, Created
<1>. QED
  BY <1>1, <1>2, <1>4, <1>5, <1>6 DEF FileInv

LEMMA RemoveKeepsFiles ==
  ASSUME CallInv, FileInv, NEW r \in Req, RemovesFile(r)
  PROVE  FileInv'
<1>. DEFINE p0 == At(r)
<1>1. p0 \in Path /\ pc[r] = "remove" /\ id[r] # 0
  BY SamePath DEF RemovesFile, RemoveFile, CallInv, Course
<1>2. /\ \A u \in Req \ {r} : pc'[u] = pc[u] /\ resp'[u] = resp[u]
      /\ pc'[r] = "done" /\ resp'[r] # "created"
      /\ \A p \in Path : inode'[p] = IF p = p0 THEN NoFile ELSE inode[p]
      /\ removed' = IF inode[p0] # NoFile THEN removed \cup {p0} ELSE removed
      /\ UNCHANGED <<folders, blocks, touched, shared, faulted, job, id, fd, written>>
  BY <1>1 DEF RemovesFile, RemoveFile, Reply, HasFile, callVars, CallInv, TypeOK
<1>3. \A u : At(u)' = At(u)
  BY <1>2 DEF At
<1>4. \A p \in Path : touched[p] \subseteq Req /\ r \notin touched[p]
  BY <1>1 DEF FileInv, Writes, CallInv, TypeOK
<1>. HIDE DEF p0
<1>5. \A p \in Path : \A w \in touched[p] : Writes(w, p)'
  BY <1>2, <1>3, <1>4 DEF FileInv, Writes
<1>6. \A p \in Path, w \in Req : p # p0 /\ LastWriter(p, w) => LastWriter(p, w)'
  BY <1>2, <1>4 DEF LastWriter
<1>7. \A u \in Req : /\ pc'[u] = "write" => u \in touched[At(u)]
                     /\ Created(u)' /\ u \notin faulted' =>
                          u \in touched[At(u)] \/ At(u) \in folders' \cup removed'
  BY <1>2 DEF FileInv, Created
<1>. QED
  BY <1>2, <1>3, <1>5, <1>6, <1>7 DEF FileInv

LEMMA CrashKeepsFiles ==
  ASSUME CallInv, FileInv, Crash
  PROVE  FileInv'
<1>1. /\ \A u \in Req : pc'[u] = IF pc[u] = "idle" THEN "idle" ELSE "done"
      /\ \A u \in Req : resp'[u] = IF pc[u] \notin {"idle", "done"} THEN "cut" ELSE resp[u]
      /\ UNCHANGED <<folders, inode, blocks, touched, removed, shared, faulted, job, id, fd, written>>
  BY DEF Crash, fileVars, callVars
<1>2. \A u : At(u)' = At(u)
  BY <1>1 DEF At
<1>3. \A p \in Path : touched[p] \subseteq Req
  BY DEF CallInv, TypeOK
<1>4. \A p \in Path : \A w \in touched[p] : Writes(w, p)'
  BY <1>1, <1>2, <1>3 DEF FileInv, Writes
<1>5. \A p \in Path, w \in Req : LastWriter(p, w) => LastWriter(p, w)'
  BY <1>1 DEF LastWriter
<1>6. \A u \in Req : pc'[u] # "write" /\ (Created(u)' => Created(u))
  BY <1>1 DEF Created
<1>. QED
  BY <1>1, <1>2, <1>4, <1>5, <1>6 DEF FileInv

-----------------------------------------------------------------------------
(* All steps. *)

(***************************************************************************)
(* A call that touches no file, and by which its request creates none.     *)
(***************************************************************************)
Quiet(r) ==
  /\ pc[r] \notin {"write", "done"}
  /\ UNCHANGED <<inode, blocks, touched, shared, job, written>>
  /\ faulted \subseteq faulted' /\ removed \subseteq removed' /\ folders \subseteq folders' \cup removed'
  /\ \A u \in Req \ {r} :
       /\ id'[u] = id[u] /\ fd'[u] = fd[u] /\ got'[u] = got[u]
       /\ entries'[u] = entries[u] /\ listed'[u] = listed[u]
       /\ pc'[u] = pc[u] /\ resp'[u] = resp[u] /\ before'[u] = before[u]
  /\ pc'[r] # "write" /\ (Created(r)' => At(r)' \in folders')

QuietAction(r) ==
  \/ HandleRequest(r) \/ Decline(r) \/ Probe(r) \/ CreateDirectories(r) \/ OpenElsewhere(r)
  \/ CheckExists(r) \/ CheckDirectory(r) \/ CheckRegularFile(r)
  \/ OpenForReading(r) \/ ReadBlock(r) \/ ListDirectory(r) \/ ListEntry(r) \/ ListEnds(r)
  \/ ExistsFails(r) \/ Throws(r) \/ ReadFails(r) \/ ListBelow(r) \/ RemovesFolder(r)

LEMMA QuietSteps ==
  ASSUME CallInv, NEW r \in Req, QuietAction(r)
  PROVE  Quiet(r)
<1>. USE DEF CallInv, TypeOK, Shape, Quiet, Created, GoTo, Reply, fileVars, callVars, histVars
<1>1. CASE HandleRequest(r)
  BY <1>1 DEF HandleRequest
<1>2. CASE Decline(r)
  BY <1>2 DEF Decline
<1>3. CASE Probe(r)
  BY <1>3 DEF Probe
<1>4. CASE CreateDirectories(r)
  BY <1>4 DEF CreateDirectories
<1>5. CASE OpenElsewhere(r)
  <2>1. Created(r)' => At(r)' \in folders'
    BY <1>5 DEF OpenElsewhere, ReplyWritten, IsDirectory, PostsBelow, Course, At
  <2>. HIDE DEF Created
  <2>. QED
    BY <1>5, <2>1 DEF OpenElsewhere, ReplyWritten
<1>6. CASE CheckExists(r)
  <2>1. AfterCheck[job[r].method] # "write"
    BY <1>6, CheckGoesOn DEF CheckExists, Course
  <2>. QED
    BY <1>6, <2>1 DEF CheckExists
<1>7. CASE CheckDirectory(r)
  BY <1>7 DEF CheckDirectory
<1>8. CASE CheckRegularFile(r)
  BY <1>8 DEF CheckRegularFile
<1>9. CASE OpenForReading(r)
  BY <1>9 DEF OpenForReading
<1>10. CASE ReadBlock(r)
  BY <1>10 DEF ReadBlock
<1>11. CASE ListDirectory(r)
  BY <1>11 DEF ListDirectory, ListEffect
<1>12. CASE ListEntry(r)
  BY <1>12 DEF ListEntry
<1>13. CASE ListEnds(r)
  BY <1>13 DEF ListEnds
<1>14. CASE ExistsFails(r)
  BY <1>14 DEF ExistsFails, Fails
<1>15. CASE Throws(r)
  BY <1>15 DEF Throws, Fails
<1>16. CASE ReadFails(r)
  BY <1>16 DEF ReadFails, Fails
<1>17. CASE ListBelow(r)
  BY <1>17 DEF ListBelow
<1>18. CASE RemovesFolder(r)
  BY <1>18 DEF RemovesFolder, RemoveDirectory
<1>. QED
  BY <1>1, <1>2, <1>3, <1>4, <1>5, <1>6, <1>7, <1>8, <1>9, <1>10, <1>11, <1>12, <1>13, <1>14,
     <1>15, <1>16, <1>17, <1>18 DEF QuietAction

(* What no step takes back, and what is settled of a request that ended. *)
Grows ==
  /\ job' = job /\ removed \subseteq removed' /\ faulted \subseteq faulted'
  /\ folders \subseteq folders' \cup removed'
  /\ \A p \in Path : touched[p] \subseteq touched'[p]
  /\ \A u \in Req : pc[u] # "idle" => before'[u] = before[u] /\ pc'[u] # "idle"
  /\ \A u \in Req : pc[u] = "done" =>
       /\ pc'[u] = "done" /\ resp'[u] = resp[u] /\ id'[u] = id[u] /\ fd'[u] = fd[u]
       /\ written'[u] = written[u] /\ got'[u] = got[u] /\ listed'[u] = listed[u]
       /\ \A p \in Path : u \in touched'[p] => u \in touched[p]

LEMMA StepGrows == CallInv /\ [Next]_vars => Grows
<1>. SUFFICES ASSUME CallInv, [Next]_vars PROVE Grows
  OBVIOUS
<1>. USE DEF CallInv, TypeOK, Shape, Grows
<1>1. ASSUME NEW r \in Req, QuietAction(r) PROVE Grows
  <2>1. Quiet(r)
    BY <1>1, QuietSteps
  <2>2. pc[r] # "idle" => before'[r] = before[r] /\ pc'[r] # "idle"
    BY <1>1 DEF QuietAction, HandleRequest, Decline, Probe, CreateDirectories, OpenElsewhere,
       CheckExists, CheckDirectory, CheckRegularFile, OpenForReading, ReadBlock, ListDirectory,
       ListEffect, ListEntry, ListEnds, ListBelow, ExistsFails, Throws, ReadFails,
       RemovesFolder, RemoveDirectory, Fails, GoTo, Reply, ReplyWritten, AfterCheck, histVars, Course
  <2>. QED
    BY <2>1, <2>2 DEF Quiet
<1>2. ASSUME NEW r \in Req, OpenForWriting(r) PROVE Grows
  BY <1>2 DEF OpenForWriting, OpenEffect, GoTo
<1>3. ASSUME NEW r \in Req, WriteBlock(r) PROVE Grows
  BY <1>3 DEF WriteBlock, WriteEffect, ReplyWritten, Reply, histVars
<1>4. ASSUME NEW r \in Req, WriteFails(r) PROVE Grows
  BY <1>4 DEF WriteFails, Fails, ReplyWritten, Reply, fileVars, callVars
<1>5. ASSUME NEW r \in Req, RemovesFile(r) PROVE Grows
  <2>1. removed \subseteq removed'
    BY <1>5 DEF RemovesFile, RemoveFile
  <2>. QED
    BY <1>5, <2>1 DEF RemovesFile, RemoveFile, Reply, callVars
<1>6. CASE Crash
  BY <1>6 DEF Crash, fileVars, callVars
<1>7. CASE UNCHANGED vars
  BY <1>7 DEF vars, fileVars, callVars, histVars
<1>. QED
  BY <1>1, <1>2, <1>3, <1>4, <1>5, <1>6, <1>7, RemoveSplits DEF Next, Run, QuietAction

(* A step is one of r's calls, a crash, or leaves what r has in its hands alone. *)
WriterAction(r) == OpenForWriting(r) \/ WriteBlock(r) \/ WriteFails(r) \/ RemovesFile(r)

Waits(r) ==
  /\ pc'[r] = pc[r] /\ resp'[r] = resp[r] /\ id'[r] = id[r] /\ fd'[r] = fd[r]
  /\ got'[r] = got[r] /\ entries'[r] = entries[r] /\ listed'[r] = listed[r]

LEMMA WhoseStep ==
  ASSUME CallInv, [Next]_vars, NEW r \in Req
  PROVE  QuietAction(r) \/ WriterAction(r) \/ Crash \/ Waits(r)
<1>. USE DEF CallInv, TypeOK
<1>1. ASSUME NEW u \in Req, u # r, QuietAction(u) PROVE Waits(r)
  BY <1>1, QuietSteps DEF Quiet, Waits
<1>2. ASSUME NEW u \in Req, u # r, WriterAction(u) PROVE Waits(r)
  BY <1>2 DEF WriterAction, OpenForWriting, OpenEffect, WriteBlock, WriteEffect, WriteFails,
     Fails, RemovesFile, RemoveFile, GoTo, Reply, ReplyWritten, callVars, Waits
<1>3. CASE UNCHANGED vars
  BY <1>3 DEF vars, callVars, Waits
<1>. QED
  BY <1>1, <1>2, <1>3, RemoveSplits DEF Next, Run, QuietAction, WriterAction

LEMMA FileNext == CallInv /\ FileInv /\ [Next]_vars => FileInv'
<1>. SUFFICES ASSUME CallInv, FileInv, [Next]_vars PROVE FileInv'
  OBVIOUS
<1>1. ASSUME NEW r \in Req, QuietAction(r) PROVE FileInv'
  <2>1. Quiet(r)
    BY <1>1, QuietSteps
  <2>. QED
    BY <2>1, QuietCall DEF Quiet
<1>2. CASE UNCHANGED vars
  <2>1. \A u : At(u)' = At(u)
    BY <1>2 DEF At, vars, callVars
  <2>2. \A p, w : (Writes(w, p)' <=> Writes(w, p)) /\ (LastWriter(p, w)' <=> LastWriter(p, w))
    BY <1>2, <2>1 DEF Writes, LastWriter, vars, fileVars, callVars, histVars
  <2>. QED
    BY <1>2, <2>1, <2>2 DEF FileInv, Created, vars, fileVars, callVars, histVars
<1>. QED
  BY <1>1, <1>2, OpenKeepsFiles, WriteKeepsFiles, FailKeepsFiles, RemoveKeepsFiles, CrashKeepsFiles,
     RemoveSplits DEF Next, Run, QuietAction

-----------------------------------------------------------------------------
(* The ids. *)

(* Who made the file or the directory at a path. *)
Makers(p) == {s \in Req : s \in touched[p]
                          \/ (PostsBelow(s) /\ <<job[s].entity, job[s].id>> = p)}

FolderInv == \A p \in folders : Makers(p) # {}

(* Each id that POST found taken was the id of a request that made it so. *)
ProbeInv ==
  \A r \in Req : pc[r] = "probe" /\ ~PostsBelow(r) =>
    \A i \in 1 .. id[r] - 1 : Makers(<<job[r].entity, i>>) # {}

LEMMA MakersGrow ==
  ASSUME Grows, NEW p \in Path, Makers(p) # {}
  PROVE  Makers(p)' # {}
BY DEF Makers, Grows, PostsBelow

(* No other request than the one that probes made what it finds. *)
LEMMA MakerIsAnother ==
  ASSUME CallInv, FileInv, NEW r \in Req, pc[r] = "probe", ~PostsBelow(r),
         NEW p \in Path, NEW s \in Makers(p)
  PROVE  s \in Req \ {r} /\ At(s) = p
<1>1. CASE s \in touched[p]
  BY <1>1 DEF Makers, FileInv, Writes
<1>2. CASE PostsBelow(s) /\ <<job[s].entity, job[s].id>> = p
  BY <1>2 DEF Makers, PostsBelow, CallInv, Course, At
<1>. QED
  BY <1>1, <1>2 DEF Makers

LEMMA FolderNext == CallInv /\ FolderInv /\ [Next]_vars => FolderInv'
<1>. SUFFICES ASSUME CallInv, FolderInv, [Next]_vars, NEW p \in folders'
              PROVE  Makers(p)' # {}
  BY DEF FolderInv
<1>1. Grows /\ folders \subseteq Path
  BY StepGrows DEF CallInv, TypeOK
<1>2. p \in folders \/ \E r \in Req : PostsBelow(r) /\ p = At(r) /\ pc[r] = "mkdir"
  BY DEF Next, Run, Crash, HandleRequest, Decline, Probe, CreateDirectories, OpenElsewhere,
     OpenForWriting, OpenEffect, WriteBlock, WriteEffect, WriteFails, CheckExists, CheckDirectory,
     CheckRegularFile, OpenForReading, ReadBlock, ListDirectory, ListEffect, ListEntry, ListEnds,
     ListBelow, ExistsFails, Throws, ReadFails, Remove, RemoveFile, RemoveDirectory, Fails, vars, fileVars
<1>3. CASE p \in folders
  BY <1>1, <1>3, MakersGrow DEF FolderInv
<1>4. ASSUME NEW r \in Req, PostsBelow(r), p = At(r) PROVE Makers(p)' # {}
  <2>1. <<job[r].entity, job[r].id>> = p
    BY <1>4 DEF CallInv, Course, PostsBelow, At
  <2>. QED
    BY <1>1, <1>4, <2>1 DEF Makers, Grows, PostsBelow
<1>. QED
  BY <1>2, <1>3, <1>4

LEMMA ProbedIdsTaken ==
  ASSUME CallInv, FileInv, FolderInv, ProbeInv,
         NEW r \in Req, pc[r] = "probe", Exists(r), ~PostsBelow(r)
  PROVE  \A i \in 1 .. id[r] : <<job[r].entity, i>> \in Path /\ Makers(<<job[r].entity, i>>) # {}
<1>1. id[r] \in Id /\ job[r].entity \in Entity /\ id[r] # 0 /\ At(r) \in Path
  BY SamePath DEF CallInv, TypeOK, Job, Course
<1>2. \A i \in 1 .. id[r] : <<job[r].entity, i>> \in Path
  BY <1>1, IdRange DEF Path, Id
<1>3. Makers(At(r)) # {}
  <2>1. CASE At(r) \in folders
    BY <2>1 DEF FolderInv
  <2>2. CASE inode[At(r)] # NoFile
    <3>1. touched[At(r)] # {} /\ touched[At(r)] \subseteq Req
      BY <1>1, <2>2 DEF FileInv, CallInv, TypeOK
    <3>. QED
      BY <3>1 DEF Makers
  <2>. QED
    BY <1>1, <2>1, <2>2 DEF Exists, IsDirectory, HasFile
<1>. QED
  BY <1>1, <1>2, <1>3, IdRange DEF ProbeInv, At

LEMMA ProbeFits == CallInv /\ FileInv /\ FolderInv /\ ProbeInv => IdFits
<1>. SUFFICES ASSUME CallInv, FileInv, FolderInv, ProbeInv,
                     NEW r \in Req, pc[r] = "probe", Exists(r), ~PostsBelow(r)
              PROVE  id[r] + 1 \in Id
  BY DEF IdFits
<1>. DEFINE n == id[r]
            P(i) == <<job[r].entity, i>>
            maker == [i \in 1 .. n |-> CHOOSE s \in Req : s \in Makers(P(i))]
<1>1. n \in Id /\ n \in 1 .. Cardinality(Req) /\ Cardinality(Req) \in Nat
  BY IdRange DEF CallInv, TypeOK, Course, Id
<1>2. ASSUME NEW i \in 1 .. n
      PROVE  maker[i] \in Req \ {r} /\ At(maker[i]) = P(i)
  <2>1. P(i) \in Path /\ Makers(P(i)) # {} /\ Makers(P(i)) \subseteq Req
    BY ProbedIdsTaken DEF Makers
  <2>2. maker[i] \in Makers(P(i))
    BY <2>1
  <2>. HIDE DEF maker
  <2>. QED
    BY <2>1, <2>2, MakerIsAnother
<1>3. \A i, j \in 1 .. n : maker[i] = maker[j] => i = j
  BY <1>2, SMTT(30)
<1>4. maker \in [1 .. n -> Req \ {r}]
  BY <1>2
<1>. HIDE DEF maker
<1>5. IsFiniteSet(Req \ {r}) /\ Cardinality(Req \ {r}) = Cardinality(Req) - 1
  BY ApiAssumption, FS_RemoveElement
<1>6. IsFiniteSet(1 .. n) /\ Cardinality(1 .. n) = n
  <2>1. n \in Int /\ 1 \in Int /\ ~(1 > n) /\ n - 1 + 1 = n
    BY <1>1
  <2>. HIDE DEF n
  <2>. QED
    BY <2>1, FS_Interval
<1>7. ~(Cardinality(Req \ {r}) < Cardinality(1 .. n))
  <2>. DEFINE S == 1 .. n
              T == Req \ {r}
  <2>. SUFFICES ASSUME Cardinality(T) < Cardinality(S) PROVE FALSE
    OBVIOUS
  <2>1. IsFiniteSet(S) /\ IsFiniteSet(T) /\ maker \in [S -> T]
    BY <1>4, <1>5, <1>6
  <2>2. \A i, j \in S : maker[i] = maker[j] => i = j
    BY <1>3
  <2>. HIDE DEF S, T
  <2>3. \E i, j \in S : i # j /\ maker[i] = maker[j]
    BY <2>1, FS_PigeonHole
  <2>. QED
    BY <2>2, <2>3
<1>. QED
  BY <1>1, <1>5, <1>6, <1>7 DEF Id

LEMMA ProbeNext == CallInv /\ FileInv /\ FolderInv /\ ProbeInv /\ [Next]_vars => ProbeInv'
<1>. SUFFICES ASSUME CallInv, FileInv, FolderInv, ProbeInv, [Next]_vars,
                     NEW r \in Req, pc'[r] = "probe", ~PostsBelow(r)'
              PROVE  \A i \in 1 .. id'[r] - 1 : Makers(<<job[r].entity, i>>)' # {}
  BY StepGrows DEF ProbeInv, Grows, Makers, PostsBelow
<1>1. Grows /\ id[r] \in Nat
  BY StepGrows, IdRange DEF CallInv, TypeOK
<1>6. job'[r] = job[r] /\ ~PostsBelow(r)
  BY <1>1 DEF Grows, PostsBelow
<1>2. \/ pc[r] = "probe" /\ id'[r] = id[r]
      \/ pc[r] = "probe" /\ id'[r] = id[r] + 1 /\ Exists(r)
      \/ id'[r] = 1
  <2>. USE DEF CallInv, TypeOK, GoTo, Reply, ReplyWritten
  <2>1. CASE HandleRequest(r) \/ Probe(r)
    BY <1>6, <2>1 DEF HandleRequest, Probe, PostsBelow, Course, Job
  <2>2. ASSUME QuietAction(r), ~HandleRequest(r), ~Probe(r) PROVE pc'[r] # "probe"
    BY <2>2, CheckGoesOn DEF QuietAction, Decline, CreateDirectories, OpenElsewhere, CheckExists,
       CheckDirectory, CheckRegularFile, OpenForReading, ReadBlock, ListDirectory, ListEffect,
       ListEntry, ListEnds, ListBelow, ExistsFails, Throws, ReadFails, RemovesFolder, RemoveDirectory,
       Fails, Course
  <2>3. CASE WriterAction(r)
    BY <2>3 DEF WriterAction, OpenForWriting, OpenEffect, WriteBlock, WriteEffect, WriteFails,
       Fails, RemovesFile, RemoveFile
  <2>4. CASE Crash
    BY <2>4 DEF Crash
  <2>. QED
    BY <2>1, <2>2, <2>3, <2>4, WhoseStep DEF Waits
<1>3. CASE pc[r] = "probe" /\ id'[r] = id[r]
  <2>1. \A i \in 1 .. id[r] - 1 : <<job[r].entity, i>> \in Path
    BY IdRange DEF CallInv, TypeOK, Path, Id, Job
  <2>. QED
    BY <1>1, <1>3, <1>6, <2>1, MakersGrow DEF ProbeInv
<1>4. CASE pc[r] = "probe" /\ id'[r] = id[r] + 1 /\ Exists(r)
  BY <1>1, <1>4, <1>6, ProbedIdsTaken, MakersGrow
<1>5. CASE id'[r] = 1
  BY <1>5
<1>. QED
  BY <1>2, <1>3, <1>4, <1>5

-----------------------------------------------------------------------------
(* The theorems about files. *)

StoreInv == CallInv /\ FileInv /\ FolderInv /\ ProbeInv

LEMMA StoreAlways == Spec => []StoreInv
<1>1. Init => FileInv /\ FolderInv /\ ProbeInv
  BY DEF Init, FileInv, FolderInv, ProbeInv, Created
<1>. QED
  BY <1>1, InitCalls, CallNext, FileNext, FolderNext, ProbeNext, ProbeFits, PTL DEF Spec, StoreInv

(***************************************************************************)
(* The variables keep their types.  Above all, the ids that POST probes    *)
(* are never more than there are requests, since each id it finds taken    *)
(* was taken by another request.                                           *)
(***************************************************************************)
THEOREM ApiTyping == Spec => []TypeOK
BY StoreAlways, PTL DEF StoreInv, CallInv

(***************************************************************************)
(* When its writers are done, a file holds the whole body of one of them,  *)
(* with nothing left of an older body, unless two of them had it open at   *)
(* once, or a write failed or was cut off.                                 *)
(***************************************************************************)
THEOREM SettledFilesAreWhole == Spec => []SettledFileWhole
<1>1. StoreInv => SettledFileWhole
  <2>. SUFFICES ASSUME StoreInv, NEW p \in Path, inode[p] # NoFile, inode[p] \notin shared,
                       \A w \in touched[p] : w \notin faulted /\ pc[w] = "done" /\ resp[w] # "cut"
                PROVE  \E w \in touched[p] : blocks[inode[p]] = Whole(w)
    BY DEF SettledFileWhole
  <2>1. PICK w \in Req : LastWriter(p, w)
    BY DEF StoreInv, FileInv
  <2>2. w \in touched[p] /\ blocks[inode[p]] = Alone(w, written[w])
    BY <2>1 DEF LastWriter
  <2>3. written[w] = Size[w]
    BY <2>2 DEF StoreInv, FileInv, Writes
  <2>. QED
    BY <2>2, <2>3 DEF Whole, Alone
<1>. QED
  BY <1>1, StoreAlways, PTL

-----------------------------------------------------------------------------
(* What was created before. *)

(* Whoever was answered before another request arrived is done for good. *)
PastInv == \A r \in Req : \A s \in before[r] : pc[s] = "done"

LEMMA PastNext == CallInv /\ PastInv /\ [Next]_vars => PastInv'
<1>. SUFFICES ASSUME CallInv, PastInv, [Next]_vars PROVE PastInv'
  OBVIOUS
<1>1. Grows
  BY StepGrows
<1>2. \A r \in Req : before[r] \subseteq Req
  BY DEF CallInv, TypeOK
<1>3. ASSUME NEW r \in Req, NEW s \in before'[r] PROVE s \in Req /\ pc[s] = "done"
  <2>1. CASE pc[r] # "idle"
    BY <1>1, <1>2, <1>3, <2>1 DEF Grows, PastInv
  <2>2. CASE before'[r] = before[r]
    BY <1>2, <1>3, <2>2 DEF PastInv
  <2>3. CASE HandleRequest(r)
    BY <1>3, <2>3 DEF HandleRequest, Answered, CallInv, TypeOK
  <2>4. pc[r] # "idle" \/ before'[r] = before[r] \/ HandleRequest(r)
    <3>1. ASSUME NEW u \in Req, HandleRequest(u), u # r PROVE before'[r] = before[r]
      BY <3>1 DEF HandleRequest
    <3>2. CASE UNCHANGED before
      BY <3>2
    <3>3. UNCHANGED before \/ \E u \in Req : HandleRequest(u)
      BY DEF Next, Run, Crash, Decline, Probe, CreateDirectories, OpenElsewhere, OpenForWriting,
         OpenEffect, WriteBlock, WriteEffect, WriteFails, CheckExists, CheckDirectory,
         CheckRegularFile, OpenForReading, ReadBlock, ListDirectory, ListEffect, ListEntry,
         ListEnds, ListBelow, ExistsFails, Throws, ReadFails, Remove, RemoveFile, RemoveDirectory, Fails,
         vars, histVars
    <3>. QED
      BY <3>1, <3>2, <3>3
  <2>. QED
    BY <2>1, <2>2, <2>3, <2>4
<1>. QED
  BY <1>1, <1>3 DEF PastInv, Grows

(* The instance that s created is there, unless it was deleted. *)
Made(s) == Created(s) /\ s \notin faulted
Kept(s) == Made(s) /\ At(s) \notin removed
Listable(s) == Kept(s) /\ At(s) \notin folders

LEMMA KeptIsThere ==
  ASSUME CallInv, FileInv, NEW s \in Req
  PROVE  /\ Made(s) => At(s) \in Path /\ id[s] \in Id
         /\ Kept(s) => inode[At(s)] # NoFile \/ At(s) \in folders
<1>1. Made(s) => id[s] # 0 /\ id[s] \in Id /\ At(s) \in Path
  BY SamePath DEF Made, Created, CallInv, Course, TypeOK
<1>2. ASSUME Kept(s) PROVE inode[At(s)] # NoFile \/ At(s) \in folders
  <2>1. At(s) \in Path /\ At(s) \notin removed
    BY <1>1, <1>2 DEF Kept
  <2>2. s \in touched[At(s)] \/ At(s) \in folders
    BY <1>2, <2>1 DEF Kept, Made, FileInv
  <2>. QED
    BY <2>1, <2>2 DEF FileInv
<1>. QED
  BY <1>1, <1>2

(* What was kept after a step was kept before it. *)
LEMMA PastStep ==
  ASSUME CallInv, PastInv, Grows, NEW r \in Req, NEW s \in before[r]
  PROVE  /\ s \in Req /\ pc[s] = "done" /\ At(s)' = At(s) /\ id'[s] = id[s]
         /\ job'[s] = job[s] /\ (Made(s)' => Made(s)) /\ (Kept(s)' => Kept(s))
         /\ (Listable(s)' => Listable(s))
<1>1. s \in Req /\ pc[s] = "done"
  BY DEF CallInv, TypeOK, PastInv
<1>2. id'[s] = id[s] /\ job' = job /\ resp'[s] = resp[s]
  BY <1>1 DEF Grows
<1>3. At(s)' = At(s)
  BY <1>2 DEF At
<1>. QED
  BY <1>1, <1>2, <1>3 DEF Made, Kept, Listable, Created, Grows

-----------------------------------------------------------------------------
(* Ids are given twice only to requests that overlap. *)

(* A POST has found its id, and no call of it failed. *)
Chosen(r) ==
  /\ job[r].method = "POST" /\ job[r].id = 0 /\ r \notin faulted
  /\ pc[r] \in {"mkdir", "open", "write"} \/ Created(r)

OverlapInv ==
  \A r \in Req : \A s \in before[r] :
    Chosen(r) /\ Made(s) /\ At(r) = At(s) => At(r) \in removed

LEMMA ChosenStep ==
  ASSUME CallInv, [Next]_vars, NEW r \in Req, Chosen(r)'
  PROVE  /\ id'[r] = id[r] /\ pc[r] # "idle"
         /\ Chosen(r) \/ (pc[r] = "probe" /\ ~Exists(r))
<1>. USE DEF CallInv, TypeOK, GoTo, Reply, ReplyWritten, fileVars, callVars, histVars, Chosen, Created
<1>1. CASE QuietAction(r)
  BY <1>1, CheckGoesOn DEF QuietAction, HandleRequest, Decline, Probe, CreateDirectories,
     OpenElsewhere, CheckExists, CheckDirectory, CheckRegularFile, OpenForReading, ReadBlock,
     ListDirectory, ListEffect, ListEntry, ListEnds, ListBelow, ExistsFails, Throws, ReadFails,
     RemovesFolder, RemoveDirectory, Fails, Course, IsDirectory, PostsBelow
<1>2. CASE WriterAction(r)
  BY <1>2 DEF WriterAction, OpenForWriting, OpenEffect, WriteBlock, WriteEffect, WriteFails,
     Fails, RemovesFile, RemoveFile
<1>3. CASE Crash
  BY <1>3 DEF Crash
<1>4. CASE Waits(r)
  BY <1>4, StepGrows DEF Waits, Grows
<1>5. Chosen(r) => pc[r] # "idle"
  OBVIOUS
<1>. QED
  BY <1>1, <1>2, <1>3, <1>4, <1>5, WhoseStep

LEMMA OverlapNext == StoreInv /\ PastInv /\ OverlapInv /\ [Next]_vars => OverlapInv'
<1>. SUFFICES ASSUME StoreInv, PastInv, OverlapInv, [Next]_vars, NEW r \in Req, NEW s \in before'[r],
                     Chosen(r)', Made(s)', At(r)' = At(s)'
              PROVE  At(r)' \in removed'
  BY DEF OverlapInv
<1>1. CallInv /\ FileInv /\ Grows
  BY StepGrows DEF StoreInv
<1>2. /\ id'[r] = id[r] /\ pc[r] # "idle"
      /\ Chosen(r) \/ (pc[r] = "probe" /\ ~Exists(r))
  BY <1>1, ChosenStep
<1>3. s \in before[r] /\ At(r)' = At(r)
  BY <1>1, <1>2 DEF Grows, At
<1>4. s \in Req /\ At(s)' = At(s) /\ Made(s)
  BY <1>1, <1>3, PastStep
<1>5. CASE Chosen(r)
  BY <1>1, <1>3, <1>4, <1>5 DEF OverlapInv, Grows
<1>6. CASE pc[r] = "probe" /\ ~Exists(r)
  <2>1. At(s) = At(r) /\ inode[At(r)] = NoFile /\ At(r) \notin folders
    BY <1>1, <1>3, <1>4, <1>6 DEF Exists, IsDirectory, HasFile, CallInv, Course, Chosen
  <2>. QED
    BY <1>1, <1>3, <1>4, <2>1, KeptIsThere DEF Kept, Grows
<1>. QED
  BY <1>2, <1>5, <1>6

(***************************************************************************)
(* A POST never takes the id of an instance that was created before it     *)
(* arrived, unless that instance was deleted, or a call of the POST failed *)
(* (an exists() that cannot look says the id is free).                     *)
(***************************************************************************)
THEOREM IdsAreSharedOnlyByOverlap == Spec => []IdsSharedOnlyByOverlap
<1>1. Init => PastInv /\ OverlapInv
  BY DEF Init, PastInv, OverlapInv
<1>2. OverlapInv => IdsSharedOnlyByOverlap
  BY DEF OverlapInv, IdsSharedOnlyByOverlap, Chosen, Made, Created
<1>. QED
  BY <1>1, <1>2, StoreAlways, PastNext, OverlapNext, PTL DEF Spec, StoreInv

-----------------------------------------------------------------------------
(* Listings. *)

Lists(r, s) ==
  job[r].method = "GET" /\ job[r].id = 0 /\ job[r].entity = job[s].entity

ListInv ==
  \A r \in Req : \A s \in before[r] : Lists(r, s) /\ Listable(s) =>
    /\ pc[r] = "filter" => id[s] \in entries[r] \cup listed[r]
    /\ resp[r] = "ok" => id[s] \in listed[r]

LEMMA ListNext == StoreInv /\ PastInv /\ ListInv /\ [Next]_vars => ListInv'
<1>. SUFFICES ASSUME StoreInv, PastInv, ListInv, [Next]_vars, NEW r \in Req, NEW s \in before'[r],
                     Lists(r, s)', Listable(s)'
              PROVE  (/\ pc[r] = "filter" => id[s] \in entries[r] \cup listed[r]
                      /\ resp[r] = "ok" => id[s] \in listed[r])'
  BY DEF ListInv
<1>1. CallInv /\ FileInv /\ Grows
  BY StepGrows DEF StoreInv
<1>2. CASE HandleRequest(r) \/ Decline(r)
  BY <1>1, <1>2 DEF HandleRequest, Decline, GoTo, Reply, CallInv, TypeOK
<1>3. ASSUME ~HandleRequest(r), ~Decline(r), pc[r] = "idle"
      PROVE  pc'[r] = "idle" /\ resp'[r] = resp[r]
  BY <1>1, <1>3, WhoseStep DEF QuietAction, Probe, CreateDirectories, OpenElsewhere, CheckExists,
     CheckDirectory, CheckRegularFile, OpenForReading, ReadBlock, ListDirectory, ListEffect,
     ListEntry, ListEnds, ListBelow, ExistsFails, Throws, ReadFails, RemovesFolder, RemoveDirectory, Fails,
     WriterAction, OpenForWriting, OpenEffect, WriteBlock, WriteEffect,
     WriteFails, RemovesFile, RemoveFile, Crash, Waits, CallInv, TypeOK
<1>4. ASSUME pc[r] # "idle"
      PROVE  s \in before[r] /\ s \in Req /\ id'[s] = id[s] /\ Lists(r, s) /\ Listable(s) /\ id[r] = 0
  <2>1. s \in before[r] /\ job' = job
    BY <1>1, <1>4 DEF Grows
  <2>. QED
    BY <1>1, <2>1, PastStep DEF Lists, CallInv, Course
<1>5. ASSUME pc[r] # "idle"
      PROVE  /\ id[s] \in Files(job[r].entity)
             /\ pc[r] = "filter" => id[s] \in entries[r] \cup listed[r]
             /\ resp[r] = "ok" => id[s] \in listed[r]
             /\ pc[r] \notin {"mkdir", "open", "write", "remove", "open_read", "read"}
  <2>1. id[s] \in Id /\ inode[At(s)] # NoFile /\ At(s) = <<job[r].entity, id[s]>>
    BY <1>1, <1>4, <1>5, KeptIsThere DEF Kept, Listable, Lists, At
  <2>2. pc[r] \notin {"mkdir", "open", "write", "remove", "open_read", "read"}
    BY <1>1, <1>4, <1>5 DEF Lists, CallInv, Course
  <2>. QED
    BY <1>4, <1>5, <2>1, <2>2 DEF ListInv, Files
<1>6. ASSUME pc[r] # "idle", QuietAction(r)
      PROVE  (/\ pc[r] = "filter" => id[s] \in entries[r] \cup listed[r]
              /\ resp[r] = "ok" => id[s] \in listed[r])'
  <2>. USE <1>1, <1>4, <1>5, <1>6 DEF CallInv, TypeOK, GoTo, Reply
  <2>1. CASE ListDirectory(r)
    BY <2>1 DEF ListDirectory, ListEffect
  <2>2. CASE ListEntry(r)
    BY <2>2 DEF ListEntry
  <2>3. CASE ListEnds(r)
    BY <2>3 DEF ListEnds, callVars
  <2>4. ASSUME ~ListDirectory(r), ~ListEntry(r), ~ListEnds(r)
        PROVE  pc'[r] # "filter" /\ resp'[r] # "ok"
    BY <2>4, CheckGoesOn DEF QuietAction, HandleRequest, Decline, Probe, CreateDirectories,
       OpenElsewhere, CheckExists, CheckDirectory, CheckRegularFile, OpenForReading, ReadBlock,
       ListBelow, ExistsFails, Throws, ReadFails, RemovesFolder, RemoveDirectory, Course
  <2>. QED
    BY <2>1, <2>2, <2>3, <2>4
<1>7. ASSUME pc[r] # "idle", WriterAction(r) PROVE FALSE
  BY <1>5, <1>7 DEF WriterAction, OpenForWriting, OpenEffect, WriteBlock, WriteEffect, WriteFails,
     Fails, RemovesFile, RemoveFile
<1>8. ASSUME pc[r] # "idle", Crash \/ Waits(r)
      PROVE  (/\ pc[r] = "filter" => id[s] \in entries[r] \cup listed[r]
              /\ resp[r] = "ok" => id[s] \in listed[r])'
  BY <1>1, <1>4, <1>5, <1>8 DEF Crash, Waits, callVars, CallInv, TypeOK
<1>. QED
  BY <1>1, <1>2, <1>3, <1>6, <1>7, <1>8, WhoseStep DEF CallInv, TypeOK

(***************************************************************************)
(* A listing has every instance that was created before it was asked for,  *)
(* and was not deleted, though others come and go while it is made, unless *)
(* a directory took its path before the file was written.                  *)
(***************************************************************************)
THEOREM CreatedIsAlwaysListed == Spec => []CreatedIsListed
<1>1. Init => PastInv /\ ListInv
  BY DEF Init, PastInv, ListInv
<1>2. ListInv => CreatedIsListed
  BY DEF ListInv, CreatedIsListed, Lists, Listable, Kept, Made
<1>. QED
  BY <1>1, <1>2, StoreAlways, PastNext, ListNext, PTL DEF Spec, StoreInv

-----------------------------------------------------------------------------
(* Reads. *)

Reads(r, s) == job[r].method = "GET" /\ At(r) = At(s) /\ r \notin faulted
Sole(s) == Kept(s) /\ touched[At(s)] = {s}

(* An instance that only its creator wrote is the body of its creator. *)
LEMMA SoleIsWhole ==
  ASSUME StoreInv, NEW s \in Req, Sole(s)
  PROVE  inode[At(s)] = s /\ blocks[s] = Alone(s, Size[s])
<1>1. At(s) \in Path /\ inode[At(s)] = s
  BY KeptIsThere DEF StoreInv, Sole, Kept, FileInv
<1>2. s \notin shared
  BY <1>1 DEF Sole, StoreInv, FileInv, Writes
<1>3. LastWriter(At(s), s)
  BY <1>1, <1>2, ApiAssumption DEF Sole, StoreInv, FileInv, LastWriter
<1>4. written[s] = Size[s]
  BY <1>1 DEF Sole, Kept, Made, Created, StoreInv, FileInv, Writes, CallInv, TypeOK
<1>. QED
  BY <1>1, <1>3, <1>4 DEF LastWriter

ReadOK(r, s) ==
  /\ pc[r] # "list"
  /\ pc[r] = "read" => fd[r] = s /\ \E n \in 0 .. Size[s] : got[r] = Alone(s, n)
  /\ resp[r] \notin {"none", "declined", "cut"} => resp[r] = "ok" /\ got[r] = Alone(s, Size[s])

ReadInv == \A r \in Req : \A s \in before[r] : Reads(r, s) /\ Sole(s) => ReadOK(r, s)

LEMMA ReadNext == StoreInv /\ PastInv /\ ReadInv /\ [Next]_vars => ReadInv'
<1>. SUFFICES ASSUME StoreInv, PastInv, ReadInv, [Next]_vars, NEW r \in Req, NEW s \in before'[r],
                     Reads(r, s)', Sole(s)'
              PROVE  ReadOK(r, s)'
  BY DEF ReadInv
<1>1. CallInv /\ FileInv /\ Grows
  BY StepGrows DEF StoreInv
<1>2. CASE HandleRequest(r) \/ Decline(r)
  BY <1>1, <1>2 DEF HandleRequest, Decline, GoTo, Reply, CallInv, TypeOK, ReadOK
<1>3. ASSUME ~HandleRequest(r), ~Decline(r), pc[r] = "idle"
      PROVE  pc'[r] = "idle" /\ resp'[r] = resp[r]
  BY <1>1, <1>3, WhoseStep DEF QuietAction, Probe, CreateDirectories, OpenElsewhere, CheckExists,
     CheckDirectory, CheckRegularFile, OpenForReading, ReadBlock, ListDirectory, ListEffect,
     ListEntry, ListEnds, ListBelow, ExistsFails, Throws, ReadFails, RemovesFolder, RemoveDirectory, Fails,
     WriterAction, OpenForWriting, OpenEffect, WriteBlock, WriteEffect,
     WriteFails, RemovesFile, RemoveFile, Crash, Waits, CallInv, TypeOK
<1>4. ASSUME pc[r] # "idle"
      PROVE  /\ s \in before[r] /\ s \in Req /\ Sole(s) /\ job'[r] = job[r]
             /\ At(r)' = At(r) /\ Reads(r, s)
  <2>1. s \in before[r] /\ job' = job
    BY <1>1, <1>4 DEF Grows
  <2>2. s \in Req /\ At(s)' = At(s) /\ Made(s) /\ Kept(s)
    BY <1>1, <2>1, PastStep DEF Sole, Kept
  <2>3. At(s) \in Path /\ s \in touched[At(s)]
    BY <1>1, <2>2, KeptIsThere, PastStep, <2>1 DEF Sole, Grows
  <2>4. touched[At(s)] \subseteq {s}
    BY <1>1, <2>2, <2>3 DEF Sole, Grows
  <2>5. id'[r] = id[r]
    <3>1. job[r].method = "GET"
      BY <2>1 DEF Reads
    <3>. QED
      BY <1>1, <1>4, <3>1, WhoseStep DEF QuietAction, HandleRequest, Decline, Probe,
         CreateDirectories, OpenElsewhere, CheckExists, CheckDirectory, CheckRegularFile,
         OpenForReading, ReadBlock, ListDirectory, ListEffect, ListEntry, ListEnds, ListBelow,
         ExistsFails, Throws, ReadFails, RemovesFolder, RemoveDirectory, Fails, WriterAction,
         OpenForWriting, OpenEffect, WriteBlock, WriteEffect, WriteFails, RemovesFile, RemoveFile,
         Crash, Waits, callVars, CallInv, Course
  <2>. QED
    BY <1>1, <2>1, <2>2, <2>3, <2>4, <2>5 DEF Sole, Reads, Grows, At
<1>5. ASSUME pc[r] # "idle"
      PROVE  /\ ReadOK(r, s) /\ id[r] # 0 /\ Exists(r)
             /\ HasFile(r) /\ ~IsDirectory(r)
             /\ inode[At(r)] = s /\ blocks[s] = Alone(s, Size[s]) /\ Size[s] \in Nat
             /\ pc[r] \notin {"mkdir", "open", "write", "remove", "list", "filter"}
  <2>1. inode[At(r)] = s /\ blocks[s] = Alone(s, Size[s])
    BY <1>4, <1>5, SoleIsWhole DEF Reads
  <2>2. At(s) \in Path /\ id[r] # 0
    BY <1>1, <1>4, <1>5, KeptIsThere, SamePath DEF Reads, Sole, Kept, CallInv
  <2>3. HasFile(r) /\ ~IsDirectory(r) /\ Exists(r)
    BY <1>1, <1>4, <1>5, <2>1, <2>2, ApiAssumption DEF Exists, HasFile, IsDirectory, Reads,
       CallInv, TypeOK
  <2>4. pc[r] \notin {"mkdir", "open", "write", "remove", "filter"}
    BY <1>1, <1>4, <1>5, <2>2 DEF Reads, CallInv, Course
  <2>5. ReadOK(r, s)
    BY <1>4, <1>5 DEF ReadInv
  <2>. QED
    BY <1>4, <1>5, <2>1, <2>2, <2>3, <2>4, <2>5, ApiAssumption DEF ReadOK
<1>6. ASSUME pc[r] # "idle", QuietAction(r) PROVE ReadOK(r, s)'
  <2>. USE <1>1, <1>4, <1>5, <1>6 DEF CallInv, TypeOK, GoTo, Reply
  <2>1. CASE OpenForReading(r)
    <3>1. fd'[r] = s /\ pc'[r] = "read" /\ resp'[r] = "none"
      BY <2>1 DEF OpenForReading
    <3>2. got'[r] = Alone(s, 0)
      BY <2>1 DEF OpenForReading, Hands, Alone
    <3>. QED
      BY <3>1, <3>2 DEF ReadOK
  <2>2. CASE ReadBlock(r)
    <3>1. PICK n \in 0 .. Size[s] : got[r] = Alone(s, n)
      BY <2>2 DEF ReadBlock, ReadOK
    <3>2. Len(got[r]) = n /\ fd[r] = s /\ DOMAIN blocks[s] = 1 .. Size[s] /\ pc[r] = "read"
      BY <2>2, <3>1 DEF ReadBlock, ReadOK, Alone
    <3>3. CASE n + 1 \in 1 .. Size[s]
      <4>1. got'[r] = Append(Alone(s, n), s) /\ pc'[r] = "read" /\ resp'[r] = resp[r] /\ fd'[r] = s
        BY <2>2, <3>1, <3>2, <3>3 DEF ReadBlock, Alone, Shape
      <4>2. Append(Alone(s, n), s) = Alone(s, n + 1)
        BY <3>3 DEF Alone
      <4>. QED
        BY <3>2, <3>3, <4>1, <4>2 DEF ReadOK
    <3>4. CASE n + 1 \notin 1 .. Size[s]
      <4>1. n = Size[s]
        BY <3>4
      <4>. QED
        BY <2>2, <3>1, <3>2, <3>4, <4>1 DEF ReadBlock, ReadOK
    <3>. QED
      BY <3>3, <3>4
  <2>3. ASSUME ~OpenForReading(r), ~ReadBlock(r)
        PROVE  pc'[r] \notin {"list", "read"} /\ resp'[r] = "none"
    BY <2>3, CheckGoesOn DEF QuietAction, HandleRequest, Decline, Probe, CreateDirectories,
       OpenElsewhere, CheckExists, CheckDirectory, CheckRegularFile, ListDirectory, ListEffect,
       ListEntry, ListEnds, ListBelow, ExistsFails, Throws, ReadFails, RemovesFolder, RemoveDirectory, Fails,
       Course, Reads, IsDirectory
  <2>. QED
    BY <2>1, <2>2, <2>3 DEF ReadOK
<1>7. ASSUME pc[r] # "idle", WriterAction(r) PROVE FALSE
  BY <1>5, <1>7 DEF WriterAction, OpenForWriting, OpenEffect, WriteBlock, WriteEffect, WriteFails,
     Fails, RemovesFile, RemoveFile
<1>8. ASSUME pc[r] # "idle", Crash \/ Waits(r) PROVE ReadOK(r, s)'
  BY <1>1, <1>4, <1>5, <1>8 DEF Crash, Waits, callVars, CallInv, TypeOK, ReadOK
<1>. QED
  BY <1>1, <1>2, <1>3, <1>6, <1>7, <1>8, WhoseStep DEF CallInv, TypeOK, ReadOK

(***************************************************************************)
(* Whoever asks for an instance that was created before, and that nobody   *)
(* else wrote or deleted, gets the body of the POST, whatever else is      *)
(* going on and across crashes, unless one of its own calls fails.         *)
(***************************************************************************)
THEOREM CreatedIsAlwaysRead == Spec => []CreatedIsRead
<1>1. Init => PastInv /\ ReadInv
  BY DEF Init, PastInv, ReadInv
<1>2. ReadInv => CreatedIsRead
  <2>1. \A s : Alone(s, Size[s]) = Whole(s)
    BY DEF Alone, Whole
  <2>. QED
    BY <2>1 DEF ReadInv, ReadOK, CreatedIsRead, Reads, Sole, Kept, Made
<1>. QED
  BY <1>1, <1>2, StoreAlways, PastNext, ReadNext, PTL DEF Spec, StoreInv

=============================================================================
