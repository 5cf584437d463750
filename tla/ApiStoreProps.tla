--------------------------- MODULE ApiStoreProps ----------------------------
(***************************************************************************)
(* What the CRUD API keeps in spite of races between its checks and its    *)
(* writes.  That two POST that run at once may get one id, or tear a file, *)
(* is how the code is; the properties say that only that may happen.       *)
(***************************************************************************)
EXTENDS ApiStore

Created(s) == job[s].method = "POST" /\ job[s].id = 0 /\ resp[s] = "created"
Whole(r) == [i \in 1 .. Size[r] |-> r]

(***************************************************************************)
(* A POST never takes the id of an instance that was created before it     *)
(* arrived, unless that instance was deleted, or a call of the POST failed *)
(* (an exists() that cannot look says the id is free): but for that, ids   *)
(* are given twice only to requests that overlap.                          *)
(***************************************************************************)
IdsSharedOnlyByOverlap ==
  \A r \in Req : \A s \in before[r] :
    /\ Created(r) /\ Created(s) /\ At(r) = At(s)
    /\ r \notin faulted /\ s \notin faulted
    => At(r) \in removed

(***************************************************************************)
(* Whoever asks for an instance that was created before, and that nobody   *)
(* else wrote or deleted, gets the body of the POST, whatever else is      *)
(* going on and across crashes, unless one of its own calls fails.         *)
(***************************************************************************)
CreatedIsRead ==
  \A r \in Req : \A s \in before[r] :
    /\ Created(s) /\ s \notin faulted /\ r \notin faulted
    /\ job[r].method = "GET" /\ At(r) = At(s) /\ resp[r] \notin {"none", "declined", "cut"}
    /\ touched[At(s)] = {s} /\ At(s) \notin removed
    => resp[r] = "ok" /\ got[r] = Whole(s)

(***************************************************************************)
(* A listing has every instance that was created before it was asked for,  *)
(* and was not deleted, though others come and go while it is made, unless *)
(* a directory took its path before the file was written.                  *)
(***************************************************************************)
CreatedIsListed ==
  \A r \in Req : \A s \in before[r] :
    /\ Created(s) /\ s \notin faulted /\ At(s) \notin removed \cup folders
    /\ job[r] = [method |-> "GET", entity |-> job[s].entity, id |-> 0] /\ resp[r] = "ok"
    => id[s] \in listed[r]

(***************************************************************************)
(* When its writers are done, a file holds the whole body of one of them,  *)
(* with nothing left of an older body, unless two of them had it open at   *)
(* once, or a write failed or was cut off.                                 *)
(***************************************************************************)
SettledFileWhole ==
  \A p \in Path :
    LET file == inode[p]
    IN /\ file # NoFile /\ file \notin shared
       /\ \A w \in touched[p] : w \notin faulted /\ pc[w] = "done" /\ resp[w] # "cut"
       => \E w \in touched[p] : blocks[file] = Whole(w)

(***************************************************************************)
(* Every request is answered or cut off by a crash, and POST finds an id.  *)
(* A request throws, which its client and its thread do not survive, only  *)
(* when a call of it fails or somebody POSTs on the instance it works on.  *)
(***************************************************************************)
MayThrow(r) ==
  r \in faulted \/ \E s \in Req : PostsBelow(s) /\ <<job[s].entity, job[s].id>> = At(r)

EveryApiRequestAnswered ==
  \A r \in Req : (pc[r] # "idle") ~> (pc[r] = "done" /\ (resp[r] = "thrown" => MayThrow(r)))

=============================================================================
