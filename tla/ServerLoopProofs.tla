-------------------------- MODULE ServerLoopProofs --------------------------
(***************************************************************************)
(* Theorems about ServerLoop, for any number of worker threads, clients    *)
(* and failed accepts, whatever the clients ask for.                       *)
(***************************************************************************)
EXTENDS ServerLoopProps, FiniteSetTheorems, TLAPS

(* A handler belongs to the client that is its second part, if it has one. *)
LEMMA OwnsJob ==
  /\ \A k, c, d : Owns(<<k, d>>, c) <=> d = c
  /\ \A c : ~Owns(AcceptError, c) /\ ~Owns(NoJob, c)
BY DEF Owns, AcceptError, NoJob

LEMMA JobsApart ==
  /\ \A x \in Job : x # NoJob /\ x # AcceptError
  /\ NoJob # AcceptError
  /\ \A k \in {"accept", "read", "read_error", "write", "write_error"}, c \in Client : <<k, c>> \in Job
<1>1. \A x \in Job : Len(x) = 2
  BY DEF Job
<1>2. Len(NoJob) = 1 /\ Len(AcceptError) = 1
  BY DEF NoJob, AcceptError
<1>3. NoJob[1] # AcceptError[1]
  BY DEF NoJob, AcceptError
<1>. QED
  BY <1>1, <1>2, <1>3 DEF Job

(* What is queued, oldest first, when a handler is added or taken. *)
LEMMA Queued ==
  ASSUME NEW S, NEW q \in Seq(S), NEW x \in S
  PROVE  /\ Append(q, x) \in Seq(S) /\ DOMAIN Append(q, x) = DOMAIN q \cup {Len(q) + 1}
         /\ \A i \in DOMAIN q : i # Len(q) + 1 /\ Append(q, x)[i] = q[i]
         /\ Append(q, x)[Len(q) + 1] = x
<1>1. Append(q, x) \in Seq(S) /\ Len(Append(q, x)) = Len(q) + 1 /\ Len(q) \in Nat
  OBVIOUS
<1>2. DOMAIN q = 1 .. Len(q) /\ DOMAIN Append(q, x) = 1 .. Len(q) + 1
  BY <1>1
<1>3. DOMAIN Append(q, x) = DOMAIN q \cup {Len(q) + 1}
  BY <1>1, <1>2
<1>. QED
  BY <1>1, <1>2, <1>3

LEMMA Dequeued ==
  ASSUME NEW S, NEW q \in Seq(S), q # <<>>
  PROVE  /\ Tail(q) \in Seq(S)
         /\ 1 \in DOMAIN q /\ Head(q) = q[1] /\ Head(q) \in S
         /\ \A i \in DOMAIN Tail(q) : i + 1 \in DOMAIN q /\ i + 1 # 1 /\ Tail(q)[i] = q[i + 1]
         /\ \A i \in DOMAIN q : i # 1 => \E j \in DOMAIN Tail(q) : i = j + 1
<1>1. Len(q) \in Nat /\ Len(q) > 0 /\ Tail(q) \in Seq(S) /\ Len(Tail(q)) = Len(q) - 1
  OBVIOUS
<1>2. DOMAIN q = 1 .. Len(q) /\ DOMAIN Tail(q) = 1 .. Len(q) - 1
  BY <1>1
<1>3. \A i \in DOMAIN Tail(q) : Tail(q)[i] = q[i + 1]
  BY <1>1, <1>2
<1>4. 1 \in DOMAIN q /\ Head(q) = q[1] /\ Head(q) \in S
  BY <1>1, <1>2
<1>5. ASSUME NEW i \in DOMAIN q, i # 1 PROVE i - 1 \in DOMAIN Tail(q) /\ i = (i - 1) + 1
  BY <1>1, <1>2, <1>5
<1>. QED
  BY <1>1, <1>2, <1>3, <1>4, <1>5

-----------------------------------------------------------------------------
(* Types. *)

LEMMA InitType == Init => TypeOK
<1>. SUFFICES ASSUME Init PROVE TypeOK
  OBVIOUS
<1>1. errors \in 0 .. MaxAcceptErrors
  BY ServerAssumption DEF Init
<1>2. thread \in [Thread -> {"run", "unwinding", "joining", "ended"}] /\ \A w \in Worker : thread[w] = "run"
  BY DEF Init, Thread
<1>3. job \in [Thread -> Job \cup {AcceptError, NoJob}] /\ conn \in [Client -> ConnState]
  BY DEF Init, ConnState
<1>4. accept \in {"pending", "completed", "none"} /\ ready \in Seq(Job \cup {AcceptError})
  BY DEF Init
<1>5. stopped \in BOOLEAN /\ causes \in SUBSET {"signal", "exception", "no_work", "crash"}
  BY DEF Init
<1>. QED
  BY <1>1, <1>2, <1>3, <1>4, <1>5 DEF TypeOK

LEMMA NextType == TypeOK /\ [Next]_vars => TypeOK'
<1>. SUFFICES ASSUME TypeOK, [Next]_vars PROVE TypeOK'
  OBVIOUS
<1>. USE ServerAssumption DEF TypeOK, Thread, ConnState
<1>1. ASSUME NEW c \in Client,
             \/ Connect(c) \/ AcceptCompletes(c) \/ Ask(c) \/ HangUp(c)
             \/ WriteCompletes(c) \/ Reset(c)
      PROVE  TypeOK'
  <2>1. CASE Connect(c)
    BY <2>1 DEF Connect, Becomes, Outside
  <2>2. CASE AcceptCompletes(c)
    BY <2>2, JobsApart DEF AcceptCompletes, Becomes, Completes, Outside
  <2>3. CASE Ask(c)
    BY <2>3, JobsApart DEF Ask, Becomes, Completes, Outside
  <2>4. CASE HangUp(c)
    BY <2>4, JobsApart DEF HangUp, Becomes, Completes, Outside
  <2>5. CASE WriteCompletes(c)
    BY <2>5, JobsApart DEF WriteCompletes, Becomes, Completes, Outside
  <2>6. CASE Reset(c)
    BY <2>6, JobsApart DEF Reset, Becomes, Completes, Outside
  <2>. QED
    BY <1>1, <2>1, <2>2, <2>3, <2>4, <2>5, <2>6
<1>2. CASE AcceptFails
  BY <1>2 DEF AcceptFails, Completes, Outside
<1>3. CASE Signal
  BY <1>3 DEF Signal
<1>4. CASE Join
  BY <1>4 DEF Join
<1>5. ASSUME NEW t \in Thread, Take(t) PROVE TypeOK'
  BY <1>5 DEF Take
<1>6. ASSUME NEW t \in Thread, ReturnFromRun(t) PROVE TypeOK'
  BY <1>6 DEF ReturnFromRun, AfterRun
<1>7. ASSUME NEW t \in Thread, HandleAcceptError(t) PROVE TypeOK'
  BY <1>7 DEF HandleAcceptError, StartAccept, Completes, Finish
<1>8. ASSUME NEW t \in Thread, NEW c \in Client, HandleAccept(t, c) PROVE TypeOK'
  BY <1>8 DEF HandleAccept, StartAccept, Completes, Finish, Becomes
<1>9. ASSUME NEW t \in Thread, NEW c \in Client, HandleRead(t, c) PROVE TypeOK'
  BY <1>9 DEF HandleRead, Finish, Becomes
<1>10. ASSUME NEW t \in Thread, NEW c \in Client, HandleReadThrows(t, c) PROVE TypeOK'
  <2>1. conn' \in [Client -> ConnState] /\ job' \in [Thread -> Job \cup {AcceptError, NoJob}]
    BY <1>10 DEF HandleReadThrows, Finish, Becomes
  <2>2. thread' \in [Thread -> {"run", "unwinding", "joining", "ended"}]
        /\ \A w \in Worker : thread'[w] \in {"run", "ended"}
    BY <1>10 DEF HandleReadThrows
  <2>3. ready' \in Seq(Job \cup {AcceptError}) /\ accept' \in {"pending", "completed", "none"}
    BY <1>10 DEF HandleReadThrows, Completes
  <2>. QED
    BY <1>10, <2>1, <2>2, <2>3 DEF HandleReadThrows
<1>11. ASSUME NEW t \in Thread, NEW c \in Client,
              HandleReadError(t, c) \/ HandleWrite(t, c) \/ HandleWriteError(t, c)
       PROVE  TypeOK'
  BY <1>11 DEF HandleReadError, HandleWrite, HandleWriteError, Finish, Becomes
<1>12. CASE UNCHANGED vars
  BY <1>12 DEF vars
<1>13. CASE StopAfterException
  BY <1>13 DEF StopAfterException
<1>14. ASSUME NEW t \in Thread, UseDestroyed(t) PROVE TypeOK'
  BY <1>14 DEF UseDestroyed
<1>. QED
  BY <1>1, <1>2, <1>3, <1>4, <1>5, <1>6, <1>7, <1>8, <1>9, <1>10, <1>11, <1>12, <1>13, <1>14
     DEF Next, Run, Handler

(***************************************************************************)
(* The variables keep their types: no handler but those of Job is queued   *)
(* or run, and only main goes on to join.                                  *)
(***************************************************************************)
THEOREM LoopTyping == Spec => []TypeOK
BY InitType, NextType, PTL DEF Spec

-----------------------------------------------------------------------------
(* Why the loop stops. *)

(***************************************************************************)
(* The accept loop ends, or is about to, only after a failed accept, or    *)
(* when an exception on main has destroyed its acceptor; from there main   *)
(* goes on to stop the loop.                                               *)
(***************************************************************************)
AcceptMayEnd == errors > 0 \/ "exception" \in causes

AcceptInv ==
  /\ accept = "none" => AcceptMayEnd
  /\ \A i \in DOMAIN ready : ready[i] = AcceptError => AcceptMayEnd
  /\ \A t \in Thread : job[t] = AcceptError => AcceptMayEnd

CatchInv ==
  /\ "exception" \in causes => stopped \/ thread[Main] = "unwinding"
  /\ thread[Main] = "unwinding" => "exception" \in causes

StopInv == StopsForAReason /\ AcceptInv /\ CatchInv

(* A step that queues no failed accept, or queues one that may end the loop. *)
LEMMA StillMayEnd ==
  ASSUME TypeOK, AcceptInv, AcceptMayEnd => AcceptMayEnd',
         accept' = "none" => accept = "none" \/ AcceptMayEnd',
         \/ ready' = ready
         \/ \E x \in Job \cup {AcceptError} :
              ready' = Append(ready, x) /\ (x = AcceptError => AcceptMayEnd'),
         \A t \in Thread : job'[t] = AcceptError => job[t] = AcceptError
  PROVE  AcceptInv'
<1>1. \A i \in DOMAIN ready' : ready'[i] = AcceptError => AcceptMayEnd'
  <2>1. CASE ready' = ready
    BY <2>1 DEF AcceptInv
  <2>2. ASSUME NEW x \in Job \cup {AcceptError}, ready' = Append(ready, x),
               x = AcceptError => AcceptMayEnd'
        PROVE  \A i \in DOMAIN ready' : ready'[i] = AcceptError => AcceptMayEnd'
    <3>1. ready \in Seq(Job \cup {AcceptError})
      BY DEF TypeOK
    <3>2. /\ DOMAIN ready' = DOMAIN ready \cup {Len(ready) + 1}
          /\ \A i \in DOMAIN ready : ready'[i] = ready[i]
          /\ ready'[Len(ready) + 1] = x
      BY <2>2, <3>1, Queued
    <3>. QED
      BY <2>2, <3>2 DEF AcceptInv
  <2>. QED
    BY <2>1, <2>2
<1>. QED
  BY <1>1 DEF AcceptInv

LEMMA StopNext == TypeOK /\ StopInv /\ [Next]_vars => StopInv'
<1>. SUFFICES ASSUME TypeOK, StopInv, [Next]_vars PROVE StopInv'
  OBVIOUS
<1>. USE ServerAssumption, JobsApart DEF StopInv
<1>0. /\ Main \in Thread /\ job \in [Thread -> Job \cup {AcceptError, NoJob}]
      /\ thread \in [Thread -> {"run", "unwinding", "joining", "ended"}]
  BY DEF TypeOK, Thread
<1>1. ASSUME NEW c \in Client,
             \/ Connect(c) \/ AcceptCompletes(c) \/ Ask(c) \/ HangUp(c)
             \/ WriteCompletes(c) \/ Reset(c)
      PROVE  StopInv'
  <2>1. UNCHANGED <<thread, job, stopped, causes, errors>>
    BY <1>1 DEF Connect, AcceptCompletes, Ask, HangUp, WriteCompletes, Reset, Outside
  <2>2. accept' = accept \/ accept' = "completed"
    BY <1>1 DEF Connect, AcceptCompletes, Ask, HangUp, WriteCompletes, Reset
  <2>3. ready' = ready \/ \E x \in Job : ready' = Append(ready, x)
    BY <1>1 DEF Connect, AcceptCompletes, Ask, HangUp, WriteCompletes, Reset, Completes
  <2>4. AcceptInv'
    BY <2>1, <2>2, <2>3, StillMayEnd DEF AcceptMayEnd
  <2>. QED
    BY <2>1, <2>4 DEF StopsForAReason, CatchInv
<1>2. CASE AcceptFails
  <2>1. /\ ready' = Append(ready, AcceptError) /\ accept' = "completed" /\ errors' > 0
        /\ UNCHANGED <<thread, job, stopped, causes>>
    BY <1>2 DEF AcceptFails, Completes, Outside, TypeOK
  <2>2. AcceptInv'
    BY <2>1, StillMayEnd DEF AcceptMayEnd
  <2>. QED
    BY <2>1, <2>2 DEF StopsForAReason, CatchInv
<1>3. CASE Signal
  BY <1>3 DEF Signal, StopsForAReason, CatchInv, AcceptInv, AcceptMayEnd
<1>4. CASE Join
  <2>1. "exception" \in causes => stopped
    BY <1>4 DEF Join, CatchInv
  <2>. QED
    BY <1>4, <2>1 DEF Join, StopsForAReason, CatchInv, AcceptInv, AcceptMayEnd
<1>5. ASSUME NEW t \in Thread, Take(t) PROVE StopInv'
  <2>1. ready \in Seq(Job \cup {AcceptError}) /\ ready # <<>> /\ ready' = Tail(ready)
    BY <1>5 DEF Take, TypeOK
  <2>2. /\ \A i \in DOMAIN ready' : i + 1 \in DOMAIN ready /\ ready'[i] = ready[i + 1]
        /\ 1 \in DOMAIN ready /\ Head(ready) = ready[1]
    BY <2>1, Dequeued
  <2>3. \A u \in Thread : job'[u] = IF u = t THEN ready[1] ELSE job[u]
    BY <1>0, <1>5, <2>2 DEF Take
  <2>4. AcceptInv'
    BY <1>5, <2>2, <2>3 DEF Take, AcceptInv, AcceptMayEnd
  <2>. QED
    BY <1>5, <2>4 DEF Take, StopsForAReason, CatchInv
<1>6. ASSUME NEW t \in Thread, ReturnFromRun(t) PROVE StopInv'
  <2>1. AcceptMayEnd => AcceptMayEnd'
    BY <1>6 DEF ReturnFromRun, AcceptMayEnd
  <2>2. AcceptInv'
    BY <1>6, <2>1 DEF ReturnFromRun, AcceptInv
  <2>3. stopped \/ AcceptMayEnd
    BY <1>6 DEF ReturnFromRun, OutOfWork, AcceptInv
  <2>. QED
    BY <1>0, <1>6, <2>2, <2>3
       DEF ReturnFromRun, InRun, AfterRun, StopsForAReason, CatchInv, AcceptMayEnd
<1>7. ASSUME NEW t \in Thread, HandleAcceptError(t) PROVE StopInv'
  <2>1. /\ AcceptMayEnd /\ UNCHANGED <<thread, stopped, errors, causes>>
        /\ \A u \in Thread : job'[u] = AcceptError => job[u] = AcceptError
    BY <1>0, <1>7 DEF HandleAcceptError, Finish, AcceptInv
  <2>2. AcceptMayEnd'
    BY <2>1 DEF AcceptMayEnd
  <2>3. ready' = ready \/ ready' = Append(ready, AcceptError)
    BY <1>7 DEF HandleAcceptError, StartAccept, Completes
  <2>4. AcceptInv'
    BY <2>1, <2>2, <2>3, StillMayEnd
  <2>. QED
    BY <2>1, <2>4 DEF StopsForAReason, CatchInv
<1>8. ASSUME NEW t \in Thread, NEW c \in Client, HandleAccept(t, c) PROVE StopInv'
  <2>1. /\ UNCHANGED <<thread, stopped, errors, causes>> /\ accept' # "none"
        /\ \A u \in Thread : job'[u] = AcceptError => job[u] = AcceptError
    BY <1>0, <1>8 DEF HandleAccept, StartAccept, Finish
  <2>2. ready' = ready \/ (ready' = Append(ready, AcceptError) /\ AcceptMayEnd')
    BY <1>8, <2>1 DEF HandleAccept, StartAccept, Completes, Destroyed, AcceptMayEnd
  <2>3. AcceptInv'
    BY <2>1, <2>2, StillMayEnd DEF AcceptMayEnd
  <2>. QED
    BY <2>1, <2>3 DEF StopsForAReason, CatchInv
<1>9. ASSUME NEW t \in Thread, NEW c \in Client,
             \/ HandleRead(t, c) \/ HandleReadError(t, c)
             \/ HandleWrite(t, c) \/ HandleWriteError(t, c)
      PROVE  StopInv'
  <2>1. UNCHANGED <<accept, ready, thread, stopped, errors, causes>>
    BY <1>9 DEF HandleRead, HandleReadError, HandleWrite, HandleWriteError
  <2>2. \A u \in Thread : job'[u] = AcceptError => job[u] = AcceptError
    BY <1>0, <1>9 DEF HandleRead, HandleReadError, HandleWrite, HandleWriteError, Finish
  <2>3. AcceptInv'
    BY <2>1, <2>2, StillMayEnd DEF AcceptMayEnd
  <2>. QED
    BY <2>1, <2>3 DEF StopsForAReason, CatchInv
<1>10. ASSUME NEW t \in Thread, NEW c \in Client, HandleReadThrows(t, c) PROVE StopInv'
  <2>1. /\ UNCHANGED <<stopped, errors>> /\ (accept' = "none" => accept = "none")
        /\ \A u \in Thread : job'[u] = AcceptError => job[u] = AcceptError
    BY <1>0, <1>10 DEF HandleReadThrows, Finish
  <2>2. causes' = causes \/ (causes' = causes \cup {"exception"} /\ t = Main)
    BY <1>10 DEF HandleReadThrows
  <2>3. ready' = ready \/ (ready' = Append(ready, AcceptError) /\ AcceptMayEnd')
    BY <1>10 DEF HandleReadThrows, Completes, AcceptMayEnd
  <2>4. AcceptInv'
    BY <2>1, <2>2, <2>3, StillMayEnd DEF AcceptMayEnd
  <2>5. CatchInv'
    BY <1>0, <1>10, <2>1 DEF HandleReadThrows, CatchInv
  <2>6. StopsForAReason'
    BY <2>1, <2>2 DEF StopsForAReason
  <2>. QED
    BY <2>4, <2>5, <2>6
<1>11. CASE StopAfterException
  <2>1. stopped' /\ UNCHANGED <<accept, ready, job, errors, causes>>
    BY <1>11 DEF StopAfterException
  <2>2. "exception" \in causes
    BY <1>11 DEF StopAfterException, CatchInv
  <2>. QED
    BY <2>1, <2>2 DEF StopsForAReason, CatchInv, AcceptInv, AcceptMayEnd
<1>12. CASE UNCHANGED vars
  BY <1>12 DEF vars, StopsForAReason, CatchInv, AcceptInv, AcceptMayEnd
<1>13. ASSUME NEW t \in Thread, UseDestroyed(t) PROVE StopInv'
  <2>1. /\ "exception" \in causes' /\ ready' = <<>> /\ stopped'
        /\ \A u \in Thread : job'[u] = NoJob
    BY <1>13 DEF UseDestroyed, Destroyed
  <2>. QED
    BY <2>1 DEF StopsForAReason, CatchInv, AcceptInv, AcceptMayEnd
<1>. QED
  BY <1>1, <1>2, <1>3, <1>4, <1>5, <1>6, <1>7, <1>8, <1>9, <1>10, <1>11, <1>12, <1>13
     DEF Next, Run, Handler

LEMMA StopAlways == Spec => []StopInv
<1>1. Init => StopInv
  <2>. SUFFICES ASSUME Init PROVE StopInv
    OBVIOUS
  <2>1. Main \in Thread
    BY DEF Thread
  <2>. QED
    BY <2>1, JobsApart DEF Init, StopInv, StopsForAReason, AcceptInv, CatchInv
<1>. QED
  BY <1>1, LoopTyping, StopNext, PTL DEF Spec

(***************************************************************************)
(* The loop ends for a signal, an exception on the thread of main, or a    *)
(* failed accept, never because of clients that come and go.               *)
(***************************************************************************)
THEOREM LoopStopsForAReason == Spec => []StopsForAReason
BY StopAlways, PTL DEF StopInv

-----------------------------------------------------------------------------
(* One handler for each session. *)

(***************************************************************************)
(* A handler agrees with the state of the connection it is about; of a     *)
(* connection that is in the hands of the loop, one handler is queued or   *)
(* running, and never two.                                                 *)
(***************************************************************************)
InHand == {"accepted", "asked", "answered", "left"}

Agrees(h) ==
  \A c \in Client :
    /\ h = <<"accept", c>> => conn[c] = "accepted"
    /\ h = <<"read", c>> => conn[c] = "asked"
    /\ h = <<"read_error", c>> => conn[c] = "left"
    /\ h = <<"write", c>> => conn[c] = "answered"
    /\ h = <<"write_error", c>> => conn[c] = "left"

KindInv ==
  /\ \A i \in DOMAIN ready : Agrees(ready[i])
  /\ \A t \in Thread : Agrees(job[t])

QueuedOnce(c) == \A i, j \in DOMAIN ready : Owns(ready[i], c) /\ Owns(ready[j], c) => i = j
RunOnce(c) == \A t, u \in Thread : Owns(job[t], c) /\ Owns(job[u], c) => t = u
NotBoth(c) == \A i \in DOMAIN ready, t \in Thread : ~(Owns(ready[i], c) /\ Owns(job[t], c))
InHands(c) ==
  conn[c] \in InHand =>
    (\E i \in DOMAIN ready : Owns(ready[i], c)) \/ (\E t \in Thread : Owns(job[t], c))

HandsInv == \A c \in Client : QueuedOnce(c) /\ RunOnce(c) /\ NotBoth(c) /\ InHands(c)
OwnInv == KindInv /\ HandsInv

(* A handler of the session of c is queued or run only while c is in hand. *)
LEMMA OwnedInHand ==
  ASSUME TypeOK, KindInv, NEW c \in Client, conn[c] \notin InHand
  PROVE  /\ \A i \in DOMAIN ready : ~Owns(ready[i], c)
         /\ \A t \in Thread : ~Owns(job[t], c)
<1>1. \A h \in Job \cup {AcceptError, NoJob} : Agrees(h) => ~Owns(h, c)
  <2>. SUFFICES ASSUME NEW h \in Job, Agrees(h), Owns(h, c) PROVE FALSE
    BY OwnsJob
  <2>1. PICK k \in {"accept", "read", "read_error", "write", "write_error"}, d \in Client : h = <<k, d>>
    BY DEF Job
  <2>2. d = c
    BY <2>1, OwnsJob
  <2>. QED
    BY <2>1, <2>2 DEF Agrees, InHand
<1>2. \A i \in DOMAIN ready : ready[i] \in Job \cup {AcceptError}
  BY DEF TypeOK
<1>3. \A t \in Thread : job[t] \in Job \cup {AcceptError, NoJob}
  BY DEF TypeOK
<1>. QED
  BY <1>1, <1>2, <1>3 DEF KindInv

(***************************************************************************)
(* An operation of c completes while no handler of c is queued or run.     *)
(***************************************************************************)
LEMMA CompletionOwn ==
  ASSUME TypeOK, OwnInv, NEW c \in Client, conn[c] \notin InHand,
         NEW k \in {"accept", "read", "read_error", "write", "write_error"},
         NEW state \in ConnState, state \in InHand,
         conn' = [conn EXCEPT ![c] = state], ready' = Append(ready, <<k, c>>), job' = job,
         k = "accept" => state = "accepted", k = "read" => state = "asked",
         k = "read_error" => state = "left", k = "write" => state = "answered",
         k = "write_error" => state = "left"
  PROVE  OwnInv'
<1>. DEFINE n == Len(ready) + 1
<1>1. /\ DOMAIN ready' = DOMAIN ready \cup {n}
      /\ \A i \in DOMAIN ready : i # n /\ ready'[i] = ready[i]
      /\ ready'[n] = <<k, c>>
  <2>1. ready \in Seq(Job \cup {AcceptError}) /\ <<k, c>> \in Job \cup {AcceptError}
    BY JobsApart DEF TypeOK
  <2>. QED
    BY <2>1, Queued
<1>. HIDE DEF n
<1>2. /\ \A i \in DOMAIN ready : ~Owns(ready[i], c)
      /\ \A t \in Thread : ~Owns(job[t], c)
  BY OwnedInHand DEF OwnInv
<1>3. \A d \in Client : conn'[d] = IF d = c THEN state ELSE conn[d]
  BY DEF TypeOK
<1>4. \A d : Owns(<<k, c>>, d) <=> d = c
  BY OwnsJob
<1>5. ASSUME NEW h, Agrees(h), ~Owns(h, c) PROVE Agrees(h)'
  <2>1. \A x : h # <<x, c>>
    BY <1>5, OwnsJob
  <2>. QED
    BY <1>3, <1>5, <2>1 DEF Agrees
<1>6. Agrees(<<k, c>>)'
  BY <1>3 DEF Agrees
<1>7. KindInv'
  BY <1>1, <1>2, <1>5, <1>6 DEF OwnInv, KindInv
<1>8. ASSUME NEW d \in Client PROVE (QueuedOnce(d) /\ RunOnce(d) /\ NotBoth(d) /\ InHands(d))'
  <2>1. QueuedOnce(d)'
    BY <1>1, <1>2, <1>4 DEF OwnInv, HandsInv, QueuedOnce
  <2>2. RunOnce(d)'
    BY DEF OwnInv, HandsInv, RunOnce
  <2>3. NotBoth(d)'
    BY <1>1, <1>2, <1>4 DEF OwnInv, HandsInv, NotBoth
  <2>4. InHands(d)'
    BY <1>1, <1>3, <1>4 DEF OwnInv, HandsInv, InHands
  <2>. QED
    BY <2>1, <2>2, <2>3, <2>4
<1>. QED
  BY <1>7, <1>8 DEF OwnInv, HandsInv

(***************************************************************************)
(* A handler of c ends, and c is out of hand; an accept may have failed.   *)
(***************************************************************************)
LEMMA FinishOwn ==
  ASSUME TypeOK, OwnInv, NEW c \in Client, NEW t \in Thread, NEW k, job[t] = <<k, c>>,
         NEW state \in ConnState,
         conn' = [conn EXCEPT ![c] = state], job' = [job EXCEPT ![t] = NoJob],
         state \notin InHand, ready' = ready \/ ready' = Append(ready, AcceptError)
  PROVE  OwnInv'
<1>. DEFINE n == Len(ready) + 1
<1>1. /\ \A i \in DOMAIN ready : Owns(ready[i], c) => FALSE
      /\ \A u \in Thread : Owns(job[u], c) => u = t
      /\ \A d : Owns(job[t], d) => d = c
  <2>1. \A d : Owns(job[t], d) <=> d = c
    BY OwnsJob
  <2>. QED
    BY <2>1 DEF OwnInv, HandsInv, NotBoth, RunOnce
<1>2. \A d \in Client : conn'[d] = IF d = c THEN state ELSE conn[d]
  BY DEF TypeOK
<1>3. \A u \in Thread : job'[u] = IF u = t THEN NoJob ELSE job[u]
  BY DEF TypeOK
<1>4. \A d : ~Owns(NoJob, d) /\ ~Owns(AcceptError, d)
  BY OwnsJob
<1>5. ASSUME NEW h, Agrees(h), ~Owns(h, c) PROVE Agrees(h)'
  <2>1. \A x : h # <<x, c>>
    BY <1>5, OwnsJob
  <2>. QED
    BY <1>2, <1>5, <2>1 DEF Agrees
<1>6. Agrees(NoJob)'
  BY JobsApart DEF Agrees
<1>7. \A u \in Thread : Agrees(job[u])'
  BY <1>1, <1>3, <1>5, <1>6 DEF OwnInv, KindInv
<1>8. ASSUME NEW d \in Client PROVE RunOnce(d)'
  BY <1>3, <1>4 DEF OwnInv, HandsInv, RunOnce
<1>9. CASE ready' = ready
  <2>1. KindInv'
    BY <1>1, <1>5, <1>7, <1>9 DEF OwnInv, KindInv
  <2>2. ASSUME NEW d \in Client PROVE (QueuedOnce(d) /\ NotBoth(d) /\ InHands(d))'
    <3>1. QueuedOnce(d)' /\ NotBoth(d)'
      BY <1>3, <1>4, <1>9 DEF OwnInv, HandsInv, QueuedOnce, NotBoth
    <3>2. InHands(d)'
      BY <1>1, <1>2, <1>3, <1>9 DEF OwnInv, HandsInv, InHands
    <3>. QED
      BY <3>1, <3>2
  <2>. QED
    BY <1>8, <2>1, <2>2 DEF OwnInv, HandsInv
<1>10. CASE ready' = Append(ready, AcceptError)
  <2>1. /\ DOMAIN ready' = DOMAIN ready \cup {n}
        /\ \A i \in DOMAIN ready : i # n /\ ready'[i] = ready[i]
        /\ ready'[n] = AcceptError
    <3>1. ready \in Seq(Job \cup {AcceptError})
      BY DEF TypeOK
    <3>. QED
      BY <1>10, <3>1, Queued
  <2>. HIDE DEF n
  <2>2. Agrees(AcceptError)'
    BY JobsApart DEF Agrees
  <2>3. KindInv'
    BY <1>1, <1>5, <1>7, <2>1, <2>2 DEF OwnInv, KindInv
  <2>4. ASSUME NEW d \in Client PROVE (QueuedOnce(d) /\ NotBoth(d) /\ InHands(d))'
    <3>1. QueuedOnce(d)'
      BY <1>4, <2>1 DEF OwnInv, HandsInv, QueuedOnce
    <3>2. NotBoth(d)'
      BY <1>3, <1>4, <2>1 DEF OwnInv, HandsInv, NotBoth
    <3>3. InHands(d)'
      BY <1>1, <1>2, <1>3, <2>1 DEF OwnInv, HandsInv, InHands
    <3>. QED
      BY <3>1, <3>2, <3>3
  <2>. QED
    BY <1>8, <2>3, <2>4 DEF OwnInv, HandsInv
<1>. QED
  BY <1>9, <1>10

(* A thread takes the oldest handler. *)
LEMMA TakeOwn ==
  ASSUME TypeOK, OwnInv, NEW t \in Thread, Take(t)
  PROVE  OwnInv'
<1>1. /\ 1 \in DOMAIN ready /\ Head(ready) = ready[1]
      /\ \A i \in DOMAIN ready' : i + 1 \in DOMAIN ready /\ i + 1 # 1 /\ ready'[i] = ready[i + 1]
      /\ \A i \in DOMAIN ready : i # 1 => \E j \in DOMAIN ready' : i = j + 1
  BY Dequeued DEF TypeOK, Take
<1>2. job[t] = NoJob /\ conn' = conn
      /\ \A u \in Thread : job'[u] = IF u = t THEN ready[1] ELSE job[u]
  BY <1>1 DEF Take, InRun, TypeOK
<1>3. \A i, j \in DOMAIN ready' : i + 1 = j + 1 => i = j
  <2>1. \A i \in DOMAIN ready' : i \in Nat
    BY DEF TypeOK, Take
  <2>. QED
    BY <2>1
<1>4. \A h : Agrees(h)' <=> Agrees(h)
  BY <1>2 DEF Agrees
<1>5. KindInv'
  BY <1>1, <1>2, <1>4 DEF OwnInv, KindInv
<1>6. ASSUME NEW c \in Client PROVE (QueuedOnce(c) /\ RunOnce(c) /\ NotBoth(c) /\ InHands(c))'
  <2>. USE DEF OwnInv, HandsInv
  <2>1. QueuedOnce(c)'
    BY <1>1, <1>3 DEF QueuedOnce
  <2>2. RunOnce(c)'
    BY <1>1, <1>2 DEF RunOnce, NotBoth
  <2>3. NotBoth(c)'
    BY <1>1, <1>2 DEF QueuedOnce, NotBoth
  <2>4. InHands(c)'
    <3>1. ASSUME NEW i \in DOMAIN ready, Owns(ready[i], c)
          PROVE  (\E j \in DOMAIN ready' : Owns(ready'[j], c)) \/ \E u \in Thread : Owns(job'[u], c)
      BY <1>1, <1>2, <3>1
    <3>2. ASSUME NEW u \in Thread, Owns(job[u], c) PROVE Owns(job'[u], c)
      BY <1>2, <3>2, OwnsJob
    <3>. QED
      BY <1>2, <3>1, <3>2 DEF InHands
  <2>. QED
    BY <2>1, <2>2, <2>3, <2>4
<1>. QED
  BY <1>5, <1>6 DEF OwnInv, HandsInv

(* A handler of nobody is queued, or ends. *)
LEMMA NobodysOwn ==
  ASSUME TypeOK, OwnInv, conn' = conn,
         ready' = ready \/ ready' = Append(ready, AcceptError),
         \/ job' = job
         \/ \E t \in Thread : job[t] = AcceptError /\ job' = [job EXCEPT ![t] = NoJob]
  PROVE  OwnInv'
<1>. DEFINE n == Len(ready) + 1
<1>1. \A c : ~Owns(AcceptError, c) /\ ~Owns(NoJob, c)
  BY OwnsJob
<1>2. Agrees(NoJob)' /\ Agrees(AcceptError)'
  BY JobsApart DEF Agrees
<1>3. \A h : Agrees(h)' <=> Agrees(h)
  BY DEF Agrees
<1>4. \A u \in Thread : job'[u] = job[u] \/ (job'[u] = NoJob /\ job[u] = AcceptError)
  BY DEF TypeOK
<1>5. \A u \in Thread, c \in Client : Owns(job'[u], c) <=> Owns(job[u], c)
  BY <1>1, <1>4
<1>6. \A u \in Thread : Agrees(job[u])'
  BY <1>2, <1>3, <1>4 DEF OwnInv, KindInv
<1>7. CASE ready' = ready
  <2>1. KindInv'
    BY <1>3, <1>6, <1>7 DEF OwnInv, KindInv
  <2>2. HandsInv'
    BY <1>5, <1>7 DEF OwnInv, HandsInv, QueuedOnce, RunOnce, NotBoth, InHands
  <2>. QED
    BY <2>1, <2>2 DEF OwnInv
<1>8. CASE ready' = Append(ready, AcceptError)
  <2>1. /\ DOMAIN ready' = DOMAIN ready \cup {n}
        /\ \A i \in DOMAIN ready : i # n /\ ready'[i] = ready[i]
        /\ ready'[n] = AcceptError
    <3>1. ready \in Seq(Job \cup {AcceptError}) /\ AcceptError \in Job \cup {AcceptError}
      BY DEF TypeOK
    <3>. QED
      BY <1>8, <3>1, Queued
  <2>. HIDE DEF n
  <2>2. KindInv'
    BY <1>2, <1>3, <1>6, <2>1 DEF OwnInv, KindInv
  <2>3. ASSUME NEW c \in Client PROVE (QueuedOnce(c) /\ RunOnce(c) /\ NotBoth(c) /\ InHands(c))'
    <3>1. QueuedOnce(c)' /\ RunOnce(c)'
      BY <1>1, <1>5, <2>1 DEF OwnInv, HandsInv, QueuedOnce, RunOnce
    <3>2. NotBoth(c)'
      BY <1>1, <1>5, <2>1 DEF OwnInv, HandsInv, NotBoth
    <3>3. InHands(c)'
      BY <1>5, <2>1 DEF OwnInv, HandsInv, InHands
    <3>. QED
      BY <3>1, <3>2, <3>3
  <2>. QED
    BY <2>2, <2>3 DEF OwnInv, HandsInv
<1>. QED
  BY <1>7, <1>8

LEMMA OwnNext == TypeOK /\ OwnInv /\ [Next]_vars => OwnInv'
<1>. SUFFICES ASSUME TypeOK, OwnInv, [Next]_vars PROVE OwnInv'
  OBVIOUS
<1>. USE DEF InHand, ConnState
<1>1. ASSUME conn' = conn \/ \E c \in Client : conn[c] = "out" /\ Becomes(c, "backlog"),
             ready' = ready, job' = job
      PROVE  OwnInv'
  <2>1. /\ \A c \in Client : conn'[c] \in InHand => conn'[c] = conn[c]
        /\ \A c \in Client : conn[c] \in InHand => conn'[c] = conn[c]
    BY <1>1 DEF Becomes, TypeOK
  <2>2. \A h : Agrees(h) => Agrees(h)'
    BY <2>1 DEF Agrees
  <2>3. KindInv'
    BY <1>1, <2>2 DEF OwnInv, KindInv
  <2>4. HandsInv'
    BY <1>1, <2>1 DEF OwnInv, HandsInv, QueuedOnce, RunOnce, NotBoth, InHands
  <2>. QED
    BY <2>3, <2>4 DEF OwnInv
<1>2. ASSUME NEW c \in Client, Connect(c) PROVE OwnInv'
  BY <1>1, <1>2 DEF Connect, Outside
<1>3. ASSUME NEW c \in Client, AcceptCompletes(c) PROVE OwnInv'
  BY <1>3, CompletionOwn DEF AcceptCompletes, Becomes, Completes, Outside
<1>4. ASSUME NEW c \in Client, Ask(c) PROVE OwnInv'
  BY <1>4, CompletionOwn DEF Ask, Becomes, Completes, Outside
<1>5. ASSUME NEW c \in Client, HangUp(c) PROVE OwnInv'
  BY <1>5, CompletionOwn DEF HangUp, Becomes, Completes, Outside
<1>6. CASE AcceptFails
  BY <1>6, NobodysOwn DEF AcceptFails, Completes, Outside
<1>7. CASE Signal \/ StopAfterException \/ Join \/ UNCHANGED vars
  BY <1>1, <1>7 DEF Signal, StopAfterException, Join, vars
<1>8. ASSUME NEW t \in Thread, Take(t) PROVE OwnInv'
  BY <1>8, TakeOwn
<1>9. ASSUME NEW t \in Thread, ReturnFromRun(t) PROVE OwnInv'
  BY <1>1, <1>9 DEF ReturnFromRun
<1>10. ASSUME NEW t \in Thread, HandleAcceptError(t) PROVE OwnInv'
  <2>1. ready' = ready \/ ready' = Append(ready, AcceptError)
    BY <1>10 DEF HandleAcceptError, StartAccept, Completes
  <2>. QED
    BY <1>10, <2>1, NobodysOwn DEF HandleAcceptError, Finish
<1>11. ASSUME NEW t \in Thread, NEW c \in Client, Handler(t, c) PROVE OwnInv'
  <2>1. PICK k : job[t] = <<k, c>>
    BY <1>11 DEF Handler, HandleAccept, HandleRead, HandleReadThrows, HandleReadError,
       HandleWrite, HandleWriteError, Runs
  <2>2. job' = [job EXCEPT ![t] = NoJob]
    BY <1>11 DEF Handler, HandleAccept, HandleRead, HandleReadThrows, HandleReadError,
       HandleWrite, HandleWriteError, Finish
  <2>3. \E state \in {"waiting", "writing", "deleted", "leaked"} :
          conn' = [conn EXCEPT ![c] = state]
    BY <1>11 DEF Handler, HandleAccept, HandleRead, HandleReadThrows, HandleReadError,
       HandleWrite, HandleWriteError, Becomes
  <2>4. ready' = ready \/ ready' = Append(ready, AcceptError)
    BY <1>11 DEF Handler, HandleAccept, StartAccept, HandleRead, HandleReadThrows,
       HandleReadError, HandleWrite, HandleWriteError, Completes
  <2>. QED
    BY <2>1, <2>2, <2>3, <2>4, FinishOwn
<1>12. ASSUME NEW c \in Client, WriteCompletes(c) PROVE OwnInv'
  BY <1>12, CompletionOwn DEF WriteCompletes, Becomes, Completes, Outside
<1>13. ASSUME NEW c \in Client, Reset(c) PROVE OwnInv'
  BY <1>13, CompletionOwn DEF Reset, Becomes, Completes, Outside
<1>14. ASSUME NEW t \in Thread, UseDestroyed(t) PROVE OwnInv'
  <2>1. /\ DOMAIN ready' = {} /\ \A u \in Thread : job'[u] = NoJob
        /\ \A c \in Client : conn'[c] = "deleted"
    BY <1>14 DEF UseDestroyed
  <2>2. Agrees(NoJob)' /\ \A c : ~Owns(NoJob, c)
    BY JobsApart, OwnsJob DEF Agrees
  <2>. QED
    BY <2>1, <2>2 DEF OwnInv, KindInv, HandsInv, QueuedOnce, RunOnce, NotBoth, InHands
<1>. QED
  BY <1>2, <1>3, <1>4, <1>5, <1>6, <1>7, <1>8, <1>9, <1>10, <1>11, <1>12, <1>13, <1>14
     DEF Next, Run

LEMMA OwnCounts == TypeOK /\ OwnInv => OneHandlerPerSession
<1>. SUFFICES ASSUME TypeOK, OwnInv, NEW c \in Client
              PROVE  Cardinality({i \in DOMAIN ready : Owns(ready[i], c)})
                     + Cardinality({t \in Thread : Owns(job[t], c)}) =
                       IF conn[c] \in InHand THEN 1 ELSE 0
  BY DEF OneHandlerPerSession, InHand
<1>. DEFINE Q == {i \in DOMAIN ready : Owns(ready[i], c)}
            R == {t \in Thread : Owns(job[t], c)}
<1>1. Q = {} \/ \E i : Q = {i}
  BY DEF OwnInv, HandsInv, QueuedOnce
<1>2. R = {} \/ \E t : R = {t}
  BY DEF OwnInv, HandsInv, RunOnce
<1>3. Q = {} \/ R = {}
  BY DEF OwnInv, HandsInv, NotBoth
<1>4. (Q # {} \/ R # {}) <=> conn[c] \in InHand
  <2>1. conn[c] \in InHand => Q # {} \/ R # {}
    BY DEF OwnInv, HandsInv, InHands
  <2>2. conn[c] \notin InHand => Q = {} /\ R = {}
    BY OwnedInHand DEF OwnInv
  <2>. QED
    BY <2>1, <2>2
<1>. HIDE DEF Q, R
<1>5. Cardinality(Q) = (IF Q = {} THEN 0 ELSE 1) /\ Cardinality(R) = (IF R = {} THEN 0 ELSE 1)
  BY <1>1, <1>2, FS_EmptySet, FS_Singleton
<1>6. Cardinality(Q) + Cardinality(R) = IF conn[c] \in InHand THEN 1 ELSE 0
  BY <1>3, <1>4, <1>5
<1>. QED
  BY <1>6 DEF Q, R

LEMMA InitOwn == Init => OwnInv
<1>. SUFFICES ASSUME Init PROVE OwnInv
  OBVIOUS
<1>1. DOMAIN ready = {}
  BY DEF Init
<1>2. Agrees(NoJob) /\ \A c : ~Owns(NoJob, c)
  BY JobsApart, OwnsJob DEF Agrees
<1>. QED
  BY <1>1, <1>2
     DEF Init, OwnInv, KindInv, HandsInv, QueuedOnce, RunOnce, NotBoth, InHands, InHand

(***************************************************************************)
(* Of each session at most one handler is queued or running at any moment, *)
(* and exactly one while the session has something to do: no two threads   *)
(* are ever inside one session, and it deletes itself once.                *)
(***************************************************************************)
THEOREM SessionsAreOneThreads == Spec => []OneHandlerPerSession
BY InitOwn, LoopTyping, OwnNext, OwnCounts, PTL DEF Spec

-----------------------------------------------------------------------------
(* Lost threads. *)

(***************************************************************************)
(* A thread that runs a handler is in the loop, so that each exception     *)
(* takes one more thread and, since the session was in hand, one more      *)
(* session.                                                                *)
(***************************************************************************)
Lost == {t \in Thread : thread[t] # "run"}
Leaked == {c \in Client : conn[c] = "leaked"}

LossInv ==
  /\ \A t \in Thread : job[t] # NoJob => thread[t] = "run"
  /\ ~stopped => /\ IsFiniteSet(Lost) /\ IsFiniteSet(Leaked)
                 /\ Cardinality(Lost) = Cardinality(Leaked)

(* A step after which nothing was lost that was not lost before. *)
LEMMA NothingLost ==
  ASSUME TypeOK, LossInv, thread' = thread, ~stopped' => ~stopped,
         \A c \in Client : conn'[c] = "leaked" <=> conn[c] = "leaked",
         \A t \in Thread : job'[t] # NoJob => job[t] # NoJob \/ thread[t] = "run"
  PROVE  LossInv'
<1>1. Lost' = Lost /\ Leaked' = Leaked
  BY DEF Lost, Leaked
<1>. QED
  BY <1>1 DEF LossInv

LEMMA LossNext == TypeOK /\ OwnInv /\ LossInv /\ [Next]_vars => LossInv'
<1>. SUFFICES ASSUME TypeOK, OwnInv, LossInv, [Next]_vars PROVE LossInv'
  OBVIOUS
<1>. USE DEF TypeOK
<1>1. ASSUME NEW c \in Client,
             \/ Connect(c) \/ AcceptCompletes(c) \/ Ask(c) \/ HangUp(c)
             \/ WriteCompletes(c) \/ Reset(c)
      PROVE  LossInv'
  <2>1. UNCHANGED <<thread, job, stopped>> /\ conn[c] # "leaked"
    BY <1>1 DEF Connect, AcceptCompletes, Ask, HangUp, WriteCompletes, Reset, Outside
  <2>2. \E state \in {"backlog", "accepted", "asked", "left", "answered"} :
          conn' = [conn EXCEPT ![c] = state]
    BY <1>1 DEF Connect, AcceptCompletes, Ask, HangUp, WriteCompletes, Reset, Becomes
  <2>. QED
    BY <2>1, <2>2, NothingLost
<1>2. CASE AcceptFails \/ Signal \/ UNCHANGED vars
  BY <1>2, NothingLost DEF AcceptFails, Signal, Outside, vars
<1>3. CASE Join
  <2>1. \A t \in Thread : (thread'[t] # "run") <=> (thread[t] # "run")
    BY <1>3 DEF Join
  <2>2. Lost' = Lost /\ Leaked' = Leaked
    BY <1>3, <2>1 DEF Join, Lost, Leaked
  <2>. QED
    BY <1>3, <2>1, <2>2 DEF Join, LossInv
<1>4. ASSUME NEW t \in Thread, Take(t) PROVE LossInv'
  BY <1>4, NothingLost DEF Take, InRun
<1>5. ASSUME NEW t \in Thread, ReturnFromRun(t) PROVE LossInv'
  BY <1>5 DEF ReturnFromRun, InRun, AfterRun, LossInv
<1>6. ASSUME NEW t \in Thread, HandleAcceptError(t) PROVE LossInv'
  BY <1>6, NothingLost DEF HandleAcceptError, Finish
<1>7. ASSUME NEW t \in Thread, NEW c \in Client,
             \/ HandleAccept(t, c) \/ HandleRead(t, c) \/ HandleReadError(t, c)
             \/ HandleWrite(t, c) \/ HandleWriteError(t, c)
      PROVE  LossInv'
  <2>. USE DEF HandleAccept, HandleRead, HandleReadError, HandleWrite, HandleWriteError
  <2>1. thread' = thread /\ stopped' = stopped
    BY <1>7
  <2>2. job' = [job EXCEPT ![t] = NoJob]
    BY <1>7 DEF Finish
  <2>3. \E state \in {"waiting", "writing", "deleted"} : conn' = [conn EXCEPT ![c] = state]
    BY <1>7 DEF Becomes
  <2>4. Agrees(job[t])
    BY DEF OwnInv, KindInv
  <2>5. conn[c] # "leaked"
    BY <1>7, <2>4 DEF Runs, Agrees
  <2>. QED
    BY <2>1, <2>2, <2>3, <2>5, NothingLost
<1>8. ASSUME NEW t \in Thread, NEW c \in Client, HandleReadThrows(t, c) PROVE LossInv'
  <2>1. job[t] = <<"read", c>> /\ job[t] # NoJob
    BY <1>8, JobsApart DEF HandleReadThrows, Runs
  <2>2. thread[t] = "run" /\ conn[c] = "asked"
    <3>1. Agrees(job[t])
      BY DEF OwnInv, KindInv
    <3>. QED
      BY <2>1, <3>1 DEF LossInv, Agrees
  <2>3. /\ \A u \in Thread : (thread'[u] # "run") <=> (thread[u] # "run" \/ u = t)
        /\ \A d \in Client : (conn'[d] = "leaked") <=> (conn[d] = "leaked" \/ d = c)
        /\ \A u \in Thread : job'[u] # NoJob => u # t /\ job[u] # NoJob
    BY <1>8 DEF HandleReadThrows, Becomes, Finish
  <2>4. Lost' = Lost \cup {t} /\ Leaked' = Leaked \cup {c}
    BY <2>3 DEF Lost, Leaked
  <2>5. t \notin Lost /\ c \notin Leaked
    BY <2>2 DEF Lost, Leaked
  <2>6. ~stopped' => ~stopped
    BY <1>8 DEF HandleReadThrows
  <2>7. ~stopped' => /\ IsFiniteSet(Lost') /\ IsFiniteSet(Leaked')
                     /\ Cardinality(Lost') = Cardinality(Leaked')
    <3>. SUFFICES ASSUME ~stopped'
                  PROVE  /\ IsFiniteSet(Lost') /\ IsFiniteSet(Leaked')
                         /\ Cardinality(Lost') = Cardinality(Leaked')
      OBVIOUS
    <3>1. IsFiniteSet(Lost) /\ IsFiniteSet(Leaked) /\ Cardinality(Lost) = Cardinality(Leaked)
      BY <2>6 DEF LossInv
    <3>2. IsFiniteSet(Lost \cup {t}) /\ Cardinality(Lost \cup {t}) = Cardinality(Lost) + 1
      BY <2>5, <3>1, FS_AddElement
    <3>3. IsFiniteSet(Leaked \cup {c}) /\ Cardinality(Leaked \cup {c}) = Cardinality(Leaked) + 1
      BY <2>5, <3>1, FS_AddElement
    <3>. QED
      BY <2>4, <3>1, <3>2, <3>3
  <2>. QED
    BY <2>3, <2>7 DEF LossInv
<1>9. CASE StopAfterException
  BY <1>9 DEF StopAfterException, LossInv
<1>10. ASSUME NEW t \in Thread, UseDestroyed(t) PROVE LossInv'
  BY <1>10 DEF UseDestroyed, LossInv
<1>. QED
  BY <1>1, <1>2, <1>3, <1>4, <1>5, <1>6, <1>7, <1>8, <1>9, <1>10 DEF Next, Run, Handler

(***************************************************************************)
(* As long as the loop is not stopped, each thread it has lost stands for  *)
(* one session that was never deleted, and the accept loop is alive unless *)
(* an accept failed or main unwinds from an exception.                     *)
(***************************************************************************)
THEOREM LossesAreAccounted == Spec => []LossesAccounted
<1>1. Init => LossInv
  <2>. SUFFICES ASSUME Init PROVE LossInv
    OBVIOUS
  <2>1. Lost = {} /\ Leaked = {}
    BY DEF Init, Lost, Leaked
  <2>. QED
    BY <2>1, FS_EmptySet DEF Init, LossInv
<1>2. Init => OwnInv
  BY InitOwn
<1>3. StopInv /\ LossInv => LossesAccounted
  BY DEF StopInv, AcceptInv, AcceptMayEnd, CatchInv, LossInv, LossesAccounted, Lost, Leaked
<1>. QED
  BY <1>1, <1>2, <1>3, LoopTyping, StopAlways, OwnNext, LossNext, PTL DEF Spec

=============================================================================
