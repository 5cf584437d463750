----------------------------- MODULE ServerLoop -----------------------------
(***************************************************************************)
(* The event loop of the server: main, its worker threads, the accept loop *)
(* of handler_server, and the sessions, on one boost::asio::io_context.    *)
(*                                                                         *)
(* An operation that completes puts its handler into the queue `ready`;    *)
(* each thread inside io_context.run() takes the oldest handler and runs   *)
(* it.  What a session does with the bytes it reads is module Session;     *)
(* here a request is handled at once, or holds its thread as long as it    *)
(* likes (a slow disk), or makes handle_read throw (stoul).  The reply is  *)
(* written when its client reads it, or never, or its client resets.       *)
(***************************************************************************)
EXTENDS Naturals, Sequences, FiniteSets

CONSTANTS
  Worker,           \* the worker threads, thread_count - 1 of them
  Main,             \* the thread of main, which runs the loop as well
  Client,           \* the clients, with one connection each
  Asks,             \* what client c asks for: "plain", "slow" or "throw"
  MaySignal,        \* whether SIGINT or SIGTERM may arrive
  MaxAcceptErrors   \* bound: failed accepts

Thread == Worker \cup {Main}
Request == {"plain", "slow", "throw"}

(***************************************************************************)
(* Completed operations.  A failed or aborted accept belongs to no client. *)
(***************************************************************************)
Job == {"accept", "read", "read_error", "write", "write_error"} \X Client
AcceptError == <<"accept_error">>
NoJob == <<"none">>

ASSUME ServerAssumption ==
  /\ Main \notin Worker
  /\ Asks \in [Client -> Request]
  /\ MaySignal \in BOOLEAN
  /\ MaxAcceptErrors \in Nat

VARIABLES
  conn,       \* the connection of each client
  accept,     \* the async_accept: pending, completed, or not started again
  ready,      \* the handlers whose operation completed, oldest first
  thread,     \* whether a thread is in run(), and where main is after it:
              \* between an exception and its catch, or at the joins
  job,        \* the handler each thread runs
  stopped,    \* the io_context was stopped, or ran out of work
  errors,     \* history: failed accepts
  causes      \* what ended the loop, for main or for everybody

vars == <<conn, accept, ready, thread, job, stopped, errors, causes>>

(***************************************************************************)
(*   out       not connected           writing   the reply is on its way   *)
(*   backlog   connected, no session   answered  the reply is written      *)
(*   waiting   the session reads       left      the client is gone        *)
(*   asked     a request came          deleted   the session is gone       *)
(*                                     leaked    handle_read threw         *)
(***************************************************************************)
ConnState == {"out", "backlog", "accepted", "waiting", "asked", "writing", "answered",
              "left", "deleted", "leaked"}

TypeOK ==
  /\ conn \in [Client -> ConnState]
  /\ accept \in {"pending", "completed", "none"}
  /\ ready \in Seq(Job \cup {AcceptError})
  /\ thread \in [Thread -> {"run", "unwinding", "joining", "ended"}]
  /\ \A w \in Worker : thread[w] \in {"run", "ended"}
  /\ job \in [Thread -> Job \cup {AcceptError, NoJob}]
  /\ stopped \in BOOLEAN
  /\ errors \in 0 .. MaxAcceptErrors
  /\ causes \in SUBSET {"signal", "exception", "no_work", "crash"}

Init ==
  /\ conn = [c \in Client |-> "out"]
  /\ accept = "pending"
  /\ ready = <<>>
  /\ thread = [t \in Thread |-> "run"]
  /\ job = [t \in Thread |-> NoJob]
  /\ stopped = FALSE
  /\ errors = 0
  /\ causes = {}

-----------------------------------------------------------------------------
(* What happens outside: clients, the network, signals. *)

Becomes(c, state) == conn' = [conn EXCEPT ![c] = state]
Completes(handler) == ready' = Append(ready, handler)
Outside == <<thread, job, stopped, causes>>

Connect(c) ==
  /\ conn[c] = "out"
  /\ Becomes(c, "backlog")
  /\ UNCHANGED <<accept, ready, errors, Outside>>

AcceptCompletes(c) ==
  /\ accept = "pending" /\ conn[c] = "backlog"
  /\ accept' = "completed"
  /\ Becomes(c, "accepted")
  /\ Completes(<<"accept", c>>)
  /\ UNCHANGED <<errors, Outside>>

AcceptFails ==
  /\ accept = "pending" /\ errors < MaxAcceptErrors
  /\ accept' = "completed"
  /\ errors' = errors + 1
  /\ Completes(AcceptError)
  /\ UNCHANGED <<conn, Outside>>

Ask(c) ==
  /\ conn[c] = "waiting"
  /\ Becomes(c, "asked")
  /\ Completes(<<"read", c>>)
  /\ UNCHANGED <<accept, errors, Outside>>

HangUp(c) ==
  /\ conn[c] = "waiting"
  /\ Becomes(c, "left")
  /\ Completes(<<"read_error", c>>)
  /\ UNCHANGED <<accept, errors, Outside>>

(* The client has read its reply. *)
WriteCompletes(c) ==
  /\ conn[c] = "writing"
  /\ Becomes(c, "answered")
  /\ Completes(<<"write", c>>)
  /\ UNCHANGED <<accept, errors, Outside>>

(* The client resets the connection while its reply is written. *)
Reset(c) ==
  /\ conn[c] = "writing"
  /\ Becomes(c, "left")
  /\ Completes(<<"write_error", c>>)
  /\ UNCHANGED <<accept, errors, Outside>>

(* signal_handler: io_context::stop(). *)
Signal ==
  /\ MaySignal /\ "signal" \notin causes /\ thread[Main] # "ended"
  /\ stopped' = TRUE
  /\ causes' = causes \cup {"signal"}
  /\ UNCHANGED <<conn, accept, ready, thread, job, errors>>

-----------------------------------------------------------------------------
(* io_context.run(). *)

InRun(t) == thread[t] = "run" /\ job[t] = NoJob

Take(t) ==
  /\ InRun(t) /\ ~stopped /\ ready # <<>>
  /\ job' = [job EXCEPT ![t] = Head(ready)]
  /\ ready' = Tail(ready)
  /\ UNCHANGED <<conn, accept, thread, stopped, errors, causes>>

(***************************************************************************)
(* run() returns when the loop is stopped, and stops it when there is no   *)
(* operation left that could complete.                                     *)
(***************************************************************************)
Pending == {c \in Client : conn[c] \in {"accepted", "waiting", "asked", "writing", "answered", "left"}}
OutOfWork ==
  /\ accept = "none" /\ Pending = {} /\ ready = <<>>
  /\ \A t \in Thread : job[t] = NoJob

\* Mutant of AfterRun: a worker goes on to join, as main does.
JoiningAfterRun(t) == [thread EXCEPT ![t] = "joining"]
AfterRun(t) == [thread EXCEPT ![t] = IF t = Main THEN "joining" ELSE "ended"]

ReturnFromRun(t) ==
  /\ InRun(t) /\ (stopped \/ OutOfWork)
  /\ thread' = AfterRun(t)
  /\ stopped' = TRUE
  /\ causes' = IF stopped THEN causes ELSE causes \cup {"no_work"}
  /\ UNCHANGED <<conn, accept, ready, job, errors>>

(* main joins the workers and returns. *)
Join ==
  /\ thread[Main] = "joining"
  /\ \A w \in Worker : thread[w] = "ended"
  /\ thread' = [thread EXCEPT ![Main] = "ended"]
  /\ UNCHANGED <<conn, accept, ready, job, stopped, errors, causes>>

-----------------------------------------------------------------------------
(* The handlers. *)

Runs(t, kind, c) == job[t] = <<kind, c>>
Finish(t) == job' = [job EXCEPT ![t] = NoJob]

\* Mutants of HandleAccept: no accept after the first client, and two reads
\* started on one session.
HandleAcceptOnce(t, c) ==
  /\ Runs(t, "accept", c) /\ Finish(t)
  /\ Becomes(c, "waiting")
  /\ accept' = "none"
  /\ UNCHANGED <<ready, thread, stopped, errors, causes>>
HandleAcceptReadsTwice(t, c) ==
  /\ Runs(t, "accept", c) /\ Finish(t)
  /\ Becomes(c, "asked")
  /\ ready' = ready \o <<<<"read", c>>, <<"read", c>>>>
  /\ accept' = "pending"
  /\ UNCHANGED <<thread, stopped, errors, causes>>

(***************************************************************************)
(* An exception on main has destroyed handler_server and the dispatcher.   *)
(* The next accept then fails at once, on the closed acceptor.             *)
(***************************************************************************)
Destroyed == "exception" \in causes

StartAccept ==
  IF Destroyed
  THEN accept' = "completed" /\ Completes(AcceptError)
  ELSE accept' = "pending" /\ UNCHANGED ready

(* The session starts to read, and the next accept is started. *)
HandleAccept(t, c) ==
  /\ Runs(t, "accept", c) /\ Finish(t)
  /\ Becomes(c, "waiting")
  /\ StartAccept
  /\ UNCHANGED <<thread, stopped, errors, causes>>

(***************************************************************************)
(* The session is deleted, and no accept is started.  A destroyed          *)
(* handler_server may answer as its base class, which starts one.          *)
(***************************************************************************)
HandleAcceptError(t) ==
  /\ job[t] = AcceptError /\ Finish(t)
  /\ \/ accept' = "none" /\ UNCHANGED ready
     \/ Destroyed /\ StartAccept
  /\ UNCHANGED <<conn, thread, stopped, errors, causes>>

(* handle_read: the handler of the request runs, and its reply is begun. *)
HandleRead(t, c) ==
  /\ Runs(t, "read", c) /\ Asks[c] # "throw" /\ Finish(t)
  /\ Becomes(c, "writing")
  /\ UNCHANGED <<accept, ready, thread, stopped, errors, causes>>

(***************************************************************************)
(* An exception leaves run(), and nobody deletes the session.  A worker    *)
(* logs it and ends.  On main handler_server is destroyed, which aborts a  *)
(* pending accept, while the workers run on.                               *)
(***************************************************************************)
HandleReadThrows(t, c) ==
  /\ Runs(t, "read", c) /\ Asks[c] = "throw" /\ Finish(t)
  /\ Becomes(c, "leaked")
  /\ IF t = Main
     THEN /\ thread' = [thread EXCEPT ![t] = "unwinding"]
          /\ causes' = causes \cup {"exception"}
     ELSE thread' = [thread EXCEPT ![t] = "ended"] /\ UNCHANGED causes
  /\ IF t = Main /\ accept = "pending"
     THEN accept' = "completed" /\ Completes(AcceptError)
     ELSE UNCHANGED <<accept, ready>>
  /\ UNCHANGED <<stopped, errors>>

\* Mutant of StopAfterException: the catch joins workers it has not stopped.
JoinAfterException ==
  /\ thread[Main] = "unwinding"
  /\ thread' = [thread EXCEPT ![Main] = "joining"]
  /\ UNCHANGED <<conn, accept, ready, job, stopped, errors, causes>>

(* The catch of main stops the loop, and goes on to join the workers. *)
StopAfterException ==
  /\ thread[Main] = "unwinding"
  /\ thread' = [thread EXCEPT ![Main] = "joining"]
  /\ stopped' = TRUE
  /\ UNCHANGED <<conn, accept, ready, job, errors, causes>>

(***************************************************************************)
(* A handler that reaches into what main has destroyed may end the process.*)
(***************************************************************************)
UseDestroyed(t) ==
  /\ Destroyed
  /\ job[t] = AcceptError \/ \E c \in Client : Runs(t, "accept", c) \/ Runs(t, "read", c)
  /\ conn' = [c \in Client |-> "deleted"]
  /\ accept' = "none" /\ ready' = <<>>
  /\ thread' = [u \in Thread |-> "ended"] /\ job' = [u \in Thread |-> NoJob]
  /\ stopped' = TRUE /\ causes' = causes \cup {"crash"}
  /\ UNCHANGED errors

HandleReadError(t, c) ==
  /\ Runs(t, "read_error", c) /\ Finish(t)
  /\ Becomes(c, "deleted")
  /\ UNCHANGED <<accept, ready, thread, stopped, errors, causes>>

(* handle_write: the session reads on, or is deleted. *)
HandleWrite(t, c) ==
  /\ Runs(t, "write", c) /\ Finish(t)
  /\ Becomes(c, "waiting")
  /\ UNCHANGED <<accept, ready, thread, stopped, errors, causes>>

\* Mutant of HandleWriteError: it reads on whatever the error.
HandleWriteErrorReads(t, c) ==
  /\ Runs(t, "write_error", c) /\ Finish(t)
  /\ Becomes(c, "waiting")
  /\ UNCHANGED <<accept, ready, thread, stopped, errors, causes>>
HandleWriteError(t, c) ==
  /\ Runs(t, "write_error", c) /\ Finish(t)
  /\ Becomes(c, "deleted")
  /\ UNCHANGED <<accept, ready, thread, stopped, errors, causes>>

-----------------------------------------------------------------------------
Handler(t, c) ==
  \/ HandleAccept(t, c) \/ HandleRead(t, c) \/ HandleReadThrows(t, c)
  \/ HandleReadError(t, c) \/ HandleWrite(t, c) \/ HandleWriteError(t, c)

Run(t) ==
  \/ Take(t) \/ ReturnFromRun(t) \/ HandleAcceptError(t) \/ UseDestroyed(t)
  \/ \E c \in Client : Handler(t, c)

Next ==
  \/ \E c \in Client : Connect(c) \/ AcceptCompletes(c) \/ Ask(c) \/ HangUp(c)
  \/ \E c \in Client : WriteCompletes(c) \/ Reset(c)
  \/ AcceptFails \/ Signal \/ StopAfterException \/ Join
  \/ \E t \in Thread : Run(t)

Spec == Init /\ [][Next]_vars

(***************************************************************************)
(* Threads are scheduled, the kernel hands over a connection that waits,   *)
(* but a slow request may hold its thread for ever, and no client has to   *)
(* do anything: one that does not read leaves its reply being written.     *)
(***************************************************************************)
Held(t) == \E c \in Client : Runs(t, "read", c) /\ Asks[c] = "slow"

FairSpec ==
  /\ Spec
  /\ \A t \in Thread : WF_vars(~Held(t) /\ Run(t))
  /\ WF_vars(\E c \in Client : AcceptCompletes(c))
  /\ WF_vars(StopAfterException)
  /\ WF_vars(Join)

=============================================================================
