-------------------------- MODULE ServerLoopProps ---------------------------
(***************************************************************************)
(* What the event loop owes its clients and its operator.                  *)
(***************************************************************************)
EXTENDS ServerLoop

(***************************************************************************)
(* A session is in the hands of one thread at a time: of each session at   *)
(* most one handler is queued or running, which is why session needs no    *)
(* lock, and why `delete this` happens once.                               *)
(***************************************************************************)
Owns(handler, c) == Len(handler) = 2 /\ handler[2] = c

OneHandlerPerSession ==
  \A c \in Client :
    Cardinality({i \in DOMAIN ready : Owns(ready[i], c)})
    + Cardinality({t \in Thread : Owns(job[t], c)}) =
      IF conn[c] \in {"accepted", "asked", "answered", "left"} THEN 1 ELSE 0

(***************************************************************************)
(* The loop ends for a signal, an exception on the thread of main, or a    *)
(* failed accept after which the last session went: clients that come and  *)
(* go do not end it, and exceptions on workers do not.                     *)
(***************************************************************************)
StopsForAReason ==
  stopped => "signal" \in causes \/ "exception" \in causes \/ errors > 0

(***************************************************************************)
(* As long as the loop is not stopped, each thread it has lost stands for  *)
(* one session that was never deleted, and the accept loop is alive unless *)
(* an accept failed, or main is between an exception and the stop() of its *)
(* catch, with the server destroyed under the workers.                     *)
(***************************************************************************)
LossesAccounted ==
  ~stopped =>
    /\ Cardinality({t \in Thread : thread[t] # "run"}) = Cardinality({c \in Client : conn[c] = "leaked"})
    /\ accept = "none" => errors > 0 \/ thread[Main] = "unwinding"

(***************************************************************************)
(* As long as one thread is left in the loop and not held by a slow        *)
(* request, everybody is accepted, read, answered and let go without       *)
(* waiting for the slow ones, unless the loop stops or an accept failed:   *)
(* a connection that waits is accepted, a session reads on after an accept *)
(* or a reply, a plain request gets its reply begun, and the session of a  *)
(* client that is gone, during a reply or between two, is deleted.  How    *)
(* long a reply is written is up to its client.                            *)
(***************************************************************************)
Impaired == stopped \/ errors > 0 \/ \A t \in Thread : thread[t] # "run" \/ Held(t)

EverybodyServed ==
  \A c \in Client :
    /\ conn[c] = "backlog" ~> conn[c] # "backlog" \/ Impaired
    /\ conn[c] \in {"accepted", "answered"} ~> conn[c] = "waiting" \/ Impaired
    /\ conn[c] = "asked" /\ Asks[c] = "plain" ~> conn[c] = "writing" \/ Impaired
    /\ conn[c] = "left" ~> conn[c] = "deleted" \/ Impaired

(***************************************************************************)
(* A loop that was stopped, or an exception on main, leads to the end of   *)
(* main with all workers joined, unless a slow request holds its thread,   *)
(* or the process ended first, when a worker used the destroyed server.    *)
(***************************************************************************)
StopEndsMain ==
  stopped \/ thread[Main] = "unwinding" ~>
    (\A t \in Thread : thread[t] = "ended") \/ \E t \in Thread : Held(t)

=============================================================================
