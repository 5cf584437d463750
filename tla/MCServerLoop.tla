---------------------------- MODULE MCServerLoop ----------------------------
(* Small instances of ServerLoop for TLC. *)
EXTENDS ServerLoopProps, TLC

CONSTANTS main, w1, w2, p1, s1, x1

Asked == p1 :> "plain" @@ s1 :> "slow" @@ x1 :> "throw"
ClientAsks == [c \in Client |-> Asked[c]]

=============================================================================
