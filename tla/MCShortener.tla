---------------------------- MODULE MCShortener -----------------------------
(* Small instances of Shortener for TLC. *)
EXTENDS ShortenerProps, TLC

CONSTANTS r1, r2, r3, r4, c1, c2, n1, n2

ThreeRequests == {r1, r2, r3}
FourRequests == {r1, r2, r3, r4}

(* Uploads under different names, and under the same name. *)
DistinctNames == [r \in Req |-> IF r = r1 THEN n1 ELSE n2]
SameName == [r \in Req |-> n1]

(***************************************************************************)
(* What the routes of the handler offer: two creators that race for a      *)
(* code, a creator and two visitors, or one visitor and a look at the      *)
(* statistics.                                                             *)
(***************************************************************************)
ServerCalls ==
  r1 :> {"shorten", "upload"} @@
  r2 :> {"shorten", "upload", "redirect"} @@
  r3 :> {"redirect", "stats"}

(***************************************************************************)
(* The same with the deletions of the service classes: a link is created,  *)
(* visited, deleted, and its code is given away again.                     *)
(***************************************************************************)
ServiceCalls ==
  r1 :> {"shorten", "upload"} @@
  r2 :> {"shorten", "upload"} @@
  r3 :> {"redirect"} @@
  r4 :> {"delete_link", "delete_file"}

CodeSymmetry == Permutations({c1, c2})

=============================================================================
