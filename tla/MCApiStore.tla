----------------------------- MODULE MCApiStore -----------------------------
(* Small instances of ApiStore for TLC: one entity. *)
EXTENDS ApiStoreProps, TLC

CONSTANTS r1, r2, r3, shoes

Do(method, i) == [method |-> method, entity |-> shoes, id |-> i]

(***************************************************************************)
(* A creator with a body of two blocks; a creator, a writer, a reader or a *)
(* deleter; and a reader, a deleter, a third creator, a PUT on the entity, *)
(* or a POST on the instance.                                              *)
(***************************************************************************)
Jobs ==
  r1 :> {Do("POST", 0)} @@
  r2 :> {Do("POST", 0), Do("PUT", 1), Do("GET", 1), Do("DELETE", 1)} @@
  r3 :> {Do("POST", 0), Do("POST", 1), Do("GET", 1), Do("GET", 2), Do("GET", 0),
         Do("DELETE", 1), Do("DELETE", 0), Do("PUT", 0)}

Sizes == r1 :> 2 @@ r2 :> 1 @@ r3 :> 2

=============================================================================
