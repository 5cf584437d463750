----------------------------- MODULE MCSession ------------------------------
(* Small conversations for TLC. *)
EXTENDS SessionProps

Get == [parts |-> <<"line", "host", "end">>, body |-> 0, reply |-> 1]
BadMethod == [parts |-> <<"badline", "lf_end">>, body |-> 0, reply |-> 1]
Upload == [parts |-> <<"line", "length", "host", "end", "gap", "data">>, body |-> 2, reply |-> 2]
UploadLengthLast == [parts |-> <<"line", "host", "length", "end", "gap", "data">>, body |-> 2, reply |-> 1]
JunkLength == [parts |-> <<"line", "junk", "host", "end">>, body |-> 0, reply |-> 1]

(***************************************************************************)
(* The first three may be asked by the rules, or run into each other; the  *)
(* last makes stoul throw.                                                 *)
(***************************************************************************)
Conversation == <<BadMethod, Upload, Get, JunkLength>>

(* The first loses its body. *)
LengthLast == <<UploadLengthLast, Get>>

ASSUME MessagesAreHttp == \A m \in DOMAIN Script : HttpMessage(m)

=============================================================================
