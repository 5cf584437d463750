-------------------------- MODULE ConfigTreeProps ---------------------------
(***************************************************************************)
(* The tree of statements that NginxConfigParser builds.                   *)
(***************************************************************************)
EXTENDS StartupProps

WrittenUpTo(n) == FlattenSeq([i \in 1 .. n |-> IF i \in Kept THEN <<file[i]>> ELSE <<>>])
Written == WrittenUpTo(Len(file))

(***************************************************************************)
(* The tree, written out.  A text is a sequence of words and of blocks     *)
(* that are still to be written, and a round writes the blocks of a text,  *)
(* each with the blocks in it left for the next round.                     *)
(***************************************************************************)
WordItem(word) == [word |-> word, child_block |-> {}]
BlockItem(st) == [word |-> "block", child_block |-> st.child_block]
Words(tokens) == [i \in DOMAIN tokens |-> WordItem(tokens[i])]

StatementText(st) ==
  Words(st.tokens) \o
    IF st.child_block = {} THEN <<WordItem(";")>>
    ELSE <<WordItem("{"), BlockItem(st), WordItem("}")>>

BlockText(block) == FlattenSeq([i \in DOMAIN block |-> StatementText(block[i])])

ItemText(item) == IF item.child_block = {} THEN <<item>> ELSE BlockText(ChildBlock(item))
Round(text) == FlattenSeq([i \in DOMAIN text |-> ItemText(text[i])])

(* No block is as deep as the file is long. *)
ToTokens(block) ==
  LET after[n \in 0 .. Len(file)] == IF n = 0 THEN BlockText(block) ELSE Round(after[n - 1])
  IN after[Len(file)]

(***************************************************************************)
(* The tree of statements, written out again (NginxConfig::ToString), is   *)
(* the file.                                                               *)
(***************************************************************************)
ParsedAsWritten == Parsed => ToTokens(Config) = Words(Written)

=============================================================================
