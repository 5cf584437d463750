---------------------------- MODULE ConfigParser ----------------------------
(***************************************************************************)
(* NginxConfigParser: the configuration file, cut into tokens and parsed   *)
(* into a tree of statements with the stack of open blocks.                *)
(*                                                                         *)
(* A file is a sequence of lexemes: words, "{", "}", ";", comments and     *)
(* quoted strings that ParseToken refuses.                                 *)
(***************************************************************************)
EXTENDS Integers, Sequences, SequencesExt

CONSTANTS
  Word,       \* the words of the files, as strings
  Digits,     \* the words of digits only
  Quoted,     \* the words in quotes
  Files       \* the files that may be parsed, sequences of lexemes

Comment == "#"
BadQuote == "bad quote"
Mark == {"{", "}", ";"}
Lexeme == Word \cup Mark \cup {Comment, BadQuote}

ASSUME ConfigParserAssumption ==
  /\ "listen" \in Word /\ Word \cap (Mark \cup {Comment, BadQuote, "eof"}) = {}
  /\ Digits \subseteq Word \ {"listen"} /\ Quoted \subseteq Word
  /\ Files \subseteq Seq(Lexeme)

VARIABLES
  file,           \* the file
  cut,            \* the file ends with a word and without a line end
  rest,           \* the lexemes not read yet
  open,           \* config_stack: the open blocks, each with its statements
  last,           \* last_token_type
  expectListen,   \* expect_listen_arg
  phase           \* how far the start of the server has come

parserVars == <<file, cut, rest, open, last, expectListen>>

(* child_block is the set of at most one block. *)
Statement(words, child) == [tokens |-> words, child_block |-> child]

ParserTypeOK ==
  /\ cut \in BOOLEAN
  /\ \E n \in 0 .. Len(file) : rest = SubSeq(file, n + 1, Len(file))
  /\ open # <<>>
  /\ last \in Mark \cup {"start", "word"}
  /\ last = "word" => Last(open) # <<>>
  /\ expectListen \in BOOLEAN

ParserInit ==
  /\ file \in Files
  /\ cut \in IF file # <<>> /\ Last(file) \in Word THEN BOOLEAN ELSE {FALSE}
  /\ rest = file
  /\ open = << <<>> >>
  /\ last = "start"
  /\ expectListen = FALSE
  /\ phase = "parsing"

-----------------------------------------------------------------------------
(***************************************************************************)
(* ParseToken.  A word is returned when a delimiter follows it, so a word  *)
(* that ends the file is dropped, and a quoted one is an error.            *)
(***************************************************************************)
Token ==
  IF rest = <<>> THEN "eof"
  ELSE IF Len(rest) = 1 /\ cut /\ Head(rest) \in Word
       THEN IF Head(rest) \in Quoted THEN BadQuote ELSE "eof"
       ELSE Head(rest)

(* Only digits may follow listen, wherever it stands. *)
BadListenArgument == expectListen /\ Token \notin Digits

\* Mutant of Accepts: the check of the braces at the end is missing.
AcceptsOpenBlocks ==
  \/ Token = Comment
  \/ Token \in Word /\ ~BadListenArgument
  \/ Token \in {";", "{"} /\ last = "word"
  \/ Token = "}" /\ last \in {";", "{", "}"} /\ Len(open) > 1
  \/ Token = "eof" /\ last \in {";", "}", "start"}

(* The transitions that Parse does not leave with an error. *)
Accepts ==
  \/ Token = Comment
  \/ Token \in Word /\ ~BadListenArgument
  \/ Token \in {";", "{"} /\ last = "word"
  \/ Token = "}" /\ last \in {";", "{", "}"} /\ Len(open) > 1
  \/ Token = "eof" /\ last \in {";", "}", "start"} /\ Len(open) = 1

Read(type) ==
  /\ phase = "parsing" /\ Accepts
  /\ rest' = Tail(rest)
  /\ last' = type
  /\ UNCHANGED <<file, cut, phase>>

WithTop(block) == Front(open) \o <<block>>

SkipComment ==
  /\ Token = Comment /\ Read(last)
  /\ UNCHANGED <<open, expectListen>>

AddWord ==
  LET top == Last(open)
  IN /\ Token \in Word /\ Read("word")
     /\ expectListen' = (Token = "listen" /\ ~expectListen)
     /\ open' = WithTop(
          IF last = "word"
          THEN [top EXCEPT ![Len(top)].tokens = Append(@, Token)]
          ELSE Append(top, Statement(<<Token>>, {})))

EndStatement ==
  /\ Token = ";" /\ Read(";")
  /\ UNCHANGED <<open, expectListen>>

StartBlock ==
  /\ Token = "{" /\ Read("{")
  /\ open' = Append(open, <<>>)
  /\ UNCHANGED expectListen

\* Mutant of EndBlock: the block is lost.
EndBlockLosesChild ==
  /\ Token = "}" /\ Read("}")
  /\ open' = Front(open)
  /\ UNCHANGED expectListen

(* The block becomes the child of the statement it was opened by. *)
EndBlock ==
  LET below == open[Len(open) - 1]
  IN /\ Token = "}" /\ Read("}")
     /\ open' = Append(SubSeq(open, 1, Len(open) - 2),
                       [below EXCEPT ![Len(below)].child_block = {Last(open)}])
     /\ UNCHANGED expectListen

ParseEnds ==
  /\ phase = "parsing" /\ Token = "eof" /\ Accepts
  /\ phase' = "configuring"
  /\ UNCHANGED parserVars

ParseFails ==
  /\ phase = "parsing" /\ ~Accepts
  /\ phase' = "refused"
  /\ UNCHANGED parserVars

Parse ==
  \/ SkipComment \/ AddWord \/ EndStatement \/ StartBlock \/ EndBlock
  \/ ParseEnds \/ ParseFails

=============================================================================
