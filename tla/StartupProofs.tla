---------------------------- MODULE StartupProofs ---------------------------
(***************************************************************************)
(* Theorems about the start of the server, for every file, however long,   *)
(* over any words.                                                         *)
(***************************************************************************)
EXTENDS ConfigTreeProps, SequenceLemmas

-----------------------------------------------------------------------------
(* The stack of open blocks. *)

IsStatement(st) ==
  /\ st = Statement(st.tokens, st.child_block)
  /\ st.tokens \in Seq(Word) /\ st.tokens # <<>>
  /\ \A b, c \in st.child_block : b = c
  /\ \A b \in st.child_block : IsSeq(b)

LEMMA ChangedStatement ==
  ASSUME NEW st, IsStatement(st), NEW new
  PROVE  /\ [st EXCEPT !.tokens = new] = Statement(new, st.child_block)
         /\ [st EXCEPT !.child_block = new] = Statement(st.tokens, new)
<1>1. PICK words, child : st = [tokens |-> words, child_block |-> child]
  BY DEF IsStatement, Statement
<1>. QED
  BY <1>1 DEF Statement

IsBlock(b) == IsSeq(b) /\ \A i \in DOMAIN b : IsStatement(b[i])

(***************************************************************************)
(* A block that is open below another has the statement that opened it,    *)
(* and so has the top after a word: emplace_back and back() of the code    *)
(* never meet an empty vector.                                             *)
(***************************************************************************)
StackInv ==
  /\ IsSeq(open)
  /\ \A k \in DOMAIN open : IsBlock(open[k])
  /\ \A k \in DOMAIN open : k # Len(open) => open[k] # <<>>

(* What TypeOK says of the variables of the parser, and the stack. *)
ParserInv == ParserTypeOK /\ StackInv /\ file \in Seq(Lexeme)

LEMMA TopIs ==
  ASSUME StackInv, open # <<>>
  PROVE  Len(open) \in Nat /\ Len(open) > 0 /\ IsBlock(Last(open)) /\ DOMAIN open = 1 .. Len(open)
<1>1. Len(open) \in Nat /\ DOMAIN open = 1 .. Len(open) /\ Len(open) > 0
  BY SeqShape DEF StackInv
<1>. QED
  BY <1>1 DEF StackInv, Last

LEMMA AppendStatement ==
  ASSUME NEW b, IsBlock(b), NEW st, IsStatement(st)
  PROVE  IsBlock(Append(b, st)) /\ Append(b, st) # <<>>
<1>1. /\ IsSeq(Append(b, st)) /\ Len(Append(b, st)) = Len(b) + 1
      /\ \A i \in 1 .. Len(b) : Append(b, st)[i] = b[i]
      /\ Append(b, st)[Len(b) + 1] = st
  BY AppendShape DEF IsBlock
<1>. DEFINE q == Append(b, st)
<1>. HIDE DEF q
<1>2. Len(b) \in Nat /\ DOMAIN b = 1 .. Len(b) /\ Len(q) = Len(b) + 1
  BY <1>1, SeqShape DEF IsBlock, q
<1>3. DOMAIN q = 1 .. Len(b) + 1 /\ q # <<>>
  BY <1>1, <1>2, SeqShape DEF q
<1>4. ASSUME NEW i \in DOMAIN q PROVE IsStatement(q[i])
  <2>1. CASE i \in 1 .. Len(b)
    BY <1>1, <1>2, <2>1 DEF IsBlock, q
  <2>2. CASE i = Len(b) + 1
    BY <1>1, <2>2 DEF q
  <2>. QED
    BY <1>2, <1>3, <2>1, <2>2
<1>. QED
  BY <1>1, <1>3, <1>4 DEF IsBlock, q

LEMMA ChangeStatement ==
  ASSUME NEW b, IsBlock(b), b # <<>>, NEW st, IsStatement(st)
  PROVE  IsBlock([b EXCEPT ![Len(b)] = st]) /\ [b EXCEPT ![Len(b)] = st] # <<>>
<1>1. Len(b) \in Nat /\ Len(b) > 0 /\ DOMAIN b = 1 .. Len(b)
  BY SeqShape DEF IsBlock
<1>. DEFINE q == [b EXCEPT ![Len(b)] = st]
<1>0. Len(b) \in 1 .. Len(b)
  BY <1>1
<1>2. /\ IsSeq(q) /\ Len(q) = Len(b)
      /\ \A i \in 1 .. Len(b) : q[i] = IF i = Len(b) THEN st ELSE b[i]
  BY <1>0, ExceptShape DEF IsBlock
<1>. HIDE DEF q
<1>3. DOMAIN q = 1 .. Len(b) /\ q # <<>>
  <2>1. DOMAIN q = 1 .. Len(q) /\ (q = <<>> <=> ~(Len(q) > 0))
    BY <1>2, SeqShape
  <2>2. Len(q) = Len(b)
    BY <1>2
  <2>3. Len(b) > 0
    BY <1>1
  <2>. QED
    BY <2>1, <2>2, <2>3
<1>4. \A i \in DOMAIN q : IsStatement(q[i])
  BY <1>1, <1>2, <1>3 DEF IsBlock
<1>. QED
  BY <1>2, <1>3, <1>4 DEF IsBlock, q

LEMMA NewTop ==
  ASSUME StackInv, open # <<>>, NEW b, IsBlock(b), NEW n \in Nat, n < Len(open),
         open' = Append(SubSeq(open, 1, n), b)
  PROVE  StackInv' /\ open' # <<>> /\ Last(open') = b
<1>. DEFINE below == SubSeq(open, 1, n)
<1>1. Len(open) \in Nat /\ Len(open) > 0 /\ DOMAIN open = 1 .. Len(open) /\ n \in 0 .. Len(open)
  BY TopIs
<1>2. IsSeq(below) /\ Len(below) = n /\ \A k \in 1 .. n : below[k] = open[k]
  BY <1>1, FirstShape DEF StackInv
<1>. HIDE DEF below
<1>3. /\ IsSeq(open') /\ Len(open') = n + 1 /\ open'[n + 1] = b
      /\ \A k \in 1 .. n : open'[k] = below[k]
  BY <1>2, AppendShape DEF below
<1>4. DOMAIN open' = 1 .. n + 1 /\ open' # <<>>
  <2>1. DOMAIN open' = 1 .. Len(open') /\ (open' = <<>> <=> ~(Len(open') > 0))
    BY <1>3, SeqShape
  <2>. QED
    BY <1>3, <2>1
<1>5. ASSUME NEW k \in 1 .. n
      PROVE  open'[k] = open[k] /\ k \in DOMAIN open /\ k < Len(open)
  <2>1. k \in DOMAIN open /\ k < Len(open)
    BY <1>1
  <2>. QED
    BY <1>2, <1>3, <2>1
<1>6. ASSUME NEW k \in DOMAIN open'
      PROVE  IsBlock(open'[k]) /\ (k # Len(open') => open'[k] # <<>>)
  <2>1. CASE k = n + 1
    BY <1>3, <2>1
  <2>2. CASE k \in 1 .. n
    <3>1. open'[k] = open[k] /\ k \in DOMAIN open /\ ~(k = Len(open))
      BY <1>5, <2>2
    <3>. QED
      BY <3>1 DEF StackInv
  <2>. QED
    BY <1>4, <2>1, <2>2
<1>. QED
  BY <1>3, <1>4, <1>6 DEF Last, StackInv

LEMMA EmptyBlock == IsBlock(<<>>)
<1>1. IsSeq(<<>>)
  BY EmptySeq DEF IsSeq
<1>. QED
  BY <1>1, SeqShape DEF IsBlock

LEMMA WithTopIs ==
  ASSUME StackInv, open # <<>>, NEW b
  PROVE  WithTop(b) = Append(SubSeq(open, 1, Len(open) - 1), b) /\ Len(open) - 1 \in 0 .. Len(open)
<1>. DEFINE below == SubSeq(open, 1, Len(open) - 1)
            S == Range(below) \cup {b}
<1>1. Len(open) \in Nat /\ Len(open) > 0
  BY TopIs
<1>2. Len(open) - 1 \in 0 .. Len(open)
  BY <1>1
<1>3. IsSeq(below)
  BY <1>2, FirstShape DEF StackInv
<1>4. below \in Seq(S) /\ b \in S
  BY <1>3, SeqMonotonic DEF IsSeq
<1>5. Append(below, b) = below \o <<b>>
  BY <1>4, AppendIsConcat
<1>. QED
  BY <1>2, <1>5 DEF WithTop, Front

-----------------------------------------------------------------------------
(* Positions and tokens. *)

Reading(n) == n \in 0 .. Len(file) /\ rest = SubSeq(file, n + 1, Len(file))

LEMMA FileIs ==
  ASSUME file \in Seq(Lexeme)
  PROVE  /\ Len(file) \in Nat /\ DOMAIN file = 1 .. Len(file) /\ IsSeq(file)
         /\ \A i \in 1 .. Len(file) : file[i] \in Lexeme
BY SeqIs, SeqShape, ElementOfSeq

LEMMA RestIs ==
  ASSUME file \in Seq(Lexeme), NEW n, Reading(n)
  PROVE  /\ n \in Nat /\ n <= Len(file) /\ Len(rest) = Len(file) - n
         /\ rest = <<>> <=> n = Len(file)
         /\ n < Len(file) =>
              /\ n + 1 \in 1 .. Len(file) /\ Head(rest) = file[n + 1]
              /\ Tail(rest) = SubSeq(file, n + 2, Len(file))
<1>1. IsSeq(file) /\ Len(file) \in Nat /\ n \in 0 .. Len(file)
  BY FileIs DEF Reading
<1>2. /\ Len(rest) = Len(file) - n /\ (rest = <<>> <=> n = Len(file))
      /\ n < Len(file) => Head(rest) = file[n + 1] /\ Tail(rest) = SubSeq(file, n + 2, Len(file))
  BY <1>1, RestShape DEF Reading
<1>. QED
  BY <1>1, <1>2

(* The next token is the next lexeme, except at the end of the file. *)
LEMMA TokenIs ==
  ASSUME file \in Seq(Lexeme), cut \in BOOLEAN, NEW n, Reading(n)
  PROVE  \/ n = Len(file) /\ Token = "eof"
         \/ /\ n < Len(file) /\ Token = file[n + 1]
            /\ ~(cut /\ n + 1 = Len(file) /\ file[n + 1] \in Word)
         \/ /\ n + 1 = Len(file) /\ cut /\ file[n + 1] \in Quoted /\ Token = BadQuote
         \/ /\ n + 1 = Len(file) /\ cut /\ file[n + 1] \in Word \ Quoted /\ Token = "eof"
<1>1. /\ n \in Nat /\ Len(file) \in Nat /\ n <= Len(file) /\ Len(rest) = Len(file) - n
      /\ rest = <<>> <=> n = Len(file)
      /\ n < Len(file) => Head(rest) = file[n + 1]
  BY RestIs, FileIs
<1>2. CASE n = Len(file)
  BY <1>1, <1>2 DEF Token
<1>3. CASE n < Len(file)
  <2>1. Len(rest) = 1 <=> n + 1 = Len(file)
    BY <1>1
  <2>. QED
    BY <1>1, <1>3, <2>1 DEF Token
<1>. QED
  BY <1>1, <1>2, <1>3

LEMMA KindsOfToken ==
  /\ \A t \in Word : t \notin Mark /\ t # Comment /\ t # BadQuote /\ t # "eof"
  /\ Digits \subseteq Word /\ Quoted \subseteq Word /\ "listen" \notin Digits
  /\ "listen" \in Word
BY ConfigParserAssumption

(* A step that reads moves on by one lexeme. *)
LEMMA ReadOn ==
  ASSUME file \in Seq(Lexeme), cut \in BOOLEAN, NEW n, Reading(n), NEW type, Read(type), Token # "eof"
  PROVE  /\ n < Len(file) /\ n + 1 \in 1 .. Len(file) /\ Token = file[n + 1]
         /\ Reading(n + 1)'
         /\ UNCHANGED <<file, cut>>
<1>1. Token # BadQuote
  BY KindsOfToken DEF Read, Accepts, Mark, Comment, BadQuote
<1>2. n < Len(file) /\ Token = file[n + 1]
  BY <1>1, TokenIs
<1>3. n + 1 \in 1 .. Len(file) /\ Tail(rest) = SubSeq(file, n + 2, Len(file)) /\ n \in Nat
  BY <1>2, RestIs
<1>4. n + 1 \in 0 .. Len(file) /\ (n + 1) + 1 = n + 2
  BY <1>3, FileIs
<1>. QED
  BY <1>2, <1>3, <1>4 DEF Reading, Read

(* The parser's variables keep their types. *)
LEMMA ParserTyping ==
  ASSUME ParserInv, Parse
  PROVE  ParserInv'
<1>. USE DEF ParserInv, ParserTypeOK
<1>0. PICK n : Reading(n)
  BY DEF Reading
<1>1. Len(open) \in Nat /\ Len(open) > 0 /\ IsBlock(Last(open)) /\ DOMAIN open = 1 .. Len(open)
  BY TopIs
<1>2. ASSUME NEW type \in Mark \cup {"start", "word"}, Read(type), Token # "eof",
             StackInv', open' # <<>>, expectListen' \in BOOLEAN,
             type = "word" => Last(open') # <<>>
      PROVE  ParserInv'
  <2>1. Reading(n + 1)' /\ UNCHANGED <<file, cut>>
    BY <1>0, <1>2, ReadOn
  <2>. QED
    BY <1>2, <2>1 DEF Reading, Read
<1>3. CASE SkipComment
  <2>1. Token # "eof" /\ StackInv'
    BY <1>3 DEF SkipComment, Comment, StackInv
  <2>. QED
    BY <1>2, <1>3, <2>1 DEF SkipComment
<1>4. CASE AddWord
  <2>. DEFINE top == Last(open)
  <2>1. \E b : IsBlock(b) /\ b # <<>> /\ open' = WithTop(b)
    <3>1. CASE last = "word"
      <4>. DEFINE st == top[Len(top)]
                  grown == [st EXCEPT !.tokens = Append(@, Token)]
                  b == [top EXCEPT ![Len(top)] = grown]
      <4>1. top # <<>> /\ Len(top) \in DOMAIN top
        <5>1. Len(top) \in Nat /\ DOMAIN top = 1 .. Len(top) /\ (top = <<>> <=> ~(Len(top) > 0))
          BY <1>1, SeqShape DEF IsBlock
        <5>. QED
          BY <3>1, <5>1
      <4>2. IsStatement(st)
        BY <1>1, <4>1 DEF IsBlock
      <4>3. Append(st.tokens, Token) \in Seq(Word) /\ Append(st.tokens, Token) # <<>>
        <5>1. st.tokens \in Seq(Word) /\ Token \in Word
          BY <1>4, <4>2 DEF AddWord, IsStatement
        <5>. HIDE DEF st
        <5>. QED
          BY <5>1, AppendProperties
      <4>4. grown = Statement(Append(st.tokens, Token), st.child_block)
        BY <4>2, ChangedStatement
      <4>5. IsStatement(grown)
        BY <4>2, <4>3, <4>4 DEF IsStatement, Statement
      <4>6. IsBlock(b) /\ b # <<>>
        BY <1>1, <4>1, <4>5, ChangeStatement
      <4>7. open' = WithTop(b)
        BY <1>4, <3>1 DEF AddWord
      <4>. QED
        BY <4>6, <4>7
    <3>2. CASE last # "word"
      <4>. DEFINE b == Append(top, Statement(<<Token>>, {}))
      <4>1. IsStatement(Statement(<<Token>>, {}))
        BY <1>4 DEF AddWord, IsStatement, Statement
      <4>2. IsBlock(b) /\ b # <<>>
        BY <1>1, <4>1, AppendStatement
      <4>3. open' = WithTop(b)
        BY <1>4, <3>2 DEF AddWord
      <4>. QED
        BY <4>2, <4>3
    <3>. QED
      BY <3>1, <3>2
  <2>2. PICK b : IsBlock(b) /\ b # <<>> /\ open' = WithTop(b)
    BY <2>1
  <2>3. open' = Append(SubSeq(open, 1, Len(open) - 1), b)
        /\ Len(open) - 1 \in Nat /\ Len(open) - 1 < Len(open)
    BY <1>1, <2>2, WithTopIs
  <2>4. StackInv' /\ open' # <<>> /\ Last(open') = b
    BY <2>2, <2>3, NewTop
  <2>5. Token # "eof" /\ Read("word") /\ expectListen' \in BOOLEAN
    BY <1>4, KindsOfToken DEF AddWord
  <2>. QED
    BY <1>2, <2>2, <2>4, <2>5
<1>5. CASE EndStatement
  <2>1. Token # "eof" /\ StackInv' /\ ";" \in Mark
    BY <1>5 DEF EndStatement, StackInv, Mark
  <2>. QED
    BY <1>2, <1>5, <2>1 DEF EndStatement
<1>6. CASE StartBlock
  <2>1. Token = "{" /\ Read("{") /\ open' = Append(open, <<>>) /\ expectListen' = expectListen
    BY <1>6 DEF StartBlock
  <2>2. Last(open) # <<>>
    BY <2>1, KindsOfToken DEF Read, Accepts, Comment, Mark
  <2>3. /\ IsSeq(open') /\ Len(open') = Len(open) + 1
        /\ \A i \in 1 .. Len(open) : open'[i] = open[i]
        /\ open'[Len(open) + 1] = <<>>
    BY <2>1, AppendShape DEF StackInv
  <2>4. DOMAIN open' = 1 .. Len(open) + 1 /\ open' # <<>>
    BY <1>1, <2>3, SeqShape
  <2>5. \A k \in DOMAIN open' : IsBlock(open'[k]) /\ (k # Len(open') => open'[k] # <<>>)
    BY <1>1, <2>2, <2>3, <2>4, EmptyBlock DEF StackInv, Last
  <2>6. StackInv'
    BY <2>3, <2>5 DEF StackInv
  <2>7. Token # "eof" /\ "{" \in Mark
    BY <2>1 DEF Mark
  <2>. QED
    BY <1>2, <2>1, <2>4, <2>6, <2>7
<1>7. CASE EndBlock
  <2>. DEFINE n1 == Len(open) - 1
              below == open[n1]
              st == below[Len(below)]
              grown == [st EXCEPT !.child_block = {Last(open)}]
              b == [below EXCEPT ![Len(below)] = grown]
  <2>1. Token = "}" /\ Read("}") /\ expectListen' = expectListen
        /\ open' = Append(SubSeq(open, 1, Len(open) - 2), b)
    BY <1>7 DEF EndBlock
  <2>2. Len(open) > 1
    BY <2>1, KindsOfToken DEF Read, Accepts, Comment, Mark
  <2>3. n1 \in DOMAIN open /\ Len(open) - 2 \in Nat /\ Len(open) - 2 < Len(open)
    BY <1>1, <2>2
  <2>12. ~(n1 = Len(open))
    <3>1. Len(open) \in Nat
      BY <1>1
    <3>. QED
      BY <3>1
  <2>4. IsBlock(below) /\ below # <<>>
    BY <2>3, <2>12 DEF StackInv
  <2>5. Len(below) \in DOMAIN below
    <3>1. Len(below) \in Nat /\ DOMAIN below = 1 .. Len(below) /\ (below = <<>> <=> ~(Len(below) > 0))
      BY <2>4, SeqShape DEF IsBlock
    <3>. QED
      BY <2>4, <3>1
  <2>6. IsStatement(st)
    BY <2>4, <2>5 DEF IsBlock
  <2>7. grown = Statement(st.tokens, {Last(open)})
    BY <2>6, ChangedStatement
  <2>8. IsStatement(grown)
    BY <1>1, <2>6, <2>7 DEF IsStatement, Statement, IsBlock
  <2>9. IsBlock(b)
    BY <2>4, <2>8, ChangeStatement
  <2>. HIDE DEF b
  <2>10. StackInv' /\ open' # <<>>
    BY <2>1, <2>3, <2>9, NewTop
  <2>11. Token # "eof" /\ "}" \in Mark
    BY <2>1 DEF Mark
  <2>. QED
    BY <1>2, <2>1, <2>10, <2>11
<1>8. CASE ParseEnds \/ ParseFails
  BY <1>8 DEF ParseEnds, ParseFails, parserVars, StackInv
<1>. QED
  BY <1>3, <1>4, <1>5, <1>6, <1>7, <1>8 DEF Parse

-----------------------------------------------------------------------------
(* The language of the parser. *)

(***************************************************************************)
(* What the parser remembers of the n lexemes it has read: last is the     *)
(* kind of the last one that counts, the stack is as high as braces are    *)
(* open, and expectListen says whether the last word was listen.           *)
(***************************************************************************)
LastIs(n) ==
  \/ KeptUpTo(n) = {} /\ last = "start"
  \/ \E j \in KeptUpTo(n) :
       /\ \A k \in KeptUpTo(n) : k <= j
       /\ file[j] \in Word \cup Mark
       /\ last = IF file[j] \in Word THEN "word" ELSE file[j]

ListenIsLast(n) ==
  \E j \in KeptUpTo(n) :
    file[j] = "listen" /\ \A k \in KeptUpTo(n) : file[k] \in Word => k <= j

GrammarInv(n) ==
  /\ \A i \in KeptUpTo(n) : WellPlaced(i)
  /\ LastIs(n)
  /\ Len(open) = Depth(n) + 1
  /\ last = "{" => Len(open) > 1
  /\ expectListen <=> ListenIsLast(n)
  /\ cut /\ n = Len(file) /\ file # <<>> => file[n] \notin Word

LanguageInv ==
  /\ phase = "parsing" => \E n : Reading(n) /\ GrammarInv(n)
  /\ phase \in {"configuring", "serving"} => Token = "eof" /\ Accepts
  /\ AcceptsWellFormed

LEMMA KeptIs ==
  ASSUME file \in Seq(Lexeme)
  PROVE  /\ Kept \subseteq 1 .. Len(file) /\ Len(file) \in Nat
         /\ \A n : IsFiniteSet(KeptUpTo(n))
<1>1. Kept \subseteq 1 .. Len(file) /\ Len(file) \in Nat
  BY FileIs DEF Kept
<1>2. IsFiniteSet(1 .. Len(file))
  BY <1>1, FS_Interval
<1>3. \A n : KeptUpTo(n) \in SUBSET (1 .. Len(file))
  BY <1>1 DEF KeptUpTo
<1>. QED
  BY <1>1, <1>2, <1>3, FS_Subset

LEMMA UpToNext ==
  ASSUME file \in Seq(Lexeme), NEW n \in Nat
  PROVE  /\ n + 1 \in Kept => KeptUpTo(n + 1) = KeptUpTo(n) \cup {n + 1} /\ n + 1 \notin KeptUpTo(n)
         /\ n + 1 \notin Kept => KeptUpTo(n + 1) = KeptUpTo(n)
<1>1. \A i \in Kept : i \in Nat
  BY KeptIs
<1>2. \A i \in Kept : i <= n + 1 <=> i <= n \/ i = n + 1
  BY <1>1
<1>. QED
  BY <1>1, <1>2 DEF KeptUpTo

Rise(token) == IF token = "{" THEN 1 ELSE IF token = "}" THEN -1 ELSE 0

LEMMA RiseIs ==
  ASSUME NEW token
  PROVE  /\ Rise(token) \in Int /\ (Rise(token) < 0 => token = "}")
         /\ Rise(token) >= -1 /\ (token = "{" => Rise(token) = 1)
<1>1. 1 >= -1 /\ 1 \in Int /\ ~(1 < 0) /\ 0 >= -1 /\ 0 \in Int /\ ~(0 < 0)
      /\ -1 >= -1 /\ -1 \in Int
  OBVIOUS
<1>2. token = "{" => Rise(token) = 1
  BY DEF Rise
<1>3. token = "}" => Rise(token) = -1
  BY DEF Rise
<1>4. token \notin {"{", "}"} => Rise(token) = 0
  BY DEF Rise
<1>. QED
  BY <1>1, <1>2, <1>3, <1>4, Zenon

LEMMA DepthNext ==
  ASSUME file \in Seq(Lexeme), NEW n \in Nat
  PROVE  /\ Depth(n) \in Int
         /\ n + 1 \in Kept => Depth(n + 1) = Depth(n) + Rise(file[n + 1])
<1>. DEFINE Of(m, token) == {i \in KeptUpTo(m) : file[i] = token}
<1>1. \A m, token : IsFiniteSet(Of(m, token)) /\ Cardinality(Of(m, token)) \in Nat
  <2>1. \A m, token : IsFiniteSet(KeptUpTo(m)) /\ Of(m, token) \in SUBSET KeptUpTo(m)
    BY KeptIs
  <2>2. \A m, token : IsFiniteSet(Of(m, token))
    BY <2>1, FS_Subset
  <2>. HIDE DEF Of
  <2>. QED
    BY <2>2, FS_CardinalityType
<1>2. \A m : Depth(m) = Cardinality(Of(m, "{")) - Cardinality(Of(m, "}"))
  BY DEF Depth
<1>3. ASSUME n + 1 \in Kept, NEW token
      PROVE  Cardinality(Of(n + 1, token)) =
               IF file[n + 1] = token THEN Cardinality(Of(n, token)) + 1
               ELSE Cardinality(Of(n, token))
  <2>1. KeptUpTo(n + 1) = KeptUpTo(n) \cup {n + 1} /\ n + 1 \notin KeptUpTo(n)
    BY <1>3, UpToNext
  <2>2. CASE file[n + 1] = token
    <3>1. Of(n + 1, token) = Of(n, token) \cup {n + 1} /\ n + 1 \notin Of(n, token)
      BY <2>1, <2>2
    <3>2. IsFiniteSet(Of(n, token))
      BY <1>1
    <3>. HIDE DEF Of
    <3>. QED
      BY <2>2, <3>1, <3>2, FS_AddElement
  <2>3. CASE file[n + 1] # token
    <3>1. Of(n + 1, token) = Of(n, token)
      BY <2>1, <2>3
    <3>. QED
      BY <2>3, <3>1
  <2>. QED
    BY <2>2, <2>3
<1>. HIDE DEF Of
<1>. DEFINE a == Cardinality(Of(n, "{"))
            b == Cardinality(Of(n, "}"))
<1>4. a \in Nat /\ b \in Nat
  BY <1>1
<1>5. Depth(n) = a - b
  BY <1>2
<1>6. ASSUME n + 1 \in Kept PROVE Depth(n + 1) = Depth(n) + Rise(file[n + 1])
  <2>. DEFINE a1 == Cardinality(Of(n + 1, "{"))
              b1 == Cardinality(Of(n + 1, "}"))
  <2>1. a1 = IF file[n + 1] = "{" THEN a + 1 ELSE a
    BY <1>3, <1>6
  <2>2. b1 = IF file[n + 1] = "}" THEN b + 1 ELSE b
    BY <1>3, <1>6
  <2>3. Depth(n + 1) = a1 - b1
    BY <1>2
  <2>. HIDE DEF a, b, a1, b1
  <2>4. CASE file[n + 1] = "{"
    <3>1. a1 = a + 1 /\ b1 = b /\ Rise(file[n + 1]) = 1
      BY <2>1, <2>2, <2>4 DEF Rise
    <3>. QED
      BY <1>4, <1>5, <2>3, <3>1
  <2>5. CASE file[n + 1] = "}"
    <3>1. a1 = a /\ b1 = b + 1 /\ Rise(file[n + 1]) = -1
      BY <2>1, <2>2, <2>5 DEF Rise
    <3>. QED
      BY <1>4, <1>5, <2>3, <3>1
  <2>6. CASE file[n + 1] \notin {"{", "}"}
    <3>1. a1 = a /\ b1 = b /\ Rise(file[n + 1]) = 0
      BY <2>1, <2>2, <2>6 DEF Rise
    <3>. QED
      BY <1>4, <1>5, <2>3, <3>1
  <2>. QED
    BY <2>4, <2>5, <2>6
<1>. HIDE DEF a, b
<1>. QED
  BY <1>4, <1>5, <1>6

(* The definitions look at nothing but the file. *)
LEMMA SameFile ==
  ASSUME UNCHANGED <<file, cut>>
  PROVE  /\ Kept' = Kept
         /\ \A n : KeptUpTo(n)' = KeptUpTo(n) /\ Depth(n)' = Depth(n)
         /\ \A i : WellPlaced(i)' <=> WellPlaced(i)
         /\ WellFormed' <=> WellFormed
<1>1. Kept' = Kept
  BY DEF Kept
<1>2. \A n : KeptUpTo(n)' = KeptUpTo(n)
  BY <1>1 DEF KeptUpTo
<1>3. \A n : Depth(n)' = Depth(n)
  BY <1>2 DEF Depth
<1>4. \A i : WellPlaced(i)' <=> WellPlaced(i)
  <2>1. \A i, set : Follows(i, set)' <=> Follows(i, set)
    BY <1>1 DEF Follows
  <2>2. \A i, j : NextWord(i, j)' <=> NextWord(i, j)
    BY <1>1 DEF NextWord
  <2>. QED
    BY <1>1, <1>3, <2>1, <2>2 DEF WellPlaced
<1>5. WellFormed' <=> WellFormed
  BY <1>1, <1>3, <1>4 DEF WellFormed, Last
<1>. QED
  BY <1>1, <1>2, <1>3, <1>4, <1>5

(* What last and expectListen say of the lexeme that comes next. *)
LEMMA FollowsIs ==
  ASSUME file \in Seq(Lexeme), NEW n \in Nat, LastIs(n), n + 1 \in Kept
  PROVE  /\ Follows(n + 1, Word) <=> last = "word"
         /\ Follows(n + 1, Mark) <=> last \in Mark
<1>1. \A j \in Kept : j \in Nat /\ (j < n + 1 <=> j <= n) /\ (~(j >= n + 1) <=> j <= n)
  BY KeptIs
<1>2. CASE KeptUpTo(n) = {} /\ last = "start"
  BY <1>1, <1>2 DEF Follows, KeptUpTo, Mark
<1>3. ASSUME NEW j \in KeptUpTo(n), \A k \in KeptUpTo(n) : k <= j,
             file[j] \in Word \cup Mark, last = IF file[j] \in Word THEN "word" ELSE file[j]
      PROVE  /\ Follows(n + 1, Word) <=> last = "word"
             /\ Follows(n + 1, Mark) <=> last \in Mark
  <2>1. ASSUME NEW set PROVE Follows(n + 1, set) <=> file[j] \in set
    <3>1. ASSUME Follows(n + 1, set) PROVE file[j] \in set
      <4>1. PICK i \in Kept : i < n + 1 /\ file[i] \in set /\ \A k \in Kept : k <= i \/ k >= n + 1
        BY <3>1 DEF Follows
      <4>2. j <= i /\ i <= j
        BY <1>1, <1>3, <4>1 DEF KeptUpTo
      <4>3. i = j
        BY <1>1, <4>2 DEF KeptUpTo
      <4>. QED
        BY <4>1, <4>3
    <3>2. ASSUME file[j] \in set PROVE Follows(n + 1, set)
      BY <1>1, <1>3, <3>2 DEF Follows, KeptUpTo
    <3>. QED
      BY <3>1, <3>2
  <2>2. file[j] \in Word => file[j] \notin Mark
    BY KindsOfToken
  <2>. QED
    BY <1>3, <2>1, <2>2 DEF Mark
<1>. QED
  BY <1>2, <1>3 DEF LastIs

LEMMA ListenIs ==
  ASSUME file \in Seq(Lexeme), NEW n \in Nat, n + 1 \in Kept, file[n + 1] \in Word
  PROVE  ListenIsLast(n) <=> \E j \in Kept : file[j] = "listen" /\ NextWord(j, n + 1)
<1>1. \A j \in Kept : j \in Nat /\ (j < n + 1 <=> j <= n) /\ (~(j >= n + 1) <=> j <= n)
  BY KeptIs
<1>. QED
  BY <1>1 DEF ListenIsLast, NextWord, KeptUpTo

LEMMA LexemeKinds ==
  \A l \in Lexeme : l \in Word \/ l \in Mark \/ l = Comment \/ l = BadQuote
BY DEF Lexeme

(* A lexeme that is read counts, unless it is a comment. *)
LEMMA ReadIsKept ==
  ASSUME file \in Seq(Lexeme), cut \in BOOLEAN, NEW n, Reading(n), n < Len(file), Token = file[n + 1]
  PROVE  /\ n + 1 \in Kept <=> file[n + 1] # Comment
         /\ n \in Nat
         /\ cut /\ n + 1 = Len(file) => file[n + 1] \notin Word
<1>1. n + 1 \in DOMAIN file /\ n \in Nat /\ Len(file) \in Nat /\ file[n + 1] \in Lexeme
  BY RestIs, FileIs
<1>2. cut /\ n + 1 = Len(file) => file[n + 1] \notin Word
  <2>1. file[n + 1] # "eof" /\ (file[n + 1] \in Word => file[n + 1] # BadQuote)
    BY <1>1, LexemeKinds, KindsOfToken DEF Mark, Comment, BadQuote
  <2>. QED
    BY <1>1, <2>1, TokenIs
<1>. QED
  BY <1>1, <1>2 DEF Kept

LEMMA GrammarStep ==
  ASSUME ParserInv, NEW n, Reading(n), GrammarInv(n), Token \in Word \cup Mark,
         Read(IF Token \in Word THEN "word" ELSE Token),
         Len(open') = Len(open) + Rise(Token),
         expectListen' = IF Token \in Word THEN (Token = "listen" /\ ~expectListen) ELSE expectListen
  PROVE  Reading(n + 1)' /\ GrammarInv(n + 1)'
<1>. USE DEF ParserInv, ParserTypeOK
<1>1. Token # "eof" /\ Token # Comment /\ Token # BadQuote /\ (Token \in Word => Token \notin Mark)
  BY KindsOfToken DEF Mark, Comment, BadQuote
<1>2. /\ n < Len(file) /\ n + 1 \in 1 .. Len(file) /\ Token = file[n + 1]
      /\ Reading(n + 1)' /\ UNCHANGED <<file, cut>>
  BY <1>1, ReadOn
<1>3. /\ n \in Nat /\ n + 1 \in Kept
      /\ cut /\ n + 1 = Len(file) => file[n + 1] \notin Word
  BY <1>1, <1>2, ReadIsKept
<1>4. KeptUpTo(n + 1) = KeptUpTo(n) \cup {n + 1}
  BY <1>3, UpToNext
<1>5. Depth(n) \in Int /\ Depth(n + 1) = Depth(n) + Rise(Token)
  BY <1>2, <1>3, DepthNext
<1>6. /\ Token \in Word => ~BadListenArgument
      /\ Token \in {";", "{"} => last = "word"
      /\ Token = "}" => last \in Mark /\ Len(open) > 1
  BY <1>1 DEF Read, Accepts, Mark
<1>7. Len(open) \in Nat /\ Len(open) > 0
  BY TopIs
<1>8. /\ LastIs(n) /\ (expectListen <=> ListenIsLast(n)) /\ Len(open) = Depth(n) + 1
      /\ \A i \in KeptUpTo(n) : WellPlaced(i)
  BY DEF GrammarInv
<1>9. \A i \in KeptUpTo(n) : i \in Nat /\ i <= n
  BY KeptIs DEF KeptUpTo
<1>10. Token \in Word => (expectListen <=> \E j \in Kept : file[j] = "listen" /\ NextWord(j, n + 1))
  BY <1>2, <1>3, <1>8, ListenIs
<1>11. WellPlaced(n + 1)
  <2>1. /\ file[n + 1] \in {";", "{"} => Follows(n + 1, Word)
        /\ file[n + 1] = "}" => Follows(n + 1, Mark)
    BY <1>2, <1>3, <1>6, <1>8, FollowsIs
  <2>2. Depth(n + 1) >= 0
    <3>. DEFINE height == Len(open)
                depth == Depth(n)
                after == Depth(n + 1)
                rise == Rise(Token)
    <3>1. height \in Nat /\ height > 0 /\ depth \in Int /\ height = depth + 1
      BY <1>5, <1>7, <1>8
    <3>2. after = depth + rise /\ rise \in Int /\ rise >= -1 /\ (rise < 0 => height > 1)
      BY <1>5, <1>6, RiseIs
    <3>. HIDE DEF height, depth, after, rise
    <3>3. after >= 0
      BY <3>1, <3>2
    <3>. QED
      BY <3>3 DEF after
  <2>3. \A j \in Kept : file[j] = "listen" /\ NextWord(j, n + 1) => file[n + 1] \in Digits
    BY <1>2, <1>6, <1>10 DEF NextWord, BadListenArgument
  <2>. QED
    BY <1>1, <1>2, <2>1, <2>2, <2>3 DEF WellPlaced
<1>12. \A i \in KeptUpTo(n + 1) : WellPlaced(i)
  BY <1>4, <1>8, <1>11
<1>13. \A k \in KeptUpTo(n + 1) : k <= n + 1
  BY <1>3, <1>4, <1>9
<1>14. last' = IF Token \in Word THEN "word" ELSE Token
  BY DEF Read
<1>15. Len(open') = Depth(n + 1) + 1
  <2>. DEFINE height == Len(open)
              depth == Depth(n)
              rise == Rise(Token)
  <2>1. depth \in Int /\ height = depth + 1 /\ rise \in Int
    BY <1>5, <1>8, RiseIs
  <2>2. Len(open') = height + rise /\ Depth(n + 1) = depth + rise
    BY <1>5
  <2>. HIDE DEF height, depth, rise
  <2>. QED
    BY <2>1, <2>2
<1>16. last' = "{" => Len(open') > 1
  <2>1. last' = "{" => Token = "{"
    BY <1>14
  <2>. DEFINE height == Len(open)
              new == Len(open')
  <2>2. height \in Nat /\ height > 0
    BY <1>7
  <2>3. Token = "{" => new = height + 1
    BY RiseIs
  <2>. HIDE DEF height, new
  <2>4. ASSUME Token = "{" PROVE new > 1
    <3>1. new = height + 1
      BY <2>3, <2>4
    <3>. QED
      BY <2>2, <3>1
  <2>. QED
    BY <2>1, <2>4 DEF new
<1>17. expectListen' <=>
         \E j \in KeptUpTo(n + 1) :
           file[j] = "listen" /\ \A k \in KeptUpTo(n + 1) : file[k] \in Word => k <= j
  <2>1. CASE Token \in Word
    <3>1. expectListen' <=> Token = "listen"
      BY <1>6, <2>1, KindsOfToken DEF BadListenArgument
    <3>2. ASSUME NEW j \in KeptUpTo(n + 1), \A k \in KeptUpTo(n + 1) : file[k] \in Word => k <= j
          PROVE  j = n + 1
      <4>1. n + 1 <= j
        BY <1>2, <1>4, <2>1, <3>2
      <4>2. j \in KeptUpTo(n) => j \in Nat /\ j <= n
        BY <1>9
      <4>. QED
        BY <1>3, <1>4, <4>1, <4>2, <3>2
    <3>3. n + 1 \in KeptUpTo(n + 1)
      BY <1>4
    <3>. QED
      BY <1>2, <1>13, <3>1, <3>2, <3>3
  <2>2. CASE Token \notin Word
    <3>1. file[n + 1] \notin Word /\ file[n + 1] # "listen"
      BY <1>2, <2>2, KindsOfToken
    <3>. QED
      BY <1>4, <1>8, <2>2, <3>1 DEF ListenIsLast
  <2>. QED
    BY <2>1, <2>2
<1>18. KeptUpTo(n + 1)' = KeptUpTo(n + 1) /\ Depth(n + 1)' = Depth(n + 1)
       /\ \A i : WellPlaced(i)' <=> WellPlaced(i)
  BY <1>2, SameFile
<1>19. LastIs(n + 1)'
  <2>1. n + 1 \in KeptUpTo(n + 1)' /\ file' = file
    BY <1>2, <1>4, <1>18
  <2>. QED
    BY <1>2, <1>13, <1>14, <1>18, <2>1 DEF LastIs
<1>20. (expectListen <=> ListenIsLast(n + 1))'
  BY <1>2, <1>17, <1>18 DEF ListenIsLast
<1>. QED
  BY <1>2, <1>3, <1>12, <1>15, <1>16, <1>18, <1>19, <1>20 DEF GrammarInv

LEMMA CommentStep ==
  ASSUME ParserInv, NEW n, Reading(n), GrammarInv(n), SkipComment
  PROVE  Reading(n + 1)' /\ GrammarInv(n + 1)'
<1>. USE DEF ParserInv, ParserTypeOK
<1>1. Token = Comment /\ Read(last) /\ open' = open /\ expectListen' = expectListen /\ last' = last
  BY DEF SkipComment, Read
<1>2. /\ n < Len(file) /\ n + 1 \in 1 .. Len(file) /\ Token = file[n + 1]
      /\ Reading(n + 1)' /\ UNCHANGED <<file, cut>>
  BY <1>1, ReadOn DEF Comment
<1>3. n \in Nat /\ n + 1 \notin Kept
  BY <1>1, <1>2, ReadIsKept
<1>4. KeptUpTo(n + 1) = KeptUpTo(n)
  BY <1>3, UpToNext
<1>5. Depth(n + 1) = Depth(n)
  BY <1>4 DEF Depth
<1>6. KeptUpTo(n + 1)' = KeptUpTo(n) /\ Depth(n + 1)' = Depth(n)
      /\ \A i : WellPlaced(i)' <=> WellPlaced(i)
  BY <1>2, <1>4, <1>5, SameFile
<1>7. LastIs(n + 1)' /\ (ListenIsLast(n + 1)' <=> ListenIsLast(n))
  BY <1>1, <1>2, <1>6 DEF LastIs, ListenIsLast, GrammarInv
<1>8. Comment \notin Word
  BY KindsOfToken
<1>. QED
  BY <1>1, <1>2, <1>6, <1>7, <1>8 DEF GrammarInv

(* At the end of the file everything that counts has been read. *)
LEMMA EofIs ==
  ASSUME file \in Seq(Lexeme), cut \in BOOLEAN, NEW n, Reading(n), GrammarInv(n), Token = "eof"
  PROVE  /\ n \in Nat /\ Kept = KeptUpTo(n) /\ Depth(Len(file)) = Depth(n)
         /\ ~(cut /\ file # <<>> /\ Last(file) \in Quoted)
<1>1. /\ n \in Nat /\ n <= Len(file) /\ Len(file) \in Nat
      /\ \A i \in 1 .. Len(file) : file[i] \in Lexeme /\ file[i] # "eof"
      /\ DOMAIN file = 1 .. Len(file)
  BY RestIs, FileIs, LexemeKinds, KindsOfToken DEF Mark, Comment, BadQuote
<1>2. CASE n = Len(file)
  <2>1. Kept = KeptUpTo(n)
    BY <1>2, KeptIs DEF KeptUpTo
  <2>2. ~(cut /\ file # <<>> /\ Last(file) \in Quoted)
    BY <1>2, KindsOfToken DEF GrammarInv, Last
  <2>. QED
    BY <1>1, <1>2, <2>1, <2>2
<1>3. CASE n + 1 = Len(file) /\ cut /\ file[n + 1] \in Word \ Quoted
  <2>1. n + 1 \notin Kept
    BY <1>3 DEF Kept
  <2>2. KeptUpTo(n + 1) = KeptUpTo(n) /\ Kept = KeptUpTo(n + 1)
    BY <1>1, <1>3, <2>1, UpToNext, KeptIs DEF KeptUpTo
  <2>3. Depth(n + 1) = Depth(n)
    BY <2>2 DEF Depth
  <2>. QED
    BY <1>1, <1>3, <2>2, <2>3 DEF Last
<1>4. ASSUME n < Len(file), Token = file[n + 1] PROVE FALSE
  BY <1>1, <1>4
<1>. QED
  BY <1>2, <1>3, <1>4, TokenIs, KindsOfToken DEF BadQuote

(* The stack is as high as braces are open. *)
LEMMA AppendHeight ==
  ASSUME StackInv, NEW n \in 0 .. Len(open), NEW b
  PROVE  Len(Append(SubSeq(open, 1, n), b)) = n + 1
<1>. DEFINE below == SubSeq(open, 1, n)
<1>1. IsSeq(below) /\ Len(below) = n
  BY FirstShape DEF StackInv
<1>. HIDE DEF below
<1>. QED
  BY <1>1, AppendShape DEF below

LEMMA HeightIs ==
  ASSUME ParserInv
  PROVE  /\ AddWord \/ EndStatement => Len(open') = Len(open)
         /\ StartBlock => Len(open') = Len(open) + 1
         /\ EndBlock => Len(open') = Len(open) - 1
<1>1. Len(open) \in Nat /\ Len(open) > 0 /\ StackInv /\ open # <<>>
  BY TopIs DEF ParserInv, ParserTypeOK
<1>2. ASSUME AddWord PROVE Len(open') = Len(open)
  <2>1. PICK b : open' = WithTop(b)
    BY <1>2 DEF AddWord
  <2>2. open' = Append(SubSeq(open, 1, Len(open) - 1), b) /\ Len(open) - 1 \in 0 .. Len(open)
    BY <1>1, <2>1, WithTopIs
  <2>3. Len(open') = (Len(open) - 1) + 1
    BY <1>1, <2>2, AppendHeight
  <2>. QED
    BY <1>1, <2>3
<1>3. ASSUME StartBlock PROVE Len(open') = Len(open) + 1
  BY <1>1, <1>3, AppendShape DEF StartBlock, StackInv
<1>4. ASSUME EndBlock PROVE Len(open') = Len(open) - 1
  <2>1. Token = "}" /\ Read("}") /\ \E b : open' = Append(SubSeq(open, 1, Len(open) - 2), b)
    BY <1>4 DEF EndBlock
  <2>2. Len(open) > 1
    BY <2>1, KindsOfToken DEF Read, Accepts, Comment, Mark
  <2>3. Len(open) - 2 \in 0 .. Len(open) /\ (Len(open) - 2) + 1 = Len(open) - 1
    BY <1>1, <2>2
  <2>. QED
    BY <1>1, <2>1, <2>3, AppendHeight
<1>. QED
  BY <1>2, <1>3, <1>4 DEF EndStatement

LEMMA ReadingStep ==
  ASSUME ParserInv, NEW n, Reading(n), GrammarInv(n),
         SkipComment \/ AddWord \/ EndStatement \/ StartBlock \/ EndBlock
  PROVE  Reading(n + 1)' /\ GrammarInv(n + 1)'
<1>0. Len(open) \in Int /\ Len(open) + 0 = Len(open) /\ Len(open) + (-1) = Len(open) - 1
  <2>1. Len(open) \in Nat
    BY TopIs DEF ParserInv, ParserTypeOK
  <2>. QED
    BY <2>1
<1>1. CASE SkipComment
  BY <1>1, CommentStep
<1>2. CASE AddWord
  <2>1. Token \in Word /\ Read("word") /\ expectListen' = (Token = "listen" /\ ~expectListen)
    BY <1>2 DEF AddWord
  <2>2. Rise(Token) = 0
    BY <2>1, KindsOfToken DEF Rise, Mark
  <2>3. Len(open') = Len(open) + Rise(Token)
    BY <1>0, <1>2, <2>2, HeightIs
  <2>. QED
    BY <2>1, <2>3, GrammarStep
<1>3. ASSUME Token \in Mark, Read(Token), expectListen' = expectListen, Len(open') = Len(open) + Rise(Token)
      PROVE  Reading(n + 1)' /\ GrammarInv(n + 1)'
  <2>1. Token \notin Word
    BY <1>3, KindsOfToken
  <2>. QED
    BY <1>3, <2>1, GrammarStep
<1>4. CASE EndStatement
  <2>1. Token = ";" /\ Read(";") /\ expectListen' = expectListen
    BY <1>4 DEF EndStatement
  <2>2. Rise(Token) = 0 /\ Token \in Mark
    BY <2>1 DEF Rise, Mark
  <2>. QED
    BY <1>0, <1>3, <1>4, <2>1, <2>2, HeightIs
<1>5. CASE StartBlock
  <2>1. Token = "{" /\ Read("{") /\ expectListen' = expectListen
    BY <1>5 DEF StartBlock
  <2>2. Rise(Token) = 1 /\ Token \in Mark
    BY <2>1 DEF Rise, Mark
  <2>. QED
    BY <1>0, <1>3, <1>5, <2>1, <2>2, HeightIs
<1>6. CASE EndBlock
  <2>1. Token = "}" /\ Read("}") /\ expectListen' = expectListen
    BY <1>6 DEF EndBlock
  <2>2. Rise(Token) = -1 /\ Token \in Mark
    BY <2>1 DEF Rise, Mark
  <2>3. Len(open') = Len(open) + Rise(Token)
    BY <1>0, <1>6, <2>2, HeightIs
  <2>. QED
    BY <1>3, <2>1, <2>2, <2>3
<1>. QED
  BY <1>1, <1>2, <1>4, <1>5, <1>6

(***************************************************************************)
(* The parser stops in order exactly where the grammar is satisfied.       *)
(***************************************************************************)
LEMMA EndIsWellFormed ==
  ASSUME ParserInv, NEW n, Reading(n), GrammarInv(n), Token = "eof"
  PROVE  Accepts <=> WellFormed
<1>. USE DEF ParserInv, ParserTypeOK
<1>1. /\ n \in Nat /\ Kept = KeptUpTo(n) /\ Depth(Len(file)) = Depth(n)
      /\ ~(cut /\ file # <<>> /\ Last(file) \in Quoted)
  BY EofIs
<1>2. Accepts <=> last \in {";", "}", "start"} /\ Len(open) = 1
  BY KindsOfToken DEF Accepts, Comment, Mark
<1>3. \A i \in Kept : WellPlaced(i)
  BY <1>1 DEF GrammarInv
<1>4. Len(open) = 1 <=> Depth(Len(file)) = 0
  <2>1. Depth(n) \in Int /\ Len(open) = Depth(n) + 1
    BY <1>1, DepthNext DEF GrammarInv
  <2>. QED
    BY <1>1, <2>1
<1>5. (\A i \in Kept : file[i] \in Word => \E j \in Kept : j > i) <=> last # "word"
  <2>1. \A i \in Kept : i \in Nat
    BY KeptIs
  <2>2. CASE KeptUpTo(n) = {} /\ last = "start"
    BY <1>1, <2>2
  <2>3. ASSUME NEW j \in KeptUpTo(n), \A k \in KeptUpTo(n) : k <= j,
               file[j] \in Word \cup Mark, last = IF file[j] \in Word THEN "word" ELSE file[j]
        PROVE  (\A i \in Kept : file[i] \in Word => \E k \in Kept : k > i) <=> last # "word"
    <3>1. last = "word" <=> file[j] \in Word
      BY <2>3 DEF Mark
    <3>2. ASSUME file[j] \in Word PROVE ~ \E k \in Kept : k > j
      BY <1>1, <2>1, <2>3
    <3>3. ASSUME file[j] \notin Word, NEW i \in Kept, file[i] \in Word
          PROVE  \E k \in Kept : k > i
      <4>1. i <= j /\ i # j /\ i \in Nat /\ j \in Nat /\ j \in Kept
        BY <1>1, <2>1, <2>3, <3>3
      <4>2. j > i
        BY <4>1
      <4>. QED
        BY <4>1, <4>2
    <3>. QED
      BY <1>1, <2>3, <3>1, <3>2, <3>3
  <2>. QED
    BY <2>2, <2>3 DEF GrammarInv, LastIs
<1>6. last # "word" /\ Len(open) = 1 <=> last \in {";", "}", "start"} /\ Len(open) = 1
  <2>1. last = "{" => Len(open) > 1
    BY DEF GrammarInv
  <2>2. last \in {"{", "}", ";", "start", "word"}
    BY DEF Mark
  <2>3. Len(open) = 1 => ~(Len(open) > 1)
    OBVIOUS
  <2>. QED
    BY <2>1, <2>2, <2>3
<1>. QED
  BY <1>1, <1>2, <1>3, <1>4, <1>5, <1>6 DEF WellFormed

LEMMA RefusedIsNotWellFormed ==
  ASSUME ParserInv, NEW n, Reading(n), GrammarInv(n), Token # "eof", ~Accepts
  PROVE  ~WellFormed
<1>. USE DEF ParserInv, ParserTypeOK
<1>1. CASE n + 1 = Len(file) /\ cut /\ file[n + 1] \in Quoted
  <2>1. file # <<>> /\ Last(file) = file[n + 1]
    BY <1>1, FileIs, SeqShape, RestIs DEF Last
  <2>. QED
    BY <1>1, <2>1 DEF WellFormed
<1>2. CASE n < Len(file) /\ Token = file[n + 1]
  <2>1. Token # Comment /\ (Token \in Word => BadListenArgument)
        /\ (Token \in {";", "{"} => last # "word")
        /\ (Token = "}" => ~(last \in Mark /\ Len(open) > 1))
    BY DEF Accepts, Mark
  <2>2. n \in Nat /\ n + 1 \in Kept /\ n + 1 \in DOMAIN file /\ Token \in Lexeme
    BY <1>2, <2>1, ReadIsKept, RestIs, FileIs
  <2>3. LastIs(n) /\ (expectListen <=> ListenIsLast(n)) /\ Len(open) = Depth(n) + 1
    BY DEF GrammarInv
  <2>4. ~WellPlaced(n + 1)
    <3>1. CASE Token = BadQuote
      BY <1>2, <3>1 DEF WellPlaced
    <3>2. CASE Token \in Word
      <4>1. \E j \in Kept : file[j] = "listen" /\ NextWord(j, n + 1)
        BY <1>2, <2>1, <2>2, <2>3, <3>2, ListenIs DEF BadListenArgument
      <4>2. file[n + 1] \notin Digits
        BY <1>2, <2>1, <3>2 DEF BadListenArgument
      <4>. QED
        BY <4>1, <4>2 DEF WellPlaced
    <3>3. CASE Token \in {";", "{"}
      BY <1>2, <2>1, <2>2, <2>3, <3>3, FollowsIs DEF WellPlaced
    <3>4. CASE Token = "}" /\ last \notin Mark
      BY <1>2, <2>2, <2>3, <3>4, FollowsIs DEF WellPlaced
    <3>5. CASE Token = "}" /\ ~(Len(open) > 1)
      <4>. DEFINE height == Len(open)
                  depth == Depth(n)
                  after == Depth(n + 1)
      <4>1. depth \in Int /\ after = depth + Rise(file[n + 1])
        BY <2>2, DepthNext
      <4>2. Rise(file[n + 1]) = -1
        BY <1>2, <3>5 DEF Rise
      <4>3. after = depth + (-1)
        BY <4>1, <4>2
      <4>4. height = depth + 1 /\ ~(height > 1)
        BY <2>3, <3>5
      <4>. HIDE DEF height, depth, after
      <4>5. ~(after >= 0)
        BY <4>1, <4>3, <4>4
      <4>. QED
        BY <4>5 DEF after, WellPlaced
    <3>. QED
      BY <2>1, <2>2, <3>1, <3>2, <3>3, <3>4, <3>5 DEF Lexeme, Mark
  <2>. QED
    BY <2>2, <2>4 DEF WellFormed
<1>. QED
  BY <1>1, <1>2, TokenIs

(* Once the file is parsed the parser's variables stay as they are. *)
LEMMA SameParser ==
  ASSUME UNCHANGED parserVars
  PROVE  /\ Token' = Token /\ (Accepts' <=> Accepts) /\ (WellFormed' <=> WellFormed)
         /\ ParserInv => ParserInv'
<1>1. UNCHANGED <<file, cut, rest, open, last, expectListen>>
  BY DEF parserVars
<1>2. Token' = Token
  BY <1>1 DEF Token
<1>3. Accepts' <=> Accepts
  BY <1>1, <1>2 DEF Accepts, BadListenArgument
<1>4. WellFormed' <=> WellFormed
  BY <1>1, SameFile
<1>5. ParserInv => ParserInv'
  BY <1>1 DEF ParserInv, ParserTypeOK, StackInv
<1>. QED
  BY <1>2, <1>3, <1>4, <1>5

LanguageIInv == ParserInv /\ LanguageInv

LEMMA LanguageInit == Init => LanguageIInv
<1>. SUFFICES ASSUME Init PROVE LanguageIInv
  OBVIOUS
<1>. USE DEF Init, ParserInit
<1>1. file \in Seq(Lexeme)
  BY ConfigParserAssumption
<1>2. Len(file) \in Nat /\ DOMAIN file = 1 .. Len(file) /\ IsSeq(file)
  BY <1>1, FileIs
<1>3. Reading(0)
  <2>1. rest = SubSeq(file, 1, Len(file))
    BY <1>1, <1>2, SubSeqFull
  <2>. QED
    BY <1>2, <2>1 DEF Reading
<1>4. open = << <<>> >> /\ Len(open) = 1 /\ open[1] = <<>> /\ DOMAIN open = {1} /\ open # <<>>
  OBVIOUS
<1>5. StackInv
  <2>1. open \in Seq({<<>>})
    BY <1>4
  <2>. QED
    BY <1>4, <2>1, SeqIs, EmptyBlock DEF StackInv
<1>6. ParserInv
  <2>1. \E n \in 0 .. Len(file) : rest = SubSeq(file, n + 1, Len(file))
    BY <1>3 DEF Reading
  <2>2. cut \in BOOLEAN
    OBVIOUS
  <2>. QED
    BY <1>1, <1>4, <1>5, <2>1, <2>2 DEF ParserInv, ParserTypeOK
<1>7. KeptUpTo(0) = {}
  BY <1>1, KeptIs DEF KeptUpTo
<1>8. Depth(0) = 0
  <2>. DEFINE Of(token) == {i \in KeptUpTo(0) : file[i] = token}
              a == Cardinality(Of("{"))
              b == Cardinality(Of("}"))
  <2>1. Of("{") = {} /\ Of("}") = {}
    BY <1>7
  <2>2. a = 0 /\ b = 0
    BY <2>1, FS_EmptySet
  <2>3. Depth(0) = a - b
    BY DEF Depth
  <2>. HIDE DEF a, b
  <2>. QED
    BY <2>2, <2>3
<1>9. 0 = Len(file) => file = <<>>
  BY <1>2, SeqShape
<1>10. GrammarInv(0)
  BY <1>4, <1>7, <1>8, <1>9 DEF GrammarInv, LastIs, ListenIsLast
<1>. QED
  BY <1>3, <1>6, <1>10 DEF LanguageIInv, LanguageInv, AcceptsWellFormed

LEMMA LanguageStep == LanguageIInv /\ [Next]_vars => LanguageIInv'
<1>. SUFFICES ASSUME LanguageIInv, [Next]_vars PROVE LanguageIInv'
  OBVIOUS
<1>. USE DEF LanguageIInv, LanguageInv
<1>1. CASE ParserStep
  <2>1. Parse /\ ParserInv'
    BY <1>1, ParserTyping DEF ParserStep
  <2>2. phase = "parsing"
    BY <2>1 DEF Parse, SkipComment, AddWord, EndStatement, StartBlock, EndBlock, Read, ParseEnds, ParseFails
  <2>3. PICK n : Reading(n) /\ GrammarInv(n)
    BY <2>2
  <2>4. CASE SkipComment \/ AddWord \/ EndStatement \/ StartBlock \/ EndBlock
    <3>1. phase' = "parsing"
      BY <2>2, <2>4 DEF SkipComment, AddWord, EndStatement, StartBlock, EndBlock, Read
    <3>2. Reading(n + 1)' /\ GrammarInv(n + 1)'
      BY <2>3, <2>4, ReadingStep
    <3>. QED
      BY <2>1, <3>1, <3>2 DEF AcceptsWellFormed
  <2>5. CASE ParseEnds
    <3>1. phase' = "configuring" /\ Token = "eof" /\ Accepts /\ UNCHANGED parserVars
      BY <2>5 DEF ParseEnds
    <3>2. WellFormed
      BY <2>3, <3>1, EndIsWellFormed
    <3>. QED
      BY <2>1, <3>1, <3>2, SameParser DEF AcceptsWellFormed, Parsed
  <2>6. CASE ParseFails
    <3>1. phase' = "refused" /\ ~Accepts /\ UNCHANGED parserVars
      BY <2>6 DEF ParseFails
    <3>2. ~WellFormed
      BY <2>3, <3>1, EndIsWellFormed, RefusedIsNotWellFormed
    <3>. QED
      BY <2>1, <3>1, <3>2, SameParser DEF AcceptsWellFormed, Parsed
  <2>. QED
    BY <2>1, <2>4, <2>5, <2>6 DEF Parse
<1>2. ASSUME UNCHANGED parserVars,
             \/ phase' = phase
             \/ phase = "configuring" /\ phase' \in {"serving", "refused"}
      PROVE  LanguageIInv'
  <2>1. /\ Token' = Token /\ (Accepts' <=> Accepts) /\ (WellFormed' <=> WellFormed) /\ ParserInv'
    BY <1>2, SameParser
  <2>2. ASSUME NEW n, Reading(n), GrammarInv(n) PROVE Reading(n)' /\ GrammarInv(n)'
    <3>1. UNCHANGED <<file, cut, rest, open, last, expectListen>>
      BY <1>2 DEF parserVars
    <3>2. Reading(n)'
      BY <2>2, <3>1 DEF Reading
    <3>3. KeptUpTo(n)' = KeptUpTo(n) /\ Depth(n)' = Depth(n) /\ \A i : WellPlaced(i)' <=> WellPlaced(i)
      BY <3>1, SameFile
    <3>4. LastIs(n)' <=> LastIs(n)
      BY <3>1, <3>3 DEF LastIs
    <3>5. ListenIsLast(n)' <=> ListenIsLast(n)
      BY <3>1, <3>3 DEF ListenIsLast
    <3>. QED
      BY <2>2, <3>1, <3>2, <3>3, <3>4, <3>5 DEF GrammarInv
  <2>3. CASE phase' = phase
    BY <2>1, <2>2, <2>3 DEF AcceptsWellFormed, Parsed
  <2>4. CASE phase = "configuring" /\ phase' \in {"serving", "refused"}
    BY <2>1, <2>4 DEF AcceptsWellFormed, Parsed
  <2>. QED
    BY <1>2, <2>3, <2>4
<1>3. CASE ConfigureNext
  <2>1. phase = "configuring"
    BY <1>3 DEF ConfigureNext
  <2>2. \/ phase' = "refused" /\ UNCHANGED <<parserVars, configVars>>
        \/ UNCHANGED <<parserVars, phase, handlers>>
    BY <1>3, Zenon DEF ConfigureNext
  <2>. QED
    BY <1>2, <2>1, <2>2
<1>4. CASE StartServing
  BY <1>2, <1>4 DEF StartServing
<1>5. CASE UNCHANGED vars
  BY <1>2, <1>5 DEF vars
<1>. QED
  BY <1>1, <1>3, <1>4, <1>5 DEF Next

(***************************************************************************)
(* Whatever the file: when NginxConfigParser::Parse returns true the file  *)
(* is well formed, and when it returns false it is not.                    *)
(***************************************************************************)
THEOREM ParserAcceptsItsGrammar == Spec => []AcceptsWellFormed
<1>1. LanguageIInv => AcceptsWellFormed
  BY DEF LanguageIInv, LanguageInv
<1>. QED
  BY <1>1, LanguageInit, LanguageStep, PTL DEF Spec

-----------------------------------------------------------------------------
(* The statements of the configuration. *)

LEMMA ConfigIs ==
  ASSUME ParserInv
  PROVE  /\ IsSeq(Config) /\ Len(Config) \in Nat /\ DOMAIN Config = 1 .. Len(Config)
         /\ \A i \in DOMAIN Config : IsStatement(Config[i])
         /\ \A i \in Ports : i \in 1 .. Len(Config) /\ PortOf(Config[i]) \in Word
         /\ \A i \in Declared : i \in 1 .. Len(Config) /\ Config[i].tokens[2] \in Word
<1>1. Len(open) \in Nat /\ Len(open) > 0 /\ DOMAIN open = 1 .. Len(open)
  BY TopIs DEF ParserInv, ParserTypeOK
<1>2. 1 \in DOMAIN open
  BY <1>1
<1>3. IsBlock(Config)
  BY <1>2 DEF ParserInv, StackInv, Config
<1>4. Len(Config) \in Nat /\ DOMAIN Config = 1 .. Len(Config)
  BY <1>3, SeqShape DEF IsBlock
<1>5. ASSUME NEW i \in DOMAIN Config, Len(Config[i].tokens) >= 2 PROVE Config[i].tokens[2] \in Word
  <2>1. Config[i].tokens \in Seq(Word)
    BY <1>3 DEF IsBlock, IsStatement
  <2>2. Len(Config[i].tokens) \in Nat /\ 2 \in 1 .. Len(Config[i].tokens)
    BY <1>5, <2>1, LenProperties
  <2>. QED
    BY <2>1, <2>2, ElementOfSeq
<1>6. ASSUME NEW i \in Ports PROVE i \in 1 .. Len(Config) /\ PortOf(Config[i]) \in Word
  BY <1>4, <1>5 DEF Ports, IsDirective, PortOf
<1>7. ASSUME NEW i \in Declared PROVE i \in 1 .. Len(Config) /\ Config[i].tokens[2] \in Word
  <2>1. i \in DOMAIN Config /\ Len(Config[i].tokens) >= 3
    BY DEF Declared, IsDirective
  <2>2. Len(Config[i].tokens) \in Nat
    BY <1>3, <2>1, LenProperties DEF IsBlock, IsStatement
  <2>. QED
    BY <1>4, <1>5, <2>1, <2>2
<1>. QED
  BY <1>3, <1>4, <1>6, <1>7 DEF IsBlock

(* The last argument called root is the one a StaticHandler gets. *)
LEMMA RootIs ==
  ASSUME NEW st, IsStatement(st), "root" \in DOMAIN TypedArguments(st)
  PROVE  LET i == Max(Named(st, "root"))
         IN /\ i \in Arguments(st) /\ Argument(st, i)[1] = "root"
            /\ \A j \in Arguments(st) : Argument(st, j)[1] = "root" => j <= i
            /\ StringArgument(LocationOf(st), "root", "./") = Argument(st, i)[2]
<1>. DEFINE roots == Named(st, "root")
<1>1. IsSeq(ChildBlock(st))
  <2>1. CASE st.child_block = {}
    BY <2>1, EmptyBlock DEF ChildBlock, IsBlock
  <2>2. CASE st.child_block # {}
    BY <2>2 DEF ChildBlock, IsStatement
  <2>. QED
    BY <2>1, <2>2
<1>2. Len(ChildBlock(st)) \in Nat /\ roots \in SUBSET (1 .. Len(ChildBlock(st)))
  BY <1>1, SeqShape DEF Named, Arguments
<1>3. roots # {}
  BY DEF Named, TypedArguments
<1>4. Max(roots) \in roots /\ \A j \in roots : j <= Max(roots)
  BY <1>2, <1>3, MaxIs
<1>5. /\ LocationOf(st).args = TypedArguments(st)
      /\ TypedArguments(st)["root"].kind = "string"
      /\ TypedArguments(st)["root"].text = Argument(st, Max(roots))[2]
  BY DEF LocationOf, TypedArguments, ValueKind, Value
<1>6. StringArgument(LocationOf(st), "root", "./") = Argument(st, Max(roots))[2]
  BY <1>5 DEF StringArgument
<1>. QED
  BY <1>4, <1>6 DEF Named

(* Every known location of a list without duplicates is registered as it is. *)
LEMMA RegistrationsIs ==
  ASSUME NEW locs, \A i, j \in DOMAIN locs : locs[i].path = locs[j].path => i = j
  PROVE  /\ \A k \in DOMAIN locs : locs[k].handler_type \in HandlerName =>
              /\ locs[k].path \in DOMAIN Registrations(locs)
              /\ Registrations(locs)[locs[k].path]
                   = Registration(locs[k].handler_type, HandlerArguments(locs[k]))
         /\ \A path \in DOMAIN Registrations(locs) :
              \E k \in DOMAIN locs : locs[k].path = path /\ locs[k].handler_type \in HandlerName
<1>. DEFINE known == {k \in DOMAIN locs : locs[k].handler_type \in HandlerName}
            LocationAt(path) == locs[CHOOSE k \in known : locs[k].path = path]
<1>1. Registrations(locs) =
        [path \in {locs[k].path : k \in known} |->
          Registration(LocationAt(path).handler_type, HandlerArguments(LocationAt(path)))]
  BY DEF Registrations
<1>2. ASSUME NEW k \in known PROVE LocationAt(locs[k].path) = locs[k]
  <2>1. \E c \in known : locs[c].path = locs[k].path
    OBVIOUS
  <2>2. (CHOOSE c \in known : locs[c].path = locs[k].path) = k
    BY <2>1
  <2>. QED
    BY <2>2
<1>. HIDE DEF At
<1>3. ASSUME NEW k \in known
      PROVE  /\ locs[k].path \in DOMAIN Registrations(locs)
             /\ Registrations(locs)[locs[k].path]
                  = Registration(locs[k].handler_type, HandlerArguments(locs[k]))
  BY <1>1, <1>2
<1>4. DOMAIN Registrations(locs) = {locs[k].path : k \in known}
  BY <1>1
<1>. QED
  BY <1>3, <1>4

(***************************************************************************)
(* What ServerConfig has made of the first n statements.                   *)
(***************************************************************************)
PortInv(n) ==
  \/ port = NoPort /\ \A i \in Ports : ~(i <= n)
  \/ \E i \in Ports :
       /\ i <= n /\ \A j \in Ports : j <= n => j <= i
       /\ PortIsValid(Config[i]) /\ port = Number[PortOf(Config[i])]

FromStatement(loc, i) == LocationIsValid(Config[i]) /\ loc = LocationOf(Config[i])

LocationsInv(n) ==
  /\ \A k \in DOMAIN locations : \E i \in Declared : i <= n /\ FromStatement(locations[k], i)
  /\ \A i \in Declared : i <= n =>
       \E k \in DOMAIN locations : FromStatement(locations[k], i)

Configured(n) ==
  /\ n \in 0 .. Len(Config) /\ todo = SubSeq(Config, n + 1, Len(Config))
  /\ PortInv(n) /\ LocationsInv(n)

RootIsServed ==
  \/ "/" \in DOMAIN handlers
  \/ \E i \in Declared : Config[i].tokens[2] = "/" /\ Config[i].tokens[3] \notin HandlerName

StartInv ==
  /\ ParserInv
  /\ phase \in {"parsing", "configuring", "serving", "refused"}
  /\ phase = "parsing" => port = NoPort /\ locations = <<>>
  /\ phase = "configuring" => \E n : Configured(n)
  /\ phase # "serving" => handlers = <<>>
  /\ port = NoPort \/ port \in PortNumber
  /\ IsSeq(locations) /\ \A k \in DOMAIN locations : locations[k].path \in Word
  /\ \A path \in DOMAIN handlers : handlers[path].handler_name \in HandlerName
  /\ phase = "serving" => handlers # <<>> /\ RootIsServed
  /\ RegistersTheConfiguration

LEMMA SameConfig ==
  ASSUME UNCHANGED open
  PROVE  Config' = Config /\ Ports' = Ports /\ Declared' = Declared
BY DEF Config, Ports, Declared

(* One statement more. *)
LEMMA ConfigureStep ==
  ASSUME ParserInv, NEW n, Configured(n), ConfigureNext, phase' # "refused",
         IsSeq(locations), \A k \in DOMAIN locations : locations[k].path \in Word
  PROVE  /\ Configured(n + 1)' /\ UNCHANGED parserVars /\ phase' = phase /\ handlers' = handlers
         /\ port' = port \/ port' \in PortNumber
         /\ IsSeq(locations') /\ \A k \in DOMAIN locations' : locations'[k].path \in Word
<1>. DEFINE st == Config[n + 1]
            isPort == IsDirective(st, "listen", 2)
            isLocation == IsDirective(st, "location", 3)
<1>1. IsSeq(Config) /\ Len(Config) \in Nat /\ DOMAIN Config = 1 .. Len(Config)
      /\ n \in 0 .. Len(Config) /\ n \in Nat /\ todo = SubSeq(Config, n + 1, Len(Config))
  BY ConfigIs DEF Configured
<1>2. /\ n < Len(Config) /\ Head(todo) = st /\ Tail(todo) = SubSeq(Config, n + 2, Len(Config))
  <2>1. (todo = <<>> <=> n = Len(Config))
        /\ (n < Len(Config) => Head(todo) = st /\ Tail(todo) = SubSeq(Config, n + 2, Len(Config)))
    BY <1>1, RestShape
  <2>2. todo # <<>>
    BY DEF ConfigureNext
  <2>3. n <= Len(Config) /\ n \in Nat /\ Len(Config) \in Nat
    BY <1>1
  <2>4. n < Len(Config)
    <3>1. ~(n = Len(Config))
      BY <2>1, <2>2
    <3>. QED
      BY <2>3, <3>1
  <2>. QED
    BY <2>1, <2>4
<1>3. /\ isPort => PortIsValid(st)
      /\ isLocation => LocationIsValid(st)
      /\ todo' = Tail(todo)
      /\ port' = IF isPort THEN Number[PortOf(st)] ELSE port
      /\ locations' = IF isLocation THEN Append(locations, LocationOf(st)) ELSE locations
      /\ UNCHANGED parserVars /\ phase' = phase /\ handlers' = handlers
  BY <1>2, Zenon DEF ConfigureNext
<1>4. UNCHANGED open
  BY <1>3 DEF parserVars
<1>5. Config' = Config /\ Ports' = Ports /\ Declared' = Declared
  BY <1>4, SameConfig
<1>6. n + 1 \in 1 .. Len(Config) /\ (n + 1) + 1 = n + 2
  BY <1>1, <1>2
<1>7. \A i \in Ports \cup Declared : i \in Nat /\ (i <= n + 1 <=> i <= n \/ i = n + 1)
  <2>1. \A i \in Ports \cup Declared : i \in Nat
    BY ConfigIs
  <2>. QED
    BY <1>1, <2>1
<1>8. (isPort <=> n + 1 \in Ports) /\ (isLocation <=> n + 1 \in Declared)
  BY <1>1, <1>6 DEF Ports, Declared
<1>. HIDE DEF isPort, isLocation
<1>9. PortInv(n + 1)'
  <2>1. CASE isPort
    <3>1. /\ n + 1 \in Ports' /\ n + 1 <= n + 1 /\ PortIsValid(Config'[n + 1])
          /\ port' = Number[PortOf(Config'[n + 1])]
          /\ \A j \in Ports' : j <= n + 1 => j <= n + 1
      BY <1>1, <1>3, <1>5, <1>8, <2>1
    <3>. QED
      BY <3>1 DEF PortInv
  <2>2. CASE ~isPort
    <3>1. port' = port /\ n + 1 \notin Ports
      BY <1>3, <1>8, <2>2
    <3>2. \A i \in Ports : i <= n + 1 <=> i <= n
      BY <1>7, <3>1
    <3>3. PortInv(n)
      BY DEF Configured
    <3>. QED
      BY <1>5, <3>1, <3>2, <3>3 DEF PortInv
  <2>. QED
    BY <2>1, <2>2
<1>12. port' = port \/ port' \in PortNumber
  <2>1. CASE isPort
    <3>1. port' = Number[PortOf(st)] /\ PortIsValid(st)
      BY <1>3, <2>1
    <3>. QED
      BY <3>1 DEF PortIsValid
  <2>2. CASE ~isPort
    BY <1>3, <2>2
  <2>. QED
    BY <2>1, <2>2
<1>13. ASSUME LocationsInv(n + 1)' PROVE Configured(n + 1)'
  <2>1. n + 1 \in 0 .. Len(Config')
    BY <1>1, <1>5, <1>6
  <2>2. todo' = SubSeq(Config', (n + 1) + 1, Len(Config'))
    BY <1>2, <1>3, <1>5, <1>6
  <2>. QED
    BY <1>9, <1>13, <2>1, <2>2 DEF Configured
<1>10. CASE isLocation
  <2>1. /\ IsSeq(locations') /\ Len(locations') = Len(locations) + 1
        /\ \A k \in 1 .. Len(locations) : locations'[k] = locations[k]
        /\ locations'[Len(locations) + 1] = LocationOf(st)
    BY <1>3, <1>10, AppendShape
  <2>2. Len(locations) \in Nat /\ DOMAIN locations = 1 .. Len(locations)
    BY SeqShape
  <2>3. DOMAIN locations' = 1 .. Len(locations) + 1
    BY <2>1, SeqShape
  <2>. DEFINE m == Len(locations) + 1
  <2>4. /\ DOMAIN locations' = DOMAIN locations \cup {m} /\ locations'[m] = LocationOf(st)
        /\ \A k \in DOMAIN locations : locations'[k] = locations[k]
    BY <2>1, <2>2, <2>3
  <2>. HIDE DEF m
  <2>5. n + 1 \in Declared /\ FromStatement(locations'[m], n + 1) /\ LocationIsValid(st)
    BY <1>3, <1>8, <1>10, <2>4 DEF FromStatement
  <2>6. ASSUME NEW k \in DOMAIN locations'
        PROVE  \E i \in Declared : i <= n + 1 /\ FromStatement(locations'[k], i)
    <3>1. CASE k = m
      BY <1>7, <2>5, <3>1
    <3>2. CASE k \in DOMAIN locations
      BY <1>7, <2>4, <3>2 DEF Configured, LocationsInv
    <3>. QED
      BY <2>4, <3>1, <3>2
  <2>7. ASSUME NEW i \in Declared, i <= n + 1
        PROVE  \E k \in DOMAIN locations' : FromStatement(locations'[k], i)
    <3>1. CASE i = n + 1
      BY <2>4, <2>5, <3>1
    <3>2. CASE i <= n
      <4>1. PICK k \in DOMAIN locations : FromStatement(locations[k], i)
        BY <3>2 DEF Configured, LocationsInv
      <4>. QED
        BY <2>4, <4>1
    <3>. QED
      BY <1>7, <2>7, <3>1, <3>2
  <2>8. LocationsInv(n + 1)'
    BY <1>5, <2>6, <2>7 DEF LocationsInv, FromStatement
  <2>9. LocationOf(st).path \in Word
    BY <1>6, <1>8, <1>10, ConfigIs DEF LocationOf
  <2>10. \A k \in DOMAIN locations' : locations'[k].path \in Word
    BY <2>4, <2>9
  <2>. QED
    BY <1>3, <1>12, <1>13, <2>1, <2>8, <2>10
<1>11. CASE ~isLocation
  <2>1. locations' = locations /\ n + 1 \notin Declared
    BY <1>3, <1>8, <1>11
  <2>2. \A i \in Declared : i <= n + 1 <=> i <= n
    BY <1>7, <2>1
  <2>3. LocationsInv(n + 1)'
    BY <1>5, <2>1, <2>2 DEF Configured, LocationsInv, FromStatement
  <2>. QED
    BY <1>3, <1>12, <1>13, <2>1, <2>3
<1>. QED
  BY <1>10, <1>11

(***************************************************************************)
(* The handlers made of a valid list of locations that come from the       *)
(* statements, but for the default one, are those the file asks for.       *)
(***************************************************************************)
DefaultLocation == [path |-> "/", handler_type |-> "NotFoundHandler", args |-> <<>>]

Root(st, args) ==
  \E i \in Arguments(st) :
    /\ Argument(st, i)[1] = "root"
    /\ \A j \in Arguments(st) : Argument(st, j)[1] = "root" => j <= i
    /\ args = <<st.tokens[2], Argument(st, i)[2]>>

LEMMA ServedIs ==
  ASSUME ParserInv, NEW locs, \A i, j \in DOMAIN locs : locs[i].path = locs[j].path => i = j,
         \A k \in DOMAIN locs :
           locs[k] = DefaultLocation \/ \E i \in Declared : FromStatement(locs[k], i),
         \A i \in Declared : \E k \in DOMAIN locs : FromStatement(locs[k], i)
  PROVE  LET h == WithHealth(Registrations(locs))
         IN /\ \A i \in Declared : Config[i].tokens[3] \in HandlerName =>
                 /\ Config[i].tokens[2] \in DOMAIN h
                 /\ h[Config[i].tokens[2]].handler_name = Config[i].tokens[3]
                 /\ Config[i].tokens[3] = "StaticHandler" =>
                      Root(Config[i], h[Config[i].tokens[2]].args)
            /\ \A path \in DOMAIN h :
                 /\ h[path].handler_name \in HandlerName
                 /\ \/ \E i \in Declared :
                         Config[i].tokens[2] = path /\ h[path].handler_name = Config[i].tokens[3]
                    \/ path = "/" /\ h[path].handler_name = "NotFoundHandler"
                    \/ path = "/health" /\ h[path].handler_name = "HealthHandler"
            /\ "/health" \in DOMAIN h
            /\ (\E k \in DOMAIN locs : locs[k].path = "/") =>
                 \/ "/" \in DOMAIN h
                 \/ \E i \in Declared :
                      Config[i].tokens[2] = "/" /\ Config[i].tokens[3] \notin HandlerName
<1>. DEFINE regs == Registrations(locs)
            h == WithHealth(regs)
<1>1. /\ \A k \in DOMAIN locs : locs[k].handler_type \in HandlerName =>
           /\ locs[k].path \in DOMAIN regs
           /\ regs[locs[k].path] = Registration(locs[k].handler_type, HandlerArguments(locs[k]))
      /\ \A path \in DOMAIN regs :
           \E k \in DOMAIN locs : locs[k].path = path /\ locs[k].handler_type \in HandlerName
  BY RegistrationsIs
<1>. HIDE DEF regs
<1>2. DOMAIN h = DOMAIN regs \cup {"/health"} /\ \A path \in DOMAIN regs : h[path] = regs[path]
  BY DEF WithHealth
<1>3. "/health" \notin DOMAIN regs => h["/health"] = Registration("HealthHandler", <<>>)
  BY DEF WithHealth
<1>. HIDE DEF h
<1>4. ASSUME NEW k \in DOMAIN locs, locs[k].handler_type \in HandlerName
      PROVE  /\ locs[k].path \in DOMAIN h
             /\ h[locs[k].path].handler_name = locs[k].handler_type
             /\ h[locs[k].path].args = HandlerArguments(locs[k])
  <2>1. locs[k].path \in DOMAIN h
        /\ h[locs[k].path] = Registration(locs[k].handler_type, HandlerArguments(locs[k]))
    BY <1>1, <1>2, <1>4
  <2>. QED
    BY <2>1 DEF Registration
<1>5. ASSUME NEW loc, NEW i \in Declared, FromStatement(loc, i)
      PROVE  /\ loc.path = Config[i].tokens[2] /\ loc.handler_type = Config[i].tokens[3]
             /\ loc.handler_type = "StaticHandler" => Root(Config[i], HandlerArguments(loc))
  <2>. DEFINE st == Config[i]
  <2>1. loc = LocationOf(st) /\ LocationIsValid(st)
    BY <1>5 DEF FromStatement
  <2>2. loc.path = st.tokens[2] /\ loc.handler_type = st.tokens[3]
    BY <2>1 DEF LocationOf
  <2>3. IsStatement(st)
    BY ConfigIs DEF Declared
  <2>4. ASSUME loc.handler_type = "StaticHandler" PROVE Root(st, HandlerArguments(loc))
    <3>1. "root" \in DOMAIN TypedArguments(st)
      BY <2>1, <2>2, <2>4 DEF LocationIsValid
    <3>. DEFINE root == Max(Named(st, "root"))
    <3>2. /\ root \in Arguments(st) /\ Argument(st, root)[1] = "root"
          /\ \A j \in Arguments(st) : Argument(st, j)[1] = "root" => j <= root
          /\ StringArgument(loc, "root", "./") = Argument(st, root)[2]
      BY <2>1, <2>3, <3>1, RootIs
    <3>3. HandlerArguments(loc) = <<loc.path, StringArgument(loc, "root", "./")>>
      BY <2>4 DEF HandlerArguments
    <3>. HIDE DEF root, st
    <3>4. HandlerArguments(loc) = <<st.tokens[2], Argument(st, root)[2]>>
      BY <2>2, <3>2, <3>3
    <3>. QED
      BY <3>2, <3>4 DEF Root
  <2>. QED
    BY <2>2, <2>4
<1>6. ASSUME NEW i \in Declared, Config[i].tokens[3] \in HandlerName
      PROVE  /\ Config[i].tokens[2] \in DOMAIN h
             /\ h[Config[i].tokens[2]].handler_name = Config[i].tokens[3]
             /\ Config[i].tokens[3] = "StaticHandler" =>
                  Root(Config[i], h[Config[i].tokens[2]].args)
  <2>1. PICK k \in DOMAIN locs : FromStatement(locs[k], i)
    OBVIOUS
  <2>2. /\ locs[k].path = Config[i].tokens[2] /\ locs[k].handler_type = Config[i].tokens[3]
        /\ locs[k].handler_type = "StaticHandler" => Root(Config[i], HandlerArguments(locs[k]))
    BY <1>5, <2>1
  <2>3. /\ locs[k].path \in DOMAIN h
        /\ h[locs[k].path].handler_name = locs[k].handler_type
        /\ h[locs[k].path].args = HandlerArguments(locs[k])
    BY <1>4, <1>6, <2>2
  <2>. QED
    BY <2>2, <2>3
<1>7. ASSUME NEW path \in DOMAIN h
      PROVE  /\ h[path].handler_name \in HandlerName
             /\ \/ \E i \in Declared :
                     Config[i].tokens[2] = path /\ h[path].handler_name = Config[i].tokens[3]
                \/ path = "/" /\ h[path].handler_name = "NotFoundHandler"
                \/ path = "/health" /\ h[path].handler_name = "HealthHandler"
  <2>1. CASE path \in DOMAIN regs
    <3>1. PICK k \in DOMAIN locs : locs[k].path = path /\ locs[k].handler_type \in HandlerName
      BY <1>1, <2>1
    <3>2. h[path].handler_name = locs[k].handler_type
      BY <1>4, <3>1
    <3>3. CASE locs[k] = DefaultLocation
      BY <3>1, <3>2, <3>3 DEF DefaultLocation
    <3>4. CASE \E i \in Declared : FromStatement(locs[k], i)
      BY <1>5, <3>1, <3>2, <3>4
    <3>. QED
      BY <3>3, <3>4
  <2>2. CASE path \notin DOMAIN regs
    <3>1. path = "/health" /\ h[path].handler_name = "HealthHandler"
      BY <1>2, <1>3, <2>2 DEF Registration
    <3>2. "HealthHandler" \in HandlerName
      BY DEF HandlerName
    <3>. QED
      BY <3>1, <3>2
  <2>. QED
    BY <2>1, <2>2
<1>8. "/health" \in DOMAIN h
  BY <1>2
<1>9. ASSUME NEW k \in DOMAIN locs, locs[k].path = "/"
      PROVE  \/ "/" \in DOMAIN h
             \/ \E i \in Declared :
                  Config[i].tokens[2] = "/" /\ Config[i].tokens[3] \notin HandlerName
  <2>1. CASE locs[k].handler_type \in HandlerName
    BY <1>4, <1>9, <2>1
  <2>2. CASE locs[k].handler_type \notin HandlerName
    <3>1. locs[k] # DefaultLocation
      BY <2>2 DEF DefaultLocation, HandlerName
    <3>2. PICK i \in Declared : FromStatement(locs[k], i)
      BY <3>1
    <3>. QED
      BY <1>5, <1>9, <2>2, <3>2
  <2>. QED
    BY <2>1, <2>2
<1>. QED
  BY <1>6, <1>7, <1>8, <1>9 DEF h, regs

LEMMA ServingStep ==
  ASSUME StartInv, phase = "configuring", StartServing
  PROVE  StartInv'
<1>. USE DEF StartInv
<1>1. /\ todo = <<>> /\ locations' = WithDefault /\ UNCHANGED parserVars /\ port' = port
      /\ \/ /\ ConfigurationIsValid(locations') /\ phase' = "serving"
            /\ handlers' = WithHealth(Registrations(locations'))
         \/ phase' = "refused" /\ handlers' = handlers
  BY DEF StartServing
<1>2. PICK n : Configured(n)
  OBVIOUS
<1>3. /\ IsSeq(Config) /\ Len(Config) \in Nat
      /\ \A i \in Ports \cup Declared : i \in 1 .. Len(Config)
  BY ConfigIs
<1>4. n = Len(Config)
  <2>1. n \in 0 .. Len(Config) /\ todo = SubSeq(Config, n + 1, Len(Config))
    BY <1>2 DEF Configured
  <2>. QED
    BY <1>1, <1>3, <2>1, RestShape
<1>5. \A i \in Ports \cup Declared : i <= n
  BY <1>3, <1>4
<1>6. /\ \A k \in DOMAIN locations : \E i \in Declared : FromStatement(locations[k], i)
      /\ \A i \in Declared : \E k \in DOMAIN locations : FromStatement(locations[k], i)
  BY <1>2, <1>5 DEF Configured, LocationsInv
<1>7. ParserInv'
  BY <1>1, SameParser
<1>8. UNCHANGED open
  BY <1>1 DEF parserVars
<1>9. Config' = Config /\ Ports' = Ports /\ Declared' = Declared
  BY <1>8, SameConfig
<1>10. /\ IsSeq(locations') /\ \A k \in DOMAIN locations' : locations'[k].path \in Word
       /\ \A k \in DOMAIN locations' :
            locations'[k] = DefaultLocation \/ \E i \in Declared : FromStatement(locations'[k], i)
       /\ \A i \in Declared : \E k \in DOMAIN locations' : FromStatement(locations'[k], i)
  <2>1. CASE locations' = locations
    BY <1>6, <2>1
  <2>2. CASE locations' = Append(locations, DefaultLocation)
    <3>. DEFINE m == Len(locations) + 1
    <3>1. /\ IsSeq(locations') /\ Len(locations') = m /\ locations'[m] = DefaultLocation
          /\ \A k \in 1 .. Len(locations) : locations'[k] = locations[k]
      BY <2>2, AppendShape
    <3>2. Len(locations) \in Nat /\ DOMAIN locations = 1 .. Len(locations)
      BY SeqShape
    <3>3. DOMAIN locations' = 1 .. m
      BY <3>1, SeqShape
    <3>4. DOMAIN locations' = DOMAIN locations \cup {m}
          /\ \A k \in DOMAIN locations : locations'[k] = locations[k]
      BY <3>1, <3>2, <3>3
    <3>. HIDE DEF m
    <3>5. DefaultLocation.path \in Word
      BY StartupAssumption DEF DefaultLocation
    <3>6. \A k \in DOMAIN locations' : locations'[k].path \in Word
      BY <3>1, <3>4, <3>5
    <3>7. \A k \in DOMAIN locations' :
            locations'[k] = DefaultLocation \/ \E i \in Declared : FromStatement(locations'[k], i)
      BY <1>6, <3>1, <3>4
    <3>8. \A i \in Declared : \E k \in DOMAIN locations' : FromStatement(locations'[k], i)
      BY <1>6, <3>4
    <3>. QED
      BY <3>1, <3>6, <3>7, <3>8
  <2>. QED
    BY <1>1, <2>1, <2>2 DEF WithDefault, DefaultLocation
<1>13. \E k \in DOMAIN locations' : locations'[k].path = "/"
  <2>1. CASE \E i \in DOMAIN locations : locations[i].path = "/"
    BY <1>1, <2>1 DEF WithDefault
  <2>2. CASE ~ \E i \in DOMAIN locations : locations[i].path = "/"
    <3>1. locations' = Append(locations, DefaultLocation)
      BY <1>1, <2>2 DEF WithDefault, DefaultLocation
    <3>2. /\ Len(locations') = Len(locations) + 1 /\ DOMAIN locations' = 1 .. Len(locations')
          /\ locations'[Len(locations) + 1] = DefaultLocation
      BY <1>10, <3>1, AppendShape, SeqShape
    <3>3. Len(locations) + 1 \in DOMAIN locations'
      BY <3>2, SeqShape
    <3>. QED
      BY <3>2, <3>3 DEF DefaultLocation
  <2>. QED
    BY <2>1, <2>2
<1>11. CASE phase' = "refused" /\ handlers' = handlers
  BY <1>1, <1>7, <1>10, <1>11 DEF RegistersTheConfiguration
<1>12. CASE /\ ConfigurationIsValid(locations') /\ phase' = "serving"
            /\ handlers' = WithHealth(Registrations(locations'))
  <2>1. port # NoPort /\ \A i, j \in DOMAIN locations' : locations'[i].path = locations'[j].path => i = j
    BY <1>12 DEF ConfigurationIsValid
  <2>2. /\ \A i \in Declared : Config[i].tokens[3] \in HandlerName =>
             /\ Config[i].tokens[2] \in DOMAIN handlers'
             /\ handlers'[Config[i].tokens[2]].handler_name = Config[i].tokens[3]
             /\ Config[i].tokens[3] = "StaticHandler" =>
                  Root(Config[i], handlers'[Config[i].tokens[2]].args)
        /\ \A path \in DOMAIN handlers' :
             /\ handlers'[path].handler_name \in HandlerName
             /\ \/ \E i \in Declared :
                     /\ Config[i].tokens[2] = path
                     /\ handlers'[path].handler_name = Config[i].tokens[3]
                \/ path = "/" /\ handlers'[path].handler_name = "NotFoundHandler"
                \/ path = "/health" /\ handlers'[path].handler_name = "HealthHandler"
        /\ "/health" \in DOMAIN handlers'
        /\ \/ "/" \in DOMAIN handlers'
           \/ \E i \in Declared : Config[i].tokens[2] = "/" /\ Config[i].tokens[3] \notin HandlerName
    BY <1>10, <1>12, <1>13, <2>1, ServedIs
  <2>3. handlers' # <<>> /\ RootIsServed'
    BY <1>9, <2>2 DEF RootIsServed
  <2>4. PICK i \in Ports : (\A j \in Ports : j <= i) /\ port = Number[PortOf(Config[i])]
    BY <1>2, <1>5, <2>1 DEF Configured, PortInv
  <2>5. Max(Ports) = i
    BY <1>3, <2>4, MaxIs
  <2>6. RegistersTheConfiguration'
    <3>1. Ports' # {} /\ port' = Number[PortOf(Config'[Max(Ports')])]
      BY <1>1, <1>9, <2>4, <2>5
    <3>2. ASSUME NEW d \in Declared', Config'[d].tokens[3] \in HandlerName
          PROVE  HasHandler(Config[d])' /\ RootIsKept(Config[d])'
      <4>1. /\ Config'[d] = Config[d] /\ d \in Declared /\ Config[d].tokens[3] \in HandlerName
        BY <1>9, <3>2
      <4>2. HasHandler(Config[d])'
        BY <2>2, <4>1 DEF HasHandler
      <4>3. ASSUME Config[d].tokens[3] = "StaticHandler"
            PROVE  Root(Config[d], handlers'[Config[d].tokens[2]].args)
        BY <2>2, <4>1, <4>3
      <4>4. RootIsKept(Config[d])'
        BY <4>1, <4>3 DEF RootIsKept, Root
      <4>. QED
        BY <4>2, <4>4
    <3>3. ASSUME NEW path \in DOMAIN handlers'
          PROVE  \/ \E d \in Declared' : Config'[d].tokens[2] = path /\ HasHandler(Config[d])'
                 \/ path = "/" /\ handlers'[path].handler_name = "NotFoundHandler"
                 \/ path = "/health" /\ handlers'[path].handler_name = "HealthHandler"
      BY <1>9, <2>2, <3>3 DEF HasHandler
    <3>. QED
      BY <3>1, <3>2, <3>3 DEF RegistersTheConfiguration
  <2>. QED
    BY <1>1, <1>7, <1>10, <1>12, <2>2, <2>3, <2>6
<1>. QED
  BY <1>1, <1>11, <1>12

LEMMA StartInit == Init => StartInv
<1>. SUFFICES ASSUME Init PROVE StartInv
  OBVIOUS
<1>1. ParserInv
  BY LanguageInit DEF LanguageIInv
<1>2. IsSeq(<<>>)
  BY EmptyBlock DEF IsBlock
<1>. QED
  BY <1>1, <1>2 DEF Init, ParserInit, StartInv, RegistersTheConfiguration

LEMMA StartStep == StartInv /\ [Next]_vars => StartInv'
<1>. SUFFICES ASSUME StartInv, [Next]_vars PROVE StartInv'
  OBVIOUS
<1>. USE DEF StartInv
<1>1. CASE ParserStep
  <2>1. /\ ParserInv' /\ phase = "parsing" /\ UNCHANGED <<port, locations, handlers>>
        /\ todo' = IF phase' = "configuring" THEN Config ELSE <<>>
    BY <1>1, ParserTyping DEF ParserStep, Parse, SkipComment, AddWord, EndStatement, StartBlock,
                              EndBlock, Read, ParseEnds, ParseFails
  <2>2. /\ phase' \in {"parsing", "configuring", "refused"}
        /\ phase' = "configuring" => UNCHANGED parserVars
    BY <1>1, <2>1 DEF ParserStep, Parse, SkipComment, AddWord, EndStatement, StartBlock, EndBlock,
                      Read, ParseEnds, ParseFails
  <2>3. ASSUME phase' = "configuring" PROVE Configured(0)'
    <3>1. IsSeq(Config) /\ Len(Config) \in Nat /\ \A i \in Ports \cup Declared : i \in 1 .. Len(Config)
      BY ConfigIs
    <3>2. Config' = Config /\ Ports' = Ports /\ Declared' = Declared
      BY <2>2, <2>3, SameConfig DEF parserVars
    <3>3. 0 \in 0 .. Len(Config) /\ \A i \in Ports \cup Declared : ~(i <= 0)
      BY <3>1
    <3>4. todo' = SubSeq(Config, 0 + 1, Len(Config))
      BY <2>1, <2>3, <3>1, SubSeqFull DEF IsSeq
    <3>5. port' = NoPort /\ locations' = <<>>
      BY <2>1
    <3>. QED
      BY <3>2, <3>3, <3>4, <3>5 DEF Configured, PortInv, LocationsInv
  <2>. QED
    BY <2>1, <2>2, <2>3 DEF RegistersTheConfiguration
<1>2. CASE ConfigureNext
  <2>1. phase = "configuring"
    BY <1>2 DEF ConfigureNext
  <2>2. PICK n : Configured(n)
    BY <2>1
  <2>3. CASE phase' = "refused"
    <3>1. UNCHANGED <<parserVars, configVars>>
      BY <1>2, <2>1, <2>3, Zenon DEF ConfigureNext
    <3>2. ParserInv'
      BY <3>1, SameParser
    <3>. QED
      BY <2>1, <2>3, <3>1, <3>2 DEF configVars, RegistersTheConfiguration
  <2>4. CASE phase' # "refused"
    <3>0. ParserInv /\ IsSeq(locations) /\ \A k \in DOMAIN locations : locations[k].path \in Word
      OBVIOUS
    <3>. HIDE DEF StartInv
    <3>1. /\ Configured(n + 1)' /\ UNCHANGED parserVars /\ phase' = phase /\ handlers' = handlers
          /\ port' = port \/ port' \in PortNumber
          /\ IsSeq(locations') /\ \A k \in DOMAIN locations' : locations'[k].path \in Word
      BY <1>2, <2>2, <2>4, <3>0, ConfigureStep
    <3>2. ParserInv'
      BY <3>0, <3>1, SameParser
    <3>. QED
      BY <2>1, <3>1, <3>2 DEF StartInv, RegistersTheConfiguration
  <2>. QED
    BY <2>3, <2>4
<1>3. CASE StartServing
  <2>1. phase = "configuring"
    BY <1>3 DEF StartServing
  <2>. QED
    BY <1>3, <2>1, ServingStep
<1>4. CASE UNCHANGED vars
  <2>1. UNCHANGED <<parserVars, phase, todo, port, locations, handlers>>
    BY <1>4 DEF vars, configVars
  <2>2. ParserInv'
    BY <2>1, SameParser
  <2>3. Config' = Config /\ Ports' = Ports /\ Declared' = Declared
    BY <2>1, SameConfig DEF parserVars
  <2>4. \A n : Configured(n) => Configured(n)'
    BY <2>1, <2>3 DEF Configured, PortInv, LocationsInv, FromStatement
  <2>7. RootIsServed' <=> RootIsServed
    BY <2>1, <2>3 DEF RootIsServed
  <2>5. \A st : (HasHandler(st)' <=> HasHandler(st)) /\ (RootIsKept(st)' <=> RootIsKept(st))
    BY <2>1 DEF HasHandler, RootIsKept
  <2>6. RegistersTheConfiguration'
    BY <2>1, <2>3, <2>5 DEF RegistersTheConfiguration
  <2>. QED
    BY <2>1, <2>2, <2>4, <2>6, <2>7
<1>. QED
  BY <1>1, <1>2, <1>3, <1>4 DEF Next

(***************************************************************************)
(* The parser, ServerConfig and the dispatcher keep their types: back() of *)
(* the code never meets an empty stack or block, whatever the file.        *)
(***************************************************************************)
THEOREM StartupTyping == Spec => []TypeOK
<1>1. StartInv => TypeOK
  <2>1. IsSeq(<<>>) /\ DOMAIN <<>> = {}
    BY EmptyBlock DEF IsBlock
  <2>. QED
    BY <2>1 DEF StartInv, TypeOK, ParserInv
<1>. QED
  BY <1>1, StartInit, StartStep, PTL DEF Spec

-----------------------------------------------------------------------------
(* Routing. *)

LEMMA PrefixIs ==
  ASSUME NEW s \in Seq(Char), NEW t \in Seq(Char), s # <<>>, IsPrefix(s, t)
  PROVE  Len(s) \in 1 .. Len(t) /\ Len(t) \in Nat /\ s[1] = t[1]
<1>1. IsSeq(s) /\ IsSeq(t)
  BY SeqIs
<1>2. /\ Len(s) \in Nat /\ Len(t) \in Nat /\ Len(s) > 0 /\ Len(s) <= Len(t)
      /\ SubSeq(s, 1, Len(s)) = SubSeq(t, 1, Len(s))
  BY <1>1, SeqShape DEF IsPrefix
<1>3. Len(s) \in 0 .. Len(s) /\ Len(s) \in 0 .. Len(t) /\ 1 \in 1 .. Len(s) /\ Len(s) \in 1 .. Len(t)
  BY <1>2
<1>4. SubSeq(s, 1, Len(s))[1] = s[1] /\ SubSeq(t, 1, Len(s))[1] = t[1]
  BY <1>1, <1>3, FirstShape
<1>. QED
  BY <1>2, <1>3, <1>4

(* The longest of some locations that match. *)
LEMMA LongestIs ==
  ASSUME NEW uri \in Seq(Char), DOMAIN handlers \subseteq Word,
         NEW l \in DOMAIN handlers, Matches(l, uri)
  PROVE  /\ FindLongestPrefixMatch(uri) \in DOMAIN handlers
         /\ Matches(FindLongestPrefixMatch(uri), uri)
         /\ \A m \in DOMAIN handlers : Matches(m, uri) =>
              Len(Spelling[m]) <= Len(Spelling[FindLongestPrefixMatch(uri)])
<1>. DEFINE matches == {location \in DOMAIN handlers : Matches(location, uri)}
            lengths == {Len(Spelling[m]) : m \in matches}
<1>1. \A w \in Word : Spelling[w] \in Seq(Char) /\ Spelling[w] # <<>>
  BY StartupAssumption
<1>2. \A m \in matches : Len(Spelling[m]) \in 1 .. Len(uri)
  BY <1>1, PrefixIs DEF Matches
<1>3. lengths \in SUBSET (1 .. Len(uri)) /\ lengths # {} /\ Len(uri) \in Nat
  <2>1. lengths \in SUBSET (1 .. Len(uri))
    BY <1>2
  <2>2. Len(Spelling[l]) \in lengths
    OBVIOUS
  <2>. QED
    BY <2>1, <2>2, LenProperties
<1>4. Max(lengths) \in lengths /\ \A n \in lengths : n <= Max(lengths)
  BY <1>3, MaxIs
<1>5. PICK best \in matches : Len(Spelling[best]) = Max(lengths)
  BY <1>4
<1>6. \A m \in matches : Len(Spelling[best]) >= Len(Spelling[m])
  <2>1. ASSUME NEW m \in matches PROVE Len(Spelling[best]) >= Len(Spelling[m])
    <3>1. Len(Spelling[m]) <= Len(Spelling[best])
      BY <1>4, <1>5
    <3>2. Len(Spelling[m]) \in Int /\ Len(Spelling[best]) \in Int
      BY <1>2
    <3>. QED
      BY <3>1, <3>2
  <2>. QED
    BY <2>1
<1>. HIDE DEF lengths
<1>7. matches # {}
  OBVIOUS
<1>8. FindLongestPrefixMatch(uri) =
        CHOOSE location \in matches :
          \A other \in matches : Len(Spelling[location]) >= Len(Spelling[other])
  BY <1>7 DEF FindLongestPrefixMatch
<1>. DEFINE found == FindLongestPrefixMatch(uri)
<1>9. found \in matches /\ \A m \in matches : Len(Spelling[found]) >= Len(Spelling[m])
  BY <1>5, <1>6, <1>8
<1>10. \A m \in matches : Len(Spelling[m]) \in Int
  BY <1>2
<1>. HIDE DEF found
<1>11. \A m \in matches : Len(Spelling[m]) <= Len(Spelling[found])
  BY <1>9, <1>10
<1>. QED
  BY <1>9, <1>11 DEF found

(* Where the location / is registered a URI with a slash has a handler. *)
LEMMA SlashHasHandler ==
  ASSUME NEW uri \in Uris, IsPrefix(<<"/">>, uri), DOMAIN handlers \subseteq Word,
         "/" \in DOMAIN handlers
  PROVE  CreateHandlerForRequest(uri) # {}
<1>. DEFINE best == FindLongestPrefixMatch(uri)
<1>1. /\ uri \in Seq(Char) /\ Spelling["/"] = <<"/">>
      /\ \A w \in Word : Spelling[w] \in Seq(Char) /\ Spelling[w] # <<>>
  BY StartupAssumption
<1>2. Matches("/", uri)
  BY <1>1 DEF Matches
<1>3. best \in DOMAIN handlers /\ Matches(best, uri)
  BY <1>1, <1>2, LongestIs
<1>4. Spelling[best][1] = uri[1]
  BY <1>1, <1>3, PrefixIs DEF Matches
<1>5. uri[1] = "/"
  <2>1. <<"/">> \in Seq(Char) /\ <<"/">> # <<>>
    BY <1>1, StartupAssumption
  <2>2. <<"/">>[1] = uri[1]
    BY <1>1, <2>1, PrefixIs
  <2>. QED
    BY <2>2
<1>6. best # NoLocation
  BY <1>3, StartupAssumption
<1>. HIDE DEF best
<1>7. LocationFor(uri) = best
  BY <1>6 DEF LocationFor, best
<1>8. Creates(best)
  BY <1>4, <1>5, <1>6 DEF Creates
<1>. QED
  BY <1>7, <1>8 DEF CreateHandlerForRequest

(***************************************************************************)
(* Whatever the file: a server that serves has the port of the last listen *)
(* and the handlers of the locations, and of its own only / and /health;   *)
(* with a handler for /, which it adds where the file has none, it answers *)
(* every URI with a slash.                                                 *)
(***************************************************************************)
THEOREM ServesWhatTheFileSays == Spec => []ServesTheConfiguration
<1>1. ASSUME StartInv PROVE SlashIsAnswered
  <2>. SUFFICES ASSUME phase = "serving",
                       \A i \in Declared : Config[i].tokens[2] = "/" => Config[i].tokens[3] \in HandlerName,
                       NEW uri \in Uris, IsPrefix(<<"/">>, uri)
                PROVE  CreateHandlerForRequest(uri) # {}
    BY DEF SlashIsAnswered
  <2>1. "/" \in DOMAIN handlers
    BY <1>1 DEF StartInv, RootIsServed
  <2>2. \A i \in Declared : Config[i].tokens[2] \in Word
    BY <1>1, ConfigIs DEF StartInv
  <2>3. DOMAIN handlers \subseteq Word
    <3>1. RegistersTheConfiguration
      BY <1>1 DEF StartInv
    <3>2. \A path \in DOMAIN handlers :
            (\E i \in Declared : Config[i].tokens[2] = path) \/ path = "/" \/ path = "/health"
      BY <3>1 DEF RegistersTheConfiguration
    <3>3. "/" \in Word /\ "/health" \in Word
      BY StartupAssumption
    <3>. QED
      BY <2>2, <3>2, <3>3
  <2>. QED
    BY <2>1, <2>3, SlashHasHandler
<1>2. StartInv => ServesTheConfiguration
  BY <1>1 DEF StartInv, ServesTheConfiguration
<1>. QED
  BY <1>2, StartInit, StartStep, PTL DEF Spec

-----------------------------------------------------------------------------
(* Components: the pieces of a path between its slashes. *)

(***************************************************************************)
(* A location other than / matches a URI when its components are the first *)
(* components of the URI.                                                  *)
(***************************************************************************)
LEMMA ReachesIs ==
  ASSUME NEW l \in Word \ {"/"}, NEW uri \in Seq(Char)
  PROVE  Reaches(l, uri) <=> Matches(l, uri)
<1>. DEFINE p == Spelling[l]
            P == Components(p)
            U == Components(uri)
<1>1. p \in Seq(Char) /\ Len(p) \in Nat /\ Len(uri) \in Nat
  BY StartupAssumption, LenProperties
<1>2. "/" \in Char
  <2>1. Spelling["/"] \in Seq(Char) /\ Spelling["/"] = <<"/">>
    BY StartupAssumption
  <2>. QED
    BY <2>1, ElementOfSeq
<1>3. /\ Append(p, "/") \in Seq(Char) /\ Len(Append(p, "/")) = Len(p) + 1
      /\ Append(p, "/")[Len(p) + 1] = "/" /\ \A i \in 1 .. Len(p) : Append(p, "/")[i] = p[i]
  BY <1>1, <1>2, AppendProperties
<1>. HIDE DEF p
<1>4. Matches(l, uri) <=>
        /\ Len(p) <= Len(uri) /\ \A i \in 1 .. Len(p) : p[i] = uri[i]
        /\ Len(uri) = Len(p) \/ uri[Len(p) + 1] = "/"
  BY <1>1, PrefixShape DEF Matches, p
<1>5. Reaches(l, uri) <=> IsPrefix(P, U)
  BY DEF Reaches, p
<1>6. P \in Seq(Seq(Char)) /\ U \in Seq(Seq(Char)) /\ Len(P) \in Nat /\ Len(U) \in Nat
  BY <1>1, SplitType DEF Parts, Components
<1>7. IsPrefix(P, U) <=> Len(P) <= Len(U) /\ \A i \in 1 .. Len(P) : P[i] = U[i]
  <2>. DEFINE T == Seq(Char)
  <2>. HIDE DEF P, U
  <2>1. P \in Seq(T) /\ U \in Seq(T)
    BY <1>6
  <2>. HIDE DEF T
  <2>. QED
    BY <2>1, PrefixShape
<1>8. ASSUME Reaches(l, uri) PROVE Matches(l, uri)
  <2>1. p = uri \/ \E w \in Seq(Char) : uri = Append(p, "/") \o w
    <3>1. IsPrefix(SplitAt(p, "/"), SplitAt(uri, "/"))
      BY <1>5, <1>8 DEF Components
    <3>2. EndsPiece(p, uri, "/", Char)
      BY <1>1, <1>2, <3>1, FirstPieces
    <3>. QED
      BY <3>2 DEF EndsPiece
  <2>2. CASE p = uri
    BY <1>1, <1>4, <2>2
  <2>3. CASE \E w \in Seq(Char) : uri = Append(p, "/") \o w
    <3>1. PICK w \in Seq(Char) : uri = Append(p, "/") \o w
      BY <2>3
    <3>. DEFINE a == Append(p, "/")
    <3>2. Len(w) \in Nat
      BY LenProperties
    <3>3. /\ Len(uri) = Len(a) + Len(w)
          /\ \A i \in 1 .. Len(a) + Len(w) : uri[i] = IF i <= Len(a) THEN a[i] ELSE w[i - Len(a)]
      BY <1>3, <3>1, ConcatProperties
    <3>4. Len(a) = Len(p) + 1 /\ a[Len(p) + 1] = "/" /\ \A i \in 1 .. Len(p) : a[i] = p[i]
      BY <1>3
    <3>. HIDE DEF a
    <3>5. \A i \in 1 .. Len(p) + 1 : uri[i] = a[i]
      BY <1>1, <3>2, <3>3, <3>4
    <3>. QED
      BY <1>1, <1>4, <3>2, <3>3, <3>4, <3>5
  <2>. QED
    BY <2>1, <2>2, <2>3
<1>9. ASSUME Matches(l, uri) PROVE Reaches(l, uri)
  <2>1. Len(p) <= Len(uri) /\ \A i \in 1 .. Len(p) : p[i] = uri[i]
    BY <1>4, <1>9
  <2>2. CASE Len(uri) = Len(p)
    <3>1. uri = p
      BY <1>1, <2>1, <2>2, SameSequence
    <3>. QED
      BY <1>5, <1>6, <1>7, <3>1
  <2>3. CASE Len(uri) # Len(p)
    <3>1. Len(p) + 1 <= Len(uri) /\ uri[Len(p) + 1] = "/"
      BY <1>1, <1>4, <1>9, <2>1, <2>3
    <3>. DEFINE a == Append(p, "/")
                w == SubSeq(uri, Len(p) + 2, Len(uri))
                aw == a \o w
    <3>2. /\ w \in Seq(Char) /\ Len(w) = Len(uri) - (Len(p) + 1)
          /\ \A i \in 1 .. Len(uri) - (Len(p) + 1) : w[i] = uri[i + Len(p) + 1]
      <4>. DEFINE m == Len(p) + 2
                  n == Len(uri)
      <4>1. m \in 1 .. n + 1 /\ n \in m - 1 .. n
        BY <1>1, <3>1
      <4>2. \A i \in m .. n : i \in 1 .. Len(uri)
        BY <4>1, <1>1
      <4>3. /\ SubSeq(uri, m, n) \in Seq(Char)
            /\ Len(SubSeq(uri, m, n)) = IF m <= n THEN n - m + 1 ELSE 0
            /\ \A i \in 1 .. n - m + 1 : SubSeq(uri, m, n)[i] = uri[m + i - 1]
        BY <1>1, <4>1, <4>2, SubSeqProperties
      <4>. QED
        BY <1>1, <3>1, <4>3
    <3>. HIDE DEF w
    <3>3. /\ aw \in Seq(Char) /\ Len(aw) = Len(a) + Len(w)
          /\ \A i \in 1 .. Len(a) + Len(w) : aw[i] = IF i <= Len(a) THEN a[i] ELSE w[i - Len(a)]
      <4>1. a \in Seq(Char)
        BY <1>3
      <4>. HIDE DEF a
      <4>. QED
        BY <3>2, <4>1, ConcatProperties
    <3>4. Len(a) = Len(p) + 1 /\ a[Len(p) + 1] = "/" /\ \A i \in 1 .. Len(p) : a[i] = p[i]
      BY <1>3
    <3>5. Components(aw) = P \o Components(w)
      BY <1>1, <1>2, <3>2, SplitOfTwo, SMTT(30) DEF Components
    <3>. HIDE DEF a, aw
    <3>6. ASSUME NEW i \in 1 .. Len(uri) PROVE uri[i] = aw[i]
      <4>1. aw[i] = IF i <= Len(a) THEN a[i] ELSE w[i - Len(a)]
        BY <1>1, <3>1, <3>2, <3>3, <3>4
      <4>2. CASE i <= Len(p)
        BY <1>1, <2>1, <3>4, <4>1, <4>2
      <4>3. CASE i = Len(p) + 1
        BY <1>1, <3>1, <3>4, <4>1, <4>3
      <4>4. CASE i > Len(p) + 1
        <5>. DEFINE j == i - (Len(p) + 1)
        <5>1. j \in 1 .. Len(uri) - (Len(p) + 1) /\ j + Len(p) + 1 = i /\ ~(i <= Len(a)) /\ i - Len(a) = j
          BY <1>1, <3>1, <3>4, <4>4
        <5>. HIDE DEF j
        <5>2. w[j] = uri[i]
          BY <3>2, <5>1
        <5>. QED
          BY <4>1, <5>1, <5>2
      <4>. QED
        BY <1>1, <4>2, <4>3, <4>4
    <3>7. Len(uri) = Len(aw)
      BY <1>1, <3>1, <3>2, <3>3, <3>4
    <3>8. uri = aw
      BY <3>3, <3>6, <3>7, SameSequence
    <3>. DEFINE W == Components(w)
    <3>9. U = P \o W
      BY <3>5, <3>8
    <3>10. W \in Seq(Seq(Char)) /\ Len(W) \in Nat
      BY <3>2, SplitType DEF Parts, Components
    <3>. HIDE DEF P, U, W
    <3>11. Len(U) = Len(P) + Len(W) /\ \A i \in 1 .. Len(P) + Len(W) : U[i] = IF i <= Len(P) THEN P[i] ELSE W[i - Len(P)]
      BY <1>6, <3>9, <3>10, ConcatProperties
    <3>12. Len(P) <= Len(U) /\ \A i \in 1 .. Len(P) : P[i] = U[i]
      BY <1>6, <3>10, <3>11
    <3>. QED
      BY <1>5, <1>7, <3>12 DEF P, U
  <2>. QED
    BY <2>2, <2>3
<1>. QED
  BY <1>8, <1>9

(* The handlers are registered at words of the file, / and /health. *)
LEMMA LocationsAreWords == StartInv /\ phase = "serving" => DOMAIN handlers \subseteq Word
<1>. SUFFICES ASSUME StartInv, phase = "serving" PROVE DOMAIN handlers \subseteq Word
  OBVIOUS
<1>1. \A i \in Declared : Config[i].tokens[2] \in Word
  BY ConfigIs DEF StartInv
<1>2. \A path \in DOMAIN handlers :
        (\E i \in Declared : Config[i].tokens[2] = path) \/ path = "/" \/ path = "/health"
  BY DEF StartInv, RegistersTheConfiguration
<1>3. "/" \in Word /\ "/health" \in Word
  BY StartupAssumption
<1>. QED
  BY <1>1, <1>2, <1>3

(* Of two locations that match a URI the shorter has no more components. *)
LEMMA ShorterMatch ==
  ASSUME NEW uri \in Seq(Char), NEW l \in Word, NEW m \in Word,
         Matches(l, uri), Matches(m, uri), Len(Spelling[l]) <= Len(Spelling[m])
  PROVE  /\ Len(Components(Spelling[l])) <= Len(Components(Spelling[m]))
         /\ Len(Spelling[l]) = Len(Spelling[m]) => l = m
<1>. DEFINE p == Spelling[l]
            q == Spelling[m]
<1>1. p \in Seq(Char) /\ q \in Seq(Char)
  BY StartupAssumption
<1>2. IsPrefix(p, uri) /\ IsPrefix(q, uri)
  BY DEF Matches
<1>3. /\ \A i \in 1 .. Len(p) : p[i] = uri[i]
      /\ \A i \in 1 .. Len(q) : q[i] = uri[i]
  BY <1>1, <1>2, PrefixShape
<1>4. Len(p) \in Nat /\ Len(q) \in Nat /\ Len(p) <= Len(q)
  BY <1>1, LenProperties
<1>. HIDE DEF p, q
<1>5. \A i \in 1 .. Len(p) : p[i] = q[i]
  BY <1>3, <1>4
<1>6. IsPrefix(p, q)
  BY <1>1, <1>4, <1>5, PrefixShape
<1>7. Len(Components(p)) <= Len(Components(q))
  BY <1>1, <1>6, SplitOfPrefix DEF Components
<1>8. ASSUME Len(p) = Len(q) PROVE l = m
  <2>1. p = q
    BY <1>1, <1>5, <1>8, SameSequence
  <2>. QED
    BY <2>1, StartupAssumption DEF p, q
<1>. QED
  BY <1>7, <1>8 DEF p, q

(***************************************************************************)
(* Whatever the file and the URI: the comparison of characters that the    *)
(* dispatcher does finds the registered location whose components are the  *)
(* longest list of first components of the URI, and / where there is none. *)
(***************************************************************************)
THEOREM RequestsAreRoutedByComponents == Spec => []RoutedByComponents
<1>1. ASSUME StartInv PROVE RoutedByComponents
  <2>. DEFINE candidates(uri) == {l \in DOMAIN handlers \ {"/"} : Reaches(l, uri)}
              best(uri) == FindLongestPrefixMatch(uri)
              Routed(uri) ==
                IF candidates(uri) = {}
                THEN LocationFor(uri) = IF "/" \in DOMAIN handlers THEN "/" ELSE NoLocation
                ELSE /\ LocationFor(uri) \in candidates(uri)
                     /\ \A l \in candidates(uri) :
                          Len(Components(Spelling[l])) <= Len(Components(Spelling[LocationFor(uri)]))
  <2>. SUFFICES ASSUME phase = "serving", NEW uri \in Uris PROVE Routed(uri)
    BY DEF RoutedByComponents
  <2>1. uri \in Seq(Char) /\ NoLocation \notin Word /\ "/" \in Word /\ Spelling["/"] = <<"/">>
    BY StartupAssumption
  <2>2. DOMAIN handlers \subseteq Word
    BY <1>1, LocationsAreWords
  <2>3. \A l \in DOMAIN handlers \ {"/"} : Reaches(l, uri) <=> Matches(l, uri)
    BY <2>1, <2>2, ReachesIs
  <2>4. CASE candidates(uri) = {}
    <3>1. \A l \in DOMAIN handlers : Matches(l, uri) => l = "/"
      BY <2>3, <2>4
    <3>2. CASE "/" \in DOMAIN handlers /\ Matches("/", uri)
      <4>1. best(uri) = "/"
        BY <2>1, <2>2, <3>1, <3>2, LongestIs
      <4>2. LocationFor(uri) = "/"
        BY <2>1, <4>1 DEF LocationFor
      <4>. QED
        BY <2>4, <3>2, <4>2
    <3>3. CASE ~("/" \in DOMAIN handlers /\ Matches("/", uri))
      <4>1. {l \in DOMAIN handlers : Matches(l, uri)} = {}
        BY <3>1, <3>3
      <4>2. best(uri) = NoLocation
        BY <4>1 DEF FindLongestPrefixMatch
      <4>3. LocationFor(uri) = IF "/" \in DOMAIN handlers THEN "/" ELSE NoLocation
        BY <4>2 DEF LocationFor
      <4>. QED
        BY <2>4, <4>3
    <3>. QED
      BY <3>2, <3>3
  <2>5. CASE candidates(uri) # {}
    <3>1. PICK c \in DOMAIN handlers \ {"/"} : Matches(c, uri)
      BY <2>3, <2>5
    <3>2. /\ best(uri) \in DOMAIN handlers /\ Matches(best(uri), uri)
          /\ \A m \in DOMAIN handlers : Matches(m, uri) => Len(Spelling[m]) <= Len(Spelling[best(uri)])
      BY <2>1, <2>2, <3>1, LongestIs
    <3>. DEFINE b == best(uri)
    <3>. HIDE DEF best
    <3>3. b \in Word /\ b # NoLocation /\ c \in Word
      BY <2>1, <2>2, <3>1, <3>2
    <3>4. LocationFor(uri) = b
      BY <3>3 DEF LocationFor, best
    <3>. HIDE DEF b
    <3>5. b # "/"
      <4>. SUFFICES ASSUME b = "/" PROVE FALSE
        OBVIOUS
      <4>1. Len(Spelling[b]) = 1
        BY <2>1
      <4>2. Spelling[c] \in Seq(Char) /\ Spelling[c] # <<>>
        BY <3>3, StartupAssumption
      <4>3. Len(Spelling[c]) \in Nat /\ Len(Spelling[c]) # 0
        BY <4>2, LenProperties, EmptySeq
      <4>4. Len(Spelling[c]) <= Len(Spelling[b]) /\ Matches(b, uri)
        BY <3>1, <3>2 DEF b
      <4>5. Len(Spelling[c]) = Len(Spelling[b])
        <5>. DEFINE n == Len(Spelling[c])
                    k == Len(Spelling[b])
        <5>1. n \in Nat /\ n # 0 /\ k = 1 /\ n <= k
          BY <4>1, <4>3, <4>4
        <5>. HIDE DEF n, k
        <5>2. n = k
          BY <5>1
        <5>. QED
          BY <5>2 DEF n, k
      <4>6. c = b
        BY <2>1, <3>1, <3>3, <4>4, <4>5, ShorterMatch
      <4>. QED
        BY <3>1, <4>6
    <3>6. b \in candidates(uri)
      BY <2>3, <3>2, <3>5 DEF b
    <3>7. ASSUME NEW l \in candidates(uri)
          PROVE  Len(Components(Spelling[l])) <= Len(Components(Spelling[b]))
      <4>1. l \in DOMAIN handlers /\ l \in Word /\ Matches(l, uri)
        BY <2>2, <2>3
      <4>2. Len(Spelling[l]) <= Len(Spelling[b]) /\ Matches(b, uri)
        BY <3>2, <4>1 DEF b
      <4>. QED
        BY <2>1, <3>3, <4>1, <4>2, ShorterMatch
    <3>. QED
      BY <2>5, <3>4, <3>6, <3>7
  <2>. QED
    BY <2>4, <2>5
<1>. QED
  BY <1>1, StartInit, StartStep, PTL DEF Spec

-----------------------------------------------------------------------------
(* Texts of words and blocks. *)

LEMMA WordsShape ==
  ASSUME NEW t, IsSeq(t)
  PROVE  /\ IsSeq(Words(t)) /\ Len(Words(t)) = Len(t) /\ DOMAIN Words(t) = 1 .. Len(t)
         /\ \A i \in 1 .. Len(t) : Words(t)[i] = WordItem(t[i])
<1>1. Len(t) \in Nat /\ DOMAIN t = 1 .. Len(t)
  BY SeqShape
<1>2. Words(t) = [i \in 1 .. Len(t) |-> WordItem(t[i])]
  BY <1>1 DEF Words
<1>. DEFINE w == Words(t)
<1>3. DOMAIN w = 1 .. Len(t) /\ w = [i \in 1 .. Len(t) |-> w[i]] /\ \A i \in 1 .. Len(t) : w[i] = WordItem(t[i])
  BY <1>2
<1>. HIDE DEF w
<1>4. IsSeq(w) /\ Len(w) = Len(t)
  BY <1>1, <1>3, MadeShape
<1>. QED
  BY <1>3, <1>4 DEF w

LEMMA WordsOfTwo ==
  ASSUME NEW s, IsSeq(s), NEW t, IsSeq(t)
  PROVE  Words(s \o t) = Words(s) \o Words(t)
<1>. DEFINE n == Len(s)
            m == Len(t)
            st == s \o t
            a == Words(s)
            b == Words(t)
            ab == a \o b
            w == Words(st)
<1>1. n \in Nat /\ m \in Nat
  BY SeqShape
<1>2. IsSeq(st) /\ Len(st) = n + m /\ \A i \in 1 .. n + m : st[i] = IF i <= n THEN s[i] ELSE t[i - n]
  BY ConcatShape
<1>3. /\ IsSeq(a) /\ Len(a) = n /\ (\A i \in 1 .. n : a[i] = WordItem(s[i]))
      /\ IsSeq(b) /\ Len(b) = m /\ (\A i \in 1 .. m : b[i] = WordItem(t[i]))
  BY WordsShape
<1>. HIDE DEF a, b, st
<1>4. IsSeq(w) /\ Len(w) = n + m /\ \A i \in 1 .. n + m : w[i] = WordItem(st[i])
  BY <1>2, WordsShape
<1>5. IsSeq(ab) /\ Len(ab) = n + m /\ \A i \in 1 .. n + m : ab[i] = IF i <= n THEN a[i] ELSE b[i - n]
  <2>1. /\ IsSeq(ab) /\ Len(ab) = Len(a) + Len(b)
        /\ \A i \in 1 .. Len(a) + Len(b) : ab[i] = IF i <= Len(a) THEN a[i] ELSE b[i - Len(a)]
    BY <1>3, ConcatShape
  <2>2. Len(a) = n /\ Len(b) = m
    BY <1>3
  <2>. HIDE DEF ab, n, m
  <2>. QED
    BY <2>1, <2>2
<1>. HIDE DEF n, m, w, ab
<1>6. ASSUME NEW i \in 1 .. n + m PROVE w[i] = ab[i]
  <2>1. CASE i <= n
    <3>1. i \in 1 .. n
      BY <1>1, <2>1
    <3>. QED
      BY <1>2, <1>3, <1>4, <1>5, <2>1, <3>1
  <2>2. CASE ~(i <= n)
    <3>1. i - n \in 1 .. m
      BY <1>1, <2>2
    <3>. QED
      BY <1>2, <1>3, <1>4, <1>5, <2>2, <3>1
  <2>. QED
    BY <2>1, <2>2
<1>7. w = ab
  BY <1>4, <1>5, <1>6, SameShape
<1>. QED
  BY <1>7 DEF w, ab, st, a, b

IsText(text) == IsSeq(text) /\ \A i \in DOMAIN text : IsSeq(ItemText(text[i]))
ItemTexts(text) == [i \in DOMAIN text |-> ItemText(text[i])]

LEMMA ItemTextsShape ==
  ASSUME NEW x, IsText(x)
  PROVE  /\ IsRows(ItemTexts(x)) /\ Len(ItemTexts(x)) = Len(x) /\ Len(x) \in Nat
         /\ \A i \in 1 .. Len(x) : ItemTexts(x)[i] = ItemText(x[i])
<1>1. Len(x) \in Nat /\ DOMAIN x = 1 .. Len(x)
  BY SeqShape DEF IsText
<1>. DEFINE f == ItemTexts(x)
<1>2. /\ DOMAIN f = 1 .. Len(x) /\ f = [i \in 1 .. Len(x) |-> f[i]]
      /\ \A i \in 1 .. Len(x) : f[i] = ItemText(x[i])
  BY <1>1 DEF ItemTexts
<1>. HIDE DEF f
<1>3. IsSeq(f) /\ Len(f) = Len(x)
  BY <1>1, <1>2, MadeShape
<1>4. \A i \in DOMAIN f : IsSeq(f[i])
  BY <1>1, <1>2 DEF IsText
<1>. QED
  BY <1>1, <1>2, <1>3, <1>4 DEF f, IsRows

LEMMA RoundOfTwo ==
  ASSUME NEW x, IsText(x), NEW y, IsText(y)
  PROVE  IsText(x \o y) /\ Round(x \o y) = Round(x) \o Round(y) /\ IsSeq(Round(x))
<1>. DEFINE n == Len(x)
            m == Len(y)
            xy == x \o y
            a == ItemTexts(x)
            b == ItemTexts(y)
            ab == a \o b
            f == ItemTexts(xy)
<1>1. /\ IsRows(a) /\ Len(a) = n /\ n \in Nat /\ (\A i \in 1 .. n : a[i] = ItemText(x[i]))
      /\ IsRows(b) /\ Len(b) = m /\ m \in Nat /\ (\A i \in 1 .. m : b[i] = ItemText(y[i]))
  BY ItemTextsShape
<1>2. IsSeq(xy) /\ Len(xy) = n + m /\ \A i \in 1 .. n + m : xy[i] = IF i <= n THEN x[i] ELSE y[i - n]
  BY ConcatShape DEF IsText
<1>3. /\ \A i \in 1 .. n : IsSeq(ItemText(x[i]))
      /\ \A i \in 1 .. m : IsSeq(ItemText(y[i]))
  BY SeqShape DEF IsText
<1>. HIDE DEF a, b, xy
<1>4. IsSeq(ab) /\ Len(ab) = n + m /\ \A i \in 1 .. n + m : ab[i] = IF i <= n THEN a[i] ELSE b[i - n]
  <2>1. /\ IsSeq(ab) /\ Len(ab) = Len(a) + Len(b)
        /\ \A i \in 1 .. Len(a) + Len(b) : ab[i] = IF i <= Len(a) THEN a[i] ELSE b[i - Len(a)]
    BY <1>1, ConcatShape DEF IsRows
  <2>2. Len(a) = n /\ Len(b) = m
    BY <1>1
  <2>. HIDE DEF ab, n, m
  <2>. QED
    BY <2>1, <2>2
<1>. HIDE DEF n, m, ab
<1>5. ASSUME NEW i \in 1 .. n + m PROVE ab[i] = ItemText(xy[i]) /\ IsSeq(ItemText(xy[i]))
  <2>1. CASE i <= n
    <3>1. i \in 1 .. n
      BY <1>1, <2>1
    <3>. QED
      BY <1>1, <1>2, <1>3, <1>4, <2>1, <3>1
  <2>2. CASE ~(i <= n)
    <3>1. i - n \in 1 .. m
      BY <1>1, <2>2
    <3>. QED
      BY <1>1, <1>2, <1>3, <1>4, <2>2, <3>1
  <2>. QED
    BY <2>1, <2>2
<1>6. IsText(xy)
  <2>1. DOMAIN xy = 1 .. n + m
    BY <1>2, SeqShape
  <2>. QED
    BY <1>2, <1>5, <2>1 DEF IsText
<1>7. IsRows(f) /\ Len(f) = n + m /\ \A i \in 1 .. n + m : f[i] = ItemText(xy[i])
  BY <1>2, <1>6, ItemTextsShape
<1>. HIDE DEF f
<1>8. f = ab
  BY <1>4, <1>5, <1>7, SameShape DEF IsRows
<1>9. FlattenSeq(a \o b) = FlattenSeq(a) \o FlattenSeq(b) /\ IsSeq(FlattenSeq(a))
  BY <1>1, FlattenOfRows
<1>. QED
  BY <1>6, <1>8, <1>9 DEF f, ab, a, b, xy, Round, ItemTexts

LEMMA RoundOfWords ==
  ASSUME NEW t, IsSeq(t)
  PROVE  IsText(Words(t)) /\ Round(Words(t)) = Words(t)
<1>. DEFINE w == Words(t)
<1>1. IsSeq(w) /\ DOMAIN w = 1 .. Len(t) /\ \A i \in 1 .. Len(t) : w[i] = WordItem(t[i])
  BY WordsShape
<1>. HIDE DEF w
<1>2. \A i \in DOMAIN w : ItemText(w[i]) = <<w[i]>>
  BY <1>1 DEF ItemText, WordItem
<1>3. IsText(w)
  BY <1>1, <1>2, TupleShape DEF IsText
<1>4. ItemTexts(w) = [i \in DOMAIN w |-> <<w[i]>>]
  BY <1>2 DEF ItemTexts
<1>5. Round(w) = w
  BY <1>1, <1>4, FlattenOfSingles DEF Round, ItemTexts
<1>. QED
  BY <1>3, <1>5 DEF w

(* A text of one block becomes the text of the block. *)
LEMMA RoundOfBlock ==
  ASSUME NEW st, NEW b, st.child_block = {b}, IsSeq(BlockText(b))
  PROVE  IsText(<<BlockItem(st)>>) /\ Round(<<BlockItem(st)>>) = BlockText(b)
<1>. DEFINE item == BlockItem(st)
            x == <<item>>
<1>1. item.child_block = {b} /\ ChildBlock(item) = b
  BY DEF BlockItem, ChildBlock
<1>. HIDE DEF item
<1>2. ItemText(item) = BlockText(b)
  BY <1>1 DEF ItemText
<1>3. IsSeq(x) /\ DOMAIN x = {1} /\ x[1] = item
  BY TupleShape
<1>4. IsText(x)
  BY <1>2, <1>3 DEF IsText
<1>5. ItemTexts(x) = <<BlockText(b)>>
  BY <1>2 DEF ItemTexts
<1>6. Round(x) = BlockText(b)
  BY <1>5, FlattenOfOne DEF Round, ItemTexts
<1>. QED
  BY <1>4, <1>6 DEF item

LEMMA TuplesPutTogether ==
  /\ \A a, b, c : <<a>> \o (<<b>> \o <<c>>) = <<a, b, c>>
  /\ \A w : Words(<<w>>) = <<WordItem(w)>>
<1>1. ASSUME NEW a, NEW b, NEW c PROVE <<a>> \o (<<b>> \o <<c>>) = <<a, b, c>>
  <2>. DEFINE s == <<b>> \o <<c>>
              t == <<a>> \o s
              u == <<a, b, c>>
  <2>1. IsSeq(<<a>>) /\ IsSeq(<<b>>) /\ IsSeq(<<c>>) /\ IsSeq(u)
    BY TupleShape
  <2>2. IsSeq(s) /\ Len(s) = 2 /\ s[1] = b /\ s[2] = c
    <3>. DEFINE x == <<b>>
                y == <<c>>
    <3>1. Len(x) = 1 /\ Len(y) = 1 /\ x[1] = b /\ y[1] = c /\ IsSeq(x) /\ IsSeq(y)
      BY <2>1
    <3>. HIDE DEF x, y
    <3>2. /\ IsSeq(x \o y) /\ Len(x \o y) = Len(x) + Len(y)
          /\ \A i \in 1 .. Len(x) + Len(y) : (x \o y)[i] = IF i <= Len(x) THEN x[i] ELSE y[i - Len(x)]
      BY <3>1, ConcatShape
    <3>. QED
      BY <3>1, <3>2 DEF x, y
  <2>. HIDE DEF s
  <2>3. IsSeq(t) /\ Len(t) = 3 /\ t[1] = a /\ t[2] = s[1] /\ t[3] = s[2]
    <3>. DEFINE x == <<a>>
    <3>1. Len(x) = 1 /\ x[1] = a /\ IsSeq(x)
      BY <2>1
    <3>. HIDE DEF x
    <3>2. /\ IsSeq(x \o s) /\ Len(x \o s) = Len(x) + Len(s)
          /\ \A i \in 1 .. Len(x) + Len(s) : (x \o s)[i] = IF i <= Len(x) THEN x[i] ELSE s[i - Len(x)]
      BY <2>2, <3>1, ConcatShape
    <3>. QED
      BY <2>2, <3>1, <3>2 DEF x
  <2>4. Len(u) = 3 /\ u[1] = a /\ u[2] = b /\ u[3] = c
    OBVIOUS
  <2>. HIDE DEF t, u
  <2>5. \A i \in 1 .. 3 : t[i] = u[i]
    BY <2>2, <2>3, <2>4
  <2>6. t = u
    BY <2>1, <2>3, <2>4, <2>5, SameShape
  <2>. QED
    BY <2>6 DEF t, u, s
<1>2. \A w : Words(<<w>>) = <<WordItem(w)>>
  BY DEF Words
<1>. QED
  BY <1>1, <1>2

(* The text of a statement, by the way it ends. *)
LeafText(st) == Words(Append(st.tokens, ";"))
NodeText(st) == Words(Append(st.tokens, "{")) \o (<<BlockItem(st)>> \o Words(<<"}">>))

LEMMA StatementTextIs ==
  ASSUME NEW st, IsStatement(st)
  PROVE  /\ IsSeq(st.tokens) /\ IsSeq(StatementText(st))
         /\ st.child_block = {} => StatementText(st) = LeafText(st)
         /\ st.child_block # {} => StatementText(st) = NodeText(st)
<1>1. IsSeq(st.tokens)
  BY SeqIs DEF IsStatement
<1>. DEFINE tokens == st.tokens
            w == Words(tokens)
            rest3 == <<WordItem("{"), BlockItem(st), WordItem("}")>>
<1>2. IsSeq(w)
  BY <1>1, WordsShape
<1>3. \A l : Words(Append(tokens, l)) = w \o <<WordItem(l)>>
  <2>1. ASSUME NEW l PROVE Words(Append(tokens, l)) = w \o <<WordItem(l)>>
    <3>1. Append(tokens, l) = tokens \o <<l>> /\ IsSeq(<<l>>)
      BY <1>1, AppendIsConcatShape, TupleShape
    <3>2. Words(tokens \o <<l>>) = w \o Words(<<l>>)
      BY <1>1, <3>1, WordsOfTwo
    <3>. QED
      BY <3>1, <3>2, TuplesPutTogether
  <2>. QED
    BY <2>1
<1>4. CASE st.child_block = {}
  <2>1. StatementText(st) = w \o <<WordItem(";")>>
    BY <1>4, TuplesPutTogether DEF StatementText
  <2>2. IsSeq(w \o <<WordItem(";")>>)
    BY <1>2, ConcatShape, TupleShape
  <2>. QED
    BY <1>1, <1>3, <1>4, <2>1, <2>2 DEF LeafText
<1>5. CASE st.child_block # {}
  <2>. DEFINE x == <<WordItem("{")>>
              y == <<BlockItem(st)>> \o Words(<<"}">>)
  <2>1. StatementText(st) = w \o rest3
    BY <1>5 DEF StatementText
  <2>2. rest3 = x \o y
    BY TuplesPutTogether
  <2>3. IsSeq(x) /\ IsSeq(rest3) /\ IsSeq(<<BlockItem(st)>>) /\ IsSeq(Words(<<"}">>))
    BY TupleShape, TuplesPutTogether
  <2>4. IsSeq(y) /\ IsSeq(w \o rest3)
    BY <1>2, <2>3, ConcatShape
  <2>6. Words(Append(tokens, "{")) = w \o x
    BY <1>3
  <2>. HIDE DEF w, x, y, rest3
  <2>5. (w \o x) \o y = w \o (x \o y)
    <3>1. IsSeq(w) /\ IsSeq(x) /\ IsSeq(y)
      BY <1>2, <2>3, <2>4
    <3>. QED
      BY <3>1, ConcatOfThree
  <2>7. StatementText(st) = Words(Append(tokens, "{")) \o y
    BY <2>1, <2>2, <2>5, <2>6
  <2>. QED
    BY <1>1, <1>5, <2>1, <2>4, <2>7 DEF NodeText, y
<1>. QED
  BY <1>4, <1>5

StatementTexts(b) == [i \in DOMAIN b |-> StatementText(b[i])]

LEMMA BlockTextGrows ==
  ASSUME NEW b, IsBlock(b), NEW st, IsStatement(st)
  PROVE  BlockText(Append(b, st)) = BlockText(b) \o StatementText(st) /\ IsSeq(BlockText(b))
<1>. DEFINE n == Len(b)
            q == Append(b, st)
            f == StatementTexts(b)
            s == StatementText(st)
            g == StatementTexts(q)
            h == Append(f, s)
<1>1. n \in Nat /\ DOMAIN b = 1 .. n
  BY SeqShape DEF IsBlock
<1>2. IsSeq(q) /\ Len(q) = n + 1 /\ q[n + 1] = st /\ (\A i \in 1 .. n : q[i] = b[i])
  BY AppendShape DEF IsBlock
<1>3. IsSeq(s) /\ \A i \in 1 .. n : IsSeq(StatementText(b[i]))
  BY <1>1, StatementTextIs DEF IsBlock
<1>4. /\ DOMAIN f = 1 .. n /\ f = [i \in 1 .. n |-> f[i]]
      /\ \A i \in 1 .. n : f[i] = StatementText(b[i])
  BY <1>1 DEF StatementTexts
<1>. HIDE DEF q, f
<1>5. DOMAIN q = 1 .. n + 1
  BY <1>2, SeqShape
<1>6. /\ DOMAIN g = 1 .. n + 1 /\ g = [i \in 1 .. n + 1 |-> g[i]]
      /\ \A i \in 1 .. n + 1 : g[i] = StatementText(q[i])
  BY <1>5 DEF StatementTexts
<1>. HIDE DEF n, g
<1>7. IsSeq(f) /\ Len(f) = n /\ IsSeq(g) /\ Len(g) = n + 1
  <2>1. n + 1 \in Nat
    BY <1>1
  <2>. QED
    BY <1>1, <1>4, <1>6, <2>1, MadeShape
<1>8. IsSeq(h) /\ Len(h) = Len(f) + 1 /\ (\A i \in 1 .. Len(f) : h[i] = f[i]) /\ h[Len(f) + 1] = s
  BY <1>7, AppendShape
<1>9. h = f \o <<s>>
  BY <1>7, AppendIsConcatShape
<1>. HIDE DEF h
<1>10. g = h
  <2>1. \A i \in 1 .. n + 1 : i \in 1 .. n \/ i = n + 1
    BY <1>1
  <2>2. \A i \in 1 .. n + 1 : g[i] = h[i]
    BY <1>1, <1>2, <1>4, <1>6, <1>7, <1>8, <2>1 DEF s
  <2>. QED
    BY <1>7, <1>8, <2>2, SameShape
<1>. HIDE DEF s
<1>11. IsRows(f) /\ IsRows(<<s>>)
  <2>1. IsSeq(<<s>>) /\ DOMAIN <<s>> = {1} /\ <<s>>[1] = s
    BY TupleShape
  <2>. QED
    BY <1>3, <1>4, <1>7, <2>1 DEF IsRows
<1>12. FlattenSeq(f \o <<s>>) = FlattenSeq(f) \o FlattenSeq(<<s>>) /\ IsSeq(FlattenSeq(f))
  BY <1>11, FlattenOfRows
<1>13. FlattenSeq(<<s>>) = s
  BY <1>3, FlattenOfOne
<1>14. FlattenSeq(g) = FlattenSeq(f) \o s
  BY <1>9, <1>10, <1>12, <1>13
<1>. QED
  BY <1>12, <1>14 DEF g, f, q, s, BlockText, StatementTexts

LEMMA NoBlockText == BlockText(<<>>) = <<>>
<1>1. StatementTexts(<<>>) = <<>>
  BY DEF StatementTexts
<1>. QED
  BY <1>1, FlattenOfEmpty DEF BlockText, StatementTexts

-----------------------------------------------------------------------------
(* Some rounds lead from a text to another. *)

Rounds(g, n) ==
  /\ \A i \in 0 .. n : IsText(g[i])
  /\ \A i \in 1 .. n : g[i] = Round(g[i - 1])

Becomes(x, n, y) == \E g : Rounds(g, n) /\ g[0] = x /\ g[n] = y

LEMMA BecomesIs ==
  ASSUME NEW n \in Nat, NEW x, NEW y, Becomes(x, n, y)
  PROVE  IsText(x) /\ IsText(y)
BY DEF Becomes, Rounds

LEMMA TwoBecome ==
  ASSUME NEW n \in Nat, NEW x, NEW y, Becomes(x, n, y), NEW v, NEW w, Becomes(v, n, w)
  PROVE  Becomes(x \o v, n, y \o w)
<1>1. PICK g : Rounds(g, n) /\ g[0] = x /\ g[n] = y
  BY DEF Becomes
<1>2. PICK h : Rounds(h, n) /\ h[0] = v /\ h[n] = w
  BY DEF Becomes
<1>. DEFINE k == [i \in 0 .. n |-> g[i] \o h[i]]
<1>3. \A i \in 0 .. n : k[i] = g[i] \o h[i]
  OBVIOUS
<1>4. 0 \in 0 .. n /\ n \in 0 .. n /\ \A i \in 1 .. n : i \in 0 .. n /\ i - 1 \in 0 .. n
  OBVIOUS
<1>5. k[0] = x \o v /\ k[n] = y \o w
  BY <1>1, <1>2, <1>3, <1>4
<1>. HIDE DEF k
<1>6. \A i \in 0 .. n : IsText(k[i]) /\ Round(k[i]) = Round(g[i]) \o Round(h[i])
  <2>1. ASSUME NEW i \in 0 .. n PROVE IsText(k[i]) /\ Round(k[i]) = Round(g[i]) \o Round(h[i])
    <3>1. IsText(g[i]) /\ IsText(h[i]) /\ k[i] = g[i] \o h[i]
      BY <1>1, <1>2, <1>3 DEF Rounds
    <3>2. IsText(g[i] \o h[i]) /\ Round(g[i] \o h[i]) = Round(g[i]) \o Round(h[i])
      BY <3>1, RoundOfTwo
    <3>. QED
      BY <3>1, <3>2
  <2>. QED
    BY <2>1
<1>7. \A i \in 1 .. n : k[i] = Round(k[i - 1])
  BY <1>1, <1>2, <1>3, <1>4, <1>6 DEF Rounds
<1>. QED
  BY <1>5, <1>6, <1>7 DEF Becomes, Rounds

LEMMA WordsStay ==
  ASSUME NEW n \in Nat, NEW t, IsSeq(t)
  PROVE  Becomes(Words(t), n, Words(t))
<1>. DEFINE w == Words(t)
            g == [i \in 0 .. n |-> w]
<1>1. IsText(w) /\ Round(w) = w
  BY RoundOfWords
<1>. HIDE DEF w
<1>2. 0 \in 0 .. n /\ n \in 0 .. n /\ \A i \in 1 .. n : i \in 0 .. n /\ i - 1 \in 0 .. n
  OBVIOUS
<1>3. \A i \in 0 .. n : g[i] = w
  OBVIOUS
<1>. HIDE DEF g
<1>4. Rounds(g, n)
  BY <1>1, <1>2, <1>3 DEF Rounds
<1>. QED
  BY <1>2, <1>3, <1>4 DEF Becomes, w

LEMMA StillBecomes ==
  ASSUME NEW n \in Nat, NEW x, NEW t, IsSeq(t), Becomes(x, n, Words(t)), NEW m \in Nat, n <= m
  PROVE  Becomes(x, m, Words(t))
<1>. DEFINE w == Words(t)
<1>1. IsText(w) /\ Round(w) = w
  BY RoundOfWords
<1>2. PICK g : Rounds(g, n) /\ g[0] = x /\ g[n] = w
  BY DEF Becomes
<1>. HIDE DEF w
<1>. DEFINE h == [i \in 0 .. m |-> IF i <= n THEN g[i] ELSE w]
<1>3. \A i \in 0 .. m : h[i] = IF i <= n THEN g[i] ELSE w
  OBVIOUS
<1>. HIDE DEF h
<1>4. h[0] = x /\ h[m] = w
  <2>1. 0 \in 0 .. m /\ m \in 0 .. m /\ 0 <= n /\ (m <= n => m = n)
    OBVIOUS
  <2>. QED
    BY <1>2, <1>3, <2>1
<1>5. \A i \in 0 .. m : IsText(h[i])
  <2>1. \A i \in 0 .. m : i <= n => i \in 0 .. n
    OBVIOUS
  <2>. QED
    BY <1>1, <1>2, <1>3, <2>1 DEF Rounds
<1>6. ASSUME NEW i \in 1 .. m PROVE h[i] = Round(h[i - 1])
  <2>1. i \in 0 .. m /\ i - 1 \in 0 .. m
    OBVIOUS
  <2>2. CASE i <= n
    <3>1. i \in 1 .. n /\ i - 1 <= n
      BY <2>2
    <3>. QED
      BY <1>2, <1>3, <2>1, <2>2, <3>1 DEF Rounds
  <2>3. CASE i = n + 1
    <3>1. i - 1 = n /\ n <= n /\ ~(i <= n)
      BY <2>3
    <3>2. h[i] = w /\ h[i - 1] = g[n]
      BY <1>3, <2>1, <3>1
    <3>. QED
      BY <1>1, <1>2, <3>2
  <2>4. CASE i > n + 1
    <3>1. ~(i <= n) /\ ~(i - 1 <= n)
      BY <2>4
    <3>2. h[i] = w /\ h[i - 1] = w
      BY <1>3, <2>1, <3>1
    <3>. QED
      BY <1>1, <3>2
  <2>. QED
    BY <2>2, <2>3, <2>4
<1>. QED
  BY <1>4, <1>5, <1>6 DEF Becomes, Rounds, w

LEMMA BecomesAfterRound ==
  ASSUME NEW n \in Nat, NEW x, IsText(x), NEW y, Becomes(Round(x), n, y)
  PROVE  Becomes(x, n + 1, y)
<1>1. PICK g : Rounds(g, n) /\ g[0] = Round(x) /\ g[n] = y
  BY DEF Becomes
<1>. DEFINE h == [i \in 0 .. n + 1 |-> IF i = 0 THEN x ELSE g[i - 1]]
<1>2. \A i \in 0 .. n + 1 : h[i] = IF i = 0 THEN x ELSE g[i - 1]
  OBVIOUS
<1>. HIDE DEF h
<1>3. h[0] = x /\ h[n + 1] = y
  <2>1. 0 \in 0 .. n + 1 /\ n + 1 \in 0 .. n + 1 /\ n + 1 # 0 /\ (n + 1) - 1 = n
    OBVIOUS
  <2>. QED
    BY <1>1, <1>2, <2>1
<1>4. \A i \in 0 .. n + 1 : IsText(h[i])
  <2>1. \A i \in 0 .. n + 1 : i # 0 => i - 1 \in 0 .. n
    OBVIOUS
  <2>. QED
    BY <1>1, <1>2, <2>1 DEF Rounds
<1>5. ASSUME NEW i \in 1 .. n + 1 PROVE h[i] = Round(h[i - 1])
  <2>1. i \in 0 .. n + 1 /\ i - 1 \in 0 .. n + 1 /\ i # 0
    OBVIOUS
  <2>2. CASE i = 1
    <3>1. i - 1 = 0
      BY <2>2
    <3>. QED
      BY <1>1, <1>2, <2>1, <3>1
  <2>3. CASE i # 1
    <3>1. i - 1 \in 1 .. n /\ i - 1 # 0
      BY <2>3
    <3>. QED
      BY <1>1, <1>2, <2>1, <3>1 DEF Rounds
  <2>. QED
    BY <2>2, <2>3
<1>. QED
  BY <1>3, <1>4, <1>5 DEF Becomes, Rounds

-----------------------------------------------------------------------------
(* The open blocks and the text that they were read from. *)

(* What is complete of a block, and the words of its last statement. *)
HalfRead(b, n, done) ==
  /\ IsSeq(done) /\ Becomes(BlockText(Front(b)), n, Words(done))
  /\ b # <<>> /\ Last(b).child_block = {}

TopReads(b, type, n, text) ==
  IF type = "word" THEN \E done : HalfRead(b, n, done) /\ text = done \o Last(b).tokens
  ELSE IsSeq(text) /\ Becomes(BlockText(b), n, Words(text))

LEMMA LastStatement ==
  ASSUME NEW b, IsBlock(b), b # <<>>
  PROVE  /\ IsBlock(Front(b)) /\ IsStatement(Last(b)) /\ IsSeq(Last(b).tokens)
         /\ b = Append(Front(b), Last(b)) /\ Len(b) \in 1 .. Len(b) /\ Last(b) = b[Len(b)]
<1>1. IsSeq(b) /\ Len(b) \in Nat /\ Len(b) > 0 /\ DOMAIN b = 1 .. Len(b)
  BY SeqShape DEF IsBlock
<1>2. IsSeq(Front(b)) /\ b = Append(Front(b), Last(b))
  BY <1>1, FrontShape
<1>3. Len(b) - 1 \in 0 .. Len(b) /\ Len(b) \in 1 .. Len(b)
  BY <1>1
<1>4. Len(Front(b)) = Len(b) - 1 /\ \A i \in 1 .. Len(b) - 1 : Front(b)[i] = b[i]
  BY <1>1, <1>3, FirstShape DEF Front
<1>5. DOMAIN Front(b) = 1 .. Len(b) - 1
  BY <1>2, <1>4, SeqShape
<1>6. \A i \in 1 .. Len(b) - 1 : IsStatement(Front(b)[i])
  BY <1>1, <1>4 DEF IsBlock
<1>7. IsStatement(Last(b)) /\ Last(b) = b[Len(b)]
  BY <1>1, <1>3 DEF IsBlock, Last
<1>8. IsSeq(Last(b).tokens)
  BY <1>7, StatementTextIs
<1>. QED
  BY <1>2, <1>3, <1>5, <1>6, <1>7, <1>8 DEF IsBlock

(* The last statement changes. *)
LEMMA FrontOfExcept ==
  ASSUME NEW b, IsBlock(b), b # <<>>, NEW st
  PROVE  [b EXCEPT ![Len(b)] = st] = Append(Front(b), st)
<1>. DEFINE q == [b EXCEPT ![Len(b)] = st]
            f == Front(b)
            r == Append(f, st)
            n == Len(b)
<1>1. IsSeq(b) /\ IsSeq(f) /\ b = Append(f, Last(b)) /\ n \in 1 .. n
  BY LastStatement DEF IsBlock
<1>2. IsSeq(q) /\ Len(q) = n /\ \A i \in 1 .. n : q[i] = IF i = n THEN st ELSE b[i]
  <2>1. IsSeq(b) /\ Len(b) \in 1 .. Len(b)
    BY <1>1
  <2>2. IsSeq(q) /\ Len(q) = Len(b) /\ \A i \in 1 .. Len(b) : q[i] = IF i = n THEN st ELSE b[i]
    BY <2>1, ExceptShape
  <2>. QED
    BY <2>2
<1>. HIDE DEF f
<1>3. IsSeq(r) /\ Len(r) = Len(f) + 1 /\ (\A i \in 1 .. Len(f) : r[i] = f[i]) /\ r[Len(f) + 1] = st
  BY <1>1, AppendShape
<1>4. Len(b) = Len(f) + 1 /\ \A i \in 1 .. Len(f) : b[i] = f[i]
  <2>. DEFINE p == Append(f, Last(b))
  <2>1. Len(p) = Len(f) + 1 /\ \A i \in 1 .. Len(f) : p[i] = f[i]
    BY <1>1, AppendShape
  <2>. HIDE DEF p
  <2>2. b = p
    BY <1>1 DEF p
  <2>. QED
    BY <2>1, <2>2
<1>5. Len(f) \in Nat
  BY <1>1, SeqShape
<1>. HIDE DEF q, r, n
<1>6. ASSUME NEW i \in 1 .. n PROVE q[i] = r[i]
  <2>1. n = Len(f) + 1
    BY <1>4 DEF n
  <2>2. CASE i = n
    BY <1>2, <1>3, <2>1, <2>2
  <2>3. CASE i # n
    <3>1. i \in 1 .. Len(f)
      BY <1>5, <2>1, <2>3
    <3>. QED
      BY <1>2, <1>3, <1>4, <2>3, <3>1
  <2>. QED
    BY <2>2, <2>3
<1>7. Len(r) = n
  BY <1>3, <1>4 DEF n
<1>8. q = r
  BY <1>2, <1>3, <1>6, <1>7, SameShape
<1>. QED
  BY <1>8 DEF q, r, f

(* The first word of a statement. *)
LEMMA FirstWordRead ==
  ASSUME NEW b, IsBlock(b), NEW type, type # "word", NEW n \in Nat, NEW text, TopReads(b, type, n, text), NEW w
  PROVE  TopReads(Append(b, Statement(<<w>>, {})), "word", n + 1, Append(text, w))
<1>. DEFINE st == Statement(<<w>>, {})
            q == Append(b, st)
<1>1. IsSeq(text) /\ Becomes(BlockText(b), n, Words(text)) /\ IsSeq(b)
  BY DEF TopReads, IsBlock
<1>2. n + 1 \in Nat /\ n <= n + 1
  OBVIOUS
<1>3. Becomes(BlockText(b), n + 1, Words(text))
  BY <1>1, <1>2, StillBecomes
<1>4. st.tokens = <<w>> /\ st.child_block = {}
  BY DEF Statement
<1>. HIDE DEF st
<1>5. Front(q) = b /\ Last(q) = st /\ q # <<>>
  BY <1>1, FrontOfAppend
<1>6. Append(text, w) = text \o <<w>>
  BY <1>1, AppendIsConcatShape
<1>. HIDE DEF q
<1>7. HalfRead(q, n + 1, text)
  BY <1>1, <1>3, <1>4, <1>5 DEF HalfRead
<1>8. TopReads(q, "word", n + 1, Append(text, w))
  BY <1>4, <1>5, <1>6, <1>7 DEF TopReads
<1>. QED
  BY <1>8 DEF q, st

(* The last statement of a block gets another word. *)
LEMMA NextWordRead ==
  ASSUME NEW b, IsBlock(b), NEW n \in Nat, NEW text, TopReads(b, "word", n, text), NEW w
  PROVE  /\ TopReads([b EXCEPT ![Len(b)].tokens = Append(@, w)], "word", n + 1, Append(text, w))
         /\ IsSeq(text)
<1>1. PICK done : HalfRead(b, n, done) /\ text = done \o Last(b).tokens
  BY DEF TopReads
<1>2. b # <<>> /\ IsSeq(done) /\ Becomes(BlockText(Front(b)), n, Words(done)) /\ Last(b).child_block = {}
  BY <1>1 DEF HalfRead
<1>3. /\ IsBlock(Front(b)) /\ IsStatement(Last(b)) /\ IsSeq(Last(b).tokens)
      /\ Last(b) = b[Len(b)] /\ Len(b) \in 1 .. Len(b)
  BY <1>2, LastStatement
<1>. DEFINE st == [b[Len(b)] EXCEPT !.tokens = Append(@, w)]
            tokens == Last(b).tokens
            q == Append(Front(b), st)
<1>4. [b EXCEPT ![Len(b)].tokens = Append(@, w)] = [b EXCEPT ![Len(b)] = st]
  <2>1. Len(b) \in DOMAIN b
    BY <1>3, SeqShape DEF IsBlock
  <2>. QED
    BY <2>1
<1>5. st = Statement(Append(tokens, w), Last(b).child_block)
  BY <1>3, ChangedStatement
<1>6. st.tokens = Append(tokens, w) /\ st.child_block = {}
  BY <1>2, <1>5 DEF Statement
<1>. HIDE DEF st
<1>7. [b EXCEPT ![Len(b)] = st] = q
  BY <1>2, FrontOfExcept
<1>8. Front(q) = Front(b) /\ Last(q) = st /\ q # <<>>
  BY <1>3, FrontOfAppend DEF IsBlock
<1>9. n + 1 \in Nat /\ n <= n + 1
  OBVIOUS
<1>10. Becomes(BlockText(Front(b)), n + 1, Words(done))
  BY <1>2, <1>9, StillBecomes
<1>. HIDE DEF q
<1>11. HalfRead(q, n + 1, done)
  BY <1>2, <1>6, <1>8, <1>10 DEF HalfRead
<1>12. Append(text, w) = done \o Append(tokens, w) /\ IsSeq(text)
  <2>1. IsSeq(tokens) /\ IsSeq(done)
    BY <1>2, <1>3
  <2>2. text = done \o tokens
    BY <1>1
  <2>. HIDE DEF tokens
  <2>3. done \o Append(tokens, w) = Append(done \o tokens, w) /\ IsSeq(done \o tokens)
    BY <2>1, AppendBehind
  <2>. QED
    BY <2>2, <2>3
<1>13. TopReads(q, "word", n + 1, Append(text, w))
  BY <1>6, <1>8, <1>11, <1>12 DEF TopReads
<1>. QED
  BY <1>4, <1>7, <1>12, <1>13

(* A statement ends. *)
LEMMA StatementRead ==
  ASSUME NEW b, IsBlock(b), NEW n \in Nat, NEW text, TopReads(b, "word", n, text)
  PROVE  TopReads(b, ";", n + 1, Append(text, ";")) /\ IsSeq(text)
<1>1. PICK done : HalfRead(b, n, done) /\ text = done \o Last(b).tokens
  BY DEF TopReads
<1>2. b # <<>> /\ IsSeq(done) /\ Becomes(BlockText(Front(b)), n, Words(done)) /\ Last(b).child_block = {}
  BY <1>1 DEF HalfRead
<1>3. /\ IsBlock(Front(b)) /\ IsStatement(Last(b)) /\ IsSeq(Last(b).tokens)
      /\ b = Append(Front(b), Last(b))
  BY <1>2, LastStatement
<1>. DEFINE st == Last(b)
            f == Front(b)
            end == Append(st.tokens, ";")
<1>4. IsSeq(end)
  BY <1>3, AppendShape
<1>5. BlockText(b) = BlockText(f) \o Words(end)
  <2>1. BlockText(Append(f, st)) = BlockText(f) \o StatementText(st)
    BY <1>3, BlockTextGrows
  <2>2. StatementText(st) = Words(end)
    BY <1>2, <1>3, StatementTextIs DEF LeafText
  <2>. QED
    BY <1>3, <2>1, <2>2
<1>6. Append(text, ";") = done \o end /\ IsSeq(text) /\ IsSeq(Append(text, ";"))
  <2>1. Append(text, ";") = done \o end /\ IsSeq(text)
    <3>. DEFINE tokens == Last(b).tokens
    <3>1. IsSeq(tokens) /\ IsSeq(done)
      BY <1>2, <1>3
    <3>2. text = done \o tokens /\ end = Append(tokens, ";")
      BY <1>1
    <3>. HIDE DEF tokens, end
    <3>3. \A e : done \o Append(tokens, e) = Append(done \o tokens, e) /\ IsSeq(done \o tokens)
      BY <3>1, AppendBehind
    <3>. QED
      BY <3>2, <3>3
  <2>. QED
    BY <2>1, AppendShape
<1>. HIDE DEF st, f, end
<1>7. n + 1 \in Nat /\ n <= n + 1
  OBVIOUS
<1>8. Becomes(BlockText(f), n + 1, Words(done)) /\ Becomes(Words(end), n + 1, Words(end))
  BY <1>2, <1>4, <1>7, StillBecomes, WordsStay DEF f
<1>9. Becomes(BlockText(f) \o Words(end), n + 1, Words(done) \o Words(end))
  BY <1>7, <1>8, TwoBecome
<1>10. Words(done) \o Words(end) = Words(done \o end)
  BY <1>2, <1>4, WordsOfTwo
<1>11. Becomes(BlockText(b), n + 1, Words(Append(text, ";")))
  BY <1>5, <1>6, <1>9, <1>10
<1>. QED
  BY <1>6, <1>11 DEF TopReads

Opening(b) == Append(Last(b).tokens, "{")

(* The text before a block, from the text before the block below it. *)
Entered(new, old, done, below) == new = old \o (done \o Opening(below))

(* The text before each of the first blocks of a stack. *)
Opened(s, m, n, before) ==
  /\ before[1] = <<>>
  /\ \A j \in 1 .. m + 1 : IsSeq(before[j])
  /\ \A j \in 1 .. m : \E done :
       HalfRead(s[j], n, done) /\ Entered(before[j + 1], before[j], done, s[j])

TreeOf(s, type, n, text) ==
  \E before, top :
    /\ Opened(s, Len(s) - 1, n, before)
    /\ TopReads(Last(s), type, n, top) /\ IsSeq(top)
    /\ text = before[Len(s)] \o top

LEMMA HalfReadOn ==
  ASSUME NEW b, NEW n \in Nat, NEW done, HalfRead(b, n, done)
  PROVE  HalfRead(b, n + 1, done)
<1>1. n + 1 \in Nat /\ n <= n + 1
  OBVIOUS
<1>. QED
  BY <1>1, StillBecomes DEF HalfRead

LEMMA OpenedOn ==
  ASSUME NEW s, NEW r, NEW m \in Nat, NEW n \in Nat, NEW before, Opened(s, m, n, before),
         \A j \in 1 .. m : r[j] = s[j]
  PROVE  Opened(r, m, n + 1, before)
BY HalfReadOn DEF Opened

LEMMA TopChanges ==
  ASSUME NEW s, IsSeq(s), s # <<>>, NEW r, IsSeq(r), Len(r) = Len(s), \A j \in 1 .. Len(s) - 1 : r[j] = s[j],
         NEW type, NEW new, NEW n \in Nat, NEW text, NEW e, TreeOf(s, type, n, text),
         \A top : TopReads(Last(s), type, n, top) => TopReads(Last(r), new, n + 1, Append(top, e))
  PROVE  TreeOf(r, new, n + 1, Append(text, e))
<1>1. Len(s) \in Nat /\ Len(s) > 0
  BY SeqShape
<1>2. Len(s) - 1 \in Nat /\ Len(s) \in 1 .. (Len(s) - 1) + 1
  BY <1>1
<1>3. PICK before, top :
        /\ Opened(s, Len(s) - 1, n, before)
        /\ TopReads(Last(s), type, n, top) /\ IsSeq(top)
        /\ text = before[Len(s)] \o top
  BY DEF TreeOf
<1>4. Opened(r, Len(s) - 1, n + 1, before)
  BY <1>2, <1>3, OpenedOn
<1>5. IsSeq(before[Len(s)])
  BY <1>2, <1>3 DEF Opened
<1>. DEFINE p == before[Len(s)]
<1>6. p \o Append(top, e) = Append(p \o top, e) /\ IsSeq(Append(top, e))
  <2>1. IsSeq(p) /\ IsSeq(top)
    BY <1>3, <1>5
  <2>. HIDE DEF p
  <2>. QED
    BY <2>1, AppendBehind
<1>7. Append(text, e) = p \o Append(top, e)
  BY <1>3, <1>6
<1>8. TopReads(Last(r), new, n + 1, Append(top, e))
  BY <1>3
<1>. QED
  BY <1>4, <1>6, <1>7, <1>8 DEF TreeOf

LEMMA CommentRead ==
  ASSUME NEW s, IsSeq(s), s # <<>>, NEW type, NEW n \in Nat, NEW text, TreeOf(s, type, n, text)
  PROVE  TreeOf(s, type, n + 1, text)
<1>1. Len(s) \in Nat /\ Len(s) > 0
  BY SeqShape
<1>2. Len(s) - 1 \in Nat
  BY <1>1
<1>3. PICK before, top :
        /\ Opened(s, Len(s) - 1, n, before)
        /\ TopReads(Last(s), type, n, top) /\ IsSeq(top)
        /\ text = before[Len(s)] \o top
  BY DEF TreeOf
<1>4. Opened(s, Len(s) - 1, n + 1, before)
  BY <1>2, <1>3, OpenedOn
<1>5. TopReads(Last(s), type, n + 1, top)
  <2>1. CASE type = "word"
    BY <1>3, <2>1, HalfReadOn DEF TopReads
  <2>2. CASE type # "word"
    <3>1. n + 1 \in Nat /\ n <= n + 1
      OBVIOUS
    <3>. QED
      BY <1>3, <2>2, <3>1, StillBecomes DEF TopReads
  <2>. QED
    BY <2>1, <2>2
<1>. QED
  BY <1>3, <1>4, <1>5 DEF TreeOf

LEMMA EmptyBlockReads ==
  ASSUME NEW type, type # "word", NEW n \in Nat
  PROVE  TopReads(<<>>, type, n, <<>>) /\ IsSeq(<<>>)
<1>1. IsSeq(<<>>)
  BY TupleShape
<1>2. Words(<<>>) = <<>>
  BY DEF Words
<1>3. Becomes(<<>>, n, <<>>)
  BY <1>1, <1>2, WordsStay
<1>. QED
  BY <1>1, <1>2, <1>3, NoBlockText DEF TopReads

LEMMA OpenedMore ==
  ASSUME NEW s, NEW m \in Nat, NEW n \in Nat, NEW before, Opened(s, m, n, before),
         NEW done, HalfRead(s[m + 1], n, done), NEW p, Entered(p, before[m + 1], done, s[m + 1]), IsSeq(p)
  PROVE  \E more : Opened(s, m + 1, n, more) /\ more[m + 2] = p
<1>. DEFINE more == [j \in 1 .. m + 2 |-> IF j = m + 2 THEN p ELSE before[j]]
<1>1. \A j \in 1 .. m + 2 : more[j] = IF j = m + 2 THEN p ELSE before[j]
  OBVIOUS
<1>. HIDE DEF more
<1>2. m + 2 \in 1 .. m + 2 /\ (m + 1) + 1 = m + 2 /\ 1 \in 1 .. m + 2 /\ 1 # m + 2
  OBVIOUS
<1>3. more[1] = <<>> /\ more[m + 2] = p
  BY <1>1, <1>2 DEF Opened
<1>4. \A j \in 1 .. m + 2 : IsSeq(more[j])
  <2>1. \A j \in 1 .. m + 2 : j # m + 2 => j \in 1 .. m + 1
    OBVIOUS
  <2>. QED
    BY <1>1, <2>1 DEF Opened
<1>5. ASSUME NEW j \in 1 .. m + 1
      PROVE  \E d : HalfRead(s[j], n, d) /\ Entered(more[j + 1], more[j], d, s[j])
  <2>1. j \in 1 .. m + 2 /\ j + 1 \in 1 .. m + 2 /\ j # m + 2
    OBVIOUS
  <2>2. CASE j = m + 1
    <3>1. j + 1 = m + 2
      BY <2>2
    <3>2. more[j + 1] = p /\ more[j] = before[m + 1]
      BY <1>1, <2>1, <2>2, <3>1
    <3>. QED
      BY <2>2, <3>2
  <2>3. CASE j # m + 1
    <3>1. j \in 1 .. m /\ j + 1 # m + 2
      BY <2>3
    <3>2. more[j + 1] = before[j + 1] /\ more[j] = before[j]
      BY <1>1, <2>1, <3>1
    <3>. QED
      BY <3>1, <3>2 DEF Opened
  <2>. QED
    BY <2>2, <2>3
<1>. QED
  BY <1>2, <1>3, <1>4, <1>5 DEF Opened

(* A block starts. *)
LEMMA BlockStarts ==
  ASSUME NEW s, IsSeq(s), s # <<>>, IsBlock(Last(s)), NEW n \in Nat, NEW text, TreeOf(s, "word", n, text),
         NEW type, type # "word"
  PROVE  TreeOf(Append(s, <<>>), type, n + 1, Append(text, "{"))
<1>. DEFINE m == Len(s) - 1
            q == Append(s, <<>>)
            b == Last(s)
<1>1. Len(s) \in Nat /\ Len(s) > 0
  BY SeqShape
<1>2. m \in Nat /\ m + 1 = Len(s) /\ m + 2 = Len(s) + 1
  BY <1>1
<1>3. PICK before, top :
        /\ Opened(s, m, n, before)
        /\ TopReads(b, "word", n, top) /\ IsSeq(top)
        /\ text = before[m + 1] \o top
  BY <1>2 DEF TreeOf
<1>4. PICK done : HalfRead(b, n, done) /\ top = done \o Last(b).tokens
  BY <1>3 DEF TopReads
<1>5. b = s[m + 1]
  BY <1>2 DEF Last
<1>6. IsSeq(done) /\ b # <<>>
  BY <1>4 DEF HalfRead
<1>7. IsSeq(Last(b).tokens) /\ IsSeq(before[m + 1])
  <2>1. m + 1 \in 1 .. m + 1
    BY <1>2
  <2>2. IsSeq(before[m + 1])
    BY <1>3, <2>1 DEF Opened
  <2>. QED
    BY <1>6, <2>2, LastStatement
<1>. DEFINE p == before[m + 1]
            o == Opening(b)
            new == p \o (done \o o)
<1>. HIDE DEF m, b
<1>8. new = Append(text, "{") /\ IsSeq(new)
  <2>. DEFINE t == Last(b).tokens
  <2>1. IsSeq(t) /\ IsSeq(p) /\ IsSeq(done)
    BY <1>6, <1>7
  <2>2. top = done \o t /\ text = p \o top
    BY <1>3, <1>4
  <2>3. o = Append(t, "{")
    BY DEF Opening
  <2>. HIDE DEF t, p, o
  <2>4. \A e : done \o Append(t, e) = Append(done \o t, e) /\ IsSeq(done \o t)
    BY <2>1, AppendBehind
  <2>5. \A e : p \o Append(top, e) = Append(p \o top, e) /\ IsSeq(p \o top)
    BY <1>3, <2>1, AppendBehind, SMTT(30)
  <2>6. new = Append(text, "{")
    BY <2>2, <2>3, <2>4, <2>5
  <2>7. IsSeq(text)
    BY <2>2, <2>5
  <2>8. \A e : IsSeq(Append(text, e))
    BY <2>7, AppendShape
  <2>. QED
    BY <2>6, <2>8
<1>16. IsSeq(new)
  BY <1>8
<1>. HIDE DEF new
<1>9. PICK more : Opened(s, m + 1, n, more) /\ more[m + 2] = new
  <2>1. HalfRead(s[m + 1], n, done) /\ Entered(new, before[m + 1], done, s[m + 1])
    BY <1>4, <1>5 DEF new, Entered
  <2>2. Opened(s, m, n, before) /\ m \in Nat
    BY <1>2, <1>3
  <2>3. \E more : Opened(s, m + 1, n, more) /\ more[m + 2] = new
    BY <1>16, <2>1, <2>2, OpenedMore, SMTT(30)
  <2>. QED
    BY <2>3
<1>10. /\ IsSeq(q) /\ Len(q) = Len(s) + 1 /\ q[Len(s) + 1] = <<>>
       /\ \A i \in 1 .. Len(s) : q[i] = s[i]
  BY AppendShape
<1>. HIDE DEF q
<1>11. Opened(q, m + 1, n + 1, more)
  <2>1. m + 1 \in Nat /\ \A j \in 1 .. m + 1 : q[j] = s[j]
    BY <1>2, <1>10
  <2>. QED
    BY <1>9, <2>1, OpenedOn
<1>12. Last(q) = <<>> /\ Len(q) = m + 2 /\ Len(q) - 1 = m + 1
  BY <1>2, <1>10 DEF Last
<1>13. TopReads(<<>>, type, n + 1, <<>>) /\ IsSeq(<<>>) /\ new \o <<>> = new
  <2>1. n + 1 \in Nat
    OBVIOUS
  <2>. QED
    BY <1>16, <2>1, EmptyBlockReads, ConcatOfNone
<1>14. Append(text, "{") = more[Len(q)] \o <<>>
  BY <1>8, <1>9, <1>12, <1>13
<1>15. TreeOf(q, type, n + 1, Append(text, "{"))
  <2>1. Opened(q, Len(q) - 1, n + 1, more)
    BY <1>11, <1>12
  <2>2. TopReads(Last(q), type, n + 1, <<>>) /\ IsSeq(<<>>)
    BY <1>12, <1>13
  <2>. QED
    BY <1>14, <2>1, <2>2 DEF TreeOf
<1>. QED
  BY <1>15 DEF q

(* A block becomes the child of a statement. *)
LEMMA ChildRead ==
  ASSUME NEW b, IsBlock(b), NEW n \in Nat, NEW text, IsSeq(text), Becomes(BlockText(b), n, Words(text)),
         NEW below, IsBlock(below), NEW done, HalfRead(below, n, done)
  PROVE  LET st == Statement(Last(below).tokens, {b})
         IN Becomes(BlockText(Append(Front(below), st)), n + 1,
                    Words(done \o (Opening(below) \o Append(text, "}"))))
<1>. DEFINE st == Statement(Last(below).tokens, {b})
            f == Front(below)
            o == Opening(below)
            item == <<BlockItem(st)>>
            close == <<"}">>
            rest2 == item \o Words(close)
            end == o \o (text \o close)
<1>1. IsBlock(f) /\ IsStatement(Last(below)) /\ IsSeq(done) /\ Becomes(BlockText(f), n, Words(done))
  BY LastStatement DEF HalfRead
<1>2. st.tokens = Last(below).tokens /\ st.child_block = {b} /\ IsStatement(st)
  BY <1>1 DEF IsStatement, Statement, IsBlock
<1>3. IsSeq(o) /\ IsSeq(close) /\ IsSeq(text \o close)
  <2>1. \A e : IsSeq(Append(st.tokens, e))
    BY <1>2, StatementTextIs, AppendShape
  <2>2. IsSeq(close)
    BY TupleShape
  <2>3. IsSeq(text \o close)
    BY <2>2, ConcatShape
  <2>. QED
    BY <1>2, <2>1, <2>2, <2>3 DEF Opening
<1>4. StatementText(st) = Words(o) \o rest2
  BY <1>2, StatementTextIs DEF NodeText, Opening
<1>5. BlockText(Append(f, st)) = BlockText(f) \o StatementText(st)
  BY <1>1, <1>2, BlockTextGrows
<1>6. n + 1 \in Nat /\ n <= n + 1
  OBVIOUS
<1>7. Becomes(BlockText(f), n + 1, Words(done))
  BY <1>1, <1>6, StillBecomes
<1>8. Becomes(item, n + 1, Words(text))
  <2>1. IsText(BlockText(b)) /\ IsSeq(BlockText(b))
    BY BecomesIs DEF IsText
  <2>2. IsText(item) /\ Round(item) = BlockText(b)
    BY <1>2, <2>1, RoundOfBlock
  <2>. HIDE DEF item
  <2>. QED
    BY <2>2, BecomesAfterRound
<1>9. Becomes(Words(o), n + 1, Words(o)) /\ Becomes(Words(close), n + 1, Words(close))
  BY <1>3, <1>6, WordsStay
<1>. HIDE DEF st, f, o, item, close
<1>10. Becomes(rest2, n + 1, Words(text) \o Words(close))
  BY <1>6, <1>8, <1>9, TwoBecome
<1>11. Words(text) \o Words(close) = Words(text \o close)
  BY <1>3, WordsOfTwo
<1>. HIDE DEF rest2
<1>12. Becomes(Words(o) \o rest2, n + 1, Words(o) \o Words(text \o close))
  BY <1>6, <1>9, <1>10, <1>11, TwoBecome
<1>13. Words(o) \o Words(text \o close) = Words(end) /\ IsSeq(end)
  BY <1>3, WordsOfTwo, ConcatShape
<1>. HIDE DEF end
<1>14. Becomes(StatementText(st), n + 1, Words(end))
  BY <1>4, <1>12, <1>13
<1>15. Becomes(BlockText(f) \o StatementText(st), n + 1, Words(done) \o Words(end))
  BY <1>6, <1>7, <1>14, TwoBecome
<1>16. Words(done) \o Words(end) = Words(done \o end)
  BY <1>1, <1>13, WordsOfTwo
<1>17. Becomes(BlockText(Append(f, st)), n + 1, Words(done \o end))
  BY <1>5, <1>15, <1>16
<1>18. end = o \o Append(text, "}")
  <2>1. \A e : Append(text, e) = text \o <<e>>
    BY AppendIsConcatShape
  <2>. QED
    BY <2>1 DEF end, close
<1>. QED
  BY <1>17, <1>18 DEF st, f, o

(* A block ends. *)
LEMMA BlockEnds ==
  ASSUME NEW s, IsSeq(s), \A j \in DOMAIN s : IsBlock(s[j]), Len(s) > 1,
         NEW type, type # "word", NEW n \in Nat, NEW text, TreeOf(s, type, n, text), NEW new, new # "word",
         NEW below, below = s[Len(s) - 1]
  PROVE  TreeOf(Append(SubSeq(s, 1, Len(s) - 2), [below EXCEPT ![Len(below)].child_block = {Last(s)}]),
                new, n + 1, Append(text, "}"))
<1>. DEFINE m == Len(s) - 2
            b == Last(s)
            q == [below EXCEPT ![Len(below)].child_block = {b}]
            head == SubSeq(s, 1, m)
            r == Append(head, q)
<1>1. Len(s) \in Nat /\ DOMAIN s = 1 .. Len(s)
  BY SeqShape
<1>2. m \in Nat /\ m + 1 = Len(s) - 1 /\ m + 2 = Len(s) /\ m \in 0 .. Len(s) /\ m + 1 \in 1 .. Len(s)
  BY <1>1
<1>3. IsBlock(b) /\ IsBlock(below) /\ below = s[m + 1] /\ s # <<>>
  <2>1. Len(s) \in DOMAIN s /\ m + 1 \in DOMAIN s
    BY <1>1, <1>2
  <2>. QED
    BY <1>1, <1>2, <2>1, SeqShape DEF Last
<1>4. PICK before, top :
        /\ Opened(s, m + 1, n, before)
        /\ TopReads(b, type, n, top) /\ IsSeq(top)
        /\ text = before[m + 2] \o top
  BY <1>2 DEF TreeOf
<1>5. Becomes(BlockText(b), n, Words(top))
  BY <1>4 DEF TopReads
<1>6. /\ before[1] = <<>>
      /\ \A j \in 1 .. m + 2 : IsSeq(before[j])
      /\ \A j \in 1 .. m + 1 : \E done :
           HalfRead(s[j], n, done) /\ Entered(before[j + 1], before[j], done, s[j])
  <2>1. m + 1 + 1 = m + 2
    BY <1>2
  <2>. QED
    BY <1>4, <2>1 DEF Opened
<1>7. PICK done : HalfRead(below, n, done) /\ Entered(before[m + 2], before[m + 1], done, below)
  <2>1. m + 1 \in 1 .. m + 1 /\ m + 1 + 1 = m + 2
    BY <1>2
  <2>. QED
    BY <1>3, <1>6, <2>1
<1>. DEFINE st == Statement(Last(below).tokens, {b})
            t == Append(top, "}")
            o == Opening(below)
            new2 == done \o (o \o t)
            p == before[m + 1]
<1>8. q = Append(Front(below), st)
  <2>1. below # <<>>
    BY <1>7 DEF HalfRead
  <2>2. IsStatement(Last(below)) /\ Last(below) = below[Len(below)] /\ Len(below) \in DOMAIN below
    BY <1>3, <2>1, LastStatement, SeqShape DEF IsBlock
  <2>. DEFINE st2 == [below[Len(below)] EXCEPT !.child_block = {b}]
  <2>3. q = [below EXCEPT ![Len(below)] = st2]
    BY <2>2
  <2>4. st2 = st
    <3>1. IsStatement(below[Len(below)]) /\ st = Statement(below[Len(below)].tokens, {b})
      BY <2>2
    <3>. HIDE DEF st
    <3>2. st2 = Statement(below[Len(below)].tokens, {b})
      BY <3>1, ChangedStatement
    <3>. QED
      BY <3>1, <3>2
  <2>5. [below EXCEPT ![Len(below)] = st] = Append(Front(below), st)
    BY <1>3, <2>1, FrontOfExcept
  <2>. HIDE DEF st, st2
  <2>. QED
    BY <2>3, <2>4, <2>5
<1>9. Becomes(BlockText(Append(Front(below), st)), n + 1, Words(new2))
  BY <1>3, <1>4, <1>5, <1>7, ChildRead
<1>10. IsSeq(p) /\ IsSeq(o) /\ IsSeq(t) /\ IsSeq(done)
  <2>1. m + 1 \in 1 .. m + 2
    BY <1>2
  <2>2. \A e : IsSeq(Append(top, e))
    BY <1>4, AppendShape
  <2>3. IsSeq(done) /\ below # <<>>
    BY <1>7 DEF HalfRead
  <2>4. IsSeq(Last(below).tokens)
    BY <1>3, <2>3, LastStatement
  <2>5. \A e : IsSeq(Append(Last(below).tokens, e))
    BY <2>4, AppendShape
  <2>. QED
    BY <1>6, <2>1, <2>2, <2>3, <2>5 DEF Opening
<1>11. Append(text, "}") = p \o new2 /\ IsSeq(new2)
  <2>. DEFINE d == done \o o
              x == before[m + 2]
  <2>1. IsSeq(d) /\ IsSeq(o \o t) /\ x = p \o d
    BY <1>7, <1>10, ConcatShape DEF Entered
  <2>2. \A e : x \o Append(top, e) = Append(x \o top, e)
    <3>1. IsSeq(x) /\ IsSeq(top)
      <4>1. m + 2 \in 1 .. m + 2
        BY <1>2
      <4>. QED
        BY <1>4, <1>6, <4>1
    <3>. HIDE DEF x
    <3>. QED
      BY <3>1, AppendBehind
  <2>3. Append(text, "}") = x \o t
    BY <1>4, <2>2
  <2>. HIDE DEF t, o, p, x
  <2>6. IsSeq(o \o t) /\ IsSeq(d)
    BY <2>1
  <2>7. x = p \o d
    BY <2>1
  <2>4. d \o t = done \o (o \o t)
    <3>1. IsSeq(done) /\ IsSeq(o) /\ IsSeq(t)
      BY <1>10
    <3>. QED
      BY <3>1, ConcatOfThree
  <2>8. IsSeq(done \o (o \o t))
    BY <1>10, <2>6, ConcatShape
  <2>. HIDE DEF d
  <2>5. (p \o d) \o t = p \o (d \o t)
    <3>1. IsSeq(p) /\ IsSeq(d) /\ IsSeq(t)
      BY <1>10, <2>6
    <3>. QED
      BY <3>1, ConcatOfThree, SMTT(30)
  <2>. QED
    BY <2>3, <2>4, <2>5, <2>7, <2>8
<1>. HIDE DEF new2, q, p, t, o, st
<1>12. TopReads(q, new, n + 1, new2)
  BY <1>8, <1>9, <1>11 DEF TopReads
<1>13. IsSeq(head) /\ Len(head) = m /\ \A i \in 1 .. m : head[i] = s[i]
  BY <1>2, FirstShape
<1>. HIDE DEF head
<1>14. /\ IsSeq(r) /\ Len(r) = Len(head) + 1 /\ r[Len(head) + 1] = q
       /\ \A i \in 1 .. Len(head) : r[i] = head[i]
  BY <1>13, AppendShape
<1>. HIDE DEF m, r
<1>15. Opened(s, m, n, before)
  <2>1. \A j \in 1 .. m + 1 : j \in 1 .. m + 2
    BY <1>2
  <2>2. \A j \in 1 .. m : j \in 1 .. m + 1
    BY <1>2
  <2>. QED
    BY <1>6, <2>1, <2>2 DEF Opened
<1>16. Opened(r, m, n + 1, before)
  <2>1. \A i \in 1 .. m : r[i] = s[i]
    BY <1>13, <1>14
  <2>. QED
    BY <1>2, <1>15, <2>1, OpenedOn
<1>17. Len(r) - 1 = m /\ Last(r) = q /\ before[Len(r)] = p
  <2>1. Len(r) = m + 1
    BY <1>13, <1>14
  <2>2. r[Len(r)] = q
    BY <1>13, <1>14, <2>1
  <2>3. Len(r) - 1 = m
    BY <1>2, <2>1
  <2>. QED
    BY <2>1, <2>2, <2>3 DEF Last, p
<1>18. TreeOf(r, new, n + 1, Append(text, "}"))
  BY <1>11, <1>12, <1>16, <1>17 DEF TreeOf
<1>. QED
  BY <1>18 DEF r, head, q, m

-----------------------------------------------------------------------------
(* What is written of the file. *)

KeptLexeme == [i \in 1 .. Len(file) |-> IF i \in Kept THEN <<file[i]>> ELSE <<>>]

LEMMA WrittenGrows ==
  ASSUME file \in Seq(Lexeme)
  PROVE  /\ WrittenUpTo(0) = <<>>
         /\ \A n \in 0 .. Len(file) : IsSeq(WrittenUpTo(n))
         /\ \A n \in 0 .. Len(file) - 1 :
              WrittenUpTo(n + 1) = IF n + 1 \in Kept THEN Append(WrittenUpTo(n), file[n + 1]) ELSE WrittenUpTo(n)
<1>. DEFINE of(i) == IF i \in Kept THEN <<file[i]>> ELSE <<>>
            rows(n) == [i \in 1 .. n |-> of(i)]
<1>1. Len(file) \in Nat /\ \A i \in 1 .. Len(file) : file[i] \in Lexeme
  BY FileIs
<1>2. \A i \in 1 .. Len(file) : of(i) \in Seq(Lexeme)
  <2>1. <<>> \in Seq(Lexeme)
    BY EmptySeq
  <2>2. \A e \in Lexeme : <<e>> \in Seq(Lexeme)
    OBVIOUS
  <2>. QED
    BY <1>1, <2>1, <2>2
<1>3. \A n : WrittenUpTo(n) = FlattenSeq(rows(n))
  BY DEF WrittenUpTo
<1>. DEFINE Row == Seq(Lexeme)
<1>4. ASSUME NEW n \in 0 .. Len(file)
      PROVE  rows(n) \in Seq(Row) /\ Len(rows(n)) = n /\ \A i \in 1 .. n : rows(n)[i] = of(i)
  <2>1. \A i \in 1 .. n : of(i) \in Row
    BY <1>1, <1>2
  <2>2. n \in Nat
    BY <1>1
  <2>. DEFINE q == rows(n)
  <2>. HIDE DEF of, Row
  <2>3. q \in [1 .. n -> Row] /\ \A i \in 1 .. n : q[i] = of(i)
    BY <2>1
  <2>. HIDE DEF q
  <2>4. q \in Seq(Row) /\ Len(q) = n
    BY <2>2, <2>3, SeqDef, LenProperties
  <2>. QED
    BY <2>3, <2>4 DEF q
<1>5. rows(0) = <<>>
  OBVIOUS
<1>6. ASSUME NEW n \in 0 .. Len(file) - 1
      PROVE  FlattenSeq(rows(n + 1)) = FlattenSeq(rows(n)) \o of(n + 1)
  <2>. DEFINE q == rows(n)
              r == rows(n + 1)
              e == of(n + 1)
              a == Append(q, e)
  <2>1. n \in 0 .. Len(file) /\ n + 1 \in 0 .. Len(file) /\ n + 1 \in 1 .. Len(file) /\ n \in Nat
    BY <1>1
  <2>2. /\ q \in Seq(Row) /\ Len(q) = n /\ \A i \in 1 .. n : q[i] = of(i)
        /\ r \in Seq(Row) /\ Len(r) = n + 1 /\ \A i \in 1 .. n + 1 : r[i] = of(i)
    BY <1>4, <2>1
  <2>3. e \in Row
    BY <1>2, <2>1
  <2>. HIDE DEF rows, of, Row
  <2>4. a \in Seq(Row) /\ Len(a) = n + 1 /\ (\A i \in 1 .. n : a[i] = q[i]) /\ a[n + 1] = e
    <3>. HIDE DEF q, e
    <3>. QED
      BY <2>2, <2>3, AppendProperties
  <2>5. \A i \in 1 .. n + 1 : r[i] = a[i]
    <3>1. \A i \in 1 .. n + 1 : i \in 1 .. n \/ i = n + 1
      BY <2>1
    <3>2. r[n + 1] = e
      BY <2>1, <2>2
    <3>. HIDE DEF q, e, r, a
    <3>. QED
      BY <2>2, <2>4, <3>1, <3>2
  <2>6. r = a
    <3>. HIDE DEF q, e, r, a
    <3>. QED
      BY <2>2, <2>4, <2>5, SameSequence
  <2>7. FlattenSeq(a) = FlattenSeq(q) \o e
    <3>. HIDE DEF q, e
    <3>. QED
      BY <2>2, <2>3, FlattenGrows DEF Row
  <2>. HIDE DEF a, q, e, r
  <2>8. FlattenSeq(r) = FlattenSeq(q) \o e
    BY <2>6, <2>7
  <2>. QED
    BY <2>8 DEF r, q, e
<1>7. \A n \in 0 .. Len(file) : IsSeq(WrittenUpTo(n))
  <2>1. \A n \in 0 .. Len(file) : FlattenSeq(rows(n)) \in Seq(Lexeme)
    BY <1>4, FlattenType
  <2>. QED
    BY <1>3, <2>1, SeqIs
<1>8. WrittenUpTo(0) = <<>>
  BY <1>3, <1>5, FlattenOfEmpty
<1>9. ASSUME NEW n \in 0 .. Len(file) - 1
      PROVE  WrittenUpTo(n + 1) = IF n + 1 \in Kept THEN Append(WrittenUpTo(n), file[n + 1]) ELSE WrittenUpTo(n)
  <2>. DEFINE w == WrittenUpTo(n)
  <2>1. WrittenUpTo(n + 1) = w \o of(n + 1)
    BY <1>3, <1>6
  <2>2. IsSeq(w)
    <3>1. n \in 0 .. Len(file)
      BY <1>1
    <3>. QED
      BY <1>7, <3>1
  <2>. HIDE DEF w
  <2>3. w \o <<>> = w /\ w \o <<file[n + 1]>> = Append(w, file[n + 1])
    BY <2>2, ConcatOfNone, AppendIsConcatShape
  <2>4. CASE n + 1 \in Kept
    BY <2>1, <2>3, <2>4 DEF w
  <2>5. CASE n + 1 \notin Kept
    BY <2>1, <2>3, <2>5 DEF w
  <2>. QED
    BY <2>4, <2>5
<1>. QED
  BY <1>7, <1>8, <1>9

-----------------------------------------------------------------------------
(* The tree that has been read so far is what has been read of the file. *)

TreeInv(n) == TreeOf(open, last, n, WrittenUpTo(n))

LEMMA TreeStep ==
  ASSUME ParserInv, NEW n, Reading(n), TreeInv(n),
         SkipComment \/ AddWord \/ EndStatement \/ StartBlock \/ EndBlock
  PROVE  TreeInv(n + 1)'
<1>. DEFINE text == WrittenUpTo(n)
<1>1. /\ file \in Seq(Lexeme) /\ cut \in BOOLEAN /\ n \in Nat /\ n \in 0 .. Len(file)
      /\ StackInv /\ open # <<>> /\ IsSeq(open) /\ \A j \in DOMAIN open : IsBlock(open[j])
      /\ TreeOf(open, last, n, text)
  BY RestIs DEF ParserInv, ParserTypeOK, StackInv, Reading, TreeInv
<1>2. Len(open) \in Nat /\ Len(open) > 0 /\ IsBlock(Last(open)) /\ DOMAIN open = 1 .. Len(open)
  BY <1>1, TopIs
<1>3. Token # "eof" /\ (Token # Comment => n + 1 \in Kept) /\ (Token = Comment => n + 1 \notin Kept)
      /\ n < Len(file) /\ Token = file[n + 1] /\ UNCHANGED <<file, cut>>
  <2>1. Token # "eof" /\ \E type : Read(type)
    BY KindsOfToken DEF SkipComment, AddWord, EndStatement, StartBlock, EndBlock, Comment
  <2>2. n < Len(file) /\ Token = file[n + 1] /\ UNCHANGED <<file, cut>>
    BY <1>1, <2>1, ReadOn
  <2>. QED
    BY <1>1, <2>1, <2>2, ReadIsKept
<1>4. WrittenUpTo(n + 1)' = IF Token = Comment THEN text ELSE Append(text, Token)
  <2>1. Kept' = Kept
    BY <1>3 DEF Kept
  <2>2. WrittenUpTo(n + 1)' = WrittenUpTo(n + 1)
    BY <1>3, <2>1 DEF WrittenUpTo
  <2>3. n \in 0 .. Len(file) - 1
    BY <1>1, <1>3, FileIs
  <2>. QED
    BY <1>1, <1>3, <2>2, <2>3, WrittenGrows
<1>. HIDE DEF text
<1>5. SUFFICES TreeOf(open', last', n + 1, IF Token = Comment THEN text ELSE Append(text, Token))
  BY <1>4 DEF TreeInv
<1>6. CASE SkipComment
  <2>1. Token = Comment /\ open' = open /\ last' = last
    BY <1>6 DEF SkipComment, Read
  <2>. QED
    BY <1>1, <2>1, CommentRead
(* A block with another top. *)
<1>7. ASSUME NEW b, open' = Append(SubSeq(open, 1, Len(open) - 1), b), Token # Comment,
             \A top : TopReads(Last(open), last, n, top) => TopReads(b, last', n + 1, Append(top, Token))
      PROVE  TreeOf(open', last', n + 1, IF Token = Comment THEN text ELSE Append(text, Token))
  <2>. DEFINE below == SubSeq(open, 1, Len(open) - 1)
              r == Append(below, b)
  <2>1. Len(open) - 1 \in 0 .. Len(open)
    BY <1>2
  <2>2. IsSeq(below) /\ Len(below) = Len(open) - 1 /\ \A j \in 1 .. Len(open) - 1 : below[j] = open[j]
    BY <1>1, <2>1, FirstShape
  <2>. HIDE DEF below
  <2>3. /\ IsSeq(r) /\ Len(r) = Len(below) + 1 /\ r[Len(below) + 1] = b
        /\ \A j \in 1 .. Len(below) : r[j] = below[j]
    BY <2>2, AppendShape
  <2>4. open' = r
    BY <1>7 DEF below
  <2>. HIDE DEF r
  <2>5. Len(r) = Len(open)
    BY <1>2, <2>2, <2>3
  <2>6. Last(r) = b /\ \A j \in 1 .. Len(open) - 1 : r[j] = open[j]
    <3>1. Len(below) + 1 = Len(r)
      BY <2>3
    <3>2. r[Len(r)] = b
      BY <2>3, <3>1
    <3>. QED
      BY <2>2, <2>3, <3>2 DEF Last
  <2>7. TreeOf(r, last', n + 1, Append(text, Token))
    BY <1>1, <1>7, <2>3, <2>5, <2>6, TopChanges
  <2>. QED
    BY <1>7, <2>4, <2>7
<1>8. CASE AddWord
  <2>1. Token \in Word /\ last' = "word" /\ Token # Comment
    BY <1>8, KindsOfToken DEF AddWord, Read
  <2>2. CASE last = "word"
    <3>. DEFINE b == [Last(open) EXCEPT ![Len(Last(open))].tokens = Append(@, Token)]
    <3>1. open' = WithTop(b)
      BY <1>8, <2>2 DEF AddWord
    <3>2. \A top : TopReads(Last(open), last, n, top) => TopReads(b, last', n + 1, Append(top, Token))
      BY <1>1, <1>2, <2>1, <2>2, NextWordRead
    <3>. HIDE DEF b
    <3>3. open' = Append(SubSeq(open, 1, Len(open) - 1), b)
      BY <1>1, <3>1, WithTopIs
    <3>. QED
      BY <1>7, <2>1, <3>2, <3>3
  <2>3. CASE last # "word"
    <3>. DEFINE b == Append(Last(open), Statement(<<Token>>, {}))
    <3>1. open' = WithTop(b)
      BY <1>8, <2>3 DEF AddWord
    <3>2. \A top : TopReads(Last(open), last, n, top) => TopReads(b, last', n + 1, Append(top, Token))
      BY <1>1, <1>2, <2>1, <2>3, FirstWordRead
    <3>. HIDE DEF b
    <3>3. open' = Append(SubSeq(open, 1, Len(open) - 1), b)
      BY <1>1, <3>1, WithTopIs
    <3>. QED
      BY <1>7, <2>1, <3>2, <3>3
  <2>. QED
    BY <2>2, <2>3
<1>9. CASE EndStatement
  <2>1. Token = ";" /\ Token # Comment /\ Read(";") /\ last' = ";" /\ open' = open
    BY <1>9 DEF EndStatement, Read, Comment
  <2>2. last = "word"
    BY <2>1, KindsOfToken DEF Read, Accepts, Mark, Comment
  <2>3. \A top : TopReads(Last(open), last, n, top) => TopReads(Last(open), last', n + 1, Append(top, Token))
    BY <1>1, <1>2, <2>1, <2>2, StatementRead
  <2>4. TreeOf(open, last', n + 1, Append(text, Token))
    BY <1>1, <2>3, TopChanges
  <2>. QED
    BY <2>1, <2>4
<1>10. CASE StartBlock
  <2>1. Token = "{" /\ Token # Comment /\ Read("{") /\ last' = "{" /\ open' = Append(open, <<>>)
    BY <1>10 DEF StartBlock, Read, Comment
  <2>2. last = "word"
    BY <2>1, KindsOfToken DEF Read, Accepts, Mark, Comment
  <2>3. TreeOf(Append(open, <<>>), "{", n + 1, Append(text, "{"))
    BY <1>1, <1>2, <2>2, BlockStarts
  <2>. QED
    BY <2>1, <2>3
<1>11. CASE EndBlock
  <2>. DEFINE below == open[Len(open) - 1]
              r == Append(SubSeq(open, 1, Len(open) - 2), [below EXCEPT ![Len(below)].child_block = {Last(open)}])
  <2>1. Token = "}" /\ Token # Comment /\ Read("}") /\ last' = "}" /\ open' = r
    BY <1>11 DEF EndBlock, Read, Comment
  <2>2. Len(open) > 1 /\ last # "word"
    BY <2>1, KindsOfToken DEF Read, Accepts, Mark, Comment
  <2>3. TreeOf(r, "}", n + 1, Append(text, "}"))
    BY <1>1, <2>2, BlockEnds
  <2>. QED
    BY <2>1, <2>3
<1>. QED
  BY <1>6, <1>8, <1>9, <1>10, <1>11

LEMMA ToTokensIs ==
  ASSUME NEW b, NEW y, Len(file) \in Nat, Becomes(BlockText(b), Len(file), y)
  PROVE  ToTokens(b) = y
<1>. DEFINE m == Len(file)
            Is(f) == f = [n \in 0 .. m |-> IF n = 0 THEN BlockText(b) ELSE Round(f[n - 1])]
            h == CHOOSE f : Is(f)
<1>1. PICK g : Rounds(g, m) /\ g[0] = BlockText(b) /\ g[m] = y
  BY DEF Becomes
<1>2. m \in Nat /\ 0 \in 0 .. m /\ m \in 0 .. m /\ \A i \in 1 .. m : i \in 0 .. m /\ i - 1 \in 0 .. m /\ i # 0
  OBVIOUS
<1>3. ToTokens(b) = h[m]
  BY DEF ToTokens
<1>. DEFINE k == [i \in 0 .. m |-> g[i]]
<1>. HIDE DEF m
<1>4. Is(k)
  <2>1. \A i \in 0 .. m : i # 0 => i \in 1 .. m /\ i - 1 \in 0 .. m
    BY <1>2
  <2>2. \A i \in 0 .. m : k[i] = g[i]
    OBVIOUS
  <2>3. k = [i \in 0 .. m |-> k[i]]
    OBVIOUS
  <2>. HIDE DEF k
  <2>4. \A i \in 0 .. m : k[i] = IF i = 0 THEN BlockText(b) ELSE Round(k[i - 1])
    BY <1>1, <2>1, <2>2 DEF Rounds
  <2>. QED
    BY <2>3, <2>4
<1>. HIDE DEF k
<1>5. Is(h)
  BY <1>4
<1>. HIDE DEF h
<1>6. h[0] = BlockText(b) /\ \A i \in 1 .. m : h[i] = Round(h[i - 1])
  BY <1>2, <1>5
<1>7. Alike(g, h, m)
  BY <1>1, <1>6 DEF Alike, Rounds
<1>8. g[m] = h[m]
  BY <1>2, <1>7, SameRecursion
<1>. QED
  BY <1>1, <1>3, <1>8

LEMMA EndIsWritten ==
  ASSUME ParserInv, NEW n, Reading(n), GrammarInv(n), TreeInv(n), Token = "eof", Accepts
  PROVE  ToTokens(Config) = Words(Written)
<1>. USE DEF ParserInv, ParserTypeOK
<1>1. /\ n \in Nat /\ n <= Len(file) /\ Len(file) \in Nat /\ Kept = KeptUpTo(n)
      /\ n = Len(file) \/ n + 1 = Len(file)
  <2>1. n \in Nat /\ n <= Len(file) /\ Len(file) \in Nat
        /\ \A i \in 1 .. Len(file) : file[i] \in Lexeme /\ file[i] # "eof"
    BY RestIs, FileIs, LexemeKinds, KindsOfToken DEF Mark, Comment, BadQuote
  <2>2. n < Len(file) => n + 1 \in 1 .. Len(file)
    BY <2>1
  <2>. QED
    BY <2>1, <2>2, TokenIs, EofIs
<1>2. last # "word" /\ Len(open) = 1
  BY KindsOfToken DEF Accepts, Comment, Mark
<1>3. Written = WrittenUpTo(n) /\ IsSeq(WrittenUpTo(n))
  <2>0. n \in 0 .. Len(file)
    BY <1>1
  <2>1. CASE n = Len(file)
    BY <2>0, <2>1, WrittenGrows DEF Written
  <2>2. CASE n + 1 = Len(file)
    <3>1. n + 1 \notin Kept
      BY <1>1 DEF KeptUpTo
    <3>2. n \in 0 .. Len(file) - 1
      BY <1>1, <2>2
    <3>. QED
      BY <2>0, <2>2, <3>1, <3>2, WrittenGrows DEF Written
  <2>. QED
    BY <1>1, <2>1, <2>2
<1>4. PICK before, top :
        /\ before[1] = <<>> /\ TopReads(Last(open), last, n, top) /\ IsSeq(top)
        /\ WrittenUpTo(n) = before[1] \o top
  BY <1>2 DEF TreeInv, TreeOf, Opened
<1>5. <<>> \o top = top
  BY <1>4, ConcatOfNone
<1>6. WrittenUpTo(n) = top
  BY <1>4, <1>5
<1>7. Becomes(BlockText(Config), n, Words(top))
  BY <1>2, <1>4 DEF TopReads, Last, Config
<1>8. Becomes(BlockText(Config), Len(file), Words(top))
  BY <1>1, <1>4, <1>7, StillBecomes
<1>9. ToTokens(Config) = Words(top)
  BY <1>1, <1>8, ToTokensIs
<1>. QED
  BY <1>3, <1>6, <1>9

TreeIInv ==
  /\ LanguageIInv
  /\ phase = "parsing" => \E n : Reading(n) /\ GrammarInv(n) /\ TreeInv(n)
  /\ ParsedAsWritten

LEMMA TreeInit == Init => TreeIInv
<1>. SUFFICES ASSUME Init PROVE TreeIInv
  OBVIOUS
<1>1. /\ file \in Files /\ rest = file /\ open = << <<>> >> /\ last = "start" /\ phase = "parsing"
  BY DEF Init, ParserInit
<1>2. LanguageIInv
  BY LanguageInit
<1>3. file \in Seq(Lexeme) /\ Len(file) \in Nat
  BY <1>1, ConfigParserAssumption, FileIs
<1>4. PICK n : Reading(n) /\ GrammarInv(n)
  BY <1>1, <1>2 DEF LanguageIInv, LanguageInv
<1>5. n = 0
  <2>1. n \in Nat /\ n <= Len(file) /\ Len(rest) = Len(file) - n
    BY <1>3, <1>4, RestIs
  <2>. QED
    BY <1>1, <1>3, <2>1
<1>6. TreeOf(open, last, 0, <<>>)
  <2>. DEFINE before == [j \in 1 .. 1 |-> <<>>]
              s == << <<>> >>
  <2>1. before[1] = <<>>
    OBVIOUS
  <2>2. TopReads(<<>>, "start", 0, <<>>) /\ IsSeq(<<>>)
    BY EmptyBlockReads
  <2>3. Len(s) = 1 /\ s[1] = <<>>
    OBVIOUS
  <2>. HIDE DEF before, s
  <2>4. Last(s) = <<>> /\ Len(s) - 1 = 0
    BY <2>3 DEF Last
  <2>5. Opened(s, 0, 0, before)
    BY <2>1, <2>2 DEF Opened
  <2>6. <<>> = before[Len(s)] \o <<>>
    BY <2>1, <2>2, <2>3, ConcatOfNone
  <2>7. Opened(s, Len(s) - 1, 0, before) /\ TopReads(Last(s), "start", 0, <<>>)
    BY <2>2, <2>4, <2>5
  <2>8. TreeOf(s, "start", 0, <<>>)
    BY <2>2, <2>6, <2>7 DEF TreeOf
  <2>. QED
    BY <1>1, <2>8 DEF s
<1>7. TreeInv(0)
  BY <1>3, <1>6, WrittenGrows DEF TreeInv
<1>8. ParsedAsWritten
  BY <1>1 DEF ParsedAsWritten, Parsed
<1>. QED
  BY <1>2, <1>4, <1>5, <1>7, <1>8 DEF TreeIInv

LEMMA SameTree ==
  ASSUME UNCHANGED parserVars
  PROVE  /\ Written' = Written /\ ToTokens(Config)' = ToTokens(Config)
         /\ Words(Written)' = Words(Written)
         /\ \A n : TreeInv(n)' <=> TreeInv(n)
<1>1. UNCHANGED <<file, cut, rest, open, last, expectListen>>
  BY DEF parserVars
<1>2. Kept' = Kept
  BY <1>1 DEF Kept
<1>3. \A n : WrittenUpTo(n)' = WrittenUpTo(n)
  BY <1>1, <1>2 DEF WrittenUpTo
<1>4. Written' = Written
  BY <1>1, <1>3 DEF Written
<1>5. ToTokens(Config)' = ToTokens(Config)
  BY <1>1 DEF ToTokens, Config
<1>6. \A n : TreeInv(n)' <=> TreeInv(n)
  BY <1>1, <1>3 DEF TreeInv
<1>. QED
  BY <1>4, <1>5, <1>6

LEMMA TreeNext == TreeIInv /\ [Next]_vars => TreeIInv'
<1>. SUFFICES ASSUME TreeIInv, [Next]_vars PROVE TreeIInv'
  OBVIOUS
<1>. USE DEF TreeIInv
<1>1. LanguageIInv' /\ ParserInv /\ file \in Seq(Lexeme) /\ cut \in BOOLEAN
  BY LanguageStep DEF LanguageIInv, ParserInv, ParserTypeOK
<1>2. CASE ParserStep
  <2>1. Parse /\ phase = "parsing"
    BY <1>2 DEF ParserStep, Parse, SkipComment, AddWord, EndStatement, StartBlock, EndBlock, Read, ParseEnds, ParseFails
  <2>2. PICK n : Reading(n) /\ GrammarInv(n) /\ TreeInv(n)
    BY <2>1
  <2>3. CASE SkipComment \/ AddWord \/ EndStatement \/ StartBlock \/ EndBlock
    <3>1. phase' = "parsing"
      BY <2>1, <2>3 DEF SkipComment, AddWord, EndStatement, StartBlock, EndBlock, Read
    <3>2. Reading(n + 1)' /\ GrammarInv(n + 1)' /\ TreeInv(n + 1)'
      BY <1>1, <2>2, <2>3, ReadingStep, TreeStep
    <3>3. ParsedAsWritten'
      BY <3>1 DEF ParsedAsWritten, Parsed
    <3>. QED
      BY <1>1, <3>1, <3>2, <3>3
  <2>4. CASE ParseEnds
    <3>1. phase' = "configuring" /\ Token = "eof" /\ Accepts /\ UNCHANGED parserVars
      BY <2>4 DEF ParseEnds
    <3>2. ToTokens(Config) = Words(Written)
      BY <1>1, <2>2, <3>1, EndIsWritten
    <3>3. ParsedAsWritten'
      BY <3>1, <3>2, SameTree DEF ParsedAsWritten
    <3>. QED
      BY <1>1, <3>1, <3>3
  <2>5. CASE ParseFails
    <3>1. phase' = "refused" /\ ~Accepts /\ UNCHANGED parserVars
      BY <2>5 DEF ParseFails
    <3>2. ParsedAsWritten'
      BY <3>1, SameParser DEF ParsedAsWritten, Parsed
    <3>. QED
      BY <1>1, <3>1, <3>2
  <2>. QED
    BY <2>1, <2>3, <2>4, <2>5 DEF Parse
<1>3. ASSUME UNCHANGED parserVars,
             \/ phase' = phase
             \/ phase = "configuring" /\ phase' \in {"serving", "refused"}
      PROVE  TreeIInv'
  <2>1. Parsed' => Parsed
    BY <1>3, SameParser DEF Parsed
  <2>2. ParsedAsWritten'
    BY <1>3, <2>1, SameTree DEF ParsedAsWritten
  <2>3. ASSUME phase' = "parsing" PROVE \E n : Reading(n)' /\ GrammarInv(n)' /\ TreeInv(n)'
    <3>1. phase = "parsing"
      BY <1>3, <2>3
    <3>2. PICK n : Reading(n) /\ GrammarInv(n) /\ TreeInv(n)
      BY <3>1
    <3>3. UNCHANGED <<file, cut, rest, open, last, expectListen>>
      BY <1>3 DEF parserVars
    <3>4. Reading(n)'
      BY <3>2, <3>3 DEF Reading
    <3>5. TreeInv(n)'
      BY <1>3, <3>2, SameTree
    <3>6. GrammarInv(n)'
      <4>1. PICK k : (Reading(k) /\ GrammarInv(k))'
        BY <1>1, <2>3 DEF LanguageIInv, LanguageInv
      <4>2. (file \in Seq(Lexeme))' /\ k \in 0 .. Len(file) /\ n \in 0 .. Len(file)
            /\ rest = SubSeq(file, k + 1, Len(file))
        BY <1>1, <3>2, <3>3, <4>1 DEF Reading
      <4>3. Reading(k)
        BY <4>2 DEF Reading
      <4>4. k = n
        <5>1. k \in Nat /\ n \in Nat /\ Len(rest) = Len(file) - k /\ Len(rest) = Len(file) - n /\ Len(file) \in Nat
          BY <1>1, <3>2, <4>3, RestIs, FileIs
        <5>. QED
          BY <5>1
      <4>. QED
        BY <4>1, <4>4
    <3>. QED
      BY <3>4, <3>5, <3>6
  <2>. QED
    BY <1>1, <2>2, <2>3
<1>4. CASE ConfigureNext
  <2>1. phase = "configuring"
    BY <1>4 DEF ConfigureNext
  <2>2. \/ phase' = "refused" /\ UNCHANGED <<parserVars, configVars>>
        \/ UNCHANGED <<parserVars, phase, handlers>>
    BY <1>4, Zenon DEF ConfigureNext
  <2>. QED
    BY <1>3, <2>1, <2>2
<1>5. CASE StartServing
  BY <1>3, <1>5 DEF StartServing
<1>6. CASE UNCHANGED vars
  BY <1>3, <1>6 DEF vars
<1>. QED
  BY <1>2, <1>4, <1>5, <1>6 DEF Next

(***************************************************************************)
(* Whatever the file: the statements that NginxConfigParser::Parse builds  *)
(* of a file that it accepts, written out again, are the file without its  *)
(* comments, however deep its blocks.                                      *)
(***************************************************************************)
THEOREM TreeIsTheFile == Spec => []ParsedAsWritten
<1>1. TreeIInv => ParsedAsWritten
  BY DEF TreeIInv
<1>. QED
  BY <1>1, TreeInit, TreeNext, PTL DEF Spec

=============================================================================
