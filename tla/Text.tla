-------------------------------- MODULE Text --------------------------------
(***************************************************************************)
(* std::string and std::istream, as far as the parsers and validators use  *)
(* them.  A text is a sequence of characters, each a string of length one; *)
(* a longer string stands for a word of letters that is never cut.         *)
(* Positions start at 1, and npos is 0.                                    *)
(***************************************************************************)
EXTENDS Integers, SequencesExt

npos == 0
CR == "\r"
LF == "\n"
CRLF == <<CR, LF>>

Digit == {"0", "1", "2", "3", "4", "5", "6", "7", "8", "9"}
Blank == {" ", "\t", LF, CR, "\f"}
Control == {"\t", LF, CR, "\f", "SOH"}
(* Without the back quote, which no text here has. *)
Punctuation ==
  {".", "-", "_", "~", ":", "/", "?", "#", "[", "]", "@", "!", "$", "&", "'", "(", ")",
   "*", "+", ",", ";", "=", "%", "<", ">", "\"", "\\", "{", "}", "|", "^"}

(* isalpha, for the characters and words that are none of the above. *)
IsLetter(c) == c \notin Digit \cup Blank \cup Control \cup Punctuation
IsLetterOrDigit(c) == IsLetter(c) \/ c \in Digit

(* tolower and toupper change these, and no others that are used. *)
LowerCase ==
  [c \in {"A", "B", "F", "HTTP", "HTTPS", "TXT", "CON", "Content-Type"} |->
     CASE c = "A" -> "a" [] c = "B" -> "b" [] c = "F" -> "f" [] c = "HTTP" -> "http"
       [] c = "HTTPS" -> "https" [] c = "TXT" -> "txt" [] c = "CON" -> "con"
       [] c = "Content-Type" -> "content-type"]
UpperCase == [c \in {"a", "b", "txt", "con"} |-> CHOOSE d \in DOMAIN LowerCase : LowerCase[d] = c]

Change(t, case) == [i \in DOMAIN t |-> IF t[i] \in DOMAIN case THEN case[t[i]] ELSE t[i]]
ToLower(t) == Change(t, LowerCase)
ToUpper(t) == Change(t, UpperCase)

-----------------------------------------------------------------------------

FirstOrNpos(S) == IF S = {} THEN npos ELSE Min(S)
LastOrNpos(S) == IF S = {} THEN npos ELSE Max(S)

Slice(t, i, n) == SubSeq(t, i, IF i + n - 1 > Len(t) THEN Len(t) ELSE i + n - 1)
From(t, i) == SubSeq(t, i, Len(t))
StartsWith(t, i, word) == Slice(t, i, Len(word)) = word

Find(t, word, from) == FirstOrNpos({i \in from .. Len(t) : StartsWith(t, i, word)})
FindFirstOf(t, chars, from) == FirstOrNpos({i \in from .. Len(t) : t[i] \in chars})
FindLastOf(t, chars) == LastOrNpos({i \in DOMAIN t : t[i] \in chars})
HasWord(t, word) == Find(t, word, 1) # npos

(* Where the piece of t ends that starts before position p. *)
OrEnd(p, t) == IF p = npos THEN Len(t) + 1 ELSE p

IsEmpty(t) == t = <<>>
EndsIn(t, c) == ~IsEmpty(t) /\ t[Len(t)] = c
Without(t, c) == IF EndsIn(t, c) THEN SubSeq(t, 1, Len(t) - 1) ELSE t

(* From the first to the last character that is not one of these. *)
TrimOf(t, chars) ==
  LET kept == {i \in DOMAIN t : t[i] \notin chars}
  IN IF kept = {} THEN <<>> ELSE SubSeq(t, Min(kept), Max(kept))
Trim(t) == TrimOf(t, {" ", "\t", CR, LF})

Dropping(t, chars) == FlattenSeq([i \in DOMAIN t |-> IF t[i] \in chars THEN <<>> ELSE <<t[i]>>])

(* The pieces of t between separators, one character after the other. *)
WithChar(pieces, c, separator) ==
  IF c = separator THEN Append(pieces, <<>>)
  ELSE [pieces EXCEPT ![Len(pieces)] = Append(@, c)]

SplitAt(t, separator) ==
  LET pieces[i \in 0 .. Len(t)] ==
        IF i = 0 THEN << <<>> >> ELSE WithChar(pieces[i - 1], t[i], separator)
  IN pieces[Len(t)]

(* The lines that getline reads: none behind a last delimiter. *)
GetLines(t, delimiter) == Without(SplitAt(t, delimiter), <<>>)

-----------------------------------------------------------------------------
(* Numbers in texts. *)

DigitValue == [c \in Digit |-> CASE c = "0" -> 0 [] c = "1" -> 1 [] c = "2" -> 2
  [] c = "3" -> 3 [] c = "4" -> 4 [] c = "5" -> 5 [] c = "6" -> 6 [] c = "7" -> 7
  [] c = "8" -> 8 [] c = "9" -> 9]
DigitOf == [n \in 0 .. 9 |-> CHOOSE c \in Digit : DigitValue[c] = n]

LeadingDigits(t) ==
  {n \in DOMAIN t : \A i \in 1 .. n : t[i] \in Digit}

(* What stoi makes of the first n characters, which are digits. *)
NumberOf(t, n) ==
  LET value[i \in 0 .. n] == IF i = 0 THEN 0 ELSE 10 * value[i - 1] + DigitValue[t[i]]
  IN value[n]

Decimal[n \in Nat] ==
  IF n < 10 THEN <<DigitOf[n]>> ELSE Append(Decimal[n \div 10], DigitOf[n % 10])

=============================================================================
