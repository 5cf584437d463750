----------------------------- MODULE HttpParser -----------------------------
(***************************************************************************)
(* class Request and class HTTPParser: from the text of a request to its   *)
(* headers and its body, and from the body to form fields and files.       *)
(***************************************************************************)
EXTENDS Text, TLC

CONSTANTS
  MaxField,     \* MAX_FIELD_SIZE
  MaxFile       \* MAX_FILE_SIZE, 25 MB, and the limit of FileValidator

ASSUME HttpAssumption == MaxField \in Nat /\ MaxFile \in Nat

NoFields == <<>>      \* a map without entries
With(fields, name, value) ==
  [n \in DOMAIN fields \cup {name} |-> IF n = name THEN value ELSE fields[n]]

-----------------------------------------------------------------------------
(* Request::parse_request *)

Words(line) == Dropping(SplitAt(line, " "), {<<>>})

(* The first line behind the request line that is empty but for its CR. *)
BlankLine(lines) ==
  OrEnd(FirstOrNpos({i \in 2 .. Len(lines) : IsEmpty(Without(lines[i], CR))}), lines)

AddHeader(fields, line) ==
  LET colon == Find(line, <<":">>, 1)
      value == {i \in colon + 1 .. Len(line) : line[i] \notin Blank}
  IN IF colon = npos THEN fields
     ELSE With(fields, SubSeq(line, 1, colon - 1),
               IF value = {} THEN <<>> ELSE From(line, Min(value)))

(* The first i of the lines behind the request line. *)
HeadersOf(lines) ==
  LET headers[i \in 0 .. BlankLine(lines) - 2] ==
        IF i = 0 THEN NoFields ELSE AddHeader(headers[i - 1], Without(lines[i + 1], CR))
  IN headers[BlankLine(lines) - 2]

(* The lines behind it, put together again; one line end at the end is lost. *)
BodyOf(lines) ==
  LET behind == SubSeq(lines, BlankLine(lines) + 1, Len(lines))
  IN Without(FlattenSeq([i \in DOMAIN behind |-> behind[i] \o <<LF>>]), LF)

ParseRequest(raw) ==
  LET lines == GetLines(raw, LF)
      first == Words(Without(lines[1], CR))
  IN [method |-> first[1], uri |-> first[2], headers |-> HeadersOf(lines), body |-> BodyOf(lines)]

GetHeader(request, name) ==
  LET same == {h \in DOMAIN request.headers : ToLower(h) = ToLower(name)}
  IN IF name \in same THEN request.headers[name]
     ELSE IF same # {} THEN request.headers[CHOOSE h \in same : TRUE]
     ELSE <<>>

-----------------------------------------------------------------------------
(* application/x-www-form-urlencoded *)

HexDigit == [n \in 0 .. 15 |-> IF n < 10 THEN DigitOf[n]
               ELSE <<"A", "B", "C", "D", "E", "F">>[n - 9]]
HexValue(c) ==
  IF c \in Digit THEN DigitValue[c]
  ELSE CASE c \in {"A", "a"} -> 10 [] c \in {"B", "b"} -> 11 [] c = "C" -> 12
         [] c = "D" -> 13 [] c = "E" -> 14 [] c \in {"F", "f"} -> 15 [] OTHER -> -1

(* The bytes of the characters that are encoded here. *)
Byte ==
  [c \in {"\t", LF, CR, "!", "#", "%", "&", "+", ",", "/", ":", ";", "<", "=", "?", "@", "[", "]"} |->
     CASE c = "\t" -> 9 [] c = LF -> 10 [] c = CR -> 13 [] c = "!" -> 33 [] c = "#" -> 35
       [] c = "%" -> 37 [] c = "&" -> 38 [] c = "+" -> 43 [] c = "," -> 44 [] c = "/" -> 47
       [] c = ":" -> 58 [] c = ";" -> 59 [] c = "<" -> 60 [] c = "=" -> 61 [] c = "?" -> 63
       [] c = "@" -> 64 [] c = "[" -> 91 [] c = "]" -> 93]
CharOf(byte) ==
  IF \E c \in DOMAIN Byte : Byte[c] = byte THEN CHOOSE c \in DOMAIN Byte : Byte[c] = byte
  ELSE "other"

Encoded(c) ==
  IF IsLetterOrDigit(c) \/ c \in {"-", "_", ".", "~"} THEN <<c>>
  ELSE IF c = " " THEN <<"+">>
  ELSE <<"%", HexDigit[Byte[c] \div 16], HexDigit[Byte[c] % 16]>>
UrlEncode(t) == FlattenSeq([i \in DOMAIN t |-> Encoded(t[i])])

IsEscape(t, i) ==
  t[i] = "%" /\ i + 2 <= Len(t) /\ HexValue(t[i + 1]) # -1 /\ HexValue(t[i + 2]) # -1

(* Escapes do not overlap: a hex digit is no percent sign. *)
Decoded(t, escape, i) ==
  CASE i \in escape -> <<CharOf(16 * HexValue(t[i + 1]) + HexValue(t[i + 2]))>>
    [] i - 1 \in escape \/ i - 2 \in escape -> <<>>
    [] OTHER -> <<IF t[i] = "+" THEN " " ELSE t[i]>>

\* Mutant of UrlDecode: an escape at the end of the text is not seen.
UrlDecodeButLast(t) ==
  LET escape == {i \in DOMAIN t : IsEscape(t, i) /\ i + 2 < Len(t)}
  IN FlattenSeq([i \in DOMAIN t |-> Decoded(t, escape, i)])

UrlDecode(t) ==
  LET escape == {i \in DOMAIN t : IsEscape(t, i)}
  IN FlattenSeq([i \in DOMAIN t |-> Decoded(t, escape, i)])

AddPair(fields, pair) ==
  LET eq  == Find(pair, <<"=">>, 1)
      key == UrlDecode(SubSeq(pair, 1, OrEnd(eq, pair) - 1))
  IN IF IsEmpty(key) THEN fields
     ELSE With(fields, key, IF eq = npos THEN <<>> ELSE UrlDecode(From(pair, eq + 1)))

ParseFormData(body) ==
  LET pairs == GetLines(body, "&")
      parsed[i \in 0 .. Len(pairs)] ==
        IF i = 0 THEN NoFields ELSE AddPair(parsed[i - 1], pairs[i])
  IN parsed[Len(pairs)]

-----------------------------------------------------------------------------
(* multipart/form-data *)

(* The value behind name=, in quotes or up to the next semicolon. *)
Parameter(header, name) ==
  LET at    == Find(header, name, 1)
      start == at + Len(name)
      quote == Find(header, <<"\"">>, start + 1)
  IN IF at = npos \/ start > Len(header) THEN <<>>
     ELSE IF header[start] = "\"" THEN
       IF quote = npos THEN <<>> ELSE SubSeq(header, start + 1, quote - 1)
     ELSE Trim(SubSeq(header, start, OrEnd(Find(header, <<";">>, start), header) - 1))

ExtractBoundary(content_type) == Parameter(content_type, <<"boundary", "=">>)
Marker(boundary) == <<"-", "-">> \o boundary

(* Past a CR and a LF behind the boundary, each if it is there. *)
SkipLineEnd(body, pos) ==
  LET lf == IF StartsWith(body, pos, <<CR>>) THEN pos + 1 ELSE pos
  IN IF StartsWith(body, lf, <<LF>>) THEN lf + 1 ELSE lf

(* Behind the empty line that ends the headers of a part, or npos. *)
HeadersEnd(body, pos) ==
  LET crlf == Find(body, CRLF \o CRLF, pos)
      lf   == Find(body, <<LF, LF>>, pos)
  IN IF crlf # npos THEN crlf + 4 ELSE IF lf # npos THEN lf + 2 ELSE npos

HeaderLine(headers, name) ==
  LET at == Find(headers, name, 1)
  IN IF at = npos THEN <<>>
     ELSE SubSeq(headers, at, OrEnd(Find(headers, <<LF>>, at), headers) - 1)

\* Mutant of ContentOf: every line end before the boundary goes.
ContentTrimmed(text) == TrimOf(text, {CR, LF})

(* One line end before the boundary belongs to the boundary. *)
ContentOf(text) ==
  IF EndsIn(Without(text, LF), CR) /\ EndsIn(text, LF)
  THEN SubSeq(text, 1, Len(text) - 2)
  ELSE Without(text, LF)

NoPart == [found |-> FALSE]

(* The part whose headers start at pos: one round of the loop. *)
PartAt(body, boundary, pos) ==
  LET start == SkipLineEnd(body, pos)
      data  == HeadersEnd(body, start)
      next  == Find(body, Marker(boundary), data)
      headers == SubSeq(body, start, data - 3)
      disposition == HeaderLine(headers, <<"Content-Disposition", ":">>)
  IN IF pos > Len(body) \/ data = npos \/ next = npos THEN NoPart
     ELSE [found |-> TRUE,
           name |-> Parameter(disposition, <<"name", "=">>),
           filename |-> Parameter(disposition, <<"file", "name", "=">>),
           content |-> ContentOf(SubSeq(body, data, next - 1)),
           last |-> StartsWith(body, next, Marker(boundary) \o <<"-", "-">>),
           behind |-> next + Len(Marker(boundary))]

=============================================================================
