---------------------------- MODULE IntakeProps -----------------------------
(***************************************************************************)
(* What the parsers and validators promise.  The client knows what it      *)
(* meant (the parts of a URL, the fields of a form, the parts of an        *)
(* upload), and each property compares that with what the code makes of    *)
(* the text, by a definition of its own that looks at the parts only.      *)
(***************************************************************************)
EXTENDS Intake

Elements(t) == {t[i] : i \in DOMAIN t}
Done(route) == pc = "done" /\ ask.route = route
Accepted == stored # Nothing

-----------------------------------------------------------------------------
(* URLs.  The parts hold their delimiters: <<"u", "@">>, <<":", "8", "0">>. *)

UrlAsked == Done("shorten") /\ "url" \in DOMAIN ask

PartsOf(url) == url.scheme \o url.user \o url.host \o url.port \o url.path \o url.query \o url.fragment

SchemeWord(url) ==
  IF IsEmpty(url.scheme) THEN <<"https">>
  ELSE ToLower(SubSeq(url.scheme, 1, Len(url.scheme) - 3))

TrailingDots(host) == Cardinality({i \in DOMAIN host : \A j \in i .. Len(host) : host[j] = "."})
Stem(host) == SubSeq(ToLower(host), 1, Len(host) - TrailingDots(host))

(* Numbers from 0 to 255 between three dots. *)
AddressOf(host) ==
  LET n == Len(host)
      dots == {i \in 1 .. n : host[i] = "."}
      Octet(s) == Len(s) \in 1 .. 3 /\ Elements(s) \subseteq Digit
                    /\ Decimal[NumberOf(s, Len(s))] = s /\ NumberOf(s, Len(s)) < 256
  IN /\ Cardinality(dots) = 3
     /\ \A i, j \in dots \cup {0, n + 1} :
          i < j /\ (\A k \in dots : ~(i < k /\ k < j)) => Octet(SubSeq(host, i + 1, j - 1))

(* Every character lies in a label of a good length, and the last is letters. *)
GoodName(stem, dots) ==
  LET n == Len(stem)
      end == {i \in 1 .. n : i = 1 \/ i = n \/ "." \in {stem[i - 1], stem[i + 1]}}
  IN /\ n > 0 /\ n + Max({0, dots - 2}) <= MaxDomain
     /\ "." \in Elements(stem) \/ dots = 3
     /\ \A i \in 1 .. n : HostChar(stem[i])
     /\ \A i \in end : stem[i] # "-" /\ (stem[i] = "." => i \notin {1, n} /\ stem[i + 1] # ".")
     /\ \A i \in 1 .. n - MaxLabel : "." \in Elements(SubSeq(stem, i, i + MaxLabel))
     /\ \A i \in 1 .. n : IsLetter(stem[i]) \/ "." \in Elements(From(stem, i))

(* A site that nobody but its own network knows, or a known bad one. *)
RefusedSite(stem) ==
  \/ stem \in BlockedDomain \/ \E p \in BlockedPrefix : StartsWith(stem, 1, p)
  \/ \E i \in DOMAIN stem : /\ stem[i] = "localhost"
                            /\ \/ i > 1 /\ stem[i - 1] = "."
                               \/ i < Len(stem) /\ stem[i + 1] = "."

GoodHost(host) ==
  LET inner == SubSeq(ToLower(host), 2, Len(host) - 1)
  IN IF ~IsEmpty(host) /\ host[1] = "["
     THEN /\ EndsIn(host, "]") /\ All(inner, Ipv6Char) /\ ":" \in Elements(inner)
          /\ Len(inner) <= MaxDomain /\ inner \notin BlockedDomain
     ELSE /\ ~RefusedSite(Stem(host))
          /\ \/ TrailingDots(host) <= 2 /\ AddressOf(Stem(host)) /\ Len(Stem(host)) <= MaxDomain
             \/ TrailingDots(host) <= 3 /\ GoodName(Stem(host), TrailingDots(host))

GoodUrl(url) ==
  LET n == Len(url.port)
  IN /\ SchemeWord(url) \in {<<"http">>, <<"https">>}
     /\ Len(url.user) # 1 /\ \A i \in 1 .. Len(url.user) - 1 : UserChar(url.user[i])
     /\ GoodHost(url.host)
     /\ n > 0 => /\ n \in 2 .. 6 /\ Elements(Tail(url.port)) \subseteq Digit
                 /\ NumberOf(Tail(url.port), n - 1) \in 1 .. 65535
     /\ All(url.path, PathChar) /\ All(url.query, QueryChar)
     /\ Elements(url.fragment) \cap RefusedChars = {}

(***************************************************************************)
(* Where the code takes a part for another: a colon behind the authority   *)
(* for the one of the port (a default port is gone by then), an @ there    *)
(* for the end of the user.                                                *)
(***************************************************************************)
HasDefaultPort(url) ==
  IsEmpty(url.port) \/ Tail(url.port) = DefaultPort(SchemeWord(url))

Misread(url) ==
  LET behind == Elements(url.path \o url.query)
  IN \/ ":" \in behind /\ (HasDefaultPort(url) \/ "@" \in behind)
     \/ "@" \in Elements(url.query) /\ IsEmpty(url.path)

(***************************************************************************)
(* validate_and_normalize accepts nothing but well formed http and https   *)
(* URLs of sites that are not refused, with a port in range, a proper      *)
(* address or a name with proper labels; and it accepts each of these,     *)
(* unless a colon or an @ behind the authority is misread.                 *)
(***************************************************************************)
UrlAcceptance ==
  UrlAsked => /\ Accepted => GoodUrl(ask.url)
              /\ GoodUrl(ask.url) /\ ~Misread(ask.url) => Accepted

NormalHostOf(host) ==
  IF host[1] = "[" THEN host ELSE Without(ToLower(host), ".")

(* The spellings of a URL that a browser does not tell apart. *)
Spellings(url) ==
  {SchemeWord(url) \o Separator \o url.user \o NormalHostOf(url.host) \o port \o path \o url.query :
     port \in {url.port} \cup (IF HasDefaultPort(url) THEN {<<>>} ELSE {}),
     path \in {url.path} \cup (IF IsEmpty(url.path) THEN {<<"/">>} ELSE {})}

(***************************************************************************)
(* The URL that is stored leads where the one that was sent leads, save    *)
(* its fragment: the scheme and the host may change their case, a default  *)
(* port may go, a path / may come, and all else stays.  And the stored one *)
(* is in normal form already, unless its host ends in several dots.        *)
(***************************************************************************)
UrlTargetKept ==
  UrlAsked /\ Accepted /\ ~Misread(ask.url) =>
    /\ stored.url \in Spellings(ask.url)
    /\ TrailingDots(ask.url.host) < 2 => NormalizeUrl(stored.url) = stored.url

(***************************************************************************)
(* The parts of a URL are what a reader takes them for: each begins or     *)
(* ends with its delimiter and has none of those that would begin or end   *)
(* the next one, and without a scheme nothing looks like one.              *)
(***************************************************************************)
FreeOf(t, chars) == Elements(t) \cap chars = {}
Begins(t, c) == IsEmpty(t) \/ t[1] = c

WellFormedHost(host) ==
  /\ FreeOf(host, {"/", "?", "#", "@"})
  /\ \/ ":" \notin Elements(host)
     \/ host[1] = "[" /\ \A i, j \in DOMAIN host : host[i] = "]" /\ host[j] = ":" => j < i

WellFormedUrl(url) ==
  LET word == SubSeq(url.scheme, 1, Len(url.scheme) - 3)
  IN /\ url \in [scheme : Seq(STRING), user : Seq(STRING), host : Seq(STRING), port : Seq(STRING),
                 path : Seq(STRING), query : Seq(STRING), fragment : Seq(STRING)]
     /\ IF IsEmpty(url.scheme) THEN ~HasWord(PartsOf(url), Separator)
        ELSE url.scheme = word \o Separator /\ FreeOf(word, {":", "/", "?", "#", "@"})
     /\ IsEmpty(url.user) \/ EndsIn(url.user, "@")
     /\ FreeOf(url.user, {"/", "?", "#"}) /\ \A i \in 1 .. Len(url.user) - 1 : url.user[i] # "@"
     /\ WellFormedHost(url.host)
     /\ Begins(url.port, ":") /\ FreeOf(url.port, {"/", "?", "#", "@"})
     /\ \A i \in 2 .. Len(url.port) : url.port[i] # ":"
     /\ Begins(url.path, "/") /\ FreeOf(url.path, {"?", "#"})
     /\ Begins(url.query, "?") /\ FreeOf(url.query, {"#"})
     /\ Begins(url.fragment, "#")

(* The field url of a form is the URL that its client means. *)
WellFormedUrls ==
  \A a \in Asks : a.route = "shorten" /\ "url" \in DOMAIN a =>
    a.pairs = <<[name |-> <<"url">>, value |-> PartsOf(a.url)]>> /\ WellFormedUrl(a.url)

-----------------------------------------------------------------------------
(* Forms and uploads. *)

(***************************************************************************)
(* parse_form_data and Request give back the fields of a form as the       *)
(* client encoded them: all but those without a name, the last of each     *)
(* name, whatever characters names and values have.                        *)
(***************************************************************************)
FormAsSent ==
  ask.route = "shorten" /\ pc \in {"shorten_url", "done"} =>
    LET named == {i \in DOMAIN ask.pairs : ~IsEmpty(ask.pairs[i].name)}
    IN /\ DOMAIN fields = {ask.pairs[i].name : i \in named}
       /\ \A i \in named :
            (\A j \in named : j > i => ask.pairs[j].name # ask.pairs[i].name) =>
              fields[ask.pairs[i].name] = ask.pairs[i].value

(***************************************************************************)
(* Uploads whose names stand between quotes, or without them, as they are, *)
(* with no boundary in their contents, under a header that says that there *)
(* are parts.  The client writes what it was given and quotes nothing.     *)
(***************************************************************************)
Quotable(w) == \A i \in DOMAIN w : w[i] \notin {CR, LF, "\""}
Token(w) ==
  /\ \A i \in DOMAIN w : w[i] \notin {CR, LF, ";"}
  /\ w[1] \notin {"\"", " ", "\t"} /\ w[Len(w)] \notin {" ", "\t"}

WellFormedPart(p) ==
  /\ Quotable(p.name) /\ ~HasWord(p.name, <<"file", "name", "=">>)
  /\ IsEmpty(p.filename) \/ (IF p.quoted THEN Quotable(p.filename) ELSE Token(p.filename))
  /\ ~HasWord(p.content, Marker(Boundary))

WellFormedUploads ==
  \A a \in Asks : a.route = "upload" =>
    /\ a.header \notin {CR, LF, ":"}
    /\ a.header \in {"Content-Type", "content-type"} \/ IsEmpty(a.parts)
    /\ \A i \in DOMAIN a.parts : WellFormedPart(a.parts[i])

(* A line end of another kind in the content, or before its boundary. *)
LineEndsMixed(a) ==
  a.eol = <<LF>> /\ \E i \in DOMAIN a.parts :
    HasWord(a.parts[i].content, CRLF \o CRLF) \/ EndsIn(a.parts[i].content, CR)

(***************************************************************************)
(* parse_multipart_form gives back what the client sent: the parts with a  *)
(* file name as files and the others as fields, the last of each name,     *)
(* with their content byte by byte, except parts above the limit of their  *)
(* kind.  The client sends no content with its boundary in it, and one     *)
(* that ends its lines with LF no content with a CR where it misleads.     *)
(***************************************************************************)
UploadAsSent ==
  ask.route = "upload" /\ pc \in {"file_of_form", "done"} /\ ~LineEndsMixed(ask) =>
    LET IsFile(p) == ~IsEmpty(p.filename)
        kept == {i \in DOMAIN ask.parts :
                   /\ ~IsEmpty(ask.parts[i].name)
                   /\ Len(ask.parts[i].content) <= (IF IsFile(ask.parts[i]) THEN MaxFile ELSE MaxField)}
        LastOf(i) == \A j \in kept : j > i => \/ ask.parts[j].name # ask.parts[i].name
                                              \/ IsFile(ask.parts[j]) # IsFile(ask.parts[i])
        file(p) == [filename |-> p.filename, data |-> p.content]
    IN /\ DOMAIN files = {ask.parts[i].name : i \in {j \in kept : IsFile(ask.parts[j])}}
       /\ DOMAIN fields = {ask.parts[i].name : i \in {j \in kept : ~IsFile(ask.parts[j])}}
       /\ \A i \in kept : LastOf(i) =>
            IF IsFile(ask.parts[i]) THEN files[ask.parts[i].name] = file(ask.parts[i])
            ELSE fields[ask.parts[i].name] = ask.parts[i].content

(***************************************************************************)
(* The name that a file gets on disk is one path component of bounded      *)
(* length, not a directory's, and has the extension that was validated;    *)
(* only of a name with nothing but dots and blanks before its extension    *)
(* does the extension go.                                                  *)
(***************************************************************************)
StoredNameSound ==
  stored.kind = "file" =>
    /\ stored.name \notin {<<>>, <<".">>, <<".", ".">>}
    /\ "/" \notin Elements(stored.name) /\ Elements(stored.name) \cap Control = {}
    /\ Len(stored.name) <= MaxName
    /\ \/ Extension(stored.name) = Extension(stored.filename) /\ Extension(stored.name) \in AllowedExtension
       \/ Elements(WithoutExtension(stored.filename)) \subseteq {"."} \cup Blank \cup Control

-----------------------------------------------------------------------------
(* A reader of JSON, for objects of scalars and arrays of scalars. *)

(* Backslashes right before position i. *)
BackslashesBefore(t, i) == i - 1 - LastOrNpos({j \in 1 .. i - 1 : t[j] # "\\"})

Quotes(t) == {i \in DOMAIN t : t[i] = "\"" /\ BackslashesBefore(t, i) % 2 = 0}
Outside(t) ==
  LET quotes == Quotes(t) IN {i \in DOMAIN t : Cardinality({q \in quotes : q < i}) % 2 = 0} \ quotes

(* The pieces of t between the given positions. *)
CutAt(t, cuts) ==
  LET at == SetToSortSeq(cuts, LAMBDA a, b : a < b)
      all == <<0>> \o at \o <<Len(t) + 1>>
  IN IF IsEmpty(t) THEN <<>> ELSE [k \in 1 .. Len(at) + 1 |-> SubSeq(t, all[k] + 1, all[k + 1] - 1)]

Unescape(t) ==
  LET start == {i \in DOMAIN t : t[i] = "\\" /\ BackslashesBefore(t, i) % 2 = 0}
      char(c) == CASE c = "n" -> LF [] c = "r" -> CR [] c = "t" -> "\t" [] c = "f" -> "\f" [] OTHER -> c
      piece(i) ==
        CASE i \in start /\ t[i + 1] = "u" -> IF SubSeq(t, i + 2, i + 5) = <<"0", "0", "0", "1">> THEN <<"SOH">> ELSE <<"other">>
          [] i \in start -> <<char(t[i + 1])>>
          [] \E s \in start : i > s /\ i <= s + (IF t[s + 1] = "u" THEN 5 ELSE 1) -> <<>>
          [] OTHER -> <<t[i]>>
  IN FlattenSeq([i \in DOMAIN t |-> piece(i)])

ReadScalar(t) ==
  CASE t[1] = "\"" /\ Quotes(t) = {1, Len(t)} -> Str(Unescape(SubSeq(t, 2, Len(t) - 1)))
    [] t = <<"true">> -> Boolean(TRUE)
    [] t = <<"false">> -> Boolean(FALSE)
    [] Elements(t) \subseteq Digit -> Number(NumberOf(t, Len(t)))
    [] OTHER -> Nothing

ReadValue(t) ==
  LET inner == SubSeq(t, 2, Len(t) - 1)
      items == CutAt(inner, {i \in Outside(inner) : inner[i] = ","})
  IN IF t[1] = "[" /\ EndsIn(t, "]") THEN Array([i \in DOMAIN items |-> ReadScalar(items[i])])
     ELSE ReadScalar(t)

(* The commas between members are those outside of texts and of arrays. *)
ReadObject(t) ==
  LET inner == SubSeq(t, 2, Len(t) - 1)
      out   == Outside(inner)
      depth(i) == Cardinality({j \in out : j < i /\ inner[j] = "["}) - Cardinality({j \in out : j < i /\ inner[j] = "]"})
      members == CutAt(inner, {i \in out : inner[i] = "," /\ depth(i) = 0})
      colon(m) == Min({i \in Outside(m) : m[i] = ":"})
      key(m) == ReadScalar(SubSeq(m, 1, colon(m) - 1)).value[1]
      value(m) == ReadValue(From(m, colon(m) + 1))
  IN [k \in {key(members[i]) : i \in DOMAIN members} |->
        value(members[CHOOSE i \in DOMAIN members : key(members[i]) = k])]

AnswersJson == pc = "done" /\ ~(ask.route = "other" /\ answer.status = 200)

(***************************************************************************)
(* A reader of JSON gets from the answer what the handler put into it:     *)
(* texts with quotes, backslashes and control characters, numbers and      *)
(* arrays, under their keys.  It says success exactly under status 200,    *)
(* which a request gets whose link was stored or which asked for a         *)
(* statistic; and statistics that JSON was asked for by a header are those *)
(* of the code.                                                            *)
(***************************************************************************)
AnswerReadsBack ==
  AnswersJson =>
    LET read == ReadObject(answer.body)
    IN /\ answer.body[1] = "{" /\ EndsIn(answer.body, "}")
       /\ read = reply
       /\ read["success"].value <=> answer.status = 200
       /\ read["success"].value <=> Accepted \/ ask.route = "stats"
       /\ ask.route = "stats" /\ ask.by = "header" =>
            /\ read["total_clicks"].value = ask.total
            /\ \A i \in DOMAIN ask.days :
                 /\ read["dates"].value[i].value = ask.days[i].date
                 /\ read["click_counts"].value[i].value = ask.days[i].clicks

-----------------------------------------------------------------------------
(* A reader of PNG files with stored blocks. *)

Base64Value(c) == CHOOSE n \in 0 .. 63 : Base64Chars[n + 1] = c

(* Groups of four digits, of which the last may have one or two pads. *)
ReadBase64(t) ==
  LET pads == Cardinality({i \in DOMAIN t : t[i] = "="})
      v == [i \in DOMAIN t |-> IF t[i] = "=" THEN 0 ELSE Base64Value(t[i])]
      byte(k) ==
        LET g == 4 * ((k - 1) \div 3)
        IN CASE k % 3 = 1 -> 4 * v[g + 1] + (v[g + 2] \div 16)
             [] k % 3 = 2 -> 16 * (v[g + 2] % 16) + (v[g + 3] \div 4)
             [] k % 3 = 0 -> 64 * (v[g + 3] % 4) + v[g + 4]
  IN [k \in 1 .. 3 * (Len(t) \div 4) - pads |-> byte(k)]

Word32(t, i) == ((t[i] * 256 + t[i + 1]) * 256 + t[i + 2]) * 256 + t[i + 3]

(* The chunks: where each starts, by the length of the one before. *)
ChunkAt(png, i) == [type |-> SubSeq(png, i + 4, i + 7), data |-> Slice(png, i + 8, Word32(png, i)),
                    next |-> i + 12 + Word32(png, i)]

(* The stored blocks from position i on, and the checksum behind the last. *)
Inflate(z) ==
  LET inflated[i \in 1 .. Len(z)] ==
        LET length == z[i + 1] + 256 * z[i + 2]
            block == SubSeq(z, i + 5, i + 4 + length)
            complement == z[i + 3] + 256 * z[i + 4]
        IN IF complement # 65535 - length THEN [data |-> <<>>, checksum |-> <<>>]
           ELSE IF z[i] = 1 THEN [data |-> block, checksum |-> From(z, i + 5 + length)]
           ELSE IF i + 5 + length > Len(z) THEN [data |-> block, checksum |-> <<>>]
           ELSE [inflated[i + 5 + length] EXCEPT !.data = block \o @]
  IN inflated[3]

(* Adler-32 as RFC 1950 defines it, by two sums. *)
Checksum(data) ==
  LET n == Len(data)
      a == (1 + MapThenSumSet(LAMBDA i : data[i], 1 .. n)) % 65521
      b == (n + MapThenSumSet(LAMBDA i : (n - i + 1) * data[i], 1 .. n)) % 65521
  IN <<b \div 256, b % 256, a \div 256, a % 256>>

Shows(png, matrix) ==
  LET head  == ChunkAt(png, 9)
      image == ChunkAt(png, head.next)
      width == Word32(head.data, 1)
      rows  == Inflate(image.data)
      scale == width \div (matrix.side + 2 * QuietZone)
      Pixel(x, y) == rows.data[y * (width + 1) + x + 2]
      Black(x, y) ==
        /\ x \in 0 .. matrix.side - 1 /\ y \in 0 .. matrix.side - 1
        /\ matrix.data[y * matrix.side + x + 1] = 1
  IN /\ SubSeq(png, 1, 8) = Signature
     /\ <<head.type, image.type>> = <<IHDR, IDAT>>
     /\ head.data = SubSeq(head.data, 1, 4) \o SubSeq(head.data, 1, 4) \o <<8, 0, 0, 0, 0>>
     /\ From(png, image.next) = <<0, 0, 0, 0>> \o IEND \o <<174, 66, 96, 130>>
     /\ scale >= 1 /\ width = scale * (matrix.side + 2 * QuietZone)
     /\ scale * matrix.side <= Max({QrSize, matrix.side})
     /\ Len(rows.data) = width * (width + 1)
     /\ rows.checksum = Checksum(rows.data)
     /\ \A y \in 0 .. width - 1 :
          /\ rows.data[y * (width + 1) + 1] = 0
          /\ \A x \in 0 .. width - 1 :
               Pixel(x, y) = IF Black((x \div scale) - QuietZone, (y \div scale) - QuietZone) THEN 0 ELSE 255

DataPrefix == <<"data", ":", "image/png", ";", "base64", ",">>

(***************************************************************************)
(* The image of a QR code, as a file or in base 64 in a data URL, is a PNG *)
(* file whose chunks, blocks and checksum fit together, and which shows    *)
(* the modules of the matrix in a white border of the right width.         *)
(***************************************************************************)
QrReadsBack ==
  pc = "done" /\ ask.matrix.side > 0 =>
    /\ ask.route = "other" /\ answer.status = 200 => Shows(answer.body, ask.matrix)
    /\ ask.route = "shorten" /\ Accepted =>
         LET url == reply["qr_code"].value
         IN /\ SubSeq(url, 1, 6) = DataPrefix
            /\ Shows(ReadBase64(From(url, 7)), ask.matrix)

=============================================================================
