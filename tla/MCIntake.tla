------------------------------ MODULE MCIntake ------------------------------
(***************************************************************************)
(* Intake for TLC: URLs by their parts, forms, uploads, file names,        *)
(* statistics and matrices, each varied on its own.                        *)
(***************************************************************************)
EXTENDS IntakeProps

MCKeys == <<"click_counts", "code", "dates", "error_message", "filename", "qr_code",
            "short_url", "success", "total_clicks">>

NoMatrix == [side |-> 0, data |-> <<>>]
None == {<<>>}

-----------------------------------------------------------------------------
(* URLs. *)

Http == <<"http">> \o Separator
Https == <<"HTTPS">> \o Separator
Names ==
  {<<>>, <<"a">>, <<".">>, <<"a", ".", ".", ".">>, <<".", "com">>, <<"a", ".", ".", "com">>,
   <<"a", ".", "com">>, <<"A", ".", "com">>, <<"a", ".", "com", ".">>, <<"a", ".", "com", ".", ".">>,
   <<"a", ".", "com", ".", ".", ".">>, <<"a", ".", "com", ".", ".", ".", ".">>,
   <<"-", ".", "com">>, <<"a", "-", ".", "com">>, <<"a", "-", "a", ".", "com">>, <<"a", "!", ".", "com">>,
   <<"_", "%", ".", "com">>, <<"a", ".", "com", "1">>, <<"a", "a", "a", ".", "com">>,
   <<"a", "a", "a", "a", ".", "com">>, <<"localhost">>, <<"a", ".", "localhost">>,
   <<"localhost", ".", "com">>, <<"malware", ".", "com">>, <<"malware", ".", "com", ".">>,
   <<"a", ".", "malware", ".", "com">>, <<"1", "0", ".", "com">>, <<"1", ".", "0", ".", "com">>,
   <<"a", ".", "b", ".", "a", ".", "b", ".", "a", ".", "b", ".", "a", ".", "com">>,
   <<"a", ".", "b", ".", "a", ".", "b", ".", "a", ".", "b", ".", "a", "a", ".", "com">>}
Addresses ==
  {<<"1", ".", "2", ".", "3">>, <<"1", ".", "2", ".", "3", ".">>, <<"1", ".", "2", ".", "3", ".", "4">>,
   <<"1", ".", "2", ".", "3", ".", "4", ".">>, <<"1", ".", "2", ".", "3", ".", "4", ".", ".">>,
   <<"1", ".", "2", ".", "3", ".", "4", ".", ".", ".">>, <<"1", ".", "2", ".", "0", "3", ".", "4">>,
   <<"1", ".", ".", "2", ".", "3">>, <<"1", ".", "2", ".", "3", ".", "2", "5", "6">>,
   <<"2", "5", "5", ".", "2", "5", "5", ".", "2", "5", "5", ".", "2", "5", "5">>,
   <<"1", ".", "2", ".", "3", ".", "1", "0", "0", "0">>, <<"1", "0", ".", "1", ".", "2", ".", "3">>,
   <<"1", "7", "2", ".", "1", ".", "2", ".", "3">>, <<"1", "2", "7", ".", "0", ".", "0", ".", "1">>,
   <<"0", ".", "0", ".", "0", ".", "0">>, <<"[", ":", ":", "1", "]">>, <<"[", "a", ":", "B", "]">>,
   <<"[", "a", "b", "]">>, <<"[", "]">>, <<"[", "a", ":">>, <<"[", "a", ":", "b", "]", "a">>}

Url(scheme, user, host, port, path, query, fragment) ==
  [scheme |-> scheme, user |-> user, host |-> host, port |-> port, path |-> path,
   query |-> query, fragment |-> fragment]

Urls ==
  {Url(s, u, h, p, <<>>, <<>>, <<>>) :
     s \in {<<>>, Http, Https}, u \in {<<>>, <<"u", "@">>}, h \in Names \cup Addresses,
     p \in {<<>>, <<":", "4", "4", "3">>}}
  \cup
  {Url(s, u, h, p, path, <<>>, <<>>) :
     s \in {<<>>, Http, Https, <<"ftp">> \o Separator},
     u \in {<<>>, <<"@">>, <<"u", ":", "p", "@">>, <<"u", "[", "@">>},
     h \in {<<"a", ".", "com">>, <<"[", "a", ":", "b", "]">>},
     p \in {<<>>, <<":">>, <<":", "0">>, <<":", "8", "0">>, <<":", "4", "4", "3">>, <<":", "a">>,
            <<":", "6", "5", "5", "3", "5">>, <<":", "6", "5", "5", "3", "6">>,
            <<":", "0", "0", "0", "0", "8", "0">>},
     path \in {<<>>, <<"/", "x">>}}
  \cup
  {Url(s, <<>>, <<"a", ".", "com">>, p, path, q, f) :
     s \in {Http, Https}, p \in {<<>>, <<":", "4", "4", "3">>},
     path \in {<<>>, <<"/">>, <<"/", "x", ":", "+", "8", "0">>, <<"/", "x", ":", "y">>, <<"/", "x", "@", "y">>, <<"/", "[">>,
               <<"/", "x", "@", "y", ":", "4", "4", "3", "/">>},
     q \in {<<>>, <<"?">>, <<"?", "/", "?">>, <<"?", "A", "@", "B">>, <<"?", ":">>},
     f \in {<<>>, <<"#", "f", "#", ":">>, <<"#", "<">>}}

UrlName == <<"url">>
UrlAsk(url, matrix) ==
  [route |-> "shorten", url |-> url, pairs |-> <<[name |-> UrlName, value |-> PartsOf(url)]>>,
   matrix |-> matrix]

-----------------------------------------------------------------------------
(* Forms. *)

Pairs ==
  [name : {<<>>, UrlName, <<"a", " ", "&">>, <<"%", "=">>},
   value : {<<>>, <<"a">>, <<"=", "&", "+">>, <<"%", "4", "1">>, <<" ", "\t", CR, LF>>, <<"b", LF>>}]

FormAsks ==
  [route : {"shorten"}, pairs : UNION {[1 .. n -> Pairs] : n \in 0 .. 2}, matrix : {NoMatrix}]

-----------------------------------------------------------------------------
(* Uploads. *)

Txt == <<".", "txt">>
Part(name, filename, quoted, content) ==
  [name |-> name, filename |-> filename, quoted |-> quoted, content |-> content]
UploadAsk(parts, eol, header, quoted) ==
  [route |-> "upload", parts |-> parts, eol |-> eol, header |-> header, quoted |-> quoted, matrix |-> NoMatrix]

FileName == <<"file">>
Contents ==
  {<<>>, <<"x">>, <<LF>>, <<CR, LF>>, <<"x", CR>>, <<"-", "-">>, CRLF \o CRLF, <<LF, LF, "x">>,
   <<"x", "x", "x">>, <<"x", "x", "x", "x">>, <<"x", "x", "x", "x", "x">>}
Parts ==
  {Part(n, f, TRUE, c) : n \in {<<>>, FileName, <<"x">>}, f \in {<<>>, <<"a">> \o Txt}, c \in Contents}
FewParts ==
  {Part(n, f, FALSE, c) : n \in {FileName, <<"x">>}, f \in {<<>>, <<"a">> \o Txt},
     c \in {<<"x">>, <<CR, LF>>, CRLF \o CRLF, <<"x", "x", "x", "x", "x">>}}

Stems == UNION {[1 .. n -> {".", " ", "_", "/", "a", "CON", "\t"}] : n \in 0 .. 3}
FileNames ==
  {stem \o Txt : stem \in Stems} \cup {stem \o <<".", "TXT">> : stem \in {<<"a">>, <<"con">>}}
    \cup {<<"a", "a", "a", "a", "a">> \o Txt, <<"a", "a", ".", "a", "a">> \o Txt, <<"a">>, <<"a", ".", "exe">>}
Types ==
  {Part(FileName, <<"a", ".", e>>, TRUE, c) :
     e \in {"txt", "png", "c", "odt"}, c \in {<<"PNG">>, <<"ZIP", "x">>, <<"SOH">>, <<"x", "\f">>}}
(* Names that a text in quotes cannot hold as they are. *)
Odd ==
  {Part(FileName, f, FALSE, <<"x">>) :
     f \in {<<"a", "\"">> \o Txt, <<"\\">> \o Txt, <<"\\", "\\", "\"">> \o Txt, <<"a", ".", "\"", "\\">>,
            <<"a", "\f", "SOH">> \o Txt}}

UploadAsks ==
  {UploadAsk(<<p>>, eol, h, q) :
     p \in Parts, eol \in {CRLF, <<LF>>}, h \in {"Content-Type"}, q \in BOOLEAN}
  \cup {UploadAsk(<<p, q>>, eol, "content-type", FALSE) : p \in FewParts, q \in FewParts, eol \in {CRLF, <<LF>>}}
  \cup {UploadAsk(<<Part(FileName, f, TRUE, <<"x">>)>>, CRLF, "Content-Type", FALSE) : f \in FileNames}
  \cup {UploadAsk(<<p>>, CRLF, "Content-Type", FALSE) : p \in Types \cup Odd}
  \cup {UploadAsk(<<>>, CRLF, "Content-Type", FALSE), UploadAsk(<<>>, CRLF, "User-Agent", FALSE)}

-----------------------------------------------------------------------------
(* Statistics, images and other paths. *)

Day(date, clicks) == [date |-> date, clicks |-> clicks]
StatsAsks ==
  [route : {"stats"}, by : {"header", "query"}, total : {0, 7, 120},
   days : {<<>>, <<Day(<<"2", "-", "1">>, 7)>>, <<Day(<<"2", "-", "1">>, 0), Day(<<"2", "-", "2">>, 10)>>},
   matrix : {NoMatrix}]

Matrix(side, Black(_)) == [side |-> side, data |-> [i \in 1 .. side * side |-> IF Black(i) THEN 1 ELSE 0]]
Matrices ==
  {[side |-> 2, data |-> d] : d \in [1 .. 4 -> 0 .. 1]}
    \cup {Matrix(3, LAMBDA i : i \in S) : S \in {{2}, {1, 6, 8}, {3, 4, 5}}}
    \cup {Matrix(6, LAMBDA i : i % 5 < 2)}

OtherAsk(method, uri, matrix) == [route |-> "other", method |-> method, uri |-> uri, matrix |-> matrix]
OtherAsks ==
  {OtherAsk("GET", uri, NoMatrix) :
     uri \in {<<"/shorten">>, <<"/upload">>, <<"/nothing">>, <<"/stats/">>, <<"/qr/">>, <<"/qr/">> \o Code}}
  \cup {OtherAsk("GET", <<"/qr/">> \o Code, matrix) : matrix \in Matrices}

-----------------------------------------------------------------------------

MCAsks ==
  {UrlAsk(url, NoMatrix) : url \in Urls}
    \cup {UrlAsk(Url(Http, <<>>, <<"a", ".", "com">>, <<>>, <<>>, <<>>, <<>>), matrix) : matrix \in Matrices}
    \cup FormAsks \cup UploadAsks \cup StatsAsks \cup OtherAsks

(* The hypotheses of the theorems on uploads and URLs hold of those above. *)
ASSUME UploadsAreWellFormed == WellFormedUploads
ASSUME UrlsAreWellFormed == WellFormedUrls

=============================================================================
