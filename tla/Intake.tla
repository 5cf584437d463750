------------------------------- MODULE Intake -------------------------------
(***************************************************************************)
(* What a single request means: from the text that a client sends, through *)
(* the parsers and validators, to the link or file that the services get,  *)
(* and to the text of the answer.  Shortener models what the services then *)
(* do with it; here the code is given, and the service succeeds.           *)
(***************************************************************************)
EXTENDS HttpParser, UrlValidator, FileValidator, JsonBuilder, QrGenerator

(***************************************************************************)
(* The requests of clients:                                                *)
(*   shorten   the fields of a form, in order, each a name and a value     *)
(*   upload    the parts of a multipart form, how lines end in it, how the *)
(*             name of the header is written and whether the boundary is   *)
(*             quoted                                                      *)
(*   stats     what the database holds of Code, and how JSON is asked for  *)
(*   other     a method and a path                                         *)
(* and the matrix that libqrencode makes of the short URL.                 *)
(***************************************************************************)
CONSTANTS
  Asks,
  QrSize        \* 200, the size of the images that are asked for

(* The characters that a form may have: UrlEncode knows how to write them. *)
FormChar == {c \in STRING : IsLetterOrDigit(c)} \cup DOMAIN Byte \cup {" ", "-", "_", ".", "~"}

ASSUME AsksAssumption ==
  \A a \in Asks :
    \/ /\ a.route = "shorten"
       /\ a.pairs \in Seq([name : Seq(FormChar), value : Seq(FormChar)])
    \/ /\ a.route = "upload" /\ a.header \in STRING /\ a.eol \in {CRLF, <<LF>>}
       /\ a.parts \in Seq([name : Seq(STRING), filename : Seq(STRING), quoted : BOOLEAN,
                           content : Seq(STRING)])
    \/ a.route = "stats"
    \/ a.route = "other" /\ a.method \in STRING /\ a.uri \in Seq(STRING)

Boundary == <<"-", "b">>
Code == <<"code">>
ShortUrl(prefix) == <<"http", ":", "/", "/", "b">> \o prefix \o Code

VARIABLES
  pc,         \* the step of the handler that is next
  ask,        \* what the client asked
  raw,        \* the text of the request
  body,       \* Request::body_
  fields,     \* what parse_form_data returned
  pos,        \* pos of parse_multipart_form
  files,      \* files of parse_multipart_form
  stored,     \* what the service gets: a link, a file, or nothing
  reply,      \* history: the fields that are added to the answer
  answer      \* the status and the body of the answer

vars == <<pc, ask, raw, body, fields, pos, files, stored, reply, answer>>

Nothing == [kind |-> "nothing"]

Init ==
  /\ pc = "compose" /\ ask = [route |-> "none"]
  /\ raw = <<>> /\ body = <<>>
  /\ fields = NoFields /\ pos = npos /\ files = NoFields
  /\ stored = Nothing /\ reply = NoFields /\ answer = [status |-> 0, body |-> <<>>]

-----------------------------------------------------------------------------
(* The client. *)

FormBody(pairs) ==
  FlattenSeq([i \in DOMAIN pairs |->
    (IF i = 1 THEN <<>> ELSE <<"&">>)
      \o UrlEncode(pairs[i].name) \o <<"=">> \o UrlEncode(pairs[i].value)])

PartText(part, eol) ==
  <<"-", "-">> \o Boundary \o eol
    \o <<"Content-Disposition", ":", " ", "form-data", ";", " ", "name", "=", "\"">> \o part.name \o <<"\"">>
    \o (IF IsEmpty(part.filename) THEN <<>>
        ELSE IF part.quoted THEN <<";", " ", "file", "name", "=", "\"">> \o part.filename \o <<"\"">>
        ELSE <<";", " ", "file", "name", "=">> \o part.filename)
    \o eol \o eol \o part.content \o eol

MultipartBody(parts, eol) ==
  FlattenSeq([i \in DOMAIN parts |-> PartText(parts[i], eol)])
    \o <<"-", "-">> \o Boundary \o <<"-", "-">> \o eol

RequestText(method, uri, header, value, content, eol) ==
  <<method, " ">> \o uri \o <<" ", "HTTP/1.1">> \o eol
    \o <<"Host", ":", " ", "b">> \o eol
    \o <<header, ":", " ">> \o value \o eol \o eol
    \o content

TextOf(a) ==
  CASE a.route = "shorten" ->
         RequestText("POST", <<"/shorten">>, "Content-Type", <<"urlencoded">>, FormBody(a.pairs), CRLF)
    [] a.route = "upload" ->
         RequestText("POST", <<"/upload">>, a.header,
                     <<"multipart", ";", " ", "boundary", "=">> \o
                       (IF a.quoted THEN <<"\"">> \o Boundary \o <<"\"">> ELSE Boundary),
                     MultipartBody(a.parts, a.eol), a.eol)
    [] a.route = "stats" ->
         RequestText("GET", <<"/stats/">> \o Code \o (IF a.by = "query" THEN <<"?raw=1">> ELSE <<>>),
                     IF a.by = "query" THEN "User-Agent" ELSE "Accept", <<"application/json">>, <<>>, CRLF)
    [] a.route = "other" -> RequestText(a.method, a.uri, "Accept", <<"text/html">>, <<>>, CRLF)

Compose ==
  /\ pc = "compose"
  /\ \E a \in Asks : ask' = a /\ raw' = TextOf(a)
  /\ pc' = "handle_request"
  /\ UNCHANGED <<body, fields, pos, files, stored, reply, answer>>

-----------------------------------------------------------------------------
(* The answers. *)

Respond(status, content) ==
  /\ reply' = content
  /\ answer' = [status |-> status, body |-> Build(content)]
  /\ pc' = "done"

Fail(status, message) ==
  Respond(status, ("success" :> Boolean(FALSE)) @@ ("error_message" :> Str(message)))

Succeed(content) == Respond(200, content @@ ("success" :> Boolean(TRUE)))

(* What shorten_url and upload_file return of a link with this prefix. *)
LinkMade(prefix) ==
  ("code" :> Str(Code)) @@ ("short_url" :> Str(ShortUrl(prefix)))
    @@ ("qr_code" :> Str(GenerateDataUrl(ask.matrix, QrSize)))

-----------------------------------------------------------------------------
(***************************************************************************)
(* handle_request: the route by the path.  The main page and the redirects *)
(* are not asked for here.                                                 *)
(***************************************************************************)

CodeOf(request) == Tail(request.uri)

HandleRequest ==
  /\ pc = "handle_request"
  /\ LET request == ParseRequest(raw)
         Refuse == ~(request.method = <<"POST">>) /\ Fail(405, <<"Method not allowed">>)
         Go(step) == pc' = step /\ UNCHANGED <<reply, answer>>
     IN /\ body' = request.body
        /\ \/ /\ request.uri = <<"/shorten">>
              /\ Refuse \/ (request.method = <<"POST">> /\ Go("parse_form_data"))
           \/ /\ request.uri = <<"/upload">>
              /\ Refuse \/ (request.method = <<"POST">> /\ Go("extract_uploaded_file"))
           \/ request.uri[1] = "/stats/" /\ Go("handle_stats")
           \/ request.uri[1] = "/qr/" /\ Go("handle_qr_code")
           \/ /\ request.uri \notin {<<"/shorten">>, <<"/upload">>} /\ request.uri[1] \notin {"/stats/", "/qr/"}
              /\ Fail(404, <<"Not Found">>)
  /\ UNCHANGED <<ask, raw, fields, pos, files, stored>>

-----------------------------------------------------------------------------
(* handle_shorten_url *)

ParseForm ==
  /\ pc = "parse_form_data"
  /\ fields' = ParseFormData(body)
  /\ IF <<"url">> \in DOMAIN fields' /\ ~IsEmpty(fields'[<<"url">>])
     THEN pc' = "shorten_url" /\ UNCHANGED <<reply, answer>>
     ELSE Fail(400, <<"URL parameter required">>)
  /\ UNCHANGED <<ask, raw, body, pos, files, stored>>

ShortenUrl ==
  /\ pc = "shorten_url"
  /\ LET result == ValidateAndNormalize(fields[<<"url">>])
     IN IF result.is_valid
        THEN /\ stored' = [kind |-> "url", url |-> result.normalized_url]
             /\ Succeed(LinkMade(<<"/", "r", "/">>))
        ELSE stored' = stored /\ Fail(400, <<"Invalid URL">>)
  /\ UNCHANGED <<ask, raw, body, fields, pos, files>>

-----------------------------------------------------------------------------
(* handle_upload_file *)

BoundaryOf(request) == ExtractBoundary(GetHeader(request, <<"Content-Type">>))

NoFileUploaded == Fail(400, <<"No file uploaded">>) /\ UNCHANGED <<pos, files>>

(* extract_boundary, and the first boundary of the body. *)
FindFirstBoundary ==
  /\ pc = "extract_uploaded_file"
  /\ LET boundary == BoundaryOf(ParseRequest(raw))
         first == Find(body, Marker(boundary), 1)
     IN IF IsEmpty(boundary) \/ first = npos THEN NoFileUploaded
        ELSE /\ pos' = first + Len(Marker(boundary))
             /\ pc' = "parse_part"
             /\ UNCHANGED <<files, reply, answer>>
  /\ UNCHANGED <<ask, raw, body, fields, stored>>

(* One round of the loop; a part that is too long is dropped. *)
ParsePart ==
  /\ pc = "parse_part"
  /\ LET part == PartAt(body, BoundaryOf(ParseRequest(raw)), pos)
     IN IF ~part.found THEN pc' = "file_of_form" /\ UNCHANGED <<pos, files, fields>>
        ELSE /\ pc' = IF part.last THEN "file_of_form" ELSE "parse_part"
             /\ pos' = part.behind
             /\ files' = IF IsEmpty(part.name) \/ IsEmpty(part.filename) \/ Len(part.content) > MaxFile
                         THEN files
                         ELSE With(files, part.name, [filename |-> part.filename, data |-> part.content])
             /\ fields' = IF IsEmpty(part.name) \/ ~IsEmpty(part.filename) \/ Len(part.content) > MaxField
                          THEN fields
                          ELSE With(fields, part.name, part.content)
  /\ UNCHANGED <<ask, raw, body, stored, reply, answer>>

NoFileField == <<"file">> \notin DOMAIN files

(* What upload_file checks, and the name it stores the file under. *)
UploadFile ==
  /\ pc = "file_of_form"
  /\ IF NoFileField THEN stored' = stored /\ Fail(400, <<"No file uploaded">>)
     ELSE LET file  == files[<<"file">>]
              valid == ValidateFileType(file.filename, file.data)
          IN IF ~valid.is_valid THEN stored' = stored /\ Fail(400, valid.error_message)
             ELSE IF Len(file.data) > MaxFile
               THEN stored' = stored /\ Fail(400, <<"File size exceeds maximum limit (25MB)">>)
             ELSE /\ stored' = [kind |-> "file", filename |-> file.filename, data |-> file.data,
                                name |-> SanitizeFilename(file.filename)]
                  /\ Succeed(LinkMade(<<"/", "f", "/">>) @@ ("filename" :> Str(file.filename)))
  /\ UNCHANGED <<ask, raw, body, fields, pos, files>>

-----------------------------------------------------------------------------
(* handle_stats, when it is asked for JSON, and handle_qr_code *)

(* The query is not cut off the path: with one, the code is no link's. *)
HandleStats ==
  /\ pc = "handle_stats"
  /\ LET code == CodeOf(ParseRequest(raw))
         days == IF code = Code THEN ask.days ELSE <<>>
     IN IF IsEmpty(code) THEN Fail(400, <<"Invalid code">>)
        ELSE Succeed(("code" :> Str(code))
                       @@ ("total_clicks" :> Number(IF code = Code THEN ask.total ELSE 0))
                       @@ ("dates" :> Array([i \in DOMAIN days |-> Str(days[i].date)]))
                       @@ ("click_counts" :> Array([i \in DOMAIN days |-> Number(days[i].clicks)])))
  /\ UNCHANGED <<ask, raw, body, fields, pos, files, stored>>

(* Nobody looks whether there is such a link. *)
HandleQrCode ==
  /\ pc = "handle_qr_code"
  /\ IF IsEmpty(CodeOf(ParseRequest(raw))) THEN Fail(400, <<"Invalid code">>)
     ELSE /\ answer' = [status |-> 200, body |-> QrToPng(ask.matrix, QrSize)]
          /\ pc' = "done"
          /\ UNCHANGED reply
  /\ UNCHANGED <<ask, raw, body, fields, pos, files, stored>>

-----------------------------------------------------------------------------

Next ==
  \/ Compose \/ HandleRequest
  \/ ParseForm \/ ShortenUrl
  \/ FindFirstBoundary \/ ParsePart \/ UploadFile
  \/ HandleStats \/ HandleQrCode

Spec == Init /\ [][Next]_vars

=============================================================================
