------------------------------ MODULE Startup -------------------------------
(***************************************************************************)
(* The start of the server: main parses the file (ConfigParser), lets      *)
(* ServerConfig read the statements, turns its locations into handler      *)
(* registrations and gives them to the HandlerDispatcher, which routes     *)
(* each request from then on.                                              *)
(***************************************************************************)
EXTENDS ConfigParser, FiniteSetsExt

CONSTANTS
  Char,       \* the characters of words and URIs
  Spelling,   \* the characters of each word
  Number,     \* the number std::stoi reads from a word, where it reads one
  Uris        \* the URIs of requests, as characters

HandlerName == {"EchoHandler", "StaticHandler", "NotFoundHandler",
                "HealthHandler", "ApiHandler", "URLShortenerHandler"}

(* What main registers with HandlerRegistry. *)
Registry == HandlerName \cup {"SleepHandler"}

NoLocation == "no location"

ASSUME StartupAssumption ==
  /\ {"/", "/health"} \subseteq Word /\ NoLocation \notin Word
  /\ Spelling \in [Word -> Seq(Char) \ {<<>>}] /\ Spelling["/"] = <<"/">>
  /\ DOMAIN Number \subseteq Word /\ Uris \subseteq Seq(Char)
  /\ \A v, w \in Word : Spelling[v] = Spelling[w] => v = w

VARIABLES
  todo,         \* the top level statements ParseConfig has not read
  port,         \* port_
  locations,    \* locations_
  handlers      \* handler_registrations_ of the dispatcher

configVars == <<todo, port, locations, handlers>>
vars == <<parserVars, phase, configVars>>

NoPort == -1
PortNumber == 1 .. 65535
Config == open[1]

TypeOK ==
  /\ ParserTypeOK
  /\ phase \in {"parsing", "configuring", "serving", "refused"}
  /\ port \in {NoPort} \cup PortNumber
  /\ \A i \in DOMAIN locations : locations[i].path \in Word
  /\ \A path \in DOMAIN handlers : handlers[path].handler_name \in HandlerName
  /\ (handlers # <<>>) <=> phase = "serving"

Init == ParserInit /\ todo = <<>> /\ port = NoPort /\ locations = <<>> /\ handlers = <<>>

ParserStep ==
  /\ Parse
  /\ todo' = IF phase' = "configuring" THEN Config ELSE <<>>
  /\ UNCHANGED <<port, locations, handlers>>

-----------------------------------------------------------------------------
(* ServerConfig::ParseConfig. *)

IsDirective(st, name, length) == st.tokens[1] = name /\ Len(st.tokens) >= length

PortOf(st) == st.tokens[2]
\* Mutant of PortIsValid: the range is not checked.
PortIsNumber(st) == PortOf(st) \in DOMAIN Number
PortIsValid(st) == PortOf(st) \in DOMAIN Number /\ Number[PortOf(st)] \in PortNumber

ChildBlock(st) == IF st.child_block = {} THEN <<>> ELSE CHOOSE b \in st.child_block : TRUE
Argument(st, i) == ChildBlock(st)[i].tokens
Arguments(st) == {i \in DOMAIN ChildBlock(st) : Len(Argument(st, i)) >= 2}

(* Some names always have strings; other values are what they look like. *)
ValueKind(name, value) ==
  IF name \in {"root", "path", "file"} THEN "string"
  ELSE IF value \in DOMAIN Number THEN "int"
  ELSE IF value \in {"true", "yes", "false", "no"} THEN "bool"
  ELSE "string"

(* args: of arguments with the same name, the last counts. *)
Named(st, name) == {i \in Arguments(st) : Argument(st, i)[1] = name}
Value(st, name) == Argument(st, Max(Named(st, name)))[2]

TypedArguments(st) ==
  [name \in {Argument(st, i)[1] : i \in Arguments(st)} |->
    [kind |-> ValueKind(name, Value(st, name)), text |-> Value(st, name)]]

TrailingSlash(path) == Len(Spelling[path]) > 1 /\ Last(Spelling[path]) = "/"

LocationIsValid(st) ==
  /\ ~TrailingSlash(st.tokens[2])
  /\ \A i \in Arguments(st) : Argument(st, i)[2] \notin Quoted
  /\ st.tokens[3] = "StaticHandler" => "root" \in DOMAIN TypedArguments(st)

LocationOf(st) ==
  [path |-> st.tokens[2], handler_type |-> st.tokens[3], args |-> TypedArguments(st)]

(* One turn of the loop; a statement of neither form is skipped. *)
ConfigureNext ==
  /\ phase = "configuring" /\ todo # <<>>
  /\ LET st == Head(todo)
         isPort == IsDirective(st, "listen", 2)
         isLocation == IsDirective(st, "location", 3)
     IN IF (isPort /\ ~PortIsValid(st)) \/ (isLocation /\ ~LocationIsValid(st))
        THEN phase' = "refused" /\ UNCHANGED <<parserVars, configVars>>
        ELSE /\ todo' = Tail(todo)
             /\ port' = IF isPort THEN Number[PortOf(st)] ELSE port
             /\ locations' = IF isLocation THEN Append(locations, LocationOf(st)) ELSE locations
             /\ UNCHANGED <<parserVars, phase, handlers>>

(* AddDefaultNotFoundHandler. *)
WithDefault ==
  IF \E i \in DOMAIN locations : locations[i].path = "/" THEN locations
  ELSE Append(locations, [path |-> "/", handler_type |-> "NotFoundHandler", args |-> <<>>])

\* Mutant of ConfigurationIsValid: duplicate locations are not looked for.
OnlyPortIsValid(locs) == port # NoPort
(* ValidateConfiguration. *)
ConfigurationIsValid(locs) ==
  /\ port # NoPort
  /\ \A i, j \in DOMAIN locs : locs[i].path = locs[j].path => i = j

-----------------------------------------------------------------------------
(* CreateHandlerRegistrations, and what main makes of them. *)

(* TypedArgsToStringVector: what is no string is replaced by the default. *)
StringArgument(loc, name, default) ==
  IF name \in DOMAIN loc.args /\ loc.args[name].kind = "string"
  THEN loc.args[name].text ELSE default

HandlerArguments(loc) ==
  CASE loc.handler_type = "StaticHandler" -> <<loc.path, StringArgument(loc, "root", "./")>>
    [] loc.handler_type = "ApiHandler" -> <<loc.path, StringArgument(loc, "data_path", "./")>>
    [] loc.handler_type = "URLShortenerHandler" ->
         << loc.path,
            StringArgument(loc, "upload_dir", "./data/uploads"),
            StringArgument(loc, "db_path", "./data/shortener.db"),
            StringArgument(loc, "base_url", "http://localhost:8080") >>
    [] OTHER -> <<>>

Registration(name, args) == [handler_name |-> name, args |-> args]

(* Locations with other handlers are skipped with a warning. *)
Registrations(locs) ==
  LET known == {i \in DOMAIN locs : locs[i].handler_type \in HandlerName}
      At(path) == locs[CHOOSE i \in known : locs[i].path = path]
  IN [path \in {locs[i].path : i \in known} |->
       Registration(At(path).handler_type, HandlerArguments(At(path)))]

WithHealth(regs) ==
  [path \in DOMAIN regs \cup {"/health"} |->
    IF path \in DOMAIN regs THEN regs[path] ELSE Registration("HealthHandler", <<>>)]

StartServing ==
  /\ phase = "configuring" /\ todo = <<>>
  /\ locations' = WithDefault
  /\ IF ConfigurationIsValid(locations')
     THEN phase' = "serving" /\ handlers' = WithHealth(Registrations(locations'))
     ELSE phase' = "refused" /\ UNCHANGED handlers
  /\ UNCHANGED <<parserVars, todo, port>>

Next == ParserStep \/ ConfigureNext \/ StartServing

Spec == Init /\ [][Next]_vars

-----------------------------------------------------------------------------
(* HandlerDispatcher::CreateHandlerForRequest. *)

\* Mutant of Matches: any prefix of the URI will do.
MatchesPrefix(location, uri) == IsPrefix(Spelling[location], uri)
Matches(location, uri) ==
  LET path == Spelling[location]
  IN /\ IsPrefix(path, uri)
     /\ location = "/" \/ Len(uri) = Len(path) \/ uri[Len(path) + 1] = "/"

FindLongestPrefixMatch(uri) ==
  LET matches == {location \in DOMAIN handlers : Matches(location, uri)}
  IN IF matches = {} THEN NoLocation
     ELSE CHOOSE location \in matches :
            \A other \in matches : Len(Spelling[location]) >= Len(Spelling[other])

LocationFor(uri) ==
  LET best == FindLongestPrefixMatch(uri)
  IN IF best # NoLocation THEN best ELSE IF "/" \in DOMAIN handlers THEN "/" ELSE NoLocation

(* The constructors of two handlers throw when the path does not start     *)
(* with a slash, and the request is then answered with 404.                *)
Creates(location) ==
  /\ location # NoLocation
  /\ handlers[location].handler_name \in {"StaticHandler", "ApiHandler"} =>
       Spelling[location][1] = "/"

CreateHandlerForRequest(uri) ==
  LET location == LocationFor(uri)
  IN IF Creates(location) THEN {handlers[location]} ELSE {}

=============================================================================
