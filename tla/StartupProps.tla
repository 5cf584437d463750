---------------------------- MODULE StartupProps ----------------------------
(***************************************************************************)
(* What the configuration file promises, and what the started server does. *)
(***************************************************************************)
EXTENDS Startup, Text

(***************************************************************************)
(* The positions of the file that count: not the comments, and not a word  *)
(* at its end that no delimiter follows.                                   *)
(***************************************************************************)
Kept ==
  {i \in DOMAIN file :
    file[i] # Comment /\ ~(cut /\ i = Len(file) /\ file[i] \in Word \ Quoted)}

KeptUpTo(n) == {i \in Kept : i <= n}

(* Just before position i is a lexeme of this set. *)
Follows(i, set) ==
  \E j \in Kept : j < i /\ file[j] \in set /\ \A k \in Kept : k <= j \/ k >= i

Depth(n) ==
  Cardinality({i \in KeptUpTo(n) : file[i] = "{"})
    - Cardinality({i \in KeptUpTo(n) : file[i] = "}"})

(* The next word behind position i is at j. *)
NextWord(i, j) ==
  i < j /\ file[j] \in Word /\ \A k \in Kept : file[k] \in Word => k <= i \/ k >= j

(***************************************************************************)
(* The language of Parse: statements end behind a word, blocks open behind *)
(* a word and close behind a statement, braces balance, and the word after *)
(* listen is a number.                                                     *)
(***************************************************************************)
WellPlaced(i) ==
  /\ file[i] \in {";", "{"} => Follows(i, Word)
  /\ file[i] = "}" => Follows(i, Mark)
  /\ file[i] # BadQuote
  /\ Depth(i) >= 0
  /\ \A j \in Kept : file[j] = "listen" /\ NextWord(j, i) => file[i] \in Digits

WellFormed ==
  /\ \A i \in Kept : WellPlaced(i)
  /\ \A i \in Kept : file[i] \in Word => \E j \in Kept : j > i
  /\ Depth(Len(file)) = 0
  /\ ~(cut /\ file # <<>> /\ Last(file) \in Quoted)

Parsed == phase \in {"configuring", "serving"} \/ (phase = "refused" /\ Token = "eof" /\ Accepts)

(***************************************************************************)
(* Parse accepts the well-formed files and no others: the check by the     *)
(* last token, the stack and expect_listen_arg amounts to the grammar.     *)
(***************************************************************************)
AcceptsWellFormed == phase # "parsing" => (Parsed <=> WellFormed)

Declared ==
  {i \in DOMAIN Config : IsDirective(Config[i], "location", 3)}
Ports == {i \in DOMAIN Config : IsDirective(Config[i], "listen", 2)}
HasHandler(st) ==
  /\ st.tokens[2] \in DOMAIN handlers
  /\ handlers[st.tokens[2]].handler_name = st.tokens[3]
RootIsKept(st) ==
  st.tokens[3] = "StaticHandler" =>
    \E i \in Arguments(st) :
      /\ Argument(st, i)[1] = "root"
      /\ \A j \in Arguments(st) : Argument(st, j)[1] = "root" => j <= i
      /\ handlers[st.tokens[2]].args = <<st.tokens[2], Argument(st, i)[2]>>

RegistersTheConfiguration ==
  phase = "serving" =>
    /\ Ports # {} /\ port = Number[PortOf(Config[Max(Ports)])]
    /\ \A i \in Declared : Config[i].tokens[3] \in HandlerName =>
         HasHandler(Config[i]) /\ RootIsKept(Config[i])
    /\ \A path \in DOMAIN handlers :
         \/ \E i \in Declared : Config[i].tokens[2] = path /\ HasHandler(Config[i])
         \/ path = "/" /\ handlers[path].handler_name = "NotFoundHandler"
         \/ path = "/health" /\ handlers[path].handler_name = "HealthHandler"

SlashIsAnswered ==
  phase = "serving"
  /\ (\A i \in Declared : Config[i].tokens[2] = "/" => Config[i].tokens[3] \in HandlerName)
    => \A uri \in Uris : IsPrefix(<<"/">>, uri) => CreateHandlerForRequest(uri) # {}

(***************************************************************************)
(* A server that serves has the port of its last listen, one handler of    *)
(* the type and with the strings of each location of a type that           *)
(* ServerConfig knows, and of its own only NotFound at / and Health.       *)
(* Unless the file gives / to a handler that ServerConfig does not know,   *)
(* every URI that starts with a slash is answered by a handler: the        *)
(* location that matches best is never one whose handler cannot be made.   *)
(***************************************************************************)
ServesTheConfiguration == RegistersTheConfiguration /\ SlashIsAnswered

(* The parts of a path between its slashes. *)
Components(path) == SplitAt(path, "/")
Reaches(location, uri) == IsPrefix(Components(Spelling[location]), Components(uri))

(***************************************************************************)
(* A request goes to the registered location whose components are the      *)
(* longest list of first components of its URI; without one, to /.         *)
(***************************************************************************)
RoutedByComponents ==
  phase = "serving" => \A uri \in Uris :
    LET candidates == {l \in DOMAIN handlers \ {"/"} : Reaches(l, uri)}
    IN IF candidates = {}
       THEN LocationFor(uri) = IF "/" \in DOMAIN handlers THEN "/" ELSE NoLocation
       ELSE /\ LocationFor(uri) \in candidates
            /\ \A l \in candidates :
                 Len(Components(Spelling[l])) <= Len(Components(Spelling[LocationFor(uri)]))

-----------------------------------------------------------------------------
(* A claim of the repository that the code does not keep. *)

(***************************************************************************)
(* config/complete_server_config.conf:34 has "location /sleep SleepHandler *)
(* {", and main registers SleepHandler; CreateHandlerRegistrations skips   *)
(* the location.                                                           *)
(***************************************************************************)
RegisteredHandlersServe ==
  phase = "serving" =>
    \A i \in Declared : Config[i].tokens[3] \in Registry => HasHandler(Config[i])

=============================================================================
