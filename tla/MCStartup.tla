----------------------------- MODULE MCStartup ------------------------------
(* Short files over few lexemes, and longer ones of whole statements. *)
EXTENDS ConfigTreeProps, TLC

Letters ==
  "/" :> <<"/">> @@ "/a" :> <<"/", "a">> @@ "/a/a" :> <<"/", "a", "/", "a">>
  @@ "/aa" :> <<"/", "a", "a">> @@ "/a/" :> <<"/", "a", "/">> @@ "aa" :> <<"a", "a">>
  @@ "/health" :> <<"/", "h">> @@ "/sleep" :> <<"/", "s">>

Plain == {"listen", "location", "80", "0", "70000", "server", "root", "data_path",
          "dir", "7up", "'dir'"} \cup Registry
AllWords == DOMAIN Letters \cup Plain
AllSpelled == Letters @@ [w \in Plain |-> <<w>>]
AllChars == {"/", "a", "h", "s", "?"} \cup Plain
AllNumbers == "80" :> 80 @@ "0" :> 0 @@ "70000" :> 70000 @@ "7up" :> 7
AllDigits == {"80", "0", "70000"}
AllQuoted == {"'dir'"}

(* Every text of up to five lexemes. *)
Few == {"listen", "80", "'dir'", "{", "}", ";", BadQuote}
ShortFiles == UNION {[1 .. n -> Few] : n \in 0 .. 5}

(* Every text of up to three of these statements. *)
Location(path, handler, args) == <<"location", path, handler, "{">> \o args \o <<"}">>
Statements ==
  { <<"listen", "80", ";">>, <<"listen", "70000", ";">>, <<"listen", "0", ";">>,
    <<"server", "{", "listen", "80", ";", "}">>, <<"location", "/a", ";">>,
    Location("/", "EchoHandler", <<>>), Location("/a", "EchoHandler", <<>>),
    Location("/aa", "EchoHandler", <<Comment>>),
    Location("/a/a", "StaticHandler", <<"root", "dir", ";", "root", "7up", ";">>),
    Location("/a", "StaticHandler", <<"dir", ";">>),
    Location("aa", "StaticHandler", <<"root", "dir", ";">>),
    Location("/a/", "EchoHandler", <<>>), Location("/health", "HealthHandler", <<>>),
    Location("/a", "ApiHandler", <<"data_path", "7up", ";">>),
    Location("/aa", "URLShortenerHandler", <<"dir", "'dir'", ";">>),
    Location("/sleep", "SleepHandler", <<>>) }
LongFiles == {FlattenSeq(s) : s \in UNION {[1 .. n -> Statements] : n \in 1 .. 3}}

AllFiles == ShortFiles \cup LongFiles
AllUris == UNION {[1 .. n -> {"/", "a", "?"}] : n \in 1 .. 4}

=============================================================================
