---------------------------- MODULE UrlValidator ----------------------------
(***************************************************************************)
(* class URLValidator: validate_and_normalize, and what it is made of.     *)
(***************************************************************************)
EXTENDS Text

CONSTANTS
  MaxDomain,    \* 253 in the code
  MaxLabel      \* 63 in the code

ASSUME UrlAssumption == MaxDomain \in Nat /\ MaxLabel \in Nat

Separator == <<":", "/", "/">>
RefusedChars == {"<", ">", "\"", "\\", "{", "}", "|", "^"} \cup Blank \cup Control

(* The members of BLOCKED_DOMAINS that end in a dot, which are prefixes, and *)
(* of the others the ones that are used here.                                *)
BlockedPrefix == {<<"1", "0", ".">>, <<"1", "9", "2", ".", "1", "6", "8", ".">>, <<"1", "7", "2", ".">>}
BlockedDomain ==
  {<<"localhost">>, <<"1", "2", "7", ".", "0", ".", "0", ".", "1">>,
   <<"0", ".", "0", ".", "0", ".", "0">>, <<":", ":", "1">>, <<"malware", ".", "com">>}

-----------------------------------------------------------------------------
(* The parts of a url that has a scheme. *)

AddDefaultScheme(u) ==
  IF HasWord(u, Separator) THEN u ELSE <<"https">> \o Separator \o u

(* The start of the host: behind user@, if that is before any of stops. *)
SkipUser(u, start, stops) ==
  LET at   == Find(u, <<"@">>, start)
      stop == FindFirstOf(u, stops, start)
  IN IF at # npos /\ (stop = npos \/ at < stop) THEN at + 1 ELSE start

HostStart(u) == SkipUser(u, Find(u, Separator, 1) + 3, {"/", "?", "#"})

DropDot(domain) == Without(domain, ".")
NormalizeDomain(domain) == DropDot(ToLower(domain))

ExtractDomain(u) ==
  LET start == HostStart(u)
      close == Find(u, <<"]">>, start + 1)
  IN IF ~HasWord(u, Separator) THEN <<>>
     ELSE IF start <= Len(u) /\ u[start] = "[" THEN
       IF close = npos THEN <<>> ELSE SubSeq(u, start + 1, close - 1)
     ELSE NormalizeDomain(SubSeq(u, start, OrEnd(FindFirstOf(u, {":", "/", "?", "#"}, start), u) - 1))

-----------------------------------------------------------------------------
(* normalize_url *)

NormalHost(host) ==
  LET close == Find(host, <<"]">>, 1)
  IN IF ~IsEmpty(host) /\ host[1] = "[" THEN
       IF close = npos THEN host ELSE ToLower(SubSeq(host, 1, close)) \o From(host, close + 1)
     ELSE NormalizeDomain(host)

LowerSchemeAndHost(u) ==
  LET e     == Find(u, Separator, 1)
      start == SkipUser(u, e + 3, {"/"})
      end   == OrEnd(FindFirstOf(u, {":", "/", "?"}, start), u)
  IN IF e = npos THEN u
     ELSE ToLower(SubSeq(u, 1, e - 1)) \o SubSeq(u, e, start - 1)
            \o NormalHost(SubSeq(u, start, end - 1)) \o From(u, end)

DefaultPort(scheme) ==
  CASE scheme = <<"http">> -> <<"8", "0">> [] scheme = <<"https">> -> <<"4", "4", "3">> [] OTHER -> <<>>

\* Mutant of RemoveDefaultPort: either default port goes, whatever the scheme.
RemoveEitherPort(u) ==
  LET e     == Find(u, Separator, 1)
      start == SkipUser(u, e + 3, {})
      colon == Find(u, <<":">>, start)
      end   == OrEnd(FindFirstOf(u, {"/", "?", "#"}, colon), u)
      port  == SubSeq(u, colon + 1, end - 1)
  IN IF e # npos /\ colon # npos /\ port \in {<<"8", "0">>, <<"4", "4", "3">>}
     THEN SubSeq(u, 1, colon - 1) \o From(u, end)
     ELSE u

(* The port is looked for behind the last @ that find sees, wherever it is. *)
RemoveDefaultPort(u) ==
  LET e     == Find(u, Separator, 1)
      start == SkipUser(u, e + 3, {})
      colon == Find(u, <<":">>, start)
      end   == OrEnd(FindFirstOf(u, {"/", "?", "#"}, colon), u)
      port  == SubSeq(u, colon + 1, end - 1)
  IN IF e # npos /\ colon # npos /\ ~IsEmpty(port)
          /\ port = DefaultPort(ToLower(SubSeq(u, 1, e - 1)))
     THEN SubSeq(u, 1, colon - 1) \o From(u, end)
     ELSE u

WithPath(u) ==
  LET query == OrEnd(Find(u, <<"?">>, 1), u)
  IN IF Find(u, <<"/">>, Find(u, Separator, 1) + 3) # npos THEN u
     ELSE SubSeq(u, 1, query - 1) \o <<"/">> \o From(u, query)

NormalizeUrl(u) ==
  LET bare == SubSeq(u, 1, OrEnd(Find(u, <<"#">>, 1), u) - 1)
  IN WithPath(RemoveDefaultPort(LowerSchemeAndHost(bare)))

-----------------------------------------------------------------------------
(* The checks. *)

UserChar(c)  == IsLetterOrDigit(c) \/ c \in Punctuation \ ({"/", "?", "#", "[", "]", "@"} \cup RefusedChars)
HostChar(c)  == IsLetterOrDigit(c) \/ c \in {"-", ".", "_", "~", "%"}
Ipv6Char(c)  == c \in Digit \cup {"a", "b", "f", "A", "B", "F", ":"}
PathChar(c)  == UserChar(c) \/ c \in {"@", "/"}
QueryChar(c) == PathChar(c) \/ c = "?"

All(t, Test(_)) == \A i \in DOMAIN t : Test(t[i])

(***************************************************************************)
(* regex_match with URL_PATTERN.  No class of characters holds the         *)
(* delimiter behind it, so there is only one way to cut the text.          *)
(***************************************************************************)
IsValidFormat(u) ==
  LET e     == Find(u, Separator, 1)
      start == SkipUser(u, e + 3, {"/", "?", "#"})
      path  == OrEnd(FindFirstOf(u, {"/", "?", "#"}, start), u)
      query == OrEnd(FindFirstOf(u, {"?", "#"}, path), u)
      frag  == OrEnd(FindFirstOf(u, {"#"}, query), u)
      close == Find(u, <<"]">>, start)
      port  == IF start <= Len(u) /\ u[start] = "[" /\ close # npos THEN close + 1
               ELSE OrEnd(FindFirstOf(u, {":", "/", "?", "#"}, start), u)
      user  == SubSeq(u, e + 3, start - 2)
      host  == SubSeq(u, start, port - 1)
  IN /\ ToLower(SubSeq(u, 1, e - 1)) \in {<<"http">>, <<"https">>}
     /\ start > e + 3 => ~IsEmpty(user) /\ All(user, UserChar)
     /\ \/ ~IsEmpty(host) /\ All(host, HostChar)
        \/ Len(host) > 2 /\ host[1] = "[" /\ host[Len(host)] = "]"
             /\ All(SubSeq(host, 2, Len(host) - 1), Ipv6Char)
     /\ port < path => /\ u[port] = ":" /\ path - port - 1 \in 1 .. 5
                       /\ \A i \in port + 1 .. path - 1 : u[i] \in Digit
     /\ All(SubSeq(u, path, query - 1), PathChar)
     /\ All(SubSeq(u, query, frag - 1), QueryChar)
     /\ All(SubSeq(u, frag + 1, Len(u)), QueryChar)

(* stoi of the port throws, or is out of range; behind a minus it is less than 1. *)
BadPort(port) ==
  LET number == IF ~IsEmpty(port) /\ port[1] = "+" THEN Tail(port) ELSE port
      digits == LeadingDigits(number)
  IN ~IsEmpty(port) /\ (digits = {} \/ NumberOf(number, Max(digits)) \notin 1 .. 65535)

(* The first colon behind the host is taken for the port's, wherever it is. *)
PortText(u) ==
  LET host  == HostStart(u)
      close == Find(u, <<"]">>, host)
      start == IF host <= Len(u) /\ u[host] = "[" /\ close # npos THEN close + 1 ELSE host
      colon == Find(u, <<":">>, start)
  IN IF colon = npos THEN <<>>
     ELSE SubSeq(u, colon + 1, OrEnd(FindFirstOf(u, {"/", "?", "#"}, colon), u) - 1)

(* The address ranges that the code tests behind the prefixes are among them. *)
IsBlockedDomain(u) ==
  LET domain == NormalizeDomain(ExtractDomain(u))
  IN \/ IsEmpty(ExtractDomain(u))
     \/ domain \in BlockedDomain
     \/ \E p \in BlockedPrefix : StartsWith(domain, 1, p)
     \/ ~HasWord(domain, <<":">>)
          /\ (HasWord(domain, <<".", "localhost">>) \/ HasWord(domain, <<"localhost", ".">>))

Dots(domain) == {i \in DOMAIN domain : domain[i] = "."}
IsIpAddress(domain) ==
  \/ HasWord(domain, <<":">>)
  \/ /\ \A i \in DOMAIN domain : domain[i] \in Digit \cup {"."}
     /\ Cardinality(Dots(domain)) = 3

\* Mutant of IsValidIp: the length of an octet is looked at, its value is not.
IsIpShaped(ip) ==
  LET octets == GetLines(ip, ".")
  IN Len(octets) = 4 /\ \A i \in DOMAIN octets : Len(octets[i]) \in 1 .. 3

IsValidIp(ip) ==
  LET octets == GetLines(ip, ".")
  IN /\ Len(octets) = 4
     /\ \A i \in DOMAIN octets :
          /\ Len(octets[i]) \in 1 .. 3
          /\ Len(octets[i]) > 1 => octets[i][1] # "0"
          /\ NumberOf(octets[i], Len(octets[i])) <= 255

IsValidName(domain) ==
  LET labels == GetLines(domain, ".")
  IN /\ \A i \in DOMAIN labels :
          /\ Len(labels[i]) \in 1 .. MaxLabel
          /\ labels[i][1] # "-" /\ labels[i][Len(labels[i])] # "-"
     /\ All(labels[Len(labels)], IsLetter)

IsValidDomain(domain) ==
  /\ Len(domain) \in 1 .. MaxDomain
  /\ ~HasWord(domain, <<".", ".">>)
  /\ IsIpAddress(domain) \/ domain = <<"localhost">> \/ HasWord(domain, <<".">>)
  /\ HasWord(domain, <<".">>) /\ ~IsIpAddress(domain) => IsValidName(domain)
  /\ IsIpAddress(domain) /\ ~HasWord(domain, <<":">>) => IsValidIp(domain)

ValidateAndNormalize(url) ==
  LET u == NormalizeUrl(AddDefaultScheme(url))
  IN [is_valid |-> /\ ~IsEmpty(url) /\ \A i \in DOMAIN url : url[i] \notin RefusedChars
                   /\ IsValidFormat(u)
                   /\ ~BadPort(PortText(u))
                   /\ ~IsBlockedDomain(u)
                   /\ IsValidDomain(ExtractDomain(u)),
      normalized_url |-> u]

=============================================================================
