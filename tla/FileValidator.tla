--------------------------- MODULE FileValidator ----------------------------
(***************************************************************************)
(* class FileValidator: which uploads are taken, and the name a file gets  *)
(* on disk.  The content of a file is a text; "SOH" is a byte that no text *)
(* has, "PNG" and "ZIP" stand for the magic numbers of these types.        *)
(***************************************************************************)
EXTENDS Text

CONSTANTS
  MaxName,      \* MAX_FILENAME_LENGTH, 255
  Slack         \* an extension that starts further from the end is cut, 20

(* An allowed extension and its dot have at most Slack characters. *)
ASSUME FileAssumption == MaxName \in Nat /\ MaxName >= 4 /\ Slack \in 2 .. MaxName

(* Of ALLOWED_EXTENSIONS and ALLOWED_MIME_TYPES, the ones that are used here. *)
AllowedExtension == {<<"txt">>, <<"png">>, <<"c">>, <<"odt">>}
AllowedMimeType == {"text/plain", "image/png", "application/zip", "text/x-csrc"}

Extension(filename) ==
  LET dot == FindLastOf(filename, {"."})
  IN IF dot = npos THEN <<>> ELSE ToLower(From(filename, dot + 1))

-----------------------------------------------------------------------------
(* validate_file_type *)

(* In the first 512 bytes; no file here has more. *)
IsText(file) == \A i \in DOMAIN file : file[i] \notin {"\f", "SOH", "PNG", "ZIP"}

MimeFromMagic(file) ==
  CASE StartsWith(file, 1, <<"PNG">>) -> "image/png"
    [] StartsWith(file, 1, <<"ZIP">>) -> "application/zip"
    [] IsText(file) -> "text/plain"
    [] OTHER -> ""

(* An extension may be allowed and have no type, as those of OpenDocument. *)
MimeFromExtension(extension) ==
  CASE extension = <<"txt">> -> "text/plain"
    [] extension = <<"png">> -> "image/png"
    [] extension = <<"c">> -> "text/x-csrc"
    [] OTHER -> ""

DetectMimeType(file, filename) ==
  IF MimeFromMagic(file) # "" THEN MimeFromMagic(file)
  ELSE MimeFromExtension(Extension(filename))

(* Unknown formats pass: with some data, nothing fails check_magic_numbers. *)
CheckMagicNumbers(file) == ~IsEmpty(file)

ValidateFileType(filename, file) ==
  LET type == DetectMimeType(file, filename)
      failure(message) == [is_valid |-> FALSE, error_message |-> message]
  IN CASE IsEmpty(filename) -> failure(<<"Filename cannot be empty">>)
       [] ~IsEmpty(filename) /\ IsEmpty(file) -> failure(<<"File data cannot be empty">>)
       [] OTHER ->
          IF IsEmpty(Extension(filename)) THEN failure(<<"File must have a valid extension">>)
          ELSE IF Extension(filename) \notin AllowedExtension THEN
            failure(<<"File type '">> \o Extension(filename) \o <<"' is not allowed">>)
          ELSE IF type # "" /\ type \notin AllowedMimeType THEN failure(<<"Detected MIME type is not allowed">>)
          ELSE IF ~CheckMagicNumbers(file) THEN failure(<<"File content does not match">>)
          ELSE [is_valid |-> TRUE, error_message |-> <<>>]

-----------------------------------------------------------------------------
(* sanitize_filename *)

Dangerous == {"<", ">", ":", "\"", "/", "\\", "|", "?", "*"}
Unnamed == <<"unnamed_file">>

LeftTrimOf(t, chars) ==
  LET kept == {i \in DOMAIN t : t[i] \notin chars}
  IN IF kept = {} THEN <<>> ELSE From(t, Min(kept))

(* Dangerous characters replaced, control characters and blank ends removed. *)
Cleaned(filename) ==
  LET replaced == [i \in DOMAIN filename |-> IF filename[i] \in Dangerous THEN "_" ELSE filename[i]]
      printable == Dropping(replaced, Control)
  IN LeftTrimOf(TrimOf(printable, Blank), {".", " "})

\* Mutant of Shortened: the end goes, and the extension with it.
ShortenedAtTheEnd(name) == IF Len(name) > MaxName THEN SubSeq(name, 1, MaxName) ELSE name

(* A long name is cut before its extension. *)
Shortened(name) ==
  LET dot == FindLastOf(name, {"."})
  IN IF Len(name) <= MaxName THEN name
     ELSE IF dot # npos /\ dot - 1 > MaxName - Slack
       THEN SubSeq(name, 1, MaxName - (Len(name) - (dot - 1))) \o From(name, dot)
     ELSE SubSeq(name, 1, MaxName)

(* The names of devices, of which one is used here. *)
Reserved == {<<"CON">>}

WithoutExtension(name) == SubSeq(name, 1, OrEnd(FindLastOf(name, {"."}), name) - 1)
Unreserved(name) ==
  IF ToUpper(WithoutExtension(name)) \in Reserved THEN <<"_">> \o name ELSE name

SanitizeFilename(filename) ==
  LET name == Unreserved(Shortened(Cleaned(filename)))
  IN IF IsEmpty(filename) \/ name \in {<<>>, <<".">>, <<".", ".">>}
          \/ \A i \in DOMAIN name : name[i] \in {"_"} \cup Blank
     THEN Unnamed
     ELSE name

=============================================================================
