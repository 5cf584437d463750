---------------------------- MODULE JsonBuilder -----------------------------
(***************************************************************************)
(* class JSONBuilder, as the handlers use it: fields are texts, numbers,   *)
(* Booleans and arrays of them, and the object is written in the order of  *)
(* the keys.  A key is a word, Keys the order of the map.                  *)
(***************************************************************************)
EXTENDS Text

CONSTANT Keys

ASSUME KeysAssumption == Keys \in Seq(STRING)

(* The values; a value of any other type is a text in quotes. *)
Str(t)      == [type |-> "string", value |-> t]
Number(n)   == [type |-> "number", value |-> n]
Boolean(b)  == [type |-> "boolean", value |-> b]
Array(vs)   == [type |-> "array", value |-> vs]

-----------------------------------------------------------------------------
(* escape_json_string *)

\* Mutant of Escaped: the backslash is left as it is.
EscapedButBackslash(c) ==
  CASE c = "\"" -> <<"\\", "\"">> [] c = "\f" -> <<"\\", "f">> [] c = LF -> <<"\\", "n">>
    [] c = CR -> <<"\\", "r">>    [] c = "\t" -> <<"\\", "t">> [] OTHER -> <<c>>

(* A control character without a name of its own has four hex digits. *)
Escaped(c) ==
  CASE c = "\"" -> <<"\\", "\"">> [] c = "\\" -> <<"\\", "\\">> [] c = "\f" -> <<"\\", "f">>
    [] c = LF -> <<"\\", "n">>    [] c = CR -> <<"\\", "r">>    [] c = "\t" -> <<"\\", "t">>
    [] c = "SOH" -> <<"\\", "u", "0", "0", "0", "1">>
    [] OTHER -> <<c>>

EscapeJsonString(t) ==
  FlattenSeq([i \in DOMAIN t |-> Escaped(t[i])])

-----------------------------------------------------------------------------
(* add, add_array and build *)

Quoted(t) == <<"\"">> \o EscapeJsonString(t) \o <<"\"">>

(* The pieces with commas between them. *)
CommaSeparated(pieces) ==
  FlattenSeq([i \in DOMAIN pieces |-> (IF i = 1 THEN <<>> ELSE <<",">>) \o pieces[i]])

Scalar(field) ==
  CASE field.type = "string" -> Quoted(field.value)
    [] field.type = "number" -> Decimal[field.value]
    [] field.type = "boolean" -> IF field.value THEN <<"true">> ELSE <<"false">>

Written(field) ==
  IF field.type = "array"
  THEN <<"[">> \o CommaSeparated([i \in DOMAIN field.value |-> Scalar(field.value[i])]) \o <<"]">>
  ELSE Scalar(field)

Build(fields) ==
  LET keys == SelectSeq(Keys, LAMBDA k : k \in DOMAIN fields)
  IN <<"{">>
       \o CommaSeparated([i \in DOMAIN keys |-> Quoted(<<keys[i]>>) \o <<":">> \o Written(fields[keys[i]])])
       \o <<"}">>

=============================================================================
