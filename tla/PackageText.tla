---------------------------- MODULE PackageText ----------------------------
(* How the map of a package becomes text and text becomes a map: Package   *)
(* (daemon/src/package.cpp; shared/package.cpp, of the clients, is alike). *)
(*                                                                         *)
(* A text is a sequence of signs: " ", "=", ".", "/", "~", "{", "}", "--", *)
(* "#", or a whole word, which has none of the others.  Keys and values    *)
(* are texts.  A serialised package is the set of its lines: their order,  *)
(* that of the keys, matters only for keys that are told apart by blanks   *)
(* around them, and is left open.                                          *)
EXTENDS Naturals, SequencesExt

NoText == <<>>
Blank == " "

Has(text, sign) == sign \in ToSet(text)

(* find, and the two substrings.                                           *)
FirstOf(text, sign) == Min({i \in DOMAIN text : text[i] = sign})
Before(text, sign) == SubSeq(text, 1, FirstOf(text, sign) - 1)
After(text, sign) == SubSeq(text, FirstOf(text, sign) + 1, Len(text))

(* trimString.                                                             *)
Trimmed(text) ==
  LET inner == {i \in DOMAIN text : text[i] # Blank}
  IN  IF inner = {} THEN NoText ELSE SubSeq(text, Min(inner), Max(inner))

(* map::insert of pairs, one after the other: a key that is there keeps    *)
(* its value.                                                              *)
Map(pairs) ==
  [key \in {pairs[i][1] : i \in DOMAIN pairs} |->
     pairs[Min({i \in DOMAIN pairs : pairs[i][1] = key})][2]]

(* The same for all pairs of another map.                                  *)
Inserted(map, other) ==
  [key \in DOMAIN map \cup DOMAIN other |-> IF key \in DOMAIN map THEN map[key] ELSE other[key]]

NoKeys == [key \in {} |-> NoText]
-----------------------------------------------------------------------------
(* Mutant: the last "=" separates.                                         *)
KeyValueAtLast(line) ==
  IF Has(line, "=")
  THEN LET last == Max({i \in DOMAIN line : line[i] = "="})
       IN  <<Trimmed(SubSeq(line, 1, last - 1)), Trimmed(SubSeq(line, last + 1, Len(line)))>>
  ELSE <<Trimmed(line), NoText>>

(* A line of a package, or of a configuration file.                        *)
KeyValue(line) ==
  IF Has(line, "=")
  THEN <<Trimmed(Before(line, "=")), Trimmed(After(line, "="))>>
  ELSE <<Trimmed(line), NoText>>

IsJSON(line) == line # NoText /\ Head(line) = "{" /\ Last(line) = "}"

(* constructKeyValueMap.                                                   *)
ConstructKeyValueMap(lines) ==
  LET pairs == {KeyValue(line) : line \in lines}
  IN  [key \in {pair[1] : pair \in pairs} |-> (CHOOSE pair \in pairs : pair[1] = key)[2]]

Parsed(lines) == ConstructKeyValueMap({line \in lines : ~IsJSON(line)})

Serialized(map) == {key \o <<Blank, "=", Blank>> \o map[key] : key \in DOMAIN map}

(* getValue, isSet, hasValue.                                              *)
ValueOf(map, key) == IF key \in DOMAIN map THEN map[key] ELSE NoText
HasValue(map, key) == ValueOf(map, key) # NoText

(* extractType, and what initialize takes for a valid package.  (An id     *)
(* that is there is a number.)                                             *)
IsOfType(map, type) == ValueOf(map, <<"type">>) = <<type>>

Needed(type) ==
  CASE type = "command" -> {<<"command">>}
    [] type = "status-change" -> {<<"status">>}
    [] type = "request" -> {<<"request-type">>, <<"id">>}
    [] type \in {"response", "ack"} -> {<<"id">>}
    [] type = "connection-management" -> {<<"command">>, <<"id">>}

Types == {"command", "status-change", "request", "response", "ack", "connection-management"}

IsValid(map) == \E type \in Types : IsOfType(map, type) /\ Needed(type) \subseteq DOMAIN map
=============================================================================
