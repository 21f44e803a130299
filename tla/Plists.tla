------------------------------- MODULE Plists -------------------------------
(***************************************************************************)
(* cf_plist.c: what is written of a property list, and what is read of it. *)
(*                                                                         *)
(* A file is a sequence of tags and texts, in which spaces and comments,   *)
(* which the parser skips, are left out.  A text is its characters, an     *)
(* entity standing for one of them; a number is its digits, which printf   *)
(* and strtod give back; the data of a data element is base64.             *)
(***************************************************************************)
EXTENDS Integers, Sequences, SequencesExt

CONSTANTS Values,        \* the property lists written
          MaxDepth       \* how deep the parser goes; 64 in the code

VARIABLES plist, file, read

vars == <<plist, file, read>>

Tag(form, name) == [form |-> form, name |-> name]
Text(characters) == [form |-> "text", text |-> characters]
Element(name, characters) == <<Tag("open", name), Text(characters), Tag("close", name)>>
Container(name, inside) ==
  IF inside = <<>> THEN <<Tag("empty", name)>>
  ELSE <<Tag("open", name)>> \o inside \o <<Tag("close", name)>>

-----------------------------------------------------------------------------
(* base64_encode and base64_decode: three bytes are four digits.           *)
Pad == 64                \* "="
Digits(bytes) ==
  LET byte(i) == IF i <= Len(bytes) THEN bytes[i] ELSE 0
      three == byte(1) * 65536 + byte(2) * 256 + byte(3)
      all == <<three \div 262144, (three \div 4096) % 64, (three \div 64) % 64, three % 64>>
  IN [i \in 1..4 |-> IF i <= Len(bytes) + 1 THEN all[i] ELSE Pad]

base64_encode(bytes) ==
  FlattenSeq([i \in 1..(Len(bytes) + 2) \div 3 |->
                Digits(SubSeq(bytes, 3 * i - 2, IF 3 * i < Len(bytes) THEN 3 * i ELSE Len(bytes)))])

base64_decode(digits) ==
  FoldLeft(LAMBDA d, c :
             LET acc == d.acc * 64 + c bits == d.bits + 6 IN
             IF bits < 8 THEN [d EXCEPT !.acc = acc, !.bits = bits]
             ELSE [acc |-> acc % 2^(bits - 8), bits |-> bits - 8,
                   out |-> Append(d.out, acc \div 2^(bits - 8))],
           [acc |-> 0, bits |-> 0, out |-> <<>>],
           SelectSeq(digits, LAMBDA c : c # Pad)).out

-----------------------------------------------------------------------------
(* Writing.  Keys that are no strings are left out, and what is no part of *)
(* property lists is an empty string.                                      *)
write_escaped(text) ==
  [i \in DOMAIN text |->
     IF text[i] \in {"&", "<", ">"} THEN [entity |-> text[i]] ELSE [char |-> text[i]]]

RECURSIVE write_object(_)
write_object(v) ==
  CASE v.kind = "dict" ->
         LET pairs == [i \in DOMAIN v.pairs |->
               IF v.pairs[i].key.kind # "string" THEN <<>>
               ELSE Element("key", write_escaped(v.pairs[i].key.text)) \o write_object(v.pairs[i].value)]
         IN IF v.pairs = <<>> THEN <<Tag("empty", "dict")>>
            ELSE <<Tag("open", "dict")>> \o FlattenSeq(pairs) \o <<Tag("close", "dict")>>
    [] v.kind = "array" -> Container("array", FlattenSeq([i \in DOMAIN v.items |-> write_object(v.items[i])]))
    [] v.kind = "string" -> Element("string", write_escaped(v.text))
    [] v.kind \in {"integer", "real"} -> Element(v.kind, v.number)
    [] v.kind = "boolean" -> <<Tag("empty", IF v.truth THEN "true" ELSE "false")>>
    [] v.kind = "data" -> Element("data", base64_encode(v.bytes))
    [] OTHER -> Element("string", <<>>)

cf_plist_write(v) == Container("plist", write_object(v))

-----------------------------------------------------------------------------
(* Parsing.  Each operator returns what it read and where it goes on.      *)
Error == [kind |-> "error"]
Read(v, i) == [value |-> v, next |-> i]
Failed == Read(Error, 0)
At(i) == IF i <= Len(file) THEN file[i] ELSE [form |-> "end"]
IsTag(i, form, name) == At(i).form = form /\ At(i).name = name

(* An ampersand that starts no entity has no semicolon after it, or its    *)
(* text up to there is kept: never the character it was.                   *)
Spoilt(text) == \E i \in DOMAIN text : text[i] = [char |-> "&"]
read_text(text) == [i \in DOMAIN text |-> IF "char" \in DOMAIN text[i] THEN text[i].char ELSE text[i].entity]

parse_text_element(i, name) ==
  IF At(i).form = "empty" THEN [ok |-> TRUE, text |-> <<>>, next |-> i + 1]
  ELSE [ok |-> At(i + 1).form = "text" /\ IsTag(i + 2, "close", name),
        text |-> IF At(i + 1).form = "text" THEN At(i + 1).text ELSE <<>>, next |-> i + 3]

cf_dict_set(pairs, key, value) ==
  IF \E i \in DOMAIN pairs : pairs[i].key = key
  THEN [i \in DOMAIN pairs |-> IF pairs[i].key = key THEN [key |-> key, value |-> value] ELSE pairs[i]]
  ELSE Append(pairs, [key |-> key, value |-> value])

RECURSIVE parse_object(_, _), parse_pairs(_, _, _), parse_items(_, _, _)
parse_pairs(i, depth, pairs) ==
  IF At(i).form = "close"
  THEN IF At(i).name = "dict" THEN Read([kind |-> "dict", pairs |-> pairs], i + 1) ELSE Failed
  ELSE IF ~(IsTag(i, "open", "key") \/ IsTag(i, "empty", "key")) THEN Failed
  ELSE LET key == parse_text_element(i, "key")
           value == parse_object(key.next, depth + 1) IN
       IF ~key.ok \/ Spoilt(key.text) \/ value.value = Error THEN Failed
       ELSE parse_pairs(value.next, depth,
              cf_dict_set(pairs, [kind |-> "string", text |-> read_text(key.text)], value.value))
parse_items(i, depth, items) ==
  IF At(i).form = "close"
  THEN IF At(i).name = "array" THEN Read([kind |-> "array", items |-> items], i + 1) ELSE Failed
  ELSE LET item == parse_object(i, depth + 1) IN
       IF item.value = Error THEN Failed ELSE parse_items(item.next, depth, Append(items, item.value))

parse_object(i, depth) ==
  IF At(i).form \notin {"open", "empty"} \/ depth > MaxDepth THEN Failed
  ELSE LET name == At(i).name
           element == parse_text_element(i, name)
           text == element.text IN
       CASE name = "dict" ->
              IF At(i).form = "empty" THEN Read([kind |-> "dict", pairs |-> <<>>], i + 1)
              ELSE parse_pairs(i + 1, depth, <<>>)
         [] name = "array" ->
              IF At(i).form = "empty" THEN Read([kind |-> "array", items |-> <<>>], i + 1)
              ELSE parse_items(i + 1, depth, <<>>)
         [] name \in {"true", "false"} ->
              LET truth == [kind |-> "boolean", truth |-> name = "true"] IN
              IF At(i).form = "empty" THEN Read(truth, i + 1)
              ELSE IF IsTag(i + 1, "close", name) THEN Read(truth, i + 2) ELSE Failed
         [] name \in {"string", "date"} /\ element.ok /\ ~Spoilt(text) ->
              Read([kind |-> "string", text |-> read_text(text)], element.next)
         [] name \in {"integer", "real"} /\ element.ok ->
              Read([kind |-> name, number |-> text], element.next)
         [] name = "data" /\ element.ok ->
              Read([kind |-> "data", bytes |-> base64_decode(text)], element.next)
         [] OTHER -> Failed

(* The object may stand alone, without a plist element around it.          *)
cf_plist_parse ==
  IF IsTag(1, "open", "plist")
  THEN LET object == parse_object(2, 0) IN
       IF object.value # Error /\ IsTag(object.next, "close", "plist") THEN object.value ELSE Error
  ELSE parse_object(1, 0).value

-----------------------------------------------------------------------------
(* A property list is written, and what was written is read.               *)
NoFile == <<>>
Unread == [kind |-> "unread"]
Init == plist \in Values /\ file = NoFile /\ read = Unread
WriteList == file = NoFile /\ file' = cf_plist_write(plist) /\ UNCHANGED <<plist, read>>
ReadList ==
  file # NoFile /\ read = Unread /\ read' = cf_plist_parse /\ UNCHANGED <<plist, file>>
Next == WriteList \/ ReadList
Spec == Init /\ [][Next]_vars

TypeOK == (read # Unread => file # NoFile)

(* What of a value a property list can hold, and how deep it nests.        *)
IsString(key) == key.kind = "string"
RECURSIVE Kept(_), Depth(_)
Held(pairs) == SelectSeq(pairs, LAMBDA pair : IsString(pair.key))
Kept(v) ==
  CASE v.kind = "dict" ->
         [v EXCEPT !.pairs = [i \in DOMAIN Held(v.pairs) |->
                                [Held(v.pairs)[i] EXCEPT !.value = Kept(@)]]]
    [] v.kind = "array" -> [v EXCEPT !.items = [i \in DOMAIN @ |-> Kept(@[i])]]
    [] v.kind = "other" -> [kind |-> "string", text |-> <<>>]
    [] OTHER -> v
Deepest(depths) == CHOOSE d \in depths \cup {0} : \A e \in depths : e <= d
Depth(v) ==
  CASE v.kind = "dict" -> Deepest({1 + Depth(pair.value) : pair \in ToSet(Held(v.pairs))})
    [] v.kind = "array" -> Deepest({1 + Depth(item) : item \in ToSet(v.items)})
    [] OTHER -> 0

(* A property list that is written and read again is the one it was, but   *)
(* for what property lists cannot hold; and every one written can be read  *)
(* unless it nests deeper than the parser goes.  cf_plist.c:441 writes     *)
(* without a limit and cf_plist.c:246 has one.                             *)
PlistsReadBack ==
  read # Unread => read = IF Depth(plist) <= MaxDepth THEN Kept(plist) ELSE Error
=============================================================================
