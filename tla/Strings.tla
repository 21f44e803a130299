------------------------------ MODULE Strings ------------------------------
(***************************************************************************)
(* CFStrings: how cf_string.c reads and writes them as bytes, compares     *)
(* them, and changes one in place, in memory of its own or the caller's.   *)
(*                                                                         *)
(* Characters are UTF-16 code units, as numbers; the tables of single-byte *)
(* encodings hold only the bytes of the instance.  A refused call on an    *)
(* immutable string, formats and numbers are left out.                     *)
(***************************************************************************)
EXTENDS Integers, SequencesExt, FiniteSets

CONSTANTS kMacRoman,        \* the characters of bytes above 127
          kWindowsLatin1,   \* of bytes from 128 to 159, or 0
          Texts, Compared,  \* the strings that are read, and compared
          Letters,          \* what the strings that change are made of,
          MaxLength,        \* how long they get,
          Pieces,           \* and what is looked for and put in them
          LeastCapacity     \* string_reserve's 16

VARIABLES str,    \* a mutable string: its block of memory, how much of it is
                  \* the string, and whether the block is the caller's
          want    \* what the calls made of it

vars == <<str, want>>

Unicode == {"Unicode", "UTF16BE", "UTF16LE"}
SingleByte == {"MacRoman", "WindowsLatin1", "ISOLatin1", "ASCII"}
Encodings == Unicode \cup SingleByte \cup {"UTF8"}

(* The encoding closest to one this file does not know.                    *)
nearest_encoding(encoding) ==
  CASE encoding = "MacCyrillic" -> "MacRoman"
    [] encoding = "ISOLatin2" -> "ISOLatin1"
    [] encoding = "WindowsCyrillic" -> "WindowsLatin1"
    [] OTHER -> encoding

decode_single_byte(b, encoding) ==
  CASE b < 128 -> b
    [] encoding = "MacRoman" -> kMacRoman[b]
    [] encoding = "WindowsLatin1" /\ b < 160 /\ kWindowsLatin1[b] # 0 -> kWindowsLatin1[b]
    [] OTHER -> b

BytesFor(table, c) == {b \in DOMAIN table : table[b] = c}
(* The bytes for a character: one, or none.                                *)
encode_single_byte(c, encoding) ==
  CASE c < 128 -> {c}
    [] encoding = "ASCII" -> {}
    [] encoding = "MacRoman" -> BytesFor(kMacRoman, c)
    [] encoding = "WindowsLatin1" /\ (BytesFor(kWindowsLatin1, c) # {} \/ c \in 128..159) ->
         BytesFor(kWindowsLatin1, c)
    [] OTHER -> {c} \cap 0..255

-----------------------------------------------------------------------------
(* decode: the characters of bytes, unless these are malformed.            *)
Chars(s) == [ok |-> TRUE, chars |-> s]
Malformed == [ok |-> FALSE, chars |-> <<>>]
After(s, n) == SubSeq(s, n + 1, Len(s))
Followed(units, rest) == IF rest.ok THEN Chars(units \o rest.chars) ELSE Malformed

IsHigh(c) == c \in 55296..56319
IsLow(c) == c \in 56320..57343
Units(c) == IF c < 65536 THEN <<c>>
            ELSE <<55296 + (c - 65536) \div 1024, 56320 + ((c - 65536) % 1024)>>
Extra(b) == CASE b < 128 -> 0
              [] b \div 32 = 6 -> 1
              [] b \div 16 = 14 -> 2
              [] b \div 8 = 30 -> 3
              [] OTHER -> -1

RECURSIVE decode_utf8(_)
decode_utf8(bytes) ==
  IF bytes = <<>> THEN Chars(<<>>)
  ELSE LET extra == Extra(bytes[1])
           more == SubSeq(bytes, 2, extra + 1)
           c == FoldLeft(LAMBDA high, b : 64 * high + (b % 64),
                         IF extra > 0 THEN bytes[1] % 2^(6 - extra) ELSE bytes[1], more)
       IN IF extra < 0 \/ extra >= Len(bytes) \/ \E b \in ToSet(more) : b \div 64 # 2
          THEN Malformed
          ELSE Followed(Units(c), decode_utf8(After(bytes, extra + 1)))

Pair(bytes, i, big_endian) ==
  IF big_endian THEN 256 * bytes[i] + bytes[i + 1] ELSE bytes[i] + 256 * bytes[i + 1]
decode_utf16(bytes, big_endian) ==
  Chars([k \in 1..(Len(bytes) \div 2) |-> Pair(bytes, 2 * k - 1, big_endian)])

RECURSIVE decode(_, _)
decode(bytes, encoding) ==
  CASE encoding \in SingleByte ->
         Chars([i \in DOMAIN bytes |-> decode_single_byte(bytes[i], encoding)])
    [] encoding = "UTF8" ->
         decode_utf8(IF IsPrefix(<<239, 187, 191>>, bytes) THEN After(bytes, 3) ELSE bytes)
    [] encoding = "Unicode" /\ IsPrefix(<<254, 255>>, bytes) ->
         decode_utf16(After(bytes, 2), TRUE)
    [] encoding = "Unicode" /\ IsPrefix(<<255, 254>>, bytes) ->
         decode_utf16(After(bytes, 2), FALSE)
    [] encoding \in Unicode -> decode_utf16(bytes, encoding = "UTF16BE")
    [] nearest_encoding(encoding) = encoding -> Malformed
    [] OTHER -> decode(bytes, nearest_encoding(encoding))

-----------------------------------------------------------------------------
(* CFStringGetBytes: the bytes of one character, or of a surrogate pair if *)
(* both are in the range; and as many characters as there is room for,     *)
(* until one has no byte and there is none for what is lost.               *)
Continuation(c, shift) == 128 + ((c \div 2^shift) % 64)
utf8_of(c) ==
  CASE c < 128 -> <<c>>
    [] c \in 128..2047 -> <<192 + c \div 64, Continuation(c, 0)>>
    [] c \in 2048..65535 -> <<224 + c \div 4096, Continuation(c, 6), Continuation(c, 0)>>
    [] OTHER -> <<240 + c \div 2^18, Continuation(c, 12), Continuation(c, 6), Continuation(c, 0)>>
IsPair(s, i) == i < Len(s) /\ IsHigh(s[i]) /\ IsLow(s[i + 1])
Point(s, i) ==
  IF IsPair(s, i) THEN 65536 + 1024 * (s[i] - 55296) + (s[i + 1] - 56320) ELSE s[i]

(* How many characters, and their bytes.                                   *)
Encoded(s, i, encoding, loss_byte) ==
  CASE encoding = "UTF8" -> [taken |-> IF IsPair(s, i) THEN 2 ELSE 1, bytes |-> utf8_of(Point(s, i))]
    [] encoding = "UTF16BE" -> [taken |-> 1, bytes |-> <<s[i] \div 256, s[i] % 256>>]
    [] encoding \in {"Unicode", "UTF16LE"} ->
         [taken |-> 1, bytes |-> <<s[i] % 256, s[i] \div 256>>]
    [] OTHER -> LET byte == encode_single_byte(s[i], encoding)
                    lost == IF loss_byte = 0 THEN {} ELSE {loss_byte}
                IN [taken |-> 1, bytes |-> SetToSeq(IF byte = {} THEN lost ELSE byte)]

NoBuffer == -1
Fits(n, max_length) == max_length = NoBuffer \/ n <= max_length
RECURSIVE BytesFrom(_, _, _, _, _, _)
BytesFrom(s, converted, bytes, encoding, loss_byte, max_length) ==
  LET next == Encoded(s, converted + 1, encoding, loss_byte)
  IN IF \/ converted = Len(s) \/ next.bytes = <<>>
        \/ ~Fits(Len(bytes) + Len(next.bytes), max_length)
     THEN [converted |-> converted, bytes |-> bytes]
     ELSE BytesFrom(s, converted + next.taken, bytes \o next.bytes,
                    encoding, loss_byte, max_length)

GetBytes(s, encoding, loss_byte, external, max_length) ==
  LET known == nearest_encoding(encoding)
      mark == IF external /\ known = "Unicode" THEN <<255, 254>> ELSE <<>>
  IN IF Fits(Len(mark), max_length) THEN BytesFrom(s, 0, mark, known, loss_byte, max_length)
     ELSE [converted |-> 0, bytes |-> <<>>]

GetCString(s, size, encoding) ==
  LET got == GetBytes(s, encoding, 0, FALSE, size - 1)
  IN [all |-> got.converted = Len(s), buffer |-> Append(got.bytes, 0)]
GetPascalString(s, size, encoding) ==
  LET got == GetBytes(s, encoding, 0, FALSE, IF size - 1 < 255 THEN size - 1 ELSE 255)
  IN [all |-> got.converted = Len(s), buffer |-> <<Len(got.bytes)>> \o got.bytes]

-----------------------------------------------------------------------------
(* Letters of ASCII, Latin, Greek and Cyrillic.                            *)
to_lower(c) ==
  CASE c \in 65..90 -> c + 32
    [] c \in (192..222 \ {215}) \cup 913..939 \cup 1040..1071 -> c + 32
    [] c \in 1024..1039 -> c + 80
    [] c = 376 -> 255
    [] c \in 256..311 \cup 330..375 -> c + 1 - (c % 2)
    [] c \in 313..328 \cup 377..382 -> c + (c % 2)
    [] OTHER -> c
to_upper(c) ==
  CASE c \in 97..122 -> c - 32
    [] c \in (224..254 \ {247}) \cup (945..971 \ {962}) \cup 1072..1103 -> c - 32
    [] c \in 1104..1119 -> c - 80
    [] c = 255 -> 376
    [] c \in 256..311 \cup 330..375 -> c - (c % 2)
    [] c \in 313..328 \cup 377..382 -> c - 1 + (c % 2)
    [] OTHER -> c
fold(c, insensitive) == IF insensitive THEN to_lower(c) ELSE c

Digits == 48..57
(* How far a run of some characters goes from i on.                        *)
RECURSIVE Past(_, _, _)
Past(s, i, some) == IF i <= Len(s) /\ s[i] \in some THEN Past(s, i + 1, some) ELSE i
Sign(x) == IF x < 0 THEN -1 ELSE IF x > 0 THEN 1 ELSE 0

(* CFStringCompare: a run of digits is a number; the longer one is larger, *)
(* then the first digit that differs decides.                              *)
RECURSIVE CompareFrom(_, _, _, _, _, _)
CompareFrom(a, i, b, j, numerically, insensitive) ==
  IF i > Len(a) \/ j > Len(b) THEN Sign(Len(a) - i + 1) - Sign(Len(b) - j + 1)
  ELSE IF numerically /\ {a[i], b[j]} \subseteq Digits
  THEN LET from_a == Past(a, i, {48})
           from_b == Past(b, j, {48})
           ea == Past(a, from_a, Digits)
           eb == Past(b, from_b, Digits)
           differ == {k \in 0..(ea - from_a - 1) : a[from_a + k] # b[from_b + k]}
           first == CHOOSE k \in differ : \A l \in differ : k <= l
       IN IF ea - from_a # eb - from_b THEN Sign((ea - from_a) - (eb - from_b))
          ELSE IF differ # {} THEN Sign(a[from_a + first] - b[from_b + first])
          ELSE CompareFrom(a, ea, b, eb, numerically, insensitive)
  ELSE LET ca == fold(a[i], insensitive)
           cb == fold(b[j], insensitive)
       IN IF ca # cb THEN Sign(ca - cb)
          ELSE CompareFrom(a, i + 1, b, j + 1, numerically, insensitive)
Compare(a, b, numerically, insensitive) ==
  CompareFrom(a, 1, b, 1, numerically, insensitive)

-----------------------------------------------------------------------------
Content(s) == SubSeq(s.block, 1, s.length)
capacity(s) == Len(s.block)
Block(n, s) == s \o [i \in 1..(n - Len(s)) |-> 0]

RECURSIVE Doubled(_, _)
Doubled(n, needed) == IF n < needed THEN Doubled(2 * n, needed) ELSE n
(* CFStringCreateMutable's string has no block.                            *)
string_reserve(s, needed) ==
  IF needed <= capacity(s) /\ capacity(s) > 0 THEN s
  ELSE LET room == IF capacity(s) > LeastCapacity THEN capacity(s) ELSE LeastCapacity
       IN [s EXCEPT !.block = Block(Doubled(room, needed), Content(s)), !.external = FALSE]

(* What is behind the range is moved, and the characters copied before it. *)
string_replace(s, location, length, chars) ==
  LET n == Len(chars)
      t == string_reserve(s, s.length - length + n)
      moved == [i \in DOMAIN t.block |->
                  IF i \in location + n + 1..t.length - length + n
                  THEN t.block[i - n + length] ELSE t.block[i]]
  IN [t EXCEPT !.block = [i \in DOMAIN moved |->
                            IF i \in location + 1..location + n
                            THEN chars[i - location] ELSE moved[i]],
               !.length = @ - length + n]

matches_at(s, at, find, insensitive) ==
  \A i \in DOMAIN find :
    fold(s.block[at + i], insensitive) = fold(find[i], insensitive)

(* The loops of CFStringFindAndReplace; s.count is how many were replaced. *)
Replace(s, at, find, replacement) ==
  [string_replace(s, at, Len(find), replacement) EXCEPT !.count = @ + 1]
RECURSIVE Backwards(_, _, _, _, _, _)
(* Faulty variant: the search goes on inside what was just replaced.       *)
Backwards_StepOne(s, at, from, find, replacement, o) ==
  IF at < from THEN s
  ELSE IF matches_at(s, at, find, o.insensitive)
  THEN LET t == Replace(s, at, find, replacement)
       IN IF o.anchored THEN t
          ELSE Backwards(t, at - 1, from, find, replacement, o)
  ELSE IF o.anchored THEN s ELSE Backwards(s, at - 1, from, find, replacement, o)
Backwards(s, at, from, find, replacement, o) ==
  IF at < from THEN s
  ELSE IF matches_at(s, at, find, o.insensitive)
  THEN LET t == Replace(s, at, find, replacement)
       IN IF o.anchored THEN t
          ELSE Backwards(t, at - Len(find), from, find, replacement, o)
  ELSE IF o.anchored THEN s ELSE Backwards(s, at - 1, from, find, replacement, o)
RECURSIVE Forwards(_, _, _, _, _, _)
Forwards(s, at, end, find, replacement, o) ==
  IF at + Len(find) > end THEN s
  ELSE IF matches_at(s, at, find, o.insensitive)
  THEN LET t == Replace(s, at, find, replacement)
       IN IF o.anchored THEN t
          ELSE Forwards(t, at + Len(replacement), end + Len(replacement) - Len(find),
                        find, replacement, o)
  ELSE IF o.anchored THEN s ELSE Forwards(s, at + 1, end, find, replacement, o)

FindAndReplace(s, find, replacement, location, length, o) ==
  LET begun == [s EXCEPT !.count = 0]
  IN IF find = <<>> THEN begun
     ELSE IF o.backwards
     THEN Backwards(begun, location + length - Len(find), location, find, replacement, o)
     ELSE Forwards(begun, location, location + length, find, replacement, o)

is_white_space(c) == c \in 9..13 \cup {32, 133, 160, 5760, 8232, 8233, 8239, 8287, 12288}
                            \cup 8192..8202
RECURSIVE WhiteFrom(_, _), WhiteEnd(_, _)
WhiteFrom(s, start) ==
  IF start < s.length /\ is_white_space(s.block[start + 1]) THEN WhiteFrom(s, start + 1)
  ELSE start
WhiteEnd(s, end) ==
  IF end > 0 /\ is_white_space(s.block[end]) THEN WhiteEnd(s, end - 1) ELSE end
TrimWhitespace(s) ==
  LET end == WhiteEnd(s, s.length)
      t == string_replace(s, end, s.length - end, <<>>)
  IN string_replace(t, 0, WhiteFrom(t, 0), <<>>)

-----------------------------------------------------------------------------
(* What a call is asked for.  Where pieces are found, from one end of the  *)
(* range, none over another; of an anchored search, only at that end.      *)
Options == [backwards : BOOLEAN, anchored : BOOLEAN, insensitive : BOOLEAN]
Found(s, find, location, length, o) ==
  LET n == Len(find)
      places == {p \in location..location + length - n :
                   \A i \in 1..n : fold(s[p + i], o.insensitive) = fold(find[i], o.insensitive)}
      Before(p) == IF o.backwards THEN p + 1..p + n - 1 ELSE p - n + 1..p - 1
      chosen[p \in -Len(s)..Len(s) + n] ==
        p \in places /\ \A q \in Before(p) \cap places : ~chosen[q]
      end == IF o.backwards THEN location + length - n ELSE location
  IN IF n = 0 THEN {} ELSE {p \in places : chosen[p] /\ (o.anchored => p = end)}
Replaced(s, places, n, replacement) ==
  FlattenSeq([i \in DOMAIN s |->
    CASE i - 1 \in places -> replacement
      [] \E p \in places : i \in p + 2..p + n -> <<>>
      [] OTHER -> <<s[i]>>])
Within(s, range) == range[1] + range[2] <= Len(s)
Ranges == (0..MaxLength) \X (0..MaxLength)

Mutable(chars, room, theirs) ==
  [block |-> Block(Len(chars) + room, chars), length |-> Len(chars), external |-> theirs, count |-> 0]
Changes(s, to) == Len(to) <= MaxLength /\ str' = s /\ want' = to
CanChange == ToSet(want) \subseteq Letters

(* CFStringCreateMutable, ...MutableCopy, and ...WithExternalCharacters-   *)
(* NoCopy, which may have room to grow in.                                 *)
Init ==
  \E chars \in Texts \cup Compared \cup BoundedSeq(Letters, 2) :
    /\ want = chars
    /\ str = Mutable(chars, 0, FALSE) \/ str = Mutable(chars, 1, TRUE)

CFStringSetExternalCharactersNoCopy ==
  \E chars \in Pieces, room \in 0..1 : Changes(Mutable(chars, room, TRUE), chars)
CFStringAppend ==
  \E chars \in Pieces : Changes(string_replace(str, str.length, 0, chars), want \o chars)
CFStringDelete ==
  \E range \in Ranges :
    Within(want, range) /\ Changes(string_replace(str, range[1], range[2], <<>>),
                                   SubSeq(want, 1, range[1]) \o After(want, range[1] + range[2]))
CFStringFindAndReplace ==
  \E find, replacement \in Pieces, range \in Ranges, o \in Options :
    /\ Within(want, range)
    /\ LET places == Found(want, find, range[1], range[2], o)
           s == FindAndReplace(str, find, replacement, range[1], range[2], o)
       IN Changes(s, Replaced(want, places, Len(find), replacement))
CFStringTrimWhitespace ==
  LET dark == {i \in DOMAIN want : ~is_white_space(want[i])}
      Most(S, Comes(_, _)) == CHOOSE x \in S : \A y \in S : x = y \/ Comes(x, y)
  IN Changes(TrimWhitespace(str),
             IF dark = {} THEN <<>>
             ELSE SubSeq(want, Most(dark, <), Most(dark, >)))
Mapped(s, To(_)) == [s EXCEPT !.block = [i \in DOMAIN @ |-> IF i <= s.length THEN To(@[i]) ELSE @[i]]]
CFStringLowercase == Changes(Mapped(str, to_lower), [i \in DOMAIN want |-> to_lower(want[i])])
CFStringUppercase == Changes(Mapped(str, to_upper), [i \in DOMAIN want |-> to_upper(want[i])])

Next ==
  /\ CanChange
  /\ \/ CFStringSetExternalCharactersNoCopy \/ CFStringAppend \/ CFStringDelete
     \/ CFStringFindAndReplace \/ CFStringTrimWhitespace
     \/ CFStringLowercase \/ CFStringUppercase
Spec == Init /\ [][Next]_vars

-----------------------------------------------------------------------------
TypeOK ==
  /\ str.length \in 0..capacity(str) /\ str.external \in BOOLEAN
  /\ str.count \in Nat /\ want \in Seq(0..65535)

(* Whatever is put in place of what, in the string's own memory or the     *)
(* caller's, and wherever the string moves when it outgrows that, its      *)
(* characters are those that the calls ask for, one after another.         *)
ContentIsAsked == Content(str) = want

(* What is written of a string in any encoding is read as the string,      *)
(* unless a character has no byte, or the first one is a byte order mark,  *)
(* which a reader takes for one; and a buffer of any size gets a part that *)
(* ends between characters, and can be continued from there.               *)
IsMark(s, encoding, external) ==
  /\ s # <<>>
  /\ \/ encoding = "UTF8" /\ s[1] = 65279
     \/ encoding = "Unicode" /\ ~external /\ s[1] \in {65279, 65534}
ReadsBack(s, encoding, external) ==
  LET all == GetBytes(s, encoding, 0, external, NoBuffer)
      lost == GetBytes(s, encoding, 63, external, NoBuffer)
  IN /\ ~IsMark(s, encoding, external) =>
          decode(all.bytes, encoding) = Chars(SubSeq(s, 1, all.converted))
     /\ lost.converted = Len(s)
     /\ \A room \in 0..Len(all.bytes) :
          LET part == GetBytes(s, encoding, 0, external, room)
              rest == GetBytes(After(s, part.converted), encoding, 0, FALSE, NoBuffer)
          IN /\ Len(part.bytes) <= room
             /\ (external /\ room < 2) \/ part.bytes \o rest.bytes = all.bytes
             /\ room = Len(all.bytes) => part = all
             /\ ~external => GetCString(s, room + 1, encoding).buffer = Append(part.bytes, 0)
             /\ ~external => GetPascalString(s, room + 1, encoding).buffer
                               = <<Len(part.bytes)>> \o part.bytes
StringsReadBack ==
  want \in Texts => \A encoding \in Encodings, external \in BOOLEAN : ReadsBack(want, encoding, external)

(* Two strings compare as their parts do, a number counting as one part;   *)
(* so comparing sorts, and case is told apart or not by every letter.      *)
RECURSIVE PartsOf(_, _, _)
PartsOf(s, numerically, insensitive) ==
  IF s = <<>> THEN <<>>
  ELSE LET end == Past(s, 1, Digits)
           number == FoldLeft(LAMBDA high, c : 10 * high + c - 48, 0, SubSeq(s, 1, end - 1))
       IN IF numerically /\ end > 1
          THEN <<<<48, number>>>> \o PartsOf(After(s, end - 1), numerically, insensitive)
          ELSE <<<<fold(s[1], insensitive), 0>>>> \o PartsOf(After(s, 1), numerically, insensitive)
IsBelow(p, q) == p[1] < q[1] \/ (p[1] = q[1] /\ p[2] < q[2])
ComesBefore(a, b) ==
  \E i \in 1..Len(b) :
    /\ i <= Len(a) + 1 /\ SubSeq(a, 1, i - 1) = SubSeq(b, 1, i - 1)
    /\ i = Len(a) + 1 \/ (i <= Len(a) /\ IsBelow(a[i], b[i]))
ComparesAsParts(a, b) ==
  \A numerically, insensitive \in BOOLEAN :
    LET p == PartsOf(a, numerically, insensitive)
        q == PartsOf(b, numerically, insensitive)
        sign == Compare(a, b, numerically, insensitive)
    IN /\ sign = -1 <=> ComesBefore(p, q)
       /\ sign = 1 <=> ComesBefore(q, p)
CaseIsKept == \A c \in 0..1200 : to_lower(to_upper(c)) = to_lower(c)
StringsCompare ==
  want \in Compared => CaseIsKept /\ \A other \in Compared : ComparesAsParts(want, other)
=============================================================================
