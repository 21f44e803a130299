----------------------------- MODULE Signatures -----------------------------
(***************************************************************************)
(* How the game's signed data is checked (src/hle/crypto.c): a message's   *)
(* digest, taken in pieces as they are read; and RSA over big numbers.     *)
(*                                                                         *)
(* A big number is the sequence of its limbs, least first, no zero last.   *)
(* The widths of bytes, limbs and words are those of the instance.  What   *)
(* RIPEMD-160 makes of a block is left out: a digest is of the blocks it   *)
(* was given.                                                              *)
(***************************************************************************)
EXTENDS Integers, SequencesExt, FiniteSets

CONSTANTS ByteBits, LimbBytes,   \* the code's 8 and 4
          MinPad,                \* the least bytes of FF there are: 8
          kDigestInfo,           \* the prefix of a digest, by type: <<type, prefix>>
          kBothLength,           \* of a digest of two kinds, which has none: 36
          Types, Digests, Keys, Givens,  \* what is verified, by key
          Numbers, Moduli,       \* the numbers that are computed with
          BlockBytes, WordBits,  \* 64 and 32 of a digest
          MaxMessage             \* bound

VARIABLES ctx,      \* a digest in the making
          message,  \* history: how much it was given
          given     \* a signature and its key, or three numbers, or none

vars == <<ctx, message, given>>

Byte == 2^ByteBits
LimbBits == ByteBits * LimbBytes
Limb == 2^LimbBits

-----------------------------------------------------------------------------
(* Big numbers.                                                            *)
trim(d) ==
  LET used == {i \in DOMAIN d : d[i] # 0}
  IN SubSeq(d, 1, IF used = {} THEN 0 ELSE CHOOSE i \in used : \A j \in used : j <= i)

compare(a, b) ==
  LET differ == {i \in DOMAIN a \cap DOMAIN b : a[i] # b[i]}
      last == CHOOSE i \in differ : \A j \in differ : j <= i
  IN IF Len(a) # Len(b) THEN Len(a) - Len(b)
     ELSE IF differ = {} THEN 0 ELSE a[last] - b[last]

subtract(a, b) ==
  LET sub(i, borrow) == (IF i <= Len(b) THEN b[i] ELSE 0) + borrow
      borrow[i \in 0..Len(a)] ==
        IF i > 0 /\ a[i] < sub(i, borrow[i - 1]) THEN 1 ELSE 0
  IN trim([i \in DOMAIN a |-> (a[i] - sub(i, borrow[i - 1])) % Limb])

(* The product with one limb of a, added in a word of two limbs.           *)
Row(product, a, b, i) ==
  LET t[j \in 0..Len(b)] ==
        IF j = 0 THEN 0
        ELSE (a[i] * b[j] + product[i + j - 1] + t[j - 1] \div Limb) % Limb^2
  IN SubSeq(product, 1, i - 1) \o [j \in 1..Len(b) |-> t[j] % Limb]
       \o <<t[Len(b)] \div Limb>> \o SubSeq(product, i + Len(b) + 1, Len(product))
RECURSIVE Rows(_, _, _, _)
Rows(product, a, b, i) ==
  IF i > Len(a) THEN product ELSE Rows(Row(product, a, b, i), a, b, i + 1)
Product(a, b) == Rows([k \in 1..Len(a) + Len(b) |-> 0], a, b, 1)

Bit(d, bit) == (d[bit \div LimbBits + 1] \div 2^(bit % LimbBits)) % 2

(* Two of the remainder, and the next bit, which may take one limb more.   *)
Doubled(rem, bit) ==
  LET carry[i \in 0..Len(rem)] == IF i = 0 THEN bit ELSE rem[i] \div 2^(LimbBits - 1)
      shifted == [i \in DOMAIN rem |-> ((2 * rem[i]) % Limb) + carry[i - 1]]
      last == carry[Len(rem)]
  IN shifted \o IF last = 0 THEN <<>> ELSE <<last>>
(* Faulty variant: what is equal to the modulus is left.                   *)
Reduced_Above(rem, m) == IF compare(rem, m) > 0 THEN subtract(rem, m) ELSE rem
Reduced(rem, m) == IF compare(rem, m) >= 0 THEN subtract(rem, m) ELSE rem

RECURSIVE Remainder(_, _, _, _)
Remainder(rem, product, bit, m) ==
  IF bit < 0 THEN rem
  ELSE Remainder(Reduced(Doubled(rem, Bit(product, bit)), m), product, bit - 1, m)
mul_mod(a, b, m) ==
  LET product == Product(a, b)
  IN Remainder(<<>>, product, Len(product) * LimbBits - 1, m)

bit_count(a) ==
  IF a = <<>> THEN 0
  ELSE (Len(a) - 1) * LimbBits + CHOOSE n \in 1..LimbBits : Last(a) \in 2^(n - 1)..2^n - 1

RECURSIVE Squares(_, _, _, _, _)
Squares(result, b, exp, bit, m) ==
  IF bit < 0 THEN result
  ELSE LET square == mul_mod(result, result, m)
       IN Squares(IF Bit(exp, bit) = 1 THEN mul_mod(square, b, m) ELSE square,
                  b, exp, bit - 1, m)
exp_mod(base, exp, m) ==
  Squares(<<1>>, mul_mod(base, <<1>>, m), exp, bit_count(exp) - 1, m)

-----------------------------------------------------------------------------
(* Bytes, the greatest first, to a number and back.                        *)
BN_bin2bn(s) ==
  LET ByteAt(from_end) == IF from_end < Len(s) THEN s[Len(s) - from_end] ELSE 0
      LimbAt(i) == FoldRight(LAMBDA j, high : high * Byte + ByteAt((i - 1) * LimbBytes + j),
                             [j \in 1..LimbBytes |-> j - 1], 0)
  IN trim([i \in 1..(Len(s) + LimbBytes - 1) \div LimbBytes |-> LimbAt(i)])
BytesOf(d, k) ==
  [i \in 1..k |->
     LET from_end == k - i
         limb == from_end \div LimbBytes + 1
     IN IF limb <= Len(d) THEN (d[limb] \div Byte^(from_end % LimbBytes)) % Byte ELSE 0]

FF == Byte - 1
(* How many bytes of FF follow the first two.                              *)
Padding(em) ==
  LET other == {i \in 3..Len(em) : em[i] # FF}
  IN (IF other = {} THEN Len(em) + 1 ELSE CHOOSE i \in other : \A j \in other : i <= j) - 3

(* What was signed, as many bytes as the key has; and what it has to be.   *)
SizeOf(rsa) == (bit_count(rsa.n) + ByteBits - 1) \div ByteBits
Message(signature, rsa) ==
  BytesOf(exp_mod(BN_bin2bn(signature), rsa.e, rsa.n), SizeOf(rsa))
RSA_verify(type, m, signature, rsa, em) ==
  LET k == SizeOf(rsa)
      pad == Padding(em)
      t == SubSeq(em, 4 + pad, k)
  IN /\ Len(signature) = k /\ k >= MinPad + 3
     /\ compare(BN_bin2bn(signature), rsa.n) < 0
     /\ em[1] = 0 /\ em[2] = 1
     /\ pad >= MinPad /\ 3 + pad <= k /\ em[3 + pad] = 0
     /\ IF type = "md5_sha1" THEN Len(m) = kBothLength /\ t = m
        ELSE \E info \in kDigestInfo :
               /\ info[1] = type /\ Len(t) = Len(info[2]) + Len(m)
               /\ IsPrefix(info[2], t) /\ IsSuffix(m, t)

-----------------------------------------------------------------------------
(* A digest: the blocks that are hashed, what waits for a block to fill,   *)
(* and how many bits there were, in two words.                             *)
TwoToTheBits == 2^WordBits
RIPEMD160_Init == [hashed |-> <<>>, block |-> <<>>, low_bits |-> 0, high_bits |-> 0]

(* As many blocks as fill.                                                 *)
Filled(c, data) ==
  LET all == c.block \o data
      n == Len(all) \div BlockBytes
      BlockAt(i) == SubSeq(all, (i - 1) * BlockBytes + 1, i * BlockBytes)
  IN [c EXCEPT !.hashed = @ \o [i \in 1..n |-> BlockAt(i)],
               !.block = SubSeq(all, n * BlockBytes + 1, Len(all))]
RIPEMD160_Update(c, data) ==
  LET bits == (Len(data) * 8) % TwoToTheBits
      sum == (c.low_bits + bits) % TwoToTheBits
      carry == IF sum < c.low_bits THEN 1 ELSE 0
  IN [Filled(c, data) EXCEPT
        !.low_bits = sum,
        !.high_bits = (@ + carry + Len(data) \div 2^(WordBits - 3)) % TwoToTheBits]

(* The length, of a byte for each word here, ends the last block.          *)
LengthBytes == 2
Zeros(n) == [i \in 1..n |-> "00"]
RIPEMD160_Final(c) ==
  LET marked == RIPEMD160_Update(c, <<"80">>)
      room == BlockBytes - LengthBytes - Len(marked.block)
      padded == RIPEMD160_Update(marked, Zeros(IF room < 0 THEN room + BlockBytes ELSE room))
  IN RIPEMD160_Update(padded, <<c.low_bits, c.high_bits>>).hashed

(* The bytes of a message are their numbers.                               *)
BytesFrom(first, n) == [i \in 1..n |-> first + i]
Updates ==
  \E n \in 0..MaxMessage - message :
    /\ ctx' = RIPEMD160_Update(ctx, BytesFrom(message, n))
    /\ message' = message + n
    /\ UNCHANGED given

Nothing == [is |-> "nothing"]
Init ==
  /\ ctx = RIPEMD160_Init /\ message = 0
  /\ \/ given = Nothing
     \/ \E rsa \in Keys : \E signature \in Givens[rsa] :
          given = [is |-> "signature", bytes |-> signature, rsa |-> rsa,
                   em |-> Message(signature, rsa)]
     \/ \E a, b \in Numbers, m \in Moduli : given = [is |-> "numbers", a |-> a, b |-> b, m |-> m]
Next == given = Nothing /\ Updates
Spec == Init /\ [][Next]_vars

-----------------------------------------------------------------------------
TypeOK ==
  /\ Len(ctx.block) \in 0..BlockBytes - 1
  /\ ctx.low_bits \in 0..TwoToTheBits - 1 /\ ctx.high_bits \in 0..TwoToTheBits - 1
  /\ message \in 0..MaxMessage

Value(digits, base) == FoldRight(LAMBDA d, high : high * base + d, digits, 0)
Limbs(x) == trim([i \in 1..8 |-> (x \div Limb^(i - 1)) % Limb])
Power(x, e, m) == FoldLeft(LAMBDA p, i : (p * x) % m, 1, [i \in 1..e |-> i])

(* Sums, products and powers of big numbers are those of numbers, whatever *)
(* is carried from limb to limb, and however many limbs there are.         *)
NumbersAreExact ==
  given.is = "numbers" =>
    LET x == Limbs(given.a)
        y == Limbs(given.b)
        m == Limbs(given.m)
    IN /\ mul_mod(x, y, m) = Limbs((given.a * given.b) % given.m)
       /\ compare(x, y) >= 0 =>
            subtract(x, y) = Limbs(given.a - given.b)
       /\ given.b < 20 =>
            exp_mod(x, y, m) = Limbs(Power(given.a % given.m, given.b, given.m))

(* A signature is taken for a digest exactly if its power is that digest,  *)
(* padded to the length of the key; with a number above the key's, or one  *)
(* byte other than that, it is not.                                        *)
Encodings(type, m) ==
  IF type = "md5_sha1" THEN {t \in {m} : Len(t) = kBothLength}
  ELSE {info[2] \o m : info \in {i \in kDigestInfo : i[1] = type}}
Padded(k, t) == <<0, 1>> \o [i \in 1..k - 3 - Len(t) |-> FF] \o <<0>> \o t
SignaturesAreExact ==
  given.is = "signature" =>
    LET n == Value(given.rsa.n, Limb)
        s == Value(Reverse(given.bytes), Byte)
        k == CHOOSE l \in 1..15 : n \in Byte^(l - 1)..Byte^l - 1
        power == Power(s % n, Value(given.rsa.e, Limb), n)
        Means(t) == /\ k - 3 - Len(t) >= MinPad
                    /\ power = Value(Reverse(Padded(k, t)), Byte)
    IN \A type \in Types, m \in Digests :
         RSA_verify(type, m, given.bytes, given.rsa, given.em) <=>
           /\ Len(given.bytes) = k /\ s < n
           /\ \E t \in Encodings(type, m) : Means(t)

(* In whatever pieces a message is given, its digest is of the message, a  *)
(* mark, and zeros up to its length in bits at the end of a block.         *)
Blocks(s) ==
  [i \in 1..Len(s) \div BlockBytes |-> SubSeq(s, (i - 1) * BlockBytes + 1, i * BlockBytes)]
MessagesAreDigested ==
  LET bits == 8 * message
      zeros == CHOOSE n \in 0..BlockBytes - 1 : (message + 1 + n + LengthBytes) % BlockBytes = 0
      all == BytesFrom(0, message) \o <<"80">> \o Zeros(zeros)
               \o <<bits % TwoToTheBits, (bits \div TwoToTheBits) % TwoToTheBits>>
  IN RIPEMD160_Final(ctx) = Blocks(all)
=============================================================================
