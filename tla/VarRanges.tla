------------------------------ MODULE VarRanges ------------------------------
(***************************************************************************)
(* src/hle/var_ranges.c: address ranges that do not overlap, each with a   *)
(* value, in an array sorted by base that is searched by halves.           *)
(*                                                                         *)
(* A map is a sequence of ranges; its capacity is left out, and so is a    *)
(* realloc that fails.  Addresses wrap at Top + 1, as a uintptr_t does.    *)
(***************************************************************************)
EXTENDS Integers, Sequences

CONSTANT Top   \* UINTPTR_MAX

Addresses == 0..Top
Wrapped(n) == n % (Top + 1)

end_of(r) == r.base + r.length

(* How many ranges have a base at or below address: the index, from 0, of  *)
(* the first above it.                                                     *)
upper_bound(map, address) ==
  LET search[lo \in 0..Len(map), hi \in 0..Len(map)] ==
        IF lo >= hi THEN lo
        ELSE LET mid == lo + (hi - lo) \div 2
             IN IF map[mid + 1].base <= address THEN search[mid + 1, hi]
                ELSE search[lo, mid]
  IN search[0, Len(map)]

(* What hle_var_ranges_add refuses is empty, wraps or overlaps.            *)
MayAdd(map, base, length) ==
  LET i == upper_bound(map, base)
  IN /\ length > 0 /\ Wrapped(base + length) >= base
     /\ i > 0 => end_of(map[i]) <= base
     /\ i < Len(map) => map[i + 1].base >= base + length

hle_var_ranges_add(map, base, length, value) ==
  LET i == upper_bound(map, base)
  IN IF MayAdd(map, base, length)
     THEN SubSeq(map, 1, i) \o <<[base |-> base, length |-> length, value |-> value]>>
            \o SubSeq(map, i + 1, Len(map))
     ELSE map

hle_var_ranges_remove(map, base) ==
  LET i == upper_bound(map, base)
  IN IF i = 0 \/ map[i].base # base THEN map
     ELSE SubSeq(map, 1, i - 1) \o SubSeq(map, i + 1, Len(map))

(* The places in map of the ranges that overlap, first to last - 1.        *)
Overlap(map, base, length) ==
  LET end == IF Wrapped(base + length) < base THEN Top ELSE base + length
      i == upper_bound(map, base)
      first == IF i > 0 /\ end_of(map[i]) > base THEN i ELSE i + 1
  IN IF length = 0 THEN {}
     ELSE {j \in first..Len(map) : \A k \in first..j : map[k].base < end}

(* hle_var_ranges_take_overlapping: what is taken, in address order, and   *)
(* what stays.                                                             *)
Taken(map, base, length) ==
  LET js == Overlap(map, base, length)
  IN SelectSeq([j \in DOMAIN map |-> [range |-> map[j], at |-> j]], LAMBDA e : e.at \in js)
Kept(map, base, length) ==
  LET js == Overlap(map, base, length)
      kept == SelectSeq([j \in DOMAIN map |-> [range |-> map[j], at |-> j]],
                        LAMBDA e : e.at \notin js)
  IN [j \in DOMAIN kept |-> kept[j].range]

(* hle_var_ranges_find: the range that holds address, if there is one, as  *)
(* a set.                                                                  *)
hle_var_ranges_find(map, address) ==
  LET i == upper_bound(map, address)
  IN {map[j] : j \in {j \in {i} : i > 0 /\ address - map[i].base < map[i].length}}

(* What the array is for.                                                  *)
Holding(map, address) ==
  {map[j] : j \in {j \in DOMAIN map : address \in map[j].base..end_of(map[j]) - 1}}
FindsAll(map) ==
  /\ \A i, j \in DOMAIN map : i < j => end_of(map[i]) <= map[j].base
  /\ \A a \in Addresses : hle_var_ranges_find(map, a) = Holding(map, a)
=============================================================================
