---------------------------- MODULE Collections ----------------------------
(***************************************************************************)
(* cf_base.c's reference counts and cf_collections.c: arrays and           *)
(* dictionaries, and the strings in them.                                  *)
(*                                                                         *)
(* An object is a block that malloc gave and may give again.  The game     *)
(* follows CF's rules: it owns what it created or retained, and uses what  *)
(* it owns and what it can reach from there; what a collection made with   *)
(* NULL callbacks holds is only an address.                                *)
(***************************************************************************)
EXTENDS Integers, SequencesExt, FiniteSetsExt

CONSTANTS Blocks,        \* 1..n: the blocks of the heap
          Texts,         \* what is appended to an empty string
          Storable,      \* bound: the types put into collections
          MaxHeld,       \* the most entries of all collections together
          MaxOwned       \* the most references the game has

VARIABLES heap,          \* the objects
          owned          \* history: the game's references to each

vars == <<heap, owned>>

Object(type, rc) ==
  [type |-> type, rc |-> rc, text |-> "", mutable |-> FALSE, keys |-> <<>>,
   values |-> <<>>, cf_types |-> FALSE, copy_string_keys |-> FALSE]
Free == Object("free", 0)

Init == heap = [o \in Blocks |-> Free] /\ owned = [o \in Blocks |-> 0]

-----------------------------------------------------------------------------
(* The operators below give the heap after a call.                         *)
HasRoom == \E o \in Blocks : heap[o].type = "free"
HeldBy(c) == Len(heap[c].values)
HasPlaces(n) == MapThenSumSet(HeldBy, Blocks) + n <= MaxHeld
HasPlace == HasPlaces(1)
Unused(h) == Min({o \in Blocks : h[o].type = "free"})
cf_alloc(h, object) == [h EXCEPT ![Unused(h)] = object]

CFRetain(h, o) == [h EXCEPT ![o].rc = IF @ > 0 THEN @ + 1 ELSE @]
RetainAll(h, objects) == FoldLeft(CFRetain, h, objects)

(* Who releases the last reference finalizes the object: a collection      *)
(* releases what it retained, and then the block is free.                  *)
RECURSIVE CFRelease(_, _)
ReleaseAll(h, objects) == FoldLeft(CFRelease, h, objects)
CFRelease(h, o) ==
  IF h[o].rc <= 0 THEN h
  ELSE IF h[o].rc > 1 THEN [h EXCEPT ![o].rc = @ - 1]
  ELSE [ReleaseAll([h EXCEPT ![o].rc = 0],
                   IF h[o].cf_types THEN h[o].keys \o h[o].values ELSE <<>>)
        EXCEPT ![o] = Free]

(* Faulty variant: the old value goes before the new one is retained.      *)
Replaced_ReleasingFirst(h, c, i, v) ==
  LET old == h[c].values[i]
      kept == IF h[c].cf_types THEN CFRetain(CFRelease(h, old), v) ELSE h
  IN [kept EXCEPT ![c].values[i] = v]

(* A collection retains a value before it releases the one it replaces:    *)
(* they may be one object, or the old one may hold the new.                *)
Replaced(h, c, i, v) ==
  LET old == h[c].values[i]
      kept == IF h[c].cf_types THEN CFRelease(CFRetain(h, v), old) ELSE h
  IN [kept EXCEPT ![c].values[i] = v]

cf_array_append(h, a, v) ==
  [(IF h[a].cf_types THEN CFRetain(h, v) ELSE h) EXCEPT ![a].values = Append(@, v)]

(* Strings are equal when they say the same, and raw pointers when they    *)
(* are the same.                                                           *)
SameKey(h, d, k, l) == IF h[d].cf_types THEN h[k].text = h[l].text ELSE k = l
dict_index(h, d, key) ==
  {i \in DOMAIN h[d].keys : SameKey(h, d, h[d].keys[i], key)}

(* A key is copied or retained, as the callbacks say, when it is new.      *)
cf_dict_set(h, d, key, v) ==
  LET held == dict_index(h, d, key)
      retained == IF h[d].cf_types THEN CFRetain(h, v) ELSE h
      copied == cf_alloc(retained, [Object("string", 1) EXCEPT !.text = h[key].text])
      Put(g, k) == [g EXCEPT ![d].keys = Append(@, k), ![d].values = Append(@, v)]
  IN IF held # {} THEN Replaced(h, d, Min(held), v)
     ELSE IF h[d].copy_string_keys THEN Put(copied, Unused(retained))
     ELSE IF h[d].cf_types THEN Put(CFRetain(retained, key), key)
     ELSE Put(retained, key)

cf_dict_remove(h, d, key) ==
  LET held == dict_index(h, d, key) i == Min(held)
      without == [h EXCEPT ![d].keys = RemoveAt(@, i), ![d].values = RemoveAt(@, i)]
  IN IF held = {} THEN h
     ELSE IF h[d].cf_types THEN ReleaseAll(without, <<h[d].keys[i], h[d].values[i]>>)
     ELSE without

-----------------------------------------------------------------------------
(* What the game may name: what it owns and what that holds.  The strings  *)
(* it changes or passes as keys are its own (a bound).                     *)
RECURSIVE ReachedFrom(_)
ReachedFrom(objects) ==
  LET held == UNION {IF heap[o].cf_types THEN ToSet(heap[o].keys \o heap[o].values) ELSE {}
                     : o \in objects}
  IN IF held \subseteq objects THEN objects ELSE ReachedFrom(objects \cup held)
Usable == ReachedFrom({o \in Blocks : owned[o] > 0})
Arrays == {o \in Usable : heap[o].type = "array"}
Dictionaries == {o \in Usable : heap[o].type = "dict"}
Strings == {o \in Blocks : owned[o] > 0 /\ heap[o].type = "string"}
Values == {o \in Usable : heap[o].type \in Storable}

(* A Create or Copy call: the new object is the game's.                    *)
OwnsLess == MapThenSumSet(LAMBDA o : owned[o], Blocks) < MaxOwned
Creates(h, o) == OwnsLess /\ heap' = h /\ owned' = [owned EXCEPT ![o] = 1]
Keeps(h) == heap' = h /\ UNCHANGED owned

CFStringCreateMutable ==
  /\ HasRoom
  /\ Creates(cf_alloc(heap, [Object("string", 1) EXCEPT !.mutable = TRUE]), Unused(heap))
CFStringAppend ==
  \E s \in Strings, t \in Texts :
    heap[s].mutable /\ heap[s].text = "" /\ Keeps([heap EXCEPT ![s].text = t])
(* Of all there is.                                                        *)
CFStringDelete ==
  \E s \in Strings : heap[s].mutable /\ Keeps([heap EXCEPT ![s].text = ""])

CFArrayCreateMutable ==
  /\ HasRoom
  /\ \E callbacks \in BOOLEAN :
       Creates(cf_alloc(heap, [Object("array", 1) EXCEPT !.cf_types = callbacks]), Unused(heap))
CFDictionaryCreateMutable ==
  /\ HasRoom
  /\ \E callbacks \in {"none", "types", "copies"} :
       Creates(cf_alloc(heap, [Object("dict", 1) EXCEPT
                                 !.cf_types = callbacks # "none",
                                 !.copy_string_keys = callbacks = "copies"]),
               Unused(heap))

GameRetains ==
  \E o \in Usable :
    OwnsLess /\ heap' = CFRetain(heap, o) /\ owned' = [owned EXCEPT ![o] = @ + 1]
GameReleases ==
  \E o \in Blocks : /\ owned[o] > 0
                    /\ heap' = CFRelease(heap, o) /\ owned' = [owned EXCEPT ![o] = @ - 1]

CFArrayAppendValue ==
  \E a \in Arrays, v \in Values :
    HasPlace /\ Keeps(cf_array_append(heap, a, v))
(* At the count, CFArraySetValueAtIndex appends too.                       *)
CFArraySetValueAtIndex ==
  \E a \in Arrays, v \in Values :
    \E i \in DOMAIN heap[a].values : Keeps(Replaced(heap, a, i, v))
CFArrayCreateMutableCopy ==
  \E a \in Arrays :
    /\ HasRoom /\ HasPlaces(HeldBy(a))
    /\ Creates(FoldLeft(LAMBDA h, v : cf_array_append(h, Unused(heap), v),
                        cf_alloc(heap, [Object("array", 1) EXCEPT !.cf_types = heap[a].cf_types]),
                        heap[a].values),
               Unused(heap))

CFDictionarySetValue ==
  \E d \in Dictionaries, k \in Strings, v \in Values :
    /\ dict_index(heap, d, k) = {} =>
         HasPlace /\ (heap[d].copy_string_keys => HasRoom)
    /\ Keeps(cf_dict_set(heap, d, k, v))
CFDictionaryRemoveValue ==
  \E d \in Dictionaries, k \in Strings : Keeps(cf_dict_remove(heap, d, k))
(* The room the copies of its keys take is there.                          *)
CFDictionaryCreateMutableCopy ==
  \E d \in Dictionaries :
    LET copies == [Object("dict", 1) EXCEPT !.cf_types = heap[d].cf_types,
                                            !.copy_string_keys = heap[d].copy_string_keys]
        keys == heap[d].keys
    IN /\ HasPlaces(HeldBy(d))
       /\ Cardinality({o \in Blocks : heap[o].type = "free"})
            > (IF heap[d].copy_string_keys THEN Len(keys) ELSE 0)
       /\ Creates(FoldLeft(LAMBDA h, i : cf_dict_set(h, Unused(heap), keys[i], heap[d].values[i]),
                           cf_alloc(heap, copies), [i \in DOMAIN keys |-> i]),
                  Unused(heap))

Next ==
  \/ CFStringCreateMutable \/ CFStringAppend \/ CFStringDelete
  \/ CFArrayCreateMutable \/ CFArrayAppendValue \/ CFArraySetValueAtIndex
  \/ CFArrayCreateMutableCopy
  \/ CFDictionaryCreateMutable \/ CFDictionarySetValue \/ CFDictionaryRemoveValue
  \/ CFDictionaryCreateMutableCopy
  \/ GameRetains \/ GameReleases

Spec == Init /\ [][Next]_vars

-----------------------------------------------------------------------------
(* Blocks hold objects, and only dictionaries have keys.                   *)
TypeOK ==
  /\ \A o \in Blocks :
       /\ heap[o].type \in {"free", "string", "array", "dict"} /\ heap[o].rc >= 0
       /\ (heap[o].type = "free") <=> (heap[o] = Free)
       /\ heap[o].keys # <<>> => heap[o].type = "dict"
  /\ owned \in [Blocks -> 0..MaxOwned]

(* An object is counted once for each reference to it, the game's and      *)
(* those of collections that retain, and so is there as long as any is:    *)
(* no sequence of calls frees what a collection holds, or keeps what none  *)
(* does (cf_base.c:176, cf_collections.c:80 and 216).                      *)
Slots(c, o) ==
  IF heap[c].cf_types
  THEN Cardinality({i \in DOMAIN heap[c].keys : heap[c].keys[i] = o})
       + Cardinality({i \in DOMAIN heap[c].values : heap[c].values[i] = o})
  ELSE 0
ReferencesAreExact ==
  \A o \in Blocks :
    heap[o].rc = owned[o] + MapThenSumSet(LAMBDA c : Slots(c, o), Blocks)

(* Whatever becomes of the strings a key was given as, a dictionary that   *)
(* copies its keys has one value for each (cf_collections.c:297).          *)
KeysAreDistinct ==
  \A d \in Blocks : heap[d].copy_string_keys =>
    \A i, j \in DOMAIN heap[d].keys :
      heap[heap[d].keys[i]].text = heap[heap[d].keys[j]].text => i = j

(* Both.                                                                   *)
CollectionsAreWhole == ReferencesAreExact /\ KeysAreDistinct
=============================================================================
