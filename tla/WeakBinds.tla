------------------------------- MODULE WeakBinds -------------------------------
(***************************************************************************)
(* The weak symbols of MachOLoader::doBind (src/ld-mac.cc).                *)
(*                                                                         *)
(* C++ templates leave a definition of the same weak symbol in several     *)
(* images, which all have to use one of them.  doBind goes through the     *)
(* weak binds of one image after the other and keeps, for the process's    *)
(* life, a sorted list of the names it has met and what it bound them to.  *)
(* Images are bound in the order of their numbers: the libraries, then the *)
(* executable, then the libraries the program opens.                       *)
(***************************************************************************)
EXTENDS Naturals, Sequences, FiniteSets, Functions

CONSTANTS Images,      \* 1..n
          Executable,  \* the last image of the first load
          Names,       \* 1..n, in the order of strcmp
          Classic      \* whether images may be classic i386 ones

VARIABLES
  classic, slid,       \* no LC_DYLD_INFO; mapped away from its link address
  defines, uses,       \* the weak names an image defines; those it binds
  binds,               \* what is left of mach.binds() of the current image
  image,               \* the image being bound
  last_weak_name, last_weak_sym,
  seen_weak_binds_, seen_weak_bind_index, seen_weak_binds_orig_size,
  pointers,            \* what each image's pointers to a name hold
  stubs                \* and where its jump to a name goes

files == <<classic, slid, defines, uses>>
lastWeak == <<last_weak_name, last_weak_sym>>
seen == <<seen_weak_binds_, seen_weak_bind_index, seen_weak_binds_orig_size>>
vars == <<files, binds, image, lastWeak, seen, pointers, stubs>>

(* A definition's address.  A system library's definition is image 0's.    *)
Address(i) == [image |-> i, slid |-> i # 0 /\ slid[i]]
LinkAddress(i) == [image |-> i, slid |-> FALSE]
Nowhere == LinkAddress(0)
Pointer(n) == [name |-> n, stub |-> FALSE]
Stub(n) == [name |-> n, stub |-> TRUE]

(* An image with binding opcodes lists its weak binds by name; a classic   *)
(* one has its pointers in any order, and then its jump table.  One of the *)
(* names may have two pointers.                                            *)
Inserted(s, p, e) == SubSeq(s, 1, p) \o <<e>> \o SubSeq(s, p + 1, Len(s))
Twice(s) == {Inserted(s, p, s[k]) : p \in 0..Len(s), k \in DOMAIN s}
InOrder(s) == \A k \in 1..Len(s) - 1 : s[k] <= s[k + 1]
Orders(i) == Bijection(1..Cardinality(uses[i]), uses[i])
PointerOrders(i) == UNION {{s} \cup Twice(s) : s \in Orders(i)}
Pointers(s) == [k \in DOMAIN s |-> Pointer(s[k])]
Stubs(s) == [k \in DOMAIN s |-> Stub(s[k])]
WeakBindsOf(i) ==
  IF classic[i]
  THEN {Pointers(s) \o Stubs(j) : s \in PointerOrders(i), j \in {j \in Orders(i) : InOrder(j)}}
  ELSE {Pointers(s) : s \in {s \in PointerOrders(i) : InOrder(s)}}

InitFiles ==
  /\ classic \in [Images -> IF Classic THEN BOOLEAN ELSE {FALSE}]
  /\ slid = [i \in Images |-> i # Executable]
  /\ uses \in [Images -> SUBSET Names]
  /\ defines \in [Images -> SUBSET Names]
  /\ \A i \in Images : defines[i] \subseteq uses[i] /\ (classic[i] => uses[i] = defines[i])

InitBinding ==
  /\ image = 1
  /\ binds \in WeakBindsOf(1)
  /\ last_weak_name = 0 /\ last_weak_sym = Nowhere
  /\ seen_weak_binds_ = <<>>
  /\ seen_weak_bind_index = 0
  /\ seen_weak_binds_orig_size = 0
  /\ pointers = [i \in Images |-> [n \in Names |-> {}]]
  /\ stubs = [i \in Images |-> [n \in Names |-> Nowhere]]

Init == InitFiles /\ InitBinding

-----------------------------------------------------------------------------
(* exports_ once the load of image i is mapped: the first image in the     *)
(* order of mapping, in which the executable is before its libraries.      *)
Mapped(i) == IF i <= Executable THEN 1..Executable ELSE 1..i
Exporters(i, n) == {j \in Mapped(i) : n \in defines[j]}
First(js) == IF Executable \in js THEN Executable ELSE CHOOSE j \in js : \A k \in js : j <= k

(* What a pointer holds until then: the image's own definition, or what    *)
(* its import of the name was bound to.                                    *)
Rebased(i, n) == IF n \in defines[i] THEN Address(i) ELSE Nowhere

Current == Head(binds)
More == image \in Images /\ binds # <<>>
Sets(n, sym) == pointers' = [pointers EXCEPT ![image][n] = @ \cup {sym}]

JumpsToOwn ==
  /\ More /\ Current.stub
  /\ stubs' = [stubs EXCEPT ![image][Current.name] = LinkAddress(image)]
  /\ binds' = Tail(binds)
  /\ UNCHANGED <<files, image, lastWeak, seen, pointers>>

WeakBind == More /\ ~Current.stub
SameAsLast == WeakBind /\ Current.name = last_weak_name

BindsAsLast ==
  /\ SameAsLast
  /\ Sets(Current.name, last_weak_sym)
  /\ binds' = Tail(binds)
  /\ UNCHANGED <<files, image, lastWeak, seen, stubs>>

Entry == seen_weak_binds_[seen_weak_bind_index + 1]
IsNext(n) == seen_weak_bind_index # seen_weak_binds_orig_size /\ Entry.name = n

BindsAsSeen ==
  /\ WeakBind /\ ~SameAsLast /\ IsNext(Current.name)
  /\ last_weak_name' = Current.name
  /\ last_weak_sym' = Entry.sym
  /\ Sets(Current.name, Entry.sym)
  /\ seen_weak_bind_index' = seen_weak_bind_index + 1
  /\ binds' = Tail(binds)
  /\ UNCHANGED <<files, image, seen_weak_binds_, seen_weak_binds_orig_size, stubs>>

(* Faulty variant: every image starts from its own definition.             *)
Chosen_Own(n) == IF classic[image] THEN LinkAddress(image) ELSE Rebased(image, n)

Chosen(n) ==
  IF classic[image] THEN LinkAddress(image)
  ELSE IF Exporters(image, n) # {} THEN Address(First(Exporters(image, n)))
  ELSE Rebased(image, n)

(* The index passes the names up to this one, which all come before what   *)
(* is left of a sorted list.                                               *)
Skipped(n) ==
  LET kept == {k \in seen_weak_bind_index..seen_weak_binds_orig_size :
                 /\ \A j \in seen_weak_bind_index + 1..k : seen_weak_binds_[j].name <= n
                 /\ k < seen_weak_binds_orig_size => seen_weak_binds_[k + 1].name > n}
  IN CHOOSE k \in kept : TRUE

BindsFirst ==
  /\ WeakBind /\ ~SameAsLast /\ ~IsNext(Current.name)
  /\ LET n == Current.name
     IN /\ last_weak_name' = n
        /\ last_weak_sym' = Chosen(n)
        /\ Sets(n, Chosen(n))
        /\ seen_weak_binds_' = Append(seen_weak_binds_, [name |-> n, sym |-> Chosen(n)])
        /\ seen_weak_bind_index' = Skipped(n)
  /\ binds' = Tail(binds)
  /\ UNCHANGED <<files, image, seen_weak_binds_orig_size, stubs>>

(* Two sorted halves merge into one sorted list.                           *)
inplace_merge(s, middle) ==
  LET before(k) == {j \in DOMAIN s : \/ s[j].name < s[k].name
                                     \/ s[j].name = s[k].name /\ j < k}
  IN [p \in DOMAIN s |-> s[CHOOSE k \in DOMAIN s : Cardinality(before(k)) + 1 = p]]

doBindReturns ==
  /\ image \in Images /\ binds = <<>>
  /\ seen_weak_binds_' = inplace_merge(seen_weak_binds_, seen_weak_binds_orig_size)
  /\ seen_weak_binds_orig_size' = Len(seen_weak_binds_)
  /\ seen_weak_bind_index' = 0
  /\ last_weak_name' = 0 /\ last_weak_sym' = Nowhere
  /\ image' = image + 1
  /\ IF image + 1 \in Images THEN binds' \in WeakBindsOf(image + 1) ELSE binds' = <<>>
  /\ UNCHANGED <<files, pointers, stubs>>

Next == JumpsToOwn \/ BindsAsLast \/ BindsAsSeen \/ BindsFirst \/ doBindReturns
Spec == Init /\ [][Next]_vars

-----------------------------------------------------------------------------
Sorted(s) == \A k \in 1..Len(s) - 1 : s[k].name <= s[k + 1].name
NoClassic == \A i \in Images : ~classic[i]
Addresses == {Nowhere} \cup {Address(i) : i \in Images} \cup {LinkAddress(i) : i \in Images}

(* Every variable has its type, and without classic images the list stays  *)
(* sorted by name, as the scan of it and inplace_merge need; what the      *)
(* current image adds is sorted too.                                       *)
TypeOK ==
  /\ image \in 1..Cardinality(Images) + 1
  /\ binds \in Seq([name : Names, stub : BOOLEAN])
  /\ last_weak_name \in Names \cup {0}
  /\ last_weak_sym \in Addresses
  /\ seen_weak_binds_ \in Seq([name : Names, sym : Addresses])
  /\ seen_weak_bind_index \in 0..seen_weak_binds_orig_size
  /\ seen_weak_binds_orig_size \in 0..Len(seen_weak_binds_)
  /\ pointers \in [Images -> [Names -> SUBSET Addresses]]
  /\ stubs \in [Images -> [Names -> Addresses]]
  /\ NoClassic =>
       /\ Sorted(SubSeq(seen_weak_binds_, 1, seen_weak_binds_orig_size))
       /\ Sorted(SubSeq(seen_weak_binds_, seen_weak_binds_orig_size + 1, Len(seen_weak_binds_)))

(* The images of one load that bind a weak symbol which one of them        *)
(* defines use the same definition of it, when none of them is classic.    *)
Bound(i) == i < image
Shared(n) == {i \in 1..Executable : Bound(i) /\ n \in uses[i]}
Coalesced ==
  \A n \in Names :
    NoClassic /\ Exporters(Executable, n) # {} =>
      \A i, j \in Shared(n) : \A p \in pointers[i][n], q \in pointers[j][n] : p = q

(* "A stub or relocation for a weak symbol the image defines itself ...    *)
(* binds to that definition" (ld-mac.cc:853): where the image was mapped.  *)
JumpsToItsDefinition ==
  \A i \in Images, n \in Names :
    Bound(i) /\ classic[i] /\ n \in defines[i] => stubs[i][n] = Address(i)
=============================================================================
