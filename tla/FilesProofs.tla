---------------------------- MODULE FilesProofs ----------------------------
(* Theorems about what is read of files: about Loader, for any files,      *)
(* whatever they list and export, and however often they are opened, and   *)
(* about the weak symbols, forks, resources, preferences and catalog of    *)
(* FileParts.                                                              *)
EXTENDS Loader, FileParts, Lists, SequenceTheorems

-----------------------------------------------------------------------------
(* The invariant.                                                          *)

(* Images that mapImage calls have not returned from.                      *)
OnTheWay == {mapping[d].image : d \in DOMAIN mapping}
Finished(i) == i \in Range(init_funcs_) \cup Range(ran)

(* A mapImage call has linked the libraries before the next one it wants,  *)
(* the image of the call inside it last, and inner calls map later images. *)
CallsNest ==
  /\ \A d \in DOMAIN mapping :
       Len(images[mapping[d].image].libraries) = mapping[d].next - 1
  /\ \A d, e \in DOMAIN mapping : d < e => mapping[d].image < mapping[e].image
  /\ \A d, e \in DOMAIN mapping : e = d + 1 => mapping[e].image \in Loads(mapping[d].image)

(* An image that is mapped has all its libraries, and no image has more;   *)
(* the executable is an image.                                             *)
ImagesAreLinked ==
  /\ 1 \in Numbers
  /\ \A i \in Numbers :
       /\ Len(images[i].libraries) <= Len(dylibs[images[i].file])
       /\ i \notin OnTheWay => Len(images[i].libraries) = Len(dylibs[images[i].file])

(* A library is known by its path exactly if an image of it was mapped for *)
(* others.                                                                 *)
LibrariesAreKnown ==
  \A f \in Libraries :
    IF f \in loaded_dylibs_
    THEN dylib_exports_[f] \in Numbers /\ images[dylib_exports_[f]].file = f
    ELSE dylib_exports_[f] = 0

(* A load maps, then binds, then ends.                                     *)
LoadsGoOn ==
  /\ bound # {} => loading /\ mapping = <<>>
  /\ ~loading => mapping = <<>> /\ mapped = <<>>

(* What dlopen maps is no image that another needs: neither while it is    *)
(* mapped, nor while its initializers run, nor once it is returned.        *)
OpenedIsApart ==
  /\ ClosedIsForgotten
  /\ \A k \in DOMAIN running : running[k].opened \notin Needed \cup {1}
  /\ loading /\ opens # 0 =>
       IF Maps THEN mapping[1].image \notin Needed \cup {1}
       ELSE init_funcs_ # <<>> /\ Last1(init_funcs_) \notin Needed \cup {1}

(* The images whose initializers are queued, or were called, are those     *)
(* that are mapped; they are queued behind their libraries; and what the   *)
(* innermost runInitFuncs is past was called.                              *)
MappedAreFinished == \A i \in Numbers : Finished(i) <=> i \notin OnTheWay
Behind(p, j) == \E q \in 1..p - 1 : init_funcs_[q] = j
QueuedInOrder ==
  \A p \in DOMAIN init_funcs_ : \A j \in Loads(init_funcs_[p]) :
    LoadsEachOther(init_funcs_[p], j) \/ j \in Range(ran) \/ Behind(p, j)
CalledInOrder ==
  ~loading /\ running # <<>> =>
    \A p \in DOMAIN init_funcs_ : p < Last1(running).at => init_funcs_[p] \in Range(ran)

LoaderInv ==
  /\ TypeOK /\ OneImagePerLibrary /\ BoundWhereTold
  /\ CallsNest /\ ImagesAreLinked /\ LibrariesAreKnown /\ LoadsGoOn /\ OpenedIsApart
  /\ MappedAreFinished /\ QueuedInOrder /\ CalledInOrder /\ LibrariesInitializeFirst

-----------------------------------------------------------------------------
(* What is read off the invariant.                                         *)

(* What is in a list has a place there.                                    *)
LEMMA RangeOf ==
  ASSUME NEW s, NEW x
  PROVE  x \in Range(s) <=> \E k \in DOMAIN s : s[k] = x
  BY DEF Range

(* A file lists libraries and system libraries.                            *)
LEMMA Lists253 ==
  ASSUME TypeOK, NEW f \in Files
  PROVE  /\ dylibs[f] \in Seq(Libraries \cup {System})
         /\ Len(dylibs[f]) \in 0..MAX_LIBRARY_ORDINAL /\ Len(dylibs[f]) \in Nat
         /\ DOMAIN dylibs[f] = 1..Len(dylibs[f])
<1>1. dylibs[f] \in DepLists
  BY DEF TypeOK
<1>2. dylibs[f] \in Seq(Libraries \cup {System}) /\ Len(dylibs[f]) <= MAX_LIBRARY_ORDINAL
  BY <1>1, ListsAreLists
<1>3. Len(dylibs[f]) \in Nat /\ DOMAIN dylibs[f] = 1..Len(dylibs[f])
  BY <1>2
<1>4. MAX_LIBRARY_ORDINAL \in Nat
  BY DEF MAX_LIBRARY_ORDINAL
<1>5. Len(dylibs[f]) \in 0..MAX_LIBRARY_ORDINAL
  BY <1>2, <1>3, <1>4
<1> QED
  BY <1>2, <1>3, <1>5

(* An image has a file, and links images.                                  *)
LEMMA ImageIs ==
  ASSUME TypeOK, NEW i \in Numbers
  PROVE  /\ images[i].file \in Files
         /\ images[i].libraries \in Seq(0..Len(images))
         /\ images[i] = [file |-> images[i].file, libraries |-> images[i].libraries]
         /\ Loads(i) \subseteq Numbers
<1> DEFINE Ims == [file : Files, libraries : Seq(0..Len(images))]
<1>1. images \in Seq(Ims)
  BY DEF TypeOK
<1> HIDE DEF Ims
<1>2. images[i] \in Ims
  BY <1>1 DEF Numbers
<1>3. /\ images[i].file \in Files
      /\ images[i].libraries \in Seq(0..Len(images))
      /\ images[i] = [file |-> images[i].file, libraries |-> images[i].libraries]
  BY <1>2 DEF Ims
<1>4. Len(images) \in Nat
  BY <1>1
<1>5. Range(images[i].libraries) \subseteq 0..Len(images)
  BY <1>3 DEF Range
<1> QED
  BY <1>3, <1>4, <1>5 DEF Loads, Numbers

(* The innermost mapImage call.                                            *)
LEMMA TopIs ==
  ASSUME TypeOK, Maps
  PROVE  /\ Len(mapping) \in Nat \ {0} /\ DOMAIN mapping = 1..Len(mapping)
         /\ top = mapping[Len(mapping)]
         /\ top.image \in Numbers /\ top.next \in Nat \ {0}
         /\ top = [image |-> top.image, next |-> top.next]
         /\ top.image \in OnTheWay
<1> DEFINE Calls == [image : Numbers, next : Nat \ {0}]
<1>1. mapping \in Seq(Calls)
  BY DEF TypeOK
<1> HIDE DEF Calls
<1>2. Len(mapping) \in Nat \ {0} /\ DOMAIN mapping = 1..Len(mapping)
  BY <1>1 DEF Maps
<1>3. mapping[Len(mapping)] \in Calls
  BY <1>1, <1>2
<1> QED
  BY <1>2, <1>3 DEF Calls, top, Last1, OnTheWay

(* All the calls are on images.                                            *)
LEMMA CallsAre ==
  ASSUME TypeOK
  PROVE  /\ Len(mapping) \in Nat /\ DOMAIN mapping = 1..Len(mapping)
         /\ Len(images) \in Nat
         /\ \A d \in DOMAIN mapping : mapping[d].image \in Numbers /\ mapping[d].next \in Nat \ {0}
         /\ \A i \in Numbers : i \in Nat
<1> DEFINE Calls == [image : Numbers, next : Nat \ {0}]
<1>1. mapping \in Seq(Calls) /\ Len(images) \in Nat
  BY DEF TypeOK
<1>2. \A c \in Calls : c.image \in Numbers /\ c.next \in Nat \ {0}
  OBVIOUS
<1> HIDE DEF Calls
<1>3. Len(mapping) \in Nat /\ DOMAIN mapping = 1..Len(mapping)
  BY <1>1
<1>4. \A d \in DOMAIN mapping : mapping[d] \in Calls
  BY <1>1
<1> QED
  BY <1>1, <1>2, <1>3, <1>4 DEF Numbers

(* What it wants next is a library or the system's.                        *)
LEMMA WantedIs ==
  ASSUME TypeOK, HasMore
  PROVE  /\ Maps /\ Wanted = dylibs[images[top.image].file]
         /\ top.next \in DOMAIN Wanted
         /\ dylib = Wanted[top.next]
         /\ dylib \in Libraries \cup {System}
<1>1. /\ Maps /\ top.next <= Len(Wanted) /\ dylib = Wanted[top.next]
      /\ Wanted = dylibs[images[top.image].file]
  BY DEF HasMore, dylib, Wanted
<1>2. top.image \in Numbers /\ top.next \in Nat \ {0}
  BY <1>1, TopIs
<1>3. images[top.image].file \in Files
  BY <1>2, ImageIs
<1>4. /\ Wanted \in Seq(Libraries \cup {System}) /\ DOMAIN Wanted = 1..Len(Wanted)
      /\ Len(Wanted) \in Nat
  BY <1>1, <1>3, Lists253
<1>5. top.next \in DOMAIN Wanted
  BY <1>1, <1>2, <1>4
<1>6. dylib \in Libraries \cup {System}
  BY <1>1, <1>4, <1>5
<1> QED
  BY <1>1, <1>5, <1>6

(* What is loaded goes on being loaded: links are only added.              *)
LEMMA LeadsOn ==
  ASSUME TypeOK, Len(images') \in Nat, Len(images') >= Len(images),
         \A k \in Numbers : Loads(k) \subseteq Loads(k)',
         NEW i \in Numbers, NEW j \in Numbers, LoadsEachOther(i, j)
  PROVE  LoadsEachOther(i, j)'
<1>1. Numbers \subseteq Numbers' /\ \A k \in Numbers : Loads(k) \subseteq Numbers
  <2>1. Len(images) \in Nat
    BY DEF TypeOK
  <2>2. Numbers \subseteq Numbers'
    BY <2>1 DEF Numbers
  <2> QED
    BY <2>2, ImageIs
<1>2. ASSUME NEW leads \in SUBSET Numbers', j \in leads,
             \A k \in leads : Loads(k)' \subseteq leads
      PROVE  i \in leads
  <2> DEFINE before == leads \cap Numbers
  <2>1. before \in SUBSET Numbers /\ j \in before
    BY <1>2
  <2>2. \A k \in before : Loads(k) \subseteq before
    BY <1>1, <1>2
  <2> QED
    BY <2>1, <2>2 DEF LoadsEachOther
<1> QED
  BY <1>2 DEF LoadsEachOther

-----------------------------------------------------------------------------
(* Linking a library.                                                      *)

(* Images, the libraries of which are among the first n.                   *)
Ims(n) == [file : Files, libraries : Seq(0..n)]

(* Images whose libraries are among so many have them among more.          *)
LEMMA ImagesWiden ==
  ASSUME TypeOK, NEW n \in Nat, n >= Len(images)
  PROVE  images \in Seq(Ims(n))
<1>1. images \in Seq(Ims(Len(images))) /\ Len(images) \in Nat
  BY DEF TypeOK, Ims
<1>2. ASSUME NEW s \in Seq(0..Len(images))
      PROVE  s \in Seq(0..n)
  <2>1. \A k \in 1..Len(s) : s[k] \in 0..n
    BY <1>1
  <2> QED
    BY <2>1
<1>3. Ims(Len(images)) \subseteq Ims(n)
  BY <1>2 DEF Ims
<1> HIDE DEF Ims
<1>4. \A i \in 1..Len(images) : images[i] \in Ims(n)
  BY <1>1, <1>3
<1> QED
  BY <1>1, <1>4

(* Linked gives the innermost image one more library, and no other.        *)
LEMMA LinkedIs ==
  ASSUME TypeOK, HasMore, NEW n \in Nat, n >= Len(images), NEW l \in 0..n
  PROVE  LET ims == Linked(images, l)
         IN /\ ims \in Seq(Ims(n)) /\ Len(ims) = Len(images)
            /\ \A i \in Numbers \ {top.image} : ims[i] = images[i]
            /\ ims[top.image].file = images[top.image].file
            /\ ims[top.image].libraries = Append(images[top.image].libraries, l)
<1> DEFINE new == [file |-> images[top.image].file,
                   libraries |-> Append(images[top.image].libraries, l)]
           ims == Linked(images, l)
<1>1. images \in Seq(Ims(n)) /\ Len(images) \in Nat
  BY ImagesWiden, SMTT(30) DEF TypeOK
<1>2. top.image \in Numbers /\ Numbers = 1..Len(images)
  BY TopIs DEF HasMore, Numbers
<1>3. images[top.image] \in Ims(n)
  BY <1>1, <1>2
<1>4. /\ new \in Ims(n) /\ new.file = images[top.image].file
      /\ new.libraries = Append(images[top.image].libraries, l)
  BY <1>3, SMTT(30) DEF Ims
<1>5. ims = [images EXCEPT ![top.image] = new]
  BY DEF Linked
<1> HIDE DEF Ims, new, ims
<1>9. images \in [1..Len(images) -> Ims(n)]
  BY <1>1
<1>6. ims \in [1..Len(images) -> Ims(n)]
  BY <1>4, <1>5, <1>9
<1>7. ims \in Seq(Ims(n)) /\ Len(ims) = Len(images)
  BY <1>1, <1>6
<1>8. /\ \A i \in Numbers \ {top.image} : ims[i] = images[i]
      /\ ims[top.image] = new
  BY <1>1, <1>2, <1>5
<1> QED
  BY <1>4, <1>7, <1>8 DEF ims

(* What a step of mapDylibs does to the images there are: it links l, and  *)
(* is one library further.                                                 *)
Links(l) ==
  /\ Len(images') \in Nat /\ Len(images') >= Len(images)
  /\ \A i \in Numbers \ {top.image} : images'[i] = images[i]
  /\ images'[top.image].file = images[top.image].file
  /\ images'[top.image].libraries = Append(images[top.image].libraries, l)

(* mapDylibs after one library, and after all those inside it.             *)
LEMMA AdvancedIs ==
  ASSUME TypeOK, HasMore
  PROVE  /\ Advanced \in Seq([image : Numbers, next : Nat \ {0}])
         /\ Len(Advanced) = Len(mapping) /\ DOMAIN Advanced = DOMAIN mapping
         /\ \A d \in DOMAIN mapping : d # Len(mapping) => Advanced[d] = mapping[d]
         /\ Advanced[Len(mapping)] = [image |-> top.image, next |-> top.next + 1]
         /\ \A d \in DOMAIN mapping : Advanced[d].image = mapping[d].image
<1> DEFINE Calls == [image : Numbers, next : Nat \ {0}]
           new == [image |-> top.image, next |-> top.next + 1]
<1>1. mapping \in Seq(Calls)
  BY DEF TypeOK
<1>2. /\ Len(mapping) \in Nat \ {0} /\ DOMAIN mapping = 1..Len(mapping)
      /\ top = mapping[Len(mapping)] /\ top.image \in Numbers
      /\ top.next \in Nat \ {0}
  BY TopIs DEF HasMore
<1>3. new \in Calls /\ new.image = top.image
  BY <1>2
<1>4. Advanced = [mapping EXCEPT ![Len(mapping)] = new]
  BY <1>2 DEF Advanced
<1> HIDE DEF new, Calls
<1>9. mapping \in [1..Len(mapping) -> Calls]
  BY <1>1
<1>5. Advanced \in [1..Len(mapping) -> Calls]
  BY <1>2, <1>3, <1>4, <1>9
<1>6. Advanced \in Seq(Calls) /\ Len(Advanced) = Len(mapping)
  BY <1>2, <1>5
<1>10. DOMAIN Advanced = DOMAIN mapping
  BY <1>2, <1>5
<1>7. /\ \A d \in DOMAIN mapping : d # Len(mapping) => Advanced[d] = mapping[d]
      /\ Advanced[Len(mapping)] = new
  <2>1. \A d \in 1..Len(mapping) : d # Len(mapping) => Advanced[d] = mapping[d]
    BY <1>4, <1>9
  <2>2. Len(mapping) \in 1..Len(mapping)
    BY <1>2
  <2>3. Advanced[Len(mapping)] = new
    BY <1>4, <1>9, <2>2
  <2> QED
    BY <1>2, <2>1, <2>3
<1>8. \A d \in DOMAIN mapping : Advanced[d].image = mapping[d].image
  BY <1>2, <1>3, <1>7
<1> QED
  BY <1>6, <1>7, <1>8, <1>10 DEF Calls, new

(* What every step of mapImage and dlopen keeps, as images only grow: the  *)
(* order in which initializers are queued and called.                      *)
LEMMA OrderStays ==
  ASSUME LoaderInv, Len(images') \in Nat, Len(images') >= Len(images),
         \A i \in Numbers : Loads(i) \subseteq Loads(i)',
         \A i \in Numbers \ OnTheWay : Loads(i)' = Loads(i),
         init_funcs_' = init_funcs_, ran' = ran
  PROVE  QueuedInOrder' /\ LibrariesInitializeFirst'
<1>0. TypeOK /\ MappedAreFinished /\ QueuedInOrder /\ LibrariesInitializeFirst
  BY DEF LoaderInv
<1>1. Range(init_funcs_) \cup Range(ran) \subseteq Numbers
  BY <1>0 DEF TypeOK, Range
<1>2. ASSUME NEW i \in Range(init_funcs_) \cup Range(ran)
      PROVE  /\ i \in Numbers /\ Loads(i)' = Loads(i)
             /\ \A j \in Loads(i) : LoadsEachOther(i, j) => LoadsEachOther(i, j)'
  <2>1. i \in Numbers /\ i \notin OnTheWay
    BY <1>0, <1>1 DEF MappedAreFinished, Finished
  <2>2. Loads(i) \subseteq Numbers
    BY <1>0, <2>1, ImageIs
  <2>3. ASSUME NEW j \in Loads(i), LoadsEachOther(i, j)
        PROVE  LoadsEachOther(i, j)'
    BY <1>0, <2>1, <2>2, <2>3, LeadsOn
  <2> QED
    BY <2>1, <2>3
<1>3. QueuedInOrder'
  <2> SUFFICES ASSUME NEW p \in DOMAIN init_funcs_, NEW j \in Loads(init_funcs_[p])'
               PROVE  LoadsEachOther(init_funcs_[p], j)' \/ j \in Range(ran) \/ Behind(p, j)
    BY DEF QueuedInOrder, Behind
  <2>1. PICK i : i = init_funcs_[p]
    OBVIOUS
  <2>2. i \in Range(init_funcs_)
    BY <2>1, RangeOf
  <2>3. Loads(init_funcs_[p])' = Loads(i)'
    BY <2>1 DEF Loads
  <2>4. j \in Loads(i)
    BY <1>2, <2>2, <2>3
  <2>5. LoadsEachOther(i, j) \/ j \in Range(ran) \/ Behind(p, j)
    BY <1>0, <2>1, <2>4 DEF QueuedInOrder
  <2>6. LoadsEachOther(i, j)' => LoadsEachOther(init_funcs_[p], j)'
    BY <2>1 DEF LoadsEachOther
  <2> QED
    BY <1>2, <2>2, <2>4, <2>5, <2>6
<1>4. LibrariesInitializeFirst'
  <2> SUFFICES ASSUME NEW i \in Range(ran), NEW j \in Loads(i)'
               PROVE  LoadsEachOther(i, j)' \/ RanBefore(j, i)
    BY DEF LibrariesInitializeFirst, RanBefore
  <2>1. j \in Loads(i)
    BY <1>2
  <2> QED
    BY <1>0, <1>2, <2>1 DEF LibrariesInitializeFirst
<1> QED
  BY <1>3, <1>4

(* Linking the image of the library that is wanted next keeps a library's  *)
(* images one.                                                             *)
LEMMA OneImageStays ==
  ASSUME LoaderInv, HasMore, NEW l, Links(l), dylibs' = dylibs,
         \A f \in Libraries : dylib_exports_'[f] = dylib_exports_[f] \/ dylib_exports_[f] = 0,
         IF dylib = System THEN l = 0
         ELSE l \in Numbers' /\ l = dylib_exports_'[dylib] /\ images'[l].file = dylib
  PROVE  \A i \in Numbers : \A k \in DOMAIN images'[i].libraries :
           LET f == dylibs'[images'[i].file][k] m == images'[i].libraries[k]
           IN IF f = System THEN m = 0
              ELSE m \in Numbers' /\ m = dylib_exports_'[f] /\ images'[m].file = f
<1>0. /\ TypeOK /\ OneImagePerLibrary /\ CallsNest /\ ImagesAreLinked
      /\ Len(images) \in Nat
  BY DEF LoaderInv, TypeOK
<1>1. top.image \in Numbers /\ Numbers \subseteq Numbers' /\ 0 \notin Numbers
  BY <1>0, TopIs DEF HasMore, Links, Numbers
<1>2. \A i \in Numbers : images'[i].file = images[i].file
  BY <1>1 DEF Links
<1>3. ASSUME NEW i \in Numbers, NEW k \in DOMAIN images[i].libraries,
             NEW f, f = dylibs[images[i].file][k], NEW m, m = images[i].libraries[k]
      PROVE  IF f = System THEN m = 0
             ELSE m \in Numbers' /\ m = dylib_exports_'[f] /\ images'[m].file = f
  <2>1. IF f = System THEN m = 0
        ELSE m \in Numbers /\ m = dylib_exports_[f] /\ images[m].file = f
    BY <1>0, <1>3 DEF OneImagePerLibrary
  <2>2. /\ images[i].file \in Files /\ images[i].libraries \in Seq(0..Len(images))
        /\ Len(images[i].libraries) <= Len(dylibs[images[i].file])
    BY <1>0, ImageIs DEF ImagesAreLinked
  <2>3. /\ dylibs[images[i].file] \in Seq(Libraries \cup {System})
        /\ k \in DOMAIN dylibs[images[i].file]
    BY <1>0, <2>2, Lists253, SMTT(30)
  <2>4. f \in Libraries \cup {System}
    BY <1>3, <2>3
  <2>5. CASE f # System
    <3>1. /\ m \in Numbers /\ m = dylib_exports_[f] /\ images[m].file = f
          /\ f \in Libraries /\ m # 0
      BY <1>1, <2>1, <2>4, <2>5
    <3> QED
      BY <1>1, <1>2, <2>5, <3>1
  <2> QED
    BY <2>1, <2>5
<1> SUFFICES ASSUME NEW i \in Numbers, NEW k \in DOMAIN images'[i].libraries,
                    NEW f, f = dylibs[images[i].file][k],
                    NEW m, m = images'[i].libraries[k]
             PROVE  IF f = System THEN m = 0
                    ELSE m \in Numbers' /\ m = dylib_exports_'[f] /\ images'[m].file = f
  BY <1>2
<1>4. CASE i # top.image
  BY <1>3, <1>4 DEF Links
<1>5. CASE i = top.image
  <2>1. images[i].libraries \in Seq(0..Len(images))
    BY <1>0, ImageIs
  <2>2. images'[i].libraries = Append(images[i].libraries, l)
    BY <1>5 DEF Links
  <2>3. Len(images[i].libraries) = top.next - 1 /\ top.next \in Nat \ {0}
    BY <1>0, <1>5, TopIs DEF CallsNest, HasMore
  <2>4. k \in DOMAIN images[i].libraries \/ k = top.next
    BY <2>1, <2>2, <2>3
  <2>5. CASE k \in DOMAIN images[i].libraries
    <3>1. m = images[i].libraries[k]
      BY <2>1, <2>2, <2>5
    <3> QED
      BY <1>3, <2>5, <3>1
  <2>6. CASE k = top.next
    <3>1. m = l
      BY <2>1, <2>2, <2>3, <2>6
    <3>2. f = dylib
      BY <1>0, <1>5, <2>6, WantedIs
    <3> QED
      BY <3>1, <3>2
  <2> QED
    BY <2>4, <2>5, <2>6
<1> QED
  BY <1>4, <1>5

-----------------------------------------------------------------------------
(* The steps of mapImage.                                                  *)

(* While images are mapped, a load is under way and nothing is bound.      *)
LEMMA NothingBound ==
  ASSUME LoaderInv, Maps
  PROVE  loading /\ bound = {}
  BY DEF LoaderInv, LoadsGoOn, Maps

(* The calls of mapImage that are under way are on the images they were.   *)
LEMMA SameCalls ==
  ASSUME TypeOK, HasMore, mapping' = Advanced
  PROVE  OnTheWay' = OnTheWay /\ mapping' # <<>> /\ mapping'[1].image = mapping[1].image
<1>1. /\ \A d \in DOMAIN mapping : mapping'[d].image = mapping[d].image
      /\ DOMAIN mapping' = DOMAIN mapping
  BY AdvancedIs
<1>2. 1 \in DOMAIN mapping /\ DOMAIN mapping # {}
  BY TopIs DEF HasMore
<1>3. OnTheWay' = OnTheWay
  BY <1>1 DEF OnTheWay
<1>4. mapping' # <<>>
  BY <1>1, <1>2
<1> QED
  BY <1>1, <1>2, <1>3, <1>4

(* Linking adds to what images load.                                       *)
LEMMA MoreLoads ==
  ASSUME TypeOK, NEW l, Links(l)
  PROVE  \A i \in Numbers : Loads(i) \subseteq Loads(i)'
<1> TAKE i \in Numbers
<1>1. images[i].libraries \in Seq(0..Len(images))
  BY ImageIs
<1>2. Range(images[i].libraries) \subseteq Range(images'[i].libraries)
  <2>1. CASE i # top.image
    BY <2>1 DEF Links
  <2>2. CASE i = top.image
    <3>1. images'[i].libraries = Append(images[i].libraries, l)
      BY <2>2 DEF Links
    <3>2. \A k \in DOMAIN images[i].libraries :
             /\ k \in DOMAIN images'[i].libraries
             /\ images'[i].libraries[k] = images[i].libraries[k]
      BY <1>1, <3>1
    <3> QED
      BY <3>2 DEF Range
  <2> QED
    BY <2>1, <2>2
<1> QED
  BY <1>2 DEF Loads

(* It links no more than is wanted, and only to an image on the way.       *)
LEMMA LinkedEnough ==
  ASSUME TypeOK, CallsNest, ImagesAreLinked, HasMore, NEW l, Links(l),
         NEW i \in Numbers
  PROVE  /\ Len(images'[i].libraries) <= Len(dylibs[images[i].file])
         /\ i \notin OnTheWay =>
              Len(images'[i].libraries) = Len(dylibs[images[i].file])
<1>1. Maps /\ top.image \in OnTheWay
  BY TopIs DEF HasMore
<1>2. CASE i # top.image
  BY <1>2 DEF ImagesAreLinked, Links
<1>3. CASE i = top.image
  <2>1. images[i].libraries \in Seq(0..Len(images))
    BY ImageIs
  <2>2. Len(images'[i].libraries) = Len(images[i].libraries) + 1
    BY <1>3, <2>1, SMTT(30) DEF Links
  <2>3. Len(images[i].libraries) = top.next - 1 /\ top.next \in Nat \ {0}
    BY <1>1, <1>3, TopIs DEF CallsNest
  <2>4. top.next <= Len(dylibs[images[i].file])
    BY <1>3 DEF HasMore, Wanted
  <2> QED
    BY <1>1, <1>3, <2>2, <2>3, <2>4
<1> QED
  BY <1>2, <1>3

(* The calls that were under way stay nested, the innermost one further.   *)
LEMMA NestStays ==
  ASSUME TypeOK, CallsNest, Maps, NEW l, Links(l),
         \A d \in DOMAIN mapping : mapping'[d].image = mapping[d].image,
         \A d \in DOMAIN mapping : d # Len(mapping) => mapping'[d] = mapping[d],
         mapping'[Len(mapping)].next = top.next + 1
  PROVE  /\ \A d \in DOMAIN mapping :
              Len(images'[mapping'[d].image].libraries) = mapping'[d].next - 1
         /\ \A d, e \in DOMAIN mapping : d < e => mapping'[d].image < mapping'[e].image
         /\ \A d, e \in DOMAIN mapping :
              e = d + 1 => mapping'[e].image \in Range(images'[mapping'[d].image].libraries) \ {0}
<1>1. /\ Len(mapping) \in Nat \ {0} /\ DOMAIN mapping = 1..Len(mapping)
      /\ top = mapping[Len(mapping)] /\ top.next \in Nat \ {0}
      /\ top.image \in Numbers
  BY TopIs
<1>2. \A d \in DOMAIN mapping : d # Len(mapping) => mapping[d].image # top.image
  <2>1. \A d \in DOMAIN mapping : d # Len(mapping) => d < Len(mapping)
    BY <1>1
  <2>2. \A d \in DOMAIN mapping : mapping[d].image \in Nat
    BY CallsAre
  <2>3. Len(mapping) \in DOMAIN mapping
    BY <1>1
  <2> QED
    BY <1>1, <2>1, <2>2, <2>3 DEF CallsNest
<1>3. \A d \in DOMAIN mapping : mapping[d].image \in Numbers
  BY CallsAre
<1>4. ASSUME NEW d \in DOMAIN mapping
      PROVE  Len(images'[mapping'[d].image].libraries) = mapping'[d].next - 1
  <2>1. CASE d # Len(mapping)
    <3>1. PICK i \in Numbers : i = mapping[d].image
      BY <1>3
    <3>2. i # top.image /\ mapping'[d] = mapping[d]
      BY <1>1, <1>2, <2>1, <3>1
    <3>3. images'[i] = images[i]
      BY <3>2 DEF Links
    <3>4. Len(images[i].libraries) = mapping[d].next - 1
      BY <3>1 DEF CallsNest
    <3> QED
      BY <3>1, <3>2, <3>3, <3>4
  <2>2. CASE d = Len(mapping)
    <3>1. images[top.image].libraries \in Seq(0..Len(images))
      BY <1>1, ImageIs
    <3>2. Len(images[top.image].libraries) = top.next - 1
      BY <1>1 DEF CallsNest
    <3>3. Len(images'[top.image].libraries) = Len(images[top.image].libraries) + 1
      BY <3>1 DEF Links
    <3> QED
      BY <1>1, <2>2, <3>2, <3>3, SMTT(30)
  <2> QED
    BY <2>1, <2>2
<1>5. \A d, e \in DOMAIN mapping : d < e => mapping'[d].image < mapping'[e].image
  BY DEF CallsNest
<1>6. ASSUME NEW d \in DOMAIN mapping, NEW e \in DOMAIN mapping, e = d + 1
      PROVE  mapping'[e].image \in Range(images'[mapping'[d].image].libraries) \ {0}
  <2>1. PICK i \in Numbers : i = mapping[d].image
    BY <1>3
  <2>2. mapping[e].image \in Loads(i)
    BY <1>6, <2>1 DEF CallsNest
  <2>3. Loads(i)' = Range(images'[mapping'[d].image].libraries) \ {0}
    BY <2>1 DEF Loads
  <2> QED
    BY <2>2, <2>3, MoreLoads
<1> QED
  BY <1>4, <1>5, <1>6

(* A library that is there is linked.                                      *)
LinksLoaded(l) ==
  /\ images' = Linked(images, l)
  /\ mapping' = Advanced
  /\ UNCHANGED <<dylib_exports_, exports_, mapped, loading, init_funcs_>>
  /\ UNCHANGED <<files, running, handles, opens, bound, ran>>

(* No image is added, and types are kept.                                  *)
LEMMA LoadedTypes ==
  ASSUME TypeOK, HasMore, NEW l \in 0..Len(images), LinksLoaded(l),
         loaded_dylibs_' \subseteq Libraries \cup {System}
  PROVE  TypeOK' /\ Links(l) /\ Numbers' = Numbers /\ Len(images') = Len(images)
<1>1. Len(images) \in Nat /\ images' = Linked(images, l)
  BY DEF TypeOK, LinksLoaded
<1>2. /\ images' \in Seq(Ims(Len(images))) /\ Len(images') = Len(images)
      /\ Links(l)
  BY <1>1, LinkedIs DEF Links
<1>3. images' \in Seq([file : Files, libraries : Seq(0..Len(images'))])
  BY <1>2 DEF Ims
<1>4. Numbers' = Numbers
  BY <1>2 DEF Numbers
<1>5. mapping' \in Seq([image : Numbers', next : Nat \ {0}])
  BY <1>4, AdvancedIs DEF LinksLoaded
<1> HIDE DEF Links
<1>6. TypeOK'
  <2>1. /\ UNCHANGED <<dylibs, exports, dylib_exports_, exports_, mapped, loading,
                       init_funcs_, running, handles, opens, bound, ran>>
    BY DEF LinksLoaded, files
  <2> QED
    BY <1>2, <1>3, <1>4, <1>5, <2>1 DEF TypeOK
<1> QED
  BY <1>2, <1>4, <1>6

(* What linking a library that is there keeps.                             *)
LEMMA LoadedKeeps ==
  ASSUME LoaderInv, HasMore, NEW l \in 0..Len(images), LinksLoaded(l),
         loaded_dylibs_' = loaded_dylibs_ \cup {dylib},
         IF dylib = System THEN l = 0
         ELSE /\ dylib \in loaded_dylibs_ /\ l \in Numbers
              /\ l = dylib_exports_[dylib] /\ images[l].file = dylib
  PROVE  LoaderInv'
<1>0. /\ TypeOK /\ OneImagePerLibrary /\ CallsNest /\ ImagesAreLinked
      /\ LibrariesAreKnown /\ OpenedIsApart /\ MappedAreFinished /\ Len(images) \in Nat
  BY DEF LoaderInv, TypeOK
<1>1. /\ dylibs' = dylibs /\ dylib_exports_' = dylib_exports_ /\ loading' = loading
      /\ init_funcs_' = init_funcs_ /\ ran' = ran /\ bound' = bound /\ mapping' = Advanced
      /\ running' = running /\ handles' = handles /\ opens' = opens
  BY DEF LinksLoaded, files
<1>2. Maps /\ dylib \in Libraries \cup {System}
  BY <1>0, WantedIs
<1>3. /\ TypeOK' /\ Links(l) /\ Numbers' = Numbers /\ Len(images') = Len(images)
  <2>1. loaded_dylibs_' \subseteq Libraries \cup {System}
    BY <1>0, <1>2 DEF TypeOK
  <2> QED
    BY <1>0, <2>1, LoadedTypes
<1>4. /\ OnTheWay' = OnTheWay /\ mapping' # <<>> /\ mapping'[1].image = mapping[1].image
  BY <1>0, <1>1, SameCalls
<1>5. /\ top.image \in Numbers /\ top.image \in OnTheWay
      /\ \A i \in Numbers : images'[i].file = images[i].file
  BY <1>0, <1>2, <1>3, TopIs DEF Links
<1>6. OneImagePerLibrary'
  <2>1. IF dylib = System THEN l = 0
        ELSE l \in Numbers' /\ l = dylib_exports_'[dylib] /\ images'[l].file = dylib
    BY <1>1, <1>3, <1>5
  <2>2. \A i \in Numbers' : \A k \in DOMAIN images'[i].libraries :
           LET f == dylibs'[images'[i].file][k] m == images'[i].libraries[k]
           IN IF f = System THEN m = 0
              ELSE m \in Numbers' /\ m = dylib_exports_'[f] /\ images'[m].file = f
    BY <1>1, <1>3, <2>1, OneImageStays
  <2> QED
    BY <2>2 DEF OneImagePerLibrary
<1>7. \A i \in Numbers : Loads(i) \subseteq Loads(i)'
  BY <1>0, <1>3, MoreLoads
<1>8. QueuedInOrder' /\ LibrariesInitializeFirst'
  <2>1. \A i \in Numbers \ OnTheWay : Loads(i)' = Loads(i)
    BY <1>3, <1>5 DEF Links, Loads
  <2> QED
    BY <1>0, <1>1, <1>3, <1>7, <2>1, OrderStays
<1>9. BoundWhereTold' /\ LoadsGoOn' /\ CalledInOrder'
  <2>1. loading' /\ bound' = {}
    BY <1>1, <1>2, NothingBound
  <2> QED
    BY <2>1 DEF BoundWhereTold, LoadsGoOn, CalledInOrder
<1>10. MappedAreFinished'
  BY <1>0, <1>1, <1>3, <1>4 DEF MappedAreFinished, Finished
<1>11. OpenedIsApart'
  BY <1>0, <1>1, <1>2, <1>4 DEF OpenedIsApart, ClosedIsForgotten, Needed, Maps
<1>12. LibrariesAreKnown'
  <2>1. \A f \in Libraries : f \in loaded_dylibs_' <=> f \in loaded_dylibs_
    <3>1. System \notin Libraries
      BY FilesDiffer DEF Files
    <3> QED
      BY <3>1
  <2> QED
    BY <1>0, <1>1, <1>3, <1>5, <2>1 DEF LibrariesAreKnown
<1>13. ImagesAreLinked'
  <2>1. \A i \in Numbers :
          /\ Len(images'[i].libraries) <= Len(dylibs[images[i].file])
          /\ i \notin OnTheWay =>
               Len(images'[i].libraries) = Len(dylibs[images[i].file])
    BY <1>0, <1>3, LinkedEnough
  <2> QED
    BY <1>0, <1>1, <1>3, <1>4, <1>5, <2>1 DEF ImagesAreLinked
<1>14. CallsNest'
  <2>1. /\ DOMAIN mapping' = DOMAIN mapping
        /\ \A d \in DOMAIN mapping : mapping'[d].image = mapping[d].image
        /\ \A d \in DOMAIN mapping : d # Len(mapping) => mapping'[d] = mapping[d]
        /\ mapping'[Len(mapping)].next = top.next + 1
    BY <1>0, <1>1, AdvancedIs
  <2> QED
    BY <1>0, <1>2, <1>3, <2>1, NestStays DEF CallsNest, Loads
<1> QED
  BY <1>3, <1>6, <1>8, <1>9, <1>10, <1>11, <1>12, <1>13, <1>14 DEF LoaderInv

(* A library that was loaded is linked as the image its path is known by.  *)
LEMMA AlreadyLoadedKeeps ==
  ASSUME LoaderInv, AlreadyLoaded, UNCHANGED <<files, running, handles, opens, bound, ran>>
  PROVE  LoaderInv'
<1> DEFINE l == IF dylib = System THEN 0 ELSE dylib_exports_[dylib]
<1>1. TypeOK /\ LibrariesAreKnown /\ HasMore /\ dylib \in loaded_dylibs_
  BY DEF LoaderInv, AlreadyLoaded
<1>2. dylib \in Libraries \cup {System}
  BY <1>1, WantedIs
<1>3. dylib # System =>
         dylib_exports_[dylib] \in Numbers /\ images[dylib_exports_[dylib]].file = dylib
  BY <1>1, <1>2 DEF LibrariesAreKnown
<1>4. l \in 0..Len(images)
  BY <1>1, <1>3 DEF TypeOK, Numbers
<1>5. LinksLoaded(l) /\ loaded_dylibs_' = loaded_dylibs_ \cup {dylib}
  BY <1>1 DEF AlreadyLoaded, LinksLoaded
<1> QED
  BY <1>1, <1>3, <1>4, <1>5, LoadedKeeps

(* A system library is linked as no image.                                 *)
LEMMA SystemLibraryKeeps ==
  ASSUME LoaderInv, SystemLibrary, UNCHANGED <<files, running, handles, opens, bound, ran>>
  PROVE  LoaderInv'
<1>1. HasMore /\ dylib = System /\ loaded_dylibs_' = loaded_dylibs_ \cup {dylib}
  BY DEF SystemLibrary
<1>2. LinksLoaded(0)
  BY DEF SystemLibrary, LinksLoaded
<1>3. 0 \in 0..Len(images)
  BY DEF LoaderInv, TypeOK
<1> QED
  BY <1>1, <1>2, <1>3, LoadedKeeps

(* What is an image, or of images, stays one when there are more.          *)
LEMMA TypesWiden ==
  ASSUME TypeOK, Len(images') \in Nat, Len(images') >= Len(images)
  PROVE  /\ \A s \in Seq(Numbers) : s \in Seq(Numbers')
         /\ \A s \in Seq([image : Numbers, next : Nat \ {0}]) :
               s \in Seq([image : Numbers', next : Nat \ {0}])
         /\ running \in Seq([at : Nat \ {0}, opened : 0..Len(images')])
         /\ dylib_exports_ \in [Libraries -> 0..Len(images')]
         /\ exports_ \in [Names -> 0..Len(images')]
         /\ handles \subseteq Numbers'
         /\ bound \subseteq [image : Numbers', name : Names, ordinal : 0..EXECUTABLE,
                             target : 0..Len(images')]
<1>1. /\ Len(images) \in Nat /\ Numbers \subseteq Numbers'
      /\ 0..Len(images) \subseteq 0..Len(images')
  BY DEF TypeOK, Numbers
<1>2. ASSUME NEW S, NEW U, S \subseteq U, NEW s \in Seq(S)
      PROVE  s \in Seq(U)
  <2>1. \A k \in 1..Len(s) : s[k] \in U
    BY <1>2
  <2> QED
    BY <1>2, <2>1
<1>3. \A s \in Seq(Numbers) : s \in Seq(Numbers')
  BY <1>1, <1>2
<1>4. \A s \in Seq([image : Numbers, next : Nat \ {0}]) :
         s \in Seq([image : Numbers', next : Nat \ {0}])
  <2>1. [image : Numbers, next : Nat \ {0}] \subseteq [image : Numbers', next : Nat \ {0}]
    BY <1>1
  <2> QED
    BY <1>2, <2>1
<1>5. running \in Seq([at : Nat \ {0}, opened : 0..Len(images')])
  <2>1. [at : Nat \ {0}, opened : 0..Len(images)]
           \subseteq [at : Nat \ {0}, opened : 0..Len(images')]
    BY <1>1
  <2> QED
    BY <1>2, <2>1 DEF TypeOK
<1>6. /\ dylib_exports_ \in [Libraries -> 0..Len(images')]
      /\ exports_ \in [Names -> 0..Len(images')]
      /\ handles \subseteq Numbers'
  BY <1>1 DEF TypeOK
<1>7. bound \subseteq [image : Numbers', name : Names, ordinal : 0..EXECUTABLE,
                      target : 0..Len(images')]
  BY <1>1 DEF TypeOK
<1> QED
  BY <1>3, <1>4, <1>5, <1>6, <1>7

(* A library that is mapped gets the next number, and a call of its own.   *)
LEMMA MapsLibraryIs ==
  ASSUME TypeOK, MapsLibrary, UNCHANGED <<files, running, handles, opens, bound, ran>>,
         NEW new, new = Len(images) + 1
  PROVE  /\ TypeOK' /\ Links(new) /\ Len(images') = new
         /\ new \in Nat /\ Numbers' = Numbers \cup {new} /\ new \notin Numbers
         /\ images'[new] = Image(dylib) /\ dylib \in Libraries
         /\ mapping' = Append(Advanced, [image |-> new, next |-> 1])
<1>1. /\ HasMore /\ dylib \notin loaded_dylibs_ /\ dylib # System
      /\ loaded_dylibs_' = loaded_dylibs_ \cup {dylib}
      /\ images' = Append(Linked(images, new), Image(dylib))
      /\ dylib_exports_' = [dylib_exports_ EXCEPT ![dylib] = new]
      /\ exports_' = loadExports(dylib, new, exports_)
      /\ mapping' = Append(Advanced, [image |-> new, next |-> 1])
      /\ UNCHANGED <<mapped, loading, init_funcs_>>
  BY DEF MapsLibrary
<1>2. Len(images) \in Nat /\ new \in Nat /\ new >= Len(images) /\ new \in 0..new
  BY DEF TypeOK
<1>3. dylib \in Libraries /\ dylib \in Files
  BY <1>1, WantedIs DEF Files
<1>4. /\ Linked(images, new) \in Seq(Ims(new)) /\ Len(Linked(images, new)) = Len(images)
      /\ \A i \in Numbers \ {top.image} : Linked(images, new)[i] = images[i]
      /\ Linked(images, new)[top.image].file = images[top.image].file
      /\ Linked(images, new)[top.image].libraries = Append(images[top.image].libraries, new)
  BY <1>1, <1>2, LinkedIs
<1>5. Image(dylib) \in Ims(new)
  BY <1>3 DEF Image, Ims
<1>6. PICK ims \in Seq(Ims(new)) : ims = Linked(images, new)
  BY <1>4
<1> HIDE DEF Ims
<1>7. /\ images' \in Seq(Ims(new)) /\ Len(images') = new
      /\ images'[new] = Image(dylib)
      /\ \A i \in 1..Len(images) : images'[i] = ims[i]
  <2>1. images' = Append(ims, Image(dylib)) /\ Len(ims) = Len(images)
    BY <1>1, <1>4, <1>6
  <2>2. images' \in Seq(Ims(new)) /\ Len(images') = Len(ims) + 1
    BY <1>5, <2>1
  <2>3. images'[new] = Image(dylib)
    BY <1>5, <2>1
  <2>4. \A i \in 1..Len(images) : images'[i] = ims[i]
    BY <1>5, <2>1
  <2> QED
    BY <2>1, <2>2, <2>3, <2>4
<1>8. Numbers' = Numbers \cup {new} /\ new \notin Numbers /\ top.image \in Numbers
  BY <1>1, <1>2, <1>7, TopIs DEF Numbers, HasMore
<1>9. Links(new)
  BY <1>2, <1>4, <1>6, <1>7, <1>8 DEF Links, Numbers
<1>10. TypeOK'
  <2>1. images' \in Seq([file : Files, libraries : Seq(0..Len(images'))])
    BY <1>7 DEF Ims
  <2>2. mapping' \in Seq([image : Numbers', next : Nat \ {0}])
    <3> DEFINE Calls == [image : Numbers', next : Nat \ {0}]
    <3>1. Advanced \in Seq(Calls)
      BY <1>1, <1>2, <1>7, AdvancedIs, TypesWiden
    <3>2. [image |-> new, next |-> 1] \in Calls
      BY <1>8
    <3> HIDE DEF Calls
    <3>3. mapping' \in Seq(Calls)
      BY <1>1, <3>1, <3>2
    <3> QED
      BY <3>3 DEF Calls
  <2>3. /\ dylib_exports_' \in [Libraries -> 0..Len(images')]
        /\ exports_' \in [Names -> 0..Len(images')]
        /\ loaded_dylibs_' \subseteq Libraries \cup {System}
    BY <1>1, <1>2, <1>3, <1>7 DEF TypeOK, loadExports
  <2>4. mapped' \in Seq(Numbers') /\ init_funcs_' \in Seq(Numbers') /\ ran' \in Seq(Numbers')
    BY <1>1, <1>2, <1>7, TypesWiden DEF TypeOK
  <2>5. running' \in Seq([at : Nat \ {0}, opened : 0..Len(images')])
    BY <1>2, <1>7, TypesWiden
  <2>6. bound' \subseteq [image : Numbers', name : Names, ordinal : 0..EXECUTABLE,
                          target : 0..Len(images')]
    BY <1>2, <1>7, TypesWiden
  <2> QED
    BY <1>1, <1>8, <2>1, <2>2, <2>3, <2>4, <2>5, <2>6 DEF TypeOK, files
<1> QED
  BY <1>1, <1>2, <1>3, <1>7, <1>8, <1>9, <1>10

(* A library that is mapped for the image that wants it is linked to it,   *)
(* and is on the way until its own libraries are mapped.                   *)
LEMMA MapsLibraryKeeps ==
  ASSUME LoaderInv, MapsLibrary, UNCHANGED <<files, running, handles, opens, bound, ran>>
  PROVE  LoaderInv'
<1>1. PICK new : new = Len(images) + 1
  OBVIOUS
<1>0. /\ TypeOK /\ OneImagePerLibrary /\ CallsNest /\ ImagesAreLinked
      /\ LibrariesAreKnown /\ OpenedIsApart /\ MappedAreFinished /\ Len(images) \in Nat
  BY DEF LoaderInv, TypeOK
<1>2. /\ TypeOK' /\ Links(new) /\ Len(images') = new
      /\ new \in Nat /\ Numbers' = Numbers \cup {new} /\ new \notin Numbers
      /\ images'[new] = Image(dylib) /\ dylib \in Libraries
      /\ mapping' = Append(Advanced, [image |-> new, next |-> 1])
  BY <1>0, <1>1, MapsLibraryIs
<1>3. /\ HasMore /\ Maps /\ dylib \notin loaded_dylibs_ /\ dylib # System
      /\ loaded_dylibs_' = loaded_dylibs_ \cup {dylib}
      /\ dylib_exports_' = [dylib_exports_ EXCEPT ![dylib] = new]
      /\ loading' = loading /\ init_funcs_' = init_funcs_ /\ dylibs' = dylibs
      /\ running' = running /\ handles' = handles /\ opens' = opens
      /\ bound' = bound /\ ran' = ran
  BY <1>1 DEF MapsLibrary, HasMore, files
<1>4. /\ dylib_exports_ \in [Libraries -> 0..Len(images)] /\ dylib_exports_[dylib] = 0
      /\ dylib_exports_'[dylib] = new
      /\ \A f \in Libraries \ {dylib} : dylib_exports_'[f] = dylib_exports_[f]
      /\ Len(images') >= Len(images)
  BY <1>0, <1>1, <1>2, <1>3 DEF TypeOK, LibrariesAreKnown
<1>5. /\ top.image \in Numbers /\ top.image \in OnTheWay
      /\ \A i \in Numbers : images'[i].file = images[i].file
  BY <1>0, <1>2, <1>3, TopIs DEF Links
<1>6. PICK n \in Nat \ {0} : n = Len(mapping)
  BY <1>0, <1>3, TopIs
<1>17. DOMAIN mapping = 1..n /\ top = mapping[n] /\ top.next \in Nat \ {0}
  BY <1>0, <1>3, <1>6, TopIs
<1>18. /\ Advanced \in Seq([image : Numbers, next : Nat \ {0}]) /\ Len(Advanced) = n
       /\ \A d \in 1..n : d # n => Advanced[d] = mapping[d]
       /\ Advanced[n].next = top.next + 1
       /\ \A d \in 1..n : Advanced[d].image = mapping[d].image
  BY <1>0, <1>3, <1>6, <1>17, AdvancedIs, SMTT(30)
<1>19. /\ DOMAIN mapping' = 1..n + 1
       /\ \A d \in 1..n : mapping'[d] = Advanced[d]
       /\ mapping'[n + 1] = [image |-> new, next |-> 1]
  <2> DEFINE Calls == [image : Numbers, next : Nat \ {0}]
             new_call == [image |-> new, next |-> 1]
  <2>1. mapping' = Append(Advanced, new_call) /\ Advanced \in Seq(Calls)
    BY <1>2, <1>18
  <2> HIDE DEF Calls, new_call
  <2>2. PICK adv \in Seq(Calls) : adv = Advanced
    BY <2>1
  <2>3. /\ DOMAIN Append(adv, new_call) = 1..n + 1 /\ Append(adv, new_call)[n + 1] = new_call
        /\ \A d \in 1..n : Append(adv, new_call)[d] = adv[d]
    BY <1>18, <2>2
  <2> QED
    BY <2>1, <2>2, <2>3 DEF new_call
<1>20. \A d \in 1..n : mapping'[d].image = mapping[d].image
  BY <1>18, <1>19
<1>21. \A d \in 1..n : d # n => mapping'[d] = mapping[d]
  BY <1>18, <1>19
<1>22. mapping'[n].next = top.next + 1 /\ mapping'[n].image = top.image /\ n \in 1..n
  <2>1. n \in 1..n
    OBVIOUS
  <2> QED
    BY <1>17, <1>18, <1>19, <1>20, <2>1
<1>23. mapping'[n + 1].image = new /\ mapping'[n + 1].next = 1
  BY <1>19
<1>24. \A d : d \in 1..n + 1 <=> d \in 1..n \/ d = n + 1
  OBVIOUS
<1>25. n + 1 \notin 1..n
  OBVIOUS
<1>7. OnTheWay' = OnTheWay \cup {new} /\ mapping' # <<>> /\ mapping'[1].image = mapping[1].image
  <2>1. OnTheWay' = {mapping'[d].image : d \in 1..n + 1} /\ OnTheWay = {mapping[d].image : d \in 1..n}
    BY <1>17, <1>19 DEF OnTheWay
  <2>2. OnTheWay' = OnTheWay \cup {new}
    BY <1>20, <1>23, <1>24, <2>1
  <2>3. 1 \in 1..n /\ 1 \in 1..n + 1
    OBVIOUS
  <2> QED
    BY <1>19, <1>20, <2>2, <2>3
<1>8. OneImagePerLibrary'
  <2>1. IF dylib = System THEN new = 0
        ELSE new \in Numbers' /\ new = dylib_exports_'[dylib] /\ images'[new].file = dylib
    BY <1>2, <1>3, <1>4 DEF Image
  <2>2. \A f \in Libraries : dylib_exports_'[f] = dylib_exports_[f] \/ dylib_exports_[f] = 0
    BY <1>4
  <2>3. \A i \in Numbers : \A k \in DOMAIN images'[i].libraries :
           LET f == dylibs'[images'[i].file][k] m == images'[i].libraries[k]
           IN IF f = System THEN m = 0
              ELSE m \in Numbers' /\ m = dylib_exports_'[f] /\ images'[m].file = f
    BY <1>2, <1>3, <2>1, <2>2, OneImageStays
  <2>4. DOMAIN images'[new].libraries = {}
    BY <1>2 DEF Image
  <2> QED
    BY <1>2, <2>3, <2>4 DEF OneImagePerLibrary
<1>9. \A i \in Numbers : Loads(i) \subseteq Loads(i)'
  BY <1>0, <1>2, MoreLoads
<1>10. QueuedInOrder' /\ LibrariesInitializeFirst'
  <2>1. \A i \in Numbers \ OnTheWay : Loads(i)' = Loads(i)
    BY <1>2, <1>5 DEF Links, Loads
  <2> QED
    BY <1>2, <1>3, <1>4, <1>9, <2>1, OrderStays
<1>11. BoundWhereTold' /\ LoadsGoOn' /\ CalledInOrder'
  <2>1. loading' /\ bound' = {}
    BY <1>3, NothingBound
  <2> QED
    BY <2>1 DEF BoundWhereTold, LoadsGoOn, CalledInOrder
<1>12. MappedAreFinished'
  <2>1. Range(init_funcs_) \cup Range(ran) \subseteq Numbers
    BY <1>0 DEF TypeOK, Range
  <2> QED
    BY <1>0, <1>2, <1>3, <1>7, <2>1 DEF MappedAreFinished, Finished
<1>13. OpenedIsApart'
  <2>1. Needed' \subseteq Needed \cup {new}
    BY <1>3, <1>4 DEF Needed, Range
  <2>2. handles \subseteq Numbers /\ 1 \in DOMAIN mapping
    BY <1>0, <1>17 DEF TypeOK
  <2>3. \A k \in DOMAIN running : running[k].opened # new
    <3> DEFINE Runs == [at : Nat \ {0}, opened : 0..Len(images)]
    <3>1. running \in Seq(Runs)
      BY <1>0 DEF TypeOK
    <3>2. \A r \in Runs : r.opened # new
      BY <1>0, <1>1
    <3> HIDE DEF Runs
    <3> QED
      BY <3>1, <3>2
  <2>4. mapping[1].image # new
    BY <1>0, <1>2, <2>2, CallsAre
  <2>5. ClosedIsForgotten'
    BY <1>0, <1>2, <1>3, <2>1, <2>2 DEF OpenedIsApart, ClosedIsForgotten
  <2> QED
    BY <1>0, <1>3, <1>7, <2>1, <2>3, <2>4, <2>5 DEF OpenedIsApart, Maps
<1>14. LibrariesAreKnown'
  <2>1. ASSUME NEW f \in Libraries \ {dylib}
        PROVE  IF f \in loaded_dylibs_'
               THEN dylib_exports_'[f] \in Numbers' /\ images'[dylib_exports_'[f]].file = f
               ELSE dylib_exports_'[f] = 0
    BY <1>0, <1>2, <1>3, <1>4, <1>5 DEF LibrariesAreKnown
  <2>2. dylib \in loaded_dylibs_' /\ images'[new].file = dylib
    BY <1>2, <1>3 DEF Image
  <2> QED
    BY <1>2, <1>4, <2>1, <2>2 DEF LibrariesAreKnown
<1>15. ImagesAreLinked'
  <2>1. ASSUME NEW i \in Numbers
        PROVE  /\ Len(images'[i].libraries) <= Len(dylibs[images[i].file])
               /\ i \notin OnTheWay =>
                    Len(images'[i].libraries) = Len(dylibs[images[i].file])
    BY <1>0, <1>2, <1>3, LinkedEnough DEF LoaderInv
  <2>2. images'[new].libraries = <<>> /\ images'[new].file = dylib
    BY <1>2 DEF Image
  <2>3. Len(<<>>) <= Len(dylibs[dylib])
    <3>1. Len(dylibs[dylib]) \in 0..MAX_LIBRARY_ORDINAL
      BY <1>0, <1>2, Lists253 DEF Files
    <3> QED
      BY <3>1
  <2> QED
    <3>1. 1 \in Numbers'
      BY <1>0, <1>2 DEF ImagesAreLinked
    <3> QED
      BY <1>2, <1>3, <1>5, <1>7, <2>1, <2>2, <2>3, <3>1 DEF ImagesAreLinked
<1>16. CallsNest'
  <2>1. /\ \A d \in 1..n :
             Len(images'[mapping'[d].image].libraries) = mapping'[d].next - 1
        /\ \A d, e \in 1..n : d < e => mapping'[d].image < mapping'[e].image
        /\ \A d, e \in 1..n :
             e = d + 1 => mapping'[e].image \in Range(images'[mapping'[d].image].libraries) \ {0}
    BY <1>0, <1>2, <1>3, <1>6, <1>17, <1>20, <1>21, <1>22, NestStays, ZenonT(60)
  <2>2. Len(images'[new].libraries) = 1 - 1
    BY <1>2 DEF Image
  <2>3. \A d \in 1..n : mapping'[d].image < new
    <3>1. \A d \in 1..n : mapping[d].image \in 1..Len(images)
      BY <1>0, <1>17, CallsAre DEF Numbers
    <3> QED
      BY <1>0, <1>1, <1>20, <3>1
  <2>4. new \in Range(images'[top.image].libraries) \ {0}
    <3>1. images[top.image].libraries \in Seq(0..Len(images))
      BY <1>0, <1>5, ImageIs
    <3>2. images'[top.image].libraries = Append(images[top.image].libraries, new)
      BY <1>2 DEF Links
    <3>3. /\ Len(images[top.image].libraries) + 1 \in DOMAIN images'[top.image].libraries
          /\ images'[top.image].libraries[Len(images[top.image].libraries) + 1] = new
      BY <3>1, <3>2
    <3>4. new # 0
      BY <1>0, <1>1
    <3> QED
      BY <3>3, <3>4, RangeOf
  <2>7. \A d \in 1..n + 1 :
          Len(images'[mapping'[d].image].libraries) = mapping'[d].next - 1
    BY <1>23, <1>24, <2>1, <2>2
  <2>8. \A d, e \in 1..n + 1 : d < e => mapping'[d].image < mapping'[e].image
    <3> SUFFICES ASSUME NEW d \in 1..n + 1, NEW e \in 1..n + 1, d < e
                 PROVE  mapping'[d].image < mapping'[e].image
      OBVIOUS
    <3>1. d \in 1..n
      OBVIOUS
    <3>2. CASE e \in 1..n
      BY <2>1, <3>1, <3>2
    <3>3. CASE e = n + 1
      BY <1>23, <2>3, <3>1, <3>3
    <3> QED
      BY <1>24, <3>2, <3>3
  <2>9. \A d, e \in 1..n + 1 :
          e = d + 1 => mapping'[e].image \in Range(images'[mapping'[d].image].libraries) \ {0}
    <3> SUFFICES ASSUME NEW d \in 1..n + 1, NEW e \in 1..n + 1, e = d + 1
                 PROVE  mapping'[e].image \in Range(images'[mapping'[d].image].libraries) \ {0}
      OBVIOUS
    <3>1. d \in 1..n
      OBVIOUS
    <3>2. CASE e \in 1..n
      BY <2>1, <3>1, <3>2
    <3>3. CASE e = n + 1
      <4>1. d = n
        BY <3>1, <3>3
      <4> QED
        BY <1>22, <1>23, <2>4, <3>3, <4>1
    <3> QED
      BY <1>24, <3>2, <3>3
  <2> QED
    BY <1>19, <2>7, <2>8, <2>9 DEF CallsNest, Loads
<1> QED
  BY <1>2, <1>8, <1>10, <1>11, <1>12, <1>13, <1>14, <1>15, <1>16 DEF LoaderInv

(* A mapImage call that returns leaves the others as they are.             *)
LEMMA ReturnsIs ==
  ASSUME TypeOK, CallsNest, Maps, mapping' = Front(mapping), NEW n, n = Len(mapping)
  PROVE  /\ n \in Nat \ {0} /\ DOMAIN mapping = 1..n /\ top = mapping[n]
         /\ DOMAIN mapping' = 1..n - 1 /\ \A d \in 1..n - 1 : mapping'[d] = mapping[d]
         /\ mapping' \in Seq([image : Numbers, next : Nat \ {0}])
         /\ OnTheWay' = OnTheWay \ {top.image}
<1> DEFINE Calls == [image : Numbers, next : Nat \ {0}]
<1>1. n \in Nat \ {0} /\ DOMAIN mapping = 1..n /\ top = mapping[n]
  BY TopIs
<1>2. mapping \in Seq(Calls)
  BY DEF TypeOK
<1> HIDE DEF Calls
<1>3. mapping' = SubSeq(mapping, 1, n - 1)
  BY DEF Front
<1>4. /\ mapping' \in Seq(Calls) /\ DOMAIN mapping' = 1..n - 1
      /\ \A d \in 1..n - 1 : mapping'[d] = mapping[d]
  BY <1>1, <1>2, <1>3
<1>5. \A d \in 1..n - 1 : mapping[d].image # top.image
  <2>1. \A d \in 1..n - 1 : d \in DOMAIN mapping /\ n \in DOMAIN mapping /\ d < n
    BY <1>1
  <2>2. \A d \in 1..n - 1 : mapping[d].image < mapping[n].image
    BY <2>1 DEF CallsNest
  <2>3. \A d \in 1..n - 1 : mapping[d].image \in Nat
    BY <2>1, CallsAre
  <2> QED
    BY <1>1, <2>2, <2>3
<1>6. \A d : d \in 1..n <=> d \in 1..n - 1 \/ d = n
  BY <1>1
<1>7. OnTheWay' = OnTheWay \ {top.image}
  <2>1. /\ OnTheWay' = {mapping'[d].image : d \in 1..n - 1}
        /\ OnTheWay = {mapping[d].image : d \in 1..n}
    BY <1>1, <1>4 DEF OnTheWay
  <2> QED
    BY <1>1, <1>4, <1>5, <1>6, <2>1, SMTT(30)
<1> QED
  BY <1>1, <1>4, <1>7 DEF Calls

(* Calls that are under way lead, one by the other, to the innermost.      *)
LEMMA WayLeads ==
  ASSUME TypeOK, CallsNest, Maps, NEW j \in OnTheWay
  PROVE  LoadsEachOther(top.image, j)
<1>1. PICK d \in DOMAIN mapping : mapping[d].image = j
  BY DEF OnTheWay
<1>2. PICK n \in Nat \ {0} : n = Len(mapping)
  BY TopIs
<1>3. DOMAIN mapping = 1..n /\ top = mapping[n]
  BY <1>2, TopIs
<1> SUFFICES ASSUME NEW leads \in SUBSET Numbers, j \in leads,
                    \A k \in leads : Loads(k) \subseteq leads,
                    top.image \notin leads
             PROVE  FALSE
  BY DEF LoadsEachOther
<1> DEFINE Out == {e \in d..n : mapping[e].image \notin leads}
<1>4. d \in 1..n /\ n \in Out
  BY <1>1, <1>3
<1>5. Out \in SUBSET Nat /\ Out # {}
  BY <1>4
<1>6. PICK e \in Out : \A m \in Out : e <= m
  <2> HIDE DEF Out
  <2> QED
    BY <1>5, LeastOf
<1>7. e \in d..n /\ mapping[e].image \notin leads /\ e # d
  BY <1>1, <1>6
<1>8. e - 1 \in d..n /\ e - 1 \in 1..n /\ e \in 1..n /\ e = (e - 1) + 1 /\ ~(e <= e - 1)
  BY <1>4, <1>7
<1>9. mapping[e - 1].image \in leads
  BY <1>6, <1>8
<1>10. mapping[e].image \in Loads(mapping[e - 1].image)
  BY <1>3, <1>8 DEF CallsNest
<1> QED
  BY <1>7, <1>9, <1>10

(* What a step that maps nothing keeps.                                    *)
LEMMA ImagesStay ==
  ASSUME LoaderInv, UNCHANGED <<dylibs, exports, images, loaded_dylibs_, dylib_exports_>>
  PROVE  /\ OneImagePerLibrary' /\ LibrariesAreKnown'
         /\ Numbers' = Numbers /\ Needed' = Needed
         /\ \A i : Loads(i)' = Loads(i)
         /\ \A i, j : LoadsEachOther(i, j)' = LoadsEachOther(i, j)
<1>1. Numbers' = Numbers /\ Needed' = Needed /\ \A i : Loads(i)' = Loads(i)
  BY DEF Numbers, Needed, Loads
<1>2. \A i, j : LoadsEachOther(i, j)' = LoadsEachOther(i, j)
  BY <1>1 DEF LoadsEachOther
<1>3. OneImagePerLibrary' /\ LibrariesAreKnown'
  BY <1>1 DEF LoaderInv, OneImagePerLibrary, LibrariesAreKnown
<1> QED
  BY <1>1, <1>2, <1>3

(* An image whose libraries are mapped, or being mapped, is finished.      *)
LEMMA MapImageReturnsKeeps ==
  ASSUME LoaderInv, MapImageReturns, UNCHANGED <<files, running, handles, opens, bound, ran>>
  PROVE  LoaderInv'
<1>0. /\ TypeOK /\ CallsNest /\ ImagesAreLinked /\ OpenedIsApart /\ MappedAreFinished
      /\ QueuedInOrder /\ Len(images) \in Nat
  BY DEF LoaderInv, TypeOK
<1>1. /\ Maps /\ ~HasMore /\ init_funcs_' = Append(init_funcs_, top.image)
      /\ mapped' = Append(mapped, top.image) /\ mapping' = Front(mapping)
      /\ UNCHANGED <<images, loaded_dylibs_, dylib_exports_, exports_, loading>>
      /\ UNCHANGED <<dylibs, exports, running, handles, opens, bound, ran>>
  BY DEF MapImageReturns, files
<1>2. PICK n : n = Len(mapping)
  OBVIOUS
<1>3. /\ n \in Nat \ {0} /\ DOMAIN mapping = 1..n /\ top = mapping[n]
      /\ DOMAIN mapping' = 1..n - 1 /\ \A d \in 1..n - 1 : mapping'[d] = mapping[d]
      /\ mapping' \in Seq([image : Numbers, next : Nat \ {0}])
      /\ OnTheWay' = OnTheWay \ {top.image}
  BY <1>0, <1>1, <1>2, ReturnsIs
<1>4. top.image \in Numbers /\ top.next \in Nat \ {0} /\ top.image \in OnTheWay
  BY <1>0, <1>1, TopIs
<1>5. /\ OneImagePerLibrary' /\ LibrariesAreKnown' /\ Numbers' = Numbers /\ Needed' = Needed
      /\ \A i : Loads(i)' = Loads(i)
      /\ \A i, j : LoadsEachOther(i, j)' = LoadsEachOther(i, j)
  BY <1>1, ImagesStay
<1>6. loading /\ bound = {}
  BY <1>1, NothingBound
<1>7. init_funcs_ \in Seq(Numbers) /\ mapped \in Seq(Numbers)
  BY <1>0 DEF TypeOK
<1>8. PICK m \in Nat : m = Len(init_funcs_)
  BY <1>7
<1>9. /\ DOMAIN init_funcs_ = 1..m /\ DOMAIN init_funcs_' = 1..m + 1
      /\ init_funcs_' \in Seq(Numbers) /\ Len(init_funcs_') = m + 1
      /\ \A p \in 1..m : init_funcs_'[p] = init_funcs_[p]
      /\ init_funcs_'[m + 1] = top.image
      /\ mapped' \in Seq(Numbers)
  BY <1>1, <1>4, <1>7, <1>8
<1>10. TypeOK'
  BY <1>0, <1>1, <1>3, <1>5, <1>9 DEF TypeOK
<1>11. Range(init_funcs_') = Range(init_funcs_) \cup {top.image}
  BY <1>9 DEF Range
<1>12. MappedAreFinished'
  BY <1>0, <1>1, <1>3, <1>4, <1>5, <1>11 DEF MappedAreFinished, Finished
<1>13. CallsNest'
  <2>1. \A d \in 1..n - 1 : d \in 1..n
    BY <1>3
  <2> QED
    BY <1>0, <1>1, <1>3, <1>5, <2>1 DEF CallsNest
<1>14. ImagesAreLinked'
  <2>1. Len(images[top.image].libraries) = Len(dylibs[images[top.image].file])
    <3>1. Len(images[top.image].libraries) = top.next - 1
      <4>1. n \in DOMAIN mapping
        BY <1>3
      <4> QED
        BY <1>0, <1>3, <4>1 DEF CallsNest
    <3>2. ~(top.next <= Len(dylibs[images[top.image].file]))
      BY <1>1 DEF HasMore, Wanted
    <3>3. Len(images[top.image].libraries) <= Len(dylibs[images[top.image].file])
      BY <1>0, <1>4 DEF ImagesAreLinked
    <3>4. Len(dylibs[images[top.image].file]) \in Nat
      BY <1>0, <1>4, ImageIs, Lists253
    <3> QED
      BY <1>4, <3>1, <3>2, <3>3, <3>4
  <2> QED
    BY <1>0, <1>1, <1>3, <1>5, <2>1 DEF ImagesAreLinked
<1>15. BoundWhereTold' /\ LoadsGoOn' /\ CalledInOrder'
  BY <1>1, <1>6 DEF BoundWhereTold, LoadsGoOn, CalledInOrder
<1>16. OpenedIsApart'
  <2>1. ClosedIsForgotten' /\ \A k \in DOMAIN running' : running'[k].opened \notin Needed' \cup {1}
    BY <1>0, <1>1, <1>5 DEF OpenedIsApart, ClosedIsForgotten
  <2>2. ASSUME opens # 0 PROVE mapping[1].image \notin Needed \cup {1}
    BY <1>0, <1>1, <1>6, <2>2 DEF OpenedIsApart
  <2>3. CASE n = 1
    <3>1. ~Maps'
      BY <1>3, <2>3 DEF Maps
    <3>2. Last1(init_funcs_') = mapping[1].image /\ init_funcs_' # <<>>
      BY <1>3, <1>8, <1>9, <2>3 DEF Last1
    <3>3. Last1(init_funcs_)' = Last1(init_funcs_')
      BY DEF Last1
    <3> QED
      BY <1>1, <1>5, <2>1, <2>2, <3>1, <3>2, <3>3 DEF OpenedIsApart
  <2>4. CASE n # 1
    <3>1. 1 \in 1..n - 1
      BY <1>3, <2>4
    <3>2. Maps' /\ mapping'[1] = mapping[1]
      BY <1>3, <3>1 DEF Maps
    <3> QED
      BY <1>1, <1>5, <2>1, <2>2, <3>2 DEF OpenedIsApart
  <2> QED
    BY <2>3, <2>4
<1>17. QueuedInOrder'
  <2>1. ASSUME NEW p \in 1..m, NEW j \in Loads(init_funcs_[p])
        PROVE  LoadsEachOther(init_funcs_[p], j) \/ j \in Range(ran) \/ Behind(p, j)'
    <3>1. Behind(p, j) => Behind(p, j)'
      BY <1>9 DEF Behind
    <3> QED
      BY <1>0, <1>9, <2>1, <3>1 DEF QueuedInOrder
  <2>2. ASSUME NEW j \in Loads(top.image)
        PROVE  LoadsEachOther(top.image, j) \/ j \in Range(ran) \/ Behind(m + 1, j)'
    <3>1. j \in Numbers
      BY <1>0, <1>4, ImageIs
    <3>2. CASE j \in OnTheWay
      BY <1>0, <1>1, <3>2, WayLeads
    <3>3. CASE j \in Range(init_funcs_)
      <4>1. PICK q \in 1..m : init_funcs_[q] = j
        BY <1>9, <3>3 DEF Range
      <4>2. q \in 1..(m + 1) - 1 /\ init_funcs_'[q] = j
        BY <1>8, <1>9, <4>1
      <4> QED
        BY <4>2 DEF Behind
    <3> QED
      BY <1>0, <3>1, <3>2, <3>3 DEF MappedAreFinished, Finished
  <2>3. \A p : p \in 1..m + 1 <=> p \in 1..m \/ p = m + 1
    BY <1>8
  <2>4. ASSUME NEW p \in 1..m + 1, NEW j \in Loads(init_funcs_'[p])
        PROVE  LoadsEachOther(init_funcs_'[p], j) \/ j \in Range(ran) \/ Behind(p, j)'
    BY <1>9, <2>1, <2>2, <2>3
  <2>5. ASSUME NEW p
        PROVE  /\ Loads(init_funcs_[p])' = Loads(init_funcs_'[p])
               /\ \A j : LoadsEachOther(init_funcs_[p], j)' = LoadsEachOther(init_funcs_'[p], j)
    <3>1. PICK i : i = init_funcs_'[p]
      OBVIOUS
    <3>2. Loads(init_funcs_[p])' = Loads(i)'
      BY <3>1 DEF Loads
    <3>3. \A j : LoadsEachOther(init_funcs_[p], j)' = LoadsEachOther(i, j)'
      BY <3>1 DEF LoadsEachOther
    <3> QED
      BY <1>5, <3>1, <3>2, <3>3
  <2> QED
    BY <1>1, <1>9, <2>4, <2>5, ZenonT(60) DEF QueuedInOrder
<1>18. LibrariesInitializeFirst'
  BY <1>1, <1>5 DEF LoaderInv, LibrariesInitializeFirst, RanBefore
<1> QED
  BY <1>5, <1>10, <1>12, <1>13, <1>14, <1>15, <1>16, <1>17, <1>18 DEF LoaderInv

-----------------------------------------------------------------------------
(* The other steps.                                                        *)

(* The other steps map nothing, but for dlopen.                            *)
LEMMA MapsStay ==
  ASSUME LoaderInv, UNCHANGED <<dylibs, exports, images, loaded_dylibs_, dylib_exports_, mapping>>
  PROVE  /\ OneImagePerLibrary' /\ LibrariesAreKnown' /\ CallsNest' /\ ImagesAreLinked'
         /\ Numbers' = Numbers /\ Needed' = Needed /\ OnTheWay' = OnTheWay
<1>1. /\ OneImagePerLibrary' /\ LibrariesAreKnown'
      /\ Numbers' = Numbers /\ Needed' = Needed /\ \A i : Loads(i)' = Loads(i)
  BY ImagesStay
<1>2. OnTheWay' = OnTheWay
  BY DEF OnTheWay
<1>3. ImagesAreLinked'
  BY <1>1, <1>2 DEF LoaderInv, ImagesAreLinked
<1>4. CallsNest'
  <2>1. \A d, e \in DOMAIN mapping : e = d + 1 => mapping[e].image \in Loads(mapping[d].image)
    BY DEF LoaderInv, CallsNest
  <2>2. \A d : Loads(mapping[d].image)' = Loads(mapping[d].image)
    BY DEF Loads
  <2> QED
    BY <2>1, <2>2 DEF LoaderInv, CallsNest
<1> QED
  BY <1>1, <1>2, <1>3, <1>4

(* Nor do they change what was queued and called in order.                 *)
LEMMA QueueStaysInOrder ==
  ASSUME LoaderInv, UNCHANGED <<images, init_funcs_, ran>>
  PROVE  QueuedInOrder' /\ LibrariesInitializeFirst'
<1>1. Numbers' = Numbers /\ \A i : Loads(i)' = Loads(i)
  BY DEF Numbers, Loads
<1>2. \A i, j : LoadsEachOther(i, j)' = LoadsEachOther(i, j)
  BY <1>1 DEF LoadsEachOther
<1>3. QueuedInOrder'
  <2>1. \A p : /\ Loads(init_funcs_[p])' = Loads(init_funcs_[p])
               /\ \A j : LoadsEachOther(init_funcs_[p], j)' = LoadsEachOther(init_funcs_[p], j)
    BY <1>1 DEF Loads, LoadsEachOther
  <2>2. \A p, j : Behind(p, j)' = Behind(p, j)
    BY DEF Behind
  <2> QED
    BY <2>1, <2>2 DEF LoaderInv, QueuedInOrder
<1>4. LibrariesInitializeFirst'
  BY <1>1, <1>2 DEF LoaderInv, LibrariesInitializeFirst, RanBefore
<1> QED
  BY <1>3, <1>4

(* The image a bind goes to, if any.                                       *)
LEMMA BindIs ==
  ASSUME LoaderInv, ~Maps, NEW i \in Numbers, NEW n \in Names, NEW o \in Ordinals(i)
  PROVE  /\ o \in 0..EXECUTABLE /\ resolveBind(i, n, o) \in 0..Len(images)
         /\ LET f == images[i].file wanted == dylibs[f] target == resolveBind(i, n, o)
            IN f \notin FlatFiles /\ o \in DOMAIN wanted =>
                 IF wanted[o] = System THEN target = 0
                 ELSE n \in exports[wanted[o]] => target # 0 /\ images[target].file = wanted[o]
<1>0. /\ TypeOK /\ OneImagePerLibrary /\ ImagesAreLinked /\ Len(images) \in Nat
      /\ exports_ \in [Names -> 0..Len(images)] /\ OnTheWay = {}
  BY DEF LoaderInv, TypeOK, Maps, OnTheWay
<1> DEFINE f == images[i].file
           libraries == images[i].libraries
<1>1. /\ f \in Files /\ libraries \in Seq(0..Len(images))
      /\ Len(libraries) = Len(dylibs[f])
  BY <1>0, ImageIs DEF ImagesAreLinked
<1>2. /\ Len(dylibs[f]) \in 0..253 /\ DOMAIN dylibs[f] = 1..Len(dylibs[f])
      /\ DOMAIN libraries = 1..Len(dylibs[f])
  <2>1. Len(dylibs[f]) \in 0..MAX_LIBRARY_ORDINAL /\ DOMAIN dylibs[f] = 1..Len(dylibs[f])
    BY <1>0, <1>1, Lists253, ZenonT(30)
  <2>2. DOMAIN libraries = 1..Len(libraries)
    BY <1>1
  <2> QED
    BY <1>1, <2>1, <2>2, ZenonT(30) DEF MAX_LIBRARY_ORDINAL
<1>3. \A k \in DOMAIN libraries : libraries[k] \in 0..Len(images)
  BY <1>1
<1>4. i \in 0..Len(images) /\ 1 \in 0..Len(images)
  BY <1>0 DEF Numbers
<1>12. PICK count \in 0..253 : count = Len(dylibs[f])
  BY <1>2
<1>5. o \in 1..count \/ o = 0 \/ o = 254 \/ o = 255
  BY <1>12 DEF Ordinals, SELF, DYNAMIC_LOOKUP, EXECUTABLE
<1>6. o \in 0..EXECUTABLE
  BY <1>5 DEF EXECUTABLE
<1>7. In(i, o) = IF o = 0 THEN i ELSE IF o = 255 THEN 1
                 ELSE IF o \in DOMAIN libraries THEN libraries[o] ELSE 0
  <2>1. DOMAIN libraries = 1..count
    BY <1>2, <1>12
  <2>2. CASE o = 0
    <3>1. o # 255 /\ o \notin 1..count
      BY <2>2
    <3> QED
      BY <2>1, <2>2, <3>1 DEF In, SELF, EXECUTABLE
  <2>3. CASE o = 255
    <3>1. o # 0 /\ o \notin 1..count
      BY <2>3
    <3> QED
      BY <2>1, <2>3, <3>1 DEF In, SELF, EXECUTABLE
  <2>4. CASE o \in 1..count \/ o = 254
    <3>1. o # 0 /\ o # 255
      BY <2>4
    <3> QED
      BY <3>1 DEF In, SELF, EXECUTABLE
  <2> QED
    BY <1>5, <2>2, <2>3, <2>4
<1> HIDE DEF f, libraries
<1>8. In(i, o) \in 0..Len(images)
  BY <1>3, <1>4, <1>7
<1>9. \A yes \in BOOLEAN : resolveName(n, yes) \in 0..Len(images)
  BY <1>0 DEF resolveName
<1>10. resolveBind(i, n, o) \in 0..Len(images)
  <2>1. (In(i, o) # 0) \in BOOLEAN /\ TRUE \in BOOLEAN
    OBVIOUS
  <2> QED
    BY <1>8, <1>9, <2>1 DEF resolveBind
<1>11. ASSUME f \notin FlatFiles, o \in DOMAIN dylibs[f]
       PROVE  IF dylibs[f][o] = System THEN resolveBind(i, n, o) = 0
              ELSE n \in exports[dylibs[f][o]] =>
                     /\ resolveBind(i, n, o) # 0
                     /\ images[resolveBind(i, n, o)].file = dylibs[f][o]
  <2>1. o \in DOMAIN libraries /\ o # 0 /\ o # 254 /\ o # 255
    <3>1. o \in 1..count /\ DOMAIN libraries = 1..count
      BY <1>2, <1>11, <1>12
    <3> QED
      BY <3>1
  <2>2. PICK in : in = libraries[o] /\ In(i, o) = in
    BY <1>7, <2>1
  <2>3. resolveBind(i, n, o) = IF in # 0 /\ n \in exports[images[in].file]
                               THEN in ELSE resolveName(n, in # 0)
    BY <1>11, <2>1, <2>2 DEF resolveBind, DYNAMIC_LOOKUP, f
  <2>4. IF dylibs[f][o] = System THEN in = 0
        ELSE in \in Numbers /\ images[in].file = dylibs[f][o]
    BY <1>0, <2>1, <2>2 DEF OneImagePerLibrary, f, libraries
  <2>5. CASE dylibs[f][o] = System
    BY <2>3, <2>4, <2>5 DEF resolveName
  <2>6. CASE dylibs[f][o] # System
    <3>1. in # 0
      BY <1>0, <2>4, <2>6 DEF Numbers
    <3> QED
      BY <2>3, <2>4, <2>6, <3>1
  <2> QED
    BY <2>5, <2>6
<1> QED
  BY <1>6, <1>10, <1>11 DEF f

(* doBind binds the first image of those that are mapped.                  *)
LEMMA BindKeeps == ASSUME LoaderInv, doBind PROVE LoaderInv'
<1>0. TypeOK /\ OpenedIsApart /\ MappedAreFinished
  BY DEF LoaderInv
<1>1. /\ ~Maps /\ mapped # <<>> /\ mapped' = Tail(mapped)
      /\ UNCHANGED <<dylibs, exports, images, loaded_dylibs_, dylib_exports_, exports_, mapping,
                     loading, init_funcs_, running, handles, opens, ran>>
  BY DEF doBind, files
<1>2. mapped \in Seq(Numbers) /\ Head(mapped) \in Numbers /\ Tail(mapped) \in Seq(Numbers)
  BY <1>0, <1>1 DEF TypeOK
<1>3. PICK i \in Numbers : i = Head(mapped)
  BY <1>2
<1>4. PICK n \in Names, o \in Ordinals(i) :
        bound' = {[image |-> i, name |-> n, ordinal |-> o, target |-> resolveBind(i, n, o)]}
  BY <1>3 DEF doBind
<1>5. /\ o \in 0..EXECUTABLE /\ resolveBind(i, n, o) \in 0..Len(images)
      /\ LET f == images[i].file wanted == dylibs[f] target == resolveBind(i, n, o)
         IN f \notin FlatFiles /\ o \in DOMAIN wanted =>
              IF wanted[o] = System THEN target = 0
              ELSE n \in exports[wanted[o]] => target # 0 /\ images[target].file = wanted[o]
  BY <1>1, BindIs
<1>6. /\ OneImagePerLibrary' /\ LibrariesAreKnown' /\ CallsNest' /\ ImagesAreLinked'
      /\ Numbers' = Numbers /\ Needed' = Needed /\ OnTheWay' = OnTheWay
  BY <1>1, MapsStay
<1>7. PICK target : target = resolveBind(i, n, o)
  OBVIOUS
<1>8. TypeOK'
  <2>1. bound' \subseteq [image : Numbers, name : Names, ordinal : 0..EXECUTABLE,
                          target : 0..Len(images)]
    BY <1>4, <1>5, <1>7
  <2> QED
    BY <1>0, <1>1, <1>2, <1>6, <2>1 DEF TypeOK
<1>9. BoundWhereTold'
  <2>1. ASSUME NEW b \in bound'
        PROVE  b.image = i /\ b.name = n /\ b.ordinal = o /\ b.target = target
    BY <1>4, <1>7, <2>1
  <2> QED
    BY <1>1, <1>5, <1>7, <2>1 DEF BoundWhereTold
<1>10. LoadsGoOn'
  BY <1>1 DEF LoaderInv, LoadsGoOn, Maps
<1>11. OpenedIsApart' /\ MappedAreFinished' /\ CalledInOrder'
  BY <1>0, <1>1, <1>6
     DEF LoaderInv, OpenedIsApart, ClosedIsForgotten, MappedAreFinished, Finished, CalledInOrder,
         Maps, Last1
<1>12. QueuedInOrder' /\ LibrariesInitializeFirst'
  BY <1>1, QueueStaysInOrder
<1> QED
  BY <1>6, <1>8, <1>9, <1>10, <1>11, <1>12 DEF LoaderInv

(* Calls of runInitFuncs, and how far they are.                            *)
LEMMA RunsAre ==
  ASSUME TypeOK
  PROVE  /\ Len(running) \in Nat /\ DOMAIN running = 1..Len(running)
         /\ \A k \in DOMAIN running :
              /\ running[k].at \in Nat \ {0} /\ running[k].opened \in 0..Len(images)
              /\ running[k] = [at |-> running[k].at, opened |-> running[k].opened]
<1> DEFINE Runs == [at : Nat \ {0}, opened : 0..Len(images)]
<1>1. running \in Seq(Runs)
  BY DEF TypeOK
<1>2. \A r \in Runs : /\ r.at \in Nat \ {0} /\ r.opened \in 0..Len(images)
                      /\ r = [at |-> r.at, opened |-> r.opened]
  OBVIOUS
<1> HIDE DEF Runs
<1> QED
  BY <1>1, <1>2

(* When a load returns, what it mapped for dlopen is known by the last     *)
(* initializers that are queued, its own.                                  *)
LEMMA LoadReturnsKeeps == ASSUME LoaderInv, LoadReturns PROVE LoaderInv'
<1>0. TypeOK /\ OpenedIsApart /\ MappedAreFinished /\ Len(images) \in Nat
  BY DEF LoaderInv, TypeOK
<1> DEFINE opened == IF opens = 0 THEN 0 ELSE Last1(init_funcs_)
           run == [at |-> 1, opened |-> opened]
           Runs == [at : Nat \ {0}, opened : 0..Len(images)]
<1>1. /\ loading /\ ~Maps /\ mapped = <<>> /\ loading' = FALSE /\ bound' = {}
      /\ running' = Append(running, run)
      /\ UNCHANGED <<dylibs, exports, images, loaded_dylibs_, dylib_exports_, exports_, mapping,
                     mapped, init_funcs_, handles, opens, ran>>
  BY DEF LoadReturns, files, maps
<1>2. /\ OneImagePerLibrary' /\ LibrariesAreKnown' /\ CallsNest' /\ ImagesAreLinked'
      /\ Numbers' = Numbers /\ Needed' = Needed /\ OnTheWay' = OnTheWay
  BY <1>1, MapsStay
<1>3. opened \in 0..Len(images) /\ opened \notin Needed \cup {1}
  <2>1. CASE opens = 0
    BY <1>0, <2>1 DEF Needed
  <2>2. CASE opens # 0
    <3>1. init_funcs_ # <<>> /\ Last1(init_funcs_) \notin Needed \cup {1}
      BY <1>0, <1>1, <2>2 DEF OpenedIsApart
    <3>2. init_funcs_ \in Seq(Numbers)
      BY <1>0 DEF TypeOK
    <3>3. Last1(init_funcs_) \in Numbers
      BY <3>1, <3>2 DEF Last1
    <3> QED
      BY <2>2, <3>1, <3>3 DEF Numbers
  <2> QED
    BY <2>1, <2>2
<1>4. run \in Runs /\ run.opened = opened /\ run.at = 1
  BY <1>3
<1>5. running \in Seq(Runs)
  BY <1>0 DEF TypeOK
<1> HIDE DEF run, Runs, opened
<1>6. PICK n \in Nat : n = Len(running)
  BY <1>5
<1>7. /\ running' \in Seq(Runs) /\ DOMAIN running = 1..n /\ DOMAIN running' = 1..n + 1
      /\ Len(running') = n + 1
      /\ \A k \in 1..n : running'[k] = running[k] /\ running'[n + 1] = run
  BY <1>1, <1>4, <1>5, <1>6
<1>8. running'[n + 1] = run
  BY <1>1, <1>4, <1>5, <1>6
<1>9. TypeOK'
  <2>1. running' \in Seq([at : Nat \ {0}, opened : 0..Len(images)])
    BY <1>7 DEF Runs
  <2> QED
    BY <1>0, <1>1, <1>2, <2>1 DEF TypeOK
<1>10. BoundWhereTold' /\ LoadsGoOn' /\ MappedAreFinished'
  BY <1>0, <1>1, <1>2 DEF BoundWhereTold, LoadsGoOn, MappedAreFinished, Finished, Maps
<1>11. OpenedIsApart'
  <2>1. \A k \in 1..n + 1 : running'[k].opened \notin Needed \cup {1}
    <3>1. \A k \in 1..n : running[k].opened \notin Needed \cup {1}
      BY <1>0, <1>7 DEF OpenedIsApart
    <3>2. \A k \in 1..n + 1 : k \in 1..n \/ k = n + 1
      OBVIOUS
    <3> QED
      BY <1>3, <1>4, <1>7, <1>8, <3>1, <3>2
  <2> QED
    BY <1>0, <1>1, <1>2, <1>7, <2>1 DEF OpenedIsApart, ClosedIsForgotten
<1>12. CalledInOrder'
  <2>1. Last1(running') = run /\ Last1(running)' = Last1(running')
    BY <1>7, <1>8 DEF Last1
  <2>2. \A p \in DOMAIN init_funcs_ : ~(p < 1)
    BY <1>0 DEF TypeOK
  <2> QED
    BY <1>1, <1>4, <2>1, <2>2 DEF CalledInOrder
<1>13. QueuedInOrder' /\ LibrariesInitializeFirst'
  BY <1>1, QueueStaysInOrder
<1> QED
  BY <1>2, <1>9, <1>10, <1>11, <1>12, <1>13 DEF LoaderInv

(* An initializer that is called had every library of its image that it    *)
(* need not wait for called before it.                                     *)
LEMMA CallsKeeps == ASSUME LoaderInv, CallsInitFunc PROVE LoaderInv'
<1>0. /\ TypeOK /\ OpenedIsApart /\ MappedAreFinished /\ QueuedInOrder /\ CalledInOrder
      /\ LibrariesInitializeFirst
  BY DEF LoaderInv
<1> DEFINE Runs == [at : Nat \ {0}, opened : 0..Len(images)]
<1>1. PICK n \in Nat \ {0} : n = Len(running) /\ DOMAIN running = 1..n
  BY <1>0, RunsAre DEF CallsInitFunc, InitRuns
<1>2. PICK at \in Nat \ {0} : at = running[n].at
  <2>1. n \in DOMAIN running
    BY <1>1
  <2> QED
    BY <1>0, <2>1, RunsAre
<1>3. PICK m \in Nat : m = Len(init_funcs_) /\ DOMAIN init_funcs_ = 1..m
  BY <1>0 DEF TypeOK
<1> DEFINE run == [at |-> at + 1, opened |-> running[n].opened]
<1>4. /\ ~loading /\ running # <<>> /\ at \in 1..m
      /\ ran' = Append(ran, init_funcs_[at])
      /\ running' = [running EXCEPT ![n] = run]
      /\ UNCHANGED <<dylibs, exports, images, loaded_dylibs_, dylib_exports_, exports_, mapping,
                     mapped, loading, init_funcs_, handles, opens, bound>>
  BY <1>1, <1>2, <1>3 DEF CallsInitFunc, InitRuns, Last1, files, maps
<1>5. PICK i \in Numbers : i = init_funcs_[at]
  BY <1>0, <1>3, <1>4 DEF TypeOK
<1>6. run \in Runs /\ run.at = at + 1 /\ run.opened = running[n].opened
  <2>1. running[n].opened \in 0..Len(images)
    <3>1. n \in DOMAIN running
      BY <1>1
    <3> QED
      BY <1>0, <3>1, RunsAre
  <2> QED
    BY <2>1
<1>7. running \in Seq(Runs)
  BY <1>0 DEF TypeOK
<1> HIDE DEF run, Runs
<1>7a. running \in [1..n -> Runs]
  BY <1>1, <1>7
<1>8. /\ running' \in [1..n -> Runs] /\ running'[n] = run
      /\ \A k \in 1..n : k # n => running'[k] = running[k]
  BY <1>1, <1>4, <1>6, <1>7a
<1>9. running' \in Seq(Runs) /\ Len(running') = n /\ DOMAIN running' = 1..n
  BY <1>8
<1>10. PICK r \in Nat : r = Len(ran) /\ DOMAIN ran = 1..r
  BY <1>0 DEF TypeOK
<1>11. /\ ran' \in Seq(Numbers) /\ DOMAIN ran' = 1..r + 1 /\ ran'[r + 1] = i
       /\ \A p \in 1..r : ran'[p] = ran[p]
  BY <1>0, <1>4, <1>5, <1>10 DEF TypeOK
<1>12. Range(ran') = Range(ran) \cup {i}
  BY <1>10, <1>11 DEF Range
<1>13. /\ OneImagePerLibrary' /\ LibrariesAreKnown' /\ CallsNest' /\ ImagesAreLinked'
       /\ Numbers' = Numbers /\ Needed' = Needed /\ OnTheWay' = OnTheWay
  BY <1>4, MapsStay
<1>14. /\ \A k : Loads(k)' = Loads(k)
       /\ \A k, j : LoadsEachOther(k, j)' = LoadsEachOther(k, j)
  BY <1>4, ImagesStay
<1>15. TypeOK'
  <2>1. running' \in Seq([at : Nat \ {0}, opened : 0..Len(images)])
    BY <1>9 DEF Runs
  <2> QED
    BY <1>0, <1>4, <1>11, <1>13, <2>1 DEF TypeOK
<1>16. BoundWhereTold' /\ LoadsGoOn'
  BY <1>4, <1>13 DEF LoaderInv, BoundWhereTold, LoadsGoOn
<1>17. OpenedIsApart'
  <2>1. \A k \in 1..n : running'[k].opened = running[k].opened
    BY <1>6, <1>8
  <2> QED
    BY <1>0, <1>1, <1>4, <1>9, <1>13, <2>1 DEF OpenedIsApart, ClosedIsForgotten
<1>18. MappedAreFinished'
  <2>1. i \in Range(init_funcs_)
    BY <1>3, <1>4, <1>5 DEF Range
  <2> QED
    BY <1>0, <1>4, <1>12, <1>13, <2>1 DEF MappedAreFinished, Finished
<1>19. QueuedInOrder'
  <2>1. \A p : /\ Loads(init_funcs_[p])' = Loads(init_funcs_[p])
               /\ \A j : LoadsEachOther(init_funcs_[p], j)' = LoadsEachOther(init_funcs_[p], j)
    <3>1. UNCHANGED <<images, init_funcs_>> /\ Numbers' = Numbers
      BY <1>4, <1>13
    <3> QED
      BY <3>1 DEF Loads, LoadsEachOther
  <2>2. \A p, j : Behind(p, j)' = Behind(p, j)
    BY <1>4 DEF Behind
  <2> QED
    BY <1>0, <1>4, <1>12, <2>1, <2>2 DEF QueuedInOrder
<1>20. \A p \in 1..m : p < at => init_funcs_[p] \in Range(ran)
  BY <1>0, <1>1, <1>2, <1>3, <1>4 DEF CalledInOrder, Last1
<1>21. CalledInOrder'
  <2>1. Last1(running)'.at = at + 1
    <3>1. Last1(running)' = running'[n]
      BY <1>9 DEF Last1
    <3> QED
      BY <1>6, <1>8, <3>1
  <2>2. \A p \in 1..m : p < at + 1 => p < at \/ p = at
    BY <1>4
  <2> QED
    BY <1>3, <1>4, <1>5, <1>12, <1>20, <2>1, <2>2 DEF CalledInOrder
<1>22. LibrariesInitializeFirst'
  <2>1. ASSUME NEW k, NEW j, RanBefore(j, k)
        PROVE  RanBefore(j, k)'
    <3>1. PICK p \in 1..r : ran[p] = j /\ \A q \in 1..p : ran[q] # k
      BY <1>10, <2>1 DEF RanBefore
    <3>2. p \in 1..r + 1 /\ ran'[p] = j /\ \A q \in 1..p : q \in 1..r /\ ran'[q] # k
      BY <1>11, <3>1
    <3> QED
      BY <1>11, <3>2 DEF RanBefore
  <2>2. ASSUME NEW k \in Range(ran), NEW j \in Loads(k)
        PROVE  LoadsEachOther(k, j) \/ RanBefore(j, k)'
    BY <1>0, <2>1, <2>2 DEF LibrariesInitializeFirst
  <2>3. ASSUME i \notin Range(ran), NEW j \in Loads(i)
        PROVE  LoadsEachOther(i, j) \/ RanBefore(j, i)'
    <3>1. LoadsEachOther(i, j) \/ j \in Range(ran) \/ Behind(at, j)
      BY <1>0, <1>3, <1>4, <1>5, <2>3 DEF QueuedInOrder
    <3>2. Behind(at, j) => j \in Range(ran)
      <4>1. ASSUME NEW q \in 1..at - 1, init_funcs_[q] = j
            PROVE  j \in Range(ran)
        <5>1. q \in 1..m /\ q < at
          BY <1>4
        <5> QED
          BY <1>20, <4>1, <5>1
      <4> QED
        BY <4>1 DEF Behind
    <3>3. ASSUME j \in Range(ran) PROVE RanBefore(j, i)
      <4>1. PICK p \in 1..r : ran[p] = j
        BY <1>10, <3>3 DEF Range
      <4>2. \A q \in 1..p : q \in 1..r
        BY <1>10
      <4>3. \A q \in 1..r : ran[q] # i
        BY <1>10, <2>3 DEF Range
      <4> QED
        BY <1>10, <4>1, <4>2, <4>3 DEF RanBefore
    <3> QED
      BY <2>1, <3>1, <3>2, <3>3
  <2> QED
    BY <1>12, <1>14, <2>2, <2>3 DEF LibrariesInitializeFirst
<1> QED
  BY <1>13, <1>15, <1>16, <1>17, <1>18, <1>19, <1>21, <1>22 DEF LoaderInv

(* runInitFuncs forgets what it called, and dlopen returns a handle that   *)
(* is no table another image binds in.                                     *)
LEMMA RunKeeps == ASSUME LoaderInv, RunInitFuncsReturns PROVE LoaderInv'
<1>0. /\ TypeOK /\ OpenedIsApart /\ MappedAreFinished /\ CalledInOrder
      /\ LibrariesInitializeFirst /\ Len(images) \in Nat
  BY DEF LoaderInv, TypeOK
<1> DEFINE Runs == [at : Nat \ {0}, opened : 0..Len(images)]
<1>1. PICK n \in Nat \ {0} : n = Len(running) /\ DOMAIN running = 1..n
  <2>1. running # <<>> /\ running \in Seq(Runs)
    BY <1>0 DEF RunInitFuncsReturns, TypeOK
  <2> HIDE DEF Runs
  <2> QED
    BY <2>1
<1>2. PICK m \in Nat : m = Len(init_funcs_) /\ DOMAIN init_funcs_ = 1..m
  BY <1>0 DEF TypeOK
<1>3. /\ ~loading /\ running # <<>> /\ ~(running[n].at <= m)
      /\ init_funcs_' = <<>> /\ running' = SubSeq(running, 1, n - 1)
      /\ handles' = handles \cup ({running[n].opened} \ {0})
      /\ UNCHANGED <<dylibs, exports, images, loaded_dylibs_, dylib_exports_, exports_, mapping,
                     mapped, loading, opens, bound, ran>>
  BY <1>1, <1>2 DEF RunInitFuncsReturns, InitRuns, runInitFuncs, Last1, Front, files, maps
<1>4. running[n].opened \in 0..Len(images) /\ running[n].opened \notin Needed \cup {1}
  <2>1. n \in DOMAIN running
    BY <1>1
  <2>2. running[n].opened \in 0..Len(images)
    BY <1>0, <2>1, RunsAre
  <2> QED
    BY <1>0, <2>1, <2>2 DEF OpenedIsApart
<1>5. running \in Seq(Runs)
  BY <1>0 DEF TypeOK
<1> HIDE DEF Runs
<1>6. /\ running' \in Seq(Runs) /\ DOMAIN running' = 1..n - 1
      /\ \A k \in 1..n - 1 : running'[k] = running[k] /\ k \in 1..n
  BY <1>1, <1>3, <1>5
<1>7. /\ OneImagePerLibrary' /\ LibrariesAreKnown' /\ CallsNest' /\ ImagesAreLinked'
      /\ Numbers' = Numbers /\ Needed' = Needed /\ OnTheWay' = OnTheWay
  BY <1>3, MapsStay
<1>8. TypeOK'
  <2>1. running' \in Seq([at : Nat \ {0}, opened : 0..Len(images)])
    BY <1>6 DEF Runs
  <2>2. handles' \subseteq Numbers
    <3>1. PICK opened \in 0..Len(images) : opened = running[n].opened
      BY <1>4
    <3>2. handles' = handles \cup ({opened} \ {0}) /\ handles \subseteq Numbers
      BY <1>0, <1>3, <3>1 DEF TypeOK
    <3>3. {opened} \ {0} \subseteq Numbers
      BY <1>0, <3>1 DEF Numbers
    <3> QED
      BY <3>2, <3>3
  <2>3. init_funcs_' \in Seq(Numbers)
    BY <1>3
  <2> QED
    BY <1>0, <1>3, <1>7, <2>1, <2>2, <2>3 DEF TypeOK
<1>9. BoundWhereTold' /\ LoadsGoOn'
  BY <1>3, <1>7 DEF LoaderInv, BoundWhereTold, LoadsGoOn
<1>10. OpenedIsApart'
  <2>1. ClosedIsForgotten'
    BY <1>0, <1>3, <1>4, <1>7 DEF OpenedIsApart, ClosedIsForgotten
  <2>2. \A k \in 1..n - 1 : running'[k].opened \notin Needed \cup {1}
    BY <1>0, <1>1, <1>6 DEF OpenedIsApart
  <2> QED
    BY <1>3, <1>6, <1>7, <2>1, <2>2 DEF OpenedIsApart
<1>11. Range(init_funcs_) \subseteq Range(ran)
  <2>1. PICK at \in Nat \ {0} : at = running[n].at
    <3>1. n \in DOMAIN running
      BY <1>1
    <3> QED
      BY <1>0, <3>1, RunsAre
  <2>2. \A p \in 1..m : p < at
    BY <1>3, <2>1
  <2> QED
    BY <1>0, <1>1, <1>2, <1>3, <2>1, <2>2 DEF CalledInOrder, Last1, Range
<1>12. MappedAreFinished'
  <2>1. Range(init_funcs_') = {}
    BY <1>3 DEF Range
  <2> QED
    BY <1>0, <1>3, <1>7, <1>11, <2>1 DEF MappedAreFinished, Finished
<1>13. QueuedInOrder' /\ CalledInOrder'
  <2>1. DOMAIN init_funcs_' = {}
    BY <1>3
  <2> QED
    BY <2>1 DEF QueuedInOrder, CalledInOrder
<1>14. LibrariesInitializeFirst'
  <2>1. /\ \A k : Loads(k)' = Loads(k)
        /\ \A k, j : LoadsEachOther(k, j)' = LoadsEachOther(k, j)
    BY <1>3, ImagesStay
  <2> QED
    BY <1>0, <1>3, <2>1 DEF LibrariesInitializeFirst, RanBefore
<1> QED
  BY <1>7, <1>8, <1>9, <1>10, <1>12, <1>13, <1>14 DEF LoaderInv

(* dlclose forgets a handle.                                               *)
LEMMA DlcloseKeeps ==
  ASSUME LoaderInv, NEW i \in handles, ld_mac_dlclose(i)
  PROVE  LoaderInv'
<1>0. /\ TypeOK /\ OpenedIsApart /\ MappedAreFinished /\ CalledInOrder
  BY DEF LoaderInv
<1>1. /\ handles' = handles \ {i}
      /\ UNCHANGED <<dylibs, exports, images, loaded_dylibs_, dylib_exports_, exports_, mapping,
                     mapped, loading, init_funcs_, running, opens, bound, ran>>
  BY DEF ld_mac_dlclose, files, maps
<1>2. /\ OneImagePerLibrary' /\ LibrariesAreKnown' /\ CallsNest' /\ ImagesAreLinked'
      /\ Numbers' = Numbers /\ Needed' = Needed /\ OnTheWay' = OnTheWay
  BY <1>1, MapsStay
<1>3. TypeOK'
  BY <1>0, <1>1, <1>2 DEF TypeOK
<1>4. BoundWhereTold' /\ LoadsGoOn' /\ MappedAreFinished' /\ CalledInOrder'
  BY <1>0, <1>1, <1>2
     DEF LoaderInv, BoundWhereTold, LoadsGoOn, MappedAreFinished, Finished, CalledInOrder, Last1
<1>5. OpenedIsApart'
  BY <1>0, <1>1, <1>2 DEF OpenedIsApart, ClosedIsForgotten, Maps, Last1
<1>6. QueuedInOrder' /\ LibrariesInitializeFirst'
  BY <1>1, QueueStaysInOrder
<1> QED
  BY <1>2, <1>3, <1>4, <1>5, <1>6 DEF LoaderInv

(* Nothing changes what was kept but a step.                               *)
LEMMA StutterKeeps == ASSUME LoaderInv, UNCHANGED vars PROVE LoaderInv'
<1>0. /\ TypeOK /\ OpenedIsApart /\ MappedAreFinished /\ CalledInOrder
  BY DEF LoaderInv
<1>1. UNCHANGED <<dylibs, exports, images, loaded_dylibs_, dylib_exports_, exports_, mapping,
                  mapped, loading, init_funcs_, running, handles, opens, bound, ran>>
  BY DEF vars, files, maps
<1>2. /\ OneImagePerLibrary' /\ LibrariesAreKnown' /\ CallsNest' /\ ImagesAreLinked'
      /\ Numbers' = Numbers /\ Needed' = Needed /\ OnTheWay' = OnTheWay
  BY <1>1, MapsStay
<1>3. TypeOK'
  BY <1>0, <1>1, <1>2 DEF TypeOK
<1>4. BoundWhereTold' /\ LoadsGoOn' /\ MappedAreFinished' /\ CalledInOrder'
  BY <1>0, <1>1, <1>2
     DEF LoaderInv, BoundWhereTold, LoadsGoOn, MappedAreFinished, Finished, CalledInOrder, Last1
<1>5. OpenedIsApart'
  BY <1>0, <1>1, <1>2 DEF OpenedIsApart, ClosedIsForgotten, Maps, Last1
<1>6. QueuedInOrder' /\ LibrariesInitializeFirst'
  BY <1>1, QueueStaysInOrder
<1> QED
  BY <1>2, <1>3, <1>4, <1>5, <1>6 DEF LoaderInv

(* dlopen maps one more image, that nothing was linked to, and the images  *)
(* that were mapped before are as they were.                               *)
LEMMA DlopenKeeps ==
  ASSUME LoaderInv, NEW f \in Libraries, ld_mac_dlopen(f)
  PROVE  LoaderInv'
<1>0. /\ TypeOK /\ OneImagePerLibrary /\ CallsNest /\ ImagesAreLinked /\ LoadsGoOn
      /\ LibrariesAreKnown /\ OpenedIsApart /\ MappedAreFinished /\ Len(images) \in Nat
  BY DEF LoaderInv, TypeOK
<1> DEFINE new_image == Image(f)
           new_call == [image |-> Len(images) + 1, next |-> 1]
<1>1. PICK new : new = Len(images) + 1
  OBVIOUS
<1>2. /\ ~loading /\ opens < MaxOpens /\ opens' = opens + 1 /\ loading'
      /\ images' = Append(images, new_image)
      /\ exports_' = loadExports(f, new, exports_)
      /\ mapping' = <<new_call>>
      /\ UNCHANGED <<dylibs, exports, loaded_dylibs_, dylib_exports_, mapped, init_funcs_,
                     running, handles, bound, ran>>
  BY <1>1 DEF ld_mac_dlopen, GameRuns, OpenedAs, files
<1>3. mapping = <<>> /\ mapped = <<>> /\ bound = {} /\ OnTheWay = {}
  BY <1>0, <1>2 DEF LoadsGoOn, OnTheWay
<1>4. /\ new \in Nat /\ new \notin Numbers /\ new # 1 /\ new # 0 /\ new >= Len(images)
      /\ new_call = [image |-> new, next |-> 1]
  BY <1>0, <1>1 DEF ImagesAreLinked, Numbers
<1>5. images \in Seq(Ims(new)) /\ new_image \in Ims(new)
      /\ new_image.file = f /\ new_image.libraries = <<>>
  <2>1. images \in Seq(Ims(new))
    BY <1>0, <1>4, ImagesWiden
  <2>2. f \in Files
    BY DEF Files
  <2> QED
    BY <2>1, <2>2 DEF Ims, Image
<1>6. new_call.image = new /\ new_call.next = 1
  BY <1>4
<1> HIDE DEF new_image, new_call
<1>7. /\ images' \in Seq(Ims(new)) /\ Len(images') = new /\ images'[new] = new_image
      /\ \A i \in Numbers : images'[i] = images[i]
  BY <1>0, <1>1, <1>2, <1>5 DEF Numbers
<1>8. Numbers' = Numbers \cup {new}
  BY <1>0, <1>1, <1>4, <1>7 DEF Numbers
<1>9. /\ DOMAIN mapping' = {1} /\ mapping'[1] = new_call /\ Len(mapping') = 1 /\ mapping' # <<>>
      /\ OnTheWay' = {new}
  <2>1. DOMAIN mapping' = {1} /\ mapping'[1] = new_call /\ Len(mapping') = 1 /\ mapping' # <<>>
    BY <1>2
  <2> QED
    BY <1>6, <2>1 DEF OnTheWay
<1>10. Needed' = Needed /\ Needed \subseteq Numbers /\ handles \subseteq Numbers
  <2>1. dylib_exports_ \in [Libraries -> 0..Len(images)] /\ handles \subseteq Numbers
    BY <1>0 DEF TypeOK
  <2> QED
    BY <1>0, <1>2, <2>1 DEF Needed, Range, Numbers
<1>11. /\ \A i \in Numbers : Loads(i)' = Loads(i) /\ Loads(i) \subseteq Numbers
       /\ Loads(new)' = {}
  <2>1. \A i \in Numbers : Loads(i)' = Loads(i)
    BY <1>7 DEF Loads
  <2>2. Loads(new)' = {}
    BY <1>5, <1>7 DEF Loads, Range
  <2> QED
    BY <1>0, <2>1, <2>2, ImageIs
<1>12. QueuedInOrder' /\ LibrariesInitializeFirst'
  BY <1>0, <1>2, <1>4, <1>7, <1>11, OrderStays
<1>13. TypeOK'
  <2>1. images' \in Seq([file : Files, libraries : Seq(0..Len(images'))])
    BY <1>7 DEF Ims
  <2>2. /\ init_funcs_ \in Seq(Numbers') /\ ran \in Seq(Numbers')
        /\ running \in Seq([at : Nat \ {0}, opened : 0..Len(images')])
        /\ dylib_exports_ \in [Libraries -> 0..Len(images')]
        /\ exports_ \in [Names -> 0..Len(images')]
        /\ handles \subseteq Numbers'
    <3>1. init_funcs_ \in Seq(Numbers) /\ ran \in Seq(Numbers)
      BY <1>0 DEF TypeOK
    <3> QED
      BY <1>0, <1>4, <1>7, <3>1, TypesWiden
  <2>3. exports_' \in [Names -> 0..Len(images')]
    BY <1>2, <1>4, <1>7, <2>2 DEF loadExports
  <2>4. mapping' \in Seq([image : Numbers', next : Nat \ {0}])
    <3>1. new_call \in [image : Numbers', next : Nat \ {0}]
      BY <1>4, <1>8
    <3> QED
      BY <1>2, <3>1
  <2>5. opens' \in 0..MaxOpens
    BY <1>0, <1>2, OpensBound DEF TypeOK
  <2>6. mapped \in Seq(Numbers') /\ bound \subseteq {}
    BY <1>3
  <2> QED
    BY <1>0, <1>2, <1>3, <2>1, <2>2, <2>3, <2>4, <2>5, <2>6 DEF TypeOK
<1>14. OneImagePerLibrary'
  <2>1. DOMAIN images'[new].libraries = {}
    BY <1>5, <1>7
  <2>2. ASSUME NEW i \in Numbers, NEW k \in DOMAIN images'[i].libraries
        PROVE  LET g == dylibs[images'[i].file][k] l == images'[i].libraries[k]
               IN IF g = System THEN l = 0
                  ELSE l \in Numbers' /\ l = dylib_exports_[g] /\ images'[l].file = g
    BY <1>0, <1>7, <1>8, <2>2, SMTT(30) DEF OneImagePerLibrary
  <2> QED
    BY <1>2, <1>8, <2>1, <2>2, ZenonT(60) DEF OneImagePerLibrary
<1>15. LibrariesAreKnown'
  BY <1>0, <1>2, <1>7, <1>8 DEF LibrariesAreKnown
<1>16. BoundWhereTold' /\ LoadsGoOn' /\ CalledInOrder'
  BY <1>2, <1>3 DEF BoundWhereTold, LoadsGoOn, CalledInOrder
<1>17. CallsNest'
  <2>1. Len(images'[mapping'[1].image].libraries) = mapping'[1].next - 1
    BY <1>5, <1>6, <1>7, <1>9
  <2>2. \A d, e \in DOMAIN mapping' : ~(d < e) /\ e # d + 1
    BY <1>9
  <2> QED
    BY <1>9, <2>1, <2>2 DEF CallsNest
<1>18. ImagesAreLinked'
  <2>1. ASSUME NEW i \in Numbers
        PROVE  Len(images'[i].libraries) = Len(dylibs[images'[i].file]) /\ i \notin OnTheWay'
               /\ Len(dylibs[images'[i].file]) \in Nat
    <3>1. images[i].file \in Files
      BY <1>0, ImageIs
    <3>2. Len(dylibs[images[i].file]) \in Nat
      BY <1>0, <3>1, Lists253
    <3> QED
      BY <1>0, <1>3, <1>4, <1>7, <1>9, <3>2 DEF ImagesAreLinked
  <2>2. Len(images'[new].libraries) <= Len(dylibs[images'[new].file]) /\ new \in OnTheWay'
    <3>1. Len(dylibs[f]) \in 0..253
      BY <1>0, Lists253 DEF Files, MAX_LIBRARY_ORDINAL
    <3>2. images'[new].file = f /\ Len(images'[new].libraries) = 0
      BY <1>5, <1>7
    <3>3. PICK n : n = Len(dylibs[f])
      OBVIOUS
    <3>4. n \in 0..253
      BY <3>1, <3>3
    <3>5. 0 <= n
      BY <3>4
    <3> QED
      BY <1>9, <3>2, <3>3, <3>5
  <2>3. \A i \in Numbers : Len(images'[i].libraries) <= Len(dylibs[images'[i].file])
    BY <2>1
  <2>4. 1 \in Numbers'
    BY <1>0, <1>8 DEF ImagesAreLinked
  <2> QED
    BY <1>2, <1>8, <2>1, <2>2, <2>3, <2>4 DEF ImagesAreLinked
<1>19. MappedAreFinished'
  <2>1. Range(init_funcs_) \cup Range(ran) \subseteq Numbers
    BY <1>0 DEF TypeOK, Range
  <2> QED
    BY <1>0, <1>2, <1>3, <1>4, <1>8, <1>9, <2>1 DEF MappedAreFinished, Finished
<1>20. OpenedIsApart'
  <2>1. ClosedIsForgotten'
    BY <1>0, <1>2, <1>10 DEF OpenedIsApart, ClosedIsForgotten
  <2>2. mapping'[1].image \notin Needed \cup {1}
    BY <1>4, <1>6, <1>9, <1>10
  <2> QED
    BY <1>0, <1>2, <1>9, <1>10, <2>1, <2>2 DEF OpenedIsApart, Maps
<1> QED
  BY <1>12, <1>13, <1>14, <1>15, <1>16, <1>17, <1>18, <1>19, <1>20 DEF LoaderInv

-----------------------------------------------------------------------------
(* The program is loaded: its executable is being mapped.                  *)
LEMMA InitIsKept == Init => LoaderInv
<1> SUFFICES ASSUME Init PROVE LoaderInv
  OBVIOUS
<1> DEFINE new_image == Image(Executable)
           new_call == [image |-> 1, next |-> 1]
<1>1. /\ dylibs \in [Files -> DepLists] /\ exports \in [Files -> SUBSET Names]
      /\ images = <<new_image>> /\ loaded_dylibs_ = {}
      /\ dylib_exports_ = [f \in Libraries |-> 0]
      /\ exports_ = loadExports(Executable, 1, [n \in Names |-> 0])
      /\ mapping = <<new_call>> /\ mapped = <<>> /\ loading = TRUE
      /\ init_funcs_ = <<>> /\ running = <<>> /\ handles = {} /\ opens = 0
      /\ bound = {} /\ ran = <<>>
  BY DEF Init, InitFiles, InitLoader
<1>2. /\ new_image.file = Executable /\ new_image.libraries = <<>> /\ Executable \in Files
      /\ new_image \in [file : Files, libraries : Seq(0..1)]
      /\ new_call.image = 1 /\ new_call.next = 1
  BY DEF Image, Files
<1> HIDE DEF new_image, new_call
<1>3. /\ Len(images) = 1 /\ DOMAIN images = {1} /\ images[1] = new_image
      /\ DOMAIN mapping = {1} /\ mapping[1] = new_call /\ Numbers = {1} /\ OnTheWay = {1}
  <2>1. Len(images) = 1 /\ DOMAIN images = {1} /\ images[1] = new_image
    BY <1>1
  <2>2. DOMAIN mapping = {1} /\ mapping[1] = new_call
    BY <1>1
  <2>3. Numbers = {1}
    BY <2>1 DEF Numbers
  <2> QED
    BY <1>2, <2>1, <2>2, <2>3 DEF OnTheWay
<1>4. /\ Needed = {} /\ Range(init_funcs_) = {} /\ Range(ran) = {} /\ DOMAIN running = {}
      /\ DOMAIN init_funcs_ = {}
  BY <1>1 DEF Needed, Range
<1>5. TypeOK
  <2>1. images \in Seq([file : Files, libraries : Seq(0..Len(images))])
    BY <1>1, <1>2, <1>3
  <2>2. mapping \in Seq([image : Numbers, next : Nat \ {0}])
    <3>1. new_call \in [image : Numbers, next : Nat \ {0}]
      BY <1>3 DEF new_call
    <3> QED
      BY <1>1, <3>1
  <2>3. /\ exports_ \in [Names -> 0..Len(images)]
        /\ dylib_exports_ \in [Libraries -> 0..Len(images)]
    BY <1>1, <1>3 DEF loadExports
  <2>4. opens \in 0..MaxOpens
    BY <1>1, OpensBound
  <2>5. /\ mapped \in Seq(Numbers) /\ init_funcs_ \in Seq(Numbers) /\ ran \in Seq(Numbers)
        /\ running \in Seq([at : Nat \ {0}, opened : 0..Len(images)])
    BY <1>1
  <2> QED
    BY <1>1, <2>1, <2>2, <2>3, <2>4, <2>5 DEF TypeOK
<1>6. DOMAIN images[1].libraries = {} /\ Len(images[1].libraries) = 0
  BY <1>2, <1>3
<1>7. OneImagePerLibrary /\ BoundWhereTold /\ LibrariesAreKnown
  BY <1>1, <1>3, <1>6 DEF OneImagePerLibrary, BoundWhereTold, LibrariesAreKnown
<1>8. CallsNest
  <2>1. Len(images[mapping[1].image].libraries) = mapping[1].next - 1
    BY <1>2, <1>3, <1>6
  <2>2. \A d, e \in DOMAIN mapping : ~(d < e) /\ e # d + 1
    BY <1>3
  <2> QED
    BY <1>3, <2>1, <2>2 DEF CallsNest
<1>9. ImagesAreLinked
  <2>1. Len(dylibs[Executable]) \in 0..253
    BY <1>2, <1>5, Lists253 DEF MAX_LIBRARY_ORDINAL
  <2>2. Len(images[1].libraries) <= Len(dylibs[images[1].file])
    <3>1. 0 <= Len(dylibs[Executable])
      BY <2>1
    <3>2. images[1].file = Executable
      BY <1>2, <1>3
    <3> QED
      BY <1>6, <3>1, <3>2
  <2> QED
    BY <1>3, <2>2 DEF ImagesAreLinked
<1>10. LoadsGoOn /\ OpenedIsApart /\ CalledInOrder
  BY <1>1, <1>4 DEF LoadsGoOn, OpenedIsApart, ClosedIsForgotten, CalledInOrder
<1>11. MappedAreFinished /\ QueuedInOrder /\ LibrariesInitializeFirst
  BY <1>3, <1>4 DEF MappedAreFinished, Finished, QueuedInOrder, LibrariesInitializeFirst
<1> QED
  BY <1>5, <1>7, <1>8, <1>9, <1>10, <1>11 DEF LoaderInv

(* Every step keeps the invariant.                                         *)
LEMMA StepsKeep == LoaderInv /\ [Next]_vars => LoaderInv'
<1> SUFFICES ASSUME LoaderInv, [Next]_vars PROVE LoaderInv'
  OBVIOUS
<1>1. CASE mapImage
  <2>1. UNCHANGED <<files, running, handles, opens, bound, ran>>
    BY <1>1 DEF mapImage
  <2>2. CASE AlreadyLoaded
    BY <2>1, <2>2, AlreadyLoadedKeeps
  <2>3. CASE SystemLibrary
    BY <2>1, <2>3, SystemLibraryKeeps
  <2>4. CASE MapsLibrary
    BY <2>1, <2>4, MapsLibraryKeeps
  <2>5. CASE MapImageReturns
    BY <2>1, <2>5, MapImageReturnsKeeps
  <2> QED
    BY <1>1, <2>2, <2>3, <2>4, <2>5 DEF mapImage
<1>2. CASE doBind
  BY <1>2, BindKeeps
<1>3. CASE LoadReturns
  BY <1>3, LoadReturnsKeeps
<1>4. CASE CallsInitFunc
  BY <1>4, CallsKeeps
<1>5. CASE RunInitFuncsReturns
  BY <1>5, RunKeeps
<1>6. ASSUME NEW f \in Libraries, ld_mac_dlopen(f) PROVE LoaderInv'
  BY <1>6, DlopenKeeps
<1>7. ASSUME NEW i \in handles, ld_mac_dlclose(i) PROVE LoaderInv'
  BY <1>7, DlcloseKeeps
<1>8. CASE UNCHANGED vars
  BY <1>8, StutterKeeps
<1> QED
  BY <1>1, <1>2, <1>3, <1>4, <1>5, <1>6, <1>7, <1>8 DEF Next

(* The invariant holds in every state.                                     *)
LEMMA LoaderInvHolds == Spec => []LoaderInv
<1> QED
  BY InitIsKept, StepsKeep, PTL DEF Spec

(* Whatever the files list and export, and whenever the program opens and  *)
(* closes more of them, even from the initializers of a load that is still *)
(* under way: a library that images need is mapped once, an import binds   *)
(* in the library it names, initializers run after those of the libraries  *)
(* they need, and dlclose deletes no table another image binds in.         *)
THEOREM LibrariesLoad == Spec => []LibrariesAreLoaded
<1>1. LoaderInv => LibrariesAreLoaded
  BY DEF LoaderInv, OpenedIsApart, LibrariesAreLoaded
<1> QED
  BY <1>1, LoaderInvHolds, PTL

(* Every variable of the loader keeps its type.                            *)
THEOREM LoaderIsTyped == Spec => []TypeOK
<1>1. LoaderInv => TypeOK
  BY DEF LoaderInv
<1> QED
  BY <1>1, LoaderInvHolds, PTL

-----------------------------------------------------------------------------
(* Each part by itself.                                                    *)

(* A step is one of the part that is run.                                  *)
LEMMA FilesSteps ==
  ASSUME [FilesNext]_filesVars
  PROVE  /\ part' = part
         /\ part = "weak" => [W!Next]_(W!vars)
         /\ part = "forks" => [F!Next]_(F!vars)
         /\ part = "resources" => [R!Next]_(R!vars)
         /\ part = "preferences" => [P!Next]_(P!vars)
         /\ part = "catalog" => [T!Next]_(T!vars)
<1>1. UNCHANGED filesVars =>
        /\ part' = part /\ UNCHANGED W!vars /\ UNCHANGED F!vars /\ UNCHANGED R!vars
        /\ UNCHANGED P!vars /\ UNCHANGED T!vars
  BY DEF filesVars, weakVars, forkVars, resourceVars, prefsVars, catalogVars, W!vars, W!files,
         W!lastWeak, W!seen, F!vars, R!vars, R!files, R!blocks, P!vars, T!vars
<1>2. FilesNext =>
        /\ part' = part
        /\ part = "weak" => W!Next
        /\ part = "forks" => F!Next
        /\ part = "resources" => R!Next
        /\ part = "preferences" => P!Next
        /\ part = "catalog" => T!Next
  BY DEF FilesNext
<1> QED
  BY <1>1, <1>2

-----------------------------------------------------------------------------
(* Preferences.                                                            *)

(* What is written beside the file is what the process has.                *)
PrefsInv ==
  /\ P!TypeOK /\ P!PreferencesSurvive
  /\ \A p \in Processes : writes[p] = "written" => tmp[p] = values[p]

(* A call that reads the domain if it was not read, and that changes a     *)
(* value, or none.                                                         *)
LEMMA ReadKeeps ==
  ASSUME PrefsInv, NEW p \in Processes,
         P!CFPreferencesCopyAppValue(p) \/ P!CFPreferencesSetAppValue(p)
  PROVE  PrefsInv'
<1>1. /\ writes[p] = "none" /\ UNCHANGED <<prefs, tmp, writes>>
      /\ read_in' = [read_in EXCEPT ![p] = TRUE]
      /\ latest' = IF read_in[p] THEN latest ELSE latest \cup {p}
  BY DEF P!CFPreferencesCopyAppValue, P!CFPreferencesSetAppValue, P!Calls, P!domain_for
<1>2. P!Stored \in PrefsDicts /\ P!Stored' = P!Stored
  BY <1>1, DictionariesAreText DEF P!Stored
<1>3. PICK d \in PrefsDicts : values' = [values EXCEPT ![p] = d]
  BY <1>2 DEF P!CFPreferencesCopyAppValue, P!CFPreferencesSetAppValue, P!Domain, PrefsInv, P!TypeOK
<1>4. dirty' = dirty \/ dirty' = [dirty EXCEPT ![p] = TRUE]
  BY DEF P!CFPreferencesCopyAppValue, P!CFPreferencesSetAppValue
<1>5. P!TypeOK'
  BY <1>1, <1>3, <1>4 DEF PrefsInv, P!TypeOK, P!Contents
<1>6. \A q \in Processes : writes'[q] = "written" => tmp'[q] = values'[q]
  BY <1>1, <1>3 DEF PrefsInv, P!TypeOK
<1>7. ASSUME NEW q \in latest', ~dirty'[q], values'[q] \notin DeepDicts
      PROVE  P!Stored = values'[q]
  <2>1. CASE q # p
    BY <1>1, <1>3, <1>4, <1>7, <2>1 DEF PrefsInv, P!TypeOK, P!PreferencesSurvive
  <2>2. CASE q = p
    <3>1. P!CFPreferencesCopyAppValue(p) /\ dirty' = dirty
      BY <1>7, <2>2 DEF P!CFPreferencesCopyAppValue, P!CFPreferencesSetAppValue, PrefsInv, P!TypeOK
    <3>2. values'[p] = P!Domain(p)
      BY <3>1 DEF P!CFPreferencesCopyAppValue, PrefsInv, P!TypeOK
    <3> QED
      BY <1>1, <1>7, <2>2, <3>1, <3>2 DEF P!Domain, PrefsInv, P!PreferencesSurvive
  <2> QED
    BY <2>1, <2>2
<1> QED
  BY <1>1, <1>2, <1>5, <1>6, <1>7 DEF PrefsInv, P!PreferencesSurvive

(* A step of writing, before the file is renamed or after it failed.       *)
LEMMA WritingKeeps ==
  ASSUME PrefsInv, NEW p \in Processes,
         \/ P!OpenBeside(p) \/ P!CannotOpen(p) \/ P!WriteBeside(p)
         \/ P!CannotRename(p) \/ P!Unlink(p)
  PROVE  PrefsInv'
<1>1. UNCHANGED <<prefs, read_in, values, dirty, latest>>
  BY DEF P!OpenBeside, P!CannotOpen, P!WriteBeside, P!CannotRename, P!Unlink
<1>2. P!Torn \in P!Contents /\ P!Absent \in P!Contents /\ values[p] \in P!Contents
  BY DEF P!Contents, PrefsInv, P!TypeOK
<1>3. PICK content \in P!Contents, to \in {"none", "opened", "written", "failed"} :
        /\ writes' = [writes EXCEPT ![p] = to]
        /\ tmp' = tmp \/ tmp' = [tmp EXCEPT ![p] = content]
        /\ to = "written" => tmp' = [tmp EXCEPT ![p] = values[p]]
  <2>1. P!OpenBeside(p) \/ P!CannotOpen(p) \/ P!CannotRename(p) \/ P!Unlink(p) =>
          \E content \in P!Contents, to \in {"none", "opened", "failed"} :
            /\ writes' = [writes EXCEPT ![p] = to]
            /\ tmp' = tmp \/ tmp' = [tmp EXCEPT ![p] = content]
    BY <1>2 DEF P!OpenBeside, P!CannotOpen, P!CannotRename, P!Unlink, P!Tmp
  <2>2. ASSUME P!WriteBeside(p)
        PROVE  \E content \in P!Contents, to \in {"written", "failed"} :
                 /\ writes' = [writes EXCEPT ![p] = to]
                 /\ tmp' = [tmp EXCEPT ![p] = content]
                 /\ to = "written" => tmp' = [tmp EXCEPT ![p] = values[p]]
    <3>1. PICK content \in {values[p], P!Torn}, to \in {"written", "failed"} :
            /\ content = P!Torn => to = "failed"
            /\ tmp' = [tmp EXCEPT ![p] = content]
            /\ writes' = [writes EXCEPT ![p] = to]
      BY <2>2 DEF P!WriteBeside, P!Tmp
    <3> QED
      BY <1>2, <3>1
  <2> QED
    BY <2>1, <2>2
<1>4. P!TypeOK'
  <2>1. tmp' \in [Processes -> P!Contents]
    BY <1>3 DEF PrefsInv, P!TypeOK
  <2>2. writes' \in [Processes -> {"none", "opened", "written", "failed"}]
    BY <1>3 DEF PrefsInv, P!TypeOK
  <2> QED
    BY <1>1, <2>1, <2>2 DEF PrefsInv, P!TypeOK, P!Contents
<1>5. ASSUME NEW q \in Processes, writes'[q] = "written"
      PROVE  tmp'[q] = values'[q]
  BY <1>1, <1>3, <1>5 DEF PrefsInv, P!TypeOK
<1>6. P!PreferencesSurvive'
  BY <1>1 DEF PrefsInv, P!PreferencesSurvive, P!Stored
<1> QED
  BY <1>4, <1>5, <1>6 DEF PrefsInv

(* The rename: the file is what the process has.                           *)
LEMMA RenameKeeps ==
  ASSUME PrefsInv, NEW p \in Processes, P!RenameOver(p)
  PROVE  PrefsInv'
<1>1. /\ prefs' = values[p] /\ values[p] \in PrefsDicts
      /\ tmp' = [tmp EXCEPT ![p] = P!Absent]
      /\ dirty' = [dirty EXCEPT ![p] = FALSE]
      /\ writes' = [writes EXCEPT ![p] = "none"] /\ latest' = {p}
      /\ UNCHANGED <<read_in, values>>
  BY DEF P!RenameOver, P!Tmp, PrefsInv, P!TypeOK
<1>2. P!TypeOK'
  BY <1>1 DEF PrefsInv, P!TypeOK, P!Contents
<1>3. \A q \in Processes : writes'[q] = "written" => tmp'[q] = values'[q]
  BY <1>1 DEF PrefsInv, P!TypeOK
<1>4. P!PreferencesSurvive'
  BY <1>1, DictionariesAreText DEF P!PreferencesSurvive, P!Stored
<1> QED
  BY <1>2, <1>3, <1>4 DEF PrefsInv

(* A process that ends has read and written nothing.                       *)
LEMMA RestartKeeps ==
  ASSUME PrefsInv, NEW p \in Processes, P!Restart(p)
  PROVE  PrefsInv'
<1>1. /\ read_in' = [read_in EXCEPT ![p] = FALSE]
      /\ values' = [values EXCEPT ![p] = EmptyDict]
      /\ dirty' = [dirty EXCEPT ![p] = FALSE]
      /\ writes' = [writes EXCEPT ![p] = "none"]
      /\ latest' = latest \ {p} /\ UNCHANGED <<prefs, tmp>>
  BY DEF P!Restart
<1>2. P!TypeOK'
  BY <1>1, DictionariesAreText DEF PrefsInv, P!TypeOK, P!Contents
<1>3. \A q \in Processes : writes'[q] = "written" => tmp'[q] = values'[q]
  BY <1>1 DEF PrefsInv, P!TypeOK
<1>4. P!PreferencesSurvive'
  BY <1>1 DEF PrefsInv, P!TypeOK, P!PreferencesSurvive, P!Stored
<1> QED
  BY <1>2, <1>3, <1>4 DEF PrefsInv

(* Any step, and the start.                                                *)
LEMMA PrefsKept ==
  ASSUME PrefsInv, [P!Next]_(P!vars)
  PROVE  PrefsInv'
<1>1. CASE UNCHANGED P!vars
  BY <1>1 DEF P!vars, PrefsInv, P!TypeOK, P!Contents, P!PreferencesSurvive, P!Stored
<1>2. CASE P!Next
  BY <1>2, ReadKeeps, WritingKeeps, RenameKeeps, RestartKeeps DEF P!Next
<1> QED
  BY <1>1, <1>2

(* A machine starts with preferences that are whole.                       *)
LEMMA PrefsStart == ASSUME P!Init PROVE PrefsInv
BY DictionariesAreText
   DEF P!Init, PrefsInv, P!TypeOK, P!Contents, P!PreferencesSurvive, P!Absent, P!Torn

(* Wherever processes end, the file is whole and has what the process that *)
(* synchronized it last has, for any number of processes and whatever the  *)
(* preferences are.                                                        *)
THEOREM PreferencesAreSafe == FilesSpec => []PreferencesSurvive
<1> DEFINE Inv == part = "preferences" => PrefsInv
<1>1. FilesInit => Inv
  BY PrefsStart DEF FilesInit
<1>2. Inv /\ [FilesNext]_filesVars => Inv'
  BY FilesSteps, PrefsKept
<1>3. Inv => PreferencesSurvive
  BY DEF PrefsInv, PreferencesSurvive
<1> QED
  BY <1>1, <1>2, <1>3, PTL DEF FilesSpec

-----------------------------------------------------------------------------
(* Resources: what becomes of handles.                                     *)
Entries == [handle : R!Handles, file : R!Refnums, id : Ids]
Calls ==
  {R!Idle, [at |-> "intl"]} \cup [at : {"loading"}, path : Paths]
    \cup [at : {"closing"}, dropped : SUBSET R!Handles]
    \cup [at : {"getting"}, found : Entries]
    \cup [at : {"disposing"}, handle : R!Handles, direct : BOOLEAN]
    \cup [at : {"freeing"}, handle : R!Handles]

(* The handles that a call has taken off the list, or never were on it,    *)
(* and is about to free; and the one that the game asked it to free, which *)
(* may still be listed.                                                    *)
Due(c) ==
  IF c.at = "closing" THEN c.dropped
  ELSE IF c.at = "freeing" \/ (c.at = "disposing" /\ ~c.direct) THEN {c.handle} ELSE {}
Aim(c) == IF c.at = "disposing" /\ c.direct THEN {c.handle} ELSE {}
Ahead(c) == Due(c) \cup Aim(c)
Listed(ld) == {l.handle : l \in ld}
Aimed(cl) == UNION {Aim(cl[t]) : t \in Threads}

(* Every variable has its type.                                            *)
HandlesTyped(hp, fr, md, ld, gm, st, cl) ==
  /\ hp \in [R!Handles -> {"unused", "live", "freed"}] /\ fr \in [R!Handles -> Nat]
  /\ md \in 0..MaxHandles /\ ld \subseteq Entries
  /\ gm \subseteq R!Handles /\ st \subseteq R!Handles /\ cl \in [Threads -> Calls]
(* Handles are made in their order, and none was struck before.            *)
HandlesMade(hp, md, st) ==
  \A h \in R!Handles : (hp[h] = "unused" <=> h > md) /\ (h \in st => hp[h] # "unused")
(* What is listed is good, once, and of a file that is open.               *)
ListOK(hp, ld, open) ==
  /\ \A l \in ld : hp[l.handle] = "live" /\ l.file \in open
  /\ \A l, m \in ld : l.handle = m.handle \/ (l.file = m.file /\ l.id = m.id) => l = m
(* What a call is due to free is on the list no more.                      *)
DueOK(hp, ld, cl) ==
  \A t \in Threads : /\ \A h \in Due(cl[t]) : h \notin Listed(ld)
                     /\ \A h \in Ahead(cl[t]) : hp[h] # "unused"
(* A handle that is not struck is freed once, by one call, and until then  *)
(* it may be the game's, unless a call is due to free it.                  *)
OnceOK(hp, fr, gm, st, cl) ==
  \A h \in R!Handles \ st :
    /\ fr[h] = IF hp[h] = "freed" THEN 1 ELSE 0
    /\ h \in gm => hp[h] = "live"
    /\ \A t \in Threads : h \in Ahead(cl[t]) => hp[h] = "live"
    /\ \A t \in Threads : h \in Due(cl[t]) => h \notin gm
    /\ \A t, u \in Threads : t # u /\ h \in Ahead(cl[t]) => h \notin Ahead(cl[u])
(* Every live handle is somebody's.                                        *)
OwnedOK(hp, ld, gm, cl) ==
  \A h \in R!Handles : hp[h] = "live" =>
    h \in Listed(ld) \/ h \in gm \/ \E t \in Threads : h \in Ahead(cl[t])
HandlesOK(hp, fr, md, ld, gm, st, cl, open) ==
  /\ HandlesTyped(hp, fr, md, ld, gm, st, cl) /\ HandlesMade(hp, md, st)
  /\ ListOK(hp, ld, open) /\ DueOK(hp, ld, cl)
  /\ OnceOK(hp, fr, gm, st, cl) /\ OwnedOK(hp, ld, gm, cl)

(* A call by its kind.                                                     *)
LEMMA CallIs ==
  ASSUME NEW c \in Calls
  PROVE  /\ c.at \in {"idle", "intl", "loading", "closing", "getting", "disposing", "freeing"}
         /\ c.at = "loading" => c.path \in Paths
         /\ c.at = "closing" => c.dropped \in SUBSET R!Handles
         /\ c.at = "getting" => c.found \in Entries
         /\ c.at = "disposing" => c.handle \in R!Handles /\ c.direct \in BOOLEAN
         /\ c.at = "freeing" => c.handle \in R!Handles
<1>1. CASE c \in {R!Idle, [at |-> "intl"]} \cup [at : {"loading"}, path : Paths]
                  \cup [at : {"closing"}, dropped : SUBSET R!Handles]
  BY <1>1 DEF R!Idle
<1>2. CASE c \in [at : {"getting"}, found : Entries]
  <2>1. c.at = "getting" /\ c.found \in Entries
    BY <1>2
  <2> QED
    BY <2>1
<1>3. CASE c \in [at : {"disposing"}, handle : R!Handles, direct : BOOLEAN]
                  \cup [at : {"freeing"}, handle : R!Handles]
  BY <1>3
<1> QED
  BY <1>1, <1>2, <1>3 DEF Calls

(* What a call is about to free are handles.                               *)
LEMMA AheadIsHandles ==
  ASSUME NEW c \in Calls
  PROVE  Ahead(c) \subseteq R!Handles
BY CallIs DEF Ahead, Due, Aim

(* A call that goes on to c.                                               *)
LEMMA CallGoesOn ==
  ASSUME NEW cl \in [Threads -> Calls], NEW t \in Threads, NEW c \in Calls,
         NEW new, new = [cl EXCEPT ![t] = c]
  PROVE  /\ new \in [Threads -> Calls] /\ new[t] = c
         /\ \A u \in Threads : u # t => new[u] = cl[u]
OBVIOUS

(* Calls that are about to free what they were, while no file is closed    *)
(* that a listed resource is of, and the game has what it had or what is   *)
(* listed as well.                                                         *)
LEMMA SameDue ==
  ASSUME NEW hp, NEW fr, NEW md, NEW ld, NEW gm, NEW st, NEW cl, NEW open,
         HandlesOK(hp, fr, md, ld, gm, st, cl, open),
         NEW new \in [Threads -> Calls], NEW still,
         \A u \in Threads : Due(new[u]) = Due(cl[u]) /\ Aim(new[u]) = Aim(cl[u]),
         \A l \in ld : l.file \in still,
         NEW own, gm \subseteq own, own \subseteq gm \cup Listed(ld)
  PROVE  HandlesOK(hp, fr, md, ld, own, st, new, still)
<1>1. HandlesTyped(hp, fr, md, ld, own, st, new)
  <2>1. Listed(ld) \subseteq R!Handles
    BY DEF HandlesOK, HandlesTyped, Listed, Entries
  <2> QED
    BY <2>1 DEF HandlesOK, HandlesTyped
<1>2. \A u \in Threads : Ahead(new[u]) = Ahead(cl[u])
  BY DEF Ahead
<1>3. ListOK(hp, ld, still)
  BY DEF HandlesOK, ListOK
<1>4. DueOK(hp, ld, new)
  BY <1>2 DEF HandlesOK, DueOK
<1>5. \A h \in Listed(ld) : hp[h] = "live"
  BY DEF HandlesOK, ListOK, Listed
<1>6. OnceOK(hp, fr, own, st, new)
  <2>1. DueOK(hp, ld, cl) /\ OnceOK(hp, fr, gm, st, cl)
    BY DEF HandlesOK
  <2>2. \A h \in own : h \in gm \/ (hp[h] = "live" /\ \A t \in Threads : h \notin Due(cl[t]))
    BY <1>5, <2>1 DEF DueOK
  <2> QED
    BY <1>2, <2>1, <2>2 DEF OnceOK
<1>7. OwnedOK(hp, ld, own, new)
  BY <1>2 DEF HandlesOK, OwnedOK
<1> QED
  BY <1>1, <1>3, <1>4, <1>6, <1>7 DEF HandlesOK

(* Handles that leave the list, for a call that is then due to free them.  *)
LEMMA TakesKeeps ==
  ASSUME NEW hp, NEW fr, NEW md, NEW ld, NEW gm, NEW st, NEW cl, NEW open,
         HandlesOK(hp, fr, md, ld, gm, st, cl, open),
         NEW t \in Threads, Ahead(cl[t]) = {},
         NEW gone, gone \subseteq Listed(ld), NEW still,
         NEW kept, kept = {l \in ld : l.handle \notin gone},
         \A l \in kept : l.file \in still,
         NEW new \in [Threads -> Calls], Due(new[t]) = gone, Aim(new[t]) = {},
         \A u \in Threads : u # t => new[u] = cl[u],
         NEW struck_, struck_ = st \cup (gone \cap Aimed(cl)),
         NEW own, own = gm \ gone
  PROVE  HandlesOK(hp, fr, md, kept, own, struck_, new, still)
<1>0. /\ HandlesTyped(hp, fr, md, ld, gm, st, cl) /\ HandlesMade(hp, md, st)
      /\ ListOK(hp, ld, open) /\ DueOK(hp, ld, cl)
      /\ OnceOK(hp, fr, gm, st, cl) /\ OwnedOK(hp, ld, gm, cl)
  BY DEF HandlesOK
<1>1. Listed(kept) = Listed(ld) \ gone /\ kept \subseteq ld
  BY DEF Listed
<1>2. \A h \in gone : /\ hp[h] = "live" /\ h \in R!Handles
                      /\ \A u \in Threads : h \notin Due(cl[u])
  BY <1>0 DEF HandlesTyped, ListOK, DueOK, Listed, Entries
<1>3. /\ Ahead(new[t]) = gone
      /\ \A u \in Threads : u # t => Ahead(new[u]) = Ahead(cl[u]) /\ Due(new[u]) = Due(cl[u])
  BY DEF Ahead
<1>4. HandlesTyped(hp, fr, md, kept, own, struck_, new)
  BY <1>0, <1>1, <1>2 DEF HandlesTyped
<1>5. HandlesMade(hp, md, struck_)
  <2>1. \A h \in gone : hp[h] # "unused"
    BY <1>2
  <2> QED
    BY <1>0, <2>1 DEF HandlesMade
<1>6. ListOK(hp, kept, still)
  BY <1>0, <1>1 DEF ListOK
<1>7. DueOK(hp, kept, new)
  <2> SUFFICES ASSUME NEW u \in Threads
               PROVE  /\ \A h \in Due(new[u]) : h \notin Listed(kept)
                      /\ \A h \in Ahead(new[u]) : hp[h] # "unused"
    BY DEF DueOK
  <2>1. CASE u = t
    BY <1>1, <1>2, <1>3, <2>1
  <2>2. CASE u # t
    BY <1>0, <1>1, <1>3, <2>2 DEF DueOK
  <2> QED
    BY <2>1, <2>2
<1>8. OnceOK(hp, fr, own, struck_, new)
  <2> SUFFICES ASSUME NEW h \in R!Handles \ struck_
               PROVE  /\ fr[h] = IF hp[h] = "freed" THEN 1 ELSE 0
                      /\ h \in own => hp[h] = "live"
                      /\ \A u \in Threads : h \in Ahead(new[u]) => hp[h] = "live"
                      /\ \A u \in Threads : h \in Due(new[u]) => h \notin own
                      /\ \A u, v \in Threads : u # v /\ h \in Ahead(new[u]) => h \notin Ahead(new[v])
    BY DEF OnceOK
  <2>1. /\ h \notin st /\ fr[h] = IF hp[h] = "freed" THEN 1 ELSE 0
        /\ h \in gm => hp[h] = "live"
        /\ \A u \in Threads : h \in Ahead(cl[u]) => hp[h] = "live"
        /\ \A u \in Threads : h \in Due(cl[u]) => h \notin gm
        /\ \A u, v \in Threads : u # v /\ h \in Ahead(cl[u]) => h \notin Ahead(cl[v])
    BY <1>0 DEF OnceOK
  <2>2. CASE h \in gone
    <3>1. \A u \in Threads : h \notin Ahead(cl[u])
      BY <1>2, <2>2 DEF Aimed, Ahead
    <3>2. \A u \in Threads : h \in Ahead(new[u]) => u = t
      BY <1>3, <3>1
    <3> QED
      BY <1>2, <2>1, <2>2, <3>2
  <2>3. CASE h \notin gone
    <3>1. \A u \in Threads : /\ h \in Ahead(new[u]) => u # t /\ h \in Ahead(cl[u])
                             /\ h \in Due(new[u]) => u # t /\ h \in Due(cl[u])
      BY <1>3, <2>3
    <3> QED
      BY <2>1, <2>3, <3>1
  <2> QED
    BY <2>2, <2>3
<1>9. OwnedOK(hp, kept, own, new)
  <2> SUFFICES ASSUME NEW h \in R!Handles, hp[h] = "live"
               PROVE  h \in Listed(kept) \/ h \in own \/ \E u \in Threads : h \in Ahead(new[u])
    BY DEF OwnedOK
  <2>1. CASE h \in gone
    BY <1>3, <2>1
  <2>2. CASE h \notin gone
    <3>1. h \in Listed(ld) \/ h \in gm \/ \E u \in Threads : u # t /\ h \in Ahead(cl[u])
      BY <1>0 DEF OwnedOK
    <3> QED
      BY <1>1, <1>3, <2>2, <3>1
  <2> QED
    BY <2>1, <2>2
<1> QED
  BY <1>4, <1>5, <1>6, <1>7, <1>8, <1>9 DEF HandlesOK

(* A handle that leaves the list for the game.                             *)
LEMMA DetachKeeps ==
  ASSUME NEW hp, NEW fr, NEW md, NEW ld, NEW gm, NEW st, NEW cl, NEW open,
         HandlesOK(hp, fr, md, ld, gm, st, cl, open),
         NEW h \in Listed(ld), NEW kept, kept = {l \in ld : l.handle # h},
         NEW struck_, struck_ = st \cup ({h} \cap Aimed(cl)),
         NEW own, own = gm \cup {h}
  PROVE  HandlesOK(hp, fr, md, kept, own, struck_, cl, open)
<1>0. /\ HandlesTyped(hp, fr, md, ld, gm, st, cl) /\ HandlesMade(hp, md, st)
      /\ ListOK(hp, ld, open) /\ DueOK(hp, ld, cl)
      /\ OnceOK(hp, fr, gm, st, cl) /\ OwnedOK(hp, ld, gm, cl)
  BY DEF HandlesOK
<1>1. Listed(kept) = Listed(ld) \ {h} /\ kept \subseteq ld
  BY DEF Listed
<1>2. hp[h] = "live" /\ h \in R!Handles /\ \A u \in Threads : h \notin Due(cl[u])
  BY <1>0 DEF HandlesTyped, ListOK, DueOK, Listed, Entries
<1>4. HandlesTyped(hp, fr, md, kept, own, struck_, cl)
  BY <1>0, <1>1, <1>2 DEF HandlesTyped
<1>5. HandlesMade(hp, md, struck_)
  <2>1. hp[h] # "unused"
    BY <1>2
  <2> QED
    BY <1>0, <2>1 DEF HandlesMade
<1>6. ListOK(hp, kept, open)
  BY <1>0, <1>1 DEF ListOK
<1>7. DueOK(hp, kept, cl)
  BY <1>0, <1>1 DEF DueOK
<1>8. OnceOK(hp, fr, own, struck_, cl)
  BY <1>0, <1>2 DEF OnceOK
<1>9. OwnedOK(hp, kept, own, cl)
  BY <1>0, <1>1 DEF OwnedOK
<1> QED
  BY <1>4, <1>5, <1>6, <1>7, <1>8, <1>9 DEF HandlesOK

(* The game begins to dispose of a live handle.                            *)
LEMMA AimsKeeps ==
  ASSUME NEW hp, NEW fr, NEW md, NEW ld, NEW gm, NEW st, NEW cl, NEW open,
         HandlesOK(hp, fr, md, ld, gm, st, cl, open),
         NEW h \in R!Handles, hp[h] = "live", NEW t \in Threads, Ahead(cl[t]) = {},
         NEW new \in [Threads -> Calls], Due(new[t]) = {}, Aim(new[t]) = {h},
         \A u \in Threads : u # t => new[u] = cl[u],
         NEW struck_, struck_ \subseteq st \cup {h}, st \subseteq struck_,
         (\E u \in Threads : h \in Ahead(cl[u])) => h \in struck_
  PROVE  HandlesOK(hp, fr, md, ld, gm, struck_, new, open)
<1>0. /\ HandlesTyped(hp, fr, md, ld, gm, st, cl) /\ HandlesMade(hp, md, st)
      /\ ListOK(hp, ld, open) /\ DueOK(hp, ld, cl)
      /\ OnceOK(hp, fr, gm, st, cl) /\ OwnedOK(hp, ld, gm, cl)
  BY DEF HandlesOK
<1>1. /\ Ahead(new[t]) = {h}
      /\ \A u \in Threads : u # t => Ahead(new[u]) = Ahead(cl[u]) /\ Due(new[u]) = Due(cl[u])
  BY DEF Ahead
<1>2. HandlesTyped(hp, fr, md, ld, gm, struck_, new)
  BY <1>0 DEF HandlesTyped
<1>3. HandlesMade(hp, md, struck_)
  <2>1. hp[h] # "unused"
    OBVIOUS
  <2> QED
    BY <1>0, <2>1 DEF HandlesMade
<1>4. DueOK(hp, ld, new)
  <2> SUFFICES ASSUME NEW u \in Threads
               PROVE  /\ \A g \in Due(new[u]) : g \notin Listed(ld)
                      /\ \A g \in Ahead(new[u]) : hp[g] # "unused"
    BY DEF DueOK
  <2>1. CASE u = t
    BY <1>1, <2>1
  <2>2. CASE u # t
    BY <1>0, <1>1, <2>2 DEF DueOK
  <2> QED
    BY <2>1, <2>2
<1>5. OnceOK(hp, fr, gm, struck_, new)
  <2> SUFFICES ASSUME NEW g \in R!Handles \ struck_
               PROVE  /\ fr[g] = IF hp[g] = "freed" THEN 1 ELSE 0
                      /\ g \in gm => hp[g] = "live"
                      /\ \A u \in Threads : g \in Ahead(new[u]) => hp[g] = "live"
                      /\ \A u \in Threads : g \in Due(new[u]) => g \notin gm
                      /\ \A u, v \in Threads : u # v /\ g \in Ahead(new[u]) => g \notin Ahead(new[v])
    BY DEF OnceOK
  <2>1. /\ g \notin st /\ fr[g] = IF hp[g] = "freed" THEN 1 ELSE 0
        /\ g \in gm => hp[g] = "live"
        /\ \A u \in Threads : g \in Ahead(cl[u]) => hp[g] = "live"
        /\ \A u \in Threads : g \in Due(cl[u]) => g \notin gm
        /\ \A u, v \in Threads : u # v /\ g \in Ahead(cl[u]) => g \notin Ahead(cl[v])
    BY <1>0 DEF OnceOK
  <2>2. CASE g = h
    <3>1. \A u \in Threads : g \in Ahead(new[u]) => u = t
      BY <1>1, <2>2
    <3>2. \A u \in Threads : g \notin Due(new[u])
      BY <1>1, <2>2 DEF Ahead
    <3> QED
      BY <2>1, <2>2, <3>1, <3>2
  <2>3. CASE g # h
    <3>1. \A u \in Threads : /\ g \in Ahead(new[u]) => u # t /\ g \in Ahead(cl[u])
                             /\ g \in Due(new[u]) => u # t /\ g \in Due(cl[u])
      BY <1>1, <2>3
    <3> QED
      BY <2>1, <2>3, <3>1
  <2> QED
    BY <2>2, <2>3
<1>6. OwnedOK(hp, ld, gm, new)
  <2> SUFFICES ASSUME NEW g \in R!Handles, hp[g] = "live"
               PROVE  g \in Listed(ld) \/ g \in gm \/ \E u \in Threads : g \in Ahead(new[u])
    BY DEF OwnedOK
  <2>1. g \in Listed(ld) \/ g \in gm \/ \E u \in Threads : u # t /\ g \in Ahead(cl[u])
    BY <1>0 DEF OwnedOK
  <2> QED
    BY <1>1, <2>1
<1> QED
  BY <1>0, <1>2, <1>3, <1>4, <1>5, <1>6 DEF HandlesOK

(* DisposeHandle forgets a handle, and is then due to free it.             *)
LEMMA ForgetsKeeps ==
  ASSUME NEW hp, NEW fr, NEW md, NEW ld, NEW gm, NEW st, NEW cl, NEW open,
         HandlesOK(hp, fr, md, ld, gm, st, cl, open),
         NEW t \in Threads, NEW h, Ahead(cl[t]) = {h},
         NEW new \in [Threads -> Calls], Due(new[t]) = {h}, Aim(new[t]) = {},
         \A u \in Threads : u # t => new[u] = cl[u],
         NEW kept, kept = {l \in ld : l.handle # h}, NEW own, own = gm \ {h}
  PROVE  HandlesOK(hp, fr, md, kept, own, st, new, open)
<1>0. /\ HandlesTyped(hp, fr, md, ld, gm, st, cl) /\ HandlesMade(hp, md, st)
      /\ ListOK(hp, ld, open) /\ DueOK(hp, ld, cl)
      /\ OnceOK(hp, fr, gm, st, cl) /\ OwnedOK(hp, ld, gm, cl)
  BY DEF HandlesOK
<1>1. Listed(kept) = Listed(ld) \ {h} /\ kept \subseteq ld
  BY DEF Listed
<1>2. /\ \A u \in Threads : Ahead(new[u]) = Ahead(cl[u])
      /\ \A u \in Threads : \A g \in Due(new[u]) : g = h \/ g \in Due(cl[u])
  BY DEF Ahead
<1>3. HandlesTyped(hp, fr, md, kept, own, st, new)
  BY <1>0, <1>1 DEF HandlesTyped
<1>4. ListOK(hp, kept, open)
  BY <1>0, <1>1 DEF ListOK
<1>5. DueOK(hp, kept, new)
  BY <1>0, <1>1, <1>2 DEF DueOK
<1>6. OnceOK(hp, fr, own, st, new)
  BY <1>0, <1>2 DEF OnceOK
<1>7. OwnedOK(hp, kept, own, new)
  BY <1>0, <1>1, <1>2 DEF OwnedOK
<1> QED
  BY <1>0, <1>3, <1>4, <1>5, <1>6, <1>7 DEF HandlesOK

(* A handle that is freed by a call that is due to.                        *)
LEMMA FreesKeeps ==
  ASSUME NEW hp, NEW fr, NEW md, NEW ld, NEW gm, NEW st, NEW cl, NEW open,
         HandlesOK(hp, fr, md, ld, gm, st, cl, open),
         NEW t \in Threads, NEW h \in Due(cl[t]),
         NEW new \in [Threads -> Calls], Due(new[t]) = Due(cl[t]) \ {h}, Aim(new[t]) = {},
         \A u \in Threads : u # t => new[u] = cl[u],
         NEW after, after = [hp EXCEPT ![h] = "freed"],
         NEW count, count = [fr EXCEPT ![h] = @ + 1]
  PROVE  HandlesOK(after, count, md, ld, gm, st, new, open)
<1>0. /\ HandlesTyped(hp, fr, md, ld, gm, st, cl) /\ HandlesMade(hp, md, st)
      /\ ListOK(hp, ld, open) /\ DueOK(hp, ld, cl)
      /\ OnceOK(hp, fr, gm, st, cl) /\ OwnedOK(hp, ld, gm, cl)
  BY DEF HandlesOK
<1>1. h \in R!Handles /\ hp[h] # "unused" /\ h \notin Listed(ld) /\ h \in Ahead(cl[t])
  <2>1. cl[t] \in Calls
    BY <1>0 DEF HandlesTyped
  <2>2. h \in Ahead(cl[t])
    BY DEF Ahead
  <2> QED
    BY <1>0, <2>1, <2>2, AheadIsHandles DEF DueOK
<1>2. /\ after \in [R!Handles -> {"unused", "live", "freed"}] /\ after[h] = "freed"
      /\ \A g \in R!Handles : g # h => after[g] = hp[g]
  BY <1>0, <1>1 DEF HandlesTyped
<1>3. /\ count \in [R!Handles -> Nat] /\ count[h] = fr[h] + 1
      /\ \A g \in R!Handles : g # h => count[g] = fr[g]
  BY <1>0, <1>1 DEF HandlesTyped
<1>4. \A u \in Threads : \A g : /\ g \in Ahead(new[u]) => g \in Ahead(cl[u]) /\ (u = t => g # h)
                                /\ g \in Due(new[u]) => g \in Due(cl[u])
                                /\ g \in Ahead(cl[u]) /\ g # h /\ u # t => g \in Ahead(new[u])
  BY DEF Ahead
<1>5. HandlesTyped(after, count, md, ld, gm, st, new)
  BY <1>0, <1>2, <1>3 DEF HandlesTyped
<1>6. HandlesMade(after, md, st)
  <2>1. \A g \in R!Handles : after[g] = "unused" <=> hp[g] = "unused"
    BY <1>1, <1>2
  <2> QED
    BY <1>0, <2>1 DEF HandlesMade
<1>7. ListOK(after, ld, open)
  <2>1. \A l \in ld : l.handle # h /\ l.handle \in R!Handles
    BY <1>0, <1>1 DEF Listed, HandlesTyped, Entries
  <2> QED
    BY <1>0, <1>2, <2>1 DEF ListOK
<1>8. DueOK(after, ld, new)
  <2>1. ASSUME NEW u \in Threads, NEW g \in Ahead(new[u]) PROVE after[g] # "unused"
    <3>1. g \in Ahead(cl[u]) /\ cl[u] \in Calls
      BY <1>0, <1>4 DEF HandlesTyped
    <3>2. g \in R!Handles /\ hp[g] # "unused"
      BY <1>0, <3>1, AheadIsHandles DEF DueOK
    <3> QED
      BY <1>2, <3>2
  <2> QED
    BY <1>0, <1>4, <2>1 DEF DueOK
<1>9. OnceOK(after, count, gm, st, new)
  <2> SUFFICES ASSUME NEW g \in R!Handles \ st
               PROVE  /\ count[g] = IF after[g] = "freed" THEN 1 ELSE 0
                      /\ g \in gm => after[g] = "live"
                      /\ \A u \in Threads : g \in Ahead(new[u]) => after[g] = "live"
                      /\ \A u \in Threads : g \in Due(new[u]) => g \notin gm
                      /\ \A u, v \in Threads : u # v /\ g \in Ahead(new[u]) => g \notin Ahead(new[v])
    BY DEF OnceOK
  <2>1. /\ fr[g] = IF hp[g] = "freed" THEN 1 ELSE 0
        /\ g \in gm => hp[g] = "live"
        /\ \A u \in Threads : g \in Ahead(cl[u]) => hp[g] = "live"
        /\ \A u \in Threads : g \in Due(cl[u]) => g \notin gm
        /\ \A u, v \in Threads : u # v /\ g \in Ahead(cl[u]) => g \notin Ahead(cl[v])
    BY <1>0 DEF OnceOK
  <2>2. CASE g = h
    <3>1. hp[g] = "live" /\ fr[g] = 0 /\ g \notin gm
      BY <1>1, <2>1, <2>2
    <3>2. \A u \in Threads : g \notin Ahead(new[u])
      BY <1>1, <1>4, <2>1, <2>2
    <3>3. \A u \in Threads : g \notin Due(new[u])
      BY <3>2 DEF Ahead
    <3> QED
      BY <1>2, <1>3, <2>2, <3>1, <3>2, <3>3
  <2>3. CASE g # h
    BY <1>2, <1>3, <1>4, <2>1, <2>3
  <2> QED
    BY <2>2, <2>3
<1>10. OwnedOK(after, ld, gm, new)
  <2> SUFFICES ASSUME NEW g \in R!Handles, after[g] = "live"
               PROVE  g \in Listed(ld) \/ g \in gm \/ \E u \in Threads : g \in Ahead(new[u])
    BY DEF OwnedOK
  <2>1. g # h /\ hp[g] = "live"
    BY <1>2
  <2>2. ASSUME NEW u \in Threads, g \in Ahead(cl[u]), g \notin Ahead(new[u])
        PROVE  FALSE
    <3>1. u = t /\ g \in Ahead(cl[t])
      BY <1>4, <2>1, <2>2
    <3>2. g \in Due(cl[t]) \/ g \in Aim(cl[t])
      BY <3>1 DEF Ahead
    <3>3. Aim(cl[t]) = {}
      BY DEF Due, Aim
    <3> QED
      BY <2>1, <2>2, <3>1, <3>2, <3>3 DEF Ahead
  <2> QED
    BY <1>0, <2>1, <2>2 DEF OwnedOK
<1> QED
  BY <1>5, <1>6, <1>7, <1>8, <1>9, <1>10 DEF HandlesOK

(* A handle that is made is nobody's yet.                                  *)
LEMMA NewIsNobodys ==
  ASSUME NEW hp, NEW fr, NEW md, NEW ld, NEW gm, NEW st, NEW cl, NEW open,
         HandlesOK(hp, fr, md, ld, gm, st, cl, open), MaxHandles \in Nat, md < MaxHandles
  PROVE  /\ md + 1 \in R!Handles /\ md + 1 \in 0..MaxHandles /\ hp[md + 1] = "unused"
         /\ md + 1 \notin Listed(ld) /\ md + 1 \notin st /\ fr[md + 1] = 0
         /\ \A t \in Threads : md + 1 \notin Ahead(cl[t])
<1>1. md + 1 \in R!Handles /\ md + 1 \in 0..MaxHandles /\ md + 1 > md
  BY DEF HandlesOK, HandlesTyped, R!Handles
<1>2. PICK h \in R!Handles : h = md + 1
  BY <1>1
<1>3. hp[h] = "unused" /\ h \notin st
  BY <1>1, <1>2 DEF HandlesOK, HandlesMade
<1>4. h \notin Listed(ld)
  BY <1>3 DEF HandlesOK, ListOK, Listed
<1>5. \A t \in Threads : h \notin Ahead(cl[t])
  BY <1>3 DEF HandlesOK, DueOK
<1>6. fr[h] = 0
  BY <1>3 DEF HandlesOK, OnceOK
<1> QED
  BY <1>1, <1>2, <1>3, <1>4, <1>5, <1>6

(* It is the game's, and may be on the list for a resource that was not.   *)
LEMMA MakesKeeps ==
  ASSUME NEW hp, NEW fr, NEW md, NEW ld, NEW gm, NEW st, NEW cl, NEW open,
         HandlesOK(hp, fr, md, ld, gm, st, cl, open), MaxHandles \in Nat, md < MaxHandles,
         NEW new \in [Threads -> Calls],
         \A u \in Threads : Due(new[u]) = Due(cl[u]) /\ Aim(new[u]) = Aim(cl[u]),
         NEW after, after = [hp EXCEPT ![md + 1] = "live"],
         NEW own, own = gm \cup {md + 1}, NEW list,
         \/ list = ld
         \/ \E l \in Entries : /\ l.handle = md + 1 /\ l.file \in open /\ list = ld \cup {l}
                               /\ \A m \in ld : ~(m.file = l.file /\ m.id = l.id)
  PROVE  HandlesOK(after, fr, md + 1, list, own, st, new, open)
<1>0. /\ HandlesTyped(hp, fr, md, ld, gm, st, cl) /\ HandlesMade(hp, md, st)
      /\ ListOK(hp, ld, open) /\ DueOK(hp, ld, cl)
      /\ OnceOK(hp, fr, gm, st, cl) /\ OwnedOK(hp, ld, gm, cl)
  BY DEF HandlesOK
<1>1. PICK h \in R!Handles : h = md + 1
  BY NewIsNobodys
<1>2. /\ h \in 0..MaxHandles /\ hp[h] = "unused"
      /\ h \notin Listed(ld) /\ h \notin st /\ fr[h] = 0
      /\ \A t \in Threads : h \notin Ahead(cl[t])
  BY <1>1, NewIsNobodys
<1>3. \A u \in Threads : Ahead(new[u]) = Ahead(cl[u])
  BY DEF Ahead
<1>4. /\ after \in [R!Handles -> {"unused", "live", "freed"}] /\ after[h] = "live"
      /\ \A g \in R!Handles : g # h => after[g] = hp[g]
  BY <1>0, <1>1 DEF HandlesTyped
<1>5. /\ list \subseteq Entries /\ ld \subseteq list
      /\ Listed(ld) \subseteq Listed(list) /\ \A g \in Listed(list) : g \in Listed(ld) \/ g = h
  BY <1>0, <1>1 DEF HandlesTyped, Listed
<1>6. HandlesTyped(after, fr, h, list, own, st, new)
  BY <1>0, <1>1, <1>2, <1>4, <1>5 DEF HandlesTyped
<1>7. HandlesMade(after, h, st)
  <2> SUFFICES ASSUME NEW g \in R!Handles
               PROVE  (after[g] = "unused" <=> g > h) /\ (g \in st => after[g] # "unused")
    BY DEF HandlesMade
  <2>1. (hp[g] = "unused" <=> g > md) /\ (g \in st => hp[g] # "unused")
    BY <1>0 DEF HandlesMade
  <2>2. g \in Nat /\ md \in Nat
    BY <1>0 DEF HandlesTyped, R!Handles
  <2>3. CASE g = h
    BY <1>1, <1>4, <2>2, <2>3
  <2>4. CASE g # h
    <3>1. g > h <=> g > md
      BY <1>1, <2>2, <2>4
    <3> QED
      BY <1>4, <2>1, <2>4, <3>1
  <2> QED
    BY <2>3, <2>4
<1>8. ListOK(after, list, open)
  <2>1. \A l \in ld : /\ l.handle \in R!Handles /\ l.handle # h
                      /\ hp[l.handle] = "live" /\ l.file \in open
    BY <1>0, <1>2 DEF HandlesTyped, ListOK, Listed, Entries
  <2>2. \A l, m \in ld : l.handle = m.handle \/ (l.file = m.file /\ l.id = m.id) => l = m
    BY <1>0 DEF ListOK
  <2>3. CASE list = ld
    BY <1>4, <2>1, <2>2, <2>3 DEF ListOK
  <2>4. CASE list # ld
    <3>1. PICK l \in Entries : /\ l.handle = h /\ l.file \in open /\ list = ld \cup {l}
                               /\ \A m \in ld : ~(m.file = l.file /\ m.id = l.id)
      BY <1>1, <2>4
    <3> QED
      BY <1>4, <2>1, <2>2, <3>1 DEF ListOK
  <2> QED
    BY <2>3, <2>4
<1>9. DueOK(after, list, new)
  <2> SUFFICES ASSUME NEW u \in Threads
               PROVE  /\ \A g \in Due(new[u]) : g \notin Listed(list)
                      /\ \A g \in Ahead(new[u]) : after[g] # "unused"
    BY DEF DueOK
  <2>1. /\ \A g \in Due(cl[u]) : g \notin Listed(ld) /\ g \in Ahead(cl[u])
        /\ \A g \in Ahead(cl[u]) : hp[g] # "unused" /\ g # h /\ g \in R!Handles
    <3>1. cl[u] \in Calls
      BY <1>0 DEF HandlesTyped
    <3>2. Ahead(cl[u]) \subseteq R!Handles /\ Due(cl[u]) \subseteq Ahead(cl[u])
      BY <3>1, AheadIsHandles DEF Ahead
    <3> QED
      BY <1>0, <1>2, <3>2 DEF DueOK
  <2> QED
    BY <1>3, <1>4, <1>5, <2>1
<1>10. OnceOK(after, fr, own, st, new)
  <2> SUFFICES ASSUME NEW g \in R!Handles \ st
               PROVE  /\ fr[g] = IF after[g] = "freed" THEN 1 ELSE 0
                      /\ g \in own => after[g] = "live"
                      /\ \A u \in Threads : g \in Ahead(new[u]) => after[g] = "live"
                      /\ \A u \in Threads : g \in Due(new[u]) => g \notin own
                      /\ \A u, v \in Threads : u # v /\ g \in Ahead(new[u]) => g \notin Ahead(new[v])
    BY DEF OnceOK
  <2>1. CASE g = h
    <3>1. \A u \in Threads : g \notin Ahead(new[u]) /\ g \notin Due(new[u])
      BY <1>2, <1>3, <2>1 DEF Ahead
    <3> QED
      BY <1>2, <1>4, <2>1, <3>1
  <2>2. CASE g # h
    <3>1. /\ fr[g] = IF hp[g] = "freed" THEN 1 ELSE 0
          /\ g \in gm => hp[g] = "live"
          /\ \A u \in Threads : g \in Ahead(cl[u]) => hp[g] = "live"
          /\ \A u \in Threads : g \in Due(cl[u]) => g \notin gm
          /\ \A u, v \in Threads : u # v /\ g \in Ahead(cl[u]) => g \notin Ahead(cl[v])
      BY <1>0 DEF OnceOK
    <3>2. (g \in own <=> g \in gm) /\ after[g] = hp[g]
      BY <1>1, <1>4, <2>2
    <3> QED
      BY <1>3, <3>1, <3>2
  <2> QED
    BY <2>1, <2>2
<1>11. OwnedOK(after, list, own, new)
  BY <1>0, <1>1, <1>3, <1>4, <1>5 DEF OwnedOK
<1> QED
  BY <1>1, <1>6, <1>7, <1>8, <1>9, <1>10, <1>11 DEF HandlesOK

(* Two sequences, one after the other.                                     *)
LEMMA Joined ==
  ASSUME NEW S, NEW a \in Seq(S), NEW z \in Seq(S)
  PROVE  /\ a \o z \in Seq(S) /\ Len(a \o z) = Len(a) + Len(z)
         /\ \A j \in 1..Len(a) : (a \o z)[j] = a[j]
         /\ \A j \in 1..Len(a) + Len(z) : j > Len(a) => (a \o z)[j] = z[j - Len(a)]
OBVIOUS

(* A file that is taken off the chain.                                     *)
LEMMA TakenOff ==
  ASSUME NEW S, NEW s \in Seq(S), NEW f \in R!Range(s)
  PROVE  /\ R!RemoveFirst(s, f) \in Seq(S)
         /\ R!Range(s) \ {f} \subseteq R!Range(R!RemoveFirst(s, f))
         /\ R!RemoveFirst(s, f) # <<>> => Head(R!RemoveFirst(s, f)) \in S
<1> DEFINE I == {i \in 1..Len(s) : s[i] = f}
<1>1. I # {} /\ I \subseteq Nat
  BY DEF R!Range
<1>2. PICK k \in I : \A i \in I : k <= i
  BY <1>1, LeastOf
<1>3. R!SelectInSeq(s, LAMBDA e : e = f) = k
  BY <1>1, <1>2 DEF R!SelectInSeq, R!Min
<1>4. k # 0 /\ k \in 1..Len(s) /\ s[k] = f
  BY <1>2
<1>5. PICK r : r = R!RemoveFirst(s, f)
  OBVIOUS
<1>6. r = SubSeq(s, 1, k - 1) \o SubSeq(s, k + 1, Len(s))
  BY <1>3, <1>4, <1>5 DEF R!RemoveFirst, R!RemoveAt
<1>7. PICK a, z : a = SubSeq(s, 1, k - 1) /\ z = SubSeq(s, k + 1, Len(s))
  OBVIOUS
<1>8. /\ k \in Nat /\ Len(s) \in Nat /\ k >= 1 /\ k <= Len(s)
      /\ a \in Seq(S) /\ Len(a) = k - 1 /\ \A i \in 1..k - 1 : a[i] = s[i]
  BY <1>4, <1>7
<1>9. /\ z \in Seq(S) /\ Len(z) = Len(s) - k
      /\ \A i \in k + 1..Len(s) : z[i - k] = s[i]
  <2>1. z = [j \in 1..Len(s) - k |-> s[k + j]]
    BY <1>7, <1>8
  <2>2. z \in Seq(S) /\ Len(z) = Len(s) - k
    BY <1>7, <1>8
  <2>3. \A i \in k + 1..Len(s) : i - k \in 1..Len(s) - k /\ k + (i - k) = i
    BY <1>8
  <2> QED
    BY <2>1, <2>2, <2>3
<1>10. /\ r \in Seq(S) /\ Len(r) = Len(a) + Len(z)
       /\ \A j \in 1..Len(a) : r[j] = a[j]
       /\ \A j \in 1..Len(a) + Len(z) : j > Len(a) => r[j] = z[j - Len(a)]
  <2>1. r = a \o z /\ a \in Seq(S) /\ z \in Seq(S)
    BY <1>6, <1>7, <1>8, <1>9
  <2> QED
    BY <2>1, Joined, Zenon
<1>11. \A i \in 1..k - 1 : i \in DOMAIN r /\ r[i] = s[i]
  BY <1>8, <1>9, <1>10
<1>12. ASSUME NEW i \in k + 1..Len(s)
       PROVE  i - 1 \in DOMAIN r /\ r[i - 1] = s[i]
  <2>1. /\ i - 1 \in 1..Len(a) + Len(z) /\ i - 1 > Len(a)
        /\ (i - 1) - Len(a) = i - k
    BY <1>8, <1>9
  <2>2. r[i - 1] = z[(i - 1) - Len(a)]
    BY <1>10, <2>1
  <2>3. i - 1 \in DOMAIN r
    BY <1>10, <2>1
  <2>4. z[(i - 1) - Len(a)] = z[i - k]
    BY <2>1
  <2>5. z[i - k] = s[i]
    BY <1>9
  <2> QED
    BY <2>2, <2>3, <2>4, <2>5
<1>13. ASSUME NEW g \in R!Range(s) \ {f} PROVE g \in R!Range(r)
  <2>1. PICK i \in 1..Len(s) : s[i] = g
    BY DEF R!Range
  <2>2. i \in 1..k - 1 \/ i \in k + 1..Len(s)
    BY <1>4, <1>8, <2>1
  <2>3. \E j \in DOMAIN r : r[j] = g
    BY <1>11, <1>12, <2>1, <2>2
  <2> QED
    BY <2>3 DEF R!Range
<1> QED
  BY <1>5, <1>10, <1>13

(* What the theorem needs: the files have their types, and handles are     *)
(* kept.                                                                   *)
ResFiles ==
  /\ holds \in [Paths -> SUBSET Ids]
  /\ path \in Seq(Paths) /\ Len(path) = next_refnum - 1
  /\ chain \in Seq(R!Refnums)
  /\ current_refnum \in R!Refnums \cup {R!SystemFile}
  /\ next_refnum \in 1..MaxFiles + 1
ResHandles ==
  HandlesOK(heap, frees, made, loaded, game, struck, res_call, R!Range(chain))
ResIntl == itl0 \in R!Handles \cup {R!NoHandle}
ResInv == ResFiles /\ ResHandles /\ ResIntl

(* What is pending is ahead of some call, and what is disposed of directly *)
(* is aimed at.                                                            *)
LEMMA PendingIsAhead ==
  ASSUME ResHandles
  PROVE  /\ \A h : h \in R!Pending <=> \E t \in Threads : h \in Ahead(res_call[t])
         /\ R!Direct = Aimed(res_call)
<1>1. \A t \in Threads : res_call[t] \in Calls
  BY DEF ResHandles, HandlesOK, HandlesTyped
<1>2. ASSUME NEW t \in Threads
      PROVE  R!Disposing(t) \cup R!Closing(t) = Ahead(res_call[t])
  <2>1. res_call[t].at = "disposing" => res_call[t].direct \in BOOLEAN
    BY <1>1, CallIs
  <2> QED
    BY <2>1 DEF R!Disposing, R!Closing, Ahead, Due, Aim
<1>3. R!Pending = UNION {Ahead(res_call[t]) : t \in Threads}
  <2>1. \A h : (\E t \in Threads : h \in R!Disposing(t) \cup R!Closing(t)) <=>
                 \E t \in Threads : h \in Ahead(res_call[t])
    BY <1>2
  <2> QED
    BY <2>1 DEF R!Pending
<1>4. \A h : h \in R!Direct <=> \E t \in Threads : h \in Aim(res_call[t])
  BY DEF R!Direct, Aim
<1>5. R!Direct = Aimed(res_call)
  BY <1>4 DEF Aimed
<1> QED
  BY <1>3, <1>5

(* A call that is idle, or looks, is about to free nothing.                *)
LEMMA IdleIsFree ==
  ASSUME ResHandles, NEW t \in Threads
  PROVE  /\ res_call \in [Threads -> Calls] /\ res_call[t] \in Calls
         /\ R!Idle \in Calls /\ Due(R!Idle) = {} /\ Aim(R!Idle) = {}
         /\ R!IsIdle(t) \/ res_call[t].at \in {"loading", "intl", "getting"} =>
              Due(res_call[t]) = {} /\ Aim(res_call[t]) = {} /\ Ahead(res_call[t]) = {}
<1>1. /\ res_call \in [Threads -> Calls] /\ res_call[t] \in Calls /\ R!Idle \in Calls
  BY DEF ResHandles, HandlesOK, HandlesTyped, Calls
<1>2. Due(R!Idle) = {} /\ Aim(R!Idle) = {}
  BY DEF R!Idle, Due, Aim
<1>3. R!IsIdle(t) \/ res_call[t].at \in {"loading", "intl", "getting"} =>
        Due(res_call[t]) = {} /\ Aim(res_call[t]) = {} /\ Ahead(res_call[t]) = {}
  BY DEF R!IsIdle, Due, Aim, Ahead
<1> QED
  BY <1>1, <1>2, <1>3

(* Steps that leave handles and the list alone.                            *)
LEMMA SameHandles ==
  ASSUME ResHandles, NEW t \in Threads,
         UNCHANGED <<loaded, heap, made, frees, struck>>,
         R!Range(chain) \subseteq R!Range(chain'),
         game \subseteq game', game' \subseteq game \cup Listed(loaded),
         res_call' = res_call \/
           \E c \in Calls : /\ res_call' = [res_call EXCEPT ![t] = c]
                            /\ Due(c) = Due(res_call[t]) /\ Aim(c) = Aim(res_call[t])
  PROVE  ResHandles'
<1>1. PICK open, still : open = R!Range(chain) /\ still = R!Range(chain')
  OBVIOUS
<1>2. PICK own, new : own = game' /\ new = res_call'
  OBVIOUS
<1>3. HandlesOK(heap, frees, made, loaded, game, struck, res_call, open)
  BY <1>1 DEF ResHandles
<1>4. /\ new \in [Threads -> Calls]
      /\ \A u \in Threads : Due(new[u]) = Due(res_call[u]) /\ Aim(new[u]) = Aim(res_call[u])
  <2>1. res_call \in [Threads -> Calls]
    BY IdleIsFree
  <2>2. CASE res_call' = res_call
    BY <1>2, <2>1, <2>2
  <2>3. CASE res_call' # res_call
    <3>1. PICK c \in Calls : /\ new = [res_call EXCEPT ![t] = c]
                             /\ Due(c) = Due(res_call[t]) /\ Aim(c) = Aim(res_call[t])
      BY <1>2, <2>3
    <3>2. /\ new \in [Threads -> Calls] /\ new[t] = c
          /\ \A u \in Threads : u # t => new[u] = res_call[u]
      BY <2>1, <3>1, CallGoesOn
    <3> QED
      BY <3>1, <3>2
  <2> QED
    BY <2>2, <2>3
<1>5. \A l \in loaded : l.file \in still
  BY <1>1, <1>3 DEF HandlesOK, ListOK
<1>6. HandlesOK(heap, frees, made, loaded, own, struck, new, still)
  BY <1>2, <1>3, <1>4, <1>5, SameDue
<1> QED
  BY <1>1, <1>2, <1>6 DEF ResHandles

(* open_resource_file and UseResFile.                                      *)
LEMMA FilesStepsKeep ==
  ASSUME ResInv, NEW t \in Threads,
         \/ \E p \in Paths : R!FindsOpen(t, p)
         \/ R!PushesFile(t) \/ R!FindsNoFork(t) \/ R!LooksForIntl(t)
         \/ \E f \in R!Refnums \cup {R!SystemFile} : R!UseResFile(t, f)
  PROVE  ResInv'
<1>0. /\ UNCHANGED <<holds, loaded, heap, made, frees, game, struck, itl0>>
      /\ res_call' = res_call \/
         \E c \in Calls : /\ res_call' = [res_call EXCEPT ![t] = c]
                          /\ Due(c) = {} /\ Aim(c) = {}
                          /\ R!IsIdle(t) \/ res_call[t].at \in {"loading", "intl", "getting"}
  BY IdleIsFree DEF ResInv, R!FindsOpen, R!PushesFile, R!FindsNoFork, R!LooksForIntl, R!UseResFile,
     R!GoesOn, R!blocks, R!files, Calls, Due, Aim
<1>1. ResFiles' /\ R!Range(chain) \subseteq R!Range(chain')
  <2>1. CASE R!PushesFile(t)
    <3>1. /\ next_refnum <= MaxFiles /\ path' = Append(path, res_call[t].path)
          /\ chain' = <<next_refnum>> \o chain /\ current_refnum' = next_refnum
          /\ next_refnum' = next_refnum + 1 /\ holds' = holds
          /\ res_call[t].path \in Paths
      BY <2>1, IdleIsFree, CallIs DEF R!PushesFile, ResInv
    <3>2. next_refnum \in R!Refnums /\ next_refnum' \in 1..MaxFiles + 1
      BY <3>1, HandlesAreCounted DEF ResInv, ResFiles, R!Refnums
    <3>3. chain' \in Seq(R!Refnums)
      BY <3>1, <3>2 DEF ResInv, ResFiles
    <3>4. path' \in Seq(Paths) /\ Len(path') = next_refnum' - 1
      BY <3>1 DEF ResInv, ResFiles
    <3>5. R!Range(chain) \subseteq R!Range(chain')
      <4>1. chain \in Seq(R!Refnums)
        BY DEF ResInv, ResFiles
      <4>2. \A i \in DOMAIN chain : i + 1 \in DOMAIN chain' /\ chain'[i + 1] = chain[i]
        BY <3>1, <3>2, <4>1
      <4> QED
        BY <4>2 DEF R!Range
    <3> QED
      BY <3>1, <3>2, <3>3, <3>4, <3>5 DEF ResInv, ResFiles
  <2>2. CASE ~R!PushesFile(t)
    <3>1. /\ UNCHANGED <<holds, path, chain, next_refnum>>
          /\ current_refnum' \in R!Refnums \cup {R!SystemFile}
      <4>1. \A k \in DOMAIN chain : chain[k] \in R!Refnums
        BY DEF ResInv, ResFiles
      <4>2. \A f \in R!Range(chain) : f \in R!Refnums
        BY <4>1 DEF R!Range
      <4> QED
        BY <2>2, <4>1, <4>2
           DEF R!FindsOpen, R!FindsNoFork, R!LooksForIntl, R!UseResFile, R!files, ResInv, ResFiles
    <3> QED
      BY <3>1 DEF ResInv, ResFiles
  <2> QED
    BY <2>1, <2>2
<1>2. ResHandles'
  <2>1. \A c : Due(c) = {} /\ Aim(c) = {}
                 /\ (R!IsIdle(t) \/ res_call[t].at \in {"loading", "intl", "getting"}) =>
               Due(c) = Due(res_call[t]) /\ Aim(c) = Aim(res_call[t])
    BY IdleIsFree DEF ResInv
  <2> QED
    BY <1>0, <1>1, <2>1, SameHandles DEF ResInv
<1> QED
  BY <1>0, <1>1, <1>2 DEF ResInv, ResIntl

(* GetResource finds what is loaded, and gives its handle.                 *)
LEMMA GetKeeps ==
  ASSUME ResInv, NEW t \in Threads,
         \/ R!GivesLoaded(t)
         \/ /\ R!IsIdle(t) /\ \E l \in loaded : R!GoesOn(t, [at |-> "getting", found |-> l])
            /\ UNCHANGED <<holds, R!files, loaded, R!blocks, game, struck, itl0>>
  PROVE  ResInv'
<1>1. UNCHANGED <<holds, path, chain, current_refnum, next_refnum, loaded, heap, made, frees, struck, itl0>>
  BY DEF R!GivesLoaded, R!files, R!blocks
<1>2. \E c \in Calls : /\ res_call' = [res_call EXCEPT ![t] = c]
                       /\ Due(c) = {} /\ Aim(c) = {}
                       /\ R!IsIdle(t) \/ res_call[t].at = "getting"
  <2>1. CASE R!GivesLoaded(t)
    BY <2>1, IdleIsFree DEF R!GivesLoaded, R!GoesOn, ResInv
  <2>2. CASE R!IsIdle(t) /\ \E l \in loaded : R!GoesOn(t, [at |-> "getting", found |-> l])
    <3>1. PICK l \in loaded : R!GoesOn(t, [at |-> "getting", found |-> l])
      BY <2>2
    <3>2. l \in Entries
      BY DEF ResInv, ResHandles, HandlesOK, HandlesTyped
    <3>3. PICK c : c = [at |-> "getting", found |-> l]
      OBVIOUS
    <3>4. c \in Calls
      <4>1. c \in [at : {"getting"}, found : Entries]
        BY <3>2, <3>3
      <4> QED
        BY <4>1 DEF Calls
    <3>5. Due(c) = {} /\ Aim(c) = {}
      BY <3>3 DEF Due, Aim
    <3> QED
      BY <2>2, <3>1, <3>3, <3>4, <3>5 DEF R!GoesOn
  <2> QED
    BY <2>1, <2>2
<1>3. game \subseteq game' /\ game' \subseteq game \cup Listed(loaded)
  BY DEF R!GivesLoaded, Listed
<1>4. ResHandles'
  BY <1>1, <1>2, <1>3, IdleIsFree, SameHandles DEF ResInv
<1> QED
  BY <1>1, <1>4 DEF ResInv, ResFiles, ResIntl

(* CloseResFile.                                                           *)
LEMMA CloseKeeps ==
  ASSUME ResInv, NEW t \in Threads, NEW f \in R!Refnums, R!CloseResFile(t, f)
  PROVE  ResInv'
<1>1. PICK rest : rest = R!RemoveFirst(chain, f)
  OBVIOUS
<1>2. /\ chain \in Seq(R!Refnums) /\ f \in R!Range(chain)
      /\ chain' = rest /\ current_refnum' = R!CurrentAfter(f, rest)
      /\ UNCHANGED <<holds, path, next_refnum, heap, made, frees, itl0>>
  BY <1>1 DEF ResInv, ResFiles, R!CloseResFile, R!blocks
<1>3. /\ rest \in Seq(R!Refnums) /\ R!Range(chain) \ {f} \subseteq R!Range(rest)
      /\ rest # <<>> => Head(rest) \in R!Refnums
  <2>1. rest \in Seq(R!Refnums) /\ R!Range(chain) \ {f} \subseteq R!Range(rest)
    BY <1>1, <1>2, TakenOff
  <2> QED
    BY <2>1
<1>4. ResFiles'
  BY <1>2, <1>3 DEF ResInv, ResFiles, R!CurrentAfter
<1>5. PICK gone : gone = R!Dropped(f)
  OBVIOUS
<1>6. PICK c : c = [at |-> "closing", dropped |-> gone]
  OBVIOUS
<1>7. /\ R!IsIdle(t) /\ loaded' = {l \in loaded : l.file # f} /\ game' = game \ gone
      /\ struck' = struck \cup (gone \cap R!Direct)
      /\ res_call' = [res_call EXCEPT ![t] = c]
  BY <1>5, <1>6 DEF R!CloseResFile, R!Kept, R!GoesOn, R!Takes
<1>8. PICK open : open = R!Range(chain)
  OBVIOUS
<1>9. HandlesOK(heap, frees, made, loaded, game, struck, res_call, open)
  BY <1>8 DEF ResInv, ResHandles
<1>10. gone \subseteq Listed(loaded) /\ gone \subseteq R!Handles
  BY <1>5, <1>9 DEF R!Dropped, HandlesOK, HandlesTyped, Entries, Listed
<1>11. {l \in loaded : l.file # f} = {l \in loaded : l.handle \notin gone}
  <2>1. \A l, m \in loaded : l.handle = m.handle => l = m
    BY <1>9 DEF HandlesOK, ListOK
  <2> QED
    BY <1>5, <2>1 DEF R!Dropped
<1>12. c \in Calls /\ Due(c) = gone /\ Aim(c) = {}
  BY <1>6, <1>10 DEF Calls, Due, Aim
<1>13. PICK new, kept, own, struck_, still :
         /\ new = res_call' /\ kept = loaded' /\ own = game' /\ struck_ = struck'
         /\ still = R!Range(chain')
  OBVIOUS
<1>14. /\ new \in [Threads -> Calls] /\ new[t] = c
       /\ \A u \in Threads : u # t => new[u] = res_call[u]
  BY <1>7, <1>12, <1>13, IdleIsFree, CallGoesOn DEF ResInv
<1>15. Ahead(res_call[t]) = {}
  BY <1>7, IdleIsFree DEF ResInv
<1>16. \A l \in kept : l.file \in still
  <2>1. \A l \in loaded : l.file \in open
    BY <1>9 DEF HandlesOK, ListOK
  <2> QED
    BY <1>2, <1>3, <1>7, <1>8, <1>13, <2>1
<1>17. /\ kept = {l \in loaded : l.handle \notin gone} /\ own = game \ gone
       /\ struck_ = struck \cup (gone \cap Aimed(res_call))
  BY <1>7, <1>11, <1>13, PendingIsAhead DEF ResInv
<1>18. Due(new[t]) = gone /\ Aim(new[t]) = {}
  BY <1>12, <1>14
<1>19. HandlesOK(heap, frees, made, kept, own, struck_, new, still)
  BY <1>9, <1>10, <1>14, <1>15, <1>16, <1>17, <1>18, TakesKeeps
<1>20. ResHandles'
  BY <1>2, <1>13, <1>19 DEF ResHandles
<1> QED
  BY <1>2, <1>4, <1>20 DEF ResInv, ResIntl

(* A handle that its call frees.                                           *)
LEMMA FreedKeeps ==
  ASSUME ResHandles, NEW t \in Threads, NEW h \in Due(res_call[t]), NEW c \in Calls,
         R!Frees(h), res_call' = [res_call EXCEPT ![t] = c],
         Due(c) = Due(res_call[t]) \ {h}, Aim(c) = {}, UNCHANGED <<chain, loaded, game, struck>>
  PROVE  ResHandles'
<1>1. /\ heap' = [heap EXCEPT ![h] = "freed"] /\ frees' = [frees EXCEPT ![h] = @ + 1]
      /\ made' = made
  BY DEF R!Frees
<1>2. PICK open, new, after, count :
        open = R!Range(chain) /\ new = res_call' /\ after = heap' /\ count = frees'
  OBVIOUS
<1>3. HandlesOK(heap, frees, made, loaded, game, struck, res_call, open)
  BY <1>2 DEF ResHandles
<1>4. /\ new \in [Threads -> Calls] /\ new[t] = c
      /\ \A u \in Threads : u # t => new[u] = res_call[u]
  BY <1>2, IdleIsFree, CallGoesOn
<1>5. HandlesOK(after, count, made, loaded, game, struck, new, open)
  BY <1>1, <1>2, <1>3, <1>4, FreesKeeps
<1> QED
  BY <1>1, <1>2, <1>5 DEF ResHandles

(* DisposesDropped and DisposeHandle free a handle.                        *)
LEMMA FreeKeeps ==
  ASSUME ResInv, NEW t \in Threads, R!DisposesDropped(t) \/ R!DisposeHandle(t)
  PROVE  ResInv'
<1>1. /\ ResFiles' /\ ResIntl' /\ UNCHANGED <<chain, loaded, game, struck>>
  BY DEF R!DisposesDropped, R!DisposeHandle, R!files, ResInv, ResFiles, ResIntl
<1>2. ResHandles /\ res_call[t] \in Calls /\ R!Idle \in Calls /\ Due(R!Idle) = {} /\ Aim(R!Idle) = {}
  BY IdleIsFree DEF ResInv
<1>3. CASE R!DisposesDropped(t)
  <2>1. res_call[t].at = "closing" /\ Due(res_call[t]) = res_call[t].dropped /\ Aim(res_call[t]) = {}
    BY <1>3 DEF R!DisposesDropped, Due, Aim
  <2>2. ASSUME res_call[t].dropped = {}, R!GoesOn(t, R!Idle), UNCHANGED R!blocks
        PROVE  ResHandles'
    <3>1. UNCHANGED <<loaded, heap, made, frees, struck>> /\ game' = game /\ chain' = chain
      BY <1>1, <2>2 DEF R!blocks
    <3>2. res_call' = [res_call EXCEPT ![t] = R!Idle]
      BY <2>2 DEF R!GoesOn
    <3> QED
      BY <1>2, <2>1, <2>2, <3>1, <3>2, SameHandles
  <2>3. ASSUME NEW h \in res_call[t].dropped, R!Frees(h),
               R!GoesOn(t, [res_call[t] EXCEPT !.dropped = @ \ {h}])
        PROVE  ResHandles'
    <3>1. PICK c : c = [res_call[t] EXCEPT !.dropped = @ \ {h}]
      OBVIOUS
    <3>2. res_call[t] \in [at : {"closing"}, dropped : SUBSET R!Handles]
      BY <1>2, <2>1 DEF Calls, R!Idle
    <3>3. c \in Calls /\ Due(c) = Due(res_call[t]) \ {h} /\ Aim(c) = {}
      <4>1. c \in [at : {"closing"}, dropped : SUBSET R!Handles] /\ c.dropped = res_call[t].dropped \ {h}
        BY <3>1, <3>2
      <4>2. c.at = "closing" /\ c \in Calls
        BY <4>1 DEF Calls
      <4> QED
        BY <2>1, <4>1, <4>2 DEF Due, Aim
    <3>4. h \in Due(res_call[t]) /\ res_call' = [res_call EXCEPT ![t] = c]
      BY <2>1, <2>3, <3>1 DEF R!GoesOn
    <3> QED
      BY <1>1, <1>2, <2>3, <3>3, <3>4, FreedKeeps
  <2> QED
    BY <1>1, <1>3, <2>2, <2>3 DEF R!DisposesDropped, ResInv
<1>4. CASE R!DisposeHandle(t)
  <2>1. PICK h : h = res_call[t].handle
    OBVIOUS
  <2>2. /\ res_call[t].at = "freeing" /\ R!Frees(h)
        /\ res_call' = [res_call EXCEPT ![t] = R!Idle]
    BY <1>4, <2>1 DEF R!DisposeHandle, R!GoesOn
  <2>3. Due(res_call[t]) = {h}
    BY <2>1, <2>2 DEF Due
  <2>4. h \in Due(res_call[t]) /\ Due(R!Idle) = Due(res_call[t]) \ {h}
    BY <1>2, <2>3
  <2>5. ResHandles'
    BY <1>1, <1>2, <2>2, <2>4, FreedKeeps
  <2> QED
    BY <1>1, <2>5 DEF ResInv
<1> QED
  BY <1>3, <1>4

(* DisposeHandle forgets what it is to free.                               *)
LEMMA ForgetKeeps ==
  ASSUME ResInv, NEW t \in Threads, R!Forgets(t)
  PROVE  ResInv'
<1>1. /\ UNCHANGED <<holds, path, chain, current_refnum, next_refnum, heap, made, frees, struck, itl0>>
      /\ res_call[t].at = "disposing"
  BY DEF R!Forgets, R!files, R!blocks
<1>2. PICK h : h = res_call[t].handle
  OBVIOUS
<1>3. PICK c : c = [at |-> "freeing", handle |-> h]
  OBVIOUS
<1>4. /\ loaded' = loaded \ R!On(h) /\ game' = game \ {h}
      /\ res_call' = [res_call EXCEPT ![t] = c]
  BY <1>2, <1>3 DEF R!Forgets, R!GoesOn
<1>5. h \in R!Handles /\ Ahead(res_call[t]) = {h}
  <2>1. res_call[t] \in Calls
    BY IdleIsFree DEF ResInv
  <2>2. h \in R!Handles /\ res_call[t].direct \in BOOLEAN
    BY <1>1, <1>2, <2>1, CallIs
  <2> QED
    BY <1>1, <1>2, <2>2 DEF Ahead, Due, Aim
<1>6. c \in Calls /\ Due(c) = {h} /\ Aim(c) = {}
  BY <1>3, <1>5 DEF Calls, Due, Aim
<1>7. PICK open, new, kept, own :
        open = R!Range(chain) /\ new = res_call' /\ kept = loaded' /\ own = game'
  OBVIOUS
<1>8. HandlesOK(heap, frees, made, loaded, game, struck, res_call, open)
  BY <1>7 DEF ResInv, ResHandles
<1>9. /\ new \in [Threads -> Calls] /\ new[t] = c
      /\ \A u \in Threads : u # t => new[u] = res_call[u]
  BY <1>4, <1>6, <1>7, IdleIsFree, CallGoesOn DEF ResInv
<1>10. kept = {l \in loaded : l.handle # h}
  BY <1>4, <1>7 DEF R!On
<1>11. HandlesOK(heap, frees, made, kept, own, struck, new, open)
  BY <1>4, <1>5, <1>6, <1>7, <1>8, <1>9, <1>10, ForgetsKeeps
<1>12. ResHandles'
  BY <1>1, <1>7, <1>11 DEF ResHandles
<1> QED
  BY <1>1, <1>12 DEF ResInv, ResFiles, ResIntl

(* GetResource of what is not loaded, and GetIntlResource.                 *)
LEMMA MakeKeeps ==
  ASSUME ResInv, NEW t \in Threads, R!hle_handle_new,
         UNCHANGED <<holds, R!files, struck>>, game' = game \cup {made + 1},
         \/ /\ \E id \in Ids, k \in DOMAIN R!Searched : R!Loads(R!Searched[k], id)
            /\ UNCHANGED <<itl0, res_call>>
         \/ R!GetIntlResource(t)
  PROVE  ResInv'
<1>1. ResFiles' /\ chain' = chain
  BY DEF R!files, ResInv, ResFiles
<1>2. PICK open, after, own, list, new :
        /\ open = R!Range(chain) /\ after = heap' /\ own = game'
        /\ list = loaded' /\ new = res_call'
  OBVIOUS
<1>3. /\ HandlesOK(heap, frees, made, loaded, game, struck, res_call, open)
      /\ res_call \in [Threads -> Calls]
  BY <1>2, IdleIsFree DEF ResInv, ResHandles
<1>4. /\ made < MaxHandles /\ made' = made + 1 /\ after = [heap EXCEPT ![made + 1] = "live"]
      /\ frees' = frees
  BY <1>2 DEF R!hle_handle_new
<1>5. PICK h \in R!Handles : h = made + 1
  BY <1>3, <1>4, NewIsNobodys, HandlesAreCounted
<1>6. CASE /\ \E id \in Ids, k \in DOMAIN R!Searched : R!Loads(R!Searched[k], id)
           /\ UNCHANGED <<itl0, res_call>>
  <2>1. PICK id \in Ids, k \in DOMAIN R!Searched : R!Loads(R!Searched[k], id)
    BY <1>6
  <2>2. UNCHANGED <<itl0, res_call>>
    BY <1>6
  <2>3. R!Searched[k] \in R!Refnums /\ R!Searched[k] \in open
    <3>1. chain \in Seq(R!Refnums) /\ \A i \in 1..Len(chain) : chain[i] \in open
      BY <1>2 DEF ResInv, ResFiles, R!Range
    <3>2. CASE R!Searched = chain
      BY <2>1, <3>1, <3>2
    <3>3. CASE R!Searched # chain
      <4> DEFINE at == {i \in DOMAIN chain : chain[i] = current_refnum}
      <4>1. PICK first : first = CHOOSE i \in at : TRUE
        OBVIOUS
      <4>2. R!Searched = IF at = {} THEN <<>> ELSE SubSeq(chain, first, Len(chain))
        BY <3>3, <4>1 DEF R!Searched
      <4>3. at # {} /\ first \in DOMAIN chain
        BY <2>1, <4>1, <4>2
      <4>4. R!Searched = SubSeq(chain, first, Len(chain)) /\ first \in 1..Len(chain)
        <5>1. DOMAIN chain = 1..Len(chain)
          BY <3>1
        <5> HIDE DEF at
        <5> QED
          BY <4>2, <4>3, <5>1
      <4>5. k \in 1..Len(chain) - first + 1 /\ R!Searched[k] = chain[first + k - 1]
        BY <2>1, <3>1, <4>4
      <4>6. first + k - 1 \in 1..Len(chain)
        BY <3>1, <4>4, <4>5
      <4> QED
        BY <3>1, <4>5, <4>6
    <3> QED
      BY <3>2, <3>3
  <2>4. PICK f : f = R!Searched[k]
    OBVIOUS
  <2>5. PICK l : l = [handle |-> h, file |-> f, id |-> id]
    OBVIOUS
  <2>6. l \in Entries /\ l.handle = made + 1 /\ l.file \in open
    BY <1>5, <2>3, <2>4, <2>5 DEF Entries
  <2>7. list = loaded \cup {l} /\ \A m \in loaded : ~(m.file = l.file /\ m.id = l.id)
    BY <1>2, <1>5, <2>1, <2>4, <2>5 DEF R!Loads, R!Loaded
  <2>8. HandlesOK(after, frees, made + 1, list, own, struck, res_call, open)
    BY <1>2, <1>3, <1>4, <2>6, <2>7, MakesKeeps, HandlesAreCounted
  <2>9. ResHandles'
    BY <1>1, <1>2, <1>4, <2>2, <2>8 DEF ResHandles
  <2> QED
    BY <1>1, <2>2, <2>9 DEF ResInv, ResIntl
<1>7. CASE R!GetIntlResource(t)
  <2>1. /\ res_call[t].at = "intl" /\ itl0' = h
        /\ res_call' = [res_call EXCEPT ![t] = R!Idle] /\ loaded' = loaded
    BY <1>5, <1>7 DEF R!GetIntlResource, R!GoesOn
  <2>2. /\ new \in [Threads -> Calls] /\ new[t] = R!Idle
        /\ \A u \in Threads : u # t => new[u] = res_call[u]
    BY <1>2, <1>3, <2>1, IdleIsFree, CallGoesOn DEF ResInv
  <2>3. \A u \in Threads : Due(new[u]) = Due(res_call[u]) /\ Aim(new[u]) = Aim(res_call[u])
    <3>1. /\ Due(R!Idle) = {} /\ Aim(R!Idle) = {}
          /\ Due(res_call[t]) = {} /\ Aim(res_call[t]) = {}
      BY <2>1, IdleIsFree DEF ResInv
    <3> QED
      BY <2>2, <3>1
  <2>4. HandlesOK(after, frees, made + 1, list, own, struck, new, open)
    <3>1. list = loaded /\ own = game \cup {made + 1}
      BY <1>2, <2>1
    <3>2. /\ HandlesOK(heap, frees, made, loaded, game, struck, res_call, open)
          /\ made < MaxHandles /\ after = [heap EXCEPT ![made + 1] = "live"]
      BY <1>3, <1>4
    <3>3. /\ new \in [Threads -> Calls] /\ MaxHandles \in Nat
          /\ \A u \in Threads : Due(new[u]) = Due(res_call[u]) /\ Aim(new[u]) = Aim(res_call[u])
      BY <2>2, <2>3, HandlesAreCounted
    <3> QED
      BY <3>1, <3>2, <3>3, MakesKeeps
  <2>5. ResHandles'
    BY <1>1, <1>2, <1>4, <2>4 DEF ResHandles
  <2> QED
    BY <1>1, <2>1, <2>5 DEF ResInv, ResIntl
<1> QED
  BY <1>6, <1>7

(* GetResource and GetIntlResource.                                        *)
LEMMA GivesKeep ==
  ASSUME ResInv, NEW t \in Threads,
         (\E id \in Ids : R!GetResource(t, id)) \/ R!GetIntlResource(t) \/ R!GivesLoaded(t)
  PROVE  ResInv'
<1>1. CASE R!GivesLoaded(t)
  BY <1>1, GetKeeps
<1>2. CASE R!GetIntlResource(t)
  <2>1. R!hle_handle_new /\ UNCHANGED <<holds, R!files, struck>> /\ game' = game \cup {made + 1}
    BY <1>2 DEF R!GetIntlResource
  <2> QED
    BY <1>2, <2>1, MakeKeeps
<1>3. CASE \E id \in Ids : R!GetResource(t, id)
  <2>1. PICK id \in Ids : R!GetResource(t, id)
    BY <1>3
  <2>2. PICK k \in DOMAIN R!Searched :
          \/ /\ R!Loads(R!Searched[k], id) /\ game' = game \cup {made + 1} /\ UNCHANGED res_call
          \/ /\ \E l \in R!Loaded(R!Searched[k], id) :
                  R!GoesOn(t, [at |-> "getting", found |-> l])
             /\ UNCHANGED <<loaded, R!blocks, game>>
    BY <2>1 DEF R!GetResource
  <2>3. R!IsIdle(t) /\ UNCHANGED <<holds, R!files, struck, itl0>>
    BY <2>1 DEF R!GetResource
  <2>4. CASE R!Loads(R!Searched[k], id) /\ game' = game \cup {made + 1} /\ UNCHANGED res_call
    <3>1. R!hle_handle_new
      BY <2>4 DEF R!Loads
    <3> QED
      BY <2>3, <2>4, <3>1, MakeKeeps
  <2>5. CASE /\ \E l \in R!Loaded(R!Searched[k], id) : R!GoesOn(t, [at |-> "getting", found |-> l])
             /\ UNCHANGED <<loaded, R!blocks, game>>
    <3>1. \E l \in loaded : R!GoesOn(t, [at |-> "getting", found |-> l])
      BY <2>5 DEF R!Loaded
    <3>2. UNCHANGED <<holds, R!files, loaded, R!blocks, game, struck, itl0>>
      BY <2>3, <2>5
    <3> QED
      BY <2>3, <3>1, <3>2, GetKeeps
  <2> QED
    BY <2>2, <2>4, <2>5
<1> QED
  BY <1>1, <1>2, <1>3

(* ReleaseResource, DetachResource, and DisposeHandle by the game.         *)
LEMMA TakeKeeps ==
  ASSUME ResInv, NEW t \in Threads, NEW h \in R!Handles,
         R!ReleaseResource(t, h) \/ R!DetachResource(t, h) \/ R!DisposesHandle(t, h)
  PROVE  ResInv'
<1>1. /\ UNCHANGED <<holds, path, chain, current_refnum, next_refnum, heap, made, frees, itl0>>
      /\ R!IsIdle(t)
  BY DEF R!ReleaseResource, R!DetachResource, R!DisposesHandle, R!files, R!blocks
<1>2. ResFiles' /\ ResIntl'
  BY <1>1 DEF ResInv, ResFiles, ResIntl
<1>3. PICK open, new, kept, own, struck_ :
        /\ open = R!Range(chain) /\ new = res_call' /\ kept = loaded' /\ own = game'
        /\ struck_ = struck'
  OBVIOUS
<1>4. /\ HandlesOK(heap, frees, made, loaded, game, struck, res_call, open)
      /\ res_call \in [Threads -> Calls] /\ Ahead(res_call[t]) = {}
  BY <1>1, <1>3, IdleIsFree DEF ResInv, ResHandles
<1>5. R!On(h) # {} => h \in Listed(loaded)
  BY DEF R!On, Listed
<1>6. /\ loaded \ R!On(h) = {l \in loaded : l.handle # h}
      /\ loaded \ R!On(h) = {l \in loaded : l.handle \notin {h}}
  BY DEF R!On
<1>7. R!Direct = Aimed(res_call) /\ (h \in R!Pending <=> \E u \in Threads : h \in Ahead(res_call[u]))
  BY PendingIsAhead DEF ResInv
<1>8. HandlesOK(heap, frees, made, kept, own, struck_, new, open)
  <2>1. CASE R!ReleaseResource(t, h)
    <3>1. PICK c : c = [at |-> "disposing", handle |-> h, direct |-> FALSE]
      OBVIOUS
    <3>2. /\ R!On(h) # {} /\ loaded' = loaded \ R!On(h) /\ game' = game \ {h}
          /\ struck' = struck \cup ({h} \cap R!Direct)
          /\ res_call' = [res_call EXCEPT ![t] = c]
      BY <2>1, <3>1 DEF R!ReleaseResource, R!GoesOn, R!Takes
    <3>3. c \in Calls /\ Due(c) = {h} /\ Aim(c) = {}
      BY <3>1 DEF Calls, Due, Aim
    <3>4. /\ new \in [Threads -> Calls] /\ new[t] = c
          /\ \A u \in Threads : u # t => new[u] = res_call[u]
      BY <1>3, <1>4, <3>2, <3>3, CallGoesOn
    <3>5. PICK gone : gone = {h}
      OBVIOUS
    <3>6. /\ gone \subseteq Listed(loaded) /\ kept = {l \in loaded : l.handle \notin gone}
          /\ own = game \ gone /\ struck_ = struck \cup (gone \cap Aimed(res_call))
      BY <1>3, <1>5, <1>6, <1>7, <3>2, <3>5
    <3>7. \A l \in kept : l.file \in open
      BY <1>4, <3>6 DEF HandlesOK, ListOK
    <3>8. Due(new[t]) = gone /\ Aim(new[t]) = {}
      BY <3>3, <3>4, <3>5
    <3> QED
      BY <1>4, <3>4, <3>6, <3>7, <3>8, TakesKeeps
  <2>2. CASE R!DetachResource(t, h)
    <3>1. /\ R!On(h) # {} /\ loaded' = loaded \ R!On(h) /\ game' = game \cup {h}
          /\ struck' = struck \cup ({h} \cap R!Direct) /\ res_call' = res_call
      BY <2>2 DEF R!DetachResource, R!Takes
    <3>2. /\ h \in Listed(loaded) /\ kept = {l \in loaded : l.handle # h}
          /\ own = game \cup {h} /\ struck_ = struck \cup ({h} \cap Aimed(res_call))
          /\ new = res_call
      BY <1>3, <1>5, <1>6, <1>7, <3>1
    <3> QED
      BY <1>4, <3>2, DetachKeeps
  <2>3. CASE R!DisposesHandle(t, h)
    <3>1. PICK c : c = [at |-> "disposing", handle |-> h, direct |-> TRUE]
      OBVIOUS
    <3>2. /\ heap[h] = "live" /\ kept = loaded /\ own = game
          /\ struck_ = struck \cup ({h} \cap R!Pending)
          /\ res_call' = [res_call EXCEPT ![t] = c]
      BY <1>3, <2>3, <3>1 DEF R!DisposesHandle, R!GoesOn
    <3>3. c \in Calls /\ Due(c) = {} /\ Aim(c) = {h}
      BY <3>1 DEF Calls, Due, Aim
    <3>4. /\ new \in [Threads -> Calls] /\ new[t] = c
          /\ \A u \in Threads : u # t => new[u] = res_call[u]
      BY <1>3, <1>4, <3>2, <3>3, CallGoesOn
    <3>5. /\ struck_ \subseteq struck \cup {h} /\ struck \subseteq struck_
          /\ (\E u \in Threads : h \in Ahead(res_call[u])) => h \in struck_
      BY <1>7, <3>2
    <3>6. Due(new[t]) = {} /\ Aim(new[t]) = {h}
      BY <3>3, <3>4
    <3>7. Ahead(res_call[t]) = {}
      BY <2>3, IdleIsFree DEF R!DisposesHandle, ResInv
    <3>8. /\ HandlesOK(heap, frees, made, loaded, game, struck, res_call, open)
          /\ heap[h] = "live" /\ new \in [Threads -> Calls]
          /\ \A u \in Threads : u # t => new[u] = res_call[u]
      BY <1>4, <3>2, <3>4
    <3>9. HandlesOK(heap, frees, made, loaded, game, struck_, new, open)
      BY <3>5, <3>6, <3>7, <3>8, AimsKeeps
    <3> QED
      BY <3>2, <3>9
  <2> QED
    BY <2>1, <2>2, <2>3
<1>9. ResHandles'
  BY <1>1, <1>3, <1>8 DEF ResHandles
<1> QED
  BY <1>2, <1>9 DEF ResInv

(* Any step, the start, and what it says.                                  *)
LEMMA ResKept ==
  ASSUME ResInv, [R!Next]_(R!vars)
  PROVE  ResInv'
<1>1. CASE UNCHANGED R!vars
  BY <1>1 DEF R!vars, R!files, R!blocks, ResInv, ResFiles, ResHandles, ResIntl
<1>2. CASE R!Next
  <2>1. PICK t \in Threads :
          \/ \E p \in Paths : R!FindsOpen(t, p)
          \/ R!PushesFile(t) \/ R!FindsNoFork(t)
          \/ \E f \in R!Refnums : R!CloseResFile(t, f)
          \/ \E f \in R!Refnums \cup {R!SystemFile} : R!UseResFile(t, f)
          \/ R!DisposesDropped(t)
          \/ (\E id \in Ids : R!GetResource(t, id)) \/ R!GivesLoaded(t)
          \/ \E h \in R!Handles :
               R!ReleaseResource(t, h) \/ R!DetachResource(t, h) \/ R!DisposesHandle(t, h)
          \/ R!Forgets(t) \/ R!DisposeHandle(t) \/ R!LooksForIntl(t) \/ R!GetIntlResource(t)
    BY <1>2 DEF R!Next
  <2> QED
    BY <2>1, FilesStepsKeep, CloseKeeps, FreeKeeps, ForgetKeeps, GivesKeep, TakeKeeps
<1> QED
  BY <1>1, <1>2

(* At the start no file is open and no handle made.                        *)
LEMMA ResStart == ASSUME R!Init PROVE ResInv
<1>1. ResFiles
  BY HandlesAreCounted DEF R!Init, ResFiles, R!SystemFile
<1>2. ResIntl
  BY DEF R!Init, ResIntl
<1>3. HandlesOK(heap, frees, made, loaded, game, struck, res_call, R!Range(chain))
  <2>1. /\ heap = [h \in R!Handles |-> "unused"] /\ frees = [h \in R!Handles |-> 0]
        /\ made = 0 /\ loaded = {} /\ game = {} /\ struck = {}
    BY DEF R!Init
  <2>2. res_call \in [Threads -> Calls] /\ \A t \in Threads : Ahead(res_call[t]) = {} /\ Due(res_call[t]) = {}
    BY DEF R!Init, Calls, Ahead, Due, Aim, R!Idle
  <2>3. 0 \in 0..MaxHandles /\ \A h \in R!Handles : h > 0
    BY HandlesAreCounted DEF R!Handles
  <2>4. HandlesTyped(heap, frees, made, loaded, game, struck, res_call)
    BY <2>1, <2>2, <2>3 DEF HandlesTyped
  <2> QED
    BY <2>1, <2>2, <2>3, <2>4
       DEF HandlesOK, HandlesMade, ListOK, DueOK, OnceOK, OwnedOK, Listed
<1> QED
  BY <1>1, <1>2, <1>3 DEF ResInv, ResHandles

(* Then what GetResource finds on its list is good, no handle is lost, and *)
(* each is freed once.                                                     *)
LEMMA ResKeepsHandles == ASSUME ResInv PROVE R!TypeOK /\ R!HandlesAreKept
<1>1. HandlesOK(heap, frees, made, loaded, game, struck, res_call, R!Range(chain))
  BY DEF ResInv, ResHandles
<1>2. R!TypeOK
  <2>1. R!Records = Entries
    BY DEF R!Records, Entries
  <2>2. \A t \in Threads :
          res_call[t] \in {R!Idle, [at |-> "intl"]} \cup [at : {"loading"}, path : Paths]
            \cup [at : {"closing"}, dropped : SUBSET R!Handles]
            \cup [at : {"getting"}, found : R!Records]
            \cup [at : {"disposing"}, handle : R!Handles, direct : BOOLEAN]
            \cup [at : {"freeing"}, handle : R!Handles]
    BY <1>1, <2>1 DEF HandlesOK, HandlesTyped, Calls
  <2>3. /\ loaded \subseteq R!Records
        /\ heap \in [R!Handles -> {"unused", "live", "freed"}] /\ frees \in [R!Handles -> Nat]
        /\ made \in 0..MaxHandles /\ game \subseteq R!Handles /\ struck \subseteq R!Handles
    BY <1>1, <2>1 DEF HandlesOK, HandlesTyped
  <2> QED
    BY <2>2, <2>3 DEF ResInv, ResFiles, ResIntl, R!TypeOK
<1>3. R!ListIsGood
  BY <1>1 DEF HandlesOK, ListOK, R!ListIsGood
<1>4. R!NoneIsLost
  <2>1. \A h \in R!Handles : h \in Listed(loaded) => R!On(h) # {}
    BY DEF Listed, R!On
  <2>2. \A h : h \in R!Pending <=> \E t \in Threads : h \in Ahead(res_call[t])
    BY PendingIsAhead DEF ResInv
  <2> QED
    BY <1>1, <2>1, <2>2 DEF HandlesOK, OwnedOK, R!NoneIsLost
<1>5. R!OneFrees
  BY <1>1 DEF HandlesOK, OnceOK, R!OneFrees
<1> QED
  BY <1>2, <1>3, <1>4, <1>5 DEF R!HandlesAreKept

-----------------------------------------------------------------------------
(* Forks: what holds a descriptor.                                         *)
ForkEntries ==
  [in_use : BOOLEAN, fd : F!Fds, writable : BOOLEAN, mark : F!Positions, of : F!Ofs]
ForkCalls ==
  {F!Idle}
    \cup [at : {"opening"}, fd : F!Fds, writable : BOOLEAN, of : F!Ofs]
    \cup [at : {"read", "write"}, fork : F!Slots, fd : F!Fds, of : F!Ofs,
          position : F!Positions, count : Counts, closed : BOOLEAN]
    \cup [at : {"moves"}, fork : F!Slots, of : F!Ofs, to : F!Positions, closed : BOOLEAN]

InTable(fk, i, d) == fk[i].in_use /\ fk[i].fd = d
Opening(cl, t, d) == cl[t].at = "opening" /\ cl[t].fd = d
Unclosed(c) == c.at \in {"read", "write", "moves"} /\ ~c.closed

(* A descriptor that is open is held once, for what it is open on.         *)
Held(fk, ds, cl) ==
  /\ fk \in [F!Slots -> ForkEntries] /\ ds \in [Descriptors -> F!Ofs]
  /\ cl \in [Threads -> ForkCalls]
  /\ \A i \in F!Slots : fk[i].in_use =>
       fk[i].of # F!Nothing /\ (fk[i].fd \in Descriptors => ds[fk[i].fd] = fk[i].of)
  /\ \A t \in Threads : cl[t].at = "opening" =>
       cl[t].of # F!Nothing /\ (cl[t].fd \in Descriptors => ds[cl[t].fd] = cl[t].of)
  /\ \A i, j \in F!Slots, d \in Descriptors : InTable(fk, i, d) /\ InTable(fk, j, d) => i = j
  /\ \A t, u \in Threads, d \in Descriptors : Opening(cl, t, d) /\ Opening(cl, u, d) => t = u
  /\ \A i \in F!Slots, t \in Threads, d \in Descriptors :
       ~(InTable(fk, i, d) /\ Opening(cl, t, d))
  /\ \A d \in Descriptors : ds[d] # F!Nothing =>
       (\E i \in F!Slots : InTable(fk, i, d)) \/ \E t \in Threads : Opening(cl, t, d)

(* A call whose fork was not closed is on the one its number was opened for. *)
Reached(fk, cl) ==
  \A t \in Threads : Unclosed(cl[t]) =>
    /\ fk[cl[t].fork].in_use /\ fk[cl[t].fork].of = cl[t].of
    /\ cl[t].at # "moves" => fk[cl[t].fork].fd = cl[t].fd

(* A call by its kind.                                                     *)
LEMMA ForkCallIs ==
  ASSUME NEW c \in ForkCalls
  PROVE  /\ c.at \in {"idle", "opening", "read", "write", "moves"}
         /\ c.at = "opening" => c.fd \in F!Fds /\ c.writable \in BOOLEAN /\ c.of \in F!Ofs
         /\ c.at \in {"read", "write"} =>
              /\ c.fork \in F!Slots /\ c.fd \in F!Fds /\ c.of \in F!Ofs
              /\ c.position \in F!Positions /\ c.count \in Counts
         /\ c.at = "moves" => c.fork \in F!Slots /\ c.of \in F!Ofs /\ c.to \in F!Positions
         /\ c.at \in {"read", "write", "moves"} => c.closed \in BOOLEAN
BY DEF ForkCalls, F!Idle

(* A fork call that goes on to c.                                          *)
LEMMA ForkGoesOn ==
  ASSUME NEW cl \in [Threads -> ForkCalls], NEW t \in Threads, NEW c \in ForkCalls,
         NEW new, new = [cl EXCEPT ![t] = c]
  PROVE  /\ new \in [Threads -> ForkCalls] /\ new[t] = c
         /\ \A u \in Threads : u # t => new[u] = cl[u]
OBVIOUS

(* -1 is nobody's descriptor.                                              *)
LEMMA NoDescriptor == F!NoFd \notin Descriptors /\ F!NoFd \in F!Fds
BY ForksAreCounted DEF F!NoFd, F!Fds

(* Forks of which at most the mark is another; and a call that ends, or    *)
(* that has read or written and is to move the mark.                       *)
SameForks(fk, table) ==
  \A i \in F!Slots : /\ table[i].in_use = fk[i].in_use
                     /\ table[i].fd = fk[i].fd /\ table[i].of = fk[i].of
GoesFrom(c, to) ==
  \/ to = c
  \/ c.at # "opening" /\ to.at = "idle"
  \/ /\ to.at = "moves" /\ c.at \in {"read", "write"}
     /\ to.fork = c.fork /\ to.of = c.of /\ to.closed = c.closed

(* Marks move, and calls go on without opening or starting.                *)
LEMMA MarksKeep ==
  ASSUME NEW fk, NEW ds, NEW cl, Held(fk, ds, cl),
         NEW table \in [F!Slots -> ForkEntries], SameForks(fk, table),
         NEW new \in [Threads -> ForkCalls], NEW t \in Threads,
         \A u \in Threads : u # t => new[u] = cl[u], GoesFrom(cl[t], new[t])
  PROVE  Held(table, ds, new) /\ (Reached(fk, cl) => Reached(table, new))
<1>1. \A i \in F!Slots, d \in Descriptors : InTable(table, i, d) <=> InTable(fk, i, d)
  BY DEF InTable, SameForks
<1>2. \A u \in Threads, d \in Descriptors : Opening(new, u, d) <=> Opening(cl, u, d)
  BY DEF Opening, GoesFrom
<1>3. \A u \in Threads : new[u].at = "opening" => new[u] = cl[u]
  BY DEF GoesFrom
<1>4. Held(table, ds, new)
  BY <1>1, <1>2, <1>3 DEF Held, SameForks
<1>5. ASSUME Reached(fk, cl) PROVE Reached(table, new)
  <2>1. \A u \in Threads : Unclosed(new[u]) =>
          /\ Unclosed(cl[u]) /\ new[u].fork = cl[u].fork
          /\ new[u].of = cl[u].of /\ new[u].fork \in F!Slots
    BY ForkCallIs DEF GoesFrom, Unclosed
  <2>2. \A u \in Threads : Unclosed(new[u]) /\ new[u].at # "moves" => new[u] = cl[u]
    BY DEF GoesFrom, Unclosed
  <2> QED
    BY <1>5, <2>1, <2>2 DEF Reached, SameForks
<1> QED
  BY <1>4, <1>5

(* A call starts on a fork.                                                *)
LEMMA StartKeeps ==
  ASSUME NEW fk, NEW ds, NEW cl, Held(fk, ds, cl), NEW t \in Threads, NEW i \in F!Slots,
         cl[t].at = "idle", fk[i].in_use,
         NEW new \in [Threads -> ForkCalls], \A u \in Threads : u # t => new[u] = cl[u],
         new[t].at \in {"read", "write"}, new[t].fork = i,
         new[t].fd = fk[i].fd, new[t].of = fk[i].of
  PROVE  /\ Held(fk, ds, new)
         /\ Reached(fk, cl) => Reached(fk, new)
<1>1. \A u \in Threads, d \in Descriptors : Opening(new, u, d) <=> Opening(cl, u, d)
  BY DEF Opening
<1>2. \A u \in Threads : new[u].at = "opening" => new[u] = cl[u]
  OBVIOUS
<1>3. Held(fk, ds, new)
  BY <1>1, <1>2 DEF Held
<1>4. ASSUME Reached(fk, cl) PROVE Reached(fk, new)
  BY <1>4 DEF Reached
<1> QED
  BY <1>3, <1>4

(* A file is opened, by a descriptor that was free or by none.             *)
LEMMA OpenKeeps ==
  ASSUME NEW fk, NEW ds, NEW cl, Held(fk, ds, cl), NEW t \in Threads, cl[t].at = "idle",
         NEW new \in [Threads -> ForkCalls], \A u \in Threads : u # t => new[u] = cl[u],
         new[t].at = "opening", new[t].of # F!Nothing, NEW after,
         \/ new[t].fd = F!NoFd /\ after = ds
         \/ /\ new[t].fd \in Descriptors /\ ds[new[t].fd] = F!Nothing
            /\ after = [ds EXCEPT ![new[t].fd] = new[t].of]
  PROVE  Held(fk, after, new) /\ (Reached(fk, cl) => Reached(fk, new))
<1>1. ASSUME Reached(fk, cl) PROVE Reached(fk, new)
  <2>1. \A u \in Threads : Unclosed(new[u]) => new[u] = cl[u]
    BY DEF Unclosed
  <2> QED
    BY <1>1, <2>1 DEF Reached
<1>2. \A u \in Threads, d \in Descriptors :
        Opening(new, u, d) <=> (u # t /\ Opening(cl, u, d)) \/ (u = t /\ d = new[t].fd)
  BY DEF Opening
<1>3. new[t].of \in F!Ofs
  BY ForkCallIs
<1>4. CASE new[t].fd = F!NoFd /\ after = ds
  <2>1. \A u \in Threads, d \in Descriptors : Opening(new, u, d) <=> Opening(cl, u, d)
    BY <1>2, <1>4, NoDescriptor DEF Opening
  <2>2. \A u \in Threads : new[u].at = "opening" =>
          new[u].of # F!Nothing /\ (new[u].fd \in Descriptors => ds[new[u].fd] = new[u].of)
    BY <1>4, NoDescriptor DEF Held
  <2> QED
    BY <1>1, <1>4, <2>1, <2>2 DEF Held
<1>5. ASSUME new[t].fd \in Descriptors, ds[new[t].fd] = F!Nothing,
             after = [ds EXCEPT ![new[t].fd] = new[t].of]
      PROVE  Held(fk, after, new)
  <2>1. PICK e \in Descriptors : e = new[t].fd
    BY <1>5
  <2>2. /\ after \in [Descriptors -> F!Ofs] /\ after[e] = new[t].of
        /\ \A d \in Descriptors : d # e => after[d] = ds[d]
    BY <1>3, <1>5, <2>1 DEF Held
  <2>3. /\ \A i \in F!Slots : ~InTable(fk, i, e)
        /\ \A u \in Threads : ~Opening(cl, u, e)
    BY <1>5, <2>1 DEF Held, InTable, Opening
  <2>4. \A i \in F!Slots : fk[i].in_use =>
          fk[i].of # F!Nothing /\ (fk[i].fd \in Descriptors => after[fk[i].fd] = fk[i].of)
    BY <2>2, <2>3 DEF Held, InTable
  <2>5. \A u \in Threads : new[u].at = "opening" =>
          new[u].of # F!Nothing /\ (new[u].fd \in Descriptors => after[new[u].fd] = new[u].of)
    <3> TAKE u \in Threads
    <3>1. CASE u = t
      BY <2>1, <2>2, <3>1
    <3>2. CASE u # t
      BY <2>2, <2>3, <3>2 DEF Held, Opening
    <3> QED
      BY <3>1, <3>2
  <2>6. \A u, v \in Threads, d \in Descriptors : Opening(new, u, d) /\ Opening(new, v, d) => u = v
    BY <1>2, <2>1, <2>3 DEF Held
  <2>7. \A i \in F!Slots, u \in Threads, d \in Descriptors :
          ~(InTable(fk, i, d) /\ Opening(new, u, d))
    BY <1>2, <2>1, <2>3 DEF Held
  <2>8. \A d \in Descriptors : after[d] # F!Nothing =>
          (\E i \in F!Slots : InTable(fk, i, d)) \/ \E u \in Threads : Opening(new, u, d)
    <3> SUFFICES ASSUME NEW d \in Descriptors, after[d] # F!Nothing
                 PROVE  (\E i \in F!Slots : InTable(fk, i, d)) \/ \E u \in Threads : Opening(new, u, d)
      OBVIOUS
    <3>1. CASE d = e
      BY <1>2, <2>1, <3>1
    <3>2. CASE d # e
      <4>1. \A u \in Threads : Opening(cl, u, d) => Opening(new, u, d)
        BY <1>2 DEF Opening
      <4> QED
        BY <2>2, <3>2, <4>1 DEF Held
    <3> QED
      BY <3>1, <3>2
  <2> QED
    BY <2>2, <2>4, <2>5, <2>6, <2>7, <2>8 DEF Held
<1> QED
  BY <1>1, <1>4, <1>5

(* A thread puts what it opened in a place that was free.                  *)
LEMMA SlotKeeps ==
  ASSUME NEW fk, NEW ds, NEW cl, Held(fk, ds, cl), NEW t \in Threads, cl[t].at = "opening",
         NEW i \in F!Slots, ~fk[i].in_use,
         NEW new \in [Threads -> ForkCalls], \A u \in Threads : u # t => new[u] = cl[u],
         new[t].at = "idle", NEW e \in ForkEntries, e.in_use, e.fd = cl[t].fd, e.of = cl[t].of,
         NEW table \in [F!Slots -> ForkEntries], table[i] = e,
         \A j \in F!Slots : j # i => table[j] = fk[j]
  PROVE  Held(table, ds, new) /\ (Reached(fk, cl) => Reached(table, new))
<1>1. /\ table \in [F!Slots -> ForkEntries] /\ table[i] = e
      /\ \A j \in F!Slots : j # i => table[j] = fk[j]
  OBVIOUS
<1>2. ASSUME Reached(fk, cl) PROVE Reached(table, new)
  <2>1. \A u \in Threads : Unclosed(new[u]) =>
          new[u] = cl[u] /\ new[u].fork \in F!Slots /\ new[u].fork # i
    BY <1>2, ForkCallIs DEF Reached, Unclosed
  <2> QED
    BY <1>1, <1>2, <2>1 DEF Reached
<1>3. \A j \in F!Slots, d \in Descriptors :
        InTable(table, j, d) <=> (j # i /\ InTable(fk, j, d)) \/ (j = i /\ Opening(cl, t, d))
  BY <1>1 DEF InTable, Opening
<1>4. \A u \in Threads, d \in Descriptors : Opening(new, u, d) <=> u # t /\ Opening(cl, u, d)
  BY DEF Opening
<1>5. \A j \in F!Slots : table[j].in_use =>
        table[j].of # F!Nothing /\ (table[j].fd \in Descriptors => ds[table[j].fd] = table[j].of)
  <2> TAKE j \in F!Slots
  <2>1. CASE j = i
    BY <1>1, <2>1 DEF Held
  <2>2. CASE j # i
    BY <1>1, <2>2 DEF Held
  <2> QED
    BY <2>1, <2>2
<1>6. \A u \in Threads : new[u].at = "opening" =>
        new[u].of # F!Nothing /\ (new[u].fd \in Descriptors => ds[new[u].fd] = new[u].of)
  BY DEF Held
<1>7. \A j, k \in F!Slots, d \in Descriptors : InTable(table, j, d) /\ InTable(table, k, d) => j = k
  BY <1>3 DEF Held
<1>8. \A u, v \in Threads, d \in Descriptors : Opening(new, u, d) /\ Opening(new, v, d) => u = v
  BY <1>4 DEF Held
<1>9. \A j \in F!Slots, u \in Threads, d \in Descriptors :
        ~(InTable(table, j, d) /\ Opening(new, u, d))
  BY <1>3, <1>4 DEF Held
<1>10. \A d \in Descriptors : ds[d] # F!Nothing =>
         (\E j \in F!Slots : InTable(table, j, d)) \/ \E u \in Threads : Opening(new, u, d)
  <2> SUFFICES ASSUME NEW d \in Descriptors, ds[d] # F!Nothing
               PROVE  (\E j \in F!Slots : InTable(table, j, d)) \/ \E u \in Threads : Opening(new, u, d)
    OBVIOUS
  <2>1. ASSUME NEW j \in F!Slots, InTable(fk, j, d) PROVE InTable(table, j, d)
    BY <1>3, <2>1 DEF InTable
  <2>2. ASSUME NEW u \in Threads, Opening(cl, u, d) PROVE InTable(table, i, d) \/ Opening(new, u, d)
    BY <1>3, <1>4, <2>2
  <2> QED
    BY <2>1, <2>2 DEF Held
<1>11. ds \in [Descriptors -> F!Ofs]
  BY DEF Held
<1> QED
  BY <1>1, <1>2, <1>5, <1>6, <1>7, <1>8, <1>9, <1>10, <1>11 DEF Held

(* What held a descriptor lets go of it, and it is closed.                 *)
LEMMA CloseForkKeeps ==
  ASSUME NEW fk, NEW ds, NEW cl, Held(fk, ds, cl),
         NEW table \in [F!Slots -> ForkEntries], NEW new \in [Threads -> ForkCalls],
         NEW e \in F!Fds, NEW after, after = F!Close(e, ds),
         \/ /\ table = fk
            /\ \E t \in Threads : /\ Opening(cl, t, e) /\ new[t].at = "idle"
                                  /\ \A u \in Threads : u # t => new[u] = cl[u]
         \/ /\ \A u \in Threads :
                 new[u].at = "opening" \/ cl[u].at = "opening" => new[u] = cl[u]
            /\ \E i \in F!Slots : /\ InTable(fk, i, e) /\ ~table[i].in_use
                                  /\ \A j \in F!Slots : j # i => table[j] = fk[j]
  PROVE  Held(table, after, new)
<1>1. /\ after \in [Descriptors -> F!Ofs]
      /\ \A d \in Descriptors : after[d] = IF d = e THEN F!Nothing ELSE ds[d]
  BY DEF F!Close, Held, F!Ofs
<1>2. /\ \A j \in F!Slots : table[j].in_use => fk[j].in_use /\ table[j] = fk[j]
      /\ \A u \in Threads : new[u].at = "opening" => cl[u].at = "opening" /\ new[u] = cl[u]
  OBVIOUS
<1>3. /\ \A j \in F!Slots, d \in Descriptors : InTable(table, j, d) <=> d # e /\ InTable(fk, j, d)
      /\ \A u \in Threads, d \in Descriptors : Opening(new, u, d) <=> d # e /\ Opening(cl, u, d)
  <2>1. CASE /\ table = fk
             /\ \E t \in Threads : /\ Opening(cl, t, e) /\ new[t].at = "idle"
                                   /\ \A u \in Threads : u # t => new[u] = cl[u]
    <3>1. PICK t \in Threads : /\ Opening(cl, t, e) /\ new[t].at = "idle"
                               /\ \A u \in Threads : u # t => new[u] = cl[u]
      BY <2>1
    <3>2. \A u \in Threads, d \in Descriptors : Opening(new, u, d) <=> u # t /\ Opening(cl, u, d)
      BY <3>1 DEF Opening
    <3>3. \A d \in Descriptors : Opening(cl, t, d) <=> d = e
      BY <3>1 DEF Opening
    <3> QED
      BY <2>1, <3>1, <3>2, <3>3 DEF Held
  <2>2. CASE /\ \A u \in Threads :
                  new[u].at = "opening" \/ cl[u].at = "opening" => new[u] = cl[u]
             /\ \E i \in F!Slots : /\ InTable(fk, i, e) /\ ~table[i].in_use
                                   /\ \A j \in F!Slots : j # i => table[j] = fk[j]
    <3>1. PICK i \in F!Slots : /\ InTable(fk, i, e) /\ ~table[i].in_use
                               /\ \A j \in F!Slots : j # i => table[j] = fk[j]
      BY <2>2
    <3>2. \A j \in F!Slots, d \in Descriptors : InTable(table, j, d) <=> j # i /\ InTable(fk, j, d)
      BY <3>1 DEF InTable
    <3>3. \A d \in Descriptors : InTable(fk, i, d) <=> d = e
      BY <3>1 DEF InTable
    <3>4. \A u \in Threads, d \in Descriptors : Opening(new, u, d) <=> Opening(cl, u, d)
      BY <2>2 DEF Opening
    <3> QED
      BY <3>1, <3>2, <3>3, <3>4 DEF Held
  <2> QED
    BY <2>1, <2>2
<1>4. \A i \in F!Slots : table[i].in_use =>
        table[i].of # F!Nothing /\ (table[i].fd \in Descriptors => after[table[i].fd] = table[i].of)
  BY <1>1, <1>2, <1>3 DEF Held, InTable
<1>5. \A t \in Threads : new[t].at = "opening" =>
        new[t].of # F!Nothing /\ (new[t].fd \in Descriptors => after[new[t].fd] = new[t].of)
  BY <1>1, <1>2, <1>3 DEF Held, Opening
<1>6. \A d \in Descriptors : after[d] # F!Nothing =>
        (\E i \in F!Slots : InTable(table, i, d)) \/ \E t \in Threads : Opening(new, t, d)
  BY <1>1, <1>3 DEF Held
<1> QED
  BY <1>1, <1>3, <1>4, <1>5, <1>6 DEF Held

(* A held descriptor has one holder, and the others have none.             *)
LEMMA HeldIsHeld ==
  ASSUME Held(forks, fds, call) PROVE F!DescriptorsAreHeld
<1>0. \A S : F!Cardinality(S) = Cardinality(S)
  BY DEF F!Cardinality, Cardinality
<1> SUFFICES ASSUME NEW d \in Descriptors
             PROVE  Cardinality(F!Holders(d)) = IF fds[d] = F!Nothing THEN 0 ELSE 1
  BY <1>0 DEF F!DescriptorsAreHeld
<1>1. \A h : h \in F!Holders(d) <=>
        \/ \E i \in F!Slots : InTable(forks, i, d) /\ h = <<"fork", i>>
        \/ \E t \in Threads : Opening(call, t, d) /\ h = <<"thread", t>>
  BY DEF F!Holders, InTable, Opening
<1>2. CASE fds[d] = F!Nothing
  <2>1. /\ \A i \in F!Slots : ~InTable(forks, i, d)
        /\ \A t \in Threads : ~Opening(call, t, d)
    BY <1>2 DEF Held, InTable, Opening
  <2>2. F!Holders(d) = {}
    BY <1>1, <2>1
  <2> QED
    BY <1>2, <2>2, FS_EmptySet
<1>3. CASE fds[d] # F!Nothing
  <2>1. \E h : F!Holders(d) = {h}
    <3>1. CASE \E i \in F!Slots : InTable(forks, i, d)
      <4>1. PICK i \in F!Slots : InTable(forks, i, d)
        BY <3>1
      <4>2. /\ \A j \in F!Slots : InTable(forks, j, d) => j = i
            /\ \A t \in Threads : ~Opening(call, t, d)
        BY <4>1 DEF Held
      <4>3. F!Holders(d) = {<<"fork", i>>}
        BY <1>1, <4>1, <4>2
      <4> QED
        BY <4>3
    <3>2. CASE \A i \in F!Slots : ~InTable(forks, i, d)
      <4>1. PICK t \in Threads : Opening(call, t, d)
        BY <1>3, <3>2 DEF Held
      <4>2. \A u \in Threads : Opening(call, u, d) => u = t
        BY <4>1 DEF Held
      <4>3. F!Holders(d) = {<<"thread", t>>}
        BY <1>1, <3>2, <4>1, <4>2
      <4> QED
        BY <4>3
    <3> QED
      BY <3>1, <3>2
  <2> QED
    BY <1>3, <2>1, FS_Singleton
<1> QED
  BY <1>2, <1>3

(* What is reached is the fork the number was opened for.                  *)
LEMMA ReachedIsReached ==
  ASSUME Held(forks, fds, call), Reached(forks, call) PROVE F!CallsReachTheirFork
<1> SUFFICES ASSUME NEW t \in Threads, Unclosed(call[t])
             PROVE  /\ call[t].at # "moves" /\ call[t].fd # F!NoFd =>
                         F!Under(call[t]) = call[t].of
                    /\ forks[call[t].fork].in_use /\ forks[call[t].fork].of = call[t].of
  BY DEF F!CallsReachTheirFork, Unclosed
<1>1. ASSUME call[t].at # "moves", call[t].fd # F!NoFd
      PROVE  F!Under(call[t]) = call[t].of
  <2>1. call[t].fork \in F!Slots /\ call[t].fd \in Descriptors
    BY <1>1, ForkCallIs DEF Held, F!Fds, Unclosed
  <2>2. /\ forks[call[t].fork].in_use /\ forks[call[t].fork].of = call[t].of
        /\ forks[call[t].fork].fd = call[t].fd
    BY <1>1 DEF Reached
  <2> QED
    BY <1>1, <2>1, <2>2 DEF Held, F!Under
<1> QED
  BY <1>1 DEF Reached

(* What the theorem needs: sizes are typed, descriptors are held, and      *)
(* calls whose fork is not closed reach it.                                *)
ForksInv ==
  size \in [Forked -> F!Positions] /\ Held(forks, fds, call) /\ Reached(forks, call)

(* The least free descriptor, and the least free place.                    *)
LEMMA LeastFree ==
  /\ F!Free # {} => F!Min(F!Free) \in F!Free /\ F!Min(F!Free) \in Descriptors
  /\ F!Unopened # {} => F!Min(F!Unopened) \in F!Unopened /\ F!Min(F!Unopened) \in F!Slots
<1>1. F!Free \in SUBSET Nat /\ F!Unopened \in SUBSET Nat
  <2>1. F!Slots \subseteq Nat
    BY ForksAreCounted DEF F!Slots
  <2> QED
    BY <2>1, ForksAreCounted DEF F!Free, F!Unopened
<1>2. ASSUME NEW S \in SUBSET Nat, S # {} PROVE F!Min(S) \in S
  <2>1. \E n \in S : \A m \in S : n <= m
    BY <1>2, LeastOf
  <2> QED
    BY <2>1 DEF F!Min
<1> QED
  BY <1>1, <1>2 DEF F!Free, F!Unopened

(* Lengths are positions.                                                  *)
LEMMA Lengths ==
  ASSUME ForksInv
  PROVE  /\ 0 \in F!Positions /\ MaxSize \in F!Positions
         /\ \A of \in F!Ofs : F!LengthOf(of) \in F!Positions
         /\ \A i \in F!Slots : forks[i].in_use => F!fork_size(forks[i]) \in F!Positions
         /\ \A m, n \in F!Positions : F!Least(m, n) \in F!Positions
<1>1. 0 \in F!Positions /\ MaxSize \in F!Positions
  BY ForksAreCounted DEF F!Positions
<1>2. \A of \in F!Ofs : of # F!Nothing => of.resource \in BOOLEAN /\ of.file \in Forked
  BY DEF F!Ofs
<1>3. \A of \in F!Ofs : F!LengthOf(of) \in F!Positions
  BY <1>1, <1>2 DEF F!LengthOf, ForksInv
<1>4. ASSUME NEW i \in F!Slots, forks[i].in_use PROVE F!fork_size(forks[i]) \in F!Positions
  <2>1. forks[i].of \in F!Ofs /\ forks[i].of # F!Nothing
    BY <1>4 DEF ForksInv, Held, ForkEntries
  <2> QED
    BY <1>1, <1>2, <2>1 DEF F!fork_size, ForksInv
<1> QED
  BY <1>1, <1>3, <1>4 DEF F!Least

(* A mark that moves changes nothing else of its fork.                     *)
LEMMA Marked ==
  ASSUME NEW fk \in [F!Slots -> ForkEntries], NEW i \in F!Slots, NEW m \in F!Positions,
         NEW table, table = [fk EXCEPT ![i].mark = m]
  PROVE  table \in [F!Slots -> ForkEntries] /\ SameForks(fk, table)
<1>1. [fk[i] EXCEPT !.mark = m] \in ForkEntries
  BY DEF ForkEntries
<1>2. table = [fk EXCEPT ![i] = [fk[i] EXCEPT !.mark = m]]
  OBVIOUS
<1>3. \A j \in F!Slots : j # i => table[j] = fk[j]
  BY <1>2
<1>4. table[i] = [fk[i] EXCEPT !.mark = m] /\ fk[i] \in ForkEntries
  BY <1>2
<1>5. /\ table[i].in_use = fk[i].in_use
      /\ table[i].fd = fk[i].fd /\ table[i].of = fk[i].of
  BY <1>4 DEF ForkEntries
<1> QED
  BY <1>1, <1>2, <1>3, <1>5 DEF SameForks

(* Calls that move marks and sizes only.                                   *)
LEMMA MarkStepsKeep ==
  ASSUME ForksInv, NEW t \in Threads,
         \/ F!Reads(t) \/ F!Writes(t) \/ F!MovesMark(t)
         \/ \E i \in F!Slots, mode \in F!Modes, offset \in Offsets :
              F!FSSetForkSize(t, i, mode, offset) \/ F!FSSetForkPosition(t, i, mode, offset)
  PROVE  ForksInv'
<1>0. /\ forks \in [F!Slots -> ForkEntries] /\ fds \in [Descriptors -> F!Ofs]
      /\ call \in [Threads -> ForkCalls] /\ call[t] \in ForkCalls
      /\ size \in [Forked -> F!Positions] /\ F!Nothing \in F!Ofs
      /\ F!Idle \in ForkCalls /\ F!Idle.at = "idle"
  BY DEF ForksInv, Held, F!Ofs, ForkCalls, F!Idle
<1>1. UNCHANGED fds
  BY DEF F!Reads, F!Writes, F!MovesMark, F!FSSetForkSize, F!FSSetForkPosition
<1>2. ASSUME NEW table, NEW i \in F!Slots, NEW m \in F!Positions,
             table = forks \/ table = [forks EXCEPT ![i].mark = m], forks' = table,
             NEW c \in ForkCalls, call' = call \/ call' = [call EXCEPT ![t] = c],
             call' = call \/ GoesFrom(call[t], c),
             size' \in [Forked -> F!Positions]
      PROVE  ForksInv'
  <2>1. table \in [F!Slots -> ForkEntries] /\ SameForks(forks, table)
    <3>1. table = forks => SameForks(forks, table)
      BY DEF SameForks
    <3> QED
      BY <1>0, <1>2, <3>1, Marked
  <2>2. PICK new : new = call'
    OBVIOUS
  <2>3. /\ new \in [Threads -> ForkCalls] /\ (new[t] = call[t] \/ new[t] = c)
        /\ \A u \in Threads : u # t => new[u] = call[u]
    BY <1>0, <1>2, <2>2, ForkGoesOn
  <2>4. GoesFrom(call[t], new[t])
    <3>1. GoesFrom(call[t], call[t])
      BY DEF GoesFrom
    <3> QED
      BY <1>2, <2>2, <2>3, <3>1
  <2>5. Held(forks, fds, call)
    BY DEF ForksInv
  <2>6. Held(table, fds, new) /\ (Reached(forks, call) => Reached(table, new))
    BY <2>1, <2>3, <2>4, <2>5, MarksKeep
  <2> QED
    BY <1>1, <1>2, <2>2, <2>6 DEF ForksInv
<1>3. CASE F!Slots = {}
  <2>1. call[t].at \notin {"read", "write", "moves"}
    BY <1>0, <1>3, ForkCallIs
  <2> QED
    BY <1>3, <2>1 DEF F!Reads, F!Writes, F!MovesMark
<1>4. ASSUME NEW done, F!Moves(t, done), call[t].at \in {"read", "write"},
             call[t].position + done \in F!Positions
      PROVE  \E c \in ForkCalls :
               call' = [call EXCEPT ![t] = c] /\ GoesFrom(call[t], c)
  <2>1. PICK c : c = [at |-> "moves", fork |-> call[t].fork, of |-> call[t].of,
                      to |-> call[t].position + done, closed |-> call[t].closed]
    OBVIOUS
  <2>2. call[t].fork \in F!Slots /\ call[t].of \in F!Ofs /\ call[t].closed \in BOOLEAN
    BY <1>0, <1>4, ForkCallIs
  <2>3. c \in ForkCalls
    BY <1>4, <2>1, <2>2 DEF ForkCalls
  <2>4. call' = [call EXCEPT ![t] = c]
    BY <1>0, <1>4, <2>1 DEF F!Moves
  <2> QED
    BY <1>4, <2>1, <2>3, <2>4 DEF GoesFrom
<1>5. ASSUME call[t].at \in {"read", "write"}
      PROVE  F!Under(call[t]) \in F!Ofs /\ call[t].position \in F!Positions /\ call[t].count \in Nat
  <2>1. /\ call[t].fd \in F!Fds /\ call[t].position \in F!Positions /\ call[t].count \in Counts
    BY <1>0, <1>5, ForkCallIs
  <2> QED
    BY <1>0, <2>1, ForksAreCounted DEF F!Under, F!Fds
<1>6. PICK m0 \in F!Positions : m0 = 0
  BY Lengths
<1>7. CASE F!Reads(t)
  <2>1. call[t].at = "read" /\ UNCHANGED <<forks, size>>
    BY <1>7 DEF F!Reads
  <2>2. CASE call' = [call EXCEPT ![t] = F!Idle]
    BY <1>0, <1>2, <1>3, <1>6, <2>1, <2>2 DEF GoesFrom
  <2>3. CASE call' # [call EXCEPT ![t] = F!Idle]
    <3>1. PICK n : n = F!LengthOf(F!Under(call[t]))
      OBVIOUS
    <3>2. PICK done : done = F!Most(0, F!Least(call[t].count, n - call[t].position))
      OBVIOUS
    <3>3. F!Moves(t, done)
      BY <1>7, <2>3, <3>1, <3>2 DEF F!Reads
    <3>4. call[t].position + done \in F!Positions
      <4>1. n \in F!Positions /\ call[t].position \in F!Positions /\ call[t].count \in Nat
        BY <1>5, <2>1, <3>1, Lengths
      <4> QED
        BY <3>2, <4>1, ForksAreCounted DEF F!Positions, F!Most, F!Least
    <3> QED
      BY <1>0, <1>2, <1>3, <1>4, <1>6, <2>1, <3>3, <3>4
  <2> QED
    BY <2>2, <2>3
<1>8. CASE F!Writes(t)
  <2>1. call[t].at = "write" /\ UNCHANGED forks
    BY <1>8 DEF F!Writes
  <2>2. PICK of : of = F!Under(call[t])
    OBVIOUS
  <2>3. PICK done \in 0..call[t].count :
          /\ call[t].position + done <= MaxSize /\ F!Moves(t, done)
          /\ size' = IF done = 0 THEN size
                     ELSE [size EXCEPT ![of.file] = F!Most(@, call[t].position + done)]
    BY <1>8, <2>2 DEF F!Writes
  <2>4. call[t].position + done \in F!Positions
    BY <1>5, <2>1, <2>3, ForksAreCounted DEF F!Positions
  <2>5. size' \in [Forked -> F!Positions]
    <3>1. \A m, n \in F!Positions : F!Most(m, n) \in F!Positions
      BY DEF F!Most
    <3> QED
      BY <1>0, <2>3, <2>4, <3>1
  <2> QED
    BY <1>2, <1>3, <1>4, <1>6, <2>1, <2>3, <2>4, <2>5
<1>9. CASE F!MovesMark(t)
  <2>1. PICK m, i : m = call[t].to /\ i = call[t].fork
    OBVIOUS
  <2>2. /\ call[t].at = "moves" /\ call' = [call EXCEPT ![t] = F!Idle] /\ UNCHANGED size
        /\ forks' = forks \/ forks' = [forks EXCEPT ![i].mark = m]
    BY <1>9, <2>1 DEF F!MovesMark
  <2>3. i \in F!Slots /\ m \in F!Positions
    BY <1>0, <2>1, <2>2, ForkCallIs
  <2> QED
    BY <1>0, <1>2, <2>2, <2>3 DEF GoesFrom
<1>10. ASSUME NEW i \in F!Slots, NEW mode \in F!Modes, NEW offset \in Offsets,
              F!FSSetForkSize(t, i, mode, offset) \/ F!FSSetForkPosition(t, i, mode, offset)
       PROVE  ForksInv'
  <2>1. /\ call' = call /\ forks[i].in_use /\ forks[i] \in ForkEntries
    BY <1>0, <1>10 DEF F!FSSetForkSize, F!FSSetForkPosition, F!MayCall
  <2>2. PICK to \in F!resolve_position(forks[i], mode, offset) :
          \/ /\ size' = [size EXCEPT ![forks[i].of.file] = to]
             /\ forks' = [forks EXCEPT ![i].mark = F!Least(@, to)]
          \/ /\ forks' = [forks EXCEPT ![i].mark = F!Least(to, F!fork_size(forks[i]))]
             /\ size' = size
    BY <1>10 DEF F!FSSetForkSize, F!FSSetForkPosition
  <2>3. to \in F!Positions
    BY DEF F!resolve_position, F!Positions
  <2>4. size' \in [Forked -> F!Positions]
    BY <1>0, <2>2, <2>3
  <2>5. forks[i].mark \in F!Positions /\ F!fork_size(forks[i]) \in F!Positions
    BY <2>1, Lengths DEF ForkEntries
  <2>6. \E m \in F!Positions : forks' = [forks EXCEPT ![i].mark = m]
    <3>1. F!Least(forks[i].mark, to) \in F!Positions /\ F!Least(to, F!fork_size(forks[i])) \in F!Positions
      BY <2>3, <2>5, Lengths
    <3>2. [forks EXCEPT ![i].mark = F!Least(@, to)] = [forks EXCEPT ![i].mark = F!Least(forks[i].mark, to)]
      BY <1>0
    <3> QED
      BY <2>2, <3>1, <3>2
  <2> QED
    BY <1>0, <1>2, <2>1, <2>4, <2>6
<1> QED
  BY <1>7, <1>8, <1>9, <1>10

(* open_fork, as far as the file is opened.                                *)
LEMMA OpensKeep ==
  ASSUME ForksInv, NEW t \in Threads, NEW f \in Forked, NEW resource \in BOOLEAN,
         NEW writable \in BOOLEAN, F!OpensFile(t, f, resource, writable)
  PROVE  ForksInv'
<1>1. /\ call[t].at = "idle" /\ UNCHANGED <<forks, size>>
      /\ Held(forks, fds, call) /\ call \in [Threads -> ForkCalls]
  BY DEF F!OpensFile, ForksInv, Held
<1>2. PICK of : of = [file |-> f, resource |-> resource]
  OBVIOUS
<1>3. of \in F!Ofs /\ of # F!Nothing
  BY <1>2, ForksAreCounted DEF F!Ofs, F!Nothing
<1>4. PICK fd \in F!Fds :
        /\ call' = [call EXCEPT ![t] =
             [at |-> "opening", fd |-> fd, writable |-> writable, of |-> of]]
        /\ \/ fd = F!NoFd /\ fds' = fds
           \/ fd \in Descriptors /\ fds[fd] = F!Nothing /\ fds' = [fds EXCEPT ![fd] = of]
  <2>1. CASE resource /\ f \notin HasResource
    BY <1>2, <2>1, NoDescriptor DEF F!OpensFile
  <2>2. CASE ~(resource /\ f \notin HasResource)
    <3>1. F!Free # {} /\ fds' = [fds EXCEPT ![F!Min(F!Free)] = of]
          /\ call' = [call EXCEPT ![t] =
               [at |-> "opening", fd |-> F!Min(F!Free), writable |-> writable, of |-> of]]
      BY <1>2, <2>2 DEF F!OpensFile
    <3>2. F!Min(F!Free) \in Descriptors /\ fds[F!Min(F!Free)] = F!Nothing
      BY <3>1, LeastFree DEF F!Free
    <3> QED
      BY <3>1, <3>2 DEF F!Fds
  <2> QED
    BY <2>1, <2>2
<1>5. PICK c : c = [at |-> "opening", fd |-> fd, writable |-> writable, of |-> of]
  OBVIOUS
<1>6. c \in ForkCalls
  BY <1>3, <1>5 DEF ForkCalls
<1>7. PICK new, after : new = call' /\ after = fds'
  OBVIOUS
<1>8. /\ new \in [Threads -> ForkCalls] /\ new[t] = c
      /\ \A u \in Threads : u # t => new[u] = call[u]
  BY <1>1, <1>4, <1>5, <1>6, <1>7, ForkGoesOn
<1>9. /\ new[t].at = "opening" /\ new[t].of = of /\ new[t].fd = fd
      /\ \/ fd = F!NoFd /\ after = fds
         \/ fd \in Descriptors /\ fds[fd] = F!Nothing /\ after = [fds EXCEPT ![fd] = of]
  BY <1>4, <1>5, <1>7, <1>8
<1>10. Held(forks, after, new) /\ (Reached(forks, call) => Reached(forks, new))
  BY <1>1, <1>3, <1>8, <1>9, OpenKeeps
<1> QED
  BY <1>1, <1>7, <1>10 DEF ForksInv

(* open_fork, from when it looks for a place.                              *)
LEMMA TakesKeep ==
  ASSUME ForksInv, NEW t \in Threads, F!TakesSlot(t)
  PROVE  ForksInv'
<1>1. /\ call[t].at = "opening" /\ UNCHANGED size
      /\ call' = [call EXCEPT ![t] = F!Idle]
      /\ Held(forks, fds, call) /\ call \in [Threads -> ForkCalls] /\ call[t] \in ForkCalls
  BY DEF F!TakesSlot, ForksInv, Held
<1>2. F!Idle \in ForkCalls /\ F!Idle.at = "idle"
  BY DEF ForkCalls, F!Idle
<1>3. PICK new, after, table : new = call' /\ after = fds' /\ table = forks'
  OBVIOUS
<1>4. /\ new \in [Threads -> ForkCalls] /\ new[t].at = "idle"
      /\ \A u \in Threads : u # t => new[u] = call[u]
  BY <1>1, <1>2, <1>3, ForkGoesOn
<1>5. PICK e : e = call[t].fd
  OBVIOUS
<1>6. e \in F!Fds /\ call[t].writable \in BOOLEAN /\ call[t].of \in F!Ofs
  BY <1>1, <1>5, ForkCallIs
<1>7. CASE F!TooManyOpen(t) /\ UNCHANGED forks
  <2>1. after = F!Close(e, fds) /\ table = forks
    BY <1>3, <1>5, <1>7 DEF F!TooManyOpen
  <2>2. Opening(call, t, e) /\ table \in [F!Slots -> ForkEntries]
    BY <1>1, <1>5, <2>1 DEF Opening, Held
  <2>3. Held(table, after, new)
    BY <1>1, <1>4, <1>6, <2>1, <2>2, CloseForkKeeps
  <2>4. ASSUME Reached(forks, call) PROVE Reached(forks, new)
    <3>1. \A u \in Threads : Unclosed(new[u]) => new[u] = call[u]
      BY <1>4 DEF Unclosed
    <3> QED
      BY <2>4, <3>1 DEF Reached
  <2> QED
    BY <1>1, <1>3, <2>1, <2>3, <2>4 DEF ForksInv
<1>8. CASE ~(F!TooManyOpen(t) /\ UNCHANGED forks)
  <2>1. PICK i, c : i = F!Min(F!Unopened) /\ c = F!Entry(call[t])
    OBVIOUS
  <2>2. F!Unopened # {} /\ table = [forks EXCEPT ![i] = c] /\ after = fds
    BY <1>3, <1>8, <2>1 DEF F!TakesSlot
  <2>3. i \in F!Slots /\ ~forks[i].in_use
    BY <2>1, <2>2, LeastFree DEF F!Unopened
  <2>4. c \in ForkEntries /\ c.in_use /\ c.fd = call[t].fd /\ c.of = call[t].of
    BY <1>5, <1>6, <2>1, Lengths DEF ForkEntries, F!Entry
  <2>5. Held(table, fds, new) /\ (Reached(forks, call) => Reached(table, new))
    <3>1. call[t].at = "opening" /\ Held(forks, fds, call)
      BY <1>1
    <3>2. /\ table \in [F!Slots -> ForkEntries] /\ table[i] = c
          /\ \A j \in F!Slots : j # i => table[j] = forks[j]
      BY <2>2, <2>3, <2>4, <3>1 DEF Held
    <3> QED
      BY <1>4, <2>3, <2>4, <3>1, <3>2, SlotKeeps
  <2> QED
    BY <1>1, <1>3, <2>2, <2>5 DEF ForksInv
<1> QED
  BY <1>7, <1>8

(* FSReadFork and FSWriteFork, to the first unlock.                        *)
LEMMA StartsKeep ==
  ASSUME ForksInv, NEW t \in Threads, NEW i \in F!Slots, NEW what \in {"read", "write"},
         NEW mode \in F!Modes, NEW offset \in Offsets, NEW count \in Counts,
         F!Starts(t, i, what, mode, offset, count)
  PROVE  ForksInv'
<1>1. call[t].at = "idle" /\ forks[i].in_use /\ forks[i] \in ForkEntries
  BY DEF F!Starts, F!MayCall, ForksInv, Held
<1>2. PICK position \in F!resolve_position(forks[i], mode, offset) :
        call' = [call EXCEPT ![t] = [at |-> what, fork |-> i, fd |-> forks[i].fd,
                                     of |-> forks[i].of, position |-> position, count |-> count,
                                     closed |-> FALSE]]
  BY DEF F!Starts
<1>3. UNCHANGED <<forks, fds, size>> /\ Held(forks, fds, call)
      /\ call \in [Threads -> ForkCalls]
  BY DEF F!Starts, ForksInv, Held
<1>4. PICK c : c = [at |-> what, fork |-> i, fd |-> forks[i].fd,
                    of |-> forks[i].of, position |-> position, count |-> count,
                    closed |-> FALSE]
  OBVIOUS
<1>5. c \in ForkCalls
  <2>1. position \in F!Positions /\ forks[i].fd \in F!Fds /\ forks[i].of \in F!Ofs
    BY <1>1 DEF F!resolve_position, F!Positions, ForkEntries
  <2> QED
    BY <1>4, <2>1 DEF ForkCalls
<1>6. PICK new : new = call'
  OBVIOUS
<1>7. /\ new \in [Threads -> ForkCalls] /\ new[t] = c
      /\ \A u \in Threads : u # t => new[u] = call[u]
  BY <1>2, <1>3, <1>4, <1>5, <1>6, ForkGoesOn
<1>8. /\ new[t].at \in {"read", "write"} /\ new[t].fork = i
      /\ new[t].fd = forks[i].fd /\ new[t].of = forks[i].of
  BY <1>4, <1>7
<1>9. Held(forks, fds, new) /\ (Reached(forks, call) => Reached(forks, new))
  BY <1>1, <1>3, <1>7, <1>8, StartKeeps
<1> QED
  BY <1>1, <1>3, <1>6, <1>9 DEF ForksInv

(* FSCloseFork.                                                            *)
LEMMA ClosesKeep ==
  ASSUME ForksInv, NEW t \in Threads, NEW i \in F!Slots, F!FSCloseFork(t, i)
  PROVE  ForksInv'
<1>1. forks[i].in_use /\ forks[i] \in ForkEntries
  BY DEF F!FSCloseFork, F!MayCall, ForksInv, Held
<1>2. PICK table, after, e, new :
        table = forks' /\ after = fds' /\ e = forks[i].fd /\ new = call'
  OBVIOUS
<1>3. /\ after = F!Close(e, fds) /\ table = [forks EXCEPT ![i] = F!Unused]
      /\ new = [u \in Threads |-> IF F!IsOn(call[u], i)
                                 THEN [call[u] EXCEPT !.closed = TRUE] ELSE call[u]]
      /\ UNCHANGED size
      /\ Held(forks, fds, call) /\ forks \in [F!Slots -> ForkEntries]
      /\ call \in [Threads -> ForkCalls]
  BY <1>2 DEF F!FSCloseFork, ForksInv, Held
<1>4. F!Unused \in ForkEntries /\ ~F!Unused.in_use
  BY Lengths, NoDescriptor DEF F!Unused, ForkEntries, F!Ofs
<1>5. /\ table \in [F!Slots -> ForkEntries] /\ ~table[i].in_use
      /\ \A j \in F!Slots : j # i => table[j] = forks[j]
  BY <1>3, <1>4
<1>6. e \in F!Fds /\ InTable(forks, i, e)
  BY <1>1, <1>2 DEF ForkEntries, InTable
<1>7. ASSUME NEW c \in ForkCalls, F!IsOn(c, i), NEW d, d = [c EXCEPT !.closed = TRUE]
      PROVE  d \in ForkCalls /\ d.at = c.at /\ d.closed /\ c.at # "opening"
  <2>1. CASE c \in [at : {"read", "write"}, fork : F!Slots, fd : F!Fds, of : F!Ofs,
                    position : F!Positions, count : Counts, closed : BOOLEAN]
    BY <1>7, <2>1 DEF ForkCalls, F!IsOn
  <2>2. CASE c \in [at : {"moves"}, fork : F!Slots, of : F!Ofs, to : F!Positions,
                    closed : BOOLEAN]
    BY <1>7, <2>2 DEF ForkCalls, F!IsOn
  <2> QED
    BY <1>7, <2>1, <2>2 DEF ForkCalls, F!IsOn, F!Idle
<1>8. \A u \in Threads :
        \/ new[u] = call[u] /\ ~F!IsOn(call[u], i) /\ new[u] \in ForkCalls
        \/ /\ new[u] \in ForkCalls /\ new[u].at = call[u].at /\ new[u].closed
           /\ call[u].at # "opening"
  BY <1>3, <1>7
<1>9. new \in [Threads -> ForkCalls]
  BY <1>3, <1>8
<1>10. \A u \in Threads :
         new[u].at = "opening" \/ call[u].at = "opening" => new[u] = call[u]
  BY <1>8
<1>11. Held(table, after, new)
  BY <1>3, <1>5, <1>6, <1>9, <1>10, CloseForkKeeps
<1>12. \A u \in Threads : Unclosed(new[u]) =>
         new[u] = call[u] /\ new[u].fork \in F!Slots /\ new[u].fork # i
  BY <1>8, ForkCallIs DEF Unclosed, F!IsOn
<1>13. Reached(table, new)
  BY <1>5, <1>12 DEF ForksInv, Reached
<1> QED
  BY <1>2, <1>3, <1>11, <1>13 DEF ForksInv

(* Any step, and the start.                                                *)
LEMMA ForksKept ==
  ASSUME ForksInv, [F!Next]_(F!vars)
  PROVE  ForksInv'
<1>1. CASE UNCHANGED F!vars
  BY <1>1 DEF F!vars, ForksInv
<1>2. CASE F!Next
  <2>1. PICK t \in Threads :
          \/ \E f \in Forked, resource, writable \in BOOLEAN : F!OpensFile(t, f, resource, writable)
          \/ F!TakesSlot(t) \/ F!Reads(t) \/ F!Writes(t) \/ F!MovesMark(t)
          \/ \E i \in F!Slots : F!CallsFork(t, i)
    BY <1>2 DEF F!Next
  <2>2. ASSUME NEW i \in F!Slots, F!CallsFork(t, i) PROVE ForksInv'
    BY <2>2, ClosesKeep, StartsKeep, MarkStepsKeep DEF F!CallsFork
  <2> QED
    BY <2>1, <2>2, OpensKeep, TakesKeep, MarkStepsKeep
<1> QED
  BY <1>1, <1>2

(* At the start no fork is open.                                           *)
LEMMA ForksStart == ASSUME F!Init PROVE ForksInv
<1>1. 0 \in F!Positions /\ MaxSize \in F!Positions
  BY ForksAreCounted DEF F!Positions
<1>2. F!Unused \in ForkEntries /\ ~F!Unused.in_use /\ F!Nothing \in F!Ofs
  BY <1>1, NoDescriptor DEF F!Unused, ForkEntries, F!Ofs
<1>3. F!Idle \in ForkCalls /\ F!Idle.at = "idle"
  BY DEF ForkCalls, F!Idle
<1>4. /\ forks = [i \in F!Slots |-> F!Unused] /\ fds = [d \in Descriptors |-> F!Nothing]
      /\ call = [t \in Threads |-> F!Idle] /\ size \in [Forked -> F!Positions]
  BY DEF F!Init, F!Positions
<1>5. Held(forks, fds, call)
  BY <1>2, <1>3, <1>4 DEF Held, InTable, Opening
<1>6. Reached(forks, call)
  BY <1>3, <1>4 DEF Reached, Unclosed
<1> QED
  BY <1>4, <1>5, <1>6, ForksAreCounted DEF ForksInv

(* Nothing on the Resource Manager's list was freed or belongs to a closed *)
(* file, no live handle is lost or freed twice, but by the game's own      *)
(* DisposeHandle meeting another call; no descriptor leaks or is closed    *)
(* under another fork, and a call reads and writes the fork its number was *)
(* opened for, until that is closed: for any number of threads, files,     *)
(* forks and handles.                                                      *)
THEOREM HandlesKept == FilesSpec => []HandlesAreKept
<1> DEFINE Inv == (part = "resources" => ResInv) /\ (part = "forks" => ForksInv)
<1>1. FilesInit => Inv
  BY ResStart, ForksStart DEF FilesInit
<1>2. Inv /\ [FilesNext]_filesVars => Inv'
  BY FilesSteps, ResKept, ForksKept
<1>3. Inv => HandlesAreKept
  BY ResKeepsHandles, HeldIsHeld, ReachedIsReached DEF HandlesAreKept, ForksInv
<1> QED
  BY <1>1, <1>2, <1>3, PTL DEF FilesSpec

-----------------------------------------------------------------------------
(* WeakBinds: what a name is bound to.                                     *)
BindEntries == [name : WeakNames, stub : BOOLEAN]
SeenEntries == [name : WeakNames, sym : W!Addresses]

(* The instance counts as the theorems of the library do.                  *)
LEMMA SameCardinality == \A S : W!Cardinality(S) = Cardinality(S)
BY DEF W!Cardinality, Cardinality

(* A sequence that is inserted into.                                       *)
LEMMA Inserted ==
  ASSUME NEW S, NEW s \in Seq(S), NEW p \in 0..Len(s), NEW e \in S
  PROVE  W!Inserted(s, p, e) \in Seq(S)
<1>1. SubSeq(s, 1, p) \in Seq(S) /\ SubSeq(s, p + 1, Len(s)) \in Seq(S) /\ <<e>> \in Seq(S)
  OBVIOUS
<1>2. SubSeq(s, 1, p) \o <<e>> \in Seq(S)
  BY <1>1, Joined
<1> QED
  BY <1>1, <1>2, Joined DEF W!Inserted

(* The weak binds of an image are names of its own.                        *)
LEMMA BindsAreNames ==
  ASSUME NEW i \in Images, uses[i] \subseteq WeakNames, NEW b \in W!WeakBindsOf(i)
  PROVE  b \in Seq(BindEntries)
<1>1. ASSUME NEW s \in W!Orders(i) PROVE s \in Seq(WeakNames)
  <2>1. IsFiniteSet(uses[i]) /\ Cardinality(uses[i]) \in Nat
    BY FS_Subset, FS_CardinalityType, ImagesAreNumbered
  <2>2. s \in [1..Cardinality(uses[i]) -> uses[i]]
    BY <1>1, SameCardinality DEF W!Orders, W!Bijection, W!Injection
  <2> QED
    BY <2>1, <2>2
<1>2. ASSUME NEW s \in Seq(WeakNames) PROVE W!Pointers(s) \in Seq(BindEntries) /\ W!Stubs(s) \in Seq(BindEntries)
  <2>1. \A n \in WeakNames : W!Pointer(n) \in BindEntries /\ W!Stub(n) \in BindEntries
    BY DEF W!Pointer, W!Stub, BindEntries
  <2> QED
    BY <2>1 DEF W!Pointers, W!Stubs
<1>3. ASSUME NEW s \in W!PointerOrders(i) PROVE s \in Seq(WeakNames)
  <2>1. PICK l \in W!Orders(i) : s = l \/ s \in W!Twice(l)
    BY <1>3 DEF W!PointerOrders
  <2>2. l \in Seq(WeakNames)
    BY <1>1
  <2>3. CASE s \in W!Twice(l)
    <3>1. PICK p \in 0..Len(l), k \in DOMAIN l :
            s = W!Inserted(l, p, l[k])
      BY <2>3 DEF W!Twice
    <3>2. l[k] \in WeakNames
      BY <2>2
    <3> QED
      BY <2>2, <3>1, <3>2, Inserted
  <2> QED
    BY <2>1, <2>2, <2>3
<1>4. CASE classic[i]
  <2>1. b \in {W!Pointers(s) \o W!Stubs(j) : s \in W!PointerOrders(i), j \in {j \in W!Orders(i) : W!InOrder(j)}}
    BY <1>4 DEF W!WeakBindsOf
  <2>2. PICK s \in W!PointerOrders(i), j \in W!Orders(i) : b = W!Pointers(s) \o W!Stubs(j)
    BY <2>1
  <2>3. W!Pointers(s) \in Seq(BindEntries) /\ W!Stubs(j) \in Seq(BindEntries)
    BY <1>1, <1>2, <1>3
  <2> QED
    BY <2>2, <2>3, Joined
<1>5. CASE ~classic[i]
  <2>1. b \in {W!Pointers(s) : s \in {s \in W!PointerOrders(i) : W!InOrder(s)}}
    BY <1>5 DEF W!WeakBindsOf
  <2>2. PICK s \in W!PointerOrders(i) : b = W!Pointers(s)
    BY <2>1
  <2> QED
    BY <1>2, <1>3, <2>2
<1> QED
  BY <1>4, <1>5

(* Names are numbers, and what was seen of them is named.                   *)
LEMMA NamesAreNumbers ==
  /\ WeakNames \subseteq Nat /\ 0 \notin WeakNames
  /\ \A e \in SeenEntries : e.name \in WeakNames /\ e.sym \in W!Addresses /\ e.name \in Nat
BY ImagesAreNumbered DEF SeenEntries

(* Merged, a list has the entries it had.                                  *)
LEMMA MergeKeeps ==
  ASSUME NEW s \in Seq(SeenEntries), NEW middle,
         NEW merged, merged = W!inplace_merge(s, middle)
  PROVE  /\ merged \in Seq(SeenEntries) /\ Len(merged) = Len(s)
         /\ \A p \in DOMAIN s : \E k \in DOMAIN s : merged[p] = s[k]
<1> DEFINE D == DOMAIN s
           before(k) == {j \in D : \/ s[j].name < s[k].name
                                   \/ s[j].name = s[k].name /\ j < k}
           place == [k \in D |-> Cardinality(before(k)) + 1]
<1>1. /\ D = 1..Len(s) /\ Len(s) \in Nat /\ D \subseteq Nat
      /\ IsFiniteSet(D) /\ Cardinality(D) = Len(s)
  <2>1. D = 1..Len(s) /\ Len(s) \in Nat
    OBVIOUS
  <2>2. PICK n \in Nat : n = Len(s)
    BY <2>1
  <2>3. IsFiniteSet(1..n) /\ Cardinality(1..n) = IF 1 > n THEN 0 ELSE n - 1 + 1
    BY FS_Interval
  <2>4. Cardinality(1..n) = n
    BY <2>3
  <2> QED
    BY <2>1, <2>2, <2>3, <2>4
<1>2. \A k \in D : s[k] \in SeenEntries /\ s[k].name \in Nat
  BY NamesAreNumbers
<1>3. ASSUME NEW k \in D
      PROVE  /\ before(k) \in SUBSET (D \ {k}) /\ IsFiniteSet(before(k))
             /\ Cardinality(before(k)) \in 0..Len(s) - 1
  <2>1. before(k) \in SUBSET (D \ {k})
    BY <1>1, <1>2
  <2>2. IsFiniteSet(D \ {k}) /\ Cardinality(D \ {k}) = Len(s) - 1
    BY <1>1, FS_RemoveElement
  <2> HIDE DEF before
  <2>3. /\ IsFiniteSet(before(k)) /\ Cardinality(before(k)) <= Len(s) - 1
        /\ Cardinality(before(k)) \in Nat
    BY <2>1, <2>2, FS_Subset, FS_CardinalityType
  <2> QED
    BY <1>1, <2>1, <2>3
<1>4. ASSUME NEW i \in D, NEW k \in D, i \in before(k)
      PROVE  Cardinality(before(i)) < Cardinality(before(k))
  <2>1. before(i) \in SUBSET before(k)
    BY <1>1, <1>2, <1>4
  <2>2. i \notin before(i)
    BY <1>3
  <2> HIDE DEF before
  <2>3. before(i) # before(k)
    BY <1>4, <2>2
  <2>4. Cardinality(before(i)) <= Cardinality(before(k)) /\ Cardinality(before(i)) # Cardinality(before(k))
    BY <1>3, <2>1, <2>3, FS_Subset
  <2> QED
    BY <1>3, <2>4
<1>5. \A i, k \in D : i # k => i \in before(k) \/ k \in before(i)
  BY <1>1, <1>2
<1>6. place \in Injection(D, D)
  <2> HIDE DEF before
  <2>1. place \in [D -> D]
    BY <1>1, <1>3
  <2>2. \A i, k \in D : place[i] = place[k] => i = k
    BY <1>3, <1>4, <1>5
  <2> QED
    BY <2>1, <2>2 DEF Injection, IsInjective
<1>7. place \in Surjection(D, D)
  BY <1>1, <1>6, FS_Injection
<1>8. ASSUME NEW p \in D
      PROVE  \E k \in D : merged[p] = s[k]
  <2>1. \E k \in D : place[k] = p
    BY <1>7 DEF Surjection
  <2>2. \E k \in D : Cardinality(before(k)) + 1 = p
    BY <2>1
  <2>3. PICK k : k = CHOOSE j \in D : Cardinality(before(j)) + 1 = p
    OBVIOUS
  <2>4. k \in D
    BY <2>2, <2>3
  <2>5. merged[p] = s[k]
    BY <2>3, SameCardinality DEF W!inplace_merge
  <2> QED
    BY <2>4, <2>5
<1>9. DOMAIN merged = D /\ merged = [p \in D |-> merged[p]]
  BY DEF W!inplace_merge
<1> QED
  BY <1>1, <1>2, <1>8, <1>9

(* The index passes names as long as there are any.                        *)
LEMMA SkippedIsKept ==
  ASSUME NEW n \in WeakNames, seen_weak_binds_ \in Seq(SeenEntries),
         seen_weak_binds_orig_size \in 0..Len(seen_weak_binds_),
         seen_weak_bind_index \in 0..seen_weak_binds_orig_size
  PROVE  W!Skipped(n) \in seen_weak_bind_index..seen_weak_binds_orig_size
<1> DEFINE range == seen_weak_bind_index..seen_weak_binds_orig_size
           stops == {k \in range : k < seen_weak_binds_orig_size => seen_weak_binds_[k + 1].name > n}
           kept == {k \in range :
                      /\ \A j \in seen_weak_bind_index + 1..k : seen_weak_binds_[j].name <= n
                      /\ k < seen_weak_binds_orig_size => seen_weak_binds_[k + 1].name > n}
<1>1. /\ seen_weak_binds_orig_size \in stops /\ stops \in SUBSET Nat
      /\ \A j \in 1..seen_weak_binds_orig_size : seen_weak_binds_[j].name \in Nat
      /\ n \in Nat
  <2>1. /\ seen_weak_binds_orig_size \in Nat /\ seen_weak_bind_index \in Nat
        /\ seen_weak_bind_index <= seen_weak_binds_orig_size
        /\ \A j \in 1..seen_weak_binds_orig_size : seen_weak_binds_[j] \in SeenEntries
    OBVIOUS
  <2>2. seen_weak_binds_orig_size \in range /\ range \subseteq Nat
    BY <2>1
  <2> QED
    BY <2>1, <2>2, NamesAreNumbers
<1>2. PICK k \in stops : \A m \in stops : k <= m
  BY <1>1, LeastOf
<1>3. ASSUME NEW j \in seen_weak_bind_index + 1..k PROVE seen_weak_binds_[j].name <= n
  <2>1. j - 1 \in range /\ j - 1 < k /\ j - 1 < seen_weak_binds_orig_size
        /\ (j - 1) + 1 = j /\ j \in 1..seen_weak_binds_orig_size
    BY <1>2
  <2>2. j - 1 \notin stops
    <3>1. j - 1 \in stops => k <= j - 1
      BY <1>2
    <3>2. k \in Nat
      BY <1>1
    <3> QED
      BY <2>1, <3>1, <3>2
  <2> QED
    BY <1>1, <2>1, <2>2
<1>4. k \in kept
  BY <1>2, <1>3
<1>5. W!Skipped(n) = CHOOSE j \in kept : TRUE
  BY DEF W!Skipped
<1> HIDE DEF kept
<1>6. W!Skipped(n) \in kept
  BY <1>4, <1>5
<1> QED
  BY <1>6 DEF kept

(* What every image of the first load is to use of a name that one of them *)
(* defines.                                                                *)
Defined(n) == W!Exporters(LastImage, n) # {}
Definition(n) == W!Address(W!First(W!Exporters(LastImage, n)))
IsDefinition(n, sym) == n \in WeakNames /\ Defined(n) => sym = Definition(n)

WeakTyped ==
  /\ image \in 1..Cardinality(Images) + 1
  /\ uses \in [Images -> SUBSET WeakNames]
  /\ binds \in Seq(BindEntries)
  /\ last_weak_name \in WeakNames \cup {0} /\ last_weak_sym \in W!Addresses
  /\ seen_weak_binds_ \in Seq(SeenEntries)
  /\ seen_weak_binds_orig_size \in 0..Len(seen_weak_binds_)
  /\ seen_weak_bind_index \in 0..seen_weak_binds_orig_size
  /\ pointers \in [Images -> [WeakNames -> SUBSET W!Addresses]]

(* While the first load is bound, the list and the last name have the      *)
(* definition that every image is to use, and so have its pointers ever    *)
(* after.                                                                  *)
FirstLoad == W!NoClassic /\ image <= LastImage
SeenAreDefinitions ==
  FirstLoad =>
    /\ \A k \in DOMAIN seen_weak_binds_ :
         IsDefinition(seen_weak_binds_[k].name, seen_weak_binds_[k].sym)
    /\ IsDefinition(last_weak_name, last_weak_sym)
PointersAreDefinitions ==
  W!NoClassic => \A i \in 1..LastImage, n \in WeakNames :
    \A sym \in pointers[i][n] : IsDefinition(n, sym)
WeakInv == WeakTyped /\ SeenAreDefinitions /\ PointersAreDefinitions

(* Images are numbered to the last of the first load, and on.              *)
LEMMA ImageNumbers ==
  /\ Cardinality(Images) \in Nat /\ Images = 1..Cardinality(Images)
  /\ LastImage \in Nat /\ LastImage \in Images /\ 1..LastImage \subseteq Images
  /\ 1 \in Images
<1>1. Cardinality(Images) \in Nat
  BY ImagesAreNumbered, FS_CardinalityType
<1>2. Images = 1..Cardinality(Images) /\ LastImage \in Images
  BY ImagesAreNumbered
<1> QED
  BY <1>1, <1>2

(* What is chosen is an address, and in the first load the definition.     *)
LEMMA ChosenIs ==
  ASSUME image \in Images, NEW n \in WeakNames
  PROVE  /\ W!Chosen(n) \in W!Addresses
         /\ FirstLoad => IsDefinition(n, W!Chosen(n))
<1>1. W!Exporters(image, n) \subseteq Images
  BY ImageNumbers DEF W!Exporters, W!Mapped
<1>2. ASSUME W!Exporters(image, n) # {} PROVE W!First(W!Exporters(image, n)) \in Images
  <2>1. W!Exporters(image, n) \in SUBSET Nat
    BY <1>1, ImageNumbers
  <2>2. \E j \in W!Exporters(image, n) : \A k \in W!Exporters(image, n) : j <= k
    BY <1>2, <2>1, LeastOf
  <2> QED
    BY <1>1, <2>2, ImageNumbers DEF W!First
<1>3. W!Chosen(n) \in W!Addresses
  BY <1>2 DEF W!Chosen, W!Addresses, W!Rebased, W!Nowhere
<1>4. ASSUME FirstLoad, Defined(n) PROVE W!Chosen(n) = Definition(n)
  <2>1. W!Exporters(image, n) = W!Exporters(LastImage, n)
    BY <1>4, ImageNumbers DEF W!Exporters, W!Mapped, FirstLoad
  <2>2. ~classic[image]
    BY <1>4 DEF FirstLoad, W!NoClassic
  <2> QED
    BY <1>4, <2>1, <2>2 DEF W!Chosen, Defined, Definition
<1> QED
  BY <1>3, <1>4 DEF IsDefinition

(* What the files are does not change.                                     *)
LEMMA FilesStay ==
  ASSUME UNCHANGED W!files
  PROVE  /\ W!NoClassic' = W!NoClassic /\ W!Addresses' = W!Addresses /\ SeenEntries' = SeenEntries
         /\ \A n, sym : IsDefinition(n, sym)' = IsDefinition(n, sym)
<1>1. UNCHANGED <<classic, slid, defines, uses>>
  BY DEF W!files
<1>2. W!NoClassic' = W!NoClassic
  BY <1>1 DEF W!NoClassic
<1>3. W!Addresses' = W!Addresses
  BY <1>1 DEF W!Addresses, W!Address, W!LinkAddress, W!Nowhere
<1>4. \A n, sym : IsDefinition(n, sym)' = IsDefinition(n, sym)
  BY <1>1 DEF IsDefinition, Defined, Definition, W!Exporters, W!First, W!Address, W!Mapped
<1> QED
  BY <1>2, <1>3, <1>4 DEF SeenEntries

(* A pointer of the current image is set to what the last name is now      *)
(* bound to, and the list is as long or one entry longer.                  *)
LEMMA SetKeeps ==
  ASSUME WeakInv, W!More, UNCHANGED W!files, image' = image, binds' = Tail(binds),
         NEW n \in WeakNames, NEW sym \in W!Addresses, FirstLoad => IsDefinition(n, sym),
         W!Sets(n, sym), last_weak_name' = n, last_weak_sym' = sym,
         \/ seen_weak_binds_' = seen_weak_binds_
         \/ seen_weak_binds_' = Append(seen_weak_binds_, [name |-> n, sym |-> sym]),
         seen_weak_binds_orig_size' = seen_weak_binds_orig_size,
         seen_weak_bind_index' \in 0..seen_weak_binds_orig_size
  PROVE  WeakInv'
<1>1. /\ W!NoClassic' = W!NoClassic /\ W!Addresses' = W!Addresses /\ SeenEntries' = SeenEntries
      /\ \A m, s : IsDefinition(m, s)' = IsDefinition(m, s)
  BY FilesStay
<1>2. image \in Images /\ FirstLoad' = FirstLoad /\ binds # <<>> /\ uses' = uses
  BY <1>1 DEF W!More, FirstLoad, W!files
<1>3. pointers' = [pointers EXCEPT ![image][n] = @ \cup {sym}]
  BY DEF W!Sets
<1>4. /\ pointers' \in [Images -> [WeakNames -> SUBSET W!Addresses]]
      /\ \A i \in Images, m \in WeakNames :
           \A s \in pointers'[i][m] : s \in pointers[i][m] \/ (i = image /\ m = n /\ s = sym)
  BY <1>2, <1>3 DEF WeakInv, WeakTyped
<1>5. [name |-> n, sym |-> sym] \in SeenEntries
  BY DEF SeenEntries
<1>6. /\ seen_weak_binds_' \in Seq(SeenEntries)
      /\ seen_weak_binds_orig_size' \in 0..Len(seen_weak_binds_')
      /\ \A k \in DOMAIN seen_weak_binds_' :
           \/ k \in DOMAIN seen_weak_binds_ /\ seen_weak_binds_'[k] = seen_weak_binds_[k]
           \/ seen_weak_binds_'[k] = [name |-> n, sym |-> sym]
  <2>1. seen_weak_binds_ \in Seq(SeenEntries) /\ seen_weak_binds_orig_size \in 0..Len(seen_weak_binds_)
    BY DEF WeakInv, WeakTyped
  <2>2. CASE seen_weak_binds_' = seen_weak_binds_
    BY <2>1, <2>2
  <2>3. CASE seen_weak_binds_' = Append(seen_weak_binds_, [name |-> n, sym |-> sym])
    BY <1>5, <2>1, <2>3
  <2> QED
    BY <2>2, <2>3
<1>7. WeakTyped'
  <2>1. binds' \in Seq(BindEntries)
    BY <1>2 DEF WeakInv, WeakTyped
  <2>2. BindEntries' = BindEntries
    BY DEF BindEntries
  <2> QED
    BY <1>1, <1>2, <1>4, <1>6, <2>1, <2>2 DEF WeakInv, WeakTyped
<1>8. SeenAreDefinitions'
  <2> SUFFICES ASSUME FirstLoad
               PROVE  /\ \A k \in DOMAIN seen_weak_binds_' :
                           IsDefinition(seen_weak_binds_'[k].name, seen_weak_binds_'[k].sym)
                      /\ IsDefinition(last_weak_name', last_weak_sym')
    BY <1>1, <1>2 DEF SeenAreDefinitions, IsDefinition
  <2>1. \A k \in DOMAIN seen_weak_binds_ :
          IsDefinition(seen_weak_binds_[k].name, seen_weak_binds_[k].sym)
    BY DEF WeakInv, SeenAreDefinitions
  <2> QED
    BY <1>6, <2>1
<1>9. PointersAreDefinitions'
  <2> SUFFICES ASSUME W!NoClassic, NEW i \in 1..LastImage, NEW m \in WeakNames, NEW s \in pointers'[i][m]
               PROVE  IsDefinition(m, s)
    BY <1>1 DEF PointersAreDefinitions
  <2>1. i \in Images /\ (i = image => FirstLoad)
    BY ImageNumbers DEF FirstLoad
  <2>2. CASE s \in pointers[i][m]
    BY <2>2 DEF WeakInv, PointersAreDefinitions
  <2> QED
    BY <1>4, <2>1, <2>2
<1> QED
  BY <1>7, <1>8, <1>9 DEF WeakInv

(* The weak binds of the current image, one after the other.               *)
LEMMA BindStepsKeep ==
  ASSUME WeakInv, W!JumpsToOwn \/ W!BindsAsLast \/ W!BindsAsSeen \/ W!BindsFirst
  PROVE  WeakInv'
<1>1. /\ W!More /\ image \in Images /\ binds # <<>> /\ UNCHANGED W!files
      /\ image' = image /\ binds' = Tail(binds)
      /\ seen_weak_binds_orig_size' = seen_weak_binds_orig_size
  BY DEF W!JumpsToOwn, W!BindsAsLast, W!BindsAsSeen, W!BindsFirst, W!WeakBind, W!SameAsLast,
     W!More, W!seen
<1>2. W!Current \in BindEntries
  BY <1>1 DEF WeakInv, WeakTyped, W!Current
<1>3. PICK n \in WeakNames : n = W!Current.name
  BY <1>2 DEF BindEntries
<1>4. /\ seen_weak_binds_ \in Seq(SeenEntries)
      /\ seen_weak_binds_orig_size \in 0..Len(seen_weak_binds_)
      /\ seen_weak_bind_index \in 0..seen_weak_binds_orig_size
  BY DEF WeakInv, WeakTyped
<1>5. CASE W!JumpsToOwn
  <2>1. UNCHANGED <<uses, image, last_weak_name, last_weak_sym, seen_weak_binds_,
                    seen_weak_bind_index, seen_weak_binds_orig_size, pointers>>
    BY <1>5 DEF W!JumpsToOwn, W!files, W!lastWeak, W!seen
  <2>2. /\ W!NoClassic' = W!NoClassic /\ W!Addresses' = W!Addresses /\ SeenEntries' = SeenEntries
        /\ \A m, s : IsDefinition(m, s)' = IsDefinition(m, s)
    BY <1>1, FilesStay
  <2>3. binds' \in Seq(BindEntries) /\ BindEntries' = BindEntries
    BY <1>1 DEF WeakInv, WeakTyped, BindEntries
  <2>4. WeakTyped'
    BY <2>1, <2>2, <2>3 DEF WeakInv, WeakTyped
  <2>5. SeenAreDefinitions' /\ PointersAreDefinitions'
    BY <2>1, <2>2 DEF WeakInv, SeenAreDefinitions, PointersAreDefinitions, FirstLoad
  <2> QED
    BY <2>4, <2>5 DEF WeakInv
<1>6. CASE W!BindsAsLast
  <2>1. /\ n = last_weak_name /\ W!Sets(n, last_weak_sym)
        /\ UNCHANGED <<last_weak_name, last_weak_sym, seen_weak_binds_, seen_weak_bind_index>>
    BY <1>3, <1>6 DEF W!BindsAsLast, W!SameAsLast, W!lastWeak, W!seen
  <2>2. last_weak_sym \in W!Addresses /\ (FirstLoad => IsDefinition(n, last_weak_sym))
    BY <2>1 DEF WeakInv, WeakTyped, SeenAreDefinitions
  <2> QED
    BY <1>1, <1>4, <2>1, <2>2, SetKeeps
<1>7. CASE W!BindsAsSeen
  <2>1. PICK e : e = W!Entry
    OBVIOUS
  <2>2. /\ seen_weak_bind_index # seen_weak_binds_orig_size /\ e.name = n
        /\ W!Sets(n, e.sym) /\ last_weak_name' = n /\ last_weak_sym' = e.sym
        /\ seen_weak_bind_index' = seen_weak_bind_index + 1
        /\ seen_weak_binds_' = seen_weak_binds_
    BY <1>3, <1>7, <2>1 DEF W!BindsAsSeen, W!IsNext
  <2>3. /\ seen_weak_bind_index + 1 \in DOMAIN seen_weak_binds_
        /\ seen_weak_bind_index + 1 \in 0..seen_weak_binds_orig_size
    BY <1>4, <2>2
  <2>4. e = seen_weak_binds_[seen_weak_bind_index + 1] /\ e \in SeenEntries
    BY <1>4, <2>1, <2>3 DEF W!Entry
  <2>5. e.sym \in W!Addresses
    BY <2>4 DEF SeenEntries
  <2>6. FirstLoad => IsDefinition(n, e.sym)
    BY <2>2, <2>3, <2>4 DEF WeakInv, SeenAreDefinitions
  <2> QED
    BY <1>1, <2>2, <2>3, <2>5, <2>6, SetKeeps
<1>8. CASE W!BindsFirst
  <2>1. PICK sym : sym = W!Chosen(n)
    OBVIOUS
  <2>2. sym \in W!Addresses /\ (FirstLoad => IsDefinition(n, sym))
    BY <1>1, <2>1, ChosenIs
  <2>3. /\ last_weak_name' = n /\ last_weak_sym' = sym /\ W!Sets(n, sym)
        /\ seen_weak_binds_' = Append(seen_weak_binds_, [name |-> n, sym |-> sym])
        /\ seen_weak_bind_index' = W!Skipped(n)
    BY <1>3, <1>8, <2>1 DEF W!BindsFirst
  <2>4. seen_weak_bind_index' \in 0..seen_weak_binds_orig_size
    BY <1>4, <2>3, SkippedIsKept
  <2> QED
    BY <1>1, <2>2, <2>3, <2>4, SetKeeps
<1> QED
  BY <1>5, <1>6, <1>7, <1>8

(* doBind returns: the list is merged, and the next image begins.          *)
LEMMA ReturnKeeps ==
  ASSUME WeakInv, W!doBindReturns
  PROVE  WeakInv'
<1>1. /\ image \in Images /\ UNCHANGED W!files /\ pointers' = pointers
      /\ image' = image + 1 /\ last_weak_name' = 0 /\ last_weak_sym' = W!Nowhere
      /\ seen_weak_binds_' = W!inplace_merge(seen_weak_binds_, seen_weak_binds_orig_size)
      /\ seen_weak_binds_orig_size' = Len(seen_weak_binds_) /\ seen_weak_bind_index' = 0
      /\ IF image + 1 \in Images THEN binds' \in W!WeakBindsOf(image + 1) ELSE binds' = <<>>
  BY DEF W!doBindReturns
<1>2. /\ W!NoClassic' = W!NoClassic /\ W!Addresses' = W!Addresses /\ SeenEntries' = SeenEntries
      /\ \A n, sym : IsDefinition(n, sym)' = IsDefinition(n, sym)
  BY <1>1, FilesStay
<1>3. /\ seen_weak_binds_' \in Seq(SeenEntries) /\ Len(seen_weak_binds_') = Len(seen_weak_binds_)
      /\ \A p \in DOMAIN seen_weak_binds_ : \E k \in DOMAIN seen_weak_binds_ :
           seen_weak_binds_'[p] = seen_weak_binds_[k]
  <2>1. seen_weak_binds_ \in Seq(SeenEntries)
    BY DEF WeakInv, WeakTyped
  <2>2. PICK merged, middle :
          merged = W!inplace_merge(seen_weak_binds_, middle) /\ middle = seen_weak_binds_orig_size
    OBVIOUS
  <2>3. /\ merged \in Seq(SeenEntries) /\ Len(merged) = Len(seen_weak_binds_)
        /\ \A p \in DOMAIN seen_weak_binds_ : \E k \in DOMAIN seen_weak_binds_ :
             merged[p] = seen_weak_binds_[k]
    BY <2>1, <2>2, MergeKeeps
  <2> QED
    BY <1>1, <2>2, <2>3
<1>4. DOMAIN seen_weak_binds_' = DOMAIN seen_weak_binds_ /\ Len(seen_weak_binds_) \in Nat
  BY <1>3 DEF WeakInv, WeakTyped
<1>5. /\ binds' \in Seq(BindEntries) /\ BindEntries' = BindEntries
      /\ uses' = uses /\ image' \in 1..Cardinality(Images) + 1 /\ W!Nowhere \in W!Addresses
      /\ image \in Nat
  <2>1. image' \in 1..Cardinality(Images) + 1 /\ image \in Nat
    BY <1>1, ImageNumbers
  <2>2. binds' \in Seq(BindEntries)
    <3>1. CASE image + 1 \in Images
      <4>1. uses[image + 1] \subseteq WeakNames /\ binds' \in W!WeakBindsOf(image + 1)
        BY <1>1, <3>1 DEF WeakInv, WeakTyped
      <4>2. PICK b \in W!WeakBindsOf(image + 1) : b = binds'
        BY <4>1
      <4> QED
        BY <3>1, <4>1, <4>2, BindsAreNames
    <3>2. CASE image + 1 \notin Images
      BY <1>1, <3>2
    <3> QED
      BY <3>1, <3>2
  <2> QED
    BY <1>1, <2>1, <2>2 DEF W!files, W!Addresses, BindEntries
<1>6. WeakTyped'
  <2>1. 0 \in 0..Len(seen_weak_binds_) /\ Len(seen_weak_binds_) \in 0..Len(seen_weak_binds_)
    BY <1>4
  <2>2. last_weak_name' \in WeakNames \cup {0}
    BY <1>1
  <2> QED
    BY <1>1, <1>2, <1>3, <1>5, <2>1, <2>2 DEF WeakInv, WeakTyped
<1>7. SeenAreDefinitions'
  <2> SUFFICES ASSUME FirstLoad
               PROVE  /\ \A k \in DOMAIN seen_weak_binds_' :
                           IsDefinition(seen_weak_binds_'[k].name, seen_weak_binds_'[k].sym)
                      /\ IsDefinition(0, last_weak_sym')
    <3>1. FirstLoad' => FirstLoad
      BY <1>1, <1>2, <1>5, ImageNumbers DEF FirstLoad
    <3> QED
      BY <1>1, <1>2, <3>1 DEF SeenAreDefinitions, IsDefinition
  <2>1. \A k \in DOMAIN seen_weak_binds_ :
          IsDefinition(seen_weak_binds_[k].name, seen_weak_binds_[k].sym)
    BY DEF WeakInv, SeenAreDefinitions
  <2> QED
    BY <1>3, <1>4, <2>1, NamesAreNumbers DEF IsDefinition
<1>8. PointersAreDefinitions'
  BY <1>1, <1>2 DEF WeakInv, PointersAreDefinitions
<1> QED
  BY <1>6, <1>7, <1>8 DEF WeakInv

(* Any step, and the start.                                                *)
LEMMA WeakKept ==
  ASSUME WeakInv, [W!Next]_(W!vars)
  PROVE  WeakInv'
<1>1. CASE UNCHANGED W!vars
  <2>1. UNCHANGED <<W!files, uses, image, binds, last_weak_name, last_weak_sym, seen_weak_binds_,
                    seen_weak_bind_index, seen_weak_binds_orig_size, pointers>>
    BY <1>1 DEF W!vars, W!files, W!lastWeak, W!seen
  <2>2. /\ W!NoClassic' = W!NoClassic /\ W!Addresses' = W!Addresses /\ SeenEntries' = SeenEntries
        /\ \A n, sym : IsDefinition(n, sym)' = IsDefinition(n, sym)
    BY <2>1, FilesStay
  <2>3. BindEntries' = BindEntries
    BY DEF BindEntries
  <2>4. WeakTyped'
    BY <2>1, <2>2, <2>3 DEF WeakInv, WeakTyped
  <2>5. SeenAreDefinitions' /\ PointersAreDefinitions'
    BY <2>1, <2>2 DEF WeakInv, SeenAreDefinitions, PointersAreDefinitions, FirstLoad
  <2> QED
    BY <2>4, <2>5 DEF WeakInv
<1>2. CASE W!Next
  BY <1>2, BindStepsKeep, ReturnKeeps DEF W!Next
<1> QED
  BY <1>1, <1>2

(* At the start nothing is bound.                                          *)
LEMMA WeakStart == ASSUME W!Init PROVE WeakInv
<1>1. /\ uses \in [Images -> SUBSET WeakNames] /\ image = 1 /\ binds \in W!WeakBindsOf(1)
      /\ last_weak_name = 0 /\ last_weak_sym = W!Nowhere /\ seen_weak_binds_ = <<>>
      /\ seen_weak_bind_index = 0 /\ seen_weak_binds_orig_size = 0
      /\ pointers = [i \in Images |-> [n \in WeakNames |-> {}]]
  BY DEF W!Init, W!InitFiles, W!InitBinding
<1>2. binds \in Seq(BindEntries)
  <2>1. uses[1] \subseteq WeakNames
    BY <1>1, ImageNumbers
  <2> QED
    BY <1>1, <2>1, ImageNumbers, BindsAreNames
<1>3. WeakTyped
  BY <1>1, <1>2, ImageNumbers DEF WeakTyped, W!Addresses
<1>4. SeenAreDefinitions
  BY <1>1, NamesAreNumbers DEF SeenAreDefinitions, IsDefinition
<1>5. PointersAreDefinitions
  BY <1>1, ImageNumbers DEF PointersAreDefinitions
<1> QED
  BY <1>3, <1>4, <1>5 DEF WeakInv

(* The images of the first load that bind a weak symbol which one of them  *)
(* defines use the same definition of it, when none of them is classic: of *)
(* any number of images and names, and whatever pointers they have.        *)
THEOREM WeakSymbolsCoalesce == FilesSpec => []Coalesced
<1> DEFINE Inv == part = "weak" => WeakInv
<1>1. FilesInit => Inv
  BY WeakStart DEF FilesInit
<1>2. Inv /\ [FilesNext]_filesVars => Inv'
  BY FilesSteps, WeakKept
<1>3. Inv => Coalesced
  <2> SUFFICES ASSUME part = "weak", WeakInv, NEW n \in WeakNames, W!NoClassic, Defined(n),
                      NEW i \in 1..LastImage, NEW j \in 1..LastImage,
                      NEW p \in pointers[i][n], NEW q \in pointers[j][n]
               PROVE  p = q
    BY DEF Coalesced, W!Coalesced, W!Shared, Defined
  <2>1. p = Definition(n) /\ q = Definition(n)
    BY DEF WeakInv, PointersAreDefinitions, IsDefinition
  <2> QED
    BY <2>1
<1> QED
  BY <1>1, <1>2, <1>3, PTL DEF FilesSpec

-----------------------------------------------------------------------------
(* The catalog: paths, and those that are moved.                           *)
Typed(t) ==
  /\ DOMAIN t \subseteq T!PathsBelow
  /\ \A p \in DOMAIN t : /\ t[p] \in [id : 1..MaxObjects, folder : BOOLEAN]
                         /\ T!IsFolderIn(t, T!parent_path(p))
Distinct(t) == \A p, q \in DOMAIN t : T!LowerOf(p) = T!LowerOf(q) => p = q
Follow(t, c, f) ==
  /\ \A p \in DOMAIN c : p \in DOMAIN t /\ c[p] = t[p].id
  /\ \A p \in DOMAIN t : t[p].id \in f => p \in DOMAIN c
CatalogInv ==
  /\ Typed(tree) /\ Distinct(tree) /\ Follow(tree, companions, forked)
  /\ forked \subseteq 1..MaxObjects

(* Paths are sequences.                                                    *)
LEMMA PathIs ==
  /\ \A p \in T!PathsBelow : /\ p \in Seq(CatalogNames) /\ Len(p) \in 1..MaxDepth
                             /\ DOMAIN p = 1..Len(p) /\ p # <<>>
  /\ \A p \in Seq(CatalogNames) : Len(p) \in 1..MaxDepth => p \in T!PathsBelow
<1>1. ASSUME NEW p \in T!PathsBelow
      PROVE  /\ p \in Seq(CatalogNames) /\ Len(p) \in 1..MaxDepth
             /\ DOMAIN p = 1..Len(p) /\ p # <<>>
  <2>1. PICK n \in 1..MaxDepth : p \in [1..n -> CatalogNames]
    BY DEF T!PathsBelow
  <2>2. n \in Nat /\ p = [i \in 1..n |-> p[i]]
    BY <2>1, ObjectsAreCounted
  <2>3. p \in Seq(CatalogNames)
    BY <2>1, <2>2, SeqDef
  <2>4. Len(p) = n /\ DOMAIN p = 1..n
    BY <2>1, <2>2, <2>3
  <2> QED
    BY <2>1, <2>3, <2>4
<1>2. ASSUME NEW p \in Seq(CatalogNames), Len(p) \in 1..MaxDepth
      PROVE  p \in T!PathsBelow
  <2>1. p \in [1..Len(p) -> CatalogNames]
    OBVIOUS
  <2> QED
    BY <1>2, <2>1 DEF T!PathsBelow
<1> QED
  BY <1>1, <1>2

(* The start of a path.                                                    *)
LEMMA StartIs ==
  ASSUME NEW p \in Seq(CatalogNames), NEW n \in 0..Len(p), NEW s, s = SubSeq(p, 1, n)
  PROVE  /\ s \in Seq(CatalogNames) /\ Len(s) = n
         /\ \A i \in 1..n : s[i] = p[i]
OBVIOUS

(* The folder of a path.                                                   *)
LEMMA FrontIs ==
  ASSUME NEW p \in Seq(CatalogNames), Len(p) >= 1, NEW s, s = T!parent_path(p)
  PROVE  /\ s \in Seq(CatalogNames) /\ Len(s) = Len(p) - 1
         /\ \A i \in 1..Len(p) - 1 : s[i] = p[i]
         /\ s = SubSeq(p, 1, Len(p) - 1)
<1>1. Len(p) - 1 \in 0..Len(p) /\ s = SubSeq(p, 1, Len(p) - 1)
  BY DEF T!parent_path
<1> QED
  BY <1>1, StartIs

(* Equal intervals end alike.                                              *)
LEMMA UptoSame == \A m, n \in Nat : 1..m = 1..n => m = n
<1> SUFFICES ASSUME NEW m \in Nat, NEW n \in Nat, 1..m = 1..n PROVE m <= n /\ n <= m
  OBVIOUS
<1>1. m > 0 => m \in 1..n
  OBVIOUS
<1>2. n > 0 => n \in 1..m
  OBVIOUS
<1> QED
  BY <1>1, <1>2

(* Two paths that are equal but for case.                                  *)
LEMMA LowersAre ==
  ASSUME NEW p \in Seq(CatalogNames), NEW q \in Seq(CatalogNames)
  PROVE  T!LowerOf(p) = T!LowerOf(q) <=>
           Len(p) = Len(q) /\ \A i \in 1..Len(p) : CatalogLower[p[i]] = CatalogLower[q[i]]
<1>1. DOMAIN p = 1..Len(p) /\ DOMAIN q = 1..Len(q) /\ Len(p) \in Nat /\ Len(q) \in Nat
  OBVIOUS
<1>2. /\ DOMAIN T!LowerOf(p) = 1..Len(p) /\ DOMAIN T!LowerOf(q) = 1..Len(q)
      /\ \A i \in 1..Len(p) : T!LowerOf(p)[i] = CatalogLower[p[i]]
      /\ \A i \in 1..Len(q) : T!LowerOf(q)[i] = CatalogLower[q[i]]
  BY <1>1 DEF T!LowerOf
<1>3. ASSUME T!LowerOf(p) = T!LowerOf(q)
      PROVE  Len(p) = Len(q) /\ \A i \in 1..Len(p) : CatalogLower[p[i]] = CatalogLower[q[i]]
  <2>1. 1..Len(p) = 1..Len(q)
    BY <1>2, <1>3
  <2>2. Len(p) = Len(q)
    BY <1>1, <2>1, UptoSame
  <2> QED
    BY <1>2, <1>3, <2>2
<1>4. ASSUME Len(p) = Len(q), \A i \in 1..Len(p) : CatalogLower[p[i]] = CatalogLower[q[i]]
      PROVE  T!LowerOf(p) = T!LowerOf(q)
  BY <1>1, <1>4 DEF T!LowerOf
<1> QED
  BY <1>3, <1>4

(* The folders on the way to a path are there.                             *)
LEMMA StartsAreThere ==
  ASSUME NEW t, Typed(t), NEW p \in DOMAIN t, NEW n \in 1..Len(p)
  PROVE  SubSeq(p, 1, n) \in DOMAIN t
<1>1. p \in Seq(CatalogNames) /\ Len(p) \in Nat /\ Len(p) >= 1
  BY PathIs DEF Typed
<1> DEFINE There == {k \in 1..Len(p) : \A m \in k..Len(p) : SubSeq(p, 1, m) \in DOMAIN t}
<1>2. There \in SUBSET Nat /\ There # {}
  <2>1. SubSeq(p, 1, Len(p)) = p
    BY <1>1, SubSeqFull
  <2>2. \A m \in Len(p)..Len(p) : SubSeq(p, 1, m) \in DOMAIN t
    <3> TAKE m \in Len(p)..Len(p)
    <3>1. m = Len(p)
      BY <1>1
    <3> QED
      BY <2>1, <3>1
  <2>3. Len(p) \in There
    <3>1. Len(p) \in 1..Len(p)
      BY <1>1
    <3> QED
      BY <2>2, <3>1
  <2> QED
    BY <2>3
<1>3. PICK k \in There : \A m \in There : k <= m
  BY <1>2, LeastOf
<1>4. k = 1
  <2> SUFFICES ASSUME k # 1 PROVE FALSE
    OBVIOUS
  <2>1. k \in 2..Len(p) /\ k - 1 \in 1..Len(p) /\ k - 1 \in 0..Len(p) /\ k \in 0..Len(p)
    BY <1>1, <1>3
  <2>2. PICK s : s = SubSeq(p, 1, k)
    OBVIOUS
  <2>3. s \in Seq(CatalogNames) /\ Len(s) = k /\ \A i \in 1..k : s[i] = p[i]
    BY <1>1, <2>1, <2>2, StartIs
  <2>4. s \in DOMAIN t
    BY <1>3, <2>1, <2>2
  <2>5. PICK u, v : u = T!parent_path(s) /\ v = SubSeq(p, 1, k - 1)
    OBVIOUS
  <2>6. u \in Seq(CatalogNames) /\ Len(u) = k - 1 /\ \A i \in 1..k - 1 : u[i] = s[i]
    <3>1. Len(s) >= 1 /\ u = T!parent_path(s)
      BY <2>1, <2>3, <2>5
    <3> QED
      BY <2>3, <3>1, FrontIs
  <2>7. v \in Seq(CatalogNames) /\ Len(v) = k - 1 /\ \A i \in 1..k - 1 : v[i] = p[i]
    <3>1. k - 1 \in 0..Len(p) /\ v = SubSeq(p, 1, k - 1)
      BY <2>1, <2>5
    <3> QED
      BY <1>1, <3>1, StartIs
  <2>8. /\ u \in Seq(CatalogNames) /\ Len(u) = k - 1 /\ \A i \in 1..k - 1 : u[i] = s[i]
        /\ v \in Seq(CatalogNames) /\ Len(v) = k - 1 /\ \A i \in 1..k - 1 : v[i] = p[i]
    BY <2>6, <2>7
  <2>9. u = v /\ u # <<>>
    <3>1. \A i \in 1..Len(u) : u[i] = v[i]
      BY <2>1, <2>3, <2>8
    <3> QED
      BY <2>1, <2>8, <3>1, SeqEqual
  <2>10. v \in DOMAIN t
    <3>1. T!IsFolderIn(t, u)
      BY <2>4, <2>5 DEF Typed
    <3> QED
      BY <2>9, <3>1 DEF T!IsFolderIn, T!Root
  <2>11. \A m \in k - 1..Len(p) : m = k - 1 \/ m \in k..Len(p)
    BY <2>1
  <2>12. k - 1 \in There
    BY <1>3, <2>1, <2>5, <2>10, <2>11
  <2> QED
    BY <1>3, <2>1, <2>12
<1>5. n \in k..Len(p)
  BY <1>4
<1> QED
  BY <1>3, <1>5

(* A place in a folder that is there.                                      *)
LEMMA PlaceIs ==
  ASSUME Typed(tree), NEW dir, dir = T!Root \/ dir \in DOMAIN tree, NEW name \in CatalogNames,
         NEW target, target = Append(dir, name)
  PROVE  /\ dir \in Seq(CatalogNames) /\ target \in Seq(CatalogNames) /\ target # T!Root
         /\ Len(dir) \in Nat /\ Len(target) = Len(dir) + 1
         /\ \A i \in 1..Len(dir) : target[i] = dir[i]
         /\ T!parent_path(target) = dir
<1>1. dir \in Seq(CatalogNames) /\ Len(dir) \in Nat
  <2>1. dir = T!Root => dir \in Seq(CatalogNames)
    BY EmptySeq DEF T!Root
  <2>2. dir \in DOMAIN tree => dir \in Seq(CatalogNames)
    BY PathIs DEF Typed
  <2>3. dir \in Seq(CatalogNames)
    BY <2>1, <2>2
  <2> QED
    BY <2>3
<1>2. /\ target \in Seq(CatalogNames) /\ target # T!Root /\ Len(target) = Len(dir) + 1
      /\ \A i \in 1..Len(dir) : target[i] = dir[i]
  BY <1>1 DEF T!Root
<1>3. PICK u : u = T!parent_path(target)
  OBVIOUS
<1>4. u \in Seq(CatalogNames) /\ Len(u) = Len(dir) /\ \A i \in 1..Len(dir) : u[i] = target[i]
  <2>1. Len(target) >= 1 /\ Len(target) - 1 = Len(dir)
    BY <1>1, <1>2
  <2>2. /\ u \in Seq(CatalogNames) /\ Len(u) = Len(target) - 1
        /\ \A i \in 1..Len(target) - 1 : u[i] = target[i]
    BY <1>2, <1>3, <2>1, FrontIs
  <2> QED
    BY <2>1, <2>2
<1>5. u = dir
  <2>1. \A i \in 1..Len(u) : u[i] = dir[i]
    BY <1>2, <1>4
  <2> QED
    BY <1>1, <1>4, <2>1, SeqEqual
<1> QED
  BY <1>1, <1>2, <1>3, <1>5

(* A name that nothing has exactly leads to what has it but for case.      *)
LEMMA Resolves ==
  ASSUME Typed(tree), Distinct(tree), NEW dir, dir = T!Root \/ dir \in DOMAIN tree,
         NEW name \in CatalogNames, NEW target, target = Append(dir, name), ~T!Exists(target),
         NEW q \in DOMAIN tree, T!LowerOf(q) = T!LowerOf(target)
  PROVE  q \in T!hle_path_resolve(target)
<1>1. /\ dir \in Seq(CatalogNames) /\ target \in Seq(CatalogNames)
      /\ Len(dir) \in Nat /\ Len(target) = Len(dir) + 1
      /\ \A i \in 1..Len(dir) : target[i] = dir[i]
  BY PlaceIs
<1>2. q \in Seq(CatalogNames) /\ DOMAIN q = 1..Len(q) /\ Len(q) \in Nat
  BY PathIs DEF Typed
<1>3. Len(q) = Len(dir) + 1 /\ \A i \in 1..Len(q) : CatalogLower[q[i]] = CatalogLower[target[i]]
  BY <1>1, <1>2, LowersAre
<1>4. PICK u : u = T!parent_path(q)
  OBVIOUS
<1>5. /\ u \in Seq(CatalogNames) /\ Len(u) = Len(dir) /\ \A i \in 1..Len(dir) : u[i] = q[i]
      /\ u = SubSeq(q, 1, Len(dir))
  <2>1. Len(q) >= 1 /\ Len(q) - 1 = Len(dir)
    BY <1>1, <1>3
  <2> QED
    BY <1>2, <1>4, <2>1, FrontIs
<1>6. u = dir
  <2>1. T!LowerOf(u) = T!LowerOf(dir)
    <3>1. \A i \in 1..Len(u) : CatalogLower[u[i]] = CatalogLower[dir[i]]
      BY <1>1, <1>3, <1>5
    <3> QED
      BY <1>1, <1>5, <3>1, LowersAre
  <2>2. u = T!Root \/ u \in DOMAIN tree
    BY <1>4 DEF Typed, T!IsFolderIn
  <2>3. Len(T!Root) = 0 /\ \A p \in DOMAIN tree : Len(p) # 0
    BY PathIs DEF Typed, T!Root
  <2> QED
    BY <1>5, <2>1, <2>2, <2>3 DEF Distinct
<1>7. \A i \in DOMAIN q :
        IF T!Exists(SubSeq(q, 1, i - 1) \o <<target[i]>>)
        THEN q[i] = target[i] ELSE CatalogLower[q[i]] = CatalogLower[target[i]]
  <2> TAKE i \in DOMAIN q
  <2>1. CASE i \in 1..Len(dir)
    BY <1>1, <1>3, <1>5, <1>6, <2>1
  <2>2. CASE i = Len(dir) + 1
    <3>1. SubSeq(q, 1, i - 1) = dir
      BY <1>1, <1>5, <1>6, <2>2
    <3>2. target[i] = name
      BY <1>1, <2>2
    <3>3. dir \o <<name>> = target
      BY <1>1
    <3> QED
      BY <1>2, <1>3, <3>1, <3>2, <3>3
  <2> QED
    BY <1>1, <1>2, <1>3, <2>1, <2>2
<1>8. Len(q) = Len(target)
  BY <1>1, <1>3
<1> QED
  BY <1>7, <1>8 DEF T!hle_path_resolve

(* What is made is found by no name that was there.                        *)
LEMMA MadeIsNew ==
  ASSUME Typed(tree), Distinct(tree), NEW dir, T!IsFolderIn(tree, dir), NEW name \in CatalogNames,
         NEW here \in T!hle_join(dir, name), ~T!Exists(here)
  PROVE  /\ here = Append(dir, name)
         /\ \A q \in DOMAIN tree : T!LowerOf(q) # T!LowerOf(here)
<1>1. PICK joined : joined = Append(dir, name)
  OBVIOUS
<1>2. dir = T!Root \/ dir \in DOMAIN tree
  BY DEF T!IsFolderIn
<1>3. here \in T!hle_path_resolve(joined) \/ (here = joined /\ T!hle_path_resolve(joined) = {})
  BY <1>1 DEF T!hle_join
<1>4. \A p \in T!hle_path_resolve(joined) : T!Exists(p)
  BY DEF T!hle_path_resolve, T!Exists
<1>5. here = joined /\ T!hle_path_resolve(joined) = {}
  BY <1>3, <1>4
<1>6. \A q \in DOMAIN tree : T!LowerOf(q) # T!LowerOf(here)
  BY <1>1, <1>2, <1>5, Resolves
<1> QED
  BY <1>1, <1>5, <1>6

(* Creating and copying.                                                   *)
LEMMA CreateKeeps ==
  ASSUME CatalogInv, NEW dir, T!IsFolderIn(tree, dir), NEW name \in CatalogNames,
         NEW here \in T!hle_join(dir, name), NEW folder \in BOOLEAN, T!Creates(here, folder)
  PROVE  CatalogInv'
<1>1. /\ Typed(tree) /\ Distinct(tree) /\ Follow(tree, companions, forked)
      /\ forked \subseteq 1..MaxObjects
  BY DEF CatalogInv
<1>2. PICK id \in 1..MaxObjects :
        /\ id \notin forked
        /\ tree' = [p \in DOMAIN tree \cup {here} |->
                      IF p = here THEN T!Object(id, folder) ELSE tree[p]]
  BY DEF T!Creates
<1>3. /\ ~T!Exists(here) /\ Len(here) <= MaxDepth /\ here \notin DOMAIN tree
      /\ companions' = companions /\ forked' = forked
  BY DEF T!Creates, T!Exists
<1>4. here = Append(dir, name) /\ \A q \in DOMAIN tree : T!LowerOf(q) # T!LowerOf(here)
  BY <1>1, <1>3, MadeIsNew
<1>5. /\ here \in Seq(CatalogNames) /\ Len(here) \in Nat /\ Len(here) >= 1 /\ T!parent_path(here) = dir
  <2>1. dir = T!Root \/ dir \in DOMAIN tree
    BY DEF T!IsFolderIn
  <2>2. /\ here \in Seq(CatalogNames) /\ Len(dir) \in Nat /\ Len(here) = Len(dir) + 1
        /\ T!parent_path(here) = dir
    BY <1>1, <1>4, <2>1, PlaceIs
  <2> QED
    BY <2>2
<1>6. PICK new, object : new = tree' /\ object = T!Object(id, folder)
  OBVIOUS
<1>7. /\ DOMAIN new = DOMAIN tree \cup {here} /\ new[here] = object
      /\ \A p \in DOMAIN tree : new[p] = tree[p]
  BY <1>2, <1>3, <1>6
<1>8. object \in [id : 1..MaxObjects, folder : BOOLEAN] /\ object.id = id
  BY <1>6 DEF T!Object
<1>9. \A q : T!IsFolderIn(tree, q) => T!IsFolderIn(new, q)
  BY <1>7 DEF T!IsFolderIn
<1>10. Typed(new)
  <2>1. here \in T!PathsBelow
    <3>1. Len(here) \in 1..MaxDepth
      BY <1>3, <1>5, ObjectsAreCounted
    <3> QED
      BY <1>5, <3>1, PathIs
  <2>2. T!IsFolderIn(new, T!parent_path(here))
    BY <1>5, <1>9
  <2> QED
    BY <1>1, <1>7, <1>8, <1>9, <2>1, <2>2 DEF Typed
<1>11. Distinct(new)
  BY <1>1, <1>4, <1>7 DEF Distinct
<1>12. Follow(new, companions, forked)
  BY <1>1, <1>2, <1>7, <1>8 DEF Follow
<1> QED
  BY <1>1, <1>3, <1>6, <1>10, <1>11, <1>12 DEF CatalogInv

(* Deleting what has nothing in it.                                        *)
LEMMA DeleteKeeps ==
  ASSUME CatalogInv, NEW here, T!delete_path(here)
  PROVE  CatalogInv'
<1>1. /\ Typed(tree) /\ Distinct(tree) /\ Follow(tree, companions, forked)
      /\ forked \subseteq 1..MaxObjects
  BY DEF CatalogInv
<1>2. PICK new, after : new = tree' /\ after = companions'
  OBVIOUS
<1>3. /\ DOMAIN new = DOMAIN tree \ {here} /\ \A p \in DOMAIN new : new[p] = tree[p]
      /\ DOMAIN after = DOMAIN companions \ {here}
      /\ \A p \in DOMAIN after : after[p] = companions[p]
      /\ forked' = forked
  BY <1>2 DEF T!delete_path
<1>4. \A p \in DOMAIN tree : T!parent_path(p) # here
  BY DEF T!delete_path, T!Holds, T!parent_path
<1>5. Typed(new)
  <2>1. \A p \in DOMAIN new : T!IsFolderIn(new, T!parent_path(p))
    BY <1>1, <1>3, <1>4 DEF Typed, T!IsFolderIn
  <2> QED
    BY <1>1, <1>3, <2>1 DEF Typed
<1>6. Distinct(new)
  BY <1>1, <1>3 DEF Distinct
<1>7. Follow(new, after, forked)
  BY <1>1, <1>3 DEF Follow
<1> QED
  BY <1>1, <1>2, <1>3, <1>5, <1>6, <1>7 DEF CatalogInv

(* Where a path goes when one is renamed.                                  *)
Move(here, target, p) ==
  IF T!IsBelow(here, p) THEN target \o SubSeq(p, Len(here) + 1, Len(p)) ELSE p

(* A path starts with another, or does not.                                *)
LEMMA PrefixIs ==
  ASSUME NEW here \in Seq(CatalogNames), NEW p \in Seq(CatalogNames)
  PROVE  /\ T!IsBelow(here, p) <=> Len(here) <= Len(p) /\ \A i \in 1..Len(here) : p[i] = here[i]
         /\ T!IsBelow(here, p) => SubSeq(p, 1, Len(here)) = here
<1>1. SubSeq(here, 1, Len(here)) = here
  BY SubSeqFull
<1>2. ASSUME Len(here) <= Len(p), NEW s, s = SubSeq(p, 1, Len(here))
      PROVE  s \in Seq(CatalogNames) /\ Len(s) = Len(here) /\ \A i \in 1..Len(here) : s[i] = p[i]
  <2>1. Len(here) \in 0..Len(p)
    BY <1>2
  <2> QED
    BY <1>2, <2>1, StartIs
<1>3. ASSUME Len(here) <= Len(p), \A i \in 1..Len(here) : p[i] = here[i]
      PROVE  SubSeq(p, 1, Len(here)) = here
  <2>1. PICK s : s = SubSeq(p, 1, Len(here))
    OBVIOUS
  <2>2. s \in Seq(CatalogNames) /\ Len(s) = Len(here) /\ \A i \in 1..Len(s) : s[i] = here[i]
    BY <1>2, <1>3, <2>1
  <2>3. s = here
    BY <2>2, SeqEqual
  <2> QED
    BY <2>1, <2>3
<1>4. ASSUME Len(here) <= Len(p), SubSeq(p, 1, Len(here)) = here
      PROVE  \A i \in 1..Len(here) : p[i] = here[i]
  BY <1>2, <1>4
<1> QED
  BY <1>1, <1>3, <1>4 DEF T!IsBelow

(* What is behind the path that is renamed stays as it is.                 *)
MovesTo(here, target, p, m) ==
  /\ m \in Seq(CatalogNames) /\ Len(m) = Len(p)
  /\ ~T!IsBelow(here, p) => m = p
  /\ T!IsBelow(here, p) =>
       /\ Len(here) <= Len(p)
       /\ \A i \in 1..Len(here) : p[i] = here[i] /\ m[i] = target[i]
       /\ \A i \in Len(here) + 1..Len(p) : m[i] = p[i]

(* So paths move.                                                          *)
LEMMA MoveIs ==
  ASSUME NEW here \in Seq(CatalogNames), NEW target \in Seq(CatalogNames),
         Len(here) = Len(target), NEW p \in Seq(CatalogNames),
         NEW m, m = Move(here, target, p)
  PROVE  MovesTo(here, target, p, m)
<1>1. CASE ~T!IsBelow(here, p)
  BY <1>1 DEF Move, MovesTo
<1>2. CASE T!IsBelow(here, p)
  <2>1. PICK z : z = SubSeq(p, Len(here) + 1, Len(p))
    OBVIOUS
  <2>2. m = target \o z
    BY <1>2, <2>1 DEF Move
  <2>3. Len(here) <= Len(p) /\ \A i \in 1..Len(here) : p[i] = here[i]
    BY <1>2, PrefixIs
  <2>4. Len(here) \in Nat /\ Len(p) \in Nat
    OBVIOUS
  <2>5. z \in Seq(CatalogNames) /\ Len(z) = Len(p) - Len(here)
    BY <2>1, <2>3, <2>4
  <2>6. z = [i \in 1..Len(p) - Len(here) |-> p[Len(here) + i]]
    BY <2>1, <2>3, <2>4
  <2>7. /\ m \in Seq(CatalogNames) /\ Len(m) = Len(target) + Len(z)
        /\ \A i \in 1..Len(target) + Len(z) :
             m[i] = IF i <= Len(target) THEN target[i] ELSE z[i - Len(target)]
    <3>1. target \in Seq(CatalogNames) /\ z \in Seq(CatalogNames)
      BY <2>5
    <3> QED
      BY <2>2, <3>1, ConcatProperties
  <2>8. \A i \in 1..Len(here) : m[i] = target[i]
    BY <2>3, <2>4, <2>5, <2>7
  <2>9. ASSUME NEW i \in Len(here) + 1..Len(p) PROVE m[i] = p[i]
    <3>1. /\ i \in 1..Len(target) + Len(z) /\ ~(i <= Len(target))
          /\ i - Len(target) \in 1..Len(p) - Len(here) /\ Len(here) + (i - Len(target)) = i
      BY <2>4, <2>5
    <3>2. m[i] = z[i - Len(target)]
      BY <2>7, <3>1
    <3> QED
      BY <2>6, <3>1, <3>2
  <2>10. Len(m) = Len(p)
    BY <2>4, <2>5, <2>7
  <2> QED
    BY <1>2, <2>3, <2>7, <2>8, <2>9, <2>10 DEF MovesTo
<1> QED
  BY <1>1, <1>2

(* What is where a path went is what was there, if no other path went to   *)
(* the same place.                                                         *)
StayApart(f, here, target) ==
  \A p, q \in DOMAIN f : Move(here, target, p) = Move(here, target, q) => p = q
AreMoved(f, here, target, g) ==
  /\ DOMAIN g = {Move(here, target, p) : p \in DOMAIN f}
  /\ \A p \in DOMAIN f : g[Move(here, target, p)] = f[p]

(* So what is at them moves.                                               *)
LEMMA MovedIs ==
  ASSUME NEW f, NEW here, NEW target,
         StayApart(f, here, target), NEW g, g = T!Moved(f, here, target)
  PROVE  AreMoved(f, here, target, g)
<1> DEFINE M(p) == Move(here, target, p)
           from(q) == {p \in DOMAIN f : M(p) = q}
<1>1. g = [q \in {M(p) : p \in DOMAIN f} |->
             f[CHOOSE p \in from(q) : T!IsBelow(here, p) \/ T!Cardinality(from(q)) = 1]]
  BY DEF T!Moved, Move
<1>2. ASSUME NEW p \in DOMAIN f PROVE g[M(p)] = f[p]
  <2>1. PICK q : q = M(p)
    OBVIOUS
  <2>2. from(q) = {p}
    BY <2>1 DEF StayApart
  <2>3. T!Cardinality({p}) = 1
    BY FS_Singleton DEF T!Cardinality, Cardinality
  <2>4. PICK r : r = CHOOSE e \in from(q) : T!IsBelow(here, e) \/ T!Cardinality(from(q)) = 1
    OBVIOUS
  <2>5. \E e \in from(q) : T!IsBelow(here, e) \/ T!Cardinality(from(q)) = 1
    BY <2>2, <2>3
  <2>6. r \in from(q)
    BY <2>4, <2>5
  <2>7. r = p
    BY <2>2, <2>6
  <2>8. q \in {M(e) : e \in DOMAIN f}
    BY <2>1
  <2>9. g[q] = f[r]
    BY <1>1, <2>4, <2>8
  <2> QED
    BY <2>1, <2>7, <2>9
<1>3. DOMAIN g = {M(p) : p \in DOMAIN f}
  BY <1>1
<1> QED
  BY <1>2, <1>3 DEF AreMoved

(* What a rename has to do to keep the catalog: tell paths apart without   *)
(* regard to case, and lead folders to folders.                            *)
Tells(here, target) ==
  /\ here \in DOMAIN tree /\ target \in Seq(CatalogNames) /\ Len(target) = Len(here)
  /\ \A p, q \in DOMAIN tree :
       T!LowerOf(Move(here, target, p)) = T!LowerOf(Move(here, target, q)) => p = q
  /\ \A p \in DOMAIN tree :
       \/ T!parent_path(Move(here, target, p)) = T!Root
       \/ \E r \in DOMAIN tree : /\ tree[r].folder
                                 /\ T!parent_path(Move(here, target, p)) = Move(here, target, r)

(* Such a rename keeps it.                                                 *)
LEMMA MovesKeep ==
  ASSUME CatalogInv, NEW here, NEW target, Tells(here, target),
         tree' = T!Moved(tree, here, target), companions' = T!Moved(companions, here, target),
         forked' = forked
  PROVE  CatalogInv'
<1>1. /\ Typed(tree) /\ Distinct(tree) /\ Follow(tree, companions, forked)
      /\ forked \subseteq 1..MaxObjects
  BY DEF CatalogInv
<1> DEFINE M(p) == Move(here, target, p)
<1>2. /\ here \in DOMAIN tree /\ here \in Seq(CatalogNames) /\ target \in Seq(CatalogNames)
      /\ Len(target) = Len(here)
      /\ \A p, q \in DOMAIN tree : T!LowerOf(M(p)) = T!LowerOf(M(q)) => p = q
  BY <1>1, PathIs DEF Tells, Typed
<1>3. \A p \in DOMAIN tree : /\ p \in Seq(CatalogNames) /\ Len(p) \in 1..MaxDepth
                             /\ M(p) \in Seq(CatalogNames) /\ Len(M(p)) = Len(p)
  <2> TAKE p \in DOMAIN tree
  <2>1. p \in Seq(CatalogNames) /\ Len(p) \in 1..MaxDepth
    BY <1>1, PathIs DEF Typed
  <2>2. PICK m : m = Move(here, target, p)
    OBVIOUS
  <2>3. MovesTo(here, target, p, m)
    BY <1>2, <2>1, <2>2, MoveIs
  <2> QED
    BY <2>1, <2>2, <2>3 DEF MovesTo
<1>4. \A p, q \in DOMAIN tree : M(p) = M(q) => p = q
  BY <1>2
<1>5. DOMAIN companions \subseteq DOMAIN tree
  BY <1>1 DEF Follow
<1>6. PICK new, after : new = tree' /\ after = companions'
  OBVIOUS
<1>7. /\ DOMAIN new = {M(p) : p \in DOMAIN tree}
      /\ \A p \in DOMAIN tree : new[M(p)] = tree[p]
  <2>1. new = T!Moved(tree, here, target) /\ StayApart(tree, here, target)
    BY <1>4, <1>6 DEF StayApart
  <2>2. AreMoved(tree, here, target, new)
    BY <2>1, MovedIs
  <2> QED
    BY <2>2 DEF AreMoved
<1>8. /\ DOMAIN after = {M(p) : p \in DOMAIN companions}
      /\ \A p \in DOMAIN companions : after[M(p)] = companions[p]
  <2>1. after = T!Moved(companions, here, target) /\ StayApart(companions, here, target)
    BY <1>4, <1>5, <1>6 DEF StayApart
  <2>2. AreMoved(companions, here, target, after)
    BY <2>1, MovedIs
  <2> QED
    BY <2>2 DEF AreMoved
<1>9. \A p \in DOMAIN tree : T!parent_path(M(p)) = T!Root \/
        \E r \in DOMAIN tree : tree[r].folder /\ T!parent_path(M(p)) = M(r)
  BY DEF Tells
<1> HIDE DEF M
<1>10. Typed(new)
  <2>1. ASSUME NEW p \in DOMAIN tree
        PROVE  /\ M(p) \in T!PathsBelow
               /\ new[M(p)] \in [id : 1..MaxObjects, folder : BOOLEAN]
               /\ T!IsFolderIn(new, T!parent_path(M(p)))
    <3>1. M(p) \in T!PathsBelow
      BY <1>3, PathIs
    <3>2. new[M(p)] \in [id : 1..MaxObjects, folder : BOOLEAN]
      BY <1>1, <1>7 DEF Typed
    <3>3. T!IsFolderIn(new, T!parent_path(M(p)))
      BY <1>7, <1>9 DEF T!IsFolderIn
    <3> QED
      BY <3>1, <3>2, <3>3
  <2> QED
    BY <1>7, <2>1 DEF Typed
<1>11. Distinct(new)
  BY <1>2, <1>7 DEF Distinct, M
<1>12. Follow(new, after, forked)
  <2>1. ASSUME NEW q \in DOMAIN after PROVE q \in DOMAIN new /\ after[q] = new[q].id
    <3>1. PICK p \in DOMAIN companions : q = M(p)
      BY <1>8
    <3> QED
      BY <1>1, <1>5, <1>7, <1>8, <3>1 DEF Follow
  <2>2. ASSUME NEW q \in DOMAIN new, new[q].id \in forked PROVE q \in DOMAIN after
    <3>1. PICK p \in DOMAIN tree : q = M(p)
      BY <1>7
    <3>2. p \in DOMAIN companions
      BY <1>1, <1>7, <2>2, <3>1 DEF Follow
    <3> QED
      BY <1>8, <3>1, <3>2
  <2> QED
    BY <2>1, <2>2 DEF Follow
<1> QED
  BY <1>1, <1>6, <1>10, <1>11, <1>12 DEF CatalogInv

(* A rename to a name that nothing has, or only the file itself but for    *)
(* case, tells paths apart.                                                *)
LEMMA RenamesTell ==
  ASSUME Typed(tree), Distinct(tree), NEW here \in DOMAIN tree, NEW name \in CatalogNames,
         NEW target, target = Append(T!parent_path(here), name), ~T!Exists(target),
         \A p \in T!hle_path_resolve(target) : T!LowerOf(p) = T!LowerOf(here)
  PROVE  Tells(here, target)
<1> DEFINE M(p) == Move(here, target, p)
<1>1. PICK dir : dir = T!parent_path(here)
  OBVIOUS
<1>2. (dir = T!Root \/ dir \in DOMAIN tree) /\ T!IsFolderIn(tree, dir) /\ target = Append(dir, name)
  BY <1>1 DEF Typed, T!IsFolderIn
<1>3. /\ dir \in Seq(CatalogNames) /\ target \in Seq(CatalogNames) /\ target # T!Root
      /\ Len(dir) \in Nat /\ Len(target) = Len(dir) + 1
      /\ T!parent_path(target) = dir
  BY <1>2, PlaceIs
<1>4. \A p \in DOMAIN tree : p \in Seq(CatalogNames) /\ Len(p) \in Nat /\ Len(p) >= 1
  BY PathIs DEF Typed
<1>5. Len(here) = Len(target) /\ Len(dir) = Len(here) - 1
  <2>1. Len(dir) = Len(here) - 1
    BY <1>1, <1>4, FrontIs
  <2> QED
    BY <1>3, <1>4, <2>1
<1>6. PICK n : n = Len(here)
  OBVIOUS
<1>7. n \in Nat /\ n >= 1 /\ Len(target) = n /\ Len(here) = n
  BY <1>4, <1>5, <1>6
<1>8. ASSUME NEW p \in DOMAIN tree
      PROVE  /\ M(p) \in Seq(CatalogNames) /\ Len(M(p)) = Len(p)
             /\ ~T!IsBelow(here, p) => M(p) = p
             /\ T!IsBelow(here, p) =>
                  /\ n <= Len(p)
                  /\ \A i \in 1..n : p[i] = here[i] /\ M(p)[i] = target[i]
                  /\ \A i \in n + 1..Len(p) : M(p)[i] = p[i]
  <2>1. PICK m : m = M(p)
    OBVIOUS
  <2>2. p \in Seq(CatalogNames) /\ here \in Seq(CatalogNames) /\ Len(here) = Len(target)
    BY <1>4, <1>7
  <2>3. m = Move(here, target, p)
    BY <2>1
  <2>4. MovesTo(here, target, p, m)
    BY <1>3, <2>2, <2>3, MoveIs
  <2> QED
    BY <1>7, <2>1, <2>4 DEF MovesTo
<1> HIDE DEF M
<1>9. ASSUME NEW p \in DOMAIN tree, NEW q \in DOMAIN tree,
             T!LowerOf(M(p)) = T!LowerOf(M(q))
      PROVE  /\ Len(p) = Len(q)
             /\ \A i \in 1..Len(p) : CatalogLower[M(p)[i]] = CatalogLower[M(q)[i]]
  <2>1. PICK u, v : u = M(p) /\ v = M(q)
    OBVIOUS
  <2>2. u \in Seq(CatalogNames) /\ v \in Seq(CatalogNames) /\ Len(u) = Len(p) /\ Len(v) = Len(q)
    BY <1>8, <2>1
  <2>3. Len(u) = Len(v) /\ \A i \in 1..Len(u) : CatalogLower[u[i]] = CatalogLower[v[i]]
    BY <1>9, <2>1, <2>2, LowersAre
  <2> QED
    BY <2>1, <2>2, <2>3
<1>10. ASSUME NEW p \in DOMAIN tree, NEW q \in DOMAIN tree,
              T!IsBelow(here, p), ~T!IsBelow(here, q)
       PROVE  T!LowerOf(M(p)) # T!LowerOf(M(q))
  <2> SUFFICES ASSUME T!LowerOf(M(p)) = T!LowerOf(M(q)) PROVE FALSE
    OBVIOUS
  <2>1. /\ Len(p) = Len(q) /\ n <= Len(q) /\ M(q) = q /\ Len(q) \in Nat
        /\ \A i \in 1..n : CatalogLower[target[i]] = CatalogLower[q[i]]
    BY <1>4, <1>7, <1>8, <1>9, <1>10
  <2>2. PICK s : s = SubSeq(q, 1, n)
    OBVIOUS
  <2>3. n \in 1..Len(q) /\ n \in 0..Len(q) /\ q \in Seq(CatalogNames)
    BY <1>4, <1>7, <2>1
  <2>4. s \in DOMAIN tree
    BY <2>2, <2>3, StartsAreThere
  <2>5. s \in Seq(CatalogNames) /\ Len(s) = n /\ \A i \in 1..n : s[i] = q[i]
    BY <2>2, <2>3, StartIs
  <2>6. T!LowerOf(s) = T!LowerOf(target)
    <3>1. \A i \in 1..Len(s) : CatalogLower[s[i]] = CatalogLower[target[i]]
      BY <2>1, <2>5
    <3>2. Len(s) = Len(target)
      BY <1>7, <2>5
    <3> QED
      BY <1>3, <2>5, <3>1, <3>2, LowersAre
  <2>7. s \in T!hle_path_resolve(target)
    BY <1>2, <2>4, <2>6, Resolves
  <2>8. s = here
    BY <2>4, <2>7 DEF Distinct
  <2>9. T!IsBelow(here, q)
    <3>1. Len(here) <= Len(q) /\ \A i \in 1..Len(here) : q[i] = here[i]
      BY <1>7, <2>1, <2>5, <2>8
    <3> QED
      BY <1>4, <2>3, <3>1, PrefixIs
  <2> QED
    BY <1>10, <2>9
<1>11. ASSUME NEW p \in DOMAIN tree, NEW q \in DOMAIN tree,
              T!IsBelow(here, p), T!IsBelow(here, q), T!LowerOf(M(p)) = T!LowerOf(M(q))
       PROVE  p = q
  <2>1. \A i \in 1..Len(p) : CatalogLower[p[i]] = CatalogLower[q[i]]
    <3> TAKE i \in 1..Len(p)
    <3>1. Len(p) \in Nat /\ Len(q) = Len(p)
      BY <1>4, <1>9, <1>11
    <3>2. CASE i \in 1..n
      BY <1>8, <1>11, <3>2
    <3>3. CASE i \in n + 1..Len(p)
      BY <1>8, <1>9, <1>11, <3>1, <3>3
    <3> QED
      BY <1>7, <3>1, <3>2, <3>3
  <2>2. T!LowerOf(p) = T!LowerOf(q)
    BY <1>4, <1>9, <1>11, <2>1, LowersAre
  <2> QED
    BY <2>2 DEF Distinct
<1>12. ASSUME NEW p \in DOMAIN tree, NEW q \in DOMAIN tree, T!LowerOf(M(p)) = T!LowerOf(M(q))
       PROVE  p = q
  <2>1. CASE ~T!IsBelow(here, p) /\ ~T!IsBelow(here, q)
    BY <1>8, <1>12, <2>1 DEF Distinct
  <2> QED
    BY <1>10, <1>11, <1>12, <2>1
<1>13. ASSUME NEW p \in DOMAIN tree
       PROVE  T!parent_path(M(p)) = T!Root \/
                \E r \in DOMAIN tree : tree[r].folder /\ T!parent_path(M(p)) = M(r)
  <2>1. PICK f : f = T!parent_path(p)
    OBVIOUS
  <2>2. f \in Seq(CatalogNames) /\ Len(f) = Len(p) - 1 /\ \A i \in 1..Len(p) - 1 : f[i] = p[i]
    BY <1>4, <2>1, FrontIs
  <2>3. f = T!Root \/ (f \in DOMAIN tree /\ tree[f].folder)
    BY <2>1 DEF Typed, T!IsFolderIn
  <2>4. Len(p) \in Nat /\ Len(p) >= 1 /\ p \in Seq(CatalogNames) /\ here \in Seq(CatalogNames)
    BY <1>4
  <2>5. T!IsBelow(here, f) <=> n <= Len(f) /\ \A i \in 1..n : f[i] = here[i]
    BY <1>7, <2>2, <2>4, PrefixIs
  <2>6. T!IsBelow(here, p) <=> n <= Len(p) /\ \A i \in 1..n : p[i] = here[i]
    BY <1>7, <2>4, PrefixIs
  <2>7. CASE ~T!IsBelow(here, p)
    <3>1. ~T!IsBelow(here, f)
      <4>1. ASSUME n <= Len(f), \A i \in 1..n : f[i] = here[i]
            PROVE  n <= Len(p) /\ \A i \in 1..n : p[i] = here[i]
        <5>1. n <= Len(p) /\ \A i \in 1..n : i \in 1..Len(p) - 1
          BY <1>7, <2>2, <2>4, <4>1
        <5> QED
          BY <2>2, <4>1, <5>1
      <4> QED
        BY <2>5, <2>6, <2>7, <4>1
    <3>2. M(p) = p /\ (f \in DOMAIN tree => M(f) = f)
      BY <1>8, <2>7, <3>1
    <3> QED
      BY <2>1, <2>3, <3>2
  <2>8. CASE T!IsBelow(here, p) /\ Len(p) = n
    <3>1. p = here
      <4>1. Len(p) = Len(here) /\ \A i \in 1..Len(p) : p[i] = here[i]
        BY <1>7, <2>6, <2>8
      <4> QED
        BY <2>4, <4>1, SeqEqual
    <3>2. M(p) = target
      <4>1. M(p) \in Seq(CatalogNames) /\ Len(M(p)) = Len(target)
        BY <1>7, <1>8, <2>8
      <4>2. \A i \in 1..Len(M(p)) : M(p)[i] = target[i]
        BY <1>7, <1>8, <2>8
      <4> QED
        BY <1>3, <4>1, <4>2, SeqEqual
    <3>3. T!parent_path(M(p)) = f
      BY <1>1, <1>3, <2>1, <3>1, <3>2
    <3>4. ~T!IsBelow(here, f)
      BY <1>7, <2>2, <2>4, <2>5, <2>8
    <3> QED
      BY <1>8, <2>3, <3>3, <3>4
  <2>9. CASE T!IsBelow(here, p) /\ Len(p) # n
    <3>1. n <= Len(p) - 1 /\ Len(p) - 1 \in Nat /\ \A i \in 1..n : i \in 1..Len(p) - 1
      BY <1>7, <2>4, <2>6, <2>9
    <3>2. T!IsBelow(here, f)
      BY <2>2, <2>5, <2>6, <2>9, <3>1
    <3>3. f # T!Root /\ f \in DOMAIN tree
      BY <1>7, <2>2, <2>3, <3>1 DEF T!Root
    <3>4. PICK m, u, w : m = M(p) /\ u = T!parent_path(m) /\ w = M(f)
      OBVIOUS
    <3>5. m \in Seq(CatalogNames) /\ Len(m) = Len(p) /\ w \in Seq(CatalogNames) /\ Len(w) = Len(p) - 1
      BY <1>8, <2>2, <3>3, <3>4
    <3>6. u \in Seq(CatalogNames) /\ Len(u) = Len(p) - 1 /\ \A i \in 1..Len(p) - 1 : u[i] = m[i]
      BY <2>4, <3>4, <3>5, FrontIs
    <3>7. \A i \in 1..Len(p) - 1 : m[i] = w[i]
      <4> TAKE i \in 1..Len(p) - 1
      <4>1. CASE i \in 1..n
        BY <1>8, <2>9, <3>2, <3>3, <3>4, <4>1
      <4>2. CASE i \in n + 1..Len(p) - 1
        <5>1. i \in n + 1..Len(p) /\ i \in n + 1..Len(f) /\ f[i] = p[i]
          BY <1>7, <2>2, <2>4, <4>2
        <5> QED
          BY <1>8, <2>9, <3>2, <3>3, <3>4, <5>1
      <4> QED
        BY <1>7, <3>1, <4>1, <4>2
    <3>8. u = w
      <4>1. \A i \in 1..Len(u) : u[i] = w[i]
        BY <3>6, <3>7
      <4> QED
        BY <3>5, <3>6, <4>1, SeqEqual
    <3> QED
      BY <2>3, <3>3, <3>4, <3>8
  <2> QED
    BY <2>7, <2>8, <2>9
<1> QED
  BY <1>3, <1>5, <1>12, <1>13 DEF Tells, M

(* A rename, to another case of the same name too.                         *)
LEMMA RenamingKeeps ==
  ASSUME CatalogInv, NEW here, NEW name \in CatalogNames, T!FSRenameUnicode(here, name)
  PROVE  CatalogInv'
<1>1. Typed(tree) /\ Distinct(tree)
  BY DEF CatalogInv
<1>2. PICK target : target = Append(T!parent_path(here), name)
  OBVIOUS
<1>3. /\ here \in DOMAIN tree
      /\ \A p \in T!hle_path_resolve(target) : T!LowerOf(p) = T!LowerOf(here)
      /\ tree' = T!Moved(tree, here, target) /\ companions' = T!Moved(companions, here, target)
      /\ forked' = forked
  BY <1>2 DEF T!FSRenameUnicode, T!CompanionsMoved, T!parent_path
<1>4. \A p \in DOMAIN tree : p \in Seq(CatalogNames) /\ Len(p) \in Nat /\ Len(p) >= 1
  BY <1>1, PathIs DEF Typed
<1>5. ASSUME ~T!Exists(target) PROVE CatalogInv'
  <2>1. Tells(here, target)
    BY <1>1, <1>2, <1>3, <1>5, RenamesTell
  <2> QED
    BY <1>3, <2>1, MovesKeep
<1>6. ASSUME T!Exists(target) PROVE CatalogInv'
  <2>1. target # T!Root
    <3>1. T!parent_path(here) = T!Root \/ T!parent_path(here) \in DOMAIN tree
      BY <1>1, <1>3 DEF Typed, T!IsFolderIn
    <3> QED
      BY <1>1, <1>2, <3>1, PlaceIs
  <2>2. target \in DOMAIN tree /\ T!hle_path_resolve(target) = {target}
    BY <1>6, <2>1 DEF T!Exists, T!hle_path_resolve
  <2>3. target = here
    BY <1>1, <1>3, <2>2 DEF Distinct
  <2>4. ASSUME NEW p \in DOMAIN tree PROVE Move(here, here, p) = p
    <3>1. PICK m : m = Move(here, here, p)
      OBVIOUS
    <3>2. MovesTo(here, here, p, m)
      BY <1>3, <1>4, <3>1, MoveIs
    <3>3. CASE ~T!IsBelow(here, p)
      BY <3>1, <3>2, <3>3 DEF MovesTo
    <3>4. CASE T!IsBelow(here, p)
      <4>1. /\ m \in Seq(CatalogNames) /\ Len(m) = Len(p) /\ Len(here) <= Len(p)
            /\ \A i \in 1..Len(here) : m[i] = p[i]
            /\ \A i \in Len(here) + 1..Len(p) : m[i] = p[i]
        BY <3>2, <3>4 DEF MovesTo
      <4>2. Len(here) \in Nat /\ Len(p) \in Nat /\ p \in Seq(CatalogNames)
        BY <1>3, <1>4
      <4>3. \A i \in 1..Len(m) : m[i] = p[i]
        BY <4>1, <4>2
      <4> QED
        BY <3>1, <4>1, <4>2, <4>3, SeqEqual
    <3> QED
      BY <3>3, <3>4
  <2>5. Tells(here, here)
    <3>1. \A p \in DOMAIN tree : T!parent_path(p) = T!Root \/
            \E r \in DOMAIN tree : tree[r].folder /\ T!parent_path(p) = r
      BY <1>1 DEF Typed, T!IsFolderIn
    <3> QED
      BY <1>1, <1>3, <1>4, <2>4, <3>1 DEF Tells, Distinct
  <2> QED
    BY <1>3, <2>3, <2>5, MovesKeep
<1> QED
  BY <1>5, <1>6

(* What is numbered has a number each.                                     *)
LEMMA NumbersAre ==
  ASSUME NEW S, IsFiniteSet(S), Cardinality(S) < MaxObjects, NEW number,
         number = CHOOSE n \in [S -> 1..Cardinality(S)] : \A p, q \in S : n[p] = n[q] => p = q
  PROVE  /\ \A p \in S : number[p] \in 1..MaxObjects
         /\ \A p, q \in S : number[p] = number[q] => p = q
<1>1. PICK m \in Nat : m = Cardinality(S)
  BY FS_CardinalityType
<1>2. Cardinality(1..m) = m
  <2>1. Cardinality(1..m) = IF 1 > m THEN 0 ELSE m - 1 + 1
    BY FS_Interval
  <2> QED
    BY <2>1
<1>3. IsFiniteSet(1..m)
  BY FS_Interval
<1>4. ExistsBijection(S, 1..m)
  BY <1>1, <1>2, <1>3, FS_SameCardinalityBij
<1>5. \E n \in [S -> 1..m] : \A p, q \in S : n[p] = n[q] => p = q
  BY <1>4 DEF ExistsBijection, Bijection, Injection, IsInjective
<1>6. number \in [S -> 1..m] /\ \A p, q \in S : number[p] = number[q] => p = q
  <2>1. number = CHOOSE n \in [S -> 1..m] : \A p, q \in S : n[p] = n[q] => p = q
    BY <1>1
  <2> QED
    BY <1>5, <2>1
<1>7. m < MaxObjects /\ MaxObjects \in Nat
  BY <1>1, ObjectsAreCounted
<1>8. \A p \in S : number[p] \in 1..m
  BY <1>6
<1>9. \A i \in 1..m : i \in 1..MaxObjects
  BY <1>7
<1> QED
  BY <1>6, <1>8, <1>9

(* A game is installed as a tree of a Mac's.                               *)
LEMMA CatalogStart ==
  ASSUME T!Init
  PROVE  CatalogInv
<1>1. PICK paths, folders :
        /\ paths \subseteq T!PathsBelow /\ T!IsFiniteSet(paths)
        /\ T!Cardinality(paths) < MaxObjects /\ tree = T!Numbered(paths, folders)
  BY DEF T!Init
<1>2. IsFiniteSet(paths) /\ Cardinality(paths) < MaxObjects /\ T!Cardinality(paths) = Cardinality(paths)
  BY <1>1 DEF T!IsFiniteSet, IsFiniteSet, T!Cardinality, Cardinality
<1>3. PICK number :
        number = CHOOSE n \in [paths -> 1..Cardinality(paths)] : \A p, q \in paths : n[p] = n[q] => p = q
  OBVIOUS
<1>4. /\ \A p \in paths : number[p] \in 1..MaxObjects
      /\ \A p, q \in paths : number[p] = number[q] => p = q
  BY <1>2, <1>3, NumbersAre
<1>5. /\ DOMAIN tree = paths
      /\ \A p \in paths : tree[p] \in [id : 1..MaxObjects, folder : BOOLEAN]
      /\ \A p, q \in paths : tree[p].id = tree[q].id => p = q
  <2>1. tree = [p \in paths |-> [id |-> number[p], folder |-> p \in folders]]
    BY <1>1, <1>2, <1>3 DEF T!Numbered, T!Object
  <2>2. \A p \in paths : (p \in folders) \in BOOLEAN
    OBVIOUS
  <2> QED
    BY <1>4, <2>1, <2>2
<1>6. Typed(tree) /\ Distinct(tree)
  BY <1>1, <1>5 DEF T!Init, T!IsMacs, Typed, Distinct, T!parent_path
<1>7. PICK owners \in SUBSET DOMAIN tree : companions = [p \in owners |-> tree[p].id]
  BY DEF T!Init
<1>8. forked = {tree[p].id : p \in owners}
  BY <1>7 DEF T!Init
<1>9. Follow(tree, companions, forked) /\ forked \subseteq 1..MaxObjects
  <2>1. forked \subseteq 1..MaxObjects
    BY <1>5, <1>7, <1>8
  <2>2. ASSUME NEW p \in DOMAIN tree, tree[p].id \in forked PROVE p \in DOMAIN companions
    <3>1. PICK q \in owners : tree[q].id = tree[p].id
      BY <1>8, <2>2
    <3>2. p = q
      BY <1>5, <1>7, <3>1
    <3> QED
      BY <1>7, <3>1, <3>2
  <2> QED
    BY <1>7, <2>1, <2>2 DEF Follow
<1> QED
  BY <1>6, <1>9 DEF CatalogInv

(* A step of the catalog.                                                  *)
LEMMA CatalogKept ==
  ASSUME CatalogInv, [T!Next]_(T!vars)
  PROVE  CatalogInv'
<1>1. CASE UNCHANGED T!vars
  BY <1>1 DEF T!vars, CatalogInv, Typed, Distinct, Follow
<1>2. ASSUME NEW dir \in T!NodeIDs, NEW name \in CatalogNames, NEW folder \in BOOLEAN,
             T!create_in(dir, name, folder)
      PROVE  CatalogInv'
  <2>1. T!IsFolderIn(tree, dir) /\ \E here \in T!hle_join(dir, name) : T!Creates(here, folder)
    BY <1>2 DEF T!create_in
  <2> QED
    BY <2>1, CreateKeeps
<1>3. ASSUME NEW dir \in T!NodeIDs, NEW name \in CatalogNames, NEW source \in T!FSRefs,
             T!PBHCopyFileSync(source, dir, name)
      PROVE  CatalogInv'
  <2>1. T!IsFolderIn(tree, dir) /\ \E here \in T!hle_join(dir, name) : T!Creates(here, FALSE)
    BY <1>3 DEF T!PBHCopyFileSync
  <2> QED
    BY <2>1, CreateKeeps
<1>4. ASSUME NEW dir \in T!NodeIDs, NEW name \in CatalogNames, T!FSpDelete(dir, name)
      PROVE  CatalogInv'
  <2>1. PICK here \in T!hle_join(dir, name) : T!delete_path(here)
    BY <1>4 DEF T!FSpDelete
  <2> QED
    BY <2>1, DeleteKeeps
<1>5. ASSUME NEW here \in T!FSRefs, T!delete_path(here) PROVE CatalogInv'
  BY <1>5, DeleteKeeps
<1>6. ASSUME NEW here \in T!FSRefs, NEW name \in CatalogNames, T!FSRenameUnicode(here, name)
      PROVE  CatalogInv'
  <2>1. T!FSRenameUnicode(here, name)
    BY <1>6
  <2> QED
    BY <2>1, RenamingKeeps
<1> QED
  BY <1>1, <1>2, <1>3, <1>4, <1>5, <1>6 DEF T!Next

(* Whatever the game makes, copies, renames and deletes, in folders nested *)
(* any deep: no folder has two things of one name but for case, each       *)
(* companion is beside its file, and a file that was installed with a      *)
(* resource fork has it.                                                   *)
THEOREM CatalogKeeps == FilesSpec => []FilesAreKept
<1> DEFINE Inv == part = "catalog" => CatalogInv
<1>1. FilesInit => Inv
  BY CatalogStart DEF FilesInit
<1>2. Inv /\ [FilesNext]_filesVars => Inv'
  BY FilesSteps, CatalogKept
<1>3. Inv => FilesAreKept
  BY DEF CatalogInv, Distinct, Follow, FilesAreKept, T!CatalogIsKept, T!NamesAreDistinct,
         T!ForksFollow
<1> QED
  BY <1>1, <1>2, <1>3, PTL DEF FilesSpec
=============================================================================
