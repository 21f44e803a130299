-------------------------------- MODULE Loader --------------------------------
(***************************************************************************)
(* MachOLoader of src/ld-mac.cc: an image is mapped and its exports are    *)
(* registered, then its libraries are mapped, one inside the other; only   *)
(* when every image of the load is mapped are their imports bound, and     *)
(* only then do their initializers run.  The program, or one of its        *)
(* initializers, may open more libraries in between, and close them.       *)
(*                                                                         *)
(* An image is the number of its mapping: a file that is mapped twice is   *)
(* two images.  0 stands for NULL, and for what libmac and the Linux       *)
(* libraries provide.                                                      *)
(***************************************************************************)
EXTENDS Naturals, Sequences, SequencesExt

CONSTANTS Executable,
          Libraries,  \* Mach-O libraries of the program's own
          System,     \* a library whose path starts with /
          Names,
          FlatFiles,  \* files without MH_TWOLEVEL
          DepLists,   \* what LC_LOAD_DYLIB commands may list
          MaxOpens    \* bound: calls of dlopen

SELF == 0
MAX_LIBRARY_ORDINAL == 253
DYNAMIC_LOOKUP == 254
EXECUTABLE == 255

Files == Libraries \cup {Executable}
ASSUME FilesDiffer == Executable \notin Libraries /\ System \notin Files
ASSUME ListsAreLists ==
  DepLists \subseteq {s \in Seq(Libraries \cup {System}) : Len(s) <= MAX_LIBRARY_ORDINAL}
ASSUME OpensBound == MaxOpens \in Nat

VARIABLES
  dylibs, exports,     \* what the files say
  images,              \* the file and libraries of each mapped image
  loaded_dylibs_, dylib_exports_, exports_,
  mapping,             \* mapImage calls that have not returned
  mapped,              \* images of the current load not bound yet
  loading,             \* whether load is being called
  init_funcs_,
  running,             \* runInitFuncs calls that have not returned
  handles, opens,      \* open handles of dlopen; calls made
  bound,               \* history: what the last import was bound to
  ran                  \* history: the initializers that were called

files == <<dylibs, exports>>
maps == <<images, loaded_dylibs_, dylib_exports_, exports_, mapping, mapped>>
vars == <<files, maps, loading, init_funcs_, running, handles, opens, bound, ran>>

Image(f) == [file |-> f, libraries |-> <<>>]
Last1(s) == s[Len(s)]
(* load(mach), on the way into mapImage for the image numbered i.          *)
loadExports(f, i, registered) ==
  [n \in Names |->
     IF registered[n] = 0 /\ n \in exports[f] THEN i ELSE registered[n]]

InitFiles == dylibs \in [Files -> DepLists] /\ exports \in [Files -> SUBSET Names]

InitLoader ==
  /\ images = <<Image(Executable)>>
  /\ loaded_dylibs_ = {}
  /\ dylib_exports_ = [f \in Libraries |-> 0]
  /\ exports_ = loadExports(Executable, 1, [n \in Names |-> 0])
  /\ mapping = <<[image |-> 1, next |-> 1]>>
  /\ mapped = <<>>
  /\ loading = TRUE
  /\ init_funcs_ = <<>>
  /\ running = <<>>
  /\ handles = {}
  /\ opens = 0
  /\ bound = {}
  /\ ran = <<>>

Init == InitFiles /\ InitLoader

-----------------------------------------------------------------------------
(* mapDylibs, one library of the innermost mapImage call at a time.        *)
Maps == mapping # <<>>
top == Last1(mapping)
Wanted == dylibs[images[top.image].file]
HasMore == Maps /\ top.next <= Len(Wanted)
dylib == Wanted[top.next]
Linked(ims, i) ==
  [ims EXCEPT ![top.image] = [file |-> @.file, libraries |-> Append(@.libraries, i)]]
Advanced ==
  [mapping EXCEPT ![Len(mapping)] = [image |-> @.image, next |-> @.next + 1]]

AlreadyLoaded ==
  /\ HasMore /\ dylib \in loaded_dylibs_
  /\ images' = Linked(images, IF dylib = System THEN 0 ELSE dylib_exports_[dylib])
  /\ mapping' = Advanced
  /\ UNCHANGED <<loaded_dylibs_, dylib_exports_, exports_, mapped, loading, init_funcs_>>

SystemLibrary ==
  /\ HasMore /\ dylib \notin loaded_dylibs_ /\ dylib = System
  /\ loaded_dylibs_' = loaded_dylibs_ \cup {dylib}
  /\ images' = Linked(images, 0)
  /\ mapping' = Advanced
  /\ UNCHANGED <<dylib_exports_, exports_, mapped, loading, init_funcs_>>

(* The library is known by its path before its own libraries are mapped.   *)
MapsLibrary ==
  /\ HasMore /\ dylib \notin loaded_dylibs_ /\ dylib # System
  /\ LET new == Len(images) + 1
     IN /\ loaded_dylibs_' = loaded_dylibs_ \cup {dylib}
        /\ images' = Append(Linked(images, new), Image(dylib))
        /\ dylib_exports_' = [dylib_exports_ EXCEPT ![dylib] = new]
        /\ exports_' = loadExports(dylib, new, exports_)
        /\ mapping' = Append(Advanced, [image |-> new, next |-> 1])
  /\ UNCHANGED <<mapped, loading, init_funcs_>>

(* Faulty variant: an image's initializers go ahead of its libraries'.     *)
MapImageReturns_OwnFirst ==
  /\ Maps /\ ~HasMore
  /\ init_funcs_' = <<top.image>> \o init_funcs_
  /\ mapped' = Append(mapped, top.image)
  /\ mapping' = Front(mapping)
  /\ UNCHANGED <<images, loaded_dylibs_, dylib_exports_, exports_, loading>>

MapImageReturns ==
  /\ Maps /\ ~HasMore
  /\ init_funcs_' = Append(init_funcs_, top.image)
  /\ mapped' = Append(mapped, top.image)
  /\ mapping' = Front(mapping)
  /\ UNCHANGED <<images, loaded_dylibs_, dylib_exports_, exports_, loading>>

mapImage ==
  /\ AlreadyLoaded \/ SystemLibrary \/ MapsLibrary \/ MapImageReturns
  /\ UNCHANGED <<files, running, handles, opens, bound, ran>>

-----------------------------------------------------------------------------
resolveName(n, mach_exports) == IF mach_exports THEN exports_[n] ELSE 0

In(i, ordinal) ==
  LET libraries == images[i].libraries
  IN CASE ordinal = SELF -> i
       [] ordinal = EXECUTABLE -> 1
       [] ordinal \in DOMAIN libraries -> libraries[ordinal]
       [] OTHER -> 0

(* A two-level import binds to the library its ordinal names.  A Mach-O    *)
(* library may re-export another's symbol; a system library's stand-ins    *)
(* are never the game's own.                                               *)
resolveBind(i, n, ordinal) ==
  LET in == In(i, ordinal)
  IN IF images[i].file \in FlatFiles \/ ordinal = DYNAMIC_LOOKUP
     THEN resolveName(n, TRUE)
     ELSE IF in # 0 /\ n \in exports[images[in].file]
          THEN in
          ELSE resolveName(n, in # 0)

Ordinals(i) == (1..Len(dylibs[images[i].file])) \cup {SELF, DYNAMIC_LOOKUP, EXECUTABLE}

(* doBind, of an image that imports any one name from any one place.       *)
doBind ==
  /\ ~Maps /\ mapped # <<>>
  /\ \E n \in Names, o \in Ordinals(Head(mapped)) :
       bound' = {[image |-> Head(mapped), name |-> n, ordinal |-> o,
                   target |-> resolveBind(Head(mapped), n, o)]}
  /\ mapped' = Tail(mapped)
  /\ UNCHANGED <<files, images, loaded_dylibs_, dylib_exports_, exports_, mapping,
                 loading, init_funcs_, running, handles, opens, ran>>

(* load returns to run, or to dlopen, which call runInitFuncs.             *)
LoadReturns ==
  /\ loading /\ ~Maps /\ mapped = <<>>
  /\ loading' = FALSE
  /\ running' = Append(running, [at |-> 1, opened |-> IF opens = 0 THEN 0 ELSE Last1(init_funcs_)])
  /\ bound' = {}
  /\ UNCHANGED <<files, maps, init_funcs_, handles, opens, ran>>

-----------------------------------------------------------------------------
InitRuns == ~loading /\ running # <<>> /\ Last1(running).at <= Len(init_funcs_)

CallsInitFunc ==
  /\ InitRuns
  /\ ran' = Append(ran, init_funcs_[Last1(running).at])
  /\ running' = [running EXCEPT ![Len(running)] = [at |-> @.at + 1, opened |-> @.opened]]
  /\ UNCHANGED <<files, maps, loading, init_funcs_, handles, opens, bound>>

(* The initializers of every load that is under way are done.              *)
runInitFuncs ==
  /\ init_funcs_' = <<>>
  /\ running' = Front(running)

RunInitFuncsReturns ==
  /\ ~loading /\ running # <<>> /\ ~InitRuns
  /\ runInitFuncs
  /\ handles' = handles \cup ({Last1(running).opened} \ {0})
  /\ UNCHANGED <<files, maps, loading, opens, bound, ran>>

(* Mac code runs: the program, or an initializer that has been called.     *)
GameRuns == ~loading /\ (running # <<>> => Last1(running).at > 1)

OpenedAs(f) == UNCHANGED <<loaded_dylibs_, dylib_exports_>>

(* The file is mapped, whether or not it is mapped already.                *)
ld_mac_dlopen(f) ==
  /\ GameRuns
  /\ opens < MaxOpens
  /\ opens' = opens + 1
  /\ images' = Append(images, Image(f))
  /\ exports_' = loadExports(f, Len(images) + 1, exports_)
  /\ mapping' = <<[image |-> Len(images) + 1, next |-> 1]>>
  /\ loading' = TRUE
  /\ OpenedAs(f)
  /\ UNCHANGED <<files, mapped, init_funcs_, running, handles, bound, ran>>

(* Deletes the handle's table of exports; nothing is unmapped.             *)
ld_mac_dlclose(i) ==
  /\ GameRuns
  /\ i \in handles
  /\ handles' = handles \ {i}
  /\ UNCHANGED <<files, maps, loading, init_funcs_, running, opens, bound, ran>>

Next ==
  \/ mapImage \/ doBind \/ LoadReturns \/ CallsInitFunc \/ RunInitFuncsReturns
  \/ \E f \in Libraries : ld_mac_dlopen(f)
  \/ \E i \in handles : ld_mac_dlclose(i)

Spec == Init /\ [][Next]_vars

-----------------------------------------------------------------------------
(* Every variable has its type.                                            *)
Numbers == 1..Len(images)
TypeOK ==
  /\ dylibs \in [Files -> DepLists]
  /\ exports \in [Files -> SUBSET Names]
  /\ images \in Seq([file : Files, libraries : Seq(0..Len(images))])
  /\ loaded_dylibs_ \subseteq Libraries \cup {System}
  /\ dylib_exports_ \in [Libraries -> 0..Len(images)]
  /\ exports_ \in [Names -> 0..Len(images)]
  /\ mapping \in Seq([image : Numbers, next : Nat \ {0}])
  /\ mapped \in Seq(Numbers)
  /\ loading \in BOOLEAN
  /\ init_funcs_ \in Seq(Numbers)
  /\ running \in Seq([at : Nat \ {0}, opened : 0..Len(images)])
  /\ handles \subseteq Numbers
  /\ opens \in 0..MaxOpens
  /\ bound \subseteq [image : Numbers, name : Names, ordinal : 0..EXECUTABLE,
                      target : 0..Len(images)]
  /\ ran \in Seq(Numbers)

(* Images that are there because another image needs them.                 *)
Needed == Range(dylib_exports_) \ {0}

(* Libraries load each other in cycles, and yet the file another image     *)
(* needs is mapped once for all that need it, by its own path.             *)
OneImagePerLibrary ==
  \A i \in Numbers : \A k \in DOMAIN images[i].libraries :
    LET f == dylibs[images[i].file][k] l == images[i].libraries[k]
    IN IF f = System THEN l = 0 ELSE l \in Numbers /\ l = dylib_exports_[f] /\ images[l].file = f

(* Imports bind by the library each one names.  A two-level import that    *)
(* names a library of the game's gets that library's definition when there *)
(* is one, whatever was mapped first, and one that names a system library  *)
(* never gets the game's.                                                  *)
BoundWhereTold ==
  \A b \in bound :
    LET f == images[b.image].file wanted == dylibs[f]
    IN f \notin FlatFiles /\ b.ordinal \in DOMAIN wanted =>
         IF wanted[b.ordinal] = System THEN b.target = 0
         ELSE b.name \in exports[wanted[b.ordinal]] =>
                b.target # 0 /\ images[b.target].file = wanted[b.ordinal]

(* A library's initializers run before those of the image that loads it,   *)
(* unless that image was on the way into mapping it: then they load each   *)
(* other, and whatever the library leads to leads to that image.           *)
Loads(i) == Range(images[i].libraries) \ {0}
LoadsEachOther(i, j) ==
  \A leads \in SUBSET Numbers :
    j \in leads /\ (\A k \in leads : Loads(k) \subseteq leads) => i \in leads
RanBefore(i, j) ==
  \E p \in DOMAIN ran : ran[p] = i /\ \A q \in 1..p : ran[q] # j
LibrariesInitializeFirst ==
  \A i \in Range(ran) : \A j \in Loads(i) :
    LoadsEachOther(i, j) \/ RanBefore(j, i)

(* A table of exports that dlclose deletes is in no other table.           *)
ClosedIsForgotten == \A i \in Needed \cup {1} : i \notin handles

(* All of these: libraries are mapped once, imports bind in the library    *)
(* they name, initializers run in order, and handles are closed alone.     *)
LibrariesAreLoaded ==
  OneImagePerLibrary /\ BoundWhereTold /\ LibrariesInitializeFirst /\ ClosedIsForgotten
=============================================================================
