------------------------------ MODULE FileParts ------------------------------
(***************************************************************************)
(* Instances of WeakBinds, Forks, Resources and Preferences: the parts of  *)
(* MCFiles in which calls meet, of threads, of processes and of images     *)
(* that are bound one after the other.                                     *)
(*                                                                         *)
(* They share no state, and the tables of forks and of resource files have *)
(* a lock each: a resource file is read whole by a path of its own,        *)
(* without a fork, and preferences are stdio's files.  Each is run by      *)
(* itself, and the initial states choose which.                            *)
(***************************************************************************)
EXTENDS Integers, FiniteSets

CONSTANTS Images, LastImage, WeakNames, MayBeClassic,
          Threads, Forked, ReadOnly, HasResource, MAX_FORKS, Descriptors,
          Offsets, Counts, MaxSize,
          Paths, Ids, MaxFiles, MaxHandles,
          Processes, PrefsDicts, EmptyDict, DeepDicts,
          CatalogNames, CatalogLower, MaxDepth, MaxObjects

VARIABLES part,
          classic, slid, defines, uses, binds, image, last_weak_name,
          last_weak_sym, seen_weak_binds_, seen_weak_bind_index,
          seen_weak_binds_orig_size, pointers, stubs,
          forks, fds, size, call,
          holds, path, chain, current_refnum, next_refnum, loaded, heap,
          made, frees, game, struck, itl0, res_call,
          prefs, tmp, read_in, values, dirty, writes, latest,
          tree, companions, forked

weakVars == <<classic, slid, defines, uses, binds, image, last_weak_name,
              last_weak_sym, seen_weak_binds_, seen_weak_bind_index,
              seen_weak_binds_orig_size, pointers, stubs>>
forkVars == <<forks, fds, size, call>>
resourceVars == <<holds, path, chain, current_refnum, next_refnum, loaded, heap,
                  made, frees, game, struck, itl0, res_call>>
prefsVars == <<prefs, tmp, read_in, values, dirty, writes, latest>>
catalogVars == <<tree, companions, forked>>
filesVars == <<part, weakVars, forkVars, resourceVars, prefsVars, catalogVars>>

W == INSTANCE WeakBinds WITH Executable <- LastImage, Names <- WeakNames,
                             Classic <- MayBeClassic
F == INSTANCE Forks WITH Files <- Forked
R == INSTANCE Resources WITH call <- res_call
P == INSTANCE Preferences WITH file <- prefs, loaded <- read_in, step <- writes,
                               Dictionaries <- PrefsDicts, Empty <- EmptyDict,
                               TooDeep <- DeepDicts
T == INSTANCE Catalog WITH Names <- CatalogNames, Lower <- CatalogLower

(* What the theorems assume of the constants: images are numbered, and a   *)
(* name is its number in the order of strcmp; a descriptor is no -1 and no *)
(* file is called "none"; what cannot be read is no dictionary.            *)
ASSUME ImagesAreNumbered ==
  /\ IsFiniteSet(Images) /\ Images = 1..Cardinality(Images) /\ LastImage \in Images
  /\ IsFiniteSet(WeakNames) /\ WeakNames \subseteq Nat \ {0}
ASSUME ForksAreCounted ==
  /\ Descriptors \subseteq Nat /\ "none" \notin Forked
  /\ MAX_FORKS \in Nat /\ MaxSize \in Nat
  /\ Offsets \subseteq Int /\ Counts \subseteq Nat
ASSUME HandlesAreCounted == MaxFiles \in Nat /\ MaxHandles \in Nat
ASSUME DictionariesAreText ==
  EmptyDict \in PrefsDicts /\ P!Absent \notin PrefsDicts /\ P!Torn \notin PrefsDicts
ASSUME ObjectsAreCounted == MaxDepth \in Nat /\ MaxObjects \in Nat

(* The variables of a part that is not run stay 0.                         *)
Off(variable) == variable = 0
FilesInit ==
  /\ IF part = "weak" THEN W!Init ELSE
       /\ Off(classic) /\ Off(slid) /\ Off(defines) /\ Off(uses)
       /\ Off(binds) /\ Off(image) /\ Off(last_weak_name)
       /\ Off(last_weak_sym) /\ Off(seen_weak_binds_)
       /\ Off(seen_weak_bind_index) /\ Off(seen_weak_binds_orig_size)
       /\ Off(pointers) /\ Off(stubs)
  /\ IF part = "forks" THEN F!Init ELSE
       /\ Off(forks) /\ Off(fds) /\ Off(size) /\ Off(call)
  /\ IF part = "resources" THEN R!Init ELSE
       /\ Off(holds) /\ Off(path) /\ Off(chain) /\ Off(current_refnum)
       /\ Off(next_refnum) /\ Off(loaded) /\ Off(heap) /\ Off(made)
       /\ Off(frees) /\ Off(game) /\ Off(struck) /\ Off(itl0) /\ Off(res_call)
  /\ IF part = "preferences" THEN P!Init ELSE
       /\ Off(prefs) /\ Off(tmp) /\ Off(read_in) /\ Off(values)
       /\ Off(dirty) /\ Off(writes) /\ Off(latest)
  /\ IF part = "catalog" THEN T!Init ELSE
       /\ Off(tree) /\ Off(companions) /\ Off(forked)
FilesNext ==
  \/ part = "weak" /\ W!Next
     /\ UNCHANGED <<part, forkVars, resourceVars, prefsVars, catalogVars>>
  \/ part = "forks" /\ F!Next
     /\ UNCHANGED <<part, weakVars, resourceVars, prefsVars, catalogVars>>
  \/ part = "resources" /\ R!Next
     /\ UNCHANGED <<part, weakVars, forkVars, prefsVars, catalogVars>>
  \/ part = "preferences" /\ P!Next
     /\ UNCHANGED <<part, weakVars, forkVars, resourceVars, catalogVars>>
  \/ part = "catalog" /\ T!Next
     /\ UNCHANGED <<part, weakVars, forkVars, resourceVars, prefsVars>>
FilesSpec == FilesInit /\ [][FilesNext]_filesVars

(* Of Resources: the handles on the list of loaded resources are good, and *)
(* none is lost.  Of Forks: every descriptor is some open fork's, or a     *)
(* call's, and a call reads and writes the fork it was made on.            *)
HandlesAreKept ==
  /\ part = "resources" => R!HandlesAreKept
  /\ part = "forks" => F!DescriptorsAreHeld /\ F!CallsReachTheirFork

(* Of Preferences: wherever processes end, the file is whole, and what a   *)
(* process synchronized last is what the next one reads.                   *)
PreferencesSurvive == part = "preferences" => P!PreferencesSurvive

(* Of Catalog: no folder gets two things of one name but for case, and a   *)
(* resource fork stays with its file.                                      *)
FilesAreKept == part = "catalog" => T!CatalogIsKept

(* Of WeakBinds: the images of one load use one definition of a weak       *)
(* symbol.                                                                 *)
Coalesced == part = "weak" => W!Coalesced
=============================================================================
