------------------------------ MODULE Catalog ------------------------------
(***************************************************************************)
(* The File Manager's catalog (src/hle/files_catalog.c, files_paths.c):    *)
(* creating, deleting, renaming and copying what a folder holds.           *)
(*                                                                         *)
(* A Mac's names keep their case but are told apart without it; Linux's    *)
(* are told apart by it.  And a Mac's file has a resource fork, which      *)
(* Linux keeps in a companion file "._name" beside it that no call shows.  *)
(* FSRefs and node IDs stand for paths, however they were come by, so that *)
(* the game may name any path there is.                                    *)
(***************************************************************************)
EXTENDS Naturals, Sequences, FiniteSets, TLC

CONSTANTS Names,       \* what the game calls things
          Lower,       \* and their names in lower case
          MaxDepth,    \* bound: folders in one another
          MaxObjects   \* bound: files and folders ever made

VARIABLES
  tree,        \* the object at each path there is, below the root
  companions,  \* whose resource fork each companion is, by its file's path
  forked       \* history: the objects that were installed with one

vars == <<tree, companions, forked>>

PathsBelow == UNION {[1..n -> Names] : n \in 1..MaxDepth}
Object(id, folder) == [id |-> id, folder |-> folder]
parent_path(path) == SubSeq(path, 1, Len(path) - 1)
IsBelow(path, p) == Len(path) <= Len(p) /\ SubSeq(p, 1, Len(path)) = path
Root == <<>>

IsFolderIn(t, path) == path = Root \/ (path \in DOMAIN t /\ t[path].folder)
LowerOf(path) == [i \in DOMAIN path |-> Lower[path[i]]]
Made(t) == {t[path].id : path \in DOMAIN t}

(* What a game is installed as: a tree of a Mac's, its forks beside it.    *)
IsMacs(t) ==
  /\ \A path \in DOMAIN t : IsFolderIn(t, parent_path(path))
  /\ \A p, q \in DOMAIN t : LowerOf(p) = LowerOf(q) => p = q
Numbered(paths, folders) ==
  LET number == CHOOSE n \in [paths -> 1..Cardinality(paths)] :
                  \A p, q \in paths : n[p] = n[q] => p = q
  IN [path \in paths |-> Object(number[path], path \in folders)]
Init ==
  /\ \E paths \in {s \in SUBSET PathsBelow : IsFiniteSet(s) /\ Cardinality(s) < MaxObjects} :
       \E folders \in SUBSET paths : tree = Numbered(paths, folders)
  /\ IsMacs(tree)
  /\ \E owners \in SUBSET DOMAIN tree :
       companions = [path \in owners |-> tree[path].id]
  /\ forked = {companions[path] : path \in DOMAIN companions}

-----------------------------------------------------------------------------
(* Names.                                                                  *)
Exists(path) == path = Root \/ path \in DOMAIN tree

(* The path there is: exact, or else by components that match without      *)
(* regard to case where none does exactly.                                 *)
hle_path_resolve(path) ==
  IF Exists(path) THEN {path}
  ELSE {p \in DOMAIN tree :
          /\ Len(p) = Len(path)
          /\ \A i \in DOMAIN p :
               IF Exists(SubSeq(p, 1, i - 1) \o <<path[i]>>)
               THEN p[i] = path[i] ELSE Lower[p[i]] = Lower[path[i]]}

hle_join(dir, name) ==
  LET joined == Append(dir, name)
      found == hle_path_resolve(joined)
  IN IF found # {} THEN found ELSE {joined}

-----------------------------------------------------------------------------
(* Creating and copying: O_EXCL and mkdir refuse what exists.              *)
Creates(path, folder) ==
  /\ ~Exists(path) /\ Len(path) <= MaxDepth
  /\ \E id \in 1..MaxObjects \ (Made(tree) \cup forked) :
       /\ \A i \in 1..id - 1 : i \in Made(tree) \cup forked
       /\ tree' = [p \in DOMAIN tree \cup {path} |->
                     IF p = path THEN Object(id, folder) ELSE tree[p]]
  /\ UNCHANGED <<companions, forked>>

(* FSpCreate makes a file as FSCreateFileUnicode does.                     *)
create_in(dir, name, folder) ==
  IsFolderIn(tree, dir) /\ \E path \in hle_join(dir, name) : Creates(path, folder)

(* Only the data fork is copied; of a folder nothing, into a file.         *)
PBHCopyFileSync(source, dir, name) ==
  /\ Exists(source) /\ IsFolderIn(tree, dir)
  /\ \E path \in hle_join(dir, name) : Creates(path, FALSE)

-----------------------------------------------------------------------------
(* Deleting: rmdir refuses a folder that has anything in it, companions    *)
(* too, which the game does not see.                                       *)
Holds(path, f) == \E p \in DOMAIN f : parent_path(p) = path

delete_path(path) ==
  /\ path \in DOMAIN tree
  /\ ~Holds(path, tree) /\ ~Holds(path, companions)
  /\ tree' = [p \in DOMAIN tree \ {path} |-> tree[p]]
  /\ companions' = [p \in DOMAIN companions \ {path} |-> companions[p]]
  /\ UNCHANGED forked

FSpDelete(dir, name) ==
  IsFolderIn(tree, dir) /\ \E path \in hle_join(dir, name) : delete_path(path)

-----------------------------------------------------------------------------
(* Renaming, which Linux does over what has the new name.                  *)
Moved(f, path, target) ==
  LET Move(p) == IF IsBelow(path, p)
                 THEN target \o SubSeq(p, Len(path) + 1, Len(p)) ELSE p
      from(q) == {p \in DOMAIN f : Move(p) = q}
  IN [q \in {Move(p) : p \in DOMAIN f} |->
        f[CHOOSE p \in from(q) : IsBelow(path, p) \/ Cardinality(from(q)) = 1]]

(* Faulty variant: a file's own companion stays where it was.              *)
CompanionsMoved_Inside(path, target) ==
  LET own == DOMAIN companions \cap {path}
      others == [p \in DOMAIN companions \ own |-> companions[p]]
  IN Moved(others, path, target) @@ [p \in own |-> companions[p]]

(* Those inside a folder move with it, and then its own by its name.       *)
CompanionsMoved(path, target) == Moved(companions, path, target)

FSRenameUnicode(path, name) ==
  LET target == Append(parent_path(path), name)
  IN /\ path \in DOMAIN tree
     /\ \A existing \in hle_path_resolve(target) : LowerOf(existing) = LowerOf(path)
     /\ Exists(target) /\ target # path =>
          /\ tree[target].folder = tree[path].folder
          /\ ~Holds(target, tree) /\ ~Holds(target, companions)
     /\ tree' = Moved(tree, path, target)
     /\ companions' = CompanionsMoved(path, target)
     /\ UNCHANGED forked

-----------------------------------------------------------------------------
(* What the game may have a node ID, or an FSRef, of.                      *)
NodeIDs == DOMAIN tree \cup {Root}
FSRefs == DOMAIN tree

Next ==
  \/ \E dir \in NodeIDs, name \in Names :
       \/ \E folder \in BOOLEAN : create_in(dir, name, folder)
       \/ \E source \in FSRefs : PBHCopyFileSync(source, dir, name)
       \/ FSpDelete(dir, name)
  \/ \E path \in FSRefs :
       delete_path(path) \/ \E name \in Names : FSRenameUnicode(path, name)

Spec == Init /\ [][Next]_vars

-----------------------------------------------------------------------------
(* The paths there are lead down from the root by folders.                 *)
TypeOK ==
  /\ DOMAIN tree \subseteq PathsBelow /\ DOMAIN companions \subseteq PathsBelow
  /\ \A path \in DOMAIN tree :
       /\ tree[path] \in [id : 1..MaxObjects, folder : BOOLEAN]
       /\ IsFolderIn(tree, parent_path(path))
  /\ forked \subseteq 1..MaxObjects

(* Whatever the game makes, renames and copies, in whatever case, no       *)
(* folder gets two things of one name but for case, of which a Mac's game  *)
(* could reach only one.                                                   *)
NamesAreDistinct ==
  \A p, q \in DOMAIN tree : LowerOf(p) = LowerOf(q) => p = q

(* A resource fork stays with its file, through renames of it and of the   *)
(* folders it is in, and goes with it: no companion is left for the next   *)
(* file of that name to take as its own, or to keep a folder from being    *)
(* deleted that looks empty.                                               *)
ForksFollow ==
  /\ \A path \in DOMAIN companions :
       path \in DOMAIN tree /\ companions[path] = tree[path].id
  /\ \A path \in DOMAIN tree : tree[path].id \in forked => path \in DOMAIN companions

(* Both.                                                                   *)
CatalogIsKept == NamesAreDistinct /\ ForksFollow
=============================================================================
