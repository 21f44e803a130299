---------------------------- MODULE ClassicNames ----------------------------
(***************************************************************************)
(* The File Manager's classic names (src/hle/files_paths.c): FSSpecs, node *)
(* IDs, the default directory, and partial and full pathnames, over a      *)
(* catalog that changes.                                                   *)
(*                                                                         *)
(* Names are characters here.  A Mac's may have a slash and no colon, and  *)
(* Linux's a colon and no slash: each is written for the other.            *)
(***************************************************************************)
EXTENDS Catalog, SequencesExt

CONSTANTS ClassicNames,    \* the pathnames the game may give
          Cwd,             \* the directory the game was started in, which stays
          kNameBytes,      \* how long the name of an FSSpec gets: 63
          MaxSpecs,        \* bound: how many it keeps
          MaxNodes         \* bound: how many node IDs there are

VARIABLES
  node_paths,       \* the paths that node IDs were given, in order
  default_dir_id,   \* of the default directory, or 0
  specs             \* FSSpecs the game keeps.  History: where it asked for
                    \* each, the path it was made of, and whether that was a
                    \* file's and is to this day

nameVars == <<node_paths, default_dir_id, specs>>

FIRST_NODE_ID == 16
fsRtParID == 1
fsRtDirID == 2

swap_char(s, from, to) == [i \in DOMAIN s |-> IF s[i] = from THEN to ELSE s[i]]
macroman_to_posix(name) == swap_char(name, "/", ":")
hle_name_to_pascal(name) ==
  SubSeq(swap_char(name, ":", "/"), 1, IF Len(name) < kNameBytes THEN Len(name) ELSE kNameBytes)

-----------------------------------------------------------------------------
(* Node IDs stand for paths, each of which gets one.                       *)
Places(nodes, path) == {i \in DOMAIN nodes : nodes[i] = path}
node_paths_with(nodes, path) ==
  IF path = Root \/ Places(nodes, path) # {} THEN nodes ELSE Append(nodes, path)
hle_node_id(nodes, path) ==
  IF path = Root THEN fsRtDirID
  ELSE FIRST_NODE_ID - 1 + CHOOSE i \in Places(nodes, path) : TRUE
IsNode(id) == id = fsRtDirID \/ id - FIRST_NODE_ID + 1 \in DOMAIN node_paths
hle_node_path(id) == IF id = fsRtDirID THEN Root ELSE node_paths[id - FIRST_NODE_ID + 1]
IsFolderNode(id) == IsNode(id) /\ IsFolderIn(tree, hle_node_path(id))

(* The default directory is the one the game was started in at first.      *)
WithDefault(nodes) == IF default_dir_id = 0 THEN node_paths_with(nodes, Cwd) ELSE nodes
hle_default_dir_path == IF default_dir_id = 0 THEN Cwd ELSE hle_node_path(default_dir_id)

parent_of(path) == IF path = Root THEN Root ELSE Front(path)

(* Components are separated by colons, and each extra colon climbs.        *)
FirstColon(s) == CHOOSE i \in 1..Len(s) + 1 :
                   /\ i = Len(s) + 1 \/ s[i] = ":"
                   /\ \A j \in 1..i - 1 : s[j] # ":"
After(s, n) == SubSeq(s, n + 1, Len(s))
RECURSIVE resolve_from(_, _)
resolve_from(path, p) ==
  IF p = <<>> THEN {path}
  ELSE IF Head(p) = ":" THEN resolve_from(parent_of(path), Tail(p))
  ELSE LET colon == FirstColon(p)
       IN UNION {resolve_from(joined, After(p, colon)) :
                   joined \in hle_join(path, macroman_to_posix(SubSeq(p, 1, colon - 1)))}

(* A full pathname starts with a volume, and any volume is the one there is. *)
resolve_classic_name(dir, name) ==
  IF name = <<>> THEN {dir}
  ELSE IF Head(name) = ":" THEN resolve_from(dir, Tail(name))
  ELSE IF FirstColon(name) <= Len(name) THEN resolve_from(Root, After(name, FirstColon(name)))
  ELSE resolve_from(dir, name)

hle_spec_to_path(spec) ==
  IF spec.parID = fsRtParID THEN {Root}
  ELSE IF ~IsFolderNode(spec.parID) THEN {}
  ELSE resolve_classic_name(hle_node_path(spec.parID), spec.name)

(* The spec of a path, unless there is no folder it could be in.           *)
hle_path_to_spec(nodes, path) ==
  IF path = Root THEN [parID |-> fsRtParID, name |-> <<"v">>]
  ELSE [parID |-> hle_node_id(nodes, parent_of(path)), name |-> hle_name_to_pascal(Last(path))]

-----------------------------------------------------------------------------
(* Where a name should lead, whatever case it is in: what is between two   *)
(* colons is a step down, and nothing there a step up.                     *)
Pieces(s) ==
  LET Ends(i) == i \in {0, Len(s) + 1} \/ s[i] = ":"
      order == SelectSeq([k \in 1..Len(s) + 2 |-> k - 1], Ends)
  IN [i \in 1..Len(order) - 1 |-> SubSeq(s, order[i] + 1, order[i + 1] - 1)]
Step(path, piece) ==
  IF piece = <<>> THEN parent_of(path) ELSE Append(path, macroman_to_posix(piece))
Place(dir, name) ==
  LET pieces == Pieces(name)
      is_full == Len(pieces) > 1 /\ pieces[1] # <<>>
      steps == IF Len(pieces) > 1 THEN Tail(pieces) ELSE pieces
      used == IF steps # <<>> /\ Last(steps) = <<>> THEN Front(steps) ELSE steps
      path == FoldLeft(Step, IF is_full THEN Root ELSE dir, used)
  IN [i \in DOMAIN path |-> IF path[i] \in Names THEN Lower[path[i]] ELSE path[i]]

(* The game makes a spec by a name in some directory, or in the default    *)
(* one, and keeps it in another's place.  Of a file that is not there yet, *)
(* the spec has the name as it was given.                                  *)
Keep(spec, place, path) ==
  \E kept \in {specs} \cup {specs \ {old} : old \in specs} :
    /\ Cardinality(kept) < MaxSpecs
    /\ specs' = kept \cup {[spec |-> spec, place |-> place, path |-> path,
                            there |-> Exists(path)]}
FSMakeFSSpec(dir_id, name) ==
  LET dir == IF dir_id = 0 THEN hle_default_dir_path ELSE hle_node_path(dir_id)
      nodes == IF dir_id = 0 THEN WithDefault(node_paths) ELSE node_paths
  IN /\ IsFolderIn(tree, dir)
     /\ \E path \in resolve_classic_name(dir, name) :
          /\ IsFolderIn(tree, parent_of(path))
          /\ node_paths' = IF path = Root THEN nodes ELSE node_paths_with(nodes, parent_of(path))
          /\ Keep(hle_path_to_spec(node_paths', path), Place(dir, name), path)
     /\ UNCHANGED <<tree, companions, forked, default_dir_id>>

HSetVol(dir_id) ==
  /\ IsFolderNode(IF dir_id = 0 THEN fsRtDirID ELSE dir_id)
  /\ default_dir_id' = IF dir_id = 0 THEN fsRtDirID ELSE dir_id
  /\ UNCHANGED <<tree, companions, forked, node_paths, specs>>
HGetVol ==
  /\ node_paths' = WithDefault(node_paths)
  /\ UNCHANGED <<tree, companions, forked, default_dir_id, specs>>
(* FSGetCatalogInfo tells the node ID of what an FSRef is of.              *)
FSGetCatalogInfo(path) ==
  /\ node_paths' = node_paths_with(node_paths, path)
  /\ UNCHANGED <<tree, companions, forked, default_dir_id, specs>>

NodesThere == {fsRtDirID} \cup {FIRST_NODE_ID - 1 + i : i \in DOMAIN node_paths}
NamesInit ==
  /\ Init /\ companions = <<>>
  /\ node_paths = <<>> /\ default_dir_id = 0 /\ specs = {}
NamesNext ==
  /\ \/ \E dir_id \in NodesThere \cup {0} :
          HSetVol(dir_id) \/ \E name \in ClassicNames : FSMakeFSSpec(dir_id, name)
     \/ \E path \in FSRefs : FSGetCatalogInfo(path)
     \/ HGetVol
     \/ /\ Next
        /\ specs' = {[kept EXCEPT !.there = @ /\ Exists(kept.path)'] : kept \in specs}
        /\ UNCHANGED <<node_paths, default_dir_id>>
  /\ Len(node_paths') <= MaxNodes
NamesSpec == NamesInit /\ [][NamesNext]_<<vars, nameVars>>

-----------------------------------------------------------------------------
NamesTypeOK ==
  /\ TypeOK /\ default_dir_id \in NodesThere \cup {0}
  /\ \A kept \in specs : kept.spec.parID \in NodesThere \cup {fsRtParID}

(* Wherever a name leads that the game gives, the spec made of it leads    *)
(* there, later too, as long as the folder is there.                       *)
Fits(kept) == kept.place = Root \/ Len(Last(kept.place)) <= kNameBytes
SpecsKeepTheirPlace ==
  \A kept \in specs :
    Fits(kept) =>
      \A path \in hle_spec_to_path(kept.spec) : LowerOf(path) = kept.place

(* As a game compares them, specs of different files are never equal,      *)
(* whether or not the files are there; and those of one file are equal,    *)
(* whatever names in whatever case they were made by, if each was made     *)
(* while the file was there, which has kept its name since.                *)
SpecsAreOnePerFile ==
  \A one, other \in {kept \in specs : Fits(kept)} :
    /\ one.spec = other.spec => one.place = other.place
    /\ one.there /\ other.there /\ one.place = other.place => one.spec = other.spec
(* No path has two node IDs.                                               *)
NodesAreDistinct == IsInjective(node_paths)
=============================================================================
