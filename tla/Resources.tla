------------------------------- MODULE Resources -------------------------------
(***************************************************************************)
(* The Resource Manager of src/hle/resources.c and the handles it shares   *)
(* with the Memory Manager, src/hle/memory.c.                              *)
(*                                                                         *)
(* Open resource files form a chain under res_lock, the newest first, and  *)
(* a list keeps the handle of every resource that is loaded.  A file is    *)
(* read, the handles of a closed file are disposed of, and what was found  *)
(* on the list is looked at, without the lock.  Files and handles are      *)
(* numbered as they are made.                                              *)
(***************************************************************************)
EXTENDS Naturals, Sequences, FiniteSets, SequencesExt

CONSTANTS Threads, Paths,
          Ids,         \* resource types and ids
          MaxFiles,    \* bound: files opened
          MaxHandles   \* bound: handles made

Refnums == 1..MaxFiles
Handles == 1..MaxHandles
SystemFile == 0
NoHandle == 0

VARIABLES
  holds,           \* the resources in each file
  path,            \* res_file.path
  chain, current_refnum, next_refnum,
  loaded,          \* the loaded_resource list
  heap,            \* what became of each handle_block
  made,            \* handles made so far
  frees,           \* history: how often each was freed
  game,            \* history: handles the game was given and has not given up
  struck,          \* history: those two calls took or disposed of at a time,
                   \* one of them the game's own DisposeHandle
  itl0,            \* the static of GetIntlResource
  call             \* the call each thread is in, without the lock

files == <<path, chain, current_refnum, next_refnum>>
blocks == <<heap, made, frees>>
vars == <<holds, files, loaded, blocks, game, struck, itl0, call>>

Idle == [at |-> "idle"]

Init ==
  /\ holds \in [Paths -> SUBSET Ids]
  /\ path = <<>>
  /\ chain = <<>>
  /\ current_refnum = SystemFile
  /\ next_refnum = 1
  /\ loaded = {}
  /\ heap = [h \in Handles |-> "unused"]
  /\ made = 0
  /\ frees = [h \in Handles |-> 0]
  /\ game = {}
  /\ struck = {}
  /\ itl0 = NoHandle
  /\ call = [t \in Threads |-> Idle]

IsIdle(t) == call[t].at = "idle"
GoesOn(t, c) == call' = [call EXCEPT ![t] = c]

-----------------------------------------------------------------------------
Open(p) == {f \in Range(chain) : path[f] = p}

(* open_resource_file, to its unlock.                                      *)
FindsOpen(t, p) ==
  /\ IsIdle(t)
  /\ \/ \E k \in DOMAIN chain :
          /\ path[chain[k]] = p /\ \A j \in 1..k - 1 : path[chain[j]] # p
          /\ current_refnum' = chain[k]
          /\ UNCHANGED call
     \/ /\ Open(p) = {}
        /\ next_refnum <= MaxFiles
        /\ GoesOn(t, [at |-> "loading", path |-> p])
        /\ UNCHANGED current_refnum
  /\ UNCHANGED <<holds, path, chain, next_refnum, loaded, blocks, game, struck, itl0>>

(* Faulty variant: the number is given to the next file as well.           *)
PushesFile_Again(t) ==
  /\ call[t].at = "loading"
  /\ next_refnum <= MaxFiles
  /\ path' = Append(path, call[t].path)
  /\ chain' = <<next_refnum>> \o chain
  /\ current_refnum' = next_refnum
  /\ GoesOn(t, Idle)
  /\ UNCHANGED <<holds, next_refnum, loaded, blocks, game, struck, itl0>>

(* The fork is read, and the file goes on the chain.                       *)
PushesFile(t) ==
  /\ call[t].at = "loading"
  /\ next_refnum <= MaxFiles
  /\ path' = Append(path, call[t].path)
  /\ chain' = <<next_refnum>> \o chain
  /\ current_refnum' = next_refnum
  /\ next_refnum' = next_refnum + 1
  /\ GoesOn(t, Idle)
  /\ UNCHANGED <<holds, loaded, blocks, game, struck, itl0>>

(* It has no resource fork, or an invalid one.                             *)
FindsNoFork(t) ==
  /\ call[t].at = "loading"
  /\ GoesOn(t, Idle)
  /\ UNCHANGED <<holds, files, loaded, blocks, game, struck, itl0>>

CurrentAfter(f, rest) ==
  IF current_refnum # f THEN current_refnum
  ELSE IF rest # <<>> THEN Head(rest) ELSE SystemFile

(* Faulty variant: its resources stay on the list.                         *)
Kept_All(f) == loaded
Kept(f) == {l \in loaded : l.file # f}

Dropped(f) == {l.handle : l \in {l \in loaded : l.file = f}}

(* What threads dispose of: DisposeHandle is called by the game, by        *)
(* ReleaseResource and for each handle of a closed file.                   *)
Disposing(t) == IF call[t].at \in {"disposing", "freeing"} THEN {call[t].handle} ELSE {}
Closing(t) == IF call[t].at = "closing" THEN call[t].dropped ELSE {}
Pending == UNION {Disposing(t) \cup Closing(t) : t \in Threads}
Direct == {call[t].handle : t \in {t \in Threads : call[t].at = "disposing" /\ call[t].direct}}

(* A call takes handles off the list.  One that the game disposes of at    *)
(* the same time is disposed of as well.                                   *)
Takes(hs) == struck' = struck \cup (hs \cap Direct)

(* CloseResFile unlinks the file and its resources, and then disposes of   *)
(* them.                                                                   *)
CloseResFile(t, f) ==
  /\ IsIdle(t)
  /\ f \in Range(chain)
  /\ LET rest == RemoveFirst(chain, f)
     IN /\ chain' = rest
        /\ current_refnum' = CurrentAfter(f, rest)
  /\ loaded' = Kept(f)
  /\ game' = game \ Dropped(f)
  /\ Takes(Dropped(f))
  /\ GoesOn(t, [at |-> "closing", dropped |-> Dropped(f)])
  /\ UNCHANGED <<holds, path, next_refnum, blocks, itl0>>

Frees(h) ==
  /\ heap' = [heap EXCEPT ![h] = "freed"]
  /\ frees' = [frees EXCEPT ![h] = @ + 1]
  /\ UNCHANGED made

(* These are off the list, so that DisposeHandle finds none to forget.     *)
DisposesDropped(t) ==
  /\ call[t].at = "closing"
  /\ \/ \E h \in call[t].dropped :
          /\ Frees(h)
          /\ GoesOn(t, [call[t] EXCEPT !.dropped = @ \ {h}])
     \/ /\ call[t].dropped = {}
        /\ GoesOn(t, Idle)
        /\ UNCHANGED blocks
  /\ UNCHANGED <<holds, files, loaded, game, struck, itl0>>

UseResFile(t, f) ==
  /\ IsIdle(t)
  /\ f \in Range(chain) \cup {SystemFile}
  /\ current_refnum' = f
  /\ UNCHANGED <<holds, path, chain, next_refnum, loaded, blocks, game, struck, itl0, call>>

-----------------------------------------------------------------------------
(* The files that are searched: from the current one toward older ones.    *)
Searched ==
  IF current_refnum = SystemFile THEN chain
  ELSE LET at == {k \in DOMAIN chain : chain[k] = current_refnum}
       IN IF at = {} THEN <<>> ELSE SubSeq(chain, CHOOSE k \in at : TRUE, Len(chain))

Loaded(f, id) == {l \in loaded : l.file = f /\ l.id = id}
Has(f, id) == id \in holds[path[f]] \/ Loaded(f, id) # {}

hle_handle_new ==
  /\ made < MaxHandles
  /\ made' = made + 1
  /\ heap' = [heap EXCEPT ![made + 1] = "live"]
  /\ UNCHANGED frees

Loads(f, id) ==
  /\ Loaded(f, id) = {}
  /\ hle_handle_new
  /\ loaded' = loaded \cup {[handle |-> made + 1, file |-> f, id |-> id]}

(* A resource that is loaded is found under the lock, and its handle read  *)
(* after it from what was found, which another thread may have taken off   *)
(* the list and freed by then: what the game gets is nothing, or freed.    *)
GetResource(t, id) ==
  /\ IsIdle(t)
  /\ \E k \in DOMAIN Searched :
       /\ Has(Searched[k], id) /\ \A j \in 1..k - 1 : ~Has(Searched[j], id)
       /\ \/ /\ Loads(Searched[k], id)
             /\ game' = game \cup {made + 1}
             /\ UNCHANGED call
          \/ /\ \E l \in Loaded(Searched[k], id) : GoesOn(t, [at |-> "getting", found |-> l])
             /\ UNCHANGED <<loaded, blocks, game>>
  /\ UNCHANGED <<holds, files, struck, itl0>>

GivesLoaded(t) ==
  /\ call[t].at = "getting"
  /\ game' = game \cup {l.handle : l \in {call[t].found} \cap loaded}
  /\ GoesOn(t, Idle)
  /\ UNCHANGED <<holds, files, loaded, blocks, struck, itl0>>

On(h) == {l \in loaded : l.handle = h}

(* Disposes of the handle only when it was on the list.                    *)
ReleaseResource(t, h) ==
  /\ IsIdle(t)
  /\ On(h) # {}
  /\ loaded' = loaded \ On(h)
  /\ game' = game \ {h}
  /\ Takes({h})
  /\ GoesOn(t, [at |-> "disposing", handle |-> h, direct |-> FALSE])
  /\ UNCHANGED <<holds, files, blocks, itl0>>

DetachResource(t, h) ==
  /\ IsIdle(t)
  /\ On(h) # {}
  /\ loaded' = loaded \ On(h)
  /\ game' = game \cup {h}
  /\ Takes({h})
  /\ UNCHANGED <<holds, files, blocks, itl0, call>>

(* DisposeHandle by the game, of a handle that is good: of its own, or of  *)
(* a resource, which another thread may be taking at the same time.        *)
DisposesHandle(t, h) ==
  /\ IsIdle(t)
  /\ heap[h] = "live"
  /\ struck' = struck \cup ({h} \cap Pending)
  /\ GoesOn(t, [at |-> "disposing", handle |-> h, direct |-> TRUE])
  /\ UNCHANGED <<holds, files, loaded, blocks, game, itl0>>

(* A resource that is disposed of directly is forgotten first: the         *)
(* Resource Manager must not hand this handle out again.  Whether it was   *)
(* on the list is not looked at.                                           *)
Forgets(t) ==
  /\ call[t].at = "disposing"
  /\ loaded' = loaded \ On(call[t].handle)
  /\ game' = game \ {call[t].handle}
  /\ GoesOn(t, [at |-> "freeing", handle |-> call[t].handle])
  /\ UNCHANGED <<holds, files, blocks, struck, itl0>>
DisposeHandle(t) ==
  /\ call[t].at = "freeing"
  /\ Frees(call[t].handle)
  /\ GoesOn(t, Idle)
  /\ UNCHANGED <<holds, files, loaded, game, struck, itl0>>

(* GetIntlResource makes its handle when it finds none, outside of every   *)
(* lock.  What it returns is then the game's.                              *)
LooksForIntl(t) ==
  /\ IsIdle(t)
  /\ itl0 = NoHandle
  /\ GoesOn(t, [at |-> "intl"])
  /\ UNCHANGED <<holds, files, loaded, blocks, game, struck, itl0>>

GetIntlResource(t) ==
  /\ call[t].at = "intl"
  /\ hle_handle_new
  /\ itl0' = made + 1
  /\ game' = game \cup {made + 1}
  /\ GoesOn(t, Idle)
  /\ UNCHANGED <<holds, files, loaded, struck>>

-----------------------------------------------------------------------------
Next == \E t \in Threads :
  \/ \E p \in Paths : FindsOpen(t, p)
  \/ PushesFile(t) \/ FindsNoFork(t)
  \/ \E f \in Refnums : CloseResFile(t, f)
  \/ \E f \in Refnums \cup {SystemFile} : UseResFile(t, f)
  \/ DisposesDropped(t)
  \/ (\E id \in Ids : GetResource(t, id)) \/ GivesLoaded(t)
  \/ \E h \in Handles : ReleaseResource(t, h) \/ DetachResource(t, h) \/ DisposesHandle(t, h)
  \/ Forgets(t) \/ DisposeHandle(t) \/ LooksForIntl(t) \/ GetIntlResource(t)

Spec == Init /\ [][Next]_vars

-----------------------------------------------------------------------------
(* Every variable has its type.                                            *)
Records == [handle : Handles, file : Refnums, id : Ids]
TypeOK ==
  /\ holds \in [Paths -> SUBSET Ids]
  /\ path \in Seq(Paths) /\ Len(path) = next_refnum - 1
  /\ chain \in Seq(Refnums)
  /\ current_refnum \in Refnums \cup {SystemFile}
  /\ next_refnum \in 1..MaxFiles + 1
  /\ loaded \subseteq Records
  /\ heap \in [Handles -> {"unused", "live", "freed"}]
  /\ made \in 0..MaxHandles
  /\ frees \in [Handles -> Nat]
  /\ game \subseteq Handles /\ struck \subseteq Handles
  /\ itl0 \in Handles \cup {NoHandle}
  /\ \A t \in Threads :
       call[t] \in {Idle, [at |-> "intl"]} \cup [at : {"loading"}, path : Paths]
         \cup [at : {"closing"}, dropped : SUBSET Handles]
         \cup [at : {"getting"}, found : Records]
         \cup [at : {"disposing"}, handle : Handles, direct : BOOLEAN]
         \cup [at : {"freeing"}, handle : Handles]

(* What GetResource finds on its list is good: the handle was not freed,   *)
(* the file it came from is open, and each resource is there once.         *)
ListIsGood ==
  \A l \in loaded :
    /\ heap[l.handle] = "live" /\ l.file \in Range(chain)
    /\ \A m \in loaded :
         m.handle = l.handle \/ (m.file = l.file /\ m.id = l.id) => m = l

(* Every live handle belongs to somebody: the list, the game, or a call    *)
(* that is about to free it.                                               *)
NoneIsLost == \A h \in Handles : heap[h] = "live" => On(h) # {} \/ h \in game \/ h \in Pending

(* However threads get, release, detach and close at the same time, one of *)
(* them takes a handle: it is freed at most once, and not while the game   *)
(* has it.  The game's own DisposeHandle does not look whether it is the   *)
(* one: it must not meet another call that takes or disposes of the handle.*)
OneFrees == \A h \in Handles \ struck : frees[h] <= 1 /\ (h \in game => heap[h] = "live")

HandlesAreKept == ListIsGood /\ NoneIsLost /\ OneFrees
=============================================================================
