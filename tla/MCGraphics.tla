----------------------------- MODULE MCGraphics -----------------------------
(***************************************************************************)
(* Instances of GLContexts, VertexArrays, Combine, Displays and, as it is  *)
(* told of every frame, Profiler for TLC.                                  *)
(*                                                                         *)
(* They meet where a context becomes current, which GLContexts' mirror and *)
(* VertexArrays' hle_gl_var_context_changed are the two sides of; each is  *)
(* run by itself, and the initial states choose which.  VertexArrays is    *)
(* run twice: for arrays, in memory that nobody writes, and for memory,    *)
(* with no arrays set.  The window of Displays is whichever is the game's. *)
(***************************************************************************)
EXTENDS GLContexts, TLC

CONSTANTS Parts, Names, Arrays, Top, Pointers, MaxUnflushed, TakeMax, Unknown,
          Threads, Main, Places, Hash, kSlots, kProbes, kFrameSamples, MaxTries, MaxSamples

VARIABLES part, objects, vertex_array, ranges, gpu, behind, unflushed,
          units, emulated, gl,
          slots, table_busy, slots_used, samples, dropped, frame_samples,
          frame_reading, written, at, handler, writes, taken, frame, reported,
          host, modes, desktop, mode, captured, dicts, main_device, shown, inside, rivals

arrayVars == <<objects, vertex_array, ranges, gpu, behind, unflushed>>
combineVars == <<units, emulated, gl>>
profileVars == <<slots, table_busy, slots_used, samples, dropped, frame_samples,
                 frame_reading, written, at, handler, writes, taken, frame, reported>>
displayVars == <<host, modes, desktop, mode, captured, dicts, main_device, shown, inside, rivals>>
partVars == <<part, vars, arrayVars, combineVars, profileVars, displayVars>>

(* In, over and past one another, and no block.                            *)
Blocks == {<<0, 0>>, <<1, 1>>, <<1, 2>>, <<2, 2>>}
AllFunctions ==
  [c \in {"RGB", "ALPHA"} |->
     {"MODULATE", "MODULATE_ADD_ATI"} \cup
       IF c = "ALPHA" THEN {}
       ELSE {"REPLACE", "ADD", "ADD_SIGNED", "INTERPOLATE", "MODULATE_SIGNED_ADD_ATI",
             "MODULATE_SUBTRACT_ATI"}]
SomeSources ==
  [c \in {"RGB", "ALPHA"} |->
     IF c = "ALPHA" THEN 0 :> {"TEXTURE"} @@ 1 :> {"PREVIOUS"} @@ 2 :> {"PRIMARY_COLOR"}
     ELSE 0 :> {"TEXTURE", "ONE"} @@ 1 :> {"PREVIOUS"}
            @@ 2 :> {"TEXTURE", "PRIMARY_COLOR"}]

A == INSTANCE VertexArrays WITH bound <- vertex_array, Slots <- Arrays, MaxBuffers <- 1
M == INSTANCE VertexArrays WITH bound <- vertex_array, Slots <- Arrays, MaxBuffers <- 2
C == INSTANCE Combine WITH Functions <- AllFunctions, Sources <- SomeSources

(* Where the probes of two threads meet at the table's end.                *)
HashOf == [pt \in Places \X Threads |-> IF pt[2] = Main THEN 0 ELSE kSlots - 1]
P == INSTANCE Profiler

(* The theorems about the profiler assume this much of its constants.      *)
ASSUME TableHasSlots == P!TableConstants

(* What SDL lists: not the desktop; too much for the table, with a mode    *)
(* too small for it and one twice; and no display.                         *)
Mode(width, height, refresh) == [w |-> width, h |-> height, r |-> refresh]
SomeHosts ==
  {[video |-> TRUE, desktop |-> Mode(1024, 600, 75),
    modes |-> <<Mode(640, 480, 60), Mode(640, 480, 75), Mode(800, 600, 60)>>],
   [video |-> TRUE, desktop |-> Mode(800, 600, 75),
    modes |-> <<Mode(640, 900, 60), Mode(320, 240, 60), Mode(800, 600, 60), Mode(800, 600, 60)>>],
   [video |-> FALSE, desktop |-> Mode(0, 0, 0), modes |-> <<>>]}
SomeRequests == {Mode(640, 480, 0), Mode(700, 500, 67), Mode(1600, 300, 0)}
OwnModes == {Mode(720, 480, 60)}
(* The current mode is always told in 32.                                  *)
Depths == {16}
D == INSTANCE Displays WITH current <- mode, at <- inside, window <- shown,
       Hosts <- SomeHosts, Requests <- SomeRequests, Foreign <- OwnModes, Bits <- Depths,
       kMaxModes <- 3, MaxDicts <- 2

NothingUnflushed == unflushed' = {}
NoArrays == \A n \in Names \cup {0} : objects'[n].arrays = [s \in Arrays |-> A!NewArray]

(* The variables of a part that is not run stay 0, but the contexts' and   *)
(* the profiler's, which stay as they are at first.                        *)
Off(variable) == variable = 0
PartInit ==
  /\ part \in Parts /\ Init /\ P!Init
  /\ CASE part = "arrays" -> A!Init
       [] part = "memory" -> M!Init
       [] OTHER -> /\ Off(objects) /\ Off(vertex_array) /\ Off(ranges)
                   /\ Off(gpu) /\ Off(behind) /\ Off(unflushed)
  /\ IF part = "combine" THEN C!Init ELSE Off(units) /\ Off(emulated) /\ Off(gl)
  /\ IF part = "screens" THEN D!Init ELSE
       /\ Off(host) /\ Off(modes) /\ Off(desktop) /\ Off(mode) /\ Off(captured)
       /\ Off(dicts) /\ Off(main_device) /\ Off(shown) /\ Off(inside)
       /\ Off(rivals)
PartNext ==
  \/ part = "contexts" /\ Next /\ UNCHANGED <<part, arrayVars, combineVars, profileVars, displayVars>>
  \/ part = "arrays" /\ A!Next /\ NothingUnflushed /\ UNCHANGED <<part, vars, combineVars, profileVars, displayVars>>
  \/ part = "memory" /\ M!Next /\ NoArrays /\ UNCHANGED <<part, vars, combineVars, profileVars, displayVars>>
  \/ part = "combine" /\ C!Next /\ UNCHANGED <<part, vars, arrayVars, profileVars, displayVars>>
  \/ part = "profile" /\ P!Next /\ UNCHANGED <<part, vars, arrayVars, combineVars, displayVars>>
  \/ part = "screens" /\ D!Next /\ UNCHANGED <<part, vars, arrayVars, combineVars, profileVars>>
PartSpec == PartInit /\ [][PartNext]_partVars

(* Every variable has its type, what is current exists, and only bytes     *)
(* that are in a span count as behind or unflushed.                        *)
TypesOK ==
  CASE part = "contexts" -> TypeOK
    [] part = "arrays" -> A!TypeOK
    [] part = "memory" -> M!TypeOK
    [] part = "combine" -> C!TypeOK
    [] part = "profile" -> P!TypeOK
    [] part = "screens" -> D!TypeOK

(* The properties of VertexArrays and Combine: arrays lead where the       *)
(* layout says; spans hold what was flushed, and the maps find them; GL    *)
(* combines as the game set it.                                            *)
GLIsAsSet ==
  /\ part = "arrays" => A!GLReadsTheArrays
  /\ part = "memory" => M!FlushedIsCurrent /\ M!RangesAreFound
  /\ part = "combine" => C!CombinesAsSet


(* The properties of Profiler: the table and a profile of it add up, and   *)
(* every sample of the game's thread is in one frame's report.             *)
SamplesAreExact == part = "profile" => P!SamplesAreExact
=============================================================================
