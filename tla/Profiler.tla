------------------------------ MODULE Profiler ------------------------------
(***************************************************************************)
(* profile.c: samples taken by signal handlers of several threads in one   *)
(* table and, for the game's thread, in a list of each frame.              *)
(*                                                                         *)
(* A handler runs on top of what its thread was doing, in the middle of    *)
(* hle_profile_frame or of write_profile too, and may not wait: it drops   *)
(* its sample when the table is taken.  A thread that exits, or faults, in *)
(* the sampler as well, writes the profile; it waits for the table, but    *)
(* not forever.  Where an address was called from is part of the place.    *)
(***************************************************************************)
EXTENDS Naturals, Sequences, FiniteSets, FiniteSetsExt

CONSTANTS Threads, Main,    \* the threads sampled, the game's among them
          Places,
          Hash,             \* of a place and a thread: the first slot to probe
          kSlots, kProbes, kFrameSamples,
          MaxTries,         \* of write_profile to take the table
          MaxSamples        \* bounds the samples taken

(* There is a slot, and a place of any thread hashes to somewhere.         *)
TableConstants ==
  /\ kSlots \in Nat \ {0} /\ kProbes \in Nat /\ Main \in Threads
  /\ Hash \in [Places \X Threads -> Nat]

VARIABLES slots, table_busy, slots_used, samples, dropped,
          frame_samples, frame_reading,
          written,
          at,                        \* of each thread, under its handler
          handler,                   \* of each thread: where on_sample is
          writes,                    \* what each thread's write_profile knows
          taken, frame, reported     \* history: samples, and those of a frame

table == <<slots, table_busy, slots_used, samples, dropped>>
frames == <<frame_samples, frame_reading, frame, reported>>
writing == <<written, writes>>
vars == <<table, frames, writing, at, handler, taken>>

Slots == 0..kSlots - 1
Free == [place |-> "none", thread |-> "none", count |-> 0]
NotSampling == [step |-> "none"]
Runs(t) == at[t] # "gone" /\ handler[t].step = "none"

-----------------------------------------------------------------------------
(* on_sample.                                                              *)
Signal(t, place) ==
  /\ Runs(t) /\ taken < MaxSamples
  /\ handler' = [handler EXCEPT ![t] = [step |-> "record", place |-> place]]
  /\ taken' = taken + 1
  /\ UNCHANGED <<table, frames, writing, at>>

Goes(t, step) == handler' = [handler EXCEPT ![t].step = step]

record_Takes(t) ==
  /\ handler[t].step = "record"
  /\ IF table_busy
     THEN dropped' = dropped + 1 /\ Goes(t, "frame") /\ UNCHANGED table_busy
     ELSE table_busy' = TRUE /\ Goes(t, "holding") /\ UNCHANGED dropped
  /\ UNCHANGED <<slots, slots_used, samples, frames, writing, at, taken>>

Fits(s, place, t) == slots[s].count = 0 \/ (slots[s].place = place /\ slots[s].thread = t)
Probed(place, t) == {i \in 0..kProbes - 1 : Fits((Hash[place, t] + i) % kSlots, place, t)}

(* No room is left when three quarters of the slots are used.              *)
record_Finds(t) ==
  LET place == handler[t].place
      found == Probed(place, t)
      s == (Hash[place, t] + Min(found)) % kSlots IN
  /\ handler[t].step = "holding"
  /\ IF found = {} \/ (slots[s].count = 0 /\ slots_used >= (kSlots \div 4) * 3)
     THEN /\ dropped' = dropped + 1 /\ table_busy' = FALSE /\ Goes(t, "frame")
          /\ UNCHANGED <<slots, slots_used, samples>>
     ELSE /\ slots' = [slots EXCEPT ![s] = [place |-> place, thread |-> t, count |-> @.count + 1]]
          /\ slots_used' = IF slots[s].count = 0 THEN slots_used + 1 ELSE slots_used
          /\ Goes(t, "counted")
          /\ UNCHANGED <<samples, dropped, table_busy>>
  /\ UNCHANGED <<frames, writing, at, taken>>

record_Counts(t) ==
  /\ handler[t].step = "counted"
  /\ samples' = samples + 1 /\ table_busy' = FALSE
  /\ Goes(t, "frame")
  /\ UNCHANGED <<slots, slots_used, dropped, frames, writing, at, taken>>

(* Faulty variant: the list grows while it is read.                        *)
Appends_Always(t) == t = Main /\ Len(frame_samples) < kFrameSamples
Appends(t) == t = Main /\ ~frame_reading /\ Len(frame_samples) < kFrameSamples

(* frame is what the next report should have: the samples taken in by then *)
(* that no report had.                                                     *)
on_sample_Ends(t) ==
  /\ handler[t].step = "frame"
  /\ handler' = [handler EXCEPT ![t] = NotSampling]
  /\ frame_samples' = IF Appends(t) THEN Append(frame_samples, handler[t].place) ELSE frame_samples
  /\ frame' = IF Appends(t) THEN Append(frame, handler[t].place) ELSE frame
  /\ UNCHANGED <<table, frame_reading, reported, writing, at, taken>>

-----------------------------------------------------------------------------
MainAt(from, to) == Runs(Main) /\ at[Main] = from /\ at' = [at EXCEPT ![Main] = to]

(* hle_profile_frame.                                                      *)
Reads ==
  /\ MainAt("game", "reading") /\ frame_reading' = TRUE
  /\ UNCHANGED <<table, frame_samples, frame, reported, writing, handler, taken>>

Reports ==
  /\ MainAt("reading", "reported")
  /\ reported' = [is |-> frame_samples, should |-> frame]
  /\ frame' = <<>>
  /\ UNCHANGED <<table, frame_samples, frame_reading, writing, handler, taken>>

Empties ==
  /\ MainAt("reported", "emptied") /\ frame_samples' = <<>>
  /\ UNCHANGED <<table, frame_reading, frame, reported, writing, handler, taken>>

frame_Ends ==
  /\ MainAt("emptied", "game") /\ frame_reading' = FALSE
  /\ UNCHANGED <<table, frame_samples, frame, reported, writing, handler, taken>>

-----------------------------------------------------------------------------
(* The samples the slots count, each with its place in the count.          *)
Counted == UNION {{s} \X (1..slots[s].count) : s \in Slots}
Total == Cardinality(Counted)

(* write_profile.  A fault in the sampler leaves its handler for good, and *)
(* the table as it is.                                                     *)
Enters(t) ==
  /\ at[t] \in {"game", "reading", "reported", "emptied"}
  /\ at' = [at EXCEPT ![t] = IF written THEN "gone" ELSE "enters"]
  /\ handler' = [handler EXCEPT ![t] = NotSampling]
  /\ UNCHANGED <<table, frames, writing, taken>>

write_profile(t) ==
  /\ Runs(t) /\ at[t] = "enters" /\ at' = [at EXCEPT ![t] = "waits"]
  /\ written' = TRUE
  /\ writes' = [writes EXCEPT ![t] = [took |-> FALSE, tries |-> 0]]
  /\ UNCHANGED <<table, frames, handler, taken>>

Tries(t) ==
  /\ Runs(t) /\ at[t] = "waits"
  /\ table_busy' = TRUE
  /\ IF table_busy /\ writes[t].tries < MaxTries
     THEN writes' = [writes EXCEPT ![t].tries = @ + 1] /\ UNCHANGED at
     ELSE writes' = [writes EXCEPT ![t].took = ~table_busy] /\ at' = [at EXCEPT ![t] = "header"]
  /\ UNCHANGED <<slots, slots_used, samples, dropped, frames, written, handler, taken>>

Heads(t) ==
  /\ Runs(t) /\ at[t] = "header" /\ at' = [at EXCEPT ![t] = "table"]
  /\ writes' = [writes EXCEPT ![t] = [took |-> @.took, samples |-> samples]]
  /\ UNCHANGED <<table, frames, written, handler, taken>>

Lists(t) ==
  /\ Runs(t) /\ at[t] = "table" /\ at' = [at EXCEPT ![t] = "gone"]
  /\ writes' = [writes EXCEPT ![t] = [took |-> @.took, samples |-> @.samples, listed |-> Total]]
  /\ UNCHANGED <<table, frames, written, handler, taken>>

-----------------------------------------------------------------------------
Init ==
  /\ slots = [s \in Slots |-> Free] /\ table_busy = FALSE
  /\ slots_used = 0 /\ samples = 0 /\ dropped = 0
  /\ frame_samples = <<>> /\ frame_reading = FALSE
  /\ frame = <<>> /\ reported = [is |-> <<>>, should |-> <<>>]
  /\ written = FALSE /\ writes = [t \in Threads |-> [took |-> FALSE]]
  /\ at = [t \in Threads |-> "game"] /\ handler = [t \in Threads |-> NotSampling]
  /\ taken = 0

Next ==
  \/ \E t \in Threads :
       \/ \E place \in Places : Signal(t, place)
       \/ record_Takes(t) \/ record_Finds(t) \/ record_Counts(t) \/ on_sample_Ends(t)
       \/ Enters(t) \/ write_profile(t) \/ Tries(t) \/ Heads(t) \/ Lists(t)
  \/ Reads \/ Reports \/ Empties \/ frame_Ends

Spec == Init /\ [][Next]_vars
-----------------------------------------------------------------------------
Used == {s \in Slots : slots[s].count > 0}

(* Every variable has its type.                                            *)
TypeOK ==
  /\ {table_busy, frame_reading, written} \subseteq BOOLEAN
  /\ slots_used <= kSlots /\ samples + dropped <= taken
  /\ Len(frame_samples) <= kFrameSamples

(* While nobody has the table, its counts add up and no place of a thread  *)
(* is in it twice; and a profile written with the table taken is of one    *)
(* moment: the counts it lists are the samples its header gives.           *)
TableIsExact ==
  /\ ~table_busy =>
       /\ Total = samples /\ Cardinality(Used) = slots_used
       /\ \A r, s \in Used : slots[r].place = slots[s].place /\ slots[r].thread = slots[s].thread => r = s
  /\ \A t \in Threads : writes[t].took /\ at[t] = "gone" => writes[t].listed = writes[t].samples

(* A sample that on_sample takes in on the game's thread is in the report  *)
(* of one frame, wherever in hle_profile_frame the signal comes.           *)
FramesAreExact == reported.is = reported.should

(* Both, of the table and of the frames.                                   *)
SamplesAreExact == TableIsExact /\ FramesAreExact
=============================================================================
