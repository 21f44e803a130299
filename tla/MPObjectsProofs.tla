-------------------------- MODULE MPObjectsProofs --------------------------
(* Theorems about MPObjects, for any threads, arguments, flags and bounds. *)
EXTENDS MPObjects, TLAPS

-----------------------------------------------------------------------------
(* What the control of a thread does, whatever the object.                 *)

ControlOK ==
  /\ kind \in {"semaphore", "event", "region"}
  /\ deleted \in BOOLEAN
  /\ pc \in [Threads -> {"new", "out", "locking", "asleep", "gone"}]
  /\ op \in [Threads -> {"none", "wait", "signal", "delete"}]
  /\ arg \in [Threads -> SUBSET Flags]
  /\ deadline \in [Threads -> {"passed", "ahead", "never"}]
  /\ terminate \in [Threads -> BOOLEAN]
  /\ id \in [Threads -> Ids \cup {NoId}]
  /\ \A t \in Threads : /\ pc[t] \in {"locking", "asleep"} <=> op[t] # "none"
                        /\ kind = "region" /\ pc[t] # "new" => id[t] \in Ids

DataOK ==
  /\ count \in 0..Maximum
  /\ flags \subseteq Flags
  /\ owner \in Ids \cup {NoId} /\ depth \in Nat
  /\ signalled \in 0..MaxSignals /\ passed \in Nat
  /\ hold \in [Threads -> Nat]
  /\ out \in [err : {"noErr", "kMPDeletedErr", "kMPTimeoutErr"},
             flags : SUBSET Flags]

(* TypeOK is the types of the control and those of the data.               *)
LEMMA TypeParts == TypeOK <=> ControlOK /\ DataOK
  BY DEF TypeOK, ControlOK, DataOK

(* pthread_cond_signal wakes some of the sleepers.                         *)
LEMMA SleepersAreWoken ==
  ASSUME NEW t \in Threads, ReturnsSignalling(t)
  PROVE  \E woken \in SUBSET Sleepers : Returns(t, woken)
<1>1. CASE Sleepers = {}
  BY <1>1 DEF ReturnsSignalling
<1>2. CASE Sleepers # {}
  <2>1. PICK s \in Sleepers : Returns(t, {s})
    BY <1>2 DEF ReturnsSignalling
  <2>2. {s} \in SUBSET Sleepers
    BY <2>1
  <2> QED
    BY <2>1, <2>2
<1> QED
  BY <1>1, <1>2

(* A call that returns, with the sleepers it wakes.                        *)
LEMMA ReturnsControl ==
  ASSUME ControlOK, NEW t \in Threads, NEW woken \in SUBSET Sleepers,
         pc[t] = "locking", Returns(t, woken), deleted' \in BOOLEAN
  PROVE  /\ ControlOK'
         /\ kind' = kind /\ id' = id
         /\ \A s \in Threads : Alive(s)' <=> Alive(s)
         /\ \A s \in Threads : pc'[s] = "new" <=> pc[s] = "new"
<1>1. /\ t \notin woken
      /\ \A s \in Threads : s \in woken => pc[s] = "asleep"
  BY DEF ControlOK, Sleepers
<1>2. /\ pc'[t] = "out" /\ op'[t] = "none"
      /\ \A s \in Threads \ {t} :
            /\ op'[s] = op[s]
            /\ \/ pc'[s] = pc[s]
               \/ pc[s] = "asleep" /\ pc'[s] = "locking"
  <2>1. pc'[t] = "out" /\ op' = [op EXCEPT ![t] = "none"]
    BY <1>1 DEF Returns
  <2>2. ASSUME NEW s \in Threads \ {t}
        PROVE  pc'[s] = IF s \in woken THEN "locking" ELSE pc[s]
    BY <2>2 DEF Returns
  <2> QED
    BY <1>1, <2>1, <2>2 DEF ControlOK
<1>3. pc' \in [Threads -> {"new", "out", "locking", "asleep", "gone"}]
  <2>1. \A s \in Threads : (CASE s = t -> "out" [] s \in woken -> "locking"
             [] OTHER -> pc[s]) \in {"new", "out", "locking", "asleep", "gone"}
    BY <1>1 DEF ControlOK
  <2> QED
    BY <2>1 DEF Returns
<1>4. \A s \in Threads : /\ Alive(s)' <=> Alive(s)
                         /\ pc'[s] = "new" <=> pc[s] = "new"
  BY <1>1, <1>2 DEF Alive, ControlOK
<1>5. \A s \in Threads : /\ pc'[s] \in {"locking", "asleep"} <=> op'[s] # "none"
                         /\ kind' = "region" /\ pc'[s] # "new" => id'[s] \in Ids
  BY <1>1, <1>2, <1>4 DEF ControlOK, Returns
<1> QED
  BY <1>3, <1>4, <1>5 DEF ControlOK, Returns

(* A thread that goes to another place and stays in its call, or ends.     *)
LEMMA BecomesControl ==
  ASSUME ControlOK, NEW t \in Threads, NEW place \in {"locking", "asleep", "gone"},
         pc[t] # "new", op[t] # "none" \/ place = "gone", Becomes(t, place)
  PROVE  /\ ControlOK'
         /\ kind' = kind /\ id' = id
         /\ \A s \in Threads : Alive(s)' => Alive(s)
         /\ \A s \in Threads : pc'[s] = "new" <=> pc[s] = "new"
  BY DEF Becomes, ControlOK, Alive

(* The four ways on of a wait that does not find what it waits for.        *)
LEMMA GoesWithoutControl ==
  ASSUME ControlOK, NEW t \in Threads, pc[t] = "locking", GoesWithout(t)
  PROVE  /\ ControlOK'
         /\ kind' = kind /\ id' = id
         /\ \A s \in Threads : Alive(s)' => Alive(s)
         /\ \A s \in Threads : pc'[s] = "new" <=> pc[s] = "new"
<1>0. /\ deleted' \in BOOLEAN /\ {} \in SUBSET Sleepers
      /\ pc[t] # "new" /\ op[t] # "none"
  BY DEF ControlOK, GoesWithout, FindsDeleted, TimesOut, LeavesTask, Sleeps, Becomes
<1>1. CASE FindsDeleted(t) \/ TimesOut(t)
  BY <1>0, <1>1, ReturnsControl DEF FindsDeleted, TimesOut
<1>2. CASE LeavesTask(t) \/ Sleeps(t)
  BY <1>0, <1>2, BecomesControl DEF LeavesTask, Sleeps
<1> QED
  BY <1>1, <1>2 DEF GoesWithout

(* What a step leaves of the threads: the same ones live under the same    *)
(* ids, less those that end.                                               *)
ThreadsStay ==
  /\ kind' = kind /\ id' = id
  /\ \A s \in Threads : Alive(s)' => Alive(s)
  /\ \A s \in Threads : pc'[s] = "new" <=> pc[s] = "new"

(* Every step keeps the control in order, and starts a thread or keeps the *)
(* threads.                                                                *)
LEMMA ControlSteps ==
  ASSUME ControlOK, [Next]_vars
  PROVE  ControlOK' /\ (ThreadsStay \/ \E t \in Threads : Starts(t))
<1> DEFINE Goal == ControlOK' /\ ThreadsStay
<1>0. /\ {} \in SUBSET Sleepers /\ Sleepers \in SUBSET Sleepers
      /\ deleted \in BOOLEAN
      /\ \A t \in Threads : pc[t] = "locking" => pc[t] # "new" /\ op[t] # "none"
  BY DEF ControlOK
<1>1. ASSUME NEW t \in Threads, Starts(t)
       PROVE  ControlOK'
  BY <1>1 DEF Starts, ControlOK, Alive
<1>2. ASSUME NEW t \in Threads, NEW name \in {"wait", "signal", "delete"},
            NEW duration, Calls(t, name, duration), arg' \in [Threads -> SUBSET Flags]
       PROVE  Goal
  BY <1>2 DEF Calls, deadline_after, ControlOK, Alive, ThreadsStay
<1>3. ASSUME NEW t \in Threads, pc[t] = "locking", NEW woken \in SUBSET Sleepers,
            Returns(t, woken), deleted' \in BOOLEAN
       PROVE  Goal
  BY <1>3, ReturnsControl DEF ThreadsStay
<1>4. ASSUME NEW t \in Threads, pc[t] = "locking", ReturnsSignalling(t),
            deleted' \in BOOLEAN
       PROVE  Goal
  BY <1>3, <1>4, SleepersAreWoken
<1>5. ASSUME NEW t \in Threads, pc[t] = "locking", GoesWithout(t)
       PROVE  Goal
  BY <1>5, GoesWithoutControl DEF ThreadsStay
<1>6. ASSUME NEW t \in Threads, Elsewhere(t)
       PROVE  Goal
  <2>1. CASE SliceEnds(t)
    BY <2>1, BecomesControl DEF SliceEnds, ControlOK, ThreadsStay
  <2>2. CASE DeadlinePasses(t)
    BY <2>2 DEF DeadlinePasses, ControlOK, Alive, ThreadsStay
  <2>3. CASE ToldToStop(t)
    BY <2>3 DEF ToldToStop, ControlOK, Alive, ThreadsStay
  <2>4. CASE Ends(t)
    BY <2>4, BecomesControl DEF Ends, ThreadsStay
  <2> QED
    BY <1>6, <2>1, <2>2, <2>3, <2>4 DEF Elsewhere
<1>7. ASSUME NEW t \in Threads, Proceeds(t)
       PROVE  Goal
  <2>1. CASE Signals(t)
    BY <2>1, <1>0, <1>4 DEF Signals, Inside
  <2>2. CASE SignalRefused(t) \/ WaitPasses(t) \/ WaitCollects(t) \/ EntersAgain(t)
             \/ Enters(t) \/ ExitRefused(t)
    BY <2>2, <1>0, <1>3
      DEF SignalRefused, WaitPasses, WaitCollects, EntersAgain, Enters,
        ExitRefused, Inside
  <2>3. CASE WaitFindsNone(t) \/ WaitEndsWithout(t) \/ WaitGoesOn(t) \/ WaitFindsOwned(t)
    BY <2>3, <1>5
      DEF WaitFindsNone, WaitEndsWithout, WaitGoesOn, WaitFindsOwned, Inside,
        GoesWithout
  <2>4. CASE SetsFlags(t) \/ Deletes(t)
    BY <2>4, <1>0, <1>3 DEF SetsFlags, Deletes, Inside
  <2>5. CASE Exits(t)
    BY <2>5, <1>0, <1>3, <1>4 DEF Exits, Inside
  <2> QED
    BY <1>7, <2>1, <2>2, <2>3, <2>4, <2>5 DEF Proceeds
<1>8. ASSUME NEW t \in Threads,
            \/ \E duration \in Durations : WaitCall(t, duration)
            \/ SignalCall(t) \/ DeleteCall(t) \/ \E bits \in Sets : MPSetEvent(t, bits)
       PROVE  Goal
  <2>1. ASSUME NEW duration, WaitCall(t, duration)
        PROVE  Goal
    BY <2>1, <1>2 DEF WaitCall, ControlOK
  <2>2. ASSUME SignalCall(t) \/ DeleteCall(t)
        PROVE  Goal
    BY <2>2, <1>2 DEF SignalCall, DeleteCall, ControlOK
  <2>3. ASSUME NEW bits \in Sets, MPSetEvent(t, bits)
        PROVE  Goal
    <3>1. arg' \in [Threads -> SUBSET Flags]
      BY <2>3, SetsAreOfFlags DEF MPSetEvent, ControlOK
    <3> QED
      BY <2>3, <3>1, <1>2 DEF MPSetEvent
  <2> QED
    BY <1>8, <2>1, <2>2, <2>3
<1>9. ASSUME UNCHANGED vars PROVE Goal
  BY <1>9 DEF vars, thread, ControlOK, Alive, ThreadsStay
<1> HIDE DEF Goal
<1>10. Goal \/ \E t \in Threads : Starts(t)
  BY <1>6, <1>7, <1>8, <1>9 DEF Next
<1> QED
  BY <1>1, <1>10 DEF Goal

-----------------------------------------------------------------------------
(* Counts.                                                                 *)

(* Each variable of the object a step may change, and how.                 *)
LEMMA DataSteps ==
  ASSUME ControlOK, [Next]_vars
  PROVE  \/ UNCHANGED data
         \/ \E t \in Threads :
              \/ Signals(t) \/ WaitPasses(t) \/ SetsFlags(t)
              \/ WaitCollects(t) \/ WaitEndsWithout(t)
              \/ EntersAgain(t) \/ Enters(t) \/ Exits(t)
  BY DEF Next, vars, Starts, WaitCall, SignalCall, DeleteCall, MPSetEvent,
    Calls, Proceeds, Elsewhere, SignalRefused, WaitFindsNone, WaitGoesOn,
    WaitFindsOwned, ExitRefused, Deletes

(* Every step keeps the types of the data.                                 *)
LEMMA DataTypes ==
  ASSUME TypeOK, [Next]_vars PROVE DataOK'
<1>0. ControlOK /\ DataOK
  BY TypeParts
<1> USE <1>0, SemaphoreArguments, ObjectBounds DEF DataOK
<1>1. CASE UNCHANGED data
  BY <1>1 DEF data
<1>2. ASSUME NEW t \in Threads, Signals(t)
      PROVE  DataOK'
  BY <1>2 DEF Signals
<1>3. ASSUME NEW t \in Threads, WaitPasses(t)
      PROVE  DataOK'
  BY <1>3 DEF WaitPasses
<1>4. ASSUME NEW t \in Threads, SetsFlags(t)
      PROVE  DataOK'
  BY <1>4 DEF SetsFlags, ControlOK
<1>5. ASSUME NEW t \in Threads, WaitCollects(t) \/ WaitEndsWithout(t)
      PROVE  DataOK'
  BY <1>5 DEF WaitCollects, WaitEndsWithout, Collects
<1>6. ASSUME NEW t \in Threads, EntersAgain(t) \/ Enters(t)
      PROVE  DataOK'
  BY <1>6 DEF EntersAgain, Enters, ControlOK
<1>7. ASSUME NEW t \in Threads, Exits(t)
      PROVE  DataOK'
  BY <1>7 DEF Exits
<1> QED
  BY DataSteps, <1>1, <1>2, <1>3, <1>4, <1>5, <1>6, <1>7

(* TypeOK is inductive.                                                    *)
THEOREM TypeCorrect == Spec => []TypeOK
<1>1. Init => TypeOK
  <2> SUFFICES ASSUME Init PROVE ControlOK /\ DataOK
    BY TypeParts
  <2>1. ControlOK
    BY DEF Init, ControlOK
  <2>2. DataOK
    BY SemaphoreArguments, ObjectBounds DEF Init, DataOK
  <2> QED
    BY <2>1, <2>2
<1>2. TypeOK /\ [Next]_vars => TypeOK'
  BY TypeParts, ControlSteps, DataTypes, PTL
<1> QED
  BY <1>1, <1>2, PTL DEF Spec

(* SignalsAreWaits: the count of a semaphore is what was put in less what  *)
(* was taken out, through every timeout, deletion and end of a task.       *)
THEOREM SignalsWaited == Spec => []SignalsAreWaits
<1>1. Init => SignalsAreWaits
  BY SemaphoreArguments DEF Init, SignalsAreWaits
<1>2. TypeOK /\ SignalsAreWaits /\ [Next]_vars => SignalsAreWaits'
  <2> SUFFICES ASSUME TypeOK, SignalsAreWaits, [Next]_vars PROVE SignalsAreWaits'
    OBVIOUS
  <2>0. ControlOK /\ DataOK /\ kind' = kind
    <3>1. ControlOK /\ DataOK
      BY TypeParts
    <3> QED
      BY <3>1, ControlSteps DEF ThreadsStay, Starts
  <2> USE <2>0, SemaphoreArguments, ObjectBounds DEF DataOK, SignalsAreWaits
  <2>1. CASE UNCHANGED data
    BY <2>1 DEF data
  <2>2. ASSUME NEW t \in Threads, Signals(t)
        PROVE  SignalsAreWaits'
    BY <2>2 DEF Signals
  <2>3. ASSUME NEW t \in Threads, WaitPasses(t)
        PROVE  SignalsAreWaits'
    BY <2>3 DEF WaitPasses
  <2>4. ASSUME NEW t \in Threads, SetsFlags(t)
        PROVE  SignalsAreWaits'
    BY <2>4 DEF SetsFlags, Inside
  <2>5. ASSUME NEW t \in Threads,
               \/ WaitCollects(t) \/ WaitEndsWithout(t)
               \/ EntersAgain(t) \/ Enters(t) \/ Exits(t)
        PROVE  SignalsAreWaits'
    BY <2>5 DEF WaitCollects, WaitEndsWithout, Collects, EntersAgain, Enters, Exits
  <2> QED
    BY DataSteps, <2>1, <2>2, <2>3, <2>4, <2>5
<1> QED
  BY <1>1, <1>2, TypeCorrect, PTL DEF Spec

-----------------------------------------------------------------------------
(* Event groups.                                                           *)

(* FlagsAreCollected: flags leave the group in the hands of a waiter whose *)
(* wait returns noErr, all of them, and in no other way.                   *)
THEOREM FlagsCollected == Spec => FlagsAreCollected
<1>1. TypeOK /\ [Next]_vars => FlagsAreCollectedStep
  <2> SUFFICES ASSUME TypeOK, [Next]_vars PROVE FlagsAreCollectedStep
    OBVIOUS
  <2>0. ControlOK
    BY TypeParts
  <2>1. CASE \E t \in Threads : WaitCollects(t)
    <3>1. PICK t \in Threads : WaitCollects(t)
      BY <2>1
    <3>2. pc'[t] = "out"
      BY <3>1, <2>0 DEF WaitCollects, Inside, Returns, ControlOK
    <3> QED
      BY <3>1, <3>2 DEF WaitCollects, Inside, Collects, FlagsAreCollectedStep
  <2>2. CASE ~\E t \in Threads : WaitCollects(t)
    <3>1. flags \subseteq flags'
      BY <2>0, <2>2, DataSteps
        DEF data, Signals, WaitPasses, SetsFlags, WaitEndsWithout, Collects,
          EntersAgain, Enters, Exits
    <3> QED
      BY <3>1 DEF FlagsAreCollectedStep
  <2> QED
    BY <2>1, <2>2
<1> QED
  BY <1>1, TypeCorrect, PTL DEF Spec, FlagsAreCollected

-----------------------------------------------------------------------------
(* Critical regions.                                                       *)

(* What HolderOwns rests on: no two living threads share a pthread_t, and  *)
(* only a thread that runs can be inside a region.                         *)
IdsAreDistinct ==
  kind = "region" =>
    \A s, t \in Threads : Alive(s) /\ Alive(t) /\ s # t => id[s] # id[t]
HoldersRun ==
  \A t \in Threads : hold[t] > 0 => kind = "region" /\ pc[t] # "new"

RegionInv == IdsAreDistinct /\ HoldersRun /\ HolderOwns

(* A new thread is given a pthread_t that no living thread has.            *)
LEMMA IdsOnStep ==
  ASSUME TypeOK, IdsAreDistinct, [Next]_vars PROVE IdsAreDistinct'
<1>0. ControlOK
  BY TypeParts
<1>1. CASE ThreadsStay
  BY <1>1 DEF IdsAreDistinct, ThreadsStay
<1>2. ASSUME NEW t \in Threads, Starts(t) PROVE IdsAreDistinct'
  <2>1. /\ kind' = kind
        /\ \A s \in Threads \ {t} : id'[s] = id[s] /\ (Alive(s)' <=> Alive(s))
        /\ \A s \in Threads \ {t} : Alive(s) => id'[t] # id[s]
    BY <1>0, <1>2 DEF Starts, ControlOK, Alive
  <2> QED
    BY <2>1 DEF IdsAreDistinct
<1> QED
  BY <1>0, <1>1, <1>2, ControlSteps

(* A thread that enters or exits is the owner, and there is only one.      *)
LEMMA RegionOnStep ==
  ASSUME TypeOK, RegionInv, [Next]_vars PROVE HoldersRun' /\ HolderOwns'
<1>0. ControlOK /\ DataOK
  BY TypeParts
<1>1. ASSUME UNCHANGED data PROVE HoldersRun' /\ HolderOwns'
  <2>1. CASE ThreadsStay
    BY <1>1, <2>1 DEF ThreadsStay, data, RegionInv, HoldersRun, HolderOwns
  <2>2. ASSUME NEW t \in Threads, Starts(t) PROVE HoldersRun' /\ HolderOwns'
    <3>1. kind' = kind /\ pc[t] = "new" /\ pc' = [pc EXCEPT ![t] = "out"]
          /\ \A s \in Threads \ {t} : id'[s] = id[s]
      BY <1>0, <2>2 DEF Starts, ControlOK
    <3>2. ~(hold[t] > 0)
      BY <3>1 DEF RegionInv, HoldersRun
    <3> QED
      BY <1>0, <1>1, <3>1, <3>2
        DEF data, RegionInv, HoldersRun, HolderOwns, Alive, ControlOK
  <2> QED
    BY <1>0, <2>1, <2>2, ControlSteps
<1>2. ASSUME NEW t \in Threads, ThreadsStay,
             \/ Signals(t) \/ WaitPasses(t) \/ SetsFlags(t)
             \/ WaitCollects(t) \/ WaitEndsWithout(t)
       PROVE  HoldersRun' /\ HolderOwns'
  <2>1. UNCHANGED <<hold, owner, depth>>
    BY <1>2
      DEF Signals, WaitPasses, SetsFlags, WaitCollects, WaitEndsWithout, Collects
  <2> QED
    BY <1>2, <2>1 DEF ThreadsStay, RegionInv, HoldersRun, HolderOwns
<1>3. ASSUME NEW t \in Threads, ThreadsStay, EntersAgain(t)
       PROVE  HoldersRun' /\ HolderOwns'
  <2>1. /\ depth \in Nat /\ depth > 0 /\ depth' = depth + 1
        /\ owner = id[t] /\ owner' = owner
        /\ hold \in [Threads -> Nat] /\ hold' = [hold EXCEPT ![t] = @ + 1]
        /\ kind = "region" /\ pc[t] # "new" /\ Alive(t)
    BY <1>0, <1>3 DEF EntersAgain, Inside, DataOK, Alive
  <2>2. HoldersRun'
    BY <1>3, <2>1 DEF ThreadsStay, RegionInv, HoldersRun
  <2>3. ASSUME NEW s \in Threads, Alive(s)', hold'[s] > 0
        PROVE  owner' = id'[s] /\ depth' >= hold'[s]
    <3>1. CASE s = t
      BY <1>3, <2>1, <2>3, <3>1 DEF ThreadsStay, RegionInv, HolderOwns
    <3>2. CASE s # t
      BY <1>3, <2>1, <2>3, <3>2 DEF ThreadsStay, RegionInv, HolderOwns
    <3> QED
      BY <3>1, <3>2
  <2> QED
    BY <2>2, <2>3 DEF HolderOwns
<1>4. ASSUME NEW t \in Threads, ThreadsStay, Enters(t)
       PROVE  HoldersRun' /\ HolderOwns'
  <2>1. /\ depth = 0 /\ depth' = 1 /\ owner' = id[t]
        /\ hold \in [Threads -> Nat] /\ hold' = [hold EXCEPT ![t] = @ + 1]
        /\ kind = "region" /\ pc[t] # "new" /\ Alive(t)
    BY <1>0, <1>4 DEF Enters, Inside, DataOK, Alive
  <2>2. HoldersRun'
    BY <1>4, <2>1 DEF ThreadsStay, RegionInv, HoldersRun
  <2>3. \A s \in Threads : Alive(s) => hold[s] = 0
    BY <2>1 DEF RegionInv, HolderOwns
  <2> QED
    BY <1>4, <2>1, <2>2, <2>3 DEF ThreadsStay, HolderOwns
<1>5. ASSUME NEW t \in Threads, ThreadsStay, Exits(t)
       PROVE  HoldersRun' /\ HolderOwns'
  <2>1. /\ depth \in Nat /\ depth > 0 /\ depth' = depth - 1
        /\ owner = id[t] /\ owner' = owner
        /\ hold \in [Threads -> Nat]
        /\ hold' = [hold EXCEPT ![t] = IF @ > 0 THEN @ - 1 ELSE 0]
        /\ kind = "region" /\ pc[t] # "new" /\ Alive(t)
    BY <1>0, <1>5 DEF Exits, Inside, DataOK, Alive
  <2>2. HoldersRun'
    BY <1>5, <2>1 DEF ThreadsStay, RegionInv, HoldersRun
  <2>3. ASSUME NEW s \in Threads, Alive(s)', hold'[s] > 0
        PROVE  owner' = id'[s] /\ depth' >= hold'[s]
    <3>1. s = t
      BY <1>5, <2>1, <2>3 DEF ThreadsStay, RegionInv, HolderOwns, IdsAreDistinct
    <3> QED
      BY <1>5, <2>1, <2>3, <3>1 DEF ThreadsStay, RegionInv, HolderOwns
  <2> QED
    BY <2>2, <2>3 DEF HolderOwns
<1>6. ASSUME NEW t \in Threads, Starts(t) PROVE UNCHANGED data
  BY <1>6 DEF Starts
<1> QED
  BY <1>0, <1>1, <1>2, <1>3, <1>4, <1>5, <1>6, ControlSteps, DataSteps

(* HolderOwns: whoever is inside a region owns it as deep as it entered,   *)
(* even when the pthread_t of a task that ended inside is used again.      *)
THEOREM HolderOwned == Spec => []HolderOwns
<1>1. Init => RegionInv
  BY DEF Init, RegionInv, IdsAreDistinct, HoldersRun, HolderOwns, Alive
<1>2. TypeOK /\ RegionInv /\ [Next]_vars => RegionInv'
  BY IdsOnStep, RegionOnStep DEF RegionInv
<1>3. RegionInv => HolderOwns
  BY DEF RegionInv
<1> QED
  BY <1>1, <1>2, <1>3, TypeCorrect, PTL DEF Spec

(* ObjectsAreExact: semaphores, event groups and regions at once.          *)
THEOREM ObjectsExact == Spec => []ObjectsAreExact
BY TypeCorrect, SignalsWaited, HolderOwned, PTL DEF ObjectsAreExact
=============================================================================
