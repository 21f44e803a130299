----------------------------- MODULE MPObjects -----------------------------
(***************************************************************************)
(* Semaphores, event groups and critical regions of src/hle/mp.c.          *)
(*                                                                         *)
(* The three wait in the same loop, which is modelled once:                *)
(*                                                                         *)
(*   check the magic number, lock,                                         *)
(*   while what is waited for is missing:                                  *)
(*     deleted -> kMPDeletedErr; told to stop -> unlock and leave;         *)
(*     deadline behind -> kMPTimeoutErr; else sleep for a slice            *)
(*                                                                         *)
(* Threads share one object, whose kind the initial states choose.  A      *)
(* critical section of its mutex is one step.                              *)
(*                                                                         *)
(* The owner of a region is a pthread_t, not a thread: glibc gives a       *)
(* thread that has ended its pthread_t back to a later one.  Nothing       *)
(* releases the region of a task that ends inside it.                      *)
(***************************************************************************)
EXTENDS Naturals

CONSTANTS Tasks,             \* threads MPTerminateTask can tell to stop
          OtherThreads,      \* the main thread, and threads of the game's own
          Durations,         \* what the waits are given
          Initial, Maximum,  \* MPCreateSemaphore's arguments
          Flags,             \* the bits of an event group
          Sets,              \* what MPSetEvent is given, subsets of Flags
          Ids,               \* the values of pthread_t
          NoId,              \* the zero calloc leaves in owner
          MaxSignals,        \* bound: signals or MPSetEvents that succeed
          MaxDepth           \* bound: how often a thread enters a region

ASSUME SemaphoreArguments ==
  Initial \in Nat /\ Maximum \in Nat /\ Initial <= Maximum
ASSUME SetsAreOfFlags == Sets \subseteq SUBSET Flags
ASSUME NoIdIsNoId == NoId \notin Ids
ASSUME ObjectBounds == MaxSignals \in Nat /\ MaxDepth \in Nat \ {0}

Threads == Tasks \cup OtherThreads

VARIABLES
  kind,         \* mp_semaphore, mp_event or mp_critical_region
  deleted,      \* the object's flag; its magic number is gone with it
  count,        \* mp_semaphore
  flags,        \* mp_event
  owner, depth, \* mp_critical_region
  pc,           \* "new", "out" in the game, "locking" or "asleep", "gone"
  op, arg,      \* the call a thread is inside; the flags it sets
  deadline,     \* of the wait a thread is inside: "passed", "ahead", "never"
  terminate,    \* mp_task.terminate
  id,           \* a thread's pthread_t, which only a region looks at
  signalled,    \* history: signals, or sets, that succeeded
  passed,       \* history: waits on the semaphore that returned noErr
  hold,         \* history: a thread's entries to the region less its exits
  out           \* history: what the last wait for an event returned

data == <<count, flags, owner, depth, signalled, passed, hold, out>>
thread == <<pc, op, arg, deadline, terminate, id>>
vars == <<kind, deleted, data, thread>>

Init ==
  /\ kind \in {"semaphore", "event", "region"}
  /\ deleted = FALSE
  /\ count = IF kind = "semaphore" THEN Initial ELSE 0
  /\ flags = {}
  /\ owner = NoId /\ depth = 0
  /\ pc = [t \in Threads |-> IF kind = "region" THEN "new" ELSE "out"]
  /\ op = [t \in Threads |-> "none"]
  /\ arg = [t \in Threads |-> {}]
  /\ deadline = [t \in Threads |-> "never"]
  /\ terminate = [t \in Threads |-> FALSE]
  /\ id = [t \in Threads |-> NoId]
  /\ signalled = 0 /\ passed = 0
  /\ hold = [t \in Threads |-> 0]
  /\ out = [err |-> "noErr", flags |-> {}]

Alive(t) == pc[t] \notin {"new", "gone"}

(* pthread_create: a pthread_t no living thread has.                       *)
Starts(t) ==
  /\ pc[t] = "new"
  /\ pc' = [pc EXCEPT ![t] = "out"]
  /\ \E i \in Ids \ {id[s] : s \in {s \in Threads : Alive(s)}} :
        id' = [id EXCEPT ![t] = i]
  /\ UNCHANGED <<kind, deleted, data, op, arg, deadline, terminate>>

-----------------------------------------------------------------------------
(* The calls, up to the object's mutex.                                    *)

deadline_after(duration) ==
  CASE duration = "kDurationImmediate" -> "passed"
    [] duration = "finite" -> "ahead"
    [] OTHER -> "never"

(* The call sees the magic number, without the lock, and goes on.          *)
Calls(t, name, duration) ==
  /\ pc[t] = "out" /\ ~deleted
  /\ pc' = [pc EXCEPT ![t] = "locking"]
  /\ op' = [op EXCEPT ![t] = name]
  /\ deadline' = [deadline EXCEPT ![t] = deadline_after(duration)]
  /\ UNCHANGED <<kind, deleted, data, terminate, id>>

(* MPWaitOnSemaphore, MPWaitForEvent, MPEnterCriticalRegion.               *)
WaitCall(t, duration) ==
  Calls(t, "wait", duration) /\ hold[t] < MaxDepth /\ UNCHANGED arg

(* MPSignalSemaphore, MPExitCriticalRegion.                                *)
SignalCall(t) ==
  /\ kind # "event"
  /\ Calls(t, "signal", "kDurationForever")
  /\ UNCHANGED arg

MPSetEvent(t, bits) ==
  /\ kind = "event"
  /\ Calls(t, "signal", "kDurationForever")
  /\ arg' = [arg EXCEPT ![t] = bits]

(* MPDeleteSemaphore, MPDeleteEvent, MPDeleteCriticalRegion.               *)
DeleteCall(t) == Calls(t, "delete", "kDurationForever") /\ UNCHANGED arg

Inside(t, k, name) == kind = k /\ pc[t] = "locking" /\ op[t] = name

Sleepers == {s \in Threads : pc[s] = "asleep"}

(* The call ends in its critical section.  woken are the sleepers that its *)
(* pthread_cond_signal or pthread_cond_broadcast wakes.                    *)
Returns(t, woken) ==
  /\ pc' = [s \in Threads |-> CASE s = t -> "out"
                                [] s \in woken -> "locking"
                                [] OTHER -> pc[s]]
  /\ op' = [op EXCEPT ![t] = "none"]
  /\ arg' = [arg EXCEPT ![t] = {}]
  /\ deadline' = [deadline EXCEPT ![t] = "never"]
  /\ UNCHANGED <<kind, terminate, id>>

(* pthread_cond_signal wakes one sleeper, if there is one.                 *)
ReturnsSignalling(t) ==
  IF Sleepers = {} THEN Returns(t, {}) ELSE \E s \in Sleepers : Returns(t, {s})

-----------------------------------------------------------------------------
(* The loop's ways on while what is waited for is missing.                 *)

FindsDeleted(t) == deleted /\ Returns(t, {}) /\ UNCHANGED deleted

TimesOut(t) ==
  /\ ~deleted /\ ~terminate[t] /\ deadline[t] = "passed"
  /\ Returns(t, {}) /\ UNCHANGED deleted

Becomes(t, place) ==
  /\ pc' = [pc EXCEPT ![t] = place]
  /\ op' = [op EXCEPT ![t] = IF place = "gone" THEN "none" ELSE @]
  /\ UNCHANGED <<kind, deleted, arg, deadline, terminate, id>>

LeavesTask(t) == ~deleted /\ terminate[t] /\ Becomes(t, "gone")

Sleeps(t) ==
  ~deleted /\ ~terminate[t] /\ deadline[t] # "passed" /\ Becomes(t, "asleep")

GoesWithout(t) == FindsDeleted(t) \/ LeavesTask(t) \/ TimesOut(t) \/ Sleeps(t)

(* Faulty variant: only a signal wakes a wait that has no deadline.        *)
SliceEnds_OnlyTimed(t) ==
  pc[t] = "asleep" /\ deadline[t] # "never" /\ Becomes(t, "locking")

SliceEnds(t) == pc[t] = "asleep" /\ Becomes(t, "locking")

DeadlinePasses(t) ==
  /\ deadline[t] = "ahead"
  /\ deadline' = [deadline EXCEPT ![t] = "passed"]
  /\ UNCHANGED <<kind, deleted, pc, op, arg, terminate, id>>

(* Another thread's MPTerminateTask; it takes no lock and wakes nobody.    *)
ToldToStop(t) ==
  /\ t \in Tasks /\ pc[t] # "new"
  /\ terminate' = [terminate EXCEPT ![t] = TRUE]
  /\ UNCHANGED <<kind, deleted, pc, op, arg, deadline, id>>

(* MPExit, a checkpoint, or the entry point returning.                     *)
Ends(t) == t \in Tasks /\ pc[t] = "out" /\ Becomes(t, "gone")

(* Any of the Delete calls, once it has the lock.                          *)
Deletes(t) ==
  /\ Inside(t, kind, "delete")
  /\ deleted' = TRUE
  /\ Returns(t, Sleepers)
  /\ UNCHANGED data

-----------------------------------------------------------------------------
(* Semaphores.                                                             *)

Signals(t) ==
  /\ Inside(t, "semaphore", "signal")
  /\ count < Maximum
  /\ signalled < MaxSignals
  /\ count' = count + 1
  /\ signalled' = signalled + 1
  /\ ReturnsSignalling(t)
  /\ UNCHANGED <<deleted, flags, owner, depth, passed, hold, out>>

(* kMPInsufficientResourcesErr: the semaphore is at its maximum.           *)
SignalRefused(t) ==
  /\ Inside(t, "semaphore", "signal")
  /\ count >= Maximum
  /\ Returns(t, {})
  /\ UNCHANGED <<deleted, data>>

(* Faulty variant: a task told to stop takes the count along.              *)
WaitPasses_ThenLeaves(t) ==
  /\ Inside(t, "semaphore", "wait")
  /\ count > 0
  /\ count' = count - 1
  /\ IF terminate[t]
     THEN Becomes(t, "gone") /\ UNCHANGED passed
     ELSE Returns(t, {}) /\ passed' = passed + 1 /\ UNCHANGED deleted
  /\ UNCHANGED <<flags, owner, depth, signalled, hold, out>>

(* A deleted semaphore that still counts lets the wait pass.               *)
WaitPasses(t) ==
  /\ Inside(t, "semaphore", "wait")
  /\ count > 0
  /\ count' = count - 1
  /\ passed' = passed + 1
  /\ Returns(t, {})
  /\ UNCHANGED <<deleted, flags, owner, depth, signalled, hold, out>>

WaitFindsNone(t) ==
  Inside(t, "semaphore", "wait") /\ count = 0 /\ GoesWithout(t) /\ UNCHANGED data

-----------------------------------------------------------------------------
(* Event groups.                                                           *)

SetsFlags(t) ==
  /\ Inside(t, "event", "signal")
  /\ signalled < MaxSignals
  /\ signalled' = signalled + 1
  /\ flags' = flags \cup arg[t]
  /\ Returns(t, Sleepers)
  /\ UNCHANGED <<deleted, count, owner, depth, passed, hold, out>>

(* Out of the loop, in every case: hand the flags over and clear them.     *)
Collects(err) ==
  /\ out' = [err |-> err, flags |-> flags]
  /\ flags' = {}
  /\ UNCHANGED <<count, owner, depth, signalled, passed, hold>>

WaitCollects(t) ==
  /\ Inside(t, "event", "wait")
  /\ flags # {}
  /\ Returns(t, {})
  /\ Collects("noErr")
  /\ UNCHANGED deleted

(* Faulty variant: the loop ends for other reasons with flags set.         *)
WaitEndsWithout_Unchecked(t) ==
  /\ Inside(t, "event", "wait")
  /\ \/ FindsDeleted(t) /\ Collects("kMPDeletedErr")
     \/ TimesOut(t) /\ Collects("kMPTimeoutErr")

(* kMPDeletedErr and kMPTimeoutErr run the same two statements.            *)
WaitEndsWithout(t) ==
  /\ Inside(t, "event", "wait")
  /\ flags = {}
  /\ \/ FindsDeleted(t) /\ Collects("kMPDeletedErr")
     \/ TimesOut(t) /\ Collects("kMPTimeoutErr")

WaitGoesOn(t) ==
  /\ Inside(t, "event", "wait")
  /\ flags = {}
  /\ LeavesTask(t) \/ Sleeps(t)
  /\ UNCHANGED data

-----------------------------------------------------------------------------
(* Critical regions.                                                       *)

EntersAgain(t) ==
  /\ Inside(t, "region", "wait")
  /\ depth > 0 /\ owner = id[t]
  /\ depth' = depth + 1
  /\ hold' = [hold EXCEPT ![t] = @ + 1]
  /\ Returns(t, {})
  /\ UNCHANGED <<deleted, count, flags, owner, signalled, passed, out>>

Enters(t) ==
  /\ Inside(t, "region", "wait")
  /\ depth = 0
  /\ owner' = id[t]
  /\ depth' = 1
  /\ hold' = [hold EXCEPT ![t] = @ + 1]
  /\ Returns(t, {})
  /\ UNCHANGED <<deleted, count, flags, signalled, passed, out>>

WaitFindsOwned(t) ==
  /\ Inside(t, "region", "wait")
  /\ depth > 0 /\ owner # id[t]
  /\ GoesWithout(t)
  /\ UNCHANGED data

Exits(t) ==
  /\ Inside(t, "region", "signal")
  /\ depth > 0 /\ owner = id[t]
  /\ depth' = depth - 1
  /\ hold' = [hold EXCEPT ![t] = IF @ > 0 THEN @ - 1 ELSE 0]
  /\ IF depth = 1 THEN ReturnsSignalling(t) ELSE Returns(t, {})
  /\ UNCHANGED <<deleted, count, flags, owner, signalled, passed, out>>

(* kMPInsufficientResourcesErr for a thread that is not the owner.         *)
ExitRefused(t) ==
  /\ Inside(t, "region", "signal")
  /\ depth = 0 \/ owner # id[t]
  /\ Returns(t, {})
  /\ UNCHANGED <<deleted, data>>

-----------------------------------------------------------------------------
Proceeds(t) ==
  \/ Signals(t) \/ SignalRefused(t) \/ WaitPasses(t) \/ WaitFindsNone(t)
  \/ SetsFlags(t) \/ WaitCollects(t) \/ WaitEndsWithout(t) \/ WaitGoesOn(t)
  \/ EntersAgain(t) \/ Enters(t) \/ WaitFindsOwned(t)
  \/ Exits(t) \/ ExitRefused(t)
  \/ Deletes(t)

Elsewhere(t) ==
  /\ SliceEnds(t) \/ DeadlinePasses(t) \/ ToldToStop(t) \/ Ends(t)
  /\ UNCHANGED data

Next == \E t \in Threads :
  \/ Starts(t)
  \/ \E duration \in Durations : WaitCall(t, duration)
  \/ SignalCall(t) \/ DeleteCall(t)
  \/ \E bits \in Sets : MPSetEvent(t, bits)
  \/ Proceeds(t)
  \/ Elsewhere(t)

(* Calls go on, mutexes are granted, slices end and time passes.           *)
Fairness == \A t \in Threads :
  /\ WF_vars(Proceeds(t))
  /\ WF_vars(SliceEnds(t) /\ UNCHANGED data)
  /\ WF_vars(DeadlinePasses(t) /\ UNCHANGED data)

Spec == Init /\ [][Next]_vars
FairSpec == Spec /\ Fairness

-----------------------------------------------------------------------------
(* Each variable has its type, and a thread is inside a call exactly when  *)
(* its place says so.                                                      *)
TypeOK ==
  /\ kind \in {"semaphore", "event", "region"}
  /\ deleted \in BOOLEAN
  /\ count \in 0..Maximum
  /\ flags \subseteq Flags
  /\ owner \in Ids \cup {NoId} /\ depth \in Nat
  /\ pc \in [Threads -> {"new", "out", "locking", "asleep", "gone"}]
  /\ op \in [Threads -> {"none", "wait", "signal", "delete"}]
  /\ arg \in [Threads -> SUBSET Flags]
  /\ deadline \in [Threads -> {"passed", "ahead", "never"}]
  /\ terminate \in [Threads -> BOOLEAN]
  /\ id \in [Threads -> Ids \cup {NoId}]
  /\ signalled \in 0..MaxSignals /\ passed \in Nat
  /\ hold \in [Threads -> Nat]
  /\ out \in [err : {"noErr", "kMPDeletedErr", "kMPTimeoutErr"},
             flags : SUBSET Flags]
  /\ \A t \in Threads : /\ pc[t] \in {"locking", "asleep"} <=> op[t] # "none"
                        /\ kind = "region" /\ pc[t] # "new" => id[t] \in Ids

(* Every signal that reported success is worth one wait, no more and no    *)
(* less, whoever times out, is told to stop or deletes the semaphore.      *)
SignalsAreWaits ==
  kind = "semaphore" => count + passed = Initial + signalled

(* A flag goes away only into the hands of a waiter whose call returns     *)
(* noErr with all that was set: the clear at the end of MPWaitForEvent,    *)
(* which runs whatever the outcome, loses nothing when the wait timed out  *)
(* or the group was deleted.                                               *)
FlagsAreCollectedStep ==
  flags \ flags' # {} =>
    \E t \in Threads :
      op[t] = "wait" /\ pc'[t] = "out"
        /\ out' = [err |-> "noErr", flags |-> flags]
FlagsAreCollected == [][FlagsAreCollectedStep]_vars

(* A thread that entered and has not exited as often owns the region, at   *)
(* least that deep: no other thread's wait, timeout, deletion or exit      *)
(* takes it away, and as living threads have different pthread_ts, no      *)
(* second thread is inside.                                                *)
HolderOwns ==
  \A t \in Threads :
    Alive(t) /\ hold[t] > 0 => owner = id[t] /\ depth >= hold[t]

(* Both, of the object that is run, and its variables have their types.    *)
ObjectsAreExact == TypeOK /\ SignalsAreWaits /\ HolderOwns

Waiting(t) == op[t] = "wait"

(* A task told to stop leaves its wait, and so does a waiter on a deleted  *)
(* object or one with a deadline: no wait outlives its reasons.            *)
ReasonsEndWaits ==
  \A t \in Threads :
    Waiting(t) /\ (terminate[t] \/ deleted \/ deadline[t] # "never")
      ~> ~Waiting(t)
=============================================================================
