----------------------------- MODULE EventTimers -----------------------------
(***************************************************************************)
(* Event loop timers of src/hle/events.c.                                  *)
(*                                                                         *)
(* run_timers reads the clock once, then walks the list of timers under    *)
(* timer_lock; it lets go of the lock to call a due timer's procedure and  *)
(* starts over at the head, for the procedure may have changed the list:   *)
(* install and remove timers, its own too, and run a loop of its own that  *)
(* comes to run_timers again.  Other threads install and remove timers     *)
(* while the lock is free; removing takes no lock at all, and the walk     *)
(* reads the mark once of a timer that it stands at, so that it makes no   *)
(* difference when the mark is set while the walk is at that timer.        *)
(*                                                                         *)
(* Times are relative: left[t] is fire_at less the clock, and a run's age  *)
(* is the clock less the `now` it read.                                    *)
(***************************************************************************)
EXTENDS Integers, Sequences

CONSTANTS Timers,    \* addresses calloc gives hle_timer
          NoTimer,   \* no procedure under way; none of Timers
          Delays,    \* delays and intervals the game passes
          Never,     \* HUGE_VAL, later than all of them
          MaxAge,    \* bound: how long a run takes
          MaxRuns    \* bound: runs inside procedures

VARIABLES
  timers,   \* the list, newest first
  left,     \* fire_at - now_seconds(); Never for HUGE_VAL
  interval, \* hle_timer.interval
  removed,  \* hle_timer.removed
  runs,     \* calls of run_timers under way, outermost first
  since     \* history: the clock less the `now` of the run that fired it last

vars == <<timers, left, interval, removed, runs, since>>

Listed == {timers[i] : i \in DOMAIN timers}
NotYet == -1

(* link is the place of the timer that *link leads to.                     *)
Runs == [age : 0..MaxAge, next : 0..Never, link : Nat \ {0},
         firing : Timers \cup {NoTimer}]

Init ==
  /\ timers = <<>>
  /\ left = [t \in Timers |-> Never]
  /\ interval = [t \in Timers |-> 0]
  /\ removed = [t \in Timers |-> FALSE]
  /\ runs = <<>>
  /\ since = [t \in Timers |-> NotYet]

Top == runs[Len(runs)]

(* The lock is free, and the game's code may run on the loop's thread,     *)
(* outside run_timers or in a procedure, as it may on other threads.       *)
LockIsFree == runs # <<>> => Top.firing # NoTimer

InstallEventLoopTimer(t, delay, every) ==
  /\ LockIsFree
  /\ t \notin Listed
  /\ timers' = <<t>> \o timers
  /\ left' = [left EXCEPT ![t] = delay]
  /\ interval' = [interval EXCEPT ![t] = every]
  /\ removed' = [removed EXCEPT ![t] = FALSE]
  /\ UNCHANGED <<runs, since>>

RemoveEventLoopTimer(t) ==
  /\ t \in Listed
  /\ removed' = [removed EXCEPT ![t] = TRUE]
  /\ UNCHANGED <<timers, left, interval, runs, since>>

run_timers ==
  /\ LockIsFree
  /\ Len(runs) < MaxRuns
  /\ runs' = Append(runs, [age |-> 0, next |-> Never, link |-> 1, firing |-> NoTimer])
  /\ UNCHANGED <<timers, left, interval, removed, since>>

-----------------------------------------------------------------------------
(* The walk, a timer at a time.                                            *)

Walking == runs # <<>> /\ Top.firing = NoTimer
Becomes(run) == runs' = [runs EXCEPT ![Len(runs)] = run]

(* The walk stands at t.                                                   *)
At(t) == Walking /\ Top.link \in DOMAIN timers /\ timers[Top.link] = t

(* fire_at - now, as the walk computes it.                                 *)
Remaining(t) == IF left[t] = Never THEN Never ELSE left[t] + Top.age

(* A removed timer is unlinked and freed: none of its fields are left.     *)
Sweeps(t) ==
  /\ At(t) /\ removed[t]
  /\ timers' = SubSeq(timers, 1, Top.link - 1) \o SubSeq(timers, Top.link + 1, Len(timers))
  /\ left' = [left EXCEPT ![t] = Never] /\ interval' = [interval EXCEPT ![t] = 0]
  /\ removed' = [removed EXCEPT ![t] = FALSE] /\ since' = [since EXCEPT ![t] = NotYet]
  /\ UNCHANGED runs

(* Rearmed, or marked as removed, before its procedure is called.          *)
Fires(t) ==
  /\ At(t) /\ ~removed[t] /\ Remaining(t) <= 0
  /\ IF interval[t] > 0
     THEN /\ left' = [left EXCEPT ![t] = interval[t] - Top.age]
          /\ UNCHANGED removed
     ELSE /\ left' = [left EXCEPT ![t] = Never]
          /\ removed' = [removed EXCEPT ![t] = TRUE]
  /\ Becomes([Top EXCEPT !.firing = t])
  /\ since' = [since EXCEPT ![t] = Top.age]
  /\ UNCHANGED <<timers, interval>>

(* The walk goes on, having seen when the timer is due.                    *)
Passes(t) ==
  /\ At(t) /\ ~removed[t] /\ Remaining(t) > 0
  /\ Becomes([Top EXCEPT !.next = IF Remaining(t) < @ THEN Remaining(t) ELSE @,
                         !.link = @ + 1])
  /\ UNCHANGED <<timers, left, interval, removed, since>>

(* Faulty variant: the timer is linked in again after it fired.            *)
ProcedureReturns_Relinking ==
  /\ runs # <<>> /\ Top.firing # NoTimer
  /\ timers' = <<Top.firing>> \o timers
  /\ Becomes([Top EXCEPT !.firing = NoTimer, !.link = 1])
  /\ UNCHANGED <<left, interval, removed, since>>

(* Faulty variant: the run ends with the first timer it fires.             *)
ProcedureReturns_Ending ==
  /\ runs # <<>> /\ Top.firing # NoTimer
  /\ runs' = SubSeq(runs, 1, Len(runs) - 1)
  /\ UNCHANGED <<timers, left, interval, removed, since>>

(* Faulty variant: the walk goes on from where it was.                     *)
ProcedureReturns_GoingOn ==
  /\ runs # <<>> /\ Top.firing # NoTimer
  /\ Becomes([Top EXCEPT !.firing = NoTimer])
  /\ UNCHANGED <<timers, left, interval, removed, since>>

(* The procedure returns and the walk starts over.                         *)
ProcedureReturns ==
  /\ runs # <<>> /\ Top.firing # NoTimer
  /\ Becomes([Top EXCEPT !.firing = NoTimer, !.link = 1])
  /\ UNCHANGED <<timers, left, interval, removed, since>>

(* No timer is left to look at: next, the seconds from `now` until the     *)
(* next one, is returned.                                                  *)
RunEnds ==
  /\ Walking /\ Top.link > Len(timers)
  /\ runs' = SubSeq(runs, 1, Len(runs) - 1)
  /\ UNCHANGED <<timers, left, interval, removed, since>>

(* The clock moves on.  A run is bound to see MaxAge of it; a timer's time *)
(* is kept down to that long ago, which is as due as it gets, and the time *)
(* since it fired up to as long after its interval.                        *)
Tick ==
  /\ \A i \in DOMAIN runs : runs[i].age < MaxAge
  /\ left' = [t \in Timers |->
       IF left[t] = Never \/ left[t] <= -MaxAge THEN left[t] ELSE left[t] - 1]
  /\ runs' = [i \in DOMAIN runs |-> [runs[i] EXCEPT !.age = @ + 1]]
  /\ since' = [t \in Timers |->
       IF since[t] = NotYet \/ since[t] >= interval[t] + MaxAge THEN since[t] ELSE since[t] + 1]
  /\ UNCHANGED <<timers, interval, removed>>

-----------------------------------------------------------------------------
Walk == (\E t \in Timers : Sweeps(t) \/ Fires(t) \/ Passes(t)) \/ RunEnds

Next ==
  \/ \E t \in Timers :
       \/ \E delay \in Delays \cup {Never}, every \in Delays :
            InstallEventLoopTimer(t, delay, every)
       \/ RemoveEventLoopTimer(t)
  \/ run_timers \/ Walk \/ ProcedureReturns \/ Tick

Spec == Init /\ [][Next]_vars

(* The loop comes back to run_timers, procedures return, however deep they *)
(* are nested, and time passes.                                            *)
FairSpec ==
  /\ Spec
  /\ WF_vars(Walk) /\ WF_vars(Tick)
  /\ WF_vars(runs = <<>> /\ run_timers)
  /\ \A d \in 1..MaxRuns : SF_vars(Len(runs) = d /\ ProcedureReturns)

-----------------------------------------------------------------------------
(* Every variable has its type, no timer is in the list twice, a run that  *)
(* another one is nested in is calling a procedure, and a walk stands at a *)
(* timer of the list or at its end.                                        *)
TypeOK ==
  /\ timers \in Seq(Timers)
  /\ \A i, j \in DOMAIN timers : timers[i] = timers[j] => i = j
  /\ left \in [Timers -> -MaxAge..Never]
  /\ interval \in [Timers -> Delays \cup {0}]
  /\ removed \in [Timers -> BOOLEAN]
  /\ runs \in Seq(Runs)
  /\ \A i \in 1..Len(runs) - 1 : runs[i].firing # NoTimer
  /\ Walking => Top.link <= Len(timers) + 1
  /\ since \in [Timers -> NotYet..Never + MaxAge]

(* "seconds until the next one": what run_timers returns is no later than  *)
(* any timer in the list is due, though procedures and nested runs changed *)
(* the list after parts of it were looked at.                              *)
ReturnsInTime ==
  Walking /\ Len(runs') < Len(runs) =>
    \A t \in Listed : removed[t] \/ Top.next <= Remaining(t)

(* Each time a timer fires is the first, or it repeats and its interval    *)
(* has passed on the clock since the run that fired it last began, though  *)
(* that may have been an outer or an inner run.                            *)
OncePerInterval ==
  \A i \in DOMAIN runs \cap DOMAIN runs' :
    runs[i].firing = NoTimer /\ runs'[i].firing # NoTimer =>
      LET t == runs'[i].firing
      IN \/ since[t] = NotYet
         \/ interval[t] > 0 /\ since[t] - runs[i].age >= interval[t]

(* Both, of every step of a run of the timers.                             *)
RunsAreExact == [][ReturnsInTime /\ OncePerInterval]_vars

(* A timer that is set fires or is removed.                                *)
TimersFire ==
  \A t \in Timers :
    t \in Listed /\ ~removed[t] /\ left[t] # Never
      ~> \/ removed[t] \/ \E i \in DOMAIN runs : runs[i].firing = t
=============================================================================
