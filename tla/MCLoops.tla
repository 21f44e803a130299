------------------------------- MODULE MCLoops -------------------------------
(***************************************************************************)
(* Instances of EventLoops and EventTimers for TLC: the loops of the       *)
(* Carbon Event Manager, and what one of them does when it comes to its    *)
(* timers.  To the loops the timers are a procedure of the game's that may *)
(* run; to the timers the loops are whoever calls run_timers.  Each is run *)
(* by itself, and the initial states choose which.                         *)
(***************************************************************************)
EXTENDS EventLoops

CONSTANTS Parts, Timers, NoTimer, Delays, Never, MaxAge, MaxRuns

VARIABLES part, timers, left, interval, removed, runs, since

timerVars == <<timers, left, interval, removed, runs, since>>
partVars == <<part, vars, timerVars>>

T == INSTANCE EventTimers

(* Times are whole numbers, and Never is longer than all delays.           *)
ASSUME TimerBounds ==
  /\ MaxAge \in Nat /\ Never \in Nat \ {0} /\ Delays \subseteq 0..Never - 1
  /\ NoTimer \notin Timers

PartInit == part \in Parts /\ Init /\ T!Init
Loops(Step) == part = "loops" /\ Step /\ UNCHANGED <<part, timerVars>>
Clock(Step) == part = "timers" /\ Step /\ UNCHANGED <<part, vars>>
PartNext == Loops(Next) \/ Clock(T!Next)

(* The fairness of both, of steps that leave the other alone.              *)
PartFairness ==
  /\ WF_partVars(Loops(DeadlinePasses))
  /\ \A d \in 1..MaxDepth : SF_partVars(Loops(Onward(d)))
  /\ WF_partVars(Clock(T!Walk)) /\ WF_partVars(Clock(T!Tick))
  /\ WF_partVars(Clock(runs = <<>> /\ T!run_timers))
  /\ \A d \in 1..MaxRuns : SF_partVars(Clock(Len(runs) = d /\ T!ProcedureReturns))
PartSpec == PartInit /\ [][PartNext]_partVars /\ PartFairness

(* Every variable has its type; the counts and lists of loops are those of *)
(* the loops on the stack, and no timer is in the list twice.              *)
TypesOK == TypeOK /\ T!TypeOK

(* Of EventTimers: each run returns in time for the next timer, and fires  *)
(* a repeating one once in an interval.                                    *)
RunsAreExact == T!RunsAreExact

(* Of EventTimers: a timer that is set fires or is removed.                *)
TimersFire == T!TimersFire
=============================================================================
