------------------------------ MODULE MCThreads ------------------------------
(***************************************************************************)
(* Instances of SoundManager and of DarwinThreads for TLC.                 *)
(*                                                                         *)
(* The mixer's lock is glibc's own and recursive, not a Darwin mutex: each *)
(* is run by itself, and the initial states choose which.                  *)
(***************************************************************************)
EXTENDS SoundManager, FiniteSets, TLC

CONSTANTS Parts, Waiters, Statics, MaxConds, MaxItems

ASSUME WaitersAreFinite == IsFiniteSet(Waiters)
ASSUME ConditionBounds ==
  Statics \subseteq BOOLEAN /\ MaxConds \in Nat /\ MaxItems \in Nat

VARIABLES part, static, word, cond, heap, made, items, wanted, at, use

darwinVars == <<static, word, cond, heap, made, items, wanted, at, use>>
partVars == <<part, vars, darwinVars>>

D == INSTANCE DarwinThreads WITH Threads <- Waiters, want <- wanted

PartInit ==
  /\ part \in Parts /\ Init /\ D!Init
  /\ part = "sound" => static = (CHOOSE s \in Statics : TRUE)
PartNext ==
  \/ part = "sound" /\ Next /\ UNCHANGED <<part, darwinVars>>
  \/ part = "conditions" /\ D!Next /\ UNCHANGED <<part, vars>>
PartSpec == PartInit /\ [][PartNext]_partVars

(* Addresses, records and waiting threads are interchangeable.             *)
Interchangeable == Permutations(Ids) \cup Permutations(Records) \cup Permutations(Waiters)

(* Every variable has its type: the list of channels holds those in use,   *)
(* and no condition is freed twice.                                        *)
TypesOK == TypeOK /\ D!TypeOK

(* The properties of DarwinThreads: all meet on one condition, and no      *)
(* wakeup is lost.                                                         *)
WakeupsArrive == D!OneCondition /\ D!NoLostWakeup
=============================================================================
