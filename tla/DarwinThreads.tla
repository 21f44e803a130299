----------------------------- MODULE DarwinThreads -----------------------------
(***************************************************************************)
(* Darwin condition variables (src/hle/threads.c) and mutexes              *)
(* (src/libmac/mac.c), on glibc's.                                         *)
(*                                                                         *)
(* A statically initialized variable gets its glibc condition at its first *)
(* use, by whichever thread comes first.  A statically initialized mutex   *)
(* is overwritten in place with glibc's when it is first locked.           *)
(*                                                                         *)
(* The threads use them the usual way: to take an item, or to wait for one *)
(* under the mutex, and to give an item and then signal.                   *)
(***************************************************************************)
EXTENDS Naturals, FiniteSets

CONSTANTS Threads,
          Statics,   \* whether the mutex is a static initializer: TRUE,
                     \* FALSE or either
          MaxConds,  \* bound: glibc conditions made
          MaxItems   \* bound: items there at a time

Conds == 1..MaxConds
NULL == 0

VARIABLES
  static, \* chosen at first: the mutex is a Darwin static initializer
  word,   \* the mutex's first word: Darwin's sig, and glibc's __lock
  cond,   \* darwin_cond.cond
  heap,   \* what became of each glibc condition
  made,
  items,  \* the game's
  want,   \* what each thread is about
  at, use \* where it is, and the condition it has in hand

vars == <<static, word, cond, heap, made, items, want, at, use>>

Init ==
  /\ static \in Statics
  /\ word = IF static THEN "darwin" ELSE "free"
  /\ cond = NULL
  /\ heap = [h \in Conds |-> "unused"]
  /\ made = 0
  /\ items = 0
  /\ want = [t \in Threads |-> "nothing"]
  /\ at = [t \in Threads |-> "idle"]
  /\ use = [t \in Threads |-> NULL]

Goes(t, where) == at' = [at EXCEPT ![t] = where]
conditions == <<cond, heap, made>>

-----------------------------------------------------------------------------
(* The game's.                                                             *)
Begins(t) ==
  /\ at[t] = "idle"
  /\ \E w \in {"take", "give"} :
       /\ w = "give" => items < MaxItems
       /\ want' = [want EXCEPT ![t] = w]
  /\ Goes(t, "lock")
  /\ UNCHANGED <<static, word, conditions, items, use>>

(* The mutex is held.  A thread whose wait has timed out looks once more.  *)
Inside(t) ==
  /\ at[t] = "inside"
  /\ \/ /\ want[t] = "give"
        /\ items < MaxItems
        /\ items' = items + 1
        /\ word' = "free"
        /\ Goes(t, "cond_of")
     \/ /\ want[t] # "give" /\ items > 0
        /\ items' = items - 1
        /\ word' = "free"
        /\ Goes(t, "idle")
     \/ /\ want[t] = "take" /\ items = 0
        /\ Goes(t, "cond_of")
        /\ UNCHANGED <<word, items>>
     \/ /\ want[t] # "take" /\ items = IF want[t] = "give" THEN MaxItems ELSE 0
        /\ word' = "free"
        /\ Goes(t, "idle")
        /\ UNCHANGED items
  /\ UNCHANGED <<static, conditions, want, use>>

-----------------------------------------------------------------------------
(* __darwin_pthread_mutex_lock looks at the signature,                     *)
SeesSignature(t) ==
  /\ at[t] = "lock"
  /\ Goes(t, IF word = "darwin" THEN "converts" ELSE "locks")
  /\ UNCHANGED <<static, word, conditions, items, want, use>>

(* writes a glibc mutex over the Darwin one, whatever it is by now,        *)
convert_darwin_mutex(t) ==
  /\ at[t] = "converts"
  /\ word' = "free"
  /\ Goes(t, "locks")
  /\ UNCHANGED <<static, conditions, items, want, use>>

(* and calls glibc's, or its trylock.                                      *)
Locks(t) ==
  /\ at[t] = "locks"
  /\ \/ word = "free" /\ word' = "held" /\ Goes(t, "inside")
     \/ word = "held" /\ want[t] = "give" /\ Goes(t, "idle") /\ UNCHANGED word
  /\ UNCHANGED <<static, conditions, items, want, use>>

-----------------------------------------------------------------------------
Makes ==
  /\ made < MaxConds
  /\ made' = made + 1
  /\ heap' = [heap EXCEPT ![made + 1] = "live"]

Freed(h) == [heap EXCEPT ![h] = IF @ = "live" THEN "freed" ELSE "corrupt"]

(* cond_of: the condition that is there, or one more.                      *)
cond_of(t) ==
  /\ at[t] = "cond_of"
  /\ \/ /\ cond # NULL
        /\ use' = [use EXCEPT ![t] = cond]
        /\ Goes(t, "has")
        /\ UNCHANGED <<heap, made>>
     \/ /\ cond = NULL
        /\ Makes
        /\ use' = [use EXCEPT ![t] = made + 1]
        /\ Goes(t, "publishes")
  /\ UNCHANGED <<static, word, cond, items, want>>

(* Faulty variant: a plain store.                                          *)
PublishesCond_Store(t) ==
  /\ at[t] = "publishes"
  /\ cond' = use[t]
  /\ Goes(t, "has")
  /\ UNCHANGED <<static, word, heap, made, items, want, use>>

(* Its compare-and-swap.  Another thread may have got there first.         *)
PublishesCond(t) ==
  /\ at[t] = "publishes"
  /\ IF cond = NULL
     THEN cond' = use[t] /\ UNCHANGED <<use, heap>>
     ELSE /\ heap' = Freed(use[t])
          /\ use' = [use EXCEPT ![t] = cond]
          /\ UNCHANGED cond
  /\ Goes(t, "has")
  /\ UNCHANGED <<static, word, made, items, want>>

-----------------------------------------------------------------------------
(* glibc's wait lets go of the mutex and sleeps in one step.               *)
Sleeps(t) ==
  /\ at[t] = "has" /\ want[t] = "take"
  /\ word' = "free"
  /\ Goes(t, "sleeps")
  /\ UNCHANGED <<static, conditions, items, want, use>>

Sleepers(h) == {t \in Threads : at[t] = "sleeps" /\ use[t] = h}

(* glibc's signal wakes one that sleeps on this very condition, its        *)
(* broadcast all of them; they take the mutex again.                       *)
Signals(t) ==
  /\ at[t] = "has" /\ want[t] = "give"
  /\ \E woken \in SUBSET Sleepers(use[t]) :
       /\ woken = {} => Sleepers(use[t]) = {}
       /\ Cardinality(woken) > 1 => woken = Sleepers(use[t])
       /\ at' = [s \in Threads |-> IF s = t THEN "idle"
                                   ELSE IF s \in woken THEN "locks" ELSE at[s]]
  /\ UNCHANGED <<static, word, conditions, items, want, use>>

TimesOut(t) ==
  /\ at[t] = "sleeps"
  /\ want' = [want EXCEPT ![t] = "last"]
  /\ Goes(t, "locks")
  /\ UNCHANGED <<static, word, conditions, items, use>>

-----------------------------------------------------------------------------
Unused == \A t \in Threads : at[t] = "idle"

(* A variable is destroyed and initialized when nobody uses it.            *)
cond_destroy ==
  /\ Unused
  /\ cond # NULL
  /\ heap' = Freed(cond)
  /\ cond' = NULL
  /\ UNCHANGED <<static, word, made, items, want, at, use>>

cond_init ==
  /\ Unused
  /\ cond = NULL
  /\ Makes
  /\ cond' = made + 1
  /\ UNCHANGED <<static, word, items, want, at, use>>

Next ==
  \/ \E t \in Threads :
       \/ Begins(t) \/ Inside(t)
       \/ SeesSignature(t) \/ convert_darwin_mutex(t) \/ Locks(t)
       \/ cond_of(t) \/ PublishesCond(t)
       \/ Sleeps(t) \/ Signals(t) \/ TimesOut(t)
  \/ cond_destroy \/ cond_init

Spec == Init /\ [][Next]_vars

-----------------------------------------------------------------------------
(* Every variable has its type: no condition is freed twice.               *)
TypeOK ==
  /\ static \in BOOLEAN
  /\ word \in {"darwin", "free", "held"}
  /\ cond \in Conds \cup {NULL}
  /\ heap \in [Conds -> {"unused", "live", "freed"}]
  /\ made \in 0..MaxConds
  /\ items \in 0..MaxItems
  /\ want \in [Threads -> {"nothing", "take", "give", "last"}]
  /\ at \in [Threads -> {"idle", "lock", "converts", "locks", "inside", "cond_of",
                         "publishes", "has", "sleeps"}]
  /\ use \in [Threads -> Conds \cup {NULL}]

(* All threads wait on, and signal, one condition, and it is good: however *)
(* many come first at the same time.  No other was kept: the losers of the *)
(* race free theirs.                                                       *)
OneCondition ==
  /\ \A t \in Threads : at[t] \in {"has", "sleeps"} => use[t] = cond /\ heap[cond] = "live"
  /\ \A h \in Conds : heap[h] = "live" =>
       h = cond \/ \E t \in Threads : at[t] = "publishes" /\ use[t] = h

(* No wakeup is lost: while a thread sleeps, there is a signal to come, or *)
(* a thread awake to take it, for every item.  The mutex is one that       *)
(* excludes: pthread_mutex_init made it (see MutualExclusion).             *)
Coming == {t \in Threads : at[t] \in {"cond_of", "publishes", "has"} /\ want[t] = "give"}
Awake == {t \in Threads : at[t] \in {"locks", "inside"} /\ want[t] # "give"}
NoLostWakeup ==
  ~static /\ (\E t \in Threads : at[t] = "sleeps") => items <= Cardinality(Coming \cup Awake)

(* A Darwin mutex converted to a Linux one is one: a thread that holds it  *)
(* holds it alone.                                                         *)
Holding == {t \in Threads : \/ at[t] = "inside"
                            \/ at[t] \in {"cond_of", "publishes", "has"} /\ want[t] = "take"}
MutualExclusion == Cardinality(Holding) <= 1
=============================================================================
