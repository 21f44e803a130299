----------------------------- MODULE EventsProofs -----------------------------
(***************************************************************************)
(* Theorems about EventHandlers, for any targets, handlers and events,     *)
(* about EventQueue, for any threads, any events and a ring of any length, *)
(* about Input, for any keys, codes and windows and a queue of any length, *)
(* and about Windows, for any windows, any forest of controls and loops    *)
(* nested to any depth.  What they assume of the constants is what         *)
(* EventHandlers assumes, QueueHasRoom, NullIsNoWindow, NullIsNoView and   *)
(* BoundsAreNumbers.                                                       *)
(***************************************************************************)
EXTENDS MCEvents, FiniteSetTheorems, FunctionTheorems, SequenceTheorems, TLAPS

-----------------------------------------------------------------------------
(* Linked lists.                                                           *)

(* The handlers of L are what is linked, by nx, from head to Nil: no part  *)
(* of L that has the head is closed but L, and none goes round.            *)
IsList(head, nx, L) ==
  /\ head \in L \cup {Nil}
  /\ \A x \in L : nx[x] \in L \cup {Nil}
  /\ \A S \in SUBSET L :
       head \in S \cup {Nil} /\ (\A x \in S : nx[x] \in S \cup {Nil}) => S = L
  /\ \A S \in SUBSET L : S # {} => \E x \in S : nx[x] \notin S

(* Nothing is linked from Nil.                                             *)
LEMMA EmptyList == ASSUME NEW nx PROVE IsList(Nil, nx, {})
BY DEF IsList

(* A list is told by the links of what is on it.                           *)
LEMMA SameList ==
  ASSUME NEW head, NEW nx, NEW ny, NEW L, IsList(head, nx, L),
         \A x \in L : ny[x] = nx[x]
  PROVE  IsList(head, ny, L)
<1>1. \A S \in SUBSET L : \A x \in S : ny[x] = nx[x]
  OBVIOUS
<1> QED
  BY <1>1 DEF IsList

(* InstallEventHandler, and unlink_handler with the list of those removed, *)
(* put a handler in front of a list.                                       *)
LEMMA PushedList ==
  ASSUME NEW L \in SUBSET Handlers, NEW head, NEW nx, NEW ny, IsList(head, nx, L),
         NEW h \in Handlers \ L, ny[h] = head, \A x \in L : ny[x] = nx[x]
  PROVE  IsList(h, ny, L \cup {h})
<1> DEFINE M == L \cup {h}
<1>0. h # Nil
  BY NullIsNoHandler
<1>1. \A x \in M : ny[x] \in M \cup {Nil}
  BY DEF IsList
<1>2. ASSUME NEW S \in SUBSET M, h \in S, \A x \in S : ny[x] \in S \cup {Nil}
      PROVE  S = M
  <2>1. S \ {h} \in SUBSET L
    OBVIOUS
  <2>2. head \in (S \ {h}) \cup {Nil}
    BY <1>0, <1>2 DEF IsList
  <2>3. \A x \in S \ {h} : nx[x] \in (S \ {h}) \cup {Nil}
    BY <1>0, <1>2, <2>1 DEF IsList
  <2>4. S \ {h} = L
    BY <2>1, <2>2, <2>3 DEF IsList
  <2> QED
    BY <1>2, <2>4
<1>3. ASSUME NEW S \in SUBSET M, S # {}
      PROVE  \E x \in S : ny[x] \notin S
  <2>1. CASE S \ {h} = {}
    <3>1. h \in S /\ ny[h] \notin S
      BY <1>0, <1>3, <2>1 DEF IsList
    <3> QED
      BY <3>1
  <2>2. CASE S \ {h} # {}
    <3>1. PICK x \in S \ {h} : nx[x] \notin S \ {h}
      <4>1. S \ {h} \in SUBSET L
        OBVIOUS
      <4> QED
        BY <2>2, <4>1 DEF IsList
    <3>2. x \in L /\ ny[x] = nx[x] /\ nx[x] # h
      BY <1>0, <3>1 DEF IsList
    <3> QED
      BY <3>1, <3>2
  <2> QED
    BY <2>1, <2>2
<1>4. \A S \in SUBSET M :
        h \in S \cup {Nil} /\ (\A x \in S : ny[x] \in S \cup {Nil}) => S = M
  BY <1>0, <1>2
<1>5. \A S \in SUBSET M : S # {} => \E x \in S : ny[x] \notin S
  BY <1>3
<1> HIDE DEF M
<1>6. h \in M
  BY DEF M
<1>7. IsList(h, ny, M)
  BY <1>1, <1>4, <1>5, <1>6 DEF IsList
<1> QED
  BY <1>7 DEF M

(* unlink_handler takes a handler out of a list: what came before it comes *)
(* before what came after it.                                              *)
LEMMA UnlinkedList ==
  ASSUME NEW L \in SUBSET Handlers, NEW head, NEW nx, NEW ny, IsList(head, nx, L),
         NEW h \in L,
         \A x \in L \ {h} : ny[x] = IF nx[x] = h THEN nx[h] ELSE nx[x]
  PROVE  IsList(IF head = h THEN nx[h] ELSE head, ny, L \ {h})
<1> DEFINE M == L \ {h}
           first_one == IF head = h THEN nx[h] ELSE head
<1>0. h # Nil
  BY NullIsNoHandler
<1>1. nx[h] \in M \cup {Nil}
  <2>1. {h} \in SUBSET L /\ {h} # {}
    OBVIOUS
  <2>2. \E x \in {h} : nx[x] \notin {h}
    BY <2>1 DEF IsList
  <2>3. nx[h] # h
    BY <2>2
  <2> QED
    BY <2>3 DEF IsList
<1>2. first_one \in M \cup {Nil}
  BY <1>1 DEF IsList
<1>3. \A x \in M : ny[x] \in M \cup {Nil}
  BY <1>1 DEF IsList
<1>4. ASSUME NEW S \in SUBSET M, first_one \in S \cup {Nil},
             \A x \in S : ny[x] \in S \cup {Nil}
      PROVE  S = M
  <2>1. CASE head = h \/ \E x \in S : nx[x] = h
    <3>1. nx[h] \in S \cup {Nil}
      BY <1>4, <2>1
    <3>2. \A x \in S \cup {h} : nx[x] \in S \cup {h} \cup {Nil}
      BY <1>4, <3>1
    <3>3. head \in S \cup {h} \cup {Nil}
      BY <1>4
    <3>4. S \cup {h} \in SUBSET L
      OBVIOUS
    <3>5. S \cup {h} = L
      BY <3>2, <3>3, <3>4 DEF IsList
    <3> QED
      BY <3>5
  <2>2. CASE head # h /\ \A x \in S : nx[x] # h
    <3>1. S \in SUBSET L /\ head \in S \cup {Nil}
      BY <1>4, <2>2
    <3>2. \A x \in S : nx[x] \in S \cup {Nil}
      BY <1>4, <2>2
    <3>3. S = L
      BY <3>1, <3>2 DEF IsList
    <3> QED
      BY <3>3
  <2> QED
    BY <2>1, <2>2
<1>5. ASSUME NEW S \in SUBSET M, S # {}, \A x \in S : ny[x] \in S
      PROVE  FALSE
  <2>1. CASE \E x \in S : nx[x] = h
    <3>1. nx[h] \in S
      BY <1>5, <2>1
    <3>2. \A x \in S \cup {h} : nx[x] \in S \cup {h}
      BY <1>5, <3>1
    <3>3. S \cup {h} \in SUBSET L /\ S \cup {h} # {}
      OBVIOUS
    <3> QED
      BY <3>2, <3>3 DEF IsList
  <2>2. CASE \A x \in S : nx[x] # h
    <3>1. \A x \in S : nx[x] \in S
      BY <1>5, <2>2
    <3>2. S \in SUBSET L
      OBVIOUS
    <3> QED
      BY <1>5, <3>1, <3>2 DEF IsList
  <2> QED
    BY <2>1, <2>2
<1> HIDE DEF M, first_one
<1>6. IsList(first_one, ny, M)
  BY <1>2, <1>3, <1>4, <1>5 DEF IsList
<1> QED
  BY <1>6 DEF M, first_one

(* On a list is what is linked.                                            *)
LEMMA ListIsExact ==
  ASSUME NEW L \in SUBSET Handlers, NEW head, IsList(head, next, L)
  PROVE  OnList(head) = L
<1>1. Closed(head, L)
  BY DEF IsList, Closed
<1>2. ASSUME NEW S \in SUBSET Handlers, Closed(head, S)
      PROVE  L \subseteq S
  <2>1. S \cap L \in SUBSET L
    OBVIOUS
  <2>2. head \in (S \cap L) \cup {Nil}
    BY <1>2 DEF IsList, Closed
  <2>3. \A x \in S \cap L : next[x] \in (S \cap L) \cup {Nil}
    BY <1>2 DEF IsList, Closed
  <2>4. S \cap L = L
    BY <2>1, <2>2, <2>3 DEF IsList
  <2> QED
    BY <2>4
<1> HIDE DEF Closed
<1>3. \A x \in L : x \in OnList(head)
  BY <1>2 DEF OnList
<1>4. \A x \in OnList(head) : x \in L
  BY <1>1 DEF OnList
<1> QED
  BY <1>3, <1>4

-----------------------------------------------------------------------------
(* The inductive invariant.                                                *)

Installed(t) == {h \in Handlers : state[h] = "installed" /\ target[h] = t}
Removed == {h \in Handlers : state[h] = "removed"}

(* Both lists are what they should be; a target that is not alive has      *)
(* none, and without a dispatch nothing waits to be freed.                 *)
Linked ==
  /\ \A t \in Targets : IsList(first[t], next, Installed(t))
  /\ IsList(removed_handlers, next, Removed)
  /\ \A h \in Handlers : state[h] = "installed" => target[h] \in Targets
  /\ \A t \in Targets : object[t] # "alive" => first[t] = Nil
  /\ stack = <<>> => Removed = {}

HandlersInv == TypeOK /\ Linked /\ NothingFreedInUse

(* What is not freed is linked to what is not.                             *)
LEMMA LinksAreUsable ==
  ASSUME TypeOK, Linked, NEW h \in Handlers, state[h] # "free"
  PROVE  next[h] \in Handlers \cup {Nil} /\ Usable(next[h])
<1>1. state[h] = "installed" \/ state[h] = "removed"
  BY DEF TypeOK
<1>2. CASE state[h] = "installed"
  <2>1. h \in Installed(target[h]) /\ IsList(first[target[h]], next, Installed(target[h]))
    BY <1>2 DEF Linked, Installed
  <2>2. next[h] \in Installed(target[h]) \cup {Nil}
    BY <2>1 DEF IsList
  <2> QED
    BY <2>2 DEF Installed, Usable
<1>3. CASE state[h] = "removed"
  <2>1. h \in Removed /\ IsList(removed_handlers, next, Removed)
    BY <1>3 DEF Linked, Removed
  <2>2. next[h] \in Removed \cup {Nil}
    BY <2>1 DEF IsList
  <2> QED
    BY <2>2 DEF Removed, Usable
<1> QED
  BY <1>1, <1>2, <1>3

(* A target's list starts with nothing that is freed.                      *)
LEMMA FirstIsUsable ==
  ASSUME Linked, NEW t \in Targets
  PROVE  first[t] \in Installed(t) \cup {Nil} /\ Usable(first[t])
BY DEF Linked, IsList, Installed, Usable

(* The invariant implies what the runs check.                              *)
LEMMA InvariantSuffices == HandlersInv => HandlersAreKept
<1> SUFFICES ASSUME HandlersInv PROVE HandlersAreKept
  OBVIOUS
<1>1. ASSUME NEW t \in Targets
      PROVE  OnList(first[t]) = Installed(t)
  <2>1. Installed(t) \in SUBSET Handlers
    BY DEF Installed
  <2> QED
    BY <2>1, ListIsExact DEF HandlersInv, Linked
<1>2. OnList(removed_handlers) = Removed
  <2>1. Removed \in SUBSET Handlers
    BY DEF Removed
  <2> QED
    BY <2>1, ListIsExact DEF HandlersInv, Linked
<1>3. ASSUME NEW S \in SUBSET {h \in Handlers : state[h] # "free"}, S # {}
      PROVE  \E h \in S : next[h] \notin S
  <2>1. CASE \E t \in Targets : S \cap Installed(t) # {}
    <3>1. PICK t \in Targets : S \cap Installed(t) # {}
      BY <2>1
    <3>2. IsList(first[t], next, Installed(t)) /\ S \cap Installed(t) \in SUBSET Installed(t)
      BY DEF HandlersInv, Linked
    <3>3. PICK h \in S \cap Installed(t) : next[h] \notin S \cap Installed(t)
      BY <3>1, <3>2 DEF IsList
    <3>4. next[h] \in Installed(t) \cup {Nil}
      BY <3>2, <3>3 DEF IsList
    <3>5. Nil \notin S
      BY NullIsNoHandler
    <3> QED
      BY <3>3, <3>4, <3>5
  <2>2. CASE \A t \in Targets : S \cap Installed(t) = {}
    <3>1. S \in SUBSET Removed
      BY <2>2 DEF HandlersInv, Linked, Installed, Removed, TypeOK
    <3> QED
      BY <1>3, <3>1 DEF HandlersInv, Linked, IsList
  <2> QED
    BY <2>1, <2>2
<1>4. stack = <<>> => removed_handlers = Nil
  BY DEF HandlersInv, Linked, IsList
<1> QED
  BY <1>1, <1>2, <1>3, <1>4
     DEF HandlersInv, HandlersAreKept, ListsAreExact, Installed, Removed

-----------------------------------------------------------------------------
(* The stack.                                                              *)

(* A frame that may be on top: it holds nothing that is freed.             *)
FrameOK(f) ==
  /\ f \in Frames
  /\ f.calling => f.h # Nil /\ Usable(f.ref)
  /\ Usable(f.h)

(* What TypeOK and NothingFreedInUse say of the stack.                     *)
StackOK ==
  /\ stack \in Seq(Frames)
  /\ \A i \in 1..Len(stack) :
       /\ FrameOK(stack[i])
       /\ i < Len(stack) => stack[i].calling

VariablesTyped ==
  /\ object \in [Targets -> {"none", "alive", "freed"}]
  /\ first \in [Targets -> Handlers \cup {Nil}]
  /\ state \in [Handlers -> {"free", "installed", "removed"}]
  /\ next \in [Handlers -> Handlers \cup {Nil}]
  /\ target \in [Handlers -> Targets \cup {NoTarget}]
  /\ wants \in [Handlers -> SUBSET Events]
  /\ removed_handlers \in Handlers \cup {Nil}
  /\ destroying \in Targets \cup {NoTarget}
  /\ crashed \in BOOLEAN

(* The invariant, with what it says of the stack said frame by frame,      *)
LEMMA StackFacts == HandlersInv <=> StackOK /\ VariablesTyped /\ Linked
<1>1. ASSUME stack \in Seq(Frames) PROVE \A i \in 1..Len(stack) : stack[i] \in Frames
  BY <1>1
<1> QED
  BY <1>1 DEF HandlersInv, TypeOK, NothingFreedInUse, StackOK, FrameOK, VariablesTyped

(* and after a step.                                                       *)
LEMMA StackFactsNext == StackOK' /\ VariablesTyped' /\ Linked' => HandlersInv'
BY DEF HandlersInv, TypeOK, NothingFreedInUse, StackOK, FrameOK, VariablesTyped

(* The top of the stack, which CallNextEventHandler and the walk read.     *)
LEMMA TopFacts ==
  ASSUME StackOK, stack # <<>>
  PROVE  FrameOK(Top) /\ Top \in Frames /\ Len(stack) \in Nat /\ Len(stack) > 0
<1>1. Len(stack) \in Nat /\ Len(stack) > 0
  BY DEF StackOK
<1> QED
  BY <1>1 DEF StackOK, Top, FrameOK

(* A dispatch that starts.                                                 *)
LEMMA StackPushed ==
  ASSUME StackOK, GameRuns, NEW f, FrameOK(f), stack' = Append(stack, f),
         UNCHANGED state
  PROVE  StackOK'
<1>1. f \in Frames /\ Len(stack) \in Nat
  BY DEF FrameOK, StackOK
<1>2. /\ stack' \in Seq(Frames) /\ Len(stack') = Len(stack) + 1
      /\ stack'[Len(stack) + 1] = f
      /\ \A i \in 1..Len(stack) : stack'[i] = stack[i]
  BY <1>1 DEF StackOK
<1>3. ASSUME NEW i \in 1..Len(stack')
      PROVE  FrameOK(stack[i])' /\ (i < Len(stack') => stack'[i].calling)
  <2>1. FrameOK(stack'[i]) /\ (i < Len(stack') => stack'[i].calling)
    <3>1. CASE i = Len(stack) + 1
      BY <1>1, <1>2, <3>1
    <3>2. CASE i \in 1..Len(stack)
      <4>1. i = Len(stack) => stack[i].calling
        <5>1. i = Len(stack) => stack # <<>> /\ Top = stack[i]
          BY <3>2 DEF Top
        <5> QED
          BY <5>1 DEF GameRuns
      <4>2. i < Len(stack) => stack[i].calling
        BY <3>2 DEF StackOK
      <4> QED
        BY <1>1, <1>2, <3>2, <4>1, <4>2 DEF StackOK
    <3> QED
      BY <1>1, <1>2, <3>1, <3>2
  <2> QED
    BY <2>1 DEF FrameOK, Usable
<1> QED
  BY <1>2, <1>3 DEF StackOK

(* A dispatch that goes on.                                                *)
LEMMA StackChanged ==
  ASSUME StackOK, stack # <<>>, NEW f, FrameOK(f), Becomes(f), UNCHANGED state
  PROVE  StackOK'
<1>1. f \in Frames /\ Len(stack) \in Nat /\ Len(stack) > 0
  BY TopFacts DEF FrameOK
<1>2. /\ stack' \in Seq(Frames) /\ Len(stack') = Len(stack)
      /\ stack'[Len(stack)] = f
      /\ \A i \in 1..Len(stack) : i # Len(stack) => stack'[i] = stack[i]
  BY <1>1 DEF StackOK, Becomes
<1>3. ASSUME NEW i \in 1..Len(stack')
      PROVE  FrameOK(stack[i])' /\ (i < Len(stack') => stack'[i].calling)
  <2>1. FrameOK(stack'[i]) /\ (i < Len(stack') => stack'[i].calling)
    BY <1>1, <1>2 DEF StackOK
  <2> QED
    BY <2>1 DEF FrameOK, Usable
<1> QED
  BY <1>2, <1>3 DEF StackOK

(* A dispatch that ends.                                                   *)
LEMMA StackPopped ==
  ASSUME StackOK, stack # <<>>, stack' = SubSeq(stack, 1, Len(stack) - 1),
         Len(stack) # 1 => UNCHANGED state
  PROVE  StackOK'
<1>1. Len(stack) \in Nat /\ Len(stack) > 0 /\ \A i \in 1..Len(stack) : stack[i] \in Frames
  BY TopFacts DEF StackOK, FrameOK
<1>2. /\ stack' \in Seq(Frames) /\ Len(stack') = Len(stack) - 1
      /\ \A i \in 1..Len(stack') : stack'[i] = stack[i]
  <2>1. /\ SubSeq(stack, 1, Len(stack) - 1) \in Seq(Frames)
        /\ Len(SubSeq(stack, 1, Len(stack) - 1)) = Len(stack) - 1
        /\ \A i \in 1..Len(stack) - 1 : SubSeq(stack, 1, Len(stack) - 1)[i] = stack[i]
    <3>1. stack \in Seq(Frames) /\ Len(stack) # 0 /\ DOMAIN stack = 1..Len(stack)
      BY <1>1 DEF StackOK
    <3> QED
      BY <1>1, <3>1
  <2> QED
    BY <2>1
<1>3. ASSUME NEW i \in 1..Len(stack')
      PROVE  FrameOK(stack[i])' /\ (i < Len(stack') => stack'[i].calling)
  <2>1. FrameOK(stack'[i]) /\ (i < Len(stack') => stack'[i].calling)
    BY <1>1, <1>2, SMTT(30) DEF StackOK
  <2>2. UNCHANGED state
    BY <1>1, <1>2
  <2> QED
    BY <2>1, <2>2 DEF FrameOK, Usable
<1> QED
  BY <1>2, <1>3 DEF StackOK

(* A step that frees nothing while a dispatch is under way, and leaves the *)
(* dispatches where they are.                                              *)
LEMMA StackStays ==
  ASSUME StackOK, stack' \in Seq(Frames), Len(stack') = Len(stack),
         \A i \in 1..Len(stack) :
           /\ stack'[i].h = stack[i].h /\ stack'[i].calling = stack[i].calling
           /\ stack'[i].ref = stack[i].ref,
         \A h \in Handlers : stack # <<>> /\ state[h] # "free" => state'[h] # "free"
  PROVE  StackOK'
<1>1. Len(stack) \in Nat
  BY DEF StackOK
<1>2. ASSUME NEW i \in 1..Len(stack')
      PROVE  FrameOK(stack[i])' /\ (i < Len(stack') => stack'[i].calling)
  <2>1. i \in 1..Len(stack) /\ stack # <<>>
    BY <1>1
  <2>2. FrameOK(stack[i]) /\ (i < Len(stack) => stack[i].calling) /\ stack'[i] \in Frames
    BY <2>1 DEF StackOK
  <2>3. stack[i].h \in Handlers \cup {Nil} /\ stack[i].ref \in Handlers \cup {Nil}
    BY <2>2 DEF FrameOK, Frames
  <2> QED
    BY <2>1, <2>2, <2>3 DEF FrameOK, Usable
<1> QED
  BY <1>2 DEF StackOK

-----------------------------------------------------------------------------
(* Steps of a dispatch.                                                    *)

(* A step that leaves the lists alone.                                     *)
LEMMA ListsStay ==
  ASSUME HandlersInv, UNCHANGED lists, stack' = <<>> => stack = <<>>,
         \A t \in Targets : object'[t] # "alive" => object[t] # "alive" \/ first[t] = Nil
  PROVE  Linked'
<1>1. \A t \in Targets : Installed(t)' = Installed(t)
  BY DEF Installed, lists
<1>2. Removed' = Removed
  BY DEF Removed, lists
<1> QED
  BY <1>1, <1>2 DEF HandlersInv, Linked, lists

(* SendEventToEventTarget and CallNextEventHandler.                        *)
LEMMA Started ==
  ASSUME HandlersInv, GameRuns, NEW t \in Targets, NEW h \in Handlers \cup {Nil},
         NEW e \in Events, Usable(h), stack' = Starts(t, h, e),
         UNCHANGED <<object, lists, destroying, crashed>>
  PROVE  HandlersInv'
<1> DEFINE owed == {x \in Handlers : state[x] = "installed" /\
                      (x \in OnList(h) \/ target[x] \in Above(t))}
           f == [event |-> e, t |-> t, h |-> h, calling |-> FALSE, ref |-> Nil,
                 owed |-> owed]
<1>1. owed \in SUBSET Handlers
  OBVIOUS
<1>2. stack' = Append(stack, f)
  BY DEF Starts
<1> HIDE DEF owed
<1>3. FrameOK(f)
  BY <1>1 DEF FrameOK, Frames
<1> HIDE DEF f
<1>4. StackOK'
  BY <1>2, <1>3, StackFacts, StackPushed DEF lists
<1>5. stack' # <<>>
  BY <1>2, StackFacts DEF StackOK
<1>6. Linked'
  BY <1>5, ListsStay
<1> QED
  BY <1>4, <1>6, StackFacts, StackFactsNext DEF lists, VariablesTyped

(* The walk, and what returns to it.                                       *)
LEMMA Walked ==
  ASSUME HandlersInv, stack # <<>>, NEW f, FrameOK(f), Becomes(f),
         UNCHANGED <<object, lists, destroying, crashed>>
  PROVE  HandlersInv'
<1>1. StackOK'
  BY StackFacts, StackChanged DEF lists
<1>2. stack' # <<>>
  BY StackFacts DEF StackOK, Becomes
<1>3. Linked'
  BY <1>2, ListsStay
<1> QED
  BY <1>1, <1>3, StackFacts, StackFactsNext DEF lists, VariablesTyped

(* A parent read from a freed target: nothing else happens.                *)
LEMMA Crashes ==
  ASSUME HandlersInv, crashed' \in BOOLEAN, UNCHANGED <<object, lists, stack, destroying>>
  PROVE  HandlersInv'
<1>1. StackOK'
  BY StackFacts DEF StackOK, FrameOK, Usable, lists
<1>2. Linked'
  BY ListsStay
<1> QED
  BY <1>1, <1>2, StackFacts, StackFactsNext DEF lists, VariablesTyped

(* The outermost dispatch frees what was removed, and holds nothing then.  *)
LEMMA Ended ==
  ASSUME HandlersInv, stack # <<>>, Ends
  PROVE  HandlersInv'
<1>1. StackOK /\ VariablesTyped /\ Linked
  BY StackFacts
<1>2. Len(stack) \in Nat /\ Len(stack) > 0
  BY <1>1, TopFacts
<1>3. StackOK'
  BY <1>1, StackPopped DEF Ends
<1>4. Len(stack') = Len(stack) - 1
  <2>1. stack \in Seq(Frames) /\ stack' = SubSeq(stack, 1, Len(stack) - 1)
    BY <1>1 DEF Ends, StackOK
  <2>2. DOMAIN stack = 1..Len(stack) /\ \A i \in 1..Len(stack) : stack[i] \in Frames
    BY <2>1
  <2> QED
    BY <1>2, <2>1, <2>2
<1>5. CASE Len(stack) = 1
  <2>1. /\ state' = [h \in Handlers |-> IF state[h] = "removed" THEN "free" ELSE state[h]]
        /\ removed_handlers' = Nil
        /\ UNCHANGED <<object, first, next, target, wants, destroying, crashed>>
    BY <1>5 DEF Ends
  <2>2. \A t \in Targets : Installed(t)' = Installed(t)
    BY <2>1 DEF Installed
  <2>3. Removed' = {}
    BY <2>1 DEF Removed
  <2>4. Linked'
    BY <1>1, <2>1, <2>2, <2>3, EmptyList DEF Linked
  <2>5. state' \in [Handlers -> {"free", "installed", "removed"}]
    BY <1>1, <2>1 DEF VariablesTyped
  <2> QED
    BY <1>1, <1>3, <2>1, <2>4, <2>5, StackFactsNext DEF VariablesTyped
<1>6. CASE Len(stack) # 1
  <2>1. UNCHANGED <<object, lists, destroying, crashed>>
    BY <1>6 DEF Ends, lists
  <2>2. stack' # <<>>
    BY <1>2, <1>4, <1>6
  <2>3. Linked'
    BY <2>1, <2>2, ListsStay
  <2> QED
    BY <1>1, <1>3, <2>1, <2>3, StackFactsNext DEF lists, VariablesTyped
<1> QED
  BY <1>5, <1>6

-----------------------------------------------------------------------------
(* Handlers that are installed and removed.                                *)

(* unlink_handler: out of one list and, during a dispatch, into the other. *)
LEMMA Unlinked ==
  ASSUME HandlersInv, NEW h \in Handlers, state[h] = "installed", unlink_handler(h),
         UNCHANGED <<object, destroying, crashed>>
  PROVE  HandlersInv'
<1>1. TypeOK /\ StackOK /\ VariablesTyped /\ Linked
  BY StackFacts DEF HandlersInv
<1>2. PICK t \in Targets : t = target[h] /\ h \in Installed(t)
  BY <1>1 DEF Linked, Installed
<1>3. /\ first' = [first EXCEPT ![t] = IF first[t] = h THEN next[h] ELSE first[t]]
      /\ state' = [state EXCEPT ![h] = IF stack # <<>> THEN "removed" ELSE "free"]
      /\ UNCHANGED <<target, wants>>
      /\ stack' = NotOwed(h)
  BY <1>2 DEF unlink_handler, Unlinks
<1>4. /\ next' \in [Handlers -> Handlers \cup {Nil}]
      /\ \A x \in Handlers \ {h} :
           next'[x] = IF state[x] = "installed" /\ next[x] = h
                      THEN next[h] ELSE next[x]
      /\ removed_handlers' \in Handlers \cup {Nil}
  <2>1. CASE stack # <<>>
    BY <1>1, <2>1 DEF unlink_handler, Bypassed, VariablesTyped
  <2>2. CASE stack = <<>>
    BY <1>1, <2>2 DEF unlink_handler, Bypassed, VariablesTyped
  <2> QED
    BY <2>1, <2>2
<1>5. /\ Installed(t)' = Installed(t) \ {h}
      /\ \A s \in Targets \ {t} : Installed(s)' = Installed(s)
  <2>1. /\ state'[h] # "installed"
        /\ \A x \in Handlers \ {h} : state'[x] = state[x]
    BY <1>1, <1>3 DEF TypeOK
  <2>2. target' = target
    BY <1>3
  <2>3. \A s \in Targets : Installed(s)' = Installed(s) \ {h}
    BY <2>1, <2>2 DEF Installed
  <2>4. \A s \in Targets \ {t} : h \notin Installed(s)
    BY <1>2 DEF Installed
  <2> QED
    BY <1>2, <2>3, <2>4
<1>6. ASSUME NEW s \in Targets
      PROVE  IsList(first[s], next, Installed(s))'
  <2>0. IsList(first[s], next, Installed(s)) /\ Installed(s) \in SUBSET Handlers
    BY <1>1 DEF Linked, Installed
  <2>1. CASE s = t
    <3>1. \A x \in Installed(t) \ {h} :
            next'[x] = IF next[x] = h THEN next[h] ELSE next[x]
      BY <1>4 DEF Installed
    <3>2. first'[t] = IF first[t] = h THEN next[h] ELSE first[t]
      BY <1>1, <1>2, <1>3 DEF TypeOK
    <3>3. IsList(IF first[t] = h THEN next[h] ELSE first[t], next', Installed(t) \ {h})
      BY <1>2, <2>0, <2>1, <3>1, UnlinkedList, ZenonT(60)
    <3>4. IsList(first'[t], next', Installed(t) \ {h})
      BY <3>2, <3>3
    <3> QED
      BY <1>5, <2>1, <3>4
  <2>2. CASE s # t
    <3>1. h \notin Installed(s)
      BY <1>2, <2>2 DEF Installed
    <3>2. \A x \in Installed(s) : next'[x] = next[x]
      <4> SUFFICES ASSUME NEW x \in Installed(s) PROVE next'[x] = next[x]
        OBVIOUS
      <4>1. x \in Handlers \ {h} /\ next[x] \in Installed(s) \cup {Nil}
        BY <2>0, <3>1 DEF IsList
      <4>2. next[x] # h
        BY <3>1, <4>1, NullIsNoHandler
      <4> QED
        BY <1>4, <4>1, <4>2
    <3>3. IsList(first[s], next', Installed(s))
      BY <2>0, <3>2, SameList
    <3> QED
      BY <1>1, <1>3, <1>5, <2>2, <3>3 DEF TypeOK
  <2> QED
    BY <2>1, <2>2
<1>7. IsList(removed_handlers, next, Removed)' /\ (stack' = <<>> => Removed' = {})
  <2>0. IsList(removed_handlers, next, Removed) /\ h \notin Removed
    BY <1>1 DEF Linked, Removed
  <2>1. \A x \in Removed : next'[x] = next[x]
    BY <1>4, <2>0 DEF Removed
  <2>2. CASE stack # <<>>
    <3>1. Removed' = Removed \cup {h} /\ removed_handlers' = h
      BY <1>1, <1>3, <2>2 DEF Removed, TypeOK, unlink_handler
    <3>2. next'[h] = removed_handlers
      BY <1>1, <2>2 DEF unlink_handler, Bypassed
    <3>3. Removed \in SUBSET Handlers
      BY DEF Removed
    <3>4. IsList(h, next', Removed \cup {h})
      BY <2>0, <2>1, <3>2, <3>3, PushedList
    <3>5. stack' # <<>>
      <4>1. DOMAIN stack' = DOMAIN stack /\ DOMAIN stack # {}
        BY <1>1, <1>3, <2>2 DEF NotOwed, StackOK
      <4> QED
        BY <4>1
    <3> QED
      BY <3>1, <3>4, <3>5
  <2>3. CASE stack = <<>>
    <3>1. Removed' = Removed /\ removed_handlers' = removed_handlers /\ Removed = {}
      BY <1>1, <1>3, <2>3 DEF Removed, TypeOK, Linked, unlink_handler
    <3>2. IsList(removed_handlers, next', Removed)
      BY <2>0, <2>1, SameList
    <3> QED
      BY <3>1, <3>2
  <2> QED
    BY <2>2, <2>3
<1>8. Linked'
  <2>1. \A x \in Handlers : state'[x] = "installed" => target'[x] \in Targets
    BY <1>1, <1>3 DEF Linked, TypeOK
  <2>2. \A s \in Targets : object'[s] # "alive" => first'[s] = Nil
    <3> SUFFICES ASSUME NEW s \in Targets, object'[s] # "alive" PROVE first'[s] = Nil
      OBVIOUS
    <3>1. first[s] = Nil
      BY <1>1 DEF Linked
    <3>2. s # t
      <4>1. IsList(first[t], next, Installed(t))
        BY <1>1, <1>2 DEF Linked
      <4>2. ASSUME first[t] = Nil PROVE FALSE
        <5>1. {} \in SUBSET Installed(t) /\ Nil \in {} \cup {Nil}
          OBVIOUS
        <5>2. {} = Installed(t)
          BY <4>1, <4>2, <5>1 DEF IsList
        <5> QED
          BY <1>2, <5>2
      <4> QED
        BY <3>1, <4>2
    <3> QED
      BY <1>1, <1>3, <3>1, <3>2 DEF TypeOK
  <2> QED
    BY <1>6, <1>7, <2>1, <2>2 DEF Linked
<1>9. StackOK'
  <2>1. DOMAIN stack = 1..Len(stack) /\ Len(stack) \in Nat
    BY <1>1 DEF StackOK
  <2> DEFINE F(i) == [stack[i] EXCEPT !.owed = @ \ {h}]
  <2>2. \A i \in 1..Len(stack) :
          /\ F(i) \in Frames /\ F(i).h = stack[i].h /\ F(i).ref = stack[i].ref
          /\ F(i).calling = stack[i].calling
    <3> TAKE i \in 1..Len(stack)
    <3>1. stack[i] \in Frames
      BY <1>1 DEF StackOK, FrameOK
    <3> QED
      BY <3>1 DEF Frames
  <2>3. stack' = [i \in 1..Len(stack) |-> F(i)]
    BY <1>3, <2>1 DEF NotOwed
  <2> HIDE DEF F
  <2>4. stack' \in Seq(Frames) /\ Len(stack') = Len(stack)
    BY <2>1, <2>2, <2>3
  <2>5. \A i \in 1..Len(stack) : stack'[i] = F(i)
    BY <2>3
  <2>6. \A x \in Handlers : stack # <<>> /\ state[x] # "free" => state'[x] # "free"
    BY <1>1, <1>3 DEF TypeOK
  <2> QED
    BY <1>1, <2>2, <2>4, <2>5, <2>6, StackStays
<1>10. VariablesTyped'
  <2>1. next[h] \in Handlers \cup {Nil}
    BY <1>1 DEF TypeOK
  <2>2. first' \in [Targets -> Handlers \cup {Nil}]
    BY <1>1, <1>3, <2>1 DEF TypeOK
  <2>3. state' \in [Handlers -> {"free", "installed", "removed"}]
    BY <1>1, <1>3 DEF TypeOK
  <2> QED
    BY <1>1, <1>3, <1>4, <2>2, <2>3 DEF VariablesTyped
<1> QED
  BY <1>8, <1>9, <1>10, StackFactsNext

(* InstallEventHandler: in front of its target's list.                     *)
LEMMA Installs ==
  ASSUME HandlersInv, NEW t \in Targets, NEW h \in Handlers, NEW types \in SUBSET Events,
         InstallEventHandler(t, h, types)
  PROVE  HandlersInv'
<1>1. TypeOK /\ StackOK /\ VariablesTyped /\ Linked
  BY StackFacts DEF HandlersInv
<1>2. /\ object[t] = "alive" /\ state[h] = "free"
      /\ state' = [state EXCEPT ![h] = "installed"]
      /\ target' = [target EXCEPT ![h] = t]
      /\ wants' = [wants EXCEPT ![h] = types]
      /\ next' = [next EXCEPT ![h] = first[t]]
      /\ first' = [first EXCEPT ![t] = h]
      /\ UNCHANGED <<object, removed_handlers, stack, destroying, crashed>>
  BY DEF InstallEventHandler
<1>3. /\ Installed(t)' = Installed(t) \cup {h}
      /\ \A s \in Targets \ {t} : Installed(s)' = Installed(s)
      /\ Removed' = Removed
  BY <1>1, <1>2 DEF Installed, Removed, TypeOK
<1>4. \A s \in Targets : h \notin Installed(s)
  BY <1>2 DEF Installed
<1>5. next'[h] = first[t] /\ \A x \in Handlers \ {h} : next'[x] = next[x]
  BY <1>1, <1>2 DEF TypeOK
<1>6. ASSUME NEW s \in Targets
      PROVE  IsList(first[s], next, Installed(s))'
  <2>0. IsList(first[s], next, Installed(s)) /\ Installed(s) \in SUBSET Handlers
    BY <1>1 DEF Linked, Installed
  <2>1. \A x \in Installed(s) : next'[x] = next[x]
    BY <1>4, <1>5 DEF Installed
  <2>2. CASE s = t
    <3>1. IsList(h, next', Installed(s) \cup {h})
      BY <1>4, <1>5, <2>0, <2>1, <2>2, PushedList
    <3>2. first'[s] = h
      BY <1>1, <1>2, <2>2 DEF TypeOK
    <3> QED
      BY <1>3, <2>2, <3>1, <3>2
  <2>3. CASE s # t
    <3>1. IsList(first[s], next', Installed(s))
      BY <2>0, <2>1, SameList
    <3> QED
      BY <1>1, <1>2, <1>3, <2>3, <3>1 DEF TypeOK
  <2> QED
    BY <2>2, <2>3
<1>7. IsList(removed_handlers, next, Removed)'
  <2>1. \A x \in Removed : next'[x] = next[x]
    BY <1>2, <1>5 DEF Removed
  <2>2. IsList(removed_handlers, next', Removed)
    BY <1>1, <2>1, SameList DEF Linked
  <2> QED
    BY <1>2, <1>3, <2>2
<1>8. Linked'
  <2>1. \A x \in Handlers : state'[x] = "installed" => target'[x] \in Targets
    BY <1>1, <1>2 DEF Linked, TypeOK
  <2>2. \A s \in Targets : object'[s] # "alive" => first'[s] = Nil
    BY <1>1, <1>2 DEF Linked, TypeOK
  <2> QED
    BY <1>1, <1>2, <1>3, <1>6, <1>7, <2>1, <2>2 DEF Linked
<1>9. \A x \in Handlers : state[x] # "free" => state'[x] # "free"
  BY <1>1, <1>2 DEF TypeOK
<1>10. StackOK'
  BY <1>1, <1>2, <1>9, StackStays DEF StackOK
<1>11. VariablesTyped'
  <2>1. /\ first' \in [Targets -> Handlers \cup {Nil}]
        /\ state' \in [Handlers -> {"free", "installed", "removed"}]
        /\ target' \in [Handlers -> Targets \cup {NoTarget}]
        /\ wants' \in [Handlers -> SUBSET Events]
    BY <1>1, <1>2 DEF TypeOK
  <2>2. next' \in [Handlers -> Handlers \cup {Nil}]
    <3>1. first[t] \in Handlers \cup {Nil}
      BY <1>1 DEF TypeOK
    <3> QED
      BY <1>1, <1>2, <3>1 DEF TypeOK
  <2> QED
    BY <1>1, <1>2, <2>1, <2>2 DEF VariablesTyped
<1> QED
  BY <1>8, <1>10, <1>11, StackFactsNext

-----------------------------------------------------------------------------
(* Nothing is installed, removed or dispatched at first.                   *)
LEMMA HandlersStart == Init => HandlersInv
<1> SUFFICES ASSUME Init PROVE HandlersInv
  OBVIOUS
<1>1. stack = <<>> /\ Len(stack) = 0
  BY DEF Init
<1>2. StackOK
  BY <1>1 DEF StackOK
<1>3. VariablesTyped
  BY DEF Init, VariablesTyped
<1>4. (\A t \in Targets : Installed(t) = {}) /\ Removed = {}
  BY DEF Init, Installed, Removed
<1>5. Linked
  BY <1>4, EmptyList DEF Init, Linked
<1> QED
  BY <1>2, <1>3, <1>5, StackFacts

(* What the game does keeps the invariant.                                 *)
LEMMA GameStepKeeps == HandlersInv /\ GameStep => HandlersInv'
<1> SUFFICES ASSUME HandlersInv, GameStep PROVE HandlersInv'
  OBVIOUS
<1>1. StackOK /\ VariablesTyped /\ Linked
  BY StackFacts
<1>2. ASSUME NEW t \in Targets, hle_target_init(t) PROVE HandlersInv'
  <2>1. /\ object[t] = "none" /\ object' = [object EXCEPT ![t] = "alive"]
        /\ first' = [first EXCEPT ![t] = Nil]
        /\ UNCHANGED <<state, next, target, wants, removed_handlers, stack,
                       destroying, crashed>>
    BY <1>2 DEF hle_target_init
  <2>2. first' = first
    BY <1>1, <2>1 DEF Linked, VariablesTyped
  <2>3. \A s \in Targets : object'[s] # "alive" => object[s] # "alive"
    BY <1>1, <2>1 DEF VariablesTyped
  <2>4. Linked'
    BY <2>1, <2>2, <2>3, ListsStay DEF lists
  <2>5. StackOK'
    BY <1>1, <2>1 DEF StackOK, FrameOK, Usable
  <2> QED
    BY <1>1, <2>1, <2>2, <2>4, <2>5, StackFactsNext DEF VariablesTyped
<1>3. ASSUME NEW t \in Targets, hle_target_destroy(t) PROVE HandlersInv'
  <2>1. destroying' = t /\ UNCHANGED <<object, lists, stack, crashed>>
    BY <1>3 DEF hle_target_destroy
  <2>2. Linked'
    BY <2>1, ListsStay
  <2>3. StackOK'
    BY <1>1, <2>1 DEF StackOK, FrameOK, Usable, lists
  <2> QED
    BY <1>1, <2>1, <2>2, <2>3, StackFactsNext DEF lists, VariablesTyped
<1>4. ASSUME NEW t \in Targets, NEW e \in Events, SendEventToEventTarget(e, t)
      PROVE  HandlersInv'
  <2>1. first[t] \in Handlers \cup {Nil} /\ Usable(first[t])
    BY <1>1, FirstIsUsable DEF Installed
  <2> QED
    BY <1>4, <2>1, Started DEF SendEventToEventTarget
<1>5. ASSUME NEW t \in Targets, NEW h \in Handlers, NEW types \in SUBSET Events,
             InstallEventHandler(t, h, types)
      PROVE  HandlersInv'
  BY <1>5, Installs
<1>6. ASSUME NEW h \in Handlers, RemoveEventHandler(h) PROVE HandlersInv'
  BY <1>6, Unlinked DEF RemoveEventHandler
<1>7. ASSUME NEW h \in Handlers, NEW types \in SUBSET Events, ChangesTypes(h, types)
      PROVE  HandlersInv'
  <2>1. /\ wants' = [wants EXCEPT ![h] = types]
        /\ UNCHANGED <<object, first, state, next, target, removed_handlers, stack,
                       destroying, crashed>>
    BY <1>7 DEF ChangesTypes
  <2>2. (\A s \in Targets : Installed(s)' = Installed(s)) /\ Removed' = Removed
    BY <2>1 DEF Installed, Removed
  <2>3. Linked'
    BY <1>1, <2>1, <2>2 DEF Linked
  <2>4. StackOK'
    BY <1>1, <2>1 DEF StackOK, FrameOK, Usable
  <2> QED
    BY <1>1, <2>1, <2>3, <2>4, StackFactsNext DEF VariablesTyped
<1>8. CASE CallNextEventHandler
  <2>0. /\ GameRuns /\ stack # <<>> /\ UNCHANGED <<object, lists, destroying>>
        /\ FrameOK(Top) /\ Top \in Frames /\ Top.calling
    BY <1>1, <1>8, TopFacts DEF CallNextEventHandler, GameRuns
  <2>1. /\ Top.t \in Targets /\ Top.event \in Events /\ Top.ref \in Handlers \cup {Nil}
        /\ Usable(Top.ref)
    BY <2>0 DEF FrameOK, Frames
  <2>2. CASE Top.ref # Nil
    <3>1. stack' = Starts(Top.t, Top.ref, Top.event) /\ UNCHANGED crashed
      BY <1>8, <2>2 DEF CallNextEventHandler
    <3> QED
      BY <2>0, <2>1, <3>1, Started
  <2>3. CASE Top.ref = Nil /\ object[Top.t] = "freed"
    <3>1. crashed' = TRUE /\ UNCHANGED stack
      BY <1>8, <2>3 DEF CallNextEventHandler
    <3> QED
      BY <2>0, <3>1, Crashes
  <2>4. CASE Top.ref = Nil /\ object[Top.t] # "freed"
    <3>1. /\ Parent[Top.t] # NoTarget /\ UNCHANGED crashed
          /\ stack' = Starts(Parent[Top.t], first[Parent[Top.t]], Top.event)
      BY <1>8, <2>4 DEF CallNextEventHandler
    <3>2. Parent[Top.t] \in Targets
      BY <2>1, <3>1, ParentsAreTargets
    <3>3. first[Parent[Top.t]] \in Handlers \cup {Nil} /\ Usable(first[Parent[Top.t]])
      BY <1>1, <3>2, FirstIsUsable DEF Installed
    <3> QED
      BY <2>0, <2>1, <3>1, <3>2, <3>3, Started
  <2> QED
    BY <2>2, <2>3, <2>4
<1> QED
  BY <1>2, <1>3, <1>4, <1>5, <1>6, <1>7, <1>8 DEF GameStep

(* A handler that is gone from its list leads on all the same: what it is  *)
(* linked to is not freed either.                                          *)
LEMMA WalkKeeps == HandlersInv /\ (Calls \/ Skips \/ NotHandled) => HandlersInv'
<1> SUFFICES ASSUME HandlersInv, Calls \/ Skips \/ NotHandled PROVE HandlersInv'
  OBVIOUS
<1>1. /\ stack # <<>> /\ Top.h # Nil
      /\ UNCHANGED <<object, lists, destroying, crashed>>
      /\ FrameOK(Top) /\ Top \in Frames
  <2>1. stack # <<>> /\ FrameOK(Top) /\ Top \in Frames
    BY StackFacts, TopFacts DEF Calls, Skips, NotHandled, Walking
  <2>2. Top.h # Nil
    BY <2>1 DEF Calls, Skips, NotHandled, GameRuns, FrameOK
  <2> QED
    BY <2>1, <2>2 DEF Calls, Skips, NotHandled
<1>2. Top.h \in Handlers /\ state[Top.h] # "free"
  BY <1>1 DEF FrameOK, Frames, Usable
<1>3. next[Top.h] \in Handlers \cup {Nil} /\ Usable(next[Top.h])
  BY <1>2, LinksAreUsable DEF HandlersInv
<1>4. CASE Calls
  <2> DEFINE f == [Top EXCEPT !.calling = TRUE, !.ref = next[Top.h],
                              !.owed = @ \ {Top.h}]
  <2>1. FrameOK(f)
    BY <1>1, <1>3 DEF FrameOK, Frames
  <2>2. Becomes(f)
    BY <1>4 DEF Calls
  <2> HIDE DEF f
  <2> QED
    BY <1>1, <2>1, <2>2, Walked
<1>5. CASE Skips
  <2> DEFINE f == [Top EXCEPT !.h = next[Top.h], !.owed = @ \ {Top.h}]
  <2>1. FrameOK(f)
    <3>1. ~Top.calling
      BY <1>5 DEF Skips, Walking
    <3> QED
      BY <1>1, <1>3, <3>1 DEF FrameOK, Frames
  <2>2. Becomes(f)
    BY <1>5 DEF Skips
  <2> HIDE DEF f
  <2> QED
    BY <1>1, <2>1, <2>2, Walked
<1>6. CASE NotHandled
  <2> DEFINE f == [Top EXCEPT !.calling = FALSE, !.h = next[Top.h]]
  <2>1. FrameOK(f)
    BY <1>1, <1>3 DEF FrameOK, Frames
  <2>2. Becomes(f)
    BY <1>6 DEF NotHandled
  <2> HIDE DEF f
  <2> QED
    BY <1>1, <2>1, <2>2, Walked
<1> QED
  BY <1>4, <1>5, <1>6

(* Every step keeps the invariant.                                         *)
LEMMA HandlersKept == HandlersInv /\ [Next]_vars => HandlersInv'
<1> SUFFICES ASSUME HandlersInv, [Next]_vars PROVE HandlersInv'
  OBVIOUS
<1>1. StackOK /\ VariablesTyped /\ Linked
  BY StackFacts
<1>2. CASE GameStep
  BY <1>2, GameStepKeeps
<1>3. CASE Calls \/ Skips \/ NotHandled
  BY <1>3, WalkKeeps
<1>4. CASE MovesToParent
  <2>0. stack # <<>> /\ ~Top.calling /\ UNCHANGED <<object, lists, destroying>>
    BY <1>4 DEF MovesToParent, Walking
  <2>1. FrameOK(Top) /\ Top \in Frames
    BY <1>1, <2>0, TopFacts
  <2>2. CASE object[Top.t] = "freed"
    <3>1. crashed' = TRUE /\ UNCHANGED stack
      BY <1>4, <2>2 DEF MovesToParent
    <3> QED
      BY <2>0, <3>1, Crashes
  <2>3. CASE object[Top.t] # "freed"
    <3> DEFINE f == [Top EXCEPT !.t = Parent[Top.t], !.h = first[Parent[Top.t]]]
    <3>1. Parent[Top.t] # NoTarget /\ UNCHANGED crashed /\ Becomes(f)
      BY <1>4, <2>3 DEF MovesToParent
    <3>2. Parent[Top.t] \in Targets
      BY <2>1, <3>1, ParentsAreTargets DEF Frames
    <3>3. first[Parent[Top.t]] \in Handlers \cup {Nil} /\ Usable(first[Parent[Top.t]])
      BY <1>1, <3>2, FirstIsUsable DEF Installed
    <3>4. FrameOK(f)
      BY <2>0, <2>1, <3>2, <3>3 DEF FrameOK, Frames
    <3> HIDE DEF f
    <3> QED
      BY <2>0, <3>1, <3>4, Walked
  <2> QED
    BY <2>2, <2>3
<1>5. CASE NobodyHandled \/ Handled
  BY <1>5, Ended DEF NobodyHandled, Handled, Walking
<1>6. CASE DestroyUnlinks
  <2>1. destroying \in Targets /\ first[destroying] # Nil
    BY <1>1, <1>6 DEF DestroyUnlinks, VariablesTyped
  <2>2. first[destroying] \in Handlers /\ state[first[destroying]] = "installed"
    BY <1>1, <2>1, FirstIsUsable DEF Installed
  <2> QED
    BY <1>6, <2>2, Unlinked DEF DestroyUnlinks
<1>7. CASE Destroyed
  <2>1. /\ destroying \in Targets /\ first[destroying] = Nil
        /\ object' = [object EXCEPT ![destroying] = "freed"]
        /\ destroying' = NoTarget /\ UNCHANGED <<lists, stack, crashed>>
    BY <1>1, <1>7 DEF Destroyed, VariablesTyped
  <2>2. Linked'
    <3>1. \A t \in Targets : object'[t] # "alive" => object[t] # "alive" \/ first[t] = Nil
      BY <1>1, <2>1 DEF VariablesTyped
    <3> QED
      BY <2>1, <3>1, ListsStay
  <2>3. StackOK'
    BY <1>1, <2>1 DEF StackOK, FrameOK, Usable, lists
  <2> QED
    BY <1>1, <2>1, <2>2, <2>3, StackFactsNext DEF lists, VariablesTyped
<1>8. CASE UNCHANGED vars
  <2>1. UNCHANGED <<object, lists, stack, destroying, crashed>>
    BY <1>8 DEF vars, lists
  <2> QED
    BY <1>1, <2>1, Crashes DEF VariablesTyped
<1> QED
  BY <1>2, <1>3, <1>4, <1>5, <1>6, <1>7, <1>8 DEF Next, DispatchStep, Returns

(* dispatch() follows the links of handlers that were removed, by the      *)
(* procedures it called and in the dispatches inside them: none is freed   *)
(* while one is at it, both lists are whole, and both end.                 *)
THEOREM DispatchIsSafe == Spec => []HandlersAreKept
<1>1. Spec => []HandlersInv
  BY HandlersStart, HandlersKept, PTL DEF Spec
<1> QED
  BY <1>1, InvariantSuffices, PTL

(* The variables of events.c's handlers have their types.                  *)
THEOREM HandlersAreTyped == Spec => []TypeOK
<1>1. Spec => []HandlersInv
  BY HandlersStart, HandlersKept, PTL DEF Spec
<1>2. HandlersInv => TypeOK
  BY DEF HandlersInv
<1> QED
  BY <1>1, <1>2, PTL
-----------------------------------------------------------------------------
(* The ring.                                                               *)

(* The slot i places after the head h.                                     *)
Slot(h, i) == (h + i) % QUEUE_SIZE

(* The ring goes round once.                                               *)
LEMMA SlotIs ==
  ASSUME Q!QueueConstants, NEW h \in Q!Slots, NEW i \in 0..QUEUE_SIZE
  PROVE  /\ Slot(h, i) = IF h + i < QUEUE_SIZE THEN h + i ELSE h + i - QUEUE_SIZE
         /\ Slot(h, i) \in Q!Slots
<1>1. QUEUE_SIZE \in Nat \ {0} /\ h \in 0..QUEUE_SIZE - 1
  BY DEF Q!QueueConstants, Q!Slots
<1>2. CASE h + i < QUEUE_SIZE
  BY <1>1, <1>2 DEF Slot, Q!Slots
<1>3. CASE h + i >= QUEUE_SIZE
  <2>1. PICK q \in Nat \ {0} : q = QUEUE_SIZE
    BY <1>1
  <2>2. PICK x \in q..2 * q - 1 : x = h + i
    BY <1>1, <1>3, <2>1
  <2>3. x % q = x - q /\ x - q \in 0..q - 1
    OBVIOUS
  <2>4. Slot(h, i) = x % q
    BY <2>1, <2>2 DEF Slot
  <2> QED
    BY <2>1, <2>2, <2>3, <2>4 DEF Q!Slots
<1> QED
  BY <1>1, <1>2, <1>3

(* Different places are different slots.                                   *)
LEMMA SlotsDiffer ==
  ASSUME Q!QueueConstants, NEW h \in Q!Slots,
         NEW i \in 0..QUEUE_SIZE - 1, NEW j \in 0..QUEUE_SIZE - 1,
         Slot(h, i) = Slot(h, j)
  PROVE  i = j
<1>1. QUEUE_SIZE \in Nat \ {0} /\ h \in 0..QUEUE_SIZE - 1
  BY DEF Q!QueueConstants, Q!Slots
<1>2. i \in 0..QUEUE_SIZE /\ j \in 0..QUEUE_SIZE
  BY <1>1
<1> QED
  BY <1>1, <1>2, SlotIs

(* Places count from the head: with the next slot for a head, from that.   *)
LEMMA SlotAfterHead ==
  ASSUME Q!QueueConstants, NEW h \in Q!Slots, NEW i \in 0..QUEUE_SIZE - 1
  PROVE  Slot(h, 1) \in Q!Slots /\ Slot(Slot(h, 1), i) = Slot(h, i + 1)
<1>1. QUEUE_SIZE \in Nat \ {0} /\ h \in 0..QUEUE_SIZE - 1
  BY DEF Q!QueueConstants, Q!Slots
<1>2. 1 \in 0..QUEUE_SIZE /\ i \in 0..QUEUE_SIZE /\ i + 1 \in 0..QUEUE_SIZE
  BY <1>1
<1>3. Slot(h, 1) \in Q!Slots
  BY <1>2, SlotIs
<1> QED
  BY <1>1, <1>2, <1>3, SlotIs

-----------------------------------------------------------------------------
(* The inductive invariant.                                                *)

(* What the ring holds, and what is about to be released, are events the   *)
(* count of which includes that reference.                                 *)
Pending ==
  /\ \A i \in 0..queue_count - 1 : queue[Q!At(i)] \in Records
  /\ \A t \in Threads :
       releases[t] # NoEvent =>
         releases[t] \in Records /\ refs[t][releases[t]] > 0

QueueInv == Q!TypeOK /\ Pending /\ Q!CountsAreExact

(* The references to e that r says threads have.                           *)
Tokens(r, e) == {x \in Threads \X (1..MaxRefs) : x[2] <= r[x[1]][e]}

(* EventQueue counts as everyone does.                                     *)
LEMMA SizeIs ==
  ASSUME NEW S
  PROVE  Q!Cardinality(S) = Cardinality(S) /\ (Q!IsFiniteSet(S) <=> IsFiniteSet(S))
BY DEF Q!Cardinality, Q!IsFiniteSet, Cardinality, IsFiniteSet

(* There are finitely many.                                                *)
LEMMA TokensAreFinite ==
  ASSUME Q!QueueConstants, NEW r, NEW e
  PROVE  IsFiniteSet(Tokens(r, e)) /\ Cardinality(Tokens(r, e)) \in Nat
<1>1. IsFiniteSet(1..MaxRefs) /\ IsFiniteSet(Threads)
  BY FS_Interval, SizeIs DEF Q!QueueConstants
<1>2. IsFiniteSet(Threads \X (1..MaxRefs))
  BY <1>1, FS_Product
<1>3. Tokens(r, e) \in SUBSET (Threads \X (1..MaxRefs))
  BY DEF Tokens
<1> QED
  BY <1>2, <1>3, FS_Subset, FS_CardinalityType

(* What t's references are after it gets one to e, and after it loses one. *)
OneMoreIn(s, r, t, e) == s = [r EXCEPT ![t][e] = r[t][e] + 1]
OneLessIn(s, r, t, e) == s = [r EXCEPT ![t][e] = r[t][e] - 1]

(* A thread that gets a reference to e has one more to that event, and the *)
(* same to others.                                                         *)
LEMMA OneMore ==
  ASSUME Q!QueueConstants, NEW r \in [Threads -> [Records -> 0..MaxRefs]],
         NEW t \in Threads, NEW e \in Records, r[t][e] < MaxRefs,
         NEW s, OneMoreIn(s, r, t, e)
  PROVE  /\ s \in [Threads -> [Records -> 0..MaxRefs]]
         /\ Cardinality(Tokens(s, e)) = Cardinality(Tokens(r, e)) + 1
         /\ \A d \in Records \ {e} : Tokens(s, d) = Tokens(r, d)
<1>0. MaxRefs \in Nat /\ r[t][e] \in 0..MaxRefs
  BY DEF Q!QueueConstants
<1>1. s \in [Threads -> [Records -> 0..MaxRefs]]
  BY <1>0 DEF OneMoreIn
<1>2. \A u \in Threads, d \in Records :
        s[u][d] = IF u = t /\ d = e THEN r[t][e] + 1 ELSE r[u][d]
  BY DEF OneMoreIn
<1>3. \A d \in Records \ {e} : Tokens(s, d) = Tokens(r, d)
  BY <1>2 DEF Tokens
<1> DEFINE x == <<t, r[t][e] + 1>>
<1>4. x \in Threads \X (1..MaxRefs) /\ x[1] = t /\ x[2] = r[t][e] + 1
  BY <1>0
<1>5. x \notin Tokens(r, e)
  BY <1>0, <1>4 DEF Tokens
<1>6. Tokens(s, e) = Tokens(r, e) \cup {x}
  <2>1. ASSUME NEW y \in Threads \X (1..MaxRefs)
        PROVE  y[2] <= s[y[1]][e] <=> y[2] <= r[y[1]][e] \/ y = x
    <3>0. y[1] \in Threads /\ y[2] \in 1..MaxRefs /\ y = <<y[1], y[2]>>
      OBVIOUS
    <3>1. CASE y[1] = t
      <4>1. s[y[1]][e] = r[t][e] + 1 /\ r[y[1]][e] = r[t][e]
        BY <1>2, <3>1
      <4>2. y = x <=> y[2] = r[t][e] + 1
        BY <3>0, <3>1
      <4>3. \A m, n \in Nat : m <= n + 1 <=> m <= n \/ m = n + 1
        OBVIOUS
      <4>4. y[2] \in Nat /\ r[t][e] \in Nat
        BY <1>0, <3>0
      <4>5. y[2] <= r[t][e] + 1 <=> y[2] <= r[t][e] \/ y[2] = r[t][e] + 1
        BY <4>3, <4>4
      <4> QED
        BY <4>1, <4>2, <4>5
    <3>2. CASE y[1] # t
      <4>1. s[y[1]][e] = r[y[1]][e] /\ y # x
        BY <1>2, <1>4, <3>0, <3>2
      <4> QED
        BY <4>1
    <3> QED
      BY <3>1, <3>2
  <2> HIDE DEF x
  <2> QED
    BY <1>4, <2>1 DEF Tokens
<1> HIDE DEF x
<1> QED
  BY <1>1, <1>3, <1>5, <1>6, TokensAreFinite, FS_AddElement

(* A thread that lets one go has one less.                                 *)
LEMMA OneLess ==
  ASSUME Q!QueueConstants, NEW r \in [Threads -> [Records -> 0..MaxRefs]],
         NEW t \in Threads, NEW e \in Records, r[t][e] > 0,
         NEW s, OneLessIn(s, r, t, e)
  PROVE  /\ s \in [Threads -> [Records -> 0..MaxRefs]]
         /\ Cardinality(Tokens(s, e)) = Cardinality(Tokens(r, e)) - 1
         /\ \A d \in Records \ {e} : Tokens(s, d) = Tokens(r, d)
<1>0. MaxRefs \in Nat /\ r[t][e] \in 0..MaxRefs
  BY DEF Q!QueueConstants
<1>1. s \in [Threads -> [Records -> 0..MaxRefs]]
  BY <1>0 DEF OneLessIn
<1>2. OneMoreIn(r, s, t, e)
  <2>1. s[t][e] + 1 = r[t][e]
    BY <1>0 DEF OneLessIn
  <2>2. \A u \in Threads : r[u] = [s EXCEPT ![t][e] = s[t][e] + 1][u]
    <3> TAKE u \in Threads
    <3>1. CASE u # t
      BY <1>1, <3>1 DEF OneLessIn
    <3>2. CASE u = t
      <4>1. \A d \in Records : r[t][d] = [s[t] EXCEPT ![e] = r[t][e]][d]
        BY <1>1 DEF OneLessIn
      <4>2. r[t] = [s[t] EXCEPT ![e] = r[t][e]]
        BY <1>1, <4>1
      <4> QED
        BY <1>1, <2>1, <3>2, <4>2
    <3> QED
      BY <3>1, <3>2
  <2> QED
    BY <1>1, <2>2 DEF OneMoreIn
<1>3. s[t][e] < MaxRefs
  BY <1>0 DEF OneLessIn
<1>4. /\ Cardinality(Tokens(r, e)) = Cardinality(Tokens(s, e)) + 1
      /\ \A d \in Records \ {e} : Tokens(r, d) = Tokens(s, d)
  BY <1>1, <1>2, <1>3, OneMore
<1>5. Cardinality(Tokens(r, e)) \in Nat /\ Cardinality(Tokens(s, e)) \in Nat
  BY TokensAreFinite
<1>6. Cardinality(Tokens(s, e)) = Cardinality(Tokens(r, e)) - 1
  BY <1>4, <1>5
<1> QED
  BY <1>1, <1>4, <1>6

-----------------------------------------------------------------------------
(* Places of an event in the queue.                                        *)

(* A thread's reference is one of those counted.                           *)
LEMMA CountsIncludeMine ==
  ASSUME Q!QueueConstants, QueueInv, NEW t \in Threads, NEW e \in Records, refs[t][e] > 0
  PROVE  rc[e] > 0
<1>1. rc[e] = Q!InQueue(e) + Cardinality(Tokens(refs, e))
  BY SizeIs DEF QueueInv, Q!CountsAreExact, Q!Held, Tokens
<1>2. Cardinality(Tokens(refs, e)) \in Nat \ {0}
  <2>1. refs[t][e] \in 0..MaxRefs /\ MaxRefs \in Nat
    BY DEF QueueInv, Q!TypeOK, Q!QueueConstants
  <2>2. <<t, 1>> \in Tokens(refs, e)
    BY <2>1 DEF Tokens
  <2> QED
    BY <2>2, TokensAreFinite, FS_EmptySet
<1>3. Q!InQueue(e) \in Nat
  <2>1. IsFiniteSet(0..queue_count - 1)
    BY FS_Interval DEF QueueInv, Q!TypeOK, Q!QueueConstants
  <2>2. {i \in 0..queue_count - 1 : queue[Q!At(i)] = e} \in SUBSET (0..queue_count - 1)
    OBVIOUS
  <2>3. Cardinality({i \in 0..queue_count - 1 : queue[Q!At(i)] = e}) \in Nat
    BY <2>1, <2>2, FS_Subset, FS_CardinalityType
  <2> QED
    BY <2>3, SizeIs DEF Q!InQueue
<1> QED
  BY <1>1, <1>2, <1>3

(* The places e has in a queue q with its head at h, of n events.          *)
Places(q, h, n, e) == {i \in 0..n - 1 : q[Slot(h, i)] = e}

(* There are finitely many.                                                *)
LEMMA PlacesAreFinite ==
  ASSUME Q!QueueConstants, NEW q, NEW h, NEW n \in 0..QUEUE_SIZE, NEW e
  PROVE  IsFiniteSet(Places(q, h, n, e)) /\ Cardinality(Places(q, h, n, e)) \in Nat
<1>1. IsFiniteSet(0..n - 1)
  BY FS_Interval DEF Q!QueueConstants
<1>2. Places(q, h, n, e) \in SUBSET (0..n - 1)
  BY DEF Places
<1> QED
  BY <1>1, <1>2, FS_Subset, FS_CardinalityType

(* hle_post_event puts e behind the others.                                *)
LEMMA OneBehind ==
  ASSUME Q!QueueConstants, NEW q \in [Q!Slots -> Records \cup {NoEvent}],
         NEW h \in Q!Slots, NEW n \in 0..QUEUE_SIZE - 1, NEW e \in Records,
         NEW r, r[Slot(h, n)] = e, \A s \in Q!Slots \ {Slot(h, n)} : r[s] = q[s]
  PROVE  /\ \A i \in 0..n - 1 : r[Slot(h, i)] = q[Slot(h, i)]
         /\ Cardinality(Places(r, h, n + 1, e)) = Cardinality(Places(q, h, n, e)) + 1
         /\ \A d \in Records \ {e} : Places(r, h, n + 1, d) = Places(q, h, n, d)
<1>0. QUEUE_SIZE \in Nat \ {0} /\ n \in 0..QUEUE_SIZE
  BY DEF Q!QueueConstants
<1>1. ASSUME NEW i \in 0..n - 1
      PROVE  r[Slot(h, i)] = q[Slot(h, i)]
  <2>1. i \in 0..QUEUE_SIZE - 1 /\ i \in 0..QUEUE_SIZE /\ i # n
    BY <1>0
  <2>2. Slot(h, i) # Slot(h, n) /\ Slot(h, i) \in Q!Slots
    BY <2>1, SlotIs, SlotsDiffer
  <2> QED
    BY <2>2
<1>2. 0..(n + 1) - 1 = (0..n - 1) \cup {n} /\ n \notin 0..n - 1
  BY <1>0
<1>3. Places(r, h, n + 1, e) = Places(q, h, n, e) \cup {n}
  BY <1>1, <1>2 DEF Places
<1>4. \A d \in Records \ {e} : Places(r, h, n + 1, d) = Places(q, h, n, d)
  BY <1>1, <1>2 DEF Places
<1>5. n \notin Places(q, h, n, e)
  BY <1>2 DEF Places
<1>6. Cardinality(Places(q, h, n, e) \cup {n}) = Cardinality(Places(q, h, n, e)) + 1
  BY <1>0, <1>5, PlacesAreFinite, FS_AddElement
<1> QED
  BY <1>1, <1>3, <1>4, <1>6

(* find_queued: those before the one it pulls move up, so that the places  *)
(* from the next slot on hold the others in their order.                   *)
LEMMA OneOut ==
  ASSUME Q!QueueConstants, Q!TypeOK, NEW i \in 0..queue_count - 1, Q!Pulled(i)
  PROVE  /\ queue' \in [Q!Slots -> Records \cup {NoEvent}]
         /\ queue_head' \in Q!Slots /\ queue_count' = queue_count - 1
         /\ \A j \in 0..queue_count - 2 :
              queue'[Slot(queue_head', j)] =
                queue[Slot(queue_head, IF j < i THEN j ELSE j + 1)]
<1>0. /\ QUEUE_SIZE \in Nat \ {0} /\ queue_count \in 0..QUEUE_SIZE
      /\ queue_head \in Q!Slots /\ queue \in [Q!Slots -> Records \cup {NoEvent}]
  BY DEF Q!TypeOK, Q!QueueConstants
<1>1. queue_head' = Slot(queue_head, 1) /\ queue_count' = queue_count - 1
  BY DEF Q!Pulled, Slot
<1> DEFINE Moved(s) == \E k \in 1..i : s = Slot(queue_head, k)
           From(s) == CHOOSE k \in 1..i : s = Slot(queue_head, k)
<1>2. queue' = [s \in Q!Slots |-> IF Moved(s) THEN queue[Slot(queue_head, From(s) - 1)]
                                            ELSE queue[s]]
  BY DEF Q!Pulled, Q!At, Slot
<1>3. \A s \in Q!Slots : Moved(s) => From(s) \in 1..i /\ s = Slot(queue_head, From(s))
  OBVIOUS
<1> HIDE DEF From
<1>4. ASSUME NEW s \in Q!Slots, Moved(s)
      PROVE  Slot(queue_head, From(s) - 1) \in Q!Slots
  <2>1. From(s) - 1 \in 0..QUEUE_SIZE
    BY <1>0, <1>3, <1>4
  <2> QED
    BY <1>0, <2>1, SlotIs
<1>5. queue' \in [Q!Slots -> Records \cup {NoEvent}]
  <2> HIDE DEF Moved
  <2> QED
    BY <1>0, <1>2, <1>4
<1>6. queue_head' \in Q!Slots
  BY <1>0, <1>1, SlotAfterHead
<1>7. ASSUME NEW j \in 0..queue_count - 2
      PROVE  queue'[Slot(queue_head', j)] =
               queue[Slot(queue_head, IF j < i THEN j ELSE j + 1)]
  <2>1. j \in 0..QUEUE_SIZE - 1 /\ j + 1 \in 0..QUEUE_SIZE - 1 /\ j + 1 \in 0..QUEUE_SIZE
    BY <1>0
  <2> DEFINE s == Slot(queue_head, j + 1)
  <2>2. Slot(queue_head', j) = s /\ s \in Q!Slots
    BY <1>0, <1>1, <2>1, SlotAfterHead, SlotIs
  <2>3. \A k \in 1..i : s = Slot(queue_head, k) => k = j + 1
    <3>1. \A k \in 1..i : k \in 0..QUEUE_SIZE - 1
      BY <1>0
    <3> QED
      BY <1>0, <2>1, <3>1, SlotsDiffer
  <2>4. CASE j < i
    <3>1. j + 1 \in 1..i
      BY <2>4
    <3>2. Moved(s) /\ From(s) = j + 1
      BY <1>3, <2>2, <2>3, <3>1
    <3>3. queue'[s] = queue[Slot(queue_head, j)]
      <4>1. From(s) - 1 = j
        BY <2>1, <3>2
      <4> QED
        BY <1>2, <2>2, <3>2, <4>1
    <3> QED
      BY <2>2, <2>4, <3>3
  <2>5. CASE ~(j < i)
    <3>1. j + 1 \notin 1..i
      BY <2>5
    <3>2. ~Moved(s)
      BY <2>3, <3>1
    <3>3. queue'[s] = queue[s]
      BY <1>2, <2>2, <3>2
    <3> QED
      BY <2>2, <2>5, <3>3
  <2> QED
    BY <2>4, <2>5
<1> QED
  BY <1>1, <1>5, <1>6, <1>7

(* Without the place i, the others are as many.                            *)
LEMMA WithoutPlace ==
  ASSUME Q!QueueConstants, NEW n \in 1..QUEUE_SIZE, NEW i \in 0..n - 1,
         NEW q, NEW h, NEW r, NEW g,
         \A j \in 0..n - 2 : r[Slot(g, j)] = q[Slot(h, IF j < i THEN j ELSE j + 1)],
         NEW e
  PROVE  Cardinality(Places(r, g, n - 1, e)) =
           Cardinality(Places(q, h, n, e)) - (IF q[Slot(h, i)] = e THEN 1 ELSE 0)
<1> DEFINE new == Places(r, g, n - 1, e)
           old == Places(q, h, n, e)
           f == [j \in new |-> IF j < i THEN j ELSE j + 1]
<1>0. QUEUE_SIZE \in Nat \ {0} /\ n \in 0..QUEUE_SIZE /\ n - 1 \in 0..QUEUE_SIZE
  BY DEF Q!QueueConstants
<1>1. /\ \A j \in new : j \in 0..n - 2 /\ q[Slot(h, f[j])] = e
      /\ \A k \in old : k \in 0..n - 1 /\ q[Slot(h, k)] = e
  BY <1>0 DEF Places
<1>2. f \in [new -> old \ {i}]
  <2> SUFFICES ASSUME NEW j \in new PROVE f[j] \in old \ {i}
    OBVIOUS
  <2>1. f[j] \in 0..n - 1 /\ f[j] # i
    BY <1>0, <1>1
  <2> QED
    BY <1>1, <2>1 DEF Places
<1>3. \A j, k \in new : f[j] = f[k] => j = k
  BY <1>1
<1>4. \A k \in old \ {i} : \E j \in new : f[j] = k
  <2> TAKE k \in old \ {i}
  <2> DEFINE j == IF k < i THEN k ELSE k - 1
  <2>1. k \in 0..n - 1 /\ k # i /\ q[Slot(h, k)] = e
    BY <1>1
  <2>2. j \in 0..n - 2 /\ (IF j < i THEN j ELSE j + 1) = k
    BY <1>0, <2>1
  <2> HIDE DEF j
  <2>3. r[Slot(g, j)] = e
    BY <2>1, <2>2
  <2>4. j \in new
    BY <1>0, <2>2, <2>3 DEF Places
  <2> QED
    BY <2>2, <2>4
<1> HIDE DEF f, new, old
<1>5. f \in Bijection(new, old \ {i})
  BY <1>2, <1>3, <1>4, Fun_IsBij
<1>6. IsFiniteSet(new) /\ IsFiniteSet(old)
  BY <1>0, PlacesAreFinite DEF new, old
<1>7. Cardinality(old \ {i}) = Cardinality(new)
  BY <1>5, <1>6, FS_Bijection DEF ExistsBijection
<1>8. i \in old <=> q[Slot(h, i)] = e
  BY DEF old, Places
<1>9. Cardinality(old \ {i}) = IF i \in old THEN Cardinality(old) - 1 ELSE Cardinality(old)
  BY <1>6, FS_RemoveElement
<1>10. Cardinality(old) \in Nat
  BY <1>6, FS_CardinalityType
<1> QED
  BY <1>7, <1>8, <1>9, <1>10 DEF new, old

-----------------------------------------------------------------------------
(* Steps.                                                                  *)

(* CountsAreExact, of what is told: counts, a queue, and references.       *)
Exact(c, q, h, n, r) ==
  \A e \in Records : c[e] = Cardinality(Places(q, h, n, e)) + Cardinality(Tokens(r, e))

(* It says so of the variables,                                            *)
LEMMA CountsAre ==
  Q!CountsAreExact <=> Exact(rc, queue, queue_head, queue_count, refs)
BY SizeIs DEF Q!CountsAreExact, Exact, Q!InQueue, Q!Held, Places, Tokens, Q!At, Slot

(* and of what they become.                                                *)
LEMMA CountsBecome ==
  Exact(rc', queue', queue_head', queue_count', refs') => Q!CountsAreExact'
BY SizeIs DEF Q!CountsAreExact, Exact, Q!InQueue, Q!Held, Places, Tokens, Q!At, Slot

(* The queue as a sequence.                                                *)
LEMMA QueuedIs ==
  ASSUME Q!QueueConstants, Q!TypeOK, Pending
  PROVE  /\ Q!Queued \in Seq(Records) /\ Len(Q!Queued) = queue_count
         /\ \A i \in 1..queue_count : Q!Queued[i] = queue[Slot(queue_head, i - 1)]
<1>0. queue_count \in Nat
  BY DEF Q!TypeOK, Q!QueueConstants
<1>1. Q!Queued = [i \in 1..queue_count |-> queue[Slot(queue_head, i - 1)]]
  BY DEF Q!Queued, Q!At, Slot
<1>2. \A i \in 1..queue_count : queue[Slot(queue_head, i - 1)] \in Records
  <2> TAKE i \in 1..queue_count
  <2>1. i - 1 \in 0..queue_count - 1
    BY <1>0
  <2> QED
    BY <2>1 DEF Pending, Q!At, Slot
<1> QED
  BY <1>0, <1>1, <1>2

(* A step after which the queue, as a ring and so as a sequence, is what   *)
(* it was.                                                                 *)
LEMMA QueueStays ==
  ASSUME UNCHANGED Q!ring
  PROVE  Q!QueueStep
<1>1. Q!Queued' = Q!Queued
  BY DEF Q!Queued, Q!At, Q!ring
<1> QED
  BY <1>1 DEF Q!QueueStep

(* What hle_post_event puts on the queue is behind it, and counted.        *)
LEMMA Posted ==
  ASSUME Q!QueueConstants, QueueInv, NEW e \in Records, Q!hle_post_event(e)
  PROVE  /\ Q!QueueStep
         /\ rc' \in [Records -> Nat]
         /\ queue' \in [Q!Slots -> Records \cup {NoEvent}]
         /\ queue_head' \in Q!Slots /\ queue_count' \in 0..QUEUE_SIZE
         /\ \A i \in 0..queue_count' - 1 : queue'[Slot(queue_head', i)] \in Records
         /\ Exact(rc', queue', queue_head', queue_count', refs)
<1>0. /\ QUEUE_SIZE \in Nat \ {0} /\ queue_count \in 0..QUEUE_SIZE
      /\ queue_head \in Q!Slots /\ queue \in [Q!Slots -> Records \cup {NoEvent}]
      /\ rc \in [Records -> Nat]
      /\ \A i \in 0..queue_count - 1 : queue[Slot(queue_head, i)] \in Records
      /\ Exact(rc, queue, queue_head, queue_count, refs)
  BY CountsAre DEF QueueInv, Q!TypeOK, Q!QueueConstants, Pending, Q!At, Slot
<1>1. CASE ~(queue_count < QUEUE_SIZE)
  <2>1. UNCHANGED <<rc, Q!ring>>
    BY <1>1 DEF Q!hle_post_event
  <2> QED
    BY <1>0, <2>1, QueueStays DEF Q!ring
<1>2. CASE queue_count < QUEUE_SIZE
  <2> DEFINE n == queue_count
             h == queue_head
  <2>1. /\ queue' = [queue EXCEPT ![Slot(h, n)] = e]
        /\ rc' = [rc EXCEPT ![e] = rc[e] + 1]
        /\ queue_count' = n + 1 /\ queue_head' = h
    BY <1>2 DEF Q!hle_post_event, Slot
  <2>2. n \in 0..QUEUE_SIZE - 1
    BY <1>0, <1>2
  <2>3. /\ queue' \in [Q!Slots -> Records \cup {NoEvent}]
        /\ queue'[Slot(h, n)] = e
        /\ \A i \in 0..n - 1 : queue'[Slot(h, i)] = queue[Slot(h, i)]
        /\ Cardinality(Places(queue', h, n + 1, e)) = Cardinality(Places(queue, h, n, e)) + 1
        /\ \A d \in Records \ {e} : Places(queue', h, n + 1, d) = Places(queue, h, n, d)
    <3>1. h \in Q!Slots /\ queue \in [Q!Slots -> Records \cup {NoEvent}] /\ Slot(h, n) \in Q!Slots
      BY <1>0, SlotIs
    <3> HIDE DEF h, n
    <3>2. /\ queue' \in [Q!Slots -> Records \cup {NoEvent}]
          /\ queue'[Slot(h, n)] = e
          /\ \A s \in Q!Slots \ {Slot(h, n)} : queue'[s] = queue[s]
      BY <2>1, <3>1
    <3> QED
      BY <2>2, <3>1, <3>2, OneBehind
  <2>4. \A i \in 0..queue_count' - 1 : queue'[Slot(queue_head', i)] \in Records
    <3>1. \A i \in 0..queue_count' - 1 : i \in 0..n - 1 \/ i = n
      BY <2>1, <2>2
    <3> QED
      BY <1>0, <2>1, <2>3, <3>1
  <2>5. rc' \in [Records -> Nat]
    BY <1>0, <2>1
  <2>6. Exact(rc', queue', queue_head', queue_count', refs)
    <3>1. ASSUME NEW d \in Records
          PROVE  rc'[d] = Cardinality(Places(queue', h, n + 1, d))
                            + Cardinality(Tokens(refs, d))
      <4>1. rc[d] = Cardinality(Places(queue, h, n, d)) + Cardinality(Tokens(refs, d))
        BY <1>0 DEF Exact
      <4>2. /\ Cardinality(Places(queue, h, n, d)) \in Nat
            /\ Cardinality(Tokens(refs, d)) \in Nat
        BY <1>0, PlacesAreFinite, TokensAreFinite
      <4>3. CASE d = e
        <5>1. rc'[d] = rc[d] + 1
          BY <1>0, <2>1, <4>3
        <5> QED
          BY <2>3, <4>1, <4>2, <4>3, <5>1
      <4>4. CASE d # e
        BY <1>0, <2>1, <2>3, <4>1, <4>4
      <4> QED
        BY <4>3, <4>4
    <3> QED
      BY <2>1, <3>1 DEF Exact
  <2>7. Q!QueueStep
    <3>1. /\ Q!Queued \in Seq(Records) /\ Len(Q!Queued) = n
          /\ \A i \in 1..n : Q!Queued[i] = queue[Slot(h, i - 1)]
      BY QueuedIs DEF QueueInv
    <3>2. Q!Queued' = [i \in 1..n + 1 |-> queue'[Slot(h, i - 1)]]
      BY <2>1 DEF Q!Queued, Q!At, Slot
    <3> DEFINE r == [i \in 1..n + 1 |-> queue'[Slot(h, i - 1)]]
    <3>3. \A i \in 1..n + 1 : r[i] \in Records
      <4> TAKE i \in 1..n + 1
      <4>1. i - 1 \in 0..queue_count' - 1
        BY <2>1, <2>2
      <4> QED
        BY <2>1, <2>4, <4>1
    <3>4. \A i \in 1..n : r[i] = Q!Queued[i]
      <4> TAKE i \in 1..n
      <4>1. i - 1 \in 0..n - 1 /\ i \in 1..n + 1
        BY <2>2
      <4> QED
        BY <2>3, <3>1, <4>1
    <3>5. r \in Seq(Records) /\ Len(r) = n + 1
      BY <2>2, <3>3
    <3> HIDE DEF r
    <3>6. Len(r) \in 1..QUEUE_SIZE
      BY <1>0, <2>2, <3>5
    <3>7. SubSeq(r, 1, Len(r) - 1) = Q!Queued
      <4>1. Len(r) - 1 = n /\ n \in Nat
        BY <2>2, <3>5
      <4>2. /\ SubSeq(r, 1, n) \in Seq(Records) /\ Len(SubSeq(r, 1, n)) = n
            /\ \A i \in 1..n : SubSeq(r, 1, n)[i] = r[i]
        BY <3>5, <4>1
      <4> HIDE DEF n
      <4>3. SubSeq(r, 1, n) = Q!Queued
        BY <3>1, <3>4, <4>1, <4>2
      <4> QED
        BY <4>1, <4>3
    <3> QED
      BY <3>2, <3>6, <3>7 DEF Q!QueueStep, r
  <2> QED
    BY <1>0, <2>1, <2>2, <2>3, <2>4, <2>5, <2>6, <2>7
<1> QED
  BY <1>0, <1>1, <1>2

(* A reference that is counted when a thread gets it,                      *)
LEMMA CountedUp ==
  ASSUME Q!QueueConstants, NEW c \in [Records -> Nat], NEW q, NEW h, NEW n \in 0..QUEUE_SIZE,
         NEW r \in [Threads -> [Records -> 0..MaxRefs]], Exact(c, q, h, n, r),
         NEW t \in Threads, NEW e \in Records, r[t][e] < MaxRefs
  PROVE  Exact([c EXCEPT ![e] = c[e] + 1], q, h, n, [r EXCEPT ![t][e] = r[t][e] + 1])
<1>0. PICK s : OneMoreIn(s, r, t, e)
  BY DEF OneMoreIn
<1>1. /\ Cardinality(Tokens(s, e)) = Cardinality(Tokens(r, e)) + 1
      /\ \A d \in Records \ {e} : Tokens(s, d) = Tokens(r, d)
  BY <1>0, OneMore
<1>2. \A d \in Records : /\ Cardinality(Places(q, h, n, d)) \in Nat
                        /\ Cardinality(Tokens(r, d)) \in Nat
                        /\ c[d] = Cardinality(Places(q, h, n, d)) + Cardinality(Tokens(r, d))
  BY PlacesAreFinite, TokensAreFinite DEF Exact
<1>3. \A d \in Records :
        [c EXCEPT ![e] = c[e] + 1][d] =
          Cardinality(Places(q, h, n, d)) + Cardinality(Tokens(s, d))
  BY <1>1, <1>2
<1> QED
  BY <1>0, <1>3 DEF Exact, OneMoreIn

(* and when it lets one go.                                                *)
LEMMA CountedDown ==
  ASSUME Q!QueueConstants, NEW c \in [Records -> Nat], NEW q, NEW h, NEW n \in 0..QUEUE_SIZE,
         NEW r \in [Threads -> [Records -> 0..MaxRefs]], Exact(c, q, h, n, r),
         NEW t \in Threads, NEW e \in Records, r[t][e] > 0
  PROVE  Exact([c EXCEPT ![e] = c[e] - 1], q, h, n, [r EXCEPT ![t][e] = r[t][e] - 1])
<1>0. PICK s : OneLessIn(s, r, t, e)
  BY DEF OneLessIn
<1>1. /\ Cardinality(Tokens(s, e)) = Cardinality(Tokens(r, e)) - 1
      /\ \A d \in Records \ {e} : Tokens(s, d) = Tokens(r, d)
  BY <1>0, OneLess
<1>2. \A d \in Records : /\ Cardinality(Places(q, h, n, d)) \in Nat
                        /\ Cardinality(Tokens(r, d)) \in Nat
                        /\ c[d] = Cardinality(Places(q, h, n, d)) + Cardinality(Tokens(r, d))
  BY PlacesAreFinite, TokensAreFinite DEF Exact
<1>3. \A d \in Records :
        [c EXCEPT ![e] = c[e] - 1][d] =
          Cardinality(Places(q, h, n, d)) + Cardinality(Tokens(s, d))
  BY <1>1, <1>2
<1> QED
  BY <1>0, <1>3 DEF Exact, OneLessIn

(* What has to hold after a step that leaves the ring alone.               *)
LEMMA RingStays ==
  ASSUME Q!QueueConstants, QueueInv, UNCHANGED Q!ring,
         rc' \in [Records -> Nat], kind' \in [Records -> Kinds],
         refs' \in [Threads -> [Records -> 0..MaxRefs]],
         releases' \in [Threads -> Records \cup {NoEvent}],
         \A t \in Threads : releases'[t] # NoEvent => refs'[t][releases'[t]] > 0,
         Exact(rc', queue, queue_head, queue_count, refs')
  PROVE  QueueInv'
<1>1. Q!CountsAreExact'
  BY CountsBecome DEF Q!ring
<1>2. Pending'
  BY DEF QueueInv, Pending, Q!At, Q!ring
<1>3. Q!TypeOK'
  BY DEF QueueInv, Q!TypeOK, Q!ring
<1> QED
  BY <1>1, <1>2, <1>3 DEF QueueInv

(* The threads' own references, and the releases they owe.                 *)
LEMMA InvFacts ==
  ASSUME Q!QueueConstants, QueueInv
  PROVE  /\ rc \in [Records -> Nat] /\ kind \in [Records -> Kinds]
         /\ queue_count \in 0..QUEUE_SIZE /\ MaxRefs \in Nat \ {0}
         /\ refs \in [Threads -> [Records -> 0..MaxRefs]]
         /\ releases \in [Threads -> Records \cup {NoEvent}]
         /\ \A t \in Threads : releases[t] # NoEvent =>
              releases[t] \in Records /\ refs[t][releases[t]] > 0
         /\ Exact(rc, queue, queue_head, queue_count, refs)
BY CountsAre DEF QueueInv, Q!TypeOK, Q!QueueConstants, Pending

(* CreateEvent and RetainEvent.                                            *)
LEMMA GetsOne ==
  ASSUME Q!QueueConstants, QueueInv, NEW t \in Threads, NEW e \in Records,
         Q!Idle(t), refs[t][e] < MaxRefs,
         rc' = [rc EXCEPT ![e] = rc[e] + 1],
         refs' = [refs EXCEPT ![t][e] = refs[t][e] + 1],
         kind' \in [Records -> Kinds], UNCHANGED <<Q!ring, releases>>
  PROVE  QueueInv'
<1>1. Exact(rc', queue, queue_head, queue_count, refs')
  BY InvFacts, CountedUp
<1>2. rc' \in [Records -> Nat]
  BY InvFacts
<1>3. refs' \in [Threads -> [Records -> 0..MaxRefs]]
  BY InvFacts, OneMore DEF OneMoreIn
<1>4. \A u \in Threads : releases'[u] # NoEvent => refs'[u][releases'[u]] > 0
  <2> SUFFICES ASSUME NEW u \in Threads, releases[u] # NoEvent
               PROVE  refs'[u][releases[u]] > 0
    OBVIOUS
  <2>1. u # t
    BY DEF Q!Idle
  <2>2. refs'[u] = refs[u]
    BY <2>1, InvFacts
  <2> QED
    BY <2>2, InvFacts
<1> QED
  BY <1>1, <1>2, <1>3, <1>4, InvFacts, RingStays

(* ReleaseEvent, and that of hle_post_event_owned.                         *)
LEMMA LosesOne ==
  ASSUME Q!QueueConstants, QueueInv, NEW t \in Threads, NEW e \in Records,
         refs[t][e] > 0,
         rc' = [rc EXCEPT ![e] = rc[e] - 1],
         refs' = [refs EXCEPT ![t][e] = refs[t][e] - 1],
         releases' = [releases EXCEPT ![t] = NoEvent], UNCHANGED <<Q!ring, kind>>
  PROVE  QueueInv'
<1>1. Exact(rc', queue, queue_head, queue_count, refs')
  BY InvFacts, CountedDown
<1>2. rc' \in [Records -> Nat]
  BY InvFacts, CountsIncludeMine
<1>3. refs' \in [Threads -> [Records -> 0..MaxRefs]]
  BY InvFacts, OneLess DEF OneLessIn
<1>4. \A u \in Threads : releases'[u] # NoEvent => refs'[u][releases'[u]] > 0
  <2> SUFFICES ASSUME NEW u \in Threads, releases'[u] # NoEvent
               PROVE  refs'[u][releases'[u]] > 0
    OBVIOUS
  <2>1. u # t /\ releases'[u] = releases[u]
    BY InvFacts
  <2>2. refs'[u] = refs[u]
    BY <2>1, InvFacts
  <2> QED
    BY <2>1, <2>2, InvFacts
<1>5. releases' \in [Threads -> Records \cup {NoEvent}]
  BY InvFacts
<1> QED
  BY <1>1, <1>2, <1>3, <1>4, <1>5, InvFacts, RingStays

(* Posts and hle_post_event_owned: what may be released later is counted.  *)
LEMMA PostsKeep ==
  ASSUME Q!QueueConstants, QueueInv, NEW t \in Threads, NEW e \in Records,
         refs[t][e] > 0, Q!hle_post_event(e), UNCHANGED <<kind, refs>>,
         releases' = releases \/ releases' = [releases EXCEPT ![t] = e]
  PROVE  QueueInv' /\ Q!QueueStep
<1>1. /\ Q!QueueStep
      /\ rc' \in [Records -> Nat]
      /\ queue' \in [Q!Slots -> Records \cup {NoEvent}]
      /\ queue_head' \in Q!Slots /\ queue_count' \in 0..QUEUE_SIZE
      /\ \A i \in 0..queue_count' - 1 : queue'[Slot(queue_head', i)] \in Records
      /\ Exact(rc', queue', queue_head', queue_count', refs)
  BY Posted
<1>2. \A u \in Threads : releases'[u] # NoEvent =>
        releases'[u] \in Records /\ refs[u][releases'[u]] > 0
  BY InvFacts
<1>3. releases' \in [Threads -> Records \cup {NoEvent}]
  BY InvFacts
<1>4. Q!TypeOK'
  BY <1>1, <1>3, InvFacts DEF Q!TypeOK
<1>5. Pending'
  BY <1>1, <1>2 DEF Pending, Q!At, Slot
<1>6. Q!CountsAreExact'
  BY <1>1, CountsBecome
<1> QED
  BY <1>1, <1>4, <1>5, <1>6 DEF QueueInv

(* find_queued: one reference changes hands, and the rest of the queue     *)
(* keeps its order.                                                        *)
LEMMA FindKeeps ==
  ASSUME Q!QueueConstants, QueueInv, NEW t \in Threads, NEW kinds \in SUBSET Kinds,
         Q!find_queued(t, kinds)
  PROVE  QueueInv' /\ Q!QueueStep
<1>1. PICK i \in Q!FirstMatch(kinds) :
        /\ refs[t][queue[Q!At(i)]] < MaxRefs
        /\ refs' = [refs EXCEPT ![t][queue[Q!At(i)]] = refs[t][queue[Q!At(i)]] + 1]
        /\ Q!Pulled(i)
  BY DEF Q!find_queued
<1>2. Q!Idle(t) /\ UNCHANGED <<rc, kind, releases>>
  BY DEF Q!find_queued
<1>3. /\ i \in 0..queue_count - 1 /\ Q!matches(i, kinds)
      /\ \A j \in 0..i - 1 : ~Q!matches(j, kinds)
  BY DEF Q!FirstMatch
<1> DEFINE n == queue_count
           h == queue_head
<1>4. /\ QUEUE_SIZE \in Nat \ {0} /\ n \in 1..QUEUE_SIZE
      /\ \A j \in 0..n - 1 : queue[Slot(h, j)] \in Records
  BY <1>3 DEF QueueInv, Q!TypeOK, Q!QueueConstants, Pending, Q!At, Slot
<1>5. PICK e \in Records : e = queue[Slot(h, i)]
  BY <1>3, <1>4
<1>6. e = queue[Q!At(i)]
  BY <1>5 DEF Q!At, Slot
<1>7. /\ queue' \in [Q!Slots -> Records \cup {NoEvent}]
      /\ queue_head' \in Q!Slots /\ queue_count' = n - 1
      /\ \A j \in 0..n - 2 :
           queue'[Slot(queue_head', j)] = queue[Slot(h, IF j < i THEN j ELSE j + 1)]
  BY <1>1, <1>3, OneOut DEF QueueInv
<1>8. /\ refs[t][e] < MaxRefs
      /\ refs' = [refs EXCEPT ![t][e] = refs[t][e] + 1]
  BY <1>1, <1>6
<1>9. refs' \in [Threads -> [Records -> 0..MaxRefs]]
  BY <1>8, InvFacts, OneMore DEF OneMoreIn
<1>10. \A j \in 0..n - 2 : queue'[Slot(queue_head', j)] \in Records
  <2> TAKE j \in 0..n - 2
  <2>1. (IF j < i THEN j ELSE j + 1) \in 0..n - 1
    BY <1>3, <1>4
  <2> QED
    BY <1>4, <1>7, <2>1
<1> HIDE DEF n, h
<1>11. Exact(rc', queue', queue_head', queue_count', refs')
  <2> DEFINE Gone(d) == IF queue[Slot(h, i)] = d THEN 1 ELSE 0
  <2>1. ASSUME NEW d \in Records
        PROVE  Cardinality(Places(queue', queue_head', n - 1, d)) =
                 Cardinality(Places(queue, h, n, d)) - Gone(d)
    <3>1. i \in 0..n - 1
      BY <1>3 DEF n
    <3> QED
      BY <1>4, <1>7, <3>1, WithoutPlace
  <2>2. \A d \in Records : /\ Cardinality(Places(queue, h, n, d)) \in Nat
                          /\ Cardinality(Tokens(refs, d)) \in Nat
    <3>1. n \in 0..QUEUE_SIZE
      BY <1>4
    <3> QED
      BY <3>1, PlacesAreFinite, TokensAreFinite
  <2>3. \A d \in Records :
          Cardinality(Tokens(refs', d)) = Cardinality(Tokens(refs, d)) + Gone(d)
    <3>1. /\ Cardinality(Tokens(refs', e)) = Cardinality(Tokens(refs, e)) + 1
          /\ \A d \in Records \ {e} : Tokens(refs', d) = Tokens(refs, d)
      <4>1. refs \in [Threads -> [Records -> 0..MaxRefs]]
        BY InvFacts
      <4>2. PICK s : s = refs'
        OBVIOUS
      <4>3. OneMoreIn(s, refs, t, e) /\ refs[t][e] < MaxRefs
        BY <1>8, <4>2 DEF OneMoreIn
      <4> HIDE DEF Gone
      <4>4. /\ Cardinality(Tokens(s, e)) = Cardinality(Tokens(refs, e)) + 1
            /\ \A d \in Records \ {e} : Tokens(s, d) = Tokens(refs, d)
        BY <4>1, <4>3, OneMore
      <4> QED
        BY <4>2, <4>4
    <3> QED
      BY <1>5, <2>2, <3>1
  <2>4. \A d \in Records :
          rc[d] = Cardinality(Places(queue, h, n, d)) + Cardinality(Tokens(refs, d))
    BY InvFacts DEF Exact, n, h
  <2>5. \A d \in Records : Gone(d) \in 0..1
    OBVIOUS
  <2> HIDE DEF Gone
  <2>6. \A d \in Records :
          rc[d] = Cardinality(Places(queue', queue_head', n - 1, d))
                    + Cardinality(Tokens(refs', d))
    BY <2>1, <2>2, <2>3, <2>4, <2>5
  <2> QED
    BY <1>2, <1>7, <2>6 DEF Exact
<1>12. QueueInv'
  <2>1. queue_count' \in 0..QUEUE_SIZE /\ 0..queue_count' - 1 = 0..n - 2
    BY <1>4, <1>7
  <2>2. Q!TypeOK'
    BY <1>2, <1>7, <1>9, <2>1, InvFacts DEF Q!TypeOK
  <2>3. \A u \in Threads : releases[u] # NoEvent => refs'[u] = refs[u]
    BY <1>2, <1>8, InvFacts DEF Q!Idle
  <2>4. \A j \in 0..queue_count' - 1 : queue'[Slot(queue_head', j)] \in Records
    BY <1>10, <2>1
  <2>5. Pending'
    BY <1>2, <2>3, <2>4, InvFacts DEF Pending, Q!At, Slot
  <2> QED
    BY <1>11, <2>2, <2>5, CountsBecome DEF QueueInv
<1>13. Q!QueueStep
  <2>1. /\ Q!Queued \in Seq(Records) /\ Len(Q!Queued) = n
        /\ \A j \in 1..n : Q!Queued[j] = queue[Slot(h, j - 1)]
    BY QueuedIs DEF QueueInv, n, h
  <2> DEFINE r == [j \in 1..n - 1 |-> queue'[Slot(queue_head', j - 1)]]
  <2>2. Q!Queued' = r
    BY <1>7 DEF Q!Queued, Q!At, Slot
  <2>3. \A j \in 1..n - 1 : r[j] = Q!Queued[IF j <= i THEN j ELSE j + 1]
    <3> TAKE j \in 1..n - 1
    <3>1. j - 1 \in 0..n - 2 /\ i \in 0..n - 1
      BY <1>3, <1>4 DEF n
    <3>2. r[j] = queue[Slot(h, IF j - 1 < i THEN j - 1 ELSE j - 1 + 1)]
      BY <1>7, <3>1
    <3>3. CASE j <= i
      <4>1. j - 1 < i /\ j \in 1..n
        BY <1>4, <3>1, <3>3
      <4> QED
        BY <2>1, <3>2, <3>3, <4>1
    <3>4. CASE ~(j <= i)
      <4>1. ~(j - 1 < i) /\ j + 1 \in 1..n /\ (j - 1) + 1 = (j + 1) - 1
        BY <1>4, <3>1, <3>4
      <4>2. r[j] = queue[Slot(h, (j + 1) - 1)]
        BY <3>2, <4>1
      <4> QED
        BY <2>1, <3>4, <4>1, <4>2
    <3> QED
      BY <3>3, <3>4
  <2>4. r = Q!Without(Q!Queued, i + 1)
    <3>1. i \in 0..n - 1 /\ n \in Nat /\ n >= 1
      BY <1>3, <1>4 DEF n
    <3>2. /\ SubSeq(Q!Queued, 1, i) \in Seq(Records) /\ Len(SubSeq(Q!Queued, 1, i)) = i
          /\ \A j \in 1..i : SubSeq(Q!Queued, 1, i)[j] = Q!Queued[j]
      BY <2>1, <3>1
    <3>3. /\ SubSeq(Q!Queued, i + 2, n) \in Seq(Records)
          /\ Len(SubSeq(Q!Queued, i + 2, n)) = n - 1 - i
          /\ \A j \in 1..n - 1 - i : SubSeq(Q!Queued, i + 2, n)[j] = Q!Queued[j + i + 1]
      BY <2>1, <3>1
    <3> DEFINE w == SubSeq(Q!Queued, 1, i) \o SubSeq(Q!Queued, i + 2, n)
    <3>4. /\ w \in Seq(Records) /\ Len(w) = n - 1
          /\ \A j \in 1..n - 1 : w[j] = IF j <= i THEN Q!Queued[j] ELSE Q!Queued[j + 1]
      BY <3>1, <3>2, <3>3
    <3>5. w = Q!Without(Q!Queued, i + 1)
      <4>1. (i + 1) - 1 = i /\ (i + 1) + 1 = i + 2
        BY <3>1
      <4> QED
        BY <2>1, <4>1 DEF Q!Without
    <3> HIDE DEF w, r
    <3>6. DOMAIN w = 1..n - 1 /\ w = [j \in 1..n - 1 |-> w[j]]
      BY <3>4
    <3>7. r = [j \in 1..n - 1 |-> r[j]]
      BY DEF r
    <3>8. \A j \in 1..n - 1 : r[j] = w[j]
      BY <2>3, <3>4
    <3> QED
      BY <3>5, <3>6, <3>7, <3>8
  <2>5. i + 1 \in DOMAIN Q!Queued /\ Q!Queued[i + 1] = e
    <3>1. i + 1 \in 1..n /\ (i + 1) - 1 = i
      BY <1>3, <1>4 DEF n
    <3> QED
      BY <1>5, <2>1, <3>1
  <2>6. refs'[t][e] = refs[t][e] + 1
    BY <1>8, InvFacts
  <2>7. \A j \in 1..(i + 1) - 1 : kind[Q!Queued[j]] # kind[Q!Queued[i + 1]]
    <3> TAKE j \in 1..(i + 1) - 1
    <3>1. j - 1 \in 0..i - 1 /\ j \in 1..n
      BY <1>3, <1>4 DEF n
    <3>2. ~Q!matches(j - 1, kinds)
      BY <1>3, <3>1
    <3>3. Q!Queued[j] = queue[Q!At(j - 1)]
      BY <2>1, <3>1 DEF Q!At, Slot, h
    <3> QED
      BY <1>3, <1>6, <2>5, <3>2, <3>3 DEF Q!matches
  <2>8. Q!Takes(Q!Queued, r)
    BY <2>4, <2>5, <2>6, <2>7 DEF Q!Takes
  <2> HIDE DEF r
  <2> QED
    BY <2>2, <2>8 DEF Q!QueueStep
<1> QED
  BY <1>12, <1>13

(* FlushEvents: every place in the queue held a reference.                 *)
LEMMA FlushKeeps ==
  ASSUME Q!QueueConstants, QueueInv, NEW t \in Threads, Q!FlushEvents(t)
  PROVE  QueueInv' /\ Q!QueueStep
<1>1. /\ rc' = [e \in Records |-> rc[e] - Q!InQueue(e)]
      /\ queue_head' = Slot(queue_head, queue_count) /\ queue_count' = 0
      /\ UNCHANGED <<queue, kind, refs, releases>>
  BY DEF Q!FlushEvents, Slot
<1>2. queue_head' \in Q!Slots
  BY <1>1, SlotIs DEF QueueInv, Q!TypeOK
<1>3. \A e \in Records :
        /\ Q!InQueue(e) = Cardinality(Places(queue, queue_head, queue_count, e))
        /\ Q!InQueue(e) \in Nat /\ Cardinality(Tokens(refs, e)) \in Nat
  <2> TAKE e \in Records
  <2>1. Q!InQueue(e) = Cardinality(Places(queue, queue_head, queue_count, e))
    BY SizeIs DEF Q!InQueue, Places, Q!At, Slot
  <2> QED
    BY <2>1, InvFacts, PlacesAreFinite, TokensAreFinite
<1>4. \A e \in Records : rc'[e] = Cardinality(Tokens(refs, e))
  <2> TAKE e \in Records
  <2>1. rc[e] = Q!InQueue(e) + Cardinality(Tokens(refs, e))
    BY <1>3, InvFacts DEF Exact
  <2> QED
    BY <1>1, <1>3, <2>1
<1>5. rc' \in [Records -> Nat]
  BY <1>1, <1>3, <1>4
<1>6. Exact(rc', queue', queue_head', queue_count', refs')
  <2>1. \A e \in Records : Places(queue', queue_head', queue_count', e) = {}
    BY <1>1 DEF Places
  <2>2. \A e \in Records :
          rc'[e] = Cardinality(Places(queue', queue_head', queue_count', e))
                     + Cardinality(Tokens(refs, e))
    BY <1>3, <1>4, <2>1, FS_EmptySet
  <2> QED
    BY <1>1, <2>2 DEF Exact
<1>7. QueueInv'
  <2>1. Q!TypeOK'
    BY <1>1, <1>2, <1>5, InvFacts DEF QueueInv, Q!TypeOK, Q!QueueConstants
  <2>2. Pending'
    BY <1>1 DEF QueueInv, Pending
  <2> QED
    BY <1>6, <2>1, <2>2, CountsBecome DEF QueueInv
<1>8. Q!QueueStep
  <2>1. Q!Queued' = <<>>
    BY <1>1 DEF Q!Queued
  <2> QED
    BY <1>1, <2>1 DEF Q!QueueStep
<1> QED
  BY <1>7, <1>8

-----------------------------------------------------------------------------
(* No event is allocated at first.                                         *)
LEMMA QueueStarts == Q!QueueConstants /\ Q!Init => QueueInv
<1> SUFFICES ASSUME Q!QueueConstants, Q!Init PROVE QueueInv
  OBVIOUS
<1>1. Q!TypeOK
  <2>1. 0 \in Q!Slots /\ 0 \in 0..QUEUE_SIZE /\ 0 \in 0..MaxRefs
    BY DEF Q!QueueConstants, Q!Slots
  <2>2. (CHOOSE k \in Kinds : TRUE) \in Kinds
    BY DEF Q!QueueConstants
  <2> QED
    BY <2>1, <2>2 DEF Q!Init, Q!TypeOK
<1>2. Pending
  BY DEF Q!Init, Pending
<1>3. Q!CountsAreExact
  <2> SUFFICES ASSUME NEW e \in Records PROVE rc[e] = Q!InQueue(e) + Cardinality(Q!Held(e))
    BY SizeIs DEF Q!CountsAreExact
  <2>1. {i \in 0..queue_count - 1 : queue[Q!At(i)] = e} = {}
    BY DEF Q!Init
  <2>2. Q!Held(e) = {}
    <3>1. \A x \in Threads \X (1..MaxRefs) : x[1] \in Threads /\ x[2] \in 1..MaxRefs
      OBVIOUS
    <3>2. \A u \in Threads : refs[u][e] = 0
      BY DEF Q!Init
    <3>3. \A x \in Threads \X (1..MaxRefs) : ~(x[2] <= refs[x[1]][e])
      BY <3>1, <3>2
    <3> QED
      BY <3>3 DEF Q!Held
  <2> QED
    BY <2>1, <2>2, FS_EmptySet, SizeIs DEF Q!Init, Q!InQueue
<1> QED
  BY <1>1, <1>2, <1>3 DEF QueueInv

(* Every step keeps the invariant, and the order of the queue.             *)
LEMMA QueueKept ==
  Q!QueueConstants /\ QueueInv /\ [Q!Next]_(Q!vars) => QueueInv' /\ [Q!QueueStep]_(Q!vars)
<1> SUFFICES ASSUME Q!QueueConstants, QueueInv, [Q!Next]_(Q!vars)
             PROVE  QueueInv' /\ Q!QueueStep
  OBVIOUS
<1>1. ASSUME NEW t \in Threads, NEW e \in Records, NEW k \in Kinds, Q!CreateEvent(t, e, k)
      PROVE  QueueInv' /\ Q!QueueStep
  <2>1. /\ Q!Idle(t) /\ rc[e] = 0
        /\ rc' = [rc EXCEPT ![e] = 1] /\ kind' = [kind EXCEPT ![e] = k]
        /\ refs' = [refs EXCEPT ![t][e] = 1] /\ UNCHANGED <<Q!ring, releases>>
    BY <1>1 DEF Q!CreateEvent
  <2>2. refs[t][e] = 0
    <3>1. refs[t][e] \in 0..MaxRefs /\ MaxRefs \in Nat
      BY InvFacts
    <3> QED
      BY <2>1, <3>1, CountsIncludeMine
  <2>3. /\ rc' = [rc EXCEPT ![e] = rc[e] + 1] /\ kind' \in [Records -> Kinds]
        /\ refs' = [refs EXCEPT ![t][e] = refs[t][e] + 1] /\ refs[t][e] < MaxRefs
    BY <2>1, <2>2, InvFacts
  <2> QED
    BY <2>1, <2>3, GetsOne, QueueStays
<1>2. ASSUME NEW t \in Threads, NEW e \in Records, Q!RetainEvent(t, e)
      PROVE  QueueInv' /\ Q!QueueStep
  <2>1. /\ Q!Idle(t) /\ refs[t][e] \in 1..MaxRefs - 1
        /\ rc' = [rc EXCEPT ![e] = rc[e] + 1]
        /\ refs' = [refs EXCEPT ![t][e] = refs[t][e] + 1]
        /\ UNCHANGED <<kind, Q!ring, releases>>
    BY <1>2 DEF Q!RetainEvent
  <2>2. refs[t][e] < MaxRefs
    BY <2>1, InvFacts
  <2> QED
    BY <2>1, <2>2, InvFacts, GetsOne, QueueStays
<1>3. ASSUME NEW t \in Threads, NEW e \in Records, Q!ReleaseEvent(t, e)
      PROVE  QueueInv' /\ Q!QueueStep
  <2>1. /\ releases[t] = NoEvent /\ refs[t][e] > 0
        /\ rc' = [rc EXCEPT ![e] = rc[e] - 1]
        /\ refs' = [refs EXCEPT ![t][e] = refs[t][e] - 1]
        /\ UNCHANGED <<kind, Q!ring, releases>>
    BY <1>3 DEF Q!ReleaseEvent, Q!Idle
  <2>2. releases' = [releases EXCEPT ![t] = NoEvent]
    BY <2>1, InvFacts
  <2> QED
    BY <2>1, <2>2, LosesOne, QueueStays
<1>4. ASSUME NEW t \in Threads, NEW e \in Records,
             Q!Posts(t, e) \/ Q!hle_post_event_owned(t, e)
      PROVE  QueueInv' /\ Q!QueueStep
  BY <1>4, PostsKeep DEF Q!Posts, Q!hle_post_event_owned
<1>5. ASSUME NEW t \in Threads, Q!ReleasesOwned(t) PROVE QueueInv' /\ Q!QueueStep
  <2>1. PICK e \in Records : e = releases[t] /\ refs[t][e] > 0
    BY <1>5, InvFacts DEF Q!ReleasesOwned
  <2>2. /\ rc' = [rc EXCEPT ![e] = rc[e] - 1]
        /\ refs' = [refs EXCEPT ![t][e] = refs[t][e] - 1]
        /\ releases' = [releases EXCEPT ![t] = NoEvent] /\ UNCHANGED <<kind, Q!ring>>
    BY <1>5, <2>1 DEF Q!ReleasesOwned
  <2> QED
    BY <2>1, <2>2, LosesOne, QueueStays
<1>6. ASSUME NEW t \in Threads, NEW kinds \in SUBSET Kinds, Q!find_queued(t, kinds)
      PROVE  QueueInv' /\ Q!QueueStep
  BY <1>6, FindKeeps
<1>7. ASSUME NEW t \in Threads, Q!FlushEvents(t) PROVE QueueInv' /\ Q!QueueStep
  BY <1>7, FlushKeeps
<1>8. CASE UNCHANGED Q!vars
  <2>1. UNCHANGED <<rc, kind, Q!ring, refs, releases>>
    BY <1>8 DEF Q!vars, Q!ring
  <2> QED
    BY <2>1, InvFacts, RingStays, QueueStays
<1> QED
  BY <1>1, <1>2, <1>3, <1>4, <1>5, <1>6, <1>7, <1>8 DEF Q!Next

(* What the parts of MCEvents do, each by itself, is a step of each or     *)
(* leaves it alone.                                                        *)
LEMMA PartSteps ==
  [PartNext]_partVars =>
    [Next]_vars /\ [Q!Next]_(Q!vars) /\ [I!Next]_(I!vars) /\ [W!Next]_(W!vars)
<1>1. UNCHANGED queueVars => UNCHANGED Q!vars
  BY DEF queueVars, Q!vars
<1>2. UNCHANGED inputVars => UNCHANGED I!vars
  BY DEF inputVars, I!vars, I!user, I!pointer
<1>3. UNCHANGED windowVars => UNCHANGED W!vars
  BY DEF windowVars, W!vars, W!windowVars
<1>4. PartNext =>
        [Next]_vars /\ [Q!Next]_(Q!vars) /\ [I!Next]_(I!vars) /\ [W!Next]_(W!vars)
  BY <1>1, <1>2, <1>3 DEF PartNext
<1>5. UNCHANGED partVars =>
        UNCHANGED vars /\ UNCHANGED Q!vars /\ UNCHANGED I!vars /\ UNCHANGED W!vars
  BY <1>1, <1>2, <1>3 DEF partVars
<1> QED
  BY <1>4, <1>5

(* An event's count is the number of references to it, of the queue and of *)
(* threads, however hle_post_event_owned's release and another thread's    *)
(* pull and release of the same event follow each other.                   *)
THEOREM EventsAreCounted == PartSpec => []CountsAreExact
<1>1. PartInit => QueueInv
  BY QueueHasRoom, QueueStarts DEF PartInit
<1>2. QueueInv /\ [PartNext]_partVars => QueueInv'
  BY QueueHasRoom, QueueKept, PartSteps
<1>3. QueueInv => CountsAreExact
  BY DEF QueueInv, CountsAreExact
<1> QED
  BY <1>1, <1>2, <1>3, PTL DEF PartSpec

(* Whatever is pulled out of the middle of the ring, its order is kept:    *)
(* events of one kind come out in the order they were posted.              *)
THEOREM EventsKeepTheirOrder == PartSpec => QueueKeepsOrder
<1>1. PartInit => QueueInv
  BY QueueHasRoom, QueueStarts DEF PartInit
<1>2. QueueInv /\ [PartNext]_partVars => QueueInv' /\ [Q!QueueStep]_(Q!vars)
  BY QueueHasRoom, QueueKept, PartSteps
<1> QED
  BY <1>1, <1>2, PTL DEF PartSpec, QueueKeepsOrder, Q!QueueKeepsOrder

(* The variables of the queue have their types, head and count of the ring *)
(* among them.                                                             *)
THEOREM QueueIsTyped == PartSpec => []Q!TypeOK
<1>1. PartInit => QueueInv
  BY QueueHasRoom, QueueStarts DEF PartInit
<1>2. QueueInv /\ [PartNext]_partVars => QueueInv'
  BY QueueHasRoom, QueueKept, PartSteps
<1>3. QueueInv => Q!TypeOK
  BY DEF QueueInv
<1> QED
  BY <1>1, <1>2, <1>3, PTL DEF PartSpec

-----------------------------------------------------------------------------
(* Input.                                                                  *)

(* What SDL queues, and what of it changes whether a code is down.         *)
SDLEvents == [type : {"down", "up"}, of : Inputs] \cup [type : {"lost"}, of : Windows]
Behind(r, s, e) == r = s \o <<e>>
Affects(e, c) == e.type = "lost" \/ Code[e.of] = c
Quiet(s, k, c) == \A j \in DOMAIN s : j > k => ~Affects(s[j], c)

(* The codes in d that stay down to the end of the queue s, and those that *)
(* go down in it for good, are among some.                                 *)
Left(s, d, among) ==
  /\ \A c \in d : Quiet(s, 0, c) => c \in among
  /\ \A k \in DOMAIN s :
       s[k].type = "down" /\ Quiet(s, k, Code[s[k].of]) => Code[s[k].of] \in among

(* The codes of what the user holds, as far as the game is to know.        *)
InHand == IF focus = NoWindow THEN {} ELSE {Code[i] : i \in pressed}

InputInv ==
  /\ sdl \in Seq(SDLEvents)
  /\ focus \in Windows \cup {NoWindow} /\ game_window \in Windows \cup {NoWindow}
  /\ pressed \subseteq Inputs
  /\ Unmapped \notin down
  /\ Left(sdl, down, InHand)
  /\ I!PointerIsFree

(* The codes among which they are, before and after an event e.            *)
Follows(e, before, after) ==
  /\ \A c \in before : Affects(e, c) \/ c \in after
  /\ e.type = "down" => Code[e.of] \in after

(* One more event.                                                         *)
LEMMA EndsBehind ==
  ASSUME NEW s \in Seq(SDLEvents), NEW d, NEW before, NEW after, NEW e \in SDLEvents,
         NEW r, Behind(r, s, e), Left(s, d, before), Follows(e, before, after)
  PROVE  /\ r \in Seq(SDLEvents) /\ Left(r, d, after)
         /\ \A k \in DOMAIN s : k \in DOMAIN r /\ r[k] = s[k]
         /\ \E k \in DOMAIN r : r[k] = e
<1> HIDE DEF SDLEvents
<1>1. /\ r \in Seq(SDLEvents) /\ Len(s) \in Nat
      /\ DOMAIN s = 1..Len(s) /\ DOMAIN r = 1..Len(s) + 1
      /\ \A k \in 1..Len(s) : r[k] = s[k]
      /\ r[Len(s) + 1] = e
  BY DEF Behind
<1>2. ASSUME NEW k \in 0..Len(s), NEW c, Quiet(r, k, c)
      PROVE  Quiet(s, k, c) /\ ~Affects(e, c)
  <2>1. Len(s) + 1 \in DOMAIN r /\ Len(s) + 1 > k
    BY <1>1
  <2>2. \A j \in DOMAIN s : j \in DOMAIN r /\ r[j] = s[j]
    BY <1>1
  <2> QED
    BY <1>1, <1>2, <2>1, <2>2 DEF Quiet
<1>3. ASSUME NEW c \in d, Quiet(r, 0, c)
      PROVE  c \in after
  <2>1. 0 \in 0..Len(s)
    BY <1>1
  <2> QED
    BY <1>2, <1>3, <2>1 DEF Left, Follows
<1>4. ASSUME NEW k \in DOMAIN r, r[k].type = "down", Quiet(r, k, Code[r[k].of])
      PROVE  Code[r[k].of] \in after
  <2>1. CASE k = Len(s) + 1
    BY <1>1, <1>4, <2>1 DEF Follows
  <2>2. CASE k # Len(s) + 1
    <3>1. k \in DOMAIN s /\ k \in 0..Len(s) /\ r[k] = s[k]
      BY <1>1, <2>2
    <3>2. Quiet(s, k, Code[s[k].of]) /\ ~Affects(e, Code[s[k].of])
      BY <1>2, <1>4, <3>1
    <3>3. Code[s[k].of] \in before
      BY <1>4, <3>1, <3>2 DEF Left
    <3> QED
      BY <3>1, <3>2, <3>3 DEF Follows
  <2> QED
    BY <2>1, <2>2
<1>5. Left(r, d, after)
  BY <1>3, <1>4 DEF Left
<1>6. \A k \in DOMAIN s : k \in DOMAIN r /\ r[k] = s[k]
  BY <1>1
<1>7. \E k \in DOMAIN r : r[k] = e
  BY <1>1
<1> QED
  BY <1>1, <1>5, <1>6, <1>7

(* One less.                                                               *)
LEMMA EndsAhead ==
  ASSUME NEW s \in Seq(SDLEvents), s # <<>>, NEW d, NEW rest, NEW among,
         Left(s, d, among),
         \A c \in rest : \/ c \in d /\ ~Affects(Head(s), c)
                         \/ Head(s).type = "down" /\ Code[Head(s).of] = c
  PROVE  /\ Tail(s) \in Seq(SDLEvents) /\ Head(s) \in SDLEvents
         /\ Left(Tail(s), rest, among)
         /\ \A k \in DOMAIN s : s[k] = Head(s) \/ \E j \in DOMAIN Tail(s) : s[k] = Tail(s)[j]
<1> DEFINE r == Tail(s)
<1> HIDE DEF SDLEvents
<1>1. /\ r \in Seq(SDLEvents) /\ Len(s) \in Nat \ {0} /\ Head(s) = s[1]
      /\ Head(s) \in SDLEvents
      /\ DOMAIN s = 1..Len(s) /\ DOMAIN r = 1..Len(s) - 1
      /\ \A k \in 1..Len(s) - 1 : r[k] = s[k + 1]
  OBVIOUS
<1> HIDE DEF r
<1>2. \A k \in DOMAIN s : k = 1 \/ (k - 1 \in DOMAIN r /\ r[k - 1] = s[k])
  <2> TAKE k \in DOMAIN s
  <2>1. k = 1 \/ k - 1 \in 1..Len(s) - 1
    BY <1>1
  <2>2. k \in Nat /\ (k - 1) + 1 = k
    BY <1>1
  <2>3. CASE k # 1
    <3>1. k - 1 \in 1..Len(s) - 1
      BY <2>1, <2>3
    <3>2. r[k - 1] = s[(k - 1) + 1]
      BY <1>1, <3>1
    <3> QED
      BY <1>1, <2>2, <3>1, <3>2
  <2>4. CASE k = 1
    BY <2>4
  <2> QED
    BY <2>3, <2>4
<1>3. ASSUME NEW k \in 0..Len(s) - 1, NEW c, Quiet(r, k, c)
      PROVE  Quiet(s, k + 1, c)
  <2> SUFFICES ASSUME NEW j \in DOMAIN s, j > k + 1
               PROVE  ~Affects(s[j], c)
    BY DEF Quiet
  <2>1. j # 1 /\ j - 1 > k
    BY <1>1
  <2> QED
    BY <1>2, <1>3, <2>1 DEF Quiet
<1>4. ASSUME NEW c \in rest, Quiet(r, 0, c)
      PROVE  c \in among
  <2>1. Quiet(s, 1, c)
    <3>1. 0 \in 0..Len(s) - 1 /\ 0 + 1 = 1
      BY <1>1
    <3> QED
      BY <1>3, <1>4, <3>1
  <2>2. CASE c \in d /\ ~Affects(Head(s), c)
    <3>1. \A j \in DOMAIN s : j > 0 => j = 1 \/ j > 1
      BY <1>1
    <3>2. Quiet(s, 0, c)
      BY <1>1, <2>1, <2>2, <3>1 DEF Quiet
    <3> QED
      BY <2>2, <3>2 DEF Left
  <2>3. CASE Head(s).type = "down" /\ Code[Head(s).of] = c
    <3>1. 1 \in DOMAIN s
      BY <1>1
    <3> QED
      BY <1>1, <2>1, <2>3, <3>1 DEF Left
  <2> QED
    BY <1>4, <2>2, <2>3
<1>5. ASSUME NEW k \in DOMAIN r, r[k].type = "down", Quiet(r, k, Code[r[k].of])
      PROVE  Code[r[k].of] \in among
  <2>1. k \in 0..Len(s) - 1 /\ k + 1 \in DOMAIN s /\ r[k] = s[k + 1]
    BY <1>1
  <2>2. Quiet(s, k + 1, Code[s[k + 1].of])
    BY <1>3, <1>5, <2>1
  <2> QED
    BY <1>5, <2>1, <2>2 DEF Left
<1>6. Left(r, rest, among)
  BY <1>4, <1>5 DEF Left
<1> QED
  BY <1>1, <1>2, <1>6 DEF r

(* A queue that is left alone.                                             *)
LEMMA EndsStill ==
  ASSUME NEW s, NEW d, NEW before, NEW after, Left(s, d, before), before \subseteq after
  PROVE  Left(s, d, after)
BY DEF Left

-----------------------------------------------------------------------------
(* A key or a button goes down, or repeats.                                *)
LEMMA PressKeeps ==
  ASSUME InputInv, NEW i \in Inputs, I!Presses(i)
  PROVE  InputInv'
<1> DEFINE e == I!KeyEvent(i, TRUE)
<1>1. e \in SDLEvents /\ e.type = "down" /\ e.of = i
  BY DEF I!KeyEvent, SDLEvents
<1>2. /\ sdl' = sdl \o <<e>> /\ pressed' = pressed \cup {i} /\ focus # NoWindow
      /\ UNCHANGED <<focus, down, game_window, relative>>
  BY DEF I!Presses, I!SDL_Queues, I!pointer
<1> HIDE DEF e
<1>3. InHand' = InHand \cup {Code[i]}
  BY <1>2 DEF InHand
<1>4. PICK after, r : after = InHand' /\ r = sdl'
  OBVIOUS
<1>5. /\ r \in Seq(SDLEvents) /\ Left(r, down, after)
      /\ \A k \in DOMAIN sdl : k \in DOMAIN r /\ r[k] = sdl[k]
  <2>1. sdl \in Seq(SDLEvents) /\ Left(sdl, down, InHand)
    BY DEF InputInv
  <2>2. Follows(e, InHand, after)
    BY <1>1, <1>3, <1>4 DEF Follows
  <2>4. Behind(r, sdl, e)
    BY <1>2, <1>4 DEF Behind
  <2> QED
    BY <1>1, <2>1, <2>2, <2>4, EndsBehind
<1>6. I!PointerIsFree'
  BY <1>2, <1>4, <1>5 DEF InputInv, I!PointerIsFree
<1>7. Left(sdl, down, InHand)'
  BY <1>2, <1>4, <1>5
<1> QED
  BY <1>2, <1>4, <1>5, <1>6, <1>7 DEF InputInv

(* One goes up, told while a window has the focus.                         *)
LEMMA ReleaseKeeps ==
  ASSUME InputInv, NEW i \in Inputs, I!Releases(i)
  PROVE  InputInv'
<1>1. /\ pressed' = pressed \ {i} /\ UNCHANGED <<focus, down, game_window, relative>>
  BY DEF I!Releases, I!pointer
<1>2. PICK after, r : after = InHand' /\ r = sdl'
  OBVIOUS
<1>3. CASE focus = NoWindow
  <2>1. sdl' = sdl
    BY <1>3 DEF I!Releases
  <2>2. after = {} /\ InHand = {}
    BY <1>1, <1>2, <1>3 DEF InHand
  <2>3. Left(sdl, down, InHand)'
    BY <1>1, <1>2, <2>1, <2>2 DEF InputInv
  <2>4. I!PointerIsFree'
    BY <1>1, <2>1 DEF InputInv, I!PointerIsFree
  <2> QED
    BY <1>1, <2>1, <2>3, <2>4 DEF InputInv
<1>4. CASE focus # NoWindow
  <2> DEFINE e == I!KeyEvent(i, FALSE)
  <2>1. e \in SDLEvents /\ e.type = "up" /\ e.of = i
    BY DEF I!KeyEvent, SDLEvents
  <2>2. sdl' = sdl \o <<e>>
    BY <1>4 DEF I!Releases, I!SDL_Queues
  <2> HIDE DEF e
  <2>3. Follows(e, InHand, after)
    BY <1>1, <1>2, <1>4, <2>1 DEF InHand, Affects, Follows
  <2>4. /\ r \in Seq(SDLEvents) /\ Left(r, down, after)
        /\ \A k \in DOMAIN sdl : k \in DOMAIN r /\ r[k] = sdl[k]
    <3>1. sdl \in Seq(SDLEvents) /\ Left(sdl, down, InHand)
      BY DEF InputInv
    <3>2. Behind(r, sdl, e)
      BY <1>2, <2>2 DEF Behind
    <3> QED
      BY <2>1, <2>3, <3>1, <3>2, EndsBehind
  <2>5. I!PointerIsFree'
    BY <1>1, <1>2, <2>4 DEF InputInv, I!PointerIsFree
  <2>6. Left(sdl, down, InHand)'
    BY <1>1, <1>2, <2>4
  <2> QED
    BY <1>1, <1>2, <2>4, <2>5, <2>6 DEF InputInv
<1> QED
  BY <1>3, <1>4

(* The focus goes, of itself or with the window.                           *)
LEMMA FocusGoes ==
  ASSUME InputInv, focus \in Windows, focus' \in Windows \cup {NoWindow},
         sdl' = sdl \o <<I!Lost(focus)>>,
         game_window' \in Windows \cup {NoWindow},
         UNCHANGED <<pressed, down>>, relative' => relative /\ game_window' # NoWindow
  PROVE  InputInv'
<1>0. PICK e : e = I!Lost(focus)
  OBVIOUS
<1>1. e \in SDLEvents /\ e.type = "lost"
  BY <1>0 DEF I!Lost, SDLEvents
<1>2. sdl' = sdl \o <<e>>
  BY <1>0
<1>3. PICK after, r : after = InHand' /\ r = sdl'
  OBVIOUS
<1>4. /\ r \in Seq(SDLEvents) /\ Left(r, down, after)
      /\ \E k \in DOMAIN r : r[k] = e
  <2>1. sdl \in Seq(SDLEvents) /\ Left(sdl, down, InHand)
    BY DEF InputInv
  <2>2. Follows(e, InHand, after)
    BY <1>1 DEF Affects, Follows
  <2>4. Behind(r, sdl, e)
    BY <1>2, <1>3 DEF Behind
  <2> QED
    BY <1>1, <2>1, <2>2, <2>4, EndsBehind
<1>5. I!PointerIsFree'
  BY <1>1, <1>3, <1>4 DEF I!PointerIsFree
<1>6. Left(sdl, down, InHand)'
  BY <1>3, <1>4
<1> QED
  BY <1>3, <1>4, <1>5, <1>6 DEF InputInv

(* The focus moves to another window, or out of the game.                  *)
LEMMA FocusKeeps ==
  ASSUME InputInv, NEW w \in Windows \cup {NoWindow}, I!FocusMoves(w)
  PROVE  InputInv'
<1>1. /\ focus' = w /\ UNCHANGED <<pressed, down, game_window, relative>>
  BY DEF I!FocusMoves, I!pointer
<1>2. CASE focus = NoWindow
  <2>1. sdl' = sdl /\ w # NoWindow
    BY <1>2 DEF I!FocusMoves
  <2>2. InHand = {}
    BY <1>2 DEF InHand
  <2>3. PICK after : after = InHand'
    OBVIOUS
  <2>4. Left(sdl, down, after)
    BY <2>2, EndsStill DEF InputInv
  <2>5. Left(sdl, down, InHand)'
    BY <1>1, <2>1, <2>3, <2>4
  <2>6. I!PointerIsFree'
    BY <1>1, <2>1 DEF InputInv, I!PointerIsFree
  <2> QED
    BY <1>1, <2>1, <2>5, <2>6 DEF InputInv
<1>3. CASE focus # NoWindow
  <2>1. sdl' = sdl \o <<I!Lost(focus)>>
    BY <1>3 DEF I!FocusMoves, I!SDL_Queues
  <2> QED
    BY <1>1, <1>3, <2>1, FocusGoes DEF InputInv, I!PointerIsFree
<1> QED
  BY <1>2, <1>3

(* The window goes, and with it the focus it had.                          *)
LEMMA DestroyKeeps ==
  ASSUME NoWindow \notin Windows, InputInv, NEW w \in Windows, I!hle_sdl_window_destroy(w)
  PROVE  InputInv'
<1>1. /\ UNCHANGED <<pressed, down>>
      /\ game_window' \in Windows \cup {NoWindow}
      /\ relative' => relative /\ game_window' # NoWindow
  BY DEF I!hle_sdl_window_destroy, InputInv, I!PointerIsFree
<1>2. CASE w = focus
  <2>1. sdl' = sdl \o <<I!Lost(focus)>> /\ focus' = NoWindow
    BY <1>2 DEF I!hle_sdl_window_destroy, I!SDL_Queues
  <2> QED
    BY <1>1, <1>2, <2>1, FocusGoes
<1>3. CASE w # focus
  <2>1. UNCHANGED <<focus, sdl>>
    BY <1>3 DEF I!hle_sdl_window_destroy
  <2>2. Left(sdl, down, InHand)'
    BY <1>1, <2>1 DEF InputInv, InHand
  <2>3. I!PointerIsFree'
    BY <1>1, <2>1 DEF InputInv, I!PointerIsFree
  <2> QED
    BY <1>1, <2>1, <2>2, <2>3 DEF InputInv
<1> QED
  BY <1>2, <1>3

(* Steps of the game and of the pump that leave the keys alone.            *)
LEMMA KeysStay ==
  ASSUME InputInv, UNCHANGED <<pressed, focus, sdl, down>>,
         game_window' \in Windows \cup {NoWindow}, I!PointerIsFree'
  PROVE  InputInv'
<1>1. Left(sdl, down, InHand)'
  BY DEF InputInv, InHand
<1> QED
  BY <1>1 DEF InputInv

(* An event reaches the maps.                                              *)
LEMMA HandleKeeps ==
  ASSUME InputInv, I!handle
  PROVE  InputInv'
<1> DEFINE e == Head(sdl)
<1>1. /\ sdl # <<>> /\ sdl' = Tail(sdl) /\ UNCHANGED <<pressed, focus, game_window>>
      /\ IF e.type = "lost"
         THEN relative' = FALSE /\ down' = {}
         ELSE down' = I!post_key(e) /\ UNCHANGED relative
  BY DEF I!handle, I!user, I!release_all_keys
<1> HIDE DEF e
<1>2. \A c \in down' : \/ c \in down /\ ~Affects(e, c)
                       \/ e.type = "down" /\ Code[e.of] = c
  <2>1. CASE e.type = "lost"
    BY <1>1, <2>1
  <2>2. CASE e.type # "lost"
    <3>1. down' = I!post_key(e)
      BY <1>1, <2>2
    <3> QED
      BY <2>2, <3>1 DEF I!post_key, I!hle_input_key, I!mac_key, Affects, InputInv
  <2> QED
    BY <2>1, <2>2
<1>3. PICK rest : rest = down'
  OBVIOUS
<1>4. /\ Tail(sdl) \in Seq(SDLEvents) /\ e \in SDLEvents
      /\ Left(Tail(sdl), rest, InHand)
      /\ \A k \in DOMAIN sdl : sdl[k] = e \/ \E j \in DOMAIN Tail(sdl) : sdl[k] = Tail(sdl)[j]
  BY <1>1, <1>2, <1>3, EndsAhead, SMTT(30) DEF InputInv, e
<1>5. Unmapped \notin down'
  <2>1. CASE e.type = "lost"
    BY <1>1, <2>1
  <2>2. CASE e.type # "lost"
    BY <1>1, <2>2 DEF I!post_key, I!hle_input_key, I!mac_key, InputInv
  <2> QED
    BY <2>1, <2>2
<1>6. I!PointerIsFree'
  BY <1>1, <1>4 DEF InputInv, I!PointerIsFree
<1>7. Left(sdl, down, InHand)'
  BY <1>1, <1>3, <1>4 DEF InHand
<1> QED
  BY <1>1, <1>4, <1>5, <1>6, <1>7 DEF InputInv

(* Any step.                                                               *)
LEMMA InputKept ==
  ASSUME NoWindow \notin Windows, InputInv, [I!Next]_(I!vars)
  PROVE  InputInv'
<1>1. ASSUME I!InitCursor \/ I!HideCursor \/ I!ShowCursor \/ I!hle_sdl_warp_mouse
             \/ I!pump_Returns \/ UNCHANGED I!vars
      PROVE  InputInv'
  <2>1. UNCHANGED <<pressed, focus, sdl, down, game_window, relative>>
    BY <1>1 DEF I!InitCursor, I!HideCursor, I!ShowCursor, I!hle_sdl_warp_mouse,
                I!pump_Returns, I!user, I!pointer, I!vars
  <2>2. I!PointerIsFree'
    BY <2>1 DEF InputInv, I!PointerIsFree
  <2> QED
    BY <2>1, <2>2, KeysStay DEF InputInv
<1>2. ASSUME NEW w \in Windows, I!hle_sdl_window_for(w)
      PROVE  InputInv'
  <2>1. UNCHANGED <<pressed, focus, sdl, down, relative>> /\ game_window' = w
    BY <1>2 DEF I!hle_sdl_window_for, I!user
  <2>2. I!PointerIsFree'
    BY <2>1 DEF InputInv, I!PointerIsFree
  <2> QED
    BY <2>1, <2>2, KeysStay
<1>3. ASSUME I!pump
      PROVE  InputInv'
  <2>1. /\ UNCHANGED <<pressed, focus, sdl, down, game_window>>
        /\ relative' = IF game_window = NoWindow THEN relative ELSE I!Held(focus = game_window)
    BY <1>3 DEF I!pump, I!user
  <2>2. I!PointerIsFree'
    <3>1. CASE game_window = NoWindow
      BY <2>1, <3>1 DEF InputInv, I!PointerIsFree
    <3>2. CASE game_window # NoWindow
      <4>1. relative' => focus = game_window
        BY <2>1, <3>2 DEF I!Held
      <4> QED
        BY <2>1, <3>2, <4>1 DEF I!PointerIsFree
    <3> QED
      BY <3>1, <3>2
  <2> QED
    BY <2>1, <2>2, KeysStay DEF InputInv
<1> QED
  BY <1>1, <1>2, <1>3, PressKeeps, ReleaseKeeps, FocusKeeps, DestroyKeeps, HandleKeeps DEF I!Next

(* A key or a button that the game reads as down once the queue is drained *)
(* is held by the user, and the pointer is held with the focus or until    *)
(* the game is told of its loss, however long the queue and whichever keys *)
(* share a code.                                                           *)
THEOREM InputIsTold == PartSpec => []InputIsTrue
<1>1. PartInit => InputInv
  BY DEF PartInit, I!Init, InputInv, I!PointerIsFree, Left
<1>2. InputInv => InputIsTrue
  <2>1. ASSUME InputInv, sdl = <<>>, NEW c \in down
        PROVE  focus # NoWindow /\ \E i \in pressed : Code[i] = c
    <3>1. Quiet(sdl, 0, c)
      BY <2>1 DEF Quiet
    <3> QED
      BY <2>1, <3>1 DEF InputInv, Left, InHand
  <2> QED
    BY <2>1 DEF InputIsTrue, I!InputIsTrue, I!NothingStuck, InputInv
<1>3. InputInv /\ [PartNext]_partVars => InputInv'
  BY NullIsNoWindow, InputKept, PartSteps
<1> QED
  BY <1>1, <1>2, <1>3, PTL DEF PartSpec
(* The variables of Input have their types: the cursor is hidden no more   *)
(* often than the game asked, so that its count stays within the bound.    *)
InputTyped == I!TypeOK /\ cursor_hidden <= hide_requests

LEMMA InputTypesKept ==
  ASSUME InputInv, InputTyped, [I!Next]_(I!vars), MaxHides \in Nat
  PROVE  InputTyped'
<1>1. /\ pressed \subseteq Inputs /\ down \subseteq {Code[i] : i \in Inputs} \ {Unmapped}
      /\ focus \in Windows \cup {NoWindow} /\ game_window \in Windows \cup {NoWindow}
      /\ cursor_hidden \in 0..MaxHides /\ hide_requests \in 0..MaxHides
      /\ warped \in BOOLEAN /\ relative \in BOOLEAN /\ pumping \in BOOLEAN
      /\ cursor_hidden <= hide_requests
  BY DEF InputTyped, I!TypeOK
<1> DEFINE Same == UNCHANGED <<cursor_hidden, hide_requests>>
<1>2. ASSUME Same, pressed' \subseteq Inputs,
             down' \subseteq {Code[i] : i \in Inputs} \ {Unmapped},
             focus' \in Windows \cup {NoWindow}, game_window' \in Windows \cup {NoWindow},
             warped' \in BOOLEAN, relative' \in BOOLEAN, pumping' \in BOOLEAN
      PROVE  InputTyped'
  BY <1>1, <1>2 DEF InputTyped, I!TypeOK
<1>3. ASSUME NEW i \in Inputs, I!Presses(i) \/ I!Releases(i)
      PROVE  InputTyped'
  BY <1>1, <1>2, <1>3 DEF I!Presses, I!Releases, I!pointer
<1>4. ASSUME NEW w \in Windows \cup {NoWindow}, I!FocusMoves(w)
      PROVE  InputTyped'
  BY <1>1, <1>2, <1>4 DEF I!FocusMoves, I!pointer
<1>5. ASSUME I!InitCursor \/ I!HideCursor \/ I!ShowCursor
      PROVE  InputTyped'
  <2>1. UNCHANGED <<pressed, focus, down, game_window, warped, relative, pumping>>
    BY <1>5 DEF I!InitCursor, I!HideCursor, I!ShowCursor, I!user
  <2>2. /\ cursor_hidden' \in 0..MaxHides /\ hide_requests' \in 0..MaxHides
        /\ cursor_hidden' <= hide_requests'
    BY <1>1, <1>5 DEF I!InitCursor, I!HideCursor, I!ShowCursor, I!Less
  <2> QED
    BY <1>1, <2>1, <2>2 DEF InputTyped, I!TypeOK
<1>6. ASSUME NEW w \in Windows, I!hle_sdl_window_for(w) \/ I!hle_sdl_window_destroy(w)
      PROVE  InputTyped'
  <2>1. /\ UNCHANGED <<pressed, down, cursor_hidden, hide_requests, warped, pumping>>
        /\ focus' \in {focus, NoWindow} /\ game_window' \in {game_window, w, NoWindow}
        /\ relative' \in {relative, FALSE}
    BY <1>6 DEF I!hle_sdl_window_for, I!hle_sdl_window_destroy, I!user
  <2> QED
    BY <1>1, <1>2, <2>1
<1>7. ASSUME I!pump \/ I!hle_sdl_warp_mouse \/ I!pump_Returns \/ UNCHANGED I!vars
      PROVE  InputTyped'
  <2>1. /\ UNCHANGED <<pressed, focus, down, game_window, cursor_hidden, hide_requests>>
        /\ warped' \in BOOLEAN /\ relative' \in BOOLEAN /\ pumping' \in BOOLEAN
    BY <1>1, <1>7 DEF I!pump, I!hle_sdl_warp_mouse, I!pump_Returns, I!Held, I!vars, I!user,
                      I!pointer
  <2> QED
    BY <1>1, <1>2, <2>1
<1>8. ASSUME I!handle
      PROVE  InputTyped'
  <2>1. sdl \in Seq(SDLEvents) /\ sdl # <<>> /\ Head(sdl) \in SDLEvents
    BY <1>8 DEF I!handle, InputInv
  <2>2. /\ UNCHANGED <<pressed, focus, game_window, cursor_hidden, hide_requests, pumping>>
        /\ warped' \in BOOLEAN /\ relative' \in BOOLEAN
        /\ IF Head(sdl).type = "lost" THEN down' = {} ELSE down' = I!post_key(Head(sdl))
    BY <1>1, <1>8 DEF I!handle, I!user, I!release_all_keys
  <2>3. Head(sdl).type # "lost" => Head(sdl).of \in Inputs
    BY <2>1 DEF SDLEvents
  <2>4. down' \subseteq {Code[i] : i \in Inputs} \ {Unmapped}
    BY <1>1, <2>2, <2>3 DEF I!post_key, I!mac_key, I!hle_input_key
  <2> QED
    BY <1>1, <1>2, <2>2, <2>4
<1> QED
  BY <1>3, <1>4, <1>5, <1>6, <1>7, <1>8 DEF I!Next

-----------------------------------------------------------------------------
(* Windows: lists without one of theirs.                                   *)

(* Numbers without one of them.                                            *)
Past(i, k) == IF i < k THEN i ELSE i + 1

(* They are all the others, each of them once.                             *)
LEMMA PastOne ==
  ASSUME NEW n \in Nat, NEW k \in 1..n
  PROVE  /\ \A i \in 1..n - 1 : Past(i, k) \in 1..n /\ Past(i, k) # k
         /\ \A i, j \in 1..n - 1 : Past(i, k) = Past(j, k) => i = j
         /\ \A i \in 1..n : i # k => \E j \in 1..n - 1 : Past(j, k) = i
<1>1. ASSUME NEW i \in 1..n, i # k
      PROVE  \E j \in 1..n - 1 : Past(j, k) = i
  <2>1. CASE i < k
    BY <2>1 DEF Past
  <2>2. CASE i > k
    <3>1. i - 1 \in 1..n - 1 /\ Past(i - 1, k) = i
      BY <2>2 DEF Past
    <3> QED
      BY <3>1
  <2> QED
    BY <1>1, <2>1, <2>2
<1> QED
  BY <1>1 DEF Past

(* r is s without its place k.                                             *)
TookOut(r, s, k) ==
  Len(r) = Len(s) - 1 /\ \A i \in 1..Len(s) - 1 : r[i] = s[Past(i, k)]

(* What is before a place of a list and what is behind it, joined.         *)
LEMMA Joined ==
  ASSUME NEW S, NEW s \in Seq(S), NEW k \in 1..Len(s)
  PROVE  LET r == SubSeq(s, 1, k - 1) \o SubSeq(s, k + 1, Len(s))
         IN r \in Seq(S) /\ TookOut(r, s, k)
<1> DEFINE a == SubSeq(s, 1, k - 1)
           b == SubSeq(s, k + 1, Len(s))
           r == a \o b
<1>1. PICK n \in Nat : n = Len(s) /\ k \in 1..n
  OBVIOUS
<1>2. \A i \in 1..n : s[i] \in S
  BY <1>1
<1>3. /\ a \in Seq(S) /\ Len(a) = k - 1
      /\ \A i \in 1..k - 1 : a[i] = s[i]
  BY <1>1
<1>4. /\ b \in Seq(S) /\ Len(b) = n - k
      /\ \A i \in 1..n - k : b[i] = s[i + k]
  BY <1>1
<1> HIDE DEF a, b
<1>5. a \in Seq(S) /\ b \in Seq(S)
  BY <1>3, <1>4
<1>6. /\ r \in Seq(S) /\ Len(r) = Len(a) + Len(b)
      /\ \A i \in 1..Len(a) + Len(b) :
           r[i] = IF i <= Len(a) THEN a[i] ELSE b[i - Len(a)]
  BY <1>5, ConcatProperties
<1> HIDE DEF r
<1>7. Len(r) = n - 1
  BY <1>1, <1>3, <1>4, <1>6
<1>8. ASSUME NEW i \in 1..n - 1
      PROVE  r[i] = s[Past(i, k)]
  <2>1. i \in 1..Len(a) + Len(b) /\ Len(a) = k - 1
    BY <1>1, <1>3, <1>4
  <2>2. r[i] = IF i <= k - 1 THEN a[i] ELSE b[i - (k - 1)]
    BY <1>6, <2>1
  <2>3. CASE i < k
    <3>1. i <= k - 1 /\ i \in 1..k - 1
      BY <1>1, <2>3
    <3> QED
      BY <1>3, <2>2, <2>3, <3>1 DEF Past
  <2>4. CASE ~(i < k)
    <3>1. i - (k - 1) \in 1..n - k /\ (i - (k - 1)) + k = i + 1 /\ ~(i <= k - 1)
      BY <1>1, <2>4
    <3> QED
      BY <1>4, <2>2, <2>4, <3>1 DEF Past
  <2> QED
    BY <2>3, <2>4
<1> QED
  BY <1>1, <1>6, <1>7, <1>8 DEF r, a, b, TookOut

(* A list that has nothing twice, without one of its places.               *)
LEMMA TakenOut ==
  ASSUME NEW S, NEW s \in Seq(S), NEW k \in 1..Len(s), W!IsInjective(s),
         NEW r \in Seq(S), TookOut(r, s, k)
  PROVE  W!IsInjective(r) /\ W!ToSet(r) = W!ToSet(s) \ {s[k]}
<1>n. PICK n \in Nat : n = Len(s) /\ k \in 1..n
  OBVIOUS
<1>1. /\ \A i \in 1..n - 1 : Past(i, k) \in 1..n /\ Past(i, k) # k
      /\ \A i, j \in 1..n - 1 : Past(i, k) = Past(j, k) => i = j
      /\ \A i \in 1..n : i # k => \E j \in 1..n - 1 : Past(j, k) = i
  BY <1>n, PastOne
<1>0. /\ k \in 1..n /\ DOMAIN s = 1..n /\ DOMAIN r = 1..n - 1
      /\ \A i \in 1..n - 1 : r[i] = s[Past(i, k)]
  BY <1>n DEF TookOut
<1>2. W!IsInjective(r)
  <2> SUFFICES ASSUME NEW i \in 1..n - 1, NEW j \in 1..n - 1, r[i] = r[j]
               PROVE  i = j
    BY <1>0 DEF W!IsInjective
  <2>1. Past(i, k) = Past(j, k)
    BY <1>0, <1>1 DEF W!IsInjective
  <2> QED
    BY <1>0, <1>1, <2>1
<1>3. \A x : x \in W!ToSet(r) => x \in W!ToSet(s) /\ x # s[k]
  <2> TAKE x
  <2> HAVE x \in W!ToSet(r)
  <2>1. PICK i \in 1..n - 1 : x = r[i]
    BY <1>0 DEF W!ToSet
  <2>2. x = s[Past(i, k)] /\ Past(i, k) \in 1..n /\ Past(i, k) # k
    BY <1>0, <1>1, <2>1
  <2> QED
    BY <1>0, <2>2 DEF W!ToSet, W!IsInjective
<1>4. \A x : x \in W!ToSet(s) /\ x # s[k] => x \in W!ToSet(r)
  <2> TAKE x
  <2> HAVE x \in W!ToSet(s) /\ x # s[k]
  <2>1. PICK i \in 1..n : x = s[i]
    BY <1>0 DEF W!ToSet
  <2>2. PICK j \in 1..n - 1 : Past(j, k) = i
    BY <1>0, <1>1, <2>1
  <2> QED
    BY <1>0, <2>1, <2>2 DEF W!ToSet
<1> QED
  BY <1>0, <1>2, <1>3, <1>4

(* RemoveFirst takes out the one place of what it removes.                 *)
LEMMA RemovesOne ==
  ASSUME NEW S, NEW s \in Seq(S), W!IsInjective(s), NEW e
  PROVE  /\ W!RemoveFirst(s, e) \in Seq(S) /\ W!IsInjective(W!RemoveFirst(s, e))
         /\ W!ToSet(W!RemoveFirst(s, e)) = W!ToSet(s) \ {e}
<1>1. DOMAIN s = 1..Len(s) /\ Len(s) \in Nat
  OBVIOUS
<1>2. CASE \E i \in 1..Len(s) : s[i] = e
  <2>1. PICK k \in 1..Len(s) : s[k] = e
    BY <1>2
  <2>2. {i \in 1..Len(s) : s[i] = e} = {k}
    BY <1>1, <2>1 DEF W!IsInjective
  <2>3. W!Min({k}) = k
    BY <1>1, <2>1 DEF W!Min
  <2>4. W!SelectInSeq(s, LAMBDA v : v = e) = k
    BY <2>2, <2>3 DEF W!SelectInSeq
  <2>5. W!RemoveFirst(s, e) = SubSeq(s, 1, k - 1) \o SubSeq(s, k + 1, Len(s))
    BY <1>2, <2>4 DEF W!RemoveFirst, W!RemoveAt
  <2>6. PICK r : r = W!RemoveFirst(s, e)
    OBVIOUS
  <2>7. r \in Seq(S) /\ TookOut(r, s, k)
    BY <2>5, <2>6, Joined
  <2>8. W!IsInjective(r) /\ W!ToSet(r) = W!ToSet(s) \ {s[k]}
    BY <2>7, TakenOut
  <2> QED
    BY <2>1, <2>6, <2>7, <2>8
<1>3. CASE ~\E i \in 1..Len(s) : s[i] = e
  <2>1. W!RemoveFirst(s, e) = s
    BY <1>3 DEF W!RemoveFirst
  <2>2. e \notin W!ToSet(s)
    BY <1>1, <1>3 DEF W!ToSet
  <2> QED
    BY <2>1, <2>2
<1> QED
  BY <1>2, <1>3

(* One is put behind a list that does not have it, or in front.            *)
LEMMA PutBehind ==
  ASSUME NEW S, NEW s \in Seq(S), W!IsInjective(s), NEW e \in S, e \notin W!ToSet(s)
  PROVE  /\ Append(s, e) \in Seq(S) /\ W!IsInjective(Append(s, e))
         /\ W!ToSet(Append(s, e)) = W!ToSet(s) \cup {e}
<1>1. /\ Len(s) \in Nat /\ DOMAIN s = 1..Len(s) /\ Append(s, e) \in Seq(S)
      /\ DOMAIN Append(s, e) = 1..Len(s) + 1
      /\ \A i \in 1..Len(s) : Append(s, e)[i] = s[i]
      /\ Append(s, e)[Len(s) + 1] = e
  OBVIOUS
<1>2. \A i \in 1..Len(s) + 1 : i \in 1..Len(s) \/ i = Len(s) + 1
  BY <1>1
<1>3. 1..Len(s) \subseteq 1..Len(s) + 1 /\ Len(s) + 1 \in 1..Len(s) + 1
  BY <1>1
<1> DEFINE r == Append(s, e)
<1> HIDE DEF r
<1>4. W!IsInjective(r)
  BY <1>1, <1>2 DEF W!IsInjective, W!ToSet, r
<1>5. W!ToSet(r) = W!ToSet(s) \cup {e}
  BY <1>1, <1>2, <1>3 DEF W!ToSet, r
<1> QED
  BY <1>1, <1>4, <1>5 DEF r

(* In front of it.                                                         *)
LEMMA PutInFront ==
  ASSUME NEW S, NEW s \in Seq(S), W!IsInjective(s), NEW e \in S, e \notin W!ToSet(s)
  PROVE  /\ <<e>> \o s \in Seq(S) /\ W!IsInjective(<<e>> \o s)
         /\ W!ToSet(<<e>> \o s) = W!ToSet(s) \cup {e}
<1> DEFINE r == <<e>> \o s
<1>1. /\ Len(s) \in Nat /\ DOMAIN s = 1..Len(s) /\ r \in Seq(S)
      /\ DOMAIN r = 1..Len(s) + 1
      /\ \A i \in 1..Len(s) : r[i + 1] = s[i]
      /\ r[1] = e
  OBVIOUS
<1>2. \A j \in 1..Len(s) + 1 : j = 1 \/ \E i \in 1..Len(s) : j = i + 1
  <2> TAKE j \in 1..Len(s) + 1
  <2>1. j # 1 => j - 1 \in 1..Len(s) /\ j = (j - 1) + 1
    BY <1>1
  <2> QED
    BY <2>1
<1>3. 1 \in 1..Len(s) + 1 /\ \A i \in 1..Len(s) : i + 1 \in 1..Len(s) + 1
  BY <1>1
<1> HIDE DEF r
<1>4. \A i \in 1..Len(s) : s[i] # e
  BY <1>1 DEF W!ToSet
<1>5. W!IsInjective(r)
  <2> SUFFICES ASSUME NEW i \in 1..Len(s) + 1, NEW j \in 1..Len(s) + 1, r[i] = r[j]
               PROVE  i = j
    BY <1>1 DEF W!IsInjective
  <2>1. CASE i = 1 \/ j = 1
    BY <1>1, <1>2, <1>4, <2>1
  <2>2. CASE i # 1 /\ j # 1
    <3>1. PICK m \in 1..Len(s), n \in 1..Len(s) : i = m + 1 /\ j = n + 1
      BY <1>2, <2>2
    <3>2. s[m] = s[n]
      BY <1>1, <3>1
    <3> QED
      BY <1>1, <3>1, <3>2 DEF W!IsInjective
  <2> QED
    BY <2>1, <2>2
<1>6. \A x : x \in W!ToSet(r) <=> x \in W!ToSet(s) \cup {e}
  <2>1. \A x : x \in W!ToSet(r) => x \in W!ToSet(s) \cup {e}
    BY <1>1, <1>2 DEF W!ToSet
  <2>2. \A x : x \in W!ToSet(s) => x \in W!ToSet(r)
    BY <1>1, <1>3 DEF W!ToSet
  <2>3. e \in W!ToSet(r)
    BY <1>1, <1>3 DEF W!ToSet
  <2> QED
    BY <2>1, <2>2, <2>3
<1> QED
  BY <1>1, <1>5, <1>6 DEF r

-----------------------------------------------------------------------------
(* Windows: the trees of controls.                                         *)
ViewRecords == [window : Windows \cup {NoWindow}, parent : Controls \cup {NoView},
                children : Seq(Controls), live : BOOLEAN]
Views == [Controls -> ViewRecords]
Kids(v) == [c \in Controls |-> W!ToSet(v[c].children)]
ClosedUnder(kids, s) == \A x \in s : kids[x] \subseteq s
Under(kids, c) ==
  {d \in Controls : \A s \in SUBSET Controls : c \in s /\ ClosedUnder(kids, s) => d \in s}

(* What a live control c, and what the root of a window w, have to be for  *)
(* the trees of v to be whole, with the roots rt of the windows ws.        *)
IsLinked(v, rt, c) ==
  /\ W!IsInjective(v[c].children)
  /\ \A d \in Controls : v[d].live => (d \in Kids(v)[c] <=> v[d].parent = c)
  /\ \A d \in Kids(v)[c] : v[d].live
  /\ v[c].parent # c /\ (v[c].parent # NoView => v[v[c].parent].live)
  /\ v[c].window # NoWindow =>
       rt[v[c].window] # NoView /\ c \in Under(Kids(v), rt[v[c].window])
IsRoot(v, rt, ws, w) ==
  /\ w \in ws /\ v[rt[w]].live /\ v[rt[w]].parent = NoView /\ v[rt[w]].window = w
  /\ \A c \in Under(Kids(v), rt[w]) : v[c].window \in {w, NoWindow}
Whole(v, rt, ws) ==
  /\ v \in Views /\ rt \in [Windows -> Controls \cup {NoView}]
  /\ \A c \in Controls : v[c].live => IsLinked(v, rt, c)
  /\ \A w \in Windows : rt[w] # NoView => IsRoot(v, rt, ws, w)

(* The children of controls are controls.                                  *)
LEMMA KidsAre ==
  ASSUME NEW v \in Views
  PROVE  /\ Kids(v) \in [Controls -> SUBSET Controls]
         /\ \A c \in Controls : Kids(v)[c] = W!ToSet(v[c].children)
<1>1. \A c \in Controls : v[c].children \in Seq(Controls)
  BY DEF Views, ViewRecords
<1>2. \A s \in Seq(Controls) : W!ToSet(s) \subseteq Controls
  BY DEF W!ToSet
<1> QED
  BY <1>1, <1>2 DEF Kids

(* What is under a control is the least set that has it and is closed.     *)
LEMMA UnderIsClosed ==
  ASSUME NEW kids \in [Controls -> SUBSET Controls], NEW c \in Controls
  PROVE  /\ c \in Under(kids, c) /\ Under(kids, c) \subseteq Controls
         /\ ClosedUnder(kids, Under(kids, c))
<1>1. ASSUME NEW x \in Under(kids, c), NEW d \in kids[x]
      PROVE  d \in Under(kids, c)
  <2>1. d \in Controls
    BY DEF Under
  <2>2. \A s \in SUBSET Controls : c \in s /\ ClosedUnder(kids, s) => d \in s
    BY DEF Under, ClosedUnder
  <2> QED
    BY <2>1, <2>2 DEF Under
<1> QED
  BY <1>1 DEF Under, ClosedUnder

(* Whatever has the control and is closed has all that is under it.        *)
LEMMA UnderIsLeast ==
  ASSUME NEW kids, NEW c \in Controls, NEW s \in SUBSET Controls,
         c \in s, ClosedUnder(kids, s)
  PROVE  Under(kids, c) \subseteq s
BY DEF Under

(* Whatever is under a control is a child of something there.              *)
LEMMA UnderSomething ==
  ASSUME NEW kids \in [Controls -> SUBSET Controls], NEW c \in Controls,
         NEW d \in Under(kids, c), d # c
  PROVE  \E x \in Under(kids, c) : d \in kids[x]
<1> SUFFICES ASSUME \A x \in Under(kids, c) : d \notin kids[x]
             PROVE  FALSE
  OBVIOUS
<1> DEFINE s == Under(kids, c) \ {d}
<1>1. c \in s /\ s \in SUBSET Controls
  BY UnderIsClosed
<1>2. ClosedUnder(kids, s)
  BY UnderIsClosed DEF ClosedUnder
<1>3. Under(kids, c) \subseteq s
  <2> HIDE DEF s
  <2> QED
    BY <1>1, <1>2, UnderIsLeast
<1> QED
  BY <1>3

(* Nothing that is not live is under what is.                              *)
LEMMA UnderIsLive ==
  ASSUME NEW v, NEW rt, NEW ws, Whole(v, rt, ws), NEW c \in Controls, v[c].live
  PROVE  \A d \in Under(Kids(v), c) : d \in Controls /\ v[d].live
<1> DEFINE s == {d \in Controls : v[d].live}
<1>1. c \in s /\ s \in SUBSET Controls
  OBVIOUS
<1>2. ClosedUnder(Kids(v), s)
  BY KidsAre DEF ClosedUnder, Whole, IsLinked
<1>3. Under(Kids(v), c) \subseteq s
  <2> HIDE DEF s
  <2> QED
    BY <1>1, <1>2, UnderIsLeast
<1> QED
  BY <1>3

(* Below, of Windows.                                                      *)
LEMMA BelowIsUnder ==
  ASSUME view \in Views
  PROVE  \A c \in Controls : W!Below(c) = Under(Kids(view), c)
<1>1. ASSUME NEW s \in SUBSET Controls
      PROVE  W!Closed(s) <=> ClosedUnder(Kids(view), s)
  <2>1. \A d \in s : Kids(view)[d] = W!ToSet(view[d].children)
    BY KidsAre
  <2> QED
    BY <2>1 DEF W!Closed, ClosedUnder
<1> QED
  BY <1>1 DEF W!Below, Under

(* A new control, as CreateScrollingTextBoxControl and the others make it. *)
IsNew(u, v, c, w, p) ==
  /\ \A d \in Controls : u[d].window = IF d = c THEN w ELSE v[d].window
  /\ \A d \in Controls : u[d].parent = IF d = c THEN p ELSE v[d].parent
  /\ \A d \in Controls : u[d].live = IF d = c THEN TRUE ELSE v[d].live
  /\ \A d \in Controls :
       u[d].children = IF d = c THEN <<>>
                       ELSE IF d = p THEN Append(v[d].children, c) ELSE v[d].children

(* New makes that control of one that was not there, and changes no other. *)
LEMMA NewIs ==
  ASSUME NEW v \in Views, NEW c \in Controls,
         NEW w \in Windows \cup {NoWindow}, NEW p \in Controls \cup {NoView},
         NEW u, u = W!New(v, c, w, p)
  PROVE  u \in Views /\ IsNew(u, v, c, w, p)
<1>1. \A d \in Controls : v[d] \in ViewRecords
  BY DEF Views
<1>2. ASSUME NEW d \in Controls
      PROVE  /\ u[d] \in ViewRecords
             /\ u[d].window = IF d = c THEN w ELSE v[d].window
             /\ u[d].parent = IF d = c THEN p ELSE v[d].parent
             /\ u[d].live = IF d = c THEN TRUE ELSE v[d].live
             /\ u[d].children = IF d = c THEN <<>>
                                ELSE IF d = p THEN Append(v[d].children, c) ELSE v[d].children
  <2>1. CASE d = c
    <3>1. u[d] = [window |-> w, parent |-> p, children |-> <<>>, live |-> TRUE]
      BY <2>1 DEF W!New
    <3> QED
      BY <2>1, <3>1 DEF ViewRecords
  <2>2. CASE d # c /\ d = p
    <3>1. u[d] = [v[d] EXCEPT !.children = Append(v[d].children, c)]
      BY <2>2 DEF W!New
    <3>2. v[d].children \in Seq(Controls)
      BY <1>1 DEF ViewRecords
    <3>3. Append(v[d].children, c) \in Seq(Controls)
      BY <3>2
    <3> QED
      BY <1>1, <2>2, <3>1, <3>3 DEF ViewRecords
  <2>3. CASE d # c /\ d # p
    <3>1. u[d] = v[d]
      BY <2>3 DEF W!New
    <3> QED
      BY <1>1, <2>3, <3>1
  <2> QED
    BY <2>1, <2>2, <2>3
<1>3. u \in Views
  BY <1>2 DEF Views, W!New
<1> QED
  BY <1>2, <1>3 DEF IsNew

(* In a tree, at the root of a window, or by itself, a control that was    *)
(* not live leaves the trees whole.                                        *)
LEMMA NewKeeps ==
  ASSUME NoView \notin Controls, NoWindow \notin Windows,
         NEW v, NEW rt, NEW ws, Whole(v, rt, ws), NEW c \in Controls, ~v[c].live,
         NEW w \in Windows \cup {NoWindow}, NEW p, NEW r,
         \/ w = NoWindow /\ p = NoView /\ r = rt
         \/ /\ w \in Windows \cap ws /\ rt[w] = NoView /\ p = NoView
            /\ r = [rt EXCEPT ![w] = c]
         \/ w \in Windows /\ rt[w] # NoView /\ p = rt[w] /\ r = rt
  PROVE  Whole(W!New(v, c, w, p), r, ws)
<1> PICK u : u = W!New(v, c, w, p)
  OBVIOUS
<1>1. /\ v \in Views /\ rt \in [Windows -> Controls \cup {NoView}]
      /\ r \in [Windows -> Controls \cup {NoView}]
  BY DEF Whole
<1>2. /\ p \in Controls \cup {NoView} /\ p # c
      /\ p # NoView => v[p].live /\ v[p].window = w /\ w \in Windows
  BY <1>1 DEF Whole, IsRoot
<1>t. \A d \in Controls : /\ v[d].window \in Windows \cup {NoWindow}
                          /\ v[d].parent \in Controls \cup {NoView}
                          /\ v[d].children \in Seq(Controls)
  BY <1>1 DEF Views, ViewRecords
<1>0. v \in Views /\ p \in Controls \cup {NoView}
  BY <1>1, <1>2
<1>3. u \in Views /\ IsNew(u, v, c, w, p)
  BY <1>0, NewIs
<1>u. u \in Views
  BY <1>3
<1>w. \A d \in Controls : u[d].window = IF d = c THEN w ELSE v[d].window
  BY <1>3 DEF IsNew
<1>p. \A d \in Controls : u[d].parent = IF d = c THEN p ELSE v[d].parent
  BY <1>3 DEF IsNew
<1>l. \A d \in Controls : u[d].live = IF d = c THEN TRUE ELSE v[d].live
  BY <1>3 DEF IsNew
<1>c. \A d \in Controls :
        u[d].children = IF d = c THEN <<>>
                        ELSE IF d = p THEN Append(v[d].children, c) ELSE v[d].children
  BY <1>3 DEF IsNew
<1>4. \A d \in Controls : v[d].live => c \notin Kids(v)[d]
  BY DEF Whole, IsLinked
<1>5. ASSUME NEW d \in Controls, v[d].live \/ d = c
      PROVE  /\ W!IsInjective(u[d].children)
             /\ Kids(u)[d] = IF d = c THEN {} ELSE IF d = p THEN Kids(v)[d] \cup {c} ELSE Kids(v)[d]
  <2>0. Kids(u)[d] = W!ToSet(u[d].children) /\ Kids(v)[d] = W!ToSet(v[d].children)
    BY <1>1, <1>u, KidsAre
  <2>1. CASE d = c
    <3>1. u[d].children = <<>>
      BY <1>c, <2>1
    <3>2. W!ToSet(<<>>) = {} /\ W!IsInjective(<<>>)
      BY DEF W!ToSet, W!IsInjective
    <3> QED
      BY <2>0, <2>1, <3>1, <3>2
  <2>2. CASE d # c
    <3>1. v[d].live /\ W!IsInjective(v[d].children) /\ c \notin W!ToSet(v[d].children)
      BY <1>4, <1>5, <2>0, <2>2 DEF Whole, IsLinked
    <3>2. v[d].children \in Seq(Controls)
      BY <1>t
    <3>3. /\ W!IsInjective(Append(v[d].children, c))
          /\ W!ToSet(Append(v[d].children, c)) = W!ToSet(v[d].children) \cup {c}
      BY <3>1, <3>2, PutBehind
    <3> QED
      BY <1>c, <2>0, <2>2, <3>1, <3>3
  <2> QED
    BY <2>1, <2>2
<1>6. Kids(v) \in [Controls -> SUBSET Controls] /\ Kids(u) \in [Controls -> SUBSET Controls]
  BY <1>1, <1>u, KidsAre
<1>7. ASSUME NEW x \in Controls, v[x].live
      PROVE  /\ Under(Kids(v), x) \subseteq Under(Kids(u), x)
             /\ Under(Kids(u), x) \subseteq Under(Kids(v), x) \cup {c}
             /\ c \in Under(Kids(u), x) => p \in Under(Kids(v), x)
  <2>1. \A d \in Under(Kids(v), x) : d \in Controls /\ v[d].live /\ d # c
    BY <1>7, UnderIsLive
  <2>2. Under(Kids(u), x) \subseteq Under(Kids(v), x) \cup {c}
    <3> DEFINE s == Under(Kids(v), x) \cup {c}
    <3>1. s \in SUBSET Controls /\ x \in s
      BY <1>6, UnderIsClosed
    <3>2. ClosedUnder(Kids(u), s)
      BY <1>5, <1>6, <2>1, UnderIsClosed DEF ClosedUnder
    <3> HIDE DEF s
    <3>3. Under(Kids(u), x) \subseteq s
      BY <3>1, <3>2, UnderIsLeast
    <3> QED
      BY <3>3 DEF s
  <2>3. Under(Kids(v), x) \subseteq Under(Kids(u), x)
    <3> DEFINE s == Under(Kids(u), x) \cap Under(Kids(v), x)
    <3>1. s \in SUBSET Controls /\ x \in s
      BY <1>6, UnderIsClosed
    <3>2. ClosedUnder(Kids(v), s)
      BY <1>5, <1>6, <2>1, UnderIsClosed DEF ClosedUnder
    <3> HIDE DEF s
    <3>3. Under(Kids(v), x) \subseteq s
      BY <3>1, <3>2, UnderIsLeast
    <3> QED
      BY <3>3 DEF s
  <2>4. ASSUME c \in Under(Kids(u), x)
        PROVE  p \in Under(Kids(v), x)
    <3>1. PICK y \in Under(Kids(u), x) : c \in Kids(u)[y]
      BY <1>6, <1>7, <2>4, UnderSomething
    <3>2. y \in Under(Kids(v), x) \/ y = c
      BY <2>2, <3>1
    <3>3. Kids(u)[c] = {}
      BY <1>5
    <3>4. y \in Under(Kids(v), x) /\ y # c
      BY <3>1, <3>2, <3>3
    <3>5. v[y].live /\ y \in Controls
      BY <2>1, <3>4
    <3> QED
      BY <1>4, <1>5, <3>1, <3>4, <3>5
  <2> QED
    BY <2>2, <2>3, <2>4
<1>8. ASSUME NEW d \in Controls, u[d].live
      PROVE  IsLinked(u, r, d)
  <2>1. v[d].live \/ d = c
    BY <1>l, <1>8
  <2>2. W!IsInjective(u[d].children)
    BY <1>5, <2>1
  <2>3. CASE d = c
    <3>1. \A e \in Controls : u[e].live => u[e].parent # c
      <4> SUFFICES ASSUME NEW e \in Controls, u[e].live, u[e].parent = c
                   PROVE  FALSE
        OBVIOUS
      <4>1. e # c /\ v[e].live /\ v[e].parent = c
        BY <1>2, <1>p, <1>l
      <4> QED
        BY <4>1 DEF Whole, IsLinked
    <3>2. Kids(u)[d] = {}
      BY <1>5, <2>3
    <3>3. u[d].parent # d /\ (u[d].parent # NoView => u[u[d].parent].live)
      BY <1>2, <1>p, <1>l, <2>3
    <3>4. ASSUME w # NoWindow
          PROVE  r[w] # NoView /\ d \in Under(Kids(u), r[w])
      <4>1. CASE p = NoView
        <5>1. r[w] = c
          BY <1>1, <3>4, <4>1
        <5> QED
          BY <1>6, <2>3, <5>1, UnderIsClosed
      <4>2. CASE p # NoView
        <5>1. r[w] = p /\ p \in Controls /\ v[p].live
          BY <1>1, <1>2, <3>4, <4>2
        <5>2. c \in Kids(u)[p] /\ p \in Under(Kids(u), p)
          BY <1>2, <1>5, <1>6, <5>1, UnderIsClosed
        <5>3. c \in Under(Kids(u), p)
          BY <1>6, <5>1, <5>2, UnderIsClosed DEF ClosedUnder
        <5> QED
          BY <2>3, <4>2, <5>1, <5>3
      <4> QED
        BY <4>1, <4>2
    <3>5. u[d].window = w
      BY <1>w, <2>3
    <3> QED
      BY <2>2, <2>3, <3>1, <3>2, <3>3, <3>4, <3>5 DEF IsLinked
  <2>4. CASE d # c
    <3>1. v[d].live /\ IsLinked(v, rt, d)
      BY <2>1, <2>4 DEF Whole
    <3>2. /\ u[d].window = v[d].window /\ u[d].parent = v[d].parent
          /\ Kids(u)[d] = IF d = p THEN Kids(v)[d] \cup {c} ELSE Kids(v)[d]
      BY <1>w, <1>p, <1>5, <2>4, <3>1
    <3>3. \A e \in Controls : u[e].live => (e \in Kids(u)[d] <=> u[e].parent = d)
      <4> SUFFICES ASSUME NEW e \in Controls, u[e].live
                   PROVE  e \in Kids(u)[d] <=> u[e].parent = d
        OBVIOUS
      <4>1. CASE e = c
        BY <1>p, <1>4, <3>1, <3>2, <4>1
      <4>2. CASE e # c
        <5>1. v[e].live /\ u[e].parent = v[e].parent
          BY <1>p, <1>l, <4>2
        <5>2. e \in Kids(v)[d] <=> v[e].parent = d
          BY <3>1, <5>1 DEF IsLinked
        <5>3. e \in Kids(u)[d] <=> e \in Kids(v)[d]
          BY <3>2, <4>2
        <5> QED
          BY <5>1, <5>2, <5>3
      <4> QED
        BY <4>1, <4>2
    <3>4. \A e \in Kids(u)[d] : u[e].live
      <4>1. \A e \in Kids(v)[d] : e \in Controls /\ v[e].live
        BY <1>6, <3>1 DEF IsLinked
      <4> QED
        BY <1>l, <3>2, <4>1
    <3>5. u[d].parent # d /\ (u[d].parent # NoView => u[u[d].parent].live)
      <4>1. v[d].parent \in Controls \cup {NoView}
        BY <1>t
      <4> QED
        BY <1>l, <3>1, <3>2, <4>1 DEF IsLinked
    <3>6. ASSUME v[d].window # NoWindow
          PROVE  r[v[d].window] # NoView /\ d \in Under(Kids(u), r[v[d].window])
      <4>1. v[d].window \in Windows
        BY <1>t, <3>6
      <4>2. rt[v[d].window] # NoView /\ d \in Under(Kids(v), rt[v[d].window])
        BY <3>1, <3>6 DEF IsLinked
      <4>3. r[v[d].window] = rt[v[d].window]
        BY <1>1, <4>1, <4>2
      <4>4. rt[v[d].window] \in Controls /\ v[rt[v[d].window]].live
        BY <1>1, <4>1, <4>2 DEF Whole, IsRoot
      <4> QED
        BY <1>7, <4>2, <4>3, <4>4
    <3> QED
      BY <2>2, <3>2, <3>3, <3>4, <3>5, <3>6 DEF IsLinked
  <2> QED
    BY <2>3, <2>4
<1>9. ASSUME NEW x \in Windows, r[x] # NoView
      PROVE  IsRoot(u, r, ws, x)
  <2>1. CASE rt[x] # NoView
    <3>1. /\ r[x] = rt[x] /\ IsRoot(v, rt, ws, x) /\ rt[x] \in Controls
          /\ v[rt[x]].live /\ rt[x] # c
      BY <1>1, <2>1 DEF Whole, IsRoot
    <3>2. ASSUME NEW d \in Under(Kids(u), r[x])
          PROVE  u[d].window \in {x, NoWindow}
      <4>1. d \in Under(Kids(v), rt[x]) \/ d = c
        BY <1>7, <3>1
      <4>2. CASE d = c
        <5>1. p \in Under(Kids(v), rt[x])
          BY <1>7, <3>1, <4>2
        <5>2. p # NoView
          BY <5>1 DEF Under
        <5>3. v[p].window = w /\ v[p].window \in {x, NoWindow}
          BY <1>2, <3>1, <5>1, <5>2 DEF IsRoot
        <5> QED
          BY <1>w, <4>2, <5>3
      <4>3. CASE d # c
        BY <1>w, <3>1, <4>1, <4>3 DEF IsRoot, Under
      <4> QED
        BY <4>2, <4>3
    <3> QED
      <4>0. PICK y \in Controls : y = rt[x] /\ y # c
        BY <3>1
      <4>2. v[y].window = x /\ v[y].parent = NoView /\ v[y].live
        BY <3>1, <4>0 DEF IsRoot
      <4>3. u[y].window = x /\ u[y].parent = NoView /\ u[y].live
        BY <1>w, <1>p, <1>l, <4>0, <4>2
      <4>1. u[r[x]].window = x /\ u[r[x]].parent = NoView /\ u[r[x]].live
        BY <3>1, <4>0, <4>3
      <4> QED
        BY <3>1, <3>2, <4>1 DEF IsRoot
  <2>2. CASE rt[x] = NoView
    <3>1. x = w /\ r[x] = c /\ p = NoView /\ x \in ws
      BY <1>1, <1>9, <2>2
    <3>2. ClosedUnder(Kids(u), {c})
      BY <1>5 DEF ClosedUnder
    <3>3. Under(Kids(u), c) \subseteq {c}
      BY <3>2, UnderIsLeast
    <3>4. u[c].window = x /\ u[c].parent = NoView /\ u[c].live
      BY <1>w, <1>p, <1>l, <3>1
    <3> QED
      BY <3>1, <3>3, <3>4 DEF IsRoot
  <2> QED
    BY <2>1, <2>2
<1> QED
  BY <1>1, <1>u, <1>8, <1>9 DEF Whole

(* A control that Unlinked takes from its parent.                          *)
IsUnlinked(u, v, c) ==
  /\ \A d \in Controls : u[d].window = v[d].window /\ u[d].live = v[d].live
  /\ \A d \in Controls : u[d].parent = IF d = c THEN NoView ELSE v[d].parent
  /\ \A d \in Controls : v[d].live =>
       W!IsInjective(u[d].children) /\ Kids(u)[d] = Kids(v)[d] \ {c}

(* Unlinked takes the control from the one list that has it.               *)
LEMMA UnlinkedIs ==
  ASSUME NEW v, NEW rt, NEW ws, Whole(v, rt, ws), NEW c \in Controls, v[c].live,
         NoView \notin Controls, NEW u, u = W!Unlinked(v, c)
  PROVE  u \in Views /\ IsUnlinked(u, v, c)
<1>0. v \in Views
  BY DEF Whole
<1>1. \A d \in Controls : v[d] \in ViewRecords
  BY <1>0 DEF Views
<1>2. ASSUME NEW d \in Controls
      PROVE  /\ u[d] \in ViewRecords
             /\ u[d].window = v[d].window /\ u[d].live = v[d].live
             /\ u[d].parent = IF d = c THEN NoView ELSE v[d].parent
             /\ u[d].children = IF d # c /\ d = v[c].parent
                                THEN W!RemoveFirst(v[d].children, c) ELSE v[d].children
  <2>1. CASE d = c
    <3>1. u[d] = [v[d] EXCEPT !.parent = NoView]
      BY <2>1 DEF W!Unlinked
    <3> QED
      BY <1>1, <2>1, <3>1 DEF ViewRecords
  <2>2. CASE d # c /\ d = v[c].parent
    <3>1. u[d] = [v[d] EXCEPT !.children = W!RemoveFirst(v[d].children, c)]
      BY <2>2 DEF W!Unlinked
    <3>2. v[d].children \in Seq(Controls)
      BY <1>1 DEF ViewRecords
    <3>3. W!IsInjective(v[d].children)
      <4>1. c \in Kids(v)[d] \/ ~v[d].live
        BY <2>2 DEF Whole, IsLinked
      <4>2. v[d].live
        <5>1. d # NoView
          OBVIOUS
        <5> QED
          BY <2>2, <5>1 DEF Whole, IsLinked
      <4> QED
        BY <4>2 DEF Whole, IsLinked
    <3>4. W!RemoveFirst(v[d].children, c) \in Seq(Controls)
      BY <3>2, <3>3, RemovesOne
    <3>5. PICK s \in Seq(Controls) : s = W!RemoveFirst(v[d].children, c)
      BY <3>4
    <3>6. u[d] = [v[d] EXCEPT !.children = s] /\ v[d] \in ViewRecords
      BY <1>1, <3>1, <3>5
    <3>7. /\ u[d] \in ViewRecords /\ u[d].children = s
          /\ u[d].window = v[d].window /\ u[d].live = v[d].live /\ u[d].parent = v[d].parent
      BY <3>6 DEF ViewRecords
    <3> QED
      BY <2>2, <3>5, <3>7
  <2>3. CASE d # c /\ d # v[c].parent
    <3>1. u[d] = v[d]
      BY <2>3 DEF W!Unlinked
    <3> QED
      BY <1>1, <2>3, <3>1
  <2> QED
    BY <2>1, <2>2, <2>3
<1>3. u \in Views
  BY <1>2 DEF Views, W!Unlinked
<1>4. ASSUME NEW d \in Controls, v[d].live
      PROVE  W!IsInjective(u[d].children) /\ Kids(u)[d] = Kids(v)[d] \ {c}
  <2>1. IsLinked(v, rt, d) /\ IsLinked(v, rt, c)
    BY <1>4 DEF Whole
  <2>2. /\ Kids(u)[d] = W!ToSet(u[d].children) /\ Kids(v)[d] = W!ToSet(v[d].children)
        /\ v[d].children \in Seq(Controls)
    BY <1>0, <1>1, <1>3, KidsAre DEF ViewRecords
  <2>3. c \in Kids(v)[d] <=> v[c].parent = d
    BY <2>1 DEF IsLinked
  <2>4. W!IsInjective(v[d].children) /\ v[c].parent # c
    BY <2>1 DEF IsLinked
  <2>5. CASE v[c].parent = d
    <3>1. u[d].children = W!RemoveFirst(v[d].children, c)
      BY <1>2, <2>4, <2>5
    <3> QED
      BY <2>2, <2>4, <3>1, RemovesOne
  <2>6. CASE v[c].parent # d
    <3>1. u[d].children = v[d].children
      BY <1>2, <2>6
    <3> QED
      BY <2>2, <2>3, <2>4, <2>6, <3>1
  <2> QED
    BY <2>5, <2>6
<1> QED
  BY <1>2, <1>3, <1>4 DEF IsUnlinked

(* What dispose_control leaves of the controls and of the roots.           *)
LEMMA DisposeKeeps ==
  ASSUME NoView \notin Controls, NoWindow \notin Windows,
         NEW v, NEW rt, NEW ws, Whole(v, rt, ws), NEW c \in Controls, v[c].live,
         NEW gone, gone = Under(Kids(v), c),
         NEW n, n = [d \in Controls |-> IF d \in gone THEN W!NoControl ELSE W!Unlinked(v, c)[d]],
         NEW r, r = [w \in Windows |-> IF rt[w] \in gone THEN NoView ELSE rt[w]]
  PROVE  Whole(n, r, ws)
<1>1. /\ v \in Views /\ rt \in [Windows -> Controls \cup {NoView}]
      /\ r \in [Windows -> Controls \cup {NoView}]
  BY DEF Whole
<1>t. \A d \in Controls : /\ v[d].window \in Windows \cup {NoWindow}
                          /\ v[d].parent \in Controls \cup {NoView}
  BY <1>1 DEF Views, ViewRecords
<1>2. PICK u : u = W!Unlinked(v, c)
  OBVIOUS
<1>3. u \in Views /\ IsUnlinked(u, v, c)
  BY <1>2, UnlinkedIs
<1>4. W!NoControl \in ViewRecords
  <2>1. <<>> \in Seq(Controls)
    OBVIOUS
  <2> QED
    BY <2>1 DEF W!NoControl, ViewRecords
<1>5. \A d \in Controls : n[d] = IF d \in gone THEN W!NoControl ELSE u[d]
  BY <1>2
<1>6. n \in Views
  <2>1. \A d \in Controls : n[d] \in ViewRecords
    BY <1>3, <1>4, <1>5 DEF Views
  <2> QED
    BY <2>1 DEF Views
<1>7. Kids(v) \in [Controls -> SUBSET Controls] /\ Kids(n) \in [Controls -> SUBSET Controls]
  BY <1>1, <1>6, KidsAre
<1>8. \A d \in gone : ~n[d].live /\ Kids(n)[d] = {} /\ n[d].window = NoWindow /\ d \in Controls
  <2>1. gone \subseteq Controls
    BY DEF Under
  <2>2. W!ToSet(<<>>) = {}
    BY DEF W!ToSet
  <2>3. \A d \in gone : n[d] = W!NoControl
    BY <1>5, <2>1
  <2>4. W!NoControl.children = <<>> /\ W!NoControl.live = FALSE /\ W!NoControl.window = NoWindow
    BY DEF W!NoControl
  <2>5. \A d \in Controls : Kids(n)[d] = W!ToSet(n[d].children)
    BY <1>6, KidsAre
  <2> QED
    BY <2>1, <2>2, <2>3, <2>4, <2>5
<1>9. \A d \in Controls \ gone : /\ n[d].window = v[d].window /\ n[d].live = v[d].live
                                /\ n[d].parent = v[d].parent
                                /\ n[d] = u[d]
  <2>1. c \in gone
    BY <1>7, UnderIsClosed
  <2> QED
    BY <1>3, <1>5, <2>1 DEF IsUnlinked
<1>10. \A d \in Controls \ gone : v[d].live =>
         W!IsInjective(n[d].children) /\ Kids(n)[d] = Kids(v)[d] \ {c}
  <2>1. \A d \in Controls \ gone : Kids(n)[d] = Kids(u)[d]
    BY <1>3, <1>6, <1>9, KidsAre
  <2> QED
    BY <1>3, <1>9, <2>1 DEF IsUnlinked
<1>11. ClosedUnder(Kids(v), gone) /\ c \in gone
  BY <1>7, UnderIsClosed
<1>12. \A d \in gone : d # c => v[d].parent \in gone /\ v[d].live
  <2> SUFFICES ASSUME NEW d \in gone, d # c
               PROVE  v[d].parent \in gone /\ v[d].live
    OBVIOUS
  <2>1. PICK x \in gone : d \in Kids(v)[x]
    BY <1>7, UnderSomething
  <2>2. x \in Controls /\ v[x].live /\ d \in Controls /\ v[d].live
    BY UnderIsLive
  <2>3. IsLinked(v, rt, x)
    BY <2>2 DEF Whole
  <2>4. v[d].parent = x
    BY <2>1, <2>2, <2>3 DEF IsLinked
  <2> QED
    BY <2>2, <2>4
(* What was under one that stays is under it, or goes.                     *)
<1>13. ASSUME NEW x \in Controls, v[x].live, x \notin gone
       PROVE  /\ Under(Kids(n), x) \subseteq Under(Kids(v), x)
              /\ Under(Kids(v), x) \subseteq Under(Kids(n), x) \cup gone
  <2>1. \A d \in Under(Kids(v), x) : d \in Controls /\ v[d].live
    BY <1>13, UnderIsLive
  <2>2. /\ x \in Under(Kids(v), x) /\ Under(Kids(v), x) \in SUBSET Controls
        /\ x \in Under(Kids(n), x) /\ Under(Kids(n), x) \in SUBSET Controls
        /\ ClosedUnder(Kids(v), Under(Kids(v), x)) /\ ClosedUnder(Kids(n), Under(Kids(n), x))
    BY <1>7, UnderIsClosed
  <2>3. Under(Kids(n), x) \subseteq Under(Kids(v), x)
    <3>1. ClosedUnder(Kids(n), Under(Kids(v), x))
      BY <1>8, <1>10, <2>1, <2>2 DEF ClosedUnder
    <3> QED
      BY <2>2, <3>1, UnderIsLeast
  <2>4. Under(Kids(v), x) \subseteq Under(Kids(n), x) \cup gone
    <3> DEFINE s == (Under(Kids(n), x) \cap Under(Kids(v), x)) \cup gone
    <3>1. s \in SUBSET Controls /\ x \in s
      BY <1>8, <2>2
    <3>2. ASSUME NEW d \in s
          PROVE  Kids(v)[d] \subseteq s
      <4>1. CASE d \in gone
        BY <1>11, <4>1 DEF ClosedUnder
      <4>2. CASE d \notin gone
        <5>1. d \in Under(Kids(n), x) /\ d \in Under(Kids(v), x) /\ d \in Controls \ gone
          BY <2>1, <4>2
        <5>2. Kids(n)[d] = Kids(v)[d] \ {c}
          BY <1>10, <2>1, <5>1
        <5> QED
          BY <1>11, <2>2, <5>1, <5>2 DEF ClosedUnder
      <4> QED
        BY <4>1, <4>2
    <3>3. ClosedUnder(Kids(v), s)
      BY <3>2 DEF ClosedUnder
    <3> HIDE DEF s
    <3>4. Under(Kids(v), x) \subseteq s
      BY <3>1, <3>3, UnderIsLeast
    <3> QED
      BY <3>4 DEF s
  <2> QED
    BY <2>3, <2>4
<1>14. ASSUME NEW x \in Windows, rt[x] # NoView
       PROVE  /\ rt[x] \in Controls /\ v[rt[x]].live /\ IsRoot(v, rt, ws, x)
              /\ r[x] = IF rt[x] \in gone THEN NoView ELSE rt[x]
              /\ rt[x] \in gone => \A d \in Under(Kids(v), rt[x]) : d \in gone
  <2>1. rt[x] \in Controls /\ v[rt[x]].live /\ IsRoot(v, rt, ws, x)
    BY <1>1, <1>14 DEF Whole, IsRoot
  <2>2. ASSUME rt[x] \in gone
        PROVE  Under(Kids(v), rt[x]) \subseteq gone
    <3>1. gone \in SUBSET Controls
      BY <1>8
    <3> QED
      BY <1>11, <2>1, <2>2, <3>1, UnderIsLeast
  <2> QED
    BY <2>1, <2>2
<1>15. ASSUME NEW d \in Controls, n[d].live
       PROVE  IsLinked(n, r, d)
  <2>1. d \notin gone /\ v[d].live /\ IsLinked(v, rt, d)
    BY <1>8, <1>9, <1>15 DEF Whole
  <2>2. W!IsInjective(n[d].children) /\ Kids(n)[d] = Kids(v)[d] \ {c}
    BY <1>10, <2>1
  <2>3. n[d].window = v[d].window /\ n[d].parent = v[d].parent
    BY <1>9, <2>1
  <2>4. \A e \in Controls : n[e].live => (e \in Kids(n)[d] <=> n[e].parent = d)
    <3> SUFFICES ASSUME NEW e \in Controls, n[e].live
                 PROVE  e \in Kids(n)[d] <=> n[e].parent = d
      OBVIOUS
    <3>1. e \notin gone /\ v[e].live /\ n[e].parent = v[e].parent /\ e # c
      BY <1>8, <1>9, <1>11
    <3>2. e \in Kids(v)[d] <=> v[e].parent = d
      BY <2>1, <3>1 DEF IsLinked
    <3> QED
      BY <2>2, <3>1, <3>2
  <2>5. \A e \in Kids(n)[d] : n[e].live
    <3> SUFFICES ASSUME NEW e \in Kids(n)[d]
                 PROVE  n[e].live
      OBVIOUS
    <3>1. e \in Kids(v)[d] /\ e # c /\ e \in Controls /\ v[e].live
      BY <1>7, <2>1, <2>2 DEF IsLinked
    <3>2. v[e].parent = d
      BY <2>1, <3>1 DEF IsLinked
    <3>3. e \notin gone
      BY <1>12, <2>1, <3>1, <3>2
    <3> QED
      BY <1>9, <3>1, <3>3
  <2>6. n[d].parent # d /\ (n[d].parent # NoView => n[n[d].parent].live)
    <3>1. v[d].parent # d
      BY <2>1 DEF IsLinked
    <3>2. ASSUME v[d].parent # NoView
          PROVE  n[v[d].parent].live
      <4>1. PICK p \in Controls : p = v[d].parent
        BY <1>t, <3>2
      <4>2. v[p].live
        BY <2>1, <3>2, <4>1 DEF IsLinked
      <4>3. d \in Kids(v)[p]
        BY <2>1, <4>1, <4>2 DEF Whole, IsLinked
      <4>4. p \notin gone
        BY <1>11, <2>1, <4>3 DEF ClosedUnder
      <4> QED
        BY <1>9, <4>1, <4>2, <4>4
    <3> QED
      BY <2>3, <3>1, <3>2
  <2>7. ASSUME v[d].window # NoWindow
        PROVE  r[v[d].window] # NoView /\ d \in Under(Kids(n), r[v[d].window])
    <3>1. PICK x \in Windows : x = v[d].window
      BY <1>t, <2>7
    <3>2. rt[x] # NoView /\ d \in Under(Kids(v), rt[x])
      BY <2>1, <2>7, <3>1 DEF IsLinked
    <3>3. rt[x] \notin gone
      BY <1>14, <2>1, <3>2
    <3>4. r[x] = rt[x] /\ rt[x] \in Controls /\ v[rt[x]].live
      BY <1>14, <3>2, <3>3
    <3>5. d \in Under(Kids(n), rt[x])
      BY <1>13, <2>1, <3>2, <3>3, <3>4
    <3> QED
      BY <3>1, <3>2, <3>4, <3>5
  <2> QED
    BY <2>2, <2>3, <2>4, <2>5, <2>6, <2>7 DEF IsLinked
<1>16. ASSUME NEW x \in Windows, r[x] # NoView
       PROVE  IsRoot(n, r, ws, x)
  <2>1. rt[x] # NoView /\ rt[x] \notin gone /\ r[x] = rt[x]
    BY <1>16
  <2>2. PICK y \in Controls : y = rt[x] /\ v[y].live /\ IsRoot(v, rt, ws, x)
    BY <1>14, <2>1
  <2>3. /\ x \in ws /\ v[y].parent = NoView /\ v[y].window = x
        /\ \A d \in Under(Kids(v), y) : v[d].window \in {x, NoWindow}
    BY <2>2 DEF IsRoot
  <2>4. n[y].live /\ n[y].parent = NoView /\ n[y].window = x
    BY <1>9, <2>1, <2>2, <2>3
  <2>5. ASSUME NEW d \in Under(Kids(n), y)
        PROVE  n[d].window \in {x, NoWindow}
    <3>1. d \in Under(Kids(v), y) /\ d \in Controls
      BY <1>13, <2>1, <2>2 DEF Under
    <3> QED
      BY <1>8, <1>9, <2>3, <3>1
  <2> QED
    BY <2>1, <2>2, <2>3, <2>4, <2>5 DEF IsRoot
<1> QED
  BY <1>1, <1>6, <1>15, <1>16 DEF Whole

(* A control that HIViewAddSubview moves, with all that is under it, into  *)
(* one that is not.                                                        *)
IsMoved(m, v, c, p) ==
  /\ \A d \in Controls : m[d].window = IF d = c THEN v[p].window ELSE v[d].window
  /\ \A d \in Controls : m[d].parent = IF d = c THEN p ELSE v[d].parent
  /\ \A d \in Controls : m[d].live = v[d].live
  /\ \A d \in Controls : v[d].live =>
       /\ W!IsInjective(m[d].children)
       /\ Kids(m)[d] = (Kids(v)[d] \ {c}) \cup (IF d = p THEN {c} ELSE {})

(* A control whose parent is another one, and else as it was.              *)
LEMMA Reparented ==
  ASSUME NEW q \in ViewRecords, NEW p \in Controls, NEW m, m = [q EXCEPT !.parent = p]
  PROVE  /\ m \in ViewRecords /\ m.window = q.window /\ m.parent = p
         /\ m.live = q.live /\ m.children = q.children
BY DEF ViewRecords

(* And one whose list is another one.                                      *)
LEMMA Listing ==
  ASSUME NEW q \in ViewRecords, NEW s \in Seq(Controls), NEW m, m = [q EXCEPT !.children = s]
  PROVE  /\ m \in ViewRecords /\ m.window = q.window /\ m.parent = q.parent
         /\ m.live = q.live /\ m.children = s
BY DEF ViewRecords

(* What HIViewAddSubview writes moves the control out of one list and into *)
(* another.                                                                *)
LEMMA MovedIs ==
  ASSUME NoView \notin Controls, NEW v, NEW rt, NEW ws, Whole(v, rt, ws),
         NEW c \in Controls, v[c].live, NEW p \in Controls, v[p].live, p # c,
         NEW m, m = [W!Unlinked(v, c) EXCEPT ![c].window = v[p].window, ![c].parent = p,
                                             ![p].children = Append(@, c)]
  PROVE  m \in Views /\ IsMoved(m, v, c, p)
<1>1. PICK u : u = W!Unlinked(v, c)
  OBVIOUS
<1>2. v \in Views /\ u \in Views /\ IsUnlinked(u, v, c)
  BY <1>1, UnlinkedIs DEF Whole
<1>3. \A d \in Controls : v[d] \in ViewRecords /\ u[d] \in ViewRecords
  BY <1>2 DEF Views
<1>4. /\ u[p].children \in Seq(Controls) /\ Append(u[p].children, c) \in Seq(Controls)
      /\ v[p].window \in Windows \cup {NoWindow}
  BY <1>3 DEF ViewRecords
<1>5. PICK s \in Seq(Controls) : s = Append(u[p].children, c)
  BY <1>4
<1>6. \A d \in Controls :
        m[d] = IF d = c THEN [u[c] EXCEPT !.window = v[p].window, !.parent = p]
               ELSE IF d = p THEN [u[p] EXCEPT !.children = s]
               ELSE u[d]
  BY <1>1, <1>2, <1>5 DEF Views
<1>7. ASSUME NEW d \in Controls
      PROVE  /\ m[d] \in ViewRecords
             /\ m[d].window = IF d = c THEN v[p].window ELSE v[d].window
             /\ m[d].parent = IF d = c THEN p ELSE v[d].parent
             /\ m[d].live = v[d].live
             /\ m[d].children = IF d = p THEN s ELSE u[d].children
  <2>1. /\ u[d].window = v[d].window /\ u[d].live = v[d].live
        /\ d # c => u[d].parent = v[d].parent
    BY <1>2 DEF IsUnlinked
  <2>2. CASE d = c
    <3>1. m[d] = [u[d] EXCEPT !.window = v[p].window, !.parent = p]
      BY <1>6, <2>2
    <3>3. PICK w \in Windows \cup {NoWindow} : w = v[p].window
      BY <1>4
    <3>4. m[d] = [u[d] EXCEPT !.window = w, !.parent = p] /\ u[d] \in ViewRecords
      BY <1>3, <3>1, <3>3
    <3>6. PICK q : q = [u[d] EXCEPT !.window = w]
      OBVIOUS
    <3>7. /\ q \in ViewRecords /\ q.window = w
          /\ q.live = u[d].live /\ q.children = u[d].children
      BY <3>4, <3>6 DEF ViewRecords
    <3>8. m[d] = [q EXCEPT !.parent = p]
      BY <3>4, <3>6
    <3>5. /\ m[d] \in ViewRecords /\ m[d].window = w /\ m[d].parent = p
          /\ m[d].live = u[d].live /\ m[d].children = u[d].children
      <4>1. PICK z : z = m[d] /\ z = [q EXCEPT !.parent = p]
        BY <3>8
      <4>2. /\ z \in ViewRecords /\ z.window = q.window /\ z.parent = p
            /\ z.live = q.live /\ z.children = q.children
        BY <3>7, <4>1, Reparented
      <4> QED
        BY <3>7, <4>1, <4>2
    <3>2. /\ m[d] \in ViewRecords /\ m[d].window = v[p].window /\ m[d].parent = p
          /\ m[d].live = u[d].live /\ m[d].children = u[d].children
      BY <3>3, <3>5
    <3> QED
      BY <2>1, <2>2, <3>2
  <2>3. CASE d # c /\ d = p
    <3>1. m[d] = [u[d] EXCEPT !.children = s]
      BY <1>6, <2>3
    <3>3. u[d] \in ViewRecords
      BY <1>3
    <3>4. PICK q : q = u[d] /\ q \in ViewRecords
      BY <3>3
    <3>5. PICK z : z = [q EXCEPT !.children = s]
      OBVIOUS
    <3>6. s \in Seq(Controls)
      BY <1>4
    <3>7. /\ z \in ViewRecords /\ z.window = q.window /\ z.parent = q.parent
          /\ z.live = q.live /\ z.children = s
      BY <3>4, <3>5, <3>6, Listing
    <3>2. /\ m[d] \in ViewRecords /\ m[d].window = u[d].window /\ m[d].parent = u[d].parent
          /\ m[d].live = u[d].live /\ m[d].children = s
      BY <3>1, <3>4, <3>5, <3>7
    <3> QED
      BY <2>1, <2>3, <3>2
  <2>4. CASE d # c /\ d # p
    <3>1. m[d] = u[d]
      BY <1>6, <2>4
    <3> QED
      BY <1>3, <2>1, <2>4, <3>1
  <2> QED
    BY <2>2, <2>3, <2>4
<1>8. m \in Views
  <2>1. DOMAIN m = Controls /\ m = [d \in Controls |-> m[d]]
    BY <1>1, <1>2 DEF Views
  <2> QED
    BY <1>7, <2>1 DEF Views
<1>9. ASSUME NEW d \in Controls, v[d].live
      PROVE  /\ W!IsInjective(m[d].children)
             /\ Kids(m)[d] = (Kids(v)[d] \ {c}) \cup (IF d = p THEN {c} ELSE {})
  <2>1. W!IsInjective(u[d].children) /\ Kids(u)[d] = Kids(v)[d] \ {c}
    BY <1>2, <1>9 DEF IsUnlinked
  <2>2. Kids(m)[d] = W!ToSet(m[d].children) /\ Kids(u)[d] = W!ToSet(u[d].children)
    BY <1>2, <1>8, KidsAre
  <2>3. CASE d = p
    <3>1. W!IsInjective(s) /\ W!ToSet(s) = W!ToSet(u[p].children) \cup {c}
      BY <1>4, <1>5, <2>1, <2>2, <2>3, PutBehind
    <3>2. m[d].children = s
      BY <1>7, <2>3
    <3> QED
      BY <2>1, <2>2, <2>3, <3>1, <3>2
  <2>4. CASE d # p
    <3>1. m[d].children = u[d].children
      BY <1>7, <2>4
    <3> QED
      BY <2>1, <2>2, <2>4, <3>1
  <2> QED
    BY <2>3, <2>4
<1> QED
  BY <1>7, <1>8, <1>9 DEF IsMoved

(* The controls after HIViewAddSubview(p, c).                              *)
MovedTo(v, c, p) ==
  [W!Unlinked(v, c) EXCEPT ![c].window = v[p].window, ![c].parent = p,
                           ![p].children = Append(@, c)]

(* A control that goes, with all under it, into one that is not under it   *)
(* leaves the trees whole: neither is the other's root.                    *)
LEMMA MoveKeeps ==
  ASSUME NoView \notin Controls, NoWindow \notin Windows,
         NEW v, NEW rt, NEW ws, Whole(v, rt, ws), NEW c \in Controls, v[c].live,
         NEW p \in Controls, v[p].live, p \notin Under(Kids(v), c),
         \A w \in Windows : rt[w] # c,
         \A d \in Under(Kids(v), c) : d # c => v[d].window \in {NoWindow, v[p].window},
         NEW m, m = MovedTo(v, c, p)
  PROVE  Whole(m, rt, ws)
<1>1. v \in Views /\ rt \in [Windows -> Controls \cup {NoView}]
  BY DEF Whole
<1>t. \A d \in Controls : /\ v[d].window \in Windows \cup {NoWindow}
                          /\ v[d].parent \in Controls \cup {NoView}
  BY <1>1 DEF Views, ViewRecords
<1>2. Kids(v) \in [Controls -> SUBSET Controls]
  BY <1>1, KidsAre
<1>3. p # c
  BY <1>2, UnderIsClosed
<1>4. m \in Views /\ IsMoved(m, v, c, p)
  BY <1>3, MovedIs DEF MovedTo
<1>5. Kids(m) \in [Controls -> SUBSET Controls]
  BY <1>4, KidsAre
<1>w. \A d \in Controls : m[d].window = IF d = c THEN v[p].window ELSE v[d].window
  BY <1>4 DEF IsMoved
<1>p. \A d \in Controls : m[d].parent = IF d = c THEN p ELSE v[d].parent
  BY <1>4 DEF IsMoved
<1>l. \A d \in Controls : m[d].live = v[d].live
  BY <1>4 DEF IsMoved
<1>k. \A d \in Controls : v[d].live =>
        Kids(m)[d] = (Kids(v)[d] \ {c}) \cup (IF d = p THEN {c} ELSE {})
  BY <1>4 DEF IsMoved
<1> DEFINE moved == Under(Kids(v), c)
<1>6. /\ moved \in SUBSET Controls /\ c \in moved /\ ClosedUnder(Kids(v), moved)
      /\ \A d \in moved : v[d].live
  BY <1>2, UnderIsClosed, UnderIsLive
<1>7. ASSUME NEW x \in Controls, v[x].live
      PROVE  /\ Under(Kids(v), x) \in SUBSET Controls /\ x \in Under(Kids(v), x)
             /\ ClosedUnder(Kids(v), Under(Kids(v), x))
             /\ Under(Kids(m), x) \in SUBSET Controls /\ x \in Under(Kids(m), x)
             /\ ClosedUnder(Kids(m), Under(Kids(m), x))
             /\ \A d \in Under(Kids(v), x) : v[d].live
  BY <1>2, <1>5, <1>7, UnderIsClosed, UnderIsLive
(* What is under c stays there.                                            *)
<1>8. moved \subseteq Under(Kids(m), c)
  <2> DEFINE s == Under(Kids(m), c) \cap moved
  <2>1. s \in SUBSET Controls /\ c \in s
    BY <1>6, <1>7
  <2>2. ASSUME NEW d \in s
        PROVE  Kids(v)[d] \subseteq s
    <3>1. d \in Controls /\ v[d].live
      BY <1>6
    <3>2. Kids(v)[d] \subseteq Kids(m)[d] \cup {c} /\ Kids(v)[d] \subseteq moved
      BY <1>6, <1>k, <3>1 DEF ClosedUnder
    <3>3. Kids(m)[d] \subseteq Under(Kids(m), c)
      BY <1>7 DEF ClosedUnder
    <3> QED
      BY <2>1, <3>2, <3>3
  <2>3. ClosedUnder(Kids(v), s)
    BY <2>2 DEF ClosedUnder
  <2> HIDE DEF s
  <2>4. Under(Kids(v), c) \subseteq s
    BY <2>1, <2>3, UnderIsLeast
  <2> QED
    BY <2>4 DEF s
<1> HIDE DEF moved
(* What was under one is under it, or moved.                               *)
<1>9. ASSUME NEW x \in Controls, v[x].live
      PROVE  Under(Kids(v), x) \subseteq Under(Kids(m), x) \cup moved
  <2> DEFINE s == (Under(Kids(m), x) \cap Under(Kids(v), x)) \cup moved
  <2>1. s \in SUBSET Controls /\ x \in s
    BY <1>6, <1>7, <1>9
  <2>2. ASSUME NEW d \in s
        PROVE  Kids(v)[d] \subseteq s
    <3>1. CASE d \in moved
      BY <1>6, <3>1 DEF ClosedUnder
    <3>2. CASE d \notin moved
      <4>1. d \in Controls /\ v[d].live /\ d \in Under(Kids(m), x) /\ d \in Under(Kids(v), x)
        BY <1>7, <1>9, <3>2
      <4>2. Kids(v)[d] \subseteq Kids(m)[d] \cup {c}
        BY <1>k, <4>1
      <4>3. Kids(m)[d] \subseteq Under(Kids(m), x) /\ Kids(v)[d] \subseteq Under(Kids(v), x)
        BY <1>7, <1>9, <4>1 DEF ClosedUnder
      <4> QED
        BY <1>6, <4>2, <4>3
    <3> QED
      BY <3>1, <3>2
  <2>3. ClosedUnder(Kids(v), s)
    BY <2>2 DEF ClosedUnder
  <2> HIDE DEF s
  <2>4. Under(Kids(v), x) \subseteq s
    BY <2>1, <2>3, UnderIsLeast
  <2> QED
    BY <2>4 DEF s
(* What is under one was, or came with c because p was under it.           *)
<1>10. ASSUME NEW x \in Controls, v[x].live, x # c
       PROVE  /\ Under(Kids(m), x) \subseteq Under(Kids(v), x) \cup moved
              /\ c \in Under(Kids(m), x) => p \in Under(Kids(v), x)
              /\ Under(Kids(m), x) \subseteq Under(Kids(v), x) \/ c \in Under(Kids(m), x)
  <2>1. Under(Kids(m), x) \subseteq Under(Kids(v), x) \cup moved
    <3> DEFINE s == Under(Kids(v), x) \cup moved
    <3>1. s \in SUBSET Controls /\ x \in s
      BY <1>6, <1>7, <1>10
    <3>2. ASSUME NEW d \in s
          PROVE  Kids(m)[d] \subseteq s
      <4>1. d \in Controls /\ v[d].live
        BY <1>6, <1>7, <1>10
      <4>2. Kids(m)[d] \subseteq Kids(v)[d] \cup {c} /\ Kids(v)[d] \subseteq s
        <5>1. Kids(m)[d] \subseteq Kids(v)[d] \cup {c}
          BY <1>k, <4>1
        <5>2. d \in moved => Kids(v)[d] \subseteq moved
          BY <1>6 DEF ClosedUnder
        <5>3. d \in Under(Kids(v), x) => Kids(v)[d] \subseteq Under(Kids(v), x)
          BY <1>7, <1>10 DEF ClosedUnder
        <5> QED
          BY <5>1, <5>2, <5>3
      <4> QED
        BY <1>6, <4>2
    <3>3. ClosedUnder(Kids(m), s)
      BY <3>2 DEF ClosedUnder
    <3> HIDE DEF s
    <3>4. Under(Kids(m), x) \subseteq s
      BY <3>1, <3>3, UnderIsLeast
    <3> QED
      BY <3>4 DEF s
  <2>2. ASSUME c \in Under(Kids(m), x)
        PROVE  p \in Under(Kids(v), x)
    <3>1. PICK y \in Under(Kids(m), x) : c \in Kids(m)[y]
      BY <1>5, <1>10, <2>2, UnderSomething
    <3>2. y \in Controls /\ v[y].live
      BY <1>6, <1>7, <1>10, <2>1, <3>1
    <3>3. y = p
      BY <1>k, <3>1, <3>2
    <3> QED
      BY <2>1, <3>1, <3>3 DEF moved
  <2>3. ASSUME c \notin Under(Kids(m), x)
        PROVE  Under(Kids(m), x) \subseteq Under(Kids(v), x)
    <3> DEFINE s == Under(Kids(m), x) \cap Under(Kids(v), x)
    <3>1. s \in SUBSET Controls /\ x \in s
      BY <1>7, <1>10
    <3>2. ASSUME NEW d \in s
          PROVE  Kids(m)[d] \subseteq s
      <4>1. d \in Controls /\ v[d].live
        BY <1>7, <1>10
      <4>2. /\ Kids(m)[d] \subseteq Kids(v)[d] \cup {c} /\ Kids(v)[d] \subseteq Under(Kids(v), x)
            /\ Kids(m)[d] \subseteq Under(Kids(m), x)
        BY <1>7, <1>10, <1>k, <4>1 DEF ClosedUnder
      <4> QED
        BY <2>3, <4>2
    <3>3. ClosedUnder(Kids(m), s)
      BY <3>2 DEF ClosedUnder
    <3> HIDE DEF s
    <3>4. Under(Kids(m), x) \subseteq s
      BY <3>1, <3>3, UnderIsLeast
    <3> QED
      BY <3>4 DEF s
  <2> QED
    BY <2>1, <2>2, <2>3
(* The tree of p's window has p, and so all that moves.                    *)
<1>11. ASSUME v[p].window # NoWindow
       PROVE  /\ rt[v[p].window] \in Controls /\ v[rt[v[p].window]].live
              /\ moved \subseteq Under(Kids(m), rt[v[p].window])
  <2>1. PICK x \in Windows : x = v[p].window
    BY <1>t, <1>11
  <2>2. rt[x] # NoView /\ p \in Under(Kids(v), rt[x])
    BY <1>11, <2>1 DEF Whole, IsLinked
  <2>3. PICK y \in Controls : y = rt[x] /\ v[y].live
    BY <1>1, <2>1, <2>2 DEF Whole, IsRoot
  <2>4. p \in Under(Kids(m), y)
    BY <1>9, <2>2, <2>3 DEF moved
  <2>5. c \in Under(Kids(m), y)
    <3>1. c \in Kids(m)[p]
      BY <1>k
    <3> QED
      BY <1>7, <2>3, <2>4, <3>1 DEF ClosedUnder
  <2>6. Under(Kids(m), c) \subseteq Under(Kids(m), y)
    <3>1. PICK s : s = Under(Kids(m), y)
      OBVIOUS
    <3>2. s \in SUBSET Controls /\ c \in s /\ ClosedUnder(Kids(m), s)
      BY <1>7, <2>3, <2>5, <3>1
    <3>3. Under(Kids(m), c) \subseteq s
      BY <3>2, UnderIsLeast
    <3> QED
      BY <3>1, <3>3
  <2> QED
    BY <1>8, <2>1, <2>3, <2>6
<1>12. ASSUME NEW d \in Controls, m[d].live
       PROVE  IsLinked(m, rt, d)
  <2>1. v[d].live /\ IsLinked(v, rt, d)
    BY <1>l, <1>12 DEF Whole
  <2>2. W!IsInjective(m[d].children)
    BY <1>4, <2>1 DEF IsMoved
  <2>3. Kids(m)[d] = (Kids(v)[d] \ {c}) \cup (IF d = p THEN {c} ELSE {})
    BY <1>k, <2>1
  <2>4. \A e \in Controls : m[e].live => (e \in Kids(m)[d] <=> m[e].parent = d)
    <3> SUFFICES ASSUME NEW e \in Controls, m[e].live
                 PROVE  e \in Kids(m)[d] <=> m[e].parent = d
      OBVIOUS
    <3>1. CASE e = c
      BY <1>p, <2>3, <3>1
    <3>2. CASE e # c
      <4>1. v[e].live /\ m[e].parent = v[e].parent
        BY <1>l, <1>p, <3>2
      <4>2. e \in Kids(v)[d] <=> v[e].parent = d
        BY <2>1, <4>1 DEF IsLinked
      <4> QED
        BY <2>3, <3>2, <4>1, <4>2
    <3> QED
      BY <3>1, <3>2
  <2>5. \A e \in Kids(m)[d] : m[e].live
    <3>1. \A e \in Kids(v)[d] : e \in Controls /\ v[e].live
      BY <1>2, <2>1 DEF IsLinked
    <3> QED
      BY <1>l, <2>3, <3>1
  <2>6. m[d].parent # d /\ (m[d].parent # NoView => m[m[d].parent].live)
    <3>1. v[d].parent # d /\ (v[d].parent # NoView => v[v[d].parent].live)
      BY <2>1 DEF IsLinked
    <3>2. v[d].parent \in Controls \cup {NoView}
      BY <1>t
    <3>3. CASE d = c
      BY <1>3, <1>l, <1>p, <3>3
    <3>4. CASE d # c
      <4>1. m[d].parent = v[d].parent
        BY <1>p, <3>4
      <4> QED
        BY <1>l, <3>1, <3>2, <4>1
    <3> QED
      BY <3>3, <3>4
  <2>7. ASSUME m[d].window # NoWindow
        PROVE  rt[m[d].window] # NoView /\ d \in Under(Kids(m), rt[m[d].window])
    <3>1. CASE d \in moved /\ m[d].window = v[p].window
      BY <1>11, <2>7, <3>1
    <3>2. CASE d \notin moved
      <4>1. PICK x \in Windows : x = v[d].window /\ x = m[d].window
        BY <1>6, <1>t, <1>w, <2>7, <3>2
      <4>2. rt[x] # NoView /\ d \in Under(Kids(v), rt[x])
        BY <2>1, <2>7, <4>1 DEF IsLinked
      <4>3. rt[x] \in Controls /\ v[rt[x]].live
        BY <1>1, <4>1, <4>2 DEF Whole, IsRoot
      <4>4. d \in Under(Kids(m), rt[x])
        BY <1>9, <3>2, <4>2, <4>3
      <4> QED
        BY <4>1, <4>2, <4>4
    <3>3. d \in moved => m[d].window = v[p].window
      <4>1. d \in moved /\ d # c => v[d].window \in {NoWindow, v[p].window}
        BY DEF moved
      <4> QED
        BY <1>w, <2>7, <4>1
    <3> QED
      BY <3>1, <3>2, <3>3
  <2> QED
    BY <2>2, <2>4, <2>5, <2>6, <2>7 DEF IsLinked
<1>13. ASSUME NEW x \in Windows, rt[x] # NoView
       PROVE  IsRoot(m, rt, ws, x)
  <2>1. PICK y \in Controls : y = rt[x] /\ v[y].live /\ IsRoot(v, rt, ws, x)
    BY <1>1, <1>13 DEF Whole, IsRoot
  <2>2. /\ x \in ws /\ v[y].parent = NoView /\ v[y].window = x /\ y # c
        /\ \A d \in Under(Kids(v), y) : v[d].window \in {x, NoWindow}
    BY <2>1 DEF IsRoot
  <2>3. m[y].live /\ m[y].parent = NoView /\ m[y].window = x
    BY <1>w, <1>p, <1>l, <2>1, <2>2
  <2>4. ASSUME NEW d \in Under(Kids(m), y)
        PROVE  m[d].window \in {x, NoWindow}
    <3>0. d \in Controls
      BY <1>7, <2>1
    <3>1. CASE d \in Under(Kids(v), y) /\ d # c
      BY <1>w, <2>2, <3>0, <3>1
    <3>2. CASE d \notin Under(Kids(v), y) \/ d = c
      <4>1. d \in moved /\ c \in Under(Kids(m), y)
        BY <1>6, <1>10, <2>1, <2>2, <2>4, <3>2
      <4>5. p \in Under(Kids(v), y)
        BY <1>10, <2>1, <2>2, <4>1
      <4>6. v[p].window \in {x, NoWindow}
        BY <2>2, <4>5
      <4>7. m[d].window \in {NoWindow, v[p].window}
        BY <1>w, <3>0, <4>1 DEF moved
      <4> QED
        BY <4>6, <4>7
    <3> QED
      BY <3>1, <3>2
  <2> QED
    BY <2>1, <2>2, <2>3, <2>4 DEF IsRoot
<1> QED
  BY <1>1, <1>4, <1>12, <1>13 DEF Whole

-----------------------------------------------------------------------------
(* Windows: the loops, and the windows that are answered.                  *)

(* What the loops are, how they hang on the windows there are and on those *)
(* that are answered: a modal loop's window is in the list, and where the  *)
(* game's handlers run, it has been sent its command.                      *)
LoopFrames == [kind : {"code", "modal", "application"}, quit : BOOLEAN,
               window : Windows \cup {NoWindow}, at : {"hook", "events"}]
LoopsOK(f, ws, answers) ==
  /\ f \in Seq(LoopFrames) /\ Len(f) <= MaxLoops
  /\ \A i \in DOMAIN f : f[i].kind = "modal" =>
       f[i].window \in ws /\ (f[i].at = "events" => answers[f[i].window])

(* The list of windows and what they have been sent: one command, if any.  *)
ListInv ==
  /\ windows \in Seq(Windows) /\ W!IsInjective(windows)
  /\ visible \in [Windows -> BOOLEAN] /\ from_nib \in [Windows -> BOOLEAN]
  /\ answered \in [Windows -> BOOLEAN]
  /\ sent = [w \in Windows |-> IF answered[w] THEN 1 ELSE 0]
AnswersInv == ListInv /\ LoopsOK(frames, W!ToSet(windows), answered)

(* A sequence with another member at one of its places.                    *)
LEMMA Replaced ==
  ASSUME NEW S, NEW f \in Seq(S), NEW n \in DOMAIN f, NEW e \in S,
         NEW g, g = [f EXCEPT ![n] = e]
  PROVE  /\ g \in Seq(S) /\ Len(g) = Len(f) /\ DOMAIN g = DOMAIN f
         /\ \A i \in DOMAIN f : g[i] = IF i = n THEN e ELSE f[i]
<1>1. DOMAIN f = 1..Len(f) /\ n \in 1..Len(f)
  OBVIOUS
<1>2. g \in Seq(S)
  BY <1>1, ExceptSeq
<1>3. DOMAIN g = DOMAIN f /\ \A i \in DOMAIN f : g[i] = IF i = n THEN e ELSE f[i]
  OBVIOUS
<1>4. Len(g) = Len(f)
  BY <1>1, ExceptSeq
<1> QED
  BY <1>2, <1>3, <1>4

(* A loop, or code of the game, that is entered and left.                  *)
LEMMA LoopEntered ==
  ASSUME NEW f, NEW ws, NEW answers, LoopsOK(f, ws, answers), Len(f) < MaxLoops, MaxLoops \in Nat,
         NEW k \in {"code", "modal", "application"}, NEW w \in Windows \cup {NoWindow},
         k = "modal" => w \in ws,
         NEW g, g = Append(f, W!Frame(k, w))
  PROVE  LoopsOK(g, ws, answers)
<1> DEFINE e == W!Frame(k, w)
<1>1. e \in LoopFrames /\ e.kind = k /\ e.window = w /\ e.at = "hook"
  BY DEF W!Frame, LoopFrames
<1> HIDE DEF e
<1>2. f \in Seq(LoopFrames) /\ g = Append(f, e)
  BY DEF LoopsOK, e
<1>3. /\ g \in Seq(LoopFrames) /\ Len(g) = Len(f) + 1 /\ Len(f) \in Nat
      /\ DOMAIN f = 1..Len(f) /\ DOMAIN g = 1..Len(f) + 1
      /\ \A i \in 1..Len(f) : g[i] = f[i]
      /\ g[Len(f) + 1] = e
  BY <1>1, <1>2
<1>4. \A i \in 1..Len(f) + 1 : i \in 1..Len(f) \/ i = Len(f) + 1
  BY <1>3
<1> QED
  BY <1>1, <1>3, <1>4 DEF LoopsOK

(* It is left.                                                             *)
LEMMA LoopLeft ==
  ASSUME NEW f, NEW ws, NEW answers, LoopsOK(f, ws, answers), f # <<>>, MaxLoops \in Nat,
         NEW g, g = W!Front(f)
  PROVE  LoopsOK(g, ws, answers)
<1>1. f \in Seq(LoopFrames) /\ g = SubSeq(f, 1, Len(f) - 1)
  BY DEF LoopsOK, W!Front
<1>2. /\ g \in Seq(LoopFrames) /\ Len(g) = Len(f) - 1 /\ Len(f) \in Nat \ {0}
      /\ DOMAIN f = 1..Len(f) /\ DOMAIN g = 1..Len(f) - 1
      /\ \A i \in 1..Len(f) - 1 : g[i] = f[i]
  <2>1. PICK n \in Nat \ {0} : n = Len(f) /\ DOMAIN f = 1..n
    BY <1>1
  <2>2. \A i \in 1..n - 1 : f[i] \in LoopFrames
    BY <1>1, <2>1
  <2>3. /\ g \in Seq(LoopFrames) /\ Len(g) = n - 1
        /\ \A i \in 1..n - 1 : g[i] = f[i]
    BY <1>1, <2>1, <2>2
  <2> QED
    BY <2>1, <2>3
<1>3. \A i \in 1..Len(f) - 1 : i \in 1..Len(f)
  BY <1>2
<1> QED
  BY <1>2, <1>3 DEF LoopsOK

(* One that goes on to the game's handlers, or back to the hook.           *)
LEMMA LoopGoesOn ==
  ASSUME NEW f, NEW ws, NEW answers, LoopsOK(f, ws, answers), f # <<>>,
         NEW at \in {"hook", "events"},
         at = "events" /\ f[Len(f)].kind = "modal" => answers[f[Len(f)].window],
         NEW g, g = [f EXCEPT ![Len(f)]["at"] = at]
  PROVE  LoopsOK(g, ws, answers)
<1>1. /\ f \in Seq(LoopFrames) /\ DOMAIN f = 1..Len(f) /\ Len(f) \in Nat
      /\ Len(f) \in DOMAIN f
  BY DEF LoopsOK
<1>2. PICK e : e = [f[Len(f)] EXCEPT !["at"] = at]
  OBVIOUS
<1>3. f[Len(f)] \in LoopFrames
  BY <1>1
<1>4. /\ e \in LoopFrames /\ e.at = at
      /\ e.kind = f[Len(f)].kind /\ e.window = f[Len(f)].window
  BY <1>2, <1>3 DEF LoopFrames
<1>5. g = [f EXCEPT ![Len(f)] = e]
  BY <1>2
<1>6. /\ g \in Seq(LoopFrames) /\ Len(g) = Len(f) /\ DOMAIN g = DOMAIN f
      /\ \A i \in DOMAIN f : g[i] = IF i = Len(f) THEN e ELSE f[i]
  <2>1. PICK n \in DOMAIN f : n = Len(f) /\ g = [f EXCEPT ![n] = e]
    BY <1>1, <1>5
  <2>2. /\ g \in Seq(LoopFrames) /\ Len(g) = Len(f) /\ DOMAIN g = DOMAIN f
        /\ \A i \in DOMAIN f : g[i] = IF i = n THEN e ELSE f[i]
    <3>1. f \in Seq(LoopFrames) /\ e \in LoopFrames
      BY <1>1, <1>4
    <3>2. PICK q : q = [f EXCEPT ![n] = e] /\ q = g
      BY <2>1
    <3>3. /\ q \in Seq(LoopFrames) /\ Len(q) = Len(f) /\ DOMAIN q = DOMAIN f
          /\ \A i \in DOMAIN f : q[i] = IF i = n THEN e ELSE f[i]
      BY <3>1, <3>2, Replaced
    <3> QED
      BY <2>1, <3>2, <3>3
  <2> QED
    BY <2>1, <2>2
<1> QED
  BY <1>1, <1>4, <1>6 DEF LoopsOK

(* One that is told to quit.                                               *)
LEMMA LoopTold ==
  ASSUME NEW f, NEW ws, NEW answers, LoopsOK(f, ws, answers), NEW n,
         NEW g, g = [f EXCEPT ![n].quit = TRUE]
  PROVE  LoopsOK(g, ws, answers)
<1>1. f \in Seq(LoopFrames) /\ DOMAIN f = 1..Len(f) /\ Len(f) \in Nat
  BY DEF LoopsOK
<1>2. CASE n \in DOMAIN f
  <2>1. PICK e : e = [f[n] EXCEPT !.quit = TRUE]
    OBVIOUS
  <2>2. f[n] \in LoopFrames
    BY <1>1, <1>2
  <2>3. e \in LoopFrames /\ e.at = f[n].at /\ e.kind = f[n].kind /\ e.window = f[n].window
    BY <2>1, <2>2 DEF LoopFrames
  <2>4. g = [f EXCEPT ![n] = e]
    BY <2>1
  <2>5. /\ g \in Seq(LoopFrames) /\ Len(g) = Len(f) /\ DOMAIN g = DOMAIN f
        /\ \A i \in DOMAIN f : g[i] = IF i = n THEN e ELSE f[i]
    BY <1>1, <1>2, <2>3, <2>4, Replaced
  <2> QED
    BY <1>1, <2>3, <2>5 DEF LoopsOK
<1>3. CASE n \notin DOMAIN f
  <2>1. g = f
    BY <1>1, <1>3
  <2> QED
    BY <2>1
<1> QED
  BY <1>2, <1>3

(* More windows, or more of them answered; none that a loop runs for is    *)
(* gone.                                                                   *)
LEMMA LoopsStay ==
  ASSUME NEW f, NEW ws, NEW answers, LoopsOK(f, ws, answers), NEW vs, NEW replies,
         \A i \in DOMAIN f : f[i].kind = "modal" /\ f[i].window \in ws =>
           /\ f[i].window \in vs
           /\ answers[f[i].window] => replies[f[i].window]
  PROVE  LoopsOK(f, vs, replies)
BY DEF LoopsOK

(* The window of the innermost modal loop is the one that is answered.     *)
LEMMA InnermostIsAnswered ==
  ASSUME NoWindow \notin Windows, AnswersInv, frames # <<>>, frames[Len(frames)].kind = "modal"
  PROVE  W!ToAnswer = frames[Len(frames)].window /\ W!ToAnswer \in Windows
<1>1. /\ Len(frames) \in Nat /\ DOMAIN frames = 1..Len(frames)
      /\ Len(frames) \in W!ModalLoops /\ \A i \in W!ModalLoops : i \in Nat /\ i <= Len(frames)
  BY DEF AnswersInv, LoopsOK, W!ModalLoops
<1>2. W!Max(W!ModalLoops) = Len(frames)
  <2>1. \E i \in W!ModalLoops : \A j \in W!ModalLoops : i >= j
    BY <1>1
  <2>2. PICK i : i = W!Max(W!ModalLoops)
    OBVIOUS
  <2>3. i \in W!ModalLoops /\ \A j \in W!ModalLoops : i >= j
    BY <2>1, <2>2 DEF W!Max
  <2> QED
    BY <1>1, <2>2, <2>3
<1>3. W!hle_modal_window = frames[Len(frames)].window
  BY <1>1, <1>2 DEF W!hle_modal_window
<1>4. frames[Len(frames)].window \in W!ToSet(windows)
  BY <1>1 DEF AnswersInv, LoopsOK
<1>5. W!ToSet(windows) \subseteq Windows
  BY DEF AnswersInv, ListInv, W!ToSet
<1> QED
  BY <1>3, <1>4, <1>5 DEF W!ToAnswer

(* A loop that runs its iteration's handlers or ends; code that returns.   *)
LEMMA FramesAnswered ==
  ASSUME NoWindow \notin Windows, MaxLoops \in Nat, AnswersInv,
         UNCHANGED <<windows, visible, from_nib, answered, sent>>,
         LoopsOK(frames', W!ToSet(windows), answered)
  PROVE  AnswersInv'
BY DEF AnswersInv, ListInv

(* loop_hook sends the command to the window that has not been sent it,    *)
(* and the game's handlers run with that window marked.                    *)
LEMMA HookAnswers ==
  ASSUME NoWindow \notin Windows, MaxLoops \in Nat, AnswersInv, W!loop_hook
  PROVE  AnswersInv'
<1> DEFINE w == W!ToAnswer
           top == frames[Len(frames)]
<1>0. frames \in Seq(LoopFrames) /\ ListInv /\ LoopsOK(frames, W!ToSet(windows), answered)
  BY DEF AnswersInv, LoopsOK
<1>1. frames # <<>> /\ top.kind # "code"
  BY DEF W!loop_hook, W!AtHook, W!InCode, W!Last
<1>2. top.kind = "modal" => w = top.window /\ w \in Windows
  BY <1>1, InnermostIsAnswered
<1>3. UNCHANGED <<windows, visible, from_nib>>
  BY DEF W!loop_hook
<1>4. W!CallsHandlers = [frames EXCEPT ![Len(frames)]["at"] = "events"]
  BY DEF W!CallsHandlers, W!Becomes
<1>5. CASE /\ w \notin {u \in Windows : ~answered[u]}
           /\ frames' = W!CallsHandlers /\ UNCHANGED <<answered, sent>>
  <2>1. top.kind = "modal" => answered[top.window]
    BY <1>2, <1>5
  <2> HIDE DEF w
  <2>2. LoopsOK(frames', W!ToSet(windows), answered)
    BY <1>0, <1>1, <1>4, <1>5, <2>1, LoopGoesOn
  <2> QED
    BY <1>3, <1>5, <2>2, FramesAnswered
<1>6. CASE /\ w \in {u \in Windows : ~answered[u]} /\ Len(frames) < MaxLoops
           /\ W!Marked(w) /\ sent' = [sent EXCEPT ![w] = @ + 1]
           /\ frames' = Append(W!CallsHandlers, W!MacCode)
  <2>0. w \in Windows /\ ~answered[w]
    BY <1>6
  <2>1. answered' = [answered EXCEPT ![w] = TRUE]
    BY <1>6 DEF W!Marked
  <2>2. PICK f : f = W!CallsHandlers
    OBVIOUS
  <2> HIDE DEF w
  <2>3. /\ answered' \in [Windows -> BOOLEAN] /\ answered'[w]
        /\ \A u \in Windows : answered[u] => answered'[u]
    BY <1>0, <2>0, <2>1 DEF ListInv
  <2>4. sent' = [u \in Windows |-> IF answered'[u] THEN 1 ELSE 0]
    BY <1>0, <1>6, <2>0, <2>1 DEF ListInv
  <2>5. ListInv'
    BY <1>0, <1>3, <2>3, <2>4 DEF ListInv
  <2>6. W!ToSet(windows) \subseteq Windows
    BY <1>0 DEF ListInv, W!ToSet
  <2>7. LoopsOK(frames, W!ToSet(windows), answered')
    BY <1>0, <2>3, <2>6, LoopsStay
  <2>8. LoopsOK(f, W!ToSet(windows), answered')
    <3>1. top.kind = "modal" => answered'[top.window]
      BY <1>2, <2>3 DEF w
    <3>2. f = [frames EXCEPT ![Len(frames)]["at"] = "events"]
      BY <1>4, <2>2
    <3> QED
      BY <1>1, <2>7, <3>1, <3>2, LoopGoesOn
  <2>9. Len(f) = Len(frames)
    BY <1>0, <1>4, <2>2
  <2>10. LoopsOK(frames', W!ToSet(windows), answered')
    <3>1. frames' = Append(f, W!Frame("code", NoWindow))
      BY <1>6, <2>2 DEF W!MacCode
    <3> QED
      BY <1>6, <2>8, <2>9, <3>1, LoopEntered
  <2> QED
    BY <1>3, <2>5, <2>10 DEF AnswersInv
<1> QED
  BY <1>5, <1>6 DEF W!loop_hook

(* A window that is made has been sent nothing, and no loop runs for it    *)
(* yet.                                                                    *)
LEMMA NewWindowAnswers ==
  ASSUME MaxLoops \in Nat, AnswersInv, NEW w \in Windows, NEW nib \in BOOLEAN,
         W!new_window(w, nib)
  PROVE  AnswersInv' /\ W!ToSet(windows') = W!ToSet(windows) \cup {w}
<1>1. /\ w \notin W!ToSet(windows) /\ windows' = <<w>> \o windows
      /\ visible' = [visible EXCEPT ![w] = FALSE]
      /\ from_nib' = [from_nib EXCEPT ![w] = nib]
      /\ answered' = [answered EXCEPT ![w] = FALSE]
      /\ sent' = [sent EXCEPT ![w] = 0] /\ UNCHANGED frames
  BY DEF W!new_window
<1>2. /\ windows' \in Seq(Windows) /\ W!IsInjective(windows')
      /\ W!ToSet(windows') = W!ToSet(windows) \cup {w}
  BY <1>1, PutInFront DEF AnswersInv, ListInv
<1>3. ListInv'
  <2>1. sent' = [u \in Windows |-> IF answered'[u] THEN 1 ELSE 0]
    BY <1>1 DEF AnswersInv, ListInv
  <2> QED
    BY <1>1, <1>2, <2>1 DEF AnswersInv, ListInv
<1>4. LoopsOK(frames, W!ToSet(windows'), answered')
  <2>1. \A u \in W!ToSet(windows) : u \in W!ToSet(windows') /\ answered'[u] = answered[u]
    <3>1. W!ToSet(windows) \subseteq Windows
      BY DEF AnswersInv, ListInv, W!ToSet
    <3> QED
      BY <1>1, <1>2, <3>1 DEF AnswersInv, ListInv
  <2> QED
    BY <2>1, LoopsStay DEF AnswersInv
<1> QED
  BY <1>1, <1>2, <1>3, <1>4 DEF AnswersInv

(* No modal loop runs for a window that is disposed of.                    *)
LEMMA DisposeAnswers ==
  ASSUME AnswersInv, NEW w \in Windows, W!DisposeWindow(w)
  PROVE  AnswersInv' /\ W!ToSet(windows') = W!ToSet(windows) \ {w}
<1>1. /\ windows' = W!RemoveFirst(windows, w)
      /\ \A i \in W!ModalLoops : frames[i].window # w
      /\ UNCHANGED <<visible, from_nib, answered, sent, frames>>
  BY DEF W!DisposeWindow
<1>2. /\ windows' \in Seq(Windows) /\ W!IsInjective(windows')
      /\ W!ToSet(windows') = W!ToSet(windows) \ {w}
  BY <1>1, RemovesOne DEF AnswersInv, ListInv
<1>3. LoopsOK(frames, W!ToSet(windows'), answered)
  <2>1. \A i \in DOMAIN frames : frames[i].kind = "modal" => frames[i].window # w
    BY <1>1 DEF W!ModalLoops
  <2> QED
    BY <1>2, <2>1, LoopsStay DEF AnswersInv
<1>4. LoopsOK(frames, W!ToSet(windows), answered)'
  BY <1>1, <1>3
<1> QED
  BY <1>1, <1>2, <1>4 DEF AnswersInv, ListInv

(* A window that goes to the front is still in the list once.              *)
LEMMA FrontAnswers ==
  ASSUME AnswersInv, NEW w \in Windows, W!BringToFront(w)
  PROVE  AnswersInv' /\ W!ToSet(windows') = W!ToSet(windows)
<1>1. /\ windows' = <<w>> \o W!RemoveFirst(windows, w) /\ w \in W!ToSet(windows)
      /\ UNCHANGED <<visible, from_nib, answered, sent, frames>>
  BY DEF W!BringToFront
<1>2. PICK rest : rest = W!RemoveFirst(windows, w)
  OBVIOUS
<1>3. rest \in Seq(Windows) /\ W!IsInjective(rest) /\ W!ToSet(rest) = W!ToSet(windows) \ {w}
  BY <1>2, RemovesOne DEF AnswersInv, ListInv
<1>4. /\ windows' \in Seq(Windows) /\ W!IsInjective(windows')
      /\ W!ToSet(windows') = W!ToSet(rest) \cup {w}
  BY <1>1, <1>2, <1>3, PutInFront
<1>5. W!ToSet(windows') = W!ToSet(windows)
  BY <1>1, <1>3, <1>4
<1>6. LoopsOK(frames, W!ToSet(windows), answered)'
  BY <1>1, <1>5 DEF AnswersInv
<1> QED
  BY <1>1, <1>4, <1>5, <1>6 DEF AnswersInv, ListInv

(* Any step.                                                               *)
LEMMA AnswersKept ==
  ASSUME NoWindow \notin Windows, MaxLoops \in Nat, AnswersInv, [W!Next]_(W!vars)
  PROVE  AnswersInv'
<1>0. LoopsOK(frames, W!ToSet(windows), answered) /\ frames \in Seq(LoopFrames)
  BY DEF AnswersInv, LoopsOK
<1>1. ASSUME UNCHANGED <<windows, visible, from_nib, answered, sent, frames>>
      PROVE  AnswersInv'
  BY <1>1 DEF AnswersInv, ListInv
<1>2. ASSUME NEW w \in Windows, W!CreateNewWindow(w) \/ W!CreateWindowFromNib(w)
      PROVE  AnswersInv'
  BY <1>2, NewWindowAnswers DEF W!CreateNewWindow, W!CreateWindowFromNib
<1>3. ASSUME NEW w \in Windows, W!DisposeWindow(w) \/ W!BringToFront(w)
      PROVE  AnswersInv'
  BY <1>3, DisposeAnswers, FrontAnswers
<1>4. ASSUME NEW w \in Windows, W!ShowOrHide(w)
      PROVE  AnswersInv'
  <2>1. /\ visible' = [visible EXCEPT ![w] = ~visible[w]]
        /\ UNCHANGED <<windows, from_nib, answered, sent, frames>>
    BY <1>4 DEF W!ShowOrHide
  <2>2. visible' \in [Windows -> BOOLEAN]
    BY <2>1 DEF AnswersInv, ListInv
  <2> QED
    BY <2>1, <2>2 DEF AnswersInv, ListInv
<1>5. ASSUME W!loop_hook PROVE AnswersInv'
  BY <1>5, HookAnswers
<1>6. ASSUME NEW k \in {"code", "modal", "application"}, NEW w \in Windows \cup {NoWindow},
             k = "modal" => w \in W!ToSet(windows), Len(frames) < MaxLoops,
             frames' = Append(frames, W!Frame(k, w)), UNCHANGED <<W!windowVars, view>>
      PROVE  AnswersInv'
  <2>1. LoopsOK(frames', W!ToSet(windows), answered)
    BY <1>0, <1>6, LoopEntered
  <2> QED
    BY <1>6, <2>1, FramesAnswered DEF W!windowVars
<1>7. ASSUME NEW w \in Windows, W!RunAppModalLoopForWindow(w)
      PROVE  AnswersInv'
  BY <1>6, <1>7 DEF W!RunAppModalLoopForWindow, W!RunsLoop
<1>8. ASSUME W!RunApplicationEventLoop
      PROVE  AnswersInv'
  BY <1>6, <1>8 DEF W!RunApplicationEventLoop, W!RunsLoop
<1>9. ASSUME W!HandlesEvent
      PROVE  AnswersInv'
  BY <1>6, <1>9 DEF W!HandlesEvent, W!MacCode
<1>10. ASSUME W!HandlerReturns
       PROVE  AnswersInv'
  <2>1. LoopsOK(frames', W!ToSet(windows), answered)
    BY <1>0, <1>10, LoopLeft DEF W!HandlerReturns
  <2> QED
    BY <1>10, <2>1, FramesAnswered DEF W!HandlerReturns, W!windowVars
<1>11. ASSUME W!IterationEnds
       PROVE  AnswersInv'
  <2>0. frames # <<>> /\ UNCHANGED <<windows, visible, from_nib, answered, sent>>
    BY <1>11 DEF W!IterationEnds, W!InCode, W!windowVars
  <2>1. CASE frames' = W!Front(frames)
    <3>1. LoopsOK(frames', W!ToSet(windows), answered)
      BY <1>0, <2>0, <2>1, LoopLeft
    <3> QED
      BY <2>0, <3>1, FramesAnswered
  <2>2. CASE frames' = W!Becomes("at", "hook")
    <3>1. frames' = [frames EXCEPT ![Len(frames)]["at"] = "hook"]
      BY <2>2 DEF W!Becomes
    <3>2. LoopsOK(frames', W!ToSet(windows), answered)
      BY <1>0, <2>0, <3>1, LoopGoesOn
    <3> QED
      BY <2>0, <3>2, FramesAnswered
  <2> QED
    BY <1>11, <2>1, <2>2 DEF W!IterationEnds
<1>12. ASSUME NEW w \in Windows, W!QuitAppModalLoopForWindow(w)
       PROVE  AnswersInv'
  <2>1. PICK n : frames' = [frames EXCEPT ![n].quit = TRUE]
    BY <1>12 DEF W!QuitAppModalLoopForWindow
  <2>2. LoopsOK(frames', W!ToSet(windows), answered)
    BY <1>0, <2>1, LoopTold
  <2> QED
    BY <1>12, <2>2, FramesAnswered DEF W!QuitAppModalLoopForWindow, W!windowVars
<1>13. ASSUME NEW c \in Controls,
              \/ W!DisposeControl(c) \/ W!HIScrollViewCreate(c)
              \/ \E p \in Controls : W!HIViewAddSubview(p, c)
              \/ \E w \in Windows : \/ W!HIViewGetRoot(w, c)
                                    \/ W!CreateScrollingTextBoxControl(w, c)
       PROVE  AnswersInv'
  BY <1>1, <1>13 DEF W!DisposeControl, W!HIScrollViewCreate, W!HIViewAddSubview,
                     W!HIViewGetRoot, W!CreateScrollingTextBoxControl, W!windowVars
<1>14. ASSUME (\E w \in Windows : W!SetPortWindowPort(w)) \/ UNCHANGED W!vars
       PROVE  AnswersInv'
  BY <1>1, <1>14 DEF W!SetPortWindowPort, W!vars, W!windowVars
<1> QED
  BY <1>2, <1>3, <1>4, <1>5, <1>7, <1>8, <1>9, <1>10, <1>11, <1>12, <1>13, <1>14 DEF W!Next

-----------------------------------------------------------------------------
(* Windows: every step keeps the trees.                                    *)

(* The port exists and the trees are whole.                                *)
ControlsInv ==
  /\ current_port \in W!ToSet(windows) \cup {NoWindow}
  /\ Whole(view, root, W!ToSet(windows))

(* Another list of windows that has those with a root.                     *)
LEMMA WholeInList ==
  ASSUME NEW v, NEW rt, NEW ws, Whole(v, rt, ws), NEW vs,
         \A w \in Windows : w \in ws /\ rt[w] # NoView => w \in vs
  PROVE  Whole(v, rt, vs)
BY DEF Whole, IsRoot

(* Another order of the windows keeps the trees.                           *)
LEMMA ListStays ==
  ASSUME ControlsInv, UNCHANGED <<view, root>>, W!ToSet(windows') = W!ToSet(windows),
         current_port' \in W!ToSet(windows) \cup {NoWindow}
  PROVE  ControlsInv'
BY DEF ControlsInv

(* A window is made with no root, or with one of its own.                  *)
LEMMA CreateKeeps ==
  ASSUME NoView \notin Controls, NoWindow \notin Windows, MaxLoops \in Nat,
         AnswersInv, ControlsInv, NEW w \in Windows,
         W!CreateNewWindow(w) \/ W!CreateWindowFromNib(w)
  PROVE  ControlsInv'
<1>1. PICK nib \in BOOLEAN : W!new_window(w, nib)
  BY DEF W!CreateNewWindow, W!CreateWindowFromNib
<1>2. PICK ws : ws = W!ToSet(windows')
  OBVIOUS
<1>3. ws = W!ToSet(windows) \cup {w} /\ w \notin W!ToSet(windows) /\ current_port' = current_port
  BY <1>1, <1>2, NewWindowAnswers DEF W!new_window
<1>4. current_port' \in ws \cup {NoWindow}
  BY <1>3 DEF ControlsInv
<1>5. Whole(view, root, ws)
  BY <1>3, WholeInList DEF ControlsInv
<1>6. root[w] = NoView /\ root \in [Windows -> Controls \cup {NoView}]
  BY <1>3 DEF ControlsInv, Whole, IsRoot
<1>7. CASE UNCHANGED <<root, view>>
  BY <1>2, <1>4, <1>5, <1>7 DEF ControlsInv
<1>8. CASE \E r, c \in Controls \ W!Live :
              /\ r # c
              /\ view' = W!New(W!New(view, r, w, NoView), c, w, r)
              /\ root' = [root EXCEPT ![w] = r]
  <2>1. PICK r, c \in Controls \ W!Live :
              /\ r # c
              /\ view' = W!New(W!New(view, r, w, NoView), c, w, r)
              /\ root' = [root EXCEPT ![w] = r]
    BY <1>8
  <2>2. ~view[r].live /\ ~view[c].live
    BY <2>1 DEF W!Live
  <2>3. PICK u, rt : u = W!New(view, r, w, NoView) /\ rt = [root EXCEPT ![w] = r]
    OBVIOUS
  <2>4. Whole(u, rt, ws)
    <3>1. w \in Windows \cap ws /\ w \in Windows \cup {NoWindow}
      BY <1>3
    <3> QED
      BY <1>5, <1>6, <2>1, <2>2, <2>3, <3>1, NewKeeps
  <2>5. rt[w] = r /\ r # NoView
    BY <1>6, <2>1, <2>3
  <2>6. ~u[c].live
    <3>1. view \in Views
      BY <1>5 DEF Whole
    <3>2. IsNew(u, view, r, w, NoView)
      BY <2>1, <2>3, <3>1, NewIs
    <3> QED
      BY <2>1, <2>2, <3>2 DEF IsNew
  <2>7. Whole(W!New(u, c, w, r), rt, ws)
    BY <2>1, <2>4, <2>5, <2>6, NewKeeps
  <2> QED
    BY <1>2, <1>4, <2>1, <2>3, <2>7 DEF ControlsInv
<1> QED
  BY <1>7, <1>8 DEF W!CreateNewWindow, W!CreateWindowFromNib

(* A control that is made joins a tree or is one by itself.                *)
LEMMA OneMoreKeeps ==
  ASSUME NoView \notin Controls, NoWindow \notin Windows, ControlsInv, NEW c \in Controls,
         \/ W!HIScrollViewCreate(c)
         \/ \E w \in Windows : W!HIViewGetRoot(w, c) \/ W!CreateScrollingTextBoxControl(w, c)
  PROVE  ControlsInv'
<1> DEFINE ws == W!ToSet(windows)
<1>1. UNCHANGED <<windows, current_port>> /\ ~view[c].live
  BY DEF W!HIScrollViewCreate, W!HIViewGetRoot, W!CreateScrollingTextBoxControl,
         W!windowVars, W!Live
<1>2. Whole(view, root, ws)
  BY DEF ControlsInv
<1> HIDE DEF ws
<1>3. CASE W!HIScrollViewCreate(c)
  <2>1. view' = W!New(view, c, NoWindow, NoView) /\ root' = root
    BY <1>3 DEF W!HIScrollViewCreate, W!windowVars
  <2>2. Whole(W!New(view, c, NoWindow, NoView), root, ws)
    BY <1>1, <1>2, NewKeeps
  <2> QED
    BY <1>1, <2>1, <2>2 DEF ControlsInv, ws
<1>4. ASSUME NEW w \in Windows, W!HIViewGetRoot(w, c)
      PROVE  ControlsInv'
  <2>1. /\ view' = W!New(view, c, w, NoView) /\ root' = [root EXCEPT ![w] = c]
        /\ w \in Windows \cap ws /\ root[w] = NoView
    BY <1>4 DEF W!HIViewGetRoot, ws
  <2>2. PICK rt : rt = [root EXCEPT ![w] = c]
    OBVIOUS
  <2>3. Whole(W!New(view, c, w, NoView), rt, ws)
    BY <1>1, <1>2, <2>1, <2>2, NewKeeps
  <2> QED
    BY <1>1, <2>1, <2>2, <2>3 DEF ControlsInv, ws
<1>5. ASSUME NEW w \in Windows, W!CreateScrollingTextBoxControl(w, c)
      PROVE  ControlsInv'
  <2>1. view' = W!New(view, c, w, root[w]) /\ root' = root /\ root[w] # NoView
    BY <1>5 DEF W!CreateScrollingTextBoxControl, W!windowVars
  <2>2. PICK p : p = root[w]
    OBVIOUS
  <2>3. Whole(W!New(view, c, w, p), root, ws)
    BY <1>1, <1>2, <2>1, <2>2, NewKeeps
  <2> QED
    BY <1>1, <2>1, <2>2, <2>3 DEF ControlsInv, ws
<1> QED
  BY <1>3, <1>4, <1>5

(* dispose_control, of a control or of a window's root.                    *)
LEMMA DisposedKeeps ==
  ASSUME NoView \notin Controls, NoWindow \notin Windows,
         NEW ws, Whole(view, root, ws), NEW c \in Controls, view[c].live,
         W!dispose_control(c)
  PROVE  Whole(view', root', ws) /\ \A w \in Windows : root[w] = c => root'[w] = NoView
<1>1. view \in Views
  BY DEF Whole
<1>2. PICK gone : gone = Under(Kids(view), c)
  OBVIOUS
<1>3. gone = W!Below(c)
  BY <1>1, <1>2, BelowIsUnder
<1>4. /\ view' = [d \in Controls |-> IF d \in gone THEN W!NoControl ELSE W!Unlinked(view, c)[d]]
      /\ root' = [w \in Windows |-> IF root[w] \in gone THEN NoView ELSE root[w]]
  BY <1>3 DEF W!dispose_control
<1>5. c \in gone
  <2>1. Kids(view) \in [Controls -> SUBSET Controls]
    BY <1>1, KidsAre
  <2> QED
    BY <1>2, <2>1, UnderIsClosed
<1>6. PICK n, r : n = view' /\ r = root'
  OBVIOUS
<1>7. Whole(n, r, ws)
  BY <1>2, <1>4, <1>6, DisposeKeeps
<1> QED
  BY <1>4, <1>5, <1>6, <1>7

(* DisposeControl takes a tree out of a tree, DisposeWindow takes a whole  *)
(* one and the window with it.                                             *)
LEMMA DisposalsKeep ==
  ASSUME NoView \notin Controls, NoWindow \notin Windows, AnswersInv, ControlsInv,
         (\E c \in Controls : W!DisposeControl(c)) \/ \E w \in Windows : W!DisposeWindow(w)
  PROVE  ControlsInv'
<1> DEFINE ws == W!ToSet(windows)
<1>1. Whole(view, root, ws) /\ root \in [Windows -> Controls \cup {NoView}]
  BY DEF ControlsInv, Whole
<1> HIDE DEF ws
<1>2. ASSUME NEW c \in Controls, W!DisposeControl(c)
      PROVE  ControlsInv'
  <2>1. W!dispose_control(c) /\ view[c].live /\ UNCHANGED <<windows, current_port>>
    BY <1>2 DEF W!DisposeControl, W!Live
  <2>2. Whole(view', root', ws)
    BY <1>1, <2>1, DisposedKeeps
  <2> QED
    BY <2>1, <2>2 DEF ControlsInv, ws
<1>3. ASSUME NEW w \in Windows, W!DisposeWindow(w)
      PROVE  ControlsInv'
  <2>1. /\ current_port' = IF current_port = w THEN NoWindow ELSE current_port
        /\ IF root[w] = NoView THEN UNCHANGED <<root, view>> ELSE W!dispose_control(root[w])
    BY <1>3 DEF W!DisposeWindow, W!Forgotten
  <2>2. PICK vs : vs = W!ToSet(windows') /\ vs = ws \ {w}
    BY <1>3, DisposeAnswers DEF ws
  <2>3. current_port' \in vs \cup {NoWindow}
    BY <2>1, <2>2 DEF ControlsInv, ws
  <2>4. Whole(view', root', ws) /\ root'[w] = NoView
    <3>1. CASE root[w] = NoView
      <4>1. view' = view /\ root' = root
        BY <2>1, <3>1
      <4> QED
        BY <1>1, <3>1, <4>1
    <3>2. CASE root[w] # NoView
      <4>1. PICK c \in Controls : c = root[w]
        BY <1>1, <3>2
      <4>2. view[c].live
        BY <1>1, <3>2, <4>1 DEF Whole, IsRoot
      <4>3. W!dispose_control(c)
        BY <2>1, <3>2, <4>1
      <4> QED
        BY <1>1, <4>1, <4>2, <4>3, DisposedKeeps
    <3> QED
      BY <3>1, <3>2
  <2>5. PICK n, r : n = view' /\ r = root'
    OBVIOUS
  <2>6. \A x \in Windows : x \in ws /\ r[x] # NoView => x \in vs
    BY <2>2, <2>4, <2>5
  <2>7. Whole(n, r, vs)
    BY <2>4, <2>5, <2>6, WholeInList
  <2> QED
    BY <2>2, <2>3, <2>5, <2>7 DEF ControlsInv
<1> QED
  BY <1>2, <1>3

(* HIViewAddSubview moves a tree.                                          *)
LEMMA SubviewKeeps ==
  ASSUME NoView \notin Controls, NoWindow \notin Windows, ControlsInv,
         NEW p \in Controls, NEW c \in Controls, W!HIViewAddSubview(p, c)
  PROVE  ControlsInv'
<1>1. /\ view[p].live /\ view[c].live /\ p \notin W!Below(c) /\ c \notin W!Range(root)
      /\ \A d \in W!Below(c) \ {c} : view[d].window \in {NoWindow, view[p].window}
      /\ view' = [W!Unlinked(view, c) EXCEPT
                    ![c].window = view[p].window, ![c].parent = p,
                    ![p].children = Append(@, c)]
      /\ UNCHANGED <<windows, root, current_port>>
  BY DEF W!HIViewAddSubview, W!Live, W!windowVars
<1>2. PICK ws : ws = W!ToSet(windows) /\ Whole(view, root, ws)
  BY DEF ControlsInv
<1>3. W!Below(c) = Under(Kids(view), c)
  BY <1>2, BelowIsUnder DEF Whole
<1>4. \A w \in Windows : root[w] # c
  BY <1>1, <1>2 DEF W!Range, Whole
<1>5. PICK m : m = MovedTo(view, c, p)
  OBVIOUS
<1>6. /\ p \notin Under(Kids(view), c)
      /\ \A d \in Under(Kids(view), c) : d # c => view[d].window \in {NoWindow, view[p].window}
  BY <1>1, <1>3
<1>7. Whole(m, root, ws)
  BY <1>1, <1>2, <1>4, <1>5, <1>6, MoveKeeps
<1>8. view' = m
  BY <1>1, <1>5 DEF MovedTo
<1> QED
  BY <1>1, <1>2, <1>7, <1>8 DEF ControlsInv

(* Any step.                                                               *)
LEMMA ControlsKept ==
  ASSUME NoView \notin Controls, NoWindow \notin Windows, MaxLoops \in Nat,
         AnswersInv, ControlsInv, [W!Next]_(W!vars)
  PROVE  ControlsInv'
<1>1. ASSUME UNCHANGED <<windows, current_port, view, root>>
      PROVE  ControlsInv'
  BY <1>1 DEF ControlsInv
<1>2. ASSUME NEW w \in Windows, W!CreateNewWindow(w) \/ W!CreateWindowFromNib(w)
      PROVE  ControlsInv'
  BY <1>2, CreateKeeps
<1>3. ASSUME NEW w \in Windows, W!BringToFront(w)
      PROVE  ControlsInv'
  <2>1. UNCHANGED <<view, root, current_port>>
    BY <1>3 DEF W!BringToFront
  <2> QED
    BY <1>3, <2>1, FrontAnswers, ListStays DEF ControlsInv
<1>4. ASSUME NEW w \in Windows, W!SetPortWindowPort(w)
      PROVE  ControlsInv'
  BY <1>4, ListStays DEF W!SetPortWindowPort
<1>5. ASSUME \/ \E w \in Windows : \/ W!ShowOrHide(w) \/ W!RunAppModalLoopForWindow(w)
                                   \/ W!QuitAppModalLoopForWindow(w)
             \/ W!RunApplicationEventLoop \/ W!loop_hook \/ W!HandlesEvent \/ W!HandlerReturns
             \/ W!IterationEnds \/ UNCHANGED W!vars
      PROVE  ControlsInv'
  <2>1. UNCHANGED <<windows, current_port, view, root>>
    BY <1>5 DEF W!ShowOrHide, W!RunAppModalLoopForWindow, W!QuitAppModalLoopForWindow,
                W!RunApplicationEventLoop, W!RunsLoop, W!loop_hook, W!HandlesEvent,
                W!HandlerReturns, W!IterationEnds, W!windowVars, W!vars
  <2> QED
    BY <1>1, <2>1
<1>6. ASSUME NEW c \in Controls,
             \/ W!HIScrollViewCreate(c)
             \/ \E w \in Windows : \/ W!HIViewGetRoot(w, c)
                                   \/ W!CreateScrollingTextBoxControl(w, c)
      PROVE  ControlsInv'
  BY <1>6, OneMoreKeeps
<1>7. ASSUME NEW p \in Controls, NEW c \in Controls, W!HIViewAddSubview(p, c)
      PROVE  ControlsInv'
  BY <1>7, SubviewKeeps
<1>8. ASSUME (\E c \in Controls : W!DisposeControl(c)) \/ \E w \in Windows : W!DisposeWindow(w)
      PROVE  ControlsInv'
  BY <1>8, DisposalsKeep
<1> QED
  BY <1>2, <1>3, <1>4, <1>5, <1>6, <1>7, <1>8 DEF W!Next

(* Where the windows start.                                                *)
LEMMA WindowsStart ==
  ASSUME MaxLoops \in Nat, W!Init
  PROVE  AnswersInv /\ ControlsInv
<1>1. /\ windows = <<>> /\ frames = <<>> /\ current_port = NoWindow
      /\ visible = [w \in Windows |-> FALSE] /\ from_nib = visible /\ answered = visible
      /\ root = [w \in Windows |-> NoView] /\ sent = [w \in Windows |-> 0]
      /\ view = [c \in Controls |-> W!NoControl]
  BY DEF W!Init
<1>2. /\ <<>> \in Seq(Windows) /\ <<>> \in Seq(LoopFrames) /\ <<>> \in Seq(Controls)
      /\ Len(<<>>) = 0 /\ DOMAIN <<>> = {}
  OBVIOUS
<1>3. W!IsInjective(<<>>)
  BY DEF W!IsInjective
<1>4. ListInv
  BY <1>1, <1>2, <1>3 DEF ListInv
<1>5. LoopsOK(<<>>, W!ToSet(windows), answered)
  BY <1>2 DEF LoopsOK
<1>6. W!NoControl \in ViewRecords /\ W!NoControl.live = FALSE
  BY <1>2 DEF W!NoControl, ViewRecords
<1>7. view \in Views /\ root \in [Windows -> Controls \cup {NoView}]
  BY <1>1, <1>6 DEF Views
<1>8. Whole(view, root, W!ToSet(windows))
  BY <1>1, <1>6, <1>7 DEF Whole
<1> QED
  BY <1>1, <1>4, <1>5, <1>8 DEF AnswersInv, ControlsInv

(* What the invariants say.                                                *)
LEMMA WindowsTold ==
  ASSUME AnswersInv, ControlsInv
  PROVE  W!TypeOK /\ W!AnsweredOnce /\ W!TreesAreWhole
<1>1. /\ view \in Views /\ root \in [Windows -> Controls \cup {NoView}]
      /\ frames \in Seq(LoopFrames) /\ Len(frames) <= MaxLoops
      /\ W!ToSet(windows) \subseteq Windows
  BY DEF AnswersInv, ControlsInv, ListInv, LoopsOK, Whole, W!ToSet
<1>2. W!TypeOK
  <2>1. sent \in [Windows -> Nat]
    BY DEF AnswersInv, ListInv
  <2>2. current_port \in Windows \cup {NoWindow}
    BY <1>1 DEF ControlsInv
  <2> QED
    BY <1>1, <2>1, <2>2 DEF AnswersInv, ListInv, Views, ViewRecords, LoopFrames, W!TypeOK
<1>3. W!AnsweredOnce
  BY <1>1 DEF AnswersInv, ListInv, LoopsOK, W!AnsweredOnce, W!ModalLoops
<1>4. \A w \in W!ToSet(windows) : root[w] # NoView =>
        /\ root[w] \in W!Live /\ view[root[w]].parent = NoView
        /\ \A c \in W!Below(root[w]) : view[c].window \in {w, NoWindow}
  <2> SUFFICES ASSUME NEW w \in Windows, root[w] # NoView
               PROVE  /\ root[w] \in W!Live /\ view[root[w]].parent = NoView
                      /\ \A c \in W!Below(root[w]) : view[c].window \in {w, NoWindow}
    BY <1>1
  <2>1. IsRoot(view, root, W!ToSet(windows), w) /\ root[w] \in Controls
    BY <1>1 DEF ControlsInv, Whole
  <2>2. W!Below(root[w]) = Under(Kids(view), root[w])
    BY <1>1, <2>1, BelowIsUnder
  <2> QED
    BY <2>1, <2>2 DEF IsRoot, W!Live
<1>5. ASSUME NEW c \in W!Live
      PROVE  /\ view[c].window \in W!ToSet(windows) \cup {NoWindow}
             /\ W!IsInjective(view[c].children)
             /\ \A d \in W!Live : d \in W!ToSet(view[c].children) <=> view[d].parent = c
             /\ W!ToSet(view[c].children) \cup {view[c].parent} \subseteq W!Live \cup {NoView}
  <2>1. c \in Controls /\ view[c].live
    BY DEF W!Live
  <2>2. IsLinked(view, root, c)
    BY <2>1 DEF ControlsInv, Whole
  <2>3. Kids(view)[c] = W!ToSet(view[c].children) /\ Kids(view)[c] \subseteq Controls
    BY <1>1, <2>1, KidsAre
  <2>4. view[c].window \in Windows \cup {NoWindow} /\ view[c].parent \in Controls \cup {NoView}
    BY <1>1, <2>1 DEF Views, ViewRecords
  <2>5. view[c].window \in W!ToSet(windows) \cup {NoWindow}
    <3>1. ASSUME view[c].window # NoWindow
          PROVE  view[c].window \in W!ToSet(windows)
      <4>1. root[view[c].window] # NoView /\ view[c].window \in Windows
        BY <2>2, <2>4, <3>1 DEF IsLinked
      <4> QED
        BY <4>1 DEF ControlsInv, Whole, IsRoot
    <3> QED
      BY <3>1
  <2>6. \A d \in W!ToSet(view[c].children) : d \in W!Live
    BY <2>2, <2>3 DEF IsLinked, W!Live
  <2>7. view[c].parent \in W!Live \cup {NoView}
    BY <2>2, <2>4 DEF IsLinked, W!Live
  <2>8. \A d \in W!Live : d \in W!ToSet(view[c].children) <=> view[d].parent = c
    BY <2>2, <2>3 DEF IsLinked, W!Live
  <2>9. W!IsInjective(view[c].children)
    BY <2>2 DEF IsLinked
  <2> QED
    BY <2>5, <2>6, <2>7, <2>8, <2>9
<1>6. W!TreesAreWhole
  BY <1>4, <1>5 DEF W!TreesAreWhole, ControlsInv
<1> QED
  BY <1>2, <1>3, <1>6

(* The window of a modal loop that runs the game's handlers has been sent  *)
(* its button's command, and no window is sent it twice, however the       *)
(* handlers make windows, nest loops and quit them.                        *)
THEOREM DialogsAnswered == PartSpec => []DialogsAreAnswered
<1>1. PartInit => AnswersInv /\ ControlsInv
  BY BoundsAreNumbers, WindowsStart DEF PartInit
<1>2. AnswersInv /\ ControlsInv /\ [PartNext]_partVars => AnswersInv' /\ ControlsInv'
  BY NullIsNoWindow, NullIsNoView, BoundsAreNumbers, AnswersKept, ControlsKept, PartSteps
<1>3. AnswersInv /\ ControlsInv => DialogsAreAnswered
  BY WindowsTold DEF DialogsAreAnswered
<1> QED
  BY <1>1, <1>2, <1>3, PTL DEF PartSpec

(* Controls that are made, moved and disposed of in any order leave each   *)
(* in the list of its parent and in no other, every tree with one window,  *)
(* no root and no port of a window that is gone.                           *)
THEOREM ControlsWhole == PartSpec => []ControlsAreWhole
<1>1. PartInit => AnswersInv /\ ControlsInv
  BY BoundsAreNumbers, WindowsStart DEF PartInit
<1>2. AnswersInv /\ ControlsInv /\ [PartNext]_partVars => AnswersInv' /\ ControlsInv'
  BY NullIsNoWindow, NullIsNoView, BoundsAreNumbers, AnswersKept, ControlsKept, PartSteps
<1>3. AnswersInv /\ ControlsInv => ControlsAreWhole
  BY WindowsTold DEF ControlsAreWhole
<1> QED
  BY <1>1, <1>2, <1>3, PTL DEF PartSpec

(* The variables of all four parts have their types.                       *)
THEOREM PartsOfEventsAreTyped == PartSpec => []TypesOK
<1> DEFINE Inv == /\ HandlersInv /\ QueueInv /\ InputInv /\ InputTyped
                  /\ AnswersInv /\ ControlsInv
<1>1. PartInit => Inv
  <2>1. PartInit => HandlersInv
    BY HandlersStart DEF PartInit
  <2>2. PartInit => QueueInv
    BY QueueHasRoom, QueueStarts DEF PartInit
  <2>3. PartInit => InputInv
    BY DEF PartInit, I!Init, InputInv, I!PointerIsFree, Left
  <2>4. PartInit => InputTyped
    <3>1. 0 \in 0..MaxHides
      BY BoundsAreNumbers
    <3>2. PartInit => /\ pressed = {} /\ down = {}
                      /\ focus = NoWindow /\ game_window = NoWindow
                      /\ cursor_hidden = 0 /\ hide_requests = 0
                      /\ warped = FALSE /\ relative = FALSE /\ pumping = FALSE
      BY DEF PartInit, I!Init
    <3>3. PartInit => cursor_hidden <= hide_requests
      BY <3>2
    <3>4. PartInit => I!TypeOK
      BY <3>1, <3>2, Zenon DEF I!TypeOK
    <3> QED
      BY <3>3, <3>4 DEF InputTyped
  <2>5. PartInit => AnswersInv /\ ControlsInv
    BY BoundsAreNumbers, WindowsStart DEF PartInit
  <2> QED
    BY <2>1, <2>2, <2>3, <2>4, <2>5
<1>2. Inv /\ [PartNext]_partVars => Inv'
  <2> SUFFICES ASSUME Inv, [PartNext]_partVars PROVE Inv'
    OBVIOUS
  <2>1. HandlersInv'
    BY HandlersKept, PartSteps
  <2>2. QueueInv'
    BY QueueHasRoom, QueueKept, PartSteps
  <2>3. InputInv'
    BY NullIsNoWindow, InputKept, PartSteps
  <2>4. InputTyped'
    BY BoundsAreNumbers, InputTypesKept, PartSteps
  <2>5. AnswersInv' /\ ControlsInv'
    BY NullIsNoWindow, NullIsNoView, BoundsAreNumbers, AnswersKept, ControlsKept, PartSteps
  <2> QED
    BY <2>1, <2>2, <2>3, <2>4, <2>5
<1>3. Inv => TypesOK
  <2>1. Inv => W!TypeOK
    BY WindowsTold
  <2>2. Inv => TypeOK
    BY DEF HandlersInv
  <2>3. Inv => Q!TypeOK
    BY DEF QueueInv
  <2>4. Inv => I!TypeOK
    BY DEF InputTyped
  <2> QED
    BY <2>1, <2>2, <2>3, <2>4 DEF TypesOK
<1> QED
  BY <1>1, <1>2, <1>3, PTL DEF PartSpec
=============================================================================
