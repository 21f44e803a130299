-------------------------- MODULE EventLoopsProofs --------------------------
(* Theorems about EventLoops, for any windows, any input and any depth,    *)
(* and about EventTimers, for any timers, delays and runs, as MCLoops has  *)
(* them.                                                                   *)
EXTENDS MCLoops, Lists, SequenceTheorems

-----------------------------------------------------------------------------
(* The place of a loop among the loops of its kind, outermost first.       *)
Place(loops, i) == Cardinality({j \in loops : j <= i})

(* One more loop on top leaves the places of the others, and has the last. *)
LEMMA PlaceOnPush ==
  ASSUME NEW n \in Nat, NEW loops \in SUBSET (1..n)
  PROVE  /\ IsFiniteSet(loops) /\ Cardinality(loops) \in 0..n
         /\ Cardinality(loops \cup {n + 1}) = Cardinality(loops) + 1
         /\ Place(loops \cup {n + 1}, n + 1) = Cardinality(loops) + 1
         /\ \A i \in loops : Place(loops \cup {n + 1}, i) = Place(loops, i)
<1>1. IsFiniteSet(1..n) /\ Cardinality(1..n) = n
  BY FS_Interval
<1>2. IsFiniteSet(loops) /\ Cardinality(loops) <= n
  BY <1>1, FS_Subset
<1>3. Cardinality(loops) \in 0..n
  BY <1>2, FS_CardinalityType
<1>4. n + 1 \notin loops
  OBVIOUS
<1>5. Cardinality(loops \cup {n + 1}) = Cardinality(loops) + 1
  BY <1>2, <1>4, FS_AddElement
<1>6. {j \in loops \cup {n + 1} : j <= n + 1} = loops \cup {n + 1}
  <2>1. \A j \in loops \cup {n + 1} : j <= n + 1
    OBVIOUS
  <2> QED
    BY <2>1
<1>7. ASSUME NEW i \in loops
      PROVE  {j \in loops \cup {n + 1} : j <= i} = {j \in loops : j <= i}
  <2>0. loops \subseteq 1..n
    OBVIOUS
  <2>1. i \in Nat /\ ~(n + 1 <= i)
    BY <2>0
  <2> QED
    BY <2>1
<1> QED
  BY <1>2, <1>3, <1>5, <1>6, <1>7 DEF Place

(* The loop on top has the last place, and leaves the others theirs.       *)
LEMMA PlaceOnPop ==
  ASSUME NEW n \in Nat, NEW loops \in SUBSET (1..n), n \in loops
  PROVE  /\ Place(loops, n) = Cardinality(loops)
         /\ Cardinality(loops) \in 1..n
         /\ Cardinality(loops \ {n}) = Cardinality(loops) - 1
         /\ \A i \in loops \ {n} : /\ Place(loops \ {n}, i) = Place(loops, i)
                                   /\ Place(loops, i) <= Cardinality(loops) - 1
                                   /\ Place(loops, i) \in Nat
<1>1. IsFiniteSet(loops) /\ Cardinality(loops) \in 0..n
  BY PlaceOnPush
<1>2. Cardinality(loops \ {n}) = Cardinality(loops) - 1 /\ IsFiniteSet(loops \ {n})
  BY <1>1, FS_RemoveElement
<1>3. {j \in loops : j <= n} = loops
  <2>1. \A j \in loops : j <= n
    OBVIOUS
  <2> QED
    BY <2>1
<1>4. Cardinality(loops) # 0
  BY <1>1, FS_EmptySet
<1>5. ASSUME NEW i \in loops \ {n}
      PROVE  /\ Place(loops \ {n}, i) = Place(loops, i)
             /\ Place(loops, i) <= Cardinality(loops) - 1
             /\ Place(loops, i) \in Nat
  <2> DEFINE before == {j \in loops : j <= i}
  <2>1. before = {j \in loops \ {n} : j <= i} /\ before \subseteq loops \ {n}
    <3>0. loops \subseteq 1..n
      OBVIOUS
    <3>1. i \in 1..n /\ i # n
      BY <3>0
    <3>2. ~(n <= i)
      BY <3>1
    <3> QED
      BY <3>2
  <2> HIDE DEF before
  <2>2. /\ Cardinality(before) <= Cardinality(loops \ {n})
        /\ Cardinality(before) \in Nat
    BY <1>2, <2>1, FS_Subset, FS_CardinalityType
  <2> QED
    BY <1>2, <2>1, <2>2 DEF Place, before
<1> QED
  BY <1>1, <1>2, <1>3, <1>4, <1>5 DEF Place

-----------------------------------------------------------------------------
(* The inductive invariant.                                                *)

Typed ==
  /\ modal_loops \in Seq([window : Windows, quit : BOOLEAN])
  /\ pending \in Seq(Classes) /\ queue \in Seq(Classes)
  /\ stack \in Seq(Frames) /\ Len(stack) <= MaxDepth

(* Loops are counted as they are nested: an application loop's depth is    *)
(* its place among those on the stack, and a modal loop found as many      *)
(* records as there were modal loops around it.                            *)
Counted ==
  /\ application_loops = Cardinality(AppFrames)
  /\ application_quit \in 0..application_loops
  /\ \A i \in AppFrames : stack[i].depth = Place(AppFrames, i)
  /\ Len(modal_loops) = Cardinality(ModalFrames)
  /\ \A i \in ModalFrames : stack[i].outer = Place(ModalFrames, i) - 1

LoopInv == Typed /\ Counted /\ QuitsWhatRan

(* A frame's kind, and what is counted by it, are as they were.            *)
SameFrame(f, g) ==
  /\ f.kind = g.kind /\ f.depth = g.depth /\ f.asked = g.asked /\ f.outer = g.outer

(* A step that starts and ends no loop and asks none to quit.              *)
LEMMA SameLoops ==
  ASSUME LoopInv, Typed', UNCHANGED appVars, Len(modal_loops') = Len(modal_loops),
         AppFrames' = AppFrames, ModalFrames' = ModalFrames,
         \A i \in AppFrames \cup ModalFrames : SameFrame(stack'[i], stack[i])
  PROVE  LoopInv'
<1>1. Counted'
  BY DEF LoopInv, Counted, SameFrame, appVars
<1>2. QuitsWhatRan'
  BY DEF LoopInv, QuitsWhatRan, SameFrame, appVars
<1> QED
  BY <1>1, <1>2 DEF LoopInv

(* What the stack is like when something is put on top of it,              *)
LEMMA Pushes ==
  ASSUME Typed, NEW f \in Frames, Calls(f)
  PROVE  /\ stack' \in Seq(Frames) /\ Len(stack') = Len(stack) + 1
         /\ Len(stack') <= MaxDepth /\ Len(stack) \in Nat
         /\ DOMAIN stack = 1..Len(stack) /\ DOMAIN stack' = 1..Len(stack) + 1
         /\ stack'[Len(stack) + 1] = f
         /\ \A i \in DOMAIN stack : stack'[i] = stack[i]
BY LoopBounds DEF Typed, Calls

(* taken off,                                                              *)
LEMMA Pops ==
  ASSUME Typed, stack # <<>>
  PROVE  /\ Popped \in Seq(Frames) /\ Len(Popped) = Len(stack) - 1
         /\ Len(stack) \in 1..MaxDepth /\ Top = stack[Len(stack)] /\ Top \in Frames
         /\ DOMAIN stack = 1..Len(stack) /\ DOMAIN Popped = 1..Len(stack) - 1
         /\ \A i \in DOMAIN Popped : Popped[i] = stack[i]
<1>1. Len(stack) \in Nat /\ Len(stack) # 0 /\ DOMAIN stack = 1..Len(stack)
  BY DEF Typed
<1>2. \A i \in 1..Len(stack) : stack[i] \in Frames
  BY <1>1 DEF Typed
<1>3. /\ Popped \in Seq(Frames) /\ Len(Popped) = Len(stack) - 1
      /\ \A i \in 1..Len(stack) - 1 : Popped[i] = stack[i]
  BY <1>1, <1>2 DEF Popped
<1>4. Top = stack[Len(stack)] /\ Top \in Frames
  BY <1>1, <1>2 DEF Top
<1>5. Len(stack) \in 1..MaxDepth
  BY <1>1, LoopBounds DEF Typed
<1>6. DOMAIN Popped = 1..Len(stack) - 1
  BY <1>3
<1> QED
  BY <1>1, <1>3, <1>4, <1>5, <1>6

(* or changed.                                                             *)
LEMMA Changes ==
  ASSUME Typed, stack # <<>>, NEW f \in Frames, Becomes(f)
  PROVE  /\ stack' \in Seq(Frames) /\ Len(stack') = Len(stack)
         /\ DOMAIN stack' = DOMAIN stack /\ stack'[Len(stack)] = f
         /\ \A i \in DOMAIN stack \ {Len(stack)} : stack'[i] = stack[i]
<1>1. /\ Popped \in Seq(Frames) /\ Len(Popped) = Len(stack) - 1
      /\ Len(stack) \in Nat /\ DOMAIN stack = 1..Len(stack)
      /\ \A i \in DOMAIN Popped : Popped[i] = stack[i]
      /\ DOMAIN Popped = 1..Len(stack) - 1
  BY Pops
<1>2. stack' = Append(Popped, f)
  BY DEF Becomes
<1> HIDE DEF Popped
<1>3. /\ stack' \in Seq(Frames) /\ Len(stack') = Len(stack)
      /\ stack'[Len(stack)] = f
      /\ \A i \in 1..Len(stack) - 1 : stack'[i] = Popped[i]
  BY <1>1, <1>2
<1>4. DOMAIN stack' = DOMAIN stack
  BY <1>1, <1>3
<1> QED
  BY <1>1, <1>3, <1>4

-----------------------------------------------------------------------------
(* Steps that leave the loops as they are.                                 *)

(* A procedure, or a call that polls, on top;                              *)
LEMMA PushesOther ==
  ASSUME LoopInv, NEW f \in Frames, f.kind \notin {"app", "modal"}, Calls(f),
         UNCHANGED <<appVars, modal_loops>>,
         pending' \in Seq(Classes), queue' \in Seq(Classes)
  PROVE  LoopInv'
<1> USE DEF LoopInv
<1>1. /\ stack' \in Seq(Frames) /\ Len(stack') <= MaxDepth /\ Len(stack) \in Nat
      /\ DOMAIN stack = 1..Len(stack) /\ DOMAIN stack' = 1..Len(stack) + 1
      /\ stack'[Len(stack) + 1] = f
      /\ \A i \in DOMAIN stack : stack'[i] = stack[i]
  BY Pushes
<1>2. DOMAIN stack' = DOMAIN stack \cup {Len(stack) + 1}
  BY <1>1
<1>3. AppFrames' = AppFrames /\ ModalFrames' = ModalFrames
  BY <1>1, <1>2 DEF AppFrames, ModalFrames
<1>4. \A i \in AppFrames \cup ModalFrames : SameFrame(stack'[i], stack[i])
  BY <1>1 DEF AppFrames, ModalFrames, SameFrame
<1>5. Typed'
  BY <1>1 DEF Typed
<1> QED
  BY <1>3, <1>4, <1>5, SameLoops

(* one taken off;                                                          *)
LEMMA PopsOther ==
  ASSUME LoopInv, stack # <<>>, Top.kind \notin {"app", "modal"}, stack' = Popped,
         UNCHANGED <<appVars, modal_loops>>,
         pending' \in Seq(Classes), queue' \in Seq(Classes)
  PROVE  LoopInv'
<1> USE DEF LoopInv
<1>1. /\ stack' \in Seq(Frames) /\ Len(stack') = Len(stack) - 1
      /\ Len(stack) \in 1..MaxDepth /\ Top = stack[Len(stack)]
      /\ DOMAIN stack = 1..Len(stack) /\ DOMAIN stack' = 1..Len(stack) - 1
      /\ \A i \in DOMAIN stack' : stack'[i] = stack[i]
  BY Pops
<1>2. DOMAIN stack' = DOMAIN stack \ {Len(stack)}
  BY <1>1
<1>3. AppFrames' = AppFrames /\ ModalFrames' = ModalFrames
  BY <1>1, <1>2 DEF AppFrames, ModalFrames
<1>4. \A i \in AppFrames \cup ModalFrames : SameFrame(stack'[i], stack[i])
  BY <1>1, <1>2 DEF AppFrames, ModalFrames, SameFrame
<1>5. Typed'
  BY <1>1, LoopBounds DEF Typed
<1> QED
  BY <1>3, <1>4, <1>5, SameLoops

(* the top going on to its next phase;                                     *)
LEMMA ChangesTop ==
  ASSUME LoopInv, stack # <<>>, NEW f \in Frames, SameFrame(f, Top), Becomes(f),
         UNCHANGED <<appVars, modal_loops>>,
         pending' \in Seq(Classes), queue' \in Seq(Classes)
  PROVE  LoopInv'
<1> USE DEF LoopInv
<1>1. /\ stack' \in Seq(Frames) /\ Len(stack') = Len(stack)
      /\ DOMAIN stack' = DOMAIN stack /\ stack'[Len(stack)] = f
      /\ Len(stack) \in DOMAIN stack /\ Top = stack[Len(stack)]
      /\ \A i \in DOMAIN stack \ {Len(stack)} : stack'[i] = stack[i]
  BY Pops, Changes
<1>2. \A i \in DOMAIN stack : SameFrame(stack'[i], stack[i])
  BY <1>1 DEF SameFrame
<1>3. AppFrames' = AppFrames /\ ModalFrames' = ModalFrames
  BY <1>1, <1>2 DEF AppFrames, ModalFrames, SameFrame
<1>4. \A i \in AppFrames \cup ModalFrames : SameFrame(stack'[i], stack[i])
  BY <1>2 DEF AppFrames, ModalFrames
<1>5. Typed'
  BY <1>1 DEF Typed
<1> QED
  BY <1>3, <1>4, <1>5, SameLoops

(* nothing of the stack;                                                   *)
LEMMA KeepsStack ==
  ASSUME LoopInv, UNCHANGED <<appVars, stack>>, Len(modal_loops') = Len(modal_loops),
         modal_loops' \in Seq([window : Windows, quit : BOOLEAN]),
         pending' \in Seq(Classes), queue' \in Seq(Classes)
  PROVE  LoopInv'
<1>1. AppFrames' = AppFrames /\ ModalFrames' = ModalFrames
  BY DEF AppFrames, ModalFrames
<1>2. Typed'
  BY DEF LoopInv, Typed
<1>3. \A i \in AppFrames \cup ModalFrames : SameFrame(stack'[i], stack[i])
  BY DEF SameFrame
<1> QED
  BY <1>1, <1>2, <1>3, SameLoops

-----------------------------------------------------------------------------
(* Loops that start, end, and are asked to.                                *)

(* QuitApplicationEventLoop, also when a procedure that returns leaves a   *)
(* Quit command to it, asks every application loop: none is deeper than    *)
(* the counter it sets.                                                    *)
LEMMA AsksToQuit ==
  ASSUME LoopInv, NEW st \in Seq(Frames), Len(st) <= MaxDepth, Quits(st),
         \A i \in DOMAIN st : i \in DOMAIN stack /\ st[i] = stack[i],
         \A i \in DOMAIN stack : stack[i].kind \in {"app", "modal"} => i \in DOMAIN st,
         UNCHANGED <<application_loops, modal_loops>>,
         pending' \in Seq(Classes), queue' \in Seq(Classes)
  PROVE  LoopInv'
<1> USE DEF LoopInv
<1> DEFINE F(i) == IF st[i].kind = "app" THEN [st[i] EXCEPT !.asked = TRUE] ELSE st[i]
<1>1. \A i \in DOMAIN st : /\ F(i) \in Frames /\ F(i).kind = st[i].kind
                           /\ F(i).depth = st[i].depth /\ F(i).outer = st[i].outer
                           /\ F(i).kind = "app" => F(i).asked = TRUE
  <2> TAKE i \in DOMAIN st
  <2>1. st[i] \in Frames
    OBVIOUS
  <2> QED
    BY <2>1, ZenonT(60) DEF Frames
<1>2. stack' = [i \in DOMAIN st |-> F(i)]
  BY DEF Quits
<1>3. application_quit' = application_loops /\ application_loops \in Nat
  <2>1. IsFiniteSet(AppFrames)
    <3>1. AppFrames \subseteq 1..Len(stack) /\ Len(stack) \in Nat
      BY DEF AppFrames, Typed
    <3> QED
      BY <3>1, PlaceOnPush
  <2>2. application_loops \in Nat
    BY <2>1, FS_CardinalityType DEF Counted
  <2> QED
    BY <2>2 DEF Quits, Counted
<1> HIDE DEF F
<1>4. /\ stack' \in Seq(Frames) /\ Len(stack') = Len(st) /\ DOMAIN stack' = DOMAIN st
      /\ \A i \in DOMAIN st : stack'[i] = F(i)
  <2>1. DOMAIN st = 1..Len(st) /\ Len(st) \in Nat
    OBVIOUS
  <2> QED
    BY <2>1, <1>1, <1>2
<1>5. Typed'
  BY <1>4 DEF Typed
<1>6. AppFrames' = AppFrames /\ ModalFrames' = ModalFrames
  BY <1>1, <1>4 DEF AppFrames, ModalFrames
<1>7. Counted'
  <2>1. \A i \in AppFrames \cup ModalFrames :
          stack'[i].depth = stack[i].depth /\ stack'[i].outer = stack[i].outer
    BY <1>1, <1>4 DEF AppFrames, ModalFrames
  <2> QED
    BY <2>1, <1>3, <1>6 DEF Counted
<1>8. QuitsWhatRan'
  <2>1. ASSUME NEW i \in AppFrames
        PROVE  stack'[i].asked = TRUE /\ application_quit' >= stack'[i].depth
    <3>1. i \in DOMAIN st /\ st[i] = stack[i] /\ st[i].kind = "app"
      BY DEF AppFrames
    <3>2. stack'[i] = F(i) /\ F(i).asked = TRUE /\ F(i).depth = stack[i].depth
      BY <3>1, <1>1, <1>4
    <3>3. stack[i].depth <= application_loops
      <4>1. AppFrames \subseteq 1..Len(stack) /\ Len(stack) \in Nat
        BY DEF AppFrames, Typed
      <4>2. IsFiniteSet(AppFrames)
        BY <4>1, PlaceOnPush
      <4>3. {j \in AppFrames : j <= i} \subseteq AppFrames
        OBVIOUS
      <4>4. Place(AppFrames, i) <= Cardinality(AppFrames)
        BY <4>2, <4>3, FS_Subset DEF Place
      <4> QED
        BY <4>4 DEF Counted
    <3>4. stack[i].depth \in Nat
      <4>1. stack[i] \in Frames
        BY <3>1 DEF Typed
      <4> QED
        BY <4>1, LoopBounds DEF Frames
    <3> QED
      BY <3>2, <3>3, <3>4, <1>3
  <2> QED
    BY <2>1, <1>6 DEF QuitsWhatRan
<1> QED
  BY <1>5, <1>7, <1>8

(* An application loop starts inside all the others, and nobody asked it   *)
(* to quit.                                                                *)
LEMMA ApplicationLoopStarts ==
  ASSUME LoopInv, RunApplicationEventLoop
  PROVE  LoopInv'
<1> USE DEF LoopInv
<1> DEFINE n == Len(stack)
           f == [Frame("app", "test") EXCEPT !.depth = application_loops + 1]
<1>1. n \in Nat /\ DOMAIN stack = 1..n /\ n < MaxDepth
  BY DEF Typed, RunApplicationEventLoop, Calls
<1>2. AppFrames \in SUBSET (1..n) /\ ModalFrames \in SUBSET (1..n)
  BY <1>1 DEF AppFrames, ModalFrames
<1>3. /\ application_loops \in 0..n
      /\ Cardinality(AppFrames \cup {n + 1}) = application_loops + 1
      /\ Place(AppFrames \cup {n + 1}, n + 1) = application_loops + 1
      /\ \A i \in AppFrames : Place(AppFrames \cup {n + 1}, i) = Place(AppFrames, i)
  <2>1. application_loops = Cardinality(AppFrames)
    BY DEF Counted
  <2> HIDE DEF n
  <2> QED
    BY <2>1, <1>1, <1>2, PlaceOnPush
<1>4. /\ f \in Frames /\ f.kind = "app" /\ f.asked = FALSE
      /\ f.depth = application_loops + 1
  <2>1. application_loops + 1 \in 0..MaxDepth /\ 0 \in 0..MaxDepth
    BY <1>1, <1>3, LoopBounds
  <2>2. Frame("app", "test") \in Frames
    BY <2>1 DEF Frame, Frames, Classes
  <2> QED
    BY <2>1, <2>2 DEF Frame, Frames
<1> HIDE DEF f
<1>5. /\ stack' \in Seq(Frames) /\ Len(stack') <= MaxDepth
      /\ DOMAIN stack' = DOMAIN stack \cup {n + 1} /\ stack'[n + 1] = f
      /\ \A i \in DOMAIN stack : stack'[i] = stack[i]
  <2>1. Calls(f)
    BY DEF RunApplicationEventLoop, f
  <2>2. DOMAIN stack' = 1..n + 1
    BY <2>1, <1>4, Pushes
  <2>3. DOMAIN stack' = DOMAIN stack \cup {n + 1}
    BY <2>2, <1>1
  <2> QED
    BY <2>1, <2>3, <1>4, Pushes
<1>6. AppFrames' = AppFrames \cup {n + 1} /\ ModalFrames' = ModalFrames
  BY <1>4, <1>5 DEF AppFrames, ModalFrames
<1>7. \A i \in AppFrames \cup ModalFrames : stack'[i] = stack[i]
  BY <1>5 DEF AppFrames, ModalFrames
<1>8. Typed'
  BY <1>5 DEF Typed, RunApplicationEventLoop
<1>9. /\ application_loops' = application_loops + 1
      /\ application_quit' = application_quit /\ modal_loops' = modal_loops
  BY DEF RunApplicationEventLoop
<1> HIDE DEF n
<1>10. Counted'
  <2>1. \A i \in AppFrames' : stack'[i].depth = Place(AppFrames', i)
    BY <1>3, <1>4, <1>5, <1>6, <1>7 DEF Counted
  <2>2. application_quit' \in 0..application_loops'
    BY <1>3, <1>9 DEF Counted
  <2> QED
    BY <2>1, <2>2, <1>3, <1>6, <1>7, <1>9 DEF Counted
<1>11. QuitsWhatRan'
  <2>1. ~(application_quit >= application_loops + 1)
    BY <1>3 DEF Counted
  <2> QED
    BY <2>1, <1>4, <1>5, <1>6, <1>7, <1>9 DEF QuitsWhatRan
<1> QED
  BY <1>8, <1>10, <1>11

(* A modal loop starts with its record in front of those it found.         *)
LEMMA ModalLoopStarts ==
  ASSUME LoopInv, NEW w \in Windows, RunAppModalLoopForWindow(w)
  PROVE  LoopInv'
<1> USE DEF LoopInv
<1> DEFINE n == Len(stack)
           f == [Frame("modal", "test") EXCEPT !.outer = Len(modal_loops)]
<1>1. n \in Nat /\ DOMAIN stack = 1..n /\ n < MaxDepth
  BY DEF Typed, RunAppModalLoopForWindow, Calls
<1>2. AppFrames \in SUBSET (1..n) /\ ModalFrames \in SUBSET (1..n)
  BY <1>1 DEF AppFrames, ModalFrames
<1>3. /\ Len(modal_loops) \in 0..n
      /\ Cardinality(ModalFrames \cup {n + 1}) = Len(modal_loops) + 1
      /\ Place(ModalFrames \cup {n + 1}, n + 1) = Len(modal_loops) + 1
      /\ \A i \in ModalFrames : Place(ModalFrames \cup {n + 1}, i) = Place(ModalFrames, i)
  <2>1. Len(modal_loops) = Cardinality(ModalFrames)
    BY DEF Counted
  <2> HIDE DEF n
  <2> QED
    BY <2>1, <1>1, <1>2, PlaceOnPush
<1>4. f \in Frames /\ f.kind = "modal" /\ f.outer = Len(modal_loops)
  <2>1. Len(modal_loops) \in 0..MaxDepth /\ 0 \in 0..MaxDepth
    BY <1>1, <1>3, LoopBounds
  <2>2. Frame("modal", "test") \in Frames
    BY <2>1 DEF Frame, Frames, Classes
  <2> QED
    BY <2>1, <2>2 DEF Frame, Frames
<1> HIDE DEF f
<1>5. /\ stack' \in Seq(Frames) /\ Len(stack') <= MaxDepth
      /\ DOMAIN stack' = DOMAIN stack \cup {n + 1} /\ stack'[n + 1] = f
      /\ \A i \in DOMAIN stack : stack'[i] = stack[i]
  <2>1. Calls(f)
    BY DEF RunAppModalLoopForWindow, f
  <2>2. DOMAIN stack' = 1..n + 1
    BY <2>1, <1>4, Pushes
  <2>3. DOMAIN stack' = DOMAIN stack \cup {n + 1}
    BY <2>2, <1>1
  <2> QED
    BY <2>1, <2>3, <1>4, Pushes
<1>6. ModalFrames' = ModalFrames \cup {n + 1} /\ AppFrames' = AppFrames
  BY <1>4, <1>5 DEF AppFrames, ModalFrames
<1>7. \A i \in AppFrames \cup ModalFrames : stack'[i] = stack[i]
  BY <1>5 DEF AppFrames, ModalFrames
<1>8. /\ modal_loops' \in Seq([window : Windows, quit : BOOLEAN])
      /\ Len(modal_loops') = Len(modal_loops) + 1
  <2>1. [window |-> w, quit |-> FALSE] \in [window : Windows, quit : BOOLEAN]
    OBVIOUS
  <2> DEFINE r == [window |-> w, quit |-> FALSE]
  <2>2. modal_loops' = <<r>> \o modal_loops
    BY DEF RunAppModalLoopForWindow
  <2> HIDE DEF r
  <2>3. r \in [window : Windows, quit : BOOLEAN]
    BY <2>1 DEF r
  <2> QED
    BY <2>2, <2>3 DEF Typed
<1>9. Typed'
  BY <1>5, <1>8 DEF Typed, RunAppModalLoopForWindow
<1>10. UNCHANGED appVars
  BY DEF RunAppModalLoopForWindow
<1> HIDE DEF n
<1>11. Counted'
  <2>1. \A i \in ModalFrames' : stack'[i].outer = Place(ModalFrames', i) - 1
    <3>1. stack'[n + 1].outer = Place(ModalFrames', n + 1) - 1
      BY <1>3, <1>4, <1>5, <1>6
    <3> QED
      BY <3>1, <1>3, <1>6, <1>7 DEF Counted
  <2> QED
    BY <2>1, <1>3, <1>6, <1>7, <1>8, <1>10 DEF Counted, appVars
<1>12. QuitsWhatRan'
  BY <1>6, <1>7, <1>10 DEF QuitsWhatRan, appVars
<1> QED
  BY <1>9, <1>11, <1>12

-----------------------------------------------------------------------------
(* When an application loop ends, those around it were all asked to quit:  *)
(* their depths are below its own, which is the counter.                   *)
LEMMA ApplicationLoopStops ==
  ASSUME LoopInv, ApplicationLoopEnds
  PROVE  LoopInv'
<1> USE DEF LoopInv
<1> DEFINE n == Len(stack)
<1>0. stack # <<>> /\ Top.kind = "app" /\ stack' = Popped
  BY DEF ApplicationLoopEnds, Is
<1>1. /\ stack' \in Seq(Frames) /\ Len(stack') = n - 1 /\ n \in 1..MaxDepth
      /\ Top = stack[n] /\ Top \in Frames
      /\ DOMAIN stack = 1..n /\ DOMAIN stack' = 1..n - 1
      /\ \A i \in DOMAIN stack' : stack'[i] = stack[i]
  BY <1>0, Pops
<1> HIDE DEF n
<1>2. DOMAIN stack' = DOMAIN stack \ {n} /\ n \in DOMAIN stack /\ n \in Nat
  BY <1>1, LoopBounds
<1>3. /\ AppFrames \in SUBSET (1..n) /\ n \in AppFrames
      /\ AppFrames' = AppFrames \ {n} /\ ModalFrames' = ModalFrames
      /\ \A i \in AppFrames' \cup ModalFrames' : stack'[i] = stack[i]
  BY <1>0, <1>1, <1>2 DEF AppFrames, ModalFrames
<1>4. /\ Place(AppFrames, n) = application_loops
      /\ application_loops \in 1..n
      /\ Cardinality(AppFrames') = application_loops - 1
      /\ \A i \in AppFrames' : /\ Place(AppFrames', i) = Place(AppFrames, i)
                               /\ Place(AppFrames, i) <= application_loops - 1
                               /\ Place(AppFrames, i) \in Nat
  <2>1. application_loops = Cardinality(AppFrames)
    BY DEF Counted
  <2> QED
    BY <1>2, <1>3, <2>1, PlaceOnPop, ZenonT(60)
<1>5. Top.depth = application_loops /\ application_quit = application_loops
  <2>1. Top.depth = application_loops
    BY <1>1, <1>3, <1>4 DEF Counted
  <2> QED
    BY <2>1, <1>4 DEF Counted, ApplicationLoopEnds
<1>6. /\ application_loops' = application_loops - 1
      /\ application_quit' = application_loops - 1
      /\ modal_loops' = modal_loops
  BY <1>5 DEF ApplicationLoopEnds
<1>7. Typed'
  BY <1>1, LoopBounds DEF Typed, ApplicationLoopEnds
<1>8. Counted'
  <2>1. application_quit' \in 0..application_loops'
    BY <1>4, <1>6
  <2> QED
    BY <2>1, <1>3, <1>4, <1>6 DEF Counted
<1>9. QuitsWhatRan'
  <2>1. ASSUME NEW i \in AppFrames'
        PROVE  stack'[i].asked /\ application_quit' >= stack'[i].depth
    <3>1. i \in AppFrames /\ stack'[i] = stack[i] /\ stack[i].depth = Place(AppFrames, i)
      BY <1>3 DEF Counted
    <3>2. application_quit >= stack[i].depth /\ application_quit' >= stack[i].depth
      BY <3>1, <1>4, <1>5, <1>6
    <3> QED
      BY <3>1, <3>2 DEF QuitsWhatRan
  <2> QED
    BY <2>1 DEF QuitsWhatRan
<1> QED
  BY <1>7, <1>8, <1>9

(* A modal loop that ends leaves the records it found.                     *)
LEMMA ModalLoopStops ==
  ASSUME LoopInv, ModalLoopEnds
  PROVE  LoopInv'
<1> USE DEF LoopInv
<1> DEFINE n == Len(stack)
           m == Len(modal_loops)
<1>0. stack # <<>> /\ Top.kind = "modal" /\ stack' = Popped
  BY DEF ModalLoopEnds, Is
<1>1. /\ stack' \in Seq(Frames) /\ Len(stack') = n - 1 /\ n \in 1..MaxDepth
      /\ Top = stack[n] /\ Top \in Frames
      /\ DOMAIN stack = 1..n /\ DOMAIN stack' = 1..n - 1
      /\ \A i \in DOMAIN stack' : stack'[i] = stack[i]
  BY <1>0, Pops
<1> HIDE DEF n
<1>2. DOMAIN stack' = DOMAIN stack \ {n} /\ n \in DOMAIN stack /\ n \in Nat
  BY <1>1, LoopBounds
<1>3. /\ ModalFrames \in SUBSET (1..n) /\ n \in ModalFrames
      /\ ModalFrames' = ModalFrames \ {n} /\ AppFrames' = AppFrames
      /\ \A i \in AppFrames' \cup ModalFrames' : stack'[i] = stack[i]
  BY <1>0, <1>1, <1>2 DEF AppFrames, ModalFrames
<1>4. /\ Place(ModalFrames, n) = m /\ m \in 1..n
      /\ Cardinality(ModalFrames') = m - 1
      /\ \A i \in ModalFrames' : Place(ModalFrames', i) = Place(ModalFrames, i)
  <2>1. m = Cardinality(ModalFrames)
    BY DEF Counted
  <2> QED
    BY <1>2, <1>3, <2>1, PlaceOnPop
<1>5. Top.outer = m - 1
  BY <1>1, <1>3, <1>4 DEF Counted
<1>6. /\ modal_loops' \in Seq([window : Windows, quit : BOOLEAN])
      /\ Len(modal_loops') = m - 1
  <2>1. modal_loops' = SubSeq(modal_loops, 2, m)
    <3>1. m - Top.outer + 1 = 2
      BY <1>4, <1>5
    <3> QED
      BY <3>1 DEF ModalLoopEnds
  <2> DEFINE R == [window : Windows, quit : BOOLEAN]
  <2>2. modal_loops \in Seq(R)
    BY DEF Typed
  <2> HIDE DEF R
  <2>3. modal_loops' \in Seq(R) /\ Len(modal_loops') = m - 1
    BY <2>1, <2>2, <1>4
  <2> QED
    BY <2>3 DEF R
<1>7. Typed'
  <2>1. UNCHANGED <<pending, queue>>
    BY DEF ModalLoopEnds
  <2>2. n - 1 <= MaxDepth
    BY <1>1, LoopBounds
  <2> HIDE DEF m
  <2> QED
    BY <1>1, <1>6, <2>1, <2>2 DEF Typed
<1>8. UNCHANGED appVars
  BY DEF ModalLoopEnds
<1> HIDE DEF m
<1>9. Counted'
  BY <1>3, <1>4, <1>6, <1>8 DEF Counted, appVars, m
<1>10. QuitsWhatRan'
  BY <1>3, <1>8 DEF QuitsWhatRan, appVars
<1> QED
  BY <1>7, <1>9, <1>10

-----------------------------------------------------------------------------
(* The steps of the game's code keep the invariant.                        *)
LEMMA GameStepKeeps == LoopInv /\ GameStep => LoopInv'
<1> SUFFICES ASSUME LoopInv, GameStep PROVE LoopInv'
  OBVIOUS
<1>1. /\ pending \in Seq(Classes) /\ queue \in Seq(Classes)
      /\ stack \in Seq(Frames) /\ Len(stack) <= MaxDepth
  BY DEF LoopInv, Typed
<1>2. CASE RunApplicationEventLoop
  BY <1>2, ApplicationLoopStarts
<1>3. CASE QuitApplicationEventLoop
  BY <1>1, <1>3, AsksToQuit DEF QuitApplicationEventLoop
<1>4. ASSUME NEW w \in Windows, RunAppModalLoopForWindow(w) PROVE LoopInv'
  BY <1>4, ModalLoopStarts
<1>5. ASSUME NEW w \in Windows, QuitAppModalLoopForWindow(w) PROVE LoopInv'
  <2> DEFINE R == [window : Windows, quit : BOOLEAN]
  <2>1. PICK i \in DOMAIN modal_loops :
          modal_loops' = [modal_loops EXCEPT ![i].quit = TRUE]
    BY <1>5 DEF QuitAppModalLoopForWindow
  <2>2. modal_loops \in Seq(R)
    BY DEF LoopInv, Typed
  <2> HIDE DEF R
  <2>3. modal_loops[i] \in R
    BY <2>2
  <2> DEFINE r == [modal_loops[i] EXCEPT !.quit = TRUE]
  <2>4. r \in R /\ modal_loops' = [modal_loops EXCEPT ![i] = r]
    BY <2>1, <2>3 DEF R
  <2> HIDE DEF R, r
  <2>5. modal_loops' \in Seq(R) /\ Len(modal_loops') = Len(modal_loops)
    BY <2>2, <2>4
  <2>6. UNCHANGED <<appVars, stack, queue, pending>>
    BY <1>5 DEF QuitAppModalLoopForWindow
  <2>7. modal_loops' \in Seq([window : Windows, quit : BOOLEAN])
    BY <2>5 DEF R
  <2> QED
    BY <1>1, <2>5, <2>6, <2>7, KeepsStack
<1>6. ASSUME NEW types \in {{}, {"key"}}, NEW pull \in BOOLEAN,
             NEW deadline \in {"passed", "ahead", "never"},
             ReceiveNextEvent(types, pull, deadline)
      PROVE  LoopInv'
  <2> DEFINE f == [Frame("receive", "timers") EXCEPT !.types = types, !.pull = pull,
                                                     !.deadline = deadline]
  <2>1. f \in Frames /\ f.kind = "receive"
    <3>1. Frame("receive", "timers") \in Frames
      BY LoopBounds DEF Frame, Frames, Classes
    <3>2. types \in SUBSET Classes
      BY DEF Classes
    <3> QED
      BY <3>1, <3>2 DEF Frame, Frames
  <2>2. Calls(f) /\ UNCHANGED <<appVars, modal_loops, queue, pending>>
    BY <1>6 DEF ReceiveNextEvent
  <2> HIDE DEF f
  <2> QED
    BY <1>1, <2>1, <2>2, PushesOther
<1>7. CASE WaitNextEvent
  <2>1. Frame("wait", "timers") \in Frames /\ Frame("wait", "timers").kind = "wait"
    BY LoopBounds DEF Frame, Frames, Classes
  <2>2. Calls(Frame("wait", "timers")) /\ UNCHANGED <<appVars, modal_loops, queue, pending>>
    BY <1>7 DEF WaitNextEvent
  <2> QED
    BY <1>1, <2>1, <2>2, PushesOther
<1> QED
  BY <1>2, <1>3, <1>4, <1>5, <1>6, <1>7 DEF GameStep

(* A frame on top that goes on to another phase counts as it did.          *)
LEMMA GoesOn ==
  ASSUME NEW f \in Frames,
         NEW phase \in {"test", "timers", "find", "input", "drain", "runs"},
         NEW pumped \in BOOLEAN
  PROVE  /\ [f EXCEPT !.phase = phase] \in Frames
         /\ SameFrame([f EXCEPT !.phase = phase], f)
         /\ [f EXCEPT !.phase = phase, !.pumped = pumped] \in Frames
         /\ SameFrame([f EXCEPT !.phase = phase, !.pumped = pumped], f)
BY DEF Frames, SameFrame

(* The steps of loops do, too.                                             *)
LEMMA LoopStepKeeps == LoopInv /\ LoopStep => LoopInv'
<1> SUFFICES ASSUME LoopInv, LoopStep PROVE LoopInv'
  OBVIOUS
<1>1. /\ pending \in Seq(Classes) /\ queue \in Seq(Classes)
      /\ stack \in Seq(Frames) /\ Len(stack) <= MaxDepth
  BY DEF LoopInv, Typed
<1>2. stack # <<>> => Top \in Frames
  BY Pops DEF LoopInv
<1>3. queue # <<>> => Tail(queue) \in Seq(Classes) /\ Head(queue) \in Classes
  BY <1>1
<1>4. CASE ApplicationLoopEnds
  BY <1>4, ApplicationLoopStops
<1>5. CASE ModalLoopEnds
  BY <1>5, ModalLoopStops
<1>6. CASE ApplicationLoopGoesOn
  BY <1>1, <1>2, <1>6, GoesOn, ChangesTop DEF ApplicationLoopGoesOn, Is
<1>7. CASE ModalLoopGoesOn
  BY <1>1, <1>2, <1>7, GoesOn, ChangesTop DEF ModalLoopGoesOn, Is
<1>8. CASE TimersDone
  <2> DEFINE phase == IF Top.kind = "receive" THEN "find" ELSE "input"
  <2>1. /\ stack # <<>> /\ Becomes([Top EXCEPT !.phase = phase])
        /\ UNCHANGED <<appVars, modal_loops, queue, pending>>
    BY <1>8 DEF TimersDone, In
  <2>2. phase \in {"test", "timers", "find", "input", "drain", "runs"}
    OBVIOUS
  <2> HIDE DEF phase
  <2> QED
    BY <1>1, <1>2, <2>1, <2>2, GoesOn, ChangesTop
<1>9. CASE Pumps
  <2>1. /\ stack # <<>> /\ UNCHANGED <<appVars, modal_loops>>
        /\ queue' \in Seq(Classes) /\ pending' \in Seq(Classes)
    BY <1>1, <1>9 DEF Pumps, In
  <2>2. CASE Top.kind = "receive"
    <3>1. Becomes([Top EXCEPT !.phase = "timers", !.pumped = TRUE])
      BY <1>9, <2>2 DEF Pumps
    <3> QED
      BY <1>1, <1>2, <2>1, <3>1, GoesOn, ChangesTop
  <2>3. CASE Top.kind # "receive"
    <3>1. Becomes([Top EXCEPT !.phase = "drain"])
      BY <1>9, <2>3 DEF Pumps
    <3> QED
      BY <1>1, <1>2, <2>1, <3>1, GoesOn, ChangesTop
  <2> QED
    BY <2>2, <2>3
<1>10. CASE Dispatches
  <2> DEFINE f == [Frame("game", "runs") EXCEPT !.event = Head(queue)]
  <2>1. queue # <<>>
    BY <1>10 DEF Dispatches
  <2>2. f \in Frames /\ f.kind = "game"
    <3>1. Head(queue) \in Classes
      BY <1>3, <2>1
    <3>2. Frame("game", "runs") \in Frames
      BY LoopBounds DEF Frame, Frames, Classes
    <3> QED
      BY <3>1, <3>2 DEF Frame, Frames
  <2>3. Calls(f) /\ UNCHANGED <<appVars, modal_loops, pending>> /\ queue' = Tail(queue)
    BY <1>10 DEF Dispatches
  <2> HIDE DEF f
  <2> QED
    BY <1>1, <1>3, <2>1, <2>2, <2>3, PushesOther
<1>11. CASE NobodyWants
  <2>1. /\ queue # <<>> /\ queue' = Tail(queue)
        /\ UNCHANGED <<application_loops, modal_loops, pending>>
    BY <1>11 DEF NobodyWants
  <2>2. CASE Head(queue) = "quit"
    <3>1. Quits(stack)
      BY <1>11, <2>2 DEF NobodyWants
    <3> QED
      BY <1>1, <1>3, <2>1, <3>1, AsksToQuit
  <2>3. CASE Head(queue) # "quit"
    <3>1. UNCHANGED <<application_quit, stack>>
      BY <1>11, <2>3 DEF NobodyWants
    <3>2. modal_loops \in Seq([window : Windows, quit : BOOLEAN])
      BY DEF LoopInv, Typed
    <3> QED
      BY <1>1, <1>3, <2>1, <3>1, <3>2, KeepsStack DEF appVars
  <2> QED
    BY <2>2, <2>3
<1>12. CASE Drained
  <2>1. /\ stack # <<>> /\ Top.kind \in Polling
        /\ UNCHANGED <<appVars, modal_loops, queue, pending>>
    BY <1>12 DEF Drained, In
  <2>2. CASE Top.kind = "wait"
    <3>1. stack' = Popped
      BY <1>12, <2>2 DEF Drained
    <3>2. Top.kind \notin {"app", "modal"}
      BY <2>2
    <3> QED
      BY <1>1, <2>1, <3>1, <3>2, PopsOther
  <2>3. CASE Top.kind # "wait"
    <3>1. Becomes([Top EXCEPT !.phase = "test"])
      BY <1>12, <2>3 DEF Drained
    <3> QED
      BY <1>1, <1>2, <2>1, <3>1, GoesOn, ChangesTop
  <2> QED
    BY <2>2, <2>3
<1>13. CASE ReceiveFinds
  <2>1. PICK i \in DOMAIN queue :
          queue' = IF Top.pull
                   THEN SubSeq(queue, 1, i - 1) \o SubSeq(queue, i + 1, Len(queue))
                   ELSE queue
    BY <1>13 DEF ReceiveFinds, Found
  <2>2. queue' \in Seq(Classes)
    <3>1. i \in 1..Len(queue) /\ \A j \in 1..Len(queue) : queue[j] \in Classes
      BY <1>1
    <3>2. SubSeq(queue, 1, i - 1) \in Seq(Classes)
      BY <1>1, <3>1
    <3>3. SubSeq(queue, i + 1, Len(queue)) \in Seq(Classes)
      BY <1>1, <3>1
    <3> QED
      BY <1>1, <2>1, <3>2, <3>3
  <2>3. /\ stack # <<>> /\ Top.kind \notin {"app", "modal"} /\ stack' = Popped
        /\ UNCHANGED <<appVars, modal_loops, pending>>
    BY <1>13 DEF ReceiveFinds, Is
  <2> QED
    BY <1>1, <2>2, <2>3, PopsOther
<1>14. CASE ReceiveQuits
  <2>1. /\ stack # <<>> /\ Top.kind \notin {"app", "modal"} /\ stack' = Popped
        /\ UNCHANGED <<appVars, modal_loops, queue, pending>>
    BY <1>14 DEF ReceiveQuits, Is
  <2> QED
    BY <1>1, <2>1, PopsOther
<1>15. CASE ReceiveTimesOut
  <2>1. /\ stack # <<>> /\ Top.kind \notin {"app", "modal"} /\ stack' = Popped
        /\ UNCHANGED <<appVars, modal_loops, queue, pending>>
    BY <1>15 DEF ReceiveTimesOut, StillWaits, Is
  <2> QED
    BY <1>1, <2>1, PopsOther
<1>16. CASE ReceivePumps
  BY <1>1, <1>2, <1>16, GoesOn, ChangesTop DEF ReceivePumps, StillWaits, Is
<1>17. CASE WaitReturnsEvent
  <2>1. /\ stack # <<>> /\ Top.kind \notin {"app", "modal"} /\ stack' = Popped
        /\ UNCHANGED <<appVars, modal_loops, pending>>
        /\ queue # <<>> /\ queue' = Tail(queue)
    BY <1>17 DEF WaitReturnsEvent, Is
  <2> QED
    BY <1>1, <1>3, <2>1, PopsOther
<1> QED
  BY <1>4, <1>5, <1>6, <1>7, <1>8, <1>9, <1>10, <1>11, <1>12, <1>13, <1>14, <1>15,
     <1>16, <1>17 DEF LoopStep

(* A procedure of the game's that returns uncovers what called it.         *)
LEMMA ReturnsKeep == LoopInv /\ Returns => LoopInv'
<1> SUFFICES ASSUME LoopInv, NEW handled \in BOOLEAN, ProcedureReturns(handled)
             PROVE  LoopInv'
  BY DEF Returns
<1>1. /\ pending \in Seq(Classes) /\ queue \in Seq(Classes)
      /\ stack \in Seq(Frames) /\ Len(stack) <= MaxDepth
  BY DEF LoopInv, Typed
<1>2. /\ stack # <<>> /\ Top.kind = "game"
      /\ UNCHANGED <<application_loops, modal_loops, queue, pending>>
  BY DEF ProcedureReturns
<1>3. /\ Popped \in Seq(Frames) /\ Len(Popped) = Len(stack) - 1
      /\ Len(stack) \in 1..MaxDepth /\ Top = stack[Len(stack)]
      /\ DOMAIN stack = 1..Len(stack) /\ DOMAIN Popped = 1..Len(stack) - 1
      /\ \A i \in DOMAIN Popped : Popped[i] = stack[i]
  BY <1>2, Pops DEF LoopInv
<1>4. CASE Top.event = "quit" /\ ~handled
  <2>1. Quits(Popped)
    BY <1>4 DEF ProcedureReturns
  <2> HIDE DEF Popped
  <2>2. \A i \in DOMAIN Popped : i \in DOMAIN stack
    BY <1>3
  <2>3. \A i \in DOMAIN stack : stack[i].kind \in {"app", "modal"} => i \in DOMAIN Popped
    <3> SUFFICES ASSUME NEW i \in DOMAIN stack, stack[i].kind \in {"app", "modal"}
                 PROVE  i \in DOMAIN Popped
      OBVIOUS
    <3>1. i # Len(stack)
      BY <1>2, <1>3
    <3> QED
      BY <1>3, <3>1
  <2>4. Len(Popped) <= MaxDepth
    BY <1>1, <1>3, LoopBounds
  <2> QED
    BY <1>1, <1>2, <1>3, <2>1, <2>2, <2>3, <2>4, AsksToQuit
<1>5. CASE ~(Top.event = "quit" /\ ~handled)
  <2>1. stack' = Popped /\ UNCHANGED application_quit
    BY <1>5 DEF ProcedureReturns
  <2>2. Top.kind \notin {"app", "modal"}
    BY <1>2
  <2> QED
    BY <1>1, <1>2, <2>1, <2>2, PopsOther DEF appVars
<1> QED
  BY <1>4, <1>5

(* A deadline that passes changes no loop.                                 *)
LEMMA DeadlineKeeps == LoopInv /\ DeadlinePasses => LoopInv'
<1> SUFFICES ASSUME LoopInv, DeadlinePasses PROVE LoopInv'
  OBVIOUS
<1>1. PICK i \in DOMAIN stack :
        /\ stack[i].kind = "receive"
        /\ stack' = [stack EXCEPT ![i].deadline = "passed"]
  BY DEF DeadlinePasses
<1>2. stack \in Seq(Frames) /\ Len(stack) <= MaxDepth /\ stack[i] \in Frames
  BY DEF LoopInv, Typed
<1> DEFINE f == [stack[i] EXCEPT !.deadline = "passed"]
<1>3. f \in Frames /\ SameFrame(f, stack[i])
  BY <1>2 DEF Frames, SameFrame
<1>4. stack' = [stack EXCEPT ![i] = f]
  BY <1>1, <1>2
<1> HIDE DEF f
<1>5. /\ stack' \in Seq(Frames) /\ Len(stack') = Len(stack)
      /\ DOMAIN stack' = DOMAIN stack
      /\ stack'[i] = f /\ \A j \in DOMAIN stack \ {i} : stack'[j] = stack[j]
  BY <1>2, <1>3, <1>4
<1>6. \A j \in DOMAIN stack : SameFrame(stack'[j], stack[j])
  BY <1>3, <1>5 DEF SameFrame
<1>7. AppFrames' = AppFrames /\ ModalFrames' = ModalFrames
  BY <1>5, <1>6 DEF AppFrames, ModalFrames, SameFrame
<1>8. \A j \in AppFrames \cup ModalFrames : SameFrame(stack'[j], stack[j])
  BY <1>6 DEF AppFrames, ModalFrames
<1>9. UNCHANGED <<appVars, modal_loops, queue, pending>>
  BY DEF DeadlinePasses
<1>10. Typed'
  BY <1>2, <1>5, <1>9 DEF LoopInv, Typed
<1> QED
  BY <1>7, <1>8, <1>9, <1>10, SameLoops

-----------------------------------------------------------------------------
(* No loop runs at first.                                                  *)
LEMMA InitHolds == Init => LoopInv
<1> SUFFICES ASSUME Init PROVE LoopInv
  OBVIOUS
<1>1. stack = <<>> /\ DOMAIN stack = {}
  BY DEF Init
<1>2. AppFrames = {} /\ ModalFrames = {}
  BY <1>1 DEF AppFrames, ModalFrames
<1>3. Cardinality({}) = 0
  BY FS_EmptySet
<1>4. Typed
  BY LoopBounds DEF Init, Typed
<1>5. Counted
  BY <1>2, <1>3 DEF Init, Counted
<1>6. QuitsWhatRan
  BY <1>2 DEF QuitsWhatRan
<1> QED
  BY <1>4, <1>5, <1>6 DEF LoopInv

(* Every step keeps the invariant.                                         *)
LEMMA NextKeeps == LoopInv /\ [Next]_vars => LoopInv'
<1> SUFFICES ASSUME LoopInv, [Next]_vars PROVE LoopInv'
  OBVIOUS
<1>1. /\ pending \in Seq(Classes) /\ queue \in Seq(Classes)
      /\ modal_loops \in Seq([window : Windows, quit : BOOLEAN])
  BY DEF LoopInv, Typed
<1>2. CASE GameStep
  BY <1>2, GameStepKeeps
<1>3. CASE LoopStep
  BY <1>3, LoopStepKeeps
<1>4. CASE Returns
  BY <1>4, ReturnsKeep
<1>5. CASE DeadlinePasses
  BY <1>5, DeadlineKeeps
<1>6. CASE ProcedureRuns
  <2> DEFINE f == [Frame("game", "runs") EXCEPT !.event = "none"]
  <2>1. f \in Frames /\ f.kind = "game"
    <3>1. Frame("game", "runs") \in Frames
      BY LoopBounds DEF Frame, Frames, Classes
    <3> QED
      BY <3>1 DEF Frame, Frames
  <2>2. Calls(f) /\ UNCHANGED <<appVars, modal_loops, queue, pending>>
    BY <1>6 DEF ProcedureRuns
  <2> HIDE DEF f
  <2> QED
    BY <1>1, <2>1, <2>2, PushesOther
<1>7. ASSUME NEW class \in Classes, InputArrives(class) PROVE LoopInv'
  <2>1. pending' \in Seq(Classes)
    BY <1>1, <1>7, LoopBounds DEF InputArrives
  <2>2. UNCHANGED <<appVars, modal_loops, queue, stack>>
    BY <1>7 DEF InputArrives
  <2> QED
    BY <1>1, <2>1, <2>2, KeepsStack
<1>8. CASE UNCHANGED vars
  BY <1>1, <1>8, KeepsStack DEF vars, appVars
<1> QED
  BY <1>2, <1>3, <1>4, <1>5, <1>6, <1>7, <1>8 DEF Next

(* The loops on the stack are counted by application_loops and have the    *)
(* records of the list, whatever procedures do between them: `asked` is    *)
(* exact, one counter being enough because depths are places on the stack. *)
THEOREM LoopsAreCounted == Spec => []LoopInv
<1> QED
  BY InitHolds, NextKeeps, PTL DEF Spec

(* RunApplicationEventLoop ends exactly if it was asked to while it ran.   *)
THEOREM LoopsQuitAsAsked == Spec => []QuitsWhatRan
<1>1. LoopInv => QuitsWhatRan
  BY DEF LoopInv
<1> QED
  BY <1>1, LoopsAreCounted, PTL

(* Among what the invariant says are the types, and what is counted.       *)
LEMMA InvIsTyped == LoopInv => TypeOK
<1> SUFFICES ASSUME LoopInv PROVE TypeOK
  OBVIOUS
<1> DEFINE R == [window : Windows, quit : BOOLEAN]
<1>1. modal_loops \in Seq(R)
  BY DEF LoopInv, Typed
<1> HIDE DEF R
<1>2. \A i \in DOMAIN modal_loops : modal_loops[i] \in R
  BY <1>1
<1>3. \A i \in DOMAIN modal_loops :
        modal_loops[i] \in [window : Windows, quit : BOOLEAN]
  BY <1>2 DEF R
<1> QED
  BY <1>3 DEF LoopInv, Typed, Counted, TypeOK

-----------------------------------------------------------------------------
(* Timers.                                                                 *)

(* What a walk has passed is removed or due no earlier than what it has    *)
(* gathered.                                                               *)
Passed ==
  T!Walking =>
    \A j \in 1..T!Top.link - 1 :
      removed[timers[j]] \/ T!Top.next <= T!Remaining(timers[j])

(* A timer that has fired is removed, or waits for its interval to pass    *)
(* since it did.                                                           *)
Waited(t) ==
  since[t] # T!NotYet =>
    /\ t \in T!Listed
    /\ IF interval[t] > 0 THEN left[t] + since[t] >= interval[t] ELSE removed[t]

TimerInv == T!TypeOK /\ Passed /\ \A t \in Timers : Waited(t)

(* What a step of the timers keeps, and what it is to do.                  *)
Exact == T!ReturnsInTime /\ T!OncePerInterval
KeepsExact == TimerInv' /\ Exact

(* The last of the runs.                                                   *)
LEMMA TopIs ==
  ASSUME T!TypeOK, runs # <<>>
  PROVE  /\ T!Top \in T!Runs /\ Len(runs) \in Nat \ {0} /\ T!Top = runs[Len(runs)]
         /\ DOMAIN runs = 1..Len(runs)
BY DEF T!TypeOK, T!Top

(* When the top run becomes another.                                       *)
LEMMA TopBecomes ==
  ASSUME T!TypeOK, runs # <<>>, NEW r \in T!Runs, T!Becomes(r)
  PROVE  /\ runs' \in Seq(T!Runs) /\ Len(runs') = Len(runs)
         /\ runs'[Len(runs)] = r
         /\ \A i \in 1..Len(runs) - 1 : runs'[i] = runs[i]
<1>1. runs \in Seq(T!Runs) /\ runs' = [runs EXCEPT ![Len(runs)] = r]
  BY DEF T!TypeOK, T!Becomes
<1>2. Len(runs) \in DOMAIN runs /\ DOMAIN runs = 1..Len(runs) /\ Len(runs) \in Nat \ {0}
  BY TopIs
<1>3. /\ DOMAIN runs' = 1..Len(runs) /\ runs'[Len(runs)] = r
      /\ \A i \in 1..Len(runs) - 1 : runs'[i] = runs[i]
  <2>1. DOMAIN runs' = DOMAIN runs
    BY <1>1
  <2>2. \A i \in DOMAIN runs : runs'[i] = IF i = Len(runs) THEN r ELSE runs[i]
    BY <1>1
  <2>3. \A i \in 1..Len(runs) - 1 : i \in DOMAIN runs /\ i # Len(runs)
    <3>1. PICK n \in Nat \ {0} : n = Len(runs)
      BY <1>2
    <3>2. \A i \in 1..n - 1 : i \in 1..n /\ i # n
      OBVIOUS
    <3> QED
      BY <1>2, <3>1, <3>2
  <2> QED
    BY <1>2, <2>1, <2>2, <2>3
<1>4. \A i \in 1..Len(runs) : runs[i] \in T!Runs
  BY <1>1, <1>2
<1> HIDE DEF T!Runs
<1>5. \A i \in 1..Len(runs) : runs'[i] \in T!Runs
  BY <1>2, <1>3, <1>4
<1>6. runs' = [i \in 1..Len(runs) |-> runs'[i]]
  BY <1>1, <1>2
<1>7. runs' \in Seq(T!Runs) /\ Len(runs') = Len(runs)
  BY <1>2, <1>5, <1>6
<1> QED
  BY <1>3, <1>7

-----------------------------------------------------------------------------
(* A step that ends no run and fires no timer has nothing to be exact on.  *)
LEMMA NothingFires ==
  ASSUME T!TypeOK, Len(runs') >= Len(runs), runs' \in Seq(T!Runs),
         \A i \in DOMAIN runs \cap DOMAIN runs' :
           runs'[i].firing # NoTimer => runs[i].firing # NoTimer
  PROVE  Exact
<1>1. Len(runs) \in Nat /\ Len(runs') \in Nat
  BY DEF T!TypeOK
<1>2. ~(Len(runs') < Len(runs))
  BY <1>1
<1> QED
  BY <1>2 DEF Exact, T!ReturnsInTime, T!OncePerInterval

(* When neither the runs nor the list change.                              *)
LEMMA SameWalk ==
  ASSUME runs' = runs
  PROVE  /\ T!Walking' <=> T!Walking
         /\ T!Walking => T!Top' = T!Top
BY DEF T!Walking, T!Top

(* Types of an installed timer.                                            *)
LEMMA InstallTyped ==
  ASSUME T!TypeOK, NEW t \in Timers, NEW delay \in Delays \cup {Never},
         NEW every \in Delays, T!InstallEventLoopTimer(t, delay, every)
  PROVE  /\ timers' \in Seq(Timers)
         /\ \A i, j \in DOMAIN timers' : timers'[i] = timers'[j] => i = j
         /\ left' \in [Timers -> -MaxAge..Never]
         /\ interval' \in [Timers -> Delays \cup {0}]
         /\ removed' \in [Timers -> BOOLEAN]
         /\ T!Listed \subseteq T!Listed'
<1>1. /\ timers \in Seq(Timers) /\ timers' = <<t>> \o timers
      /\ \A i, j \in DOMAIN timers : timers[i] = timers[j] => i = j
  BY DEF T!TypeOK, T!InstallEventLoopTimer
<1>2. PICK n \in Nat : n = Len(timers)
  BY <1>1
<1>3. DOMAIN timers = 1..n
  BY <1>1, <1>2
<1>4. /\ timers' \in Seq(Timers) /\ DOMAIN timers' = 1..n + 1
      /\ timers'[1] = t /\ \A i \in 2..n + 1 : timers'[i] = timers[i - 1]
  BY <1>1, <1>2
<1>5. \A i \in 1..n : timers[i] # t
  BY <1>3 DEF T!Listed, T!InstallEventLoopTimer
<1>6. ASSUME NEW i \in 1..n + 1, i # 1
      PROVE  i \in 2..n + 1 /\ i - 1 \in 1..n
  BY <1>6
<1>7. ASSUME NEW i \in 1..n + 1, NEW j \in 1..n + 1, timers'[i] = timers'[j]
      PROVE  i = j
  <2>1. CASE i = 1 \/ j = 1
    BY <1>4, <1>5, <1>6, <1>7, <2>1
  <2>2. CASE i # 1 /\ j # 1
    <3>1. /\ i \in 2..n + 1 /\ j \in 2..n + 1
          /\ i - 1 \in 1..n /\ j - 1 \in 1..n
      BY <1>6, <2>2
    <3>2. timers[i - 1] = timers[j - 1]
      BY <1>4, <1>7, <3>1
    <3>3. i - 1 = j - 1
      BY <1>1, <1>3, <3>1, <3>2
    <3> QED
      BY <3>1, <3>3
  <2> QED
    BY <2>1, <2>2
<1>8. /\ left' \in [Timers -> -MaxAge..Never]
      /\ interval' \in [Timers -> Delays \cup {0}]
      /\ removed' \in [Timers -> BOOLEAN]
  <2>1. delay \in -MaxAge..Never
    BY TimerBounds
  <2> QED
    BY <2>1 DEF T!TypeOK, T!InstallEventLoopTimer
<1>9. T!Listed \subseteq T!Listed'
  <2> SUFFICES ASSUME NEW u \in T!Listed
               PROVE  u \in T!Listed'
    OBVIOUS
  <2>1. PICK i \in 1..n : u = timers[i]
    BY <1>3 DEF T!Listed
  <2>2. i + 1 \in 2..n + 1 /\ i + 1 \in 1..n + 1 /\ (i + 1) - 1 = i
    OBVIOUS
  <2>3. timers'[i + 1] = u
    BY <1>4, <2>1, <2>2
  <2> QED
    BY <1>4, <2>2, <2>3 DEF T!Listed
<1> QED
  BY <1>4, <1>7, <1>8, <1>9

(* Each step of the timers keeps the invariant and is exact.               *)
LEMMA InstallKeeps ==
  ASSUME TimerInv, NEW t \in Timers, NEW delay \in Delays \cup {Never},
         NEW every \in Delays, T!InstallEventLoopTimer(t, delay, every)
  PROVE  KeepsExact
<1>0. T!TypeOK
  BY DEF TimerInv
<1>1. runs' = runs /\ since' = since /\ t \notin T!Listed
  BY DEF T!InstallEventLoopTimer
<1>2. ~T!Walking /\ ~T!Walking'
  BY <1>1, SameWalk DEF T!InstallEventLoopTimer, T!LockIsFree, T!Walking
<1>3. T!TypeOK'
  BY <1>0, <1>1, <1>2, InstallTyped DEF T!TypeOK
<1>4. ASSUME NEW u \in Timers
      PROVE  Waited(u)'
  <2>1. Waited(u) /\ Waited(t)
    BY DEF TimerInv
  <2>2. CASE u = t
    BY <1>1, <2>1, <2>2 DEF Waited, T!NotYet
  <2>3. CASE u # t
    <3>1. left'[u] = left[u] /\ interval'[u] = interval[u] /\ removed'[u] = removed[u]
      BY <1>0, <2>3 DEF T!TypeOK, T!InstallEventLoopTimer
    <3>2. T!Listed \subseteq T!Listed'
      BY <1>0, InstallTyped
    <3> QED
      BY <1>1, <2>1, <3>1, <3>2 DEF Waited, T!NotYet
  <2> QED
    BY <2>2, <2>3
<1>5. TimerInv'
  BY <1>2, <1>3, <1>4 DEF TimerInv, Passed
<1>6. Exact
  <2>1. Len(runs') >= Len(runs) /\ runs' \in Seq(T!Runs)
    BY <1>0, <1>1 DEF T!TypeOK
  <2> QED
    BY <1>0, <1>1, <2>1, NothingFires
<1> QED
  BY <1>5, <1>6 DEF KeepsExact

(* A timer that is marked as removed is removed for every walk.            *)
LEMMA RemoveKeeps ==
  ASSUME TimerInv, NEW t \in Timers, T!RemoveEventLoopTimer(t)
  PROVE  KeepsExact
<1>0. T!TypeOK
  BY DEF TimerInv
<1>1. UNCHANGED <<timers, left, interval, runs, since>>
  BY DEF T!RemoveEventLoopTimer
<1>2. /\ removed' \in [Timers -> BOOLEAN]
      /\ \A u \in Timers : removed[u] => removed'[u]
  BY <1>0 DEF T!TypeOK, T!RemoveEventLoopTimer
<1>3. T!Walking' <=> T!Walking
  BY <1>1, SameWalk
<1>4. T!TypeOK'
  BY <1>0, <1>1, <1>2, <1>3, SameWalk DEF T!TypeOK
<1>5. Passed'
  <2> SUFFICES ASSUME T!Walking', NEW j \in 1..(T!Top').link - 1
               PROVE  removed'[timers'[j]]
                        \/ (T!Top').next <= T!Remaining(timers[j])'
    BY <1>1 DEF Passed
  <2>1. T!Top' = T!Top /\ T!Walking
    BY <1>1, <1>3, SameWalk
  <2>2. T!Remaining(timers[j])' = T!Remaining(timers[j])
    BY <1>1, <2>1 DEF T!Remaining
  <2>3. removed[timers[j]] \/ T!Top.next <= T!Remaining(timers[j])
    BY <2>1 DEF TimerInv, Passed
  <2>4. timers[j] \in Timers
    <3>1. T!Top.link <= Len(timers) + 1 /\ timers \in Seq(Timers)
      BY <1>0, <2>1 DEF T!TypeOK
    <3>2. T!Top \in T!Runs
      BY <1>0, <2>1, TopIs DEF T!Walking
    <3>3. T!Top.link \in Nat \ {0}
      BY <3>2 DEF T!Runs
    <3>4. j \in 1..Len(timers)
      BY <2>1, <3>1, <3>3
    <3> QED
      BY <3>1, <3>4
  <2> QED
    BY <1>1, <1>2, <2>1, <2>2, <2>3, <2>4
<1>6. \A u \in Timers : Waited(u)'
  <2> SUFFICES ASSUME NEW u \in Timers PROVE Waited(u)'
    OBVIOUS
  <2>1. Waited(u)
    BY DEF TimerInv
  <2>2. T!Listed' = T!Listed
    BY <1>1 DEF T!Listed
  <2> QED
    BY <1>1, <1>2, <2>1, <2>2 DEF Waited, T!NotYet
<1>7. Exact
  <2>1. Len(runs') >= Len(runs) /\ runs' \in Seq(T!Runs)
    BY <1>0, <1>1 DEF T!TypeOK
  <2> QED
    BY <1>0, <1>1, <2>1, NothingFires
<1> QED
  BY <1>4, <1>5, <1>6, <1>7 DEF KeepsExact, TimerInv

(* When the timers' fields and the list are as they were, so is what they  *)
(* wait for.                                                               *)
LEMMA SameWaits ==
  ASSUME TimerInv, UNCHANGED <<timers, left, interval, removed, since>>
  PROVE  \A t \in Timers : Waited(t)'
<1> SUFFICES ASSUME NEW t \in Timers PROVE Waited(t)'
  OBVIOUS
<1>1. Waited(t) /\ T!Listed' = T!Listed
  BY DEF TimerInv, T!Listed
<1> QED
  BY <1>1 DEF Waited, T!NotYet

(* A run of run_timers starts at the head of the list, having passed none. *)
LEMMA RunStartsKeeps ==
  ASSUME TimerInv, T!run_timers
  PROVE  KeepsExact
<1>0. T!TypeOK
  BY DEF TimerInv
<1> DEFINE new == [age |-> 0, next |-> Never, link |-> 1, firing |-> NoTimer]
<1>1. new \in T!Runs /\ new.link = 1
  BY TimerBounds DEF T!Runs
<1>2. runs' = Append(runs, new) /\ UNCHANGED <<timers, left, interval, removed, since>>
  BY DEF T!run_timers
<1> HIDE DEF new
<1>3. runs \in Seq(T!Runs)
  BY <1>0 DEF T!TypeOK
<1> HIDE DEF T!Runs
<1>4. /\ runs' \in Seq(T!Runs) /\ Len(runs') = Len(runs) + 1 /\ Len(runs) \in Nat
      /\ \A i \in 1..Len(runs) : runs'[i] = runs[i]
      /\ runs'[Len(runs) + 1] = new
  BY <1>1, <1>2, <1>3
<1>5. \A i \in 1..Len(runs) : runs[i].firing # NoTimer
  <2>1. CASE runs = <<>>
    BY <2>1
  <2>2. CASE runs # <<>>
    <3>1. runs[Len(runs)].firing # NoTimer
      BY <2>2 DEF T!run_timers, T!LockIsFree, T!Top
    <3>2. \A i \in 1..Len(runs) - 1 : runs[i].firing # NoTimer
      BY <1>0 DEF T!TypeOK
    <3> QED
      BY <1>4, <3>1, <3>2
  <2> QED
    BY <2>1, <2>2
<1>6. \A i \in 1..Len(runs') - 1 : runs'[i].firing # NoTimer
  BY <1>4, <1>5
<1>7. (T!Top').link = 1
  BY <1>1, <1>4 DEF T!Top
<1>8. T!TypeOK'
  <2>1. Len(timers') \in Nat
    BY <1>0, <1>2 DEF T!TypeOK
  <2>2. (T!Top').link <= Len(timers') + 1
    BY <1>7, <2>1
  <2> QED
    BY <1>0, <1>2, <1>4, <1>6, <2>2 DEF T!TypeOK
<1>9. Passed'
  <2>1. 1..(T!Top').link - 1 = {}
    BY <1>7
  <2> QED
    BY <2>1 DEF Passed
<1>10. Exact
  <2>1. Len(runs') >= Len(runs)
    BY <1>4
  <2>2. DOMAIN runs \cap DOMAIN runs' = 1..Len(runs)
    BY <1>3, <1>4
  <2> QED
    BY <1>0, <1>4, <2>1, <2>2, NothingFires
<1> QED
  BY <1>2, <1>8, <1>9, <1>10, SameWaits DEF KeepsExact, TimerInv

(* A list without the element at l.                                        *)
IsWithout(S, list, l, rest) ==
  /\ rest \in Seq(S) /\ Len(rest) = Len(list) - 1
  /\ \A j \in 1..l - 1 : rest[j] = list[j]
  /\ \A j \in l..Len(list) - 1 : rest[j] = list[j + 1]

(* Which is what is before it and what is after it.                        *)
LEMMA WithoutAt ==
  ASSUME NEW S, NEW list \in Seq(S), NEW l \in 1..Len(list), NEW rest,
         rest = SubSeq(list, 1, l - 1) \o SubSeq(list, l + 1, Len(list))
  PROVE  IsWithout(S, list, l, rest)
<1>1. PICK n \in Nat : n = Len(list)
  OBVIOUS
<1>2. l \in 1..n /\ l - 1 \in Nat /\ n - l \in Nat
  BY <1>1
<1>3. \A i \in 1..n : list[i] \in S
  BY <1>1
<1> DEFINE u == SubSeq(list, 1, l - 1)
           v == SubSeq(list, l + 1, n)
<1>4. u \in Seq(S) /\ Len(u) = l - 1 /\ \A j \in 1..l - 1 : u[j] = list[j]
  <2>1. \A j \in 1..l - 1 : j \in 1..n
    BY <1>2
  <2>2. 1..l - 1 \subseteq DOMAIN list
    BY <1>1, <2>1
  <2> QED
    BY <1>1, <1>2, <2>1, <2>2
<1>5. v \in Seq(S) /\ Len(v) = n - l /\ \A j \in 1..n - l : v[j] = list[l + j]
  <2>1. \A j \in l + 1..n : j \in 1..n
    BY <1>2
  <2>2. l + 1..n \subseteq DOMAIN list
    BY <1>1, <2>1
  <2> QED
    BY <1>1, <1>2, <2>1, <2>2
<1>6. rest = u \o v
  BY <1>1
<1> HIDE DEF u, v
<1>7. /\ rest \in Seq(S) /\ Len(rest) = n - 1
      /\ \A j \in 1..l - 1 : rest[j] = u[j]
      /\ \A j \in (l - 1) + 1..(l - 1) + (n - l) : rest[j] = v[j - (l - 1)]
  <2>0. PICK x \in Seq(S), y \in Seq(S) : x = u /\ y = v
    BY <1>4, <1>5
  <2>1. /\ rest \in Seq(S) /\ Len(rest) = Len(u) + Len(v)
        /\ \A j \in 1..Len(u) + Len(v) :
             rest[j] = IF j <= Len(u) THEN u[j] ELSE v[j - Len(u)]
    <3>1. /\ x \o y \in Seq(S) /\ Len(x \o y) = Len(x) + Len(y)
          /\ \A j \in 1..Len(x) + Len(y) :
               (x \o y)[j] = IF j <= Len(x) THEN x[j] ELSE y[j - Len(x)]
      BY ConcatProperties
    <3> QED
      BY <1>6, <2>0, <3>1, Zenon
  <2>2. /\ Len(rest) = (l - 1) + (n - l)
        /\ \A j \in 1..(l - 1) + (n - l) :
             rest[j] = IF j <= l - 1 THEN u[j] ELSE v[j - (l - 1)]
    BY <1>4, <1>5, <2>1
  <2>3. (l - 1) + (n - l) = n - 1
    BY <1>2
  <2>4. \A j \in 1..l - 1 : j \in 1..(l - 1) + (n - l) /\ j <= l - 1
    BY <1>2
  <2>5. \A j \in (l - 1) + 1..(l - 1) + (n - l) :
          j \in 1..(l - 1) + (n - l) /\ ~(j <= l - 1)
    BY <1>2
  <2>6. \A j \in 1..l - 1 : rest[j] = u[j]
    BY <2>2, <2>4
  <2>7. \A j \in (l - 1) + 1..(l - 1) + (n - l) : rest[j] = v[j - (l - 1)]
    BY <2>2, <2>5
  <2> QED
    BY <2>1, <2>2, <2>3, <2>6, <2>7
<1>8. ASSUME NEW j \in l..n - 1
      PROVE  rest[j] = list[j + 1]
  <2>1. j \in (l - 1) + 1..(l - 1) + (n - l) /\ j - (l - 1) \in 1..n - l
    BY <1>2
  <2>2. rest[j] = v[j - (l - 1)]
    BY <1>7, <2>1
  <2>3. v[j - (l - 1)] = list[l + (j - (l - 1))]
    BY <1>5, <2>1
  <2>4. l + (j - (l - 1)) = j + 1
    BY <1>2
  <2> QED
    BY <2>2, <2>3, <2>4
<1> QED
  BY <1>1, <1>2, <1>4, <1>7, <1>8 DEF IsWithout

(* Where the walk stands.                                                  *)
LEMMA Stands ==
  ASSUME TimerInv, NEW t \in Timers, T!At(t)
  PROVE  /\ runs # <<>> /\ T!Top \in T!Runs /\ T!Top.firing = NoTimer
         /\ Len(runs) \in Nat \ {0} /\ T!Top = runs[Len(runs)]
         /\ DOMAIN runs = 1..Len(runs) /\ runs \in Seq(T!Runs)
         /\ T!Top.link \in 1..Len(timers) /\ timers[T!Top.link] = t
         /\ t \in T!Listed
         /\ timers \in Seq(Timers) /\ Len(timers) \in Nat
<1>0. T!TypeOK
  BY DEF TimerInv
<1>1. runs # <<>> /\ T!Top.firing = NoTimer /\ T!Top.link \in DOMAIN timers
      /\ timers[T!Top.link] = t
  BY DEF T!At, T!Walking
<1>2. timers \in Seq(Timers) /\ runs \in Seq(T!Runs)
  BY <1>0 DEF T!TypeOK
<1> HIDE DEF T!Runs
<1>3. DOMAIN timers = 1..Len(timers) /\ Len(timers) \in Nat
  BY <1>2
<1>4. t \in T!Listed
  BY <1>1 DEF T!Listed
<1> QED
  BY <1>0, <1>1, <1>2, <1>3, <1>4, TopIs

(* A timer that is swept was removed, and those passed stand before it.    *)
LEMMA SweepsKeeps ==
  ASSUME TimerInv, NEW t \in Timers, T!Sweeps(t)
  PROVE  KeepsExact
<1>0. T!TypeOK
  BY DEF TimerInv
<1>1. T!At(t)
  BY DEF T!Sweeps
<1>2. /\ runs' = runs
      /\ left' = [left EXCEPT ![t] = Never] /\ interval' = [interval EXCEPT ![t] = 0]
      /\ removed' = [removed EXCEPT ![t] = FALSE]
      /\ since' = [since EXCEPT ![t] = T!NotYet]
  BY DEF T!Sweeps
<1>3. PICK l \in 1..Len(timers) : l = T!Top.link
  BY <1>1, Stands
<1>4. PICK n \in Nat : n = Len(timers)
  BY <1>1, Stands
<1>5. timers \in Seq(Timers) /\ DOMAIN timers = 1..n /\ timers[l] = t
  BY <1>1, <1>3, <1>4, Stands
<1>6. /\ timers' \in Seq(Timers) /\ Len(timers') = n - 1
      /\ \A j \in 1..l - 1 : timers'[j] = timers[j]
      /\ \A j \in l..n - 1 : timers'[j] = timers[j + 1]
  <2>1. timers' = SubSeq(timers, 1, l - 1) \o SubSeq(timers, l + 1, Len(timers))
    BY <1>3 DEF T!Sweeps
  <2>2. PICK rest : rest = timers'
    OBVIOUS
  <2>3. PICK list \in Seq(Timers) : list = timers
    BY <1>5
  <2>4. IsWithout(Timers, list, l, rest)
    <3>1. rest = SubSeq(list, 1, l - 1) \o SubSeq(list, l + 1, Len(list))
      BY <2>1, <2>2, <2>3
    <3>2. l \in 1..Len(list)
      BY <1>3, <2>3
    <3> QED
      BY <3>1, <3>2, WithoutAt
  <2> QED
    BY <1>4, <2>2, <2>3, <2>4 DEF IsWithout
<1>7. l \in 1..n /\ DOMAIN timers' = 1..n - 1
  BY <1>3, <1>4, <1>6
<1> DEFINE from(j) == IF j < l THEN j ELSE j + 1
<1>8. \A j \in 1..n - 1 : from(j) \in 1..n /\ from(j) # l /\ timers'[j] = timers[from(j)]
  <2> SUFFICES ASSUME NEW j \in 1..n - 1
               PROVE  from(j) \in 1..n /\ from(j) # l /\ timers'[j] = timers[from(j)]
    OBVIOUS
  <2>1. CASE j < l
    <3>1. j \in 1..l - 1 /\ from(j) = j /\ j \in 1..n /\ j # l
      BY <1>7, <2>1
    <3> QED
      BY <1>6, <3>1
  <2>2. CASE ~(j < l)
    <3>1. j \in l..n - 1 /\ from(j) = j + 1 /\ j + 1 \in 1..n /\ j + 1 # l
      BY <1>7, <2>2
    <3> QED
      BY <1>6, <3>1
  <2> QED
    BY <2>1, <2>2
<1>9. \A i, j \in 1..n : timers[i] = timers[j] => i = j
  BY <1>0, <1>5 DEF T!TypeOK
<1>10. \A i, j \in DOMAIN timers' : timers'[i] = timers'[j] => i = j
  <2> SUFFICES ASSUME NEW i \in 1..n - 1, NEW j \in 1..n - 1, timers'[i] = timers'[j]
               PROVE  i = j
    BY <1>7
  <2>1. from(i) = from(j)
    <3> HIDE DEF from
    <3> QED
      BY <1>8, <1>9
  <2> QED
    BY <1>7, <2>1
<1>11. ASSUME NEW u \in T!Listed, u # t
       PROVE  u \in T!Listed'
  <2>1. PICK i \in 1..n : u = timers[i]
    BY <1>5 DEF T!Listed
  <2>2. i # l
    BY <1>5, <1>11, <2>1
  <2>3. CASE i < l
    <3>1. i \in 1..l - 1 /\ i \in 1..n - 1
      BY <1>7, <2>3
    <3> QED
      BY <1>6, <1>7, <2>1, <3>1 DEF T!Listed
  <2>4. CASE ~(i < l)
    <3>1. i - 1 \in l..n - 1 /\ i - 1 \in 1..n - 1 /\ (i - 1) + 1 = i
      BY <1>7, <2>2, <2>4
    <3>2. timers'[i - 1] = u
      BY <1>6, <2>1, <3>1
    <3> QED
      BY <1>7, <3>1, <3>2 DEF T!Listed
  <2> QED
    BY <2>3, <2>4
<1>12. T!Walking /\ T!Walking' /\ T!Top' = T!Top
  BY <1>1, <1>2, SameWalk DEF T!At
<1>13. T!TypeOK'
  <2>1. (T!Top').link <= Len(timers') + 1
    BY <1>3, <1>6, <1>7, <1>12
  <2>2. /\ left' \in [Timers -> -MaxAge..Never] /\ interval' \in [Timers -> Delays \cup {0}]
        /\ removed' \in [Timers -> BOOLEAN] /\ since' \in [Timers -> T!NotYet..Never + MaxAge]
    <3>1. Never \in -MaxAge..Never /\ T!NotYet \in T!NotYet..Never + MaxAge
      BY TimerBounds DEF T!NotYet
    <3> QED
      BY <1>0, <1>2, <3>1 DEF T!TypeOK
  <2> QED
    BY <1>0, <1>2, <1>6, <1>10, <2>1, <2>2 DEF T!TypeOK
<1>14. Passed'
  <2> SUFFICES ASSUME NEW j \in 1..l - 1
               PROVE  removed'[timers'[j]]
                        \/ (T!Top').next <= T!Remaining(timers[j])'
    BY <1>3, <1>12 DEF Passed
  <2>1. j \in 1..n /\ j # l
    BY <1>7
  <2>2. PICK u \in Timers : u = timers[j]
    BY <1>5, <2>1
  <2>3. u # t
    BY <1>5, <1>7, <1>9, <2>1, <2>2
  <2>4. timers'[j] = u
    BY <1>6, <2>2
  <2>5. removed[u] \/ T!Top.next <= T!Remaining(u)
    BY <1>3, <1>12, <2>2 DEF TimerInv, Passed
  <2>6. removed'[u] = removed[u] /\ left'[u] = left[u]
    BY <1>0, <1>2, <2>3 DEF T!TypeOK
  <2>7. T!Remaining(u)' = T!Remaining(u)
    BY <1>12, <2>6 DEF T!Remaining
  <2>8. T!Remaining(timers[j])' = T!Remaining(u)'
    BY <2>4 DEF T!Remaining
  <2> QED
    BY <1>12, <2>4, <2>5, <2>6, <2>7, <2>8
<1>15. ASSUME NEW u \in Timers
       PROVE  Waited(u)'
  <2>1. since \in [Timers -> T!NotYet..Never + MaxAge]
    BY <1>0 DEF T!TypeOK
  <2>2. CASE u = t
    <3>1. since'[u] = T!NotYet
      BY <1>2, <2>1, <2>2
    <3> QED
      BY <3>1 DEF Waited, T!NotYet
  <2>3. CASE u # t
    <3>1. /\ since'[u] = since[u] /\ left'[u] = left[u] /\ interval'[u] = interval[u]
          /\ removed'[u] = removed[u]
      BY <1>0, <1>2, <2>3 DEF T!TypeOK
    <3>2. Waited(u)
      BY DEF TimerInv
    <3> QED
      BY <1>11, <2>3, <3>1, <3>2 DEF Waited, T!NotYet
  <2> QED
    BY <2>2, <2>3
<1>16. Exact
  <2>1. Len(runs') >= Len(runs) /\ runs' \in Seq(T!Runs)
    BY <1>0, <1>2 DEF T!TypeOK
  <2> QED
    BY <1>0, <1>2, <2>1, NothingFires
<1> QED
  BY <1>13, <1>14, <1>15, <1>16 DEF KeepsExact, TimerInv

(* When the top run becomes another and the list stays.                    *)
LEMMA TopTyped ==
  ASSUME T!TypeOK, runs # <<>>, NEW r \in T!Runs, T!Becomes(r),
         timers' = timers, r.firing = NoTimer => r.link <= Len(timers) + 1,
         left' \in [Timers -> -MaxAge..Never],
         interval' = interval, removed' \in [Timers -> BOOLEAN],
         since' \in [Timers -> T!NotYet..Never + MaxAge]
  PROVE  T!TypeOK' /\ T!Top' = r /\ (T!Walking' <=> r.firing = NoTimer)
<1>1. /\ runs' \in Seq(T!Runs) /\ Len(runs') = Len(runs)
      /\ runs'[Len(runs)] = r
      /\ \A k \in 1..Len(runs) - 1 : runs'[k] = runs[k]
  BY TopBecomes
<1>2. T!Top' = r
  BY <1>1 DEF T!Top
<1>3. runs' # <<>>
  <2>1. Len(runs) # 0
    BY DEF T!TypeOK
  <2> QED
    BY <1>1, <2>1
<1>4. T!Walking' <=> r.firing = NoTimer
  BY <1>2, <1>3 DEF T!Walking
<1>5. \A k \in 1..Len(runs') - 1 : runs'[k].firing # NoTimer
  BY <1>1 DEF T!TypeOK
<1>6. T!TypeOK'
  BY <1>1, <1>2, <1>4, <1>5 DEF T!TypeOK
<1> QED
  BY <1>2, <1>4, <1>6

(* A walk that fires rearms the timer, or marks it, before its procedure.  *)
LEMMA FiresKeeps ==
  ASSUME TimerInv, NEW t \in Timers, T!Fires(t)
  PROVE  KeepsExact
<1>0. T!TypeOK
  BY DEF TimerInv
<1>1. T!At(t) /\ ~removed[t] /\ T!Remaining(t) <= 0
  BY DEF T!Fires
<1>2. /\ IF interval[t] > 0
         THEN left' = [left EXCEPT ![t] = interval[t] - T!Top.age] /\ removed' = removed
         ELSE /\ left' = [left EXCEPT ![t] = Never]
              /\ removed' = [removed EXCEPT ![t] = TRUE]
      /\ T!Becomes([T!Top EXCEPT !.firing = t])
      /\ since' = [since EXCEPT ![t] = T!Top.age]
      /\ timers' = timers /\ interval' = interval
  BY DEF T!Fires
<1>3. /\ runs # <<>> /\ T!Top \in T!Runs /\ T!Top.firing = NoTimer
      /\ Len(runs) \in Nat \ {0} /\ T!Top = runs[Len(runs)]
      /\ DOMAIN runs = 1..Len(runs) /\ t \in T!Listed
  BY <1>1, Stands
<1> DEFINE r == [T!Top EXCEPT !.firing = t]
<1>4. r \in T!Runs /\ r.firing = t /\ r.age = T!Top.age
  BY <1>3 DEF T!Runs
<1>5. T!Becomes(r)
  BY <1>2
<1> HIDE DEF r
<1>6. MaxAge \in Nat /\ Never \in Nat \ {0} /\ Delays \cup {0} \subseteq 0..Never
      /\ NoTimer \notin Timers
  BY TimerBounds
<1>7. PICK a \in 0..MaxAge : a = T!Top.age
  BY <1>3 DEF T!Runs
<1>8. PICK v \in 0..Never : v = interval[t]
  BY <1>0, <1>6 DEF T!TypeOK
<1>9. PICK x \in -MaxAge..Never : x = left[t]
  BY <1>0 DEF T!TypeOK
<1>10. PICK s \in T!NotYet..Never + MaxAge : s = since[t]
  BY <1>0 DEF T!TypeOK
<1>11. x # Never /\ x + a <= 0
  BY <1>1, <1>6, <1>7, <1>9 DEF T!Remaining
<1>12. left' \in [Timers -> -MaxAge..Never] /\ removed' \in [Timers -> BOOLEAN]
       /\ since' \in [Timers -> T!NotYet..Never + MaxAge]
  <2>1. /\ left \in [Timers -> -MaxAge..Never] /\ removed \in [Timers -> BOOLEAN]
        /\ since \in [Timers -> T!NotYet..Never + MaxAge]
    BY <1>0 DEF T!TypeOK
  <2>2. v - a \in -MaxAge..Never /\ Never \in -MaxAge..Never
    BY <1>6, <1>7, <1>8
  <2>3. a \in T!NotYet..Never + MaxAge
    BY <1>6, <1>7 DEF T!NotYet
  <2> QED
    BY <1>2, <1>7, <1>8, <2>1, <2>2, <2>3
<1>13. T!TypeOK' /\ ~T!Walking'
  <2>1. r.firing # NoTimer
    BY <1>4, <1>6
  <2> QED
    BY <1>0, <1>2, <1>3, <1>4, <1>5, <1>12, <2>1, TopTyped
<1>14. ASSUME NEW u \in Timers
       PROVE  Waited(u)'
  <2>0. /\ left \in [Timers -> -MaxAge..Never] /\ removed \in [Timers -> BOOLEAN]
        /\ since \in [Timers -> T!NotYet..Never + MaxAge]
    BY <1>0 DEF T!TypeOK
  <2>1. T!Listed' = T!Listed
    BY <1>2 DEF T!Listed
  <2>2. CASE u = t
    <3>1. since'[t] = a /\ interval'[t] = v
      BY <1>2, <1>7, <1>8, <2>0
    <3>2. IF v > 0 THEN left'[t] = v - a ELSE removed'[t]
      BY <1>2, <1>7, <1>8, <2>0
    <3>3. (v - a) + a >= v
      BY <1>7, <1>8
    <3> QED
      BY <1>3, <2>1, <2>2, <3>1, <3>2, <3>3 DEF Waited, T!NotYet
  <2>3. CASE u # t
    <3>1. /\ since'[u] = since[u] /\ left'[u] = left[u] /\ interval'[u] = interval[u]
          /\ removed'[u] = removed[u]
      BY <1>2, <2>0, <2>3
    <3>2. Waited(u)
      BY DEF TimerInv
    <3> QED
      BY <2>1, <3>1, <3>2 DEF Waited, T!NotYet
  <2> QED
    BY <2>2, <2>3
<1>15. /\ runs' \in Seq(T!Runs) /\ Len(runs') = Len(runs)
       /\ runs'[Len(runs)] = r
       /\ \A k \in 1..Len(runs) - 1 : runs'[k] = runs[k]
  BY <1>0, <1>3, <1>4, <1>5, TopBecomes
<1>16. s = T!NotYet \/ (v > 0 /\ s - a >= v)
  <2>1. CASE s # T!NotYet
    <3>1. IF v > 0 THEN x + s >= v ELSE removed[t]
      BY <1>8, <1>9, <1>10, <2>1 DEF TimerInv, Waited
    <3>2. v > 0 /\ x + s >= v
      BY <1>1, <3>1
    <3>3. s \in Int
      BY <1>6, <1>10 DEF T!NotYet
    <3> QED
      BY <1>7, <1>8, <1>9, <1>11, <3>2, <3>3
  <2> QED
    BY <2>1
<1>17. T!OncePerInterval
  <2> SUFFICES ASSUME NEW k \in DOMAIN runs \cap DOMAIN runs',
                      runs[k].firing = NoTimer, runs'[k].firing # NoTimer
               PROVE  \/ since[runs'[k].firing] = T!NotYet
                      \/ /\ interval[runs'[k].firing] > 0
                         /\ since[runs'[k].firing] - runs[k].age >= interval[runs'[k].firing]
    BY DEF T!OncePerInterval
  <2>1. k = Len(runs)
    BY <1>3, <1>15
  <2>2. runs'[k].firing = t /\ runs[k].age = a
    BY <1>3, <1>4, <1>7, <1>15, <2>1
  <2> QED
    BY <1>8, <1>10, <1>16, <2>2
<1>18. T!ReturnsInTime
  <2>1. ~(Len(runs') < Len(runs))
    BY <1>3, <1>15
  <2> QED
    BY <2>1 DEF T!ReturnsInTime
<1> QED
  BY <1>13, <1>14, <1>17, <1>18 DEF KeepsExact, TimerInv, Passed, Exact

(* What the walk passes is due no earlier than what it has gathered then.  *)
LEMMA PassesKeeps ==
  ASSUME TimerInv, NEW t \in Timers, T!Passes(t)
  PROVE  KeepsExact
<1>0. T!TypeOK
  BY DEF TimerInv
<1>1. T!At(t) /\ T!Remaining(t) > 0
  BY DEF T!Passes
<1>2. UNCHANGED <<timers, left, interval, removed, since>>
  BY DEF T!Passes
<1>3. /\ runs # <<>> /\ T!Top \in T!Runs /\ T!Top.firing = NoTimer
      /\ Len(runs) \in Nat \ {0} /\ T!Top = runs[Len(runs)]
      /\ DOMAIN runs = 1..Len(runs)
      /\ T!Top.link \in 1..Len(timers) /\ timers[T!Top.link] = t /\ Len(timers) \in Nat
      /\ timers \in Seq(Timers)
  BY <1>1, Stands
<1>4. MaxAge \in Nat /\ Never \in Nat \ {0}
  BY TimerBounds
<1>5. PICK a \in 0..MaxAge : a = T!Top.age
  BY <1>3 DEF T!Runs
<1>6. PICK x \in -MaxAge..Never : x = left[t]
  BY <1>0 DEF T!TypeOK
<1>7. PICK w \in Int : w = T!Remaining(t) /\ w > 0
  <2>1. T!Remaining(t) = IF x = Never THEN Never ELSE x + a
    BY <1>5, <1>6 DEF T!Remaining
  <2>2. T!Remaining(t) \in Int
    BY <1>4, <2>1
  <2> QED
    BY <1>1, <2>2
<1>8. PICK n \in 0..Never : n = T!Top.next
  BY <1>3 DEF T!Runs
<1>9. PICK l \in 1..Len(timers) : l = T!Top.link
  BY <1>3
<1>10. PICK m \in 0..Never : m = (IF w < n THEN w ELSE n)
  <2>1. (IF w < n THEN w ELSE n) \in 0..Never
    BY <1>4, <1>7, <1>8
  <2> QED
    BY <2>1
<1>11. m <= n /\ m <= w
  BY <1>7, <1>8, <1>10
<1> DEFINE r == [T!Top EXCEPT !.next = m, !.link = l + 1]
<1>12. l + 1 \in Nat \ {0} /\ l + 1 <= Len(timers) + 1
  BY <1>3, <1>9
<1>13. r \in T!Runs /\ r.firing = NoTimer /\ r.link = l + 1 /\ r.next = m /\ r.age = a
  BY <1>3, <1>5, <1>12 DEF T!Runs
<1>14. T!Becomes(r)
  <2>1. T!Becomes([T!Top EXCEPT !.next = IF T!Remaining(t) < @ THEN T!Remaining(t) ELSE @,
                               !.link = @ + 1])
    BY DEF T!Passes
  <2>2. [T!Top EXCEPT !.next = IF T!Remaining(t) < @ THEN T!Remaining(t) ELSE @,
                      !.link = @ + 1]
        = [T!Top EXCEPT !.next = IF w < n THEN w ELSE n, !.link = l + 1]
    BY <1>3, <1>7, <1>8, <1>9 DEF T!Runs
  <2> QED
    BY <1>10, <2>1, <2>2
<1> HIDE DEF r
<1>15. T!TypeOK' /\ T!Top' = r
  <2>1. left' \in [Timers -> -MaxAge..Never] /\ removed' \in [Timers -> BOOLEAN]
        /\ since' \in [Timers -> T!NotYet..Never + MaxAge]
    BY <1>0, <1>2 DEF T!TypeOK
  <2> QED
    BY <1>0, <1>2, <1>3, <1>12, <1>13, <1>14, <2>1, TopTyped
<1>16. Passed'
  <2> SUFFICES ASSUME NEW j \in 1..(l + 1) - 1
               PROVE  removed'[timers'[j]] \/ m <= T!Remaining(timers[j])'
    BY <1>13, <1>15 DEF Passed
  <2>1. \A u : T!Remaining(u)' = T!Remaining(u)
    <3>1. (T!Top').age = T!Top.age
      BY <1>5, <1>13, <1>15
    <3> QED
      BY <1>2, <3>1 DEF T!Remaining
  <2>2. j \in 1..l /\ j \in 1..Len(timers)
    BY <1>9, <1>3
  <2>3. CASE j = l
    BY <1>2, <1>3, <1>7, <1>9, <1>11, <2>1, <2>3
  <2>4. CASE j # l
    <3>1. j \in 1..l - 1
      BY <1>9, <2>2, <2>4
    <3>2. removed[timers[j]] \/ n <= T!Remaining(timers[j])
      BY <1>1, <1>8, <1>9, <3>1 DEF TimerInv, Passed, T!At
    <3>3. T!Remaining(timers[j]) \in Int
      <4>1. timers[j] \in Timers
        BY <1>3, <2>2
      <4>2. left[timers[j]] \in -MaxAge..Never
        BY <1>0, <4>1 DEF T!TypeOK
      <4>3. PICK y \in -MaxAge..Never : y = left[timers[j]]
        BY <4>2
      <4>4. T!Remaining(timers[j]) = IF y = Never THEN Never ELSE y + a
        BY <1>5, <4>3 DEF T!Remaining
      <4> QED
        BY <1>4, <4>4
    <3>4. PICK z \in Int : z = T!Remaining(timers[j])
      BY <3>3
    <3>5. removed[timers[j]] \/ m <= z
      BY <1>11, <3>2, <3>4
    <3> QED
      BY <1>2, <2>1, <3>4, <3>5
  <2> QED
    BY <2>3, <2>4
<1>17. Exact
  <2>1. /\ runs' \in Seq(T!Runs) /\ Len(runs') = Len(runs)
        /\ runs'[Len(runs)] = r
        /\ \A k \in 1..Len(runs) - 1 : runs'[k] = runs[k]
    BY <1>0, <1>3, <1>13, <1>14, TopBecomes
  <2>2. \A k \in DOMAIN runs : runs'[k].firing # NoTimer => runs[k].firing # NoTimer
    BY <1>3, <1>13, <2>1
  <2>3. Len(runs') >= Len(runs)
    BY <1>3, <2>1
  <2> QED
    BY <1>0, <2>1, <2>2, <2>3, NothingFires
<1> QED
  BY <1>2, <1>15, <1>16, <1>17, SameWaits DEF KeepsExact, TimerInv

(* A procedure that returns changes no timer; its walk starts over.        *)
LEMMA ReturnKeeps ==
  ASSUME TimerInv, T!ProcedureReturns
  PROVE  KeepsExact
<1>0. T!TypeOK
  BY DEF TimerInv
<1>1. runs # <<>> /\ UNCHANGED <<timers, left, interval, removed, since>>
  BY DEF T!ProcedureReturns
<1> DEFINE r == [T!Top EXCEPT !.firing = NoTimer, !.link = 1]
<1>2. /\ T!Top \in T!Runs /\ Len(runs) \in Nat \ {0} /\ DOMAIN runs = 1..Len(runs)
  BY <1>0, <1>1, TopIs
<1>3. r \in T!Runs /\ r.firing = NoTimer /\ r.link = 1
  <2>1. PICK head \in Nat \ {0} : head = 1
    OBVIOUS
  <2>2. PICK none \in Timers \cup {NoTimer} : none = NoTimer
    OBVIOUS
  <2>3. r = [T!Top EXCEPT !.firing = none, !.link = head]
    BY <2>1, <2>2
  <2> HIDE DEF r
  <2>4. r \in T!Runs /\ r.firing = none /\ r.link = head
    BY <1>2, <2>3 DEF T!Runs
  <2> QED
    BY <2>1, <2>2, <2>4
<1>4. T!Becomes(r)
  BY DEF T!ProcedureReturns
<1> HIDE DEF r
<1>5. T!TypeOK' /\ T!Top' = r
  <2>1. left' \in [Timers -> -MaxAge..Never] /\ removed' \in [Timers -> BOOLEAN]
        /\ since' \in [Timers -> T!NotYet..Never + MaxAge] /\ Len(timers) \in Nat
    BY <1>0, <1>1 DEF T!TypeOK
  <2>2. r.link <= Len(timers) + 1
    BY <1>3, <2>1
  <2> QED
    BY <1>0, <1>1, <1>3, <1>4, <2>1, <2>2, TopTyped
<1>6. Passed'
  <2>1. 1..(T!Top').link - 1 = {}
    BY <1>3, <1>5
  <2> QED
    BY <2>1 DEF Passed
<1>7. Exact
  <2>1. /\ runs' \in Seq(T!Runs) /\ Len(runs') = Len(runs)
        /\ runs'[Len(runs)] = r
        /\ \A k \in 1..Len(runs) - 1 : runs'[k] = runs[k]
    BY <1>0, <1>1, <1>3, <1>4, TopBecomes
  <2>2. \A k \in DOMAIN runs : runs'[k].firing # NoTimer => runs[k].firing # NoTimer
    BY <1>2, <1>3, <2>1
  <2>3. Len(runs') >= Len(runs)
    BY <1>2, <2>1
  <2> QED
    BY <1>0, <2>1, <2>2, <2>3, NothingFires
<1> QED
  BY <1>1, <1>5, <1>6, <1>7, SameWaits DEF KeepsExact, TimerInv

(* A run that ends has passed the whole list, and leaves the outer runs as *)
(* they were, inside their procedures.                                     *)
LEMMA EndKeeps ==
  ASSUME TimerInv, T!RunEnds
  PROVE  KeepsExact
<1>0. T!TypeOK
  BY DEF TimerInv
<1>1. /\ T!Walking /\ runs # <<>> /\ T!Top.link > Len(timers)
      /\ UNCHANGED <<timers, left, interval, removed, since>>
  BY DEF T!RunEnds, T!Walking
<1>2. /\ Len(runs) \in Nat \ {0} /\ DOMAIN runs = 1..Len(runs) /\ runs \in Seq(T!Runs)
      /\ T!Top \in T!Runs
  BY <1>0, <1>1, TopIs DEF T!TypeOK
<1>3. runs' = SubSeq(runs, 1, Len(runs) - 1)
  BY DEF T!RunEnds
<1>4. T!Top.link \in Nat
  BY <1>2 DEF T!Runs
<1> HIDE DEF T!Runs
<1>5. /\ runs' \in Seq(T!Runs) /\ Len(runs') = Len(runs) - 1
      /\ \A k \in 1..Len(runs) - 1 : runs'[k] = runs[k]
      /\ DOMAIN runs' = 1..Len(runs) - 1
  BY <1>2, <1>3
<1>6. \A k \in 1..Len(runs') : runs'[k].firing # NoTimer
  <2>1. \A k \in 1..Len(runs) - 1 : runs[k].firing # NoTimer
    BY <1>0 DEF T!TypeOK
  <2> QED
    BY <1>2, <1>5, <2>1
<1>7. ~T!Walking'
  <2>1. CASE runs' = <<>>
    BY <2>1 DEF T!Walking
  <2>2. CASE runs' # <<>>
    <3>1. Len(runs') \in 1..Len(runs')
      BY <1>5, <2>2
    <3> QED
      BY <1>6, <3>1 DEF T!Walking, T!Top
  <2> QED
    BY <2>1, <2>2
<1>8. T!TypeOK'
  <2>1. \A k \in 1..Len(runs') - 1 : runs'[k].firing # NoTimer
    <3>1. Len(runs') \in Nat
      BY <1>2, <1>5
    <3>2. 1..Len(runs') - 1 \subseteq 1..Len(runs')
      BY <3>1
    <3> QED
      BY <1>6, <3>2
  <2> QED
    BY <1>0, <1>1, <1>5, <1>7, <2>1 DEF T!TypeOK
<1>9. T!ReturnsInTime
  <2> SUFFICES ASSUME NEW t \in T!Listed
               PROVE  removed[t] \/ T!Top.next <= T!Remaining(t)
    BY DEF T!ReturnsInTime
  <2>1. PICK j \in 1..Len(timers) : t = timers[j]
    BY <1>0 DEF T!Listed, T!TypeOK
  <2>2. Len(timers) \in Nat
    BY <1>0 DEF T!TypeOK
  <2>3. j \in 1..T!Top.link - 1
    BY <1>1, <1>4, <2>1, <2>2
  <2> QED
    BY <1>1, <2>1, <2>3 DEF TimerInv, Passed
<1>10. T!OncePerInterval
  <2>1. \A k \in DOMAIN runs \cap DOMAIN runs' : runs'[k] = runs[k]
    BY <1>5
  <2> QED
    BY <2>1 DEF T!OncePerInterval
<1> QED
  BY <1>1, <1>7, <1>8, <1>9, <1>10, SameWaits DEF KeepsExact, TimerInv, Passed, Exact

(* Time that passes brings no timer nearer than it brings a run's clock on.*)
LEMMA TickKeeps ==
  ASSUME TimerInv, T!Tick
  PROVE  KeepsExact
<1>0. T!TypeOK
  BY DEF TimerInv
<1>1. /\ runs \in Seq(T!Runs) /\ MaxAge \in Nat /\ Never \in Nat \ {0}
      /\ left \in [Timers -> -MaxAge..Never]
      /\ since \in [Timers -> T!NotYet..Never + MaxAge]
      /\ \A t \in Timers : interval[t] \in 0..Never
  <2>1. Delays \cup {0} \subseteq 0..Never
    BY TimerBounds
  <2> QED
    BY <1>0, <2>1, TimerBounds DEF T!TypeOK
<1>2. /\ UNCHANGED <<timers, interval, removed>>
      /\ left' = [t \in Timers |->
           IF left[t] = Never \/ left[t] <= -MaxAge THEN left[t] ELSE left[t] - 1]
      /\ since' = [t \in Timers |->
           IF since[t] = T!NotYet \/ since[t] >= interval[t] + MaxAge THEN since[t]
           ELSE since[t] + 1]
      /\ runs' = [i \in DOMAIN runs |-> [runs[i] EXCEPT !.age = runs[i].age + 1]]
  BY DEF T!Tick
<1>3. ASSUME NEW t \in Timers
      PROVE  /\ left'[t] \in -MaxAge..Never /\ since'[t] \in T!NotYet..Never + MaxAge
             /\ left[t] = Never <=> left'[t] = Never
             /\ left'[t] + 1 >= left[t]
             /\ since[t] = T!NotYet <=> since'[t] = T!NotYet
             /\ since[t] # T!NotYet /\ left[t] + since[t] >= interval[t]
                  => left'[t] + since'[t] >= interval[t]
  <2>1. PICK x \in -MaxAge..Never : x = left[t]
    BY <1>1
  <2>2. PICK s \in -1..Never + MaxAge : s = since[t]
    BY <1>1 DEF T!NotYet
  <2>3. PICK v \in 0..Never : v = interval[t]
    BY <1>1
  <2>4. left'[t] = IF x = Never \/ x <= -MaxAge THEN x ELSE x - 1
    BY <1>2, <2>1
  <2>5. since'[t] = IF s = -1 \/ s >= v + MaxAge THEN s ELSE s + 1
    BY <1>2, <2>2, <2>3 DEF T!NotYet
  <2>0. MaxAge \in Nat /\ Never \in Nat \ {0}
    BY TimerBounds
  <2>6. left'[t] \in -MaxAge..Never /\ (x = Never <=> left'[t] = Never) /\ left'[t] + 1 >= x
    BY <2>0, <2>4
  <2>7. since'[t] \in -1..Never + MaxAge /\ (s = -1 <=> since'[t] = -1)
    BY <2>0, <2>5
  <2>8. s # -1 /\ x + s >= v => left'[t] + since'[t] >= v
    <3> SUFFICES ASSUME s # -1, x + s >= v
                 PROVE  left'[t] + since'[t] >= v
      OBVIOUS
    <3>1. PICK y \in Int : y = (IF x = Never \/ x <= -MaxAge THEN x ELSE x - 1)
      BY <2>0
    <3>2. PICK z \in Int : z = (IF s >= v + MaxAge THEN s ELSE s + 1)
      BY <2>0
    <3>3. y + z >= v
      BY <2>0, <3>1, <3>2
    <3> QED
      BY <2>4, <2>5, <3>1, <3>2, <3>3
  <2> QED
    BY <2>1, <2>2, <2>3, <2>6, <2>7, <2>8 DEF T!NotYet
<1>4. left' \in [Timers -> -MaxAge..Never] /\ since' \in [Timers -> T!NotYet..Never + MaxAge]
  BY <1>2, <1>3
<1>5. /\ DOMAIN runs' = 1..Len(runs) /\ Len(runs) \in Nat
      /\ \A i \in 1..Len(runs) : runs'[i] = [runs[i] EXCEPT !.age = runs[i].age + 1]
  <2> HIDE DEF T!Runs
  <2>1. DOMAIN runs = 1..Len(runs) /\ Len(runs) \in Nat
    BY <1>1
  <2> QED
    BY <1>2, <2>1
<1>6. ASSUME NEW i \in 1..Len(runs)
      PROVE  /\ runs'[i] \in T!Runs /\ runs'[i].firing = runs[i].firing
             /\ runs'[i].link = runs[i].link /\ runs'[i].next = runs[i].next
             /\ runs'[i].age = runs[i].age + 1
  <2>1. PICK r \in T!Runs : r = runs[i]
    BY <1>1
  <2>2. r.age < MaxAge
    BY <1>1, <2>1 DEF T!Tick
  <2>3. r.age + 1 \in 0..MaxAge
    BY <1>1, <2>2, SMTT(30) DEF T!Runs
  <2> DEFINE q == [r EXCEPT !.age = r.age + 1]
  <2>4. /\ q \in T!Runs /\ q.firing = r.firing /\ q.link = r.link /\ q.next = r.next
        /\ q.age = r.age + 1
    BY <2>3 DEF T!Runs
  <2>5. runs'[i] = q
    BY <1>5, <2>1
  <2> QED
    BY <2>1, <2>4, <2>5
<1>7. runs' \in Seq(T!Runs) /\ Len(runs') = Len(runs)
  <2>1. runs' = [i \in 1..Len(runs) |-> runs'[i]]
    BY <1>1, <1>2, <1>5
  <2> HIDE DEF T!Runs
  <2> QED
    BY <1>5, <1>6, <2>1
<1>8. \A k \in 1..Len(runs') - 1 : runs'[k].firing # NoTimer
  BY <1>0, <1>5, <1>6, <1>7 DEF T!TypeOK
<1>9. ASSUME T!Walking'
      PROVE  /\ T!Walking /\ (T!Top').link = T!Top.link /\ (T!Top').next = T!Top.next
             /\ (T!Top').age = T!Top.age + 1
  <2>1. runs # <<>> /\ Len(runs) \in 1..Len(runs)
    <3>1. Len(runs) # 0
      BY <1>7, <1>9 DEF T!Walking
    <3> QED
      BY <1>5, <3>1
  <2> QED
    BY <1>6, <1>7, <1>9, <2>1 DEF T!Walking, T!Top
<1>10. T!TypeOK'
  <2>1. T!Walking' => (T!Top').link <= Len(timers') + 1
    BY <1>0, <1>2, <1>9 DEF T!TypeOK
  <2> QED
    BY <1>0, <1>2, <1>4, <1>7, <1>8, <2>1 DEF T!TypeOK
<1>11. Passed'
  <2> SUFFICES ASSUME T!Walking', NEW j \in 1..(T!Top').link - 1
               PROVE  removed'[timers'[j]]
                        \/ (T!Top').next <= T!Remaining(timers[j])'
    BY DEF Passed
  <2>1. j \in 1..T!Top.link - 1 /\ T!Walking
    BY <1>9
  <2>2. removed[timers[j]] \/ T!Top.next <= T!Remaining(timers[j])
    BY <2>1 DEF TimerInv, Passed
  <2>3. T!Top \in T!Runs
    BY <1>0, <2>1, TopIs DEF T!Walking
  <2>4. PICK a \in 0..MaxAge : a = T!Top.age
    BY <2>3 DEF T!Runs
  <2>5. PICK n \in 0..Never : n = T!Top.next
    BY <2>3 DEF T!Runs
  <2>6. PICK l \in Nat \ {0} : l = T!Top.link
    BY <2>3 DEF T!Runs
  <2>7. timers[j] \in Timers
    <3>1. l <= Len(timers) + 1 /\ timers \in Seq(Timers)
      BY <1>0, <2>1, <2>6 DEF T!TypeOK
    <3>2. j \in 1..Len(timers)
      BY <2>1, <2>6, <3>1
    <3> QED
      BY <3>1, <3>2
  <2>8. PICK u \in Timers : u = timers[j]
    BY <2>7
  <2>9. PICK x \in -MaxAge..Never : x = left[u]
    BY <1>1
  <2>10. PICK y \in -MaxAge..Never : y = left'[u]
    BY <1>3
  <2>11. (x = Never <=> y = Never) /\ y + 1 >= x
    BY <1>3, <2>9, <2>10
  <2>12. T!Remaining(u) = IF x = Never THEN Never ELSE x + a
    BY <2>4, <2>9 DEF T!Remaining
  <2>13. T!Remaining(u)' = IF y = Never THEN Never ELSE y + (a + 1)
    BY <1>9, <2>4, <2>10 DEF T!Remaining
  <2>14. n <= T!Remaining(u) => n <= T!Remaining(u)'
    BY <1>1, <2>11, <2>12, <2>13
  <2>15. timers'[j] = u /\ T!Remaining(timers[j])' = T!Remaining(u)'
    BY <1>2, <2>8 DEF T!Remaining
  <2> QED
    BY <1>2, <1>9, <2>2, <2>5, <2>8, <2>14, <2>15
<1>12. ASSUME NEW t \in Timers
       PROVE  Waited(t)'
  <2>1. Waited(t) /\ T!Listed' = T!Listed
    BY <1>2 DEF TimerInv, T!Listed
  <2> QED
    BY <1>2, <1>3, <2>1 DEF Waited, T!NotYet
<1>13. Exact
  <2>1. Len(runs') >= Len(runs)
    BY <1>5, <1>7
  <2>2. \A i \in DOMAIN runs \cap DOMAIN runs' : runs'[i].firing = runs[i].firing
    BY <1>5, <1>6
  <2> QED
    BY <1>0, <1>7, <2>1, <2>2, NothingFires
<1> QED
  BY <1>10, <1>11, <1>12, <1>13 DEF KeepsExact, TimerInv

(* Any step.                                                               *)
LEMMA TimersKeep ==
  ASSUME TimerInv, [T!Next]_timerVars
  PROVE  TimerInv' /\ (Exact \/ UNCHANGED timerVars)
<1>1. CASE T!Next
  BY <1>1, InstallKeeps, RemoveKeeps, RunStartsKeeps, SweepsKeeps, FiresKeeps, PassesKeeps,
     EndKeeps, ReturnKeeps, TickKeeps DEF T!Next, T!Walk, KeepsExact
<1>2. CASE UNCHANGED timerVars
  <2>1. UNCHANGED <<timers, left, interval, removed, since>> /\ runs' = runs
    BY <1>2 DEF timerVars
  <2>2. T!TypeOK' /\ Passed'
    BY <2>1 DEF TimerInv, T!TypeOK, Passed, T!Walking, T!Top, T!Remaining
  <2> QED
    BY <1>2, <2>1, <2>2, SameWaits DEF TimerInv
<1> QED
  BY <1>1, <1>2

(* No timer is set at first.                                               *)
LEMMA TimersStart ==
  T!Init => TimerInv
<1> SUFFICES ASSUME T!Init PROVE TimerInv
  OBVIOUS
<1>1. T!TypeOK
  BY TimerBounds DEF T!Init, T!TypeOK, T!Runs, T!Walking, T!NotYet
<1>2. Passed /\ \A t \in Timers : Waited(t)
  BY DEF T!Init, Passed, Waited, T!Walking, T!NotYet
<1> QED
  BY <1>1, <1>2 DEF TimerInv

-----------------------------------------------------------------------------
(* The parts together.                                                     *)

(* The parts start as they do by themselves, and a step is one of the      *)
(* loops or one of the timers.                                             *)
LEMMA PartSteps ==
  /\ PartInit => LoopInv /\ TimerInv
  /\ LoopInv /\ TimerInv /\ [PartNext]_partVars => LoopInv' /\ TimerInv'
  /\ TimerInv /\ [PartNext]_partVars =>
       [T!ReturnsInTime /\ T!OncePerInterval]_(T!vars)
<1>1. PartInit => LoopInv /\ TimerInv
  BY InitHolds, TimersStart DEF PartInit
<1>2. [PartNext]_partVars => [Next]_vars /\ [T!Next]_timerVars
  BY DEF PartNext, Loops, Clock, partVars
<1> QED
  BY <1>1, <1>2, NextKeeps, TimersKeep DEF T!vars, timerVars, Exact

(* What run_timers returns is no later than any timer in the list is due,  *)
(* and a timer fires again only once its interval has passed, whatever     *)
(* procedures, nested runs and other threads do to the list in the middle  *)
(* of the walk: which is why the walk starts over after a procedure, and a *)
(* timer is rearmed before its own.                                        *)
THEOREM TimersRunExactly == PartSpec => RunsAreExact
BY PartSteps, PTL DEF PartSpec, RunsAreExact, T!RunsAreExact

(* The loops' counts and lists are those of the stack, and no timer is in  *)
(* the list twice, though a walk frees some of them and is nested in       *)
(* another one's procedure.                                                *)
THEOREM LoopsAndTimersAreTyped == PartSpec => []TypesOK
<1>1. LoopInv /\ TimerInv => TypesOK
  BY InvIsTyped DEF TypesOK, TimerInv
<1> QED
  BY <1>1, PartSteps, PTL DEF PartSpec
=============================================================================
