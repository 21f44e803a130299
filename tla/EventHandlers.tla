---------------------------- MODULE EventHandlers ----------------------------
(***************************************************************************)
(* Handlers on event targets, and their dispatch, of src/hle/events.c.     *)
(*                                                                         *)
(* A target keeps a linked list of handlers, newest first.  dispatch()     *)
(* walks it and then the parents' lists, and calls the handlers that want  *)
(* the event: code of the game, which installs and removes handlers,       *)
(* disposes of targets and dispatches again in the middle of the walk.     *)
(* handler_lock is recursive and held all along, so what happens happens   *)
(* on one thread; `stack` holds its dispatches, outermost first.           *)
(***************************************************************************)
EXTENDS Naturals, Sequences, FiniteSets

CONSTANTS Targets,   \* hle_target of windows, controls, menus, the application
          NoTarget,  \* a NULL hle_target*
          Parent,    \* hle_target.parent
          Handlers,  \* addresses calloc gives struct hle_handler
          Nil,       \* a NULL hle_handler*
          Events,    \* event classes and kinds
          MaxDepth   \* bound: dispatches inside dispatches

ASSUME NullIsNoTarget == NoTarget \notin Targets
ASSUME NullIsNoHandler == Nil \notin Handlers
ASSUME ParentsAreTargets == Parent \in [Targets -> Targets \cup {NoTarget}]
ASSUME DepthBound == MaxDepth \in Nat

VARIABLES
  object,     \* a target: "none" before its object exists, "alive", "freed"
  first,      \* hle_target.handlers
  state,      \* a handler: "free", "installed", or "removed" but not freed
  next,       \* hle_handler.next
  target,     \* hle_handler.target
  wants,      \* hle_handler.types
  removed_handlers,
  stack,      \* the dispatches under way; its length is dispatch_depth
  destroying, \* the target hle_target_destroy is at work on
  crashed     \* a parent was read from a target that was freed

vars == <<object, first, state, next, target, wants, removed_handlers,
          stack, destroying, crashed>>
lists == <<first, state, next, target, wants, removed_handlers>>

(* A dispatch: the event; the target and the handler the walk is at;       *)
(* whether it is in that handler's procedure, and the handler that the     *)
(* procedure's call_ref names.  owed is history: the handlers this         *)
(* dispatch found and still has to come to.                                *)
Frames == [event : Events, t : Targets, h : Handlers \cup {Nil},
           calling : BOOLEAN, ref : Handlers \cup {Nil}, owed : SUBSET Handlers]

Init ==
  /\ object = [t \in Targets |-> "none"]
  /\ first = [t \in Targets |-> Nil]
  /\ state = [h \in Handlers |-> "free"]
  /\ next = [h \in Handlers |-> Nil]
  /\ target = [h \in Handlers |-> NoTarget]
  /\ wants = [h \in Handlers |-> {}]
  /\ removed_handlers = Nil
  /\ stack = <<>>
  /\ destroying = NoTarget
  /\ crashed = FALSE

Top == stack[Len(stack)]

(* The game's code runs: outside any dispatch, or in a handler.            *)
GameRuns ==
  /\ ~crashed
  /\ destroying = NoTarget
  /\ stack # <<>> => Top.calling

-----------------------------------------------------------------------------
(* Targets and their handlers.                                             *)

hle_target_init(t) ==
  /\ GameRuns
  /\ object[t] = "none"
  /\ Parent[t] # NoTarget => object[Parent[t]] = "alive"
  /\ object' = [object EXCEPT ![t] = "alive"]
  /\ first' = [first EXCEPT ![t] = Nil]
  /\ UNCHANGED <<state, next, target, wants, removed_handlers, stack,
                 destroying, crashed>>

InstallEventHandler(t, h, types) ==
  /\ GameRuns
  /\ object[t] = "alive"
  /\ state[h] = "free"
  /\ state' = [state EXCEPT ![h] = "installed"]
  /\ target' = [target EXCEPT ![h] = t]
  /\ wants' = [wants EXCEPT ![h] = types]
  /\ next' = [next EXCEPT ![h] = first[t]]
  /\ first' = [first EXCEPT ![t] = h]
  /\ UNCHANGED <<object, removed_handlers, stack, destroying, crashed>>

(* Once removed, a handler is owed nothing.                                *)
NotOwed(h) ==
  [i \in DOMAIN stack |-> [stack[i] EXCEPT !.owed = @ \ {h}]]

(* Out of its target's list.                                               *)
Unlinks(h) ==
  first' = [first EXCEPT ![target[h]] = IF @ = h THEN next[h] ELSE @]
Bypassed(h) ==
  [x \in Handlers |-> IF state[x] = "installed" /\ next[x] = h
                      THEN next[h] ELSE next[x]]

(* Faulty variant: it is freed though a dispatch may be at it.             *)
unlink_handler_AtOnce(h) ==
  /\ Unlinks(h)
  /\ state' = [state EXCEPT ![h] = "free"]
  /\ next' = Bypassed(h)
  /\ stack' = NotOwed(h)
  /\ UNCHANGED <<target, wants, removed_handlers>>

(* During a dispatch it is kept, and its link is used for the list of      *)
(* removed handlers; else it is freed.                                     *)
unlink_handler(h) ==
  /\ Unlinks(h)
  /\ IF stack # <<>>
     THEN /\ state' = [state EXCEPT ![h] = "removed"]
          /\ next' = [Bypassed(h) EXCEPT ![h] = removed_handlers]
          /\ removed_handlers' = h
     ELSE /\ state' = [state EXCEPT ![h] = "free"]
          /\ next' = Bypassed(h)
          /\ UNCHANGED removed_handlers
  /\ stack' = NotOwed(h)
  /\ UNCHANGED <<target, wants>>

RemoveEventHandler(h) ==
  /\ GameRuns
  /\ state[h] = "installed"
  /\ unlink_handler(h)
  /\ UNCHANGED <<object, destroying, crashed>>

(* AddEventTypesToHandler and RemoveEventTypesFromHandler.                 *)
ChangesTypes(h, types) ==
  /\ GameRuns
  /\ state[h] = "installed"
  /\ wants' = [wants EXCEPT ![h] = types]
  /\ UNCHANGED <<object, first, state, next, target, removed_handlers, stack,
                 destroying, crashed>>

(* hle_target_destroy, and the free of the object by its caller, which has *)
(* disposed of what the object holds; the application's target is static.  *)
hle_target_destroy(t) ==
  /\ GameRuns
  /\ object[t] = "alive" /\ Parent[t] # NoTarget
  /\ \A s \in Targets : Parent[s] = t => object[s] # "alive"
  /\ destroying' = t
  /\ UNCHANGED <<object, lists, stack, crashed>>

DestroyUnlinks ==
  /\ destroying # NoTarget
  /\ first[destroying] # Nil
  /\ unlink_handler(first[destroying])
  /\ UNCHANGED <<object, destroying, crashed>>

Destroyed ==
  /\ destroying # NoTarget
  /\ first[destroying] = Nil
  /\ object' = [object EXCEPT ![destroying] = "freed"]
  /\ destroying' = NoTarget
  /\ UNCHANGED <<lists, stack, crashed>>

-----------------------------------------------------------------------------
(* Dispatch.                                                               *)

(* The list from h on: what every set has that has h and is closed.        *)
Closed(h, S) == ({h} \cup {next[x] : x \in S}) \ {Nil} \subseteq S
OnList(h) == {x \in Handlers : \A S \in SUBSET Handlers : Closed(h, S) => x \in S}

(* The targets an unhandled event moves on to from t.                      *)
Above(t) ==
  LET up[i \in 0..Cardinality(Targets)] ==
        IF i = 0 THEN t
        ELSE IF up[i-1] = NoTarget THEN NoTarget ELSE Parent[up[i-1]]
  IN {up[i] : i \in 1..Cardinality(Targets)} \ {NoTarget}

Starts(t, h, e) ==
  Append(stack,
    [event |-> e, t |-> t, h |-> h, calling |-> FALSE, ref |-> Nil,
     owed |-> {x \in Handlers : state[x] = "installed" /\
                 (x \in OnList(h) \/ target[x] \in Above(t))}])

SendEventToEventTarget(e, t) ==
  /\ GameRuns
  /\ Len(stack) < MaxDepth
  /\ object[t] = "alive"
  /\ stack' = Starts(t, first[t], e)
  /\ UNCHANGED <<object, lists, destroying, crashed>>

(* From the handler after the caller's, or from the parent if none is.     *)
CallNextEventHandler ==
  /\ GameRuns
  /\ stack # <<>> /\ Len(stack) < MaxDepth
  /\ IF Top.ref # Nil
     THEN stack' = Starts(Top.t, Top.ref, Top.event) /\ UNCHANGED crashed
     ELSE IF object[Top.t] = "freed"
     THEN crashed' = TRUE /\ UNCHANGED stack
     ELSE /\ Parent[Top.t] # NoTarget
          /\ stack' = Starts(Parent[Top.t], first[Parent[Top.t]], Top.event)
          /\ UNCHANGED crashed
  /\ UNCHANGED <<object, lists, destroying>>

Walking == ~crashed /\ destroying = NoTarget /\ stack # <<>> /\ ~Top.calling
Becomes(frame) == stack' = [stack EXCEPT ![Len(stack)] = frame]

Wanted == state[Top.h] = "installed" /\ Top.event \in wants[Top.h]

Calls ==
  /\ Walking
  /\ Top.h # Nil /\ Wanted
  /\ Becomes([Top EXCEPT !.calling = TRUE, !.ref = next[Top.h],
                         !.owed = @ \ {Top.h}])
  /\ UNCHANGED <<object, lists, destroying, crashed>>

Skips ==
  /\ Walking
  /\ Top.h # Nil /\ ~Wanted
  /\ Becomes([Top EXCEPT !.h = next[Top.h], !.owed = @ \ {Top.h}])
  /\ UNCHANGED <<object, lists, destroying, crashed>>

(* The procedure returns eventNotHandledErr.                               *)
NotHandled ==
  /\ GameRuns
  /\ stack # <<>>
  /\ Becomes([Top EXCEPT !.calling = FALSE, !.h = next[Top.h]])
  /\ UNCHANGED <<object, lists, destroying, crashed>>

(* Faulty variant: the end of the chain of parents is not noticed.         *)
MovesToParent_Past ==
  /\ Walking
  /\ Top.h = Nil
  /\ object[Top.t] # "freed"
  /\ LET p == Parent[Top.t]
     IN Becomes([Top EXCEPT !.t = p,
                            !.h = IF p = NoTarget THEN Nil ELSE first[p]])
  /\ UNCHANGED <<object, lists, destroying, crashed>>

(* What a freed target holds for a parent is nobody's target.              *)
MovesToParent ==
  /\ Walking
  /\ Top.h = Nil
  /\ IF object[Top.t] = "freed"
     THEN crashed' = TRUE /\ UNCHANGED stack
     ELSE /\ Parent[Top.t] # NoTarget
          /\ Becomes([Top EXCEPT !.t = Parent[Top.t],
                                 !.h = first[Parent[Top.t]]])
          /\ UNCHANGED crashed
  /\ UNCHANGED <<object, lists, destroying>>

(* dispatch returns; the outermost frees what was removed meanwhile.       *)
Ends ==
  /\ stack' = SubSeq(stack, 1, Len(stack) - 1)
  /\ IF Len(stack) = 1
     THEN /\ state' = [h \in Handlers |->
                         IF state[h] = "removed" THEN "free" ELSE state[h]]
          /\ removed_handlers' = Nil
     ELSE UNCHANGED <<state, removed_handlers>>
  /\ UNCHANGED <<object, first, next, target, wants, destroying, crashed>>

Handled == GameRuns /\ stack # <<>> /\ Ends

NobodyHandled ==
  /\ Walking
  /\ Top.h = Nil
  /\ object[Top.t] # "freed" /\ Parent[Top.t] = NoTarget
  /\ Ends

-----------------------------------------------------------------------------
DispatchStep ==
  Calls \/ Skips \/ MovesToParent \/ NobodyHandled \/ DestroyUnlinks \/ Destroyed

GameStep ==
  \/ \E t \in Targets :
       \/ hle_target_init(t) \/ hle_target_destroy(t)
       \/ \E e \in Events : SendEventToEventTarget(e, t)
       \/ \E h \in Handlers, types \in SUBSET Events :
            InstallEventHandler(t, h, types)
  \/ \E h \in Handlers :
       \/ RemoveEventHandler(h)
       \/ \E types \in SUBSET Events : ChangesTypes(h, types)
  \/ CallNextEventHandler

Returns == NotHandled \/ Handled

Next == DispatchStep \/ GameStep \/ Returns

Spec == Init /\ [][Next]_vars

-----------------------------------------------------------------------------
(* Properties.                                                             *)

(* Every variable has its type; a dispatch in a procedure is at a handler, *)
(* and only the innermost may be between two.                              *)
TypeOK ==
  /\ object \in [Targets -> {"none", "alive", "freed"}]
  /\ first \in [Targets -> Handlers \cup {Nil}]
  /\ state \in [Handlers -> {"free", "installed", "removed"}]
  /\ next \in [Handlers -> Handlers \cup {Nil}]
  /\ target \in [Handlers -> Targets \cup {NoTarget}]
  /\ wants \in [Handlers -> SUBSET Events]
  /\ removed_handlers \in Handlers \cup {Nil}
  /\ stack \in Seq(Frames)
  /\ \A i \in 1..Len(stack) :
       /\ stack[i].calling => stack[i].h # Nil
       /\ i < Len(stack) => stack[i].calling
  /\ destroying \in Targets \cup {NoTarget}
  /\ crashed \in BOOLEAN

(* No dispatch stands at a freed handler, or holds one for                 *)
(* CallNextEventHandler, whatever was removed inside it or inside the      *)
(* dispatches nested in it.                                                *)
Usable(h) == h = Nil \/ state[h] # "free"
NothingFreedInUse ==
  \A i \in 1..Len(stack) :
    Usable(stack[i].h) /\ (stack[i].calling => Usable(stack[i].ref))

(* A target's list holds exactly its installed handlers, and the list of   *)
(* removed ones exactly those removed while a dispatch is under way, and   *)
(* both end: though they use the same link, and a walk may be at either,   *)
(* no handler is lost or freed twice, and no walk goes round for ever.     *)
ListsAreExact ==
  /\ \A t \in Targets :
       OnList(first[t]) =
         {h \in Handlers : state[h] = "installed" /\ target[h] = t}
  /\ OnList(removed_handlers) = {h \in Handlers : state[h] = "removed"}
  /\ \A S \in SUBSET {h \in Handlers : state[h] # "free"} :
       S # {} => \E h \in S : next[h] \notin S
  /\ stack = <<>> => removed_handlers = Nil

(* Both: dispatch() may follow any handler it is at, to the end.           *)
HandlersAreKept == NothingFreedInUse /\ ListsAreExact

(* "An event nobody handles moves on to the parent" (toolbox.h), after the *)
(* handlers of the target: a dispatch that ends unhandled has come to      *)
(* every handler that was there when it began and was not removed.         *)
EveryHandlerIsAskedStep ==
  Walking /\ Len(stack') < Len(stack) => Top.owed = {}
EveryHandlerIsAsked == [][EveryHandlerIsAskedStep]_vars
=============================================================================
