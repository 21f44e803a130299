------------------------------ MODULE MCEvents ------------------------------
(***************************************************************************)
(* Instances of EventHandlers, a window below the application, of          *)
(* EventQueue, of Windows and of Input for TLC.                            *)
(*                                                                         *)
(* Handlers, the queue, windows and the maps of input share no state, nor  *)
(* any lock, and the controls of a window play no part in how its dialog   *)
(* is answered: each is run by itself, and the initial states choose       *)
(* which.                                                                  *)
(***************************************************************************)
EXTENDS EventHandlers, TLC

CONSTANTS Parts, window, application,
          Threads, Records, NoEvent, Kinds, QUEUE_SIZE, MaxRefs,
          Windows, Controls, MaxLoops, NoWindow, NoView,
          f13, print, media, Inputs, Code, Unmapped, MaxInput, MaxHides

VARIABLES part, rc, kind, queue, queue_head, queue_count, refs, releases,
          windows, visible, from_nib, answered, root, current_port, view, frames, sent,
          pressed, focus, sdl, down, game_window, cursor_hidden, hide_requests,
          warped, relative, pumping

queueVars == <<rc, kind, queue, queue_head, queue_count, refs, releases>>
windowVars == <<windows, visible, from_nib, answered, root, current_port, view, frames, sent>>
inputVars == <<pressed, focus, sdl, down, game_window, cursor_hidden, hide_requests,
               warped, relative, pumping>>
partVars == <<part, vars, queueVars, windowVars, inputVars>>

ParentOf == [t \in Targets |-> IF t = window THEN application ELSE NoTarget]
Addresses == Permutations(Handlers)

Q == INSTANCE EventQueue WITH Events <- Records

(* The theorems about the queue assume this much of its constants.         *)
ASSUME QueueHasRoom == Q!QueueConstants

(* And those about Windows and Input these: NULL is no window and no       *)
(* control, and the bounds are numbers.                                    *)
ASSUME NullIsNoWindow == NoWindow \notin Windows
ASSUME NullIsNoView == NoView \notin Controls
ASSUME BoundsAreNumbers == MaxLoops \in Nat /\ MaxHides \in Nat

(* Print Screen is F13 to the Mac, and a key of no Mac is nothing.         *)
CodeOf == [i \in Inputs |-> CASE i = print -> f13 [] i = media -> Unmapped [] OTHER -> i]

W == INSTANCE Windows WITH Views <- Controls, MaxFrames <- MaxLoops
I == INSTANCE Input WITH MaxEvents <- MaxInput

PartInit ==
  /\ part \in Parts /\ Init /\ Q!Init /\ I!Init /\ W!Init
PartNext ==
  \/ part = "handlers" /\ Next
     /\ UNCHANGED <<part, queueVars, windowVars, inputVars>>
  \/ part = "queue" /\ Q!Next
     /\ UNCHANGED <<part, vars, windowVars, inputVars>>
  \/ part = "dialogs" /\ UNCHANGED <<root, view>> /\ W!Next
     /\ UNCHANGED <<part, vars, queueVars, inputVars>>
  \/ part = "controls" /\ UNCHANGED frames /\ W!Next
     /\ UNCHANGED <<part, vars, queueVars, inputVars>>
  \/ part = "input" /\ I!Next
     /\ UNCHANGED <<part, vars, queueVars, windowVars>>
PartSpec == PartInit /\ [][PartNext]_partVars

(* Every variable has its type.                                            *)
TypesOK == TypeOK /\ Q!TypeOK /\ I!TypeOK /\ W!TypeOK

(* The properties of the queue, as EventQueue states them: an event's      *)
(* count is the number of references to it, and the ring is a queue.       *)
CountsAreExact == Q!CountsAreExact
QueueKeepsOrder == Q!QueueKeepsOrder

(* The properties of Windows: loop_hook sends a window its command once    *)
(* and leaves no modal loop without an answer, and what is disposed of or  *)
(* moved leaves whole trees of controls and a port that exists.            *)
DialogsAreAnswered == W!AnsweredOnce
ControlsAreWhole == W!TreesAreWhole

(* The properties of Input: the game reads no key as down that the user    *)
(* let go, and the pointer is not held without the focus.                  *)
InputIsTrue == I!InputIsTrue
=============================================================================
