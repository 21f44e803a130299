------------------------------ MODULE EventLoops ------------------------------
(***************************************************************************)
(* The loops that run the Carbon Event Manager (src/hle/events.c):         *)
(* RunApplicationEventLoop, RunAppModalLoopForWindow, ReceiveNextEvent and *)
(* WaitNextEvent, and the calls that end them.                             *)
(*                                                                         *)
(* All of it happens on one thread.  `stack` is that thread's C stack:     *)
(* loops, and the game's procedures that they call, which start loops of   *)
(* their own.  The queue is a sequence here (EventQueue has the ring).     *)
(***************************************************************************)
EXTENDS Naturals, Sequences, FiniteSets

CONSTANTS Windows,   \* windows of modal loops
          MaxInput,  \* bound: events pending and queued at a time
          MaxDepth   \* bound: loops and procedures inside one another

ASSUME LoopBounds == MaxInput \in Nat /\ MaxDepth \in Nat

(* A key or button event, a Quit command, and all the others.              *)
Classes == {"key", "quit", "other"}

VARIABLES
  application_loops, application_quit,
  modal_loops,  \* the list of modal loops, innermost first
  pending,      \* input the window system holds for the pump
  queue,        \* the events queued
  stack         \* loops and procedures, outermost first

vars == <<application_loops, application_quit, modal_loops, pending, queue, stack>>
appVars == <<application_loops, application_quit>>

(* A frame: "app" and "modal" loops, ReceiveNextEvent, WaitNextEvent, or a *)
(* procedure of the game with the event it is called for.  asked is        *)
(* history: whether the application loop was asked to quit while it ran.   *)
Frame(kind, phase) ==
  [kind |-> kind, phase |-> phase, depth |-> 0, asked |-> FALSE,
   event |-> "none", types |-> {}, pull |-> TRUE, deadline |-> "never",
   pumped |-> FALSE, outer |-> 0]

Init ==
  /\ application_loops = 0
  /\ application_quit = 0
  /\ modal_loops = <<>>
  /\ pending = <<>>
  /\ queue = <<>>
  /\ stack = <<>>

Top == stack[Len(stack)]
Popped == SubSeq(stack, 1, Len(stack) - 1)
Becomes(frame) == stack' = Append(Popped, frame)
Is(kind, phase) == stack # <<>> /\ Top.kind = kind /\ Top.phase = phase
Calls(frame) == Len(stack) < MaxDepth /\ stack' = Append(stack, frame)

GameRuns == stack # <<>> => Top.kind = "game"

-----------------------------------------------------------------------------
(* Application loops.                                                      *)

RunApplicationEventLoop ==
  /\ GameRuns
  /\ application_loops' = application_loops + 1
  /\ Calls([Frame("app", "test") EXCEPT !.depth = application_loops + 1])
  /\ UNCHANGED <<application_quit, modal_loops, queue, pending>>

(* Faulty variant: every application loop is counted out at once.          *)
ApplicationLoopEnds_Clearing ==
  /\ Is("app", "test")
  /\ application_quit >= Top.depth
  /\ application_quit' = 0
  /\ application_loops' = application_loops - 1
  /\ stack' = Popped
  /\ UNCHANGED <<modal_loops, queue, pending>>

ApplicationLoopEnds ==
  /\ Is("app", "test")
  /\ application_quit >= Top.depth
  /\ application_quit' = Top.depth - 1
  /\ application_loops' = application_loops - 1
  /\ stack' = Popped
  /\ UNCHANGED <<modal_loops, queue, pending>>

ApplicationLoopGoesOn ==
  /\ Is("app", "test")
  /\ application_quit < Top.depth
  /\ Becomes([Top EXCEPT !.phase = "timers"])
  /\ UNCHANGED <<appVars, modal_loops, queue, pending>>

(* QuitApplicationEventLoop, with st for the stack.                        *)
Quits(st) ==
  /\ application_quit' = IF application_loops > application_quit
                         THEN application_loops ELSE application_quit
  /\ stack' = [i \in DOMAIN st |->
       IF st[i].kind = "app" THEN [st[i] EXCEPT !.asked = TRUE] ELSE st[i]]

QuitApplicationEventLoop ==
  /\ GameRuns
  /\ Quits(stack)
  /\ UNCHANGED <<application_loops, modal_loops, queue, pending>>

-----------------------------------------------------------------------------
(* Modal loops.                                                            *)

RunAppModalLoopForWindow(w) ==
  /\ GameRuns
  /\ Calls([Frame("modal", "test") EXCEPT !.outer = Len(modal_loops)])
  /\ modal_loops' = <<[window |-> w, quit |-> FALSE]>> \o modal_loops
  /\ UNCHANGED <<appVars, queue, pending>>

(* The loop on top of the stack is the innermost: its record comes first.  *)
ModalLoopEnds ==
  /\ Is("modal", "test")
  /\ modal_loops[1].quit
  /\ modal_loops' = SubSeq(modal_loops, Len(modal_loops) - Top.outer + 1,
                           Len(modal_loops))
  /\ stack' = Popped
  /\ UNCHANGED <<appVars, queue, pending>>

ModalLoopGoesOn ==
  /\ Is("modal", "test")
  /\ ~modal_loops[1].quit
  /\ Becomes([Top EXCEPT !.phase = "timers"])
  /\ UNCHANGED <<appVars, modal_loops, queue, pending>>

(* The innermost loop of that window ends once it is on top again.         *)
QuitAppModalLoopForWindow(w) ==
  /\ GameRuns
  /\ \E i \in DOMAIN modal_loops :
       /\ modal_loops[i].window = w
       /\ \A j \in 1..i - 1 : modal_loops[j].window # w
       /\ modal_loops' = [modal_loops EXCEPT ![i].quit = TRUE]
  /\ UNCHANGED <<appVars, queue, stack, pending>>

-----------------------------------------------------------------------------
(* What all loops do: timers and the hook, input, and the events queued.   *)

Polling == {"receive", "wait", "app", "modal"}
In(phase) == stack # <<>> /\ Top.kind \in Polling /\ Top.phase = phase

(* A timer's procedure, or the hook, runs the game's code.                 *)
ProcedureRuns ==
  /\ In("timers")
  /\ Calls([Frame("game", "runs") EXCEPT !.event = "none"])
  /\ UNCHANGED <<appVars, modal_loops, queue, pending>>

(* ReceiveNextEvent looks into the queue before it waits for input.        *)
TimersDone ==
  /\ In("timers")
  /\ Becomes([Top EXCEPT !.phase =
                IF Top.kind = "receive" THEN "find" ELSE "input"])
  /\ UNCHANGED <<appVars, modal_loops, queue, pending>>

InputArrives(class) ==
  /\ Len(pending) + Len(queue) < MaxInput
  /\ pending' = Append(pending, class)
  /\ UNCHANGED <<appVars, modal_loops, queue, stack>>

(* hle_event_pump queues all the input there is.                           *)
Pumps ==
  /\ In("input")
  /\ queue' = queue \o pending
  /\ pending' = <<>>
  /\ Becomes(IF Top.kind = "receive"
             THEN [Top EXCEPT !.phase = "timers", !.pumped = TRUE]
             ELSE [Top EXCEPT !.phase = "drain"])
  /\ UNCHANGED <<appVars, modal_loops>>

(* SendEventToEventTarget: a procedure of the game's handles the event...  *)
Dispatches ==
  /\ In("drain")
  /\ queue # <<>>
  /\ queue' = Tail(queue)
  /\ Calls([Frame("game", "runs") EXCEPT !.event = Head(queue)])
  /\ UNCHANGED <<appVars, modal_loops, pending>>

(* ... or there is none that wants it: a Quit nobody took ends the loop.   *)
NobodyWants ==
  /\ In("drain")
  /\ queue # <<>>
  /\ queue' = Tail(queue)
  /\ IF Head(queue) = "quit"
     THEN Quits(stack) ELSE UNCHANGED <<application_quit, stack>>
  /\ UNCHANGED <<application_loops, modal_loops, pending>>

(* The procedure returns, with eventNotHandledErr or having taken it.      *)
ProcedureReturns(handled) ==
  /\ stack # <<>> /\ Top.kind = "game"
  /\ IF Top.event = "quit" /\ ~handled
     THEN Quits(Popped) ELSE stack' = Popped /\ UNCHANGED application_quit
  /\ UNCHANGED <<application_loops, modal_loops, queue, pending>>

(* Faulty variant: what has come in the meantime is taken in first.        *)
Drained_Pumping ==
  /\ In("drain")
  /\ queue = <<>>
  /\ IF Top.kind = "wait" THEN stack' = Popped
     ELSE Becomes([Top EXCEPT !.phase = IF pending = <<>> THEN "test" ELSE "input"])
  /\ UNCHANGED <<appVars, modal_loops, queue, pending>>

Drained ==
  /\ In("drain")
  /\ queue = <<>>
  /\ IF Top.kind = "wait" THEN stack' = Popped
                          ELSE Becomes([Top EXCEPT !.phase = "test"])
  /\ UNCHANGED <<appVars, modal_loops, queue, pending>>

-----------------------------------------------------------------------------
(* ReceiveNextEvent and WaitNextEvent.                                     *)

ReceiveNextEvent(types, pull, deadline) ==
  /\ GameRuns
  /\ Calls([Frame("receive", "timers") EXCEPT !.types = types, !.pull = pull,
                                              !.deadline = deadline])
  /\ UNCHANGED <<appVars, modal_loops, queue, pending>>

Matches(i) == Top.types = {} \/ queue[i] \in Top.types
Found == {i \in DOMAIN queue : Matches(i) /\ \A j \in 1..i - 1 : ~Matches(j)}

ReceiveFinds ==
  /\ Is("receive", "find")
  /\ \E i \in Found :
       queue' = IF Top.pull
                THEN SubSeq(queue, 1, i - 1) \o SubSeq(queue, i + 1, Len(queue))
                ELSE queue
  /\ stack' = Popped
  /\ UNCHANGED <<appVars, modal_loops, pending>>

(* eventLoopQuitErr.                                                       *)
ReceiveQuits ==
  /\ Is("receive", "find")
  /\ Found = {}
  /\ application_loops > 0 /\ application_quit >= application_loops
  /\ stack' = Popped
  /\ UNCHANGED <<appVars, modal_loops, queue, pending>>

StillWaits ==
  /\ Is("receive", "find")
  /\ Found = {}
  /\ ~(application_loops > 0 /\ application_quit >= application_loops)

ReceiveTimesOut ==
  /\ StillWaits
  /\ Top.deadline = "passed" /\ Top.pumped
  /\ stack' = Popped
  /\ UNCHANGED <<appVars, modal_loops, queue, pending>>

ReceivePumps ==
  /\ StillWaits
  /\ ~(Top.deadline = "passed" /\ Top.pumped)
  /\ Becomes([Top EXCEPT !.phase = "input"])
  /\ UNCHANGED <<appVars, modal_loops, queue, pending>>

DeadlinePasses ==
  /\ \E i \in DOMAIN stack :
       /\ stack[i].kind = "receive" /\ stack[i].deadline = "ahead"
       /\ stack' = [stack EXCEPT ![i].deadline = "passed"]
  /\ UNCHANGED <<appVars, modal_loops, queue, pending>>

WaitNextEvent ==
  /\ GameRuns
  /\ Calls(Frame("wait", "timers"))
  /\ UNCHANGED <<appVars, modal_loops, queue, pending>>

(* A key or button event in the mask is returned as an EventRecord.        *)
WaitReturnsEvent ==
  /\ Is("wait", "drain")
  /\ queue # <<>> /\ Head(queue) = "key"
  /\ queue' = Tail(queue)
  /\ stack' = Popped
  /\ UNCHANGED <<appVars, modal_loops, pending>>

-----------------------------------------------------------------------------
GameStep ==
  \/ RunApplicationEventLoop \/ QuitApplicationEventLoop
  \/ \E w \in Windows :
       RunAppModalLoopForWindow(w) \/ QuitAppModalLoopForWindow(w)
  \/ \E types \in {{}, {"key"}}, pull \in BOOLEAN,
        deadline \in {"passed", "ahead", "never"} :
       ReceiveNextEvent(types, pull, deadline)
  \/ WaitNextEvent

LoopStep ==
  \/ ApplicationLoopEnds \/ ApplicationLoopGoesOn
  \/ ModalLoopEnds \/ ModalLoopGoesOn
  \/ TimersDone \/ Pumps \/ Dispatches \/ NobodyWants \/ Drained
  \/ ReceiveFinds \/ ReceiveQuits \/ ReceiveTimesOut \/ ReceivePumps
  \/ WaitReturnsEvent

Returns == \E handled \in BOOLEAN : ProcedureReturns(handled)

Next ==
  \/ GameStep \/ LoopStep \/ ProcedureRuns \/ Returns \/ DeadlinePasses
  \/ \E class \in Classes : InputArrives(class)

Spec == Init /\ [][Next]_vars

(* Loops run on, however deep they are nested, and procedures return.  One *)
(* or the other is on top of a stack, so that a depth needs one condition. *)
Onward(d) == Len(stack) = d /\ (LoopStep \/ Returns)
FairSpec ==
  /\ Spec
  /\ WF_vars(DeadlinePasses)
  /\ \A d \in 1..MaxDepth : SF_vars(Onward(d))

-----------------------------------------------------------------------------
Frames ==
  [kind : {"app", "modal", "receive", "wait", "game"},
   phase : {"test", "timers", "find", "input", "drain", "runs"},
   depth : 0..MaxDepth, asked : BOOLEAN, event : Classes \cup {"none"},
   types : SUBSET Classes, pull : BOOLEAN,
   deadline : {"passed", "ahead", "never"}, pumped : BOOLEAN,
   outer : 0..MaxDepth]

AppFrames == {i \in DOMAIN stack : stack[i].kind = "app"}
ModalFrames == {i \in DOMAIN stack : stack[i].kind = "modal"}

(* Every variable has its type, and the counts and the list of modal loops *)
(* are those of the loops on the stack.                                    *)
TypeOK ==
  /\ application_loops = Cardinality(AppFrames)
  /\ application_quit \in 0..application_loops
  /\ Len(modal_loops) = Cardinality(ModalFrames)
  /\ \A i \in DOMAIN modal_loops :
       modal_loops[i] \in [window : Windows, quit : BOOLEAN]
  /\ pending \in Seq(Classes) /\ queue \in Seq(Classes)
  /\ stack \in Seq(Frames)

(* An application loop is about to end exactly if QuitApplicationEventLoop *)
(* was called, or a Quit command left unhandled, while it was running: one *)
(* counter of loops to end is enough, though ended loops lower it and new  *)
(* loops start while outer ones have still to end.                         *)
QuitsWhatRan ==
  \A i \in AppFrames :
    stack[i].asked <=> application_quit >= stack[i].depth

Record(i) == modal_loops[Len(modal_loops) - stack[i].outer]
Told(i) ==
  \/ stack[i].kind = "app" /\ stack[i].asked
  \/ stack[i].kind = "modal" /\ Record(i).quit
Untold(i) ==
  \/ stack[i].kind \in {"app", "modal"} /\ ~Told(i)
  \/ stack[i].kind = "receive" /\ stack[i].deadline = "never"

(* A loop inside the i-th pumps: it leaves events for the i-th to drain.   *)
FedInside(i) == Len(stack) > i /\ Pumps

(* A loop that was told to end does, once the loops inside it that were    *)
(* not have ended: it does not wait for input, nor for input to stop       *)
(* coming, for it drains what one call of the pump queued.  Only procedures *)
(* whose own loops go on pumping for ever can keep it draining for ever.   *)
ToldLoopsEnd ==
  \A i \in 1..MaxDepth :
    \/ []<><<FedInside(i)>>_vars
    \/ (i <= Len(stack) /\ Told(i))
         ~> (i > Len(stack) \/ ~Told(i) \/ \E j \in i + 1..Len(stack) : Untold(j))
=============================================================================
