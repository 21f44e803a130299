------------------------------- MODULE Windows -------------------------------
(***************************************************************************)
(* windows.c: the list of windows, the trees of controls in them, and the  *)
(* dialogs that are answered for the user.                                 *)
(*                                                                         *)
(* Nobody sees a dialog.  While the game runs a loop, the loop hook sends  *)
(* the window of the innermost modal loop, or else the frontmost NIB       *)
(* window on screen, the command of its default button, once.  The game's  *)
(* handler of that command is code of the game, and so are its handlers of *)
(* other events: it makes windows, runs loops inside the loop, quits them. *)
(* frames is the C stack of loops and of such code.  How application loops *)
(* are told to quit is in EventLoops; here they end when they like.        *)
(***************************************************************************)
EXTENDS Naturals, FiniteSets, SequencesExt, FiniteSetsExt, Functions

CONSTANTS Windows, Views,    \* addresses of windows and of controls
          MaxFrames,         \* bounds the loops and the code running in them
          NoWindow, NoView

VARIABLES windows,           \* front to back
          visible, from_nib, answered,
          root,              \* of each window
          current_port,      \* the window QuickDraw draws in, or the screen
          view,              \* the controls
          frames,
          sent               \* history: the commands each window was sent

windowVars == <<windows, visible, from_nib, answered, root, current_port, sent>>
vars == <<windowVars, view, frames>>

InCode == IF frames = <<>> THEN TRUE ELSE Last(frames).kind = "code"
Frame(kind, w) ==
  [kind |-> kind, window |-> w, quit |-> FALSE, at |-> "hook"]
MacCode == Frame("code", NoWindow)
Becomes(field, value) == [frames EXCEPT ![Len(frames)][field] = value]
ModalLoops == {i \in DOMAIN frames : frames[i].kind = "modal"}
hle_modal_window ==
  IF ModalLoops = {} THEN NoWindow ELSE frames[Max(ModalLoops)].window

-----------------------------------------------------------------------------
(* Controls.  A control is a record with its window, its parent and its    *)
(* children in order.                                                      *)
NoControl == [window |-> NoWindow, parent |-> NoView, children |-> <<>>, live |-> FALSE]
Live == {c \in Views : view[c].live}
Closed(s) == \A d \in s : ToSet(view[d].children) \subseteq s
Below(c) ==      \* c and what is in it
  {d \in Views : \A s \in SUBSET Views : c \in s /\ Closed(s) => d \in s}

New(v, c, w, parent) ==
  [d \in Views |->
     IF d = c THEN [window |-> w, parent |-> parent, children |-> <<>>, live |-> TRUE]
     ELSE IF d = parent THEN [v[d] EXCEPT !.children = Append(@, c)]
     ELSE v[d]]

(* Faulty variant: the parent's list keeps the control.                    *)
Unlinked_Listed(v, c) == [v EXCEPT ![c].parent = NoView]
Unlinked(v, c) ==
  [d \in Views |->
     IF d = c THEN [v[d] EXCEPT !.parent = NoView]
     ELSE IF d = v[c].parent
     THEN [v[d] EXCEPT !.children = RemoveFirst(@, c)]
     ELSE v[d]]

(* c goes with all that is below it; the window whose root it was has none *)
(* then.                                                                   *)
dispose_control(c) ==
  LET gone == Below(c)
  IN /\ view' = [d \in Views |-> IF d \in gone THEN NoControl ELSE Unlinked(view, c)[d]]
     /\ root' = [w \in Windows |-> IF root[w] \in gone THEN NoView ELSE root[w]]

DisposeControl(c) ==
  /\ InCode /\ c \in Live
  /\ dispose_control(c)
  /\ UNCHANGED <<windows, visible, from_nib, answered, current_port, sent, frames>>

(* The root is made when it is first asked for.                            *)
HIViewGetRoot(w, c) ==
  /\ InCode /\ w \in ToSet(windows) /\ root[w] = NoView /\ c \notin Live
  /\ view' = New(view, c, w, NoView)
  /\ root' = [root EXCEPT ![w] = c]
  /\ UNCHANGED <<windows, visible, from_nib, answered, current_port, sent, frames>>

CreateScrollingTextBoxControl(w, c) ==
  /\ InCode /\ w \in ToSet(windows) /\ root[w] # NoView /\ c \notin Live
  /\ view' = New(view, c, w, root[w])
  /\ UNCHANGED <<windowVars, frames>>

(* A view of no window, until it is added to one.                          *)
HIScrollViewCreate(c) ==
  /\ InCode /\ c \notin Live
  /\ view' = New(view, c, NoWindow, NoView)
  /\ UNCHANGED <<windowVars, frames>>

(* The child alone learns its window, not what is in it: so the game is    *)
(* taken to move no view with views of another window in it.  Nor does it  *)
(* put a root, or a view that the parent is in, into another.              *)
HIViewAddSubview(parent, child) ==
  /\ InCode /\ {parent, child} \subseteq Live
  /\ parent \notin Below(child) /\ child \notin Range(root)
  /\ \A d \in Below(child) \ {child} : view[d].window \in {NoWindow, view[parent].window}
  /\ view' = [Unlinked(view, child) EXCEPT
                ![child].window = view[parent].window, ![child].parent = parent,
                ![parent].children = Append(@, child)]
  /\ UNCHANGED <<windowVars, frames>>

-----------------------------------------------------------------------------
(* Windows.  One from a NIB comes with a root and, here, one control in    *)
(* it; the others get a root when they need one.                           *)
new_window(w, nib) ==
  /\ InCode /\ w \notin ToSet(windows)
  /\ windows' = <<w>> \o windows
  /\ visible' = [visible EXCEPT ![w] = FALSE]
  /\ from_nib' = [from_nib EXCEPT ![w] = nib]
  /\ answered' = [answered EXCEPT ![w] = FALSE]
  /\ sent' = [sent EXCEPT ![w] = 0]
  /\ UNCHANGED <<current_port, frames>>

CreateNewWindow(w) == new_window(w, FALSE) /\ UNCHANGED <<root, view>>

CreateWindowFromNib(w) ==
  /\ new_window(w, TRUE)
  /\ \/ UNCHANGED <<root, view>>
     \/ \E r, c \in Views \ Live :
          /\ r # c
          /\ view' = New(New(view, r, w, NoView), c, w, r)
          /\ root' = [root EXCEPT ![w] = r]

Forgotten(w) == IF current_port = w THEN NoWindow ELSE current_port

(* The game disposes of no window that it runs a modal loop for.           *)
DisposeWindow(w) ==
  /\ InCode /\ w \in ToSet(windows)
  /\ \A i \in ModalLoops : frames[i].window # w
  /\ windows' = RemoveFirst(windows, w)
  /\ current_port' = Forgotten(w)
  /\ IF root[w] = NoView THEN UNCHANGED <<root, view>> ELSE dispose_control(root[w])
  /\ UNCHANGED <<visible, from_nib, answered, sent, frames>>

ShowOrHide(w) ==
  /\ InCode /\ w \in ToSet(windows)
  /\ visible' = [visible EXCEPT ![w] = ~@]
  /\ UNCHANGED <<windows, from_nib, answered, root, current_port, sent, view, frames>>

BringToFront(w) ==
  /\ InCode /\ w \in ToSet(windows)
  /\ windows' = <<w>> \o RemoveFirst(windows, w)
  /\ UNCHANGED <<visible, from_nib, answered, root, current_port, sent, view, frames>>

SetPortWindowPort(w) ==
  /\ InCode /\ w \in ToSet(windows)
  /\ current_port' = w
  /\ UNCHANGED <<windows, visible, from_nib, answered, root, sent, view, frames>>

-----------------------------------------------------------------------------
(* Loops.  Each iteration calls the hook, then the game's handlers, and    *)
(* then looks whether it was told to quit.                                 *)
RunsLoop(kind, w) ==
  /\ InCode /\ Len(frames) < MaxFrames
  /\ frames' = Append(frames, Frame(kind, w))
  /\ UNCHANGED <<windowVars, view>>
RunAppModalLoopForWindow(w) == w \in ToSet(windows) /\ RunsLoop("modal", w)

(* Or one that waits for an event, as ReceiveNextEvent does, with the hook *)
(* called as often.                                                        *)
RunApplicationEventLoop == RunsLoop("application", NoWindow)

Waiting(w) == visible[w] /\ from_nib[w] /\ ~answered[w]
ToAnswer ==
  IF hle_modal_window # NoWindow THEN hle_modal_window
  ELSE LET shown == {i \in DOMAIN windows : Waiting(windows[i])} IN
       IF shown = {} THEN NoWindow ELSE windows[Min(shown)]

(* The window is marked before its handler runs, which may run loops and   *)
(* so come to the hook again.                                              *)
(* Faulty variant: a handler that runs another loop leaves it unmarked.    *)
Marked_Late(w) == answered' = [answered EXCEPT ![w] = Len(frames) + 2 > MaxFrames]
Marked(w) == answered' = [answered EXCEPT ![w] = TRUE]

AtHook == ~InCode /\ Last(frames).at = "hook"
CallsHandlers == Becomes("at", "events")

loop_hook ==
  /\ AtHook
  /\ LET w == ToAnswer IN
     \/ /\ w \notin {u \in Windows : ~answered[u]}
        /\ frames' = CallsHandlers
        /\ UNCHANGED <<answered, sent>>
     \/ /\ w \in {u \in Windows : ~answered[u]} /\ Len(frames) < MaxFrames
        /\ Marked(w)
        /\ sent' = [sent EXCEPT ![w] = @ + 1]
        /\ frames' = Append(CallsHandlers, MacCode)
  /\ UNCHANGED <<windows, visible, from_nib, root, current_port, view>>

HandlesEvent ==
  /\ ~InCode /\ ~AtHook /\ Len(frames) < MaxFrames
  /\ frames' = Append(frames, MacCode)
  /\ UNCHANGED <<windowVars, view>>

HandlerReturns ==
  /\ frames # <<>> /\ InCode
  /\ frames' = Front(frames)
  /\ UNCHANGED <<windowVars, view>>

(* An application loop may have been told to quit, or not.                 *)
IterationEnds ==
  /\ ~InCode /\ ~AtHook
  /\ \/ /\ Last(frames).kind = "application" \/ Last(frames).quit
        /\ frames' = Front(frames)
     \/ ~Last(frames).quit /\ frames' = Becomes("at", "hook")
  /\ UNCHANGED <<windowVars, view>>

(* The innermost loop of the window.                                       *)
QuitAppModalLoopForWindow(w) ==
  LET its == {i \in ModalLoops : frames[i].window = w} IN
  /\ InCode /\ its # {}
  /\ frames' = [frames EXCEPT ![Max(its)].quit = TRUE]
  /\ UNCHANGED <<windowVars, view>>

-----------------------------------------------------------------------------
Init ==
  /\ windows = <<>> /\ frames = <<>> /\ current_port = NoWindow
  /\ visible = [w \in Windows |-> FALSE] /\ from_nib = visible /\ answered = visible
  /\ root = [w \in Windows |-> NoView]
  /\ view = [c \in Views |-> NoControl]
  /\ sent = [w \in Windows |-> 0]

Next ==
  \/ \E w \in Windows :
       \/ CreateNewWindow(w) \/ CreateWindowFromNib(w) \/ DisposeWindow(w)
       \/ ShowOrHide(w) \/ BringToFront(w) \/ SetPortWindowPort(w)
       \/ RunAppModalLoopForWindow(w) \/ QuitAppModalLoopForWindow(w)
       \/ \E c \in Views : HIViewGetRoot(w, c) \/ CreateScrollingTextBoxControl(w, c)
  \/ \E c \in Views :
       \/ DisposeControl(c) \/ HIScrollViewCreate(c)
       \/ \E parent \in Views : HIViewAddSubview(parent, c)
  \/ RunApplicationEventLoop \/ loop_hook \/ HandlesEvent \/ HandlerReturns
  \/ IterationEnds

Spec == Init /\ [][Next]_vars

-----------------------------------------------------------------------------
(* Every variable has its type, and no window is in the list twice.        *)
TypeOK ==
  /\ windows \in Seq(Windows) /\ IsInjective(windows)
  /\ {visible, from_nib, answered} \subseteq [Windows -> BOOLEAN]
  /\ root \in [Windows -> Views \cup {NoView}]
  /\ current_port \in Windows \cup {NoWindow}
  /\ sent \in [Windows -> Nat]
  /\ view \in [Views -> [window : Windows \cup {NoWindow}, parent : Views \cup {NoView},
                         children : Seq(Views), live : BOOLEAN]]
  /\ frames \in Seq([kind : {"code", "modal", "application"}, quit : BOOLEAN,
                     window : Windows \cup {NoWindow}, at : {"hook", "events"}])
  /\ Len(frames) <= MaxFrames

(* A window's handler of commands is sent one by loop_hook once, however   *)
(* many loops run inside it, and by then every modal loop that called the  *)
(* hook has its window answered.                                           *)
AnsweredOnce ==
  /\ \A w \in ToSet(windows) : sent[w] = IF answered[w] THEN 1 ELSE 0
  /\ \A i \in ModalLoops : frames[i].at = "events" => answered[frames[i].window]

(* What dispose_control, DisposeWindow and HIViewAddSubview leave behind   *)
(* is one tree for each root: whatever a live control, a window or the     *)
(* port refers to is live, a control is once among its parent's children,  *)
(* and below a root is only what belongs to its window or to none.         *)
TreesAreWhole ==
  /\ current_port \in ToSet(windows) \cup {NoWindow}
  /\ \A w \in ToSet(windows) : root[w] # NoView =>
       /\ root[w] \in Live /\ view[root[w]].parent = NoView
       /\ \A c \in Below(root[w]) : view[c].window \in {w, NoWindow}
  /\ \A c \in Live :
       /\ view[c].window \in ToSet(windows) \cup {NoWindow}
       /\ IsInjective(view[c].children)
       /\ \A d \in Live : d \in ToSet(view[c].children) <=> view[d].parent = c
       /\ ToSet(view[c].children) \cup {view[c].parent} \subseteq Live \cup {NoView}
=============================================================================
