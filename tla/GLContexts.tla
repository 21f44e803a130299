----------------------------- MODULE GLContexts -----------------------------
(***************************************************************************)
(* src/hle/gl.c: AGL contexts and pbuffers over SDL's GL contexts, and the *)
(* part of src/hle/sdl.c that gives them windows.                          *)
(*                                                                         *)
(* A context has a hidden window of its own (its probe), and draws there,  *)
(* in a game's window, in the window that stands in for the screen, or in  *)
(* the framebuffer object of a pbuffer.  The game makes its GL calls on    *)
(* one thread.                                                             *)
(*                                                                         *)
(* Left out: visuals, sizes and titles; what the game's own pixel format   *)
(* holds, which a context copies; sharing between contexts, but for whose  *)
(* turn it is to be current; the names of textures that die with a context.*)
(***************************************************************************)
EXTENDS Naturals, FiniteSets

CONSTANTS Contexts, Windows, PBuffers, Textures,
          MaxScreens,  \* windows that stand in for the screen, ever made
          NULL
ASSUME NullIsNoName == NULL \notin Contexts \cup Windows \cup PBuffers \cup Textures
ASSUME ScreensAreCounted == MaxScreens \in Nat

VARIABLES contexts,     \* those that exist
          window, drawable, fullscreen, pbuffer,  \* a context's fields
          current, sdl, \* the code's current context; SDL's window and context
          mirror,       \* the context gl_var.c's mirror describes
          sdl_window,   \* the Carbon windows that have an SDL window
          screens, game_window, game_carbon_window,
          pbuffers,     \* those that exist
          owner, texture, complete,               \* a pbuffer's fields
          bound,        \* the pbuffer a context's bound framebuffer was made for
          attached      \* the texture a context's framebuffer for one draws into

contextVars == <<contexts, window, drawable, fullscreen, pbuffer>>
sdlVars == <<current, sdl, mirror>>
windowVars == <<sdl_window, screens, game_window, game_carbon_window>>
pbufferVars == <<pbuffers, owner, texture, complete, bound, attached>>
vars == <<contextVars, sdlVars, windowVars, pbufferVars>>

Probe(c) == <<"probe", c>>
Of(w) == <<"window", w>>
Screen(n) == <<"screen", n>>
Nowhere == [window |-> NULL, gl |-> NULL]
SDLWindows == {Probe(c) : c \in Contexts} \cup {Of(w) : w \in Windows}
                \cup {Screen(n) : n \in 1..MaxScreens}
Live == {Probe(c) : c \in contexts} \cup {Of(w) : w \in sdl_window}
          \cup {Screen(n) : n \in 1..screens}

-----------------------------------------------------------------------------
(* The current context                                                     *)

(* Faulty variant: gl_var.c is not told of a switch.                       *)
MirrorAfter_Untold(gl) == mirror

(* What the mirror describes once SDL's context has been gl.               *)
MirrorAfter(gl) == IF gl = sdl.gl THEN mirror ELSE NULL

(* c's fields are read as they are after the step.                         *)
make_current(c) ==
  /\ current' = c
  /\ sdl' = IF c = NULL THEN Nowhere ELSE [window |-> window'[c], gl |-> c]
  /\ mirror' = MirrorAfter(c)

(* borrow and give_back, and what the callers between them do with c       *)
(* current: when it was not, both switches tell gl_var.c.                  *)
Borrowed(c) ==
  /\ sdl' = sdl /\ current' = current
  /\ mirror' = IF c = current THEN mirror ELSE NULL

(* SDL_GL_CreateContext makes the new context current, with share current  *)
(* before that, and make_current(previous) takes it away again.  When it   *)
(* fails only the mirror may have been reset.                              *)
create_context(c) ==
  /\ c \notin contexts
  /\ \/ /\ contexts' = contexts \cup {c}
        /\ window' = [window EXCEPT ![c] = Probe(c)]
        /\ drawable' = [drawable EXCEPT ![c] = NULL]
        /\ fullscreen' = [fullscreen EXCEPT ![c] = FALSE]
        /\ pbuffer' = [pbuffer EXCEPT ![c] = NULL]
        /\ bound' = [bound EXCEPT ![c] = NULL]
        /\ mirror' = NULL
        /\ UNCHANGED <<pbuffers, owner, texture, complete, attached>>
     \/ /\ \E share \in contexts \cup {NULL} :
             mirror' = IF share \in {NULL, current} THEN mirror ELSE NULL
        /\ UNCHANGED <<contextVars, pbufferVars>>
  /\ UNCHANGED <<current, sdl, windowVars>>

forget_pbuffers_of(c) ==
  LET its == {pb \in pbuffers : owner[pb] = c}
  IN /\ owner' = [pb \in PBuffers |-> IF pb \in its THEN NULL ELSE owner[pb]]
     /\ complete' = [pb \in PBuffers |-> pb \notin its /\ complete[pb]]
     /\ attached' = [attached EXCEPT ![c] = [pb \in PBuffers |-> NULL]]

(* aglDestroyContext: destroy_context, and destroy_format with the probe.  *)
aglDestroyContext(c) ==
  /\ forget_pbuffers_of(c)
  /\ contexts' = contexts \ {c}
  /\ window' = [window EXCEPT ![c] = NULL]
  /\ pbuffer' = [pbuffer EXCEPT ![c] = NULL]
  /\ bound' = [bound EXCEPT ![c] = NULL]
  /\ IF current = c THEN make_current(NULL) ELSE UNCHANGED sdlVars
  /\ UNCHANGED <<drawable, fullscreen, windowVars, pbuffers, texture>>

aglSetCurrentContext(c) ==
  UNCHANGED <<contextVars, windowVars, pbufferVars>> /\ make_current(c)

(* Any GL call of the game, through gl_var.c, with a context current.      *)
GameCallsGL ==
  /\ current # NULL /\ mirror' = current
  /\ UNCHANGED <<contextVars, current, sdl, windowVars, pbufferVars>>

-----------------------------------------------------------------------------
(* Drawables                                                               *)

(* leave_pbuffer(c) and then move_to(c, to), which keeps c current if it   *)
(* was; to is NULL where the caller does not move c.                       *)
LeaveAndMove(c, to) ==
  /\ window' = IF to = NULL THEN window ELSE [window EXCEPT ![c] = to]
  /\ pbuffer' = [pbuffer EXCEPT ![c] = NULL]
  /\ bound' = [bound EXCEPT ![c] = IF pbuffer[c] = NULL THEN @ ELSE NULL]
  /\ IF current = c /\ to # NULL THEN make_current(c)
     ELSE IF pbuffer[c] # NULL THEN Borrowed(c) ELSE UNCHANGED sdlVars

(* hle_sdl_window_for(w) gives the SDL window found: w's own, hidden or    *)
(* not; the stand-in, for w NULL, if it is the game's window already; or a *)
(* new one, if SDL makes it.                                               *)
hle_sdl_window_for(w, hidden, found) ==
  LET standIn == w = NULL /\ game_window # NULL /\ game_carbon_window = NULL
      exists == w \in sdl_window \/ standIn
  IN /\ found = CASE w # NULL -> Of(w)
                  [] standIn -> game_window
                  [] OTHER -> Screen(screens + 1)
     /\ sdl_window' = IF w = NULL THEN sdl_window ELSE sdl_window \cup {w}
     /\ screens' = IF exists \/ w # NULL THEN screens ELSE screens + 1
     /\ screens' <= MaxScreens
     /\ IF hidden THEN UNCHANGED <<game_window, game_carbon_window>>
        ELSE game_window' = found /\ game_carbon_window' = w

(* Attached to a window; detached (w is NULL), when it goes on drawing     *)
(* where it did; or refused, with the drawable set already.                *)
aglSetDrawable(c, w) ==
  /\ drawable' = [drawable EXCEPT ![c] = w]
  /\ fullscreen' = [fullscreen EXCEPT ![c] = FALSE]
  /\ \/ /\ w = NULL \/ w \notin sdl_window
        /\ LeaveAndMove(c, NULL) /\ UNCHANGED windowVars
     \/ /\ w # NULL
        /\ \E hidden \in BOOLEAN : hle_sdl_window_for(w, hidden, Of(w))
        /\ LeaveAndMove(c, Of(w))
  /\ UNCHANGED <<contexts, pbuffers, owner, texture, complete, attached>>

(* Refused, it has only left its pbuffer.                                  *)
aglSetFullScreen(c) ==
  /\ \/ /\ LeaveAndMove(c, NULL) /\ UNCHANGED <<drawable, fullscreen, windowVars>>
     \/ \E found \in SDLWindows :
          /\ hle_sdl_window_for(NULL, FALSE, found)
          /\ drawable' = [drawable EXCEPT ![c] = NULL]
          /\ fullscreen' = [fullscreen EXCEPT ![c] = TRUE]
          /\ LeaveAndMove(c, found)
  /\ UNCHANGED <<contexts, pbuffers, owner, texture, complete, attached>>

(* Faulty variant: only the contexts whose drawable it is are moved.       *)
hle_gl_window_destroyed_Attached(w) ==
  /\ window' = [c \in Contexts |-> IF window[c] = Of(w) /\ drawable[c] = w THEN Probe(c)
                                   ELSE window[c]]
  /\ IF current # NULL /\ window'[current] # window[current] THEN make_current(current)
     ELSE UNCHANGED sdlVars

(* Every context that draws in w's window moves to its probe.              *)
hle_gl_window_destroyed(w) ==
  /\ window' = [c \in Contexts |-> IF window[c] = Of(w) THEN Probe(c) ELSE window[c]]
  /\ IF current # NULL /\ window'[current] # window[current] THEN make_current(current)
     ELSE UNCHANGED sdlVars

hle_sdl_window_destroy(w) ==
  /\ w \in sdl_window
  /\ sdl_window' = sdl_window \ {w}
  /\ IF game_window = Of(w) THEN game_window' = NULL /\ game_carbon_window' = NULL
     ELSE UNCHANGED <<game_window, game_carbon_window>>
  /\ hle_gl_window_destroyed(w)
  /\ UNCHANGED <<contexts, drawable, fullscreen, pbuffer, screens, pbufferVars>>

(* Whether aglSwapBuffers reaches SDL_GL_SwapWindow.                       *)
Swaps(c) ==
  /\ window[c] # Probe(c) /\ (drawable[c] # NULL \/ fullscreen[c])
  /\ pbuffer[c] = NULL

aglSetInteger(c) == Borrowed(c) /\ UNCHANGED <<contextVars, windowVars, pbufferVars>>

-----------------------------------------------------------------------------
(* Pbuffers                                                                *)

aglCreatePBuffer(pb) ==
  /\ pb \notin pbuffers
  /\ pbuffers' = pbuffers \cup {pb}
  /\ owner' = [owner EXCEPT ![pb] = NULL]
  /\ texture' = [texture EXCEPT ![pb] = NULL]
  /\ complete' = [complete EXCEPT ![pb] = FALSE]
  /\ UNCHANGED <<bound, attached, contextVars, sdlVars, windowVars>>

(* Its owner leaves it; a context that drew in it before its owner did     *)
(* keeps the pointer, which is only compared with NULL after that.         *)
aglDestroyPBuffer(pb) ==
  LET o == owner[pb]
      leaves == o # NULL /\ pbuffer[o] = pb
  IN /\ pbuffers' = pbuffers \ {pb}
     /\ pbuffer' = IF leaves THEN [pbuffer EXCEPT ![o] = NULL] ELSE pbuffer
     /\ bound' = IF leaves THEN [bound EXCEPT ![o] = NULL] ELSE bound
     /\ attached' = IF o = NULL THEN attached ELSE [attached EXCEPT ![o][pb] = NULL]
     /\ IF o # NULL THEN Borrowed(o) ELSE UNCHANGED sdlVars
     /\ UNCHANGED <<contexts, window, drawable, fullscreen, windowVars, owner, texture, complete>>

(* make_framebuffer makes pb's framebuffer object in c, if c is not where  *)
(* it has one, and GL says whether it can be drawn in.                     *)
make_framebuffer(pb, c, ok) ==
  IF owner[pb] = c THEN ok = complete[pb] /\ UNCHANGED <<owner, complete, attached>>
  ELSE /\ owner' = [owner EXCEPT ![pb] = c]
       /\ complete' = [complete EXCEPT ![pb] = ok]
       /\ attached' = [attached EXCEPT ![c][pb] = texture'[pb]]

aglSetPBuffer(c, pb) ==
  /\ texture' = [texture EXCEPT ![pb] = IF @ = NULL THEN "own" ELSE @]
  /\ \E ok \in BOOLEAN :
       /\ make_framebuffer(pb, c, ok)
       /\ bound' = [bound EXCEPT ![c] = IF ok THEN pb ELSE NULL]
       /\ pbuffer' = [pbuffer EXCEPT ![c] = IF ok THEN pb ELSE NULL]
  /\ Borrowed(c)
  /\ UNCHANGED <<contexts, window, drawable, fullscreen, windowVars, pbuffers>>

(* The texture t that is bound in c becomes the image if it is not.        *)
aglTexImagePBuffer(c, pb, t) ==
  /\ texture' = [texture EXCEPT ![pb] = t]
  /\ attached' = IF owner[pb] = c /\ texture[pb] # t
                 THEN [attached EXCEPT ![c][pb] = t] ELSE attached
  /\ Borrowed(c)
  /\ UNCHANGED <<contextVars, windowVars, pbuffers, owner, complete, bound>>

-----------------------------------------------------------------------------
Init ==
  /\ contexts = {} /\ window = [c \in Contexts |-> NULL]
  /\ drawable = [c \in Contexts |-> NULL] /\ fullscreen = [c \in Contexts |-> FALSE]
  /\ pbuffer = [c \in Contexts |-> NULL]
  /\ current = NULL /\ sdl = Nowhere /\ mirror = NULL
  /\ sdl_window = {} /\ screens = 0 /\ game_window = NULL /\ game_carbon_window = NULL
  /\ pbuffers = {} /\ owner = [pb \in PBuffers |-> NULL]
  /\ texture = [pb \in PBuffers |-> NULL] /\ complete = [pb \in PBuffers |-> FALSE]
  /\ bound = [c \in Contexts |-> NULL]
  /\ attached = [c \in Contexts |-> [pb \in PBuffers |-> NULL]]

Next ==
  \/ \E c \in Contexts : create_context(c)
  \/ \E c \in contexts : \/ aglDestroyContext(c) \/ aglSetCurrentContext(c)
                         \/ aglSetFullScreen(c) \/ aglSetInteger(c)
  \/ aglSetCurrentContext(NULL)
  \/ GameCallsGL
  \/ \E c \in contexts, w \in Windows \cup {NULL} : aglSetDrawable(c, w)
  \/ \E w \in Windows : hle_sdl_window_destroy(w)
  \/ \E pb \in PBuffers : aglCreatePBuffer(pb)
  \/ \E pb \in pbuffers : aglDestroyPBuffer(pb)
  \/ \E c \in contexts, pb \in pbuffers :
       aglSetPBuffer(c, pb) \/ \E t \in Textures : aglTexImagePBuffer(c, pb, t)

Spec == Init /\ [][Next]_vars

-----------------------------------------------------------------------------
TypeOK ==
  /\ contexts \subseteq Contexts /\ sdl_window \subseteq Windows /\ pbuffers \subseteq PBuffers
  /\ window \in [Contexts -> SDLWindows \cup {NULL}]
  /\ drawable \in [Contexts -> Windows \cup {NULL}] /\ fullscreen \in [Contexts -> BOOLEAN]
  /\ pbuffer \in [Contexts -> PBuffers \cup {NULL}] /\ bound \in [Contexts -> PBuffers \cup {NULL}]
  /\ current \in contexts \cup {NULL} /\ mirror \in contexts \cup {NULL}
  /\ sdl \in [window : SDLWindows \cup {NULL}, gl : Contexts \cup {NULL}]
  /\ screens \in 0..MaxScreens /\ game_window \in SDLWindows \cup {NULL}
  /\ game_carbon_window \in Windows \cup {NULL}
  /\ owner \in [PBuffers -> Contexts \cup {NULL}] /\ complete \in [PBuffers -> BOOLEAN]

(* Every context draws in a window that exists, though windows are         *)
(* disposed of under it and it stays in one it is detached from; SDL's     *)
(* window and context are the current context's; and the game's window is  *)
(* the one its Carbon window has.                                          *)
DrawsInLiveWindow ==
  /\ \A c \in contexts : window[c] \in Live
  /\ sdl = IF current = NULL THEN Nowhere ELSE [window |-> window[current], gl |-> current]
  /\ game_window \in Live \cup {NULL}
  /\ game_carbon_window # NULL => game_window = Of(game_carbon_window)

(* What gl_var.c believes GL to have is about the context that is current, *)
(* through the switches that contexts and pbuffers make in between.        *)
MirrorIsOfCurrent == mirror \in {NULL, sdl.gl}

(* The framebuffer object that is bound in a context is of the pbuffer it  *)
(* says it draws in; a swap shows what was drawn in a window of the game's.*)
SwapsWhatItDraws ==
  \A c \in contexts :
    /\ bound[c] = pbuffer[c]
    /\ Swaps(c) => bound[c] = NULL /\ window[c] \notin {Probe(d) : d \in Contexts}

(* All three: contexts draw where the game told them to.                   *)
ContextsDrawWhereTold == DrawsInLiveWindow /\ MirrorIsOfCurrent /\ SwapsWhatItDraws

(* A pbuffer's framebuffer object draws into the texture that was taken as *)
(* its image.                                                              *)
DrawsInItsTexture ==
  \A c \in contexts : \A pb \in pbuffers :
    pbuffer[c] = pb /\ owner[pb] = c => attached[c][pb] = texture[pb]
=============================================================================
