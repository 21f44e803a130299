-------------------------------- MODULE Input --------------------------------
(***************************************************************************)
(* sdl.c and toolbox.c: the keyboard and the mouse, from SDL's events to   *)
(* the maps the game polls, and the pointer that is held in the window.    *)
(*                                                                         *)
(* The user presses keys and buttons and moves the focus; SDL queues an    *)
(* event for each while a window of the program has the focus, and for the *)
(* loss of it.  What is released elsewhere is never told.  pump decides    *)
(* whether to hold the pointer by the focus SDL knows at that moment, and  *)
(* then drains the queue.  Events for the game are left out: they follow   *)
(* the maps.                                                               *)
(***************************************************************************)
EXTENDS Naturals, Sequences

CONSTANTS Inputs,        \* what the user can press: keys and buttons
          Code,          \* the Mac's code of an input, or Unmapped
          Unmapped,
          Windows, NoWindow,
          MaxEvents,     \* bounds SDL's queue
          MaxHides       \* bounds the counts of hidden cursors

VARIABLES pressed, focus, sdl,             \* the user, and SDL
          down,                            \* key_map and button_state
          game_window, cursor_hidden, hide_requests, warped, relative,
          pumping

user == <<pressed, focus>>
pointer == <<game_window, cursor_hidden, hide_requests, warped, relative>>
vars == <<user, sdl, down, pointer, pumping>>

KeyEvent(i, pressing) == [type |-> IF pressing THEN "down" ELSE "up", of |-> i]
Lost(w) == [type |-> "lost", of |-> w]
SDL_Queues(events) == Len(sdl) + Len(events) <= MaxEvents /\ sdl' = sdl \o events

-----------------------------------------------------------------------------
(* The user.  A key that is held sends its event again.                    *)
Presses(i) ==
  /\ focus # NoWindow
  /\ SDL_Queues(<<KeyEvent(i, TRUE)>>)
  /\ pressed' = pressed \cup {i}
  /\ UNCHANGED <<focus, down, pointer, pumping>>

Releases(i) ==
  /\ i \in pressed /\ pressed' = pressed \ {i}
  /\ IF focus = NoWindow THEN UNCHANGED sdl ELSE SDL_Queues(<<KeyEvent(i, FALSE)>>)
  /\ UNCHANGED <<focus, down, pointer, pumping>>

FocusMoves(w) ==
  /\ w # focus /\ focus' = w
  /\ IF focus = NoWindow THEN UNCHANGED sdl ELSE SDL_Queues(<<Lost(focus)>>)
  /\ UNCHANGED <<pressed, down, pointer, pumping>>

-----------------------------------------------------------------------------
(* The game, between two pumps.                                            *)
InGame == ~pumping

InitCursor ==
  /\ InGame /\ cursor_hidden' = 0
  /\ UNCHANGED <<user, sdl, down, game_window, hide_requests, warped, relative, pumping>>

HideCursor ==
  /\ InGame /\ hide_requests < MaxHides
  /\ cursor_hidden' = cursor_hidden + 1 /\ hide_requests' = hide_requests + 1
  /\ UNCHANGED <<user, sdl, down, game_window, warped, relative, pumping>>

Less(n) == IF n > 0 THEN n - 1 ELSE 0
ShowCursor ==
  /\ InGame
  /\ cursor_hidden' = Less(cursor_hidden) /\ hide_requests' = Less(hide_requests)
  /\ UNCHANGED <<user, sdl, down, game_window, warped, relative, pumping>>

hle_sdl_warp_mouse ==
  /\ InGame /\ warped' = TRUE
  /\ UNCHANGED <<user, sdl, down, game_window, cursor_hidden, hide_requests, relative, pumping>>

hle_sdl_window_for(w) ==
  /\ InGame /\ game_window' = w
  /\ UNCHANGED <<user, sdl, down, cursor_hidden, hide_requests, warped, relative, pumping>>

(* SDL takes the focus from a window it destroys.                          *)
hle_sdl_window_destroy(w) ==
  /\ InGame
  /\ IF w = game_window
     THEN relative' = FALSE /\ game_window' = NoWindow
     ELSE UNCHANGED <<relative, game_window>>
  /\ IF w = focus
     THEN focus' = NoWindow /\ SDL_Queues(<<Lost(w)>>)
     ELSE UNCHANGED <<focus, sdl>>
  /\ UNCHANGED <<pressed, down, cursor_hidden, hide_requests, warped, pumping>>

-----------------------------------------------------------------------------
Held(has) == (cursor_hidden > 0 \/ hide_requests > 0 \/ warped) /\ has

pump ==
  /\ InGame /\ pumping' = TRUE
  /\ relative' = IF game_window = NoWindow THEN relative ELSE Held(focus = game_window)
  /\ UNCHANGED <<user, sdl, down, game_window, cursor_hidden, hide_requests, warped>>

(* Of the buttons, the three that a Mac's mouse has are Inputs here: those *)
(* are the ones release_all_keys lets go.                                  *)
(* Faulty variant: the keys that SDL released are left to its key ups.     *)
release_all_keys_None(codes) == codes
release_all_keys(codes) == {}

mac_key(i) == Code[i]
hle_input_key(c, pressing) == IF pressing THEN down \cup {c} ELSE down \ {c}

(* post_button is the same: mac_button numbers the three as a Mac does.    *)
post_key(e) ==
  IF mac_key(e.of) = Unmapped THEN down ELSE hle_input_key(mac_key(e.of), e.type = "down")

handle ==
  /\ pumping /\ sdl # <<>>
  /\ sdl' = Tail(sdl)
  /\ LET e == Head(sdl) IN
     IF e.type = "lost"
     THEN warped' = FALSE /\ relative' = FALSE /\ down' = release_all_keys(down)
     ELSE down' = post_key(e) /\ UNCHANGED <<warped, relative>>
  /\ UNCHANGED <<user, game_window, cursor_hidden, hide_requests, pumping>>

pump_Returns ==
  /\ pumping /\ sdl = <<>> /\ pumping' = FALSE
  /\ UNCHANGED <<user, sdl, down, pointer>>

-----------------------------------------------------------------------------
Init ==
  /\ pressed = {} /\ focus = NoWindow /\ sdl = <<>>
  /\ down = {} /\ game_window = NoWindow /\ cursor_hidden = 0 /\ hide_requests = 0
  /\ warped = FALSE /\ relative = FALSE /\ pumping = FALSE

Next ==
  \/ \E i \in Inputs : Presses(i) \/ Releases(i)
  \/ \E w \in Windows \cup {NoWindow} : FocusMoves(w)
  \/ InitCursor \/ HideCursor \/ ShowCursor \/ hle_sdl_warp_mouse
  \/ \E w \in Windows : hle_sdl_window_for(w) \/ hle_sdl_window_destroy(w)
  \/ pump \/ handle \/ pump_Returns

Spec == Init /\ [][Next]_vars

-----------------------------------------------------------------------------
(* Every variable has its type.                                            *)
TypeOK ==
  /\ pressed \subseteq Inputs /\ down \subseteq {Code[i] : i \in Inputs} \ {Unmapped}
  /\ {focus, game_window} \subseteq Windows \cup {NoWindow}
  /\ {cursor_hidden, hide_requests} \subseteq 0..MaxHides
  /\ {warped, relative, pumping} \subseteq BOOLEAN

(* What release_all_keys is for: once the queue is drained, a key or a     *)
(* button that the game reads as down is held by the user, in a window of  *)
(* the game, however the focus was lost and found meanwhile.               *)
NothingStuck ==
  sdl = <<>> => \A c \in down : focus # NoWindow /\ \E i \in pressed : Code[i] = c

(* pump and handle give the pointer back: it is held only while the game   *)
(* has the focus, or has yet to be told of the loss; a window made the     *)
(* game's meanwhile changes nothing until the next pump.                   *)
PointerIsFree ==
  /\ relative => game_window # NoWindow
  /\ relative /\ focus = NoWindow => \E k \in DOMAIN sdl : sdl[k].type = "lost"

(* Both, of the keys and of the pointer.                                   *)
InputIsTrue == NothingStuck /\ PointerIsFree
=============================================================================
