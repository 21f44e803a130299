------------------------------ MODULE Displays ------------------------------
(***************************************************************************)
(* display.c: the modes of the one display, the mode the game is told, and *)
(* three descriptions of them: Quartz dictionaries, the main GDevice and   *)
(* the Display Manager's lists; and the mode SDL sets for a fullscreen     *)
(* window (sdl.c).                                                         *)
(*                                                                         *)
(* The lock covers the table and the current mode.  A switch tells SDL     *)
(* after it let go, and hle_main_device reads the mode before it takes the *)
(* lock, so threads that do either meet between the two.  A switch to the  *)
(* mode that is current tells SDL nothing, whatever SDL has set by then.   *)
(***************************************************************************)
EXTENDS Naturals, Sequences, FiniteSets, SequencesExt, FiniteSetsExt

CONSTANTS Threads,
          Hosts,            \* SDL's displays: [video, modes, desktop]
          Requests,         \* of best_mode, and sizes of windows
          Foreign,          \* modes of dictionaries the game made itself
          Bits,
          kMaxModes,
          MaxDicts          \* bounds the dictionaries made

VARIABLES host,
          modes, desktop, current,   \* modes is empty before load_modes
          captured,
          dicts,                     \* mode_dict: [mode, bits, index]
          main_device,
          window,                    \* the game's SDL window and its mode
          at,                        \* of each thread: the call it is inside
          rivals     \* history: the mode last switched to, and those that met it

table == <<modes, desktop, current>>
vars == <<host, table, captured, dicts, main_device, window, at, rivals>>

NoMode == [w |-> 0, h |-> 0, r |-> 0]
NoWindow == [is |-> "none", mode |-> NoMode]
Idle == [in |-> "none", mode |-> NoMode]

-----------------------------------------------------------------------------
Before(x, y) ==
  \/ x.w < y.w
  \/ x.w = y.w /\ x.h < y.h
  \/ x.w = y.w /\ x.h = y.h /\ x.r < y.r
compare_modes(ms) == SortSeq(ms, Before)

add_mode(ms, m) ==
  IF m \in ToSet(ms) \/ Len(ms) >= kMaxModes \/ m.w < 640 \/ m.h < 480 THEN ms
  ELSE Append(ms, m)

Own == <<[w |-> 640, h |-> 480, r |-> 60], [w |-> 800, h |-> 600, r |-> 60],
         [w |-> 1024, h |-> 768, r |-> 60]>>

load_modes ==
  LET found == IF host.video THEN FoldLeft(add_mode, <<>>, Append(host.modes, host.desktop))
               ELSE <<>>
      d == IF found = <<>> THEN Own[3] ELSE host.desktop IN
  [modes |-> compare_modes(IF found = <<>> THEN FoldLeft(add_mode, <<>>, Own) ELSE found),
   desktop |-> d, current |-> d]

Table == IF modes = <<>> THEN load_modes
         ELSE [modes |-> modes, desktop |-> desktop, current |-> current]
Loads == modes' = Table.modes /\ desktop' = Table.desktop

-----------------------------------------------------------------------------
Distance(x, y) == IF x < y THEN y - x ELSE x - y

(* The first of the least area, in the order of the table.                 *)
Smallest(ms, holding) ==
  LET least == {m \in holding : \A n \in holding : m.w * m.h <= n.w * n.h} IN
  CHOOSE m \in least : \A n \in least : m = n \/ Before(m, n)

best_mode(t, width, height, refresh) ==
  LET ms == ToSet(t.modes)
      holding == {m \in ms : m.w >= width /\ m.h >= height}
      best == IF holding = {} THEN Last(t.modes) ELSE Smallest(t.modes, holding)
      target == IF refresh > 0 THEN refresh ELSE t.desktop.r
      same == {m \in ms : m.w = best.w /\ m.h = best.h}
      near == {m \in same : \A n \in same : Distance(m.r, target) <= Distance(n.r, target)} IN
  IF best \in near THEN best ELSE CHOOSE m \in near : \A n \in near : m.r <= n.r

(* A mode that is not in the table counts as the first of it.              *)
Index(t, mode) ==
  IF mode \in ToSet(t.modes) THEN CHOOSE i \in DOMAIN t.modes : t.modes[i] = mode ELSE 1
Known(mode, bits) == \E d \in dicts : d.mode = mode /\ d.bits = bits

(* The dictionary of a mode, made when there is none.                      *)
dict_for(t, mode, bits) ==
  IF Known(mode, bits) THEN UNCHANGED dicts
  ELSE /\ Cardinality(dicts) < MaxDicts
       /\ dicts' = dicts \cup {[mode |-> mode, bits |-> bits, index |-> Index(t, mode)]}

Quiet(t) == at[t] = Idle
Reads == Loads /\ current' = Table.current
Apart == UNCHANGED <<host, captured, main_device, window, at, rivals>>

CGDisplayCurrentMode(t) ==
  /\ Quiet(t) /\ Reads /\ dict_for(Table, Table.current, 32) /\ Apart

CGDisplayBestMode(t) ==
  /\ Quiet(t) /\ Reads /\ Apart
  /\ \E r \in Requests, b \in Bits :
       dict_for(Table, best_mode(Table, r.w, r.h, r.r), IF b <= 16 THEN 16 ELSE 32)

-----------------------------------------------------------------------------
(* External: the smallest mode of SDL's that holds the size, at the rate   *)
(* that is asked for if it has that, else the highest; NoMode if none.     *)
SDL_GetClosestDisplayMode(want) ==
  LET holding == {m \in ToSet(host.modes) : m.w >= want.w /\ m.h >= want.h}
      least == {m \in holding : \A n \in holding : m.w < n.w \/ (m.w = n.w /\ m.h <= n.h)}
      same == {m \in least : m.r = want.r} IN
  IF holding = {} THEN NoMode
  ELSE IF same # {} THEN CHOOSE m \in same : TRUE
  ELSE CHOOSE m \in least : \A n \in least : n.r <= m.r

(* The modes that threads have yet to tell SDL of.                         *)
Untold == {at[u].mode : u \in {v \in Threads : at[v].in = "switch"}}


(* CGDisplaySwitchToMode: under the lock, and SDL after it, of a change.   *)
Switch(t, mode) ==
  /\ Quiet(t) /\ mode.w > 0 /\ mode.h > 0
  /\ Loads /\ current' = mode
  /\ IF mode = Table.current THEN UNCHANGED <<at, rivals>>
     ELSE /\ at' = [at EXCEPT ![t] = [in |-> "switch", mode |-> mode]]
          /\ rivals' = {mode} \cup IF Untold = {} THEN {} ELSE rivals
  /\ UNCHANGED <<host, captured, dicts, main_device, window>>

CGDisplaySwitchToMode(t) ==
  \E mode \in {d.mode : d \in dicts} \cup Foreign : Switch(t, mode)

hle_sdl_switch_mode(t) ==
  LET closest == SDL_GetClosestDisplayMode(at[t].mode) IN
  /\ at[t].in = "switch" /\ at' = [at EXCEPT ![t] = Idle]
  /\ window' = IF window.is # "full" \/ closest = NoMode THEN window
               ELSE [window EXCEPT !.mode = closest]
  /\ UNCHANGED <<host, table, captured, dicts, main_device, rivals>>

CGCaptureAllDisplays(t) ==
  /\ Quiet(t) /\ captured' \in BOOLEAN
  /\ UNCHANGED <<host, table, dicts, main_device, window, at, rivals>>

(* The game's window of a size is attached (hle_window_wants_fullscreen,   *)
(* hle_sdl_window_for): the size names its mode, not the current one.      *)
hle_window_wants_fullscreen(size) ==
  captured /\ size.w >= Table.current.w /\ size.h >= Table.current.h

Attach(t, size) ==
  LET closest == SDL_GetClosestDisplayMode([size EXCEPT !.r = 0]) IN
  /\ Quiet(t) /\ host.video /\ Reads
  /\ window' = IF hle_window_wants_fullscreen(size)
               THEN [is |-> "full",
                     mode |-> IF closest = NoMode THEN window.mode ELSE closest]
               ELSE [window EXCEPT !.is = "windowed"]
  /\ rivals' = Untold
  /\ UNCHANGED <<host, captured, dicts, main_device, at>>

-----------------------------------------------------------------------------
(* hle_main_device: the mode, read before the lock is taken, and the       *)
(* device made or changed under it.                                        *)
hle_display_current(t) ==
  /\ Quiet(t) /\ Reads
  /\ at' = [at EXCEPT ![t] = [in |-> "device", mode |-> Table.current]]
  /\ UNCHANGED <<host, captured, dicts, main_device, window, rivals>>

hle_main_device(t) ==
  /\ at[t].in = "device" /\ at' = [at EXCEPT ![t] = Idle]
  /\ main_device' = at[t].mode
  /\ UNCHANGED <<host, table, captured, dicts, window, rivals>>

(* The Display Manager's list of the modes; ids count from 0x1000.         *)
DMNewDisplayModeList(t) ==
  [i \in DOMAIN t.modes |->
     [id |-> 4096 + i - 1, w |-> t.modes[i].w, h |-> t.modes[i].h, r |-> t.modes[i].r]]

-----------------------------------------------------------------------------
Init ==
  /\ host \in Hosts
  /\ modes = <<>> /\ desktop = NoMode /\ current = NoMode
  /\ captured = FALSE /\ dicts = {} /\ main_device = NoMode
  /\ window = NoWindow
  /\ at = [t \in Threads |-> Idle] /\ rivals = {}

Next ==
  \E t \in Threads :
    \/ CGDisplayCurrentMode(t) \/ CGDisplayBestMode(t)
    \/ CGDisplaySwitchToMode(t) \/ hle_sdl_switch_mode(t)
    \/ CGCaptureAllDisplays(t) \/ (\E size \in Requests : Attach(t, size))
    \/ hle_display_current(t) \/ hle_main_device(t)

Spec == Init /\ [][Next]_vars

-----------------------------------------------------------------------------
TypeOK ==
  /\ Len(modes) <= kMaxModes /\ modes = compare_modes(modes) /\ IsInjective(modes)
  /\ \A i, j \in DOMAIN modes : i < j => Before(modes[i], modes[j])
  /\ window.is \in {"none", "windowed", "full"}

(* "The closest mode to a request": the same size if there is one, else    *)
(* the smallest that holds it (the largest, when none does, is only the    *)
(* widest); of the modes of its size the one whose rate is nearest.        *)
BestIsClosest ==
  modes # <<>> => \A q \in Requests :
    LET b == best_mode(Table, q.w, q.h, q.r)
        target == IF q.r > 0 THEN q.r ELSE desktop.r
        ms == ToSet(modes)
        holds(m) == m.w >= q.w /\ m.h >= q.h IN
    /\ b \in ms
    /\ (\E m \in ms : m.w = q.w /\ m.h = q.h) => b.w = q.w /\ b.h = q.h
    /\ \A m \in ms : holds(m) => holds(b) /\ b.w * b.h <= m.w * m.h
    /\ \A m \in ms : m.w = b.w /\ m.h = b.h => Distance(b.r, target) <= Distance(m.r, target)

(* A mode has one dictionary of a depth, and a list of the Display Manager *)
(* made by now has an entry of that mode, whose id is 0x0FFF more than the *)
(* dictionary's number, which counts from 1; the desktop is in the list    *)
(* while SDL lists no more modes than the table holds.                     *)
ModesHaveOneName ==
  /\ \A d, e \in dicts : d.mode = e.mode /\ d.bits = e.bits => d = e
  /\ \A d \in dicts : d.mode \in ToSet(modes) =>
       \E entry \in ToSet(DMNewDisplayModeList(Table)) :
         /\ entry.id = 4095 + d.index
         /\ entry.w = d.mode.w /\ entry.h = d.mode.h /\ entry.r = d.mode.r
  /\ modes # <<>> /\ Cardinality(ToSet(host.modes)) < kMaxModes
       /\ desktop.w >= 640 /\ desktop.h >= 480 => desktop \in ToSet(modes)

(* Once every switch has told SDL, a fullscreen window has SDL's closest   *)
(* to the mode last switched to since it was attached; where switches of   *)
(* several threads overlapped, to one of theirs, until one runs alone.     *)
SwitchesShow ==
  window.is = "full" /\ Untold = {} /\ rivals # {} =>
    \E m \in rivals :
      SDL_GetClosestDisplayMode(m) \in {NoMode, window.mode}

=============================================================================
