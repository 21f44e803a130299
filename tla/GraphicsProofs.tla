---------------------------- MODULE GraphicsProofs ----------------------------
(***************************************************************************)
(* Theorems about GLContexts, for any contexts, windows and pbuffers, and  *)
(* about Profiler, for any threads, places, hashes and sizes of its table. *)
(* What the last assume of the constants is TableHasSlots.                 *)
(***************************************************************************)
EXTENDS MCGraphics, Lists

-----------------------------------------------------------------------------
(* Contexts.                                                               *)

(* The windows of SDL's are different ones.                                *)
LEMMA WindowsDiffer ==
  /\ \A c, d : Probe(c) = Probe(d) => c = d
  /\ \A w, v : Of(w) = Of(v) => w = v
  /\ \A c, w : Probe(c) # Of(w)
  /\ \A c, n : Probe(c) # Screen(n)
  /\ \A w, n : Of(w) # Screen(n)
BY DEF Probe, Of, Screen

(* The fields of contexts, and what is current.                            *)
FieldsTyped ==
  /\ contexts \subseteq Contexts /\ sdl_window \subseteq Windows /\ pbuffers \subseteq PBuffers
  /\ window \in [Contexts -> SDLWindows \cup {NULL}]
  /\ pbuffer \in [Contexts -> PBuffers \cup {NULL}] /\ bound \in [Contexts -> PBuffers \cup {NULL}]
  /\ current \in contexts \cup {NULL} /\ screens \in Nat

(* A context's own window is drawn in by no other, and is never the        *)
(* game's: what goes with a context takes no window from another.          *)
ProbesAreOwn ==
  /\ \A c \in contexts, d \in Contexts : window[c] = Probe(d) => c = d
  /\ \A d \in Contexts : game_window = Probe(d) => game_window = NULL

(* The inductive invariant.                                                *)
ContextInv == FieldsTyped /\ ContextsDrawWhereTold /\ ProbesAreOwn

(* Nothing exists yet.                                                     *)
LEMMA ContextsStart == Init => ContextInv
<1> SUFFICES ASSUME Init
             PROVE  ContextInv
  OBVIOUS
<1> USE DEF Init
<1>1. FieldsTyped
  BY ScreensAreCounted DEF FieldsTyped
<1>2. DrawsInLiveWindow /\ MirrorIsOfCurrent /\ SwapsWhatItDraws
  BY DEF DrawsInLiveWindow, MirrorIsOfCurrent, SwapsWhatItDraws
<1>3. ProbesAreOwn
  BY DEF ProbesAreOwn
<1> QED
  BY <1>1, <1>2, <1>3 DEF ContextInv, ContextsDrawWhereTold

(* A context is made, or is not.                                           *)
LEMMA CreateKeeps ==
  ASSUME ContextInv, NEW c \in Contexts, create_context(c)
  PROVE  ContextInv'
<1> USE NullIsNoName, WindowsDiffer
    DEF create_context, contextVars, sdlVars, windowVars,
        pbufferVars,
        ContextInv, ContextsDrawWhereTold, FieldsTyped
<1>1. FieldsTyped'
  BY DEF SDLWindows
<1>2. DrawsInLiveWindow'
  BY DEF DrawsInLiveWindow, Live, ProbesAreOwn, Nowhere
<1>3. MirrorIsOfCurrent'
  BY DEF MirrorIsOfCurrent, DrawsInLiveWindow, Nowhere
<1>4. SwapsWhatItDraws'
  BY DEF SwapsWhatItDraws, Swaps, ProbesAreOwn
<1>5. ProbesAreOwn'
  BY DEF ProbesAreOwn
<1> QED
  BY <1>1, <1>2, <1>3, <1>4, <1>5

(* One is destroyed, current or not.                                       *)
LEMMA DestroyKeeps ==
  ASSUME ContextInv, NEW c \in contexts, aglDestroyContext(c)
  PROVE  ContextInv'
<1> USE NullIsNoName, WindowsDiffer
    DEF aglDestroyContext, forget_pbuffers_of, make_current,
        MirrorAfter, contextVars, sdlVars, windowVars, pbufferVars,
        ContextInv, ContextsDrawWhereTold, FieldsTyped
<1>1. FieldsTyped'
  BY DEF SDLWindows
<1>2. DrawsInLiveWindow'
  BY DEF DrawsInLiveWindow, Live, ProbesAreOwn, Nowhere
<1>3. MirrorIsOfCurrent'
  BY DEF MirrorIsOfCurrent, DrawsInLiveWindow, Nowhere
<1>4. SwapsWhatItDraws'
  BY DEF SwapsWhatItDraws, Swaps, ProbesAreOwn
<1>5. ProbesAreOwn'
  BY DEF ProbesAreOwn
<1> QED
  BY <1>1, <1>2, <1>3, <1>4, <1>5

(* One becomes current, or none is.                                        *)
LEMMA CurrentKeeps ==
  ASSUME ContextInv, NEW c \in contexts \cup {NULL}, aglSetCurrentContext(c)
  PROVE  ContextInv'
<1> USE NullIsNoName, WindowsDiffer
    DEF aglSetCurrentContext, make_current, MirrorAfter,
        contextVars, sdlVars, windowVars, pbufferVars,
        ContextInv, ContextsDrawWhereTold, FieldsTyped
<1>1. FieldsTyped'
  BY DEF SDLWindows
<1>2. DrawsInLiveWindow'
  BY DEF DrawsInLiveWindow, Live, ProbesAreOwn, Nowhere
<1>3. MirrorIsOfCurrent'
  BY DEF MirrorIsOfCurrent, DrawsInLiveWindow, Nowhere
<1>4. SwapsWhatItDraws'
  BY DEF SwapsWhatItDraws, Swaps, ProbesAreOwn
<1>5. ProbesAreOwn'
  BY DEF ProbesAreOwn
<1> QED
  BY <1>1, <1>2, <1>3, <1>4, <1>5

(* The mirror is read anew.                                                *)
LEMMA CallKeeps ==
  ASSUME ContextInv, GameCallsGL
  PROVE  ContextInv'
<1> USE NullIsNoName, WindowsDiffer
    DEF GameCallsGL, contextVars, sdlVars, windowVars, pbufferVars,
        ContextInv, ContextsDrawWhereTold, FieldsTyped
<1>1. FieldsTyped'
  BY DEF SDLWindows
<1>2. DrawsInLiveWindow'
  BY DEF DrawsInLiveWindow, Live, ProbesAreOwn, Nowhere
<1>3. MirrorIsOfCurrent'
  BY DEF MirrorIsOfCurrent, DrawsInLiveWindow, Nowhere
<1>4. SwapsWhatItDraws'
  BY DEF SwapsWhatItDraws, Swaps, ProbesAreOwn
<1>5. ProbesAreOwn'
  BY DEF ProbesAreOwn
<1> QED
  BY <1>1, <1>2, <1>3, <1>4, <1>5

(* A context goes to the window that stands in for the screen.             *)
LEMMA FullScreenKeeps ==
  ASSUME ContextInv, NEW c \in contexts, aglSetFullScreen(c)
  PROVE  ContextInv'
<1> USE NullIsNoName, WindowsDiffer
    DEF aglSetFullScreen, LeaveAndMove, hle_sdl_window_for,
        make_current, MirrorAfter, Borrowed, contextVars, sdlVars,
        windowVars, pbufferVars,
        ContextInv, ContextsDrawWhereTold, FieldsTyped
<1>1. FieldsTyped'
  BY DEF SDLWindows
<1>2. DrawsInLiveWindow'
  BY DEF DrawsInLiveWindow, Live, ProbesAreOwn, Nowhere
<1>3. MirrorIsOfCurrent'
  BY DEF MirrorIsOfCurrent, DrawsInLiveWindow, Nowhere
<1>4. SwapsWhatItDraws'
  BY DEF SwapsWhatItDraws, Swaps, ProbesAreOwn
<1>5. ProbesAreOwn'
  BY DEF ProbesAreOwn
<1> QED
  BY <1>1, <1>2, <1>3, <1>4, <1>5

(* It is borrowed for a moment.                                            *)
LEMMA IntegerKeeps ==
  ASSUME ContextInv, NEW c \in contexts, aglSetInteger(c)
  PROVE  ContextInv'
<1> USE NullIsNoName, WindowsDiffer
    DEF aglSetInteger, Borrowed, contextVars, sdlVars, windowVars,
        pbufferVars,
        ContextInv, ContextsDrawWhereTold, FieldsTyped
<1>1. FieldsTyped'
  BY DEF SDLWindows
<1>2. DrawsInLiveWindow'
  BY DEF DrawsInLiveWindow, Live, ProbesAreOwn, Nowhere
<1>3. MirrorIsOfCurrent'
  BY DEF MirrorIsOfCurrent, DrawsInLiveWindow, Nowhere
<1>4. SwapsWhatItDraws'
  BY DEF SwapsWhatItDraws, Swaps, ProbesAreOwn
<1>5. ProbesAreOwn'
  BY DEF ProbesAreOwn
<1> QED
  BY <1>1, <1>2, <1>3, <1>4, <1>5

(* It goes to a window of the game's, or is detached.                      *)
LEMMA DrawableKeeps ==
  ASSUME ContextInv, NEW c \in contexts, NEW w \in Windows \cup {NULL}, aglSetDrawable(c, w)
  PROVE  ContextInv'
<1> USE NullIsNoName, WindowsDiffer
    DEF aglSetDrawable, LeaveAndMove, hle_sdl_window_for,
        make_current, MirrorAfter, Borrowed, contextVars, sdlVars,
        windowVars, pbufferVars,
        ContextInv, ContextsDrawWhereTold, FieldsTyped
<1>1. FieldsTyped'
  BY DEF SDLWindows
<1>2. DrawsInLiveWindow'
  BY DEF DrawsInLiveWindow, Live, ProbesAreOwn, Nowhere
<1>3. MirrorIsOfCurrent'
  BY DEF MirrorIsOfCurrent, DrawsInLiveWindow, Nowhere
<1>4. SwapsWhatItDraws'
  BY DEF SwapsWhatItDraws, Swaps, ProbesAreOwn
<1>5. ProbesAreOwn'
  BY DEF ProbesAreOwn
<1> QED
  BY <1>1, <1>2, <1>3, <1>4, <1>5

(* A window goes, and contexts in it to their own.                         *)
LEMMA WindowKeeps ==
  ASSUME ContextInv, NEW w \in Windows, hle_sdl_window_destroy(w)
  PROVE  ContextInv'
<1> USE NullIsNoName, WindowsDiffer
    DEF hle_sdl_window_destroy, hle_gl_window_destroyed,
        make_current, MirrorAfter, contextVars, sdlVars, windowVars,
        pbufferVars,
        ContextInv, ContextsDrawWhereTold, FieldsTyped
<1>1. FieldsTyped'
  BY DEF SDLWindows
<1>2. DrawsInLiveWindow'
  BY DEF DrawsInLiveWindow, Live, ProbesAreOwn, Nowhere
<1>3. MirrorIsOfCurrent'
  BY DEF MirrorIsOfCurrent, DrawsInLiveWindow, Nowhere
<1>4. SwapsWhatItDraws'
  BY DEF SwapsWhatItDraws, Swaps, ProbesAreOwn
<1>5. ProbesAreOwn'
  BY DEF ProbesAreOwn
<1> QED
  BY <1>1, <1>2, <1>3, <1>4, <1>5

(* A pbuffer is made.                                                      *)
LEMMA PBufferMadeKeeps ==
  ASSUME ContextInv, NEW pb \in PBuffers, aglCreatePBuffer(pb)
  PROVE  ContextInv'
<1> USE NullIsNoName, WindowsDiffer
    DEF aglCreatePBuffer, contextVars, sdlVars, windowVars,
        pbufferVars,
        ContextInv, ContextsDrawWhereTold, FieldsTyped
<1>1. FieldsTyped'
  BY DEF SDLWindows
<1>2. DrawsInLiveWindow'
  BY DEF DrawsInLiveWindow, Live, ProbesAreOwn, Nowhere
<1>3. MirrorIsOfCurrent'
  BY DEF MirrorIsOfCurrent, DrawsInLiveWindow, Nowhere
<1>4. SwapsWhatItDraws'
  BY DEF SwapsWhatItDraws, Swaps, ProbesAreOwn
<1>5. ProbesAreOwn'
  BY DEF ProbesAreOwn
<1> QED
  BY <1>1, <1>2, <1>3, <1>4, <1>5

(* One is destroyed, and its owner leaves it.                              *)
LEMMA PBufferGoneKeeps ==
  ASSUME ContextInv, NEW pb \in pbuffers, aglDestroyPBuffer(pb)
  PROVE  ContextInv'
<1> USE NullIsNoName, WindowsDiffer
    DEF aglDestroyPBuffer, Borrowed, contextVars, sdlVars,
        windowVars, pbufferVars,
        ContextInv, ContextsDrawWhereTold, FieldsTyped
<1>1. FieldsTyped'
  BY DEF SDLWindows
<1>2. DrawsInLiveWindow'
  BY DEF DrawsInLiveWindow, Live, ProbesAreOwn, Nowhere
<1>3. MirrorIsOfCurrent'
  BY DEF MirrorIsOfCurrent, DrawsInLiveWindow, Nowhere
<1>4. SwapsWhatItDraws'
  BY DEF SwapsWhatItDraws, Swaps, ProbesAreOwn
<1>5. ProbesAreOwn'
  BY DEF ProbesAreOwn
<1> QED
  BY <1>1, <1>2, <1>3, <1>4, <1>5

(* A context goes to a pbuffer, if GL can draw in it.                      *)
LEMMA PBufferKeeps ==
  ASSUME ContextInv, NEW c \in contexts, NEW pb \in pbuffers, aglSetPBuffer(c, pb)
  PROVE  ContextInv'
<1> USE NullIsNoName, WindowsDiffer
    DEF aglSetPBuffer, make_framebuffer, Borrowed, contextVars,
        sdlVars, windowVars, pbufferVars,
        ContextInv, ContextsDrawWhereTold, FieldsTyped
<1>1. FieldsTyped'
  BY DEF SDLWindows
<1>2. DrawsInLiveWindow'
  BY DEF DrawsInLiveWindow, Live, ProbesAreOwn, Nowhere
<1>3. MirrorIsOfCurrent'
  BY DEF MirrorIsOfCurrent, DrawsInLiveWindow, Nowhere
<1>4. SwapsWhatItDraws'
  BY DEF SwapsWhatItDraws, Swaps, ProbesAreOwn
<1>5. ProbesAreOwn'
  BY DEF ProbesAreOwn
<1> QED
  BY <1>1, <1>2, <1>3, <1>4, <1>5

(* A texture becomes a pbuffer's image.                                    *)
LEMMA ImageKeeps ==
  ASSUME ContextInv, NEW c \in contexts, NEW pb \in pbuffers, NEW t \in Textures, aglTexImagePBuffer(c, pb, t)
  PROVE  ContextInv'
<1> USE NullIsNoName, WindowsDiffer
    DEF aglTexImagePBuffer, Borrowed, contextVars, sdlVars,
        windowVars, pbufferVars,
        ContextInv, ContextsDrawWhereTold, FieldsTyped
<1>1. FieldsTyped'
  BY DEF SDLWindows
<1>2. DrawsInLiveWindow'
  BY DEF DrawsInLiveWindow, Live, ProbesAreOwn, Nowhere
<1>3. MirrorIsOfCurrent'
  BY DEF MirrorIsOfCurrent, DrawsInLiveWindow, Nowhere
<1>4. SwapsWhatItDraws'
  BY DEF SwapsWhatItDraws, Swaps, ProbesAreOwn
<1>5. ProbesAreOwn'
  BY DEF ProbesAreOwn
<1> QED
  BY <1>1, <1>2, <1>3, <1>4, <1>5
(* Any step.                                                               *)
LEMMA ContextsKeep == ContextInv /\ [Next]_vars => ContextInv'
<1> SUFFICES ASSUME ContextInv, [Next]_vars
             PROVE  ContextInv'
  OBVIOUS
<1>1. CASE UNCHANGED vars
  BY <1>1 DEF vars, contextVars, sdlVars, windowVars, pbufferVars, ContextInv,
        ContextsDrawWhereTold, FieldsTyped, DrawsInLiveWindow, MirrorIsOfCurrent,
              SwapsWhatItDraws, Swaps, ProbesAreOwn, Live
<1>2. ASSUME NEW w \in Windows \cup {NULL}, NEW c \in contexts, aglSetDrawable(c, w)
      PROVE  ContextInv'
  BY <1>2, DrawableKeeps
<1>3. contexts \subseteq Contexts
  BY DEF ContextInv, FieldsTyped
<1> QED
  BY <1>1, <1>2, <1>3, CreateKeeps, DestroyKeeps, CurrentKeeps, CallKeeps, FullScreenKeeps,
     IntegerKeeps, WindowKeeps, PBufferMadeKeeps, PBufferGoneKeeps, PBufferKeeps, ImageKeeps
     DEF Next

(* However contexts, windows and pbuffers come and go, every context draws *)
(* in a window that exists, SDL's context is the current one's, what       *)
(* gl_var.c takes for GL's state is of that one, and a swap shows what was *)
(* drawn in a window of the game's.                                        *)
THEOREM ContextsDraw == Spec => []ContextsDrawWhereTold
<1>1. ContextInv => ContextsDrawWhereTold
  BY DEF ContextInv
<1> QED
  BY <1>1, ContextsStart, ContextsKeep, PTL DEF Spec
-----------------------------------------------------------------------------
(* The profiler.                                                           *)

(* The slot of the i-th probe.                                             *)
ProbeOf(place, t, i) == (Hash[place, t] + i) % kSlots

(* Where a thread is that has not begun to write, and what a writer knows. *)
Before == {"game", "reading", "reported", "emptied", "enters", "waits"}
Writers == [took : BOOLEAN] \cup [took : BOOLEAN, tries : Nat]
             \cup [took : BOOLEAN, samples : Nat]
             \cup [took : BOOLEAN, samples : Nat, listed : Nat]

(* The types that the steps keep.                                          *)
SampleTyped ==
  /\ slots \in [P!Slots -> [place : Places \cup {"none"}, thread : Threads \cup {"none"}, count : Nat]]
  /\ \A s \in P!Slots : slots[s].count > 0 => slots[s].place \in Places /\ slots[s].thread \in Threads
  /\ table_busy \in BOOLEAN /\ slots_used \in Nat /\ samples \in Nat
  /\ at \in [Threads -> Before \cup {"header", "table", "gone"}]
  /\ handler \in [Threads -> {P!NotSampling} \cup
                    [step : {"record", "holding", "counted", "frame"}, place : Places]]
  /\ writes \in [Threads -> Writers]
  /\ \A t \in Threads :
       /\ at[t] = "waits" => writes[t] \in [took : {FALSE}, tries : Nat]
       /\ at[t] = "header" => writes[t] \in [took : BOOLEAN, tries : Nat]
       /\ at[t] = "table" => writes[t] \in [took : BOOLEAN, samples : Nat]

(* One handler has the table, or else a writer that took it.               *)
Has(t) == handler[t].step \in {"holding", "counted"}
OneHasIt ==
  /\ \A t \in Threads : Has(t) => table_busy
  /\ \A t, u \in Threads : Has(t) /\ Has(u) => t = u
  /\ \A t \in Threads : writes[t].took =>
       at[t] \notin Before /\ table_busy /\ \A u \in Threads : ~Has(u)

(* A place of a thread is where the first probes led past others.          *)
Placed(s, i) ==
  /\ s = ProbeOf(slots[s].place, slots[s].thread, i)
  /\ \A j \in 0..i - 1 :
       LET r == ProbeOf(slots[s].place, slots[s].thread, j) IN
       /\ slots[r].count > 0
       /\ slots[r].place # slots[s].place \/ slots[r].thread # slots[s].thread
ProbesLead == \A s \in P!Used : \E i \in 0..kProbes - 1 : Placed(s, i)

(* The counts, of which samples lags by one between two stores.            *)
AddsUp ==
  /\ IsFiniteSet(P!Counted) /\ IsFiniteSet(P!Used)
  /\ Cardinality(P!Used) = slots_used
  /\ ~table_busy => Cardinality(P!Counted) = samples
  /\ \A t \in Threads :
       /\ handler[t].step = "holding" \/ writes[t].took => Cardinality(P!Counted) = samples
       /\ handler[t].step = "counted" => Cardinality(P!Counted) = samples + 1

(* What a writer that took the table has written.                          *)
WritesAgree ==
  \A t \in Threads : writes[t].took =>
    /\ at[t] = "table" => writes[t].samples = samples
    /\ at[t] = "gone" => writes[t].listed = writes[t].samples

(* The frame is the list, except between a report and the end of it.       *)
FrameIsListed ==
  /\ at[Main] \in {"game", "reading", "emptied"} => frame = frame_samples
  /\ at[Main] \in {"reading", "reported", "emptied"} => frame_reading
  /\ at[Main] = "reported" => frame = <<>>
  /\ P!FramesAreExact

(* The inductive invariant.                                                *)
ProfileInv == SampleTyped /\ OneHasIt /\ ProbesLead /\ AddsUp /\ WritesAgree /\ FrameIsListed

(* Where a handler may be.                                                 *)
Stages == {"record", "holding", "counted", "frame"}

(* A handler moves on by a step.                                           *)
LEMMA HandlerGoes ==
  ASSUME SampleTyped, NEW t \in Threads, handler[t].step \in Stages, NEW to \in Stages, P!Goes(t, to)
  PROVE  /\ handler' \in [Threads -> {P!NotSampling} \cup [step : Stages, place : Places]]
         /\ handler'[t].step = to
         /\ \A u \in Threads : u # t => handler'[u] = handler[u]
         /\ handler[t].place \in Places
<1> DEFINE h == handler[t]
<1>1. h \in [step : Stages, place : Places]
  BY DEF SampleTyped, P!NotSampling, Stages
<1>2. handler' = [handler EXCEPT ![t] = [h EXCEPT !.step = to]]
  BY DEF P!Goes
<1>3. PICK g : g = [h EXCEPT !.step = to]
  OBVIOUS
<1> HIDE DEF h
<1>4. g \in [step : Stages, place : Places] /\ g.step = to
  BY <1>1, <1>3
<1>5. handler \in [Threads -> {P!NotSampling} \cup [step : Stages, place : Places]]
  BY DEF SampleTyped, Stages
<1>6. handler' = [handler EXCEPT ![t] = g]
  BY <1>2, <1>3
<1>7. h.place \in Places
  BY <1>1
<1> QED
  BY <1>4, <1>5, <1>6, <1>7 DEF h

(* What is said of the slots stays while they do.                          *)
LEMMA SameSlots ==
  ASSUME UNCHANGED slots
  PROVE  /\ P!Counted' = P!Counted /\ P!Used' = P!Used
         /\ ProbesLead => ProbesLead'
BY DEF P!Counted, P!Used, ProbesLead, Placed

(* A slot that counts one more.                                            *)
LEMMA OneMoreCounted ==
  ASSUME NEW s \in P!Slots, slots[s].count \in Nat, slots'[s].count = slots[s].count + 1,
         \A r \in P!Slots : r # s => slots'[r].count = slots[r].count
  PROVE  /\ P!Counted' = P!Counted \cup {<<s, slots[s].count + 1>>}
         /\ <<s, slots[s].count + 1>> \notin P!Counted
         /\ P!Used' = P!Used \cup {s}
         /\ s \in P!Used <=> slots[s].count # 0
<1> DEFINE n == slots[s].count
<1>1. ASSUME NEW x
      PROVE  x \in P!Counted' <=> x \in P!Counted \/ x = <<s, n + 1>>
  <2>1. x \in P!Counted' <=> \E r \in P!Slots : \E k \in 1..slots'[r].count : x = <<r, k>>
    BY DEF P!Counted
  <2>2. x \in P!Counted <=> \E r \in P!Slots : \E k \in 1..slots[r].count : x = <<r, k>>
    BY DEF P!Counted
  <2>3. 1..n + 1 = (1..n) \cup {n + 1}
    OBVIOUS
  <2> QED
    BY <2>1, <2>2, <2>3
<1>2. <<s, n + 1>> \notin P!Counted
  <2>1. n + 1 \notin 1..n
    OBVIOUS
  <2> QED
    BY <2>1 DEF P!Counted
<1>3. P!Used' = P!Used \cup {s}
  BY DEF P!Used
<1>4. s \in P!Used <=> n # 0
  BY DEF P!Used
<1> QED
  BY <1>1, <1>2, <1>3, <1>4

(* A probe is of a slot.                                                   *)
LEMMA ProbeIsSlot ==
  ASSUME P!TableConstants, NEW place \in Places, NEW t \in Threads, NEW i \in Nat
  PROVE  ProbeOf(place, t, i) \in P!Slots
<1>1. PICK h \in Nat : h = Hash[place, t]
  <2>1. <<place, t>> \in Places \X Threads
    OBVIOUS
  <2>2. Hash[<<place, t>>] \in Nat
    BY <2>1 DEF P!TableConstants
  <2> QED
    BY <2>2
<1>2. PICK n \in Nat : n = Hash[place, t] + i
  <2>1. h + i \in Nat
    OBVIOUS
  <2> QED
    BY <1>1, <2>1
<1>3. PICK k \in Nat \ {0} : k = kSlots
  BY DEF P!TableConstants
<1>4. n % k \in 0..k - 1
  OBVIOUS
<1> QED
  BY <1>2, <1>3, <1>4 DEF ProbeOf, P!Slots

(* Where the first of the probes that fit leads.                           *)
LEMMA FirstProbe ==
  ASSUME P!TableConstants, SampleTyped, NEW t \in Threads, NEW place \in Places,
         P!Probed(place, t) # {}
  PROVE  \E i \in 0..kProbes - 1 :
           /\ i = P!Min(P!Probed(place, t))
           /\ ProbeOf(place, t, i) \in P!Slots
           /\ P!Fits(ProbeOf(place, t, i), place, t)
           /\ \A j \in 0..i - 1 : ~P!Fits(ProbeOf(place, t, j), place, t)
<1> DEFINE found == P!Probed(place, t)
<1>1. \A i : i \in found <=> i \in 0..kProbes - 1 /\ P!Fits(ProbeOf(place, t, i), place, t)
  BY DEF P!Probed, ProbeOf
<1>2. found \in SUBSET Nat /\ found # {} /\ kProbes \in Nat
  BY <1>1 DEF P!TableConstants
<1> HIDE DEF found
<1>3. \E i \in found : \A j \in found : i <= j
  BY <1>2, LeastOf
<1>4. PICK i \in found : i = P!Min(found) /\ \A j \in found : i <= j
  BY <1>3 DEF P!Min
<1>5. ProbeOf(place, t, i) \in P!Slots
  BY <1>2, ProbeIsSlot
<1>6. \A j \in 0..i - 1 : j \in 0..kProbes - 1 /\ ~(i <= j)
  BY <1>1, <1>2
<1> QED
  BY <1>1, <1>4, <1>5, <1>6 DEF found

(* It is counted there.                                                    *)
LEMMA ProbesLeadOn ==
  ASSUME P!TableConstants, SampleTyped, ProbesLead, NEW t \in Threads, NEW place \in Places,
         NEW i \in 0..kProbes - 1, NEW s \in P!Slots, s = ProbeOf(place, t, i),
         P!Fits(s, place, t), \A j \in 0..i - 1 : ~P!Fits(ProbeOf(place, t, j), place, t),
         slots' = [slots EXCEPT ![s] = [place |-> place, thread |-> t,
                                        count |-> slots[s].count + 1]]
  PROVE  ProbesLead'
<1>0. /\ slots'[s].place = place /\ slots'[s].thread = t
      /\ slots'[s].count = slots[s].count + 1
      /\ \A r \in P!Slots : r # s => slots'[r] = slots[r]
      /\ \A r \in P!Slots : slots[r].count \in Nat
  BY DEF SampleTyped
<1>1. slots[s].count # 0 => slots[s].place = place /\ slots[s].thread = t
  BY DEF P!Fits
<1>2. ASSUME NEW r \in P!Slots, slots[r].count > 0
      PROVE  /\ slots'[r].count > 0
             /\ slots'[r].place = slots[r].place /\ slots'[r].thread = slots[r].thread
  BY <1>0, <1>1, <1>2
<1> DEFINE Full(r, pl, u) == slots[r].count > 0 /\ (slots[r].place # pl \/ slots[r].thread # u)
           Filled(r, pl, u) == slots'[r].count > 0 /\ (slots'[r].place # pl \/ slots'[r].thread # u)
<1>3. \A r \in P!Slots : \A pl, u : Full(r, pl, u) => Filled(r, pl, u)
  BY <1>2
<1>4. SUFFICES ASSUME NEW q \in P!Used'
               PROVE  \E k \in 0..kProbes - 1 :
                        /\ q = ProbeOf(slots'[q].place, slots'[q].thread, k)
                        /\ \A j \in 0..k - 1 :
                             Filled(ProbeOf(slots'[q].place, slots'[q].thread, j),
                                    slots'[q].place, slots'[q].thread)
  BY DEF ProbesLead, Placed, P!Used
<1>5. q \in P!Slots /\ slots'[q].count > 0
  BY DEF P!Used
<1>6. CASE q = s
  <2>1. ASSUME NEW j \in 0..i - 1
        PROVE  Full(ProbeOf(place, t, j), place, t)
    <3>1. j \in Nat
      OBVIOUS
    <3>2. ProbeOf(place, t, j) \in P!Slots
      BY <3>1, ProbeIsSlot
    <3>3. slots[ProbeOf(place, t, j)].count \in Nat
      BY <1>0, <3>2
    <3>4. ~P!Fits(ProbeOf(place, t, j), place, t)
      OBVIOUS
    <3> HIDE DEF Full
    <3>5. slots[ProbeOf(place, t, j)].count # 0
          /\ ~(slots[ProbeOf(place, t, j)].place = place /\ slots[ProbeOf(place, t, j)].thread = t)
      BY <3>4 DEF P!Fits
    <3> QED
      BY <3>3, <3>5 DEF Full
  <2>2. ASSUME NEW j \in 0..i - 1
        PROVE  Filled(ProbeOf(place, t, j), place, t)
    <3>1. j \in Nat
      OBVIOUS
    <3> HIDE DEF Full, Filled
    <3> QED
      BY <1>3, <2>1, <3>1, ProbeIsSlot
  <2> HIDE DEF Filled
  <2> QED
    BY <1>0, <1>6, <2>2
<1>7. CASE q # s
  <2>1. slots'[q] = slots[q] /\ q \in P!Used
    BY <1>0, <1>5, <1>7 DEF P!Used
  <2>2. PICK pl \in Places, u \in Threads : pl = slots[q].place /\ u = slots[q].thread
    BY <2>1 DEF P!Used, SampleTyped
  <2>3. PICK k \in 0..kProbes - 1 :
          q = ProbeOf(pl, u, k) /\ \A j \in 0..k - 1 : Full(ProbeOf(pl, u, j), pl, u)
    BY <2>1, <2>2 DEF ProbesLead, Placed
  <2>4. ASSUME NEW j \in 0..k - 1
        PROVE  Filled(ProbeOf(pl, u, j), pl, u)
    <3>1. j \in Nat
      OBVIOUS
    <3> HIDE DEF Full, Filled
    <3> QED
      BY <1>3, <2>3, <3>1, ProbeIsSlot
  <2> HIDE DEF Filled
  <2> QED
    BY <2>1, <2>2, <2>3, <2>4
<1> QED
  BY <1>6, <1>7

(* A signal comes.                                                         *)
LEMMA SignalKeeps ==
  ASSUME P!TableConstants, ProfileInv, NEW t \in Threads, NEW place \in Places, P!Signal(t, place)
  PROVE  ProfileInv'
<1> USE DEF P!TableConstants, P!Signal, ProfileInv, P!table, P!frames, P!writing,
            P!Runs, P!Goes, P!NotSampling, P!MainAt, SampleTyped
<1>1. SampleTyped'
  BY DEF Before, Writers
<1>2. OneHasIt'
  BY DEF OneHasIt, Has, Before
<1>3. ProbesLead'
  BY DEF ProbesLead, Placed, P!Used
<1>4. AddsUp'
  BY DEF AddsUp, P!Used, P!Counted, OneHasIt, Has, Before
<1>5. WritesAgree'
  BY DEF WritesAgree, OneHasIt, Has, Before, AddsUp, P!Total
<1>6. FrameIsListed'
  BY DEF FrameIsListed, P!FramesAreExact, P!Appends
<1> QED
  BY <1>1, <1>2, <1>3, <1>4, <1>5, <1>6

(* A handler takes the table, or drops its sample.                         *)
LEMMA TakesKeeps ==
  ASSUME P!TableConstants, ProfileInv, NEW t \in Threads, P!record_Takes(t)
  PROVE  ProfileInv'
<1> USE DEF ProfileInv
<1>0. /\ UNCHANGED <<slots, slots_used, samples, at, writes, written>>
      /\ UNCHANGED <<frame_samples, frame_reading, frame, reported>>
      /\ handler[t].step = "record" /\ table_busy' = TRUE
      /\ table_busy \in BOOLEAN
  BY DEF P!record_Takes, P!frames, P!writing, SampleTyped
<1>a. PICK to \in {"holding", "frame"} : P!Goes(t, to) /\ (to = "holding" => ~table_busy)
  BY DEF P!record_Takes
<1>b. /\ handler' \in [Threads -> {P!NotSampling} \cup [step : Stages, place : Places]]
      /\ handler'[t].step = to
      /\ \A u \in Threads : u # t => handler'[u] = handler[u]
  BY <1>0, <1>a, HandlerGoes DEF Stages
<1>1. SampleTyped'
  BY <1>0, <1>b DEF SampleTyped, Stages
<1>2. OneHasIt'
  BY <1>0, <1>a, <1>b DEF OneHasIt, Has
<1>3. ProbesLead'
  BY <1>0, SameSlots
<1>4. AddsUp'
  BY <1>0, <1>a, <1>b, SameSlots DEF AddsUp
<1>5. WritesAgree'
  BY <1>0 DEF WritesAgree
<1>6. FrameIsListed'
  BY <1>0 DEF FrameIsListed, P!FramesAreExact
<1> QED
  BY <1>1, <1>2, <1>3, <1>4, <1>5, <1>6

(* It finds a slot, or lets go.                                            *)
LEMMA FindsKeeps ==
  ASSUME P!TableConstants, ProfileInv, NEW t \in Threads, P!record_Finds(t)
  PROVE  ProfileInv'
<1> USE DEF ProfileInv
<1> DEFINE place == handler[t].place
           found == P!Probed(place, t)
           first == ProbeOf(place, t, P!Min(found))
           room == ~(found = {} \/ (slots[first].count = 0 /\ slots_used >= (kSlots \div 4) * 3))
<1>0. /\ UNCHANGED <<samples, at, writes, written>>
      /\ UNCHANGED <<frame_samples, frame_reading, frame, reported>>
      /\ handler[t].step = "holding" /\ table_busy = TRUE
      /\ \A u \in Threads : ~writes[u].took /\ (u # t => ~Has(u))
      /\ place \in Places
  <2>1. /\ UNCHANGED <<samples, at, writes, written>>
        /\ UNCHANGED <<frame_samples, frame_reading, frame, reported>>
        /\ handler[t].step = "holding"
    BY DEF P!record_Finds, P!frames, P!writing
  <2>2. table_busy = TRUE /\ \A u \in Threads : ~writes[u].took /\ (u # t => ~Has(u))
    BY <2>1 DEF OneHasIt, Has, SampleTyped
  <2>3. place \in Places
    BY <2>1 DEF SampleTyped, P!NotSampling
  <2> QED
    BY <2>1, <2>2, <2>3
<1>a. CASE ~room
  <2>1. UNCHANGED <<slots, slots_used>> /\ table_busy' = FALSE /\ P!Goes(t, "frame")
    BY <1>a DEF P!record_Finds, ProbeOf
  <2>2. /\ handler' \in [Threads -> {P!NotSampling} \cup [step : Stages, place : Places]]
        /\ handler'[t].step = "frame"
        /\ \A u \in Threads : u # t => handler'[u] = handler[u]
    BY <1>0, <2>1, HandlerGoes DEF Stages
  <2>3. \A u \in Threads : ~Has(u)'
    BY <1>0, <2>2 DEF Has
  <2>4. SampleTyped'
    BY <1>0, <2>1, <2>2 DEF SampleTyped, Stages
  <2>5. OneHasIt'
    BY <1>0, <2>1, <2>3 DEF OneHasIt
  <2>6. AddsUp'
    BY <1>0, <2>1, <2>3, SameSlots DEF AddsUp, Has
  <2>7. WritesAgree' /\ FrameIsListed'
    BY <1>0 DEF WritesAgree, FrameIsListed, P!FramesAreExact
  <2> QED
    BY <2>1, <2>4, <2>5, <2>6, <2>7, SameSlots
<1>b. CASE room
  <2>0. PICK i \in 0..kProbes - 1 :
           /\ i = P!Min(found)
           /\ ProbeOf(place, t, i) \in P!Slots
           /\ P!Fits(ProbeOf(place, t, i), place, t)
           /\ \A j \in 0..i - 1 : ~P!Fits(ProbeOf(place, t, j), place, t)
    BY <1>0, <1>b, FirstProbe
  <2>1. PICK s \in P!Slots : s = ProbeOf(place, t, i)
    BY <2>0
  <2>2. /\ slots' = [slots EXCEPT ![s] = [place |-> place, thread |-> t, count |-> slots[s].count + 1]]
        /\ slots_used' = IF slots[s].count = 0 THEN slots_used + 1 ELSE slots_used
        /\ P!Goes(t, "counted") /\ table_busy' = table_busy
    BY <1>b, <2>0, <2>1 DEF P!record_Finds, ProbeOf
  <2>3. /\ handler' \in [Threads -> {P!NotSampling} \cup [step : Stages, place : Places]]
        /\ handler'[t].step = "counted"
        /\ \A u \in Threads : u # t => handler'[u] = handler[u]
    BY <1>0, <2>2, HandlerGoes DEF Stages
  <2> HIDE DEF place, found, first, room
  <2>4. PICK n \in Nat : n = slots[s].count
    BY DEF SampleTyped
  <2>5. PICK new \in [place : Places, thread : Threads, count : Nat] :
          new = [place |-> place, thread |-> t, count |-> n + 1]
    <3>1. PICK m \in Nat : m = n + 1
      OBVIOUS
    <3>2. [place |-> place, thread |-> t, count |-> m] \in [place : Places, thread : Threads, count : Nat]
      BY <1>0
    <3> QED
      BY <3>1, <3>2
  <2>6. slots' = [slots EXCEPT ![s] = new]
    BY <2>2, <2>4, <2>5
  <2>7. /\ slots'[s] = new /\ new.count = n + 1
        /\ \A r \in P!Slots : r # s => slots'[r] = slots[r]
    BY <2>5, <2>6 DEF SampleTyped
  <2>8. SampleTyped'
    <3>1. slots' \in [P!Slots -> [place : Places \cup {"none"}, thread : Threads \cup {"none"}, count : Nat]]
      BY <2>6 DEF SampleTyped
    <3>2. \A r \in P!Slots : slots'[r].count > 0 => slots'[r].place \in Places /\ slots'[r].thread \in Threads
      BY <2>7 DEF SampleTyped
    <3>3. slots_used' \in Nat
      BY <2>2 DEF SampleTyped
    <3> QED
      BY <1>0, <2>2, <2>3, <3>1, <3>2, <3>3 DEF SampleTyped, Stages
  <2>9. OneHasIt'
    BY <1>0, <2>2, <2>3 DEF OneHasIt, Has
  <2>10. ProbesLead'
    BY <1>0, <2>0, <2>1, <2>2, ProbesLeadOn
  <2>11. AddsUp'
    <3>1. /\ P!Counted' = P!Counted \cup {<<s, n + 1>>} /\ <<s, n + 1>> \notin P!Counted
          /\ P!Used' = P!Used \cup {s} /\ (s \in P!Used <=> n # 0)
      BY <2>4, <2>7, OneMoreCounted
    <3>2. /\ IsFiniteSet(P!Counted') /\ IsFiniteSet(P!Used')
          /\ Cardinality(P!Counted') = Cardinality(P!Counted) + 1
          /\ Cardinality(P!Used') = IF n = 0 THEN Cardinality(P!Used) + 1 ELSE Cardinality(P!Used)
      BY <3>1, FS_AddElement DEF AddsUp
    <3>3. Cardinality(P!Counted') = samples + 1 /\ Cardinality(P!Used') = slots_used'
      BY <1>0, <2>2, <2>4, <3>2 DEF AddsUp
    <3> QED
      BY <1>0, <2>2, <2>3, <3>2, <3>3 DEF AddsUp, Has
  <2>12. WritesAgree' /\ FrameIsListed'
    BY <1>0 DEF WritesAgree, FrameIsListed, P!FramesAreExact
  <2> QED
    BY <2>8, <2>9, <2>10, <2>11, <2>12
<1> QED
  BY <1>a, <1>b

(* It lets go.                                                             *)
LEMMA CountsKeeps ==
  ASSUME P!TableConstants, ProfileInv, NEW t \in Threads, P!record_Counts(t)
  PROVE  ProfileInv'
<1> USE DEF ProfileInv
<1>0. /\ UNCHANGED <<slots, slots_used, at, writes, written>>
      /\ UNCHANGED <<frame_samples, frame_reading, frame, reported>>
      /\ handler[t].step = "counted" /\ table_busy' = FALSE
      /\ samples' = samples + 1 /\ P!Goes(t, "frame")
  BY DEF P!record_Counts, P!frames, P!writing
<1>b. /\ handler' \in [Threads -> {P!NotSampling} \cup [step : Stages, place : Places]]
      /\ handler'[t].step = "frame"
      /\ \A u \in Threads : u # t => handler'[u] = handler[u]
  BY <1>0, HandlerGoes DEF Stages
<1>c. \A u \in Threads : ~writes[u].took /\ (u # t => ~Has(u))
  BY <1>0 DEF OneHasIt, Has
<1>d. \A u \in Threads : ~Has(u)'
  BY <1>b, <1>c DEF Has
<1>1. SampleTyped'
  <2>1. samples' \in Nat
    BY <1>0 DEF SampleTyped
  <2> QED
    BY <1>0, <1>b, <2>1 DEF SampleTyped, Stages
<1>2. OneHasIt'
  BY <1>0, <1>c, <1>d DEF OneHasIt
<1>3. ProbesLead'
  BY <1>0, SameSlots
<1>4. AddsUp'
  BY <1>0, <1>c, <1>d, SameSlots DEF AddsUp, Has
<1>5. WritesAgree'
  BY <1>0, <1>c DEF WritesAgree
<1>6. FrameIsListed'
  BY <1>0 DEF FrameIsListed, P!FramesAreExact
<1> QED
  BY <1>1, <1>2, <1>3, <1>4, <1>5, <1>6

(* It ends with the frame's list.                                          *)
LEMMA SampleKeeps ==
  ASSUME P!TableConstants, ProfileInv, NEW t \in Threads, P!on_sample_Ends(t)
  PROVE  ProfileInv'
<1> USE DEF P!TableConstants, P!on_sample_Ends, ProfileInv, P!table, P!frames,
            P!writing, P!Runs, P!Goes, P!NotSampling, P!MainAt, SampleTyped
<1>1. SampleTyped'
  BY DEF Before, Writers
<1>2. OneHasIt'
  BY DEF OneHasIt, Has, Before
<1>3. ProbesLead'
  BY SameSlots
<1>4. AddsUp'
  BY DEF AddsUp, P!Used, P!Counted, OneHasIt, Has, Before
<1>5. WritesAgree'
  BY DEF WritesAgree, OneHasIt, Has, Before, AddsUp, P!Total
<1>6. FrameIsListed'
  BY DEF FrameIsListed, P!FramesAreExact, P!Appends
<1> QED
  BY <1>1, <1>2, <1>3, <1>4, <1>5, <1>6

(* A thread exits or faults, and its handler is left.                      *)
LEMMA EntersKeeps ==
  ASSUME P!TableConstants, ProfileInv, NEW t \in Threads, P!Enters(t)
  PROVE  ProfileInv'
<1> USE DEF P!TableConstants, P!Enters, ProfileInv, P!table, P!frames, P!writing,
            P!Runs, P!Goes, P!NotSampling, P!MainAt, SampleTyped
<1>1. SampleTyped'
  BY DEF Before, Writers
<1>2. OneHasIt'
  BY DEF OneHasIt, Has, Before
<1>3. ProbesLead'
  BY DEF ProbesLead, Placed, P!Used
<1>4. AddsUp'
  BY DEF AddsUp, P!Used, P!Counted, OneHasIt, Has, Before
<1>5. WritesAgree'
  BY DEF WritesAgree, OneHasIt, Has, Before, AddsUp, P!Total
<1>6. FrameIsListed'
  BY DEF FrameIsListed, P!FramesAreExact, P!Appends
<1> QED
  BY <1>1, <1>2, <1>3, <1>4, <1>5, <1>6

(* It is the one to write.                                                 *)
LEMMA WriteKeeps ==
  ASSUME P!TableConstants, ProfileInv, NEW t \in Threads, P!write_profile(t)
  PROVE  ProfileInv'
<1> USE DEF P!TableConstants, P!write_profile, ProfileInv, P!table, P!frames,
            P!writing, P!Runs, P!Goes, P!NotSampling, P!MainAt, SampleTyped
<1>1. SampleTyped'
  BY DEF Before, Writers
<1>2. OneHasIt'
  BY DEF OneHasIt, Has, Before
<1>3. ProbesLead'
  BY DEF ProbesLead, Placed, P!Used
<1>4. AddsUp'
  BY DEF AddsUp, P!Used, P!Counted, OneHasIt, Has, Before
<1>5. WritesAgree'
  BY DEF WritesAgree, OneHasIt, Has, Before, AddsUp, P!Total
<1>6. FrameIsListed'
  BY DEF FrameIsListed, P!FramesAreExact, P!Appends
<1> QED
  BY <1>1, <1>2, <1>3, <1>4, <1>5, <1>6

(* It tries to take the table.                                             *)
LEMMA TriesKeeps ==
  ASSUME P!TableConstants, ProfileInv, NEW t \in Threads, P!Tries(t)
  PROVE  ProfileInv'
<1> USE DEF ProfileInv
<1>0. /\ UNCHANGED <<slots, slots_used, samples, handler, written>>
      /\ UNCHANGED <<frame_samples, frame_reading, frame, reported>>
      /\ at[t] = "waits" /\ table_busy' = TRUE /\ table_busy \in BOOLEAN
      /\ ~writes[t].took /\ writes[t] \in [took : {FALSE}, tries : Nat]
  BY DEF P!Tries, P!frames, P!writing, SampleTyped, OneHasIt, Before
<1>a. PICK w \in [took : BOOLEAN, tries : Nat], to \in {"waits", "header"} :
        /\ writes' = [writes EXCEPT ![t] = w] /\ at' = [at EXCEPT ![t] = to]
        /\ w.took => ~table_busy
        /\ w.took => to = "header"
  <2>0. PICK w : w = writes[t]
    OBVIOUS
  <2>1. CASE table_busy /\ w.tries < MaxTries
    <3>1. PICK v : v = [w EXCEPT !.tries = w.tries + 1]
      OBVIOUS
    <3>2. v \in [took : BOOLEAN, tries : Nat] /\ ~v.took
      <4>0. w \in [took : {FALSE}, tries : Nat]
        BY <1>0, <2>0
      <4>1. w.tries + 1 \in Nat
        BY <4>0
      <4> QED
        BY <3>1, <4>0, <4>1
    <3>3. writes' = [writes EXCEPT ![t] = v]
      BY <2>0, <2>1, <3>1 DEF P!Tries
    <3>4. at' = [at EXCEPT ![t] = "waits"]
      BY <1>0, <2>0, <2>1 DEF P!Tries, SampleTyped
    <3> QED
      BY <3>2, <3>3, <3>4
  <2>2. CASE ~(table_busy /\ w.tries < MaxTries)
    <3>1. PICK v : v = [w EXCEPT !.took = ~table_busy]
      OBVIOUS
    <3>2. v \in [took : BOOLEAN, tries : Nat] /\ (v.took => ~table_busy)
      BY <1>0, <2>0, <3>1
    <3>3. writes' = [writes EXCEPT ![t] = v]
      BY <2>0, <2>2, <3>1 DEF P!Tries
    <3>4. at' = [at EXCEPT ![t] = "header"]
      BY <2>0, <2>2 DEF P!Tries
    <3> QED
      BY <3>2, <3>3, <3>4
  <2> QED
    BY <2>1, <2>2
<1>b. /\ writes'[t] = w /\ at'[t] = to
      /\ \A u \in Threads : u # t => writes'[u] = writes[u] /\ at'[u] = at[u]
  BY <1>a DEF SampleTyped
<1>1. SampleTyped'
  <2>1. w \in Writers /\ to \in Before \cup {"header"}
    BY <1>a DEF Writers, Before
  <2>2. writes' \in [Threads -> Writers] /\ at' \in [Threads -> Before \cup {"header", "table", "gone"}]
    BY <1>a, <2>1 DEF SampleTyped
  <2>3. to = "waits" => w \in [took : {FALSE}, tries : Nat]
    BY <1>a
  <2> QED
    BY <1>0, <1>a, <1>b, <2>2, <2>3, ZenonT(60) DEF SampleTyped
<1>2. OneHasIt'
  BY <1>0, <1>a, <1>b DEF OneHasIt, Has, Before
<1>3. ProbesLead'
  BY <1>0, SameSlots
<1>4. AddsUp'
  BY <1>0, <1>a, <1>b, SameSlots DEF AddsUp
<1>5. WritesAgree'
  BY <1>0, <1>a, <1>b DEF WritesAgree
<1>6. FrameIsListed'
  BY <1>0, <1>a, <1>b DEF FrameIsListed, P!FramesAreExact, SampleTyped, P!TableConstants
<1> QED
  BY <1>1, <1>2, <1>3, <1>4, <1>5, <1>6

(* It writes the header.                                                   *)
LEMMA HeadsKeeps ==
  ASSUME P!TableConstants, ProfileInv, NEW t \in Threads, P!Heads(t)
  PROVE  ProfileInv'
<1> USE DEF P!TableConstants, P!Heads, ProfileInv, P!table, P!frames, P!writing,
            P!Runs, P!Goes, P!NotSampling, P!MainAt, SampleTyped
<1>1. SampleTyped'
  BY DEF Before, Writers
<1>2. OneHasIt'
  BY DEF OneHasIt, Has, Before
<1>3. ProbesLead'
  BY DEF ProbesLead, Placed, P!Used
<1>4. AddsUp'
  BY DEF AddsUp, P!Used, P!Counted, OneHasIt, Has, Before
<1>5. WritesAgree'
  BY DEF WritesAgree, OneHasIt, Has, Before, AddsUp, P!Total
<1>6. FrameIsListed'
  BY DEF FrameIsListed, P!FramesAreExact, P!Appends
<1> QED
  BY <1>1, <1>2, <1>3, <1>4, <1>5, <1>6

(* It lists the table.                                                     *)
LEMMA ListsKeeps ==
  ASSUME P!TableConstants, ProfileInv, NEW t \in Threads, P!Lists(t)
  PROVE  ProfileInv'
<1> USE DEF ProfileInv
<1>0. /\ UNCHANGED <<slots, slots_used, samples, table_busy, handler, written>>
      /\ UNCHANGED <<frame_samples, frame_reading, frame, reported>>
      /\ at[t] = "table" /\ at' = [at EXCEPT ![t] = "gone"]
      /\ writes[t] \in [took : BOOLEAN, samples : Nat]
  BY DEF P!Lists, P!frames, P!table, P!writing, SampleTyped
<1>a. PICK w : /\ w = [took |-> writes[t].took, samples |-> writes[t].samples, listed |-> P!Total]
               /\ writes' = [writes EXCEPT ![t] = w]
  BY DEF P!Lists
<1>b. P!Total = Cardinality(P!Counted) /\ P!Total \in Nat
  BY FS_CardinalityType DEF P!Total, P!Cardinality, Cardinality, AddsUp
<1>c. /\ writes'[t] = w /\ at'[t] = "gone"
      /\ \A u \in Threads : u # t => writes'[u] = writes[u] /\ at'[u] = at[u]
      /\ w.took = writes[t].took /\ w.samples = writes[t].samples /\ w.listed = P!Total
  BY <1>0, <1>a DEF SampleTyped
<1>1. SampleTyped'
  <2>1. w \in Writers
    BY <1>0, <1>a, <1>b DEF Writers
  <2>2. writes' \in [Threads -> Writers]
    BY <1>a, <2>1 DEF SampleTyped
  <2> QED
    BY <1>0, <1>c, <2>2 DEF SampleTyped
<1>2. OneHasIt'
  BY <1>0, <1>c DEF OneHasIt, Has, Before
<1>3. ProbesLead'
  BY <1>0, SameSlots
<1>4. AddsUp'
  BY <1>0, <1>c, SameSlots DEF AddsUp
<1>5. WritesAgree'
  BY <1>0, <1>b, <1>c DEF WritesAgree, AddsUp
<1>6. FrameIsListed'
  BY <1>0, <1>c DEF FrameIsListed, P!FramesAreExact, SampleTyped, P!TableConstants
<1> QED
  BY <1>1, <1>2, <1>3, <1>4, <1>5, <1>6

(* The game's thread ends a frame, and lets no sample in.                  *)
LEMMA ReadsKeeps ==
  ASSUME P!TableConstants, ProfileInv, P!Reads
  PROVE  ProfileInv'
<1> USE DEF P!TableConstants, P!Reads, ProfileInv, P!table, P!frames, P!writing,
            P!Runs, P!Goes, P!NotSampling, P!MainAt, SampleTyped
<1>1. SampleTyped'
  BY DEF Before, Writers
<1>2. OneHasIt'
  BY DEF OneHasIt, Has, Before
<1>3. ProbesLead'
  BY SameSlots
<1>4. AddsUp'
  BY DEF AddsUp, P!Used, P!Counted, OneHasIt, Has, Before
<1>5. WritesAgree'
  BY DEF WritesAgree, OneHasIt, Has, Before, AddsUp, P!Total
<1>6. FrameIsListed'
  BY DEF FrameIsListed, P!FramesAreExact, P!Appends
<1> QED
  BY <1>1, <1>2, <1>3, <1>4, <1>5, <1>6

(* It reports it.                                                          *)
LEMMA ReportsKeeps ==
  ASSUME P!TableConstants, ProfileInv, P!Reports
  PROVE  ProfileInv'
<1> USE DEF P!TableConstants, P!Reports, ProfileInv, P!table, P!frames, P!writing,
            P!Runs, P!MainAt, SampleTyped
<1>1. SampleTyped'
  BY DEF Before, Writers
<1>2. OneHasIt'
  BY DEF OneHasIt, Has, Before
<1>3. ProbesLead'
  BY SameSlots
<1>4. AddsUp'
  BY SameSlots DEF AddsUp, Before, OneHasIt
<1>5. WritesAgree'
  BY DEF WritesAgree, OneHasIt, Has, Before, AddsUp, P!Total
<1>6. FrameIsListed'
  BY DEF FrameIsListed, P!FramesAreExact, P!Appends
<1> QED
  BY <1>1, <1>2, <1>3, <1>4, <1>5, <1>6

(* It empties the list.                                                    *)
LEMMA EmptiesKeeps ==
  ASSUME P!TableConstants, ProfileInv, P!Empties
  PROVE  ProfileInv'
<1> USE DEF P!TableConstants, P!Empties, ProfileInv, P!table, P!frames, P!writing,
            P!Runs, P!Goes, P!NotSampling, P!MainAt, SampleTyped
<1>1. SampleTyped'
  BY DEF Before, Writers
<1>2. OneHasIt'
  BY DEF OneHasIt, Has, Before
<1>3. ProbesLead'
  BY SameSlots
<1>4. AddsUp'
  BY DEF AddsUp, P!Used, P!Counted, OneHasIt, Has, Before
<1>5. WritesAgree'
  BY DEF WritesAgree, OneHasIt, Has, Before, AddsUp, P!Total
<1>6. FrameIsListed'
  BY DEF FrameIsListed, P!FramesAreExact, P!Appends
<1> QED
  BY <1>1, <1>2, <1>3, <1>4, <1>5, <1>6

(* It lets samples in.                                                     *)
LEMMA FrameKeeps ==
  ASSUME P!TableConstants, ProfileInv, P!frame_Ends
  PROVE  ProfileInv'
<1> USE DEF P!TableConstants, P!frame_Ends, ProfileInv, P!table, P!frames, P!writing,
            P!Runs, P!Goes, P!NotSampling, P!MainAt, SampleTyped
<1>1. SampleTyped'
  BY DEF Before, Writers
<1>2. OneHasIt'
  BY DEF OneHasIt, Has, Before
<1>3. ProbesLead'
  BY SameSlots
<1>4. AddsUp'
  BY DEF AddsUp, P!Used, P!Counted, OneHasIt, Has, Before
<1>5. WritesAgree'
  BY DEF WritesAgree, OneHasIt, Has, Before, AddsUp, P!Total
<1>6. FrameIsListed'
  BY DEF FrameIsListed, P!FramesAreExact, P!Appends
<1> QED
  BY <1>1, <1>2, <1>3, <1>4, <1>5, <1>6

(* Nothing is sampled yet.                                                 *)
LEMMA ProfileStarts == ASSUME P!TableConstants PROVE P!Init => ProfileInv
<1> SUFFICES ASSUME P!Init
             PROVE  ProfileInv
  OBVIOUS
<1> USE DEF P!Init
<1>1. /\ \A s \in P!Slots : slots[s].count = 0
      /\ \A t \in Threads : handler[t].step = "none" /\ ~writes[t].took /\ at[t] = "game"
  BY DEF P!Free, P!NotSampling
<1>2. SampleTyped
  <2>1. slots \in [P!Slots -> [place : Places \cup {"none"}, thread : Threads \cup {"none"}, count : Nat]]
    BY DEF P!Free
  <2>2. handler \in [Threads -> {P!NotSampling} \cup [step : Stages, place : Places]]
    OBVIOUS
  <2>3. writes \in [Threads -> Writers]
    BY DEF Writers
  <2>4. at \in [Threads -> Before \cup {"header", "table", "gone"}]
    BY DEF Before
  <2>5. \A s \in P!Slots : ~(slots[s].count > 0)
    BY <1>1
  <2> QED
    BY <1>1, <2>1, <2>2, <2>3, <2>4, <2>5 DEF SampleTyped, Stages
<1>3. P!Counted = {} /\ P!Used = {}
  BY <1>1 DEF P!Counted, P!Used
<1>4. AddsUp
  BY <1>1, <1>3, FS_EmptySet DEF AddsUp
<1>5. ProbesLead
  BY <1>3 DEF ProbesLead
<1>6. OneHasIt /\ WritesAgree
  BY <1>1 DEF OneHasIt, WritesAgree, Has
<1>7. FrameIsListed
  BY <1>1 DEF FrameIsListed, P!FramesAreExact, P!TableConstants
<1> QED
  BY <1>2, <1>4, <1>5, <1>6, <1>7 DEF ProfileInv

(* Any step.                                                               *)
LEMMA ProfileKeeps == ASSUME P!TableConstants PROVE ProfileInv /\ [P!Next]_(P!vars) => ProfileInv'
<1> SUFFICES ASSUME ProfileInv, [P!Next]_(P!vars)
             PROVE  ProfileInv'
  OBVIOUS
<1>1. CASE UNCHANGED P!vars
  <2>1. /\ UNCHANGED <<slots, table_busy, slots_used, samples, at, handler, writes>>
        /\ UNCHANGED <<frame_samples, frame_reading, frame, reported>>
    BY <1>1 DEF P!vars, P!table, P!frames, P!writing
  <2>2. SampleTyped' /\ OneHasIt' /\ WritesAgree' /\ FrameIsListed'
    BY <2>1 DEF ProfileInv, SampleTyped, OneHasIt, Has, WritesAgree, FrameIsListed, P!FramesAreExact
  <2>3. AddsUp' /\ ProbesLead'
    BY <2>1, SameSlots DEF ProfileInv, AddsUp
  <2> QED
    BY <2>2, <2>3 DEF ProfileInv
<1> QED
  BY <1>1, SignalKeeps, TakesKeeps, FindsKeeps, CountsKeeps, SampleKeeps, EntersKeeps, WriteKeeps,
     TriesKeeps, HeadsKeeps, ListsKeeps, ReadsKeeps, ReportsKeeps, EmptiesKeeps, FrameKeeps
     DEF P!Next

(* What it says of the table: a place of a thread has one slot, for a      *)
(* probe finds the first that fits, and slots are never given up.          *)
LEMMA TableFollows == ASSUME P!TableConstants, ProfileInv PROVE P!TableIsExact
<1> USE DEF ProfileInv
<1>1. ~table_busy => P!Total = samples /\ P!Cardinality(P!Used) = slots_used
  BY DEF AddsUp, P!Total, P!Cardinality, Cardinality
<1>2. ASSUME NEW r \in P!Used, NEW s \in P!Used,
             slots[r].place = slots[s].place, slots[r].thread = slots[s].thread
      PROVE  r = s
  <2>1. PICK i \in 0..kProbes - 1 : Placed(r, i)
    BY DEF ProbesLead
  <2>2. PICK k \in 0..kProbes - 1 : Placed(s, k)
    BY DEF ProbesLead
  <2>3. ~(k \in 0..i - 1) /\ ~(i \in 0..k - 1)
    BY <1>2, <2>1, <2>2 DEF Placed
  <2>4. i = k
    BY <2>3 DEF P!TableConstants
  <2> QED
    BY <1>2, <2>1, <2>2, <2>4 DEF Placed
<1>3. \A t \in Threads : writes[t].took /\ at[t] = "gone" => writes[t].listed = writes[t].samples
  BY DEF WritesAgree
<1> QED
  BY <1>1, <1>2, <1>3 DEF P!TableIsExact

(* Though handlers drop what they may not wait for, and a thread may fault *)
(* in one, a table that nobody has adds up and has each place of a thread  *)
(* once, a profile written with the table taken is of one moment, and      *)
(* every frame's report has the samples taken in since the last.           *)
THEOREM SamplesAddUp == PartSpec => []SamplesAreExact
<1>1. PartInit => ProfileInv
  BY TableHasSlots, ProfileStarts DEF PartInit
<1>2. ProfileInv /\ [PartNext]_partVars => ProfileInv'
  <2>1. [PartNext]_partVars => [P!Next]_(P!vars)
    <3>1. UNCHANGED profileVars => UNCHANGED P!vars
      BY DEF profileVars, P!vars, P!table, P!frames, P!writing
    <3>2. PartNext => [P!Next]_(P!vars)
      BY <3>1 DEF PartNext
    <3>3. UNCHANGED partVars => UNCHANGED P!vars
      BY <3>1 DEF partVars
    <3> QED
      BY <3>2, <3>3
  <2> QED
    BY <2>1, TableHasSlots, ProfileKeeps
<1>3. ProfileInv => SamplesAreExact
  BY TableHasSlots, TableFollows
     DEF SamplesAreExact, P!SamplesAreExact, ProfileInv, FrameIsListed
<1> QED
  BY <1>1, <1>2, <1>3, PTL DEF PartSpec
=============================================================================
