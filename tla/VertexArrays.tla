---------------------------- MODULE VertexArrays ----------------------------
(***************************************************************************)
(* src/hle/gl_var.c: Apple's vertex array objects and vertex array ranges, *)
(* over buffer objects.                                                    *)
(*                                                                         *)
(* Memory that a game flushes in a cached range is copied to a buffer      *)
(* object, a span, and the arrays that point into it are given to GL as    *)
(* offsets into that buffer.  Where an array leads is kept with it until   *)
(* the layout changes (translated), what GL was given is mirrored          *)
(* (gpu.have, gpu.array_buffer), and the buffers of spans that go are kept *)
(* for later ones.                                                         *)
(*                                                                         *)
(* Left out: an array's size, type and stride, which go with its pointer;  *)
(* texture units; the ids of spans, which stand between span_map and a     *)
(* buffer; that layout_generation comes round after 2^32 changes; failing  *)
(* allocations.                                                            *)
(***************************************************************************)
EXTENDS VarRanges, FiniteSets
LOCAL INSTANCE SequencesExt

CONSTANTS Names,       \* of vertex array objects; 0 is the default object
          Slots,       \* the arrays of an object
          Blocks,      \* the <<pointer, length>> it makes ranges of, and flushes
          Pointers,    \* what the game sets arrays to
          MaxUnflushed,\* bytes it has written and not flushed
          MaxBuffers,  \* the buffer objects GL has memory for
          TakeMax,     \* the names vertex_array_range takes at once, 64
          Unknown      \* an array not looked up, or what a context had before

VARIABLES objects, bound,
          ranges,      \* each range's value is its object's name
          gpu,         \* the spans, the mirror, and what GL has
          behind,      \* addresses whose copy in a span is older than memory
          unflushed    \* addresses the game wrote since it last flushed them

vars == <<objects, bound, ranges, gpu, behind, unflushed>>

Null == 0
CLIENT == "GL_STORAGE_CLIENT_APPLE"
CACHED == "GL_STORAGE_CACHED_APPLE"
NoStore == [base |-> Null, length |-> 0]

(* An object as calloc and memset leave it, with the default hint.         *)
NewArray == [enabled |-> FALSE, set |-> FALSE, pointer |-> Null, translated |-> Unknown]
NewObject(named) ==
  [named |-> named, range_enabled |-> FALSE, hint |-> CLIENT,
   base |-> Null, length |-> 0, arrays |-> [s \in Slots |-> NewArray]]

object_of(name) == name = 0 \/ (name \in Names /\ objects[name].named)

-----------------------------------------------------------------------------
(* What GL has.  An array's place is a buffer and an offset, or 0 and the  *)
(* game's pointer; GL reads the buffer that is bound when it is set.       *)

bind_array_buffer(g, buffer) ==
  IF g.array_buffer = buffer THEN g
  ELSE [g EXCEPT !.array_buffer = buffer, !.bound_buffer = buffer]

buffer_data(g, base, length) ==
  IF g.bound_buffer \in DOMAIN g.store
  THEN [g EXCEPT !.store[g.bound_buffer] = [base |-> base, length |-> length]] ELSE g

(* Where GL is to read an array the game points at pointer.                *)
translate(objs, rs, g, pointer) ==
  LET range == hle_var_ranges_find(rs, pointer)
      span == hle_var_ranges_find(g.span_map, pointer)
      cached == \E r \in range : objs[r.value].range_enabled /\ objs[r.value].hint = CACHED
  IN IF pointer = Null \/ ~cached \/ span = {} THEN <<0, pointer>>
     ELSE LET s == CHOOSE s \in span : TRUE IN <<s.value, pointer - s.base>>

translate_array(objs, rs, g, a) ==
  IF a.set /\ a.translated = Unknown
  THEN [a EXCEPT !.translated = translate(objs, rs, g, a.pointer)] ELSE a

(* Gives GL want, which has been looked up, where it does not have it.     *)
apply(g, slot, want) ==
  LET place == want.translated
      p == IF ~want.set \/ g.have[slot].place = place THEN g
           ELSE LET b == bind_array_buffer(g, place[1])
                IN [b EXCEPT !.have[slot].place = place,
                             !.arrays[slot].place = <<b.bound_buffer, place[2]>>]
  IN IF p.have[slot].enabled = want.enabled THEN p
     ELSE [p EXCEPT !.have[slot].enabled = want.enabled,
                    !.arrays[slot].enabled = want.enabled]

(* The bound object's arrays looked up, and given to GL, from the tables   *)
(* as they are now.                                                        *)
apply_bound(objs, name, rs, g) ==
  LET arrays == [s \in Slots |-> translate_array(objs, rs, g, objs[name].arrays[s])]
  IN /\ objects' = [objs EXCEPT ![name].arrays = arrays]
     /\ gpu' = FoldLeft(LAMBDA h, s : apply(h, s, arrays[s]), g, SetToSeq(Slots))

layout_changed(objs) ==
  [n \in DOMAIN objs |->
     [objs[n] EXCEPT !.arrays = [s \in Slots |-> [@[s] EXCEPT !.translated = Unknown]]]]

-----------------------------------------------------------------------------
(* Spans and ranges                                                        *)

spare(g, buffer) ==
  buffer_data(bind_array_buffer([g EXCEPT !.spare_buffers = Append(@, buffer)], buffer),
              Null, 0)

(* A spare buffer, or a new one if GL gives any; 0 when it does not.       *)
take_buffer(g) ==
  IF g.spare_buffers # <<>> THEN {Last(g.spare_buffers)}
  ELSE {0} \cup {b \in 1..MaxBuffers : b = Len(g.span_map) + 1}

drop_spans(g, base, length) ==
  FoldLeft(LAMBDA h, t : spare(h, t.range.value),
           [g EXCEPT !.span_map = Kept(@, base, length)],
           Taken(g.span_map, base, length))

drop_spans_of(g, o) == IF o.length = 0 THEN g ELSE drop_spans(g, o.base, o.length)

Covered(g) == UNION {r.base..end_of(r) - 1 : r \in ToSet(g.span_map)}
(* The history, of addresses that are in a span.                           *)
Uploaded(from, to) ==
  /\ behind' = (behind \cap Covered(gpu')) \ from
  /\ unflushed' = (unflushed \cap Covered(gpu')) \ to
NothingUploaded == Uploaded({}, {})

NoRange(o) == [o EXCEPT !.base = Null, !.length = 0]

Told(taken) == {taken[i].range.value : i \in {i \in DOMAIN taken : i <= TakeMax}}

(* The bound object's range becomes length bytes at pointer, or none.      *)
(* Other objects' ranges there were memory that was freed and allocated    *)
(* again; the first TakeMax of them are told.                              *)
vertex_array_range(length, pointer) ==
  LET o == objects[bound]
      left == IF o.length = 0 THEN ranges ELSE hle_var_ranges_remove(ranges, o.base)
      dropped == drop_spans_of(gpu, o)
      given == length > 0 /\ pointer # Null
      taken == IF given THEN Taken(left, pointer, length) ELSE <<>>
      told == Told(taken)
      kept == IF given THEN Kept(left, pointer, length) ELSE left
      g == FoldLeft(LAMBDA h, n : drop_spans_of(h, objects[n]), dropped, SetToSeq(told))
      added == given /\ MayAdd(kept, pointer, length)
      changed == layout_changed([n \in DOMAIN objects |->
                   IF n \in told \cup {bound} THEN NoRange(objects[n]) ELSE objects[n]])
      objs == IF added THEN [changed EXCEPT ![bound].base = pointer, ![bound].length = length]
              ELSE changed
  IN /\ ranges' = IF added THEN hle_var_ranges_add(kept, pointer, length, bound) ELSE kept
     /\ apply_bound(objs, bound, ranges', g)
     /\ NothingUploaded /\ UNCHANGED bound

(* Uploads to the span that holds start..end - 1: whole, to a new store,   *)
(* or in place, which GL refuses past the store's end.                     *)
UploadInPlace(s, start, end) ==
  LET g == bind_array_buffer(gpu, s.value)
      inStore == end <= end_of(g.store[s.value])
  IN /\ gpu' = IF start = s.base /\ end = end_of(s) THEN buffer_data(g, s.base, s.length) ELSE g
     /\ Uploaded(IF inStore THEN start..end - 1 ELSE {}, start..end - 1)
     /\ UNCHANGED objects

(* Uploads to a new span, which covers the spans it touches; or GL refuses *)
(* the buffer, and what was there stays in the game's memory.              *)
UploadAnew(start, end) ==
  LET over == {t.range : t \in ToSet(Taken(gpu.span_map, start, end - start))}
      low == CHOOSE a \in {start} \cup {r.base : r \in over} :
               \A r \in over : a <= r.base /\ a <= start
      high == CHOOSE a \in {end} \cup {end_of(r) : r \in over} :
               \A r \in over : a >= end_of(r) /\ a >= end
      dropped == drop_spans(gpu, start, end - start)
      objs == IF over = {} THEN objects ELSE layout_changed(objects)
  IN \E buffer \in take_buffer(dropped), refused \in BOOLEAN :
       LET held == [dropped EXCEPT !.spare_buffers = SelectSeq(@, LAMBDA b : b # buffer)]
           given == bind_array_buffer(held, buffer)
           fails == buffer = 0 \/ refused \/ ~MayAdd(dropped.span_map, low, high - low)
           kept == IF buffer = 0 THEN given ELSE spare(given, buffer)
           made == [buffer_data(given, low, high - low) EXCEPT
                      !.span_map = hle_var_ranges_add(@, low, high - low, buffer)]
       IN /\ IF fails THEN apply_bound(objs, bound, ranges, kept)
             ELSE apply_bound(layout_changed(objs), bound, ranges, made)
          /\ Uploaded(low..high - 1, start..end - 1)

upload(start, end) ==
  LET found == {s \in hle_var_ranges_find(gpu.span_map, start) : end <= end_of(s)}
  IN \/ \E s \in found : UploadInPlace(s, start, end)
     \/ found = {} /\ UploadAnew(start, end)

(* A flush outside of every range, or of a range that is not cached, does  *)
(* nothing; one that reaches past its range stops at its end.              *)
flush_vertex_array_range(length, pointer) ==
  /\ length > 0 /\ pointer # Null
  /\ \E r \in hle_var_ranges_find(ranges, pointer) :
       LET asked == Wrapped(pointer + length)
           end == IF asked > end_of(r) \/ asked < pointer THEN end_of(r) ELSE asked
       IN objects[r.value].hint = CACHED /\ upload(pointer, end)
  /\ UNCHANGED <<bound, ranges>>

vertex_array_parameteri(hint) ==
  /\ objects[bound].hint # hint
  /\ apply_bound(layout_changed([objects EXCEPT ![bound].hint = hint]), bound, ranges,
                 IF hint = CACHED THEN gpu ELSE drop_spans_of(gpu, objects[bound]))
  /\ NothingUploaded /\ UNCHANGED <<bound, ranges>>

(* Faulty variant: the arrays are not looked up again.                     *)
set_range_enabled_Quiet(on) ==
  /\ objects[bound].range_enabled # on
  /\ apply_bound([objects EXCEPT ![bound].range_enabled = on], bound, ranges, gpu)
  /\ UNCHANGED <<bound, ranges, behind, unflushed>>

set_range_enabled(on) ==
  /\ objects[bound].range_enabled # on
  /\ apply_bound(layout_changed([objects EXCEPT ![bound].range_enabled = on]),
                 bound, ranges, gpu)
  /\ UNCHANGED <<bound, ranges, behind, unflushed>>

-----------------------------------------------------------------------------
(* Client arrays, and the objects that hold them                           *)

(* One array set to want, looked up and given to GL.                       *)
Set(slot, want) ==
  LET a == translate_array(objects, ranges, gpu, want)
  IN /\ objects' = [objects EXCEPT ![bound].arrays[slot] = a]
     /\ gpu' = apply(gpu, slot, a)
     /\ UNCHANGED <<bound, ranges, behind, unflushed>>

set_enabled(slot, on) ==
  Set(slot, [objects[bound].arrays[slot] EXCEPT !.enabled = on])

set_pointer(slot, pointer) ==
  Set(slot, [objects[bound].arrays[slot] EXCEPT
               !.set = TRUE, !.pointer = pointer, !.translated = Unknown])

gen_vertex_arrays ==
  /\ \E n \in Names : ~objects[n].named /\ objects' = [objects EXCEPT ![n] = NewObject(TRUE)]
  /\ UNCHANGED <<bound, ranges, gpu, behind, unflushed>>

bind_vertex_array(name) ==
  LET next == IF object_of(name) THEN name ELSE 0
  IN /\ next # bound
     /\ bound' = next
     /\ apply_bound(objects, next, ranges, gpu)
     /\ UNCHANGED <<ranges, behind, unflushed>>

delete_vertex_arrays(name) ==
  LET o == objects[name]
      gone == [objects EXCEPT ![name] = NewObject(FALSE)]
  IN /\ name # 0 /\ object_of(name)
     /\ ranges' = IF o.length = 0 THEN ranges ELSE hle_var_ranges_remove(ranges, o.base)
     /\ bound' = IF bound = name THEN 0 ELSE bound
     /\ apply_bound(IF o.length = 0 THEN gone ELSE layout_changed(gone), bound', ranges',
                    drop_spans_of(gpu, o))
     /\ NothingUploaded

(* Another context is current: it has arrays and a binding of its own.     *)
Forgotten == [s \in Slots |-> [enabled |-> Unknown, place |-> Unknown]]
hle_gl_var_context_changed ==
  /\ gpu' = [gpu EXCEPT !.have = Forgotten, !.array_buffer = Unknown,
                        !.arrays = Forgotten, !.bound_buffer = Unknown]
  /\ UNCHANGED <<objects, bound, ranges, behind, unflushed>>

(* The game writes to its memory.                                          *)
GameWrites(address) ==
  /\ Cardinality(unflushed \cup {address}) <= MaxUnflushed
  /\ behind' = behind \cup {address} /\ unflushed' = unflushed \cup {address}
  /\ UNCHANGED <<objects, bound, ranges, gpu>>

-----------------------------------------------------------------------------
Init ==
  /\ objects = [n \in Names \cup {0} |-> NewObject(FALSE)]
  /\ bound = 0 /\ ranges = <<>> /\ behind = {} /\ unflushed = {}
  /\ gpu = [span_map |-> <<>>, spare_buffers |-> <<>>, array_buffer |-> Unknown,
            have |-> Forgotten, bound_buffer |-> Unknown, arrays |-> Forgotten,
            store |-> [b \in 1..MaxBuffers |-> NoStore]]

Next ==
  \/ \E b \in Blocks : vertex_array_range(b[2], b[1]) \/ flush_vertex_array_range(b[2], b[1])
  \/ \E hint \in {CLIENT, CACHED} : vertex_array_parameteri(hint)
  \/ \E on \in BOOLEAN : set_range_enabled(on)
  \/ \E s \in Slots, on \in BOOLEAN : set_enabled(s, on)
  \/ \E s \in Slots, pointer \in Pointers : set_pointer(s, pointer)
  \/ gen_vertex_arrays
  \/ \E n \in Names \cup {0} : bind_vertex_array(n) \/ delete_vertex_arrays(n)
  \/ hle_gl_var_context_changed
  \/ \E a \in Covered(gpu) : GameWrites(a)

Spec == Init /\ [][Next]_vars

-----------------------------------------------------------------------------
BufferPlaces == ({0} \cup 1..MaxBuffers) \X Addresses
GLArrays == [Slots -> [enabled : BOOLEAN \cup {Unknown}, place : BufferPlaces \cup {Unknown}]]

TypeOK ==
  /\ bound \in Names \cup {0} /\ object_of(bound)
  /\ \A n \in DOMAIN objects : \A s \in Slots :
       objects[n].arrays[s].translated \in BufferPlaces \cup {Unknown}
  /\ gpu.have \in GLArrays /\ gpu.arrays \in GLArrays
  /\ behind \subseteq Covered(gpu) /\ unflushed \subseteq Covered(gpu)

(* An array that GL was given since the context became current leads where *)
(* the bound object's array leads by the ranges, spans, hints and enables  *)
(* of now, although most of the time nothing was looked up or said again;  *)
(* and GL has it enabled as the object does.                               *)
GLReadsTheArrays ==
  \A s \in Slots :
    LET a == objects[bound].arrays[s]
        has == gpu.arrays[s]
    IN /\ a.set /\ gpu.have[s].place # Unknown =>
            has.place = translate(objects, ranges, gpu, a.pointer)
       /\ gpu.have[s].enabled # Unknown => has.enabled = a.enabled

(* Whatever a span holds that differs from memory was written by the game  *)
(* since it last flushed there; a span's buffer has a store for the whole  *)
(* of it, and belongs to no other span, nor is it spare.                   *)
FlushedIsCurrent ==
  /\ behind \subseteq unflushed
  /\ \A i \in DOMAIN gpu.span_map :
       LET r == gpu.span_map[i]
       IN /\ gpu.store[r.value] = [base |-> r.base, length |-> r.length]
          /\ r.value \notin ToSet(gpu.spare_buffers)
          /\ \A j \in DOMAIN gpu.span_map : gpu.span_map[j].value = r.value => i = j

(* Both maps find exactly what was put there; the ranges are those of the  *)
(* objects that have one, and no span is outside of a cached range.        *)
RangesAreFound ==
  /\ FindsAll(ranges) /\ FindsAll(gpu.span_map)
  /\ ToSet(ranges) = {[base |-> objects[n].base, length |-> objects[n].length, value |-> n] :
                        n \in {n \in DOMAIN objects : objects[n].length > 0}}
  /\ \A s \in ToSet(gpu.span_map) : \E r \in ToSet(ranges) :
       r.base <= s.base /\ end_of(s) <= end_of(r) /\ objects[r.value].hint = CACHED
=============================================================================
