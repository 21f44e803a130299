----------------------------- MODULE MCImages ------------------------------
(***************************************************************************)
(* What the Mac's static linker writes, in the forms mach-o.cc reads: a    *)
(* program, whose memory's first page is empty, and libraries, each with a *)
(* page of code below its data.                                            *)
(*                                                                         *)
(* A slot is a word of the data at an offset, and what it means: [called,  *)
(* kind, target, name, addend], with lazy where it is bound so.            *)
(***************************************************************************)
EXTENDS MachO

Page == 4096
f == <<"f">>
h == <<"h">>
u == <<"u">>
v == <<"v">>
fg == <<"f", "g">>
hg == <<"h", "g">>
Offset == [n \in {f, fg, hg} |-> CASE n = f -> 16 [] n = fg -> 32 [] n = hg -> 48]

Segments(base, program) ==
  LET Segment(name, at, filesize, vmsize) ==
        [name |-> name, vmaddr |-> at, filesize |-> filesize, vmsize |-> vmsize,
         writable |-> name = "__DATA"]
  IN (IF program THEN <<Segment("__PAGEZERO", 0, 0, Page)>> ELSE <<>>)
       \o <<Segment("__TEXT", base, Page, Page),
            Segment("__DATA", base + Page, 300, Page + 300)>>

-----------------------------------------------------------------------------
RECURSIVE ULEB(_), SLEB(_)
ULEB(n) == IF n < 128 THEN <<n>> ELSE <<128 + (n % 128)>> \o ULEB(n \div 128)
SLEB(n) == IF n \in -64..63 THEN <<n % 128>> ELSE <<128 + (n % 128)>> \o SLEB(n \div 128)

Instruction(op, imm, args) == [op |-> op, imm |-> imm, args |-> args, symbol |-> <<>>]
Uses(op, number) == Instruction(op, 0, <<ULEB(number % Word)>>)
Symbol(name) ==
  [Instruction("SET_SYMBOL_TRAILING_FLAGS_IMM", 0, <<>>) EXCEPT !.symbol = name]

(* How far from behind one slot to the next, which may be below.           *)
Gap(slots, i) == (slots[i + 1].at - slots[i].at - ptrsize) % Word
IsFew(gap) == gap % ptrsize = 0 /\ gap \div ptrsize < 16

(* The ways to say the same places; Before is what a bind needs set.       *)
Ways == {"each", "add", "scaled", "fused", "times"}
Stream(binds, segment, slots, way, Before(_)) ==
  LET n == Len(slots)
      gap(i) == Gap(slots, i)
      Begin(i) == <<Instruction("SET_SEGMENT_AND_OFFSET_ULEB", segment, <<ULEB(slots[i].at)>>)>>
      One == IF binds THEN Instruction("DO_BIND", 0, <<>>)
             ELSE Instruction("DO_REBASE_IMM_TIMES", 1, <<>>)
      Fused(by) == Uses(IF binds THEN "DO_BIND_ADD_ADDR_ULEB" ELSE "DO_REBASE_ADD_ADDR_ULEB", by)
      Scaled(by) == IF binds THEN <<Instruction("DO_BIND_ADD_ADDR_IMM_SCALED", by, <<>>)>>
                    ELSE <<One, Instruction("ADD_ADDR_IMM_SCALED", by, <<>>)>>
      Skipping(by) == Instruction(IF binds THEN "DO_BIND_ULEB_TIMES_SKIPPING_ULEB"
                                  ELSE "DO_REBASE_ULEB_TIMES_SKIPPING_ULEB",
                                  0, <<ULEB(n), ULEB(by)>>)
      alike == n > 1 /\ \A i \in 2..n : Before(i) = <<>> /\ gap(i - 1) = gap(1)
      Next(i) ==
        CASE i = n -> <<One>>
          [] way = "fused" -> <<Fused(gap(i))>>
          [] way = "scaled" /\ IsFew(gap(i)) -> Scaled(gap(i) \div ptrsize)
          [] OTHER -> <<One, Uses("ADD_ADDR_ULEB", gap(i))>>
  IN CASE slots = <<>> -> <<>>
       [] way = "times" /\ alike ->
            Before(1) \o Begin(1)
              \o (IF gap(1) = 0 /\ ~binds THEN <<Uses("DO_REBASE_ULEB_TIMES", n)>>
                  ELSE <<Skipping(gap(1))>>)
       [] way \in {"each", "times"} ->
            FlattenSeq([i \in 1..n |-> Before(i) \o Begin(i) \o <<One>>])
       [] OTHER -> Begin(1) \o FlattenSeq([i \in 1..n |-> Before(i) \o Next(i)])
Done == <<Instruction("DONE", 0, <<>>)>>
Rebases(segment, slots, way) ==
  Stream(FALSE, segment, slots, way, LAMBDA i : <<>>) \o Done

(* What has changed from one bind to the next is set again.                *)
Settings(slots, i, Ordinal(_)) ==
  LET New(field) == i = 1 \/ slots[i].means[field] # slots[i - 1].means[field]
      ordinal == Ordinal(slots[i].means)
  IN (IF i > 1 /\ Ordinal(slots[i - 1].means) = ordinal THEN <<>>
      ELSE IF ordinal = 0 THEN <<Instruction("SET_DYLIB_SPECIAL_IMM", 0, <<>>)>>
      ELSE IF ordinal = 1 THEN <<Instruction("SET_DYLIB_ORDINAL_IMM", 1, <<>>)>>
      ELSE <<Uses("SET_DYLIB_ORDINAL_ULEB", ordinal)>>)
     \o (IF New("name") THEN <<Symbol(slots[i].means.name)>> ELSE <<>>)
     \o (IF New("addend")
         THEN <<Instruction("SET_ADDEND_SLEB", 0, <<SLEB(slots[i].means.addend)>>)>> ELSE <<>>)

Binds(segment, slots, way, Ordinal(_)) ==
  Stream(TRUE, segment, slots, way, LAMBDA i : Settings(slots, i, Ordinal))
LazyBinds(segment, slots, Ordinal(_)) ==
  FlattenSeq([i \in DOMAIN slots |->
    Binds(segment, <<slots[i]>>, "each", Ordinal) \o Done])

(* Nodes for the names, the root and any other prefixes.                   *)
Trie(names, others) ==
  LET nodes == DOMAIN names \cup {<<>>} \cup others
      Below(n) == {m \in nodes : IsStrictPrefix(n, m)}
      Children(n) == {m \in Below(n) : ~\E k \in Below(n) : IsStrictPrefix(k, m)}
  IN [n \in nodes |->
        [terminal |-> IF n \in DOMAIN names THEN <<names[n]>> ELSE <<>>,
         children |-> LET kids == SetToSeq(Children(n))
                      IN [i \in DOMAIN kids |->
                            [node |-> kids[i], edge |-> SubSeq(kids[i], Len(n) + 1, Len(kids[i]))]]]]

-----------------------------------------------------------------------------
(* A lazy pointer leads to the code that binds it, until it is bound.      *)
Moves(slot) == slot.means.kind = "local" \/ slot.lazy
IsImport(slot) == slot.means.kind \in {"system", "library", "undefined"}
Content(slot, base, in_place) ==
  CASE slot.means.called -> 0
    [] slot.lazy -> base + 64
    [] slot.means.kind \in {"local", "number"} -> slot.means.target
    [] in_place -> slot.means.addend
    [] OTHER -> 0
Words(base, slots, InPlace(_)) ==
  [at \in {base + Page + s.at : s \in ToSet(slots)} |->
     LET s == CHOOSE s \in ToSet(slots) : base + Page + s.at = at
     IN Content(s, base, InPlace(s))]
Meanings(base, slots) ==
  [at \in {base + Page + s.at : s \in ToSet(slots)} |->
     (CHOOSE s \in ToSet(slots) : base + Page + s.at = at).means]

(* The program loads the system and one library, which loads the system.   *)
OrdinalIn(program, means) == IF means.kind # "library" THEN 1 ELSE IF program THEN 2 ELSE 0
LoadedBy(program) == IF program THEN <<0, 2>> ELSE <<0>>

Compressed(program, base, slots, way, others) ==
  LET data == IF program THEN 2 ELSE 1
      Ordinal(means) == OrdinalIn(program, means)
  IN [dyinfo |-> TRUE, segments |-> Segments(base, program), libraries |-> LoadedBy(program),
      rebase |-> Rebases(data, SelectSeq(slots, Moves), way),
      bind |-> Binds(data, SelectSeq(slots, LAMBDA s : IsImport(s) /\ ~s.lazy), way, Ordinal),
      lazy_bind |-> LazyBinds(data, SelectSeq(slots, LAMBDA s : s.lazy), Ordinal),
      trie |-> IF program THEN Trie(<<>>, {}) ELSE Trie(Offset, others),
      words |-> Words(base, slots, LAMBDA s : FALSE), means |-> Meanings(base, slots)]

(* A section holds the slots of its kind, one after the other; what is in  *)
(* none has relocations.                                                   *)
SectionOf(program, base, kind, slots) ==
  [addr |-> base + Page + slots[1].at, kind |-> kind,
   entries |-> [i \in DOMAIN slots |->
     LET m == slots[i].means
     IN [is |-> CASE m.kind = "local" -> "local"
                  [] m.kind = "number" -> "absolute"
                  [] OTHER -> "symbol",
         name |-> m.name, ordinal |-> OrdinalIn(program, m), value |-> 0]]]
Classic(program, base, split, data, sections) ==
  LET counted == IF split THEN base + Page ELSE IF program THEN 0 ELSE base
      Address(s) == base + Page + s.at - counted
      In(kind) == SelectSeq(sections, LAMBDA s : s.section = kind)
      kinds == SelectSeq(<<"non_lazy", "lazy", "jump_table">>, LAMBDA k : In(k) # <<>>)
      all == data \o sections
      moves == SelectSeq(all, LAMBDA s : (Moves(s) /\ s.section # "non_lazy") \/ s.section = "difference")
      imports == SelectSeq(data, IsImport)
  IN [dyinfo |-> FALSE, segments |-> Segments(base, program), libraries |-> LoadedBy(program),
      split |-> split,
      sections |-> [k \in DOMAIN kinds |-> SectionOf(program, base, kinds[k], In(kinds[k]))],
      local_relocations |-> FlattenSeq([i \in DOMAIN moves |->
         LET Relocation(type) == [address |-> Address(moves[i]), pcrel |-> FALSE, type |-> type]
         IN CASE moves[i].section = "difference" -> <<Relocation("SECTDIFF"), Relocation("PAIR")>>
              [] moves[i].lazy -> <<Relocation("PB_LA_PTR")>>
              [] OTHER -> <<Relocation("VANILLA")>>]),
      external_relocations |-> [i \in DOMAIN imports |->
         [address |-> Address(imports[i]),
          symbol |-> [name |-> imports[i].means.name,
                      ordinal |-> OrdinalIn(program, imports[i].means)]]],
      symbols |-> IF program THEN <<>>
                  ELSE <<[name |-> f, defined |-> TRUE, value |-> base + Offset[f]],
                         [name |-> hg, defined |-> FALSE, value |-> 0],
                         [name |-> fg, defined |-> TRUE, value |-> base + Offset[fg]]>>,
      words |-> Words(base, all, LAMBDA s : s.section = "none"), means |-> Meanings(base, all)]

-----------------------------------------------------------------------------
(* The slots the instances are made of.                                    *)
Means(kind, target, name, addend) ==
  [called |-> FALSE, kind |-> kind, target |-> target, name |-> name, addend |-> addend]
At(at, means, section, lazy) == [at |-> at, means |-> means, section |-> section, lazy |-> lazy]
Local(base) == Means("local", base + 80, <<>>, 0)
Number == Means("number", 7, <<>>, 0)
FromSystem(addend) == Means("system", 0, <<"s">>, addend)
Exported(base, name, addend) == Means("library", base + Offset[name], name, addend)
Missing(name, addend) == Means("undefined", 0, name, addend)
Called(means) == [means EXCEPT !.called = TRUE]

(* Data at even and uneven distances, one of them of two groups of bits.   *)
Spacings == {<<0, 4, 8>>, <<4, 20, 36>>, <<0, 132, 140>>}
Eager(means) == At(0, means, "none", FALSE)
Lazy(means) == At(0, means, "none", TRUE)
Pointers(base, library) ==
  {Eager(Local(base)), Eager(Number), Eager(FromSystem(-4)), Lazy(Missing(u, 0))}
ImportsOnly(library) ==
  {Eager(FromSystem(200)), Eager(Exported(library, f, 0)),
   Eager(Exported(library, fg, 8)), Eager(Missing(u, 8))}
CompressedOf(program, base, library, spacings, ways, choices) ==
  {Compressed(program, base, [i \in 1..3 |-> [c[i] EXCEPT !.at = spacing[i]]], way, {h}) :
     spacing \in spacings, c \in [1..3 -> choices], way \in ways}

(* A classic image's words of data, and its sections.                      *)
ClassicData(base, library) ==
  {At(0, m, "none", FALSE) :
     m \in {Local(base), Number, FromSystem(-4), Exported(library, f, 8), Missing(u, 8)}}
  \cup {At(0, Number, "difference", FALSE)}
Entries(base, library) ==
  {Local(base), Number, FromSystem(0), Exported(library, fg, 0), Missing(v, 0)}
Stubs(library) ==
  {Called(FromSystem(0)), Called(Exported(library, f, 0)), Called(Missing(u, 0))}
Sections(entries, lazy, stubs) ==
  <<At(16, entries[1], "non_lazy", FALSE), At(20, entries[2], "non_lazy", FALSE),
    At(24, lazy, "lazy", TRUE),
    At(40, stubs[1], "jump_table", FALSE), At(45, stubs[2], "jump_table", FALSE)>>
SomeSections(base, library) ==
  Sections(<<Local(base), FromSystem(0)>>, FromSystem(0),
           <<Called(FromSystem(0)), Called(Exported(library, f, 0))>>)
ClassicOf(program, base, library, split) ==
  {Classic(program, base, split, <<d[1], [d[2] EXCEPT !.at = 4]>>,
           SomeSections(base, library)) : d \in [1..2 -> ClassicData(base, library)]}
ClassicSections(program, base, library) ==
  {Classic(program, base, FALSE, <<Eager(Local(base))>>,
           Sections(e, FromSystem(0), <<s, Called(Missing(u, 0))>>)) :
     e \in [1..2 -> Entries(base, library)], s \in Stubs(library)}

(* A library linked at 0, as those of games are, in the middle of the      *)
(* program, or out of its way; and another one after it.                   *)
Bases == {0, 2 * Page, 16 * Page}
SomeLibrary(base) == Compressed(FALSE, base, <<Eager(Local(base))>>, "each", {h})
SomeProgram(library) ==
  Compressed(TRUE, Page, <<Eager(Exported(library, fg, 0))>>, "each", {})
MachPrograms ==
  {<<p, SomeLibrary(0)>> :
     p \in CompressedOf(TRUE, Page, 0, Spacings, Ways, Pointers(Page, 0))
             \cup CompressedOf(TRUE, Page, 0, {<<0, 4, 8>>}, Ways, ImportsOnly(0))
             \cup ClassicOf(TRUE, Page, 0, TRUE) \cup ClassicOf(TRUE, Page, 0, FALSE)
             \cup ClassicSections(TRUE, Page, 0)}
  \cup UNION {{<<SomeProgram(base), l, SomeLibrary(other)>> :
                 other \in {0, 17 * Page},
                 l \in ClassicOf(FALSE, base, base, FALSE)
                        \cup CompressedOf(FALSE, base, base, {<<0, 4, 8>>}, {"add"},
                                         Pointers(base, base))} :
               base \in Bases}
=============================================================================
