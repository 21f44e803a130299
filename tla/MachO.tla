------------------------------- MODULE MachO -------------------------------
(***************************************************************************)
(* What mach-o.cc reads from a 32-bit image: where it has to be rebased,   *)
(* what it imports and where, and what it exports; from the opcodes and    *)
(* the trie of LC_DYLD_INFO, or, of a classic image, from its sections of  *)
(* indirect symbols, its relocations and its symbol table.                 *)
(*                                                                         *)
(* An instruction is an opcode with its immediate, the bytes of its LEB128 *)
(* operands and, where it has one, the name that trails it.  Types of      *)
(* rebases and flags of exports are left out: there is one of each.        *)
(***************************************************************************)
EXTENDS Integers, SequencesExt

CONSTANT Word   \* what the numbers of opcodes are taken modulo, for 2^64

ptrsize == 4
JumpSize == 5

(* The groups of 7 bits, the lowest first; of a signed number, the last    *)
(* group says whether it is negative.                                      *)
Groups(bytes) == FoldRight(LAMBDA byte, rest : (byte % 128) + 128 * rest, bytes, 0)
uleb128(bytes) == Groups(bytes) % Word
sleb128(bytes) ==
  Groups(Front(bytes))
    + (IF Last(bytes) >= 64 THEN Last(bytes) - 128 ELSE Last(bytes)) * 128^(Len(bytes) - 1)

-----------------------------------------------------------------------------
(* What both kinds of opcodes set for the rebases and binds to come.       *)
Opening == [seg_index |-> 0, seg_offset |-> 0, ordinal |-> 0, name |-> <<>>,
            addend |-> 0, done |-> FALSE, found |-> <<>>]

(* addRebase and addBind: each moves on by a pointer.                      *)
Add(segments, s) ==
  [s EXCEPT !.found = Append(@, [vmaddr |-> segments[s.seg_index + 1].vmaddr + s.seg_offset,
                                 name |-> s.name, ordinal |-> s.ordinal,
                                 addend |-> s.addend, how |-> "pointer"]),
            !.seg_offset = (@ + ptrsize) % Word]
Move(s, by) == [s EXCEPT !.seg_offset = (@ + by) % Word]
RECURSIVE Times(_, _, _, _)
Times(segments, s, count, skip) ==
  IF count = 0 THEN s
  ELSE Times(segments, Move(Add(segments, s), skip), count - 1, skip)

readRebaseOp(segments, s, i) ==
  LET u(k) == uleb128(i.args[k])
  IN CASE i.op = "DONE" -> [s EXCEPT !.done = TRUE]
       [] i.op = "SET_SEGMENT_AND_OFFSET_ULEB" ->
            [s EXCEPT !.seg_index = i.imm, !.seg_offset = u(1)]
       [] i.op = "ADD_ADDR_ULEB" -> Move(s, u(1))
       [] i.op = "ADD_ADDR_IMM_SCALED" -> Move(s, i.imm * ptrsize)
       [] i.op = "DO_REBASE_IMM_TIMES" -> Times(segments, s, i.imm, 0)
       [] i.op = "DO_REBASE_ULEB_TIMES" -> Times(segments, s, u(1), 0)
       [] i.op = "DO_REBASE_ADD_ADDR_ULEB" -> Times(segments, s, 1, u(1))
       [] i.op = "DO_REBASE_ULEB_TIMES_SKIPPING_ULEB" -> Times(segments, s, u(1), u(2))
       [] OTHER -> s

(* A done stream is padded.                                                *)
readRebase(segments, stream) ==
  FoldLeft(LAMBDA s, i : IF s.done THEN s ELSE readRebaseOp(segments, s, i),
           Opening, stream).found

(* In a stream of lazy binds every bind is followed by a DONE.             *)
readBindOp(segments, s, i) ==
  LET u(k) == uleb128(i.args[k])
  IN CASE i.op = "SET_DYLIB_ORDINAL_IMM" -> [s EXCEPT !.ordinal = i.imm]
       [] i.op = "SET_DYLIB_ORDINAL_ULEB" -> [s EXCEPT !.ordinal = u(1) % 256]
       [] i.op = "SET_DYLIB_SPECIAL_IMM" ->
            [s EXCEPT !.ordinal = IF i.imm = 0 THEN 0 ELSE 240 + i.imm]
       [] i.op = "SET_SYMBOL_TRAILING_FLAGS_IMM" -> [s EXCEPT !.name = i.symbol]
       [] i.op = "SET_ADDEND_SLEB" -> [s EXCEPT !.addend = sleb128(i.args[1])]
       [] i.op = "SET_SEGMENT_AND_OFFSET_ULEB" ->
            [s EXCEPT !.seg_index = i.imm, !.seg_offset = u(1)]
       [] i.op = "ADD_ADDR_ULEB" -> Move(s, u(1))
       [] i.op = "DO_BIND" -> Add(segments, s)
       [] i.op = "DO_BIND_ADD_ADDR_ULEB" -> Move(Add(segments, s), u(1))
       [] i.op = "DO_BIND_ADD_ADDR_IMM_SCALED" -> Move(Add(segments, s), i.imm * ptrsize)
       [] i.op = "DO_BIND_ULEB_TIMES_SKIPPING_ULEB" -> Times(segments, s, u(1), u(2))
       [] OTHER -> s
readBind(segments, stream) ==
  FoldLeft(LAMBDA s, i : readBindOp(segments, s, i), Opening, stream).found

(* The names along the edges from the trie's root, each from the lowest    *)
(* segment's address.                                                      *)
RECURSIVE readExport(_, _, _)
readExport(trie, at, name_buf) ==
  [i \in DOMAIN trie[at].terminal |-> [name |-> name_buf, addr |-> trie[at].terminal[i]]]
  \o FlattenSeq([c \in DOMAIN trie[at].children |->
       LET child == trie[at].children[c]
       IN readExport(trie, child.node, name_buf \o child.edge)])

-----------------------------------------------------------------------------
(* A section of indirect symbols: [addr, kind, entries]; an entry is       *)
(* "local", "absolute", or a "symbol" with its library's ordinal.          *)
EntryAt(section, i) ==
  section.addr + (i - 1) * (IF section.kind = "jump_table" THEN JumpSize ELSE ptrsize)
IndicesOf(section, Chosen(_)) ==
  SelectSeq([i \in DOMAIN section.entries |-> i], LAMBDA i : Chosen(section.entries[i]))

(* Where a non-lazy pointer is local, no relocation says that it moves.    *)
ClassicRebases(section) ==
  LET local == IndicesOf(section, LAMBDA e : section.kind = "non_lazy" /\ e.is = "local")
  IN [k \in DOMAIN local |-> [vmaddr |-> EntryAt(section, local[k])]]
ClassicBinds(section) ==
  LET symbols == IndicesOf(section, LAMBDA e : e.is = "symbol")
  IN [k \in DOMAIN symbols |->
        LET sym == section.entries[symbols[k]]
        IN [vmaddr |-> EntryAt(section, symbols[k]), name |-> sym.name,
            ordinal |-> sym.ordinal, addend |-> sym.value,
            how |-> IF section.kind = "jump_table" THEN "jump_table" ELSE "pointer"]]

Mapped(segments) == {i \in DOMAIN segments : segments[i].name # "__PAGEZERO"}
LowestOf(S) == CHOOSE x \in S : \A y \in S : x <= y
image_base(segments) == LowestOf({segments[i].vmaddr : i \in Mapped(segments)})

(* Faulty variant: an executable's and a library's base are the same.      *)
reloc_base_Lowest(file) == image_base(file.segments)

(* What relocations count from: with MH_SPLIT_SEGS, the first writable     *)
(* segment.                                                                *)
reloc_base(file) ==
  LET writable == {i \in DOMAIN file.segments : file.segments[i].writable}
  IN file.segments[IF file.split /\ writable # {} THEN LowestOf(writable) ELSE 1].vmaddr

(* A difference of two addresses, and what is relative to where it is,     *)
(* does not move.                                                          *)
LocalRelocations(file) ==
  LET moving == SelectSeq(file.local_relocations, LAMBDA r :
                  ~r.pcrel /\ r.type \notin {"PAIR", "SECTDIFF", "LOCAL_SECTDIFF"})
  IN [i \in DOMAIN moving |-> [vmaddr |-> reloc_base(file) + moving[i].address]]
ExternalRelocations(file) ==
  [i \in DOMAIN file.external_relocations |->
     LET r == file.external_relocations[i]
     IN [vmaddr |-> reloc_base(file) + r.address, name |-> r.symbol.name,
         ordinal |-> r.symbol.ordinal, addend |-> 0, how |-> "external_reloc"]]

(* A classic image's defined external symbols, as a trie would have them.  *)
ClassicExports(file) ==
  LET defined == SelectSeq(file.symbols, LAMBDA s : s.defined)
  IN [i \in DOMAIN defined |->
        [name |-> defined[i].name, addr |-> defined[i].value - image_base(file.segments)]]

Read(file) ==
  IF file.dyinfo
  THEN [rebases |-> readRebase(file.segments, file.rebase),
        binds |-> readBind(file.segments, file.bind)
                    \o readBind(file.segments, file.lazy_bind),
        exports |-> readExport(file.trie, <<>>, <<>>)]
  ELSE [rebases |-> FlattenSeq([i \in DOMAIN file.sections |-> ClassicRebases(file.sections[i])])
                      \o LocalRelocations(file),
        binds |-> FlattenSeq([i \in DOMAIN file.sections |-> ClassicBinds(file.sections[i])])
                    \o ExternalRelocations(file),
        exports |-> ClassicExports(file)]
=============================================================================
