------------------------------- MODULE MachImages -----------------------------
(***************************************************************************)
(* Images in memory: where ld-mac.cc maps the segments of a program and of *)
(* the libraries it loads, and what it makes of the pointers in them.      *)
(*                                                                         *)
(* Memory is the words that hold addresses, and the stubs, whose content   *)
(* is how far they jump.  Which library an import binds in, weak symbols   *)
(* and initializers are the Loader's and WeakBinds'.                       *)
(***************************************************************************)
EXTENDS MachO, FiniteSets, TLC

CONSTANTS Programs,      \* what may be run: sequences of the Mach-O files
                         \* mapped one after the other, the program first
          LinuxHas,      \* the addresses of what Linux has, by name
          UndefinedBase  \* where the region of undefined symbols is

VARIABLES files,            \* the program that runs
          placed,           \* slide, base and exports of the images mapped
          last_addr_,
          mappings,         \* the ranges that were mapped
          memory,
          linked,           \* how many images were bound
          undefined_names,
          stopped           \* the loader gave up

vars == <<files, placed, last_addr_, mappings, memory, linked, undefined_names, stopped>>

PageSize == 4096
kUndefinedSlot == 16
alignMem(p, a) == ((p + a - 1) \div a) * a
Larger(x, y) == IF x > y THEN x ELSE y
Pages(from, to) == [from |-> from, to |-> to]
Meet(r, s) == r.from < s.to /\ s.from < r.to

Init ==
  /\ files \in Programs
  /\ placed = <<>> /\ last_addr_ = 0 /\ mappings = <<>> /\ memory = <<>>
  /\ linked = 0 /\ undefined_names = <<>> /\ stopped = FALSE

(* One segment: the file's part of it, and the rest.  A segment that       *)
(* begins below what is mapped moves the whole image, if it is the first;  *)
(* MAP_FIXED_NOREPLACE refuses one that meets another.                     *)
MapSegment(m, segments, i) ==
  LET seg == segments[i]
      slid == seg.vmaddr + m.slide
      below == slid < m.last
      vmaddr == IF below THEN m.last ELSE slid
      whole == Pages(vmaddr, vmaddr + alignMem(seg.vmsize, PageSize))
  IN IF seg.name = "__PAGEZERO" \/ m.failed THEN m
     ELSE [slide |-> IF below THEN vmaddr - seg.vmaddr ELSE m.slide,
           base |-> IF m.base = <<>> \/ vmaddr < m.base[1] THEN <<vmaddr>> ELSE m.base,
           last |-> IF seg.filesize = 0 THEN m.last ELSE Larger(m.last, whole.to),
           ranges |-> IF seg.filesize = 0 THEN m.ranges ELSE Append(m.ranges, whole),
           failed |-> \/ below /\ i # 1
                      \/ seg.filesize # 0 /\ \E r \in ToSet(m.ranges) : Meet(r, whole)]
loadSegments(segments) ==
  FoldLeft(LAMBDA m, i : MapSegment(m, segments, i),
           [slide |-> 0, base |-> <<>>, last |-> last_addr_, ranges |-> mappings,
            failed |-> FALSE],
           [i \in DOMAIN segments |-> i])

(* What the file has at the words of the image's, moved as a whole.        *)
Contents(file, slide) ==
  [at \in {w + slide : w \in DOMAIN file.words} |-> file.words[at - slide]]
doRebase(mem, rebases, slide) ==
  FoldLeft(LAMBDA m, r : [m EXCEPT ![r.vmaddr + slide] = @ + slide], mem, rebases)

(* mapImage, for the next of the files.                                    *)
mapImage ==
  /\ ~stopped /\ Len(placed) < Len(files)
  /\ LET file == files[Len(placed) + 1]
         m == loadSegments(file.segments)
         read == Read(file)
     IN /\ stopped' = m.failed
        /\ last_addr_' = m.last /\ mappings' = m.ranges
        /\ memory' = doRebase(memory @@ Contents(file, m.slide), read.rebases, m.slide)
        /\ placed' = Append(placed,
             [slide |-> m.slide, base |-> m.base[1], binds |-> read.binds,
              exports |-> [i \in DOMAIN read.exports |->
                 [read.exports[i] EXCEPT !.addr = @ + m.base[1]]]])
  /\ UNCHANGED <<files, linked, undefined_names>>

-----------------------------------------------------------------------------
(* A slot of the region for each name that nothing provides.               *)
IndexIn(names, name) == CHOOSE i \in DOMAIN names : names[i] = name
Named(names, name) == IF name \in ToSet(names) THEN names ELSE Append(names, name)
undefinedSymbolAddress(names, name) ==
  UndefinedBase + (IndexIn(names, name) - 1) * kUndefinedSlot
undefinedSymbolAt(addr) ==
  LET index == (addr - UndefinedBase) \div kUndefinedSlot + 1
  IN IF addr >= UndefinedBase /\ index \in DOMAIN undefined_names
     THEN <<undefined_names[index]>> ELSE <<>>

(* The definition in the library the ordinal names, or Linux's.            *)
Defined(image, b) ==
  LET from == IF b.ordinal = 0 THEN image ELSE files[image].libraries[b.ordinal]
      found == IF from = 0 THEN {}
               ELSE {e \in ToSet(placed[from].exports) : e.name = b.name}
  IN IF found # {} THEN {e.addr : e \in found}
     ELSE {LinuxHas[n] : n \in {b.name} \cap DOMAIN LinuxHas}

Bind(l, image, b) ==
  LET defined == Defined(image, b)
      names == IF defined = {} THEN Named(l.names, b.name) ELSE l.names
      sym == (IF defined = {} THEN undefinedSymbolAddress(names, b.name)
              ELSE CHOOSE d \in defined : TRUE) + b.addend
      ptr == b.vmaddr + placed[image].slide
  IN [names |-> names,
      mem |-> [l.mem EXCEPT ![ptr] =
                 CASE b.how = "jump_table" -> sym - (ptr + JumpSize)
                   [] b.how = "external_reloc" -> @ + sym
                   [] b.how = "pointer" -> sym]]

(* Once every image is mapped, one after the other; the program, which is  *)
(* queued behind its libraries, is the last.                               *)
Turn(n) == (n % Len(files)) + 1
doBind ==
  /\ ~stopped /\ Len(placed) = Len(files) /\ linked < Len(files)
  /\ LET image == Turn(linked + 1)
         l == FoldLeft(LAMBDA l, b : Bind(l, image, b),
                       [mem |-> memory, names |-> undefined_names], placed[image].binds)
     IN memory' = l.mem /\ undefined_names' = l.names /\ linked' = linked + 1
  /\ UNCHANGED <<files, placed, last_addr_, mappings, stopped>>

Next == mapImage \/ doBind
Spec == Init /\ [][Next]_vars

-----------------------------------------------------------------------------
TypeOK ==
  /\ linked \in 0..Len(files) /\ Len(placed) <= Len(files)
  /\ linked > 0 => Len(placed) = Len(files)
  /\ stopped \in BOOLEAN /\ last_addr_ \in Nat

(* What a pointer of the program says, it says wherever its image was      *)
(* mapped and however the file says so: an address of the image moves with *)
(* it, once; an import is where its symbol is, an addend behind it, and    *)
(* names it if nothing provides it; and a number stays.                    *)
Leads(image, at, means) ==
  LET ptr == at + placed[image].slide
      leads == IF means.called THEN ptr + JumpSize + memory[ptr] ELSE memory[ptr]
  IN CASE means.kind = "local" -> leads = means.target + placed[image].slide
       [] means.kind = "number" -> leads = means.target
       [] means.kind = "system" -> leads = LinuxHas[means.name] + means.addend
       [] means.kind = "library" -> leads = means.target + placed[2].slide + means.addend
       [] means.kind = "undefined" -> undefinedSymbolAt(leads) = <<means.name>>
PointersLead ==
  \A image \in {Turn(n) : n \in 1..linked} : \A at \in DOMAIN files[image].means :
    Leads(image, at, files[image].means[at])

(* No two images are in one place, nor does any stop the program: the      *)
(* next one goes above all that are mapped, or where it was linked.        *)
ImagesAreApart ==
  /\ ~stopped
  /\ \A i, j \in DOMAIN mappings : i # j => ~Meet(mappings[i], mappings[j])
=============================================================================
