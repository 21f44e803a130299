------------------------------- MODULE MCFiles -------------------------------
(***************************************************************************)
(* Instances of Loader, MachImages, Catalog, ClassicNames, Collections,    *)
(* Strings, Plists, Signatures and Dialogs for TLC, with those FileParts   *)
(* has: what the program reads from files and writes to them, and the      *)
(* objects that hold it.                                                   *)
(*                                                                         *)
(* Loader decides where every symbol binds but the weak ones, which a      *)
(* table of their own decides on, and MachImages what is written there.    *)
(* Each is run by itself, and the initial states choose which.             *)
(***************************************************************************)
EXTENDS Loader, FileParts, SequencesExt, TLC

CONSTANTS Parts, a, b, Word, UndefinedBase

VARIABLES plist, text, read, objects, owned,
          volume, volume_companions, volume_forked,
          node_paths, default_dir_id, specs,
          str, want,
          ctx, message, given,
          program, placed, last_addr_, mappings, memory, linked, undefined_names, stopped,
          dialog_text, dialogs, last_filled_id, alert_after_fill, player, computed

plistVars == <<plist, text, read>>
objectVars == <<objects, owned>>
nameVars == <<volume, volume_companions, volume_forked, node_paths, default_dir_id, specs>>
stringVars == <<str, want>>
signatureVars == <<ctx, message, given>>
imageVars == <<program, placed, last_addr_, mappings, memory, linked,
               undefined_names, stopped>>
dialogVars == <<dialog_text, dialogs, last_filled_id, alert_after_fill, player, computed>>
partVars == <<filesVars, vars, plistVars, objectVars, nameVars, stringVars,
              signatureVars, imageVars, dialogVars>>

(* What the libraries' load commands may list.                             *)
Two == {<<>>, <<a>>, <<b>>, <<System, a>>, <<b, a>>}
OneBack == {-1}
EitherThread == Permutations(Threads)

(* Values of every kind; data of every length up to two groups of three    *)
(* bytes; and arrays and dictionaries, nested up to one level too deep.    *)
String(characters) == [kind |-> "string", text |-> characters]
List(items) == [kind |-> "array", items |-> items]
Entry(key, value) == [key |-> key, value |-> value]
Dict(pairs) == [kind |-> "dict", pairs |-> pairs]
Other == [kind |-> "other"]
Leaves ==
  {String(s) : s \in {<<>>, <<"a">>, <<"&", "a", ";", "<">>, <<"<", "/", ">">>}}
  \cup {[kind |-> k, number |-> <<"-", "1">>] : k \in {"integer", "real"}}
  \cup {[kind |-> "boolean", truth |-> t] : t \in BOOLEAN}
  \cup {[kind |-> "data", bytes |-> s] : s \in BoundedSeq({1, 255}, 4)}
  \cup {Other}
Few == {String(<<"&">>), [kind |-> "boolean", truth |-> TRUE], Other}
Keys == {String(<<"a">>), String(<<"&">>), Other}
Flat ==
  {List(s) : s \in BoundedSeq(Few, 2)} \cup {Dict(<<>>)}
  \cup {Dict(<<Entry(k, v)>>) : k \in Keys, v \in Few}
  \cup {Dict(<<Entry(k, v), Entry(String(<<>>), w)>>) : k \in Keys, v \in Few, w \in Few}
Around(inner) ==
  {List(<<v>>) : v \in inner}
  \cup {Dict(<<Entry(k, v)>>) : k \in {String(<<"a">>), Other}, v \in inner}
Lists == Leaves \cup Flat \cup Around(Flat) \cup Around(Around(Flat))
L == INSTANCE Plists WITH file <- text, Values <- Lists

C == INSTANCE Collections WITH heap <- objects, Blocks <- 1..4, Texts <- {"k"},
                               Storable <- {"string", "array"},
                               MaxHeld <- 2, MaxOwned <- 2

(* A name in either case, and another one.                                 *)
LowerCase == [n \in {"a", "A", "b"} |-> IF n = "A" THEN "a" ELSE n]

(* Of names, two that differ by case, and one with a colon in Linux's; and *)
(* pathnames that go down, up, and from the volume.                        *)
LinuxNames == {<<"a">>, <<"A">>, <<"b", ":">>}
LinuxLower == [n \in LinuxNames |-> IF n = <<"A">> THEN <<"a">> ELSE n]
Pathnames == {<<"a">>, <<"v", ":", "A">>, <<":", "a", ":", "A">>,
              <<":", "a", ":", ":", "b", "/">>}
N == INSTANCE ClassicNames WITH Names <- LinuxNames, Lower <- LinuxLower, MaxObjects <- 2,
                                MaxDepth <- 1, ClassicNames <- Pathnames, Cwd <- <<>>,
                                kNameBytes <- 2, MaxSpecs <- 2, MaxNodes <- 2,
                                tree <- volume, companions <- volume_companions,
                                forked <- volume_forked

(* Characters with a byte in no encoding, in one or in several; a byte     *)
(* order mark; the halves of a pair; letters, and digits.                  *)
MacRoman == (142 :> 233) @@ (219 :> 8364)
WindowsLatin1 == (128 :> 8364) @@ (129 :> 0)
Read == BoundedSeq({129, 8364, 65279, 55357, 56832}, 3)
Sorted == BoundedSeq({48, 49, 97}, 3) \cup BoundedSeq({49, 65, 97}, 2)
Letter == {32, 97}
Piece == {<<>>, <<97>>, <<65, 97>>}
S == INSTANCE Strings WITH kMacRoman <- MacRoman, kWindowsLatin1 <- WindowsLatin1,
                           Texts <- Read, Compared <- Sorted, Letters <- Letter,
                           Pieces <- Piece, MaxLength <- 3, LeastCapacity <- 2

(* Bytes of two bits and limbs of two bytes; a key that is the product of  *)
(* two primes, with powers of 3 and of 1; of the first, two signatures and *)
(* a wrong one, of the other, all that look like a padded digest; and a    *)
(* number of bits that overflows its word.                                 *)
Product == <<5, 12, 4, 7>>
PublicKeys == {[n |-> Product, e |-> <<e>>] : e \in {1, 3}}
LikePadded == {<<0, 1>> \o s : s \in [1..6 -> {0, 1, 3}]}
Signed == [rsa \in PublicKeys |->
             IF rsa.e = <<1>>
             THEN LikePadded \cup [1..3 -> {0, 1}] \cup {<<2, 1, 3, 3, 3, 0, 1, 1>>}
             ELSE {<<0, 0, 1, 1, 3, 1, 1, 2>>, <<0, 3, 3, 0, 0, 2, 3, 1>>,
                   <<0, 3, 3, 0, 0, 2, 3, 2>>}]
DigestInfo == {<<"ripemd160", <<1, 0>>>>, <<"ripemd160", <<1>>>>, <<"sha1", <<3>>>>}
DigestKinds == {"ripemd160", "sha1", "md5_sha1"}
ShortDigests == {<<0>>, <<1>>, <<3>>, <<1, 0>>}
Operands == {0, 1, 15, 16, 17, 255, 256}
Modulus == {2, 3, 15, 16, 17, 31, 200, 255, 256, 257}
D == INSTANCE Signatures WITH ByteBits <- 2, LimbBytes <- 2, MinPad <- 2,
                              kDigestInfo <- DigestInfo, kBothLength <- 2,
                              Types <- DigestKinds, Digests <- ShortDigests,
                              Keys <- PublicKeys, Givens <- Signed,
                              Numbers <- Operands, Moduli <- Modulus,
                              BlockBytes <- 4, WordBits <- 5, MaxMessage <- 13

M == INSTANCE MCImages
I == INSTANCE MachImages WITH files <- program, Programs <- M!MachPrograms,
                              LinuxHas <- [n \in {<<"s">>} |-> 700000]

(* Items of dialogs, two of which the game makes: with two fields, and     *)
(* with one; and texts that divide evenly, at dashes, and neither.         *)
Item(k, words) == [kind |-> k, text |-> words]
SomeItems == {Item(4, <<"k">>), Item(16, <<>>), Item(64, <<"p">>), Item(136, <<"s", "t">>)}
ListsOfItems == BoundedSeq(SomeItems, 3) \ {<<>>}
Resource == <<<<3, 4, 1, "k", 0, 4, 1, "c", 0, 16, 0, 16, 0>>,
              <<2, 4, 1, "k", 0, 64, 1, "p", 0, 16, 0>>>>
SomeTexts == {<<>>, <<"a", "b">>, <<"a", "-", "b", "c", "c">>, <<"a", "b", "c">>}

(* Controls, in a control and in that; what is set of them; and menus.     *)
Control(signature, command, default, is_text) ==
  [signature |-> signature, command |-> command, default |-> default, is_text |-> is_text,
   value |-> 0, minimum |-> 0, maximum |-> 1, title |-> <<"t">>, children |-> <<>>]
SomeControls ==
  {Control("", "a", TRUE, FALSE), Control("", "", TRUE, FALSE), Control("", "b", FALSE, FALSE),
   Control("s", "", FALSE, FALSE), Control("s", "", FALSE, TRUE),
   Control("Wind", "", FALSE, FALSE)}
TreesOfControls ==
  {<<[Control("", "", FALSE, FALSE) EXCEPT
        !.children = <<[x EXCEPT !.children = <<y>>], z>>]>> : x, y, z \in SomeControls}
To(words, number) == [text |-> words, number |-> number]
Unset == To(<<"none">>, 0)
Environments ==
  {("s" :> x) @@ ("Wind" :> y) @@ ("HLE_WINDOWED" :> z) :
     x \in {Unset, To(<<"7">>, 7)}, y \in {Unset, To(<<>>, 0)},
     z \in {Unset, To(<<>>, 0), To(<<"1">>, 1)}}
Answers == {"", "a", "b"}
MenuItem(command, submenu) == [command |-> command, children |-> submenu]
Plain == {MenuItem(c, <<>>) : c \in Answers}
SomeMenus == BoundedSeq(Plain \cup {MenuItem(c, <<item>>) : c \in {"", "a"}, item \in Plain}, 3)

A == INSTANCE Dialogs WITH Resources <- Resource, Texts <- SomeTexts, kFieldBytes <- 2,
                           MaxDialogs <- 2, ItemLists <- ListsOfItems,
                           NibControls <- TreesOfControls, Settings <- Environments,
                           Chosen <- Answers, Menus <- SomeMenus,
                           value <- dialog_text, game <- player, given <- computed

(* The variables of a part that is not run stay 0, but the loader's, which *)
(* stay those of a program with no libraries.                              *)
PartInit ==
  /\ part \in Parts /\ FilesInit
  /\ IF part = "loader" THEN InitFiles ELSE
       dylibs = [f \in Files |-> <<>>] /\ exports = [f \in Files |-> {}]
  /\ InitLoader
  /\ IF part = "plists" THEN L!Init ELSE
       /\ Off(plist) /\ Off(text) /\ Off(read)
  /\ IF part = "collections" THEN C!Init ELSE
       /\ Off(objects) /\ Off(owned)
  /\ IF part = "names" THEN N!NamesInit ELSE
       /\ Off(volume) /\ Off(volume_companions) /\ Off(volume_forked)
       /\ Off(node_paths) /\ Off(default_dir_id) /\ Off(specs)
  /\ IF part = "strings" THEN S!Init ELSE
       /\ Off(str) /\ Off(want)
  /\ IF part = "signatures" THEN D!Init ELSE
       /\ Off(ctx) /\ Off(message) /\ Off(given)
  /\ IF part = "images" THEN I!Init ELSE
       /\ Off(program) /\ Off(placed) /\ Off(last_addr_) /\ Off(mappings)
       /\ Off(memory) /\ Off(linked) /\ Off(undefined_names) /\ Off(stopped)
  /\ IF part = "answers" THEN A!Init ELSE
       /\ Off(dialog_text) /\ Off(dialogs) /\ Off(last_filled_id)
       /\ Off(alert_after_fill) /\ Off(player) /\ Off(computed)
PartNext ==
  \/ FilesNext
     /\ UNCHANGED <<vars, plistVars, objectVars, nameVars, stringVars,
                    signatureVars, imageVars, dialogVars>>
  \/ part = "loader" /\ Next
     /\ UNCHANGED <<filesVars, plistVars, objectVars, nameVars,
                    stringVars, signatureVars, imageVars, dialogVars>>
  \/ part = "plists" /\ L!Next
     /\ UNCHANGED <<filesVars, vars, objectVars, nameVars, stringVars,
                    signatureVars, imageVars, dialogVars>>
  \/ part = "collections" /\ C!Next
     /\ UNCHANGED <<filesVars, vars, plistVars, nameVars, stringVars,
                    signatureVars, imageVars, dialogVars>>
  \/ part = "names" /\ N!NamesNext
     /\ UNCHANGED <<filesVars, vars, plistVars, objectVars, stringVars,
                    signatureVars, imageVars, dialogVars>>
  \/ part = "strings" /\ S!Next
     /\ UNCHANGED <<filesVars, vars, plistVars, objectVars, nameVars,
                    signatureVars, imageVars, dialogVars>>
  \/ part = "signatures" /\ D!Next
     /\ UNCHANGED <<filesVars, vars, plistVars, objectVars, nameVars,
                    stringVars, imageVars, dialogVars>>
  \/ part = "images" /\ I!Next
     /\ UNCHANGED <<filesVars, vars, plistVars, objectVars, nameVars,
                    stringVars, signatureVars, dialogVars>>
  \/ part = "answers" /\ A!Next
     /\ UNCHANGED <<filesVars, vars, plistVars, objectVars, nameVars,
                    stringVars, signatureVars, imageVars>>
PartSpec == PartInit /\ [][PartNext]_partVars

(* Every variable has its type, the weak names met stay sorted, and each   *)
(* resource file has a number of its own.                                  *)
TypesOK ==
  CASE part = "loader" -> TypeOK
    [] part = "weak" -> W!TypeOK
    [] part = "forks" -> F!TypeOK
    [] part = "resources" -> R!TypeOK
    [] part = "preferences" -> P!TypeOK
    [] part = "plists" -> L!TypeOK
    [] part = "collections" -> C!TypeOK
    [] part = "catalog" -> T!TypeOK
    [] part = "names" -> N!NamesTypeOK
    [] part = "signatures" -> D!TypeOK
    [] part = "images" -> I!TypeOK
    [] part = "strings" -> S!TypeOK
    [] part = "answers" -> A!TypeOK

(* Of MachImages: images never overlap, and every pointer of theirs leads  *)
(* where their files say, wherever they were mapped.                       *)
PointersAreLinked == part = "images" => I!PointersLead /\ I!ImagesAreApart

(* What ld-mac.cc:853 says of WeakBinds' stubs: they jump to the image's   *)
(* own definition, wherever the image is mapped.                           *)
JumpsToItsDefinition == part = "weak" => W!JumpsToItsDefinition

(* Of Signatures: big numbers compute as numbers do, a signature is taken  *)
(* for a digest exactly if its power is that digest, padded, and a message *)
(* has one digest in whatever pieces it is read.                           *)
SignaturesAreRead ==
  part = "signatures" =>
    D!NumbersAreExact /\ D!SignaturesAreExact /\ D!MessagesAreDigested

(* Of Collections: an object is there as long as something refers to it,   *)
(* and no longer, and a key a dictionary copied is in it once.             *)
CollectionsAreWhole == part = "collections" => C!CollectionsAreWhole

(* Of Strings: the characters are those the calls ask for, wherever the    *)
(* string is kept; they are read back from bytes, as far as these hold     *)
(* them; and comparing sorts.  Of Plists: what is written of a property    *)
(* list is read as it was, unless it nests deeper than the parser goes.    *)
(* Of ClassicNames: a spec leads where the name did that it was made by,   *)
(* two of different files never are equal, two made of one file that was   *)
(* there, and has been since, are, and a node ID is one path's.            *)
StringsAreWhole ==
  /\ part = "strings" => S!ContentIsAsked /\ S!StringsReadBack /\ S!StringsCompare
  /\ part = "plists" => L!PlistsReadBack
  /\ part = "names" => N!SpecsKeepTheirPlace /\ N!SpecsAreOnePerFile /\ N!NodesAreDistinct

(* Of Dialogs: a field gets its piece of the text that the environment     *)
(* has, a text the game did not take is not given to it again, and what a  *)
(* dialog is made and answered by is what its resource, its NIB and the    *)
(* environment say.                                                        *)
DialogsAreFilled ==
  part = "answers" =>
    /\ A!FieldsAreFilled /\ A!RefusedOnce /\ A!ItemsAreLoaded
    /\ A!NibsAreAnswered /\ A!MenusAreSearched
=============================================================================
