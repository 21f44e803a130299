------------------------------- MODULE Dialogs -------------------------------
(***************************************************************************)
(* The dialogs of windows.c, from the resources and NIBs that describe     *)
(* them to the answers given for a user nobody asks.                       *)
(*                                                                         *)
(* A classic dialog gets the text that the environment has for it, once:   *)
(* a game that does not take it is answered by the second button.  What    *)
(* the game does of it is here: it asks one dialog at a time, shows it,    *)
(* and goes on asking, with an alert or without one, until its text is     *)
(* taken or its second button is hit.  Of the dialogs it makes anew it     *)
(* says why.                                                               *)
(*                                                                         *)
(* What is computed of a resource, a NIB or a menu is checked for those    *)
(* the instance has, each in a state of its own.                           *)
(***************************************************************************)
EXTENDS Integers, SequencesExt, FiniteSetsExt, TLC

CONSTANTS
  Resources,        \* the items of each DLOG's DITL: [kind, text] in order
  Texts,            \* what an environment variable may have for a dialog
  kFieldBytes,      \* what a field holds: 255
  MaxDialogs,       \* bound: how many dialogs there are at a time
  ItemLists,        \* items that are loaded, cut off at every length
  NibControls, Settings, Chosen,   \* controls of a NIB, what is set, what is chosen
  Menus             \* menus, and the menus in them

VARIABLES
  value,            \* HLE_DIALOG_<id>, <<>> if there is none
  dialogs,          \* classic dialogs, front to back
  last_filled_id, alert_after_fill,
  game,             \* what the game does
  given             \* what is computed of, besides

vars == <<value, dialogs, last_filled_id, alert_after_fill, game, given>>
ResourceIds == DOMAIN Resources

kItemButton == 4
kItemCheckBox == 5
kItemRadio == 6
kItemStaticText == 8
kItemEditText == 16

-----------------------------------------------------------------------------
(* A DITL: how many items there are, less one; then for each its kind and  *)
(* its length, what it holds, and a byte to make that even.                *)
HoldsText(kind) == kind % 128 \in {kItemButton, kItemCheckBox, kItemRadio,
                                   kItemStaticText, kItemEditText}
NoText == <<"none">>
RECURSIVE ItemsFrom(_, _, _)
ItemsFrom(p, at, count) ==
  IF count = 0 \/ at + 2 > Len(p) THEN <<>>
  ELSE LET kind == p[at + 1]
           length == p[at + 2]
           last == Min({at + 2 + length, Len(p)})
           item == [kind |-> kind,
                    text |-> IF HoldsText(kind) THEN SubSeq(p, at + 3, last) ELSE NoText]
       IN <<item>> \o ItemsFrom(p, at + 2 + length + (length % 2), count - 1)
load_items(p) == IF p = <<>> THEN <<>> ELSE ItemsFrom(p, 1, p[1] + 1)

IsField(item) == item.kind % 128 = kItemEditText /\ item.text # NoText
Fields(items) == SelectSeq([i \in DOMAIN items |-> i], LAMBDA i : IsField(items[i]))

(* The text in pieces, at dashes, or in equal parts if it has none.        *)
Dash(p) == CHOOSE i \in 1..Len(p) + 1 : /\ i = Len(p) + 1 \/ p[i] = "-"
                                        /\ \A j \in 1..i - 1 : p[j] # "-"
RECURSIVE Filled(_, _, _, _)
Filled(items, fields, p, part) ==
  IF fields = <<>> THEN items
  ELSE LET take == Min({IF part > 0 THEN part ELSE Dash(p) - 1, kFieldBytes})
           rest == SubSeq(p, take + 1, Len(p))
       IN Filled([items EXCEPT ![Head(fields)].text = SubSeq(p, 1, take)], Tail(fields),
                 IF rest # <<>> /\ Head(rest) = "-" THEN Tail(rest) ELSE rest, part)
fill_fields(items, text) ==
  LET n == Len(Fields(items))
      even == "-" \notin ToSet(text) /\ n > 1 /\ Len(text) % n = 0
  IN Filled(items, Fields(items), text, IF even THEN Len(text) \div n ELSE 0)

-----------------------------------------------------------------------------
(* Classic dialogs.                                                        *)
Idle == [at |-> "idle"]
Asks(id, refused) == [at |-> "asks", id |-> id, refused |-> refused]
GetNewDialog(id) ==
  /\ dialogs' = <<[resource_id |-> id, answered |-> FALSE, visible |-> FALSE,
                   items |-> load_items(Resources[id])]>> \o dialogs
  /\ UNCHANGED <<value, last_filled_id, alert_after_fill, given>>

(* The game shows a dialog that it asks nothing of, and leaves it there.   *)
ShowsNotice(id) ==
  /\ game = Idle /\ Len(dialogs) < MaxDialogs - 1
  /\ GetNewDialog(id)
  /\ UNCHANGED game
AsksFor(id) ==
  /\ game = Idle /\ Len(dialogs) < MaxDialogs
  /\ GetNewDialog(id)
  /\ game' = [Asks(id, FALSE) EXCEPT !.at = "made"]

ShowWindow(i) ==
  /\ ~dialogs[i].visible
  /\ dialogs' = [dialogs EXCEPT ![i].visible = TRUE]
  /\ game' = IF i = 1 /\ game.at = "made" THEN [game EXCEPT !.at = "asks"] ELSE game
  /\ UNCHANGED <<value, last_filled_id, alert_after_fill, given>>

(* The game puts a text of its own into a field.                           *)
SetDialogItemText(i, text) ==
  /\ game.at = "asks" /\ dialogs[1].items[i].text # NoText
  /\ dialogs' = [dialogs EXCEPT ![1].items[i].text = text]
  /\ UNCHANGED <<value, last_filled_id, alert_after_fill, game, given>>

(* Faulty variant: an alert since then is no refusal.                      *)
Refused_Shown(d) == d.answered
Refused(d) ==
  \/ d.answered
  \/ value[d.resource_id] # <<>> /\ last_filled_id = d.resource_id /\ alert_after_fill

Told(hit) == game' = [at |-> "told", id |-> game.id, refused |-> game.refused, hit |-> hit]
answer_classic(i) ==
  LET d == dialogs[i]
      text == value[d.resource_id]
      second == IF Len(d.items) >= 2 THEN 2 ELSE 1
  IN \/ /\ Refused(d) \/ text = <<>>
        /\ dialogs' = [dialogs EXCEPT ![i].answered = TRUE]
        /\ last_filled_id' = 0
        /\ Told(second)
     \/ /\ ~Refused(d) /\ text # <<>>
        /\ dialogs' = [dialogs EXCEPT ![i].answered = TRUE,
                                      ![i].items = fill_fields(d.items, text)]
        /\ last_filled_id' = d.resource_id
        /\ Told(1)

(* The frontmost dialog on screen is answered.                             *)
ModalDialog ==
  /\ game.at = "asks"
  /\ LET shown == {i \in DOMAIN dialogs : dialogs[i].visible} IN
     \/ shown = {} /\ Told(1) /\ UNCHANGED <<dialogs, last_filled_id, alert_after_fill>>
     \/ shown # {} /\ answer_classic(Min(shown)) /\ alert_after_fill' = FALSE
  /\ UNCHANGED <<value, given>>

run_alert ==
  /\ alert_after_fill' = (alert_after_fill \/ last_filled_id # 0)
  /\ UNCHANGED <<value, dialogs, last_filled_id, given>>
(* An alert about something else.                                          *)
Alert == game = Idle /\ run_alert /\ UNCHANGED game

DisposeDialog ==
  /\ dialogs' = Tail(dialogs)
  /\ UNCHANGED <<value, last_filled_id, alert_after_fill, given>>
NoticeGoes == game = Idle /\ dialogs # <<>> /\ DisposeDialog /\ UNCHANGED game
(* The second button ends the asking, and so does a text that is taken.    *)
Takes ==
  /\ game.at = "told" /\ DisposeDialog
  /\ game' = Idle
(* Or the game asks again, of the dialog on screen or of another one.      *)
MayRefuse == game.at = "told" /\ game.hit = 1 /\ Fields(dialogs[1].items) # <<>>
AsksAgain == MayRefuse /\ game' = Asks(game.id, TRUE)
             /\ UNCHANGED <<value, dialogs, last_filled_id, alert_after_fill, given>>
AlertsAndAsksAgain ==
  \/ MayRefuse /\ run_alert /\ game' = [game EXCEPT !.at = "alerted"]
  \/ game.at = "alerted" /\ game' = Asks(game.id, TRUE)
     /\ UNCHANGED <<value, dialogs, last_filled_id, alert_after_fill, given>>
  \/ game.at = "alerted" /\ DisposeDialog /\ game' = [game EXCEPT !.at = "gone"]
  \/ game.at = "gone" /\ GetNewDialog(game.id)
     /\ game' = [Asks(game.id, TRUE) EXCEPT !.at = "made"]

GoesOn ==
  \/ ModalDialog \/ Takes \/ AsksAgain \/ AlertsAndAsksAgain
  \/ game.at = "made" /\ ShowWindow(1)

-----------------------------------------------------------------------------
(* A NIB's dialog.  Controls are trees; the first of them with something   *)
(* is the first as they are read, from the outside in.                   *)
None == ""    \* no signature, or no command
RECURSIVE find_control(_, _)
find_control(list, signature) ==
  IF list = <<>> THEN <<>>
  ELSE LET c == Head(list)
           found == IF c.signature = signature THEN <<c>> ELSE find_control(c.children, signature)
       IN IF found # <<>> THEN found ELSE find_control(Tail(list), signature)
RECURSIVE button_with(_, _, _)
button_with(list, command, default_only) ==
  IF list = <<>> THEN <<>>
  ELSE LET c == Head(list)
           is_it == c.command # None /\ IF default_only THEN c.default ELSE c.command = command
           found == IF is_it THEN <<c>> ELSE button_with(c.children, command, default_only)
       IN IF found # <<>> THEN found ELSE button_with(Tail(list), command, default_only)

set_value(c, number) ==
  LET below == Min({number, c.maximum})
  IN [c EXCEPT !.value = IF below < c.minimum THEN c.minimum ELSE below]

(* The setting of a control, by its signature; of playing in a window, by  *)
(* the variable for that, too.                                             *)
kWind == "Wind"
Unset == [text |-> NoText, number |-> 0]
Setting(c, env) ==
  IF c.signature # None /\ env[c.signature] # Unset THEN env[c.signature]
  ELSE IF c.signature = kWind /\ env["HLE_WINDOWED"].text # <<>> THEN env["HLE_WINDOWED"]
  ELSE Unset
RECURSIVE apply_overrides(_, _)
apply_overrides(list, env) ==
  [i \in DOMAIN list |->
     LET c == list[i]
         s == Setting(c, env)
         set == IF s = Unset THEN c
                ELSE IF c.is_text THEN [c EXCEPT !.title = s.text]
                ELSE set_value(c, s.number)
     IN [set EXCEPT !.children = apply_overrides(c.children, env)]]

kHICommandOK == "ok"
answer(tree, env, choice) ==
  LET controls == apply_overrides(tree, env)
      button == button_with(controls, choice, choice = None)
  IN [controls |-> controls, source |-> button,
      command |-> IF choice # None THEN choice
                  ELSE IF button # <<>> THEN button[1].command ELSE kHICommandOK]

(* Menus, whose items may have menus.                                      *)
RECURSIVE find_command(_, _)
find_command(list, command) ==
  IF list = <<>> THEN <<>>
  ELSE LET item == Head(list)
           found == IF item.command = command THEN <<item>>
                    ELSE find_command(item.children, command)
       IN IF found # <<>> THEN found ELSE find_command(Tail(list), command)
DeleteMenuItems(items, first, count) ==
  LET available == Len(items) - (first - 1)
      gone == Min({count, available})
  IN IF first \notin DOMAIN items THEN items
     ELSE SubSeq(items, 1, first - 1) \o SubSeq(items, first + gone, Len(items))

-----------------------------------------------------------------------------
Game == [is |-> "game"]
Init ==
  /\ value \in [ResourceIds -> Texts] /\ dialogs = <<>>
  /\ last_filled_id = 0 /\ alert_after_fill = FALSE
  /\ \/ given = Game /\ game = Idle
     \/ /\ game = [at |-> "none"] /\ value = [id \in ResourceIds |-> <<>>]
        /\ \/ \E items \in ItemLists, length \in 0..12 :
                given = [is |-> "items", items |-> items, length |-> length]
           \/ \E tree \in NibControls, env \in Settings, choice \in Chosen :
                given = [is |-> "nib", tree |-> tree, env |-> env, choice |-> choice]
           \/ \E menu \in Menus : given = [is |-> "menu", items |-> menu]
Next ==
  \/ \E id \in ResourceIds : ShowsNotice(id) \/ AsksFor(id)
  \/ \E i \in DOMAIN dialogs : ShowWindow(i)
  \/ game.at = "asks" /\ \E i \in DOMAIN dialogs[1].items : SetDialogItemText(i, <<"d">>)
  \/ Alert \/ NoticeGoes \/ GoesOn
Spec == Init /\ [][Next]_vars

-----------------------------------------------------------------------------
TypeOK ==
  /\ last_filled_id \in ResourceIds \cup {0} /\ alert_after_fill \in BOOLEAN
  /\ Len(dialogs) <= MaxDialogs

(* A field gets its piece of the text, and no piece is left out that has a *)
(* field and fits it.                                                      *)
Pieces(text) ==
  LET dashes == {0, Len(text) + 1} \cup {i \in DOMAIN text : text[i] = "-"}
      order == SetToSortSeq(dashes, <)
  IN [i \in 1..Len(order) - 1 |-> SubSeq(text, order[i] + 1, order[i + 1] - 1)]
Shares(text, n) ==
  IF "-" \in ToSet(text) \/ Len(text) % n # 0 THEN Pieces(text)
  ELSE [i \in 1..n |-> SubSeq(text, (i - 1) * (Len(text) \div n) + 1, i * (Len(text) \div n))]
FieldsAreFilled ==
  game.at = "told" /\ game.hit = 1 /\ last_filled_id = game.id /\ ~alert_after_fill =>
    LET items == dialogs[1].items
        fields == Fields(items)
        parts == Shares(value[game.id], Len(fields))
    IN fields # <<>> /\ (\A i \in DOMAIN parts : Len(parts[i]) <= kFieldBytes) =>
         \A k \in DOMAIN fields :
           items[fields[k]].text = IF k \in DOMAIN parts THEN parts[k] ELSE <<>>

(* A text that the game did not take, whether it said so by an alert or    *)
(* goes on asking of the same dialog, is not given again: the next answer  *)
(* is the second button, at which a game that asks until it is answered    *)
(* stops asking.                                                           *)
RefusedOnce == game.at = "told" /\ game.refused => game.hit = 2

(* The items that a resource has are loaded, as far as it goes.            *)
ByteOf(item) == <<item.kind, Len(item.text)>> \o item.text \o
                  IF Len(item.text) % 2 = 1 THEN <<0>> ELSE <<>>
Ditl(items) == <<Len(items) - 1>> \o FlattenSeq([i \in DOMAIN items |-> ByteOf(items[i])])
Upto(text, n) == SubSeq(text, 1, Min({n, Len(text)}))
ItemsAreLoaded ==
  given.is = "items" =>
    LET all == Ditl(given.items)
        loaded == load_items(Upto(all, given.length))
        Before(i) == Len(Ditl(SubSeq(given.items, 1, i - 1)))
        whole == {i \in DOMAIN given.items : Before(i) + 2 <= given.length}
    IN given.items # <<>> /\ given.length > 0 =>
         /\ DOMAIN loaded = whole
         /\ \A i \in whole :
              loaded[i] = [kind |-> given.items[i].kind,
                           text |-> IF ~HoldsText(given.items[i].kind) THEN NoText
                                    ELSE Upto(given.items[i].text,
                                              given.length - Before(i) - 2)]

(* A NIB's dialog is answered by its choice, or its first default button;  *)
(* every control that is set has what it is set to, and nothing else is.   *)
RECURSIVE Reading(_)
Reading(list) ==
  FlattenSeq([i \in DOMAIN list |-> <<[list[i] EXCEPT !.children = <<>>]>> \o Reading(list[i].children)])
NibsAreAnswered ==
  given.is = "nib" =>
    LET before == Reading(given.tree)
        result == answer(given.tree, given.env, given.choice)
        after == Reading(result.controls)
        buttons == {i \in DOMAIN before : before[i].command # None /\
                      IF given.choice = None THEN before[i].default
                      ELSE before[i].command = given.choice}
        first == Min(buttons)
        Clamped(c, n) == IF n < c.minimum THEN c.minimum
                         ELSE IF n > c.maximum THEN c.maximum ELSE n
    IN /\ DOMAIN after = DOMAIN before
       /\ \A i \in DOMAIN before :
            LET c == before[i]
                s == Setting(c, given.env)
            IN after[i] = IF s = Unset THEN c
                          ELSE IF c.is_text THEN [c EXCEPT !.title = s.text]
                          ELSE [c EXCEPT !.value = Clamped(c, s.number)]
       /\ IF buttons = {} THEN result.source = <<>> ELSE Reading(result.source)[1] = after[first]
       /\ result.command = IF given.choice # None THEN given.choice
                           ELSE IF buttons = {} THEN kHICommandOK ELSE before[first].command

(* A command's item is the first with it, in whatever menu it is; and what *)
(* is deleted of a menu is what the game names of it.                      *)
MenusAreSearched ==
  given.is = "menu" =>
    LET items == given.items
        all == Reading(items)
    IN /\ \A command \in {all[i].command : i \in DOMAIN all} \cup {None} :
            LET found == find_command(items, command)
                with == {i \in DOMAIN all : all[i].command = command}
            IN IF with = {} THEN found = <<>>
               ELSE Reading(found)[1] = all[Min(with)]
       /\ \A first \in 0..Len(items) + 1, count \in 0..Len(items) + 1 :
            LET gone == IF first \in DOMAIN items THEN first..first + count - 1 ELSE {}
            IN DeleteMenuItems(items, first, count) =
                 [k \in 1..Cardinality(DOMAIN items \ gone) |->
                    items[SetToSortSeq(DOMAIN items \ gone, <)[k]]]
=============================================================================
