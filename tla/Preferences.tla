----------------------------- MODULE Preferences -----------------------------
(***************************************************************************)
(* cf_prefs.c: the preferences of one application ID, which every process  *)
(* of the game keeps in memory and writes, when it synchronizes, beside    *)
(* the file it then renames over (cf_plist.c).                             *)
(*                                                                         *)
(* One lock is held through every call, so a process does one call at a    *)
(* time; other processes do theirs between any two of its steps, and a     *)
(* process may end at any of them.  A file holds the text of a dictionary, *)
(* or no whole text (Torn).                                                *)
(***************************************************************************)
EXTENDS Integers

CONSTANTS Processes, Dictionaries,
          Empty,         \* the dictionary without values
          TooDeep        \* those whose text the parser refuses

VARIABLES file,          \* what the preferences file holds
          tmp,           \* what the file beside it of each pid holds
          loaded, values, dirty,  \* each process's struct prefs_domain
          step,          \* where each process is in cf_plist_write_file
          latest         \* history: the process loaded or wrote the file last

vars == <<file, tmp, loaded, values, dirty, step, latest>>

Absent == "absent"
Torn == "torn"

(* The name of the temporary file has the process's pid in it.             *)
(* Faulty variant: it has not.                                             *)
Tmp_Shared(p) == CHOOSE q \in Processes : TRUE
Tmp(p) == p

(* cf_plist_read_file: what cannot be read, or is no dictionary, is empty. *)
Stored == IF file \in Dictionaries \ TooDeep THEN file ELSE Empty

(* domain_for: a domain is read once, by the first call about it.          *)
Domain(p) == IF loaded[p] THEN values[p] ELSE Stored
domain_for(p) ==
  /\ loaded' = [loaded EXCEPT ![p] = TRUE]
  /\ latest' = IF loaded[p] THEN latest ELSE latest \cup {p}

Calls(p) == step[p] = "none"

Init ==
  /\ file = Absent /\ tmp = [p \in Processes |-> Absent]
  /\ loaded = [p \in Processes |-> FALSE] /\ dirty = loaded
  /\ values = [p \in Processes |-> Empty]
  /\ step = [p \in Processes |-> "none"] /\ latest = {}

-----------------------------------------------------------------------------
CFPreferencesCopyAppValue(p) ==
  /\ Calls(p) /\ domain_for(p)
  /\ values' = [values EXCEPT ![p] = Domain(p)]
  /\ UNCHANGED <<file, tmp, dirty, step>>

(* Sets or removes a value, and so makes one dictionary of another.        *)
CFPreferencesSetAppValue(p) ==
  /\ Calls(p) /\ domain_for(p)
  /\ \E d \in Dictionaries : values' = [values EXCEPT ![p] = d]
  /\ dirty' = [dirty EXCEPT ![p] = TRUE]
  /\ UNCHANGED <<file, tmp, step>>

(* CFPreferencesAppSynchronize: of a domain that has not changed nothing   *)
(* is written, nor when the folder cannot be made; the call then does what *)
(* CFPreferencesCopyAppValue does.  Otherwise cf_plist_write_file follows: *)
(* fopen(tmp, "wb") empties what a process of that pid may have left.      *)
OpenBeside(p) ==
  /\ Calls(p) /\ dirty[p]
  /\ tmp' = [tmp EXCEPT ![Tmp(p)] = Torn]
  /\ step' = [step EXCEPT ![p] = "opened"]
  /\ UNCHANGED <<file, loaded, values, dirty, latest>>
CannotOpen(p) ==
  /\ Calls(p) /\ dirty[p]
  /\ step' = [step EXCEPT ![p] = "failed"]
  /\ UNCHANGED <<file, tmp, loaded, values, dirty, latest>>

(* fwrite and fclose: all is written, or not all, or fclose fails.         *)
WriteBeside(p) ==
  /\ step[p] = "opened"
  /\ \E content \in {values[p], Torn}, to \in {"written", "failed"} :
       /\ content = Torn => to = "failed"
       /\ tmp' = [tmp EXCEPT ![Tmp(p)] = content]
       /\ step' = [step EXCEPT ![p] = to]
  /\ UNCHANGED <<file, loaded, values, dirty, latest>>

RenameOver(p) ==
  /\ step[p] = "written" /\ tmp[Tmp(p)] # Absent
  /\ file' = tmp[Tmp(p)] /\ tmp' = [tmp EXCEPT ![Tmp(p)] = Absent]
  /\ dirty' = [dirty EXCEPT ![p] = FALSE]
  /\ step' = [step EXCEPT ![p] = "none"] /\ latest' = {p}
  /\ UNCHANGED <<loaded, values>>
CannotRename(p) ==
  /\ step[p] = "written"
  /\ step' = [step EXCEPT ![p] = "failed"]
  /\ UNCHANGED <<file, tmp, loaded, values, dirty, latest>>

(* A call that failed unlinks what it wrote; the domain stays dirty.       *)
Unlink(p) ==
  /\ step[p] = "failed"
  /\ tmp' = [tmp EXCEPT ![Tmp(p)] = Absent]
  /\ step' = [step EXCEPT ![p] = "none"]
  /\ UNCHANGED <<file, loaded, values, dirty, latest>>

(* The process ends, and another of its pid starts.                        *)
Restart(p) ==
  /\ loaded' = [loaded EXCEPT ![p] = FALSE]
  /\ values' = [values EXCEPT ![p] = Empty]
  /\ dirty' = [dirty EXCEPT ![p] = FALSE]
  /\ step' = [step EXCEPT ![p] = "none"]
  /\ latest' = latest \ {p}
  /\ UNCHANGED <<file, tmp>>

Next ==
  \E p \in Processes :
    \/ CFPreferencesCopyAppValue(p) \/ CFPreferencesSetAppValue(p)
    \/ OpenBeside(p) \/ CannotOpen(p) \/ WriteBeside(p)
    \/ RenameOver(p) \/ CannotRename(p) \/ Unlink(p) \/ Restart(p)

Spec == Init /\ [][Next]_vars

-----------------------------------------------------------------------------
Contents == Dictionaries \cup {Absent, Torn}
TypeOK ==
  /\ file \in Contents /\ tmp \in [Processes -> Contents]
  /\ loaded \in [Processes -> BOOLEAN] /\ dirty \in [Processes -> BOOLEAN]
  /\ values \in [Processes -> Dictionaries] /\ latest \subseteq Processes
  /\ step \in [Processes -> {"none", "opened", "written", "failed"}]

(* Wherever processes end, the file has been written whole (cf_plist.c:524 *)
(* "so a crash mid-write never leaves half a file"), and what a process    *)
(* read or synchronized last and has not changed since is what the next    *)
(* process reads, unless it nests too deeply to be read.                   *)
PreferencesSurvive ==
  /\ file # Torn
  /\ \A p \in latest :
       ~dirty[p] /\ values[p] \notin TooDeep => Stored = values[p]
=============================================================================
