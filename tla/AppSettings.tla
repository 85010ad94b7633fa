----------------------------- MODULE AppSettings -----------------------------
(***************************************************************************)
(* The desktop's settings (lib.rs): the file settings.json, the copy in    *)
(* memory and the global shortcuts, which a start and update_app_settings  *)
(* bring up to date one after another.  Commands that change them run on   *)
(* the main thread, one at a time; between two steps another program can   *)
(* take a shortcut, an operation on files can fail and the process can end.*)
(***************************************************************************)
EXTENDS Integers, Sequences, FiniteSets

CONSTANTS
  Spelling,    \* ways to write a shortcut
  Key,         \* Key[s]: the keys that a spelling names, Absent if it does not parse
  Choice,      \* settings that a user, or the file, can hold
  Default,     \* AppSettings::default()
  Damaged,     \* the content of a file that is not settings
  MaxFaults,   \* bound on failures, crashes and edits of the file
  Absent

Roles == <<"quick", "clipboard", "settings">>
Role == {Roles[i] : i \in DOMAIN Roles}

(* Each spelling names other keys: what Shortcut::from_str tells apart.     *)
Keys == {Key[s] : s \in Spelling} \ {Absent}

(* unique_shortcuts compares spellings; the rest of validate_settings is    *)
(* in the settings' field valid.                                            *)
UniqueShortcuts(keys) == \A r, q \in Role : r # q => keys[r] # keys[q]
Parses(keys) == \A r \in Role : Key[keys[r]] # Absent
Valid(s) == s.valid /\ UniqueShortcuts(s.keys) /\ Parses(s.keys)

(* What the system lets be registered: every shortcut other keys.           *)
Startable(s) == Valid(s) /\ \A r, q \in Role : r # q => Key[s.keys[r]] # Key[s.keys[q]]

ASSUME KeyAssumption == Key \in [Spelling -> Keys \cup {Absent}]
ASSUME ChoiceAssumption == Choice \subseteq [keys: [Role -> Spelling], valid: BOOLEAN]
ASSUME DefaultAssumption == Default \in Choice /\ Startable(Default)
ASSUME AbsentAssumption == Absent \notin Choice /\ Damaged \notin Choice \cup {Absent}
ASSUME SettingsBounds == MaxFaults \in Nat

VARIABLES
  file,        \* settings.json
  aside,       \* the last copy that replace_file left under another name
  memory,      \* AppState.settings, kept here after the process has ended
  registered,  \* the shortcuts in force: pairs of keys and role
  taken,       \* the keys that other programs have registered
  at,          \* where the main thread is
  job,         \* what it is doing, for which settings
  edited,      \* the file was changed by hand and not replaced since
  disturbed,   \* since the last start or success: keys taken, or a step failed
  faults

disk == <<file, aside>>
history == <<edited, disturbed>>
settingsVars == <<disk, memory, registered, taken, at, job, history, faults>>

NoJob == [for |-> "none", settings |-> Absent, next |-> 1, back |-> FALSE]

SettingsInit ==
  /\ file = Absent /\ aside = Absent /\ memory = Absent
  /\ registered = {} /\ taken = {}
  /\ at = "off" /\ job = NoJob
  /\ edited = FALSE /\ disturbed = FALSE /\ faults = 0

Fault == faults < MaxFaults /\ faults' = faults + 1
Readable(content) == content \in Choice /\ Valid(content)
Does(what, s) == job' = [NoJob EXCEPT !.for = what, !.settings = s]

(* An error of setup ends the process, which frees its shortcuts; one of a  *)
(* command is its answer.                                                   *)
Ends == at' = "off" /\ registered' = {}

-----------------------------------------------------------------------------
(* Start: load_settings, then setup_shortcuts *)

LoadStrict ==
  /\ at = "off" /\ file \in Choice \cup {Absent}
  /\ disturbed' = FALSE /\ edited' = (edited /\ file \in Choice /\ ~Startable(file))
  /\ IF file \in Choice
       THEN /\ Readable(file) /\ memory' = file
            /\ at' = "register" /\ Does("start", file)
       ELSE /\ at' = "write" /\ Does("start", Default) /\ UNCHANGED memory
  /\ UNCHANGED <<disk, registered, taken, faults>>

LoadSettings ==
  /\ at = "off"
  /\ disturbed' = FALSE
  /\ IF Readable(file)
       THEN /\ memory' = file /\ edited' = (edited /\ ~Startable(file))
            /\ at' = "register" /\ Does("start", file)
       ELSE /\ at' = IF file = Absent THEN "write" ELSE "quarantine"
            /\ Does("start", Default)
            /\ UNCHANGED <<memory, edited>>
  /\ UNCHANGED <<disk, registered, taken, faults>>

QuarantineInvalid ==
  /\ at = "quarantine"
  /\ file' = Absent /\ at' = "write"
  /\ UNCHANGED <<aside, memory, registered, taken, job, history, faults>>

QuarantineFails ==
  /\ at = "quarantine" /\ Fault
  /\ Ends
  /\ UNCHANGED <<disk, memory, taken, job, history>>

-----------------------------------------------------------------------------
(* update_app_settings and check_shortcuts *)

UpdateSavingFirst(s) ==
  /\ at = "idle" /\ Valid(s)
  /\ at' = "write" /\ Does("update", s)
  /\ UNCHANGED <<disk, memory, registered, taken, history, faults>>

Update(s) ==
  /\ at = "idle" /\ Valid(s)
  /\ at' = "unregister" /\ Does("update", s)
  /\ UNCHANGED <<disk, memory, registered, taken, history, faults>>

(* check_shortcut_availability frees every shortcut, tries the requested    *)
(* ones and frees them again, and registers the current ones anew.          *)
Check(keys) ==
  /\ at = "idle" /\ UniqueShortcuts(keys) /\ Parses(keys)
  /\ registered' = {} /\ at' = "register" /\ Does("check", memory)
  /\ UNCHANGED <<disk, memory, taken, history, faults>>

CheckFails ==
  /\ at = "idle" /\ Fault
  /\ disturbed' = TRUE
  /\ UNCHANGED <<disk, memory, registered, taken, at, job, edited>>

(* apply_shortcuts: all are freed, then registered one by one.              *)
UnregisterAll ==
  /\ at = "unregister"
  /\ registered' = {} /\ at' = "register"
  /\ UNCHANGED <<disk, memory, taken, job, history, faults>>

(* A failure to apply the new settings applies the previous ones, and one   *)
(* of that is ignored.                                                      *)
GivesUp ==
  IF job.for = "start" THEN Ends /\ UNCHANGED job
  ELSE at' = "idle" /\ UNCHANGED <<registered, job>>
GoesBack ==
  IF job.for = "start" THEN Ends /\ UNCHANGED job
  ELSE IF job.for = "update" /\ ~job.back
    THEN /\ at' = "unregister"
         /\ job' = [job EXCEPT !.back = TRUE, !.next = 1]
         /\ UNCHANGED registered
    ELSE at' = "idle" /\ UNCHANGED <<registered, job>>

UnregisterFails ==
  /\ at = "unregister" /\ Fault
  /\ disturbed' = TRUE
  /\ GoesBack
  /\ UNCHANGED <<disk, memory, taken, edited>>

Wanted(s) == {<<Key[s.keys[r]], r>> : r \in Role}
Applied == IF job.back THEN memory ELSE job.settings
NextRole == Roles[job.next]
NextKey == Key[Applied.keys[NextRole]]
Free(k) == k \notin taken /\ \A r \in Role : <<k, r>> \notin registered

Registered(last) ==
  /\ at = "register" /\ Free(NextKey)
  /\ registered' = registered \cup {<<NextKey, NextRole>>}
  /\ IF job.next # last
       THEN at' = at /\ job' = [job EXCEPT !.next = @ + 1]
       ELSE /\ at' = IF job.for = "update" /\ ~job.back THEN "write" ELSE "idle"
            /\ UNCHANGED job
  /\ UNCHANGED <<disk, memory, taken, history, faults>>
RegisterNext == Registered(Len(Roles))

RegisterRefused ==
  /\ at = "register" /\ ~Free(NextKey)
  /\ GoesBack
  /\ UNCHANGED <<disk, memory, taken, history, faults>>

-----------------------------------------------------------------------------
(* save_settings and replace_file *)

(* A new file under a temporary name, written and synchronised.             *)
WriteTemporary ==
  /\ at = "write"
  /\ at' = "rename"
  /\ UNCHANGED <<disk, memory, registered, taken, job, history, faults>>

RenameInto(before, after) ==
  /\ at = before /\ at' = after
  /\ file' = job.settings
  /\ UNCHANGED <<memory, registered, taken, job, history, faults>>

Rename == RenameInto("rename", "adopt") /\ UNCHANGED aside

(* The fallback when the file cannot be renamed over an existing one.       *)
RenameFails ==
  /\ at = "rename" /\ file # Absent /\ Fault
  /\ at' = "move"
  /\ UNCHANGED <<disk, memory, registered, taken, job, history>>

MoveAsideDeleting ==
  /\ at = "move"
  /\ aside' = Absent /\ file' = Absent /\ at' = "replace"
  /\ UNCHANGED <<memory, registered, taken, job, history, faults>>
MoveAside ==
  /\ at = "move"
  /\ aside' = file /\ file' = Absent /\ at' = "replace"
  /\ UNCHANGED <<memory, registered, taken, job, history, faults>>

Replace == RenameInto("replace", "adopt") /\ aside' \in {Absent, aside}

ReplaceFails ==
  /\ at = "replace" /\ Fault
  /\ at' = "restore"
  /\ UNCHANGED <<disk, memory, registered, taken, job, history>>

(* The new shortcuts stay in force when the new settings cannot be saved.   *)
NotSaved ==
  /\ IF job.for = "start" THEN Ends ELSE at' = "idle" /\ UNCHANGED registered
  /\ disturbed' = TRUE
  /\ UNCHANGED <<memory, taken, job, edited>>

Restore ==
  /\ at = "restore"
  /\ file' = aside /\ aside' = Absent
  /\ NotSaved /\ UNCHANGED faults

RestoreFails == at = "restore" /\ Fault /\ NotSaved /\ UNCHANGED disk

SaveFails ==
  /\ \/ at \in {"write", "move"}
     \/ at = "rename" /\ file = Absent
  /\ Fault /\ NotSaved /\ UNCHANGED disk

(* The settings replace those in memory; a start goes on to its shortcuts.  *)
Adopt ==
  /\ at = "adopt"
  /\ memory' = job.settings
  /\ at' = IF job.for = "start" THEN "register" ELSE "idle"
  /\ edited' = FALSE /\ disturbed' = (disturbed /\ job.for = "start")
  /\ UNCHANGED <<disk, registered, taken, job, faults>>

-----------------------------------------------------------------------------
(* The user, other programs, and the end of the process *)

Quit ==
  /\ at = "idle" /\ Ends
  /\ UNCHANGED <<disk, memory, taken, job, history, faults>>

Crash ==
  /\ at # "off" /\ Fault /\ Ends
  /\ UNCHANGED <<disk, memory, taken, job, history>>

EditFile(content) ==
  /\ at = "off" /\ Fault
  /\ file' = content /\ edited' = TRUE
  /\ UNCHANGED <<aside, memory, registered, taken, at, job, disturbed>>

Take(k) ==
  /\ Free(k)
  /\ taken' = taken \cup {k}
  /\ disturbed' = (disturbed \/ at # "off")
  /\ UNCHANGED <<disk, memory, registered, at, job, edited, faults>>

Release(k) ==
  /\ k \in taken /\ taken' = taken \ {k}
  /\ UNCHANGED <<disk, memory, registered, at, job, history, faults>>

-----------------------------------------------------------------------------
Save ==
  \/ WriteTemporary \/ Rename \/ MoveAside \/ Replace \/ Restore \/ Adopt
Apply == UnregisterAll \/ RegisterNext \/ RegisterRefused
SettingsFail ==
  \/ QuarantineFails \/ CheckFails \/ UnregisterFails
  \/ RenameFails \/ ReplaceFails \/ RestoreFails \/ SaveFails
AppStep == LoadSettings \/ QuarantineInvalid \/ Apply \/ Save

SettingsNext ==
  \/ AppStep \/ SettingsFail \/ Quit \/ Crash
  \/ \E s \in Choice : Update(s) \/ Check(s.keys)
  \/ \E content \in Choice \cup {Damaged, Absent} : EditFile(content)
  \/ \E k \in Keys : Take(k) \/ Release(k)

SettingsSpec == SettingsInit /\ [][SettingsNext]_settingsVars

(* The main thread runs, and the user starts the application again.         *)
FairSettings == SettingsSpec /\ WF_settingsVars(AppStep)
-----------------------------------------------------------------------------
(* Properties *)

Jobs == [for: {"none", "start", "update", "check"}, settings: Choice \cup {Absent},
         next: 1..Len(Roles), back: BOOLEAN]

(* Every variable holds a value of its kind.                               *)
SettingsTypeOK ==
  /\ file \in Choice \cup {Absent, Damaged} /\ aside \in Choice \cup {Absent, Damaged}
  /\ memory \in Choice \cup {Absent}
  /\ registered \subseteq Keys \X Role /\ taken \subseteq Keys
  /\ at \in {"off", "quarantine", "unregister", "register", "write", "rename", "move",
             "replace", "restore", "adopt", "idle"}
  /\ job \in Jobs
  /\ edited \in BOOLEAN /\ disturbed \in BOOLEAN /\ faults \in 0..MaxFaults

(* Whatever fails and wherever the process ends, the settings in use are on *)
(* disk: in the file, which a command under way or a crash in it can have   *)
(* replaced by the settings it saves, or in the copy moved aside.           *)
SettingsSurvive ==
  \/ edited
  \/ file = memory
  \/ file = job.settings /\ at # "idle"
  \/ file = Absent /\ aside = memory

(* The program never writes a file with which it could not start again:     *)
(* settings are saved only once the system has taken all their shortcuts.   *)
FileStarts == edited \/ file = Absent \/ (file \in Choice /\ Startable(file))

(* When no command runs, exactly the shortcuts of the settings in use are   *)
(* in force, whatever was tried, refused or checked in between, unless      *)
(* another program took keys meanwhile or a step failed.                    *)
ShortcutsInForce == at = "idle" /\ ~disturbed => registered = Wanted(memory)

(* Once other programs leave the keys alone, the application starts again,  *)
(* from a missing or damaged file too.  Only a file edited by hand to two   *)
(* spellings of the same keys, which validate_settings lets pass, keeps it  *)
(* from starting.                                                           *)
Unstartable(content) == Readable(content) /\ ~Startable(content)
ComesBack == <>[](taken = {}) => []<>(at = "idle" \/ Unstartable(file))
=============================================================================
