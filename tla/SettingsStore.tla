---------------------------- MODULE SettingsStore ----------------------------
(***************************************************************************)
(* A durable settings file (persist/mod.rs): commands replace the value in *)
(* memory and leave one wake-up for the store's thread, which waits until  *)
(* no other has come for a while, copies the value and replaces the file   *)
(* through a temporary one.  The process may end between any two steps:    *)
(* nothing flushes the store on the way out, so quitting is a crash here.  *)
(* A value is the number of the change that made it, 0 the default.        *)
(***************************************************************************)
EXTENDS Naturals

CONSTANTS
  MaxSettings,   \* bound: changes
  MaxExits       \* bound: times the program ends

ASSUME SettingsAssumption == MaxSettings \in Nat /\ MaxExits \in Nat

Torn == MaxSettings + 1     \* a file that was created and not written yet
Absent == MaxSettings + 2

VARIABLES
  value,      \* PersistedStore.value
  made,       \* number of changes
  file,       \* the settings file
  tempFile,   \* its temporary file
  wakeUp,     \* is there a message in flush_wake?
  setter,     \* the main thread: at "rest", or between the value and the wake-up
  keeper,     \* where the store's thread is
  copied,     \* the value it took
  exits,      \* number of times the program ended
  spared      \* history: changes a failed write or an exit may have cost

settingsVars ==
  <<value, made, file, tempFile, wakeUp, setter, keeper, copied, exits, spared>>

SettingsInit ==
  /\ value = 0 /\ made = 0 /\ file = Absent /\ tempFile = Absent
  /\ wakeUp = FALSE /\ setter = "rest" /\ keeper = "asleep" /\ copied = 0
  /\ exits = 0 /\ spared = 0

OnDisk == UNCHANGED <<file, tempFile>>

\* save_config, save_session, set_log_level; commands run one after the other.
Replace ==
  /\ setter = "rest" /\ made < MaxSettings
  /\ made' = made + 1 /\ value' = made + 1 /\ setter' = "changed"
  /\ OnDisk /\ UNCHANGED <<wakeUp, keeper, copied, exits, spared>>

\* Mutant: only a thread that sleeps is woken.
ScheduleIfAsleep ==
  /\ setter = "changed" /\ setter' = "rest" /\ wakeUp' = (wakeUp \/ keeper = "asleep")
  /\ OnDisk /\ UNCHANGED <<value, made, keeper, copied, exits, spared>>

\* A wake-up that finds the slot taken is dropped.
Schedule ==
  /\ setter = "changed" /\ setter' = "rest" /\ wakeUp' = TRUE
  /\ OnDisk /\ UNCHANGED <<value, made, keeper, copied, exits, spared>>

\* recv, and recv_timeout while messages keep coming.
TakeWakeUp ==
  /\ keeper \in {"asleep", "quiet"} /\ wakeUp /\ wakeUp' = FALSE /\ keeper' = "quiet"
  /\ OnDisk /\ UNCHANGED <<value, made, setter, copied, exits, spared>>

QuietLongEnough ==
  /\ keeper = "quiet" /\ ~wakeUp /\ keeper' = "copy"
  /\ OnDisk /\ UNCHANGED <<value, made, wakeUp, setter, copied, exits, spared>>

CopyValue ==
  /\ keeper = "copy" /\ keeper' = "create" /\ copied' = value
  /\ OnDisk /\ UNCHANGED <<value, made, wakeUp, setter, exits, spared>>

\* Mutant: the file itself is truncated.
CreateInPlace ==
  /\ keeper = "create" /\ keeper' = "fill" /\ file' = Torn /\ UNCHANGED tempFile
  /\ UNCHANGED <<value, made, wakeUp, setter, copied, exits, spared>>

CreateTemp ==
  /\ keeper = "create" /\ keeper' = "fill" /\ tempFile' = Torn /\ UNCHANGED file
  /\ UNCHANGED <<value, made, wakeUp, setter, copied, exits, spared>>

FillTemp ==
  /\ keeper = "fill" /\ keeper' = "swap" /\ tempFile' = copied /\ UNCHANGED file
  /\ UNCHANGED <<value, made, wakeUp, setter, copied, exits, spared>>

SwapFile ==
  /\ keeper = "swap" /\ keeper' = "asleep" /\ file' = tempFile /\ tempFile' = Absent
  /\ UNCHANGED <<value, made, wakeUp, setter, copied, exits, spared>>

\* The worker ignores the error; the next change tries again.
WriteFails ==
  /\ keeper \in {"create", "fill", "swap"} /\ keeper' = "asleep" /\ spared' = made
  /\ OnDisk /\ UNCHANGED <<value, made, wakeUp, setter, copied, exits>>

\* The program ends and starts again from the file.
ExitAndLoad ==
  /\ exits < MaxExits /\ exits' = exits + 1 /\ spared' = made
  /\ value' = IF file = Absent THEN 0 ELSE file
  /\ wakeUp' = FALSE /\ setter' = "rest" /\ keeper' = "asleep" /\ copied' = 0
  /\ OnDisk /\ UNCHANGED made

Keeper == TakeWakeUp \/ QuietLongEnough \/ CopyValue \/ CreateTemp \/ FillTemp \/ SwapFile

SettingsNext == Replace \/ Schedule \/ Keeper \/ WriteFails \/ ExitAndLoad

SettingsSpec == SettingsInit /\ [][SettingsNext]_settingsVars

SettingsFairness == WF_settingsVars(Schedule) /\ WF_settingsVars(Keeper)

-----------------------------------------------------------------------------
(* Properties.                                                             *)

\* Whenever the program ends, the next start finds settings that were whole
\* and current once, and none newer than the ones in memory.
SettingsInv ==
  /\ value \in 0..made /\ copied <= value
  /\ file = Absent \/ file <= value

\* Every change reaches the disk, itself or in a later one, unless a write
\* failed or the program ended since: no wake-up is lost in the one slot.
SettingsSaved ==
  \A v \in 1..MaxSettings :
    value = v ~> ((file # Absent /\ file >= v) \/ spared >= v)
=============================================================================
