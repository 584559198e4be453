----------------------------- MODULE WalletFile -----------------------------
(***************************************************************************)
(* How the Python wallet keeps its file (PyBtcWallet.walletFileSafeUpdate  *)
(* and doWalletFileConsistencyCheck): every update is made to the wallet   *)
(* file and then to its backup, and two flag files tell after an           *)
(* interruption which of the two can be trusted.                           *)
(*                                                                         *)
(* A file's content is the number of updates it holds.  A file that is     *)
(* being written or copied over is Torn until that is finished: what a     *)
(* stop in between leaves of it is not known.                              *)
(***************************************************************************)
EXTENDS Integers

CONSTANTS
  StopsInCreation,  \* may the process stop while the first backup is made?
  MaxWrites        \* bound: updates the files can hold

ASSUME WalletFileAssumption == StopsInCreation \in BOOLEAN /\ MaxWrites \in Nat

Torn == -1
None == -2
Content == -2 .. MaxWrites

VARIABLES
  main,              \* the wallet file
  backup,
  mainUpdateFlag,    \* the file update_unsuccessful exists
  backupUpdateFlag,  \* the file backup_unsuccessful exists
  step,
  loading,           \* the check is made by readWalletFile
  base,              \* what the file being written held before
  caught,            \* an IOError has been caught
  told               \* how the last update ended for its caller

files == <<main, backup>>
flags == <<mainUpdateFlag, backupUpdateFlag>>
locals == <<loading, base, caught, told>>
fileVars == <<files, flags, step, locals>>

Passes(from, to) == step = from /\ step' = to

(* createNewWallet (940-979) has written the wallet file. *)
FileInit ==
  /\ main = 0 /\ backup = None
  /\ mainUpdateFlag = FALSE /\ backupUpdateFlag = FALSE
  /\ step = "new"
  /\ loading = FALSE /\ base = None /\ caught = FALSE /\ told = "nothing"

(* Overwriting a file, and finishing with the given content. *)
TearMain(from, to) ==
  Passes(from, to) /\ main' = Torn /\ UNCHANGED <<backup, flags, locals>>
FillMain(from, to, content) ==
  Passes(from, to) /\ main' = content /\ UNCHANGED <<backup, flags, locals>>
TearBackup(from, to) ==
  Passes(from, to) /\ backup' = Torn /\ UNCHANGED <<main, flags, locals>>
FillBackup(from, to, content) ==
  Passes(from, to) /\ backup' = content /\ UNCHANGED <<main, flags, locals>>

(* touchFile and os.remove on the two flags *)
SetFlags(from, to, m, b) ==
  /\ Passes(from, to)
  /\ mainUpdateFlag' = m /\ backupUpdateFlag' = b
  /\ UNCHANGED <<files, locals>>

Goto(from, to) == Passes(from, to) /\ UNCHANGED <<files, flags, locals>>

(* The end of walletFileSafeUpdate, as its caller sees it. *)
Return(from, result) ==
  /\ Passes(from, "ready")
  /\ told' = result
  /\ UNCHANGED <<files, loading, base, caught>>

-----------------------------------------------------------------------------
(* createNewWallet, 981-983: the first backup, if one is wanted, is a      *)
(* plain copy.                                                             *)
CreateNoBackup == Goto("new", "ready")
CreateBackup == TearBackup("new", "creatingBackup")
CreatedBackup == FillBackup("creatingBackup", "ready", main)

Load ==
  /\ Passes("down", "check")
  /\ loading' = TRUE
  /\ UNCHANGED <<files, flags, base, caught, told>>

StartUpdate ==
  /\ Passes("ready", "check")
  /\ loading' = FALSE /\ caught' = FALSE /\ told' = "nothing"
  /\ UNCHANGED <<files, flags, base>>

-----------------------------------------------------------------------------
(* doWalletFileConsistencyCheck.  After the flags have been removed its    *)
(* conditions are looked at again, and none of them holds.                 *)

CheckNoBackup ==
  backup = None /\ SetFlags("check", "copyToBackup", mainUpdateFlag, TRUE)

CheckBoth ==
  /\ backup # None /\ backupUpdateFlag /\ mainUpdateFlag
  /\ Goto("check", "copyToBackup")

CheckMain ==
  /\ backup # None /\ ~backupUpdateFlag /\ mainUpdateFlag
  /\ Goto("check", "copyToMain")

CheckBackup ==
  /\ backup # None /\ backupUpdateFlag /\ ~mainUpdateFlag
  /\ Goto("check", "copyToBackup")

CheckClean ==
  /\ backup # None /\ ~backupUpdateFlag /\ ~mainUpdateFlag
  /\ Goto("check", IF loading THEN "ready" ELSE "checked")

CopyToBackup == TearBackup("copyToBackup", "copyingToBackup")
CopiedToBackup == FillBackup("copyingToBackup", "removeFlags", main)
CopyToMain == TearMain("copyToMain", "copyingToMain")
CopiedToMain == FillMain("copyingToMain", "removeFlags", backup)

RemoveMainFlag ==
  /\ mainUpdateFlag
  /\ SetFlags("removeFlags", IF backupUpdateFlag THEN "removeFlags" ELSE "check",
              FALSE, backupUpdateFlag)

RemoveBackupFlag ==
  ~mainUpdateFlag /\ SetFlags("removeFlags", "check", FALSE, FALSE)

Check ==
  \/ CheckNoBackup \/ CheckBoth \/ CheckMain \/ CheckBackup \/ CheckClean
  \/ CopyToBackup \/ CopiedToBackup \/ CopyToMain \/ CopiedToMain
  \/ RemoveMainFlag \/ RemoveBackupFlag

-----------------------------------------------------------------------------
(* walletFileSafeUpdate, once both files are the same *)

(* 2332: an update list that cannot be packed *)
BadInput == Return("checked", "emptyList") /\ UNCHANGED flags

(* Mutant: the main file is written without its flag. *)
TouchMainNot == main < MaxWrites /\ Goto("checked", "writeMain")

TouchMain ==
  main < MaxWrites /\ SetFlags("checked", "writeMain", TRUE, backupUpdateFlag)

(* The update on top of what the file holds; nothing makes a torn one      *)
(* whole.                                                                  *)
Applied(content) == IF content = Torn THEN Torn ELSE content + 1

(* 2342-2358 *)
WriteMain ==
  /\ Passes("writeMain", "writingMain")
  /\ base' = main
  /\ main' = Torn
  /\ UNCHANGED <<backup, flags, loading, caught, told>>

WroteMain == FillMain("writingMain", "touchBackup", Applied(base))

(* 2360: the file could not be opened, or not written to the end. *)
MainIOError ==
  /\ \E from \in {"writeMain", "writingMain"} : Passes(from, "restoreMain")
  /\ caught' = TRUE
  /\ UNCHANGED <<files, flags, loading, base, told>>

RestoreMain == TearMain("restoreMain", "restoringMain")
RestoredMain == FillMain("restoringMain", "restoredMain", backup)

GiveUp ==
  /\ Return("restoredMain", "emptyList")
  /\ mainUpdateFlag' = FALSE /\ UNCHANGED backupUpdateFlag

TouchBackup == SetFlags("touchBackup", "dropMainFlag", mainUpdateFlag, TRUE)

(* Mutant: the other flag is removed. *)
DropMainFlagWrong == SetFlags("dropMainFlag", "writeBackup", mainUpdateFlag, FALSE)

DropMainFlag == SetFlags("dropMainFlag", "writeBackup", FALSE, backupUpdateFlag)

(* 2376-2392 *)
WriteBackup ==
  /\ Passes("writeBackup", "writingBackup")
  /\ base' = backup
  /\ backup' = Torn
  /\ UNCHANGED <<main, flags, loading, caught, told>>

WroteBackup == FillBackup("writingBackup", "dropBackupFlag", Applied(base))

BackupIOError ==
  /\ \E from \in {"writeBackup", "writingBackup"} : Passes(from, "copyAgain")
  /\ caught' = TRUE
  /\ UNCHANGED <<files, flags, loading, base, told>>

CopyAgain == TearBackup("copyAgain", "copyingAgain")
CopiedAgain == FillBackup("copyingAgain", "copiedAgain", main)

(* 2397: os.remove(mainUpdateFlag), which was removed at 2373 already *)
RemoveMissingFlag ==
  /\ ~mainUpdateFlag
  /\ Return("copiedAgain", "exception") /\ UNCHANGED flags

DropBackupFlag ==
  /\ Return("dropBackupFlag", "list")
  /\ backupUpdateFlag' = FALSE /\ UNCHANGED mainUpdateFlag

SafeUpdate ==
  \/ BadInput \/ TouchMain \/ WriteMain \/ WroteMain
  \/ MainIOError \/ RestoreMain \/ RestoredMain \/ GiveUp
  \/ TouchBackup \/ DropMainFlag \/ WriteBackup \/ WroteBackup
  \/ BackupIOError \/ CopyAgain \/ CopiedAgain \/ RemoveMissingFlag
  \/ DropBackupFlag

-----------------------------------------------------------------------------
MayStop == StopsInCreation \/ step # "creatingBackup"

(* The process is stopped, or the power goes out. *)
Stop ==
  /\ MayStop /\ step # "down"
  /\ step' = "down" /\ caught' = FALSE /\ told' = "nothing"
  /\ UNCHANGED <<files, flags, loading, base>>

(* Any other exception leaves the method where it is; the process goes on, *)
(* without the wallet if it was being read or created.                     *)
Escape ==
  /\ MayStop /\ step \notin {"down", "ready", "new"}
  /\ step' = IF loading \/ step = "creatingBackup" THEN "down" ELSE "ready"
  /\ caught' = FALSE /\ told' = "exception"
  /\ UNCHANGED <<files, flags, loading, base>>

FileNext ==
  \/ CreateNoBackup \/ CreateBackup \/ CreatedBackup
  \/ Load \/ StartUpdate \/ Check \/ SafeUpdate \/ Stop \/ Escape

FileSpec == FileInit /\ [][FileNext]_fileVars

-----------------------------------------------------------------------------
(* Properties *)

(* Two files and two flags; a file holds no more updates than were made. *)
FileTypeOK ==
  /\ main \in Content /\ backup \in Content /\ base \in Content
  /\ mainUpdateFlag \in BOOLEAN /\ backupUpdateFlag \in BOOLEAN
  /\ loading \in BOOLEAN /\ caught \in BOOLEAN
  /\ told \in {"nothing", "list", "emptyList", "exception"}

(* The file the flags say is the good one. *)
SafeFile == IF mainUpdateFlag /\ ~backupUpdateFlag THEN backup ELSE main

(* walletFileSafeUpdate's promise (1): no matter when the power goes out,  *)
(* there is an uncorrupted wallet file, and the flags tell which one.      *)
Recoverable == SafeFile >= 0

(* doWalletFileConsistencyCheck brings both files to the exact same state: *)
(* when an update begins they are equal.                                   *)
SyncedWhenChecked == step = "checked" => main = backup

(* What a good file holds is never lost again, whatever fails after it:    *)
(* from step to step the good file holds at least the same updates.        *)
SafeNeverLost == [][SafeFile' >= SafeFile]_fileVars

(* "If this method fails, we simply return an empty list": so it is for    *)
(* every IOError that walletFileSafeUpdate catches.  Does not hold         *)
(* (README).                                                               *)
CaughtReturnsEmpty == step = "ready" /\ caught => told = "emptyList"
=============================================================================
