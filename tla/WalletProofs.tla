---------------------------- MODULE WalletProofs ----------------------------
(***************************************************************************)
(* The addresses of the wallets are registered before their clients are    *)
(* told, for any sets of addresses and any number of requests and blocks;  *)
(* and the file of a wallet survives every interruption, for any number of *)
(* updates and stops, as long as the first backup is made in peace.        *)
(*                                                                         *)
(* The invariant of the registration, IInv, follows an address: from its   *)
(* request into the request's own scrAddrSet_, or into that of a request   *)
(* it is bound to, and from there into scrAddrMap_ before that request's   *)
(* promises are set.  Nothing is ever taken out of scrAddrMap_, and only   *)
(* who registers can gain work.                                            *)
(*                                                                         *)
(* That of the file, FileInv, says what an interruption may leave at each  *)
(* stage of the check and of an update.                                    *)
(***************************************************************************)
EXTENDS ScrAddrFilter, WalletFile, TLAPS

(* A leaf that names no prover is for Zenon, and for SMT if Zenon fails. *)
USE ZenonT(10), SMTT(60)

OnlyMainFlag == mainUpdateFlag /\ ~backupUpdateFlag
OnlyBackupFlag == ~mainUpdateFlag /\ backupUpdateFlag
NoFlag == ~mainUpdateFlag /\ ~backupUpdateFlag

(* What an interruption may leave.  The file that is not vouched for by    *)
(* the flags can be anything; without flags the two files are the same, or *)
(* there is no backup yet.                                                 *)
LeftBehind ==
  /\ OnlyMainFlag => backup >= 0
  /\ ~OnlyMainFlag => main >= 0
  /\ NoFlag => step = "creatingBackup" \/ backup \in {main, None}
  /\ backup = None => ~mainUpdateFlag

(* How far the check has come. *)
CheckStages ==
  /\ step \in {"new", "creatingBackup", "checked"} => NoFlag
  /\ step = "checked" => backup # None
  /\ step = "creatingBackup" => backup # None
  /\ step \in {"copyToBackup", "copyingToBackup"} => backupUpdateFlag
  /\ step \in {"copyToMain", "copyingToMain"} => OnlyMainFlag
  /\ step = "removeFlags" => backup = main /\ ~NoFlag

(* How far the update has come: first the wallet file is one ahead, then   *)
(* the backup follows.                                                     *)
UpdateStages ==
  /\ step \in {"writeMain", "writingMain", "restoreMain", "restoringMain", "restoredMain",
             "touchBackup"} => OnlyMainFlag
  /\ step \in {"writeMain", "restoredMain"} => main = backup
  /\ step = "writeMain" => main < MaxWrites
  /\ step = "writingMain" => base = backup /\ base < MaxWrites
  /\ step \in {"touchBackup", "dropMainFlag", "writeBackup"} => main = backup + 1 /\ backup >= 0
  /\ step = "dropMainFlag" => mainUpdateFlag /\ backupUpdateFlag
  /\ step \in {"writeBackup", "writingBackup", "copyAgain", "copyingAgain", "copiedAgain",
             "dropBackupFlag"} => OnlyBackupFlag
  /\ step = "writingBackup" => base >= 0 /\ main = base + 1
  /\ step \in {"copiedAgain", "dropBackupFlag"} => main = backup

FileInv == FileTypeOK /\ LeftBehind /\ CheckStages /\ UpdateStages

(* What a file that is torn or missing is taken for. *)
LEMMA TornNone ==
  /\ Torn \in Content /\ None \in Content /\ Torn # None /\ ~(Torn >= 0) /\ ~(None >= 0)
  /\ 0 \in Content
  /\ \A c \in Content : c \in Int /\ c <= MaxWrites
  /\ \A c \in Content : c >= 0 \/ c = Torn \/ c = None
  /\ \A c \in Int : c >= 0 /\ c < MaxWrites => c + 1 \in Content
BY WalletFileAssumption, SMTT(60) DEF Torn, None, Content

(* A wallet that has just been written satisfies the invariant. *)
LEMMA InitFileInv == FileInit => FileInv
<1> SUFFICES ASSUME FileInit PROVE FileInv
  OBVIOUS
<1> USE TornNone DEF FileInit, OnlyMainFlag, OnlyBackupFlag, NoFlag
<1>1. FileTypeOK
  BY ZenonT(60) DEF FileTypeOK
<1>2. LeftBehind
  BY SMTT(60) DEF LeftBehind
<1>3. CheckStages /\ UpdateStages
  BY DEF CheckStages, UpdateStages
<1> QED BY <1>1, <1>2, <1>3 DEF FileInv

(* No step of the check or of an update, and no interruption, leaves the   *)
(* invariant.                                                              *)
LEMMA NextFileInv ==
  ASSUME ~StopsInCreation, FileInv, [FileNext]_fileVars
  PROVE  FileInv'
<1> USE WalletFileAssumption, TornNone
    DEF FileInv, FileTypeOK, LeftBehind, CheckStages, UpdateStages, OnlyMainFlag,
        OnlyBackupFlag, NoFlag,
        files, flags, locals, Passes
<1>1. CASE CreateNoBackup
  BY <1>1 DEF CreateNoBackup, Goto
<1>2. CASE CreateBackup
  BY <1>2 DEF CreateBackup, TearBackup
<1>3. CASE CreatedBackup
  BY <1>3 DEF CreatedBackup, FillBackup
<1>4. CASE Load
  BY <1>4 DEF Load
<1>5. CASE StartUpdate
  BY <1>5, ZenonT(60) DEF StartUpdate
<1>6. CASE Check
  <2>1. CASE CheckNoBackup
      BY <2>1 DEF CheckNoBackup, SetFlags
  <2>2. CASE CheckBoth
      BY <2>2 DEF CheckBoth, Goto
  <2>3. CASE CheckMain
      BY <2>3 DEF CheckMain, Goto
  <2>4. CASE CheckBackup
      BY <2>4 DEF CheckBackup, Goto
  <2>5. CASE CheckClean
      BY <2>5 DEF CheckClean, Goto
  <2>6. CASE CopyToBackup
      BY <2>6 DEF CopyToBackup, TearBackup
  <2>7. CASE CopiedToBackup
      BY <2>7 DEF CopiedToBackup, FillBackup
  <2>8. CASE CopyToMain
      BY <2>8 DEF CopyToMain, TearMain
  <2>9. CASE CopiedToMain
      BY <2>9 DEF CopiedToMain, FillMain
  <2>10. CASE RemoveMainFlag
      BY <2>10, ZenonT(60) DEF RemoveMainFlag, SetFlags
  <2>11. CASE RemoveBackupFlag
      BY <2>11, ZenonT(60) DEF RemoveBackupFlag, SetFlags
  <2> QED BY <1>6, <2>1, <2>2, <2>3, <2>4, <2>5, <2>6, <2>7, <2>8, <2>9, <2>10, <2>11, ZenonT(60)
          DEF Check
<1>7. CASE SafeUpdate
  <2>1. CASE BadInput
      BY <2>1 DEF BadInput, Return
  <2>2. CASE TouchMain
      BY <2>2 DEF TouchMain, SetFlags
  <2>3. CASE WriteMain
      BY <2>3 DEF WriteMain
  <2>4. CASE WroteMain
      BY <2>4 DEF WroteMain, FillMain, Applied
  <2>5. CASE MainIOError
      BY <2>5 DEF MainIOError
  <2>6. CASE RestoreMain
      BY <2>6 DEF RestoreMain, TearMain
  <2>7. CASE RestoredMain
      BY <2>7 DEF RestoredMain, FillMain
  <2>8. CASE GiveUp
      BY <2>8, ZenonT(60) DEF GiveUp, Return
  <2>9. CASE TouchBackup
    <3>0. backup \in Int
      OBVIOUS
    <3>1. backup >= 0 /\ main = backup + 1
      BY <2>9 DEF TouchBackup, SetFlags
    <3>2. main >= 0
      BY ONLY <3>0, <3>1
    <3> QED BY <2>9, <3>1, <3>2 DEF TouchBackup, SetFlags
  <2>10. CASE DropMainFlag
      BY <2>10, ZenonT(60) DEF DropMainFlag, SetFlags
  <2>11. CASE WriteBackup
      BY <2>11 DEF WriteBackup
  <2>12. CASE WroteBackup
      BY <2>12 DEF WroteBackup, FillBackup, Applied
  <2>13. CASE BackupIOError
      BY <2>13 DEF BackupIOError
  <2>14. CASE CopyAgain
      BY <2>14 DEF CopyAgain, TearBackup
  <2>15. CASE CopiedAgain
      BY <2>15 DEF CopiedAgain, FillBackup
  <2>16. CASE RemoveMissingFlag
      BY <2>16 DEF RemoveMissingFlag, Return
  <2>17. CASE DropBackupFlag
      BY <2>17, ZenonT(60) DEF DropBackupFlag, Return
  <2> QED BY <1>7, <2>1, <2>2, <2>3, <2>4, <2>5, <2>6, <2>7, <2>8, <2>9, <2>10, <2>11, <2>12,
             <2>13, <2>14, <2>15, <2>16, <2>17, ZenonT(60) DEF SafeUpdate
<1>8. CASE Stop
  BY <1>8, ZenonT(60) DEF Stop, MayStop
<1>9. CASE Escape
  BY <1>9, ZenonT(60) DEF Escape, MayStop
<1>10. CASE UNCHANGED fileVars
  BY <1>10 DEF fileVars
<1> QED BY <1>1, <1>2, <1>3, <1>4, <1>5, <1>6, <1>7, <1>8, <1>9, <1>10, ZenonT(60) DEF FileNext

(* The invariant holds in every state when creating a wallet is not        *)
(* interrupted.                                                            *)
THEOREM Invariance == ASSUME ~StopsInCreation PROVE FileSpec => []FileInv
<1>1. FileInv /\ [FileNext]_fileVars => FileInv'
  BY NextFileInv
<1> QED BY InitFileInv, <1>1, PTL DEF FileSpec

(* walletFileSafeUpdate's types, and its bound. *)
THEOREM TypeCorrect == ASSUME ~StopsInCreation PROVE FileSpec => []FileTypeOK
<1>1. FileInv => FileTypeOK
  BY DEF FileInv
<1> QED BY Invariance, <1>1, PTL

(* Whenever the process stops, one file is good and the flags say which. *)
THEOREM AlwaysRecoverable == ASSUME ~StopsInCreation PROVE FileSpec => []Recoverable
<1>1. FileInv => Recoverable
  BY DEF FileInv, LeftBehind, OnlyMainFlag, Recoverable, SafeFile
<1> QED BY Invariance, <1>1, PTL

(* An update starts from two equal files. *)
THEOREM AlwaysSynced == ASSUME ~StopsInCreation PROVE FileSpec => []SyncedWhenChecked
<1>1. FileInv => SyncedWhenChecked
  BY DEF FileInv, LeftBehind, CheckStages, NoFlag, SyncedWhenChecked
<1> QED BY Invariance, <1>1, PTL

(* No step takes an update back from the file that is good. *)
LEMMA NextSafe ==
  ASSUME ~StopsInCreation, FileInv, [FileNext]_fileVars
  PROVE  SafeFile' >= SafeFile
<1>1. main \in Int /\ backup \in Int
  BY TornNone DEF FileInv, FileTypeOK
<1>2. CASE TouchBackup
  <2>1. OnlyMainFlag /\ backup >= 0 /\ main = backup + 1
    BY <1>2 DEF TouchBackup, SetFlags, Passes, FileInv, UpdateStages
  <2>2. SafeFile = backup /\ SafeFile' = main
    BY <1>2, <2>1 DEF TouchBackup, SetFlags, SafeFile, OnlyMainFlag, files
  <2> QED BY <1>1, <2>1, <2>2, SMTT(60)
<1>3. CASE ~TouchBackup
  <2>0. SUFFICES SafeFile' = SafeFile
    BY <1>1, SMTT(60) DEF SafeFile
  <2> USE DEF FileInv, LeftBehind, CheckStages, UpdateStages, OnlyMainFlag, OnlyBackupFlag, NoFlag,
              SafeFile, files, flags, locals, Passes
  <2>1. CASE UNCHANGED <<main, backup, mainUpdateFlag, backupUpdateFlag>>
    BY <2>1
  <2>2. CASE CreateBackup \/ CreatedBackup \/ CopyToBackup \/ CopiedToBackup
    <3> USE DEF CreateBackup, CreatedBackup, CopyToBackup, CopiedToBackup, TearBackup, FillBackup
    <3>1. ~OnlyMainFlag
      BY <2>2
    <3>2. main' = main /\ UNCHANGED <<mainUpdateFlag, backupUpdateFlag>>
      BY <2>2
    <3> QED BY <3>1, <3>2
  <2>3. CASE WriteBackup \/ WroteBackup \/ CopyAgain \/ CopiedAgain
    BY <2>3 DEF WriteBackup, WroteBackup, CopyAgain, CopiedAgain, TearBackup, FillBackup
  <2>4. CASE CopyToMain \/ CopiedToMain \/ WriteMain \/ WroteMain
    <3> USE DEF CopyToMain, CopiedToMain, WriteMain, WroteMain, TearMain, FillMain
    <3>1. OnlyMainFlag
      BY <2>4
    <3>2. backup' = backup /\ UNCHANGED <<mainUpdateFlag, backupUpdateFlag>>
      BY <2>4
    <3> QED BY <3>1, <3>2
  <2>5. CASE RestoreMain \/ RestoredMain
    <3> USE DEF RestoreMain, RestoredMain, TearMain, FillMain
    <3>1. OnlyMainFlag
      BY <2>5
    <3>2. backup' = backup /\ UNCHANGED <<mainUpdateFlag, backupUpdateFlag>>
      BY <2>5
    <3> QED BY <3>1, <3>2
  <2>6. CASE CheckNoBackup \/ RemoveMainFlag \/ RemoveBackupFlag
    BY <2>6 DEF CheckNoBackup, RemoveMainFlag, RemoveBackupFlag, SetFlags
  <2>7. CASE TouchMain \/ GiveUp \/ DropMainFlag \/ DropBackupFlag
    BY <2>7 DEF TouchMain, GiveUp, DropMainFlag, DropBackupFlag, SetFlags, Return
  <2>8. CASE Load \/ StartUpdate \/ Stop \/ Escape \/ CreateNoBackup
    BY <2>1, <2>8 DEF Load, StartUpdate, Stop, Escape, CreateNoBackup, Goto
  <2>9. CASE CheckBoth \/ CheckMain \/ CheckBackup \/ CheckClean
    BY <2>1, <2>9 DEF CheckBoth, CheckMain, CheckBackup, CheckClean, Goto
  <2>10. CASE BadInput \/ MainIOError \/ BackupIOError \/ RemoveMissingFlag
    BY <2>1, <2>10 DEF BadInput, MainIOError, BackupIOError, RemoveMissingFlag, Return
  <2>11. CASE UNCHANGED fileVars
    BY <2>1, <2>11 DEF fileVars
  <2> QED
    BY <1>3, <2>2, <2>3, <2>4, <2>5, <2>6, <2>7, <2>8, <2>9, <2>10, <2>11
       DEF FileNext, Check, SafeUpdate
<1> QED BY <1>2, <1>3

(* Updates that have reached a good file stay, whatever fails later. *)
THEOREM NothingLost == ASSUME ~StopsInCreation PROVE FileSpec => SafeNeverLost
<1>1. FileInv /\ [FileNext]_fileVars => [SafeFile' >= SafeFile]_fileVars
  BY NextSafe
<1> QED BY Invariance, <1>1, PTL DEF FileSpec, SafeNeverLost

-----------------------------------------------------------------------------
(* The registration of addresses *)

Registered(r) == pc[r] # "start"

Stage == {"start", "snapshot", "filter", "fire", "wait", "erase", "scan", "merge", "merging",
          "mergeWait", "done"}

Types ==
  /\ wanted \in [Req -> SUBSET Addr]
  /\ scrAddrSet_ \in [Req -> SUBSET Addr]
  /\ scrAddrMap_ \subseteq Addr /\ scraddrmapptr \in [Req -> SUBSET Addr]
  /\ boundTo \in [Req -> SUBSET Req]
  /\ scanDataPile_ \in Seq(Req) /\ merging \in Seq(Req)
  /\ pc \in [Req -> Stage]

(* mergeLock_ is held by the one thread that runs callbacks, of which the  *)
(* first in line is the one at work.                                       *)
OneMerger ==
  \A r \in Req :
    /\ pc[r] \in {"merging", "mergeWait"} => mergeLock_ = r /\ merging # << >>
    /\ pc[r] = "mergeWait" => Head(merging) \in fired

(* Whoever is in a container has registered. *)
AllRegistered ==
  /\ \A r \in Req : \A s \in boundTo[r] : Registered(s)
  /\ \A s \in scanningAddresses_ \cup ToSet(scanDataPile_) \cup ToSet(merging) \cup fired :
       s \in Req /\ Registered(s)

(* Every address of a request is registered, or is left to be scanned for  *)
(* it or, once it has registered, for a request it waits for.              *)
Covered ==
  \A r \in Req : \A a \in wanted[r] :
    \/ a \in scrAddrSet_[r]
    \/ Registered(r) /\ (a \in scrAddrMap_ \/ \E s \in boundTo[r] : a \in scrAddrSet_[s])

(* What was there for a request to scan is registered before its promises  *)
(* are set, and the copies of scrAddrMap_ are older than it.               *)
FiredIsMerged ==
  /\ \A r \in Req : scraddrmapptr[r] \subseteq scrAddrMap_
  /\ \A r \in Req : pc[r] = "fire" => scrAddrSet_[r] = {}
  /\ \A r \in Req : pc[r] = "wait" => r \in fired
  /\ \A s \in fired \cup ToSet(merging) : scrAddrSet_[s] \subseteq scrAddrMap_

IInv == Types /\ OneMerger /\ AllRegistered /\ Covered /\ FiredIsMerged /\ SignalledWhenReady

-----------------------------------------------------------------------------
(* The elements of the sequences a merge works on. *)
LEMMA Elements ==
  /\ ToSet(<< >>) = {}
  /\ \A q \in Seq(Req) : ToSet(q) \subseteq Req
  /\ \A q \in Seq(Req), r \in Req :
       <<r>> \o q \in Seq(Req) /\ ToSet(<<r>> \o q) = {r} \cup ToSet(q)
  /\ \A q \in Seq(Req) : q # << >> =>
       Head(q) \in ToSet(q) /\ Tail(q) \in Seq(Req) /\ ToSet(Tail(q)) \subseteq ToSet(q)
  <1>1. ToSet(<< >>) = {}
    BY SMTT(60) DEF ToSet
  <1>2. \A q \in Seq(Req) : ToSet(q) \subseteq Req
    BY SMTT(60) DEF ToSet
  <1>3. ASSUME NEW q \in Seq(Req), NEW r \in Req
        PROVE  <<r>> \o q \in Seq(Req) /\ ToSet(<<r>> \o q) = {r} \cup ToSet(q)
    <2> DEFINE p == <<r>> \o q
    <2>1. /\ p \in Seq(Req) /\ Len(p) = Len(q) + 1 /\ p[1] = r
          /\ \A i \in 1 .. Len(q) : p[i + 1] = q[i]
      BY SMTT(60)
    <2>2. \A i \in 1 .. Len(p) : i = 1 \/ (i - 1 \in 1 .. Len(q) /\ p[i] = q[i - 1])
      BY <2>1, SMTT(60)
    <2> HIDE DEF p
    <2>3. ToSet(p) \subseteq {r} \cup ToSet(q)
      BY <2>1, <2>2, SMTT(60) DEF ToSet
    <2>4. {r} \cup ToSet(q) \subseteq ToSet(p)
      <3>1. r \in ToSet(p)
        <4>1. 1 \in DOMAIN p
          BY <2>1, SMTT(60)
        <4> QED BY <2>1, <4>1 DEF ToSet
      <3>2. ASSUME NEW i \in 1 .. Len(q)
            PROVE  q[i] \in ToSet(p)
        <4>1. i + 1 \in DOMAIN p /\ p[i + 1] = q[i]
          BY <2>1, SMTT(60)
        <4> QED BY <4>1 DEF ToSet
      <3> QED BY <3>1, <3>2, SMTT(60) DEF ToSet
    <2> QED BY <2>1, <2>3, <2>4 DEF p
  <1>4. ASSUME NEW q \in Seq(Req), q # << >>
        PROVE  Head(q) \in ToSet(q) /\ Tail(q) \in Seq(Req) /\ ToSet(Tail(q)) \subseteq ToSet(q)
    <2>1. Len(q) # 0 /\ Head(q) = q[1] /\ Tail(q) \in Seq(Req) /\ Len(Tail(q)) = Len(q) - 1
      BY <1>4, SMTT(60)
    <2>2. \A i \in 1 .. Len(Tail(q)) : i + 1 \in 1 .. Len(q) /\ Tail(q)[i] = q[i + 1]
      BY <1>4, <2>1, SMTT(60)
    <2>3. Head(q) \in ToSet(q)
      BY <2>1, SMTT(60) DEF ToSet
    <2>4. ToSet(Tail(q)) \subseteq ToSet(q)
      BY <2>1, <2>2, SMTT(60) DEF ToSet
    <2> QED BY <2>1, <2>3, <2>4
  <1> QED BY <1>1, <1>2, <1>3, <1>4

LEMMA InitInv == Init => IInv
  BY Elements, RegistrationAssumption, SMTT(60)
     DEF Init, IInv, Types, OneMerger, AllRegistered, Covered, FiredIsMerged,
         SignalledWhenReady, Registered, Stage

(* A step of one thread. *)
LEMMA Moves ==
  ASSUME Types, NEW r \in Req, NEW from \in Stage, NEW to \in Stage \ {"start"}, At(r, from, to)
  PROVE  /\ pc[r] = from /\ pc'[r] = to
         /\ \A s \in Req : s # r => pc'[s] = pc[s]
         /\ pc' \in [Req -> Stage]
         /\ \A s \in Req : Registered(s) => Registered(s)'
  BY DEF Types, At, Registered

LEMMA RegisterInv ==
  ASSUME IInv, NEW r \in Req, Register(r)
  PROVE  IInv'
  <1>1. /\ pc[r] = "start" /\ pc'[r] = "snapshot"
        /\ \A s \in Req : s # r => pc'[s] = pc[s]
        /\ pc' \in [Req -> Stage]
        /\ \A s \in Req : Registered(s) => Registered(s)'
    BY Moves DEF IInv, Stage, Register
  <1>2. Types'
    BY <1>1, ZenonT(60) DEF IInv, Types, AllRegistered, Register, Colliding, StillToScan
  <1>3. OneMerger'
    BY <1>1 DEF IInv, OneMerger, Register
  <1>4. AllRegistered'
    <2>1. \A s \in Req : \A t \in boundTo'[s] : Registered(t)'
      <3>1. \A t \in Colliding(r) : t \in Req /\ Registered(t)
        BY DEF IInv, AllRegistered, Colliding
      <3>2. \A s \in Req : s # r => boundTo'[s] = boundTo[s]
        BY DEF IInv, Types, Register
      <3>3. boundTo'[r] = Colliding(r)
        BY DEF IInv, Types, Register
      <3> QED BY <1>1, <3>1, <3>2, <3>3 DEF IInv, Types, AllRegistered
    <2>2. Registered(r)'
      BY <1>1 DEF Registered
    <2> QED BY <1>1, <2>1, <2>2 DEF IInv, AllRegistered, Register
  <1>5. Covered'
    <2>1. \A s \in Req : s # r => boundTo'[s] = boundTo[s] /\ scrAddrSet_'[s] = scrAddrSet_[s]
      BY DEF IInv, Types, Register
    <2>2. boundTo'[r] = Colliding(r) /\ scrAddrSet_'[r] = StillToScan(r)
      BY DEF IInv, Types, Register
    <2>3. ~Registered(r) /\ Registered(r)'
      BY <1>1 DEF Registered
    <2>4. \A s \in Req : r \notin boundTo[s] /\ r \notin scanningAddresses_
      BY <2>3 DEF IInv, AllRegistered
    <2>5. ASSUME NEW a \in wanted[r], a \notin scrAddrSet_'[r]
          PROVE  \E s \in boundTo'[r] : a \in scrAddrSet_'[s]
      <3>1. a \in scrAddrSet_[r]
        BY <2>3 DEF IInv, Covered
      <3>2. PICK s \in scanningAddresses_ : a \in scrAddrSet_[s]
        BY <2>2, <2>5, <3>1 DEF StillToScan
      <3>3. s \in boundTo'[r] /\ s \in Req /\ s # r
        BY <2>2, <2>4, <3>1, <3>2 DEF Colliding, IInv, AllRegistered
      <3> QED BY <2>1, <3>2, <3>3
    <2>6. ASSUME NEW s \in Req, s # r, NEW a \in wanted[s]
          PROVE  \/ a \in scrAddrSet_'[s]
                 \/ Registered(s)' /\ (a \in scrAddrMap_ \/ \E t \in boundTo'[s] : a \in scrAddrSet_'[t])
      <3>1. \A t \in boundTo[s] : t \in Req /\ scrAddrSet_'[t] = scrAddrSet_[t]
        BY <2>1, <2>4 DEF IInv, Types
      <3> QED BY <1>1, <2>1, <2>6, <3>1 DEF IInv, Covered
    <2>7. UNCHANGED <<wanted, scrAddrMap_>>
      BY DEF Register
    <2> QED BY <2>3, <2>5, <2>6, <2>7 DEF Covered
  <1>6. FiredIsMerged'
    <2>1. \A s \in fired \cup ToSet(merging) : s # r /\ s \in Req
      BY <1>1 DEF IInv, AllRegistered, Registered
    <2>2. \A s \in Req : s # r => scrAddrSet_'[s] = scrAddrSet_[s]
      BY DEF IInv, Types, Register
    <2>3. UNCHANGED <<scraddrmapptr, scrAddrMap_, fired, merging>>
      BY DEF Register
    <2> QED BY <1>1, <2>1, <2>2, <2>3 DEF IInv, FiredIsMerged
  <1>7. SignalledWhenReady'
    BY DEF IInv, SignalledWhenReady, Register
  <1> QED BY <1>2, <1>3, <1>4, <1>5, <1>6, <1>7 DEF IInv

LEMMA SnapshotInv ==
  ASSUME IInv, NEW r \in Req, Snapshot(r)
  PROVE  IInv'
  <1>1. /\ pc[r] = "snapshot" /\ pc'[r] = "filter"
        /\ \A s \in Req : s # r => pc'[s] = pc[s]
        /\ pc' \in [Req -> Stage]
        /\ \A s \in Req : Registered(s) => Registered(s)'
    BY Moves DEF IInv, Stage, Snapshot
  <1>2. Types'
    BY <1>1, ZenonT(60) DEF IInv, Types, Snapshot
  <1>3. OneMerger'
    BY <1>1 DEF IInv, OneMerger, Snapshot
  <1>4. AllRegistered'
    BY <1>1 DEF IInv, Types, AllRegistered, Snapshot
  <1>5. Covered'
    BY <1>1 DEF IInv, Types, Covered, Snapshot
  <1>6. FiredIsMerged'
    BY <1>1 DEF IInv, Types, FiredIsMerged, Snapshot
  <1>7. SignalledWhenReady'
    BY DEF IInv, SignalledWhenReady, Snapshot
  <1> QED BY <1>2, <1>3, <1>4, <1>5, <1>6, <1>7 DEF IInv

LEMMA FilterInv ==
  ASSUME IInv, NEW r \in Req, Filter(r)
  PROVE  IInv'
  <1>1. /\ pc[r] = "filter" /\ pc'[r] \in {"fire", "scan"}
        /\ \A s \in Req : s # r => pc'[s] = pc[s]
        /\ pc' \in [Req -> Stage]
        /\ \A s \in Req : Registered(s) => Registered(s)'
    BY Moves DEF IInv, Stage, Filter
  <1>2. Types'
    BY <1>1, ZenonT(60) DEF IInv, Types, Filter
  <1>3. OneMerger'
    BY <1>1 DEF IInv, OneMerger, Filter
  <1>4. AllRegistered'
    BY <1>1 DEF IInv, Types, AllRegistered, Filter
  <1>5. Covered'
    <2>1. scrAddrSet_'[r] = scrAddrSet_[r] \ scraddrmapptr[r] /\ scraddrmapptr[r] \subseteq scrAddrMap_
      BY DEF IInv, Types, FiredIsMerged, Filter
    <2>2. \A s \in Req : s # r => scrAddrSet_'[s] = scrAddrSet_[s]
      BY DEF IInv, Types, Filter
    <2>3. \A s \in Req : \A a \in scrAddrSet_[s] : a \in scrAddrSet_'[s] \/ (s = r /\ a \in scrAddrMap_)
      BY <2>1, <2>2
    <2>4. UNCHANGED <<wanted, boundTo, scrAddrMap_>> /\ Registered(r)'
      BY <1>1 DEF Filter, Registered
    <2> HIDE DEF Filter
    <2>5. ASSUME NEW s \in Req, NEW a \in wanted[s]
          PROVE  \/ a \in scrAddrSet_'[s]
                 \/ Registered(s)' /\ (a \in scrAddrMap_ \/ \E t \in boundTo[s] : a \in scrAddrSet_'[t])
      <3>1. CASE a \in scrAddrSet_[s]
        BY <2>3, <2>4, <3>1
      <3>2. CASE Registered(s) /\ a \in scrAddrMap_
        BY <1>1, <3>2
      <3>3. CASE Registered(s) /\ \E t \in boundTo[s] : a \in scrAddrSet_[t]
        BY <1>1, <2>3, <3>3 DEF IInv, Types
      <3> QED BY <3>1, <3>2, <3>3 DEF IInv, Covered
    <2> QED BY <2>4, <2>5 DEF Covered
  <1>6. FiredIsMerged'
    <2>1. \A s \in Req : scrAddrSet_'[s] \subseteq scrAddrSet_[s]
      BY DEF IInv, Types, Filter
    <2>2. pc'[r] = "fire" => scrAddrSet_'[r] = {}
      BY DEF IInv, Types, Stage, Filter, At
    <2>3. \A s \in fired \cup ToSet(merging) : s \in Req
      BY DEF IInv, AllRegistered
    <2>4. UNCHANGED <<scraddrmapptr, scrAddrMap_, fired, merging>>
      BY DEF Filter
    <2> QED BY <1>1, <2>1, <2>2, <2>3, <2>4 DEF IInv, FiredIsMerged
  <1>7. SignalledWhenReady'
    BY DEF IInv, SignalledWhenReady, Filter
  <1> QED BY <1>2, <1>3, <1>4, <1>5, <1>6, <1>7 DEF IInv

LEMMA ClientFiresInv ==
  ASSUME IInv, NEW r \in Req, ClientFires(r)
  PROVE  IInv'
  <1>1. /\ pc[r] = "fire" /\ pc'[r] = "wait"
        /\ \A s \in Req : s # r => pc'[s] = pc[s]
        /\ pc' \in [Req -> Stage]
        /\ \A s \in Req : Registered(s) => Registered(s)'
    BY Moves DEF IInv, Stage, ClientFires
  <1>2. Types'
    BY <1>1 DEF IInv, Types, ClientFires
  <1>3. OneMerger'
    BY <1>1 DEF IInv, OneMerger, ClientFires, Fired
  <1>4. AllRegistered'
    BY <1>1 DEF IInv, Types, AllRegistered, Registered, ClientFires, Fired
  <1>5. Covered'
    BY <1>1 DEF IInv, Types, Covered, ClientFires
  <1>6. FiredIsMerged'
    BY <1>1 DEF IInv, Types, FiredIsMerged, ClientFires, Fired
  <1>7. SignalledWhenReady'
    BY DEF IInv, SignalledWhenReady, ClientFires
  <1> QED BY <1>2, <1>3, <1>4, <1>5, <1>6, <1>7 DEF IInv

LEMMA ClientSignalsInv ==
  ASSUME IInv, NEW r \in Req, ClientSignals(r)
  PROVE  IInv'
  <1>1. /\ pc[r] = "wait" /\ pc'[r] = "erase"
        /\ \A s \in Req : s # r => pc'[s] = pc[s]
        /\ pc' \in [Req -> Stage]
        /\ \A s \in Req : Registered(s) => Registered(s)'
    BY Moves DEF IInv, Stage, ClientSignals
  <1>2. Types'
    BY <1>1 DEF IInv, Types, ClientSignals
  <1>3. OneMerger'
    BY <1>1 DEF IInv, OneMerger, ClientSignals
  <1>4. AllRegistered'
    BY <1>1 DEF IInv, Types, AllRegistered, ClientSignals
  <1>5. Covered'
    BY <1>1 DEF IInv, Types, Covered, ClientSignals
  <1>6. FiredIsMerged'
    BY <1>1 DEF IInv, Types, FiredIsMerged, ClientSignals
  <1>7. SignalledWhenReady'
    <2>1. Registered(r) /\ r \in fired /\ boundTo[r] \subseteq fired /\ r \in Req
      BY <1>1 DEF IInv, FiredIsMerged, Registered, ClientSignals, Released
    <2>2. wanted[r] \subseteq scrAddrMap_
      BY <2>1 DEF IInv, Types, Covered, FiredIsMerged
    <2> QED BY <2>2 DEF IInv, SignalledWhenReady, ClientSignals
  <1> QED BY <1>2, <1>3, <1>4, <1>5, <1>6, <1>7 DEF IInv

LEMMA ClientErasesInv ==
  ASSUME IInv, NEW r \in Req, ClientErases(r)
  PROVE  IInv'
  <1>1. /\ pc[r] = "erase" /\ pc'[r] = "done"
        /\ \A s \in Req : s # r => pc'[s] = pc[s]
        /\ pc' \in [Req -> Stage]
        /\ \A s \in Req : Registered(s) => Registered(s)'
    BY Moves DEF IInv, Stage, ClientErases
  <1>2. Types'
    BY <1>1 DEF IInv, Types, ClientErases
  <1>3. OneMerger'
    BY <1>1 DEF IInv, OneMerger, ClientErases
  <1>4. AllRegistered'
    BY <1>1 DEF IInv, Types, AllRegistered, ClientErases
  <1>5. Covered'
    BY <1>1 DEF IInv, Types, Covered, ClientErases
  <1>6. FiredIsMerged'
    BY <1>1 DEF IInv, Types, FiredIsMerged, ClientErases
  <1>7. SignalledWhenReady'
    BY DEF IInv, SignalledWhenReady, ClientErases
  <1> QED BY <1>2, <1>3, <1>4, <1>5, <1>6, <1>7 DEF IInv

LEMMA SideScanInv ==
  ASSUME IInv, NEW r \in Req, SideScan(r)
  PROVE  IInv'
  <1>1. /\ pc[r] = "scan" /\ pc'[r] = "merge"
        /\ \A s \in Req : s # r => pc'[s] = pc[s]
        /\ pc' \in [Req -> Stage]
        /\ \A s \in Req : Registered(s) => Registered(s)'
    BY Moves DEF IInv, Stage, SideScan
  <1>2. Types'
    BY <1>1, Elements DEF IInv, Types, SideScan
  <1>3. OneMerger'
    BY <1>1 DEF IInv, OneMerger, SideScan
  <1>4. AllRegistered'
    <2>1. ToSet(scanDataPile_)' = {r} \cup ToSet(scanDataPile_)
      BY Elements DEF IInv, Types, SideScan
    <2>2. Registered(r)'
      BY <1>1 DEF Registered
    <2> QED BY <1>1, <2>1, <2>2 DEF IInv, Types, AllRegistered, SideScan
  <1>5. Covered'
    BY <1>1 DEF IInv, Types, Covered, SideScan
  <1>6. FiredIsMerged'
    BY <1>1 DEF IInv, Types, FiredIsMerged, SideScan
  <1>7. SignalledWhenReady'
    BY DEF IInv, SignalledWhenReady, SideScan
  <1> QED BY <1>2, <1>3, <1>4, <1>5, <1>6, <1>7 DEF IInv

LEMMA MergeInv ==
  ASSUME IInv, NEW r \in Req, Merge(r)
  PROVE  IInv'
  <1>1. /\ pc[r] = "merge" /\ pc'[r] = IF scanDataPile_ = << >> THEN "done" ELSE "merging"
        /\ \A s \in Req : s # r => pc'[s] = pc[s]
        /\ pc' \in [Req -> Stage]
        /\ \A s \in Req : Registered(s) => Registered(s)'
    BY Moves DEF IInv, Stage, Merge
  <1>2. Types'
    <2>1. \A s \in ToSet(scanDataPile_) : scrAddrSet_[s] \subseteq Addr
      BY DEF IInv, Types, AllRegistered
    <2> QED BY <1>1, <2>1, SMTT(60) DEF IInv, Types, Merge, Merged
  <1>3. OneMerger'
    BY <1>1, RegistrationAssumption DEF IInv, OneMerger, Merge
  <1>4. AllRegistered'
    <2>1. ToSet(merging)' = ToSet(scanDataPile_) /\ ToSet(scanDataPile_)' = {}
      BY Elements DEF Merge
    <2> QED BY <1>1, <2>1 DEF IInv, Types, AllRegistered, Merge
  <1>5. Covered'
    <2>1. UNCHANGED <<wanted, scrAddrSet_, boundTo>> /\ scrAddrMap_ \subseteq scrAddrMap_'
      BY DEF Merge, Merged
    <2> QED BY <1>1, <2>1 DEF IInv, Covered
  <1>6. FiredIsMerged'
    <2>1. UNCHANGED <<scrAddrSet_, scraddrmapptr, fired>> /\ scrAddrMap_ \subseteq scrAddrMap_'
      BY DEF Merge, Merged
    <2>2. \A s \in ToSet(merging)' : scrAddrSet_[s] \subseteq scrAddrMap_'
      BY DEF Merge, Merged
    <2> QED BY <1>1, <2>1, <2>2 DEF IInv, FiredIsMerged
  <1>7. SignalledWhenReady'
    <2>1. UNCHANGED <<wanted, signalled>> /\ scrAddrMap_ \subseteq scrAddrMap_'
      BY DEF Merge, Merged
    <2> QED BY <2>1 DEF IInv, SignalledWhenReady
  <1> QED BY <1>2, <1>3, <1>4, <1>5, <1>6, <1>7 DEF IInv

LEMMA MergeFiresInv ==
  ASSUME IInv, NEW r \in Req, MergeFires(r)
  PROVE  IInv'
  <1>1. /\ pc[r] = "merging" /\ pc'[r] = "mergeWait"
        /\ \A s \in Req : s # r => pc'[s] = pc[s]
        /\ pc' \in [Req -> Stage]
        /\ \A s \in Req : Registered(s) => Registered(s)'
    BY Moves DEF IInv, Stage, MergeFires
  <1>2. Types'
    BY <1>1 DEF IInv, Types, MergeFires
  <1>3. OneMerger'
    BY <1>1 DEF IInv, OneMerger, MergeFires, Fired
  <1>4. AllRegistered'
    <2>1. Head(merging) \in ToSet(merging)
      BY <1>1, Elements DEF IInv, Types, OneMerger
    <2> QED BY <1>1, <2>1 DEF IInv, Types, AllRegistered, MergeFires, Fired
  <1>5. Covered'
    BY <1>1 DEF IInv, Types, Covered, MergeFires
  <1>6. FiredIsMerged'
    <2>1. Head(merging) \in ToSet(merging)
      BY <1>1, Elements DEF IInv, Types, OneMerger
    <2> QED BY <1>1, <2>1 DEF IInv, FiredIsMerged, MergeFires, Fired
  <1>7. SignalledWhenReady'
    BY DEF IInv, SignalledWhenReady, MergeFires
  <1> QED BY <1>2, <1>3, <1>4, <1>5, <1>6, <1>7 DEF IInv

LEMMA MergeSignalsInv ==
  ASSUME IInv, NEW r \in Req, MergeSignals(r)
  PROVE  IInv'
  <1>1. /\ pc[r] = "mergeWait" /\ pc'[r] = IF Tail(merging) = << >> THEN "done" ELSE "merging"
        /\ \A s \in Req : s # r => pc'[s] = pc[s]
        /\ pc' \in [Req -> Stage]
        /\ \A s \in Req : Registered(s) => Registered(s)'
    BY Moves DEF IInv, Stage, MergeSignals
  <1>2. Types'
    BY <1>1, Elements DEF IInv, Types, OneMerger, MergeSignals
  <1>3. OneMerger'
    BY <1>1 DEF IInv, OneMerger, MergeSignals, LockAfterCallback
  <1>4. AllRegistered'
    <2>1. ToSet(merging)' \subseteq ToSet(merging)
      BY <1>1, Elements DEF IInv, Types, OneMerger, MergeSignals
    <2> QED BY <1>1, <2>1 DEF IInv, Types, AllRegistered, MergeSignals
  <1>5. Covered'
    BY <1>1 DEF IInv, Types, Covered, MergeSignals
  <1>6. FiredIsMerged'
    <2>1. ToSet(merging)' \subseteq ToSet(merging)
      BY <1>1, Elements DEF IInv, Types, OneMerger, MergeSignals
    <2> QED BY <1>1, <2>1 DEF IInv, FiredIsMerged, MergeSignals
  <1>7. SignalledWhenReady'
    <2>1. Registered(Head(merging)) /\ Head(merging) \in fired /\ boundTo[Head(merging)] \subseteq fired /\ Head(merging) \in Req
      BY <1>1 DEF IInv, OneMerger, AllRegistered, MergeSignals, Released
    <2>2. wanted[Head(merging)] \subseteq scrAddrMap_
      BY <2>1 DEF IInv, Types, Covered, FiredIsMerged
    <2> QED BY <2>2 DEF IInv, SignalledWhenReady, MergeSignals
  <1> QED BY <1>2, <1>3, <1>4, <1>5, <1>6, <1>7 DEF IInv

LEMMA UpdateInv ==
  ASSUME IInv, Update
  PROVE  IInv'
  <1>1. UNCHANGED <<wanted, scrAddrSet_, scrAddrMap_, scraddrmapptr, scanningAddresses_,
                    scanDataPile_, boundTo, fired, signalled, merging, pc>>
    BY DEF Update, UpdateBegins, UpdateEnds
  <1>2. OneMerger'
    BY <1>1, RegistrationAssumption DEF IInv, OneMerger, Update, UpdateBegins, UpdateEnds
  <1> QED BY <1>1, <1>2 DEF IInv, Types, AllRegistered, Covered, FiredIsMerged,
             SignalledWhenReady, Registered

LEMMA NextInv == IInv /\ [Next]_vars => IInv'
  <1> SUFFICES ASSUME IInv, [Next]_vars
               PROVE  IInv'
    OBVIOUS
  <1>1. ASSUME NEW r \in Req, Register(r) \/ ThreadStep(r)
        PROVE  IInv'
    BY <1>1, RegisterInv, SnapshotInv, FilterInv, ClientFiresInv, ClientSignalsInv,
       ClientErasesInv, SideScanInv, MergeInv, MergeFiresInv, MergeSignalsInv DEF ThreadStep
  <1>2. CASE UNCHANGED vars
    BY <1>2 DEF vars, IInv, Types, OneMerger, AllRegistered, Covered, FiredIsMerged,
       SignalledWhenReady, Registered
  <1> QED BY <1>1, <1>2, UpdateInv DEF Next

(* Whatever requests overlap, in whatever order their scans end and merge: *)
(* the callback of a request runs only when every address it asked for is  *)
(* in scrAddrMap_, also one that another request was scanning or that was  *)
(* registered before (registerAddressBatch, 289-431; 519-632).             *)
THEOREM ReadyHolds == Spec => []SignalledWhenReady
  <1>1. IInv => SignalledWhenReady
    BY DEF IInv
  <1> QED BY <1>1, InitInv, NextInv, PTL DEF Spec
=============================================================================
