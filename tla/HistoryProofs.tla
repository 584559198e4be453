--------------------------- MODULE HistoryProofs ---------------------------
(***************************************************************************)
(* The history databases are right for every block tree, any order of the  *)
(* blocks and any number of stops.                                         *)
(***************************************************************************)
EXTENDS History, WellFoundedInduction, TLAPS

(* A leaf that names no prover is for Zenon, and for SMT if Zenon fails. *)
USE ZenonT(10), SMTT(60)

(* No two blocks have the same work.  At a tie a restart may change the    *)
(* branch with no reorg reported.                                          *)
NoTies == \A a, b \in Block : Work[a] = Work[b] => a = b

(* The blocks the summary counts. *)
Counted == {b \in Chain[sshTop] : Height[b] <= ssh.scanHeight_}

(* The block files and HEADERS have a heaviest block, and what the process *)
(* knows lies between them.                                                *)
Headers ==
  /\ Heaviest(disk) # {} /\ Heaviest(headers) # {}
  /\ pc # "down" => headers \subseteq known /\ top \in Heaviest(known)
  /\ pc \notin {"down", "organized"} => headers = known /\ Work[prevTop] <= Work[top]
  /\ pc = "organized" => prevTop \in Heaviest(headers)

(* The summary counts a part of the chain that its sdbi names, which is in *)
(* SUBSSH; the sdbi names a block that was left behind unless the part is  *)
(* all of that chain.                                                      *)
Summary ==
  /\ SshMatchesItsTop
  /\ ssh.scanHeight_ >= -1
  /\ Counted \subseteq subssh
  /\ \/ ssh.scanHeight_ = Height[sshTop]
     \/ Height[sshTop] = 0
     \/ \E h \in headers : Work[sshTop] < Work[h]

(* SUBSSH has the blocks below its top, and is not behind SSH. *)
Scanned ==
  /\ \A b \in Chain[subsshTop] : Height[b] < Height[subsshTop] => b \in subssh
  /\ ssh.scanHeight_ <= Height[subsshTop]

(* The history is that of the chain of t. *)
HistoryOf(t) == subsshTop \in Chain[t] /\ Counted \subseteq Chain[t] /\ ~SshAhead

(* Between two calls the history is that of the heaviest header on disk,   *)
(* and complete when the process is up.                                    *)
AtRest ==
  /\ pc \in {"down", "organized"} => \A t \in Heaviest(headers) : HistoryOf(t)
  /\ pc = "organized" /\ ~initializing
       => ssh.scanHeight_ = Height[prevTop] /\ Counted = Chain[prevTop]
  /\ pc = "idle" => ssh.scanHeight_ = Height[top] /\ Counted = Main /\ subsshTop \in Main

(* Until the undo is done it is that of the old branch. *)
Undoing ==
  pc \in {"undoStxo", "undoSsh"} =>
    /\ Reorg
    /\ HistoryOf(prevTop)
    /\ scanFrom <= Height[BranchPoint] + 1
    /\ scanFrom >= 0 \/ subsshTop \in Main
    /\ Smaller(ssh.scanHeight_, Height[BranchPoint]) <= scanFrom

(* A scan starts where SUBSSH may have a gap, and from then on SUBSSH has  *)
(* all that is below scanFrom.                                             *)
Gap == \A b \in Main : Height[b] < scanFrom => b \in subssh

Scanning ==
  /\ pc \in {"undoStxo", "undoSsh", "scan", "batch", "batchSubssh", "tally"} => Gap
  /\ pc \in {"scan", "batch", "batchSubssh", "tally"} =>
       /\ Counted \subseteq Main
       /\ ssh.scanHeight_ <= scanFrom
       /\ Reorg => sshTop \in Main /\ Height[sshTop] < Height[top]
       /\ ~Reorg => subsshTop \in Main /\ ~SshAhead
  /\ pc = "scan" =>
       /\ subsshTop \notin Main => scanFrom >= 0
       /\ IF Reorg THEN scanFrom <= Height[top] ELSE scanFrom <= Height[subsshTop] + 1
  /\ pc \in {"batch", "batchSubssh"} =>
       /\ scanFrom \in 0 .. Height[top]
       /\ subsshTop \in Main => Height[subsshTop] <= scanFrom
  /\ pc = "batchSubssh" => batchEnd \in scanFrom .. Height[top]
  /\ pc = "tally" => scanFrom > Height[top] /\ subsshTop = top /\ ~SshAhead

IInv == TypeOK /\ Headers /\ Summary /\ Scanned /\ AtRest /\ Undoing /\ Scanning

-----------------------------------------------------------------------------
(* Block trees *)

(* A set of natural numbers has a lowest one. *)
LEMMA Lowest == ASSUME NEW T \in SUBSET Nat, T # {} PROVE \E x \in T : \A y \in T : x <= y
<1> DEFINE R == OpToRel(<, Nat)
<1>1. ASSUME NEW x \in Nat, NEW y \in Nat, x < y PROVE <<x, y>> \in R
  BY <1>1, ZenonT(60) DEF OpToRel
<1>2. IsWellFoundedOn(R, Nat) BY NatLessThanWellFounded, ZenonT(60) DEF R
<1> HIDE DEF R
<1>3. PICK x \in T : \A y \in T : ~ (<<y, x>> \in R) BY <1>2, WFMin, ZenonT(60)
<1>4. ASSUME NEW y \in T PROVE x <= y
  <2>1. ~ (y < x) BY <1>1, <1>3, ZenonT(60)
  <2> QED BY <2>1, SMTT(60)
<1> QED BY <1>4

(* The chain of a block c on the chain of b is the part of it up to c. *)
LEMMA Tree ==
  ASSUME NEW b \in Block, NEW c \in Chain[b]
  PROVE  /\ c \in Block /\ c \in Chain[c] /\ Genesis \in Chain[c] /\ Chain[c] \subseteq Chain[b]
         /\ Height[c] \in Nat /\ Height[b] \in Nat /\ Height[c] <= Height[b]
         /\ \A d \in Chain[b] : Height[d] <= Height[c] => d \in Chain[c]
         /\ Height[c] = Height[b] => c = b
         /\ c # b => Work[c] < Work[b]
<1>1. c \in Block BY HistoryAssumption
<1>2. Chain[c] = {d \in Chain[b] : Height[d] <= Height[c]} BY ChainAssumption, SMTT(60)
<1>3. b \in Chain[b] BY ChainAssumption
<1>4. Chain[b] = {d \in Chain[b] : Height[d] <= Height[b]} BY <1>3, ChainAssumption
<1>5. Height[c] <= Height[b] BY <1>4
<1>6. Height[c] \in Nat /\ Height[b] \in Nat BY <1>1, HistoryAssumption
<1>7. c \in Chain[c] /\ Genesis \in Chain[c] BY <1>1, ChainAssumption
<1>8. Height[c] = Height[b] => c = b BY <1>3, ChainAssumption
<1>9. c # b => Work[c] < Work[b] BY ChainAssumption
<1> QED BY <1>1, <1>2, <1>5, <1>6, <1>7, <1>8, <1>9

(* Blocks of one chain are the same when their heights are. *)
LEMMA OneAtHeight ==
  ASSUME NEW b \in Block, NEW c \in Chain[b], NEW d \in Chain[b], Height[c] = Height[d]
  PROVE  c = d
BY ChainAssumption

(* Every block is on its own chain, and the genesis block, which alone has *)
(* height 0, on all of them.                                               *)
LEMMA Root ==
  ASSUME NEW b \in Block
  PROVE  /\ b \in Chain[b] /\ Genesis \in Chain[b] /\ Chain[b] \subseteq Block
         /\ Height[b] \in Nat /\ Work[b] \in Nat
         /\ Height[Genesis] = 0 /\ Genesis \in Block
         /\ Height[b] = 0 => b = Genesis
<1>1. b \in Chain[b] /\ Genesis \in Chain[b] BY ChainAssumption
<1>2. Height[Genesis] = 0 BY HistoryAssumption
<1>3. Height[b] = 0 => b = Genesis BY <1>1, <1>2, OneAtHeight
<1>4. Height[b] \in Nat /\ Work[b] \in Nat /\ Genesis \in Block BY HistoryAssumption
<1>5. Chain[b] \subseteq Block BY HistoryAssumption
<1> QED BY <1>1, <1>2, <1>3, <1>4, <1>5

(* Two chains share a highest block. *)
LEMMA Branch ==
  ASSUME NEW p \in Block, NEW t \in Block
  PROVE  \E c \in Chain[p] \cap Chain[t] : \A d \in Chain[p] \cap Chain[t] : Height[d] <= Height[c]
<1> DEFINE T == {Height[p] - Height[d] : d \in Chain[p] \cap Chain[t]}
<1>1. \A d \in Chain[p] : Height[d] \in Nat /\ Height[p] \in Nat /\ Height[d] <= Height[p] BY Tree
<1>2. T \in SUBSET Nat BY <1>1, SMTT(60)
<1>3. Genesis \in Chain[p] \cap Chain[t] BY Root
<1>4. T # {} BY <1>3
<1>5. PICK x \in T : \A y \in T : x <= y
  <2> HIDE DEF T
  <2> QED BY <1>2, <1>4, Lowest
<1>6. PICK c \in Chain[p] \cap Chain[t] : x = Height[p] - Height[c] BY <1>5
<1>7. ASSUME NEW d \in Chain[p] \cap Chain[t] PROVE Height[d] <= Height[c]
  <2>1. x <= Height[p] - Height[d] BY <1>5
  <2> QED BY <2>1, <1>6, <1>1, SMTT(60)
<1> QED BY <1>6, <1>7

(* The branch point, and when there is a reorg to a heavier block: it lies *)
(* below both tops.                                                        *)
LEMMA AtBranchPoint ==
  ASSUME prevTop \in Block, top \in Block
  PROVE  /\ BranchPoint \in Block /\ BranchPoint \in Chain[prevTop] /\ BranchPoint \in Main
         /\ Height[BranchPoint] \in Nat
         /\ Chain[BranchPoint] = Chain[prevTop] \cap Main
         /\ \A d \in Chain[prevTop] \cap Main : Height[d] <= Height[BranchPoint]
         /\ Reorg /\ Work[prevTop] <= Work[top]
              => Height[BranchPoint] < Height[top] /\ Work[BranchPoint] < Work[top]
<1> DEFINE B == BranchPoint
<1>1. /\ B \in Chain[prevTop] /\ B \in Main
      /\ \A d \in Chain[prevTop] \cap Main : Height[d] <= Height[B]
  BY Branch DEF BranchPoint, Main
<1> HIDE DEF B
<1>2. /\ B \in Block /\ Height[B] \in Nat /\ Chain[B] \subseteq Chain[prevTop]
      /\ \A d \in Chain[prevTop] : Height[d] <= Height[B] => d \in Chain[B]
      /\ B # prevTop => Work[B] < Work[prevTop]
  BY <1>1, Tree
<1>3. /\ Chain[B] \subseteq Main /\ Height[top] \in Nat /\ Height[B] <= Height[top]
      /\ Height[B] = Height[top] => B = top
      /\ B # top => Work[B] < Work[top]
  BY <1>1, Tree DEF Main
<1>4. Chain[B] = Chain[prevTop] \cap Main BY <1>1, <1>2, <1>3
<1>5. ASSUME Reorg, Work[prevTop] <= Work[top] PROVE B # top
  <2>1. B # prevTop BY <1>1, <1>5 DEF Reorg
  <2>2. Work[B] < Work[prevTop] BY <2>1, <1>2
  <2>3. Work[B] \in Nat /\ Work[prevTop] \in Nat /\ Work[top] \in Nat BY <1>2, Root
  <2> QED BY <2>2, <2>3, <1>5, SMTT(60)
<1> QED BY <1>1, <1>2, <1>3, <1>4, <1>5, SMTT(60) DEF B

(* What organize makes the top is the one heaviest block, if there is one. *)
LEMMA OneHeaviest ==
  ASSUME NoTies, NEW S \in SUBSET Block
  PROVE  /\ \A a, b \in Heaviest(S) : a = b
         /\ \A t : Heaviest(S) # {} => Organized(t, S) \in Heaviest(S)
<1>1. ASSUME NEW a \in Heaviest(S), NEW b \in Heaviest(S) PROVE a = b
  <2>1. a \in Block /\ b \in Block /\ Work[a] <= Work[b] /\ Work[b] <= Work[a] BY DEF Heaviest
  <2>2. Work[a] \in Nat /\ Work[b] \in Nat BY <2>1, Root
  <2> QED BY <2>1, <2>2, SMTT(60) DEF NoTies
<1>2. ASSUME NEW t, Heaviest(S) # {} PROVE Organized(t, S) \in Heaviest(S)
  <2>1. PICK a \in Heaviest(S) : TRUE BY <1>2
  <2>2. a \in Nat BY HistoryAssumption DEF Heaviest
  <2>3. \A c \in Heaviest(S) : a <= c BY <1>1, <2>1, <2>2, SMTT(60)
  <2> QED BY <2>1, <2>3 DEF Organized
<1> QED BY <1>1, <1>2

-----------------------------------------------------------------------------
(* The actions *)

LEMMA InitInv == Init => IInv
<1> SUFFICES ASSUME Init PROVE IInv OBVIOUS
<1> USE DEF Init
<1>1. Height[Genesis] = 0 /\ Genesis \in Block /\ Genesis \in Chain[Genesis] BY Root, HistoryAssumption
<1>2. \A b \in Chain[Genesis] : b \in Block /\ Height[b] \in Nat /\ Height[b] <= 0 BY <1>1, Tree
<1>3. TypeOK
  <2>1. None \in [Block -> Int] BY SMTT(60) DEF None
  <2> HIDE DEF None
  <2>2. ssh \in [scanHeight_ : Int, tallyHeight_ : Int, count : [Block -> Int]] BY <2>1, SMTT(60)
  <2> QED BY <1>1, <2>2, ZenonT(60) DEF TypeOK
<1>4. Heaviest({Genesis}) = {Genesis}
  <2>1. Work[Genesis] \in Nat BY <1>1, Root
  <2> QED BY <2>1, SMTT(60) DEF Heaviest
<1>5. Headers BY <1>4 DEF Headers
<1>6. Counted = {} BY <1>2, SMTT(60) DEF Counted
<1>7. Summary
  <2>1. SshMatchesItsTop BY <1>1, <1>6, SMTT(60) DEF SshMatchesItsTop, Counted, Once, None
  <2> QED BY <2>1, <1>6, <1>1, SMTT(60) DEF Summary
<1>8. Scanned BY <1>1, <1>2, SMTT(60) DEF Scanned
<1>9. AtRest BY <1>1, <1>4, <1>6 DEF AtRest, HistoryOf, SshAhead
<1> QED BY <1>3, <1>5, <1>7, <1>8, <1>9 DEF IInv, Undoing, Scanning

(* Steps that leave the databases alone. *)
LEMMA DatabasesKept ==
  ASSUME UNCHANGED <<subssh, subsshTop, ssh, sshTop>>, headers \subseteq headers',
         Summary, Scanned
  PROVE  /\ Summary' /\ Scanned'
         /\ Counted' = Counted /\ (SshAhead' <=> SshAhead)
<1>1. Counted' = Counted BY DEF Counted
<1>2. SshAhead' <=> SshAhead BY DEF SshAhead
<1>3. SshMatchesItsTop' BY DEF Summary, SshMatchesItsTop, Once
<1>4. Summary' BY <1>1, <1>3 DEF Summary
<1>5. Scanned' BY DEF Scanned
<1> QED BY <1>1, <1>2, <1>4, <1>5

LEMMA NodeWritesInv ==
  ASSUME IInv, NEW b \in Block, NodeWrites(b)
  PROVE  IInv'
<1> USE DEF NodeWrites, dbVars, memVars
<1>1. TypeOK' BY DEF IInv, TypeOK
<1>2. Heaviest(disk') # {}
  <2>1. PICK a \in disk : \A c \in disk : Work[c] <= Work[a] BY DEF IInv, Headers, Heaviest
  <2>2. \A c \in disk \cup {b} : Work[c] \in Nat BY Root DEF IInv, TypeOK
  <2>3. CASE Work[b] <= Work[a] BY <2>1, <2>3 DEF Heaviest
  <2>4. CASE ~(Work[b] <= Work[a])
    <3>1. \A c \in disk' : Work[c] <= Work[b] BY <2>1, <2>2, <2>4, SMTT(60)
    <3> QED BY <3>1 DEF Heaviest
  <2> QED BY <2>3, <2>4
<1>3. Headers' BY <1>2 DEF IInv, Headers, Heaviest
<1>4. Summary' /\ Scanned' /\ Counted' = Counted /\ (SshAhead' <=> SshAhead)
  BY DatabasesKept DEF IInv
<1>5. Main' = Main /\ BranchPoint' = BranchPoint /\ (Reorg' <=> Reorg)
  BY DEF Main, BranchPoint, Reorg
<1>6. AtRest' BY <1>4, <1>5 DEF IInv, AtRest, HistoryOf, Heaviest
<1>7. Undoing' BY <1>4, <1>5 DEF IInv, Undoing, HistoryOf
<1>8. Scanning' BY <1>4, <1>5 DEF IInv, Scanning, Gap
<1> QED BY <1>1, <1>3, <1>4, <1>6, <1>7, <1>8 DEF IInv

LEMMA StartInitInv ==
  ASSUME IInv, NoTies, StartInit
  PROVE  IInv'
<1> USE DEF StartInit, dbVars
<1>1. headers \subseteq Block /\ disk \subseteq Block /\ headers \subseteq disk BY DEF IInv, TypeOK
<1>2. prevTop' \in Heaviest(headers) BY <1>1, OneHeaviest DEF ForcedTop, IInv, Headers
<1>3. top' \in Heaviest(disk) BY <1>1, OneHeaviest DEF IInv, Headers
<1>4. TypeOK' BY <1>2, <1>3 DEF IInv, TypeOK, Heaviest
<1>5. Headers' BY <1>1, <1>2, <1>3 DEF IInv, Headers, Heaviest
<1>6. Summary' /\ Scanned' /\ Counted' = Counted /\ (SshAhead' <=> SshAhead)
  BY DatabasesKept DEF IInv
<1>7. AtRest' BY <1>6 DEF IInv, AtRest, HistoryOf, Heaviest
<1> QED BY <1>4, <1>5, <1>6, <1>7 DEF IInv, Undoing, Scanning

LEMMA StartUpdateInv ==
  ASSUME IInv, NoTies, StartUpdate
  PROVE  IInv'
<1> USE DEF StartUpdate, dbVars
<1>1. headers \subseteq Block /\ disk \subseteq Block /\ known \subseteq disk /\ headers = known
  BY DEF IInv, TypeOK, Headers
<1>2. prevTop' \in Heaviest(headers) BY <1>1 DEF IInv, Headers
<1>3. top' \in Heaviest(disk) BY <1>1, OneHeaviest DEF IInv, Headers
<1>4. TypeOK' BY <1>3, ZenonT(60) DEF IInv, TypeOK, Heaviest
<1>5. Headers' BY <1>1, <1>2, <1>3 DEF IInv, Headers, Heaviest
<1>6. Summary' /\ Scanned' /\ Counted' = Counted /\ (SshAhead' <=> SshAhead)
  BY DatabasesKept DEF IInv
<1>7. ssh.scanHeight_ = Height[top] /\ Counted = Chain[top] /\ subsshTop \in Chain[top]
  BY DEF IInv, AtRest, Main
<1>8. ~SshAhead
  <2>1. Height[top] \in Nat BY Root DEF IInv, TypeOK
  <2> QED BY <1>7, <2>1, SMTT(60) DEF SshAhead
<1>9. \A t \in Heaviest(headers) : t = top BY <1>1, <1>2, OneHeaviest
<1>10. Heaviest(headers)' = Heaviest(headers) BY DEF Heaviest
<1>11. AtRest' BY <1>6, <1>7, <1>8, <1>9, <1>10 DEF AtRest, HistoryOf
<1> QED BY <1>4, <1>5, <1>6, <1>11 DEF IInv, Undoing, Scanning

(* The part that is counted, seen from another chain it is on. *)
LEMMA CountedOn ==
  ASSUME TypeOK, Summary, NEW t \in Block, Counted \subseteq Chain[t]
  PROVE  Counted = {d \in Chain[t] : Height[d] <= ssh.scanHeight_}
<1> DEFINE s == ssh.scanHeight_
<1>1. sshTop \in Block /\ s \in Int /\ s >= -1 /\ s <= Height[sshTop]
  BY DEF TypeOK, Summary, SshMatchesItsTop
<1>2. Height[sshTop] \in Nat /\ \A d \in Chain[t] : Height[d] \in Nat BY <1>1, Root, Tree
<1> HIDE DEF s
<1>3. CASE s = -1 BY <1>2, <1>3, SMTT(60) DEF Counted, s
<1>4. CASE s >= 0
  <2>1. s \in 0 .. Height[sshTop] BY <1>1, <1>2, <1>4, SMTT(60)
  <2>2. PICK c \in Chain[sshTop] : Height[c] = s BY <2>1, <1>1, ChainAssumption
  <2>3. c \in Chain[t] BY <2>2, <1>1, SMTT(60) DEF Counted, s
  <2>4. Chain[c] = {d \in Chain[t] : Height[d] <= s} BY <2>2, <2>3, ChainAssumption, SMTT(60)
  <2>5. Chain[c] = {d \in Chain[sshTop] : Height[d] <= s} BY <1>1, <2>2, ChainAssumption, SMTT(60)
  <2> QED BY <2>4, <2>5 DEF Counted, s
<1> QED BY <1>1, <1>3, <1>4, SMTT(60)

LEMMA PutHeadersInv ==
  ASSUME IInv, PutHeaders
  PROVE  IInv'
<1> DEFINE from == IF initializing THEN InitScanFrom ELSE Height[prevTop] + 1
<1> DEFINE s == ssh.scanHeight_
<1>1. /\ pc = "organized" /\ headers' = known
      /\ pc' = IF ~initializing /\ top = prevTop THEN "idle" ELSE IF Reorg THEN "undoStxo" ELSE "scan"
      /\ scanFrom' = IF Reorg THEN ReorgScanFrom(from) ELSE from
      /\ UNCHANGED <<disk, stxo, subssh, subsshTop, ssh, sshTop, initializing, known, prevTop, top,
                     batchEnd, stops>>
  BY DEF PutHeaders
<1>2. /\ TypeOK /\ Summary /\ Scanned
      /\ headers \subseteq known /\ top \in Heaviest(known) /\ prevTop \in Heaviest(headers)
      /\ prevTop \in Block /\ top \in Block /\ subsshTop \in Block /\ sshTop \in Block
      /\ s \in Int /\ s >= -1 /\ s <= Height[subsshTop]
  BY <1>1 DEF IInv, TypeOK, Headers, Summary, Scanned
<1>3. HistoryOf(prevTop) BY <1>1, <1>2 DEF IInv, AtRest
<1>4. ~initializing => s = Height[prevTop] /\ Counted = Chain[prevTop] BY <1>1 DEF IInv, AtRest
<1>5. Work[prevTop] <= Work[top] BY <1>2 DEF Heaviest
<1>6. /\ \A b \in Block : Height[b] \in Nat
      /\ Height[subsshTop] <= Height[prevTop]
      /\ \A b \in Chain[prevTop] : b \in Block /\ (Height[b] <= Height[subsshTop] => b \in Chain[subsshTop])
  BY <1>2, <1>3, Root, Tree DEF HistoryOf
<1>7. from \in Int /\ s <= from /\ from <= Height[prevTop] + 1 /\ from <= Height[subsshTop] + 1
  BY <1>2, <1>4, <1>6, SMTT(60) DEF InitScanFrom, FilterScanFrom
<1>8. from >= 0 \/ subsshTop = Genesis
  <2>1. CASE initializing
    <3>1. CASE Height[subsshTop] > Height[sshTop] BY <3>1, <2>1, <1>2, <1>6, SMTT(60) DEF InitScanFrom
    <3>2. CASE s # -1 BY <3>2, <2>1, <1>2, <1>6, SMTT(60) DEF InitScanFrom, FilterScanFrom
    <3>3. CASE s = -1 /\ ~(Height[subsshTop] > Height[sshTop])
      <4>1. Height[sshTop] = 0 BY <3>3, <1>2, <1>3, <1>6, SMTT(60) DEF HistoryOf, SshAhead
      <4>2. Height[subsshTop] = 0 BY <4>1, <3>3, <1>2, <1>6, SMTT(60)
      <4> QED BY <4>2, <1>2, Root
    <3> QED BY <3>1, <3>2, <3>3
  <2>2. CASE ~initializing BY <2>2, <1>2, <1>6, SMTT(60)
  <2> QED BY <2>1, <2>2
<1>9. ASSUME NEW b \in Chain[prevTop], Height[b] < from PROVE b \in subssh
  <2>1. Height[b] <= s => b \in subssh
    <3>1. Counted = {d \in Chain[prevTop] : Height[d] <= s}
      BY <1>2, <1>3, CountedOn DEF HistoryOf
    <3> QED BY <3>1, <1>2 DEF Summary
  <2>2. Height[b] < Height[subsshTop] => b \in subssh
    BY <1>2, <1>6, SMTT(60) DEF Scanned
  <2>3. from = s + 1 \/ from = Height[subsshTop] \/ from = -1
    BY <1>4 DEF InitScanFrom, FilterScanFrom
  <2> QED BY <2>1, <2>2, <2>3, <1>2, <1>6, <1>9, SMTT(60)
<1> HIDE DEF from, s
<1>10. Summary' /\ Scanned' /\ Counted' = Counted /\ (SshAhead' <=> SshAhead)
  BY <1>1, <1>2, DatabasesKept
<1>11. Main' = Main /\ BranchPoint' = BranchPoint /\ (Reorg' <=> Reorg)
  BY <1>1 DEF Main, BranchPoint, Reorg
<1>12. /\ BranchPoint \in Main /\ Height[BranchPoint] \in Nat
       /\ Chain[BranchPoint] = Chain[prevTop] \cap Main
  BY <1>2, AtBranchPoint
<1>13. scanFrom' \in Int BY <1>1, <1>7, <1>12, SMTT(60) DEF ReorgScanFrom, Smaller
<1>14. TypeOK'
  <2>1. known \subseteq disk BY DEF IInv, TypeOK
  <2>2. pc' \in {"idle", "undoStxo", "scan"} BY <1>1
  <2> QED BY <1>1, <1>2, <1>13, <2>1, <2>2 DEF TypeOK
<1>15. Headers'
  <2>1. Heaviest(disk)' = Heaviest(disk) /\ Heaviest(headers)' = Heaviest(known)
        /\ Heaviest(known)' = Heaviest(known)
    BY <1>1 DEF Heaviest
  <2>2. Heaviest(disk) # {} BY DEF IInv, Headers
  <2> QED BY <1>1, <1>2, <1>5, <2>1, <2>2 DEF Headers
<1>16. AtRest'
  <2>1. ~initializing /\ top = prevTop =>
          s = Height[top] /\ Counted = Main /\ subsshTop \in Main
    BY <1>3, <1>4 DEF HistoryOf, Main
  <2> QED BY <1>1, <1>10, <1>11, <2>1 DEF AtRest, s
<1>17. Gap'
  <2> SUFFICES ASSUME NEW b \in Main, Height[b] < scanFrom' PROVE b \in subssh
    BY <1>1, <1>11 DEF Gap
  <2>1. Height[b] \in Nat BY <1>2, Tree DEF Main
  <2>2. CASE Reorg
    <3>1. Height[b] < from /\ Height[b] <= Height[BranchPoint]
      BY <1>1, <1>7, <1>12, <2>1, <2>2, SMTT(60) DEF ReorgScanFrom, Smaller
    <3>2. b \in Chain[BranchPoint] BY <1>2, <1>12, <3>1, Tree DEF Main
    <3> QED BY <3>1, <3>2, <1>9, <1>12
  <2>3. CASE ~Reorg
    <3>1. Height[b] < from /\ Height[b] <= Height[prevTop]
      BY <1>1, <1>2, <1>6, <1>7, <2>1, <2>3, SMTT(60)
    <3>2. b \in Chain[prevTop] BY <1>2, <2>3, <3>1, Tree DEF Main, Reorg
    <3> QED BY <3>1, <3>2, <1>9
  <2> QED BY <2>2, <2>3
<1>18. Undoing'
  <2> SUFFICES ASSUME Reorg PROVE Undoing' BY <1>1 DEF Undoing
  <2>1. scanFrom' <= Height[BranchPoint] + 1 /\ Smaller(s, Height[BranchPoint]) <= scanFrom'
    BY <1>1, <1>2, <1>7, <1>12, SMTT(60) DEF ReorgScanFrom, Smaller
  <2>2. scanFrom' >= 0 \/ subsshTop \in Main
    <3>1. Genesis \in Main BY <1>2, Root DEF Main
    <3> QED BY <3>1, <1>1, <1>7, <1>8, <1>12, SMTT(60) DEF ReorgScanFrom, Smaller
  <2>3. HistoryOf(prevTop)' BY <1>1, <1>3, <1>10 DEF HistoryOf
  <2> QED BY <1>1, <1>11, <2>1, <2>2, <2>3 DEF Undoing, s
<1>19. Scanning'
  <2>1. pc' = "scan" => ~Reorg BY <1>1
  <2>2. ~Reorg => Chain[prevTop] \subseteq Main BY <1>2, Tree DEF Reorg, Main
  <2>3. ~Reorg => Counted \subseteq Main /\ subsshTop \in Main /\ ~SshAhead /\ s <= scanFrom'
                    /\ scanFrom' <= Height[subsshTop] + 1
    BY <1>1, <1>3, <1>7, <2>2 DEF HistoryOf
  <2>4. pc' \in {"idle", "undoStxo", "scan"} BY <1>1
  <2> QED BY <1>1, <1>10, <1>11, <1>17, <2>1, <2>3, <2>4 DEF Scanning, s
<1> QED BY <1>10, <1>14, <1>15, <1>16, <1>18, <1>19 DEF IInv

LEMMA UndoStxoInv ==
  ASSUME IInv, UndoStxo
  PROVE  IInv'
<1> USE DEF UndoStxo, memVars
<1>1. TypeOK' BY DEF IInv, TypeOK
<1>2. Headers' BY DEF IInv, Headers, Heaviest
<1>3. Summary' /\ Scanned' /\ Counted' = Counted /\ (SshAhead' <=> SshAhead)
  BY DatabasesKept DEF IInv
<1>4. Main' = Main /\ BranchPoint' = BranchPoint /\ (Reorg' <=> Reorg)
  BY DEF Main, BranchPoint, Reorg
<1>5. Undoing' BY <1>3, <1>4 DEF IInv, Undoing, HistoryOf
<1>6. Scanning' BY <1>4 DEF IInv, Scanning, Gap
<1> QED BY <1>1, <1>2, <1>3, <1>5, <1>6 DEF IInv, AtRest

LEMMA UndoSshInv ==
  ASSUME IInv, UndoSsh
  PROVE  IInv'
<1> DEFINE s == ssh.scanHeight_
<1> DEFINE B == BranchPoint
<1>1. /\ pc = "undoSsh" /\ pc' = "scan" /\ sshTop' = B
      /\ ssh' = [scanHeight_ |-> Smaller(s, Height[B]),
                 tallyHeight_ |-> Smaller(ssh.tallyHeight_, Height[B]),
                 count |-> [b \in Block |-> ssh.count[b] - (IF b \in Undone THEN 1 ELSE 0)]]
      /\ UNCHANGED <<disk, headers, stxo, subssh, subsshTop, memVars, stops>>
  BY DEF UndoSsh
<1>2. /\ TypeOK /\ Summary /\ Scanned /\ Gap
      /\ prevTop \in Block /\ top \in Block /\ subsshTop \in Block
      /\ s \in Int /\ s >= -1 /\ s <= Height[subsshTop] /\ ssh.tallyHeight_ = s
      /\ ssh.count = Once(Counted)
      /\ headers = known /\ top \in Heaviest(known) /\ Work[prevTop] <= Work[top]
      /\ Heaviest(disk) # {} /\ Heaviest(headers) # {}
  BY <1>1 DEF IInv, TypeOK, Headers, Summary, Scanned, SshMatchesItsTop, Scanning, Counted
<1>3. /\ Reorg /\ HistoryOf(prevTop)
      /\ scanFrom <= Height[B] + 1 /\ (scanFrom >= 0 \/ subsshTop \in Main)
      /\ Smaller(s, Height[B]) <= scanFrom /\ scanFrom \in Int
  BY <1>1 DEF IInv, Undoing, TypeOK
<1>4. /\ B \in Block /\ B \in Chain[prevTop] /\ B \in Main /\ Height[B] \in Nat
      /\ Chain[B] = Chain[prevTop] \cap Main
      /\ Height[B] < Height[top] /\ Work[B] < Work[top]
  BY <1>2, <1>3, AtBranchPoint, ZenonT(60)
<1>5. Counted = {d \in Chain[prevTop] : Height[d] <= s}
  BY <1>2, <1>3, CountedOn DEF HistoryOf
<1> HIDE DEF B, s
<1>6. /\ ssh'.scanHeight_ = Smaller(s, Height[B]) /\ ssh'.tallyHeight_ = Smaller(s, Height[B])
      /\ ssh'.count = [b \in Block |-> ssh.count[b] - (IF b \in Undone THEN 1 ELSE 0)]
  BY <1>1, <1>2
<1>7. Smaller(s, Height[B]) \in Int /\ Smaller(s, Height[B]) >= -1
      /\ Smaller(s, Height[B]) <= s /\ Smaller(s, Height[B]) <= Height[B]
  BY <1>2, <1>4, SMTT(60) DEF Smaller
<1>8. Counted' = {d \in Chain[prevTop] \cap Main : Height[d] <= s}
  <2>1. Counted' = {d \in Chain[B] : Height[d] <= Smaller(s, Height[B])} BY <1>1, <1>6 DEF Counted
  <2>2. \A d \in Chain[B] : Height[d] \in Nat /\ Height[d] <= Height[B] BY <1>4, Tree
  <2>3. \A d \in Chain[B] : Height[d] <= Smaller(s, Height[B]) <=> Height[d] <= s
    BY <1>2, <1>4, <2>2, SMTT(60) DEF Smaller
  <2> QED BY <2>1, <2>3, <1>4
<1>9. ssh'.count = Once(Counted')
  <2>1. ASSUME NEW b \in Block
        PROVE  ssh.count[b] - (IF b \in Undone THEN 1 ELSE 0) = IF b \in Counted' THEN 1 ELSE 0
    <3>1. ssh.count[b] = IF b \in Counted THEN 1 ELSE 0 BY <1>2 DEF Once
    <3>2. b \in Undone <=> b \in Counted /\ b \notin Main BY <1>5 DEF Undone, s
    <3>3. b \in Counted' <=> b \in Counted /\ b \in Main BY <1>5, <1>8
    <3> QED BY <3>1, <3>2, <3>3, SMTT(60)
  <2> QED BY <2>1, <1>6 DEF Once
<1>10. TypeOK'
  <2>1. ssh'.count \in [Block -> Int] BY <1>9, SMTT(60) DEF Once
  <2>2. ssh' \in [scanHeight_ : Int, tallyHeight_ : Int, count : [Block -> Int]]
    <3> DEFINE c == ssh'.count
    <3>1. ssh' = [scanHeight_ |-> Smaller(s, Height[B]), tallyHeight_ |-> Smaller(s, Height[B]),
                  count |-> c]
      BY <1>1, <1>2
    <3> HIDE DEF c
    <3> QED BY <3>1, <2>1, <1>7, SMTT(60) DEF c
  <2> QED BY <1>1, <1>2, <1>4, <2>2 DEF TypeOK, memVars
<1>11. Headers' BY <1>1, <1>2 DEF Headers, Heaviest, memVars
<1>12. Summary'
  <2>1. SshMatchesItsTop' BY <1>1, <1>6, <1>7, <1>9 DEF SshMatchesItsTop, Counted
  <2>2. Counted' \subseteq subssh' BY <1>1, <1>2, <1>5, <1>8 DEF Summary
  <2>3. top \in headers BY <1>2 DEF Heaviest
  <2> QED BY <1>1, <1>4, <1>6, <1>7, <2>1, <2>2, <2>3 DEF Summary
<1>13. Scanned'
  <2>1. Height[subsshTop] \in Nat BY <1>2, Root
  <2>2. ssh'.scanHeight_ <= Height[subsshTop] BY <1>2, <1>6, <1>7, <2>1, SMTT(60)
  <2> QED BY <1>1, <1>2, <2>2 DEF Scanned
<1>14. Main' = Main /\ Reorg' BY <1>1, <1>3 DEF Main, Reorg, memVars
<1>15. Scanning'
  <2>1. Gap' BY <1>1, <1>2, <1>14, ZenonT(60) DEF Gap, memVars
  <2>2. Counted' \subseteq Main BY <1>8
  <2>3. ssh'.scanHeight_ <= scanFrom BY <1>3, <1>6
  <2>4. scanFrom <= Height[top] BY <1>2, <1>3, <1>4, Root, SMTT(60)
  <2> QED BY <1>1, <1>3, <1>4, <1>14, <2>1, <2>2, <2>3, <2>4 DEF Scanning, memVars
<1> QED BY <1>1, <1>10, <1>11, <1>12, <1>13, <1>15 DEF IInv, AtRest, Undoing

LEMMA ScanInv ==
  ASSUME IInv, Scan
  PROVE  IInv'
<1> DEFINE C == CheckFrom
<1>1. /\ pc = "scan" /\ scanFrom' = C
      /\ pc' = IF C \in 0 .. Height[top] THEN "batch"
               ELSE IF subsshTop \in Main THEN "tally" ELSE "down"
      /\ UNCHANGED <<disk, dbVars, initializing, known, prevTop, top, batchEnd, stops>>
  BY DEF Scan
<1>2. /\ TypeOK /\ Summary /\ Scanned /\ Gap
      /\ top \in Block /\ subsshTop \in Block /\ scanFrom \in Int /\ ssh.scanHeight_ \in Int
      /\ Counted \subseteq Main /\ ssh.scanHeight_ <= scanFrom
      /\ ~Reorg => subsshTop \in Main /\ ~SshAhead
      /\ subsshTop \notin Main => scanFrom >= 0
      /\ Reorg => scanFrom <= Height[top]
      /\ ~Reorg => scanFrom <= Height[subsshTop] + 1
  BY <1>1 DEF IInv, TypeOK, Scanning
<1>3. /\ \A b \in Block : Height[b] \in Nat
      /\ subsshTop \in Main =>
           /\ Height[subsshTop] <= Height[top]
           /\ Height[subsshTop] = Height[top] => subsshTop = top
           /\ \A b \in Main : Height[b] < Height[subsshTop] => b \in Chain[subsshTop]
  <2>1. ASSUME subsshTop \in Main, NEW b \in Main, Height[b] < Height[subsshTop]
        PROVE  b \in Chain[subsshTop]
    <3>1. Height[b] \in Nat /\ Height[subsshTop] \in Nat BY <1>2, <2>1, Tree DEF Main
    <3>2. Height[b] <= Height[subsshTop] BY <3>1, <2>1, SMTT(60)
    <3> QED BY <3>2, <1>2, <2>1, Tree DEF Main
  <2> QED BY <1>2, <2>1, Root, Tree DEF Main
<1>4. /\ C \in Int /\ scanFrom <= C /\ C >= 0
      /\ subsshTop \in Main => Height[subsshTop] <= C
      /\ C = scanFrom \/ (subsshTop \in Main /\ C = Height[subsshTop])
  BY <1>2, <1>3, SMTT(60) DEF CheckFrom
<1> HIDE DEF C
<1>5. ASSUME C \notin 0 .. Height[top] PROVE ~Reorg /\ C > Height[top] /\ subsshTop = top
  BY <1>2, <1>3, <1>4, <1>5, SMTT(60)
<1>6. pc' \in {"batch", "tally"} /\ (pc' = "tally" => C \notin 0 .. Height[top])
      /\ (pc' = "batch" => C \in 0 .. Height[top])
  <2>1. top \in Main BY <1>2, Root DEF Main
  <2> QED BY <1>1, <1>5, <2>1
<1>7. Summary' /\ Scanned' /\ Counted' = Counted /\ (SshAhead' <=> SshAhead)
  BY <1>1, <1>2, DatabasesKept DEF dbVars
<1>8. Main' = Main /\ (Reorg' <=> Reorg) BY <1>1 DEF Main, Reorg
<1>9. TypeOK' BY <1>1, <1>2, <1>4, <1>6 DEF TypeOK, dbVars
<1>10. Headers' BY <1>1, <1>6, ZenonT(60) DEF IInv, Headers, Heaviest, dbVars
<1>11. Gap'
  <2> SUFFICES ASSUME NEW b \in Main, Height[b] < C PROVE b \in subssh
    BY <1>1, <1>8 DEF Gap, dbVars
  <2> QED BY <1>2, <1>3, <1>4 DEF Gap, Scanned
<1>12. ssh.scanHeight_ <= C BY <1>2, <1>4, SMTT(60)
<1>13. Reorg => sshTop \in Main /\ Height[sshTop] < Height[top] BY <1>1 DEF IInv, Scanning
<1>14. Scanning'
  BY <1>1, <1>2, <1>4, <1>5, <1>6, <1>7, <1>8, <1>11, <1>12, <1>13 DEF Scanning, dbVars
<1> QED BY <1>6, <1>7, <1>9, <1>10, <1>14 DEF IInv, AtRest, Undoing

LEMMA WriteStxoInv ==
  ASSUME IInv, NEW end \in 0 .. Height[top], WriteStxo(end)
  PROVE  IInv'
<1>1. /\ pc = "batch" /\ pc' = "batchSubssh" /\ end \in scanFrom .. Height[top] /\ batchEnd' = end
      /\ stxo' = stxo \cup BatchOutputs(end)
      /\ UNCHANGED <<disk, headers, subssh, subsshTop, ssh, sshTop, initializing, known, prevTop,
                     top, scanFrom, stops>>
  BY DEF WriteStxo
<1>2. TypeOK'
  <2>1. BatchOutputs(end) \subseteq Block
    BY Root DEF BatchOutputs, Found, Between, Main, IInv, TypeOK
  <2> QED BY <1>1, <2>1, SMTT(60) DEF IInv, TypeOK
<1>3. Headers' BY <1>1 DEF IInv, Headers, Heaviest
<1>4. Summary' /\ Scanned' /\ Counted' = Counted /\ (SshAhead' <=> SshAhead)
  BY <1>1, DatabasesKept DEF IInv
<1>5. Main' = Main /\ (Reorg' <=> Reorg) BY <1>1 DEF Main, Reorg
<1>6. Scanning' BY <1>1, <1>4, <1>5 DEF IInv, Scanning, Gap
<1>7. AtRest' /\ Undoing' BY <1>1 DEF AtRest, Undoing
<1> QED BY <1>2, <1>3, <1>4, <1>6, <1>7, ZenonT(60) DEF IInv

LEMMA WriteSubsshInv ==
  ASSUME IInv, WriteSubssh
  PROVE  IInv'
<1> DEFINE s == ssh.scanHeight_
<1>1. /\ pc = "batchSubssh" /\ subssh' = subssh \cup Found(batchEnd) /\ subsshTop' = BatchTop
      /\ pc' = IF batchEnd = Height[top] THEN "tally" ELSE "batch"
      /\ scanFrom' = batchEnd + 1
      /\ UNCHANGED <<disk, headers, stxo, ssh, sshTop, initializing, known, prevTop, top, batchEnd,
                     stops>>
  BY DEF WriteSubssh
<1>2. /\ TypeOK /\ Summary /\ Scanned /\ Gap
      /\ top \in Block /\ subsshTop \in Block /\ sshTop \in Block /\ s \in Int
      /\ Counted \subseteq Main /\ s <= scanFrom
      /\ scanFrom \in 0 .. Height[top] /\ batchEnd \in scanFrom .. Height[top]
      /\ subsshTop \in Main => Height[subsshTop] <= scanFrom
      /\ Reorg => sshTop \in Main /\ Height[sshTop] < Height[top]
      /\ ~Reorg => subsshTop \in Main /\ ~SshAhead
  BY <1>1 DEF IInv, TypeOK, Scanning
<1>3. Height[top] \in Nat /\ Height[subsshTop] \in Nat /\ Height[sshTop] \in Nat
  BY <1>2, Root
<1>4. batchEnd \in 0 .. Height[top] BY <1>2, <1>3, SMTT(60)
<1>5. BatchTop \in Main /\ Height[BatchTop] = batchEnd
  <2>1. \E b \in Main : Height[b] = batchEnd BY <1>2, <1>4, ChainAssumption DEF Main
  <2> QED BY <2>1 DEF BatchTop
<1>6. BatchTop \in Block /\ Chain[BatchTop] \subseteq Main BY <1>2, <1>5, Tree DEF Main
<1>7. ASSUME NEW b \in Main, Height[b] < batchEnd + 1 PROVE b \in subssh'
  <2>1. Height[b] \in Nat BY <1>2, Tree DEF Main
  <2>2. CASE Height[b] < scanFrom BY <1>1, <1>2, <2>2 DEF Gap
  <2>3. CASE Height[b] <= s
    <3>1. b \in Counted BY <1>2, <2>3, CountedOn DEF Main
    <3> QED BY <3>1, <1>1, <1>2 DEF Summary
  <2>4. CASE Height[b] >= scanFrom /\ Height[b] > s
    BY <1>1, <1>2, <1>4, <1>7, <2>1, <2>4, SMTT(60) DEF Found, Between
  <2> QED BY <1>2, <2>1, <2>2, <2>3, <2>4, SMTT(60)
<1> HIDE DEF s
<1>8. Main' = Main /\ (Reorg' <=> Reorg) /\ Counted' = Counted
  BY <1>1 DEF Main, Reorg, Counted
<1>9. pc' \in {"tally", "batch"} /\ (pc' = "tally" <=> batchEnd = Height[top]) BY <1>1
<1>10. TypeOK'
  <2>1. Found(batchEnd) \subseteq Block BY <1>2, Root DEF Found, Between, Main
  <2>2. scanFrom' \in Int BY <1>1, <1>4, SMTT(60)
  <2> QED BY <1>1, <1>2, <1>6, <1>9, <2>1, <2>2 DEF TypeOK
<1>11. Headers' BY <1>1, <1>9 DEF IInv, Headers, Heaviest
<1>12. Summary'
  <2>1. SshMatchesItsTop' BY <1>1, <1>2 DEF Summary, SshMatchesItsTop, Once
  <2> QED BY <1>1, <1>2, <1>8, <2>1 DEF Summary
<1>13. Scanned'
  <2>1. ASSUME NEW b \in Chain[BatchTop], Height[b] < batchEnd PROVE b \in subssh'
    <3>1. b \in Main /\ Height[b] \in Nat BY <1>6, Tree
    <3>2. Height[b] < batchEnd + 1 BY <3>1, <1>4, <2>1, SMTT(60)
    <3> QED BY <3>1, <3>2, <1>7
  <2>2. s <= batchEnd BY <1>2, <1>4, SMTT(60)
  <2> QED BY <1>1, <1>5, <2>1, <2>2 DEF Scanned, s
<1>14. Gap' BY <1>1, <1>7, <1>8 DEF Gap
<1>15. ~Reorg => ~SshAhead'
  <2>1. ASSUME ~Reorg PROVE Height[subsshTop] <= batchEnd BY <1>2, <1>3, <1>4, <2>1, SMTT(60)
  <2> QED BY <1>1, <1>2, <1>3, <1>4, <1>5, <2>1, SMTT(60) DEF SshAhead
<1>16. Reorg /\ batchEnd = Height[top] => ~SshAhead'
  BY <1>1, <1>2, <1>3, <1>5, SMTT(60) DEF SshAhead
<1>17. batchEnd = Height[top] => BatchTop = top
  BY <1>2, <1>5, Tree DEF Main
<1>18. s <= batchEnd + 1 BY <1>2, <1>4, SMTT(60)
<1>19. batchEnd # Height[top] => batchEnd + 1 \in 0 .. Height[top] BY <1>3, <1>4, SMTT(60)
<1>20. batchEnd <= batchEnd + 1 /\ (batchEnd = Height[top] => batchEnd + 1 > Height[top])
  BY <1>3, <1>4, SMTT(60)
<1>21. Scanning'
  <2>1. ssh'.scanHeight_ = s BY <1>1 DEF s
  <2>2. pc' \in {"batch", "tally"} =>
          /\ Counted' \subseteq Main' /\ ssh'.scanHeight_ <= scanFrom'
          /\ Reorg' => sshTop' \in Main' /\ Height[sshTop'] < Height[top']
          /\ ~Reorg' => subsshTop' \in Main' /\ ~SshAhead'
    BY <1>1, <1>2, <1>5, <1>8, <1>15, <1>18, <2>1
  <2>3. pc' = "batch" => scanFrom' \in 0 .. Height[top'] /\ Height[subsshTop'] <= scanFrom'
    BY <1>1, <1>5, <1>9, <1>19, <1>20
  <2>4. pc' = "tally" => scanFrom' > Height[top'] /\ subsshTop' = top' /\ ~SshAhead'
    BY <1>1, <1>9, <1>15, <1>16, <1>17, <1>20
  <2> QED BY <1>9, <1>14, <2>2, <2>3, <2>4 DEF Scanning
<1> QED BY <1>9, <1>10, <1>11, <1>12, <1>13, <1>21 DEF IInv, AtRest, Undoing

LEMMA UpdateSshInv ==
  ASSUME IInv, UpdateSsh
  PROVE  IInv'
<1> DEFINE s == ssh.scanHeight_
<1>1. /\ pc = "tally" /\ pc' = "idle"
      /\ UNCHANGED <<disk, headers, stxo, subssh, subsshTop, memVars, stops>>
  BY DEF UpdateSsh
<1>2. /\ TypeOK /\ Summary /\ Scanned /\ Gap
      /\ top \in Block /\ sshTop \in Block /\ s \in Int /\ scanFrom \in Int
      /\ Counted \subseteq Main /\ scanFrom > Height[top] /\ subsshTop = top
      /\ headers = known /\ top \in Heaviest(known)
      /\ ssh.tallyHeight_ = s /\ ssh.count = Once(Counted)
  BY <1>1 DEF IInv, TypeOK, Scanning, Headers, Summary, SshMatchesItsTop, Counted
<1>3. /\ \A b \in Main : b \in Block /\ Height[b] \in Nat /\ Height[b] <= Height[top]
      /\ Height[top] \in Nat /\ top \in Main
  BY <1>2, Root, Tree, ZenonT(60) DEF Main
<1>4. Main \subseteq subssh BY <1>2, <1>3, SMTT(60) DEF Gap
<1>5. Headers' BY <1>1 DEF IInv, Headers, Heaviest, memVars
<1>6. Main' = Main BY <1>1 DEF Main, memVars
<1>7. CASE NoSshToScan
  <2>1. UNCHANGED <<ssh, sshTop>> BY <1>7 DEF UpdateSsh
  <2>2. sshTop = top BY <1>2, <1>3, <1>7, Tree, SMTT(60) DEF NoSshToScan, Main
  <2>3. s = Height[top]
    <3>1. ASSUME NEW h \in headers PROVE ~(Work[sshTop] < Work[h])
      <4>1. Work[h] <= Work[top] BY <1>2 DEF Heaviest
      <4>2. Work[h] \in Nat /\ Work[top] \in Nat BY <1>2, Root DEF TypeOK
      <4> QED BY <4>1, <4>2, <2>2, SMTT(60)
    <3> QED BY <1>2, <1>7, <2>2, <3>1 DEF Summary, NoSshToScan
  <2>4. Counted = Main BY <1>2, <1>3, <2>2, <2>3 DEF Counted, Main
  <2>5. Summary' /\ Scanned' /\ Counted' = Counted BY <1>1, <1>2, <2>1, DatabasesKept
  <2>6. AtRest' BY <1>1, <1>2, <1>3, <1>6, <2>1, <2>3, <2>4, <2>5 DEF AtRest, memVars
  <2>7. TypeOK' BY <1>1, <1>2, <2>1 DEF TypeOK, memVars
  <2> QED BY <1>1, <1>5, <2>5, <2>6, <2>7 DEF IInv, Undoing, Scanning
<1>8. CASE ~NoSshToScan
  <2>1. /\ sshTop' = top
        /\ ssh' = [scanHeight_ |-> Height[top], tallyHeight_ |-> Height[top],
                   count |-> [b \in Block |-> ssh.count[b] + (IF b \in ToTally THEN 1 ELSE 0)]]
    BY <1>8 DEF UpdateSsh
  <2>2. ssh'.scanHeight_ = Height[top] /\ ssh'.tallyHeight_ = Height[top] BY <2>1
  <2>3. Counted' = Main BY <1>3, <2>1, <2>2 DEF Counted, Main
  <2>4. ssh'.count = Once(Main)
    <3>1. Counted = {d \in Main : Height[d] <= s} BY <1>2, CountedOn DEF Main
    <3>2. ToTally = {d \in Main : Height[d] > s} BY <1>2, <1>4 DEF ToTally
    <3>3. ASSUME NEW b \in Block
          PROVE  ssh.count[b] + (IF b \in ToTally THEN 1 ELSE 0) = IF b \in Main THEN 1 ELSE 0
      <4>1. ssh.count[b] = IF b \in Counted THEN 1 ELSE 0 BY <1>2 DEF Once
      <4>2. b \in Main => (b \in ToTally <=> b \notin Counted) BY <1>2, <1>3, <3>1, <3>2, SMTT(60)
      <4>3. b \notin Main => b \notin ToTally /\ b \notin Counted BY <3>1, <3>2
      <4> HIDE DEF s
      <4> QED BY <4>1, <4>2, <4>3, SMTT(60)
    <3>4. ssh'.count = [b \in Block |-> ssh.count[b] + (IF b \in ToTally THEN 1 ELSE 0)]
      BY <2>1
    <3> QED BY <3>3, <3>4 DEF Once
  <2>5. SshMatchesItsTop'
    BY <1>3, <2>1, <2>2, <2>3, <2>4, ZenonT(60) DEF SshMatchesItsTop, Counted
  <2>6. Summary' BY <1>1, <1>3, <1>4, <2>1, <2>2, <2>3, <2>5, SMTT(60) DEF Summary
  <2>7. Scanned' BY <1>1, <1>2, <1>3, <2>2 DEF Scanned
  <2>8. AtRest' BY <1>1, <1>2, <1>3, <1>6, <2>2, <2>3 DEF AtRest, memVars
  <2>9. TypeOK'
    <3>1. Once(Main) \in [Block -> Int] BY SMTT(60) DEF Once
    <3> DEFINE c == Once(Main)
    <3>2. ssh' = [scanHeight_ |-> Height[top], tallyHeight_ |-> Height[top], count |-> c]
      BY <2>1, <2>4
    <3> HIDE DEF c
    <3>3. ssh' \in [scanHeight_ : Int, tallyHeight_ : Int, count : [Block -> Int]]
      BY <1>3, <3>1, <3>2, SMTT(60) DEF c
    <3> QED BY <1>1, <1>2, <2>1, <3>3 DEF TypeOK, memVars
  <2> QED BY <1>1, <1>5, <2>6, <2>7, <2>8, <2>9 DEF IInv, Undoing, Scanning
<1> QED BY <1>7, <1>8

LEMMA StopInv ==
  ASSUME IInv, NoTies, ~StopsInReorg, Stop
  PROVE  IInv'
<1>1. /\ pc # "down" /\ pc' = "down" /\ ~HalfUndone /\ stops' = stops + 1
      /\ initializing' = FALSE /\ known' = {} /\ prevTop' = Genesis /\ top' = Genesis
      /\ scanFrom' = -1 /\ batchEnd' = -1
      /\ UNCHANGED <<disk, dbVars>>
  BY DEF Stop
<1>2. TypeOK'
  <2>1. Genesis \in Block BY HistoryAssumption
  <2>2. stops + 1 \in Nat /\ -1 \in Int BY SMTT(60) DEF IInv, TypeOK
  <2>3. UNCHANGED <<headers, stxo, subssh, subsshTop, ssh, sshTop>> BY <1>1 DEF dbVars
  <2> QED BY <1>1, <2>1, <2>2, <2>3, ZenonT(60) DEF IInv, TypeOK
<1>3. Headers' BY <1>1 DEF IInv, Headers, Heaviest, dbVars
<1>4. Summary' /\ Scanned' /\ Counted' = Counted /\ (SshAhead' <=> SshAhead)
  BY <1>1, DatabasesKept DEF IInv, dbVars
<1>5. ASSUME NEW t \in Heaviest(headers) PROVE HistoryOf(t)
  <2>1. CASE pc = "organized" BY <2>1 DEF IInv, AtRest
  <2>2. CASE pc # "organized"
    <3>1. t = top BY <1>1, <2>2, OneHeaviest DEF IInv, Headers, TypeOK
    <3>2. top \in Block /\ prevTop \in Block /\ ssh.scanHeight_ \in Int /\ Height[top] \in Nat
      BY Root DEF IInv, TypeOK
    <3>3. CASE pc \in {"undoStxo", "undoSsh"}
      <4>1. Reorg /\ HistoryOf(prevTop) /\ subsshTop \in Main
        BY <1>1, <3>3 DEF IInv, Undoing, HalfUndone
      <4>2. ASSUME NEW b \in Counted PROVE b \in Main
        <5>1. b \in Chain[prevTop] /\ Height[b] <= ssh.scanHeight_
          BY <4>1 DEF HistoryOf, Counted
        <5>2. ssh.scanHeight_ <= Height[subsshTop] BY DEF IInv, Scanned
        <5>3. Height[b] \in Nat /\ Height[subsshTop] \in Nat
          BY <3>2, <4>1, <5>1, Tree DEF HistoryOf
        <5>4. Height[b] <= Height[subsshTop] BY <5>1, <5>2, <5>3, <3>2, SMTT(60)
        <5>5. b \in Chain[subsshTop] BY <3>2, <4>1, <5>1, <5>4, Tree DEF HistoryOf
        <5> QED BY <3>2, <4>1, <5>5, Tree DEF Main
      <4> QED BY <3>1, <4>1, <4>2, ZenonT(60) DEF HistoryOf, Main
    <3>4. CASE pc \in {"scan", "batch", "batchSubssh"}
      <4>1. Counted \subseteq Main /\ (~Reorg => subsshTop \in Main /\ ~SshAhead)
        BY <3>4 DEF IInv, Scanning
      <4>2. Reorg => subsshTop \in Main /\ ~SshAhead BY <1>1, <3>4 DEF HalfUndone
      <4> QED BY <3>1, <4>1, <4>2 DEF HistoryOf, Main
    <3>5. CASE pc = "tally"
      <4>1. Counted \subseteq Main /\ subsshTop = top /\ ~SshAhead BY <3>5 DEF IInv, Scanning
      <4> QED BY <3>1, <3>2, <4>1, Root DEF HistoryOf, Main
    <3>6. CASE pc = "idle"
      <4>1. ssh.scanHeight_ = Height[top] /\ Counted = Main /\ subsshTop \in Main
        BY <3>6 DEF IInv, AtRest
      <4>2. ~SshAhead BY <3>2, <4>1, SMTT(60) DEF SshAhead
      <4> QED BY <3>1, <4>1, <4>2 DEF HistoryOf, Main
    <3> QED BY <1>1, <2>2, <3>3, <3>4, <3>5, <3>6 DEF IInv, TypeOK
  <2> QED BY <2>1, <2>2
<1>6. AtRest' BY <1>1, <1>4, <1>5 DEF AtRest, HistoryOf, Heaviest, dbVars
<1> QED BY <1>1, <1>2, <1>3, <1>4, <1>6 DEF IInv, Undoing, Scanning

LEMMA NextInv == NoTies /\ ~StopsInReorg /\ IInv /\ [Next]_vars => IInv'
<1> SUFFICES ASSUME NoTies, ~StopsInReorg, IInv, [Next]_vars PROVE IInv' OBVIOUS
<1>1. CASE UNCHANGED vars
  <2>1. UNCHANGED <<disk, headers, stxo, subssh, subsshTop, ssh, sshTop, pc, initializing, known,
                    prevTop, top, scanFrom, batchEnd, stops>>
    BY <1>1 DEF vars, dbVars, memVars
  <2>2. TypeOK' /\ Headers' BY <2>1 DEF IInv, TypeOK, Headers, Heaviest
  <2>3. Summary' /\ Scanned' /\ Counted' = Counted /\ (SshAhead' <=> SshAhead)
    BY <2>1, DatabasesKept DEF IInv
  <2>4. Main' = Main /\ BranchPoint' = BranchPoint /\ (Reorg' <=> Reorg)
    BY <2>1 DEF Main, BranchPoint, Reorg
  <2>5. AtRest' BY <2>1, <2>3, <2>4 DEF IInv, AtRest, HistoryOf, Heaviest
  <2>6. Undoing' BY <2>1, <2>3, <2>4 DEF IInv, Undoing, HistoryOf
  <2>7. Scanning' BY <2>1, <2>3, <2>4 DEF IInv, Scanning, Gap
  <2> QED BY <2>2, <2>3, <2>5, <2>6, <2>7 DEF IInv
<1>2. CASE \E b \in Block : NodeWrites(b) BY <1>2, NodeWritesInv
<1>3. CASE Stop BY <1>3, StopInv
<1>4. CASE StartInit BY <1>4, StartInitInv
<1>5. CASE StartUpdate BY <1>5, StartUpdateInv
<1>6. CASE PutHeaders BY <1>6, PutHeadersInv
<1>7. CASE UndoStxo BY <1>7, UndoStxoInv
<1>8. CASE UndoSsh BY <1>8, UndoSshInv
<1>9. CASE Scan BY <1>9, ScanInv
<1>10. CASE \E end \in 0 .. Height[top] : WriteStxo(end) BY <1>10, WriteStxoInv
<1>11. CASE WriteSubssh BY <1>11, WriteSubsshInv
<1>12. CASE UpdateSsh BY <1>12, UpdateSshInv
<1> QED
  BY <1>1, <1>2, <1>3, <1>4, <1>5, <1>6, <1>7, <1>8, <1>9, <1>10, <1>11, <1>12 DEF Next, Step

(* The databases and the process are in step with each other, through any  *)
(* reorgs and stops of init, update, scan, undo and updateSSH.             *)
THEOREM Invariance ==
  ASSUME NoTies, ~StopsInReorg
  PROVE  Spec => []IInv
<1>1. NoTies /\ ~StopsInReorg OBVIOUS
<1> QED BY <1>1, InitInv, NextInv, PTL DEF Spec

(* When init or update is done, SSH counts every block of the main branch  *)
(* once and no other, for every tree without ties, when the process does   *)
(* not stop with a reorg half undone.                                      *)
THEOREM CountsHold ==
  ASSUME NoTies, ~StopsInReorg
  PROVE  Spec => []CountsMainBranch
<1>1. IInv => CountsMainBranch
  BY DEF IInv, Summary, SshMatchesItsTop, AtRest, CountsMainBranch, Counted
<1> QED BY <1>1, Invariance, PTL

(* At every moment SSH counts the part of the chain its sdbi names up to   *)
(* scanHeight_, in particular while undo and updateSSH are under way.      *)
THEOREM SummaryHolds ==
  ASSUME NoTies, ~StopsInReorg
  PROVE  Spec => []SshMatchesItsTop
<1>1. IInv => SshMatchesItsTop BY ZenonT(60) DEF IInv, Summary
<1> QED BY <1>1, Invariance, PTL

(* What init passes over because SUBSSH has scanned ahead of SSH is in     *)
(* SUBSSH, also after the process was stopped in the middle of a scan.     *)
THEOREM SkippedHolds ==
  ASSUME NoTies, ~StopsInReorg
  PROVE  Spec => []SkippedIsScanned
<1>1. IInv => SkippedIsScanned
  <2> SUFFICES ASSUME IInv, pc = "scan", NEW b \in Between(ssh.scanHeight_ + 1, scanFrom - 1)
               PROVE  b \in subssh
    BY DEF SkippedIsScanned
  <2>1. top \in Block /\ scanFrom \in Int /\ Gap BY DEF IInv, TypeOK, Scanning
  <2>2. b \in Main /\ Height[b] <= scanFrom - 1 BY DEF Between
  <2>3. Height[b] \in Nat BY <2>1, <2>2, Tree DEF Main
  <2> QED BY <2>1, <2>2, <2>3, SMTT(60) DEF Gap
<1> QED BY <1>1, Invariance, PTL
=============================================================================
