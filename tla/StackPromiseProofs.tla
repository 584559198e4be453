------------------------- MODULE StackPromiseProofs -------------------------
(***************************************************************************)
(* replaceFut_ protects the promise/future pair of Stack<T> for any number *)
(* of threads.  The inductive invariant adds to Guarded what each stage of *)
(* pop_promise has done to the pair (Stages) and that the pointer a copier *)
(* has read is still the current one (CopiesCurrent): it can only be so    *)
(* because no replacer runs while a copier is counted in.                  *)
(***************************************************************************)
EXTENDS StackPromise, FiniteSetTheorems, TLAPS

CopiesCurrent == \A t \in Thread : pc[t] = "copy" => futptr[t] = futPtr_

Settled ==
  /\ promises = {promPtr_} /\ futures = {futPtr_}
  /\ promPtr_ = futPtr_ /\ promPtr_ \notin ready

Stages ==
  /\ Replacers = {} => Settled
  /\ \A t \in Thread :
       /\ pc[t] \in {"setValue", "unlock"} => Settled
       /\ pc[t] = "newPromise" =>
            /\ promises = {promPtr_} /\ futures = {promPtr_}
            /\ futPtr_ = promPtr_ /\ oldprom[t] = promPtr_ /\ promPtr_ \in ready
       /\ pc[t] = "newFuture" =>
            /\ promises = {futPtr_, promPtr_} /\ futures = {futPtr_}
            /\ futPtr_ # promPtr_ /\ oldprom[t] = futPtr_
            /\ promPtr_ \notin ready
       /\ pc[t] = "delete" =>
            /\ promises = {oldprom[t], promPtr_} /\ futures = {oldprom[t], promPtr_}
            /\ futPtr_ = promPtr_ /\ oldprom[t] # promPtr_
            /\ futval[t] = oldprom[t] /\ promPtr_ \notin ready

IInv == TypeOK /\ Guarded /\ CopiesCurrent /\ Stages /\ NoOrphan

LEMMA CopiersFinite == IsFiniteSet(Copiers) /\ Cardinality(Copiers) \in Nat
  BY PromiseAssumption, FS_Subset, FS_CardinalityType DEF Copiers

(* What the guard says about a thread, without sets. *)
LEMMA GuardFacts ==
  ASSUME Guarded, NEW t \in Thread
  PROVE  /\ pc[t] \in Replacing =>
              /\ replaceFut_ = -1
              /\ \A u \in Thread : pc[u] \in Replacing => u = t
              /\ \A u \in Thread : pc[u] \notin Copying
         /\ pc[t] \in Copying => Replacers = {} /\ replaceFut_ # 0 /\ replaceFut_ # -1
         /\ replaceFut_ # -1 => Replacers = {}
  <1>1. Copiers # {} => Cardinality(Copiers) # 0
    BY CopiersFinite, FS_EmptySet
  <1>2. Cardinality(Copiers) \in Nat
    BY CopiersFinite
  <1>3. pc[t] \in Copying => Copiers # {} /\ Replacers = {}
    BY DEF Guarded, Copiers
  <1>4. pc[t] \in Copying => replaceFut_ # 0 /\ replaceFut_ # -1
    BY <1>1, <1>2, <1>3 DEF Guarded
  <1> QED BY <1>3, <1>4 DEF Guarded, Replacers, Copiers

LEMMA CallGetFutureInv ==
  ASSUME IInv, NEW t \in Thread, CallGetFuture(t)
  PROVE  IInv'
  <1> USE DEF IInv, Goto, guardVars, holdVars, promiseVars, Copying, Replacing, PromisePC
  <1>1. TypeOK'
    BY DEF TypeOK, CallGetFuture
  <1>2. Copiers' = Copiers /\ Replacers' = Replacers
    BY DEF TypeOK, Copiers, Replacers, CallGetFuture
  <1>3. Guarded'
    BY <1>2 DEF Guarded, CallGetFuture
  <1>4. CopiesCurrent'
    BY DEF TypeOK, CopiesCurrent, CallGetFuture
  <1>5. Stages'
    BY <1>2 DEF TypeOK, Stages, Settled, CallGetFuture
  <1>6. NoOrphan'
    BY DEF TypeOK, NoOrphan, CallGetFuture
  <1> QED BY <1>1, <1>3, <1>4, <1>5, <1>6

LEMMA CallPopPromiseInv ==
  ASSUME IInv, NEW t \in Thread, CallPopPromise(t)
  PROVE  IInv'
  <1> USE DEF IInv, Goto, guardVars, holdVars, promiseVars, Copying, Replacing, PromisePC
  <1>1. TypeOK'
    BY DEF TypeOK, CallPopPromise
  <1>2. Copiers' = Copiers /\ Replacers' = Replacers
    BY DEF TypeOK, Copiers, Replacers, CallPopPromise
  <1>3. Guarded'
    BY <1>2 DEF Guarded, CallPopPromise
  <1>4. CopiesCurrent'
    BY DEF TypeOK, CopiesCurrent, CallPopPromise
  <1>5. Stages'
    BY <1>2 DEF TypeOK, Stages, Settled, CallPopPromise
  <1>6. NoOrphan'
    BY DEF TypeOK, NoOrphan, CallPopPromise
  <1> QED BY <1>1, <1>3, <1>4, <1>5, <1>6

LEMMA DropFutureInv ==
  ASSUME IInv, NEW t \in Thread, DropFuture(t)
  PROVE  IInv'
  <1> USE DEF IInv, Goto, guardVars, holdVars, promiseVars, Copying, Replacing, PromisePC
  <1>1. TypeOK'
    BY DEF TypeOK, DropFuture
  <1>2. Copiers' = Copiers /\ Replacers' = Replacers
    BY DEF TypeOK, Copiers, Replacers, DropFuture
  <1>3. Guarded'
    BY <1>2 DEF Guarded, DropFuture
  <1>4. CopiesCurrent'
    BY DEF TypeOK, CopiesCurrent, DropFuture
  <1>5. Stages'
    BY <1>2 DEF TypeOK, Stages, Settled, DropFuture
  <1>6. NoOrphan'
    BY DEF TypeOK, NoOrphan, DropFuture
  <1> QED BY <1>1, <1>3, <1>4, <1>5, <1>6

LEMMA GetLoadInv ==
  ASSUME IInv, NEW t \in Thread, GetLoad(t)
  PROVE  IInv'
  <1> USE DEF IInv, Goto, guardVars, holdVars, promiseVars, Copying, Replacing, PromisePC
  <1>1. TypeOK'
    BY DEF TypeOK, GetLoad
  <1>2. Copiers' = Copiers /\ Replacers' = Replacers
    BY DEF TypeOK, Copiers, Replacers, GetLoad
  <1>3. Guarded'
    BY <1>2 DEF Guarded, GetLoad
  <1>4. CopiesCurrent'
    BY DEF TypeOK, CopiesCurrent, GetLoad
  <1>5. Stages'
    BY <1>2 DEF TypeOK, Stages, Settled, GetLoad
  <1>6. NoOrphan'
    BY DEF TypeOK, NoOrphan, GetLoad
  <1> QED BY <1>1, <1>3, <1>4, <1>5, <1>6

LEMMA PopPromiseBusyInv ==
  ASSUME IInv, NEW t \in Thread, PopPromiseBusy(t, "idle")
  PROVE  IInv'
  <1> USE DEF IInv, Goto, guardVars, holdVars, promiseVars, Copying, Replacing, PromisePC
  <1>1. TypeOK'
    BY DEF TypeOK, PopPromiseBusy
  <1>2. Copiers' = Copiers /\ Replacers' = Replacers
    BY DEF TypeOK, Copiers, Replacers, PopPromiseBusy
  <1>3. Guarded'
    BY <1>2 DEF Guarded, PopPromiseBusy
  <1>4. CopiesCurrent'
    BY DEF TypeOK, CopiesCurrent, PopPromiseBusy
  <1>5. Stages'
    BY <1>2 DEF TypeOK, Stages, Settled, PopPromiseBusy
  <1>6. NoOrphan'
    BY DEF TypeOK, NoOrphan, PopPromiseBusy
  <1> QED BY <1>1, <1>3, <1>4, <1>5, <1>6

LEMMA GetCopyInv ==
  ASSUME IInv, NEW t \in Thread, GetCopy(t)
  PROVE  IInv'
  <1> USE DEF IInv, Goto, guardVars, holdVars, promiseVars, Copying, Replacing, PromisePC
  <1>1. TypeOK'
    BY DEF TypeOK, GetCopy
  <1>2. Copiers' = Copiers /\ Replacers' = Replacers
    BY DEF TypeOK, Copiers, Replacers, GetCopy
  <1>3. Guarded'
    BY <1>2 DEF Guarded, GetCopy
  <1>4. CopiesCurrent'
    BY DEF TypeOK, CopiesCurrent, GetCopy
  <1>5. Stages'
    BY <1>2 DEF TypeOK, Stages, Settled, GetCopy
  <1>6. NoOrphan'
    <2>1. Settled
      BY GuardFacts DEF GetCopy, Stages
    <2> QED BY <2>1 DEF TypeOK, NoOrphan, GetCopy, CopiesCurrent, Settled
  <1> QED BY <1>1, <1>3, <1>4, <1>5, <1>6

LEMMA GetEnterInv ==
  ASSUME IInv, NEW t \in Thread, GetEnter(t)
  PROVE  IInv'
  <1> USE DEF IInv, Goto, guardVars, holdVars, promiseVars, Copying, Replacing, PromisePC
  <1>1. TypeOK'
    BY DEF TypeOK, GetEnter
  <1>2. Copiers' = Copiers \cup {t} /\ t \notin Copiers /\ Replacers' = Replacers
    BY DEF TypeOK, Copiers, Replacers, GetEnter
  <1>3. Guarded'
    <2>1. Replacers = {}
      BY GuardFacts DEF GetEnter
    <2>2. Cardinality(Copiers') = Cardinality(Copiers) + 1
      BY <1>2, CopiersFinite, FS_AddElement
    <2> QED BY <1>2, <2>1, <2>2 DEF Guarded, GetEnter
  <1>4. CopiesCurrent'
    BY DEF TypeOK, CopiesCurrent, GetEnter
  <1>5. Stages'
    BY <1>2 DEF TypeOK, Stages, Settled, GetEnter
  <1>6. NoOrphan'
    BY DEF TypeOK, NoOrphan, GetEnter
  <1> QED BY <1>1, <1>3, <1>4, <1>5, <1>6

LEMMA GetReleaseInv ==
  ASSUME IInv, NEW t \in Thread, GetRelease(t, "idle")
  PROVE  IInv'
  <1> USE DEF IInv, Goto, guardVars, holdVars, promiseVars, Copying, Replacing, PromisePC
  <1>1. TypeOK'
    BY DEF TypeOK, GetRelease
  <1>2. Copiers' = Copiers \ {t} /\ t \in Copiers /\ Replacers' = Replacers
    BY DEF TypeOK, Copiers, Replacers, GetRelease
  <1>3. Guarded'
    <2>1. Replacers = {}
      BY GuardFacts DEF GetRelease
    <2>2. Cardinality(Copiers') = Cardinality(Copiers) - 1
      BY <1>2, CopiersFinite, FS_RemoveElement
    <2> QED BY <1>2, <2>1, <2>2 DEF Guarded, GetRelease
  <1>4. CopiesCurrent'
    BY DEF TypeOK, CopiesCurrent, GetRelease
  <1>5. Stages'
    BY <1>2 DEF TypeOK, Stages, Settled, GetRelease
  <1>6. NoOrphan'
    BY DEF TypeOK, NoOrphan, GetRelease
  <1> QED BY <1>1, <1>3, <1>4, <1>5, <1>6

LEMMA PopPromiseEnterInv ==
  ASSUME IInv, NEW t \in Thread, PopPromiseEnter(t)
  PROVE  IInv'
  <1> USE DEF IInv, Goto, guardVars, holdVars, promiseVars, Copying, Replacing, PromisePC
  <1>1. TypeOK'
    BY DEF TypeOK, PopPromiseEnter
  <1>2. Copiers' = Copiers /\ Replacers' = {t} /\ Replacers = {}
    <2>1. Replacers = {}
      BY GuardFacts DEF PopPromiseEnter
    <2> QED BY <2>1 DEF TypeOK, Copiers, Replacers, PopPromiseEnter
  <1>3. Guarded'
    <2>1. Copiers = {}
      BY <1>2, CopiersFinite, FS_EmptySet DEF Guarded, PopPromiseEnter
    <2> QED BY <1>2, <2>1 DEF Guarded, PopPromiseEnter
  <1>4. CopiesCurrent'
    BY DEF TypeOK, CopiesCurrent, PopPromiseEnter
  <1>5. Stages'
    <2>1. Settled /\ Settled'
      BY <1>2 DEF Stages, Settled, PopPromiseEnter
    <2>2. \A u \in Thread : pc'[u] \in Replacing => u = t
      BY <1>2 DEF Replacers
    <2> QED BY <1>2, <2>1, <2>2 DEF TypeOK, Stages, PopPromiseEnter
  <1>6. NoOrphan'
    BY DEF TypeOK, NoOrphan, PopPromiseEnter
  <1> QED BY <1>1, <1>3, <1>4, <1>5, <1>6

LEMMA PopPromiseSetInv ==
  ASSUME IInv, NEW t \in Thread, PopPromiseSet(t)
  PROVE  IInv'
  <1> USE DEF IInv, Goto, guardVars, holdVars, promiseVars, Copying, Replacing, PromisePC
  <1>0. /\ \A u \in Thread : pc[u] \in Replacing => u = t
        /\ \A u \in Thread : pc[u] \notin Copying
        /\ replaceFut_ = -1
    BY GuardFacts DEF PopPromiseSet
  <1>1. TypeOK'
    BY DEF TypeOK, PopPromiseSet
  <1>2. Copiers' = {} /\ Replacers' = {t}
    BY <1>0 DEF TypeOK, Copiers, Replacers, PopPromiseSet
  <1>3. Guarded'
    BY <1>2, <1>0 DEF Guarded, PopPromiseSet
  <1>4. CopiesCurrent'
    BY <1>2 DEF CopiesCurrent, Copiers
  <1>5. Stages'
    <2>1. \A u \in Thread : pc'[u] \in Replacing => u = t
      BY <1>2 DEF Replacers
    <2> QED BY <1>2, <2>1 DEF TypeOK, Stages, Settled, PopPromiseSet
  <1>6. NoOrphan'
    BY DEF TypeOK, NoOrphan, PopPromiseSet
  <1> QED BY <1>1, <1>3, <1>4, <1>5, <1>6

LEMMA PopPromiseNewInv ==
  ASSUME IInv, NEW t \in Thread, NEW p \in Pair, PopPromiseNew(t, p)
  PROVE  IInv'
  <1> USE DEF IInv, Goto, guardVars, holdVars, promiseVars, Copying, Replacing, PromisePC
  <1>0. /\ \A u \in Thread : pc[u] \in Replacing => u = t
        /\ \A u \in Thread : pc[u] \notin Copying
        /\ replaceFut_ = -1
    BY GuardFacts DEF PopPromiseNew
  <1>1. TypeOK'
    BY DEF TypeOK, PopPromiseNew
  <1>2. Copiers' = {} /\ Replacers' = {t}
    BY <1>0 DEF TypeOK, Copiers, Replacers, PopPromiseNew
  <1>3. Guarded'
    BY <1>2, <1>0 DEF Guarded, PopPromiseNew
  <1>4. CopiesCurrent'
    BY <1>2 DEF CopiesCurrent, Copiers
  <1>5. Stages'
    <2>1. \A u \in Thread : pc'[u] \in Replacing => u = t
      BY <1>2 DEF Replacers
    <2> QED BY <1>2, <2>1 DEF TypeOK, Stages, Settled, PopPromiseNew, InUse
  <1>6. NoOrphan'
    BY DEF TypeOK, NoOrphan, PopPromiseNew, InUse, Stages
  <1> QED BY <1>1, <1>3, <1>4, <1>5, <1>6

LEMMA PopPromiseStoreInv ==
  ASSUME IInv, NEW t \in Thread, PopPromiseStore(t)
  PROVE  IInv'
  <1> USE DEF IInv, Goto, guardVars, holdVars, promiseVars, Copying, Replacing, PromisePC
  <1>0. /\ \A u \in Thread : pc[u] \in Replacing => u = t
        /\ \A u \in Thread : pc[u] \notin Copying
        /\ replaceFut_ = -1
    BY GuardFacts DEF PopPromiseStore
  <1>1. TypeOK'
    BY DEF TypeOK, PopPromiseStore
  <1>2. Copiers' = {} /\ Replacers' = {t}
    BY <1>0 DEF TypeOK, Copiers, Replacers, PopPromiseStore
  <1>3. Guarded'
    BY <1>2, <1>0 DEF Guarded, PopPromiseStore
  <1>4. CopiesCurrent'
    BY <1>2 DEF CopiesCurrent, Copiers
  <1>5. Stages'
    <2>1. \A u \in Thread : pc'[u] \in Replacing => u = t
      BY <1>2 DEF Replacers
    <2> QED BY <1>2, <2>1 DEF TypeOK, Stages, Settled, PopPromiseStore
  <1>6. NoOrphan'
    BY DEF TypeOK, NoOrphan, PopPromiseStore
  <1> QED BY <1>1, <1>3, <1>4, <1>5, <1>6

LEMMA PopPromiseDeleteInv ==
  ASSUME IInv, NEW t \in Thread, PopPromiseDelete(t)
  PROVE  IInv'
  <1> USE DEF IInv, Goto, guardVars, holdVars, promiseVars, Copying, Replacing, PromisePC
  <1>0. /\ \A u \in Thread : pc[u] \in Replacing => u = t
        /\ \A u \in Thread : pc[u] \notin Copying
        /\ replaceFut_ = -1
    BY GuardFacts DEF PopPromiseDelete
  <1>1. TypeOK'
    BY DEF TypeOK, PopPromiseDelete
  <1>2. Copiers' = {} /\ Replacers' = {t}
    BY <1>0 DEF TypeOK, Copiers, Replacers, PopPromiseDelete
  <1>3. Guarded'
    BY <1>2, <1>0 DEF Guarded, PopPromiseDelete
  <1>4. CopiesCurrent'
    BY <1>2 DEF CopiesCurrent, Copiers
  <1>5. Stages'
    <2>1. \A u \in Thread : pc'[u] \in Replacing => u = t
      BY <1>2 DEF Replacers
    <2> QED BY <1>2, <2>1 DEF TypeOK, Stages, Settled, PopPromiseDelete
  <1>6. NoOrphan'
    BY DEF TypeOK, NoOrphan, PopPromiseDelete
  <1> QED BY <1>1, <1>3, <1>4, <1>5, <1>6

LEMMA PopPromiseExitInv ==
  ASSUME IInv, NEW t \in Thread, PopPromiseExit(t, "idle")
  PROVE  IInv'
  <1> USE DEF IInv, Goto, guardVars, holdVars, promiseVars, Copying, Replacing, PromisePC
  <1>0. /\ \A u \in Thread : pc[u] \in Replacing => u = t
        /\ \A u \in Thread : pc[u] \notin Copying
        /\ replaceFut_ = -1
    BY GuardFacts DEF PopPromiseExit
  <1>1. TypeOK'
    BY DEF TypeOK, PopPromiseExit
  <1>2. Copiers' = {} /\ Replacers' = {}
    BY <1>0 DEF TypeOK, Copiers, Replacers, PopPromiseExit
  <1>3. Guarded'
    BY <1>2, FS_EmptySet DEF Guarded, PopPromiseExit
  <1>4. CopiesCurrent'
    BY <1>2 DEF CopiesCurrent, Copiers
  <1>5. Stages'
    <2>1. \A u \in Thread : pc'[u] \in Replacing => FALSE
      BY <1>2 DEF Replacers
    <2> QED BY <1>2, <2>1 DEF TypeOK, Stages, Settled, PopPromiseExit
  <1>6. NoOrphan'
    BY DEF TypeOK, NoOrphan, PopPromiseExit
  <1> QED BY <1>1, <1>3, <1>4, <1>5, <1>6

LEMMA InitInv == Init => IInv
  <1> SUFFICES ASSUME Init PROVE IInv
    OBVIOUS
  <1> USE DEF Init, PromiseInit, Copying, Replacing
  <1>1. TypeOK
    BY DEF TypeOK, PromisePC
  <1>2. Copiers = {} /\ Replacers = {}
    BY DEF Copiers, Replacers
  <1>3. Guarded
    BY <1>2, FS_EmptySet DEF Guarded
  <1>4. CopiesCurrent /\ NoOrphan
    BY DEF CopiesCurrent, NoOrphan
  <1>5. Stages
    BY <1>2 DEF Stages, Settled
  <1> QED BY <1>1, <1>3, <1>4, <1>5 DEF IInv

LEMMA NextInv == IInv /\ [Next]_vars => IInv'
  <1> SUFFICES ASSUME IInv, [Next]_vars PROVE IInv'
    OBVIOUS
  <1>1. CASE Next
    BY <1>1, CallGetFutureInv, CallPopPromiseInv, DropFutureInv, GetEnterInv, GetLoadInv,
       GetCopyInv, GetReleaseInv, PopPromiseEnterInv, PopPromiseBusyInv, PopPromiseSetInv,
       PopPromiseNewInv, PopPromiseStoreInv, PopPromiseDeleteInv, PopPromiseExitInv
       DEF Next, GetStep, PopPromiseStep
  <1>2. CASE UNCHANGED vars
    <2> USE <1>2 DEF vars, IInv
    <2>1. TypeOK' /\ CopiesCurrent' /\ NoOrphan'
      BY DEF TypeOK, CopiesCurrent, NoOrphan
    <2>2. Copiers' = Copiers /\ Replacers' = Replacers
      BY DEF Copiers, Replacers
    <2>3. Guarded' /\ Stages'
      BY <2>2 DEF Guarded, Stages, Settled
    <2> QED BY <2>1, <2>3
  <1> QED BY <1>1, <1>2

(* The inductive invariant holds in every reachable state. *)
THEOREM Invariance == Spec => []IInv
  BY InitInv, NextInv, PTL DEF Spec

(* The pair that pop_promise has put in place is in nobody's hands until   *)
(* it lets copiers in again.                                               *)
Fresh ==
  \A t, u \in Thread : pc[t] \in {"newFuture", "delete", "unlock"} => fut[u] # promPtr_

LEMMA NextFresh == IInv /\ Fresh /\ [Next]_vars => Fresh'
  <1> SUFFICES ASSUME IInv, Fresh, [Next]_vars,
                      NEW v \in Thread, NEW u \in Thread, pc'[v] \in {"newFuture", "delete", "unlock"}
               PROVE  fut'[u] # promPtr_'
    BY DEF Fresh
  <1> USE PromiseAssumption DEF Goto, guardVars, holdVars, promiseVars
  <1>1. ASSUME NEW t \in Thread,
               CallGetFuture(t) \/ CallPopPromise(t) \/ DropFuture(t)
        PROVE  fut'[u] # promPtr_'
    BY <1>1 DEF IInv, TypeOK, Fresh, CallGetFuture, CallPopPromise, DropFuture
  <1>2. ASSUME NEW t \in Thread, GetEnter(t) \/ GetLoad(t) \/ GetRelease(t, "idle")
        PROVE  fut'[u] # promPtr_'
    BY <1>2 DEF IInv, TypeOK, Fresh, GetEnter, GetLoad, GetRelease
  <1>3. ASSUME NEW t \in Thread, GetCopy(t) PROVE fut'[u] # promPtr_'
    <2>1. pc[v] \in Replacing BY <1>3 DEF IInv, TypeOK, GetCopy, Replacing
    <2> QED BY <1>3, <2>1, GuardFacts DEF IInv, GetCopy, Copying
  <1>4. ASSUME NEW t \in Thread, PopPromiseEnter(t) \/ PopPromiseBusy(t, "idle") \/ PopPromiseSet(t)
        PROVE  fut'[u] # promPtr_'
    BY <1>4 DEF IInv, TypeOK, Fresh, PopPromiseEnter, PopPromiseBusy, PopPromiseSet
  <1>5. ASSUME NEW t \in Thread, NEW p \in Pair, PopPromiseNew(t, p) PROVE fut'[u] # promPtr_'
    BY <1>5 DEF PopPromiseNew, InUse
  <1>6. ASSUME NEW t \in Thread, PopPromiseStore(t) \/ PopPromiseDelete(t) \/ PopPromiseExit(t, "idle")
        PROVE  fut'[u] # promPtr_'
    BY <1>6 DEF IInv, TypeOK, Fresh, PopPromiseStore, PopPromiseDelete, PopPromiseExit
  <1>7. CASE UNCHANGED vars BY <1>7 DEF Fresh, vars
  <1> QED BY <1>1, <1>2, <1>3, <1>4, <1>5, <1>6, <1>7 DEF Next, GetStep, PopPromiseStep

(* A pop_promise that finds another one at work can leave the waking to it: *)
(* the copies that are not satisfied yet are of the pair it will satisfy.  *)
LEMMA BusyWakes ==
  ASSUME IInv, Fresh, replaceFut_ = -1, NEW u \in Thread, fut[u] # None, fut[u] \notin ready
  PROVE  \E v \in Thread : pc[v] = "setValue"
  <1>1. Replacers # {} BY CopiersFinite DEF IInv, Guarded
  <1>2. PICK v \in Thread : pc[v] \in Replacing BY <1>1 DEF Replacers
  <1>3. fut[u] = promPtr_ BY DEF IInv, NoOrphan
  <1>4. pc[v] \notin {"newFuture", "delete", "unlock"} BY <1>3 DEF Fresh
  <1>5. pc[v] # "newPromise" BY <1>3 DEF IInv, Stages
  <1> QED BY <1>2, <1>4, <1>5 DEF Replacing

(* replaceFut_ is a readers-writer lock on the pair, for any number of     *)
(* threads in get_future and pop_promise.                                  *)
THEOREM GuardHolds == Spec => []Guarded
  BY Invariance, PTL DEF IInv

(* get_future copies, and pop_promise satisfies and deletes, only objects  *)
(* that are allocated.                                                     *)
THEOREM NoUseAfterDelete == Spec => []ObjectsAlive
  <1>1. IInv => ObjectsAlive
    <2> SUFFICES ASSUME IInv, NEW t \in Thread
                 PROVE  /\ pc[t] = "copy" => futptr[t] \in futures
                        /\ pc[t] = "setValue" => promPtr_ \in promises
                        /\ pc[t] = "delete" => futval[t] \in futures /\ oldprom[t] \in promises
      BY DEF ObjectsAlive
    <2>1. pc[t] = "copy" => Settled
      BY GuardFacts DEF IInv, Stages, Copying
    <2> QED BY <2>1 DEF IInv, Stages, Settled, CopiesCurrent
  <1> QED BY <1>1, Invariance, PTL

(* pop_promise never satisfies a promise twice. *)
THEOREM NeverSetTwice == Spec => []SetOnce
  <1>1. IInv => SetOnce
    BY DEF IInv, SetOnce, Stages, Settled
  <1> QED BY <1>1, Invariance, PTL

(* Every copy handed out is satisfied by now or will be by the next        *)
(* pop_promise.                                                            *)
THEOREM NeverOrphaned == Spec => []NoOrphan
  BY Invariance, PTL DEF IInv

(* Outside pop_promise there is one promise and one future, of one pair.   *)
THEOREM OnePairHolds == Spec => []OnePair
  <1>1. IInv => OnePair
    BY DEF IInv, OnePair, Stages, Settled
  <1> QED BY <1>1, Invariance, PTL
=============================================================================
