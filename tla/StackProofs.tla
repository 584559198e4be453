----------------------------- MODULE StackProofs ----------------------------
(* Proofs about Stack for any set of threads and any set of addresses. *)
EXTENDS Stack, TLAPS

(* A leaf that names no prover is for Zenon, and for SMT if Zenon fails. *)
USE ZenonT(10), SMTT(60)

(* What Append and Tail do, index by index. *)
LEMMA AppendFacts ==
  ASSUME NEW S, NEW s \in Seq(S), NEW e \in S
  PROVE  /\ Append(s, e) \in Seq(S)
         /\ Append(s, e) # << >>
         /\ Len(Append(s, e)) = Len(s) + 1
         /\ \A i \in 1 .. Len(s) : Append(s, e)[i] = s[i]
         /\ Append(s, e)[Len(s) + 1] = e
         /\ Head(Append(s, e)) = IF s = << >> THEN e ELSE Head(s)
         /\ Elements(Append(s, e)) = Elements(s) \cup {e}
  <1>1. /\ Append(s, e) \in Seq(S)
        /\ Append(s, e) # << >>
        /\ Len(Append(s, e)) = Len(s) + 1
        /\ \A i \in 1 .. Len(s) : Append(s, e)[i] = s[i]
        /\ Append(s, e)[Len(s) + 1] = e
    BY SMTT(60)
  <1>2. Len(s) \in Nat /\ (s = << >> <=> Len(s) = 0)
    BY SMTT(60)
  <1>3. Head(Append(s, e)) = IF s = << >> THEN e ELSE Head(s)
    BY <1>1, <1>2, SMTT(60)
  <1>4. Elements(Append(s, e)) = Elements(s) \cup {e}
    BY <1>1, <1>2, SMTT(60) DEF Elements
  <1> QED BY <1>1, <1>3, <1>4

LEMMA TailFacts ==
  ASSUME NEW S, NEW s \in Seq(S), s # << >>
  PROVE  /\ Tail(s) \in Seq(S)
         /\ Len(s) \in Nat \ {0}
         /\ Len(Tail(s)) = Len(s) - 1
         /\ \A i \in 1 .. Len(s) - 1 : Tail(s)[i] = s[i + 1]
         /\ Head(s) = s[1]
         /\ Head(s) \in S
         /\ Tail(s) = << >> <=> Len(s) = 1
         /\ Elements(s) = Elements(Tail(s)) \cup {Head(s)}
  <1>1. /\ Tail(s) \in Seq(S)
        /\ Len(s) \in Nat \ {0}
        /\ Len(Tail(s)) = Len(s) - 1
        /\ \A i \in 1 .. Len(s) - 1 : Tail(s)[i] = s[i + 1]
        /\ Head(s) = s[1]
        /\ Head(s) \in S
    BY SMTT(60)
  <1>2. Tail(s) = << >> <=> Len(s) = 1
    <2>1. Tail(s) # << >> => Len(Tail(s)) \in Nat \ {0}
      BY <1>1, SMTT(60)
    <2>2. Len(<< >>) = 0
      OBVIOUS
    <2>3. Len(Tail(s)) = 0 <=> Len(s) = 1
      BY <1>1, SMTT(60)
    <2> QED BY <2>1, <2>2, <2>3, ZenonT(60)
  <1>3. Elements(s) = Elements(Tail(s)) \cup {Head(s)}
    <2>1. ASSUME NEW i \in 1 .. Len(s), i # 1
          PROVE  s[i] \in Elements(Tail(s))
      <3>1. i - 1 \in 1 .. Len(s) - 1 /\ Tail(s)[i - 1] = s[i]
        BY <1>1, <2>1, SMTT(60)
      <3> QED BY <3>1, <1>1 DEF Elements
    <2>2. ASSUME NEW i \in 1 .. Len(Tail(s))
          PROVE  Tail(s)[i] \in Elements(s)
      BY <1>1, SMTT(60) DEF Elements
    <2>3. Head(s) \in Elements(s)
      BY <1>1, SMTT(60) DEF Elements
    <2> QED BY <2>1, <2>2, <2>3, <1>1 DEF Elements
  <1> QED BY <1>1, <1>2, <1>3

LEMMA EmptyFacts ==
  ASSUME NEW S, NEW s \in Seq(S)
  PROVE  /\ Len(s) \in Nat
         /\ s = << >> <=> Len(s) = 0
         /\ s = << >> => Elements(s) = {}
         /\ \A i \in 1 .. Len(s) : s[i] \in S /\ s[i] \in Elements(s)
  BY SMTT(60) DEF Elements

IInv == TypeOK /\ ExclusiveEnds /\ Ownership /\ Shape

(* The entries a thread owns and the entries of the list are all different *)
(* and all allocated.                                                      *)
LEMMA OwnershipFacts ==
  ASSUME TypeOK, Ownership
  PROVE  /\ \A i \in 1 .. Len(queue) :
              queue[i] \in heap /\ queue[i] \in Entry /\ queue[i] \in InQueue
         /\ \A t \in Thread : Unlinked(t) =>
              newentry[t] \in heap /\ newentry[t] \in Entry /\ newentry[t] \notin InQueue
         /\ \A t \in Thread : Popping(t) =>
              valptr[t] \in heap /\ valptr[t] \in Entry /\ valptr[t] \notin InQueue
         /\ \A t, u \in Thread : Unlinked(t) /\ Popping(u) => newentry[t] # valptr[u]
         /\ \A t, u \in Thread :
              Unlinked(t) /\ Unlinked(u) /\ newentry[t] = newentry[u] => t = u
         /\ \A t, u \in Thread :
              Popping(t) /\ Popping(u) /\ valptr[t] = valptr[u] => t = u
  <1>1. \A i \in 1 .. Len(queue) : queue[i] \in Entry /\ queue[i] \in InQueue
    BY EmptyFacts DEF TypeOK, InQueue
  <1>2. \A t \in Thread : Unlinked(t) => Owns(t, newentry[t])
    BY DEF Owns
  <1>3. \A t \in Thread : Popping(t) => Owns(t, valptr[t])
    BY DEF Owns
  <1>4. \A t \in Thread : ~ (Unlinked(t) /\ Popping(t))
    BY DEF Unlinked, Popping, PopPC
  <1> QED BY <1>1, <1>2, <1>3, <1>4, SMTT(60) DEF TypeOK, Ownership

(* Linking the entry a thread owns puts it in the list and in nobody's hands. *)
LEMMA LinkOwnership ==
  ASSUME TypeOK, Ownership, NEW t \in Thread, Unlinked(t), ~ Unlinked(t)', ~ Popping(t)',
         queue' = Append(queue, newentry[t]), heap' = heap,
         \A u \in Thread : u # t => (pc[u])' = pc[u],
         UNCHANGED localVars
  PROVE  Ownership'
  <1> DEFINE e == newentry[t]
  <1>1. /\ e \in Entry /\ e \in heap /\ e \notin InQueue
        /\ Len(queue) \in Nat
        /\ InQueue' = InQueue \cup {e}
        /\ Len(queue') = Len(queue) + 1
        /\ \A i \in 1 .. Len(queue) : queue'[i] = queue[i] /\ queue'[i] # e
        /\ queue'[Len(queue) + 1] = e
    BY OwnershipFacts, AppendFacts, EmptyFacts, SMTT(60) DEF InQueue, TypeOK
  <1>2. ~ Popping(t)
    BY DEF Unlinked, Popping, PopPC
  <1>3. \A u \in Thread, x \in Entry \cup {Null} :
          Owns(u, x)' <=> u # t /\ Owns(u, x)
    BY DEF Owns, Unlinked, Popping, localVars, TypeOK
  <1>4. \A x \in Entry \cup {Null} : Owns(t, x) <=> x = e
    BY <1>2 DEF Owns
  <1>5. \A x \in Entry \cup {Null} :
          x \in heap' <=> x \in InQueue' \/ \E u \in Thread : Owns(u, x)'
    BY <1>1, <1>3, <1>4, SMTT(60) DEF Ownership
  <1>6. \A u \in Thread, x \in Entry : Owns(u, x)' => x \notin InQueue'
    BY <1>1, <1>3, <1>4 DEF Ownership
  <1>7. \A i, j \in 1 .. Len(queue') : queue'[i] = queue'[j] => i = j
    BY <1>1, SMTT(60) DEF Ownership
  <1> QED BY <1>3, <1>5, <1>6, <1>7 DEF Ownership

(* Steps that move no entry leave the ownership as it is. *)
LEMMA OwnershipFrame ==
  ASSUME Ownership, heap' = heap, queue' = queue,
         \A u \in Thread, x \in Entry \cup {Null} : Owns(u, x)' <=> Owns(u, x)
  PROVE  Ownership'
  BY DEF Ownership, InQueue

(* A step that only moves a thread t from one place to another keeps the   *)
(* shape of the list, if what the new place relies on holds.               *)
LEMMA ShapeFrame ==
  ASSUME Shape, NEW t \in Thread,
         UNCHANGED <<top_, bottom_, next_, queue, newentry, topentry, valptr>>,
         \A u \in Thread : /\ Unlinked(u)' <=> Unlinked(u)
                           /\ HoldsBottom(u)' <=> HoldsBottom(u)
                           /\ Linked(u)' <=> Linked(u)
                           /\ u # t => (pc[u])' = pc[u],
         (pc[t])' \notin {"link", "linkBottom", "clearTop"},
         (pc[t])' \in {"countDown", "setBottom"} => queue # << >>,
         (pc[t])' \in {"countDownLast", "clearBottom"} => queue = << >>
  PROVE  Shape'
  <1>1. \A e : EndsList(e)' <=> EndsList(e)
    BY DEF EndsList
  <1>2. Links'
    BY DEF Shape, Links
  <1>3. Ends'
    BY <1>1 DEF Shape, Ends
  <1>4. InFlight'
    BY <1>1 DEF Shape, InFlight
  <1> QED BY <1>2, <1>3, <1>4 DEF Shape

LEMMA PushNewInv ==
  ASSUME IInv, NEW t \in Thread, NEW f \in Entry, PushNew(t, f)
  PROVE  IInv'
  <1> USE PointerAssumption DEF IInv, Goto, localVars, listVars, PushPC, PopPC, PushNew
  <1>1. TypeOK'
    BY DEF TypeOK, PC, Pointer
  <1>2. ExclusiveEnds'
    BY SMTT(30) DEF TypeOK, ExclusiveEnds, HoldsTop, HoldsBottom
  <1>3. Ownership'
    <2>1. f \notin InQueue /\ \A u \in Thread : ~ Owns(u, f)
      BY DEF Ownership, TypeOK
    <2>2. \A x \in Entry \cup {Null} : ~ Owns(t, x) /\ (Owns(t, x)' <=> x = f)
      BY DEF Owns, Unlinked, Popping, TypeOK
    <2>3. \A u \in Thread, x \in Entry \cup {Null} : u # t => (Owns(u, x)' <=> Owns(u, x))
      BY SMTT(30) DEF Owns, Unlinked, Popping, TypeOK
    <2>4. InQueue' = InQueue
      BY DEF InQueue
    <2> QED BY <2>1, <2>2, <2>3, <2>4, SMTT(60) DEF Ownership
  <1>4. Shape'
    <2>1. \A u \in Thread : /\ Unlinked(u)' <=> Unlinked(u) \/ u = t
                            /\ HoldsBottom(u)' <=> HoldsBottom(u)
                            /\ Linked(u)' <=> Linked(u)
                            /\ u # t => pc'[u] = pc[u]
      BY DEF TypeOK, Unlinked, Linked, HoldsBottom
    <2>a. /\ \A i \in 1 .. Len(queue) : queue[i] # f
          /\ \A u \in Thread : Unlinked(u) => newentry[u] # f
          /\ \A u \in Thread : HoldsBottom(u) => valptr[u] # f
      BY OwnershipFacts DEF HoldsBottom, Popping
    <2>b. /\ \A i \in 1 .. Len(queue) : queue[i] \in Entry
          /\ \A u \in Thread : Unlinked(u) => newentry[u] \in Entry /\ u # t
          /\ \A u \in Thread : HoldsBottom(u) => valptr[u] \in Entry
      BY OwnershipFacts DEF HoldsBottom, Popping, Unlinked
    <2>2. \A e : EndsList(e)' <=> EndsList(e)
      BY <2>1 DEF EndsList
    <2>3. Links'
      <3>1. next_ \in [Entry -> Pointer] /\ newentry \in [Thread -> Entry \cup {Null}]
        BY DEF TypeOK
      <3> QED BY <2>1, <2>a, <2>b, <3>1 DEF Shape, Links
    <2>4. Ends'
      BY <2>2 DEF Shape, Ends
    <2>5. InFlight'
      <3>1. pc'[t] = "claim" /\ pc[t] = "idle" /\ ~ Linked(t)
        BY DEF TypeOK, Linked
      <3>2. \A u \in Thread : u # t => newentry'[u] = newentry[u]
        BY DEF TypeOK
      <3> QED BY <2>1, <2>2, <3>1, <3>2 DEF Shape, InFlight
    <2> QED BY <2>3, <2>4, <2>5 DEF Shape
  <1> QED BY <1>1, <1>2, <1>3, <1>4

LEMMA PushClaimInv ==
  ASSUME IInv, NEW t \in Thread, PushClaim(t)
  PROVE  IInv'
  <1> USE PointerAssumption DEF IInv, Goto, localVars, listVars, PushPC, PopPC, PushClaim
  <1>1. TypeOK'
    BY DEF TypeOK, PC, Pointer
  <1>2. ExclusiveEnds'
    BY SMTT(30) DEF TypeOK, ExclusiveEnds, HoldsTop, HoldsBottom
  <1>3. Ownership'
    <2>1. \A u \in Thread, x \in Entry \cup {Null} : Owns(u, x)' <=> Owns(u, x)
      BY SMTT(30) DEF TypeOK, Owns, Unlinked, Popping
    <2> QED BY <2>1, OwnershipFrame
  <1>4. Shape'
    <2>1. \A u \in Thread : /\ Unlinked(u)' <=> Unlinked(u)
                            /\ HoldsBottom(u)' <=> HoldsBottom(u)
                            /\ Linked(u)' <=> Linked(u)
                            /\ u # t => pc'[u] = pc[u]
      BY DEF TypeOK, Unlinked, Linked, HoldsBottom
    <2>2. \A e : EndsList(e)' <=> EndsList(e)
      BY <2>1 DEF EndsList
    <2>3. Links'
      BY <2>1 DEF Shape, Links
    <2>4. Ends'
      BY DEF Shape, Ends
    <2>5. InFlight'
      <3>1. /\ pc'[t] = "link" /\ topentry'[t] = top_
            /\ \A u \in Thread : u # t => topentry'[u] = topentry[u]
        BY DEF TypeOK
      <3>2. (top_ = Null => bottom_ = Null) /\ (top_ # Null => EndsList(top_))
        BY DEF TypeOK, Pointer, Shape, Ends
      <3> QED BY <2>1, <2>2, <3>1, <3>2 DEF Shape, InFlight
    <2> QED BY <2>3, <2>4, <2>5 DEF Shape
  <1> QED BY <1>1, <1>2, <1>3, <1>4

LEMMA PushLinkInv ==
  ASSUME IInv, NEW t \in Thread, PushLink(t)
  PROVE  IInv'
  <1> USE PointerAssumption DEF IInv, Goto, localVars, listVars, PushPC, PopPC, PushLink
  <1>0. /\ newentry[t] \in Entry /\ newentry[t] \notin InQueue
        /\ newentry[t] \in heap
        /\ Append(queue, newentry[t]) \in Seq(Entry)
    BY OwnershipFacts, AppendFacts DEF Unlinked, TypeOK
  <1>1. TypeOK'
    BY SMTT(30), <1>0 DEF TypeOK, PC, Pointer
  <1>2. ExclusiveEnds'
    BY SMTT(30), <1>0 DEF TypeOK, ExclusiveEnds, HoldsTop, HoldsBottom
  <1>3. Ownership'
    <2>1. CASE topentry[t] # Null
      BY <2>1, LinkOwnership DEF TypeOK, Unlinked, Popping
    <2>2. CASE topentry[t] = Null
      BY <2>2, SMTT(60) DEF TypeOK, Ownership, Owns, Unlinked, Popping, InQueue
    <2> QED BY <2>1, <2>2
  <1>4. Shape'
    <2>1. CASE topentry[t] = Null
      BY <2>1, SMTT(60) DEF TypeOK, Shape, Links, Ends, InFlight, EndsList, Unlinked, Linked, HoldsBottom
    <2>2. CASE topentry[t] # Null
      <3> DEFINE p == topentry[t]
                 e == newentry[t]
      <3>1. p \in Entry /\ EndsList(p)
        BY <2>2 DEF TypeOK, Shape, InFlight
      <3>2. /\ queue' = Append(queue, e) /\ queue' # << >>
            /\ Len(queue) \in Nat /\ Len(queue') = Len(queue) + 1
            /\ \A i \in 1 .. Len(queue) : queue'[i] = queue[i]
            /\ queue'[Len(queue')] = e
            /\ Head(queue') = IF queue = << >> THEN e ELSE Head(queue)
        <4>1. queue \in Seq(Entry) /\ e \in Entry /\ queue' = Append(queue, e)
          BY <1>0, <2>2 DEF TypeOK
        <4> HIDE DEF e
        <4> QED BY <4>1, AppendFacts, EmptyFacts, SMTT(60)
      <3>3. /\ bottom_ # Null
            /\ \/ queue # << >> /\ p = queue[Len(queue)] /\ p \in InQueue
               \/ /\ queue = << >>
                  /\ \E u \in Thread : HoldsBottom(u) /\ valptr[u] = p
        <4>1. CASE queue # << >>
          BY <3>1, <4>1, OwnershipFacts, EmptyFacts, SMTT(60) DEF EndsList, Shape, Ends, TypeOK
        <4>2. CASE queue = << >>
          BY <3>1, <4>2 DEF EndsList, ExclusiveEnds
        <4> QED BY <4>1, <4>2
      <3>a. /\ next_' = [next_ EXCEPT ![p] = e]
            /\ \A u \in Thread : Unlinked(u) => newentry[u] # p
            /\ Unlinked(t)
        BY <2>2, <3>1, <3>3, OwnershipFacts DEF HoldsBottom, Unlinked, Popping
      <3>4. EndsList(e)'
        BY <3>2 DEF EndsList
      <3>5. Links'
        <4>1. ASSUME NEW i \in 1 .. Len(queue')
              PROVE  next_'[queue'[i]] = IF i < Len(queue') THEN queue'[i + 1] ELSE MaxPtr
          <5>1. CASE i < Len(queue)
            <6>1. queue[i] # p /\ queue[i] \in Entry
              BY <3>2, <3>3, <5>1, OwnershipFacts, SMTT(60) DEF Ownership
            <6> QED BY <3>2, <3>a, <5>1, <6>1, SMTT(60) DEF Shape, Links, TypeOK
          <5>2. CASE i = Len(queue)
            BY <3>1, <3>2, <3>3, <3>a, <5>2, EmptyFacts, SMTT(60) DEF TypeOK
          <5>3. CASE i = Len(queue) + 1
            BY <1>0, <3>2, <3>a, <5>3, SMTT(60) DEF Shape, Links, TypeOK
          <5> QED BY <3>2, <5>1, <5>2, <5>3, SMTT(60)
        <4>2. ASSUME NEW u \in Thread, Unlinked(u)'
              PROVE  next_'[newentry'[u]] = MaxPtr
          BY <3>a, <4>2, OwnershipFacts DEF Shape, Links, TypeOK, Unlinked
        <4>3. ASSUME NEW u \in Thread, HoldsBottom(u)'
              PROVE  next_'[valptr'[u]] = Head(queue')
          <5>1. HoldsBottom(u) /\ valptr[u] \in Entry /\ valptr[u] \notin InQueue
            BY <4>3, OwnershipFacts DEF HoldsBottom, Popping, TypeOK
          <5> QED BY <3>1, <3>2, <3>3, <3>a, <5>1 DEF Shape, Links, TypeOK, ExclusiveEnds
        <4> QED BY <3>2, <4>1, <4>2, <4>3 DEF Links
      <3>6. Ends'
        BY <3>2, <3>3 DEF Shape, Ends, TypeOK, ExclusiveEnds, HoldsTop
      <3>7. InFlight'
        BY <3>2, <3>3, <3>4, SMTT(60) DEF Shape, InFlight, TypeOK, Linked, ExclusiveEnds, HoldsTop, HoldsBottom
      <3> QED BY <3>5, <3>6, <3>7 DEF Shape
    <2> QED BY <2>1, <2>2
  <1> QED BY <1>1, <1>2, <1>3, <1>4

LEMMA PushLinkBottomInv ==
  ASSUME IInv, NEW t \in Thread, PushLinkBottom(t)
  PROVE  IInv'
  <1> USE PointerAssumption DEF IInv, Goto, localVars, listVars, PushPC, PopPC, PushLinkBottom
  <1>1. TypeOK'
    <2>1. bottom_ = Null => topentry[t] = Null
      BY EmptyFacts DEF Shape, Links, Ends, InFlight, Linked, EndsList, ExclusiveEnds, TypeOK
    <2>2. bottom_ = Null => newentry[t] \in Entry /\ Append(queue, newentry[t]) \in Seq(Entry)
      BY <2>1, OwnershipFacts, AppendFacts DEF Unlinked, TypeOK
    <2> QED BY <2>2 DEF TypeOK, PC, Pointer
  <1>2. ExclusiveEnds'
    BY SMTT(30) DEF TypeOK, ExclusiveEnds, HoldsTop, HoldsBottom
  <1>3. Ownership'
    <2>1. CASE bottom_ = Null
      <3>1. topentry[t] = Null
        BY <2>1, EmptyFacts DEF Shape, Links, Ends, InFlight, Linked, EndsList, ExclusiveEnds, TypeOK
      <3> QED BY SMTT(30), <2>1, <3>1, LinkOwnership DEF TypeOK, Unlinked, Popping
    <2>2. CASE bottom_ # Null
      <3>1. topentry[t] # Null
        BY <2>2 DEF Shape, InFlight
      <3> QED BY SMTT(30), <2>2, <3>1 DEF TypeOK, Ownership, Owns, Unlinked, Popping, InQueue
    <2> QED BY <2>1, <2>2
  <1>4. Shape'
    BY SMTT(30), OwnershipFacts DEF TypeOK, Shape, Links, Ends, InFlight, EndsList, Unlinked, Linked, Popping, HoldsBottom, ExclusiveEnds, HoldsTop, Pointer
  <1> QED BY <1>1, <1>2, <1>3, <1>4

LEMMA PushCountInv ==
  ASSUME IInv, NEW t \in Thread, PushCount(t)
  PROVE  IInv'
  <1> USE PointerAssumption DEF IInv, Goto, localVars, listVars, PushPC, PopPC, PushCount
  <1>1. TypeOK'
    BY SMTT(60) DEF TypeOK, PC, Pointer
  <1>2. ExclusiveEnds'
    BY SMTT(30) DEF TypeOK, ExclusiveEnds, HoldsTop, HoldsBottom
  <1>3. Ownership'
    <2>1. \A u \in Thread, x \in Entry \cup {Null} : Owns(u, x)' <=> Owns(u, x)
      BY SMTT(30) DEF TypeOK, Owns, Unlinked, Popping
    <2> QED BY <2>1, OwnershipFrame
  <1>4. Shape'
    <2>1. \A u \in Thread : /\ Unlinked(u)' <=> Unlinked(u)
                            /\ HoldsBottom(u)' <=> HoldsBottom(u)
                            /\ Linked(u)' <=> Linked(u)
                            /\ u # t => pc'[u] = pc[u]
      BY DEF TypeOK, Unlinked, Linked, HoldsBottom
    <2> QED BY <2>1, ShapeFrame DEF TypeOK
  <1> QED BY <1>1, <1>2, <1>3, <1>4

LEMMA PushTopInv ==
  ASSUME IInv, NEW t \in Thread, PushTop(t)
  PROVE  IInv'
  <1> USE PointerAssumption DEF IInv, Goto, localVars, listVars, PushPC, PopPC, PushTop
  <1>1. TypeOK'
    BY DEF TypeOK, PC, Pointer
  <1>2. ExclusiveEnds'
    BY SMTT(30) DEF TypeOK, ExclusiveEnds, HoldsTop, HoldsBottom
  <1>3. Ownership'
    <2>1. \A u \in Thread, x \in Entry \cup {Null} : Owns(u, x)' <=> Owns(u, x)
      BY SMTT(30) DEF TypeOK, Owns, Unlinked, Popping
    <2> QED BY <2>1, OwnershipFrame
  <1>4. Shape'
    <2>1. \A u \in Thread : /\ Unlinked(u)' <=> Unlinked(u)
                            /\ HoldsBottom(u)' <=> HoldsBottom(u)
                            /\ Linked(u)' <=> Linked(u) /\ u # t
                            /\ u # t => pc'[u] = pc[u]
      BY DEF TypeOK, Unlinked, Linked, HoldsBottom
    <2>a. \A u \in Thread : u # t => newentry'[u] = newentry[u] /\ topentry'[u] = topentry[u]
      BY DEF TypeOK
    <2>b. ~ Unlinked(t) /\ Linked(t) /\ pc'[t] = "idle"
      BY DEF TypeOK, Unlinked, Linked
    <2>2. \A e : EndsList(e)' <=> EndsList(e)
      BY <2>1 DEF EndsList
    <2>3. Links'
      BY <2>1, <2>a, <2>b DEF Shape, Links
    <2>4. Ends'
      <3>1. EndsList(newentry[t]) /\ newentry[t] \in Entry \cup {Null}
        BY <2>b DEF TypeOK, Shape, InFlight
      <3>2. newentry[t] # Null
        BY <3>1, OwnershipFacts, SMTT(60) DEF EndsList, TypeOK, Popping, HoldsBottom
      <3> QED BY <2>2, <3>1, <3>2 DEF Shape, Ends
    <2>5. InFlight'
      BY <2>1, <2>2, <2>a, <2>b DEF Shape, InFlight
    <2> QED BY <2>3, <2>4, <2>5 DEF Shape
  <1> QED BY <1>1, <1>2, <1>3, <1>4

LEMMA PopEmptyInv ==
  ASSUME IInv, NEW t \in Thread, PopEmpty(t)
  PROVE  IInv'
  <1> USE PointerAssumption DEF IInv, Goto, localVars, listVars, PushPC, PopPC, PopEmpty
  <1>1. TypeOK'
    BY DEF TypeOK, PC, Pointer
  <1>2. ExclusiveEnds'
    BY SMTT(30) DEF TypeOK, ExclusiveEnds, HoldsTop, HoldsBottom
  <1>3. Ownership'
    <2>1. \A u \in Thread, x \in Entry \cup {Null} : Owns(u, x)' <=> Owns(u, x)
      BY SMTT(30) DEF TypeOK, Owns, Unlinked, Popping
    <2> QED BY <2>1, OwnershipFrame
  <1>4. Shape'
    <2>1. \A u \in Thread : /\ Unlinked(u)' <=> Unlinked(u)
                            /\ HoldsBottom(u)' <=> HoldsBottom(u)
                            /\ Linked(u)' <=> Linked(u)
                            /\ u # t => pc'[u] = pc[u]
      BY DEF TypeOK, Unlinked, Linked, HoldsBottom
    <2> QED BY <2>1, ShapeFrame DEF TypeOK
  <1> QED BY <1>1, <1>2, <1>3, <1>4

LEMMA PopCatchInv ==
  ASSUME IInv, NEW t \in Thread, PopCatch(t)
  PROVE  IInv'
  <1> USE PointerAssumption DEF IInv, Goto, localVars, listVars, PushPC, PopPC, PopCatch
  <1>1. TypeOK'
    BY DEF TypeOK, PC, Pointer
  <1>2. ExclusiveEnds'
    BY SMTT(30) DEF TypeOK, ExclusiveEnds, HoldsTop, HoldsBottom
  <1>3. Ownership'
    <2>1. \A u \in Thread, x \in Entry \cup {Null} : Owns(u, x)' <=> Owns(u, x)
      BY SMTT(30) DEF TypeOK, Owns, Unlinked, Popping
    <2> QED BY <2>1, OwnershipFrame
  <1>4. Shape'
    <2>1. \A u \in Thread : /\ Unlinked(u)' <=> Unlinked(u)
                            /\ HoldsBottom(u)' <=> HoldsBottom(u)
                            /\ Linked(u)' <=> Linked(u)
                            /\ u # t => pc'[u] = pc[u]
      BY DEF TypeOK, Unlinked, Linked, HoldsBottom
    <2> QED BY <2>1, ShapeFrame DEF TypeOK
  <1> QED BY <1>1, <1>2, <1>3, <1>4

LEMMA PopClaimInv ==
  ASSUME IInv, NEW t \in Thread, PopClaim(t)
  PROVE  IInv'
  <1> USE PointerAssumption DEF IInv, Goto, localVars, listVars, PushPC, PopPC, PopClaim
  <1> DEFINE e == bottom_
  <1>0. /\ e \in Entry /\ queue # << >> /\ e = queue[1] /\ e = Head(queue)
        /\ Len(queue) \in Nat \ {0}
        /\ queue' \in Seq(Entry)
        /\ Len(queue') = Len(queue) - 1
        /\ \A i \in 1 .. Len(queue) - 1 : queue'[i] = queue[i + 1]
        /\ queue' = << >> <=> Len(queue) = 1
        /\ InQueue = InQueue' \cup {e}
    BY TailFacts DEF Shape, Links, Ends, InFlight, TypeOK, Pointer, InQueue
  <1>a. e \notin InQueue'
    BY <1>0, SMTT(60) DEF InQueue, Elements, Ownership
  <1>1. TypeOK'
    BY SMTT(30), <1>0 DEF TypeOK, PC, Pointer
  <1>2. ExclusiveEnds'
    BY SMTT(30), <1>0 DEF TypeOK, ExclusiveEnds, HoldsTop, HoldsBottom
  <1>3. Ownership'
    <2>2. \A x \in Entry \cup {Null} : ~ Owns(t, x) /\ (Owns(t, x)' <=> x = e)
      BY DEF Owns, Unlinked, Popping, TypeOK
    <2>3. \A u \in Thread, x \in Entry \cup {Null} : u # t => (Owns(u, x)' <=> Owns(u, x))
      BY SMTT(30) DEF Owns, Unlinked, Popping, TypeOK
    <2>4. \A i, j \in 1 .. Len(queue') : queue'[i] = queue'[j] => i = j
      BY <1>0, SMTT(60) DEF Ownership
    <2>5. heap' = heap /\ (\A x : x \in InQueue <=> x \in InQueue' \/ x = e)
      BY <1>0
    <2>6. \A x \in Entry \cup {Null} :
            x \in heap <=> x \in InQueue \/ \E u \in Thread : Owns(u, x)
      BY DEF Ownership
    <2>7. \A x \in Entry \cup {Null} :
            x \in heap' <=> x \in InQueue' \/ \E u \in Thread : Owns(u, x)'
      BY <2>2, <2>3, <2>5, <2>6
    <2>8. \A u \in Thread, x \in Entry : Owns(u, x)' => x \notin InQueue'
      BY SMTT(30), <1>a, <2>2, <2>3, <2>5 DEF Ownership
    <2>9. \A u, v \in Thread, x \in Entry : Owns(u, x)' /\ Owns(v, x)' => u = v
      <3>1. \A u \in Thread : ~ Owns(u, e)
        BY <1>0, <2>5 DEF Ownership
      <3> QED BY <2>2, <2>3, <3>1 DEF Ownership
    <2> QED BY <2>4, <2>7, <2>8, <2>9 DEF Ownership
  <1>4. Shape'
    <2>1. \A x \in Entry : EndsList(x) => EndsList(x)'
      <3>1. \A x \in Entry : EndsList(x) => x = queue[Len(queue)]
        BY <1>0 DEF EndsList
      <3>2. HoldsBottom(t)' /\ valptr'[t] = e
        BY DEF HoldsBottom, TypeOK
      <3>3. queue' # << >> => queue'[Len(queue')] = queue[Len(queue)]
        BY <1>0, EmptyFacts, SMTT(60)
      <3>4. Len(queue) = 1 => queue' = << >> /\ queue[Len(queue)] = e
        BY <1>0
      <3>5. queue' # << >> \/ Len(queue) = 1
        BY <1>0
      <3> QED BY <3>1, <3>2, <3>3, <3>4, <3>5 DEF EndsList
    <2>2. \A i \in 1 .. Len(queue') :
            next_[queue'[i]] = IF i < Len(queue') THEN queue'[i + 1] ELSE MaxPtr
      BY <1>0, SMTT(60) DEF Shape, Links
    <2>3. next_[e] = IF queue' = << >> THEN MaxPtr ELSE Head(queue')
      <3>1. queue' # << >> => Head(queue') = queue[2] /\ Len(queue) > 1
        BY <1>0, TailFacts, SMTT(60)
      <3> QED BY <1>0, <3>1, SMTT(60) DEF Shape, Links
    <2>4. Links'
      BY SMTT(30), <2>2, <2>3 DEF Shape, Links, TypeOK, ExclusiveEnds, HoldsBottom, Unlinked
    <2>5. Ends'
      BY SMTT(30), <2>1 DEF Shape, Ends, TypeOK
    <2>6. InFlight'
      BY SMTT(30), <1>0, <2>1 DEF Shape, InFlight, TypeOK, Linked, ExclusiveEnds, HoldsTop, HoldsBottom, Ends, EndsList, Pointer
    <2> QED BY <2>4, <2>5, <2>6 DEF Shape
  <1> QED BY SMTT(30), <1>1, <1>2, <1>3, <1>4

LEMMA PopClaimTopInv ==
  ASSUME IInv, NEW t \in Thread, PopClaimTop(t)
  PROVE  IInv'
  <1> USE PointerAssumption DEF IInv, Goto, localVars, listVars, PushPC, PopPC, PopClaimTop
  <1>1. TypeOK'
    BY DEF TypeOK, PC, Pointer
  <1>2. ExclusiveEnds'
    BY SMTT(30) DEF TypeOK, ExclusiveEnds, HoldsTop, HoldsBottom
  <1>3. Ownership'
    <2>1. \A u \in Thread, x \in Entry \cup {Null} : Owns(u, x)' <=> Owns(u, x)
      BY SMTT(30) DEF TypeOK, Owns, Unlinked, Popping
    <2> QED BY <2>1, OwnershipFrame
  <1>4. Shape'
    <2>1. \A u \in Thread : /\ Unlinked(u)' <=> Unlinked(u)
                            /\ HoldsBottom(u)' <=> HoldsBottom(u)
                            /\ Linked(u)' <=> Linked(u)
                            /\ u # t => pc'[u] = pc[u]
      BY DEF TypeOK, Unlinked, Linked, HoldsBottom
    <2>a. top_ = valptr[t] => queue = << >>
      <3> SUFFICES ASSUME top_ = valptr[t], queue # << >> PROVE FALSE
        OBVIOUS
      <3>1. valptr[t] \in Entry /\ valptr[t] \notin InQueue
        BY OwnershipFacts DEF Popping
      <3>2. EndsList(valptr[t])
        BY <3>1 DEF Shape, Ends
      <3>3. Len(queue) \in 1 .. Len(queue)
        BY EmptyFacts, SMTT(60) DEF TypeOK
      <3> QED BY <3>1, <3>2, <3>3, OwnershipFacts DEF EndsList
    <2>b. /\ top_' \in {top_, MaxPtr}
          /\ pc'[t] = IF top_ = valptr[t] THEN "countDownLast" ELSE "waitNext"
      BY DEF TypeOK
    <2>2. \A e : EndsList(e)' <=> EndsList(e)
      BY <2>1 DEF EndsList
    <2>3. Links'
      BY <2>1 DEF Shape, Links
    <2>4. Ends'
      BY SMTT(30), <2>2, <2>b DEF Shape, Ends
    <2>5. InFlight'
      BY SMTT(30), <2>1, <2>2, <2>a, <2>b DEF Shape, InFlight
    <2> QED BY <2>3, <2>4, <2>5 DEF Shape
  <1> QED BY <1>1, <1>2, <1>3, <1>4

LEMMA PopWaitNextInv ==
  ASSUME IInv, NEW t \in Thread, PopWaitNext(t)
  PROVE  IInv'
  <1> USE PointerAssumption DEF IInv, Goto, localVars, listVars, PushPC, PopPC, PopWaitNext
  <1>1. TypeOK'
    BY DEF TypeOK, PC, Pointer
  <1>2. ExclusiveEnds'
    BY SMTT(30) DEF TypeOK, ExclusiveEnds, HoldsTop, HoldsBottom
  <1>3. Ownership'
    <2>1. \A u \in Thread, x \in Entry \cup {Null} : Owns(u, x)' <=> Owns(u, x)
      BY SMTT(30) DEF TypeOK, Owns, Unlinked, Popping
    <2> QED BY <2>1, OwnershipFrame
  <1>4. Shape'
    <2>1. \A u \in Thread : /\ Unlinked(u)' <=> Unlinked(u)
                            /\ HoldsBottom(u)' <=> HoldsBottom(u)
                            /\ Linked(u)' <=> Linked(u)
                            /\ u # t => pc'[u] = pc[u]
      BY DEF TypeOK, Unlinked, Linked, HoldsBottom
    <2>2. queue # << >>
      BY DEF Shape, Links, HoldsBottom
    <2> QED BY <2>1, <2>2, ShapeFrame DEF TypeOK
  <1> QED BY <1>1, <1>2, <1>3, <1>4

LEMMA PopCountInv ==
  ASSUME IInv, NEW t \in Thread, PopCount(t)
  PROVE  IInv'
  <1> USE PointerAssumption DEF IInv, Goto, localVars, listVars, PushPC, PopPC, PopCount
  <1>1. TypeOK'
    BY SMTT(60) DEF TypeOK, PC, Pointer
  <1>2. ExclusiveEnds'
    BY SMTT(30) DEF TypeOK, ExclusiveEnds, HoldsTop, HoldsBottom
  <1>3. Ownership'
    <2>1. \A u \in Thread, x \in Entry \cup {Null} : Owns(u, x)' <=> Owns(u, x)
      BY SMTT(30) DEF TypeOK, Owns, Unlinked, Popping
    <2> QED BY <2>1, OwnershipFrame
  <1>4. Shape'
    <2>1. \A u \in Thread : /\ Unlinked(u)' <=> Unlinked(u)
                            /\ HoldsBottom(u)' <=> HoldsBottom(u)
                            /\ Linked(u)' <=> Linked(u)
                            /\ u # t => pc'[u] = pc[u]
      BY DEF TypeOK, Unlinked, Linked, HoldsBottom
    <2>2. pc[t] = "countDown" => queue # << >>
      BY DEF Shape, InFlight
    <2>3. pc[t] = "countDownLast" => queue = << >>
      BY DEF Shape, InFlight
    <2> QED BY <2>1, <2>2, <2>3, ShapeFrame DEF TypeOK
  <1> QED BY <1>1, <1>2, <1>3, <1>4

LEMMA PopBottomInv ==
  ASSUME IInv, NEW t \in Thread, PopBottom(t)
  PROVE  IInv'
  <1> USE PointerAssumption DEF IInv, Goto, localVars, listVars, PushPC, PopPC, PopBottom
  <1>0. next_[valptr[t]] \in Entry
    BY OwnershipFacts, TailFacts, SMTT(60) DEF Shape, Links, Ends, InFlight, HoldsBottom, TypeOK
  <1>1. TypeOK'
    BY SMTT(30), <1>0 DEF TypeOK, PC, Pointer
  <1>2. ExclusiveEnds'
    BY SMTT(30), <1>0 DEF TypeOK, ExclusiveEnds, HoldsTop, HoldsBottom
  <1>3. Ownership'
    <2>1. \A u \in Thread, x \in Entry \cup {Null} : Owns(u, x)' <=> Owns(u, x)
      BY SMTT(30) DEF TypeOK, Owns, Unlinked, Popping
    <2> QED BY <2>1, OwnershipFrame
  <1>4. Shape'
    <2>1. \A u \in Thread : /\ Unlinked(u)' <=> Unlinked(u)
                            /\ HoldsBottom(u)' <=> HoldsBottom(u) /\ u # t
                            /\ Linked(u)' <=> Linked(u)
                            /\ u # t => pc'[u] = pc[u]
      BY SMTT(30) DEF TypeOK, Unlinked, Linked, HoldsBottom
    <2>a. /\ queue # << >> /\ next_[valptr[t]] = Head(queue)
          /\ ~ \E u \in Thread : HoldsBottom(u)'
      <3>1. queue # << >> /\ HoldsBottom(t)
        BY DEF Shape, InFlight, HoldsBottom
      <3> QED BY SMTT(30), <2>1, <3>1 DEF Shape, Links, ExclusiveEnds
    <2>b. pc'[t] = "delete"
      BY DEF TypeOK
    <2>2. \A e : EndsList(e)' <=> EndsList(e)
      BY <2>a DEF EndsList
    <2>3. Links'
      BY <2>1 DEF Shape, Links
    <2>4. Ends'
      BY SMTT(30), <1>0, <2>2, <2>a DEF Shape, Ends
    <2>5. InFlight'
      <3>1. \A u \in Thread : pc[u] \in {"link", "linkBottom"} /\ topentry[u] = Null => FALSE
        BY SMTT(30) DEF Shape, InFlight, ExclusiveEnds, HoldsBottom
      <3>2. \A u \in Thread : pc[u] # "clearTop"
        BY <2>a DEF Shape, InFlight
      <3> QED BY <2>1, <2>2, <2>b, <3>1, <3>2 DEF Shape, InFlight
    <2> QED BY <2>3, <2>4, <2>5 DEF Shape
  <1> QED BY <1>1, <1>2, <1>3, <1>4

LEMMA PopCountLastInv ==
  ASSUME IInv, NEW t \in Thread, PopCountLast(t)
  PROVE  IInv'
  <1> USE PointerAssumption DEF IInv, Goto, localVars, listVars, PushPC, PopPC, PopCountLast
  <1>1. TypeOK'
    BY SMTT(60) DEF TypeOK, PC, Pointer
  <1>2. ExclusiveEnds'
    BY SMTT(30) DEF TypeOK, ExclusiveEnds, HoldsTop, HoldsBottom
  <1>3. Ownership'
    <2>1. \A u \in Thread, x \in Entry \cup {Null} : Owns(u, x)' <=> Owns(u, x)
      BY SMTT(30) DEF TypeOK, Owns, Unlinked, Popping
    <2> QED BY <2>1, OwnershipFrame
  <1>4. Shape'
    <2>1. \A u \in Thread : /\ Unlinked(u)' <=> Unlinked(u)
                            /\ HoldsBottom(u)' <=> HoldsBottom(u)
                            /\ Linked(u)' <=> Linked(u)
                            /\ u # t => pc'[u] = pc[u]
      BY DEF TypeOK, Unlinked, Linked, HoldsBottom
    <2>2. pc[t] = "countDown" => queue # << >>
      BY DEF Shape, InFlight
    <2>3. pc[t] = "countDownLast" => queue = << >>
      BY DEF Shape, InFlight
    <2> QED BY <2>1, <2>2, <2>3, ShapeFrame DEF TypeOK
  <1> QED BY <1>1, <1>2, <1>3, <1>4

LEMMA PopBottomLastInv ==
  ASSUME IInv, NEW t \in Thread, PopBottomLast(t)
  PROVE  IInv'
  <1> USE PointerAssumption DEF IInv, Goto, localVars, listVars, PushPC, PopPC, PopBottomLast
  <1>1. TypeOK'
    BY DEF TypeOK, PC, Pointer
  <1>2. ExclusiveEnds'
    BY SMTT(30) DEF TypeOK, ExclusiveEnds, HoldsTop, HoldsBottom
  <1>3. Ownership'
    <2>1. \A u \in Thread, x \in Entry \cup {Null} : Owns(u, x)' <=> Owns(u, x)
      BY SMTT(30) DEF TypeOK, Owns, Unlinked, Popping
    <2> QED BY <2>1, OwnershipFrame
  <1>4. Shape'
    <2>1. \A u \in Thread : /\ Unlinked(u)' <=> Unlinked(u)
                            /\ HoldsBottom(u)' <=> HoldsBottom(u) /\ u # t
                            /\ Linked(u)' <=> Linked(u)
                            /\ u # t => pc'[u] = pc[u]
      BY DEF TypeOK, Unlinked, Linked, HoldsBottom
    <2>a. queue = << >> /\ pc'[t] = "clearTop" /\ top_ = MaxPtr
      BY DEF TypeOK, Shape, InFlight, ExclusiveEnds, HoldsTop
    <2>b. \A u \in Thread : ~ HoldsBottom(u)' /\ pc[u] \notin PushPC
      BY <2>1 DEF ExclusiveEnds, HoldsBottom, HoldsTop
    <2>3. Links'
      BY <2>1, <2>b DEF Shape, Links
    <2>4. Ends'
      BY SMTT(30), <2>a DEF Shape, Ends
    <2>5. InFlight'
      <3>1. \A u \in Thread : ~ Linked(u)' /\ pc'[u] \notin PushPC
        BY <2>1, <2>a, <2>b DEF Linked
      <3> QED BY <2>1, <2>a, <3>1 DEF Shape, InFlight
    <2> QED BY <2>3, <2>4, <2>5 DEF Shape
  <1> QED BY <1>1, <1>2, <1>3, <1>4

LEMMA PopTopLastInv ==
  ASSUME IInv, NEW t \in Thread, PopTopLast(t)
  PROVE  IInv'
  <1> USE PointerAssumption DEF IInv, Goto, localVars, listVars, PushPC, PopPC, PopTopLast
  <1>1. TypeOK'
    BY DEF TypeOK, PC, Pointer
  <1>2. ExclusiveEnds'
    BY SMTT(30) DEF TypeOK, ExclusiveEnds, HoldsTop, HoldsBottom
  <1>3. Ownership'
    <2>1. \A u \in Thread, x \in Entry \cup {Null} : Owns(u, x)' <=> Owns(u, x)
      BY SMTT(30) DEF TypeOK, Owns, Unlinked, Popping
    <2> QED BY <2>1, OwnershipFrame
  <1>4. Shape'
    <2>1. \A u \in Thread : /\ Unlinked(u)' <=> Unlinked(u)
                            /\ HoldsBottom(u)' <=> HoldsBottom(u)
                            /\ Linked(u)' <=> Linked(u)
                            /\ u # t => pc'[u] = pc[u]
      BY DEF TypeOK, Unlinked, Linked, HoldsBottom
    <2>a. queue = << >> /\ bottom_ = Null /\ pc'[t] = "delete"
      BY DEF TypeOK, Shape, InFlight
    <2>2. \A e : EndsList(e)' <=> EndsList(e)
      BY SMTT(30), <2>1 DEF EndsList
    <2>3. Links'
      BY <2>1 DEF Shape, Links
    <2>4. Ends'
      BY SMTT(30), <2>a DEF Shape, Ends
    <2>5. InFlight'
      BY <2>1, <2>2, <2>a DEF Shape, InFlight
    <2> QED BY <2>3, <2>4, <2>5 DEF Shape
  <1> QED BY <1>1, <1>2, <1>3, <1>4

LEMMA PopDeleteInv ==
  ASSUME IInv, NEW t \in Thread, PopDelete(t)
  PROVE  IInv'
  <1> USE PointerAssumption DEF IInv, Goto, localVars, listVars, PushPC, PopPC, PopDelete
  <1>1. TypeOK'
    BY ZenonT(60) DEF TypeOK, PC, Pointer
  <1>2. ExclusiveEnds'
    BY SMTT(30) DEF TypeOK, ExclusiveEnds, HoldsTop, HoldsBottom
  <1>3. Ownership'
    <2>1. \A x \in Entry \cup {Null} : ~ Owns(t, x)' /\ (Owns(t, x) <=> x = valptr[t])
      BY DEF Owns, Unlinked, Popping, TypeOK
    <2>2. \A u \in Thread, x \in Entry \cup {Null} : u # t => (Owns(u, x)' <=> Owns(u, x))
      BY SMTT(30) DEF Owns, Unlinked, Popping, TypeOK
    <2>3. InQueue' = InQueue
      BY SMTT(30) DEF InQueue
    <2> QED BY <2>1, <2>2, <2>3, SMTT(60) DEF Ownership, TypeOK
  <1>4. Shape'
    <2>1. \A u \in Thread : /\ Unlinked(u)' <=> Unlinked(u)
                            /\ HoldsBottom(u)' <=> HoldsBottom(u)
                            /\ Linked(u)' <=> Linked(u)
                            /\ u # t => pc'[u] = pc[u]
      BY SMTT(30) DEF TypeOK, Unlinked, Linked, HoldsBottom
    <2>a. /\ \A i \in 1 .. Len(queue) : queue[i] \in Entry /\ queue[i] # valptr[t]
          /\ \A u \in Thread : Unlinked(u) => newentry[u] \in Entry /\ newentry[u] # valptr[t]
          /\ \A u \in Thread : HoldsBottom(u) =>
               u # t /\ valptr[u] \in Entry /\ valptr[u] # valptr[t]
      BY OwnershipFacts DEF HoldsBottom, Popping
    <2>b. /\ pc'[t] = "idle" /\ next_ \in [Entry -> Pointer]
          /\ valptr \in [Thread -> Entry \cup {Null}]
      BY SMTT(30) DEF TypeOK
    <2>2. \A e : EndsList(e)' <=> EndsList(e)
      BY <2>1, <2>a, <2>b DEF EndsList
    <2>3. Links'
      BY <2>1, <2>a, <2>b DEF Shape, Links
    <2>4. Ends'
      BY <2>2 DEF Shape, Ends
    <2>5. InFlight'
      BY <2>1, <2>2, <2>b DEF Shape, InFlight
    <2> QED BY <2>3, <2>4, <2>5 DEF Shape
  <1> QED BY <1>1, <1>2, <1>3, <1>4

LEMMA InitInv == Init => IInv
  <1> SUFFICES ASSUME Init PROVE IInv
    OBVIOUS
  <1> USE PointerAssumption DEF Init, PushPC, PopPC
  <1>1. TypeOK
    BY SMTT(60) DEF TypeOK, Pointer, PC
  <1>2. ExclusiveEnds
    BY DEF ExclusiveEnds, HoldsTop, HoldsBottom
  <1>3. InQueue = {} /\ Len(queue) = 0
    BY SMTT(60) DEF InQueue, Elements
  <1>4. Ownership
    BY <1>3, SMTT(60) DEF Ownership, Owns, Unlinked, Popping
  <1>5. Shape
    BY <1>3, SMTT(60) DEF Shape, Links, Ends, InFlight, Unlinked, Linked, HoldsBottom
  <1> QED BY <1>1, <1>2, <1>4, <1>5 DEF IInv

LEMMA NextInv == IInv /\ [Next]_vars => IInv'
  <1> SUFFICES ASSUME IInv, [Next]_vars PROVE IInv'
    OBVIOUS
  <1>1. CASE Next
    <2>1. PICK t \in Thread :
            \/ \E e \in Entry : PushNew(t, e)
            \/ PopEmpty(t) \/ PopClaim(t)
            \/ PushStep(t) \/ PopStep(t)
      BY <1>1 DEF Next
    <2>2. CASE \E e \in Entry : PushNew(t, e)
      BY <2>2, PushNewInv
    <2>3. CASE PopEmpty(t) \/ PopClaim(t)
      BY <2>3, PopEmptyInv, PopClaimInv
    <2>4. CASE PushStep(t)
      BY <2>4, PushClaimInv, PushLinkInv, PushLinkBottomInv, PushCountInv, PushTopInv
         DEF PushStep
    <2>5. CASE PopStep(t)
      BY <2>5, PopClaimTopInv, PopWaitNextInv, PopCountInv, PopBottomInv, PopCountLastInv,
         PopBottomLastInv, PopTopLastInv, PopDeleteInv, PopCatchInv
         DEF PopStep
    <2> QED BY <2>1, <2>2, <2>3, <2>4, <2>5
  <1>2. CASE UNCHANGED vars
    <2>1. TypeOK' /\ ExclusiveEnds'
      BY SMTT(30), <1>2 DEF IInv, vars, TypeOK, ExclusiveEnds, HoldsTop, HoldsBottom
    <2>2. Ownership'
      BY <1>2, OwnershipFrame DEF IInv, vars, Owns, Unlinked, Popping
    <2>3. Shape'
      BY ZenonT(30), <1>2 DEF IInv, vars, Shape, Links, Ends, InFlight, EndsList, Unlinked, Linked,
                  HoldsBottom
    <2> QED BY <2>1, <2>2, <2>3 DEF IInv
  <1> QED BY <1>1, <1>2

(* The inductive invariant of the container holds in every reachable state. *)
THEOREM Invariance == Spec => []IInv
  BY InitInv, NextInv, PTL DEF Spec

(* Every variable of the container keeps its type. *)
THEOREM TypeCorrect == Spec => []TypeOK
  BY Invariance, PTL DEF IInv

(* No two threads ever work at the same end of the list. *)
THEOREM ExclusiveEndsHolds == Spec => []ExclusiveEnds
  BY Invariance, PTL DEF IInv

(* No entry is leaked, deleted twice, or used after push_back or pop_front *)
(* of another thread deleted it.                                           *)
THEOREM OwnershipHolds == Spec => []Ownership
  BY Invariance, PTL DEF IInv

LEMMA ResultsStep == TypeOK /\ Results /\ [Next]_vars => Results'
  <1> SUFFICES ASSUME TypeOK, Results, [Next]_vars PROVE Results'
    OBVIOUS
  <1> USE DEF TypeOK, Results, Popping, PopPC, Goto, localVars, listVars
  <1>1. CASE UNCHANGED vars
    BY <1>1 DEF vars
  <1>2. ASSUME NEW t \in Thread, NEW e \in Entry, PushNew(t, e) PROVE Results'
    BY <1>2 DEF PushNew
  <1>3. ASSUME NEW t \in Thread, PopEmpty(t) \/ PopClaim(t) PROVE Results'
    BY <1>3 DEF PopEmpty, PopClaim
  <1>4. ASSUME NEW t \in Thread, PushClaim(t) PROVE Results'
    BY <1>4 DEF PushClaim
  <1>5. ASSUME NEW t \in Thread, PushLink(t) PROVE Results'
    BY <1>5 DEF PushLink
  <1>6. ASSUME NEW t \in Thread, PushLinkBottom(t) PROVE Results'
    BY <1>6 DEF PushLinkBottom
  <1>7. ASSUME NEW t \in Thread, PushCount(t) PROVE Results'
    BY <1>7 DEF PushCount
  <1>8. ASSUME NEW t \in Thread, PushTop(t) PROVE Results'
    BY <1>8 DEF PushTop
  <1>9. ASSUME NEW t \in Thread, PopClaimTop(t) PROVE Results'
    BY <1>9 DEF PopClaimTop
  <1>10. ASSUME NEW t \in Thread, PopWaitNext(t) PROVE Results'
    BY <1>10 DEF PopWaitNext
  <1>11. ASSUME NEW t \in Thread, PopCount(t) PROVE Results'
    BY <1>11 DEF PopCount
  <1>12. ASSUME NEW t \in Thread, PopBottom(t) PROVE Results'
    BY <1>12 DEF PopBottom
  <1>13. ASSUME NEW t \in Thread, PopCountLast(t) PROVE Results'
    BY <1>13 DEF PopCountLast
  <1>14. ASSUME NEW t \in Thread, PopBottomLast(t) PROVE Results'
    BY <1>14 DEF PopBottomLast
  <1>15. ASSUME NEW t \in Thread, PopTopLast(t) PROVE Results'
    BY <1>15 DEF PopTopLast
  <1>16. ASSUME NEW t \in Thread, PopDelete(t) PROVE Results'
    BY <1>16 DEF PopDelete
  <1>17. ASSUME NEW t \in Thread, PopCatch(t) PROVE Results'
    BY <1>17 DEF PopCatch
  <1> HIDE DEF TypeOK, Results, Popping, PopPC, Goto
  <1> QED BY <1>1, <1>2, <1>3, <1>4, <1>5, <1>6, <1>7, <1>8, <1>9, <1>10,
             <1>11, <1>12, <1>13, <1>14, <1>15, <1>16, <1>17
          DEF Next, PushStep, PopStep

(* While a pop_front runs, its result is the entry in its hands. *)
THEOREM ResultsHold == Spec => []Results
  <1>1. Init => Results
    BY ZenonT(60) DEF Init, Results, Popping, PopPC
  <1> QED BY <1>1, ResultsStep, TypeCorrect, PTL DEF Spec

(* What the exchange of bottom_ (line 369) tells: it finds nullptr exactly *)
(* when the list was empty as top_ was claimed.                            *)
LEMMA BottomTellsEmpty ==
  ASSUME IInv, NEW t \in Thread, pc[t] = "linkBottom"
  PROVE  topentry[t] = Null <=> bottom_ = Null
  <1>1. topentry[t] = Null => bottom_ = Null
    BY DEF IInv, Shape, InFlight
  <1>2. ASSUME topentry[t] # Null, bottom_ = Null PROVE FALSE
    <2>1. queue = << >> /\ EndsList(newentry[t])
      BY SMTT(30), <1>2 DEF IInv, Shape, Ends, InFlight, Linked
    <2>2. PICK u \in Thread : HoldsBottom(u)
      BY <2>1 DEF EndsList
    <2> QED BY SMTT(30), <1>2, <2>2, PointerAssumption DEF IInv, ExclusiveEnds
  <1> QED BY <1>1, <1>2

(* An entry that push_back has linked and not counted yet is either still  *)
(* in the list or in the hands of a pop_front that has not subtracted it.  *)
LEMMA UncountedIsThere ==
  ASSUME IInv, NEW t \in Thread, Uncounted(t)
  PROVE  queue # << >> \/ \E u \in Thread : StillCounted(u)
  <1> SUFFICES ASSUME queue = << >> PROVE \E u \in Thread : StillCounted(u)
    OBVIOUS
  <1>1. PICK u \in Thread : HoldsBottom(u) /\ valptr[u] = newentry[t]
    BY DEF IInv, Shape, InFlight, Uncounted, EndsList
  <1>2. u # t /\ ~ HoldsTop(u)
    BY <1>1 DEF IInv, ExclusiveEnds, HoldsTop, HoldsBottom, Uncounted, Linked, PushPC, PopPC
  <1>3. pc[u] \notin {"countDown", "setBottom"}
    BY DEF IInv, Shape, InFlight
  <1> QED BY <1>1, <1>2, <1>3 DEF HoldsBottom, HoldsTop, StillCounted, PopPC

Balance ==
  count_ = Len(queue) + One(\E t \in Thread : StillCounted(t))
                      - One(\E t \in Thread : Uncounted(t))

LEMMA CountStep == IInv /\ Balance /\ [Next]_vars => Balance'
  <1> SUFFICES ASSUME IInv, IInv', Balance, [Next]_vars PROVE Balance'
    BY NextInv
  <1> DEFINE S == \E t \in Thread : StillCounted(t)
             U == \E t \in Thread : Uncounted(t)
             Goal == count_' = Len(queue') + One(S') - One(U')
  <1>1. Len(queue) \in Nat /\ Len(queue') \in Nat /\ count_ \in Int
    BY EmptyFacts DEF IInv, TypeOK
  <1>2. /\ \A t, u \in Thread : StillCounted(t) /\ StillCounted(u) => t = u
        /\ \A t, u \in Thread : Uncounted(t) /\ Uncounted(u) => t = u
    <2>1. \A t \in Thread : StillCounted(t) => HoldsBottom(t)
      BY DEF StillCounted, HoldsBottom, PopPC
    <2>2. \A t \in Thread : Uncounted(t) => HoldsTop(t)
      BY DEF Uncounted, Linked, HoldsTop, PushPC
    <2> QED BY <2>1, <2>2 DEF IInv, ExclusiveEnds
  <1>3. count_ = Len(queue) + One(S) - One(U)
    BY DEF Balance
  <1>4. ASSUME count_' = count_, queue' = queue,
               \A u \in Thread : /\ StillCounted(u)' <=> StillCounted(u)
                                 /\ Uncounted(u)' <=> Uncounted(u)
        PROVE  Goal
    <2>1. S' <=> S
      BY <1>4
    <2>2. U' <=> U
      BY <1>4
    <2> HIDE DEF S, U
    <2> QED BY <1>3, <1>4, <2>1, <2>2, ZenonT(60) DEF One
  <1> HIDE DEF Goal
  <1> USE DEF Goto, localVars, listVars
  <1>5. ASSUME UNCHANGED vars PROVE Goal
    <2>1. \A u \in Thread : /\ StillCounted(u)' <=> StillCounted(u)
                            /\ Uncounted(u)' <=> Uncounted(u)
      BY <1>5 DEF vars, StillCounted, Uncounted, Linked
    <2>2. count_' = count_ /\ queue' = queue
      BY <1>5 DEF vars
    <2> QED BY <1>4, <2>1, <2>2
  <1>6. ASSUME NEW t \in Thread, NEW e \in Entry, PushNew(t, e) PROVE Goal
    <2>1. \A u \in Thread : /\ StillCounted(u)' <=> StillCounted(u)
                            /\ Uncounted(u)' <=> Uncounted(u)
      BY <1>6 DEF PushNew, StillCounted, Uncounted, Linked, IInv, TypeOK
    <2>2. count_' = count_ /\ queue' = queue
      BY <1>6 DEF PushNew
    <2> QED BY <1>4, <2>1, <2>2
  <1>7. ASSUME NEW t \in Thread, PushClaim(t) PROVE Goal
    <2>1. \A u \in Thread : /\ StillCounted(u)' <=> StillCounted(u)
                            /\ Uncounted(u)' <=> Uncounted(u)
      BY <1>7 DEF PushClaim, StillCounted, Uncounted, Linked, IInv, TypeOK
    <2>2. count_' = count_ /\ queue' = queue
      BY SMTT(30), <1>7 DEF PushClaim
    <2> QED BY SMTT(30), <1>4, <2>1, <2>2
  <1>8. ASSUME NEW t \in Thread, PushTop(t) PROVE Goal
    <2>1. \A u \in Thread : /\ StillCounted(u)' <=> StillCounted(u)
                            /\ Uncounted(u)' <=> Uncounted(u)
      BY <1>8 DEF PushTop, StillCounted, Uncounted, Linked, IInv, TypeOK
    <2>2. count_' = count_ /\ queue' = queue
      BY SMTT(30), <1>8 DEF PushTop
    <2> QED BY <1>4, <2>1, <2>2
  <1>9. ASSUME NEW t \in Thread, PopEmpty(t) PROVE Goal
    <2>1. \A u \in Thread : /\ StillCounted(u)' <=> StillCounted(u)
                            /\ Uncounted(u)' <=> Uncounted(u)
      BY <1>9 DEF PopEmpty, StillCounted, Uncounted, Linked, IInv, TypeOK
    <2>2. count_' = count_ /\ queue' = queue
      BY SMTT(30), <1>9 DEF PopEmpty
    <2> QED BY <1>4, <2>1, <2>2
  <1>10. ASSUME NEW t \in Thread, PopCatch(t) PROVE Goal
    <2>1. \A u \in Thread : /\ StillCounted(u)' <=> StillCounted(u)
                            /\ Uncounted(u)' <=> Uncounted(u)
      BY <1>10 DEF PopCatch, StillCounted, Uncounted, Linked, IInv, TypeOK
    <2>2. count_' = count_ /\ queue' = queue
      BY <1>10 DEF PopCatch
    <2> QED BY <1>4, <2>1, <2>2
  <1>11. ASSUME NEW t \in Thread, PopClaimTop(t) PROVE Goal
    <2>1. \A u \in Thread : /\ StillCounted(u)' <=> StillCounted(u)
                            /\ Uncounted(u)' <=> Uncounted(u)
      BY <1>11, SMTT(60) DEF PopClaimTop, StillCounted, Uncounted, Linked, IInv, TypeOK
    <2>2. count_' = count_ /\ queue' = queue
      BY SMTT(30), <1>11 DEF PopClaimTop
    <2> QED BY <1>4, <2>1, <2>2
  <1>12. ASSUME NEW t \in Thread, PopWaitNext(t) PROVE Goal
    <2>1. \A u \in Thread : /\ StillCounted(u)' <=> StillCounted(u)
                            /\ Uncounted(u)' <=> Uncounted(u)
      BY <1>12, SMTT(60) DEF PopWaitNext, StillCounted, Uncounted, Linked, IInv, TypeOK
    <2>2. count_' = count_ /\ queue' = queue
      BY <1>12 DEF PopWaitNext
    <2> QED BY <1>4, <2>1, <2>2
  <1>13. ASSUME NEW t \in Thread, PopBottom(t) PROVE Goal
    <2>1. \A u \in Thread : /\ StillCounted(u)' <=> StillCounted(u)
                            /\ Uncounted(u)' <=> Uncounted(u)
      BY <1>13 DEF PopBottom, StillCounted, Uncounted, Linked, IInv, TypeOK
    <2>2. count_' = count_ /\ queue' = queue
      BY SMTT(30), <1>13 DEF PopBottom
    <2> QED BY <1>4, <2>1, <2>2
  <1>14. ASSUME NEW t \in Thread, PopBottomLast(t) PROVE Goal
    <2>1. \A u \in Thread : /\ StillCounted(u)' <=> StillCounted(u)
                            /\ Uncounted(u)' <=> Uncounted(u)
      BY <1>14 DEF PopBottomLast, StillCounted, Uncounted, Linked, IInv, TypeOK
    <2>2. count_' = count_ /\ queue' = queue
      BY SMTT(30), <1>14 DEF PopBottomLast
    <2> QED BY <1>4, <2>1, <2>2
  <1>15. ASSUME NEW t \in Thread, PopTopLast(t) PROVE Goal
    <2>1. \A u \in Thread : /\ StillCounted(u)' <=> StillCounted(u)
                            /\ Uncounted(u)' <=> Uncounted(u)
      BY <1>15 DEF PopTopLast, StillCounted, Uncounted, Linked, IInv, TypeOK
    <2>2. count_' = count_ /\ queue' = queue
      BY SMTT(30), <1>15 DEF PopTopLast
    <2> QED BY <1>4, <2>1, <2>2
  <1>16. ASSUME NEW t \in Thread, PopDelete(t) PROVE Goal
    <2>1. \A u \in Thread : /\ StillCounted(u)' <=> StillCounted(u)
                            /\ Uncounted(u)' <=> Uncounted(u)
      BY <1>16 DEF PopDelete, StillCounted, Uncounted, Linked, IInv, TypeOK
    <2>2. count_' = count_ /\ queue' = queue
      BY <1>16 DEF PopDelete
    <2> QED BY <1>4, <2>1, <2>2
  <1>17. ASSUME NEW t \in Thread, PushLink(t) PROVE Goal
    <2>a. /\ pc \in [Thread -> PC] /\ pc[t] = "link"
          /\ pc' = [pc EXCEPT ![t] = "linkBottom"]
          /\ newentry' = newentry /\ topentry' = topentry /\ count_' = count_
      BY <1>17 DEF PushLink, IInv, TypeOK
    <2>0. \A u \in Thread : StillCounted(u)' <=> StillCounted(u)
      BY <2>a DEF StillCounted
    <2>1. CASE topentry[t] # Null
      <3>1. ~ Uncounted(t) /\ Uncounted(t)'
        BY <2>a, <2>1 DEF Uncounted, Linked
      <3>2. ~ U
        BY SMTT(30), <3>1, <2>a DEF IInv, ExclusiveEnds, HoldsTop, Uncounted, Linked, PushPC
      <3>3. newentry[t] \in Entry /\ queue \in Seq(Entry)
        <4>1. Unlinked(t)
          BY <2>a, <2>1 DEF Unlinked
        <4> QED BY <4>1, OwnershipFacts DEF IInv, TypeOK
      <3>4. Len(queue') = Len(queue) + 1
        <4>1. Len(Append(queue, newentry[t])) = Len(queue) + 1
          BY <3>3, AppendFacts
        <4> QED BY <1>17, <2>1, <4>1 DEF PushLink
      <3>5. U' /\ (S' <=> S)
        BY <2>0, <3>1
      <3> HIDE DEF S, U
      <3> QED BY <1>1, <1>3, <2>a, <3>2, <3>4, <3>5, SMTT(60) DEF One, Goal
    <2>2. CASE ~(topentry[t] # Null)
      <3>1. \A u \in Thread : Uncounted(u)' <=> Uncounted(u)
        BY <2>a, <2>2 DEF Uncounted, Linked
      <3>2. queue' = queue
        BY <1>17, <2>2 DEF PushLink
      <3> QED BY <1>4, <2>a, <2>0, <3>1, <3>2
    <2> QED BY SMTT(30), <2>1, <2>2
  <1>18. ASSUME NEW t \in Thread, PushLinkBottom(t) PROVE Goal
    <2>a. /\ pc \in [Thread -> PC] /\ pc[t] = "linkBottom"
          /\ pc' = [pc EXCEPT ![t] = "countUp"]
          /\ newentry' = newentry /\ topentry' = topentry /\ count_' = count_
      BY <1>18 DEF PushLinkBottom, IInv, TypeOK
    <2>b. topentry[t] = Null <=> bottom_ = Null
      BY <2>a, BottomTellsEmpty
    <2>0. \A u \in Thread : StillCounted(u)' <=> StillCounted(u)
      BY <2>a DEF StillCounted
    <2>1. CASE bottom_ = Null
      <3>1. ~ Uncounted(t) /\ Uncounted(t)'
        BY <2>a, <2>b, <2>1 DEF Uncounted, Linked
      <3>2. ~ U
        BY <3>1, <2>a DEF IInv, ExclusiveEnds, HoldsTop, Uncounted, Linked, PushPC
      <3>3. newentry[t] \in Entry /\ queue \in Seq(Entry)
        <4>1. Unlinked(t)
          BY <2>a, <2>b, <2>1 DEF Unlinked
        <4> QED BY <4>1, OwnershipFacts DEF IInv, TypeOK
      <3>4. Len(queue') = Len(queue) + 1
        <4>1. Len(Append(queue, newentry[t])) = Len(queue) + 1
          BY <3>3, AppendFacts
        <4> QED BY <1>18, <2>1, <4>1 DEF PushLinkBottom
      <3>5. U' /\ (S' <=> S)
        BY <2>0, <3>1
      <3> HIDE DEF S, U
      <3> QED BY <1>1, <1>3, <2>a, <3>2, <3>4, <3>5, SMTT(60) DEF One, Goal
    <2>2. CASE ~(bottom_ = Null)
      <3>1. \A u \in Thread : Uncounted(u)' <=> Uncounted(u)
        BY <2>a, <2>b, <2>2, SMTT(60) DEF Uncounted, Linked
      <3>2. queue' = queue
        BY <1>18, <2>2 DEF PushLinkBottom
      <3> QED BY <1>4, <2>a, <2>0, <3>1, <3>2
    <2> QED BY SMTT(30), <2>1, <2>2
  <1>19. ASSUME NEW t \in Thread, PushCount(t) PROVE Goal
    <2>1. /\ Uncounted(t) /\ ~ Uncounted(t)'
          /\ \A u \in Thread : /\ StillCounted(u)' <=> StillCounted(u)
                               /\ u # t => (Uncounted(u)' <=> Uncounted(u))
      BY <1>19 DEF PushCount, StillCounted, Uncounted, Linked, IInv, TypeOK
    <2>2. U /\ ~ U' /\ (S' <=> S)
      BY <1>2, <2>1
    <2>3. queue' = queue /\ count_' = count_ + 1
      BY <1>19 DEF PushCount
    <2> HIDE DEF S, U
    <2> QED BY SMTT(30), <1>1, <1>3, <2>2, <2>3 DEF One, Goal
  <1>20. ASSUME NEW t \in Thread, PopCount(t) PROVE Goal
    <2>1. /\ StillCounted(t) /\ ~ StillCounted(t)'
          /\ \A u \in Thread : /\ Uncounted(u)' <=> Uncounted(u)
                               /\ u # t => (StillCounted(u)' <=> StillCounted(u))
      BY <1>20 DEF PopCount, StillCounted, Uncounted, Linked, IInv, TypeOK
    <2>2. S /\ ~ S' /\ (U' <=> U)
      BY <1>2, <2>1
    <2>3. queue' = queue /\ count_' = count_ - 1
      BY SMTT(30), <1>20 DEF PopCount
    <2> HIDE DEF S, U
    <2> QED BY SMTT(30), <1>1, <1>3, <2>2, <2>3 DEF One, Goal
  <1>21. ASSUME NEW t \in Thread, PopCountLast(t) PROVE Goal
    <2>1. /\ StillCounted(t) /\ ~ StillCounted(t)'
          /\ \A u \in Thread : /\ Uncounted(u)' <=> Uncounted(u)
                               /\ u # t => (StillCounted(u)' <=> StillCounted(u))
      BY <1>21 DEF PopCountLast, StillCounted, Uncounted, Linked, IInv, TypeOK
    <2>2. S /\ ~ S' /\ (U' <=> U)
      BY <1>2, <2>1
    <2>3. queue' = queue /\ count_' = count_ - 1
      BY <1>21 DEF PopCountLast
    <2> HIDE DEF S, U
    <2> QED BY <1>1, <1>3, <2>2, <2>3, SMTT(60) DEF One, Goal
  <1>22. ASSUME NEW t \in Thread, PopClaim(t) PROVE Goal
    <2>1. \A u \in Thread : Uncounted(u)' <=> Uncounted(u)
      BY SMTT(30), <1>22 DEF PopClaim, Uncounted, Linked, IInv, TypeOK
    <2>2. StillCounted(t)' /\ ~ S
      BY <1>22 DEF PopClaim, StillCounted, IInv, TypeOK, ExclusiveEnds, HoldsBottom, PopPC
    <2>3. S' /\ ~ S /\ (U' <=> U)
      BY SMTT(30), <2>1, <2>2
    <2>4. queue # << >> /\ queue \in Seq(Entry)
      BY <1>22 DEF PopClaim, IInv, TypeOK, Pointer, Shape, Ends
    <2>5. Len(queue') = Len(queue) - 1 /\ count_' = count_
      BY <1>22, <2>4, TailFacts DEF PopClaim
    <2> HIDE DEF S, U
    <2> QED BY SMTT(30), <1>1, <1>3, <2>3, <2>5 DEF One, Goal
  <1>23. Goal
    <2> QED BY <1>5, <1>6, <1>7, <1>8, <1>9, <1>10, <1>11, <1>12, <1>13, <1>14, <1>15,
               <1>16, <1>17, <1>18, <1>19, <1>20, <1>21, <1>22 DEF Next, PushStep, PopStep
  <1> QED BY <1>23 DEF Balance, Goal

LEMMA NonNegative == IInv /\ Balance => CountExact
  <1> SUFFICES ASSUME IInv, Balance PROVE count_ >= 0
    BY ZenonT(60) DEF Balance, CountExact
  <1> DEFINE S == \E t \in Thread : StillCounted(t)
             U == \E t \in Thread : Uncounted(t)
  <1>1. U => queue # << >> \/ S
    BY UncountedIsThere
  <1>2. Len(queue) \in Nat /\ (queue # << >> => Len(queue) > 0)
    BY EmptyFacts, SMTT(60) DEF IInv, TypeOK
  <1>3. count_ = Len(queue) + One(S) - One(U)
    BY DEF Balance
  <1> HIDE DEF S, U
  <1> QED BY <1>1, <1>2, <1>3, SMTT(60) DEF One

(* count_ is exact up to the operations under way, and never negative. *)
THEOREM CountHolds == Spec => []CountExact
  <1>1. Init => Balance
    <2> SUFFICES ASSUME Init PROVE Balance
      OBVIOUS
    <2>1. Len(queue) = 0 /\ count_ = 0
      BY DEF Init
    <2>2. /\ ~ \E t \in Thread : StillCounted(t)
          /\ ~ \E t \in Thread : Uncounted(t)
      BY DEF Init, StillCounted, Uncounted, Linked
    <2> QED BY <2>1, <2>2, SMTT(60) DEF Balance, One
  <1> QED BY <1>1, CountStep, NonNegative, Invariance, PTL DEF Spec

(* Stack<T> implements the FIFO queue: every step of push_back and         *)
(* pop_front is a step of the queue or leaves it alone.                    *)
THEOREM ImplementsFifo == Spec => IsFifo
  <1>1. Init => Fifo!Init
    BY DEF Init, Fifo!Init, NoResult, Fifo!NoResult
  <1>2. IInv /\ Results /\ [Next]_vars => [Fifo!Next]_Fifo!vars
    <2> SUFFICES ASSUME IInv, Results, Next PROVE [Fifo!Next]_Fifo!vars
      BY DEF vars, Fifo!vars
    <2> USE DEF NoResult, Fifo!NoResult, IsEmptyResult, Fifo!IsEmptyResult, Fifo!vars,
                localVars, listVars, Goto
    <2>1. ASSUME NEW t \in Thread, NEW e \in Entry, PushNew(t, e)
          PROVE  [Fifo!Next]_Fifo!vars
      BY <2>1 DEF PushNew
    <2>2. ASSUME NEW t \in Thread, PopEmpty(t)
          PROVE  [Fifo!Next]_Fifo!vars
      <3>1. result[t] = NoResult /\ queue = << >>
        BY <2>2 DEF PopEmpty, Results, Popping, PopPC, IInv, Shape, Ends
      <3> QED BY <2>2, <3>1, ZenonT(60) DEF PopEmpty, Fifo!Next, Fifo!ThrowIsEmpty
    <2>3. ASSUME NEW t \in Thread, PopClaim(t)
          PROVE  [Fifo!Next]_Fifo!vars
      <3>1. /\ result[t] = NoResult
            /\ queue # << >> /\ bottom_ = Head(queue)
        BY SMTT(30), <2>3 DEF PopClaim, Results, Popping, PopPC, IInv, Shape, Ends, TypeOK, Pointer
      <3> QED BY <2>3, <3>1, ZenonT(60) DEF PopClaim, Fifo!Next, Fifo!Dequeue
    <2>4. ASSUME NEW t \in Thread, PushLink(t) \/ PushLinkBottom(t)
          PROVE  [Fifo!Next]_Fifo!vars
      <3>1. CASE queue' = queue
        BY <2>4, <3>1, ZenonT(60) DEF PushLink, PushLinkBottom
      <3>2. CASE queue' # queue
        <4>1. queue' = Append(queue, newentry[t])
          BY <2>4, <3>2 DEF PushLink, PushLinkBottom
        <4>2. Unlinked(t)
          <5>1. pc[t] = "linkBottom" => bottom_ = Null
            BY <2>4, <3>2 DEF PushLink, PushLinkBottom
          <5>2. pc[t] = "linkBottom" /\ topentry[t] # Null => bottom_ # Null
            BY BottomTellsEmpty
          <5> QED BY <2>4, <5>1, <5>2 DEF Unlinked, PushLink, PushLinkBottom
        <4>3. newentry[t] \in Entry
          BY <4>2, OwnershipFacts DEF IInv
        <4>4. result' = result
          BY <2>4 DEF PushLink, PushLinkBottom
        <4> QED BY <4>1, <4>3, <4>4 DEF Fifo!Next, Fifo!Enqueue
      <3> QED BY <3>1, <3>2
    <2>5. ASSUME NEW t \in Thread, PushClaim(t) \/ PushCount(t) \/ PushTop(t)
          PROVE  [Fifo!Next]_Fifo!vars
      BY <2>5 DEF PushClaim, PushCount, PushTop
    <2>6. ASSUME NEW t \in Thread, PopDelete(t) \/ PopCatch(t)
          PROVE  [Fifo!Next]_Fifo!vars
      <3>1. /\ result' = [result EXCEPT ![t] = NoResult] /\ queue' = queue
            /\ result \in [Thread -> Entry \cup {IsEmptyResult, NoResult}]
        BY <2>6 DEF PopDelete, PopCatch, IInv, TypeOK
      <3>2. CASE result[t] = NoResult
        <4>1. result' = result
          BY <3>1, <3>2
        <4> QED BY <3>1, <4>1
      <3>3. CASE result[t] # NoResult
        BY <3>1, <3>3, ZenonT(60) DEF Fifo!Next, Fifo!Return
      <3> QED BY <3>2, <3>3
    <2>7. ASSUME NEW t \in Thread,
                 \/ PopClaimTop(t) \/ PopWaitNext(t) \/ PopCount(t) \/ PopBottom(t)
                 \/ PopCountLast(t) \/ PopBottomLast(t) \/ PopTopLast(t)
          PROVE  [Fifo!Next]_Fifo!vars
      BY SMTT(30), <2>7 DEF PopClaimTop, PopWaitNext, PopCount, PopBottom, PopCountLast,
                  PopBottomLast, PopTopLast
    <2> QED BY <2>1, <2>2, <2>3, <2>4, <2>5, <2>6, <2>7 DEF Next, PushStep, PopStep
  <1> QED BY <1>1, <1>2, Invariance, ResultsHold, PTL DEF Spec, IsFifo, Fifo!Spec
=============================================================================
