------------------------- MODULE BuildOrder_proofs -------------------------
(***************************************************************************)
(* Proofs about prioritise_build_queue(), for every list of packages,      *)
(* every dependency graph and every order of the input.                    *)
(***************************************************************************)
EXTENDS BuildOrder, SequenceTheorems, TLAPS

-----------------------------------------------------------------------------
(* Lemmas about sequences.                                                 *)

(* What list.remove() does to the list: the elements behind the removed    *)
(* one move up by one place.                                               *)
LEMMA RemoveAtProperties ==
    ASSUME NEW S, NEW s \in Seq(S), NEW k \in 1..Len(s)
    PROVE  /\ RemoveAt(s, k) \in Seq(S)
           /\ Len(RemoveAt(s, k)) = Len(s) - 1
           /\ \A j \in 1..(Len(s) - 1) :
                RemoveAt(s, k)[j] = IF j < k THEN s[j] ELSE s[j + 1]
<1> DEFINE front == SubSeq(s, 1, k - 1)
           back == SubSeq(s, k + 1, Len(s))
<1>1. Len(s) \in Nat /\ \A j \in 1..Len(s) : s[j] \in S
  BY LenProperties, ElementOfSeq
<1>2. /\ front \in Seq(S)
      /\ Len(front) = k - 1
      /\ \A j \in 1..(k - 1) : front[j] = s[j]
  <2>1. \A j \in 1..(k - 1) : s[j] \in S
    BY <1>1
  <2>2. /\ front \in Seq(S)
        /\ Len(front) = IF 1 <= k - 1 THEN (k - 1) - 1 + 1 ELSE 0
        /\ \A j \in 1..((k - 1) - 1 + 1) : front[j] = s[1 + j - 1]
    BY <1>1, <2>1, SubSeqProperties
  <2> QED  BY <1>1, <2>2
<1>3. /\ back \in Seq(S)
      /\ Len(back) = Len(s) - k
      /\ \A j \in 1..(Len(s) - k) : back[j] = s[k + j]
  <2>1. \A j \in (k + 1)..Len(s) : s[j] \in S
    BY <1>1
  <2>2. /\ back \in Seq(S)
        /\ Len(back) = IF k + 1 <= Len(s) THEN Len(s) - (k + 1) + 1 ELSE 0
        /\ \A j \in 1..(Len(s) - (k + 1) + 1) : back[j] = s[(k + 1) + j - 1]
    BY <1>1, <2>1, SubSeqProperties
  <2> QED  BY <1>1, <2>2
<1>4. /\ front \o back \in Seq(S)
      /\ Len(front \o back) = Len(front) + Len(back)
      /\ \A j \in 1..(Len(front) + Len(back)) :
            (front \o back)[j] = IF j <= Len(front) THEN front[j]
                                 ELSE back[j - Len(front)]
  BY <1>2, <1>3, ConcatProperties
<1>5. RemoveAt(s, k) = front \o back
  BY DEF RemoveAt
<1> HIDE DEF front, back
<1>6. \A j \in 1..(Len(s) - 1) :
        (front \o back)[j] = IF j < k THEN s[j] ELSE s[j + 1]
  <2> TAKE j \in 1..(Len(s) - 1)
  <2>1. CASE j < k
    BY <1>1, <1>2, <1>3, <1>4, <2>1
  <2>2. CASE ~(j < k)
    <3>1. (front \o back)[j] = back[j - (k - 1)]
      BY <1>1, <1>2, <1>3, <1>4, <2>2
    <3>2. j - (k - 1) \in 1..(Len(s) - k) /\ k + (j - (k - 1)) = j + 1
      BY <1>1, <2>2
    <3> QED  BY <1>3, <2>2, <3>1, <3>2
  <2> QED  BY <2>1, <2>2
<1>7. front \o back \in Seq(S) /\ Len(front \o back) = Len(s) - 1
  BY <1>1, <1>2, <1>3, <1>4
<1> QED  BY <1>5, <1>6, <1>7, Zenon

(* Removing one place of a list without repetitions takes away exactly     *)
(* that element.                                                           *)
LEMMA RemoveAtOnce ==
    ASSUME NEW S, NEW s \in Seq(S), NEW k \in 1..Len(s), IsInjective(s)
    PROVE  /\ IsInjective(RemoveAt(s, k))
           /\ ToSet(RemoveAt(s, k)) = ToSet(s) \ {s[k]}
<1> DEFINE t == RemoveAt(s, k)
<1>1. Len(s) \in Nat /\ DOMAIN s = 1..Len(s)
  BY LenProperties
<1>2. /\ t \in Seq(S)
      /\ Len(t) = Len(s) - 1
      /\ \A j \in 1..(Len(s) - 1) : t[j] = IF j < k THEN s[j] ELSE s[j + 1]
  BY RemoveAtProperties
<1>3. DOMAIN t = 1..(Len(s) - 1)
  BY <1>2, LenProperties
<1>4. \A i, j \in 1..Len(s) : s[i] = s[j] => i = j
  BY <1>1 DEF IsInjective
<1> HIDE DEF t
<1>5. IsInjective(t)
  <2> SUFFICES ASSUME NEW i \in 1..(Len(s) - 1), NEW j \in 1..(Len(s) - 1), t[i] = t[j]
               PROVE  i = j
    BY <1>3 DEF IsInjective
  <2>1. t[i] = s[IF i < k THEN i ELSE i + 1] /\ t[j] = s[IF j < k THEN j ELSE j + 1]
    BY <1>2
  <2>2. (IF i < k THEN i ELSE i + 1) \in 1..Len(s) /\ (IF j < k THEN j ELSE j + 1) \in 1..Len(s)
    BY <1>1
  <2>3. (IF i < k THEN i ELSE i + 1) = (IF j < k THEN j ELSE j + 1)
    BY <1>4, <2>1, <2>2
  <2> QED  BY <1>1, <2>3
<1>6. ToSet(t) \subseteq ToSet(s) \ {s[k]}
  <2> SUFFICES ASSUME NEW j \in 1..(Len(s) - 1)
               PROVE  t[j] \in ToSet(s) \ {s[k]}
    BY <1>3 DEF ToSet
  <2>1. CASE j < k
    <3>1. t[j] = s[j] /\ j \in 1..Len(s) /\ j # k
      BY <1>1, <1>2, <2>1
    <3> QED  BY <1>1, <1>4, <3>1 DEF ToSet
  <2>2. CASE ~(j < k)
    <3>1. t[j] = s[j + 1] /\ j + 1 \in 1..Len(s) /\ j + 1 # k
      BY <1>1, <1>2, <2>2
    <3> QED  BY <1>1, <1>4, <3>1 DEF ToSet
  <2> QED  BY <2>1, <2>2
<1>7. ToSet(s) \ {s[k]} \subseteq ToSet(t)
  <2> SUFFICES ASSUME NEW i \in 1..Len(s), i # k
               PROVE  s[i] \in ToSet(t)
    BY <1>1 DEF ToSet
  <2>1. CASE i < k
    <3>1. i \in 1..(Len(s) - 1) /\ t[i] = s[i]
      BY <1>1, <1>2, <2>1
    <3> QED  BY <1>3, <3>1 DEF ToSet
  <2>2. CASE i > k
    <3>1. i - 1 \in 1..(Len(s) - 1) /\ t[i - 1] = s[i]
      BY <1>1, <1>2, <2>2
    <3> QED  BY <1>3, <3>1 DEF ToSet
  <2> QED  BY <1>1, <2>1, <2>2
<1> QED  BY <1>5, <1>6, <1>7 DEF t

(* Appending something new to a list without repetitions.                  *)
LEMMA AppendOnce ==
    ASSUME NEW S, NEW s \in Seq(S), NEW e \in S, IsInjective(s), e \notin ToSet(s)
    PROVE  /\ IsInjective(Append(s, e))
           /\ ToSet(Append(s, e)) = ToSet(s) \cup {e}
<1> DEFINE t == Append(s, e)
<1>1. Len(s) \in Nat /\ DOMAIN s = 1..Len(s)
  BY LenProperties
<1>2. /\ t \in Seq(S)
      /\ Len(t) = Len(s) + 1
      /\ \A j \in 1..Len(s) : t[j] = s[j]
      /\ t[Len(s) + 1] = e
  BY AppendProperties
<1>3. DOMAIN t = 1..(Len(s) + 1)
  BY <1>2, LenProperties
<1>4. \A j \in 1..Len(s) : s[j] # e
  BY <1>1 DEF ToSet
<1> HIDE DEF t
<1>5. IsInjective(t)
  <2> SUFFICES ASSUME NEW i \in 1..(Len(s) + 1), NEW j \in 1..(Len(s) + 1), t[i] = t[j]
               PROVE  i = j
    BY <1>3 DEF IsInjective
  <2>1. CASE i \in 1..Len(s) /\ j \in 1..Len(s)
    BY <1>1, <1>2, <2>1 DEF IsInjective
  <2>2. CASE i = Len(s) + 1 /\ j \in 1..Len(s)
    BY <1>1, <1>2, <1>4, <2>2
  <2>3. CASE j = Len(s) + 1 /\ i \in 1..Len(s)
    BY <1>1, <1>2, <1>4, <2>3
  <2> QED  BY <1>1, <2>1, <2>2, <2>3
<1>6. ToSet(t) = ToSet(s) \cup {e}
  BY <1>1, <1>2, <1>3 DEF ToSet
<1> QED  BY <1>5, <1>6 DEF t

-----------------------------------------------------------------------------
(* The inductive invariant.  Two facts strengthen the safety properties:   *)
(* the unmet dependencies recorded for a package are dependencies it has,  *)
(* and, as long as a pass has queued nothing, every item it has passed is  *)
(* blocked and has all that blocks it recorded.                            *)

UnmetAreReal == \A i \in Items : unmetDeps[i] \subseteq DependSet(i)

BlockedAt(n) ==
    /\ DependSet(disarray[n]) \cap Unqueued # {}
    /\ DependSet(disarray[n]) \cap Unqueued \subseteq unmetDeps[disarray[n]]
    /\ hasBinary[disarray[n]] =>
         \A m \in 1..n : ~Mutual(disarray[n], disarray[m])

PassIsBlocked ==
    /\ pc = "base" => ~stuck
    /\ pc = "unresolvable" => stuck
    /\ stuck /\ pc \in {"for", "while", "unresolvable"} =>
         /\ disarray # <<>>
         /\ \A n \in DOMAIN disarray :
                (pc = "for" => n < position) => BlockedAt(n)

IInv ==
    /\ TypeOK
    /\ EveryItemOnce
    /\ RespectsDependencies
    /\ UnmetAreReal
    /\ PassIsBlocked

-----------------------------------------------------------------------------
(* What moving one item from the list to the queue does.                   *)

LEMMA QueueItemEffect ==
    ASSUME TypeOK, EveryItemOnce, NEW k \in DOMAIN disarray, QueueItem(k)
    PROVE  /\ disarray[k] \in Items
           /\ disarray' \in Seq(Items) /\ queue' \in Seq(Items)
           /\ DOMAIN queue = 1..Len(queue) /\ Len(queue) \in Nat
           /\ DOMAIN queue' = 1..(Len(queue) + 1)
           /\ \A n \in 1..Len(queue) : queue'[n] = queue[n]
           /\ queue'[Len(queue) + 1] = disarray[k]
           /\ Unqueued' = Unqueued \ {disarray[k]}
           /\ EveryItemOnce'
<1> DEFINE i == disarray[k]
<1>1. disarray \in Seq(Items) /\ queue \in Seq(Items)
  BY DEF TypeOK
<1>2. /\ DOMAIN disarray = 1..Len(disarray)
      /\ DOMAIN queue = 1..Len(queue) /\ Len(queue) \in Nat
  BY <1>1, LenProperties
<1>3. i \in Items /\ i \in ToSet(disarray)
  BY <1>1, <1>2, ElementOfSeq DEF ToSet
<1>4. /\ IsInjective(disarray) /\ IsInjective(queue)
      /\ i \notin ToSet(queue)
  BY <1>3 DEF EveryItemOnce, Unqueued
<1>5. /\ disarray' \in Seq(Items)
      /\ IsInjective(disarray')
      /\ ToSet(disarray') = ToSet(disarray) \ {i}
  BY <1>1, <1>2, <1>4, RemoveAtProperties, RemoveAtOnce DEF QueueItem
<1>6. /\ queue' \in Seq(Items)
      /\ Len(queue') = Len(queue) + 1
      /\ \A n \in 1..Len(queue) : queue'[n] = queue[n]
      /\ queue'[Len(queue) + 1] = i
  BY <1>1, <1>3, AppendProperties DEF QueueItem
<1>7. IsInjective(queue') /\ ToSet(queue') = ToSet(queue) \cup {i}
  BY <1>1, <1>3, <1>4, AppendOnce DEF QueueItem
<1>8. DOMAIN queue' = 1..(Len(queue) + 1)
  BY <1>6, LenProperties
<1>9. EveryItemOnce'
  BY <1>3, <1>5, <1>7 DEF EveryItemOnce, Unqueued
<1> QED  BY <1>2, <1>3, <1>5, <1>6, <1>8, <1>9 DEF Unqueued

(* An item may be queued when it is a build package, when everything it    *)
(* depends on is in the queue or elsewhere, or when it is excused.         *)
InOrder(i) ==
    \/ i \in ToSet(BuildPackages)
    \/ DependSet(i) \subseteq ToSet(queue) \cup {Elsewhere}
    \/ Excused(i, ToSet(queue))

LEMMA QueueItemRespects ==
    ASSUME TypeOK, EveryItemOnce, RespectsDependencies,
           NEW k \in DOMAIN disarray, QueueItem(k), InOrder(disarray[k]),
           UNCHANGED <<depends, hasBinary>>
    PROVE  RespectsDependencies'
<1> DEFINE before(n) == {queue[m] : m \in 1..(n - 1)}
<1>1. /\ DOMAIN queue = 1..Len(queue) /\ Len(queue) \in Nat
      /\ DOMAIN queue' = 1..(Len(queue) + 1)
      /\ \A n \in 1..Len(queue) : queue'[n] = queue[n]
      /\ queue'[Len(queue) + 1] = disarray[k]
  BY QueueItemEffect
<1>3. ASSUME NEW n \in 1..(Len(queue) + 1)
      PROVE  \/ queue'[n] \in ToSet(BuildPackages)
             \/ DependSet(queue'[n]) \subseteq {queue'[m] : m \in 1..(n - 1)} \cup {Elsewhere}
             \/ hasBinary[queue'[n]]
                /\ \E dep \in Items \ {queue'[m] : m \in 1..(n - 1)} : Mutual(queue'[n], dep)
  <2>1. {queue'[m] : m \in 1..(n - 1)} = before(n)
    BY <1>1, <1>3
  <2>2. CASE n \in 1..Len(queue)
    <3>1. \/ queue[n] \in ToSet(BuildPackages)
          \/ DependSet(queue[n]) \subseteq before(n) \cup {Elsewhere}
          \/ Excused(queue[n], before(n))
      BY <1>1, <2>2 DEF RespectsDependencies
    <3>2. queue'[n] = queue[n]
      BY <1>1, <2>2
    <3> QED  BY <2>1, <3>1, <3>2 DEF Excused
  <2>3. CASE n = Len(queue) + 1
    <3>1. before(n) = ToSet(queue)
      BY <1>1, <2>3 DEF ToSet
    <3>2. queue'[n] = disarray[k]
      BY <1>1, <2>3
    <3> QED  BY <2>1, <3>1, <3>2 DEF InOrder, Excused
  <2> QED  BY <1>1, <2>2, <2>3
<1>4. depends' = depends /\ hasBinary' = hasBinary
  OBVIOUS
<1> QED  BY <1>1, <1>3, <1>4 DEF RespectsDependencies, Excused, DependSet, Mutual

-----------------------------------------------------------------------------
(* The invariant holds initially and every action preserves it.            *)

LEMMA InitEstablishes == Init => IInv
<1> SUFFICES ASSUME Init  PROVE IInv
  OBVIOUS
<1>1. disarray \in Seq(Items) /\ IsInjective(disarray) /\ ToSet(disarray) = Items
  BY OrdersAssumption DEF Init
<1>2. depends \in [Items -> Seq(Targets)]
  <2>1. \A i \in Items : depends[i] \in Seq(Targets)
    BY DependListsAssumption DEF Init
  <2> QED  BY <2>1 DEF Init
<1>3. queue = <<>> /\ queue \in Seq(Items) /\ DOMAIN queue = {}
  BY EmptySeq DEF Init
<1>4. TypeOK
  <2>1. unmetDeps \in [Items -> SUBSET Items]
    BY DEF Init
  <2>2. stuck \in BOOLEAN /\ hasBinary \in [Items -> BOOLEAN]
    BY Zenon DEF Init
  <2>3. position \in Nat \ {0} /\ pc \in {"base", "while", "for"} \cup Outcomes
    BY DEF Init
  <2> QED  BY <1>1, <1>2, <1>3, <2>1, <2>2, <2>3 DEF TypeOK
<1>5. EveryItemOnce
  BY <1>1, <1>3 DEF EveryItemOnce, IsInjective, Unqueued, ToSet
<1>6. RespectsDependencies
  BY <1>3 DEF RespectsDependencies
<1>7. UnmetAreReal /\ PassIsBlocked
  BY DEF Init, UnmetAreReal, PassIsBlocked
<1> QED  BY <1>4, <1>5, <1>6, <1>7 DEF IInv

LEMMA TakeBuildPackagePreserves == IInv /\ TakeBuildPackage => IInv'
<1> SUFFICES ASSUME IInv, TakeBuildPackage  PROVE IInv'
  OBVIOUS
<1> USE DEF IInv
<1>1. /\ UNCHANGED <<depends, hasBinary, unmetDeps, stuck, pc>>
      /\ pc = "base"
      /\ position' = position + 1
  BY DEF TakeBuildPackage
<1>2. UnmetAreReal' /\ PassIsBlocked'
  BY <1>1 DEF UnmetAreReal, PassIsBlocked, DependSet
<1>3. CASE UNCHANGED <<disarray, queue>>
  <2>1. TypeOK' /\ EveryItemOnce'
    BY <1>1, <1>3 DEF TypeOK, EveryItemOnce, Unqueued
  <2>2. RespectsDependencies'
    BY <1>1, <1>3 DEF RespectsDependencies, Excused, Mutual, DependSet
  <2> QED  BY <1>2, <2>1, <2>2
<1>4. ASSUME NEW k \in DOMAIN disarray, disarray[k] = BuildPackages[position], QueueItem(k)
      PROVE  IInv'
  <2>1. disarray' \in Seq(Items) /\ queue' \in Seq(Items) /\ EveryItemOnce'
    BY <1>4, QueueItemEffect
  <2>2. disarray[k] \in ToSet(BuildPackages)
    <3>1. Len(BuildPackages) \in Nat /\ DOMAIN BuildPackages = 1..Len(BuildPackages)
      BY BuildPackagesAssumption, LenProperties
    <3>2. position \in 1..Len(BuildPackages)
      BY <3>1 DEF TakeBuildPackage, TypeOK
    <3> QED  BY <1>4, <3>1, <3>2 DEF ToSet
  <2>3. RespectsDependencies'
    BY <1>1, <1>4, <2>2, QueueItemRespects DEF InOrder
  <2> QED  BY <1>1, <1>2, <2>1, <2>3 DEF TypeOK
<1> QED  BY <1>3, <1>4 DEF TakeBuildPackage

(* The steps that only move the control: the list, the queue and the       *)
(* records stay.                                                           *)
LEMMA ControlPreserves ==
    ASSUME IInv, BuildPackagesTaken \/ StartPass \/ Return \/ EndPass \/ UNCHANGED vars
    PROVE  IInv'
<1> USE DEF IInv
<1>1. UNCHANGED <<depends, hasBinary, disarray, queue, unmetDeps>>
  BY DEF BuildPackagesTaken, StartPass, Return, EndPass, vars
<1>2. TypeOK'
  <2>1. position' \in Nat \ {0}
    BY DEF TypeOK, BuildPackagesTaken, StartPass, Return, EndPass, vars
  <2>2. stuck' \in BOOLEAN
    BY Zenon DEF TypeOK, BuildPackagesTaken, StartPass, Return, EndPass, vars
  <2>3. pc' \in {"base", "while", "for"} \cup Outcomes
    BY DEF TypeOK, Outcomes, BuildPackagesTaken, StartPass, Return, EndPass, vars
  <2> QED  BY <1>1, <2>1, <2>2, <2>3 DEF TypeOK
<1>3. EveryItemOnce' /\ RespectsDependencies' /\ UnmetAreReal'
  BY <1>1 DEF EveryItemOnce, Unqueued, RespectsDependencies, Excused, Mutual, DependSet,
              UnmetAreReal
<1>4. \A n : BlockedAt(n)' <=> BlockedAt(n)
  BY <1>1 DEF BlockedAt, Unqueued, Mutual, DependSet
<1>5. DOMAIN disarray = 1..Len(disarray) /\ Len(disarray) \in Nat
  BY LenProperties DEF TypeOK
<1>6. PassIsBlocked'
  <2>1. CASE BuildPackagesTaken
    <3>1. pc = "base" /\ pc' = "while" /\ stuck' = stuck
      BY <2>1 DEF BuildPackagesTaken
    <3> QED  BY <3>1 DEF PassIsBlocked
  <2>2. CASE StartPass
    <3>1. disarray' # <<>> /\ position' = 1 /\ pc' = "for"
      BY <1>1, <2>2 DEF StartPass
    <3>2. \A n \in DOMAIN disarray' : ~(n < position')
      BY <1>1, <1>5, <3>1
    <3> QED  BY <3>1, <3>2 DEF PassIsBlocked
  <2>3. CASE Return
    <3>1. /\ pc = "while" /\ stuck' = stuck
          /\ pc' = IF stuck THEN "unresolvable" ELSE "done"
      BY <2>3 DEF Return
    <3> QED  BY <1>1, <1>4, <3>1 DEF PassIsBlocked
  <2>4. CASE EndPass
    <3>1. pc = "for" /\ pc' = "while" /\ stuck' = stuck /\ position > Len(disarray)
      BY <2>4 DEF EndPass
    <3>2. \A n \in DOMAIN disarray : n < position
      BY <1>5, <3>1 DEF TypeOK
    <3> QED  BY <1>1, <1>4, <3>1, <3>2 DEF PassIsBlocked
  <2>5. CASE UNCHANGED vars
    BY <1>1, <1>4, <2>5 DEF PassIsBlocked, vars
  <2> QED  BY <2>1, <2>2, <2>3, <2>4, <2>5
<1> QED  BY <1>2, <1>3, <1>6

(* An item postponed in a pass that has queued nothing is blocked: all its *)
(* missing dependencies are recorded, and if it has a binary package, none *)
(* of the items before it, nor itself, depends on it in turn - or their    *)
(* own records would have shown the cycle.                                 *)
LEMMA PostponePreserves ==
    ASSUME IInv, NEW i \in Items, Postpone(i)  PROVE IInv'
<1> USE DEF IInv
<1>1. /\ UNCHANGED <<depends, hasBinary, disarray, queue, stuck, pc>>
      /\ pc = "for"
      /\ position' = position + 1
      /\ position \in DOMAIN disarray /\ disarray[position] = i
      /\ unmetDeps' = [unmetDeps EXCEPT ![i] = @ \cup (DependSet(i) \cap Unqueued)]
      /\ DependSet(i) \cap Unqueued # {}
      /\ RunsThrough(i)
  <2>1. DOMAIN disarray = 1..Len(disarray) /\ Len(disarray) \in Nat
    BY LenProperties DEF TypeOK
  <2> QED  BY <2>1 DEF Postpone, AtItem, TypeOK
<1>2. Unqueued \subseteq Items
  BY DEF EveryItemOnce
<1>3. TypeOK'
  BY <1>1, <1>2 DEF TypeOK
<1>4. EveryItemOnce'
  BY <1>1 DEF EveryItemOnce, Unqueued
<1>5. RespectsDependencies'
  BY <1>1 DEF RespectsDependencies, Excused, Mutual, DependSet
<1>6. UnmetAreReal'
  BY <1>1 DEF UnmetAreReal, DependSet, TypeOK
<1>7. \A j \in Items : unmetDeps[j] \subseteq unmetDeps'[j]
  BY <1>1 DEF TypeOK
<1>8. PassIsBlocked'
  <2>1. SUFFICES ASSUME stuck, NEW n \in DOMAIN disarray, n < position + 1
                 PROVE  BlockedAt(n)'
    BY <1>1 DEF PassIsBlocked
  <2>2. /\ disarray[n] \in Items /\ n \in Nat
        /\ DOMAIN disarray = 1..Len(disarray) /\ Len(disarray) \in Nat
    BY LenProperties, ElementOfSeq DEF TypeOK
  <2>3. \A m \in DOMAIN disarray : m < position => BlockedAt(m)
    BY <1>1, <2>1 DEF PassIsBlocked
  <2>4. CASE n < position
    <3>1. BlockedAt(n)
      BY <2>3, <2>4
    <3> QED  BY <1>1, <1>7, <2>2, <3>1 DEF BlockedAt, Mutual, DependSet, Unqueued
  <2>5. CASE n = position
    <3>1. disarray[n] = i
      BY <1>1, <2>5
    <3>2. DependSet(i) \cap Unqueued \subseteq unmetDeps'[i]
      BY <1>1 DEF TypeOK
    <3>3. ASSUME hasBinary[i], NEW m \in 1..n, Mutual(i, disarray[m])
          PROVE  FALSE
      <4>1. m \in DOMAIN disarray /\ disarray[m] \in DependSet(i)
        BY <2>2, <3>3 DEF Mutual
      <4>2. Missing(disarray[m])
        BY <4>1 DEF Missing, Unqueued, ToSet
      <4>3. ~HasCyclicalDependency(i, disarray[m])
        BY <1>1, <3>3, <4>1, <4>2 DEF RunsThrough, Breaks
      <4>4. m # n
        BY <3>1, <4>3 DEF HasCyclicalDependency
      <4>5. BlockedAt(m)
        BY <2>2, <2>3, <2>5, <3>3, <4>1, <4>4
      <4>6. i \in DependSet(disarray[m]) /\ i \in Unqueued
        BY <2>1, <3>1, <3>3 DEF Mutual, Unqueued, ToSet
      <4>7. i \in unmetDeps[disarray[m]]
        BY <4>5, <4>6 DEF BlockedAt
      <4> QED  BY <4>3, <4>7 DEF HasCyclicalDependency
    <3> QED  BY <1>1, <3>1, <3>2, <3>3 DEF BlockedAt, Mutual, DependSet, Unqueued
  <2> QED  BY <1>1, <2>1, <2>2, <2>4, <2>5 DEF TypeOK
<1> QED  BY <1>3, <1>4, <1>5, <1>6, <1>8

(* An item is queued because it is ready, or because of a cycle that its   *)
(* binary package excuses.                                                 *)
LEMMA QueuePreserves ==
    ASSUME IInv, NEW i \in Items, QueueReady(i) \/ QueueCyclical(i)  PROVE IInv'
<1> USE DEF IInv
<1>1. /\ UNCHANGED <<depends, hasBinary>>
      /\ position \in DOMAIN disarray /\ disarray[position] = i
      /\ QueueItem(position)
      /\ unmetDeps' = [unmetDeps EXCEPT ![i] = {}]
      /\ stuck' = FALSE
      /\ pc' \in {"for", "while"}
      /\ position' \in {position, position + 1}
  <2>1. DOMAIN disarray = 1..Len(disarray) /\ Len(disarray) \in Nat
    BY LenProperties DEF TypeOK
  <2> QED  BY <2>1 DEF QueueReady, QueueCyclical, AtItem, TypeOK
<1>2. disarray' \in Seq(Items) /\ queue' \in Seq(Items) /\ EveryItemOnce'
  BY <1>1, QueueItemEffect
<1>3. TypeOK'
  <2>1. stuck' \in BOOLEAN
    BY <1>1, Zenon
  <2>2. unmetDeps' \in [Items -> SUBSET Items]
    BY <1>1 DEF TypeOK
  <2>3. position' \in Nat \ {0} /\ pc' \in {"base", "while", "for"} \cup Outcomes
    BY <1>1 DEF TypeOK
  <2> QED  BY <1>1, <1>2, <2>1, <2>2, <2>3 DEF TypeOK
<1>4. UnmetAreReal' /\ PassIsBlocked'
  BY <1>1 DEF UnmetAreReal, PassIsBlocked, DependSet, TypeOK
<1>5. InOrder(i)
  <2>1. CASE QueueReady(i)
    <3>1. DependSet(i) \subseteq Targets
      <4>1. depends[i] \in Seq(Targets)
        BY DEF TypeOK
      <4> QED  BY <4>1, ElementOfSeq, LenProperties DEF DependSet, ToSet
    <3>2. NotFound \notin DependSet(i) /\ DependSet(i) \cap Unqueued = {}
      BY <2>1 DEF QueueReady, RunsThrough, Breaks
    <3>3. Items = Unqueued \cup ToSet(queue)
      BY DEF EveryItemOnce
    <3> QED  BY <3>1, <3>2, <3>3 DEF InOrder, Targets
  <2>2. CASE QueueCyclical(i)
    <3>1. PICK dep \in Items : dep \in ExaminedDeps(i) /\ Breaks(i, dep)
      BY <2>2 DEF QueueCyclical, BrokenBy
    <3>2. dep \in DependSet(i)
      BY <3>1 DEF ExaminedDeps, Examined, DependSet, ToSet
    <3>3. Missing(dep) /\ HasCyclicalDependency(i, dep) /\ hasBinary[i]
      BY <3>1, TargetsAssumption DEF Breaks
    <3>4. i \in DependSet(dep)
      BY <3>1, <3>2, <3>3 DEF HasCyclicalDependency, UnmetAreReal
    <3>5. dep \in Items \ ToSet(queue)
      BY <3>1, <3>3 DEF Missing, EveryItemOnce
    <3> QED  BY <3>2, <3>3, <3>4, <3>5 DEF InOrder, Excused, Mutual
  <2> QED  BY <2>1, <2>2
<1>6. RespectsDependencies'
  BY <1>1, <1>5, QueueItemRespects
<1> QED  BY <1>2, <1>3, <1>4, <1>6

LEMMA DependencyNotFoundPreserves ==
    ASSUME IInv, NEW i \in Items, DependencyNotFound(i)  PROVE IInv'
<1> USE DEF IInv
<1>1. /\ UNCHANGED <<depends, hasBinary, disarray, queue, position, stuck>>
      /\ pc' = "dependency_not_found"
      /\ unmetDeps' = [unmetDeps EXCEPT ![i] = @ \cup (ExaminedDeps(i) \cap Unqueued)]
  BY DEF DependencyNotFound
<1>2. Unqueued \subseteq Items
  BY DEF EveryItemOnce
<1>3. TypeOK'
  BY <1>1, <1>2 DEF TypeOK, Outcomes
<1>4. EveryItemOnce'
  BY <1>1 DEF EveryItemOnce, Unqueued
<1>5. RespectsDependencies'
  BY <1>1 DEF RespectsDependencies, Excused, Mutual, DependSet
<1>6. UnmetAreReal' /\ PassIsBlocked'
  <2>1. ExaminedDeps(i) \subseteq DependSet(i)
    BY DEF ExaminedDeps, Examined, DependSet, ToSet
  <2>2. UnmetAreReal'
    BY <1>1, <2>1 DEF UnmetAreReal, DependSet, TypeOK
  <2> QED  BY <1>1, <2>2 DEF PassIsBlocked
<1> QED  BY <1>3, <1>4, <1>5, <1>6

LEMMA NextPreserves == IInv /\ [Next]_vars => IInv'
<1> SUFFICES ASSUME IInv, [Next]_vars  PROVE IInv'
  OBVIOUS
<1>1. CASE TakeBuildPackage
  BY <1>1, TakeBuildPackagePreserves
<1>2. CASE BuildPackagesTaken \/ StartPass \/ Return \/ EndPass \/ UNCHANGED vars
  BY <1>2, ControlPreserves
<1>3. ASSUME NEW i \in Items, ForBody(i)  PROVE IInv'
  BY <1>3, PostponePreserves, QueuePreserves, DependencyNotFoundPreserves DEF ForBody
<1>4. CASE Finished
  BY <1>4, ControlPreserves DEF Finished
<1> QED  BY <1>1, <1>2, <1>3, <1>4 DEF Next

-----------------------------------------------------------------------------
(* The results.                                                            *)

(* The inductive invariant holds in every reachable state.                 *)
THEOREM Invariance == Spec => []IInv
<1> QED  BY InitEstablishes, NextPreserves, PTL DEF Spec

(* The variables have the types TypeOK gives them.                         *)
THEOREM TypeCorrect == Spec => []TypeOK
<1>1. IInv => TypeOK
  BY DEF IInv
<1> QED  BY Invariance, <1>1, PTL

(* No package is lost or queued twice by the loops that remove items from  *)
(* the list they iterate over.                                             *)
THEOREM EveryItemExactlyOnce == Spec => []EveryItemOnce
<1>1. IInv => EveryItemOnce
  BY DEF IInv
<1> QED  BY Invariance, <1>1, PTL

(* Nothing but a build package or an excused member of a cycle is queued   *)
(* before something it depends on.                                         *)
THEOREM OrderRespectsDependencies == Spec => []RespectsDependencies
<1>1. IInv => RespectsDependencies
  BY DEF IInv
<1> QED  BY Invariance, <1>1, PTL

(* The function only gives up when every remaining package waits for a     *)
(* remaining package, with no earlier package in a cycle of two with a     *)
(* package that has a binary.                                              *)
THEOREM OnlyCyclesAreUnresolvable == Spec => []UnresolvableIsBlocked
<1>1. IInv => UnresolvableIsBlocked
  BY DEF IInv, PassIsBlocked, BlockedAt, UnresolvableIsBlocked
<1> QED  BY Invariance, <1>1, PTL

-----------------------------------------------------------------------------
(* prioritise_build_queue() implements CorrectOrder.                        *)

(* What the first loop leaves behind: only build packages are queued while *)
(* it runs, those it has passed are not in the list any more, and after it *)
(* none is.                                                                *)
FirstLoop ==
    /\ pc = "base" =>
         /\ ToSet(queue) \subseteq ToSet(BuildPackages)
         /\ \A m \in 1..(position - 1) : m \in DOMAIN BuildPackages => BuildPackages[m] \notin Unqueued
    /\ pc # "base" => ToSet(BuildPackages) \cap Unqueued = {}

LEMMA BuildPackagesAreSequence ==
    /\ DOMAIN BuildPackages = 1..Len(BuildPackages)
    /\ Len(BuildPackages) \in Nat
BY BuildPackagesAssumption, LenProperties

(* The queue grows by the item that leaves the list.                       *)
LEMMA QueueGrows ==
    ASSUME TypeOK, EveryItemOnce, NEW k \in DOMAIN disarray, QueueItem(k)
    PROVE  /\ ToSet(queue') = ToSet(queue) \cup {disarray[k]}
           /\ Unqueued' = Unqueued \ {disarray[k]}
           /\ disarray[k] \in Unqueued
<1>1. disarray[k] \in Items /\ Unqueued' = Unqueued \ {disarray[k]}
  BY QueueItemEffect
<1>2. disarray[k] \in Unqueued
  BY DEF Unqueued, ToSet
<1>3. queue \in Seq(Items) /\ IsInjective(queue) /\ disarray[k] \notin ToSet(queue)
  BY <1>2 DEF TypeOK, EveryItemOnce
<1>4. ToSet(queue') = ToSet(queue) \cup {disarray[k]}
  BY <1>1, <1>3, AppendOnce DEF QueueItem
<1> QED  BY <1>1, <1>2, <1>4

LEMMA FirstLoopInitially == Init => FirstLoop
<1> SUFFICES ASSUME Init  PROVE FirstLoop
  OBVIOUS
<1>1. ToSet(queue) = {}
  BY EmptySeq DEF Init, ToSet
<1> QED  BY <1>1 DEF Init, FirstLoop

LEMMA FirstLoopPreserved == IInv /\ FirstLoop /\ [Next]_vars => FirstLoop'
<1> SUFFICES ASSUME IInv, FirstLoop, [Next]_vars  PROVE FirstLoop'
  OBVIOUS
<1> USE DEF IInv
<1>0. position \in Nat \ {0}
  BY DEF TypeOK
<1>1. CASE TakeBuildPackage
  <2>1. pc = "base" /\ pc' = "base" /\ position' = position + 1
    BY <1>1 DEF TakeBuildPackage
  <2>2. position \in DOMAIN BuildPackages
    BY <1>0, <1>1, BuildPackagesAreSequence DEF TakeBuildPackage
  <2>3. CASE UNCHANGED <<disarray, queue>> /\ BuildPackages[position] \notin Unqueued
    <3>1. Unqueued' = Unqueued /\ ToSet(queue') = ToSet(queue)
      BY <2>3 DEF Unqueued
    <3>2. \A m \in 1..(position' - 1) : m \in 1..(position - 1) \/ m = position
      BY <1>0, <2>1
    <3> QED  BY <2>1, <2>3, <3>1, <3>2 DEF FirstLoop
  <2>4. ASSUME NEW k \in DOMAIN disarray, disarray[k] = BuildPackages[position], QueueItem(k)
        PROVE  FirstLoop'
    <3>1. /\ ToSet(queue') = ToSet(queue) \cup {BuildPackages[position]}
          /\ Unqueued' = Unqueued \ {BuildPackages[position]}
      BY <2>4, QueueGrows
    <3>2. BuildPackages[position] \in ToSet(BuildPackages)
      BY <2>2 DEF ToSet
    <3>3. \A m \in 1..(position' - 1) : m \in 1..(position - 1) \/ m = position
      BY <1>0, <2>1
    <3> QED  BY <2>1, <3>1, <3>2, <3>3 DEF FirstLoop
  <2> QED  BY <1>1, <2>3, <2>4 DEF TakeBuildPackage
<1>2. CASE BuildPackagesTaken
  <2>1. pc = "base" /\ pc' = "while" /\ disarray' = disarray /\ position > Len(BuildPackages)
    BY <1>2 DEF BuildPackagesTaken
  <2>2. Unqueued' = Unqueued
    BY <2>1 DEF Unqueued
  <2>3. \A m \in DOMAIN BuildPackages : BuildPackages[m] \notin Unqueued
    BY <1>0, <2>1, BuildPackagesAreSequence DEF FirstLoop
  <2> QED  BY <2>1, <2>2, <2>3 DEF FirstLoop, ToSet
<1>3. CASE StartPass \/ Return \/ EndPass
  <2>1. pc # "base" /\ pc' # "base" /\ disarray' = disarray
    BY <1>3 DEF StartPass, Return, EndPass
  <2> QED  BY <2>1 DEF FirstLoop, Unqueued
<1>4. CASE Finished \/ UNCHANGED vars
  BY <1>4 DEF Finished, vars, FirstLoop, Unqueued
<1>5. ASSUME NEW i \in Items, ForBody(i)  PROVE FirstLoop'
  <2>1. pc = "for" /\ pc' # "base"
    BY <1>5 DEF ForBody, DependencyNotFound, QueueCyclical, Postpone, QueueReady, AtItem
  <2>2. CASE DependencyNotFound(i) \/ Postpone(i)
    BY <2>1, <2>2 DEF DependencyNotFound, Postpone, FirstLoop, Unqueued
  <2>3. CASE QueueCyclical(i) \/ QueueReady(i)
    <3>1. position \in DOMAIN disarray /\ QueueItem(position)
      <4>1. DOMAIN disarray = 1..Len(disarray) /\ Len(disarray) \in Nat
        BY LenProperties DEF TypeOK
      <4> QED  BY <1>0, <2>3, <4>1 DEF QueueCyclical, QueueReady, AtItem
    <3>2. Unqueued' \subseteq Unqueued
      BY <3>1, QueueGrows
    <3> QED  BY <2>1, <3>2 DEF FirstLoop
  <2> QED  BY <1>5, <2>2, <2>3 DEF ForBody
<1> QED  BY <1>1, <1>2, <1>3, <1>4, <1>5 DEF Next

-----------------------------------------------------------------------------
(* The steps of the abstract specification.                                *)

LEMMA SameToSet == \A s : Abstract!ToSet(s) = ToSet(s)
BY DEF ToSet, Abstract!ToSet

LEMMA UnplacedIsUnqueued ==
    ASSUME EveryItemOnce  PROVE Abstract!Unplaced = Unqueued
BY SameToSet DEF EveryItemOnce, Abstract!Unplaced

(* Queueing an item that may follow what is in the queue is Place.         *)
LEMMA QueueItemPlaces ==
    ASSUME TypeOK, EveryItemOnce, NEW k \in DOMAIN disarray, QueueItem(k),
           UNCHANGED <<depends, hasBinary>>, pc \notin Outcomes, pc' \notin Outcomes,
           Abstract!MayFollow(disarray[k], ToSet(queue))
    PROVE  Abstract!Place
<1>1. disarray[k] \in Abstract!Unplaced
  BY QueueGrows, UnplacedIsUnqueued
<1>2. queue' = Append(queue, disarray[k])
  BY DEF QueueItem
<1>3. [i \in Items |-> DependSet(i)]' = [i \in Items |-> DependSet(i)]
  BY DEF DependSet
<1>4. {i \in Items : hasBinary[i]}' = {i \in Items : hasBinary[i]}
  OBVIOUS
<1> QED  BY <1>1, <1>2, <1>3, <1>4, SameToSet DEF Abstract!Place

LEMMA ReadyMayFollow ==
    ASSUME IInv, FirstLoop, NEW i \in Items, QueueReady(i) \/ QueueCyclical(i)
    PROVE  Abstract!MayFollow(i, ToSet(queue))
<1> USE DEF IInv
<1>1. Items = Unqueued \cup ToSet(queue) /\ Unqueued \cap ToSet(queue) = {}
  BY DEF EveryItemOnce
<1>2. Abstract!FirstPlaced(ToSet(queue))
  <2>1. pc # "base"
    BY DEF QueueReady, QueueCyclical, AtItem
  <2> QED  BY <1>1, <2>1, SameToSet DEF FirstLoop, Abstract!FirstPlaced
<1>3. CASE QueueReady(i)
  <2>1. DependSet(i) \subseteq Targets
    <3>1. depends[i] \in Seq(Targets)
      BY DEF TypeOK
    <3> QED  BY <3>1, ElementOfSeq, LenProperties DEF DependSet, ToSet
  <2>2. NotFound \notin DependSet(i) /\ DependSet(i) \cap Unqueued = {}
    BY <1>3 DEF QueueReady, RunsThrough, Breaks
  <2>3. DependSet(i) \subseteq ToSet(queue) \cup {Elsewhere}
    BY <1>1, <2>1, <2>2 DEF Targets
  <2> QED  BY <1>2, <2>3 DEF Abstract!MayFollow
<1>4. CASE QueueCyclical(i)
  <2>1. PICK dep \in Items : dep \in ExaminedDeps(i) /\ Breaks(i, dep)
    BY <1>4 DEF QueueCyclical, BrokenBy
  <2>2. dep \in DependSet(i)
    BY <2>1 DEF ExaminedDeps, Examined, DependSet, ToSet
  <2>3. Missing(dep) /\ HasCyclicalDependency(i, dep) /\ hasBinary[i]
    BY <2>1, TargetsAssumption DEF Breaks
  <2>4. i \in DependSet(dep)
    BY <2>1, <2>2, <2>3 DEF HasCyclicalDependency, UnmetAreReal
  <2>5. dep \in Items \ ToSet(queue)
    BY <1>1, <2>1, <2>3 DEF Missing
  <2>6. Abstract!Mutual(i, dep)
    BY <2>2, <2>4 DEF Abstract!Mutual
  <2>7. Abstract!BreaksCycle(i, ToSet(queue))
    BY <2>3, <2>5, <2>6 DEF Abstract!BreaksCycle
  <2> QED  BY <1>2, <2>7 DEF Abstract!MayFollow
<1> QED  BY <1>3, <1>4

LEMMA BuildPackageMayFollow ==
    ASSUME IInv, FirstLoop, TakeBuildPackage, BuildPackages[position] \in Items
    PROVE  Abstract!MayFollow(BuildPackages[position], ToSet(queue))
<1> USE DEF IInv
<1>1. pc = "base" /\ position \in DOMAIN BuildPackages
  BY BuildPackagesAreSequence DEF TakeBuildPackage, TypeOK
<1>2. Items = Unqueued \cup ToSet(queue)
  BY DEF EveryItemOnce
<1>3. ToSet(queue) \subseteq ToSet(BuildPackages)
  BY <1>1 DEF FirstLoop
<1>4. \A m \in 1..(position - 1) : BuildPackages[m] \in Items => BuildPackages[m] \in ToSet(queue)
  <2>1. \A m \in 1..(position - 1) : m \in DOMAIN BuildPackages
    BY <1>1, BuildPackagesAreSequence
  <2> QED  BY <1>1, <1>2, <2>1 DEF FirstLoop
<1> QED  BY <1>1, <1>3, <1>4, SameToSet DEF Abstract!MayFollow

(* Giving up is Conclude, for the reasons it may have.                     *)
LEMMA UnresolvableIsAbstractlyBlocked ==
    ASSUME IInv, pc = "while", stuck
    PROVE  Abstract!Blocked
<1> USE DEF IInv
<1>1. /\ disarray # <<>>
      /\ \A n \in DOMAIN disarray : BlockedAt(n)
  BY DEF PassIsBlocked
<1>2. disarray \in Seq(Items) /\ Unqueued \subseteq Items
  BY DEF TypeOK, EveryItemOnce
<1>3. DOMAIN disarray = 1..Len(disarray) /\ Len(disarray) \in Nat
  BY <1>2, LenProperties
<1>4. \A i \in Unqueued : \E n \in DOMAIN disarray : disarray[n] = i
  BY DEF Unqueued, ToSet
<1>5. Abstract!Unplaced = Unqueued
  BY UnplacedIsUnqueued
<1>6. Unqueued # {}
  <2>1. Len(disarray) # 0
    BY <1>1, <1>2, EmptySeq
  <2>2. 1 \in DOMAIN disarray
    BY <1>3, <2>1
  <2>3. disarray[1] \in Unqueued
    BY <2>2 DEF Unqueued, ToSet
  <2> QED  BY <2>3
<1>7. \A i \in Unqueued : DependSet(i) \cap Unqueued # {}
  BY <1>1, <1>4 DEF BlockedAt
<1>8. ASSUME NEW i \in Unqueued, NEW j \in Unqueued, Mutual(i, j), hasBinary[i], hasBinary[j]
      PROVE  FALSE
  <2>1. PICK n \in DOMAIN disarray : disarray[n] = i
    BY <1>4
  <2>2. PICK m \in DOMAIN disarray : disarray[m] = j
    BY <1>4
  <2>3. CASE m <= n
    BY <1>1, <1>3, <1>8, <2>1, <2>2, <2>3 DEF BlockedAt
  <2>4. CASE n <= m
    <3>1. Mutual(j, i)
      BY <1>8 DEF Mutual
    <3> QED  BY <1>1, <1>3, <1>8, <2>1, <2>2, <2>4, <3>1 DEF BlockedAt
  <2> QED  BY <1>3, <2>1, <2>2, <2>3, <2>4
<1>9. \A i \in Items : [j \in Items |-> DependSet(j)][i] = DependSet(i)
  OBVIOUS
<1>10. \A i, j \in Unqueued : Abstract!Mutual(i, j) => Mutual(i, j)
  BY <1>2, <1>9 DEF Abstract!Mutual, Mutual
<1> QED  BY <1>2, <1>5, <1>6, <1>7, <1>8, <1>9, <1>10 DEF Abstract!Blocked

LEMMA InitRefines == Init => Abstract!Init
BY DEF Init, Abstract!Init, Outcomes

LEMMA StepRefines == IInv /\ FirstLoop /\ [Next]_vars => [Abstract!Next]_(Abstract!vars)
<1> SUFFICES ASSUME IInv, FirstLoop, [Next]_vars
             PROVE  Abstract!Next \/ UNCHANGED Abstract!vars
  OBVIOUS
<1> USE DEF IInv
<1>1. /\ depends' = depends /\ hasBinary' = hasBinary
      /\ [i \in Items |-> DependSet(i)]' = [i \in Items |-> DependSet(i)]
      /\ {i \in Items : hasBinary[i]}' = {i \in Items : hasBinary[i]}
  <2>1. depends' = depends /\ hasBinary' = hasBinary
    BY DEF Next, TakeBuildPackage, BuildPackagesTaken, StartPass, Return, EndPass, ForBody,
           DependencyNotFound, QueueCyclical, Postpone, QueueReady, Finished, vars
  <2> QED  BY <2>1 DEF DependSet
<1>2. ASSUME queue' = queue, (pc \in Outcomes \/ pc' \in Outcomes) => pc' = pc
      PROVE  UNCHANGED Abstract!vars
  BY <1>1, <1>2 DEF Abstract!vars
<1>3. CASE TakeBuildPackage
  <2>1. pc' = pc /\ pc \notin Outcomes
    BY <1>3 DEF TakeBuildPackage, Outcomes
  <2>2. ASSUME NEW k \in DOMAIN disarray, disarray[k] = BuildPackages[position], QueueItem(k)
        PROVE  Abstract!Place
    <3>1. BuildPackages[position] \in Items
      BY <2>2, QueueItemEffect
    <3>2. Abstract!MayFollow(disarray[k], ToSet(queue))
      BY <1>3, <2>2, <3>1, BuildPackageMayFollow
    <3> QED  BY <1>1, <2>1, <2>2, <3>2, QueueItemPlaces
  <2>3. CASE queue' = queue
    BY <1>2, <2>1, <2>3
  <2> QED  BY <1>3, <2>2, <2>3 DEF TakeBuildPackage, Abstract!Next
<1>4. CASE BuildPackagesTaken \/ StartPass \/ EndPass
  <2>1. queue' = queue /\ pc \notin Outcomes /\ pc' \notin Outcomes
    BY <1>4 DEF BuildPackagesTaken, StartPass, EndPass, Outcomes
  <2> QED  BY <1>2, <2>1
<1>5. CASE Finished \/ UNCHANGED vars
  <2>1. queue' = queue /\ pc' = pc
    BY <1>5 DEF Finished, vars
  <2> QED  BY <1>2, <2>1
<1>6. CASE Return
  <2>1. /\ pc = "while" /\ queue' = queue
        /\ disarray = <<>> \/ stuck
        /\ stuck => pc' = "unresolvable"
        /\ ~stuck => pc' = "done"
    BY <1>6, Zenon DEF Return
  <2>2. pc \notin Outcomes /\ pc' \in Outcomes
    <3>1. pc' \in {"unresolvable", "done"}
      BY <2>1, Zenon
    <3> QED  BY <2>1, <3>1 DEF Outcomes
  <2>3. CASE stuck
    <3>1. pc' = "unresolvable" /\ queue' = queue
      BY <2>1, <2>3
    <3>2. Abstract!Blocked
      BY <2>1, <2>3, UnresolvableIsAbstractlyBlocked
    <3> QED  BY <1>1, <2>2, <3>1, <3>2 DEF Abstract!Conclude, Abstract!Next
  <2>4. CASE ~stuck
    <3>1. Unqueued = {}
      BY <2>1, <2>4, EmptySeq DEF Unqueued, ToSet
    <3>2. Abstract!Unplaced = {}
      BY <3>1, UnplacedIsUnqueued
    <3> QED  BY <1>1, <2>1, <2>2, <2>4, <3>2 DEF Abstract!Conclude, Abstract!Next
  <2> QED  BY <2>3, <2>4
<1>7. ASSUME NEW i \in Items, ForBody(i)
      PROVE  Abstract!Next \/ UNCHANGED Abstract!vars
  <2>1. pc \notin Outcomes /\ position \in DOMAIN disarray /\ disarray[position] = i
    <3>1. DOMAIN disarray = 1..Len(disarray) /\ Len(disarray) \in Nat
      BY LenProperties DEF TypeOK
    <3> QED  BY <1>7, <3>1 DEF ForBody, DependencyNotFound, QueueCyclical, Postpone, QueueReady,
                               AtItem, TypeOK, Outcomes
  <2>2. CASE Postpone(i)
    <3>1. queue' = queue /\ pc' = pc
      BY <2>2 DEF Postpone
    <3> QED  BY <1>2, <2>1, <3>1
  <2>3. CASE QueueReady(i) \/ QueueCyclical(i)
    <3>1. QueueItem(position) /\ pc' \notin Outcomes
      BY <2>1, <2>3 DEF QueueReady, QueueCyclical, Outcomes
    <3>2. Abstract!MayFollow(i, ToSet(queue))
      BY <2>3, ReadyMayFollow
    <3> QED  BY <1>1, <2>1, <3>1, <3>2, QueueItemPlaces DEF Abstract!Next
  <2>4. CASE DependencyNotFound(i)
    <3>1. pc' = "dependency_not_found" /\ queue' = queue
      BY <2>4 DEF DependencyNotFound
    <3>2. NotFound \in DependSet(i)
      BY <2>4 DEF DependencyNotFound, BrokenBy, ExaminedDeps, Examined, DependSet, ToSet
    <3>3. i \in Abstract!Unplaced
      BY <2>1, UnplacedIsUnqueued DEF Unqueued, ToSet
    <3>4. pc' \in Outcomes
      BY <3>1 DEF Outcomes
    <3> QED  BY <1>1, <2>1, <3>1, <3>2, <3>3, <3>4 DEF Abstract!Conclude, Abstract!Next
  <2> QED  BY <1>7, <2>2, <2>3, <2>4 DEF ForBody
<1> QED  BY <1>3, <1>4, <1>5, <1>6, <1>7 DEF Next

(* The function implements the abstract specification: places are only     *)
(* added, each to an item that may follow those before it, build packages  *)
(* first and in their order, and it ends for one of the reasons it states. *)
THEOREM Refinement == Spec => ImplementsCorrectOrder
<1>1. Init => Abstract!Init /\ FirstLoop
  BY InitRefines, FirstLoopInitially
<1>2. IInv /\ FirstLoop /\ [Next]_vars => FirstLoop'
  BY FirstLoopPreserved
<1>3. IInv /\ FirstLoop /\ [Next]_vars => [Abstract!Next]_(Abstract!vars)
  BY StepRefines
<1> QED  BY <1>1, <1>2, <1>3, Invariance, PTL DEF Spec, ImplementsCorrectOrder, Abstract!Spec
=============================================================================
