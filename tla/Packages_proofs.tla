-------------------------- MODULE Packages_proofs --------------------------
(***************************************************************************)
(* Proofs about packages(), for all packages, dependencies, repositories,  *)
(* requests and options, and any number of calls in one or more processes. *)
(***************************************************************************)
EXTENDS Packages, SequenceTheorems, FiniteSetTheorems, TLAPS

PCs == {"idle", "process", "walk", "helpers", "prioritise", "check", "build"} \cup Errors

(* The build list has no package twice, before and after it is sorted, and *)
(* every package that is still to be built has a reason to be there.       *)
QueueJustified ==
    /\ IsInjective(queue)
    /\ \A k \in DOMAIN queue :
          \/ k < position
          \/ Necessary(queue[k])
          \/ mode.force /\ queue[k] \in RequestedPackages

(* Where the steps of a call leave the variables of the others. *)
StepsInOrder ==
    /\ ToSet(todo) \subseteq ToSet(pkgnames)
    /\ pc \notin {"idle", "build", "build_failed"} => position = 1
    /\ pc # "walk" => pending = <<>>
    /\ pc \in {"helpers", "prioritise", "check", "build"} => todo = <<>>
    /\ pc \in {"prioritise", "check", "build"} => mode.src \/ helper > Len(BuildPackages)
    /\ pc = "idle" => visited = {} \/ queue = <<>>

(* What is needed of a package has been done, or is in the build list. *)
Handled(n) == MainPackage[n] # None => ~Necessary(MainPackage[n]) \/ MainPackage[n] \in ToSet(queue)

(* A name that was visited needs nothing any more, in this call and, if    *)
(* the cache is kept, in the next one.                                     *)
VisitedHandled == \A n \in visited \ (Helpers \cup DOMAIN Substitute) : Handled(n)

(* The same goes for the build packages that were checked. *)
HelpersHandled == \A k \in DOMAIN BuildPackages :
                    k < helper /\ BuildPackages[k] \notin ToSet(pkgnames) => Handled(BuildPackages[k])

(* A request was visited, unless it is still to be processed; with --force *)
(* it is in the build list.                                                *)
RequestsProcessed ==
    pc # "idle" =>
        \A n \in ToSet(pkgnames) \ ToSet(todo) :
            MainPackage[n] # None =>
                /\ n \in visited
                /\ mode.force /\ MainPackage[n] \notin Unbuildable => MainPackage[n] \in ToSet(queue)

(* The dependencies of what is in the build list were visited, or will be. *)
WalkClosed ==
    pc # "idle" =>
        \A p \in ToSet(queue) \ Helpers : ToSet(depends[p]) \subseteq visited \cup ToSet(pending)

(* The part of the build list that is left is in a correct order, what is  *)
(* before it is built.                                                     *)
RestInOrder ==
    /\ pc \in {"check", "build"} =>
          \A k \in DOMAIN queue : position <= k /\ queue[k] \notin Helpers =>
                MayFollow(queue[k], {queue[m] : m \in 1..(k - 1)})
    /\ \A k \in 1..(position - 1) : ~Necessary(queue[k])

IInv ==
    /\ TypeOK /\ QueueJustified /\ StepsInOrder /\ VisitedHandled /\ HelpersHandled
    /\ RequestsProcessed /\ WalkClosed /\ RestInOrder /\ RequestsServed

-----------------------------------------------------------------------------
(* Lemmas about the build list.                                            *)

LEMMA SeqFacts ==
    ASSUME NEW S, NEW s \in Seq(S)
    PROVE  /\ Len(s) \in Nat /\ DOMAIN s = 1..Len(s)
           /\ \A k \in 1..Len(s) : s[k] \in S
           /\ ToSet(s) \subseteq S
  BY LenProperties, ElementOfSeq DEF ToSet

(* What pop(0) takes away.                                                 *)
LEMMA TailFacts ==
    ASSUME NEW S, NEW s \in Seq(S), s # <<>>
    PROVE  /\ Head(s) \in ToSet(s) /\ Tail(s) \in Seq(S)
           /\ ToSet(s) = {Head(s)} \cup ToSet(Tail(s))
<1>1. /\ Len(s) \in Nat \ {0} /\ DOMAIN s = 1..Len(s)
      /\ Head(s) = s[1]
      /\ Tail(s) \in Seq(S) /\ Len(Tail(s)) = Len(s) - 1
      /\ \A i \in 1..Len(Tail(s)) : Tail(s)[i] = s[i + 1]
  BY LenProperties, EmptySeq, HeadTailProperties
<1>2. DOMAIN Tail(s) = 1..(Len(s) - 1)
  BY <1>1, LenProperties
<1>3. s[1] \in ToSet(s)
  BY <1>1 DEF ToSet
<1>4. ToSet(Tail(s)) \subseteq ToSet(s)
  BY <1>1, <1>2 DEF ToSet
<1>5. \A i \in 1..Len(s) : i = 1 \/ s[i] \in ToSet(Tail(s))
  <2> SUFFICES ASSUME NEW i \in 1..Len(s), i # 1
               PROVE  s[i] \in ToSet(Tail(s))
    OBVIOUS
  <2>1. i - 1 \in 1..(Len(s) - 1) /\ (i - 1) + 1 = i
    BY <1>1
  <2> QED  BY <1>1, <1>2, <2>1 DEF ToSet
<1> QED  BY <1>1, <1>3, <1>4, <1>5 DEF ToSet

LEMMA ConcatFacts ==
    ASSUME NEW S, NEW s \in Seq(S), NEW t \in Seq(S)
    PROVE  s \o t \in Seq(S) /\ ToSet(s \o t) = ToSet(s) \cup ToSet(t)
<1>1. /\ s \o t \in Seq(S) /\ Len(s \o t) = Len(s) + Len(t)
      /\ \A i \in 1..(Len(s) + Len(t)) :
            (s \o t)[i] = IF i <= Len(s) THEN s[i] ELSE t[i - Len(s)]
  BY ConcatProperties
<1>2. /\ Len(s) \in Nat /\ Len(t) \in Nat
      /\ DOMAIN s = 1..Len(s) /\ DOMAIN t = 1..Len(t) /\ DOMAIN (s \o t) = 1..(Len(s) + Len(t))
  BY <1>1, SeqFacts
<1> DEFINE u == s \o t
<1> HIDE DEF u
<1>3. ToSet(u) \subseteq ToSet(s) \cup ToSet(t)
  <2> SUFFICES ASSUME NEW i \in 1..(Len(s) + Len(t))
               PROVE  u[i] \in ToSet(s) \cup ToSet(t)
    BY <1>2 DEF ToSet, u
  <2>1. CASE i <= Len(s)
    BY <1>1, <1>2, <2>1 DEF ToSet, u
  <2>2. CASE ~(i <= Len(s))
    <3>1. i - Len(s) \in 1..Len(t) /\ u[i] = t[i - Len(s)]
      BY <1>1, <1>2, <2>2 DEF u
    <3> QED  BY <1>2, <3>1 DEF ToSet
  <2> QED  BY <2>1, <2>2
<1>4. ToSet(s) \subseteq ToSet(u)
  <2> SUFFICES ASSUME NEW i \in 1..Len(s)
               PROVE  s[i] \in ToSet(u)
    BY <1>2 DEF ToSet
  <2>1. i \in 1..(Len(s) + Len(t)) /\ u[i] = s[i]
    BY <1>1, <1>2 DEF u
  <2> QED  BY <1>2, <2>1 DEF ToSet, u
<1>5. ToSet(t) \subseteq ToSet(u)
  <2> SUFFICES ASSUME NEW i \in 1..Len(t)
               PROVE  t[i] \in ToSet(u)
    BY <1>2 DEF ToSet
  <2>1. Len(s) + i \in 1..(Len(s) + Len(t)) /\ ~(Len(s) + i <= Len(s)) /\ (Len(s) + i) - Len(s) = i
    BY <1>2
  <2>2. u[Len(s) + i] = t[i]
    BY <1>1, <2>1 DEF u
  <2> QED  BY <1>2, <2>1, <2>2 DEF ToSet, u
<1> QED  BY <1>1, <1>3, <1>4, <1>5 DEF u

LEMMA ReverseFacts ==
    ASSUME NEW S, NEW s \in Seq(S)
    PROVE  Reverse(s) \in Seq(S)
<1>1. Len(s) \in Nat /\ \A k \in 1..Len(s) : s[k] \in S
  BY SeqFacts
<1>2. \A i \in 1..Len(s) : (Len(s) - i) + 1 \in 1..Len(s)
  BY <1>1
<1>3. Reverse(s) \in [1..Len(s) -> S]
  BY <1>1, <1>2 DEF Reverse
<1> QED  BY <1>1, <1>3, SeqDef

(* queue_build() adds a package at the end, unless it is in the list.      *)
LEMMA QueueBuildFacts ==
    ASSUME TypeOK, IsInjective(queue), NEW p \in Pkgs, QueueBuild(p)
    PROVE  /\ queue' \in Seq(Pkgs) /\ built' \subseteq Pkgs
           /\ Len(queue) <= Len(queue')
           /\ IsInjective(queue')
           /\ ToSet(queue') = ToSet(queue) \cup {p}
           /\ \A k \in DOMAIN queue' :
                 queue'[k] = p \/ (k \in DOMAIN queue /\ queue'[k] = queue[k])
<1>1. queue \in Seq(Pkgs) /\ built \subseteq Pkgs
  BY DEF TypeOK
<1>2. Len(queue) \in Nat /\ DOMAIN queue = 1..Len(queue)
  BY <1>1, SeqFacts
<1>3. CASE p \in ToSet(queue)
  BY <1>1, <1>2, <1>3 DEF QueueBuild
<1>4. CASE p \notin ToSet(queue)
  <2>1. queue' = Append(queue, p) /\ built' \in {built \cup {p}, built}
    BY <1>4 DEF QueueBuild
  <2> DEFINE new == Append(queue, p)
  <2>2. /\ new \in Seq(Pkgs) /\ Len(new) = Len(queue) + 1
        /\ \A k \in 1..Len(queue) : new[k] = queue[k]
        /\ new[Len(queue) + 1] = p
    BY <1>1, AppendProperties
  <2>3. DOMAIN new = 1..(Len(queue) + 1)
    BY <2>2, SeqFacts
  <2> HIDE DEF new
  <2>4. \A k \in 1..(Len(queue) + 1) : new[k] = p \/ (k \in 1..Len(queue) /\ new[k] = queue[k])
    BY <1>2, <2>2
  <2>5. \A k \in 1..Len(queue) : queue[k] # p
    BY <1>2, <1>4 DEF ToSet
  <2>6. IsInjective(new)
    <3> SUFFICES ASSUME NEW i \in 1..(Len(queue) + 1), NEW j \in 1..(Len(queue) + 1), new[i] = new[j]
                 PROVE  i = j
      BY <2>3 DEF IsInjective
    <3>1. CASE i \in 1..Len(queue) /\ j \in 1..Len(queue)
      BY <1>2, <2>2, <3>1 DEF IsInjective
    <3>2. CASE ~(i \in 1..Len(queue) /\ j \in 1..Len(queue))
      BY <1>2, <2>2, <2>5, <3>2
    <3> QED  BY <3>1, <3>2
  <2>7. ToSet(new) \subseteq ToSet(queue) \cup {p}
    BY <1>2, <2>3, <2>4 DEF ToSet
  <2>8. p \in ToSet(new)
    <3>1. Len(queue) + 1 \in DOMAIN new
      BY <1>2, <2>3
    <3> QED  BY <2>2, <3>1 DEF ToSet
  <2>9. ToSet(queue) \subseteq ToSet(new)
    <3>1. \A k \in 1..Len(queue) : k \in DOMAIN new /\ new[k] = queue[k]
      BY <1>2, <2>2, <2>3
    <3> QED  BY <1>2, <3>1 DEF ToSet
  <2> QED
    BY <1>1, <1>2, <2>1, <2>2, <2>3, <2>4, <2>6, <2>7, <2>8, <2>9 DEF new
<1> QED  BY <1>3, <1>4

(* Sorting loses no package and doubles none.                              *)
LEMMA CorrectOrderFacts ==
    ASSUME TypeOK, NEW order \in CorrectOrders
    PROVE  /\ order \in Seq(Pkgs)
           /\ IsInjective(order)
           /\ ToSet(order) = ToSet(queue)
<1> DEFINE S == ToSet(queue)
           D == 1..Cardinality(S)
<1>1. queue \in Seq(Pkgs)
  BY DEF TypeOK
<1>2. S \subseteq Pkgs /\ Len(queue) \in Nat /\ DOMAIN queue = 1..Len(queue)
  BY <1>1, SeqFacts
<1>3. IsFiniteSet(S)
  <2>1. IsFiniteSet(1..Len(queue))
    BY <1>2, FS_Interval
  <2>2. queue \in Surjection(1..Len(queue), S)
    BY <1>1, <1>2 DEF Surjection, ToSet
  <2> QED  BY <2>1, <2>2, FS_Surjection
<1>4. Cardinality(S) \in Nat
  BY <1>3, FS_CardinalityType
<1>5. order \in [D -> S] /\ \A i, j \in D : i # j => order[i] # order[j]
  BY DEF CorrectOrders, SetToSeqs
<1>6. order \in Injection(D, S)
  <2>1. IsInjective(order)
    BY <1>5 DEF IsInjective
  <2> QED  BY <1>5, <2>1 DEF Injection
<1>7. IsFiniteSet(D) /\ Cardinality(D) = Cardinality(S)
  <2>1. Cardinality(D) = IF 1 > Cardinality(S) THEN 0 ELSE Cardinality(S) - 1 + 1
    BY <1>4, FS_Interval
  <2> QED  BY <1>4, <2>1, FS_Interval
<1> HIDE DEF S, D
<1>8. order \in Surjection(D, S)
  BY <1>3, <1>6, <1>7, FS_Injection
<1>9. DOMAIN order = D
  BY <1>5
<1>10. ToSet(order) = S
  BY <1>5, <1>8, <1>9 DEF Surjection, ToSet
<1>11. IsInjective(order)
  BY <1>5, <1>9 DEF IsInjective
<1>12. order \in Seq(Pkgs)
  <2>1. order \in [1..Cardinality(S) -> Pkgs]
    BY <1>2, <1>5 DEF D
  <2> QED  BY <1>4, <2>1, SeqDef
<1> QED  BY <1>10, <1>11, <1>12 DEF S

-----------------------------------------------------------------------------
(* Lemmas about what the steps have in common.                             *)

LEMMA EmptyFacts ==
    /\ DOMAIN <<>> = {} /\ ToSet(<<>>) = {} /\ Len(<<>>) = 0
    /\ <<>> \in Seq(Names) /\ <<>> \in Seq(Pkgs) /\ IsInjective(<<>>)
<1>1. DOMAIN <<>> = {} /\ Len(<<>>) = 0 /\ <<>> \in Seq(Names) /\ <<>> \in Seq(Pkgs)
  OBVIOUS
<1> QED  BY <1>1 DEF ToSet, IsInjective

(* While the build list is put together, whatever is added for a reason    *)
(* keeps what holds of it.                                                 *)
LEMMA QueueGrows ==
    ASSUME IInv, NEW p \in Pkgs, QueueBuild(p) \/ DontQueue, position = 1,
           UNCHANGED <<depends, index, mode, pkgnames, position, calls>>,
           Necessary(p) \/ (mode.force /\ p \in RequestedPackages)
    PROVE  /\ queue' \in Seq(Pkgs) /\ built' \subseteq Pkgs
           /\ position' \in 1..(Len(queue') + 1)
           /\ QueueJustified'
           /\ ToSet(queue) \subseteq ToSet(queue') /\ ToSet(queue') \subseteq ToSet(queue) \cup {p}
           /\ QueueBuild(p) => p \in ToSet(queue')
           /\ \A n \in Names : Handled(n) => Handled(n)'
<1>1. /\ queue \in Seq(Pkgs) /\ built \subseteq Pkgs /\ Len(queue) \in Nat
      /\ IsInjective(queue)
  BY SeqFacts DEF IInv, TypeOK, QueueJustified
<1>2. CASE QueueBuild(p)
  <2>1. /\ queue' \in Seq(Pkgs) /\ built' \subseteq Pkgs
        /\ IsInjective(queue')
        /\ ToSet(queue') = ToSet(queue) \cup {p}
        /\ \A k \in DOMAIN queue' :
              queue'[k] = p \/ (k \in DOMAIN queue /\ queue'[k] = queue[k])
    BY <1>1, <1>2, QueueBuildFacts DEF IInv
  <2>2. Len(queue') \in Nat
    BY <2>1, SeqFacts
  <2>3. QueueJustified'
    BY <2>1 DEF IInv, QueueJustified, Necessary, RequestedPackages
  <2>4. \A n \in Names : Handled(n) => Handled(n)'
    BY <2>1 DEF Handled, Necessary
  <2> QED  BY <2>1, <2>2, <2>3, <2>4
<1>3. CASE DontQueue /\ ~QueueBuild(p)
  <2>1. QueueJustified'
    BY <1>3 DEF IInv, QueueJustified, Necessary, RequestedPackages, DontQueue
  <2>2. \A n \in Names : Handled(n) => Handled(n)'
    BY <1>3 DEF Handled, Necessary, DontQueue
  <2> QED  BY <1>1, <1>3, <2>1, <2>2 DEF DontQueue
<1> QED  BY <1>2, <1>3

LEMMA CallKeeps ==
    ASSUME IInv, Call
    PROVE  IInv'
<1>1. PICK request \in Requests : pkgnames' = Reverse(request)
  BY DEF Call
<1>2. pkgnames' \in Seq(Names)
  BY <1>1, CallsAssumption, ReverseFacts
<1>3. /\ queue' = <<>> /\ todo' = pkgnames' /\ pending' = <<>>
      /\ helper' = 1 /\ position' = 1 /\ built' = {}
      /\ depends' = depends /\ index' = index
      /\ mode' \in Modes /\ pc' \in {"multiple_src", "process"}
      /\ visited' = {} \/ (visited' = visited /\ pc = "idle")
      /\ calls < MaxCalls /\ calls' = calls + 1
  BY DEF Call
<1>4. Len(BuildPackages) \in Nat
  BY NamesAssumption, SeqFacts
<1>5. TypeOK'
  <2>1. /\ depends' \in [Pkgs -> Seq(Names)] /\ index' \in [Pkgs -> Versions] /\ visited' \subseteq Names
        /\ calls' \in 0..MaxCalls
    BY <1>3, CallsAssumption DEF IInv, TypeOK
  <2>2. /\ position' \in 1..(Len(queue') + 1) /\ helper' \in 1..(Len(BuildPackages) + 1)
        /\ queue' \in Seq(Pkgs) /\ pending' \in Seq(Names) /\ todo' \in Seq(Names)
    BY <1>2, <1>3, <1>4, EmptyFacts
  <2> QED  BY <1>2, <1>3, <2>1, <2>2, CallsAssumption DEF TypeOK, Errors
<1>6. QueueJustified'
  BY <1>3, EmptyFacts DEF QueueJustified
<1>7. StepsInOrder'
  BY <1>3 DEF StepsInOrder
<1>8. VisitedHandled'
  <2>1. CASE visited' = {}
    BY <2>1 DEF VisitedHandled
  <2>2. CASE visited' # {}
    <3>1. queue' = queue /\ visited' = visited
      BY <1>3, <2>2 DEF IInv, StepsInOrder
    <3> QED  BY <1>3, <3>1 DEF IInv, VisitedHandled, Handled, Necessary
  <2> QED  BY <2>1, <2>2
<1>9. HelpersHandled'
  <2>1. DOMAIN BuildPackages = 1..Len(BuildPackages)
    BY NamesAssumption, SeqFacts
  <2> QED  BY <1>3, <1>4, <2>1 DEF HelpersHandled
<1>10. RequestsProcessed'
  BY <1>3 DEF RequestsProcessed
<1>11. WalkClosed'
  BY <1>3, EmptyFacts DEF WalkClosed
<1>12. RestInOrder'
  BY <1>3 DEF RestInOrder
<1>13. RequestsServed'
  BY <1>3 DEF RequestsServed
<1> QED  BY <1>5, <1>6, <1>7, <1>8, <1>9, <1>10, <1>11, <1>12, <1>13 DEF IInv

LEMMA ProcessRequestKeeps ==
    ASSUME IInv, ProcessRequest
    PROVE  IInv'
<1> DEFINE p == MainPackage[Requested]
<1>1. /\ pc = "process" /\ todo # <<>> /\ p # None
      /\ visited' = visited \cup {Requested}
      /\ todo' = Tail(todo) /\ pending' = depends[p] /\ pc' = "walk"
      /\ UNCHANGED <<depends, index, mode, pkgnames, helper, position, calls>>
  BY DEF ProcessRequest, Proceeds
<1>2. /\ position = 1 /\ pending = <<>> /\ ToSet(todo) \subseteq ToSet(pkgnames)
      /\ todo \in Seq(Names) /\ pkgnames \in Seq(Names)
  BY <1>1 DEF IInv, StepsInOrder, TypeOK, Errors
<1>3. /\ Requested \in ToSet(todo) /\ Tail(todo) \in Seq(Names)
      /\ ToSet(todo) = {Requested} \cup ToSet(Tail(todo))
  BY <1>1, <1>2, TailFacts DEF Requested
<1>4. Requested \in Names /\ Requested \in ToSet(pkgnames)
  BY <1>2, <1>3, SeqFacts
<1>5. p \in Pkgs /\ depends[p] \in Seq(Names)
  BY <1>1, <1>4, NamesAssumption DEF IInv, TypeOK
<1>6. p \in RequestedPackages
  BY <1>1, <1>4 DEF RequestedPackages
<1>7. IF (mode.force \/ Necessary(p)) /\ p \notin Unbuildable THEN QueueBuild(p) ELSE DontQueue
  BY DEF ProcessRequest
<1> HIDE DEF p
<1>8. /\ queue' \in Seq(Pkgs) /\ built' \subseteq Pkgs
      /\ position' \in 1..(Len(queue') + 1)
      /\ QueueJustified'
      /\ ToSet(queue) \subseteq ToSet(queue') /\ ToSet(queue') \subseteq ToSet(queue) \cup {p}
      /\ (mode.force \/ Necessary(p)) /\ p \notin Unbuildable => p \in ToSet(queue')
      /\ \A n \in Names : Handled(n) => Handled(n)'
  <2>1. CASE mode.force \/ Necessary(p)
    BY <1>1, <1>2, <1>5, <1>6, <1>7, <2>1, QueueGrows
  <2>2. CASE ~(mode.force \/ Necessary(p))
    <3>1. DontQueue
      BY <1>7, <2>2
    <3>2. QueueJustified'
      BY <1>1, <3>1 DEF IInv, QueueJustified, Necessary, RequestedPackages, DontQueue
    <3>3. \A n \in Names : Handled(n) => Handled(n)'
      BY <1>1, <3>1 DEF Handled, Necessary, DontQueue
    <3> QED  BY <1>1, <1>2, <2>2, <3>1, <3>2, <3>3 DEF IInv, TypeOK, DontQueue
  <2> QED  BY <2>1, <2>2
<1>9. TypeOK'
  BY <1>1, <1>2, <1>3, <1>4, <1>5, <1>8 DEF IInv, TypeOK
<1>10. StepsInOrder'
  BY <1>1, <1>2, <1>3 DEF StepsInOrder
<1>11. VisitedHandled'
  <2> SUFFICES ASSUME NEW n \in visited' \ (Helpers \cup DOMAIN Substitute)
               PROVE  Handled(n)'
    BY DEF VisitedHandled
  <2>1. CASE n = Requested
    BY <1>1, <1>5, <1>8, <2>1 DEF Handled, Necessary, p
  <2>2. CASE n # Requested
    BY <1>1, <1>8, <2>2 DEF IInv, VisitedHandled, TypeOK
  <2> QED  BY <2>1, <2>2
<1>12. HelpersHandled'
  <2>1. \A k \in DOMAIN BuildPackages : BuildPackages[k] \in Names
    BY NamesAssumption, SeqFacts
  <2> QED  BY <1>1, <1>8, <2>1 DEF IInv, HelpersHandled
<1>13. RequestsProcessed'
  BY <1>1, <1>3, <1>8 DEF IInv, RequestsProcessed, p
<1>14. WalkClosed'
  BY <1>1, <1>2, <1>8, EmptyFacts DEF IInv, WalkClosed
<1>15. RestInOrder'
  BY <1>1, <1>2 DEF RestInOrder
<1>16. RequestsServed'
  BY <1>1 DEF RequestsServed
<1> QED  BY <1>8, <1>9, <1>10, <1>11, <1>12, <1>13, <1>14, <1>15, <1>16 DEF IInv

LEMMA WalkDependencyKeeps ==
    ASSUME IInv, WalkDependency
    PROVE  IInv'
<1> DEFINE name == Head(pending)
           p == MainPackage[BestProvider(name)]
           wanted == name \notin visited /\ p # None /\ Necessary(p) /\ BestProvider(name) \notin Helpers
<1>1. /\ pc = "walk" /\ pending # <<>> /\ pc' = pc
      /\ visited' = visited \cup {name}
      /\ UNCHANGED <<depends, index, mode, pkgnames, todo, helper, position, calls>>
      /\ IF wanted THEN QueueBuild(p) /\ pending' = depends[p] \o Tail(pending)
         ELSE DontQueue /\ pending' = Tail(pending)
  BY DEF WalkDependency
<1>2. position = 1 /\ pending \in Seq(Names) /\ visited \subseteq Names
  BY <1>1 DEF IInv, StepsInOrder, TypeOK, Errors
<1>3. /\ name \in ToSet(pending) /\ Tail(pending) \in Seq(Names)
      /\ ToSet(pending) = {name} \cup ToSet(Tail(pending))
  BY <1>1, <1>2, TailFacts
<1>4. name \in Names
  BY <1>2, <1>3, SeqFacts
<1>5. BestProvider(name) \in Names
  BY <1>4, NamesAssumption DEF BestProvider
<1>6. wanted => /\ p \in Pkgs /\ Necessary(p) /\ depends[p] \in Seq(Names)
  BY <1>5, NamesAssumption DEF IInv, TypeOK
<1>7. name \notin DOMAIN Substitute => BestProvider(name) = name
  BY DEF BestProvider
<1>8. name \notin visited /\ name \notin DOMAIN Substitute /\ name \notin Helpers
         /\ MainPackage[name] # None /\ Necessary(MainPackage[name])
      => wanted /\ p = MainPackage[name]
  BY <1>7
<1> HIDE DEF name, p, wanted
<1>9. /\ queue' \in Seq(Pkgs) /\ built' \subseteq Pkgs
      /\ position' \in 1..(Len(queue') + 1)
      /\ QueueJustified'
      /\ ToSet(queue) \subseteq ToSet(queue')
      /\ IF wanted THEN ToSet(queue') \subseteq ToSet(queue) \cup {p} /\ p \in ToSet(queue')
         ELSE queue' = queue
      /\ \A n \in Names : Handled(n) => Handled(n)'
  <2>1. CASE wanted
    BY <1>1, <1>2, <1>6, <2>1, QueueGrows
  <2>2. CASE ~wanted
    <3>1. DontQueue
      BY <1>1, <2>2
    <3>2. QueueJustified'
      BY <1>1, <3>1 DEF IInv, QueueJustified, Necessary, RequestedPackages, DontQueue
    <3>3. \A n \in Names : Handled(n) => Handled(n)'
      BY <1>1, <3>1 DEF Handled, Necessary, DontQueue
    <3> QED  BY <1>1, <2>2, <3>1, <3>2, <3>3 DEF IInv, TypeOK, DontQueue
  <2> QED  BY <2>1, <2>2
<1>10. /\ pending' \in Seq(Names)
       /\ ToSet(pending') = (IF wanted THEN ToSet(depends[p]) ELSE {}) \cup ToSet(Tail(pending))
  <2>1. CASE wanted
    <3> DEFINE d == depends[p]
               rest == Tail(pending)
    <3>1. d \in Seq(Names) /\ rest \in Seq(Names)
      BY <1>3, <1>6, <2>1
    <3> HIDE DEF d, rest
    <3>2. d \o rest \in Seq(Names) /\ ToSet(d \o rest) = ToSet(d) \cup ToSet(rest)
      BY <3>1, ConcatFacts
    <3>3. pending' = d \o rest
      BY <1>1, <2>1 DEF d, rest
    <3> QED  BY <2>1, <3>2, <3>3 DEF d, rest
  <2>2. CASE ~wanted
    BY <1>1, <1>3, <2>2
  <2> QED  BY <2>1, <2>2
<1>11. TypeOK'
  BY <1>1, <1>2, <1>4, <1>9, <1>10 DEF IInv, TypeOK
<1>12. StepsInOrder'
  BY <1>1 DEF IInv, StepsInOrder
<1>13. VisitedHandled'
  <2> SUFFICES ASSUME NEW n \in visited' \ (Helpers \cup DOMAIN Substitute)
               PROVE  Handled(n)'
    BY DEF VisitedHandled
  <2>1. CASE n \in visited
    BY <1>2, <1>9, <2>1 DEF IInv, VisitedHandled
  <2>2. CASE n \notin visited
    <3>1. n = name
      BY <1>1, <2>2
    <3>2. CASE MainPackage[n] # None /\ Necessary(MainPackage[n])
      BY <1>8, <1>9, <2>2, <3>1, <3>2 DEF Handled
    <3>3. CASE ~(MainPackage[n] # None /\ Necessary(MainPackage[n]))
      BY <1>1, <3>3 DEF Handled, Necessary
    <3> QED  BY <3>2, <3>3
  <2> QED  BY <2>1, <2>2
<1>14. HelpersHandled'
  <2>1. \A k \in DOMAIN BuildPackages : BuildPackages[k] \in Names
    BY NamesAssumption, SeqFacts
  <2> QED  BY <1>1, <1>9, <2>1 DEF IInv, HelpersHandled
<1>15. RequestsProcessed'
  BY <1>1, <1>9 DEF IInv, RequestsProcessed
<1>16. WalkClosed'
  <2> SUFFICES ASSUME NEW r \in ToSet(queue') \ Helpers
               PROVE  ToSet(depends[r]) \subseteq visited' \cup ToSet(pending')
    BY <1>1 DEF WalkClosed
  <2>1. CASE r \in ToSet(queue)
    <3>1. ToSet(depends[r]) \subseteq visited \cup ToSet(pending)
      BY <1>1, <2>1 DEF IInv, WalkClosed
    <3> QED  BY <1>1, <1>3, <1>10, <3>1
  <2>2. CASE r \notin ToSet(queue)
    BY <1>9, <1>10, <2>2
  <2> QED  BY <2>1, <2>2
<1>17. RestInOrder'
  BY <1>1, <1>2 DEF RestInOrder
<1>18. RequestsServed'
  BY <1>1 DEF RequestsServed
<1> QED
  BY <1>9, <1>11, <1>12, <1>13, <1>14, <1>15, <1>16, <1>17, <1>18 DEF IInv

LEMMA CheckHelperKeeps ==
    ASSUME IInv, CheckHelper
    PROVE  IInv'
<1> DEFINE h == BuildPackages[helper]
           p == MainPackage[h]
<1>1. /\ pc = "helpers" /\ pc' = pc /\ helper <= Len(BuildPackages) /\ helper' = helper + 1
      /\ UNCHANGED <<depends, index, visited, mode, pkgnames, todo, pending, position, calls>>
      /\ IF HelperNeedsBuild THEN QueueBuild(p) ELSE DontQueue
  BY DEF CheckHelper
<1>2. /\ Len(BuildPackages) \in Nat /\ DOMAIN BuildPackages = 1..Len(BuildPackages)
      /\ \A k \in DOMAIN BuildPackages : BuildPackages[k] \in Names
  BY NamesAssumption, SeqFacts
<1>3. helper \in DOMAIN BuildPackages /\ position = 1
  BY <1>1, <1>2 DEF IInv, TypeOK, StepsInOrder, Errors
<1>4. h \in Names /\ h \in Helpers /\ p \in {h, None}
  BY <1>2, <1>3, NamesAssumption DEF Helpers, ToSet
<1>5. HelperNeedsBuild => p \in Pkgs /\ Necessary(p) /\ p \in Helpers
  BY <1>4, NamesAssumption DEF HelperNeedsBuild
<1>6. h \notin ToSet(pkgnames) /\ p # None /\ Necessary(p) => HelperNeedsBuild
  BY DEF HelperNeedsBuild
<1> HIDE DEF h, p
<1>7. /\ queue' \in Seq(Pkgs) /\ built' \subseteq Pkgs
      /\ position' \in 1..(Len(queue') + 1)
      /\ QueueJustified'
      /\ ToSet(queue) \subseteq ToSet(queue') /\ ToSet(queue') \subseteq ToSet(queue) \cup Helpers
      /\ HelperNeedsBuild => p \in ToSet(queue')
      /\ \A n \in Names : Handled(n) => Handled(n)'
  <2>1. CASE HelperNeedsBuild
    BY <1>1, <1>3, <1>5, <2>1, QueueGrows
  <2>2. CASE ~HelperNeedsBuild
    <3>1. DontQueue
      BY <1>1, <2>2
    <3>2. QueueJustified'
      BY <1>1, <3>1 DEF IInv, QueueJustified, Necessary, RequestedPackages, DontQueue
    <3>3. \A n \in Names : Handled(n) => Handled(n)'
      BY <1>1, <3>1 DEF Handled, Necessary, DontQueue
    <3> QED  BY <1>1, <2>2, <3>1, <3>2, <3>3 DEF IInv, TypeOK, DontQueue
  <2> QED  BY <2>1, <2>2
<1>8. TypeOK'
  BY <1>1, <1>2, <1>3, <1>7 DEF IInv, TypeOK
<1>9. StepsInOrder'
  BY <1>1 DEF IInv, StepsInOrder
<1>10. VisitedHandled'
  BY <1>1, <1>7 DEF IInv, VisitedHandled, TypeOK
<1>11. HelpersHandled'
  <2> SUFFICES ASSUME NEW k \in DOMAIN BuildPackages, k < helper + 1,
                      BuildPackages[k] \notin ToSet(pkgnames)
               PROVE  Handled(BuildPackages[k])'
    BY <1>1 DEF HelpersHandled
  <2>1. CASE k < helper
    BY <1>2, <1>7, <2>1 DEF IInv, HelpersHandled
  <2>2. CASE ~(k < helper)
    <3>1. BuildPackages[k] = h
      BY <1>2, <1>3, <2>2 DEF h
    <3>2. CASE HelperNeedsBuild
      BY <1>7, <3>1, <3>2 DEF Handled, p
    <3>3. CASE ~HelperNeedsBuild
      BY <1>1, <1>6, <3>1, <3>3 DEF Handled, Necessary, p
    <3> QED  BY <3>2, <3>3
  <2> QED  BY <2>1, <2>2
<1>12. RequestsProcessed'
  BY <1>1, <1>7 DEF IInv, RequestsProcessed
<1>13. WalkClosed'
  BY <1>1, <1>7 DEF IInv, WalkClosed
<1>14. RestInOrder'
  BY <1>1, <1>3 DEF RestInOrder
<1>15. RequestsServed'
  BY <1>1 DEF RequestsServed
<1> QED
  BY <1>7, <1>8, <1>9, <1>10, <1>11, <1>12, <1>13, <1>14, <1>15 DEF IInv

LEMMA PrioritiseKeeps ==
    ASSUME IInv, Prioritise
    PROVE  IInv'
<1>1. /\ pc = "prioritise" /\ pc' = "check"
      /\ queue' \in CorrectOrders
      /\ UNCHANGED <<depends, index, visited, mode, pkgnames, todo, pending, helper,
                     position, built, calls>>
  BY DEF Prioritise
<1>2. queue' \in Seq(Pkgs) /\ IsInjective(queue') /\ ToSet(queue') = ToSet(queue)
  BY <1>1, CorrectOrderFacts DEF IInv
<1>3. /\ Len(queue) \in Nat /\ DOMAIN queue = 1..Len(queue)
      /\ Len(queue') \in Nat /\ DOMAIN queue' = 1..Len(queue')
      /\ position = 1
  BY <1>1, <1>2, SeqFacts DEF IInv, TypeOK, StepsInOrder, Errors
<1>4. TypeOK'
  <2>1. position' \in 1..(Len(queue') + 1)
    BY <1>1, <1>3
  <2> QED  BY <1>1, <1>2, <2>1 DEF IInv, TypeOK
<1>5. QueueJustified'
  <2>1. \A r \in ToSet(queue) : Necessary(r) \/ (mode.force /\ r \in RequestedPackages)
    <3>1. \A k \in DOMAIN queue : Necessary(queue[k]) \/ (mode.force /\ queue[k] \in RequestedPackages)
      BY <1>3 DEF IInv, QueueJustified
    <3> QED  BY <3>1 DEF ToSet
  <2>2. \A k \in DOMAIN queue' : queue'[k] \in ToSet(queue)
    BY <1>2 DEF ToSet
  <2>3. mode' = mode /\ RequestedPackages' = RequestedPackages /\ \A r : Necessary(r)' <=> Necessary(r)
    BY <1>1 DEF Necessary, RequestedPackages
  <2> QED  BY <1>2, <2>1, <2>2, <2>3 DEF QueueJustified
<1>6. StepsInOrder'
  BY <1>1 DEF IInv, StepsInOrder
<1>7. \A n : Handled(n) => Handled(n)'
  BY <1>1, <1>2 DEF Handled, Necessary
<1>8. VisitedHandled' /\ HelpersHandled'
  BY <1>1, <1>7 DEF IInv, VisitedHandled, HelpersHandled
<1>9. RequestsProcessed'
  BY <1>1, <1>2 DEF IInv, RequestsProcessed
<1>10. WalkClosed'
  BY <1>1, <1>2 DEF IInv, WalkClosed
<1>11. RestInOrder'
  <2> SUFFICES ASSUME NEW k \in DOMAIN queue', queue'[k] \notin Helpers
               PROVE  MayFollow(queue[k], {queue[m] : m \in 1..(k - 1)})'
    BY <1>1, <1>3 DEF RestInOrder
  <2> DEFINE before == {queue'[m] : m \in 1..(k - 1)}
  <2>1. MayFollow(queue'[k], before)
    BY <1>1 DEF CorrectOrders
  <2>2. \A r, q : Mutual(r, q) => Mutual(r, q)'
    BY <1>1, <1>2 DEF Mutual, QueueDeps
  <2>3. \A r : QueueDeps(r)' = QueueDeps(r)
    BY <1>1, <1>2 DEF QueueDeps
  <2>4. \A n : Unknown(n)' => Unknown(n)
    BY <1>1 DEF Unknown, HasBinary
  <2> QED  BY <1>1, <1>2, <2>1, <2>2, <2>3, <2>4 DEF MayFollow, HasBinary
<1>12. RequestsServed'
  BY <1>1 DEF RequestsServed
<1> QED
  BY <1>4, <1>5, <1>6, <1>8, <1>9, <1>10, <1>11, <1>12 DEF IInv

(* A build makes its package current and changes no other one.             *)
LEMMA BuildPackageKeeps ==
    ASSUME IInv, BuildPackage
    PROVE  IInv'
<1> DEFINE b == queue[position]
<1>1. /\ pc = "build" /\ pc' = pc /\ position <= Len(queue) /\ position' = position + 1
      /\ index' = [index EXCEPT ![b] = IF mode.src \/ index[b] = "newer" THEN "newer" ELSE "current"]
      /\ UNCHANGED <<depends, visited, mode, pkgnames, todo, pending, helper, queue, built, calls>>
  BY DEF BuildPackage
<1>2. /\ queue \in Seq(Pkgs) /\ position \in 1..(Len(queue) + 1) /\ index \in [Pkgs -> Versions]
      /\ IsInjective(queue)
  BY DEF IInv, TypeOK, QueueJustified
<1>3. /\ Len(queue) \in Nat /\ DOMAIN queue = 1..Len(queue)
      /\ position \in DOMAIN queue /\ b \in Pkgs
  <2>1. Len(queue) \in Nat /\ DOMAIN queue = 1..Len(queue) /\ \A k \in 1..Len(queue) : queue[k] \in Pkgs
    BY <1>2, SeqFacts
  <2> QED  BY <1>1, <1>2, <2>1
<1> HIDE DEF b
<1>4. /\ index' \in [Pkgs -> Versions]
      /\ index'[b] \in {"newer", "current"}
      /\ \A r \in Pkgs : r # b => index'[r] = index[r]
  BY <1>1, <1>2, <1>3 DEF Versions
<1>5. \A r \in Pkgs : /\ Necessary(r)' => Necessary(r)
                      /\ HasBinary(r) => HasBinary(r)'
                      /\ r # b => (Necessary(r) => Necessary(r)')
  BY <1>4 DEF Necessary, HasBinary
<1>6. \A r : r = b => ~Necessary(r)'
  BY <1>4 DEF Necessary
<1>7. \A n \in Names : Handled(n) => Handled(n)'
  <2>1. \A n \in Names : MainPackage[n] \in Pkgs \cup {None}
    BY NamesAssumption
  <2> QED  BY <1>1, <1>5, <2>1 DEF Handled
<1>8. TypeOK'
  BY <1>1, <1>2, <1>3, <1>4 DEF IInv, TypeOK
<1>9. QueueJustified'
  <2> SUFFICES ASSUME NEW k \in DOMAIN queue, ~(k < position + 1)
               PROVE  Necessary(queue[k])' \/ (mode.force /\ queue[k] \in RequestedPackages)'
    BY <1>1, <1>2 DEF QueueJustified
  <2>1. k # position /\ ~(k < position) /\ queue[k] \in Pkgs
    BY <1>2, <1>3, SeqFacts
  <2>2. queue[k] # b
    BY <1>2, <1>3, <2>1 DEF IsInjective, b
  <2>3. Necessary(queue[k]) \/ (mode.force /\ queue[k] \in RequestedPackages)
    BY <2>1 DEF IInv, QueueJustified
  <2>4. CASE Necessary(queue[k])
    BY <1>1, <1>4, <2>1, <2>2, <2>4 DEF Necessary
  <2>5. CASE mode.force /\ queue[k] \in RequestedPackages
    BY <1>1, <2>5 DEF RequestedPackages
  <2> QED  BY <2>3, <2>4, <2>5
<1>10. StepsInOrder'
  BY <1>1 DEF IInv, StepsInOrder
<1>11. VisitedHandled'
  BY <1>1, <1>7 DEF IInv, VisitedHandled, TypeOK
<1>12. HelpersHandled'
  <2>1. \A k \in DOMAIN BuildPackages : BuildPackages[k] \in Names
    BY NamesAssumption, SeqFacts
  <2> QED  BY <1>1, <1>7, <2>1 DEF IInv, HelpersHandled
<1>13. RequestsProcessed' /\ WalkClosed'
  BY <1>1 DEF IInv, RequestsProcessed, WalkClosed
<1>14. RestInOrder'
  <2>1. ASSUME NEW k \in 1..((position + 1) - 1)
        PROVE  ~Necessary(queue[k])'
    <3>1. CASE k = position
      <4>1. queue[k] = b /\ queue' = queue
        BY <1>1, <3>1 DEF b
      <4> QED  BY <1>6, <4>1 DEF Necessary
    <3>2. CASE k # position
      <4>1. k \in 1..(position - 1) /\ k \in 1..Len(queue)
        BY <1>2, <1>3, <2>1, <3>2
      <4>2. ~Necessary(queue[k]) /\ queue[k] \in Pkgs
        BY <1>2, <4>1, SeqFacts DEF IInv, RestInOrder
      <4> QED  BY <1>1, <1>5, <4>2 DEF Necessary
    <3> QED  BY <3>1, <3>2
  <2>2. ASSUME NEW k \in DOMAIN queue, position + 1 <= k, queue[k] \notin Helpers
        PROVE  MayFollow(queue[k], {queue[m] : m \in 1..(k - 1)})'
    <3> DEFINE before == {queue[m] : m \in 1..(k - 1)}
    <3>1. MayFollow(queue[k], before)
      BY <1>1, <1>2, <1>3, <2>2 DEF IInv, RestInOrder
    <3>2. queue[k] \in Pkgs /\ \A n \in ToSet(depends[queue[k]]) : n \in Names
      <4>1. queue[k] \in Pkgs
        BY <1>2, <1>3, SeqFacts
      <4> QED  BY <4>1, SeqFacts DEF IInv, TypeOK
    <3>3. \A n \in Names : Unknown(n)' => Unknown(n)
      <4>1. \A n \in Names : MainPackage[n] \in Pkgs \cup {None}
        BY NamesAssumption
      <4> QED  BY <1>5, <4>1 DEF Unknown
    <3>4. \A r : QueueDeps(r)' = QueueDeps(r)
      BY <1>1 DEF QueueDeps
    <3> HIDE DEF before
    <3>5. CASE /\ \A n \in ToSet(depends[queue[k]]) : ~Unknown(n)
               /\ QueueDeps(queue[k]) \subseteq before
      <4>1. \A n \in ToSet(depends[queue[k]]) : ~Unknown(n)'
        BY <3>2, <3>3, <3>5
      <4> QED  BY <1>1, <3>4, <3>5, <4>1 DEF MayFollow, before
    <3>6. CASE HasBinary(queue[k]) /\ \E q \in ToSet(queue) \ before : Mutual(queue[k], q)
      <4>1. HasBinary(queue[k])'
        BY <1>1, <1>5, <3>2, <3>6 DEF HasBinary
      <4>2. \A r, q : Mutual(r, q)' <=> Mutual(r, q)
        BY <3>4 DEF Mutual
      <4> QED  BY <1>1, <3>6, <4>1, <4>2 DEF MayFollow, before
    <3> QED  BY <3>1, <3>5, <3>6 DEF MayFollow
  <2> QED  BY <1>1, <2>1, <2>2 DEF RestInOrder
<1>15. RequestsServed'
  BY <1>1 DEF RequestsServed
<1> QED
  BY <1>8, <1>9, <1>10, <1>11, <1>12, <1>13, <1>14, <1>15 DEF IInv

(* The end of a call: all that was visited is current.                     *)
LEMMA ReturnKeeps ==
    ASSUME IInv, NothingToBuild \/ AllBuilt
    PROVE  IInv'
<1>1. /\ pc' = "idle" /\ pc \in {"prioritise", "build"}
      /\ \/ queue = <<>> /\ visited' = visited
         \/ pc = "build" /\ position > Len(queue) /\ visited' = {}
      /\ UNCHANGED <<depends, index, mode, pkgnames, todo, pending, helper, queue,
                     position, built, calls>>
  BY DEF NothingToBuild, AllBuilt
<1>2. /\ todo = <<>> /\ pending = <<>> /\ pkgnames \in Seq(Names) /\ queue \in Seq(Pkgs)
      /\ position \in 1..(Len(queue) + 1)
  BY <1>1 DEF IInv, StepsInOrder, TypeOK
<1>3. Len(queue) \in Nat /\ DOMAIN queue = 1..Len(queue)
  BY <1>2, SeqFacts
<1>4. \A n : Handled(n)' <=> Handled(n)
  BY <1>1 DEF Handled, Necessary
<1>5. \A r \in ToSet(queue) : ~Necessary(r)
  <2>1. CASE queue = <<>>
    BY <2>1, EmptyFacts
  <2>2. CASE position > Len(queue)
    <3>1. \A k \in DOMAIN queue : ~Necessary(queue[k])
      BY <1>2, <1>3, <2>2 DEF IInv, RestInOrder
    <3> QED  BY <3>1 DEF ToSet
  <2> QED  BY <1>1, <2>1, <2>2
<1>6. RequestsServed'
  <2> SUFFICES ASSUME NEW n \in ToSet(pkgnames) \ (Helpers \cup DOMAIN Substitute), MainPackage[n] # None
               PROVE  /\ ~Necessary(MainPackage[n])
                      /\ mode.force /\ MainPackage[n] \notin Unbuildable =>
                            MainPackage[n] \in ToSet(queue)
    BY <1>1 DEF RequestsServed, Necessary
  <2>1. /\ n \in visited
        /\ mode.force /\ MainPackage[n] \notin Unbuildable => MainPackage[n] \in ToSet(queue)
    BY <1>1, <1>2, EmptyFacts DEF IInv, RequestsProcessed
  <2>2. Handled(n)
    BY <2>1 DEF IInv, VisitedHandled
  <2> QED  BY <1>5, <2>1, <2>2 DEF Handled
<1>7. TypeOK' /\ QueueJustified'
  BY <1>1 DEF IInv, TypeOK, QueueJustified, Necessary, RequestedPackages
<1>8. StepsInOrder'
  BY <1>1, <1>2 DEF IInv, StepsInOrder
<1>9. VisitedHandled' /\ HelpersHandled'
  BY <1>1, <1>4 DEF IInv, VisitedHandled, HelpersHandled
<1>10. RequestsProcessed' /\ WalkClosed'
  BY <1>1 DEF RequestsProcessed, WalkClosed
<1>11. RestInOrder'
  BY <1>1 DEF IInv, RestInOrder, Necessary
<1> QED
  BY <1>6, <1>7, <1>8, <1>9, <1>10, <1>11 DEF IInv

(* The other steps only move on, or end the call with an error.            *)
LEMMA OthersKeep ==
    ASSUME IInv,
           \/ SkipForeign \/ RejectForeign \/ SkipVisited \/ CannotBuild \/ AllProcessed \/ WalkDone
           \/ StrictHelper \/ HelpersChecked \/ CannotPrioritise \/ CheckQueue \/ BuildFails
           \/ UNCHANGED vars
    PROVE  IInv'
<1>1. UNCHANGED <<depends, index, visited, mode, pkgnames, pending, helper, queue,
                  position, built, calls>>
  BY DEF SkipForeign, RejectForeign, SkipVisited, CannotBuild, AllProcessed, WalkDone, StrictHelper,
         HelpersChecked, CannotPrioritise, CheckQueue, BuildFails, Raise, vars
<1>2. \/ pc = "process" /\ todo # <<>> /\ pc' = "process" /\ todo' = Tail(todo)
         /\ (MainPackage[Requested] = None \/ (Requested \in visited /\ ~mode.force))
      \/ todo' = todo /\ \/ pc' = pc
                         \/ /\ pc \in {"process", "helpers", "prioritise", "check"}
                            /\ pc' \in Errors \ {"build_failed"}
                         \/ pc = "build" /\ pc' = "build_failed"
                         \/ pc = "process" /\ todo = <<>> /\ mode.src /\ pc' = "prioritise"
                         \/ pc = "process" /\ todo = <<>> /\ pc' = "helpers"
                         \/ pc = "walk" /\ pending = <<>> /\ pc' = "process"
                         \/ pc = "helpers" /\ helper > Len(BuildPackages) /\ pc' = "prioritise"
                         \/ pc = "check" /\ pc' = "build"
  BY DEF SkipForeign, RejectForeign, SkipVisited, CannotBuild, AllProcessed, WalkDone, StrictHelper,
         HelpersChecked, CannotPrioritise, CheckQueue, BuildFails, Raise, Errors, vars
<1>3. todo \in Seq(Names) /\ ToSet(todo) \subseteq ToSet(pkgnames)
  BY DEF IInv, TypeOK, StepsInOrder
<1>4. /\ todo' \in Seq(Names) /\ ToSet(todo') \subseteq ToSet(todo)
      /\ \A n \in ToSet(todo) \ ToSet(todo') :
            MainPackage[n] = None \/ (n \in visited /\ ~mode.force)
  <2>1. CASE todo' = todo
    BY <1>3, <2>1
  <2>2. CASE todo' # todo
    <3>1. /\ todo # <<>> /\ todo' = Tail(todo)
          /\ MainPackage[Requested] = None \/ (Requested \in visited /\ ~mode.force)
      BY <1>2, <2>2
    <3>2. Tail(todo) \in Seq(Names) /\ ToSet(todo) = {Requested} \cup ToSet(Tail(todo))
      BY <1>3, <3>1, TailFacts DEF Requested
    <3> QED  BY <3>1, <3>2
  <2> QED  BY <2>1, <2>2
<1>5. \A n : Handled(n)' <=> Handled(n)
  BY <1>1 DEF Handled, Necessary
<1>6. TypeOK'
  BY <1>1, <1>2, <1>4 DEF IInv, TypeOK, Errors
<1>7. QueueJustified'
  BY <1>1 DEF IInv, QueueJustified, Necessary, RequestedPackages
<1>8. StepsInOrder'
  <2>1. ToSet(todo') \subseteq ToSet(pkgnames')
    BY <1>1, <1>3, <1>4
  <2>2. pc' \notin {"idle", "build", "build_failed"} => position' = 1
    BY <1>1, <1>2 DEF IInv, StepsInOrder, Errors
  <2>3. pc' # "walk" => pending' = <<>>
    BY <1>1, <1>2 DEF IInv, StepsInOrder, Errors
  <2>4. pc' \in {"helpers", "prioritise", "check", "build"} => todo' = <<>>
    BY <1>1, <1>2 DEF IInv, StepsInOrder, Errors
  <2>5. pc' \in {"prioritise", "check", "build"} => mode'.src \/ helper' > Len(BuildPackages)
    BY <1>1, <1>2 DEF IInv, StepsInOrder, Errors
  <2>6. pc' = "idle" => visited' = {} \/ queue' = <<>>
    BY <1>1, <1>2 DEF IInv, StepsInOrder, Errors
  <2> QED  BY <2>1, <2>2, <2>3, <2>4, <2>5, <2>6 DEF StepsInOrder
<1>9. VisitedHandled' /\ HelpersHandled'
  BY <1>1, <1>5 DEF IInv, VisitedHandled, HelpersHandled
<1>10. RequestsProcessed'
  <2> SUFFICES ASSUME pc' # "idle", NEW n \in ToSet(pkgnames) \ ToSet(todo'), MainPackage[n] # None
               PROVE  /\ n \in visited
                      /\ mode.force /\ MainPackage[n] \notin Unbuildable =>
                            MainPackage[n] \in ToSet(queue)
    BY <1>1 DEF RequestsProcessed
  <2>1. pc # "idle"
    BY <1>2 DEF Errors
  <2>2. CASE n \in ToSet(todo)
    BY <1>4, <2>2
  <2>3. CASE n \notin ToSet(todo)
    BY <2>1, <2>3 DEF IInv, RequestsProcessed
  <2> QED  BY <2>2, <2>3
<1>11. WalkClosed'
  <2>1. pc' # "idle" => pc # "idle"
    BY <1>2 DEF Errors
  <2> QED  BY <1>1, <2>1 DEF IInv, WalkClosed
<1>12. RestInOrder'
  <2>1. pc' \in {"check", "build"} => pc \in {"check", "build"}
    BY <1>2 DEF Errors
  <2>2. \A k, before : MayFollow(k, before)' <=> MayFollow(k, before)
    BY <1>1 DEF MayFollow, Unknown, HasBinary, QueueDeps, Mutual
  <2> QED  BY <1>1, <2>1, <2>2 DEF IInv, RestInOrder, Necessary
<1>13. RequestsServed'
  <2>1. pc' = "idle" => pc = "idle"
    BY <1>2 DEF Errors
  <2> QED  BY <1>1, <2>1 DEF IInv, RequestsServed, Necessary
<1> QED
  BY <1>6, <1>7, <1>8, <1>9, <1>10, <1>11, <1>12, <1>13 DEF IInv

-----------------------------------------------------------------------------

LEMMA Initially ==
    ASSUME Init
    PROVE  IInv
<1>1. Len(BuildPackages) \in Nat /\ DOMAIN BuildPackages = 1..Len(BuildPackages)
  BY NamesAssumption, SeqFacts
<1>2. TypeOK
  <2>1. depends \in [Pkgs -> Seq(Names)]
    BY ChoicesAssumption DEF Init
  <2>2. index \in [Pkgs -> Versions]
    BY DEF Init
  <2> QED  BY <1>1, <2>1, <2>2, EmptyFacts, CallsAssumption DEF Init, TypeOK
<1> QED
  BY <1>1, <1>2, EmptyFacts
     DEF Init, IInv, QueueJustified, StepsInOrder, VisitedHandled, HelpersHandled,
         RequestsProcessed, WalkClosed, RestInOrder, RequestsServed

LEMMA Step ==
    ASSUME IInv, [Next]_vars
    PROVE  IInv'
  BY CallKeeps, ProcessRequestKeeps, WalkDependencyKeeps, CheckHelperKeeps, PrioritiseKeeps,
     BuildPackageKeeps, ReturnKeeps, OthersKeep
     DEF Next, CallStep

LEMMA Invariance == Spec => []IInv
<1>1. Init => IInv
  BY Initially
<1>2. IInv /\ [Next]_vars => IInv'
  BY Step
<1> QED  BY <1>1, <1>2, PTL DEF Spec

(* All variables keep their types.                                         *)
THEOREM TypeCorrect == Spec => []TypeOK
<1>1. IInv => TypeOK
  BY DEF IInv
<1> QED  BY <1>1, Invariance, PTL

(* When packages() returns, what was asked for is current in the           *)
(* repository, and what was forced has been in the build list: is_cached_  *)
(* or_cache() never drops a request that needed something.                 *)
THEOREM RequestsAreServed == Spec => []RequestsServed
<1>1. IInv => RequestsServed
  BY DEF IInv
<1> QED  BY <1>1, Invariance, PTL

(* What a package depends on is current when the build loop comes to it,   *)
(* in every order that prioritise_build_queue() may give.                  *)
THEOREM BuildsUseCurrentDependencies == Spec => []BuildsOnCurrentDependencies
<1>1. ASSUME IInv, pc = "build", position <= Len(queue), queue[position] \notin Helpers
      PROVE  \/ \A n \in ToSet(depends[queue[position]]) :
                  \/ MainPackage[n] = None
                  \/ ~Necessary(MainPackage[n])
                  \/ n \in DOMAIN Substitute
                  \/ n \in Helpers /\ (mode.src \/ n \in ToSet(pkgnames))
             \/ HasBinary(queue[position]) /\
                \E q \in ToSet(queue) \ {queue[m] : m \in 1..(position - 1)} : Mutual(queue[position], q)
  <2> DEFINE p == queue[position]
             before == {queue[m] : m \in 1..(position - 1)}
  <2>1. position \in 1..Len(queue) /\ Len(queue) \in Nat /\ DOMAIN queue = 1..Len(queue)
    <3>1. queue \in Seq(Pkgs) /\ position \in 1..(Len(queue) + 1)
      BY <1>1 DEF IInv, TypeOK
    <3> QED  BY <1>1, <3>1, SeqFacts
  <2>2. p \in ToSet(queue) \ Helpers
    BY <1>1, <2>1 DEF ToSet
  <2>3. MayFollow(p, before)
    BY <1>1, <2>1 DEF IInv, RestInOrder
  <2>4. \A q \in before : ~Necessary(q)
    BY <1>1 DEF IInv, RestInOrder
  <2>5. ToSet(depends[p]) \subseteq visited
    <3>1. pending = <<>>
      BY <1>1 DEF IInv, StepsInOrder
    <3>2. ToSet(depends[p]) \subseteq visited \cup ToSet(pending)
      BY <1>1, <2>2 DEF IInv, WalkClosed
    <3> QED  BY <3>1, <3>2, EmptyFacts
  <2> HIDE DEF p, before
  <2>6. ASSUME QueueDeps(p) \subseteq before,
               NEW n \in ToSet(depends[p]), MainPackage[n] # None,
               n \notin DOMAIN Substitute, ~(n \in Helpers /\ (mode.src \/ n \in ToSet(pkgnames)))
        PROVE  ~Necessary(MainPackage[n])
    <3>1. Handled(n)
      <4>1. CASE n \notin Helpers
        BY <1>1, <2>5, <2>6, <4>1 DEF IInv, VisitedHandled
      <4>2. CASE n \in Helpers
        <5>1. helper > Len(BuildPackages) /\ n \notin ToSet(pkgnames)
          BY <1>1, <2>6, <4>2 DEF IInv, StepsInOrder
        <5>2. PICK k \in DOMAIN BuildPackages : BuildPackages[k] = n
          BY <4>2 DEF Helpers, ToSet
        <5>3. k < helper
          <6>1. Len(BuildPackages) \in Nat /\ k \in 1..Len(BuildPackages)
            BY <5>2, NamesAssumption, SeqFacts
          <6>2. helper \in Nat
            BY <1>1, <6>1 DEF IInv, TypeOK
          <6> QED  BY <5>1, <6>1, <6>2
        <5> QED  BY <1>1, <5>1, <5>2, <5>3 DEF IInv, HelpersHandled
      <4> QED  BY <4>1, <4>2
    <3>2. MainPackage[n] \in ToSet(queue) => MainPackage[n] \in before
      BY <2>6 DEF QueueDeps
    <3> QED  BY <2>4, <2>6, <3>1, <3>2 DEF Handled
  <2>7. CASE QueueDeps(p) \subseteq before
    BY <2>6, <2>7 DEF p
  <2>8. CASE ~(QueueDeps(p) \subseteq before)
    BY <2>3, <2>8 DEF MayFollow, p, before
  <2> QED  BY <2>7, <2>8
<1>2. IInv => BuildsOnCurrentDependencies
  BY <1>1 DEF BuildsOnCurrentDependencies
<1> QED  BY <1>2, Invariance, PTL

(* Nothing is built that is current, unless it was asked for with --force: *)
(* not after a failed call, not when the same package is needed twice.     *)
THEOREM NothingBuiltInVain == Spec => OnlyNecessaryBuilds
<1>1. ASSUME IInv, [Next]_vars, position' = position + 1
      PROVE  Necessary(queue[position]) \/ (mode.force /\ queue[position] \in RequestedPackages)
  <2>1. /\ position \in Nat /\ position >= 1 /\ queue \in Seq(Pkgs)
        /\ Len(queue) \in Nat /\ DOMAIN queue = 1..Len(queue)
    <3>1. queue \in Seq(Pkgs) /\ position \in 1..(Len(queue) + 1)
      BY <1>1 DEF IInv, TypeOK
    <3> QED  BY <3>1, SeqFacts
  <2>2. position' # position /\ position' # 1
    BY <1>1, <2>1
  <2>3. BuildPackage
    BY <1>1, <2>2
       DEF Next, CallStep, Call, SkipForeign, RejectForeign, SkipVisited, CannotBuild, ProcessRequest,
           AllProcessed, WalkDependency, WalkDone, CheckHelper, StrictHelper, HelpersChecked,
           NothingToBuild, Prioritise, CannotPrioritise, CheckQueue, BuildFails, AllBuilt, Raise, vars
  <2>4. position \in DOMAIN queue /\ ~(position < position)
    BY <2>1, <2>3 DEF BuildPackage
  <2> QED  BY <1>1, <2>4 DEF IInv, QueueJustified
<1>2. IInv /\ [Next]_vars =>
        [position' = position + 1 =>
            \/ Necessary(queue[position])
            \/ mode.force /\ queue[position] \in RequestedPackages]_vars
  BY <1>1
<1>3. Spec => [][Next]_vars
  BY PTL DEF Spec
<1> QED  BY <1>2, <1>3, Invariance, PTL DEF OnlyNecessaryBuilds
=============================================================================
