-------------------------- MODULE Chroots_proofs --------------------------
(***************************************************************************)
(* Proofs about the life cycle of the chroots, for all channels and        *)
(* builds, any number of runs, and programs that end at any step.          *)
(***************************************************************************)
EXTENDS Chroots, SequenceTheorems, FiniteSetTheorems, TLAPS

StepType == [op: Ops, chroot: Chroots \cup SUBSET Chroots]

OnSets == {"remove_markers", "unregister", "clean", "cache_clear"}

(* Steps that only make sense right after another one, which prepares them. *)
Bound == {"remove", "usr_merge", "apk_initdb", "add_user"}
Prepares == {"umount_all", "save_init", "usr_merge", "apk_initdb"}

(* The step of a running program. *)
StepOK(step) ==
    /\ step \in StepType
    /\ step.op \notin OnSets => step.chroot \in Chroots
    /\ step.op = "mount_native" => step.chroot = Buildroot

(* A chroot is deleted right after everything in it was unmounted, and the  *)
(* steps that create one are not separated.                                 *)
Linked(s) ==
    \A k \in 2..Len(s) :
        /\ s[k].op = "remove"     => s[k - 1] = Step("umount_all", s[k].chroot)
        /\ s[k].op = "usr_merge"  => s[k - 1] = Step("save_init", s[k].chroot)
        /\ s[k].op = "apk_initdb" => s[k - 1] = Step("usr_merge", s[k].chroot)
        /\ s[k].op = "add_user"   => s[k - 1] = Step("apk_initdb", s[k].chroot)
        /\ s[k].op # "save_init"

Proper(s) == s \in Seq(StepType) /\ (\A k \in DOMAIN s : StepOK(s[k])) /\ Linked(s)

Free(step) == StepOK(step) /\ step.op \notin Bound \cup {"save_init", "switch_channel"}

(* What may be put in front of the steps that are left: it depends on no    *)
(* step before.                                                             *)
Block(s) == Proper(s) /\ (s # <<>> => Head(s).op \notin Bound \cup {"save_init"})

(* Deleting the native chroot leaves nothing stale behind if the buildroot  *)
(* was unmounted before, and only unmounting and deleting happened since.   *)
Quiet == {"umount_all", "remove", "unregister"}

QuietUpTo(s, k) == \A i \in 1..k : s[i].op \in Quiet

Shield(s, j, k) ==
    /\ s[j] = Step("umount_all", Buildroot)
    /\ \A i \in j..k : s[i].op \in Quiet

Deletes(s, k) == s[k] = Step("remove", Native)

Shielded(s) ==
    \A k \in 1..Len(s) : Deletes(s, k) => \E j \in 1..(k - 1) : Shield(s, j, k)

(* The same, for the rest of a program that may have unmounted it already. *)
NearlyShielded(s) ==
    \A k \in 1..Len(s) :
        Deletes(s, k) => QuietUpTo(s, k) \/ \E j \in 1..(k - 1) : Shield(s, j, k)

EndsShielded(s) == \E j \in 1..Len(s) : Shield(s, j, Len(s))

(* Only "init" switches the channel, at the end of a program. *)
Settled(s) == \A k \in 1..Len(s) : s[k].op # "switch_channel"

Safe(s) == Block(s) /\ Shielded(s) /\ Settled(s)

(* A strict build starts by unmounting the buildroot and deleting both      *)
(* chroots: until a step, the program does nothing but that.                *)
Harmless == Quiet \cup {"remove_markers"}

Soon(s, step) == \E j \in 1..Len(s) : s[j] = step /\ \A i \in 1..j : s[i].op \in Harmless

(* What the bound steps find when their turn comes. *)
Prepared ==
    /\ DeletesNothingMounted
    /\ At("save_init")  => ~Exists(C)
    /\ At("usr_merge")  => ~Exists(C) /\ record[C] = channel
    /\ At("apk_initdb") => ~Exists(C) /\ record[C] = channel
    /\ At("add_user")   => Exists(C)

NativeInBuildroot ==
    \A c \in Chroots : <<c, "native">> \in mounts \/ <<c, "stale_native">> \in mounts => c = Buildroot

Sheltered ==
    /\ NearlyShielded(todo)
    /\ <<Buildroot, "native">> \in mounts => Shielded(todo)

(* Unless auto zapping, which shuts down nothing, is enabled. *)
Shielding == autoZap \/ (<<Buildroot, "stale_native">> \notin mounts /\ Sheltered)

(* What a strict build finds stale, or on another channel, goes before the  *)
(* first chroot is initialized.                                             *)
Strictness ==
    mode = "strict" /\ todo # <<>> =>
        /\ Sheltered /\ Settled(todo)
        /\ <<Buildroot, "stale_native">> \in mounts => Soon(todo, Step("umount_all", Buildroot))
        /\ Exists(Native) /\ record[Native] # channel => Soon(todo, Step("remove", Native))

IInv ==
    /\ TypeOK
    /\ Proper(todo)
    /\ Prepared
    /\ RecordIsTrue
    /\ NativeInBuildroot
    /\ Shielding
    /\ Strictness

(* What a step leaves to do, as far as deleting the native chroot goes. *)
Follows ==
    \/ todo' = todo
    \/ todo' = <<>>
    \/ StartProgram /\ Shielded(todo')
    \/ /\ todo # <<>> /\ todo' = Tail(todo)
       /\ Head(todo) = Step("umount_all", Buildroot) => <<Buildroot, "native">> \notin mounts
    \/ /\ todo # <<>> /\ Head(todo).op \notin Quiet
       /\ \E steps \in Seq(StepType) :
            Shielded(steps) /\ Settled(steps) /\ todo' = steps \o Tail(todo)

(* The step that does not follow. *)
AutoZapsNative == CheckChannel /\ autoZap /\ C = Native /\ WrongChannel(Native)

-----------------------------------------------------------------------------
(* Lemmas about sequences of steps.                                        *)

LEMMA SeqFacts ==
    ASSUME NEW S, NEW s \in Seq(S)
    PROVE  /\ Len(s) \in Nat /\ DOMAIN s = 1..Len(s)
           /\ \A k \in 1..Len(s) : s[k] \in S
           /\ s # <<>> => Len(s) >= 1 /\ Head(s) = s[1]
  BY LenProperties, ElementOfSeq, EmptySeq, HeadTailProperties

LEMMA StepFacts ==
    ASSUME NEW op, NEW c
    PROVE  Step(op, c).op = op /\ Step(op, c).chroot = c
  BY DEF Step

LEMMA EmptyBlock == Block(<<>>)
<1>1. <<>> \in Seq(StepType) /\ Len(<<>>) = 0 /\ DOMAIN <<>> = {}
  OBVIOUS
<1> QED  BY <1>1 DEF Block, Proper, Linked

(* Steps that are bound to no other one may be in any order.               *)
LEMMA FreeSafe ==
    ASSUME NEW s \in Seq(StepType),
           \A k \in 1..Len(s) :
                StepOK(s[k]) /\ s[k].op \notin Bound \cup {"save_init", "switch_channel"}
    PROVE  Safe(s)
<1>1. Len(s) \in Nat /\ DOMAIN s = 1..Len(s) /\ (s # <<>> => Len(s) >= 1 /\ Head(s) = s[1])
  BY SeqFacts
<1>2. \A k \in 2..Len(s) : k \in 1..Len(s)
  BY <1>1
<1>3. Linked(s)
  BY <1>2 DEF Linked, Bound
<1>4. s # <<>> => Head(s).op \notin Bound \cup {"save_init"}
  <2>1. Len(s) >= 1 => 1 \in 1..Len(s)
    BY <1>1
  <2> QED  BY <1>1, <2>1
<1>5. Shielded(s)
  <2>1. Step("remove", Native).op = "remove"
    BY StepFacts
  <2> QED  BY <2>1 DEF Shielded, Deletes, Bound
<1>6. Settled(s)
  BY DEF Settled
<1> QED  BY <1>1, <1>3, <1>4, <1>5, <1>6 DEF Safe, Block, Proper

LEMMA FreeStep ==
    ASSUME NEW op \in Ops, NEW c \in Chroots,
           op \notin Bound \cup {"save_init", "switch_channel"},
           op = "mount_native" => c = Buildroot
    PROVE  Free(Step(op, c))
  BY DEF Step, StepOK, StepType, Free

LEMMA FreeSetStep ==
    ASSUME NEW op \in OnSets, NEW D \in SUBSET Chroots
    PROVE  Free(Step(op, D))
  BY DEF Step, StepOK, StepType, Free, OnSets, Bound, Ops

LEMMA OneStep ==
    ASSUME NEW a,
           Free(a)
    PROVE  Safe(<<a>>)
<1> DEFINE s == <<a>>
<1>1. a \in StepType
  BY DEF Free, StepOK
<1>2. s \in Seq(StepType) /\ \A k \in 1..Len(s) : s[k] \in {a}
  BY <1>1
<1> HIDE DEF s
<1>3. Safe(s)
  BY <1>2, FreeSafe DEF Free
<1> QED  BY <1>3 DEF s

LEMMA TwoSteps ==
    ASSUME NEW a, NEW b,
           Free(a), Free(b)
    PROVE  Safe(<<a, b>>)
<1> DEFINE s == <<a, b>>
<1>1. a \in StepType /\ b \in StepType
  BY DEF Free, StepOK
<1>2. s \in Seq(StepType) /\ \A k \in 1..Len(s) : s[k] \in {a, b}
  BY <1>1
<1> HIDE DEF s
<1>3. Safe(s)
  BY <1>2, FreeSafe DEF Free
<1> QED  BY <1>3 DEF s

LEMMA ThreeSteps ==
    ASSUME NEW a, NEW b, NEW d,
           Free(a), Free(b), Free(d)
    PROVE  Safe(<<a, b, d>>)
<1> DEFINE s == <<a, b, d>>
<1>1. a \in StepType /\ b \in StepType /\ d \in StepType
  BY DEF Free, StepOK
<1>2. s \in Seq(StepType) /\ \A k \in 1..Len(s) : s[k] \in {a, b, d}
  BY <1>1
<1> HIDE DEF s
<1>3. Safe(s)
  BY <1>2, FreeSafe DEF Free
<1> QED  BY <1>3 DEF s

LEMMA FourSteps ==
    ASSUME NEW a, NEW b, NEW d, NEW e,
           Free(a), Free(b), Free(d), Free(e)
    PROVE  Safe(<<a, b, d, e>>)
<1> DEFINE s == <<a, b, d, e>>
<1>1. a \in StepType /\ b \in StepType /\ d \in StepType /\ e \in StepType
  BY DEF Free, StepOK
<1>2. s \in Seq(StepType) /\ \A k \in 1..Len(s) : s[k] \in {a, b, d, e}
  BY <1>1
<1> HIDE DEF s
<1>3. Safe(s)
  BY <1>2, FreeSafe DEF Free
<1> QED  BY <1>3 DEF s

LEMMA FiveSteps ==
    ASSUME NEW a, NEW b, NEW d, NEW e, NEW f,
           Free(a), Free(b), Free(d), Free(e), Free(f)
    PROVE  Safe(<<a, b, d, e, f>>)
<1> DEFINE s == <<a, b, d, e, f>>
<1>1. a \in StepType /\ b \in StepType /\ d \in StepType /\ e \in StepType /\ f \in StepType
  BY DEF Free, StepOK
<1>2. s \in Seq(StepType) /\ \A k \in 1..Len(s) : s[k] \in {a, b, d, e, f}
  BY <1>1
<1> HIDE DEF s
<1>3. Safe(s)
  BY <1>2, FreeSafe DEF Free
<1> QED  BY <1>3 DEF s

LEMMA ConcatProper ==
    ASSUME NEW s, NEW t, Proper(s), Block(t)
    PROVE  /\ Proper(s \o t)
           /\ s # <<>> => s \o t # <<>> /\ Head(s \o t) = Head(s)
           /\ s = <<>> => s \o t = t
<1> DEFINE u == s \o t
<1>1. s \in Seq(StepType) /\ t \in Seq(StepType)
  BY DEF Proper, Block
<1>2. /\ Len(s) \in Nat /\ DOMAIN s = 1..Len(s) /\ (s # <<>> => Len(s) >= 1 /\ Head(s) = s[1])
      /\ Len(t) \in Nat /\ DOMAIN t = 1..Len(t) /\ (t # <<>> => Len(t) >= 1 /\ Head(t) = t[1])
  BY <1>1, SeqFacts
<1>3. /\ u \in Seq(StepType) /\ Len(u) = Len(s) + Len(t)
      /\ \A k \in 1..(Len(s) + Len(t)) : u[k] = IF k <= Len(s) THEN s[k] ELSE t[k - Len(s)]
  BY <1>1, ConcatProperties
<1>4. DOMAIN u = 1..(Len(s) + Len(t))
  BY <1>3, SeqFacts
<1>5. s = <<>> => u = t
  BY <1>1, ConcatEmptySeq
<1> HIDE DEF u
<1>6. \A k \in 1..Len(s) : u[k] = s[k]
  BY <1>2, <1>3
<1>7. \A k \in 1..Len(t) : u[Len(s) + k] = t[k]
  <2> SUFFICES ASSUME NEW k \in 1..Len(t)
               PROVE  u[Len(s) + k] = t[k]
    OBVIOUS
  <2>1. Len(s) + k \in 1..(Len(s) + Len(t)) /\ ~(Len(s) + k <= Len(s)) /\ (Len(s) + k) - Len(s) = k
    BY <1>2
  <2> QED  BY <1>3, <2>1
<1>8. \A k \in DOMAIN u : StepOK(u[k])
  <2> SUFFICES ASSUME NEW k \in 1..(Len(s) + Len(t))
               PROVE  StepOK(u[k])
    BY <1>4
  <2>1. CASE k <= Len(s)
    BY <1>2, <1>6, <2>1 DEF Proper
  <2>2. CASE ~(k <= Len(s))
    <3>1. k - Len(s) \in 1..Len(t) /\ u[k] = t[k - Len(s)]
      BY <1>2, <1>3, <2>2
    <3> QED  BY <1>2, <3>1 DEF Block, Proper
  <2> QED  BY <2>1, <2>2
<1>9. Linked(u)
  <2> SUFFICES ASSUME NEW k \in 2..(Len(s) + Len(t))
               PROVE  /\ u[k].op = "remove"     => u[k - 1] = Step("umount_all", u[k].chroot)
                      /\ u[k].op = "usr_merge"  => u[k - 1] = Step("save_init", u[k].chroot)
                      /\ u[k].op = "apk_initdb" => u[k - 1] = Step("usr_merge", u[k].chroot)
                      /\ u[k].op = "add_user"   => u[k - 1] = Step("apk_initdb", u[k].chroot)
                      /\ u[k].op # "save_init"
    BY <1>3 DEF Linked
  <2>1. CASE k <= Len(s)
    <3>1. k \in 2..Len(s) /\ u[k] = s[k] /\ u[k - 1] = s[k - 1]
      BY <1>2, <1>6, <2>1
    <3> QED  BY <3>1 DEF Proper, Linked
  <2>2. CASE k = Len(s) + 1
    <3>1. t # <<>> /\ u[k] = t[1]
      <4>1. Len(t) >= 1 /\ 1 \in 1..Len(t)
        BY <1>2, <2>2
      <4>2. Len(<<>>) = 0
        OBVIOUS
      <4> QED  BY <1>7, <2>2, <4>1, <4>2
    <3> QED  BY <1>2, <3>1 DEF Block, Bound
  <2>3. CASE k > Len(s) + 1
    <3> DEFINE i == k - Len(s)
    <3>1. i \in 2..Len(t) /\ i - 1 \in 1..Len(t) /\ i \in 1..Len(t)
          /\ Len(s) + i = k /\ Len(s) + (i - 1) = k - 1
      BY <1>2, <2>3
    <3> HIDE DEF i
    <3>2. u[k] = t[i] /\ u[k - 1] = t[i - 1]
      BY <1>7, <3>1
    <3> QED  BY <3>1, <3>2 DEF Block, Proper, Linked
  <2> QED  BY <1>2, <2>1, <2>2, <2>3
<1>10. Proper(u)
  BY <1>3, <1>8, <1>9 DEF Proper
<1>11. s # <<>> => u # <<>> /\ Head(u) = Head(s)
  <2> SUFFICES ASSUME s # <<>>
               PROVE  u # <<>> /\ Head(u) = Head(s)
    OBVIOUS
  <2>1. Len(s) >= 1 /\ Len(u) >= 1 /\ u[1] = s[1] /\ Head(s) = s[1]
    BY <1>2, <1>3, <1>6
  <2>2. u # <<>>
    <3>1. Len(<<>>) = 0
      OBVIOUS
    <3> QED  BY <2>1, <3>1
  <2>3. Head(u) = u[1]
    BY <1>3, <2>2, SeqFacts
  <2> QED  BY <2>1, <2>2, <2>3
<1> QED  BY <1>5, <1>10, <1>11 DEF u

LEMMA ConcatBlock ==
    ASSUME NEW s, NEW t, Block(s), Block(t)
    PROVE  Block(s \o t)
<1>1. Proper(s)
  BY DEF Block
<1>2. CASE s = <<>>
  BY <1>1, <1>2, ConcatProper
<1>3. CASE s # <<>>
  BY <1>1, <1>3, ConcatProper DEF Block
<1> QED  BY <1>2, <1>3

(* Once a step is done that prepares no other, the rest is a block.        *)
LEMMA RestIsBlock ==
    ASSUME NEW s, Proper(s), s # <<>>
    PROVE  /\ Proper(Tail(s))
           /\ Head(s).op \notin Prepares => Block(Tail(s))
           /\ StepOK(Head(s))
           /\ Tail(s) # <<>> =>
                LET h == Head(Tail(s)) IN
                /\ h.op = "remove"     => Head(s) = Step("umount_all", h.chroot)
                /\ h.op = "usr_merge"  => Head(s) = Step("save_init", h.chroot)
                /\ h.op = "apk_initdb" => Head(s) = Step("usr_merge", h.chroot)
                /\ h.op = "add_user"   => Head(s) = Step("apk_initdb", h.chroot)
                /\ h.op # "save_init"
<1> DEFINE u == Tail(s)
<1>1. s \in Seq(StepType)
  BY DEF Proper
<1>2. Len(s) \in Nat /\ DOMAIN s = 1..Len(s) /\ Len(s) >= 1 /\ Head(s) = s[1]
  BY <1>1, SeqFacts
<1>3. u \in Seq(StepType) /\ Len(u) = Len(s) - 1 /\ \A k \in 1..Len(u) : u[k] = s[k + 1]
  BY <1>1, HeadTailProperties
<1>4. DOMAIN u = 1..(Len(s) - 1) /\ (u # <<>> => Len(u) >= 1 /\ Head(u) = u[1])
  BY <1>3, SeqFacts
<1> HIDE DEF u
<1>5. \A k \in DOMAIN u : StepOK(u[k])
  <2> SUFFICES ASSUME NEW k \in 1..(Len(s) - 1)
               PROVE  StepOK(u[k])
    BY <1>4
  <2>1. u[k] = s[k + 1] /\ k + 1 \in DOMAIN s
    BY <1>2, <1>3
  <2> QED  BY <2>1 DEF Proper
<1>6. Linked(u)
  <2> SUFFICES ASSUME NEW k \in 2..(Len(s) - 1)
               PROVE  /\ u[k].op = "remove"     => u[k - 1] = Step("umount_all", u[k].chroot)
                      /\ u[k].op = "usr_merge"  => u[k - 1] = Step("save_init", u[k].chroot)
                      /\ u[k].op = "apk_initdb" => u[k - 1] = Step("usr_merge", u[k].chroot)
                      /\ u[k].op = "add_user"   => u[k - 1] = Step("apk_initdb", u[k].chroot)
                      /\ u[k].op # "save_init"
    BY <1>3 DEF Linked
  <2>1. /\ u[k] = s[k + 1] /\ u[k - 1] = s[(k - 1) + 1]
        /\ k + 1 \in 2..Len(s) /\ (k + 1) - 1 = k /\ (k - 1) + 1 = k
    BY <1>2, <1>3
  <2>2. u[k] = s[k + 1] /\ u[k - 1] = s[(k + 1) - 1]
    BY <2>1
  <2> QED  BY <2>1, <2>2 DEF Proper, Linked
<1>7. u # <<>> =>
        /\ Head(u).op = "remove"     => Head(s) = Step("umount_all", Head(u).chroot)
        /\ Head(u).op = "usr_merge"  => Head(s) = Step("save_init", Head(u).chroot)
        /\ Head(u).op = "apk_initdb" => Head(s) = Step("usr_merge", Head(u).chroot)
        /\ Head(u).op = "add_user"   => Head(s) = Step("apk_initdb", Head(u).chroot)
        /\ Head(u).op # "save_init"
  <2> SUFFICES ASSUME u # <<>>
               PROVE  /\ Head(u).op = "remove"     => Head(s) = Step("umount_all", Head(u).chroot)
                      /\ Head(u).op = "usr_merge"  => Head(s) = Step("save_init", Head(u).chroot)
                      /\ Head(u).op = "apk_initdb" => Head(s) = Step("usr_merge", Head(u).chroot)
                      /\ Head(u).op = "add_user"   => Head(s) = Step("apk_initdb", Head(u).chroot)
                      /\ Head(u).op # "save_init"
    OBVIOUS
  <2>1. 2 \in 2..Len(s) /\ 2 - 1 = 1 /\ Head(u) = s[2] /\ Head(s) = s[1]
    <3>1. Len(u) >= 1 /\ Head(u) = u[1]
      BY <1>4
    <3>2. 1 \in 1..Len(u) /\ u[1] = s[1 + 1]
      BY <1>2, <1>3, <3>1
    <3> QED  BY <1>2, <1>3, <3>1, <3>2
  <2>2. /\ s[2].op = "remove"     => s[2 - 1] = Step("umount_all", s[2].chroot)
        /\ s[2].op = "usr_merge"  => s[2 - 1] = Step("save_init", s[2].chroot)
        /\ s[2].op = "apk_initdb" => s[2 - 1] = Step("usr_merge", s[2].chroot)
        /\ s[2].op = "add_user"   => s[2 - 1] = Step("apk_initdb", s[2].chroot)
        /\ s[2].op # "save_init"
    BY <2>1 DEF Proper, Linked
  <2> QED  BY <2>1, <2>2
<1>8. Head(s).op \notin Prepares => Block(u)
  <2>1. \A c : /\ Step("umount_all", c).op = "umount_all" /\ Step("save_init", c).op = "save_init"
               /\ Step("usr_merge", c).op = "usr_merge" /\ Step("apk_initdb", c).op = "apk_initdb"
    BY StepFacts
  <2> QED  BY <1>3, <1>5, <1>6, <1>7, <2>1 DEF Block, Proper, Prepares, Bound
<1>9. StepOK(Head(s))
  BY <1>2 DEF Proper
<1> QED  BY <1>3, <1>5, <1>6, <1>7, <1>8, <1>9 DEF Proper, u

-----------------------------------------------------------------------------
(* Lemmas about where the native chroot is deleted.                        *)

LEMMA ConcatFacts ==
    ASSUME NEW s \in Seq(StepType), NEW t \in Seq(StepType)
    PROVE  /\ Len(s) \in Nat /\ Len(t) \in Nat /\ Len(s \o t) = Len(s) + Len(t)
           /\ \A k \in 1..Len(s) : (s \o t)[k] = s[k]
           /\ \A k \in 1..Len(t) : (s \o t)[Len(s) + k] = t[k]
<1>1. Len(s) \in Nat /\ Len(t) \in Nat
  BY LenProperties
<1>2. /\ Len(s \o t) = Len(s) + Len(t)
      /\ \A k \in 1..(Len(s) + Len(t)) : (s \o t)[k] = IF k <= Len(s) THEN s[k] ELSE t[k - Len(s)]
  BY ConcatProperties
<1>3. \A k \in 1..Len(s) : (s \o t)[k] = s[k]
  BY <1>1, <1>2
<1>4. ASSUME NEW k \in 1..Len(t)
      PROVE  (s \o t)[Len(s) + k] = t[k]
  <2>1. Len(s) + k \in 1..(Len(s) + Len(t)) /\ ~(Len(s) + k <= Len(s)) /\ (Len(s) + k) - Len(s) = k
    BY <1>1
  <2> QED  BY <1>2, <2>1
<1> QED  BY <1>1, <1>2, <1>3, <1>4

LEMMA ConcatShield ==
    ASSUME NEW s \in Seq(StepType), NEW t \in Seq(StepType)
    PROVE  /\ \A j \in 1..Len(s), k \in 1..Len(s) :
                j <= k /\ Shield(s, j, k) => Shield(s \o t, j, k)
           /\ \A j \in 1..Len(t), k \in 1..Len(t) :
                Shield(t, j, k) => Shield(s \o t, Len(s) + j, Len(s) + k)
           /\ \A j \in 1..Len(s), k \in 1..Len(t) :
                Shield(s, j, Len(s)) /\ QuietUpTo(t, k) => Shield(s \o t, j, Len(s) + k)
<1> DEFINE u == s \o t
<1>1. /\ Len(s) \in Nat /\ Len(t) \in Nat
      /\ \A k \in 1..Len(s) : u[k] = s[k]
      /\ \A k \in 1..Len(t) : u[Len(s) + k] = t[k]
  BY ConcatFacts
<1> HIDE DEF u
<1>2. ASSUME NEW j \in 1..Len(s), NEW k \in 1..Len(s), j <= k, Shield(s, j, k)
      PROVE  Shield(u, j, k)
  <2>1. \A i \in j..k : i \in 1..Len(s)
    BY <1>1
  <2> QED  BY <1>1, <1>2, <2>1 DEF Shield
<1>3. ASSUME NEW j \in 1..Len(t), NEW k \in 1..Len(t), Shield(t, j, k)
      PROVE  Shield(u, Len(s) + j, Len(s) + k)
  <2>1. ASSUME NEW i \in (Len(s) + j)..(Len(s) + k)
        PROVE  u[i].op \in Quiet
    <3>1. i - Len(s) \in 1..Len(t) /\ i - Len(s) \in j..k /\ Len(s) + (i - Len(s)) = i
      BY <1>1
    <3>2. u[i] = t[i - Len(s)]
      BY <1>1, <3>1
    <3> QED  BY <1>3, <3>1, <3>2 DEF Shield
  <2> QED  BY <1>1, <1>3, <2>1 DEF Shield
<1>4. ASSUME NEW j \in 1..Len(s), NEW k \in 1..Len(t), Shield(s, j, Len(s)), QuietUpTo(t, k)
      PROVE  Shield(u, j, Len(s) + k)
  <2>1. ASSUME NEW i \in j..(Len(s) + k)
        PROVE  u[i].op \in Quiet
    <3>1. CASE i <= Len(s)
      <4>1. i \in 1..Len(s) /\ i \in j..Len(s)
        BY <1>1, <3>1
      <4> QED  BY <1>1, <1>4, <4>1 DEF Shield
    <3>2. CASE ~(i <= Len(s))
      <4>1. i - Len(s) \in 1..Len(t) /\ i - Len(s) \in 1..k /\ Len(s) + (i - Len(s)) = i
        BY <1>1, <3>2
      <4>2. u[i] = t[i - Len(s)]
        BY <1>1, <4>1
      <4> QED  BY <1>4, <4>1, <4>2 DEF QuietUpTo
    <3> QED  BY <3>1, <3>2
  <2> QED  BY <1>1, <1>4, <2>1 DEF Shield
<1> QED  BY <1>2, <1>3, <1>4 DEF u

LEMMA ConcatShielded ==
    ASSUME NEW s \in Seq(StepType), NEW t \in Seq(StepType)
    PROVE  /\ Shielded(s) /\ Shielded(t) => Shielded(s \o t)
           /\ NearlyShielded(s) /\ Shielded(t) => NearlyShielded(s \o t)
           /\ Shielded(s) /\ EndsShielded(s) /\ NearlyShielded(t) => Shielded(s \o t)
           /\ EndsShielded(t) => EndsShielded(s \o t)
<1> DEFINE u == s \o t
           n == Len(s)
           Before(k) == \E j \in 1..(k - 1) : Shield(u, j, k)
<1>1. /\ n \in Nat /\ Len(t) \in Nat /\ Len(u) = n + Len(t)
      /\ \A k \in 1..n : u[k] = s[k]
      /\ \A k \in 1..Len(t) : u[n + k] = t[k]
  BY ConcatFacts
<1>2. /\ \A j \in 1..n, k \in 1..n : j <= k /\ Shield(s, j, k) => Shield(u, j, k)
      /\ \A j \in 1..Len(t), k \in 1..Len(t) : Shield(t, j, k) => Shield(u, n + j, n + k)
      /\ \A j \in 1..n, k \in 1..Len(t) :
            Shield(s, j, n) /\ QuietUpTo(t, k) => Shield(u, j, n + k)
  BY ConcatShield
<1> HIDE DEF u, n
<1>3. ASSUME NEW k \in 1..n, NEW j \in 1..(k - 1), Shield(s, j, k)
      PROVE  Before(k)
  <2>1. j \in 1..n /\ j <= k
    BY <1>1
  <2> QED  BY <1>2, <1>3, <2>1
<1>4. ASSUME NEW k \in 1..Len(t), NEW j \in 1..(k - 1), Shield(t, j, k)
      PROVE  Before(n + k)
  <2>1. j \in 1..Len(t) /\ n + j \in 1..((n + k) - 1)
    BY <1>1
  <2> QED  BY <1>2, <1>4, <2>1
<1>5. ASSUME NEW k \in 1..Len(t), NEW j \in 1..n, Shield(s, j, n), QuietUpTo(t, k)
      PROVE  Before(n + k)
  <2>1. j \in 1..((n + k) - 1)
    BY <1>1
  <2> QED  BY <1>2, <1>5, <2>1
<1> HIDE DEF Before
<1>6. ASSUME NEW k \in 1..Len(u)
      PROVE  \/ k \in 1..n /\ u[k] = s[k]
             \/ \E i \in 1..Len(t) : k = n + i /\ u[k] = t[i]
  <2>1. CASE k <= n
    BY <1>1, <2>1
  <2>2. CASE ~(k <= n)
    <3>1. k - n \in 1..Len(t) /\ n + (k - n) = k
      BY <1>1, <2>2
    <3> QED  BY <1>1, <3>1
  <2> QED  BY <2>1, <2>2
<1>7. ASSUME Shielded(s), Shielded(t)
      PROVE  Shielded(u)
  <2>1. ASSUME NEW k \in 1..Len(u), Deletes(u, k)
        PROVE  Before(k)
    <3>1. CASE k \in 1..n /\ u[k] = s[k]
      BY <1>3, <1>7, <2>1, <3>1 DEF Shielded, Deletes, n
    <3>2. CASE \E i \in 1..Len(t) : k = n + i /\ u[k] = t[i]
      BY <1>4, <1>7, <2>1, <3>2 DEF Shielded, Deletes
    <3> QED  BY <1>6, <3>1, <3>2
  <2> QED  BY <2>1 DEF Shielded, Before
<1>8. ASSUME NearlyShielded(s), Shielded(t)
      PROVE  NearlyShielded(u)
  <2>1. ASSUME NEW k \in 1..Len(u), Deletes(u, k)
        PROVE  QuietUpTo(u, k) \/ Before(k)
    <3>1. CASE k \in 1..n /\ u[k] = s[k]
      <4>1. CASE QuietUpTo(s, k)
        <5>1. \A i \in 1..k : i \in 1..n
          BY <1>1, <3>1
        <5> QED  BY <1>1, <4>1, <5>1 DEF QuietUpTo
      <4>2. CASE \E j \in 1..(k - 1) : Shield(s, j, k)
        BY <1>3, <3>1, <4>2
      <4> QED  BY <1>8, <2>1, <3>1, <4>1, <4>2 DEF NearlyShielded, Deletes, n
    <3>2. CASE \E i \in 1..Len(t) : k = n + i /\ u[k] = t[i]
      BY <1>4, <1>8, <2>1, <3>2 DEF Shielded, Deletes
    <3> QED  BY <1>6, <3>1, <3>2
  <2> QED  BY <2>1 DEF NearlyShielded, Before
<1>9. ASSUME Shielded(s), EndsShielded(s), NearlyShielded(t)
      PROVE  Shielded(u)
  <2>1. ASSUME NEW k \in 1..Len(u), Deletes(u, k)
        PROVE  Before(k)
    <3>1. CASE k \in 1..n /\ u[k] = s[k]
      BY <1>3, <1>9, <2>1, <3>1 DEF Shielded, Deletes, n
    <3>2. CASE \E i \in 1..Len(t) : k = n + i /\ u[k] = t[i]
      <4>1. PICK i \in 1..Len(t) : k = n + i /\ u[k] = t[i]
        BY <3>2
      <4>2. CASE QuietUpTo(t, i)
        BY <1>5, <1>9, <4>1, <4>2 DEF EndsShielded, n
      <4>3. CASE \E j \in 1..(i - 1) : Shield(t, j, i)
        BY <1>4, <4>1, <4>3
      <4> QED  BY <1>9, <2>1, <4>1, <4>2, <4>3 DEF NearlyShielded, Deletes
    <3> QED  BY <1>6, <3>1, <3>2
  <2> QED  BY <2>1 DEF Shielded, Before
<1>10. ASSUME EndsShielded(t)
       PROVE  EndsShielded(u)
  <2>1. PICK j \in 1..Len(t) : Shield(t, j, Len(t))
    BY <1>10 DEF EndsShielded
  <2>2. n + j \in 1..Len(u) /\ Len(t) \in 1..Len(t)
    BY <1>1
  <2>3. Shield(u, n + j, Len(u))
    BY <1>1, <1>2, <2>1, <2>2
  <2> QED  BY <2>2, <2>3 DEF EndsShielded
<1> QED  BY <1>7, <1>8, <1>9, <1>10 DEF u

(* What is left after a step. *)
LEMMA TailShielded ==
    ASSUME NEW s \in Seq(StepType), s # <<>>
    PROVE  /\ Shielded(s) /\ Head(s) # Step("umount_all", Buildroot) => Shielded(Tail(s))
           /\ NearlyShielded(s) /\ Head(s).op \in Quiet => NearlyShielded(Tail(s))
           /\ NearlyShielded(s) /\ Head(s).op \notin Quiet => Shielded(s)
           /\ Shielded(s) => NearlyShielded(s) /\ ~Deletes(s, 1)
<1> DEFINE t == Tail(s)
<1>1. Len(s) \in Nat /\ Len(s) >= 1 /\ Head(s) = s[1]
  BY SeqFacts
<1>2. Len(t) = Len(s) - 1 /\ \A k \in 1..Len(t) : t[k] = s[k + 1]
  BY HeadTailProperties
<1> HIDE DEF t
<1>3. ASSUME NEW k \in 1..Len(t), NEW j \in 1..((k + 1) - 1), Shield(s, j, k + 1)
      PROVE  j = 1 \/ \E i \in 1..(k - 1) : Shield(t, i, k)
  <2> SUFFICES ASSUME j # 1
               PROVE  \E i \in 1..(k - 1) : Shield(t, i, k)
    OBVIOUS
  <2>1. j - 1 \in 1..(k - 1) /\ j - 1 \in 1..Len(t) /\ (j - 1) + 1 = j
    BY <1>1, <1>2
  <2>2. t[j - 1] = s[j]
    BY <1>2, <2>1
  <2>3. ASSUME NEW i \in (j - 1)..k PROVE t[i].op \in Quiet
    <3>1. i \in 1..Len(t) /\ i + 1 \in j..(k + 1)
      BY <1>1, <1>2, <2>1
    <3> QED  BY <1>2, <1>3, <3>1 DEF Shield
  <2>4. Shield(t, j - 1, k)
    BY <1>3, <2>2, <2>3 DEF Shield
  <2> QED  BY <2>1, <2>4
<1>4. ASSUME NEW k \in 1..Len(t), Deletes(t, k)
      PROVE  k + 1 \in 1..Len(s) /\ Deletes(s, k + 1)
  BY <1>1, <1>2, <1>4 DEF Deletes
<1>5. ASSUME Shielded(s), Head(s) # Step("umount_all", Buildroot)
      PROVE  Shielded(t)
  <2>1. ASSUME NEW k \in 1..Len(t), Deletes(t, k)
        PROVE  \E i \in 1..(k - 1) : Shield(t, i, k)
    <3>1. PICK j \in 1..((k + 1) - 1) : Shield(s, j, k + 1)
      BY <1>4, <1>5, <2>1 DEF Shielded
    <3>2. j # 1
      BY <1>1, <1>5, <3>1 DEF Shield
    <3> QED  BY <1>3, <3>1, <3>2
  <2> QED  BY <2>1 DEF Shielded
<1>6. ASSUME NearlyShielded(s), Head(s).op \in Quiet
      PROVE  NearlyShielded(t)
  <2>1. ASSUME NEW k \in 1..Len(t), Deletes(t, k)
        PROVE  QuietUpTo(t, k) \/ \E i \in 1..(k - 1) : Shield(t, i, k)
    <3>1. ASSUME \A i \in 1..(k + 1) : s[i].op \in Quiet
          PROVE  QuietUpTo(t, k)
      <4>1. \A i \in 1..k : i \in 1..Len(t) /\ i + 1 \in 1..(k + 1)
        BY <1>1, <1>2
      <4> QED  BY <1>2, <3>1, <4>1 DEF QuietUpTo
    <3>2. CASE QuietUpTo(s, k + 1)
      BY <3>1, <3>2 DEF QuietUpTo
    <3>3. CASE \E j \in 1..((k + 1) - 1) : Shield(s, j, k + 1)
      <4>1. PICK j \in 1..((k + 1) - 1) : Shield(s, j, k + 1)
        BY <3>3
      <4>2. CASE j = 1
        BY <3>1, <4>1, <4>2 DEF Shield
      <4> QED  BY <1>3, <4>1, <4>2
    <3> QED  BY <1>4, <1>6, <2>1, <3>2, <3>3 DEF NearlyShielded
  <2> QED  BY <2>1 DEF NearlyShielded
<1>7. ASSUME NearlyShielded(s), Head(s).op \notin Quiet
      PROVE  Shielded(s)
  <2>1. ASSUME NEW k \in 1..Len(s) PROVE ~QuietUpTo(s, k)
    <3>1. 1 \in 1..k
      BY <1>1
    <3> QED  BY <1>1, <1>7, <3>1 DEF QuietUpTo
  <2> QED  BY <1>7, <2>1 DEF NearlyShielded, Shielded
<1>8. Shielded(s) => NearlyShielded(s) /\ ~Deletes(s, 1)
  <2>1. 1 \in 1..Len(s) /\ 1..(1 - 1) = {}
    BY <1>1
  <2> QED  BY <2>1 DEF Shielded, NearlyShielded
<1> QED  BY <1>5, <1>6, <1>7, <1>8 DEF t

LEMMA ConcatSettled ==
    ASSUME NEW s \in Seq(StepType), NEW t \in Seq(StepType), Settled(s), Settled(t)
    PROVE  Settled(s \o t)
<1> DEFINE u == s \o t
<1>1. /\ Len(s) \in Nat /\ Len(t) \in Nat /\ Len(u) = Len(s) + Len(t)
      /\ \A k \in 1..Len(s) : u[k] = s[k]
      /\ \A k \in 1..Len(t) : u[Len(s) + k] = t[k]
  BY ConcatFacts
<1> HIDE DEF u
<1>2. ASSUME NEW k \in 1..Len(u)
      PROVE  k \in 1..Len(s) \/ (k - Len(s) \in 1..Len(t) /\ Len(s) + (k - Len(s)) = k)
  BY <1>1
<1>3. Settled(u)
  BY <1>1, <1>2 DEF Settled
<1> QED  BY <1>3 DEF u

LEMMA TailSettled ==
    ASSUME NEW s \in Seq(StepType), s # <<>>, Settled(s)
    PROVE  Settled(Tail(s))
<1> DEFINE t == Tail(s)
<1>1. Len(s) \in Nat /\ Len(t) = Len(s) - 1 /\ \A k \in 1..Len(t) : t[k] = s[k + 1]
  BY HeadTailProperties, LenProperties
<1> HIDE DEF t
<1>2. \A k \in 1..Len(t) : k + 1 \in 1..Len(s)
  BY <1>1
<1>3. Settled(t)
  BY <1>1, <1>2 DEF Settled
<1> QED  BY <1>3 DEF t

(* What is soon to be done is done now, or still soon. *)
LEMMA SoonStep ==
    ASSUME NEW s \in Seq(StepType), NEW step, Soon(s, step)
    PROVE  /\ s # <<>> /\ Head(s).op \in Harmless
           /\ Head(s) = step \/ Soon(Tail(s), step)
<1>1. Len(s) \in Nat /\ (s # <<>> => Head(s) = s[1])
  BY SeqFacts
<1>2. PICK j \in 1..Len(s) : s[j] = step /\ \A i \in 1..j : s[i].op \in Harmless
  BY DEF Soon
<1>3. s # <<>>
  <2>1. Len(<<>>) = 0
    OBVIOUS
  <2> QED  BY <1>1, <1>2, <2>1
<1>4. Head(s).op \in Harmless
  <2>1. 1 \in 1..j
    BY <1>1, <1>2
  <2> QED  BY <1>1, <1>2, <1>3, <2>1
<1>5. CASE j = 1
  BY <1>1, <1>2, <1>3, <1>4, <1>5
<1>6. CASE j # 1
  <2> DEFINE t == Tail(s)
  <2>1. Len(t) = Len(s) - 1 /\ \A k \in 1..Len(t) : t[k] = s[k + 1]
    BY <1>3, HeadTailProperties
  <2> HIDE DEF t
  <2>2. j - 1 \in 1..Len(t) /\ (j - 1) + 1 = j
    BY <1>1, <1>6, <2>1
  <2>3. \A i \in 1..(j - 1) : i \in 1..Len(t) /\ i + 1 \in 1..j
    BY <1>1, <2>1, <2>2
  <2>4. Soon(t, step)
    BY <1>2, <2>1, <2>2, <2>3 DEF Soon
  <2> QED  BY <1>3, <1>4, <2>4 DEF t
<1> QED  BY <1>5, <1>6

LEMMA SoonBefore ==
    ASSUME NEW s \in Seq(StepType), NEW t \in Seq(StepType), NEW step, Soon(s, step)
    PROVE  Soon(s \o t, step)
<1> DEFINE u == s \o t
<1>1. /\ Len(s) \in Nat /\ Len(t) \in Nat /\ Len(u) = Len(s) + Len(t)
      /\ \A k \in 1..Len(s) : u[k] = s[k]
  BY ConcatFacts
<1> HIDE DEF u
<1>2. PICK j \in 1..Len(s) : s[j] = step /\ \A i \in 1..j : s[i].op \in Harmless
  BY DEF Soon
<1>3. j \in 1..Len(u) /\ \A i \in 1..j : i \in 1..Len(s)
  BY <1>1
<1>4. Soon(u, step)
  BY <1>1, <1>2, <1>3 DEF Soon
<1> QED  BY <1>4 DEF u

LEMMA SoonAfter ==
    ASSUME NEW s \in Seq(StepType), NEW t \in Seq(StepType), NEW step, Soon(t, step),
           \A i \in 1..Len(s) : s[i].op \in Harmless
    PROVE  Soon(s \o t, step)
<1> DEFINE u == s \o t
<1>1. /\ Len(s) \in Nat /\ Len(t) \in Nat /\ Len(u) = Len(s) + Len(t)
      /\ \A k \in 1..Len(s) : u[k] = s[k]
      /\ \A k \in 1..Len(t) : u[Len(s) + k] = t[k]
  BY ConcatFacts
<1> HIDE DEF u
<1>2. PICK j \in 1..Len(t) : t[j] = step /\ \A i \in 1..j : t[i].op \in Harmless
  BY DEF Soon
<1>3. Len(s) + j \in 1..Len(u) /\ u[Len(s) + j] = step
  BY <1>1, <1>2
<1>4. ASSUME NEW i \in 1..(Len(s) + j)
      PROVE  u[i].op \in Harmless
  <2>1. CASE i \in 1..Len(s)
    BY <1>1, <2>1
  <2>2. CASE i \notin 1..Len(s)
    <3>1. i - Len(s) \in 1..j /\ i - Len(s) \in 1..Len(t) /\ Len(s) + (i - Len(s)) = i
      BY <1>1, <2>2
    <3>2. u[i] = t[i - Len(s)]
      BY <1>1, <3>1
    <3> QED  BY <1>2, <3>1, <3>2
  <2> QED  BY <2>1, <2>2
<1>5. Soon(u, step)
  BY <1>3, <1>4 DEF Soon
<1> QED  BY <1>5 DEF u

LEMMA ConcatSafe ==
    ASSUME NEW s, NEW t, Safe(s), Safe(t)
    PROVE  Safe(s \o t)
  BY ConcatBlock, ConcatShielded, ConcatSettled DEF Safe, Block, Proper

LEMMA EmptySafe == Safe(<<>>)
<1>1. 1..Len(<<>>) = {}
  OBVIOUS
<1> QED  BY <1>1, EmptyBlock DEF Safe, Shielded, Settled

LEMMA WhenSafe ==
    ASSUME NEW condition, NEW s, Safe(s)
    PROVE  Safe(When(condition, s))
  BY EmptySafe DEF When

-----------------------------------------------------------------------------
(* What programs and calls put in front of the steps that are left.        *)

LEMMA ChrootsAreThree == Native \in Chroots /\ Buildroot \in Chroots /\ Rootfs \in Chroots
  BY DEF Chroots

(* Two steps that belong together: unmounting and deleting.                *)
LEMMA UmountAndRemoveBlock ==
    ASSUME NEW c \in Chroots
    PROVE  Block(UmountAndRemove(c))
<1> DEFINE s == <<Step("umount_all", c), Step("remove", c)>>
<1>1. StepOK(Step("umount_all", c)) /\ StepOK(Step("remove", c))
  BY DEF Step, StepOK, StepType, Ops, OnSets
<1>2. s \in Seq(StepType) /\ Len(s) = 2 /\ s[1] = Step("umount_all", c) /\ s[2] = Step("remove", c)
  BY <1>1 DEF StepOK
<1>3. DOMAIN s = {1, 2} /\ Head(s) = s[1]
  BY <1>2
<1> HIDE DEF s
<1>4. /\ Step("umount_all", c).op = "umount_all"
      /\ Step("remove", c).op = "remove" /\ Step("remove", c).chroot = c
  BY StepFacts
<1>5. Linked(s)
  <2>1. \A k \in 2..Len(s) : k = 2 /\ s[k - 1] = s[1]
    BY <1>2
  <2> QED  BY <1>2, <1>4, <2>1 DEF Linked
<1>6. \A k \in DOMAIN s : StepOK(s[k])
  BY <1>1, <1>2, <1>3
<1>7. Block(s)
  BY <1>2, <1>3, <1>4, <1>5, <1>6 DEF Block, Proper, Bound
<1> QED  BY <1>7 DEF s, UmountAndRemove

LEMMA Distinct == Native # Buildroot /\ Native # Rootfs /\ Buildroot # Rootfs
<1>1. ASSUME NEW a, NEW b PROVE Chroots # {a} \cup {b}
  <2> SUFFICES ASSUME Chroots = {a} \cup {b} PROVE FALSE
    OBVIOUS
  <2>1. IsFiniteSet({a}) /\ Cardinality({a}) = 1
    BY FS_Singleton
  <2>2. Cardinality(Chroots) = 1 \/ Cardinality(Chroots) = 1 + 1
    BY <2>1, FS_AddElement
  <2> QED  BY <2>2, ChrootsAssumption
<1>2. Native = Buildroot => Chroots = {Native} \cup {Rootfs}
  BY DEF Chroots
<1>3. Native = Rootfs => Chroots = {Native} \cup {Buildroot}
  BY DEF Chroots
<1>4. Buildroot = Rootfs => Chroots = {Native} \cup {Buildroot}
  BY DEF Chroots
<1> QED  BY <1>1, <1>2, <1>3, <1>4

LEMMA UmountAndRemoveShielded ==
    /\ Shielded(UmountAndRemove(Rootfs))
    /\ Shielded(UmountAndRemove(Buildroot)) /\ EndsShielded(UmountAndRemove(Buildroot))
    /\ NearlyShielded(UmountAndRemove(Native))
<1>1. ASSUME NEW c \in Chroots
      PROVE  LET s == UmountAndRemove(c) IN
             /\ Len(s) = 2 /\ s[1] = Step("umount_all", c) /\ s[2] = Step("remove", c)
             /\ s[1].op \in Quiet /\ s[2].op \in Quiet
  BY StepFacts DEF UmountAndRemove, Quiet
<1>2. Step("remove", Rootfs) # Step("remove", Native)
  BY StepFacts, Distinct
<1>3. \A c : Step("umount_all", c).op = "umount_all" /\ Step("remove", c).op = "remove"
  BY StepFacts
<1>4. Shielded(UmountAndRemove(Rootfs))
  <2> DEFINE s == UmountAndRemove(Rootfs)
  <2>1. Len(s) = 2 /\ s[1] = Step("umount_all", Rootfs) /\ s[2] = Step("remove", Rootfs)
    BY <1>1, ChrootsAreThree
  <2> HIDE DEF s
  <2>2. \A k \in 1..Len(s) : ~Deletes(s, k)
    <3>1. s[1] # Step("remove", Native) /\ s[2] # Step("remove", Native)
      BY <1>2, <1>3, <2>1
    <3>2. \A k \in 1..Len(s) : k = 1 \/ k = 2
      BY <2>1
    <3> QED  BY <3>1, <3>2 DEF Deletes
  <2> QED  BY <2>2 DEF Shielded, s
<1>5. Shielded(UmountAndRemove(Buildroot)) /\ EndsShielded(UmountAndRemove(Buildroot))
  <2> DEFINE s == UmountAndRemove(Buildroot)
  <2>1. /\ Len(s) = 2 /\ s[1] = Step("umount_all", Buildroot)
        /\ s[1].op \in Quiet /\ s[2].op \in Quiet
    BY <1>1, ChrootsAreThree
  <2> HIDE DEF s
  <2>2. Shield(s, 1, 2)
    <3>1. \A i \in 1..2 : i = 1 \/ i = 2
      OBVIOUS
    <3> QED  BY <2>1, <3>1 DEF Shield
  <2>3. \A k \in 1..Len(s) : k = 1 \/ k = 2
    BY <2>1
  <2>4. ~Deletes(s, 1)
    BY <1>3, <2>1 DEF Deletes
  <2>5. 1 \in 1..(2 - 1) /\ 1 \in 1..Len(s)
    BY <2>1
  <2>6. Shielded(s)
    BY <2>2, <2>3, <2>4, <2>5 DEF Shielded
  <2>7. EndsShielded(s)
    BY <2>1, <2>2, <2>5 DEF EndsShielded
  <2> QED  BY <2>6, <2>7 DEF s
<1>6. NearlyShielded(UmountAndRemove(Native))
  <2> DEFINE s == UmountAndRemove(Native)
  <2>1. Len(s) = 2 /\ s[1].op \in Quiet /\ s[2].op \in Quiet
    BY <1>1, ChrootsAreThree
  <2> HIDE DEF s
  <2>2. \A k \in 1..Len(s) : QuietUpTo(s, k)
    <3>1. \A k \in 1..Len(s) : \A i \in 1..k : i = 1 \/ i = 2
      BY <2>1
    <3> QED  BY <2>1, <3>1 DEF QuietUpTo
  <2> QED  BY <2>2 DEF NearlyShielded, s
<1> QED  BY <1>4, <1>5, <1>6

LEMMA UmountAndRemoveSettled ==
    ASSUME NEW c
    PROVE  Settled(UmountAndRemove(c))
<1> DEFINE s == UmountAndRemove(c)
<1>1. Len(s) = 2 /\ s[1] = Step("umount_all", c) /\ s[2] = Step("remove", c)
  BY DEF UmountAndRemove
<1> HIDE DEF s
<1>2. \A k \in 1..Len(s) : k = 1 \/ k = 2
  BY <1>1
<1>3. Settled(s)
  BY <1>1, <1>2, StepFacts DEF Settled
<1> QED  BY <1>3 DEF s

(* The steps that create a chroot start with recording its channel.        *)
LEMMA CreateStepsProper ==
    ASSUME NEW c \in Chroots
    PROVE  /\ Proper(CreateSteps(c)) /\ CreateSteps(c) # <<>>
           /\ Head(CreateSteps(c)) = Step("save_init", c) /\ Shielded(CreateSteps(c))
           /\ Settled(CreateSteps(c))
<1> DEFINE s == CreateSteps(c)
<1>1. /\ StepOK(Step("save_init", c)) /\ StepOK(Step("usr_merge", c))
      /\ StepOK(Step("apk_initdb", c)) /\ StepOK(Step("add_user", c))
  BY DEF Step, StepOK, StepType, Ops, OnSets
<1>2. /\ s \in Seq(StepType) /\ Len(s) = 4 /\ s # <<>>
      /\ s[1] = Step("save_init", c) /\ s[2] = Step("usr_merge", c)
      /\ s[3] = Step("apk_initdb", c) /\ s[4] = Step("add_user", c)
  BY <1>1 DEF StepOK, CreateSteps
<1> HIDE DEF s
<1>3. DOMAIN s = 1..4 /\ Head(s) = s[1]
  BY <1>2, SeqFacts
<1>4. \A k \in 1..4 : k = 1 \/ k = 2 \/ k = 3 \/ k = 4
  OBVIOUS
<1>5. \A k \in DOMAIN s : StepOK(s[k])
  BY <1>1, <1>2, <1>3, <1>4
<1>6. /\ Step("save_init", c).op = "save_init" /\ Step("usr_merge", c).op = "usr_merge"
      /\ Step("apk_initdb", c).op = "apk_initdb" /\ Step("add_user", c).op = "add_user"
      /\ Step("usr_merge", c).chroot = c /\ Step("apk_initdb", c).chroot = c
      /\ Step("add_user", c).chroot = c
  BY StepFacts
<1>7. Linked(s)
  <2> SUFFICES ASSUME NEW k \in 2..Len(s)
               PROVE  /\ s[k].op = "remove"     => s[k - 1] = Step("umount_all", s[k].chroot)
                      /\ s[k].op = "usr_merge"  => s[k - 1] = Step("save_init", s[k].chroot)
                      /\ s[k].op = "apk_initdb" => s[k - 1] = Step("usr_merge", s[k].chroot)
                      /\ s[k].op = "add_user"   => s[k - 1] = Step("apk_initdb", s[k].chroot)
                      /\ s[k].op # "save_init"
    BY DEF Linked
  <2>1. \/ s[k] = Step("usr_merge", c) /\ s[k - 1] = Step("save_init", c)
        \/ s[k] = Step("apk_initdb", c) /\ s[k - 1] = Step("usr_merge", c)
        \/ s[k] = Step("add_user", c) /\ s[k - 1] = Step("apk_initdb", c)
    <3>1. k = 2 \/ k = 3 \/ k = 4
      BY <1>2
    <3>2. 2 - 1 = 1 /\ 3 - 1 = 2 /\ 4 - 1 = 3
      OBVIOUS
    <3> QED  BY <1>2, <3>1, <3>2
  <2> QED  BY <1>6, <2>1
<1>8. Shielded(s)
  <2>1. Step("remove", Native).op = "remove"
    BY StepFacts
  <2> QED  BY <1>2, <1>3, <1>4, <1>6, <2>1 DEF Shielded, Deletes
<1>9. Settled(s)
  BY <1>2, <1>3, <1>4, <1>6 DEF Settled
<1> QED  BY <1>2, <1>3, <1>5, <1>7, <1>8, <1>9 DEF Proper, s

LEMMA FreeSteps ==
    ASSUME NEW c \in Chroots
    PROVE  /\ Free(Step("init", c)) /\ Free(Step("check_channel", c))
           /\ Free(Step("mount_dev", c)) /\ Free(Step("mount_keys", c))
           /\ Free(Step("mount_packages", c)) /\ Free(Step("register", c))
           /\ Free(Step("add_qemu", c)) /\ Free(Step("binfmt", c))
           /\ Free(Step("bind_qemu", c)) /\ Free(Step("mark", c))
           /\ Free(Step("setup", c)) /\ Free(Step("cache", c))
           /\ Free(Step("umount_all", c)) /\ Free(Step("install", c))
           /\ Free(Step("install_build", c)) /\ Free(Step("apk_add", c))
           /\ Free(Step("packages", c)) /\ Free(Step("build_init", c))
           /\ Free(Step("build_init_done", c)) /\ Free(Step("bind_sysroot", c))
           /\ Free(Step("umount_sysroot", c)) /\ Free(Step("run", c))
           /\ Free(Step("abuild", c)) /\ Free(Step("ensure_native", c))
           /\ Free(Step("add_tools", c)) /\ Free(Step("partition", c))
           /\ Free(Step("remove_marker", c)) /\ Free(Step("bind_rootfs", c))
           /\ Free(Step("copy", c)) /\ Free(Step("create_image", c))
           /\ Free(Step("umount_mnt", c))
           /\ c = Buildroot => Free(Step("mount_native", c))
  BY FreeStep DEF Ops, Bound

LEMMA FreeSetSteps ==
    ASSUME NEW D \in SUBSET Chroots
    PROVE  /\ Free(Step("remove_markers", D)) /\ Free(Step("unregister", D))
           /\ Free(Step("clean", D)) /\ Free(Step("cache_clear", D))
  BY FreeSetStep DEF OnSets

LEMMA MountStepsSafe ==
    ASSUME NEW c \in Chroots
    PROVE  Safe(MountSteps(c))
<1>1. Safe(<<Step("mount_dev", c), Step("mount_keys", c), Step("mount_packages", c)>>)
  BY FreeSteps, ThreeSteps
<1>2. Safe(IF c \in Emulated THEN <<Step("register", c), Step("bind_qemu", c)>> ELSE <<>>)
  BY FreeSteps, TwoSteps, EmptySafe
<1> QED  BY <1>1, <1>2, ConcatSafe DEF MountSteps

LEMMA InitStepsSafe ==
    ASSUME NEW c \in Chroots
    PROVE  Safe(InitSteps(c))
<1>1. Safe(<<Step("check_channel", c)>>)
  BY FreeSteps, OneStep
<1>2. Safe(<<Step("mark", c), Step("setup", c), Step("cache", c)>>)
  BY FreeSteps, ThreeSteps
<1> QED  BY <1>1, <1>2, MountStepsSafe, ConcatSafe DEF InitSteps

(* Zapping the buildroots unmounts the buildroot before it deletes the     *)
(* native chroot.                                                          *)
LEMMA ZapBuildrootsStepsSafe == Safe(ZapBuildrootsSteps)
<1> DEFINE s == <<Step("remove_markers", {Native, Buildroot}), Step("umount_all", Buildroot)>>
<1>1. Safe(s) /\ s \in Seq(StepType)
  <2>1. Free(Step("remove_markers", {Native, Buildroot}))
    BY FreeSetSteps, ChrootsAreThree
  <2>2. Safe(s)
    BY <2>1, FreeSteps, TwoSteps, ChrootsAreThree
  <2> QED  BY <2>2 DEF Safe, Block, Proper
<1>3. Safe(<<Step("cache_clear", Chroots)>>)
  BY FreeSetSteps, OneStep
<1>4. /\ Block(UmountAndRemove(Native)) /\ NearlyShielded(UmountAndRemove(Native))
      /\ Settled(UmountAndRemove(Native))
      /\ Safe(UmountAndRemove(Buildroot)) /\ EndsShielded(UmountAndRemove(Buildroot))
  BY UmountAndRemoveBlock, UmountAndRemoveShielded, UmountAndRemoveSettled, ChrootsAreThree
  DEF Safe
<1>5. Safe(UmountAndRemove(Buildroot) \o UmountAndRemove(Native))
  BY <1>4, ConcatBlock, ConcatShielded, ConcatSettled DEF Safe, Block, Proper
<1>6. Safe(DeleteBuildroots)
  BY <1>3, <1>5, ConcatSafe DEF DeleteBuildroots
<1> HIDE DEF s
<1>7. Safe(s \o DeleteBuildroots)
  BY <1>1, <1>6, ConcatSafe
<1> QED  BY <1>7 DEF ZapBuildrootsSteps, s

LEMMA ShutdownStepsSafe == Safe(ShutdownSteps)
<1>1. Free(Step("remove_markers", Chroots)) /\ Free(Step("unregister", Chroots))
  BY FreeSetSteps
<1>2. /\ Free(Step("umount_all", Native)) /\ Free(Step("umount_all", Buildroot))
      /\ Free(Step("umount_all", Rootfs))
  BY FreeSteps, ChrootsAreThree
<1> QED  BY <1>1, <1>2, FiveSteps DEF ShutdownSteps

(* Zapping everything deletes the buildroot right before the native chroot. *)
LEMMA ZapStepsSafe == Safe(ZapSteps)
<1> DEFINE s == ShutdownSteps \o UmountAndRemove(Rootfs)
           t == s \o UmountAndRemove(Buildroot)
           u == t \o UmountAndRemove(Native)
<1>1. Safe(<<Step("clean", Chroots), Step("cache_clear", Chroots)>>)
  BY FreeSetSteps, TwoSteps
<1>2. /\ Safe(UmountAndRemove(Rootfs))
      /\ Safe(UmountAndRemove(Buildroot)) /\ EndsShielded(UmountAndRemove(Buildroot))
      /\ Block(UmountAndRemove(Native)) /\ NearlyShielded(UmountAndRemove(Native))
      /\ Settled(UmountAndRemove(Native))
  BY UmountAndRemoveBlock, UmountAndRemoveShielded, UmountAndRemoveSettled, ChrootsAreThree
  DEF Safe
<1>3. Safe(s)
  BY <1>2, ShutdownStepsSafe, ConcatSafe
<1>4. Safe(t) /\ EndsShielded(t)
  BY <1>2, <1>3, ConcatSafe, ConcatShielded DEF Safe, Block, Proper
<1>5. Safe(u)
  BY <1>2, <1>4, ConcatBlock, ConcatShielded, ConcatSettled DEF Safe, Block, Proper
<1> QED  BY <1>1, <1>5, ConcatSafe DEF ZapSteps

(* Only crossdirect mounts the native chroot, and only in the buildroot.   *)
LEMMA AbuildStepsSafe ==
    ASSUME NEW pkg \in Builds, NEW before, NEW strict
    PROVE  Safe(AbuildSteps(pkg, before, strict))
<1> DEFINE host == HostChroot(pkg.cross)
           build == BuildChroot(pkg.cross)
           special ==
               (strict \/ pkg.cross # before) /\ pkg.cross \notin {"unnecessary", "qemu-only"}
<1>1. host \in Chroots /\ build \in Chroots /\ Native \in Chroots
  BY ChrootsAreThree DEF HostChroot, BuildChroot
<1>2. pkg.cross = "crossdirect" => build = Buildroot
  BY DEF BuildChroot
<1> HIDE DEF host, build, special
<1>3. /\ Safe(When(host # build, <<Step("build_init", host)>>))
      /\ Safe(<<Step("build_init", build)>>)
      /\ Safe(When(pkg.rust, <<Step("install_build", build)>>))
      /\ Safe(When(pkg.depends, <<Step("install", host)>>))
      /\ Safe(When(pkg.depends /\ host # build, <<Step("install", build)>>))
      /\ Safe(When(pkg.cross = "cross-native2", <<Step("bind_sysroot", Native)>>))
      /\ Safe(<<Step("abuild", build)>>)
      /\ Safe(When(pkg.cross = "cross-native2", <<Step("umount_sysroot", Native)>>))
  BY <1>1, FreeSteps, OneStep, WhenSafe
<1>4. Safe(When(special,
                <<Step("init", Native), Step("install_build", Native)>>
                    \o When(pkg.cross = "crossdirect", <<Step("mount_native", build)>>)))
  <2>1. Safe(When(pkg.cross = "crossdirect", <<Step("mount_native", build)>>))
    <3>1. CASE pkg.cross = "crossdirect"
      BY <1>1, <1>2, <3>1, FreeSteps, OneStep, WhenSafe
    <3>2. CASE pkg.cross # "crossdirect"
      BY <3>2, EmptySafe DEF When
    <3> QED  BY <3>1, <3>2
  <2>2. Safe(<<Step("init", Native), Step("install_build", Native)>>)
    BY <1>1, FreeSteps, TwoSteps
  <2> QED  BY <2>1, <2>2, ConcatSafe, WhenSafe
<1>5. Safe(When(host # build, <<Step("build_init", host)>>)
            \o <<Step("build_init", build)>>
            \o When(pkg.rust, <<Step("install_build", build)>>)
            \o When(special,
                <<Step("init", Native), Step("install_build", Native)>>
                    \o When(pkg.cross = "crossdirect", <<Step("mount_native", build)>>)))
  BY <1>3, <1>4, ConcatSafe
<1>6. Safe(When(host # build, <<Step("build_init", host)>>)
            \o <<Step("build_init", build)>>
            \o When(pkg.rust, <<Step("install_build", build)>>)
            \o When(special,
                <<Step("init", Native), Step("install_build", Native)>>
                    \o When(pkg.cross = "crossdirect", <<Step("mount_native", build)>>))
            \o When(pkg.depends, <<Step("install", host)>>)
            \o When(pkg.depends /\ host # build, <<Step("install", build)>>)
            \o When(pkg.cross = "cross-native2", <<Step("bind_sysroot", Native)>>))
  BY <1>3, <1>5, ConcatSafe
<1> QED  BY <1>3, <1>6, ConcatSafe DEF AbuildSteps, host, build, special

LEMMA BuildStepsSafe ==
    ASSUME NEW pkg \in Builds, NEW before, NEW strict
    PROVE  Safe(BuildSteps(pkg, before, strict))
  BY AbuildStepsSafe, ZapBuildrootsStepsSafe, WhenSafe, ConcatSafe DEF BuildSteps

LEMMA PrepareNativeStepsSafe == Safe(PrepareNativeSteps)
  BY FreeSteps, ThreeSteps, ChrootsAreThree DEF PrepareNativeSteps

LEMMA InstallStepsSafe == Safe(InstallSteps)
<1>1. Native \in Chroots /\ Rootfs \in Chroots
  BY ChrootsAreThree
<1>2. Safe(CreateRootfsSteps)
  BY <1>1, FreeSteps, ThreeSteps DEF CreateRootfsSteps
<1>3. Safe(<<Step("ensure_native", Native)>>)
  BY <1>1, FreeSteps, OneStep
<1>4. Safe(SystemImageSteps)
  <2>1. Safe(<<Step("umount_all", Rootfs), Step("create_image", Native), Step("partition", Native)>>)
    BY <1>1, FreeSteps, ThreeSteps
  <2>2. Free(Step("remove_markers", Chroots))
    BY FreeSetSteps
  <2>3. Safe(<<Step("run", Rootfs), Step("umount_all", Rootfs), Step("remove_marker", Rootfs),
                Step("bind_rootfs", Native)>>)
    BY <1>1, FreeSteps, FourSteps
  <2>4. Safe(<<Step("copy", Native), Step("remove_markers", Chroots), Step("umount_all", Rootfs),
                Step("install_build", Native)>>)
    BY <1>1, <2>2, FreeSteps, FourSteps
  <2> QED  BY <1>1, <2>1, <2>3, <2>4, MountStepsSafe, ConcatSafe DEF SystemImageSteps
<1> QED  BY <1>2, <1>3, <1>4, PrepareNativeStepsSafe, ConcatSafe DEF InstallSteps

LEMMA ProgramsAreSafe ==
    ASSUME NEW s \in Programs
    PROVE  Block(s) /\ Shielded(s)
<1>1. ASSUME NEW c \in Chroots
      PROVE  /\ Safe(<<Step("init", c), Step("run", c)>>)
             /\ Safe(<<Step("install_build", c), Step("init", c), Step("run", c)>>)
  BY FreeSteps, TwoSteps, ThreeSteps
<1>2. Block(ShutdownSteps \o <<Step("switch_channel", Native)>>)
      /\ Shielded(ShutdownSteps \o <<Step("switch_channel", Native)>>)
  <2> DEFINE t == <<Step("switch_channel", Native)>>
  <2>1. /\ StepOK(Step("switch_channel", Native))
        /\ Step("switch_channel", Native).op = "switch_channel"
        /\ Step("remove", Native).op = "remove"
    BY ChrootsAreThree DEF Step, StepOK, StepType, Ops, OnSets
  <2>2. t \in Seq(StepType) /\ Len(t) = 1 /\ t[1] = Step("switch_channel", Native)
    BY <2>1 DEF StepOK
  <2> HIDE DEF t
  <2>3. DOMAIN t = 1..1 /\ (t # <<>> => Head(t) = t[1])
    BY <2>2, SeqFacts
  <2>4. (\A k \in 1..1 : k = 1) /\ 2..1 = {}
    OBVIOUS
  <2>5. Linked(t)
    BY <2>2, <2>4 DEF Linked
  <2>6. Block(t)
    BY <2>1, <2>2, <2>3, <2>4, <2>5 DEF Block, Proper, Bound
  <2>7. Shielded(t)
    BY <2>1, <2>2, <2>4 DEF Shielded, Deletes
  <2>8. Block(ShutdownSteps \o t) /\ Shielded(ShutdownSteps \o t)
    BY <2>6, <2>7, ShutdownStepsSafe, ConcatBlock, ConcatShielded DEF Safe, Block, Proper
  <2> QED  BY <2>8 DEF t
<1> QED
  BY <1>1, <1>2, InstallStepsSafe, ShutdownStepsSafe, ZapStepsSafe DEF Programs, Safe

LEMMA BuildProgramSafe ==
    ASSUME NEW how
    PROVE  Safe(BuildProgram(how))
<1>1. Safe(<<Step("packages", Native)>>)
  BY ChrootsAreThree, FreeSteps, OneStep
<1> QED  BY <1>1, ZapBuildrootsStepsSafe, WhenSafe, ConcatSafe DEF BuildProgram

-----------------------------------------------------------------------------
(* How the steps change what is left to do.                                *)

LEMMA Running ==
    ASSUME IInv, todo # <<>>
    PROVE  /\ StepOK(Head(todo))
           /\ Head(todo).op \notin OnSets => C \in Chroots
           /\ Proper(Tail(todo))
           /\ Head(todo).op \notin Prepares => Block(Tail(todo))
  BY RestIsBlock DEF IInv, C, StepOK

LEMMA FreeTodo ==
    ASSUME Block(todo')
    PROVE  Proper(todo') /\ Prepared'
  BY DEF Block, Prepared, DeletesNothingMounted, At, Bound

LEMMA Continued ==
    ASSUME IInv, todo # <<>>, Head(todo).op \notin Prepares, Continue
    PROVE  Proper(todo') /\ Prepared' /\ Follows
<1>1. Step("umount_all", Buildroot).op = "umount_all"
  BY StepFacts
<1> QED  BY <1>1, Running, FreeTodo DEF Continue, Follows, Prepares

LEMMA Replaced ==
    ASSUME IInv, todo # <<>>, Head(todo).op \notin Prepares,
           NEW steps, Block(steps), Replace(steps)
    PROVE  /\ Proper(todo') /\ Prepared'
           /\ Shielded(steps) /\ Settled(steps) /\ Head(todo).op \notin Quiet => Follows
<1>1. Proper(todo') /\ Prepared'
  BY Running, FreeTodo, ConcatBlock DEF Replace
<1>2. steps \in Seq(StepType)
  BY DEF Block, Proper
<1> QED  BY <1>1, <1>2 DEF Replace, Follows

LEMMA Aborted ==
    ASSUME Abort
    PROVE  Proper(todo') /\ Prepared' /\ Follows
  BY EmptySafe, FreeTodo DEF Abort, Safe, Follows

(* Deleting, once nothing is mounted any more. *)
LEMMA UmountAllTodo ==
    ASSUME IInv, UmountAll
    PROVE  Proper(todo') /\ Prepared' /\ Follows
<1>1. todo # <<>> /\ Head(todo).op = "umount_all"
  BY DEF UmountAll, At
<1>2. CASE MountsIn(C) = {}
  <2>1. todo' = Tail(todo) /\ mounts' = mounts
    BY <1>2 DEF UmountAll, Continue
  <2>2. Proper(todo')
    BY <1>1, <2>1, Running
  <2>3. Step("save_init", Head(todo').chroot).op = "save_init"
        /\ Step("usr_merge", Head(todo').chroot).op = "usr_merge"
        /\ Step("apk_initdb", Head(todo').chroot).op = "apk_initdb"
        /\ Step("umount_all", Head(todo').chroot).chroot = Head(todo').chroot
    BY StepFacts
  <2>4. todo' # <<>> =>
            /\ Head(todo').op \notin {"save_init", "usr_merge", "apk_initdb", "add_user"}
            /\ Head(todo').op = "remove" => Head(todo').chroot = Head(todo).chroot
    BY <1>1, <2>1, <2>3, RestIsBlock DEF IInv
  <2>5. Follows
    <3>1. Step("umount_all", Buildroot).chroot = Buildroot
          /\ <<Buildroot, "native">>[1] = Buildroot
      BY StepFacts
    <3> QED  BY <1>1, <1>2, <2>1, <3>1 DEF Follows, MountsIn, C
  <2> QED  BY <1>2, <2>1, <2>2, <2>4, <2>5 DEF Prepared, DeletesNothingMounted, At, C, MountsIn
<1>3. CASE MountsIn(C) # {}
  <2>1. todo' = todo
    BY <1>3 DEF UmountAll
  <2> QED  BY <1>1, <2>1 DEF IInv, Prepared, DeletesNothingMounted, At, Follows
<1> QED  BY <1>2, <1>3

(* setup, save_init, usr_merge, apk_initdb: creating a chroot. *)
LEMMA SetupTodo ==
    ASSUME IInv, Setup
    PROVE  Proper(todo') /\ Prepared' /\ Follows
<1>1. todo # <<>> /\ Head(todo).op = "setup" /\ content' = content
  BY DEF Setup, At, disk
<1>2. C \in Chroots /\ Block(Tail(todo))
  BY <1>1, Running DEF OnSets, Prepares
<1>3. CASE Exists(C)
  <2>1. Replace(<<>>)
    BY <1>3 DEF Setup, When
  <2> QED  BY <1>1, <2>1, EmptySafe, Replaced DEF Prepares, Quiet, Safe
<1>4. CASE ~Exists(C)
  <2>1. todo' = CreateSteps(C) \o Tail(todo)
    BY <1>4 DEF Setup, When, Replace
  <2>2. Proper(todo') /\ todo' # <<>> /\ Head(todo') = Step("save_init", C)
    BY <1>2, <2>1, CreateStepsProper, ConcatProper
  <2>3. Head(todo').op = "save_init" /\ C' = C
    BY <2>2, StepFacts DEF C
  <2>4. Follows
    <3>1. /\ CreateSteps(C) \in Seq(StepType)
          /\ Shielded(CreateSteps(C)) /\ Settled(CreateSteps(C))
      BY <1>2, CreateStepsProper DEF Proper
    <3> QED  BY <1>1, <2>1, <3>1 DEF Follows, Quiet
  <2> QED  BY <1>1, <1>4, <2>2, <2>3, <2>4 DEF Prepared, DeletesNothingMounted, At, Exists
<1> QED  BY <1>3, <1>4

LEMMA CreateTodo ==
    ASSUME IInv, ChrootSaveInit \/ CreateUsrMerge \/ ApkInitdb, Continue
    PROVE  Proper(todo') /\ Prepared' /\ Follows
<1>1. todo # <<>> /\ Head(todo).op \in {"save_init", "usr_merge", "apk_initdb"}
  BY DEF ChrootSaveInit, CreateUsrMerge, ApkInitdb, At
<1>2. Proper(todo') /\ Follows /\ C \in Chroots
  <2>1. Step("umount_all", Buildroot).op = "umount_all"
    BY StepFacts
  <2> QED  BY <1>1, <2>1, Running DEF Continue, OnSets, Follows
<1>3. /\ Step("umount_all", C').op = "umount_all" /\ Step("save_init", C').op = "save_init"
      /\ Step("usr_merge", C').op = "usr_merge" /\ Step("apk_initdb", C').op = "apk_initdb"
      /\ Step("save_init", C').chroot = C' /\ Step("usr_merge", C').chroot = C'
      /\ Step("apk_initdb", C').chroot = C'
  BY StepFacts
<1>4. todo' # <<>> =>
        /\ Head(todo').op \notin {"remove", "save_init"}
        /\ Head(todo').op = "usr_merge"  => Head(todo).op = "save_init" /\ C' = C
        /\ Head(todo').op = "apk_initdb" => Head(todo).op = "usr_merge" /\ C' = C
        /\ Head(todo').op = "add_user"   => Head(todo).op = "apk_initdb" /\ C' = C
  BY <1>1, <1>3, RestIsBlock DEF IInv, Continue, C
<1>5. /\ channel' = channel /\ content \in [Chroots -> Contents]
      /\ record \in [Chroots -> Channels \cup {None}]
  BY DEF IInv, TypeOK, ChrootSaveInit, CreateUsrMerge, ApkInitdb, settings
<1>6. CASE Head(todo).op = "save_init"
  <2>1. ~Exists(C) /\ content' = content /\ record'[C] = channel
    BY <1>1, <1>2, <1>5, <1>6
       DEF IInv, Prepared, At, ChrootSaveInit, CreateUsrMerge, ApkInitdb
  <2> QED  BY <1>2, <1>4, <1>5, <1>6, <2>1 DEF Prepared, DeletesNothingMounted, At, Exists
<1>7. CASE Head(todo).op = "usr_merge"
  <2>1. ~Exists(C) /\ record[C] = channel
    BY <1>1, <1>7 DEF IInv, Prepared, At
  <2>2. record' = record /\ content'[C] \in {content[C], "links"}
    BY <1>2, <1>5, <1>7 DEF At, ChrootSaveInit, CreateUsrMerge, ApkInitdb
  <2> QED  BY <1>2, <1>4, <1>5, <1>7, <2>1, <2>2
              DEF Prepared, DeletesNothingMounted, At, Exists
<1>8. CASE Head(todo).op = "apk_initdb"
  <2>1. content'[C] = "shell"
    BY <1>2, <1>5, <1>8 DEF At, ChrootSaveInit, CreateUsrMerge, ApkInitdb
  <2> QED  BY <1>2, <1>4, <1>8, <2>1 DEF Prepared, DeletesNothingMounted, At, Exists
<1> QED  BY <1>1, <1>6, <1>7, <1>8

(* Every step keeps what is left to do in order. *)
LEMMA TodoStep ==
    ASSUME IInv, [Next]_vars
    PROVE  Proper(todo') /\ Prepared' /\ (AutoZapsNative \/ Follows)
<1> DEFINE Goal == Proper(todo') /\ Prepared' /\ (AutoZapsNative \/ Follows)
<1>1. ASSUME Continue, todo # <<>>, Head(todo).op \notin Prepares PROVE Goal
  BY <1>1, Continued
<1>2. ASSUME Abort PROVE Goal
  BY <1>2, Aborted
<1>3. ASSUME NEW steps, Replace(steps), Safe(steps), todo # <<>>,
             Head(todo).op \notin Prepares \cup Quiet
      PROVE  Goal
  BY <1>3, Replaced DEF Safe
<1>4. Native \in Chroots /\ Buildroot \in Chroots /\ Rootfs \in Chroots
  BY ChrootsAreThree
<1>5. ASSUME todo # <<>>, Head(todo).op \notin OnSets PROVE C \in Chroots
  BY <1>5, Running
<1> HIDE DEF Goal
<1>6. CASE CallInit
  <2>1. todo # <<>> /\ Head(todo).op = "init"
    BY <1>6 DEF CallInit, At
  <2>2. Safe(InitSteps(C))
    BY <2>1, <1>5, InitStepsSafe DEF OnSets
  <2>3. Goal
    BY <1>1, <1>3, <1>6, <2>1, <2>2 DEF CallInit, Prepares, Quiet
  <2> QED  BY <2>3 DEF Goal
<1>7. CASE CheckChannel
  <2>1. todo # <<>> /\ Head(todo).op = "check_channel"
    BY <1>7 DEF CheckChannel, At
  <2>2. Block(UmountAndRemove(C) \o <<Step("clean", Chroots)>>)
    BY <2>1, <1>5, UmountAndRemoveBlock, FreeSetSteps, OneStep, ConcatBlock DEF OnSets, Safe
  <2>3. CASE /\ WrongChannel(C) /\ autoZap
             /\ Replace(UmountAndRemove(C) \o <<Step("clean", Chroots)>>)
    <3>1. Proper(todo') /\ Prepared'
      BY <2>1, <2>2, <2>3, Replaced DEF Prepares
    <3>2. CASE C = Native
      BY <1>7, <2>3, <3>1, <3>2 DEF AutoZapsNative
    <3>3. CASE C # Native
      <4>1. Safe(UmountAndRemove(C))
        <5>1. C = Buildroot \/ C = Rootfs
          BY <1>5, <2>1, <3>3 DEF OnSets, Chroots
        <5> QED  BY <1>4, <5>1, UmountAndRemoveBlock, UmountAndRemoveShielded,
                    UmountAndRemoveSettled DEF Safe
      <4>2. Safe(UmountAndRemove(C) \o <<Step("clean", Chroots)>>)
        BY <4>1, FreeSetSteps, OneStep, ConcatSafe
      <4> QED  BY <2>1, <2>3, <3>1, <4>2, Replaced DEF Prepares, Quiet, Safe
    <3> QED  BY <3>2, <3>3
  <2>4. CASE Continue \/ Abort
    <3>1. Goal
      BY <1>1, <1>2, <2>1, <2>4 DEF Prepares
    <3> QED  BY <3>1 DEF Goal
  <2> QED  BY <1>7, <2>3, <2>4 DEF CheckChannel
<1>8. CASE MountStep \/ AddPackages \/ Binfmt \/ MarkInChroot \/ CacheInit
  <2>1. Goal
    BY <1>1, <1>8 DEF MountStep, AddPackages, Binfmt, MarkInChroot, CacheInit, At, Prepares
  <2> QED  BY <2>1 DEF Goal
<1>9. CASE Register
  <2>1. todo # <<>> /\ Head(todo).op = "register"
    BY <1>9 DEF Register, At
  <2>2. /\ Safe(<<Step("init", Native), Step("install", Native), Step("add_qemu", Native)>>)
        /\ Safe(<<Step("binfmt", C)>>)
    BY <2>1, <1>4, <1>5, FreeSteps, OneStep, ThreeSteps DEF OnSets
  <2>3. Safe(When("qemu" \notin packages,
                    <<Step("init", Native), Step("install", Native), Step("add_qemu", Native)>>)
               \o <<Step("binfmt", C)>>)
    BY <2>2, WhenSafe, ConcatSafe
  <2>4. Goal
    BY <1>3, <1>9, <2>1, <2>3 DEF Register, Prepares, Quiet
  <2> QED  BY <2>4 DEF Goal
<1>10. CASE \/ BindQemu \/ BuildInitDone \/ MountNative \/ RunProgram \/ Partition
            \/ RemoveRootfsMarker
  <2>1. Goal
    BY <1>1, <1>2, <1>10
       DEF BindQemu, BuildInitDone, MountNative, RunProgram, Partition, RemoveRootfsMarker,
           At, Prepares
  <2> QED  BY <2>1 DEF Goal
<1>11. CASE Setup
  BY <1>11, SetupTodo
<1>12. CASE ChrootSaveInit \/ ApkInitdb
  BY <1>12, CreateTodo DEF ChrootSaveInit, ApkInitdb
<1>13. CASE CreateUsrMerge
  <2>1. CASE Continue
    BY <1>13, <2>1, CreateTodo
  <2>2. CASE Abort
    BY <2>2, Aborted
  <2> QED  BY <1>13, <2>1, <2>2 DEF CreateUsrMerge
<1>14. CASE AddUser \/ RemoveChroot \/ RemoveMarkers \/ Unregister \/ Clean \/ CacheClear
            \/ SwitchChannel \/ BindSysroot \/ UmountSysroot \/ BindRootfs \/ CopyRootfs
  <2>1. Goal
    BY <1>1, <1>14
       DEF AddUser, RemoveChroot, RemoveMarkers, Unregister, Clean, CacheClear, SwitchChannel,
           BindSysroot, UmountSysroot, BindRootfs, CopyRootfs, At, Prepares
  <2> QED  BY <2>1 DEF Goal
<1>15. CASE UmountAll
  BY <1>15, UmountAllTodo
<1>16. CASE Install
  <2>1. todo # <<>> /\ Head(todo).op = "install"
    BY <1>16 DEF Install, At
  <2>2. Safe(<<Step("init", C)>>) /\ Safe(<<Step("apk_add", C)>>)
    BY <2>1, <1>5, FreeSteps, OneStep DEF OnSets
  <2>3. Safe(When(NotInitialized, <<Step("init", C)>>) \o <<Step("apk_add", C)>>)
    BY <2>2, WhenSafe, ConcatSafe
  <2>4. Goal
    BY <1>3, <1>16, <2>1, <2>3 DEF Install, Prepares, Quiet
  <2> QED  BY <2>4 DEF Goal
<1>17. CASE InstallBuild
  <2>1. todo # <<>> /\ Head(todo).op = "install_build"
    BY <1>17 DEF InstallBuild, At
  <2>2. Safe(<<Step("install", C)>>)
    BY <2>1, <1>5, FreeSteps, OneStep DEF OnSets
  <2>3. \A pkg \in Builds : Safe(BuildSteps(pkg, "unnecessary", TRUE) \o <<Step("install", C)>>)
    BY <2>2, BuildStepsSafe, ConcatSafe
  <2>4. Goal
    BY <1>3, <1>17, <2>1, <2>2, <2>3 DEF InstallBuild, Prepares, Quiet
  <2> QED  BY <2>4 DEF Goal
<1>18. CASE BuildNext
  <2>1. todo # <<>> /\ Head(todo).op = "packages"
    BY <1>18 DEF BuildNext, At
  <2>2. CASE queue = <<>>
    <3>1. Goal
      BY <1>1, <1>18, <2>1, <2>2 DEF BuildNext, Prepares
    <3> QED  BY <3>1 DEF Goal
  <2>3. CASE queue # <<>>
    <3>1. Head(queue) \in Builds
      BY <2>3, HeadTailProperties DEF IInv, TypeOK
    <3>2. Safe(<<Head(todo)>>)
      BY <2>1, Running, OneStep DEF Free, Bound
    <3>3. Safe(BuildSteps(Head(queue), previous, mode = "strict") \o <<Head(todo)>>)
      BY <3>1, <3>2, BuildStepsSafe, ConcatSafe
    <3>4. Goal
      BY <1>3, <1>18, <2>1, <2>3, <3>3 DEF BuildNext, Prepares, Quiet
    <3> QED  BY <3>4 DEF Goal
  <2> QED  BY <2>2, <2>3
<1>19. CASE BuildInit
  <2>1. todo # <<>> /\ Head(todo).op = "build_init"
    BY <1>19 DEF BuildInit, At
  <2>2. Safe(<<Step("init", Native), Step("init", C), Step("install", C),
                Step("build_init_done", C)>>)
    BY <2>1, <1>4, <1>5, FreeSteps, FourSteps DEF OnSets
  <2>3. Goal
    BY <1>1, <1>3, <1>19, <2>1, <2>2 DEF BuildInit, Prepares, Quiet
  <2> QED  BY <2>3 DEF Goal
<1>20. CASE EnsureNative
  <2>1. todo # <<>> /\ Head(todo).op = "ensure_native"
    BY <1>20 DEF EnsureNative, At
  <2>2. Safe(When(~Exists(Native), PrepareNativeSteps))
    BY PrepareNativeStepsSafe, WhenSafe
  <2>3. Goal
    BY <1>3, <1>20, <2>1, <2>2 DEF EnsureNative, Prepares, Quiet
  <2> QED  BY <2>3 DEF Goal
<1>21. CASE StartProgram
  BY <1>21, BuildProgramSafe, ProgramsAreSafe, FreeTodo DEF StartProgram, Safe, Follows
<1>22. CASE Fail \/ FailWriting \/ RemoveInterrupted \/ MountInterrupted
  BY <1>22, Aborted DEF Fail, FailWriting, RemoveInterrupted, MountInterrupted
<1>23. CASE Reboot \/ Checkout
  <2>1. todo' = <<>>
    BY <1>23 DEF Reboot, Checkout
  <2> QED  BY <2>1, EmptySafe, FreeTodo DEF Safe, Follows
<1>24. CASE CreateImage
  <2>1. todo # <<>> /\ Head(todo).op = "create_image"
    BY <1>24 DEF CreateImage, At
  <2>2. Safe(When("image" \in packages, <<Step("umount_mnt", Native)>>))
    BY <1>4, FreeSteps, OneStep, WhenSafe
  <2>3. Goal
    BY <1>1, <1>3, <1>24, <2>1, <2>2 DEF CreateImage, Prepares, Quiet
  <2> QED  BY <2>3 DEF Goal
<1>25. CASE UmountMnt
  <2>1. todo # <<>> /\ Head(todo).op = "umount_mnt"
    BY <1>25 DEF UmountMnt, At
  <2>2. CASE Continue
    <3>1. Goal
      BY <1>1, <2>1, <2>2 DEF Prepares
    <3> QED  BY <3>1 DEF Goal
  <2>3. CASE todo' = todo
    <3>1. Head(todo').op = "umount_mnt"
      BY <2>1, <2>3
    <3> QED  BY <2>3, <3>1 DEF IInv, Prepared, DeletesNothingMounted, At, Follows
  <2> QED  BY <1>25, <2>2, <2>3 DEF UmountMnt
<1>26. CASE UNCHANGED vars
  BY <1>26 DEF vars, disk, kernel, settings, memory, IInv, Prepared, DeletesNothingMounted,
               At, C, Exists, MountsIn, Follows
<1> QED
  BY <1>6, <1>7, <1>8, <1>9, <1>10, <1>11, <1>12, <1>13, <1>14, <1>15, <1>16, <1>17, <1>18,
     <1>19, <1>20, <1>21, <1>22, <1>23, <1>24, <1>25, <1>26
  DEF Next, ProgramStep

-----------------------------------------------------------------------------
(* How the steps change the disk and the mounts.                           *)

(* The parts of TypeOK. *)
DiskOK ==
    /\ content \in [Chroots -> Contents]
    /\ origin \in [Chroots -> Channels \cup {None}]
    /\ record \in [Chroots -> Channels \cup {None}]
    /\ marker \subseteq Chroots
    /\ buildInit \subseteq Chroots
    /\ packages \subseteq {"qemu", "install_native_packages", "image"}

KernelOK == mounts \subseteq Chroots \X What /\ registered \in BOOLEAN

SettingsOK == channel \in Channels /\ autoZap \in BOOLEAN /\ runs \in 0..MaxRuns

CachesOK ==
    /\ cached \subseteq Chroots /\ skipped \subseteq Chroots
    /\ mode \in Modes /\ lost \subseteq Chroots \X What

LoopOK == queue \in Seq(Builds) /\ previous \in Kinds

NestedOK == nested \in 0..MaxNested

LEMMA TypeParts ==
    TypeOK <=> /\ DiskOK /\ KernelOK /\ SettingsOK /\ CachesOK /\ LoopOK /\ NestedOK
               /\ todo \in Seq(StepType)
  BY DEF TypeOK, DiskOK, KernelOK, SettingsOK, CachesOK, LoopOK, NestedOK, StepType

LEMMA NewTypeParts ==
    ASSUME DiskOK', KernelOK', SettingsOK', CachesOK', LoopOK', NestedOK', Proper(todo')
    PROVE  TypeOK'
  BY DEF TypeOK, DiskOK, KernelOK, SettingsOK, CachesOK, LoopOK, NestedOK, StepType, Proper

LEMMA Forgotten ==
    ASSUME Forget
    PROVE  CachesOK' /\ LoopOK' /\ NestedOK'
<1>1. 0 \in 0..MaxNested
  BY BuildsAssumption
<1>2. CachesOK'
  BY DEF Forget, CachesOK, Modes
<1>3. LoopOK'
  BY DEF Forget, LoopOK, Kinds
<1> QED  BY <1>1, <1>2, <1>3 DEF Forget, NestedOK

(* What is left alone keeps its type. *)
LEMMA LeftAlone ==
    ASSUME IInv
    PROVE  /\ UNCHANGED disk => DiskOK'
           /\ UNCHANGED kernel => KernelOK'
           /\ UNCHANGED settings => SettingsOK'
           /\ UNCHANGED memory => CachesOK' /\ LoopOK' /\ NestedOK'
<1>1. DiskOK /\ KernelOK /\ SettingsOK /\ CachesOK /\ LoopOK /\ NestedOK
  BY TypeParts DEF IInv
<1> QED  BY <1>1
         DEF DiskOK, KernelOK, SettingsOK, CachesOK, LoopOK, NestedOK,
             disk, kernel, settings, memory

LEMMA DiskStep ==
    ASSUME IInv, [Next]_vars
    PROVE  DiskOK'
<1>1. DiskOK /\ (UNCHANGED disk => DiskOK')
  BY TypeParts, LeftAlone DEF IInv
<1>2. channel \in Channels
  BY TypeParts DEF IInv, SettingsOK
<1>3. todo # <<>> /\ Head(todo).op \notin OnSets => C \in Chroots
  BY Running
<1>4. CASE MountStep \/ MountInterrupted \/ MountNative \/ BindSysroot \/ CreateUsrMerge \/ AddUser
  <2>1. content' \in [Chroots -> Contents]
    BY <1>1, <1>4
    DEF DiskOK, MountStep, MountInterrupted, MountNative, BindSysroot, CreateUsrMerge, AddUser,
        MakeDirectory, Contents
  <2>2. UNCHANGED <<origin, record, marker, buildInit, packages>>
    BY <1>4 DEF MountStep, MountInterrupted, MountNative, BindSysroot, CreateUsrMerge, AddUser
  <2> QED  BY <1>1, <2>1, <2>2 DEF DiskOK
<1>5. CASE ApkInitdb
  <2>1. content' \in [Chroots -> Contents] /\ origin' \in [Chroots -> Channels \cup {None}]
    BY <1>1, <1>2, <1>5 DEF DiskOK, ApkInitdb, Contents
  <2> QED  BY <1>1, <1>5, <2>1 DEF DiskOK, ApkInitdb
<1>6. CASE ChrootSaveInit \/ Clean \/ FailWriting
  <2>1. record' \in [Chroots -> Channels \cup {None}]
    BY <1>1, <1>2, <1>6 DEF DiskOK, ChrootSaveInit, Clean, FailWriting
  <2> QED  BY <1>1, <1>6, <2>1 DEF DiskOK, ChrootSaveInit, Clean, FailWriting
<1>7. CASE \/ AddPackages \/ MarkInChroot \/ RemoveMarkers \/ RemoveRootfsMarker \/ BuildInitDone
           \/ CreateImage
  <2>1. marker' \subseteq Chroots /\ buildInit' \subseteq Chroots
        /\ packages' \subseteq {"qemu", "install_native_packages", "image"}
    BY <1>1, <1>3, <1>7
    DEF DiskOK, AddPackages, MarkInChroot, RemoveMarkers, RemoveRootfsMarker, BuildInitDone,
        CreateImage, At, OnSets
  <2>2. UNCHANGED <<content, origin, record>>
    BY <1>7
    DEF AddPackages, MarkInChroot, RemoveMarkers, RemoveRootfsMarker, BuildInitDone, CreateImage
  <2> QED  BY <1>1, <2>1, <2>2 DEF DiskOK
<1>8. CASE RemoveChroot \/ RemoveInterrupted
  <2>1. content' \in [Chroots -> Contents] /\ origin' \in [Chroots -> Channels \cup {None}]
    BY <1>1, <1>8 DEF DiskOK, RemoveChroot, RemoveInterrupted, Contents
  <2>2. marker' \subseteq Chroots /\ buildInit' \subseteq Chroots
        /\ packages' \subseteq {"qemu", "install_native_packages", "image"}
    BY <1>1, <1>8 DEF DiskOK, RemoveChroot, RemoveInterrupted
  <2>3. record' = record
    BY <1>8 DEF RemoveChroot, RemoveInterrupted
  <2> QED  BY <1>1, <2>1, <2>2, <2>3 DEF DiskOK
<1>9. CASE \/ CallInit \/ CheckChannel \/ Register \/ Binfmt \/ BindQemu \/ Setup \/ CacheInit
           \/ UmountAll \/ Unregister \/ CacheClear \/ SwitchChannel \/ Install \/ InstallBuild
           \/ BuildNext \/ UmountSysroot \/ RunProgram \/ EnsureNative \/ UmountMnt \/ Partition
           \/ BindRootfs \/ CopyRootfs
  <2>1. UNCHANGED disk
    BY <1>9
    DEF CallInit, CheckChannel, Register, Binfmt, BindQemu, Setup, CacheInit, UmountAll,
        Unregister, CacheClear, SwitchChannel, Install, InstallBuild, BuildNext, UmountSysroot,
        RunProgram, EnsureNative, UmountMnt, Partition, BindRootfs, CopyRootfs
  <2> QED  BY <1>1, <2>1
<1>10. CASE BuildInit \/ StartProgram \/ Fail \/ Reboot \/ Checkout \/ UNCHANGED vars
  <2>1. UNCHANGED disk
    BY <1>10 DEF BuildInit, StartProgram, Fail, Reboot, Checkout, vars
  <2> QED  BY <1>1, <2>1
<1> QED
  BY <1>4, <1>5, <1>6, <1>7, <1>8, <1>9, <1>10 DEF Next, ProgramStep

LEMMA KernelStep ==
    ASSUME IInv, [Next]_vars
    PROVE  KernelOK'
<1>1. KernelOK /\ (UNCHANGED kernel => KernelOK')
  BY TypeParts, LeftAlone DEF IInv
<1>2. todo # <<>> /\ Head(todo).op \notin OnSets => C \in Chroots
  BY Running
<1>3. CASE \/ MountStep \/ MountInterrupted \/ MountNative \/ BindSysroot \/ BindQemu \/ BindRootfs
           \/ UmountSysroot \/ UmountAll \/ UmountMnt
  <2>1. C \in Chroots
    BY <1>2, <1>3
    DEF MountStep, MountInterrupted, MountNative, BindSysroot, BindQemu, BindRootfs, UmountSysroot,
        UmountAll, UmountMnt, At, OnSets
  <2>2. mounts' \subseteq mounts \/ \E new \in SUBSET What : mounts' = mounts \cup {C} \X new
    <3>1. \A what \in {"dev", "keys", "packages", "native", "sysroot", "qemu", "rootfs"} :
            {what} \in SUBSET What /\ {C} \X {what} = {<<C, what>>}
      BY DEF What
    <3>2. CASE MountStep
      <4>1. {"keys"} \in SUBSET What /\ {"packages"} \in SUBSET What
            /\ {} \in SUBSET What /\ {"dev", "devices"} \in SUBSET What
        BY DEF What
      <4> QED  BY <3>2, <4>1 DEF MountStep
    <3>3. CASE MountInterrupted \/ MountNative
      BY <3>1, <3>3 DEF MountInterrupted, MountNative, Mount
    <3>4. CASE BindSysroot \/ BindQemu \/ BindRootfs
      BY <3>1, <3>4 DEF BindSysroot, BindQemu, BindRootfs, Mount
    <3>5. CASE UmountSysroot \/ UmountAll \/ UmountMnt
      BY <3>5 DEF UmountSysroot, UmountAll, UmountMnt
    <3> QED  BY <1>3, <3>2, <3>3, <3>4, <3>5
  <2>3. mounts' \subseteq Chroots \X What
    BY <1>1, <2>1, <2>2 DEF KernelOK
  <2>4. registered' = registered
    BY <1>3
    DEF MountStep, MountInterrupted, MountNative, BindSysroot, BindQemu, BindRootfs, UmountSysroot,
        UmountAll, UmountMnt
  <2> QED  BY <1>1, <2>3, <2>4 DEF KernelOK
<1>4. CASE RemoveChroot
  <2>1. \A m \in mounts : m \in Chroots \X What /\ <<m[1], "stale_native">> \in Chroots \X What
    BY <1>1 DEF KernelOK, What
  <2>2. mounts' \subseteq Chroots \X What
    BY <1>4, <2>1 DEF RemoveChroot
  <2> QED  BY <1>1, <1>4, <2>2 DEF RemoveChroot, KernelOK
<1>5. CASE Binfmt \/ Unregister \/ Reboot
  BY <1>1, <1>5 DEF Binfmt, Unregister, Reboot, KernelOK
<1>6. CASE \/ CallInit \/ CheckChannel \/ Register \/ AddPackages \/ MarkInChroot \/ Setup
           \/ ChrootSaveInit \/ CreateUsrMerge \/ ApkInitdb \/ AddUser \/ CacheInit \/ RemoveMarkers
           \/ Clean \/ CacheClear \/ SwitchChannel \/ Install \/ InstallBuild \/ BuildNext
           \/ BuildInit \/ BuildInitDone \/ RunProgram \/ EnsureNative \/ CreateImage \/ Partition
           \/ RemoveRootfsMarker \/ CopyRootfs
  <2>1. UNCHANGED kernel
    BY <1>6
    DEF CallInit, CheckChannel, Register, AddPackages, MarkInChroot, Setup, ChrootSaveInit,
        CreateUsrMerge, ApkInitdb, AddUser, CacheInit, RemoveMarkers, Clean, CacheClear,
        SwitchChannel, Install, InstallBuild, BuildNext, BuildInit, BuildInitDone, RunProgram,
        EnsureNative, CreateImage, Partition, RemoveRootfsMarker, CopyRootfs
  <2> QED  BY <1>1, <2>1
<1>7. CASE StartProgram \/ Fail \/ FailWriting \/ RemoveInterrupted \/ Checkout \/ UNCHANGED vars
  <2>1. UNCHANGED kernel
    BY <1>7 DEF StartProgram, Fail, FailWriting, RemoveInterrupted, Checkout, vars
  <2> QED  BY <1>1, <2>1
<1> QED
  BY <1>3, <1>4, <1>5, <1>6, <1>7 DEF Next, ProgramStep

LEMMA SettingsStep ==
    ASSUME IInv, [Next]_vars
    PROVE  SettingsOK'
<1>1. SettingsOK /\ (UNCHANGED settings => SettingsOK')
  BY TypeParts, LeftAlone DEF IInv
<1>2. CASE SwitchChannel \/ Checkout
  BY <1>1, <1>2 DEF SwitchChannel, Checkout, SettingsOK
<1>3. CASE StartProgram
  <2>1. runs' \in 0..MaxRuns
    BY <1>1, <1>3, BuildsAssumption DEF SettingsOK, StartProgram
  <2> QED  BY <1>1, <1>3, <2>1 DEF SettingsOK, StartProgram
<1>4. CASE ProgramStep /\ ~SwitchChannel
  <2>1. UNCHANGED settings
    BY <1>4
    DEF ProgramStep, CallInit, CheckChannel, MountStep, Register, AddPackages, Binfmt, BindQemu,
        MarkInChroot, Setup, ChrootSaveInit, CreateUsrMerge, ApkInitdb, AddUser, CacheInit,
        UmountAll, RemoveChroot, RemoveMarkers, Unregister, Clean, CacheClear, Install,
        InstallBuild, BuildNext, BuildInit, BuildInitDone, MountNative, BindSysroot,
        UmountSysroot, RunProgram, EnsureNative, CreateImage, UmountMnt, Partition,
        RemoveRootfsMarker, BindRootfs, CopyRootfs
  <2> QED  BY <1>1, <2>1
<1>5. CASE Fail \/ FailWriting \/ RemoveInterrupted \/ MountInterrupted \/ Reboot \/ UNCHANGED vars
  <2>1. UNCHANGED settings
    BY <1>5 DEF Fail, FailWriting, RemoveInterrupted, MountInterrupted, Reboot, vars
  <2> QED  BY <1>1, <2>1
<1> QED
  BY <1>2, <1>3, <1>4, <1>5 DEF Next, ProgramStep

LEMMA MemoryStep ==
    ASSUME IInv, [Next]_vars
    PROVE  CachesOK' /\ LoopOK' /\ NestedOK'
<1> DEFINE Goal == CachesOK' /\ LoopOK' /\ NestedOK'
<1>1. CachesOK /\ LoopOK /\ NestedOK
  BY TypeParts DEF IInv
<1>2. (UNCHANGED memory \/ Abort) => Goal
  BY LeftAlone, Forgotten DEF Abort
<1>3. todo # <<>> /\ Head(todo).op \notin OnSets => C \in Chroots
  BY Running
<1>4. CASE CacheInit \/ CacheClear \/ BuildInit
  <2>1. cached' \subseteq Chroots /\ skipped' \subseteq Chroots
    BY <1>1, <1>3, <1>4 DEF CachesOK, CacheInit, CacheClear, BuildInit, At, OnSets, memory
  <2>2. UNCHANGED <<mode, queue, previous, nested, lost>>
    BY <1>4 DEF CacheInit, CacheClear, BuildInit, memory
  <2> QED  BY <1>1, <2>1, <2>2 DEF CachesOK, LoopOK, NestedOK
<1>5. CASE InstallBuild
  <2>1. nested' \in 0..MaxNested
    <3>1. nested' = nested \/ (nested < MaxNested /\ nested' = nested + 1)
      BY <1>5 DEF InstallBuild
    <3> QED  BY <1>1, <3>1, BuildsAssumption DEF NestedOK
  <2>2. UNCHANGED <<cached, mode, queue, previous, skipped, lost>>
    BY <1>5 DEF InstallBuild
  <2> QED  BY <1>1, <2>1, <2>2 DEF CachesOK, LoopOK, NestedOK
<1>6. CASE BuildNext
  <2>1. queue' \in Seq(Builds) /\ previous' \in Kinds
    <3>1. CASE queue = <<>>
      BY <1>1, <1>6, <3>1 DEF LoopOK, BuildNext
    <3>2. CASE queue # <<>>
      <4>1. Head(queue) \in Builds /\ Tail(queue) \in Seq(Builds)
        BY <1>1, <3>2, HeadTailProperties DEF LoopOK
      <4> QED  BY <1>6, <3>2, <4>1, BuildsAssumption DEF BuildNext
    <3> QED  BY <3>1, <3>2
  <2>2. UNCHANGED <<cached, mode, nested, skipped, lost>>
    BY <1>6 DEF BuildNext
  <2> QED  BY <1>1, <2>1, <2>2 DEF CachesOK, LoopOK, NestedOK
<1>7. CASE StartProgram
  <2>1. CachesOK'
    <3>1. lost' \subseteq Chroots \X What
      BY <1>7 DEF StartProgram, What
    <3> QED  BY <1>7, <3>1 DEF StartProgram, CachesOK, Modes
  <2>2. NestedOK'
    BY <1>7, BuildsAssumption DEF StartProgram, NestedOK
  <2>3. LoopOK'
    <3>1. queue' = <<>> \/ queue' \in Queues
      BY <1>7 DEF StartProgram
    <3>2. <<>> \in Seq(Builds) /\ Queues \subseteq Seq(Builds) /\ previous' = "unnecessary"
      BY <1>7, BuildsAssumption DEF StartProgram
    <3> QED  BY <3>1, <3>2 DEF LoopOK, Kinds
  <2> QED  BY <2>1, <2>2, <2>3
<1>8. CASE MountStep \/ UmountMnt
  <2>1. lost' \subseteq Chroots \X What
    <3>1. C \in Chroots
      BY <1>3, <1>8 DEF MountStep, UmountMnt, At, OnSets
    <3>2. lost' \subseteq lost \cup {<<C, "packages">>}
      BY <1>8 DEF MountStep, UmountMnt
    <3> QED  BY <1>1, <3>1, <3>2 DEF CachesOK, What
  <2>2. UNCHANGED <<cached, mode, queue, previous, nested, skipped>>
    BY <1>8 DEF MountStep, UmountMnt
  <2> QED  BY <1>1, <2>1, <2>2 DEF CachesOK, LoopOK, NestedOK
<1>9. CASE \/ CallInit \/ CheckChannel \/ Register \/ AddPackages \/ Binfmt \/ BindQemu
           \/ MarkInChroot \/ Setup \/ ChrootSaveInit \/ CreateUsrMerge \/ ApkInitdb \/ AddUser
           \/ UmountAll \/ RemoveChroot \/ RemoveMarkers \/ Unregister \/ Clean \/ SwitchChannel
           \/ Install \/ BuildInitDone \/ MountNative \/ BindSysroot \/ UmountSysroot \/ RunProgram
           \/ EnsureNative \/ CreateImage \/ Partition \/ RemoveRootfsMarker \/ BindRootfs \/ CopyRootfs
  <2>1. UNCHANGED memory \/ Abort
    BY <1>9
    DEF CallInit, CheckChannel, Register, AddPackages, Binfmt, BindQemu,
        MarkInChroot, Setup, ChrootSaveInit, CreateUsrMerge, ApkInitdb, AddUser,
        UmountAll, RemoveChroot, RemoveMarkers, Unregister, Clean, SwitchChannel, Install,
        BuildInitDone, MountNative, BindSysroot, UmountSysroot, RunProgram, EnsureNative,
        CreateImage, Partition, RemoveRootfsMarker, BindRootfs, CopyRootfs
  <2> QED  BY <1>2, <2>1
<1>10. CASE \/ Fail \/ FailWriting \/ RemoveInterrupted \/ MountInterrupted \/ Reboot \/ Checkout
            \/ UNCHANGED vars
  <2>1. UNCHANGED memory \/ Abort
    BY <1>10 DEF Fail, FailWriting, RemoveInterrupted, MountInterrupted, Reboot, Checkout, vars
  <2> QED  BY <1>2, <2>1
<1> QED
  BY <1>4, <1>5, <1>6, <1>7, <1>8, <1>9, <1>10 DEF Next, ProgramStep

LEMMA TypeStep ==
    ASSUME IInv, [Next]_vars
    PROVE  TypeOK'
  BY TodoStep, DiskStep, KernelStep, SettingsStep, MemoryStep, NewTypeParts

(* Only the steps that create or delete a chroot, and those that write     *)
(* workdir.cfg, touch what is recorded.                                    *)
LEMMA RecordStep ==
    ASSUME IInv, [Next]_vars
    PROVE  RecordIsTrue'
<1>1. /\ content \in [Chroots -> Contents]
      /\ record \in [Chroots -> Channels \cup {None}]
      /\ origin \in [Chroots -> Channels \cup {None}]
      /\ RecordIsTrue
      /\ todo # <<>> /\ Head(todo).op \notin OnSets => C \in Chroots
  BY Running DEF IInv, TypeOK
<1>2. CASE UNCHANGED <<content, origin, record>>
  BY <1>1, <1>2 DEF RecordIsTrue, Exists
<1>3. CASE MountStep \/ MountInterrupted \/ MountNative \/ BindSysroot
  <2>1. UNCHANGED <<origin, record>> /\ \A c \in Chroots : content'[c] \in {content[c], "empty"}
    BY <1>1, <1>3 DEF MountStep, MountInterrupted, MountNative, BindSysroot, MakeDirectory
  <2> QED  BY <1>1, <2>1 DEF RecordIsTrue, Exists
<1>4. CASE ChrootSaveInit
  <2>1. ~Exists(C) /\ UNCHANGED <<content, origin>>
        /\ \A c \in Chroots : c # C => record'[c] = record[c]
    BY <1>1, <1>4 DEF ChrootSaveInit, IInv, Prepared
  <2> QED  BY <1>1, <2>1 DEF RecordIsTrue, Exists
<1>5. CASE CreateUsrMerge
  <2>1. UNCHANGED <<origin, record>> /\ \A c \in Chroots : content'[c] \in {content[c], "links"}
    BY <1>1, <1>5 DEF CreateUsrMerge
  <2> QED  BY <1>1, <2>1 DEF RecordIsTrue, Exists
<1>6. CASE ApkInitdb
  <2>1. C \in Chroots /\ record[C] = channel /\ record' = record
    BY <1>1, <1>6 DEF ApkInitdb, At, OnSets, IInv, Prepared
  <2>2. origin'[C] = channel
        /\ \A c \in Chroots : c # C => content'[c] = content[c] /\ origin'[c] = origin[c]
    BY <1>1, <1>6, <2>1 DEF ApkInitdb
  <2> QED  BY <1>1, <2>1, <2>2 DEF RecordIsTrue, Exists
<1>7. CASE AddUser
  <2>1. Exists(C) /\ UNCHANGED <<origin, record>>
        /\ \A c \in Chroots : c # C => content'[c] = content[c]
    BY <1>1, <1>7 DEF AddUser, IInv, Prepared
  <2> QED  BY <1>1, <2>1 DEF RecordIsTrue, Exists
<1>8. CASE RemoveChroot
  <2>1. C \in Chroots /\ content'[C] = "absent" /\ record' = record
        /\ \A c \in Chroots : c # C => content'[c] = content[c] /\ origin'[c] = origin[c]
    BY <1>1, <1>8 DEF RemoveChroot, At, OnSets
  <2> QED  BY <1>1, <2>1 DEF RecordIsTrue, Exists
<1>9. CASE RemoveInterrupted
  <2>1. Exists(C) /\ UNCHANGED <<origin, record>>
        /\ \A c \in Chroots : c # C => content'[c] = content[c]
    BY <1>1, <1>9 DEF RemoveInterrupted
  <2> QED  BY <1>1, <2>1 DEF RecordIsTrue, Exists
<1>10. CASE Clean \/ FailWriting
  <2>1. UNCHANGED <<content, origin>> /\ \A c \in Chroots : record'[c] \in {record[c], None}
    BY <1>1, <1>10 DEF Clean, FailWriting
  <2> QED  BY <1>1, <2>1 DEF RecordIsTrue, Exists
<1>11. CASE \/ CallInit \/ CheckChannel \/ Register \/ AddPackages \/ Binfmt \/ BindQemu
            \/ MarkInChroot \/ Setup \/ CacheInit \/ UmountAll \/ RemoveMarkers \/ Unregister
            \/ CacheClear \/ SwitchChannel \/ Install \/ InstallBuild \/ BuildNext \/ BuildInit
            \/ BuildInitDone \/ UmountSysroot \/ RunProgram \/ EnsureNative \/ CreateImage \/ UmountMnt
            \/ Partition \/ RemoveRootfsMarker \/ BindRootfs \/ CopyRootfs
  <2>1. UNCHANGED <<content, origin, record>>
    BY <1>11
    DEF CallInit, CheckChannel, Register, AddPackages, Binfmt, BindQemu, MarkInChroot, Setup,
        CacheInit, UmountAll, RemoveMarkers, Unregister, CacheClear, SwitchChannel, Install,
        InstallBuild, BuildNext, BuildInit, BuildInitDone, UmountSysroot, RunProgram, EnsureNative,
        CreateImage, UmountMnt, Partition, RemoveRootfsMarker, BindRootfs, CopyRootfs, disk
  <2> QED  BY <1>2, <2>1
<1>12. CASE StartProgram \/ Fail \/ Reboot \/ Checkout \/ UNCHANGED vars
  <2>1. UNCHANGED <<content, origin, record>>
    BY <1>12 DEF StartProgram, Fail, Reboot, Checkout, vars, disk
  <2> QED  BY <1>2, <2>1
<1> QED
  BY <1>3, <1>4, <1>5, <1>6, <1>7, <1>8, <1>9, <1>10, <1>11, <1>12 DEF Next, ProgramStep

(* What steps mount, as far as the native chroot goes.                     *)
LEMMA MountsStep ==
    ASSUME IInv, [Next]_vars
    PROVE  /\ \A c \in Chroots :
                <<c, "native">> \in mounts' =>
                    \/ <<c, "native">> \in mounts
                    \/ c = Buildroot /\ MountNative
           /\ \A c \in Chroots :
                <<c, "stale_native">> \in mounts' =>
                    \/ <<c, "stale_native">> \in mounts
                    \/ RemoveChroot /\ C = Native /\ <<c, "native">> \in mounts
<1> DEFINE Goal ==
           /\ \A c \in Chroots :
                <<c, "native">> \in mounts' =>
                    \/ <<c, "native">> \in mounts
                    \/ c = Buildroot /\ MountNative
           /\ \A c \in Chroots :
                <<c, "stale_native">> \in mounts' =>
                    \/ <<c, "stale_native">> \in mounts
                    \/ RemoveChroot /\ C = Native /\ <<c, "native">> \in mounts
<1>1. ASSUME \A c \in Chroots, what \in {"native", "stale_native"} :
                <<c, what>> \in mounts' => <<c, what>> \in mounts
      PROVE  Goal
  BY <1>1
<1> HIDE DEF Goal
<1>2. CASE MountNative
  <2>1. C = Buildroot
    BY <1>2, Running DEF MountNative, At, StepOK, C
  <2>2. mounts' = mounts \/ mounts' = mounts \cup {<<Buildroot, "native">>}
    BY <1>2, <2>1 DEF MountNative, Mount
  <2> QED  BY <1>2, <2>2
<1>3. CASE MountStep \/ MountInterrupted \/ BindQemu \/ BindSysroot \/ BindRootfs
  <2>1. Goal
    BY <1>1, <1>3 DEF MountStep, MountInterrupted, BindQemu, BindSysroot, BindRootfs, Mount
  <2> QED  BY <2>1 DEF Goal
<1>4. CASE UmountAll \/ UmountMnt \/ UmountSysroot \/ Reboot
  <2>1. Goal
    BY <1>1, <1>4 DEF UmountAll, UmountMnt, UmountSysroot, Reboot
  <2> QED  BY <2>1 DEF Goal
<1>5. CASE RemoveChroot
  <2>1. \A m \in mounts : m = <<m[1], m[2]>>
    BY DEF IInv, TypeOK
  <2>2. \A m \in mounts' :
            \/ m \in mounts
            \/ \E n \in mounts : C = Native /\ n[2] = "native" /\ m = <<n[1], "stale_native">>
    BY <1>5 DEF RemoveChroot
  <2> QED  BY <1>5, <2>1, <2>2
<1>6. CASE \/ CallInit \/ CheckChannel \/ Register \/ AddPackages \/ Binfmt \/ MarkInChroot \/ Setup
           \/ ChrootSaveInit \/ CreateUsrMerge \/ ApkInitdb \/ AddUser \/ CacheInit \/ RemoveMarkers
           \/ Unregister \/ Clean \/ CacheClear \/ SwitchChannel \/ Install \/ InstallBuild
           \/ BuildNext \/ BuildInit \/ BuildInitDone \/ RunProgram \/ EnsureNative \/ CreateImage
           \/ Partition \/ RemoveRootfsMarker \/ CopyRootfs
  <2>1. UNCHANGED mounts
    BY <1>6
    DEF CallInit, CheckChannel, Register, AddPackages, Binfmt, MarkInChroot, Setup,
        ChrootSaveInit, CreateUsrMerge, ApkInitdb, AddUser, CacheInit, RemoveMarkers, Unregister,
        Clean, CacheClear, SwitchChannel, Install, InstallBuild, BuildNext, BuildInit,
        BuildInitDone, RunProgram, EnsureNative, CreateImage, Partition, RemoveRootfsMarker,
        CopyRootfs, kernel
  <2> QED  BY <2>1
<1>7. CASE StartProgram \/ Fail \/ FailWriting \/ RemoveInterrupted \/ Checkout \/ UNCHANGED vars
  <2>1. UNCHANGED mounts
    BY <1>7 DEF StartProgram, Fail, FailWriting, RemoveInterrupted, Checkout, vars, kernel
  <2> QED  BY <2>1
<1> QED
  BY <1>2, <1>3, <1>4, <1>5, <1>6, <1>7 DEF Next, ProgramStep

(* The native chroot is mounted in the buildroot only. *)
LEMMA NativeStep ==
    ASSUME IInv, [Next]_vars
    PROVE  NativeInBuildroot'
  BY MountsStep DEF IInv, NativeInBuildroot

LEMMA AutoZapStays ==
    ASSUME IInv, [Next]_vars
    PROVE  autoZap' = autoZap
<1>1. CASE SwitchChannel \/ Checkout \/ StartProgram
  BY <1>1 DEF SwitchChannel, Checkout, StartProgram
<1>2. CASE ProgramStep /\ ~SwitchChannel
  <2>1. UNCHANGED settings
    BY <1>2
    DEF ProgramStep, CallInit, CheckChannel, MountStep, Register, AddPackages, Binfmt, BindQemu,
        MarkInChroot, Setup, ChrootSaveInit, CreateUsrMerge, ApkInitdb, AddUser, CacheInit,
        UmountAll, RemoveChroot, RemoveMarkers, Unregister, Clean, CacheClear, Install,
        InstallBuild, BuildNext, BuildInit, BuildInitDone, MountNative, BindSysroot,
        UmountSysroot, RunProgram, EnsureNative, CreateImage, UmountMnt, Partition,
        RemoveRootfsMarker, BindRootfs, CopyRootfs
  <2> QED  BY <2>1 DEF settings
<1>3. CASE Fail \/ FailWriting \/ RemoveInterrupted \/ MountInterrupted \/ Reboot \/ UNCHANGED vars
  <2>1. UNCHANGED settings
    BY <1>3 DEF Fail, FailWriting, RemoveInterrupted, MountInterrupted, Reboot, vars
  <2> QED  BY <2>1 DEF settings
<1> QED
  BY <1>1, <1>2, <1>3 DEF Next, ProgramStep

(* The native chroot is not deleted while it is mounted in the buildroot:   *)
(* whoever mounts it there has only shielded deletions ahead.               *)
LEMMA ShieldStep ==
    ASSUME IInv, [Next]_vars, Follows, Sheltered
    PROVE  /\ Sheltered'
           /\ <<Buildroot, "stale_native">> \in mounts' => <<Buildroot, "stale_native">> \in mounts
<1>1. /\ NearlyShielded(todo)
      /\ <<Buildroot, "native">> \in mounts => Shielded(todo)
      /\ todo \in Seq(StepType)
  BY DEF IInv, Sheltered, Proper
<1>2. Buildroot \in Chroots /\ Step("umount_all", Buildroot).op = "umount_all"
  BY ChrootsAreThree, StepFacts
<1>3. todo # <<>> => Head(todo) = todo[1] /\ Tail(todo) \in Seq(StepType)
  BY <1>1, HeadTailProperties
<1>4. todo # <<>> /\ Head(todo).op \notin Quiet => Shielded(Tail(todo))
  BY <1>1, <1>2, TailShielded DEF Quiet
<1>5. Shielded(<<>>) /\ (Shielded(todo') => NearlyShielded(todo'))
  BY EmptySafe DEF Safe, NearlyShielded, Shielded
<1>6. ASSUME todo # <<>>, Head(todo).op \notin Quiet,
             NEW steps \in Seq(StepType), Shielded(steps), todo' = steps \o Tail(todo)
      PROVE  Shielded(todo')
  BY <1>3, <1>4, <1>6, ConcatShielded
<1>7. NearlyShielded(todo')
  <2>1. ASSUME todo # <<>>, todo' = Tail(todo)
        PROVE  NearlyShielded(todo')
    <3>1. CASE Head(todo).op \in Quiet
      BY <1>1, <2>1, <3>1, TailShielded
    <3>2. CASE Head(todo).op \notin Quiet
      BY <1>4, <1>5, <2>1, <3>2
    <3> QED  BY <3>1, <3>2
  <2> QED  BY <1>1, <1>5, <1>6, <2>1 DEF Follows
<1>8. ASSUME <<Buildroot, "native">> \in mounts'
      PROVE  Shielded(todo')
  <2>1. CASE <<Buildroot, "native">> \in mounts
    <3>1. todo # <<>> /\ Head(todo) # Step("umount_all", Buildroot) => Shielded(Tail(todo))
      BY <1>1, <2>1, TailShielded
    <3> QED  BY <1>1, <1>5, <1>6, <2>1, <3>1 DEF Follows
  <2>2. CASE MountNative
    <3>1. todo # <<>> /\ Head(todo).op \notin Quiet /\ (todo' = Tail(todo) \/ todo' = <<>>)
      BY <2>2 DEF MountNative, At, Continue, Abort, Quiet
    <3> QED  BY <1>4, <1>5, <3>1
  <2> QED  BY <1>2, <1>8, <2>1, <2>2, MountsStep
<1>9. ASSUME <<Buildroot, "stale_native">> \in mounts', <<Buildroot, "stale_native">> \notin mounts
      PROVE  FALSE
  <2>1. RemoveChroot /\ C = Native /\ <<Buildroot, "native">> \in mounts
    BY <1>2, <1>9, MountsStep
  <2>2. todo # <<>> /\ Head(todo) = Step("remove", Native)
    <3>1. todo # <<>> /\ Head(todo).op = "remove" /\ Head(todo).chroot = Native
      BY <2>1 DEF RemoveChroot, At, C
    <3>2. Head(todo) \in StepType
      BY <3>1, Running DEF StepOK
    <3> QED  BY <3>1, <3>2 DEF Step, StepType
  <2> QED  BY <1>1, <1>3, <2>1, <2>2, TailShielded DEF Deletes
<1> QED  BY <1>7, <1>8, <1>9 DEF Sheltered

LEMMA ShieldingStep ==
    ASSUME IInv, [Next]_vars
    PROVE  Shielding'
<1>1. CASE autoZap
  BY <1>1, AutoZapStays DEF Shielding
<1>2. CASE ~autoZap
  <2>1. <<Buildroot, "stale_native">> \notin mounts /\ Sheltered
    BY <1>2 DEF IInv, Shielding
  <2>2. Follows
    BY <1>2, TodoStep DEF AutoZapsNative
  <2> QED  BY <2>1, <2>2, ShieldStep DEF Shielding
<1> QED  BY <1>1, <1>2

(* While a program only unmounts and deletes.                               *)
LEMMA HarmlessStep ==
    ASSUME IInv, [Next]_vars, todo # <<>>, Head(todo).op \in Harmless
    PROVE  /\ todo' = <<>> \/ todo' = todo \/ todo' = Tail(todo)
           /\ todo' = <<>> \/ UNCHANGED <<record, channel>>
           /\ Head(todo).op = "umount_all" =>
                todo' = <<>> \/ todo' = todo \/ (MountsIn(C) = {} /\ mounts' = mounts)
           /\ Head(todo).op = "remove" => todo' = <<>> \/ todo' = todo \/ RemoveChroot
<1>1. Head(todo).op \in {"umount_all", "remove", "unregister", "remove_markers"}
  BY DEF Harmless, Quiet
<1>2. CASE UmountAll
  BY <1>1, <1>2 DEF UmountAll, At, Continue, disk, settings
<1>3. CASE RemoveChroot
  BY <1>1, <1>3 DEF RemoveChroot, At, Continue, settings
<1>4. CASE RemoveMarkers \/ Unregister
  BY <1>1, <1>4 DEF RemoveMarkers, Unregister, At, Continue, disk, settings
<1>5. CASE Fail \/ FailWriting \/ RemoveInterrupted \/ MountInterrupted
  BY <1>5 DEF Fail, FailWriting, RemoveInterrupted, MountInterrupted, Abort
<1>6. CASE UNCHANGED vars
  BY <1>6 DEF vars, disk, settings
<1>7. ~StartProgram /\ ~Reboot /\ ~Checkout
  BY DEF StartProgram, Reboot, Checkout
<1>8. ~CallInit /\ ~CheckChannel /\ ~MountStep /\ ~Register /\ ~AddPackages /\ ~Binfmt /\ ~BindQemu
      /\ ~MarkInChroot /\ ~Setup /\ ~ChrootSaveInit /\ ~CreateUsrMerge /\ ~ApkInitdb /\ ~AddUser
      /\ ~CacheInit
  BY <1>1
  DEF CallInit, CheckChannel, MountStep, Register, AddPackages, Binfmt, BindQemu, MarkInChroot,
      Setup, ChrootSaveInit, CreateUsrMerge, ApkInitdb, AddUser, CacheInit, At
<1>9. ~Clean /\ ~CacheClear /\ ~SwitchChannel /\ ~Install /\ ~InstallBuild /\ ~BuildNext
      /\ ~BuildInit /\ ~BuildInitDone /\ ~MountNative /\ ~BindSysroot /\ ~UmountSysroot
      /\ ~RunProgram
  BY <1>1
  DEF Clean, CacheClear, SwitchChannel, Install, InstallBuild, BuildNext, BuildInit, BuildInitDone,
      MountNative, BindSysroot, UmountSysroot, RunProgram, At
<1>10. ~EnsureNative /\ ~CreateImage /\ ~UmountMnt /\ ~Partition /\ ~RemoveRootfsMarker
       /\ ~BindRootfs /\ ~CopyRootfs
  BY <1>1
  DEF EnsureNative, CreateImage, UmountMnt, Partition, RemoveRootfsMarker, BindRootfs, CopyRootfs, At
<1> QED
  BY <1>2, <1>3, <1>4, <1>5, <1>6, <1>7, <1>8, <1>9, <1>10 DEF Next, ProgramStep

(* A native chroot of the wrong channel, or of an unknown one.              *)
Outdated == Exists(Native) /\ record[Native] # channel

(* None appears while a program runs, unless it switches the channel.       *)
LEMMA OutdatedStep ==
    ASSUME IInv, [Next]_vars, todo # <<>>, todo' # <<>>, Head(todo).op # "switch_channel", Outdated'
    PROVE  Outdated
<1>1. /\ content \in [Chroots -> Contents]
      /\ record \in [Chroots -> Channels \cup {None}]
      /\ Head(todo).op \notin OnSets => C \in Chroots
      /\ Native \in Chroots
  BY Running, ChrootsAreThree DEF IInv, TypeOK
<1>2. CASE UNCHANGED <<content, record, channel>>
  BY <1>2 DEF Outdated, Exists
<1>3. CASE MountStep \/ MountNative \/ BindSysroot \/ CreateUsrMerge
  <2>1. UNCHANGED <<record, channel>> /\ content'[Native] \in {content[Native], "empty", "links"}
    BY <1>1, <1>3 DEF MountStep, MountNative, BindSysroot, CreateUsrMerge, MakeDirectory, settings
  <2> QED  BY <2>1 DEF Outdated, Exists
<1>4. CASE ChrootSaveInit
  <2>1. C = Native => record'[Native] = channel
    BY <1>1, <1>4 DEF ChrootSaveInit
  <2>2. C # Native => record'[Native] = record[Native]
    BY <1>1, <1>4 DEF ChrootSaveInit
  <2>3. UNCHANGED <<content, channel>>
    BY <1>4 DEF ChrootSaveInit, settings
  <2> QED  BY <2>1, <2>2, <2>3 DEF Outdated, Exists
<1>5. CASE ApkInitdb
  <2>1. record[C] = channel /\ UNCHANGED <<record, channel>>
    BY <1>5 DEF ApkInitdb, At, IInv, Prepared, settings
  <2>2. C # Native => content'[Native] = content[Native]
    BY <1>1, <1>5 DEF ApkInitdb
  <2> QED  BY <2>1, <2>2 DEF Outdated, Exists
<1>6. CASE AddUser
  <2>1. Exists(C) /\ UNCHANGED <<record, channel>>
    BY <1>6 DEF AddUser, At, IInv, Prepared, settings
  <2>2. C # Native => content'[Native] = content[Native]
    BY <1>1, <1>6 DEF AddUser
  <2> QED  BY <2>1, <2>2 DEF Outdated, Exists
<1>7. CASE RemoveChroot
  <2>1. C \in Chroots /\ UNCHANGED <<record, channel>>
    BY <1>1, <1>7 DEF RemoveChroot, At, OnSets, settings
  <2>2. content'[Native] \in {content[Native], "absent"}
    BY <1>1, <1>7, <2>1 DEF RemoveChroot
  <2> QED  BY <2>1, <2>2 DEF Outdated, Exists
<1>8. CASE Clean
  <2>1. UNCHANGED <<content, channel>>
        /\ record'[Native] = IF content[Native] = "absent" THEN None ELSE record[Native]
    BY <1>1, <1>8 DEF Clean, settings
  <2> QED  BY <2>1 DEF Outdated, Exists
<1>9. CASE \/ CallInit \/ CheckChannel \/ Register \/ AddPackages \/ Binfmt \/ BindQemu
           \/ MarkInChroot \/ Setup \/ CacheInit \/ UmountAll \/ RemoveMarkers \/ Unregister
           \/ CacheClear \/ Install \/ InstallBuild \/ BuildNext \/ BuildInit
           \/ BuildInitDone \/ UmountSysroot \/ RunProgram \/ EnsureNative \/ CreateImage \/ UmountMnt
           \/ Partition \/ RemoveRootfsMarker \/ BindRootfs \/ CopyRootfs
  <2>1. UNCHANGED <<content, record, channel>>
    BY <1>9
    DEF CallInit, CheckChannel, Register, AddPackages, Binfmt, BindQemu, MarkInChroot, Setup,
        CacheInit, UmountAll, RemoveMarkers, Unregister, CacheClear, Install,
        InstallBuild, BuildNext, BuildInit, BuildInitDone, UmountSysroot, RunProgram, EnsureNative,
        CreateImage, UmountMnt, Partition, RemoveRootfsMarker, BindRootfs, CopyRootfs, disk, settings
  <2> QED  BY <1>2, <2>1
<1>10. ~Fail /\ ~FailWriting /\ ~RemoveInterrupted /\ ~MountInterrupted
  BY DEF Fail, FailWriting, RemoveInterrupted, MountInterrupted, Abort
<1>11. ~StartProgram /\ ~Reboot /\ ~Checkout /\ ~SwitchChannel
  BY DEF StartProgram, Reboot, Checkout, SwitchChannel, At
<1>12. CASE UNCHANGED vars
  BY <1>2, <1>12 DEF vars, disk, settings
<1> QED
  BY <1>3, <1>4, <1>5, <1>6, <1>7, <1>8, <1>9, <1>10, <1>11, <1>12 DEF Next, ProgramStep

(* Only its start makes a program a strict build.                           *)
LEMMA ModeStep ==
    ASSUME [Next]_vars
    PROVE  StartProgram \/ mode' = mode \/ todo' = <<>>
<1>1. CASE \/ CallInit \/ CheckChannel \/ Register \/ AddPackages \/ Binfmt \/ BindQemu
           \/ MarkInChroot \/ Setup \/ ChrootSaveInit \/ CreateUsrMerge \/ ApkInitdb \/ AddUser
           \/ UmountAll \/ RemoveChroot \/ RemoveMarkers \/ Unregister \/ Clean \/ SwitchChannel
           \/ Install \/ BuildInitDone \/ MountNative \/ BindSysroot \/ UmountSysroot \/ RunProgram
           \/ EnsureNative \/ CreateImage \/ Partition \/ RemoveRootfsMarker \/ BindRootfs \/ CopyRootfs
  BY <1>1
  DEF CallInit, CheckChannel, Register, AddPackages, Binfmt, BindQemu,
      MarkInChroot, Setup, ChrootSaveInit, CreateUsrMerge, ApkInitdb, AddUser,
      UmountAll, RemoveChroot, RemoveMarkers, Unregister, Clean, SwitchChannel, Install,
      BuildInitDone, MountNative, BindSysroot, UmountSysroot, RunProgram, EnsureNative,
      CreateImage, Partition, RemoveRootfsMarker, BindRootfs, CopyRootfs, Abort, memory
<1>2. CASE \/ MountStep \/ CacheInit \/ CacheClear \/ InstallBuild \/ BuildNext \/ BuildInit
           \/ UmountMnt
  BY <1>2 DEF MountStep, CacheInit, CacheClear, InstallBuild, BuildNext, BuildInit, UmountMnt, memory
<1>3. CASE \/ Fail \/ FailWriting \/ RemoveInterrupted \/ MountInterrupted \/ Reboot \/ Checkout
           \/ UNCHANGED vars
  BY <1>3
  DEF Fail, FailWriting, RemoveInterrupted, MountInterrupted, Reboot, Checkout, Abort, vars, memory
<1> QED  BY <1>1, <1>2, <1>3 DEF Next, ProgramStep

(* The zap at the start of a strict build.                                  *)
LEMMA ZapIsSoon ==
    /\ Soon(BuildProgram("strict"), Step("umount_all", Buildroot))
    /\ Soon(BuildProgram("strict"), Step("remove", Native))
<1> DEFINE s == <<Step("remove_markers", {Native, Buildroot}), Step("umount_all", Buildroot)>>
           d == UmountAndRemove(Buildroot)
           n == UmountAndRemove(Native)
           c == <<Step("cache_clear", Chroots)>>
           p == <<Step("packages", Native)>>
<1>1. /\ s \in Seq(StepType) /\ d \in Seq(StepType) /\ n \in Seq(StepType)
      /\ c \in Seq(StepType) /\ p \in Seq(StepType)
  <2>1. Free(Step("remove_markers", {Native, Buildroot})) /\ Free(Step("cache_clear", Chroots))
    BY FreeSetSteps, ChrootsAreThree
  <2>2. Safe(s) /\ Safe(c) /\ Safe(p)
    BY <2>1, FreeSteps, OneStep, TwoSteps, ChrootsAreThree
  <2>3. Block(d) /\ Block(n)
    BY UmountAndRemoveBlock, ChrootsAreThree
  <2> QED  BY <2>2, <2>3 DEF Safe, Block, Proper
<1>2. Soon(s, Step("umount_all", Buildroot)) /\ \A i \in 1..Len(s) : s[i].op \in Harmless
  <2>1. Len(s) = 2 /\ s[1].op = "remove_markers" /\ s[2].op = "umount_all"
        /\ s[2] = Step("umount_all", Buildroot)
    BY DEF Step
  <2>2. \A i \in 1..2 : i = 1 \/ i = 2
    OBVIOUS
  <2> HIDE DEF s
  <2> QED  BY <2>1, <2>2 DEF Soon, Harmless, Quiet
<1>3. Soon(n, Step("remove", Native)) /\ \A i \in 1..Len(d) : d[i].op \in Harmless
  <2>1. /\ Len(d) = 2 /\ d[1].op = "umount_all" /\ d[2].op = "remove"
        /\ Len(n) = 2 /\ n[1].op = "umount_all" /\ n[2].op = "remove"
        /\ n[2] = Step("remove", Native)
    BY DEF UmountAndRemove, Step
  <2>2. \A i \in 1..2 : i = 1 \/ i = 2
    OBVIOUS
  <2> HIDE DEF d, n
  <2> QED  BY <2>1, <2>2 DEF Soon, Harmless, Quiet
<1> HIDE DEF s, d, n, c, p
<1>4. Soon((d \o n) \o c, Step("remove", Native)) /\ (d \o n) \o c \in Seq(StepType)
  <2>1. Soon(d \o n, Step("remove", Native)) /\ d \o n \in Seq(StepType)
    BY <1>1, <1>3, SoonAfter, ConcatProperties
  <2> QED  BY <1>1, <2>1, SoonBefore, ConcatProperties
<1>5. /\ Soon(s \o ((d \o n) \o c), Step("remove", Native))
      /\ Soon(s \o ((d \o n) \o c), Step("umount_all", Buildroot))
      /\ s \o ((d \o n) \o c) \in Seq(StepType)
  BY <1>1, <1>2, <1>4, SoonAfter, SoonBefore, ConcatProperties
<1>6. BuildProgram("strict") = (s \o ((d \o n) \o c)) \o p
  BY DEF BuildProgram, When, ZapBuildrootsSteps, DeleteBuildroots, s, d, n, c, p
<1> QED  BY <1>1, <1>5, <1>6, SoonBefore

LEMMA StrictStep ==
    ASSUME IInv, [Next]_vars
    PROVE  Strictness'
<1> SUFFICES ASSUME mode' = "strict", todo' # <<>>
             PROVE  /\ Sheltered' /\ Settled(todo')
                    /\ <<Buildroot, "stale_native">> \in mounts' =>
                            Soon(todo', Step("umount_all", Buildroot))
                    /\ Outdated' => Soon(todo', Step("remove", Native))
  BY DEF Strictness, Outdated
<1>1. CASE StartProgram
  <2>1. todo' = BuildProgram("strict")
    BY <1>1 DEF StartProgram
  <2>2. Shielded(todo') /\ Settled(todo')
    BY <2>1, BuildProgramSafe DEF Safe
  <2>3. Sheltered'
    BY <2>2 DEF Sheltered, NearlyShielded, Shielded
  <2> QED  BY <2>1, <2>2, <2>3, ZapIsSoon
<1>2. CASE ~StartProgram
  <2>1. mode = "strict"
    BY <1>2, ModeStep
  <2>2. todo # <<>>
    BY <1>2 DEF Next, ProgramStep, Reboot, Checkout, vars, Fail, FailWriting, RemoveInterrupted,
        MountInterrupted, Abort, At, CallInit, CheckChannel, MountStep, Register, AddPackages, Binfmt,
        BindQemu, MarkInChroot, Setup, ChrootSaveInit, CreateUsrMerge, ApkInitdb, AddUser, CacheInit,
        UmountAll, RemoveChroot, RemoveMarkers, Unregister, Clean, CacheClear, SwitchChannel, Install,
        InstallBuild, BuildNext, BuildInit, BuildInitDone, MountNative, BindSysroot, UmountSysroot,
        RunProgram, EnsureNative, CreateImage, UmountMnt, Partition, RemoveRootfsMarker, BindRootfs,
        CopyRootfs
  <2>3. /\ Sheltered /\ Settled(todo)
        /\ <<Buildroot, "stale_native">> \in mounts => Soon(todo, Step("umount_all", Buildroot))
        /\ Outdated => Soon(todo, Step("remove", Native))
    BY <2>1, <2>2 DEF IInv, Strictness, Outdated
  <2>4. todo \in Seq(StepType) /\ Len(todo) \in Nat /\ Head(todo) = todo[1] /\ 1 \in 1..Len(todo)
    BY <2>2, SeqFacts DEF IInv, Proper
  <2>5. ~AutoZapsNative
    <3>1. SUFFICES ASSUME AutoZapsNative PROVE FALSE
      OBVIOUS
    <3>2. Outdated /\ Head(todo).op = "check_channel"
      BY <3>1 DEF AutoZapsNative, WrongChannel, Outdated, CheckChannel, At
    <3> QED  BY <2>3, <2>4, <3>2, SoonStep DEF Harmless, Quiet
  <2>6. Follows
    BY <2>5, TodoStep
  <2>7. Settled(todo')
    <3>1. Settled(Tail(todo)) /\ Tail(todo) \in Seq(StepType)
      BY <2>2, <2>3, <2>4, TailSettled, HeadTailProperties
    <3>2. \A steps \in Seq(StepType) : Settled(steps) => Settled(steps \o Tail(todo))
      BY <3>1, ConcatSettled
    <3> QED  BY <1>2, <2>3, <2>6, <3>1, <3>2 DEF Follows
  <2>8. ASSUME <<Buildroot, "stale_native">> \in mounts'
        PROVE  Soon(todo', Step("umount_all", Buildroot))
    <3> DEFINE step == Step("umount_all", Buildroot)
    <3>1. <<Buildroot, "stale_native">> \in mounts /\ Soon(todo, step)
      BY <2>3, <2>6, <2>8, ShieldStep
    <3>2. step.op = "umount_all" /\ step.chroot = Buildroot
      BY StepFacts
    <3> HIDE DEF step
    <3>3. Head(todo).op \in Harmless /\ (Head(todo) = step \/ Soon(Tail(todo), step))
      BY <2>4, <3>1, SoonStep
    <3>4. todo' = todo \/ todo' = Tail(todo)
      BY <2>2, <3>3, HarmlessStep
    <3>5. CASE Head(todo) = step
      <4>1. <<Buildroot, "stale_native">> \in MountsIn(C)
        BY <3>1, <3>2, <3>5 DEF MountsIn, C
      <4> QED  BY <2>2, <3>1, <3>2, <3>3, <3>5, <4>1, HarmlessStep DEF step
    <3> QED  BY <3>1, <3>3, <3>4, <3>5 DEF step
  <2>9. ASSUME Outdated'
        PROVE  Soon(todo', Step("remove", Native))
    <3> DEFINE step == Step("remove", Native)
    <3>1. Head(todo).op # "switch_channel"
      BY <2>3, <2>4 DEF Settled
    <3>2. Soon(todo, step)
      BY <2>2, <2>3, <2>9, <3>1, OutdatedStep
    <3>3. step.op = "remove" /\ step.chroot = Native
      BY StepFacts
    <3> HIDE DEF step
    <3>4. Head(todo).op \in Harmless /\ (Head(todo) = step \/ Soon(Tail(todo), step))
      BY <2>4, <3>2, SoonStep
    <3>5. todo' = todo \/ todo' = Tail(todo)
      BY <2>2, <3>4, HarmlessStep
    <3>6. ASSUME Head(todo) = step, RemoveChroot PROVE FALSE
      <4>1. C = Native /\ content \in [Chroots -> Contents] /\ Native \in Chroots
        BY <3>3, <3>6, ChrootsAreThree DEF C, IInv, TypeOK
      <4>2. content'[Native] = "absent"
        BY <3>6, <4>1 DEF RemoveChroot
      <4> QED  BY <2>9, <4>2 DEF Outdated, Exists
    <3>7. CASE Head(todo) = step
      BY <2>2, <3>2, <3>3, <3>4, <3>6, <3>7, HarmlessStep DEF step
    <3> QED  BY <3>2, <3>4, <3>5, <3>7 DEF step
  <2>10. Sheltered'
    BY <2>3, <2>6, ShieldStep
  <2> QED  BY <2>7, <2>8, <2>9, <2>10
<1> QED  BY <1>1, <1>2

-----------------------------------------------------------------------------
(* The invariant, and what follows from it.                                *)

LEMMA InitIInv == Init => IInv
<1> SUFFICES ASSUME Init PROVE IInv
  OBVIOUS
<1>1. MaxNested \in Nat /\ MaxRuns \in Nat
  BY BuildsAssumption
<1>2. TypeOK
  <2>1. DiskOK
    BY DEF Init, DiskOK, Contents
  <2>2. KernelOK /\ CachesOK
    BY DEF Init, KernelOK, CachesOK, Modes
  <2>3. SettingsOK
    BY <1>1 DEF Init, SettingsOK
  <2>4. NestedOK
    BY <1>1 DEF Init, NestedOK
  <2>5. LoopOK /\ todo \in Seq(StepType)
    BY DEF Init, LoopOK, Kinds
  <2> QED  BY <2>1, <2>2, <2>3, <2>4, <2>5, TypeParts
<1>3. Proper(todo) /\ Prepared
  BY EmptyBlock DEF Init, Block, Prepared, DeletesNothingMounted, At
<1>4. RecordIsTrue /\ NativeInBuildroot
  BY DEF Init, RecordIsTrue, Exists, NativeInBuildroot
<1>5. Shielding
  <2>1. Shielded(<<>>) /\ 1..Len(<<>>) = {}
    BY EmptySafe DEF Safe
  <2> QED  BY <2>1 DEF Init, Shielding, Sheltered, NearlyShielded
<1>6. Strictness
  BY DEF Init, Strictness
<1> QED  BY <1>2, <1>3, <1>4, <1>5, <1>6 DEF IInv

LEMMA NextIInv == IInv /\ [Next]_vars => IInv'
  BY TodoStep, TypeStep, RecordStep, NativeStep, ShieldingStep, StrictStep DEF IInv

LEMMA Invariance == Spec => []IInv
  BY InitIInv, NextIInv, PTL DEF Spec

(* The chroots, mounts, caches and steps of any number of programs are of  *)
(* their types: init(), shutdown(), zap and the build loop only ever meet  *)
(* states they know.                                                       *)
THEOREM TypeCorrect == Spec => []TypeOK
<1>1. IInv => TypeOK
  BY DEF IInv
<1> QED  BY <1>1, Invariance, PTL

(* del_chroot() never deletes a chroot with anything mounted in it,        *)
(* wherever earlier programs failed and whichever build, installation or   *)
(* channel check calls it.                                                 *)
THEOREM NothingMountedIsDeleted == Spec => []DeletesNothingMounted
<1>1. IInv => DeletesNothingMounted
  BY DEF IInv, Prepared
<1> QED  BY <1>1, Invariance, PTL

(* The channel in workdir.cfg is that of the packages in the chroot, or    *)
(* there is none: chroot_check_channel() never lets a chroot of another    *)
(* channel pass.                                                           *)
THEOREM RecordStaysTrue == Spec => []RecordIsTrue
<1>1. IInv => RecordIsTrue
  BY DEF IInv
<1> QED  BY <1>1, Invariance, PTL

(* Without auto zapping, no chroot keeps a deleted native chroot mounted:  *)
(* every zap that build, install or zap reach has unmounted the buildroot  *)
(* since crossdirect last mounted the native chroot there.  With it, what  *)
(* it left stale is gone before a strict build compiles anything: its zap  *)
(* unmounts the buildroot, and after it no channel is wrong any more.      *)
THEOREM NoDeletedChrootStaysMounted == Spec => []NoStaleNative
<1>1. ASSUME IInv PROVE NoStaleNative
  <2>1. NativeInBuildroot /\ Shielding /\ Strictness
    BY <1>1 DEF IInv
  <2>2. autoZap \/ \A c \in Chroots : <<c, "stale_native">> \notin mounts
    BY <2>1 DEF NativeInBuildroot, Shielding
  <2>3. ASSUME mode = "strict", At("abuild")
        PROVE  \A c \in Chroots : <<c, "stale_native">> \notin mounts
    <3>1. todo # <<>> /\ Head(todo).op = "abuild" /\ todo \in Seq(StepType)
      BY <1>1, <2>3 DEF At, IInv, Proper
    <3>2. ~Soon(todo, Step("umount_all", Buildroot))
      BY <3>1, SoonStep DEF Harmless, Quiet
    <3>3. <<Buildroot, "stale_native">> \notin mounts
      BY <2>1, <2>3, <3>1, <3>2 DEF Strictness
    <3> QED  BY <2>1, <3>3 DEF NativeInBuildroot
  <2> QED  BY <2>2, <2>3 DEF NoStaleNative
<1> QED  BY <1>1, Invariance, PTL

-----------------------------------------------------------------------------
(* What the steps of a program rely on.                                    *)
(*                                                                         *)
(* Reads says which facts about a chroot a step relies on, Sets which it   *)
(* establishes and Upsets which it may destroy, together with the steps it *)
(* is replaced by.  The invariant is that what the steps that are left     *)
(* rely on holds (Held), and that no step that is left destroys what one   *)
(* after it relies on (Calm).                                              *)

BaseMounts == {"dev", "keys", "packages"}

(* What init() mounts in c. *)
MountedIn(c) == IF c \in Emulated THEN BaseMounts \cup {"qemu"} ELSE BaseMounts

(* What init() has to find or leave. *)
Equipment(c) == MountedIn(c) \cup {"there", "current"}

(* Besides the steps there are names for a few lists of them: "mount steps"*)
(* for MountSteps, "deletion" for UmountAndRemove, "zap" for               *)
(* ZapBuildrootsSteps, "system image" for SystemImageSteps and "program"   *)
(* for all steps of one; "packages" also stands for the steps of a build.  *)
(* "need": the steps after x rely on what a build during "install" leaves. *)
Reads(x, need, kind, c) ==
    \/ x.op \in {"init", "install", "install_build", "build_init"}
          /\ c = x.chroot /\ kind = "sound"
    \/ x.op \in {"init", "install", "install_build", "build_init", "register", "packages",
           "ensure_native"}
          /\ c = Native /\ kind = "sound"
    \/ x.op = "mount steps" /\ x.chroot # Native /\ c = Native /\ kind = "sound"
    \/ x.op \in {"install_build", "packages"} /\ c = Buildroot /\ kind = "sound"
    \/ x.op \in {"init", "install", "install_build", "build_init"}
          /\ c = x.chroot /\ c = Rootfs /\ kind = "noted"
    \/ x.op \in {"init", "cache", "build_init"}
          /\ need /\ x.chroot = Rootfs /\ c = Native /\ kind = "kept"
    \/ x.op \in {"cache", "run"}
          /\ c = x.chroot /\ (kind \in Equipment(c) \/ (kind = "registered" /\ c \in Emulated))
    \/ x.op = "cache" /\ c = x.chroot /\ kind = "marked"
    \/ x.op = "setup" /\ c = x.chroot /\ kind = "current"
    \/ x.op = "abuild" /\ c = x.chroot /\ kind \in {"fit", "seen"}
    \/ x.op = "apk_add" /\ c = x.chroot /\ kind = "there"
    \/ x.op = "add_tools" /\ c = Native /\ kind \in {"there", "current"}
    \/ x.op = "partition" /\ c = Native /\ kind = "tools"
    \/ x.op = "remove_marker" /\ c = x.chroot /\ kind = "marked"
    \/ x.op = "ensure_native" /\ c = Native /\ kind = "spare"
    \/ x.op = "ensure_native" /\ c = Rootfs /\ kind = "open"
    \/ x.op = "system image" /\ c = Rootfs /\ kind \in {"there", "current", "marked"}
    \/ x.op = "system image" /\ c \in {Native, Buildroot} /\ kind = "sound"
    \/ x.op = "system image" /\ c = Native /\ kind = "tools"
    \/ x.op = "program" /\ kind \in {"sound", "noted"}

Sets(x, kind, c) ==
    \/ x.op = "mount_dev" /\ c = x.chroot /\ kind = "dev"
    \/ x.op = "mount_keys" /\ c = x.chroot /\ kind = "keys"
    \/ x.op = "mount_packages" /\ c = x.chroot /\ kind = "packages"
    \/ x.op = "bind_qemu" /\ c = x.chroot /\ kind = "qemu"
    \/ x.op \in {"binfmt", "register"} /\ kind = "registered"
    \/ x.op = "mark" /\ c = x.chroot /\ kind = "marked"
    \/ x.op = "check_channel" /\ c = x.chroot /\ kind = "current"
    \/ x.op \in {"setup", "apk_initdb"} /\ c = x.chroot /\ kind = "there"
    \/ x.op \in {"cache", "init"}
          /\ c = x.chroot /\ kind \in {"sound", "fit", "seen", "open"}
    \/ x.op \in {"cache", "init"} /\ x.chroot = Rootfs /\ c = Native /\ kind = "spare"
    \/ x.op = "cache" /\ c = x.chroot /\ kind = "noted"
    \/ x.op = "init"
          /\ c = x.chroot /\ (kind \in Equipment(c) \/ (kind = "registered" /\ c \in Emulated))
    \/ x.op = "init" /\ c = x.chroot /\ c = Rootfs /\ kind = "marked"
    \/ x.op \in {"remove", "deletion"}
          /\ c = x.chroot /\ (kind \in {"current", "fit"} \/ (c = Native /\ kind = "spare"))
    \/ x.op \in {"cache_clear", "zap"} /\ kind \in {"sound", "noted"}
    \/ x.op \in {"install", "install_build", "mount_native"}
          /\ c = x.chroot /\ kind \in {"there", "seen"}
    \/ x.op = "build_init" /\ c = x.chroot /\ kind \in {"fit", "seen"}
    \/ x.op = "add_tools" /\ c = Native /\ kind \in {"tools", "spare", "kept"}
    \/ x.op = "ensure_native" /\ c = Native /\ kind = "tools"
    \/ x.op = "mount steps"
          /\ c = x.chroot /\ (kind \in MountedIn(c) \/ (kind = "registered" /\ c \in Emulated))
    \/ x.op = "zap" /\ c \in {Native, Buildroot} /\ kind \in {"current", "fit"}
    \/ x.op = "zap" /\ c = Native /\ kind = "spare"

Upsets(x, kind, c) ==
    \/ x.op = "umount_all"
          /\ c = x.chroot /\ kind \in MountedIn(c) \cup {"open", "sound", "fit"}
    \/ x.op = "remove"
          /\ c = x.chroot /\ kind \in {"there", "open", "seen", "sound", "marked", "noted"}
    \/ x.op \in {"remove", "deletion"}
          /\ c = x.chroot /\ c = Native /\ kind \in {"tools", "kept"}
    \/ x.op = "remove_markers" /\ c \in x.chroot /\ kind \in {"marked", "noted"}
    \/ x.op = "remove_marker" /\ c = x.chroot /\ kind \in {"marked", "noted"}
    \/ x.op = "unregister" /\ kind \in {"registered", "fit", "sound"}
    \/ x.op = "switch_channel" /\ kind \in {"current", "fit", "sound", "kept"}
    \/ x.op \in {"setup", "apk_initdb"}
          /\ c = x.chroot /\ (kind = "fit" \/ (c = Native /\ kind = "spare"))
    \/ x.op \in {"check_channel", "deletion"}
          /\ c = x.chroot /\ kind \in MountedIn(c) \cup {"there", "open", "seen", "sound",
                 "marked", "noted"}
    \/ x.op = "check_channel" /\ c = x.chroot /\ c = Native /\ kind = "tools"
    \/ x.op \in {"init", "install", "register", "build_init", "install_build", "packages",
           "mount steps"}
          /\ c = Native /\ kind = "tools"
    \/ x.op \in {"init", "install", "install_build"}
          /\ x.chroot # Rootfs /\ c = Native /\ kind = "spare"
    \/ x.op \in {"register", "build_init", "packages", "mount steps"}
          /\ c = Native /\ kind = "spare"
    \/ x.op \in {"install_build", "packages"}
          /\ c \in {Native, Buildroot} /\ kind \in MountedIn(c) \cup {"open", "marked"}
    \/ x.op = "packages" /\ c \in {Native, Buildroot} /\ kind \in {"there", "seen"}
    \/ x.op = "install_build"
          /\ c # x.chroot /\ c \in {Native, Buildroot} /\ kind \in {"there", "seen"}
    \/ x.op \in {"install_build", "packages"} /\ c = Native /\ kind = "kept"
    \/ x.op = "zap"
          /\ c \in {Native, Buildroot}
                 /\ kind \in MountedIn(c) \cup {"there", "open", "seen", "marked"}
    \/ x.op = "zap" /\ c = Native /\ kind \in {"tools", "kept"}
    \/ x.op \in {"system image", "program"}

(* "ensure_native" comes after step k of s, and nothing in between         *)
(* establishes what it relies on.                                          *)
After(s, k) ==
    \E m \in k+1..Len(s) :
        /\ s[m].op = "ensure_native"
        /\ \A i \in k+1..m-1 : ~Sets(s[i], "spare", Native)

(* The steps s rely on it as it is now. *)
Relies(s, kind, c) ==
    \E k \in 1..Len(s) :
        /\ Reads(s[k], After(s, k), kind, c)
        /\ \A i \in 1..k-1 : ~Sets(s[i], kind, c)

(* No step destroys what a later one relies on. *)
Calm(s) ==
    \A i, k \in 1..Len(s) : \A kind, c :
        i < k /\ Upsets(s[i], kind, c) /\ Reads(s[k], After(s, k), kind, c) =>
            \E j \in i+1..k-1 : Sets(s[j], kind, c)

(* It is mounted, as far as init() knows. *)
Present(c, what) == <<c, what>> \in mounts \/ (what = "packages" /\ <<c, what>> \in lost)

(* What chroots have that init() has finished with; see Ready. *)
Equipped(c) ==
    /\ \A what \in BaseMounts : Present(c, what)
    /\ c \in Emulated => registered /\ <<c, "qemu">> \in mounts
    /\ record[c] = channel

Tools == "install_native_packages" \in packages

Holds(kind, c) ==
    /\ kind \in MountedIn(c) => Present(c, kind)
    /\ kind = "registered" => registered
    /\ kind = "there"   => Exists(c)
    /\ kind = "open"    => IsMounted(c)
    /\ kind = "current" => (Exists(c) => record[c] = channel)
    /\ kind = "sound"   => (c \in cached => Exists(c) /\ Equipped(c))
    /\ kind = "fit"     => (Exists(c) => c \in skipped \/ Equipped(c))
    /\ kind = "seen"    => Exists(c) \/ c \in skipped
    /\ kind = "marked"  => c \in marker
    /\ kind = "noted"   => (c \in cached => c \in marker)
    /\ c = Native =>
          /\ kind = "tools" => Tools
          /\ kind = "spare" => (Exists(c) => Tools)
          /\ kind = "kept"  => Exists(c) /\ Tools /\ record[c] = channel

Held == \A kind : \A c \in Chroots : Relies(todo, kind, c) => Holds(kind, c)

-----------------------------------------------------------------------------
(* Lemmas about what sequences of steps rely on.                           *)

LEMMA Positions ==
    ASSUME NEW S, NEW s \in Seq(S)
    PROVE  /\ Len(s) \in Nat
           /\ \A k \in 1..Len(s) : s[k] \in S
           /\ s # <<>> => /\ Len(s) >= 1 /\ Head(s) = s[1] /\ 1 \in 1..Len(s)
                          /\ Tail(s) \in Seq(S) /\ Len(s) = Len(Tail(s)) + 1
                          /\ \A k \in 1..Len(Tail(s)) : s[k + 1] = Tail(s)[k]
<1>1. Len(s) \in Nat /\ \A k \in 1..Len(s) : s[k] \in S
  BY LenProperties, ElementOfSeq
<1>2. s # <<>> => Len(s) >= 1 /\ Head(s) = s[1]
  BY EmptySeq, HeadTailProperties
<1>3. s # <<>> => /\ Tail(s) \in Seq(S) /\ Len(Tail(s)) = Len(s) - 1
                  /\ \A k \in 1..Len(Tail(s)) : Tail(s)[k] = s[k + 1]
  BY HeadTailProperties
<1>4. s # <<>> => Len(s) = Len(Tail(s)) + 1
  BY <1>1, <1>2, <1>3
<1> QED  BY <1>1, <1>2, <1>3, <1>4

LEMMA NothingRelied == Calm(<<>>) /\ \A kind, c : ~Relies(<<>>, kind, c)
<1>1. Len(<<>>) = 0 /\ 1..0 = {}
  OBVIOUS
<1> QED  BY <1>1 DEF Calm, Relies

LEMMA Shifted ==
    ASSUME NEW u \in Seq(StepType), NEW t \in Seq(StepType), Len(u) = Len(t) + 1,
           \A k \in 1..Len(t) : u[k + 1] = t[k],
           NEW k \in 0..Len(t)
    PROVE  After(u, k + 1) = After(t, k)
<1>1. Len(t) \in Nat
  BY Positions
<1>2. ASSUME After(t, k) PROVE After(u, k + 1)
  <2>1. PICK m \in k+1..Len(t) :
             /\ t[m].op = "ensure_native"
             /\ \A i \in k+1..m-1 : ~Sets(t[i], "spare", Native)
    BY <1>2 DEF After
  <2>2. m + 1 \in (k+1)+1..Len(u) /\ m \in 1..Len(t)
    BY <1>1, <2>1
  <2>3. \A i \in (k+1)+1..(m+1)-1 : i - 1 \in k+1..m-1 /\ i - 1 \in 1..Len(t) /\ (i - 1) + 1 = i
    BY <1>1, <2>1
  <2>4. \A i \in (k+1)+1..(m+1)-1 : u[i] = t[i - 1]
    BY <2>3
  <2>5. \A i \in (k+1)+1..(m+1)-1 : ~Sets(u[i], "spare", Native)
    BY <2>1, <2>3, <2>4
  <2> QED  BY <2>1, <2>2, <2>5 DEF After
<1>3. ASSUME After(u, k + 1) PROVE After(t, k)
  <2>1. PICK m \in (k+1)+1..Len(u) :
             /\ u[m].op = "ensure_native"
             /\ \A i \in (k+1)+1..m-1 : ~Sets(u[i], "spare", Native)
    BY <1>3 DEF After
  <2>2. m - 1 \in k+1..Len(t) /\ m - 1 \in 1..Len(t) /\ (m - 1) + 1 = m
    BY <1>1, <2>1
  <2>3. u[m] = t[m - 1]
    BY <2>2
  <2>4. \A i \in k+1..(m-1)-1 : i + 1 \in (k+1)+1..m-1 /\ i \in 1..Len(t)
    BY <1>1, <2>1
  <2>5. \A i \in k+1..(m-1)-1 : ~Sets(t[i], "spare", Native)
    BY <2>1, <2>4
  <2> QED  BY <2>1, <2>2, <2>3, <2>5 DEF After
<1> QED  BY <1>2, <1>3 DEF After

LEMMA ReliesSpare ==
    ASSUME NEW t \in Seq(StepType)
    PROVE  After(t, 0) = Relies(t, "spare", Native)
<1>1. \A x, need : Reads(x, need, "spare", Native) <=> x.op = "ensure_native"
  BY DEF Reads, Equipment, MountedIn, BaseMounts
<1>2. After(t, 0) <=> \E m \in 1..Len(t) : /\ t[m].op = "ensure_native"
                                           /\ \A i \in 1..m-1 : ~Sets(t[i], "spare", Native)
  <2>1. 0 + 1 = 1
    OBVIOUS
  <2> QED  BY <2>1 DEF After
<1>3. After(t, 0) <=> Relies(t, "spare", Native)
  BY <1>1, <1>2 DEF Relies
<1> QED  BY <1>3 DEF After, Relies

(* What is left of a program when its first step is done.                  *)
LEMMA Remainder ==
    ASSUME NEW s \in Seq(StepType), Calm(s), s # <<>>
    PROVE  /\ Tail(s) \in Seq(StepType) /\ Calm(Tail(s))
           /\ \A kind, c : Reads(Head(s), Relies(Tail(s), "spare", Native), kind, c) =>
                 Relies(s, kind, c)
           /\ \A kind, c : Relies(Tail(s), kind, c) =>
                 /\ Sets(Head(s), kind, c) \/ Relies(s, kind, c)
                 /\ ~Upsets(Head(s), kind, c)
<1> DEFINE t == Tail(s)
<1>1. /\ Len(s) \in Nat /\ Len(s) >= 1 /\ Head(s) = s[1] /\ 1 \in 1..Len(s)
      /\ t \in Seq(StepType) /\ Len(s) = Len(t) + 1 /\ \A k \in 1..Len(t) : s[k + 1] = t[k]
      /\ Len(t) \in Nat
  BY Positions
<1> HIDE DEF t
<1>2. \A k \in 1..Len(t) : s[k + 1] = t[k] /\ k + 1 \in 1..Len(s) /\ k \in 0..Len(t)
  BY <1>1
<1>3. \A k \in 0..Len(t) : After(s, k + 1) = After(t, k)
  BY <1>1, Shifted
<1>4. Calm(t)
  <2> SUFFICES ASSUME NEW i \in 1..Len(t), NEW k \in 1..Len(t), NEW kind, NEW c,
                      i < k, Upsets(t[i], kind, c), Reads(t[k], After(t, k), kind, c)
               PROVE  \E j \in i+1..k-1 : Sets(t[j], kind, c)
    BY DEF Calm
  <2>1. PICK j \in (i+1)+1..(k+1)-1 : Sets(s[j], kind, c)
    <3>1. i + 1 < k + 1 /\ i + 1 \in 1..Len(s) /\ k + 1 \in 1..Len(s)
      BY <1>2
    <3>2. Upsets(s[i + 1], kind, c) /\ Reads(s[k + 1], After(s, k + 1), kind, c)
      BY <1>2, <1>3
    <3> QED  BY <3>1, <3>2 DEF Calm
  <2>2. j - 1 \in i+1..k-1 /\ j - 1 \in 1..Len(t) /\ (j - 1) + 1 = j
    BY <1>1, <2>1
  <2> QED  BY <1>2, <2>1, <2>2
<1>5. ASSUME NEW kind, NEW c, Reads(s[1], Relies(t, "spare", Native), kind, c)
      PROVE  Relies(s, kind, c)
  <2>1. 0 \in 0..Len(t) /\ 0 + 1 = 1
    BY <1>1
  <2>2. After(s, 0 + 1) = After(t, 0)
    BY <1>3, <2>1
  <2>3. Reads(s[1], After(s, 1), kind, c)
    BY <1>1, <1>5, <2>1, <2>2, ReliesSpare
  <2> QED  BY <1>1, <2>3 DEF Relies
<1>6. ASSUME NEW kind, NEW c, Relies(t, kind, c)
      PROVE  (Sets(s[1], kind, c) \/ Relies(s, kind, c)) /\ ~Upsets(s[1], kind, c)
  <2>1. PICK k \in 1..Len(t) :
             Reads(t[k], After(t, k), kind, c) /\ \A i \in 1..k-1 : ~Sets(t[i], kind, c)
    BY <1>6 DEF Relies
  <2>2. k + 1 \in 1..Len(s) /\ Reads(s[k + 1], After(s, k + 1), kind, c) /\ 1 < k + 1
    BY <1>2, <1>3, <2>1
  <2>3. \A j \in 1+1..(k+1)-1 : ~Sets(s[j], kind, c)
    <3> SUFFICES ASSUME NEW j \in 1+1..(k+1)-1
                 PROVE  ~Sets(s[j], kind, c)
      OBVIOUS
    <3>1. j - 1 \in 1..k-1 /\ j - 1 \in 1..Len(t) /\ (j - 1) + 1 = j
      BY <1>1, <2>1
    <3> QED  BY <1>2, <2>1, <3>1
  <2>4. ~Upsets(s[1], kind, c)
    BY <1>1, <2>2, <2>3 DEF Calm
  <2>5. ~Sets(s[1], kind, c) => \A j \in 1..(k+1)-1 : ~Sets(s[j], kind, c)
    <3> SUFFICES ASSUME ~Sets(s[1], kind, c), NEW j \in 1..(k+1)-1
                 PROVE  ~Sets(s[j], kind, c)
      OBVIOUS
    <3>1. j = 1 \/ j \in 1+1..(k+1)-1
      BY <2>1
    <3> QED  BY <2>3, <3>1
  <2> QED  BY <2>2, <2>4, <2>5 DEF Relies
<1> QED  BY <1>1, <1>4, <1>5, <1>6 DEF t

(* A step put in front of others.                                          *)
LEMMA Prepended ==
    ASSUME NEW x \in StepType, NEW t \in Seq(StepType), Calm(t),
           \A kind, c : Relies(t, kind, c) => ~Upsets(x, kind, c)
    PROVE  /\ <<x>> \o t \in Seq(StepType) /\ Calm(<<x>> \o t)
           /\ \A kind, c : Relies(<<x>> \o t, kind, c) =>
                 \/ Reads(x, Relies(t, "spare", Native), kind, c)
                 \/ Relies(t, kind, c) /\ ~Sets(x, kind, c)
<1> DEFINE u == <<x>> \o t
<1>1. Len(t) \in Nat /\ \A k \in 1..Len(t) : t[k] \in StepType
  BY Positions
<1>2. <<x>> \in Seq(StepType) /\ Len(<<x>>) = 1 /\ <<x>>[1] = x
  OBVIOUS
<1>3. /\ u \in Seq(StepType) /\ Len(u) = 1 + Len(t)
      /\ \A k \in 1..(1 + Len(t)) : u[k] = IF k <= 1 THEN <<x>>[k] ELSE t[k - 1]
  BY <1>2, ConcatProperties
<1> HIDE DEF u
<1>4. u[1] = x /\ 1 \in 1..Len(u)
  BY <1>1, <1>2, <1>3
<1>5. \A k \in 1..Len(u) : k # 1 => k - 1 \in 1..Len(t) /\ u[k] = t[k - 1]
  BY <1>1, <1>3
<1>6. \A k \in 1..Len(t) : k + 1 \in 1..Len(u) /\ u[k + 1] = t[k]
  <2> SUFFICES ASSUME NEW k \in 1..Len(t)
               PROVE  k + 1 \in 1..Len(u) /\ u[k + 1] = t[k]
    OBVIOUS
  <2>1. k + 1 \in 1..Len(u) /\ k + 1 # 1 /\ (k + 1) - 1 = k
    BY <1>1, <1>3
  <2> QED  BY <1>5, <2>1
<1>7. Len(u) = Len(t) + 1
  BY <1>1, <1>3
<1>8. \A k \in 0..Len(t) : After(u, k + 1) = After(t, k)
  BY <1>3, <1>6, <1>7, Shifted
<1>9. After(u, 1) = Relies(t, "spare", Native)
  <2>1. 0 \in 0..Len(t) /\ 0 + 1 = 1
    BY <1>1
  <2>2. After(u, 0 + 1) = After(t, 0)
    BY <1>8, <2>1
  <2> QED  BY <2>1, <2>2, ReliesSpare
<1>10. \A k \in 1..Len(u) : k # 1 => After(u, k) = After(t, k - 1)
  <2> SUFFICES ASSUME NEW k \in 1..Len(u), k # 1
               PROVE  After(u, k) = After(t, k - 1)
    OBVIOUS
  <2>1. k - 1 \in 0..Len(t) /\ (k - 1) + 1 = k
    BY <1>1, <1>7
  <2>2. After(u, (k - 1) + 1) = After(t, k - 1)
    BY <1>8, <2>1
  <2> QED  BY <2>1, <2>2
<1>11. ASSUME NEW k \in 1..Len(u), k # 1, NEW kind, NEW c, Reads(u[k], After(u, k), kind, c),
             \A j \in 2..k-1 : ~Sets(u[j], kind, c)
      PROVE  Relies(t, kind, c)
  <2>1. k - 1 \in 1..Len(t) /\ Reads(t[k - 1], After(t, k - 1), kind, c)
    BY <1>5, <1>10, <1>11
  <2>2. \A j \in 1..(k-1)-1 : ~Sets(t[j], kind, c)
    <3> SUFFICES ASSUME NEW j \in 1..(k-1)-1
                 PROVE  ~Sets(t[j], kind, c)
      OBVIOUS
    <3>1. j + 1 \in 2..k-1 /\ j \in 1..Len(t)
      BY <1>1, <2>1
    <3> QED  BY <1>6, <1>11, <3>1
  <2> QED  BY <2>1, <2>2 DEF Relies
<1>12. Calm(u)
  <2> SUFFICES ASSUME NEW i \in 1..Len(u), NEW k \in 1..Len(u), NEW kind, NEW c,
                      i < k, Upsets(u[i], kind, c), Reads(u[k], After(u, k), kind, c)
               PROVE  \E j \in i+1..k-1 : Sets(u[j], kind, c)
    BY DEF Calm
  <2>1. CASE i = 1
    <3>1. k # 1 /\ Upsets(x, kind, c)
      BY <1>4, <2>1
    <3>2. ~Relies(t, kind, c)
      BY <3>1
    <3>3. \E j \in 2..k-1 : Sets(u[j], kind, c)
      BY <1>11, <3>1, <3>2
    <3> QED  BY <2>1, <3>3
  <2>2. CASE i # 1
    <3>1. i - 1 \in 1..Len(t) /\ k - 1 \in 1..Len(t) /\ i - 1 < k - 1 /\ k # 1
      BY <1>5, <2>2
    <3>2. Upsets(t[i - 1], kind, c) /\ Reads(t[k - 1], After(t, k - 1), kind, c)
      BY <1>5, <1>10, <2>2, <3>1
    <3>3. PICK j \in (i-1)+1..(k-1)-1 : Sets(t[j], kind, c)
      BY <3>1, <3>2 DEF Calm
    <3>4. j + 1 \in i+1..k-1 /\ j \in 1..Len(t)
      BY <1>1, <3>1, <3>3
    <3> QED  BY <1>6, <3>3, <3>4
  <2> QED  BY <2>1, <2>2
<1>13. ASSUME NEW kind, NEW c, Relies(u, kind, c)
       PROVE  \/ Reads(x, Relies(t, "spare", Native), kind, c)
              \/ Relies(t, kind, c) /\ ~Sets(x, kind, c)
  <2>1. PICK k \in 1..Len(u) :
             Reads(u[k], After(u, k), kind, c) /\ \A i \in 1..k-1 : ~Sets(u[i], kind, c)
    BY <1>13 DEF Relies
  <2>2. CASE k = 1
    BY <1>4, <1>9, <2>1, <2>2
  <2>3. CASE k # 1
    <3>1. 1 \in 1..k-1 /\ \A j \in 2..k-1 : j \in 1..k-1
      BY <1>3, <2>1, <2>3
    <3>2. ~Sets(x, kind, c) /\ \A j \in 2..k-1 : ~Sets(u[j], kind, c)
      BY <1>4, <2>1, <3>1
    <3> QED  BY <1>11, <2>1, <2>3, <3>2
  <2> QED  BY <2>2, <2>3
<1> QED  BY <1>3, <1>12, <1>13 DEF u

-----------------------------------------------------------------------------
(* What lists of steps do to what is relied on.                            *)

Then(s, t) == s \o t

LEMMA ThenTyped ==
    ASSUME NEW s \in Seq(StepType), NEW t \in Seq(StepType)
    PROVE  Then(s, t) \in Seq(StepType)
  BY DEF Then

(* Nothing that y destroys is relied on by the steps t. *)
Spared(y, t) ==
    /\ t \in Seq(StepType) /\ Calm(t)
    /\ \A kind, c : Relies(t, kind, c) => ~Upsets(y, kind, c)

(* u, which starts with x and goes on with t, relies on what x relies on,  *)
(* and on what t relies on and x does not establish.                       *)
Leads(x, t, u) ==
    /\ u \in Seq(StepType) /\ Calm(u)
    /\ \A kind, c : Relies(u, kind, c) =>
          \/ Reads(x, Relies(t, "spare", Native), kind, c)
          \/ Relies(t, kind, c) /\ ~Sets(x, kind, c)

(* The same if x may be left out. *)
MayLead(x, t, u) ==
    /\ u \in Seq(StepType) /\ Calm(u)
    /\ \A kind, c : Relies(u, kind, c) =>
          Reads(x, Relies(t, "spare", Native), kind, c) \/ Relies(t, kind, c)

(* The steps s may stand where y could: in front of steps that rely on     *)
(* nothing y destroys, they do what y would.                               *)
Does(s, y) ==
    /\ s \in Seq(StepType)
    /\ \A t \in Seq(StepType) : Spared(y, t) => Leads(y, t, Then(s, t))

LEMMA DoesItself ==
    ASSUME NEW x \in StepType
    PROVE  Does(<<x>>, x)
<1>1. <<x>> \in Seq(StepType)
  OBVIOUS
<1>2. ASSUME NEW t \in Seq(StepType), Spared(x, t)
      PROVE  Leads(x, t, Then(<<x>>, t))
  <2>1. Then(<<x>>, t) \in Seq(StepType)
    BY <1>1, ThenTyped
  <2> QED  BY <1>2, <2>1, Prepended DEF Spared, Leads, Then
<1> QED  BY <1>1, <1>2 DEF Does

LEMMA StepTyped ==
    ASSUME NEW op \in Ops, NEW c \in Chroots \cup SUBSET Chroots
    PROVE  Step(op, c) \in StepType
  BY DEF Step, StepType

LEMMA DoesStep ==
    ASSUME NEW op \in Ops, NEW c \in Chroots \cup SUBSET Chroots
    PROVE  Does(<<Step(op, c)>>, Step(op, c))
  BY StepTyped, DoesItself

LEMMA Put ==
    ASSUME NEW s, NEW y, Does(s, y), NEW t, Spared(y, t)
    PROVE  Leads(y, t, Then(s, t))
  BY DEF Does, Spared

(* An optional list of steps. *)
LEMMA WhenTyped ==
    ASSUME NEW b \in BOOLEAN, NEW s, NEW y, b => Does(s, y)
    PROVE  When(b, s) \in Seq(StepType)
<1>1. <<>> \in Seq(StepType)
  OBVIOUS
<1> QED  BY <1>1 DEF When, Does

LEMMA PutWhen ==
    ASSUME NEW b \in BOOLEAN, NEW s, NEW y, b => Does(s, y), NEW t, Spared(y, t)
    PROVE  MayLead(y, t, Then(When(b, s), t))
<1>1. CASE b
  BY <1>1, Put DEF When, Leads, MayLead
<1>2. CASE ~b
  <2>1. Then(When(b, s), t) = t
    BY <1>2 DEF When, Spared, Then
  <2> QED  BY <2>1 DEF Spared, MayLead
<1> QED  BY <1>1, <1>2

LEMMA ThenAssociates ==
    ASSUME NEW a \in Seq(StepType), NEW b \in Seq(StepType), NEW t \in Seq(StepType)
    PROVE  Then(Then(a, b), t) = Then(a, Then(b, t))
  BY ConcatAssociative DEF Then

LEMMA Regrouped ==
    ASSUME NEW a \in Seq(StepType), NEW b \in Seq(StepType), NEW t \in Seq(StepType),
           NEW r, Then(b, t) = r
    PROVE  Then(Then(a, b), t) = Then(a, r)
  BY ThenAssociates

LEMMA TwoApart ==
    ASSUME NEW a \in StepType, NEW b \in StepType
    PROVE  <<a, b>> = Then(<<a>>, <<b>>)
<1>1. /\ Then(<<a>>, <<b>>) \in Seq(StepType) /\ Len(Then(<<a>>, <<b>>)) = 2
      /\ Then(<<a>>, <<b>>)[1] = a /\ Then(<<a>>, <<b>>)[2] = b
  BY ConcatProperties DEF Then
<1>2. <<a, b>> \in Seq(StepType) /\ Len(<<a, b>>) = 2
  OBVIOUS
<1>3. <<a, b>> = Then(<<a>>, <<b>>)
  BY <1>1, <1>2, SeqEqual
<1> QED  BY <1>3

LEMMA ThreeApart ==
    ASSUME NEW a \in StepType, NEW b \in StepType, NEW d \in StepType
    PROVE  <<a, b, d>> = Then(Then(<<a>>, <<b>>), <<d>>)
<1>1. /\ Then(<<a, b>>, <<d>>) \in Seq(StepType) /\ Len(Then(<<a, b>>, <<d>>)) = 3
      /\ Then(<<a, b>>, <<d>>)[1] = a /\ Then(<<a, b>>, <<d>>)[2] = b
             /\ Then(<<a, b>>, <<d>>)[3] = d
  BY ConcatProperties DEF Then
<1>2. <<a, b, d>> \in Seq(StepType) /\ Len(<<a, b, d>>) = 3
  OBVIOUS
<1>3. <<a, b, d>> = Then(<<a, b>>, <<d>>)
  BY <1>1, <1>2, SeqEqual
<1> QED  BY <1>3, TwoApart

LEMMA FourApart ==
    ASSUME NEW a \in StepType, NEW b \in StepType, NEW d \in StepType, NEW e \in StepType
    PROVE  <<a, b, d, e>> = Then(Then(Then(<<a>>, <<b>>), <<d>>), <<e>>)
<1>1. /\ Then(<<a, b, d>>, <<e>>) \in Seq(StepType) /\ Len(Then(<<a, b, d>>, <<e>>)) = 4
      /\ Then(<<a, b, d>>, <<e>>)[1] = a /\ Then(<<a, b, d>>, <<e>>)[2] = b
             /\ Then(<<a, b, d>>, <<e>>)[3] = d /\ Then(<<a, b, d>>, <<e>>)[4] = e
  BY ConcatProperties DEF Then
<1>2. <<a, b, d, e>> \in Seq(StepType) /\ Len(<<a, b, d, e>>) = 4
  OBVIOUS
<1>3. <<a, b, d, e>> = Then(<<a, b, d>>, <<e>>)
  BY <1>1, <1>2, SeqEqual
<1> QED  BY <1>3, ThreeApart

LEMMA FiveApart ==
    ASSUME NEW a \in StepType, NEW b \in StepType, NEW d \in StepType, NEW e \in StepType,
        NEW f \in StepType
    PROVE  <<a, b, d, e, f>> = Then(Then(Then(Then(<<a>>, <<b>>), <<d>>), <<e>>), <<f>>)
<1>1. /\ Then(<<a, b, d, e>>, <<f>>) \in Seq(StepType) /\ Len(Then(<<a, b, d, e>>, <<f>>)) = 5
      /\ Then(<<a, b, d, e>>, <<f>>)[1] = a /\ Then(<<a, b, d, e>>, <<f>>)[2] = b
             /\ Then(<<a, b, d, e>>, <<f>>)[3] = d /\ Then(<<a, b, d, e>>, <<f>>)[4] = e
                    /\ Then(<<a, b, d, e>>, <<f>>)[5] = f
  BY ConcatProperties DEF Then
<1>2. <<a, b, d, e, f>> \in Seq(StepType) /\ Len(<<a, b, d, e, f>>) = 5
  OBVIOUS
<1>3. <<a, b, d, e, f>> = Then(<<a, b, d, e>>, <<f>>)
  BY <1>1, <1>2, SeqEqual
<1>4. <<a, b, d, e>> = Then(Then(Then(<<a>>, <<b>>), <<d>>), <<e>>)
  BY FourApart
<1> QED  BY <1>3, <1>4

LEMMA TwoJoined ==
    ASSUME NEW a \in Seq(StepType), NEW b \in Seq(StepType),
           NEW t \in Seq(StepType), NEW r1, NEW r2,
           r2 = Then(b, t), r1 = Then(a, r2)
    PROVE  Then(Then(a, b), t) = r1
  BY ThenAssociates

LEMMA ThreeJoined ==
    ASSUME NEW a \in Seq(StepType), NEW b \in Seq(StepType), NEW d \in Seq(StepType),
           NEW t \in Seq(StepType), NEW r1, NEW r2, NEW r3,
           r3 = Then(d, t), r2 = Then(b, r3), r1 = Then(a, r2)
    PROVE  Then(Then(Then(a, b), d), t) = r1
<1>1. r3 \in Seq(StepType) /\ Then(a, b) \in Seq(StepType)
  BY ThenTyped
<1>2. Then(Then(a, b), r3) = r1
  BY <1>1, TwoJoined
<1> QED  BY <1>1, <1>2, ThenAssociates

LEMMA FourJoined ==
    ASSUME NEW a \in Seq(StepType), NEW b \in Seq(StepType),
           NEW d \in Seq(StepType), NEW e \in Seq(StepType),
           NEW t \in Seq(StepType), NEW r1, NEW r2, NEW r3, NEW r4,
           r4 = Then(e, t), r3 = Then(d, r4), r2 = Then(b, r3), r1 = Then(a, r2)
    PROVE  Then(Then(Then(Then(a, b), d), e), t) = r1
<1>1. r4 \in Seq(StepType) /\ Then(Then(a, b), d) \in Seq(StepType)
  BY ThenTyped
<1>2. Then(Then(Then(a, b), d), r4) = r1
  BY <1>1, ThreeJoined
<1> QED  BY <1>1, <1>2, ThenAssociates

LEMMA FiveJoined ==
    ASSUME NEW a \in Seq(StepType), NEW b \in Seq(StepType),
           NEW d \in Seq(StepType), NEW e \in Seq(StepType), NEW f \in Seq(StepType),
           NEW t \in Seq(StepType), NEW r1, NEW r2, NEW r3, NEW r4, NEW r5,
           r5 = Then(f, t), r4 = Then(e, r5), r3 = Then(d, r4), r2 = Then(b, r3), r1 = Then(a, r2)
    PROVE  Then(Then(Then(Then(Then(a, b), d), e), f), t) = r1
<1>1. r5 \in Seq(StepType) /\ Then(Then(Then(a, b), d), e) \in Seq(StepType)
  BY ThenTyped
<1>2. Then(Then(Then(Then(a, b), d), e), r5) = r1
  BY <1>1, FourJoined
<1> QED  BY <1>1, <1>2, ThenAssociates

LEMMA Reassociate ==
    ASSUME NEW a \in Seq(StepType), NEW b \in Seq(StepType), NEW d \in Seq(StepType),
           NEW e \in Seq(StepType)
    PROVE  Then(a, Then(Then(b, d), e)) = Then(Then(Then(a, b), d), e)
<1>1. /\ Then(b, d) \in Seq(StepType) /\ Then(d, e) \in Seq(StepType)
      /\ Then(a, b) \in Seq(StepType)
  BY ThenTyped
<1>2. Then(a, Then(Then(b, d), e)) = Then(a, Then(b, Then(d, e)))
  BY ThenAssociates
<1> QED  BY <1>1, <1>2, ThenAssociates

-----------------------------------------------------------------------------
(* What the functions do: each list of steps may stand where its name does. *)

LEMMA DeletionDoes ==
    ASSUME NEW c \in Chroots
    PROVE  Does(UmountAndRemove(c), Step("deletion", c))
<1> DEFINE x1 == Step("umount_all", c)
           s1 == <<x1>>
           x2 == Step("remove", c)
           s2 == <<x2>>
           g1 == <<x1, x2>>
           y == Step("deletion", c)
           u == UmountAndRemove(c)
<1>1. /\ x1.op = "umount_all" /\ x1.chroot = c
      /\ x2.op = "remove" /\ x2.chroot = c
      /\ y.op = "deletion" /\ y.chroot = c
  BY StepFacts
<1>2. x1 \in StepType /\ x2 \in StepType
  BY ChrootsAreThree, StepTyped DEF Ops
<1>3. Does(s1, x1) /\ Does(s2, x2)
  BY <1>2, DoesItself
<1>4. u = g1
  BY DEF UmountAndRemove
<1>5. g1 = Then(s1, s2)
  BY <1>2, TwoApart
<1> HIDE DEF x1, x2, s1, s2, g1, y, u
<1>6. s1 \in Seq(StepType) /\ s2 \in Seq(StepType)
  BY <1>3 DEF Does
<1>7. g1 \in Seq(StepType) /\ u \in Seq(StepType)
  BY <1>4, <1>5, <1>6, ThenTyped
<1>8. ASSUME NEW t \in Seq(StepType), Spared(y, t)
      PROVE  Leads(y, t, Then(u, t))
  <2> DEFINE t2 == Then(s2, t)
             t1 == Then(s1, t2)
  <2>1. Leads(x2, t, t2)
    <3>1. Spared(x2, t)
      BY <1>1, <1>8, Distinct
         DEF Spared, Leads, MayLead, Reads, Sets, Upsets, Equipment, MountedIn, BaseMounts, Emulated
    <3> QED  BY <1>3, <3>1, Put
  <2>2. Leads(x1, t2, t1)
    <3>1. Spared(x1, t2)
      BY <1>1, <1>8, <2>1, Distinct
         DEF Spared, Leads, MayLead, Reads, Sets, Upsets, Equipment, MountedIn, BaseMounts, Emulated
    <3> QED  BY <1>3, <3>1, Put
  <2>3. t1 \in Seq(StepType) /\ t2 \in Seq(StepType)
    BY <2>1, <2>2 DEF Leads, MayLead
  <2>4. t1 = Then(s1, t2) /\ t2 = Then(s2, t)
    OBVIOUS
  <2> HIDE DEF t1, t2
  <2>5. Then(u, t) = t1
    BY <1>4, <1>5, <1>6, <2>3, <2>4, TwoJoined
  <2>6. Leads(y, t, t1)
    BY <1>1, <1>8, <2>1, <2>2, Distinct
       DEF Spared, Leads, MayLead, Reads, Sets, Upsets, Equipment, MountedIn, BaseMounts, Emulated
  <2> QED  BY <2>5, <2>6
<1>9. Does(u, y)
  BY <1>7, <1>8 DEF Does
<1> QED  BY <1>9 DEF u, y

LEMMA CreateDoes ==
    ASSUME NEW c \in Chroots
    PROVE  Does(CreateSteps(c), Step("setup", c))
<1> DEFINE x1 == Step("save_init", c)
           s1 == <<x1>>
           x2 == Step("usr_merge", c)
           s2 == <<x2>>
           x3 == Step("apk_initdb", c)
           s3 == <<x3>>
           x4 == Step("add_user", c)
           s4 == <<x4>>
           g1 == <<x1, x2, x3, x4>>
           y == Step("setup", c)
           u == CreateSteps(c)
<1>1. /\ x1.op = "save_init" /\ x1.chroot = c
      /\ x2.op = "usr_merge" /\ x2.chroot = c
      /\ x3.op = "apk_initdb" /\ x3.chroot = c
      /\ x4.op = "add_user" /\ x4.chroot = c
      /\ y.op = "setup" /\ y.chroot = c
  BY StepFacts
<1>2. x1 \in StepType /\ x2 \in StepType /\ x3 \in StepType /\ x4 \in StepType
  BY ChrootsAreThree, StepTyped DEF Ops
<1>3. Does(s1, x1) /\ Does(s2, x2) /\ Does(s3, x3) /\ Does(s4, x4)
  BY <1>2, DoesItself
<1>4. u = g1
  BY DEF CreateSteps
<1>5. g1 = Then(Then(Then(s1, s2), s3), s4)
  BY <1>2, FourApart
<1> HIDE DEF x1, x2, x3, x4, s1, s2, s3, s4, g1, y, u
<1>6. /\ s1 \in Seq(StepType) /\ s2 \in Seq(StepType) /\ s3 \in Seq(StepType)
      /\ s4 \in Seq(StepType)
  BY <1>3 DEF Does
<1>7. g1 \in Seq(StepType) /\ u \in Seq(StepType)
  BY <1>4, <1>5, <1>6, ThenTyped
<1>8. ASSUME NEW t \in Seq(StepType), Spared(y, t)
      PROVE  Leads(y, t, Then(u, t))
  <2> DEFINE t4 == Then(s4, t)
             t3 == Then(s3, t4)
             t2 == Then(s2, t3)
             t1 == Then(s1, t2)
  <2>1. Leads(x4, t, t4)
    <3>1. Spared(x4, t)
      BY <1>1, <1>8, Distinct
         DEF Spared, Leads, MayLead, Reads, Sets, Upsets, Equipment, MountedIn, BaseMounts, Emulated
    <3> QED  BY <1>3, <3>1, Put
  <2>2. Leads(x3, t4, t3)
    <3>1. Spared(x3, t4)
      BY <1>1, <1>8, <2>1, Distinct
         DEF Spared, Leads, MayLead, Reads, Sets, Upsets, Equipment, MountedIn, BaseMounts, Emulated
    <3> QED  BY <1>3, <3>1, Put
  <2>3. Leads(x2, t3, t2)
    <3>1. Spared(x2, t3)
      BY <1>1, <1>8, <2>1, <2>2, Distinct
         DEF Spared, Leads, MayLead, Reads, Sets, Upsets, Equipment, MountedIn, BaseMounts, Emulated
    <3> QED  BY <1>3, <3>1, Put
  <2>4. Leads(x1, t2, t1)
    <3>1. Spared(x1, t2)
      BY <1>1, <1>8, <2>1, <2>2, <2>3, Distinct
         DEF Spared, Leads, MayLead, Reads, Sets, Upsets, Equipment, MountedIn, BaseMounts, Emulated
    <3> QED  BY <1>3, <3>1, Put
  <2>5. /\ t1 \in Seq(StepType) /\ t2 \in Seq(StepType) /\ t3 \in Seq(StepType)
        /\ t4 \in Seq(StepType)
    BY <2>1, <2>2, <2>3, <2>4 DEF Leads, MayLead
  <2>6. /\ t1 = Then(s1, t2) /\ t2 = Then(s2, t3) /\ t3 = Then(s3, t4)
        /\ t4 = Then(s4, t)
    OBVIOUS
  <2> HIDE DEF t1, t2, t3, t4
  <2>7. Then(u, t) = t1
    <3>1. /\ s1 \in Seq(StepType) /\ s2 \in Seq(StepType) /\ s3 \in Seq(StepType)
          /\ s4 \in Seq(StepType) /\ t \in Seq(StepType)
      BY <1>6, <1>8
    <3>2. /\ u = Then(Then(Then(s1, s2), s3), s4) /\ t1 = Then(s1, t2)
          /\ t2 = Then(s2, t3) /\ t3 = Then(s3, t4) /\ t4 = Then(s4, t)
      BY <1>4, <1>5, <2>6
    <3> QED  BY <3>1, <3>2, FourJoined
  <2>8. Leads(y, t, t1)
    <3> SUFFICES ASSUME NEW kind, NEW e, Relies(t1, kind, e),
                        ~Reads(y, Relies(t, "spare", Native), kind, e)
                 PROVE  Relies(t, kind, e) /\ ~Sets(y, kind, e)
      BY <2>4 DEF Leads, MayLead
    <3>1. Relies(t2, kind, e) /\ ~Sets(x1, kind, e)
      <4>1. \/ Reads(x1, Relies(t2, "spare", Native), kind, e)
            \/ Relies(t2, kind, e) /\ ~Sets(x1, kind, e)
        BY <2>4 DEF Leads, MayLead
      <4> QED  BY <1>1, <4>1, Distinct
               DEF Reads, Sets, Upsets, Equipment, MountedIn, BaseMounts, Emulated
    <3>2. Relies(t3, kind, e) /\ ~Sets(x2, kind, e)
      <4>1. \/ Reads(x2, Relies(t3, "spare", Native), kind, e)
            \/ Relies(t3, kind, e) /\ ~Sets(x2, kind, e)
        BY <2>3, <3>1 DEF Leads, MayLead
      <4> QED  BY <1>1, <3>1, <4>1, Distinct
               DEF Reads, Sets, Upsets, Equipment, MountedIn, BaseMounts, Emulated
    <3>3. Relies(t4, kind, e) /\ ~Sets(x3, kind, e)
      <4>1. \/ Reads(x3, Relies(t4, "spare", Native), kind, e)
            \/ Relies(t4, kind, e) /\ ~Sets(x3, kind, e)
        BY <2>2, <3>2 DEF Leads, MayLead
      <4> QED  BY <1>1, <3>1, <3>2, <4>1, Distinct
               DEF Reads, Sets, Upsets, Equipment, MountedIn, BaseMounts, Emulated
    <3>4. Relies(t, kind, e) /\ ~Sets(x4, kind, e)
      <4>1. \/ Reads(x4, Relies(t, "spare", Native), kind, e)
            \/ Relies(t, kind, e) /\ ~Sets(x4, kind, e)
        BY <2>1, <3>3 DEF Leads, MayLead
      <4> QED  BY <1>1, <3>1, <3>2, <3>3, <4>1, Distinct
               DEF Reads, Sets, Upsets, Equipment, MountedIn, BaseMounts, Emulated
    <3>5. ~Sets(y, kind, e)
      BY <1>1, <3>1, <3>2, <3>3, <3>4, Distinct
         DEF Spared, Leads, MayLead, Reads, Sets, Upsets, Equipment, MountedIn, BaseMounts, Emulated
    <3> QED  BY <3>4, <3>5
  <2> QED  BY <2>7, <2>8
<1>9. Does(u, y)
  BY <1>7, <1>8 DEF Does
<1> QED  BY <1>9 DEF u, y

LEMMA PlainMountDoes ==
    ASSUME NEW c \in Chroots, c \notin Emulated
    PROVE  Does(MountSteps(c), Step("mount steps", c))
<1> DEFINE x1 == Step("mount_dev", c)
           s1 == <<x1>>
           x2 == Step("mount_keys", c)
           s2 == <<x2>>
           x3 == Step("mount_packages", c)
           s3 == <<x3>>
           g1 == <<x1, x2, x3>>
           y == Step("mount steps", c)
           u == MountSteps(c)
<1>1. /\ x1.op = "mount_dev" /\ x1.chroot = c
      /\ x2.op = "mount_keys" /\ x2.chroot = c
      /\ x3.op = "mount_packages" /\ x3.chroot = c
      /\ y.op = "mount steps" /\ y.chroot = c
  BY StepFacts
<1>2. x1 \in StepType /\ x2 \in StepType /\ x3 \in StepType
  BY ChrootsAreThree, StepTyped DEF Ops
<1>3. Does(s1, x1) /\ Does(s2, x2) /\ Does(s3, x3)
  BY <1>2, DoesItself
<1>4. u = g1
  BY <1>2, ConcatEmptySeq DEF MountSteps
<1>5. g1 = Then(Then(s1, s2), s3)
  BY <1>2, ThreeApart
<1> HIDE DEF x1, x2, x3, s1, s2, s3, g1, y, u
<1>6. s1 \in Seq(StepType) /\ s2 \in Seq(StepType) /\ s3 \in Seq(StepType)
  BY <1>3 DEF Does
<1>7. g1 \in Seq(StepType) /\ u \in Seq(StepType)
  BY <1>4, <1>5, <1>6, ThenTyped
<1>8. ASSUME NEW t \in Seq(StepType), Spared(y, t)
      PROVE  Leads(y, t, Then(u, t))
  <2> DEFINE t3 == Then(s3, t)
             t2 == Then(s2, t3)
             t1 == Then(s1, t2)
  <2>1. Leads(x3, t, t3)
    <3>1. Spared(x3, t)
      BY <1>1, <1>8, Distinct
         DEF Spared, Leads, MayLead, Reads, Sets, Upsets, Equipment, MountedIn, BaseMounts, Emulated
    <3> QED  BY <1>3, <3>1, Put
  <2>2. Leads(x2, t3, t2)
    <3>1. Spared(x2, t3)
      BY <1>1, <1>8, <2>1, Distinct
         DEF Spared, Leads, MayLead, Reads, Sets, Upsets, Equipment, MountedIn, BaseMounts, Emulated
    <3> QED  BY <1>3, <3>1, Put
  <2>3. Leads(x1, t2, t1)
    <3>1. Spared(x1, t2)
      BY <1>1, <1>8, <2>1, <2>2, Distinct
         DEF Spared, Leads, MayLead, Reads, Sets, Upsets, Equipment, MountedIn, BaseMounts, Emulated
    <3> QED  BY <1>3, <3>1, Put
  <2>4. t1 \in Seq(StepType) /\ t2 \in Seq(StepType) /\ t3 \in Seq(StepType)
    BY <2>1, <2>2, <2>3 DEF Leads, MayLead
  <2>5. t1 = Then(s1, t2) /\ t2 = Then(s2, t3) /\ t3 = Then(s3, t)
    OBVIOUS
  <2> HIDE DEF t1, t2, t3
  <2>6. Then(u, t) = t1
    BY <1>4, <1>5, <1>6, <2>4, <2>5, ThreeJoined
  <2>7. Leads(y, t, t1)
    <3> SUFFICES ASSUME NEW kind, NEW e, Relies(t1, kind, e),
                        ~Reads(y, Relies(t, "spare", Native), kind, e)
                 PROVE  Relies(t, kind, e) /\ ~Sets(y, kind, e)
      BY <2>3 DEF Leads, MayLead
    <3>1. Relies(t2, kind, e) /\ ~Sets(x1, kind, e)
      BY <1>1, <2>1, <2>2, <2>3, Distinct
         DEF Spared, Leads, MayLead, Reads, Sets, Upsets, Equipment, MountedIn, BaseMounts, Emulated
    <3>2. Relies(t3, kind, e) /\ ~Sets(x2, kind, e)
      BY <1>1, <2>1, <2>2, <2>3, <3>1, Distinct
         DEF Spared, Leads, MayLead, Reads, Sets, Upsets, Equipment, MountedIn, BaseMounts, Emulated
    <3>3. Relies(t, kind, e) /\ ~Sets(x3, kind, e)
      BY <1>1, <2>1, <2>2, <2>3, <3>1, <3>2, Distinct
         DEF Spared, Leads, MayLead, Reads, Sets, Upsets, Equipment, MountedIn, BaseMounts, Emulated
    <3>4. ~Sets(y, kind, e)
      BY <1>1, <3>1, <3>2, <3>3, Distinct
         DEF Spared, Leads, MayLead, Reads, Sets, Upsets, Equipment, MountedIn, BaseMounts, Emulated
    <3> QED  BY <3>3, <3>4
  <2> QED  BY <2>6, <2>7
<1>9. Does(u, y)
  BY <1>7, <1>8 DEF Does
<1> QED  BY <1>9 DEF u, y

LEMMA EmulatedMountDoes ==
    ASSUME NEW c \in Chroots, c \in Emulated
    PROVE  Does(MountSteps(c), Step("mount steps", c))
<1> DEFINE x1 == Step("mount_dev", c)
           s1 == <<x1>>
           x2 == Step("mount_keys", c)
           s2 == <<x2>>
           x3 == Step("mount_packages", c)
           s3 == <<x3>>
           x4 == Step("register", c)
           s4 == <<x4>>
           x5 == Step("bind_qemu", c)
           s5 == <<x5>>
           g1 == <<x1, x2, x3>>
           g2 == <<x4, x5>>
           y == Step("mount steps", c)
           u == MountSteps(c)
<1>1. /\ x1.op = "mount_dev" /\ x1.chroot = c
      /\ x2.op = "mount_keys" /\ x2.chroot = c
      /\ x3.op = "mount_packages" /\ x3.chroot = c
      /\ x4.op = "register" /\ x4.chroot = c
      /\ x5.op = "bind_qemu" /\ x5.chroot = c
      /\ y.op = "mount steps" /\ y.chroot = c
  BY StepFacts
<1>2. /\ x1 \in StepType /\ x2 \in StepType /\ x3 \in StepType /\ x4 \in StepType
      /\ x5 \in StepType
  BY ChrootsAreThree, StepTyped DEF Ops
<1>3. Does(s1, x1) /\ Does(s2, x2) /\ Does(s3, x3) /\ Does(s4, x4) /\ Does(s5, x5)
  BY <1>2, DoesItself
<1>4. u = Then(g1, g2)
  BY DEF MountSteps, Then
<1>5. g1 = Then(Then(s1, s2), s3) /\ g2 = Then(s4, s5)
  BY <1>2, ThreeApart, TwoApart
<1> HIDE DEF x1, x2, x3, x4, x5, s1, s2, s3, s4, s5, g1, g2, y, u
<1>6. /\ s1 \in Seq(StepType) /\ s2 \in Seq(StepType) /\ s3 \in Seq(StepType)
      /\ s4 \in Seq(StepType) /\ s5 \in Seq(StepType)
  BY <1>3 DEF Does
<1>7. g1 \in Seq(StepType) /\ g2 \in Seq(StepType) /\ u \in Seq(StepType)
  <2>1. g1 \in Seq(StepType) /\ g2 \in Seq(StepType)
    BY <1>5, <1>6, ThenTyped
  <2> QED  BY <1>4, <1>6, <2>1, ThenTyped
<1>8. ASSUME NEW t \in Seq(StepType), Spared(y, t)
      PROVE  Leads(y, t, Then(u, t))
  <2> DEFINE t5 == Then(s5, t)
             t4 == Then(s4, t5)
             t3 == Then(s3, t4)
             t2 == Then(s2, t3)
             t1 == Then(s1, t2)
  <2>1. Leads(x5, t, t5)
    <3>1. Spared(x5, t)
      BY <1>1, <1>8, Distinct
         DEF Spared, Leads, MayLead, Reads, Sets, Upsets, Equipment, MountedIn, BaseMounts, Emulated
    <3> QED  BY <1>3, <3>1, Put
  <2>2. Leads(x4, t5, t4)
    <3>1. Spared(x4, t5)
      <4> SUFFICES ASSUME NEW kind, NEW e, Relies(t5, kind, e), Upsets(x4, kind, e)
                   PROVE  FALSE
        BY <2>1, <1>8 DEF Spared, Leads, MayLead
      <4>1. /\ \/ ~Relies(t5, kind, e) \/ Reads(x5, Relies(t, "spare", Native), kind, e)
               \/ Relies(t, kind, e) /\ ~Sets(x5, kind, e)
        BY <2>1 DEF Leads, MayLead
      <4>2. Relies(t, kind, e) => ~Upsets(y, kind, e)
        BY <1>8 DEF Spared
      <4> QED  BY <1>1, <4>1, <4>2, Distinct
               DEF Reads, Sets, Upsets, Equipment, MountedIn, BaseMounts, Emulated
    <3> QED  BY <1>3, <3>1, Put
  <2>3. Leads(x3, t4, t3)
    <3>1. Spared(x3, t4)
      BY <1>1, <1>8, <2>1, <2>2, Distinct
         DEF Spared, Leads, MayLead, Reads, Sets, Upsets, Equipment, MountedIn, BaseMounts, Emulated
    <3> QED  BY <1>3, <3>1, Put
  <2>4. Leads(x2, t3, t2)
    <3>1. Spared(x2, t3)
      BY <1>1, <1>8, <2>1, <2>2, <2>3, Distinct
         DEF Spared, Leads, MayLead, Reads, Sets, Upsets, Equipment, MountedIn, BaseMounts, Emulated
    <3> QED  BY <1>3, <3>1, Put
  <2>5. Leads(x1, t2, t1)
    <3>1. Spared(x1, t2)
      BY <1>1, <1>8, <2>1, <2>2, <2>3, <2>4, Distinct
         DEF Spared, Leads, MayLead, Reads, Sets, Upsets, Equipment, MountedIn, BaseMounts, Emulated
    <3> QED  BY <1>3, <3>1, Put
  <2>6. /\ t1 \in Seq(StepType) /\ t2 \in Seq(StepType) /\ t3 \in Seq(StepType)
        /\ t4 \in Seq(StepType) /\ t5 \in Seq(StepType)
    BY <2>1, <2>2, <2>3, <2>4, <2>5 DEF Leads, MayLead
  <2>7. /\ t1 = Then(s1, t2) /\ t2 = Then(s2, t3) /\ t3 = Then(s3, t4)
        /\ t4 = Then(s4, t5) /\ t5 = Then(s5, t)
    OBVIOUS
  <2> HIDE DEF t1, t2, t3, t4, t5
  <2>8. Then(u, t) = t1
    <3>1. Then(g2, t) = t4
      BY <1>5, <1>6, <2>6, <2>7, TwoJoined
    <3>2. Then(Then(g1, g2), t) = Then(g1, t4)
      BY <1>6, <1>7, <2>6, <3>1, Regrouped
    <3>3. Then(g1, t4) = t1
      BY <1>5, <1>6, <2>6, <2>7, ThreeJoined
    <3> QED  BY <1>4, <2>7, <3>1, <3>2, <3>3
  <2>9. Leads(y, t, t1)
    <3> SUFFICES ASSUME NEW kind, NEW e, Relies(t1, kind, e),
                        ~Reads(y, Relies(t, "spare", Native), kind, e)
                 PROVE  Relies(t, kind, e) /\ ~Sets(y, kind, e)
      BY <2>5 DEF Leads, MayLead
    <3>1. Relies(t2, kind, e) /\ ~Sets(x1, kind, e)
      <4>1. \/ Reads(x1, Relies(t2, "spare", Native), kind, e)
            \/ Relies(t2, kind, e) /\ ~Sets(x1, kind, e)
        BY <2>5 DEF Leads, MayLead
      <4> QED  BY <1>1, <4>1, Distinct
               DEF Reads, Sets, Upsets, Equipment, MountedIn, BaseMounts, Emulated
    <3>2. Relies(t3, kind, e) /\ ~Sets(x2, kind, e)
      <4>1. \/ Reads(x2, Relies(t3, "spare", Native), kind, e)
            \/ Relies(t3, kind, e) /\ ~Sets(x2, kind, e)
        BY <2>4, <3>1 DEF Leads, MayLead
      <4> QED  BY <1>1, <3>1, <4>1, Distinct
               DEF Reads, Sets, Upsets, Equipment, MountedIn, BaseMounts, Emulated
    <3>3. Relies(t4, kind, e) /\ ~Sets(x3, kind, e)
      <4>1. \/ Reads(x3, Relies(t4, "spare", Native), kind, e)
            \/ Relies(t4, kind, e) /\ ~Sets(x3, kind, e)
        BY <2>3, <3>2 DEF Leads, MayLead
      <4> QED  BY <1>1, <3>1, <3>2, <4>1, Distinct
               DEF Reads, Sets, Upsets, Equipment, MountedIn, BaseMounts, Emulated
    <3>4. Relies(t5, kind, e) /\ ~Sets(x4, kind, e)
      <4>1. \/ Reads(x4, Relies(t5, "spare", Native), kind, e)
            \/ Relies(t5, kind, e) /\ ~Sets(x4, kind, e)
        BY <2>2, <3>3 DEF Leads, MayLead
      <4> QED  BY <1>1, <3>1, <3>2, <3>3, <4>1, Distinct
               DEF Reads, Sets, Upsets, Equipment, MountedIn, BaseMounts, Emulated
    <3>5. Relies(t, kind, e) /\ ~Sets(x5, kind, e)
      <4>1. \/ Reads(x5, Relies(t, "spare", Native), kind, e)
            \/ Relies(t, kind, e) /\ ~Sets(x5, kind, e)
        BY <2>1, <3>4 DEF Leads, MayLead
      <4> QED  BY <1>1, <3>1, <3>2, <3>3, <3>4, <4>1, Distinct
               DEF Reads, Sets, Upsets, Equipment, MountedIn, BaseMounts, Emulated
    <3>6. ~Sets(y, kind, e)
      BY <1>1, <3>1, <3>2, <3>3, <3>4, <3>5, Distinct
         DEF Spared, Leads, MayLead, Reads, Sets, Upsets, Equipment, MountedIn, BaseMounts, Emulated
    <3> QED  BY <3>5, <3>6
  <2> QED  BY <2>8, <2>9
<1>9. Does(u, y)
  BY <1>7, <1>8 DEF Does
<1> QED  BY <1>9 DEF u, y

LEMMA MountDoes ==
    ASSUME NEW c \in Chroots
    PROVE  Does(MountSteps(c), Step("mount steps", c))
  BY PlainMountDoes, EmulatedMountDoes

LEMMA InitDoes ==
    ASSUME NEW c \in Chroots
    PROVE  Does(InitSteps(c), Step("init", c))
<1> DEFINE x1 == Step("check_channel", c)
           s1 == <<x1>>
           x2 == Step("mount steps", c)
           s2 == MountSteps(c)
           x3 == Step("mark", c)
           s3 == <<x3>>
           x4 == Step("setup", c)
           s4 == <<x4>>
           x5 == Step("cache", c)
           s5 == <<x5>>
           g3 == <<x3, x4, x5>>
           p2 == Then(s1, s2)
           p3 == Then(p2, g3)
           y == Step("init", c)
           u == InitSteps(c)
<1>1. /\ x1.op = "check_channel" /\ x1.chroot = c
      /\ x2.op = "mount steps" /\ x2.chroot = c
      /\ x3.op = "mark" /\ x3.chroot = c
      /\ x4.op = "setup" /\ x4.chroot = c
      /\ x5.op = "cache" /\ x5.chroot = c
      /\ y.op = "init" /\ y.chroot = c
  BY StepFacts
<1>2. x1 \in StepType /\ x3 \in StepType /\ x4 \in StepType /\ x5 \in StepType
  BY ChrootsAreThree, StepTyped DEF Ops
<1>3. Does(s1, x1) /\ Does(s2, x2) /\ Does(s3, x3) /\ Does(s4, x4) /\ Does(s5, x5)
  <2>1. Does(s1, x1) /\ Does(s3, x3) /\ Does(s4, x4) /\ Does(s5, x5)
    BY <1>2, DoesItself
  <2>2. Does(s2, x2)
    BY MountDoes
  <2> QED  BY <2>1, <2>2
<1>4. u = p3
  BY DEF InitSteps, Then
<1>5. p2 = Then(s1, s2) /\ p3 = Then(p2, g3)
  OBVIOUS
<1>6. g3 = Then(Then(s3, s4), s5)
  BY <1>2, ThreeApart
<1> HIDE DEF x1, x2, x3, x4, x5, s1, s2, s3, s4, s5, g3, p2, p3, y, u
<1>7. /\ s1 \in Seq(StepType) /\ s2 \in Seq(StepType) /\ s3 \in Seq(StepType)
      /\ s4 \in Seq(StepType) /\ s5 \in Seq(StepType)
  BY <1>3 DEF Does
<1>8. /\ g3 \in Seq(StepType) /\ p2 \in Seq(StepType) /\ p3 \in Seq(StepType)
      /\ u \in Seq(StepType)
  <2>1. g3 \in Seq(StepType)
    BY <1>6, <1>7, ThenTyped
  <2> QED  BY <1>4, <1>5, <1>7, <2>1, ThenTyped
<1>9. ASSUME NEW t \in Seq(StepType), Spared(y, t)
      PROVE  Leads(y, t, Then(u, t))
  <2> DEFINE t5 == Then(s5, t)
             t4 == Then(s4, t5)
             t3 == Then(s3, t4)
             t2 == Then(s2, t3)
             t1 == Then(s1, t2)
  <2>1. Leads(x5, t, t5)
    <3>1. Spared(x5, t)
      BY <1>1, <1>9, Distinct
         DEF Spared, Leads, MayLead, Reads, Sets, Upsets, Equipment, MountedIn, BaseMounts, Emulated
    <3> QED  BY <1>3, <3>1, Put
  <2>2. Leads(x4, t5, t4)
    <3>1. Spared(x4, t5)
      <4> SUFFICES ASSUME NEW kind, NEW e, Relies(t5, kind, e), Upsets(x4, kind, e)
                   PROVE  FALSE
        BY <2>1, <1>9 DEF Spared, Leads, MayLead
      <4>1. /\ \/ ~Relies(t5, kind, e) \/ Reads(x5, Relies(t, "spare", Native), kind, e)
               \/ Relies(t, kind, e) /\ ~Sets(x5, kind, e)
        BY <2>1 DEF Leads, MayLead
      <4>2. Relies(t, kind, e) => ~Upsets(y, kind, e)
        BY <1>9 DEF Spared
      <4> QED  BY <1>1, <4>1, <4>2, Distinct
               DEF Reads, Sets, Upsets, Equipment, MountedIn, BaseMounts, Emulated
    <3> QED  BY <1>3, <3>1, Put
  <2>3. Leads(x3, t4, t3)
    <3>1. Spared(x3, t4)
      BY <1>1, <1>9, <2>1, <2>2, Distinct
         DEF Spared, Leads, MayLead, Reads, Sets, Upsets, Equipment, MountedIn, BaseMounts, Emulated
    <3> QED  BY <1>3, <3>1, Put
  <2>4. Leads(x2, t3, t2)
    <3>1. Spared(x2, t3)
      <4> SUFFICES ASSUME NEW kind, NEW e, Relies(t3, kind, e), Upsets(x2, kind, e)
                   PROVE  FALSE
        BY <2>3, <1>9 DEF Spared, Leads, MayLead
      <4>1. /\ \/ ~Relies(t3, kind, e) \/ Reads(x3, Relies(t4, "spare", Native), kind, e)
               \/ Relies(t4, kind, e) /\ ~Sets(x3, kind, e)
            /\ \/ ~Relies(t4, kind, e) \/ Reads(x4, Relies(t5, "spare", Native), kind, e)
               \/ Relies(t5, kind, e) /\ ~Sets(x4, kind, e)
            /\ \/ ~Relies(t5, kind, e) \/ Reads(x5, Relies(t, "spare", Native), kind, e)
               \/ Relies(t, kind, e) /\ ~Sets(x5, kind, e)
        BY <2>1, <2>2, <2>3 DEF Leads, MayLead
      <4>2. Relies(t, kind, e) => ~Upsets(y, kind, e)
        BY <1>9 DEF Spared
      <4> QED  BY <1>1, <4>1, <4>2, Distinct
               DEF Reads, Sets, Upsets, Equipment, MountedIn, BaseMounts, Emulated
    <3> QED  BY <1>3, <3>1, Put
  <2>5. Leads(x1, t2, t1)
    <3>1. Spared(x1, t2)
      <4> SUFFICES ASSUME NEW kind, NEW e, Relies(t2, kind, e), Upsets(x1, kind, e)
                   PROVE  FALSE
        BY <2>4, <1>9 DEF Spared, Leads, MayLead
      <4>1. /\ \/ ~Relies(t2, kind, e) \/ Reads(x2, Relies(t3, "spare", Native), kind, e)
               \/ Relies(t3, kind, e) /\ ~Sets(x2, kind, e)
            /\ \/ ~Relies(t3, kind, e) \/ Reads(x3, Relies(t4, "spare", Native), kind, e)
               \/ Relies(t4, kind, e) /\ ~Sets(x3, kind, e)
            /\ \/ ~Relies(t4, kind, e) \/ Reads(x4, Relies(t5, "spare", Native), kind, e)
               \/ Relies(t5, kind, e) /\ ~Sets(x4, kind, e)
            /\ \/ ~Relies(t5, kind, e) \/ Reads(x5, Relies(t, "spare", Native), kind, e)
               \/ Relies(t, kind, e) /\ ~Sets(x5, kind, e)
        BY <2>1, <2>2, <2>3, <2>4 DEF Leads, MayLead
      <4>2. Relies(t, kind, e) => ~Upsets(y, kind, e)
        BY <1>9 DEF Spared
      <4> QED  BY <1>1, <4>1, <4>2, Distinct
               DEF Reads, Sets, Upsets, Equipment, MountedIn, BaseMounts, Emulated
    <3> QED  BY <1>3, <3>1, Put
  <2>6. /\ t1 \in Seq(StepType) /\ t2 \in Seq(StepType) /\ t3 \in Seq(StepType)
        /\ t4 \in Seq(StepType) /\ t5 \in Seq(StepType)
    BY <2>1, <2>2, <2>3, <2>4, <2>5 DEF Leads, MayLead
  <2>7. /\ t1 = Then(s1, t2) /\ t2 = Then(s2, t3) /\ t3 = Then(s3, t4)
        /\ t4 = Then(s4, t5) /\ t5 = Then(s5, t)
    OBVIOUS
  <2> HIDE DEF t1, t2, t3, t4, t5
  <2>8. Then(u, t) = t1
    <3>1. Then(g3, t) = t3
      BY <1>6, <1>7, <2>6, <2>7, ThreeJoined
    <3>2. Then(p3, t) = Then(p2, t3)
      BY <1>7, <1>8, <1>5, <2>6, <3>1, Regrouped
    <3>3. Then(p2, t3) = Then(s1, t2)
      BY <1>7, <1>8, <1>5, <2>6, <2>7, Regrouped
    <3> QED  BY <1>4, <2>7, <3>1, <3>2, <3>3
  <2>9. Leads(y, t, t1)
    <3> SUFFICES ASSUME NEW kind, NEW e, Relies(t1, kind, e),
                        ~Reads(y, Relies(t, "spare", Native), kind, e)
                 PROVE  Relies(t, kind, e) /\ ~Sets(y, kind, e)
      BY <2>5 DEF Leads, MayLead
    <3>1. Relies(t2, kind, e) /\ ~Sets(x1, kind, e)
      <4>1. \/ Reads(x1, Relies(t2, "spare", Native), kind, e)
            \/ Relies(t2, kind, e) /\ ~Sets(x1, kind, e)
        BY <2>5 DEF Leads, MayLead
      <4> QED  BY <1>1, <4>1, Distinct
               DEF Reads, Sets, Upsets, Equipment, MountedIn, BaseMounts, Emulated
    <3>2. Relies(t3, kind, e) /\ ~Sets(x2, kind, e)
      <4>1. \/ Reads(x2, Relies(t3, "spare", Native), kind, e)
            \/ Relies(t3, kind, e) /\ ~Sets(x2, kind, e)
        BY <2>4, <3>1 DEF Leads, MayLead
      <4> QED  BY <1>1, <3>1, <4>1, Distinct
               DEF Reads, Sets, Upsets, Equipment, MountedIn, BaseMounts, Emulated
    <3>3. Relies(t4, kind, e) /\ ~Sets(x3, kind, e)
      <4>1. \/ Reads(x3, Relies(t4, "spare", Native), kind, e)
            \/ Relies(t4, kind, e) /\ ~Sets(x3, kind, e)
        BY <2>3, <3>2 DEF Leads, MayLead
      <4> QED  BY <1>1, <3>1, <3>2, <4>1, Distinct
               DEF Reads, Sets, Upsets, Equipment, MountedIn, BaseMounts, Emulated
    <3>4. Relies(t5, kind, e) /\ ~Sets(x4, kind, e)
      <4>1. \/ Reads(x4, Relies(t5, "spare", Native), kind, e)
            \/ Relies(t5, kind, e) /\ ~Sets(x4, kind, e)
        BY <2>2, <3>3 DEF Leads, MayLead
      <4> QED  BY <1>1, <3>1, <3>2, <3>3, <4>1, Distinct
               DEF Reads, Sets, Upsets, Equipment, MountedIn, BaseMounts, Emulated
    <3>5. Relies(t, kind, e) /\ ~Sets(x5, kind, e)
      <4>1. \/ Reads(x5, Relies(t, "spare", Native), kind, e)
            \/ Relies(t, kind, e) /\ ~Sets(x5, kind, e)
        BY <2>1, <3>4 DEF Leads, MayLead
      <4> QED  BY <1>1, <3>1, <3>2, <3>3, <3>4, <4>1, Distinct
               DEF Reads, Sets, Upsets, Equipment, MountedIn, BaseMounts, Emulated
    <3>6. ~Sets(y, kind, e)
      BY <1>1, <3>1, <3>2, <3>3, <3>4, <3>5, Distinct
         DEF Spared, Leads, MayLead, Reads, Sets, Upsets, Equipment, MountedIn, BaseMounts, Emulated
    <3> QED  BY <3>5, <3>6
  <2> QED  BY <2>8, <2>9
<1>10. Does(u, y)
  BY <1>8, <1>9 DEF Does
<1> QED  BY <1>10 DEF u, y

LEMMA AddingQemuDoes ==
    Does(<<Step("init", Native), Step("install", Native), Step("add_qemu", Native)>>,
        Step("install", Native))
<1> DEFINE x1 == Step("init", Native)
           s1 == <<x1>>
           x2 == Step("install", Native)
           s2 == <<x2>>
           x3 == Step("add_qemu", Native)
           s3 == <<x3>>
           g1 == <<x1, x2, x3>>
           y == Step("install", Native)
           u == <<Step("init", Native), Step("install", Native), Step("add_qemu", Native)>>
<1>1. /\ x1.op = "init" /\ x1.chroot = Native
      /\ x2.op = "install" /\ x2.chroot = Native
      /\ x3.op = "add_qemu" /\ x3.chroot = Native
      /\ y.op = "install" /\ y.chroot = Native
  BY StepFacts
<1>2. x1 \in StepType /\ x2 \in StepType /\ x3 \in StepType
  BY ChrootsAreThree, StepTyped DEF Ops
<1>3. Does(s1, x1) /\ Does(s2, x2) /\ Does(s3, x3)
  BY <1>2, DoesItself
<1>4. u = g1
  OBVIOUS
<1>5. g1 = Then(Then(s1, s2), s3)
  BY <1>2, ThreeApart
<1> HIDE DEF x1, x2, x3, s1, s2, s3, g1, y, u
<1>6. s1 \in Seq(StepType) /\ s2 \in Seq(StepType) /\ s3 \in Seq(StepType)
  BY <1>3 DEF Does
<1>7. g1 \in Seq(StepType) /\ u \in Seq(StepType)
  BY <1>4, <1>5, <1>6, ThenTyped
<1>8. ASSUME NEW t \in Seq(StepType), Spared(y, t)
      PROVE  Leads(y, t, Then(u, t))
  <2> DEFINE t3 == Then(s3, t)
             t2 == Then(s2, t3)
             t1 == Then(s1, t2)
  <2>1. Leads(x3, t, t3)
    <3>1. Spared(x3, t)
      BY <1>1, <1>8, Distinct
         DEF Spared, Leads, MayLead, Reads, Sets, Upsets, Equipment, MountedIn, BaseMounts, Emulated
    <3> QED  BY <1>3, <3>1, Put
  <2>2. Leads(x2, t3, t2)
    <3>1. Spared(x2, t3)
      BY <1>1, <1>8, <2>1, Distinct
         DEF Spared, Leads, MayLead, Reads, Sets, Upsets, Equipment, MountedIn, BaseMounts, Emulated
    <3> QED  BY <1>3, <3>1, Put
  <2>3. Leads(x1, t2, t1)
    <3>1. Spared(x1, t2)
      BY <1>1, <1>8, <2>1, <2>2, Distinct
         DEF Spared, Leads, MayLead, Reads, Sets, Upsets, Equipment, MountedIn, BaseMounts, Emulated
    <3> QED  BY <1>3, <3>1, Put
  <2>4. t1 \in Seq(StepType) /\ t2 \in Seq(StepType) /\ t3 \in Seq(StepType)
    BY <2>1, <2>2, <2>3 DEF Leads, MayLead
  <2>5. t1 = Then(s1, t2) /\ t2 = Then(s2, t3) /\ t3 = Then(s3, t)
    OBVIOUS
  <2> HIDE DEF t1, t2, t3
  <2>6. Then(u, t) = t1
    BY <1>4, <1>5, <1>6, <2>4, <2>5, ThreeJoined
  <2>7. Leads(y, t, t1)
    <3> SUFFICES ASSUME NEW kind, NEW e, Relies(t1, kind, e),
                        ~Reads(y, Relies(t, "spare", Native), kind, e)
                 PROVE  Relies(t, kind, e) /\ ~Sets(y, kind, e)
      BY <2>3 DEF Leads, MayLead
    <3>1. Relies(t2, kind, e) /\ ~Sets(x1, kind, e)
      BY <1>1, <2>1, <2>2, <2>3, Distinct
         DEF Spared, Leads, MayLead, Reads, Sets, Upsets, Equipment, MountedIn, BaseMounts, Emulated
    <3>2. Relies(t3, kind, e) /\ ~Sets(x2, kind, e)
      BY <1>1, <2>1, <2>2, <2>3, <3>1, Distinct
         DEF Spared, Leads, MayLead, Reads, Sets, Upsets, Equipment, MountedIn, BaseMounts, Emulated
    <3>3. Relies(t, kind, e) /\ ~Sets(x3, kind, e)
      BY <1>1, <2>1, <2>2, <2>3, <3>1, <3>2, Distinct
         DEF Spared, Leads, MayLead, Reads, Sets, Upsets, Equipment, MountedIn, BaseMounts, Emulated
    <3>4. ~Sets(y, kind, e)
      BY <1>1, <3>1, <3>2, <3>3, Distinct
         DEF Spared, Leads, MayLead, Reads, Sets, Upsets, Equipment, MountedIn, BaseMounts, Emulated
    <3> QED  BY <3>3, <3>4
  <2> QED  BY <2>6, <2>7
<1>9. Does(u, y)
  BY <1>7, <1>8 DEF Does
<1> QED  BY <1>9 DEF u, y

LEMMA RegisterDoes ==
    ASSUME NEW c \in Chroots, NEW b \in BOOLEAN
    PROVE  Does(When(b, <<Step("init", Native), Step("install", Native), Step("add_qemu",
        Native)>>) \o <<Step("binfmt", c)>>, Step("register", c))
<1> DEFINE x1 == Step("install", Native)
           b1 == b
           r1 == <<Step("init", Native), Step("install", Native), Step("add_qemu", Native)>>
           s1 == When(b1, r1)
           x2 == Step("binfmt", c)
           s2 == <<x2>>
           y == Step("register", c)
           u == When(b, <<Step("init", Native), Step("install", Native), Step("add_qemu",
               Native)>>) \o <<Step("binfmt", c)>>
<1>1. /\ x1.op = "install" /\ x1.chroot = Native
      /\ x2.op = "binfmt" /\ x2.chroot = c
      /\ y.op = "register" /\ y.chroot = c
  BY StepFacts
<1>2. x2 \in StepType
  BY ChrootsAreThree, StepTyped DEF Ops
<1>3. b1 \in BOOLEAN /\ (b1 => Does(r1, x1)) /\ Does(s2, x2)
  <2>1. Does(s2, x2)
    BY <1>2, DoesItself
  <2>2. b1 \in BOOLEAN /\ (b1 => Does(r1, x1))
    BY AddingQemuDoes
  <2> QED  BY <2>1, <2>2
<1>4. u = Then(s1, s2)
  BY DEF Then
<1> HIDE DEF x1, x2, s2, b1, r1, y, u
<1>5. s1 \in Seq(StepType) /\ s2 \in Seq(StepType)
  BY <1>3, WhenTyped DEF Does
<1> HIDE DEF s1
<1>6. u \in Seq(StepType)
  BY <1>4, <1>5, ThenTyped
<1>7. ASSUME NEW t \in Seq(StepType), Spared(y, t)
      PROVE  Leads(y, t, Then(u, t))
  <2> DEFINE t2 == Then(s2, t)
             t1 == Then(s1, t2)
  <2>1. Leads(x2, t, t2)
    <3>1. Spared(x2, t)
      BY <1>1, <1>7, Distinct
         DEF Spared, Leads, MayLead, Reads, Sets, Upsets, Equipment, MountedIn, BaseMounts, Emulated
    <3> QED  BY <1>3, <3>1, Put
  <2>2. MayLead(x1, t2, t1)
    <3>1. Spared(x1, t2)
      BY <1>1, <1>7, <2>1, Distinct
         DEF Spared, Leads, MayLead, Reads, Sets, Upsets, Equipment, MountedIn, BaseMounts, Emulated
    <3> QED  BY <1>3, <3>1, PutWhen DEF s1
  <2>3. t1 \in Seq(StepType) /\ t2 \in Seq(StepType)
    BY <2>1, <2>2 DEF Leads, MayLead
  <2>4. t1 = Then(s1, t2) /\ t2 = Then(s2, t)
    OBVIOUS
  <2> HIDE DEF t1, t2
  <2>5. Then(u, t) = t1
    <3>1. Then(Then(s1, s2), t) = Then(s1, t2)
      BY <1>5, <1>6, <2>3, <2>4, Regrouped
    <3> QED  BY <1>4, <2>4, <3>1
  <2>6. Leads(y, t, t1)
    BY <1>1, <1>7, <2>1, <2>2, Distinct
       DEF Spared, Leads, MayLead, Reads, Sets, Upsets, Equipment, MountedIn, BaseMounts, Emulated
  <2> QED  BY <2>5, <2>6
<1>8. Does(u, y)
  BY <1>6, <1>7 DEF Does
<1> QED  BY <1>8 DEF u, y

LEMMA PrepareNativeDoes == Does(PrepareNativeSteps, Step("ensure_native", Native))
<1> DEFINE x1 == Step("init", Native)
           s1 == <<x1>>
           x2 == Step("install", Native)
           s2 == <<x2>>
           x3 == Step("add_tools", Native)
           s3 == <<x3>>
           g1 == <<x1, x2, x3>>
           y == Step("ensure_native", Native)
           u == PrepareNativeSteps
<1>1. /\ x1.op = "init" /\ x1.chroot = Native
      /\ x2.op = "install" /\ x2.chroot = Native
      /\ x3.op = "add_tools" /\ x3.chroot = Native
      /\ y.op = "ensure_native" /\ y.chroot = Native
  BY StepFacts
<1>2. x1 \in StepType /\ x2 \in StepType /\ x3 \in StepType
  BY ChrootsAreThree, StepTyped DEF Ops
<1>3. Does(s1, x1) /\ Does(s2, x2) /\ Does(s3, x3)
  BY <1>2, DoesItself
<1>4. u = g1
  BY DEF PrepareNativeSteps
<1>5. g1 = Then(Then(s1, s2), s3)
  BY <1>2, ThreeApart
<1> HIDE DEF x1, x2, x3, s1, s2, s3, g1, y, u
<1>6. s1 \in Seq(StepType) /\ s2 \in Seq(StepType) /\ s3 \in Seq(StepType)
  BY <1>3 DEF Does
<1>7. g1 \in Seq(StepType) /\ u \in Seq(StepType)
  BY <1>4, <1>5, <1>6, ThenTyped
<1>8. ASSUME NEW t \in Seq(StepType), Spared(y, t)
      PROVE  Leads(y, t, Then(u, t))
  <2> DEFINE t3 == Then(s3, t)
             t2 == Then(s2, t3)
             t1 == Then(s1, t2)
  <2>1. Leads(x3, t, t3)
    <3>1. Spared(x3, t)
      BY <1>1, <1>8, Distinct
         DEF Spared, Leads, MayLead, Reads, Sets, Upsets, Equipment, MountedIn, BaseMounts, Emulated
    <3> QED  BY <1>3, <3>1, Put
  <2>2. Leads(x2, t3, t2)
    <3>1. Spared(x2, t3)
      BY <1>1, <1>8, <2>1, Distinct
         DEF Spared, Leads, MayLead, Reads, Sets, Upsets, Equipment, MountedIn, BaseMounts, Emulated
    <3> QED  BY <1>3, <3>1, Put
  <2>3. Leads(x1, t2, t1)
    <3>1. Spared(x1, t2)
      BY <1>1, <1>8, <2>1, <2>2, Distinct
         DEF Spared, Leads, MayLead, Reads, Sets, Upsets, Equipment, MountedIn, BaseMounts, Emulated
    <3> QED  BY <1>3, <3>1, Put
  <2>4. t1 \in Seq(StepType) /\ t2 \in Seq(StepType) /\ t3 \in Seq(StepType)
    BY <2>1, <2>2, <2>3 DEF Leads, MayLead
  <2>5. t1 = Then(s1, t2) /\ t2 = Then(s2, t3) /\ t3 = Then(s3, t)
    OBVIOUS
  <2> HIDE DEF t1, t2, t3
  <2>6. Then(u, t) = t1
    BY <1>4, <1>5, <1>6, <2>4, <2>5, ThreeJoined
  <2>7. Leads(y, t, t1)
    <3> SUFFICES ASSUME NEW kind, NEW e, Relies(t1, kind, e),
                        ~Reads(y, Relies(t, "spare", Native), kind, e)
                 PROVE  Relies(t, kind, e) /\ ~Sets(y, kind, e)
      BY <2>3 DEF Leads, MayLead
    <3>1. Relies(t2, kind, e) /\ ~Sets(x1, kind, e)
      BY <1>1, <2>1, <2>2, <2>3, Distinct
         DEF Spared, Leads, MayLead, Reads, Sets, Upsets, Equipment, MountedIn, BaseMounts, Emulated
    <3>2. Relies(t3, kind, e) /\ ~Sets(x2, kind, e)
      BY <1>1, <2>1, <2>2, <2>3, <3>1, Distinct
         DEF Spared, Leads, MayLead, Reads, Sets, Upsets, Equipment, MountedIn, BaseMounts, Emulated
    <3>3. Relies(t, kind, e) /\ ~Sets(x3, kind, e)
      BY <1>1, <2>1, <2>2, <2>3, <3>1, <3>2, Distinct
         DEF Spared, Leads, MayLead, Reads, Sets, Upsets, Equipment, MountedIn, BaseMounts, Emulated
    <3>4. ~Sets(y, kind, e)
      BY <1>1, <3>1, <3>2, <3>3, Distinct
         DEF Spared, Leads, MayLead, Reads, Sets, Upsets, Equipment, MountedIn, BaseMounts, Emulated
    <3> QED  BY <3>3, <3>4
  <2> QED  BY <2>6, <2>7
<1>9. Does(u, y)
  BY <1>7, <1>8 DEF Does
<1> QED  BY <1>9 DEF u, y

LEMMA InstallDoes ==
    ASSUME NEW c \in Chroots
    PROVE  Does(<<Step("init", c), Step("apk_add", c)>>, Step("init", c))
<1> DEFINE x1 == Step("init", c)
           s1 == <<x1>>
           x2 == Step("apk_add", c)
           s2 == <<x2>>
           g1 == <<x1, x2>>
           y == Step("init", c)
           u == <<Step("init", c), Step("apk_add", c)>>
<1>1. /\ x1.op = "init" /\ x1.chroot = c
      /\ x2.op = "apk_add" /\ x2.chroot = c
      /\ y.op = "init" /\ y.chroot = c
  BY StepFacts
<1>2. x1 \in StepType /\ x2 \in StepType
  BY ChrootsAreThree, StepTyped DEF Ops
<1>3. Does(s1, x1) /\ Does(s2, x2)
  BY <1>2, DoesItself
<1>4. u = g1
  OBVIOUS
<1>5. g1 = Then(s1, s2)
  BY <1>2, TwoApart
<1> HIDE DEF x1, x2, s1, s2, g1, y, u
<1>6. s1 \in Seq(StepType) /\ s2 \in Seq(StepType)
  BY <1>3 DEF Does
<1>7. g1 \in Seq(StepType) /\ u \in Seq(StepType)
  BY <1>4, <1>5, <1>6, ThenTyped
<1>8. ASSUME NEW t \in Seq(StepType), Spared(y, t)
      PROVE  Leads(y, t, Then(u, t))
  <2> DEFINE t2 == Then(s2, t)
             t1 == Then(s1, t2)
  <2>1. Leads(x2, t, t2)
    <3>1. Spared(x2, t)
      BY <1>1, <1>8, Distinct
         DEF Spared, Leads, MayLead, Reads, Sets, Upsets, Equipment, MountedIn, BaseMounts, Emulated
    <3> QED  BY <1>3, <3>1, Put
  <2>2. Leads(x1, t2, t1)
    <3>1. Spared(x1, t2)
      BY <1>1, <1>8, <2>1, Distinct
         DEF Spared, Leads, MayLead, Reads, Sets, Upsets, Equipment, MountedIn, BaseMounts, Emulated
    <3> QED  BY <1>3, <3>1, Put
  <2>3. t1 \in Seq(StepType) /\ t2 \in Seq(StepType)
    BY <2>1, <2>2 DEF Leads, MayLead
  <2>4. t1 = Then(s1, t2) /\ t2 = Then(s2, t)
    OBVIOUS
  <2> HIDE DEF t1, t2
  <2>5. Then(u, t) = t1
    BY <1>4, <1>5, <1>6, <2>3, <2>4, TwoJoined
  <2>6. Leads(y, t, t1)
    BY <1>1, <1>8, <2>1, <2>2, Distinct
       DEF Spared, Leads, MayLead, Reads, Sets, Upsets, Equipment, MountedIn, BaseMounts, Emulated
  <2> QED  BY <2>5, <2>6
<1>9. Does(u, y)
  BY <1>7, <1>8 DEF Does
<1> QED  BY <1>9 DEF u, y

LEMMA BuildInitDoes ==
    ASSUME NEW c \in Chroots
    PROVE  Does(<<Step("init", Native), Step("init", c), Step("install", c),
        Step("build_init_done", c)>>, Step("build_init", c))
<1> DEFINE x1 == Step("init", Native)
           s1 == <<x1>>
           x2 == Step("init", c)
           s2 == <<x2>>
           x3 == Step("install", c)
           s3 == <<x3>>
           x4 == Step("build_init_done", c)
           s4 == <<x4>>
           g1 == <<x1, x2, x3, x4>>
           y == Step("build_init", c)
           u == <<Step("init", Native), Step("init", c), Step("install", c),
               Step("build_init_done", c)>>
<1>1. /\ x1.op = "init" /\ x1.chroot = Native
      /\ x2.op = "init" /\ x2.chroot = c
      /\ x3.op = "install" /\ x3.chroot = c
      /\ x4.op = "build_init_done" /\ x4.chroot = c
      /\ y.op = "build_init" /\ y.chroot = c
  BY StepFacts
<1>2. x1 \in StepType /\ x2 \in StepType /\ x3 \in StepType /\ x4 \in StepType
  BY ChrootsAreThree, StepTyped DEF Ops
<1>3. Does(s1, x1) /\ Does(s2, x2) /\ Does(s3, x3) /\ Does(s4, x4)
  BY <1>2, DoesItself
<1>4. u = g1
  OBVIOUS
<1>5. g1 = Then(Then(Then(s1, s2), s3), s4)
  BY <1>2, FourApart
<1> HIDE DEF x1, x2, x3, x4, s1, s2, s3, s4, g1, y, u
<1>6. /\ s1 \in Seq(StepType) /\ s2 \in Seq(StepType) /\ s3 \in Seq(StepType)
      /\ s4 \in Seq(StepType)
  BY <1>3 DEF Does
<1>7. g1 \in Seq(StepType) /\ u \in Seq(StepType)
  BY <1>4, <1>5, <1>6, ThenTyped
<1>8. ASSUME NEW t \in Seq(StepType), Spared(y, t)
      PROVE  Leads(y, t, Then(u, t))
  <2> DEFINE t4 == Then(s4, t)
             t3 == Then(s3, t4)
             t2 == Then(s2, t3)
             t1 == Then(s1, t2)
  <2>1. Leads(x4, t, t4)
    <3>1. Spared(x4, t)
      BY <1>1, <1>8, Distinct
         DEF Spared, Leads, MayLead, Reads, Sets, Upsets, Equipment, MountedIn, BaseMounts, Emulated
    <3> QED  BY <1>3, <3>1, Put
  <2>2. Leads(x3, t4, t3)
    <3>1. Spared(x3, t4)
      BY <1>1, <1>8, <2>1, Distinct
         DEF Spared, Leads, MayLead, Reads, Sets, Upsets, Equipment, MountedIn, BaseMounts, Emulated
    <3> QED  BY <1>3, <3>1, Put
  <2>3. Leads(x2, t3, t2)
    <3>1. Spared(x2, t3)
      BY <1>1, <1>8, <2>1, <2>2, Distinct
         DEF Spared, Leads, MayLead, Reads, Sets, Upsets, Equipment, MountedIn, BaseMounts, Emulated
    <3> QED  BY <1>3, <3>1, Put
  <2>4. Leads(x1, t2, t1)
    <3>1. Spared(x1, t2)
      BY <1>1, <1>8, <2>1, <2>2, <2>3, Distinct
         DEF Spared, Leads, MayLead, Reads, Sets, Upsets, Equipment, MountedIn, BaseMounts, Emulated
    <3> QED  BY <1>3, <3>1, Put
  <2>5. /\ t1 \in Seq(StepType) /\ t2 \in Seq(StepType) /\ t3 \in Seq(StepType)
        /\ t4 \in Seq(StepType)
    BY <2>1, <2>2, <2>3, <2>4 DEF Leads, MayLead
  <2>6. /\ t1 = Then(s1, t2) /\ t2 = Then(s2, t3) /\ t3 = Then(s3, t4)
        /\ t4 = Then(s4, t)
    OBVIOUS
  <2> HIDE DEF t1, t2, t3, t4
  <2>7. Then(u, t) = t1
    <3>1. /\ s1 \in Seq(StepType) /\ s2 \in Seq(StepType) /\ s3 \in Seq(StepType)
          /\ s4 \in Seq(StepType) /\ t \in Seq(StepType)
      BY <1>6, <1>8
    <3>2. /\ u = Then(Then(Then(s1, s2), s3), s4) /\ t1 = Then(s1, t2)
          /\ t2 = Then(s2, t3) /\ t3 = Then(s3, t4) /\ t4 = Then(s4, t)
      BY <1>4, <1>5, <2>6
    <3> QED  BY <3>1, <3>2, FourJoined
  <2>8. Leads(y, t, t1)
    <3> SUFFICES ASSUME NEW kind, NEW e, Relies(t1, kind, e),
                        ~Reads(y, Relies(t, "spare", Native), kind, e)
                 PROVE  Relies(t, kind, e) /\ ~Sets(y, kind, e)
      BY <2>4 DEF Leads, MayLead
    <3>1. Relies(t2, kind, e) /\ ~Sets(x1, kind, e)
      <4>1. \/ Reads(x1, Relies(t2, "spare", Native), kind, e)
            \/ Relies(t2, kind, e) /\ ~Sets(x1, kind, e)
        BY <2>4 DEF Leads, MayLead
      <4> QED  BY <1>1, <4>1, Distinct
               DEF Reads, Sets, Upsets, Equipment, MountedIn, BaseMounts, Emulated
    <3>2. Relies(t3, kind, e) /\ ~Sets(x2, kind, e)
      <4>1. \/ Reads(x2, Relies(t3, "spare", Native), kind, e)
            \/ Relies(t3, kind, e) /\ ~Sets(x2, kind, e)
        BY <2>3, <3>1 DEF Leads, MayLead
      <4>2. Relies(t3, "spare", Native) =>
               Relies(t, "spare", Native) /\ ~Upsets(y, "spare", Native)
        BY <1>1, <1>8, <2>1, <2>2, Distinct
           DEF Spared, Leads, MayLead, Reads, Sets, Upsets, Equipment, MountedIn, BaseMounts,
               Emulated
      <4> QED  BY <1>1, <3>1, <4>1, <4>2, Distinct
               DEF Reads, Sets, Upsets, Equipment, MountedIn, BaseMounts, Emulated
    <3>3. Relies(t4, kind, e) /\ ~Sets(x3, kind, e)
      <4>1. \/ Reads(x3, Relies(t4, "spare", Native), kind, e)
            \/ Relies(t4, kind, e) /\ ~Sets(x3, kind, e)
        BY <2>2, <3>2 DEF Leads, MayLead
      <4> QED  BY <1>1, <3>1, <3>2, <4>1, Distinct
               DEF Reads, Sets, Upsets, Equipment, MountedIn, BaseMounts, Emulated
    <3>4. Relies(t, kind, e) /\ ~Sets(x4, kind, e)
      <4>1. \/ Reads(x4, Relies(t, "spare", Native), kind, e)
            \/ Relies(t, kind, e) /\ ~Sets(x4, kind, e)
        BY <2>1, <3>3 DEF Leads, MayLead
      <4> QED  BY <1>1, <3>1, <3>2, <3>3, <4>1, Distinct
               DEF Reads, Sets, Upsets, Equipment, MountedIn, BaseMounts, Emulated
    <3>5. ~Sets(y, kind, e)
      BY <1>1, <3>1, <3>2, <3>3, <3>4, Distinct
         DEF Spared, Leads, MayLead, Reads, Sets, Upsets, Equipment, MountedIn, BaseMounts, Emulated
    <3> QED  BY <3>4, <3>5
  <2> QED  BY <2>7, <2>8
<1>9. Does(u, y)
  BY <1>7, <1>8 DEF Does
<1> QED  BY <1>9 DEF u, y

LEMMA ZapDoes == Does(ZapBuildrootsSteps, Step("zap", Native))
<1> DEFINE x1 == Step("remove_markers", {Native, Buildroot})
           s1 == <<x1>>
           x2 == Step("umount_all", Buildroot)
           s2 == <<x2>>
           x3 == Step("deletion", Buildroot)
           s3 == UmountAndRemove(Buildroot)
           x4 == Step("deletion", Native)
           s4 == UmountAndRemove(Native)
           x5 == Step("cache_clear", Chroots)
           s5 == <<x5>>
           g1 == <<x1, x2>>
           p2 == Then(g1, s3)
           p3 == Then(p2, s4)
           p4 == Then(p3, s5)
           y == Step("zap", Native)
           u == ZapBuildrootsSteps
<1>1. /\ x1.op = "remove_markers" /\ x1.chroot = {Native, Buildroot}
      /\ x2.op = "umount_all" /\ x2.chroot = Buildroot
      /\ x3.op = "deletion" /\ x3.chroot = Buildroot
      /\ x4.op = "deletion" /\ x4.chroot = Native
      /\ x5.op = "cache_clear" /\ x5.chroot = Chroots
      /\ y.op = "zap" /\ y.chroot = Native
  BY StepFacts
<1>2. x1 \in StepType /\ x2 \in StepType /\ x5 \in StepType
  BY ChrootsAreThree, StepTyped DEF Ops
<1>3. Does(s1, x1) /\ Does(s2, x2) /\ Does(s3, x3) /\ Does(s4, x4) /\ Does(s5, x5)
  <2>1. Does(s1, x1) /\ Does(s2, x2) /\ Does(s5, x5)
    BY <1>2, DoesItself
  <2>2. Does(s3, x3)
    BY ChrootsAreThree, DeletionDoes
  <2>3. Does(s4, x4)
    BY ChrootsAreThree, DeletionDoes
  <2> QED  BY <2>1, <2>2, <2>3
<1>4. u = p4
  <2>1. s1 \in Seq(StepType) /\ s2 \in Seq(StepType) /\ s3 \in Seq(StepType)
        /\ s4 \in Seq(StepType) /\ s5 \in Seq(StepType) /\ g1 \in Seq(StepType)
    BY <1>2, <1>3 DEF Does
  <2>2. u = Then(g1, Then(Then(s3, s4), s5))
    BY DEF ZapBuildrootsSteps, DeleteBuildroots, Then
  <2> HIDE DEF x1, x2, s1, s2, s3, s4, s5, g1, u
  <2> QED  BY <2>1, <2>2, Reassociate
<1>5. p2 = Then(g1, s3) /\ p3 = Then(p2, s4) /\ p4 = Then(p3, s5)
  OBVIOUS
<1>6. g1 = Then(s1, s2)
  BY <1>2, TwoApart
<1> HIDE DEF x1, x2, x3, x4, x5, s1, s2, s3, s4, s5, g1, p2, p3, p4, y, u
<1>7. /\ s1 \in Seq(StepType) /\ s2 \in Seq(StepType) /\ s3 \in Seq(StepType)
      /\ s4 \in Seq(StepType) /\ s5 \in Seq(StepType)
  BY <1>3 DEF Does
<1>8. /\ g1 \in Seq(StepType) /\ p2 \in Seq(StepType) /\ p3 \in Seq(StepType)
      /\ p4 \in Seq(StepType) /\ u \in Seq(StepType)
  <2>1. g1 \in Seq(StepType)
    BY <1>6, <1>7, ThenTyped
  <2> QED  BY <1>4, <1>5, <1>7, <2>1, ThenTyped
<1>9. ASSUME NEW t \in Seq(StepType), Spared(y, t)
      PROVE  Leads(y, t, Then(u, t))
  <2> DEFINE t5 == Then(s5, t)
             t4 == Then(s4, t5)
             t3 == Then(s3, t4)
             t2 == Then(s2, t3)
             t1 == Then(s1, t2)
  <2>1. Leads(x5, t, t5)
    <3>1. Spared(x5, t)
      BY <1>1, <1>9, Distinct
         DEF Spared, Leads, MayLead, Reads, Sets, Upsets, Equipment, MountedIn, BaseMounts, Emulated
    <3> QED  BY <1>3, <3>1, Put
  <2>2. Leads(x4, t5, t4)
    <3>1. Spared(x4, t5)
      BY <1>1, <1>9, <2>1, Distinct
         DEF Spared, Leads, MayLead, Reads, Sets, Upsets, Equipment, MountedIn, BaseMounts, Emulated
    <3> QED  BY <1>3, <3>1, Put
  <2>3. Leads(x3, t4, t3)
    <3>1. Spared(x3, t4)
      BY <1>1, <1>9, <2>1, <2>2, Distinct
         DEF Spared, Leads, MayLead, Reads, Sets, Upsets, Equipment, MountedIn, BaseMounts, Emulated
    <3> QED  BY <1>3, <3>1, Put
  <2>4. Leads(x2, t3, t2)
    <3>1. Spared(x2, t3)
      BY <1>1, <1>9, <2>1, <2>2, <2>3, Distinct
         DEF Spared, Leads, MayLead, Reads, Sets, Upsets, Equipment, MountedIn, BaseMounts, Emulated
    <3> QED  BY <1>3, <3>1, Put
  <2>5. Leads(x1, t2, t1)
    <3>1. Spared(x1, t2)
      BY <1>1, <1>9, <2>1, <2>2, <2>3, <2>4, Distinct
         DEF Spared, Leads, MayLead, Reads, Sets, Upsets, Equipment, MountedIn, BaseMounts, Emulated
    <3> QED  BY <1>3, <3>1, Put
  <2>6. /\ t1 \in Seq(StepType) /\ t2 \in Seq(StepType) /\ t3 \in Seq(StepType)
        /\ t4 \in Seq(StepType) /\ t5 \in Seq(StepType)
    BY <2>1, <2>2, <2>3, <2>4, <2>5 DEF Leads, MayLead
  <2>7. /\ t1 = Then(s1, t2) /\ t2 = Then(s2, t3) /\ t3 = Then(s3, t4)
        /\ t4 = Then(s4, t5) /\ t5 = Then(s5, t)
    OBVIOUS
  <2> HIDE DEF t1, t2, t3, t4, t5
  <2>8. Then(u, t) = t1
    <3>1. Then(p4, t) = Then(p3, t5)
      <4>1. p3 \in Seq(StepType) /\ s5 \in Seq(StepType) /\ t \in Seq(StepType)
        BY <1>7, <1>8, <1>9, <2>6
      <4>2. p4 = Then(p3, s5) /\ Then(s5, t) = t5
        BY <1>5, <2>7
      <4> QED  BY <4>1, <4>2, Regrouped
    <3>2. Then(p3, t5) = Then(p2, t4)
      <4>1. p2 \in Seq(StepType) /\ s4 \in Seq(StepType) /\ t5 \in Seq(StepType)
        BY <1>7, <1>8, <1>9, <2>6
      <4>2. p3 = Then(p2, s4) /\ Then(s4, t5) = t4
        BY <1>5, <2>7
      <4> QED  BY <4>1, <4>2, Regrouped
    <3>3. Then(p2, t4) = Then(g1, t3)
      <4>1. g1 \in Seq(StepType) /\ s3 \in Seq(StepType) /\ t4 \in Seq(StepType)
        BY <1>7, <1>8, <1>9, <2>6
      <4>2. p2 = Then(g1, s3) /\ Then(s3, t4) = t3
        BY <1>5, <2>7
      <4> QED  BY <4>1, <4>2, Regrouped
    <3>4. Then(g1, t3) = t1
      <4>1. s1 \in Seq(StepType) /\ s2 \in Seq(StepType) /\ t3 \in Seq(StepType)
        BY <1>7, <1>9, <2>6
      <4>2. g1 = Then(s1, s2) /\ t1 = Then(s1, t2) /\ t2 = Then(s2, t3)
        BY <1>6, <2>7
      <4> QED  BY <4>1, <4>2, TwoJoined
    <3> QED  BY <1>4, <2>7, <3>1, <3>2, <3>3, <3>4
  <2>9. Leads(y, t, t1)
    <3> SUFFICES ASSUME NEW kind, NEW e, Relies(t1, kind, e),
                        ~Reads(y, Relies(t, "spare", Native), kind, e)
                 PROVE  Relies(t, kind, e) /\ ~Sets(y, kind, e)
      BY <2>5 DEF Leads, MayLead
    <3>1. Relies(t2, kind, e) /\ ~Sets(x1, kind, e)
      <4>1. \/ Reads(x1, Relies(t2, "spare", Native), kind, e)
            \/ Relies(t2, kind, e) /\ ~Sets(x1, kind, e)
        BY <2>5 DEF Leads, MayLead
      <4> QED  BY <1>1, <4>1, Distinct
               DEF Reads, Sets, Upsets, Equipment, MountedIn, BaseMounts, Emulated
    <3>2. Relies(t3, kind, e) /\ ~Sets(x2, kind, e)
      <4>1. \/ Reads(x2, Relies(t3, "spare", Native), kind, e)
            \/ Relies(t3, kind, e) /\ ~Sets(x2, kind, e)
        BY <2>4, <3>1 DEF Leads, MayLead
      <4> QED  BY <1>1, <3>1, <4>1, Distinct
               DEF Reads, Sets, Upsets, Equipment, MountedIn, BaseMounts, Emulated
    <3>3. Relies(t4, kind, e) /\ ~Sets(x3, kind, e)
      <4>1. \/ Reads(x3, Relies(t4, "spare", Native), kind, e)
            \/ Relies(t4, kind, e) /\ ~Sets(x3, kind, e)
        BY <2>3, <3>2 DEF Leads, MayLead
      <4> QED  BY <1>1, <3>1, <3>2, <4>1, Distinct
               DEF Reads, Sets, Upsets, Equipment, MountedIn, BaseMounts, Emulated
    <3>4. Relies(t5, kind, e) /\ ~Sets(x4, kind, e)
      <4>1. \/ Reads(x4, Relies(t5, "spare", Native), kind, e)
            \/ Relies(t5, kind, e) /\ ~Sets(x4, kind, e)
        BY <2>2, <3>3 DEF Leads, MayLead
      <4> QED  BY <1>1, <3>1, <3>2, <3>3, <4>1, Distinct
               DEF Reads, Sets, Upsets, Equipment, MountedIn, BaseMounts, Emulated
    <3>5. Relies(t, kind, e) /\ ~Sets(x5, kind, e)
      <4>1. \/ Reads(x5, Relies(t, "spare", Native), kind, e)
            \/ Relies(t, kind, e) /\ ~Sets(x5, kind, e)
        BY <2>1, <3>4 DEF Leads, MayLead
      <4> QED  BY <1>1, <3>1, <3>2, <3>3, <3>4, <4>1, Distinct
               DEF Reads, Sets, Upsets, Equipment, MountedIn, BaseMounts, Emulated
    <3>6. ~Sets(y, kind, e)
      BY <1>1, <3>1, <3>2, <3>3, <3>4, <3>5, Distinct
         DEF Spared, Leads, MayLead, Reads, Sets, Upsets, Equipment, MountedIn, BaseMounts, Emulated
    <3> QED  BY <3>5, <3>6
  <2> QED  BY <2>8, <2>9
<1>10. Does(u, y)
  BY <1>8, <1>9 DEF Does
<1> QED  BY <1>10 DEF u, y

LEMMA NativeCompilersDo ==
    Does(<<Step("init", Native), Step("install_build", Native)>>, Step("install_build", Native))
<1> DEFINE x1 == Step("init", Native)
           s1 == <<x1>>
           x2 == Step("install_build", Native)
           s2 == <<x2>>
           g1 == <<x1, x2>>
           y == Step("install_build", Native)
           u == <<Step("init", Native), Step("install_build", Native)>>
<1>1. /\ x1.op = "init" /\ x1.chroot = Native
      /\ x2.op = "install_build" /\ x2.chroot = Native
      /\ y.op = "install_build" /\ y.chroot = Native
  BY StepFacts
<1>2. x1 \in StepType /\ x2 \in StepType
  BY ChrootsAreThree, StepTyped DEF Ops
<1>3. Does(s1, x1) /\ Does(s2, x2)
  BY <1>2, DoesItself
<1>4. u = g1
  OBVIOUS
<1>5. g1 = Then(s1, s2)
  BY <1>2, TwoApart
<1> HIDE DEF x1, x2, s1, s2, g1, y, u
<1>6. s1 \in Seq(StepType) /\ s2 \in Seq(StepType)
  BY <1>3 DEF Does
<1>7. g1 \in Seq(StepType) /\ u \in Seq(StepType)
  BY <1>4, <1>5, <1>6, ThenTyped
<1>8. ASSUME NEW t \in Seq(StepType), Spared(y, t)
      PROVE  Leads(y, t, Then(u, t))
  <2> DEFINE t2 == Then(s2, t)
             t1 == Then(s1, t2)
  <2>1. Leads(x2, t, t2)
    <3>1. Spared(x2, t)
      BY <1>1, <1>8, Distinct
         DEF Spared, Leads, MayLead, Reads, Sets, Upsets, Equipment, MountedIn, BaseMounts, Emulated
    <3> QED  BY <1>3, <3>1, Put
  <2>2. Leads(x1, t2, t1)
    <3>1. Spared(x1, t2)
      BY <1>1, <1>8, <2>1, Distinct
         DEF Spared, Leads, MayLead, Reads, Sets, Upsets, Equipment, MountedIn, BaseMounts, Emulated
    <3> QED  BY <1>3, <3>1, Put
  <2>3. t1 \in Seq(StepType) /\ t2 \in Seq(StepType)
    BY <2>1, <2>2 DEF Leads, MayLead
  <2>4. t1 = Then(s1, t2) /\ t2 = Then(s2, t)
    OBVIOUS
  <2> HIDE DEF t1, t2
  <2>5. Then(u, t) = t1
    BY <1>4, <1>5, <1>6, <2>3, <2>4, TwoJoined
  <2>6. Leads(y, t, t1)
    BY <1>1, <1>8, <2>1, <2>2, Distinct
       DEF Spared, Leads, MayLead, Reads, Sets, Upsets, Equipment, MountedIn, BaseMounts, Emulated
  <2> QED  BY <2>5, <2>6
<1>9. Does(u, y)
  BY <1>7, <1>8 DEF Does
<1> QED  BY <1>9 DEF u, y

LEMMA ForeignCompilersDo ==
    Does(<<Step("init", Native), Step("install_build", Native)>> \o <<Step("mount_native",
        Buildroot)>>, Step("install_build", Buildroot))
<1> DEFINE x1 == Step("init", Native)
           s1 == <<x1>>
           x2 == Step("install_build", Native)
           s2 == <<x2>>
           x3 == Step("mount_native", Buildroot)
           s3 == <<x3>>
           g1 == <<x1, x2>>
           y == Step("install_build", Buildroot)
           u == <<Step("init", Native), Step("install_build", Native)>>
               \o <<Step("mount_native", Buildroot)>>
<1>1. /\ x1.op = "init" /\ x1.chroot = Native
      /\ x2.op = "install_build" /\ x2.chroot = Native
      /\ x3.op = "mount_native" /\ x3.chroot = Buildroot
      /\ y.op = "install_build" /\ y.chroot = Buildroot
  BY StepFacts
<1>2. x1 \in StepType /\ x2 \in StepType /\ x3 \in StepType
  BY ChrootsAreThree, StepTyped DEF Ops
<1>3. Does(s1, x1) /\ Does(s2, x2) /\ Does(s3, x3)
  BY <1>2, DoesItself
<1>4. u = Then(g1, s3)
  BY DEF Then
<1>5. g1 = Then(s1, s2)
  BY <1>2, TwoApart
<1> HIDE DEF x1, x2, x3, s1, s2, s3, g1, y, u
<1>6. s1 \in Seq(StepType) /\ s2 \in Seq(StepType) /\ s3 \in Seq(StepType)
  BY <1>3 DEF Does
<1>7. g1 \in Seq(StepType) /\ u \in Seq(StepType)
  <2>1. g1 \in Seq(StepType)
    BY <1>5, <1>6, ThenTyped
  <2> QED  BY <1>4, <1>6, <2>1, ThenTyped
<1>8. ASSUME NEW t \in Seq(StepType), Spared(y, t)
      PROVE  Leads(y, t, Then(u, t))
  <2> DEFINE t3 == Then(s3, t)
             t2 == Then(s2, t3)
             t1 == Then(s1, t2)
  <2>1. Leads(x3, t, t3)
    <3>1. Spared(x3, t)
      BY <1>1, <1>8, Distinct
         DEF Spared, Leads, MayLead, Reads, Sets, Upsets, Equipment, MountedIn, BaseMounts, Emulated
    <3> QED  BY <1>3, <3>1, Put
  <2>2. Leads(x2, t3, t2)
    <3>1. Spared(x2, t3)
      BY <1>1, <1>8, <2>1, Distinct
         DEF Spared, Leads, MayLead, Reads, Sets, Upsets, Equipment, MountedIn, BaseMounts, Emulated
    <3> QED  BY <1>3, <3>1, Put
  <2>3. Leads(x1, t2, t1)
    <3>1. Spared(x1, t2)
      BY <1>1, <1>8, <2>1, <2>2, Distinct
         DEF Spared, Leads, MayLead, Reads, Sets, Upsets, Equipment, MountedIn, BaseMounts, Emulated
    <3> QED  BY <1>3, <3>1, Put
  <2>4. t1 \in Seq(StepType) /\ t2 \in Seq(StepType) /\ t3 \in Seq(StepType)
    BY <2>1, <2>2, <2>3 DEF Leads, MayLead
  <2>5. t1 = Then(s1, t2) /\ t2 = Then(s2, t3) /\ t3 = Then(s3, t)
    OBVIOUS
  <2> HIDE DEF t1, t2, t3
  <2>6. Then(u, t) = t1
    <3>1. Then(Then(g1, s3), t) = Then(g1, t3)
      BY <1>6, <1>7, <2>4, <2>5, Regrouped
    <3>2. Then(g1, t3) = t1
      BY <1>5, <1>6, <2>4, <2>5, TwoJoined
    <3> QED  BY <1>4, <2>5, <3>1, <3>2
  <2>7. Leads(y, t, t1)
    <3> SUFFICES ASSUME NEW kind, NEW e, Relies(t1, kind, e),
                        ~Reads(y, Relies(t, "spare", Native), kind, e)
                 PROVE  Relies(t, kind, e) /\ ~Sets(y, kind, e)
      BY <2>3 DEF Leads, MayLead
    <3>1. Relies(t2, kind, e) /\ ~Sets(x1, kind, e)
      BY <1>1, <2>1, <2>2, <2>3, Distinct
         DEF Spared, Leads, MayLead, Reads, Sets, Upsets, Equipment, MountedIn, BaseMounts, Emulated
    <3>2. Relies(t3, kind, e) /\ ~Sets(x2, kind, e)
      BY <1>1, <2>1, <2>2, <2>3, <3>1, Distinct
         DEF Spared, Leads, MayLead, Reads, Sets, Upsets, Equipment, MountedIn, BaseMounts, Emulated
    <3>3. Relies(t, kind, e) /\ ~Sets(x3, kind, e)
      BY <1>1, <2>1, <2>2, <2>3, <3>1, <3>2, Distinct
         DEF Spared, Leads, MayLead, Reads, Sets, Upsets, Equipment, MountedIn, BaseMounts, Emulated
    <3>4. ~Sets(y, kind, e)
      BY <1>1, <3>1, <3>2, <3>3, Distinct
         DEF Spared, Leads, MayLead, Reads, Sets, Upsets, Equipment, MountedIn, BaseMounts, Emulated
    <3> QED  BY <3>3, <3>4
  <2> QED  BY <2>6, <2>7
<1>9. Does(u, y)
  BY <1>7, <1>8 DEF Does
<1> QED  BY <1>9 DEF u, y

LEMMA CompilersDo ==
    ASSUME NEW pkg \in Builds, NEW build, build = BuildChroot(pkg.cross),
           pkg.cross \notin {"unnecessary", "qemu-only"}
    PROVE  Does(<<Step("init", Native), Step("install_build", Native)>>
                    \o When(pkg.cross = "crossdirect", <<Step("mount_native", build)>>),
                Step("install_build", build))
<1>1. pkg.cross \in Kinds
  BY BuildsAssumption
<1>2. CASE pkg.cross = "crossdirect"
  <2>1. build = Buildroot
    BY <1>2 DEF BuildChroot
  <2> QED  BY <1>2, <2>1, ForeignCompilersDo DEF When
<1>3. CASE pkg.cross # "crossdirect"
  <2>1. build = Native
    BY <1>1, <1>3 DEF BuildChroot, Kinds
  <2>2. \A s \in Seq(StepType) : s \o <<>> = s
    OBVIOUS
  <2>3. <<Step("init", Native), Step("install_build", Native)>> \in Seq(StepType)
    BY NativeCompilersDo DEF Does
  <2>4. <<Step("init", Native), Step("install_build", Native)>>
             \o When(pkg.cross = "crossdirect", <<Step("mount_native", build)>>)
           = <<Step("init", Native), Step("install_build", Native)>>
    BY <1>3, <2>2, <2>3 DEF When
  <2> QED  BY <2>1, <2>4, NativeCompilersDo
<1> QED  BY <1>2, <1>3

LEMMA AbuildDoes ==
    ASSUME NEW pkg \in Builds, NEW before, NEW strict \in BOOLEAN,
           NEW host \in {Native, Buildroot}, NEW build \in {Native, Buildroot},
           host = HostChroot(pkg.cross), build = BuildChroot(pkg.cross)
    PROVE  Does(AbuildSteps(pkg, before, strict), Step("packages", Native))
<1> DEFINE x1 == Step("build_init", host)
           b1 == host # build
           r1 == <<Step("build_init", host)>>
           s1 == When(b1, r1)
           x2 == Step("build_init", build)
           s2 == <<x2>>
           x3 == Step("install_build", build)
           b3 == pkg.rust
           r3 == <<Step("install_build", build)>>
           s3 == When(b3, r3)
           x4 == Step("install_build", build)
           b4 == (strict \/ pkg.cross # before) /\ pkg.cross \notin {"unnecessary", "qemu-only"}
           r4 == <<Step("init", Native), Step("install_build", Native)>>
                   \o When(pkg.cross = "crossdirect", <<Step("mount_native", build)>>)
           s4 == When(b4, r4)
           x5 == Step("install", host)
           b5 == pkg.depends
           r5 == <<Step("install", host)>>
           s5 == When(b5, r5)
           x6 == Step("install", build)
           b6 == pkg.depends /\ host # build
           r6 == <<Step("install", build)>>
           s6 == When(b6, r6)
           x7 == Step("bind_sysroot", Native)
           b7 == pkg.cross = "cross-native2"
           r7 == <<Step("bind_sysroot", Native)>>
           s7 == When(b7, r7)
           x8 == Step("abuild", build)
           s8 == <<x8>>
           x9 == Step("umount_sysroot", Native)
           b9 == pkg.cross = "cross-native2"
           r9 == <<Step("umount_sysroot", Native)>>
           s9 == When(b9, r9)
           p2 == Then(s1, s2)
           p3 == Then(p2, s3)
           p4 == Then(p3, s4)
           p5 == Then(p4, s5)
           p6 == Then(p5, s6)
           p7 == Then(p6, s7)
           p8 == Then(p7, s8)
           p9 == Then(p8, s9)
           y == Step("packages", Native)
           u == AbuildSteps(pkg, before, strict)
<1>1. /\ x1.op = "build_init" /\ x1.chroot = host
      /\ x2.op = "build_init" /\ x2.chroot = build
      /\ x3.op = "install_build" /\ x3.chroot = build
      /\ x4.op = "install_build" /\ x4.chroot = build
      /\ x5.op = "install" /\ x5.chroot = host
      /\ x6.op = "install" /\ x6.chroot = build
      /\ x7.op = "bind_sysroot" /\ x7.chroot = Native
      /\ x8.op = "abuild" /\ x8.chroot = build
      /\ x9.op = "umount_sysroot" /\ x9.chroot = Native
      /\ y.op = "packages" /\ y.chroot = Native
  BY StepFacts
<1>2. x2 \in StepType /\ x8 \in StepType
  BY ChrootsAreThree, StepTyped DEF Ops
<1>3. /\ b1 \in BOOLEAN /\ (b1 => Does(r1, x1)) /\ Does(s2, x2) /\ b3 \in BOOLEAN
      /\ (b3 => Does(r3, x3)) /\ b4 \in BOOLEAN /\ (b4 => Does(r4, x4))
      /\ b5 \in BOOLEAN /\ (b5 => Does(r5, x5)) /\ b6 \in BOOLEAN
      /\ (b6 => Does(r6, x6)) /\ b7 \in BOOLEAN /\ (b7 => Does(r7, x7)) /\ Does(s8, x8)
      /\ b9 \in BOOLEAN /\ (b9 => Does(r9, x9))
  <2>1. Does(s2, x2) /\ Does(s8, x8)
    BY <1>2, DoesItself
  <2>2. b1 \in BOOLEAN /\ (b1 => Does(r1, x1))
    BY BuildsAssumption, DoesStep, ChrootsAreThree DEF Ops
  <2>3. b3 \in BOOLEAN /\ (b3 => Does(r3, x3))
    BY BuildsAssumption, DoesStep, ChrootsAreThree DEF Ops
  <2>4. b4 \in BOOLEAN /\ (b4 => Does(r4, x4))
    BY CompilersDo
  <2>5. b5 \in BOOLEAN /\ (b5 => Does(r5, x5))
    BY BuildsAssumption, DoesStep, ChrootsAreThree DEF Ops
  <2>6. b6 \in BOOLEAN /\ (b6 => Does(r6, x6))
    BY BuildsAssumption, DoesStep, ChrootsAreThree DEF Ops
  <2>7. b7 \in BOOLEAN /\ (b7 => Does(r7, x7))
    BY BuildsAssumption, DoesStep, ChrootsAreThree DEF Ops
  <2>8. b9 \in BOOLEAN /\ (b9 => Does(r9, x9))
    BY BuildsAssumption, DoesStep, ChrootsAreThree DEF Ops
  <2> QED  BY <2>1, <2>2, <2>3, <2>4, <2>5, <2>6, <2>7, <2>8
<1>4. u = p9
  BY DEF AbuildSteps, Then
<1>5. /\ p2 = Then(s1, s2) /\ p3 = Then(p2, s3) /\ p4 = Then(p3, s4)
       /\ p5 = Then(p4, s5) /\ p6 = Then(p5, s6) /\ p7 = Then(p6, s7)
       /\ p8 = Then(p7, s8) /\ p9 = Then(p8, s9)
  OBVIOUS
<1> HIDE DEF x1, x2, x3, x4, x5, x6, x7, x8, x9, s2, s8, b1, r1, b3, r3, b4, r4, b5,
             r5, b6, r6, b7, r7, b9, r9, p2, p3, p4, p5, p6, p7, p8, p9, y, u
<1>6. /\ s1 \in Seq(StepType) /\ s2 \in Seq(StepType) /\ s3 \in Seq(StepType)
      /\ s4 \in Seq(StepType) /\ s5 \in Seq(StepType) /\ s6 \in Seq(StepType)
      /\ s7 \in Seq(StepType) /\ s8 \in Seq(StepType) /\ s9 \in Seq(StepType)
  BY <1>3, WhenTyped DEF Does
<1> HIDE DEF s1, s3, s4, s5, s6, s7, s9
<1>7. /\ p2 \in Seq(StepType) /\ p3 \in Seq(StepType) /\ p4 \in Seq(StepType)
      /\ p5 \in Seq(StepType) /\ p6 \in Seq(StepType) /\ p7 \in Seq(StepType)
      /\ p8 \in Seq(StepType) /\ p9 \in Seq(StepType) /\ u \in Seq(StepType)
  BY <1>4, <1>5, <1>6, ThenTyped
<1>8. ASSUME NEW t \in Seq(StepType), Spared(y, t)
      PROVE  Leads(y, t, Then(u, t))
  <2> DEFINE t9 == Then(s9, t)
             t8 == Then(s8, t9)
             t7 == Then(s7, t8)
             t6 == Then(s6, t7)
             t5 == Then(s5, t6)
             t4 == Then(s4, t5)
             t3 == Then(s3, t4)
             t2 == Then(s2, t3)
             t1 == Then(s1, t2)
  <2>1. MayLead(x9, t, t9)
    <3>1. Spared(x9, t)
      BY <1>1, <1>8, Distinct
         DEF Spared, Leads, MayLead, Reads, Sets, Upsets, Equipment, MountedIn, BaseMounts, Emulated
    <3> QED  BY <1>3, <3>1, PutWhen DEF s9
  <2>2. Leads(x8, t9, t8)
    <3>1. Spared(x8, t9)
      BY <1>1, <1>8, <2>1, Distinct
         DEF Spared, Leads, MayLead, Reads, Sets, Upsets, Equipment, MountedIn, BaseMounts, Emulated
    <3> QED  BY <1>3, <3>1, Put
  <2>3. MayLead(x7, t8, t7)
    <3>1. Spared(x7, t8)
      BY <1>1, <1>8, <2>1, <2>2, Distinct
         DEF Spared, Leads, MayLead, Reads, Sets, Upsets, Equipment, MountedIn, BaseMounts, Emulated
    <3> QED  BY <1>3, <3>1, PutWhen DEF s7
  <2>4. MayLead(x6, t7, t6)
    <3>1. Spared(x6, t7)
      BY <1>1, <1>8, <2>1, <2>2, <2>3, Distinct
         DEF Spared, Leads, MayLead, Reads, Sets, Upsets, Equipment, MountedIn, BaseMounts, Emulated
    <3> QED  BY <1>3, <3>1, PutWhen DEF s6
  <2>5. MayLead(x5, t6, t5)
    <3>1. Spared(x5, t6)
      <4> SUFFICES ASSUME NEW kind, NEW e, Relies(t6, kind, e), Upsets(x5, kind, e)
                   PROVE  FALSE
        BY <2>4, <1>8 DEF Spared, Leads, MayLead
      <4>1. /\ \/ ~Relies(t6, kind, e) \/ Reads(x6, Relies(t7, "spare", Native), kind, e)
               \/ Relies(t7, kind, e)
            /\ \/ ~Relies(t7, kind, e) \/ Reads(x7, Relies(t8, "spare", Native), kind, e)
               \/ Relies(t8, kind, e)
            /\ \/ ~Relies(t8, kind, e) \/ Reads(x8, Relies(t9, "spare", Native), kind, e)
               \/ Relies(t9, kind, e) /\ ~Sets(x8, kind, e)
            /\ \/ ~Relies(t9, kind, e) \/ Reads(x9, Relies(t, "spare", Native), kind, e)
               \/ Relies(t, kind, e)
        BY <2>1, <2>2, <2>3, <2>4 DEF Leads, MayLead
      <4>2. Relies(t, kind, e) => ~Upsets(y, kind, e)
        BY <1>8 DEF Spared
      <4> QED  BY <1>1, <4>1, <4>2, Distinct
               DEF Reads, Sets, Upsets, Equipment, MountedIn, BaseMounts, Emulated
    <3> QED  BY <1>3, <3>1, PutWhen DEF s5
  <2>6. MayLead(x4, t5, t4)
    <3>1. Spared(x4, t5)
      <4> SUFFICES ASSUME NEW kind, NEW e, Relies(t5, kind, e), Upsets(x4, kind, e)
                   PROVE  FALSE
        BY <2>5, <1>8 DEF Spared, Leads, MayLead
      <4>1. /\ \/ ~Relies(t5, kind, e) \/ Reads(x5, Relies(t6, "spare", Native), kind, e)
               \/ Relies(t6, kind, e)
            /\ \/ ~Relies(t6, kind, e) \/ Reads(x6, Relies(t7, "spare", Native), kind, e)
               \/ Relies(t7, kind, e)
            /\ \/ ~Relies(t7, kind, e) \/ Reads(x7, Relies(t8, "spare", Native), kind, e)
               \/ Relies(t8, kind, e)
            /\ \/ ~Relies(t8, kind, e) \/ Reads(x8, Relies(t9, "spare", Native), kind, e)
               \/ Relies(t9, kind, e) /\ ~Sets(x8, kind, e)
            /\ \/ ~Relies(t9, kind, e) \/ Reads(x9, Relies(t, "spare", Native), kind, e)
               \/ Relies(t, kind, e)
        BY <2>1, <2>2, <2>3, <2>4, <2>5 DEF Leads, MayLead
      <4>2. Relies(t, kind, e) => ~Upsets(y, kind, e)
        BY <1>8 DEF Spared
      <4> QED  BY <1>1, <4>1, <4>2, Distinct
               DEF Reads, Sets, Upsets, Equipment, MountedIn, BaseMounts, Emulated
    <3> QED  BY <1>3, <3>1, PutWhen DEF s4
  <2>7. MayLead(x3, t4, t3)
    <3>1. Spared(x3, t4)
      <4> SUFFICES ASSUME NEW kind, NEW e, Relies(t4, kind, e), Upsets(x3, kind, e)
                   PROVE  FALSE
        BY <2>6, <1>8 DEF Spared, Leads, MayLead
      <4>1. /\ \/ ~Relies(t4, kind, e) \/ Reads(x4, Relies(t5, "spare", Native), kind, e)
               \/ Relies(t5, kind, e)
            /\ \/ ~Relies(t5, kind, e) \/ Reads(x5, Relies(t6, "spare", Native), kind, e)
               \/ Relies(t6, kind, e)
            /\ \/ ~Relies(t6, kind, e) \/ Reads(x6, Relies(t7, "spare", Native), kind, e)
               \/ Relies(t7, kind, e)
            /\ \/ ~Relies(t7, kind, e) \/ Reads(x7, Relies(t8, "spare", Native), kind, e)
               \/ Relies(t8, kind, e)
            /\ \/ ~Relies(t8, kind, e) \/ Reads(x8, Relies(t9, "spare", Native), kind, e)
               \/ Relies(t9, kind, e) /\ ~Sets(x8, kind, e)
            /\ \/ ~Relies(t9, kind, e) \/ Reads(x9, Relies(t, "spare", Native), kind, e)
               \/ Relies(t, kind, e)
        BY <2>1, <2>2, <2>3, <2>4, <2>5, <2>6 DEF Leads, MayLead
      <4>2. Relies(t, kind, e) => ~Upsets(y, kind, e)
        BY <1>8 DEF Spared
      <4> QED  BY <1>1, <4>1, <4>2, Distinct
               DEF Reads, Sets, Upsets, Equipment, MountedIn, BaseMounts, Emulated
    <3> QED  BY <1>3, <3>1, PutWhen DEF s3
  <2>8. Leads(x2, t3, t2)
    <3>1. Spared(x2, t3)
      <4> SUFFICES ASSUME NEW kind, NEW e, Relies(t3, kind, e), Upsets(x2, kind, e)
                   PROVE  FALSE
        BY <2>7, <1>8 DEF Spared, Leads, MayLead
      <4>1. /\ \/ ~Relies(t3, kind, e) \/ Reads(x3, Relies(t4, "spare", Native), kind, e)
               \/ Relies(t4, kind, e)
            /\ \/ ~Relies(t4, kind, e) \/ Reads(x4, Relies(t5, "spare", Native), kind, e)
               \/ Relies(t5, kind, e)
            /\ \/ ~Relies(t5, kind, e) \/ Reads(x5, Relies(t6, "spare", Native), kind, e)
               \/ Relies(t6, kind, e)
            /\ \/ ~Relies(t6, kind, e) \/ Reads(x6, Relies(t7, "spare", Native), kind, e)
               \/ Relies(t7, kind, e)
            /\ \/ ~Relies(t7, kind, e) \/ Reads(x7, Relies(t8, "spare", Native), kind, e)
               \/ Relies(t8, kind, e)
            /\ \/ ~Relies(t8, kind, e) \/ Reads(x8, Relies(t9, "spare", Native), kind, e)
               \/ Relies(t9, kind, e) /\ ~Sets(x8, kind, e)
            /\ \/ ~Relies(t9, kind, e) \/ Reads(x9, Relies(t, "spare", Native), kind, e)
               \/ Relies(t, kind, e)
        BY <2>1, <2>2, <2>3, <2>4, <2>5, <2>6, <2>7 DEF Leads, MayLead
      <4>2. Relies(t, kind, e) => ~Upsets(y, kind, e)
        BY <1>8 DEF Spared
      <4> QED  BY <1>1, <4>1, <4>2, Distinct
               DEF Reads, Sets, Upsets, Equipment, MountedIn, BaseMounts, Emulated
    <3> QED  BY <1>3, <3>1, Put
  <2>9. MayLead(x1, t2, t1)
    <3>1. Spared(x1, t2)
      <4> SUFFICES ASSUME NEW kind, NEW e, Relies(t2, kind, e), Upsets(x1, kind, e)
                   PROVE  FALSE
        BY <2>8, <1>8 DEF Spared, Leads, MayLead
      <4>1. /\ \/ ~Relies(t2, kind, e) \/ Reads(x2, Relies(t3, "spare", Native), kind, e)
               \/ Relies(t3, kind, e) /\ ~Sets(x2, kind, e)
            /\ \/ ~Relies(t3, kind, e) \/ Reads(x3, Relies(t4, "spare", Native), kind, e)
               \/ Relies(t4, kind, e)
            /\ \/ ~Relies(t4, kind, e) \/ Reads(x4, Relies(t5, "spare", Native), kind, e)
               \/ Relies(t5, kind, e)
            /\ \/ ~Relies(t5, kind, e) \/ Reads(x5, Relies(t6, "spare", Native), kind, e)
               \/ Relies(t6, kind, e)
            /\ \/ ~Relies(t6, kind, e) \/ Reads(x6, Relies(t7, "spare", Native), kind, e)
               \/ Relies(t7, kind, e)
            /\ \/ ~Relies(t7, kind, e) \/ Reads(x7, Relies(t8, "spare", Native), kind, e)
               \/ Relies(t8, kind, e)
            /\ \/ ~Relies(t8, kind, e) \/ Reads(x8, Relies(t9, "spare", Native), kind, e)
               \/ Relies(t9, kind, e) /\ ~Sets(x8, kind, e)
            /\ \/ ~Relies(t9, kind, e) \/ Reads(x9, Relies(t, "spare", Native), kind, e)
               \/ Relies(t, kind, e)
        BY <2>1, <2>2, <2>3, <2>4, <2>5, <2>6, <2>7, <2>8 DEF Leads, MayLead
      <4>2. Relies(t, kind, e) => ~Upsets(y, kind, e)
        BY <1>8 DEF Spared
      <4> QED  BY <1>1, <4>1, <4>2, Distinct
               DEF Reads, Sets, Upsets, Equipment, MountedIn, BaseMounts, Emulated
    <3> QED  BY <1>3, <3>1, PutWhen DEF s1
  <2>10. /\ t1 \in Seq(StepType) /\ t2 \in Seq(StepType) /\ t3 \in Seq(StepType)
        /\ t4 \in Seq(StepType) /\ t5 \in Seq(StepType) /\ t6 \in Seq(StepType)
        /\ t7 \in Seq(StepType) /\ t8 \in Seq(StepType) /\ t9 \in Seq(StepType)
    BY <2>1, <2>2, <2>3, <2>4, <2>5, <2>6, <2>7, <2>8, <2>9 DEF Leads, MayLead
  <2>11. /\ t1 = Then(s1, t2) /\ t2 = Then(s2, t3) /\ t3 = Then(s3, t4)
        /\ t4 = Then(s4, t5) /\ t5 = Then(s5, t6) /\ t6 = Then(s6, t7)
        /\ t7 = Then(s7, t8) /\ t8 = Then(s8, t9) /\ t9 = Then(s9, t)
    OBVIOUS
  <2> HIDE DEF t1, t2, t3, t4, t5, t6, t7, t8, t9
  <2>12. Then(u, t) = t1
    <3>1. Then(p9, t) = Then(p8, t9)
      <4>1. p8 \in Seq(StepType) /\ s9 \in Seq(StepType) /\ t \in Seq(StepType)
        BY <1>6, <1>7, <1>8, <2>10
      <4>2. p9 = Then(p8, s9) /\ Then(s9, t) = t9
        BY <1>5, <2>11
      <4> QED  BY <4>1, <4>2, Regrouped
    <3>2. Then(p8, t9) = Then(p7, t8)
      <4>1. p7 \in Seq(StepType) /\ s8 \in Seq(StepType) /\ t9 \in Seq(StepType)
        BY <1>6, <1>7, <1>8, <2>10
      <4>2. p8 = Then(p7, s8) /\ Then(s8, t9) = t8
        BY <1>5, <2>11
      <4> QED  BY <4>1, <4>2, Regrouped
    <3>3. Then(p7, t8) = Then(p6, t7)
      <4>1. p6 \in Seq(StepType) /\ s7 \in Seq(StepType) /\ t8 \in Seq(StepType)
        BY <1>6, <1>7, <1>8, <2>10
      <4>2. p7 = Then(p6, s7) /\ Then(s7, t8) = t7
        BY <1>5, <2>11
      <4> QED  BY <4>1, <4>2, Regrouped
    <3>4. Then(p6, t7) = Then(p5, t6)
      <4>1. p5 \in Seq(StepType) /\ s6 \in Seq(StepType) /\ t7 \in Seq(StepType)
        BY <1>6, <1>7, <1>8, <2>10
      <4>2. p6 = Then(p5, s6) /\ Then(s6, t7) = t6
        BY <1>5, <2>11
      <4> QED  BY <4>1, <4>2, Regrouped
    <3>5. Then(p5, t6) = Then(p4, t5)
      <4>1. p4 \in Seq(StepType) /\ s5 \in Seq(StepType) /\ t6 \in Seq(StepType)
        BY <1>6, <1>7, <1>8, <2>10
      <4>2. p5 = Then(p4, s5) /\ Then(s5, t6) = t5
        BY <1>5, <2>11
      <4> QED  BY <4>1, <4>2, Regrouped
    <3>6. Then(p4, t5) = Then(p3, t4)
      <4>1. p3 \in Seq(StepType) /\ s4 \in Seq(StepType) /\ t5 \in Seq(StepType)
        BY <1>6, <1>7, <1>8, <2>10
      <4>2. p4 = Then(p3, s4) /\ Then(s4, t5) = t4
        BY <1>5, <2>11
      <4> QED  BY <4>1, <4>2, Regrouped
    <3>7. Then(p3, t4) = Then(p2, t3)
      <4>1. p2 \in Seq(StepType) /\ s3 \in Seq(StepType) /\ t4 \in Seq(StepType)
        BY <1>6, <1>7, <1>8, <2>10
      <4>2. p3 = Then(p2, s3) /\ Then(s3, t4) = t3
        BY <1>5, <2>11
      <4> QED  BY <4>1, <4>2, Regrouped
    <3>8. Then(p2, t3) = Then(s1, t2)
      <4>1. s1 \in Seq(StepType) /\ s2 \in Seq(StepType) /\ t3 \in Seq(StepType)
        BY <1>6, <1>7, <1>8, <2>10
      <4>2. p2 = Then(s1, s2) /\ Then(s2, t3) = t2
        BY <1>5, <2>11
      <4> QED  BY <4>1, <4>2, Regrouped
    <3> QED  BY <1>4, <2>11, <3>1, <3>2, <3>3, <3>4, <3>5, <3>6, <3>7, <3>8
  <2>13. Leads(y, t, t1)
    <3> SUFFICES ASSUME NEW kind, NEW e, Relies(t1, kind, e),
                        ~Reads(y, Relies(t, "spare", Native), kind, e)
                 PROVE  Relies(t, kind, e) /\ ~Sets(y, kind, e)
      BY <2>9 DEF Leads, MayLead
    <3>1. Relies(t2, kind, e)
      <4>1. \/ Reads(x1, Relies(t2, "spare", Native), kind, e)
            \/ Relies(t2, kind, e)
        BY <2>9 DEF Leads, MayLead
      <4> QED  BY <1>1, <4>1, Distinct
               DEF Reads, Sets, Upsets, Equipment, MountedIn, BaseMounts, Emulated
    <3>2. Relies(t3, kind, e) /\ ~Sets(x2, kind, e)
      <4>1. \/ Reads(x2, Relies(t3, "spare", Native), kind, e)
            \/ Relies(t3, kind, e) /\ ~Sets(x2, kind, e)
        BY <2>8, <3>1 DEF Leads, MayLead
      <4> QED  BY <1>1, <3>1, <4>1, Distinct
               DEF Reads, Sets, Upsets, Equipment, MountedIn, BaseMounts, Emulated
    <3>3. Relies(t4, kind, e)
      <4>1. \/ Reads(x3, Relies(t4, "spare", Native), kind, e)
            \/ Relies(t4, kind, e)
        BY <2>7, <3>2 DEF Leads, MayLead
      <4> QED  BY <1>1, <3>1, <3>2, <4>1, Distinct
               DEF Reads, Sets, Upsets, Equipment, MountedIn, BaseMounts, Emulated
    <3>4. Relies(t5, kind, e)
      <4>1. \/ Reads(x4, Relies(t5, "spare", Native), kind, e)
            \/ Relies(t5, kind, e)
        BY <2>6, <3>3 DEF Leads, MayLead
      <4> QED  BY <1>1, <3>1, <3>2, <3>3, <4>1, Distinct
               DEF Reads, Sets, Upsets, Equipment, MountedIn, BaseMounts, Emulated
    <3>5. Relies(t6, kind, e)
      <4>1. \/ Reads(x5, Relies(t6, "spare", Native), kind, e)
            \/ Relies(t6, kind, e)
        BY <2>5, <3>4 DEF Leads, MayLead
      <4> QED  BY <1>1, <3>1, <3>2, <3>3, <3>4, <4>1, Distinct
               DEF Reads, Sets, Upsets, Equipment, MountedIn, BaseMounts, Emulated
    <3>6. Relies(t7, kind, e)
      <4>1. \/ Reads(x6, Relies(t7, "spare", Native), kind, e)
            \/ Relies(t7, kind, e)
        BY <2>4, <3>5 DEF Leads, MayLead
      <4> QED  BY <1>1, <3>1, <3>2, <3>3, <3>4, <3>5, <4>1, Distinct
               DEF Reads, Sets, Upsets, Equipment, MountedIn, BaseMounts, Emulated
    <3>7. Relies(t8, kind, e)
      <4>1. \/ Reads(x7, Relies(t8, "spare", Native), kind, e)
            \/ Relies(t8, kind, e)
        BY <2>3, <3>6 DEF Leads, MayLead
      <4> QED  BY <1>1, <3>1, <3>2, <3>3, <3>4, <3>5, <3>6, <4>1, Distinct
               DEF Reads, Sets, Upsets, Equipment, MountedIn, BaseMounts, Emulated
    <3>8. Relies(t9, kind, e) /\ ~Sets(x8, kind, e)
      <4>1. \/ Reads(x8, Relies(t9, "spare", Native), kind, e)
            \/ Relies(t9, kind, e) /\ ~Sets(x8, kind, e)
        BY <2>2, <3>7 DEF Leads, MayLead
      <4> QED  BY <1>1, <3>1, <3>2, <3>3, <3>4, <3>5, <3>6, <3>7, <4>1, Distinct
               DEF Reads, Sets, Upsets, Equipment, MountedIn, BaseMounts, Emulated
    <3>9. Relies(t, kind, e)
      <4>1. \/ Reads(x9, Relies(t, "spare", Native), kind, e)
            \/ Relies(t, kind, e)
        BY <2>1, <3>8 DEF Leads, MayLead
      <4> QED  BY <1>1, <3>1, <3>2, <3>3, <3>4, <3>5, <3>6, <3>7, <3>8, <4>1, Distinct
               DEF Reads, Sets, Upsets, Equipment, MountedIn, BaseMounts, Emulated
    <3>10. ~Sets(y, kind, e)
      BY <1>1, <3>1, <3>2, <3>3, <3>4, <3>5, <3>6, <3>7, <3>8, <3>9, Distinct
         DEF Spared, Leads, MayLead, Reads, Sets, Upsets, Equipment, MountedIn, BaseMounts, Emulated
    <3> QED  BY <3>9, <3>10
  <2> QED  BY <2>12, <2>13
<1>9. Does(u, y)
  BY <1>7, <1>8 DEF Does
<1> QED  BY <1>9 DEF u, y

LEMMA BuildChroots ==
    ASSUME NEW pkg \in Builds
    PROVE  HostChroot(pkg.cross) \in {Native, Buildroot}
        /\ BuildChroot(pkg.cross) \in {Native, Buildroot}
  BY DEF HostChroot, BuildChroot

LEMMA BuildDoes ==
    ASSUME NEW pkg \in Builds, NEW before, NEW strict \in BOOLEAN, NEW c \in Chroots
    PROVE  Does(BuildSteps(pkg, before, strict) \o <<Step("packages", c)>>, Step("packages", c))
<1> DEFINE x1 == Step("packages", Native)
           s1 == AbuildSteps(pkg, before, strict)
           x2 == Step("zap", Native)
           b2 == strict
           r2 == ZapBuildrootsSteps
           s2 == When(b2, r2)
           x3 == Step("packages", c)
           s3 == <<x3>>
           p2 == Then(s1, s2)
           p3 == Then(p2, s3)
           y == Step("packages", c)
           u == BuildSteps(pkg, before, strict) \o <<Step("packages", c)>>
<1>1. /\ x1.op = "packages" /\ x1.chroot = Native
      /\ x2.op = "zap" /\ x2.chroot = Native
      /\ x3.op = "packages" /\ x3.chroot = c
      /\ y.op = "packages" /\ y.chroot = c
  BY StepFacts
<1>2. x3 \in StepType
  BY ChrootsAreThree, StepTyped DEF Ops
<1>3. Does(s1, x1) /\ b2 \in BOOLEAN /\ (b2 => Does(r2, x2)) /\ Does(s3, x3)
  <2>1. Does(s3, x3)
    BY <1>2, DoesItself
  <2>2. Does(s1, x1)
    BY BuildChroots, AbuildDoes
  <2>3. b2 \in BOOLEAN /\ (b2 => Does(r2, x2))
    BY ZapDoes
  <2> QED  BY <2>1, <2>2, <2>3
<1>4. u = p3
  BY DEF BuildSteps, Then
<1>5. p2 = Then(s1, s2) /\ p3 = Then(p2, s3)
  OBVIOUS
<1> HIDE DEF x1, x2, x3, s1, s3, b2, r2, p2, p3, y, u
<1>6. s1 \in Seq(StepType) /\ s2 \in Seq(StepType) /\ s3 \in Seq(StepType)
  BY <1>3, WhenTyped DEF Does
<1> HIDE DEF s2
<1>7. p2 \in Seq(StepType) /\ p3 \in Seq(StepType) /\ u \in Seq(StepType)
  BY <1>4, <1>5, <1>6, ThenTyped
<1>8. ASSUME NEW t \in Seq(StepType), Spared(y, t)
      PROVE  Leads(y, t, Then(u, t))
  <2> DEFINE t3 == Then(s3, t)
             t2 == Then(s2, t3)
             t1 == Then(s1, t2)
  <2>1. Leads(x3, t, t3)
    <3>1. Spared(x3, t)
      BY <1>1, <1>8, Distinct
         DEF Spared, Leads, MayLead, Reads, Sets, Upsets, Equipment, MountedIn, BaseMounts, Emulated
    <3> QED  BY <1>3, <3>1, Put
  <2>2. MayLead(x2, t3, t2)
    <3>1. Spared(x2, t3)
      BY <1>1, <1>8, <2>1, Distinct
         DEF Spared, Leads, MayLead, Reads, Sets, Upsets, Equipment, MountedIn, BaseMounts, Emulated
    <3> QED  BY <1>3, <3>1, PutWhen DEF s2
  <2>3. Leads(x1, t2, t1)
    <3>1. Spared(x1, t2)
      BY <1>1, <1>8, <2>1, <2>2, Distinct
         DEF Spared, Leads, MayLead, Reads, Sets, Upsets, Equipment, MountedIn, BaseMounts, Emulated
    <3> QED  BY <1>3, <3>1, Put
  <2>4. t1 \in Seq(StepType) /\ t2 \in Seq(StepType) /\ t3 \in Seq(StepType)
    BY <2>1, <2>2, <2>3 DEF Leads, MayLead
  <2>5. t1 = Then(s1, t2) /\ t2 = Then(s2, t3) /\ t3 = Then(s3, t)
    OBVIOUS
  <2> HIDE DEF t1, t2, t3
  <2>6. Then(u, t) = t1
    <3>1. Then(p3, t) = Then(p2, t3)
      BY <1>6, <1>7, <1>5, <2>4, <2>5, Regrouped
    <3>2. Then(p2, t3) = Then(s1, t2)
      BY <1>6, <1>7, <1>5, <2>4, <2>5, Regrouped
    <3> QED  BY <1>4, <2>5, <3>1, <3>2
  <2>7. Leads(y, t, t1)
    <3> SUFFICES ASSUME NEW kind, NEW e, Relies(t1, kind, e),
                        ~Reads(y, Relies(t, "spare", Native), kind, e)
                 PROVE  Relies(t, kind, e) /\ ~Sets(y, kind, e)
      BY <2>3 DEF Leads, MayLead
    <3>1. Relies(t2, kind, e) /\ ~Sets(x1, kind, e)
      BY <1>1, <2>1, <2>2, <2>3, Distinct
         DEF Spared, Leads, MayLead, Reads, Sets, Upsets, Equipment, MountedIn, BaseMounts, Emulated
    <3>2. Relies(t3, kind, e)
      BY <1>1, <2>1, <2>2, <2>3, <3>1, Distinct
         DEF Spared, Leads, MayLead, Reads, Sets, Upsets, Equipment, MountedIn, BaseMounts, Emulated
    <3>3. Relies(t, kind, e) /\ ~Sets(x3, kind, e)
      BY <1>1, <2>1, <2>2, <2>3, <3>1, <3>2, Distinct
         DEF Spared, Leads, MayLead, Reads, Sets, Upsets, Equipment, MountedIn, BaseMounts, Emulated
    <3>4. ~Sets(y, kind, e)
      BY <1>1, <3>1, <3>2, <3>3, Distinct
         DEF Spared, Leads, MayLead, Reads, Sets, Upsets, Equipment, MountedIn, BaseMounts, Emulated
    <3> QED  BY <3>3, <3>4
  <2> QED  BY <2>6, <2>7
<1>9. Does(u, y)
  BY <1>7, <1>8 DEF Does
<1> QED  BY <1>9 DEF u, y

LEMMA InstallBuildDoes ==
    ASSUME NEW pkg \in Builds, NEW before, NEW c \in Chroots
    PROVE  Does(BuildSteps(pkg, before, TRUE) \o <<Step("install", c)>>, Step("install_build", c))
<1> DEFINE x1 == Step("packages", Native)
           s1 == AbuildSteps(pkg, before, TRUE)
           x2 == Step("zap", Native)
           s2 == ZapBuildrootsSteps
           x3 == Step("install", c)
           s3 == <<x3>>
           p2 == Then(s1, s2)
           p3 == Then(p2, s3)
           y == Step("install_build", c)
           u == BuildSteps(pkg, before, TRUE) \o <<Step("install", c)>>
<1>1. /\ x1.op = "packages" /\ x1.chroot = Native
      /\ x2.op = "zap" /\ x2.chroot = Native
      /\ x3.op = "install" /\ x3.chroot = c
      /\ y.op = "install_build" /\ y.chroot = c
  BY StepFacts
<1>2. x3 \in StepType
  BY ChrootsAreThree, StepTyped DEF Ops
<1>3. Does(s1, x1) /\ Does(s2, x2) /\ Does(s3, x3)
  <2>1. Does(s3, x3)
    BY <1>2, DoesItself
  <2>2. Does(s1, x1)
    BY BuildChroots, AbuildDoes
  <2>3. Does(s2, x2)
    BY ZapDoes
  <2> QED  BY <2>1, <2>2, <2>3
<1>4. u = p3
  BY DEF BuildSteps, When, Then
<1>5. p2 = Then(s1, s2) /\ p3 = Then(p2, s3)
  OBVIOUS
<1> HIDE DEF x1, x2, x3, s1, s2, s3, p2, p3, y, u
<1>6. s1 \in Seq(StepType) /\ s2 \in Seq(StepType) /\ s3 \in Seq(StepType)
  BY <1>3 DEF Does
<1>7. p2 \in Seq(StepType) /\ p3 \in Seq(StepType) /\ u \in Seq(StepType)
  BY <1>4, <1>5, <1>6, ThenTyped
<1>8. ASSUME NEW t \in Seq(StepType), Spared(y, t)
      PROVE  Leads(y, t, Then(u, t))
  <2> DEFINE t3 == Then(s3, t)
             t2 == Then(s2, t3)
             t1 == Then(s1, t2)
  <2>1. Leads(x3, t, t3)
    <3>1. Spared(x3, t)
      BY <1>1, <1>8, Distinct
         DEF Spared, Leads, MayLead, Reads, Sets, Upsets, Equipment, MountedIn, BaseMounts, Emulated
    <3> QED  BY <1>3, <3>1, Put
  <2>2. Leads(x2, t3, t2)
    <3>1. Spared(x2, t3)
      BY <1>1, <1>8, <2>1, Distinct
         DEF Spared, Leads, MayLead, Reads, Sets, Upsets, Equipment, MountedIn, BaseMounts, Emulated
    <3> QED  BY <1>3, <3>1, Put
  <2>3. Leads(x1, t2, t1)
    <3>1. Spared(x1, t2)
      BY <1>1, <1>8, <2>1, <2>2, Distinct
         DEF Spared, Leads, MayLead, Reads, Sets, Upsets, Equipment, MountedIn, BaseMounts, Emulated
    <3> QED  BY <1>3, <3>1, Put
  <2>4. t1 \in Seq(StepType) /\ t2 \in Seq(StepType) /\ t3 \in Seq(StepType)
    BY <2>1, <2>2, <2>3 DEF Leads, MayLead
  <2>5. t1 = Then(s1, t2) /\ t2 = Then(s2, t3) /\ t3 = Then(s3, t)
    OBVIOUS
  <2> HIDE DEF t1, t2, t3
  <2>6. Then(u, t) = t1
    <3>1. Then(p3, t) = Then(p2, t3)
      BY <1>6, <1>7, <1>5, <2>4, <2>5, Regrouped
    <3>2. Then(p2, t3) = Then(s1, t2)
      BY <1>6, <1>7, <1>5, <2>4, <2>5, Regrouped
    <3> QED  BY <1>4, <2>5, <3>1, <3>2
  <2>7. Leads(y, t, t1)
    <3> SUFFICES ASSUME NEW kind, NEW e, Relies(t1, kind, e),
                        ~Reads(y, Relies(t, "spare", Native), kind, e)
                 PROVE  Relies(t, kind, e) /\ ~Sets(y, kind, e)
      BY <2>3 DEF Leads, MayLead
    <3>1. Relies(t2, kind, e) /\ ~Sets(x1, kind, e)
      BY <1>1, <2>1, <2>2, <2>3, Distinct
         DEF Spared, Leads, MayLead, Reads, Sets, Upsets, Equipment, MountedIn, BaseMounts, Emulated
    <3>2. Relies(t3, kind, e) /\ ~Sets(x2, kind, e)
      BY <1>1, <2>1, <2>2, <2>3, <3>1, Distinct
         DEF Spared, Leads, MayLead, Reads, Sets, Upsets, Equipment, MountedIn, BaseMounts, Emulated
    <3>3. Relies(t, kind, e) /\ ~Sets(x3, kind, e)
      BY <1>1, <2>1, <2>2, <2>3, <3>1, <3>2, Distinct
         DEF Spared, Leads, MayLead, Reads, Sets, Upsets, Equipment, MountedIn, BaseMounts, Emulated
    <3>4. ~Sets(y, kind, e)
      BY <1>1, <3>1, <3>2, <3>3, Distinct
         DEF Spared, Leads, MayLead, Reads, Sets, Upsets, Equipment, MountedIn, BaseMounts, Emulated
    <3> QED  BY <3>3, <3>4
  <2> QED  BY <2>6, <2>7
<1>9. Does(u, y)
  BY <1>7, <1>8 DEF Does
<1> QED  BY <1>9 DEF u, y

LEMMA PartitionDoes ==
    Does(<<Step("create_image", Native), Step("partition", Native)>>, Step("partition", Native))
<1> DEFINE x1 == Step("create_image", Native)
           s1 == <<x1>>
           x2 == Step("partition", Native)
           s2 == <<x2>>
           u == <<x1, x2>>
<1>1. x1.op = "create_image" /\ x2.op = "partition"
  BY StepFacts
<1>2. x1 \in StepType /\ x2 \in StepType
  BY ChrootsAreThree, StepTyped DEF Ops
<1>3. Does(s1, x1) /\ Does(s2, x2)
  BY <1>2, DoesItself
<1>4. u = Then(s1, s2)
  BY <1>2, TwoApart
<1> HIDE DEF x1, x2, s1, s2, u
<1>5. s1 \in Seq(StepType) /\ s2 \in Seq(StepType)
  BY <1>3 DEF Does
<1>6. u \in Seq(StepType)
  BY <1>4, <1>5, ThenTyped
<1>7. ASSUME NEW t \in Seq(StepType), Spared(x2, t)
      PROVE  Leads(x2, t, Then(u, t))
  <2> DEFINE t2 == Then(s2, t)
             t1 == Then(s1, t2)
  <2>1. Leads(x2, t, t2)
    BY <1>3, <1>7, Put
  <2>2. Spared(x1, t2)
    BY <1>1, <2>1 DEF Spared, Leads, Upsets
  <2>3. Leads(x1, t2, t1)
    BY <1>3, <2>2, Put
  <2>4. Then(u, t) = t1
    BY <1>4, <1>5, ThenAssociates
  <2> HIDE DEF t1, t2
  <2>5. \A kind, e, need : ~Reads(x1, need, kind, e)
    BY <1>1 DEF Reads
  <2>6. Leads(x2, t, t1)
    BY <2>1, <2>3, <2>5 DEF Leads
  <2> QED  BY <2>4, <2>6
<1>8. Does(u, x2)
  BY <1>6, <1>7 DEF Does
<1> QED  BY <1>8 DEF u, x1, x2

LEMMA SystemImageDoes == Does(SystemImageSteps, Step("system image", Native))
<1> DEFINE x1 == Step("umount_all", Rootfs)
           s1 == <<x1>>
           x0 == Step("create_image", Native)
           x2 == Step("partition", Native)
           s2 == <<x0, x2>>
           x3 == Step("mount steps", Rootfs)
           s3 == MountSteps(Rootfs)
           x4 == Step("run", Rootfs)
           s4 == <<x4>>
           x5 == Step("umount_all", Rootfs)
           s5 == <<x5>>
           x6 == Step("remove_marker", Rootfs)
           s6 == <<x6>>
           x7 == Step("bind_rootfs", Native)
           s7 == <<x7>>
           x8 == Step("copy", Native)
           s8 == <<x8>>
           x9 == Step("remove_markers", Chroots)
           s9 == <<x9>>
           x10 == Step("umount_all", Rootfs)
           s10 == <<x10>>
           x11 == Step("install_build", Native)
           s11 == <<x11>>
           g1 == <<x1, x0, x2>>
           g3 == <<x4, x5, x6, x7>>
           g4 == <<x8, x9, x10, x11>>
           p2 == Then(g1, s3)
           p3 == Then(p2, g3)
           p4 == Then(p3, g4)
           y == Step("system image", Native)
           u == SystemImageSteps
<1>1. /\ x1.op = "umount_all" /\ x1.chroot = Rootfs
      /\ x2.op = "partition" /\ x2.chroot = Native
      /\ x3.op = "mount steps" /\ x3.chroot = Rootfs
      /\ x4.op = "run" /\ x4.chroot = Rootfs
      /\ x5.op = "umount_all" /\ x5.chroot = Rootfs
      /\ x6.op = "remove_marker" /\ x6.chroot = Rootfs
      /\ x7.op = "bind_rootfs" /\ x7.chroot = Native
      /\ x8.op = "copy" /\ x8.chroot = Native
      /\ x9.op = "remove_markers" /\ x9.chroot = Chroots
      /\ x10.op = "umount_all" /\ x10.chroot = Rootfs
      /\ x11.op = "install_build" /\ x11.chroot = Native
      /\ y.op = "system image" /\ y.chroot = Native
  BY StepFacts
<1>2. /\ x0 \in StepType /\ x1 \in StepType /\ x2 \in StepType /\ x4 \in StepType /\ x5 \in StepType
      /\ x6 \in StepType /\ x7 \in StepType /\ x8 \in StepType /\ x9 \in StepType
      /\ x10 \in StepType /\ x11 \in StepType
  BY ChrootsAreThree, StepTyped DEF Ops
<1>3. /\ Does(s1, x1) /\ Does(s2, x2) /\ Does(s3, x3) /\ Does(s4, x4) /\ Does(s5, x5)
      /\ Does(s6, x6) /\ Does(s7, x7) /\ Does(s8, x8) /\ Does(s9, x9) /\ Does(s10, x10)
      /\ Does(s11, x11)
  <2>1. /\ Does(s1, x1) /\ Does(s4, x4) /\ Does(s5, x5) /\ Does(s6, x6)
        /\ Does(s7, x7) /\ Does(s8, x8) /\ Does(s9, x9) /\ Does(s10, x10)
        /\ Does(s11, x11)
    BY <1>2, DoesItself
  <2>2. Does(s2, x2) /\ Does(s3, x3)
    BY ChrootsAreThree, PartitionDoes, MountDoes
  <2> QED  BY <2>1, <2>2
<1>4. u = p4
  BY DEF SystemImageSteps, Then
<1>5. p2 = Then(g1, s3) /\ p3 = Then(p2, g3) /\ p4 = Then(p3, g4)
  OBVIOUS
<1>6. /\ g1 = Then(s1, s2) /\ g3 = Then(Then(Then(s4, s5), s6), s7)
      /\ g4 = Then(Then(Then(s8, s9), s10), s11)
  <2>1. g3 = Then(Then(Then(s4, s5), s6), s7) /\ g4 = Then(Then(Then(s8, s9), s10), s11)
    BY <1>2, FourApart
  <2>2. g1 = Then(Then(s1, <<x0>>), <<x2>>) /\ s2 = Then(<<x0>>, <<x2>>)
    BY <1>2, ThreeApart, TwoApart
  <2>3. s1 \in Seq(StepType) /\ <<x0>> \in Seq(StepType) /\ <<x2>> \in Seq(StepType)
    BY <1>2
  <2> HIDE DEF x0, x1, x2, s1, s2, g1
  <2>4. g1 = Then(s1, s2)
    BY <2>2, <2>3, ThenAssociates
  <2> QED  BY <2>1, <2>4
<1> HIDE DEF x0, x1, x2, x3, x4, x5, x6, x7, x8, x9, x10, x11, s1, s2, s3, s4, s5, s6,
             s7, s8, s9, s10, s11, g1, g3, g4, p2, p3, p4, y, u
<1>7. /\ s1 \in Seq(StepType) /\ s2 \in Seq(StepType) /\ s3 \in Seq(StepType)
      /\ s4 \in Seq(StepType) /\ s5 \in Seq(StepType) /\ s6 \in Seq(StepType)
      /\ s7 \in Seq(StepType) /\ s8 \in Seq(StepType) /\ s9 \in Seq(StepType)
      /\ s10 \in Seq(StepType) /\ s11 \in Seq(StepType)
  BY <1>3 DEF Does
<1>8. /\ g1 \in Seq(StepType) /\ g3 \in Seq(StepType) /\ g4 \in Seq(StepType)
      /\ p2 \in Seq(StepType) /\ p3 \in Seq(StepType) /\ p4 \in Seq(StepType)
      /\ u \in Seq(StepType)
  <2>1. g1 \in Seq(StepType) /\ g3 \in Seq(StepType) /\ g4 \in Seq(StepType)
    BY <1>6, <1>7, ThenTyped
  <2> QED  BY <1>4, <1>5, <1>7, <2>1, ThenTyped
<1>9. ASSUME NEW t \in Seq(StepType), Spared(y, t)
      PROVE  Leads(y, t, Then(u, t))
  <2> DEFINE t11 == Then(s11, t)
             t10 == Then(s10, t11)
             t9 == Then(s9, t10)
             t8 == Then(s8, t9)
             t7 == Then(s7, t8)
             t6 == Then(s6, t7)
             t5 == Then(s5, t6)
             t4 == Then(s4, t5)
             t3 == Then(s3, t4)
             t2 == Then(s2, t3)
             t1 == Then(s1, t2)
  <2>1. Leads(x11, t, t11)
    <3>1. Spared(x11, t)
      BY <1>1, <1>9, Distinct
         DEF Spared, Leads, MayLead, Reads, Sets, Upsets, Equipment, MountedIn, BaseMounts, Emulated
    <3> QED  BY <1>3, <3>1, Put
  <2>2. Leads(x10, t11, t10)
    <3>1. Spared(x10, t11)
      <4> SUFFICES ASSUME NEW kind, NEW e, Relies(t11, kind, e), Upsets(x10, kind, e)
                   PROVE  FALSE
        BY <2>1, <1>9 DEF Spared, Leads, MayLead
      <4>1. /\ \/ ~Relies(t11, kind, e) \/ Reads(x11, Relies(t, "spare", Native), kind, e)
               \/ Relies(t, kind, e) /\ ~Sets(x11, kind, e)
        BY <2>1 DEF Leads, MayLead
      <4>2. Relies(t, kind, e) => ~Upsets(y, kind, e)
        BY <1>9 DEF Spared
      <4> QED  BY <1>1, <4>1, <4>2, Distinct
               DEF Reads, Sets, Upsets, Equipment, MountedIn, BaseMounts, Emulated
    <3> QED  BY <1>3, <3>1, Put
  <2>3. Leads(x9, t10, t9)
    <3>1. Spared(x9, t10)
      <4> SUFFICES ASSUME NEW kind, NEW e, Relies(t10, kind, e), Upsets(x9, kind, e)
                   PROVE  FALSE
        BY <2>2, <1>9 DEF Spared, Leads, MayLead
      <4>1. /\ \/ ~Relies(t10, kind, e) \/ Reads(x10, Relies(t11, "spare", Native), kind, e)
               \/ Relies(t11, kind, e) /\ ~Sets(x10, kind, e)
            /\ \/ ~Relies(t11, kind, e) \/ Reads(x11, Relies(t, "spare", Native), kind, e)
               \/ Relies(t, kind, e) /\ ~Sets(x11, kind, e)
        BY <2>1, <2>2 DEF Leads, MayLead
      <4>2. Relies(t, kind, e) => ~Upsets(y, kind, e)
        BY <1>9 DEF Spared
      <4> QED  BY <1>1, <4>1, <4>2, Distinct
               DEF Reads, Sets, Upsets, Equipment, MountedIn, BaseMounts, Emulated
    <3> QED  BY <1>3, <3>1, Put
  <2>4. Leads(x8, t9, t8)
    <3>1. Spared(x8, t9)
      BY <1>1, <1>9, <2>1, <2>2, <2>3, Distinct
         DEF Spared, Leads, MayLead, Reads, Sets, Upsets, Equipment, MountedIn, BaseMounts, Emulated
    <3> QED  BY <1>3, <3>1, Put
  <2>5. Leads(x7, t8, t7)
    <3>1. Spared(x7, t8)
      BY <1>1, <1>9, <2>1, <2>2, <2>3, <2>4, Distinct
         DEF Spared, Leads, MayLead, Reads, Sets, Upsets, Equipment, MountedIn, BaseMounts, Emulated
    <3> QED  BY <1>3, <3>1, Put
  <2>6. Leads(x6, t7, t6)
    <3>1. Spared(x6, t7)
      <4> SUFFICES ASSUME NEW kind, NEW e, Relies(t7, kind, e), Upsets(x6, kind, e)
                   PROVE  FALSE
        BY <2>5, <1>9 DEF Spared, Leads, MayLead
      <4>1. /\ \/ ~Relies(t7, kind, e) \/ Reads(x7, Relies(t8, "spare", Native), kind, e)
               \/ Relies(t8, kind, e) /\ ~Sets(x7, kind, e)
            /\ \/ ~Relies(t8, kind, e) \/ Reads(x8, Relies(t9, "spare", Native), kind, e)
               \/ Relies(t9, kind, e) /\ ~Sets(x8, kind, e)
            /\ \/ ~Relies(t9, kind, e) \/ Reads(x9, Relies(t10, "spare", Native), kind, e)
               \/ Relies(t10, kind, e) /\ ~Sets(x9, kind, e)
            /\ \/ ~Relies(t10, kind, e) \/ Reads(x10, Relies(t11, "spare", Native), kind, e)
               \/ Relies(t11, kind, e) /\ ~Sets(x10, kind, e)
            /\ \/ ~Relies(t11, kind, e) \/ Reads(x11, Relies(t, "spare", Native), kind, e)
               \/ Relies(t, kind, e) /\ ~Sets(x11, kind, e)
        BY <2>1, <2>2, <2>3, <2>4, <2>5 DEF Leads, MayLead
      <4>2. Relies(t, kind, e) => ~Upsets(y, kind, e)
        BY <1>9 DEF Spared
      <4> QED  BY <1>1, <4>1, <4>2, Distinct
               DEF Reads, Sets, Upsets, Equipment, MountedIn, BaseMounts, Emulated
    <3> QED  BY <1>3, <3>1, Put
  <2>7. Leads(x5, t6, t5)
    <3>1. Spared(x5, t6)
      <4> SUFFICES ASSUME NEW kind, NEW e, Relies(t6, kind, e), Upsets(x5, kind, e)
                   PROVE  FALSE
        BY <2>6, <1>9 DEF Spared, Leads, MayLead
      <4>1. /\ \/ ~Relies(t6, kind, e) \/ Reads(x6, Relies(t7, "spare", Native), kind, e)
               \/ Relies(t7, kind, e) /\ ~Sets(x6, kind, e)
            /\ \/ ~Relies(t7, kind, e) \/ Reads(x7, Relies(t8, "spare", Native), kind, e)
               \/ Relies(t8, kind, e) /\ ~Sets(x7, kind, e)
            /\ \/ ~Relies(t8, kind, e) \/ Reads(x8, Relies(t9, "spare", Native), kind, e)
               \/ Relies(t9, kind, e) /\ ~Sets(x8, kind, e)
            /\ \/ ~Relies(t9, kind, e) \/ Reads(x9, Relies(t10, "spare", Native), kind, e)
               \/ Relies(t10, kind, e) /\ ~Sets(x9, kind, e)
            /\ \/ ~Relies(t10, kind, e) \/ Reads(x10, Relies(t11, "spare", Native), kind, e)
               \/ Relies(t11, kind, e) /\ ~Sets(x10, kind, e)
            /\ \/ ~Relies(t11, kind, e) \/ Reads(x11, Relies(t, "spare", Native), kind, e)
               \/ Relies(t, kind, e) /\ ~Sets(x11, kind, e)
        BY <2>1, <2>2, <2>3, <2>4, <2>5, <2>6 DEF Leads, MayLead
      <4>2. Relies(t, kind, e) => ~Upsets(y, kind, e)
        BY <1>9 DEF Spared
      <4> QED  BY <1>1, <4>1, <4>2, Distinct
               DEF Reads, Sets, Upsets, Equipment, MountedIn, BaseMounts, Emulated
    <3> QED  BY <1>3, <3>1, Put
  <2>8. Leads(x4, t5, t4)
    <3>1. Spared(x4, t5)
      BY <1>1, <1>9, <2>1, <2>2, <2>3, <2>4, <2>5, <2>6, <2>7, Distinct
         DEF Spared, Leads, MayLead, Reads, Sets, Upsets, Equipment, MountedIn, BaseMounts, Emulated
    <3> QED  BY <1>3, <3>1, Put
  <2>9. Leads(x3, t4, t3)
    <3>1. Spared(x3, t4)
      <4> SUFFICES ASSUME NEW kind, NEW e, Relies(t4, kind, e), Upsets(x3, kind, e)
                   PROVE  FALSE
        BY <2>8, <1>9 DEF Spared, Leads, MayLead
      <4>1. /\ \/ ~Relies(t4, kind, e) \/ Reads(x4, Relies(t5, "spare", Native), kind, e)
               \/ Relies(t5, kind, e) /\ ~Sets(x4, kind, e)
            /\ \/ ~Relies(t5, kind, e) \/ Reads(x5, Relies(t6, "spare", Native), kind, e)
               \/ Relies(t6, kind, e) /\ ~Sets(x5, kind, e)
            /\ \/ ~Relies(t6, kind, e) \/ Reads(x6, Relies(t7, "spare", Native), kind, e)
               \/ Relies(t7, kind, e) /\ ~Sets(x6, kind, e)
            /\ \/ ~Relies(t7, kind, e) \/ Reads(x7, Relies(t8, "spare", Native), kind, e)
               \/ Relies(t8, kind, e) /\ ~Sets(x7, kind, e)
            /\ \/ ~Relies(t8, kind, e) \/ Reads(x8, Relies(t9, "spare", Native), kind, e)
               \/ Relies(t9, kind, e) /\ ~Sets(x8, kind, e)
            /\ \/ ~Relies(t9, kind, e) \/ Reads(x9, Relies(t10, "spare", Native), kind, e)
               \/ Relies(t10, kind, e) /\ ~Sets(x9, kind, e)
            /\ \/ ~Relies(t10, kind, e) \/ Reads(x10, Relies(t11, "spare", Native), kind, e)
               \/ Relies(t11, kind, e) /\ ~Sets(x10, kind, e)
            /\ \/ ~Relies(t11, kind, e) \/ Reads(x11, Relies(t, "spare", Native), kind, e)
               \/ Relies(t, kind, e) /\ ~Sets(x11, kind, e)
        BY <2>1, <2>2, <2>3, <2>4, <2>5, <2>6, <2>7, <2>8 DEF Leads, MayLead
      <4>2. Relies(t, kind, e) => ~Upsets(y, kind, e)
        BY <1>9 DEF Spared
      <4> QED  BY <1>1, <4>1, <4>2, Distinct
               DEF Reads, Sets, Upsets, Equipment, MountedIn, BaseMounts, Emulated
    <3> QED  BY <1>3, <3>1, Put
  <2>10. Leads(x2, t3, t2)
    <3>1. Spared(x2, t3)
      BY <1>1, <1>9, <2>1, <2>2, <2>3, <2>4, <2>5, <2>6, <2>7, <2>8, <2>9, Distinct
         DEF Spared, Leads, MayLead, Reads, Sets, Upsets, Equipment, MountedIn, BaseMounts, Emulated
    <3> QED  BY <1>3, <3>1, Put
  <2>11. Leads(x1, t2, t1)
    <3>1. Spared(x1, t2)
      <4> SUFFICES ASSUME NEW kind, NEW e, Relies(t2, kind, e), Upsets(x1, kind, e)
                   PROVE  FALSE
        BY <2>10, <1>9 DEF Spared, Leads, MayLead
      <4>1. /\ \/ ~Relies(t2, kind, e) \/ Reads(x2, Relies(t3, "spare", Native), kind, e)
               \/ Relies(t3, kind, e) /\ ~Sets(x2, kind, e)
            /\ \/ ~Relies(t3, kind, e) \/ Reads(x3, Relies(t4, "spare", Native), kind, e)
               \/ Relies(t4, kind, e) /\ ~Sets(x3, kind, e)
            /\ \/ ~Relies(t4, kind, e) \/ Reads(x4, Relies(t5, "spare", Native), kind, e)
               \/ Relies(t5, kind, e) /\ ~Sets(x4, kind, e)
            /\ \/ ~Relies(t5, kind, e) \/ Reads(x5, Relies(t6, "spare", Native), kind, e)
               \/ Relies(t6, kind, e) /\ ~Sets(x5, kind, e)
            /\ \/ ~Relies(t6, kind, e) \/ Reads(x6, Relies(t7, "spare", Native), kind, e)
               \/ Relies(t7, kind, e) /\ ~Sets(x6, kind, e)
            /\ \/ ~Relies(t7, kind, e) \/ Reads(x7, Relies(t8, "spare", Native), kind, e)
               \/ Relies(t8, kind, e) /\ ~Sets(x7, kind, e)
            /\ \/ ~Relies(t8, kind, e) \/ Reads(x8, Relies(t9, "spare", Native), kind, e)
               \/ Relies(t9, kind, e) /\ ~Sets(x8, kind, e)
            /\ \/ ~Relies(t9, kind, e) \/ Reads(x9, Relies(t10, "spare", Native), kind, e)
               \/ Relies(t10, kind, e) /\ ~Sets(x9, kind, e)
            /\ \/ ~Relies(t10, kind, e) \/ Reads(x10, Relies(t11, "spare", Native), kind, e)
               \/ Relies(t11, kind, e) /\ ~Sets(x10, kind, e)
            /\ \/ ~Relies(t11, kind, e) \/ Reads(x11, Relies(t, "spare", Native), kind, e)
               \/ Relies(t, kind, e) /\ ~Sets(x11, kind, e)
        BY <2>1, <2>2, <2>3, <2>4, <2>5, <2>6, <2>7, <2>8, <2>9, <2>10 DEF Leads, MayLead
      <4>2. Relies(t, kind, e) => ~Upsets(y, kind, e)
        BY <1>9 DEF Spared
      <4>3. e = Rootfs /\ kind \in {"dev", "keys", "packages", "qemu", "open", "sound", "fit"}
        BY <1>1, Distinct DEF Upsets, MountedIn, BaseMounts
      <4>4. ~Relies(t, kind, e) /\ ~Reads(x11, Relies(t, "spare", Native), kind, e)
        BY <1>1, <4>2, <4>3, Distinct DEF Reads, Upsets
      <4>5. \A need : /\ ~Reads(x10, need, kind, e) /\ ~Reads(x9, need, kind, e)
                       /\ ~Reads(x8, need, kind, e) /\ ~Reads(x7, need, kind, e)
                       /\ ~Reads(x6, need, kind, e) /\ ~Reads(x5, need, kind, e)
        BY <1>1, <4>3 DEF Reads
      <4>6. ~Relies(t5, kind, e)
        BY <4>1, <4>4, <4>5
      <4>7. \/ ~Reads(x4, Relies(t5, "spare", Native), kind, e)
            \/ Sets(x3, kind, e)
        BY <1>1, <4>3, Distinct DEF Reads, Sets, Equipment, MountedIn, BaseMounts, Emulated
      <4>8. /\ ~Reads(x2, Relies(t3, "spare", Native), kind, e)
            /\ ~Reads(x3, Relies(t4, "spare", Native), kind, e)
        BY <1>1, <4>3, Distinct DEF Reads
      <4>9. ~Relies(t3, kind, e)
        BY <4>1, <4>6, <4>7, <4>8
      <4> QED  BY <4>1, <4>8, <4>9
    <3> QED  BY <1>3, <3>1, Put
  <2>12. /\ t1 \in Seq(StepType) /\ t2 \in Seq(StepType) /\ t3 \in Seq(StepType)
        /\ t4 \in Seq(StepType) /\ t5 \in Seq(StepType) /\ t6 \in Seq(StepType)
        /\ t7 \in Seq(StepType) /\ t8 \in Seq(StepType) /\ t9 \in Seq(StepType)
        /\ t10 \in Seq(StepType) /\ t11 \in Seq(StepType)
    BY <2>1, <2>2, <2>3, <2>4, <2>5, <2>6, <2>7, <2>8, <2>9, <2>10, <2>11 DEF Leads, MayLead
  <2>13. /\ t1 = Then(s1, t2) /\ t2 = Then(s2, t3) /\ t3 = Then(s3, t4)
        /\ t4 = Then(s4, t5) /\ t5 = Then(s5, t6) /\ t6 = Then(s6, t7)
        /\ t7 = Then(s7, t8) /\ t8 = Then(s8, t9) /\ t9 = Then(s9, t10)
        /\ t10 = Then(s10, t11) /\ t11 = Then(s11, t)
    OBVIOUS
  <2> HIDE DEF t1, t2, t3, t4, t5, t6, t7, t8, t9, t10, t11
  <2>14. Then(u, t) = t1
    <3>1. Then(g4, t) = t8
      <4>1. /\ s8 \in Seq(StepType) /\ s9 \in Seq(StepType) /\ s10 \in Seq(StepType)
            /\ s11 \in Seq(StepType) /\ t \in Seq(StepType)
        BY <1>7, <1>9, <2>12
      <4>2. /\ g4 = Then(Then(Then(s8, s9), s10), s11) /\ t8 = Then(s8, t9)
            /\ t9 = Then(s9, t10) /\ t10 = Then(s10, t11) /\ t11 = Then(s11, t)
        BY <1>6, <2>13
      <4> QED  BY <4>1, <4>2, FourJoined
    <3>2. Then(p4, t) = Then(p3, t8)
      <4>1. p3 \in Seq(StepType) /\ g4 \in Seq(StepType) /\ t \in Seq(StepType)
        BY <1>7, <1>8, <1>9, <2>12
      <4>2. p4 = Then(p3, g4) /\ Then(g4, t) = t8
        BY <1>5, <3>1
      <4> QED  BY <4>1, <4>2, Regrouped
    <3>3. Then(g3, t8) = t4
      <4>1. /\ s4 \in Seq(StepType) /\ s5 \in Seq(StepType) /\ s6 \in Seq(StepType)
            /\ s7 \in Seq(StepType) /\ t8 \in Seq(StepType)
        BY <1>7, <1>9, <2>12
      <4>2. /\ g3 = Then(Then(Then(s4, s5), s6), s7) /\ t4 = Then(s4, t5)
            /\ t5 = Then(s5, t6) /\ t6 = Then(s6, t7) /\ t7 = Then(s7, t8)
        BY <1>6, <2>13
      <4> QED  BY <4>1, <4>2, FourJoined
    <3>4. Then(p3, t8) = Then(p2, t4)
      <4>1. p2 \in Seq(StepType) /\ g3 \in Seq(StepType) /\ t8 \in Seq(StepType)
        BY <1>7, <1>8, <1>9, <2>12
      <4>2. p3 = Then(p2, g3) /\ Then(g3, t8) = t4
        BY <1>5, <3>3
      <4> QED  BY <4>1, <4>2, Regrouped
    <3>5. Then(p2, t4) = Then(g1, t3)
      <4>1. g1 \in Seq(StepType) /\ s3 \in Seq(StepType) /\ t4 \in Seq(StepType)
        BY <1>7, <1>8, <1>9, <2>12
      <4>2. p2 = Then(g1, s3) /\ Then(s3, t4) = t3
        BY <1>5, <2>13
      <4> QED  BY <4>1, <4>2, Regrouped
    <3>6. Then(g1, t3) = t1
      <4>1. s1 \in Seq(StepType) /\ s2 \in Seq(StepType) /\ t3 \in Seq(StepType)
        BY <1>7, <1>9, <2>12
      <4>2. g1 = Then(s1, s2) /\ t1 = Then(s1, t2) /\ t2 = Then(s2, t3)
        BY <1>6, <2>13
      <4> QED  BY <4>1, <4>2, TwoJoined
    <3> QED  BY <1>4, <2>13, <3>1, <3>2, <3>3, <3>4, <3>5, <3>6
  <2>15. Leads(y, t, t1)
    <3> SUFFICES ASSUME NEW kind, NEW e, Relies(t1, kind, e),
                        ~Reads(y, Relies(t, "spare", Native), kind, e)
                 PROVE  Relies(t, kind, e) /\ ~Sets(y, kind, e)
      BY <2>11 DEF Leads, MayLead
    <3>1. Relies(t2, kind, e) /\ ~Sets(x1, kind, e)
      <4>1. \/ Reads(x1, Relies(t2, "spare", Native), kind, e)
            \/ Relies(t2, kind, e) /\ ~Sets(x1, kind, e)
        BY <2>11 DEF Leads, MayLead
      <4> QED  BY <1>1, <4>1, Distinct
               DEF Reads, Sets, Upsets, Equipment, MountedIn, BaseMounts, Emulated
    <3>2. Relies(t3, kind, e) /\ ~Sets(x2, kind, e)
      <4>1. \/ Reads(x2, Relies(t3, "spare", Native), kind, e)
            \/ Relies(t3, kind, e) /\ ~Sets(x2, kind, e)
        BY <2>10, <3>1 DEF Leads, MayLead
      <4> QED  BY <1>1, <3>1, <4>1, Distinct
               DEF Reads, Sets, Upsets, Equipment, MountedIn, BaseMounts, Emulated
    <3>3. Relies(t4, kind, e) /\ ~Sets(x3, kind, e)
      <4>1. \/ Reads(x3, Relies(t4, "spare", Native), kind, e)
            \/ Relies(t4, kind, e) /\ ~Sets(x3, kind, e)
        BY <2>9, <3>2 DEF Leads, MayLead
      <4> QED  BY <1>1, <3>1, <3>2, <4>1, Distinct
               DEF Reads, Sets, Upsets, Equipment, MountedIn, BaseMounts, Emulated
    <3>4. Relies(t5, kind, e) /\ ~Sets(x4, kind, e)
      <4>1. \/ Reads(x4, Relies(t5, "spare", Native), kind, e)
            \/ Relies(t5, kind, e) /\ ~Sets(x4, kind, e)
        BY <2>8, <3>3 DEF Leads, MayLead
      <4> QED  BY <1>1, <3>1, <3>2, <3>3, <4>1, Distinct
               DEF Reads, Sets, Upsets, Equipment, MountedIn, BaseMounts, Emulated
    <3>5. Relies(t6, kind, e) /\ ~Sets(x5, kind, e)
      <4>1. \/ Reads(x5, Relies(t6, "spare", Native), kind, e)
            \/ Relies(t6, kind, e) /\ ~Sets(x5, kind, e)
        BY <2>7, <3>4 DEF Leads, MayLead
      <4> QED  BY <1>1, <3>1, <3>2, <3>3, <3>4, <4>1, Distinct
               DEF Reads, Sets, Upsets, Equipment, MountedIn, BaseMounts, Emulated
    <3>6. Relies(t7, kind, e) /\ ~Sets(x6, kind, e)
      <4>1. \/ Reads(x6, Relies(t7, "spare", Native), kind, e)
            \/ Relies(t7, kind, e) /\ ~Sets(x6, kind, e)
        BY <2>6, <3>5 DEF Leads, MayLead
      <4> QED  BY <1>1, <3>1, <3>2, <3>3, <3>4, <3>5, <4>1, Distinct
               DEF Reads, Sets, Upsets, Equipment, MountedIn, BaseMounts, Emulated
    <3>7. Relies(t8, kind, e) /\ ~Sets(x7, kind, e)
      <4>1. \/ Reads(x7, Relies(t8, "spare", Native), kind, e)
            \/ Relies(t8, kind, e) /\ ~Sets(x7, kind, e)
        BY <2>5, <3>6 DEF Leads, MayLead
      <4> QED  BY <1>1, <3>1, <3>2, <3>3, <3>4, <3>5, <3>6, <4>1, Distinct
               DEF Reads, Sets, Upsets, Equipment, MountedIn, BaseMounts, Emulated
    <3>8. Relies(t9, kind, e) /\ ~Sets(x8, kind, e)
      <4>1. \/ Reads(x8, Relies(t9, "spare", Native), kind, e)
            \/ Relies(t9, kind, e) /\ ~Sets(x8, kind, e)
        BY <2>4, <3>7 DEF Leads, MayLead
      <4> QED  BY <1>1, <3>1, <3>2, <3>3, <3>4, <3>5, <3>6, <3>7, <4>1, Distinct
               DEF Reads, Sets, Upsets, Equipment, MountedIn, BaseMounts, Emulated
    <3>9. Relies(t10, kind, e) /\ ~Sets(x9, kind, e)
      <4>1. \/ Reads(x9, Relies(t10, "spare", Native), kind, e)
            \/ Relies(t10, kind, e) /\ ~Sets(x9, kind, e)
        BY <2>3, <3>8 DEF Leads, MayLead
      <4> QED  BY <1>1, <3>1, <3>2, <3>3, <3>4, <3>5, <3>6, <3>7, <3>8, <4>1, Distinct
               DEF Reads, Sets, Upsets, Equipment, MountedIn, BaseMounts, Emulated
    <3>10. Relies(t11, kind, e) /\ ~Sets(x10, kind, e)
      <4>1. \/ Reads(x10, Relies(t11, "spare", Native), kind, e)
            \/ Relies(t11, kind, e) /\ ~Sets(x10, kind, e)
        BY <2>2, <3>9 DEF Leads, MayLead
      <4> QED  BY <1>1, <3>1, <3>2, <3>3, <3>4, <3>5, <3>6, <3>7, <3>8, <3>9, <4>1, Distinct
               DEF Reads, Sets, Upsets, Equipment, MountedIn, BaseMounts, Emulated
    <3>11. Relies(t, kind, e) /\ ~Sets(x11, kind, e)
      <4>1. \/ Reads(x11, Relies(t, "spare", Native), kind, e)
            \/ Relies(t, kind, e) /\ ~Sets(x11, kind, e)
        BY <2>1, <3>10 DEF Leads, MayLead
      <4> QED  BY <1>1, <3>1, <3>2, <3>3, <3>4, <3>5, <3>6, <3>7, <3>8, <3>9, <3>10, <4>1, Distinct
               DEF Reads, Sets, Upsets, Equipment, MountedIn, BaseMounts, Emulated
    <3>12. ~Sets(y, kind, e)
      BY <1>1, <3>1, <3>2, <3>3, <3>4, <3>5, <3>6, <3>7, <3>8, <3>9, <3>10, <3>11, Distinct
         DEF Spared, Leads, MayLead, Reads, Sets, Upsets, Equipment, MountedIn, BaseMounts, Emulated
    <3> QED  BY <3>11, <3>12
  <2> QED  BY <2>14, <2>15
<1>10. Does(u, y)
  BY <1>8, <1>9 DEF Does
<1> QED  BY <1>10 DEF u, y

-----------------------------------------------------------------------------
(* What whole programs do.                                                 *)

LEMMA InstallProgramDoes == Does(InstallSteps, Step("program", Native))
<1> DEFINE x1 == Step("init", Native)
           s1 == <<x1>>
           x2 == Step("install", Native)
           s2 == <<x2>>
           x3 == Step("add_tools", Native)
           s3 == <<x3>>
           x4 == Step("init", Rootfs)
           s4 == <<x4>>
           x5 == Step("install_build", Rootfs)
           s5 == <<x5>>
           x6 == Step("run", Rootfs)
           s6 == <<x6>>
           x7 == Step("ensure_native", Native)
           s7 == <<x7>>
           x8 == Step("system image", Native)
           s8 == SystemImageSteps
           g1 == <<x1, x2, x3>>
           g2 == <<x4, x5, x6>>
           p2 == Then(g1, g2)
           p3 == Then(p2, s7)
           p4 == Then(p3, s8)
           y == Step("program", Native)
           u == InstallSteps
<1>1. /\ x1.op = "init" /\ x1.chroot = Native
      /\ x2.op = "install" /\ x2.chroot = Native
      /\ x3.op = "add_tools" /\ x3.chroot = Native
      /\ x4.op = "init" /\ x4.chroot = Rootfs
      /\ x5.op = "install_build" /\ x5.chroot = Rootfs
      /\ x6.op = "run" /\ x6.chroot = Rootfs
      /\ x7.op = "ensure_native" /\ x7.chroot = Native
      /\ x8.op = "system image" /\ x8.chroot = Native
      /\ y.op = "program" /\ y.chroot = Native
  BY StepFacts
<1>2. /\ x1 \in StepType /\ x2 \in StepType /\ x3 \in StepType /\ x4 \in StepType
      /\ x5 \in StepType /\ x6 \in StepType /\ x7 \in StepType
  BY ChrootsAreThree, StepTyped DEF Ops
<1>3. /\ Does(s1, x1) /\ Does(s2, x2) /\ Does(s3, x3) /\ Does(s4, x4) /\ Does(s5, x5)
      /\ Does(s6, x6) /\ Does(s7, x7) /\ Does(s8, x8)
  <2>1. /\ Does(s1, x1) /\ Does(s2, x2) /\ Does(s3, x3) /\ Does(s4, x4) /\ Does(s5, x5)
        /\ Does(s6, x6) /\ Does(s7, x7)
    BY <1>2, DoesItself
  <2>2. Does(s8, x8)
    BY SystemImageDoes
  <2> QED  BY <2>1, <2>2
<1>4. u = p4
  BY DEF InstallSteps, PrepareNativeSteps, CreateRootfsSteps, Then
<1>5. p2 = Then(g1, g2) /\ p3 = Then(p2, s7) /\ p4 = Then(p3, s8)
  OBVIOUS
<1>6. g1 = Then(Then(s1, s2), s3) /\ g2 = Then(Then(s4, s5), s6)
  BY <1>2, ThreeApart
<1> HIDE DEF x1, x2, x3, x4, x5, x6, x7, x8, s1, s2, s3, s4, s5, s6, s7, s8, g1, g2,
             p2, p3, p4, y, u
<1>7. /\ s1 \in Seq(StepType) /\ s2 \in Seq(StepType) /\ s3 \in Seq(StepType)
      /\ s4 \in Seq(StepType) /\ s5 \in Seq(StepType) /\ s6 \in Seq(StepType)
      /\ s7 \in Seq(StepType) /\ s8 \in Seq(StepType)
  BY <1>3 DEF Does
<1>8. /\ g1 \in Seq(StepType) /\ g2 \in Seq(StepType) /\ p2 \in Seq(StepType)
      /\ p3 \in Seq(StepType) /\ p4 \in Seq(StepType) /\ u \in Seq(StepType)
  <2>1. g1 \in Seq(StepType) /\ g2 \in Seq(StepType)
    BY <1>6, <1>7, ThenTyped
  <2> QED  BY <1>4, <1>5, <1>7, <2>1, ThenTyped
<1>9. ASSUME NEW t \in Seq(StepType), Spared(y, t)
      PROVE  Leads(y, t, Then(u, t))
  <2> DEFINE t8 == Then(s8, t)
             t7 == Then(s7, t8)
             t6 == Then(s6, t7)
             t5 == Then(s5, t6)
             t4 == Then(s4, t5)
             t3 == Then(s3, t4)
             t2 == Then(s2, t3)
             t1 == Then(s1, t2)
  <2>1. Leads(x8, t, t8)
    <3>1. Spared(x8, t)
      BY <1>1, <1>9, Distinct
         DEF Spared, Leads, MayLead, Reads, Sets, Upsets, Equipment, MountedIn, BaseMounts, Emulated
    <3> QED  BY <1>3, <3>1, Put
  <2>2. Leads(x7, t8, t7)
    <3>1. Spared(x7, t8)
      BY <1>1, <1>9, <2>1, Distinct
         DEF Spared, Leads, MayLead, Reads, Sets, Upsets, Equipment, MountedIn, BaseMounts, Emulated
    <3> QED  BY <1>3, <3>1, Put
  <2>3. Leads(x6, t7, t6)
    <3>1. Spared(x6, t7)
      BY <1>1, <1>9, <2>1, <2>2, Distinct
         DEF Spared, Leads, MayLead, Reads, Sets, Upsets, Equipment, MountedIn, BaseMounts, Emulated
    <3> QED  BY <1>3, <3>1, Put
  <2>4. Leads(x5, t6, t5)
    <3>1. Spared(x5, t6)
      <4> SUFFICES ASSUME NEW kind, NEW e, Relies(t6, kind, e), Upsets(x5, kind, e)
                   PROVE  FALSE
        BY <2>3, <1>9 DEF Spared, Leads, MayLead
      <4>1. /\ \/ ~Relies(t6, kind, e) \/ Reads(x6, Relies(t7, "spare", Native), kind, e)
               \/ Relies(t7, kind, e) /\ ~Sets(x6, kind, e)
            /\ \/ ~Relies(t7, kind, e) \/ Reads(x7, Relies(t8, "spare", Native), kind, e)
               \/ Relies(t8, kind, e) /\ ~Sets(x7, kind, e)
            /\ \/ ~Relies(t8, kind, e) \/ Reads(x8, Relies(t, "spare", Native), kind, e)
               \/ Relies(t, kind, e) /\ ~Sets(x8, kind, e)
        BY <2>1, <2>2, <2>3 DEF Leads, MayLead
      <4>2. Relies(t, kind, e) => ~Upsets(y, kind, e)
        BY <1>9 DEF Spared
      <4> QED  BY <1>1, <4>1, <4>2, Distinct
               DEF Reads, Sets, Upsets, Equipment, MountedIn, BaseMounts, Emulated
    <3> QED  BY <1>3, <3>1, Put
  <2>5. Leads(x4, t5, t4)
    <3>1. Spared(x4, t5)
      <4> SUFFICES ASSUME NEW kind, NEW e, Relies(t5, kind, e), Upsets(x4, kind, e)
                   PROVE  FALSE
        BY <2>4, <1>9 DEF Spared, Leads, MayLead
      <4>1. /\ \/ ~Relies(t5, kind, e) \/ Reads(x5, Relies(t6, "spare", Native), kind, e)
               \/ Relies(t6, kind, e) /\ ~Sets(x5, kind, e)
            /\ \/ ~Relies(t6, kind, e) \/ Reads(x6, Relies(t7, "spare", Native), kind, e)
               \/ Relies(t7, kind, e) /\ ~Sets(x6, kind, e)
            /\ \/ ~Relies(t7, kind, e) \/ Reads(x7, Relies(t8, "spare", Native), kind, e)
               \/ Relies(t8, kind, e) /\ ~Sets(x7, kind, e)
            /\ \/ ~Relies(t8, kind, e) \/ Reads(x8, Relies(t, "spare", Native), kind, e)
               \/ Relies(t, kind, e) /\ ~Sets(x8, kind, e)
        BY <2>1, <2>2, <2>3, <2>4 DEF Leads, MayLead
      <4>2. Relies(t, kind, e) => ~Upsets(y, kind, e)
        BY <1>9 DEF Spared
      <4> QED  BY <1>1, <4>1, <4>2, Distinct
               DEF Reads, Sets, Upsets, Equipment, MountedIn, BaseMounts, Emulated
    <3> QED  BY <1>3, <3>1, Put
  <2>6. Leads(x3, t4, t3)
    <3>1. Spared(x3, t4)
      <4> SUFFICES ASSUME NEW kind, NEW e, Relies(t4, kind, e), Upsets(x3, kind, e)
                   PROVE  FALSE
        BY <2>5, <1>9 DEF Spared, Leads, MayLead
      <4>1. /\ \/ ~Relies(t4, kind, e) \/ Reads(x4, Relies(t5, "spare", Native), kind, e)
               \/ Relies(t5, kind, e) /\ ~Sets(x4, kind, e)
            /\ \/ ~Relies(t5, kind, e) \/ Reads(x5, Relies(t6, "spare", Native), kind, e)
               \/ Relies(t6, kind, e) /\ ~Sets(x5, kind, e)
            /\ \/ ~Relies(t6, kind, e) \/ Reads(x6, Relies(t7, "spare", Native), kind, e)
               \/ Relies(t7, kind, e) /\ ~Sets(x6, kind, e)
            /\ \/ ~Relies(t7, kind, e) \/ Reads(x7, Relies(t8, "spare", Native), kind, e)
               \/ Relies(t8, kind, e) /\ ~Sets(x7, kind, e)
            /\ \/ ~Relies(t8, kind, e) \/ Reads(x8, Relies(t, "spare", Native), kind, e)
               \/ Relies(t, kind, e) /\ ~Sets(x8, kind, e)
        BY <2>1, <2>2, <2>3, <2>4, <2>5 DEF Leads, MayLead
      <4>2. Relies(t, kind, e) => ~Upsets(y, kind, e)
        BY <1>9 DEF Spared
      <4> QED  BY <1>1, <4>1, <4>2, Distinct
               DEF Reads, Sets, Upsets, Equipment, MountedIn, BaseMounts, Emulated
    <3> QED  BY <1>3, <3>1, Put
  <2>7. Leads(x2, t3, t2)
    <3>1. Spared(x2, t3)
      <4> SUFFICES ASSUME NEW kind, NEW e, Relies(t3, kind, e), Upsets(x2, kind, e)
                   PROVE  FALSE
        BY <2>6, <1>9 DEF Spared, Leads, MayLead
      <4>1. /\ \/ ~Relies(t3, kind, e) \/ Reads(x3, Relies(t4, "spare", Native), kind, e)
               \/ Relies(t4, kind, e) /\ ~Sets(x3, kind, e)
            /\ \/ ~Relies(t4, kind, e) \/ Reads(x4, Relies(t5, "spare", Native), kind, e)
               \/ Relies(t5, kind, e) /\ ~Sets(x4, kind, e)
            /\ \/ ~Relies(t5, kind, e) \/ Reads(x5, Relies(t6, "spare", Native), kind, e)
               \/ Relies(t6, kind, e) /\ ~Sets(x5, kind, e)
            /\ \/ ~Relies(t6, kind, e) \/ Reads(x6, Relies(t7, "spare", Native), kind, e)
               \/ Relies(t7, kind, e) /\ ~Sets(x6, kind, e)
            /\ \/ ~Relies(t7, kind, e) \/ Reads(x7, Relies(t8, "spare", Native), kind, e)
               \/ Relies(t8, kind, e) /\ ~Sets(x7, kind, e)
            /\ \/ ~Relies(t8, kind, e) \/ Reads(x8, Relies(t, "spare", Native), kind, e)
               \/ Relies(t, kind, e) /\ ~Sets(x8, kind, e)
        BY <2>1, <2>2, <2>3, <2>4, <2>5, <2>6 DEF Leads, MayLead
      <4>2. Relies(t, kind, e) => ~Upsets(y, kind, e)
        BY <1>9 DEF Spared
      <4> QED  BY <1>1, <4>1, <4>2, Distinct
               DEF Reads, Sets, Upsets, Equipment, MountedIn, BaseMounts, Emulated
    <3> QED  BY <1>3, <3>1, Put
  <2>8. Leads(x1, t2, t1)
    <3>1. Spared(x1, t2)
      <4> SUFFICES ASSUME NEW kind, NEW e, Relies(t2, kind, e), Upsets(x1, kind, e)
                   PROVE  FALSE
        BY <2>7, <1>9 DEF Spared, Leads, MayLead
      <4>1. /\ \/ ~Relies(t2, kind, e) \/ Reads(x2, Relies(t3, "spare", Native), kind, e)
               \/ Relies(t3, kind, e) /\ ~Sets(x2, kind, e)
            /\ \/ ~Relies(t3, kind, e) \/ Reads(x3, Relies(t4, "spare", Native), kind, e)
               \/ Relies(t4, kind, e) /\ ~Sets(x3, kind, e)
            /\ \/ ~Relies(t4, kind, e) \/ Reads(x4, Relies(t5, "spare", Native), kind, e)
               \/ Relies(t5, kind, e) /\ ~Sets(x4, kind, e)
            /\ \/ ~Relies(t5, kind, e) \/ Reads(x5, Relies(t6, "spare", Native), kind, e)
               \/ Relies(t6, kind, e) /\ ~Sets(x5, kind, e)
            /\ \/ ~Relies(t6, kind, e) \/ Reads(x6, Relies(t7, "spare", Native), kind, e)
               \/ Relies(t7, kind, e) /\ ~Sets(x6, kind, e)
            /\ \/ ~Relies(t7, kind, e) \/ Reads(x7, Relies(t8, "spare", Native), kind, e)
               \/ Relies(t8, kind, e) /\ ~Sets(x7, kind, e)
            /\ \/ ~Relies(t8, kind, e) \/ Reads(x8, Relies(t, "spare", Native), kind, e)
               \/ Relies(t, kind, e) /\ ~Sets(x8, kind, e)
        BY <2>1, <2>2, <2>3, <2>4, <2>5, <2>6, <2>7 DEF Leads, MayLead
      <4>2. Relies(t, kind, e) => ~Upsets(y, kind, e)
        BY <1>9 DEF Spared
      <4> QED  BY <1>1, <4>1, <4>2, Distinct
               DEF Reads, Sets, Upsets, Equipment, MountedIn, BaseMounts, Emulated
    <3> QED  BY <1>3, <3>1, Put
  <2>9. /\ t1 \in Seq(StepType) /\ t2 \in Seq(StepType) /\ t3 \in Seq(StepType)
        /\ t4 \in Seq(StepType) /\ t5 \in Seq(StepType) /\ t6 \in Seq(StepType)
        /\ t7 \in Seq(StepType) /\ t8 \in Seq(StepType)
    BY <2>1, <2>2, <2>3, <2>4, <2>5, <2>6, <2>7, <2>8 DEF Leads, MayLead
  <2>10. /\ t1 = Then(s1, t2) /\ t2 = Then(s2, t3) /\ t3 = Then(s3, t4)
        /\ t4 = Then(s4, t5) /\ t5 = Then(s5, t6) /\ t6 = Then(s6, t7)
        /\ t7 = Then(s7, t8) /\ t8 = Then(s8, t)
    OBVIOUS
  <2> HIDE DEF t1, t2, t3, t4, t5, t6, t7, t8
  <2>11. Then(u, t) = t1
    <3>1. Then(p4, t) = Then(p3, t8)
      <4>1. p3 \in Seq(StepType) /\ s8 \in Seq(StepType) /\ t \in Seq(StepType)
        BY <1>7, <1>8, <1>9, <2>9
      <4>2. p4 = Then(p3, s8) /\ Then(s8, t) = t8
        BY <1>5, <2>10
      <4> QED  BY <4>1, <4>2, Regrouped
    <3>2. Then(p3, t8) = Then(p2, t7)
      <4>1. p2 \in Seq(StepType) /\ s7 \in Seq(StepType) /\ t8 \in Seq(StepType)
        BY <1>7, <1>8, <1>9, <2>9
      <4>2. p3 = Then(p2, s7) /\ Then(s7, t8) = t7
        BY <1>5, <2>10
      <4> QED  BY <4>1, <4>2, Regrouped
    <3>3. Then(g2, t7) = t4
      <4>1. /\ s4 \in Seq(StepType) /\ s5 \in Seq(StepType) /\ s6 \in Seq(StepType)
            /\ t7 \in Seq(StepType)
        BY <1>7, <1>9, <2>9
      <4>2. /\ g2 = Then(Then(s4, s5), s6) /\ t4 = Then(s4, t5) /\ t5 = Then(s5, t6)
            /\ t6 = Then(s6, t7)
        BY <1>6, <2>10
      <4> QED  BY <4>1, <4>2, ThreeJoined
    <3>4. Then(p2, t7) = Then(g1, t4)
      <4>1. g1 \in Seq(StepType) /\ g2 \in Seq(StepType) /\ t7 \in Seq(StepType)
        BY <1>7, <1>8, <1>9, <2>9
      <4>2. p2 = Then(g1, g2) /\ Then(g2, t7) = t4
        BY <1>5, <3>3
      <4> QED  BY <4>1, <4>2, Regrouped
    <3>5. Then(g1, t4) = t1
      <4>1. /\ s1 \in Seq(StepType) /\ s2 \in Seq(StepType) /\ s3 \in Seq(StepType)
            /\ t4 \in Seq(StepType)
        BY <1>7, <1>9, <2>9
      <4>2. /\ g1 = Then(Then(s1, s2), s3) /\ t1 = Then(s1, t2) /\ t2 = Then(s2, t3)
            /\ t3 = Then(s3, t4)
        BY <1>6, <2>10
      <4> QED  BY <4>1, <4>2, ThreeJoined
    <3> QED  BY <1>4, <2>10, <3>1, <3>2, <3>3, <3>4, <3>5
  <2>12. Leads(y, t, t1)
    <3> SUFFICES ASSUME NEW kind, NEW e, Relies(t1, kind, e),
                        ~Reads(y, Relies(t, "spare", Native), kind, e)
                 PROVE  Relies(t, kind, e) /\ ~Sets(y, kind, e)
      BY <2>8 DEF Leads, MayLead
    <3>1. Relies(t2, kind, e) /\ ~Sets(x1, kind, e)
      <4>1. \/ Reads(x1, Relies(t2, "spare", Native), kind, e)
            \/ Relies(t2, kind, e) /\ ~Sets(x1, kind, e)
        BY <2>8 DEF Leads, MayLead
      <4> QED  BY <1>1, <4>1, Distinct
               DEF Reads, Sets, Upsets, Equipment, MountedIn, BaseMounts, Emulated
    <3>2. Relies(t3, kind, e) /\ ~Sets(x2, kind, e)
      <4>1. \/ Reads(x2, Relies(t3, "spare", Native), kind, e)
            \/ Relies(t3, kind, e) /\ ~Sets(x2, kind, e)
        BY <2>7, <3>1 DEF Leads, MayLead
      <4> QED  BY <1>1, <3>1, <4>1, Distinct
               DEF Reads, Sets, Upsets, Equipment, MountedIn, BaseMounts, Emulated
    <3>3. Relies(t4, kind, e) /\ ~Sets(x3, kind, e)
      <4>1. \/ Reads(x3, Relies(t4, "spare", Native), kind, e)
            \/ Relies(t4, kind, e) /\ ~Sets(x3, kind, e)
        BY <2>6, <3>2 DEF Leads, MayLead
      <4> QED  BY <1>1, <3>1, <3>2, <4>1, Distinct
               DEF Reads, Sets, Upsets, Equipment, MountedIn, BaseMounts, Emulated
    <3>4. Relies(t5, kind, e) /\ ~Sets(x4, kind, e)
      <4>1. \/ Reads(x4, Relies(t5, "spare", Native), kind, e)
            \/ Relies(t5, kind, e) /\ ~Sets(x4, kind, e)
        BY <2>5, <3>3 DEF Leads, MayLead
      <4> QED  BY <1>1, <3>1, <3>2, <3>3, <4>1, Distinct
               DEF Reads, Sets, Upsets, Equipment, MountedIn, BaseMounts, Emulated
    <3>5. Relies(t6, kind, e) /\ ~Sets(x5, kind, e)
      <4>1. \/ Reads(x5, Relies(t6, "spare", Native), kind, e)
            \/ Relies(t6, kind, e) /\ ~Sets(x5, kind, e)
        BY <2>4, <3>4 DEF Leads, MayLead
      <4> QED  BY <1>1, <3>1, <3>2, <3>3, <3>4, <4>1, Distinct
               DEF Reads, Sets, Upsets, Equipment, MountedIn, BaseMounts, Emulated
    <3>6. Relies(t7, kind, e) /\ ~Sets(x6, kind, e)
      <4>1. \/ Reads(x6, Relies(t7, "spare", Native), kind, e)
            \/ Relies(t7, kind, e) /\ ~Sets(x6, kind, e)
        BY <2>3, <3>5 DEF Leads, MayLead
      <4> QED  BY <1>1, <3>1, <3>2, <3>3, <3>4, <3>5, <4>1, Distinct
               DEF Reads, Sets, Upsets, Equipment, MountedIn, BaseMounts, Emulated
    <3>7. Relies(t8, kind, e) /\ ~Sets(x7, kind, e)
      <4>1. \/ Reads(x7, Relies(t8, "spare", Native), kind, e)
            \/ Relies(t8, kind, e) /\ ~Sets(x7, kind, e)
        BY <2>2, <3>6 DEF Leads, MayLead
      <4> QED  BY <1>1, <3>1, <3>2, <3>3, <3>4, <3>5, <3>6, <4>1, Distinct
               DEF Reads, Sets, Upsets, Equipment, MountedIn, BaseMounts, Emulated
    <3>8. Relies(t, kind, e) /\ ~Sets(x8, kind, e)
      <4>1. \/ Reads(x8, Relies(t, "spare", Native), kind, e)
            \/ Relies(t, kind, e) /\ ~Sets(x8, kind, e)
        BY <2>1, <3>7 DEF Leads, MayLead
      <4> QED  BY <1>1, <3>1, <3>2, <3>3, <3>4, <3>5, <3>6, <3>7, <4>1, Distinct
               DEF Reads, Sets, Upsets, Equipment, MountedIn, BaseMounts, Emulated
    <3>9. ~Sets(y, kind, e)
      BY <1>1, <3>1, <3>2, <3>3, <3>4, <3>5, <3>6, <3>7, <3>8, Distinct
         DEF Spared, Leads, MayLead, Reads, Sets, Upsets, Equipment, MountedIn, BaseMounts, Emulated
    <3> QED  BY <3>8, <3>9
  <2> QED  BY <2>11, <2>12
<1>10. Does(u, y)
  BY <1>8, <1>9 DEF Does
<1> QED  BY <1>10 DEF u, y

LEMMA ShutdownDoes == Does(ShutdownSteps, Step("program", Native))
<1> DEFINE x1 == Step("remove_markers", Chroots)
           s1 == <<x1>>
           x2 == Step("umount_all", Native)
           s2 == <<x2>>
           x3 == Step("umount_all", Buildroot)
           s3 == <<x3>>
           x4 == Step("umount_all", Rootfs)
           s4 == <<x4>>
           x5 == Step("unregister", Chroots)
           s5 == <<x5>>
           g1 == <<x1, x2, x3, x4, x5>>
           y == Step("program", Native)
           u == ShutdownSteps
<1>1. /\ x1.op = "remove_markers" /\ x1.chroot = Chroots
      /\ x2.op = "umount_all" /\ x2.chroot = Native
      /\ x3.op = "umount_all" /\ x3.chroot = Buildroot
      /\ x4.op = "umount_all" /\ x4.chroot = Rootfs
      /\ x5.op = "unregister" /\ x5.chroot = Chroots
      /\ y.op = "program" /\ y.chroot = Native
  BY StepFacts
<1>2. /\ x1 \in StepType /\ x2 \in StepType /\ x3 \in StepType /\ x4 \in StepType
      /\ x5 \in StepType
  BY ChrootsAreThree, StepTyped DEF Ops
<1>3. Does(s1, x1) /\ Does(s2, x2) /\ Does(s3, x3) /\ Does(s4, x4) /\ Does(s5, x5)
  BY <1>2, DoesItself
<1>4. u = g1
  BY DEF ShutdownSteps
<1>5. g1 = Then(Then(Then(Then(s1, s2), s3), s4), s5)
  BY <1>2, FiveApart
<1> HIDE DEF x1, x2, x3, x4, x5, s1, s2, s3, s4, s5, g1, y, u
<1>6. /\ s1 \in Seq(StepType) /\ s2 \in Seq(StepType) /\ s3 \in Seq(StepType)
      /\ s4 \in Seq(StepType) /\ s5 \in Seq(StepType)
  BY <1>3 DEF Does
<1>7. g1 \in Seq(StepType) /\ u \in Seq(StepType)
  BY <1>4, <1>5, <1>6, ThenTyped
<1>8. ASSUME NEW t \in Seq(StepType), Spared(y, t)
      PROVE  Leads(y, t, Then(u, t))
  <2> DEFINE t5 == Then(s5, t)
             t4 == Then(s4, t5)
             t3 == Then(s3, t4)
             t2 == Then(s2, t3)
             t1 == Then(s1, t2)
  <2>1. Leads(x5, t, t5)
    <3>1. Spared(x5, t)
      BY <1>1, <1>8, Distinct
         DEF Spared, Leads, MayLead, Reads, Sets, Upsets, Equipment, MountedIn, BaseMounts, Emulated
    <3> QED  BY <1>3, <3>1, Put
  <2>2. Leads(x4, t5, t4)
    <3>1. Spared(x4, t5)
      BY <1>1, <1>8, <2>1, Distinct
         DEF Spared, Leads, MayLead, Reads, Sets, Upsets, Equipment, MountedIn, BaseMounts, Emulated
    <3> QED  BY <1>3, <3>1, Put
  <2>3. Leads(x3, t4, t3)
    <3>1. Spared(x3, t4)
      BY <1>1, <1>8, <2>1, <2>2, Distinct
         DEF Spared, Leads, MayLead, Reads, Sets, Upsets, Equipment, MountedIn, BaseMounts, Emulated
    <3> QED  BY <1>3, <3>1, Put
  <2>4. Leads(x2, t3, t2)
    <3>1. Spared(x2, t3)
      BY <1>1, <1>8, <2>1, <2>2, <2>3, Distinct
         DEF Spared, Leads, MayLead, Reads, Sets, Upsets, Equipment, MountedIn, BaseMounts, Emulated
    <3> QED  BY <1>3, <3>1, Put
  <2>5. Leads(x1, t2, t1)
    <3>1. Spared(x1, t2)
      BY <1>1, <1>8, <2>1, <2>2, <2>3, <2>4, Distinct
         DEF Spared, Leads, MayLead, Reads, Sets, Upsets, Equipment, MountedIn, BaseMounts, Emulated
    <3> QED  BY <1>3, <3>1, Put
  <2>6. /\ t1 \in Seq(StepType) /\ t2 \in Seq(StepType) /\ t3 \in Seq(StepType)
        /\ t4 \in Seq(StepType) /\ t5 \in Seq(StepType)
    BY <2>1, <2>2, <2>3, <2>4, <2>5 DEF Leads, MayLead
  <2>7. /\ t1 = Then(s1, t2) /\ t2 = Then(s2, t3) /\ t3 = Then(s3, t4)
        /\ t4 = Then(s4, t5) /\ t5 = Then(s5, t)
    OBVIOUS
  <2> HIDE DEF t1, t2, t3, t4, t5
  <2>8. Then(u, t) = t1
    <3>1. /\ s1 \in Seq(StepType) /\ s2 \in Seq(StepType) /\ s3 \in Seq(StepType)
          /\ s4 \in Seq(StepType) /\ s5 \in Seq(StepType) /\ t \in Seq(StepType)
      BY <1>6, <1>8
    <3>2. /\ u = Then(Then(Then(Then(s1, s2), s3), s4), s5) /\ t1 = Then(s1, t2)
          /\ t2 = Then(s2, t3) /\ t3 = Then(s3, t4) /\ t4 = Then(s4, t5)
          /\ t5 = Then(s5, t)
      BY <1>4, <1>5, <2>7
    <3> QED  BY <3>1, <3>2, FiveJoined
  <2>9. Leads(y, t, t1)
    <3> SUFFICES ASSUME NEW kind, NEW e, Relies(t1, kind, e),
                        ~Reads(y, Relies(t, "spare", Native), kind, e)
                 PROVE  Relies(t, kind, e) /\ ~Sets(y, kind, e)
      BY <2>5 DEF Leads, MayLead
    <3>1. Relies(t2, kind, e) /\ ~Sets(x1, kind, e)
      <4>1. \/ Reads(x1, Relies(t2, "spare", Native), kind, e)
            \/ Relies(t2, kind, e) /\ ~Sets(x1, kind, e)
        BY <2>5 DEF Leads, MayLead
      <4> QED  BY <1>1, <4>1, Distinct
               DEF Reads, Sets, Upsets, Equipment, MountedIn, BaseMounts, Emulated
    <3>2. Relies(t3, kind, e) /\ ~Sets(x2, kind, e)
      <4>1. \/ Reads(x2, Relies(t3, "spare", Native), kind, e)
            \/ Relies(t3, kind, e) /\ ~Sets(x2, kind, e)
        BY <2>4, <3>1 DEF Leads, MayLead
      <4> QED  BY <1>1, <3>1, <4>1, Distinct
               DEF Reads, Sets, Upsets, Equipment, MountedIn, BaseMounts, Emulated
    <3>3. Relies(t4, kind, e) /\ ~Sets(x3, kind, e)
      <4>1. \/ Reads(x3, Relies(t4, "spare", Native), kind, e)
            \/ Relies(t4, kind, e) /\ ~Sets(x3, kind, e)
        BY <2>3, <3>2 DEF Leads, MayLead
      <4> QED  BY <1>1, <3>1, <3>2, <4>1, Distinct
               DEF Reads, Sets, Upsets, Equipment, MountedIn, BaseMounts, Emulated
    <3>4. Relies(t5, kind, e) /\ ~Sets(x4, kind, e)
      <4>1. \/ Reads(x4, Relies(t5, "spare", Native), kind, e)
            \/ Relies(t5, kind, e) /\ ~Sets(x4, kind, e)
        BY <2>2, <3>3 DEF Leads, MayLead
      <4> QED  BY <1>1, <3>1, <3>2, <3>3, <4>1, Distinct
               DEF Reads, Sets, Upsets, Equipment, MountedIn, BaseMounts, Emulated
    <3>5. Relies(t, kind, e) /\ ~Sets(x5, kind, e)
      <4>1. \/ Reads(x5, Relies(t, "spare", Native), kind, e)
            \/ Relies(t, kind, e) /\ ~Sets(x5, kind, e)
        BY <2>1, <3>4 DEF Leads, MayLead
      <4> QED  BY <1>1, <3>1, <3>2, <3>3, <3>4, <4>1, Distinct
               DEF Reads, Sets, Upsets, Equipment, MountedIn, BaseMounts, Emulated
    <3>6. ~Sets(y, kind, e)
      BY <1>1, <3>1, <3>2, <3>3, <3>4, <3>5, Distinct
         DEF Spared, Leads, MayLead, Reads, Sets, Upsets, Equipment, MountedIn, BaseMounts, Emulated
    <3> QED  BY <3>5, <3>6
  <2> QED  BY <2>8, <2>9
<1>9. Does(u, y)
  BY <1>7, <1>8 DEF Does
<1> QED  BY <1>9 DEF u, y

LEMMA ZapProgramDoes == Does(ZapSteps, Step("program", Native))
<1> DEFINE x1 == Step("program", Native)
           s1 == ShutdownSteps
           x2 == Step("deletion", Rootfs)
           s2 == UmountAndRemove(Rootfs)
           x3 == Step("deletion", Buildroot)
           s3 == UmountAndRemove(Buildroot)
           x4 == Step("deletion", Native)
           s4 == UmountAndRemove(Native)
           x5 == Step("clean", Chroots)
           s5 == <<x5>>
           x6 == Step("cache_clear", Chroots)
           s6 == <<x6>>
           g5 == <<x5, x6>>
           p2 == Then(s1, s2)
           p3 == Then(p2, s3)
           p4 == Then(p3, s4)
           p5 == Then(p4, g5)
           y == Step("program", Native)
           u == ZapSteps
<1>1. /\ x1.op = "program" /\ x1.chroot = Native
      /\ x2.op = "deletion" /\ x2.chroot = Rootfs
      /\ x3.op = "deletion" /\ x3.chroot = Buildroot
      /\ x4.op = "deletion" /\ x4.chroot = Native
      /\ x5.op = "clean" /\ x5.chroot = Chroots
      /\ x6.op = "cache_clear" /\ x6.chroot = Chroots
      /\ y.op = "program" /\ y.chroot = Native
  BY StepFacts
<1>2. x5 \in StepType /\ x6 \in StepType
  BY ChrootsAreThree, StepTyped DEF Ops
<1>3. /\ Does(s1, x1) /\ Does(s2, x2) /\ Does(s3, x3) /\ Does(s4, x4) /\ Does(s5, x5)
      /\ Does(s6, x6)
  <2>1. Does(s5, x5) /\ Does(s6, x6)
    BY <1>2, DoesItself
  <2>2. Does(s1, x1)
    BY ShutdownDoes
  <2>3. Does(s2, x2)
    BY ChrootsAreThree, DeletionDoes
  <2>4. Does(s3, x3)
    BY ChrootsAreThree, DeletionDoes
  <2>5. Does(s4, x4)
    BY ChrootsAreThree, DeletionDoes
  <2> QED  BY <2>1, <2>2, <2>3, <2>4, <2>5
<1>4. u = p5
  BY DEF ZapSteps, Then
<1>5. /\ p2 = Then(s1, s2) /\ p3 = Then(p2, s3) /\ p4 = Then(p3, s4)
       /\ p5 = Then(p4, g5)
  OBVIOUS
<1>6. g5 = Then(s5, s6)
  BY <1>2, TwoApart
<1> HIDE DEF x1, x2, x3, x4, x5, x6, s1, s2, s3, s4, s5, s6, g5, p2, p3, p4, p5, y,
             u
<1>7. /\ s1 \in Seq(StepType) /\ s2 \in Seq(StepType) /\ s3 \in Seq(StepType)
      /\ s4 \in Seq(StepType) /\ s5 \in Seq(StepType) /\ s6 \in Seq(StepType)
  BY <1>3 DEF Does
<1>8. /\ g5 \in Seq(StepType) /\ p2 \in Seq(StepType) /\ p3 \in Seq(StepType)
      /\ p4 \in Seq(StepType) /\ p5 \in Seq(StepType) /\ u \in Seq(StepType)
  <2>1. g5 \in Seq(StepType)
    BY <1>6, <1>7, ThenTyped
  <2> QED  BY <1>4, <1>5, <1>7, <2>1, ThenTyped
<1>9. ASSUME NEW t \in Seq(StepType), Spared(y, t)
      PROVE  Leads(y, t, Then(u, t))
  <2> DEFINE t6 == Then(s6, t)
             t5 == Then(s5, t6)
             t4 == Then(s4, t5)
             t3 == Then(s3, t4)
             t2 == Then(s2, t3)
             t1 == Then(s1, t2)
  <2>1. Leads(x6, t, t6)
    <3>1. Spared(x6, t)
      BY <1>1, <1>9, Distinct
         DEF Spared, Leads, MayLead, Reads, Sets, Upsets, Equipment, MountedIn, BaseMounts, Emulated
    <3> QED  BY <1>3, <3>1, Put
  <2>2. Leads(x5, t6, t5)
    <3>1. Spared(x5, t6)
      BY <1>1, <1>9, <2>1, Distinct
         DEF Spared, Leads, MayLead, Reads, Sets, Upsets, Equipment, MountedIn, BaseMounts, Emulated
    <3> QED  BY <1>3, <3>1, Put
  <2>3. Leads(x4, t5, t4)
    <3>1. Spared(x4, t5)
      BY <1>1, <1>9, <2>1, <2>2, Distinct
         DEF Spared, Leads, MayLead, Reads, Sets, Upsets, Equipment, MountedIn, BaseMounts, Emulated
    <3> QED  BY <1>3, <3>1, Put
  <2>4. Leads(x3, t4, t3)
    <3>1. Spared(x3, t4)
      BY <1>1, <1>9, <2>1, <2>2, <2>3, Distinct
         DEF Spared, Leads, MayLead, Reads, Sets, Upsets, Equipment, MountedIn, BaseMounts, Emulated
    <3> QED  BY <1>3, <3>1, Put
  <2>5. Leads(x2, t3, t2)
    <3>1. Spared(x2, t3)
      BY <1>1, <1>9, <2>1, <2>2, <2>3, <2>4, Distinct
         DEF Spared, Leads, MayLead, Reads, Sets, Upsets, Equipment, MountedIn, BaseMounts, Emulated
    <3> QED  BY <1>3, <3>1, Put
  <2>6. Leads(x1, t2, t1)
    <3>1. Spared(x1, t2)
      BY <1>1, <1>9, <2>1, <2>2, <2>3, <2>4, <2>5, Distinct
         DEF Spared, Leads, MayLead, Reads, Sets, Upsets, Equipment, MountedIn, BaseMounts, Emulated
    <3> QED  BY <1>3, <3>1, Put
  <2>7. /\ t1 \in Seq(StepType) /\ t2 \in Seq(StepType) /\ t3 \in Seq(StepType)
        /\ t4 \in Seq(StepType) /\ t5 \in Seq(StepType) /\ t6 \in Seq(StepType)
    BY <2>1, <2>2, <2>3, <2>4, <2>5, <2>6 DEF Leads, MayLead
  <2>8. /\ t1 = Then(s1, t2) /\ t2 = Then(s2, t3) /\ t3 = Then(s3, t4)
        /\ t4 = Then(s4, t5) /\ t5 = Then(s5, t6) /\ t6 = Then(s6, t)
    OBVIOUS
  <2> HIDE DEF t1, t2, t3, t4, t5, t6
  <2>9. Then(u, t) = t1
    <3>1. Then(g5, t) = t5
      <4>1. s5 \in Seq(StepType) /\ s6 \in Seq(StepType) /\ t \in Seq(StepType)
        BY <1>7, <1>9, <2>7
      <4>2. g5 = Then(s5, s6) /\ t5 = Then(s5, t6) /\ t6 = Then(s6, t)
        BY <1>6, <2>8
      <4> QED  BY <4>1, <4>2, TwoJoined
    <3>2. Then(p5, t) = Then(p4, t5)
      <4>1. p4 \in Seq(StepType) /\ g5 \in Seq(StepType) /\ t \in Seq(StepType)
        BY <1>7, <1>8, <1>9, <2>7
      <4>2. p5 = Then(p4, g5) /\ Then(g5, t) = t5
        BY <1>5, <3>1
      <4> QED  BY <4>1, <4>2, Regrouped
    <3>3. Then(p4, t5) = Then(p3, t4)
      <4>1. p3 \in Seq(StepType) /\ s4 \in Seq(StepType) /\ t5 \in Seq(StepType)
        BY <1>7, <1>8, <1>9, <2>7
      <4>2. p4 = Then(p3, s4) /\ Then(s4, t5) = t4
        BY <1>5, <2>8
      <4> QED  BY <4>1, <4>2, Regrouped
    <3>4. Then(p3, t4) = Then(p2, t3)
      <4>1. p2 \in Seq(StepType) /\ s3 \in Seq(StepType) /\ t4 \in Seq(StepType)
        BY <1>7, <1>8, <1>9, <2>7
      <4>2. p3 = Then(p2, s3) /\ Then(s3, t4) = t3
        BY <1>5, <2>8
      <4> QED  BY <4>1, <4>2, Regrouped
    <3>5. Then(p2, t3) = Then(s1, t2)
      <4>1. s1 \in Seq(StepType) /\ s2 \in Seq(StepType) /\ t3 \in Seq(StepType)
        BY <1>7, <1>8, <1>9, <2>7
      <4>2. p2 = Then(s1, s2) /\ Then(s2, t3) = t2
        BY <1>5, <2>8
      <4> QED  BY <4>1, <4>2, Regrouped
    <3> QED  BY <1>4, <2>8, <3>1, <3>2, <3>3, <3>4, <3>5
  <2>10. Leads(y, t, t1)
    <3> SUFFICES ASSUME NEW kind, NEW e, Relies(t1, kind, e),
                        ~Reads(y, Relies(t, "spare", Native), kind, e)
                 PROVE  Relies(t, kind, e) /\ ~Sets(y, kind, e)
      BY <2>6 DEF Leads, MayLead
    <3>1. Relies(t2, kind, e) /\ ~Sets(x1, kind, e)
      <4>1. \/ Reads(x1, Relies(t2, "spare", Native), kind, e)
            \/ Relies(t2, kind, e) /\ ~Sets(x1, kind, e)
        BY <2>6 DEF Leads, MayLead
      <4> QED  BY <1>1, <4>1, Distinct
               DEF Reads, Sets, Upsets, Equipment, MountedIn, BaseMounts, Emulated
    <3>2. Relies(t3, kind, e) /\ ~Sets(x2, kind, e)
      <4>1. \/ Reads(x2, Relies(t3, "spare", Native), kind, e)
            \/ Relies(t3, kind, e) /\ ~Sets(x2, kind, e)
        BY <2>5, <3>1 DEF Leads, MayLead
      <4> QED  BY <1>1, <3>1, <4>1, Distinct
               DEF Reads, Sets, Upsets, Equipment, MountedIn, BaseMounts, Emulated
    <3>3. Relies(t4, kind, e) /\ ~Sets(x3, kind, e)
      <4>1. \/ Reads(x3, Relies(t4, "spare", Native), kind, e)
            \/ Relies(t4, kind, e) /\ ~Sets(x3, kind, e)
        BY <2>4, <3>2 DEF Leads, MayLead
      <4> QED  BY <1>1, <3>1, <3>2, <4>1, Distinct
               DEF Reads, Sets, Upsets, Equipment, MountedIn, BaseMounts, Emulated
    <3>4. Relies(t5, kind, e) /\ ~Sets(x4, kind, e)
      <4>1. \/ Reads(x4, Relies(t5, "spare", Native), kind, e)
            \/ Relies(t5, kind, e) /\ ~Sets(x4, kind, e)
        BY <2>3, <3>3 DEF Leads, MayLead
      <4> QED  BY <1>1, <3>1, <3>2, <3>3, <4>1, Distinct
               DEF Reads, Sets, Upsets, Equipment, MountedIn, BaseMounts, Emulated
    <3>5. Relies(t6, kind, e) /\ ~Sets(x5, kind, e)
      <4>1. \/ Reads(x5, Relies(t6, "spare", Native), kind, e)
            \/ Relies(t6, kind, e) /\ ~Sets(x5, kind, e)
        BY <2>2, <3>4 DEF Leads, MayLead
      <4> QED  BY <1>1, <3>1, <3>2, <3>3, <3>4, <4>1, Distinct
               DEF Reads, Sets, Upsets, Equipment, MountedIn, BaseMounts, Emulated
    <3>6. Relies(t, kind, e) /\ ~Sets(x6, kind, e)
      <4>1. \/ Reads(x6, Relies(t, "spare", Native), kind, e)
            \/ Relies(t, kind, e) /\ ~Sets(x6, kind, e)
        BY <2>1, <3>5 DEF Leads, MayLead
      <4> QED  BY <1>1, <3>1, <3>2, <3>3, <3>4, <3>5, <4>1, Distinct
               DEF Reads, Sets, Upsets, Equipment, MountedIn, BaseMounts, Emulated
    <3>7. ~Sets(y, kind, e)
      BY <1>1, <3>1, <3>2, <3>3, <3>4, <3>5, <3>6, Distinct
         DEF Spared, Leads, MayLead, Reads, Sets, Upsets, Equipment, MountedIn, BaseMounts, Emulated
    <3> QED  BY <3>6, <3>7
  <2> QED  BY <2>9, <2>10
<1>10. Does(u, y)
  BY <1>8, <1>9 DEF Does
<1> QED  BY <1>10 DEF u, y

LEMMA SwitchProgramDoes ==
    Does(ShutdownSteps \o <<Step("switch_channel", Native)>>, Step("program", Native))
<1> DEFINE x1 == Step("program", Native)
           s1 == ShutdownSteps
           x2 == Step("switch_channel", Native)
           s2 == <<x2>>
           y == Step("program", Native)
           u == ShutdownSteps \o <<Step("switch_channel", Native)>>
<1>1. /\ x1.op = "program" /\ x1.chroot = Native
      /\ x2.op = "switch_channel" /\ x2.chroot = Native
      /\ y.op = "program" /\ y.chroot = Native
  BY StepFacts
<1>2. x2 \in StepType
  BY ChrootsAreThree, StepTyped DEF Ops
<1>3. Does(s1, x1) /\ Does(s2, x2)
  <2>1. Does(s2, x2)
    BY <1>2, DoesItself
  <2>2. Does(s1, x1)
    BY ShutdownDoes
  <2> QED  BY <2>1, <2>2
<1>4. u = Then(s1, s2)
  BY DEF Then
<1> HIDE DEF x1, x2, s1, s2, y, u
<1>5. s1 \in Seq(StepType) /\ s2 \in Seq(StepType)
  BY <1>3 DEF Does
<1>6. u \in Seq(StepType)
  BY <1>4, <1>5, ThenTyped
<1>7. ASSUME NEW t \in Seq(StepType), Spared(y, t)
      PROVE  Leads(y, t, Then(u, t))
  <2> DEFINE t2 == Then(s2, t)
             t1 == Then(s1, t2)
  <2>1. Leads(x2, t, t2)
    <3>1. Spared(x2, t)
      BY <1>1, <1>7, Distinct
         DEF Spared, Leads, MayLead, Reads, Sets, Upsets, Equipment, MountedIn, BaseMounts, Emulated
    <3> QED  BY <1>3, <3>1, Put
  <2>2. Leads(x1, t2, t1)
    <3>1. Spared(x1, t2)
      BY <1>1, <1>7, <2>1, Distinct
         DEF Spared, Leads, MayLead, Reads, Sets, Upsets, Equipment, MountedIn, BaseMounts, Emulated
    <3> QED  BY <1>3, <3>1, Put
  <2>3. t1 \in Seq(StepType) /\ t2 \in Seq(StepType)
    BY <2>1, <2>2 DEF Leads, MayLead
  <2>4. t1 = Then(s1, t2) /\ t2 = Then(s2, t)
    OBVIOUS
  <2> HIDE DEF t1, t2
  <2>5. Then(u, t) = t1
    <3>1. Then(Then(s1, s2), t) = Then(s1, t2)
      BY <1>5, <1>6, <2>3, <2>4, Regrouped
    <3> QED  BY <1>4, <2>4, <3>1
  <2>6. Leads(y, t, t1)
    BY <1>1, <1>7, <2>1, <2>2, Distinct
       DEF Spared, Leads, MayLead, Reads, Sets, Upsets, Equipment, MountedIn, BaseMounts, Emulated
  <2> QED  BY <2>5, <2>6
<1>8. Does(u, y)
  BY <1>6, <1>7 DEF Does
<1> QED  BY <1>8 DEF u, y

LEMMA ChrootProgramDoes ==
    ASSUME NEW c \in Chroots
    PROVE  Does(<<Step("init", c), Step("run", c)>>, Step("program", Native))
<1> DEFINE x1 == Step("init", c)
           s1 == <<x1>>
           x2 == Step("run", c)
           s2 == <<x2>>
           g1 == <<x1, x2>>
           y == Step("program", Native)
           u == <<Step("init", c), Step("run", c)>>
<1>1. /\ x1.op = "init" /\ x1.chroot = c
      /\ x2.op = "run" /\ x2.chroot = c
      /\ y.op = "program" /\ y.chroot = Native
  BY StepFacts
<1>2. x1 \in StepType /\ x2 \in StepType
  BY ChrootsAreThree, StepTyped DEF Ops
<1>3. Does(s1, x1) /\ Does(s2, x2)
  BY <1>2, DoesItself
<1>4. u = g1
  OBVIOUS
<1>5. g1 = Then(s1, s2)
  BY <1>2, TwoApart
<1> HIDE DEF x1, x2, s1, s2, g1, y, u
<1>6. s1 \in Seq(StepType) /\ s2 \in Seq(StepType)
  BY <1>3 DEF Does
<1>7. g1 \in Seq(StepType) /\ u \in Seq(StepType)
  BY <1>4, <1>5, <1>6, ThenTyped
<1>8. ASSUME NEW t \in Seq(StepType), Spared(y, t)
      PROVE  Leads(y, t, Then(u, t))
  <2> DEFINE t2 == Then(s2, t)
             t1 == Then(s1, t2)
  <2>1. Leads(x2, t, t2)
    <3>1. Spared(x2, t)
      BY <1>1, <1>8, Distinct
         DEF Spared, Leads, MayLead, Reads, Sets, Upsets, Equipment, MountedIn, BaseMounts, Emulated
    <3> QED  BY <1>3, <3>1, Put
  <2>2. Leads(x1, t2, t1)
    <3>1. Spared(x1, t2)
      BY <1>1, <1>8, <2>1, Distinct
         DEF Spared, Leads, MayLead, Reads, Sets, Upsets, Equipment, MountedIn, BaseMounts, Emulated
    <3> QED  BY <1>3, <3>1, Put
  <2>3. t1 \in Seq(StepType) /\ t2 \in Seq(StepType)
    BY <2>1, <2>2 DEF Leads, MayLead
  <2>4. t1 = Then(s1, t2) /\ t2 = Then(s2, t)
    OBVIOUS
  <2> HIDE DEF t1, t2
  <2>5. Then(u, t) = t1
    BY <1>4, <1>5, <1>6, <2>3, <2>4, TwoJoined
  <2>6. Leads(y, t, t1)
    BY <1>1, <1>8, <2>1, <2>2, Distinct
       DEF Spared, Leads, MayLead, Reads, Sets, Upsets, Equipment, MountedIn, BaseMounts, Emulated
  <2> QED  BY <2>5, <2>6
<1>9. Does(u, y)
  BY <1>7, <1>8 DEF Does
<1> QED  BY <1>9 DEF u, y

LEMMA AddingProgramDoes ==
    ASSUME NEW c \in Chroots
    PROVE  Does(<<Step("install_build", c), Step("init", c), Step("run", c)>>, Step("program",
        Native))
<1> DEFINE x1 == Step("install_build", c)
           s1 == <<x1>>
           x2 == Step("init", c)
           s2 == <<x2>>
           x3 == Step("run", c)
           s3 == <<x3>>
           g1 == <<x1, x2, x3>>
           y == Step("program", Native)
           u == <<Step("install_build", c), Step("init", c), Step("run", c)>>
<1>1. /\ x1.op = "install_build" /\ x1.chroot = c
      /\ x2.op = "init" /\ x2.chroot = c
      /\ x3.op = "run" /\ x3.chroot = c
      /\ y.op = "program" /\ y.chroot = Native
  BY StepFacts
<1>2. x1 \in StepType /\ x2 \in StepType /\ x3 \in StepType
  BY ChrootsAreThree, StepTyped DEF Ops
<1>3. Does(s1, x1) /\ Does(s2, x2) /\ Does(s3, x3)
  BY <1>2, DoesItself
<1>4. u = g1
  OBVIOUS
<1>5. g1 = Then(Then(s1, s2), s3)
  BY <1>2, ThreeApart
<1> HIDE DEF x1, x2, x3, s1, s2, s3, g1, y, u
<1>6. s1 \in Seq(StepType) /\ s2 \in Seq(StepType) /\ s3 \in Seq(StepType)
  BY <1>3 DEF Does
<1>7. g1 \in Seq(StepType) /\ u \in Seq(StepType)
  BY <1>4, <1>5, <1>6, ThenTyped
<1>8. ASSUME NEW t \in Seq(StepType), Spared(y, t)
      PROVE  Leads(y, t, Then(u, t))
  <2> DEFINE t3 == Then(s3, t)
             t2 == Then(s2, t3)
             t1 == Then(s1, t2)
  <2>1. Leads(x3, t, t3)
    <3>1. Spared(x3, t)
      BY <1>1, <1>8, Distinct
         DEF Spared, Leads, MayLead, Reads, Sets, Upsets, Equipment, MountedIn, BaseMounts, Emulated
    <3> QED  BY <1>3, <3>1, Put
  <2>2. Leads(x2, t3, t2)
    <3>1. Spared(x2, t3)
      BY <1>1, <1>8, <2>1, Distinct
         DEF Spared, Leads, MayLead, Reads, Sets, Upsets, Equipment, MountedIn, BaseMounts, Emulated
    <3> QED  BY <1>3, <3>1, Put
  <2>3. Leads(x1, t2, t1)
    <3>1. Spared(x1, t2)
      BY <1>1, <1>8, <2>1, <2>2, Distinct
         DEF Spared, Leads, MayLead, Reads, Sets, Upsets, Equipment, MountedIn, BaseMounts, Emulated
    <3> QED  BY <1>3, <3>1, Put
  <2>4. t1 \in Seq(StepType) /\ t2 \in Seq(StepType) /\ t3 \in Seq(StepType)
    BY <2>1, <2>2, <2>3 DEF Leads, MayLead
  <2>5. t1 = Then(s1, t2) /\ t2 = Then(s2, t3) /\ t3 = Then(s3, t)
    OBVIOUS
  <2> HIDE DEF t1, t2, t3
  <2>6. Then(u, t) = t1
    BY <1>4, <1>5, <1>6, <2>4, <2>5, ThreeJoined
  <2>7. Leads(y, t, t1)
    <3> SUFFICES ASSUME NEW kind, NEW e, Relies(t1, kind, e),
                        ~Reads(y, Relies(t, "spare", Native), kind, e)
                 PROVE  Relies(t, kind, e) /\ ~Sets(y, kind, e)
      BY <2>3 DEF Leads, MayLead
    <3>1. Relies(t2, kind, e) /\ ~Sets(x1, kind, e)
      BY <1>1, <2>1, <2>2, <2>3, Distinct
         DEF Spared, Leads, MayLead, Reads, Sets, Upsets, Equipment, MountedIn, BaseMounts, Emulated
    <3>2. Relies(t3, kind, e) /\ ~Sets(x2, kind, e)
      <4>1. \/ Reads(x2, Relies(t3, "spare", Native), kind, e)
            \/ Relies(t3, kind, e) /\ ~Sets(x2, kind, e)
        BY <2>2, <3>1 DEF Leads, MayLead
      <4>2. Relies(t3, "spare", Native) =>
               Relies(t, "spare", Native) /\ ~Upsets(y, "spare", Native)
        BY <1>1, <1>8, <2>1, Distinct
           DEF Spared, Leads, MayLead, Reads, Sets, Upsets, Equipment, MountedIn, BaseMounts,
               Emulated
      <4> QED  BY <1>1, <3>1, <4>1, <4>2, Distinct
               DEF Reads, Sets, Upsets, Equipment, MountedIn, BaseMounts, Emulated
    <3>3. Relies(t, kind, e) /\ ~Sets(x3, kind, e)
      BY <1>1, <2>1, <2>2, <2>3, <3>1, <3>2, Distinct
         DEF Spared, Leads, MayLead, Reads, Sets, Upsets, Equipment, MountedIn, BaseMounts, Emulated
    <3>4. ~Sets(y, kind, e)
      BY <1>1, <3>1, <3>2, <3>3, Distinct
         DEF Spared, Leads, MayLead, Reads, Sets, Upsets, Equipment, MountedIn, BaseMounts, Emulated
    <3> QED  BY <3>3, <3>4
  <2> QED  BY <2>6, <2>7
<1>9. Does(u, y)
  BY <1>7, <1>8 DEF Does
<1> QED  BY <1>9 DEF u, y

LEMMA BuildProgramDoes ==
    ASSUME NEW b \in BOOLEAN
    PROVE  Does(When(b, ZapBuildrootsSteps) \o <<Step("packages", Native)>>, Step("program",
        Native))
<1> DEFINE x1 == Step("zap", Native)
           b1 == b
           r1 == ZapBuildrootsSteps
           s1 == When(b1, r1)
           x2 == Step("packages", Native)
           s2 == <<x2>>
           y == Step("program", Native)
           u == When(b, ZapBuildrootsSteps) \o <<Step("packages", Native)>>
<1>1. /\ x1.op = "zap" /\ x1.chroot = Native
      /\ x2.op = "packages" /\ x2.chroot = Native
      /\ y.op = "program" /\ y.chroot = Native
  BY StepFacts
<1>2. x2 \in StepType
  BY ChrootsAreThree, StepTyped DEF Ops
<1>3. b1 \in BOOLEAN /\ (b1 => Does(r1, x1)) /\ Does(s2, x2)
  <2>1. Does(s2, x2)
    BY <1>2, DoesItself
  <2>2. b1 \in BOOLEAN /\ (b1 => Does(r1, x1))
    BY ZapDoes
  <2> QED  BY <2>1, <2>2
<1>4. u = Then(s1, s2)
  BY DEF Then
<1> HIDE DEF x1, x2, s2, b1, r1, y, u
<1>5. s1 \in Seq(StepType) /\ s2 \in Seq(StepType)
  BY <1>3, WhenTyped DEF Does
<1> HIDE DEF s1
<1>6. u \in Seq(StepType)
  BY <1>4, <1>5, ThenTyped
<1>7. ASSUME NEW t \in Seq(StepType), Spared(y, t)
      PROVE  Leads(y, t, Then(u, t))
  <2> DEFINE t2 == Then(s2, t)
             t1 == Then(s1, t2)
  <2>1. Leads(x2, t, t2)
    <3>1. Spared(x2, t)
      BY <1>1, <1>7, Distinct
         DEF Spared, Leads, MayLead, Reads, Sets, Upsets, Equipment, MountedIn, BaseMounts, Emulated
    <3> QED  BY <1>3, <3>1, Put
  <2>2. MayLead(x1, t2, t1)
    <3>1. Spared(x1, t2)
      BY <1>1, <1>7, <2>1, Distinct
         DEF Spared, Leads, MayLead, Reads, Sets, Upsets, Equipment, MountedIn, BaseMounts, Emulated
    <3> QED  BY <1>3, <3>1, PutWhen DEF s1
  <2>3. t1 \in Seq(StepType) /\ t2 \in Seq(StepType)
    BY <2>1, <2>2 DEF Leads, MayLead
  <2>4. t1 = Then(s1, t2) /\ t2 = Then(s2, t)
    OBVIOUS
  <2> HIDE DEF t1, t2
  <2>5. Then(u, t) = t1
    <3>1. Then(Then(s1, s2), t) = Then(s1, t2)
      BY <1>5, <1>6, <2>3, <2>4, Regrouped
    <3> QED  BY <1>4, <2>4, <3>1
  <2>6. Leads(y, t, t1)
    BY <1>1, <1>7, <2>1, <2>2, Distinct
       DEF Spared, Leads, MayLead, Reads, Sets, Upsets, Equipment, MountedIn, BaseMounts, Emulated
  <2> QED  BY <2>5, <2>6
<1>8. Does(u, y)
  BY <1>6, <1>7 DEF Does
<1> QED  BY <1>8 DEF u, y
-----------------------------------------------------------------------------
(* What the steps that are left rely on holds.                             *)

HInv == IInv /\ Calm(todo) /\ Held

(* What is left of the program, once its first step is done. *)
Rest == Tail(todo)
Need == Relies(Rest, "spare", Native)

LEMMA HeadOfTodo ==
    ASSUME HInv, todo # <<>>
    PROVE  /\ Head(todo) = Step(Head(todo).op, C) /\ Head(todo) \in StepType
           /\ Head(todo).op \notin OnSets => C \in Chroots
           /\ Head(todo).op = "mount_native" => C = Buildroot
<1>1. StepOK(Head(todo)) /\ (Head(todo).op \notin OnSets => C \in Chroots)
  BY Running DEF HInv
<1>2. Head(todo) \in [op: Ops, chroot: Chroots \cup SUBSET Chroots]
  BY <1>1 DEF StepOK, StepType
<1>3. Head(todo) = [op |-> Head(todo).op, chroot |-> Head(todo).chroot]
  BY <1>2
<1> QED  BY <1>1, <1>3 DEF StepOK, Step, C

LEMMA TodoTyped ==
    ASSUME HInv
    PROVE  todo \in Seq(StepType) /\ Calm(todo)
  BY DEF HInv, IInv, Proper

(* What the first step relies on holds, and what the steps after it rely   *)
(* on holds unless the first step establishes it; it destroys none of it.  *)
LEMMA Demands ==
    ASSUME HInv, todo # <<>>
    PROVE  /\ Rest \in Seq(StepType) /\ Calm(Rest)
           /\ \A kind : \A c \in Chroots : Reads(Head(todo), Need, kind, c) => Holds(kind, c)
           /\ \A kind : \A c \in Chroots :
                 Relies(Rest, kind, c) => Sets(Head(todo), kind, c) \/ Holds(kind, c)
           /\ \A kind, c : Relies(Rest, kind, c) => ~Upsets(Head(todo), kind, c)
           /\ \A kind, c : Relies(Rest, kind, c) =>
                  Sets(Head(todo), kind, c) \/ Relies(todo, kind, c)
<1>1. /\ Rest \in Seq(StepType) /\ Calm(Rest)
      /\ \A kind, c : Reads(Head(todo), Need, kind, c) => Relies(todo, kind, c)
      /\ \A kind, c : Relies(Rest, kind, c) =>
            /\ Sets(Head(todo), kind, c) \/ Relies(todo, kind, c)
            /\ ~Upsets(Head(todo), kind, c)
  BY TodoTyped, Remainder DEF Rest, Need
<1>2. \A kind : \A c \in Chroots : Relies(todo, kind, c) => Holds(kind, c)
  BY DEF HInv, Held
<1> QED  BY <1>1, <1>2

(* The first step is done. *)
LEMMA Advance ==
    ASSUME HInv, todo # <<>>, Continue,
           \A kind : \A c \in Chroots :
              /\ Relies(Rest, kind, c)
              /\ ~Upsets(Head(todo), kind, c)
              /\ Sets(Head(todo), kind, c) \/ Holds(kind, c)
              => Holds(kind, c)'
    PROVE  Calm(todo') /\ Held'
<1>1. todo' = Rest
  BY DEF Continue, Rest
<1>2. Calm(todo')
  BY <1>1, Demands
<1>3. ASSUME NEW kind, NEW c \in Chroots, Relies(Rest, kind, c)
      PROVE  Holds(kind, c)'
  <2>1. ~Upsets(Head(todo), kind, c) /\ (Sets(Head(todo), kind, c) \/ Holds(kind, c))
    BY <1>3, Demands
  <2> QED  BY <1>3, <2>1
<1>4. Held'
  BY <1>1, <1>3 DEF Held
<1> QED  BY <1>2, <1>4

(* The first step is replaced by steps that do what y would. *)
LEMMA Expand ==
    ASSUME HInv, todo # <<>>, NEW s, NEW y, Does(s, y), Replace(s),
           \A kind, c : Relies(Rest, kind, c) => ~Upsets(y, kind, c),
           \A kind : \A c \in Chroots :
              Reads(y, Need, kind, c) \/ (Relies(Rest, kind, c) /\ ~Sets(y, kind, c)) =>
                 Holds(kind, c)'
    PROVE  Calm(todo') /\ Held'
<1>1. todo' = Then(s, Rest)
  BY DEF Replace, Rest, Then
<1>2. Spared(y, Rest)
  BY Demands DEF Spared
<1>3. Leads(y, Rest, todo')
  BY <1>1, <1>2, Put
<1>4. Calm(todo') /\ \A kind, c : Relies(todo', kind, c) =>
          Reads(y, Need, kind, c) \/ (Relies(Rest, kind, c) /\ ~Sets(y, kind, c))
  BY <1>3 DEF Leads, Need
<1>5. Held'
  BY <1>4 DEF Held
<1> QED  BY <1>4, <1>5

LEMMA Ended ==
    ASSUME Abort
    PROVE  Calm(todo') /\ Held'
  BY NothingRelied DEF Abort, Held

(* Nothing that could be relied on is changed, or only for the better. *)
Better ==
    /\ \A c \in Chroots : Exists(c)' <=> Exists(c)
    /\ \A c \in Chroots : \A what \in BaseMounts \cup {"qemu"} : Present(c, what) => Present(c, what)'
    /\ registered => registered'
    /\ record' = record /\ channel' = channel /\ cached' = cached
    /\ marker \subseteq marker' /\ skipped \subseteq skipped' /\ packages \subseteq packages'

LEMMA BetterHolds ==
    ASSUME Better, NEW kind, NEW c \in Chroots, Holds(kind, c)
    PROVE  Holds(kind, c)'
<1>1. /\ Exists(c)' <=> Exists(c)
      /\ \A what \in BaseMounts \cup {"qemu"} : Present(c, what) => Present(c, what)'
      /\ registered => registered'
      /\ record' = record /\ channel' = channel /\ cached' = cached
      /\ marker \subseteq marker' /\ skipped \subseteq skipped' /\ packages \subseteq packages'
  BY DEF Better
<1>2. Equipped(c) => Equipped(c)'
  BY <1>1 DEF Equipped, BaseMounts, Present
<1>3. IsMounted(c) => IsMounted(c)'
  BY <1>1 DEF IsMounted, BaseMounts, Present
<1>4. Tools => Tools'
  BY <1>1 DEF Tools
<1>5. kind \in MountedIn(c) => kind \in BaseMounts \cup {"qemu"}
  BY DEF MountedIn
<1> QED  BY <1>1, <1>2, <1>3, <1>4, <1>5 DEF Holds

(* A step that only makes things better, and what it establishes.          *)
LEMMA AdvanceBetter ==
    ASSUME HInv, todo # <<>>, Continue, Better,
           \A kind : \A c \in Chroots :
              Relies(Rest, kind, c) /\ Sets(Head(todo), kind, c) => Holds(kind, c)'
    PROVE  Calm(todo') /\ Held'
  BY Advance, BetterHolds

(* A call that is replaced by the steps of the function. *)
LEMMA Called ==
    ASSUME HInv, todo # <<>>, Better, NEW s, Does(s, Head(todo)), Replace(s)
    PROVE  Calm(todo') /\ Held'
<1>1. \A kind : \A c \in Chroots :
         Reads(Head(todo), Need, kind, c)
             \/ (Relies(Rest, kind, c) /\ ~Sets(Head(todo), kind, c)) =>
            Holds(kind, c)
  BY Demands
<1> QED  BY <1>1, Demands, Expand, BetterHolds

-----------------------------------------------------------------------------
(* The steps of chroot.init().                                             *)

LEMMA CallInitHeld ==
    ASSUME HInv, CallInit
    PROVE  Calm(todo') /\ Held'
<1>1. todo # <<>> /\ Head(todo).op = "init" /\ C = Head(todo).chroot
  BY DEF CallInit, At, C
<1>2. C \in Chroots /\ Head(todo) = Step("init", C)
  BY <1>1, HeadOfTodo DEF OnSets
<1>3. Better
  BY DEF CallInit, Better, disk, kernel, settings, memory, Exists, Present
<1>4. CASE C \notin cached
  <2>1. Replace(InitSteps(C))
    BY <1>4 DEF CallInit
  <2> QED  BY <1>1, <1>2, <1>3, <2>1, InitDoes, Called
<1>5. CASE C \in cached
  <2>1. Holds("sound", C) /\ (C = Rootfs => Holds("noted", C))
        /\ (C = Rootfs /\ Need => Holds("kept", Native))
    BY <1>1, <1>2, ChrootsAreThree, Demands DEF Reads
  <2>2. /\ Exists(C) /\ Equipped(C) /\ (C = Rootfs => C \in marker)
        /\ C = Rootfs /\ Need => Exists(Native) /\ Tools
    BY <1>5, <2>1 DEF Holds
  <2>3. ASSUME NEW kind, NEW c \in Chroots, Relies(Rest, kind, c), Sets(Head(todo), kind, c)
        PROVE  Holds(kind, c)
    <3>1. CASE c = C
      <4>1. kind \in Equipment(C) \cup {"sound", "fit", "seen", "open", "registered", "marked"}
            /\ (kind = "registered" => C \in Emulated) /\ (kind = "marked" => C = Rootfs)
            /\ (kind = "spare" => FALSE)
        BY <1>1, <2>3, <3>1, Distinct DEF Sets, Equipment, MountedIn, BaseMounts
      <4> QED  BY <2>2, <3>1, <4>1
               DEF Holds, Equipment, MountedIn, BaseMounts, Equipped, IsMounted, Present
    <3>2. CASE c # C
      <4>1. kind = "spare" /\ C = Rootfs /\ c = Native
        BY <1>1, <2>3, <3>2 DEF Sets
      <4>2. Need
        BY <2>3, <4>1 DEF Need
      <4> QED  BY <2>2, <4>1, <4>2 DEF Holds, MountedIn, BaseMounts
    <3> QED  BY <3>1, <3>2
  <2>4. Continue
    BY <1>5 DEF CallInit
  <2> QED  BY <1>1, <1>3, <2>3, <2>4, AdvanceBetter, BetterHolds
<1> QED  BY <1>4, <1>5

LEMMA CheckChannelHeld ==
    ASSUME HInv, CheckChannel
    PROVE  Calm(todo') /\ Held'
<1>1. todo # <<>> /\ Head(todo).op = "check_channel" /\ C = Head(todo).chroot
  BY DEF CheckChannel, At, C
<1>2. C \in Chroots
  BY <1>1, HeadOfTodo DEF OnSets
<1>3. CASE Abort
  BY <1>3, Ended
<1>4. CASE (~Exists(C) \/ record[C] = channel) /\ Continue /\ UNCHANGED memory
  <2>1. Better
    BY <1>4 DEF CheckChannel, Better, disk, kernel, settings, memory, Exists, Present
  <2>2. ASSUME NEW kind, NEW c \in Chroots, Sets(Head(todo), kind, c)
        PROVE  Holds(kind, c)
    <3>1. kind = "current" /\ c = C
      BY <1>1, <2>2 DEF Sets
    <3> QED  BY <1>4, <3>1 DEF Holds, MountedIn, BaseMounts
  <2> QED  BY <1>1, <1>4, <2>1, <2>2, AdvanceBetter, BetterHolds
<1>5. CASE /\ WrongChannel(C) /\ UNCHANGED memory
           /\ Replace(UmountAndRemove(C) \o <<Step("clean", Chroots)>>)
  <2> DEFINE x == Step("clean", Chroots)
             y == Step("deletion", C)
             t == Then(<<x>>, Rest)
             u == Then(UmountAndRemove(C), t)
  <2>1. /\ Rest \in Seq(StepType) /\ Calm(Rest)
        /\ \A kind : \A c \in Chroots : Relies(Rest, kind, c) =>
               Sets(Head(todo), kind, c) \/ Holds(kind, c)
        /\ \A kind, c : Relies(Rest, kind, c) => ~Upsets(Head(todo), kind, c)
    BY <1>1, Demands
  <2>2. Better
    BY <1>5 DEF CheckChannel, Better, disk, kernel, settings, memory, Exists, Present
  <2>3. x.op = "clean" /\ y.op = "deletion" /\ y.chroot = C
    BY StepFacts
  <2>4. Does(<<x>>, x) /\ Does(UmountAndRemove(C), y)
    BY <1>2, ChrootsAreThree, DoesStep, DeletionDoes DEF Ops
  <2> HIDE DEF x, y
  <2>5. Leads(x, Rest, t)
    <3>1. Spared(x, Rest)
      BY <2>1, <2>3 DEF Spared, Upsets
    <3> QED  BY <2>4, <3>1, Put
  <2>6. todo' = u
    <3>1. <<x>> \in Seq(StepType) /\ UmountAndRemove(C) \in Seq(StepType)
      BY <2>4 DEF Does
    <3>2. todo' = Then(Then(UmountAndRemove(C), <<x>>), Rest)
      BY <1>5 DEF Replace, Then, Rest, x
    <3> QED  BY <2>1, <3>1, <3>2, ThenAssociates
  <2> HIDE DEF t, u
  <2>7. ~Relies(Rest, "kept", Native) \/ C # Native
    <3>1. C = Native /\ Relies(Rest, "kept", Native) => Holds("kept", Native)
      BY <1>1, <1>2, <2>1 DEF Sets
    <3>2. C = Native => ~Holds("kept", Native)
      BY <1>5, ChannelsAssumption DEF WrongChannel, Holds
    <3> QED  BY <3>1, <3>2
  <2>8. ASSUME NEW kind, NEW c, Relies(t, kind, c)
        PROVE  Relies(Rest, kind, c) /\ ~Upsets(y, kind, c)
    <3>1. Relies(Rest, kind, c) /\ ~Upsets(Head(todo), kind, c)
      BY <2>1, <2>3, <2>5, <2>8 DEF Leads, Reads
    <3>2. Upsets(y, kind, c) =>
              Upsets(Head(todo), kind, c) \/ (kind = "kept" /\ c = Native /\ C = Native)
      BY <1>1, <2>3 DEF Upsets
    <3> QED  BY <2>7, <3>1, <3>2
  <2>9. Spared(y, t)
    BY <2>5, <2>8 DEF Spared, Leads
  <2>10. Leads(y, t, u)
    BY <2>4, <2>9, Put DEF u
  <2>11. ASSUME NEW kind, NEW c \in Chroots, Relies(u, kind, c)
         PROVE  Holds(kind, c)
    <3>1. Relies(t, kind, c) /\ ~Sets(y, kind, c)
      BY <2>3, <2>10, <2>11 DEF Leads, Reads
    <3>2. Sets(Head(todo), kind, c) => Sets(y, kind, c)
      BY <1>1, <2>3 DEF Sets
    <3> QED  BY <2>1, <2>8, <3>1, <3>2
  <2>12. Held'
    BY <2>2, <2>6, <2>11, BetterHolds DEF Held
  <2> QED  BY <2>6, <2>10, <2>12 DEF Leads
<1> QED  BY <1>3, <1>4, <1>5 DEF CheckChannel

(* Mounting, marking, installing packages, and running programs.           *)
LEMMA BetterStepHeld ==
    ASSUME HInv,
           \/ MountStep \/ AddPackages \/ Binfmt \/ BindQemu \/ MarkInChroot \/ CreateUsrMerge
           \/ AddUser \/ BuildInitDone \/ MountNative \/ BindSysroot \/ UmountSysroot
           \/ RunProgram \/ Partition \/ BindRootfs \/ CopyRootfs,
           ~Abort
    PROVE  Continue /\ Better
<1>1. /\ content \in [Chroots -> Contents]
             /\ (todo # <<>> /\ Head(todo).op \notin OnSets => C \in Chroots)
      /\ Prepared /\ Native \in Chroots /\ Buildroot \in Chroots
  BY HeadOfTodo, ChrootsAreThree DEF HInv, IInv, TypeOK
<1>2. CASE MountStep \/ BindQemu \/ MountNative \/ BindSysroot \/ BindRootfs \/ UmountSysroot
  <2>1. /\ record' = record /\ channel' = channel /\ cached' = cached
        /\ marker' = marker /\ skipped' = skipped /\ packages' = packages
               /\ registered' = registered
    BY <1>2 DEF MountStep, BindQemu, MountNative, BindSysroot, BindRootfs, UmountSysroot,
                disk, kernel, settings, memory, Continue, Abort, Forget
  <2>2. ASSUME NEW c \in Chroots PROVE content'[c] = content[c]
            \/ (content[c] = "absent" /\ content'[c] = "empty")
    BY <1>1, <1>2, <2>2
       DEF MountStep, BindQemu, MountNative, BindSysroot, BindRootfs, UmountSysroot,
           disk, MakeDirectory
  <2>3. ASSUME NEW c \in Chroots, NEW what \in BaseMounts \cup {"qemu"}, Present(c, what)
        PROVE  Present(c, what)'
    <3>1. <<c, what>> \in mounts => <<c, what>> \in mounts'
      BY <1>2
         DEF MountStep, BindQemu, MountNative, BindSysroot, BindRootfs, UmountSysroot, Mount,
             BaseMounts
    <3>2. <<c, what>> \in lost => <<c, what>> \in lost' \cup mounts'
      BY <1>2 DEF MountStep, BindQemu, MountNative, BindSysroot, BindRootfs, UmountSysroot,
                  memory, Abort
    <3> QED  BY <2>3, <3>1, <3>2 DEF Present
  <2>4. ASSUME NEW c \in Chroots PROVE Exists(c)' <=> Exists(c)
    BY <2>2 DEF Exists
  <2>5. Continue
    BY <1>2 DEF MountStep, BindQemu, MountNative, BindSysroot, BindRootfs, UmountSysroot
  <2> QED  BY <2>1, <2>3, <2>4, <2>5 DEF Better
<1>3. CASE AddPackages \/ Binfmt \/ MarkInChroot
  BY <1>3 DEF AddPackages, Binfmt, MarkInChroot, Better, disk, kernel, settings, memory, Exists, Present
<1>4. CASE BuildInitDone \/ RunProgram \/ Partition \/ CopyRootfs
  BY <1>4 DEF BuildInitDone, RunProgram, Partition, CopyRootfs, Better, disk, kernel, settings,
              memory, Exists, Present
<1>5. CASE CreateUsrMerge \/ AddUser
  BY <1>1, <1>5 DEF CreateUsrMerge, AddUser, Better, kernel, settings, memory, Exists, Prepared, Present
<1> QED  BY <1>2, <1>3, <1>4, <1>5

LEMMA BetterSteps ==
    ASSUME HInv,
           \/ MountStep \/ AddPackages \/ Binfmt \/ BindQemu \/ MarkInChroot \/ CreateUsrMerge
           \/ AddUser \/ BuildInitDone \/ MountNative \/ BindSysroot \/ UmountSysroot
           \/ RunProgram \/ Partition \/ BindRootfs \/ CopyRootfs
    PROVE  Calm(todo') /\ Held'
<1>1. CASE Abort
  BY <1>1, Ended
<1>2. CASE ~Abort
  <2>1. Continue /\ Better
    BY <1>2, BetterStepHeld
  <2>2. todo # <<>> /\ C = Head(todo).chroot
    BY DEF MountStep, AddPackages, Binfmt, BindQemu, MarkInChroot, CreateUsrMerge, AddUser,
           BuildInitDone, MountNative, BindSysroot, UmountSysroot, RunProgram, Partition,
           BindRootfs, CopyRootfs, At, C
  <2>3. ASSUME NEW kind, NEW c \in Chroots, Sets(Head(todo), kind, c)
        PROVE  Holds(kind, c)'
    <3>1. CASE MountStep \/ BindQemu
      <4>1. c = C /\ kind \in {"dev", "keys", "packages", "qemu"} /\ <<c, kind>> \in mounts'
        BY <1>2, <2>2, <2>3, <3>1 DEF MountStep, BindQemu, At, Sets, Mount
      <4> QED  BY <4>1 DEF Holds, MountedIn, BaseMounts, Present
    <3>2. CASE Binfmt
      <4>1. kind = "registered" /\ registered'
        BY <2>3, <3>2 DEF Binfmt, At, Sets
      <4> QED  BY <4>1 DEF Holds, MountedIn, BaseMounts
    <3>3. CASE MarkInChroot
      <4>1. kind = "marked" /\ c \in marker'
        BY <2>2, <2>3, <3>3 DEF MarkInChroot, At, Sets
      <4> QED  BY <4>1 DEF Holds, MountedIn, BaseMounts
    <3>4. CASE AddPackages
      <4>1. /\ Head(todo).op = "add_tools" /\ c = Native /\ kind \in {"tools", "spare", "kept"}
            /\ packages' = packages \cup {"install_native_packages"}
        BY <2>3, <3>4 DEF AddPackages, At, Sets
      <4>2. Holds("there", Native) /\ Holds("current", Native)
        BY <2>2, <4>1, ChrootsAreThree, Demands DEF Reads
      <4>3. Exists(Native) /\ record[Native] = channel
        BY <4>2 DEF Holds
      <4>4. Exists(Native)' /\ record' = record /\ channel' = channel
        BY <2>1, <4>3, ChrootsAreThree DEF Better
      <4> QED  BY <4>1, <4>3, <4>4 DEF Holds, MountedIn, BaseMounts, Tools
    <3>5. CASE MountNative
      <4>1. c = C /\ kind \in {"there", "seen"} /\ Exists(C)
        BY <1>2, <2>2, <2>3, <3>5 DEF MountNative, At, Sets
      <4>2. Exists(c)'
        BY <2>1, <4>1 DEF Better
      <4> QED  BY <4>1, <4>2 DEF Holds, MountedIn, BaseMounts
    <3>6. CASE \/ CreateUsrMerge \/ AddUser \/ BuildInitDone \/ BindSysroot \/ UmountSysroot
               \/ RunProgram \/ Partition \/ BindRootfs \/ CopyRootfs
      BY <2>3, <3>6
         DEF CreateUsrMerge, AddUser, BuildInitDone, BindSysroot, UmountSysroot, RunProgram,
             Partition, BindRootfs, CopyRootfs, At, Sets
    <3> QED  BY <3>1, <3>2, <3>3, <3>4, <3>5, <3>6
  <2> QED  BY <2>1, <2>2, <2>3, AdvanceBetter
<1> QED  BY <1>1, <1>2

(* Putting the rootfs into an image. *)
LEMMA CreateImageHeld ==
    ASSUME HInv, CreateImage
    PROVE  Calm(todo') /\ Held'
<1>1. todo # <<>> /\ Head(todo).op = "create_image"
  BY DEF CreateImage, At
<1>2. Better
  BY DEF CreateImage, Better, kernel, settings, memory, Exists, Present
<1>3. \A kind, c : ~Sets(Head(todo), kind, c)
  BY <1>1 DEF Sets
<1>4. CASE Continue
  BY <1>1, <1>2, <1>3, <1>4, AdvanceBetter
<1>5. CASE Replace(When("image" \in packages, <<Step("umount_mnt", Native)>>))
  <2>1. CASE "image" \notin packages
    <3>1. todo' = <<>> \o Tail(todo)
      BY <1>5, <2>1 DEF When, Replace
    <3>2. Tail(todo) \in Seq(StepType)
      BY <1>1, Demands DEF Rest
    <3>3. Continue
      BY <3>1, <3>2, ConcatEmptySeq DEF Continue
    <3> QED  BY <1>4, <3>3
  <2>2. CASE "image" \in packages
    <3> DEFINE y == Step("umount_mnt", Native)
    <3>1. Replace(<<y>>)
      BY <1>5, <2>2 DEF When
    <3>2. Does(<<y>>, y) /\ y.op = "umount_mnt"
      BY ChrootsAreThree, DoesStep, StepFacts DEF Ops
    <3> HIDE DEF y
    <3>3. \A kind, c, need : ~Upsets(y, kind, c) /\ ~Sets(y, kind, c) /\ ~Reads(y, need, kind, c)
      BY <3>2 DEF Upsets, Sets, Reads
    <3>4. \A kind : \A c \in Chroots :
             Reads(y, Need, kind, c) \/ (Relies(Rest, kind, c) /\ ~Sets(y, kind, c)) =>
                 Holds(kind, c)'
      BY <1>1, <1>2, <1>3, <3>3, Demands, BetterHolds
    <3> QED  BY <1>1, <3>1, <3>2, <3>3, <3>4, Expand
  <2> QED  BY <2>1, <2>2
<1> QED  BY <1>4, <1>5 DEF CreateImage

LEMMA UmountMntHeld ==
    ASSUME HInv, UmountMnt
    PROVE  Calm(todo') /\ Held'
<1>1. todo # <<>> /\ Head(todo).op = "umount_mnt"
  BY DEF UmountMnt, At
<1>2. ASSUME NEW c \in Chroots, NEW what \in BaseMounts \cup {"qemu"}, Present(c, what)
      PROVE  Present(c, what)'
  <2>1. CASE mounts' = mounts /\ lost' = lost
    BY <1>2, <2>1 DEF Present
  <2>2. CASE /\ \E gone \in BelowMnt : mounts' = mounts \ {<<C, gone>>}
             /\ lost' = lost \cup ({<<C, "packages">>} \cap (mounts \ mounts'))
    <3>1. PICK gone \in BelowMnt : mounts' = mounts \ {<<C, gone>>}
      BY <2>2
    <3>2. <<c, what>> \in mounts \ mounts' => what = "packages" /\ c = C
      BY <3>1 DEF BelowMnt, BaseMounts
    <3>3. <<c, what>> \in mounts \ mounts' => <<c, what>> \in lost'
      BY <2>2, <3>2
    <3> QED  BY <1>2, <2>2, <3>2, <3>3 DEF Present
  <2> QED  BY <2>1, <2>2 DEF UmountMnt, NextUmount
<1>3. Better
  BY <1>2 DEF UmountMnt, Better, disk, settings, Exists
<1>4. CASE Continue
  <2>1. \A kind, c : ~Sets(Head(todo), kind, c)
    BY <1>1 DEF Sets
  <2> QED  BY <1>1, <1>3, <1>4, <2>1, AdvanceBetter
<1>5. CASE todo' = todo
  BY <1>3, <1>5, BetterHolds DEF HInv, Held
<1> QED  BY <1>4, <1>5 DEF UmountMnt

LEMMA RegisterHeld ==
    ASSUME HInv, Register
    PROVE  Calm(todo') /\ Held'
<1>1. todo # <<>> /\ Head(todo).op = "register"
  BY DEF Register, At
<1>2. C \in Chroots /\ Head(todo) = Step("register", C)
  BY <1>1, HeadOfTodo DEF OnSets
<1>3. Better
  BY DEF Register, Better, disk, kernel, settings, memory, Exists, Present
<1> QED  BY <1>1, <1>2, <1>3, RegisterDoes, Called DEF Register

LEMMA SetupHeld ==
    ASSUME HInv, Setup
    PROVE  Calm(todo') /\ Held'
<1>1. todo # <<>> /\ Head(todo).op = "setup" /\ C = Head(todo).chroot
  BY DEF Setup, At, C
<1>2. C \in Chroots /\ Head(todo) = Step("setup", C)
  BY <1>1, HeadOfTodo DEF OnSets
<1>3. Better
  BY DEF Setup, Better, disk, kernel, settings, memory, Exists, Present
<1>4. CASE ~Exists(C)
  <2>1. Replace(CreateSteps(C))
    BY <1>4 DEF Setup, When
  <2> QED  BY <1>1, <1>2, <1>3, <2>1, CreateDoes, Called
<1>5. CASE Exists(C)
  <2>1. Continue
    <3>1. todo' = <<>> \o Tail(todo)
      BY <1>5 DEF Setup, When, Replace
    <3>2. Tail(todo) \in Seq(StepType)
      BY <1>1, Demands DEF Rest
    <3> QED  BY <3>1, <3>2, ConcatEmptySeq DEF Continue
  <2>2. ASSUME NEW kind, NEW c \in Chroots, Sets(Head(todo), kind, c)
        PROVE  Holds(kind, c)
    <3>1. kind = "there" /\ c = C
      BY <1>1, <2>2 DEF Sets
    <3> QED  BY <1>5, <3>1 DEF Holds, MountedIn, BaseMounts
  <2> QED  BY <1>1, <1>3, <2>1, <2>2, AdvanceBetter, BetterHolds
<1> QED  BY <1>4, <1>5

LEMMA SaveInitHeld ==
    ASSUME HInv, ChrootSaveInit
    PROVE  Calm(todo') /\ Held'
<1>1. todo # <<>> /\ Head(todo).op = "save_init" /\ C = Head(todo).chroot /\ C \in Chroots
  BY HeadOfTodo DEF ChrootSaveInit, At, C, OnSets
<1>2. /\ Continue /\ UNCHANGED <<content, marker, packages, mounts, lost, registered, channel, cached,
             skipped>>
  BY DEF ChrootSaveInit, kernel, settings, memory
<1>3. \A c \in Chroots : record[c] = channel => record'[c] = channel
  BY DEF ChrootSaveInit, HInv, IInv, TypeOK
<1>4. ASSUME NEW kind, NEW c \in Chroots, Sets(Head(todo), kind, c) \/ Holds(kind, c)
      PROVE  Holds(kind, c)'
  <2>1. Holds(kind, c)
    BY <1>1, <1>4 DEF Sets
  <2> QED  BY <1>2, <1>3, <2>1 DEF Holds, Equipped, Exists, IsMounted, Tools, Present
<1> QED  BY <1>1, <1>2, <1>4, Advance

LEMMA ApkInitdbHeld ==
    ASSUME HInv, ApkInitdb
    PROVE  Calm(todo') /\ Held'
<1>1. todo # <<>> /\ Head(todo).op = "apk_initdb" /\ C = Head(todo).chroot /\ C \in Chroots
  BY HeadOfTodo DEF ApkInitdb, At, C, OnSets
<1>2. Continue /\ UNCHANGED <<record, marker, packages, mounts, lost, registered, channel, cached,
          skipped>>
  BY DEF ApkInitdb, kernel, settings, memory
<1>3. /\ ~Exists(C) /\ record[C] = channel
      /\ \A c \in Chroots : IF c = C THEN Exists(c)' ELSE Exists(c)' <=> Exists(c)
  <2>1. At("apk_initdb") /\ content' = [content EXCEPT ![C] = "shell"]
    BY DEF ApkInitdb
  <2>2. content \in [Chroots -> Contents] /\ ~Exists(C) /\ record[C] = channel
    BY <2>1 DEF HInv, IInv, TypeOK, Prepared
  <2>3. content'[C] = "shell" /\ \A c \in Chroots : c # C => content'[c] = content[c]
    BY <1>1, <2>1, <2>2
  <2> QED  BY <2>2, <2>3 DEF Exists
<1>4. ASSUME NEW kind, NEW c \in Chroots, ~Upsets(Head(todo), kind, c),
             Sets(Head(todo), kind, c) \/ Holds(kind, c)
      PROVE  Holds(kind, c)'
  <2>1. CASE c # C
    <3>1. Holds(kind, c)
      BY <1>1, <1>4, <2>1 DEF Sets
    <3> QED  BY <1>2, <1>3, <2>1, <3>1 DEF Holds, Equipped, IsMounted, Tools, Present
  <2>2. CASE c = C
    <3>1. kind = "there" \/ (Holds(kind, c) /\ kind # "fit" /\ (c = Native => kind # "spare"))
      <4>1. Sets(Head(todo), kind, c) => kind = "there"
        BY <1>1 DEF Sets
      <4>2. kind = "fit" \/ (c = Native /\ kind = "spare") => Upsets(Head(todo), kind, c)
        BY <1>1, <2>2 DEF Upsets
      <4> QED  BY <1>4, <4>1, <4>2
    <3>2. CASE kind = "there"
      BY <1>3, <2>2, <3>2 DEF Holds, MountedIn, BaseMounts
    <3>3. CASE Holds(kind, c) /\ kind # "fit" /\ (c = Native => kind # "spare")
      <4>1. Equipped(c)' = Equipped(c) /\ Tools' = Tools
        BY <1>2 DEF Equipped, Tools, Present
      <4> QED  BY <1>2, <1>3, <2>2, <3>3, <4>1 DEF Holds, IsMounted, Present
    <3> QED  BY <3>1, <3>2, <3>3
  <2> QED  BY <2>1, <2>2
<1> QED  BY <1>1, <1>2, <1>4, Advance

LEMMA CacheInitHeld ==
    ASSUME HInv, CacheInit
    PROVE  Calm(todo') /\ Held'
<1>1. todo # <<>> /\ Head(todo).op = "cache" /\ C = Head(todo).chroot /\ C \in Chroots
  BY HeadOfTodo DEF CacheInit, At, C, OnSets
<1>2. /\ Continue /\ cached' = cached \cup {C}
      /\ UNCHANGED <<content, record, marker, packages, mounts, lost, registered, channel, skipped>>
  BY DEF CacheInit, disk, kernel, settings
<1>3. /\ \A kind \in Equipment(C) \cup {"marked"} : Holds(kind, C)
      /\ C \in Emulated => Holds("registered", C)
      /\ C = Rootfs /\ Need => Holds("kept", Native)
  <2>1. Native \in Chroots
    BY ChrootsAreThree
  <2> QED  BY <1>1, <2>1, Demands DEF Reads
<1>4. /\ Exists(C) /\ Equipped(C) /\ C \in marker
      /\ C = Rootfs /\ Need => Exists(Native) /\ Tools
  <2>1. \A kind \in MountedIn(C) : Present(C, kind)
    BY <1>3 DEF Holds, Equipment
  <2>2. Holds("there", C) /\ Holds("current", C) /\ Holds("marked", C)
    BY <1>3 DEF Equipment
  <2>3. Exists(C) /\ record[C] = channel /\ C \in marker
    BY <2>2 DEF Holds
  <2>4. C \in Emulated => registered
    BY <1>3 DEF Holds
  <2>5. Equipped(C)
    BY <2>1, <2>3, <2>4 DEF Equipped, MountedIn, BaseMounts, Present
  <2> QED  BY <1>3, <2>3, <2>5 DEF Holds
<1>5. \A c : Exists(c)' = Exists(c) /\ Equipped(c)' = Equipped(c) /\ IsMounted(c)' = IsMounted(c)
          /\ Tools' = Tools
  BY <1>2 DEF Exists, Equipped, IsMounted, Tools, Present
<1>6. ASSUME NEW kind, NEW c \in Chroots, Relies(Rest, kind, c),
             Sets(Head(todo), kind, c) \/ Holds(kind, c)
      PROVE  Holds(kind, c)'
  <2>1. CASE c = C /\ kind \in {"sound", "fit", "seen", "open", "noted"}
    <3>1. <<c, "keys">> \in mounts
      BY <1>4, <2>1 DEF Equipped, Present, BaseMounts
    <3> QED  BY <1>2, <1>4, <1>5, <2>1, <3>1 DEF Holds, MountedIn, BaseMounts, IsMounted
  <2>2. CASE c = Native /\ C = Rootfs /\ kind = "spare"
    <3>1. Need
      BY <1>6, <2>2 DEF Need
    <3> QED  BY <1>4, <1>5, <2>2, <3>1 DEF Holds, MountedIn, BaseMounts
  <2>3. CASE Holds(kind, c) /\ ~(c = C /\ kind \in {"sound", "noted"})
    BY <1>2, <1>5, <2>3 DEF Holds, Present
  <2> QED  BY <1>1, <1>6, <2>1, <2>2, <2>3 DEF Sets
<1> QED  BY <1>1, <1>2, <1>6, Advance

-----------------------------------------------------------------------------
(* Shutting down, deleting, and calls that build or install.               *)

LEMMA UmountAllHeld ==
    ASSUME HInv, UmountAll
    PROVE  Calm(todo') /\ Held'
<1>1. todo # <<>> /\ Head(todo).op = "umount_all" /\ C = Head(todo).chroot /\ C \in Chroots
  BY HeadOfTodo DEF UmountAll, At, C, OnSets
<1>2. CASE MountsIn(C) = {}
  <2>1. Continue /\ Better
    BY <1>2 DEF UmountAll, Better, disk, settings, memory, Exists, Present
  <2>2. \A kind, c : ~Sets(Head(todo), kind, c)
    BY <1>1 DEF Sets
  <2> QED  BY <1>1, <2>1, <2>2, AdvanceBetter
<1>3. CASE MountsIn(C) # {}
  <2>1. todo' = todo
    BY <1>3 DEF UmountAll
  <2>2. UNCHANGED <<content, record, marker, packages, registered, channel, cached, skipped, lost>>
    BY DEF UmountAll, disk, settings, memory
  <2>3. \A c \in Chroots : \A what : c # C => (<<c, what>> \in mounts' <=> <<c, what>> \in mounts)
    BY <1>3 DEF UmountAll
  <2>4. ASSUME NEW kind, NEW c \in Chroots, Relies(todo, kind, c)
        PROVE  Relies(Rest, kind, c)
    <3>1. todo = <<Head(todo)>> \o Rest
      BY <1>1, TodoTyped, HeadTailProperties DEF Rest
    <3>2. /\ Head(todo) \in StepType /\ Rest \in Seq(StepType) /\ Calm(Rest)
          /\ \A k, d : Relies(Rest, k, d) => ~Upsets(Head(todo), k, d)
      BY <1>1, HeadOfTodo, Demands
    <3>3. Reads(Head(todo), Need, kind, c) \/ Relies(Rest, kind, c)
      BY <2>4, <3>1, <3>2, Prepended DEF Need
    <3> QED  BY <1>1, <3>3 DEF Reads
  <2>5. ASSUME NEW kind, NEW c \in Chroots, Relies(todo, kind, c)
        PROVE  Holds(kind, c)'
    <3>1. Holds(kind, c) /\ ~Upsets(Head(todo), kind, c)
      BY <1>1, <2>4, <2>5, Demands DEF HInv, Held
    <3>2. Exists(c)' = Exists(c) /\ Tools' = Tools
      BY <2>2 DEF Exists, Tools
    <3>3. CASE c # C
      <4>1. \A what : <<c, what>> \in mounts' <=> <<c, what>> \in mounts
        BY <2>3, <3>3
      <4>2. Equipped(c)' <=> Equipped(c)
        BY <2>2, <4>1 DEF Equipped, Present
      <4>3. IsMounted(c)' <=> IsMounted(c)
        BY <3>2, <4>1 DEF IsMounted
      <4> QED  BY <2>2, <3>1, <3>2, <4>1, <4>2, <4>3 DEF Holds, Present
    <3>4. CASE c = C
      <4>1. kind \notin MountedIn(c) \cup {"open", "sound", "fit"}
        BY <1>1, <3>1, <3>4 DEF Upsets
      <4> QED  BY <2>2, <3>1, <3>2, <4>1 DEF Holds
    <3> QED  BY <3>3, <3>4
  <2> QED  BY <2>1, <2>5, TodoTyped DEF Held
<1> QED  BY <1>2, <1>3

LEMMA RemoveHeld ==
    ASSUME HInv, RemoveChroot
    PROVE  Calm(todo') /\ Held'
<1>1. todo # <<>> /\ Head(todo).op = "remove" /\ C = Head(todo).chroot /\ C \in Chroots
  BY HeadOfTodo DEF RemoveChroot, At, C, OnSets
<1>2. Continue /\ UNCHANGED <<record, registered, channel, cached, skipped, lost>>
  BY DEF RemoveChroot, settings, memory
<1>3. /\ \A c \in Chroots : IF c = C THEN ~Exists(c)' ELSE Exists(c)' <=> Exists(c)
      /\ marker' = marker \ {C} /\ (C # Native => packages' = packages)
  BY <1>1 DEF RemoveChroot, HInv, IInv, TypeOK, Exists
<1>4. ASSUME NEW c \in Chroots, NEW what \in BaseMounts \cup {"qemu"}, Present(c, what)
      PROVE  Present(c, what)'
  <2>1. what # "native" /\ <<c, what>>[2] = what
    BY DEF BaseMounts
  <2>2. <<c, what>> \in mounts => <<c, what>> \in mounts'
    BY <2>1 DEF RemoveChroot
  <2> QED  BY <1>2, <1>4, <2>2 DEF Present
<1>5. ASSUME NEW kind, NEW c \in Chroots, ~Upsets(Head(todo), kind, c),
             Sets(Head(todo), kind, c) \/ Holds(kind, c)
      PROVE  Holds(kind, c)'
  <2>1. kind \in MountedIn(c) => kind \in BaseMounts \cup {"qemu"}
    BY DEF MountedIn
  <2>2. Equipped(c) => Equipped(c)'
    BY <1>2, <1>4 DEF Equipped, BaseMounts, Present
  <2>3. CASE c # C
    <3>1. Holds(kind, c) /\ (C = Native => ~(c = Native /\ kind \in {"tools", "kept"}))
      BY <1>1, <1>5, <2>3 DEF Sets
    <3>2. (Exists(c)' <=> Exists(c)) /\ (IsMounted(c) => IsMounted(c)')
      <4>1. Present(c, "keys") => Present(c, "keys")'
        BY <1>4 DEF BaseMounts
      <4>2. <<c, "keys">> \in mounts => <<c, "keys">> \in mounts'
        BY <4>1 DEF Present
      <4> QED  BY <1>3, <2>3, <4>2 DEF IsMounted
    <3>3. (c \in marker' <=> c \in marker) /\ (c = Native => (Tools' <=> Tools))
      BY <1>3, <2>3 DEF Tools
    <3> QED  BY <1>2, <1>4, <2>1, <2>2, <3>1, <3>2, <3>3 DEF Holds
  <2>4. CASE c = C
    <3>1. kind \notin {"there", "open", "seen", "sound", "marked", "noted"}
          /\ (c = Native => kind \notin {"tools", "kept"})
      BY <1>1, <1>5, <2>4 DEF Upsets
    <3>2. ~Exists(c)'
      BY <1>3, <2>4
    <3>3. Sets(Head(todo), kind, c) => kind \in {"current", "fit", "spare"}
      BY <1>1 DEF Sets
    <3>4. kind \in MountedIn(c) \cup {"registered"} => Holds(kind, c)
      BY <1>5, <3>3 DEF MountedIn, BaseMounts
    <3> QED  BY <1>2, <1>4, <2>1, <3>1, <3>2, <3>4 DEF Holds
  <2> QED  BY <2>3, <2>4
<1> QED  BY <1>1, <1>2, <1>5, Advance

(* remove_markers, unregister, clean, cache_clear, remove_marker, and the  *)
(* other channel. *)
LEMMA ShutdownHeld ==
    ASSUME HInv, RemoveMarkers \/ Unregister \/ Clean \/ CacheClear \/ SwitchChannel
        \/ RemoveRootfsMarker
    PROVE  Calm(todo') /\ Held'
<1>1. todo # <<>> /\ C = Head(todo).chroot
  BY DEF RemoveMarkers, Unregister, Clean, CacheClear, SwitchChannel, RemoveRootfsMarker, At, C
<1>2. CASE Abort
  BY <1>2, Ended
<1>3. CASE ~Abort
  <2>1. Continue /\ UNCHANGED <<content, packages, mounts, skipped, lost>>
    BY <1>3 DEF RemoveMarkers, Unregister, Clean, CacheClear, SwitchChannel, RemoveRootfsMarker,
                disk, kernel, memory
  <2>2. \A c : Exists(c)' = Exists(c) /\ IsMounted(c)' = IsMounted(c) /\ Tools' = Tools
    BY <2>1 DEF Exists, IsMounted, Tools
  <2>3. ASSUME NEW kind, NEW c \in Chroots, ~Upsets(Head(todo), kind, c),
               Sets(Head(todo), kind, c) \/ Holds(kind, c)
        PROVE  Holds(kind, c)'
    <3>1. CASE RemoveMarkers \/ RemoveRootfsMarker
      <4>1. UNCHANGED <<record, channel, registered, cached>>
        BY <1>3, <3>1 DEF RemoveMarkers, RemoveRootfsMarker, kernel, settings, memory
      <4>2. Holds(kind, c)
        BY <2>3, <3>1 DEF RemoveMarkers, RemoveRootfsMarker, At, Sets
      <4>3. kind \in {"marked", "noted"} => (c \in marker' <=> c \in marker)
        BY <1>1, <1>3, <2>3, <3>1 DEF RemoveMarkers, RemoveRootfsMarker, At, Upsets
      <4>4. Equipped(c)' = Equipped(c)
        BY <2>1, <4>1 DEF Equipped, Present
      <4> QED  BY <2>1, <2>2, <4>1, <4>2, <4>3, <4>4 DEF Holds, Present
    <3>2. CASE Unregister
      <4>1. UNCHANGED <<record, channel, marker, cached>>
        BY <3>2 DEF Unregister, disk, settings, memory
      <4>2. Holds(kind, c) /\ kind \notin {"registered", "fit", "sound"}
        BY <2>3, <3>2 DEF Unregister, At, Sets, Upsets
      <4> QED  BY <2>1, <2>2, <4>1, <4>2 DEF Holds, Present
    <3>3. CASE Clean
      <4>1. UNCHANGED <<channel, marker, cached, registered>>
        BY <3>3 DEF Clean, kernel, settings, memory
      <4>2. Holds(kind, c)
        BY <2>3, <3>3 DEF Clean, At, Sets
      <4>3. Exists(c) => record'[c] = record[c]
        BY <3>3 DEF Clean, Exists
      <4>4. Exists(c) => Equipped(c)' = Equipped(c)
        BY <2>1, <4>1, <4>3 DEF Equipped, Present
      <4> QED  BY <2>1, <2>2, <4>1, <4>2, <4>3, <4>4 DEF Holds, Present
    <3>4. CASE CacheClear
      <4>1. UNCHANGED <<channel, marker, record, registered>> /\ cached' = {}
        BY <3>4 DEF CacheClear, disk, kernel, settings
      <4>2. Holds(kind, c) \/ kind \in {"sound", "noted"}
        BY <2>3, <3>4 DEF CacheClear, At, Sets
      <4>3. Equipped(c)' = Equipped(c)
        BY <2>1, <4>1 DEF Equipped, Present
      <4> QED  BY <2>1, <2>2, <4>1, <4>2, <4>3 DEF Holds, MountedIn, BaseMounts, Present
    <3>5. CASE SwitchChannel
      <4>1. UNCHANGED <<record, marker, registered, cached>>
        BY <3>5 DEF SwitchChannel, disk, kernel, memory
      <4>2. Holds(kind, c) /\ kind \notin {"current", "fit", "sound", "kept"}
        BY <2>3, <3>5 DEF SwitchChannel, At, Sets, Upsets
      <4> QED  BY <2>1, <2>2, <4>1, <4>2 DEF Holds, Present
    <3> QED  BY <3>1, <3>2, <3>3, <3>4, <3>5
  <2> QED  BY <1>1, <2>1, <2>3, Advance
<1> QED  BY <1>2, <1>3

(* Steps that need the native chroot spare the device rootfs, too.         *)
LEMMA OpenIsNeeded ==
    ASSUME NEW t \in Seq(StepType), Relies(t, "spare", Native)
    PROVE  Relies(t, "open", Rootfs)
<1>1. PICK k \in 1..Len(t) :
           Reads(t[k], After(t, k), "spare", Native)
               /\ \A i \in 1..k-1 : ~Sets(t[i], "spare", Native)
  BY DEF Relies
<1>2. t[k].op = "ensure_native"
  BY <1>1 DEF Reads, Equipment, MountedIn, BaseMounts
<1>3. Reads(t[k], After(t, k), "open", Rootfs)
  BY <1>2 DEF Reads
<1>4. \A x : Sets(x, "open", Rootfs) => Sets(x, "spare", Native)
  BY DEF Sets, Equipment, MountedIn, BaseMounts
<1> QED  BY <1>1, <1>3, <1>4 DEF Relies

LEMMA InstallHeld ==
    ASSUME HInv, Install
    PROVE  Calm(todo') /\ Held'
<1>1. todo # <<>> /\ Head(todo).op = "install" /\ C = Head(todo).chroot /\ C \in Chroots
  BY HeadOfTodo DEF Install, At, C, OnSets
<1>2. Better
  BY DEF Install, Better, disk, kernel, settings, memory, Exists, Present
<1>3. CASE ~IsMounted(C)
  <2> DEFINE y == Step("init", C)
  <2>1. Replace(<<y, Step("apk_add", C)>>)
    <3>1. Replace(<<y>> \o <<Step("apk_add", C)>>)
      BY <1>1, <1>3 DEF Install, When, NotInitialized, At
    <3>2. <<y>> \o <<Step("apk_add", C)>> = <<y, Step("apk_add", C)>>
      <4>1. y \in StepType /\ Step("apk_add", C) \in StepType
        BY <1>1, StepTyped DEF Ops
      <4> QED  BY <4>1, TwoApart DEF Then
    <3> QED  BY <3>1, <3>2
  <2>2. Does(<<y, Step("apk_add", C)>>, y) /\ y.op = "init" /\ y.chroot = C
    BY <1>1, InstallDoes, StepFacts
  <2> HIDE DEF y
  <2>3. ~(C = Rootfs /\ Need)
    <3>1. ASSUME C = Rootfs, Need PROVE FALSE
      <4>1. Rest \in Seq(StepType)
        BY <1>1, Demands
      <4>2. Relies(Rest, "open", Rootfs)
        BY <3>1, <4>1, OpenIsNeeded DEF Need
      <4>3. Holds("open", Rootfs)
        BY <1>1, <4>2, ChrootsAreThree, Demands DEF Sets
      <4> QED  BY <1>3, <3>1, <4>3 DEF Holds
    <3> QED  BY <3>1
  <2>4. ASSUME NEW kind, NEW c, Relies(Rest, kind, c)
        PROVE  ~Upsets(y, kind, c)
    <3>1. ~Upsets(Head(todo), kind, c)
      BY <1>1, <2>4, Demands
    <3>2. Upsets(y, kind, c) => Upsets(Head(todo), kind, c)
      BY <1>1, <2>2 DEF Upsets
    <3> QED  BY <3>1, <3>2
  <2>5. ASSUME NEW kind, NEW c \in Chroots,
               Reads(y, Need, kind, c) \/ (Relies(Rest, kind, c) /\ ~Sets(y, kind, c))
        PROVE  Holds(kind, c)
    <3>1. CASE Reads(y, Need, kind, c)
      <4>1. Reads(Head(todo), Need, kind, c)
        BY <1>1, <2>2, <2>3, <3>1 DEF Reads
      <4> QED  BY <1>1, <4>1, Demands
    <3>2. CASE Relies(Rest, kind, c) /\ ~Sets(y, kind, c)
      <4>1. Sets(Head(todo), kind, c) => Sets(y, kind, c)
        BY <1>1, <2>2 DEF Sets, Equipment
      <4> QED  BY <1>1, <3>2, <4>1, Demands
    <3> QED  BY <2>5, <3>1, <3>2
  <2>6. \A kind, c : Relies(Rest, kind, c) => ~Upsets(y, kind, c)
    BY <2>4
  <2>7. \A kind : \A c \in Chroots :
           Reads(y, Need, kind, c) \/ (Relies(Rest, kind, c) /\ ~Sets(y, kind, c)) =>
               Holds(kind, c)'
    BY <1>2, <2>5, BetterHolds
  <2> QED  BY <1>1, <2>1, <2>2, <2>6, <2>7, Expand
<1>4. CASE IsMounted(C)
  <2> DEFINE y == Step("apk_add", C)
  <2>1. Replace(<<y>>)
    <3>1. Replace(<<>> \o <<y>>)
      BY <1>1, <1>4 DEF Install, When, NotInitialized, At
    <3>2. <<>> \o <<y>> = <<y>>
      <4>1. <<y>> \in Seq(StepType)
        BY <1>1, DoesStep DEF Ops, Does
      <4> QED  BY <4>1, ConcatEmptySeq
    <3> QED  BY <3>1, <3>2
  <2>2. Does(<<y>>, y) /\ y.op = "apk_add" /\ y.chroot = C
    BY <1>1, DoesStep, StepFacts DEF Ops
  <2> HIDE DEF y
  <2>3. \A kind, c : ~Upsets(y, kind, c)
    BY <2>2 DEF Upsets
  <2>4. ASSUME NEW kind, NEW c \in Chroots,
               Reads(y, Need, kind, c) \/ (Relies(Rest, kind, c) /\ ~Sets(y, kind, c))
        PROVE  Holds(kind, c)
    <3>1. \/ c = C /\ kind \in {"there", "seen"}
          \/ Relies(Rest, kind, c) /\ ~Sets(Head(todo), kind, c)
      BY <1>1, <2>2, <2>4 DEF Reads, Sets
    <3>2. Exists(C)
      BY <1>4 DEF IsMounted
    <3>3. CASE c = C /\ kind \in {"there", "seen"}
      BY <3>2, <3>3 DEF Holds, MountedIn, BaseMounts
    <3>4. CASE Relies(Rest, kind, c) /\ ~Sets(Head(todo), kind, c)
      BY <1>1, <3>4, Demands
    <3> QED  BY <3>1, <3>3, <3>4
  <2>5. \A kind : \A c \in Chroots :
           Reads(y, Need, kind, c) \/ (Relies(Rest, kind, c) /\ ~Sets(y, kind, c)) =>
               Holds(kind, c)'
    BY <1>2, <2>4, BetterHolds
  <2> QED  BY <1>1, <2>1, <2>2, <2>3, <2>5, Expand
<1> QED  BY <1>3, <1>4

LEMMA InstallBuildHeld ==
    ASSUME HInv, InstallBuild
    PROVE  Calm(todo') /\ Held'
<1>1. todo # <<>> /\ Head(todo).op = "install_build" /\ C = Head(todo).chroot
  BY DEF InstallBuild, At, C
<1>2. C \in Chroots /\ Head(todo) = Step("install_build", C)
  BY <1>1, HeadOfTodo DEF OnSets
<1>3. Better
  BY DEF InstallBuild, Better, disk, kernel, settings, Exists, Present
<1>4. ASSUME NEW pkg \in Builds,
          Replace(BuildSteps(pkg, "unnecessary", TRUE) \o <<Step("install", C)>>)
      PROVE  Calm(todo') /\ Held'
  BY <1>1, <1>2, <1>3, <1>4, InstallBuildDoes, Called
<1>5. CASE Replace(<<Step("install", C)>>)
  <2> DEFINE y == Step("install", C)
  <2>1. Does(<<y>>, y) /\ y.op = "install" /\ y.chroot = C /\ Replace(<<y>>)
    BY <1>2, <1>5, DoesStep, StepFacts DEF Ops
  <2> HIDE DEF y
  <2>2. ASSUME NEW kind, NEW c, Relies(Rest, kind, c)
        PROVE  ~Upsets(y, kind, c)
    <3>1. ~Upsets(Head(todo), kind, c)
      BY <1>1, <2>2, Demands
    <3>2. Upsets(y, kind, c) => Upsets(Head(todo), kind, c)
      BY <1>1, <2>1 DEF Upsets
    <3> QED  BY <3>1, <3>2
  <2>3. ASSUME NEW kind, NEW c \in Chroots,
               Reads(y, Need, kind, c) \/ (Relies(Rest, kind, c) /\ ~Sets(y, kind, c))
        PROVE  Holds(kind, c)
    <3>1. Reads(y, Need, kind, c) => Reads(Head(todo), Need, kind, c)
      BY <1>1, <2>1 DEF Reads
    <3>2. Sets(Head(todo), kind, c) => Sets(y, kind, c)
      BY <1>1, <2>1 DEF Sets
    <3> QED  BY <1>1, <2>3, <3>1, <3>2, Demands
  <2>4. \A kind, c : Relies(Rest, kind, c) => ~Upsets(y, kind, c)
    BY <2>2
  <2>5. \A kind : \A c \in Chroots :
           Reads(y, Need, kind, c) \/ (Relies(Rest, kind, c) /\ ~Sets(y, kind, c)) =>
               Holds(kind, c)'
    BY <1>3, <2>3, BetterHolds
  <2> QED  BY <1>1, <2>1, <2>4, <2>5, Expand
<1> QED  BY <1>4, <1>5 DEF InstallBuild

LEMMA BuildNextHeld ==
    ASSUME HInv, BuildNext
    PROVE  Calm(todo') /\ Held'
<1>1. todo # <<>> /\ Head(todo).op = "packages" /\ C = Head(todo).chroot
  BY DEF BuildNext, At, C
<1>2. C \in Chroots /\ Head(todo) = Step("packages", C)
  BY <1>1, HeadOfTodo DEF OnSets
<1>3. Better
  BY DEF BuildNext, Better, disk, kernel, settings, Exists, Present
<1>4. CASE queue = <<>>
  <2>1. Continue
    BY <1>4 DEF BuildNext
  <2>2. \A kind, c : ~Sets(Head(todo), kind, c)
    BY <1>1 DEF Sets
  <2> QED  BY <1>1, <1>3, <2>1, <2>2, AdvanceBetter
<1>5. CASE queue # <<>>
  <2>1. Head(queue) \in Builds /\ (mode = "strict") \in BOOLEAN
    <3>1. queue \in Seq(Builds)
      BY DEF HInv, IInv, TypeOK
    <3> QED  BY <1>5, <3>1, HeadTailProperties
  <2>2. Does(BuildSteps(Head(queue), previous, mode = "strict") \o <<Head(todo)>>, Head(todo))
    BY <1>2, <2>1, BuildDoes
  <2>3. Replace(BuildSteps(Head(queue), previous, mode = "strict") \o <<Head(todo)>>)
    BY <1>5 DEF BuildNext
  <2> QED  BY <1>1, <1>3, <2>2, <2>3, Called
<1> QED  BY <1>4, <1>5

LEMMA BuildInitHeld ==
    ASSUME HInv, BuildInit
    PROVE  Calm(todo') /\ Held'
<1>1. todo # <<>> /\ Head(todo).op = "build_init" /\ C = Head(todo).chroot
  BY DEF BuildInit, At, C
<1>2. C \in Chroots /\ Head(todo) = Step("build_init", C)
  BY <1>1, HeadOfTodo DEF OnSets
<1>3. Better
  BY DEF BuildInit, Better, disk, kernel, settings, Exists, Present
<1>4. CASE C \in buildInit
  <2>1. Continue /\ skipped' = skipped \cup {C}
    BY <1>4 DEF BuildInit
  <2>2. ASSUME NEW kind, NEW c \in Chroots, Sets(Head(todo), kind, c)
        PROVE  Holds(kind, c)'
    <3>1. c = C /\ kind \in {"fit", "seen"}
      BY <1>1, <2>2 DEF Sets
    <3> QED  BY <2>1, <3>1 DEF Holds, MountedIn, BaseMounts
  <2> QED  BY <1>1, <1>3, <2>1, <2>2, AdvanceBetter
<1>5. CASE C \notin buildInit
  <2>1. Replace(<<Step("init", Native), Step("init", C), Step("install", C),
            Step("build_init_done", C)>>)
    BY <1>5 DEF BuildInit
  <2>2. Does(<<Step("init", Native), Step("init", C), Step("install", C), Step("build_init_done",
            C)>>,
             Head(todo))
    BY <1>2, BuildInitDoes
  <2> QED  BY <1>1, <1>3, <2>1, <2>2, Called
<1> QED  BY <1>4, <1>5

LEMMA EnsureNativeHeld ==
    ASSUME HInv, EnsureNative
    PROVE  Calm(todo') /\ Held'
<1>1. todo # <<>> /\ Head(todo).op = "ensure_native" /\ C = Head(todo).chroot
  BY DEF EnsureNative, At, C
<1>2. Better
  BY DEF EnsureNative, Better, disk, kernel, settings, memory, Exists, Present
<1>3. CASE Exists(Native)
  <2>1. Continue
    <3>1. todo' = <<>> \o Tail(todo)
      BY <1>3 DEF EnsureNative, When, Replace
    <3>2. Tail(todo) \in Seq(StepType)
      BY <1>1, Demands DEF Rest
    <3> QED  BY <3>1, <3>2, ConcatEmptySeq DEF Continue
  <2>2. Tools
    <3>1. Holds("spare", Native)
      BY <1>1, ChrootsAreThree, Demands DEF Reads
    <3> QED  BY <1>3, <3>1 DEF Holds
  <2>3. ASSUME NEW kind, NEW c \in Chroots, Sets(Head(todo), kind, c)
        PROVE  Holds(kind, c)
    <3>1. kind = "tools" /\ c = Native
      BY <1>1, <2>3 DEF Sets
    <3> QED  BY <2>2, <3>1 DEF Holds, MountedIn, BaseMounts
  <2> QED  BY <1>1, <1>2, <2>1, <2>3, AdvanceBetter, BetterHolds
<1>4. CASE ~Exists(Native)
  <2> DEFINE y == Step("ensure_native", Native)
  <2>1. Replace(PrepareNativeSteps)
    BY <1>4 DEF EnsureNative, When
  <2>2. Does(PrepareNativeSteps, y) /\ y.op = "ensure_native"
    BY PrepareNativeDoes, StepFacts
  <2> HIDE DEF y
  <2>3. \A kind, c : ~Upsets(y, kind, c)
    BY <2>2 DEF Upsets
  <2>4. ASSUME NEW kind, NEW c \in Chroots,
               Reads(y, Need, kind, c) \/ (Relies(Rest, kind, c) /\ ~Sets(y, kind, c))
        PROVE  Holds(kind, c)
    <3>1. Reads(y, Need, kind, c) => Reads(Head(todo), Need, kind, c)
      BY <1>1, <2>2 DEF Reads
    <3>2. Sets(Head(todo), kind, c) => Sets(y, kind, c)
      BY <1>1, <2>2 DEF Sets
    <3> QED  BY <1>1, <2>4, <3>1, <3>2, Demands
  <2>5. \A kind, c : Relies(Rest, kind, c) => ~Upsets(y, kind, c)
    BY <2>3
  <2>6. \A kind : \A c \in Chroots :
           Reads(y, Need, kind, c) \/ (Relies(Rest, kind, c) /\ ~Sets(y, kind, c)) =>
               Holds(kind, c)'
    BY <1>2, <2>4, BetterHolds
  <2> QED  BY <1>1, <2>1, <2>2, <2>5, <2>6, Expand
<1> QED  BY <1>3, <1>4

-----------------------------------------------------------------------------
(* Programs start with nothing cached, and the host changes when none runs. *)

LEMMA ProgramsDo ==
    ASSUME NEW s \in Programs
    PROVE  Does(s, Step("program", Native))
  BY InstallProgramDoes, ShutdownDoes, ZapProgramDoes, SwitchProgramDoes, ChrootProgramDoes,
     AddingProgramDoes DEF Programs

LEMMA StartHeld ==
    ASSUME StartProgram
    PROVE  Calm(todo') /\ Held'
<1> DEFINE y == Step("program", Native)
<1>1. Does(todo', y)
  <2>1. CASE todo' \in Programs
    BY <2>1, ProgramsDo
  <2>2. CASE todo' = BuildProgram(mode')
    <3>1. (mode' = "strict") \in BOOLEAN
      OBVIOUS
    <3> QED  BY <2>2, <3>1, BuildProgramDoes DEF BuildProgram
  <2> QED  BY <2>1, <2>2 DEF StartProgram
<1>2. y.op = "program"
  BY StepFacts
<1> HIDE DEF y
<1>3. <<>> \in Seq(StepType)
  OBVIOUS
<1>4. Spared(y, <<>>)
  BY <1>3, NothingRelied DEF Spared
<1>5. Leads(y, <<>>, todo')
  <2>1. Then(todo', <<>>) = todo'
    BY <1>1, ConcatEmptySeq DEF Does, Then
  <2> QED  BY <1>1, <1>4, <2>1, Put
<1>6. ASSUME NEW kind, NEW c \in Chroots, Relies(todo', kind, c)
      PROVE  Holds(kind, c)'
  <2>1. kind \in {"sound", "noted"}
    BY <1>2, <1>5, <1>6, NothingRelied DEF Leads, Reads
  <2>2. cached' = {}
    BY DEF StartProgram
  <2> QED  BY <2>1, <2>2 DEF Holds, MountedIn, BaseMounts
<1> QED  BY <1>5, <1>6 DEF Leads, Held

LEMMA UnchangedHeld ==
    ASSUME HInv, UNCHANGED vars
    PROVE  Calm(todo') /\ Held'
<1>1. Better /\ todo' = todo
  BY DEF Better, vars, disk, kernel, settings, memory, Exists, Present
<1>2. ASSUME NEW kind, NEW c \in Chroots, Relies(todo', kind, c)
      PROVE  Holds(kind, c)'
  BY <1>1, <1>2, BetterHolds DEF HInv, Held
<1> QED  BY <1>1, <1>2 DEF HInv, Held

LEMMA HInvStep == HInv /\ [Next]_vars => HInv'
<1> SUFFICES ASSUME HInv, [Next]_vars
             PROVE  HInv'
  OBVIOUS
<1>1. IInv'
  BY NextIInv DEF HInv
<1>2. CASE ProgramStep
  BY <1>2, CallInitHeld, CheckChannelHeld, BetterSteps, RegisterHeld, SetupHeld, SaveInitHeld,
     ApkInitdbHeld, CacheInitHeld, UmountAllHeld, RemoveHeld, ShutdownHeld, InstallHeld,
     InstallBuildHeld, BuildNextHeld, BuildInitHeld, EnsureNativeHeld, CreateImageHeld,
     UmountMntHeld, <1>1
  DEF ProgramStep, HInv
<1>3. CASE StartProgram
  BY <1>1, <1>3, StartHeld DEF HInv
<1>4. CASE Fail \/ FailWriting \/ RemoveInterrupted \/ MountInterrupted
  BY <1>1, <1>4, Ended DEF Fail, FailWriting, RemoveInterrupted, MountInterrupted, HInv
<1>5. CASE Reboot \/ Checkout
  <2>1. todo' = <<>>
    BY <1>5 DEF Reboot, Checkout
  <2> QED  BY <1>1, <2>1, NothingRelied DEF HInv, Held
<1>6. CASE UNCHANGED vars
  BY <1>1, <1>6, UnchangedHeld DEF HInv
<1> QED  BY <1>2, <1>3, <1>4, <1>5, <1>6 DEF Next

LEMMA InitHInv == Init => HInv
  BY InitIInv, NothingRelied DEF Init, HInv, Held

LEMMA HeldAlways == Spec => []HInv
  BY InitHInv, HInvStep, PTL DEF Spec

(* /dev is never without its nodes unless an earlier program was           *)
(* interrupted when it mounted it; it loses them first when it is unmounted.*)
Whole ==
    \A c \in Chroots :
        todo # <<>> /\ <<c, "dev">> \in mounts =>
            \/ <<c, "devices">> \in mounts \cup lost
            \/ At("umount_all") /\ C = c

LEMMA WholeStep == HInv /\ Whole /\ [Next]_vars => Whole'
<1> SUFFICES ASSUME HInv, Whole, [Next]_vars, NEW c \in Chroots, todo' # <<>>,
                    <<c, "dev">> \in mounts'
             PROVE  \/ <<c, "devices">> \in mounts' \cup lost'
                    \/ (At("umount_all") /\ C = c)'
  BY DEF Whole
<1>1. CASE StartProgram
  BY <1>1 DEF StartProgram, Incomplete, kernel
<1>2. CASE UmountAll
  <2>1. CASE Continue /\ MountsIn(C) = {} /\ UNCHANGED <<mounts, lost>>
    <3>1. <<c, "dev">>[1] = c
      OBVIOUS
    <3>2. c # C
      BY <2>1, <3>1 DEF MountsIn
    <3> QED  BY <1>2, <2>1, <3>2 DEF Whole, UmountAll, At
  <2>2. CASE todo' = todo /\ UNCHANGED lost
             /\ \E what \in What : mounts' = mounts \ {<<C, what>>}
    <3>1. At("umount_all") /\ (C = c => (At("umount_all") /\ C = c)')
      BY <1>2, <2>2 DEF UmountAll, At, C
    <3>2. C # c => <<c, "devices">> \in mounts' \cup lost'
      BY <2>2, <3>1 DEF Whole, At
    <3> QED  BY <3>1, <3>2
  <2> QED  BY <1>2, <2>1, <2>2 DEF UmountAll, NextUmount, memory
<1>3. CASE MountStep
  <2>1. todo # <<>> /\ ~At("umount_all")
    BY <1>3 DEF MountStep, At
  <2>2. <<c, "devices">> \in mounts \cup lost => <<c, "devices">> \in mounts' \cup lost'
    BY <1>3 DEF MountStep
  <2>3. <<c, "dev">> \in mounts \/ (c = C /\ <<c, "devices">> \in mounts')
    BY <1>3 DEF MountStep
  <2> QED  BY <2>1, <2>2, <2>3 DEF Whole
<1>4. CASE UmountMnt
  <2>1. todo # <<>> /\ ~At("umount_all")
    BY <1>4 DEF UmountMnt, At
  <2>2. \A what : what \in {"dev", "devices"} =>
            (<<c, what>> \in mounts' <=> <<c, what>> \in mounts)
    BY <1>4 DEF UmountMnt, NextUmount, BelowMnt
  <2>3. lost \subseteq lost'
    BY <1>4 DEF UmountMnt
  <2> QED  BY <2>1, <2>2, <2>3 DEF Whole
<1>5. CASE RemoveChroot
  <2>1. todo # <<>> /\ ~At("umount_all") /\ lost' = lost
    BY <1>5 DEF RemoveChroot, At, memory
  <2>2. /\ mounts' = {IF C = Native /\ m[2] = "native" THEN <<m[1], "stale_native">> ELSE m :
                          m \in mounts}
        /\ <<c, "dev">>[2] = "dev" /\ <<c, "devices">>[2] = "devices"
        /\ mounts \subseteq Chroots \X What
    BY <1>5 DEF RemoveChroot, HInv, IInv, TypeOK
  <2>3. <<c, "dev">> \in mounts
    BY <2>2
  <2>4. <<c, "devices">> \in mounts => <<c, "devices">> \in mounts'
    BY <2>2
  <2> QED  BY <2>1, <2>3, <2>4 DEF Whole
<1>6. CASE BindQemu \/ MountNative \/ BindSysroot \/ BindRootfs \/ UmountSysroot
  <2>1. todo # <<>> /\ ~At("umount_all") /\ lost' = lost
    BY <1>6 DEF BindQemu, MountNative, BindSysroot, BindRootfs, UmountSysroot, At, memory, Abort
  <2>2. \A what : what \in {"dev", "devices"} =>
            (<<c, what>> \in mounts' <=> <<c, what>> \in mounts)
    BY <1>6 DEF BindQemu, MountNative, BindSysroot, BindRootfs, UmountSysroot, Mount
  <2> QED  BY <2>1, <2>2 DEF Whole
<1>7. CASE \/ CallInit \/ CheckChannel \/ Register \/ AddPackages \/ Binfmt \/ MarkInChroot
           \/ Setup \/ ChrootSaveInit \/ CreateUsrMerge \/ ApkInitdb \/ AddUser \/ CacheInit
           \/ RemoveMarkers \/ Unregister \/ Clean \/ CacheClear \/ SwitchChannel
  <2>1. todo # <<>> /\ ~At("umount_all") /\ (todo' # <<>> => lost' = lost) /\ mounts' = mounts
    BY <1>7 DEF CallInit, CheckChannel, Register, AddPackages, Binfmt, MarkInChroot, Setup,
                ChrootSaveInit, CreateUsrMerge, ApkInitdb, AddUser, CacheInit, RemoveMarkers,
                Unregister, Clean, CacheClear, SwitchChannel, At, kernel, memory, Abort
  <2> QED  BY <2>1 DEF Whole
<1>8. CASE \/ Install \/ InstallBuild \/ BuildNext \/ BuildInit \/ BuildInitDone \/ RunProgram
           \/ EnsureNative \/ CreateImage \/ Partition \/ RemoveRootfsMarker \/ CopyRootfs
  <2>1. todo # <<>> /\ ~At("umount_all") /\ (todo' # <<>> => lost' = lost) /\ mounts' = mounts
    BY <1>8 DEF Install, InstallBuild, BuildNext, BuildInit, BuildInitDone, RunProgram,
                EnsureNative, CreateImage, Partition, RemoveRootfsMarker, CopyRootfs, At, kernel,
                memory, Abort
  <2> QED  BY <2>1 DEF Whole
<1>9. CASE Fail \/ FailWriting \/ RemoveInterrupted \/ MountInterrupted \/ Reboot \/ Checkout
  BY <1>9 DEF Fail, FailWriting, RemoveInterrupted, MountInterrupted, Abort, Reboot, Checkout
<1>10. CASE UNCHANGED vars
  BY <1>10 DEF Whole, vars, kernel, memory, At, C
<1> QED  BY <1>1, <1>2, <1>3, <1>4, <1>5, <1>6, <1>7, <1>8, <1>9, <1>10 DEF Next, ProgramStep

LEMMA WholeAlways == Spec => []Whole
<1>1. Init => Whole
  BY DEF Init, Whole
<1> QED  BY <1>1, WholeStep, HeldAlways, PTL DEF Spec

(* Whatever runs in a chroot finds it mounted, with an emulator and with    *)
(* packages of the current channel, wherever programs before it failed, the *)
(* host rebooted or the channel changed, and whichever calls of init() its  *)
(* own cache skipped. Two things are excepted, as Ready says: the marker    *)
(* that misleads pmb.build.init(), and what is noted in lost: the devices   *)
(* an interrupted mount_dev_tmpfs() left out, and the binds below /mnt that *)
(* create_and_mount_image() unmounted.                                      *)
THEOREM ProgramsFindReadyChroots == Spec => []ReadyWhenRun
<1>1. HInv /\ Whole => ReadyWhenRun
  <2> SUFFICES ASSUME HInv, Whole, todo # <<>>, Head(todo).op \in {"run", "abuild", "apk_add"}
               PROVE  ReadyWhenRun
    BY DEF ReadyWhenRun, At
  <2>1. C \in Chroots /\ C = Head(todo).chroot
    BY HeadOfTodo DEF OnSets, C
  <2>2. Exists(C) /\ Equipped(C) => Ready(C)
    <3>1. channel # None
      BY ChannelsAssumption DEF HInv, IInv, TypeOK
    <3>2. Exists(C) /\ record[C] = channel => origin[C] = channel
      BY <2>1, <3>1 DEF HInv, IInv, RecordIsTrue
    <3>3. ~At("umount_all")
      BY DEF At
    <3>4. <<C, "dev">> \in mounts => <<C, "devices">> \in mounts \cup lost
      BY <2>1, <3>3 DEF Whole
    <3> QED  BY <3>2, <3>4 DEF Equipped, Ready, Present, BaseMounts
  <2>3. CASE Head(todo).op = "run"
    <3>1. /\ \A kind \in Equipment(C) : Holds(kind, C)
          /\ C \in Emulated => Holds("registered", C)
      BY <2>1, <2>3, Demands DEF Reads
    <3>2. \A kind \in MountedIn(C) : Present(C, kind)
      BY <3>1 DEF Holds, Equipment
    <3>3. Holds("there", C) /\ Holds("current", C)
      BY <3>1 DEF Equipment
    <3>4. Exists(C) /\ record[C] = channel /\ (C \in Emulated => registered)
      BY <3>1, <3>3 DEF Holds
    <3>5. Equipped(C)
      BY <3>2, <3>4 DEF Equipped, MountedIn, BaseMounts, Present
    <3> QED  BY <2>2, <2>3, <3>4, <3>5 DEF ReadyWhenRun, At
  <2>4. CASE Head(todo).op = "abuild"
    <3>1. Holds("fit", C) /\ Holds("seen", C)
      BY <2>1, <2>4, Demands DEF Reads
    <3>2. C \in skipped \/ (Exists(C) /\ Equipped(C))
      BY <3>1 DEF Holds
    <3> QED  BY <2>2, <2>4, <3>2 DEF ReadyWhenRun, At
  <2>5. CASE Head(todo).op = "apk_add"
    <3>1. Holds("there", C)
      BY <2>1, <2>5, Demands DEF Reads
    <3> QED  BY <2>5, <3>1 DEF Holds, ReadyWhenRun, At
  <2> QED  BY <2>3, <2>4, <2>5
<1> QED  BY <1>1, HeldAlways, WholeAlways, PTL

(* ensure_native_chroot() makes an installation whose packages were built   *)
(* on its way, in strict mode, end as one that built nothing: the tools to  *)
(* partition are in the native chroot again, and the device rootfs keeps    *)
(* its marker until it is removed.                                          *)
THEOREM InstallationsSurviveBuilds == Spec => []InstallSurvivesBuilds
<1>1. HInv => InstallSurvivesBuilds
  <2> SUFFICES ASSUME HInv, todo # <<>>, Head(todo).op \in {"partition", "remove_marker"}
               PROVE  InstallSurvivesBuilds
    BY DEF InstallSurvivesBuilds, At
  <2>1. C \in Chroots /\ C = Head(todo).chroot /\ Native \in Chroots
    BY HeadOfTodo, ChrootsAreThree DEF OnSets, C
  <2>2. Head(todo).op = "partition" => Holds("tools", Native)
    BY <2>1, Demands DEF Reads
  <2>3. Head(todo).op = "remove_marker" => Holds("marked", C)
    BY <2>1, Demands DEF Reads
  <2> QED  BY <2>2, <2>3 DEF InstallSurvivesBuilds, At, Holds, Tools
<1> QED  BY <1>1, HeldAlways, PTL
=============================================================================
