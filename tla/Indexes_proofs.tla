--------------------------- MODULE Indexes_proofs ---------------------------
(***************************************************************************)
(* Proofs about the indexes and downloads, for any packages, any number of *)
(* versions and runs, and programs that end at any step.                   *)
(***************************************************************************)
EXTENDS Indexes, SequenceTheorems, TLAPS

Ops == {"update", "cache_update", "force_update", "download", "received", "copy", "copied",
        "read_index", "fetch_apk", "apk_received", "verify", "move", "apk_add",
        "apk_cache_clean", "zap_http", "build", "write_temporary", "rename",
        "remove_mismatched", "clear_cache", "lookup"}

OnArches == {"update", "cache_update", "force_update", "download", "received", "copy",
             "copied", "apk_cache_clean"}

StepType == [op: Ops, arg: Arches \cup Packages \cup Forms \cup {"index", "packages", "http"}]

StepOK(step) ==
    /\ step \in StepType
    /\ step.op \in OnArches => step.arg \in Arches
    /\ step.op = "build"    => step.arg \in Packages
    /\ step.op = "lookup"   => step.arg \in Forms

Fetching == {"download", "received", "copy", "copied"}
Using == {"fetch_apk", "apk_received", "verify", "move"}

(* Steps that only make sense after the one that prepares them.             *)
Bound == Fetching \cup Using \cup {"cache_update", "read_index"}

(* Steps that leave behind what the next one has to repair.                 *)
NeverLast == {"copy", "build", "write_temporary", "rename"}

MayFollow(x, y) ==
    /\ x.op = "copy" => y = Step("copied", x.arg)
    /\ x.op \in {"build", "write_temporary"} => y.op = "rename"
    /\ x.op = "rename" => y.op = "clear_cache"
    /\ y.op \notin {"download", "apk_received"}
    /\ y.op = "received"     => x = Step("download", y.arg)
    /\ y.op = "copy"         => x = Step("received", y.arg)
    /\ y.op = "copied"       => x = Step("copy", y.arg)
    /\ y.op = "cache_update" => x = Step("copied", y.arg)
    /\ y.op = "read_index"   => x \in {Step("update", Native), Step("cache_update", Native)}
    /\ y.op = "fetch_apk"    => x.op = "read_index"
    /\ y.op = "verify"       => x.op \in {"fetch_apk", "apk_received"}
    /\ y.op = "move"         => x.op = "verify"

(* The native index is deleted only when it is not needed any more, and no  *)
(* program that forces updates creates a chroot.                            *)
Parts(x) == x.op = "force_update" \/ x = Step("apk_cache_clean", Native)
Needs(y) == y.op \in {"read_index", "apk_add"}

Proper(s) ==
    /\ s \in Seq(StepType)
    /\ \A k \in 1..Len(s) : StepOK(s[k])
    /\ \A k \in 1..Len(s) : k < Len(s) => MayFollow(s[k], s[k + 1])
    /\ s # <<>> => s[Len(s)].op \notin NeverLast
    /\ \A i, k \in 1..Len(s) : i < k => ~(Parts(s[i]) /\ Needs(s[k]))

Reads(s) == \E k \in 1..Len(s) : s[k].op = "read_index"

(* A chroot will be created with the apk.static that is there.              *)
Pending(s) ==
    \E k \in 1..Len(s) : /\ s[k].op = "apk_add"
                         /\ \A i \in 1..k : s[i].op # "move"

-----------------------------------------------------------------------------
(* The inductive invariant.                                                *)

ApkIsKnown ==
    wanted = index[Native] /\ wanted \in Versions /\ wanted >= MinVersion /\ Native \in updated

Prepared ==
    /\ At("copy") \/ At("copied") => http[X] \in Versions \cup {Short}
    /\ At("cache_update") => index[X] \in Versions \cup {Short}
    /\ At("read_index") => Native \in updated
    /\ todo # <<>> /\ Head(todo).op \in Using => ApkIsKnown
    /\ At("move") => apkFiles[wanted] = wanted

StaticIsCurrent ==
    Pending(todo) =>
        /\ apkStatic = index[Native] /\ apkStatic >= MinVersion /\ Native \in updated
        /\ todo # <<>> /\ Head(todo).op \in Fetching => X # Native

IndexStays ==
    Reads(todo) /\ Native \in updated => offline \/ index[Native] # NoFile

CacheIsCurrent ==
    \/ todo = <<>> \/ At("clear_cache")
    \/ \A r \in CachedResults : r[2] = listed

DamageIsKnown ==
    \A a \in Arches : index[a] = Damaged => a \in torn \/ (At("copied") /\ X = a)

IndexFollows ==
    listed # apks => dirty \/ At("rename") \/ At("write_temporary")

IInv ==
    /\ TypeOK
    /\ Proper(todo)
    /\ Prepared
    /\ StaticIsCurrent
    /\ IndexStays
    /\ CacheIsCurrent
    /\ DamageIsKnown
    /\ IndexFollows

-----------------------------------------------------------------------------
(* Lemmas about sequences of steps.                                        *)

LEMMA SeqFacts ==
    ASSUME NEW S, NEW s \in Seq(S)
    PROVE  /\ Len(s) \in Nat
           /\ \A k \in 1..Len(s) : s[k] \in S
           /\ s # <<>> => Len(s) >= 1 /\ Head(s) = s[1] /\ 1 \in 1..Len(s) /\ Len(s) \in 1..Len(s)
           /\ Len(s) >= 1 => s # <<>>
<1>1. Len(s) \in Nat /\ \A k \in 1..Len(s) : s[k] \in S
  BY LenProperties, ElementOfSeq
<1>2. s # <<>> => Len(s) >= 1 /\ Head(s) = s[1]
  BY EmptySeq, HeadTailProperties
<1>3. Len(s) >= 1 => s # <<>>
  BY EmptySeq
<1> QED  BY <1>1, <1>2, <1>3

LEMMA StepFacts ==
    ASSUME NEW op, NEW arg
    PROVE  Step(op, arg).op = op /\ Step(op, arg).arg = arg
  BY DEF Step

LEMMA EmptyProper == Proper(<<>>) /\ ~Reads(<<>>) /\ ~Pending(<<>>)
<1>1. <<>> \in Seq(StepType) /\ Len(<<>>) = 0 /\ 1..0 = {}
  OBVIOUS
<1> QED  BY <1>1 DEF Proper, Reads, Pending

(* What is left of a program when its first step is done.                  *)
LEMMA Rest ==
    ASSUME NEW s, Proper(s), s # <<>>
    PROVE  /\ Proper(Tail(s))
           /\ StepOK(Head(s))
           /\ Tail(s) # <<>> => MayFollow(Head(s), Head(Tail(s))) /\ StepOK(Head(Tail(s)))
           /\ Tail(s) = <<>> => Head(s).op \notin NeverLast
           /\ Reads(Tail(s)) => Reads(s)
           /\ Pending(Tail(s)) => Pending(s) \/ Head(s).op = "move"
           /\ Parts(Head(s)) => ~Reads(Tail(s)) /\ ~Pending(Tail(s))
<1> DEFINE u == Tail(s)
<1>1. s \in Seq(StepType)
  BY DEF Proper
<1>2. Len(s) \in Nat /\ Len(s) >= 1 /\ Head(s) = s[1] /\ 1 \in 1..Len(s)
  BY <1>1, SeqFacts
<1>3. u \in Seq(StepType) /\ Len(u) = Len(s) - 1 /\ \A k \in 1..Len(u) : u[k] = s[k + 1]
  BY <1>1, HeadTailProperties
<1>4. (u # <<>> => Len(u) >= 1 /\ Head(u) = u[1] /\ 1 \in 1..Len(u)) /\ (Len(u) >= 1 => u # <<>>)
  BY <1>3, SeqFacts
<1> HIDE DEF u
<1>5. \A k \in 1..Len(u) : u[k] = s[k + 1] /\ k + 1 \in 1..Len(s)
  BY <1>2, <1>3
<1>6. \A k \in 1..Len(u) : StepOK(u[k])
  BY <1>5 DEF Proper
<1>7. \A k \in 1..Len(u) : k < Len(u) => MayFollow(u[k], u[k + 1])
  <2> SUFFICES ASSUME NEW k \in 1..Len(u), k < Len(u)
               PROVE  MayFollow(u[k], u[k + 1])
    OBVIOUS
  <2>1. k + 1 \in 1..Len(u) /\ k + 1 \in 1..Len(s) /\ k + 1 < Len(s)
    BY <1>2, <1>3
  <2>2. u[k] = s[k + 1] /\ u[k + 1] = s[(k + 1) + 1]
    BY <1>5, <2>1
  <2> QED  BY <2>1, <2>2 DEF Proper
<1>8. u # <<>> => u[Len(u)] = s[Len(s)]
  <2>1. u # <<>> => Len(u) \in 1..Len(u) /\ Len(u) + 1 = Len(s)
    BY <1>2, <1>3, <1>4
  <2> QED  BY <1>5, <2>1
<1>9. \A i, k \in 1..Len(u) : i < k => ~(Parts(u[i]) /\ Needs(u[k]))
  <2> SUFFICES ASSUME NEW i \in 1..Len(u), NEW k \in 1..Len(u), i < k
               PROVE  ~(Parts(u[i]) /\ Needs(u[k]))
    OBVIOUS
  <2>1. i + 1 < k + 1
    OBVIOUS
  <2> QED  BY <1>5, <2>1 DEF Proper
<1>10. Proper(u)
  BY <1>3, <1>6, <1>7, <1>8, <1>9 DEF Proper
<1>11. u # <<>> => MayFollow(Head(s), Head(u)) /\ StepOK(Head(u))
  <2>1. u # <<>> => 1 < Len(s) /\ Head(u) = s[1 + 1]
    BY <1>2, <1>3, <1>4
  <2>2. u # <<>> => MayFollow(s[1], s[1 + 1])
    BY <1>2, <2>1 DEF Proper
  <2> QED  BY <1>2, <1>4, <1>6, <2>1, <2>2
<1>12. u = <<>> => Head(s).op \notin NeverLast
  <2>1. u = <<>> => Len(s) = 1
    <3>1. Len(<<>>) = 0
      OBVIOUS
    <3> QED  BY <1>2, <1>3, <3>1
  <2> QED  BY <1>2, <2>1 DEF Proper
<1>13. Reads(u) => Reads(s)
  BY <1>5 DEF Reads
<1>14. Pending(u) => Pending(s) \/ Head(s).op = "move"
  <2> SUFFICES ASSUME NEW k \in 1..Len(u), u[k].op = "apk_add",
                      \A i \in 1..k : u[i].op # "move", Head(s).op # "move"
               PROVE  Pending(s)
    BY DEF Pending
  <2>1. s[k + 1].op = "apk_add" /\ k + 1 \in 1..Len(s)
    BY <1>5
  <2>2. \A i \in 1..(k + 1) : s[i].op # "move"
    <3> SUFFICES ASSUME NEW i \in 1..(k + 1)
                 PROVE  s[i].op # "move"
      OBVIOUS
    <3>1. CASE i = 1
      BY <1>2, <3>1
    <3>2. CASE i # 1
      <4>1. i - 1 \in 1..k /\ i - 1 \in 1..Len(u) /\ (i - 1) + 1 = i
        BY <1>3, <3>2
      <4> QED  BY <1>5, <4>1
    <3> QED  BY <3>1, <3>2
  <2> QED  BY <2>1, <2>2 DEF Pending
<1>15. Parts(Head(s)) => ~Reads(u) /\ ~Pending(u)
  <2> SUFFICES ASSUME Parts(Head(s)), NEW k \in 1..Len(u)
               PROVE  ~Needs(u[k])
    BY DEF Reads, Pending, Needs
  <2>1. k + 1 \in 1..Len(s) /\ 1 < k + 1 /\ u[k] = s[k + 1]
    BY <1>5
  <2> QED  BY <1>2, <2>1 DEF Proper
<1> QED  BY <1>2, <1>10, <1>11, <1>12, <1>13, <1>14, <1>15 DEF u, Proper

(* Steps put in front of others.                                           *)
LEMMA Join ==
    ASSUME NEW s, NEW t, Proper(s), Proper(t), s # <<>>,
           t # <<>> => MayFollow(s[Len(s)], Head(t)),
           (\A k \in 1..Len(s) : ~Parts(s[k])) \/ (\A k \in 1..Len(t) : ~Needs(t[k]))
    PROVE  /\ Proper(s \o t)
           /\ s \o t # <<>> /\ Head(s \o t) = Head(s)
           /\ t # <<>> => (s \o t)[Len(s \o t)] = t[Len(t)]
           /\ Reads(s \o t) => Reads(s) \/ Reads(t)
           /\ Pending(s \o t) => Pending(s) \/ (Pending(t) /\ \A k \in 1..Len(s) : s[k].op # "move")
           /\ \A k \in 1..Len(s \o t) :
                (\E i \in 1..Len(s) : (s \o t)[k] = s[i]) \/ (\E i \in 1..Len(t) : (s \o t)[k] = t[i])
<1> DEFINE u == s \o t
<1>1. s \in Seq(StepType) /\ t \in Seq(StepType)
  BY DEF Proper
<1>2. /\ Len(s) \in Nat /\ Len(s) >= 1 /\ Head(s) = s[1]
      /\ Len(t) \in Nat /\ (t # <<>> => Len(t) >= 1 /\ Head(t) = t[1]) /\ (Len(t) >= 1 => t # <<>>)
  BY <1>1, SeqFacts
<1>3. /\ u \in Seq(StepType) /\ Len(u) = Len(s) + Len(t)
      /\ \A k \in 1..(Len(s) + Len(t)) : u[k] = IF k <= Len(s) THEN s[k] ELSE t[k - Len(s)]
  BY <1>1, ConcatProperties
<1>4. Len(u) >= 1 => u # <<>> /\ Head(u) = u[1]
  BY <1>3, SeqFacts
<1> HIDE DEF u
<1>5. \A k \in 1..Len(s) : k \in 1..Len(u) /\ u[k] = s[k]
  BY <1>2, <1>3
<1>6. \A k \in 1..Len(u) : ~(k <= Len(s)) => k - Len(s) \in 1..Len(t) /\ u[k] = t[k - Len(s)]
  BY <1>2, <1>3
<1>7. \A k \in 1..Len(u) : k <= Len(s) => k \in 1..Len(s) /\ u[k] = s[k]
  BY <1>2, <1>3
<1>8. \A k \in 1..Len(u) : StepOK(u[k])
  BY <1>6, <1>7 DEF Proper
<1>9. \A k \in 1..Len(u) : k < Len(u) => MayFollow(u[k], u[k + 1])
  <2> SUFFICES ASSUME NEW k \in 1..Len(u), k < Len(u)
               PROVE  MayFollow(u[k], u[k + 1])
    OBVIOUS
  <2>1. CASE k < Len(s)
    <3>1. k \in 1..Len(s) /\ k + 1 \in 1..Len(s)
      BY <1>2, <2>1
    <3> QED  BY <1>5, <2>1, <3>1 DEF Proper
  <2>2. CASE k = Len(s)
    <3>1. k \in 1..Len(s) /\ k + 1 \in 1..Len(u) /\ ~(k + 1 <= Len(s)) /\ (k + 1) - Len(s) = 1
          /\ Len(t) >= 1
      BY <1>2, <1>3, <2>2
    <3>2. u[k] = s[Len(s)] /\ u[k + 1] = t[1]
      BY <1>5, <1>6, <2>2, <3>1
    <3> QED  BY <1>2, <3>1, <3>2
  <2>3. CASE k > Len(s)
    <3> DEFINE i == k - Len(s)
    <3>1. /\ ~(k <= Len(s)) /\ k + 1 \in 1..Len(u) /\ ~(k + 1 <= Len(s))
          /\ (k + 1) - Len(s) = i + 1 /\ i < Len(t)
      BY <1>2, <1>3, <2>3
    <3>2. i \in 1..Len(t) /\ u[k] = t[i] /\ u[k + 1] = t[i + 1]
      BY <1>6, <3>1
    <3> HIDE DEF i
    <3> QED  BY <3>1, <3>2 DEF Proper
  <2> QED  BY <1>2, <2>1, <2>2, <2>3
<1>10. t # <<>> => u[Len(u)] = t[Len(t)]
  <2>1. t # <<>> => Len(u) \in 1..Len(u) /\ ~(Len(u) <= Len(s)) /\ Len(u) - Len(s) = Len(t)
    BY <1>2, <1>3
  <2> QED  BY <1>6, <2>1
<1>11. u[Len(u)].op \notin NeverLast
  <2>1. CASE t # <<>>
    BY <1>10, <2>1 DEF Proper
  <2>2. CASE t = <<>>
    <3>1. Len(t) = 0
      BY <2>2
    <3>2. Len(u) \in 1..Len(s) /\ Len(u) = Len(s)
      BY <1>2, <1>3, <3>1
    <3> QED  BY <1>5, <3>2 DEF Proper
  <2> QED  BY <2>1, <2>2
<1>12. \A i, k \in 1..Len(u) : i < k => ~(Parts(u[i]) /\ Needs(u[k]))
  <2> SUFFICES ASSUME NEW i \in 1..Len(u), NEW k \in 1..Len(u), i < k
               PROVE  ~(Parts(u[i]) /\ Needs(u[k]))
    OBVIOUS
  <2>1. CASE k <= Len(s)
    <3>1. i <= Len(s)
      BY <1>2, <2>1
    <3> QED  BY <1>7, <2>1, <3>1 DEF Proper
  <2>2. CASE ~(k <= Len(s)) /\ i <= Len(s)
    BY <1>6, <1>7, <2>2
  <2>3. CASE ~(k <= Len(s)) /\ ~(i <= Len(s))
    <3>1. i - Len(s) < k - Len(s)
      BY <1>2
    <3> QED  BY <1>6, <2>3, <3>1 DEF Proper
  <2> QED  BY <2>1, <2>2, <2>3
<1>13. Proper(u)
  BY <1>3, <1>8, <1>9, <1>11, <1>12 DEF Proper
<1>14. u # <<>> /\ Head(u) = Head(s)
  <2>1. Len(u) >= 1 /\ 1 \in 1..Len(s)
    BY <1>2, <1>3
  <2> QED  BY <1>2, <1>4, <1>5, <2>1
<1>15. Reads(u) => Reads(s) \/ Reads(t)
  BY <1>6, <1>7 DEF Reads
<1>16. Pending(u) => Pending(s) \/ (Pending(t) /\ \A k \in 1..Len(s) : s[k].op # "move")
  <2> SUFFICES ASSUME NEW k \in 1..Len(u), u[k].op = "apk_add", \A i \in 1..k : u[i].op # "move"
               PROVE  Pending(s) \/ (Pending(t) /\ \A i \in 1..Len(s) : s[i].op # "move")
    BY DEF Pending
  <2>1. CASE k <= Len(s)
    <3>1. \A i \in 1..k : i \in 1..Len(s) /\ s[i] = u[i]
      BY <1>2, <1>5, <2>1
    <3> QED  BY <1>7, <2>1, <3>1 DEF Pending
  <2>2. CASE ~(k <= Len(s))
    <3> DEFINE j == k - Len(s)
    <3>1. j \in 1..Len(t) /\ u[k] = t[j]
      BY <1>6, <2>2
    <3>2. \A i \in 1..j : t[i].op # "move"
      <4> SUFFICES ASSUME NEW i \in 1..j
                   PROVE  t[i].op # "move"
        OBVIOUS
      <4>1. /\ i + Len(s) \in 1..k /\ i + Len(s) \in 1..Len(u) /\ ~(i + Len(s) <= Len(s))
            /\ (i + Len(s)) - Len(s) = i
        BY <1>2, <1>3
      <4> QED  BY <1>6, <4>1
    <3>3. \A i \in 1..Len(s) : s[i].op # "move"
      <4>1. \A i \in 1..Len(s) : i \in 1..k
        BY <1>2, <2>2
      <4> QED  BY <1>5, <4>1
    <3> HIDE DEF j
    <3> QED  BY <3>1, <3>2, <3>3 DEF Pending
  <2> QED  BY <2>1, <2>2
<1> QED  BY <1>6, <1>7, <1>10, <1>13, <1>14, <1>15, <1>16 DEF u

-----------------------------------------------------------------------------
(* The sequences of steps that the programs are made of.                   *)

(* Steps of which every one may follow the one before.                     *)
Fits(s, n) ==
    /\ s \in Seq(StepType) /\ Len(s) = n
    /\ \A k \in 1..n : StepOK(s[k])
    /\ \A k \in 1..n : k < n => MayFollow(s[k], s[k + 1])
    /\ s[n].op \notin NeverLast

LEMMA FitsProper ==
    ASSUME NEW s, NEW n \in Nat \ {0}, Fits(s, n),
           (\A k \in 1..n : ~Parts(s[k])) \/ (\A k \in 1..n : ~Needs(s[k]))
    PROVE  Proper(s) /\ s # <<>> /\ Head(s) = s[1] /\ Len(s) = n
<1>1. s \in Seq(StepType) /\ Len(s) = n /\ Len(s) >= 1
  BY DEF Fits
<1>2. s # <<>> /\ Head(s) = s[1]
  BY <1>1, SeqFacts
<1> QED  BY <1>1, <1>2 DEF Proper, Fits

LEMMA StepTypes ==
    ASSUME NEW op \in Ops, NEW arg, op \in OnArches => arg \in Arches,
           op = "build" => arg \in Packages, op = "lookup" => arg \in Forms,
           arg \in Arches \cup Packages \cup Forms \cup {"index", "packages", "http"}
    PROVE  StepOK(Step(op, arg)) /\ Step(op, arg) \in StepType
  BY DEF StepOK, StepType, Step

LEMMA FetchFacts ==
    ASSUME NEW a \in Arches
    PROVE  LET s == FetchSteps(a) IN
           /\ Proper(s) /\ s # <<>> /\ Head(s) = Step("download", a)
           /\ Len(s) = 4 /\ s[Len(s)] = Step("copied", a)
           /\ \A k \in 1..Len(s) : ~Parts(s[k]) /\ ~Needs(s[k]) /\ s[k].op # "move"
<1> DEFINE s == FetchSteps(a)
<1>1. \A op \in Fetching : StepOK(Step(op, a)) /\ Step(op, a) \in StepType
  BY StepTypes DEF Fetching, Ops, OnArches
<1>2. /\ Step("download", a) \in StepType /\ Step("received", a) \in StepType
      /\ Step("copy", a) \in StepType /\ Step("copied", a) \in StepType
  BY <1>1 DEF Fetching
<1>3. s \in Seq(StepType) /\ Len(s) = 4
  BY <1>2 DEF FetchSteps
<1>4. /\ s[1] = Step("download", a) /\ s[2] = Step("received", a)
      /\ s[3] = Step("copy", a) /\ s[4] = Step("copied", a)
  BY DEF FetchSteps
<1> HIDE DEF s
<1>5. \A k \in 1..4 : k = 1 \/ k = 2 \/ k = 3 \/ k = 4
  OBVIOUS
<1>6. \A k \in 1..4 : StepOK(s[k]) /\ ~Parts(s[k]) /\ ~Needs(s[k]) /\ s[k].op # "move"
  BY <1>1, <1>4, <1>5, StepFacts DEF Fetching, Parts, Needs
<1>7. /\ MayFollow(s[1], s[2]) /\ MayFollow(s[2], s[3]) /\ MayFollow(s[3], s[4])
      /\ s[4].op \notin NeverLast
  BY <1>4, StepFacts DEF MayFollow, NeverLast
<1>8. Fits(s, 4)
  BY <1>3, <1>5, <1>6, <1>7 DEF Fits
<1>9. Proper(s) /\ s # <<>> /\ Head(s) = s[1]
  BY <1>6, <1>8, FitsProper
<1> QED  BY <1>3, <1>4, <1>6, <1>9 DEF s
LEMMA ApkStaticFacts ==
    LET s == ApkStaticSteps IN
    /\ Proper(s) /\ s # <<>> /\ Head(s) = Step("update", Native)
    /\ Len(s) = 5 /\ s[Len(s)] = Step("move", Native)
    /\ \A k \in 1..Len(s) : ~Parts(s[k]) /\ s[k].op # "apk_add"
<1> DEFINE s == ApkStaticSteps
<1>1. /\ StepOK(Step("update", Native)) /\ Step("update", Native) \in StepType
      /\ StepOK(Step("read_index", Native)) /\ Step("read_index", Native) \in StepType
      /\ StepOK(Step("fetch_apk", Native)) /\ Step("fetch_apk", Native) \in StepType
      /\ StepOK(Step("verify", Native)) /\ Step("verify", Native) \in StepType
      /\ StepOK(Step("move", Native)) /\ Step("move", Native) \in StepType
  BY StepTypes DEF Ops, OnArches, Arches
<1>2. s \in Seq(StepType) /\ Len(s) = 5
  BY <1>1 DEF ApkStaticSteps
<1>3. /\ s[1] = Step("update", Native) /\ s[2] = Step("read_index", Native)
      /\ s[3] = Step("fetch_apk", Native) /\ s[4] = Step("verify", Native)
      /\ s[5] = Step("move", Native)
  BY DEF ApkStaticSteps
<1> HIDE DEF s
<1>4. \A k \in 1..5 : k = 1 \/ k = 2 \/ k = 3 \/ k = 4 \/ k = 5
  OBVIOUS
<1>5. \A k \in 1..5 : StepOK(s[k]) /\ ~Parts(s[k]) /\ s[k].op # "apk_add"
  BY <1>1, <1>3, <1>4, StepFacts DEF Parts, Needs
<1>6. /\ MayFollow(s[1], s[2]) /\ MayFollow(s[2], s[3]) /\ MayFollow(s[3], s[4])
      /\ MayFollow(s[4], s[5])
      /\ s[5].op \notin NeverLast
  BY <1>3, StepFacts DEF MayFollow, NeverLast
<1>7. Fits(s, 5)
  BY <1>2, <1>4, <1>5, <1>6 DEF Fits
<1>8. Proper(s) /\ s # <<>> /\ Head(s) = s[1]
  BY <1>5, <1>7, FitsProper
<1> QED  BY <1>2, <1>3, <1>5, <1>8 DEF s

LEMMA CreateTailFacts ==
    ASSUME NEW a \in Arches
    PROVE  LET s == <<Step("update", a), Step("apk_add", a)>> IN
           /\ Proper(s) /\ s # <<>> /\ Head(s) = Step("update", a)
           /\ Len(s) = 2 /\ s[Len(s)] = Step("apk_add", a)
           /\ \A k \in 1..Len(s) : ~Parts(s[k]) /\ s[k].op # "move"
<1> DEFINE s == <<Step("update", a), Step("apk_add", a)>>
<1>1. /\ StepOK(Step("update", a)) /\ Step("update", a) \in StepType
      /\ StepOK(Step("apk_add", a)) /\ Step("apk_add", a) \in StepType
  BY StepTypes DEF Ops, OnArches
<1>2. s \in Seq(StepType) /\ Len(s) = 2
  BY <1>1 DEF s
<1>3. /\ s[1] = Step("update", a) /\ s[2] = Step("apk_add", a)
  BY DEF s
<1> HIDE DEF s
<1>4. \A k \in 1..2 : k = 1 \/ k = 2
  OBVIOUS
<1>5. \A k \in 1..2 : StepOK(s[k]) /\ ~Parts(s[k]) /\ s[k].op # "move"
  BY <1>1, <1>3, <1>4, StepFacts DEF Parts, Needs
<1>6. /\ MayFollow(s[1], s[2])
      /\ s[2].op \notin NeverLast
  BY <1>3, StepFacts DEF MayFollow, NeverLast
<1>7. Fits(s, 2)
  BY <1>2, <1>4, <1>5, <1>6 DEF Fits
<1>8. Proper(s) /\ s # <<>> /\ Head(s) = s[1]
  BY <1>5, <1>7, FitsProper
<1> QED  BY <1>2, <1>3, <1>5, <1>8 DEF s

LEMMA IndexRepoFacts ==
    LET s == IndexRepoSteps IN
    /\ Proper(s) /\ s # <<>> /\ Head(s) = Step("write_temporary", "index")
    /\ Len(s) = 3 /\ s[Len(s)] = Step("clear_cache", "index")
    /\ \A k \in 1..Len(s) : ~Parts(s[k]) /\ ~Needs(s[k]) /\ s[k].op # "move"
<1> DEFINE s == IndexRepoSteps
<1>1. /\ StepOK(Step("write_temporary", "index")) /\ Step("write_temporary", "index") \in StepType
      /\ StepOK(Step("rename", "index")) /\ Step("rename", "index") \in StepType
      /\ StepOK(Step("clear_cache", "index")) /\ Step("clear_cache", "index") \in StepType
  BY StepTypes DEF Ops, OnArches
<1>2. s \in Seq(StepType) /\ Len(s) = 3
  BY <1>1 DEF IndexRepoSteps
<1>3. /\ s[1] = Step("write_temporary", "index") /\ s[2] = Step("rename", "index")
      /\ s[3] = Step("clear_cache", "index")
  BY DEF IndexRepoSteps
<1> HIDE DEF s
<1>4. \A k \in 1..3 : k = 1 \/ k = 2 \/ k = 3
  OBVIOUS
<1>5. \A k \in 1..3 : StepOK(s[k]) /\ ~Parts(s[k]) /\ ~Needs(s[k]) /\ s[k].op # "move"
  BY <1>1, <1>3, <1>4, StepFacts DEF Parts, Needs
<1>6. /\ MayFollow(s[1], s[2]) /\ MayFollow(s[2], s[3])
      /\ s[3].op \notin NeverLast
  BY <1>3, StepFacts DEF MayFollow, NeverLast
<1>7. Fits(s, 3)
  BY <1>2, <1>4, <1>5, <1>6 DEF Fits
<1>8. Proper(s) /\ s # <<>> /\ Head(s) = s[1]
  BY <1>5, <1>7, FitsProper
<1> QED  BY <1>2, <1>3, <1>5, <1>8 DEF s

LEMMA BuildFacts ==
    ASSUME NEW p \in Packages
    PROVE  LET s == BuildSteps(p) IN
           /\ Proper(s) /\ s # <<>> /\ Head(s) = Step("update", Native)
           /\ Len(s) = 7 /\ s[Len(s)] = Step("lookup", "single")
           /\ \A k \in 1..Len(s) : ~Needs(s[k])
<1> DEFINE s == BuildSteps(p)
<1>1. /\ StepOK(Step("update", Native)) /\ Step("update", Native) \in StepType
      /\ StepOK(Step("lookup", "multiple")) /\ Step("lookup", "multiple") \in StepType
      /\ StepOK(Step("build", p)) /\ Step("build", p) \in StepType
      /\ StepOK(Step("rename", "index")) /\ Step("rename", "index") \in StepType
      /\ StepOK(Step("clear_cache", "index")) /\ Step("clear_cache", "index") \in StepType
      /\ StepOK(Step("lookup", "single")) /\ Step("lookup", "single") \in StepType
  BY StepTypes DEF Ops, OnArches, Arches, Forms
<1>2. s \in Seq(StepType) /\ Len(s) = 7
  BY <1>1 DEF BuildSteps
<1>3. /\ s[1] = Step("update", Native) /\ s[2] = Step("lookup", "multiple")
      /\ s[3] = Step("build", p) /\ s[4] = Step("rename", "index")
      /\ s[5] = Step("clear_cache", "index") /\ s[6] = Step("lookup", "multiple")
      /\ s[7] = Step("lookup", "single")
  BY DEF BuildSteps
<1> HIDE DEF s
<1>4. \A k \in 1..7 : k = 1 \/ k = 2 \/ k = 3 \/ k = 4 \/ k = 5 \/ k = 6 \/ k = 7
  OBVIOUS
<1>5. \A k \in 1..7 : StepOK(s[k]) /\ ~Needs(s[k])
  BY <1>1, <1>3, <1>4, StepFacts DEF Parts, Needs
<1>6. /\ MayFollow(s[1], s[2]) /\ MayFollow(s[2], s[3]) /\ MayFollow(s[3], s[4])
      /\ MayFollow(s[4], s[5]) /\ MayFollow(s[5], s[6]) /\ MayFollow(s[6], s[7])
      /\ s[7].op \notin NeverLast
  BY <1>3, StepFacts DEF MayFollow, NeverLast
<1>7. Fits(s, 7)
  BY <1>2, <1>4, <1>5, <1>6 DEF Fits
<1>8. Proper(s) /\ s # <<>> /\ Head(s) = s[1]
  BY <1>5, <1>7, FitsProper
<1> QED  BY <1>2, <1>3, <1>5, <1>8 DEF s

LEMMA ForceFacts ==
    LET s == <<Step("force_update", Foreign), Step("force_update", Native)>> IN
    /\ Proper(s) /\ s # <<>> /\ Head(s) = Step("force_update", Foreign)
    /\ Len(s) = 2 /\ s[Len(s)] = Step("force_update", Native)
    /\ \A k \in 1..Len(s) : ~Needs(s[k])
<1> DEFINE s == <<Step("force_update", Foreign), Step("force_update", Native)>>
<1>1. /\ StepOK(Step("force_update", Foreign)) /\ Step("force_update", Foreign) \in StepType
      /\ StepOK(Step("force_update", Native)) /\ Step("force_update", Native) \in StepType
  BY StepTypes DEF Ops, OnArches, Arches
<1>2. s \in Seq(StepType) /\ Len(s) = 2
  BY <1>1 DEF s
<1>3. /\ s[1] = Step("force_update", Foreign) /\ s[2] = Step("force_update", Native)
  BY DEF s
<1> HIDE DEF s
<1>4. \A k \in 1..2 : k = 1 \/ k = 2
  OBVIOUS
<1>5. \A k \in 1..2 : StepOK(s[k]) /\ ~Needs(s[k])
  BY <1>1, <1>3, <1>4, StepFacts DEF Parts, Needs
<1>6. /\ MayFollow(s[1], s[2])
      /\ s[2].op \notin NeverLast
  BY <1>3, StepFacts DEF MayFollow, NeverLast
<1>7. Fits(s, 2)
  BY <1>2, <1>4, <1>5, <1>6 DEF Fits
<1>8. Proper(s) /\ s # <<>> /\ Head(s) = s[1]
  BY <1>5, <1>7, FitsProper
<1> QED  BY <1>2, <1>3, <1>5, <1>8 DEF s

LEMMA OneStep ==
    ASSUME NEW op \in Ops \ NeverLast, NEW arg, StepOK(Step(op, arg))
    PROVE  LET s == <<Step(op, arg)>> IN
           /\ Proper(s) /\ s # <<>> /\ Head(s) = Step(op, arg)
           /\ Len(s) = 1 /\ s[Len(s)] = Step(op, arg)
           /\ \A k \in 1..Len(s) : s[k] = Step(op, arg)
<1> DEFINE s == <<Step(op, arg)>>
<1>1. Step(op, arg) \in StepType
  BY DEF StepOK
<1>2. s \in Seq(StepType) /\ Len(s) = 1 /\ s[1] = Step(op, arg)
  BY <1>1
<1> HIDE DEF s
<1>3. \A k \in 1..1 : s[k] = Step(op, arg)
  BY <1>2
<1>4. Fits(s, 1)
  BY <1>2, <1>3, StepFacts DEF Fits
<1>5. ~Parts(s[1]) \/ ~Needs(s[1])
  BY <1>2, StepFacts DEF Parts, Needs
<1>6. Proper(s) /\ s # <<>> /\ Head(s) = s[1]
  BY <1>3, <1>4, <1>5, FitsProper
<1> QED  BY <1>2, <1>3, <1>6 DEF s

(* What a run may start with.                                              *)
Startable(s) == Proper(s) /\ s # <<>> /\ Head(s).op \notin Bound /\ ~Pending(s)

LEMMA NothingPending ==
    ASSUME NEW s, \A k \in 1..Len(s) : s[k].op # "apk_add"
    PROVE  ~Pending(s)
  BY DEF Pending

LEMMA NothingNeeded ==
    ASSUME NEW s, \A k \in 1..Len(s) : ~Needs(s[k])
    PROVE  ~Pending(s) /\ ~Reads(s)
  BY DEF Pending, Reads, Needs

LEMMA CreateStartable ==
    ASSUME NEW a \in Arches
    PROVE  Startable(CreateChrootSteps(a))
<1> DEFINE s == ApkStaticSteps
           t == <<Step("update", a), Step("apk_add", a)>>
<1>1. /\ Proper(s) /\ s # <<>> /\ Head(s) = Step("update", Native)
      /\ Len(s) = 5 /\ s[Len(s)] = Step("move", Native)
      /\ \A k \in 1..Len(s) : ~Parts(s[k]) /\ s[k].op # "apk_add"
  BY ApkStaticFacts
<1>2. Proper(t) /\ t # <<>> /\ Head(t) = Step("update", a)
  BY CreateTailFacts
<1>3. CreateChrootSteps(a) = s \o t
  BY DEF CreateChrootSteps
<1> HIDE DEF s, t
<1>4. MayFollow(s[Len(s)], Head(t))
  BY <1>1, <1>2, StepFacts DEF MayFollow
<1>5. /\ Proper(s \o t) /\ s \o t # <<>> /\ Head(s \o t) = Head(s)
      /\ Pending(s \o t) => Pending(s) \/ (Pending(t) /\ \A k \in 1..Len(s) : s[k].op # "move")
  BY <1>1, <1>2, <1>4, Join
<1>6. 5 \in 1..Len(s) /\ s[5].op = "move"
  BY <1>1, StepFacts
<1>7. ~Pending(s)
  BY <1>1, NothingPending
<1> QED  BY <1>1, <1>3, <1>5, <1>6, <1>7, StepFacts DEF Startable, Bound, Fetching, Using

LEMMA ZapOnlineFacts ==
    LET s == ZapOnlineSteps IN
    /\ Proper(s) /\ s # <<>> /\ Head(s) = Step("update", Native)
    /\ s[Len(s)] = Step("apk_cache_clean", Native)
    /\ \A k \in 1..Len(s) : s[k].op # "apk_add"
<1> DEFINE s == ApkStaticSteps
           f == <<Step("apk_cache_clean", Foreign)>>
           n == <<Step("apk_cache_clean", Native)>>
<1>1. /\ Proper(s) /\ s # <<>> /\ Head(s) = Step("update", Native)
      /\ Len(s) = 5 /\ s[Len(s)] = Step("move", Native)
      /\ \A k \in 1..Len(s) : ~Parts(s[k]) /\ s[k].op # "apk_add"
  BY ApkStaticFacts
<1>2. StepOK(Step("apk_cache_clean", Foreign)) /\ StepOK(Step("apk_cache_clean", Native))
  BY StepTypes DEF Ops, OnArches, Arches
<1>3. /\ Proper(f) /\ f # <<>> /\ Head(f) = Step("apk_cache_clean", Foreign)
      /\ Len(f) = 1 /\ f[Len(f)] = Step("apk_cache_clean", Foreign)
      /\ \A k \in 1..Len(f) : f[k] = Step("apk_cache_clean", Foreign)
  BY <1>2, OneStep DEF Ops, NeverLast
<1>4. /\ Proper(n) /\ n # <<>> /\ Head(n) = Step("apk_cache_clean", Native)
      /\ Len(n) = 1 /\ n[Len(n)] = Step("apk_cache_clean", Native)
      /\ \A k \in 1..Len(n) : n[k] = Step("apk_cache_clean", Native)
  BY <1>2, OneStep DEF Ops, NeverLast
<1>5. ZapOnlineSteps = ((s \o f) \o s) \o n
  <2>1. CleanOrder[1] = Foreign /\ CleanOrder[2] = Native
    BY DEF CleanOrder
  <2> QED  BY <2>1 DEF ZapOnlineSteps
<1> HIDE DEF s, f, n
<1>6. \A k \in 1..Len(f) : ~Parts(f[k]) /\ f[k].op # "apk_add"
  BY <1>3, StepFacts, ArchesAssumption DEF Parts, Step
<1>7. \A k \in 1..Len(n) : n[k].op # "apk_add"
  BY <1>4, StepFacts
<1>8. /\ MayFollow(s[Len(s)], Head(f)) /\ MayFollow(f[Len(f)], Head(s))
      /\ MayFollow(s[Len(s)], Head(n))
  BY <1>1, <1>3, <1>4, StepFacts DEF MayFollow
<1> DEFINE sf == s \o f
           sfs == sf \o s
<1>9. /\ Proper(sf) /\ sf # <<>> /\ Head(sf) = Head(s) /\ sf[Len(sf)] = f[Len(f)]
      /\ \A k \in 1..Len(sf) :
            (\E i \in 1..Len(s) : sf[k] = s[i]) \/ (\E i \in 1..Len(f) : sf[k] = f[i])
  BY <1>1, <1>3, <1>8, Join
<1>10. /\ \A k \in 1..Len(sf) : ~Parts(sf[k]) /\ sf[k].op # "apk_add"
       /\ Proper(sf) /\ sf # <<>> /\ MayFollow(sf[Len(sf)], Head(s))
  BY <1>1, <1>6, <1>8, <1>9
<1> HIDE DEF sf
<1>11. /\ Proper(sfs) /\ sfs # <<>> /\ Head(sfs) = Head(sf) /\ sfs[Len(sfs)] = s[Len(s)]
       /\ \A k \in 1..Len(sfs) :
             (\E i \in 1..Len(sf) : sfs[k] = sf[i]) \/ (\E i \in 1..Len(s) : sfs[k] = s[i])
  <2>1. (\A k \in 1..Len(sf) : ~Parts(sf[k])) \/ (\A k \in 1..Len(s) : ~Needs(s[k]))
    BY <1>10
  <2>2. s # <<>> => MayFollow(sf[Len(sf)], Head(s))
    BY <1>10
  <2>3. Proper(sf) /\ Proper(s) /\ sf # <<>> /\ s # <<>>
    BY <1>1, <1>10
  <2> QED  BY <2>1, <2>2, <2>3, Join
<1>12. /\ \A k \in 1..Len(sfs) : ~Parts(sfs[k]) /\ sfs[k].op # "apk_add"
       /\ Proper(sfs) /\ sfs # <<>> /\ MayFollow(sfs[Len(sfs)], Head(n))
  BY <1>1, <1>8, <1>10, <1>11
<1> HIDE DEF sfs
<1>13. /\ Proper(sfs \o n) /\ sfs \o n # <<>> /\ Head(sfs \o n) = Head(sfs)
       /\ (sfs \o n)[Len(sfs \o n)] = n[Len(n)]
       /\ \A k \in 1..Len(sfs \o n) :
             (\E i \in 1..Len(sfs) : (sfs \o n)[k] = sfs[i]) \/ (\E i \in 1..Len(n) : (sfs \o n)[k] = n[i])
  <2>1. (\A k \in 1..Len(sfs) : ~Parts(sfs[k])) \/ (\A k \in 1..Len(n) : ~Needs(n[k]))
    BY <1>12
  <2>2. n # <<>> => MayFollow(sfs[Len(sfs)], Head(n))
    BY <1>12
  <2>3. Proper(sfs) /\ Proper(n) /\ sfs # <<>> /\ n # <<>>
    BY <1>4, <1>12
  <2> QED  BY <2>1, <2>2, <2>3, Join
<1>14. ZapOnlineSteps = sfs \o n
  BY <1>5 DEF sf, sfs
<1> HIDE DEF s, n
<1> QED  BY <1>1, <1>4, <1>7, <1>9, <1>11, <1>12, <1>13, <1>14

LEMMA ZapAllStartable ==
    Startable(ZapMismatchSteps \o ZapOnlineSteps \o <<Step("zap_http", "http")>>)
<1> DEFINE m == ZapMismatchSteps
           s == ZapOnlineSteps
           h == <<Step("zap_http", "http")>>
<1>1. StepOK(Step("remove_mismatched", "packages")) /\ StepOK(Step("zap_http", "http"))
  BY StepTypes DEF Ops, OnArches
<1>2. /\ Proper(m) /\ m # <<>> /\ Head(m) = Step("remove_mismatched", "packages")
      /\ Len(m) = 1 /\ m[Len(m)] = Step("remove_mismatched", "packages")
      /\ \A k \in 1..Len(m) : m[k] = Step("remove_mismatched", "packages")
  BY <1>1, OneStep DEF Ops, NeverLast, ZapMismatchSteps
<1>3. /\ Proper(h) /\ h # <<>> /\ Head(h) = Step("zap_http", "http")
      /\ Len(h) = 1 /\ h[Len(h)] = Step("zap_http", "http")
      /\ \A k \in 1..Len(h) : h[k] = Step("zap_http", "http")
  BY <1>1, OneStep DEF Ops, NeverLast
<1>4. /\ Proper(s) /\ s # <<>> /\ Head(s) = Step("update", Native)
      /\ s[Len(s)] = Step("apk_cache_clean", Native)
      /\ \A k \in 1..Len(s) : s[k].op # "apk_add"
  BY ZapOnlineFacts
<1> HIDE DEF m, s, h
<1>5. MayFollow(m[Len(m)], Head(s)) /\ MayFollow(s[Len(s)], Head(h))
  BY <1>2, <1>3, <1>4, StepFacts DEF MayFollow
<1>6. \A k \in 1..Len(m) : ~Parts(m[k]) /\ m[k].op # "apk_add"
  BY <1>2, StepFacts DEF Parts
<1>7. \A k \in 1..Len(h) : ~Needs(h[k]) /\ h[k].op # "apk_add"
  BY <1>3, StepFacts DEF Needs
<1> DEFINE ms == m \o s
<1>8. /\ Proper(ms) /\ ms # <<>> /\ Head(ms) = Head(m) /\ ms[Len(ms)] = s[Len(s)]
      /\ Pending(ms) => Pending(m) \/ (Pending(s) /\ \A k \in 1..Len(m) : m[k].op # "move")
  BY <1>2, <1>4, <1>5, <1>6, Join
<1> HIDE DEF ms
<1>9. /\ Proper(ms \o h) /\ ms \o h # <<>> /\ Head(ms \o h) = Head(ms)
      /\ Pending(ms \o h) => Pending(ms) \/ (Pending(h) /\ \A k \in 1..Len(ms) : ms[k].op # "move")
  BY <1>3, <1>5, <1>7, <1>8, Join
<1>10. ~Pending(m) /\ ~Pending(s) /\ ~Pending(h)
  BY <1>4, <1>6, <1>7, NothingPending
<1>11. Head(ms).op \notin Bound
  BY <1>2, <1>8, StepFacts DEF Bound, Fetching, Using
<1>12. Startable(ms \o h)
  BY <1>8, <1>9, <1>10, <1>11 DEF Startable
<1> QED  BY <1>12 DEF m, s, h, ms

LEMMA ProgramsStartable ==
    ASSUME NEW s \in Programs
    PROVE  Startable(s)
<1>1. Step("update", Native).op \notin Bound /\ Step("force_update", Foreign).op \notin Bound
      /\ Step("write_temporary", "index").op \notin Bound
      /\ Step("remove_mismatched", "packages").op \notin Bound
  BY StepFacts DEF Bound, Fetching, Using
<1>2. ASSUME NEW a \in Arches
      PROVE  Startable(CreateChrootSteps(a))
  BY CreateStartable
<1>3. ASSUME NEW p \in Packages
      PROVE  Startable(BuildSteps(p))
  BY <1>1, BuildFacts, NothingNeeded DEF Startable
<1>4. Startable(IndexRepoSteps)
  BY <1>1, IndexRepoFacts, NothingNeeded DEF Startable
<1>5. Startable(ZapMismatchSteps)
  <2>1. StepOK(Step("remove_mismatched", "packages"))
    BY StepTypes DEF Ops, OnArches
  <2>2. /\ Proper(ZapMismatchSteps) /\ ZapMismatchSteps # <<>>
        /\ Head(ZapMismatchSteps) = Step("remove_mismatched", "packages")
        /\ \A k \in 1..Len(ZapMismatchSteps) : ZapMismatchSteps[k] = Step("remove_mismatched", "packages")
    BY <2>1, OneStep DEF Ops, NeverLast, ZapMismatchSteps
  <2>3. ~Pending(ZapMismatchSteps)
    BY <2>2, StepFacts, NothingPending
  <2> QED  BY <1>1, <2>2, <2>3 DEF Startable
<1>6. Startable(ZapOnlineSteps)
  BY <1>1, ZapOnlineFacts, NothingPending DEF Startable
<1>7. Startable(<<Step("force_update", Foreign), Step("force_update", Native)>>)
  BY <1>1, ForceFacts, NothingNeeded DEF Startable
<1> QED  BY <1>2, <1>3, <1>4, <1>5, <1>6, <1>7, ZapAllStartable DEF Programs

-----------------------------------------------------------------------------
(* What steps have in common.                                              *)

(* Steps that prepare the next one.                                        *)
Prepares ==
    Fetching \cup {"update", "cache_update", "read_index", "fetch_apk", "apk_received", "verify"}

LEMMA FreeNext ==
    ASSUME NEW x, NEW y, MayFollow(x, y), x.op \notin Prepares
    PROVE  y.op \notin Bound
  BY StepFacts DEF MayFollow, Prepares, Bound, Fetching, Using

LEMMA Unprepared ==
    ASSUME todo' # <<>> => Head(todo').op \notin Bound
    PROVE  /\ Prepared'
           /\ todo' # <<>> => Head(todo').op \notin Fetching
           /\ ~At("copied")'
  BY DEF Prepared, At, Bound, Fetching, Using

(* A step that changes nothing but the files and memory named.             *)
LEMMA QuietContinue ==
    ASSUME IInv, todo # <<>>, Head(todo).op \notin Prepares \cup {"move"}, todo' = Tail(todo),
           UNCHANGED <<index, apkStatic, updated, offline, torn>>
    PROVE  Proper(todo)' /\ Prepared' /\ StaticIsCurrent' /\ IndexStays' /\ DamageIsKnown'
<1>1. /\ Proper(todo') /\ (todo' # <<>> => MayFollow(Head(todo), Head(todo')))
      /\ Reads(todo') => Reads(todo)
      /\ Pending(todo') => Pending(todo)
  BY Rest DEF IInv
<1>2. todo' # <<>> => Head(todo').op \notin Bound
  BY <1>1, FreeNext
<1>3. Prepared' /\ (todo' # <<>> => Head(todo').op \notin Fetching)
  BY <1>2, Unprepared
<1>4. StaticIsCurrent'
  BY <1>1, <1>3 DEF IInv, StaticIsCurrent
<1>5. IndexStays'
  BY <1>1 DEF IInv, IndexStays
<1>6. DamageIsKnown'
  BY DEF IInv, DamageIsKnown, At, Prepares, Fetching
<1> QED  BY <1>1, <1>3, <1>4, <1>5, <1>6

LEMMA LocalUnchanged ==
    ASSUME IInv, todo # <<>>, Head(todo).op \notin {"rename", "write_temporary", "clear_cache"},
           UNCHANGED <<local, parsed, dirty>>
    PROVE  CacheIsCurrent' /\ IndexFollows'
<1>1. CacheIsCurrent'
  BY DEF IInv, CacheIsCurrent, CachedResults, At, local
<1>2. IndexFollows'
  BY DEF IInv, IndexFollows, At, local
<1> QED  BY <1>1, <1>2

(* The end of a program.                                                   *)
LEMMA AbortFacts ==
    ASSUME todo' = <<>>
    PROVE  Proper(todo)' /\ Prepared' /\ StaticIsCurrent' /\ IndexStays' /\ CacheIsCurrent'
<1>1. Proper(todo') /\ ~Reads(todo') /\ ~Pending(todo')
  BY EmptyProper
<1>2. Prepared'
  BY Unprepared
<1>3. StaticIsCurrent' /\ IndexStays' /\ CacheIsCurrent'
  BY <1>1 DEF StaticIsCurrent, IndexStays, CacheIsCurrent
<1> QED  BY <1>1, <1>2, <1>3

LEMMA HeadOK ==
    ASSUME IInv, todo # <<>>
    PROVE  /\ StepOK(Head(todo))
           /\ Head(todo).op \in OnArches => X \in Arches
           /\ Head(todo).op = "build" => X \in Packages
           /\ Head(todo).op = "lookup" => X \in Forms
  BY Rest DEF IInv, StepOK, X

-----------------------------------------------------------------------------
(* update()                                                                *)

LEMMA UpdateContinues ==
    ASSUME IInv, At("update"), X \in updated \/ offline \/ ~Outdated(X),
           Continue, updated' = updated \cup {X},
           UNCHANGED <<mirror, files, local, clock, parsed, wanted, offline, history, runs>>
    PROVE  IInv'
<1>1. X \in Arches /\ todo # <<>> /\ Head(todo).op = "update"
  BY HeadOK DEF At, OnArches
<1>2. /\ Proper(todo')
      /\ todo' # <<>> => MayFollow(Head(todo), Head(todo'))
      /\ Reads(todo') => Reads(todo)
      /\ Pending(todo') => Pending(todo)
  BY <1>1, Rest DEF IInv, Continue
<1>3. todo' # <<>> => /\ Head(todo').op \notin Bound \ {"read_index"}
                      /\ Head(todo').op = "read_index" => X = Native
  BY <1>1, <1>2, StepFacts DEF MayFollow, Bound, Fetching, Using, X
<1>4. TypeOK'
  BY <1>1 DEF IInv, TypeOK, files, local, history
<1>5. Prepared'
  BY <1>3 DEF Prepared, At, Bound, Fetching, Using
<1>6. StaticIsCurrent'
  BY <1>2, <1>3 DEF IInv, StaticIsCurrent, files, Bound, Fetching
<1>7. IndexStays'
  BY <1>2 DEF IInv, IndexStays, Outdated, files
<1>8. DamageIsKnown'
  BY <1>1 DEF IInv, DamageIsKnown, At, files, history
<1>9. CacheIsCurrent' /\ IndexFollows'
  BY <1>1, LocalUnchanged DEF history
<1> QED  BY <1>2, <1>4, <1>5, <1>6, <1>7, <1>8, <1>9 DEF IInv

(* Fetching an index, before what is left to do.                           *)
LEMMA FetchReplaces ==
    ASSUME NEW a \in Arches, NEW steps, NEW rest,
           steps = FetchSteps(a) \/ steps = FetchSteps(a) \o <<Step("cache_update", a)>>,
           Proper(rest), rest # <<>> => MayFollow(steps[Len(steps)], Head(rest))
    PROVE  /\ Proper(steps \o rest)
           /\ steps \o rest # <<>> /\ Head(steps \o rest) = Step("download", a)
           /\ Reads(steps \o rest) => Reads(rest)
           /\ Pending(steps \o rest) => Pending(rest)
<1> DEFINE f == FetchSteps(a)
           u == <<Step("cache_update", a)>>
<1>1. /\ Proper(f) /\ f # <<>> /\ Head(f) = Step("download", a)
      /\ Len(f) = 4 /\ f[Len(f)] = Step("copied", a)
      /\ \A k \in 1..Len(f) : ~Parts(f[k]) /\ ~Needs(f[k]) /\ f[k].op # "move"
  BY FetchFacts
<1>2. /\ Proper(u) /\ u # <<>> /\ Head(u) = Step("cache_update", a)
      /\ \A k \in 1..Len(u) : u[k] = Step("cache_update", a)
  <2>1. StepOK(Step("cache_update", a))
    BY StepTypes DEF Ops, OnArches
  <2> QED  BY <2>1, OneStep DEF Ops, NeverLast
<1> HIDE DEF f, u
<1>3. \A k \in 1..Len(u) : ~Parts(u[k]) /\ ~Needs(u[k])
  BY <1>2, StepFacts DEF Parts, Needs
<1>4. u # <<>> => MayFollow(f[Len(f)], Head(u))
  BY <1>1, <1>2, StepFacts DEF MayFollow
<1>5. /\ Proper(f \o u) /\ f \o u # <<>> /\ Head(f \o u) = Head(f)
      /\ \A k \in 1..Len(f \o u) :
            (\E i \in 1..Len(f) : (f \o u)[k] = f[i]) \/ (\E i \in 1..Len(u) : (f \o u)[k] = u[i])
  <2>1. (\A k \in 1..Len(f) : ~Parts(f[k])) \/ (\A k \in 1..Len(u) : ~Needs(u[k]))
    BY <1>1
  <2> QED  BY <1>1, <1>2, <1>4, <2>1, Join
<1>6. /\ Proper(steps) /\ steps # <<>> /\ Head(steps) = Step("download", a)
      /\ \A k \in 1..Len(steps) : ~Parts(steps[k]) /\ ~Needs(steps[k])
  <2>1. steps = f \/ steps = f \o u
    BY DEF f, u
  <2>2. CASE steps = f
    BY <1>1, <2>2
  <2>3. CASE steps = f \o u
    BY <1>1, <1>3, <1>5, <2>3
  <2> QED  BY <2>1, <2>2, <2>3
<1>7. ~Reads(steps) /\ ~Pending(steps)
  BY <1>6, NothingNeeded
<1>8. (\A k \in 1..Len(steps) : ~Parts(steps[k])) \/ (\A k \in 1..Len(rest) : ~Needs(rest[k]))
  BY <1>6
<1> QED  BY <1>6, <1>7, <1>8, Join

(* Steps that fetch an index: on behalf  of update(), or forced.        *)
LEMMA Fetches ==
    ASSUME IInv, todo # <<>>, Head(todo).op \in {"update", "force_update"}, X \in Arches,
           NEW steps, steps = FetchSteps(X) \/ steps = FetchSteps(X) \o <<Step("cache_update", X)>>,
           Tail(todo) # <<>> => MayFollow(steps[Len(steps)], Head(Tail(todo))),
           Pending(Tail(todo)) => X # Native,
           todo' = steps \o Tail(todo),
           UNCHANGED <<mirror, files, local, clock, memory, history, runs>>
    PROVE  IInv'
<1>1. /\ Proper(Tail(todo)) /\ (Reads(Tail(todo)) => Reads(todo))
      /\ (Pending(Tail(todo)) => Pending(todo))
  BY Rest DEF IInv
<1>2. /\ Proper(todo') /\ todo' # <<>> /\ Head(todo') = Step("download", X)
      /\ Reads(todo') => Reads(Tail(todo))
      /\ Pending(todo') => Pending(Tail(todo))
  <2> DEFINE rest == Tail(todo)
             a == X
  <2>1. /\ Proper(rest) /\ (rest # <<>> => MayFollow(steps[Len(steps)], Head(rest)))
        /\ a \in Arches
        /\ steps = FetchSteps(a) \/ steps = FetchSteps(a) \o <<Step("cache_update", a)>>
    BY <1>1
  <2> HIDE DEF rest, a
  <2>2. /\ Proper(steps \o rest)
        /\ steps \o rest # <<>> /\ Head(steps \o rest) = Step("download", a)
        /\ Reads(steps \o rest) => Reads(rest)
        /\ Pending(steps \o rest) => Pending(rest)
    BY <2>1, FetchReplaces
  <2> QED  BY <2>2 DEF rest, a
<1>3. Head(todo').op = "download" /\ Head(todo').arg = X
  BY <1>2, StepFacts
<1>4. TypeOK'
  BY DEF IInv, TypeOK, files, local, memory, history
<1>5. Prepared'
  BY <1>3 DEF Prepared, At, Using
<1>6. StaticIsCurrent'
  <2>1. X' = X
    BY <1>3 DEF X
  <2> QED  BY <1>1, <1>2, <2>1 DEF IInv, StaticIsCurrent, files, memory
<1>7. IndexStays'
  BY <1>1, <1>2 DEF IInv, IndexStays, files, memory
<1>8. DamageIsKnown'
  BY DEF IInv, DamageIsKnown, At, files, history
<1>9. CacheIsCurrent' /\ IndexFollows'
  BY LocalUnchanged DEF memory, history
<1> QED  BY <1>2, <1>4, <1>5, <1>6, <1>7, <1>8, <1>9 DEF IInv

LEMMA UpdateStep ==
    ASSUME IInv, Update
    PROVE  IInv'
<1>1. todo # <<>> /\ Head(todo).op = "update" /\ X \in Arches
  BY HeadOK DEF Update, At, OnArches
<1>2. CASE X \in updated \/ offline \/ ~Outdated(X)
  BY <1>2, UpdateContinues DEF Update
<1>3. CASE ~(X \in updated \/ offline \/ ~Outdated(X))
  <2> DEFINE steps == FetchSteps(X) \o <<Step("cache_update", X)>>
  <2>1. todo' = steps \o Tail(todo)
    BY <1>3 DEF Update, Replace
  <2>2. Tail(todo) # <<>> => MayFollow(steps[Len(steps)], Head(Tail(todo)))
    <3>1. Len(steps) = 5 /\ steps[5] = Step("cache_update", X)
      BY DEF FetchSteps
    <3>2. Tail(todo) # <<>> => MayFollow(Head(todo), Head(Tail(todo)))
      BY <1>1, Rest DEF IInv
    <3>3. Head(todo) = Step("update", X)
      BY <1>1, HeadOK DEF StepOK, StepType, Step, X
    <3>4. Tail(todo) # <<>> => MayFollow(Step("cache_update", X), Head(Tail(todo)))
      BY <3>2, <3>3, StepFacts DEF MayFollow, Step
    <3> QED  BY <3>1, <3>4
  <2>3. Pending(Tail(todo)) => X # Native
    <3>1. Pending(Tail(todo)) => Pending(todo)
      BY <1>1, Rest DEF IInv
    <3> QED  BY <1>3, <3>1 DEF IInv, StaticIsCurrent
  <2>4. UNCHANGED <<mirror, files, local, clock, memory, history, runs>>
    BY <1>3 DEF Update, memory
  <2> HIDE DEF steps
  <2>5. steps = FetchSteps(X) \o <<Step("cache_update", X)>>
    BY DEF steps
  <2> QED  BY <1>1, <2>1, <2>2, <2>3, <2>4, <2>5, Fetches
<1> QED  BY <1>2, <1>3

LEMMA CacheUpdateStep ==
    ASSUME IInv, CacheUpdate
    PROVE  IInv'
<1>1. todo # <<>> /\ Head(todo).op = "cache_update" /\ X \in Arches
  BY HeadOK DEF CacheUpdate, At, OnArches
<1>2. /\ Proper(todo')
      /\ todo' # <<>> => MayFollow(Head(todo), Head(todo'))
      /\ Reads(todo') => Reads(todo)
      /\ Pending(todo') => Pending(todo)
  BY <1>1, Rest DEF IInv, CacheUpdate, Continue
<1>3. todo' # <<>> => /\ Head(todo').op \notin Bound \ {"read_index"}
                      /\ Head(todo').op = "read_index" => X = Native
  BY <1>1, <1>2, StepFacts DEF MayFollow, Bound, Fetching, Using, X
<1>4. TypeOK'
  BY <1>1 DEF IInv, TypeOK, CacheUpdate, files, local, history
<1>5. Prepared'
  BY <1>3 DEF Prepared, At, Bound, Fetching, Using, CacheUpdate
<1>6. StaticIsCurrent'
  BY <1>2, <1>3 DEF IInv, StaticIsCurrent, CacheUpdate, files, Bound, Fetching
<1>7. IndexStays'
  <2>1. index[X] # NoFile
    BY <1>1 DEF IInv, Prepared, At, CacheUpdate, Versions, NoFile, Short
  <2> QED  BY <1>2, <2>1 DEF IInv, IndexStays, CacheUpdate, files
<1>8. DamageIsKnown'
  BY <1>1 DEF IInv, DamageIsKnown, CacheUpdate, At, files, history
<1>9. CacheIsCurrent' /\ IndexFollows'
  BY <1>1, LocalUnchanged DEF CacheUpdate, history
<1> QED  BY <1>2, <1>4, <1>5, <1>6, <1>7, <1>8, <1>9 DEF IInv

(* A step that changes nothing at all but what is left to do.              *)
LEMMA OnlyContinues ==
    ASSUME IInv, todo # <<>>,
           Head(todo).op \notin Prepares \cup {"move", "rename", "write_temporary", "clear_cache"},
           Continue, UNCHANGED <<mirror, files, local, clock, memory, history, runs>>
    PROVE  IInv'
<1>1. TypeOK'
  BY DEF IInv, TypeOK, files, local, memory, history
<1>2. Proper(todo)' /\ Prepared' /\ StaticIsCurrent' /\ IndexStays' /\ DamageIsKnown'
  BY QuietContinue DEF Continue, files, memory, history
<1>3. CacheIsCurrent' /\ IndexFollows'
  BY LocalUnchanged DEF memory, history
<1> QED  BY <1>1, <1>2, <1>3 DEF IInv

LEMMA ForceUpdateStep ==
    ASSUME IInv, ForceUpdate
    PROVE  IInv'
<1>1. todo # <<>> /\ Head(todo).op = "force_update" /\ X \in Arches
  BY HeadOK DEF ForceUpdate, At, OnArches
<1>2. CASE offline \/ index[X] = NoFile
  BY <1>1, <1>2, OnlyContinues DEF ForceUpdate, Prepares, Fetching
<1>3. CASE ~(offline \/ index[X] = NoFile)
  <2> DEFINE steps == FetchSteps(X)
  <2>1. todo' = steps \o Tail(todo)
    BY <1>3 DEF ForceUpdate, Replace
  <2>2. Tail(todo) # <<>> => MayFollow(steps[Len(steps)], Head(Tail(todo)))
    <3>1. Len(steps) = 4 /\ steps[4] = Step("copied", X)
      BY DEF FetchSteps
    <3>2. Tail(todo) # <<>> => MayFollow(Head(todo), Head(Tail(todo)))
      BY <1>1, Rest DEF IInv
    <3>3. Tail(todo) # <<>> => MayFollow(Step("copied", X), Head(Tail(todo)))
      BY <1>1, <3>2, StepFacts DEF MayFollow
    <3> QED  BY <3>1, <3>3
  <2>3. ~Pending(Tail(todo))
    BY <1>1, Rest DEF IInv, Parts
  <2>4. UNCHANGED <<mirror, files, local, clock, memory, history, runs>>
    BY DEF ForceUpdate
  <2> HIDE DEF steps
  <2>5. steps = FetchSteps(X)
    BY DEF steps
  <2> QED  BY <1>1, <2>1, <2>2, <2>3, <2>4, <2>5, Fetches
<1> QED  BY <1>2, <1>3

(* A download goes on, with the index of the same architecture.            *)
LEMMA FetchGoesOn ==
    ASSUME IInv, todo # <<>>, Head(todo).op \in Fetching, Continue
    PROVE  /\ Proper(todo')
           /\ X \in Arches
           /\ Reads(todo') => Reads(todo)
           /\ Pending(todo') => Pending(todo) /\ X # Native
           /\ Head(todo).op = "copy" => todo' # <<>> /\ Head(todo').op = "copied" /\ X' = X
           /\ todo' # <<>> /\ Head(todo').op \in Bound => X' = X
           /\ todo' # <<>> => Head(todo').op \notin Using \cup {"read_index"}
           /\ todo' # <<>> => /\ Head(todo').op = "copy" => Head(todo).op = "received"
                              /\ Head(todo').op = "copied" => Head(todo).op = "copy"
                              /\ Head(todo').op = "cache_update" => Head(todo).op = "copied"
<1>1. /\ Proper(todo')
      /\ todo' # <<>> => MayFollow(Head(todo), Head(todo')) /\ StepOK(Head(todo'))
      /\ todo' = <<>> => Head(todo).op \notin NeverLast
      /\ Reads(todo') => Reads(todo)
      /\ Pending(todo') => Pending(todo)
  BY Rest DEF IInv, Continue, Fetching
<1>2. X \in Arches
  BY HeadOK DEF Fetching, OnArches
<1>3. Pending(todo') => X # Native
  BY <1>1 DEF IInv, StaticIsCurrent
<1>4. Head(todo).op = "copy" => todo' # <<>> /\ Head(todo').op = "copied" /\ X' = X
  BY <1>1, StepFacts DEF MayFollow, NeverLast, X
<1>5. todo' # <<>> => Head(todo').op \notin Using \cup {"read_index"}
  BY <1>1, StepFacts DEF MayFollow, Using, Fetching
<1>6. todo' # <<>> => /\ Head(todo').op = "copy" => Head(todo).op = "received"
                      /\ Head(todo').op = "copied" => Head(todo).op = "copy"
                      /\ Head(todo').op = "cache_update" => Head(todo).op = "copied"
  BY <1>1, StepFacts DEF MayFollow
<1>7. todo' # <<>> /\ Head(todo').op \in Bound => X' = X
  <2> SUFFICES ASSUME todo' # <<>>, Head(todo').op \in Bound
               PROVE  Head(todo').arg = Head(todo).arg
    BY DEF X
  <2>1. Head(todo').op \in {"received", "copy", "copied", "cache_update"}
    BY <1>1, <1>5 DEF Bound, Fetching, MayFollow
  <2> QED  BY <1>1, <2>1, StepFacts DEF MayFollow
<1> QED  BY <1>1, <1>2, <1>3, <1>4, <1>5, <1>6, <1>7

(* What changes on the way: the download, then the index.                  *)
LEMMA FetchStep ==
    ASSUME IInv, todo # <<>>, Head(todo).op \in Fetching, Continue,
           \A a \in Arches : a # X => index'[a] = index[a],
           index'[X] = NoFile => index[X] = NoFile,
           UNCHANGED <<mirror, apkStatic, local, clock, memory, dirty, runs>>
    PROVE  /\ Proper(todo)' /\ StaticIsCurrent' /\ IndexStays'
           /\ CacheIsCurrent' /\ IndexFollows'
<1>1. /\ Proper(todo') /\ X \in Arches
      /\ Reads(todo') => Reads(todo)
      /\ Pending(todo') => Pending(todo) /\ X # Native
      /\ todo' # <<>> /\ Head(todo').op \in Bound => X' = X
  BY FetchGoesOn
<1>2. StaticIsCurrent'
  BY <1>1 DEF IInv, StaticIsCurrent, Arches, memory, Bound
<1>3. IndexStays'
  BY <1>1 DEF IInv, IndexStays, Arches, memory
<1>4. CacheIsCurrent' /\ IndexFollows'
  BY LocalUnchanged DEF memory, Fetching
<1> QED  BY <1>1, <1>2, <1>3, <1>4

LEMMA DownloadStep ==
    ASSUME IInv, Download
    PROVE  IInv'
<1>1. todo # <<>> /\ Head(todo).op = "download" /\ X \in Arches
  BY HeadOK DEF Download, At, OnArches
<1>2. todo' # <<>> => Head(todo').op \notin {"copy", "copied", "cache_update", "read_index"} \cup Using
  BY <1>1, FetchGoesOn DEF Download, Fetching
<1>3. TypeOK'
  BY <1>1 DEF IInv, TypeOK, Download, local, memory, history, Damaged, Contents
<1>4. Prepared'
  BY <1>2 DEF Prepared, At, Using
<1>5. Proper(todo)' /\ StaticIsCurrent' /\ IndexStays' /\ CacheIsCurrent' /\ IndexFollows'
  BY <1>1, FetchStep DEF Download, Fetching, history
<1>6. DamageIsKnown'
  BY <1>1 DEF IInv, DamageIsKnown, Download, At, history
<1> QED  BY <1>3, <1>4, <1>5, <1>6 DEF IInv

LEMMA ReceivedStep ==
    ASSUME IInv, Received
    PROVE  IInv'
<1>1. todo # <<>> /\ Head(todo).op = "received" /\ X \in Arches
  BY HeadOK DEF Received, At, OnArches
<1>2. todo' # <<>> => /\ Head(todo').op \notin {"copied", "cache_update", "read_index"} \cup Using
                      /\ Head(todo').op = "copy" => X' = X
  BY <1>1, FetchGoesOn DEF Received, Fetching, Bound
<1>3. TypeOK' /\ http'[X] \in Versions \cup {Short}
  <2>1. PICK file \in {mirror, Short} : http' = [http EXCEPT ![X] = file]
    BY DEF Received
  <2>2. file \in Versions \cup {Short} /\ http \in [Arches -> Contents]
    BY DEF IInv, TypeOK
  <2>3. http' \in [Arches -> Contents] /\ http'[X] = file
    BY <1>1, <2>1, <2>2 DEF Contents
  <2> QED  BY <2>2, <2>3 DEF IInv, TypeOK, Received, local, memory, history
<1>4. Prepared'
  BY <1>2, <1>3 DEF Prepared, At, Using
<1>5. Proper(todo)' /\ StaticIsCurrent' /\ IndexStays' /\ CacheIsCurrent' /\ IndexFollows'
  BY <1>1, FetchStep DEF Received, Fetching, history
<1>6. DamageIsKnown'
  BY <1>1 DEF IInv, DamageIsKnown, Received, At, history
<1> QED  BY <1>3, <1>4, <1>5, <1>6 DEF IInv

LEMMA CopyStep ==
    ASSUME IInv, Copy
    PROVE  IInv'
<1>1. todo # <<>> /\ Head(todo).op = "copy" /\ X \in Arches
  BY HeadOK DEF Copy, At, OnArches
<1>2. todo' # <<>> /\ Head(todo').op = "copied" /\ X' = X
  BY <1>1, FetchGoesOn DEF Copy, Fetching
<1>3. TypeOK'
  BY <1>1 DEF IInv, TypeOK, Copy, local, memory, history, Damaged, Contents
<1>4. Prepared'
  BY <1>1, <1>2 DEF IInv, Prepared, At, Using, Copy
<1>5. /\ \A a \in Arches : a # X => index'[a] = index[a]
      /\ index'[X] = Damaged /\ Damaged # NoFile
  BY <1>1 DEF IInv, TypeOK, Copy, Damaged, NoFile
<1>6. Proper(todo)' /\ StaticIsCurrent' /\ IndexStays' /\ CacheIsCurrent' /\ IndexFollows'
  BY <1>1, <1>5, FetchStep DEF Copy, Fetching, history
<1>7. DamageIsKnown'
  BY <1>1, <1>2, <1>5 DEF IInv, DamageIsKnown, Copy, At, history
<1> QED  BY <1>3, <1>4, <1>6, <1>7 DEF IInv

LEMMA CopiedStep ==
    ASSUME IInv, Copied
    PROVE  IInv'
<1>1. todo # <<>> /\ Head(todo).op = "copied" /\ X \in Arches
  BY HeadOK DEF Copied, At, OnArches
<1>2. todo' # <<>> => /\ Head(todo').op \notin {"copy", "copied", "read_index"} \cup Using
                      /\ Head(todo').op = "cache_update" => X' = X
  BY <1>1, FetchGoesOn DEF Copied, Fetching, Bound
<1>3. http[X] \in Versions \cup {Short}
  BY <1>1 DEF IInv, Prepared, At
<1>4. TypeOK'
  BY <1>1, <1>3 DEF IInv, TypeOK, Copied, local, memory
<1>5. /\ \A a \in Arches : a # X => index'[a] = index[a]
      /\ index'[X] \in Versions \cup {Short} /\ index'[X] # NoFile /\ index'[X] # Damaged
  <2>1. \A v \in Versions \cup {Short} : v # NoFile /\ v # Damaged
    BY BoundsAssumption DEF Versions, NoFile, Damaged, Short
  <2> QED  BY <1>1, <1>3, <2>1 DEF IInv, TypeOK, Copied
<1>6. Prepared'
  BY <1>2, <1>5 DEF Prepared, At, Using
<1>7. Proper(todo)' /\ StaticIsCurrent' /\ IndexStays' /\ CacheIsCurrent' /\ IndexFollows'
  BY <1>1, <1>5, FetchStep DEF Copied, Fetching
<1>8. DamageIsKnown'
  BY <1>1, <1>5 DEF IInv, DamageIsKnown, Copied, At
<1> QED  BY <1>4, <1>6, <1>7, <1>8 DEF IInv

-----------------------------------------------------------------------------
(* apk_static.init()                                                       *)

(* The program ends and nothing else happens.                              *)
LEMMA OnlyAborts ==
    ASSUME IInv, todo # <<>>, Head(todo).op \notin {"copied", "rename", "write_temporary"},
           Abort, UNCHANGED <<mirror, files, local, clock, memory, history, runs>>
    PROVE  IInv'
<1>1. Proper(todo)' /\ Prepared' /\ StaticIsCurrent' /\ IndexStays' /\ CacheIsCurrent'
  BY AbortFacts DEF Abort
<1>2. TypeOK'
  BY DEF IInv, TypeOK, files, local, memory, history
<1>3. DamageIsKnown' /\ IndexFollows'
  BY DEF IInv, DamageIsKnown, IndexFollows, At, files, local, history
<1> QED  BY <1>1, <1>2, <1>3 DEF IInv

(* From the version in the index to the apk.static, one step after the     *)
(* other, while the index stays the same.                                  *)
LEMMA ApkGoesOn ==
    ASSUME IInv, todo # <<>>, Head(todo).op \in {"read_index"} \cup Using, Head(todo).op # "move",
           todo' = Tail(todo) \/ todo' = <<Step("apk_received", Native)>> \o Tail(todo),
           Head(todo).op # "fetch_apk" => todo' = Tail(todo),
           ApkIsKnown',
           Head(todo).op = "verify" => (apkFiles[wanted] = wanted)',
           UNCHANGED <<mirror, index, apkStatic, local, updated, parsed, offline, history>>
    PROVE  Prepared' /\ Proper(todo)' /\ StaticIsCurrent' /\ IndexStays' /\ DamageIsKnown'
           /\ CacheIsCurrent' /\ IndexFollows'
<1> DEFINE t == Tail(todo)
           r == <<Step("apk_received", Native)>>
<1>1. /\ Proper(t)
      /\ t # <<>> => MayFollow(Head(todo), Head(t))
      /\ Reads(t) => Reads(todo)
      /\ Pending(t) => Pending(todo)
  BY Rest DEF IInv, Using
<1>2. t # <<>> => /\ Head(t).op \notin Bound \ {"fetch_apk", "verify", "move"}
                  /\ Head(t).op = "move" => Head(todo).op = "verify"
  BY <1>1, StepFacts DEF MayFollow, Bound, Fetching, Using
<1>3. StepOK(Step("apk_received", Native))
  BY StepTypes DEF Ops, OnArches, Arches
<1>4. /\ Proper(r) /\ r # <<>> /\ Head(r) = Step("apk_received", Native)
      /\ Len(r) = 1 /\ r[Len(r)] = Step("apk_received", Native)
      /\ \A k \in 1..Len(r) : r[k] = Step("apk_received", Native)
  BY <1>3, OneStep DEF Ops, NeverLast
<1> HIDE DEF r
<1>5. \A k \in 1..Len(r) : ~Parts(r[k]) /\ ~Needs(r[k])
  BY <1>4, StepFacts DEF Parts, Needs
<1>6. ASSUME Head(todo).op = "fetch_apk"
      PROVE  t # <<>> => MayFollow(r[Len(r)], Head(t))
  BY <1>1, <1>4, <1>6, StepFacts DEF MayFollow
<1>7. (\A k \in 1..Len(r) : ~Parts(r[k])) \/ (\A k \in 1..Len(t) : ~Needs(t[k]))
  BY <1>5
<1>8. ~Reads(r) /\ ~Pending(r)
  BY <1>5, NothingNeeded
<1> HIDE DEF t
<1>9. ASSUME Head(todo).op = "fetch_apk"
      PROVE  /\ Proper(r \o t) /\ r \o t # <<>> /\ Head(r \o t) = Head(r)
             /\ Reads(r \o t) => Reads(r) \/ Reads(t)
             /\ Pending(r \o t) => Pending(r) \/ (Pending(t) /\ \A k \in 1..Len(r) : r[k].op # "move")
  BY <1>1, <1>4, <1>6, <1>7, <1>9, Join
<1>10. todo' = t \/ (todo' = r \o t /\ Head(todo).op = "fetch_apk")
  BY DEF t, r
<1>11. /\ Proper(todo')
       /\ Reads(todo') => Reads(todo)
       /\ Pending(todo') => Pending(todo)
       /\ todo' # <<>> => /\ Head(todo').op \notin Bound \ {"fetch_apk", "apk_received", "verify", "move"}
                          /\ Head(todo').op = "move" => Head(todo).op = "verify"
  <2>1. CASE todo' = t
    BY <1>1, <1>2, <2>1
  <2>2. CASE todo' = r \o t /\ Head(todo).op = "fetch_apk"
    BY <1>1, <1>4, <1>8, <1>9, <2>2, StepFacts
  <2> QED  BY <1>10, <2>1, <2>2
<1>12. Prepared'
  BY <1>11 DEF Prepared, At, Bound, Fetching
<1>13. StaticIsCurrent'
  BY <1>11 DEF IInv, StaticIsCurrent, Bound, Fetching
<1>14. IndexStays'
  BY <1>11 DEF IInv, IndexStays
<1>15. DamageIsKnown'
  BY DEF IInv, DamageIsKnown, At, history, Using
<1>16. CacheIsCurrent' /\ IndexFollows'
  BY LocalUnchanged DEF history, Using
<1> QED  BY <1>11, <1>12, <1>13, <1>14, <1>15, <1>16

LEMMA ReadIndexStep ==
    ASSUME IInv, ReadIndex
    PROVE  IInv'
<1>1. todo # <<>> /\ Head(todo).op = "read_index"
  BY DEF ReadIndex, At
<1>2. CASE index[Native] >= MinVersion
  <2>1. index[Native] \in Versions
    BY <1>2, BoundsAssumption
       DEF IInv, TypeOK, Arches, Versions, Contents, NoFile, Damaged, Short
  <2>2. wanted' = index[Native] /\ todo' = Tail(todo)
    BY <1>2 DEF ReadIndex, Continue
  <2>3. ApkIsKnown'
    BY <1>1, <1>2, <2>1, <2>2 DEF IInv, Prepared, At, ApkIsKnown, ReadIndex, files
  <2>4. TypeOK'
    BY <2>1, <2>2 DEF IInv, TypeOK, ReadIndex, files, local, history
  <2>5. Prepared' /\ Proper(todo)' /\ StaticIsCurrent' /\ IndexStays' /\ DamageIsKnown'
        /\ CacheIsCurrent' /\ IndexFollows'
    BY <1>1, <2>2, <2>3, ApkGoesOn DEF ReadIndex, files
  <2> QED  BY <2>4, <2>5 DEF IInv
<1>3. CASE ~(index[Native] >= MinVersion)
  BY <1>1, <1>3, OnlyAborts DEF ReadIndex, memory
<1> QED  BY <1>2, <1>3

LEMMA FetchApkStep ==
    ASSUME IInv, FetchApk
    PROVE  IInv'
<1>1. todo # <<>> /\ Head(todo).op = "fetch_apk" /\ ApkIsKnown
  BY DEF FetchApk, At, IInv, Prepared, Using
<1>2. ApkIsKnown'
  BY <1>1 DEF ApkIsKnown, FetchApk, memory
<1>3. TypeOK'
  BY <1>1 DEF IInv, TypeOK, FetchApk, ApkIsKnown, local, memory, history, Damaged, Contents
<1>4. Prepared' /\ Proper(todo)' /\ StaticIsCurrent' /\ IndexStays' /\ DamageIsKnown'
      /\ CacheIsCurrent' /\ IndexFollows'
  BY <1>1, <1>2, ApkGoesOn DEF FetchApk, Continue, Replace, Using, memory
<1> QED  BY <1>3, <1>4 DEF IInv

LEMMA ApkMissingStep ==
    ASSUME IInv, ApkMissing
    PROVE  IInv'
  BY OnlyAborts DEF ApkMissing, At

LEMMA ApkReceivedStep ==
    ASSUME IInv, ApkReceived
    PROVE  IInv'
<1>1. todo # <<>> /\ Head(todo).op = "apk_received" /\ ApkIsKnown
  BY DEF ApkReceived, At, IInv, Prepared, Using
<1>2. ApkIsKnown'
  BY <1>1 DEF ApkIsKnown, ApkReceived, memory
<1>3. TypeOK'
  <2>1. apkFiles' \in [Versions -> Contents]
    <3>1. PICK file \in {wanted, Short} : apkFiles' = [apkFiles EXCEPT ![wanted] = file]
      BY DEF ApkReceived
    <3>2. file \in Contents /\ apkFiles \in [Versions -> Contents]
      BY <1>1 DEF ApkIsKnown, Contents, IInv, TypeOK
    <3> QED  BY <3>1, <3>2
  <2> QED  BY <2>1 DEF IInv, TypeOK, ApkReceived, local, memory, history
<1>4. Prepared' /\ Proper(todo)' /\ StaticIsCurrent' /\ IndexStays' /\ DamageIsKnown'
      /\ CacheIsCurrent' /\ IndexFollows'
  BY <1>1, <1>2, ApkGoesOn DEF ApkReceived, Continue, Using, memory
<1> QED  BY <1>3, <1>4 DEF IInv

LEMMA VerifyStep ==
    ASSUME IInv, Verify
    PROVE  IInv'
<1>1. todo # <<>> /\ Head(todo).op = "verify" /\ ApkIsKnown
  BY DEF Verify, At, IInv, Prepared, Using
<1>2. CASE apkFiles[wanted] = wanted
  <2>1. ApkIsKnown' /\ (apkFiles[wanted] = wanted)'
    BY <1>1, <1>2 DEF ApkIsKnown, Verify, files, memory
  <2>2. TypeOK'
    BY DEF IInv, TypeOK, Verify, files, local, memory, history
  <2>3. Prepared' /\ Proper(todo)' /\ StaticIsCurrent' /\ IndexStays' /\ DamageIsKnown'
        /\ CacheIsCurrent' /\ IndexFollows'
    BY <1>1, <1>2, <2>1, ApkGoesOn DEF Verify, Continue, Using, files, memory
  <2> QED  BY <2>2, <2>3 DEF IInv
<1>3. CASE apkFiles[wanted] # wanted
  BY <1>1, <1>3, OnlyAborts DEF Verify
<1> QED  BY <1>2, <1>3

LEMMA MoveStep ==
    ASSUME IInv, Move
    PROVE  IInv'
<1>1. todo # <<>> /\ Head(todo).op = "move" /\ ApkIsKnown /\ apkFiles[wanted] = wanted
  BY DEF Move, At, IInv, Prepared, Using
<1>2. /\ Proper(todo') /\ (todo' # <<>> => MayFollow(Head(todo), Head(todo')))
      /\ Reads(todo') => Reads(todo)
  BY <1>1, Rest DEF IInv, Move, Continue
<1>3. todo' # <<>> => Head(todo').op \notin Bound
  BY <1>1, <1>2, FreeNext DEF Prepares, Fetching
<1>4. Prepared' /\ (todo' # <<>> => Head(todo').op \notin Fetching)
  BY <1>3, Unprepared
<1>5. TypeOK'
  BY <1>1 DEF IInv, TypeOK, Move, ApkIsKnown, local, memory, history
<1>6. StaticIsCurrent'
  BY <1>1, <1>4 DEF StaticIsCurrent, Move, ApkIsKnown, memory
<1>7. IndexStays'
  BY <1>2 DEF IInv, IndexStays, Move, memory
<1>8. DamageIsKnown'
  BY <1>1 DEF IInv, DamageIsKnown, Move, At, history
<1>9. CacheIsCurrent' /\ IndexFollows'
  BY <1>1, LocalUnchanged DEF Move, memory, history
<1> QED  BY <1>2, <1>4, <1>5, <1>6, <1>7, <1>8, <1>9 DEF IInv

LEMMA ApkAddStep ==
    ASSUME IInv, ApkAdd
    PROVE  IInv'
  BY OnlyContinues DEF ApkAdd, At, Prepares, Fetching

LEMMA ApkCacheCleanStep ==
    ASSUME IInv, ApkCacheClean
    PROVE  IInv'
<1>1. todo # <<>> /\ Head(todo).op = "apk_cache_clean" /\ X \in Arches
  BY HeadOK DEF ApkCacheClean, At, OnArches
<1>2. Head(todo) = Step("apk_cache_clean", X)
  BY <1>1, HeadOK DEF StepOK, StepType, Step, X
<1>3. /\ Proper(todo') /\ (todo' # <<>> => MayFollow(Head(todo), Head(todo')))
      /\ Reads(todo') => Reads(todo)
      /\ Pending(todo') => Pending(todo)
      /\ X = Native => ~Reads(todo') /\ ~Pending(todo')
  BY <1>1, <1>2, Rest DEF IInv, ApkCacheClean, Continue, Parts
<1>4. todo' # <<>> => Head(todo').op \notin Bound
  BY <1>1, <1>3, FreeNext DEF Prepares, Fetching
<1>5. Prepared' /\ (todo' # <<>> => Head(todo').op \notin Fetching)
  BY <1>4, Unprepared
<1>6. X # Native => index'[Native] = index[Native]
  BY DEF ApkCacheClean, IInv, TypeOK, Arches
<1>7. TypeOK'
  BY <1>1 DEF IInv, TypeOK, ApkCacheClean, local, memory, Contents
<1>8. StaticIsCurrent'
  BY <1>3, <1>5, <1>6 DEF IInv, StaticIsCurrent, ApkCacheClean, memory
<1>9. IndexStays'
  BY <1>3, <1>6 DEF IInv, IndexStays, ApkCacheClean, memory
<1>10. DamageIsKnown'
  <2>1. \A a \in Arches : index'[a] = Damaged => a # X /\ index[a] = Damaged
    BY <1>1 DEF IInv, TypeOK, ApkCacheClean, NoFile, Damaged
  <2> QED  BY <1>1, <2>1 DEF IInv, DamageIsKnown, ApkCacheClean, At
<1>11. CacheIsCurrent' /\ IndexFollows'
  BY <1>1, LocalUnchanged DEF ApkCacheClean, memory
<1> QED  BY <1>3, <1>5, <1>7, <1>8, <1>9, <1>10, <1>11 DEF IInv

LEMMA ZapHttpStep ==
    ASSUME IInv, ZapHttp
    PROVE  IInv'
<1>1. todo # <<>> /\ Head(todo).op = "zap_http"
  BY DEF ZapHttp, At
<1>2. TypeOK'
  BY DEF IInv, TypeOK, ZapHttp, local, memory, history, Contents
<1>3. Proper(todo)' /\ Prepared' /\ StaticIsCurrent' /\ IndexStays' /\ DamageIsKnown'
  BY <1>1, QuietContinue DEF ZapHttp, Continue, memory, history, Prepares, Fetching
<1>4. CacheIsCurrent' /\ IndexFollows'
  BY <1>1, LocalUnchanged DEF ZapHttp, memory, history
<1> QED  BY <1>2, <1>3, <1>4 DEF IInv

-----------------------------------------------------------------------------
(* The index of the packages built locally.                                *)

LEMMA BuildStep ==
    ASSUME IInv, Build
    PROVE  IInv'
<1>1. todo # <<>> /\ Head(todo).op = "build" /\ X \in Packages
  BY HeadOK DEF Build, At
<1>2. TypeOK'
  BY <1>1 DEF IInv, TypeOK, Build, files, memory, history
<1>3. Proper(todo)' /\ Prepared' /\ StaticIsCurrent' /\ IndexStays' /\ DamageIsKnown'
  BY <1>1, QuietContinue DEF Build, Continue, files, memory, history, Prepares, Fetching
<1>4. todo' # <<>> /\ Head(todo').op = "rename"
  BY <1>1, Rest DEF IInv, Build, Continue, MayFollow, NeverLast
<1>5. CacheIsCurrent'
  BY <1>1 DEF IInv, CacheIsCurrent, CachedResults, At, Build, memory
<1>6. IndexFollows'
  BY <1>4 DEF IndexFollows, At
<1> QED  BY <1>2, <1>3, <1>5, <1>6 DEF IInv

LEMMA WriteTemporaryStep ==
    ASSUME IInv, WriteTemporary
    PROVE  IInv'
<1>1. todo # <<>> /\ Head(todo).op = "write_temporary"
  BY DEF WriteTemporary, At
<1>2. TypeOK'
  BY DEF IInv, TypeOK, WriteTemporary, files, local, memory, history
<1>3. Proper(todo)' /\ Prepared' /\ StaticIsCurrent' /\ IndexStays' /\ DamageIsKnown'
  BY <1>1, QuietContinue DEF WriteTemporary, Continue, files, memory, history, Prepares, Fetching
<1>4. todo' # <<>> /\ Head(todo').op = "rename"
  BY <1>1, Rest DEF IInv, WriteTemporary, Continue, MayFollow, NeverLast
<1>5. CacheIsCurrent'
  BY <1>1 DEF IInv, CacheIsCurrent, CachedResults, At, WriteTemporary, local, memory
<1>6. IndexFollows'
  BY <1>4 DEF IndexFollows, At
<1> QED  BY <1>2, <1>3, <1>5, <1>6 DEF IInv

LEMMA RenameStep ==
    ASSUME IInv, Rename
    PROVE  IInv'
<1>1. todo # <<>> /\ Head(todo).op = "rename"
  BY DEF Rename, At
<1>2. TypeOK'
  BY DEF IInv, TypeOK, Rename, files, memory
<1>3. Proper(todo)' /\ Prepared' /\ StaticIsCurrent' /\ IndexStays' /\ DamageIsKnown'
  BY <1>1, QuietContinue DEF Rename, Continue, files, memory, Prepares, Fetching
<1>4. todo' # <<>> /\ Head(todo').op = "clear_cache"
  BY <1>1, Rest DEF IInv, Rename, Continue, MayFollow, NeverLast
<1>5. CacheIsCurrent'
  BY <1>4 DEF CacheIsCurrent, At
<1>6. IndexFollows'
  BY DEF IndexFollows, Rename
<1> QED  BY <1>2, <1>3, <1>5, <1>6 DEF IInv

LEMMA RemoveMismatchedStep ==
    ASSUME IInv, RemoveMismatched
    PROVE  IInv'
<1>1. todo # <<>> /\ Head(todo).op = "remove_mismatched"
  BY DEF RemoveMismatched, At
<1>2. CASE Removable = {}
  BY <1>1, <1>2, OnlyContinues DEF RemoveMismatched, Prepares, Fetching, local
<1>3. CASE Removable # {}
  <2> DEFINE s == IndexRepoSteps
             t == Tail(todo)
  <2>1. todo' = s \o t
    BY <1>3 DEF RemoveMismatched, Replace
  <2>2. /\ Proper(t) /\ (t # <<>> => MayFollow(Head(todo), Head(t)))
        /\ Reads(t) => Reads(todo)
        /\ Pending(t) => Pending(todo)
    BY <1>1, Rest DEF IInv
  <2>3. /\ Proper(s) /\ s # <<>> /\ Head(s) = Step("write_temporary", "index")
        /\ Len(s) = 3 /\ s[Len(s)] = Step("clear_cache", "index")
        /\ \A k \in 1..Len(s) : ~Parts(s[k]) /\ ~Needs(s[k]) /\ s[k].op # "move"
    BY IndexRepoFacts
  <2> HIDE DEF s, t
  <2>4. t # <<>> => MayFollow(s[Len(s)], Head(t))
    BY <1>1, <2>2, <2>3, StepFacts DEF MayFollow
  <2>5. (\A k \in 1..Len(s) : ~Parts(s[k])) \/ (\A k \in 1..Len(t) : ~Needs(t[k]))
    BY <2>3
  <2>6. ~Reads(s) /\ ~Pending(s)
    BY <2>3, NothingNeeded
  <2>7. /\ Proper(s \o t) /\ s \o t # <<>> /\ Head(s \o t) = Head(s)
        /\ Reads(s \o t) => Reads(s) \/ Reads(t)
        /\ Pending(s \o t) => Pending(s) \/ (Pending(t) /\ \A k \in 1..Len(s) : s[k].op # "move")
    BY <2>2, <2>3, <2>4, <2>5, Join
  <2>8. /\ Proper(todo') /\ todo' # <<>> /\ Head(todo').op = "write_temporary"
        /\ Reads(todo') => Reads(todo)
        /\ Pending(todo') => Pending(todo)
    BY <2>1, <2>2, <2>3, <2>6, <2>7, StepFacts
  <2>9. TypeOK'
    BY <1>3 DEF IInv, TypeOK, RemoveMismatched, files, memory, history
  <2>10. Prepared' /\ Head(todo').op \notin Fetching
    BY <2>8, Unprepared DEF Bound, Fetching, Using
  <2>11. StaticIsCurrent' /\ IndexStays'
    BY <2>8, <2>10 DEF IInv, StaticIsCurrent, IndexStays, RemoveMismatched, files, memory
  <2>12. DamageIsKnown'
    BY <1>1 DEF IInv, DamageIsKnown, RemoveMismatched, At, files, history
  <2>13. CacheIsCurrent'
    BY <1>1 DEF IInv, CacheIsCurrent, CachedResults, At, RemoveMismatched, memory
  <2>14. IndexFollows'
    BY <2>8 DEF IndexFollows, At
  <2> QED  BY <2>8, <2>9, <2>10, <2>11, <2>12, <2>13, <2>14 DEF IInv
<1> QED  BY <1>2, <1>3

LEMMA ClearCacheStep ==
    ASSUME IInv, ClearCache
    PROVE  IInv'
<1>1. todo # <<>> /\ Head(todo).op = "clear_cache"
  BY DEF ClearCache, At
<1>2. parsed' = [lastmod |-> parsed.lastmod, results |-> {}]
  BY DEF ClearCache, NotParsed, IInv, TypeOK
<1>3. TypeOK'
  BY <1>2 DEF IInv, TypeOK, ClearCache, files, local, history
<1>4. Proper(todo)' /\ Prepared' /\ StaticIsCurrent' /\ IndexStays' /\ DamageIsKnown'
  BY <1>1, QuietContinue DEF ClearCache, Continue, files, history, Prepares, Fetching
<1>5. CacheIsCurrent'
  BY <1>2 DEF CacheIsCurrent, CachedResults, NotParsed
<1>6. IndexFollows'
  BY <1>1 DEF IInv, IndexFollows, ClearCache, At, local, history
<1> QED  BY <1>3, <1>4, <1>5, <1>6 DEF IInv

(* A cached result and a new one are the same.                             *)
LEMMA LookupFinds ==
    ASSUME IInv, At("lookup")
    PROVE  /\ LookupResult(X) = listed
           /\ \A r \in CachedResults : r[2] = listed
<1>1. \A r \in CachedResults : r[2] = listed
  BY DEF IInv, CacheIsCurrent, At
<1> QED  BY <1>1 DEF LookupResult

LEMMA LookupStep ==
    ASSUME IInv, Lookup
    PROVE  IInv'
<1>1. todo # <<>> /\ Head(todo).op = "lookup" /\ X \in Forms
  BY HeadOK DEF Lookup, At
<1>2. LookupResult(X) = listed /\ \A r \in CachedResults : r[2] = listed
  BY LookupFinds DEF Lookup
<1>3. parsed' = [lastmod |-> mtime, results |-> CachedResults \cup {<<X, listed>>}]
  BY <1>2 DEF Lookup
<1>4. CachedResults \subseteq Forms \X SUBSET Packages
  BY DEF IInv, TypeOK, CachedResults, NotParsed
<1>5. <<X, listed>> \in Forms \X SUBSET Packages
  BY <1>1 DEF IInv, TypeOK
<1>6. TypeOK'
  BY <1>3, <1>4, <1>5 DEF IInv, TypeOK, Lookup, files, local, history
<1>7. Proper(todo)' /\ Prepared' /\ StaticIsCurrent' /\ IndexStays' /\ DamageIsKnown'
  BY <1>1, QuietContinue DEF Lookup, Continue, files, history, Prepares, Fetching
<1>8. CacheIsCurrent'
  <2>1. CachedResults' = CachedResults \cup {<<X, listed>>} /\ listed' = listed
    BY <1>3 DEF CachedResults, Lookup, local
  <2>2. \A r \in CachedResults \cup {<<X, listed>>} : r[2] = listed
    BY <1>2
  <2> QED  BY <2>1, <2>2 DEF CacheIsCurrent
<1>9. IndexFollows'
  BY <1>1 DEF IInv, IndexFollows, Lookup, At, local, history
<1> QED  BY <1>6, <1>7, <1>8, <1>9 DEF IInv

-----------------------------------------------------------------------------
(* Runs, and what happens around them.                                     *)

LEMMA StartProgramStep ==
    ASSUME IInv, StartProgram
    PROVE  IInv'
<1>1. Proper(todo') /\ todo' # <<>> /\ Head(todo').op \notin Bound /\ ~Pending(todo')
  BY ProgramsStartable DEF StartProgram, Startable
<1>2. Prepared'
  BY <1>1, Unprepared
<1>3. TypeOK'
  BY BoundsAssumption DEF IInv, TypeOK, StartProgram, NotParsed, files, local, history
<1>4. StaticIsCurrent' /\ IndexStays'
  BY <1>1 DEF StaticIsCurrent, IndexStays, StartProgram
<1>5. CacheIsCurrent'
  BY DEF CacheIsCurrent, CachedResults, StartProgram, NotParsed
<1>6. DamageIsKnown' /\ IndexFollows'
  BY DEF IInv, DamageIsKnown, IndexFollows, At, StartProgram, files, local, history
<1> QED  BY <1>1, <1>2, <1>3, <1>4, <1>5, <1>6 DEF IInv

LEMMA InterruptStep ==
    ASSUME IInv, Interrupt
    PROVE  IInv'
<1>1. At("copied") => X \in Arches
  BY HeadOK DEF At, OnArches
<1>2. Proper(todo)' /\ Prepared' /\ StaticIsCurrent' /\ IndexStays' /\ CacheIsCurrent'
  BY AbortFacts DEF Interrupt, Abort
<1>3. TypeOK'
  BY <1>1 DEF IInv, TypeOK, Interrupt, files, local, memory
<1>4. DamageIsKnown'
  BY DEF IInv, DamageIsKnown, Interrupt, files
<1>5. IndexFollows'
  BY DEF IndexFollows, Interrupt, local
<1> QED  BY <1>2, <1>3, <1>4, <1>5 DEF IInv

LEMMA InterruptMoveStep ==
    ASSUME IInv, InterruptMove
    PROVE  IInv'
<1>1. Proper(todo)' /\ Prepared' /\ StaticIsCurrent' /\ IndexStays' /\ CacheIsCurrent'
  BY AbortFacts DEF InterruptMove, Abort
<1>2. TypeOK'
  BY DEF IInv, TypeOK, Contents, InterruptMove, local, memory, history
<1>3. DamageIsKnown' /\ IndexFollows'
  BY DEF IInv, DamageIsKnown, IndexFollows, InterruptMove, At, local, history
<1> QED  BY <1>1, <1>2, <1>3 DEF IInv

(* Nothing that pmbootstrap sees changes, but the clock and the mirror.     *)
LEMMA Elsewhere ==
    ASSUME IInv, TypeOK',
           UNCHANGED <<index, http, apkFiles, apkStatic, local, memory, history, todo>>
    PROVE  IInv'
<1>1. Proper(todo)'
  BY DEF IInv
<1>2. Prepared'
  BY DEF IInv, Prepared, At, X, ApkIsKnown, memory
<1>3. StaticIsCurrent' /\ IndexStays'
  BY DEF IInv, StaticIsCurrent, IndexStays, X, memory
<1>4. CacheIsCurrent'
  BY DEF IInv, CacheIsCurrent, CachedResults, At, local, memory
<1>5. DamageIsKnown' /\ IndexFollows'
  BY DEF IInv, DamageIsKnown, IndexFollows, At, X, local, history
<1> QED  BY <1>1, <1>2, <1>3, <1>4, <1>5 DEF IInv

LEMMA InitIInv == Init => IInv
<1> SUFFICES ASSUME Init
             PROVE  IInv
  OBVIOUS
<1>1. Proper(todo) /\ ~Reads(todo) /\ ~Pending(todo)
  BY EmptyProper DEF Init
<1>2. TypeOK
  <2>1. 1 \in Versions /\ 0 \in 0..MaxClock /\ 0 \in 0..MaxRuns
    BY BoundsAssumption DEF Versions
  <2>2. parsed \in [lastmod : 0..MaxClock, results : SUBSET (Forms \X SUBSET Packages)]
    BY <2>1 DEF Init, NotParsed
  <2>3. NoFile \in Contents
    BY DEF Contents
  <2> QED  BY <2>1, <2>2, <2>3 DEF Init, TypeOK
<1>3. Prepared /\ StaticIsCurrent /\ IndexStays /\ CacheIsCurrent /\ DamageIsKnown /\ IndexFollows
  BY <1>1 DEF Init, Prepared, At, StaticIsCurrent, IndexStays, CacheIsCurrent, DamageIsKnown,
              IndexFollows, NoFile, Damaged
<1> QED  BY <1>1, <1>2, <1>3 DEF IInv

LEMMA NextIInv == IInv /\ [Next]_vars => IInv'
<1> SUFFICES ASSUME IInv, [Next]_vars
             PROVE  IInv'
  OBVIOUS
<1>1. CASE StartProgram
  BY <1>1, StartProgramStep
<1>2. CASE ProgramStep
  BY <1>2, UpdateStep, CacheUpdateStep, ForceUpdateStep, DownloadStep, ReceivedStep, CopyStep,
     CopiedStep, ReadIndexStep, FetchApkStep, ApkMissingStep, ApkReceivedStep, VerifyStep,
     MoveStep, ApkAddStep, ApkCacheCleanStep, ZapHttpStep, BuildStep, WriteTemporaryStep,
     RenameStep, RemoveMismatchedStep, ClearCacheStep, LookupStep DEF ProgramStep
<1>3. CASE Interrupt \/ InterruptMove
  BY <1>3, InterruptStep, InterruptMoveStep
<1>4. CASE MirrorGrows
  <2>1. TypeOK'
    BY <1>4, BoundsAssumption
       DEF IInv, TypeOK, MirrorGrows, Versions, files, local, memory, history
  <2> QED  BY <1>4, <2>1, Elsewhere DEF MirrorGrows, files
<1>5. CASE Expire
  <2>1. TypeOK'
    BY <1>5 DEF IInv, TypeOK, Expire, local, memory, history
  <2> QED  BY <1>5, <2>1, Elsewhere DEF Expire
<1>6. CASE Tick
  <2>1. TypeOK'
    BY <1>6, BoundsAssumption DEF IInv, TypeOK, Tick, files, memory, local, history
  <2> QED  BY <1>6, <2>1, Elsewhere DEF Tick, files
<1>7. CASE UNCHANGED vars
  <2>1. TypeOK'
    BY <1>7 DEF IInv, TypeOK, vars, files, local, memory, history
  <2> QED  BY <1>7, <2>1, Elsewhere DEF vars, files
<1> QED  BY <1>1, <1>2, <1>3, <1>4, <1>5, <1>6, <1>7 DEF Next

LEMMA Invariance == Spec => []IInv
  BY InitIInv, NextIInv, PTL DEF Spec

-----------------------------------------------------------------------------

(* Every variable of the model keeps its type.                             *)
THEOREM TypeCorrect == Spec => []TypeOK
<1>1. IInv => TypeOK
  BY DEF IInv
<1> QED  BY <1>1, Invariance, PTL

(* No lookup in the index of the local packages is answered with a result  *)
(* from before the last build, however often parse() caches.               *)
THEOREM LookupsAreCurrent == Spec => []LookupIsCurrent
<1>1. IInv => LookupIsCurrent
  BY LookupFinds DEF LookupIsCurrent
<1> QED  BY <1>1, Invariance, PTL

(* apk_static.init() never lets a damaged, unverified or outdated apk      *)
(* create a chroot, whatever interrupted downloads earlier runs left.      *)
THEOREM ChrootsAreCreatedWithVerifiedApk == Spec => []CreatesWithVerifiedApk
<1>1. IInv => CreatesWithVerifiedApk
  <2> SUFFICES ASSUME IInv, At("apk_add")
               PROVE  apkStatic = index[Native] /\ apkStatic >= MinVersion
    BY DEF CreatesWithVerifiedApk
  <2>1. Pending(todo)
    <3>1. todo \in Seq(StepType) /\ todo # <<>>
      BY DEF IInv, Proper, At
    <3>2. 1 \in 1..Len(todo) /\ Head(todo) = todo[1]
      BY <3>1, SeqFacts
    <3>3. \A i \in 1..1 : todo[i].op # "move"
      BY <3>2 DEF At
    <3> QED  BY <3>2, <3>3 DEF Pending, At
  <2> QED  BY <2>1 DEF IInv, StaticIsCurrent
<1> QED  BY <1>1, Invariance, PTL

(* A download that was interrupted, in this run or another, never ends up  *)
(* as an index that update() accepts; one that the server ended early does.*)
THEOREM UpdatedIndexesWereReceived == Spec => []UpdatedWasReceived
<1>1. IInv => UpdatedWasReceived
  <2>1. TypeOK => updated \subseteq Arches
    BY DEF TypeOK
  <2> QED  BY <2>1 DEF IInv, DamageIsKnown, UpdatedWasReceived
<1> QED  BY <1>1, Invariance, PTL

(* Cleaning caches never deletes the index that apk_static.init() is going *)
(* to read, although update() looks once per run only.                     *)
THEOREM NeededIndexIsThere == Spec => []IndexThereWhenNeeded
<1>1. IInv => IndexThereWhenNeeded
  <2> SUFFICES ASSUME IInv, At("read_index")
               PROVE  offline \/ index[Native] # NoFile
    BY DEF IndexThereWhenNeeded
  <2>1. Reads(todo)
    <3>1. todo \in Seq(StepType) /\ todo # <<>>
      BY DEF IInv, Proper, At
    <3>2. 1 \in 1..Len(todo) /\ Head(todo) = todo[1]
      BY <3>1, SeqFacts
    <3> QED  BY <3>2 DEF Reads, At
  <2>2. Native \in updated
    BY DEF IInv, Prepared
  <2> QED  BY <2>1, <2>2 DEF IInv, IndexStays
<1> QED  BY <1>1, Invariance, PTL

(* A run that is not interrupted between packages and index leaves an      *)
(* index of what is there.                                                 *)
THEOREM IndexListsPackages == Spec => []IndexListsWhatIsThere
<1>1. IInv => IndexListsWhatIsThere
  BY DEF IInv, IndexFollows, IndexListsWhatIsThere, At
<1> QED  BY <1>1, Invariance, PTL
=============================================================================
