----------------------------- MODULE Packages -----------------------------
(***************************************************************************)
(* pmb/build/_package.py: packages() and process_package(), the calls that *)
(* decide which packages have to be built, put them in order and build     *)
(* them, for one architecture given by the caller.                         *)
(*                                                                         *)
(* The package walk, the checks on the queue and the build loop are        *)
(* modelled step by step.  The order is the one BuildOrder promises        *)
(* (RespectsDependencies, UnresolvableIsBlocked), restated here for the    *)
(* packages of the queue.  What abuild and apk do is external: a build may *)
(* fail, or puts the package into the binary repository.                   *)
(*                                                                         *)
(* Names are what APKBUILDs and users write: main packages, subpackages,   *)
(* provides.  Version constraints are dropped (remove_operators()).        *)
(***************************************************************************)
EXTENDS Naturals, Sequences, SequencesExt, FiniteSets

CONSTANTS
    Pkgs,           \* main packages that have an APKBUILD in pmaports
    Names,          \* all names that can be asked for
    None,           \* no aport
    MainPackage,    \* get_apkbuild(name): the aport of a name, or None
    Alpine,         \* the names a binary repository provides without pmaports
    Substitute,     \* names for which the repository has another provider
    Unbuildable,    \* pmaports that are not enabled for the architecture
    BuildPackages,  \* pmb.config.build_packages, in its fixed order
    DependChoices,  \* for each package: the get_depends() lists it may have
    IndexChoices,   \* for each package: what the repository may have of it
    Requests,       \* the pkgnames arguments of a call
    Modes,          \* the other arguments and options of a call
    MaxCalls        \* bound: calls (and pmbootstrap runs) of a behaviour

Helpers == ToSet(BuildPackages)

Versions == {"none", "old", "current", "newer"}

ASSUME NamesAssumption ==
    /\ Pkgs \subseteq Names
    /\ None \notin Pkgs
    /\ MainPackage \in [Names -> Pkgs \cup {None}]
    /\ \A p \in Pkgs : MainPackage[p] = p
    /\ Alpine \subseteq Names
    /\ DOMAIN Substitute \subseteq Names
    /\ \A n \in DOMAIN Substitute : Substitute[n] \in Names
    /\ BuildPackages \in Seq(Names)
    /\ \A h \in Helpers : MainPackage[h] \in {h, None}
ASSUME ChoicesAssumption ==
    \A p \in Pkgs : DependChoices[p] \subseteq Seq(Names) /\ IndexChoices[p] \subseteq Versions
ASSUME CallsAssumption ==
    /\ Requests \subseteq Seq(Names) \ {<<>>}
    /\ Modes \subseteq [force: BOOLEAN, strict: BOOLEAN, src: BOOLEAN, noDepends: BOOLEAN]
    /\ MaxCalls \in Nat \ {0}

VARIABLES
    depends,    \* get_depends() of each package (never changes)
    index,      \* the repository's version against pmaports' version
    visited,    \* _package_cache[arch]
    mode,       \* arguments of the current call
    pkgnames,   \* its pkgnames, reversed
    todo,       \* pkgnames process_package() was not called for yet
    pending,    \* the local list "depends" of process_package()
    helper,     \* position in build_packages
    queue,      \* build_queue
    position,   \* position in the build loop
    built,      \* built_packages
    calls,      \* number of calls so far
    pc

vars == <<depends, index, visited, mode, pkgnames, todo, pending, helper,
          queue, position, built, calls, pc>>

(* Exceptions that end the call (and in practice the program). *)
Errors == {"multiple_src", "only_in_alpine", "not_found", "cannot_build", "strict_helper",
           "unresolvable", "additional_packages", "build_failed"}

TypeOK ==
    /\ depends \in [Pkgs -> Seq(Names)]
    /\ index \in [Pkgs -> Versions]
    /\ visited \subseteq Names
    /\ mode \in [force: BOOLEAN, strict: BOOLEAN, src: BOOLEAN, noDepends: BOOLEAN]
    /\ pkgnames \in Seq(Names) /\ todo \in Seq(Names) /\ pending \in Seq(Names)
    /\ helper \in 1..(Len(BuildPackages) + 1)
    /\ queue \in Seq(Pkgs)
    /\ position \in 1..(Len(queue) + 1)
    /\ built \subseteq Pkgs
    /\ calls \in 0..MaxCalls
    /\ pc \in {"idle", "process", "walk", "helpers", "prioritise", "check", "build"} \cup Errors

Init ==
    /\ depends \in {d \in [Pkgs -> UNION {DependChoices[p] : p \in Pkgs}] :
                        \A p \in Pkgs : d[p] \in DependChoices[p]}
    /\ index \in {v \in [Pkgs -> Versions] : \A p \in Pkgs : v[p] \in IndexChoices[p]}
    /\ visited = {}
    /\ mode = [force |-> FALSE, strict |-> FALSE, src |-> FALSE, noDepends |-> FALSE]
    /\ pkgnames = <<>> /\ todo = <<>> /\ pending = <<>>
    /\ helper = 1
    /\ queue = <<>>
    /\ position = 1
    /\ built = {}
    /\ calls = 0
    /\ pc = "idle"

-----------------------------------------------------------------------------
(* What the walk asks the repository and pmaports.                         *)

(* BuildStatus.necessary() of get_status(arch, apkbuild) *)
Necessary(p) == p \notin Unbuildable /\ index[p] \in {"none", "old"}

(* check_build_for_arch() after --force: a pmaport that is not enabled for *)
(* the architecture is replaced by a binary package, or an error.          *)
HasBinary(p) == index[p] # "none"

(* apkindex.package(dep).pkgname replaces the name of a dependency by the  *)
(* best provider of the repository.                                        *)
BestProvider(n) ==
    IF n \in DOMAIN Substitute /\ (MainPackage[n] = None \/ ~HasBinary(MainPackage[n]))
    THEN Substitute[n] ELSE n

(* queue_build(): a name is queued at most once; packages that were asked  *)
(* for are recorded as built.                                              *)
QueueBuild(p) ==
    IF p \in ToSet(queue)
    THEN UNCHANGED <<queue, built>>
    ELSE /\ queue' = Append(queue, p)
         /\ built' = IF p \in ToSet(pkgnames) THEN built \cup {p} ELSE built

DontQueue == UNCHANGED <<queue, built>>

Raise(error) ==
    /\ pc' = error
    /\ UNCHANGED <<depends, index, visited, mode, pkgnames, todo, pending, helper,
                   queue, position, built, calls>>

-----------------------------------------------------------------------------
(* A call of packages().  A second call in the same process finds the      *)
(* names of the first one still marked as visited when the first one       *)
(* returned early; a new process starts with an empty cache.               *)

(* Mutant: the position of the previous call is kept. *)
CallKeepsPosition ==
    /\ pc = "idle" \/ pc \in Errors
    /\ calls < MaxCalls
    /\ calls' = calls + 1
    /\ \E request \in Requests : pkgnames' = Reverse(request)
    /\ mode' \in Modes
    /\ todo' = pkgnames'
    /\ pc' = IF mode'.src /\ Len(pkgnames') > 1 THEN "multiple_src" ELSE "process"
    /\ visited' \in IF pc = "idle" THEN {visited, {}} ELSE {{}}
    /\ pending' = <<>> /\ helper' = 1 /\ queue' = <<>> /\ built' = {}
    /\ UNCHANGED <<depends, index, position>>

Call ==
    /\ pc = "idle" \/ pc \in Errors
    /\ calls < MaxCalls
    /\ calls' = calls + 1
    /\ \E request \in Requests : pkgnames' = Reverse(request)
    /\ mode' \in Modes
    /\ todo' = pkgnames'
    /\ pc' = IF mode'.src /\ Len(pkgnames') > 1 THEN "multiple_src" ELSE "process"
    /\ visited' \in IF pc = "idle" THEN {visited, {}} ELSE {{}}
    /\ pending' = <<>> /\ helper' = 1 /\ queue' = <<>> /\ position' = 1 /\ built' = {}
    /\ UNCHANGED <<depends, index>>

-----------------------------------------------------------------------------
(* process_package() for the next of the pkgnames.                         *)

Requested == Head(todo)

(* Not in pmaports: nothing to do if a binary package exists. *)
SkipForeign ==
    /\ pc = "process" /\ todo # <<>>
    /\ MainPackage[Requested] = None
    /\ Requested \in Alpine /\ ~mode.src
    /\ todo' = Tail(todo)
    /\ UNCHANGED <<depends, index, visited, mode, pkgnames, pending, helper,
                   queue, position, built, calls, pc>>

RejectForeign ==
    /\ pc = "process" /\ todo # <<>>
    /\ MainPackage[Requested] = None
    /\ \/ Requested \in Alpine /\ mode.src /\ Raise("only_in_alpine")
       \/ Requested \notin Alpine /\ Raise("not_found")

(* Mutant: --force does not matter for names that were visited. *)
SkipVisitedForced ==
    /\ pc = "process" /\ todo # <<>>
    /\ MainPackage[Requested] # None
    /\ Requested \in visited
    /\ todo' = Tail(todo)
    /\ UNCHANGED <<depends, index, visited, mode, pkgnames, pending, helper,
                   queue, position, built, calls, pc>>

(* is_cached_or_cache(): already visited, as a request or as a dependency. *)
SkipVisited ==
    /\ pc = "process" /\ todo # <<>>
    /\ MainPackage[Requested] # None
    /\ Requested \in visited /\ ~mode.force
    /\ todo' = Tail(todo)
    /\ UNCHANGED <<depends, index, visited, mode, pkgnames, pending, helper,
                   queue, position, built, calls, pc>>

Proceeds == MainPackage[Requested] # None /\ (Requested \notin visited \/ mode.force)

CannotBuild ==
    /\ pc = "process" /\ todo # <<>> /\ Proceeds
    /\ LET p == MainPackage[Requested]
       IN  mode.force /\ p \in Unbuildable /\ ~HasBinary(p)
    /\ Raise("cannot_build")

ProcessRequest ==
    /\ pc = "process" /\ todo # <<>> /\ Proceeds
    /\ LET p == MainPackage[Requested]
           necessary == mode.force \/ Necessary(p)
       IN  /\ ~(mode.force /\ p \in Unbuildable /\ ~HasBinary(p))
           /\ IF necessary /\ p \notin Unbuildable THEN QueueBuild(p) ELSE DontQueue
           /\ pending' = depends[p]
    /\ visited' = visited \cup {Requested}
    /\ todo' = Tail(todo)
    /\ pc' = "walk"
    /\ UNCHANGED <<depends, index, mode, pkgnames, helper, position, calls>>

AllProcessed ==
    /\ pc = "process" /\ todo = <<>>
    /\ pc' = IF mode.src THEN "prioritise" ELSE "helpers"
    /\ UNCHANGED <<depends, index, visited, mode, pkgnames, todo, pending, helper,
                   queue, position, built, calls>>

-----------------------------------------------------------------------------
(* The loop of process_package() over the dependencies.                    *)

(* Mutant: the dependencies of a package that is queued are not walked. *)
WalkDependencyFlat ==
    /\ pc = "walk" /\ pending # <<>>
    /\ LET n == Head(pending)
           p == MainPackage[BestProvider(n)]
       IN  IF n \notin visited /\ p # None /\ Necessary(p) /\ BestProvider(n) \notin Helpers
           THEN QueueBuild(p)
           ELSE DontQueue
    /\ pending' = Tail(pending)
    /\ visited' = visited \cup {Head(pending)}
    /\ UNCHANGED <<depends, index, mode, pkgnames, todo, helper, position, calls, pc>>

(* Mutant: no record of the dependencies that were visited. *)
WalkDependencyForgets ==
    /\ pc = "walk" /\ pending # <<>>
    /\ LET n == Head(pending)
           p == MainPackage[BestProvider(n)]
       IN  IF n \notin visited /\ p # None /\ Necessary(p) /\ BestProvider(n) \notin Helpers
           THEN QueueBuild(p) /\ pending' = depends[p] \o Tail(pending)
           ELSE DontQueue /\ pending' = Tail(pending)
    /\ UNCHANGED <<depends, index, visited, mode, pkgnames, todo, helper, position, calls, pc>>

(* Mutant: dependencies are queued whatever their build status is. *)
WalkDependencyAlways ==
    /\ pc = "walk" /\ pending # <<>>
    /\ LET n == Head(pending)
           p == MainPackage[BestProvider(n)]
       IN  IF n \notin visited /\ p # None /\ BestProvider(n) \notin Helpers
           THEN QueueBuild(p) /\ pending' = depends[p] \o Tail(pending)
           ELSE DontQueue /\ pending' = Tail(pending)
    /\ visited' = visited \cup {Head(pending)}
    /\ UNCHANGED <<depends, index, mode, pkgnames, todo, helper, position, calls, pc>>

WalkDependency ==
    /\ pc = "walk" /\ pending # <<>>
    /\ LET n == Head(pending)
           p == MainPackage[BestProvider(n)]
       IN  IF n \notin visited /\ p # None /\ Necessary(p) /\ BestProvider(n) \notin Helpers
           THEN QueueBuild(p) /\ pending' = depends[p] \o Tail(pending)
           ELSE DontQueue /\ pending' = Tail(pending)
    /\ visited' = visited \cup {Head(pending)}
    /\ UNCHANGED <<depends, index, mode, pkgnames, todo, helper, position, calls, pc>>

WalkDone ==
    /\ pc = "walk" /\ pending = <<>>
    /\ pc' = "process"
    /\ UNCHANGED <<depends, index, visited, mode, pkgnames, todo, pending, helper,
                   queue, position, built, calls>>

-----------------------------------------------------------------------------
(* Build packages that are outdated go into the queue too, or, in strict   *)
(* mode, are an error - unless they were asked for.  Their dependencies    *)
(* are not walked.                                                         *)

HelperNeedsBuild ==
    LET h == BuildPackages[helper]
    IN  /\ h \notin ToSet(pkgnames)
        /\ MainPackage[h] # None
        /\ Necessary(MainPackage[h])

CheckHelper ==
    /\ pc = "helpers" /\ helper <= Len(BuildPackages)
    /\ ~(HelperNeedsBuild /\ mode.strict)
    /\ IF HelperNeedsBuild THEN QueueBuild(MainPackage[BuildPackages[helper]]) ELSE DontQueue
    /\ helper' = helper + 1
    /\ UNCHANGED <<depends, index, visited, mode, pkgnames, todo, pending, position, calls, pc>>

StrictHelper ==
    /\ pc = "helpers" /\ helper <= Len(BuildPackages)
    /\ HelperNeedsBuild /\ mode.strict
    /\ Raise("strict_helper")

HelpersChecked ==
    /\ pc = "helpers" /\ helper > Len(BuildPackages)
    /\ pc' = "prioritise"
    /\ UNCHANGED <<depends, index, visited, mode, pkgnames, todo, pending, helper,
                   queue, position, built, calls>>

-----------------------------------------------------------------------------
(* prioritise_build_queue(), by what BuildOrder promises.                  *)

(* package.get(dep, arch, must_exist=False) finds nothing *)
Unknown(n) ==
    /\ n \notin Alpine \cup DOMAIN Substitute
    /\ \/ MainPackage[n] = None
       \/ MainPackage[n] \in Unbuildable /\ ~HasBinary(MainPackage[n])

QueueDeps(p) == {MainPackage[n] : n \in ToSet(depends[p])} \cap ToSet(queue)

Mutual(p, q) == q \in QueueDeps(p) /\ p \in QueueDeps(q)

MayFollow(p, before) ==
    \/ /\ \A n \in ToSet(depends[p]) : ~Unknown(n)
       /\ QueueDeps(p) \subseteq before
    \/ HasBinary(p) /\ \E q \in ToSet(queue) \ before : Mutual(p, q)

(* The build packages come first, in their fixed order. *)
ComesBefore(g, h) == \E i, j \in DOMAIN BuildPackages :
                        i < j /\ BuildPackages[i] = g /\ BuildPackages[j] = h

CorrectOrders ==
    {order \in SetToSeqs(ToSet(queue)) :
        \A n \in DOMAIN order :
            IF order[n] \in Helpers
            THEN \A m \in 1..(n - 1) : ComesBefore(order[m], order[n])
            ELSE MayFollow(order[n], {order[m] : m \in 1..(n - 1)})}

(* There is a cycle, or a dependency that exists nowhere. *)
MayBeUnresolvable ==
    \/ \E cycle \in SUBSET (ToSet(queue) \ Helpers) \ {{}} :
            \A p \in cycle : QueueDeps(p) \cap cycle # {}
    \/ \E p \in ToSet(queue) \ Helpers : \E n \in ToSet(depends[p]) : Unknown(n)

NothingToBuild ==
    /\ pc = "prioritise" /\ queue = <<>>
    /\ pc' = "idle"
    /\ UNCHANGED <<depends, index, visited, mode, pkgnames, todo, pending, helper,
                   queue, position, built, calls>>

Prioritise ==
    /\ pc = "prioritise" /\ queue # <<>>
    /\ queue' \in CorrectOrders
    /\ pc' = "check"
    /\ UNCHANGED <<depends, index, visited, mode, pkgnames, todo, pending, helper,
                   position, built, calls>>

CannotPrioritise ==
    /\ pc = "prioritise" /\ queue # <<>>
    /\ MayBeUnresolvable
    /\ Raise("unresolvable")

AdditionalPackages == Len(queue) > 1 /\ (mode.src \/ mode.noDepends)

CheckQueue ==
    /\ pc = "check"
    /\ IF AdditionalPackages
       THEN Raise("additional_packages")
       ELSE /\ pc' = "build"
            /\ UNCHANGED <<depends, index, visited, mode, pkgnames, todo, pending, helper,
                           queue, position, built, calls>>

-----------------------------------------------------------------------------
(* The build loop.                                                         *)

(* Dependencies get installed, abuild runs, finish() finds the package.    *)
(* --src appends the date to pkgver; an already newer binary stays the     *)
(* repository's highest version.                                           *)
BuildPackage ==
    /\ pc = "build" /\ position <= Len(queue)
    /\ index' = [index EXCEPT ![queue[position]] =
                    IF mode.src \/ @ = "newer" THEN "newer" ELSE "current"]
    /\ position' = position + 1
    /\ UNCHANGED <<depends, visited, mode, pkgnames, todo, pending, helper,
                   queue, built, calls, pc>>

(* Installing the dependencies or abuild fails (BuildFailedError), or the  *)
(* package is not where it should be.                                      *)
BuildFails ==
    /\ pc = "build" /\ position <= Len(queue)
    /\ Raise("build_failed")

AllBuilt ==
    /\ pc = "build" /\ position > Len(queue)
    /\ visited' = {}
    /\ pc' = "idle"
    /\ UNCHANGED <<depends, index, mode, pkgnames, todo, pending, helper,
                   queue, position, built, calls>>

-----------------------------------------------------------------------------

CallStep ==
    \/ SkipForeign \/ RejectForeign \/ SkipVisited \/ CannotBuild \/ ProcessRequest
    \/ AllProcessed
    \/ WalkDependency \/ WalkDone
    \/ CheckHelper \/ StrictHelper \/ HelpersChecked
    \/ NothingToBuild \/ Prioritise \/ CannotPrioritise \/ CheckQueue
    \/ BuildPackage \/ BuildFails \/ AllBuilt

Next == Call \/ CallStep

(* Once called, the function runs; nobody has to call it. *)
Spec == Init /\ [][Next]_vars /\ WF_vars(CallStep)

-----------------------------------------------------------------------------

RequestedPackages == {MainPackage[n] : n \in ToSet(pkgnames)} \ {None}

(* When a package is built, everything it depends on is up to date in the  *)
(* repository: it was when the call began, or was built earlier in this    *)
(* call.  The exceptions are those the code makes: pmaports that cannot be *)
(* built for the architecture, dependencies another package of the         *)
(* repository provides, build packages that were asked for or that --src   *)
(* does not check, and members of a cycle with a binary package.           *)
BuildsOnCurrentDependencies ==
    pc = "build" /\ position <= Len(queue) /\ queue[position] \notin Helpers =>
        LET p == queue[position]
            before == {queue[m] : m \in 1..(position - 1)}
        IN  \/ \A n \in ToSet(depends[p]) :
                  \/ MainPackage[n] = None
                  \/ ~Necessary(MainPackage[n])
                  \/ n \in DOMAIN Substitute
                  \/ n \in Helpers /\ (mode.src \/ n \in ToSet(pkgnames))
            \/ HasBinary(p) /\ \E q \in ToSet(queue) \ before : Mutual(p, q)

(* No build is done in vain, across calls, failed calls and new runs: what *)
(* is built is missing or outdated in the repository, or was asked for     *)
(* with --force.                                                           *)
OnlyNecessaryBuilds ==
    [][position' = position + 1 =>
            \/ Necessary(queue[position])
            \/ mode.force /\ queue[position] \in RequestedPackages]_vars

(* When a call returns, what was asked for is up to date, although a       *)
(* request is dropped when the walk has seen its name before.  Build       *)
(* packages and names another package provides are exceptions: see         *)
(* UpToDateNote.                                                           *)
RequestsServed ==
    pc = "idle" /\ calls > 0 =>
        \A n \in ToSet(pkgnames) \ (Helpers \cup DOMAIN Substitute) :
            MainPackage[n] # None =>
                /\ ~Necessary(MainPackage[n])
                /\ mode.force /\ MainPackage[n] \notin Unbuildable =>
                     MainPackage[n] \in ToSet(queue)

(* A call comes to an end on every dependency graph, cyclic ones included. *)
CallEnds == pc = "process" ~> pc \in Errors \cup {"idle"}

(* pmb/commands/build.py line 39, of every package that was asked for and  *)
(* is not in the list packages() returned: "Package '...' is up to date".  *)
UpToDateNote ==
    pc = "idle" /\ calls > 0 =>
        \A n \in ToSet(pkgnames) \ built :
            MainPackage[n] # None => ~Necessary(MainPackage[n])
=============================================================================
