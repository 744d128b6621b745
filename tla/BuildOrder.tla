---------------------------- MODULE BuildOrder ----------------------------
(***************************************************************************)
(* pmb/build/_package.py, prioritise_build_queue(): the order in which the *)
(* packages of one pmbootstrap.build.packages() call are built.            *)
(*                                                                         *)
(* The input is a list of build queue items ("disarray"); the output is    *)
(* "queue".  A dependency is represented by what                           *)
(* pmb.helpers.package.get(dep, arch, must_exist=False) resolves it to:    *)
(*   - an element of Items: a pmaports package that has to be built too    *)
(*     (the code compares main package names, so a subpackage and its main *)
(*     package are the same element);                                      *)
(*   - Elsewhere: a binary package, or a pmaport that is not in the list;  *)
(*   - NotFound: get() returned None.                                      *)
(* An item may depend on itself: get_depends() drops the literal names of  *)
(* the package and of its subpackages, but not "name-sub=1.0-r0" or a name *)
(* the package provides.                                                   *)
(***************************************************************************)
EXTENDS Naturals, Sequences, SequencesExt

CONSTANTS
    Items,          \* names of the packages in the list
    Elsewhere,      \* a dependency that is not in the list
    NotFound,       \* a dependency that does not exist anywhere
    BuildPackages,  \* pmb.config.build_packages, in its fixed order
    Orders,         \* the orders in which the items may be handed over
    DependLists     \* for each item: the sorted "depends" lists it may have

Targets == Items \cup {Elsewhere, NotFound}

(* "name" identifies an item: queue_build() skips a name already queued.   *)
ASSUME TargetsAssumption ==
    /\ Elsewhere \notin Items
    /\ NotFound \notin Items
    /\ Elsewhere # NotFound
ASSUME OrdersAssumption ==
    \A order \in Orders :
        /\ order \in Seq(Items)
        /\ IsInjective(order)
        /\ ToSet(order) = Items
ASSUME DependListsAssumption == DependLists \in [Items -> SUBSET Seq(Targets)]
ASSUME BuildPackagesAssumption == BuildPackages \in Seq(STRING)

VARIABLES
    depends,    \* item["depends"] of each item (never changes)
    hasBinary,  \* item["has_binary"] of each item (never changes)
    disarray,   \* the items that are not queued yet
    queue,      \* the result so far
    unmetDeps,  \* unmet_deps, as sets: the code only tests membership
    position,   \* position of the iterator of the for loop that runs
    stuck,      \* the local variable "stuck"
    pc          \* where the function is

vars == <<depends, hasBinary, disarray, queue, unmetDeps, position, stuck, pc>>

(* "base" and "for" are the two loops over lists, "while" the head of the  *)
(* outer loop; "done" returns, the other two raise NonBugError.            *)
Outcomes == {"done", "unresolvable", "dependency_not_found"}

TypeOK ==
    /\ depends \in [Items -> Seq(Targets)]
    /\ hasBinary \in [Items -> BOOLEAN]
    /\ disarray \in Seq(Items)
    /\ queue \in Seq(Items)
    /\ unmetDeps \in [Items -> SUBSET Items]
    /\ position \in Nat \ {0}
    /\ stuck \in BOOLEAN
    /\ pc \in {"base", "while", "for"} \cup Outcomes

Init ==
    /\ depends \in {d \in [Items -> UNION {DependLists[i] : i \in Items}] :
                        \A i \in Items : d[i] \in DependLists[i]}
    /\ hasBinary \in [Items -> BOOLEAN]
    /\ disarray \in Orders
    /\ queue = <<>>
    /\ unmetDeps = [i \in Items |-> {}]
    /\ position = 1
    /\ stuck = FALSE
    /\ pc = "base"

DependSet(i) == ToSet(depends[i])

(* all_pkgnames: after the loop over build_packages it holds the names of  *)
(* exactly the items in "disarray", and queue_item() keeps it that way.    *)
Unqueued == ToSet(disarray)

(* Mutant: disarray.remove(item) with the iterator's next position. *)
QueueItemRemovesNext(k) ==
    /\ queue' = Append(queue, disarray[k])
    /\ disarray' = IF k < Len(disarray) THEN RemoveAt(disarray, k + 1)
                                        ELSE RemoveAt(disarray, k)

(* The item at position k moves to the queue: queue.append(item),          *)
(* disarray.remove(item), in queue_item() and in the first loop alike.     *)
QueueItem(k) ==
    /\ queue' = Append(queue, disarray[k])
    /\ disarray' = RemoveAt(disarray, k)

-----------------------------------------------------------------------------
(* The first loop: build_packages go first, in their own order, whatever   *)
(* they depend on.                                                         *)

TakeBuildPackage ==
    /\ pc = "base"
    /\ position <= Len(BuildPackages)
    /\ \/ \E k \in DOMAIN disarray :
            disarray[k] = BuildPackages[position] /\ QueueItem(k)
       \/ /\ BuildPackages[position] \notin Unqueued
          /\ UNCHANGED <<disarray, queue>>
    /\ position' = position + 1
    /\ UNCHANGED <<depends, hasBinary, unmetDeps, stuck, pc>>

BuildPackagesTaken ==
    /\ pc = "base"
    /\ position > Len(BuildPackages)
    /\ pc' = "while"
    /\ UNCHANGED <<depends, hasBinary, disarray, queue, unmetDeps, position, stuck>>

-----------------------------------------------------------------------------
(* while disarray and not stuck: stuck = True, iterate from the first item.*)

(* Mutant: a pass that starts one before the first item. *)
StartPassBeforeFirst ==
    /\ pc = "while"
    /\ disarray # <<>>
    /\ ~stuck
    /\ stuck' = TRUE
    /\ position' = 0
    /\ pc' = "for"
    /\ UNCHANGED <<depends, hasBinary, disarray, queue, unmetDeps>>

(* Mutant: the reset of "stuck" forgotten, so that no pass ever gives up.   *)
StartPassNeverStuck ==
    /\ pc = "while"
    /\ disarray # <<>>
    /\ ~stuck
    /\ position' = 1
    /\ pc' = "for"
    /\ UNCHANGED <<depends, hasBinary, disarray, queue, unmetDeps, stuck>>

StartPass ==
    /\ pc = "while"
    /\ disarray # <<>>
    /\ ~stuck
    /\ stuck' = TRUE
    /\ position' = 1
    /\ pc' = "for"
    /\ UNCHANGED <<depends, hasBinary, disarray, queue, unmetDeps>>

(* Mutant: the error for a list that cannot be resolved dropped. *)
ReturnSilently ==
    /\ pc = "while"
    /\ disarray = <<>> \/ stuck
    /\ pc' = "done"
    /\ UNCHANGED <<depends, hasBinary, disarray, queue, unmetDeps, position, stuck>>

Return ==
    /\ pc = "while"
    /\ disarray = <<>> \/ stuck
    /\ pc' = IF stuck THEN "unresolvable" ELSE "done"
    /\ UNCHANGED <<depends, hasBinary, disarray, queue, unmetDeps, position, stuck>>

(* The for loop is over the list it removes from: it ends when the         *)
(* iterator's position is past the end of what is left.                    *)
EndPass ==
    /\ pc = "for"
    /\ position > Len(disarray)
    /\ pc' = "while"
    /\ UNCHANGED <<depends, hasBinary, disarray, queue, unmetDeps, position, stuck>>

-----------------------------------------------------------------------------
(* The body of the for loop, for the item at the iterator's position.      *)

(* has_cyclical_dependency(), asked after dep was added to the item's own  *)
(* unmet dependencies: true at once when the item depends on itself.       *)
HasCyclicalDependency(i, dep) == dep = i \/ i \in unmetDeps[dep]

Missing(dep) == dep \in Unqueued

(* Mutant: the test of item["has_binary"] dropped. *)
BreaksWithoutBinary(i, dep) ==
    \/ dep = NotFound
    \/ Missing(dep) /\ HasCyclicalDependency(i, dep)

(* The dependencies of i that break the loop over them: the missing one    *)
(* that raises, and the cyclical one that makes the item go first.         *)
Breaks(i, dep) ==
    \/ dep = NotFound
    \/ Missing(dep) /\ HasCyclicalDependency(i, dep) /\ hasBinary[i]

(* The positions in depends[i] the loop looks at: up to the first break.   *)
Examined(i) ==
    {n \in DOMAIN depends[i] : \A m \in 1..(n - 1) : ~Breaks(i, depends[i][m])}

ExaminedDeps(i) == {depends[i][n] : n \in Examined(i)}

BrokenBy(i) == {dep \in ExaminedDeps(i) : Breaks(i, dep)}

RunsThrough(i) == \A dep \in DependSet(i) : ~Breaks(i, dep)

AtItem(i) ==
    /\ pc = "for"
    /\ position <= Len(disarray)
    /\ disarray[position] = i

DependencyNotFound(i) ==
    /\ AtItem(i)
    /\ NotFound \in BrokenBy(i)
    /\ pc' = "dependency_not_found"
    /\ unmetDeps' = [unmetDeps EXCEPT ![i] = @ \cup (ExaminedDeps(i) \cap Unqueued)]
    /\ UNCHANGED <<depends, hasBinary, disarray, queue, position, stuck>>

(* Mutant: "stuck = False" forgotten in the cyclical branch. *)
QueueCyclicalKeepsStuck(i) ==
    /\ AtItem(i)
    /\ BrokenBy(i) \cap Items # {}
    /\ QueueItem(position)
    /\ unmetDeps' = [unmetDeps EXCEPT ![i] = {}]
    /\ position' = position + 1
    /\ UNCHANGED <<depends, hasBinary, stuck, pc>>

(* Queued because of a cycle; "missing_deps" is true, so the for loop goes *)
(* on with the next position of the list the item was just removed from.   *)
QueueCyclical(i) ==
    /\ AtItem(i)
    /\ BrokenBy(i) \cap Items # {}
    /\ QueueItem(position)
    /\ unmetDeps' = [unmetDeps EXCEPT ![i] = {}]
    /\ stuck' = FALSE
    /\ position' = position + 1
    /\ UNCHANGED <<depends, hasBinary, pc>>

Postpone(i) ==
    /\ AtItem(i)
    /\ RunsThrough(i)
    /\ DependSet(i) \cap Unqueued # {}
    /\ unmetDeps' = [unmetDeps EXCEPT ![i] = @ \cup (DependSet(i) \cap Unqueued)]
    /\ position' = position + 1
    /\ UNCHANGED <<depends, hasBinary, disarray, queue, stuck, pc>>

(* No depends at all, or none of them missing: queue it and break. *)
QueueReady(i) ==
    /\ AtItem(i)
    /\ RunsThrough(i)
    /\ DependSet(i) \cap Unqueued = {}
    /\ QueueItem(position)
    /\ unmetDeps' = [unmetDeps EXCEPT ![i] = {}]
    /\ stuck' = FALSE
    /\ pc' = "while"
    /\ UNCHANGED <<depends, hasBinary, position>>

ForBody(i) ==
    DependencyNotFound(i) \/ QueueCyclical(i) \/ Postpone(i) \/ QueueReady(i)

Finished == pc \in Outcomes /\ UNCHANGED vars

Next ==
    \/ TakeBuildPackage
    \/ BuildPackagesTaken
    \/ StartPass
    \/ Return
    \/ EndPass
    \/ \E i \in Items : ForBody(i)
    \/ Finished

(* One thread runs the function and nothing in it waits. *)
Spec == Init /\ [][Next]_vars /\ WF_vars(Next)

-----------------------------------------------------------------------------
(* Nothing is lost and nothing is built twice: although the loops remove   *)
(* from the list they iterate over, each item is at every moment exactly   *)
(* once in the list or in the queue.                                       *)
EveryItemOnce ==
    /\ IsInjective(disarray)
    /\ IsInjective(queue)
    /\ Unqueued \cap ToSet(queue) = {}
    /\ Unqueued \cup ToSet(queue) = Items

Mutual(i, dep) == dep \in DependSet(i) /\ i \in DependSet(dep)

(* What entitles an item to be built before something it depends on: it    *)
(* has a binary package itself, and one of the dependencies not built      *)
(* before it (possibly itself) depends on it in turn.                      *)
Excused(i, before) ==
    hasBinary[i] /\ \E dep \in Items \ before : Mutual(i, dep)

(* The promise of "The Correct Order": apart from the build packages,      *)
(* whatever is in the queue comes after all it depends on, unless it is    *)
(* excused.  In particular nothing that depends on a package that does not *)
(* exist is queued silently.                                               *)
RespectsDependencies ==
    \A n \in DOMAIN queue :
        LET before == {queue[m] : m \in 1..(n - 1)}
        IN  \/ queue[n] \in ToSet(BuildPackages)
            \/ DependSet(queue[n]) \subseteq before \cup {Elsewhere}
            \/ Excused(queue[n], before)

(* "Can't resolve build order of remaining packages!" is only raised for a *)
(* real dependency cycle: every remaining item waits for a remaining item, *)
(* so following the dependencies never ends.  The cycles of two items (and *)
(* of one) that the code gives up on are those whose LATER item in the     *)
(* list has no binary package.                                             *)
UnresolvableIsBlocked ==
    pc = "unresolvable" =>
        /\ disarray # <<>>
        /\ \A n \in DOMAIN disarray :
            /\ DependSet(disarray[n]) \cap Unqueued # {}
            /\ hasBinary[disarray[n]] =>
                 \A m \in 1..n : ~Mutual(disarray[n], disarray[m])

(* The function returns or raises, whatever the dependency graph is.       *)
Terminates == <>(pc \in Outcomes)

(* What the function does is a correct order in the making: places are     *)
(* only added, each to an item that may follow those before it; build      *)
(* packages come first and in their order; and it ends for a reason.       *)
Abstract ==
    INSTANCE CorrectOrder WITH
        First <- BuildPackages,
        items <- Items,
        needs <- [i \in Items |-> DependSet(i)],
        hasBinary <- {i \in Items : hasBinary[i]},
        order <- queue,
        outcome <- IF pc \in Outcomes THEN pc ELSE "open"

ImplementsCorrectOrder == Abstract!Spec

(* The comment at line 276: "If the dependency is a subpackage we can      *)
(* safely ignore it".  So packages that wait for nothing but their own     *)
(* subpackages can be put in order.                                        *)
OwnSubpackageIgnored ==
    pc = "unresolvable" =>
        \E i \in Unqueued : DependSet(i) \cap (Unqueued \ {i}) # {}

(* The log message at line 289: "building {item} with binary package of    *)
(* {dep}".  So when an item is built before the dependency that depends on *)
(* it in turn, that dependency has a binary package.                       *)
LaterDependencyHasBinary ==
    \A n \in DOMAIN queue :
        \/ queue[n] \in ToSet(BuildPackages)
        \/ \A dep \in Items \ {queue[m] : m \in 1..n} :
                Mutual(queue[n], dep) => hasBinary[dep]
=============================================================================
