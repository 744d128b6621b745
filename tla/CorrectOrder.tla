--------------------------- MODULE CorrectOrder ---------------------------
(***************************************************************************)
(* What pmb/build/_package.py: prioritise_build_queue() promises, without  *)
(* saying how: "The Correct Order" of a build queue.  One item after the   *)
(* other gets its place; an item that has it keeps it.  BuildOrder         *)
(* implements this, and Packages puts its queue in an order of this kind.  *)
(*                                                                         *)
(* "items" and what is known of them are variables that never change, so   *)
(* that a state of another module can stand for them.                      *)
(***************************************************************************)
EXTENDS Naturals, Sequences, SequencesExt

CONSTANTS
    First,      \* a sequence: what goes first, whatever it depends on
    Elsewhere,  \* a dependency that is not in the list
    NotFound    \* a dependency that does not exist anywhere

VARIABLES
    items,      \* what has to get a place
    needs,      \* for each item: the set of what it depends on
    hasBinary,  \* the items that have a binary package
    order,      \* the items that have a place
    outcome

vars == <<items, needs, hasBinary, order, outcome>>

Init ==
    /\ order = <<>>
    /\ outcome = "open"

Unplaced == items \ ToSet(order)

Mutual(i, j) == j \in needs[i] /\ i \in needs[j]

(* i and something that has no place yet need each other, and i can be     *)
(* built with its binary package for that reason.                          *)
BreaksCycle(i, before) == i \in hasBinary /\ \E j \in items \ before : Mutual(i, j)

FirstPlaced(before) == ToSet(First) \cap items \subseteq before

(* What may get the next place after those in "before". *)
MayFollow(i, before) ==
    \/ \E k \in DOMAIN First :
          /\ i = First[k]
          /\ \A m \in 1..(k - 1) : First[m] \in items => First[m] \in before
          /\ before \subseteq ToSet(First)
    \/ /\ FirstPlaced(before)
       /\ \/ needs[i] \subseteq before \cup {Elsewhere}
          \/ BreaksCycle(i, before)

(* Everything that is left waits for something that is left, and where two *)
(* of them wait for each other, at most one has a binary package.          *)
Blocked ==
    /\ Unplaced # {}
    /\ \A i \in Unplaced : needs[i] \cap Unplaced # {}
    /\ \A i, j \in Unplaced : Mutual(i, j) => ~(i \in hasBinary /\ j \in hasBinary)

Place ==
    /\ outcome = "open"
    /\ \E i \in Unplaced : MayFollow(i, ToSet(order)) /\ order' = Append(order, i)
    /\ UNCHANGED <<items, needs, hasBinary, outcome>>

Conclude ==
    /\ outcome = "open"
    /\ \/ outcome' = "done" /\ Unplaced = {}
       \/ outcome' = "unresolvable" /\ Blocked
       \/ outcome' = "dependency_not_found" /\ \E i \in Unplaced : NotFound \in needs[i]
    /\ UNCHANGED <<items, needs, hasBinary, order>>

Next == Place \/ Conclude

Spec == Init /\ [][Next]_vars
=============================================================================
