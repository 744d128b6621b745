--------------------------- MODULE Kconfig_proofs ---------------------------
(***************************************************************************)
(* Proofs about kernel configurations, for any options, rules, fragments,  *)
(* APKBUILDs and number of commands, whatever the build system of the      *)
(* kernel makes of the fragments.                                          *)
(***************************************************************************)
EXTENDS Kconfig, TLAPS

-----------------------------------------------------------------------------
(* The running command is a record of these fields. *)
CommandOK ==
    p = [pc |-> p.pc, kind |-> p.kind, arch |-> p.arch, fragment |-> p.fragment,
         baseline |-> p.baseline, chosen |-> p.chosen, list |-> p.list, tree |-> p.tree,
         parsed |-> p.parsed, outcome |-> p.outcome]

(* "kconfig edit --fragment" with a fragment that generating reads and does *)
(* not write.                                                               *)
Editing ==
    /\ p.kind = "edit" /\ p.fragment # <<>>
    /\ ForArch(p.fragment, p.arch) /\ p.fragment \notin Generated(apkbuild, p.arch)

(* From the menu on the fragment has the edits ... *)
EditsAreSaved ==
    Editing /\ p.pc \in {"write", "collect"} =>
        \A o \in Edits : /\ p.fragment \in DOMAIN fragments
                         /\ o \in DOMAIN fragments[p.fragment]
                         /\ fragments[p.fragment][o] = p.chosen[o]

(* ... and what is going to be validated has what the fragment says. *)
EditsAreParsed ==
    Editing /\ p.pc \in {"make", "check", "validate"} =>
        \A o \in Edits : /\ p.fragment \in DOMAIN p.parsed
                         /\ o \in DOMAIN p.parsed[p.fragment]
                         /\ p.parsed[p.fragment][o].v = p.chosen[o].parts
                         /\ p.parsed[p.fragment][o].type =
                               IF p.chosen[o].quoted /\ Len(p.chosen[o].parts) > 1
                               THEN "list" ELSE "string"

IInv == CommandOK /\ EditsAreSaved /\ EditsAreParsed /\ EditsAreKept

-----------------------------------------------------------------------------
(* Writing the generated fragments leaves the others alone. *)
LEMMA OthersStay ==
    ASSUME NEW apk, NEW arch, NEW name \in DOMAIN fragments, name \notin Generated(apk, arch)
    PROVE  /\ name \in DOMAIN WithGenerated(apk, arch)
           /\ WithGenerated(apk, arch)[name] = fragments[name]
<1> DEFINE pmos == Write(fragments, PmosName(apk, arch), PmosFragment(apk, arch))
<1>1. name # PmosName(apk, arch) /\ (apk.generic => name # <<"generic", arch>>)
  BY DEF Generated
<1>2. name \in DOMAIN pmos /\ pmos[name] = fragments[name]
  BY <1>1 DEF Write
<1> QED  BY <1>1, <1>2 DEF WithGenerated, Write

(* A step of the command, which stays the same one. *)
LEMMA SameEdit ==
    ASSUME p'.kind = p.kind, p'.arch = p.arch, p'.fragment = p.fragment, apkbuild' = apkbuild
    PROVE  Editing' <=> Editing
<1>1. Generated(apkbuild, p.arch)' = Generated(apkbuild, p.arch)
  BY DEF Generated, PmosName
<1> QED  BY <1>1 DEF Editing, ForArch

(* What _extract_config_diff() has of the options that were changed. *)
LEMMA DiffHasEdits ==
    /\ DOMAIN Diff(p.chosen, p.baseline) = Edits
    /\ \A o \in Edits : Diff(p.chosen, p.baseline)[o] = p.chosen[o]
BY DEF Diff, Restrict, Edits

(* A value that parse_fragment() has of an edit and that is there is kept. *)
LEMMA HeldIsKept ==
    ASSUME NEW config, NEW parsed, NEW o \in DOMAIN parsed, NEW value,
           FragmentHolds(config, parsed),
           parsed[o].v = value.parts,
           parsed[o].type = IF value.quoted /\ Len(value.parts) > 1 THEN "list" ELSE "string"
    PROVE  Kept(config, o, value)
BY DEF FragmentHolds, Kept

-----------------------------------------------------------------------------
LEMMA Initially == Init => IInv
BY DEF Init, Idle, IInv, CommandOK, EditsAreSaved, EditsAreParsed, EditsAreKept, EditSucceeded, Editing

(* A command that just starts or ends otherwise has no edits to lose. *)
LEMMA NothingToKeep ==
    ASSUME CommandOK',
           \/ p'.kind # "edit"
           \/ p'.fragment = <<>>
           \/ p'.pc = "idle" /\ p'.outcome # "done"
    PROVE  IInv'
BY DEF IInv, EditsAreSaved, EditsAreParsed, EditsAreKept, EditSucceeded, Editing

LEMMA EndedEarly ==
    ASSUME IInv, NEW outcome \in {"error", "invalid", "stopped"}, p' = Ended(outcome)
    PROVE  IInv'
<1>1. /\ CommandOK' /\ p'.pc = "idle" /\ p'.outcome # "done"
  BY DEF IInv, CommandOK, Ended
<1> QED  BY <1>1, NothingToKeep

LEMMA GeneratePreserves == ASSUME Generate  PROVE IInv'
<1>1. CommandOK' /\ p'.kind # "edit"
  BY DEF Generate, Idle, CommandOK
<1> QED  BY <1>1, NothingToKeep

LEMMA EditPreserves == ASSUME IInv, Edit  PROVE IInv'
<1>1. PICK arch \in ArchArgument,
           fragment \in {<<>>} \cup FragmentNames :
         p' = IF ArchFound(arch) /\ ArchOf(arch) \in DOMAIN configs
              THEN [Idle EXCEPT !.pc = "menu", !.kind = "edit", !.arch = ArchOf(arch), !.fragment = fragment,
                                !.baseline = configs[ArchOf(arch)]]
              ELSE [Idle EXCEPT !.outcome = "error"]
  BY DEF Edit
<1>2. CASE ArchFound(arch) /\ ArchOf(arch) \in DOMAIN configs
  <2>1. CommandOK' /\ p'.pc = "menu"
    BY <1>1, <1>2 DEF Idle, CommandOK
  <2> QED  BY <2>1 DEF IInv, EditsAreSaved, EditsAreParsed, EditsAreKept, EditSucceeded
<1>3. CASE ~(ArchFound(arch) /\ ArchOf(arch) \in DOMAIN configs)
  <2>1. CommandOK' /\ p'.kind # "edit"
    BY <1>1, <1>3 DEF Idle, CommandOK
  <2> QED  BY <2>1, NothingToKeep
<1> QED  BY <1>2, <1>3

LEMMA MenuPreserves == ASSUME IInv, Menu  PROVE IInv'
<1>1. PICK chosen : p' = IF p.fragment = <<>> THEN Ended("done")
                         ELSE [p EXCEPT !.pc = "diff", !.chosen = chosen]
  BY DEF Menu
<1>2. CASE p.fragment = <<>>
  <2>1. CommandOK' /\ p'.fragment = <<>>
    BY <1>1, <1>2 DEF IInv, CommandOK, Ended
  <2> QED  BY <2>1, NothingToKeep
<1>3. CASE p.fragment # <<>>
  <2>1. CommandOK' /\ p'.pc = "diff"
    BY <1>1, <1>3 DEF IInv, CommandOK
  <2> QED  BY <2>1 DEF IInv, EditsAreSaved, EditsAreParsed, EditsAreKept, EditSucceeded
<1> QED  BY <1>2, <1>3

LEMMA SaveFragmentPreserves == ASSUME IInv, SaveFragment  PROVE IInv'
<1> DEFINE changes == Diff(p.chosen, p.baseline)
<1>1. /\ CommandOK' /\ p'.pc = "write" /\ p'.kind = p.kind /\ p'.arch = p.arch
      /\ p'.fragment = p.fragment /\ p'.chosen = p.chosen /\ p'.baseline = p.baseline
  BY DEF IInv, CommandOK, SaveFragment
<1>2. Edits' = Edits
  BY <1>1 DEF Edits
<1>3. ASSUME NEW o \in Edits
      PROVE  /\ p.fragment \in DOMAIN fragments' /\ o \in DOMAIN fragments'[p.fragment]
             /\ fragments'[p.fragment][o] = p.chosen[o]
  <2>1. o \in DOMAIN changes /\ changes[o] = p.chosen[o]
    BY <1>3, DiffHasEdits
  <2>2. fragments' = Write(fragments, p.fragment, changes)
    BY <2>1 DEF SaveFragment
  <2>3. p.fragment \in DOMAIN fragments' /\ fragments'[p.fragment] = changes
    BY <2>2 DEF Write
  <2> QED  BY <2>1, <2>3
<1>4. EditsAreSaved'
  BY <1>1, <1>2, <1>3 DEF EditsAreSaved
<1> QED  BY <1>1, <1>4 DEF IInv, EditsAreParsed, EditsAreKept, EditSucceeded

LEMMA OtherCommandsPreserve ==
    ASSUME Migrate \/ CheckCommand \/ ChangeApkbuild  PROVE IInv'
<1>1. CommandOK' /\ p'.kind # "edit"
  <2>1. CASE Migrate
    BY <2>1 DEF Migrate, Idle, CommandOK
  <2>2. CASE CheckCommand
    <3>1. PICK outcome : p' = [Idle EXCEPT !.outcome = outcome]
      BY <2>2 DEF CheckCommand
    <3> QED  BY <3>1 DEF Idle, CommandOK
  <2>3. CASE ChangeApkbuild
    BY <2>3 DEF ChangeApkbuild, Idle, CommandOK
  <2> QED  BY <2>1, <2>2, <2>3
<1> QED  BY <1>1, NothingToKeep

LEMMA WriteGeneratedPreserves == ASSUME IInv, WriteGenerated  PROVE IInv'
<1>1. CASE CategoriesExist(scenario.rules, Categories(apkbuild))
  <2>1. fragments' = WithGenerated(apkbuild, p.arch)
    BY <1>1 DEF WriteGenerated
  <2>2. /\ CommandOK' /\ p.pc = "write" /\ p'.pc = "collect" /\ p'.kind = p.kind /\ p'.arch = p.arch
        /\ p'.fragment = p.fragment /\ p'.chosen = p.chosen /\ p'.baseline = p.baseline
    BY <1>1 DEF IInv, CommandOK, WriteGenerated
  <2>3. Edits' = Edits /\ (Editing' <=> Editing)
    BY <2>2, SameEdit DEF Edits, WriteGenerated, Command
  <2>4. ASSUME Editing, NEW o \in Edits
        PROVE  /\ p.fragment \in DOMAIN fragments' /\ o \in DOMAIN fragments'[p.fragment]
               /\ fragments'[p.fragment][o] = p.chosen[o]
    <3>1. /\ p.fragment \in DOMAIN fragments /\ o \in DOMAIN fragments[p.fragment]
          /\ fragments[p.fragment][o] = p.chosen[o]
      BY <2>2, <2>4 DEF IInv, EditsAreSaved
    <3>2. p.fragment \in DOMAIN fragments' /\ fragments'[p.fragment] = fragments[p.fragment]
      BY <2>1, <2>4, <3>1, OthersStay DEF Editing
    <3> QED  BY <3>1, <3>2
  <2>5. EditsAreSaved'
    BY <2>2, <2>3, <2>4 DEF EditsAreSaved
  <2> QED  BY <2>2, <2>5 DEF IInv, EditsAreParsed, EditsAreKept, EditSucceeded
<1>2. CASE ~CategoriesExist(scenario.rules, Categories(apkbuild))
  BY <1>2, EndedEarly DEF WriteGenerated
<1> QED  BY <1>1, <1>2

LEMMA CollectFragmentsPreserves == ASSUME IInv, CollectFragments  PROVE IInv'
<1> DEFINE found == {name \in DOMAIN fragments : ForArch(name, p.arch)}
<1>1. PICK list, tree :
         p' = [p EXCEPT !.pc = "make", !.list = list, !.tree = tree,
                        !.parsed = [name \in found |-> ParseFragment(fragments[name])]]
  BY DEF CollectFragments
<1>2. /\ CommandOK' /\ p'.pc = "make" /\ p'.kind = p.kind /\ p'.arch = p.arch
      /\ p'.fragment = p.fragment /\ p'.chosen = p.chosen /\ p'.baseline = p.baseline
      /\ p'.parsed = [name \in found |-> ParseFragment(fragments[name])]
  BY <1>1 DEF IInv, CommandOK
<1>3. Edits' = Edits /\ (Editing' <=> Editing)
  BY <1>2, SameEdit DEF Edits, CollectFragments, Command
<1>4. ASSUME Editing, NEW o \in Edits
      PROVE  /\ p.fragment \in DOMAIN p'.parsed /\ o \in DOMAIN p'.parsed[p.fragment]
             /\ p'.parsed[p.fragment][o].v = p.chosen[o].parts
             /\ p'.parsed[p.fragment][o].type =
                   IF p.chosen[o].quoted /\ Len(p.chosen[o].parts) > 1 THEN "list" ELSE "string"
  <2>1. /\ p.fragment \in DOMAIN fragments /\ o \in DOMAIN fragments[p.fragment]
        /\ fragments[p.fragment][o] = p.chosen[o]
    BY <1>4 DEF IInv, EditsAreSaved, CollectFragments
  <2>2. p.fragment \in found
    BY <1>4, <2>1 DEF Editing
  <2>3. p.fragment \in DOMAIN p'.parsed
        /\ p'.parsed[p.fragment] = ParseFragment(fragments[p.fragment])
    BY <1>2, <2>2
  <2> QED  BY <2>1, <2>3 DEF ParseFragment
<1>5. EditsAreParsed'
  BY <1>2, <1>3, <1>4 DEF EditsAreParsed
<1> QED  BY <1>2, <1>5 DEF IInv, EditsAreSaved, EditsAreKept, EditSucceeded

(* Steps between reading the fragments and validating. *)
LEMMA StillParsed ==
    ASSUME IInv, p.pc \in {"make", "check"}, NEW pc \in {"check", "validate"},
           p' = [p EXCEPT !.pc = pc], apkbuild' = apkbuild
    PROVE  IInv'
<1>1. /\ CommandOK' /\ p'.pc = pc /\ p'.kind = p.kind /\ p'.arch = p.arch
      /\ p'.fragment = p.fragment /\ p'.chosen = p.chosen /\ p'.baseline = p.baseline
      /\ p'.parsed = p.parsed
  BY DEF IInv, CommandOK
<1>2. Edits' = Edits /\ (Editing' <=> Editing)
  BY <1>1, SameEdit DEF Edits
<1>3. EditsAreParsed'
  BY <1>1, <1>2 DEF IInv, EditsAreParsed
<1> QED  BY <1>1, <1>3 DEF IInv, EditsAreSaved, EditsAreKept, EditSucceeded

LEMMA MakeConfigPreserves == ASSUME IInv, MakeConfig  PROVE IInv'
<1>1. CASE ToSet(p.list) \subseteq DOMAIN p.tree
  BY <1>1, StillParsed DEF MakeConfig, Command
<1>2. CASE ~(ToSet(p.list) \subseteq DOMAIN p.tree)
  BY <1>2, EndedEarly DEF MakeConfig
<1> QED  BY <1>1, <1>2

LEMMA CheckGeneratedPreserves == ASSUME IInv, CheckGenerated  PROVE IInv'
<1>1. CASE Check(Categories(apkbuild))
  BY <1>1, StillParsed DEF CheckGenerated, Command
<1>2. CASE ~Check(Categories(apkbuild))
  BY <1>2, EndedEarly DEF CheckGenerated
<1> QED  BY <1>1, <1>2

(* The configuration that was validated is the one the command leaves. *)
LEMMA ValidatePreserves == ASSUME IInv, Validate_  PROVE IInv'
<1> DEFINE valid == \A name \in DOMAIN p.parsed : FragmentHolds(configs[p.arch], p.parsed[name])
<1>1. CASE ~valid
  BY <1>1, EndedEarly DEF Validate_
<1>2. CASE valid
  <2>1. p.pc = "validate" /\ p' = Ended("done") /\ configs' = configs
    BY <1>2 DEF Validate_, files
  <2>2. /\ CommandOK' /\ p'.pc = "idle" /\ p'.kind = p.kind /\ p'.arch = p.arch
        /\ p'.fragment = p.fragment /\ p'.chosen = p.chosen /\ p'.baseline = p.baseline
    BY <2>1 DEF IInv, CommandOK, Ended
  <2>3. Edits' = Edits /\ (Editing' <=> Editing)
    BY <2>2, SameEdit DEF Edits, Validate_, Command
  <2>4. ASSUME Editing, NEW o \in Edits
        PROVE  Kept(configs[p.arch], o, p.chosen[o])
    <3>1. /\ p.fragment \in DOMAIN p.parsed
          /\ o \in DOMAIN p.parsed[p.fragment]
          /\ p.parsed[p.fragment][o].v = p.chosen[o].parts
          /\ p.parsed[p.fragment][o].type =
                IF p.chosen[o].quoted /\ Len(p.chosen[o].parts) > 1 THEN "list" ELSE "string"
      BY <2>1, <2>4 DEF IInv, EditsAreParsed
    <3>2. FragmentHolds(configs[p.arch], p.parsed[p.fragment])
      BY <1>2, <3>1
    <3> QED  BY <3>1, <3>2, HeldIsKept
  <2>5. Editing' => \A o \in Edits' : Kept(configs[p.arch], o, p.chosen[o])'
    BY <2>1, <2>2, <2>3, <2>4 DEF Kept
  <2>6. EditsAreKept'
    BY <2>5 DEF EditsAreKept, EditSucceeded, Editing
  <2> QED  BY <2>2, <2>6 DEF IInv, EditsAreSaved, EditsAreParsed
<1> QED  BY <1>1, <1>2

LEMMA InterruptedPreserves == ASSUME IInv, Interrupted  PROVE IInv'
BY EndedEarly DEF Interrupted

LEMMA StutteringPreserves == ASSUME IInv, UNCHANGED vars  PROVE IInv'
<1>1. Generated(apkbuild, p.arch)' = Generated(apkbuild, p.arch)
  BY DEF vars, Generated, PmosName
<1> QED
  BY <1>1 DEF vars, IInv, CommandOK, EditsAreSaved, EditsAreParsed, EditsAreKept, EditSucceeded,
              Editing, ForArch, Edits, Kept, IsSet, IsSetStr, IsInArray

LEMMA Inductive == IInv /\ [Next]_vars => IInv'
<1> SUFFICES ASSUME IInv, [Next]_vars  PROVE IInv'
  OBVIOUS
<1> QED
  BY GeneratePreserves, EditPreserves, MenuPreserves, SaveFragmentPreserves,
     OtherCommandsPreserve, WriteGeneratedPreserves, CollectFragmentsPreserves,
     MakeConfigPreserves, CheckGeneratedPreserves, ValidatePreserves, InterruptedPreserves,
     StutteringPreserves DEF Next

(* After "kconfig edit --fragment" has succeeded with any file that           *)
(* generating reads and does not write, the generated configuration has what *)
(* the user changed, for any rules, fragments and options, however  *)
(* the build system of the kernel merges the fragments, and whatever earlier *)
(* commands and interruptions left.                                          *)
THEOREM EditsSurviveGenerating == Spec => []EditsAreKept
<1>1. IInv => EditsAreKept
  BY DEF IInv
<1> QED  BY <1>1, Initially, Inductive, PTL DEF Spec
==============================================================================
