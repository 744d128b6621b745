------------------------------- MODULE Kconfig -------------------------------
(***************************************************************************)
(* Kernel configurations: "pmbootstrap kconfig generate | edit | migrate | *)
(* check" (pmb/build/kconfig.py, pmb/parse/kconfig.py, kconfigcheck.py and *)
(* commands/kconfig.py) for one kernel package, whose APKBUILD and rules   *)
(* may change between two commands.                                        *)
(*                                                                         *)
(* What a line CONFIG_X=... says is a record [quoted, parts]: the parts    *)
(* are what the commas separate.  A configuration and a fragment map       *)
(* options to such values.  A rule expects [type, v]: a boolean, a string  *)
(* ("y", "m" and "n" among them) or a list.  A fragment file is named      *)
(* <<base, suffix>>, a suffix that is no architecture being NoArch, and    *)
(* "txt" that of a name which does not end in .config.                     *)
(***************************************************************************)
EXTENDS Versions, FiniteSets, Functions

CONSTANTS
    Options,          \* options of the kernel
    Scenarios,        \* [apkbuild, rules, needs, defaults, fragments]
    Apkbuilds,        \* [archs, categories, generic, nocheck, defconfig, pkgver];
                      \* defconfig: the fragments _defconfig names after its base
    FragmentNames,    \* files the user saves edits to
    NoArch,
    MaxCommands       \* bound of the commands and changes of the APKBUILD

VARIABLES
    scenario,         \* the kernel source and the rules: fixed
    apkbuild,         \* the APKBUILD of the kernel
    fragments,        \* *.config of the aport: name -> fragment
    configs,          \* config-* of the aport: architecture -> configuration
    p,                \* the running command
    count

vars == <<scenario, apkbuild, fragments, configs, p, count>>
files == <<fragments, configs>>

Line(parts)   == [quoted |-> FALSE, parts |-> parts]
Quoted(parts) == [quoted |-> TRUE, parts |-> parts]
Unset  == Line(<<"n">>)            \* # CONFIG_X is not set
Absent == Line(<<>>)               \* no line at all
Tristate == {<<"y">>, <<"m">>, <<"n">>}

-----------------------------------------------------------------------------
(* pmb/parse/kconfig.py: what a configuration says                         *)

IsSet(config, o)            == config[o] \in {Line(<<"y">>), Line(<<"m">>)}
IsSetStr(config, o, string) == config[o] \notin {Unset, Absent} /\ config[o].parts = string
IsInArray(config, o, item)  == config[o].quoted /\ Contains(config[o].parts, item)

(* That "y" and "m" differ is only logged.                                  *)
CheckOption(config, o, e) ==
    CASE e.type = "list" -> \A i \in DOMAIN e.v : IsInArray(config, o, e.v[i])
      [] e.type = "bool" -> IsSet(config, o) = (e.v = <<"True">>)
      [] e.type = "string" /\ e.v \in Tristate    -> IsSet(config, o) = (e.v # <<"n">>)
      [] e.type = "string" /\ e.v \notin Tristate -> IsSetStr(config, o, e.v)

(* The sections of rules that apply, in the order of the file.              *)
VersionMatches(pkgver, versions) ==
    \A i \in DOMAIN versions : CheckString(pkgver, versions[i][1], versions[i][2])
ArchMatches(arch, archs) == archs = {"all"} \/ arch \in archs

Applicable(sections, pkgver, arch) ==
    SelectSeq(sections, LAMBDA s : VersionMatches(pkgver, s.versions) /\ ArchMatches(arch, s.archs))

(* pmb/parse/kconfigcheck.py                                               *)
ResolveAliases(rules, categories) ==
    UNION {IF c \in DOMAIN rules.aliases THEN rules.aliases[c] ELSE {c} : c \in categories}
CategoriesExist(rules, categories) ==
    ResolveAliases(rules, categories) \subseteq UNION {s.key : s \in ToSet(rules.sections)}
ReadCategories(rules, categories) ==
    SelectSeq(rules.sections, LAMBDA s : s.key \subseteq ResolveAliases(rules, categories))

Categories(apk) == {"default"} \cup apk.categories

CheckConfig(config, arch, apk, categories) ==
    \A s \in ToSet(Applicable(ReadCategories(scenario.rules, categories), apk.pkgver, arch)) :
        \A o \in DOMAIN s.options : CheckOption(config, o, s.options[o])

(* check(): every configuration of the aport.                               *)
Check(categories) == \A a \in DOMAIN configs : CheckConfig(configs[a], a, apkbuild, categories)

-----------------------------------------------------------------------------
(* Fragments                                                               *)

(* A Python bool is an int: it is written as its name.                      *)
Written(e) ==
    CASE e.type = "bool" -> Line(e.v)
      [] e.type = "list" -> Quoted(e.v)
      [] e.type = "string" /\ e.v \in Tristate    -> Line(e.v)
      [] e.type = "string" /\ e.v \notin Tristate -> Quoted(e.v)

FragmentLines(sections) ==
    FoldLeft(LAMBDA lines, s : [o \in DOMAIN s.options |-> Written(s.options[o])] @@ lines,
             <<>>, sections)

FragmentForEveryArch(sections, apk, arch) ==
    FragmentLines(SelectSeq(sections, LAMBDA s : VersionMatches(apk.pkgver, s.versions)))

FragmentFromRules(sections, apk, arch) == FragmentLines(Applicable(sections, apk.pkgver, arch))

PmosFragment(apk, arch)    == FragmentFromRules(ReadCategories(scenario.rules, Categories(apk)), apk, arch)
GenericFragment(apk, arch) == FragmentFromRules(scenario.rules.generic, apk, arch)

PmosName(apk, arch) == <<"pmos", IF Cardinality(apk.archs) # 1 THEN arch ELSE NoArch>>

Write(written, name, content) ==
    [n \in DOMAIN written \cup {name} |-> IF n = name THEN content ELSE written[n]]

WithGenerated(apk, arch) ==
    LET pmos == Write(fragments, PmosName(apk, arch), PmosFragment(apk, arch))
    IN  IF apk.generic THEN Write(pmos, <<"generic", arch>>, GenericFragment(apk, arch)) ELSE pmos

Generated(apk, arch) ==
    {PmosName(apk, arch)} \cup (IF apk.generic THEN {<<"generic", arch>>} ELSE {})
GeneratedNames(apk, arch) ==
    <<PmosName(apk, arch)>> \o (IF apk.generic THEN << <<"generic", arch>> >> ELSE <<>>)

(* glob("*.config"), without those for other architectures.                 *)
ForArch(name, arch) == name[2] \in {NoArch, arch} \ {"txt"}

ParseFragment(fragment) ==
    [o \in DOMAIN fragment |->
        [type |-> IF fragment[o].quoted /\ Len(fragment[o].parts) > 1 THEN "list" ELSE "string",
         v    |-> fragment[o].parts]]

FragmentHolds(config, parsed) ==
    \A o \in DOMAIN parsed :
        /\ parsed[o].type = "list" => \A i \in DOMAIN parsed[o].v : IsInArray(config, o, parsed[o].v[i])
        /\ parsed[o].type = "string" /\ parsed[o].v = <<"n">> => ~IsSet(config, o)
        /\ parsed[o].type = "string" /\ parsed[o].v # <<"n">> => IsSetStr(config, o, parsed[o].v)

(* _extract_config_diff(): an option the new configuration does not mention *)
(* leaves no trace.                                                         *)
DiffOfSet(new, baseline) ==
    LET changed == {o \in Options : new[o] # baseline[o] /\ new[o] \notin {Unset, Absent}}
    IN  Restrict(new, changed)
Diff(new, baseline) ==
    LET changed == {o \in Options : new[o] # baseline[o] /\ new[o] # Absent}
    IN  Restrict(new, changed)

-----------------------------------------------------------------------------
(* The build system of the kernel: an option whose dependency is not set    *)
(* disappears; a value it cannot have is replaced by the default; fragments *)
(* are merged one after the other.                                          *)

Visible(o, config) == scenario.needs[o] = o \/ (scenario.needs[o] \in Options /\ IsSet(config, scenario.needs[o]))
Possible(o, value) == IF scenario.defaults[o].quoted THEN value.quoted
                      ELSE value.parts \in Tristate /\ ~value.quoted
Resolve(config) ==
    LET valid == [o \in Options |-> IF Possible(o, config[o]) THEN config[o] ELSE scenario.defaults[o]]
    IN  [o \in Options |-> IF Visible(o, valid) THEN valid[o] ELSE Absent]

Make(base, lines) == FoldLeft(LAMBDA config, f : Resolve(f @@ config), Resolve(base), lines)

-----------------------------------------------------------------------------
Idle == [pc |-> "idle", kind |-> "none", arch |-> NoArch, fragment |-> <<>>, baseline |-> <<>>,
         chosen |-> <<>>, list |-> <<>>, tree |-> <<>>, parsed |-> <<>>, outcome |-> "none"]

Init ==
    /\ scenario \in Scenarios
    /\ apkbuild = scenario.apkbuild
    /\ fragments = scenario.fragments
    /\ configs = <<>>
    /\ p = Idle
    /\ count = 0

Ended(outcome) == [p EXCEPT !.pc = "idle", !.outcome = outcome]
Begin == p.pc = "idle" /\ count < MaxCommands /\ count' = count + 1
Command == UNCHANGED <<scenario, apkbuild, count>>

(* get_arch() is asked when --arch is missing.                              *)
ArchArgument == {NoArch} \cup apkbuild.archs
ArchFound(arch) == arch # NoArch \/ Cardinality(apkbuild.archs) = 1
ArchOf(arch) == IF arch # NoArch THEN arch ELSE CHOOSE a \in apkbuild.archs : TRUE

Generate ==
    /\ Begin
    /\ \E arch \in ArchArgument :
         p' = IF ArchFound(arch) THEN [Idle EXCEPT !.pc = "write", !.kind = "generate", !.arch = ArchOf(arch)]
              ELSE [Idle EXCEPT !.outcome = "error"]
    /\ UNCHANGED <<scenario, apkbuild, files>>

Edit ==
    /\ Begin
    /\ \E arch \in ArchArgument, fragment \in {<<>>} \cup FragmentNames :
         p' = IF ArchFound(arch) /\ ArchOf(arch) \in DOMAIN configs
              THEN [Idle EXCEPT !.pc = "menu", !.kind = "edit", !.arch = ArchOf(arch), !.fragment = fragment,
                                !.baseline = configs[ArchOf(arch)]]
              ELSE [Idle EXCEPT !.outcome = "error"]
    /\ UNCHANGED <<scenario, apkbuild, files>>

(* _make() with the user interface: one option gets another value.          *)
Menu ==
    /\ p.pc = "menu"
    /\ \E o \in Options, value \in {Unset, Line(<<"y">>), Quoted(<<"k">>), Quoted(<<"k", "j">>)} :
         LET chosen == Resolve([p.baseline EXCEPT ![o] = value])
         IN  /\ p.baseline[o] # Absent /\ Possible(o, value)
             /\ configs' = [configs EXCEPT ![p.arch] = chosen]
             /\ p' = IF p.fragment = <<>> THEN Ended("done")
                     ELSE [p EXCEPT !.pc = "diff", !.chosen = chosen]
    /\ Command /\ UNCHANGED fragments

(* The fragment is written anew, without what it said before.               *)
SaveFragment ==
    /\ p.pc = "diff"
    /\ LET changes == Diff(p.chosen, p.baseline)
       IN  fragments' = IF changes = <<>> THEN fragments ELSE Write(fragments, p.fragment, changes)
    /\ p' = [p EXCEPT !.pc = "write"]
    /\ Command /\ UNCHANGED configs

Migrate ==
    /\ Begin
    /\ \E arch \in ArchArgument :
         IF ArchFound(arch) /\ ArchOf(arch) \in DOMAIN configs
         THEN /\ configs' = [configs EXCEPT ![ArchOf(arch)] = Resolve(@)]
              /\ p' = [Idle EXCEPT !.outcome = "done"]
         ELSE configs' = configs /\ p' = [Idle EXCEPT !.outcome = "error"]
    /\ UNCHANGED <<scenario, apkbuild, fragments>>

(* KConfigCheck.run().                                                      *)
CheckCommand ==
    /\ Begin
    /\ \E force \in BOOLEAN :
         p' = [Idle EXCEPT !.outcome =
                 IF apkbuild.nocheck /\ ~force THEN "done"
                 ELSE IF DOMAIN configs # {} /\ ~CategoriesExist(scenario.rules, Categories(apkbuild)) THEN "error"
                 ELSE IF Check(Categories(apkbuild)) THEN "done" ELSE "invalid"]
    /\ UNCHANGED <<scenario, apkbuild, files>>

(* generate_config(): the generated fragments, copied to the kernel source  *)
(* while what was written to them is still in a buffer ...                  *)
WriteGenerated ==
    /\ p.pc = "write"
    /\ IF CategoriesExist(scenario.rules, Categories(apkbuild))
       THEN /\ fragments' = WithGenerated(apkbuild, p.arch)
            /\ p' = [p EXCEPT !.pc = "collect",
                              !.tree = [name \in Generated(apkbuild, p.arch) |-> <<>>],
                              !.list = apkbuild.defconfig \o GeneratedNames(apkbuild, p.arch)]
       ELSE p' = Ended("error") /\ fragments' = fragments
    /\ Command /\ UNCHANGED configs

(* ... and all fragments for the architecture, in the order glob() has,     *)
(* which copies the generated ones again.                                   *)
CollectFragments ==
    /\ p.pc = "collect"
    /\ LET found == {name \in DOMAIN fragments : ForArch(name, p.arch)}
           more  == found \ ToSet(p.list)
       IN  \E order \in [1..Cardinality(more) -> more] :
             /\ IsInjective(order)
             /\ p' = [p EXCEPT !.pc = "make", !.list = @ \o order,
                               !.tree = [name \in found |-> fragments[name]] @@ @,
                               !.parsed = [name \in found |-> ParseFragment(fragments[name])]]
    /\ Command /\ UNCHANGED files

(* _make(): the base is "defconfig", or what _defconfig starts with; the    *)
(* result is copied to the aport before anything validates it.              *)
MakeConfig ==
    /\ p.pc = "make"
    /\ IF ToSet(p.list) \subseteq DOMAIN p.tree
       THEN LET lines == [i \in DOMAIN p.list |-> p.tree[p.list[i]]]
            IN  /\ configs' = Write(configs, p.arch, Make(scenario.defaults, lines))
                /\ p' = [p EXCEPT !.pc = "check"]
       ELSE p' = Ended("error") /\ configs' = configs
    /\ Command /\ UNCHANGED fragments

CheckGenerated ==
    /\ p.pc = "check"
    /\ p' = IF Check(Categories(apkbuild)) THEN [p EXCEPT !.pc = "validate"] ELSE Ended("invalid")
    /\ Command /\ UNCHANGED files

Validate_ ==
    /\ p.pc = "validate"
    /\ p' = Ended(IF \A name \in DOMAIN p.parsed : FragmentHolds(configs[p.arch], p.parsed[name])
                  THEN "done" ELSE "invalid")
    /\ Command /\ UNCHANGED files

(* The user interrupts, or make fails.                                      *)
Interrupted ==
    /\ p.pc # "idle"
    /\ p' = Ended("stopped")
    /\ Command /\ UNCHANGED files

(* The kernel is upgraded, or built for more architectures.                 *)
ChangeApkbuild ==
    /\ Begin
    /\ apkbuild' \in Apkbuilds \ {apkbuild}
    /\ p' = Idle
    /\ UNCHANGED <<scenario, files>>

Next == \/ Generate \/ Edit \/ Menu \/ SaveFragment \/ Migrate \/ CheckCommand
        \/ WriteGenerated \/ CollectFragments \/ MakeConfig \/ CheckGenerated \/ Validate_
        \/ Interrupted \/ ChangeApkbuild

Spec == Init /\ [][Next]_vars

-----------------------------------------------------------------------------
(* What the rules and the user's fragments ask for, whatever is written      *)
(* where: the sections that apply.                                          *)
Sections(apk, arch) ==
    ToSet(Applicable(ReadCategories(scenario.rules, Categories(apk)), apk.pkgver, arch))
      \cup (IF apk.generic THEN ToSet(Applicable(scenario.rules.generic, apk.pkgver, arch)) ELSE {})

Wishes(apk, arch, o) ==
    {s.options[o] : s \in {t \in Sections(apk, arch) : o \in DOMAIN t.options}}
OwnWishes(arch, o) ==
    {fragments[n][o] : n \in {m \in DOMAIN fragments : m[1] = "own" /\ ForArch(m, arch) /\ o \in DOMAIN fragments[m]}}

Values == {Unset, Absent, Line(<<"y">>), Line(<<"m">>), Quoted(<<"">>), Quoted(<<"k">>), Quoted(<<"j">>),
           Quoted(<<"j", "k">>), Quoted(<<"k", "j">>)}

Satisfiable(apk, arch) ==
    \E config \in [Options -> Values] :
        /\ config = Resolve(config)
        /\ \A o \in Options : /\ \A e \in Wishes(apk, arch, o) : CheckOption(config, o, e)
                              /\ \A value \in OwnWishes(arch, o) : IF value = Unset THEN ~IsSet(config, o) ELSE config[o] = value

(* Where the program is known to fail although a configuration exists: two  *)
(* different texts for one option, fragments left by an earlier APKBUILD,   *)
(* the configuration of another architecture; and booleans.                 *)
OtherReason(apk, arch) ==
    \/ \E o \in Options : Cardinality({Written(e) : e \in Wishes(apk, arch, o)} \cup OwnWishes(arch, o)) > 1
    \/ \E n \in DOMAIN fragments : /\ n[1] # "own" /\ ForArch(n, arch)
                                   /\ n \notin Generated(apk, arch)
    \/ \E a \in DOMAIN configs \ {arch} : ~CheckConfig(configs[a], a, apk, Categories(apk))
HasBoolean(apk, arch) == \E o \in Options : \E e \in Wishes(apk, arch, o) : e.type = "bool"

GenerateRefused == p.pc = "idle" /\ p.kind = "generate" /\ p.outcome = "invalid"

(* If a configuration of this kernel satisfies the rules for its            *)
(* architecture and version and the user's fragments, generate_config()     *)
(* finds one: it never ends with "does not pass all checks" or "fragment    *)
(* validation failed".                                                      *)
RulesCanBeMet ==
    GenerateRefused => \/ ~Satisfiable(apkbuild, p.arch)
                       \/ OtherReason(apkbuild, p.arch)
                       \/ HasBoolean(apkbuild, p.arch)

(* The same with boolean rules, which kconfigcheck.toml documents and which *)
(* create_fragment_from_rules() writes as "CONFIG_X=True".                  *)
BooleansCanBeMet ==
    GenerateRefused => ~Satisfiable(apkbuild, p.arch) \/ OtherReason(apkbuild, p.arch)

(* A value as the user left it: not set, or the same text.  Fragments may   *)
(* name the elements of a list in different orders, or more of them, and    *)
(* the last one stays; the text "n" is taken for "not set".                 *)
Kept(config, o, value) ==
    LET list == value.quoted /\ Len(value.parts) > 1
    IN  /\ list => \A i \in DOMAIN value.parts : IsInArray(config, o, value.parts[i])
        /\ ~list /\ value.parts = <<"n">> => ~IsSet(config, o)
        /\ ~list /\ value.parts # <<"n">> => IsSetStr(config, o, value.parts)

EditSucceeded == p.pc = "idle" /\ p.kind = "edit" /\ p.outcome = "done" /\ p.fragment # <<>>
Edits == {o \in Options : p.chosen[o] \notin {p.baseline[o], Absent}}

(* When "kconfig edit --fragment" succeeds, the configuration generated from *)
(* the fragments has every option as the user left it in the menu, unless   *)
(* the fragment is for another architecture, is no *.config, or has the     *)
(* name of one that is generated.                                           *)
EditsAreKept ==
    EditSucceeded /\ ForArch(p.fragment, p.arch) /\ p.fragment \notin Generated(apkbuild, p.arch) =>
        \A o \in Edits : Kept(configs[p.arch], o, p.chosen[o])

(* kconfig.py line 295: "Fragment saved to {fragment}".  When the program   *)
(* says so, the fragment has what the user changed.                         *)
FragmentIsSaved ==
    EditSucceeded =>
        \A o \in Edits : /\ p.fragment \in DOMAIN fragments
                         /\ o \in DOMAIN fragments[p.fragment]
                         /\ fragments[p.fragment][o] = p.chosen[o]
=============================================================================
