------------------------------- MODULE Lookup -------------------------------
(***************************************************************************)
(* Looking packages up, in the indexes of the binary repositories and in   *)
(* pmaports: parse() and providers() of pmb/parse/apkindex.py,             *)
(* find() of helpers/pmaports.py, get_status() of build/other.py; and      *)
(* "pkgrel_bump --auto", which walks all indexes and changes pmaports as   *)
(* it goes.                                                                *)
(*                                                                         *)
(* A name is the sequence of its dash-separated words.  An index is the    *)
(* sequence of its blocks in the order of the file.  A block is            *)
(*   [pkgname, version, provides: set, depends: set, prio (-1: none),      *)
(*    origin, virtual];                                                    *)
(* an aport [ver, rel, arches, subpackages, provides, depends]; what it    *)
(* depends on are names with constraints.  Versions are records of module  *)
(* Versions, compared as the strings they are written as.                  *)
(***************************************************************************)
EXTENDS Versions, FiniteSets

CONSTANTS
    Scenarios,        \* [indexes: Seq(index), aports: name -> aport]
    NameLength(_),    \* characters of a name
    ArchWords,        \* words that are architectures
    MaxRel            \* bound of pkgrel

VARIABLES
    scenario,         \* the indexes, in the order of apkindex_files(); fixed
    aports,           \* pmaports
    position,         \* of auto(): <<index, key>>
    ret               \* of auto(): the keys of what was bumped

vars == <<scenario, aports, position, ret>>

(* What comparing two versions as strings gives, in a singleton.            *)
Comparison(a, b) == {Compare(s, t) : s \in {Symbols(a)}, t \in {Symbols(b)}}
Newer(a, b) == Comparison(a, b) = {1}

-----------------------------------------------------------------------------
(* pmb/parse/apkindex.py                                                   *)

(* A dictionary in its order: the blocks, each under the name Key gives it. *)
Put(entries, key, block) ==
    IF \E i \in DOMAIN entries : entries[i].key = key
    THEN [i \in DOMAIN entries |->
             IF entries[i].key = key THEN [key |-> key, block |-> block] ELSE entries[i]]
    ELSE Append(entries, [key |-> key, block |-> block])

Keys(entries) == {entries[i].key : i \in DOMAIN entries}
At(entries, key) == (CHOOSE e \in ToSet(entries) : e.key = key).block

PutNewest(entries, key, block) ==
    IF key \in Keys(entries) /\ Newer(At(entries, key).version, block.version)
    THEN entries ELSE Put(entries, key, block)

(* The file is read backwards; virtual packages are skipped.                *)
Blocks(index) == SelectSeq(Reverse(index), LAMBDA b : ~b.virtual)

(* parse(): what the index has for a provide, by package ...                *)
ProvidersInIndex(index, provide) ==
    FoldLeft(LAMBDA entries, b : IF provide \in {b.pkgname} \cup b.provides
                                 THEN PutNewest(entries, b.pkgname, b) ELSE entries,
             <<>>, Blocks(index))

(* ... and, with multiple_providers=False, one block for each provide.      *)
SingleIndex(index) ==
    FoldLeft(LAMBDA entries, b :
                FoldLeft(LAMBDA es, key : PutNewest(es, key, b),
                         PutNewest(entries, b.pkgname, b), SetToSeq(b.provides)),
             <<>>, Blocks(index))

NoConstraint == [op |-> "", version |-> [nums |-> <<0>>, letter |-> 0, suffixes |-> <<>>, rev |-> -1]]

(* "=" and "~" are ignored.                                                 *)
Satisfies(version, constraint) ==
    Comparison(version, constraint.version) \subseteq
        CASE constraint.op = ">=" -> {0, 1}
          [] constraint.op = ">"  -> {1}
          [] constraint.op = "<=" -> {-1, 0}
          [] constraint.op = "<"  -> {-1}
          [] OTHER -> {-1, 0, 1}

KeepNewest(found, key, block) ==
    IF key \in Keys(found) /\ Newer(At(found, key).version, block.version)
    THEN found ELSE Put(found, key, block)

KeepLast(found, key, block) == Put(found, key, block)

Merge(found, key, block) == KeepNewest(found, key, block)

Providers(name, constraint) ==
    LET InIndex(found, index) ==
          FoldLeft(LAMBDA f, e : IF Satisfies(e.block.version, constraint)
                                 THEN Merge(f, e.key, e.block) ELSE f,
                   found, ProvidersInIndex(index, name))
    IN  FoldLeft(InIndex, <<>>, scenario.indexes)

(* The highest priority starts at 0: without one a provider has -1.         *)
HighestPriority(providers) ==
    LET prios == {providers[i].block.prio : i \in DOMAIN providers} \cup {0}
        max   == CHOOSE p \in prios : \A q \in prios : q <= p
        best  == SelectSeq(providers, LAMBDA e : e.block.prio = max)
    IN  IF best = <<>> THEN providers ELSE best

Shortest(providers) ==
    LET i == CHOOSE i \in DOMAIN providers : \A j \in DOMAIN providers :
                \/ NameLength(providers[i].key) < NameLength(providers[j].key)
                \/ NameLength(providers[i].key) = NameLength(providers[j].key) /\ i <= j
    IN  providers[i].block

PackageOf(providers) == Shortest(HighestPriority(providers))

(* A singleton, or empty where no index has one.                            *)
Package(name, constraint) == {PackageOf(p) : p \in {Providers(name, constraint)} \ {<<>>}}

(* parse/depends.py: package_provider() prefers the package of that name,   *)
(* then what will be or is installed, then what the user selected.          *)
PackageProvider(providers, name, toInstall, installed, selected) ==
    LET Among(names) == SelectSeq(providers, LAMBDA e : e.key \in names)
        preferred    == Among({name}) \o Among(toInstall) \o Among(installed) \o Among({selected})
    IN  CASE providers = <<>> -> {}
          [] preferred # <<>> -> {preferred[1].block}
          [] OTHER            -> {PackageOf(providers)}

-----------------------------------------------------------------------------
(* helpers/pmaports.py                                                     *)

(* guess_main(): without "-dev"; for an architecture the name with "gcc"    *)
(* for "g++"; else the longest proper prefix that is an aport.              *)
GuessMain(name) ==
    LET prefixes == {n \in 1..Len(name) - 1 : SubSeq(name, 1, n) \in DOMAIN aports}
        longest  == CHOOSE n \in prefixes : \A m \in prefixes : m <= n
        cross    == IF Contains(Front(name), "dev") THEN SelectSeq(name, LAMBDA w : w # "dev")
                    ELSE [i \in DOMAIN name |-> IF name[i] = "g++" THEN "gcc" ELSE name[i]]
        Known(n) == {n} \cap DOMAIN aports
    IN  CASE Last(name) = "dev"       -> Known(Front(name))
          [] Last(name) \in ArchWords -> Known(cross)
          [] OTHER -> IF prefixes = {} THEN {} ELSE {SubSeq(name, 1, longest)}

(* _find_package_in_apkbuild(); provides without a version never match.     *)
ContainsPackage(aport, name) == name \in aports[aport].subpackages \cup aports[aport].provides

(* find(): the aport of that name, the verified guess, any aport that       *)
(* contains it, the guess.  A singleton or empty.                           *)
Find(name) ==
    LET guess     == GuessMain(name)
        verified  == {a \in guess : ContainsPackage(a, name)}
        container == {a \in DOMAIN aports : ContainsPackage(a, name)}
    IN  CASE name \in DOMAIN aports           -> {name}
          [] name \notin DOMAIN aports /\ verified # {} -> verified
          [] name \notin DOMAIN aports /\ verified = {} /\ container # {} ->
               {CHOOSE a \in container : TRUE}
          [] OTHER -> guess

VersionOf(aport) == [aports[aport].ver EXCEPT !.rev = aports[aport].rel]

(* get_status() of build/other.py.                                          *)
Status(aport, arch) ==
    CASE arch \notin aports[aport].arches -> "cant_build"
      [] arch \in aports[aport].arches /\ Package(aport, NoConstraint) = {} -> "new"
      [] OTHER -> IF \E b \in Package(aport, NoConstraint) :
                        b.version # VersionOf(aport) /\ ~Newer(b.version, VersionOf(aport))
                  THEN "outdated" ELSE "unnecessary"

-----------------------------------------------------------------------------
(* helpers/package.py                                                      *)

Dependency(name) == [name |-> name, constraint |-> NoConstraint]

(* get_depends(): not what the aport itself provides. *)
DependsOf(aport) == {d \in aports[aport].depends : d.name \notin {aport} \cup aports[aport].subpackages}

(* get_with_path(): pkgver is what has to meet the constraint. *)
GetWithPath(d) == {a \in Find(d.name) : Satisfies(aports[a].ver, d.constraint)}

(* get(): an aport for the architecture, or what an index has. The provides *)
(* of an aport have versions.                                               *)
Get(d, arch) ==
    LET pmaport == {a \in GetWithPath(d) : arch \in aports[a].arches}
    IN  IF pmaport # {}
        THEN {[pkgname |-> a, provides |-> {}, depends |-> DependsOf(a)] : a \in pmaport}
        ELSE {[pkgname |-> b.pkgname, provides |-> {Dependency(n) : n \in b.provides},
               depends |-> {Dependency(n) : n \in b.depends}] :
                 b \in Package(d.name, d.constraint)}

(* depends_recurse() takes names out of a set in any order and returns the  *)
(* names of the packages it got.  These are the sets of packages it may     *)
(* get, {} when one is not found; alternative_names are the provides, and   *)
(* the names as they were asked for.                                        *)
RECURSIVE Recurse(_, _, _, _)
Recurse(queue, got, alternativeNames, arch) ==
    LET known == {Dependency(p.pkgname) : p \in got} \cup alternativeNames
        After(d, package) ==
            Recurse((queue \ {d}) \cup (package.depends \ known), got \cup {package},
                    alternativeNames \cup package.provides \cup {d}, arch)
        Found(d, found) ==
            IF found = {} THEN {{}} ELSE UNION {After(d, package) : package \in found}
    IN  IF queue = {} THEN {got}
        ELSE UNION {UNION {Found(d, found) : found \in {Get(d, arch)}} : d \in queue}

DependsRecurse(name, arch) == Recurse({Dependency(name)}, {}, {}, arch)

(* helpers/repo_missing.py: generate() lists the aports of an architecture  *)
(* with what they depend on, by the names of packages where it finds them.  *)
(* A forked abuild is built before everything.  Archived devices, which it  *)
(* skips, are not in aports here.                                           *)
Resolved(d, arch) ==
    UNION {IF found = {} THEN {d} ELSE {Dependency(p.pkgname) : p \in found} : found \in {Get(d, arch)}}

RepoMissing(arch) ==
    [a \in {n \in DOMAIN aports : arch \in aports[n].arches} |->
        (UNION {Resolved(d, arch) : d \in aports[a].depends}
            \cup {Dependency(n) : n \in {<<"abuild">>} \cap DOMAIN aports}) \ {Dependency(a)}]

-----------------------------------------------------------------------------
(* helpers/pkgrel_bump.py                                                  *)

Current == SingleIndex(scenario.indexes[position[1]])

(* Libraries nobody provides, and packages nobody provides or could build.  *)
IsLibrary(name) == name[1] = "so"
MissingWithoutLibraries(block) ==
    {d \in block.depends : ~IsLibrary(d) /\ Providers(d, NoConstraint) = <<>> /\ Find(d) = {}}
MissingDepends(block) ==
    {d \in block.depends : /\ Providers(d, NoConstraint) = <<>>
                           /\ IsLibrary(d) \/ Find(d) = {}}

NeedsBump(aport, block) ==
    /\ Comparison(VersionOf(aport), block.version) = {0}
    /\ MissingDepends(block) # {}

Bump(aport) == /\ aports[aport].rel < MaxRel
               /\ aports' = [aports EXCEPT ![aport].rel = @ + 1]

ScanEntry(entry) ==
    LET origin == Find(entry.block.origin)
    IN  IF entry.block.origin \notin ret /\ \E a \in origin : NeedsBump(a, entry.block)
        THEN \E a \in origin : Bump(a) /\ ret' = ret \cup {entry.key}
        ELSE UNCHANGED <<aports, ret>>

Following == IF position[2] < Len(Current) THEN <<position[1], position[2] + 1>>
             ELSE <<position[1] + 1, 1>>

Running == position[1] <= Len(scenario.indexes)

SkipEmptyIndex ==
    /\ Running /\ Current = <<>>
    /\ position' = <<position[1] + 1, 1>>
    /\ UNCHANGED <<scenario, aports, ret>>

Scan ==
    /\ Running /\ Current # <<>>
    /\ position' = Following
    /\ ScanEntry(Current[position[2]])
    /\ UNCHANGED scenario

Init == /\ scenario \in Scenarios
        /\ aports = scenario.aports
        /\ \A a \in DOMAIN aports : Validate(Symbols(aports[a].ver))
        /\ position = <<1, 1>>
        /\ ret = {}

Next == SkipEmptyIndex \/ Scan

Spec == Init /\ [][Next]_vars

-----------------------------------------------------------------------------
AllBlocks   == UNION {{b \in ToSet(i) : ~b.virtual} : i \in ToSet(scenario.indexes)}
Offers(name) == {b \in AllBlocks : name \in {b.pkgname} \cup b.provides}
AllNames    == UNION {{b.pkgname} \cup b.provides : b \in AllBlocks}
RegularVersions ==
    /\ \A a, b \in AllBlocks : Regular(a.version, b.version)
    /\ \A a \in DOMAIN aports, b \in AllBlocks : Regular(VersionOf(a), b.version)

(* Whatever the order of the indexes, of the blocks in them and of what     *)
(* they provide, a provider is found in its newest version, "newest" being  *)
(* what the version means; an aport is built if and only if no index has    *)
(* this version or a newer one for its name.  providers() and               *)
(* parse_add_block() of parse/apkindex.py, get_status() of build/other.py.  *)
NewestIsFound ==
    RegularVersions =>
        /\ \A n \in AllNames :
              \A found \in {Providers(n, NoConstraint)} :
                  /\ Keys(found) = {b.pkgname : b \in Offers(n)}
                  /\ \A e \in ToSet(found) : \A b \in Offers(n) :
                        b.pkgname = e.key => Meaning(e.block.version, b.version) >= 0
        /\ \A a \in DOMAIN aports : \A arch \in aports[a].arches :
              {b.pkgname : b \in Offers(a)} \subseteq {a} =>
                 (Status(a, arch) = "unnecessary" <=>
                    \E b \in Offers(a) : Meaning(b.version, VersionOf(a)) >= 0)

(* package_provider() finds what providers() has, and once its choice is    *)
(* installed or about to be, asking again gives the same package: what      *)
(* install_system_image() asks at different times agrees.                   *)
ChoiceIsStable ==
    \A n \in AllNames : \A candidates \in {{b.pkgname : b \in Offers(n)}} :
        \A toInstall, installed \in SUBSET candidates, selected \in candidates \cup {<<>>},
           providers \in {Providers(n, NoConstraint)} :
        \A choice \in {PackageProvider(providers, n, toInstall, installed, selected)} :
            /\ choice # {} /\ choice \subseteq Offers(n)
            /\ \A b \in choice :
                  /\ PackageProvider(providers, n, toInstall, installed \cup {b.pkgname}, selected) = choice
                  /\ toInstall = {} => PackageProvider(providers, n, {b.pkgname}, installed, selected) = choice

(* In whatever order depends_recurse() takes its names, what it got is      *)
(* closed: each dependency of a package in it is the name of one, provided  *)
(* by one, or what one was found for; and it got nothing that it did not    *)
(* come to from the package it was asked for.                               *)
DependsAreClosed ==
    \A a \in DOMAIN aports : \A arch \in aports[a].arches :
        \A got \in DependsRecurse(a, arch) \ {{}} :
        \A get \in {[d \in {Dependency(a)} \cup UNION {p.depends : p \in got} |-> Get(d, arch)]} :
            /\ get[Dependency(a)] \subseteq got
            /\ \A p \in got : \A d \in p.depends :
                \/ \E q \in got : d \in {Dependency(q.pkgname)} \cup q.provides
                \/ get[d] \subseteq got
            /\ \A p \in got : p.pkgname = a \/ \E q \in got : \E d \in q.depends : p \in get[d]

(* The list of repo_missing, from which packages are built in order, names  *)
(* for each dependency an aport is for that aport, whatever name of it was  *)
(* used, and never makes an aport wait for itself.                          *)
MissingNamesAports ==
    \A a \in DOMAIN aports : \A arch \in aports[a].arches :
        \A depends \in {RepoMissing(arch)[a]} :
            /\ Dependency(a) \notin depends
            /\ \A d \in aports[a].depends : \A b \in GetWithPath(d) \ {a} :
                  arch \in aports[b].arches => Dependency(b) \in depends

JustStarted == position = <<1, 1>>

(* What is looked up is right: NewestIsFound, ChoiceIsStable,               *)
(* DependsAreClosed and MissingNamesAports, the last three for pmaports as  *)
(* a command finds them.                                                    *)
LookupIsRight ==
    NewestIsFound /\ (JustStarted => ChoiceIsStable /\ DependsAreClosed /\ MissingNamesAports)

(* SingleIndex() keeps one block for a name: a newer version, or a newer    *)
(* package that provides the name, hides this one.                          *)
Hidden(b) == \E c \in AllBlocks \ {b} : b.pkgname \in {c.pkgname} \cup c.provides

(* When auto() has seen everything, each aport whose binary package lacks   *)
(* a library that nobody provides has another version than that binary      *)
(* package: it is going to be built again.  Excused are aports whose name   *)
(* a bumped package provides: "origin in ret" takes them for done.  And     *)
(* each aport is increased only once for what it lacks ("Only increase      *)
(* once!"): the version before the last increase is that of a binary        *)
(* package which lacks something.                                           *)
BrokenIsRebuilt ==
    ~Running /\ RegularVersions =>
        /\ \A b \in AllBlocks :
              /\ b.origin \in DOMAIN aports \ ret
              /\ ~Hidden(b)
              /\ \E d \in b.depends : IsLibrary(d) /\ Offers(d) = {}
              => Meaning(VersionOf(b.origin), b.version) # 0
        /\ \A a \in DOMAIN aports :
              aports[a].rel > scenario.aports[a].rel =>
                  \E b \in AllBlocks :
                      /\ a \in Find(b.origin) /\ \E d \in b.depends : Offers(d) = {}
                      /\ Meaning([aports[a].ver EXCEPT !.rev = aports[a].rel - 1], b.version) = 0

(* version.py:246-248: "the non-terminating version is greater unless it's  *)
(* a suffix indicating pre-release".                                        *)
PreReleaseIsLower ==
    \A a, b \in AllBlocks :
        PreReleaseOf(a.version, b.version) /\ b.version.suffixes = <<>> =>
            Compare(Symbols(a.version), Symbols(b.version)) = -1

=============================================================================
