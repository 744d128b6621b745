------------------------------ MODULE MC_Lookup ------------------------------
(* Every pair of versions in one index or in two, with a second package     *)
(* that provides the same name; and small sets of packages that lack a      *)
(* library, for auto().                                                     *)
EXTENDS Lookup

Lib   == <<"lib">>
Alt   == <<"lib", "alt">>
Libs  == <<"foo", "libs">>
Foo   == <<"foo">>
Bar   == <<"bar">>
So(x) == <<"so", x>>

MCNameLength(n) == FoldLeft(LAMBDA len, w : len + Len(w) + 1, -1, n)

V(nums, suffixes, rev) == [nums |-> nums, letter |-> 0, suffixes |-> suffixes, rev |-> rev]
Nums     == {<<1>>, <<1, 0>>, <<1, 2>>, <<1, 10>>, <<1, 0, 1>>}
SuffixLists == {<<>>, << <<"rc", 2>> >>, << <<"rc", -1>> >>, << <<"p", 1>> >>, << <<"p", -1>> >>}
Versions1 == {V(n, s, 0) : n \in {<<1>>, <<1, 0>>}, s \in SuffixLists}
                \cup {V(n, <<>>, r) : n \in Nums, r \in {0, 2}}
                \cup {[V(n, <<>>, 0) EXCEPT !.letter = 1] : n \in {<<1>>, <<1, 2>>}}
                \cup {V(<<1, 0>>, s, -1) : s \in {<<>>, << <<"rc", 2>> >>}}

Block(name, version, provides, depends, prio, origin) ==
    [pkgname |-> name, version |-> version, provides |-> provides, depends |-> depends,
     prio |-> prio, origin |-> origin, virtual |-> FALSE]

Aport(version, subpackages) ==
    [ver |-> [version EXCEPT !.rev = -1], rel |-> IF version.rev = -1 THEN 0 ELSE version.rev, arches |-> {"arm"},
     subpackages |-> subpackages, provides |-> {}, depends |-> {}]

One(v)  == V(<<1>>, <<>>, v)

HighAlt    == Block(Alt, V(<<1, 2>>, <<>>, 0), {Lib}, {}, 5, Lib)
VirtualAlt == [Block(Alt, One(0), {So("a"), Lib}, {}, 0, Lib) EXCEPT !.virtual = TRUE]

Queries ==
    UNION {{[indexes |-> indexes, aports |-> Lib :> Aport(V(<<1, 2>>, << <<"rc", 2>> >>, 0), {})] :
               indexes \in {<< <<x>>, <<HighAlt, y>> >>, << <<x, HighAlt, y>> >>, << <<x, VirtualAlt, y>> >>}} :
           x \in {Block(Lib, v, {}, {}, -1, Lib) : v \in Versions1},
           y \in {Block(Lib, v, {So("a")}, {}, -1, Lib) : v \in Versions1}}

Broken ==
    { Block(Foo, One(0), {}, {}, -1, Foo), Block(Libs, One(0), {So("a")}, {So("c")}, -1, Foo),
      Block(Bar, One(0), {So("b")}, {So("a"), Foo}, -1, Bar), Block(Libs, One(1), {Bar}, {So("b")}, -1, Foo),
      Block(Lib, One(1), {So("c")}, {Libs, <<"gone">>}, -1, Lib) }

BrokenIndexes == {SetToSeq(i) : i \in SUBSET Broken}

Bumps ==
    {[indexes |-> ij,
      aports  |-> Foo :> Aport(One(r), {Libs}) @@ Bar :> Aport(One(0), {}) @@ Lib :> Aport(One(1), {})] :
         ij \in {ij \in BrokenIndexes \X BrokenIndexes : Len(ij[2]) <= 2 /\ Len(ij[1]) + Len(ij[2]) <= 4},
         r \in 0..1}

Dep(op, version, name) == [name |-> name, constraint |-> [op |-> op, version |-> version]]
Needs(aport, depends) == [aport EXCEPT !.depends = depends]
Needed == {Dependency(Libs), Dependency(Alt), Dependency(So("a")), Dep(">=", One(-1), Bar),
           Dep("<", One(-1), Bar), Dependency(Bar), Dependency(Foo)}
Small(S) == {s \in SUBSET S : Cardinality(s) <= 2}

DependingIndexes ==
    {SetToSeq(i) : i \in SUBSET {Block(Libs, One(0), {So("a")}, {Alt}, -1, Foo),
                                 Block(Alt, One(0), {So("a")}, {So("b")}, 5, Lib),
                                 Block(Lib, One(0), {Alt}, {Foo}, -1, Lib)}}

(* Aports that need each other and what is only in the indexes. *)
Depending ==
    {[indexes |-> << i, <<Block(Bar, V(<<0, 9>>, <<>>, 0), {So("b")}, {So("a")}, -1, Bar)>> >>,
      aports  |-> Foo :> Needs(Aport(One(0), {Libs}), f) @@ Bar :> Needs(Aport(One(1), {}), b)
                     @@ <<"abuild">> :> [Aport(One(0), {}) EXCEPT !.arches = {"arm"}]] :
         i \in DependingIndexes,
         f \in Small(Needed), b \in {{d} : d \in Needed \cup {Dependency(Lib)}}}

Irregular ==
    {[indexes |-> << <<Block(Lib, V(n, s, r), {}, {}, -1, Lib)>>, <<Block(Lib, V(n, <<>>, r), {}, {}, -1, Lib)>> >>,
      aports  |-> Lib :> Aport(One(0), {})] :
         n \in Nums, r \in -1..2, s \in {<< <<"rc", x>> >> : x \in -1..5}}

MCScenarios == Depending \cup Queries \cup Bumps \cup Irregular
MCArchWords == {"arm"}
==============================================================================
