------------------------------ MODULE MC_Kconfig ------------------------------
(* A, B which may need A or not exist, and a string option S; rules for all  *)
(* kernels, for one architecture, for newer kernels and for a category.      *)
EXTENDS Kconfig

MCOptions == {"A", "B", "S"}

Two == <<"2">>
Apk(archs, categories, generic, nocheck, pkgver) ==
    [archs |-> archs, categories |-> categories, generic |-> generic, nocheck |-> nocheck,
     defconfig |-> IF generic THEN << <<"own", "none">> >> ELSE <<>>, pkgver |-> pkgver]
One   == Apk({"arm"}, {}, FALSE, FALSE, <<"1">>)
More  == Apk({"arm", "x86"}, {"all"}, TRUE, FALSE, Two)
Waydroid == Apk({"arm", "x86"}, {"waydroid"}, FALSE, TRUE, <<"1">>)
Wrong == Apk({"arm"}, {"gone"}, FALSE, FALSE, Two)
MCFragmentNames == {<<"own", "none">>, <<"pmos", "none">>, <<"generic", "x86">>, <<"own", "txt">>}
MCApkbuilds == {One, More, Waydroid, Wrong}

Str(v)  == [type |-> "string", v |-> v]
List(v) == [type |-> "list", v |-> v]
Bool(v) == [type |-> "bool", v |-> v]
Section(key, versions, archs, options) ==
    [key |-> key, versions |-> versions, archs |-> archs, options |-> options]
Always == << <<">=", <<"0">> >> >>

Rules(a, b, s, x) ==
    [aliases  |-> "all" :> {"default", "waydroid"},
     sections |-> << Section({"default"}, Always, {"all"}, "A" :> a),
                     Section({"default"}, << <<">=", Two>>, <<"<", <<"3">> >> >>, {"arm"}, "B" :> b),
                     Section({"default"}, Always, {"x86"}, "S" :> x),
                     Section({"waydroid"}, Always, {"arm"}, "S" :> s),
                     Section({"default", "waydroid"}, Always, {"x86"}, "S" :> Str(<<"k">>)) >>,
     generic  |-> << Section({"generic"}, << <<">=", Two>> >>, {"all"}, "B" :> b) >>]

MCScenarios ==
    {[apkbuild |-> apk, rules |-> Rules(a, b, s, Str(<<"j">>)), needs |-> [o \in MCOptions |-> IF o = "B" THEN n ELSE o],
      defaults |-> [o \in MCOptions |-> IF o = "S" THEN Quoted(<<"">>) ELSE Line(<<d>>)],
      fragments |-> f] :
       apk \in {One, More}, a \in {Str(<<"y">>), Str(<<"m">>), Bool(<<"True">>)},
       b \in {Str(<<"n">>), Str(<<"y">>)}, s \in {List(<<"k">>), Str(<<"k", "j">>)},
       n \in {"A", "none"}, d \in {"n", "y"},
       f \in {<<"own", "none">> :> ("B" :> Line(<<"y">>)),
             <<"own", "none">> :> <<>> @@ <<"own", "arm">> :> ("S" :> Quoted(<<"j", "k">>))}}
==============================================================================
