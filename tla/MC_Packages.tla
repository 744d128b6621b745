---------------------------- MODULE MC_Packages ----------------------------
(* A package "hello", its library "lib" with the subpackage "lib-dev", the *)
(* build package "git", a name "so:lib" that pmaports' lib provides and    *)
(* the Alpine package "musl" as well, a pmaport "alien" that is not        *)
(* enabled for the architecture and a name that exists nowhere.            *)
EXTENDS Packages

MCPkgs == {"hello", "lib", "git", "alien"}
MCNames == MCPkgs \cup {"lib-dev", "so:lib", "musl", "nowhere"}
MCMainPackage ==
    [n \in MCNames |->
        CASE n \in MCPkgs -> n
          [] n \in {"lib-dev", "so:lib"} -> "lib"
          [] OTHER -> "none"]
MCAlpine == {"musl"}
MCSubstitute == [n \in {"so:lib"} |-> "musl"]
MCUnbuildable == {"alien"}
MCBuildPackages == <<"abuild", "git">>
MCAllNames == MCNames \cup {"abuild"}
MCMain == [n \in MCAllNames |-> IF n = "abuild" THEN "none" ELSE MCMainPackage[n]]

MCDependChoices ==
    [p \in MCPkgs |->
        CASE p = "hello" -> {<<"lib-dev", "so:lib">>, <<"git", "lib">>, <<"alien", "lib-dev">>,
                             <<"nowhere">>}
          [] p = "lib"   -> {<<"git", "musl">>, <<"hello">>, <<"so:lib">>}
          [] p = "git"   -> {<<>>, <<"lib">>}
          [] p = "alien" -> {<<"lib">>}]

MCIndexChoices ==
    [p \in MCPkgs |->
        CASE p = "hello" -> Versions
          [] p = "lib"   -> {"none", "current"}
          [] p = "git"   -> {"old", "current"}
          [] p = "alien" -> {"none", "current"}]

MCRequests == {<<"hello">>, <<"hello", "lib">>, <<"git", "hello">>, <<"lib-dev", "musl">>,
               <<"alien">>, <<"nowhere">>, <<"musl">>}

Mode(options) ==
    [force |-> "force" \in options, strict |-> "strict" \in options,
     src |-> "src" \in options, noDepends |-> "no_depends" \in options]

MCModes == {Mode({}), Mode({"strict"}), Mode({"force"}), Mode({"force", "src"}),
            Mode({"no_depends"})}
=============================================================================
