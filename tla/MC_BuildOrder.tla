--------------------------- MODULE MC_BuildOrder ---------------------------
(* Three ordinary packages and the build package "git", with every graph   *)
(* of at most two dependencies per package among the three, examined in    *)
(* both orders.                                                            *)
EXTENDS BuildOrder

Plain == {"a", "b", "c"}

MCItems == Plain \cup {"git"}

MCBuildPackages == <<"abuild", "git">>

(* The names of the three are interchangeable: their relative order can be *)
(* fixed, and only the place of "git" varies.                              *)
MCOrders == {<<"git", "a", "b", "c">>, <<"a", "git", "b", "c">>}

Pairs == {<<d, e>> : d, e \in Plain} \ {<<d, d>> : d \in Plain}

MCDependLists ==
    [i \in MCItems |->
        IF i = "git" THEN {<<>>, <<"a">>}
        ELSE {<<>>, <<"git">>, <<"elsewhere">>}
             \cup {<<d>> : d \in Plain}
             \cup Pairs
             \cup {<<CHOOSE d \in Plain \ {i} : TRUE, "notfound">>}]
=============================================================================
