----------------------------- MODULE MC_Chroots -----------------------------
EXTENDS Chroots

CONSTANTS native, buildroot, rootfs, edge, stable, none

(* A native package, one for crossdirect that uses Rust, and one for       *)
(* cross-native2; and all lists of up to two of them.                      *)
Package(cross) == [cross |-> cross, depends |-> TRUE, rust |-> cross = "crossdirect"]

MCBuilds == {Package("unnecessary"), Package("crossdirect"), Package("cross-native2")}
MCQueues == {<<p>> : p \in MCBuilds} \cup MCBuilds \X MCBuilds
=============================================================================
