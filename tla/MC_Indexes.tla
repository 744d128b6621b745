---------------------------- MODULE MC_Indexes ----------------------------
EXTENDS Indexes

MCPackages == {"hello", "outdated"}
MCMismatched == {"outdated"}
=============================================================================
