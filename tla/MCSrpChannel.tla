---------------------------- MODULE MCSrpChannel ----------------------------
(***************************************************************************)
(* Small instances of SrpChannel.                                          *)
(***************************************************************************)
EXTENDS SrpChannel, TLC

\* Every race with as few credits as possible, and none with one more.
MCSettings == {<<RaceKinds, 2>>, <<{}, 3>>}
NoRaceSettings == {<<{}, 2>>}

Symmetric == Permutations(Cmds) \cup Permutations(Tags)
=============================================================================
