------------------------------- MODULE MCAccounts -------------------------------
(* A small instance of Accounts for TLC. *)
EXTENDS Accounts, TLC

CONSTANTS m1, m2, s1, s2, s3, b1, b2

TwoMachines == {m1, m2}
ThreeSlugs == {s1, s2, s3}
TwoBrowsers == {b1, b2}
TwoAlike == Permutations(TwoBrowsers)

FourScenes ==
    {<<"hosts", {"cut"}>>, <<"hosts", {"torn"}>>, <<"hosts", {"email"}>>, <<"account", {"torn"}>>}

TheHost == [slug |-> s1, machine |-> m1]
===============================================================================
