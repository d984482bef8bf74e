------------------------------ MODULE MCEnroll ------------------------------
(***************************************************************************)
(* Small instances of Enroll: three providers, one that advertises its     *)
(* base, one that serves the default one, and one whose base has to be     *)
(* given by hand; command lines that keep, change or contradict what is    *)
(* configured.                                                             *)
(***************************************************************************)
EXTENDS Enroll, TLC

MCAdvertised == [i \in Issuers |-> IF i = "i1" THEN "b1" ELSE None]

\* Below the first and the third issuer another provider answers.
MCDefaultBase == [i \in Issuers |-> "b2"]

MCHomeBase == [i \in Issuers |-> CASE i = "i1" -> "b1" [] i = "i2" -> "b2" [] i = "i3" -> "b3"]

MCOptions ==
    {[issuer |-> None, base |-> None, name |-> "n1"],
     [issuer |-> "i2", base |-> None, name |-> "n2"],
     [issuer |-> "i3", base |-> "b3", name |-> "n1"]}

MCOneOption == {[issuer |-> None, base |-> None, name |-> "n1"]}

Symmetry == Permutations(Logins)
=============================================================================
