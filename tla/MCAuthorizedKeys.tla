-------------------------- MODULE MCAuthorizedKeys --------------------------
(***************************************************************************)
(* Small instances of AuthorizedKeys.  Two cache files (the query for all  *)
(* keys of an account and one for a fingerprint) and an account that       *)
(* validAccount rejects or that the cache refuses as a directory name.     *)
(***************************************************************************)
EXTENDS AuthorizedKeys, TLC

MCPathOf == [q \in Queries |-> CASE q = "all" -> "f_all"
                                 [] q = "one" -> "f_one"
                                 [] OTHER -> NoPath]

MCAnswers == {<<>>, <<"k1">>, <<"k1", "k2">>}

MCGrants == {<<"k1", "k2">>}

\* Processes are interchangeable.
Symmetry == Permutations(Procs)
=============================================================================
