--------------------------- MODULE MCTestProvider ---------------------------
(***************************************************************************)
(* TestProvider with one host and its two assertions, of which the second  *)
(* outlives the first; device requests with and without one; enrolments of *)
(* the host's key and of another key, both under the host's name.          *)
(***************************************************************************)
EXTENDS TestProvider, TLC

CONSTANTS n1, acc1, c1, c2

First == [iss |-> 1, key |-> 1, iat |-> 0, exp |-> 1, jti |-> 1, sound |-> TRUE]
Second == [First EXCEPT !.iat = 1, !.exp = 2, !.jti = 2]
MCAssertions == {First, Second}

MCDeviceRequests ==
    {[client |-> c1, intent |-> "login", account |-> acc1, tok |-> First],
     [client |-> c1, intent |-> "enroll", account |-> None, tok |-> None],
     [client |-> c2, intent |-> "login", account |-> acc1, tok |-> None]}

MCKeysRequests == {[tok |-> a, account |-> acc1] : a \in MCAssertions}

MCEnrollRequests == {[key |-> k, name |-> n1, accounts |-> {acc1}] : k \in KeyPairs}

Interchangeable == Permutations(Requests)
=============================================================================
