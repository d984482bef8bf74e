--------------------------- MODULE LastKnownGood ----------------------------
(***************************************************************************)
(* What the cache promises its callers (cache.go's package comment and     *)
(* PROVIDER-CONTRACT 4.3), without files: for each query at most one whole *)
(* answer is known; a later answer replaces it in one step; it is dropped  *)
(* only when it is too old; a login is served what the provider said, or   *)
(* what is known while it is young enough, or nothing.                     *)
(***************************************************************************)
EXTENDS Integers, Sequences

CONSTANTS Procs, Queries, Paths, PathOf, Stored, Nothing, TTL, MaxClock,
          Stamp(_)

VARIABLES
    now,     \* wall clock
    asked,   \* asked[p]: the query of login p
    known,   \* known[k]: the remembered answer, or Nothing
    served   \* served[p]: what login p was given, and on whose word

vars == <<now, asked, known, served>>

\* Still within cache_ttl, by the time of its writing.
Recent(a) == now - Stamp(a.at) \in 0..TTL

Nobody == [by |-> "nobody", lines |-> <<>>]

Init ==
    /\ now = 0
    /\ asked \in [Procs -> Queries]
    /\ known = [k \in Paths |-> Nothing]
    /\ served = [p \in Procs |-> Nobody]

Ask(p) ==
    /\ \E q \in Queries : asked' = [asked EXCEPT ![p] = q]
    /\ UNCHANGED <<now, known, served>>

\* A login is given the provider's answer a, which may be remembered: then
\* whole, in one step and in the place of any earlier one.
ServeAnswer(p) ==
    /\ \E a \in Stored :
          /\ a.query = asked[p] /\ a.at <= now
          /\ served' = [served EXCEPT ![p] = [by |-> "provider", lines |-> a.lines]]
          /\ \/ UNCHANGED known
             \/ /\ PathOf[a.query] \in Paths
                /\ known' = [known EXCEPT ![PathOf[a.query]] = a]
    /\ UNCHANGED <<now, asked>>

\* A login is given what is known of its query, all of it.
ServeKnown(p) ==
    /\ PathOf[asked[p]] \in Paths
    /\ LET a == known[PathOf[asked[p]]] IN
          /\ a # Nothing /\ Recent(a)
          /\ served' = [served EXCEPT ![p] = [by |-> "memory", lines |-> a.lines]]
    /\ UNCHANGED <<now, asked, known>>

\* An answer that can no longer be served is forgotten.
Forget(k) ==
    /\ known[k] # Nothing /\ ~Recent(known[k])
    /\ known' = [known EXCEPT ![k] = Nothing]
    /\ UNCHANGED <<now, asked, served>>

Tick ==
    /\ now < MaxClock
    /\ now' = now + 1
    /\ UNCHANGED <<asked, known, served>>

Next ==
    \/ Tick
    \/ \E k \in Paths : Forget(k)
    \/ \E p \in Procs : Ask(p) \/ ServeAnswer(p) \/ ServeKnown(p)

Spec == Init /\ [][Next]_vars
=============================================================================
