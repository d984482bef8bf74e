--------------------------- MODULE AuthorizedKeys ---------------------------
(***************************************************************************)
(* `oidc-ssh authorized-keys` (internal/sshcmd/authorized_keys.go), the    *)
(* AuthorizedKeysCommand of sshd, over the cache of KeyCache.  sshd starts *)
(* one process per public-key attempt, which answers one query and exits;  *)
(* several run at the same time, any may be killed at any step, and all of *)
(* them share cache_dir.                                                   *)
(***************************************************************************)
EXTENDS KeyCache

CONSTANTS
    Plausible,       \* the queries whose account passes validAccount
    Statuses,        \* HTTP statuses other than 200; 0 stands for no answer at all
    Concurrent,      \* whether logins overlap, or each waits for the one before
    ClockStepsBack   \* whether the wall clock may be set back

ASSUME AuthorizedKeysAssumption ==
    /\ Plausible \subseteq Queries
    /\ Queries # {}
    /\ Statuses \subseteq Nat
    /\ Concurrent \in BOOLEAN
    /\ ClockStepsBack \in BOOLEAN

VARIABLES
    pc,       \* where each process is
    job,      \* the query it was started for
    reply,    \* the provider's answer it is serving and caching
    out       \* what it printed and the audit line it wrote

vars == <<clock, entry, tmp, fd, pc, job, reply, out>>
procVars == <<pc, job, reply, out>>

-----------------------------------------------------------------------------
(* State *)

Running == {"fetch", "open", "write", "rename", "undo", "get", "drop"}
Steps == Running \cup {"idle", "done"}

\* The classes of failure of provider/client.go.
ErrUnavailable == "ErrUnavailable"
Refusals == {"ErrUnauthorized", "ErrForbidden"}
Errors == Refusals \cup
          {"ErrConflict", "ErrRateLimited", "ErrBadResponse", ErrUnavailable}

\* sentinelFor, and transportError for a request that got no answer.
sentinelFor(status) ==
    CASE status = 401 -> "ErrUnauthorized"
      [] status = 403 -> "ErrForbidden"
      [] status = 409 -> "ErrConflict"
      [] status = 429 -> "ErrRateLimited"
      [] status = 0 \/ status >= 500 -> ErrUnavailable
      [] OTHER -> "ErrBadResponse"

Results == {"none", "ok", "empty", "denied", "cache", "error"}

\* err is the class of the failure, "" for none and "local" for one of this
\* host; read is the cache file a cached answer was parsed from; at dates the
\* outcomes the properties compare.
Outcome == [result : Results, lines : Seq(Lines), err : Errors \cup {"", "local"},
            read : Content, at : 0..MaxClock]

Report(result, lines, err, read) ==
    [result |-> result, lines |-> lines, err |-> err, read |-> read,
     at |-> IF result \in {"cache", "empty"} THEN clock ELSE 0]

NoOutcome == [result |-> "none", lines |-> <<>>, err |-> "", read |-> <<>>, at |-> 0]

NoReply == [query |-> CHOOSE q \in Queries : TRUE, lines |-> <<>>, at |-> 0]

TypeOK ==
    /\ CacheTypeOK
    /\ pc \in [Procs -> Steps]
    /\ job \in [Procs -> Queries]
    /\ reply \in [Procs -> Stored \cup {NoReply}]
    /\ out \in [Procs -> Outcome]

Init ==
    /\ CacheInit
    /\ pc = [p \in Procs |-> "idle"]
    /\ job = [p \in Procs |-> CHOOSE q \in Queries : TRUE]
    /\ reply = [p \in Procs |-> NoReply]
    /\ out = [p \in Procs |-> NoOutcome]

-----------------------------------------------------------------------------
(* fetchKeys: up to the provider's answer *)

Goto(p, from, to) == pc[p] = from /\ pc' = [pc EXCEPT ![p] = to]

\* fetchKeys returns: the lines go to sshd, the outcome to syslog.
Finish(p, outcome) ==
    /\ pc' = [pc EXCEPT ![p] = "done"]
    /\ out' = [out EXCEPT ![p] = outcome]

Deny(result, err) == Report(result, <<>>, err, <<>>)

\* Fault: one name for every entry of the directory.
Target_Shared(p) == CHOOSE k \in Paths : TRUE

\* Cache.path for the query of p, and the processes at work on file k.
Target(p) == PathOf[job[p]]
On(k) == {p \in Procs : Target(p) = k}

\* sshd runs the command for q: validAccount first.
Begin(p, q) ==
    /\ pc[p] = "idle"
    /\ Concurrent \/ \A r \in Procs : pc[r] \notin Running
    /\ job' = [job EXCEPT ![p] = q]
    /\ IF q \in Plausible
       THEN Goto(p, "idle", "fetch") /\ out' = out
       ELSE Finish(p, Deny("error", "local"))
    /\ UNCHANGED <<cacheVars, reply>>

\* No usable configuration, no host_id, no client, no host key, no assertion.
LocalFailure(p) ==
    /\ pc[p] = "fetch"
    /\ Finish(p, Deny("error", "local"))
    /\ UNCHANGED <<cacheVars, job, reply>>

\* Fault: Put is handed the empty answer too.
ReceiveKeys_CachesEmpty(p, ls) ==
    /\ Goto(p, "fetch", "open")
    /\ Cacheable(job[p])
    /\ reply' = [reply EXCEPT ![p] = [query |-> job[p], lines |-> ls, at |-> clock]]
    /\ UNCHANGED <<cacheVars, job, out>>

\* The provider allows ls.  Put stamps the answer if the cache takes it.
ReceiveKeys(p, ls) ==
    /\ pc[p] = "fetch"
    /\ ls # <<>>
    /\ reply' = [reply EXCEPT ![p] = [query |-> job[p], lines |-> ls, at |-> clock]]
    /\ IF Cacheable(job[p])
       THEN Goto(p, "fetch", "open") /\ out' = out
       ELSE Finish(p, Report("ok", ls, "", <<>>))
    /\ UNCHANGED <<cacheVars, job>>

\* The provider allows nobody: served as such, not cached.
ReceiveNone(p) ==
    /\ pc[p] = "fetch"
    /\ <<>> \in Answers
    /\ Finish(p, Deny("empty", ""))
    /\ UNCHANGED <<cacheVars, job, reply>>

\* Fault: every failed query consults the cache.
ReceiveError_AnyOpensCache(p, status) ==
    /\ Goto(p, "fetch", "get")
    /\ out' = [out EXCEPT ![p].err = sentinelFor(status)]
    /\ UNCHANGED <<cacheVars, job, reply>>

\* The query failed: keysAfterError.
ReceiveError(p, status) ==
    LET err == sentinelFor(status) IN
    /\ pc[p] = "fetch"
    /\ CASE err \in Refusals -> Finish(p, Deny("denied", err))
         [] err \notin Refusals \cup {ErrUnavailable} -> Finish(p, Deny("error", err))
         [] OTHER -> /\ Goto(p, "fetch", "get")
                     /\ out' = [out EXCEPT ![p].err = err]
    /\ UNCHANGED <<cacheVars, job, reply>>

-----------------------------------------------------------------------------
(* Cache.Put: the answer is served whether or not it could be remembered *)

Answered(p) == Report("ok", reply[p].lines, "", <<>>)

PutOpen(p) ==
    /\ Goto(p, "open", "write")
    /\ OpenTmp(p, Target(p))
    /\ UNCHANGED <<job, reply, out>>

\* MkdirAll or OpenFile fails; no file of ours to clean up.
PutOpenFails(p) ==
    /\ pc[p] = "open"
    /\ Finish(p, Answered(p))
    /\ UNCHANGED <<cacheVars, job, reply>>

PutWrite(p) ==
    /\ Goto(p, "write", "rename")
    /\ WriteFile(p, Target(p), File(reply[p]))
    /\ UNCHANGED <<job, reply, out>>

\* Fault: the error of a short write is lost and the rename goes ahead.
PutWriteFails_Ignored(p) ==
    /\ Goto(p, "write", "rename")
    /\ \E n \in 1..Len(File(reply[p])) :
          WriteFile(p, Target(p), SubSeq(File(reply[p]), 1, n))
    /\ UNCHANGED <<job, reply, out>>

\* Chmod, Write, Sync or Close fails with n blocks on disk.
PutWriteFails(p) ==
    /\ Goto(p, "write", "undo")
    /\ \E n \in 0..Len(File(reply[p])) :
          WriteFile(p, Target(p), SubSeq(File(reply[p]), 1, n))
    /\ UNCHANGED <<job, reply, out>>

PutRename(p) ==
    /\ pc[p] = "rename"
    /\ RenameTmp(Target(p), On(Target(p)))
    /\ Finish(p, Answered(p))
    /\ UNCHANGED <<job, reply>>

\* The name is gone, or rename fails.
PutRenameFails(p) ==
    /\ Goto(p, "rename", "undo")
    /\ UNCHANGED <<cacheVars, job, reply, out>>

\* os.Remove(tmp) on the error paths.
PutUndo(p) ==
    /\ pc[p] = "undo"
    /\ RemoveTmp(p, Target(p), On(Target(p)))
    /\ Finish(p, Answered(p))
    /\ UNCHANGED <<job, reply>>

-----------------------------------------------------------------------------
(* Cache.Get, after an outage *)

Found(p) == Cacheable(job[p]) /\ entry[Target(p)] # NoFile

GetMiss(p) ==
    /\ pc[p] = "get"
    /\ ~Found(p)
    /\ Finish(p, Deny("error", out[p].err))
    /\ UNCHANGED <<cacheVars, job, reply>>

GetHit(p) ==
    LET c == entry[Target(p)] IN
    /\ pc[p] = "get"
    /\ Found(p)
    /\ Young(c)
    /\ Finish(p, Report("cache", LinesOf(c), out[p].err, c))
    /\ UNCHANGED <<cacheVars, job, reply>>

\* Malformed, expired, or from a clock ahead of ours.
GetStale(p) ==
    /\ Goto(p, "get", "drop")
    /\ Found(p)
    /\ ~Young(entry[Target(p)])
    /\ UNCHANGED <<cacheVars, job, reply, out>>

\* The removal names the path, not the file that was judged.
GetRemove(p) ==
    /\ pc[p] = "drop"
    /\ RemoveEntry(Target(p), On(Target(p)))
    /\ Finish(p, Deny("error", out[p].err))
    /\ UNCHANGED <<job, reply>>

-----------------------------------------------------------------------------
(* What can happen to a process at any step *)

\* fetchKeys recovers from a panic below it: no lines.
Panic(p) ==
    /\ pc[p] \in Running
    /\ Finish(p, Deny("error", "local"))
    /\ fd' = [fd EXCEPT ![p] = "closed"]
    /\ UNCHANGED <<clock, entry, tmp, job, reply>>

\* sshd gives up on the login, or the host goes down.
Crash(p) ==
    /\ pc[p] \in Running
    /\ pc' = [pc EXCEPT ![p] = "done"]
    /\ fd' = [fd EXCEPT ![p] = "closed"]
    /\ reply' = [reply EXCEPT ![p] = NoReply]
    /\ UNCHANGED <<clock, entry, tmp, job, out>>

Time ==
    /\ Tick \/ (ClockStepsBack /\ StepBack)
    /\ UNCHANGED procVars

Put(p) ==
    \/ PutOpen(p) \/ PutOpenFails(p)
    \/ PutWrite(p) \/ PutWriteFails(p)
    \/ PutRename(p) \/ PutRenameFails(p) \/ PutUndo(p)

Get(p) == GetMiss(p) \/ GetHit(p) \/ GetStale(p) \/ GetRemove(p)

Fetch(p) ==
    \/ LocalFailure(p)
    \/ ReceiveNone(p)
    \/ \E ls \in Answers : ReceiveKeys(p, ls)
    \/ \E s \in Statuses : ReceiveError(p, s)

Next ==
    \/ \E p \in Procs :
          \/ \E q \in Queries : Begin(p, q)
          \/ Fetch(p) \/ Put(p) \/ Get(p)
          \/ Panic(p) \/ Crash(p)
    \/ Time

Spec == Init /\ [][Next]_vars

-----------------------------------------------------------------------------
(* Properties *)

\* fetchKeys fails closed.  Lines reach sshd in two cases only: they are the
\* answer the provider gave to this very query, even if Put could not keep it;
\* or the provider could not answer at all and they come from the cache.  No
\* refusal, rate limit, malformed answer, local error or panic prints a line.
ServesDecisionOrOutage ==
    \A p \in Procs : pc[p] = "done" /\ out[p].lines # <<>> =>
        \/ out[p].result = "ok" /\ out[p].lines = reply[p].lines
        \/ out[p].result = "cache" /\ out[p].err = ErrUnavailable

\* No key line is served from the cache later than TTL after the Put that was
\* given it, nor a second or more before it (a clock set back), although the
\* header keeps whole seconds only (README.md:223, cache.go:8).
ServedIsYoung ==
    \A p \in Procs : out[p].result = "cache" =>
        \A i \in 1..Len(out[p].read) :
            out[p].at - out[p].read[i].of.at \in (1 - Second)..TTL

\* Get goes by the header: whoever wrote the lines below it, the answer whose
\* header a served file carries was put at most TTL ago and less than a second
\* ahead, with overlapping writers and a clock that is set back
\* (cache.go:129-136).
HeaderIsYoung ==
    \A p \in Procs : out[p].result = "cache" =>
        out[p].at - out[p].read[1].of.at \in (1 - Second)..TTL

\* Whatever the interleaving of writers that share one temporary file, every
\* line served from the cache is a line the provider once allowed for the same
\* cache file: no process writes into the file of another account or key.
ServedStaysInItsFile ==
    \A p \in Procs : out[p].result = "cache" =>
        \A i \in 1..Len(out[p].read) :
            LET b == out[p].read[i] IN
            /\ PathOf[b.of.query] = PathOf[job[p]]
            /\ b.n \in 0..Len(b.of.lines)

\* An open file that still has a name is the file that name holds: fd, tmp
\* and entry agree, so a write never goes to a name that does not exist.
OpenFilesLinked ==
    \A p \in Procs :
        /\ fd[p] # "closed" => pc[p] = "write"
        /\ fd[p] = "tmp" => tmp[Target(p)] # NoFile
        /\ fd[p] = "entry" => entry[Target(p)] # NoFile

\* cache.go:81-82, 228-231: the entry is one complete answer, never a truncated
\* or mixed file, also when a writer dies at any step.
EntryIsWhole ==
    \A k \in Paths : entry[k] # NoFile =>
        entry[k] # <<>> /\ entry[k] = File(entry[k][1].of)

\* Get removes an entry only when it may no longer be served: a young one is
\* replaced by a younger answer or stays.
YoungEntrySurvives ==
    [][\A k \in Paths :
          entry[k] # NoFile /\ Young(entry[k]) => entry'[k] # NoFile]_vars

\* The files and outcomes as the promise of LastKnownGood sees them.
Served(o) ==
    [by |-> CASE o.result = "ok" -> "provider" [] o.result = "cache" -> "memory"
              [] OTHER -> "nobody",
     lines |-> o.lines]

LKG == INSTANCE LastKnownGood WITH
    Nothing <- NoFile,
    now <- clock,
    asked <- job,
    known <- [k \in Paths |-> IF entry[k] = NoFile THEN NoFile ELSE entry[k][1].of],
    served <- [p \in Procs |-> Served(out[p])]

\* The steps of Put and Get implement the promise: with logins one after the
\* other, a write that fails or dies at any step is either not there at all or
\* there as a whole, and what is served is an answer or a recent known one.
ImplementsLastKnownGood == LKG!Spec

\* README.md:372-374: an empty answer is authoritative, so that removing
\* somebody's access takes effect even while the provider is unavailable: once
\* this host was told "nobody" about a query, no later login is served an
\* older answer to it from the cache.
DenialOutlivesOutage ==
    \A p, r \in Procs :
        /\ out[p].result = "empty"
        /\ out[r].result = "cache"
        /\ job[p] = job[r]
        /\ out[p].at < out[r].at
        => out[p].at <= out[r].read[1].of.at
=============================================================================
