------------------------------ MODULE KeyCache ------------------------------
(***************************************************************************)
(* The last-known-good store of internal/keycache: one file per (account,  *)
(* fingerprint) pair, written through a temporary file and renamed into    *)
(* place.  Every login runs its own process, so the steps of Put and Get   *)
(* interleave on the same directory; each action below is one system call  *)
(* that another process can observe.                                       *)
(*                                                                         *)
(* A file is a sequence of blocks: block 0 is the header with the time of  *)
(* the write, block n > 0 the n-th key line.  A block remembers the answer *)
(* it was written from, which is what the properties are about.  Lines are *)
(* taken to be of equal length, so that a write over longer content leaves *)
(* whole lines of it behind.                                               *)
(***************************************************************************)
EXTENDS Integers, Sequences

CONSTANTS
    Procs,     \* authorized-keys processes that may run side by side
    Queries,   \* the (account, fingerprint) pairs sshd asks about
    Paths,     \* the files below cache_dir
    PathOf,    \* Cache.path: the file of a query, NoPath if the cache refuses it
    NoPath,
    NoFile,    \* what a name that does not exist holds
    Lines,     \* key lines
    Answers,   \* the lists of key lines the provider may answer with
    TTL,       \* cache_ttl, in clock ticks; 0 disables the cache
    Second,    \* clock ticks per second, the resolution of the header
    MaxClock   \* bound on the wall clock

VARIABLES
    clock,     \* wall clock
    entry,     \* entry[k]: content of <path>, or NoFile
    tmp,       \* tmp[k]: content of <path>.tmp, or NoFile
    fd         \* fd[p]: where the file p has open for writing is linked now

cacheVars == <<clock, entry, tmp, fd>>

\* What Put is given, with the time it stamps on it.
Stored == [query : Queries, lines : Answers \ {<<>>}, at : 0..MaxClock]
Block == [of : Stored, n : Nat]
Content == Seq(Block)

ASSUME KeyCacheAssumption ==
    /\ PathOf \in [Queries -> Paths \cup {NoPath}]
    /\ NoPath \notin Paths
    /\ NoFile \notin Content /\ NoFile \notin Stored
    /\ Answers \subseteq Seq(Lines)
    /\ TTL \in Nat
    /\ Second \in Nat \ {0}
    /\ MaxClock \in Nat

CacheTypeOK ==
    /\ clock \in 0..MaxClock
    /\ entry \in [Paths -> Content \cup {NoFile}]
    /\ tmp \in [Paths -> Content \cup {NoFile}]
    /\ fd \in [Procs -> {"closed", "tmp", "entry", "unlinked"}]

CacheInit ==
    /\ clock = 0
    /\ entry = [k \in Paths |-> NoFile]
    /\ tmp = [k \in Paths |-> NoFile]
    /\ fd = [p \in Procs |-> "closed"]

-----------------------------------------------------------------------------
(* The file format *)

\* enabled, and the account acceptable as a directory name.
Cacheable(q) == TTL > 0 /\ PathOf[q] # NoPath

\* The header time: RFC 3339 keeps whole seconds.
Stamp(t) == t - (t % Second)

\* The bytes Put prepares for an answer: the header, then its lines.
File(a) == [i \in 1..(Len(a.lines) + 1) |-> [of |-> a, n |-> i - 1]]

\* write(2) from offset 0: what lies beyond the new bytes stays.
Overwrite(old, new) == new \o SubSeq(old, Len(new) + 1, Len(old))

\* parse: an error for an empty file, a missing header or no lines.
WellFormed(c) == Len(c) > 1 /\ c[1].n = 0

\* parse: the lines of a well-formed file, whoever wrote them.
LinesOf(c) == [i \in 1..(Len(c) - 1) |-> c[i + 1].of.lines[c[i + 1].n]]

\* Get: the age of a well-formed file by its header.
Age(c) == clock - Stamp(c[1].of.at)

\* Faults: no upper or no lower bound on the age.
Young_NoTTL(c) == WellFormed(c) /\ Age(c) >= 0
Young_Ahead(c) == WellFormed(c) /\ Age(c) <= TTL

Young(c) == WellFormed(c) /\ Age(c) >= 0 /\ Age(c) <= TTL

-----------------------------------------------------------------------------
(* System calls.  A file that loses its name stays open: its writers go on *)
(* writing where nobody can see it.                                        *)

\* The open files of the processes in W once the name `from` is gone.
Moved(W, from, to) ==
    [p \in Procs |-> IF p \in W /\ fd[p] = from THEN to ELSE fd[p]]

\* Fault: the entry itself is truncated and rewritten.
OpenTmp_InPlace(p, k) ==
    /\ entry' = [entry EXCEPT ![k] = <<>>]
    /\ fd' = [fd EXCEPT ![p] = "entry"]
    /\ UNCHANGED <<clock, tmp>>

\* OpenFile(tmp, O_CREATE|O_TRUNC): the same file for everyone who opens it.
OpenTmp(p, k) ==
    /\ tmp' = [tmp EXCEPT ![k] = <<>>]
    /\ fd' = [fd EXCEPT ![p] = "tmp"]
    /\ UNCHANGED <<clock, entry>>

\* f.Write(data), f.Sync, f.Close.
WriteFile(p, k, bytes) ==
    /\ tmp' = IF fd[p] = "tmp"
              THEN [tmp EXCEPT ![k] = Overwrite(@, bytes)] ELSE tmp
    /\ entry' = IF fd[p] = "entry"
                THEN [entry EXCEPT ![k] = Overwrite(@, bytes)] ELSE entry
    /\ fd' = [fd EXCEPT ![p] = "closed"]
    /\ UNCHANGED clock

\* os.Rename(tmp, path): whatever is called tmp now becomes the entry.
RenameTmp(k, W) ==
    /\ tmp[k] # NoFile
    /\ entry' = [entry EXCEPT ![k] = tmp[k]]
    /\ tmp' = [tmp EXCEPT ![k] = NoFile]
    /\ fd' = [p \in Procs |->
                 IF p \in W /\ fd[p] = "tmp" THEN "entry"
                 ELSE IF p \in W /\ fd[p] = "entry" THEN "unlinked"
                 ELSE fd[p]]
    /\ UNCHANGED clock

\* Fault: the error path removes the entry instead.
RemoveTmp_WrongName(p, k, W) ==
    /\ entry' = [entry EXCEPT ![k] = NoFile]
    /\ fd' = [Moved(W, "entry", "unlinked") EXCEPT ![p] = "closed"]
    /\ UNCHANGED <<clock, tmp>>

\* os.Remove(tmp) on an error path of writeAtomic by p, which has closed its file.
RemoveTmp(p, k, W) ==
    /\ tmp' = [tmp EXCEPT ![k] = NoFile]
    /\ fd' = [Moved(W, "tmp", "unlinked") EXCEPT ![p] = "closed"]
    /\ UNCHANGED <<clock, entry>>

\* os.Remove(path) in Get.
RemoveEntry(k, W) ==
    /\ entry' = [entry EXCEPT ![k] = NoFile]
    /\ fd' = Moved(W, "entry", "unlinked")
    /\ UNCHANGED <<clock, tmp>>

-----------------------------------------------------------------------------
(* The wall clock *)

Tick ==
    /\ clock < MaxClock
    /\ clock' = clock + 1
    /\ UNCHANGED <<entry, tmp, fd>>

\* The administrator or the time daemon sets the clock back.
StepBack ==
    /\ \E t \in 0..MaxClock : t < clock /\ clock' = t
    /\ UNCHANGED <<entry, tmp, fd>>
=============================================================================
