-------------------------- MODULE SerialKeysProofs --------------------------
(***************************************************************************)
(* What holds besides when logins come one after the other, each free to   *)
(* fail or to die at any step: the entry is always one whole answer, and   *)
(* Put and Get implement the promise of LastKnownGood.                     *)
(***************************************************************************)
EXTENDS AuthorizedKeysProofs

\* The lock that overlapping logins do not have.
OneAtATime ==
    \A p, r \in Procs : pc[p] \in Running /\ pc[r] \in Running => p = r

\* The temporary file is the writer's own: empty after the open, what earlier
\* writers left behind included, and its whole answer before the rename.
WriterOwnsTmp ==
    \A p \in Procs :
        /\ pc[p] = "write" => fd[p] = "tmp" /\ tmp[Target(p)] = <<>>
        /\ pc[p] = "rename" => tmp[Target(p)] = File(reply[p])

SerialInv == OneAtATime /\ WriterOwnsTmp /\ EntryIsWhole

\* Answers come from the past, also the ones on disk.
EntryIsPast ==
    \A k \in Paths : entry[k] # NoFile => entry[k][1].of.at <= clock

ReplyIsPast ==
    \A p \in Procs : pc[p] \in {"open", "write", "rename", "undo"} =>
        reply[p].at <= clock

\* Between judging an entry and removing it nothing replaces it, and time
\* only makes it older.
DropIsStale ==
    \A p \in Procs : pc[p] = "drop" =>
        entry[Target(p)] # NoFile /\ ~Young(entry[Target(p)])

\* What was served was one whole answer.
ServedIsWhole ==
    \A p \in Procs : out[p].result = "cache" =>
        out[p].read # <<>> /\ out[p].read = File(out[p].read[1].of)

PastInv == EntryIsPast /\ ReplyIsPast /\ DropIsStale

-----------------------------------------------------------------------------
(* Files *)

\* What Put prepares is a well-formed file that names its answer.
LEMMA FileIsAnswer ==
    ASSUME NEW a \in Stored
    PROVE  /\ File(a) \in Content
           /\ File(a) # <<>> /\ File(a) # NoFile
           /\ File(a)[1].of = a
           /\ WellFormed(File(a))
           /\ LinesOf(File(a)) = a.lines
<1>1. a.lines \in Seq(Lines) /\ a.lines # <<>>
  BY KeyCacheAssumption DEF Stored
<1>2. Len(a.lines) \in Nat /\ Len(a.lines) > 0
  BY <1>1
<1>3. File(a) \in Content /\ Len(File(a)) = Len(a.lines) + 1
  BY FileAligned
<1>4. \A i \in 1..(Len(a.lines) + 1) : File(a)[i] = [of |-> a, n |-> i - 1]
  BY DEF File
<1>5. 1 \in 1..(Len(a.lines) + 1)
  BY <1>2
<1>6. File(a)[1].of = a /\ File(a)[1].n = 0
  <2>1. File(a)[1] = [of |-> a, n |-> 1 - 1]
    BY <1>4, <1>5, Zenon
  <2> QED
    BY <2>1
<1>7. WellFormed(File(a))
  BY <1>2, <1>3, <1>6 DEF WellFormed
<1>8. File(a) # <<>> /\ File(a) # NoFile
  BY <1>2, <1>3, KeyCacheAssumption
<1>9. LinesOf(File(a)) = a.lines
  <2>1. Len(File(a)) - 1 = Len(a.lines)
    BY <1>2, <1>3
  <2>2. ASSUME NEW i \in 1..Len(a.lines)
        PROVE  File(a)[i + 1].of.lines[File(a)[i + 1].n] = a.lines[i]
    <3>1. i + 1 \in 1..(Len(a.lines) + 1) /\ (i + 1) - 1 = i
      BY <1>2
    <3>2. File(a)[i + 1] = [of |-> a, n |-> i]
      BY <1>4, <3>1
    <3> QED
      BY <3>2
  <2>3. LinesOf(File(a)) = [i \in 1..Len(a.lines) |-> a.lines[i]]
    BY <2>1, <2>2 DEF LinesOf
  <2> QED
    BY <1>1, <2>3
<1> QED
  BY <1>3, <1>6, <1>7, <1>8, <1>9

\* A write into a file just truncated leaves nothing else in it.
LEMMA OverwriteEmpty ==
    ASSUME NEW new \in Content
    PROVE  Overwrite(<<>>, new) = new
<1>1. new \in Seq(Block) /\ Len(new) \in Nat
  BY DEF Content
<1>2. SubSeq(<<>>, Len(new) + 1, Len(<<>>)) = <<>>
  BY <1>1
<1> QED
  BY <1>1, <1>2 DEF Overwrite

\* A whole entry comes from one answer.
LEMMA EntryHasAnswer ==
    ASSUME TypeOK, EntryIsWhole, NEW k \in Paths, entry[k] # NoFile
    PROVE  /\ entry[k][1].of \in Stored
           /\ entry[k] = File(entry[k][1].of)
<1>1. entry[k] \in Seq(Block) /\ entry[k] # <<>> /\ entry[k] = File(entry[k][1].of)
  BY DEF TypeOK, CacheTypeOK, Content, EntryIsWhole
<1>2. entry[k][1] \in Block
  BY <1>1
<1> QED
  BY <1>1, <1>2 DEF Block

\* The header never dates an answer into its future.
LEMMA StampBounds ==
    ASSUME NEW t \in 0..MaxClock
    PROVE  Stamp(t) \in Int /\ Stamp(t) <= t
<1>1. t \in Nat /\ Second \in Nat \ {0}
  BY KeyCacheAssumption
<1>2. t % Second \in 0..(Second - 1)
  BY <1>1
<1> QED
  BY <1>1, <1>2 DEF Stamp

-----------------------------------------------------------------------------
(* Logins one after the other *)

\* While p runs, or starts when nobody does, nobody else is running.
LEMMA Alone ==
    ASSUME TypeOK, OneAtATime, NEW p \in Procs, NEW x,
           pc[p] \in Running \/ \A r \in Procs : pc[r] \notin Running,
           pc' = [pc EXCEPT ![p] = x]
    PROVE  /\ OneAtATime'
           /\ pc'[p] = x
           /\ \A r \in Procs : r # p => pc'[r] \notin Running
<1>1. pc'[p] = x /\ \A r \in Procs : r # p => pc'[r] = pc[r]
  BY DEF TypeOK
<1>2. \A r \in Procs : r # p => pc'[r] \notin Running
  BY <1>1 DEF OneAtATime
<1> QED
  BY <1>1, <1>2 DEF OneAtATime

\* A step that leaves the entries alone and does not end inside a write.
LEMMA QuietStep ==
    ASSUME TypeOK, SerialInv, NEW p \in Procs, NEW x,
           pc[p] \in Running \/ \A r \in Procs : pc[r] \notin Running,
           pc' = [pc EXCEPT ![p] = x],
           x \notin {"write", "rename"},
           entry' = entry
    PROVE  SerialInv'
<1>1. /\ OneAtATime' /\ pc'[p] = x
      /\ \A r \in Procs : r # p => pc'[r] \notin Running
  BY Alone DEF SerialInv
<1>2. WriterOwnsTmp'
  BY <1>1 DEF WriterOwnsTmp, Running
<1>3. EntryIsWhole'
  BY DEF SerialInv, EntryIsWhole
<1> QED
  BY <1>1, <1>2, <1>3 DEF SerialInv

\* Every step of a serial run keeps the entries whole.
LEMMA SerialStep ==
    ~Concurrent /\ IInv /\ SerialInv /\ [Next]_vars => SerialInv'
<1> SUFFICES ASSUME ~Concurrent, IInv, SerialInv, [Next]_vars
             PROVE  SerialInv'
  OBVIOUS
<1>t. TypeOK /\ FilesInv /\ OneAtATime /\ WriterOwnsTmp /\ EntryIsWhole
  BY DEF IInv, SerialInv
<1>1. ASSUME NEW p \in Procs, NEW q \in Queries, Begin(p, q)
      PROVE  SerialInv'
  <2>1. /\ \A r \in Procs : pc[r] \notin Running
        /\ \/ pc' = [pc EXCEPT ![p] = "fetch"]
           \/ pc' = [pc EXCEPT ![p] = "done"]
        /\ entry' = entry
    BY <1>1 DEF Begin, Goto, Finish, cacheVars
  <2> QED
    BY <1>t, <2>1, QuietStep
<1>2. ASSUME NEW p \in Procs,
             \/ LocalFailure(p) \/ ReceiveNone(p) \/ PutOpenFails(p) \/ PutUndo(p)
             \/ GetMiss(p) \/ GetHit(p) \/ Panic(p) \/ Crash(p)
      PROVE  SerialInv'
  <2>1. pc[p] \in Running /\ pc' = [pc EXCEPT ![p] = "done"] /\ entry' = entry
    BY <1>2 DEF LocalFailure, ReceiveNone, PutOpenFails, PutUndo, RemoveTmp, GetMiss,
                GetHit, Panic, Crash, Finish, cacheVars, Running
  <2> QED
    BY <1>t, <2>1, QuietStep
<1>3. ASSUME NEW p \in Procs, NEW ls \in Answers, ReceiveKeys(p, ls)
      PROVE  SerialInv'
  <2>1. /\ pc[p] \in Running
        /\ \/ pc' = [pc EXCEPT ![p] = "open"]
           \/ pc' = [pc EXCEPT ![p] = "done"]
        /\ entry' = entry
    BY <1>3, Zenon DEF ReceiveKeys, Goto, Finish, cacheVars, Running
  <2> QED
    BY <1>t, <2>1, QuietStep
<1>4. ASSUME NEW p \in Procs, NEW s \in Statuses, ReceiveError(p, s)
      PROVE  SerialInv'
  <2>1. /\ pc[p] \in Running
        /\ \/ pc' = [pc EXCEPT ![p] = "get"]
           \/ pc' = [pc EXCEPT ![p] = "done"]
        /\ entry' = entry
    BY <1>4, Zenon DEF ReceiveError, Goto, Finish, cacheVars, Running
  <2> QED
    BY <1>t, <2>1, QuietStep
<1>5. ASSUME NEW p \in Procs, PutRenameFails(p) \/ GetStale(p)
      PROVE  SerialInv'
  <2>1. /\ pc[p] \in Running
        /\ \/ pc' = [pc EXCEPT ![p] = "undo"]
           \/ pc' = [pc EXCEPT ![p] = "drop"]
        /\ entry' = entry
    BY <1>5 DEF PutRenameFails, GetStale, Goto, cacheVars, Running
  <2> QED
    BY <1>t, <2>1, QuietStep
<1>6. ASSUME NEW p \in Procs, PutOpen(p)
      PROVE  SerialInv'
  <2>1. /\ pc[p] = "open" /\ pc' = [pc EXCEPT ![p] = "write"]
        /\ entry' = entry
        /\ fd' = [fd EXCEPT ![p] = "tmp"]
        /\ tmp' = [tmp EXCEPT ![Target(p)] = <<>>]
        /\ job' = job
    BY <1>6 DEF PutOpen, Goto, OpenTmp
  <2>2. Target(p) \in Paths
    BY <1>t, <2>1 DEF FilesInv, PutHoldsAnswer, Target
  <2>3. /\ OneAtATime' /\ pc'[p] = "write"
        /\ \A r \in Procs : r # p => pc'[r] \notin Running
    BY <1>t, <2>1, Alone DEF Running
  <2>4. fd'[p] = "tmp" /\ tmp'[Target(p)] = <<>>
    BY <1>t, <2>1, <2>2 DEF TypeOK, CacheTypeOK
  <2>5. WriterOwnsTmp'
    BY <2>1, <2>3, <2>4 DEF WriterOwnsTmp, Running, Target
  <2>6. EntryIsWhole'
    BY <1>t, <2>1 DEF EntryIsWhole
  <2> QED
    BY <2>3, <2>5, <2>6 DEF SerialInv
<1>7. ASSUME NEW p \in Procs, PutWrite(p)
      PROVE  SerialInv'
  <2>1. pc[p] = "write" /\ pc' = [pc EXCEPT ![p] = "rename"] /\ UNCHANGED <<job, reply>>
    BY <1>7 DEF PutWrite, Goto
  <2>2. /\ Target(p) \in Paths /\ reply[p] \in Stored
        /\ fd[p] = "tmp" /\ tmp[Target(p)] = <<>>
    BY <1>t, <2>1 DEF FilesInv, PutHoldsAnswer, Target, WriterOwnsTmp
  <2>3. tmp' = [tmp EXCEPT ![Target(p)] = Overwrite(tmp[Target(p)], File(reply[p]))]
    BY <1>7, <2>2 DEF PutWrite, WriteFile
  <2>4. entry' = entry
    BY <1>7, <2>2 DEF PutWrite, WriteFile
  <2>5. tmp'[Target(p)] = File(reply[p])
    BY <1>t, <2>2, <2>3, OverwriteEmpty, FileIsAnswer DEF TypeOK, CacheTypeOK
  <2>6. /\ OneAtATime' /\ pc'[p] = "rename"
        /\ \A r \in Procs : r # p => pc'[r] \notin Running
    BY <1>t, <2>1, Alone DEF Running
  <2>7. WriterOwnsTmp'
    BY <2>1, <2>5, <2>6 DEF WriterOwnsTmp, Running, Target, File
  <2>8. EntryIsWhole'
    BY <1>t, <2>4 DEF EntryIsWhole
  <2> QED
    BY <2>6, <2>7, <2>8 DEF SerialInv
<1>8. ASSUME NEW p \in Procs, PutWriteFails(p)
      PROVE  SerialInv'
  <2>1. pc[p] = "write" /\ pc' = [pc EXCEPT ![p] = "undo"]
    BY <1>8 DEF PutWriteFails, Goto
  <2>2. fd[p] = "tmp"
    BY <1>t, <2>1 DEF WriterOwnsTmp
  <2>3. entry' = entry
    BY <1>8, <2>2 DEF PutWriteFails, WriteFile
  <2> QED
    BY <1>t, <2>1, <2>3, QuietStep DEF Running
<1>9. ASSUME NEW p \in Procs, PutRename(p)
      PROVE  SerialInv'
  <2>1. /\ pc[p] = "rename" /\ pc' = [pc EXCEPT ![p] = "done"]
        /\ entry' = [entry EXCEPT ![Target(p)] = tmp[Target(p)]]
    BY <1>9 DEF PutRename, RenameTmp, Finish
  <2>2. /\ Target(p) \in Paths /\ reply[p] \in Stored
        /\ tmp[Target(p)] = File(reply[p])
    BY <1>t, <2>1 DEF FilesInv, PutHoldsAnswer, Target, WriterOwnsTmp
  <2>3. /\ OneAtATime' /\ pc'[p] = "done"
        /\ \A r \in Procs : r # p => pc'[r] \notin Running
    BY <1>t, <2>1, Alone DEF Running
  <2>4. WriterOwnsTmp'
    BY <2>3 DEF WriterOwnsTmp, Running
  <2>5. ASSUME NEW k \in Paths, entry'[k] # NoFile
        PROVE  entry'[k] # <<>> /\ entry'[k] = File(entry'[k][1].of)
    <3>1. CASE k = Target(p)
      <4>1. entry'[k] = File(reply[p])
        BY <1>t, <2>1, <2>2, <3>1 DEF TypeOK, CacheTypeOK
      <4>2. entry'[k][1].of = reply[p] /\ entry'[k] # <<>>
        BY <2>2, <4>1, FileIsAnswer
      <4> QED
        BY <4>1, <4>2
    <3>2. CASE k # Target(p)
      <4>1. entry'[k] = entry[k]
        BY <1>t, <2>1, <3>2 DEF TypeOK, CacheTypeOK
      <4> QED
        BY <1>t, <2>5, <4>1 DEF EntryIsWhole
    <3> QED
      BY <3>1, <3>2
  <2>6. EntryIsWhole'
    BY <2>5, Zenon DEF EntryIsWhole, File
  <2> QED
    BY <2>3, <2>4, <2>6 DEF SerialInv
<1>10. ASSUME NEW p \in Procs, GetRemove(p)
       PROVE  SerialInv'
  <2>1. /\ pc[p] = "drop" /\ pc' = [pc EXCEPT ![p] = "done"]
        /\ entry' = [entry EXCEPT ![Target(p)] = NoFile]
    BY <1>10 DEF GetRemove, RemoveEntry, Finish
  <2>2. /\ OneAtATime' /\ pc'[p] = "done"
        /\ \A r \in Procs : r # p => pc'[r] \notin Running
    BY <1>t, <2>1, Alone DEF Running
  <2>3. WriterOwnsTmp'
    BY <2>2 DEF WriterOwnsTmp, Running
  <2>4. \A k \in Paths : entry'[k] \in {NoFile, entry[k]}
    BY <1>t, <2>1 DEF TypeOK, CacheTypeOK
  <2>5. EntryIsWhole'
    BY <1>t, <2>4 DEF EntryIsWhole, File
  <2> QED
    BY <2>2, <2>3, <2>5 DEF SerialInv
<1>11. ASSUME Time \/ UNCHANGED vars
       PROVE  SerialInv'
  <2>1. UNCHANGED <<pc, job, reply, entry, tmp, fd>>
    BY <1>11 DEF Time, Tick, StepBack, procVars, vars
  <2> QED
    BY <1>t, <2>1 DEF SerialInv, OneAtATime, WriterOwnsTmp, EntryIsWhole, Target, File
<1> QED
  BY <1>1, <1>2, <1>3, <1>4, <1>5, <1>6, <1>7, <1>8, <1>9, <1>10, <1>11
     DEF Next, Fetch, Put, Get

-----------------------------------------------------------------------------
(* A clock that is not set back *)

\* A step that neither touches the entries nor moves on to a removal.
LEMMA PastFrame ==
    ASSUME TypeOK, OneAtATime, PastInv, NEW p \in Procs, NEW x,
           pc[p] \in Running \/ \A r \in Procs : pc[r] \notin Running,
           pc' = [pc EXCEPT ![p] = x],
           x # "drop", clock' = clock, EntryIsPast',
           x \in {"open", "write", "rename", "undo"} => reply'[p].at <= clock
    PROVE  PastInv'
<1>1. /\ pc'[p] = x
      /\ \A r \in Procs : r # p => pc'[r] \notin Running
  BY Alone
<1>2. ReplyIsPast'
  BY <1>1 DEF ReplyIsPast, Running
<1>3. DropIsStale'
  BY <1>1 DEF DropIsStale, Running
<1> QED
  BY <1>2, <1>3 DEF PastInv

\* An entry that could not be served stays so while the clock goes on.
LEMMA StaleStaysStale ==
    ASSUME TypeOK, EntryIsWhole, EntryIsPast, Tick, NEW k \in Paths,
           entry[k] # NoFile, ~Young(entry[k])
    PROVE  ~Young(entry[k])'
<1>1. PICK a \in Stored : entry[k][1].of = a /\ entry[k] = File(a)
  BY EntryHasAnswer
<1>2. /\ entry' = entry /\ clock' = clock + 1
      /\ clock \in Int /\ TTL \in Int /\ a.at <= clock
  BY <1>1, KeyCacheAssumption DEF Tick, EntryIsPast, TypeOK, CacheTypeOK
<1>3. a.at \in 0..MaxClock
  BY DEF Stored
<1>4. Stamp(a.at) \in Int /\ Stamp(a.at) <= a.at
  BY <1>3, StampBounds
<1>5. a.at \in Int
  BY <1>3, KeyCacheAssumption
<1>6. WellFormed(entry[k])
  BY <1>1, FileIsAnswer
<1>7. Age(entry[k]) = clock - Stamp(a.at)
  BY <1>1 DEF Age
<1>8. clock - Stamp(a.at) > TTL
  BY <1>2, <1>4, <1>5, <1>6, <1>7 DEF Young
<1>9. Age(entry[k])' = (clock + 1) - Stamp(a.at)
  <2>1. Age(entry[k])' = clock' - Stamp(entry'[k][1].of.at)
    BY Zenon DEF Age, Stamp
  <2>2. entry'[k][1].of.at = a.at
    BY <1>1, <1>2
  <2>3. Age(entry[k])' = clock' - Stamp(a.at)
    BY <2>1, <2>2, Zenon
  <2> QED
    BY <1>2, <2>3
<1>10. ~(Age(entry[k])' <= TTL)
  BY <1>2, <1>4, <1>8, <1>9
<1> QED
  BY <1>10 DEF Young

\* With a clock that only goes on, the entry Get removes is still the stale
\* one it judged.
LEMMA PastStep ==
    /\ ~Concurrent /\ ~ClockStepsBack
    /\ IInv /\ SerialInv /\ PastInv /\ [Next]_vars
    => PastInv'
<1> SUFFICES ASSUME ~Concurrent, ~ClockStepsBack, IInv, SerialInv, PastInv, [Next]_vars
             PROVE  PastInv'
  OBVIOUS
<1>t. /\ TypeOK /\ FilesInv /\ OneAtATime /\ WriterOwnsTmp /\ EntryIsWhole
      /\ EntryIsPast /\ ReplyIsPast /\ DropIsStale
  BY DEF IInv, SerialInv, PastInv
<1>c. clock \in Int /\ clock <= clock
  BY <1>t, KeyCacheAssumption DEF TypeOK, CacheTypeOK
<1>e. entry' = entry /\ clock' = clock => EntryIsPast'
  BY <1>t DEF EntryIsPast
<1>1. ASSUME NEW p \in Procs, NEW q \in Queries, Begin(p, q)
      PROVE  PastInv'
  <2>1. /\ \A r \in Procs : pc[r] \notin Running
        /\ \/ pc' = [pc EXCEPT ![p] = "fetch"]
           \/ pc' = [pc EXCEPT ![p] = "done"]
        /\ entry' = entry /\ clock' = clock
    BY <1>1 DEF Begin, Goto, Finish, cacheVars
  <2> QED
    BY <1>t, <1>e, <2>1, PastFrame
<1>2. ASSUME NEW p \in Procs,
             \/ LocalFailure(p) \/ ReceiveNone(p) \/ PutOpenFails(p) \/ PutUndo(p)
             \/ GetMiss(p) \/ GetHit(p) \/ Panic(p) \/ Crash(p)
      PROVE  PastInv'
  <2>1. /\ pc[p] \in Running /\ pc' = [pc EXCEPT ![p] = "done"]
        /\ entry' = entry /\ clock' = clock
    BY <1>2 DEF LocalFailure, ReceiveNone, PutOpenFails, PutUndo, RemoveTmp, GetMiss,
                GetHit, Panic, Crash, Finish, cacheVars, Running
  <2> QED
    BY <1>t, <1>e, <2>1, PastFrame
<1>3. ASSUME NEW p \in Procs, NEW ls \in Answers, ReceiveKeys(p, ls)
      PROVE  PastInv'
  <2>1. /\ pc[p] \in Running
        /\ \/ pc' = [pc EXCEPT ![p] = "open"]
           \/ pc' = [pc EXCEPT ![p] = "done"]
        /\ entry' = entry /\ clock' = clock
    BY <1>3, Zenon DEF ReceiveKeys, Goto, Finish, cacheVars, Running
  <2>2. reply'[p] = [query |-> job[p], lines |-> ls, at |-> clock]
    BY <1>3, <1>t DEF ReceiveKeys, TypeOK
  <2>3. reply'[p].at <= clock
    BY <1>c, <2>2
  <2> QED
    BY <1>t, <1>e, <2>1, <2>3, PastFrame
<1>4. ASSUME NEW p \in Procs, NEW s \in Statuses, ReceiveError(p, s)
      PROVE  PastInv'
  <2>1. /\ pc[p] \in Running
        /\ \/ pc' = [pc EXCEPT ![p] = "get"]
           \/ pc' = [pc EXCEPT ![p] = "done"]
        /\ entry' = entry /\ clock' = clock
    BY <1>4, Zenon DEF ReceiveError, Goto, Finish, cacheVars, Running
  <2> QED
    BY <1>t, <1>e, <2>1, PastFrame
<1>5. ASSUME NEW p \in Procs,
             PutOpen(p) \/ PutWrite(p) \/ PutWriteFails(p) \/ PutRenameFails(p)
      PROVE  PastInv'
  <2>1. /\ pc[p] \in {"open", "write", "rename"}
        /\ \/ pc' = [pc EXCEPT ![p] = "write"]
           \/ pc' = [pc EXCEPT ![p] = "rename"]
           \/ pc' = [pc EXCEPT ![p] = "undo"]
        /\ reply' = reply /\ clock' = clock
    BY <1>5 DEF PutOpen, PutWrite, PutWriteFails, PutRenameFails, Goto, OpenTmp,
                WriteFile, cacheVars
  <2>2. entry' = entry
    <3>1. CASE PutOpen(p) \/ PutRenameFails(p)
      BY <3>1 DEF PutOpen, OpenTmp, PutRenameFails, cacheVars
    <3>2. CASE PutWrite(p) \/ PutWriteFails(p)
      <4>1. fd[p] = "tmp"
        BY <1>t, <3>2 DEF PutWrite, PutWriteFails, Goto, WriterOwnsTmp
      <4> QED
        BY <3>2, <4>1 DEF PutWrite, PutWriteFails, WriteFile
    <3> QED
      BY <1>5, <3>1, <3>2
  <2>3. reply'[p].at <= clock
    BY <1>t, <2>1 DEF ReplyIsPast
  <2> QED
    BY <1>t, <1>e, <2>1, <2>2, <2>3, PastFrame DEF Running
<1>6. ASSUME NEW p \in Procs, PutRename(p)
      PROVE  PastInv'
  <2>1. /\ pc[p] = "rename" /\ pc' = [pc EXCEPT ![p] = "done"]
        /\ entry' = [entry EXCEPT ![Target(p)] = tmp[Target(p)]]
        /\ clock' = clock
    BY <1>6 DEF PutRename, RenameTmp, Finish
  <2>2. /\ Target(p) \in Paths /\ reply[p] \in Stored
        /\ tmp[Target(p)] = File(reply[p])
        /\ reply[p].at <= clock
    BY <1>t, <2>1 DEF FilesInv, PutHoldsAnswer, Target, WriterOwnsTmp, ReplyIsPast
  <2>3. entry'[Target(p)][1].of = reply[p]
    BY <1>t, <2>1, <2>2, FileIsAnswer DEF TypeOK, CacheTypeOK
  <2>4. \A k \in Paths : k # Target(p) => entry'[k] = entry[k]
    BY <1>t, <2>1 DEF TypeOK, CacheTypeOK
  <2>5. EntryIsPast'
    BY <1>t, <2>1, <2>2, <2>3, <2>4 DEF EntryIsPast
  <2> QED
    BY <1>t, <2>1, <2>5, PastFrame DEF Running
<1>7. ASSUME NEW p \in Procs, GetStale(p)
      PROVE  PastInv'
  <2>1. /\ pc[p] = "get" /\ pc' = [pc EXCEPT ![p] = "drop"]
        /\ entry[Target(p)] # NoFile /\ ~Young(entry[Target(p)])
        /\ entry' = entry /\ clock' = clock /\ job' = job
    BY <1>7 DEF GetStale, Goto, Found, cacheVars
  <2>2. /\ pc'[p] = "drop"
        /\ \A r \in Procs : r # p => pc'[r] \notin Running
    BY <1>t, <2>1, Alone DEF Running
  <2>3. ~Young(entry[Target(p)])'
    BY <2>1 DEF Young, WellFormed, Age, Stamp, Target
  <2>4. DropIsStale'
    BY <2>1, <2>2, <2>3 DEF DropIsStale, Target, Running
  <2>5. ReplyIsPast'
    BY <2>2 DEF ReplyIsPast, Running
  <2> QED
    BY <1>e, <2>1, <2>4, <2>5 DEF PastInv
<1>8. ASSUME NEW p \in Procs, GetRemove(p)
      PROVE  PastInv'
  <2>1. /\ pc[p] = "drop" /\ pc' = [pc EXCEPT ![p] = "done"]
        /\ entry' = [entry EXCEPT ![Target(p)] = NoFile]
        /\ clock' = clock
    BY <1>8 DEF GetRemove, RemoveEntry, Finish
  <2>2. \A k \in Paths : entry'[k] \in {NoFile, entry[k]}
    BY <1>t, <2>1 DEF TypeOK, CacheTypeOK
  <2>3. EntryIsPast'
    BY <1>t, <2>1, <2>2 DEF EntryIsPast
  <2> QED
    BY <1>t, <2>1, <2>3, PastFrame DEF Running
<1>9. ASSUME Time
      PROVE  PastInv'
  <2>1. Tick /\ UNCHANGED <<pc, job, reply, entry>> /\ clock' = clock + 1
    BY <1>9 DEF Time, Tick, procVars
  <2>2. EntryIsPast'
    <3>1. ASSUME NEW k \in Paths, entry[k] # NoFile
          PROVE  entry[k][1].of.at <= clock + 1
      <4>1. entry[k][1].of \in Stored
        BY <1>t, <3>1, EntryHasAnswer
      <4>2. entry[k][1].of.at \in Int
        BY <4>1, KeyCacheAssumption DEF Stored
      <4> QED
        BY <1>t, <1>c, <3>1, <4>2 DEF EntryIsPast
    <3> QED
      BY <2>1, <3>1 DEF EntryIsPast
  <2>3. ReplyIsPast'
    <3>1. ASSUME NEW p \in Procs, pc[p] \in {"open", "write", "rename", "undo"}
          PROVE  reply[p].at <= clock + 1
      <4>1. reply[p] \in Stored
        BY <1>t, <3>1 DEF FilesInv, PutHoldsAnswer
      <4>2. reply[p].at \in Int
        BY <4>1, KeyCacheAssumption DEF Stored
      <4> QED
        BY <1>t, <1>c, <3>1, <4>2 DEF ReplyIsPast
    <3> QED
      BY <2>1, <3>1 DEF ReplyIsPast
  <2>4. DropIsStale'
    <3>1. ASSUME NEW p \in Procs, pc[p] = "drop"
          PROVE  entry[Target(p)] # NoFile /\ ~Young(entry[Target(p)])'
      <4>1. PICK k \in Paths : k = Target(p)
        BY <1>t, <3>1 DEF FilesInv, DropHasFile, Target
      <4>2. entry[k] # NoFile /\ ~Young(entry[k])
        BY <1>t, <3>1, <4>1 DEF DropIsStale
      <4>3. ~Young(entry[k])'
        BY <1>t, <2>1, <4>2, StaleStaysStale
      <4> QED
        BY <2>1, <4>1, <4>2, <4>3 DEF Target
    <3> QED
      BY <2>1, <3>1 DEF DropIsStale, Target
  <2> QED
    BY <2>2, <2>3, <2>4 DEF PastInv
<1>10. ASSUME UNCHANGED vars
       PROVE  PastInv'
  BY <1>t, <1>10 DEF vars, PastInv, EntryIsPast, ReplyIsPast, DropIsStale, Target,
                     Young, WellFormed, Age, Stamp
<1> QED
  BY <1>1, <1>2, <1>3, <1>4, <1>5, <1>6, <1>7, <1>8, <1>9, <1>10
     DEF Next, Fetch, Put, Get

-----------------------------------------------------------------------------
(* The promise of LastKnownGood *)

\* What LastKnownGood sees of the files and of the outcomes.
Known == [k \in Paths |-> IF entry[k] = NoFile THEN NoFile ELSE entry[k][1].of]
ServedTo == [p \in Procs |-> Served(out[p])]

Nobody == [by |-> "nobody", lines |-> <<>>]

\* Who vouches for an outcome.
LEMMA ServedCases ==
    ASSUME NEW o
    PROVE  /\ o.result = "ok" => Served(o) = [by |-> "provider", lines |-> o.lines]
           /\ o.result = "cache" => Served(o) = [by |-> "memory", lines |-> o.lines]
           /\ o.result \notin {"ok", "cache"} =>
                 Served(o) = [by |-> "nobody", lines |-> o.lines]
<1>1. "ok" # "cache"
  OBVIOUS
<1> QED
  BY <1>1, Zenon DEF Served

\* A report is served on the word of its result.
LEMMA ServedReport ==
    ASSUME NEW ls, NEW e, NEW c
    PROVE  /\ Served(Report("ok", ls, e, c)) = [by |-> "provider", lines |-> ls]
           /\ Served(Report("cache", ls, e, c)) = [by |-> "memory", lines |-> ls]
<1>1. /\ Report("ok", ls, e, c).result = "ok" /\ Report("ok", ls, e, c).lines = ls
      /\ Report("cache", ls, e, c).result = "cache"
      /\ Report("cache", ls, e, c).lines = ls
  BY DEF Report
<1> QED
  BY <1>1, ServedCases

\* A denial is nobody's word.
LEMMA ServedDenial ==
    ASSUME NEW r \in {"empty", "denied", "error"}, NEW e
    PROVE  Served(Deny(r, e)) = Nobody
<1>1. Deny(r, e).result = r /\ Deny(r, e).lines = <<>>
  BY DEF Deny, Report
<1>2. r \notin {"ok", "cache"}
  OBVIOUS
<1> QED
  BY <1>1, <1>2, ServedCases DEF Nobody

\* A process that is not done has been served nothing.
LEMMA UnservedYet ==
    ASSUME NothingBeforeDone, NEW p \in Procs, pc[p] # "done"
    PROVE  ServedTo[p] = Nobody
<1>1. out[p].result = "none" /\ out[p].lines = <<>>
  BY DEF NothingBeforeDone
<1>2. "none" \notin {"ok", "cache"}
  OBVIOUS
<1> QED
  BY <1>1, <1>2, ServedCases DEF ServedTo, Nobody

\* A process that finishes changes what it is served itself, and no other.
LEMMA FinishServes ==
    ASSUME TypeOK, NEW p \in Procs, NEW o, Finish(p, o)
    PROVE  ServedTo' = [ServedTo EXCEPT ![p] = Served(o)]
<1>1. out'[p] = o /\ \A r \in Procs : r # p => out'[r] = out[r]
  BY DEF TypeOK, Finish
<1>2. ServedTo' = [r \in Procs |-> Served(out'[r])]
  BY Zenon DEF ServedTo, Served
<1>3. \A r \in Procs : r # p => Served(out'[r]) = Served(out[r])
  BY <1>1, Zenon
<1>4. Served(out'[p]) = Served(o)
  BY <1>1, Zenon
<1> QED
  BY <1>2, <1>3, <1>4 DEF ServedTo

\* The end of Put serves the answer it was given.
LEMMA AnsweredServes ==
    ASSUME TypeOK, NEW p \in Procs, Finish(p, Answered(p))
    PROVE  ServedTo' =
             [ServedTo EXCEPT ![p] = [by |-> "provider", lines |-> reply[p].lines]]
<1>1. ServedTo' = [ServedTo EXCEPT ![p] = Served(Answered(p))]
  BY FinishServes, Zenon
<1>2. Served(Answered(p)) = [by |-> "provider", lines |-> reply[p].lines]
  BY ServedReport, Zenon DEF Answered
<1> QED
  BY <1>1, <1>2, Zenon

\* A denial leaves a login that has been served nothing as it was.
LEMMA DenialServesNothing ==
    ASSUME TypeOK, NothingBeforeDone, NEW p \in Procs, pc[p] # "done",
           NEW r \in {"empty", "denied", "error"}, NEW e, Finish(p, Deny(r, e))
    PROVE  ServedTo' = ServedTo
<1>1. ServedTo' = [ServedTo EXCEPT ![p] = Nobody]
  BY FinishServes, ServedDenial
<1>2. ServedTo[p] = Nobody
  BY UnservedYet
<1> QED
  BY <1>1, <1>2 DEF ServedTo

\* The steps of the promise, in the variables of this specification.  A step
\* that changes nothing the promise speaks of.
LEMMA Stutter ==
    ASSUME clock' = clock, job' = job, Known' = Known, ServedTo' = ServedTo
    PROVE  UNCHANGED LKG!vars
  BY Zenon DEF LKG!vars, Known, ServedTo

\* A login is started.
LEMMA AskStep ==
    ASSUME NEW p \in Procs, NEW q \in Queries, job' = [job EXCEPT ![p] = q],
           clock' = clock, Known' = Known, ServedTo' = ServedTo
    PROVE  LKG!Next
<1>1. LKG!Ask(p)
  BY Zenon DEF LKG!Ask, Known, ServedTo
<1> QED
  BY <1>1, Zenon DEF LKG!Next

\* A login is given the provider's answer, remembered or not.
LEMMA AnswerStep ==
    ASSUME NEW p \in Procs, NEW a \in Stored, a.query = job[p], a.at <= clock,
           ServedTo' = [ServedTo EXCEPT ![p] = [by |-> "provider", lines |-> a.lines]],
           \/ Known' = Known
           \/ /\ PathOf[a.query] \in Paths
              /\ Known' = [Known EXCEPT ![PathOf[a.query]] = a],
           clock' = clock, job' = job
    PROVE  LKG!Next
<1>1. LKG!ServeAnswer(p)
  BY Zenon DEF LKG!ServeAnswer, Known, ServedTo
<1> QED
  BY <1>1, Zenon DEF LKG!Next

\* A login is given what is known.
LEMMA KnownStep ==
    ASSUME NEW p \in Procs, PathOf[job[p]] \in Paths, NEW a \in Stored,
           Known[PathOf[job[p]]] = a, LKG!Recent(a),
           ServedTo' = [ServedTo EXCEPT ![p] = [by |-> "memory", lines |-> a.lines]],
           clock' = clock, job' = job, Known' = Known
    PROVE  LKG!Next
<1>1. a # NoFile
  BY KeyCacheAssumption
<1>2. LKG!ServeKnown(p)
  BY <1>1, Zenon DEF LKG!ServeKnown, Known, ServedTo
<1> QED
  BY <1>2, Zenon DEF LKG!Next

\* An answer that is too old is forgotten.
LEMMA ForgetStep ==
    ASSUME NEW k \in Paths, NEW a \in Stored, Known[k] = a, ~LKG!Recent(a),
           Known' = [Known EXCEPT ![k] = NoFile],
           clock' = clock, job' = job, ServedTo' = ServedTo
    PROVE  LKG!Next
<1>1. a # NoFile
  BY KeyCacheAssumption
<1>2. LKG!Forget(k)
  BY <1>1, Zenon DEF LKG!Forget, Known, ServedTo
<1> QED
  BY <1>2, Zenon DEF LKG!Next

\* Time passes.
LEMMA TickStep ==
    ASSUME clock < MaxClock, clock' = clock + 1,
           job' = job, Known' = Known, ServedTo' = ServedTo
    PROVE  LKG!Next
<1>1. LKG!Tick
  BY Zenon DEF LKG!Tick, Known, ServedTo
<1> QED
  BY <1>1, Zenon DEF LKG!Next

\* Young is the promise's Recent for a whole entry.
LEMMA YoungIsRecent ==
    ASSUME TypeOK, NEW a \in Stored
    PROVE  Young(File(a)) <=> LKG!Recent(a)
<1>1. a.at \in 0..MaxClock
  BY DEF Stored
<1>2. Stamp(a.at) \in Int /\ clock \in Int /\ TTL \in Nat
  BY <1>1, StampBounds, KeyCacheAssumption DEF TypeOK, CacheTypeOK
<1>3. Age(File(a)) = clock - Stamp(a.at)
  BY FileIsAnswer DEF Age
<1>4. WellFormed(File(a))
  BY FileIsAnswer
<1>5. LKG!Recent(a) <=> clock - Stamp(a.at) \in 0..TTL
  BY Zenon DEF LKG!Recent
<1> QED
  BY <1>2, <1>3, <1>4, <1>5 DEF Young

\* The mapping depends on the entries and the outcomes only.
LEMMA SameView ==
    /\ entry' = entry => Known' = Known
    /\ out' = out => ServedTo' = ServedTo
<1>1. entry' = entry => Known' = Known
  BY DEF Known
<1>2. ASSUME out' = out
      PROVE  ServedTo' = ServedTo
  <2>1. ServedTo' = [r \in Procs |-> Served(out'[r])]
    BY Zenon DEF ServedTo, Served
  <2>2. \A r \in Procs : Served(out'[r]) = Served(out[r])
    BY <1>2, Zenon
  <2> QED
    BY <2>1, <2>2 DEF ServedTo
<1> QED
  BY <1>1, <1>2

\* An outage noted before Get serves nothing yet.
LEMMA NoteServesNothing ==
    ASSUME TypeOK, NEW p \in Procs, NEW e, out' = [out EXCEPT ![p].err = e]
    PROVE  ServedTo' = ServedTo
<1>1. \A r \in Procs : out[r] \in Outcome
  BY DEF TypeOK
<1>2. \A r \in Procs : out'[r].result = out[r].result /\ out'[r].lines = out[r].lines
  BY <1>1 DEF TypeOK, Outcome
<1>3. ServedTo' = [r \in Procs |-> Served(out'[r])]
  BY Zenon DEF ServedTo, Served
<1>4. \A r \in Procs : Served(out'[r]) = Served(out[r])
  BY <1>2, Zenon DEF Served
<1> QED
  BY <1>3, <1>4 DEF ServedTo

\* Every step of a serial run is a step of the promise or changes nothing it
\* speaks of.
LEMMA RefinementStep ==
    /\ ~Concurrent /\ ~ClockStepsBack
    /\ IInv /\ SerialInv /\ PastInv /\ [Next]_vars
    => [LKG!Next]_(LKG!vars)
<1> SUFFICES ASSUME ~Concurrent, ~ClockStepsBack, IInv, SerialInv, PastInv, [Next]_vars
             PROVE  LKG!Next \/ UNCHANGED LKG!vars
  OBVIOUS
<1>t. /\ TypeOK /\ FilesInv /\ NothingBeforeDone /\ OneAtATime /\ WriterOwnsTmp
      /\ EntryIsWhole /\ ReplyIsPast /\ DropIsStale
  BY DEF IInv, OutInv, SerialInv, PastInv
<1>1. ASSUME NEW p \in Procs, NEW q \in Queries, Begin(p, q)
      PROVE  LKG!Next
  <2>1. /\ pc[p] = "idle" /\ job' = [job EXCEPT ![p] = q]
        /\ entry' = entry /\ clock' = clock
        /\ out' = out \/ Finish(p, Deny("error", "local"))
    BY <1>1, Zenon DEF Begin, cacheVars
  <2>2. ServedTo' = ServedTo
    BY <1>t, <2>1, SameView, DenialServesNothing
  <2> QED
    BY <2>1, <2>2, SameView, AskStep
<1>2. ASSUME NEW p \in Procs,
             LocalFailure(p) \/ ReceiveNone(p) \/ GetMiss(p) \/ Panic(p)
      PROVE  UNCHANGED LKG!vars
  <2>1. /\ pc[p] # "done"
        /\ entry' = entry /\ clock' = clock /\ job' = job
    BY <1>2 DEF LocalFailure, ReceiveNone, GetMiss, Panic, cacheVars, Running
  <2>2. PICK r \in {"empty", "error"}, e \in {"", "local", out[p].err} :
           Finish(p, Deny(r, e))
    BY <1>2, Zenon DEF LocalFailure, ReceiveNone, GetMiss, Panic
  <2>3. ServedTo' = ServedTo
    BY <1>t, <2>1, <2>2, DenialServesNothing, Zenon
  <2> QED
    BY <2>1, <2>3, SameView, Stutter
<1>3. ASSUME NEW p \in Procs, NEW s \in Statuses, ReceiveError(p, s)
      PROVE  UNCHANGED LKG!vars
  <2>1. /\ pc[p] = "fetch"
        /\ entry' = entry /\ clock' = clock /\ job' = job
        /\ \/ Finish(p, Deny("denied", sentinelFor(s)))
           \/ Finish(p, Deny("error", sentinelFor(s)))
           \/ out' = [out EXCEPT ![p].err = sentinelFor(s)]
    BY <1>3, Zenon DEF ReceiveError, cacheVars
  <2>2. ServedTo' = ServedTo
    BY <1>t, <2>1, DenialServesNothing, NoteServesNothing
  <2> QED
    BY <2>1, <2>2, SameView, Stutter
<1>4. ASSUME NEW p \in Procs,
             \/ PutOpen(p) \/ PutWrite(p) \/ PutWriteFails(p) \/ PutRenameFails(p)
             \/ GetStale(p) \/ Crash(p)
      PROVE  UNCHANGED LKG!vars
  <2>1. clock' = clock /\ job' = job /\ out' = out
    BY <1>4 DEF PutOpen, OpenTmp, PutWrite, PutWriteFails, WriteFile, PutRenameFails,
                GetStale, Crash, cacheVars
  <2>2. entry' = entry
    <3>1. CASE PutOpen(p) \/ PutRenameFails(p) \/ GetStale(p) \/ Crash(p)
      BY <3>1 DEF PutOpen, OpenTmp, PutRenameFails, GetStale, Crash, cacheVars
    <3>2. CASE PutWrite(p) \/ PutWriteFails(p)
      <4>1. fd[p] = "tmp"
        BY <1>t, <3>2 DEF PutWrite, PutWriteFails, Goto, WriterOwnsTmp
      <4> QED
        BY <3>2, <4>1 DEF PutWrite, PutWriteFails, WriteFile
    <3> QED
      BY <1>4, <3>1, <3>2
  <2> QED
    BY <2>1, <2>2, SameView, Stutter
<1>5. ASSUME NEW p \in Procs, NEW ls \in Answers, ReceiveKeys(p, ls)
      PROVE  LKG!Next \/ UNCHANGED LKG!vars
  <2> DEFINE a == [query |-> job[p], lines |-> ls, at |-> clock]
  <2>1. /\ entry' = entry /\ clock' = clock /\ job' = job /\ ls # <<>>
        /\ out' = out \/ Finish(p, Report("ok", ls, "", <<>>))
    BY <1>5, Zenon DEF ReceiveKeys, cacheVars
  <2>2. CASE out' = out
    BY <2>1, <2>2, SameView, Stutter
  <2>3. CASE Finish(p, Report("ok", ls, "", <<>>))
    <3>1. ServedTo' = [ServedTo EXCEPT ![p] = Served(Report("ok", ls, "", <<>>))]
      BY <1>t, <2>3, FinishServes, Zenon
    <3>2. Served(Report("ok", ls, "", <<>>)) = [by |-> "provider", lines |-> ls]
      BY ServedReport, Zenon
    <3>3. ServedTo' = [ServedTo EXCEPT ![p] = [by |-> "provider", lines |-> ls]]
      BY <3>1, <3>2, Zenon
    <3>n. ls # <<>>
      BY <2>1, Zenon
    <3>4. a \in Stored /\ a.query = job[p] /\ a.at <= clock /\ a.lines = ls
      BY <1>t, <3>n, KeyCacheAssumption DEF TypeOK, CacheTypeOK, Stored
    <3>5. ServedTo' = [ServedTo EXCEPT ![p] = [by |-> "provider", lines |-> a.lines]]
      BY <3>3, <3>4
    <3> HIDE DEF a
    <3> QED
      BY <2>1, <3>4, <3>5, SameView, AnswerStep
  <2> QED
    BY <2>1, <2>2, <2>3
<1>6. ASSUME NEW p \in Procs, PutOpenFails(p) \/ PutUndo(p)
      PROVE  LKG!Next
  <2>1. /\ pc[p] \in {"open", "undo"} /\ Finish(p, Answered(p))
        /\ entry' = entry /\ clock' = clock /\ job' = job
    BY <1>6 DEF PutOpenFails, PutUndo, RemoveTmp, cacheVars
  <2>2. reply[p] \in Stored /\ reply[p].query = job[p] /\ reply[p].at <= clock
    BY <1>t, <2>1 DEF FilesInv, PutHoldsAnswer, ReplyIsPast
  <2>3. ServedTo' = [ServedTo EXCEPT ![p] = [by |-> "provider", lines |-> reply[p].lines]]
    BY <1>t, <2>1, AnsweredServes
  <2> QED
    BY <2>1, <2>2, <2>3, SameView, AnswerStep
<1>7. ASSUME NEW p \in Procs, PutRename(p)
      PROVE  LKG!Next
  <2>1. /\ pc[p] = "rename" /\ Finish(p, Answered(p))
        /\ entry' = [entry EXCEPT ![Target(p)] = tmp[Target(p)]]
        /\ clock' = clock /\ job' = job
    BY <1>7 DEF PutRename, RenameTmp
  <2>2. /\ reply[p] \in Stored /\ reply[p].query = job[p] /\ reply[p].at <= clock
        /\ Target(p) \in Paths /\ Target(p) = PathOf[reply[p].query]
        /\ tmp[Target(p)] = File(reply[p])
    BY <1>t, <2>1 DEF FilesInv, PutHoldsAnswer, ReplyIsPast, WriterOwnsTmp, Target
  <2>3. ServedTo' = [ServedTo EXCEPT ![p] = [by |-> "provider", lines |-> reply[p].lines]]
    BY <1>t, <2>1, AnsweredServes
  <2>4. File(reply[p]) # NoFile /\ File(reply[p])[1].of = reply[p]
    BY <2>2, FileIsAnswer
  <2>5. /\ entry'[Target(p)] = File(reply[p])
        /\ \A k \in Paths : k # Target(p) => entry'[k] = entry[k]
    BY <1>t, <2>1, <2>2 DEF TypeOK, CacheTypeOK
  <2>6. Known' = [Known EXCEPT ![Target(p)] = reply[p]]
    BY <2>2, <2>4, <2>5 DEF Known
  <2> QED
    BY <2>1, <2>2, <2>3, <2>6, AnswerStep
<1>8. ASSUME NEW p \in Procs, GetHit(p)
      PROVE  LKG!Next
  <2> DEFINE k == Target(p)
  <2>1. /\ entry[k] # NoFile /\ Young(entry[k]) /\ Cacheable(job[p])
        /\ Finish(p, Report("cache", LinesOf(entry[k]), out[p].err, entry[k]))
        /\ entry' = entry /\ clock' = clock /\ job' = job
    BY <1>8, Zenon DEF GetHit, Found, cacheVars
  <2>2. k \in Paths /\ k = PathOf[job[p]]
    BY <1>t, <2>1, KeyCacheAssumption DEF TypeOK, Cacheable, Target
  <2>3. PICK a \in Stored : entry[k][1].of = a /\ entry[k] = File(a)
    BY <1>t, <2>1, <2>2, EntryHasAnswer
  <2>4. LinesOf(entry[k]) = a.lines /\ LKG!Recent(a)
    BY <1>t, <2>1, <2>3, FileIsAnswer, YoungIsRecent
  <2>5. Known[k] = a
    BY <2>1, <2>2, <2>3 DEF Known
  <2>6. ServedTo' = [ServedTo EXCEPT ![p] = [by |-> "memory", lines |-> a.lines]]
    <3>1. ServedTo' = [ServedTo EXCEPT ![p] =
             Served(Report("cache", LinesOf(entry[k]), out[p].err, entry[k]))]
      BY <1>t, <2>1, FinishServes, Zenon
    <3>2. Served(Report("cache", LinesOf(entry[k]), out[p].err, entry[k])) =
             [by |-> "memory", lines |-> LinesOf(entry[k])]
      BY ServedReport, Zenon
    <3> QED
      BY <2>4, <3>1, <3>2, Zenon
  <2> QED
    BY <2>1, <2>2, <2>4, <2>5, <2>6, SameView, KnownStep
<1>9. ASSUME NEW p \in Procs, GetRemove(p)
      PROVE  LKG!Next
  <2> DEFINE k == Target(p)
  <2>1. /\ pc[p] = "drop" /\ Finish(p, Deny("error", out[p].err))
        /\ entry' = [entry EXCEPT ![k] = NoFile]
        /\ clock' = clock /\ job' = job
    BY <1>9 DEF GetRemove, RemoveEntry
  <2>2. k \in Paths /\ entry[k] # NoFile /\ ~Young(entry[k])
    BY <1>t, <2>1 DEF FilesInv, DropHasFile, Target, DropIsStale
  <2>3. PICK a \in Stored : entry[k][1].of = a /\ entry[k] = File(a)
    BY <1>t, <2>2, EntryHasAnswer
  <2>4. ~LKG!Recent(a)
    BY <1>t, <2>2, <2>3, YoungIsRecent
  <2>5. Known[k] = a
    BY <2>2, <2>3 DEF Known
  <2>6. /\ entry'[k] = NoFile
        /\ \A j \in Paths : j # k => entry'[j] = entry[j]
    BY <1>t, <2>1, <2>2 DEF TypeOK, CacheTypeOK
  <2>7. Known' = [Known EXCEPT ![k] = NoFile]
    BY <2>2, <2>6 DEF Known
  <2>8. ServedTo' = ServedTo
    BY <1>t, <2>1, DenialServesNothing
  <2> QED
    BY <2>1, <2>2, <2>4, <2>5, <2>7, <2>8, ForgetStep
<1>10. ASSUME Time
       PROVE  LKG!Next
  <2>1. /\ clock < MaxClock /\ clock' = clock + 1
        /\ job' = job /\ out' = out /\ entry' = entry
    BY <1>10 DEF Time, Tick, procVars
  <2> QED
    BY <2>1, SameView, TickStep
<1>11. ASSUME UNCHANGED vars
       PROVE  UNCHANGED LKG!vars
  <2>1. clock' = clock /\ job' = job /\ out' = out /\ entry' = entry
    BY <1>11 DEF vars
  <2> QED
    BY <2>1, SameView, Stutter
<1> QED
  BY <1>1, <1>2, <1>3, <1>4, <1>5, <1>6, <1>7, <1>8, <1>9, <1>10, <1>11
     DEF Next, Fetch, Put, Get

-----------------------------------------------------------------------------
(* What is served *)

\* With one login at a time, what Get serves is one whole answer.
LEMMA ServedStep ==
    ASSUME TypeOK, EntryIsWhole, NothingBeforeDone, ServedIsWhole, [Next]_vars
    PROVE  ServedIsWhole'
<1>1. ASSUME NEW p \in Procs,
             \A r \in Procs : r # p => out'[r] = out[r],
             out'[p].result # "cache" \/ out'[p] = out[p]
      PROVE  ServedIsWhole'
  BY <1>1 DEF ServedIsWhole
<1>2. ASSUME NEW p \in Procs, NEW r \in {"ok", "empty", "denied", "error"}, NEW ls, NEW e,
             Finish(p, Report(r, ls, e, <<>>))
      PROVE  ServedIsWhole'
  <2>1. out'[p].result = r /\ \A q \in Procs : q # p => out'[q] = out[q]
    BY <1>2 DEF Finish, Report, TypeOK
  <2> QED
    BY <1>1, <2>1
<1>3. CASE out' = out
  BY <1>3 DEF ServedIsWhole
<1>4. ASSUME NEW p \in Procs, NEW q \in Queries, Begin(p, q)
      PROVE  ServedIsWhole'
  BY <1>2, <1>3, <1>4 DEF Begin, Deny
<1>5. ASSUME NEW p \in Procs, LocalFailure(p) \/ Panic(p) \/ ReceiveNone(p)
      PROVE  ServedIsWhole'
  BY <1>2, <1>5 DEF LocalFailure, Panic, ReceiveNone, Deny
<1>6. ASSUME NEW p \in Procs, NEW ls \in Answers, ReceiveKeys(p, ls)
      PROVE  ServedIsWhole'
  BY <1>2, <1>3, <1>6 DEF ReceiveKeys
<1>7. ASSUME NEW p \in Procs, NEW st \in Statuses, ReceiveError(p, st)
      PROVE  ServedIsWhole'
  <2>1. CASE sentinelFor(st) # ErrUnavailable
    BY <1>2, <1>7, <2>1 DEF ReceiveError, Deny
  <2>2. CASE sentinelFor(st) = ErrUnavailable
    <3>1. pc[p] = "fetch" /\ out' = [out EXCEPT ![p].err = ErrUnavailable]
      BY <1>7, <2>2 DEF ReceiveError, Goto, Refusals, ErrUnavailable
    <3>2. out[p] \in Outcome /\ out[p].result = "none"
      BY <3>1 DEF NothingBeforeDone, TypeOK
    <3>3. out'[p].result = "none" /\ \A r \in Procs : r # p => out'[r] = out[r]
      BY <3>1, <3>2 DEF TypeOK, Outcome
    <3> QED
      BY <1>1, <3>3
  <2> QED
    BY <2>1, <2>2
<1>8. ASSUME NEW p \in Procs, PutOpenFails(p) \/ PutRename(p) \/ PutUndo(p)
      PROVE  ServedIsWhole'
  BY <1>2, <1>8 DEF PutOpenFails, PutRename, PutUndo, Answered
<1>9. ASSUME NEW p \in Procs, \/ PutOpen(p) \/ PutWrite(p) \/ PutWriteFails(p)
                              \/ PutRenameFails(p) \/ GetStale(p) \/ Crash(p)
      PROVE  ServedIsWhole'
  BY <1>3, <1>9 DEF PutOpen, PutWrite, PutWriteFails, PutRenameFails, GetStale, Crash
<1>10. ASSUME NEW p \in Procs, GetMiss(p) \/ GetRemove(p)
       PROVE  ServedIsWhole'
  BY <1>2, <1>10 DEF GetMiss, GetRemove, Deny
<1>11. ASSUME NEW p \in Procs, GetHit(p)
       PROVE  ServedIsWhole'
  <2> DEFINE c == entry[Target(p)]
  <2>1. Target(p) \in Paths
    BY <1>11, KeyCacheAssumption DEF GetHit, Found, Cacheable, Target, TypeOK
  <2>2. c # NoFile
    BY <1>11 DEF GetHit, Found
  <2>3. c # <<>> /\ c = File(c[1].of)
    BY <2>1, <2>2 DEF EntryIsWhole
  <2>4. out'[p].read = c /\ \A r \in Procs : r # p => out'[r] = out[r]
    BY <1>11 DEF GetHit, Finish, Report, TypeOK
  <2> QED
    BY <2>3, <2>4 DEF ServedIsWhole
<1>12. ASSUME Time \/ UNCHANGED vars
       PROVE  ServedIsWhole'
  BY <1>3, <1>12 DEF Time, procVars, vars
<1> QED
  BY <1>4, <1>5, <1>6, <1>7, <1>8, <1>9, <1>10, <1>11, <1>12 DEF Next, Fetch, Put, Get

\* A whole answer is as old as its header.
LEMMA WholeIsYoung ==
    ASSUME TypeOK, ServedIsWhole, HeaderIsYoung
    PROVE  ServedIsYoung
<1> SUFFICES ASSUME NEW p \in Procs, out[p].result = "cache", NEW i \in 1..Len(out[p].read)
             PROVE  out[p].at - out[p].read[i].of.at \in (1 - Second)..TTL
  BY DEF ServedIsYoung
<1> DEFINE c == out[p].read
           a == c[1].of
<1>1. c \in Seq(Block) /\ c # <<>> /\ c = File(a)
  BY DEF ServedIsWhole, TypeOK, Outcome, Content
<1>2. a \in Stored
  <2>1. c[1] \in Block
    BY <1>1
  <2> QED
    BY <2>1 DEF Block
<1>3. Len(File(a)) = Len(a.lines) + 1
  BY <1>2, FileAligned
<1>4. out[p].at - a.at \in (1 - Second)..TTL
  BY DEF HeaderIsYoung
<1>5. File(a)[i].of = a
  <2>1. i \in 1..(Len(a.lines) + 1)
    BY <1>1, <1>3
  <2> HIDE DEF a
  <2>2. File(a)[i] = [of |-> a, n |-> i - 1]
    BY <2>1 DEF File
  <2> QED
    BY <2>2
<1>6. c[i].of = a
  BY <1>1, <1>5
<1> QED
  BY <1>4, <1>6

-----------------------------------------------------------------------------
(* Theorems *)

\* No file and no process: both invariants hold at first.
LEMMA SerialInit == Init => SerialInv /\ PastInv
  BY DEF Init, CacheInit, SerialInv, OneAtATime, WriterOwnsTmp, EntryIsWhole, PastInv,
         EntryIsPast, ReplyIsPast, DropIsStale, Running

\* The initial states are initial states of the promise.
LEMMA RefinementInit == Init => LKG!Init
<1> SUFFICES ASSUME Init PROVE LKG!Init
  OBVIOUS
<1>1. clock = 0 /\ entry = [k \in Paths |-> NoFile]
  BY DEF Init, CacheInit
<1>2. job \in [Procs -> Queries]
  BY AuthorizedKeysAssumption DEF Init
<1>3. Known = [k \in Paths |-> NoFile]
  BY <1>1 DEF Known
<1>4. \A p \in Procs : pc[p] = "idle" /\ out[p].lines = <<>> /\ out[p].result = "none"
  BY DEF Init, NoOutcome
<1>5. NothingBeforeDone
  BY <1>4 DEF NothingBeforeDone
<1>6. \A p \in Procs : ServedTo[p] = Nobody
  BY <1>4, <1>5, UnservedYet
<1>7. ServedTo = [p \in Procs |-> Nobody]
  BY <1>6 DEF ServedTo
<1> QED
  BY <1>1, <1>2, <1>3, <1>7, Zenon DEF LKG!Init, LKG!Nobody, Nobody, Known, ServedTo

\* With one login at a time the invariant of the files holds.
LEMMA SerialInvariant == ~Concurrent => (Spec => []SerialInv)
<1> SUFFICES ASSUME ~Concurrent PROVE Spec => []SerialInv
  OBVIOUS
<1>1. IInv /\ SerialInv /\ [Next]_vars => SerialInv'
  BY SerialStep
<1> QED
  BY <1>1, SerialInit, Invariant, PTL DEF Spec

\* And with a clock that is not set back, that of the times.
LEMMA PastInvariant == ~Concurrent /\ ~ClockStepsBack => (Spec => []PastInv)
<1> SUFFICES ASSUME ~Concurrent, ~ClockStepsBack PROVE Spec => []PastInv
  OBVIOUS
<1>1. IInv /\ SerialInv /\ PastInv /\ [Next]_vars => PastInv'
  BY PastStep
<1>2. Spec => []SerialInv
  BY SerialInvariant
<1> QED
  BY <1>1, <1>2, SerialInit, Invariant, PTL DEF Spec

\* cache.go:81-82: one login at a time, each free to fail or die at any system
\* call of Put, never leaves a partial entry behind, whatever the clock does.
THEOREM EntryWhole == ~Concurrent => (Spec => []EntryIsWhole)
<1> SUFFICES ASSUME ~Concurrent PROVE Spec => []EntryIsWhole
  OBVIOUS
<1>1. SerialInv => EntryIsWhole
  BY DEF SerialInv
<1>2. Spec => []SerialInv
  BY SerialInvariant
<1> QED
  BY <1>1, <1>2, PTL

\* README.md:223, cache.go:8: with one login at a time no key line is served
\* later than cache_ttl after the answer it came with, for every TTL and clock
\* resolution, also when the clock is set back.
THEOREM ServedYoung == ~Concurrent => (Spec => []ServedIsYoung)
<1> SUFFICES ASSUME ~Concurrent PROVE Spec => []ServedIsYoung
  OBVIOUS
<1>1. Init => ServedIsWhole
  <2>1. ASSUME Init, NEW p \in Procs PROVE out[p].result # "cache"
    BY <2>1 DEF Init, NoOutcome
  <2> QED
    BY <2>1 DEF ServedIsWhole
<1>2. IInv /\ SerialInv /\ ServedIsWhole /\ [Next]_vars => ServedIsWhole'
  <2>1. IInv /\ SerialInv => TypeOK /\ NothingBeforeDone /\ EntryIsWhole
    BY DEF IInv, OutInv, SerialInv
  <2> QED
    BY <2>1, ServedStep
<1>3. IInv /\ ServedIsWhole => ServedIsYoung
  BY WholeIsYoung DEF IInv, OutInv
<1>4. Spec => []SerialInv
  BY SerialInvariant
<1> QED
  BY <1>1, <1>2, <1>3, <1>4, Invariant, PTL DEF Spec

\* Get removes only what it may no longer serve: between its read and its
\* os.Remove nothing younger takes the path.
THEOREM YoungSurvives == ~Concurrent /\ ~ClockStepsBack => (Spec => YoungEntrySurvives)
<1> SUFFICES ASSUME ~Concurrent, ~ClockStepsBack PROVE Spec => YoungEntrySurvives
  OBVIOUS
<1>1. ASSUME IInv, SerialInv, PastInv, Next, NEW k \in Paths,
             entry[k] # NoFile, Young(entry[k])
      PROVE  entry'[k] # NoFile
  <2>t. TypeOK /\ FilesInv /\ WriterOwnsTmp /\ DropIsStale
    BY <1>1 DEF IInv, SerialInv, PastInv
  <2>1. ASSUME NEW p \in Procs, PutWrite(p) \/ PutWriteFails(p)
        PROVE  entry' = entry
    <3>1. fd[p] = "tmp"
      BY <2>t, <2>1 DEF PutWrite, PutWriteFails, Goto, WriterOwnsTmp
    <3> QED
      BY <2>1, <3>1 DEF PutWrite, PutWriteFails, WriteFile
  <2>2. ASSUME NEW p \in Procs, PutRename(p)
        PROVE  entry'[k] # NoFile
    BY <1>1, <2>t, <2>2 DEF PutRename, RenameTmp, TypeOK, CacheTypeOK
  <2>3. ASSUME NEW p \in Procs, GetRemove(p)
        PROVE  entry'[k] # NoFile
    <3>1. pc[p] = "drop" /\ entry' = [entry EXCEPT ![Target(p)] = NoFile]
      BY <2>3 DEF GetRemove, RemoveEntry
    <3>2. k # Target(p)
      BY <1>1, <2>t, <3>1 DEF DropIsStale
    <3> QED
      BY <1>1, <2>t, <3>1, <3>2 DEF TypeOK, CacheTypeOK
  <2>4. ASSUME NEW p \in Procs,
               \/ \E q \in Queries : Begin(p, q)
               \/ Fetch(p) \/ Panic(p) \/ Crash(p)
        PROVE  entry' = entry
    BY <2>4, Zenon DEF Begin, Fetch, LocalFailure, ReceiveNone, ReceiveKeys,
                       ReceiveError, Panic, Crash, cacheVars
  <2>5. ASSUME NEW p \in Procs,
               \/ PutOpen(p) \/ PutOpenFails(p) \/ PutRenameFails(p) \/ PutUndo(p)
               \/ GetMiss(p) \/ GetHit(p) \/ GetStale(p)
        PROVE  entry' = entry
    BY <2>5 DEF PutOpen, OpenTmp, PutOpenFails, PutRenameFails, PutUndo, RemoveTmp,
                GetMiss, GetHit, GetStale, cacheVars
  <2>6. ASSUME Time
        PROVE  entry' = entry
    BY <2>6 DEF Time, Tick, StepBack
  <2> QED
    BY <1>1, <2>1, <2>2, <2>3, <2>4, <2>5, <2>6 DEF Next, Put, Get
<1>2. IInv /\ SerialInv /\ PastInv /\ [Next]_vars
        => [\A k \in Paths :
              entry[k] # NoFile /\ Young(entry[k]) => entry'[k] # NoFile]_vars
  BY <1>1
<1>3. Spec => []SerialInv /\ []PastInv
  BY SerialInvariant, PastInvariant
<1> QED
  BY <1>2, <1>3, Invariant, PTL DEF Spec, YoungEntrySurvives

\* Put and Get implement the promise of the last-known-good cache, for any
\* accounts, answers, cache_ttl and failures of the file system.
THEOREM Refinement == ~Concurrent /\ ~ClockStepsBack => (Spec => ImplementsLastKnownGood)
<1> SUFFICES ASSUME ~Concurrent, ~ClockStepsBack PROVE Spec => ImplementsLastKnownGood
  OBVIOUS
<1>1. IInv /\ SerialInv /\ PastInv /\ [Next]_vars => [LKG!Next]_(LKG!vars)
  BY RefinementStep
<1>2. Spec => []SerialInv /\ []PastInv
  BY SerialInvariant, PastInvariant
<1> QED
  BY <1>1, <1>2, RefinementInit, Invariant, PTL
     DEF Spec, ImplementsLastKnownGood, LKG!Spec
=============================================================================
