------------------------ MODULE AuthorizedKeysProofs ------------------------
(***************************************************************************)
(* What holds of any number of overlapping `authorized-keys` processes,    *)
(* any queries and answers, and a clock that may be set back.              *)
(***************************************************************************)
EXTENDS AuthorizedKeys, SequenceTheorems, TLAPS

\* A file of path k: every block sits at its own place and comes from an
\* answer for k.
Aligned(c, k) ==
    \A i \in 1..Len(c) :
        /\ c[i].n = i - 1
        /\ i - 1 <= Len(c[i].of.lines)
        /\ PathOf[c[i].of.query] = k

FilesAligned ==
    \A k \in Paths :
        /\ entry[k] # NoFile => Aligned(entry[k], k)
        /\ tmp[k] # NoFile => Aligned(tmp[k], k)

\* What a process in the middle of Put holds.
PutHoldsAnswer ==
    \A p \in Procs : pc[p] \in {"open", "write", "rename", "undo"} =>
        /\ reply[p] \in Stored
        /\ reply[p].query = job[p]
        /\ PathOf[job[p]] \in Paths

\* Only an outage leads to Get.
GetAfterOutage ==
    \A p \in Procs : pc[p] \in {"get", "drop"} => out[p].err = ErrUnavailable

\* A removal by Get has a file to name.
DropHasFile ==
    \A p \in Procs : pc[p] = "drop" => PathOf[job[p]] \in Paths

NothingBeforeDone ==
    \A p \in Procs : pc[p] # "done" => out[p].lines = <<>> /\ out[p].result = "none"

FilesInv ==
    /\ OpenFilesLinked
    /\ FilesAligned
    /\ PutHoldsAnswer
    /\ DropHasFile

OutInv ==
    /\ GetAfterOutage
    /\ NothingBeforeDone
    /\ ServesDecisionOrOutage
    /\ HeaderIsYoung
    /\ ServedStaysInItsFile

\* OutInv for one process.
OutOK(p) ==
    /\ pc[p] \in {"get", "drop"} => out[p].err = ErrUnavailable
    /\ pc[p] # "done" => out[p].lines = <<>> /\ out[p].result = "none"
    /\ pc[p] = "done" /\ out[p].lines # <<>> =>
          \/ out[p].result = "ok" /\ out[p].lines = reply[p].lines
          \/ out[p].result = "cache" /\ out[p].err = ErrUnavailable
    /\ out[p].result = "cache" =>
          /\ out[p].at - out[p].read[1].of.at \in (1 - Second)..TTL
          /\ \A i \in 1..Len(out[p].read) :
                /\ PathOf[out[p].read[i].of.query] = PathOf[job[p]]
                /\ out[p].read[i].n \in 0..Len(out[p].read[i].of.lines)

IInv == TypeOK /\ FilesInv /\ OutInv

-----------------------------------------------------------------------------
(* Files *)

\* Put's bytes are a well-placed file of its query's path.
LEMMA FileAligned ==
    ASSUME NEW a \in Stored
    PROVE  /\ File(a) \in Content
           /\ Len(File(a)) = Len(a.lines) + 1
           /\ Aligned(File(a), PathOf[a.query])
<1>1. a.lines \in Seq(Lines)
  BY KeyCacheAssumption DEF Stored
<1>2. Len(a.lines) \in Nat
  BY <1>1
<1>3. \A i \in 1..(Len(a.lines) + 1) : [of |-> a, n |-> i - 1] \in Block
  BY <1>2 DEF Block
<1>4. File(a) \in [1..(Len(a.lines) + 1) -> Block]
  BY <1>3 DEF File
<1>5. File(a) \in Seq(Block) /\ Len(File(a)) = Len(a.lines) + 1
  BY <1>2, <1>4
<1> QED
  BY <1>2, <1>5 DEF Content, Aligned, File

\* A short write leaves a prefix of them.
LEMMA PrefixAligned ==
    ASSUME NEW c \in Content, NEW k, Aligned(c, k), NEW n \in 0..Len(c)
    PROVE  SubSeq(c, 1, n) \in Content /\ Aligned(SubSeq(c, 1, n), k)
<1>1. c \in Seq(Block) /\ Len(c) \in Nat
  BY DEF Content
<1>2. /\ SubSeq(c, 1, n) \in Seq(Block)
      /\ Len(SubSeq(c, 1, n)) = n
      /\ \A i \in 1..n : SubSeq(c, 1, n)[i] = c[i]
  BY <1>1
<1> QED
  BY <1>1, <1>2 DEF Content, Aligned

\* Writing over a file of the same path keeps every block in its place.
LEMMA OverwriteAligned ==
    ASSUME NEW old \in Content, NEW new \in Content, NEW k,
           Aligned(old, k), Aligned(new, k)
    PROVE  Overwrite(old, new) \in Content /\ Aligned(Overwrite(old, new), k)
<1> DEFINE rest == SubSeq(old, Len(new) + 1, Len(old))
<1>1. /\ old \in Seq(Block) /\ Len(old) \in Nat
      /\ new \in Seq(Block) /\ Len(new) \in Nat
  BY DEF Content
<1>2. /\ rest \in Seq(Block)
      /\ Len(rest) = IF Len(new) + 1 <= Len(old) THEN Len(old) - Len(new) ELSE 0
      /\ \A i \in 1..Len(rest) : rest[i] = old[Len(new) + i]
  BY <1>1
<1>3. /\ new \o rest \in Seq(Block)
      /\ Len(new \o rest) = Len(new) + Len(rest)
      /\ \A i \in 1..Len(new \o rest) :
            (new \o rest)[i] = IF i <= Len(new) THEN new[i] ELSE rest[i - Len(new)]
  BY <1>1, <1>2
<1>4. \A i \in 1..Len(new \o rest) :
         (new \o rest)[i] = IF i <= Len(new) THEN new[i] ELSE old[i]
  BY <1>1, <1>2, <1>3
<1>5. \A i \in 1..Len(new \o rest) : i > Len(new) => i \in 1..Len(old)
  BY <1>1, <1>2, <1>3
<1>6. Aligned(new \o rest, k)
  BY <1>1, <1>3, <1>4, <1>5 DEF Aligned
<1> QED
  BY <1>3, <1>6 DEF Overwrite, Content

-----------------------------------------------------------------------------
(* The inductive step *)

\* The constants a step builds its values from.
LEMMA Constants ==
    /\ <<>> \in Content
    /\ <<>> \in Seq(Lines)
    /\ NoFile # <<>>
    /\ 0 \in 0..MaxClock
    /\ NoReply \notin Stored
    /\ NoReply.lines = <<>>
    /\ NoOutcome \in Outcome
<1>1. <<>> \in Content /\ <<>> \in Seq(Lines)
  BY DEF Content
<1>2. NoFile # <<>>
  BY <1>1, KeyCacheAssumption
<1>3. 0 \in 0..MaxClock
  BY KeyCacheAssumption
<1>4. NoReply.lines = <<>>
  BY DEF NoReply
<1>5. \A a \in Stored : a.lines # <<>>
  BY DEF Stored
<1>6. NoOutcome \in Outcome
  BY <1>1, <1>3 DEF NoOutcome, Outcome, Results
<1> QED
  BY <1>1, <1>2, <1>3, <1>4, <1>5, <1>6

\* Every outcome with lines and file of the right kind is an outcome.
LEMMA OutcomeType ==
    ASSUME NEW r \in Results, NEW ls \in Seq(Lines), NEW t \in 0..MaxClock,
           NEW e \in Errors \cup {"", "local"}, NEW c \in Content
    PROVE  [result |-> r, lines |-> ls, err |-> e, read |-> c, at |-> t] \in Outcome
  BY DEF Outcome

\* What Report returns is an outcome.
LEMMA ReportType ==
    ASSUME TypeOK, NEW r \in Results, NEW ls \in Seq(Lines),
           NEW e \in Errors \cup {"", "local"}, NEW c \in Content
    PROVE  Report(r, ls, e, c) \in Outcome
<1>1. clock \in 0..MaxClock
  BY DEF TypeOK, CacheTypeOK
<1>2. CASE r \in {"cache", "empty"}
  <2>1. Report(r, ls, e, c) =
          [result |-> r, lines |-> ls, err |-> e, read |-> c, at |-> clock]
    BY <1>2 DEF Report
  <2> QED
    BY <1>1, <2>1, OutcomeType
<1>3. CASE r \notin {"cache", "empty"}
  <2>1. Report(r, ls, e, c) =
          [result |-> r, lines |-> ls, err |-> e, read |-> c, at |-> 0]
    BY <1>3 DEF Report
  <2>2. 0 \in 0..MaxClock
    BY Constants
  <2>3. [result |-> r, lines |-> ls, err |-> e, read |-> c, at |-> 0] \in Outcome
    BY <2>2, OutcomeType
  <2> QED
    BY <2>1, <2>3
<1> QED
  BY <1>2, <1>3

\* A process that finishes with an outcome leaves pc and out well typed.
LEMMA FinishType ==
    ASSUME TypeOK, NEW p \in Procs, NEW o \in Outcome, Finish(p, o)
    PROVE  pc' \in [Procs -> Steps] /\ out' \in [Procs -> Outcome]
  BY DEF TypeOK, Finish, Steps

\* A denial is an outcome.
LEMMA DenyType ==
    ASSUME TypeOK, NEW r \in Results, NEW e \in Errors \cup {"", "local"}
    PROVE  Deny(r, e) \in Outcome
  BY Constants, ReportType DEF Deny

\* Every block comes from an answer made of key lines.
LEMMA BlockLines ==
    ASSUME NEW c \in Content
    PROVE  \A i \in 1..Len(c) : c[i].of.lines \in Seq(Lines)
<1> SUFFICES ASSUME NEW i \in 1..Len(c)
             PROVE  c[i].of.lines \in Seq(Lines)
  OBVIOUS
<1>1. c[i] \in Block
  BY DEF Content
<1> QED
  BY <1>1, KeyCacheAssumption DEF Block, Stored

\* The lines of a well-placed file are key lines.
LEMMA LinesOfType ==
    ASSUME NEW c \in Content, NEW k, Aligned(c, k), WellFormed(c)
    PROVE  LinesOf(c) \in Seq(Lines)
<1>1. c \in Seq(Block) /\ Len(c) \in Nat /\ Len(c) > 1
  BY DEF Content, WellFormed
<1>2. ASSUME NEW i \in 1..(Len(c) - 1)
      PROVE  c[i + 1].of.lines[c[i + 1].n] \in Lines
  <2>1. i + 1 \in 1..Len(c) /\ c[i + 1] \in Block
    BY <1>1
  <2>2. c[i + 1].of.lines \in Seq(Lines)
    BY <2>1, KeyCacheAssumption DEF Block, Stored
  <2>3. c[i + 1].n = i /\ i <= Len(c[i + 1].of.lines)
    BY <1>1, <2>1 DEF Aligned
  <2> QED
    BY <2>2, <2>3
<1>3. LinesOf(c) \in [1..(Len(c) - 1) -> Lines]
  BY <1>2 DEF LinesOf
<1> QED
  BY <1>1, <1>3

-----------------------------------------------------------------------------
(* Every step keeps the types *)

\* What a step of Put or Get does to the files.
LEMMA WriteFileType ==
    ASSUME TypeOK, FilesInv, NEW p \in Procs, pc[p] = "write",
           NEW bytes \in Content, Aligned(bytes, Target(p)),
           WriteFile(p, Target(p), bytes)
    PROVE  CacheTypeOK' /\ FilesAligned'
<1> DEFINE k == Target(p)
<1>1. k \in Paths
  BY DEF FilesInv, PutHoldsAnswer, Target
<1>2. CASE fd[p] = "tmp"
  <2>1. tmp[k] \in Content /\ Aligned(tmp[k], k)
    BY <1>1, <1>2 DEF TypeOK, CacheTypeOK, FilesInv, OpenFilesLinked, FilesAligned
  <2>2. Overwrite(tmp[k], bytes) \in Content /\ Aligned(Overwrite(tmp[k], bytes), k)
    BY <2>1, OverwriteAligned
  <2>3. tmp' = [tmp EXCEPT ![k] = Overwrite(tmp[k], bytes)] /\ entry' = entry
    BY <1>2 DEF WriteFile
  <2>4. CacheTypeOK'
    BY <1>1, <2>2, <2>3 DEF TypeOK, CacheTypeOK, WriteFile
  <2>5. FilesAligned'
    BY <1>1, <2>2, <2>3 DEF FilesInv, FilesAligned, TypeOK, CacheTypeOK
  <2> QED
    BY <2>4, <2>5
<1>3. CASE fd[p] = "entry"
  <2>1. entry[k] \in Content /\ Aligned(entry[k], k)
    BY <1>1, <1>3 DEF TypeOK, CacheTypeOK, FilesInv, OpenFilesLinked, FilesAligned
  <2>2. Overwrite(entry[k], bytes) \in Content /\ Aligned(Overwrite(entry[k], bytes), k)
    BY <2>1, OverwriteAligned
  <2>3. entry' = [entry EXCEPT ![k] = Overwrite(entry[k], bytes)] /\ tmp' = tmp
    BY <1>3 DEF WriteFile
  <2>4. CacheTypeOK'
    BY <1>1, <2>2, <2>3 DEF TypeOK, CacheTypeOK, WriteFile
  <2>5. FilesAligned'
    BY <1>1, <2>2, <2>3 DEF FilesInv, FilesAligned, TypeOK, CacheTypeOK
  <2> QED
    BY <2>4, <2>5
<1>4. CASE fd[p] \notin {"tmp", "entry"}
  <2>1. entry' = entry /\ tmp' = tmp
    BY <1>4 DEF WriteFile
  <2> QED
    BY <2>1 DEF TypeOK, CacheTypeOK, WriteFile, FilesInv, FilesAligned
<1> QED
  BY <1>2, <1>3, <1>4

\* The answer Put is about to serve.
LEMMA AnsweredType ==
    ASSUME TypeOK, FilesInv, NEW p \in Procs,
           pc[p] \in {"open", "write", "rename", "undo"}
    PROVE  Answered(p) \in Outcome
<1>1. reply[p].lines \in Seq(Lines)
  BY KeyCacheAssumption DEF FilesInv, PutHoldsAnswer, Stored
<1> QED
  BY <1>1, Constants, ReportType DEF Answered, Results

\* Type correctness is preserved, given that open files are linked and aligned.
LEMMA TypeStep ==
    TypeOK /\ FilesInv /\ GetAfterOutage /\ [Next]_vars => TypeOK'
<1> SUFFICES ASSUME TypeOK, FilesInv, GetAfterOutage, [Next]_vars
             PROVE  TypeOK'
  OBVIOUS
<1>deny. \A r \in Results, e \in Errors \cup {"", "local"} : Deny(r, e) \in Outcome
  BY DenyType
<1>err. \A p \in Procs : out[p].err \in Errors \cup {"", "local"}
  BY DEF TypeOK, Outcome
<1>1. ASSUME NEW p \in Procs, NEW q \in Queries, Begin(p, q)
      PROVE  TypeOK'
  <2>1. pc' \in [Procs -> Steps] /\ out' \in [Procs -> Outcome]
    BY <1>1, <1>deny, FinishType DEF Begin, Goto, TypeOK, Steps, Running, Results
  <2> QED
    BY <1>1, <2>1 DEF Begin, TypeOK, CacheTypeOK, cacheVars
<1>2. ASSUME NEW p \in Procs, LocalFailure(p)
      PROVE  TypeOK'
  <2>1. pc' \in [Procs -> Steps] /\ out' \in [Procs -> Outcome]
    BY <1>2, <1>deny, FinishType DEF LocalFailure, Results
  <2> QED
    BY <1>2, <2>1 DEF LocalFailure, TypeOK, CacheTypeOK, cacheVars
<1>3. ASSUME NEW p \in Procs, ReceiveNone(p)
      PROVE  TypeOK'
  <2>1. pc' \in [Procs -> Steps] /\ out' \in [Procs -> Outcome]
    BY <1>3, <1>deny, FinishType DEF ReceiveNone, Results
  <2> QED
    BY <1>3, <2>1 DEF ReceiveNone, TypeOK, CacheTypeOK, cacheVars
<1>4. ASSUME NEW p \in Procs, NEW ls \in Answers, ReceiveKeys(p, ls)
      PROVE  TypeOK'
  <2>1. ls \in Seq(Lines) /\ ls # <<>>
    BY <1>4, KeyCacheAssumption DEF ReceiveKeys
  <2>2. [query |-> job[p], lines |-> ls, at |-> clock] \in Stored
    BY <2>1 DEF TypeOK, CacheTypeOK, Stored
  <2>3. reply' \in [Procs -> Stored \cup {NoReply}]
    BY <1>4, <2>2 DEF ReceiveKeys, TypeOK
  <2>4. Report("ok", ls, "", <<>>) \in Outcome
    BY <2>1, Constants, ReportType DEF Results
  <2>5. pc' \in [Procs -> Steps] /\ out' \in [Procs -> Outcome]
    BY <1>4, <2>4, FinishType DEF ReceiveKeys, Goto, TypeOK, Steps, Running
  <2> QED
    BY <1>4, <2>3, <2>5 DEF ReceiveKeys, TypeOK, CacheTypeOK, cacheVars
<1>5. ASSUME NEW p \in Procs, NEW s \in Statuses, ReceiveError(p, s)
      PROVE  TypeOK'
  <2>1. sentinelFor(s) \in Errors
    BY DEF sentinelFor, Errors, Refusals, ErrUnavailable
  <2>2. CASE sentinelFor(s) # ErrUnavailable
    <3>1. Finish(p, Deny("denied", sentinelFor(s))) \/ Finish(p, Deny("error", sentinelFor(s)))
      BY <1>5, <2>2 DEF ReceiveError
    <3>2. pc' \in [Procs -> Steps] /\ out' \in [Procs -> Outcome]
      BY <2>1, <3>1, <1>deny, FinishType DEF Results
    <3> QED
      BY <1>5, <3>2 DEF ReceiveError, TypeOK, CacheTypeOK, cacheVars
  <2>3. CASE sentinelFor(s) = ErrUnavailable
    <3>1. /\ pc' = [pc EXCEPT ![p] = "get"]
          /\ out' = [out EXCEPT ![p].err = sentinelFor(s)]
      BY <1>5, <2>3 DEF ReceiveError, Goto, Refusals, ErrUnavailable
    <3>2. [out[p] EXCEPT !.err = sentinelFor(s)] \in Outcome
      BY <2>1 DEF TypeOK, Outcome
    <3>3. pc' \in [Procs -> Steps] /\ out' \in [Procs -> Outcome]
      BY <3>1, <3>2 DEF TypeOK, Steps, Running
    <3> QED
      BY <1>5, <3>3 DEF ReceiveError, TypeOK, CacheTypeOK, cacheVars
  <2> QED
    BY <2>2, <2>3
<1>6. ASSUME NEW p \in Procs, PutOpen(p)
      PROVE  TypeOK'
  <2>1. Target(p) \in Paths
    BY <1>6 DEF PutOpen, Goto, FilesInv, PutHoldsAnswer, Target
  <2>2. CacheTypeOK'
    BY <1>6, <2>1, Constants DEF PutOpen, OpenTmp, TypeOK, CacheTypeOK
  <2> QED
    BY <1>6, <2>2 DEF PutOpen, Goto, TypeOK, Steps, Running
<1>7. ASSUME NEW p \in Procs, PutOpenFails(p)
      PROVE  TypeOK'
  <2>1. pc' \in [Procs -> Steps] /\ out' \in [Procs -> Outcome]
    BY <1>7, AnsweredType, FinishType DEF PutOpenFails
  <2> QED
    BY <1>7, <2>1 DEF PutOpenFails, TypeOK, CacheTypeOK, cacheVars
<1>8. ASSUME NEW p \in Procs, PutWrite(p)
      PROVE  TypeOK'
  <2>1. File(reply[p]) \in Content /\ Aligned(File(reply[p]), Target(p))
    BY <1>8, FileAligned DEF PutWrite, Goto, FilesInv, PutHoldsAnswer, Target
  <2>2. CacheTypeOK'
    BY <1>8, <2>1, WriteFileType DEF PutWrite, Goto
  <2> QED
    BY <1>8, <2>2 DEF PutWrite, Goto, TypeOK, Steps, Running
<1>9. ASSUME NEW p \in Procs, PutWriteFails(p)
      PROVE  TypeOK'
  <2>1. File(reply[p]) \in Content /\ Aligned(File(reply[p]), Target(p))
    BY <1>9, FileAligned DEF PutWriteFails, Goto, FilesInv, PutHoldsAnswer, Target
  <2>2. PICK n \in 0..Len(File(reply[p])) :
           WriteFile(p, Target(p), SubSeq(File(reply[p]), 1, n))
    BY <1>9 DEF PutWriteFails
  <2>3. /\ SubSeq(File(reply[p]), 1, n) \in Content
        /\ Aligned(SubSeq(File(reply[p]), 1, n), Target(p))
    BY <2>1, PrefixAligned
  <2>4. CacheTypeOK'
    BY <1>9, <2>2, <2>3, WriteFileType DEF PutWriteFails, Goto
  <2> QED
    BY <1>9, <2>4 DEF PutWriteFails, Goto, TypeOK, Steps, Running
<1>10. ASSUME NEW p \in Procs, PutRename(p)
       PROVE  TypeOK'
  <2>1. pc' \in [Procs -> Steps] /\ out' \in [Procs -> Outcome]
    BY <1>10, AnsweredType, FinishType DEF PutRename
  <2>2. Target(p) \in Paths
    BY <1>10 DEF PutRename, FilesInv, PutHoldsAnswer, Target
  <2>3. CacheTypeOK'
    BY <1>10, <2>2 DEF PutRename, RenameTmp, TypeOK, CacheTypeOK
  <2> QED
    BY <1>10, <2>1, <2>3 DEF PutRename, TypeOK
<1>11. ASSUME NEW p \in Procs, PutRenameFails(p)
       PROVE  TypeOK'
  BY <1>11 DEF PutRenameFails, Goto, TypeOK, CacheTypeOK, cacheVars, Steps, Running
<1>12. ASSUME NEW p \in Procs, PutUndo(p)
       PROVE  TypeOK'
  <2>1. pc' \in [Procs -> Steps] /\ out' \in [Procs -> Outcome]
    BY <1>12, AnsweredType, FinishType DEF PutUndo
  <2>2. Target(p) \in Paths
    BY <1>12 DEF PutUndo, FilesInv, PutHoldsAnswer, Target
  <2>3. CacheTypeOK'
    BY <1>12, <2>2 DEF PutUndo, RemoveTmp, Moved, TypeOK, CacheTypeOK
  <2> QED
    BY <1>12, <2>1, <2>3 DEF PutUndo, TypeOK
<1>13. ASSUME NEW p \in Procs, GetMiss(p)
       PROVE  TypeOK'
  <2>1. pc' \in [Procs -> Steps] /\ out' \in [Procs -> Outcome]
    BY <1>13, <1>deny, <1>err, FinishType DEF GetMiss, Results
  <2> QED
    BY <1>13, <2>1 DEF GetMiss, TypeOK, CacheTypeOK, cacheVars
<1>14. ASSUME NEW p \in Procs, GetHit(p)
       PROVE  TypeOK'
  <2> DEFINE c == entry[Target(p)]
  <2>1. Target(p) \in Paths
    BY <1>14, KeyCacheAssumption DEF GetHit, Found, Cacheable, Target, TypeOK
  <2>2. c \in Content /\ Aligned(c, Target(p)) /\ WellFormed(c)
    BY <1>14, <2>1 DEF GetHit, Found, Young, TypeOK, CacheTypeOK, FilesInv, FilesAligned
  <2>3. LinesOf(c) \in Seq(Lines)
    BY <2>2, LinesOfType
  <2>4. Report("cache", LinesOf(c), out[p].err, c) \in Outcome
    BY <1>err, <2>2, <2>3, ReportType DEF Results
  <2>5. pc' \in [Procs -> Steps] /\ out' \in [Procs -> Outcome]
    BY <1>14, <2>4, FinishType DEF GetHit
  <2> QED
    BY <1>14, <2>5 DEF GetHit, TypeOK, CacheTypeOK, cacheVars
<1>15. ASSUME NEW p \in Procs, GetStale(p)
       PROVE  TypeOK'
  BY <1>15 DEF GetStale, Goto, TypeOK, CacheTypeOK, cacheVars, Steps, Running
<1>16. ASSUME NEW p \in Procs, GetRemove(p)
       PROVE  TypeOK'
  <2>1. pc' \in [Procs -> Steps] /\ out' \in [Procs -> Outcome]
    BY <1>16, <1>deny, <1>err, FinishType DEF GetRemove, Results
  <2>2. Target(p) \in Paths
    BY <1>16 DEF GetRemove, FilesInv, DropHasFile, Target
  <2>3. CacheTypeOK'
    BY <1>16, <2>2 DEF GetRemove, RemoveEntry, Moved, TypeOK, CacheTypeOK
  <2> QED
    BY <1>16, <2>1, <2>3 DEF GetRemove, TypeOK
<1>17. ASSUME NEW p \in Procs, Panic(p)
       PROVE  TypeOK'
  <2>1. pc' \in [Procs -> Steps] /\ out' \in [Procs -> Outcome]
    BY <1>17, <1>deny, FinishType DEF Panic, Results
  <2> QED
    BY <1>17, <2>1 DEF Panic, TypeOK, CacheTypeOK
<1>18. ASSUME NEW p \in Procs, Crash(p)
       PROVE  TypeOK'
  BY <1>18 DEF Crash, TypeOK, CacheTypeOK, Steps
<1>19. ASSUME Time
       PROVE  TypeOK'
  <2>1. clock' \in 0..MaxClock /\ UNCHANGED <<entry, tmp, fd>>
    BY <1>19, KeyCacheAssumption DEF Time, Tick, StepBack, TypeOK, CacheTypeOK
  <2> QED
    BY <1>19, <2>1 DEF Time, procVars, TypeOK, CacheTypeOK
<1>20. ASSUME UNCHANGED vars
       PROVE  TypeOK'
  BY <1>20 DEF vars, TypeOK, CacheTypeOK
<1> QED
  BY <1>1, <1>2, <1>3, <1>4, <1>5, <1>6, <1>7, <1>8, <1>9, <1>10, <1>11, <1>12,
     <1>13, <1>14, <1>15, <1>16, <1>17, <1>18, <1>19, <1>20
     DEF Next, Fetch, Put, Get

-----------------------------------------------------------------------------
(* Every step keeps the files in order *)

\* Whoever renames, removes or truncates under whose feet: an open file with a
\* name stays linked to it, and every file holds blocks of its own path only.
LEMMA FilesStep ==
    TypeOK /\ FilesInv /\ [Next]_vars => FilesInv'
<1> SUFFICES ASSUME TypeOK, FilesInv, [Next]_vars
             PROVE  FilesInv'
  OBVIOUS
<1> USE DEF FilesInv
<1>1. ASSUME NEW p \in Procs, NEW q \in Queries, Begin(p, q)
      PROVE  FilesInv'
  BY <1>1 DEF Begin, Goto, Finish, TypeOK, CacheTypeOK, cacheVars, OpenFilesLinked,
              FilesAligned, PutHoldsAnswer, DropHasFile, Target
<1>2. ASSUME NEW p \in Procs, \/ LocalFailure(p) \/ ReceiveNone(p) \/ PutOpenFails(p)
                              \/ GetMiss(p) \/ GetHit(p)
      PROVE  FilesInv'
  <2>1. /\ pc[p] \in {"fetch", "open", "get"}
        /\ pc' = [pc EXCEPT ![p] = "done"]
        /\ UNCHANGED <<cacheVars, job, reply>>
    BY <1>2 DEF LocalFailure, ReceiveNone, PutOpenFails, GetMiss, GetHit, Finish
  <2> QED
    BY <2>1 DEF TypeOK, CacheTypeOK, cacheVars, OpenFilesLinked,
                FilesAligned, PutHoldsAnswer, DropHasFile, Target
<1>3. ASSUME NEW p \in Procs, NEW ls \in Answers, ReceiveKeys(p, ls)
      PROVE  FilesInv'
  <2>1. ls # <<>> /\ pc[p] = "fetch"
    BY <1>3 DEF ReceiveKeys
  <2>2. reply'[p] = [query |-> job[p], lines |-> ls, at |-> clock]
    BY <1>3 DEF ReceiveKeys, TypeOK
  <2>3. reply'[p] \in Stored /\ reply'[p].query = job[p]
    BY <2>1, <2>2 DEF TypeOK, CacheTypeOK, Stored
  <2>4. pc'[p] # "done" => Cacheable(job[p])
    BY <1>3 DEF ReceiveKeys, Finish, TypeOK
  <2>5. Cacheable(job[p]) => PathOf[job[p]] \in Paths
    BY KeyCacheAssumption DEF Cacheable, TypeOK
  <2>6. pc'[p] \in {"open", "done"}
    BY <1>3 DEF ReceiveKeys, Finish, Goto, TypeOK
  <2>7. \A r \in Procs : r # p => pc'[r] = pc[r] /\ reply'[r] = reply[r]
    BY <1>3 DEF ReceiveKeys, Finish, Goto, TypeOK
  <2>8. UNCHANGED <<cacheVars, job>>
    BY <1>3 DEF ReceiveKeys
  <2>9. PutHoldsAnswer'
    BY <2>3, <2>4, <2>5, <2>6, <2>7, <2>8 DEF PutHoldsAnswer
  <2> QED
    BY <2>1, <2>6, <2>7, <2>8, <2>9
       DEF cacheVars, OpenFilesLinked, FilesAligned, DropHasFile, Target
<1>4. ASSUME NEW p \in Procs, NEW s \in Statuses, ReceiveError(p, s)
      PROVE  FilesInv'
  <2>1. /\ pc[p] = "fetch"
        /\ pc' = [pc EXCEPT ![p] = "done"] \/ pc' = [pc EXCEPT ![p] = "get"]
        /\ UNCHANGED <<cacheVars, job, reply>>
    BY <1>4 DEF ReceiveError, Finish, Goto
  <2> QED
    BY <2>1 DEF TypeOK, CacheTypeOK, cacheVars, OpenFilesLinked,
                FilesAligned, PutHoldsAnswer, DropHasFile, Target
<1>5. ASSUME NEW p \in Procs, PutOpen(p)
      PROVE  FilesInv'
  <2>1. Target(p) \in Paths /\ pc[p] = "open"
    BY <1>5 DEF PutOpen, Goto, PutHoldsAnswer, Target
  <2>2. Aligned(<<>>, Target(p))
    BY DEF Aligned
  <2>3. FilesAligned'
    BY <1>5, <2>1, <2>2 DEF PutOpen, OpenTmp, FilesAligned, TypeOK, CacheTypeOK
  <2>4. OpenFilesLinked'
    BY <1>5, <2>1, Constants
       DEF PutOpen, Goto, OpenTmp, OpenFilesLinked, TypeOK, CacheTypeOK, Target
  <2>5. PutHoldsAnswer' /\ DropHasFile'
    BY <1>5, <2>1 DEF PutOpen, Goto, PutHoldsAnswer, DropHasFile, TypeOK
  <2> QED
    BY <2>3, <2>4, <2>5
<1>6. ASSUME NEW p \in Procs, PutWrite(p) \/ PutWriteFails(p)
      PROVE  FilesInv'
  <2>1. /\ pc[p] = "write"
        /\ pc' = [pc EXCEPT ![p] = "rename"] \/ pc' = [pc EXCEPT ![p] = "undo"]
        /\ UNCHANGED <<job, reply, out>>
    BY <1>6 DEF PutWrite, PutWriteFails, Goto
  <2>2. File(reply[p]) \in Content /\ Aligned(File(reply[p]), Target(p))
    BY <2>1, FileAligned DEF PutHoldsAnswer, Target
  <2>3. PICK bytes \in Content :
           WriteFile(p, Target(p), bytes) /\ Aligned(bytes, Target(p))
    BY <1>6, <2>2, PrefixAligned DEF PutWrite, PutWriteFails
  <2>4. FilesAligned' /\ CacheTypeOK'
    BY <2>1, <2>3, WriteFileType
  <2>5. fd' = [fd EXCEPT ![p] = "closed"]
    BY <2>3 DEF WriteFile
  <2>6. \A k \in Paths : /\ tmp[k] # NoFile => tmp'[k] # NoFile
                         /\ entry[k] # NoFile => entry'[k] # NoFile
    <3>1. Target(p) \in Paths
      BY <2>1 DEF PutHoldsAnswer, Target
    <3>2. fd[p] = "tmp" => tmp[Target(p)] \in Content /\ Aligned(tmp[Target(p)], Target(p))
      BY <3>1 DEF OpenFilesLinked, TypeOK, CacheTypeOK, FilesAligned
    <3>3. fd[p] = "entry" => entry[Target(p)] \in Content /\ Aligned(entry[Target(p)], Target(p))
      BY <3>1 DEF OpenFilesLinked, TypeOK, CacheTypeOK, FilesAligned
    <3>4. fd[p] = "tmp" => Overwrite(tmp[Target(p)], bytes) # NoFile
      BY <2>3, <3>2, OverwriteAligned, KeyCacheAssumption
    <3>5. fd[p] = "entry" => Overwrite(entry[Target(p)], bytes) # NoFile
      BY <2>3, <3>3, OverwriteAligned, KeyCacheAssumption
    <3> QED
      BY <2>3, <3>1, <3>4, <3>5 DEF WriteFile, TypeOK, CacheTypeOK
  <2>7. \A r \in Procs : fd[r] \in {"tmp", "entry"} => Target(r) \in Paths
    BY DEF OpenFilesLinked, PutHoldsAnswer, Target
  <2>8. OpenFilesLinked'
    BY <2>1, <2>5, <2>6, <2>7 DEF OpenFilesLinked, TypeOK, CacheTypeOK, Target
  <2>9. PutHoldsAnswer' /\ DropHasFile'
    BY <2>1 DEF PutHoldsAnswer, DropHasFile, TypeOK
  <2> QED
    BY <2>4, <2>8, <2>9
<1>7. ASSUME NEW p \in Procs, PutRename(p)
      PROVE  FilesInv'
  <2>1. Target(p) \in Paths /\ pc[p] = "rename"
    BY <1>7 DEF PutRename, PutHoldsAnswer, Target
  <2>2. FilesAligned'
    BY <1>7, <2>1 DEF PutRename, RenameTmp, FilesAligned, TypeOK, CacheTypeOK
  <2>3. OpenFilesLinked'
    BY <1>7, <2>1 DEF PutRename, RenameTmp, Finish, On, Target, OpenFilesLinked,
                      PutHoldsAnswer, TypeOK, CacheTypeOK
  <2>4. PutHoldsAnswer' /\ DropHasFile'
    BY <1>7, <2>1 DEF PutRename, Finish, PutHoldsAnswer, DropHasFile, TypeOK
  <2> QED
    BY <2>2, <2>3, <2>4
<1>8. ASSUME NEW p \in Procs, PutRenameFails(p)
      PROVE  FilesInv'
  BY <1>8 DEF PutRenameFails, Goto, TypeOK, CacheTypeOK, cacheVars, OpenFilesLinked,
              FilesAligned, PutHoldsAnswer, DropHasFile, Target
<1>9. ASSUME NEW p \in Procs, PutUndo(p)
      PROVE  FilesInv'
  <2>1. Target(p) \in Paths /\ pc[p] = "undo"
    BY <1>9 DEF PutUndo, PutHoldsAnswer, Target
  <2>2. FilesAligned'
    BY <1>9, <2>1 DEF PutUndo, RemoveTmp, FilesAligned, TypeOK, CacheTypeOK
  <2>3. OpenFilesLinked'
    BY <1>9, <2>1 DEF PutUndo, RemoveTmp, Moved, Finish, On, Target, OpenFilesLinked,
                      PutHoldsAnswer, TypeOK, CacheTypeOK
  <2>4. PutHoldsAnswer' /\ DropHasFile'
    BY <1>9, <2>1 DEF PutUndo, Finish, PutHoldsAnswer, DropHasFile, TypeOK
  <2> QED
    BY <2>2, <2>3, <2>4
<1>10. ASSUME NEW p \in Procs, GetStale(p)
       PROVE  FilesInv'
  <2>1. Target(p) \in Paths
    BY <1>10, KeyCacheAssumption DEF GetStale, Found, Cacheable, Target, TypeOK
  <2> QED
    BY <1>10, <2>1 DEF GetStale, Goto, TypeOK, CacheTypeOK, cacheVars, OpenFilesLinked,
                       FilesAligned, PutHoldsAnswer, DropHasFile, Target
<1>11. ASSUME NEW p \in Procs, GetRemove(p)
       PROVE  FilesInv'
  <2>1. Target(p) \in Paths /\ pc[p] = "drop"
    BY <1>11 DEF GetRemove, DropHasFile, Target
  <2>2. FilesAligned'
    BY <1>11, <2>1 DEF GetRemove, RemoveEntry, FilesAligned, TypeOK, CacheTypeOK
  <2>3. OpenFilesLinked'
    BY <1>11, <2>1 DEF GetRemove, RemoveEntry, Moved, Finish, On, Target, OpenFilesLinked,
                       PutHoldsAnswer, TypeOK, CacheTypeOK
  <2>4. PutHoldsAnswer' /\ DropHasFile'
    BY <1>11, <2>1 DEF GetRemove, Finish, PutHoldsAnswer, DropHasFile, TypeOK
  <2> QED
    BY <2>2, <2>3, <2>4
<1>12. ASSUME NEW p \in Procs, Panic(p) \/ Crash(p)
       PROVE  FilesInv'
  <2>1. /\ pc' = [pc EXCEPT ![p] = "done"]
        /\ fd' = [fd EXCEPT ![p] = "closed"]
        /\ UNCHANGED <<clock, entry, tmp, job>>
        /\ \A r \in Procs : r # p => reply'[r] = reply[r]
    BY <1>12 DEF Panic, Crash, Finish, TypeOK
  <2> QED
    BY <2>1 DEF TypeOK, CacheTypeOK, OpenFilesLinked,
                FilesAligned, PutHoldsAnswer, DropHasFile, Target
<1>13. ASSUME Time \/ UNCHANGED vars
       PROVE  FilesInv'
  <2>1. UNCHANGED <<entry, tmp, fd, pc, job, reply>>
    BY <1>13 DEF Time, Tick, StepBack, procVars, vars
  <2> QED
    BY <2>1 DEF OpenFilesLinked, FilesAligned, PutHoldsAnswer, DropHasFile, Target
<1> QED
  BY <1>1, <1>2, <1>3, <1>4, <1>5, <1>6, <1>7, <1>8, <1>9, <1>10, <1>11, <1>12, <1>13
     DEF Next, Fetch, Put, Get

-----------------------------------------------------------------------------
(* Every step keeps the outcomes right *)

\* The three properties of the outcomes, said of one process at a time.
LEMMA OutInvIsOutOK == OutInv <=> \A p \in Procs : OutOK(p)
  BY DEF OutInv, OutOK, GetAfterOutage, NothingBeforeDone, ServesDecisionOrOutage,
         HeaderIsYoung, ServedStaysInItsFile

\* A process that finishes without lines.
LEMMA DenyOK ==
    ASSUME TypeOK, NEW p \in Procs, NEW r \in {"empty", "denied", "error"}, NEW e,
           Finish(p, Deny(r, e))
    PROVE  OutOK(p)'
<1>1. pc'[p] = "done" /\ out'[p].lines = <<>> /\ out'[p].result = r
  BY DEF Finish, Deny, Report, TypeOK
<1> QED
  BY <1>1 DEF OutOK

\* A process that finishes with the answer it was given.
LEMMA AnsweredOK ==
    ASSUME TypeOK, NEW p \in Procs, Finish(p, Answered(p)), reply' = reply
    PROVE  OutOK(p)'
<1>1. pc'[p] = "done" /\ out'[p].lines = reply[p].lines /\ out'[p].result = "ok"
  BY DEF Finish, Answered, Report, TypeOK
<1> QED
  BY <1>1 DEF OutOK

\* The same for an answer the cache does not take.
LEMMA KeysOK ==
    ASSUME TypeOK, NEW p \in Procs, NEW ls, Finish(p, Report("ok", ls, "", <<>>)),
           reply'[p].lines = ls
    PROVE  OutOK(p)'
<1>1. pc'[p] = "done" /\ out'[p].lines = ls /\ out'[p].result = "ok"
  BY DEF Finish, Report, TypeOK
<1> QED
  BY <1>1 DEF OutOK

\* A process that does not move keeps its outcome.
LEMMA OutFrame ==
    ASSUME NEW p \in Procs, OutOK(p), pc'[p] = pc[p], out'[p] = out[p],
           job'[p] = job[p], reply'[p] = reply[p]
    PROVE  OutOK(p)'
  BY DEF OutOK

\* A cached answer that Get finds young was put at most TTL ago.
LEMMA YoungBounds ==
    ASSUME TypeOK, NEW c \in Content, Young(c)
    PROVE  clock - c[1].of.at \in (1 - Second)..TTL
<1>1. 1 \in 1..Len(c) /\ c[1] \in Block
  BY DEF Content, Young, WellFormed
<1>2. c[1].of.at \in Nat
  BY <1>1, KeyCacheAssumption DEF Block, Stored
<1>3. c[1].of.at % Second \in 0..(Second - 1)
  BY <1>2, KeyCacheAssumption
<1>4. clock \in Int /\ Second \in Int /\ TTL \in Int
  BY KeyCacheAssumption DEF TypeOK, CacheTypeOK
<1>5. /\ clock - (c[1].of.at - (c[1].of.at % Second)) >= 0
      /\ clock - (c[1].of.at - (c[1].of.at % Second)) <= TTL
  BY DEF Young, Age, Stamp
<1> QED
  BY <1>2, <1>3, <1>4, <1>5

\* Whatever process moves, every outcome stays right.
LEMMA OutStep ==
    TypeOK /\ FilesInv /\ OutInv /\ [Next]_vars => OutInv'
<1> SUFFICES ASSUME TypeOK, FilesInv, OutInv, [Next]_vars
             PROVE  \A r \in Procs : OutOK(r)'
  BY DEF OutInv, OutOK, GetAfterOutage, NothingBeforeDone, ServesDecisionOrOutage,
         HeaderIsYoung, ServedStaysInItsFile
<1>ok. \A r \in Procs : OutOK(r)
  BY OutInvIsOutOK
<1>move. ASSUME NEW p \in Procs, OutOK(p)',
                \A r \in Procs : r # p => /\ pc'[r] = pc[r] /\ out'[r] = out[r]
                                         /\ job'[r] = job[r] /\ reply'[r] = reply[r]
         PROVE  \A r \in Procs : OutOK(r)'
  BY <1>move, <1>ok, OutFrame
<1>1. ASSUME NEW p \in Procs, NEW q \in Queries, Begin(p, q)
      PROVE  \A r \in Procs : OutOK(r)'
  <2>1. OutOK(p)'
    <3>1. CASE q \in Plausible
      BY <1>1, <3>1, <1>ok DEF Begin, Goto, OutOK, TypeOK
    <3>2. CASE q \notin Plausible
      BY <1>1, <3>2, DenyOK DEF Begin
    <3> QED
      BY <3>1, <3>2
  <2> QED
    BY <1>1, <1>move, <2>1 DEF Begin, Goto, Finish, TypeOK
<1>2. ASSUME NEW p \in Procs, LocalFailure(p) \/ Panic(p)
      PROVE  \A r \in Procs : OutOK(r)'
  <2>1. Finish(p, Deny("error", "local")) /\ UNCHANGED <<job, reply>>
    BY <1>2 DEF LocalFailure, Panic
  <2>2. OutOK(p)'
    BY <2>1, DenyOK
  <2> QED
    BY <1>move, <2>1, <2>2 DEF Finish, TypeOK
<1>3. ASSUME NEW p \in Procs, ReceiveNone(p)
      PROVE  \A r \in Procs : OutOK(r)'
  <2>1. OutOK(p)'
    BY <1>3, DenyOK DEF ReceiveNone
  <2> QED
    BY <1>3, <1>move, <2>1 DEF ReceiveNone, Finish, TypeOK
<1>4. ASSUME NEW p \in Procs, NEW ls \in Answers, ReceiveKeys(p, ls)
      PROVE  \A r \in Procs : OutOK(r)'
  <2>1. reply'[p].lines = ls
    BY <1>4 DEF ReceiveKeys, TypeOK
  <2>2. OutOK(p)'
    <3>1. CASE Cacheable(job[p])
      BY <1>4, <3>1, <1>ok DEF ReceiveKeys, Goto, OutOK, TypeOK
    <3>2. CASE ~Cacheable(job[p])
      BY <1>4, <2>1, <3>2, KeysOK DEF ReceiveKeys
    <3> QED
      BY <3>1, <3>2
  <2> QED
    BY <1>4, <1>move, <2>2 DEF ReceiveKeys, Goto, Finish, TypeOK
<1>5. ASSUME NEW p \in Procs, NEW s \in Statuses, ReceiveError(p, s)
      PROVE  \A r \in Procs : OutOK(r)'
  <2>1. OutOK(p)'
    <3>1. CASE sentinelFor(s) # ErrUnavailable
      BY <1>5, <3>1, DenyOK DEF ReceiveError
    <3>2. CASE sentinelFor(s) = ErrUnavailable
      <4>1. /\ pc[p] = "fetch" /\ pc'[p] = "get"
            /\ out'[p] = [out[p] EXCEPT !.err = ErrUnavailable]
        BY <1>5, <3>2 DEF ReceiveError, Goto, TypeOK, Refusals, ErrUnavailable
      <4>2. out'[p].err = ErrUnavailable /\ out'[p].lines = <<>> /\ out'[p].result = "none"
        <5>1. out[p] \in Outcome /\ out[p].lines = <<>> /\ out[p].result = "none"
          BY <1>ok, <4>1 DEF OutOK, TypeOK
        <5> QED
          BY <4>1, <5>1 DEF Outcome
      <4> QED
        BY <4>1, <4>2 DEF OutOK
    <3> QED
      BY <3>1, <3>2
  <2> QED
    BY <1>5, <1>move, <2>1 DEF ReceiveError, Goto, Finish, TypeOK
<1>6. ASSUME NEW p \in Procs, \/ PutOpen(p) \/ PutWrite(p) \/ PutWriteFails(p)
                              \/ PutRenameFails(p) \/ GetStale(p)
      PROVE  \A r \in Procs : OutOK(r)'
  <2>1. /\ \/ pc[p] \in {"open", "write", "rename"} /\ pc'[p] \in {"write", "rename", "undo"}
           \/ pc[p] = "get" /\ pc'[p] = "drop"
        /\ UNCHANGED <<job, reply, out>>
        /\ \A r \in Procs : r # p => pc'[r] = pc[r]
    BY <1>6 DEF PutOpen, PutWrite, PutWriteFails, PutRenameFails, GetStale, Goto, TypeOK
  <2>2. OutOK(p)'
    BY <1>ok, <2>1 DEF OutOK
  <2> QED
    BY <1>move, <2>1, <2>2
<1>7. ASSUME NEW p \in Procs, PutOpenFails(p) \/ PutRename(p) \/ PutUndo(p)
      PROVE  \A r \in Procs : OutOK(r)'
  <2>1. Finish(p, Answered(p)) /\ UNCHANGED <<job, reply>>
    BY <1>7 DEF PutOpenFails, PutRename, PutUndo
  <2>2. OutOK(p)'
    BY <2>1, AnsweredOK
  <2> QED
    BY <1>move, <2>1, <2>2 DEF Finish, TypeOK
<1>8. ASSUME NEW p \in Procs, GetMiss(p) \/ GetRemove(p)
      PROVE  \A r \in Procs : OutOK(r)'
  <2>1. Finish(p, Deny("error", out[p].err)) /\ UNCHANGED <<job, reply>>
    BY <1>8 DEF GetMiss, GetRemove
  <2>2. OutOK(p)'
    BY <2>1, DenyOK
  <2> QED
    BY <1>move, <2>1, <2>2 DEF Finish, TypeOK
<1>9. ASSUME NEW p \in Procs, GetHit(p)
      PROVE  \A r \in Procs : OutOK(r)'
  <2> DEFINE c == entry[Target(p)]
  <2>1. Target(p) \in Paths
    BY <1>9, KeyCacheAssumption DEF GetHit, Found, Cacheable, Target, TypeOK
  <2>2. c \in Content /\ Aligned(c, Target(p)) /\ Young(c)
    BY <1>9, <2>1 DEF GetHit, Found, TypeOK, CacheTypeOK, FilesInv, FilesAligned
  <2>3. clock - c[1].of.at \in (1 - Second)..TTL
    BY <2>2, YoungBounds
  <2>4. /\ pc[p] = "get" /\ pc'[p] = "done" /\ out'[p].result = "cache"
        /\ out'[p].err = out[p].err /\ out'[p].read = c /\ out'[p].at = clock
        /\ UNCHANGED <<job, reply>>
    BY <1>9 DEF GetHit, Finish, Report, TypeOK
  <2>5. \A i \in 1..Len(c) : /\ PathOf[c[i].of.query] = PathOf[job[p]]
                             /\ c[i].n \in 0..Len(c[i].of.lines)
    <3>1. c \in Seq(Block) /\ Len(c) \in Nat
      BY <2>2 DEF Content
    <3>2. \A i \in 1..Len(c) : c[i].of.lines \in Seq(Lines)
      BY <2>2, BlockLines
    <3> HIDE DEF c
    <3>3. ASSUME NEW i \in 1..Len(c)
          PROVE  PathOf[c[i].of.query] = PathOf[job[p]] /\ c[i].n \in 0..Len(c[i].of.lines)
      <4>1. c[i].n = i - 1 /\ i - 1 <= Len(c[i].of.lines) /\ PathOf[c[i].of.query] = PathOf[job[p]]
        BY <2>2, <3>3 DEF Aligned, Target
      <4>2. Len(c[i].of.lines) \in Nat
        BY <3>2, <3>3
      <4> QED
        BY <3>1, <3>3, <4>1, <4>2
    <3> QED
      BY <3>3
  <2>6. out[p].err = ErrUnavailable
    BY <1>ok, <2>4 DEF OutOK
  <2>7. OutOK(p)'
    BY <2>3, <2>4, <2>5, <2>6 DEF OutOK
  <2> QED
    BY <1>9, <1>move, <2>7 DEF GetHit, Finish, TypeOK
<1>10. ASSUME NEW p \in Procs, Crash(p)
       PROVE  \A r \in Procs : OutOK(r)'
  <2>1. OutOK(p)'
    BY <1>10, <1>ok DEF Crash, Running, OutOK, TypeOK
  <2> QED
    BY <1>10, <1>move, <2>1 DEF Crash, TypeOK
<1>11. ASSUME Time \/ UNCHANGED vars
       PROVE  \A r \in Procs : OutOK(r)'
  <2>1. UNCHANGED <<pc, job, reply, out>>
    BY <1>11 DEF Time, procVars, vars
  <2> QED
    BY <1>ok, <2>1, OutFrame
<1> QED
  BY <1>1, <1>2, <1>3, <1>4, <1>5, <1>6, <1>7, <1>8, <1>9, <1>10, <1>11
     DEF Next, Fetch, Put, Get

-----------------------------------------------------------------------------
(* Theorems *)

\* The initial states satisfy the invariant.
LEMMA InitInv == Init => IInv
<1> SUFFICES ASSUME Init PROVE IInv
  OBVIOUS
<1>1. (CHOOSE q \in Queries : TRUE) \in Queries
  BY AuthorizedKeysAssumption
<1>2. TypeOK
  BY <1>1, Constants DEF Init, CacheInit, TypeOK, CacheTypeOK, Steps
<1>3. FilesInv
  BY DEF Init, CacheInit, FilesInv, OpenFilesLinked, FilesAligned, PutHoldsAnswer,
         DropHasFile
<1>4. OutInv
  BY DEF Init, NoOutcome, OutInv, GetAfterOutage, NothingBeforeDone,
         ServesDecisionOrOutage, HeaderIsYoung, ServedStaysInItsFile
<1> QED
  BY <1>2, <1>3, <1>4 DEF IInv

\* Every step, of every process, preserves the invariant.
LEMMA NextInv == IInv /\ [Next]_vars => IInv'
  BY TypeStep, FilesStep, OutStep DEF IInv, OutInv

\* The invariant of any number of overlapping processes.
LEMMA Invariant == Spec => []IInv
  BY InitInv, NextInv, PTL DEF Spec

\* Type correctness of `authorized-keys` and its cache.
THEOREM TypeCorrect == Spec => []TypeOK
<1>1. IInv => TypeOK
  BY DEF IInv
<1> QED
  BY <1>1, Invariant, PTL

\* fetchKeys fails closed: only a decision of the provider or an outage prints
\* lines, however many logins overlap and whichever of them die.
THEOREM FailsClosed == Spec => []ServesDecisionOrOutage
<1>1. IInv => ServesDecisionOrOutage
  BY DEF IInv, OutInv
<1> QED
  BY <1>1, Invariant, PTL

\* Cache.Get never serves a file whose header is older than cache_ttl, also
\* when the clock is set back and whatever the writers did to the file.
THEOREM HeaderYoung == Spec => []HeaderIsYoung
<1>1. IInv => HeaderIsYoung
  BY DEF IInv, OutInv
<1> QED
  BY <1>1, Invariant, PTL

\* No interleaving of Put on shared temporary names moves a key line from the
\* file of one account or fingerprint to that of another.
THEOREM CacheStaysInItsFile == Spec => []ServedStaysInItsFile
<1>1. IInv => ServedStaysInItsFile
  BY DEF IInv, OutInv
<1> QED
  BY <1>1, Invariant, PTL
=============================================================================
