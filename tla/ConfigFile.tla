----------------------------- MODULE ConfigFile -----------------------------
(***************************************************************************)
(* The configuration file: how internal/config reads it, how               *)
(* setConfigValues of internal/sshcmd rewrites it at the end of an         *)
(* enrolment, while the operator edits it by hand, and what `oidc-ssh      *)
(* status`, run as the AuthorizedKeysCommand user, says of it.             *)
(*                                                                         *)
(* A document is the sequence of its entries, comments included.  An entry *)
(* is one line, a value of several lines (block), or an alias of an        *)
(* earlier anchored one; values matter by their shape only.  Top-level     *)
(* keys start in the first column.                                         *)
(***************************************************************************)
EXTENDS Integers, Sequences, SequencesExt

CONSTANTS
    Editors,     \* runs of `oidc-ssh enroll`
    Documents,   \* what the operator may write
    Updates,     \* what an enrolment may have to write: keys to values
    MaxEdits,    \* bound on the operator's edits
    None

VARIABLES
    file,        \* the file at path
    tmp,         \* the file at path.tmp, or None
    pc, upd,     \* the step of each enrolment, and what it writes
    info, old, new, \* owner and content it found last, content it writes
    fd,          \* where the file it has open is linked now
    spc, problems, seen, keyFile, \* status: its step, failed checks, the configuration
                 \* that it loaded and the state of the key file that it found
    edits,
    operatorDoc, \* history: what the operator wrote last
    overlapped,  \* history: two enrolments were writing at the same time
    dirty,       \* history: those that setConfigValues had read the file for when it
                 \* was replaced by another
    raced        \* history: one of them replaced it all the same

editorVars == <<pc, upd, info, old, new, fd>>
statusVars == <<spc, problems, seen, keyFile>>
history == <<operatorDoc, overlapped, dirty, raced>>
vars == <<file, tmp, editorVars, statusVars, edits, history>>

\* The fields of rawConfig that matter here, and one that it does not have.
Known == {"api_base", "client_id", "host_id", "issuer", "timeout", "users"}
Keys == Known \cup {"unknown"}

\* The keys configUpdates sets: two always, two if they were given as options.
Always == {"api_base", "host_id"}
Settable == Always \cup {"client_id", "issuer"}

\* plain is a value validate accepts for its key; the others are surrounded by
\* blanks, hold blanks, are a URL with userinfo, or need several lines.
Value == [id : Nat, shape : {"plain", "padded", "spaced", "userinfo", "multiline"}]
Entry == [key : Keys, val : Value, form : {"line", "block", "alias"}, anchor : BOOLEAN]
Comment == [key : {None}, by : {"operator", "enroll"}]
Document == Seq(Entry \cup Comment)
File == [doc : Document, owner : {"root", "shared"}]

\* provider.New checks the api_base the way validate does; discovery accepts an
\* issuer that validate does not.
ASSUME ConfigFileAssumption ==
    /\ Documents \subseteq Document
    /\ \A u \in Updates :
          /\ Always \subseteq DOMAIN u /\ DOMAIN u \subseteq Settable
          /\ \A k \in DOMAIN u : u[k] \in Value
          /\ u["api_base"].shape = "plain"
          /\ "issuer" \in DOMAIN u => u["issuer"].shape \in {"plain", "userinfo"}
    /\ MaxEdits \in Nat
    /\ None \notin Keys \cup {"root", "shared"} /\ None \notin Updates
    /\ None \notin Value /\ None \notin Document /\ None \notin File

Writing == {"write", "chown", "rename", "remove"}

TypeOK ==
    /\ file \in File
    /\ tmp \in File \cup {None}
    /\ pc \in [Editors -> {"idle", "approval", "read", "open", "done", "failed", "crashed"} \cup Writing]
    /\ upd \in [Editors -> Updates \cup {None}]
    /\ info \in [Editors -> {"root", "shared", None}]
    /\ old \in [Editors -> Document \cup {None}]
    /\ new \in [Editors -> Document \cup {None}]
    /\ fd \in [Editors -> {"closed", "tmp", "path", "unlinked"}]
    /\ \A e \in Editors : fd[e] # "closed" => pc[e] = "write"
    /\ keyFile \in {"good", "partial", "permissive", "unreadable", "missing", None}
    /\ spc \in {"load", "probe", "files", "ok", "failed"}
    /\ problems \subseteq {"provider", "config", "key", "host"}
    /\ seen \in File \cup {None}
    /\ edits \in 0..MaxEdits
    /\ operatorDoc \in Documents
    /\ dirty \subseteq Editors
    /\ {overlapped, raced} \subseteq BOOLEAN

-----------------------------------------------------------------------------
(* Reading: internal/config *)

\* The first entry of a key, 0 if there is none.
mappingEntry(d, k) == SelectInSeq(d, LAMBDA x : x.key = k)

\* yaml.v3 on the top level: a block mapping, every alias after its anchor.
topLevelMapping(d) ==
    /\ \E i \in DOMAIN d : d[i].key # None
    /\ \A i \in DOMAIN d : (d[i].key # None /\ d[i].form = "alias") =>
          \E j \in 1..(i - 1) : d[j].key # None /\ d[j].anchor

\* The value of entry i, an alias resolved.
Resolved(d, i) ==
    IF d[i].form = "alias"
    THEN d[SelectLastInSubSeq(d, 1, i - 1, LAMBDA x : x.key # None /\ x.anchor)].val
    ELSE d[i].val

TrimSpace(v) == IF v.shape = "padded" THEN [v EXCEPT !.shape = "plain"] ELSE v

\* decode: KnownFields, and no key twice.
decode(d) ==
    /\ topLevelMapping(d)
    /\ \A i \in DOMAIN d : d[i].key # None =>
          d[i].key \in Known /\ mappingEntry(d, d[i].key) = i

\* A field of the configuration; None is its default.
Field(d, k) ==
    LET i == mappingEntry(d, k) IN IF i = 0 THEN None ELSE TrimSpace(Resolved(d, i))

\* parseDuration, validate, validateURL, normaliseUsers.
Accepts(k, v) ==
    CASE k \in {"issuer", "users"} -> v # None /\ v.shape = "plain"
      [] k = "client_id"           -> v # None
      [] k = "host_id"             -> v = None \/ v.shape # "spaced"
      [] OTHER                     -> v = None \/ v.shape = "plain"

\* Parse succeeds.
Parse(d) == decode(d) /\ \A k \in Known : Accepts(k, Field(d, k))

-----------------------------------------------------------------------------
(* Rewriting: withConfigValues *)

\* encodeScalar: a value that needs several lines is refused.
encodeScalar(v) == v.shape # "multiline"

isSingleLineEntry(x) == x.form = "line"

\* What makes it give up, with the file as it is.
CannotRewrite(d, u) ==
    \/ ~topLevelMapping(d)
    \/ \E k \in DOMAIN u :
          LET i == mappingEntry(d, k) IN
          \/ ~encodeScalar(u[k])
          \/ i # 0 /\ ~isSingleLineEntry(d[i])

\* The line that takes the place of an entry: no anchor in it.
Line(k, v) == [key |-> k, val |-> v, form |-> "line", anchor |-> FALSE]

\* Fault: a key is added that the document has.
IfAbsent_Always(d, u, k) == IF k \in DOMAIN u THEN <<Line(k, u[k])>> ELSE <<>>

\* The line of a key that is absent.
IfAbsent(d, u, k) ==
    IF k \in DOMAIN u /\ mappingEntry(d, k) = 0 THEN <<Line(k, u[k])>> ELSE <<>>

\* The keys that are absent, as sort.Strings sorts them, below one comment.
Appended(d, u) ==
    LET lines == IfAbsent(d, u, "api_base") \o IfAbsent(d, u, "client_id")
                 \o IfAbsent(d, u, "host_id") \o IfAbsent(d, u, "issuer")
    IN  IF lines = <<>> THEN <<>> ELSE <<[key |-> None, by |-> "enroll"]>> \o lines

\* The first entry of each key is rewritten where it stands.
withConfigValues(d, u) ==
    [i \in DOMAIN d |-> IF d[i].key \in DOMAIN u /\ mappingEntry(d, d[i].key) = i
                        THEN Line(d[i].key, u[d[i].key]) ELSE d[i]]
    \o Appended(d, u)

-----------------------------------------------------------------------------
(* Enrolments *)

Init ==
    /\ \E d \in Documents : file = [doc |-> d, owner |-> "shared"] /\ operatorDoc = d
    /\ tmp = None
    /\ pc = [e \in Editors |-> "idle"]
    /\ upd = [e \in Editors |-> None]
    /\ info = [e \in Editors |-> None]
    /\ old = [e \in Editors |-> None]
    /\ new = [e \in Editors |-> None]
    /\ fd = [e \in Editors |-> "closed"]
    /\ spc = "load" /\ problems = {} /\ seen = None /\ keyFile = None
    /\ edits = 0
    /\ overlapped = FALSE /\ dirty = {} /\ raced = FALSE

Step(e, from, to) == pc[e] = from /\ pc' = [pc EXCEPT ![e] = to]

\* The process ends without having replaced the file.
Forget(e) ==
    /\ upd' = [upd EXCEPT ![e] = None]
    /\ info' = [info EXCEPT ![e] = None]
    /\ old' = [old EXCEPT ![e] = None]
    /\ new' = [new EXCEPT ![e] = None]

\* Enroll loads the configuration, then asks for the approval.
LoadConfig(e) ==
    /\ Step(e, "idle", IF Parse(file.doc) THEN "approval" ELSE "failed")
    /\ old' = [old EXCEPT ![e] = file.doc]
    /\ UNCHANGED <<file, tmp, upd, info, new, fd, statusVars, edits, history>>

\* The provider has answered; os.Stat in setConfigValues.
StatFile(e, u) ==
    /\ Step(e, "approval", "read")
    /\ upd' = [upd EXCEPT ![e] = u]
    /\ info' = [info EXCEPT ![e] = file.owner]
    /\ UNCHANGED <<file, tmp, old, new, fd, statusVars, edits, history>>

\* Fault: the document that was loaded before the approval is rewritten.
ReadFile_Early(e) ==
    LET updated == withConfigValues(old[e], upd[e]) IN
    /\ pc[e] = "read"
    /\ ~CannotRewrite(old[e], upd[e])
    /\ Step(e, "read", IF updated = old[e] THEN "done" ELSE "open")
    /\ new' = [new EXCEPT ![e] = updated]
    /\ UNCHANGED <<file, tmp, upd, info, old, fd, statusVars, edits, history>>

\* os.ReadFile, withConfigValues: a file that would not change is not written.
ReadFile(e) ==
    LET updated == withConfigValues(file.doc, upd[e]) IN
    /\ pc[e] = "read"
    /\ ~CannotRewrite(file.doc, upd[e])
    /\ Step(e, "read", IF updated = file.doc THEN "done" ELSE "open")
    /\ old' = [old EXCEPT ![e] = file.doc]
    /\ new' = [new EXCEPT ![e] = updated]
    /\ UNCHANGED <<file, tmp, upd, info, fd, statusVars, edits, history>>

\* The file cannot be read or not be rewritten: the operator has to set the
\* values by hand.
RewriteFails(e) ==
    /\ Step(e, "read", "failed")
    /\ Forget(e)
    /\ UNCHANGED <<file, tmp, fd, statusVars, edits, history>>

-----------------------------------------------------------------------------
(* writePreserving, one action per system call.  A file that loses its name *)
(* stays open.                                                              *)

\* OpenFile(O_CREATE|O_TRUNC), Chmod; a new file belongs to root.
OpenTmp(e) ==
    /\ Step(e, "open", "write")
    /\ tmp' = [doc |-> <<>>, owner |-> IF tmp = None THEN "root" ELSE tmp.owner]
    /\ fd' = [fd EXCEPT ![e] = "tmp"]
    /\ overlapped' = (overlapped \/ \E x \in Editors : pc[x] \in Writing)
    /\ UNCHANGED <<file, upd, info, old, new, statusVars, edits, operatorDoc, dirty, raced>>

OpenFails(e) ==
    /\ Step(e, "open", "failed")
    /\ Forget(e)
    /\ UNCHANGED <<file, tmp, fd, statusVars, edits, history>>

\* write(2) from offset 0: what lies beyond the new bytes stays.
Overwrite(c, bytes) == bytes \o SubSeq(c, Len(bytes) + 1, Len(c))

\* Fault: the file is not closed.
PutBytes_NoClose(e, n) ==
    LET bytes == SubSeq(new[e], 1, n) IN
    /\ tmp' = IF fd[e] = "tmp" THEN [tmp EXCEPT !.doc = Overwrite(@, bytes)] ELSE tmp
    /\ file' = IF fd[e] = "path" THEN [file EXCEPT !.doc = Overwrite(@, bytes)] ELSE file
    /\ UNCHANGED <<fd, statusVars, edits, history>>

\* The first n entries reach the file that e has open.
PutBytes(e, n) ==
    LET bytes == SubSeq(new[e], 1, n) IN
    /\ tmp' = IF fd[e] = "tmp" THEN [tmp EXCEPT !.doc = Overwrite(@, bytes)] ELSE tmp
    /\ file' = IF fd[e] = "path" THEN [file EXCEPT !.doc = Overwrite(@, bytes)] ELSE file
    /\ fd' = [fd EXCEPT ![e] = "closed"]
    /\ UNCHANGED <<statusVars, edits, history>>

\* How much of it a write that fails or is cut short has written.
Cut(e) == {0, Len(new[e]) - 1}

\* Write, Sync, Close.
WriteTmp(e) ==
    /\ Step(e, "write", "chown")
    /\ PutBytes(e, Len(new[e]))
    /\ UNCHANGED <<upd, info, old, new>>

\* No space: some of it may be there.
WriteFails(e) ==
    /\ Step(e, "write", "remove")
    /\ \E n \in Cut(e) : PutBytes(e, n)
    /\ UNCHANGED <<upd, info, old, new>>

\* Fault: the owner is left to a rename that works.
ChownTmp_NotDone(e) ==
    /\ Step(e, "chown", "rename")
    /\ UNCHANGED <<file, tmp, upd, info, old, new, fd, statusVars, edits, history>>

\* preserveOwner: the owner is set by name.
ChownTmp(e) ==
    /\ Step(e, "chown", "rename")
    /\ tmp # None /\ tmp' = [tmp EXCEPT !.owner = info[e]]
    /\ UNCHANGED <<file, upd, info, old, new, fd, statusVars, edits, history>>

\* The configuration is replaced: those that have read it have read another one.
Replaces == dirty' = dirty \cup {x \in Editors : pc[x] \in {"open"} \cup Writing}

\* os.Rename: whatever is called path.tmp now becomes the configuration.
RenameTmp(e) ==
    /\ Step(e, "rename", "done")
    /\ tmp # None /\ tmp' = None /\ file' = tmp
    /\ fd' = [x \in Editors |-> CASE fd[x] = "tmp"  -> "path"
                                   [] fd[x] = "path" -> "unlinked"
                                   [] OTHER          -> fd[x]]
    /\ Replaces
    /\ raced' = (raced \/ e \in dirty)
    /\ UNCHANGED <<upd, info, old, new, statusVars, edits, operatorDoc, overlapped>>

\* Either fails, because the file is gone or for any other reason.
ReplaceFails(e) ==
    /\ Step(e, "chown", "remove") \/ Step(e, "rename", "remove")
    /\ UNCHANGED <<file, tmp, upd, info, old, new, fd, statusVars, edits, history>>

\* os.Remove(tmp) on the error paths.
RemoveTmp(e) ==
    /\ Step(e, "remove", "failed")
    /\ tmp' = None
    /\ fd' = [x \in Editors |-> IF fd[x] = "tmp" THEN "unlinked" ELSE fd[x]]
    /\ Forget(e)
    /\ UNCHANGED <<file, statusVars, edits, history>>

\* The process dies; what it has written so far stays.
Crash(e) ==
    /\ pc[e] \in {"approval", "read", "open"} \cup Writing
    /\ pc' = [pc EXCEPT ![e] = "crashed"]
    /\ IF pc[e] = "write" THEN \E n \in Cut(e) : PutBytes(e, n)
       ELSE UNCHANGED <<file, tmp, fd, statusVars, edits, history>>
    /\ Forget(e)

\* The operator saves another version, with an editor that replaces the file.
OperatorEdits(d) ==
    /\ edits < MaxEdits /\ d # file.doc
    /\ edits' = edits + 1
    /\ file' = [file EXCEPT !.doc = d]
    /\ operatorDoc' = d
    /\ fd' = [x \in Editors |-> IF fd[x] = "path" THEN "unlinked" ELSE fd[x]]
    /\ Replaces
    /\ UNCHANGED <<tmp, pc, upd, info, old, new, statusVars, overlapped, raced>>

-----------------------------------------------------------------------------
(* oidc-ssh status, run as the AuthorizedKeysCommand user *)

Readable(f) == f.owner = "shared"

\* It exits with an error.
StatusFails == spc' = "failed" /\ problems' = {} /\ seen' = None /\ keyFile' = None

\* config.Load
StatusLoad ==
    /\ spc = "load"
    /\ IF Readable(file) /\ Parse(file.doc)
       THEN spc' = "probe" /\ seen' = file /\ UNCHANGED <<problems, keyFile>>
       ELSE StatusFails
    /\ UNCHANGED <<file, tmp, editorVars, edits, history>>

\* probeProvider: unreachable, not a discovery document, or another issuer's.
StatusProbe ==
    /\ spc = "probe"
    /\ spc' = "files"
    /\ problems' \in {problems, problems \cup {"provider"}}
    /\ UNCHANGED <<file, tmp, editorVars, seen, keyFile, edits, history>>

\* fileNote of the configuration, keyNote, host_id.  keyNote says nothing of a
\* key that cannot be parsed.
Problems(key) == (IF Readable(file) THEN {} ELSE {"config"}) \cup
                 (IF key \in {"good", "partial"} THEN {} ELSE {"key"}) \cup
                 (IF Field(seen.doc, "host_id") = None THEN {"host"} ELSE {})

\* The checks of the files, and the exit code.
StatusFiles ==
    /\ spc = "files"
    /\ \E key \in {"good", "partial", "permissive", "unreadable", "missing"} :
          IF problems \cup Problems(key) = {}
          THEN spc' = "ok" /\ keyFile' = key /\ UNCHANGED <<problems, seen>>
          ELSE StatusFails
    /\ UNCHANGED <<file, tmp, editorVars, edits, history>>

-----------------------------------------------------------------------------

Enrolment(e) ==
    \/ LoadConfig(e)
    \/ \E u \in Updates : StatFile(e, u)
    \/ ReadFile(e) \/ RewriteFails(e) \/ OpenTmp(e) \/ OpenFails(e) \/ WriteTmp(e)
    \/ WriteFails(e) \/ ChownTmp(e) \/ RenameTmp(e) \/ ReplaceFails(e) \/ RemoveTmp(e)
    \/ Crash(e)

Status == StatusLoad \/ StatusProbe \/ StatusFiles

Next ==
    \/ \E e \in Editors : Enrolment(e)
    \/ \E d \in Documents : OperatorEdits(d)
    \/ Status

Spec == Init /\ [][Next]_vars

-----------------------------------------------------------------------------
(* Properties *)

\* Unless two enrolments wrote at the same time, which share path.tmp, the file
\* is at every moment a version that the operator or an enrolment wrote as a
\* whole, and the AuthorizedKeysCommand user can read it
\* (config_edit.go:170-176), whatever fails, crashes or was left behind.
FileStaysUsable ==
    ~overlapped => /\ Readable(file)
                   /\ file.doc \in {operatorDoc} \cup {new[e] : e \in Editors}

\* The line that entry i stands in is replaced.
Replaced(d, u, i) == d[i].key \in DOMAIN u /\ mappingEntry(d, d[i].key) = i

\* Every anchor that some alias could refer to stood in a line that is replaced.
LosesAnchor(d, u) ==
    \E i \in DOMAIN d :
        /\ d[i].key # None /\ d[i].form = "alias"
        /\ \A j \in 1..(i - 1) : d[j].key # None /\ d[j].anchor => Replaced(d, u, j)

\* No anchor is defined a second time.
AnchorOnce(d) ==
    \A i, j \in DOMAIN d :
        (d[i].key # None /\ d[i].anchor /\ d[j].key # None /\ d[j].anchor) => i = j

\* The configuration that an enrolment writes over a valid one can be loaded by
\* the next login, and says what the enrolment wrote, but for blanks around it,
\* and of the other keys what it said before, whether a key was there or is
\* added, once or through an alias (config_edit.go:22-32).  Not when an alias lost
\* its anchor (EditCannotDisturb), the host_id holds blanks (HostIdIsOpaque) or the
\* issuer has userinfo, a query or a fragment, which discovery accepts and
\* validateURL does not; nor of a document that defines an anchor twice.
EditLoadsBack ==
    \A e \in Editors :
       LET d == old[e]  n == new[e]  u == upd[e] IN
       (/\ n # None /\ Parse(d) /\ AnchorOnce(d) /\ ~LosesAnchor(d, u)
        /\ u["host_id"].shape # "spaced"
        /\ "issuer" \in DOMAIN u => u["issuer"].shape # "userinfo")
       => /\ Parse(n)
          /\ \A k \in Known :
                Field(n, k) = IF k \in DOMAIN u THEN TrimSpace(u[k]) ELSE Field(d, k)

\* "replacing the line replaces the entry and cannot disturb its surroundings"
\* (config_edit.go:131-133): what is made of a document is one.
EditCannotDisturb ==
    \A e \in Editors : new[e] # None => topLevelMapping(new[e])

\* "hostId is an opaque string chosen by the provider" that "the client stores"
\* (docs/PROVIDER-CONTRACT.md:123-125): the host_id of a document that an enrolment
\* writes is one that the next login accepts.
HostIdIsOpaque ==
    \A e \in Editors : (new[e] # None /\ topLevelMapping(new[e])) =>
        Accepts("host_id", Field(new[e], "host_id"))

\* The lines of a document that no enrolment ever writes, and where they stand.
Untouched(d) ==
    {<<i, d[i]>> : i \in {j \in DOMAIN d :
         IF d[j].key = None THEN d[j].by = "operator" ELSE d[j].key \notin Settable}}

\* What the operator wrote last is still there, each line where it was, comments
\* included (config_edit.go:22-28), also what was saved while an enrolment waited
\* for its approval; unless it was saved after setConfigValues had read the
\* file, which nothing detects, or two enrolments wrote at the same time.
OperatorEditSurvives ==
    (~raced /\ ~overlapped) => Untouched(file.doc) = Untouched(operatorDoc)

\* "Every check that fails [...] makes Status return an error, so a runbook can
\* rely on the exit code" (status.go:31-33): a status that ends well has found a key
\* that a login can use.
ExitCodeIsReliable == spc = "ok" => keyFile = "good"
=============================================================================
