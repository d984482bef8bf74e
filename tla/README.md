# A TLA+ development of oidc-ssh

oidc-ssh lets people log in to shared accounts over ssh with their identity at
an OpenID Connect provider. Two paths lead into a host:

* **interactive**: sshd's PAM stack calls `pam_oidc_ssh.so`, which forks
  `oidc-ssh-helper`; the helper runs the OAuth device flow with the provider
  (optionally confirmed with a PIN) and reports a result over a pipe;
* **by key**: sshd runs `oidc-ssh authorized-keys` as its
  AuthorizedKeysCommand; it asks the provider which keys may enter and, when
  the provider cannot answer, serves the last known good answer from a cache
  on disk.

`oidc-ssh enroll` gives the host the identity the second path and the PIN need.

This directory holds the TLA+ modules that model these paths, the TLC
configurations that check them, and proofs for TLAPS. Run a configuration with
`tlc -config KeysSerial.cfg MCAuthorizedKeys`, the proofs of a component with
`tlapm AuthorizedKeysProofs.tla` and so on for each module whose name ends in
`Proofs`. PROJECT.json lists runs, mutants, findings, hazards, theorems and the
source lines behind each definition.

## Inventory

| Component | State it keeps | Operations | Hard parts | What makes it correct |
|---|---|---|---|---|
| Key cache (`internal/keycache`) | one file per (account, fingerprint), a shared `.tmp` beside it | Put, Get, Purge | every login is its own process on the same directory; crashes between system calls; clock | an entry is a whole answer; nothing too old is served; a query is served from its own file only |
| authorized-keys (`internal/sshcmd/authorized_keys.go`) | one query per process | fetchKeys, keysAfterError | one failing step of many; panic; killed by sshd | fails closed; the cache is used in an outage only |
| API client (`internal/provider`) | none | FetchAuthorizedKeys, Enroll | classification of failures | only an outage is `ErrUnavailable` |
| PAM module (`pam/pam_oidc_ssh.c`) | loop state, deadline, child process, two pipes, PAM environment | pam_sm_authenticate | two processes, a blocking conversation, poll, deadline, SIGKILL, waitpid | success only for a helper that earned it and ended well; the call returns; no helper is left |
| Helper (`cmd/oidc-ssh-helper`) | position in the line protocol | run, exportEnv, protocol | may be killed at any point; prompts block on stdin | identity variables before the result, polling after the answer |
| Authenticator and OIDC client (`internal/auth`, `internal/oidc`) | device code, deadline, polling interval | Authenticate, WaitForToken, VerifyIDToken | browser, terminal, polling and expiry race; lost and late answers | success only if approved (and the right PIN); one PIN attempt; true reasons; bounded wait |
| Enrolment (`internal/sshcmd/enroll.go`, `config_edit.go`, `record.go`, `internal/hostid`) | host key, configuration file, record, cache | Enroll | crash between files, retries, logins beside it | key, configuration and provider agree at every moment; a retry finds the host it registered; no second host; nothing of the old enrolment survives |
| Test provider (`internal/testprovider`) | hosts, tokens, seen `jti`, one device flow, programmed answers | HTTP handlers and programming methods under a mutex | handlers interleave between their critical sections; time read before the lock; one flow overwritten by the next | an assertion is accepted once; a token says what its flow was given for; a revoked host stays out |
| Configuration (`internal/config`, `internal/sshcmd/config_edit.go`) | the YAML file, a `.tmp` beside it | Load, validate, setConfigValues | two writers and an operator without a lock; crash between system calls; what is written is validated only by the next reader | the file is always whole and readable; a rewrite keeps what the operator wrote; it loads back |
| status (`internal/sshcmd/status.go`) | none | Status | looks at the file twice, with a request in between | an exit code of 0 means that the host can log people in |
| Log sanitising, command lines, the mock-provider command | none | text, flags | none | not modelled: no state of their own |

The components meet in four places: the pipes between module and helper
(`Helper`/`PamModule`), the token endpoint between helper and provider
(`DeviceLogin`/`DeviceFlow`), the files of the cache between processes
(`KeyCache`/`AuthorizedKeys`), and the configuration file between enrolment
and everything else (`Enroll`, which has the logins beside it, and
`ConfigFile`, which has the operator and `status`).

## Modules

| Module | Models | Notes |
|---|---|---|
| `KeyCache` | the cache's files and system calls | constants, file format, one operator per system call |
| `AuthorizedKeys` | the command over `KeyCache` | one action per step of `fetchKeys`, `Put` and `Get` that another process can observe |
| `LastKnownGood` | abstract: what the cache promises | atomic, no files |
| `AuthorizedKeysProofs` | theorems about `AuthorizedKeys` | overlapping logins or not |
| `SerialKeysProofs` | theorems about `AuthorizedKeys` | logins one after the other; the refinement of `LastKnownGood` |
| `Helper` | the helper's process and line protocol as its parent sees it | may hang, garble, exit or die anywhere |
| `PamModule` | `pam_sm_authenticate` beside `Helper` | |
| `DeviceFlow` | one device authorization at the provider | external: RFC 8628 and PROVIDER-CONTRACT section 6.1, as the client uses them |
| `DeviceLogin` | `run`/`Authenticate`/`WaitForToken` over `DeviceFlow` | |
| `Enroll` | `oidc-ssh enroll` beside logins and providers | the provider is `internal/testprovider`'s, one per API base |
| `PamModuleProofs`, `DeviceLoginProofs`, `EnrollProofs`, `TestProviderProofs`, `ConfigFileProofs` | theorems about the module in the name | |
| `TestProvider` | `internal/testprovider`: device flow, tokens, assertions, enrolment, authorized keys | a handler is the sequence of its critical sections |
| `ConfigFile` | the configuration file: reading, rewriting, the operator, `status` | one action per system call of a rewrite |
| `MC...` | small instances for TLC | |

Definitions whose comment begins with *Fault* are not part of any
specification: each is the mutated form of the definition after it, used to
see that a property notices the bug.

### The cache and the command

`entry[k]` and `tmp[k]` are the contents of `<path>` and `<path>.tmp`; `fd[p]`
says where the file a process has open for writing is linked *now*, because a
file renamed or removed under a writer stays open. A file is a sequence of
blocks, the header being block 0, and each block remembers the answer it was
written from; lines are taken to be equally long, so overlapping writes mix
whole lines. The real mixture can be finer, which only makes the torn entry
worse. `writeAtomic` is four steps: open with truncation, write (with
chmod, sync and close), rename, and removal on an error path; `Get` is a read
with judgement, and a removal. A process may panic (`fetchKeys` recovers and
prints nothing) or be killed between any two steps. `PathOf` is a constant
function: `Cache.path` with its account pattern and its lossy file names is
data, and the assumption on it says no more than that it yields a file or a
refusal. `Answers` are what `parseKeys` leaves of a 200; the other statuses go
through `sentinelFor` as written, status 0 standing for no answer.

### The PAM module and the helper

`mpc` follows `pam_sm_authenticate`: top of the loop, poll, handling the lines
of one read, inside the conversation function, reaping, killing, judging. A
read returns any number of the bytes that were written: some lines, and perhaps
the beginning of another, which stays in the buffer (`part`) until a later read
brings its end or the pipe is at its end. A helper that dies may leave a line
half written (`cut`). Otherwise `Helper` writes line by line (each is flushed),
blocks on its stdin after a prompt, and may die anywhere; closing the pipes turns
its next write into its end and its next read into EOF. A success exports two
variables in either order, or one where `session_env` is `OIDC_SUB` (`Sessions`);
`granted` records which. A conversation that fails is answered with an empty line
like one that was left empty, so `Shown` does not tell them apart. `fds` are the
descriptors of the two pipes that sshd's process has open: when only the second
pipe cannot be made, the two of the first stay open, which `NothingLeft` states
as its one exception. The device flow behind it is an outcome chosen at
each step.

### The device login

`apc` follows a login from discovery to its result. The polling loop belongs
to `golang.org/x/oauth2`: a ticker, a request, and `authorization_pending` or
`slow_down` going round again. A request is three steps (sent, handled by the
provider, received), so that the deadline can fall between them and an answer
can be lost after the code was redeemed. The PIN flow is on when discovery
advertises it and a host assertion could be made; only an approved page shows
the right PIN. Of the ID token the times are modelled: it is dated by a clock
that is `ahead` of the host's (or behind), its `exp` and `nbf` are looked at
when it arrives and its `iat` after the keys were fetched, with the shifts that
`VerifyIDToken` makes; the other checks are abstracted to the first one the
token fails. The code's lifetime is dated twice: at the provider when it hands the
code out (`expiry`), and on the host when the answer has arrived (`expiresAt`, as
`x/oauth2` has it), which may be later by the length of the request.

Four things that the documentation or a comment promises are not so, and each has
a configuration: the time at the prompt is outside every bound (`device_bound`);
`session_env: OIDC_SUB` loses the username (`DeviceSessionEnv.cfg`); a wait that ends
with the code's lifetime is reported as `timeout` (`DeviceExpiry.cfg`), and so is a
single poll that hangs for `http_timeout`, because `http.Client`'s error matches
`context.DeadlineExceeded` (`DeviceOutage.cfg`). `ReasonIsTrue`, which passes, therefore
speaks of `denied` and `expired` only, and `BoundedApartFromPrompt` counts everything but
the prompt.

### Enrolment

`keyFile`, `config` and `dir` are what is on disk: the host key, the three keys
of the configuration that enrolment writes, and the cache directory, which
holds both the answers and the record `host.json`. `pc` follows `Enroll`
through the key, the device flow, the registration, the configuration, the
purge and the record. The key file is created and written in two steps, so a
crash leaves `Partial` under the final name, which every later run refuses
until the administrator removes it; the configuration goes through a temporary
file nobody reads and is replaced in one step (`ConfigFile` takes that step
apart). `Purge` lists first and removes
one name after the other. An error return and a crash are the same to the
files (`Stop`): nothing is undone. A request stays in `wire` until the provider
handles it, which may be after `http_timeout`, after another run, or never.

The provider is translated from `internal/testprovider/ssh.go`: a list of
hosts for each base, looked up by key and by name. `reg` numbers the
registrations, so that an answer says under which of them it was given;
everything the group and account lists decide is in that number. A token is
good at one base, the one where its issuer's provider serves the API (`HomeBase`,
a constant): it may be advertised by discovery, be the default below the issuer,
or be known to the administrator only and given with `--api-base`. Logins are taken whole except
for the points where enrolment can come between: configuration, key, question,
cache. Enrolments do not overlap.

One consequence of `applyOverrides` is in the model though nothing goes wrong
by it: `--issuer` without `--api-base` keeps the `api_base` that the earlier
enrolment wrote, so the new issuer's token is shown to the old provider and
refused.

### The test provider

Each handler of `net/http` runs in a goroutine of its own; what it does between
`Lock` and `Unlock` of `p.mu` is one action, and what it carries from one
section to the next is in its `slot`. `handleToken` has three sections: the
poll, the claims (`SignIDToken` takes the lock again for the audience, which is that
of the last client, as provider.go:275-277 says), and the storing of the access token. `handleAuthorizedKeys` and `handleEnroll` read the clock before
they have the lock, so `time` in a slot may be behind the clock and behind
other requests. There is one device flow: its fields are overwritten by the
next authorization, and by a refused one too (`Recorded`). Keys and lines are
data: for an account there are lines or none. The programming methods that a
test calls (`SetOutcome`, `SetPolicyDeny`, `RevokeHost`, ...) come at any moment.

Two comments of the code are contradicted once requests overlap, or follow each
other unluckily. An assertion can be accepted twice (`ProviderReplay.cfg`): request A
reads its time, a later request prunes the table by a later time, which drops the
entry of an earlier use of A's assertion, and A then passes by its own, older
time. `ReplayNeedsOvertaking` says that this is the only way, and that the device
endpoint, which reads the time under the lock, cannot be fooled. And a device
authorization that is refused changes the flow that is pending, whose token is
then given for what the refused request said (`ProviderFlow.cfg`). Revoking a host
does not stop the token of a flow that it had started; no comment says it does.
For tests that talk to the provider one request after the other, and keep one
flow at a time, none of this matters.

### The configuration file

A document is a sequence of entries and comments; an entry has a key, a value
known by its shape, and a form: one line, several lines, or an alias of an
anchored entry. `Parse` is `decode` (known fields, no key twice, aliases after
their anchors), the defaults, and `validate`; keys that are judged alike stand
for each other. `withConfigValues` rewrites the first entry of a key in place
and appends what is absent below one comment; line comments of rewritten lines
are kept by the code and are not modelled. `writePreserving` is split into
open, write (with chmod, sync, close), chown, rename and removal, on two names
that all enrolments share; `fd` says where the file a process has open is
linked now, as in the cache. The operator's editor replaces the file.
`overlapped`, `dirty` and `raced` are histories of the two races that the code is
open to: two enrolments inside `writePreserving`, and a file replaced by someone
else between `setConfigValues`'s own read and its rename (`dirty` are the enrolments
that hold a text which is no longer the file's, `raced` says that one of them has
renamed). What was saved before that read, while an enrolment waited for its
approval for instance, is not excused. Outside of the two races the properties hold
for everything that can fail; that the code has no lock against them is nowhere
promised otherwise.
Anchors have one name, so an alias refers to the last anchored entry before it;
where a second one redefines it, a rewrite can also change what an alias says,
and `EditLoadsBack` leaves such documents out. Of the values enrolment
writes, `api_base` has passed `provider.New`, which checks what `validate` checks,
and an issuer from the command line was trimmed and parsed as a URL: that is the
assumption on `Updates`.

`EditLoadsBack` leaves out the updates that do harm. The line of an anchored value is
replaced without its anchor although something refers to it (`ConfigAnchor.cfg`);
`Client.Enroll` accepts and stores a host_id that `validate` refuses
(`ConfigHostID.cfg`). Both contradict what the code or the contract says, and in both
enrolment reports success while the next login cannot load its configuration. An issuer
with userinfo, a query or a fragment is the third; there the command line is wrong
and nothing promises otherwise. `status` ends well with a key file that was created and
never written, because `keyNote` drops the error of `hostid.Load`
(`StatusPartialKey.cfg`).

## Runs

| Run | Result | Shows |
|---|---|---|
| `keys_serial` | passes | logins one after the other: fails closed, age bound, the entry is whole after every system call and crash, young entries survive, `LastKnownGood` is implemented |
| `keys_concurrent` | passes | overlapping logins, clock set back: the header of what is served is young, and every line is from the query's own file |
| `keys_old_lines` | violated | overlapping writers leave an old answer's lines under a newer header (cache.go:233) |
| `keys_denial` | violated | an empty answer does not end an older cached one (cache.go:84) |
| `pam_module` | passes | success is earned, no helper and no descriptor left, no early kill, polling after the answer, the call returns |
| `pam_auto_reaped` | violated | a failed waitpid reads as a clean exit (pam_oidc_ssh.c:215) |
| `device_login` | passes | success is earned, a user is told `denied` or `expired` only if it is so, one PIN attempt, a login that is bounded apart from its prompt, clocks that differ by the skew do no harm, every login ends |
| `device_bound` | violated | the time at the prompt is outside `timeout` + 4 x `http_timeout` |
| `enroll` | passes | up to three runs of enrolment against three providers: the configuration never mixes two enrolments, every query can be verified, no second host, a 409 has a reason |
| `enroll_purge` | violated | a login answered before a re-enrolment puts its answer after the purge (enroll.go:299) |
| `test_provider` | passes | a used assertion is accepted again only by overtaking; a revoked host stays out |
| `config_file` | passes | the configuration stays whole and readable, a rewrite loads back and keeps what the operator wrote |

Other disagreements between the code and what a document or a comment says of it
have a configuration that shows them, each with one property that TLC finds
violated:

| Configuration, module | Property | What it contradicts |
|---|---|---|
| `KeysTornEntry.cfg`, `MCAuthorizedKeys` | `EntryIsWhole` | overlapping logins mix two answers in one entry; cache.go:81-82 "readers never observe a partial entry" |
| `PamDeadline.cfg`, `PamModule` | `HelperKilledAtDeadline` | the deadline is not looked at during a conversation (pam_oidc_ssh.c:434); README.md:237-239 "the helper is killed when it elapses" |
| `DeviceSessionEnv.cfg`, `MCDeviceLogin` | `IdentityExported` | `session_env: OIDC_SUB` loses the username; authenticator.go:131-133 |
| `DeviceExpiry.cfg`, `MCDeviceLogin` | `ExpiryReportedAsSuch` | the end of the code's lifetime is reported as `timeout`; README.md:431-432 |
| `DeviceOutage.cfg`, `MCDeviceLogin` | `OutageReportedAsSuch` | one poll that hangs is reported as `timeout` (client.go:316); authenticator.go:43-45 |
| `ProviderReplay.cfg`, `MCTestProvider` | `AssertionsUsedOnce` | a used assertion is accepted again; ssh.go:313-315 "a second call with the same token fails" |
| `ProviderFlow.cfg`, `MCTestProvider` | `TokenBelongsToFlow` | a refused authorization changes the flow that is pending (provider.go:433); ssh.go:92, 207-211 |
| `ConfigAnchor.cfg`, `MCConfigFile` | `EditCannotDisturb` | a rewrite leaves an alias without its anchor; config_edit.go:129-133 "cannot disturb its surroundings" |
| `ConfigHostID.cfg`, `MCConfigFile` | `HostIdIsOpaque` | a host_id with blanks is stored and then refused (config.go:352); PROVIDER-CONTRACT.md:123-125 "an opaque string" |
| `StatusPartialKey.cfg`, `MCConfigFile` | `ExitCodeIsReliable` | `status` ends well without a usable key (status.go:125); status.go:31-33 "a runbook can rely on the exit code" |

The configurations on the cache belong together. With one login at a time all that is
served was put within the TTL. Once logins overlap, the file can mix two answers
(`KeysTornEntry.cfg`); then only its header is known to be young (`keys_concurrent`),
and the lines below it may be those of an answer that is too old
(`keys_old_lines`). They are still lines that were given for the same file.

**Bounds.** Three processes: two writers to tear a file and one reader to see
it, or an answer, a denial and a reader. Two files are enough for one to be
confused with another, one query outside the cache's account pattern and one
outside the command's exercise both refusals. Two clock ticks make a second,
so that the header truncates; TTL and `MaxClock` let an entry be young, just
expired, and ahead of the clock. In `PamModule` reads
that add to an unfinished line are told apart once (`Read`); past `MaxClock` time passes
only where the module waits for it, so a deadline can always be reached; with
`Punctual` the scheduler never delays the module, which keeps the
counterexample of `PamDeadline.cfg` free of mere scheduling. In `DeviceLogin`
lifetimes are unstated, over on arrival, shorter and longer than the timeout;
intervals are below, inside and above the clamp; `MaxClock` bounds the time
spent at the prompt and `MaxSlowDowns` the slow_down answers. Clocks differ by
the skew in both directions and by more, and requests take long enough for a
token to be over by more than twice the skew when it arrives. `Enroll` has three
runs (one that registers and fails, one elsewhere, one that comes back), three issuers
and bases (one advertised, one the default, one to be given by hand), and command
lines that keep everything, change issuer and name, and give an issuer with its
base; one login is enough, because logins do not interact except through the
cache. `TestProvider` has two handlers at a time and four requests: use an
assertion, start a second request with it, prune with another, finish (the
replay needs exactly these, and `MaxClock` lets the first assertion expire
meanwhile); a code, a poll and an enrolment with its token fit as well. Two
clients, two machines under one name, and one call of a programming method
anywhere. `ConfigFile` has two enrolments, one save of the operator, three
documents (not enrolled; enrolled, with an anchor in use; one that no login can
load) and five sets of values that enrolment may have to write, with and without the
two optional keys. Symmetry is
used for the request slots and the enrolments, which no property singles out;
neither run has a liveness property. All systems stop when their processes
are done, so deadlock is not checked.

**Fairness.** `PamModule`: the module's own steps, time, and the conversation
function, which sshd ends when the user answers or the connection goes.
Nothing is assumed of the helper (it may hang for ever) and no system call is
assumed to fail. `DeviceLogin`: the host's steps and timers, time, and the
prompt. Nothing is assumed of the provider or the browser. The cache,
enrolment, the configuration and the test provider have no liveness property:
nobody has to run enroll again or send another request.

## Proofs

Every invariant and every action property that the passing runs check is proved
for all values of the constants, and so is the refinement. The constants are
bounded by the named ASSUMEs of the modules and by nothing else; the bounds on
clocks and counters (`MaxClock`, `MaxSlowDowns`, `MaxEdits` and so on) are any
natural numbers. Where a theorem has a hypothesis it is the one under which the
run checks the property: `~Concurrent` (one login at a time), `~ClockStepsBack`,
`~AutoReaped` (the application does not ignore SIGCHLD); without it `keys_old_lines`,
`pam_auto_reaped` and `KeysTornEntry.cfg` show the counterexample. In each module `IInv` is the
inductive invariant (`SerialInv` and `PastInv` in `SerialKeysProofs`), with a lemma for each of its parts that goes through
the actions, and TLC has checked it on the instance of the run.

`AuthorizedKeysProofs` proves, for any sets of processes, queries, files,
answers and statuses, any TTL and clock resolution, overlapping or not:

* `TypeCorrect`: `Spec => []TypeOK`;
* `FailsClosed`: `Spec => []ServesDecisionOrOutage`;
* `HeaderYoung`: `Spec => []HeaderIsYoung`;
* `CacheStaysInItsFile`: `Spec => []ServedStaysInItsFile`.

The assumptions are the named ASSUMEs of `KeyCache` and `AuthorizedKeys`. None
of the properties is inductive. What a file holds depends on who wrote to it,
so the invariant `IInv` adds: an open file that still has a name exists under
that name (`OpenFilesLinked`), so that writes land where the types say; every
block at position i of a file of path k is block i-1 of an answer to a query
of k (`FilesAligned`), which overlapping writes preserve because each writes
from offset 0; a process inside `Put` holds a non-empty answer to its own
query (`PutHoldsAnswer`); a process about to remove has a file to name
(`DropHasFile`); and an outcome is consistent with the step that produced it
(`OutInv`). `TypeStep`, `FilesStep` and `OutStep` go through the actions;
`FileAligned`, `PrefixAligned` and `OverwriteAligned` are the facts about
sequences they rest on.

`SerialKeysProofs` adds what needs logins to come one after the other:

* `EntryWhole`: `~Concurrent => (Spec => []EntryIsWhole)`;
* `ServedYoung`: `~Concurrent => (Spec => []ServedIsYoung)`;
* `YoungSurvives`: `~Concurrent /\ ~ClockStepsBack => (Spec => YoungEntrySurvives)`;
* `Refinement`: `~Concurrent /\ ~ClockStepsBack => (Spec => ImplementsLastKnownGood)`.

`OneAtATime` is the lock that the code does not have. Under it `path.tmp` is the
writer's own (`WriterOwnsTmp`): empty after the open, which truncates what a dead
writer left, and the whole answer before the rename. An entry that is whole has one
answer in header and lines, so the age of the header is that of the lines
(`WholeIsYoung`), which is what overlapping writers destroy. For the age of entries,
`PastInv` says that what is on disk and in flight was answered in the past, and
that an entry Get has found stale is still there and still stale when it is
removed. The refinement maps a file to the answer its header was written from
and an outcome to what it served: the rename, or the step at which a write is
given up, is `ServeAnswer`, a read that finds a young entry is `ServeKnown`, the
removal is `Forget`, and every other step asks, ticks or stutters.

`PamModuleProofs` proves, for every timeout and grace period:

* `TypeCorrect`: `Spec => []TypeOK`;
* `SuccessEarned`: `~AutoReaped => (Spec => []SuccessIsEarned)`;
* `SuccessGranted`: even with a lost exit status, a success was granted by the
  device flow and has every variable that was granted, one or two;
* `CleansUp`: `Spec => []NothingLeft`;
* `GraceGiven`: `Spec => []NoEarlyKill`;
* `PollsLate`: `Spec => []PollsAfterAnswer`.

A success is decided in one process, written as a line, sits in a pipe, is read
in pieces and handled later, so the invariant follows it: any success among the
lines handled, read, in the pipe or still to be written was granted, and every granted
variable is exported before it (`LinesBacked`, which `Backed` states of the
concatenation of those parts, so that moving a line from one to the next keeps
it). `ResultBacked` takes over once it is handled, `Stage` says for each point of
the call which descriptors are open and whether the helper lives, `StatusTrue`
that the status judged is the helper's, `GraceKept` when killing may begin.

`DeviceLoginProofs` proves, for all timeouts, lifetimes, intervals, skews and
drifts, negative and zero ones included where the provider may state them:

* `TypeCorrect`: `Spec => []TypeOK`, with the bounds on the polling interval;
* `SuccessEarned`: `Spec => []SuccessIsEarned`;
* `ReasonTrue`: `Spec => []ReasonIsTrue`;
* `PinTriedOnce`: `Spec => []OnePinAttempt`;
* `BoundedBesidesPrompt`: `Spec => []BoundedApartFromPrompt`;
* `SkewSuffices`: `Spec => []ClocksMayDiffer`.

Two processes that share no state have to agree: `FlowOK` and `ReplyOK` say that
what the host believes of its code is still so at the provider when an answer is
received, however late; `RedeemedOK` that a code is redeemed with the right PIN
only. `ClockOK` bounds, for each step of the login, how long ago it began; the sum of
these bounds is `BoundedApartFromPrompt`. `TokenOK` dates the token between request and
answer, from which the three comparisons of `VerifyIDToken` follow.

`EnrollProofs` proves, for any issuers, bases, names, command lines, accounts
and logins and any number of attempts:

* `TypeCorrect`: `Spec => []TypeOK`;
* `ConfigIsAnEnrolment`: `Spec => []ConfigDescribesEnrolment`;
* `QueriesVerify`: `Spec => []AssertionsVerify`;
* `NoSecondHost`: `Spec => []OneHostPerProvider`;
* `RetryIsSafe`: `Spec => ConflictIsReal`.

The assumption is `EnrollAssumption`. The argument is that a host has one key
for ever: a key that was written is never replaced (`KeyFileStep`), so every
request, every host registered for this machine and every run at work has the
key on disk (`OneKey`), and the provider keeps a host with its key
(`HostsStep`). Hence who is this machine's host stays so (`IsHostKept`), and it
remains to follow the values: the request of the run that waits carries its
issuer, base and name (`RequestsOK`), a positive answer names this machine at
the base the run talks to, and that base is the issuer's (`AnswerOK`), the
configuration is replaced by exactly this (`ConfigStep`, which needs
`MemoryOK`: an issuer not given on the command line is still the one in the
file), and a login that loaded it holds a host that verifies (`LoginsOK`).

`TestProviderProofs` proves, for any clients, machines, assertions and requests and
any number of handlers at a time:

* `TypeCorrect`: `Spec => []TypeOK`;
* `UsedOnceInOrder`: `Spec => []ReplayNeedsOvertaking`;
* `RevokedOut`: `Spec => RevokedStaysOut`.

`TableOK`: an accepted assertion stays in the replay table until a request has
pruned it by a time at which it has expired, and no request's time is ahead of
the clock. `PollsOK` says that a poll which was approved is for a code that was handed out,
which the types of the tokens need. `RevokedInactive` is what the action property needs: nothing
makes a revoked host active again.

`ConfigFileProofs` proves, for any documents and updates and any number of
enrolments:

* `TypeCorrect`: `Spec => []TypeOK`;
* `FileUsable`: `Spec => []FileStaysUsable`;
* `EditLoads`: `Spec => []EditLoadsBack`;
* `EditSurvives`: `Spec => []OperatorEditSurvives`.

The first half is about documents. `EntryIsFirst` characterises `mappingEntry`;
`Rewritten` shows that `withConfigValues` yields, line by line, the old document
with some lines replaced and some appended (`RewriteOf`), and everything else is
derived from that: `UntouchedKept`, `StillMapping` (when aliases
still find an anchor), `FieldAfter` and `RewriteLoadsBack`. The second half is about
the file. `RewriteOK` says that what an enrolment holds is the rewrite of what it read;
`Solo` that, until two of them overlap, `path.tmp` belongs to the one that writes,
is empty, then whole, then whole and readable when it is renamed; `ReadCurrent` that
an enrolment which is not `dirty` has read what the file still says, from which
the operator's lines survive its rename.

Only model-checked: liveness (`Returns` of the PAM module, `Ends` of the login),
which TLAPS does not do; and the violations, which are counterexamples. Nothing
needed induction over data: sequences are reasoned about by index.

## Not modelled

The wording of messages and log lines, text sanitising, option parsing, TLS and
cryptography (a token is sound or fails a check), the contents of key lines,
packaging. Of the configuration: the search for the default path, `{{hostname}}`,
line comments, and a top-level mapping that is indented (keys are appended in
the first column, config_edit.go:97, and would not join it). Of enrolment: the
group and account lists and the readers of the record. Of `status`: the notes
on record and cache, which print only. Of the test provider: discovery, JWKS,
extra claims, counters, accessors, and the forged tokens it makes for tests.
Log sanitising and the command line front ends (`mock-provider` among them)
keep no state and take no
decision that another part depends on.

## Plan

1. *(done)* `KeyCache`, `AuthorizedKeys`, `LastKnownGood` and their proofs:
   the cache decides who enters during an outage.
2. *(done)* `Helper`, `PamModule`: the process boundary.
3. *(done)* `DeviceFlow`, `DeviceLogin`: the decision itself.
4. *(done)* `Enroll` and its proofs: host key, configuration, cache, record and
   provider, with crashes, retries and late requests.
5. *(done)* `TestProvider`: handlers as critical sections, time read before the
   lock, the replay table.
6. *(done)* `ConfigFile`: `withConfigValues` against what it promises, two writers,
   the operator and `status`; the ID token's time window in `DeviceLogin`.
7. `DeviceLogin` shown to implement `Helper` as `PamModule` uses it: the lines
   written would have to become part of `DeviceLogin`.
8. *(done)* Proofs of every invariant, action property and refinement of the
   passing runs.
9. A proof that `DeviceLogin`'s lines are those of `Helper`, with 7.
