------------------------------- MODULE Enroll -------------------------------
(***************************************************************************)
(* `oidc-ssh enroll` (internal/sshcmd/enroll.go): the host key, the device *)
(* flow, the registration at the provider, the configuration file, the     *)
(* cache directory, in this order, and nothing undone on failure.  An      *)
(* administrator runs it, possibly again after it failed or was            *)
(* interrupted, never twice at the same time; authorized-keys processes    *)
(* read and write the same files beside it.                                *)
(*                                                                         *)
(* Their queries are taken whole here (AuthorizedKeys has their steps):    *)
(* read the configuration, ask, put or get.  The provider is the one of    *)
(* internal/testprovider, one per API base.                                *)
(***************************************************************************)
EXTENDS Integers, Sequences

CONSTANTS
    Issuers, Bases,
    Advertised,    \* ssh_access_endpoint in the discovery document of an issuer
    DefaultBase,   \* <issuer>/api/ssh
    HomeBase,      \* where the provider that issues the tokens of an issuer serves its
                   \* API, whether it advertises that or not
    Names,         \* --name
    Options,       \* the command lines: [issuer, base, name]
    Accounts,      \* the accounts sshd asks about, a directory of the cache each
    Logins,        \* authorized-keys processes
    MaxAttempts,   \* bound on the runs of enroll
    recordName,    \* host.json, in the cache directory too
    Partial,       \* content of a key file that was not finished
    None

VARIABLES
    keyFile,    \* identity_key: None, Partial, or a key
    config,     \* the configuration file, its three keys that enrolment writes
    dir,        \* cache_dir: an answer per account, and the enrolment record
    attempts,   \* runs of enroll so far
    pc,         \* where the current one is
    opt,        \* its command line
    cfg,        \* its configuration, with the command line applied
    key,        \* the identity it uses
    res,        \* the provider's answer to it
    todo,       \* what Purge still has to remove
    warned,     \* storeRecord could not clear the cache
    wire,       \* enrolment requests sent and not yet handled
    hosts,      \* hosts[b]: the hosts registered at b
    regs,       \* registrations handled, which numbers them
    lpc, lcfg, lans   \* logins: step, what they loaded, what they were answered

fileVars == <<keyFile, config, dir>>
memVars == <<opt, cfg, key, res, todo, warned>>
runVars == <<attempts, pc, memVars>>
providerVars == <<wire, hosts, regs>>
loginVars == <<lpc, lcfg, lans>>
vars == <<fileVars, runVars, providerVars, loginVars>>

\* Ed25519 keys: one that may be generated in each run, and those of others.
Keys == 1..MaxAttempts
ForeignKey == 0

HostIds == [base : Bases, n : Nat \ {0}]
Config == [issuer : Issuers, base : Bases \cup {None}, host : HostIds \cup {None}]
Target == [issuer : Issuers, base : Bases \cup {None}]
Answer == [host : HostIds, reg : Nat]
Loaded == [account : Accounts, host : HostIds, base : Bases,
           key : Keys \cup {None}]
Host == [name : Names, key : Keys \cup {ForeignKey}, reg : Nat, active : BOOLEAN]
Request == [issuer : Issuers, base : Bases, key : Keys, name : Names, run : 1..MaxAttempts]
Response == [status : {200, 201, 401, 403, 409}, host : HostIds \cup {None}, reg : Nat]

ASSUME EnrollAssumption ==
    /\ Advertised \in [Issuers -> Bases \cup {None}]
    /\ DefaultBase \in [Issuers -> Bases]
    /\ HomeBase \in [Issuers -> Bases]
    /\ Options \subseteq [issuer : Issuers \cup {None}, base : Bases \cup {None}, name : Names]
    /\ MaxAttempts \in Nat
    /\ recordName \notin Accounts
    /\ None \notin Issuers /\ None \notin Bases /\ None \notin Keys
    /\ None \notin HostIds /\ None \notin Target /\ None \notin Answer
    /\ None \notin Loaded /\ None \notin Response
    /\ Partial \notin Keys /\ Partial # None

-----------------------------------------------------------------------------
(* State *)

Working == {"key", "keywrite", "flow", "wait", "config", "purge", "remove", "record"}
Steps == Working \cup {"idle", "ok", "failed"}

TypeOK ==
    /\ keyFile \in Keys \cup {None, Partial}
    /\ config \in Config
    /\ dir \in [Accounts \cup {recordName} -> Answer \cup {None}]
    /\ attempts \in 0..MaxAttempts
    /\ pc \in Steps
    /\ opt \in Options \cup {None}
    /\ cfg \in Target \cup {None}
    /\ key \in Keys \cup {None}
    /\ res \in Response \cup {None}
    /\ todo \in SUBSET (Accounts \cup {recordName})
    /\ warned \in BOOLEAN
    /\ wire \in SUBSET Request
    /\ hosts \in [Bases -> Seq(Host)]
    /\ regs \in Nat
    /\ lpc \in [Logins -> {"idle", "key", "ask", "put", "get", "done"}]
    /\ lcfg \in [Logins -> Loaded \cup {None}]
    /\ lans \in [Logins -> Answer \cup {None}]

\* A host never enrolled, at providers that may know another host by any name.
Init ==
    /\ keyFile = None
    /\ config \in [issuer : Issuers, base : {None}, host : {None}]
    /\ dir = [f \in Accounts \cup {recordName} |-> None]
    /\ attempts = 0 /\ pc = "idle"
    /\ opt = None /\ cfg = None /\ key = None /\ res = None /\ todo = {} /\ warned = FALSE
    /\ wire = {}
    /\ \E b \in Bases, n \in Names :
          LET other == [name |-> n, key |-> ForeignKey, reg |-> 0, active |-> TRUE] IN
          hosts \in {[c \in Bases |-> <<>>],
                     [c \in Bases |-> IF c = b THEN <<other>> ELSE <<>>]}
    /\ regs = 0
    /\ lpc = [l \in Logins |-> "idle"]
    /\ lcfg = [l \in Logins |-> None]
    /\ lans = [l \in Logins |-> None]

-----------------------------------------------------------------------------
(* Enroll: the command line and the host key *)

Goto(from, to) == pc = from /\ pc' = to

\* Enroll returns an error or is interrupted; what it held in memory is gone.
Stop ==
    /\ pc' = "failed"
    /\ opt' = None /\ cfg' = None /\ key' = None /\ res' = None
    /\ todo' = {} /\ warned' = FALSE
    /\ UNCHANGED attempts

\* The first of the three that is known.
ResolveBase(apiBase, issuer, discovered) ==
    IF apiBase # None THEN apiBase
    ELSE IF discovered # None THEN discovered ELSE DefaultBase[issuer]

\* Fault: a flag that was not given overrides too.
applyOverrides_Blank(o) == [issuer |-> o.issuer, base |-> o.base]

\* The command line wins over the configuration file.
applyOverrides(o) ==
    [issuer |-> IF o.issuer # None THEN o.issuer ELSE config.issuer,
     base |-> IF o.base # None THEN o.base ELSE config.base]

\* As root, with a usable configuration, a name and an account; an enrolment
\* that lacks one of them changes nothing.
Start(o) ==
    /\ pc \notin Working
    /\ attempts < MaxAttempts
    /\ attempts' = attempts + 1
    /\ pc' = "key"
    /\ opt' = o
    /\ cfg' = applyOverrides(o)
    /\ key' = None /\ res' = None /\ todo' = {} /\ warned' = FALSE
    /\ UNCHANGED <<fileVars, providerVars, loginVars>>

\* loadOrCreateIdentity: the key there is.
LoadIdentity ==
    /\ Goto("key", "flow")
    /\ keyFile \in Keys
    /\ key' = keyFile
    /\ UNCHANGED <<fileVars, attempts, opt, cfg, res, todo, warned, providerVars, loginVars>>

\* A key file that cannot be read or parsed is an error, not a missing one.
IdentityUnusable ==
    /\ pc = "key"
    /\ Stop
    /\ UNCHANGED <<fileVars, providerVars, loginVars>>

\* hostid.Generate: O_CREATE|O_EXCL, an empty file with its final name.
CreateIdentity ==
    /\ Goto("key", "keywrite")
    /\ keyFile = None
    /\ keyFile' = Partial
    /\ UNCHANGED <<config, dir, attempts, memVars, providerVars, loginVars>>

\* writeKeyFile: the key is random, so it is nobody else's.
WriteIdentity ==
    /\ Goto("keywrite", "flow")
    /\ keyFile' = attempts
    /\ key' = attempts
    /\ UNCHANGED <<config, dir, attempts, opt, cfg, res, todo, warned, providerVars, loginVars>>

WriteIdentityFails ==
    /\ pc = "keywrite"
    /\ keyFile' = None
    /\ Stop
    /\ UNCHANGED <<config, dir, providerVars, loginVars>>

-----------------------------------------------------------------------------
(* Enroll: the device flow and the registration *)

\* The API base this run talks to.
EnrollBase == ResolveBase(cfg.base, cfg.issuer, Advertised[cfg.issuer])

\* Fault: a failed enrolment cleans up the key it had generated.
FlowFails_DropsKey ==
    /\ pc = "flow"
    /\ keyFile' = None
    /\ Stop
    /\ UNCHANGED <<config, dir, providerVars, loginVars>>

\* discover or authorizeEnrolment fails, or the base is refused by provider.New.
FlowFails ==
    /\ pc = "flow"
    /\ Stop
    /\ UNCHANGED <<fileVars, providerVars, loginVars>>

\* An access token of the issuer, then the request that presents it.
Authorize ==
    /\ Goto("flow", "wait")
    /\ wire' = wire \cup {[issuer |-> cfg.issuer, base |-> EnrollBase,
                           key |-> key, name |-> opt.name, run |-> attempts]}
    /\ UNCHANGED <<fileVars, attempts, memVars, hosts, regs, loginVars>>

\* Fault: the key is forgotten when the provider does not answer.
NoAnswer_DropsKey ==
    /\ pc = "wait"
    /\ keyFile' = None
    /\ Stop
    /\ UNCHANGED <<config, dir, providerVars, loginVars>>

\* ErrUnavailable: http_timeout, the connection; the request may still arrive.
NoAnswer ==
    /\ pc = "wait"
    /\ Stop
    /\ UNCHANGED <<fileVars, providerVars, loginVars>>

ReceiveRefusal ==
    /\ pc = "wait"
    /\ res # None /\ res.status \notin {200, 201}
    /\ Stop
    /\ UNCHANGED <<fileVars, providerVars, loginVars>>

ReceiveHostId ==
    /\ Goto("wait", "config")
    /\ res # None /\ res.status \in {200, 201}
    /\ UNCHANGED <<fileVars, attempts, memVars, providerVars, loginVars>>

-----------------------------------------------------------------------------
(* Enroll: the files *)

\* Fault: an issuer given on the command line is not written back.
configUpdates_NoIssuer ==
    [config EXCEPT !.host = res.host, !.base = EnrollBase]

\* Fault: the base that the issuer implies is written, not the one enrolled at.
configUpdates_ImpliedBase ==
    [config EXCEPT !.host = res.host, !.base = DefaultBase[cfg.issuer],
                   !.issuer = IF opt.issuer # None THEN cfg.issuer ELSE @]

\* host_id and api_base always, the issuer if the command line gave one.
configUpdates ==
    [config EXCEPT !.host = res.host, !.base = EnrollBase,
                   !.issuer = IF opt.issuer # None THEN cfg.issuer ELSE @]

\* setConfigValues, through a temporary file that nobody else reads.
SetConfig ==
    /\ Goto("config", "purge")
    /\ config' = configUpdates
    /\ UNCHANGED <<keyFile, dir, attempts, memVars, providerVars, loginVars>>

\* An entry that cannot be rewritten, or a write that fails.
SetConfigFails ==
    /\ pc = "config"
    /\ Stop
    /\ UNCHANGED <<fileVars, providerVars, loginVars>>

\* storeRecord, Cache.Purge: ReadDir lists what is there now.
PurgeList ==
    /\ Goto("purge", "remove")
    /\ todo' = {f \in DOMAIN dir : dir[f] # None}
    /\ UNCHANGED <<fileVars, attempts, opt, cfg, key, res, warned, providerVars, loginVars>>

\* RemoveAll, one name after the other.
PurgeRemove ==
    /\ pc = "remove"
    /\ \E f \in todo : dir' = [dir EXCEPT ![f] = None] /\ todo' = todo \ {f}
    /\ UNCHANGED <<keyFile, config, attempts, pc, opt, cfg, key, res, warned, providerVars, loginVars>>

PurgeDone ==
    /\ Goto("remove", "record")
    /\ todo = {}
    /\ UNCHANGED <<fileVars, attempts, memVars, providerVars, loginVars>>

\* ReadDir or RemoveAll fails: a warning, and on to the record.
PurgeFails ==
    /\ pc \in {"purge", "remove"}
    /\ pc' = "record"
    /\ warned' = TRUE
    /\ UNCHANGED <<fileVars, attempts, opt, cfg, key, res, todo, providerVars, loginVars>>

\* writeRecord; a failure is a warning too.
WriteRecord ==
    /\ Goto("record", "ok")
    /\ \/ dir' = [dir EXCEPT ![recordName] = [host |-> res.host, reg |-> res.reg]]
       \/ dir' = dir
    /\ UNCHANGED <<keyFile, config, attempts, memVars, providerVars, loginVars>>

\* Interrupted at any step: the files stay as they are.
Crash ==
    /\ pc \in Working
    /\ Stop
    /\ UNCHANGED <<fileVars, providerVars, loginVars>>

\* The administrator removes a key file that enroll could not finish.
RemovePartialKey ==
    /\ pc \notin Working
    /\ keyFile = Partial
    /\ keyFile' = None
    /\ UNCHANGED <<config, dir, runVars, providerVars, loginVars>>

-----------------------------------------------------------------------------
(* The provider *)

Hs(b) == DOMAIN hosts[b]
ByKey(b, k) == {n \in Hs(b) : hosts[b][n].key = k}
ByName(b, x) == {n \in Hs(b) : hosts[b][n].name = x}

\* The answer reaches the run that asked, if it still waits.
Respond(m, answer) ==
    res' = IF pc = "wait" /\ m.run = attempts THEN answer ELSE res

Refuse(m, status) ==
    /\ Respond(m, [status |-> status, host |-> None, reg |-> 0])
    /\ UNCHANGED <<hosts, regs>>

\* The key is known under this name, or neither is known: store what was sent.
Register(m, n, status) ==
    LET h == [name |-> m.name, key |-> m.key, reg |-> regs + 1,
              active |-> status = 201 \/ hosts[m.base][n].active] IN
    /\ hosts' = [hosts EXCEPT ![m.base] = IF status = 201 THEN Append(@, h)
                                          ELSE [@ EXCEPT ![n] = h]]
    /\ regs' = regs + 1
    /\ Respond(m, [status |-> status, host |-> [base |-> m.base, n |-> n], reg |-> regs + 1])

\* handleEnroll: a token of another issuer, an expired one or one of somebody
\* who may not enrol is refused; then key and name decide.
HandleEnroll(m) ==
    LET byKey == ByKey(m.base, m.key)
        byName == ByName(m.base, m.name) IN
    /\ m \in wire
    /\ wire' = wire \ {m}
    /\ \/ \E s \in {401, 403} : Refuse(m, s)
       \/ /\ HomeBase[m.issuer] = m.base
          /\ \/ byKey # {} /\ byKey # byName /\ Refuse(m, 409)
             \/ byKey = {} /\ byName # {} /\ Refuse(m, 409)
             \/ byKey # {} /\ byKey = byName /\ \E n \in byKey : Register(m, n, 200)
             \/ byKey = {} /\ byName = {} /\ Register(m, Len(hosts[m.base]) + 1, 201)
    /\ UNCHANGED <<fileVars, attempts, pc, opt, cfg, key, todo, warned, loginVars>>

RevokeHost ==
    /\ \E b \in Bases : \E n \in Hs(b) :
          hosts[b][n].active /\ hosts' = [hosts EXCEPT ![b][n].active = FALSE]
    /\ UNCHANGED <<fileVars, runVars, wire, regs, loginVars>>

\* verifyHostAssertionLocked: a known host, and the signature of its key.
Verified(c) ==
    /\ c.host.base = c.base
    /\ c.host.n \in Hs(c.base)
    /\ hosts[c.base][c.host.n].key = c.key

-----------------------------------------------------------------------------
(* authorized-keys processes *)

\* fetchKeys reads the configuration; a host not enrolled answers nobody.
LoginStart(l, a) ==
    /\ lpc[l] = "idle"
    /\ IF config.host # None
       THEN /\ lpc' = [lpc EXCEPT ![l] = "key"]
            /\ lcfg' = [lcfg EXCEPT ![l] = [account |-> a, key |-> None, host |-> config.host,
                          base |-> ResolveBase(config.base, config.issuer, None)]]
       ELSE lpc' = [lpc EXCEPT ![l] = "done"] /\ UNCHANGED lcfg
    /\ UNCHANGED <<fileVars, runVars, providerVars, lans>>

\* Then the key, and signs its assertion with it.
LoginKey(l) ==
    /\ lpc[l] = "key"
    /\ IF keyFile \in Keys
       THEN /\ lpc' = [lpc EXCEPT ![l] = "ask"]
            /\ lcfg' = [lcfg EXCEPT ![l].key = keyFile]
       ELSE lpc' = [lpc EXCEPT ![l] = "done"] /\ UNCHANGED lcfg
    /\ UNCHANGED <<fileVars, runVars, providerVars, lans>>

\* handleAuthorizedKeys: the keys that the host's registration allows.
LoginAnswered(l) ==
    /\ lpc[l] = "ask"
    /\ LET h == lcfg[l].host IN
       IF Verified(lcfg[l]) /\ hosts[h.base][h.n].active
       THEN /\ lpc' = [lpc EXCEPT ![l] = "put"]
            /\ lans' = [lans EXCEPT ![l] = [host |-> h, reg |-> hosts[h.base][h.n].reg]]
       ELSE lpc' = [lpc EXCEPT ![l] = "done"] /\ UNCHANGED lans
    /\ UNCHANGED <<fileVars, runVars, providerVars, lcfg>>

\* The provider allows nobody, refuses, or cannot answer; only the last one
\* goes on to the cache.
LoginUnanswered(l) ==
    /\ lpc[l] = "ask"
    /\ lpc' \in {[lpc EXCEPT ![l] = "done"], [lpc EXCEPT ![l] = "get"]}
    /\ UNCHANGED <<fileVars, runVars, providerVars, lcfg, lans>>

\* Cache.Put, or its failure.
LoginPut(l) ==
    /\ lpc[l] = "put"
    /\ \/ dir' = [dir EXCEPT ![lcfg[l].account] = lans[l]]
       \/ dir' = dir
    /\ lpc' = [lpc EXCEPT ![l] = "done"]
    /\ UNCHANGED <<keyFile, config, runVars, providerVars, lcfg, lans>>

\* Cache.Get.
LoginGet(l) ==
    /\ lpc[l] = "get"
    /\ lans' = [lans EXCEPT ![l] = dir[lcfg[l].account]]
    /\ lpc' = [lpc EXCEPT ![l] = "done"]
    /\ UNCHANGED <<fileVars, runVars, providerVars, lcfg>>

-----------------------------------------------------------------------------
Run ==
    \/ \E o \in Options : Start(o)
    \/ LoadIdentity \/ IdentityUnusable
    \/ CreateIdentity \/ WriteIdentity \/ WriteIdentityFails
    \/ FlowFails \/ Authorize
    \/ NoAnswer \/ ReceiveRefusal \/ ReceiveHostId
    \/ SetConfig \/ SetConfigFails
    \/ PurgeList \/ PurgeRemove \/ PurgeDone \/ PurgeFails \/ WriteRecord
    \/ Crash

Provider == (\E m \in wire : HandleEnroll(m)) \/ RevokeHost

Login(l) ==
    \/ \E a \in Accounts : LoginStart(l, a)
    \/ LoginKey(l) \/ LoginAnswered(l) \/ LoginUnanswered(l)
    \/ LoginPut(l) \/ LoginGet(l)

Next == Run \/ RemovePartialKey \/ Provider \/ \E l \in Logins : Login(l)

Spec == Init /\ [][Next]_vars

-----------------------------------------------------------------------------
(* Properties *)

\* What the configuration says is an enrolment: its host_id is a host that the
\* provider at api_base holds with the very key on disk, and the issuer of the
\* logins is the one this base belongs to.  Through lost answers, crashes
\* between the files, late requests, and changes of provider, the file is never
\* a mixture of two enrolments.
ConfigDescribesEnrolment ==
    config.host # None =>
        /\ keyFile \in Keys
        /\ Verified([host |-> config.host, base |-> config.base, key |-> keyFile])
        /\ HomeBase[config.issuer] = config.base

\* Whatever enrolment does meanwhile, a query under way can prove who it is:
\* fetchKeys reads the configuration and then the key, without a lock, and the
\* provider finds the host it names with the key it signs with.
AssertionsVerify ==
    \A l \in Logins : lpc[l] = "ask" => Verified(lcfg[l])

\* However often enroll is interrupted and run again, with whatever names, no
\* provider ends up with two hosts for this machine.
OneHostPerProvider ==
    \A b \in Bases : \A m, n \in Hs(b) :
        hosts[b][m].key \in Keys /\ hosts[b][n].key \in Keys => m = n

\* Running enroll again is safe: the provider answers 409 only for a name that
\* somebody else has, or to a machine it already knows by another name.
ConflictIsReal ==
    [][res' # res /\ res' # None /\ res'.status = 409 =>
          \E n \in Hs(EnrollBase) :
             LET h == hosts[EnrollBase][n] IN
             \/ h.name = opt.name /\ h.key = ForeignKey
             \/ h.name # opt.name /\ h.key = key]_vars

\* enroll.go:296: "Answers cached for the previous enrolment must not outlive
\* it."  Once enroll has returned without a warning, no answer in the cache was
\* given before the provider registered this enrolment.
OldAnswersPurged ==
    pc = "ok" /\ ~warned =>
        \A a \in Accounts : dir[a] # None => dir[a].reg >= res.reg
=============================================================================
