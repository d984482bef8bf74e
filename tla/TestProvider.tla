---------------------------- MODULE TestProvider ----------------------------
(***************************************************************************)
(* The provider of internal/testprovider, against which the repository's   *)
(* tests run: provider.go (device flow, token endpoint) and ssh.go (host   *)
(* assertions, enrolment, authorized keys).  net/http runs the handlers    *)
(* concurrently; what a handler does between Lock and Unlock of p.mu is    *)
(* one step here, and what it read before or between is kept in its slot.  *)
(* There is one device flow at a time: a new one takes the place of the    *)
(* old, as in the code.                                                    *)
(***************************************************************************)
EXTENDS Integers, Sequences

CONSTANTS
    KeyPairs,      \* Ed25519 key pairs of machines
    Names, Accounts, Clients,
    Assertions,    \* host assertions
    DeviceRequests, KeysRequests, EnrollRequests, \* the requests clients may send
    Requests,      \* slots: requests that can be in a handler at a time
    assertionSkew, assertionMaxLifetime, accessTokenLifetime,
    MaxClock,      \* bound on the clock
    MaxRequests,   \* bound on the requests
    MaxSettings,   \* bound on the calls of the programming methods
    None

VARIABLES
    now,
    hosts,         \* ssh.hosts, by the number of their registration
    seenJTI,       \* the replay table
    keys,          \* ssh.keys: the accounts for which lines are programmed
    keysOutcome, requireHost, policyDeny,
    outcome, pending, slowDown,
    flow,          \* the fields of the device flow: code, client, intent, account, host
    tokens,        \* ssh.accessTokens, in the order they were issued
    slot,          \* what each request in a handler has read so far
    sent, settings,\* requests and programming calls so far
    codes,         \* history: codes[c] is the request that device code c was given for
    accepted,      \* history: assertions accepted
    prunedAt,      \* history: the latest time with which the table was pruned
    again,         \* history: how a used assertion was accepted again
    revoked,       \* history: hosts that were revoked
    served         \* history: the hosts and accounts that lines were sent for

programmed == <<keys, keysOutcome, requireHost, policyDeny, outcome, pending, slowDown>>
assertionVars == <<seenJTI, accepted, prunedAt, again>>
history == <<revoked, served>>
flowVars == <<flow, codes>>
vars == <<now, hosts, programmed, assertionVars, flowVars, tokens, slot, sent, settings, history>>

Assertion == [iss : Nat, key : KeyPairs, iat : Int, exp : Int, jti : Nat, sound : BOOLEAN]

Intents == {"login", "enroll"}

\* The parameters of the three endpoints: an absent assertion or account is
\* None, and so are parameters of the authorized-keys request that get a 400.
DeviceRequest == [client : Clients, intent : Intents, account : Accounts \cup {None},
                  tok : Assertions \cup {None}]
KeysRequest == [tok : Assertions \cup {None}, account : Accounts \cup {None}]
EnrollRequest == [key : KeyPairs, name : Names, accounts : SUBSET Accounts]

ASSUME TestProviderAssumption ==
    /\ Assertions \subseteq Assertion
    /\ DeviceRequests \subseteq DeviceRequest
    /\ KeysRequests \subseteq KeysRequest
    /\ EnrollRequests \subseteq EnrollRequest
    /\ {assertionSkew, assertionMaxLifetime, accessTokenLifetime} \subseteq Nat
    /\ {MaxClock, MaxRequests, MaxSettings} \subseteq Nat
    /\ None \notin Assertions /\ None \notin Clients /\ None \notin Accounts
    /\ None \notin Nat

Host == [key : KeyPairs, name : Names, accounts : SUBSET Accounts, active : BOOLEAN]
Flow == [code : Nat, client : Clients \cup {None}, intent : Intents,
         account : Accounts \cup {None}, host : Nat \cup {None}]
Token == [code : Nat, intent : Intents, exp : Nat, aud : Clients, group : Accounts \cup {None},
          denying : BOOLEAN]

\* A request in a handler: the token endpoint after its first section, the
\* authorized-keys endpoint, the enrolment endpoint.
Idle == [at |-> "idle"]
Polled == [code : Nat, intent : Intents, group : Accounts \cup {None}, denying : BOOLEAN]
Slot ==
    {Idle}
    \cup [at : {"sign"}, poll : Polled]
    \cup [at : {"store"}, poll : Polled, aud : Clients]
    \cup [at : {"verify"}, time : Nat, req : KeysRequests]
    \cup [at : {"stall"}]
    \cup [at : {"enroll"}, time : Nat, tok : Nat, req : EnrollRequests]

\* Whoever holds an access token got it from the provider, and who is behind a
\* flow or an entry of the table is a registered host.
TypeOK ==
    /\ now \in Nat
    /\ hosts \in Seq(Host)
    /\ seenJTI \subseteq [host : DOMAIN hosts, jti : Nat, exp : Int]
    /\ keys \subseteq Accounts
    /\ keysOutcome \in {"KeysOK", "KeysServerError", "KeysTimeout"}
    /\ {requireHost, policyDeny, slowDown} \subseteq BOOLEAN
    /\ outcome \in {"Approved", "Denied", "Expired"}
    /\ pending \in Nat
    /\ flow \in Flow /\ flow.host \in DOMAIN hosts \cup {None}
    /\ flow.code = Len(codes) /\ (flow.code # 0 => flow.client \in Clients)
    /\ tokens \in Seq(Token)
    /\ slot \in [Requests -> Slot]
    /\ codes \in Seq(Flow)
    /\ sent \in 0..MaxRequests /\ settings \in 0..MaxSettings
    /\ accepted \subseteq Assertions
    /\ prunedAt \in Nat
    /\ again \subseteq {"device", "keys"} \X BOOLEAN
    /\ revoked \subseteq DOMAIN hosts
    /\ served \subseteq (DOMAIN hosts) \X Accounts

\* addHostLocked
Registered(q) == [key |-> q.key, name |-> q.name, accounts |-> q.accounts, active |-> TRUE]

\* New, with or without a host added before the first request.
Init ==
    /\ now = 0
    /\ hosts \in {<<>>} \cup {<<Registered(q)>> : q \in EnrollRequests}
    /\ keys = Accounts
    /\ keysOutcome = "KeysOK"
    /\ requireHost = FALSE /\ policyDeny = FALSE
    /\ outcome = "Approved" /\ pending = 0 /\ slowDown = FALSE
    /\ flow = [code |-> 0, client |-> None, intent |-> "login", account |-> None, host |-> None]
    /\ tokens = <<>>
    /\ slot = [r \in Requests |-> Idle]
    /\ sent = 0 /\ settings = 0
    /\ codes = <<>>
    /\ seenJTI = {} /\ accepted = {} /\ prunedAt = 0 /\ again = {}
    /\ revoked = {} /\ served = {}

-----------------------------------------------------------------------------
(* Requests *)

\* Something is still to happen; no time and no setting matters after it.
Ahead == sent < MaxRequests \/ \E r \in Requests : slot[r] # Idle

\* A request arrives: one that is answered in its first section, and one that
\* stays in its handler.
Arrive == sent < MaxRequests /\ sent' = sent + 1
Enter(r, record) == Arrive /\ slot[r] = Idle /\ slot' = [slot EXCEPT ![r] = record]
Continue(r, record) == slot' = [slot EXCEPT ![r] = record] /\ UNCHANGED sent
Answer(r) == slot' = [slot EXCEPT ![r] = Idle] /\ UNCHANGED sent

-----------------------------------------------------------------------------
(* Host assertions *)

\* Signature, claims and window: what makes an assertion unverifiable (401).
Unverifiable(a, time) ==
    \/ a = None
    \/ ~a.sound
    \/ a.iss \notin DOMAIN hosts
    \/ hosts[a.iss].key # a.key
    \/ a.exp <= a.iat
    \/ a.exp - a.iat > assertionMaxLifetime
    \/ a.iat > time + assertionSkew
    \/ a.exp < time - assertionSkew

\* Fault: entries are dropped when the assertion expires, without the skew.
Unexpired_NoSkew(time) == {e \in seenJTI : e.exp >= time + assertionSkew}

\* The entries that survive the pruning.
Unexpired(time) == {e \in seenJTI : e.exp >= time}

Seen(a, time) == \E e \in Unexpired(time) : e.host = a.iss /\ e.jti = a.jti

\* verifyHostAssertionLocked, with the time its caller read: 401, 403 for a
\* revoked host, 401 for a replay, or the assertion is used up.
Verdict(a, time) ==
    IF Unverifiable(a, time) THEN 401
    ELSE IF ~hosts[a.iss].active THEN 403
    ELSE IF Seen(a, time) THEN 401 ELSE 200

\* What it does to the table.
Consume(a, time, handler) ==
    LET v == Verdict(a, time)
        looked == ~Unverifiable(a, time) /\ hosts[a.iss].active
        entry == [host |-> a.iss, jti |-> a.jti, exp |-> a.exp + assertionSkew]
    IN
    /\ seenJTI' = IF ~looked THEN seenJTI
                  ELSE Unexpired(time) \cup (IF v = 200 THEN {entry} ELSE {})
    /\ prunedAt' = IF looked /\ time > prunedAt THEN time ELSE prunedAt
    /\ accepted' = IF v = 200 THEN accepted \cup {a} ELSE accepted
    /\ again' = IF v = 200 /\ a \in accepted THEN again \cup {<<handler, time < prunedAt>>} ELSE again

-----------------------------------------------------------------------------
(* The device flow *)

\* handleDeviceAuthorization records these before it decides.
Recorded(q) == [flow EXCEPT !.intent = q.intent, !.account = q.account, !.host = None]

\* Without an assertion where one is required, or with one that fails.
RefuseAuthorization(q) ==
    /\ Arrive
    /\ IF q.tok = None THEN requireHost /\ UNCHANGED assertionVars
                       ELSE Verdict(q.tok, now) # 200 /\ Consume(q.tok, now, "device")
    /\ flow' = Recorded(q)
    /\ UNCHANGED <<now, hosts, programmed, codes, tokens, slot, settings, history>>

\* What the next device code is asked for.
Asked(q) == [code |-> Len(codes) + 1, client |-> q.client, intent |-> q.intent,
             account |-> q.account, host |-> IF q.tok = None THEN None ELSE q.tok.iss]

\* The flow gets a fresh device code, and its host if it proved one.
GrantAuthorization(q) ==
    /\ Arrive
    /\ IF q.tok = None THEN ~requireHost /\ UNCHANGED assertionVars
                       ELSE Verdict(q.tok, now) = 200 /\ Consume(q.tok, now, "device")
    /\ flow' = [Recorded(q) EXCEPT !.code = Len(codes) + 1, !.client = q.client,
                                   !.host = IF q.tok = None THEN @ ELSE q.tok.iss]
    /\ codes' = Append(codes, Asked(q))
    /\ UNCHANGED <<now, hosts, programmed, tokens, slot, settings, history>>

\* Only flows that proved a host are subject to the host policy.
PolledOutcome ==
    IF flow.host # None /\ policyDeny /\ outcome = "Approved" THEN "Denied" ELSE outcome

\* The one device code that is not an unknown one; 0 is no code at all.
Known(code) == code = flow.code /\ code # 0

\* Fault: one answer too many.
StillPending_OffByOne == pending >= 0

\* authorization_pending is still to be answered.
StillPending == pending > 0

\* handleToken, first section: an unknown code, slow_down, not yet, or no.
PollRefused(code) ==
    /\ Arrive
    /\ \/ ~Known(code) /\ UNCHANGED <<slowDown, pending>>
       \/ Known(code) /\ slowDown /\ slowDown' = FALSE /\ UNCHANGED pending
       \/ Known(code) /\ ~slowDown /\ StillPending /\ pending' = pending - 1 /\ UNCHANGED slowDown
       \/ Known(code) /\ ~slowDown /\ ~StillPending /\ PolledOutcome # "Approved"
          /\ UNCHANGED <<slowDown, pending>>
    /\ UNCHANGED <<now, hosts, keys, keysOutcome, requireHost, policyDeny, outcome, assertionVars,
                   flowVars, tokens, slot, settings, history>>

\* Approved: it goes on without the lock, with what it has read.
PollApproved(r, code) ==
    /\ Known(code) /\ ~slowDown /\ ~StillPending /\ PolledOutcome = "Approved"
    /\ Enter(r, [at |-> "sign",
                 poll |-> [code |-> code, intent |-> flow.intent,
                           group |-> IF flow.host # None THEN flow.account ELSE None,
                           denying |-> policyDeny]])
    /\ UNCHANGED <<now, hosts, programmed, assertionVars, flowVars, tokens, settings, history>>

\* SignIDToken, withDefaultClaims: the audience is the last client's.
SignIDToken(r) ==
    /\ slot[r].at = "sign"
    /\ Continue(r, [at |-> "store", poll |-> slot[r].poll, aud |-> flow.client])
    /\ UNCHANGED <<now, hosts, programmed, assertionVars, flowVars, tokens, settings, history>>

\* The access token is stored and both are sent.
StoreToken(r) ==
    /\ slot[r].at = "store"
    /\ LET p == slot[r].poll IN
       tokens' = Append(tokens, [code |-> p.code, intent |-> p.intent, exp |-> now + accessTokenLifetime,
                                 aud |-> slot[r].aud, group |-> p.group, denying |-> p.denying])
    /\ Answer(r)
    /\ UNCHANGED <<now, hosts, programmed, assertionVars, flowVars, settings, history>>

\* server_error: randomness or the signature fails.
TokenFails(r) ==
    /\ slot[r].at = "sign"
    /\ Answer(r)
    /\ UNCHANGED <<now, hosts, programmed, assertionVars, flowVars, tokens, settings, history>>

-----------------------------------------------------------------------------
(* Authorized keys *)

\* handleAuthorizedKeys reads the clock and, in its first section, which outage
\* is programmed; account None stands for parameters that get a 400.
KeysArrive(r, q) ==
    /\ CASE keysOutcome = "KeysServerError" -> Arrive /\ UNCHANGED slot
         [] keysOutcome = "KeysTimeout"     -> Enter(r, [at |-> "stall"])
         [] OTHER -> Enter(r, [at |-> "verify", time |-> now, req |-> q])
    /\ UNCHANGED <<now, hosts, programmed, assertionVars, flowVars, tokens, settings, history>>

\* The stall ends: the client has gone, or keysTimeoutDelay is over.
KeysStalled(r) ==
    /\ slot[r].at = "stall"
    /\ Answer(r)
    /\ UNCHANGED <<now, hosts, programmed, assertionVars, flowVars, tokens, settings, history>>

\* Second section, with the time of the arrival: lines are sent for an account
\* the host has declared, and none under the deny policy.
KeysVerify(r) ==
    LET a == slot[r].req.tok  account == slot[r].req.account IN
    /\ slot[r].at = "verify"
    /\ IF a = None THEN UNCHANGED assertionVars ELSE Consume(a, slot[r].time, "keys")
    /\ served' = IF /\ Verdict(a, slot[r].time) = 200
                    /\ account \in hosts[a.iss].accounts \cap keys
                    /\ ~policyDeny
                 THEN served \cup {<<a.iss, account>>} ELSE served
    /\ Answer(r)
    /\ UNCHANGED <<now, hosts, programmed, flowVars, tokens, settings, revoked>>

-----------------------------------------------------------------------------
(* Enrolment *)

\* handleEnroll reads the clock before it takes the lock.
EnrollArrive(r, tok, q) ==
    /\ Enter(r, [at |-> "enroll", time |-> now, tok |-> tok, req |-> q])
    /\ UNCHANGED <<now, hosts, programmed, assertionVars, flowVars, tokens, settings, history>>

Matches(f, v) == {id \in DOMAIN hosts : hosts[id][f] = v}

\* The last one of a walk over the map, or None.
AnyOf(S) == IF S = {} THEN {None} ELSE S

\* 401 for a token that is unknown or over, 403 for one of a login.
Authorized(tok, time) ==
    /\ tok \in DOMAIN tokens
    /\ tokens[tok].exp >= time
    /\ tokens[tok].intent = "enroll"

\* Fault: a known key is made active again.
EnrollRegister_Reactivates(q, byKey, byName) ==
    IF byKey # None /\ byKey = byName
    THEN hosts' = [hosts EXCEPT ![byKey].accounts = q.accounts, ![byKey].active = TRUE]
    ELSE IF byKey = None /\ byName = None
    THEN hosts' = Append(hosts, Registered(q))
    ELSE UNCHANGED hosts

\* A key or a name of another host is a conflict; a known key under its own
\* name takes the new accounts and stays active or revoked as it was.
EnrollRegister(q, byKey, byName) ==
    IF byKey # None /\ byKey = byName
    THEN hosts' = [hosts EXCEPT ![byKey].accounts = q.accounts]
    ELSE IF byKey = None /\ byName = None
    THEN hosts' = Append(hosts, Registered(q))
    ELSE UNCHANGED hosts

EnrollHandle(r) ==
    LET q == slot[r].req IN
    /\ slot[r].at = "enroll"
    /\ IF Authorized(slot[r].tok, slot[r].time) /\ q.accounts # {}
       THEN \E byKey \in AnyOf(Matches("key", q.key)), byName \in AnyOf(Matches("name", q.name)) :
               EnrollRegister(q, byKey, byName)
       ELSE UNCHANGED hosts
    /\ Answer(r)
    /\ UNCHANGED <<now, programmed, assertionVars, flowVars, tokens, settings, history>>

-----------------------------------------------------------------------------
(* The programming methods, which a test may call at any time; a call that  *)
(* changes nothing is left out.                                             *)

Program == settings < MaxSettings /\ Ahead /\ settings' = settings + 1

SetDeviceFlow ==
    /\ Program
    /\ \/ outcome' \in {"Approved", "Denied", "Expired"} \ {outcome} /\ UNCHANGED <<pending, slowDown>>
       \/ pending' \in (0..1) \ {pending} /\ UNCHANGED <<outcome, slowDown>>
       \/ ~slowDown /\ slowDown' = TRUE /\ UNCHANGED <<outcome, pending>>
    /\ UNCHANGED <<now, hosts, keys, keysOutcome, requireHost, policyDeny, assertionVars, flowVars,
                   tokens, slot, sent, history>>

SetHostPolicy ==
    /\ Program
    /\ \/ requireHost' = ~requireHost /\ UNCHANGED policyDeny
       \/ policyDeny' = ~policyDeny /\ UNCHANGED requireHost
    /\ UNCHANGED <<now, hosts, keys, keysOutcome, outcome, pending, slowDown, assertionVars, flowVars,
                   tokens, slot, sent, history>>

SetKeys ==
    /\ Program
    /\ \/ keysOutcome' \in {"KeysOK", "KeysServerError", "KeysTimeout"} \ {keysOutcome} /\ UNCHANGED keys
       \/ keys' \in SUBSET Accounts \ {keys} /\ UNCHANGED keysOutcome
    /\ UNCHANGED <<now, hosts, requireHost, policyDeny, outcome, pending, slowDown, assertionVars,
                   flowVars, tokens, slot, sent, history>>

\* AddHost looks at nothing: it may add a key or a name a second time.
AddHost(q) ==
    /\ Program
    /\ hosts' = Append(hosts, Registered(q))
    /\ UNCHANGED <<now, programmed, assertionVars, flowVars, tokens, slot, sent, history>>

RevokeHost(id) ==
    /\ Program
    /\ id \in DOMAIN hosts /\ hosts[id].active
    /\ hosts' = [hosts EXCEPT ![id].active = FALSE]
    /\ revoked' = revoked \cup {id}
    /\ UNCHANGED <<now, programmed, assertionVars, flowVars, tokens, slot, sent, served>>

Tick ==
    /\ now < MaxClock /\ Ahead
    /\ now' = now + 1
    /\ UNCHANGED <<hosts, programmed, assertionVars, flowVars, tokens, slot, sent, settings, history>>

-----------------------------------------------------------------------------

Handler(r) ==
    \/ \E c \in 0..Len(codes) : PollApproved(r, c)
    \/ SignIDToken(r) \/ StoreToken(r) \/ TokenFails(r)
    \/ \E q \in KeysRequests : KeysArrive(r, q)
    \/ KeysStalled(r) \/ KeysVerify(r)
    \/ \E t \in 0..Len(tokens), q \in EnrollRequests : EnrollArrive(r, t, q)
    \/ EnrollHandle(r)

Authorization == \E q \in DeviceRequests : RefuseAuthorization(q) \/ GrantAuthorization(q)

Programming ==
    \/ SetDeviceFlow \/ SetHostPolicy \/ SetKeys
    \/ \E q \in EnrollRequests : AddHost(q)
    \/ \E id \in DOMAIN hosts : RevokeHost(id)

Next ==
    \/ \E r \in Requests : Handler(r)
    \/ \E c \in 0..Len(codes) : PollRefused(c)
    \/ Authorization \/ Programming \/ Tick

Spec == Init /\ [][Next]_vars

-----------------------------------------------------------------------------
(* Properties *)

\* "It consumes the jti, so a second call with the same token fails"
\* (ssh.go:313-315): no assertion is accepted twice.  It fails:
\* handleAuthorizedKeys judges by a time it read before it had the lock
\* (ssh.go:517), when a later request may have pruned the entry already.
AssertionsUsedOnce == again = {}

\* Single use does hold where the time is read under the lock, as at the device
\* endpoint (provider.go:445), and wherever requests get the lock in the order
\* of their times: the table keeps an entry for as long as any such request
\* could use its assertion again (ssh.go:366-382).
ReplayNeedsOvertaking == again \subseteq {<<"keys", TRUE>>}

\* An access token stands for the "flow it was issued for" (ssh.go:92): it has
\* the intent and the group its device code was asked for, and while the policy
\* denies "device flows that carried a valid host_assertion end in
\* access_denied" (ssh.go:207-211).  It fails: an authorization that is refused
\* has already put its parameters in the place of the pending flow's, and taken
\* its host away (provider.go:433-438).
TokenBelongsToFlow ==
    \A t \in DOMAIN tokens :
       LET k == tokens[t]  f == codes[k.code] IN
       /\ k.intent = f.intent
       /\ k.group = IF f.host # None THEN f.account ELSE None
       /\ f.host # None => ~k.denying

\* No assertion of a revoked host is accepted and no line is sent to it,
\* whatever requests were in their handlers when it was revoked, and enrolling
\* it again does not help (ssh.go:171-172, 366-368, 475-483).  An accepted
\* assertion always adds its entry to the table.
RevokedStaysOut ==
    [][\A id \in revoked :
          /\ \A e \in seenJTI' \ seenJTI : e.host # id
          /\ \A s \in served' \ served : s[1] # id]_<<seenJTI, served, revoked>>
=============================================================================
