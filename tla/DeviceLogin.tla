---------------------------- MODULE DeviceLogin -----------------------------
(***************************************************************************)
(* One login through the device flow: run (cmd/oidc-ssh-helper/main.go)    *)
(* and Authenticate (internal/auth/authenticator.go) over the client of    *)
(* internal/oidc, against the provider of DeviceFlow.  The browser, the    *)
(* terminal, the polling and the clock advance independently, and every    *)
(* request takes time and may fail.                                        *)
(***************************************************************************)
EXTENDS DeviceFlow

CONSTANTS
    Timeout,          \* cfg.Timeout
    HTTPTimeout,      \* cfg.HTTPTimeout
    Lifetimes,        \* expires_in the provider may state; 0 is none
    Intervals,        \* interval it may state
    defaultPollInterval, maxPollInterval,
    SlowDown,         \* what slow_down adds to the interval (x/oauth2)
    MaxSlowDowns,     \* bound on the slow_down answers
    SessionEnv,       \* cfg.SessionEnv
    ClockSkew,        \* cfg.ClockSkew
    Leeway,           \* what go-oidc grants a token that is not valid yet
    Drifts,           \* how far the provider's clock may be ahead of the host's
    TokenLifetimes,   \* of ID tokens
    MaxClock          \* bound on the time at which the prompt is answered

ASSUME DeviceLoginAssumption ==
    /\ {Timeout, HTTPTimeout, defaultPollInterval, maxPollInterval} \subseteq Nat \ {0}
    /\ {SlowDown, MaxSlowDowns, ClockSkew, Leeway, MaxClock} \subseteq Nat
    /\ TokenLifetimes \subseteq Nat
    /\ Drifts \subseteq Int
    /\ Lifetimes \subseteq Int
    /\ Intervals \subseteq Int
    /\ defaultPollInterval <= maxPollInterval

VARIABLES
    apc,        \* where the login is
    confirm,    \* the PIN flow is on
    expiresAt,  \* DeviceAuthResponse.Expiry: the host's idea of the code's end
    typed,      \* the PIN typed: "right", "wrong", "none" before or without it
    promptedAt, answeredAt, \* history: when the prompt was shown, and answered
    deadline,   \* of the wait
    interval,   \* of the polling, once it started
    nextPoll,   \* when the ticker fires
    since,      \* when the current request was sent
    slows,      \* history: slow_down answers
    reply,      \* the answer on its way back, or "none"
    tok,        \* the ID token
    res,        \* the result: [code, reason]
    env         \* Result.Env: what each variable holds

hostVars == <<apc, confirm, expiresAt, typed, promptedAt, answeredAt, deadline, interval, nextPoll,
              since, slows, reply, tok, res, env>>
vars == <<now, flowVars, hostVars>>

EnvSubject == "OIDC_SUB"
NoEnv == [n \in {} |-> "none"]
Unknown == [code |-> "Unknown", reason |-> "none"]
Reasons == {"none", "not_mapped", "provider_unavailable", "denied", "timeout", "expired",
            "no_id_token", "invalid_token", "missing_group", "empty_username",
            "no_confirmation", "invalid_env"}

\* An ID token: what is wrong with it apart from its times, "none" if nothing is;
\* when it was issued, for how long, whether it says from when on it is valid,
\* and how far the clock that dated it is ahead.
Faults == {"none", "no_id_token", "invalid_token", "empty_username", "missing_group", "invalid_env"}
Token == [fault : Faults, issued : Nat, life : TokenLifetimes \cup {0}, nbf : BOOLEAN,
          ahead : Drifts \cup {0}]
NoToken == [fault |-> "none", issued |-> 0, life |-> 0, nbf |-> FALSE, ahead |-> 0]

TypeOK ==
    /\ FlowTypeOK
    /\ apc \in {"discover", "device", "code", "prompt", "wait", "request", "verify", "done"}
    /\ confirm \in BOOLEAN
    /\ typed \in {"none", "right", "wrong"}
    /\ {promptedAt, answeredAt, since} \subseteq Nat
    /\ {expiresAt, deadline, nextPoll} \subseteq Int
    \* x/oauth2 hands the interval to time.NewTicker, which panics below 1.
    /\ interval \in Int /\ (apc \in {"wait", "request"} => interval \in 1..maxPollInterval + SlowDown * slows)
    /\ slows \in 0..MaxSlowDowns
    /\ reply \in {"none", "token", "slow_down", "authorization_pending", "access_denied",
                  "expired_token", "invalid_grant"}
    /\ tok \in Token
    /\ res.code \in {"Unknown", "Success", "Ignore", "AuthErr", "AuthInfoUnavail"}
    /\ res.reason \in Reasons
    /\ DOMAIN env \subseteq {SessionEnv, EnvSubject}

Init ==
    /\ FlowInit
    /\ apc = "discover"
    /\ confirm = FALSE
    /\ expiresAt = 0
    /\ typed = "none"
    /\ promptedAt = 0
    /\ answeredAt = 0
    /\ deadline = 0
    /\ interval = 0
    /\ nextPoll = 0
    /\ since = 0
    /\ slows = 0
    /\ reply = "none"
    /\ tok = NoToken
    /\ res = Unknown
    /\ env = NoEnv

-----------------------------------------------------------------------------

\* fail: the login ends with this code and reason.
fail(code, reason) ==
    /\ res' = [code |-> code, reason |-> reason]
    /\ apc' = "done"
    /\ UNCHANGED env

(* Before the prompt *)

\* The account is not mapped, or discovery fails.
GiveUpEarly ==
    /\ apc = "discover"
    /\ fail("Ignore", "not_mapped") \/ fail("AuthInfoUnavail", "provider_unavailable")
    /\ UNCHANGED <<now, flowVars, confirm, expiresAt, typed, promptedAt, answeredAt, deadline, interval,
                   nextPoll, since, slows, reply, tok>>

\* The PIN flow needs both the provider's word for it and a host assertion
\* to send: without either the flow is the plain one.
Discover ==
    /\ apc = "discover"
    /\ \E advertised, asserted \in BOOLEAN : confirm' = (advertised /\ asserted)
    /\ apc' = "device"
    /\ since' = now
    /\ UNCHANGED <<now, flowVars, expiresAt, typed, promptedAt, answeredAt, deadline, interval, nextPoll,
                   slows, reply, tok, res, env>>

\* confirmation_supported travels with the assertion, so the provider expects
\* a PIN exactly when the host will ask for one.  The provider dates the code
\* when it hands it out, x/oauth2 when it asked for it.
StartDeviceAuth ==
    /\ apc = "device"
    /\ \E l \in Lifetimes, i \in Intervals :
          /\ HandOut(l, confirm)
          /\ expiresAt' = since + l
          /\ interval' = i
    /\ apc' = "code"
    /\ UNCHANGED <<now, confirm, typed, promptedAt, answeredAt, deadline, nextPoll, since, slows, reply,
                   tok, res, env>>

\* An error of the endpoint or of the way there or back, or an empty response.
StartDeviceAuthFails ==
    /\ apc \in {"device", "code"}
    /\ fail("AuthInfoUnavail", "provider_unavailable")
    /\ UNCHANGED <<now, flowVars, confirm, expiresAt, typed, promptedAt, answeredAt, deadline, interval,
                   nextPoll, since, slows, reply, tok>>

\* The stated lifetime of the code, on the host's clock, has run out.
expired == life # 0 /\ expiresAt <= now

\* The response arrives; a code that is unusable then is not shown.
CheckCode ==
    /\ apc = "code"
    /\ IF expired
       THEN fail("AuthErr", "expired") /\ UNCHANGED promptedAt
       ELSE apc' = "prompt" /\ promptedAt' = now /\ UNCHANGED <<res, env>>
    /\ UNCHANGED <<now, flowVars, confirm, expiresAt, typed, answeredAt, deadline, interval, nextPoll,
                   since, slows, reply, tok>>

-----------------------------------------------------------------------------
(* The prompt and the wait *)

\* Fault: the provider's interval is taken as it comes.
clampInterval_None(sec) == sec

clampInterval(sec) ==
    CASE sec < 1               -> defaultPollInterval
      [] sec > maxPollInterval -> maxPollInterval
      [] OTHER                 -> sec

\* Fault: the lifetime of the code is left out.
waitUntil_IgnoresExpiry == now + Timeout

\* waitForToken: the configured timeout or the end of the code, whichever is
\* first; it may be over already.
waitUntil ==
    IF life # 0 /\ expiresAt - now < Timeout THEN expiresAt ELSE now + Timeout

\* WaitForToken starts its ticker.
StartWait ==
    /\ apc' = "wait"
    /\ deadline' = waitUntil
    /\ interval' = clampInterval(interval)
    /\ nextPoll' = now + clampInterval(interval)

\* askApproval returns: Enter, or a conversation that failed, starts the wait;
\* the PIN flow needs a PIN, and only an approved page shows the right one.
AskApproval ==
    /\ apc = "prompt"
    /\ answeredAt' = now
    /\ \/ /\ ~confirm
          /\ StartWait
          /\ UNCHANGED <<typed, res, env>>
       \/ /\ confirm
          /\ \E pin \in {"wrong"} \cup {p \in {"right"} : flow = "approved"} : typed' = pin
          /\ StartWait
          /\ UNCHANGED <<res, env>>
       \/ /\ confirm
          /\ fail("AuthErr", "no_confirmation")
          /\ UNCHANGED <<typed, deadline, interval, nextPoll>>
    /\ UNCHANGED <<now, flowVars, confirm, expiresAt, promptedAt, since, slows, reply, tok>>

\* Fault: the deadline does not reach the polling loop.
WaitExpires_Ignored ==
    /\ apc \in {"wait", "request"}
    /\ deadline <= now
    /\ UNCHANGED vars

\* The context ends, between two polls or in the middle of one; what the
\* provider did with the request in flight does not matter any more.
WaitExpires ==
    /\ apc \in {"wait", "request"}
    /\ deadline <= now
    /\ fail("AuthErr", "timeout")
    /\ UNCHANGED <<now, flowVars, confirm, expiresAt, typed, promptedAt, answeredAt, deadline, interval,
                   nextPoll, since, slows, reply, tok>>

\* The ticker fires.
Poll ==
    /\ apc = "wait"
    /\ nextPoll <= now /\ now < deadline
    /\ apc' = "request"
    /\ since' = now
    /\ reply' = "none"
    /\ UNCHANGED <<now, flowVars, confirm, expiresAt, typed, promptedAt, answeredAt, deadline, interval,
                   nextPoll, slows, tok, res, env>>

\* What the provider may answer with now.
Issued == [fault : Faults, issued : {now}, life : TokenLifetimes, nbf : BOOLEAN, ahead : Drifts]

\* The provider handles the request; the PIN goes with every one of them.
TokenEndpoint ==
    /\ apc = "request" /\ reply = "none"
    /\ Redeem(typed)
    /\ reply' = Answer(typed)[1]
    /\ IF reply' = "token" THEN tok' \in Issued ELSE UNCHANGED tok
    /\ UNCHANGED <<apc, confirm, expiresAt, typed, promptedAt, answeredAt, deadline, interval, nextPoll,
                   since, slows, res, env>>

\* Or asks for patience.
TokenEndpointSlowsDown ==
    /\ apc = "request" /\ reply = "none"
    /\ slows < MaxSlowDowns
    /\ reply' = "slow_down"
    /\ slows' = slows + 1
    /\ UNCHANGED <<now, flowVars, apc, confirm, expiresAt, typed, promptedAt, answeredAt, deadline, interval,
                   nextPoll, since, tok, res, env>>

\* The request has an answer and the context still runs.
Received(codes) == apc = "request" /\ now < deadline /\ reply \in codes

\* Fault: a refusal is taken for an approval that has not come yet.
KeepPolling_Denied ==
    /\ Received({"authorization_pending", "slow_down", "access_denied"})
    /\ nextPoll' = nextPoll + interval
    /\ apc' = "wait"
    /\ UNCHANGED <<now, flowVars, confirm, expiresAt, typed, promptedAt, answeredAt, deadline, interval,
                   since, slows, reply, tok, res, env>>

\* DeviceAccessToken (x/oauth2): not yet, or not so fast.
KeepPolling ==
    /\ Received({"authorization_pending", "slow_down"})
    /\ interval' = IF reply = "slow_down" THEN interval + SlowDown ELSE interval
    /\ nextPoll' = IF reply = "slow_down" THEN now + interval + SlowDown ELSE nextPoll + interval
    /\ apc' = "wait"
    /\ UNCHANGED <<now, flowVars, confirm, expiresAt, typed, promptedAt, answeredAt, deadline, since, slows,
                   reply, tok, res, env>>

\* Fault: an expired code is reported as a denial.
waitFailure_Swapped(code) ==
    IF code = "expired_token" THEN fail("AuthErr", "denied")
    ELSE fail("AuthErr", "expired")

\* waitFailure, for the errors of the token endpoint.
waitFailure(code) ==
    CASE code = "access_denied" -> fail("AuthErr", "denied")
      [] code = "expired_token" -> fail("AuthErr", "expired")
      [] OTHER                  -> fail("AuthInfoUnavail", "provider_unavailable")

\* access_denied, expired_token, or an error WaitForToken does not know.
ReceiveRefusal ==
    /\ Received({"access_denied", "expired_token", "invalid_grant"})
    /\ waitFailure(reply)
    /\ UNCHANGED <<now, flowVars, confirm, expiresAt, typed, promptedAt, answeredAt, deadline, interval,
                   nextPoll, since, slows, reply, tok>>

\* The connection breaks, on the way there or back, or the server fails.
RequestFails ==
    /\ apc = "request" /\ now < deadline
    /\ fail("AuthInfoUnavail", "provider_unavailable")
    /\ UNCHANGED <<now, flowVars, confirm, expiresAt, typed, promptedAt, answeredAt, deadline, interval,
                   nextPoll, since, slows, reply, tok>>

\* http.Client gives up on the request: its error matches
\* context.DeadlineExceeded, so WaitForToken takes it for the end of the wait.
RequestHangs ==
    /\ apc = "request" /\ since + HTTPTimeout <= now
    /\ fail("AuthErr", "timeout")
    /\ UNCHANGED <<now, flowVars, confirm, expiresAt, typed, promptedAt, answeredAt, deadline, interval,
                   nextPoll, since, slows, reply, tok>>

ReceiveToken ==
    /\ Received({"token"})
    /\ apc' = "verify"
    /\ since' = now
    /\ UNCHANGED <<now, flowVars, confirm, expiresAt, typed, promptedAt, answeredAt, deadline, interval,
                   nextPoll, slows, reply, tok, res, env>>

-----------------------------------------------------------------------------
(* After the wait *)

\* Result.Env: a map literal, its two keys written in this order.
SessionVars == [n \in {SessionEnv, EnvSubject} |-> IF n = EnvSubject THEN "sub" ELSE "user"]

\* Fault: the clock is shifted forward, as for iat.
OutsideWindow_Forward ==
    LET iat == tok.issued + tok.ahead IN
    \/ iat + tok.life < since + ClockSkew
    \/ tok.nbf /\ since + ClockSkew + Leeway < iat
    \/ iat > now + ClockSkew

\* VerifyIDToken: go-oidc looks at exp and nbf at once, on a clock shifted back
\* by the skew; iat is looked at after the keys were fetched.
OutsideWindow ==
    LET iat == tok.issued + tok.ahead IN
    \/ iat + tok.life < since - ClockSkew
    \/ tok.nbf /\ since - ClockSkew + Leeway < iat
    \/ iat > now + ClockSkew

\* Fault: the required group is not looked at.
Rejects_AnyGroup ==
    IF tok.fault = "no_id_token" THEN {"no_id_token"}
    ELSE IF OutsideWindow THEN {"invalid_token"} ELSE {tok.fault} \ {"none", "missing_group"}

\* IDTokenFrom, VerifyIDToken, the username claim and the group; exportEnv
\* afterwards: what the token fails first.
Rejects ==
    IF tok.fault = "no_id_token" THEN {"no_id_token"}
    ELSE IF OutsideWindow THEN {"invalid_token"} ELSE {tok.fault} \ {"none"}

Accept ==
    /\ apc = "verify" /\ Rejects = {}
    /\ res' = [code |-> "Success", reason |-> "none"]
    /\ env' = SessionVars
    /\ apc' = "done"
    /\ UNCHANGED <<now, flowVars, confirm, expiresAt, typed, promptedAt, answeredAt, deadline, interval,
                   nextPoll, since, slows, reply, tok>>

\* The token does not pass; nor does any when the JWKS cannot be fetched.
Reject ==
    /\ apc = "verify"
    /\ \E why \in Rejects \cup {"invalid_token"} :
          /\ why = "invalid_token" => tok.fault # "no_id_token"
          /\ fail("AuthErr", why)
    /\ UNCHANGED <<now, flowVars, confirm, expiresAt, typed, promptedAt, answeredAt, deadline, interval,
                   nextPoll, since, slows, reply, tok>>

-----------------------------------------------------------------------------
(* Composition *)

\* Time passes while a request is out, up to http_timeout, in the wait up to
\* its deadline, and at the prompt for as long as the user likes.
Tick ==
    /\ CASE apc \in {"discover", "device", "code", "verify"} -> now < since + HTTPTimeout
         [] apc = "prompt"                                   -> now < MaxClock
         [] apc = "wait"                                     -> now < deadline
         [] apc = "request"                                  -> now < deadline /\ now < since + HTTPTimeout
         [] OTHER                                            -> FALSE
    /\ now' = now + 1
    /\ UNCHANGED <<flowVars, hostVars>>

Browser == Decide /\ UNCHANGED hostVars

HostStep ==
    \/ GiveUpEarly \/ Discover
    \/ StartDeviceAuth \/ StartDeviceAuthFails \/ CheckCode
    \/ WaitExpires \/ Poll \/ KeepPolling \/ ReceiveRefusal \/ ReceiveToken
    \/ Accept \/ Reject

Next ==
    \/ HostStep \/ AskApproval \/ RequestFails \/ RequestHangs
    \/ TokenEndpoint \/ TokenEndpointSlowsDown
    \/ Browser \/ Tick

Spec == Init /\ [][Next]_vars

\* The host runs, its timers fire, time passes, and a prompt that was shown
\* returns.  Nothing is assumed of the provider or of the browser.
FairSpec ==
    /\ Spec
    /\ WF_vars(HostStep)
    /\ WF_vars(AskApproval)
    /\ WF_vars(RequestHangs)
    /\ WF_vars(Tick)

-----------------------------------------------------------------------------
(* Properties *)

\* A login succeeds only on a code that was approved and redeemed for it, with
\* a token that passed every check, and in the PIN flow only if the PIN typed
\* is the one the approval page showed (authenticator.go:240-271); the session
\* then has the subject in OIDC_SUB and the username in session_env, unless
\* session_env is OIDC_SUB itself, which the configuration may say.
SuccessIsEarned ==
    res.code = "Success" =>
        /\ flow = "redeemed"
        /\ tok.fault = "none"
        /\ confirm => typed = "right"
        /\ env[EnvSubject] = "sub"
        /\ SessionEnv # EnvSubject => env[SessionEnv] = "user"

\* However answers, expiry and the end of the wait race, the user is told
\* "denied" only for a code that was refused or voided, and "expired" only for
\* one whose lifetime is over (authenticator.go:333-355, client.go:323-331).
ReasonIsTrue ==
    /\ res.reason = "denied" => flow \in {"refused", "void"}
    /\ res.reason = "expired" => expired

\* README.md:431-432 keeps the two apart: "No approval received in time." is
\* for a timeout that passed, a code whose expires_in elapsed has a message of
\* its own.  It fails: waitForToken gives its context the shorter of the two
\* times, and whichever ends it comes out as ErrTimeout (authenticator.go:320-331).
ExpiryReportedAsSuch ==
    res.reason = "timeout" /\ expired => answeredAt + Timeout <= now

\* A provider that "could not be reached or answered unexpectedly" is reported
\* as such and "says nothing about the user" (authenticator.go:43-45), so that
\* "timeout" is left for a wait that is over.  It fails: the error of a single
\* poll that hung for http_timeout matches DeadlineExceeded too (client.go:316).
OutageReportedAsSuch ==
    res.reason = "timeout" => deadline <= now

\* One attempt: once the provider has rejected a PIN the login sends nothing
\* more, it only ends (README.md:50, client.go:297-298).
OnePinAttempt ==
    rejected > 0 => apc = "done" \/ (apc = "request" /\ reply = "access_denied")

\* What the configured times do bound: before its prompt and after it a login
\* takes at most timeout + 4 x http_timeout together, and once answered it waits
\* neither past the timeout nor past the end of the code, a request in flight
\* included (authenticator.go:316-331).
BoundedApartFromPrompt ==
    /\ (IF apc = "prompt" THEN promptedAt ELSE now - (answeredAt - promptedAt))
          <= Timeout + 4 * HTTPTimeout
    /\ apc \in {"wait", "request"} =>
          /\ now <= answeredAt + Timeout
          /\ life # 0 /\ answeredAt < expiresAt => now <= expiresAt

\* "Timeout bounds the whole device flow (user interaction included)"
\* (config.go:100), and with the requests around it a login takes at most
\* timeout + 4 x http_timeout (README.md:277).  It fails: the timeout starts
\* when the prompt returns, and nothing in the helper limits the prompt.
LoginIsBounded ==
    apc # "done" => now <= Timeout + 4 * HTTPTimeout

\* A session knows who logged in: the subject is in OIDC_SUB and the username
\* in the variable that session_env names (authenticator.go:131-133).  It
\* fails for session_env: OIDC_SUB, which validate accepts (config.go:332).
IdentityExported ==
    res.code = "Success" => env[EnvSubject] = "sub" /\ env[SessionEnv] = "user"

\* The skew makes up for clocks that differ by no more than it
\* (client.go:423-426): such a host turns no token down for its times while the
\* provider itself would still honour it, however long the answers took, and
\* takes none that was over by more than twice the skew.  For a token with nbf
\* this needs a skew that leaves enough of go-oidc's leeway (client.go:434-436).
ClocksMayDiffer ==
    LET atProvider == since + tok.ahead
        exp == tok.issued + tok.ahead + tok.life
    IN  (apc = "verify" /\ tok.ahead \in (-ClockSkew)..ClockSkew
                        /\ (tok.nbf => tok.ahead <= Leeway - ClockSkew)) =>
            /\ OutsideWindow => atProvider > exp
            /\ atProvider > exp + 2 * ClockSkew => OutsideWindow

\* Every login ends, whatever the provider and the browser do.
Ends == <>(apc = "done")
=============================================================================
