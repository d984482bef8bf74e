-------------------------- MODULE DeviceLoginProofs --------------------------
(***************************************************************************)
(* What holds of one login through the device flow for every timeout,      *)
(* lifetime, polling interval, clock skew and clock drift.                 *)
(***************************************************************************)
EXTENDS DeviceLogin, TLAPS

\* Where the wait for the token has begun and no result is there yet.
Waiting == {"wait", "request"}

\* TypeOK without the bound on the interval.
Types ==
    /\ FlowTypeOK
    /\ apc \in {"discover", "device", "code", "prompt", "wait", "request", "verify", "done"}
    /\ confirm \in BOOLEAN
    /\ typed \in {"none", "right", "wrong"}
    /\ promptedAt \in Nat /\ answeredAt \in Nat /\ since \in Nat
    /\ expiresAt \in Int /\ deadline \in Int /\ nextPoll \in Int /\ interval \in Int
    /\ slows \in 0..MaxSlowDowns
    /\ reply \in {"none", "token", "slow_down", "authorization_pending", "access_denied",
                  "expired_token", "invalid_grant"}
    /\ tok \in Token
    /\ res.code \in {"Unknown", "Success", "Ignore", "AuthErr", "AuthInfoUnavail"}
    /\ res.reason \in Reasons
    /\ DOMAIN env \subseteq {SessionEnv, EnvSubject}

\* The bound; a slow_down that was received but not obeyed yet has a part of it
\* left.
IntervalOK ==
    /\ apc \in Waiting => interval \in 1..maxPollInterval + SlowDown * slows
    /\ apc = "request" /\ reply = "slow_down" =>
          slows > 0 /\ interval <= maxPollInterval + SlowDown * (slows - 1)

\* The result comes last, and with it the variables of the session.
ResultOK ==
    /\ apc # "done" => res = Unknown
    /\ res.code = "Success" => env = SessionVars

\* The provider knows as much of the flow as the host does: a code is out once
\* the host has one, and a PIN is expected exactly when the host asks for one.
FlowOK ==
    /\ apc \in {"discover", "device"} => flow = "none" /\ life = 0
    /\ apc \notin {"discover", "device", "done"} => flow # "none" /\ wantsPin = confirm
    /\ apc \in {"discover", "device", "code", "prompt"} => typed = "none"
    /\ apc \in Waiting /\ confirm => typed # "none"

\* A code is redeemed only with the right PIN, if one is expected.
RedeemedOK ==
    /\ apc = "verify" \/ (apc = "request" /\ reply = "token") => flow = "redeemed"
    /\ flow = "redeemed" /\ confirm => typed = "right"

\* What the provider answered is still so when the host acts on it: the host
\* takes the code to end no later than the provider does.
ReplyOK ==
    /\ expiresAt <= expiry
    /\ apc = "request" =>
          /\ reply = "access_denied" => flow \in {"refused", "void"}
          /\ reply = "expired_token" => Lapsed

\* The result is what happened, and a success passed every check.
OutcomeOK ==
    /\ res.code = "Success" => flow = "redeemed" /\ tok.fault = "none"
    /\ ReasonIsTrue

\* When a step began, by where the login is.
ClockOK ==
    /\ since <= now
    /\ apc \in {"discover", "device", "code"} => promptedAt = 0 /\ answeredAt = 0
    /\ apc = "discover" => since = 0 /\ now <= HTTPTimeout
    /\ apc \in {"device", "code"} => since <= HTTPTimeout /\ now <= since + HTTPTimeout
    /\ apc = "prompt" => promptedAt <= 2 * HTTPTimeout /\ promptedAt <= now
    /\ apc \in Waiting \cup {"verify"} =>
          /\ promptedAt <= 2 * HTTPTimeout
          /\ promptedAt <= answeredAt /\ answeredAt <= now
    /\ apc \in Waiting =>
          /\ deadline <= answeredAt + Timeout
          /\ life # 0 /\ answeredAt < expiresAt => deadline <= expiresAt
          /\ now <= deadline \/ now = answeredAt
    /\ apc = "verify" => since <= answeredAt + Timeout /\ now <= since + HTTPTimeout
    /\ apc = "done" => now - (answeredAt - promptedAt) <= Timeout + 4 * HTTPTimeout

\* A token was issued before it arrived.
TokenOK ==
    /\ apc = "request" /\ reply = "token" => tok.issued <= now
    /\ apc = "verify" => tok.issued <= since

IInv ==
    /\ Types
    /\ IntervalOK
    /\ ResultOK
    /\ FlowOK
    /\ RedeemedOK
    /\ ReplyOK
    /\ OutcomeOK
    /\ OnePinAttempt
    /\ ClockOK
    /\ TokenOK

-----------------------------------------------------------------------------
(* Constants and operators *)

\* DeviceLoginAssumption, one constant at a time.
LEMMA Constants ==
    /\ Timeout \in Nat \ {0} /\ HTTPTimeout \in Nat \ {0}
    /\ defaultPollInterval \in Nat \ {0} /\ maxPollInterval \in Nat \ {0}
    /\ defaultPollInterval <= maxPollInterval
    /\ SlowDown \in Nat /\ MaxSlowDowns \in Nat
    /\ ClockSkew \in Nat /\ Leeway \in Nat /\ MaxClock \in Nat
    /\ TokenLifetimes \subseteq Nat /\ Drifts \subseteq Int
    /\ Lifetimes \subseteq Int /\ Intervals \subseteq Int
BY DeviceLoginAssumption DEF DeviceLoginAssumption

\* A clamped interval never makes the ticker panic.
LEMMA ClampRange ==
    ASSUME NEW sec \in Int
    PROVE  clampInterval(sec) \in 1..maxPollInterval
BY Constants DEF clampInterval

\* The wait ends at the timeout or earlier, and with the code.
LEMMA WaitUntilRange ==
    ASSUME Types
    PROVE  /\ waitUntil \in Int
           /\ waitUntil <= now + Timeout
           /\ life # 0 /\ now < expiresAt => waitUntil <= expiresAt
BY Constants DEF waitUntil, Types, FlowTypeOK

\* What the token endpoint answers, and what becomes of the code with it.
LEMMA AnswerFacts ==
    ASSUME Types, flow # "none", typed \in {"none", "right", "wrong"}
    PROVE  /\ Answer(typed)[1] \in {"token", "authorization_pending", "access_denied",
                                    "expired_token", "invalid_grant"}
           /\ Answer(typed)[2] \in {"pending", "approved", "refused", "void", "redeemed"}
           /\ Answer(typed)[1] = "expired_token" => Lapsed
           /\ Answer(typed)[1] = "access_denied" => Answer(typed)[2] \in {"refused", "void"}
           /\ Answer(typed)[1] = "token" => Answer(typed)[2] = "redeemed"
           /\ flow # "redeemed" /\ Answer(typed)[2] = "redeemed" =>
                 typed # "wrong" /\ (wantsPin => typed = "right")
           /\ flow # "void" /\ Answer(typed)[2] = "void" => Answer(typed)[1] = "access_denied"
<1>1. CASE Lapsed
  BY <1>1 DEF Answer, Types, FlowTypeOK
<1>2. CASE ~Lapsed
  BY <1>2 DEF Answer, Types, FlowTypeOK
<1> QED
  BY <1>1, <1>2

\* The times in a token are numbers.
LEMMA TokenTimes ==
    ASSUME NEW t \in Token
    PROVE  t.issued \in Nat /\ t.life \in Nat /\ t.ahead \in Int
<1>1. t.issued \in Nat /\ t.life \in TokenLifetimes \cup {0} /\ t.ahead \in Drifts \cup {0}
  BY DEF Token
<1>2. TokenLifetimes \cup {0} \subseteq Nat /\ Drifts \cup {0} \subseteq Int
  BY Constants
<1> QED
  BY <1>1, <1>2

\* What the provider may issue is a token of the type.
LEMMA IssuedType ==
    ASSUME Types, NEW t \in Issued
    PROVE  t \in Token /\ t.issued = now
BY DEF Issued, Token, Types, FlowTypeOK

-----------------------------------------------------------------------------
(* Types *)

\* A step keeps the types.
LEMMA TypeStep ==
    ASSUME Types, FlowOK, Next
    PROVE  Types'
<1> USE Constants DEF Types, FlowTypeOK, flowVars, hostVars
<1>1. CASE GiveUpEarly
  BY <1>1 DEF GiveUpEarly, fail, Reasons
<1>2. CASE Discover
  BY <1>2 DEF Discover
<1>3. CASE StartDeviceAuth
  BY <1>3 DEF StartDeviceAuth, HandOut
<1>4. CASE StartDeviceAuthFails
  BY <1>4 DEF StartDeviceAuthFails, fail, Reasons
<1>5. CASE CheckCode
  BY <1>5 DEF CheckCode, fail, Reasons
<1>6. CASE AskApproval
  BY <1>6, ClampRange, WaitUntilRange DEF AskApproval, StartWait, fail, Reasons
<1>7. CASE WaitExpires
  BY <1>7 DEF WaitExpires, fail, Reasons
<1>8. CASE Poll
  BY <1>8 DEF Poll
<1>9. CASE TokenEndpoint
  BY <1>9, AnswerFacts, IssuedType DEF TokenEndpoint, Redeem, FlowOK
<1>10. CASE TokenEndpointSlowsDown
  BY <1>10 DEF TokenEndpointSlowsDown
<1>11. CASE KeepPolling
  BY <1>11 DEF KeepPolling, Received
<1>12. CASE ReceiveRefusal
  BY <1>12 DEF ReceiveRefusal, Received, waitFailure, fail, Reasons
<1>13. CASE RequestFails
  BY <1>13 DEF RequestFails, fail, Reasons
<1>14. CASE RequestHangs
  BY <1>14 DEF RequestHangs, fail, Reasons
<1>15. CASE ReceiveToken
  BY <1>15 DEF ReceiveToken, Received
<1>16. CASE Accept
  BY <1>16 DEF Accept, Reasons, SessionVars
<1>17. CASE Reject
  BY <1>17 DEF Reject, Rejects, fail, Reasons, Token, Faults
<1>18. CASE Browser
  BY <1>18 DEF Browser, Decide
<1>19. CASE Tick
  BY <1>19 DEF Tick
<1> QED
  BY <1>1, <1>2, <1>3, <1>4, <1>5, <1>6, <1>7, <1>8, <1>9, <1>10, <1>11, <1>12, <1>13, <1>14,
     <1>15, <1>16, <1>17, <1>18, <1>19 DEF Next, HostStep

-----------------------------------------------------------------------------
(* The interval, the flow and its outcome, the clock *)

\* A step keeps the bound on the interval.
LEMMA IntervalStep ==
    ASSUME Types, FlowOK, IntervalOK, Next
    PROVE  IntervalOK'
<1> USE Constants DEF Types, FlowTypeOK, IntervalOK, Waiting, flowVars, hostVars
<1>1. CASE GiveUpEarly
  BY <1>1 DEF GiveUpEarly, fail
<1>2. CASE Discover
  BY <1>2 DEF Discover
<1>3. CASE StartDeviceAuth
  BY <1>3 DEF StartDeviceAuth, HandOut
<1>4. CASE StartDeviceAuthFails
  BY <1>4 DEF StartDeviceAuthFails, fail
<1>5. CASE CheckCode
  BY <1>5 DEF CheckCode, fail
<1>6. CASE AskApproval
  BY <1>6, ClampRange DEF AskApproval, StartWait, fail
<1>7. CASE WaitExpires
  BY <1>7 DEF WaitExpires, fail
<1>8. CASE Poll
  BY <1>8 DEF Poll
<1>9. CASE TokenEndpoint
  BY <1>9, AnswerFacts DEF TokenEndpoint, Redeem, FlowOK
<1>10. CASE TokenEndpointSlowsDown
  BY <1>10 DEF TokenEndpointSlowsDown
<1>11. CASE KeepPolling
  BY <1>11 DEF KeepPolling, Received
<1>12. CASE ReceiveRefusal
  BY <1>12 DEF ReceiveRefusal, Received, waitFailure, fail
<1>13. CASE RequestFails
  BY <1>13 DEF RequestFails, fail
<1>14. CASE RequestHangs
  BY <1>14 DEF RequestHangs, fail
<1>15. CASE ReceiveToken
  BY <1>15 DEF ReceiveToken, Received
<1>16. CASE Accept
  BY <1>16 DEF Accept, SessionVars
<1>17. CASE Reject
  BY <1>17 DEF Reject, Rejects, fail
<1>18. CASE Browser
  BY <1>18 DEF Browser, Decide
<1>19. CASE Tick
  BY <1>19 DEF Tick
<1> QED
  BY <1>1, <1>2, <1>3, <1>4, <1>5, <1>6, <1>7, <1>8, <1>9, <1>10, <1>11, <1>12, <1>13, <1>14,
     <1>15, <1>16, <1>17, <1>18, <1>19 DEF Next, HostStep

\* A step keeps host and provider in agreement about the flow.
LEMMA FlowStep ==
    ASSUME Types, ResultOK, FlowOK, RedeemedOK, OnePinAttempt, Next
    PROVE  ResultOK' /\ FlowOK' /\ RedeemedOK' /\ OnePinAttempt'
<1> USE DEF Types, FlowTypeOK, ResultOK, FlowOK, RedeemedOK, OnePinAttempt, Unknown, SessionVars,
            Waiting, flowVars, hostVars
<1>1. CASE GiveUpEarly
  BY <1>1 DEF GiveUpEarly, fail
<1>2. CASE Discover
  BY <1>2 DEF Discover
<1>3. CASE StartDeviceAuth
  BY <1>3 DEF StartDeviceAuth, HandOut
<1>4. CASE StartDeviceAuthFails
  BY <1>4 DEF StartDeviceAuthFails, fail
<1>5. CASE CheckCode
  BY <1>5 DEF CheckCode, fail
<1>6. CASE AskApproval
  BY <1>6 DEF AskApproval, StartWait, fail
<1>7. CASE WaitExpires
  BY <1>7 DEF WaitExpires, fail
<1>8. CASE Poll
  BY <1>8 DEF Poll
<1>9. CASE TokenEndpoint
  BY <1>9, AnswerFacts DEF TokenEndpoint, Redeem
<1>10. CASE TokenEndpointSlowsDown
  BY <1>10 DEF TokenEndpointSlowsDown
<1>11. CASE KeepPolling
  BY <1>11 DEF KeepPolling, Received
<1>12. CASE ReceiveRefusal
  BY <1>12 DEF ReceiveRefusal, Received, waitFailure, fail
<1>13. CASE RequestFails
  BY <1>13 DEF RequestFails, fail
<1>14. CASE RequestHangs
  BY <1>14 DEF RequestHangs, fail
<1>15. CASE ReceiveToken
  BY <1>15 DEF ReceiveToken, Received
<1>16. CASE Accept
  BY <1>16 DEF Accept, SessionVars
<1>17. CASE Reject
  BY <1>17 DEF Reject, Rejects, fail
<1>18. CASE Browser
  BY <1>18 DEF Browser, Decide
<1>19. CASE Tick
  BY <1>19 DEF Tick
<1> QED
  BY <1>1, <1>2, <1>3, <1>4, <1>5, <1>6, <1>7, <1>8, <1>9, <1>10, <1>11, <1>12, <1>13, <1>14,
     <1>15, <1>16, <1>17, <1>18, <1>19 DEF Next, HostStep

\* A step keeps the reasons true.
LEMMA OutcomeStep ==
    ASSUME Types, ResultOK, FlowOK, RedeemedOK, ReplyOK, OutcomeOK, ClockOK, Next
    PROVE  ReplyOK' /\ OutcomeOK'
<1> USE Constants DEF Types, FlowTypeOK, ResultOK, FlowOK, RedeemedOK, ReplyOK, OutcomeOK, ReasonIsTrue,
                      Lapsed, expired, Unknown, Waiting, flowVars, hostVars
<1>1. CASE GiveUpEarly
  BY <1>1 DEF GiveUpEarly, fail
<1>2. CASE Discover
  BY <1>2 DEF Discover
<1>3. CASE StartDeviceAuth
  BY <1>3 DEF StartDeviceAuth, HandOut, ClockOK
<1>4. CASE StartDeviceAuthFails
  BY <1>4 DEF StartDeviceAuthFails, fail
<1>5. CASE CheckCode
  BY <1>5 DEF CheckCode, fail
<1>6. CASE AskApproval
  BY <1>6 DEF AskApproval, StartWait, fail
<1>7. CASE WaitExpires
  BY <1>7 DEF WaitExpires, fail
<1>8. CASE Poll
  BY <1>8 DEF Poll
<1>9. CASE TokenEndpoint
  BY <1>9, AnswerFacts DEF TokenEndpoint, Redeem
<1>10. CASE TokenEndpointSlowsDown
  BY <1>10 DEF TokenEndpointSlowsDown
<1>11. CASE KeepPolling
  BY <1>11 DEF KeepPolling, Received
<1>12. CASE ReceiveRefusal
  BY <1>12 DEF ReceiveRefusal, Received, waitFailure, fail
<1>13. CASE RequestFails
  BY <1>13 DEF RequestFails, fail
<1>14. CASE RequestHangs
  BY <1>14 DEF RequestHangs, fail
<1>15. CASE ReceiveToken
  BY <1>15 DEF ReceiveToken, Received
<1>16. CASE Accept
  BY <1>16 DEF Accept, SessionVars, Rejects, Token, Faults
<1>17. CASE Reject
  BY <1>17 DEF Reject, Rejects, fail, Token, Faults
<1>18. CASE Browser
  BY <1>18 DEF Browser, Decide
<1>19. CASE Tick
  BY <1>19 DEF Tick
<1> QED
  BY <1>1, <1>2, <1>3, <1>4, <1>5, <1>6, <1>7, <1>8, <1>9, <1>10, <1>11, <1>12, <1>13, <1>14,
     <1>15, <1>16, <1>17, <1>18, <1>19 DEF Next, HostStep

\* When time may pass.
LEMMA TickGuard ==
    Tick => /\ \/ apc \in {"discover", "device", "code", "verify"} /\ now < since + HTTPTimeout
               \/ apc = "prompt"
               \/ apc \in Waiting /\ now < deadline
            /\ now' = now + 1
            /\ UNCHANGED <<flowVars, hostVars>>
BY DEF Tick, Waiting

\* Time passes within the bounds.
LEMMA ClockTick ==
    ASSUME Types, ClockOK, TokenOK, Tick
    PROVE  ClockOK' /\ TokenOK'
<1>1. /\ now' = now + 1
      /\ UNCHANGED <<flowVars, hostVars>>
  BY TickGuard
<1>2. CASE apc \in {"discover", "device", "code", "verify"} /\ now < since + HTTPTimeout
  BY <1>1, <1>2, Constants DEF Types, FlowTypeOK, ClockOK, TokenOK, Waiting, flowVars, hostVars
<1>3. CASE apc = "prompt"
  BY <1>1, <1>3, Constants DEF Types, FlowTypeOK, ClockOK, TokenOK, Waiting, flowVars, hostVars
<1>4. CASE apc \in Waiting /\ now < deadline
  <2>1. tok.issued \in Nat
    BY TokenTimes DEF Types
  <2> QED
    BY <1>1, <1>4, <2>1, Constants
       DEF Types, FlowTypeOK, ClockOK, TokenOK, Waiting, flowVars, hostVars
<1> QED
  BY <1>2, <1>3, <1>4, TickGuard

\* A step starts and ends within them.
LEMMA ClockStep ==
    ASSUME Types, FlowOK, ClockOK, TokenOK, Next
    PROVE  ClockOK' /\ TokenOK'
<1> USE Constants DEF Types, FlowTypeOK, FlowOK, ClockOK, TokenOK, Waiting, flowVars, hostVars
<1>1. CASE GiveUpEarly
  BY <1>1 DEF GiveUpEarly, fail
<1>2. CASE Discover
  BY <1>2 DEF Discover
<1>3. CASE StartDeviceAuth
  BY <1>3 DEF StartDeviceAuth, HandOut
<1>4. CASE StartDeviceAuthFails
  BY <1>4 DEF StartDeviceAuthFails, fail
<1>5. CASE CheckCode
  BY <1>5 DEF CheckCode, fail
<1>6. CASE AskApproval
  BY <1>6, WaitUntilRange DEF AskApproval, StartWait, fail
<1>7. CASE WaitExpires
  BY <1>7 DEF WaitExpires, fail
<1>8. CASE Poll
  BY <1>8 DEF Poll
<1>9. CASE TokenEndpoint
  BY <1>9, AnswerFacts, IssuedType DEF TokenEndpoint, Redeem
<1>10. CASE TokenEndpointSlowsDown
  BY <1>10 DEF TokenEndpointSlowsDown
<1>11. CASE KeepPolling
  BY <1>11 DEF KeepPolling, Received
<1>12. CASE ReceiveRefusal
  BY <1>12 DEF ReceiveRefusal, Received, waitFailure, fail
<1>13. CASE RequestFails
  BY <1>13 DEF RequestFails, fail
<1>14. CASE RequestHangs
  BY <1>14 DEF RequestHangs, fail
<1>15. CASE ReceiveToken
  BY <1>15 DEF ReceiveToken, Received
<1>16. CASE Accept
  BY <1>16 DEF Accept, SessionVars
<1>17. CASE Reject
  BY <1>17 DEF Reject, Rejects, fail
<1>18. CASE Browser
  BY <1>18 DEF Browser, Decide
<1>19. CASE Tick
  BY <1>19, ClockTick
<1> QED
  BY <1>1, <1>2, <1>3, <1>4, <1>5, <1>6, <1>7, <1>8, <1>9, <1>10, <1>11, <1>12, <1>13, <1>14,
     <1>15, <1>16, <1>17, <1>18, <1>19 DEF Next, HostStep

-----------------------------------------------------------------------------
(* The invariant *)

\* The invariant holds at first, and a step keeps it.
LEMMA InitInv == Init => IInv
<1> SUFFICES ASSUME Init PROVE IInv
  OBVIOUS
<1> USE Constants DEF Init, FlowInit
<1>1. wantsPin \in BOOLEAN /\ confirm \in BOOLEAN
  OBVIOUS
<1>2. /\ now \in Nat /\ life \in Int /\ expiry \in Int /\ rejected \in Nat
      /\ promptedAt \in Nat /\ answeredAt \in Nat /\ since \in Nat
      /\ expiresAt \in Int /\ deadline \in Int /\ nextPoll \in Int /\ interval \in Int
      /\ slows \in 0..MaxSlowDowns
  OBVIOUS
<1>3. NoToken \in Token
  BY DEF NoToken, Token, Faults
<1>4. /\ DOMAIN env \subseteq {SessionEnv, EnvSubject}
      /\ res.code = "Unknown" /\ res.reason \in Reasons
  BY DEF NoEnv, Unknown, Reasons
<1>5. Types
  BY <1>1, <1>2, <1>3, <1>4, Zenon DEF Types, FlowTypeOK
<1>6. IntervalOK /\ ResultOK /\ FlowOK /\ RedeemedOK /\ ReplyOK /\ OnePinAttempt
  BY DEF IntervalOK, ResultOK, FlowOK, RedeemedOK, ReplyOK, OnePinAttempt, Waiting, Unknown
<1>7. OutcomeOK
  BY DEF OutcomeOK, ReasonIsTrue, Unknown
<1>8. ClockOK /\ TokenOK
  BY DEF ClockOK, TokenOK, Waiting
<1> QED
  BY <1>5, <1>6, <1>7, <1>8 DEF IInv

LEMMA NextInv == IInv /\ [Next]_vars => IInv'
<1>1. ASSUME IInv, Next PROVE IInv'
  BY <1>1, TypeStep, IntervalStep, FlowStep, OutcomeStep, ClockStep DEF IInv
<1>2. ASSUME IInv, UNCHANGED vars PROVE IInv'
  BY <1>2 DEF IInv, Types, FlowTypeOK, IntervalOK, ResultOK, FlowOK, RedeemedOK, ReplyOK, OutcomeOK,
              ReasonIsTrue, OnePinAttempt, ClockOK, TokenOK, Lapsed, expired, vars, flowVars, hostVars
<1> QED
  BY <1>1, <1>2

LEMMA Invariant == Spec => []IInv
BY InitInv, NextInv, PTL DEF Spec

-----------------------------------------------------------------------------
(* Theorems *)

\* Every variable has its type, and the interval handed to time.NewTicker is
\* at least 1 in every poll (client.go, x/oauth2), whatever the provider states.
THEOREM TypeCorrect == Spec => []TypeOK
<1>1. IInv => TypeOK
  BY DEF IInv, Types, IntervalOK, TypeOK, Waiting
<1> QED
  BY <1>1, Invariant, PTL

\* A login succeeds only on a code approved and redeemed for it, with a token
\* that passed every check and, in the PIN flow, the right PIN; its session has
\* the variables it should have (authenticator.go:240-271).
THEOREM SuccessEarned == Spec => []SuccessIsEarned
<1>1. IInv => SuccessIsEarned
  BY DEF IInv, Types, ResultOK, RedeemedOK, OutcomeOK, SuccessIsEarned, SessionVars, EnvSubject
<1> QED
  BY <1>1, Invariant, PTL

\* "denied" is said only of a code that was refused or voided, "expired" only of
\* one whose lifetime is over on the host, which is never later than at the
\* provider (authenticator.go:333-355, client.go:323-331).
THEOREM ReasonTrue == Spec => []ReasonIsTrue
<1>1. IInv => ReasonIsTrue
  BY DEF IInv, OutcomeOK
<1> QED
  BY <1>1, Invariant, PTL

\* After a rejected PIN the login only ends (client.go:297-298).
THEOREM PinTriedOnce == Spec => []OnePinAttempt
<1>1. IInv => OnePinAttempt
  BY DEF IInv
<1> QED
  BY <1>1, Invariant, PTL

\* Before and after its prompt together a login takes at most timeout plus four
\* times http_timeout, and it does not wait past the timeout or the code's end
\* (authenticator.go:316-331).
THEOREM BoundedBesidesPrompt == Spec => []BoundedApartFromPrompt
<1>1. IInv => BoundedApartFromPrompt
  BY Constants DEF IInv, Types, FlowTypeOK, ClockOK, Waiting, BoundedApartFromPrompt
<1> QED
  BY <1>1, Invariant, PTL

\* A skew makes up for clocks that differ by no more than it, whatever the
\* lifetimes of tokens and the length of requests (client.go:423-436).
THEOREM SkewSuffices == Spec => []ClocksMayDiffer
<1>1. IInv => ClocksMayDiffer
  <2> SUFFICES ASSUME IInv, apc = "verify", tok.ahead \in (-ClockSkew)..ClockSkew,
                      tok.nbf => tok.ahead <= Leeway - ClockSkew
               PROVE  /\ OutsideWindow => since + tok.ahead > tok.issued + tok.ahead + tok.life
                      /\ since + tok.ahead > tok.issued + tok.ahead + tok.life + 2 * ClockSkew
                            => OutsideWindow
    BY DEF ClocksMayDiffer
  <2>1. tok \in Token /\ since \in Nat /\ now \in Nat
    BY DEF IInv, Types, FlowTypeOK
  <2>3. tok.issued \in Nat /\ tok.life \in Nat /\ tok.ahead \in Int
    BY <2>1, TokenTimes
  <2>2. tok.issued <= since /\ since <= now
    BY DEF IInv, ClockOK, TokenOK
  <2> QED
    BY <2>1, <2>2, <2>3, Constants DEF OutsideWindow
<1> QED
  BY <1>1, Invariant, PTL
=============================================================================
