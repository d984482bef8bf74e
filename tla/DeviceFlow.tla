----------------------------- MODULE DeviceFlow -----------------------------
(***************************************************************************)
(* One device authorization at the identity provider: external to the      *)
(* repository, and known to it through the contract its client relies on   *)
(* (RFC 8628 and docs/PROVIDER-CONTRACT.md section 6.1).                   *)
(***************************************************************************)
EXTENDS Integers

VARIABLES
    now,        \* the time, on the host and at the provider
    flow,       \* "none", "pending", "approved", "refused", "void", "redeemed"
    life,       \* expires_in of the device code; 0 when none is stated
    expiry,     \* when the code expires here, if a lifetime is stated
    wantsPin,   \* the host declared confirmation_supported
    rejected    \* history: PINs this provider has rejected

flowVars == <<flow, life, expiry, wantsPin, rejected>>

FlowTypeOK ==
    /\ now \in Nat
    /\ flow \in {"none", "pending", "approved", "refused", "void", "redeemed"}
    /\ life \in Int
    /\ expiry \in Int
    /\ wantsPin \in BOOLEAN
    /\ rejected \in Nat

FlowInit ==
    /\ now = 0
    /\ flow = "none"
    /\ life = 0
    /\ expiry = 0
    /\ wantsPin = FALSE
    /\ rejected = 0

\* The code is over at the provider.
Lapsed == life # 0 /\ expiry <= now

\* The device authorization endpoint hands out a code.
HandOut(l, pin) ==
    /\ flow' = "pending"
    /\ life' = l
    /\ expiry' = now + l
    /\ wantsPin' = pin
    /\ UNCHANGED rejected

\* The person at the browser decides, while the code lives.
Decide ==
    /\ flow = "pending" /\ ~Lapsed
    /\ flow' \in {"approved", "refused"}
    /\ UNCHANGED <<now, life, expiry, wantsPin, rejected>>

\* A token request with a PIN ("right", "wrong", or "none"): the answer,
\* and what becomes of the code.  Expiry is looked at before the PIN, a wrong
\* PIN voids the code, and so does one sent before the approval.
Answer(pin) ==
    IF Lapsed THEN <<"expired_token", flow>> ELSE
    CASE flow \in {"refused", "void"}                      -> <<"access_denied", flow>>
      [] flow = "redeemed"                                 -> <<"invalid_grant", flow>>
      [] flow \in {"pending", "approved"} /\ pin = "wrong" -> <<"access_denied", "void">>
      [] flow = "pending" /\ pin # "wrong"                 -> <<"authorization_pending", flow>>
      [] flow = "approved" /\ pin # "wrong"                ->
            IF wantsPin /\ pin = "none" THEN <<"authorization_pending", flow>>
            ELSE <<"token", "redeemed">>

\* The token endpoint handles the request.
Redeem(pin) ==
    /\ flow' = Answer(pin)[2]
    /\ rejected' = rejected + (IF flow # "void" /\ flow' = "void" THEN 1 ELSE 0)
    /\ UNCHANGED <<now, life, expiry, wantsPin>>
=============================================================================
