------------------------- MODULE TestProviderProofs -------------------------
(***************************************************************************)
(* What holds of the provider for every set of hosts, assertions and       *)
(* requests, and however many handlers run at the same time.               *)
(***************************************************************************)
EXTENDS TestProvider, SequenceTheorems, TLAPS

\* The entry of an accepted assertion in the replay table.
Entry(a) == [host |-> a.iss, jti |-> a.jti, exp |-> a.exp + assertionSkew]

\* An accepted assertion is in the table until a request has pruned it with a
\* time at which it is expired for good; no request is ahead of the clock.
TableOK ==
    /\ \A a \in accepted : Entry(a) \in seenJTI \/ prunedAt > a.exp + assertionSkew
    /\ prunedAt <= now
    /\ \A r \in Requests : slot[r].at = "verify" => slot[r].time <= now

\* A poll that was approved is for a code that was given out.
PollsOK ==
    \A r \in Requests : slot[r].at \in {"sign", "store"} => slot[r].poll.code \in 1..Len(codes)

RevokedInactive == \A id \in revoked : ~hosts[id].active

IInv ==
    /\ TypeOK
    /\ TableOK
    /\ ReplayNeedsOvertaking
    /\ PollsOK
    /\ RevokedInactive

-----------------------------------------------------------------------------
(* Slots and hosts *)

\* The fields of a slot.
LEMMA SlotFields ==
    ASSUME NEW s \in Slot
    PROVE  /\ s.at = "sign" => s.poll \in Polled
           /\ s.at = "store" => s.poll \in Polled /\ s.aud \in Clients
           /\ s.at = "verify" => s.time \in Nat /\ s.req \in KeysRequests
           /\ s.at = "enroll" => s.time \in Nat /\ s.tok \in Nat /\ s.req \in EnrollRequests
BY DEF Slot, Idle

\* The records that handlers put into a slot.
LEMMA SlotRecords ==
    /\ Idle \in Slot
    /\ [at |-> "stall"] \in Slot
    /\ \A p \in Polled : [at |-> "sign", poll |-> p] \in Slot
    /\ \A p \in Polled, c \in Clients : [at |-> "store", poll |-> p, aud |-> c] \in Slot
    /\ \A t \in Nat, q \in KeysRequests : [at |-> "verify", time |-> t, req |-> q] \in Slot
    /\ \A t \in Nat, k \in Nat, q \in EnrollRequests :
          [at |-> "enroll", time |-> t, tok |-> k, req |-> q] \in Slot
BY DEF Slot, Idle

\* A request's slot is set and no other.
LEMMA SlotSet ==
    ASSUME NEW S, NEW f \in [Requests -> S], NEW r \in Requests, NEW x \in S
    PROVE  /\ [f EXCEPT ![r] = x] \in [Requests -> S]
           /\ [f EXCEPT ![r] = x][r] = x
           /\ \A s \in Requests \ {r} : [f EXCEPT ![r] = x][s] = f[s]
OBVIOUS

\* A host is registered: the others are as they were.
LEMMA HostAdded ==
    ASSUME NEW hs \in Seq(Host), NEW q \in EnrollRequest
    PROVE  /\ Append(hs, Registered(q)) \in Seq(Host)
           /\ DOMAIN hs \subseteq DOMAIN Append(hs, Registered(q))
           /\ \A id \in DOMAIN hs : Append(hs, Registered(q))[id] = hs[id]
<1>1. Registered(q) \in Host
  <2>1. TRUE \in BOOLEAN
    BY Zenon
  <2> QED
    BY <2>1 DEF Registered, EnrollRequest, Host
<1> QED
  BY <1>1

\* One host's record.
LEMMA HostRecord ==
    ASSUME NEW h \in Host, NEW S \in SUBSET Accounts
    PROVE  /\ [h EXCEPT !.accounts = S] \in Host
           /\ [h EXCEPT !.accounts = S].active = h.active
           /\ [h EXCEPT !.active = FALSE] \in Host
           /\ ~[h EXCEPT !.active = FALSE].active
<1>1. /\ [h EXCEPT !.accounts = S] \in Host
      /\ [h EXCEPT !.accounts = S].active = h.active
  BY DEF Host
<1>2. [h EXCEPT !.active = FALSE] \in Host
  BY DEF Host
<1>3. [h EXCEPT !.active = FALSE].active = FALSE
  BY DEF Host
<1> QED
  BY <1>1, <1>2, <1>3

\* A host takes new accounts and stays active or revoked.
LEMMA HostUpdated ==
    ASSUME NEW hs \in Seq(Host), NEW id \in DOMAIN hs, NEW S \in SUBSET Accounts
    PROVE  /\ [hs EXCEPT ![id].accounts = S] \in Seq(Host)
           /\ DOMAIN [hs EXCEPT ![id].accounts = S] = DOMAIN hs
           /\ \A i \in DOMAIN hs : [hs EXCEPT ![id].accounts = S][i].active = hs[i].active
<1>1. hs[id] \in Host
  OBVIOUS
<1> DEFINE new == [hs EXCEPT ![id].accounts = S]
<1>2. /\ DOMAIN new = 1..Len(hs) /\ Len(hs) \in Nat
      /\ \A i \in 1..Len(hs) : new[i] = IF i = id THEN [hs[id] EXCEPT !.accounts = S] ELSE hs[i]
  OBVIOUS
<1>3. new \in [1..Len(hs) -> Host]
  <2>1. new = [i \in 1..Len(hs) |-> new[i]]
    BY <1>2
  <2> HIDE DEF new
  <2>2. PICK h : h = [hs[id] EXCEPT !.accounts = S]
    OBVIOUS
  <2>3. h \in Host /\ \A i \in 1..Len(hs) : new[i] = IF i = id THEN h ELSE hs[i]
    BY <1>1, <1>2, <2>2, HostRecord, Zenon
  <2>4. \A i \in 1..Len(hs) : new[i] \in Host
    BY <2>3
  <2> QED
    BY <2>1, <2>4
<1>4. [hs[id] EXCEPT !.accounts = S].active = hs[id].active
  BY <1>1, HostRecord
<1> HIDE DEF new
<1>5. new \in Seq(Host)
  BY <1>2, <1>3
<1> QED
  BY <1>2, <1>4, <1>5 DEF new

\* A host is revoked.
LEMMA HostRevoked ==
    ASSUME NEW hs \in Seq(Host), NEW id \in DOMAIN hs
    PROVE  /\ [hs EXCEPT ![id].active = FALSE] \in Seq(Host)
           /\ DOMAIN [hs EXCEPT ![id].active = FALSE] = DOMAIN hs
           /\ ~[hs EXCEPT ![id].active = FALSE][id].active
           /\ \A i \in DOMAIN hs \ {id} : [hs EXCEPT ![id].active = FALSE][i] = hs[i]
<1>1. hs[id] \in Host
  OBVIOUS
<1>2. [hs[id] EXCEPT !.active = FALSE] \in Host /\ ~[hs[id] EXCEPT !.active = FALSE].active
  BY <1>1, HostRecord
<1> DEFINE new == [hs EXCEPT ![id].active = FALSE]
<1>3. /\ DOMAIN new = 1..Len(hs) /\ Len(hs) \in Nat
      /\ \A i \in 1..Len(hs) : new[i] = IF i = id THEN [hs[id] EXCEPT !.active = FALSE] ELSE hs[i]
  OBVIOUS
<1>4. new \in [1..Len(hs) -> Host]
  <2>1. new = [i \in 1..Len(hs) |-> new[i]]
    BY <1>3
  <2> HIDE DEF new
  <2>2. PICK h : h = [hs[id] EXCEPT !.active = FALSE]
    OBVIOUS
  <2>3. h \in Host /\ \A i \in 1..Len(hs) : new[i] = IF i = id THEN h ELSE hs[i]
    BY <1>2, <1>3, <2>2, Zenon
  <2>4. \A i \in 1..Len(hs) : new[i] \in Host
    BY <2>3
  <2> QED
    BY <2>1, <2>4
<1> HIDE DEF new
<1>5. new \in Seq(Host)
  BY <1>3, <1>4
<1> QED
  BY <1>2, <1>3, <1>5 DEF new

-----------------------------------------------------------------------------
(* Assertions *)

\* What is known of an assertion that passes.
LEMMA Passes ==
    ASSUME NEW a \in Assertions, NEW time \in Nat, Verdict(a, time) = 200
    PROVE  /\ a.iss \in DOMAIN hosts /\ hosts[a.iss].active
           /\ time <= a.exp + assertionSkew
           /\ ~Seen(a, time)
<1>1. ~Unverifiable(a, time)
  BY DEF Verdict
<1>2. hosts[a.iss].active /\ ~Seen(a, time)
  BY <1>1 DEF Verdict
<1>3. a.exp \in Int /\ assertionSkew \in Nat
  BY TestProviderAssumption DEF Assertion
<1>4. a.iss \in DOMAIN hosts /\ ~(a.exp < time - assertionSkew)
  BY <1>1 DEF Unverifiable
<1> QED
  BY <1>2, <1>3, <1>4

\* What verifyHostAssertionLocked does to the table, on each of its ways out.
LEMMA ConsumeEffect ==
    ASSUME TypeOK, NEW a \in Assertions, NEW time \in Nat, NEW handler,
           Consume(a, time, handler)
    PROVE  /\ \/ UNCHANGED <<seenJTI, prunedAt>> /\ Verdict(a, time) # 200
              \/ Unexpired(time) \subseteq seenJTI' /\ prunedAt' >= time /\ prunedAt' >= prunedAt
           /\ prunedAt' \in {prunedAt, time}
           /\ \/ Verdict(a, time) # 200 /\ seenJTI' \subseteq seenJTI /\ UNCHANGED <<accepted, again>>
              \/ /\ Verdict(a, time) = 200
                 /\ seenJTI' = Unexpired(time) \cup {Entry(a)}
                 /\ accepted' = accepted \cup {a}
                 /\ \/ again' = again
                    \/ a \in accepted /\ again' = again \cup {<<handler, time < prunedAt>>}
<1> DEFINE looked == ~Unverifiable(a, time) /\ hosts[a.iss].active
<1>1. Verdict(a, time) = 200 => looked
  BY DEF Verdict
<1>2. prunedAt \in Nat
  BY DEF TypeOK
<1>3. CASE ~looked
  <2>1. Verdict(a, time) # 200
    BY <1>1, <1>3
  <2>2. UNCHANGED <<seenJTI, prunedAt, accepted, again>>
    BY <1>3, <2>1, Zenon DEF Consume
  <2> QED
    BY <2>1, <2>2
<1>4. CASE looked
  <2>1. prunedAt' = IF time > prunedAt THEN time ELSE prunedAt
    BY <1>4, Zenon DEF Consume
  <2>2. prunedAt' >= time /\ prunedAt' >= prunedAt /\ prunedAt' \in {prunedAt, time}
    BY <1>2, <2>1
  <2>3. CASE Verdict(a, time) = 200
    <3>1. seenJTI' = Unexpired(time) \cup {Entry(a)} /\ accepted' = accepted \cup {a}
      BY <1>4, <2>3, Zenon DEF Consume, Entry
    <3>2. \/ again' = again
          \/ a \in accepted /\ again' = again \cup {<<handler, time < prunedAt>>}
      BY <2>3, Zenon DEF Consume
    <3> QED
      BY <2>2, <2>3, <3>1, <3>2
  <2>4. CASE Verdict(a, time) # 200
    <3>1. seenJTI' = Unexpired(time) \cup {} /\ UNCHANGED <<accepted, again>>
      BY <1>4, <2>4, Zenon DEF Consume
    <3>2. seenJTI' = Unexpired(time) /\ seenJTI' \subseteq seenJTI
      BY <3>1 DEF Unexpired
    <3> QED
      BY <2>2, <2>4, <3>1, <3>2
  <2> QED
    BY <2>3, <2>4
<1> QED
  BY <1>3, <1>4

\* The types of what it leaves.
LEMMA ConsumeTypes ==
    ASSUME TypeOK, NEW a \in Assertions, NEW time \in Nat, NEW handler \in {"device", "keys"},
           Consume(a, time, handler)
    PROVE  /\ seenJTI' \subseteq [host : DOMAIN hosts, jti : Nat, exp : Int]
           /\ accepted' \subseteq Assertions
           /\ prunedAt' \in Nat
           /\ again' \subseteq {"device", "keys"} \X BOOLEAN
<1>1. prunedAt' \in Nat
  BY ConsumeEffect DEF TypeOK
<1>2. accepted' \subseteq Assertions
  <2>1. accepted' = accepted \/ accepted' = accepted \cup {a}
    BY Zenon DEF Consume
  <2>2. accepted \subseteq Assertions
    BY Zenon DEF TypeOK
  <2> QED
    BY <2>1, <2>2
<1>3. again' \subseteq {"device", "keys"} \X BOOLEAN
  <2>1. again \subseteq {"device", "keys"} \X BOOLEAN
    BY DEF TypeOK
  <2>2. <<handler, time < prunedAt>> \in {"device", "keys"} \X BOOLEAN
    <3>1. (time < prunedAt) = TRUE \/ (time < prunedAt) = FALSE
      BY SMT DEF TypeOK
    <3>2. \A b \in BOOLEAN : <<handler, b>> \in {"device", "keys"} \X BOOLEAN
      OBVIOUS
    <3> QED
      BY <3>1, <3>2, Zenon
  <2>3. again' = again \/ again' = again \cup {<<handler, time < prunedAt>>}
    BY Zenon DEF Consume
  <2> QED
    BY <2>1, <2>2, <2>3
<1>4. seenJTI' \subseteq [host : DOMAIN hosts, jti : Nat, exp : Int]
  <2>1. seenJTI \subseteq [host : DOMAIN hosts, jti : Nat, exp : Int]
    BY DEF TypeOK
  <2>2. Unexpired(time) \subseteq seenJTI
    BY DEF Unexpired
  <2>3. CASE Verdict(a, time) = 200
    <3>1. a.jti \in Nat /\ a.exp + assertionSkew \in Int /\ a.iss \in DOMAIN hosts
      BY <2>3, Passes, TestProviderAssumption DEF Assertion
    <3>2. Entry(a) \in [host : DOMAIN hosts, jti : Nat, exp : Int]
      BY <3>1 DEF Entry
    <3>3. seenJTI' = Unexpired(time) \cup {Entry(a)}
      BY <2>3, ConsumeEffect
    <3> QED
      BY <2>1, <2>2, <3>2, <3>3
  <2>4. CASE Verdict(a, time) # 200
    BY <2>1, <2>4, ConsumeEffect
  <2> QED
    BY <2>3, <2>4
<1> QED
  BY <1>1, <1>2, <1>3, <1>4

-----------------------------------------------------------------------------
(* Types *)

\* The table's part of TypeOK.
TableTypes ==
    /\ seenJTI \subseteq [host : DOMAIN hosts, jti : Nat, exp : Int]
    /\ accepted \subseteq Assertions
    /\ prunedAt \in Nat
    /\ again \subseteq {"device", "keys"} \X BOOLEAN

\* An authorization request leaves the flow and the table well typed.
LEMMA AuthorizationTypes ==
    ASSUME TypeOK, NEW q \in DeviceRequests
    PROVE  /\ RefuseAuthorization(q) => TypeOK'
           /\ GrantAuthorization(q) => TypeOK'
<1>1. /\ q.client \in Clients /\ q.intent \in Intents /\ q.account \in Accounts \cup {None}
      /\ q.tok \in Assertions \cup {None}
  BY TestProviderAssumption DEF DeviceRequest
<1>2. now \in Nat /\ None \notin Assertions /\ "device" \in {"device", "keys"}
  BY TestProviderAssumption DEF TypeOK
<1>3. ASSUME RefuseAuthorization(q) \/ GrantAuthorization(q)
      PROVE  TableTypes' /\ sent' \in 0..MaxRequests /\ UNCHANGED hosts
  <2>1. UNCHANGED assertionVars \/ (q.tok # None /\ Consume(q.tok, now, "device"))
    BY <1>3, Zenon DEF RefuseAuthorization, GrantAuthorization
  <2>2. UNCHANGED hosts /\ sent < MaxRequests /\ sent' = sent + 1
    BY <1>3, Zenon DEF RefuseAuthorization, GrantAuthorization, Arrive
  <2>3. sent' \in 0..MaxRequests
    BY <2>2, TestProviderAssumption DEF TypeOK
  <2>4. CASE UNCHANGED assertionVars
    BY <2>2, <2>3, <2>4 DEF TypeOK, TableTypes, assertionVars
  <2>5. CASE q.tok # None /\ Consume(q.tok, now, "device")
    <3>1. q.tok \in Assertions
      BY <1>1, <2>5
    <3> QED
      BY <1>2, <2>2, <2>3, <2>5, <3>1, ConsumeTypes DEF TableTypes
  <2> QED
    BY <2>1, <2>4, <2>5
<1>4. flow \in Flow /\ None \in Nat \cup {None}
  BY DEF TypeOK
<1>5. /\ Recorded(q) \in Flow /\ Recorded(q).code = flow.code /\ Recorded(q).client = flow.client
      /\ Recorded(q).host = None
  BY <1>1, <1>4 DEF Recorded, Flow
<1>6. ASSUME RefuseAuthorization(q)
      PROVE  TypeOK'
  <2>1. {requireHost', policyDeny', slowDown'} \subseteq BOOLEAN
    BY <1>6, Zenon DEF RefuseAuthorization, programmed, TypeOK
  <2>2. /\ flow' = Recorded(q)
        /\ UNCHANGED <<now, hosts, programmed, codes, tokens, slot, settings, history>>
    BY <1>6, Zenon DEF RefuseAuthorization
  <2> QED
    BY <1>3, <1>5, <1>6, <2>1, <2>2 DEF TypeOK, TableTypes, programmed, history
<1>7. ASSUME GrantAuthorization(q)
      PROVE  TypeOK'
  <2>1. {requireHost', policyDeny', slowDown'} \subseteq BOOLEAN
    BY <1>7, Zenon DEF GrantAuthorization, programmed, TypeOK
  <2>2. /\ codes' = Append(codes, Asked(q))
        /\ UNCHANGED <<now, hosts, programmed, tokens, slot, settings, history>>
    BY <1>7, Zenon DEF GrantAuthorization
  <2>3. q.tok # None => q.tok.iss \in DOMAIN hosts
    <3>1. q.tok # None => Verdict(q.tok, now) = 200
      BY <1>7 DEF GrantAuthorization
    <3> QED
      BY <1>1, <1>2, <3>1, Passes
  <2>4. DOMAIN hosts \subseteq Nat /\ codes \in Seq(Flow)
    BY DEF TypeOK
  <2>5. PICK h : h = IF q.tok = None THEN None ELSE q.tok.iss
    OBVIOUS
  <2>6. h \in DOMAIN hosts \cup {None}
    BY <2>3, <2>5
  <2>7. Asked(q) \in Flow /\ codes' \in Seq(Flow) /\ Len(codes') = Len(codes) + 1
    BY <1>1, <2>2, <2>4, <2>5, <2>6 DEF Asked, Flow
  <2>8. flow' = [Recorded(q) EXCEPT !.code = Len(codes) + 1, !.client = q.client, !.host = h]
    <3>1. CASE q.tok = None
      <4>1. /\ h = Recorded(q).host
            /\ flow' = [Recorded(q) EXCEPT !.code = Len(codes) + 1, !.client = q.client,
                                           !.host = Recorded(q).host]
        BY <1>5, <1>7, <2>5, <3>1 DEF GrantAuthorization
      <4> QED
        BY <4>1
    <3>2. CASE q.tok # None
      BY <1>7, <2>5, <3>2 DEF GrantAuthorization
    <3> QED
      BY <3>1, <3>2
  <2>9. flow' \in Flow /\ flow'.code = Len(codes') /\ flow'.client \in Clients /\ flow'.host = h
    <3>1. Len(codes) + 1 \in Nat /\ h \in Nat \cup {None}
      BY <2>4, <2>6
    <3> QED
      BY <1>1, <1>5, <2>7, <2>8, <3>1 DEF Flow
  <2> QED
    BY <1>3, <1>7, <2>1, <2>2, <2>6, <2>7, <2>9 DEF TypeOK, TableTypes, programmed, history
<1> QED
  BY <1>6, <1>7

\* The fields of a slot that a handler holds.
LEMMA HandlerSlot ==
    ASSUME TypeOK, NEW r \in Requests
    PROVE  /\ slot[r].at = "sign" => slot[r].poll \in Polled
           /\ slot[r].at = "store" => slot[r].poll \in Polled /\ slot[r].aud \in Clients
           /\ slot[r].at = "verify" => slot[r].time \in Nat /\ slot[r].req \in KeysRequests
           /\ slot[r].at = "enroll" =>
                 slot[r].time \in Nat /\ slot[r].tok \in Nat /\ slot[r].req \in EnrollRequests
<1>1. slot[r] \in Slot
  BY DEF TypeOK
<1> QED
  BY <1>1, SlotFields

\* A request enters or leaves a handler, or goes on in it.
LEMMA SlotTypes ==
    ASSUME TypeOK, NEW r \in Requests, NEW x \in Slot,
           Enter(r, x) \/ Continue(r, x)
    PROVE  /\ slot' \in [Requests -> Slot] /\ sent' \in 0..MaxRequests
           /\ slot'[r] = x /\ \A s \in Requests \ {r} : slot'[s] = slot[s]
<1>1. slot' = [slot EXCEPT ![r] = x] /\ slot \in [Requests -> Slot]
  BY DEF Enter, Continue, TypeOK
<1>2. sent' \in 0..MaxRequests
  <2>1. (sent < MaxRequests /\ sent' = sent + 1) \/ sent' = sent
    BY Zenon DEF Enter, Continue, Arrive
  <2>2. sent \in 0..MaxRequests
    BY DEF TypeOK
  <2> QED
    BY <2>1, <2>2, TestProviderAssumption
<1> QED
  BY <1>1, <1>2

LEMMA AnswerTypes ==
    ASSUME TypeOK, NEW r \in Requests, Answer(r)
    PROVE  /\ slot' \in [Requests -> Slot] /\ sent' \in 0..MaxRequests
           /\ slot'[r].at = "idle" /\ \A s \in Requests \ {r} : slot'[s] = slot[s]
<1>1. Continue(r, Idle) /\ Idle \in Slot
  BY SlotRecords DEF Answer, Continue
<1>2. /\ slot' \in [Requests -> Slot] /\ sent' \in 0..MaxRequests
      /\ slot'[r] = Idle /\ \A s \in Requests \ {r} : slot'[s] = slot[s]
  BY <1>1, SlotTypes
<1> QED
  BY <1>2 DEF Idle

\* A handler's step that changes the slots and nothing else keeps the types.
LEMMA OnlySlotTypes ==
    ASSUME TypeOK, slot' \in [Requests -> Slot], sent' \in 0..MaxRequests,
           UNCHANGED <<now, hosts, programmed, assertionVars, flowVars, tokens, settings, history>>
    PROVE  TypeOK'
BY DEF TypeOK, programmed, assertionVars, flowVars, history

\* handleToken's first section reads a poll's fields.
LEMMA PollRecord ==
    ASSUME TypeOK, NEW c \in Nat
    PROVE  [code |-> c, intent |-> flow.intent,
            group |-> IF flow.host # None THEN flow.account ELSE None,
            denying |-> policyDeny] \in Polled
<1>1. flow.intent \in Intents /\ flow.account \in Accounts \cup {None}
  BY DEF TypeOK, Flow
<1>2. policyDeny \in BOOLEAN
  BY Zenon DEF TypeOK
<1>3. (IF flow.host # None THEN flow.account ELSE None) \in Accounts \cup {None}
  BY <1>1
<1> QED
  BY <1>1, <1>2, <1>3, Zenon DEF Polled

\* What KeysArrive puts into the slot.
LEMMA KeysArriveSlot ==
    ASSUME TypeOK, NEW r \in Requests, NEW q \in KeysRequests, KeysArrive(r, q)
    PROVE  \/ UNCHANGED slot /\ sent' \in 0..MaxRequests
           \/ Enter(r, [at |-> "stall"])
           \/ Enter(r, [at |-> "verify", time |-> now, req |-> q])
<1>1. CASE keysOutcome = "KeysServerError"
  <2>1. Arrive /\ UNCHANGED slot
    BY <1>1 DEF KeysArrive
  <2> QED
    BY <2>1, TestProviderAssumption DEF Arrive, TypeOK
<1>2. CASE keysOutcome = "KeysTimeout"
  BY <1>2 DEF KeysArrive
<1>3. CASE keysOutcome = "KeysOK"
  BY <1>3 DEF KeysArrive
<1> QED
  BY <1>1, <1>2, <1>3 DEF TypeOK

\* What EnrollHandle may do to the hosts: add one or change one's accounts.
LEMMA EnrollHosts ==
    ASSUME TypeOK, NEW r \in Requests, EnrollHandle(r)
    PROVE  /\ hosts' \in Seq(Host)
           /\ DOMAIN hosts \subseteq DOMAIN hosts'
           /\ \A id \in DOMAIN hosts : hosts'[id].active = hosts[id].active
<1>1. slot[r].at = "enroll" /\ hosts \in Seq(Host)
  BY DEF EnrollHandle, TypeOK
<1>2. slot[r].req \in EnrollRequest /\ slot[r].req.accounts \in SUBSET Accounts
  BY <1>1, HandlerSlot, TestProviderAssumption DEF EnrollRequest
<1>3. CASE UNCHANGED hosts
  BY <1>1, <1>3
<1>4. CASE hosts' = Append(hosts, Registered(slot[r].req))
  BY <1>1, <1>2, <1>4, HostAdded
<1>5. ASSUME NEW id \in DOMAIN hosts,
             hosts' = [hosts EXCEPT ![id].accounts = slot[r].req.accounts]
      PROVE  /\ hosts' \in Seq(Host)
             /\ DOMAIN hosts \subseteq DOMAIN hosts'
             /\ \A i \in DOMAIN hosts : hosts'[i].active = hosts[i].active
  <2>1. PICK S \in SUBSET Accounts : S = slot[r].req.accounts
    BY <1>2
  <2>2. /\ [hosts EXCEPT ![id].accounts = S] \in Seq(Host)
        /\ DOMAIN [hosts EXCEPT ![id].accounts = S] = DOMAIN hosts
    BY <1>1, HostUpdated, Zenon
  <2>3. ASSUME NEW i \in DOMAIN hosts
        PROVE  [hosts EXCEPT ![id].accounts = S][i].active = hosts[i].active
    <3>1. hosts[i] \in Host /\ hosts[id] \in Host
      BY <1>1
    <3>2. CASE i = id
      <4>1. [hosts EXCEPT ![id].accounts = S][i] = [hosts[i] EXCEPT !.accounts = S]
        BY <1>1, <3>2
      <4> QED
        BY <3>1, <4>1, HostRecord, Zenon
    <3>3. CASE i # id
      BY <1>1, <3>3
    <3> QED
      BY <3>2, <3>3
  <2>4. hosts' = [hosts EXCEPT ![id].accounts = S]
    BY <1>5, <2>1
  <2> QED
    BY <2>2, <2>3, <2>4, Zenon
<1>6. \/ UNCHANGED hosts
      \/ hosts' = Append(hosts, Registered(slot[r].req))
      \/ \E id \in DOMAIN hosts : hosts' = [hosts EXCEPT ![id].accounts = slot[r].req.accounts]
  <2>1. \/ UNCHANGED hosts
        \/ \E byKey \in AnyOf(Matches("key", slot[r].req.key)),
              byName \in AnyOf(Matches("name", slot[r].req.name)) :
              EnrollRegister(slot[r].req, byKey, byName)
    BY Zenon DEF EnrollHandle
  <2>2. ASSUME NEW byKey \in AnyOf(Matches("key", slot[r].req.key)), NEW byName,
               EnrollRegister(slot[r].req, byKey, byName)
        PROVE  \/ UNCHANGED hosts
               \/ hosts' = Append(hosts, Registered(slot[r].req))
               \/ \E id \in DOMAIN hosts : hosts' = [hosts EXCEPT ![id].accounts = slot[r].req.accounts]
    <3>1. byKey # None => byKey \in DOMAIN hosts
      BY Zenon DEF AnyOf, Matches
    <3>2. \/ UNCHANGED hosts
          \/ hosts' = Append(hosts, Registered(slot[r].req))
          \/ byKey # None /\ hosts' = [hosts EXCEPT ![byKey].accounts = slot[r].req.accounts]
      BY <2>2, Zenon DEF EnrollRegister
    <3> QED
      BY <3>1, <3>2, Zenon
  <2> QED
    BY <2>1, <2>2, Zenon
<1> QED
  BY <1>3, <1>4, <1>5, <1>6, Zenon

\* More hosts, with the rest as it was.
LEMMA MoreHostsTypes ==
    ASSUME TypeOK, hosts' \in Seq(Host), DOMAIN hosts \subseteq DOMAIN hosts',
           slot' \in [Requests -> Slot], sent' \in 0..MaxRequests, settings' \in 0..MaxSettings,
           revoked' \subseteq DOMAIN hosts,
           UNCHANGED <<now, programmed, assertionVars, flowVars, tokens, served>>
    PROVE  TypeOK'
<1> USE DEF TypeOK, programmed, assertionVars, flowVars
<1>1. seenJTI' \subseteq [host : DOMAIN hosts', jti : Nat, exp : Int]
  OBVIOUS
<1>2. revoked' \subseteq DOMAIN hosts' /\ served' \subseteq (DOMAIN hosts') \X Accounts
  OBVIOUS
<1>3. flow' \in Flow /\ flow'.host \in DOMAIN hosts' \cup {None}
  OBVIOUS
<1> QED
  BY <1>1, <1>2, <1>3

\* The handlers keep the types.
LEMMA HandlerTypes ==
    ASSUME TypeOK, PollsOK, NEW r \in Requests, Handler(r)
    PROVE  TypeOK'
<1>1. ASSUME NEW c \in 0..Len(codes), PollApproved(r, c)
      PROVE  TypeOK'
  <2>1. c \in Nat
    BY DEF TypeOK
  <2> DEFINE p == [code |-> c, intent |-> flow.intent,
                   group |-> IF flow.host # None THEN flow.account ELSE None,
                   denying |-> policyDeny]
  <2>2. p \in Polled
    BY <2>1, PollRecord
  <2>3. Enter(r, [at |-> "sign", poll |-> p])
    BY <1>1, Zenon DEF PollApproved
  <2>4. UNCHANGED <<now, hosts, programmed, assertionVars, flowVars, tokens, settings, history>>
    BY <1>1, Zenon DEF PollApproved
  <2> HIDE DEF p
  <2>5. [at |-> "sign", poll |-> p] \in Slot
    BY <2>2, SlotRecords
  <2> QED
    BY <2>3, <2>4, <2>5, SlotTypes, OnlySlotTypes
<1>2. CASE SignIDToken(r)
  <2>1. slot[r].at = "sign"
    BY <1>2 DEF SignIDToken
  <2>2. slot[r].poll \in Polled /\ slot[r].poll.code \in 1..Len(codes)
    BY <2>1, HandlerSlot DEF PollsOK
  <2>3. flow.client \in Clients /\ flow.code \in Nat
    BY <2>2 DEF TypeOK, Flow
  <2>4. [at |-> "store", poll |-> slot[r].poll, aud |-> flow.client] \in Slot
    BY <2>2, <2>3, SlotRecords
  <2>5. /\ Continue(r, [at |-> "store", poll |-> slot[r].poll, aud |-> flow.client])
        /\ UNCHANGED <<now, hosts, programmed, assertionVars, flowVars, tokens, settings, history>>
    BY <1>2, Zenon DEF SignIDToken
  <2> QED
    BY <2>4, <2>5, SlotTypes, OnlySlotTypes
<1>3. CASE StoreToken(r)
  <2>1. slot[r].at = "store" /\ Answer(r)
    BY <1>3 DEF StoreToken
  <2>2. slot[r].poll \in Polled /\ slot[r].aud \in Clients
    BY <2>1, HandlerSlot
  <2>3. tokens' \in Seq(Token)
    <3>0. now \in Nat /\ accessTokenLifetime \in Nat
      BY TestProviderAssumption DEF TypeOK
    <3>1. now + accessTokenLifetime \in Nat
      BY <3>0
    <3> DEFINE k == [code |-> slot[r].poll.code, intent |-> slot[r].poll.intent,
                     exp |-> now + accessTokenLifetime,
                     aud |-> slot[r].aud, group |-> slot[r].poll.group,
                     denying |-> slot[r].poll.denying]
    <3>2. k \in Token
      BY <2>2, <3>1 DEF Polled, Token
    <3>3. tokens' = Append(tokens, k)
      BY <1>3, Zenon DEF StoreToken
    <3> HIDE DEF k
    <3> QED
      BY <3>2, <3>3 DEF TypeOK
  <2>4. UNCHANGED <<now, hosts, programmed, assertionVars, flowVars, settings, history>>
    BY <1>3, Zenon DEF StoreToken
  <2>5. slot' \in [Requests -> Slot] /\ sent' \in 0..MaxRequests
    BY <2>1, AnswerTypes
  <2> QED
    BY <2>3, <2>4, <2>5 DEF TypeOK, programmed, assertionVars, flowVars, history
<1>4. CASE TokenFails(r) \/ KeysStalled(r)
  <2>1. /\ Answer(r)
        /\ UNCHANGED <<now, hosts, programmed, assertionVars, flowVars, tokens, settings, history>>
    BY <1>4, Zenon DEF TokenFails, KeysStalled
  <2> QED
    BY <2>1, AnswerTypes, OnlySlotTypes
<1>5. ASSUME NEW q \in KeysRequests, KeysArrive(r, q)
      PROVE  TypeOK'
  <2>1. UNCHANGED <<now, hosts, programmed, assertionVars, flowVars, tokens, settings, history>>
    BY <1>5, Zenon DEF KeysArrive
  <2>2. [at |-> "stall"] \in Slot /\ [at |-> "verify", time |-> now, req |-> q] \in Slot
    BY SlotRecords DEF TypeOK
  <2>3. slot' \in [Requests -> Slot] /\ sent' \in 0..MaxRequests
    <3>1. CASE UNCHANGED slot /\ sent' \in 0..MaxRequests
      BY <3>1 DEF TypeOK
    <3>2. CASE Enter(r, [at |-> "stall"])
      BY <2>2, <3>2, SlotTypes
    <3>3. CASE Enter(r, [at |-> "verify", time |-> now, req |-> q])
      BY <2>2, <3>3, SlotTypes
    <3> QED
      BY <1>5, <3>1, <3>2, <3>3, KeysArriveSlot
  <2> QED
    BY <2>1, <2>3, OnlySlotTypes
<1>6. CASE KeysVerify(r)
  <2> DEFINE a == slot[r].req.tok
             account == slot[r].req.account
  <2>1. slot[r].at = "verify" /\ Answer(r)
    BY <1>6, Zenon DEF KeysVerify
  <2>2. /\ slot[r].time \in Nat /\ a \in Assertions \cup {None} /\ "keys" \in {"device", "keys"}
    BY <2>1, HandlerSlot, TestProviderAssumption DEF KeysRequest
  <2>3. UNCHANGED <<now, hosts, programmed, flowVars, tokens, settings, revoked>>
    BY <1>6, Zenon DEF KeysVerify
  <2>4. TableTypes'
    <3>1. CASE a = None
      <4>1. UNCHANGED assertionVars
        BY <1>6, <3>1, Zenon DEF KeysVerify
      <4> QED
        BY <2>3, <4>1 DEF TableTypes, assertionVars, TypeOK
    <3>2. CASE a # None
      <4>1. Consume(a, slot[r].time, "keys") /\ a \in Assertions
        BY <1>6, <2>2, <3>2, Zenon DEF KeysVerify
      <4> QED
        BY <2>2, <2>3, <4>1, ConsumeTypes DEF TableTypes
    <3> QED
      BY <3>1, <3>2
  <2>5. served' \subseteq (DOMAIN hosts) \X Accounts
    <3>1. served \subseteq (DOMAIN hosts) \X Accounts /\ hosts \in Seq(Host)
      BY DEF TypeOK
    <3>2. CASE served' = served
      BY <3>1, <3>2
    <3>3. CASE served' # served
      <4>1. /\ served' = served \cup {<<a.iss, account>>}
            /\ Verdict(a, slot[r].time) = 200
            /\ account \in hosts[a.iss].accounts
        BY <1>6, <3>3 DEF KeysVerify
      <4>2. a # None
        BY <4>1 DEF Verdict, Unverifiable
      <4>3. a.iss \in DOMAIN hosts
        BY <2>2, <4>1, <4>2, Passes
      <4>4. account \in Accounts
        <5>1. hosts[a.iss] \in Host
          BY <3>1, <4>3
        <5>2. hosts[a.iss].accounts \subseteq Accounts
          BY <5>1 DEF Host
        <5> QED
          BY <4>1, <5>2
      <4> QED
        BY <3>1, <4>1, <4>3, <4>4
    <3> QED
      BY <3>2, <3>3
  <2>6. slot' \in [Requests -> Slot] /\ sent' \in 0..MaxRequests
    BY <2>1, AnswerTypes
  <2> QED
    BY <2>3, <2>4, <2>5, <2>6 DEF TypeOK, TableTypes, programmed, flowVars
<1>7. ASSUME NEW t \in 0..Len(tokens), NEW q \in EnrollRequests, EnrollArrive(r, t, q)
      PROVE  TypeOK'
  <2>1. [at |-> "enroll", time |-> now, tok |-> t, req |-> q] \in Slot
    BY SlotRecords DEF TypeOK
  <2>2. /\ Enter(r, [at |-> "enroll", time |-> now, tok |-> t, req |-> q])
        /\ UNCHANGED <<now, hosts, programmed, assertionVars, flowVars, tokens, settings, history>>
    BY <1>7, Zenon DEF EnrollArrive
  <2> QED
    BY <2>1, <2>2, SlotTypes, OnlySlotTypes
<1>8. CASE EnrollHandle(r)
  <2>1. /\ Answer(r)
        /\ UNCHANGED <<now, programmed, assertionVars, flowVars, tokens, settings, revoked, served>>
    BY <1>8, Zenon DEF EnrollHandle, history
  <2>2. slot' \in [Requests -> Slot] /\ sent' \in 0..MaxRequests
    BY <2>1, AnswerTypes
  <2>3. settings' \in 0..MaxSettings /\ revoked' \subseteq DOMAIN hosts
    BY <2>1 DEF TypeOK
  <2> QED
    BY <1>8, <2>1, <2>2, <2>3, EnrollHosts, MoreHostsTypes
<1> QED
  BY <1>1, <1>2, <1>3, <1>4, <1>5, <1>6, <1>7, <1>8 DEF Handler

\* Every step keeps the types.
LEMMA TypeStep ==
    ASSUME TypeOK, PollsOK, Next
    PROVE  TypeOK'
<1>1. CASE \E r \in Requests : Handler(r)
  BY <1>1, HandlerTypes
<1>2. ASSUME NEW c \in 0..Len(codes), PollRefused(c)
      PROVE  TypeOK'
  <2>1. pending' \in Nat
    BY <1>2 DEF PollRefused, TypeOK, StillPending
  <2>2. {requireHost', policyDeny', slowDown'} \subseteq BOOLEAN
    BY <1>2, Zenon DEF PollRefused, TypeOK, flowVars
  <2>3. /\ sent' \in 0..MaxRequests
        /\ UNCHANGED <<now, hosts, keys, keysOutcome, requireHost, policyDeny, outcome, assertionVars,
                       flowVars, tokens, slot, settings, history>>
    BY <1>2, TestProviderAssumption DEF PollRefused, Arrive, TypeOK
  <2> QED
    BY <2>1, <2>2, <2>3 DEF TypeOK, assertionVars, flowVars, history
<1>3. CASE Authorization
  BY <1>3, AuthorizationTypes DEF Authorization
<1>4. CASE SetDeviceFlow
  <2>1. pending' \in Nat /\ outcome' \in {"Approved", "Denied", "Expired"}
    BY <1>4 DEF SetDeviceFlow, TypeOK
  <2>2. {requireHost', policyDeny', slowDown'} \subseteq BOOLEAN
    BY <1>4, Zenon DEF SetDeviceFlow, TypeOK, flowVars
  <2>3. /\ settings' \in 0..MaxSettings
        /\ UNCHANGED <<now, hosts, keys, keysOutcome, requireHost, policyDeny, assertionVars, flowVars,
                       tokens, slot, sent, history>>
    BY <1>4, TestProviderAssumption DEF SetDeviceFlow, Program, TypeOK
  <2> QED
    BY <2>1, <2>2, <2>3 DEF TypeOK, assertionVars, flowVars, history
<1>5. CASE SetHostPolicy
  <2>1. {requireHost', policyDeny', slowDown'} \subseteq BOOLEAN
    BY <1>5, Zenon DEF SetHostPolicy, TypeOK, flowVars
  <2>2. /\ settings' \in 0..MaxSettings
        /\ UNCHANGED <<now, hosts, keys, keysOutcome, outcome, pending, slowDown, assertionVars, flowVars,
                       tokens, slot, sent, history>>
    BY <1>5, TestProviderAssumption DEF SetHostPolicy, Program, TypeOK
  <2> QED
    BY <2>1, <2>2 DEF TypeOK, assertionVars, flowVars, history
<1>6. CASE SetKeys
  <2>1. /\ settings' \in 0..MaxSettings
        /\ keys' \subseteq Accounts /\ keysOutcome' \in {"KeysOK", "KeysServerError", "KeysTimeout"}
    <3>1. /\ settings < MaxSettings /\ settings' = settings + 1
          /\ \/ keysOutcome' \in {"KeysOK", "KeysServerError", "KeysTimeout"} /\ keys' = keys
             \/ keys' \in SUBSET Accounts /\ keysOutcome' = keysOutcome
      BY <1>6, Zenon DEF SetKeys, Program
    <3>2. /\ settings \in 0..MaxSettings /\ keys \subseteq Accounts
          /\ keysOutcome \in {"KeysOK", "KeysServerError", "KeysTimeout"}
      BY DEF TypeOK
    <3> QED
      BY <3>1, <3>2, TestProviderAssumption
  <2>2. UNCHANGED <<now, hosts, requireHost, policyDeny, outcome, pending, slowDown, assertionVars,
                    flowVars, tokens, slot, sent, history>>
    BY <1>6, Zenon DEF SetKeys
  <2> QED
    BY <2>1, <2>2 DEF TypeOK, assertionVars, flowVars, history
<1>7. ASSUME NEW q \in EnrollRequests, AddHost(q)
      PROVE  TypeOK'
  <2>1. hosts' \in Seq(Host) /\ DOMAIN hosts \subseteq DOMAIN hosts'
    BY <1>7, HostAdded, TestProviderAssumption DEF AddHost, TypeOK
  <2>2. settings' \in 0..MaxSettings
    <3>1. settings < MaxSettings /\ settings' = settings + 1
      BY <1>7, Zenon DEF AddHost, Program
    <3>2. settings \in 0..MaxSettings
      BY DEF TypeOK
    <3> QED
      BY <3>1, <3>2, TestProviderAssumption
  <2>3. UNCHANGED <<now, programmed, assertionVars, flowVars, tokens, slot, sent, revoked, served>>
    BY <1>7 DEF AddHost, history
  <2>4. slot' \in [Requests -> Slot] /\ sent' \in 0..MaxRequests /\ revoked' \subseteq DOMAIN hosts
    BY <2>3 DEF TypeOK
  <2> QED
    BY <2>1, <2>2, <2>3, <2>4, MoreHostsTypes
<1>8. ASSUME NEW id \in DOMAIN hosts, RevokeHost(id)
      PROVE  TypeOK'
  <2>1. hosts' \in Seq(Host) /\ DOMAIN hosts' = DOMAIN hosts
    <3>1. hosts \in Seq(Host)
      BY DEF TypeOK
    <3>2. /\ [hosts EXCEPT ![id].active = FALSE] \in Seq(Host)
          /\ DOMAIN [hosts EXCEPT ![id].active = FALSE] = DOMAIN hosts
      BY <3>1, HostRevoked, Zenon
    <3> QED
      BY <1>8, <3>2, Zenon DEF RevokeHost
  <2>2. settings' \in 0..MaxSettings
    <3>1. settings < MaxSettings /\ settings' = settings + 1
      BY <1>8, Zenon DEF RevokeHost, Program
    <3> QED
      BY <3>1, TestProviderAssumption DEF TypeOK
  <2>3. /\ UNCHANGED <<now, programmed, assertionVars, flowVars, tokens, slot, sent, served>>
        /\ revoked' = revoked \cup {id}
    BY <1>8 DEF RevokeHost
  <2>4. slot' \in [Requests -> Slot] /\ sent' \in 0..MaxRequests /\ revoked' \subseteq DOMAIN hosts
    BY <2>3 DEF TypeOK
  <2> QED
    BY <2>1, <2>2, <2>3, <2>4, MoreHostsTypes
<1>9. CASE Tick
  BY <1>9 DEF Tick, TypeOK, programmed, assertionVars, flowVars, history
<1> QED
  BY <1>1, <1>2, <1>3, <1>4, <1>5, <1>6, <1>7, <1>8, <1>9 DEF Next, Programming

-----------------------------------------------------------------------------
(* The replay table *)

\* verifyHostAssertionLocked keeps the table's promise; an assertion is
\* accepted again only by a time that the pruning is already past.
LEMMA ConsumeTable ==
    ASSUME TypeOK, TableOK, NEW a \in Assertions, NEW time \in Nat, time <= now,
           NEW handler, Consume(a, time, handler)
    PROVE  /\ \A b \in accepted' : Entry(b) \in seenJTI' \/ prunedAt' > b.exp + assertionSkew
           /\ prunedAt' <= now
           /\ again' # again => time < prunedAt /\ again' = again \cup {<<handler, TRUE>>}
<1>1. /\ prunedAt \in Nat /\ now \in Nat /\ assertionSkew \in Nat /\ accepted \subseteq Assertions
      /\ \A b \in Assertions : b.exp \in Int
  BY TestProviderAssumption DEF TypeOK, Assertion
<1>2. prunedAt' \in {prunedAt, time} /\ prunedAt' <= now
  BY <1>1, ConsumeEffect DEF TableOK
<1>3. ASSUME NEW b \in accepted
      PROVE  Entry(b) \in seenJTI' \/ prunedAt' > b.exp + assertionSkew
  <2>1. b.exp \in Int /\ (Entry(b) \in seenJTI \/ prunedAt > b.exp + assertionSkew)
    BY <1>1 DEF TableOK
  <2>2. CASE UNCHANGED <<seenJTI, prunedAt>>
    BY <2>1, <2>2
  <2>3. CASE Unexpired(time) \subseteq seenJTI' /\ prunedAt' >= time /\ prunedAt' >= prunedAt
    <3>1. Entry(b) \in seenJTI /\ b.exp + assertionSkew >= time => Entry(b) \in Unexpired(time)
      BY DEF Unexpired, Entry
    <3> QED
      BY <1>1, <1>2, <2>1, <2>3, <3>1
  <2> QED
    BY <2>2, <2>3, ConsumeEffect
<1>4. ASSUME a \in accepted, Verdict(a, time) = 200
      PROVE  time < prunedAt
  <2>1. time <= a.exp + assertionSkew /\ ~Seen(a, time)
    BY <1>4, Passes
  <2>2. Entry(a) \notin seenJTI
    BY <1>1, <2>1 DEF Seen, Unexpired, Entry
  <2>3. prunedAt > a.exp + assertionSkew
    BY <1>4, <2>2 DEF TableOK
  <2> QED
    BY <1>1, <2>1, <2>3
<1>5. again' # again => time < prunedAt /\ again' = again \cup {<<handler, TRUE>>}
  <2>1. again' # again => /\ a \in accepted /\ Verdict(a, time) = 200
                          /\ again' = again \cup {<<handler, time < prunedAt>>}
    BY Zenon DEF Consume
  <2> QED
    BY <1>4, <2>1, Zenon
<1>6. ASSUME NEW b \in accepted', b \notin accepted
      PROVE  Entry(b) \in seenJTI'
  BY <1>6, ConsumeEffect
<1> QED
  BY <1>2, <1>3, <1>5, <1>6

\* What a step may put into a slot.
LEMMA SlotStep ==
    ASSUME TypeOK, Next, NEW r \in Requests
    PROVE  \/ slot'[r] = slot[r]
           \/ slot'[r].at \in {"idle", "stall", "enroll"}
           \/ slot'[r].at = "verify" /\ slot'[r].time = now /\ now' = now
           \/ (\E c \in 0..Len(codes) : PollApproved(r, c)) /\ slot'[r].at = "sign"
           \/ SignIDToken(r) /\ slot'[r].at = "store"
<1> DEFINE Goal == \/ slot'[r] = slot[r]
                   \/ slot'[r].at \in {"idle", "stall", "enroll"}
                   \/ slot'[r].at = "verify" /\ slot'[r].time = now /\ now' = now
                   \/ (\E c \in 0..Len(codes) : PollApproved(r, c)) /\ slot'[r].at = "sign"
                   \/ SignIDToken(r) /\ slot'[r].at = "store"
<1>0. slot \in [Requests -> Slot]
  BY DEF TypeOK
<1>1. ASSUME NEW s \in Requests, Handler(s)
      PROVE  Goal
  <2>1. CASE s # r
    <3>1. \A x : slot' = [slot EXCEPT ![s] = x] => slot'[r] = slot[r]
      BY <1>0, <2>1
    <3>2. slot'[r] = slot[r]
      <4>1. CASE StoreToken(s) \/ TokenFails(s) \/ KeysStalled(s) \/ KeysVerify(s) \/ EnrollHandle(s)
        BY <3>1, <4>1, Zenon DEF StoreToken, TokenFails, KeysStalled, KeysVerify, EnrollHandle, Answer
      <4>2. CASE SignIDToken(s) \/ \E c \in 0..Len(codes) : PollApproved(s, c)
        BY <3>1, <4>2, Zenon DEF SignIDToken, PollApproved, Enter, Continue
      <4>3. CASE \E q \in KeysRequests : KeysArrive(s, q)
        BY <3>1, <4>3, KeysArriveSlot, Zenon DEF Enter
      <4>4. CASE \E t \in 0..Len(tokens), q \in EnrollRequests : EnrollArrive(s, t, q)
        BY <3>1, <4>4, Zenon DEF EnrollArrive, Enter
      <4> QED
        BY <1>1, <4>1, <4>2, <4>3, <4>4 DEF Handler
    <3> QED
      BY <3>2
  <2>2. CASE s = r
    <3>1. \A x : slot' = [slot EXCEPT ![r] = x] => slot'[r] = x
      BY <1>0
    <3>2. CASE StoreToken(r) \/ TokenFails(r) \/ KeysStalled(r) \/ KeysVerify(r) \/ EnrollHandle(r)
      <4>1. slot'[r] = Idle
        BY <3>1, <3>2, Zenon DEF StoreToken, TokenFails, KeysStalled, KeysVerify, EnrollHandle, Answer
      <4> QED
        BY <4>1 DEF Idle
    <3>3. CASE SignIDToken(r)
      <4>1. slot'[r] = [at |-> "store", poll |-> slot[r].poll, aud |-> flow.client]
        BY <3>1, <3>3, Zenon DEF SignIDToken, Continue
      <4>2. slot'[r].at = "store"
        BY <4>1
      <4> QED
        BY <3>3, <4>2
    <3>4. ASSUME NEW c \in 0..Len(codes), PollApproved(r, c)
          PROVE  Goal
      <4>1. \E p : slot'[r] = [at |-> "sign", poll |-> p]
        BY <3>1, <3>4, Zenon DEF PollApproved, Enter
      <4>2. slot'[r].at = "sign"
        BY <4>1
      <4> QED
        BY <3>4, <4>2
    <3>5. ASSUME NEW q \in KeysRequests, KeysArrive(r, q)
          PROVE  Goal
      <4>1. \/ slot'[r] = slot[r] \/ slot'[r] = [at |-> "stall"]
            \/ slot'[r] = [at |-> "verify", time |-> now, req |-> q]
        <5>1. \/ UNCHANGED slot \/ Enter(r, [at |-> "stall"])
              \/ Enter(r, [at |-> "verify", time |-> now, req |-> q])
          BY <3>5, KeysArriveSlot
        <5> QED
          BY <3>1, <5>1, Zenon DEF Enter
      <4>2. now' = now
        BY <3>5, Zenon DEF KeysArrive
      <4> QED
        BY <4>1, <4>2
    <3>6. ASSUME NEW t \in 0..Len(tokens), NEW q \in EnrollRequests, EnrollArrive(r, t, q)
          PROVE  Goal
      <4>1. slot'[r] = [at |-> "enroll", time |-> now, tok |-> t, req |-> q]
        BY <3>1, <3>6, Zenon DEF EnrollArrive, Enter
      <4> QED
        BY <4>1
    <3> QED
      BY <1>1, <2>2, <3>2, <3>3, <3>4, <3>5, <3>6 DEF Handler
  <2> QED
    BY <2>1, <2>2
<1>2. CASE UNCHANGED slot
  BY <1>2
<1>3. CASE Authorization \/ Programming \/ Tick \/ \E c \in 0..Len(codes) : PollRefused(c)
  <2>1. UNCHANGED slot
    BY <1>3, Zenon DEF Authorization, RefuseAuthorization, GrantAuthorization, PollRefused, Programming,
       SetDeviceFlow, SetHostPolicy, SetKeys, AddHost, RevokeHost, Tick
  <2> QED
    BY <1>2, <2>1
<1> QED
  BY <1>1, <1>3 DEF Next

\* A step with an assertion, and all others.
LEMMA TableStep ==
    ASSUME TypeOK, Next
    PROVE  \/ UNCHANGED assertionVars /\ now' \in {now, now + 1}
           \/ \E a \in Assertions : Consume(a, now, "device") /\ now' = now
           \/ \E r \in Requests :
                 /\ slot[r].at = "verify" /\ slot[r].req.tok \in Assertions
                 /\ Consume(slot[r].req.tok, slot[r].time, "keys") /\ now' = now
<1>1. CASE \E r \in Requests : KeysVerify(r)
  <2>1. PICK r \in Requests : KeysVerify(r)
    BY <1>1
  <2>2. slot[r].at = "verify" /\ now' = now
    BY <2>1, Zenon DEF KeysVerify
  <2>3. slot[r].req.tok \in Assertions \cup {None}
    BY <2>2, HandlerSlot, TestProviderAssumption DEF KeysRequest
  <2>4. UNCHANGED assertionVars \/ (slot[r].req.tok # None /\ Consume(slot[r].req.tok, slot[r].time, "keys"))
    BY <2>1, Zenon DEF KeysVerify
  <2> QED
    BY <2>2, <2>3, <2>4
<1>2. CASE Authorization
  <2>1. PICK q \in DeviceRequests : RefuseAuthorization(q) \/ GrantAuthorization(q)
    BY <1>2 DEF Authorization
  <2>2. now' = now
    BY <2>1, Zenon DEF RefuseAuthorization, GrantAuthorization
  <2>3. q.tok \in Assertions \cup {None}
    BY TestProviderAssumption DEF DeviceRequest
  <2>4. UNCHANGED assertionVars \/ (q.tok # None /\ Consume(q.tok, now, "device"))
    BY <2>1, Zenon DEF RefuseAuthorization, GrantAuthorization
  <2> QED
    BY <2>2, <2>3, <2>4
<1>3. CASE Programming \/ Tick \/ \E c \in 0..Len(codes) : PollRefused(c)
  <2>1. UNCHANGED assertionVars /\ (now' = now \/ now' = now + 1)
    BY <1>3, Zenon DEF PollRefused, Programming, SetDeviceFlow, SetHostPolicy, SetKeys, AddHost,
       RevokeHost, Tick
  <2> QED
    BY <2>1
<1>4. ASSUME NEW r \in Requests, Handler(r), ~KeysVerify(r)
      PROVE  UNCHANGED assertionVars /\ now' = now
  BY <1>4, Zenon DEF Handler, PollApproved, SignIDToken, StoreToken, TokenFails, KeysArrive,
     KeysStalled, EnrollArrive, EnrollHandle
<1> QED
  BY <1>1, <1>2, <1>3, <1>4 DEF Next

\* A step keeps the table's promise, and lets an assertion in again only at the
\* endpoint and in the order that the property allows.
LEMMA ReplayStep ==
    ASSUME TypeOK, TableOK, ReplayNeedsOvertaking, Next
    PROVE  TableOK' /\ ReplayNeedsOvertaking'
<1>0. now \in Nat /\ prunedAt \in Nat
  BY DEF TypeOK
<1>1. now' \in {now, now + 1}
  BY TableStep, Zenon
<1>2. \A r \in Requests : slot'[r].at = "verify" => slot'[r].time <= now'
  <2> SUFFICES ASSUME NEW r \in Requests, slot'[r].at = "verify"
               PROVE  slot'[r].time <= now'
    OBVIOUS
  <2>1. slot'[r] = slot[r] \/ (slot'[r].time = now /\ now' = now)
    BY SlotStep
  <2>2. CASE slot'[r] = slot[r]
    <3>1. slot[r].at = "verify" /\ slot[r].time \in Nat /\ slot[r].time <= now
      BY <2>2, HandlerSlot DEF TableOK
    <3> QED
      BY <1>0, <1>1, <2>2, <3>1
  <2>3. CASE slot'[r].time = now /\ now' = now
    BY <1>0, <2>3
  <2> QED
    BY <2>1, <2>2, <2>3
<1>3. CASE UNCHANGED assertionVars
  <2>1. ReplayNeedsOvertaking'
    BY <1>3, Zenon DEF ReplayNeedsOvertaking, assertionVars
  <2>2. UNCHANGED <<seenJTI, accepted, prunedAt>>
    BY <1>3 DEF assertionVars
  <2>3. prunedAt' <= now'
    BY <1>0, <1>1, <2>2 DEF TableOK
  <2> QED
    BY <1>2, <2>1, <2>2, <2>3 DEF TableOK, Entry
<1>4. ASSUME NEW a \in Assertions, Consume(a, now, "device"), now' = now
      PROVE  TableOK' /\ ReplayNeedsOvertaking'
  <2>1. now <= now /\ prunedAt <= now
    BY <1>0 DEF TableOK
  <2>2. /\ \A b \in accepted' : Entry(b) \in seenJTI' \/ prunedAt' > b.exp + assertionSkew
        /\ prunedAt' <= now
        /\ again' # again => now < prunedAt
    BY <1>0, <1>4, <2>1, ConsumeTable
  <2>3. again' = again
    BY <1>0, <2>1, <2>2
  <2> QED
    BY <1>2, <1>4, <2>2, <2>3 DEF TableOK, ReplayNeedsOvertaking, Entry
<1>5. ASSUME NEW r \in Requests, slot[r].at = "verify", slot[r].req.tok \in Assertions,
             Consume(slot[r].req.tok, slot[r].time, "keys"), now' = now
      PROVE  TableOK' /\ ReplayNeedsOvertaking'
  <2>1. slot[r].time \in Nat /\ slot[r].time <= now
    BY <1>5, HandlerSlot DEF TableOK
  <2>2. /\ \A b \in accepted' : Entry(b) \in seenJTI' \/ prunedAt' > b.exp + assertionSkew
        /\ prunedAt' <= now
        /\ again' # again => again' = again \cup {<<"keys", TRUE>>}
    BY <1>5, <2>1, ConsumeTable
  <2>3. again' \subseteq {<<"keys", TRUE>>}
    <3>1. again \subseteq {<<"keys", TRUE>>}
      BY DEF ReplayNeedsOvertaking
    <3> QED
      BY <2>2, <3>1, Zenon
  <2> QED
    BY <1>2, <1>5, <2>2, <2>3 DEF TableOK, ReplayNeedsOvertaking, Entry
<1> QED
  BY <1>3, <1>4, <1>5, TableStep, Zenon

-----------------------------------------------------------------------------
(* Device codes *)

\* A code once given out stays one of the codes.
LEMMA CodesStep ==
    ASSUME TypeOK, Next
    PROVE  /\ codes \in Seq(Flow) /\ Len(codes) \in Nat
           /\ Len(codes) <= Len(codes') /\ Len(codes') \in Nat
<1>1. codes \in Seq(Flow) /\ Len(codes) \in Nat
  BY DEF TypeOK
<1>2. UNCHANGED codes \/ \E q \in DeviceRequests : codes' = Append(codes, Asked(q))
  <2>1. CASE Authorization
    <3>1. PICK q \in DeviceRequests : RefuseAuthorization(q) \/ GrantAuthorization(q)
      BY <2>1 DEF Authorization
    <3>2. UNCHANGED codes \/ codes' = Append(codes, Asked(q))
      BY <3>1, Zenon DEF RefuseAuthorization, GrantAuthorization
    <3> QED
      BY <3>2
  <2>2. CASE \E r \in Requests : Handler(r)
    BY <2>2, Zenon DEF Handler, PollApproved, SignIDToken, StoreToken, TokenFails, KeysArrive,
       KeysStalled, KeysVerify, EnrollArrive, EnrollHandle, flowVars
  <2>3. CASE Programming \/ Tick \/ \E c \in 0..Len(codes) : PollRefused(c)
    BY <2>3, Zenon DEF PollRefused, Programming, SetDeviceFlow, SetHostPolicy, SetKeys, AddHost,
       RevokeHost, Tick, flowVars
  <2> QED
    BY <2>1, <2>2, <2>3 DEF Next
<1>3. \A x : Len(codes) <= Len(Append(codes, x)) /\ Len(Append(codes, x)) \in Nat
  BY <1>1
<1> QED
  BY <1>1, <1>2, <1>3

\* A step keeps the polls those of codes that were given out.
LEMMA PollsStep ==
    ASSUME TypeOK, PollsOK, Next
    PROVE  PollsOK'
<1> SUFFICES ASSUME NEW r \in Requests, slot'[r].at \in {"sign", "store"}
             PROVE  slot'[r].poll.code \in 1..Len(codes')
  BY DEF PollsOK
<1>0. codes \in Seq(Flow) /\ Len(codes) \in Nat /\ Len(codes) <= Len(codes') /\ Len(codes') \in Nat
  BY CodesStep
<1>1. CASE slot'[r] = slot[r]
  BY <1>0, <1>1 DEF PollsOK
<1>2. ASSUME NEW c \in 0..Len(codes), PollApproved(r, c)
      PROVE  slot'[r].poll.code \in 1..Len(codes')
  <2>1. c \in 1..Len(codes)
    BY <1>0, <1>2 DEF PollApproved, Known
  <2>2. slot'[r].poll.code = c
    BY <1>2 DEF PollApproved, Enter, TypeOK
  <2> QED
    BY <1>0, <2>1, <2>2
<1>3. CASE SignIDToken(r)
  <2>1. slot[r].at = "sign"
    BY <1>3, Zenon DEF SignIDToken
  <2>2. slot'[r].poll = slot[r].poll
    BY <1>3 DEF SignIDToken, Continue, TypeOK
  <2> QED
    BY <1>0, <2>1, <2>2 DEF PollsOK
<1> QED
  BY <1>1, <1>2, <1>3, SlotStep

-----------------------------------------------------------------------------
(* Revoked hosts *)

\* No step makes a host active again.
LEMMA RevokedStep ==
    ASSUME TypeOK, RevokedInactive, Next
    PROVE  RevokedInactive'
<1>0. hosts \in Seq(Host) /\ revoked \subseteq DOMAIN hosts
  BY DEF TypeOK
<1>1. CASE UNCHANGED <<hosts, revoked>>
  BY <1>1 DEF RevokedInactive
<1>2. ASSUME NEW r \in Requests, EnrollHandle(r)
      PROVE  RevokedInactive'
  <2>1. UNCHANGED revoked
    BY <1>2, Zenon DEF EnrollHandle, history
  <2>2. \A id \in DOMAIN hosts : hosts'[id].active = hosts[id].active
    BY <1>2, EnrollHosts
  <2> QED
    BY <1>0, <2>1, <2>2 DEF RevokedInactive
<1>3. ASSUME NEW q \in EnrollRequests, AddHost(q)
      PROVE  RevokedInactive'
  <2>1. hosts' = Append(hosts, Registered(q)) /\ UNCHANGED revoked
    BY <1>3, Zenon DEF AddHost, history
  <2>2. \A id \in DOMAIN hosts : hosts'[id] = hosts[id]
    BY <1>0, <2>1
  <2> QED
    BY <1>0, <2>1, <2>2 DEF RevokedInactive
<1>4. ASSUME NEW id \in DOMAIN hosts, RevokeHost(id)
      PROVE  RevokedInactive'
  <2>1. hosts' = [hosts EXCEPT ![id].active = FALSE] /\ revoked' = revoked \cup {id}
    BY <1>4, Zenon DEF RevokeHost
  <2>2. ~hosts'[id].active
    BY <1>0, <2>1, HostRevoked, Zenon
  <2>3. \A i \in DOMAIN hosts \ {id} : hosts'[i] = hosts[i]
    BY <1>0, <2>1
  <2> QED
    BY <1>0, <2>1, <2>2, <2>3 DEF RevokedInactive
<1>5. ASSUME NEW r \in Requests, Handler(r), ~EnrollHandle(r)
      PROVE  UNCHANGED <<hosts, revoked>>
  BY <1>5, Zenon DEF Handler, PollApproved, SignIDToken, StoreToken, TokenFails, KeysArrive,
     KeysStalled, KeysVerify, EnrollArrive, history
<1>6. CASE Authorization \/ SetDeviceFlow \/ SetHostPolicy \/ SetKeys \/ Tick
           \/ \E c \in 0..Len(codes) : PollRefused(c)
  <2>1. UNCHANGED <<hosts, revoked>>
    BY <1>6, Zenon DEF Authorization, RefuseAuthorization, GrantAuthorization, PollRefused,
       SetDeviceFlow, SetHostPolicy, SetKeys, Tick, history
  <2> QED
    BY <1>1, <2>1
<1> QED
  BY <1>1, <1>2, <1>3, <1>4, <1>5, <1>6 DEF Next, Programming

\* A new entry of the table, and a line sent, is one of an active host's.
LEMMA OnlyActive ==
    ASSUME TypeOK, Next
    PROVE  /\ \A e \in seenJTI' \ seenJTI : e.host \in DOMAIN hosts /\ hosts[e.host].active
           /\ \A s \in served' \ served : s[1] \in DOMAIN hosts /\ hosts[s[1]].active
<1>1. ASSUME NEW a \in Assertions, NEW time \in Nat, NEW handler, Consume(a, time, handler),
             NEW e \in seenJTI' \ seenJTI
      PROVE  e.host \in DOMAIN hosts /\ hosts[e.host].active
  <2>1. Verdict(a, time) = 200 /\ e = Entry(a)
    BY <1>1, ConsumeEffect DEF Unexpired
  <2>2. e.host = a.iss
    BY <2>1 DEF Entry
  <2> QED
    BY <2>1, <2>2, Passes
<1>2. ASSUME NEW e \in seenJTI' \ seenJTI
      PROVE  e.host \in DOMAIN hosts /\ hosts[e.host].active
  <2>1. CASE UNCHANGED assertionVars
    BY <1>2, <2>1 DEF assertionVars
  <2>2. ASSUME NEW a \in Assertions, Consume(a, now, "device")
        PROVE  e.host \in DOMAIN hosts /\ hosts[e.host].active
    BY <1>1, <1>2, <2>2 DEF TypeOK
  <2>3. ASSUME NEW r \in Requests, slot[r].at = "verify", slot[r].req.tok \in Assertions,
               Consume(slot[r].req.tok, slot[r].time, "keys")
        PROVE  e.host \in DOMAIN hosts /\ hosts[e.host].active
    <3>1. slot[r].time \in Nat
      BY <2>3, HandlerSlot
    <3> QED
      BY <1>1, <1>2, <2>3, <3>1
  <2> QED
    BY <2>1, <2>2, <2>3, TableStep, Zenon
<1>3. ASSUME NEW s \in served' \ served
      PROVE  s[1] \in DOMAIN hosts /\ hosts[s[1]].active
  <2>1. \E r \in Requests : KeysVerify(r)
    <3>1. CASE Authorization \/ Programming \/ Tick \/ \E c \in 0..Len(codes) : PollRefused(c)
      <4>1. UNCHANGED served
        BY <3>1, Zenon DEF Authorization, RefuseAuthorization, GrantAuthorization, PollRefused,
           Programming, SetDeviceFlow, SetHostPolicy, SetKeys, AddHost, RevokeHost, Tick, history
      <4> QED
        BY <1>3, <4>1
    <3>2. ASSUME NEW r \in Requests, Handler(r), ~KeysVerify(r)
          PROVE  UNCHANGED served
      BY <3>2, Zenon DEF Handler, PollApproved, SignIDToken, StoreToken, TokenFails, KeysArrive,
         KeysStalled, EnrollArrive, EnrollHandle, history
    <3> QED
      BY <1>3, <3>1, <3>2 DEF Next
  <2>2. PICK r \in Requests : KeysVerify(r)
    BY <2>1
  <2> DEFINE a == slot[r].req.tok
             account == slot[r].req.account
  <2>3. slot[r].at = "verify"
    BY <2>2, Zenon DEF KeysVerify
  <2>4. slot[r].time \in Nat /\ a \in Assertions \cup {None}
    BY <2>3, HandlerSlot, TestProviderAssumption DEF KeysRequest
  <2>5. served' = served \cup {<<a.iss, account>>} /\ Verdict(a, slot[r].time) = 200
    BY <1>3, <2>2, Zenon DEF KeysVerify
  <2>6. a # None
    BY <2>5 DEF Verdict, Unverifiable
  <2>7. a.iss \in DOMAIN hosts /\ hosts[a.iss].active
    BY <2>4, <2>5, <2>6, Passes
  <2>8. s = <<a.iss, account>>
    BY <1>3, <2>5
  <2> QED
    BY <2>7, <2>8
<1> QED
  BY <1>2, <1>3

-----------------------------------------------------------------------------
(* The theorems *)

\* The invariant holds of a new provider.
LEMMA InitInv == Init => IInv
<1> SUFFICES ASSUME Init PROVE IInv
  OBVIOUS
<1>1. hosts \in Seq(Host)
  <2>1. \A q \in EnrollRequests : Registered(q) \in Host
    <3>1. TRUE \in BOOLEAN
      BY Zenon
    <3> QED
      BY <3>1, TestProviderAssumption DEF Registered, EnrollRequest, Host
  <2>2. <<>> \in Seq(Host) /\ \A h \in Host : <<h>> \in Seq(Host)
    OBVIOUS
  <2>3. hosts = <<>> \/ \E q \in EnrollRequests : hosts = <<Registered(q)>>
    BY Zenon DEF Init
  <2> QED
    BY <2>1, <2>2, <2>3, Zenon
<1>2. slot \in [Requests -> Slot] /\ \A r \in Requests : slot[r].at = "idle"
  BY SlotRecords DEF Init, Idle
<1>3. {requireHost, policyDeny, slowDown} \subseteq BOOLEAN
  BY Zenon DEF Init
<1>4. flow \in Flow /\ flow.code = 0 /\ flow.host = None
  BY DEF Init, Flow, Intents
<1>5. /\ now = 0 /\ keys = Accounts /\ keysOutcome = "KeysOK" /\ outcome = "Approved" /\ pending = 0
      /\ tokens = <<>> /\ sent = 0 /\ settings = 0 /\ codes = <<>>
      /\ seenJTI = {} /\ accepted = {} /\ prunedAt = 0 /\ again = {} /\ revoked = {} /\ served = {}
  BY Zenon DEF Init
<1>6. TypeOK
  BY <1>1, <1>2, <1>3, <1>4, <1>5, TestProviderAssumption DEF TypeOK
<1>7. TableOK /\ PollsOK /\ RevokedInactive
  BY <1>2, <1>5 DEF TableOK, PollsOK, RevokedInactive
<1>8. ReplayNeedsOvertaking
  BY <1>5 DEF ReplayNeedsOvertaking
<1> QED
  BY <1>6, <1>7, <1>8 DEF IInv

\* Every step keeps it.
LEMMA NextInv == IInv /\ [Next]_vars => IInv'
<1> SUFFICES ASSUME IInv, [Next]_vars PROVE IInv'
  OBVIOUS
<1>1. CASE Next
  BY <1>1, TypeStep, ReplayStep, PollsStep, RevokedStep DEF IInv
<1>2. CASE UNCHANGED vars
  <2> USE <1>2 DEF vars, programmed, assertionVars, flowVars, history, IInv
  <2>1. TypeOK'
    BY DEF TypeOK
  <2>2. TableOK' /\ RevokedInactive'
    BY DEF TableOK, Entry, RevokedInactive
  <2>3. PollsOK'
    BY DEF PollsOK
  <2>4. ReplayNeedsOvertaking'
    BY DEF ReplayNeedsOvertaking
  <2> QED
    BY <2>1, <2>2, <2>3, <2>4
<1> QED
  BY <1>1, <1>2

\* So it holds throughout a run of the provider.
LEMMA Invariant == Spec => []IInv
BY InitInv, NextInv, PTL DEF Spec

\* The types of the provider's state.
THEOREM TypeCorrect == Spec => []TypeOK
<1>1. IInv => TypeOK
  BY DEF IInv
<1> QED
  BY <1>1, Invariant, PTL

\* verifyHostAssertionLocked lets an assertion in once for requests that get the
\* lock in the order of their times: at the device endpoint always, and at the
\* authorized-keys endpoint until a request with a later time has overtaken.
THEOREM UsedOnceInOrder == Spec => []ReplayNeedsOvertaking
<1>1. IInv => ReplayNeedsOvertaking
  BY DEF IInv
<1> QED
  BY <1>1, Invariant, PTL

\* No step accepts an assertion of a revoked host or sends it lines.
THEOREM RevokedOut == Spec => RevokedStaysOut
<1> DEFINE Out == \A id \in revoked :
                     /\ \A e \in seenJTI' \ seenJTI : e.host # id
                     /\ \A s \in served' \ served : s[1] # id
<1>1. IInv /\ [Next]_vars => [Out]_<<seenJTI, served, revoked>>
  <2> SUFFICES ASSUME IInv, [Next]_vars PROVE [Out]_<<seenJTI, served, revoked>>
    OBVIOUS
  <2>1. CASE Next
    <3>1. Out
      BY <2>1, OnlyActive DEF IInv, RevokedInactive
    <3> QED
      BY <3>1
  <2>2. CASE UNCHANGED vars
    BY <2>2 DEF vars, assertionVars, history
  <2> QED
    BY <2>1, <2>2
<1> QED
  BY <1>1, Invariant, PTL DEF Spec, RevokedStaysOut
=============================================================================
