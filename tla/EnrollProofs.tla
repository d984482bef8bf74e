---------------------------- MODULE EnrollProofs ----------------------------
(***************************************************************************)
(* What holds of enrolment for any providers, command lines, accounts and  *)
(* logins, and any number of attempts.                                     *)
(***************************************************************************)
EXTENDS Enroll, SequenceTheorems, TLAPS

\* The steps from the key on, those before the request, and those after the
\* provider's answer.
Keyed == {"flow", "wait", "config", "purge", "remove", "record"}
Unsent == {"key", "keywrite", "flow"}
Accepted == {"config", "purge", "remove", "record", "ok"}

\* This machine is host h at base b.
IsHost(h, b) ==
    /\ h \in HostIds
    /\ h.base = b
    /\ h.n \in Hs(b)
    /\ hosts[b][h.n].key = keyFile

\* There is one key, and whoever has a key of this machine has that one.
OneKey ==
    /\ pc \in Keyed => key \in Keys /\ key = keyFile
    /\ pc = "keywrite" => keyFile = Partial
    /\ \A m \in wire : m.key = keyFile
    /\ \A b \in Bases : \A n \in Hs(b) :
          hosts[b][n].key \in Keys => hosts[b][n].key = keyFile

\* A run at work knows its command line, and until it writes the configuration
\* its issuer is the one of the command line or of the file.
MemoryOK ==
    /\ pc \in Working => opt \in Options /\ cfg # None /\ attempts \in Keys
    /\ pc \in Unsent \cup {"wait", "config"} =>
          cfg.issuer = IF opt.issuer # None THEN opt.issuer ELSE config.issuer

\* The request of a run that waits is the one it sent; others are older.
RequestsOK ==
    \A m \in wire :
        /\ m.run <= attempts
        /\ m.run = attempts => pc \notin Unsent
        /\ m.run = attempts /\ pc = "wait" =>
              m.issuer = cfg.issuer /\ m.base = EnrollBase /\ m.name = opt.name

\* A positive answer names this machine at the base the run talks to.
AnswerOK ==
    /\ pc \in Unsent => res = None
    /\ pc \in Accepted => res # None /\ res.status \in {200, 201}
    /\ res # None /\ res.status \in {200, 201} => res.host \in HostIds
    /\ pc \in {"wait", "config"} /\ res # None /\ res.status \in {200, 201} =>
          IsHost(res.host, EnrollBase) /\ HomeBase[cfg.issuer] = EnrollBase

\* A query under way names this machine, and signs with its key.
LoginOK(l) ==
    /\ lpc[l] \in {"key", "ask", "put", "get"} => lcfg[l] # None
    /\ lpc[l] \in {"key", "ask"} => keyFile \in Keys /\ IsHost(lcfg[l].host, lcfg[l].base)
    /\ lpc[l] = "ask" => lcfg[l].key = keyFile

LoginsOK == \A l \in Logins : LoginOK(l)

IInv ==
    /\ TypeOK /\ OneKey /\ MemoryOK /\ RequestsOK /\ AnswerOK /\ LoginsOK
    /\ ConfigDescribesEnrolment /\ OneHostPerProvider

-----------------------------------------------------------------------------
(* Bases and hosts *)

\* ResolveBase finds a base whatever is configured or advertised.
LEMMA BaseType ==
    ASSUME NEW a \in Bases \cup {None}, NEW i \in Issuers, NEW d \in Bases \cup {None}
    PROVE  ResolveBase(a, i, d) \in Bases
  BY EnrollAssumption DEF ResolveBase

\* The base of a run at work.
LEMMA EnrollBaseType ==
    ASSUME TypeOK, cfg # None
    PROVE  EnrollBase \in Bases /\ cfg.issuer \in Issuers
<1>1. cfg.issuer \in Issuers /\ cfg.base \in Bases \cup {None}
  BY DEF TypeOK, Target
<1>2. Advertised[cfg.issuer] \in Bases \cup {None}
  BY <1>1, EnrollAssumption
<1> QED
  BY <1>1, <1>2, BaseType DEF EnrollBase

\* The registered hosts of a base are numbered from 1.
LEMMA HostsType ==
    ASSUME TypeOK, NEW b \in Bases
    PROVE  /\ hosts[b] \in Seq(Host)
           /\ Len(hosts[b]) \in Nat
           /\ Hs(b) = 1..Len(hosts[b])
           /\ \A n \in Hs(b) : hosts[b][n] \in Host
<1>1. hosts[b] \in Seq(Host)
  BY DEF TypeOK
<1> QED
  BY <1>1, LenProperties, ElementOfSeq DEF Hs

\* A step keeps the registered hosts with their keys.
HostsKept ==
    \A b \in Bases : \A n \in Hs(b) :
        n \in DOMAIN hosts'[b] /\ hosts'[b][n].key = hosts[b][n].key

\* What Register does: host n has the key of the request, the others stay.
LEMMA RegisterHosts ==
    ASSUME TypeOK, NEW m \in Request, NEW n, NEW st,
           \/ st = 200 /\ n \in ByKey(m.base, m.key)
           \/ st = 201 /\ n = Len(hosts[m.base]) + 1,
           Register(m, n, st)
    PROVE  /\ hosts' \in [Bases -> Seq(Host)]
           /\ HostsKept
           /\ n \in Nat \ {0}
           /\ n \in DOMAIN hosts'[m.base]
           /\ hosts'[m.base][n].key = m.key
           /\ \A b \in Bases : \A i \in DOMAIN hosts'[b] :
                 i \in Hs(b) \/ (b = m.base /\ i = n)
<1> DEFINE h == [name |-> m.name, key |-> m.key, reg |-> regs + 1,
                 active |-> st = 201 \/ hosts[m.base][n].active]
           s == hosts[m.base]
           t == IF st = 201 THEN Append(s, h) ELSE [s EXCEPT ![n] = h]
<1>1. m.base \in Bases /\ m.name \in Names /\ m.key \in Keys
  BY DEF Request
<1>2. /\ s \in Seq(Host) /\ Len(s) \in Nat /\ Hs(m.base) = 1..Len(s)
      /\ \A i \in 1..Len(s) : s[i] \in Host
  BY <1>1, HostsType
<1>3. (st = 201 \/ hosts[m.base][n].active) \in BOOLEAN
  BY <1>2 DEF ByKey, Host
<1>4. h \in Host
  <2>1. regs + 1 \in Nat
    BY DEF TypeOK
  <2>2. m.key \in Keys \cup {ForeignKey}
    BY <1>1
  <2> QED
    BY <1>1, <1>3, <2>1, <2>2 DEF Host
<1>5. hosts' = [hosts EXCEPT ![m.base] = t]
  BY DEF Register
<1>6. hosts \in [Bases -> Seq(Host)]
  BY DEF TypeOK
<1>7. \A b \in Bases : b # m.base => hosts'[b] = hosts[b]
  BY <1>5, <1>6
<1>8. hosts'[m.base] = t
  BY <1>1, <1>5, <1>6
<1> HIDE DEF h, s, t
<1>9. CASE st = 200
  <2>1. n \in 1..Len(s)
    BY <1>2, <1>9 DEF ByKey
  <2>2. hosts'[m.base] = [s EXCEPT ![n] = h]
    BY <1>9, <1>8 DEF t
  <2>3. /\ hosts'[m.base] \in Seq(Host)
        /\ Len(hosts'[m.base]) = Len(s)
        /\ \A j \in 1..Len(s) : hosts'[m.base][j] = IF j = n THEN h ELSE s[j]
    BY <1>2, <1>4, <2>1, <2>2, ExceptSeq
  <2>4. s[n].key = m.key
    BY <1>9 DEF ByKey, s
  <2>5. DOMAIN hosts'[m.base] = 1..Len(s)
    BY <2>3, LenProperties
  <2>6. h.key = m.key
    BY DEF h
  <2>7. hosts' \in [Bases -> Seq(Host)]
    BY <1>5, <1>6, <1>8, <2>3
  <2>8. HostsKept
    <3>1. SUFFICES ASSUME NEW b \in Bases, NEW i \in Hs(b)
                   PROVE  i \in DOMAIN hosts'[b] /\ hosts'[b][i].key = hosts[b][i].key
      BY DEF HostsKept
    <3>2. CASE b # m.base
      BY <1>7, <3>2 DEF Hs
    <3>3. CASE b = m.base
      <4>1. i \in 1..Len(s) /\ hosts'[b][i] = IF i = n THEN h ELSE s[i]
        BY <1>2, <2>3, <3>3
      <4>2. hosts'[b][i].key = s[i].key
        BY <2>4, <2>6, <4>1
      <4> QED
        BY <2>5, <3>3, <4>1, <4>2 DEF s
    <3> QED
      BY <3>2, <3>3
  <2>9. \A b \in Bases : \A i \in DOMAIN hosts'[b] : i \in Hs(b) \/ (b = m.base /\ i = n)
    BY <1>2, <1>7, <2>5 DEF Hs
  <2> QED
    BY <1>2, <2>1, <2>3, <2>5, <2>6, <2>7, <2>8, <2>9
<1>10. CASE st = 201
  <2>1. n = Len(s) + 1
    BY <1>10 DEF s
  <2>2. hosts'[m.base] = Append(s, h)
    BY <1>10, <1>8 DEF t
  <2>3. /\ hosts'[m.base] \in Seq(Host)
        /\ Len(hosts'[m.base]) = Len(s) + 1
        /\ \A j \in 1..Len(s) : hosts'[m.base][j] = s[j]
        /\ hosts'[m.base][Len(s) + 1] = h
    BY <1>2, <1>4, <2>2, AppendProperties
  <2>5. DOMAIN hosts'[m.base] = 1..(Len(s) + 1)
    BY <2>3, LenProperties
  <2>6. h.key = m.key
    BY DEF h
  <2>7. hosts' \in [Bases -> Seq(Host)]
    BY <1>5, <1>6, <1>8, <2>3
  <2>8. HostsKept
    <3>1. SUFFICES ASSUME NEW b \in Bases, NEW i \in Hs(b)
                   PROVE  i \in DOMAIN hosts'[b] /\ hosts'[b][i].key = hosts[b][i].key
      BY DEF HostsKept
    <3>2. CASE b # m.base
      BY <1>7, <3>2 DEF Hs
    <3>3. CASE b = m.base
      <4>1. i \in 1..Len(s) /\ hosts'[b][i] = s[i]
        BY <1>2, <2>3, <3>3
      <4> QED
        BY <1>2, <2>5, <3>3, <4>1 DEF s
    <3> QED
      BY <3>2, <3>3
  <2>9. \A b \in Bases : \A i \in DOMAIN hosts'[b] : i \in Hs(b) \/ (b = m.base /\ i = n)
    BY <1>2, <1>7, <2>1, <2>5 DEF Hs
  <2> QED
    BY <1>2, <2>1, <2>3, <2>5, <2>6, <2>7, <2>8, <2>9
<1> QED
  BY <1>9, <1>10

\* handleEnroll refuses, updates the host it knows by the key, or adds one.
Refused(m) ==
    /\ \E st \in {401, 403, 409} : Respond(m, [status |-> st, host |-> None, reg |-> 0])
    /\ UNCHANGED <<hosts, regs>>

Stored(m, n, st) ==
    /\ HomeBase[m.issuer] = m.base
    /\ \/ st = 200 /\ n \in ByKey(m.base, m.key)
       \/ st = 201 /\ n = Len(hosts[m.base]) + 1 /\ ByKey(m.base, m.key) = {}
    /\ Register(m, n, st)

\* These are all the cases of handleEnroll.
LEMMA HandleCases ==
    ASSUME NEW m, HandleEnroll(m)
    PROVE  Refused(m) \/ \E n, st : Stored(m, n, st)
<1>1. CASE \E st \in {401, 403, 409} : Refuse(m, st)
  BY <1>1 DEF Refuse, Refused
<1>2. CASE HomeBase[m.issuer] = m.base /\ \E n \in ByKey(m.base, m.key) : Register(m, n, 200)
  BY <1>2 DEF Stored
<1>3. CASE /\ HomeBase[m.issuer] = m.base /\ ByKey(m.base, m.key) = {}
           /\ Register(m, Len(hosts[m.base]) + 1, 201)
  BY <1>3 DEF Stored
<1> QED
  BY <1>1, <1>2, <1>3 DEF HandleEnroll

\* A host revoked stays registered with its key.
LEMMA RevokeHosts ==
    ASSUME TypeOK, RevokeHost
    PROVE  /\ hosts' \in [Bases -> Seq(Host)]
           /\ HostsKept
           /\ \A b \in Bases : DOMAIN hosts'[b] = Hs(b)
<1>0. PICK b \in Bases : \E n \in Hs(b) : hosts' = [hosts EXCEPT ![b][n].active = FALSE]
  BY DEF RevokeHost
<1>1. PICK n \in Hs(b) : hosts' = [hosts EXCEPT ![b][n].active = FALSE]
  BY <1>0
<1> DEFINE h == [hosts[b][n] EXCEPT !.active = FALSE]
           t == [hosts[b] EXCEPT ![n] = h]
<1>2. /\ hosts[b] \in Seq(Host) /\ Len(hosts[b]) \in Nat /\ Hs(b) = 1..Len(hosts[b])
      /\ hosts[b][n] \in Host
  BY <1>1, HostsType
<1>3. h \in Host /\ h.key = hosts[b][n].key
  BY <1>2 DEF Host
<1>4. hosts' = [hosts EXCEPT ![b] = t]
  BY <1>1
<1>5. hosts \in [Bases -> Seq(Host)]
  BY DEF TypeOK
<1>6. hosts'[b] = t /\ \A c \in Bases : c # b => hosts'[c] = hosts[c]
  BY <1>4, <1>5
<1> HIDE DEF h
<1>7. /\ t \in Seq(Host) /\ Len(t) = Len(hosts[b])
      /\ \A j \in 1..Len(hosts[b]) : t[j] = IF j = n THEN h ELSE hosts[b][j]
  BY <1>1, <1>2, <1>3, ExceptSeq
<1> HIDE DEF t
<1>8. hosts' \in [Bases -> Seq(Host)]
  BY <1>4, <1>5, <1>7
<1>9. DOMAIN hosts'[b] = Hs(b)
  BY <1>2, <1>6, <1>7, LenProperties
<1>10. \A c \in Bases : DOMAIN hosts'[c] = Hs(c)
  BY <1>6, <1>9 DEF Hs
<1>11. HostsKept
  <2>1. SUFFICES ASSUME NEW c \in Bases, NEW i \in Hs(c)
                 PROVE  hosts'[c][i].key = hosts[c][i].key
    BY <1>10 DEF HostsKept
  <2>2. CASE c = b
    BY <1>2, <1>3, <1>6, <1>7, <2>2
  <2> QED
    BY <1>6, <2>2
<1> QED
  BY <1>8, <1>10, <1>11

-----------------------------------------------------------------------------
(* Every step keeps the types *)

\* An answer on its way to the run that asked.
LEMMA ResponseType ==
    ASSUME TypeOK, NEW m \in Request, NEW st \in {200, 201, 401, 403, 409},
           NEW h \in HostIds \cup {None}, NEW g \in Nat,
           Respond(m, [status |-> st, host |-> h, reg |-> g])
    PROVE  res' \in Response \cup {None}
  BY DEF Respond, Response, TypeOK

\* The provider keeps its hosts and the answer well-formed.
LEMMA HandleType ==
    ASSUME TypeOK, NEW m \in wire, HandleEnroll(m)
    PROVE  TypeOK'
<1>1. m \in Request
  BY DEF TypeOK
<1>2. /\ wire' \in SUBSET Request
      /\ UNCHANGED <<keyFile, config, dir, attempts, pc, opt, cfg, key, todo, warned, lpc, lcfg, lans>>
  BY DEF HandleEnroll, TypeOK, fileVars, loginVars
<1>3. CASE Refused(m)
  <2>1. res' \in Response \cup {None}
    BY <1>1, <1>3, ResponseType DEF Refused
  <2> QED
    BY <1>2, <1>3, <2>1 DEF TypeOK, Refused
<1>4. ASSUME NEW n, NEW st, Stored(m, n, st)
      PROVE  TypeOK'
  <2>1. hosts' \in [Bases -> Seq(Host)] /\ n \in Nat \ {0}
    BY <1>1, <1>4, RegisterHosts DEF Stored
  <2>2. [base |-> m.base, n |-> n] \in HostIds
    BY <1>1, <2>1 DEF HostIds, Request
  <2>3. regs' \in Nat /\ regs + 1 \in Nat
    BY <1>4 DEF Stored, Register, TypeOK
  <2>4. Respond(m, [status |-> st, host |-> [base |-> m.base, n |-> n], reg |-> regs + 1])
    BY <1>4 DEF Stored, Register
  <2>5. st \in {200, 201}
    BY <1>4 DEF Stored
  <2>6. res' \in Response \cup {None}
    BY <1>1, <2>2, <2>3, <2>4, <2>5, ResponseType
  <2> QED
    BY <1>2, <2>1, <2>3, <2>6 DEF TypeOK
<1> QED
  BY <1>3, <1>4, HandleCases

\* Each step in turn.
LEMMA TypeStep ==
    ASSUME IInv, Next
    PROVE  TypeOK'
<1> USE DEF fileVars, memVars, runVars, providerVars, loginVars
<1>1. ASSUME NEW o \in Options, Start(o)
      PROVE  TypeOK'
  <2>1. o.issuer \in Issuers \cup {None} /\ o.base \in Bases \cup {None}
    BY EnrollAssumption
  <2>2. cfg' \in Target
    BY <1>1, <2>1 DEF Start, applyOverrides, IInv, TypeOK, Config, Target
  <2>3. attempts' \in 0..MaxAttempts
    BY <1>1, EnrollAssumption DEF Start, IInv, TypeOK
  <2> QED
    BY <1>1, <2>2, <2>3 DEF Start, IInv, TypeOK, Steps, Working
<1>2. CASE Stop /\ UNCHANGED <<fileVars, providerVars, loginVars>>
  BY <1>2 DEF Stop, IInv, TypeOK, Steps
<1>3. CASE LoadIdentity
  BY <1>3 DEF LoadIdentity, Goto, IInv, TypeOK, Steps, Working
<1>4. CASE CreateIdentity
  BY <1>4 DEF CreateIdentity, Goto, IInv, TypeOK, Steps, Working
<1>5. CASE WriteIdentity
  BY <1>5 DEF WriteIdentity, Goto, IInv, TypeOK, MemoryOK, Steps, Working
<1>6. CASE WriteIdentityFails
  BY <1>6 DEF WriteIdentityFails, Stop, IInv, TypeOK, Steps
<1>7. CASE Authorize
  <2> DEFINE m == [issuer |-> cfg.issuer, base |-> EnrollBase,
                   key |-> key, name |-> opt.name, run |-> attempts]
  <2>1. key \in Keys /\ opt \in Options /\ cfg # None /\ attempts \in Keys
    BY <1>7 DEF Authorize, Goto, IInv, OneKey, MemoryOK, Keyed, Working
  <2>2. opt.name \in Names
    BY <2>1, EnrollAssumption
  <2>3. EnrollBase \in Bases /\ cfg.issuer \in Issuers
    BY <2>1, EnrollBaseType DEF IInv
  <2>4. m \in Request
    BY <2>1, <2>2, <2>3 DEF Request, Keys
  <2>5. wire' = wire \cup {m}
    BY <1>7 DEF Authorize
  <2> HIDE DEF m
  <2> QED
    BY <1>7, <2>4, <2>5 DEF Authorize, Goto, IInv, TypeOK, Steps, Working
<1>8. CASE ReceiveHostId
  BY <1>8 DEF ReceiveHostId, Goto, IInv, TypeOK, Steps, Working
<1>9. CASE SetConfig
  <2>1. res.host \in HostIds /\ opt \in Options /\ cfg # None
    BY <1>9 DEF SetConfig, Goto, IInv, AnswerOK, MemoryOK, Accepted, Working
  <2>2. EnrollBase \in Bases /\ cfg.issuer \in Issuers
    BY <2>1, EnrollBaseType DEF IInv
  <2>3. config' \in Config
    BY <1>9, <2>1, <2>2 DEF SetConfig, configUpdates, Config, IInv, TypeOK
  <2> QED
    BY <1>9, <2>3 DEF SetConfig, Goto, IInv, TypeOK, Steps, Working
<1>10. CASE PurgeList
  BY <1>10 DEF PurgeList, Goto, IInv, TypeOK, Steps, Working
<1>11. CASE PurgeRemove
  BY <1>11 DEF PurgeRemove, IInv, TypeOK, Steps, Working
<1>12. CASE PurgeDone
  BY <1>12 DEF PurgeDone, Goto, IInv, TypeOK, Steps, Working
<1>13. CASE PurgeFails
  BY <1>13 DEF PurgeFails, IInv, TypeOK, Steps, Working
<1>14. CASE WriteRecord
  <2>1. res.host \in HostIds /\ res # None
    BY <1>14 DEF WriteRecord, Goto, IInv, AnswerOK, Accepted
  <2>2. [host |-> res.host, reg |-> res.reg] \in Answer
    BY <2>1 DEF Answer, Response, IInv, TypeOK
  <2> QED
    BY <1>14, <2>2 DEF WriteRecord, Goto, IInv, TypeOK, Steps, Working
<1>15. CASE RemovePartialKey
  BY <1>15 DEF RemovePartialKey, IInv, TypeOK
<1>16. ASSUME NEW m \in wire, HandleEnroll(m)
       PROVE  TypeOK'
  BY <1>16, HandleType DEF IInv
<1>17. CASE RevokeHost
  BY <1>17, RevokeHosts DEF RevokeHost, IInv, TypeOK
<1>18. ASSUME NEW l \in Logins, NEW a \in Accounts, LoginStart(l, a)
       PROVE  TypeOK'
  <2>1. ResolveBase(config.base, config.issuer, None) \in Bases
    BY BaseType DEF IInv, TypeOK, Config
  <2>2. config.host # None =>
           [account |-> a, key |-> None, host |-> config.host,
            base |-> ResolveBase(config.base, config.issuer, None)] \in Loaded
    BY <2>1 DEF Loaded, IInv, TypeOK, Config
  <2> QED
    BY <1>18, <2>2 DEF LoginStart, IInv, TypeOK
<1>19. ASSUME NEW l \in Logins, LoginKey(l)
       PROVE  TypeOK'
  <2>1. lcfg[l] \in Loaded
    BY <1>19 DEF LoginKey, IInv, TypeOK, LoginsOK, LoginOK
  <2>2. keyFile \in Keys => [lcfg[l] EXCEPT !.key = keyFile] \in Loaded
    BY <2>1 DEF Loaded
  <2> QED
    BY <1>19, <2>2 DEF LoginKey, IInv, TypeOK
<1>20. ASSUME NEW l \in Logins, LoginAnswered(l)
       PROVE  TypeOK'
  <2>1. lcfg[l] \in Loaded
    BY <1>20 DEF LoginAnswered, IInv, TypeOK, LoginsOK, LoginOK
  <2>2. lcfg[l].host \in HostIds /\ lcfg[l].base \in Bases
    BY <2>1 DEF Loaded
  <2>3. Verified(lcfg[l]) =>
           [host |-> lcfg[l].host, reg |-> hosts[lcfg[l].host.base][lcfg[l].host.n].reg] \in Answer
    BY <2>2, HostsType DEF Verified, Answer, Host, IInv
  <2> QED
    BY <1>20, <2>3 DEF LoginAnswered, IInv, TypeOK
<1>21. ASSUME NEW l \in Logins, LoginUnanswered(l)
       PROVE  TypeOK'
  BY <1>21 DEF LoginUnanswered, IInv, TypeOK
<1>22. ASSUME NEW l \in Logins, LoginPut(l)
       PROVE  TypeOK'
  <2>1. lcfg[l] \in Loaded
    BY <1>22 DEF LoginPut, IInv, TypeOK, LoginsOK, LoginOK
  <2>2. lcfg[l].account \in Accounts
    BY <2>1 DEF Loaded
  <2> QED
    BY <1>22, <2>2 DEF LoginPut, IInv, TypeOK
<1>23. ASSUME NEW l \in Logins, LoginGet(l)
       PROVE  TypeOK'
  <2>1. lcfg[l] \in Loaded
    BY <1>23 DEF LoginGet, IInv, TypeOK, LoginsOK, LoginOK
  <2>2. lcfg[l].account \in Accounts
    BY <2>1 DEF Loaded
  <2> QED
    BY <1>23, <2>2 DEF LoginGet, IInv, TypeOK
<1>24. CASE IdentityUnusable \/ FlowFails \/ NoAnswer \/ ReceiveRefusal \/ SetConfigFails \/ Crash
  BY <1>2, <1>24 DEF IdentityUnusable, FlowFails, NoAnswer, ReceiveRefusal, SetConfigFails, Crash
<1> QED
  BY <1>1, <1>3, <1>4, <1>5, <1>6, <1>7, <1>8, <1>9, <1>10, <1>11, <1>12, <1>13, <1>14,
     <1>15, <1>16, <1>17, <1>18, <1>19, <1>20, <1>21, <1>22, <1>23, <1>24
     DEF Next, Run, Provider, Login

-----------------------------------------------------------------------------
(* What a step keeps *)

\* A login changes nothing but the cache and its own state.
LEMMA LoginFrame ==
    ASSUME NEW l \in Logins, Login(l)
    PROVE  UNCHANGED <<keyFile, config, runVars, providerVars>>
  BY DEF Login, LoginStart, LoginKey, LoginAnswered, LoginUnanswered, LoginPut, LoginGet,
         fileVars, loginVars

\* A step of enroll changes nothing at the provider and in the logins.
LEMMA RunFrame ==
    ASSUME Run
    PROVE  UNCHANGED <<hosts, regs, loginVars>>
  BY DEF Run, Start, Stop, Goto, LoadIdentity, IdentityUnusable, CreateIdentity, WriteIdentity,
         WriteIdentityFails, FlowFails, Authorize, NoAnswer, ReceiveRefusal, ReceiveHostId,
         SetConfig, SetConfigFails, PurgeList, PurgeRemove, PurgeDone, PurgeFails, WriteRecord,
         Crash, providerVars, loginVars

\* No step replaces or removes a key that was written.
LEMMA KeyFileStep ==
    ASSUME IInv, Next, keyFile \in Keys
    PROVE  keyFile' = keyFile
<1> USE DEF fileVars, memVars, runVars, providerVars, loginVars
<1>1. keyFile # None /\ keyFile # Partial
  BY EnrollAssumption
<1>2. pc # "keywrite"
  BY <1>1 DEF IInv, OneKey
<1>3. CASE Run
  BY <1>1, <1>2, <1>3
     DEF Run, Start, Stop, Goto, LoadIdentity, IdentityUnusable, CreateIdentity, WriteIdentity,
         WriteIdentityFails, FlowFails, Authorize, NoAnswer, ReceiveRefusal, ReceiveHostId,
         SetConfig, SetConfigFails, PurgeList, PurgeRemove, PurgeDone, PurgeFails, WriteRecord, Crash
<1>4. CASE RemovePartialKey
  BY <1>1, <1>4 DEF RemovePartialKey
<1>5. CASE Provider
  BY <1>5 DEF Provider, HandleEnroll, RevokeHost
<1>6. ASSUME NEW l \in Logins, Login(l)
      PROVE  keyFile' = keyFile
  BY <1>6, LoginFrame
<1> QED
  BY <1>3, <1>4, <1>5, <1>6 DEF Next

\* Only a registration adds a host, and no step changes the key of one.
LEMMA HostsStep ==
    ASSUME IInv, Next
    PROVE  /\ HostsKept
           /\ \/ \E m \in wire : \E n, st : HandleEnroll(m) /\ Stored(m, n, st)
              \/ \A b \in Bases : DOMAIN hosts'[b] = Hs(b)
<1> USE DEF fileVars, memVars, runVars, providerVars, loginVars
<1>1. CASE hosts' = hosts
  BY <1>1 DEF HostsKept, Hs
<1>2. CASE RevokeHost
  BY <1>2, RevokeHosts DEF IInv
<1>3. ASSUME NEW m \in wire, HandleEnroll(m)
      PROVE  \/ hosts' = hosts
             \/ HostsKept /\ \E n, st : Stored(m, n, st)
  <2>1. CASE Refused(m)
    BY <2>1 DEF Refused
  <2>2. CASE \E n, st : Stored(m, n, st)
    <3>1. m \in Request
      BY DEF IInv, TypeOK
    <3> QED
      BY <2>2, <3>1, RegisterHosts DEF Stored, IInv
  <2> QED
    BY <1>3, <2>1, <2>2, HandleCases
<1>4. CASE Run
  BY <1>1, <1>4, RunFrame
<1>5. CASE RemovePartialKey
  BY <1>1, <1>5 DEF RemovePartialKey
<1>6. ASSUME NEW l \in Logins, Login(l)
      PROVE  hosts' = hosts
  BY <1>6, LoginFrame
<1> QED
  BY <1>1, <1>2, <1>3, <1>4, <1>5, <1>6 DEF Next, Provider

\* Who is a host of this machine stays one.
LEMMA IsHostKept ==
    ASSUME IInv, Next, keyFile \in Keys, NEW b \in Bases, NEW h, IsHost(h, b)
    PROVE  h.n \in DOMAIN hosts'[b] /\ hosts'[b][h.n].key = keyFile'
  BY KeyFileStep, HostsStep DEF HostsKept, IsHost

-----------------------------------------------------------------------------
(* Every step keeps the invariant *)

\* A registration is for the key on disk, and a run works with that key.
LEMMA OneKeyStep ==
    ASSUME IInv, Next
    PROVE  OneKey'
<1> USE DEF fileVars, memVars, runVars, providerVars, loginVars
<1>1. wire # {} => keyFile \in Keys
  BY DEF IInv, TypeOK, OneKey, Request
<1>2. \A b \in Bases : \A n \in DOMAIN hosts'[b] :
         hosts'[b][n].key \in Keys => hosts'[b][n].key = keyFile'
  <2>1. SUFFICES ASSUME NEW b \in Bases, NEW n \in DOMAIN hosts'[b], hosts'[b][n].key \in Keys
                 PROVE  hosts'[b][n].key = keyFile'
    OBVIOUS
  <2>2. CASE n \in Hs(b)
    <3>1. hosts'[b][n].key = hosts[b][n].key
      BY <2>2, HostsStep DEF HostsKept
    <3>2. hosts[b][n].key = keyFile
      BY <2>1, <2>2, <3>1 DEF IInv, OneKey
    <3> QED
      BY <2>1, <3>1, <3>2, KeyFileStep
  <2>3. CASE n \notin Hs(b)
    <3>1. PICK m \in wire : \E i, st : Stored(m, i, st)
      BY <2>3, HostsStep
    <3>2. PICK i, st : Stored(m, i, st)
      BY <3>1
    <3>3. m \in Request
      BY DEF IInv, TypeOK
    <3>4. hosts'[b][n].key = m.key
      BY <2>3, <3>2, <3>3, RegisterHosts DEF Stored, IInv
    <3> QED
      BY <1>1, <3>4, KeyFileStep DEF IInv, OneKey
  <2> QED
    BY <2>2, <2>3
<1>3. /\ pc' \in Keyed => key' \in Keys /\ key' = keyFile'
      /\ pc' = "keywrite" => keyFile' = Partial
      /\ wire' \subseteq wire \/ (pc = "flow" /\ \A m \in wire' \ wire : m.key = key)
  <2>1. CASE Run
    BY <2>1
       DEF Run, Start, Stop, Goto, LoadIdentity, IdentityUnusable, CreateIdentity, WriteIdentity,
           WriteIdentityFails, FlowFails, Authorize, NoAnswer, ReceiveRefusal, ReceiveHostId,
           SetConfig, SetConfigFails, PurgeList, PurgeRemove, PurgeDone, PurgeFails, WriteRecord, Crash,
           IInv, OneKey, MemoryOK, TypeOK, Keyed, Working
  <2>2. CASE RemovePartialKey
    BY <2>2, EnrollAssumption DEF RemovePartialKey, IInv, OneKey, Keyed, Working
  <2>3. CASE Provider
    BY <2>3 DEF Provider, HandleEnroll, RevokeHost, IInv, OneKey
  <2>4. ASSUME NEW l \in Logins, Login(l)
        PROVE  UNCHANGED <<pc, key, keyFile, wire>>
    BY <2>4, LoginFrame
  <2> QED
    BY <2>1, <2>2, <2>3, <2>4 DEF Next, IInv, OneKey
<1>4. \A m \in wire' : m.key = keyFile'
  BY <1>1, <1>3, KeyFileStep DEF IInv, OneKey, Keyed
<1> QED
  BY <1>2, <1>3, <1>4 DEF OneKey, Hs

\* A host is added for a key only where no host has it.
LEMMA OneHostStep ==
    ASSUME IInv, Next
    PROVE  OneHostPerProvider'
<1>1. SUFFICES ASSUME NEW b \in Bases, NEW i \in DOMAIN hosts'[b], NEW j \in DOMAIN hosts'[b],
                      hosts'[b][i].key \in Keys, hosts'[b][j].key \in Keys
               PROVE  i = j
  BY DEF OneHostPerProvider, Hs
<1>2. \A n \in Hs(b) : hosts'[b][n].key = hosts[b][n].key
  BY HostsStep DEF HostsKept
<1>3. CASE i \in Hs(b) /\ j \in Hs(b)
  BY <1>1, <1>2, <1>3 DEF IInv, OneHostPerProvider
<1>4. CASE i \notin Hs(b) \/ j \notin Hs(b)
  <2>1. PICK m \in wire : \E n, st : Stored(m, n, st)
    BY <1>4, HostsStep
  <2>2. PICK n, st : Stored(m, n, st)
    BY <2>1
  <2>3. m \in Request
    BY DEF IInv, TypeOK
  <2>4. /\ b = m.base
        /\ i \in Hs(b) \/ i = n
        /\ j \in Hs(b) \/ j = n
    BY <1>4, <2>2, <2>3, RegisterHosts DEF Stored, IInv
  <2>5. n \notin Hs(b)
    BY <1>4, <2>4
  <2>6. ByKey(b, m.key) = {}
    BY <2>2, <2>4, <2>5 DEF Stored, ByKey
  <2>7. \A x \in Hs(b) : hosts[b][x].key \notin Keys
    BY <2>6 DEF ByKey, IInv, OneKey
  <2> QED
    BY <1>1, <1>2, <2>4, <2>7
<1> QED
  BY <1>3, <1>4

\* A run keeps its command line and its configuration until it ends.
LEMMA MemoryStep ==
    ASSUME IInv, Next
    PROVE  MemoryOK'
<1> USE DEF fileVars, memVars, runVars, providerVars, loginVars
<1>1. ASSUME NEW o \in Options, Start(o)
      PROVE  MemoryOK'
  <2>1. attempts' \in Keys
    BY <1>1, EnrollAssumption DEF Start, IInv, TypeOK, Keys
  <2>2. o.issuer \in Issuers \cup {None} /\ o.base \in Bases \cup {None}
    BY EnrollAssumption
  <2>3. applyOverrides(o) \in Target
    BY <2>2 DEF applyOverrides, IInv, TypeOK, Config, Target
  <2>4. opt' \in Options /\ cfg' # None
    BY <1>1, <2>3, EnrollAssumption DEF Start
  <2>5. cfg'.issuer = IF opt'.issuer # None THEN opt'.issuer ELSE config'.issuer
    BY <1>1 DEF Start, applyOverrides
  <2> QED
    BY <2>1, <2>4, <2>5 DEF MemoryOK
<1>2. CASE Run /\ ~ \E o \in Options : Start(o)
  BY <1>2
     DEF Run, Stop, Goto, LoadIdentity, IdentityUnusable, CreateIdentity, WriteIdentity,
         WriteIdentityFails, FlowFails, Authorize, NoAnswer, ReceiveRefusal, ReceiveHostId,
         SetConfig, SetConfigFails, PurgeList, PurgeRemove, PurgeDone, PurgeFails, WriteRecord, Crash,
         IInv, MemoryOK, Unsent, Working
<1>3. CASE RemovePartialKey
  BY <1>3 DEF RemovePartialKey, IInv, MemoryOK
<1>4. CASE Provider
  BY <1>4 DEF Provider, HandleEnroll, RevokeHost, IInv, MemoryOK
<1>5. ASSUME NEW l \in Logins, Login(l)
      PROVE  MemoryOK'
  BY <1>5, LoginFrame DEF IInv, MemoryOK
<1> QED
  BY <1>1, <1>2, <1>3, <1>4, <1>5 DEF Next

\* A run sends one request, with what it holds in memory.
LEMMA RequestsStep ==
    ASSUME IInv, Next
    PROVE  RequestsOK'
<1> USE DEF fileVars, memVars, runVars, providerVars, loginVars
<1>1. attempts \in Nat /\ \A m \in wire : m.run \in Nat
  BY EnrollAssumption DEF IInv, TypeOK, Request
<1>2. CASE Authorize
  BY <1>1, <1>2 DEF Authorize, Goto, IInv, RequestsOK, Unsent, EnrollBase
<1>3. CASE Run /\ ~ Authorize
  <2>1. wire' = wire
    BY <1>3
       DEF Run, Start, Stop, Goto, LoadIdentity, IdentityUnusable, CreateIdentity, WriteIdentity,
           WriteIdentityFails, FlowFails, Authorize, NoAnswer, ReceiveRefusal, ReceiveHostId,
           SetConfig, SetConfigFails, PurgeList, PurgeRemove, PurgeDone, PurgeFails, WriteRecord, Crash
  <2>2. CASE \E o \in Options : Start(o)
    BY <1>1, <2>1, <2>2 DEF Start, IInv, RequestsOK
  <2>3. CASE ~ \E o \in Options : Start(o)
    <3>1. /\ attempts' = attempts
          /\ pc' \in Unsent => pc \in Unsent
          /\ pc' = "wait" => FALSE
      BY <1>3, <2>3
      DEF Run, Stop, Goto, LoadIdentity, IdentityUnusable, CreateIdentity, WriteIdentity,
          WriteIdentityFails, FlowFails, Authorize, NoAnswer, ReceiveRefusal, ReceiveHostId,
          SetConfig, SetConfigFails, PurgeList, PurgeRemove, PurgeDone, PurgeFails, WriteRecord, Crash,
              Unsent
    <3> QED
      BY <2>1, <3>1 DEF IInv, RequestsOK
  <2> QED
    BY <2>2, <2>3
<1>4. CASE RemovePartialKey
  BY <1>4 DEF RemovePartialKey, IInv, RequestsOK, EnrollBase
<1>5. CASE Provider
  BY <1>5 DEF Provider, HandleEnroll, RevokeHost, IInv, RequestsOK, EnrollBase
<1>6. ASSUME NEW l \in Logins, Login(l)
      PROVE  RequestsOK'
  BY <1>6, LoginFrame DEF IInv, RequestsOK, EnrollBase
<1> QED
  BY <1>2, <1>3, <1>4, <1>5, <1>6 DEF Next

\* Only the run that waits for this answer gets it.
LEMMA AnswerDelivered ==
    ASSUME NEW m, HandleEnroll(m), res' # res
    PROVE  pc = "wait" /\ m.run = attempts
<1>1. CASE Refused(m)
  BY <1>1 DEF Refused, Respond
<1>2. ASSUME NEW n, NEW st, Stored(m, n, st)
      PROVE  pc = "wait" /\ m.run = attempts
  <2>1. Respond(m, [status |-> st, host |-> [base |-> m.base, n |-> n], reg |-> regs + 1])
    BY <1>2 DEF Stored, Register
  <2> QED
    BY <2>1 DEF Respond
<1> QED
  BY <1>1, <1>2, HandleCases

\* The provider answers the run that waits, with the host that has its key.
LEMMA HandleAnswer ==
    ASSUME IInv, Next, NEW m \in wire, HandleEnroll(m)
    PROVE  AnswerOK'
<1>1. m \in Request /\ m.key = keyFile /\ keyFile \in Keys
  BY DEF IInv, TypeOK, Request, OneKey
<1>2. UNCHANGED <<keyFile, attempts, pc, cfg>>
  BY DEF HandleEnroll, fileVars
<1>3. EnrollBase' = EnrollBase
  BY <1>2 DEF EnrollBase
<1>4. CASE res' = res
  <2>1. ASSUME pc \in {"wait", "config"}, res # None, res.status \in {200, 201}
        PROVE  IsHost(res.host, EnrollBase)' /\ HomeBase[cfg.issuer] = EnrollBase
    <3>1. IsHost(res.host, EnrollBase) /\ HomeBase[cfg.issuer] = EnrollBase
      BY <2>1 DEF IInv, AnswerOK
    <3>2. EnrollBase \in Bases
      BY <2>1, EnrollBaseType DEF IInv, MemoryOK, Working
    <3>3. res.host.n \in DOMAIN hosts'[EnrollBase] /\ hosts'[EnrollBase][res.host.n].key = keyFile'
      BY <1>1, <3>1, <3>2, IsHostKept
    <3> QED
      BY <1>3, <1>4, <3>1, <3>3 DEF IsHost, Hs
  <2> QED
    BY <1>2, <1>3, <1>4, <2>1 DEF IInv, AnswerOK
<1>5. CASE res' # res
  <2>1. pc = "wait" /\ m.run = attempts
    BY <1>5, AnswerDelivered
  <2>2. m.issuer = cfg.issuer /\ m.base = EnrollBase
    BY <2>1 DEF IInv, RequestsOK
  <2>3. CASE Refused(m)
    <3>1. res'.status \notin {200, 201}
      BY <1>5, <2>3 DEF Refused, Respond
    <3> QED
      BY <1>2, <2>1, <3>1 DEF AnswerOK, Unsent, Accepted
  <2>4. ASSUME NEW n, NEW st, Stored(m, n, st)
        PROVE  AnswerOK'
    <3>1. /\ n \in Nat \ {0}
          /\ n \in DOMAIN hosts'[m.base]
          /\ hosts'[m.base][n].key = m.key
      BY <1>1, <2>4, RegisterHosts DEF Stored, IInv
    <3>2. res'.host = [base |-> m.base, n |-> n] /\ HomeBase[m.issuer] = m.base
      BY <2>1, <2>4 DEF Stored, Register, Respond
    <3>3. res'.host \in HostIds
      BY <1>1, <3>1, <3>2 DEF HostIds, Request
    <3>4. IsHost(res.host, EnrollBase)'
      BY <1>1, <1>2, <1>3, <2>2, <3>1, <3>2, <3>3 DEF IsHost, Hs
    <3>5. (HomeBase[cfg.issuer] = EnrollBase)'
      BY <1>2, <1>3, <2>2, <3>2
    <3> QED
      BY <1>2, <2>1, <3>3, <3>4, <3>5 DEF AnswerOK, Unsent, Accepted
  <2> QED
    BY <2>3, <2>4, HandleCases
<1> QED
  BY <1>4, <1>5

\* A run keeps the answer it was given, and the host it names stays its host.
LEMMA AnswerStep ==
    ASSUME IInv, Next
    PROVE  AnswerOK'
<1> USE DEF fileVars, memVars, runVars, providerVars, loginVars
<1>1. CASE UNCHANGED <<keyFile, hosts, pc, cfg, res>>
  <2>1. EnrollBase' = EnrollBase
    BY <1>1 DEF EnrollBase
  <2> QED
    BY <1>1, <2>1 DEF IInv, AnswerOK, IsHost, Hs
<1>2. ASSUME NEW o \in Options, Start(o)
      PROVE  AnswerOK'
  BY <1>2 DEF Start, AnswerOK, Accepted
<1>3. CASE Stop
  BY <1>3 DEF Stop, AnswerOK, Unsent, Accepted
<1>4. CASE LoadIdentity \/ CreateIdentity \/ WriteIdentity \/ Authorize
  <2>1. res' = None
    BY <1>4 DEF LoadIdentity, CreateIdentity, WriteIdentity, Authorize, Goto, IInv, AnswerOK, Unsent
  <2>2. pc' \notin Accepted
    BY <1>4 DEF LoadIdentity, CreateIdentity, WriteIdentity, Authorize, Goto, Accepted
  <2> QED
    BY <2>1, <2>2 DEF AnswerOK
<1>5. CASE ReceiveHostId
  <2>1. EnrollBase' = EnrollBase
    BY <1>5 DEF ReceiveHostId, EnrollBase
  <2> QED
    BY <1>5, <2>1 DEF ReceiveHostId, Goto, IInv, AnswerOK, IsHost, Hs, Unsent, Accepted
<1>6. CASE SetConfig \/ PurgeList \/ PurgeRemove \/ PurgeDone \/ PurgeFails \/ WriteRecord
  <2>1. /\ pc \in Accepted /\ res' = res
        /\ pc' \in {"purge", "remove", "record", "ok"}
    BY <1>6 DEF SetConfig, PurgeList, PurgeRemove, PurgeDone, PurgeFails, WriteRecord, Goto, Accepted
  <2> QED
    BY <2>1 DEF IInv, AnswerOK, Unsent
<1>7. CASE RemovePartialKey
  <2>1. ~ (keyFile \in Keys) /\ UNCHANGED <<hosts, pc, cfg, res>> /\ pc \notin Working
    BY <1>7, EnrollAssumption DEF RemovePartialKey
  <2> QED
    BY <2>1 DEF IInv, AnswerOK, Working, Unsent
<1>8. CASE RevokeHost
  <2>1. UNCHANGED <<keyFile, pc, cfg, res>> /\ EnrollBase' = EnrollBase
    BY <1>8 DEF RevokeHost, EnrollBase
  <2>2. ASSUME pc \in {"wait", "config"}, res # None, res.status \in {200, 201}
        PROVE  IsHost(res.host, EnrollBase)' /\ HomeBase[cfg.issuer] = EnrollBase
    <3>1. IsHost(res.host, EnrollBase) /\ HomeBase[cfg.issuer] = EnrollBase
      BY <2>2 DEF IInv, AnswerOK
    <3>2. EnrollBase \in Bases /\ keyFile \in Keys
      BY <2>2, EnrollBaseType DEF IInv, MemoryOK, Working, OneKey, Keyed
    <3>3. res.host.n \in DOMAIN hosts'[EnrollBase] /\ hosts'[EnrollBase][res.host.n].key = keyFile'
      BY <3>1, <3>2, IsHostKept
    <3> QED
      BY <2>1, <3>1, <3>3 DEF IsHost, Hs
  <2> QED
    BY <2>1, <2>2 DEF IInv, AnswerOK
<1>9. ASSUME NEW l \in Logins, Login(l)
      PROVE  UNCHANGED <<keyFile, hosts, pc, cfg, res>>
  BY <1>9, LoginFrame
<1>10. CASE \/ IdentityUnusable \/ WriteIdentityFails \/ FlowFails \/ NoAnswer
            \/ ReceiveRefusal \/ SetConfigFails \/ Crash
  BY <1>3, <1>10 DEF IdentityUnusable, WriteIdentityFails, FlowFails, NoAnswer,
                     ReceiveRefusal, SetConfigFails, Crash
<1> QED
  BY <1>1, <1>2, <1>4, <1>5, <1>6, <1>7, <1>8, <1>9, <1>10, HandleAnswer DEF Next, Run, Provider

\* A query that was under way stays one that the provider can verify.
LEMMA LoginKept ==
    ASSUME IInv, Next, NEW l \in Logins, lpc[l] \in {"key", "ask"}
    PROVE  /\ keyFile' = keyFile /\ keyFile \in Keys
           /\ lcfg[l].host \in HostIds
           /\ lcfg[l].host.base = lcfg[l].base
           /\ lcfg[l].host.n \in DOMAIN hosts'[lcfg[l].base]
           /\ hosts'[lcfg[l].base][lcfg[l].host.n].key = keyFile'
<1>1. keyFile \in Keys /\ lcfg[l] # None /\ IsHost(lcfg[l].host, lcfg[l].base)
  BY DEF IInv, LoginsOK, LoginOK
<1>2. lcfg[l].base \in Bases
  BY <1>1 DEF IInv, TypeOK, Loaded
<1> QED
  BY <1>1, <1>2, KeyFileStep, IsHostKept DEF IsHost

\* A login that does nothing stays as it should be.
LEMMA LoginWaits ==
    ASSUME IInv, Next, NEW l \in Logins, lpc'[l] = lpc[l], lcfg'[l] = lcfg[l]
    PROVE  LoginOK(l)'
<1>1. LoginOK(l)
  BY DEF IInv, LoginsOK
<1>2. CASE lpc[l] \in {"key", "ask"}
  <2>1. keyFile' \in Keys /\ keyFile' = keyFile /\ IsHost(lcfg[l].host, lcfg[l].base)'
    BY <1>2, LoginKept DEF IsHost, Hs
  <2> QED
    BY <1>1, <2>1 DEF LoginOK
<1>3. CASE lpc[l] \notin {"key", "ask"}
  BY <1>1, <1>3 DEF LoginOK
<1> QED
  BY <1>2, <1>3

\* A login that starts finds the enrolment that the configuration describes.
LEMMA LoginsStep ==
    ASSUME IInv, Next
    PROVE  LoginsOK'
<1> USE DEF fileVars, memVars, runVars, providerVars, loginVars
<1>1. CASE UNCHANGED <<lpc, lcfg>>
  BY <1>1, LoginWaits DEF LoginsOK
<1>2. ASSUME NEW l \in Logins, NEW a \in Accounts, LoginStart(l, a)
      PROVE  LoginsOK'
  <2> DEFINE c == [account |-> a, key |-> None, host |-> config.host,
                   base |-> ResolveBase(config.base, config.issuer, None)]
  <2>1. /\ lpc \in [Logins -> {"idle", "key", "ask", "put", "get", "done"}]
        /\ lcfg \in [Logins -> Loaded \cup {None}]
    BY DEF IInv, TypeOK
  <2>2. \A k \in Logins \ {l} : lpc'[k] = lpc[k] /\ lcfg'[k] = lcfg[k]
    BY <1>2, <2>1 DEF LoginStart
  <2>3. CASE config.host = None
    <3>1. lpc'[l] = "done" /\ lcfg' = lcfg
      BY <1>2, <2>1, <2>3 DEF LoginStart
    <3> QED
      BY <2>2, <3>1, LoginWaits DEF LoginsOK, LoginOK
  <2>4. CASE config.host # None
    <3>1. lpc'[l] = "key" /\ lcfg'[l] = c
      BY <1>2, <2>1, <2>4 DEF LoginStart
    <3>2. /\ keyFile \in Keys
          /\ config.host \in HostIds
          /\ config.host.base = config.base
          /\ config.host.n \in Hs(config.base)
          /\ hosts[config.base][config.host.n].key = keyFile
      BY <2>4 DEF IInv, ConfigDescribesEnrolment, Verified, TypeOK, Config
    <3>3. config.base \in Bases /\ c.base = config.base
      BY <3>2, EnrollAssumption DEF ResolveBase, HostIds
    <3>4. c.base = config.base /\ c.host = config.host
      BY <3>3
    <3>5. c \in Loaded
      BY <3>2, <3>3, <3>4 DEF Loaded
    <3> HIDE DEF c
    <3>6. c # None
      BY <3>5, EnrollAssumption
    <3>7. UNCHANGED <<keyFile, hosts>>
      BY <1>2 DEF LoginStart
    <3>8. LoginOK(l)'
      BY <3>1, <3>2, <3>4, <3>6, <3>7 DEF LoginOK, IsHost, Hs
    <3> QED
      BY <2>2, <3>8, LoginWaits DEF LoginsOK
  <2> QED
    BY <2>3, <2>4
<1>3. ASSUME NEW l \in Logins, LoginKey(l)
      PROVE  LoginsOK'
  <2>1. /\ lpc \in [Logins -> {"idle", "key", "ask", "put", "get", "done"}]
        /\ lcfg \in [Logins -> Loaded \cup {None}]
    BY DEF IInv, TypeOK
  <2>2. lpc[l] = "key" /\ keyFile \in Keys /\ lcfg[l] \in Loaded
    BY <1>3, <2>1 DEF LoginKey, IInv, LoginsOK, LoginOK
  <2>3. /\ lpc' = [lpc EXCEPT ![l] = "ask"]
        /\ lcfg' = [lcfg EXCEPT ![l] = [lcfg[l] EXCEPT !.key = keyFile]]
    BY <1>3, <2>2 DEF LoginKey
  <2>4. \A k \in Logins \ {l} : lpc'[k] = lpc[k] /\ lcfg'[k] = lcfg[k]
    BY <2>1, <2>3
  <2>5. lpc'[l] = "ask" /\ lcfg'[l] = [lcfg[l] EXCEPT !.key = keyFile]
    BY <2>1, <2>3
  <2>6. /\ lcfg'[l] \in Loaded
        /\ lcfg'[l].host = lcfg[l].host /\ lcfg'[l].base = lcfg[l].base
        /\ lcfg'[l].key = keyFile
    BY <2>2, <2>5 DEF Loaded
  <2>7. lcfg'[l] # None
    BY <2>6, EnrollAssumption
  <2>8. keyFile' = keyFile /\ IsHost(lcfg[l].host, lcfg[l].base)'
    BY <2>2, <2>6, LoginKept DEF IsHost, Hs
  <2>9. LoginOK(l)'
    BY <2>2, <2>5, <2>6, <2>7, <2>8 DEF LoginOK
  <2> QED
    BY <2>4, <2>9, LoginWaits DEF LoginsOK
<1>4. ASSUME NEW l \in Logins,
             LoginAnswered(l) \/ LoginUnanswered(l) \/ LoginPut(l) \/ LoginGet(l)
      PROVE  LoginsOK'
  <2>1. /\ lpc \in [Logins -> {"idle", "key", "ask", "put", "get", "done"}]
        /\ lpc[l] \in {"ask", "put", "get"}
        /\ lcfg' = lcfg
    BY <1>4 DEF LoginAnswered, LoginUnanswered, LoginPut, LoginGet, IInv, TypeOK
  <2>2. lpc'[l] \in {"put", "get", "done"} /\ \A k \in Logins \ {l} : lpc'[k] = lpc[k]
    <3>1. \E x \in {"put", "get", "done"} : lpc' = [lpc EXCEPT ![l] = x]
      BY <1>4 DEF LoginAnswered, LoginUnanswered, LoginPut, LoginGet
    <3> QED
      BY <2>1, <3>1
  <2>3. lcfg[l] # None
    BY <2>1 DEF IInv, LoginsOK, LoginOK
  <2>4. LoginOK(l)'
    BY <2>1, <2>2, <2>3 DEF LoginOK
  <2> QED
    BY <2>1, <2>2, <2>4, LoginWaits DEF LoginsOK
<1>5. CASE Run
  BY <1>1, <1>5, RunFrame
<1>6. CASE RemovePartialKey
  BY <1>1, <1>6 DEF RemovePartialKey
<1>7. CASE Provider
  BY <1>1, <1>7 DEF Provider, HandleEnroll, RevokeHost
<1> QED
  BY <1>2, <1>3, <1>4, <1>5, <1>6, <1>7 DEF Next, Login

\* The configuration is replaced by a whole enrolment, and what it describes
\* stays registered.
LEMMA ConfigStep ==
    ASSUME IInv, Next
    PROVE  ConfigDescribesEnrolment'
<1> USE DEF fileVars, memVars, runVars, providerVars, loginVars
<1>1. CASE config' = config
  <2>1. SUFFICES ASSUME config.host # None
                 PROVE  /\ keyFile' \in Keys
                        /\ config.host.base = config.base
                        /\ config.host.n \in DOMAIN hosts'[config.base]
                        /\ hosts'[config.base][config.host.n].key = keyFile'
                        /\ HomeBase[config.issuer] = config.base
    BY <1>1 DEF ConfigDescribesEnrolment, Verified, Hs
  <2>2. /\ keyFile \in Keys
        /\ IsHost(config.host, config.base)
        /\ HomeBase[config.issuer] = config.base
    BY <2>1 DEF IInv, ConfigDescribesEnrolment, Verified, IsHost, TypeOK, Config
  <2>3. config.base \in Bases
    BY <2>2 DEF IsHost, HostIds
  <2> QED
    BY <2>2, <2>3, KeyFileStep, IsHostKept DEF IsHost
<1>2. CASE SetConfig
  <2>1. pc = "config" /\ config' = configUpdates /\ UNCHANGED <<keyFile, hosts>>
    BY <1>2 DEF SetConfig, Goto
  <2>2. /\ keyFile \in Keys
        /\ IsHost(res.host, EnrollBase) /\ HomeBase[cfg.issuer] = EnrollBase
        /\ cfg.issuer = IF opt.issuer # None THEN opt.issuer ELSE config.issuer
    BY <2>1 DEF IInv, OneKey, Keyed, AnswerOK, Accepted, MemoryOK
  <2>3. config'.host = res.host /\ config'.base = EnrollBase /\ config'.issuer = cfg.issuer
    BY <2>1, <2>2 DEF configUpdates, IInv, TypeOK, Config
  <2> QED
    BY <2>1, <2>2, <2>3 DEF ConfigDescribesEnrolment, Verified, IsHost, Hs
<1>3. CASE Run /\ ~ SetConfig
  BY <1>1, <1>3
     DEF Run, Start, Stop, Goto, LoadIdentity, IdentityUnusable, CreateIdentity, WriteIdentity,
         WriteIdentityFails, FlowFails, Authorize, NoAnswer, ReceiveRefusal, ReceiveHostId,
         SetConfigFails, PurgeList, PurgeRemove, PurgeDone, PurgeFails, WriteRecord, Crash
<1>4. CASE RemovePartialKey
  BY <1>1, <1>4 DEF RemovePartialKey
<1>5. CASE Provider
  BY <1>1, <1>5 DEF Provider, HandleEnroll, RevokeHost
<1>6. ASSUME NEW l \in Logins, Login(l)
      PROVE  config' = config
  BY <1>6, LoginFrame
<1> QED
  BY <1>1, <1>2, <1>3, <1>4, <1>5, <1>6 DEF Next

-----------------------------------------------------------------------------
(* The invariant *)

\* A host never enrolled.
LEMMA InitInv ==
    ASSUME Init
    PROVE  IInv
<1>1. PICK b \in Bases, x \in Names :
         LET other == [name |-> x, key |-> ForeignKey, reg |-> 0, active |-> TRUE] IN
         hosts \in {[c \in Bases |-> <<>>],
                    [c \in Bases |-> IF c = b THEN <<other>> ELSE <<>>]}
  BY DEF Init
<1> DEFINE other == [name |-> x, key |-> ForeignKey, reg |-> 0, active |-> TRUE]
<1>2. other \in Host /\ other.key = ForeignKey
  BY DEF Host
<1>3. \A c \in Bases : hosts[c] = <<>> \/ hosts[c] = <<other>>
  BY <1>1
<1> HIDE DEF other
<1>4. <<>> \in Seq(Host) /\ <<other>> \in Seq(Host)
  BY <1>2
<1>5. hosts \in [Bases -> Seq(Host)]
  BY <1>1, <1>4 DEF other
<1>6. \A c \in Bases : \A n \in Hs(c) : n = 1 /\ hosts[c][n].key = ForeignKey
  BY <1>2, <1>3 DEF Hs
<1>7. TypeOK
  <2>1. config \in Config
    BY DEF Init, Config
  <2>2. dir \in [Accounts \cup {recordName} -> Answer \cup {None}]
    BY DEF Init
  <2>3. /\ lpc \in [Logins -> {"idle", "key", "ask", "put", "get", "done"}]
        /\ lcfg \in [Logins -> Loaded \cup {None}]
        /\ lans \in [Logins -> Answer \cup {None}]
    BY DEF Init
  <2>4. attempts \in 0..MaxAttempts
    BY EnrollAssumption DEF Init
  <2>5. wire \in SUBSET Request /\ todo \in SUBSET (Accounts \cup {recordName})
    BY DEF Init
  <2> QED
    BY <1>5, <2>1, <2>2, <2>3, <2>4, <2>5 DEF Init, TypeOK, Steps
<1>8. ForeignKey \notin Keys
  BY EnrollAssumption DEF ForeignKey, Keys
<1>9. OneKey /\ OneHostPerProvider
  BY <1>6, <1>8 DEF Init, OneKey, OneHostPerProvider, Keyed
<1>10. MemoryOK /\ RequestsOK /\ AnswerOK
  BY DEF Init, MemoryOK, RequestsOK, AnswerOK, Working, Unsent, Accepted
<1>11. LoginsOK /\ ConfigDescribesEnrolment
  BY DEF Init, LoginsOK, LoginOK, ConfigDescribesEnrolment
<1> QED
  BY <1>7, <1>9, <1>10, <1>11 DEF IInv

\* Every step, and doing nothing, keeps the invariant.
LEMMA StepInv ==
    ASSUME IInv, [Next]_vars
    PROVE  IInv'
<1>1. CASE Next
  BY <1>1, TypeStep, OneKeyStep, MemoryStep, RequestsStep, AnswerStep, LoginsStep,
     ConfigStep, OneHostStep DEF IInv
<1>2. CASE UNCHANGED vars
  <2> USE <1>2 DEF vars, fileVars, memVars, runVars, providerVars, loginVars
  <2>1. TypeOK'
    BY DEF IInv, TypeOK
  <2>2. OneKey' /\ OneHostPerProvider'
    BY DEF IInv, OneKey, OneHostPerProvider, Hs
  <2>3. MemoryOK' /\ RequestsOK'
    BY DEF IInv, MemoryOK, RequestsOK, EnrollBase
  <2>4. AnswerOK' /\ LoginsOK'
    BY DEF IInv, AnswerOK, LoginsOK, LoginOK, IsHost, Hs, EnrollBase
  <2>5. ConfigDescribesEnrolment'
    BY DEF IInv, ConfigDescribesEnrolment, Verified, Hs
  <2> QED
    BY <2>1, <2>2, <2>3, <2>4, <2>5 DEF IInv
<1> QED
  BY <1>1, <1>2

\* The invariant holds in every state that enrolments, logins and providers
\* can reach.
THEOREM Invariant == Spec => []IInv
  BY InitInv, StepInv, PTL DEF Spec

\* Enrolment, its files and the provider keep their types: every step of Enroll
\* finds in memory what an earlier one put there.
THEOREM TypeCorrect == Spec => []TypeOK
<1>1. IInv => TypeOK
  BY DEF IInv
<1> QED
  BY <1>1, Invariant, PTL

\* host_id, api_base, issuer and the key on disk always belong to one
\* enrolment, whatever setConfigValues replaced and whatever was interrupted.
THEOREM ConfigIsAnEnrolment == Spec => []ConfigDescribesEnrolment
<1>1. IInv => ConfigDescribesEnrolment
  BY DEF IInv
<1> QED
  BY <1>1, Invariant, PTL

\* The provider can verify the assertion of every query that fetchKeys makes,
\* though it reads configuration and key without a lock beside enrolment.
THEOREM QueriesVerify == Spec => []AssertionsVerify
<1>1. IInv => AssertionsVerify
  BY DEF IInv, LoginsOK, LoginOK, AssertionsVerify, Verified, IsHost
<1> QED
  BY <1>1, Invariant, PTL

\* Enrolling again never registers this machine twice with one provider.
THEOREM NoSecondHost == Spec => []OneHostPerProvider
<1>1. IInv => OneHostPerProvider
  BY DEF IInv
<1> QED
  BY <1>1, Invariant, PTL

\* Only handleEnroll brings an answer, and it answers 409 for a reason.
LEMMA ConflictStep ==
    ASSUME IInv, Next, res' # res, res' # None, res'.status = 409
    PROVE  \E n \in Hs(EnrollBase) :
              \/ hosts[EnrollBase][n].name = opt.name /\ hosts[EnrollBase][n].key = ForeignKey
              \/ hosts[EnrollBase][n].name # opt.name /\ hosts[EnrollBase][n].key = key
<1> USE DEF fileVars, memVars, runVars, providerVars, loginVars
<1>1. PICK m \in wire : HandleEnroll(m)
  <2>1. ~ Run
    BY DEF Run, Start, Stop, Goto, LoadIdentity, IdentityUnusable, CreateIdentity, WriteIdentity,
           WriteIdentityFails, FlowFails, Authorize, NoAnswer, ReceiveRefusal, ReceiveHostId,
           SetConfig, SetConfigFails, PurgeList, PurgeRemove, PurgeDone, PurgeFails, WriteRecord, Crash
  <2>2. ~ RemovePartialKey /\ ~ RevokeHost
    BY DEF RemovePartialKey, RevokeHost
  <2>3. \A l \in Logins : ~ Login(l)
    BY LoginFrame
  <2> QED
    BY <2>1, <2>2, <2>3 DEF Next, Provider
<1>2. pc = "wait" /\ m.run = attempts
  BY <1>1, AnswerDelivered
<1>3. m.base = EnrollBase /\ m.name = opt.name /\ m.key = key /\ key \in Keys
  BY <1>2 DEF IInv, RequestsOK, OneKey, Keyed
<1>4. \/ ByKey(m.base, m.key) # {} /\ ByKey(m.base, m.key) # ByName(m.base, m.name)
      \/ ByKey(m.base, m.key) = {} /\ ByName(m.base, m.name) # {}
  <2>1. \A st \in {401, 403} : ~ Refuse(m, st)
    BY <1>2 DEF Refuse, Respond
  <2>2. \A n, st : st \in {200, 201} => ~ Register(m, n, st)
    BY <1>2 DEF Register, Respond
  <2> QED
    BY <1>1, <2>1, <2>2 DEF HandleEnroll
<1>5. PICK n \in Hs(m.base) : n \in ByKey(m.base, m.key) <=> n \notin ByName(m.base, m.name)
  BY <1>4 DEF ByKey, ByName
<1>6. CASE n \in ByKey(m.base, m.key)
  BY <1>3, <1>5, <1>6 DEF ByKey, ByName
<1>7. CASE n \in ByName(m.base, m.name)
  <2>1. EnrollBase \in Bases
    BY <1>1, <1>3 DEF IInv, TypeOK, Request
  <2>2. hosts[EnrollBase][n].key \in Keys \cup {ForeignKey}
    BY <1>3, <2>1, HostsType DEF Host, IInv
  <2>3. hosts[EnrollBase][n].key = ForeignKey
    BY <1>2, <1>3, <1>5, <1>7, <2>1, <2>2 DEF ByKey, IInv, OneKey, Keyed
  <2> QED
    BY <1>3, <1>7, <2>3 DEF ByName
<1> QED
  BY <1>5, <1>6, <1>7

\* Enrolling again ends in a conflict only where there is one: somebody else
\* has the name, or this machine is known by another.
THEOREM RetryIsSafe == Spec => ConflictIsReal
<1>1. IInv /\ [Next]_vars =>
         [res' # res /\ res' # None /\ res'.status = 409 =>
            \E n \in Hs(EnrollBase) :
               LET h == hosts[EnrollBase][n] IN
               \/ h.name = opt.name /\ h.key = ForeignKey
               \/ h.name # opt.name /\ h.key = key]_vars
  BY ConflictStep
<1> QED
  BY <1>1, Invariant, PTL DEF Spec, ConflictIsReal
=============================================================================
