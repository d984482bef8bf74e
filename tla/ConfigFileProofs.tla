-------------------------- MODULE ConfigFileProofs --------------------------
(***************************************************************************)
(* What holds of any number of enrolments, any documents and updates: what *)
(* a rewrite does to a document, and what the file holds while no two of   *)
(* them write at once.                                                     *)
(***************************************************************************)
EXTENDS ConfigFile, SequenceTheorems, WellFoundedInduction, TLAPS

-----------------------------------------------------------------------------
(* Documents *)

\* A set of natural numbers with a member has a least one.
LEMMA LeastExists ==
    ASSUME NEW S, S \subseteq Nat, S # {}
    PROVE  \E x \in S : \A y \in S : x <= y
<1>1. PICK x \in S : \A y \in S : ~(<<y, x>> \in OpToRel(<, Nat))
  BY NatLessThanWellFounded, WFMin, Zenon
<1>2. \A y \in S : ~(y < x)
  BY <1>1, Zenon DEF OpToRel
<1> QED
  BY <1>2

\* mappingEntry returns the first entry of the key, or 0.
LEMMA EntryIsFirst ==
    ASSUME NEW d, Len(d) \in Nat, NEW k
    PROVE  /\ mappingEntry(d, k) \in 0..Len(d)
           /\ mappingEntry(d, k) = 0 <=> \A i \in 1..Len(d) : d[i].key # k
           /\ mappingEntry(d, k) # 0 =>
                 /\ d[mappingEntry(d, k)].key = k
                 /\ \A j \in 1..Len(d) : d[j].key = k => mappingEntry(d, k) <= j
<1> DEFINE I == {i \in 1..Len(d) : d[i].key = k}
<1>1. mappingEntry(d, k) = IF I # {} THEN Min(I) ELSE 0
  BY Zenon DEF mappingEntry, SelectInSeq
<1>2. CASE I = {}
  BY <1>1, <1>2
<1>3. CASE I # {}
  <2>0. I \subseteq Nat
    OBVIOUS
  <2>1. \E x \in I : \A y \in I : x <= y
    BY <1>3, <2>0, LeastExists, Zenon
  <2>2. Min(I) \in I /\ \A y \in I : Min(I) <= y
    BY <2>1, Zenon DEF Min
  <2> QED
    BY <1>1, <1>3, <2>2
<1> QED
  BY <1>2, <1>3

\* The converse: an entry of the key with none before it.
LEMMA FirstIsEntry ==
    ASSUME NEW d, Len(d) \in Nat, NEW k, NEW i \in 1..Len(d), d[i].key = k,
           \A j \in 1..Len(d) : d[j].key = k => i <= j
    PROVE  mappingEntry(d, k) = i
  BY EntryIsFirst

\* The lines for those keys of K that u sets and d does not have, each once.
LinesFor(s, K, d, u) ==
    /\ s \in Seq(Entry)
    /\ \A i \in 1..Len(s) :
          /\ s[i].key \in K \cap DOMAIN u
          /\ s[i] = Line(s[i].key, u[s[i].key])
          /\ mappingEntry(d, s[i].key) = 0
    /\ \A i, j \in 1..Len(s) : s[i].key = s[j].key => i = j
    /\ \A k \in K \cap DOMAIN u : mappingEntry(d, k) = 0 =>
          \E i \in 1..Len(s) : s[i].key = k

\* What ConfigFileAssumption says of an update.
LEMMA UpdateFacts ==
    ASSUME NEW u \in Updates
    PROVE  /\ Always \subseteq DOMAIN u /\ DOMAIN u \subseteq Settable
           /\ \A k \in DOMAIN u : Line(k, u[k]) \in Entry /\ k # None
<1>1. /\ Always \subseteq DOMAIN u /\ DOMAIN u \subseteq Settable
      /\ \A k \in DOMAIN u : u[k] \in Value
  BY ConfigFileAssumption
<1>2. ASSUME NEW k \in DOMAIN u
      PROVE  Line(k, u[k]) \in Entry /\ k # None
  <2>1. k \in Keys
    BY <1>1 DEF Settable, Always, Keys, Known
  <2>2. u[k] \in Value /\ k # None
    BY <1>1, <2>1, ConfigFileAssumption
  <2> QED
    BY <2>1, <2>2 DEF Line, Entry
<1> QED
  BY <1>1, <1>2

\* One key.
LEMMA IfAbsentLines ==
    ASSUME NEW d, NEW u \in Updates, NEW k
    PROVE  LinesFor(IfAbsent(d, u, k), {k}, d, u)
<1>1. CASE k \in DOMAIN u /\ mappingEntry(d, k) = 0
  <2>1. PICK x : x = Line(k, u[k])
    OBVIOUS
  <2>2. x \in Entry /\ x.key = k
    BY <1>1, <2>1, UpdateFacts DEF Line
  <2>3. IfAbsent(d, u, k) = <<x>>
    BY <1>1, <2>1, Zenon DEF IfAbsent
  <2>4. LinesFor(<<x>>, {k}, d, u)
    BY <1>1, <2>1, <2>2 DEF LinesFor
  <2> QED
    BY <2>3, <2>4
<1>2. CASE ~(k \in DOMAIN u /\ mappingEntry(d, k) = 0)
  <2>1. IfAbsent(d, u, k) = <<>>
    BY <1>2, Zenon DEF IfAbsent
  <2>2. LinesFor(<<>>, {k}, d, u)
    BY <1>2 DEF LinesFor
  <2> QED
    BY <2>1, <2>2
<1> QED
  BY <1>1, <1>2

\* Lines for different keys, one after the other.
LEMMA ConcatLines ==
    ASSUME NEW s, NEW t, NEW K, NEW L, NEW d, NEW u,
           LinesFor(s, K, d, u), LinesFor(t, L, d, u), K \cap L = {}
    PROVE  LinesFor(s \o t, K \cup L, d, u)
<1>1. /\ s \in Seq(Entry) /\ t \in Seq(Entry) /\ Len(s) \in Nat /\ Len(t) \in Nat
  BY DEF LinesFor
<1>2. /\ s \o t \in Seq(Entry)
      /\ Len(s \o t) = Len(s) + Len(t)
      /\ \A i \in 1..Len(s) : (s \o t)[i] = s[i]
      /\ \A i \in 1..Len(t) : (s \o t)[Len(s) + i] = t[i]
  BY <1>1
<1>3. PICK c : c = s \o t
  OBVIOUS
<1>4. \A i \in 1..Len(c) :
         \/ i \in 1..Len(s) /\ c[i] = s[i]
         \/ i - Len(s) \in 1..Len(t) /\ c[i] = t[i - Len(s)]
  BY <1>1, <1>2, <1>3
<1>5. \A i \in 1..Len(c) :
         /\ c[i].key \in (K \cup L) \cap DOMAIN u
         /\ c[i] = Line(c[i].key, u[c[i].key])
         /\ mappingEntry(d, c[i].key) = 0
  <2> SUFFICES ASSUME NEW i \in 1..Len(c)
               PROVE  /\ c[i].key \in (K \cup L) \cap DOMAIN u
                      /\ c[i] = Line(c[i].key, u[c[i].key])
                      /\ mappingEntry(d, c[i].key) = 0
    OBVIOUS
  <2>1. CASE i \in 1..Len(s) /\ c[i] = s[i]
    <3>1. /\ s[i].key \in K \cap DOMAIN u /\ s[i] = Line(s[i].key, u[s[i].key])
          /\ mappingEntry(d, s[i].key) = 0
      BY <2>1, Zenon DEF LinesFor
    <3> QED
      BY <2>1, <3>1, Zenon
  <2>2. CASE i - Len(s) \in 1..Len(t) /\ c[i] = t[i - Len(s)]
    <3>1. PICK j \in 1..Len(t) : c[i] = t[j]
      BY <2>2, Zenon
    <3>2. /\ t[j].key \in L \cap DOMAIN u /\ t[j] = Line(t[j].key, u[t[j].key])
          /\ mappingEntry(d, t[j].key) = 0
      BY Zenon DEF LinesFor
    <3> QED
      BY <3>1, <3>2, Zenon
  <2> QED
    BY <1>4, <2>1, <2>2
<1>6. \A i, j \in 1..Len(c) : c[i].key = c[j].key => i = j
  <2> SUFFICES ASSUME NEW i \in 1..Len(c), NEW j \in 1..Len(c), c[i].key = c[j].key
               PROVE  i = j
    OBVIOUS
  <2>1. CASE i \in 1..Len(s) /\ j \in 1..Len(s) /\ c[i] = s[i] /\ c[j] = s[j]
    BY <2>1 DEF LinesFor
  <2>2. CASE /\ i - Len(s) \in 1..Len(t) /\ c[i] = t[i - Len(s)]
             /\ j - Len(s) \in 1..Len(t) /\ c[j] = t[j - Len(s)]
    <3>1. i - Len(s) = j - Len(s)
      BY <2>2 DEF LinesFor
    <3> QED
      BY <1>1, <3>1
  <2>3. CASE i \in 1..Len(s) /\ c[i] = s[i] /\ j - Len(s) \in 1..Len(t) /\ c[j] = t[j - Len(s)]
    BY <2>3 DEF LinesFor
  <2>4. CASE j \in 1..Len(s) /\ c[j] = s[j] /\ i - Len(s) \in 1..Len(t) /\ c[i] = t[i - Len(s)]
    BY <2>4 DEF LinesFor
  <2> QED
    BY <1>4, <2>1, <2>2, <2>3, <2>4
<1>7. ASSUME NEW k \in (K \cup L) \cap DOMAIN u, mappingEntry(d, k) = 0
      PROVE  \E i \in 1..Len(c) : c[i].key = k
  <2>1. CASE k \in K
    <3>1. PICK i \in 1..Len(s) : s[i].key = k
      BY <1>7, <2>1 DEF LinesFor
    <3>2. i \in 1..Len(c) /\ c[i].key = k
      BY <1>1, <1>2, <1>3, <3>1
    <3> QED
      BY <3>2
  <2>2. CASE k \in L
    <3>1. PICK i \in 1..Len(t) : t[i].key = k
      BY <1>7, <2>2 DEF LinesFor
    <3>2. Len(s) + i \in 1..Len(c) /\ c[Len(s) + i].key = k
      BY <1>1, <1>2, <1>3, <3>1
    <3> QED
      BY <3>2
  <2> QED
    BY <2>1, <2>2
<1> QED
  BY <1>2, <1>3, <1>5, <1>6, <1>7 DEF LinesFor

\* What is appended: nothing, or a comment and one line for each key of u that
\* the document does not have.
LEMMA AppendedLines ==
    ASSUME NEW d, NEW u \in Updates
    PROVE  \E s : /\ LinesFor(s, Settable, d, u)
                  /\ Appended(d, u) = IF s = <<>> THEN <<>>
                                      ELSE <<[key |-> None, by |-> "enroll"]>> \o s
<1> DEFINE a == IfAbsent(d, u, "api_base")
           b == IfAbsent(d, u, "client_id")
           c == IfAbsent(d, u, "host_id")
           i == IfAbsent(d, u, "issuer")
<1>1. /\ LinesFor(a, {"api_base"}, d, u) /\ LinesFor(b, {"client_id"}, d, u)
      /\ LinesFor(c, {"host_id"}, d, u) /\ LinesFor(i, {"issuer"}, d, u)
  BY IfAbsentLines
<1>2. Appended(d, u) = IF a \o b \o c \o i = <<>> THEN <<>>
                       ELSE <<[key |-> None, by |-> "enroll"]>> \o (a \o b \o c \o i)
  BY Zenon DEF Appended
<1> HIDE DEF a, b, c, i
<1>3. {"api_base"} \cap {"client_id"} = {}
  OBVIOUS
<1>4. LinesFor(a \o b, {"api_base"} \cup {"client_id"}, d, u)
  BY <1>1, <1>3, ConcatLines, Zenon
<1>5. ({"api_base"} \cup {"client_id"}) \cap {"host_id"} = {}
  OBVIOUS
<1>6. LinesFor(a \o b \o c, {"api_base"} \cup {"client_id"} \cup {"host_id"}, d, u)
  BY <1>1, <1>4, <1>5, ConcatLines, Zenon
<1>7. ({"api_base"} \cup {"client_id"} \cup {"host_id"}) \cap {"issuer"} = {}
  OBVIOUS
<1>8. LinesFor(a \o b \o c \o i,
               {"api_base"} \cup {"client_id"} \cup {"host_id"} \cup {"issuer"}, d, u)
  BY <1>1, <1>6, <1>7, ConcatLines, Zenon
<1>9. {"api_base"} \cup {"client_id"} \cup {"host_id"} \cup {"issuer"} = Settable
  BY DEF Settable, Always
<1>10. LinesFor(a \o b \o c \o i, Settable, d, u)
  BY <1>8, <1>9, Zenon
<1> QED
  BY <1>2, <1>10, Zenon

EnrollComment == [key |-> None, by |-> "enroll"]

\* A line that enroll writes.
LEMMA LineFields ==
    \A k, v : Line(k, v).key = k /\ Line(k, v).form = "line" /\ ~Line(k, v).anchor
<1> SUFFICES ASSUME NEW k, NEW v
             PROVE  Line(k, v).key = k /\ Line(k, v).form = "line" /\ ~Line(k, v).anchor
  OBVIOUS
<1>1. Line(k, v).key = k /\ Line(k, v).form = "line"
  BY DEF Line
<1>2. Line(k, v).anchor = FALSE
  BY Zenon DEF Line
<1> QED
  BY <1>1, <1>2

\* Where the elements of a concatenation are.
LEMMA ConcatFacts ==
    ASSUME NEW s \in Document, NEW t \in Document
    PROVE  /\ s \o t \in Document /\ Len(s) \in Nat /\ Len(t) \in Nat
           /\ Len(s \o t) = Len(s) + Len(t)
           /\ \A i \in 1..Len(s) : (s \o t)[i] = s[i]
           /\ \A i \in 1..Len(t) : (s \o t)[Len(s) + i] = t[i]
<1>1. PICK S : S = Entry \cup Comment
  OBVIOUS
<1>2. s \in Seq(S) /\ t \in Seq(S)
  BY <1>1 DEF Document
<1>3. s \o t \in Seq(S)
  BY <1>2
<1>4. s \o t \in Document
  BY <1>1, <1>3 DEF Document
<1>5. /\ Len(s) \in Nat /\ Len(t) \in Nat
      /\ Len(s \o t) = Len(s) + Len(t)
      /\ \A i \in 1..Len(s) : (s \o t)[i] = s[i]
      /\ \A i \in 1..Len(t) : (s \o t)[Len(s) + i] = t[i]
  BY <1>2
<1> QED
  BY <1>4, <1>5

\* n is d with the keys of u set, entry by entry.
RewriteOf(n, d, u) ==
    /\ n \in Document /\ Len(n) \in Nat /\ Len(d) \in Nat /\ Len(d) <= Len(n)
    /\ \A i \in 1..Len(d) :
          /\ Replaced(d, u, i) => n[i] = Line(d[i].key, u[d[i].key])
          /\ ~Replaced(d, u, i) => n[i] = d[i]
    /\ \A i \in (Len(d) + 1)..Len(n) :
          \/ n[i] = EnrollComment /\ i = Len(d) + 1 /\ i < Len(n)
          \/ /\ n[i].key \in DOMAIN u /\ n[i] = Line(n[i].key, u[n[i].key])
             /\ mappingEntry(d, n[i].key) = 0
    /\ \A i, j \in (Len(d) + 1)..Len(n) : n[i].key = n[j].key => i = j
    /\ \A k \in DOMAIN u : mappingEntry(d, k) = 0 =>
          \E i \in (Len(d) + 1)..Len(n) : n[i].key = k

\* That is what withConfigValues returns.
LEMMA Rewritten ==
    ASSUME NEW d \in Document, NEW u \in Updates, NEW n, n = withConfigValues(d, u)
    PROVE  RewriteOf(n, d, u)
<1> DEFINE new1 == [i \in DOMAIN d |-> IF d[i].key \in DOMAIN u /\ mappingEntry(d, d[i].key) = i
                                       THEN Line(d[i].key, u[d[i].key]) ELSE d[i]]
<1>1. PICK s : /\ LinesFor(s, Settable, d, u)
               /\ Appended(d, u) = IF s = <<>> THEN <<>>
                                   ELSE <<[key |-> None, by |-> "enroll"]>> \o s
  BY AppendedLines
<1>2. s \in Seq(Entry) /\ Len(s) \in Nat
  BY <1>1 DEF LinesFor
<1>3. EnrollComment \in Comment /\ EnrollComment.key = None
  BY DEF EnrollComment, Comment
<1>4. PICK a : a = Appended(d, u)
  OBVIOUS
<1>5. /\ a \in Document
      /\ s = <<>> => Len(a) = 0
      /\ s # <<>> => /\ Len(a) = Len(s) + 1
                     /\ a[1] = EnrollComment
                     /\ \A i \in 1..Len(s) : a[i + 1] = s[i]
  <2>1. CASE s = <<>>
    BY <1>1, <1>4, <2>1 DEF Document
  <2>2. CASE s # <<>>
    <3>1. PICK m : m = <<EnrollComment>>
      OBVIOUS
    <3>2. m \in Document /\ Len(m) = 1 /\ m[1] = EnrollComment
      BY <1>3, <3>1 DEF Document
    <3>3. a = m \o s
      BY <1>1, <1>4, <2>2, <3>1 DEF EnrollComment
    <3>4. s \in Document
      BY <1>2 DEF Document
    <3>5. /\ m \o s \in Document /\ Len(m \o s) = 1 + Len(s)
          /\ (m \o s)[1] = m[1] /\ \A i \in 1..Len(s) : (m \o s)[i + 1] = s[i]
      <4>1. /\ m \o s \in Document /\ Len(m \o s) = Len(m) + Len(s)
            /\ \A i \in 1..Len(m) : (m \o s)[i] = m[i]
            /\ \A i \in 1..Len(s) : (m \o s)[Len(m) + i] = s[i]
        BY <3>2, <3>4, ConcatFacts, Zenon
      <4>2. \A i \in 1..Len(s) : (m \o s)[i + 1] = s[i]
        <5>1. \A i \in 1..Len(s) : 1 + i = i + 1
          BY <1>2
        <5> QED
          BY <3>2, <4>1, <5>1, Zenon
      <4>3. 1 \in 1..1
        OBVIOUS
      <4>4. (m \o s)[1] = m[1]
        BY <3>2, <4>1, <4>3, Zenon
      <4> QED
        BY <3>2, <4>1, <4>2, <4>4, Zenon
    <3> QED
      BY <1>2, <2>2, <3>2, <3>3, <3>5
  <2> QED
    BY <2>1, <2>2
<1>6. d \in Document /\ Len(d) \in Nat /\ DOMAIN d = 1..Len(d)
  BY DEF Document
<1>7. n = new1 \o a
  BY <1>4, Zenon DEF withConfigValues
<1>8. ASSUME NEW i \in 1..Len(d)
      PROVE  /\ new1[i] = IF Replaced(d, u, i) THEN Line(d[i].key, u[d[i].key]) ELSE d[i]
             /\ new1[i] \in Entry \cup Comment
  <2>1. new1[i] = IF Replaced(d, u, i) THEN Line(d[i].key, u[d[i].key]) ELSE d[i]
    BY <1>6, <1>8, Zenon DEF Replaced
  <2>2. Replaced(d, u, i) => Line(d[i].key, u[d[i].key]) \in Entry
    BY UpdateFacts, Zenon DEF Replaced
  <2>3. d[i] \in Entry \cup Comment
    BY <1>6 DEF Document
  <2> QED
    BY <2>1, <2>2, <2>3
<1>9. new1 \in [1..Len(d) -> Entry \cup Comment]
  <2>1. new1 = [i \in 1..Len(d) |-> new1[i]]
    BY <1>6, Zenon
  <2> HIDE DEF new1
  <2> QED
    BY <1>8, <2>1
<1> HIDE DEF new1
<1>10. new1 \in Document /\ Len(new1) = Len(d)
  BY <1>6, <1>9 DEF Document
<1>11. /\ n \in Document /\ Len(n) = Len(d) + Len(a) /\ Len(a) \in Nat
       /\ \A i \in 1..Len(d) : n[i] = new1[i]
       /\ \A i \in 1..Len(a) : n[Len(d) + i] = a[i]
  <2>1. a \in Document
    BY <1>5, Zenon
  <2>2. /\ new1 \o a \in Document /\ Len(a) \in Nat
        /\ Len(new1 \o a) = Len(new1) + Len(a)
        /\ \A i \in 1..Len(new1) : (new1 \o a)[i] = new1[i]
        /\ \A i \in 1..Len(a) : (new1 \o a)[Len(new1) + i] = a[i]
    BY <1>10, <2>1, ConcatFacts, Zenon
  <2> QED
    BY <1>7, <1>10, <2>2, Zenon
<1>12. ASSUME NEW i \in (Len(d) + 1)..Len(n)
       PROVE  \/ n[i] = EnrollComment /\ i = Len(d) + 1 /\ i < Len(n)
              \/ i - Len(d) - 1 \in 1..Len(s) /\ n[i] = s[i - Len(d) - 1]
  <2>l. Len(n) = Len(d) + Len(a) /\ Len(a) \in Nat /\ Len(d) \in Nat
    BY <1>6, <1>11, Zenon
  <2>0. i - Len(d) \in 1..Len(a) /\ Len(d) + (i - Len(d)) = i /\ Len(a) # 0
    BY <2>l
  <2>1. i - Len(d) \in 1..Len(a) /\ n[i] = a[i - Len(d)] /\ s # <<>>
    BY <1>5, <1>11, <2>0, Zenon
  <2>2. Len(s) > 0
    BY <1>2, <2>1
  <2>3. CASE i - Len(d) = 1
    BY <1>5, <1>6, <1>11, <2>1, <2>2, <2>3
  <2>4. CASE i - Len(d) # 1
    <3>1. i - Len(d) - 1 \in 1..Len(s) /\ (i - Len(d) - 1) + 1 = i - Len(d)
      BY <1>2, <1>5, <1>6, <2>1, <2>4
    <3>2. a[i - Len(d)] = s[i - Len(d) - 1]
      BY <1>5, <2>1, <3>1
    <3> QED
      BY <2>1, <3>1, <3>2
  <2> QED
    BY <2>3, <2>4
<1>13. \A i \in 1..Len(s) :
          /\ s[i].key \in DOMAIN u /\ s[i] = Line(s[i].key, u[s[i].key])
          /\ mappingEntry(d, s[i].key) = 0 /\ s[i].key # None
  BY <1>1, UpdateFacts, Zenon DEF LinesFor
<1>14. \A i \in (Len(d) + 1)..Len(n) :
          \/ n[i] = EnrollComment /\ i = Len(d) + 1 /\ i < Len(n)
          \/ /\ n[i].key \in DOMAIN u /\ n[i] = Line(n[i].key, u[n[i].key])
             /\ mappingEntry(d, n[i].key) = 0
  BY <1>12, <1>13, Zenon
<1>15. \A i, j \in (Len(d) + 1)..Len(n) : n[i].key = n[j].key => i = j
  <2> SUFFICES ASSUME NEW i \in (Len(d) + 1)..Len(n), NEW j \in (Len(d) + 1)..Len(n),
                      n[i].key = n[j].key
               PROVE  i = j
    OBVIOUS
  <2>1. CASE n[i] = EnrollComment /\ i = Len(d) + 1
    <3>1. n[j] = EnrollComment /\ j = Len(d) + 1
      BY <1>3, <1>12, <1>13, <2>1, Zenon
    <3> QED
      BY <2>1, <3>1
  <2>2. CASE n[j] = EnrollComment /\ j = Len(d) + 1
    <3>1. n[i] = EnrollComment /\ i = Len(d) + 1
      BY <1>3, <1>12, <1>13, <2>2, Zenon
    <3> QED
      BY <2>2, <3>1
  <2>3. CASE /\ i - Len(d) - 1 \in 1..Len(s) /\ n[i] = s[i - Len(d) - 1]
             /\ j - Len(d) - 1 \in 1..Len(s) /\ n[j] = s[j - Len(d) - 1]
    <3>0. \A x, y \in 1..Len(s) : s[x].key = s[y].key => x = y
      BY <1>1, Zenon DEF LinesFor
    <3>1. i - Len(d) - 1 = j - Len(d) - 1
      BY <2>3, <3>0
    <3> QED
      BY <1>6, <3>1
  <2> QED
    BY <1>12, <2>1, <2>2, <2>3, Zenon
<1>16. ASSUME NEW k \in DOMAIN u, mappingEntry(d, k) = 0
       PROVE  \E i \in (Len(d) + 1)..Len(n) : n[i].key = k
  <2>1. k \in Settable
    BY UpdateFacts
  <2>2. PICK i \in 1..Len(s) : s[i].key = k
    BY <1>1, <1>16, <2>1, Zenon DEF LinesFor
  <2>3. s # <<>> /\ i + 1 \in 1..Len(a) /\ a[i + 1] = s[i]
    BY <1>2, <1>5, <2>2
  <2>4. Len(d) + (i + 1) \in (Len(d) + 1)..Len(n) /\ n[Len(d) + (i + 1)] = s[i]
    BY <1>2, <1>6, <1>11, <2>3
  <2> QED
    BY <2>2, <2>4, Zenon
<1>17. \A i \in 1..Len(d) :
          /\ Replaced(d, u, i) => n[i] = Line(d[i].key, u[d[i].key])
          /\ ~Replaced(d, u, i) => n[i] = d[i]
  BY <1>8, <1>11, Zenon
<1>18. n \in Document /\ Len(n) \in Nat /\ Len(d) \in Nat /\ Len(d) <= Len(n)
  BY <1>6, <1>11
<1> QED
  BY <1>14, <1>15, <1>16, <1>17, <1>18, Zenon DEF RewriteOf

\* An entry of the old document keeps its key, its place and, unless it is
\* replaced, everything else.
LEMMA OldEntry ==
    ASSUME NEW d, NEW u, NEW n, RewriteOf(n, d, u), NEW i \in 1..Len(d)
    PROVE  /\ n[i].key = d[i].key
           /\ Replaced(d, u, i) => n[i].form = "line" /\ ~n[i].anchor
           /\ ~Replaced(d, u, i) => n[i] = d[i]
<1>1. /\ Replaced(d, u, i) => n[i] = Line(d[i].key, u[d[i].key])
      /\ ~Replaced(d, u, i) => n[i] = d[i]
  BY Zenon DEF RewriteOf
<1>2. CASE Replaced(d, u, i)
  <2>1. PICK k, v : k = d[i].key /\ v = u[d[i].key]
    OBVIOUS
  <2>2. n[i] = Line(k, v)
    BY <1>1, <1>2, <2>1, Zenon
  <2>3. Line(k, v).key = k /\ Line(k, v).form = "line" /\ ~Line(k, v).anchor
    BY LineFields, Zenon
  <2> HIDE DEF Line
  <2> QED
    BY <1>2, <2>1, <2>2, <2>3, Zenon
<1>3. CASE ~Replaced(d, u, i)
  BY <1>1, <1>3, Zenon
<1> QED
  BY <1>2, <1>3, Zenon

\* A line of the end is the comment or one that enroll wrote.
LEMMA NewEntry ==
    ASSUME NEW d, NEW u, NEW n, RewriteOf(n, d, u), NEW i \in (Len(d) + 1)..Len(n)
    PROVE  n[i] = EnrollComment \/ (n[i].form = "line" /\ n[i].key \in DOMAIN u)
<1>1. n[i] = EnrollComment \/ (n[i].key \in DOMAIN u /\ n[i] = Line(n[i].key, u[n[i].key]))
  BY Zenon DEF RewriteOf
<1>2. CASE n[i].key \in DOMAIN u /\ n[i] = Line(n[i].key, u[n[i].key])
  <2>1. PICK k : k = n[i].key
    OBVIOUS
  <2>2. n[i] = Line(k, u[k])
    BY <1>2, <2>1, Zenon
  <2>3. Line(k, u[k]).form = "line"
    BY LineFields, Zenon
  <2> QED
    BY <1>2, <2>2, <2>3, Zenon
<1> QED
  BY <1>1, <1>2, Zenon

\* The first entry of a key the rewrite sets: where it was, or the new line.
LEMMA EntryAfter ==
    ASSUME NEW d \in Document, NEW u \in Updates, NEW n, RewriteOf(n, d, u),
           NEW k \in DOMAIN u
    PROVE  /\ mappingEntry(n, k) \in 1..Len(n)
           /\ n[mappingEntry(n, k)] = Line(k, u[k])
           /\ mappingEntry(d, k) = 0 => mappingEntry(n, k) \in (Len(d) + 1)..Len(n)
           /\ mappingEntry(d, k) # 0 => mappingEntry(n, k) = mappingEntry(d, k)
<1>1. Len(n) \in Nat /\ Len(d) \in Nat /\ Len(d) <= Len(n)
  BY DEF RewriteOf
<1>2. \A i \in 1..Len(d) :
         /\ Replaced(d, u, i) => n[i] = Line(d[i].key, u[d[i].key])
         /\ ~Replaced(d, u, i) => n[i] = d[i]
  BY Zenon DEF RewriteOf
<1>3. ASSUME NEW i \in 1..Len(d)
      PROVE  n[i].key = d[i].key
  BY OldEntry
<1>4. \A i \in (Len(d) + 1)..Len(n) :
         \/ n[i] = EnrollComment
         \/ n[i].key \in DOMAIN u /\ n[i] = Line(n[i].key, u[n[i].key])
  BY Zenon DEF RewriteOf
<1>5. CASE mappingEntry(d, k) = 0
  <2>1. \A i \in 1..Len(d) : d[i].key # k
    BY <1>1, <1>5, EntryIsFirst
  <2>2. PICK i \in (Len(d) + 1)..Len(n) : n[i].key = k
    BY <1>5, Zenon DEF RewriteOf
  <2>3. \A j \in (Len(d) + 1)..Len(n) : n[j].key = k => i = j
    BY <2>2, Zenon DEF RewriteOf
  <2>4. \A j \in 1..Len(n) : n[j].key = k => i <= j
    BY <1>1, <1>3, <2>1, <2>2, <2>3
  <2>5. i \in 1..Len(n)
    BY <1>1, <2>2
  <2>6. mappingEntry(n, k) = i
    BY <1>1, <2>2, <2>4, <2>5, FirstIsEntry
  <2>7. EnrollComment.key = None /\ k # None
    BY UpdateFacts DEF EnrollComment
  <2>8. n[i] = Line(k, u[k])
    BY <1>4, <2>2, <2>7, Zenon
  <2> QED
    BY <1>5, <2>2, <2>5, <2>6, <2>8
<1>6. CASE mappingEntry(d, k) # 0
  <2> DEFINE i == mappingEntry(d, k)
  <2>1. /\ i \in 1..Len(d) /\ d[i].key = k
        /\ \A j \in 1..Len(d) : d[j].key = k => i <= j
    BY <1>1, <1>6, EntryIsFirst
  <2>2. Replaced(d, u, i)
    BY <2>1, Zenon DEF Replaced
  <2>3. n[i] = Line(k, u[k])
    BY <1>2, <2>1, <2>2, Zenon
  <2> HIDE DEF i
  <2>4. i \in 1..Len(n) /\ n[i].key = k
    BY <1>1, <1>3, <2>1
  <2>5. \A j \in 1..Len(n) : n[j].key = k => i <= j
    BY <1>1, <1>3, <2>1
  <2>6. mappingEntry(n, k) = i
    BY <1>1, <2>4, <2>5, FirstIsEntry
  <2> QED
    BY <1>6, <2>3, <2>4, <2>6 DEF i
<1> QED
  BY <1>5, <1>6

\* A rewritten document is one, but for an alias that lost its anchor.
LEMMA StillMapping ==
    ASSUME NEW d \in Document, NEW u \in Updates, NEW n, RewriteOf(n, d, u),
           ~CannotRewrite(d, u)
    PROVE  topLevelMapping(n) <=> ~LosesAnchor(d, u)
<1>1. Len(n) \in Nat /\ Len(d) \in Nat /\ Len(d) <= Len(n) /\ n \in Document
  BY DEF RewriteOf
<1>2. \A i \in 1..Len(d) :
         /\ Replaced(d, u, i) => n[i] = Line(d[i].key, u[d[i].key])
         /\ ~Replaced(d, u, i) => n[i] = d[i]
  BY Zenon DEF RewriteOf
<1>3. \A i \in (Len(d) + 1)..Len(n) : n[i].key # None => n[i].form # "alias"
  <2>1. EnrollComment.key = None
    BY DEF EnrollComment
  <2>2. "line" # "alias"
    OBVIOUS
  <2> QED
    BY <2>1, <2>2, NewEntry, Zenon
<1>4. \A i \in 1..Len(d) : Replaced(d, u, i) => d[i].form = "line"
  <2>1. ASSUME NEW i \in 1..Len(d), Replaced(d, u, i)
        PROVE  d[i].form = "line"
    <3>1. i # 0 /\ d[i].key \in DOMAIN u /\ mappingEntry(d, d[i].key) = i
      BY <1>1, <2>1 DEF Replaced
    <3> QED
      BY <3>1, Zenon DEF CannotRewrite, isSingleLineEntry
  <2> QED
    BY <2>1
<1>5. DOMAIN d = 1..Len(d) /\ DOMAIN n = 1..Len(n)
  BY <1>1 DEF Document
<1>6. PICK x \in 1..Len(d) : d[x].key # None
  BY <1>5, Zenon DEF CannotRewrite, topLevelMapping
<1>7. ASSUME NEW i \in 1..Len(d)
      PROVE  n[i].key = d[i].key
  BY OldEntry
<1>8. ASSUME topLevelMapping(n), LosesAnchor(d, u)
      PROVE  FALSE
  <2>1. PICK i \in 1..Len(d) :
           /\ d[i].key # None /\ d[i].form = "alias"
           /\ \A j \in 1..(i - 1) : d[j].key # None /\ d[j].anchor => Replaced(d, u, j)
    BY <1>5, <1>8, Zenon DEF LosesAnchor
  <2>2. "line" # "alias"
    OBVIOUS
  <2>3. n[i] = d[i]
    BY <1>2, <1>4, <2>1, <2>2, Zenon
  <2>4. i \in 1..Len(n)
    BY <1>1
  <2>5. PICK j \in 1..(i - 1) : n[j].key # None /\ n[j].anchor
    BY <1>5, <1>8, <2>1, <2>3, <2>4, Zenon DEF topLevelMapping
  <2>6. j \in 1..Len(d)
    BY <1>1
  <2>7. CASE Replaced(d, u, j)
    BY <2>5, <2>6, <2>7, OldEntry, Zenon
  <2>8. CASE ~Replaced(d, u, j)
    BY <1>2, <2>1, <2>5, <2>6, <2>8, Zenon
  <2> QED
    BY <2>7, <2>8
<1>9. ASSUME ~LosesAnchor(d, u)
      PROVE  topLevelMapping(n)
  <2>1. x \in DOMAIN n /\ n[x].key # None
    BY <1>1, <1>5, <1>6, <1>7
  <2>2. ASSUME NEW i \in 1..Len(n), n[i].key # None, n[i].form = "alias"
        PROVE  \E j \in 1..(i - 1) : n[j].key # None /\ n[j].anchor
    <3>1. i \in 1..Len(d)
      BY <1>1, <1>3, <2>2
    <3>2. "line" # "alias"
      OBVIOUS
    <3>3. n[i] = d[i]
      BY <2>2, <3>1, <3>2, OldEntry, Zenon
    <3>4. PICK j \in 1..(i - 1) : d[j].key # None /\ d[j].anchor /\ ~Replaced(d, u, j)
      BY <1>5, <1>9, <2>2, <3>1, <3>3, Zenon DEF LosesAnchor
    <3>5. j \in 1..Len(d)
      BY <1>1, <3>1
    <3>6. n[j] = d[j]
      BY <1>2, <3>4, <3>5, Zenon
    <3> QED
      BY <3>4, <3>6, Zenon
  <2> QED
    BY <1>5, <2>1, <2>2, Zenon DEF topLevelMapping
<1> QED
  BY <1>8, <1>9

\* The operator's lines survive a rewrite in their places.
LEMMA UntouchedKept ==
    ASSUME NEW d \in Document, NEW u \in Updates, NEW n, RewriteOf(n, d, u)
    PROVE  Untouched(n) = Untouched(d)
<1> DEFINE Mine(x) == IF x.key = None THEN x.by = "operator" ELSE x.key \notin Settable
<1>1. Len(n) \in Nat /\ Len(d) \in Nat /\ Len(d) <= Len(n) /\ n \in Document
  BY DEF RewriteOf
<1>2. DOMAIN d = 1..Len(d) /\ DOMAIN n = 1..Len(n)
  BY <1>1 DEF Document
<1>3. ASSUME NEW k \in DOMAIN u
      PROVE  ~Mine(Line(k, u[k]))
  <2>1. k # None /\ k \in Settable
    BY UpdateFacts, Zenon
  <2>2. Line(k, u[k]).key = k
    BY LineFields, Zenon
  <2> QED
    BY <2>1, <2>2, Zenon
<1>4. ~Mine(EnrollComment)
  BY DEF EnrollComment
<1>5. \A i \in (Len(d) + 1)..Len(n) : ~Mine(n[i])
  <2>1. \A i \in (Len(d) + 1)..Len(n) :
           n[i] = EnrollComment \/ \E k \in DOMAIN u : n[i] = Line(k, u[k])
    BY Zenon DEF RewriteOf
  <2> HIDE DEF Mine
  <2> QED
    BY <1>3, <1>4, <2>1, Zenon
<1>6. ASSUME NEW i \in 1..Len(d)
      PROVE  /\ Mine(n[i]) <=> Mine(d[i])
             /\ Mine(d[i]) => n[i] = d[i]
  <2>1. /\ Replaced(d, u, i) => n[i] = Line(d[i].key, u[d[i].key])
        /\ ~Replaced(d, u, i) => n[i] = d[i]
    BY Zenon DEF RewriteOf
  <2>2. CASE ~Replaced(d, u, i)
    BY <2>1, <2>2, Zenon
  <2>3. CASE Replaced(d, u, i)
    <3>1. n[i] = Line(d[i].key, u[d[i].key]) /\ d[i].key \in DOMAIN u
      BY <2>1, <2>3, Zenon DEF Replaced
    <3>2. ~Mine(n[i])
      BY <1>3, <3>1, Zenon
    <3>3. ~Mine(d[i])
      BY <3>1, UpdateFacts, Zenon
    <3> QED
      BY <3>2, <3>3
  <2> QED
    BY <2>2, <2>3
<1>7. /\ Untouched(n) = {<<i, n[i]>> : i \in {j \in 1..Len(n) : Mine(n[j])}}
      /\ Untouched(d) = {<<i, d[i]>> : i \in {j \in 1..Len(d) : Mine(d[j])}}
  BY <1>2, Zenon DEF Untouched
<1> HIDE DEF Mine
<1>8. \A i \in 1..Len(n) : Mine(n[i]) => i \in 1..Len(d) /\ Mine(d[i]) /\ n[i] = d[i]
  <2>1. \A i \in 1..Len(n) : i \in 1..Len(d) \/ i \in (Len(d) + 1)..Len(n)
    BY <1>1
  <2> QED
    BY <1>5, <1>6, <2>1, Zenon
<1>9. \A i \in 1..Len(d) : Mine(d[i]) => i \in 1..Len(n) /\ Mine(n[i]) /\ n[i] = d[i]
  <2>1. \A i \in 1..Len(d) : i \in 1..Len(n)
    BY <1>1
  <2> QED
    BY <1>6, <2>1, Zenon
<1> QED
  BY <1>7, <1>8, <1>9

-----------------------------------------------------------------------------
(* What the next login loads *)

Anchored(x) == x.key # None /\ x.anchor

\* Resolved finds the only anchor before an alias.
LEMMA ResolvedOnly ==
    ASSUME NEW d, NEW i \in Nat, d[i].form = "alias", NEW j \in 1..(i - 1), Anchored(d[j]),
           \A m \in 1..(i - 1) : Anchored(d[m]) => m = j
    PROVE  Resolved(d, i) = d[j].val
<1> DEFINE I == {m \in 1..(i - 1) : Anchored(d[m])}
<1>1. SelectLastInSubSeq(d, 1, i - 1, LAMBDA x : x.key # None /\ x.anchor)
      = IF I # {} THEN Max(I) ELSE 0
  BY Zenon DEF SelectLastInSubSeq, Anchored
<1>2. I = {j}
  BY Zenon
<1>3. j >= j
  OBVIOUS
<1>4. Max({j}) = j
  BY <1>3, Zenon DEF Max
<1>5. SelectLastInSubSeq(d, 1, i - 1, LAMBDA x : x.key # None /\ x.anchor) = j
  BY <1>1, <1>2, <1>4, Zenon
<1> QED
  BY <1>5, Zenon DEF Resolved

\* A key that the rewrite does not set: its entry is where and what it was.
LEMMA EntryKept ==
    ASSUME NEW d \in Document, NEW u \in Updates, NEW n, RewriteOf(n, d, u),
           NEW k, k # None, k \notin DOMAIN u
    PROVE  /\ mappingEntry(n, k) = mappingEntry(d, k)
           /\ mappingEntry(d, k) # 0 => /\ mappingEntry(d, k) \in 1..Len(d)
                                        /\ n[mappingEntry(d, k)] = d[mappingEntry(d, k)]
<1>1. Len(n) \in Nat /\ Len(d) \in Nat /\ Len(d) <= Len(n)
  BY DEF RewriteOf
<1>2. \A i \in 1..Len(d) : n[i].key = d[i].key
  BY OldEntry
<1>3. \A i \in (Len(d) + 1)..Len(n) : n[i].key # k
  <2>1. EnrollComment.key = None
    BY DEF EnrollComment
  <2> QED
    BY <2>1, NewEntry, Zenon
<1>4. \A i \in 1..Len(n) : n[i].key = k => i \in 1..Len(d) /\ d[i].key = k
  BY <1>1, <1>2, <1>3
<1>5. CASE mappingEntry(d, k) = 0
  BY <1>1, <1>4, <1>5, EntryIsFirst
<1>6. CASE mappingEntry(d, k) # 0
  <2> DEFINE i == mappingEntry(d, k)
  <2>1. /\ i \in 1..Len(d) /\ d[i].key = k
        /\ \A j \in 1..Len(d) : d[j].key = k => i <= j
    BY <1>1, <1>6, EntryIsFirst
  <2>2. ~Replaced(d, u, i)
    BY <2>1, Zenon DEF Replaced
  <2>3. n[i] = d[i]
    BY <2>1, <2>2, Zenon DEF RewriteOf
  <2> HIDE DEF i
  <2>4. mappingEntry(n, k) = i
    BY <1>1, <1>2, <1>4, <2>1, FirstIsEntry
  <2> QED
    BY <2>1, <2>3, <2>4 DEF i
<1> QED
  BY <1>5, <1>6

\* Its value is what it was, an alias resolved.
LEMMA ResolvedKept ==
    ASSUME NEW d \in Document, NEW u \in Updates, NEW n, RewriteOf(n, d, u),
           topLevelMapping(d), topLevelMapping(n), AnchorOnce(d),
           NEW i \in 1..Len(d), d[i].key # None, n[i] = d[i]
    PROVE  Resolved(n, i) = Resolved(d, i)
<1>1. Len(n) \in Nat /\ Len(d) \in Nat /\ Len(d) <= Len(n) /\ n \in Document
  BY DEF RewriteOf
<1>2. DOMAIN d = 1..Len(d) /\ DOMAIN n = 1..Len(n)
  BY <1>1 DEF Document
<1>3. CASE d[i].form # "alias"
  BY <1>3, Zenon DEF Resolved
<1>4. CASE d[i].form = "alias"
  <2>1. i \in Nat /\ i \in 1..Len(n) /\ \A m \in 1..(i - 1) : m \in 1..Len(d)
    BY <1>1
  <2>2. \A m \in 1..(i - 1) : Anchored(n[m]) => Anchored(d[m]) /\ n[m] = d[m]
    BY <2>1, OldEntry, Zenon DEF Anchored
  <2>3. \A m, l \in 1..(i - 1) : Anchored(d[m]) /\ Anchored(d[l]) => m = l
    BY <1>2, <2>1, Zenon DEF AnchorOnce, Anchored
  <2>4. PICK j \in 1..(i - 1) : Anchored(n[j])
    BY <1>2, <1>4, <2>1, Zenon DEF topLevelMapping, Anchored
  <2>5. Anchored(d[j]) /\ n[j] = d[j]
    BY <2>2, <2>4, Zenon
  <2>6. /\ \A m \in 1..(i - 1) : Anchored(d[m]) => m = j
        /\ \A m \in 1..(i - 1) : Anchored(n[m]) => m = j
    BY <2>2, <2>3, <2>5, Zenon
  <2>7. Resolved(d, i) = d[j].val
    BY <1>4, <2>1, <2>5, <2>6, ResolvedOnly, Zenon
  <2>8. Resolved(n, i) = n[j].val
    BY <1>4, <2>1, <2>4, <2>6, ResolvedOnly, Zenon
  <2> QED
    BY <2>5, <2>7, <2>8, Zenon
<1> QED
  BY <1>3, <1>4, Zenon

\* What the rewritten document says.
LEMMA FieldAfter ==
    ASSUME NEW d \in Document, NEW u \in Updates, NEW n, RewriteOf(n, d, u),
           topLevelMapping(d), topLevelMapping(n), AnchorOnce(d), NEW k, k # None
    PROVE  /\ k \in DOMAIN u => Field(n, k) = TrimSpace(u[k])
           /\ k \notin DOMAIN u => Field(n, k) = Field(d, k)
<1>1. CASE k \in DOMAIN u
  <2>1. PICK i : i = mappingEntry(n, k)
    OBVIOUS
  <2>2. i \in 1..Len(n) /\ n[i] = Line(k, u[k])
    BY <1>1, <2>1, EntryAfter, Zenon
  <2>3. i # 0
    BY <2>2
  <2>4. n[i].form # "alias"
    <3>1. "line" # "alias"
      OBVIOUS
    <3> QED
      BY <2>2, <3>1, LineFields, Zenon
  <2>5. n[i].val = u[k]
    BY <2>2 DEF Line
  <2>6. Resolved(n, i) = u[k]
    BY <2>4, <2>5, Zenon DEF Resolved
  <2> QED
    BY <1>1, <2>1, <2>3, <2>6, Zenon DEF Field
<1>2. CASE k \notin DOMAIN u
  <2>1. PICK i : i = mappingEntry(d, k)
    OBVIOUS
  <2>2. mappingEntry(n, k) = i /\ (i # 0 => i \in 1..Len(d) /\ n[i] = d[i])
    <3>1. /\ mappingEntry(n, k) = mappingEntry(d, k)
          /\ mappingEntry(d, k) # 0 => /\ mappingEntry(d, k) \in 1..Len(d)
                                       /\ n[mappingEntry(d, k)] = d[mappingEntry(d, k)]
      BY <1>2, EntryKept
    <3> QED
      BY <2>1, <3>1, Zenon
  <2>3. i # 0 => d[i].key = k
    <3>1. Len(d) \in Nat
      BY DEF RewriteOf
    <3> QED
      BY <2>1, <3>1, EntryIsFirst
  <2>4. i # 0 => Resolved(n, i) = Resolved(d, i)
    BY <2>2, <2>3, ResolvedKept, Zenon
  <2> QED
    BY <1>2, <2>1, <2>2, <2>4, Zenon DEF Field
<1> QED
  BY <1>1, <1>2, Zenon

\* A rewrite brings in neither an unknown key nor a second entry of one.
LEMMA DecodeAfter ==
    ASSUME NEW d \in Document, NEW u \in Updates, NEW n, RewriteOf(n, d, u), decode(d)
    PROVE  decode(n) <=> topLevelMapping(n)
<1>1. Len(n) \in Nat /\ Len(d) \in Nat /\ Len(d) <= Len(n) /\ n \in Document
  BY DEF RewriteOf
<1>2. DOMAIN d = 1..Len(d) /\ DOMAIN n = 1..Len(n)
  BY <1>1 DEF Document
<1>3. \A i \in 1..Len(d) : d[i].key # None => d[i].key \in Known /\ mappingEntry(d, d[i].key) = i
  BY <1>2, Zenon DEF decode
<1>4. ASSUME NEW i \in 1..Len(n), n[i].key # None
      PROVE  n[i].key \in Known /\ mappingEntry(n, n[i].key) = i
  <2>1. CASE i \in 1..Len(d)
    <3>1. PICK k : k = d[i].key
      OBVIOUS
    <3>2. n[i].key = k
      BY <2>1, <3>1, OldEntry
    <3>3. k \in Known /\ mappingEntry(d, k) = i /\ k # None
      BY <1>3, <1>4, <2>1, <3>1, <3>2, Zenon
    <3>4. i # 0
      OBVIOUS
    <3>5. mappingEntry(n, k) = i
      <4>1. k \in DOMAIN u => mappingEntry(n, k) = mappingEntry(d, k)
        BY <3>3, <3>4, EntryAfter
      <4>2. k \notin DOMAIN u => mappingEntry(n, k) = mappingEntry(d, k)
        BY <3>3, EntryKept
      <4> QED
        BY <3>3, <4>1, <4>2, Zenon
    <3> QED
      BY <3>2, <3>3, <3>5, Zenon
  <2>2. CASE i \in (Len(d) + 1)..Len(n)
    <3>1. n[i].key \in DOMAIN u
      <4>1. EnrollComment.key = None
        BY DEF EnrollComment
      <4> QED
        BY <1>4, <2>2, <4>1, NewEntry, Zenon
    <3>2. n[i].key \in Known
      BY <3>1, UpdateFacts DEF Settable, Always, Known
    <3>3. mappingEntry(d, n[i].key) = 0
      <4>1. EnrollComment.key = None
        BY DEF EnrollComment
      <4> QED
        BY <1>4, <2>2, <4>1, Zenon DEF RewriteOf
    <3>4. mappingEntry(n, n[i].key) \in (Len(d) + 1)..Len(n)
      BY <3>1, <3>3, EntryAfter, Zenon
    <3>5. n[mappingEntry(n, n[i].key)].key = n[i].key
      <4>1. n[mappingEntry(n, n[i].key)] = Line(n[i].key, u[n[i].key])
        BY <3>1, EntryAfter, Zenon
      <4> QED
        BY <4>1, LineFields, Zenon
    <3>6. mappingEntry(n, n[i].key) = i
      BY <2>2, <3>4, <3>5, Zenon DEF RewriteOf
    <3> QED
      BY <3>2, <3>6
  <2> QED
    BY <1>1, <2>1, <2>2
<1> QED
  BY <1>2, <1>4, Zenon DEF decode

\* What validate asks of the keys that an enrolment sets.
LEMMA AcceptsSet ==
    ASSUME NEW v, v # None
    PROVE  /\ Accepts("issuer", v) <=> v.shape = "plain"
           /\ Accepts("client_id", v)
           /\ Accepts("host_id", v) <=> v.shape # "spaced"
           /\ Accepts("api_base", v) <=> v.shape = "plain"
<1>1. /\ "client_id" \notin {"issuer", "users"} /\ "host_id" \notin {"issuer", "users", "client_id"}
      /\ "api_base" \notin {"issuer", "users", "client_id", "host_id"}
  OBVIOUS
<1>2. Accepts("issuer", v) <=> v.shape = "plain"
  BY Zenon DEF Accepts
<1>3. Accepts("client_id", v)
  BY <1>1, Zenon DEF Accepts
<1>4. Accepts("host_id", v) <=> v.shape # "spaced"
  BY <1>1, Zenon DEF Accepts
<1>5. Accepts("api_base", v) <=> v.shape = "plain"
  BY <1>1, Zenon DEF Accepts
<1> QED
  BY <1>2, <1>3, <1>4, <1>5, Zenon

LEMMA Trimmed ==
    ASSUME NEW v \in Value
    PROVE  /\ TrimSpace(v) # None
           /\ TrimSpace(v).shape = IF v.shape = "padded" THEN "plain" ELSE v.shape
<1>1. TrimSpace(v) \in Value /\ TrimSpace(v).shape = IF v.shape = "padded" THEN "plain" ELSE v.shape
  BY DEF TrimSpace, Value
<1> QED
  BY <1>1, ConfigFileAssumption

\* When a rewrite of a valid configuration can be loaded, and what it says then.
LoadsBack(n, d, u) ==
    /\ Parse(n) <=> /\ ~LosesAnchor(d, u)
                    /\ u["host_id"].shape # "spaced"
                    /\ "issuer" \in DOMAIN u => u["issuer"].shape # "userinfo"
    /\ Parse(n) => \A k \in Known :
          Field(n, k) = IF k \in DOMAIN u THEN TrimSpace(u[k]) ELSE Field(d, k)

\* A valid configuration, rewritten, can be loaded but for those three reasons.
LEMMA RewriteLoadsBack ==
    ASSUME NEW d \in Document, NEW u \in Updates, NEW n, RewriteOf(n, d, u),
           ~CannotRewrite(d, u), Parse(d), AnchorOnce(d)
    PROVE  LoadsBack(n, d, u)
<1>1. decode(d) /\ topLevelMapping(d) /\ \A k \in Known : Accepts(k, Field(d, k))
  BY Zenon DEF Parse, decode
<1>2. decode(n) <=> topLevelMapping(n)
  BY <1>1, DecodeAfter, Zenon
<1>3. topLevelMapping(n) <=> ~LosesAnchor(d, u)
  BY StillMapping, Zenon
<1>4. \A k \in Known : k # None
  BY ConfigFileAssumption DEF Keys
<1>5. ASSUME topLevelMapping(n), NEW k \in Known
      PROVE  Field(n, k) = IF k \in DOMAIN u THEN TrimSpace(u[k]) ELSE Field(d, k)
  <2>1. k # None
    BY <1>4
  <2>2. /\ k \in DOMAIN u => Field(n, k) = TrimSpace(u[k])
        /\ k \notin DOMAIN u => Field(n, k) = Field(d, k)
    BY <1>1, <1>5, <2>1, FieldAfter
  <2> QED
    BY <2>2, Zenon
<1>6. Parse(n) => topLevelMapping(n)
  BY <1>2, Zenon DEF Parse
<1>7. /\ {"host_id", "api_base"} \subseteq DOMAIN u
      /\ \A k \in DOMAIN u : u[k] \in Value
      /\ DOMAIN u \subseteq {"api_base", "host_id", "client_id", "issuer"}
      /\ {"api_base", "host_id", "client_id", "issuer"} \subseteq Known
      /\ u["api_base"].shape = "plain"
      /\ "issuer" \in DOMAIN u => u["issuer"].shape \in {"plain", "userinfo"}
  BY ConfigFileAssumption DEF Always, Settable, Known
<1>8. ASSUME NEW k \in DOMAIN u
      PROVE  /\ TrimSpace(u[k]) # None
             /\ TrimSpace(u[k]).shape = IF u[k].shape = "padded" THEN "plain" ELSE u[k].shape
  BY <1>7, Trimmed
<1>9. ASSUME topLevelMapping(n)
      PROVE  (\A k \in Known : Accepts(k, Field(n, k))) <=>
                /\ u["host_id"].shape # "spaced"
                /\ "issuer" \in DOMAIN u => u["issuer"].shape # "userinfo"
  <2>1. Accepts("host_id", TrimSpace(u["host_id"])) <=> u["host_id"].shape # "spaced"
    BY <1>7, <1>8, AcceptsSet
  <2>2. "issuer" \in DOMAIN u =>
           (Accepts("issuer", TrimSpace(u["issuer"])) <=> u["issuer"].shape # "userinfo")
    BY <1>7, <1>8, AcceptsSet
  <2>3. Accepts("api_base", TrimSpace(u["api_base"]))
    BY <1>7, <1>8, AcceptsSet
  <2>4. "client_id" \in DOMAIN u => Accepts("client_id", TrimSpace(u["client_id"]))
    BY <1>8, AcceptsSet
  <2>5. \A k \in Known : k \notin DOMAIN u => Accepts(k, Field(n, k))
    BY <1>1, <1>5, <1>9, Zenon
  <2>6. \A k \in DOMAIN u : k \in Known /\ Field(n, k) = TrimSpace(u[k])
    BY <1>5, <1>7, <1>9, Zenon
  <2>7. "host_id" \in DOMAIN u /\ \A k \in DOMAIN u : k \in {"api_base", "host_id", "client_id", "issuer"}
    BY <1>7, Zenon
  <2> QED
    BY <2>1, <2>2, <2>3, <2>4, <2>5, <2>6, <2>7, Zenon
<1> QED
  BY <1>2, <1>3, <1>5, <1>6, <1>9, Zenon DEF LoadsBack, Parse

-----------------------------------------------------------------------------
(* The invariant *)

PC == {"idle", "approval", "read", "open", "done", "failed", "crashed"} \cup Writing

\* An open file that is called path.tmp exists.
TmpLinked == \A e \in Editors : fd[e] = "tmp" => tmp # None

\* What an enrolment writes is the rewrite of what it read.
RewriteOK ==
    \A e \in Editors :
        /\ pc[e] = "read" => upd[e] \in Updates
        /\ pc[e] \in {"idle", "approval", "read"} => new[e] = None
        /\ pc[e] \in {"read", "open"} \cup Writing => info[e] # None
        /\ pc[e] \in {"open"} \cup Writing => new[e] # None
        /\ new[e] # None =>
              /\ old[e] \in Document /\ upd[e] \in Updates
              /\ ~CannotRewrite(old[e], upd[e])
              /\ new[e] = withConfigValues(old[e], upd[e])

\* As long as no two enrolments wrote at once, path.tmp belongs to the one that
\* is writing, from its truncation to its rename.
OneWriter ==
    \A x, y \in Editors : pc[x] \in Writing /\ pc[y] \in Writing => x = y
OwnsTmp(e) ==
    /\ fd[e] \in {"closed", "tmp"}
    /\ pc[e] = "write" => fd[e] = "tmp" /\ tmp # None /\ tmp.doc = <<>>
    /\ pc[e] \in {"chown", "rename"} => tmp # None /\ tmp.doc = new[e]
    /\ pc[e] = "rename" => tmp.owner = "shared"
    /\ pc[e] \in {"read", "open"} \cup Writing => info[e] = "shared"
FileWhole ==
    /\ Readable(file)
    /\ file.doc = operatorDoc \/ \E e \in Editors : pc[e] = "done" /\ file.doc = new[e]
Solo == OneWriter /\ (\A e \in Editors : OwnsTmp(e)) /\ FileWhole

SoloOK == ~overlapped => Solo

\* Then too, the file is as an enrolment has read it until it is replaced.
ReadCurrent ==
    \A e \in Editors : pc[e] \in {"open"} \cup Writing /\ e \notin dirty => old[e] = file.doc
CurrentOK == ~overlapped => ReadCurrent

TypeInv == TypeOK /\ TmpLinked /\ RewriteOK

IInv == TypeInv /\ SoloOK /\ CurrentOK /\ OperatorEditSurvives

-----------------------------------------------------------------------------
(* Bytes and files *)

\* A part of a document is one.
LEMMA PrefixDocument ==
    ASSUME NEW d \in Document, NEW n \in Int, n <= Len(d)
    PROVE  SubSeq(d, 1, n) \in Document
<1>1. PICK S : S = Entry \cup Comment
  OBVIOUS
<1>2. d \in Seq(S)
  BY <1>1 DEF Document
<1>3. SubSeq(d, 1, n) \in Seq(S)
  BY <1>2
<1> QED
  BY <1>1, <1>3 DEF Document

\* So is a document written over another.
LEMMA OverwriteDocument ==
    ASSUME NEW c \in Document, NEW b \in Document
    PROVE  Overwrite(c, b) \in Document
<1>1. PICK S : S = Entry \cup Comment
  OBVIOUS
<1>2. c \in Seq(S) /\ b \in Seq(S)
  BY <1>1 DEF Document
<1>3. SubSeq(c, Len(b) + 1, Len(c)) \in Seq(S)
  BY <1>2
<1>4. b \o SubSeq(c, Len(b) + 1, Len(c)) \in Seq(S)
  BY <1>2, <1>3
<1> QED
  BY <1>1, <1>4 DEF Document, Overwrite

\* A whole document written into an empty file.
LEMMA OverwriteEmpty ==
    ASSUME NEW b \in Document
    PROVE  Overwrite(<<>>, SubSeq(b, 1, Len(b))) = b
<1>1. PICK S : S = Entry \cup Comment
  OBVIOUS
<1>2. b \in Seq(S) /\ Len(b) \in Nat
  BY <1>1 DEF Document
<1>3. SubSeq(b, 1, Len(b)) = b
  BY <1>2
<1>4. SubSeq(<<>>, Len(b) + 1, Len(<<>>)) = <<>>
  BY <1>2
<1>5. b \o <<>> = b
  BY <1>2
<1> QED
  BY <1>3, <1>4, <1>5 DEF Overwrite

\* What a write, cut short or not, does to the two files.
LEMMA PutBytesType ==
    ASSUME TypeInv, NEW e \in Editors, pc[e] = "write",
           NEW n \in Cut(e) \cup {Len(new[e])}, PutBytes(e, n)
    PROVE  /\ file' \in File
           /\ tmp' \in File \cup {None}
           /\ tmp' = None <=> tmp = None
           /\ fd' = [fd EXCEPT ![e] = "closed"]
           /\ statusVars' = statusVars /\ edits' = edits /\ history' = history
<1>1. new[e] \in Document
  BY DEF TypeInv, TypeOK, RewriteOK, Writing
<1>2. Len(new[e]) \in Nat
  BY <1>1 DEF Document
<1>3. n \in Int /\ n <= Len(new[e])
  BY <1>2 DEF Cut
<1>4. PICK b \in Document : b = SubSeq(new[e], 1, n)
  BY <1>1, <1>3, PrefixDocument
<1>5. /\ tmp' = IF fd[e] = "tmp" THEN [tmp EXCEPT !.doc = Overwrite(@, b)] ELSE tmp
      /\ file' = IF fd[e] = "path" THEN [file EXCEPT !.doc = Overwrite(@, b)] ELSE file
      /\ fd' = [fd EXCEPT ![e] = "closed"]
      /\ statusVars' = statusVars /\ edits' = edits /\ history' = history
  BY <1>4, Zenon DEF PutBytes
<1>6. file \in File /\ tmp \in File \cup {None} /\ (fd[e] = "tmp" => tmp # None)
  BY DEF TypeInv, TypeOK, TmpLinked
<1>7. ASSUME NEW x \in File
      PROVE  [x EXCEPT !.doc = Overwrite(@, b)] \in File
  <2>1. Overwrite(x.doc, b) \in Document
    BY <1>7, OverwriteDocument DEF File
  <2> QED
    BY <2>1 DEF File
<1>8. file' \in File
  BY <1>5, <1>6, <1>7
<1>9. tmp' \in File \cup {None} /\ (tmp' = None <=> tmp = None)
  <2>1. CASE fd[e] = "tmp"
    <3>1. tmp \in File /\ tmp' = [tmp EXCEPT !.doc = Overwrite(@, b)]
      BY <1>5, <1>6, <2>1
    <3>2. tmp' \in File
      BY <1>7, <3>1
    <3> QED
      BY <3>1, <3>2, ConfigFileAssumption
  <2>2. CASE fd[e] # "tmp"
    BY <1>5, <1>6, <2>2
  <2> QED
    BY <2>1, <2>2
<1> QED
  BY <1>5, <1>8, <1>9

-----------------------------------------------------------------------------
(* Types, and what is written *)

\* RewriteOK for one enrolment, in any state of it.
Rewrites(p, o, d, n, u) ==
    /\ p = "read" => u \in Updates
    /\ p \in {"idle", "approval", "read"} => n = None
    /\ p \in {"read", "open"} \cup Writing => o # None
    /\ p \in {"open"} \cup Writing => n # None
    /\ n # None => /\ d \in Document /\ u \in Updates
                   /\ ~CannotRewrite(d, u)
                   /\ n = withConfigValues(d, u)

\* RewriteOK, before and after a step.
LEMMA RewriteOKIs ==
    /\ RewriteOK <=> \A e \in Editors : Rewrites(pc[e], info[e], old[e], new[e], upd[e])
    /\ RewriteOK' <=> \A e \in Editors : Rewrites(pc'[e], info'[e], old'[e], new'[e], upd'[e])
<1>1. RewriteOK <=> \A e \in Editors : Rewrites(pc[e], info[e], old[e], new[e], upd[e])
  BY Zenon DEF RewriteOK, Rewrites
<1>2. RewriteOK' <=> \A e \in Editors : Rewrites(pc'[e], info'[e], old'[e], new'[e], upd'[e])
  BY Zenon DEF RewriteOK, Rewrites
<1> QED
  BY <1>1, <1>2

\* An enrolment moves on with what it has.
LEMMA MovesOn ==
    ASSUME TypeInv, NEW e \in Editors, NEW x \in PC, pc' = [pc EXCEPT ![e] = x],
           upd' = upd, info' = info, new' = new,
           \A y \in Editors : new[y] # None => old'[y] = old[y],
           x \notin {"idle", "read", "open"}, x = "approval" => pc[e] = "idle",
           x \in Writing => pc[e] \in {"open"} \cup Writing
    PROVE  RewriteOK' /\ pc' \in [Editors -> PC]
<1>1. pc' \in [Editors -> PC] /\ pc'[e] = x /\ \A y \in Editors : y # e => pc'[y] = pc[y]
  BY DEF TypeInv, TypeOK, PC
<1>2. \A y \in Editors : Rewrites(pc[y], info[y], old[y], new[y], upd[y])
  BY RewriteOKIs DEF TypeInv
<1>3. Rewrites(x, info[e], old'[e], new[e], upd[e])
  <2>1. Rewrites(pc[e], info[e], old[e], new[e], upd[e])
    BY <1>2
  <2> QED
    BY <2>1 DEF Rewrites
<1>4. ASSUME NEW y \in Editors
      PROVE  Rewrites(pc'[y], info'[y], old'[y], new'[y], upd'[y])
  <2>1. Rewrites(pc[y], info[y], old'[y], new[y], upd[y])
    <3>1. Rewrites(pc[y], info[y], old[y], new[y], upd[y])
      BY <1>2
    <3> QED
      BY <3>1 DEF Rewrites
  <2> QED
    BY <1>1, <1>3, <2>1
<1> QED
  BY <1>1, <1>4, RewriteOKIs

\* An enrolment ends without having replaced the file.
LEMMA Forgets ==
    ASSUME TypeInv, NEW e \in Editors, NEW x \in {"failed", "crashed"},
           pc' = [pc EXCEPT ![e] = x], Forget(e)
    PROVE  /\ RewriteOK' /\ pc' \in [Editors -> PC]
           /\ upd' \in [Editors -> Updates \cup {None}]
           /\ info' \in [Editors -> {"root", "shared", None}]
           /\ old' \in [Editors -> Document \cup {None}]
           /\ new' \in [Editors -> Document \cup {None}]
           /\ new'[e] = None /\ \A y \in Editors : y # e => new'[y] = new[y] /\ info'[y] = info[y]
<1>1. pc' \in [Editors -> PC] /\ pc'[e] = x /\ \A y \in Editors : y # e => pc'[y] = pc[y]
  BY DEF TypeInv, TypeOK, PC
<1>2. /\ upd' \in [Editors -> Updates \cup {None}]
      /\ info' \in [Editors -> {"root", "shared", None}]
      /\ old' \in [Editors -> Document \cup {None}]
      /\ new' \in [Editors -> Document \cup {None}]
  BY DEF TypeInv, TypeOK, Forget
<1>3. /\ new'[e] = None
      /\ \A y \in Editors : y # e =>
            old'[y] = old[y] /\ new'[y] = new[y] /\ upd'[y] = upd[y] /\ info'[y] = info[y]
  BY DEF TypeInv, TypeOK, Forget
<1>4. \A y \in Editors : Rewrites(pc[y], info[y], old[y], new[y], upd[y])
  BY RewriteOKIs DEF TypeInv
<1>5. x \notin {"idle", "approval", "read", "open"} \cup Writing
  BY DEF Writing
<1>6. Rewrites(x, info'[e], old'[e], new'[e], upd'[e])
  BY <1>3, <1>5 DEF Rewrites
<1>7. \A y \in Editors : Rewrites(pc'[y], info'[y], old'[y], new'[y], upd'[y])
  BY <1>1, <1>3, <1>4, <1>6
<1> QED
  BY <1>1, <1>2, <1>3, <1>7, RewriteOKIs

\* A step of an enrolment that opens and closes nothing.
LEMMA FilesAsTheyAre ==
    ASSUME TypeInv, NEW e \in Editors, NEW x, pc' = [pc EXCEPT ![e] = x],
           pc[e] # "write", fd' = fd, tmp' = None <=> tmp = None
    PROVE  /\ fd' \in [Editors -> {"closed", "tmp", "path", "unlinked"}]
           /\ \A y \in Editors : fd'[y] # "closed" => pc'[y] = "write"
           /\ TmpLinked'
  BY DEF TypeInv, TypeOK, TmpLinked

\* A step of an enrolment that leaves status and the operator alone.
LEMMA OthersAsTheyAre ==
    ASSUME TypeOK, statusVars' = statusVars, edits' = edits, operatorDoc' = operatorDoc
    PROVE  /\ keyFile' \in {"good", "partial", "permissive", "unreadable", "missing", None}
           /\ spc' \in {"load", "probe", "files", "ok", "failed"}
           /\ problems' \subseteq {"provider", "config", "key", "host"}
           /\ seen' \in File \cup {None}
           /\ edits' \in 0..MaxEdits
           /\ operatorDoc' \in Documents
  BY DEF TypeOK, statusVars

\* Where a file that is open is linked after path.tmp got the name path.
AfterRename(f) == CASE f = "tmp"  -> "path"
                    [] f = "path" -> "unlinked"
                    [] OTHER      -> f

LEMMA Renamed ==
    /\ AfterRename("tmp") = "path" /\ AfterRename("path") = "unlinked"
    /\ AfterRename("closed") = "closed" /\ AfterRename("unlinked") = "unlinked"
<1>1. "tmp" # "path" /\ "closed" \notin {"tmp", "path"} /\ "unlinked" \notin {"tmp", "path"}
  OBVIOUS
<1> QED
  BY <1>1, Zenon DEF AfterRename

\* Every step keeps the types, and every enrolment's document a rewrite.
LEMMA TypeStep == TypeInv /\ [Next]_vars => TypeInv'
<1> SUFFICES ASSUME TypeInv, [Next]_vars
             PROVE  TypeInv'
  OBVIOUS
<1>t. TypeOK /\ TmpLinked /\ RewriteOK
  BY DEF TypeInv
<1>b. overlapped \in BOOLEAN /\ raced \in BOOLEAN /\ dirty \subseteq Editors
  BY <1>t, Zenon DEF TypeOK
<1>h. history' = history => /\ {overlapped', raced'} \subseteq BOOLEAN /\ dirty' \subseteq Editors
                            /\ operatorDoc' = operatorDoc
  BY <1>b, Zenon DEF history
<1>1. ASSUME NEW e \in Editors, LoadConfig(e)
      PROVE  TypeInv'
  <2>1. PICK x \in {"approval", "failed"} : pc' = [pc EXCEPT ![e] = x]
    BY <1>1, Zenon DEF LoadConfig, Step
  <2>2. /\ pc[e] = "idle"
        /\ old' = [old EXCEPT ![e] = file.doc]
        /\ UNCHANGED <<file, tmp, upd, info, new, fd, statusVars, edits, history>>
    BY <1>1, Zenon DEF LoadConfig, Step
  <2>6. /\ old' \in [Editors -> Document \cup {None}]
        /\ \A y \in Editors : new[y] # None => old'[y] = old[y]
    BY <1>t, <2>2 DEF TypeOK, File, RewriteOK
  <2>3. x \in PC /\ x \notin {"idle", "read", "open"} \cup Writing
    BY <2>1 DEF PC, Writing
  <2>4. RewriteOK' /\ pc' \in [Editors -> PC]
    BY <2>1, <2>2, <2>3, <2>6, MovesOn
  <2>5. /\ fd' \in [Editors -> {"closed", "tmp", "path", "unlinked"}]
        /\ \A y \in Editors : fd'[y] # "closed" => pc'[y] = "write"
        /\ TmpLinked'
    BY <2>1, <2>2, FilesAsTheyAre
  <2> QED
    BY <1>t, <1>h, <2>2, <2>4, <2>5, <2>6, OthersAsTheyAre DEF TypeInv, TypeOK, PC
<1>2. ASSUME NEW e \in Editors, NEW u \in Updates, StatFile(e, u)
      PROVE  TypeInv'
  <2>1. /\ pc[e] = "approval" /\ pc' = [pc EXCEPT ![e] = "read"]
        /\ upd' = [upd EXCEPT ![e] = u] /\ info' = [info EXCEPT ![e] = file.owner]
        /\ UNCHANGED <<file, tmp, old, new, fd, statusVars, edits, history>>
    BY <1>2, Zenon DEF StatFile, Step
  <2>2. /\ pc' \in [Editors -> PC] /\ pc'[e] = "read" /\ upd'[e] = u
        /\ upd' \in [Editors -> Updates \cup {None}] /\ info'[e] = file.owner
        /\ \A y \in Editors : y # e => pc'[y] = pc[y] /\ upd'[y] = upd[y] /\ info'[y] = info[y]
    BY <1>t, <2>1 DEF TypeOK, PC
  <2>3. \A y \in Editors : Rewrites(pc[y], info[y], old[y], new[y], upd[y])
    BY <1>t, RewriteOKIs
  <2>4. Rewrites("read", file.owner, old[e], new[e], u)
    <3>1. new[e] = None
      BY <1>t, <2>1 DEF RewriteOK
    <3>2. file.owner # None
      BY <1>t, ConfigFileAssumption DEF TypeOK, File
    <3> QED
      BY <3>1, <3>2 DEF Rewrites, Writing
  <2>5. \A y \in Editors : Rewrites(pc'[y], info'[y], old'[y], new'[y], upd'[y])
    BY <2>1, <2>2, <2>3, <2>4
  <2>6. RewriteOK'
    BY <2>5, RewriteOKIs
  <2>7. info' \in [Editors -> {"root", "shared", None}]
    BY <1>t, <2>1 DEF TypeOK, File
  <2>8. /\ fd' \in [Editors -> {"closed", "tmp", "path", "unlinked"}]
        /\ \A y \in Editors : fd'[y] # "closed" => pc'[y] = "write"
        /\ TmpLinked'
    BY <2>1, FilesAsTheyAre
  <2> QED
    BY <1>t, <1>h, <2>1, <2>2, <2>6, <2>7, <2>8, OthersAsTheyAre DEF TypeInv, TypeOK, PC
<1>3. ASSUME NEW e \in Editors, ReadFile(e)
      PROVE  TypeInv'
  <2> DEFINE n == withConfigValues(file.doc, upd[e])
  <2>1. /\ pc[e] = "read" /\ ~CannotRewrite(file.doc, upd[e])
        /\ old' = [old EXCEPT ![e] = file.doc] /\ new' = [new EXCEPT ![e] = n]
        /\ UNCHANGED <<file, tmp, upd, info, fd, statusVars, edits, history>>
    BY <1>3, Zenon DEF ReadFile, Step
  <2>2. PICK x \in {"done", "open"} : pc' = [pc EXCEPT ![e] = x]
    BY <1>3, Zenon DEF ReadFile, Step
  <2>3. file.doc \in Document /\ upd[e] \in Updates
    BY <1>t, <2>1 DEF TypeOK, File, RewriteOK
  <2>4. n \in Document
    BY <2>3, Rewritten DEF RewriteOf
  <2> HIDE DEF n
  <2>5. /\ pc' \in [Editors -> PC] /\ pc'[e] = x
        /\ old' \in [Editors -> Document \cup {None}] /\ old'[e] = file.doc
        /\ new' \in [Editors -> Document \cup {None}] /\ new'[e] = n
        /\ \A y \in Editors : y # e => pc'[y] = pc[y] /\ old'[y] = old[y] /\ new'[y] = new[y]
    BY <1>t, <2>1, <2>2, <2>3, <2>4 DEF TypeOK, PC
  <2>6. \A y \in Editors : Rewrites(pc[y], info[y], old[y], new[y], upd[y])
    BY <1>t, RewriteOKIs
  <2>7. Rewrites(x, info[e], file.doc, n, upd[e])
    <3>1. x \notin {"idle", "approval", "read"} /\ n # None /\ info[e] # None
      BY <1>t, <2>1, <2>2, <2>4, ConfigFileAssumption DEF RewriteOK
    <3> QED
      BY <2>1, <2>3, <3>1, Zenon DEF Rewrites, n
  <2>8. \A y \in Editors : Rewrites(pc'[y], info'[y], old'[y], new'[y], upd'[y])
    BY <2>1, <2>5, <2>6, <2>7
  <2>9. RewriteOK'
    BY <2>8, RewriteOKIs
  <2>10. /\ fd' \in [Editors -> {"closed", "tmp", "path", "unlinked"}]
         /\ \A y \in Editors : fd'[y] # "closed" => pc'[y] = "write"
         /\ TmpLinked'
    BY <2>1, <2>2, FilesAsTheyAre
  <2> QED
    BY <1>t, <1>h, <2>1, <2>5, <2>9, <2>10, OthersAsTheyAre DEF TypeInv, TypeOK, PC
<1>4. ASSUME NEW e \in Editors, RewriteFails(e) \/ OpenFails(e)
      PROVE  TypeInv'
  <2>1. /\ pc[e] \in {"read", "open"} /\ pc' = [pc EXCEPT ![e] = "failed"] /\ Forget(e)
        /\ UNCHANGED <<file, tmp, fd, statusVars, edits, history>>
    BY <1>4, Zenon DEF RewriteFails, OpenFails, Step
  <2>2. /\ RewriteOK' /\ pc' \in [Editors -> PC]
        /\ upd' \in [Editors -> Updates \cup {None}]
        /\ info' \in [Editors -> {"root", "shared", None}]
        /\ old' \in [Editors -> Document \cup {None}]
        /\ new' \in [Editors -> Document \cup {None}]
    BY <2>1, Forgets
  <2>3. /\ fd' \in [Editors -> {"closed", "tmp", "path", "unlinked"}]
        /\ \A y \in Editors : fd'[y] # "closed" => pc'[y] = "write"
        /\ TmpLinked'
    BY <2>1, FilesAsTheyAre
  <2> QED
    BY <1>t, <1>h, <2>1, <2>2, <2>3, OthersAsTheyAre DEF TypeInv, TypeOK, PC
<1>5. ASSUME NEW e \in Editors, OpenTmp(e)
      PROVE  TypeInv'
  <2>1. /\ pc[e] = "open" /\ pc' = [pc EXCEPT ![e] = "write"]
        /\ fd' = [fd EXCEPT ![e] = "tmp"]
        /\ tmp' = [doc |-> <<>>, owner |-> IF tmp = None THEN "root" ELSE tmp.owner]
        /\ UNCHANGED <<file, upd, info, old, new, statusVars, edits, operatorDoc, raced>>
    BY <1>5, Zenon DEF OpenTmp, Step
  <2>2. {overlapped', raced'} \subseteq BOOLEAN /\ dirty' \subseteq Editors
    BY <1>5, <1>b, Zenon DEF OpenTmp
  <2>4. RewriteOK' /\ pc' \in [Editors -> PC]
    BY <2>1, MovesOn DEF PC, Writing
  <2>5. tmp' \in File /\ tmp' # None
    <3>1. <<>> \in Document
      BY DEF Document
    <3>2. (IF tmp = None THEN "root" ELSE tmp.owner) \in {"root", "shared"}
      BY <1>t DEF TypeOK, File
    <3>3. tmp' \in File
      BY <2>1, <3>1, <3>2 DEF File
    <3> QED
      BY <3>3, ConfigFileAssumption
  <2>6. /\ fd' \in [Editors -> {"closed", "tmp", "path", "unlinked"}]
        /\ \A y \in Editors : fd'[y] # "closed" => pc'[y] = "write"
    BY <1>t, <2>1 DEF TypeOK
  <2>7. TmpLinked'
    BY <2>5 DEF TmpLinked
  <2> QED
    BY <1>t, <2>1, <2>2, <2>4, <2>5, <2>6, <2>7, OthersAsTheyAre DEF TypeInv, TypeOK, PC
<1>6. ASSUME NEW e \in Editors, WriteTmp(e) \/ WriteFails(e)
      PROVE  TypeInv'
  <2>1. pc[e] = "write" /\ UNCHANGED <<upd, info, old, new>>
    BY <1>6, Zenon DEF WriteTmp, WriteFails, Step
  <2>2. PICK x \in {"chown", "remove"} : pc' = [pc EXCEPT ![e] = x]
    BY <1>6, Zenon DEF WriteTmp, WriteFails, Step
  <2>3. PICK n \in Cut(e) \cup {Len(new[e])} : PutBytes(e, n)
    BY <1>6, Zenon DEF WriteTmp, WriteFails
  <2>4. /\ file' \in File /\ tmp' \in File \cup {None} /\ (tmp' = None <=> tmp = None)
        /\ fd' = [fd EXCEPT ![e] = "closed"]
        /\ statusVars' = statusVars /\ edits' = edits /\ history' = history
    BY <2>1, <2>3, PutBytesType
  <2>5. pc[e] \in Writing /\ x \in PC /\ x \notin {"idle", "read", "approval", "open"}
    BY <2>1, <2>2 DEF Writing, PC
  <2>6. RewriteOK' /\ pc' \in [Editors -> PC]
    BY <2>1, <2>2, <2>5, MovesOn
  <2>7. /\ fd' \in [Editors -> {"closed", "tmp", "path", "unlinked"}]
        /\ \A y \in Editors : fd'[y] # "closed" => pc'[y] = "write"
        /\ TmpLinked'
    BY <1>t, <2>1, <2>2, <2>4 DEF TypeOK, TmpLinked
  <2> QED
    BY <1>t, <1>h, <2>1, <2>4, <2>6, <2>7, OthersAsTheyAre DEF TypeInv, TypeOK, PC
<1>7. ASSUME NEW e \in Editors, ChownTmp(e) \/ ReplaceFails(e)
      PROVE  TypeInv'
  <2>1. /\ pc[e] \in {"chown", "rename"}
        /\ UNCHANGED <<file, upd, info, old, new, fd, statusVars, edits, history>>
    BY <1>7, Zenon DEF ChownTmp, ReplaceFails, Step
  <2>2. PICK x \in {"rename", "remove"} : pc' = [pc EXCEPT ![e] = x]
    BY <1>7, Zenon DEF ChownTmp, ReplaceFails, Step
  <2>3. tmp' = tmp \/ (pc[e] = "chown" /\ tmp # None /\ tmp' = [tmp EXCEPT !.owner = info[e]])
    BY <1>7, Zenon DEF ChownTmp, ReplaceFails, Step
  <2>4. tmp' \in File \cup {None} /\ (tmp' = None <=> tmp = None)
    <3>1. ASSUME tmp # None, tmp' = [tmp EXCEPT !.owner = info[e]]
          PROVE  tmp' \in File
      <4>1. info[e] \in {"root", "shared"} /\ tmp \in File
        BY <1>t, <2>1, <3>1 DEF TypeOK, RewriteOK, Writing
      <4> QED
        BY <3>1, <4>1 DEF File
    <3>2. tmp \in File \cup {None} /\ None \notin File
      BY <1>t, ConfigFileAssumption DEF TypeOK
    <3> QED
      BY <2>3, <3>1, <3>2
  <2>5. pc[e] \in Writing /\ pc[e] # "write" /\ x \in PC /\ x \notin {"idle", "read", "approval", "open"}
    BY <2>1, <2>2 DEF Writing, PC
  <2>6. RewriteOK' /\ pc' \in [Editors -> PC]
    BY <2>1, <2>2, <2>5, MovesOn
  <2>7. /\ fd' \in [Editors -> {"closed", "tmp", "path", "unlinked"}]
        /\ \A y \in Editors : fd'[y] # "closed" => pc'[y] = "write"
        /\ TmpLinked'
    BY <2>1, <2>2, <2>4, <2>5, FilesAsTheyAre
  <2> QED
    BY <1>t, <1>h, <2>1, <2>4, <2>6, <2>7, OthersAsTheyAre DEF TypeInv, TypeOK, PC
<1>8. ASSUME NEW e \in Editors, RenameTmp(e)
      PROVE  TypeInv'
  <2>1. /\ pc[e] = "rename" /\ pc' = [pc EXCEPT ![e] = "done"]
        /\ tmp # None /\ tmp' = None /\ file' = tmp
        /\ UNCHANGED <<upd, info, old, new, statusVars, edits, operatorDoc>>
    BY <1>8, Zenon DEF RenameTmp, Step
  <2>2. {overlapped', raced'} \subseteq BOOLEAN /\ dirty' \subseteq Editors
    BY <1>8, <1>b, Zenon DEF RenameTmp, Replaces
  <2>3. file' \in File
    BY <1>t, <2>1 DEF TypeOK
  <2>4. RewriteOK' /\ pc' \in [Editors -> PC]
    BY <2>1, MovesOn DEF PC, Writing
  <2>5. fd' = [y \in Editors |-> AfterRename(fd[y])]
    BY <1>8, Zenon DEF RenameTmp, AfterRename
  <2>6. \A y \in Editors :
           /\ fd'[y] \in {"closed", "path", "unlinked"}
           /\ fd'[y] # "closed" => pc'[y] = "write"
    <3>1. \A y \in Editors : fd[y] \in {"closed", "tmp", "path", "unlinked"}
                             /\ (fd[y] # "closed" => y # e /\ pc[y] = "write")
      BY <1>t, <2>1 DEF TypeOK
    <3>2. \A y \in Editors : y # e => pc'[y] = pc[y]
      BY <1>t, <2>1 DEF TypeOK
    <3> QED
      BY <2>5, <3>1, <3>2, Renamed
  <2>7. fd' \in [Editors -> {"closed", "tmp", "path", "unlinked"}]
    BY <2>5, <2>6
  <2>8. TmpLinked'
    BY <2>6 DEF TmpLinked
  <2> QED
    BY <1>t, <2>1, <2>2, <2>3, <2>4, <2>6, <2>7, <2>8, OthersAsTheyAre DEF TypeInv, TypeOK, PC
<1>9. ASSUME NEW e \in Editors, RemoveTmp(e)
      PROVE  TypeInv'
  <2>1. /\ pc[e] = "remove" /\ pc' = [pc EXCEPT ![e] = "failed"] /\ Forget(e)
        /\ tmp' = None
        /\ fd' = [y \in Editors |-> IF fd[y] = "tmp" THEN "unlinked" ELSE fd[y]]
        /\ UNCHANGED <<file, statusVars, edits, history>>
    BY <1>9, Zenon DEF RemoveTmp, Step
  <2>2. /\ RewriteOK' /\ pc' \in [Editors -> PC]
        /\ upd' \in [Editors -> Updates \cup {None}]
        /\ info' \in [Editors -> {"root", "shared", None}]
        /\ old' \in [Editors -> Document \cup {None}]
        /\ new' \in [Editors -> Document \cup {None}]
    BY <2>1, Forgets
  <2>3. /\ fd' \in [Editors -> {"closed", "tmp", "path", "unlinked"}]
        /\ \A y \in Editors : fd'[y] # "closed" => pc'[y] = "write"
        /\ TmpLinked'
    BY <1>t, <2>1 DEF TypeOK, TmpLinked
  <2> QED
    BY <1>t, <1>h, <2>1, <2>2, <2>3, OthersAsTheyAre DEF TypeInv, TypeOK, PC
<1>10. ASSUME NEW e \in Editors, Crash(e)
       PROVE  TypeInv'
  <2>1. pc' = [pc EXCEPT ![e] = "crashed"] /\ Forget(e)
    BY <1>10, Zenon DEF Crash
  <2>2. /\ RewriteOK' /\ pc' \in [Editors -> PC]
        /\ upd' \in [Editors -> Updates \cup {None}]
        /\ info' \in [Editors -> {"root", "shared", None}]
        /\ old' \in [Editors -> Document \cup {None}]
        /\ new' \in [Editors -> Document \cup {None}]
    BY <2>1, Forgets
  <2>3. CASE pc[e] = "write"
    <3>1. PICK n \in Cut(e) : PutBytes(e, n)
      BY <1>10, <2>3, Zenon DEF Crash
    <3>2. /\ file' \in File /\ tmp' \in File \cup {None} /\ (tmp' = None <=> tmp = None)
          /\ fd' = [fd EXCEPT ![e] = "closed"]
          /\ statusVars' = statusVars /\ edits' = edits /\ history' = history
      BY <2>3, <3>1, PutBytesType
    <3>3. /\ fd' \in [Editors -> {"closed", "tmp", "path", "unlinked"}]
          /\ \A y \in Editors : fd'[y] # "closed" => pc'[y] = "write"
          /\ TmpLinked'
      BY <1>t, <2>1, <3>2 DEF TypeOK, TmpLinked
    <3> QED
      BY <1>t, <1>h, <2>2, <3>2, <3>3, OthersAsTheyAre DEF TypeInv, TypeOK, PC
  <2>4. CASE pc[e] # "write"
    <3>1. UNCHANGED <<file, tmp, fd, statusVars, edits, history>>
      BY <1>10, <2>4, Zenon DEF Crash
    <3>2. /\ fd' \in [Editors -> {"closed", "tmp", "path", "unlinked"}]
          /\ \A y \in Editors : fd'[y] # "closed" => pc'[y] = "write"
          /\ TmpLinked'
      BY <2>1, <2>4, <3>1, FilesAsTheyAre
    <3> QED
      BY <1>t, <1>h, <2>2, <3>1, <3>2, OthersAsTheyAre DEF TypeInv, TypeOK, PC
  <2> QED
    BY <2>3, <2>4
<1>11. ASSUME NEW d \in Documents, OperatorEdits(d)
       PROVE  TypeInv'
  <2>1. /\ edits < MaxEdits /\ edits' = edits + 1
        /\ file' = [file EXCEPT !.doc = d] /\ operatorDoc' = d
        /\ fd' = [x \in Editors |-> IF fd[x] = "path" THEN "unlinked" ELSE fd[x]]
        /\ UNCHANGED <<tmp, pc, upd, info, old, new, statusVars, overlapped, raced>>
    BY <1>11, Zenon DEF OperatorEdits
  <2>2. {overlapped', raced'} \subseteq BOOLEAN /\ dirty' \subseteq Editors
    BY <1>11, <1>b, <2>1, Zenon DEF OperatorEdits, Replaces
  <2>3. file' \in File
    <3>1. d \in Document
      BY ConfigFileAssumption
    <3> QED
      BY <1>t, <2>1, <3>1 DEF TypeOK, File
  <2>4. edits' \in 0..MaxEdits
    BY <1>t, <2>1, ConfigFileAssumption DEF TypeOK
  <2>5. RewriteOK'
    BY <1>t, <2>1, RewriteOKIs
  <2>6. /\ fd' \in [Editors -> {"closed", "tmp", "path", "unlinked"}]
        /\ \A y \in Editors : fd'[y] # "closed" => pc'[y] = "write"
        /\ TmpLinked'
    BY <1>t, <2>1 DEF TypeOK, TmpLinked
  <2>7. /\ keyFile' = keyFile /\ spc' = spc /\ problems' = problems /\ seen' = seen
    BY <2>1 DEF statusVars
  <2> QED
    BY <1>t, <2>1, <2>2, <2>3, <2>4, <2>5, <2>6, <2>7 DEF TypeInv, TypeOK
<1>12. ASSUME Status
       PROVE  TypeInv'
  <2>1. UNCHANGED <<file, tmp, editorVars, edits, history>>
    BY <1>12, Zenon DEF Status, StatusLoad, StatusProbe, StatusFiles
  <2>2. /\ spc' \in {"load", "probe", "files", "ok", "failed"}
        /\ seen' \in {seen, file, None}
        /\ problems' \in {problems, problems \cup {"provider"}, {}}
        /\ keyFile' \in {"good", "partial", "permissive", "unreadable", "missing", None, keyFile}
    BY <1>12, Zenon DEF Status, StatusLoad, StatusProbe, StatusFiles, StatusFails
  <2>3. RewriteOK'
    BY <1>t, <2>1, RewriteOKIs DEF editorVars
  <2> QED
    BY <1>t, <1>h, <2>1, <2>2, <2>3 DEF TypeInv, TypeOK, TmpLinked, editorVars
<1>13. ASSUME UNCHANGED vars
       PROVE  TypeInv'
  <2>1. UNCHANGED <<file, tmp, editorVars, statusVars, edits, history>>
    BY <1>13 DEF vars
  <2>2. RewriteOK'
    BY <1>t, <2>1, RewriteOKIs DEF editorVars
  <2> QED
    BY <1>t, <1>h, <2>1, <2>2 DEF TypeInv, TypeOK, TmpLinked, editorVars, statusVars
<1> QED
  BY <1>1, <1>2, <1>3, <1>4, <1>5, <1>6, <1>7, <1>8, <1>9, <1>10, <1>11, <1>12, <1>13, Zenon
     DEF Next, Enrolment

-----------------------------------------------------------------------------
(* One writer at a time *)

\* What a step that keeps ~overlapped starts from.
LEMMA WasSolo ==
    ASSUME TypeInv, SoloOK, [Next]_vars, ~overlapped'
    PROVE  ~overlapped /\ Solo
<1>1. ASSUME overlapped
      PROVE  overlapped'
  <2>1. ASSUME NEW e \in Editors, Enrolment(e)
        PROVE  overlapped'
    BY <1>1, <2>1, Zenon
       DEF Enrolment, LoadConfig, StatFile, ReadFile, RewriteFails, OpenTmp, OpenFails, WriteTmp,
           WriteFails, ChownTmp, RenameTmp, ReplaceFails, RemoveTmp, Crash, PutBytes, history
  <2>2. ASSUME NEW d \in Documents, OperatorEdits(d)
        PROVE  overlapped'
    BY <1>1, <2>2, Zenon DEF OperatorEdits
  <2>3. ASSUME Status
        PROVE  overlapped'
    BY <1>1, <2>3, Zenon DEF Status, StatusLoad, StatusProbe, StatusFiles, history
  <2>4. ASSUME UNCHANGED vars
        PROVE  overlapped'
    BY <1>1, <2>4, Zenon DEF vars, history
  <2> QED
    BY <2>1, <2>2, <2>3, <2>4, Zenon DEF Next
<1> QED
  BY <1>1, Zenon DEF SoloOK

\* What a cut or a whole write does when e is the only writer: it writes into
\* the empty path.tmp.
LEMMA SoloWrite ==
    ASSUME TypeInv, Solo, NEW e \in Editors, pc[e] = "write",
           NEW n, PutBytes(e, n)
    PROVE  /\ file' = file /\ fd' = [fd EXCEPT ![e] = "closed"]
           /\ operatorDoc' = operatorDoc /\ tmp # None /\ tmp \in File
           /\ tmp' = [tmp EXCEPT !.doc = Overwrite(<<>>, SubSeq(new[e], 1, n))]
<1>1. fd[e] = "tmp" /\ tmp # None /\ tmp.doc = <<>> /\ "tmp" # "path"
  BY DEF Solo, OwnsTmp
<1>2. /\ tmp' = [tmp EXCEPT !.doc = Overwrite(@, SubSeq(new[e], 1, n))]
      /\ file' = file /\ fd' = [fd EXCEPT ![e] = "closed"] /\ operatorDoc' = operatorDoc
  BY <1>1, Zenon DEF PutBytes, history
<1>3. tmp \in File
  BY <1>1 DEF TypeInv, TypeOK
<1> QED
  BY <1>1, <1>2, <1>3

\* Until two enrolments write at once, every step leaves path.tmp to the one
\* that is writing and the configuration whole.
LEMMA SoloStep == TypeInv /\ SoloOK /\ [Next]_vars => SoloOK'
<1> SUFFICES ASSUME TypeInv, SoloOK, [Next]_vars, ~overlapped'
             PROVE  Solo'
  BY Zenon DEF SoloOK
<1>t. TypeOK /\ TmpLinked /\ RewriteOK
  BY DEF TypeInv
<1>s. ~overlapped /\ Solo
  BY WasSolo
<1>o. OneWriter /\ (\A e \in Editors : OwnsTmp(e)) /\ FileWhole
  BY <1>s DEF Solo
<1>f. /\ pc \in [Editors -> PC] /\ info \in [Editors -> {"root", "shared", None}]
      /\ new \in [Editors -> Document \cup {None}]
      /\ fd \in [Editors -> {"closed", "tmp", "path", "unlinked"}]
      /\ \A e \in Editors : fd[e] # "closed" => pc[e] = "write"
  BY <1>t DEF TypeOK, PC
<1>1. ASSUME NEW e \in Editors, LoadConfig(e)
      PROVE  Solo'
  <2>1. PICK x \in {"approval", "failed"} : pc' = [pc EXCEPT ![e] = x]
    BY <1>1, Zenon DEF LoadConfig, Step
  <2>2. /\ pc[e] = "idle" /\ UNCHANGED <<file, tmp, info, new, fd, operatorDoc>>
    BY <1>1, Zenon DEF LoadConfig, Step, history
  <2> QED
    BY <1>o, <1>f, <2>1, <2>2 DEF Solo, OneWriter, OwnsTmp, FileWhole, Readable, Writing
<1>2. ASSUME NEW e \in Editors, NEW u \in Updates, StatFile(e, u)
      PROVE  Solo'
  <2>1. /\ pc[e] = "approval" /\ pc' = [pc EXCEPT ![e] = "read"]
        /\ info' = [info EXCEPT ![e] = file.owner]
        /\ UNCHANGED <<file, tmp, new, fd, operatorDoc>>
    BY <1>2, Zenon DEF StatFile, Step, history
  <2> QED
    BY <1>o, <1>f, <2>1 DEF Solo, OneWriter, OwnsTmp, FileWhole, Readable, Writing
<1>3. ASSUME NEW e \in Editors, ReadFile(e)
      PROVE  Solo'
  <2>1. PICK n : new' = [new EXCEPT ![e] = n]
    BY <1>3, Zenon DEF ReadFile
  <2>2. PICK x \in {"done", "open"} : pc' = [pc EXCEPT ![e] = x]
    BY <1>3, Zenon DEF ReadFile, Step
  <2>3. pc[e] = "read" /\ UNCHANGED <<file, tmp, info, fd, operatorDoc>>
    BY <1>3, Zenon DEF ReadFile, history
  <2> QED
    BY <1>o, <1>f, <2>1, <2>2, <2>3 DEF Solo, OneWriter, OwnsTmp, FileWhole, Readable, Writing
<1>4. ASSUME NEW e \in Editors, RewriteFails(e) \/ OpenFails(e)
      PROVE  Solo'
  <2>1. /\ pc[e] \in {"read", "open"} /\ pc' = [pc EXCEPT ![e] = "failed"]
        /\ info' = [info EXCEPT ![e] = None] /\ new' = [new EXCEPT ![e] = None]
        /\ UNCHANGED <<file, tmp, fd, operatorDoc>>
    BY <1>4, Zenon DEF RewriteFails, OpenFails, Step, Forget, history
  <2> QED
    BY <1>o, <1>f, <2>1 DEF Solo, OneWriter, OwnsTmp, FileWhole, Readable, Writing
<1>5. ASSUME NEW e \in Editors, OpenTmp(e)
      PROVE  Solo'
  <2>1. /\ pc[e] = "open" /\ pc' = [pc EXCEPT ![e] = "write"]
        /\ fd' = [fd EXCEPT ![e] = "tmp"]
        /\ tmp' = [doc |-> <<>>, owner |-> IF tmp = None THEN "root" ELSE tmp.owner]
        /\ UNCHANGED <<file, info, new, operatorDoc>>
    BY <1>5, Zenon DEF OpenTmp, Step
  <2>2. \A x \in Editors : pc[x] \notin Writing
    BY <1>5, Zenon DEF OpenTmp
  <2>3. tmp' # None /\ tmp'.doc = <<>>
    <3>1. TypeInv'
      BY TypeStep
    <3>2. fd'[e] = "tmp"
      BY <1>f, <2>1
    <3> QED
      BY <2>1, <3>1, <3>2 DEF TypeInv, TmpLinked
  <2> QED
    BY <1>o, <1>f, <2>1, <2>2, <2>3 DEF Solo, OneWriter, OwnsTmp, FileWhole, Readable, Writing
<1>6. ASSUME NEW e \in Editors, WriteTmp(e)
      PROVE  Solo'
  <2>1. /\ pc[e] = "write" /\ pc' = [pc EXCEPT ![e] = "chown"] /\ UNCHANGED <<info, new>>
        /\ PutBytes(e, Len(new[e]))
    BY <1>6, Zenon DEF WriteTmp, Step
  <2>2. /\ file' = file /\ fd' = [fd EXCEPT ![e] = "closed"]
        /\ operatorDoc' = operatorDoc /\ tmp # None /\ tmp \in File
        /\ tmp' = [tmp EXCEPT !.doc = Overwrite(<<>>, SubSeq(new[e], 1, Len(new[e])))]
    BY <1>s, <2>1, SoloWrite
  <2>3. new[e] \in Document
    BY <1>t, <1>f, <2>1 DEF RewriteOK, Writing
  <2>4. tmp'.doc = new[e] /\ tmp' \in File /\ tmp' # None
    <3>1. Overwrite(<<>>, SubSeq(new[e], 1, Len(new[e]))) = new[e]
      BY <2>3, OverwriteEmpty
    <3>2. tmp'.doc = new[e] /\ tmp' \in File
      BY <2>2, <2>3, <3>1 DEF File
    <3> QED
      BY <3>2, ConfigFileAssumption
  <2>5. /\ file' = file /\ fd' = [fd EXCEPT ![e] = "closed"] /\ operatorDoc' = operatorDoc
    BY <2>2
  <2>6. \A y \in Editors : pc[y] \in Writing => y = e
    BY <1>o, <2>1 DEF OneWriter, Writing
  <2> QED
    BY <1>o, <1>f, <2>1, <2>4, <2>5, <2>6 DEF Solo, OneWriter, OwnsTmp, FileWhole, Readable, Writing
<1>7. ASSUME NEW e \in Editors, WriteFails(e)
      PROVE  Solo'
  <2>1. /\ pc[e] = "write" /\ pc' = [pc EXCEPT ![e] = "remove"] /\ UNCHANGED <<info, new>>
    BY <1>7, Zenon DEF WriteFails, Step
  <2>2. PICK n \in Cut(e) : PutBytes(e, n)
    BY <1>7, Zenon DEF WriteFails
  <2>3. /\ file' = file /\ fd' = [fd EXCEPT ![e] = "closed"] /\ operatorDoc' = operatorDoc
    BY <1>s, <2>1, <2>2, SoloWrite
  <2>4. \A y \in Editors : pc[y] \in Writing => y = e
    BY <1>o, <2>1 DEF OneWriter, Writing
  <2> QED
    BY <1>o, <1>f, <2>1, <2>3, <2>4 DEF Solo, OneWriter, OwnsTmp, FileWhole, Readable, Writing
<1>8. ASSUME NEW e \in Editors, ChownTmp(e)
      PROVE  Solo'
  <2>1. /\ pc[e] = "chown" /\ pc' = [pc EXCEPT ![e] = "rename"]
        /\ tmp # None /\ tmp' = [tmp EXCEPT !.owner = info[e]]
        /\ UNCHANGED <<file, info, new, fd, operatorDoc>>
    BY <1>8, Zenon DEF ChownTmp, Step, history
  <2>2. tmp.doc = new[e] /\ info[e] = "shared" /\ tmp \in File
    BY <1>o, <1>t, <2>1 DEF OwnsTmp, Writing, TypeOK
  <2>3. tmp'.doc = new[e] /\ tmp'.owner = "shared" /\ tmp' # None
    <3>1. tmp'.doc = new[e] /\ tmp'.owner = "shared" /\ tmp' \in File
      BY <2>1, <2>2 DEF File
    <3> QED
      BY <3>1, ConfigFileAssumption
  <2>4. \A y \in Editors : pc[y] \in Writing => y = e
    BY <1>o, <2>1 DEF OneWriter, Writing
  <2>5. /\ pc[e] = "chown" /\ pc' = [pc EXCEPT ![e] = "rename"]
        /\ UNCHANGED <<file, info, new, fd, operatorDoc>>
    BY <2>1
  <2> QED
    BY <1>o, <1>f, <2>2, <2>3, <2>4, <2>5 DEF Solo, OneWriter, OwnsTmp, FileWhole, Readable, Writing
<1>9. ASSUME NEW e \in Editors, RenameTmp(e)
      PROVE  Solo'
  <2>1. /\ pc[e] = "rename" /\ pc' = [pc EXCEPT ![e] = "done"]
        /\ tmp # None /\ file' = tmp /\ UNCHANGED <<info, new, operatorDoc>>
    BY <1>9, Zenon DEF RenameTmp, Step
  <2>2. tmp.doc = new[e] /\ tmp.owner = "shared"
    BY <1>o, <2>1 DEF OwnsTmp
  <2>3. \A y \in Editors : pc[y] \in Writing => y = e
    BY <1>o, <2>1 DEF OneWriter, Writing
  <2>4. \A y \in Editors : fd[y] = "closed"
    BY <1>f, <2>1, <2>3 DEF Writing
  <2>5. fd' = [y \in Editors |-> AfterRename(fd[y])]
    BY <1>9, Zenon DEF RenameTmp, AfterRename
  <2>6. \A y \in Editors : fd'[y] = "closed"
    BY <2>4, <2>5, Renamed
  <2>7. FileWhole'
    BY <1>f, <2>1, <2>2 DEF FileWhole, Readable
  <2> QED
    BY <1>o, <1>f, <2>1, <2>3, <2>6, <2>7 DEF Solo, OneWriter, OwnsTmp, Writing
<1>10. ASSUME NEW e \in Editors, ReplaceFails(e)
      PROVE  Solo'
  <2>1. /\ pc[e] \in {"chown", "rename"} /\ pc' = [pc EXCEPT ![e] = "remove"]
        /\ UNCHANGED <<file, tmp, info, new, fd, operatorDoc>>
    BY <1>10, Zenon DEF ReplaceFails, Step, history
  <2> QED
    BY <1>o, <1>f, <2>1 DEF Solo, OneWriter, OwnsTmp, FileWhole, Readable, Writing
<1>11. ASSUME NEW e \in Editors, RemoveTmp(e)
      PROVE  Solo'
  <2>1. /\ pc[e] = "remove" /\ pc' = [pc EXCEPT ![e] = "failed"]
        /\ info' = [info EXCEPT ![e] = None] /\ new' = [new EXCEPT ![e] = None]
        /\ fd' = [y \in Editors |-> IF fd[y] = "tmp" THEN "unlinked" ELSE fd[y]]
        /\ UNCHANGED <<file, operatorDoc>>
    BY <1>11, Zenon DEF RemoveTmp, Step, Forget, history
  <2>2. \A y \in Editors : pc[y] \in Writing => y = e
    BY <1>o, <2>1 DEF OneWriter, Writing
  <2>3. \A y \in Editors : fd[y] = "closed"
    BY <1>f, <2>1, <2>2 DEF Writing
  <2>4. \A y \in Editors : fd'[y] = "closed"
    BY <2>1, <2>3
  <2> QED
    BY <1>o, <1>f, <2>1, <2>2, <2>4 DEF Solo, OneWriter, OwnsTmp, FileWhole, Readable, Writing
<1>12. ASSUME NEW e \in Editors, Crash(e)
      PROVE  Solo'
  <2>1. /\ pc[e] \in {"approval", "read", "open"} \cup Writing
        /\ pc' = [pc EXCEPT ![e] = "crashed"]
        /\ info' = [info EXCEPT ![e] = None] /\ new' = [new EXCEPT ![e] = None]
    BY <1>12, Zenon DEF Crash, Forget
  <2>2. CASE pc[e] = "write"
    <3>1. PICK n \in Cut(e) : PutBytes(e, n)
      BY <1>12, <2>2, Zenon DEF Crash
    <3>2. /\ file' = file /\ fd' = [fd EXCEPT ![e] = "closed"] /\ operatorDoc' = operatorDoc
      BY <1>s, <2>2, <3>1, SoloWrite
    <3>3. \A y \in Editors : pc[y] \in Writing => y = e
      BY <1>o, <2>2 DEF OneWriter, Writing
    <3> QED
      BY <1>o, <1>f, <2>1, <2>2, <3>2, <3>3
         DEF Solo, OneWriter, OwnsTmp, FileWhole, Readable, Writing
  <2>3. CASE pc[e] # "write"
    <3>1. UNCHANGED <<file, tmp, fd, operatorDoc>>
      BY <1>12, <2>3, Zenon DEF Crash, history
    <3> QED
      BY <1>o, <1>f, <2>1, <2>3, <3>1 DEF Solo, OneWriter, OwnsTmp, FileWhole, Readable, Writing
  <2> QED
    BY <2>2, <2>3
<1>13. ASSUME NEW d \in Documents, OperatorEdits(d)
       PROVE  Solo'
  <2>1. /\ file' = [file EXCEPT !.doc = d] /\ operatorDoc' = d
        /\ fd' = [x \in Editors |-> IF fd[x] = "path" THEN "unlinked" ELSE fd[x]]
        /\ UNCHANGED <<tmp, pc, info, new>>
    BY <1>13, Zenon DEF OperatorEdits
  <2>2. file'.doc = operatorDoc' /\ file'.owner = file.owner
    BY <1>t, <2>1 DEF TypeOK, File
  <2>3. \A y \in Editors : fd'[y] = fd[y]
    BY <1>o, <2>1 DEF OwnsTmp
  <2>4. FileWhole'
    BY <1>o, <2>2 DEF FileWhole, Readable
  <2>5. UNCHANGED <<tmp, pc, info, new>>
    BY <2>1
  <2> QED
    BY <1>o, <2>3, <2>4, <2>5 DEF Solo, OneWriter, OwnsTmp
<1>14. ASSUME Status \/ UNCHANGED vars
       PROVE  Solo'
  <2>1. UNCHANGED <<file, tmp, pc, info, new, fd, operatorDoc>>
    BY <1>14, Zenon DEF Status, StatusLoad, StatusProbe, StatusFiles, vars, editorVars, history
  <2> QED
    BY <1>o, <2>1 DEF Solo, OneWriter, OwnsTmp, FileWhole, Readable
<1> QED
  BY <1>1, <1>2, <1>3, <1>4, <1>5, <1>6, <1>7, <1>8, <1>9, <1>10, <1>11, <1>12, <1>13, <1>14, Zenon
     DEF Next, Enrolment

-----------------------------------------------------------------------------
(* The operator's lines *)

\* Until two enrolments write at once, the file changes by being replaced only,
\* by the operator or by a rename.
LEMMA CurrentStep ==
    TypeInv /\ SoloOK /\ CurrentOK /\ [Next]_vars => CurrentOK'
<1> SUFFICES ASSUME TypeInv, SoloOK, CurrentOK, [Next]_vars, ~overlapped'
             PROVE  ReadCurrent'
  BY Zenon DEF CurrentOK
<1>s. ~overlapped /\ Solo
  BY WasSolo
<1>c. ReadCurrent
  BY <1>s, Zenon DEF CurrentOK
<1>t. pc \in [Editors -> PC] /\ old \in [Editors -> Document \cup {None}]
  BY DEF TypeInv, TypeOK, PC
<1>k. ASSUME NEW e \in Editors, NEW x, pc' = [pc EXCEPT ![e] = x], file' = file,
             dirty' = dirty, \A y \in Editors : y # e => old'[y] = old[y],
             \/ x \notin {"open"} \cup Writing
             \/ old'[e] = old[e] /\ pc[e] \in {"open"} \cup Writing
             \/ old'[e] = file.doc
      PROVE  ReadCurrent'
  BY <1>c, <1>t, <1>k DEF ReadCurrent
<1>r. ASSUME Replaces, \A y \in Editors : pc'[y] \in {"open"} \cup Writing => pc[y] \in {"open"} \cup Writing
      PROVE  ReadCurrent'
  BY <1>r, Zenon DEF Replaces, ReadCurrent
<1>w. ASSUME NEW e \in Editors, pc[e] = "write", NEW n, PutBytes(e, n)
      PROVE  file' = file /\ dirty' = dirty
  <2>1. file' = file
    BY <1>s, <1>w, SoloWrite
  <2>2. dirty' = dirty
    BY <1>w, Zenon DEF PutBytes, history
  <2> QED
    BY <2>1, <2>2
<1>1. ASSUME NEW e \in Editors, LoadConfig(e)
      PROVE  ReadCurrent'
  <2>1. PICK x \in {"approval", "failed"} : pc' = [pc EXCEPT ![e] = x]
    BY <1>1, Zenon DEF LoadConfig, Step
  <2>2. file' = file /\ dirty' = dirty /\ old' = [old EXCEPT ![e] = file.doc]
    BY <1>1, Zenon DEF LoadConfig, history
  <2>3. (\A y \in Editors : y # e => old'[y] = old[y]) /\ x \notin {"open"} \cup Writing
    BY <1>t, <2>2 DEF Writing
  <2> QED
    BY <1>k, <2>1, <2>2, <2>3
<1>2. ASSUME NEW e \in Editors, NEW u \in Updates, StatFile(e, u)
      PROVE  ReadCurrent'
  <2>1. pc' = [pc EXCEPT ![e] = "read"] /\ file' = file /\ dirty' = dirty /\ old' = old
    BY <1>2, Zenon DEF StatFile, Step, history
  <2>2. "read" \notin {"open"} \cup Writing
    BY DEF Writing
  <2> QED
    BY <1>k, <2>1, <2>2
<1>3. ASSUME NEW e \in Editors, ReadFile(e)
      PROVE  ReadCurrent'
  <2>1. PICK x : pc' = [pc EXCEPT ![e] = x]
    BY <1>3, Zenon DEF ReadFile, Step
  <2>2. file' = file /\ dirty' = dirty /\ old' = [old EXCEPT ![e] = file.doc]
    BY <1>3, Zenon DEF ReadFile, history
  <2>3. old'[e] = file.doc /\ \A y \in Editors : y # e => old'[y] = old[y]
    BY <1>t, <2>2
  <2> QED
    BY <1>k, <2>1, <2>2, <2>3
<1>4. ASSUME NEW e \in Editors, RewriteFails(e) \/ OpenFails(e) \/ RemoveTmp(e)
      PROVE  ReadCurrent'
  <2>1. /\ pc' = [pc EXCEPT ![e] = "failed"] /\ file' = file /\ dirty' = dirty
        /\ old' = [old EXCEPT ![e] = None]
    BY <1>4, Zenon DEF RewriteFails, OpenFails, RemoveTmp, Step, Forget, history
  <2>2. "failed" \notin {"open"} \cup Writing /\ \A y \in Editors : y # e => old'[y] = old[y]
    BY <1>t, <2>1 DEF Writing
  <2> QED
    BY <1>k, <2>1, <2>2
<1>5. ASSUME NEW e \in Editors, OpenTmp(e) \/ ChownTmp(e) \/ ReplaceFails(e)
      PROVE  ReadCurrent'
  <2>1. PICK x : pc' = [pc EXCEPT ![e] = x]
    BY <1>5, Zenon DEF OpenTmp, ChownTmp, ReplaceFails, Step
  <2>2. pc[e] \in {"open", "chown", "rename"} /\ file' = file /\ dirty' = dirty /\ old' = old
    BY <1>5, Zenon DEF OpenTmp, ChownTmp, ReplaceFails, Step, history
  <2>3. pc[e] \in {"open"} \cup Writing
    BY <2>2 DEF Writing
  <2> QED
    BY <1>k, <2>1, <2>2, <2>3
<1>6. ASSUME NEW e \in Editors, WriteTmp(e) \/ WriteFails(e)
      PROVE  ReadCurrent'
  <2>1. PICK x : pc' = [pc EXCEPT ![e] = x]
    BY <1>6, Zenon DEF WriteTmp, WriteFails, Step
  <2>2. pc[e] = "write" /\ old' = old /\ \E n : PutBytes(e, n)
    BY <1>6, Zenon DEF WriteTmp, WriteFails, Step
  <2>3. file' = file /\ dirty' = dirty
    BY <1>w, <2>2
  <2>4. pc[e] \in {"open"} \cup Writing
    BY <2>2 DEF Writing
  <2> QED
    BY <1>k, <2>1, <2>2, <2>3, <2>4
<1>7. ASSUME NEW e \in Editors, Crash(e)
      PROVE  ReadCurrent'
  <2>1. pc' = [pc EXCEPT ![e] = "crashed"] /\ old' = [old EXCEPT ![e] = None]
    BY <1>7, Zenon DEF Crash, Forget
  <2>2. \/ pc[e] = "write" /\ \E n : PutBytes(e, n)
        \/ file' = file /\ dirty' = dirty
    BY <1>7, Zenon DEF Crash, history
  <2>3. file' = file /\ dirty' = dirty
    BY <1>w, <2>2
  <2>4. "crashed" \notin {"open"} \cup Writing /\ \A y \in Editors : y # e => old'[y] = old[y]
    BY <1>t, <2>1 DEF Writing
  <2> QED
    BY <1>k, <2>1, <2>3, <2>4
<1>8. ASSUME NEW e \in Editors, RenameTmp(e)
      PROVE  ReadCurrent'
  <2>1. pc' = [pc EXCEPT ![e] = "done"] /\ Replaces
    BY <1>8, Zenon DEF RenameTmp, Step
  <2>2. \A y \in Editors : pc'[y] \in {"open"} \cup Writing => pc[y] \in {"open"} \cup Writing
    BY <1>t, <2>1 DEF Writing
  <2> QED
    BY <1>r, <2>1, <2>2
<1>9. ASSUME NEW d \in Documents, OperatorEdits(d)
      PROVE  ReadCurrent'
  BY <1>r, <1>9, Zenon DEF OperatorEdits
<1>10. ASSUME Status \/ UNCHANGED vars
       PROVE  ReadCurrent'
  <2>1. UNCHANGED <<file, pc, old, dirty>>
    BY <1>10, Zenon DEF Status, StatusLoad, StatusProbe, StatusFiles, vars, editorVars, history
  <2> QED
    BY <1>c, <2>1 DEF ReadCurrent
<1> QED
  BY <1>1, <1>2, <1>3, <1>4, <1>5, <1>6, <1>7, <1>8, <1>9, <1>10, Zenon DEF Next, Enrolment

\* A rename of what was made from the file as it still is, or the operator, are
\* all that changes the file.
LEMMA SurvivesStep ==
    TypeInv /\ SoloOK /\ CurrentOK /\ OperatorEditSurvives /\ [Next]_vars => OperatorEditSurvives'
<1> SUFFICES ASSUME TypeInv, SoloOK, CurrentOK, OperatorEditSurvives, [Next]_vars, ~raced', ~overlapped'
             PROVE  Untouched(file'.doc) = Untouched(operatorDoc')
  BY Zenon DEF OperatorEditSurvives
<1>s. ~overlapped /\ Solo
  BY WasSolo
<1>w. ASSUME NEW e \in Editors, pc[e] = "write", NEW n, PutBytes(e, n)
      PROVE  file' = file /\ operatorDoc' = operatorDoc /\ raced' = raced
  <2>1. file' = file /\ operatorDoc' = operatorDoc
    BY <1>s, <1>w, SoloWrite
  <2>2. raced' = raced
    BY <1>w, Zenon DEF PutBytes, history
  <2> QED
    BY <2>1, <2>2, Zenon
<1>k. ASSUME file' = file, operatorDoc' = operatorDoc, raced' = raced
      PROVE  Untouched(file'.doc) = Untouched(operatorDoc')
  <2>1. ~raced
    BY <1>k, Zenon
  <2> QED
    BY <1>s, <1>k, <2>1, Zenon DEF OperatorEditSurvives
<1>1. ASSUME NEW e \in Editors, WriteTmp(e) \/ WriteFails(e)
      PROVE  Untouched(file'.doc) = Untouched(operatorDoc')
  <2>1. pc[e] = "write" /\ \E n : PutBytes(e, n)
    BY <1>1, Zenon DEF WriteTmp, WriteFails, Step
  <2> QED
    BY <1>k, <1>w, <2>1, Zenon
<1>2. ASSUME NEW e \in Editors, Crash(e)
      PROVE  Untouched(file'.doc) = Untouched(operatorDoc')
  <2>1. \/ pc[e] = "write" /\ \E n : PutBytes(e, n)
        \/ file' = file /\ operatorDoc' = operatorDoc /\ raced' = raced
    BY <1>2, Zenon DEF Crash, history
  <2> QED
    BY <1>k, <1>w, <2>1, Zenon
<1>3. ASSUME NEW e \in Editors, RenameTmp(e)
      PROVE  Untouched(file'.doc) = Untouched(operatorDoc')
  <2>1. /\ pc[e] = "rename" /\ file' = tmp /\ operatorDoc' = operatorDoc
        /\ ~raced /\ e \notin dirty
    BY <1>3, Zenon DEF RenameTmp, Step
  <2>6. file.doc = old[e]
    BY <1>s, <2>1 DEF CurrentOK, ReadCurrent, Writing
  <2>2. tmp.doc = new[e]
    BY <1>s, <2>1 DEF Solo, OwnsTmp
  <2>3. /\ old[e] \in Document /\ upd[e] \in Updates
        /\ new[e] = withConfigValues(old[e], upd[e])
    BY <2>1 DEF TypeInv, RewriteOK, Writing
  <2>4. Untouched(new[e]) = Untouched(old[e])
    BY <2>3, Rewritten, UntouchedKept, Zenon
  <2>5. Untouched(file.doc) = Untouched(operatorDoc)
    BY <1>s, <2>1, Zenon DEF OperatorEditSurvives
  <2> QED
    BY <2>1, <2>2, <2>4, <2>5, <2>6, Zenon
<1>4. ASSUME NEW d \in Documents, OperatorEdits(d)
      PROVE  Untouched(file'.doc) = Untouched(operatorDoc')
  <2>1. file' = [file EXCEPT !.doc = d] /\ operatorDoc' = d
    BY <1>4, Zenon DEF OperatorEdits
  <2>2. file'.doc = d
    BY <2>1 DEF TypeInv, TypeOK, File
  <2> QED
    BY <2>1, <2>2, Zenon
<1>5. ASSUME NEW e \in Editors,
             \/ LoadConfig(e) \/ (\E u \in Updates : StatFile(e, u)) \/ ReadFile(e)
             \/ RewriteFails(e) \/ OpenTmp(e) \/ OpenFails(e) \/ ChownTmp(e)
             \/ ReplaceFails(e) \/ RemoveTmp(e)
      PROVE  Untouched(file'.doc) = Untouched(operatorDoc')
  <2>1. file' = file /\ operatorDoc' = operatorDoc /\ raced' = raced
    BY <1>5, Zenon DEF LoadConfig, StatFile, ReadFile, RewriteFails, OpenTmp, OpenFails, ChownTmp,
                       ReplaceFails, RemoveTmp, history
  <2> QED
    BY <1>k, <2>1, Zenon
<1>6. ASSUME Status \/ UNCHANGED vars
      PROVE  Untouched(file'.doc) = Untouched(operatorDoc')
  <2>1. file' = file /\ operatorDoc' = operatorDoc /\ raced' = raced
    BY <1>6, Zenon DEF Status, StatusLoad, StatusProbe, StatusFiles, vars, history
  <2> QED
    BY <1>k, <2>1, Zenon
<1> QED
  BY <1>1, <1>2, <1>3, <1>4, <1>5, <1>6, Zenon DEF Next, Enrolment

-----------------------------------------------------------------------------
(* The theorems *)

LEMMA InitInv == Init => IInv
<1> SUFFICES ASSUME Init
             PROVE  IInv
  OBVIOUS
<1>1. PICK d \in Documents : file = [doc |-> d, owner |-> "shared"] /\ operatorDoc = d
  BY Zenon DEF Init
<1>2. /\ tmp = None
      /\ pc = [e \in Editors |-> "idle"]
      /\ upd = [e \in Editors |-> None]
      /\ info = [e \in Editors |-> None]
      /\ old = [e \in Editors |-> None]
      /\ new = [e \in Editors |-> None]
      /\ fd = [e \in Editors |-> "closed"]
      /\ spc = "load" /\ problems = {} /\ seen = None /\ keyFile = None
      /\ edits = 0
  BY Zenon DEF Init
<1>3. {overlapped, raced} \subseteq BOOLEAN /\ dirty \subseteq Editors
  BY Zenon DEF Init
<1>4. file \in File /\ file.doc = operatorDoc /\ file.owner = "shared"
  BY <1>1, ConfigFileAssumption DEF File
<1>5. TypeOK
  BY <1>1, <1>2, <1>3, <1>4, ConfigFileAssumption DEF TypeOK
<1>6. TmpLinked /\ RewriteOK
  BY <1>2 DEF TmpLinked, RewriteOK, Writing
<1>7. Solo
  BY <1>2, <1>4 DEF Solo, OneWriter, OwnsTmp, FileWhole, Readable, Writing
<1>8. OperatorEditSurvives
  BY <1>4, Zenon DEF OperatorEditSurvives
<1>9. ReadCurrent
  BY <1>2 DEF ReadCurrent, Writing
<1> QED
  BY <1>5, <1>6, <1>7, <1>8, <1>9, Zenon DEF IInv, TypeInv, SoloOK, CurrentOK

\* The parts of the invariant together are inductive.
LEMMA Inductive == Spec => []IInv
<1>1. IInv /\ [Next]_vars => IInv'
  BY TypeStep, SoloStep, CurrentStep, SurvivesStep DEF IInv
<1> QED
  BY InitInv, <1>1, PTL DEF Spec

\* Every variable of the enrolments, of status and of the file keeps its type;
\* in particular what a write, whole or cut short, leaves is a document, and only
\* an enrolment in writePreserving has a file open.
THEOREM TypeCorrect == Spec => []TypeOK
<1>1. IInv => TypeOK
  BY Zenon DEF IInv, TypeInv
<1> QED
  BY Inductive, <1>1, PTL

\* As long as no two enrolments wrote at once, whatever fails or crashes in
\* writePreserving, and whatever a crashed enrolment left in path.tmp, the
\* configuration is a whole version and the AuthorizedKeysCommand user can read it.
THEOREM FileUsable == Spec => []FileStaysUsable
<1>1. IInv => FileStaysUsable
  BY Zenon DEF IInv, SoloOK, Solo, FileWhole, FileStaysUsable
<1> QED
  BY Inductive, <1>1, PTL

\* A configuration that could be loaded can be loaded after any enrolment, and
\* says what it said and what the enrolment wrote, for every document and every
\* update, but for a lost or doubled anchor and for a host_id or an issuer that
\* validate refuses.
THEOREM EditLoads == Spec => []EditLoadsBack
<1>1. IInv => EditLoadsBack
  <2>1. ASSUME IInv, NEW e \in Editors, new[e] # None, Parse(old[e]), AnchorOnce(old[e]),
               ~LosesAnchor(old[e], upd[e]), upd[e]["host_id"].shape # "spaced",
               "issuer" \in DOMAIN upd[e] => upd[e]["issuer"].shape # "userinfo"
        PROVE  /\ Parse(new[e])
               /\ \A k \in Known : Field(new[e], k) =
                     IF k \in DOMAIN upd[e] THEN TrimSpace(upd[e][k]) ELSE Field(old[e], k)
    <3>1. /\ old[e] \in Document /\ upd[e] \in Updates /\ ~CannotRewrite(old[e], upd[e])
          /\ new[e] = withConfigValues(old[e], upd[e])
      BY <2>1, Zenon DEF IInv, TypeInv, RewriteOK
    <3>2. RewriteOf(new[e], old[e], upd[e])
      BY <3>1, Rewritten, Zenon
    <3>3. LoadsBack(new[e], old[e], upd[e])
      BY <2>1, <3>1, <3>2, RewriteLoadsBack, Zenon
    <3> QED
      BY <2>1, <3>3, Zenon DEF LoadsBack
  <2> QED
    BY <2>1, Zenon DEF EditLoadsBack
<1> QED
  BY Inductive, <1>1, PTL

\* The lines that only the operator writes survive every enrolment that read
\* the file after the operator's last change, wherever it fails or crashes.
THEOREM EditSurvives == Spec => []OperatorEditSurvives
<1>1. IInv => OperatorEditSurvives
  BY Zenon DEF IInv
<1> QED
  BY Inductive, <1>1, PTL
=============================================================================
