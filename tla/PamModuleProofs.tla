-------------------------- MODULE PamModuleProofs ---------------------------
(***************************************************************************)
(* What holds of one call of pam_sm_authenticate for every timeout and     *)
(* grace period, whatever the helper, the user and the scheduler do.       *)
(***************************************************************************)
EXTENDS PamModule, SequenceTheorems, TLAPS

Looping == {"top", "poll", "lines", "conv"}

\* The names that the lines of s export.
Exports(s) == {s[i].arg : i \in {j \in 1..Len(s) : s[j].kind = "E"}}

\* A success among these lines was granted, and each variable of the grant is
\* exported before it, by an earlier line of s or by one of those that `before`
\* stands for.
Backed(s, before, grant) ==
    \A i \in 1..Len(s) : s[i].kind = "R" /\ s[i].arg = "success" =>
        /\ grant # {}
        /\ \A name \in grant :
              \/ name \in before
              \/ \E j \in 1..(i - 1) : s[j].kind = "E" /\ s[j].arg = name

\* While lines are handled, this is so of all that are still to come: those
\* read, those in the pipe, and those the helper is about to write.
LinesBacked ==
    mpc \in {"start", "fork"} \cup Looping =>
        /\ Backed(buf, penv, granted)
        /\ Backed(pipe, penv \cup Exports(buf), granted)
        /\ Backed(todo, penv \cup Exports(buf) \cup Exports(pipe), granted)

\* A success that was read is final, and it was granted.
ResultBacked ==
    rc = "success" => /\ done
                      /\ mpc \notin {"start", "fork"} \cup Looping
                      /\ granted # {} /\ granted \subseteq penv

\* Where the module is says what it has open and whether the helper lives.
Stage ==
    /\ mpc \in {"start", "fork"} => hstat = "none"
    /\ mpc \in Looping \cup {"reap", "kill", "wait", "judge"} => hstat # "none"
    /\ mpc \in {"wait", "judge"} => hstat # "running"
    /\ mpc = "start" => fds = {}
    /\ mpc \in Looping => fds = {"pipe0", "ack1"}
    /\ mpc \in {"reap", "kill", "wait", "judge"} => fds = {}
    /\ mpc \in {"start", "fork", "top", "poll"} => buf = <<>>
    /\ mpc = "conv" <=> talking # "none"

\* The status that is judged is the helper's, if it could be collected.
StatusTrue ==
    ~AutoReaped =>
        /\ mpc = "judge" => status = hstat
        /\ mpc = "ret" /\ rc = "success" => hstat = "exit0"

\* A session is granted once, and its lines are the helper's last.
GrantIsLast == granted # {} => hpc = "last"

\* An answer comes from the user.
AnswerIsUsers == ack # <<>> => answered

\* The grace period that a helper gets.
GraceKept ==
    /\ mpc = "reap" /\ done => graceEnd = leftAt + Grace
    /\ NoEarlyKill

IInv ==
    /\ TypeOK
    /\ Stage
    /\ LinesBacked
    /\ ResultBacked
    /\ StatusTrue
    /\ GrantIsLast
    /\ AnswerIsUsers
    /\ PollsAfterAnswer
    /\ GraceKept
    /\ NothingLeft

-----------------------------------------------------------------------------
(* Lines *)

\* What a helper writes are lines.
LEMMA LineTypes ==
    /\ I \in Line /\ E("sub") \in Line /\ E("user") \in Line
    /\ \A k \in {"P", "Q"} : Prompt(k) \in Line
    /\ \A c \in Codes : R(c) \in Line
    /\ Garbage \subseteq Line
BY CodesAssumption DEF I, E, R, Prompt, Garbage, Line, Variables

\* What exportEnv writes are lines that export.
LEMMA SessionLines ==
    ASSUME NEW env \in Sessions
    PROVE  /\ env \in Seq(Line) /\ Len(env) \in {1, 2}
           /\ \A i \in 1..Len(env) : env[i].kind = "E" /\ env[i].arg \in Variables
<1>1. E("sub") \in Line /\ E("user") \in Line
  BY LineTypes
<1>2. CASE env = <<E("sub"), E("user")>>
  BY <1>1, <1>2 DEF E, Variables
<1>3. CASE env = <<E("user"), E("sub")>>
  BY <1>1, <1>3 DEF E, Variables
<1>4. CASE env = <<E("sub")>>
  BY <1>1, <1>4 DEF E, Variables
<1> QED
  BY <1>2, <1>3, <1>4 DEF Sessions

\* Short sequences.
LEMMA ShortSeq ==
    ASSUME NEW S, NEW a \in S, NEW b \in S, NEW c \in S
    PROVE  /\ <<a>> \in Seq(S) /\ Len(<<a>>) = 1 /\ <<a>>[1] = a
           /\ <<a, b>> \in Seq(S) /\ Len(<<a, b>>) = 2 /\ <<a, b>>[1] = a /\ <<a, b>>[2] = b
           /\ <<a, b, c>> \in Seq(S) /\ Len(<<a, b, c>>) = 3
           /\ <<a, b, c>>[1] = a /\ <<a, b, c>>[2] = b /\ <<a, b, c>>[3] = c
OBVIOUS

\* Lines without a success need nothing before them.
LEMMA HarmlessBacked ==
    ASSUME NEW s \in Seq(Line), NEW before, NEW g,
           \A i \in 1..Len(s) : ~(s[i].kind = "R" /\ s[i].arg = "success")
    PROVE  Backed(s, before, g)
BY DEF Backed

\* More before them does no harm.
LEMMA BackedMono ==
    ASSUME NEW s \in Seq(Line), NEW b1, NEW b2, NEW g1, NEW g2,
           b1 \subseteq b2, g1 = {} \/ g1 = g2, Backed(s, b1, g1)
    PROVE  Backed(s, b2, g2)
BY DEF Backed

\* A line moves from the front of one sequence to the end of another.
LEMMA MoveBacked ==
    ASSUME NEW s \in Seq(Line), NEW t \in Seq(Line), t # <<>>, NEW b, NEW g,
           Backed(s, b, g), Backed(t, b \cup Exports(s), g)
    PROVE  /\ Backed(Append(s, Head(t)), b, g)
           /\ Backed(Tail(t), b \cup Exports(Append(s, Head(t))), g)
<1>1. /\ Append(s, Head(t)) \in Seq(Line)
      /\ Len(Append(s, Head(t))) = Len(s) + 1
      /\ \A i \in 1..Len(s) : Append(s, Head(t))[i] = s[i]
      /\ Append(s, Head(t))[Len(s) + 1] = t[1]
      /\ Len(s) \in Nat
  OBVIOUS
<1>2. /\ Tail(t) \in Seq(Line) /\ Len(t) \in Nat \ {0}
      /\ Len(Tail(t)) = Len(t) - 1
      /\ \A i \in 1..Len(Tail(t)) : Tail(t)[i] = t[i + 1]
  OBVIOUS
<1>3. Backed(Append(s, Head(t)), b, g)
  <2> SUFFICES ASSUME NEW i \in 1..(Len(s) + 1),
                      Append(s, Head(t))[i].kind = "R", Append(s, Head(t))[i].arg = "success"
               PROVE  /\ g # {}
                      /\ \A name \in g :
                            \/ name \in b
                            \/ \E j \in 1..(i - 1) : /\ Append(s, Head(t))[j].kind = "E"
                                                     /\ Append(s, Head(t))[j].arg = name
    BY <1>1 DEF Backed
  <2>1. CASE i \in 1..Len(s)
    BY <1>1, <2>1 DEF Backed
  <2>2. CASE i = Len(s) + 1
    <3>1. t[1].kind = "R" /\ t[1].arg = "success"
      BY <1>1, <2>2
    <3>2. g # {} /\ \A name \in g : name \in b \cup Exports(s)
      BY <1>2, <3>1 DEF Backed
    <3> QED
      BY <1>1, <2>2, <3>2 DEF Exports
  <2> QED
    BY <1>1, <2>1, <2>2
<1>4. Exports(s) \subseteq Exports(Append(s, Head(t)))
  BY <1>1 DEF Exports
<1>5. t[1].kind = "E" => t[1].arg \in Exports(Append(s, Head(t)))
  BY <1>1 DEF Exports
<1>6. Backed(Tail(t), b \cup Exports(Append(s, Head(t))), g)
  <2> SUFFICES ASSUME NEW i \in 1..Len(Tail(t)),
                      Tail(t)[i].kind = "R", Tail(t)[i].arg = "success"
               PROVE  /\ g # {}
                      /\ \A name \in g :
                            \/ name \in b \cup Exports(Append(s, Head(t)))
                            \/ \E j \in 1..(i - 1) : Tail(t)[j].kind = "E" /\ Tail(t)[j].arg = name
    BY DEF Backed
  <2>1. i + 1 \in 1..Len(t) /\ t[i + 1].kind = "R" /\ t[i + 1].arg = "success"
    BY <1>2
  <2>2. /\ g # {}
        /\ \A name \in g :
              \/ name \in b \cup Exports(s)
              \/ \E j \in 1..i : t[j].kind = "E" /\ t[j].arg = name
    BY <2>1 DEF Backed
  <2>3. ASSUME NEW name, NEW j \in 1..i, t[j].kind = "E", t[j].arg = name
        PROVE  \/ name \in Exports(Append(s, Head(t)))
               \/ \E k \in 1..(i - 1) : Tail(t)[k].kind = "E" /\ Tail(t)[k].arg = name
    <3>1. CASE j = 1
      BY <1>5, <2>3, <3>1
    <3>2. CASE j # 1
      <4>1. j - 1 \in 1..(i - 1) /\ j - 1 \in 1..Len(Tail(t)) /\ Tail(t)[j - 1] = t[j]
        BY <1>2, <2>3, <3>2
      <4> QED
        BY <2>3, <4>1
    <3> QED
      BY <3>1, <3>2
  <2> QED
    BY <1>4, <2>2, <2>3
<1> QED
  BY <1>3, <1>6

\* The first line is handled: an exported variable counts as before.
LEMMA HandleBacked ==
    ASSUME NEW s \in Seq(Line), s # <<>>, NEW b, NEW g, Backed(s, b, g)
    PROVE  /\ Head(s).kind = "E" => Backed(Tail(s), b \cup {Head(s).arg}, g)
           /\ Head(s).kind # "E" => Backed(Tail(s), b, g)
           /\ Exports(s) \subseteq Exports(Tail(s)) \cup {Head(s).arg}
           /\ Head(s).kind # "E" => Exports(s) = Exports(Tail(s))
           /\ Head(s).kind = "R" /\ Head(s).arg = "success" => g # {} /\ g \subseteq b
<1>1. /\ Tail(s) \in Seq(Line) /\ Len(s) \in Nat \ {0} /\ Head(s) = s[1]
      /\ Len(Tail(s)) = Len(s) - 1
      /\ \A i \in 1..Len(Tail(s)) : Tail(s)[i] = s[i + 1]
  OBVIOUS
<1>2. \A j \in 2..Len(s) : j - 1 \in 1..Len(Tail(s)) /\ Tail(s)[j - 1] = s[j]
  BY <1>1
<1>3. ASSUME NEW i \in 1..Len(Tail(s)), Tail(s)[i].kind = "R", Tail(s)[i].arg = "success"
      PROVE  /\ g # {}
             /\ \A name \in g :
                   \/ name \in b
                   \/ s[1].kind = "E" /\ s[1].arg = name
                   \/ \E j \in 1..(i - 1) : Tail(s)[j].kind = "E" /\ Tail(s)[j].arg = name
  <2>1. i + 1 \in 1..Len(s) /\ s[i + 1].kind = "R" /\ s[i + 1].arg = "success"
    BY <1>1, <1>3
  <2>2. /\ g # {}
        /\ \A name \in g :
              \/ name \in b
              \/ \E j \in 1..i : s[j].kind = "E" /\ s[j].arg = name
    BY <2>1 DEF Backed
  <2>3. ASSUME NEW name, NEW j \in 1..i, s[j].kind = "E", s[j].arg = name
        PROVE  \/ s[1].kind = "E" /\ s[1].arg = name
               \/ \E k \in 1..(i - 1) : Tail(s)[k].kind = "E" /\ Tail(s)[k].arg = name
    <3>1. CASE j = 1
      BY <2>3, <3>1
    <3>2. CASE j # 1
      <4>1. j - 1 \in 1..(i - 1) /\ j \in 2..Len(s)
        BY <1>1, <2>3, <3>2
      <4> QED
        BY <1>2, <2>3, <4>1
    <3> QED
      BY <3>1, <3>2
  <2> QED
    BY <2>2, <2>3
<1>4. Head(s).kind = "E" => Backed(Tail(s), b \cup {Head(s).arg}, g)
  BY <1>1, <1>3 DEF Backed
<1>5. Head(s).kind # "E" => Backed(Tail(s), b, g)
  BY <1>1, <1>3 DEF Backed
<1>6. Exports(Tail(s)) \subseteq Exports(s)
  BY <1>1 DEF Exports
<1>7. ASSUME NEW j \in 1..Len(s), s[j].kind = "E", j # 1
      PROVE  s[j].arg \in Exports(Tail(s))
  <2>1. j - 1 \in 1..Len(Tail(s)) /\ Tail(s)[j - 1] = s[j]
    BY <1>1, <1>2, <1>7
  <2> QED
    BY <1>7, <2>1 DEF Exports
<1>8. /\ Exports(s) \subseteq Exports(Tail(s)) \cup {Head(s).arg}
      /\ Head(s).kind # "E" => Exports(s) \subseteq Exports(Tail(s))
  BY <1>1, <1>7 DEF Exports
<1>9. Head(s).kind = "R" /\ Head(s).arg = "success" => g # {} /\ g \subseteq b
  BY <1>1 DEF Backed
<1> QED
  BY <1>4, <1>5, <1>6, <1>8, <1>9

\* read takes the first n lines out of the pipe.
LEMMA SplitBacked ==
    ASSUME NEW s \in Seq(Line), NEW n \in 0..Len(s), NEW b, NEW g, Backed(s, b, g)
    PROVE  LET first == SubSeq(s, 1, n)  rest == SubSeq(s, n + 1, Len(s)) IN
           /\ first \in Seq(Line) /\ rest \in Seq(Line)
           /\ Backed(first, b, g)
           /\ Backed(rest, b \cup Exports(first), g)
           /\ Exports(s) \subseteq Exports(first) \cup Exports(rest)
<1> DEFINE first == SubSeq(s, 1, n)
           rest == SubSeq(s, n + 1, Len(s))
<1>1. /\ first \in Seq(Line) /\ Len(first) = n /\ Len(s) \in Nat
      /\ \A i \in 1..n : first[i] = s[i]
  OBVIOUS
<1>2. /\ rest \in Seq(Line) /\ Len(rest) = Len(s) - n
      /\ \A i \in 1..(Len(s) - n) : rest[i] = s[n + i]
  OBVIOUS
<1> HIDE DEF first, rest
<1>3. Backed(first, b, g)
  BY <1>1 DEF Backed
<1>4. \A j \in 1..n : s[j].kind = "E" => s[j].arg \in Exports(first)
  BY <1>1 DEF Exports
<1>5. \A j \in (n + 1)..Len(s) : j - n \in 1..Len(rest) /\ rest[j - n] = s[j]
  BY <1>1, <1>2
<1>6. Backed(rest, b \cup Exports(first), g)
  <2> SUFFICES ASSUME NEW i \in 1..Len(rest), rest[i].kind = "R", rest[i].arg = "success"
               PROVE  /\ g # {}
                      /\ \A name \in g :
                            \/ name \in b \cup Exports(first)
                            \/ \E j \in 1..(i - 1) : rest[j].kind = "E" /\ rest[j].arg = name
    BY DEF Backed
  <2>1. i \in 1..(Len(s) - n) /\ n \in Nat /\ i \in Nat
    BY <1>1, <1>2
  <2>2. rest[i] = s[n + i]
    BY <1>2, <2>1
  <2>3. n + i \in 1..Len(s) /\ s[n + i].kind = "R" /\ s[n + i].arg = "success"
    BY <1>1, <2>1, <2>2
  <2>4. /\ g # {}
        /\ \A name \in g :
              \/ name \in b
              \/ \E j \in 1..(n + i - 1) : s[j].kind = "E" /\ s[j].arg = name
    BY <2>3 DEF Backed
  <2>5. ASSUME NEW name, NEW j \in 1..(n + i - 1), s[j].kind = "E", s[j].arg = name
        PROVE  \/ name \in Exports(first)
               \/ \E k \in 1..(i - 1) : rest[k].kind = "E" /\ rest[k].arg = name
    <3>1. CASE j \in 1..n
      BY <1>4, <2>5, <3>1
    <3>2. CASE j \notin 1..n
      <4>1. j \in (n + 1)..Len(s) /\ j - n \in 1..(i - 1)
        BY <1>1, <1>2, <2>5, <3>2
      <4> QED
        BY <1>5, <2>5, <4>1
    <3> QED
      BY <3>1, <3>2
  <2> QED
    BY <2>4, <2>5
<1>7. Exports(s) \subseteq Exports(first) \cup Exports(rest)
  <2> SUFFICES ASSUME NEW j \in 1..Len(s), s[j].kind = "E"
               PROVE  s[j].arg \in Exports(first) \cup Exports(rest)
    BY DEF Exports
  <2>1. CASE j \in 1..n
    BY <1>4, <2>1
  <2>2. CASE j \notin 1..n
    <3>1. j - n \in 1..Len(rest) /\ rest[j - n] = s[j]
      BY <1>1, <1>5, <2>2
    <3> QED
      BY <3>1 DEF Exports
  <2> QED
    BY <2>1, <2>2
<1> QED
  BY <1>1, <1>2, <1>3, <1>6, <1>7 DEF first, rest

-----------------------------------------------------------------------------
(* Types *)

\* What the conversation function's return leaves for the helper.
LEMMA ShownAck ==
    ASSUME Stage, TypeOK, Shown
    PROVE  \/ talking = "I" /\ ack' = ack
           \/ talking # "I" /\ \E a \in {"empty", "pin"} : ack' = Append(ack, a)
<1>1. talking \in {"I", "P", "Q"}
  BY DEF Stage, TypeOK, Shown
<1>2. CASE talking = "I"
  <2>1. ack' \in {ack}
    BY <1>2 DEF Shown
  <2> QED
    BY <1>2, <2>1
<1>3. CASE talking = "P"
  <2>1. ack' \in {Append(ack, "empty")}
    BY <1>3 DEF Shown
  <2> QED
    BY <1>3, <2>1
<1>4. CASE talking = "Q"
  <2>1. ack' \in {Append(ack, a) : a \in {"empty", "pin"}}
    BY <1>4 DEF Shown
  <2> QED
    BY <1>4, <2>1
<1> QED
  BY <1>1, <1>2, <1>3, <1>4

\* Taking a line off the front, and putting one at the end.
LEMMA SeqSteps ==
    ASSUME NEW S, NEW s \in Seq(S)
    PROVE  /\ s # <<>> => Head(s) \in S /\ Tail(s) \in Seq(S)
           /\ \A x \in S : Append(s, x) \in Seq(S)
OBVIOUS

\* The helper keeps the types of its own variables.
LEMMA HelperTypeStep ==
    ASSUME HelperTypeOK, HelperNext
    PROVE  HelperTypeOK'
<1>0. /\ <<I, R("auth_err")>> \in Seq(Line)
      /\ <<R("auth_err")>> \in Seq(Line)
      /\ <<R("authinfo_unavail")>> \in Seq(Line)
  <2>1. R("auth_err") \in Line /\ R("authinfo_unavail") \in Line /\ I \in Line
    BY LineTypes, CodesAssumption
  <2> QED
    BY <2>1
<1> USE LineTypes, CodesAssumption, ShortSeq DEF HelperTypeOK, Ended, Conclude, Idle
<1>1. CASE WriteLine
  <2>1. todo # <<>> /\ Head(todo) \in Line /\ Tail(todo) \in Seq(Line)
        /\ Append(pipe, Head(todo)) \in Seq(Line)
    BY <1>1, SeqSteps DEF WriteLine
  <2>2. CASE closed
    BY <1>1, <2>2 DEF WriteLine
  <2>3. CASE ~closed
    BY <1>1, <2>1, <2>3 DEF WriteLine
  <2> QED
    BY <2>2, <2>3
<1>2. CASE ConcludeAtOnce
  BY <1>2 DEF ConcludeAtOnce
<1>3. CASE ConcludeWithNotice
  BY <1>3 DEF ConcludeWithNotice
<1>4. CASE AskApproval
  BY <1>4 DEF AskApproval
<1>5. CASE ReadAnswer
  <2>1. ack' \in Seq({"empty", "pin"})
    BY <1>5, SeqSteps DEF ReadAnswer
  <2>2. \/ hpc' = "poll" /\ todo' = todo
        \/ hpc' = "last" /\ todo' = <<I, R("auth_err")>>
    BY <1>5, Zenon DEF ReadAnswer
  <2>3. todo' \in Seq(Line) /\ hpc' \in {"poll", "last"}
    BY <1>0, <2>2
  <2>4. UNCHANGED <<asked, granted, hstat, pipe, closed, cut>>
    BY <1>5, Zenon DEF ReadAnswer
  <2> QED
    BY <2>1, <2>3, <2>4
<1>6. CASE Grant
  <2>1. PICK env \in Sessions : /\ todo' = env \o <<R("success")>>
                                /\ granted' = {env[i].arg : i \in 1..Len(env)}
    BY <1>6 DEF Grant
  <2>2. <<R("success")>> \in Seq(Line)
    <3>1. R("success") \in Line
      OBVIOUS
    <3> QED
      BY <3>1
  <2>3. todo' \in Seq(Line) /\ granted' \subseteq Variables
    BY <2>1, <2>2, SessionLines
  <2> QED
    BY <1>6, <2>3 DEF Grant
<1>7. CASE RejectEnv
  <2>1. PICK env \in Sessions : \E n \in 0..(Len(env) - 1) :
            todo' = SubSeq(env, 1, n) \o <<R("auth_err")>>
    BY <1>7 DEF RejectEnv
  <2>2. PICK n \in 0..(Len(env) - 1) : todo' = SubSeq(env, 1, n) \o <<R("auth_err")>>
    BY <2>1
  <2>3. SubSeq(env, 1, n) \in Seq(Line)
    BY SessionLines
  <2>4. todo' \in Seq(Line)
    BY <1>0, <2>2, <2>3
  <2> QED
    BY <1>7, <2>4 DEF RejectEnv
<1>8. CASE Refuse
  <2>1. todo' \in {<<I, R("auth_err")>>, <<R("auth_err")>>, <<R("authinfo_unavail")>>}
    BY <1>8, Zenon DEF Refuse
  <2>2. todo' \in Seq(Line)
    BY <1>0, <2>1
  <2> QED
    BY <1>8, <2>2 DEF Refuse
<1>9. CASE Garble
  BY <1>9 DEF Garble
<1>10. CASE Exit
  BY <1>10 DEF Exit
<1>11. CASE Die
  BY <1>11 DEF Die
<1>12. CASE WritePart
  BY <1>12 DEF WritePart
<1> QED
  BY <1>1, <1>2, <1>3, <1>4, <1>5, <1>6, <1>7, <1>8, <1>9, <1>10, <1>11, <1>12 DEF HelperNext

\* What the end of the loop leaves, whatever ended it.
LEMMA LeaveTypes ==
    ASSUME TypeOK, Leave(TRUE) \/ Leave(FALSE)
    PROVE  /\ mpc' = "reap" /\ done' \in BOOLEAN /\ closed' \in BOOLEAN
           /\ fds' \subseteq pipefd \cup ackfd
           /\ leftAt' \in Nat /\ graceEnd' \in Nat
<1>1. done' \in BOOLEAN /\ closed' \in BOOLEAN
  BY Zenon DEF Leave
<1>2. now + Grace \in Nat /\ now \in Nat
  BY PamModuleAssumption DEF TypeOK
<1>3. graceEnd' \in Nat
  <2>1. graceEnd' \in {now, now + Grace}
    BY Zenon DEF Leave
  <2> QED
    BY <1>2, <2>1
<1> QED
  BY <1>1, <1>2, <1>3 DEF Leave, TypeOK

\* A step keeps the types.
LEMMA TypeStep ==
    ASSUME TypeOK, Stage, Next
    PROVE  TypeOK'
<1>0. ASSUME Leave(TRUE) \/ Leave(FALSE)
      PROVE  /\ mpc' = "reap" /\ done' \in BOOLEAN /\ closed' \in BOOLEAN
             /\ fds' \subseteq pipefd \cup ackfd
             /\ leftAt' \in Nat /\ graceEnd' \in Nat
  BY <1>0, LeaveTypes
<1> USE PamModuleAssumption DEF TypeOK, HelperTypeOK, PamResults, Ended, pipefd, ackfd, helperVars, moduleVars
<1>1. CASE StartFails
  BY <1>1 DEF StartFails
<1>2. CASE MakePipes
  BY <1>2 DEF MakePipes
<1>3. CASE MakePipesFails
  BY <1>3 DEF MakePipesFails
<1>4. CASE ForkFails
  BY <1>4 DEF ForkFails
<1>5. CASE Fork
  BY <1>5 DEF Fork
<1>6. CASE LoopTop
  <2>1. CASE Leave(FALSE)
    BY <1>0, <1>6, <2>1 DEF LoopTop
  <2>2. CASE mpc' = "poll" /\ UNCHANGED <<done, closed, leftAt, graceEnd, fds>>
    BY <1>6, <2>2 DEF LoopTop
  <2> QED
    BY <1>6, <2>1, <2>2, Zenon DEF LoopTop
<1>7. CASE PollTimeout
  BY <1>7 DEF PollTimeout
<1>8. CASE Read
  <2>1. PICK n \in 0..Len(pipe) : /\ buf' = SubSeq(pipe, 1, n)
                                  /\ pipe' = SubSeq(pipe, n + 1, Len(pipe))
                                  /\ part' \in BOOLEAN
    BY <1>8 DEF Read
  <2>2. buf' \in Seq(Line) /\ pipe' \in Seq(Line)
    BY <2>1
  <2> QED
    BY <1>8, <2>1, <2>2 DEF Read
<1>9. CASE EndOfLines
  BY <1>0, <1>9 DEF EndOfLines
<1>10. CASE PollFails
  BY <1>0, <1>10 DEF PollFails
<1>11. CASE LinesDone
  BY <1>11 DEF LinesDone
<1>12. CASE Show
  BY <1>12 DEF Show, At
<1>13. CASE Shown
  <2>1. ack' = ack \/ \E a \in {"empty", "pin"} : ack' = Append(ack, a)
    BY <1>13, ShownAck, Zenon
  <2>2. answered' \in BOOLEAN
    BY <1>13, Zenon DEF Shown
  <2>3. ack' \in Seq({"empty", "pin"})
    <3>1. \A a \in {"empty", "pin"} : Append(ack, a) \in Seq({"empty", "pin"})
      OBVIOUS
    <3> QED
      BY <2>1, <3>1
  <2>4. /\ talking' = "none" /\ mpc' = "lines"
        /\ UNCHANGED <<hpc, todo, cut, asked, granted, hstat, pipe, closed, now, deadline, buf, rc,
                       done, leftAt, graceEnd, fds, status, penv, part>>
    BY <1>13, Zenon DEF Shown
  <2> QED
    BY <2>2, <2>3, <2>4
<1>14. CASE Export
  <2>1. Head(buf).arg \in Variables /\ Tail(buf) \in Seq(Line)
    BY <1>14, SeqSteps DEF Export, At, Line, Variables
  <2>2. penv' \subseteq Variables
    BY <1>14, <2>1 DEF Export
  <2> QED
    BY <1>14, <2>1, <2>2 DEF Export
<1>15. CASE Violation
  <2>1. Tail(buf) \in Seq(Line)
    BY <1>15, SeqSteps DEF Violation, At
  <2> QED
    BY <1>0, <1>15, <2>1 DEF Violation
<1>16. CASE TooLong
  <2>1. Tail(buf) \in Seq(Line)
    BY <1>16, SeqSteps DEF TooLong, At
  <2> QED
    BY <1>0, <1>16, <2>1 DEF TooLong
<1>17. CASE Result
  <2>1. Tail(buf) \in Seq(Line)
    BY <1>17, SeqSteps DEF Result, At
  <2> QED
    BY <1>0, <1>17, <2>1 DEF Result, map_result
<1>18. CASE Reap
  BY <1>18 DEF Reap, Collect, Stage
<1>19. CASE ReapGivesUp
  BY <1>19 DEF ReapGivesUp
<1>20. CASE Kill
  BY <1>20 DEF Kill
<1>21. CASE Wait
  BY <1>21 DEF Wait, Collect, Stage
<1>22. CASE Judge
  BY <1>22 DEF Judge
<1>23. CASE HelperStep
  BY <1>23, HelperTypeStep DEF HelperStep
<1>24. CASE Tick
  BY <1>24 DEF Tick
<1> QED
  BY <1>1, <1>2, <1>3, <1>4, <1>5, <1>6, <1>7, <1>8, <1>9, <1>10, <1>11, <1>12, <1>13, <1>14,
     <1>15, <1>16, <1>17, <1>18, <1>19, <1>20, <1>21, <1>22, <1>23, <1>24 DEF Next, ModuleStep

-----------------------------------------------------------------------------
(* Where the module and its helper are *)

\* Only a running helper takes a step, and it stays started.
LEMMA HelperRuns ==
    ASSUME HelperTypeOK, HelperNext
    PROVE  hstat = "running" /\ hstat' \in {"running", "exit0", "failed"} /\ closed' = closed
<1> USE DEF Ended, Conclude, Idle
<1>1. CASE WriteLine
  <2>1. hstat' = "failed" \/ hstat' = hstat
    BY <1>1, Zenon DEF WriteLine
  <2>2. hstat = "running" /\ closed' = closed
    BY <1>1, Zenon DEF WriteLine
  <2> QED
    BY <2>1, <2>2
<1>2. CASE ConcludeAtOnce \/ ConcludeWithNotice \/ AskApproval \/ ReadAnswer
  BY <1>2 DEF ConcludeAtOnce, ConcludeWithNotice, AskApproval, ReadAnswer
<1>3. CASE Grant \/ RejectEnv \/ Refuse \/ Garble
  BY <1>3 DEF Grant, RejectEnv, Refuse, Garble
<1>4. CASE Exit \/ Die \/ WritePart
  BY <1>4 DEF Exit, Die, WritePart
<1> QED
  BY <1>1, <1>2, <1>3, <1>4 DEF HelperNext

\* Leaving the loop closes both pipes.
LEMMA LeaveCloses ==
    ASSUME Leave(TRUE) \/ Leave(FALSE), mpc \in Looping, Stage
    PROVE  mpc' = "reap" /\ fds' = {}
<1>1. mpc' = "reap" /\ fds' = fds \ {"pipe0", "ack1"}
  BY Zenon DEF Leave
<1>2. fds = {"pipe0", "ack1"}
  BY DEF Stage
<1> QED
  BY <1>1, <1>2

\* A step keeps the module, its descriptors and its helper in step.
LEMMA ControlStep ==
    ASSUME TypeOK, Stage, NothingLeft, Next
    PROVE  Stage' /\ NothingLeft'
<1>0. ASSUME Leave(TRUE) \/ Leave(FALSE), mpc \in Looping
      PROVE  mpc' = "reap" /\ fds' = {}
  BY <1>0, LeaveCloses
<1> USE DEF Stage, NothingLeft, Looping, helperVars, moduleVars, pipefd, ackfd
<1>1. CASE StartFails
  BY <1>1 DEF StartFails
<1>2. CASE MakePipes
  BY <1>2 DEF MakePipes
<1>3. CASE MakePipesFails
  BY <1>3 DEF MakePipesFails
<1>4. CASE ForkFails
  BY <1>4 DEF ForkFails
<1>5. CASE Fork
  BY <1>5 DEF Fork
<1>6. CASE LoopTop
  <2>1. CASE Leave(FALSE)
    BY <1>0, <1>6, <2>1 DEF LoopTop
  <2>2. CASE mpc' = "poll" /\ UNCHANGED <<done, closed, leftAt, graceEnd, fds>>
    BY <1>6, <2>2 DEF LoopTop
  <2> QED
    BY <1>6, <2>1, <2>2, Zenon DEF LoopTop
<1>7. CASE PollTimeout
  BY <1>7 DEF PollTimeout
<1>8. CASE Read
  BY <1>8 DEF Read
<1>9. CASE EndOfLines
  BY <1>0, <1>9 DEF EndOfLines
<1>10. CASE PollFails
  BY <1>0, <1>10 DEF PollFails
<1>11. CASE LinesDone
  BY <1>11 DEF LinesDone
<1>12. CASE Show
  BY <1>12 DEF Show, At
<1>13. CASE Shown
  <2>1. /\ talking' = "none" /\ mpc = "conv" /\ mpc' = "lines"
        /\ UNCHANGED <<hstat, buf, fds>>
    BY <1>13, Zenon DEF Shown
  <2> QED
    BY <2>1
<1>14. CASE Export
  BY <1>14 DEF Export, At
<1>15. CASE Violation
  BY <1>0, <1>15 DEF Violation, At
<1>16. CASE TooLong
  BY <1>0, <1>16 DEF TooLong, At
<1>17. CASE Result
  BY <1>0, <1>17 DEF Result, At
<1>18. CASE Reap
  BY <1>18 DEF Reap
<1>19. CASE ReapGivesUp
  BY <1>19 DEF ReapGivesUp
<1>20. CASE Kill
  BY <1>20 DEF Kill
<1>21. CASE Wait
  BY <1>21 DEF Wait
<1>22. CASE Judge
  BY <1>22 DEF Judge
<1>23. CASE HelperStep
  <2>1. hstat = "running" /\ hstat' \in {"running", "exit0", "failed"}
    BY <1>23, HelperRuns DEF HelperStep, TypeOK
  <2> QED
    BY <1>23, <2>1 DEF HelperStep
<1>24. CASE Tick
  BY <1>24 DEF Tick
<1> QED
  BY <1>1, <1>2, <1>3, <1>4, <1>5, <1>6, <1>7, <1>8, <1>9, <1>10, <1>11, <1>12, <1>13, <1>14,
     <1>15, <1>16, <1>17, <1>18, <1>19, <1>20, <1>21, <1>22, <1>23, <1>24 DEF Next, ModuleStep

\* A step keeps the status that is judged the helper's.
LEMMA StatusStep ==
    ASSUME TypeOK, Stage, ResultBacked, StatusTrue, Next
    PROVE  StatusTrue'
<1> SUFFICES ASSUME ~AutoReaped
             PROVE  /\ mpc' = "judge" => status' = hstat'
                    /\ mpc' = "ret" /\ rc' = "success" => hstat' = "exit0"
  BY DEF StatusTrue
<1>0. /\ mpc = "judge" => status = hstat
      /\ mpc = "ret" /\ rc = "success" => hstat = "exit0"
  BY DEF StatusTrue
<1>1. mpc \in {"start", "fork"} => rc # "success"
  BY DEF ResultBacked
<1>2. CASE Reap \/ Wait
  BY <1>2 DEF Reap, Wait, Collect, helperVars
<1>3. CASE Judge
  <2>1. CASE rc = "success"
    <3>1. done
      BY <2>1 DEF ResultBacked
    <3>2. rc' = "success" => status = "exit0"
      BY <1>3, <2>1, <3>1 DEF Judge
    <3> QED
      BY <1>0, <1>3, <3>2 DEF Judge, helperVars
  <2>2. CASE rc # "success"
    BY <1>3, <2>2 DEF Judge
  <2> QED
    BY <2>1, <2>2
<1>4. CASE HelperStep
  <2>1. hstat = "running"
    BY <1>4, HelperRuns DEF HelperStep, TypeOK
  <2> QED
    BY <1>0, <1>4, <2>1 DEF HelperStep, moduleVars, Stage
<1>5. CASE StartFails \/ MakePipesFails \/ ForkFails
  BY <1>1, <1>5 DEF StartFails, MakePipesFails, ForkFails
<1>6. CASE MakePipes \/ Fork \/ LoopTop \/ PollTimeout \/ Read \/ EndOfLines \/ PollFails
  <2>1. mpc' \in {"fork", "top", "poll", "lines", "reap"}
    BY <1>6 DEF MakePipes, Fork, LoopTop, PollTimeout, Read, EndOfLines, PollFails, Leave
  <2> QED
    BY <2>1
<1>7. CASE LinesDone \/ Show \/ Export \/ Violation \/ TooLong \/ Result
  <2>1. mpc' \in {"top", "conv", "lines", "reap"}
    BY <1>7 DEF LinesDone, Show, Export, Violation, TooLong, Result, At, Leave
  <2> QED
    BY <2>1
<1>8. CASE Shown
  <2>1. mpc' = "lines"
    BY <1>8, Zenon DEF Shown
  <2> QED
    BY <2>1
<1>9. CASE ReapGivesUp \/ Kill
  BY <1>9 DEF ReapGivesUp, Kill
<1>10. CASE Tick
  BY <1>0, <1>10 DEF Tick, helperVars, moduleVars
<1> QED
  BY <1>2, <1>3, <1>4, <1>5, <1>6, <1>7, <1>8, <1>9, <1>10 DEF Next, ModuleStep

\* A step keeps the grace period.
LEMMA GraceStep ==
    ASSUME TypeOK, GraceKept, Next
    PROVE  GraceKept'
<1> USE DEF GraceKept, NoEarlyKill
<1>0. ASSUME Leave(TRUE) \/ Leave(FALSE)
      PROVE  mpc' = "reap" /\ (done' => graceEnd' = leftAt' + Grace)
  <2>1. CASE Leave(TRUE)
    BY <2>1 DEF Leave
  <2>2. CASE Leave(FALSE)
    <3>1. mpc' = "reap" /\ ~done'
      BY <2>2, Zenon DEF Leave
    <3> QED
      BY <3>1
  <2> QED
    BY <1>0, <2>1, <2>2
<1>1. CASE StartFails \/ MakePipesFails \/ ForkFails \/ MakePipes \/ Fork \/ PollTimeout \/ Read
  BY <1>1 DEF StartFails, MakePipesFails, ForkFails, MakePipes, Fork, PollTimeout, Read
<1>2. CASE LoopTop
  <2>1. CASE Leave(FALSE)
    BY <1>0, <2>1
  <2>2. CASE mpc' = "poll"
    BY <2>2
  <2> QED
    BY <1>2, <2>1, <2>2, Zenon DEF LoopTop
<1>3. CASE EndOfLines \/ PollFails \/ Violation \/ TooLong \/ Result
  <2>1. Leave(TRUE) \/ Leave(FALSE)
    BY <1>3, Zenon DEF EndOfLines, PollFails, Violation, TooLong, Result
  <2> QED
    BY <1>0, <2>1
<1>4. CASE LinesDone \/ Show \/ Export
  BY <1>4 DEF LinesDone, Show, Export, At
<1>5. CASE Shown
  <2>1. mpc' = "lines"
    BY <1>5, Zenon DEF Shown
  <2> QED
    BY <2>1
<1>6. CASE Reap \/ Kill \/ Wait \/ Judge
  BY <1>6 DEF Reap, Kill, Wait, Judge
<1>7. CASE ReapGivesUp
  BY <1>7, PamModuleAssumption DEF ReapGivesUp, TypeOK
<1>8. CASE HelperStep
  BY <1>8 DEF HelperStep, moduleVars
<1>9. CASE Tick
  <2>1. UNCHANGED <<mpc, done, graceEnd, leftAt>> /\ now' = now + 1
    BY <1>9 DEF Tick, moduleVars
  <2> QED
    BY <2>1, PamModuleAssumption DEF TypeOK
<1> QED
  BY <1>1, <1>2, <1>3, <1>4, <1>5, <1>6, <1>7, <1>8, <1>9 DEF Next, ModuleStep

-----------------------------------------------------------------------------
(* The prompt *)

\* A step of the helper takes answers and never makes one; it polls with an
\* answer or without a module.
LEMMA HelperAnswers ==
    ASSUME HelperTypeOK, HelperNext
    PROVE  /\ ack' # <<>> => ack # <<>>
           /\ hpc' = "poll" => hpc = "poll" \/ ack # <<>> \/ closed
<1> USE DEF Conclude, Idle
<1>1. CASE WriteLine \/ WritePart \/ Exit \/ Die
  BY <1>1 DEF WriteLine, WritePart, Exit, Die
<1>2. CASE ConcludeAtOnce \/ ConcludeWithNotice \/ AskApproval
  BY <1>2 DEF ConcludeAtOnce, ConcludeWithNotice, AskApproval
<1>3. CASE Grant \/ RejectEnv \/ Refuse \/ Garble
  BY <1>3 DEF Grant, RejectEnv, Refuse, Garble
<1>4. CASE ReadAnswer
  <2>1. ack # <<>> \/ closed
    BY <1>4 DEF ReadAnswer
  <2>2. ack = <<>> => ack' = ack
    BY <1>4 DEF ReadAnswer
  <2> QED
    BY <2>1, <2>2
<1> QED
  BY <1>1, <1>2, <1>3, <1>4 DEF HelperNext

\* A step keeps answers the user's, and polling after them.
LEMMA AnswerStep ==
    ASSUME TypeOK, Stage, AnswerIsUsers, PollsAfterAnswer, Next
    PROVE  AnswerIsUsers' /\ PollsAfterAnswer'
<1> USE DEF AnswerIsUsers, PollsAfterAnswer
<1>1. CASE UNCHANGED <<ack, answered, hpc>> /\ (closed => closed')
  BY <1>1
<1>2. CASE HelperStep
  <2>1. /\ ack' # <<>> => ack # <<>>
        /\ hpc' = "poll" => hpc = "poll" \/ ack # <<>> \/ closed
        /\ closed' = closed
    BY <1>2, HelperAnswers, HelperRuns DEF HelperStep, TypeOK
  <2>2. answered' = answered
    BY <1>2 DEF HelperStep, moduleVars
  <2> QED
    BY <2>1, <2>2
<1>3. CASE Shown
  <2>1. ack' = ack \/ talking # "I"
    BY <1>3, ShownAck
  <2>2. answered' <=> (answered \/ talking # "I")
    BY <1>3, Zenon DEF Shown
  <2>3. UNCHANGED <<hpc, closed>>
    BY <1>3, Zenon DEF Shown
  <2> QED
    BY <2>1, <2>2, <2>3
<1>4. CASE StartFails \/ MakePipes \/ MakePipesFails \/ ForkFails \/ Fork
  BY <1>1, <1>4 DEF StartFails, MakePipes, MakePipesFails, ForkFails, Fork, helperVars
<1>5. CASE LoopTop
  <2>1. UNCHANGED <<ack, answered, hpc>> /\ (closed => closed')
    BY <1>5, Zenon DEF LoopTop, Leave
  <2> QED
    BY <1>1, <2>1
<1>6. CASE EndOfLines \/ PollFails \/ Violation \/ TooLong \/ Result
  <2>1. UNCHANGED <<ack, answered, hpc>> /\ (closed => closed')
    BY <1>6, Zenon DEF EndOfLines, PollFails, Violation, TooLong, Result, Leave
  <2> QED
    BY <1>1, <2>1
<1>7. CASE PollTimeout \/ Read \/ LinesDone \/ Show \/ Export
  BY <1>1, <1>7 DEF PollTimeout, Read, LinesDone, Show, Export, helperVars
<1>8. CASE Reap \/ ReapGivesUp \/ Kill \/ Wait \/ Judge \/ Tick
  BY <1>1, <1>8 DEF Reap, ReapGivesUp, Kill, Wait, Judge, Tick, helperVars, moduleVars
<1> QED
  BY <1>2, <1>3, <1>4, <1>5, <1>6, <1>7, <1>8 DEF Next, ModuleStep

-----------------------------------------------------------------------------
(* The lines *)

\* The helper grants once.
LEMMA HelperGrants ==
    ASSUME HelperTypeOK, GrantIsLast, HelperNext
    PROVE  GrantIsLast' /\ (granted = {} \/ granted' = granted)
<1> USE DEF GrantIsLast, Conclude, Idle
<1>1. CASE Grant
  BY <1>1 DEF Grant
<1>2. CASE ConcludeAtOnce \/ ConcludeWithNotice \/ AskApproval \/ RejectEnv \/ Refuse \/ Garble
  BY <1>2 DEF ConcludeAtOnce, ConcludeWithNotice, AskApproval, RejectEnv, Refuse, Garble
<1>3. CASE WriteLine \/ WritePart \/ Exit \/ Die
  <2>1. UNCHANGED <<hpc, granted>>
    BY <1>3, Zenon DEF WriteLine, WritePart, Exit, Die
  <2> QED
    BY <2>1
<1>4. CASE ReadAnswer
  <2>1. hpc = "asked" /\ granted' = granted
    BY <1>4, Zenon DEF ReadAnswer
  <2> QED
    BY <2>1
<1> QED
  BY <1>1, <1>2, <1>3, <1>4 DEF HelperNext

\* So does the whole system.
LEMMA GrantStep ==
    ASSUME TypeOK, GrantIsLast, Next
    PROVE  GrantIsLast'
<1>1. CASE UNCHANGED <<hpc, granted>>
  BY <1>1 DEF GrantIsLast
<1>2. CASE HelperStep
  BY <1>2, HelperGrants DEF HelperStep, TypeOK
<1>3. CASE StartFails \/ MakePipes \/ MakePipesFails \/ ForkFails \/ Fork
  BY <1>1, <1>3 DEF StartFails, MakePipes, MakePipesFails, ForkFails, Fork, helperVars
<1>4. CASE LoopTop \/ EndOfLines \/ PollFails \/ Violation \/ TooLong \/ Result \/ Shown
  <2>1. UNCHANGED <<hpc, granted>>
    BY <1>4, Zenon DEF LoopTop, EndOfLines, PollFails, Violation, TooLong, Result, Shown
  <2> QED
    BY <1>1, <2>1
<1>5. CASE PollTimeout \/ Read \/ LinesDone \/ Show \/ Export
  BY <1>1, <1>5 DEF PollTimeout, Read, LinesDone, Show, Export, helperVars
<1>6. CASE Reap \/ ReapGivesUp \/ Kill \/ Wait \/ Judge \/ Tick
  BY <1>1, <1>6 DEF Reap, ReapGivesUp, Kill, Wait, Judge, Tick, helperVars
<1> QED
  BY <1>2, <1>3, <1>4, <1>5, <1>6 DEF Next, ModuleStep

\* What a step of the helper does to the lines: it writes the next one, or it
\* decides on new ones, of which only those of a granted flow hold a success.
LEMMA HelperLines ==
    ASSUME HelperTypeOK, GrantIsLast, HelperNext
    PROVE  \/ /\ todo # <<>>
              /\ pipe' = Append(pipe, Head(todo))
              /\ todo' = Tail(todo)
              /\ granted' = granted
           \/ UNCHANGED <<pipe, todo, granted>>
           \/ /\ pipe' = pipe
              /\ granted = {} \/ granted' = granted
              /\ \A before : Backed(todo', before, granted')
<1>0. /\ I \in Line /\ E("sub") \in Line /\ E("user") \in Line
      /\ \A k \in {"P", "Q"} : Prompt(k) \in Line
      /\ R("success") \in Line /\ R("auth_err") \in Line /\ R("authinfo_unavail") \in Line
      /\ R("ignore") \in Line /\ R("user_unknown") \in Line
      /\ Garbage \subseteq Line
  BY LineTypes, CodesAssumption
<1>1. \A c \in {"auth_err", "authinfo_unavail", "ignore", "user_unknown"} : \A before, g :
          Backed(<<R(c)>>, before, g) /\ Backed(<<I, R(c)>>, before, g)
  BY DEF Backed, I, R
<1>2. \A line \in Garbage : \A before, g : Backed(<<line>>, before, g)
  BY DEF Backed, Garbage, R
<1>3. CASE WriteLine
  BY <1>3, Zenon DEF WriteLine
<1>4. CASE ConcludeAtOnce
  BY <1>1, <1>4 DEF ConcludeAtOnce, Conclude
<1>5. CASE ConcludeWithNotice
  BY <1>1, <1>5 DEF ConcludeWithNotice, Conclude
<1>6. CASE AskApproval
  <2>1. PICK k \in {"P", "Q"} : todo' = <<I, I, Prompt(k)>>
    BY <1>6 DEF AskApproval
  <2>2. \A before : Backed(todo', before, granted')
    BY <2>1 DEF Backed, I, Prompt
  <2> QED
    BY <1>6, <2>2 DEF AskApproval
<1>7. CASE ReadAnswer
  <2>1. todo' = todo \/ todo' = <<I, R("auth_err")>>
    BY <1>7, Zenon DEF ReadAnswer, Conclude
  <2>2. UNCHANGED <<pipe, granted>>
    BY <1>7, Zenon DEF ReadAnswer
  <2> QED
    BY <1>1, <2>1, <2>2
<1>8. CASE Grant
  <2>1. PICK env \in Sessions : /\ todo' = env \o <<R("success")>>
                                /\ granted' = {env[i].arg : i \in 1..Len(env)}
    BY <1>8 DEF Grant, Conclude
  <2>2. pipe' = pipe /\ (granted = {} \/ granted' = granted)
    BY <1>8, HelperGrants DEF Grant
  <2>3. /\ env \in Seq(Line) /\ Len(env) \in {1, 2}
        /\ \A i \in 1..Len(env) : env[i].kind = "E"
    BY SessionLines
  <2>4. /\ Len(todo') = Len(env) + 1
        /\ \A i \in 1..Len(env) : todo'[i] = env[i]
    BY <1>0, <2>1, <2>3
  <2>5. ASSUME NEW i \in 1..Len(todo'), todo'[i].kind = "R"
        PROVE  i = Len(env) + 1
    <3>1. i \notin 1..Len(env)
      BY <2>3, <2>4, <2>5
    <3> QED
      BY <2>3, <2>4, <3>1
  <2>6. granted' # {}
    <3>1. 1 \in 1..Len(env)
      BY <2>3
    <3>2. env[1].arg \in granted'
      BY <2>1, <3>1
    <3> QED
      BY <3>2
  <2>7. \A name \in granted' : \E j \in 1..Len(env) : todo'[j].kind = "E" /\ todo'[j].arg = name
    BY <2>1, <2>3, <2>4
  <2>8. ASSUME NEW before PROVE Backed(todo', before, granted')
    <3> SUFFICES ASSUME NEW i \in 1..Len(todo'), todo'[i].kind = "R"
                 PROVE  /\ granted' # {}
                        /\ \A name \in granted' :
                              \E j \in 1..(i - 1) : todo'[j].kind = "E" /\ todo'[j].arg = name
      BY DEF Backed
    <3>1. i - 1 = Len(env)
      BY <2>3, <2>5
    <3> QED
      BY <2>6, <2>7, <3>1
  <2> QED
    BY <2>2, <2>8
<1>9. CASE RejectEnv
  <2>1. PICK env \in Sessions : \E n \in 0..(Len(env) - 1) :
            todo' = SubSeq(env, 1, n) \o <<R("auth_err")>>
    BY <1>9 DEF RejectEnv, Conclude
  <2>2. PICK n \in 0..(Len(env) - 1) : todo' = SubSeq(env, 1, n) \o <<R("auth_err")>>
    BY <2>1
  <2> DEFINE before == SubSeq(env, 1, n)
  <2>3. /\ env \in Seq(Line) /\ Len(env) \in {1, 2}
        /\ \A i \in 1..Len(env) : env[i].kind = "E"
    BY SessionLines
  <2>4. before \in Seq(Line) /\ Len(before) = n /\ \A i \in 1..n : before[i] = env[i]
    BY <2>3
  <2>5. todo' = before \o <<R("auth_err")>>
    BY <2>2
  <2> HIDE DEF before
  <2>6. \A i \in 1..Len(todo') : todo'[i].kind = "E" \/ todo'[i] = R("auth_err")
    BY <1>0, <2>3, <2>4, <2>5
  <2>7. \A b : Backed(todo', b, granted')
    BY <2>6 DEF Backed, R
  <2> QED
    BY <1>9, <2>7 DEF RejectEnv
<1>10. CASE Refuse
  <2>1. todo' \in {<<I, R("auth_err")>>, <<R("auth_err")>>, <<R("authinfo_unavail")>>}
    BY <1>10, Zenon DEF Refuse, Conclude
  <2>2. \A b : Backed(todo', b, granted')
    BY <1>1, <2>1
  <2> QED
    BY <1>10, <2>2 DEF Refuse
<1>11. CASE Garble
  BY <1>2, <1>11 DEF Garble, Conclude
<1>12. CASE Exit \/ Die \/ WritePart
  BY <1>12 DEF Exit, Die, WritePart
<1> QED
  BY <1>3, <1>4, <1>5, <1>6, <1>7, <1>8, <1>9, <1>10, <1>11, <1>12 DEF HelperNext

\* A step keeps every success to come backed.
LEMMA LinesStep ==
    ASSUME TypeOK, Stage, GrantIsLast, LinesBacked, Next
    PROVE  LinesBacked'
<1> DEFINE Handling == {"start", "fork"} \cup Looping
<1>0. buf \in Seq(Line) /\ pipe \in Seq(Line) /\ todo \in Seq(Line)
  BY DEF TypeOK, HelperTypeOK
<1>1. CASE mpc' \notin Handling
  BY <1>1 DEF LinesBacked
<1>2. CASE mpc \in Handling /\ UNCHANGED <<buf, pipe, todo, penv, granted>>
  BY <1>2 DEF LinesBacked
<1>3. CASE Read
  <2>1. PICK n \in 0..Len(pipe) : /\ buf' = SubSeq(pipe, 1, n)
                                  /\ pipe' = SubSeq(pipe, n + 1, Len(pipe))
    BY <1>3 DEF Read
  <2>2. buf = <<>> /\ mpc \in Handling
    BY <1>3 DEF Read, Stage, Looping
  <2>3. Exports(buf) = {}
    BY <2>2 DEF Exports
  <2>4. Backed(pipe, penv, granted) /\ Backed(todo, penv \cup Exports(pipe), granted)
    BY <2>2, <2>3 DEF LinesBacked
  <2>5. /\ Backed(buf', penv, granted)
        /\ Backed(pipe', penv \cup Exports(buf'), granted)
        /\ Exports(pipe) \subseteq Exports(buf') \cup Exports(pipe')
    BY <1>0, <2>1, <2>4, SplitBacked
  <2>6. Backed(todo, penv \cup Exports(buf') \cup Exports(pipe'), granted)
    <3>1. penv \cup Exports(pipe) \subseteq penv \cup Exports(buf') \cup Exports(pipe')
      BY <2>5
    <3> QED
      BY <1>0, <2>4, <3>1, BackedMono
  <2> QED
    BY <1>3, <2>5, <2>6 DEF LinesBacked, Read
<1>4. CASE Show
  <2>1. mpc \in Handling /\ buf # <<>> /\ Head(buf).kind # "E" /\ buf' = Tail(buf)
    BY <1>4 DEF Show, At, Looping
  <2>2. Backed(buf, penv, granted)
    BY <2>1 DEF LinesBacked
  <2>3. Backed(buf', penv, granted) /\ Exports(buf') = Exports(buf)
    BY <1>0, <2>1, <2>2, HandleBacked
  <2> QED
    BY <1>4, <2>1, <2>3 DEF LinesBacked, Show, helperVars
<1>5. CASE Export
  <2>1. /\ mpc \in Handling /\ buf # <<>> /\ Head(buf).kind = "E" /\ buf' = Tail(buf)
        /\ penv' = penv \cup {Head(buf).arg}
        /\ UNCHANGED <<pipe, todo, granted>>
    BY <1>5 DEF Export, At, Looping, helperVars
  <2>2. /\ Backed(buf, penv, granted)
        /\ Backed(pipe, penv \cup Exports(buf), granted)
        /\ Backed(todo, penv \cup Exports(buf) \cup Exports(pipe), granted)
    BY <2>1 DEF LinesBacked
  <2>3. /\ Backed(buf', penv', granted)
        /\ Exports(buf) \subseteq Exports(buf') \cup {Head(buf).arg}
    BY <1>0, <2>1, <2>2, HandleBacked
  <2>4. penv \cup Exports(buf) \subseteq penv' \cup Exports(buf')
    BY <2>1, <2>3
  <2>5. penv \cup Exports(buf) \cup Exports(pipe) \subseteq penv' \cup Exports(buf') \cup Exports(pipe)
    BY <2>4
  <2>6. /\ Backed(pipe, penv' \cup Exports(buf'), granted)
        /\ Backed(todo, penv' \cup Exports(buf') \cup Exports(pipe), granted)
    BY <1>0, <2>2, <2>4, <2>5, BackedMono
  <2> QED
    BY <2>1, <2>3, <2>6 DEF LinesBacked
<1>6. CASE HelperStep
  <2> SUFFICES ASSUME mpc \in Handling
               PROVE  /\ Backed(buf, penv, granted')
                      /\ Backed(pipe', penv \cup Exports(buf), granted')
                      /\ Backed(todo', penv \cup Exports(buf) \cup Exports(pipe'), granted')
    BY <1>6 DEF LinesBacked, HelperStep, moduleVars
  <2>1. /\ Backed(buf, penv, granted)
        /\ Backed(pipe, penv \cup Exports(buf), granted)
        /\ Backed(todo, penv \cup Exports(buf) \cup Exports(pipe), granted)
    BY DEF LinesBacked
  <2>2. HelperTypeOK /\ HelperNext
    BY <1>6 DEF HelperStep, TypeOK
  <2>3. CASE /\ todo # <<>>
             /\ pipe' = Append(pipe, Head(todo))
             /\ todo' = Tail(todo)
             /\ granted' = granted
    <3>1. /\ Backed(Append(pipe, Head(todo)), penv \cup Exports(buf), granted)
          /\ Backed(Tail(todo), penv \cup Exports(buf) \cup Exports(Append(pipe, Head(todo))), granted)
      BY <1>0, <2>1, <2>3, MoveBacked
    <3> QED
      BY <2>1, <2>3, <3>1
  <2>4. CASE UNCHANGED <<pipe, todo, granted>>
    BY <2>1, <2>4
  <2>5. CASE /\ pipe' = pipe
             /\ granted = {} \/ granted' = granted
             /\ \A before : Backed(todo', before, granted')
    <3>1. Backed(buf, penv, granted') /\ Backed(pipe, penv \cup Exports(buf), granted')
      BY <1>0, <2>1, <2>5, BackedMono
    <3> QED
      BY <2>5, <3>1
  <2> QED
    BY <2>2, <2>3, <2>4, <2>5, HelperLines
<1>7. CASE StartFails \/ MakePipesFails \/ ForkFails \/ Reap \/ ReapGivesUp \/ Kill \/ Wait \/ Judge
  <2>1. mpc' \notin Handling
    BY <1>7 DEF StartFails, MakePipesFails, ForkFails, Reap, ReapGivesUp, Kill, Wait, Judge, Looping
  <2> QED
    BY <1>1, <2>1
<1>8. CASE EndOfLines \/ PollFails \/ Violation \/ TooLong \/ Result
  <2>1. mpc' = "reap"
    BY <1>8, Zenon DEF EndOfLines, PollFails, Violation, TooLong, Result, Leave
  <2> QED
    BY <1>1, <2>1 DEF Looping
<1>9. CASE MakePipes \/ Fork \/ PollTimeout \/ LinesDone
  <2>1. mpc \in Handling /\ UNCHANGED <<buf, pipe, todo, penv, granted>>
    BY <1>9 DEF MakePipes, Fork, PollTimeout, LinesDone, Looping, helperVars
  <2> QED
    BY <1>2, <2>1
<1>10. CASE LoopTop
  <2>1. mpc = "top" /\ UNCHANGED <<buf, pipe, todo, penv, granted>>
    BY <1>10, Zenon DEF LoopTop
  <2> QED
    BY <1>2, <2>1 DEF Looping
<1>11. CASE Shown
  <2>1. mpc = "conv" /\ UNCHANGED <<buf, pipe, todo, penv, granted>>
    BY <1>11, Zenon DEF Shown
  <2> QED
    BY <1>2, <2>1 DEF Looping
<1>12. CASE Tick
  <2>1. UNCHANGED <<mpc, buf, pipe, todo, penv, granted>>
    BY <1>12 DEF Tick, moduleVars, helperVars
  <2> QED
    BY <1>1, <1>2, <2>1
<1> QED
  BY <1>3, <1>4, <1>5, <1>6, <1>7, <1>8, <1>9, <1>10, <1>11, <1>12 DEF Next, ModuleStep

\* A step keeps a success that was read earned.
LEMMA ResultStep ==
    ASSUME TypeOK, Stage, GrantIsLast, LinesBacked, ResultBacked, Next
    PROVE  ResultBacked'
<1> DEFINE Handling == {"start", "fork"} \cup Looping
<1>1. CASE rc' # "success"
  BY <1>1 DEF ResultBacked
<1>2. CASE UNCHANGED <<rc, done, penv>> /\ mpc' \notin Handling /\ (granted = {} \/ granted' = granted)
  BY <1>2 DEF ResultBacked
<1>3. CASE mpc \in Handling /\ rc' = rc
  BY <1>1, <1>3 DEF ResultBacked
<1>4. CASE Result
  <2> SUFFICES ASSUME rc' = "success"
               PROVE  ResultBacked'
    BY <1>1
  <2>1. /\ mpc = "lines" /\ buf # <<>> /\ Head(buf).kind = "R"
        /\ rc' = map_result(Head(buf).arg)
        /\ UNCHANGED <<granted, penv>>
    BY <1>4 DEF Result, At
  <2>2. Head(buf).arg = "success"
    BY <2>1 DEF map_result
  <2>3. Backed(buf, penv, granted) /\ buf \in Seq(Line)
    BY <2>1 DEF LinesBacked, Looping, TypeOK
  <2>4. granted # {} /\ granted \subseteq penv
    BY <2>1, <2>2, <2>3, HandleBacked
  <2>6. done' /\ mpc' = "reap"
    BY <1>4, Zenon DEF Result, Leave
  <2> QED
    BY <2>1, <2>4, <2>6 DEF ResultBacked, Looping
<1>5. CASE StartFails
  <2>1. rc' # "success"
    BY <1>5 DEF StartFails
  <2> QED
    BY <1>1, <2>1
<1>6. CASE MakePipes \/ MakePipesFails \/ ForkFails \/ Fork \/ PollTimeout \/ Read \/ LinesDone
  <2>1. mpc \in Handling /\ rc' = rc
    BY <1>6 DEF MakePipes, MakePipesFails, ForkFails, Fork, PollTimeout, Read, LinesDone, Looping
  <2> QED
    BY <1>3, <2>1
<1>7. CASE LoopTop \/ EndOfLines \/ PollFails \/ Shown
  <2>1. mpc \in {"top", "poll", "conv"} /\ rc' = rc
    BY <1>7, Zenon DEF LoopTop, EndOfLines, PollFails, Shown
  <2> QED
    BY <1>3, <2>1 DEF Looping
<1>8. CASE Show \/ Export
  <2>1. mpc \in Handling /\ rc' = rc
    BY <1>8 DEF Show, Export, At, Looping
  <2> QED
    BY <1>3, <2>1
<1>9. CASE Violation \/ TooLong
  <2>1. rc' # "success"
    BY <1>9 DEF Violation, TooLong
  <2> QED
    BY <1>1, <2>1
<1>10. CASE Reap \/ ReapGivesUp \/ Kill \/ Wait
  <2>1. UNCHANGED <<rc, done, penv, granted>> /\ mpc' \notin Handling
    BY <1>10 DEF Reap, ReapGivesUp, Kill, Wait, helperVars, Looping
  <2> QED
    BY <1>2, <2>1
<1>11. CASE Judge
  <2>1. rc' # "success" \/ rc' = rc
    BY <1>11 DEF Judge
  <2>2. UNCHANGED <<done, penv, granted>> /\ mpc' \notin Handling
    BY <1>11 DEF Judge, helperVars, Looping
  <2> QED
    BY <1>1, <1>2, <2>1, <2>2
<1>12. CASE HelperStep
  <2>1. granted = {} \/ granted' = granted
    BY <1>12, HelperGrants DEF HelperStep, TypeOK
  <2> QED
    BY <1>12, <2>1 DEF HelperStep, moduleVars, ResultBacked
<1>13. CASE Tick
  BY <1>13 DEF Tick, moduleVars, helperVars, ResultBacked
<1> QED
  BY <1>4, <1>5, <1>6, <1>7, <1>8, <1>9, <1>10, <1>11, <1>12, <1>13 DEF Next, ModuleStep

-----------------------------------------------------------------------------
(* The theorems *)

\* The invariant holds at the start.
LEMMA InitInv == Init => IInv
<1> SUFFICES ASSUME Init PROVE IInv
  OBVIOUS
<1> USE DEF Init, HelperInit
<1>1. /\ todo = <<>> /\ pipe = <<>> /\ buf = <<>> /\ ack = <<>>
      /\ mpc = "start" /\ hstat = "none" /\ rc = "authinfo_unavail" /\ hpc = "run"
      /\ fds = {} /\ talking = "none"
  OBVIOUS
<1>2. TypeOK
  <2>1. cut \in BOOLEAN /\ part \in BOOLEAN /\ closed \in BOOLEAN /\ answered \in BOOLEAN /\ done \in BOOLEAN
    BY Zenon
  <2> QED
    BY <2>1 DEF TypeOK, HelperTypeOK, PamResults, Ended
<1>3. Stage /\ NothingLeft /\ ResultBacked /\ StatusTrue /\ GraceKept
  BY <1>1 DEF Stage, NothingLeft, ResultBacked, StatusTrue, GraceKept, NoEarlyKill, Looping
<1>4. AnswerIsUsers /\ PollsAfterAnswer /\ GrantIsLast
  BY <1>1 DEF AnswerIsUsers, PollsAfterAnswer, GrantIsLast
<1>5. LinesBacked
  BY <1>1 DEF LinesBacked, Backed
<1> QED
  BY <1>2, <1>3, <1>4, <1>5 DEF IInv

\* Every step keeps it.
LEMMA NextInv == IInv /\ [Next]_vars => IInv'
<1> SUFFICES ASSUME IInv, [Next]_vars PROVE IInv'
  OBVIOUS
<1>1. CASE Next
  BY <1>1, TypeStep, ControlStep, StatusStep, GraceStep, AnswerStep, GrantStep, LinesStep, ResultStep DEF IInv
<1>2. CASE UNCHANGED vars
  <2> USE <1>2 DEF vars, helperVars, moduleVars, IInv
  <2>1. TypeOK' /\ Stage' /\ NothingLeft'
    BY DEF TypeOK, HelperTypeOK, Stage, NothingLeft
  <2>2. LinesBacked' /\ ResultBacked' /\ StatusTrue'
    BY DEF LinesBacked, ResultBacked, StatusTrue
  <2>3. AnswerIsUsers' /\ PollsAfterAnswer' /\ GraceKept' /\ GrantIsLast'
    BY DEF GrantIsLast, AnswerIsUsers, PollsAfterAnswer, GraceKept, NoEarlyKill
  <2> QED
    BY <2>1, <2>2, <2>3
<1> QED
  BY <1>1, <1>2

\* So it holds throughout a call.
LEMMA Invariant == Spec => []IInv
BY InitInv, NextInv, PTL DEF Spec

\* The types of pam_sm_authenticate's and its helper's state.
THEOREM TypeCorrect == Spec => []TypeOK
<1>1. IInv => TypeOK
  BY DEF IInv
<1> QED
  BY <1>1, Invariant, PTL

\* In an application that does not ignore SIGCHLD, pam_sm_authenticate returns
\* PAM_SUCCESS only after the helper's device flow succeeded, the helper
\* exited with status 0 and every variable of the granted session was exported,
\* one or two as session_env has it, wherever a write or a read cuts a line,
\* whatever garbage or death of the helper intervenes.
THEOREM SuccessEarned == ~AutoReaped => (Spec => []SuccessIsEarned)
<1> SUFFICES ASSUME ~AutoReaped PROVE Spec => []SuccessIsEarned
  OBVIOUS
<1>1. IInv => SuccessIsEarned
  BY DEF IInv, ResultBacked, StatusTrue, SuccessIsEarned
<1> QED
  BY <1>1, Invariant, PTL

\* Where SIGCHLD is ignored the exit status is lost (status stays 0), and this
\* much of it is left: the flow succeeded and the session's variables, one or
\* two, are all there.
THEOREM SuccessGranted ==
    Spec => [](mpc = "ret" /\ rc = "success" => granted # {} /\ granted \subseteq penv)
<1>1. IInv => (mpc = "ret" /\ rc = "success" => granted # {} /\ granted \subseteq penv)
  BY DEF IInv, ResultBacked
<1> QED
  BY <1>1, Invariant, PTL

\* The call closes its pipes and reaps its helper on every path
\* (pam_oidc_ssh.c:386-389 is the exception the property names).
THEOREM CleansUp == Spec => []NothingLeft
<1>1. IInv => NothingLeft
  BY DEF IInv
<1> QED
  BY <1>1, Invariant, PTL

\* reap_helper gives a helper that delivered its result all of EXIT_GRACE_MS.
THEOREM GraceGiven == Spec => []NoEarlyKill
<1>1. IInv => NoEarlyKill
  BY DEF IInv, GraceKept
<1> QED
  BY <1>1, Invariant, PTL

\* The provider is polled only once the user answered the prompt.
THEOREM PollsLate == Spec => []PollsAfterAnswer
<1>1. IInv => PollsAfterAnswer
  BY DEF IInv
<1> QED
  BY <1>1, Invariant, PTL
=============================================================================
