------------------------------- MODULE Helper -------------------------------
(***************************************************************************)
(* oidc-ssh-helper (cmd/oidc-ssh-helper/main.go) as its parent sees it: a  *)
(* process that writes protocol lines to a pipe, blocks on its stdin after *)
(* a prompt, and exits.  The device flow behind it is an outcome chosen at *)
(* each step; the process may also hang or die anywhere.                   *)
(***************************************************************************)
EXTENDS Naturals, Sequences

CONSTANT Codes   \* the result codes of the protocol, and one it does not know

ASSUME CodesAssumption ==
    Codes = {"success", "ignore", "auth_err", "authinfo_unavail", "user_unknown", "other"}

VARIABLES
    hpc,       \* where the helper is
    todo,      \* lines it is about to write, each flushed on its own
    cut,       \* the beginning of the next of them is in the pipe, its end is not
    asked,     \* the prompt it is waiting on: "P", "Q", or "none" before any
    granted,   \* history: the variables of the session that the flow granted
    hstat,     \* the process: "none", "running", or how it ended
    pipe,      \* lines written and not yet read by the module
    ack,       \* answers written by the module and not yet read
    closed     \* the module has closed its ends of both pipes

helperVars == <<hpc, todo, cut, asked, granted, hstat, pipe, ack, closed>>

Variables == {"sub", "user"}   \* OIDC_SUB, and the one that session_env names
Line == {l \in [kind : {"I", "P", "Q", "E", "R", "bad", "long"},
                arg : {"none"} \cup Variables \cup Codes] :
            l.kind = "E" => l.arg \in Variables}
I == [kind |-> "I", arg |-> "none"]
Prompt(k) == [kind |-> k, arg |-> "none"]
E(name) == [kind |-> "E", arg |-> name]
R(code) == [kind |-> "R", arg |-> code]
\* A line that handle_line rejects, one that does not fit the module's buffer,
\* and a result nobody knows.
Garbage == {[kind |-> "bad", arg |-> "none"], [kind |-> "long", arg |-> "none"], R("other")}

\* What exportEnv writes, in the order of the names: session_env comes before
\* OIDC_SUB or after it, or is OIDC_SUB itself, and then res.Env has one entry.
Sessions == {<<E("sub"), E("user")>>, <<E("user"), E("sub")>>, <<E("sub")>>}

Ended == {"exit0", "failed"}   \* "failed": a non-zero exit or a signal

HelperTypeOK ==
    /\ hpc \in {"run", "asked", "poll", "last"}
    /\ todo \in Seq(Line)
    /\ asked \in {"none", "P", "Q"}
    /\ cut \in BOOLEAN
    /\ granted \subseteq Variables
    /\ hstat \in {"none", "running"} \cup Ended
    /\ pipe \in Seq(Line)
    /\ ack \in Seq({"empty", "pin"})
    /\ closed \in BOOLEAN

HelperInit ==
    /\ hpc = "run"
    /\ todo = <<>>
    /\ asked = "none"
    /\ cut = FALSE
    /\ granted = {}
    /\ hstat = "none"
    /\ pipe = <<>>
    /\ ack = <<>>
    /\ closed = FALSE

-----------------------------------------------------------------------------

\* The helper runs, has nothing left to write and is at step `at`.
Idle(at) == hstat = "running" /\ hpc = at /\ todo = <<>>

\* The helper's last lines; after them main returns.
Conclude(lines) ==
    /\ todo' = lines
    /\ hpc' = "last"

\* protocol.line: one line, flushed.  A closed pipe kills the process.
WriteLine ==
    /\ hstat = "running" /\ todo # <<>>
    /\ IF closed
       THEN hstat' = "failed" /\ UNCHANGED <<todo, cut, pipe>>
       ELSE /\ pipe' = Append(pipe, Head(todo))
            /\ todo' = Tail(todo)
            /\ cut' = FALSE
            /\ UNCHANGED hstat
    /\ UNCHANGED <<hpc, asked, granted, ack, closed>>

\* A line that takes more than one write, and the first of them: bufio's buffer
\* is smaller than a line may be, and so is what the pipe takes at once.
WritePart ==
    /\ hstat = "running" /\ todo # <<>> /\ ~closed /\ ~cut
    /\ cut' = TRUE
    /\ UNCHANGED <<hpc, todo, asked, granted, hstat, pipe, ack, closed>>

\* run: bad configuration or panic; account not mapped; empty user.
ConcludeAtOnce ==
    /\ Idle("run")
    /\ \E c \in {"authinfo_unavail", "ignore", "user_unknown"} : Conclude(<<R(c)>>)
    /\ UNCHANGED <<asked, granted, hstat, pipe, ack, closed, cut>>

\* Discovery or StartDeviceAuth failed; the code is expired on arrival.
ConcludeWithNotice ==
    /\ Idle("run")
    /\ \E c \in {"authinfo_unavail", "auth_err"} : Conclude(<<I, R(c)>>)
    /\ UNCHANGED <<asked, granted, hstat, pipe, ack, closed, cut>>

\* askApproval: the URL, then the code prompt or the PIN question.
AskApproval ==
    /\ Idle("run")
    /\ \E k \in {"P", "Q"} :
          /\ asked' = k
          /\ todo' = <<I, I, Prompt(k)>>
    /\ hpc' = "asked"
    /\ UNCHANGED <<granted, hstat, pipe, ack, closed, cut>>

\* Fault: polling does not wait for the answer.
ReadAnswer_NoWait ==
    /\ Idle("asked")
    /\ hpc' = "poll"
    /\ UNCHANGED <<todo, asked, granted, hstat, pipe, ack, closed, cut>>

\* Prompt and Ask: one line from stdin, or EOF.  Only the PIN question cares
\* what it is.
ReadAnswer ==
    /\ Idle("asked")
    /\ ack # <<>> \/ closed
    /\ IF asked = "P" \/ (ack # <<>> /\ Head(ack) = "pin")
       THEN hpc' = "poll" /\ UNCHANGED todo
       ELSE Conclude(<<I, R("auth_err")>>)
    /\ ack' = IF ack = <<>> THEN ack ELSE Tail(ack)
    /\ UNCHANGED <<asked, granted, hstat, pipe, closed, cut>>

\* Success: exportEnv writes the variables.
Grant ==
    /\ Idle("poll")
    /\ \E env \in Sessions :
          /\ Conclude(env \o <<R("success")>>)
          /\ granted' = {env[i].arg : i \in 1..Len(env)}
    /\ UNCHANGED <<asked, hstat, pipe, ack, closed, cut>>

\* exportEnv meets a value it rejects, after the variables before it.
RejectEnv ==
    /\ Idle("poll")
    /\ \E env \in Sessions : \E n \in 0..(Len(env) - 1) :
          Conclude(SubSeq(env, 1, n) \o <<R("auth_err")>>)
    /\ UNCHANGED <<asked, granted, hstat, pipe, ack, closed, cut>>

\* The wait failed, or the token did not pass.
Refuse ==
    /\ Idle("poll")
    /\ \E lines \in {<<I, R("auth_err")>>, <<R("auth_err")>>, <<R("authinfo_unavail")>>} :
          Conclude(lines)
    /\ UNCHANGED <<asked, granted, hstat, pipe, ack, closed, cut>>

\* A helper of another version, or a broken one.
Garble ==
    /\ hstat = "running" /\ todo = <<>> /\ hpc # "last"
    /\ \E g \in Garbage : Conclude(<<g>>)
    /\ UNCHANGED <<asked, granted, hstat, pipe, ack, closed, cut>>

\* main returns.
Exit ==
    /\ Idle("last")
    /\ hstat' = "exit0"
    /\ UNCHANGED <<hpc, todo, asked, granted, pipe, ack, closed, cut>>

\* exec fails, a flush error ends main with status 1, or something kills it.
Die ==
    /\ hstat = "running"
    /\ hstat' = "failed"
    /\ UNCHANGED <<hpc, todo, asked, granted, pipe, ack, closed, cut>>

HelperNext ==
    \/ WriteLine \/ WritePart
    \/ ConcludeAtOnce \/ ConcludeWithNotice
    \/ AskApproval \/ ReadAnswer
    \/ Grant \/ RejectEnv \/ Refuse \/ Garble
    \/ Exit \/ Die
=============================================================================
