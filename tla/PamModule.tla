----------------------------- MODULE PamModule ------------------------------
(***************************************************************************)
(* pam_sm_authenticate (pam/pam_oidc_ssh.c): it forks the helper, relays   *)
(* its lines to the conversation function, exports its variables, and      *)
(* turns its result line and its exit status into a PAM result.  The       *)
(* helper runs beside it, the user answers when it pleases them, and time  *)
(* passes everywhere.                                                      *)
(***************************************************************************)
EXTENDS Helper

CONSTANTS
    Timeout,        \* timeout=, in clock ticks
    Grace,          \* EXIT_GRACE_MS
    MaxClock,       \* bound: later, time passes only where the module waits for it
    Punctual,       \* the module is never kept from running by the scheduler
    AutoReaped      \* the application ignores SIGCHLD: waitpid says ECHILD

ASSUME PamModuleAssumption ==
    /\ Timeout \in Nat \ {0}
    /\ Grace \in Nat
    /\ MaxClock \in Nat
    /\ Punctual \in BOOLEAN
    /\ AutoReaped \in BOOLEAN

VARIABLES
    now,        \* CLOCK_MONOTONIC
    mpc,        \* where pam_sm_authenticate is
    deadline,   \* when the exchange must be over
    buf,        \* lines read and not yet handled
    part,       \* the beginning of the line after them has been read, its end has not
    talking,    \* the kind of message the conversation is showing
    answered,   \* history: the prompt's conversation is over, answered or failed
    rc,         \* the PAM result so far
    done,       \* a result or a violation ended the loop
    leftAt,     \* history: when the loop ended
    graceEnd,   \* until when reap_helper looks before it gives up
    fds,        \* the descriptors of the two pipes that the call has open
    status,     \* what waitpid stored
    penv        \* the variables exported with pam_putenv

moduleVars == <<mpc, deadline, buf, part, talking, answered, rc, done, leftAt, graceEnd, fds, status, penv>>
vars == <<helperVars, now, moduleVars>>

\* The ends of both pipes; 0 is the one to read from.
pipefd == {"pipe0", "pipe1"}
ackfd == {"ack0", "ack1"}

PamResults == {"success", "ignore", "auth_err", "user_unknown", "authinfo_unavail"}

TypeOK ==
    /\ HelperTypeOK
    /\ now \in Nat
    /\ mpc \in {"start", "fork", "top", "poll", "lines", "conv", "reap", "kill", "wait", "judge", "ret"}
    /\ deadline \in Nat
    /\ buf \in Seq(Line)
    /\ part \in BOOLEAN
    /\ talking \in {"none", "I", "P", "Q"}
    /\ answered \in BOOLEAN
    /\ rc \in PamResults
    /\ done \in BOOLEAN
    /\ leftAt \in Nat
    /\ graceEnd \in Nat
    /\ fds \subseteq pipefd \cup ackfd
    /\ status \in Ended
    /\ penv \subseteq Variables

Init ==
    /\ HelperInit
    /\ now = 0
    /\ mpc = "start"
    /\ deadline = 0
    /\ buf = <<>>
    /\ part = FALSE
    /\ talking = "none"
    /\ answered = FALSE
    /\ rc = "authinfo_unavail"
    /\ done = FALSE
    /\ leftAt = 0
    /\ graceEnd = 0
    /\ fds = {}
    /\ status = "exit0"
    /\ penv = {}

-----------------------------------------------------------------------------
(* Before the loop *)

\* No user, or the helper is not executable.
StartFails ==
    /\ mpc = "start"
    /\ \E r \in {"user_unknown", "authinfo_unavail"} : rc' = r
    /\ mpc' = "ret"
    /\ UNCHANGED <<helperVars, now, deadline, buf, talking, answered, done, leftAt, graceEnd, fds,
                   status, penv, part>>

\* make_pipe, twice.
MakePipes ==
    /\ mpc = "start"
    /\ fds' = pipefd \cup ackfd
    /\ mpc' = "fork"
    /\ UNCHANGED <<helperVars, now, deadline, buf, talking, answered, rc, done, leftAt, graceEnd,
                   status, penv, part>>

\* One of them fails and closes what it opened itself, and nothing else.
MakePipesFails ==
    /\ mpc = "start"
    /\ fds' \in {{}, pipefd}
    /\ mpc' = "ret"
    /\ UNCHANGED <<helperVars, now, deadline, buf, talking, answered, rc, done, leftAt, graceEnd,
                   status, penv, part>>

\* fork fails.
ForkFails ==
    /\ mpc = "fork"
    /\ fds' = {}
    /\ mpc' = "ret"
    /\ UNCHANGED <<helperVars, now, deadline, buf, talking, answered, rc, done, leftAt, graceEnd,
                   status, penv, part>>

\* fork and exec; the helper's ends are closed and the deadline runs from here.
Fork ==
    /\ mpc = "fork"
    /\ hstat' = "running"
    /\ fds' = {"pipe0", "ack1"}
    /\ deadline' = now + Timeout
    /\ mpc' = "top"
    /\ UNCHANGED <<hpc, todo, cut, asked, granted, pipe, ack, closed,
                   now, buf, talking, answered, rc, done, leftAt, graceEnd, status, penv, part>>

-----------------------------------------------------------------------------
(* The loop *)

\* Fault: no grace, whatever the helper delivered.
Leave_NoGrace(finished) ==
    /\ mpc' = "reap"
    /\ done' = finished
    /\ closed' = TRUE
    /\ fds' = fds \ {"pipe0", "ack1"}
    /\ leftAt' = now
    /\ graceEnd' = now

\* Both pipes are closed and the helper is waited for: with grace once it has
\* delivered something final, without if it never did.
Leave(finished) ==
    /\ mpc' = "reap"
    /\ done' = finished
    /\ closed' = TRUE
    /\ fds' = fds \ {"pipe0", "ack1"}
    /\ leftAt' = now
    /\ graceEnd' = IF finished THEN now + Grace ELSE now

\* Fault: the deadline is not looked at.
LoopTop_NoDeadline ==
    /\ mpc = "top"
    /\ mpc' = "poll"
    /\ UNCHANGED <<helperVars, now, deadline, buf, talking, answered, rc, done, leftAt, graceEnd, fds,
                   status, penv, part>>

\* The deadline is looked at here and nowhere else.
LoopTop ==
    /\ mpc = "top"
    /\ IF deadline <= now
       THEN Leave(FALSE)
       ELSE mpc' = "poll" /\ UNCHANGED <<done, closed, leftAt, graceEnd, fds>>
    /\ UNCHANGED <<hpc, todo, cut, asked, granted, hstat, pipe, ack, now, deadline, buf,
                   talking, answered, rc, status, penv, part>>

\* Everything the helper has written so far has been read.
Drained == pipe = <<>> /\ (cut => part)

\* poll returns nothing once the time left has run out.
PollTimeout ==
    /\ mpc = "poll"
    /\ Drained /\ hstat = "running" /\ deadline <= now
    /\ mpc' = "top"
    /\ UNCHANGED <<helperVars, now, deadline, buf, talking, answered, rc, done, leftAt, graceEnd, fds,
                   status, penv, part>>

\* read returns any number of the bytes written so far: n lines, of which the
\* beginning of the first may have come with the read before, and perhaps the
\* beginning of one more, which stays in buf.  Bound: of the reads that add to
\* an unfinished line, only the first is told apart.
Read ==
    /\ mpc = "poll"
    /\ \E n \in 0..Len(pipe) :
          /\ buf' = SubSeq(pipe, 1, n)
          /\ pipe' = SubSeq(pipe, n + 1, Len(pipe))
          /\ part' \in BOOLEAN
          /\ part' => n < Len(pipe) \/ cut
          /\ n > 0 \/ (part' /\ ~part)
    /\ mpc' = "lines"
    /\ UNCHANGED <<hpc, todo, cut, asked, granted, hstat, ack, closed, now, deadline, talking,
                   answered, rc, done, leftAt, graceEnd, fds, status, penv>>

\* EOF: the helper is gone and everything it wrote was read.  A line it did not
\* finish is dropped with the buffer.
EndOfLines ==
    /\ mpc = "poll"
    /\ Drained /\ hstat # "running"
    /\ Leave(FALSE)
    /\ UNCHANGED <<hpc, todo, cut, asked, granted, hstat, pipe, ack, now, deadline, buf,
                   talking, answered, rc, status, penv, part>>

\* poll or read fails.
PollFails ==
    /\ mpc = "poll"
    /\ Leave(FALSE)
    /\ UNCHANGED <<hpc, todo, cut, asked, granted, hstat, pipe, ack, now, deadline, buf,
                   talking, answered, rc, status, penv, part>>

-----------------------------------------------------------------------------
(* handle_line, one line at a time *)

\* All lines of this read are handled.
LinesDone ==
    /\ mpc = "lines" /\ buf = <<>>
    /\ mpc' = "top"
    /\ UNCHANGED <<helperVars, now, deadline, buf, talking, answered, rc, done, leftAt, graceEnd, fds,
                   status, penv, part>>

\* The next line is of one of these kinds.
At(kinds) == mpc = "lines" /\ buf # <<>> /\ Head(buf).kind \in kinds

\* I, P and Q: the conversation function is called and blocks.
Show ==
    /\ At({"I", "P", "Q"})
    /\ talking' = Head(buf).kind
    /\ buf' = Tail(buf)
    /\ mpc' = "conv"
    /\ UNCHANGED <<helperVars, now, deadline, answered, rc, done, leftAt, graceEnd, fds, status, penv, part>>

\* It returns, with an answer or with an error (converse_full logs it and goes
\* on): P is acknowledged with an empty line either way, Q with the sanitised
\* answer, which is empty when there was none and when the conversation failed.
Shown ==
    /\ mpc = "conv"
    /\ ack' \in CASE talking = "I" -> {ack}
                  [] talking = "P" -> {Append(ack, "empty")}
                  [] talking = "Q" -> {Append(ack, a) : a \in {"empty", "pin"}}
    /\ answered' = (answered \/ talking # "I")
    /\ talking' = "none"
    /\ mpc' = "lines"
    /\ UNCHANGED <<hpc, todo, cut, asked, granted, hstat, pipe, closed, now, deadline, buf, rc,
                   done, leftAt, graceEnd, fds, status, penv, part>>

\* E: exported at once.
Export ==
    /\ At({"E"})
    /\ penv' = penv \cup {Head(buf).arg}
    /\ buf' = Tail(buf)
    /\ UNCHANGED <<helperVars, now, mpc, deadline, talking, answered, rc, done, leftAt, graceEnd, fds,
                   status, part>>

\* A malformed line, a rejected variable or an allocation failure.
Violation ==
    /\ At({"bad", "E", "I", "P", "Q"})
    /\ rc' = "authinfo_unavail"
    /\ buf' = Tail(buf)
    /\ Leave(TRUE)
    /\ UNCHANGED <<hpc, todo, cut, asked, granted, hstat, pipe, ack, now, deadline, talking,
                   answered, status, penv, part>>

\* A line that fills the buffer: the loop ends with no grace for the helper.
TooLong ==
    /\ At({"long"})
    /\ rc' = "authinfo_unavail"
    /\ buf' = Tail(buf)
    /\ Leave(FALSE)
    /\ UNCHANGED <<hpc, todo, cut, asked, granted, hstat, pipe, ack, now, deadline, talking,
                   answered, status, penv, part>>

\* Fault: a code the module does not know is passed on.
map_result_Unmapped(code) == code

\* map_result.
map_result(code) ==
    IF code \in {"success", "ignore", "auth_err", "user_unknown"} THEN code
    ELSE "authinfo_unavail"

\* R: the rest of the buffer is not looked at.
Result ==
    /\ At({"R"})
    /\ rc' = map_result(Head(buf).arg)
    /\ buf' = Tail(buf)
    /\ Leave(TRUE)
    /\ UNCHANGED <<hpc, todo, cut, asked, granted, hstat, pipe, ack, now, deadline, talking,
                   answered, status, penv, part>>

-----------------------------------------------------------------------------
(* After the loop *)

\* waitpid: the status of an ended helper, or ECHILD and status left at 0.
Collect == status' = IF AutoReaped THEN "exit0" ELSE hstat

\* reap_helper finds the helper ended.
Reap ==
    /\ mpc = "reap"
    /\ hstat # "running"
    /\ Collect
    /\ mpc' = "judge"
    /\ UNCHANGED <<helperVars, now, deadline, buf, talking, answered, rc, done, leftAt, graceEnd, fds, penv, part>>

\* reap_helper gives up on a helper that still runs.
ReapGivesUp ==
    /\ mpc = "reap"
    /\ hstat = "running" /\ graceEnd <= now
    /\ mpc' = "kill"
    /\ UNCHANGED <<helperVars, now, deadline, buf, talking, answered, rc, done, leftAt, graceEnd, fds,
                   status, penv, part>>

\* Fault: the helper is left to itself.
Kill_Skipped ==
    /\ mpc = "kill"
    /\ mpc' = "judge"
    /\ UNCHANGED <<helperVars, now, deadline, buf, talking, answered, rc, done, leftAt, graceEnd, fds,
                   status, penv, part>>

\* SIGKILL; the helper may have ended by itself just before.
Kill ==
    /\ mpc = "kill"
    /\ hstat' = IF hstat = "running" THEN "failed" ELSE hstat
    /\ mpc' = "wait"
    /\ UNCHANGED <<hpc, todo, cut, asked, granted, pipe, ack, closed, now, deadline, buf,
                   talking, answered, rc, done, leftAt, graceEnd, fds, status, penv, part>>

\* waitpid blocks until the helper has ended.
Wait ==
    /\ mpc = "wait" /\ hstat # "running"
    /\ Collect
    /\ mpc' = "judge"
    /\ UNCHANGED <<helperVars, now, deadline, buf, talking, answered, rc, done, leftAt, graceEnd, fds, penv, part>>

\* Fault: the exit status is not looked at.
Judge_TrustsLine ==
    /\ mpc = "judge"
    /\ mpc' = "ret"
    /\ UNCHANGED <<helperVars, now, deadline, buf, talking, answered, rc, done, leftAt, graceEnd, fds,
                   status, penv, part>>

\* A success line followed by an abnormal exit is not trusted.
Judge ==
    /\ mpc = "judge"
    /\ rc' = IF done /\ rc = "success" /\ status # "exit0" THEN "authinfo_unavail" ELSE rc
    /\ mpc' = "ret"
    /\ UNCHANGED <<helperVars, now, deadline, buf, talking, answered, done, leftAt, graceEnd, fds,
                   status, penv, part>>

-----------------------------------------------------------------------------
(* Composition *)

\* Time passes where the module waits: for the user, in poll, for the helper
\* to exit; and anywhere if the scheduler lets it wait.
Tick ==
    /\ \/ mpc = "poll" /\ now < deadline
       \/ mpc = "reap" /\ now < graceEnd
       \/ now < MaxClock /\ (mpc = "conv" \/ ~Punctual)
    /\ now' = now + 1
    /\ UNCHANGED <<helperVars, moduleVars>>

HelperStep == HelperNext /\ UNCHANGED <<now, moduleVars>>

ModuleStep ==
    \/ StartFails \/ MakePipes \/ Fork
    \/ LoopTop \/ PollTimeout \/ Read \/ EndOfLines
    \/ LinesDone \/ Show \/ Export \/ Violation \/ TooLong \/ Result
    \/ Reap \/ ReapGivesUp \/ Kill \/ Wait \/ Judge

Next == ModuleStep \/ MakePipesFails \/ ForkFails \/ PollFails \/ Shown \/ HelperStep \/ Tick

Spec == Init /\ [][Next]_vars

\* The module runs, time passes, and a conversation that was started ends:
\* sshd's conversation function returns when the user answers or the
\* connection goes away.  Nothing is assumed of the helper, and no system
\* call is assumed to fail.
FairSpec == Spec /\ WF_vars(ModuleStep) /\ WF_vars(Shown) /\ WF_vars(Tick)

-----------------------------------------------------------------------------
(* Properties *)

\* PAM_SUCCESS is returned only for a helper whose device flow succeeded, that
\* ended by itself with status 0, and whose identity variables, one or two as
\* session_env has it, are all in the session environment, wherever a read cut
\* its lines (main.go:207-213, pam_oidc_ssh.c:479-506).
SuccessIsEarned ==
    mpc = "ret" /\ rc = "success" =>
        granted # {} /\ hstat = "exit0" /\ granted \subseteq penv

\* The call leaves nothing behind: its helper has ended, and of the four ends of
\* the pipes none is open in sshd's process, except those of the first
\* pipe when only the second could not be made (pam_oidc_ssh.c:386-389).
NothingLeft ==
    mpc = "ret" =>
        /\ hstat # "running"
        /\ fds = {} \/ (hstat = "none" /\ fds = pipefd)

\* A helper that delivered its result is not killed before it had the grace
\* period to exit (pam_oidc_ssh.c:202-210, 494-497).
NoEarlyKill == mpc = "kill" /\ done => now >= leftAt + Grace

\* The helper polls for the approval only after the user has answered the
\* prompt, unless the module is gone (pam_oidc_ssh.c:281-283).
PollsAfterAnswer == hpc = "poll" => answered \/ closed

\* Whatever the helper does or fails to do, the call returns.
Returns == <>(mpc = "ret")

\* README.md:237-239: the whole exchange is bounded by timeout=, and the helper
\* is killed when it elapses.
HelperKilledAtDeadline ==
    hstat = "running" => now <= deadline + Grace
=============================================================================
