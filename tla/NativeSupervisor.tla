-------------------------- MODULE NativeSupervisor --------------------------
(***************************************************************************)
(* run_process of native/src/native_supervisor.cpp: several calls in       *)
(* progress at once, each on a thread of one application process.          *)
(*                                                                         *)
(* A call opens two output files and a CLOEXEC error pipe, forks a leader, *)
(* waits on the pipe to learn whether the leader reached its program, and  *)
(* polls it until it ends or the deadline passes.  The threads share one   *)
(* descriptor table: a fork duplicates the write end of every error pipe   *)
(* open at that moment, whichever call opened it, and a child drops those  *)
(* copies only when it executes its program or dies.                       *)
(*                                                                         *)
(* Data is abstracted to what the properties tell apart: an errno to       *)
(* whether it is set, an exit code to zero or not, a signal number to      *)
(* whether there is one, time to whether a deadline has passed.            *)
(***************************************************************************)
EXTENDS Naturals, FiniteSets

CONSTANTS
  Run,   \* the calls of run_process
  Kid    \* the descendants a call's program may start

VARIABLES
  pc,        \* where the supervising thread of each call is
  fds,       \* the descriptors the call holds open in the application
  result,    \* its NativeRunResult
  wstat,     \* its local wait status; "none" while status_valid is false
  due,       \* process.timeout_ms has passed since `started`
  graceOver, \* grace_ms has passed since `grace_started`
  child,     \* the leader: the setup step it is at, then its life cycle
  heir,      \* the calls whose pipe's write end the leader inherited
  image,     \* the leader has replaced its image by the program
  grouped,   \* the leader heads the process group named by its pid
  death,     \* how the leader died
  record,    \* the ChildFailure in the error pipe, by its stage
  kin        \* the descendants of the program

super  == <<pc, fds, result, wstat>>
clock  == <<due, graceOver>>
kernel == <<child, heir, image, grouped, death, record, kin>>
vars   == <<super, clock, kernel>>

\* The steps of the child between fork and its program, by the SpawnStage that
\* each reports when it fails, in the order they run.
Setup == {"Setpgid", "ResourceLimit", "Chdir", "Dup2Stdout", "Dup2Stderr",
          "Execve"}

After == [s \in Setup |->
            CASE s = "Setpgid"       -> "ResourceLimit"
              [] s = "ResourceLimit" -> "Chdir"
              [] s = "Chdir"         -> "Dup2Stdout"
              [] s = "Dup2Stdout"    -> "Dup2Stderr"
              [] s = "Dup2Stderr"    -> "Execve"
              [] s = "Execve"        -> "running"]

PreExec == Setup \cup {"failing"}
Program == {"running", "away"}   \* in its process group, or out of it
Alive   == PreExec \cup Program
Life    == Alive \cup {"none", "zombie", "reaped"}

SpawnStage == {"Ok", "InvalidArgument", "OpenStdout", "OpenStderr", "ErrorPipe",
               "Fork", "Waitpid", "TimeoutKill"} \cup Setup

WaitStatus == {"none", "exit0", "exitN", "signal"}

NativeRunResult == [stage : SpawnStage, errno : BOOLEAN, timedOut : BOOLEAN,
                    exit : {"none", "zero", "nonzero"}, signal : BOOLEAN]

\* succeeded() of native_supervisor.h.
Succeeded(res) == /\ res.stage = "Ok"
                  /\ ~res.timedOut /\ ~res.errno /\ ~res.signal
                  /\ res.exit = "zero"

Opening    == {"start", "openOut", "openErr", "pipe2", "fork"}
Spawning   == {"closeEnds", "setpgid", "readPipe"}
SpawnFails == {"reapFailed", "killUnread", "reapUnread"}
Watching   == {"poll", "pollClock"}
Ending     == {"term", "graceReap", "graceProbe", "killProbe", "kill",
               "finalReap"}
Control    == Opening \cup Spawning \cup SpawnFails \cup Watching \cup Ending
                \cup {"decode", "returned"}

TypeOK ==
  /\ pc        \in [Run -> Control]
  /\ fds       \in [Run -> SUBSET {"out", "err", "rd", "wr"}]
  /\ result    \in [Run -> NativeRunResult]
  /\ wstat     \in [Run -> WaitStatus]
  /\ due       \in [Run -> BOOLEAN]
  /\ graceOver \in [Run -> BOOLEAN]
  /\ child     \in [Run -> Life]
  /\ heir      \in [Run -> SUBSET Run]
  /\ image     \in [Run -> BOOLEAN]
  /\ grouped   \in [Run -> BOOLEAN]
  /\ death     \in [Run -> WaitStatus]
  /\ record    \in [Run -> Setup \cup {"empty"}]
  /\ kin       \in [Run -> [Kid -> {"unborn", "member", "stray", "gone"}]]

Init ==
  /\ pc        = [r \in Run |-> "start"]
  /\ fds       = [r \in Run |-> {}]
  /\ result    = [r \in Run |-> [stage |-> "Ok", errno |-> FALSE,
                                 timedOut |-> FALSE, exit |-> "none",
                                 signal |-> FALSE]]
  /\ wstat     = [r \in Run |-> "none"]
  /\ due       = [r \in Run |-> FALSE]
  /\ graceOver = [r \in Run |-> FALSE]
  /\ child     = [r \in Run |-> "none"]
  /\ heir      = [r \in Run |-> {}]
  /\ image     = [r \in Run |-> FALSE]
  /\ grouped   = [r \in Run |-> FALSE]
  /\ death     = [r \in Run |-> "none"]
  /\ record    = [r \in Run |-> "empty"]
  /\ kin       = [r \in Run |-> [k \in Kid |-> "unborn"]]

-----------------------------------------------------------------------------
(* What the kernel answers. *)

Members(r) == {k \in Kid : kin[r][k] = "member"}
Strays(r)  == {k \in Kid : kin[r][k] = "stray"}

\* Variant: the child closes its copy of the write end before its setup.
WriteEndOpenInParent(r) == "wr" \in fds[r]

\* Whether some process still holds the write end of r's error pipe: while one
\* does, a read of the empty pipe blocks; when none does, it returns 0.
WriteEndOpen(r) == "wr" \in fds[r] \/ \E c \in Run : r \in heir[c]

\* process_group_exists.  A zombie leader still counts as a member.
GroupExists(r) == \/ child[r] \in Alive \cup {"zombie"} /\ grouped[r]
                  \/ Members(r) # {}

\* The leader stops running: it keeps its status for waitpid, and its copies of
\* the write ends are closed.
Dies(r, how) ==
  /\ child' = [child EXCEPT ![r] = "zombie"]
  /\ death' = [death EXCEPT ![r] = how]
  /\ heir'  = [heir EXCEPT ![r] = {}]

\* Variant: kill(pid) in place of kill(-pid).
KillLeader(r) ==
  /\ IF child[r] \in Alive THEN Dies(r, "signal")
                           ELSE UNCHANGED <<child, death, heir>>
  /\ UNCHANGED <<image, grouped, record, kin>>

\* kill(-pid, SIGKILL): every member of the group dies.  With no member left
\* the call returns ESRCH and does nothing.
KillGroup(r) ==
  /\ IF child[r] \in Alive /\ grouped[r] THEN Dies(r, "signal")
                                         ELSE UNCHANGED <<child, death, heir>>
  /\ kin' = [kin EXCEPT ![r] = [k \in Kid |->
               IF kin[r][k] = "member" THEN "gone" ELSE kin[r][k]]]
  /\ UNCHANGED <<image, grouped, record>>

\* waitpid collects the zombie and hands over its status.
Collect(r) ==
  /\ child[r] = "zombie"
  /\ child' = [child EXCEPT ![r] = "reaped"]
  /\ wstat' = [wstat EXCEPT ![r] = death[r]]
  /\ UNCHANGED <<heir, image, grouped, death, record, kin>>

Goto(r, l) == pc' = [pc EXCEPT ![r] = l]

\* The call will report `stage` with spawn_errno set.
Report(r, stage) ==
  result' = [result EXCEPT ![r].stage = stage, ![r].errno = TRUE]

\* Variant: an early return that forgets the descriptors already open.
RefuseLeaking(r, stage) ==
  /\ Goto(r, "returned")
  /\ Report(r, stage)
  /\ UNCHANGED <<fds, wstat, clock, kernel>>

\* An early return that reports `stage` with errno set and closes every
\* descriptor opened so far.
Refuse(r, stage) ==
  /\ Goto(r, "returned")
  /\ Report(r, stage)
  /\ fds' = [fds EXCEPT ![r] = {}]
  /\ UNCHANGED <<wstat, clock, kernel>>

Opens(r, fd, next) ==
  /\ Goto(r, next)
  /\ fds' = [fds EXCEPT ![r] = @ \cup fd]
  /\ UNCHANGED <<result, wstat, clock, kernel>>

-----------------------------------------------------------------------------
(* The supervising thread, up to the verdict of the error pipe. *)

CheckArguments(r) ==
  /\ pc[r] = "start"
  /\ \/ Refuse(r, "InvalidArgument")
     \/ Opens(r, {}, "openOut")

OpenStdout(r) ==
  /\ pc[r] = "openOut"
  /\ Refuse(r, "OpenStdout") \/ Opens(r, {"out"}, "openErr")

OpenStderr(r) ==
  /\ pc[r] = "openErr"
  /\ Refuse(r, "OpenStderr") \/ Opens(r, {"err"}, "pipe2")

OpenErrorPipe(r) ==
  /\ pc[r] = "pipe2"
  /\ Refuse(r, "ErrorPipe") \/ Opens(r, {"rd", "wr"}, "fork")

Forks(r) ==
  /\ child' = [child EXCEPT ![r] = "Setpgid"]
  /\ heir' = [heir EXCEPT ![r] = {s \in Run : "wr" \in fds[s]}]
  /\ Goto(r, "closeEnds")
  /\ UNCHANGED <<fds, result, wstat, clock, image, grouped, death, record, kin>>

Fork(r) ==
  /\ pc[r] = "fork"
  /\ Refuse(r, "Fork") \/ Forks(r)

CloseEnds(r) ==
  /\ pc[r] = "closeEnds"
  /\ Goto(r, "setpgid")
  /\ fds' = [fds EXCEPT ![r] = @ \ {"wr", "out", "err"}]
  /\ UNCHANGED <<result, wstat, clock, kernel>>

\* Variant: only the child calls setpgid.
ParentSkipsSetpgid(r) ==
  /\ pc[r] = "setpgid" /\ Goto(r, "readPipe")
  /\ UNCHANGED <<fds, result, wstat, clock, kernel>>

\* The parent's setpgid: refused (EACCES) once the child has executed its
\* program, and its result is ignored.
ParentSetpgid(r) ==
  /\ pc[r] = "setpgid"
  /\ Goto(r, "readPipe")
  /\ grouped' = [grouped EXCEPT ![r] = @ \/ child[r] \in PreExec]
  /\ UNCHANGED <<fds, result, wstat, clock, child, heir, image, death, record,
                 kin>>

\* read_child_failure and the close of the read end that follows it.
CloseRead(r) == fds' = [fds EXCEPT ![r] = @ \ {"rd"}]

\* Variant: a record is taken from the buffer whatever read returned.
ReadShort(r) ==
  /\ pc[r] = "readPipe" /\ (record[r] # "empty" \/ ~WriteEndOpen(r))
  /\ CloseRead(r)
  /\ Report(r, record[r])
  /\ Goto(r, "reapFailed")
  /\ UNCHANGED <<wstat, clock, kernel>>

ReadChildFailed(r) ==
  /\ pc[r] = "readPipe" /\ record[r] # "empty"
  /\ CloseRead(r)
  /\ Report(r, record[r])
  /\ Goto(r, "reapFailed")
  /\ UNCHANGED <<wstat, clock, kernel>>

ReadExecSucceeded(r) ==
  /\ pc[r] = "readPipe" /\ record[r] = "empty" /\ ~WriteEndOpen(r)
  /\ CloseRead(r)
  /\ Goto(r, "poll")
  /\ UNCHANGED <<result, wstat, clock, kernel>>

\* read fails: an error of the environment, which nothing obliges to happen.
ReadFailed(r) ==
  /\ pc[r] = "readPipe"
  /\ CloseRead(r)
  /\ Report(r, "ErrorPipe")
  /\ Goto(r, "killUnread")
  /\ UNCHANGED <<wstat, clock, kernel>>

KillUnread(r) ==
  /\ pc[r] = "killUnread"
  /\ KillGroup(r)
  /\ Goto(r, "reapUnread")
  /\ UNCHANGED <<fds, result, wstat, clock>>

\* A blocking waitpid: it returns the leader's status, or ECHILD when another
\* part of the application has collected it already.
BlockingReap(r, at) ==
  /\ pc[r] = at
  /\ Goto(r, "decode")
  /\ UNCHANGED <<fds, result, clock>>
  /\ \/ Collect(r)
     \/ child[r] = "reaped" /\ UNCHANGED <<wstat, kernel>>

\* Variant: the child that reported its failure is not waited for.
ReapNobody(r) ==
  /\ pc[r] = "reapFailed" /\ Goto(r, "decode")
  /\ UNCHANGED <<fds, result, wstat, clock, kernel>>

ReapFailed(r) == BlockingReap(r, "reapFailed")
ReapUnread(r) == BlockingReap(r, "reapUnread")

-----------------------------------------------------------------------------
(* The supervising thread while the program runs. *)

\* waitpid(WNOHANG): the status, ECHILD (which ends the call by a forced
\* termination without grace), or nothing yet.
Poll(r) ==
  /\ pc[r] = "poll"
  /\ UNCHANGED fds
  /\ \/ Collect(r) /\ Goto(r, "decode") /\ UNCHANGED <<result, clock>>
     \/ /\ child[r] = "reaped"
        /\ Report(r, "Waitpid")
        /\ graceOver' = [graceOver EXCEPT ![r] = TRUE]
        /\ Goto(r, "term")
        /\ UNCHANGED <<wstat, due, kernel>>
     \/ /\ child[r] \in Alive
        /\ Goto(r, "pollClock")
        /\ UNCHANGED <<result, wstat, clock, kernel>>

\* The deadline is tested after waitpid has answered, not with it.
PollClock(r) ==
  /\ pc[r] = "pollClock"
  /\ \/ /\ due[r]
        /\ result' = [result EXCEPT ![r].stage = "TimeoutKill",
                                    ![r].timedOut = TRUE]
        /\ Goto(r, "term")
     \/ ~due[r] /\ Goto(r, "poll") /\ UNCHANGED result
  /\ UNCHANGED <<fds, wstat, clock, kernel>>

(* terminate_process_group. *)

\* SIGTERM to the group.  A program may heed it or not, and every one may end
\* at any moment anyway, so the signal itself changes nothing here.
SendTerm(r) ==
  /\ pc[r] = "term"
  /\ Goto(r, "graceReap")
  /\ UNCHANGED <<fds, result, wstat, clock, kernel>>

\* One round of the grace loop: a WNOHANG reap unless the status is known ...
GraceReap(r) ==
  /\ pc[r] = "graceReap"
  /\ UNCHANGED <<fds, result, clock>>
  /\ \/ graceOver[r] /\ Goto(r, "killProbe") /\ UNCHANGED <<wstat, kernel>>
     \/ /\ ~graceOver[r]
        /\ Goto(r, "graceProbe")
        /\ \/ wstat[r] = "none" /\ Collect(r)
           \/ /\ wstat[r] # "none" \/ child[r] # "zombie"
              /\ UNCHANGED <<wstat, kernel>>

\* Variant: the termination ends with the leader.
GraceProbeLeader(r) ==
  /\ pc[r] = "graceProbe"
  /\ Goto(r, IF wstat[r] # "none" THEN "decode" ELSE "graceReap")
  /\ UNCHANGED <<fds, result, wstat, clock, kernel>>

\* ... and a probe, which ends the termination once nothing is left.
GraceProbe(r) ==
  /\ pc[r] = "graceProbe"
  /\ Goto(r, IF wstat[r] # "none" /\ ~GroupExists(r) THEN "decode"
                                                      ELSE "graceReap")
  /\ UNCHANGED <<fds, result, wstat, clock, kernel>>

KillProbe(r) ==
  /\ pc[r] = "killProbe"
  /\ Goto(r, IF GroupExists(r) THEN "kill" ELSE "finalReap")
  /\ UNCHANGED <<fds, result, wstat, clock, kernel>>

SendKill(r) ==
  /\ pc[r] = "kill"
  /\ KillGroup(r)
  /\ Goto(r, "finalReap")
  /\ UNCHANGED <<fds, result, wstat, clock>>

FinalReap(r) ==
  \/ BlockingReap(r, "finalReap")
  \/ /\ pc[r] = "finalReap" /\ wstat[r] # "none"
     /\ Goto(r, "decode")
     /\ UNCHANGED <<fds, result, wstat, clock, kernel>>

\* Variant: signals are not decoded and the exit code starts at 0.
DecodeExitOnly(r) ==
  /\ pc[r] = "decode" /\ Goto(r, "returned")
  /\ result' = [result EXCEPT ![r].exit =
                  IF wstat[r] = "exitN" THEN "nonzero" ELSE "zero"]
  /\ UNCHANGED <<fds, wstat, clock, kernel>>

\* decode_wait_status and the return.
Decode(r) ==
  /\ pc[r] = "decode"
  /\ result' = [result EXCEPT
       ![r].exit   = CASE wstat[r] = "exit0" -> "zero"
                       [] wstat[r] = "exitN" -> "nonzero"
                       [] OTHER              -> @,
       ![r].signal = @ \/ wstat[r] = "signal"]
  /\ Goto(r, "returned")
  /\ UNCHANGED <<fds, wstat, clock, kernel>>

Supervise(r) ==
  \/ CheckArguments(r) \/ OpenStdout(r) \/ OpenStderr(r) \/ OpenErrorPipe(r)
  \/ Fork(r) \/ CloseEnds(r) \/ ParentSetpgid(r)
  \/ ReadChildFailed(r) \/ ReadExecSucceeded(r)
  \/ ReapFailed(r) \/ KillUnread(r) \/ ReapUnread(r)
  \/ Poll(r) \/ PollClock(r)
  \/ SendTerm(r) \/ GraceReap(r) \/ GraceProbe(r)
  \/ KillProbe(r) \/ SendKill(r) \/ FinalReap(r)
  \/ Decode(r)

-----------------------------------------------------------------------------
(* The child between fork and its program. *)

\* Variant: a pipe without O_CLOEXEC stays open in the program.
SetupStepKeepsPipe(r) ==
  /\ child[r] \in Setup
  /\ child'   = [child EXCEPT ![r] = After[child[r]]]
  /\ grouped' = [grouped EXCEPT ![r] = @ \/ child[r] = "Setpgid"]
  /\ image'   = [image EXCEPT ![r] = child[r] = "Execve"]
  /\ UNCHANGED <<super, clock, heir, death, record, kin>>

\* One setup step succeeds.  The last one, execve, closes the CLOEXEC copies.
SetupStep(r) ==
  /\ child[r] \in Setup
  /\ child'   = [child EXCEPT ![r] = After[child[r]]]
  /\ grouped' = [grouped EXCEPT ![r] = @ \/ child[r] = "Setpgid"]
  /\ image'   = [image EXCEPT ![r] = child[r] = "Execve"]
  /\ heir'    = [heir EXCEPT ![r] = IF child[r] = "Execve" THEN {} ELSE @]
  /\ UNCHANGED <<super, clock, death, record, kin>>

\* child_fail: the record goes to the pipe in one write, then _exit.
SetupFails(r) ==
  /\ child[r] \in Setup
  /\ record' = [record EXCEPT ![r] = child[r]]
  /\ child'  = [child EXCEPT ![r] = "failing"]
  /\ UNCHANGED <<super, clock, heir, image, grouped, death, kin>>

FailedExit(r) ==
  /\ child[r] = "failing"
  /\ Dies(r, "exitN")
  /\ UNCHANGED <<super, clock, image, grouped, record, kin>>

ChildSetup(r) == SetupStep(r) \/ SetupFails(r) \/ FailedExit(r)

-----------------------------------------------------------------------------
(* The program, its descendants, the clock, and the rest of the machine. *)

ProgramEnds(r, how) ==
  /\ child[r] \in Program
  /\ Dies(r, how)
  /\ UNCHANGED <<super, clock, image, grouped, record, kin>>

\* A child is killed from outside (memory pressure) before its program runs.
Slain(r) ==
  /\ child[r] \in PreExec
  /\ Dies(r, "signal")
  /\ UNCHANGED <<super, clock, image, grouped, record, kin>>

\* The leader moves itself to another process group (setpgid): from then on the
\* group, and so every signal to it, may miss the leader.  In this model what
\* has left the group, leader or descendant, does not come back to it.
LeaderLeaves(r) ==
  /\ child[r] = "running"
  /\ child'   = [child EXCEPT ![r] = "away"]
  /\ grouped' = [grouped EXCEPT ![r] = FALSE]
  /\ UNCHANGED <<super, clock, heir, image, death, record, kin>>

\* The program or a descendant starts another process, in its own group.
KidStarts(r, k) ==
  /\ kin[r][k] = "unborn"
  /\ \E place \in {"member", "stray"} :
       /\ IF place = "member" THEN child[r] = "running" \/ Members(r) # {}
                              ELSE child[r] = "away"    \/ Strays(r)  # {}
       /\ kin' = [kin EXCEPT ![r][k] = place]
  /\ UNCHANGED <<super, clock, child, heir, image, grouped, death, record>>

\* A descendant leaves the group (setsid, setpgid).
KidLeaves(r, k) ==
  /\ kin[r][k] = "member"
  /\ kin' = [kin EXCEPT ![r][k] = "stray"]
  /\ UNCHANGED <<super, clock, child, heir, image, grouped, death, record>>

KidEnds(r, k) ==
  /\ kin[r][k] \in {"member", "stray"}
  /\ kin' = [kin EXCEPT ![r][k] = "gone"]
  /\ UNCHANGED <<super, clock, child, heir, image, grouped, death, record>>

\* Another part of the application collects the zombie: waitpid then fails
\* with ECHILD, the error the code tells apart.
ForeignReap(r) ==
  /\ child[r] = "zombie"
  /\ child' = [child EXCEPT ![r] = "reaped"]
  /\ UNCHANGED <<super, clock, heir, image, grouped, death, record, kin>>

\* The deadline is only ever looked at while polling; one that passes earlier
\* is seen at the first look.
TimeoutElapses(r) ==
  /\ ~due[r] /\ pc[r] \in Watching
  /\ due' = [due EXCEPT ![r] = TRUE]
  /\ UNCHANGED <<super, graceOver, kernel>>

GraceElapses(r) ==
  /\ ~graceOver[r] /\ pc[r] \in {"graceReap", "graceProbe"}
  /\ graceOver' = [graceOver EXCEPT ![r] = TRUE]
  /\ UNCHANGED <<super, due, kernel>>

ClockTicks(r) == TimeoutElapses(r) \/ GraceElapses(r)

Environment(r) ==
  \/ ReadFailed(r)
  \/ \E how \in {"exit0", "exitN", "signal"} : ProgramEnds(r, how)
  \/ LeaderLeaves(r) \/ Slain(r) \/ ForeignReap(r)
  \/ \E k \in Kid : KidStarts(r, k) \/ KidLeaves(r, k) \/ KidEnds(r, k)

Next == \E r \in Run :
  Supervise(r) \/ ChildSetup(r) \/ ClockTicks(r) \/ Environment(r)

Spec == Init /\ [][Next]_vars

\* Threads are scheduled, a forked child gets through its setup, time passes.
\* Nothing obliges a program or a descendant to end.
Fairness == \A r \in Run :
  /\ WF_vars(Supervise(r))
  /\ WF_vars(ChildSetup(r))
  /\ WF_vars(ClockTicks(r))

FairSpec == Spec /\ Fairness

-----------------------------------------------------------------------------
(* Properties. *)

\* Every descriptor a call opens is closed when it returns, on each of its
\* return paths, and it holds exactly those its position accounts for before.
Held(l) == CASE l = "openErr"                 -> {"out"}
             [] l = "pipe2"                   -> {"out", "err"}
             [] l \in {"fork", "closeEnds"}   -> {"out", "err", "rd", "wr"}
             [] l \in {"setpgid", "readPipe"} -> {"rd"}
             [] OTHER                         -> {}

DescriptorsBalanced == \A r \in Run : fds[r] = Held(pc[r])

\* The verdict of the error pipe is sound whatever other calls fork meanwhile:
\* once a call goes on as if its program had started, its child is past the
\* setup and no failure record was missed; once it reports a setup stage, that
\* is the stage that failed and the program never ran.
VerdictSound == \A r \in Run :
  /\ pc[r] \in Watching \cup Ending =>
       child[r] \notin PreExec \cup {"none"} /\ record[r] = "empty"
  /\ result[r].stage \in Setup =>
       result[r].stage = record[r] /\ ~image[r]
  /\ pc[r] = "returned" /\ record[r] # "empty" =>
       result[r].stage \in {record[r], "ErrorPipe"}

\* Whenever the supervisor signals the process group, a leader that is still
\* alive is in it, whichever of parent and child won the race to setpgid, unless
\* the program has moved itself out of it.
GroupAddressable == \A r \in Run :
  pc[r] \in {"killUnread"} \cup Ending /\ child[r] \in Alive \ {"away"}
    => grouped[r]

\* A call returns only after its leader is dead and collected: it leaves
\* neither a running leader nor a zombie.
LeaderCollected == \A r \in Run :
  pc[r] = "returned" => child[r] \in {"none", "reaped"}

\* A call that does not end with stage Ok leaves no live process in its group:
\* the timeout, the lost child, the unreadable pipe and the failed spawn.
NoMemberSurvivesFailure == \A r \in Run :
  pc[r] = "returned" /\ result[r].stage # "Ok" => Members(r) = {}

\* succeeded() holds only of a call whose program ran and exited with 0.
SuccessIsReal == \A r \in Run :
  pc[r] = "returned" /\ Succeeded(result[r]) => image[r] /\ death[r] = "exit0"

\* Nobody waits for what need not happen.  A read of the error pipe blocks only on
\* children that are still on the way to their program, whichever call forked
\* them, and no copy is left in the application; and a waitpid that blocks is
\* never a wait for a program, which may run for ever - with one exception: after
\* the forced termination, or a read that failed, the call may be waiting for a
\* leader that left its group, which the signals to the group have missed.
WaitsAreMet == \A r \in Run :
  /\ pc[r] = "readPipe" => /\ "wr" \notin fds[r]
                           /\ \A c \in Run : r \in heir[c] => child[c] \in PreExec
  /\ pc[r] = "reapFailed" => child[r] \in {"failing", "zombie", "reaped"}
  /\ \/ pc[r] = "reapUnread"
     \/ pc[r] = "finalReap" /\ wstat[r] = "none"
     => child[r] \in {"failing", "zombie", "reaped", "away"}

\* Every call returns, unless its leader has left the process group and never
\* ends: while the leader is in its group, nothing the program, a descendant or
\* another call's fork does can hold a supervising thread for ever.
EveryCallReturns == \A r \in Run :
  <>(pc[r] = "returned") \/ <>[](child[r] = "away")

(* The calls implement SupervisionContract. *)

prog == [r \in Run |->
  IF child[r] = "none"         THEN "absent"
  ELSE IF child[r] \in PreExec THEN "starting"
  ELSE IF child[r] \in Program THEN "executing"
  ELSE IF image[r]             THEN "ended"
  ELSE                              "aborted"]

company == [r \in Run |-> Members(r) # {}]

Answer(r) == LET res == result[r] IN
  IF pc[r] # "returned"                THEN "pending"
  ELSE IF child[r] = "none"            THEN "refused"
  ELSE IF res.stage \in Setup          THEN "spawnFailed"
  ELSE IF res.stage = "TimeoutKill"    THEN "timedOut"
  ELSE IF Succeeded(res)               THEN "succeeded"
  ELSE IF res.stage = "Ok"             THEN "finished"
  ELSE                                      "lost"

answer == [r \in Run |-> Answer(r)]

Contract == INSTANCE SupervisionContract

\* Each call launches at most one program and gives one answer, and the answer
\* is justified by what has become of the program and its group.
KeepsContract == Contract!Spec
=============================================================================
