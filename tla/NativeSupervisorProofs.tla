----------------------- MODULE NativeSupervisorProofs -----------------------
(***************************************************************************)
(* Proofs about NativeSupervisor for any set of calls and descendants.     *)
(* The inductive invariant relates the position of each supervising thread *)
(* to the life of its child.  Only PipeInv speaks of other calls, through  *)
(* the copies of write ends a child inherited: a child that has not        *)
(* reached its program holds its own call's write end, so no end of file   *)
(* can be read before.                                                     *)
(***************************************************************************)
EXTENDS NativeSupervisor, Integers, TLAPS

Ended == {"zombie", "reaped"}

\* The child and its program: a record is written only by a child that never
\* reaches its program, descendants exist only beside a program.
ChildInv(r) ==
  /\ image[r] => child[r] \in Program \cup Ended /\ record[r] = "empty"
  /\ child[r] \in Program => image[r]
  /\ record[r] # "empty" => child[r] \in {"failing"} \cup Ended
  /\ child[r] = "failing" => record[r] # "empty"
  /\ Members(r) # {} => image[r]
  /\ death[r] = "exit0" => image[r] /\ child[r] \in Ended
  /\ wstat[r] # "none" => wstat[r] = death[r] /\ child[r] = "reaped"

\* The write ends a child before its program holds include its own call's.
PipeInv(r) == child[r] \in PreExec => r \in heir[r]

\* The leader is in its group: past its own setpgid, or past the parent's, and as
\* long as it does not leave it.
GroupInv(r) ==
  /\ child[r] \in (Setup \ {"Setpgid"}) \cup {"running"} => grouped[r]
  /\ child[r] \in Alive \ {"away"} /\ pc[r] \notin {"closeEnds", "setpgid"} =>
       grouped[r]

\* What the position of the supervising thread says of the stage it will
\* report, and of the child.
StageInv(r) ==
  /\ pc[r] \in Opening => child[r] = "none"
  /\ pc[r] \notin Opening \cup {"returned"} => child[r] # "none"
  /\ pc[r] \in Opening \cup Spawning \cup Watching => result[r].stage = "Ok"
  /\ pc[r] = "reapFailed" => result[r].stage = record[r] /\ record[r] \in Setup
  /\ pc[r] \in {"killUnread", "reapUnread"} => result[r].stage = "ErrorPipe"
  /\ pc[r] \in Ending => result[r].stage \in {"TimeoutKill", "Waitpid"}
  /\ result[r].stage \in Setup => result[r].stage = record[r]
  /\ pc[r] \in {"decode", "returned"} /\ child[r] # "none" /\ record[r] # "empty"
       => result[r].stage \in {record[r], "ErrorPipe"}
  /\ child[r] = "none" /\ pc[r] = "returned" => result[r].stage # "Ok"

\* The end of a call: who is still there, and what its result says.
EndInv(r) ==
  /\ pc[r] \in Watching \cup Ending =>
       child[r] \in Program \cup Ended /\ record[r] = "empty"
  /\ pc[r] \in {"finalReap", "reapUnread"} =>
       child[r] \in Ended \cup {"away"} /\ Members(r) = {}
  /\ pc[r] \in {"decode", "returned"} => child[r] \in {"none", "reaped"}
  /\ pc[r] \in {"decode", "returned"} /\ result[r].stage # "Ok" =>
       Members(r) = {}
  /\ pc[r] # "returned" => result[r].exit = "none"
  /\ result[r].exit = "zero" => wstat[r] = "exit0"

RunInv(r) == /\ fds[r] = Held(pc[r])
             /\ ChildInv(r) /\ PipeInv(r) /\ GroupInv(r)
             /\ StageInv(r) /\ EndInv(r)

IInv == TypeOK /\ \A r \in Run : RunInv(r)

Step(r) == Supervise(r) \/ ChildSetup(r) \/ ClockTicks(r) \/ Environment(r)

-----------------------------------------------------------------------------
(* Type correctness: no step of any call leads outside the declared states. *)

LEMMA Labels ==
  /\ Opening \cup Spawning \cup SpawnFails \cup Watching \cup Ending
       \cup {"decode", "returned"} \subseteq Control
  /\ Setup \cup {"Ok", "InvalidArgument", "OpenStdout", "OpenStderr",
                 "ErrorPipe", "Fork", "Waitpid", "TimeoutKill"}
       \subseteq SpawnStage
  /\ Setup \cup {"none", "failing", "running", "away", "zombie", "reaped"}
       \subseteq Life
  BY DEF Control, SpawnStage, Life, Alive, PreExec, Program

LEMMA TypeInit == Init => TypeOK
  BY Labels DEF Init, TypeOK, NativeRunResult, Opening, WaitStatus

\* What a call's own record becomes, whatever the fields.
LEMMA ReportType ==
  ASSUME TypeOK, NEW r \in Run, NEW stage \in SpawnStage, Report(r, stage)
  PROVE  result' \in [Run -> NativeRunResult]
<1> DEFINE new == [result[r] EXCEPT !.stage = stage, !.errno = TRUE]
<1>1. result[r] \in NativeRunResult
  BY DEF TypeOK
<1>2. new \in NativeRunResult
  BY <1>1 DEF NativeRunResult
<1>3. result' = [result EXCEPT ![r] = new]
  BY DEF Report
<1> QED
  BY <1>2, <1>3 DEF TypeOK

LEMMA RefuseType ==
  ASSUME TypeOK, NEW r \in Run, NEW stage \in SpawnStage, Refuse(r, stage)
  PROVE  TypeOK'
  BY ReportType, Labels DEF TypeOK, Refuse, Goto, super, clock, kernel

LEMMA OpensType ==
  ASSUME TypeOK, NEW r \in Run, NEW fd \in SUBSET {"out", "err", "rd", "wr"},
         NEW next \in Control, Opens(r, fd, next)
  PROVE  TypeOK'
  BY DEF TypeOK, Opens, Goto, clock, kernel

LEMMA DiesType ==
  ASSUME TypeOK, NEW r \in Run, NEW how \in WaitStatus, Dies(r, how)
  PROVE  /\ child' \in [Run -> Life]
         /\ death' \in [Run -> WaitStatus]
         /\ heir' \in [Run -> SUBSET Run]
  BY Labels DEF TypeOK, Dies

LEMMA KillGroupType ==
  ASSUME TypeOK, NEW r \in Run, KillGroup(r), NEW l \in Control, Goto(r, l),
         UNCHANGED <<fds, result, wstat, clock>>
  PROVE  TypeOK'
  BY DiesType, "signal" \in WaitStatus DEF TypeOK, KillGroup, Goto, clock,
     WaitStatus

LEMMA CollectType ==
  ASSUME TypeOK, NEW r \in Run, Collect(r), NEW l \in Control, Goto(r, l),
         UNCHANGED <<fds, result, clock>>
  PROVE  TypeOK'
  BY Labels DEF TypeOK, Collect, Goto, clock

LEMMA GotoType ==
  ASSUME TypeOK, NEW r \in Run, NEW l \in Control, Goto(r, l),
         UNCHANGED <<fds, result, wstat, clock, kernel>>
  PROVE  TypeOK'
  BY DEF TypeOK, Goto, clock, kernel

LEMMA ReadType ==
  ASSUME TypeOK, NEW r \in Run, NEW l \in Control, Goto(r, l), CloseRead(r),
         result' \in [Run -> NativeRunResult],
         UNCHANGED <<wstat, clock, kernel>>
  PROVE  TypeOK'
  BY DEF TypeOK, Goto, CloseRead, clock, kernel

LEMMA BlockingReapType ==
  ASSUME TypeOK, NEW r \in Run, NEW at, BlockingReap(r, at)
  PROVE  TypeOK'
  BY CollectType, GotoType, Labels DEF BlockingReap

\* One lemma for each group of actors; a step that only moves variables it
\* names is closed by the definition of TypeOK.
LEMMA SuperviseType == ASSUME TypeOK, NEW r \in Run, Supervise(r) PROVE TypeOK'
<1>1. CASE CheckArguments(r)
  BY <1>1, RefuseType, OpensType, Labels DEF CheckArguments, Opening
<1>2. CASE OpenStdout(r)
  BY <1>2, RefuseType, OpensType, Labels DEF OpenStdout, Opening
<1>3. CASE OpenStderr(r)
  BY <1>3, RefuseType, OpensType, Labels DEF OpenStderr, Opening
<1>4. CASE OpenErrorPipe(r)
  BY <1>4, RefuseType, OpensType, Labels DEF OpenErrorPipe, Opening
<1>5. CASE Fork(r)
  <2>1. CASE Refuse(r, "Fork")
    BY <2>1, RefuseType, Labels
  <2>2. CASE Forks(r)
    BY <2>2, Labels DEF Forks, TypeOK, Goto, clock, Spawning, Setup
  <2> QED BY <1>5, <2>1, <2>2 DEF Fork
<1>6. CASE CloseEnds(r)
  BY <1>6, Labels DEF CloseEnds, TypeOK, Goto, clock, kernel, Spawning
<1>7. CASE ParentSetpgid(r)
  BY <1>7, Labels DEF ParentSetpgid, TypeOK, Goto, clock, Spawning
<1>8. CASE ReadChildFailed(r)
  <2>1. record[r] \in SpawnStage
    BY <1>8, Labels DEF ReadChildFailed, TypeOK
  <2> QED
    BY <1>8, <2>1, ReportType, ReadType, Labels
    DEF ReadChildFailed, SpawnFails
<1>9. CASE ReadExecSucceeded(r)
  BY <1>9, ReadType, Labels DEF ReadExecSucceeded, Watching, TypeOK
<1>10. CASE ReapFailed(r) \/ ReapUnread(r) \/ BlockingReap(r, "finalReap")
  BY <1>10, BlockingReapType DEF ReapFailed, ReapUnread
<1>11. CASE KillUnread(r)
  BY <1>11, KillGroupType, Labels DEF KillUnread, SpawnFails
<1>12. CASE Poll(r)
  <2>1. CASE Collect(r) /\ Goto(r, "decode") /\ UNCHANGED <<result, clock>>
    BY <1>12, <2>1, CollectType, Labels DEF Poll
  <2>2. CASE Report(r, "Waitpid") /\ Goto(r, "term")
    <3>1. result' \in [Run -> NativeRunResult]
      BY <2>2, ReportType, Labels
    <3>2. UNCHANGED <<fds, wstat, due, kernel>>
          /\ graceOver' = [graceOver EXCEPT ![r] = TRUE]
      BY <1>12, <2>2 DEF Poll, Goto, TypeOK
    <3> QED
      BY <2>2, <3>1, <3>2, Labels DEF TypeOK, Goto, kernel, Ending
  <2>3. CASE Goto(r, "pollClock") /\ UNCHANGED <<result, wstat, clock, kernel>>
    BY <1>12, <2>3, GotoType, Labels DEF Poll, Watching
  <2> QED BY <1>12, <2>1, <2>2, <2>3 DEF Poll
<1>13. CASE PollClock(r)
  <2> DEFINE new == [result[r] EXCEPT !.stage = "TimeoutKill", !.timedOut = TRUE]
  <2>0. result[r] \in NativeRunResult
    BY DEF TypeOK
  <2>1. new \in NativeRunResult
    BY <2>0, Labels DEF NativeRunResult
  <2>2. \/ result' = [result EXCEPT ![r] = new] /\ Goto(r, "term")
        \/ UNCHANGED result /\ Goto(r, "poll")
    BY <1>13 DEF PollClock
  <2> HIDE DEF new
  <2>3. result' \in [Run -> NativeRunResult]
    BY <2>1, <2>2 DEF TypeOK
  <2>4. pc' \in [Run -> Control]
    BY <2>2, Labels DEF TypeOK, Goto, Ending, Watching
  <2> QED
    BY <1>13, <2>3, <2>4 DEF PollClock, TypeOK, clock, kernel
<1>14. CASE SendTerm(r) \/ GraceProbe(r) \/ KillProbe(r)
  BY <1>14, GotoType, Labels DEF SendTerm, GraceProbe, KillProbe, Ending
<1>15. CASE GraceReap(r)
  BY <1>15, GotoType, CollectType, Labels DEF GraceReap, Ending
<1>16. CASE SendKill(r)
  BY <1>16, KillGroupType, Labels DEF SendKill, Ending
<1>17. CASE FinalReap(r)
  BY <1>17, <1>10, GotoType, Labels DEF FinalReap
<1>18. CASE Decode(r)
  <2> DEFINE exit   == CASE wstat[r] = "exit0" -> "zero"
                         [] wstat[r] = "exitN" -> "nonzero"
                         [] OTHER              -> result[r].exit
             signal == result[r].signal \/ wstat[r] = "signal"
             new    == [result[r] EXCEPT !.exit = exit, !.signal = signal]
  <2>1. result[r] \in NativeRunResult
    BY DEF TypeOK
  <2>2. exit \in {"none", "zero", "nonzero"}
    BY <2>1 DEF NativeRunResult
  <2>3. signal \in BOOLEAN
    OBVIOUS
  <2>4. result' = [result EXCEPT ![r] = new]
    BY <1>18 DEF Decode
  <2> HIDE DEF exit, signal
  <2>5. new \in NativeRunResult
    BY <2>1, <2>2, <2>3 DEF NativeRunResult
  <2>6. result' \in [Run -> NativeRunResult]
    BY <2>4, <2>5 DEF TypeOK
  <2> QED
    BY <1>18, <2>6, Labels DEF Decode, TypeOK, Goto, clock, kernel
<1> QED
  BY <1>1, <1>2, <1>3, <1>4, <1>5, <1>6, <1>7, <1>8, <1>9, <1>10, <1>11, <1>12,
     <1>13, <1>14, <1>15, <1>16, <1>17, <1>18 DEF Supervise

LEMMA ChildType == ASSUME TypeOK, NEW r \in Run, ChildSetup(r) PROVE TypeOK'
<1>1. CASE SetupStep(r)
  <2>1. After[child[r]] \in Life
    BY <1>1, Labels DEF SetupStep, After, Setup
  <2> QED
    BY <1>1, <2>1 DEF SetupStep, TypeOK, super, clock
<1>2. CASE SetupFails(r)
  BY <1>2, Labels DEF SetupFails, TypeOK, super, clock
<1>3. CASE FailedExit(r)
  BY <1>3, DiesType DEF FailedExit, TypeOK, super, clock, WaitStatus
<1> QED
  BY <1>1, <1>2, <1>3 DEF ChildSetup

LEMMA WorldType ==
  ASSUME TypeOK, NEW r \in Run, ClockTicks(r) \/ Environment(r)
  PROVE  TypeOK'
<1>1. CASE ClockTicks(r)
  BY <1>1 DEF ClockTicks, TimeoutElapses, GraceElapses, TypeOK, super, kernel
<1>2. CASE ReadFailed(r)
  BY <1>2, ReportType, ReadType, Labels DEF ReadFailed, SpawnFails
<1>3. ASSUME NEW how \in {"exit0", "exitN", "signal"}, ProgramEnds(r, how)
      PROVE  TypeOK'
  BY <1>3, DiesType DEF ProgramEnds, TypeOK, super, clock, WaitStatus
<1>4. CASE Slain(r)
  BY <1>4, DiesType DEF Slain, TypeOK, super, clock, WaitStatus
<1>5. CASE ForeignReap(r)
  BY <1>5, Labels DEF ForeignReap, TypeOK, super, clock
<1>6. ASSUME NEW k \in Kid, KidStarts(r, k) \/ KidLeaves(r, k) \/ KidEnds(r, k)
      PROVE  TypeOK'
  <2>1. PICK s \in {"member", "stray", "gone"} :
          kin' = [kin EXCEPT ![r] = [kin[r] EXCEPT ![k] = s]]
    BY <1>6 DEF KidStarts, KidLeaves, KidEnds
  <2>2. [kin[r] EXCEPT ![k] = s]
          \in [Kid -> {"unborn", "member", "stray", "gone"}]
    BY DEF TypeOK
  <2>3. kin' \in [Run -> [Kid -> {"unborn", "member", "stray", "gone"}]]
    BY <2>1, <2>2 DEF TypeOK
  <2> QED
    BY <1>6, <2>3 DEF KidStarts, KidLeaves, KidEnds, TypeOK, super, clock
<1>7. CASE LeaderLeaves(r)
  BY <1>7, Labels DEF LeaderLeaves, TypeOK, super, clock
<1> QED
  BY <1>1, <1>2, <1>3, <1>4, <1>5, <1>6, <1>7 DEF Environment

\* Every variable keeps to its declared states, for any number of concurrent
\* calls and of descendants.
THEOREM TypeCorrect == Spec => []TypeOK
<1>1. TypeOK /\ [Next]_vars => TypeOK'
  <2> SUFFICES ASSUME TypeOK, [Next]_vars PROVE TypeOK'
    OBVIOUS
  <2>1. CASE UNCHANGED vars
    BY <2>1 DEF TypeOK, vars, super, clock, kernel
  <2>2. CASE Next
    BY <2>2, SuperviseType, ChildType, WorldType DEF Next
  <2> QED BY <2>1, <2>2
<1> QED
  BY TypeInit, <1>1, PTL DEF Spec

-----------------------------------------------------------------------------
(* The inductive invariant. *)

\* A step of one call leaves every other call's state alone: they meet only in
\* the copies of write ends a fork makes, and those belong to the new child.
LEMMA Untouched ==
  ASSUME TypeOK, NEW r \in Run, NEW q \in Run, q # r, Step(r)
  PROVE  /\ pc'[q] = pc[q] /\ fds'[q] = fds[q] /\ result'[q] = result[q]
         /\ wstat'[q] = wstat[q] /\ child'[q] = child[q] /\ heir'[q] = heir[q]
         /\ image'[q] = image[q] /\ grouped'[q] = grouped[q]
         /\ death'[q] = death[q] /\ record'[q] = record[q] /\ kin'[q] = kin[q]
<1> USE DEF TypeOK, super, clock, kernel, Goto, Report, Refuse, Opens, CloseRead,
            Collect, KillGroup, Dies, BlockingReap
<1>1. CASE CheckArguments(r) \/ OpenStdout(r) \/ OpenStderr(r)
           \/ OpenErrorPipe(r)
  BY <1>1 DEF CheckArguments, OpenStdout, OpenStderr, OpenErrorPipe
<1>2. CASE Fork(r) \/ CloseEnds(r) \/ ParentSetpgid(r)
  BY <1>2 DEF Fork, Forks, CloseEnds, ParentSetpgid
<1>3. CASE ReadChildFailed(r) \/ ReadExecSucceeded(r) \/ ReadFailed(r)
  BY <1>3 DEF ReadChildFailed, ReadExecSucceeded, ReadFailed
<1>4. CASE ReapFailed(r) \/ ReapUnread(r) \/ FinalReap(r)
  BY <1>4 DEF ReapFailed, ReapUnread, FinalReap
<1>5. CASE KillUnread(r) \/ SendKill(r)
  BY <1>5 DEF KillUnread, SendKill
<1>6. CASE Poll(r) \/ PollClock(r) \/ SendTerm(r)
  BY <1>6 DEF Poll, PollClock, SendTerm
<1>7. CASE GraceReap(r) \/ GraceProbe(r) \/ KillProbe(r) \/ Decode(r)
  BY <1>7 DEF GraceReap, GraceProbe, KillProbe, Decode
<1>8. CASE ChildSetup(r)
  BY <1>8 DEF ChildSetup, SetupStep, SetupFails, FailedExit
<1>9. CASE ClockTicks(r)
  BY <1>9 DEF ClockTicks, TimeoutElapses, GraceElapses
<1>10. CASE Environment(r) /\ ~ReadFailed(r)
  BY <1>10 DEF Environment, ProgramEnds, LeaderLeaves, Slain, ForeignReap,
               KidStarts, KidLeaves, KidEnds
<1> QED
  BY <1>1, <1>2, <1>3, <1>4, <1>5, <1>6, <1>7, <1>8, <1>9, <1>10
  DEF Step, Supervise, Environment

LEMMA OthersInv ==
  ASSUME TypeOK, NEW r \in Run, NEW q \in Run, q # r, Step(r), RunInv(q)
  PROVE  RunInv(q)'
  BY Untouched DEF RunInv, ChildInv, PipeInv, GroupInv, StageInv, EndInv, Members,
     Held

\* The values a step of the call leaves at r itself.
LEMMA GotoValue ==
  ASSUME TypeOK, NEW r \in Run, NEW l, Goto(r, l)
  PROVE  pc'[r] = l
  BY DEF TypeOK, Goto

LEMMA ReportValue ==
  ASSUME TypeOK, NEW r \in Run, NEW stage, Report(r, stage)
  PROVE  result'[r].stage = stage /\ result'[r].exit = result[r].exit
<1> result[r] \in NativeRunResult
  BY DEF TypeOK
<1> QED
  BY DEF TypeOK, Report, NativeRunResult

\* A step of the supervising thread that moves nothing in the kernel leaves
\* what concerns the child.
LEMMA ChildKept ==
  ASSUME NEW r \in Run, ChildInv(r), PipeInv(r), GroupInv(r),
         UNCHANGED <<wstat, kernel>>, pc[r] \notin {"closeEnds", "setpgid"}
  PROVE  ChildInv(r)' /\ PipeInv(r)' /\ GroupInv(r)'
  BY DEF ChildInv, PipeInv, GroupInv, kernel, Members

LEMMA RefuseInv ==
  ASSUME TypeOK, NEW r \in Run, RunInv(r), pc[r] \in Opening,
         NEW stage \in SpawnStage \ (Setup \cup {"Ok"}), Refuse(r, stage)
  PROVE  RunInv(r)'
<1>1. pc'[r] = "returned" /\ fds'[r] = {} /\ UNCHANGED <<wstat, kernel>>
  BY GotoValue DEF TypeOK, Refuse
<1>2. result'[r].stage = stage /\ result'[r].exit = "none"
  BY ReportValue DEF Refuse, RunInv, EndInv, Opening
<1>3. child'[r] = "none" /\ Members(r)' = {} /\ record'[r] = "empty"
  BY <1>1 DEF RunInv, StageInv, ChildInv, kernel, Members, Ended, Program
<1>4. ChildInv(r)' /\ PipeInv(r)' /\ GroupInv(r)'
  BY <1>1, ChildKept DEF RunInv, Opening
<1>5. StageInv(r)'
  BY <1>1, <1>2, <1>3
  DEF StageInv, Opening, Spawning, Watching, Ending
<1>6. EndInv(r)'
  BY <1>1, <1>2, <1>3 DEF EndInv, Watching, Ending
<1> QED
  BY <1>1, <1>4, <1>5, <1>6
  DEF RunInv, Held

LEMMA OpensInv ==
  ASSUME TypeOK, NEW r \in Run, RunInv(r), NEW fd, NEW next \in Opening,
         pc[r] \in Opening, Opens(r, fd, next), Held(next) = Held(pc[r]) \cup fd
  PROVE  RunInv(r)'
<1>1. pc'[r] = next /\ fds'[r] = fds[r] \cup fd
      /\ UNCHANGED <<result, wstat, kernel>>
  BY GotoValue DEF TypeOK, Opens
<1>2. fds'[r] = Held(pc'[r])
  BY <1>1 DEF RunInv
<1>3. pc'[r] \in Opening
      /\ pc'[r] \notin Spawning \cup SpawnFails \cup Watching \cup Ending
                      \cup {"decode", "returned"}
  BY <1>1 DEF Opening, Spawning, SpawnFails, Watching, Ending
<1>4. child'[r] = "none" /\ result'[r].stage = "Ok" /\ result'[r].exit = "none"
  BY <1>1 DEF RunInv, StageInv, EndInv, Opening, kernel
<1>5. ChildInv(r)' /\ PipeInv(r)' /\ GroupInv(r)'
  BY <1>1, ChildKept DEF RunInv, Opening
<1>6. StageInv(r)'
  BY <1>3, <1>4 DEF StageInv, SpawnFails, Setup
<1>7. EndInv(r)'
  BY <1>3, <1>4 DEF EndInv, SpawnFails, Ending
<1> QED
  BY <1>2, <1>5, <1>6, <1>7 DEF RunInv

\* From here on the sets of positions and of lives are expanded everywhere.
USE DEF Opening, Spawning, SpawnFails, Watching, Ending, Setup, PreExec, Program,
        Alive, Ended

LEMMA OpeningInv ==
  ASSUME TypeOK, NEW r \in Run, RunInv(r),
         \/ CheckArguments(r) \/ OpenStdout(r) \/ OpenStderr(r)
         \/ OpenErrorPipe(r)
  PROVE  RunInv(r)'
<1>1. Held("openOut") = Held("start") \cup {}
      /\ Held("openErr") = Held("openOut") \cup {"out"}
      /\ Held("pipe2") = Held("openErr") \cup {"err"}
      /\ Held("fork") = Held("pipe2") \cup {"rd", "wr"}
  BY DEF Held
<1>2. {"InvalidArgument", "OpenStdout", "OpenStderr", "ErrorPipe"}
        \subseteq SpawnStage \ (Setup \cup {"Ok"})
  BY DEF SpawnStage
<1>3. CASE CheckArguments(r)
  BY <1>1, <1>2, <1>3, RefuseInv, OpensInv DEF CheckArguments
<1>4. CASE OpenStdout(r)
  BY <1>1, <1>2, <1>4, RefuseInv, OpensInv DEF OpenStdout
<1>5. CASE OpenStderr(r)
  BY <1>1, <1>2, <1>5, RefuseInv, OpensInv DEF OpenStderr
<1>6. CASE OpenErrorPipe(r)
  BY <1>1, <1>2, <1>6, RefuseInv, OpensInv DEF OpenErrorPipe
<1> QED
  BY <1>3, <1>4, <1>5, <1>6

\* At the fork the child takes a copy of its own call's write end, which the
\* parent still holds: this is what makes the later end of file meaningful.
LEMMA ForkInv ==
  ASSUME TypeOK, NEW r \in Run, RunInv(r), Fork(r)
  PROVE  RunInv(r)'
<1>1. CASE Refuse(r, "Fork")
  BY <1>1, RefuseInv DEF Fork, SpawnStage
<1>2. CASE Forks(r)
  <2>1. pc[r] = "fork" /\ pc'[r] = "closeEnds" /\ child'[r] = "Setpgid"
        /\ UNCHANGED <<fds, result, wstat, image, grouped, death, record, kin>>
    BY <1>2, GotoValue DEF Fork, Forks, TypeOK
  <2>2. "wr" \in fds[r]
    BY <2>1 DEF RunInv, Held
  <2>3. r \in heir'[r]
    BY <1>2, <2>2 DEF Forks, TypeOK
  <2>4. child[r] = "none" /\ result[r].stage = "Ok" /\ result[r].exit = "none"
    BY <2>1 DEF RunInv, StageInv, EndInv
  <2>5. ~image[r] /\ record[r] = "empty" /\ Members(r) = {}
        /\ death[r] # "exit0" /\ wstat[r] = "none"
    BY <2>4 DEF RunInv, ChildInv
  <2>6. ChildInv(r)' /\ PipeInv(r)' /\ GroupInv(r)'
    BY <2>1, <2>3, <2>5 DEF ChildInv, PipeInv, GroupInv, Members
  <2>7. StageInv(r)' /\ EndInv(r)'
    BY <2>1, <2>4 DEF StageInv, EndInv
  <2> QED
    BY <2>1, <2>6, <2>7 DEF RunInv, Held
<1> QED
  BY <1>1, <1>2 DEF Fork

LEMMA SpawningInv ==
  ASSUME TypeOK, NEW r \in Run, RunInv(r), CloseEnds(r) \/ ParentSetpgid(r)
  PROVE  RunInv(r)'
<1>1. CASE CloseEnds(r)
  <2>1. pc[r] = "closeEnds" /\ pc'[r] = "setpgid"
        /\ fds'[r] = fds[r] \ {"wr", "out", "err"}
        /\ UNCHANGED <<result, wstat, kernel>>
    BY <1>1, GotoValue DEF CloseEnds, TypeOK
  <2>2. fds'[r] = {"rd"}
    BY <2>1 DEF RunInv, Held
  <2>3. ChildInv(r)' /\ PipeInv(r)' /\ GroupInv(r)'
    BY <2>1 DEF RunInv, ChildInv, PipeInv, GroupInv, kernel, Members
  <2>4. StageInv(r)' /\ EndInv(r)'
    BY <2>1 DEF RunInv, StageInv, EndInv, kernel
  <2> QED
    BY <2>1, <2>2, <2>3, <2>4 DEF RunInv, Held
<1>2. CASE ParentSetpgid(r)
  <2>1. pc[r] = "setpgid" /\ pc'[r] = "readPipe"
        /\ grouped'[r] = (grouped[r] \/ child[r] \in PreExec)
        /\ UNCHANGED <<fds, result, wstat, child, heir, image, death, record, kin>>
    BY <1>2, GotoValue DEF ParentSetpgid, TypeOK
  <2>2. ChildInv(r)' /\ PipeInv(r)'
    BY <2>1 DEF RunInv, ChildInv, PipeInv, Members
  <2>3. GroupInv(r)'
    BY <2>1 DEF RunInv, GroupInv
  <2>4. StageInv(r)' /\ EndInv(r)'
    BY <2>1 DEF RunInv, StageInv, EndInv
  <2> QED
    BY <2>1, <2>2, <2>3, <2>4 DEF RunInv, Held
<1> QED
  BY <1>1, <1>2

\* The verdict.  No other process holds the write end when read returns 0, so
\* the child has let go of its own copy: it is past its setup.
LEMMA ReadInv ==
  ASSUME TypeOK, NEW r \in Run, RunInv(r),
         ReadChildFailed(r) \/ ReadExecSucceeded(r) \/ ReadFailed(r)
  PROVE  RunInv(r)'
<1>1. pc[r] = "readPipe" /\ fds'[r] = fds[r] \ {"rd"}
      /\ UNCHANGED <<wstat, kernel>>
  BY DEF ReadChildFailed, ReadExecSucceeded, ReadFailed, CloseRead, TypeOK
<1>2. fds'[r] = {}
  BY <1>1 DEF RunInv, Held
<1>3. ChildInv(r)' /\ PipeInv(r)' /\ GroupInv(r)'
  BY <1>1, ChildKept DEF RunInv
<1>4. child[r] # "none" /\ result[r].stage = "Ok" /\ result[r].exit = "none"
  BY <1>1 DEF RunInv, StageInv, EndInv
<1>5. CASE ReadChildFailed(r)
  <2>1. pc'[r] = "reapFailed" /\ result'[r].stage = record[r]
        /\ result'[r].exit = "none" /\ record[r] \in Setup
    BY <1>4, <1>5, GotoValue, ReportValue DEF ReadChildFailed, TypeOK
  <2>2. StageInv(r)' /\ EndInv(r)'
    BY <1>1, <1>4, <2>1 DEF StageInv, EndInv, kernel
  <2> QED
    BY <1>2, <1>3, <2>1, <2>2 DEF RunInv, Held
<1>6. CASE ReadExecSucceeded(r)
  <2>1. pc'[r] = "poll" /\ record[r] = "empty" /\ UNCHANGED result
    BY <1>6, GotoValue DEF ReadExecSucceeded
  <2>2. r \notin heir[r]
    BY <1>6 DEF ReadExecSucceeded, WriteEndOpen
  <2>3. child[r] \in Program \cup Ended
    BY <1>4, <2>2 DEF RunInv, PipeInv, TypeOK, Life
  <2>4. StageInv(r)' /\ EndInv(r)'
    BY <1>1, <1>4, <2>1, <2>3 DEF StageInv, EndInv, kernel
  <2> QED
    BY <1>2, <1>3, <2>1, <2>4 DEF RunInv, Held
<1>7. CASE ReadFailed(r)
  <2>1. pc'[r] = "killUnread" /\ result'[r].stage = "ErrorPipe"
        /\ result'[r].exit = "none"
    BY <1>4, <1>7, GotoValue, ReportValue DEF ReadFailed
  <2>2. StageInv(r)' /\ EndInv(r)'
    BY <1>1, <1>4, <2>1 DEF StageInv, EndInv, kernel
  <2> QED
    BY <1>2, <1>3, <2>1, <2>2 DEF RunInv, Held
<1> QED
  BY <1>5, <1>6, <1>7

\* What waitpid and SIGKILL leave of the child.
LEMMA CollectValue ==
  ASSUME TypeOK, NEW r \in Run, RunInv(r), Collect(r)
  PROVE  /\ child[r] = "zombie" /\ child'[r] = "reaped" /\ wstat'[r] = death[r]
         /\ Members(r)' = Members(r)
         /\ UNCHANGED <<heir, image, grouped, death, record, kin>>
         /\ ChildInv(r)' /\ PipeInv(r)' /\ GroupInv(r)'
<1>1. child[r] = "zombie" /\ child'[r] = "reaped" /\ wstat'[r] = death[r]
      /\ Members(r)' = Members(r)
      /\ UNCHANGED <<heir, image, grouped, death, record, kin>>
  BY DEF Collect, TypeOK, Members
<1> QED
  BY <1>1 DEF RunInv, ChildInv, PipeInv, GroupInv

LEMMA KillValue ==
  ASSUME TypeOK, NEW r \in Run, RunInv(r), KillGroup(r), UNCHANGED wstat,
         child[r] # "none", pc[r] \notin {"closeEnds", "setpgid"}
  PROVE  /\ child'[r] \in Ended \cup {"away"} /\ Members(r)' = {}
         /\ record'[r] = record[r]
         /\ ChildInv(r)' /\ PipeInv(r)' /\ GroupInv(r)'
<1>1. UNCHANGED <<image, grouped, record, wstat>>
  BY DEF KillGroup
<1>2. Members(r)' = {}
  BY DEF KillGroup, Members, TypeOK
<1>3. CASE child[r] \in Alive /\ grouped[r]
  <2>1. child'[r] = "zombie" /\ death'[r] = "signal" /\ wstat[r] = "none"
    BY <1>3 DEF KillGroup, Dies, TypeOK, RunInv, GroupInv, ChildInv
  <2> QED
    BY <1>1, <1>2, <1>3, <2>1 DEF RunInv, ChildInv, PipeInv, GroupInv
<1>4. CASE ~(child[r] \in Alive /\ grouped[r])
  <2>1. UNCHANGED <<child, death, heir>> /\ child[r] \in Ended \cup {"away"}
    BY <1>4 DEF KillGroup, TypeOK, Life, RunInv, GroupInv
  <2> QED
    BY <1>1, <1>2, <1>4, <2>1 DEF RunInv, ChildInv, PipeInv, GroupInv
<1> QED
  BY <1>3, <1>4

LEMMA KillInv ==
  ASSUME TypeOK, NEW r \in Run, RunInv(r), KillUnread(r) \/ SendKill(r)
  PROVE  RunInv(r)'
<1>1. child[r] # "none" /\ UNCHANGED <<fds, result, wstat>> /\ KillGroup(r)
  BY DEF KillUnread, SendKill, RunInv, StageInv
<1>2. /\ child'[r] \in Ended \cup {"away"} /\ Members(r)' = {}
      /\ record'[r] = record[r]
      /\ ChildInv(r)' /\ PipeInv(r)' /\ GroupInv(r)'
  BY <1>1, KillValue DEF KillUnread, SendKill
<1>3. \/ pc[r] = "killUnread" /\ pc'[r] = "reapUnread"
      \/ pc[r] = "kill" /\ pc'[r] = "finalReap"
  BY GotoValue DEF KillUnread, SendKill
<1>4. StageInv(r)' /\ EndInv(r)'
  BY <1>1, <1>2, <1>3 DEF RunInv, StageInv, EndInv
<1> QED
  BY <1>1, <1>2, <1>3, <1>4 DEF RunInv, Held

\* A blocking waitpid ends with the child collected, by this call or another.
LEMMA ReapInv ==
  ASSUME TypeOK, NEW r \in Run, RunInv(r),
         ReapFailed(r) \/ ReapUnread(r) \/ FinalReap(r)
  PROVE  RunInv(r)'
<1>1. /\ pc[r] \in {"reapFailed", "reapUnread", "finalReap"}
      /\ pc'[r] = "decode" /\ UNCHANGED <<fds, result>>
  BY GotoValue DEF ReapFailed, ReapUnread, FinalReap, BlockingReap
<1>2. /\ child'[r] = "reaped" /\ Members(r)' = Members(r)
      /\ record'[r] = record[r]
      /\ ChildInv(r)' /\ PipeInv(r)' /\ GroupInv(r)'
  <2>1. CASE Collect(r)
    BY <2>1, CollectValue
  <2>2. CASE ~Collect(r)
    <3>1. UNCHANGED <<wstat, kernel>> /\ child[r] = "reaped"
      BY <2>2
      DEF ReapFailed, ReapUnread, FinalReap, BlockingReap, RunInv, ChildInv
    <3>2. ChildInv(r)' /\ PipeInv(r)' /\ GroupInv(r)'
      BY <1>1, <3>1, ChildKept DEF RunInv
    <3> QED
      BY <3>1, <3>2 DEF kernel, Members
  <2> QED BY <2>1, <2>2
<1>3. Members(r) = {}
  BY <1>1 DEF RunInv, StageInv, EndInv, ChildInv
<1>4. StageInv(r)' /\ EndInv(r)'
  BY <1>1, <1>2, <1>3 DEF RunInv, StageInv, EndInv
<1> QED
  BY <1>1, <1>2, <1>4 DEF RunInv, Held

LEMMA PollInv ==
  ASSUME TypeOK, NEW r \in Run, RunInv(r), Poll(r) \/ PollClock(r)
  PROVE  RunInv(r)'
<1>1. CASE Poll(r) /\ Collect(r)
  <2>1. pc[r] = "poll" /\ pc'[r] = "decode" /\ UNCHANGED <<fds, result>>
    BY <1>1, GotoValue DEF Poll, Collect
  <2>2. /\ child'[r] = "reaped" /\ record'[r] = record[r]
        /\ ChildInv(r)' /\ PipeInv(r)' /\ GroupInv(r)'
    BY <1>1, CollectValue
  <2>3. StageInv(r)' /\ EndInv(r)'
    BY <2>1, <2>2 DEF RunInv, StageInv, EndInv
  <2> QED
    BY <2>1, <2>2, <2>3 DEF RunInv, Held
<1>2. CASE Poll(r) /\ ~Collect(r)
  <2>1. pc[r] = "poll" /\ UNCHANGED <<fds, wstat, kernel>>
    BY <1>2 DEF Poll
  <2>2. \/ pc'[r] = "pollClock" /\ result'[r] = result[r]
        \/ pc'[r] = "term" /\ result'[r].stage = "Waitpid"
           /\ result'[r].exit = result[r].exit
    BY <1>2, GotoValue, ReportValue DEF Poll
  <2>3. ChildInv(r)' /\ PipeInv(r)' /\ GroupInv(r)'
    BY <2>1, ChildKept DEF RunInv
  <2>4. StageInv(r)' /\ EndInv(r)'
    BY <2>1, <2>2 DEF RunInv, StageInv, EndInv, kernel
  <2> QED
    BY <2>1, <2>2, <2>3, <2>4 DEF RunInv, Held
<1>3. CASE PollClock(r)
  <2>1. pc[r] = "pollClock" /\ UNCHANGED <<fds, wstat, kernel>>
    BY <1>3 DEF PollClock
  <2>2. result[r] \in NativeRunResult
    BY DEF TypeOK
  <2>3. \/ pc'[r] = "poll" /\ result'[r] = result[r]
        \/ pc'[r] = "term" /\ result'[r].stage = "TimeoutKill"
           /\ result'[r].exit = result[r].exit
    BY <1>3, <2>2, GotoValue DEF PollClock, TypeOK, NativeRunResult
  <2>4. ChildInv(r)' /\ PipeInv(r)' /\ GroupInv(r)'
    BY <2>1, ChildKept DEF RunInv
  <2>5. StageInv(r)' /\ EndInv(r)'
    BY <2>1, <2>3 DEF RunInv, StageInv, EndInv, kernel
  <2> QED
    BY <2>1, <2>3, <2>4, <2>5 DEF RunInv, Held
<1> QED
  BY <1>1, <1>2, <1>3

\* Termination: it ends early only with the leader collected and the group
\* empty, and otherwise goes on to the kill.
LEMMA EndingInv ==
  ASSUME TypeOK, NEW r \in Run, RunInv(r),
         SendTerm(r) \/ GraceReap(r) \/ GraceProbe(r) \/ KillProbe(r)
  PROVE  RunInv(r)'
<1>1. UNCHANGED <<fds, result>>
  BY DEF SendTerm, GraceReap, GraceProbe, KillProbe
<1>2. CASE GraceReap(r) /\ Collect(r)
  <2>1. pc[r] = "graceReap" /\ pc'[r] \in {"graceProbe", "killProbe"}
    BY <1>2, GotoValue DEF GraceReap
  <2>2. /\ child'[r] = "reaped" /\ record'[r] = record[r]
        /\ ChildInv(r)' /\ PipeInv(r)' /\ GroupInv(r)'
    BY <1>2, CollectValue
  <2>3. StageInv(r)' /\ EndInv(r)'
    BY <1>1, <2>1, <2>2 DEF RunInv, StageInv, EndInv
  <2> QED
    BY <1>1, <2>1, <2>2, <2>3 DEF RunInv, Held
<1>3. CASE ~(GraceReap(r) /\ Collect(r))
  <2>1. UNCHANGED <<wstat, kernel>>
    BY <1>3 DEF SendTerm, GraceReap, GraceProbe, KillProbe
  <2>2. /\ pc[r] \in {"term", "graceReap", "graceProbe", "killProbe"}
        /\ \/ pc'[r] \in {"graceReap", "graceProbe", "killProbe", "kill"}
           \/ pc'[r] = "decode" /\ wstat[r] # "none" /\ ~GroupExists(r)
           \/ pc'[r] = "finalReap" /\ ~GroupExists(r)
    BY GotoValue DEF SendTerm, GraceReap, GraceProbe, KillProbe
  <2>3. ~GroupExists(r) => child[r] \in Ended \cup {"away"} /\ Members(r) = {}
    BY <2>2 DEF GroupExists, RunInv, GroupInv, EndInv
  <2>4. ChildInv(r)' /\ PipeInv(r)' /\ GroupInv(r)'
    BY <2>1, <2>2, ChildKept DEF RunInv
  <2>5. StageInv(r)' /\ EndInv(r)'
    BY <1>1, <2>1, <2>2, <2>3
    DEF RunInv, StageInv, EndInv, ChildInv, kernel, Members
  <2> QED
    BY <1>1, <2>2, <2>4, <2>5 DEF RunInv, Held
<1> QED
  BY <1>2, <1>3

LEMMA DecodeInv ==
  ASSUME TypeOK, NEW r \in Run, RunInv(r), Decode(r)
  PROVE  RunInv(r)'
<1>1. pc[r] = "decode" /\ pc'[r] = "returned" /\ UNCHANGED <<fds, wstat, kernel>>
  BY GotoValue DEF Decode
<1>2. result[r] \in NativeRunResult
  BY DEF TypeOK
<1>3. result[r].exit = "none"
  BY <1>1 DEF RunInv, EndInv
<1>4. result'[r].stage = result[r].stage
  BY <1>2 DEF Decode, TypeOK, NativeRunResult
<1>5. result'[r].exit = "zero" => wstat[r] = "exit0"
  BY <1>2, <1>3 DEF Decode, TypeOK, NativeRunResult
<1>6. ChildInv(r)' /\ PipeInv(r)' /\ GroupInv(r)'
  BY <1>1, ChildKept DEF RunInv
<1>7. StageInv(r)' /\ EndInv(r)'
  BY <1>1, <1>4, <1>5 DEF RunInv, StageInv, EndInv, kernel, Members
<1> QED
  BY <1>1, <1>6, <1>7 DEF RunInv, Held

LEMMA SuperviseInv ==
  ASSUME TypeOK, NEW r \in Run, RunInv(r), Supervise(r)
  PROVE  RunInv(r)'
  BY OpeningInv, ForkInv, SpawningInv, ReadInv, KillInv, ReapInv, PollInv,
     EndingInv, DecodeInv DEF Supervise

\* The child's own steps, deaths, and the rest of the world leave the
\* supervising thread where it is.
LEMMA DiesInv ==
  ASSUME TypeOK, NEW r \in Run, RunInv(r), child[r] \in Alive,
         NEW how \in WaitStatus, Dies(r, how), how = "exit0" => image[r],
         UNCHANGED <<pc, fds, result, wstat, image, grouped, record, kin>>
  PROVE  RunInv(r)'
<1>1. child'[r] = "zombie" /\ death'[r] = how
  BY DEF Dies, TypeOK
<1>2. ChildInv(r)' /\ PipeInv(r)' /\ GroupInv(r)'
  BY <1>1 DEF RunInv, ChildInv, PipeInv, GroupInv, Members
<1>3. StageInv(r)' /\ EndInv(r)'
  BY <1>1 DEF RunInv, StageInv, EndInv, Members
<1> QED
  BY <1>2, <1>3 DEF RunInv

LEMMA ChildSetupInv ==
  ASSUME TypeOK, NEW r \in Run, RunInv(r), ChildSetup(r)
  PROVE  RunInv(r)'
<1>1. CASE SetupStep(r)
  <2>1. /\ child[r] \in Setup /\ UNCHANGED <<super, death, record, kin>>
        /\ child'[r] = After[child[r]]
        /\ grouped'[r] = (grouped[r] \/ child[r] = "Setpgid")
        /\ image'[r] = (child[r] = "Execve")
        /\ heir'[r] = IF child[r] = "Execve" THEN {} ELSE heir[r]
    BY <1>1 DEF SetupStep, TypeOK
  <2>2. /\ child'[r] \in (Setup \ {"Setpgid"}) \cup {"running"}
        /\ child'[r] = "running" <=> child[r] = "Execve"
    BY <2>1 DEF After
  <2>3. grouped'[r]
    BY <2>1 DEF RunInv, GroupInv
  <2>4. ChildInv(r)' /\ PipeInv(r)' /\ GroupInv(r)'
    BY <2>1, <2>2, <2>3
    DEF RunInv, ChildInv, PipeInv, GroupInv, Members, super
  <2>5. StageInv(r)' /\ EndInv(r)'
    BY <2>1, <2>2 DEF RunInv, StageInv, EndInv, Members, super
  <2> QED
    BY <2>1, <2>4, <2>5 DEF RunInv, super
<1>2. CASE SetupFails(r)
  <2>1. /\ child[r] \in Setup /\ child'[r] = "failing"
        /\ record'[r] = child[r]
        /\ UNCHANGED <<super, heir, image, grouped, death, kin>>
    BY <1>2 DEF SetupFails, TypeOK
  <2>2. record[r] = "empty" /\ ~image[r]
    BY <2>1 DEF RunInv, ChildInv
  <2>3. result[r].stage \notin Setup
    BY <2>2 DEF RunInv, StageInv
  <2>4. ChildInv(r)' /\ PipeInv(r)'
    BY <2>1, <2>2 DEF RunInv, ChildInv, PipeInv, Members, super
  <2>5. GroupInv(r)'
    BY <2>1 DEF RunInv, GroupInv, super
  <2>6. StageInv(r)' /\ EndInv(r)'
    BY <2>1, <2>3 DEF RunInv, StageInv, EndInv, Members, super
  <2> QED
    BY <2>1, <2>4, <2>5, <2>6 DEF RunInv, super
<1>3. CASE FailedExit(r)
  BY <1>3, DiesInv DEF FailedExit, super, WaitStatus
<1> QED
  BY <1>1, <1>2, <1>3 DEF ChildSetup

LEMMA WorldInv ==
  ASSUME TypeOK, NEW r \in Run, RunInv(r), ClockTicks(r) \/ Environment(r)
  PROVE  RunInv(r)'
<1>1. CASE ClockTicks(r)
  BY <1>1 DEF ClockTicks, TimeoutElapses, GraceElapses, super, kernel, RunInv,
              ChildInv, PipeInv, GroupInv, StageInv, EndInv, Members
<1>2. CASE ReadFailed(r)
  BY <1>2, ReadInv
<1>3. ASSUME NEW how \in {"exit0", "exitN", "signal"}, ProgramEnds(r, how)
      PROVE  RunInv(r)'
  BY <1>3, DiesInv DEF ProgramEnds, super, WaitStatus, RunInv, ChildInv
<1>4. CASE Slain(r)
  BY <1>4, DiesInv DEF Slain, super, WaitStatus
<1>5. CASE ForeignReap(r)
  <2>1. /\ child[r] = "zombie" /\ child'[r] = "reaped"
        /\ UNCHANGED <<super, heir, image, grouped, death, record, kin>>
    BY <1>5 DEF ForeignReap, TypeOK
  <2>2. ChildInv(r)' /\ PipeInv(r)' /\ GroupInv(r)'
    BY <2>1 DEF RunInv, ChildInv, PipeInv, GroupInv, Members, super
  <2>3. StageInv(r)' /\ EndInv(r)'
    BY <2>1 DEF RunInv, StageInv, EndInv, Members, super
  <2> QED
    BY <2>1, <2>2, <2>3 DEF RunInv, super
<1>6. ASSUME NEW k \in Kid, KidStarts(r, k) \/ KidLeaves(r, k) \/ KidEnds(r, k)
      PROVE  RunInv(r)'
  <2>1. UNCHANGED <<super, child, heir, image, grouped, death, record>>
    BY <1>6 DEF KidStarts, KidLeaves, KidEnds
  <2>2. Members(r)' # {} => child[r] = "running" \/ Members(r) # {}
    <3>1. CASE KidStarts(r, k)
      <4>1. PICK place \in {"member", "stray"} :
              /\ place = "member" => child[r] = "running" \/ Members(r) # {}
              /\ kin' = [kin EXCEPT ![r][k] = place]
        BY <3>1 DEF KidStarts
      <4>2. place = "stray" => Members(r)' \subseteq Members(r)
        BY <4>1 DEF Members, TypeOK
      <4> QED BY <4>1, <4>2
    <3>2. CASE KidLeaves(r, k) \/ KidEnds(r, k)
      BY <3>2 DEF KidLeaves, KidEnds, Members, TypeOK
    <3> QED BY <1>6, <3>1, <3>2
  <2>3. ChildInv(r)' /\ PipeInv(r)' /\ GroupInv(r)'
    BY <2>1, <2>2 DEF RunInv, ChildInv, PipeInv, GroupInv, super
  <2>4. StageInv(r)' /\ EndInv(r)'
    BY <2>1, <2>2 DEF RunInv, StageInv, EndInv, super
  <2> QED
    BY <2>1, <2>3, <2>4 DEF RunInv, super
<1>7. CASE LeaderLeaves(r)
  <2>1. /\ child[r] = "running" /\ child'[r] = "away" /\ ~grouped'[r]
        /\ UNCHANGED <<super, heir, image, death, record, kin>>
    BY <1>7 DEF LeaderLeaves, TypeOK
  <2>2. ChildInv(r)' /\ PipeInv(r)' /\ GroupInv(r)'
    BY <2>1 DEF RunInv, ChildInv, PipeInv, GroupInv, Members, super
  <2>3. StageInv(r)' /\ EndInv(r)'
    BY <2>1 DEF RunInv, StageInv, EndInv, Members, super
  <2> QED
    BY <2>1, <2>2, <2>3 DEF RunInv, super
<1> QED
  BY <1>1, <1>2, <1>3, <1>4, <1>5, <1>6, <1>7 DEF Environment

THEOREM Inductive == Spec => []IInv
<1>1. Init => IInv
  <2> SUFFICES ASSUME Init PROVE IInv
    OBVIOUS
  <2>1. \A r \in Run : Members(r) = {}
    BY DEF Init, Members
  <2> QED
    BY <2>1, TypeInit
    DEF Init, IInv, RunInv, ChildInv, PipeInv, GroupInv, StageInv, EndInv, Held
<1>2. IInv /\ [Next]_vars => IInv'
  <2> SUFFICES ASSUME IInv, [Next]_vars PROVE IInv'
    OBVIOUS
  <2>1. CASE UNCHANGED vars
    BY <2>1
    DEF vars, super, clock, kernel, IInv, TypeOK, RunInv, ChildInv, PipeInv,
        GroupInv, StageInv, EndInv, Members
  <2>2. ASSUME NEW r \in Run, Step(r) PROVE IInv'
    <3>1. TypeOK'
      BY <2>2, SuperviseType, ChildType, WorldType DEF IInv, Step
    <3>2. RunInv(r)'
      BY <2>2, SuperviseInv, ChildSetupInv, WorldInv DEF IInv, Step
    <3>3. \A q \in Run \ {r} : RunInv(q)'
      BY <2>2, OthersInv DEF IInv
    <3> QED BY <3>1, <3>2, <3>3 DEF IInv
  <2> QED
    BY <2>1, <2>2 DEF Next, Step
<1> QED
  BY <1>1, <1>2, PTL DEF Spec

-----------------------------------------------------------------------------
(* What follows for every set of calls and every set of descendants. *)

\* No return path of run_process leaks a descriptor.
THEOREM NeverLeaksDescriptors == Spec => []DescriptorsBalanced
<1>1. IInv => DescriptorsBalanced
  BY DEF IInv, RunInv, DescriptorsBalanced
<1> QED
  BY <1>1, Inductive, PTL

\* The error pipe never reports a program that has not started, whichever
\* calls fork concurrently, and a reported setup stage is the one that failed.
THEOREM VerdictIsSound == Spec => []VerdictSound
<1>1. IInv => VerdictSound
  <2> SUFFICES ASSUME IInv, NEW r \in Run
               PROVE  /\ pc[r] \in Watching \cup Ending =>
                           /\ child[r] \notin PreExec \cup {"none"}
                           /\ record[r] = "empty"
                      /\ result[r].stage \in Setup =>
                           result[r].stage = record[r] /\ ~image[r]
                      /\ pc[r] = "returned" /\ record[r] # "empty" =>
                           result[r].stage \in {record[r], "ErrorPipe"}
    BY DEF VerdictSound
  <2>1. ChildInv(r) /\ StageInv(r) /\ EndInv(r)
    BY DEF IInv, RunInv
  <2> QED
    BY <2>1 DEF ChildInv, StageInv, EndInv
<1> QED
  BY <1>1, Inductive, PTL

\* Every signal of the supervisor finds the live leader in its group.
THEOREM SignalsReachTheLeader == Spec => []GroupAddressable
<1>1. IInv => GroupAddressable
  BY DEF IInv, RunInv, GroupInv, GroupAddressable
<1> QED
  BY <1>1, Inductive, PTL

\* A returned call leaves no running leader and no zombie.
THEOREM LeaderIsCollected == Spec => []LeaderCollected
<1>1. IInv => LeaderCollected
  BY DEF IInv, RunInv, EndInv, LeaderCollected
<1> QED
  BY <1>1, Inductive, PTL

\* A call that did not end with stage Ok leaves its process group empty.
THEOREM FailureEmptiesTheGroup == Spec => []NoMemberSurvivesFailure
<1>1. IInv => NoMemberSurvivesFailure
  BY DEF IInv, RunInv, EndInv, NoMemberSurvivesFailure
<1> QED
  BY <1>1, Inductive, PTL

\* A successful result is that of a program that ran and exited with 0.
THEOREM SuccessNeverInvented == Spec => []SuccessIsReal
<1>1. IInv => SuccessIsReal
  BY DEF IInv, RunInv, ChildInv, EndInv, SuccessIsReal, Succeeded
<1> QED
  BY <1>1, Inductive, PTL

-----------------------------------------------------------------------------
(* Who waits for whom. *)

\* Only a child before its program holds write ends.
HeirInv == \A c \in Run : child[c] \notin PreExec => heir[c] = {}

LEMMA HeirStep ==
  ASSUME TypeOK, HeirInv, [Next]_vars
  PROVE  HeirInv'
<1>1. ASSUME NEW r \in Run, NEW how, Dies(r, how)
      PROVE  HeirInv'
  BY <1>1 DEF HeirInv, Dies, TypeOK
<1>2. CASE UNCHANGED <<child, heir>>
  BY <1>2 DEF HeirInv
<1>3. ASSUME NEW r \in Run, KillGroup(r) PROVE HeirInv'
  BY <1>1, <1>2, <1>3 DEF KillGroup
<1>4. ASSUME NEW r \in Run, child[r] = "zombie",
             child' = [child EXCEPT ![r] = "reaped"], UNCHANGED heir
      PROVE  HeirInv'
  BY <1>4 DEF HeirInv, TypeOK, PreExec, Setup
<1>5. ASSUME NEW r \in Run, Collect(r) PROVE HeirInv'
  BY <1>4, <1>5 DEF Collect
<1>6. ASSUME NEW r \in Run, NEW at, BlockingReap(r, at) PROVE HeirInv'
  BY <1>2, <1>5, <1>6 DEF BlockingReap, kernel
<1>7. ASSUME NEW r \in Run, NEW stage, Refuse(r, stage) PROVE HeirInv'
  BY <1>2, <1>7 DEF Refuse, kernel
<1>8. ASSUME NEW r \in Run, NEW fd, NEW next, Opens(r, fd, next) PROVE HeirInv'
  BY <1>2, <1>8 DEF Opens, kernel
<1>9. ASSUME NEW r \in Run, Supervise(r) PROVE HeirInv'
  <2>1. CASE CheckArguments(r) \/ OpenStdout(r) \/ OpenStderr(r) \/ OpenErrorPipe(r)
    BY <1>7, <1>8, <2>1
    DEF CheckArguments, OpenStdout, OpenStderr, OpenErrorPipe
  <2>2. CASE Fork(r)
    <3>1. CASE Forks(r)
      BY <3>1 DEF Forks, HeirInv, TypeOK, PreExec, Setup
    <3>2. QED
      BY <1>7, <2>2, <3>1 DEF Fork
  <2>3. CASE CloseEnds(r) \/ ParentSetpgid(r) \/ ReadChildFailed(r)
             \/ ReadExecSucceeded(r)
    BY <1>2, <2>3
    DEF CloseEnds, ParentSetpgid, ReadChildFailed, ReadExecSucceeded, kernel
  <2>4. CASE ReapFailed(r) \/ ReapUnread(r) \/ FinalReap(r)
    BY <1>2, <1>6, <2>4 DEF ReapFailed, ReapUnread, FinalReap, kernel
  <2>5. CASE KillUnread(r) \/ SendKill(r)
    BY <1>3, <2>5 DEF KillUnread, SendKill
  <2>6. CASE Poll(r) \/ GraceReap(r)
    BY <1>2, <1>5, <2>6 DEF Poll, GraceReap, kernel
  <2>7. CASE PollClock(r) \/ SendTerm(r) \/ GraceProbe(r) \/ KillProbe(r) \/ Decode(r)
    BY <1>2, <2>7 DEF PollClock, SendTerm, GraceProbe, KillProbe, Decode, kernel
  <2>8. QED
    BY <1>9, <2>1, <2>2, <2>3, <2>4, <2>5, <2>6, <2>7 DEF Supervise
<1>10. ASSUME NEW r \in Run, ChildSetup(r) PROVE HeirInv'
  <2>1. CASE SetupStep(r)
    <3>1. CASE child[r] = "Execve"
      BY <2>1, <3>1 DEF SetupStep, HeirInv, TypeOK
    <3>2. CASE child[r] # "Execve"
      <4>1. After[child[r]] \in PreExec
        BY <2>1, <3>2 DEF SetupStep, After, Setup, PreExec
      <4>2. QED
        BY <2>1, <3>2, <4>1 DEF SetupStep, HeirInv, TypeOK
    <3>3. QED
      BY <3>1, <3>2
  <2>2. CASE SetupFails(r)
    BY <2>2 DEF SetupFails, HeirInv, TypeOK, PreExec
  <2>3. CASE FailedExit(r)
    BY <1>1, <2>3 DEF FailedExit
  <2>4. QED
    BY <1>10, <2>1, <2>2, <2>3 DEF ChildSetup
<1>11. ASSUME NEW r \in Run, ClockTicks(r) \/ Environment(r) PROVE HeirInv'
  <2>1. CASE ClockTicks(r) \/ ReadFailed(r)
    BY <1>2, <2>1 DEF ClockTicks, TimeoutElapses, GraceElapses, ReadFailed, kernel
  <2>2. ASSUME NEW how \in {"exit0", "exitN", "signal"}, ProgramEnds(r, how)
        PROVE  HeirInv'
    BY <1>1, <2>2 DEF ProgramEnds
  <2>3. CASE Slain(r)
    BY <1>1, <2>3 DEF Slain
  <2>4. CASE ForeignReap(r)
    BY <1>4, <2>4 DEF ForeignReap
  <2>5. ASSUME NEW k \in Kid, KidStarts(r, k) \/ KidLeaves(r, k) \/ KidEnds(r, k)
        PROVE  HeirInv'
    BY <1>2, <2>5 DEF KidStarts, KidLeaves, KidEnds
  <2>6. CASE LeaderLeaves(r)
    BY <2>6 DEF LeaderLeaves, HeirInv, TypeOK, PreExec, Setup
  <2>7. QED
    BY <1>11, <2>1, <2>2, <2>3, <2>4, <2>5, <2>6 DEF Environment
<1>12. CASE UNCHANGED vars
  BY <1>2, <1>12 DEF vars, kernel
<1>13. QED
  BY <1>9, <1>10, <1>11, <1>12 DEF Next

\* No thread can wait for another for ever, nor for a program that is still in its
\* process group: whatever a read of the pipe or a waitpid blocks on is on its
\* way, or is a leader that left its group, for any number of calls that inherit
\* one another's pipes.
THEOREM EveryWaitIsMet == Spec => []WaitsAreMet
<1>1. Init => HeirInv
  BY DEF Init, HeirInv
<1>2. IInv /\ HeirInv => WaitsAreMet
  <2> SUFFICES ASSUME IInv, HeirInv, NEW r \in Run
               PROVE  /\ pc[r] = "readPipe" =>
                           /\ "wr" \notin fds[r]
                           /\ \A c \in Run : r \in heir[c] => child[c] \in PreExec
                      /\ pc[r] = "reapFailed" =>
                           child[r] \in {"failing", "zombie", "reaped"}
                      /\ \/ pc[r] = "reapUnread"
                         \/ pc[r] = "finalReap" /\ wstat[r] = "none"
                         => child[r] \in {"failing", "zombie", "reaped", "away"}
    BY DEF WaitsAreMet
  <2>1. fds[r] = Held(pc[r]) /\ ChildInv(r) /\ StageInv(r) /\ EndInv(r)
    BY DEF IInv, RunInv
  <2>2. pc[r] = "readPipe" => "wr" \notin fds[r]
    BY <2>1 DEF Held
  <2>3. \A c \in Run : r \in heir[c] => child[c] \in PreExec
    BY DEF HeirInv
  <2>4. pc[r] = "reapFailed" => child[r] \in {"failing", "zombie", "reaped"}
    BY <2>1 DEF StageInv, ChildInv, Ended, Setup
  <2>5. pc[r] \in {"reapUnread", "finalReap"} =>
          child[r] \in {"zombie", "reaped", "away"}
    BY <2>1 DEF EndInv, Ended
  <2>6. QED
    BY <2>2, <2>3, <2>4, <2>5
<1>3. IInv /\ HeirInv /\ [Next]_vars => HeirInv'
  BY HeirStep DEF IInv
<1>4. QED
  BY <1>1, <1>2, <1>3, Inductive, PTL DEF Spec

-----------------------------------------------------------------------------
(* What a call may report: the results JniNativeSupervisor assumes. *)

\* The widths are those of wait statuses; an errno is positive.
Jni == INSTANCE JniNativeSupervisor WITH
  ExitCode <- 0 .. 255, Signal <- 1 .. 127, Errno <- 1 .. 4095,
  Duration <- Nat, Scalar <- Int, IntMax <- 2147483647,
  launch <- 0, pc <- "run", next <- 0, pending <- FALSE, native <- 0,
  wire <- <<>>, kotlin <- 0

\* A result in numbers that `res` abstracts.
Stands(n, res) ==
  /\ n \in Jni!NativeRunResult
  /\ Jni!NativeStage[n.stage + 1] = res.stage
  /\ n.timedOut = res.timedOut
  /\ n.errno # 0 <=> res.errno
  /\ n.signal # 0 <=> res.signal
  /\ n.exit = -1 <=> res.exit = "none"
  /\ n.exit = 0 <=> res.exit = "zero"

\* How the fields of a result go together, and that none says how the child
\* ended before the call has decoded its status.
Fits(res) ==
  /\ res.timedOut <=> res.stage = "TimeoutKill"
  /\ res.stage = "Ok" => ~res.errno
  /\ ~res.errno => res.stage \in {"Ok", "TimeoutKill"}
  /\ res.exit = "none" \/ ~res.signal

Undecoded(res) == res.exit = "none" /\ ~res.signal

ShapeInv(r) == Fits(result[r]) /\ (pc[r] # "returned" => Undecoded(result[r]))

\* Report is reached only with a result that has nothing to say yet.
LEMMA ReportFits ==
  ASSUME TypeOK, NEW r \in Run, ShapeInv(r), pc[r] # "returned",
         result[r].stage = "Ok",
         NEW stage \in SpawnStage \ {"Ok", "TimeoutKill"}, Report(r, stage)
  PROVE  Fits(result'[r]) /\ Undecoded(result'[r])
<1>1. result[r] \in NativeRunResult
  BY DEF TypeOK
<1>2. result'[r] = [result[r] EXCEPT !.stage = stage, !.errno = TRUE]
  BY DEF Report, TypeOK
<1>3. QED
  BY <1>1, <1>2 DEF ShapeInv, Fits, Undecoded, NativeRunResult

LEMMA ShapeKept ==
  ASSUME NEW r \in Run, ShapeInv(r), pc[r] # "returned", result'[r] = result[r]
  PROVE  ShapeInv(r)'
  BY DEF ShapeInv, Fits, Undecoded

LEMMA ReportShape ==
  ASSUME IInv, NEW r \in Run, ShapeInv(r),
         pc[r] \in Opening \cup Spawning \cup {"poll"},
         NEW stage \in SpawnStage \ {"Ok", "TimeoutKill"}, Report(r, stage)
  PROVE  ShapeInv(r)'
<1>1. pc[r] # "returned" /\ result[r].stage = "Ok"
  BY DEF IInv, RunInv, StageInv, Opening, Spawning, Watching
<1>2. QED
  BY <1>1, ReportFits DEF ShapeInv, IInv, Fits, Undecoded

LEMMA SuperviseShape ==
  ASSUME IInv, NEW r \in Run, ShapeInv(r), Supervise(r) \/ ReadFailed(r)
  PROVE  ShapeInv(r)'
<1>0. TypeOK /\ result[r] \in NativeRunResult
  BY DEF IInv, TypeOK
<1>1. ASSUME NEW stage \in {"InvalidArgument", "OpenStdout", "OpenStderr",
                            "ErrorPipe", "Fork"},
             pc[r] \in Opening, Refuse(r, stage)
      PROVE  ShapeInv(r)'
  BY <1>1, ReportShape DEF Refuse, SpawnStage
<1>2. CASE CheckArguments(r) \/ OpenStdout(r) \/ OpenStderr(r) \/ OpenErrorPipe(r)
           \/ Fork(r)
  BY <1>1, <1>2, ShapeKept
  DEF CheckArguments, OpenStdout, OpenStderr, OpenErrorPipe, Fork, Forks, Opens,
      Opening
<1>3. CASE CloseEnds(r) \/ ParentSetpgid(r) \/ ReadExecSucceeded(r)
           \/ ReapFailed(r) \/ ReapUnread(r) \/ KillUnread(r) \/ SendTerm(r)
           \/ GraceReap(r) \/ GraceProbe(r) \/ KillProbe(r) \/ SendKill(r)
           \/ FinalReap(r)
  <2>1. pc[r] # "returned" /\ UNCHANGED result
    BY <1>3 DEF CloseEnds, ParentSetpgid, ReadExecSucceeded, ReapFailed,
       ReapUnread, KillUnread, SendTerm, GraceReap, GraceProbe, KillProbe,
       SendKill, FinalReap, BlockingReap
  <2>2. QED
    BY <2>1, ShapeKept
<1>4. CASE ReadChildFailed(r)
  <2>1. record[r] \in Setup
    BY <1>0, <1>4 DEF ReadChildFailed, TypeOK
  <2>2. QED
    BY <1>4, <2>1, ReportShape DEF ReadChildFailed, Spawning, SpawnStage, Setup
<1>5. CASE ReadFailed(r)
  BY <1>5, ReportShape DEF ReadFailed, Spawning, SpawnStage
<1>6. CASE Poll(r)
  <2>1. CASE UNCHANGED result
    BY <1>6, <2>1, ShapeKept DEF Poll
  <2>2. CASE Report(r, "Waitpid")
    BY <1>6, <2>2, ReportShape DEF Poll, SpawnStage
  <2>3. QED
    BY <1>6, <2>1, <2>2 DEF Poll
<1>7. CASE PollClock(r)
  <2>1. CASE UNCHANGED result
    BY <1>7, <2>1, ShapeKept DEF PollClock
  <2>2. CASE result' = [result EXCEPT ![r].stage = "TimeoutKill",
                                      ![r].timedOut = TRUE]
    <3>1. result'[r] = [result[r] EXCEPT !.stage = "TimeoutKill",
                                         !.timedOut = TRUE]
      BY <1>0, <2>2 DEF TypeOK
    <3>2. Fits(result'[r]) /\ Undecoded(result'[r])
      BY <1>0, <1>7, <3>1
      DEF ShapeInv, Fits, Undecoded, NativeRunResult, PollClock
    <3>3. QED
      BY <3>2 DEF ShapeInv, Fits, Undecoded
  <2>3. QED
    BY <1>7, <2>1, <2>2 DEF PollClock
<1>8. CASE Decode(r)
  <2>1. Undecoded(result[r]) /\ Fits(result[r])
    BY <1>8 DEF ShapeInv, Decode
  <2>2. pc'[r] = "returned"
    BY <1>0, <1>8, GotoValue DEF Decode
  <2>3. /\ result'[r].stage = result[r].stage
        /\ result'[r].errno = result[r].errno
        /\ result'[r].timedOut = result[r].timedOut
    BY <1>0, <1>8 DEF Decode, TypeOK, NativeRunResult
  <2>4. wstat[r] # "signal" => ~result'[r].signal
    BY <1>0, <1>8, <2>1 DEF Decode, TypeOK, NativeRunResult, Undecoded
  <2>5. wstat[r] = "signal" => result'[r].exit = "none"
    BY <1>0, <1>8, <2>1 DEF Decode, TypeOK, NativeRunResult, Undecoded
  <2>6. Fits(result[r])'
    BY <2>1, <2>3, <2>4, <2>5 DEF Fits
  <2>7. QED
    BY <2>2, <2>6 DEF ShapeInv
<1>9. QED
  BY <1>2, <1>3, <1>4, <1>5, <1>6, <1>7, <1>8 DEF Supervise

LEMMA ShapeStep ==
  ASSUME IInv, \A r \in Run : ShapeInv(r), [Next]_vars
  PROVE  \A r \in Run : ShapeInv(r)'
<1> SUFFICES ASSUME NEW r \in Run PROVE ShapeInv(r)'
  OBVIOUS
<1>1. ASSUME UNCHANGED <<pc, result>> PROVE ShapeInv(r)'
  BY <1>1 DEF ShapeInv, Fits, Undecoded
<1>2. CASE UNCHANGED vars
  BY <1>1, <1>2 DEF vars, super
<1>3. ASSUME NEW q \in Run, Step(q) PROVE ShapeInv(r)'
  <2>1. CASE q # r
    BY <1>3, <2>1, Untouched DEF IInv, ShapeInv, Fits, Undecoded
  <2>2. CASE q = r /\ (Supervise(r) \/ ReadFailed(r))
    BY <2>2, SuperviseShape
  <2>3. CASE ChildSetup(q) \/ ClockTicks(q) \/ (Environment(q) /\ ~ReadFailed(q))
    BY <1>1, <2>3
    DEF ChildSetup, SetupStep, SetupFails, FailedExit, ClockTicks, TimeoutElapses,
        GraceElapses, Environment, ProgramEnds, LeaderLeaves, Slain, ForeignReap,
        KidStarts, KidLeaves, KidEnds, super
  <2>4. QED
    BY <1>3, <2>1, <2>2, <2>3 DEF Step, Environment
<1>4. QED
  BY <1>2, <1>3 DEF Next, Step

\* A number for every stage, so that every result stands for some.
LEMMA StageNumber ==
  ASSUME NEW s \in SpawnStage
  PROVE  \E i \in 0 .. 13 : Jni!NativeStage[i + 1] = s
<1>1. /\ Jni!NativeStage[0 + 1] = "Ok" /\ Jni!NativeStage[1 + 1] = "InvalidArgument"
      /\ Jni!NativeStage[2 + 1] = "OpenStdout" /\ Jni!NativeStage[3 + 1] = "OpenStderr"
      /\ Jni!NativeStage[4 + 1] = "ErrorPipe" /\ Jni!NativeStage[5 + 1] = "Fork"
      /\ Jni!NativeStage[6 + 1] = "Setpgid" /\ Jni!NativeStage[7 + 1] = "ResourceLimit"
      /\ Jni!NativeStage[8 + 1] = "Chdir" /\ Jni!NativeStage[9 + 1] = "Dup2Stdout"
      /\ Jni!NativeStage[10 + 1] = "Dup2Stderr" /\ Jni!NativeStage[11 + 1] = "Execve"
      /\ Jni!NativeStage[12 + 1] = "Waitpid" /\ Jni!NativeStage[13 + 1] = "TimeoutKill"
  BY DEF Jni!NativeStage
<1> HIDE DEF Jni!NativeStage
<1>2. QED
  BY <1>1 DEF SpawnStage, Setup

LEMMA SomeStands ==
  ASSUME NEW res \in NativeRunResult
  PROVE  \E n : Stands(n, res)
<1>1. PICK i \in 0 .. 13 : Jni!NativeStage[i + 1] = res.stage
  BY StageNumber DEF NativeRunResult
<1> DEFINE exit == CASE res.exit = "none" -> -1
                     [] res.exit = "zero" -> 0
                     [] OTHER             -> 1
           n == [exit |-> exit, signal |-> IF res.signal THEN 9 ELSE 0,
                 timedOut |-> res.timedOut, errno |-> IF res.errno THEN 2 ELSE 0,
                 stage |-> i, duration |-> 0]
<1>2. /\ exit \in (0 .. 255) \cup {-1}
      /\ exit = -1 <=> res.exit = "none"
      /\ exit = 0 <=> res.exit = "zero"
  BY DEF NativeRunResult
<1> HIDE DEF exit
<1>3. n \in Jni!NativeRunResult
  BY <1>2 DEF Jni!NativeRunResult, Jni!Stage, NativeRunResult
<1>4. Stands(n, res)
  BY <1>1, <1>2, <1>3 DEF Stands, NativeRunResult
<1>5. QED
  BY <1>4

\* The results run_process returns are among those the JNI bridge is checked and
\* proved for, and succeeded() says the same of both: what JniNativeSupervisor
\* assumes of the call it makes is what NativeSupervisor does.
THEOREM ResultsAreAnswers ==
  Spec => [](\A r \in Run : pc[r] = "returned" =>
               /\ \E n : Stands(n, result[r])
               /\ \A n : Stands(n, result[r]) =>
                    /\ n \in Jni!Answers
                    /\ Jni!NativeSucceeded(n) <=> Succeeded(result[r]))
<1> DEFINE Shapes == \A r \in Run : ShapeInv(r)
           Agree  == \A r \in Run : pc[r] = "returned" =>
                       /\ \E n : Stands(n, result[r])
                       /\ \A n : Stands(n, result[r]) =>
                            /\ n \in Jni!Answers
                            /\ Jni!NativeSucceeded(n) <=> Succeeded(result[r])
<1>1. Init => Shapes
  BY DEF Init, ShapeInv, Fits, Undecoded
<1>2. IInv /\ Shapes /\ [Next]_vars => Shapes'
  BY ShapeStep
<1>3. IInv /\ Shapes => Agree
  <2> SUFFICES ASSUME IInv, Shapes, NEW r \in Run
               PROVE  /\ \E n : Stands(n, result[r])
                      /\ \A n : Stands(n, result[r]) =>
                           /\ n \in Jni!Answers
                           /\ Jni!NativeSucceeded(n) <=> Succeeded(result[r])
    OBVIOUS
  <2>1. result[r] \in NativeRunResult /\ Fits(result[r])
    BY DEF IInv, TypeOK, ShapeInv
  <2>2. \E n : Stands(n, result[r])
    BY <2>1, SomeStands
  <2>3. ASSUME NEW n, Stands(n, result[r])
        PROVE  /\ n \in Jni!Answers
               /\ Jni!NativeSucceeded(n) <=> Succeeded(result[r])
    <3>1. n \in Jni!NativeRunResult
      BY <2>3 DEF Stands
    <3>2. n \in Jni!Answers
      BY <2>1, <2>3, <3>1 DEF Stands, Fits, Jni!Answers
    <3>3. Jni!NativeSucceeded(n) <=> Succeeded(result[r])
      BY <2>1, <2>3 DEF Stands, Jni!NativeSucceeded, Succeeded
    <3>4. QED
      BY <3>2, <3>3
  <2>4. QED
    BY <2>2, <2>3
<1> HIDE DEF Shapes, Agree
<1>4. Spec => []Agree
  BY <1>1, <1>2, <1>3, Inductive, PTL DEF Spec
<1>5. QED
  BY <1>4 DEF Agree

-----------------------------------------------------------------------------
(* The calls implement SupervisionContract. *)

\* What one call's step may do in terms of the contract.
Abstract(r) ==
  \/ /\ prog[r] = "absent" /\ answer[r] = "pending" /\ prog'[r] = "starting"
     /\ company'[r] = company[r] /\ answer'[r] = answer[r]
  \/ /\ prog[r] = "starting" /\ prog'[r] = "executing"
     /\ company'[r] = company[r] /\ answer'[r] = answer[r]
  \/ /\ \/ prog[r] = "starting" /\ prog'[r] = "aborted"
        \/ prog[r] = "executing" /\ prog'[r] = "ended"
     /\ company'[r] \in {company[r], FALSE} /\ answer'[r] = answer[r]
  \/ /\ company[r] = TRUE \/ prog[r] = "executing"
     /\ prog'[r] = prog[r] /\ company'[r] # company[r] /\ answer'[r] = answer[r]
  \/ /\ answer[r] = "pending" /\ answer'[r] \in Contract!Answer \ {"pending"}
     /\ Contract!Justified(r, answer'[r])
     /\ prog'[r] = prog[r] /\ company'[r] = company[r]
  \/ prog'[r] = prog[r] /\ company'[r] = company[r] /\ answer'[r] = answer[r]

LEMMA Pointwise ==
  ASSUME NEW f, NEW g, f = [q \in Run |-> f[q]], g = [q \in Run |-> g[q]],
         NEW r \in Run, NEW v, g[r] = v, \A q \in Run \ {r} : g[q] = f[q]
  PROVE  g = [f EXCEPT ![r] = v]
  OBVIOUS

LEMMA Shadows ==
  /\ prog = [q \in Run |-> prog[q]] /\ prog' = [q \in Run |-> prog'[q]]
  /\ company = [q \in Run |-> company[q]] /\ company' = [q \in Run |-> company'[q]]
  /\ answer = [q \in Run |-> answer[q]] /\ answer' = [q \in Run |-> answer'[q]]
  /\ company \in [Run -> BOOLEAN] /\ company' \in [Run -> BOOLEAN]
  BY DEF prog, company, answer

LEMMA Lift ==
  ASSUME NEW r \in Run, Abstract(r),
         \A q \in Run \ {r} : /\ prog'[q] = prog[q] /\ company'[q] = company[q]
                              /\ answer'[q] = answer[q]
  PROVE  [Contract!Next]_(Contract!vars)
<1>1. /\ \A v : prog'[r] = v => prog' = [prog EXCEPT ![r] = v]
      /\ \A v : answer'[r] = v => answer' = [answer EXCEPT ![r] = v]
      /\ \A v : company'[r] = v => company' = [company EXCEPT ![r] = v]
  BY Shadows, Pointwise
<1>2. /\ prog'[r] = prog[r] => prog' = prog
      /\ answer'[r] = answer[r] => answer' = answer
      /\ company'[r] = company[r] => company' = company
  BY Shadows
<1>3. company[r] \in BOOLEAN /\ company'[r] \in BOOLEAN
  BY Shadows
<1>4. CASE /\ prog[r] = "absent" /\ answer[r] = "pending" /\ prog'[r] = "starting"
           /\ company'[r] = company[r] /\ answer'[r] = answer[r]
  <2>1. Contract!Launch(r)
    BY <1>1, <1>2, <1>4 DEF Contract!Launch
  <2>2. QED
    BY <2>1 DEF Contract!Next
<1>5. CASE /\ prog[r] = "starting" /\ prog'[r] = "executing"
           /\ company'[r] = company[r] /\ answer'[r] = answer[r]
  <2>1. Contract!Execute(r)
    BY <1>1, <1>2, <1>5 DEF Contract!Execute
  <2>2. QED
    BY <2>1 DEF Contract!Next
<1>6. CASE /\ \/ prog[r] = "starting" /\ prog'[r] = "aborted"
              \/ prog[r] = "executing" /\ prog'[r] = "ended"
           /\ company'[r] \in {company[r], FALSE} /\ answer'[r] = answer[r]
  <2>1. company' \in {company, [company EXCEPT ![r] = FALSE]}
    BY <1>1, <1>2, <1>6
  <2>2. prog' = [prog EXCEPT ![r] = IF prog[r] = "starting" THEN "aborted"
                                                            ELSE "ended"]
    BY <1>1, <1>6
  <2>3. Contract!End(r)
    BY <1>2, <1>6, <2>1, <2>2 DEF Contract!End
  <2>4. QED
    BY <2>3 DEF Contract!Next
<1>7. CASE /\ company[r] = TRUE \/ prog[r] = "executing"
           /\ prog'[r] = prog[r] /\ company'[r] # company[r] /\ answer'[r] = answer[r]
  <2>1. company' = [company EXCEPT ![r] = ~company[r]]
    <3>1. CASE company[r] = TRUE
      BY <1>1, <1>3, <1>7, <3>1
    <3>2. CASE company[r] = FALSE
      BY <1>1, <1>3, <1>7, <3>2
    <3>3. QED
      BY <1>3, <3>1, <3>2
  <2>2. Contract!Gather(r)
    BY <1>2, <1>7, <2>1 DEF Contract!Gather
  <2>3. QED
    BY <2>2 DEF Contract!Next
<1>8. CASE /\ answer[r] = "pending" /\ answer'[r] \in Contract!Answer \ {"pending"}
           /\ Contract!Justified(r, answer'[r])
           /\ prog'[r] = prog[r] /\ company'[r] = company[r]
  <2>1. Contract!Reply(r)
    BY <1>1, <1>2, <1>8 DEF Contract!Reply
  <2>2. QED
    BY <2>1 DEF Contract!Next
<1>9. CASE prog'[r] = prog[r] /\ company'[r] = company[r] /\ answer'[r] = answer[r]
  BY <1>2, <1>9 DEF Contract!vars
<1>10. QED
  BY <1>4, <1>5, <1>6, <1>7, <1>8, <1>9 DEF Abstract

\* The mapping, by the values that matter, before a step and after it.
Mapped(r) ==
  /\ child[r] = "none" => prog[r] = "absent"
  /\ child[r] \in PreExec => prog[r] = "starting"
  /\ child[r] \in Program => prog[r] = "executing"
  /\ child[r] \in Ended => prog[r] = IF image[r] THEN "ended" ELSE "aborted"
  /\ company[r] \in BOOLEAN /\ (company[r] = TRUE <=> Members(r) # {})
  /\ pc[r] # "returned" => answer[r] = "pending"

LEMMA Mapping == ASSUME NEW r \in Run PROVE Mapped(r) /\ Mapped(r)'
<1>1. Mapped(r)
  BY DEF Mapped, prog, company, answer, Answer, PreExec, Setup, Program, Alive,
     Ended
<1>2. Mapped(r)'
  BY DEF Mapped, prog, company, answer, Answer, PreExec, Setup, Program, Alive,
     Ended
<1>3. QED
  BY <1>1, <1>2

\* A thread that goes on without touching its child does nothing visible.
LEMMA GoesOn ==
  ASSUME NEW r \in Run, pc[r] # "returned", pc'[r] # "returned",
         child'[r] = child[r] \/ (child[r] = "zombie" /\ child'[r] = "reaped"),
         image'[r] = image[r], Members(r)' = Members(r)
  PROVE  Abstract(r)
<1>1. prog'[r] = prog[r]
  BY DEF prog, PreExec, Setup
<1>2. company'[r] = company[r] /\ answer'[r] = answer[r]
  BY Mapping DEF Mapped
<1>3. QED
  BY <1>1, <1>2 DEF Abstract

LEMMA SameAnswer ==
  ASSUME NEW r \in Run, pc'[r] = pc[r], result'[r] = result[r],
         child'[r] = "none" <=> child[r] = "none"
  PROVE  answer'[r] = answer[r]
  BY DEF answer, Answer, Succeeded

\* A call that refuses has no child.
LEMMA RefusesAbstract ==
  ASSUME IInv, NEW r \in Run, pc[r] \in Opening, NEW stage, Refuse(r, stage)
  PROVE  Abstract(r)
<1>1. pc'[r] = "returned" /\ UNCHANGED kernel
  BY GotoValue DEF Refuse, IInv
<1>2. child[r] = "none" /\ child'[r] = "none" /\ image'[r] = image[r]
      /\ Members(r)' = Members(r)
  BY <1>1 DEF IInv, RunInv, StageInv, kernel, Members
<1>3. answer[r] = "pending" /\ answer'[r] = "refused"
  BY <1>1, <1>2 DEF answer, Answer, Opening
<1>4. prog[r] = "absent" /\ prog'[r] = prog[r] /\ company'[r] = company[r]
  BY <1>2, Mapping DEF Mapped
<1>5. QED
  BY <1>3, <1>4 DEF Abstract, Contract!Answer, Contract!Justified

LEMMA OpeningAbstract ==
  ASSUME IInv, NEW r \in Run,
         \/ CheckArguments(r) \/ OpenStdout(r) \/ OpenStderr(r) \/ OpenErrorPipe(r)
         \/ Fork(r)
  PROVE  Abstract(r)
<1>1. pc[r] \in Opening
  BY DEF CheckArguments, OpenStdout, OpenStderr, OpenErrorPipe, Fork, Opening
<1>2. CASE \E stage : Refuse(r, stage)
  BY <1>1, <1>2, RefusesAbstract
<1>3. CASE \E fd, l : Opens(r, fd, l) /\ l # "returned"
  <2>1. pc'[r] # "returned" /\ UNCHANGED kernel
    BY <1>3, GotoValue DEF Opens, IInv
  <2>2. QED
    BY <1>1, <2>1, GoesOn DEF kernel, Members, Opening
<1>4. CASE Forks(r)
  <2>1. /\ pc'[r] = "closeEnds" /\ child'[r] = "Setpgid"
        /\ image'[r] = image[r] /\ Members(r)' = Members(r)
    BY <1>4, GotoValue DEF Forks, IInv, TypeOK, Members
  <2>2. child[r] = "none"
    BY <1>1 DEF IInv, RunInv, StageInv
  <2>3. QED
    BY <1>1, <2>1, <2>2, Mapping
    DEF Mapped, Abstract, PreExec, Setup, Opening
<1>5. QED
  BY <1>2, <1>3, <1>4
  DEF CheckArguments, OpenStdout, OpenStderr, OpenErrorPipe, Fork

\* The rest of the thread up to the decoding, apart from the signals.
LEMMA WatchesAbstract ==
  ASSUME IInv, NEW r \in Run,
         \/ CloseEnds(r) \/ ParentSetpgid(r)
         \/ ReadChildFailed(r) \/ ReadExecSucceeded(r) \/ ReadFailed(r)
         \/ ReapFailed(r) \/ ReapUnread(r) \/ FinalReap(r)
         \/ Poll(r) \/ PollClock(r) \/ SendTerm(r)
         \/ GraceReap(r) \/ GraceProbe(r) \/ KillProbe(r)
  PROVE  Abstract(r)
<1> USE DEF IInv, TypeOK
<1>1. pc[r] # "returned" /\ pc'[r] # "returned"
  BY DEF CloseEnds, ParentSetpgid, ReadChildFailed, ReadExecSucceeded, ReadFailed,
     ReapFailed, ReapUnread, FinalReap, BlockingReap, Poll, PollClock, SendTerm,
     GraceReap, GraceProbe, KillProbe, Goto
<1>2. /\ child'[r] = child[r] \/ (child[r] = "zombie" /\ child'[r] = "reaped")
      /\ UNCHANGED <<image, kin>>
  BY DEF CloseEnds, ParentSetpgid, ReadChildFailed, ReadExecSucceeded, ReadFailed,
     ReapFailed, ReapUnread, FinalReap, BlockingReap, Poll, PollClock, SendTerm,
     GraceReap, GraceProbe, KillProbe, Collect, kernel
<1>3. image'[r] = image[r] /\ Members(r)' = Members(r)
  BY <1>2 DEF Members
<1>4. QED
  BY <1>1, <1>2, <1>3, GoesOn

\* A process that dies ends its program, alone or with its group.
LEMMA DeathAbstract ==
  ASSUME IInv, NEW r \in Run, child[r] \in Alive, child'[r] = "zombie",
         image'[r] = image[r],
         \/ pc'[r] # "returned" /\ pc[r] # "returned"
         \/ pc'[r] = pc[r] /\ result'[r] = result[r],
         Members(r)' \in {Members(r), {}}
  PROVE  Abstract(r)
<1>1. child[r] \in PreExec => ~image[r]
  BY DEF IInv, RunInv, ChildInv, PreExec, Setup, Ended
<1>2. child[r] \in Program => image[r]
  BY DEF IInv, RunInv, ChildInv
<1>3. answer'[r] = answer[r]
  BY SameAnswer, Mapping DEF Mapped, Alive, PreExec, Setup, Program
<1>4. company'[r] \in {company[r], FALSE}
  BY Mapping DEF Mapped
<1>5. \/ prog[r] = "starting" /\ prog'[r] = "aborted"
      \/ prog[r] = "executing" /\ prog'[r] = "ended"
  <2>1. CASE child[r] \in PreExec
    BY <1>1, <2>1, Mapping DEF Mapped, Ended
  <2>2. CASE child[r] \in Program
    BY <1>2, <2>2, Mapping DEF Mapped, Ended
  <2>3. QED
    BY <2>1, <2>2 DEF Alive
<1>6. QED
  BY <1>3, <1>4, <1>5 DEF Abstract

LEMMA KillsAbstract ==
  ASSUME IInv, NEW r \in Run, KillUnread(r) \/ SendKill(r)
  PROVE  Abstract(r)
<1>1. pc[r] # "returned" /\ pc'[r] # "returned" /\ KillGroup(r)
  BY GotoValue DEF KillUnread, SendKill, IInv
<1>2. Members(r)' = {} /\ image'[r] = image[r]
  BY <1>1 DEF KillGroup, Members, IInv, TypeOK
<1>3. CASE child[r] \in Alive /\ grouped[r]
  <2>1. child'[r] = "zombie"
    BY <1>1, <1>3 DEF KillGroup, Dies, IInv, TypeOK
  <2>2. Members(r)' \in {Members(r), {}}
    BY <1>2
  <2>3. /\ child[r] \in Alive /\ image'[r] = image[r]
        /\ \/ pc'[r] # "returned" /\ pc[r] # "returned"
           \/ pc'[r] = pc[r] /\ result'[r] = result[r]
    BY <1>1, <1>2, <1>3
  <2>4. QED
    BY <2>1, <2>2, <2>3, DeathAbstract
<1>4. CASE ~(child[r] \in Alive /\ grouped[r])
  <2>1. child' = child
    BY <1>1, <1>4 DEF KillGroup
  <2>2. prog'[r] = prog[r]
    BY <1>2, <2>1 DEF prog
  <2>3. Mapped(r) /\ Mapped(r)'
    BY Mapping
  <2>4. answer'[r] = answer[r]
    BY <1>1, <2>3 DEF Mapped
  <2>5. company[r] \in BOOLEAN /\ company'[r] = FALSE
    BY <1>2, <2>3 DEF Mapped
  <2>6. company'[r] = company[r] \/ (company[r] = TRUE /\ company'[r] # company[r])
    BY <2>5
  <2>7. CASE company'[r] = company[r]
    BY <2>2, <2>4, <2>7 DEF Abstract
  <2>8. CASE company[r] = TRUE /\ company'[r] # company[r]
    BY <2>2, <2>4, <2>8 DEF Abstract
  <2>9. QED
    BY <2>6, <2>7, <2>8
<1>5. QED
  BY <1>3, <1>4

\* The answer a call gives is justified by what has become of its child.
LEMMA DecodesAbstract ==
  ASSUME IInv, IInv', NEW r \in Run, Decode(r)
  PROVE  Abstract(r)
<1>1. pc[r] = "decode" /\ pc'[r] = "returned" /\ UNCHANGED <<wstat, kernel>>
  BY GotoValue DEF Decode, IInv
<1>2. child[r] = "reaped" /\ child'[r] = "reaped"
  BY <1>1 DEF IInv, RunInv, StageInv, EndInv, Opening, kernel
<1>3. child' = child /\ image' = image /\ Members(r)' = Members(r)
  BY <1>1 DEF kernel, Members
<1>4. prog'[r] = prog[r] /\ company'[r] = company[r]
  BY <1>3 DEF prog, company
<1> DEFINE v == answer'[r]
<1>5. answer[r] = "pending"
  BY <1>1, Mapping DEF Mapped
<1>6. v = IF result'[r].stage \in Setup          THEN "spawnFailed"
          ELSE IF result'[r].stage = "TimeoutKill" THEN "timedOut"
          ELSE IF Succeeded(result'[r])            THEN "succeeded"
          ELSE IF result'[r].stage = "Ok"          THEN "finished"
          ELSE                                          "lost"
  BY <1>1, <1>2 DEF answer, Answer, Succeeded
<1>7. prog[r] = IF image[r] THEN "ended" ELSE "aborted"
  BY <1>2, Mapping DEF Mapped, Ended
<1>8. result'[r].stage \in Setup => ~image[r]
  BY <1>3 DEF IInv, RunInv, StageInv, ChildInv, Setup
<1>9. result'[r].stage # "Ok" => company[r] = FALSE
  <2>1. result'[r].stage # "Ok" => Members(r) = {}
    BY <1>1, <1>3 DEF IInv, RunInv, EndInv
  <2>2. company[r] \in BOOLEAN /\ (company[r] = TRUE <=> Members(r) # {})
    BY Mapping DEF Mapped
  <2>3. QED
    BY <2>1, <2>2
<1>10. Succeeded(result'[r]) => image[r]
  <2>1. Succeeded(result'[r]) => result'[r].exit = "zero"
    BY DEF Succeeded
  <2>2. result'[r].exit = "zero" => wstat'[r] = "exit0"
    BY DEF IInv, RunInv, EndInv
  <2>3. wstat'[r] = "exit0" => image'[r]
    BY DEF IInv, RunInv, ChildInv
  <2>4. QED
    BY <1>3, <2>1, <2>2, <2>3
<1>11. v \in {"spawnFailed", "timedOut", "succeeded", "finished", "lost"}
  BY <1>6
<1>12. /\ v = "spawnFailed" => prog[r] = "aborted" /\ company[r] = FALSE
       /\ v = "succeeded" => prog[r] = "ended"
       /\ v \in {"timedOut", "lost"} => company[r] = FALSE
       /\ prog[r] \in {"aborted", "ended"}
  <2>1. v = "spawnFailed" => result'[r].stage \in Setup
    BY <1>6
  <2>2. v = "succeeded" => Succeeded(result'[r])
    BY <1>6
  <2>3. v \in {"spawnFailed", "timedOut", "lost"} => result'[r].stage # "Ok"
    BY <1>6 DEF Setup
  <2>4. QED
    BY <1>7, <1>8, <1>9, <1>10, <2>1, <2>2, <2>3
<1> HIDE DEF v
<1>13. Contract!Justified(r, v) /\ v \in Contract!Answer \ {"pending"}
  BY <1>11, <1>12 DEF Contract!Justified, Contract!Answer
<1>14. QED
  BY <1>4, <1>5, <1>13 DEF Abstract, v

LEMMA ChildSetupAbstract ==
  ASSUME IInv, NEW r \in Run, ChildSetup(r)
  PROVE  Abstract(r)
<1>1. UNCHANGED <<super, kin>> /\ Members(r)' = Members(r)
  BY DEF ChildSetup, SetupStep, SetupFails, FailedExit, Members
<1>2. company'[r] = company[r]
  BY <1>1 DEF company
<1>3. CASE SetupStep(r)
  <2>1. child[r] \in Setup /\ child'[r] \in PreExec \cup {"running"}
    <3>1. child[r] \in Setup /\ child'[r] = After[child[r]]
      BY <1>3 DEF SetupStep, IInv, TypeOK
    <3>2. \A s \in Setup : After[s] \in PreExec \cup {"running"}
      BY DEF After, Setup, PreExec
    <3>3. QED
      BY <3>1, <3>2
  <2>2. answer'[r] = answer[r]
    <3>1. child[r] # "none" /\ child'[r] # "none"
      BY <2>1 DEF Setup, PreExec
    <3>2. pc'[r] = pc[r] /\ result'[r] = result[r]
      BY <1>1 DEF super
    <3>3. QED
      BY <3>1, <3>2, SameAnswer
  <2>3. prog[r] = "starting" /\ prog'[r] \in {"starting", "executing"}
    BY <2>1, Mapping DEF Mapped, PreExec
  <2>4. CASE prog'[r] = "starting"
    BY <1>2, <2>2, <2>3, <2>4 DEF Abstract
  <2>5. CASE prog'[r] = "executing"
    BY <1>2, <2>2, <2>3, <2>5 DEF Abstract
  <2>6. QED
    BY <2>3, <2>4, <2>5
<1>4. CASE SetupFails(r)
  <2>1. child[r] \in Setup /\ child'[r] = "failing"
    BY <1>4 DEF SetupFails, IInv, TypeOK
  <2>2. answer'[r] = answer[r]
    BY <1>1, <2>1, SameAnswer DEF super, Setup
  <2>3. prog'[r] = prog[r]
    BY <2>1, Mapping DEF Mapped, PreExec
  <2>4. QED
    BY <1>2, <2>2, <2>3 DEF Abstract
<1>5. CASE FailedExit(r)
  <2>1. /\ child[r] \in Alive /\ child'[r] = "zombie" /\ image'[r] = image[r]
    BY <1>5 DEF FailedExit, Dies, IInv, TypeOK, Alive, PreExec
  <2>2. /\ pc'[r] = pc[r] /\ result'[r] = result[r]
        /\ Members(r)' \in {Members(r), {}}
    BY <1>1 DEF super
  <2>3. QED
    BY <2>1, <2>2, DeathAbstract
<1>6. QED
  BY <1>3, <1>4, <1>5 DEF ChildSetup

LEMMA WorldAbstract ==
  ASSUME IInv, NEW r \in Run, Environment(r) \/ ClockTicks(r)
  PROVE  Abstract(r)
<1>1. CASE ClockTicks(r)
  <2>1. UNCHANGED <<super, kernel>>
    BY <1>1 DEF ClockTicks, TimeoutElapses, GraceElapses
  <2>2. answer'[r] = answer[r]
    BY <2>1, SameAnswer DEF super, kernel
  <2>3. prog'[r] = prog[r] /\ company'[r] = company[r]
    BY <2>1 DEF prog, company, kernel, Members
  <2>4. QED
    BY <2>2, <2>3 DEF Abstract
<1>2. CASE ReadFailed(r)
  BY <1>2, WatchesAbstract
<1>3. ASSUME \/ \E how \in {"exit0", "exitN", "signal"} : ProgramEnds(r, how)
             \/ Slain(r)
      PROVE  Abstract(r)
  <2>1. UNCHANGED <<super, image, kin>> /\ child[r] \in Alive
        /\ child'[r] = "zombie"
    BY <1>3 DEF ProgramEnds, Slain, Dies, IInv, TypeOK, Alive
  <2>2. /\ pc'[r] = pc[r] /\ result'[r] = result[r] /\ image'[r] = image[r]
        /\ Members(r)' \in {Members(r), {}}
    BY <2>1 DEF super, Members
  <2>3. QED
    BY <2>1, <2>2, DeathAbstract
<1>4. CASE ForeignReap(r)
  <2>1. /\ child[r] = "zombie" /\ child'[r] = "reaped"
        /\ UNCHANGED <<super, image, kin>>
    BY <1>4 DEF ForeignReap, IInv, TypeOK
  <2>2. answer'[r] = answer[r]
    BY <2>1, SameAnswer DEF super
  <2>3. prog'[r] = prog[r]
    BY <2>1, Mapping DEF Mapped, Ended
  <2>4. company'[r] = company[r]
    BY <2>1 DEF company, Members
  <2>5. QED
    BY <2>2, <2>3, <2>4 DEF Abstract
<1>5. ASSUME NEW k \in Kid, KidStarts(r, k) \/ KidLeaves(r, k) \/ KidEnds(r, k)
      PROVE  Abstract(r)
  <2>1. UNCHANGED <<super, child, image>>
    BY <1>5 DEF KidStarts, KidLeaves, KidEnds
  <2>2. prog'[r] = prog[r] /\ answer'[r] = answer[r]
    BY <2>1, SameAnswer DEF prog, super
  <2>3. CASE Members(r)' = Members(r)
    <3>1. company'[r] = company[r]
      BY <2>3 DEF company
    <3>2. QED
      BY <2>2, <3>1 DEF Abstract
  <2>4. CASE Members(r)' # Members(r)
    <3>1. child[r] = "running" \/ Members(r) # {}
      <4>1. CASE KidStarts(r, k)
        <5>1. PICK place \in {"member", "stray"} :
                /\ kin[r][k] = "unborn"
                /\ place = "member" => child[r] = "running" \/ Members(r) # {}
                /\ kin' = [kin EXCEPT ![r][k] = place]
          BY <4>1 DEF KidStarts
        <5>2. place = "stray" => Members(r)' = Members(r)
          BY <5>1 DEF Members, IInv, TypeOK
        <5>3. QED
          BY <2>4, <5>1, <5>2
      <4>2. CASE KidLeaves(r, k) \/ KidEnds(r, k)
        BY <2>4, <4>2 DEF KidLeaves, KidEnds, Members, IInv, TypeOK
      <4>3. QED
        BY <1>5, <4>1, <4>2
    <3>2. company[r] = TRUE \/ prog[r] = "executing"
      BY <3>1, Mapping DEF Mapped, Program
    <3>3. CASE company'[r] = company[r]
      BY <2>2, <3>3 DEF Abstract
    <3>4. CASE company'[r] # company[r]
      BY <2>2, <3>2, <3>4 DEF Abstract
    <3>5. QED
      BY <3>3, <3>4
  <2>5. QED
    BY <2>3, <2>4
<1>6. CASE LeaderLeaves(r)
  <2>1. /\ child[r] = "running" /\ child'[r] = "away"
        /\ UNCHANGED <<super, image, kin>>
    BY <1>6 DEF LeaderLeaves, IInv, TypeOK
  <2>2. answer'[r] = answer[r]
    BY <2>1, SameAnswer DEF super
  <2>3. prog'[r] = prog[r]
    BY <2>1, Mapping DEF Mapped, Program
  <2>4. company'[r] = company[r]
    BY <2>1 DEF company, Members
  <2>5. QED
    BY <2>2, <2>3, <2>4 DEF Abstract
<1>7. QED
  BY <1>1, <1>2, <1>3, <1>4, <1>5, <1>6 DEF Environment

\* run_process keeps the contract its callers rely on: each call launches at most
\* one program and gives one answer, justified by what has become of the program
\* and its process group, for any number of calls and descendants.
THEOREM ContractIsKept == Spec => KeepsContract
<1>1. Init => Contract!Init
  <2> SUFFICES ASSUME Init PROVE Contract!Init
    OBVIOUS
  <2>1. \A r \in Run : prog[r] = "absent" /\ answer[r] = "pending"
    BY DEF Init, prog, answer, Answer
  <2>2. \A r \in Run : company[r] = FALSE
    BY DEF Init, company, Members
  <2>3. QED
    BY <2>1, <2>2, Shadows DEF Contract!Init
<1>2. IInv /\ IInv' /\ [Next]_vars => [Contract!Next]_(Contract!vars)
  <2> SUFFICES ASSUME IInv, IInv', [Next]_vars
               PROVE  [Contract!Next]_(Contract!vars)
    OBVIOUS
  <2>1. ASSUME NEW r \in Run, Step(r) PROVE [Contract!Next]_(Contract!vars)
    <3>1. Abstract(r)
      BY <2>1, OpeningAbstract, WatchesAbstract, KillsAbstract, DecodesAbstract,
         ChildSetupAbstract, WorldAbstract DEF Step, Supervise
    <3>2. ASSUME NEW q \in Run \ {r}
          PROVE  /\ prog'[q] = prog[q] /\ company'[q] = company[q]
                 /\ answer'[q] = answer[q]
      <4>1. /\ pc'[q] = pc[q] /\ result'[q] = result[q] /\ child'[q] = child[q]
            /\ image'[q] = image[q] /\ kin'[q] = kin[q]
        BY <2>1, Untouched DEF IInv
      <4>2. prog'[q] = prog[q] /\ company'[q] = company[q]
        BY <4>1 DEF prog, company, Members
      <4>3. answer'[q] = answer[q]
        BY <4>1, SameAnswer
      <4>4. QED
        BY <4>2, <4>3
    <3>3. QED
      BY <3>1, <3>2, Lift
  <2>2. CASE UNCHANGED vars
    <3>1. UNCHANGED <<pc, result, child, image, kin>>
      BY <2>2 DEF vars, super, kernel
    <3>2. UNCHANGED <<prog, company, answer>>
      BY <3>1 DEF prog, company, answer, Answer, Members, Succeeded
    <3>3. QED
      BY <3>2 DEF Contract!vars
  <2>3. QED
    BY <2>1, <2>2 DEF Next, Step
<1>3. QED
  BY <1>1, <1>2, Inductive, PTL DEF Spec, KeepsContract, Contract!Spec
=============================================================================
