-------------------------- MODULE ExecutionBackend --------------------------
(***************************************************************************)
(* execute and stop of NativeBackend and ProotBackend in                   *)
(* execution_backend.py: each on a thread of its own, sharing the registry *)
(* `_running` and the Popen objects in it.                                 *)
(*                                                                         *)
(* Popen is modelled by what the code relies on: communicate reads both    *)
(* pipes to their end, which comes when no process holds them, and then    *)
(* collects the child; terminate and kill do nothing to a child that has   *)
(* been collected, and reach the child only, not what it started.          *)
(***************************************************************************)
CONSTANTS
  Execution,  \* calls of execute, by the execution_id each draws
  Stopper     \* calls of stop

VARIABLES
  pc,        \* where each execute is
  state,     \* the state of its ExecutionResult
  running,   \* the registry: the executions whose process it holds
  target,    \* the execution_id each stop was given
  at,        \* where each stop is
  process,   \* the child: running, a zombie, or collected
  exit,      \* how it ended
  holders,   \* a descendant of the child holds its pipes open
  sweeping   \* the child is a PRoot whose --kill-on-exit is in force

calls == <<pc, state, running, at>>
given == <<target, sweeping>>
world == <<process, exit, holders>>
vars  == <<calls, given, world>>

ExecutionState == {"none", "completed", "failed"}

Stopping == {"terminate", "wait", "kill", "waitKilled"}
Stopped  == {"true", "false", "raised"}

TypeOK ==
  /\ pc \in [Execution -> {"popen", "register", "communicate", "collect", "pop",
                           "returned", "rejected"}]
  /\ state \in [Execution -> ExecutionState]
  /\ running \in SUBSET Execution
  /\ target \in [Stopper -> Execution]
  /\ at \in [Stopper -> {"idle"} \cup Stopping \cup Stopped]
  /\ process \in [Execution -> {"none", "running", "zombie", "collected"}]
  /\ exit \in [Execution -> {"none", "zero", "nonzero"}]
  /\ holders \in [Execution -> BOOLEAN]
  /\ sweeping \in [Execution -> BOOLEAN]

Init ==
  /\ pc = [e \in Execution |-> "popen"]
  /\ state = [e \in Execution |-> "none"]
  /\ running = {}
  /\ target \in [Stopper -> Execution]
  /\ at = [s \in Stopper |-> "idle"]
  /\ process = [e \in Execution |-> "none"]
  /\ exit = [e \in Execution |-> "none"]
  /\ holders = [e \in Execution |-> FALSE]
  /\ sweeping \in [Execution -> BOOLEAN]

Goto(e, l) == pc' = [pc EXCEPT ![e] = l]
Move(s, l) == at' = [at EXCEPT ![s] = l]

\* waitpid has handed over the status: returncode is set.
Collect(e) ==
  /\ process[e] = "zombie"
  /\ process' = [process EXCEPT ![e] = "collected"]
  /\ UNCHANGED <<exit, holders>>

-----------------------------------------------------------------------------
(* execute. *)

\* A request that does not validate raises.  Popen starts the child, or fails
\* with an OSError: a result with state FAILED.
Start(e) ==
  /\ pc[e] = "popen"
  /\ \/ Goto(e, "rejected") /\ UNCHANGED <<state, process>>
     \/ /\ process' = [process EXCEPT ![e] = "running"]
        /\ Goto(e, "register") /\ UNCHANGED state
     \/ /\ state' = [state EXCEPT ![e] = "failed"]
        /\ Goto(e, "returned") /\ UNCHANGED process
  /\ UNCHANGED <<given, running, at, exit, holders>>

Register(e) ==
  /\ pc[e] = "register"
  /\ running' = running \cup {e}
  /\ Goto(e, "communicate")
  /\ UNCHANGED <<given, state, at, world>>

\* communicate: both pipes are at their end ...
ReadToEnd(e) ==
  /\ pc[e] = "communicate"
  /\ process[e] # "running" /\ ~holders[e]
  /\ Goto(e, "collect")
  /\ UNCHANGED <<given, state, running, at, world>>

\* Variant: a child that a stop has collected is waited for all the same.
CollectsItself(e) ==
  /\ pc[e] = "collect"
  /\ Collect(e)
  /\ Goto(e, "pop")
  /\ UNCHANGED <<given, state, running, at>>

\* ... and the child is collected, unless a stop has done it.
CommunicateReturns(e) ==
  /\ pc[e] = "collect"
  /\ \/ Collect(e)
     \/ process[e] = "collected" /\ UNCHANGED world
  /\ Goto(e, "pop")
  /\ UNCHANGED <<given, state, running, at>>

\* Variant: the state is the exit status itself.
ReturnsRaw(e) ==
  /\ pc[e] = "pop"
  /\ running' = running \ {e}
  /\ state' = [state EXCEPT ![e] = exit[e]]
  /\ Goto(e, "returned")
  /\ UNCHANGED <<given, at, world>>

\* Variant: the process stays in the registry.
ReturnsRegistered(e) ==
  /\ pc[e] = "pop"
  /\ state' = [state EXCEPT ![e] =
                 IF exit[e] = "zero" THEN "completed" ELSE "failed"]
  /\ Goto(e, "returned")
  /\ UNCHANGED <<given, running, at, world>>

Returns(e) ==
  /\ pc[e] = "pop"
  /\ running' = running \ {e}
  /\ state' = [state EXCEPT ![e] =
                 IF exit[e] = "zero" THEN "completed" ELSE "failed"]
  /\ Goto(e, "returned")
  /\ UNCHANGED <<given, at, world>>

Execute(e) == \/ Start(e) \/ Register(e) \/ ReadToEnd(e)
              \/ CommunicateReturns(e) \/ Returns(e)

-----------------------------------------------------------------------------
(* stop, and _terminate_process below it. *)

\* Variant: the process is looked up and left in the registry.
TakeByLookup(s) ==
  /\ at[s] = "idle"
  /\ Move(s, IF target[s] \in running THEN "terminate" ELSE "false")
  /\ UNCHANGED <<given, pc, state, running, world>>

\* _running.pop: one stop at most gets the process.
Take(s) ==
  /\ at[s] = "idle"
  /\ Move(s, IF target[s] \in running THEN "terminate" ELSE "false")
  /\ running' = running \ {target[s]}
  /\ UNCHANGED <<given, pc, state, world>>

\* terminate and kill look whether the child has ended, which collects it, and
\* signal it if not; an OSError of the signal is an answer of False.
Signal(s, from, next) ==
  /\ at[s] = from
  /\ \/ Collect(target[s]) /\ Move(s, next)
     \/ process[target[s]] = "collected" /\ Move(s, next) /\ UNCHANGED world
     \/ /\ process[target[s]] = "running"
        /\ \E l \in {next, "false"} : Move(s, l)
        /\ UNCHANGED world
  /\ UNCHANGED <<given, pc, state, running>>

Terminate(s) == Signal(s, "terminate", "wait")

\* Variant: the kill is not waited for.
KillOnly(s) == Signal(s, "kill", "true")

Kill(s) == Signal(s, "kill", "waitKilled")

\* wait(timeout=3): the child is collected, or has been, or the time is up.
Wait(s, from, late) ==
  /\ at[s] = from
  /\ \/ Collect(target[s]) /\ Move(s, "true")
     \/ process[target[s]] = "collected" /\ Move(s, "true") /\ UNCHANGED world
     \/ process[target[s]] = "running" /\ Move(s, late) /\ UNCHANGED world
  /\ UNCHANGED <<given, pc, state, running>>

\* Variant: the kill is waited for without a timeout.
WaitForEver(s) ==
  /\ at[s] = "waitKilled"
  /\ \/ Collect(target[s])
     \/ process[target[s]] = "collected" /\ UNCHANGED world
  /\ Move(s, "true")
  /\ UNCHANGED <<given, pc, state, running>>

\* The first TimeoutExpired leads to kill; the second, after a kill that has not
\* taken effect in time, is no OSError and leaves stop.
WaitTerminated(s) == Wait(s, "wait", "kill")
WaitKilled(s)     == Wait(s, "waitKilled", "raised")

Stop(s) == \/ Take(s) \/ Terminate(s) \/ WaitTerminated(s)
           \/ Kill(s) \/ WaitKilled(s)

-----------------------------------------------------------------------------
(* The child and what it starts. *)

\* The child ends by itself or by a signal, in its own time.  A PRoot with
\* --kill-on-exit takes its guest processes along.
Ends(e) ==
  /\ process[e] = "running"
  /\ process' = [process EXCEPT ![e] = "zombie"]
  /\ \E x \in {"zero", "nonzero"} : exit' = [exit EXCEPT ![e] = x]
  /\ holders' = [holders EXCEPT ![e] = @ /\ ~sweeping[e]]
  /\ UNCHANGED <<calls, given>>

Spawns(e) ==
  /\ process[e] = "running" /\ ~holders[e]
  /\ holders' = [holders EXCEPT ![e] = TRUE]
  /\ UNCHANGED <<calls, given, process, exit>>

HoldersEnd(e) ==
  /\ holders[e]
  /\ holders' = [holders EXCEPT ![e] = FALSE]
  /\ UNCHANGED <<calls, given, process, exit>>

Child(e) == Ends(e) \/ Spawns(e) \/ HoldersEnd(e)

Next == \/ \E e \in Execution : Execute(e) \/ Child(e)
        \/ \E s \in Stopper : Stop(s)

Spec == Init /\ [][Next]_vars

\* The threads of both operations run.  Nothing obliges a child or a descendant
\* to end.
FairSpec == /\ Spec
            /\ \A e \in Execution : WF_vars(Execute(e))
            /\ \A s \in Stopper : WF_vars(Stop(s))

-----------------------------------------------------------------------------
(* Properties. *)

\* A stop that answers True has ended the process, although the thread in
\* execute may collect it at any point of the sequence.
StopMeansGone == \A s \in Stopper :
  at[s] = "true" => process[target[s]] = "collected"

\* Once a stop has answered True and nobody else holds the pipes, the execute
\* it stopped returns: neither thread waits for the other.
StoppedExecuteReturns == \A s \in Stopper :
  at[s] = "true" /\ ~holders[target[s]] ~> pc[target[s]] = "returned"

\* Every stop answers or raises, whatever the process does.
EveryStopEnds == \A s \in Stopper : at[s] = "terminate" ~> at[s] \in Stopped

-----------------------------------------------------------------------------
(* Both operations implement BackendContract. *)

child == [e \in Execution |->
  IF process[e] \in {"zombie", "collected"} THEN exit[e] ELSE process[e]]

offer == [e \in Execution |->
  IF e \in running THEN "open"
  ELSE IF process[e] = "none" \/ pc[e] = "register" THEN "none" ELSE "closed"]

reply == [s \in Stopper |->
  IF at[s] = "idle" THEN "none" ELSE IF at[s] \in Stopping THEN "busy" ELSE at[s]]

result == [e \in Execution |-> IF pc[e] = "rejected" THEN "rejected" ELSE state[e]]

Contract == INSTANCE BackendContract

\* However the threads of execute and stop interleave, around one Popen object
\* and one registry: an execution is taken by one stop at most and by none before
\* it is registered or after it has returned, every call answers once, True and
\* COMPLETED are said of a child that is over, and a stop that was given a child
\* fails only while the child runs.
KeepsBackendContract == Contract!Spec
=============================================================================
