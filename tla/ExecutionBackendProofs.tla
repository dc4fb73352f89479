----------------------- MODULE ExecutionBackendProofs -----------------------
(***************************************************************************)
(* Proofs about ExecutionBackend for any number of executions and stops.   *)
(***************************************************************************)
EXTENDS ExecutionBackend, TLAPS

-----------------------------------------------------------------------------
(* The inductive invariant. *)

\* The registry holds an execution from its registration to its return.
RegistryInv == \A e \in running : pc[e] \in {"communicate", "collect", "pop"}

\* There is no child before Popen, and a result is made of a child that has been
\* collected.
ResultInv == \A e \in Execution :
  /\ pc[e] = "popen" => process[e] = "none"
  /\ pc[e] = "pop" => process[e] = "collected"
  /\ state[e] = "completed" => process[e] = "collected" /\ exit[e] = "zero"
  /\ pc[e] = "returned" =>
       /\ process[e] \in {"none", "collected"}
       /\ state[e] = IF process[e] = "collected" /\ exit[e] = "zero"
                     THEN "completed" ELSE "failed"

\* Whoever was given a process took it out of the registry, to which its
\* execution will not add it again.
TakenInv == \A s \in Stopper :
  at[s] \notin {"idle", "false"} =>
    /\ target[s] \notin running
    /\ pc[target[s]] \in {"communicate", "collect", "pop", "returned"}

\* A process is stopped once: of several stops for one execution, also one that
\* raised after it had forgotten the process, only one was given it.
StoppedOnce == \A s, t \in Stopper :
  s # t /\ target[s] = target[t] => at[s] \in {"idle", "false"}
                                    \/ at[t] \in {"idle", "false"}

IInv == TypeOK /\ RegistryInv /\ ResultInv /\ TakenInv
          /\ StopMeansGone /\ StoppedOnce

LEMMA Initially == Init => IInv
  BY DEF Init, IInv, TypeOK, RegistryInv, ResultInv, TakenInv, StopMeansGone,
         StoppedOnce, ExecutionState, Stopping, Stopped

\* What a child that has been collected was, it stays; and only Popen makes one.
Settled == \A e \in Execution :
  /\ process[e] = "collected" => process'[e] = "collected" /\ exit'[e] = exit[e]
  /\ process[e] = "none" /\ pc'[e] \in {"popen", "returned"} =>
       process'[e] = "none"

-----------------------------------------------------------------------------
(* Steps of execute, of stop and of the children. *)

LEMMA ExecuteTypes ==
  ASSUME TypeOK, NEW e \in Execution, Execute(e)
  PROVE  TypeOK'
  BY DEF TypeOK, Execute, Start, Register, ReadToEnd, CommunicateReturns,
         Returns, Collect, Goto, given, world, ExecutionState

LEMMA ExecuteKeeps ==
  ASSUME IInv, NEW e \in Execution, Execute(e)
  PROVE  IInv'
<1>1. TypeOK /\ TypeOK'
  BY ExecuteTypes DEF IInv
<1> DEFINE Typed == /\ pc \in [Execution -> {"popen", "register", "communicate",
                               "collect", "pop", "returned", "rejected"}]
                   /\ state \in [Execution -> ExecutionState]
                   /\ process \in [Execution -> {"none", "running", "zombie",
                                                 "collected"}]
                   /\ exit \in [Execution -> {"none", "zero", "nonzero"}]
<1>2. Typed
  BY <1>1 DEF TypeOK
<1>3. at' = at /\ target' = target
  BY DEF Execute, Start, Register, ReadToEnd, CommunicateReturns, Returns, given
<1>4. Settled
  BY <1>2 DEF IInv, ResultInv, Execute, Start, Register, ReadToEnd,
         CommunicateReturns, Returns, Collect, Goto, world, Settled
<1>5. RegistryInv'
  BY <1>1 DEF IInv, RegistryInv, TypeOK, Execute, Start, Register, ReadToEnd,
         CommunicateReturns, Returns, Goto, given
<1>6. ResultInv'
  <2>1. \A f \in Execution \ {e} : pc'[f] = pc[f] /\ state'[f] = state[f]
    BY <1>2 DEF Execute, Start, Register, ReadToEnd,
           CommunicateReturns, Returns, Goto
  <2>2. pc'[e] # "popen" /\ (pc'[e] = "pop" => process'[e] = "collected")
    BY <1>2 DEF Execute, Start, Register, ReadToEnd,
           CommunicateReturns, Returns, Collect, Goto, world
  <2>3. state'[e] = "completed" =>
          state[e] = "completed" \/ (pc[e] = "pop" /\ exit[e] = "zero")
    BY <1>2 DEF Execute, Start, Register, ReadToEnd,
           CommunicateReturns, Returns
  <2>4. pc'[e] = "returned" =>
          /\ process'[e] \in {"none", "collected"}
          /\ state'[e] = IF process'[e] = "collected" /\ exit'[e] = "zero"
                         THEN "completed" ELSE "failed"
    BY <1>2 DEF IInv, ResultInv, Execute, Start, Register, ReadToEnd,
           CommunicateReturns, Returns, Collect, Goto, world
  <2>5. QED
    BY <1>3, <1>4, <2>1, <2>2, <2>3, <2>4 DEF IInv, ResultInv, Settled
<1>7. TakenInv'
  BY <1>1 DEF IInv, TakenInv, TypeOK, Execute, Start, Register, ReadToEnd,
         CommunicateReturns, Returns, Goto, given
<1>8. StopMeansGone' /\ StoppedOnce'
  BY <1>1, <1>3, <1>4 DEF IInv, TypeOK, StopMeansGone, StoppedOnce, Settled
<1>9. QED
  BY <1>1, <1>5, <1>6, <1>7, <1>8 DEF IInv

LEMMA StopTypes ==
  ASSUME TypeOK, NEW s \in Stopper, Stop(s)
  PROVE  TypeOK'
  BY DEF TypeOK, Stop, Take, Terminate, Kill, Signal, WaitTerminated,
         WaitKilled, Wait, Collect, Move, given, world, Stopping, Stopped

LEMMA StopKeeps ==
  ASSUME IInv, NEW s \in Stopper, Stop(s)
  PROVE  IInv'
<1>1. TypeOK /\ TypeOK'
  BY StopTypes DEF IInv
<1>2. /\ pc' = pc /\ state' = state /\ target' = target
      /\ \A t \in Stopper \ {s} : at'[t] = at[t]
      /\ running' \subseteq running
      /\ Settled
  BY <1>1 DEF TypeOK, Stop, Take, Terminate, Kill, Signal, WaitTerminated,
         WaitKilled, Wait, Collect, Move, given, world, Settled
<1>3. RegistryInv' /\ ResultInv'
  BY <1>1, <1>2 DEF IInv, TypeOK, RegistryInv, ResultInv, Settled
<1>4. at'[s] = "true" => process'[target[s]] = "collected"
  BY <1>1 DEF IInv, TypeOK, Stop, Take, Terminate, Kill, Signal,
         WaitTerminated, WaitKilled, Wait, Collect, Move, given, world
<1>5. StopMeansGone'
  BY <1>1, <1>2, <1>4 DEF IInv, TypeOK, StopMeansGone, Settled
<1>6. CASE Take(s)
  <2>1. at'[s] # "false" => target[s] \in running /\ target[s] \notin running'
    BY <1>1, <1>6 DEF TypeOK, Take, Move
  <2>2. TakenInv'
    BY <1>1, <1>2, <2>1 DEF IInv, TypeOK, RegistryInv, TakenInv
  <2>3. StoppedOnce'
    BY <1>1, <1>2, <2>1 DEF IInv, TypeOK, TakenInv, StoppedOnce
  <2>4. QED
    BY <1>1, <1>3, <1>5, <2>2, <2>3 DEF IInv
<1>7. CASE ~Take(s)
  <2>1. at[s] \notin {"idle", "false"} /\ running' = running
    BY <1>7 DEF Stop, Terminate, Kill, Signal, WaitTerminated, WaitKilled, Wait
  <2>2. TakenInv' /\ StoppedOnce'
    BY <1>1, <1>2, <2>1 DEF IInv, TypeOK, TakenInv, StoppedOnce
  <2>3. QED
    BY <1>1, <1>3, <1>5, <2>2 DEF IInv
<1>8. QED
  BY <1>6, <1>7

LEMMA ChildKeeps ==
  ASSUME IInv, NEW e \in Execution, Child(e)
  PROVE  IInv'
<1>1. TypeOK'
  <2>1. /\ process' \in [Execution -> {"none", "running", "zombie", "collected"}]
        /\ exit' \in [Execution -> {"none", "zero", "nonzero"}]
    BY DEF IInv, TypeOK, Child, Ends, Spawns, HoldersEnd
  <2>2. holders' \in [Execution -> BOOLEAN]
    <3>1. \E b \in BOOLEAN : holders' = [holders EXCEPT ![e] = b]
      BY DEF IInv, TypeOK, Child, Ends, Spawns, HoldersEnd
    <3>2. QED
      BY <3>1 DEF IInv, TypeOK
  <2>3. UNCHANGED <<calls, given>>
    BY DEF Child, Ends, Spawns, HoldersEnd
  <2>4. QED
    BY <2>1, <2>2, <2>3 DEF IInv, TypeOK, calls, given
<1>2. UNCHANGED <<calls, given>> /\ Settled
  BY DEF IInv, TypeOK, Child, Ends, Spawns, HoldersEnd, Settled, calls, given
<1>3. QED
  BY <1>1, <1>2 DEF IInv, TypeOK, RegistryInv, ResultInv, TakenInv,
         StopMeansGone, StoppedOnce, Settled, calls, given

THEOREM Inductive == Spec => []IInv
<1>1. IInv /\ [Next]_vars => IInv'
  <2> SUFFICES ASSUME IInv, [Next]_vars PROVE IInv'
    OBVIOUS
  <2>1. CASE Next
    BY <2>1, ExecuteKeeps, StopKeeps, ChildKeeps DEF Next
  <2>2. CASE UNCHANGED vars
    BY <2>2 DEF IInv, TypeOK, RegistryInv, ResultInv, TakenInv, StopMeansGone,
           StoppedOnce, vars, calls, given, world
  <2>3. QED
    BY <2>1, <2>2
<1>2. QED
  BY <1>1, Initially, PTL DEF Spec

-----------------------------------------------------------------------------
(* What follows. *)

\* The state stays within its types.
THEOREM TypeCorrect == Spec => []TypeOK
<1>1. IInv => TypeOK
  BY DEF IInv
<1>2. QED
  BY <1>1, Inductive, PTL

\* A stop that answers True (`return True` of _terminate_process) has ended the
\* process, however many other threads collect or stop it.
THEOREM TrueMeansGone == Spec => []StopMeansGone
<1>1. IInv => StopMeansGone
  BY DEF IInv
<1>2. QED
  BY <1>1, Inductive, PTL

\* Of any number of stops for one execution, one at most is given the process
\* by `_running.pop`.
THEOREM TakenOnce == Spec => []StoppedOnce
<1>1. IInv => StoppedOnce
  BY DEF IInv
<1>2. QED
  BY <1>1, Inductive, PTL

\* The registry holds nothing of an execution that has returned; its child, where
\* Popen made one, has been collected, whoever did it; and the result says
\* COMPLETED exactly of a child that ended with exit code 0.  (A communicate that
\* fails, which the code's `except OSError` would turn into FAILED with the child
\* left running, is not modelled.)
ReturnsClean == \A e \in Execution :
  pc[e] = "returned" =>
    /\ e \notin running
    /\ process[e] \in {"none", "collected"}
    /\ state[e] = IF process[e] = "collected" /\ exit[e] = "zero"
                  THEN "completed" ELSE "failed"

\* No execute returns with its process still registered, running or a zombie, or
\* with a state that is not that of the child's exit code.
THEOREM ReturnIsClean == Spec => []ReturnsClean
<1>1. IInv => ReturnsClean
  BY DEF IInv, RegistryInv, ResultInv, ReturnsClean
<1>2. QED
  BY <1>1, Inductive, PTL

-----------------------------------------------------------------------------
(* Both operations implement BackendContract. *)

\* What the contract sees of one execution and of one stop.
ChildOf(e)  == IF process[e] \in {"zombie", "collected"} THEN exit[e] ELSE process[e]
OfferOf(e)  == IF e \in running THEN "open"
               ELSE IF process[e] = "none" \/ pc[e] = "register" THEN "none"
               ELSE "closed"
ReplyOf(s)  == IF at[s] = "idle" THEN "none"
               ELSE IF at[s] \in Stopping THEN "busy" ELSE at[s]
ResultOf(e) == IF pc[e] = "rejected" THEN "rejected" ELSE state[e]

\* A child that is over has a status, an execute past Popen has a child, and one
\* that has not returned has no result.
CallInv == \A e \in Execution :
  /\ process[e] \in {"zombie", "collected"} => exit[e] \in {"zero", "nonzero"}
  /\ pc[e] \in {"register", "communicate", "collect", "pop"} => process[e] # "none"
  /\ pc[e] # "returned" => state[e] = "none"

\* A step of one execution or of its child leaves the others alone.
Apart(e) == \A f \in Execution \ {e} :
  /\ pc'[f] = pc[f] /\ state'[f] = state[f] /\ process'[f] = process[f]
  /\ exit'[f] = exit[f] /\ (f \in running' <=> f \in running)

LEMMA CallInitially == Init => CallInv
  BY DEF Init, CallInv

LEMMA ExecuteApart ==
  ASSUME TypeOK, NEW e \in Execution, Execute(e)
  PROVE  Apart(e) /\ at' = at /\ target' = target
  BY DEF TypeOK, Execute, Start, Register, ReadToEnd, CommunicateReturns,
         Returns, Collect, Goto, given, world, Apart

LEMMA ChildApart ==
  ASSUME TypeOK, NEW e \in Execution, Child(e)
  PROVE  Apart(e) /\ UNCHANGED <<calls, given>>
  BY DEF TypeOK, Child, Ends, Spawns, HoldersEnd, calls, given, Apart

LEMMA StopApart ==
  ASSUME TypeOK, NEW s \in Stopper, Stop(s)
  PROVE  /\ pc' = pc /\ state' = state /\ exit' = exit /\ target' = target
         /\ \A e \in Execution :
              \/ process'[e] = process[e]
              \/ process[e] = "zombie" /\ process'[e] = "collected"
         /\ \A t \in Stopper \ {s} : at'[t] = at[t]
  BY DEF TypeOK, Stop, Take, Terminate, Kill, Signal, WaitTerminated,
         WaitKilled, Wait, Collect, Move, given, world

LEMMA CallKept ==
  ASSUME IInv, CallInv, [Next]_vars
  PROVE  CallInv'
<1>1. TypeOK
  BY DEF IInv
<1>2. ASSUME NEW e \in Execution, Execute(e) PROVE CallInv'
  <2>1. Apart(e)
    BY <1>1, <1>2, ExecuteApart
  <2>2. /\ process'[e] \in {"zombie", "collected"} => exit'[e] \in {"zero", "nonzero"}
        /\ pc'[e] \in {"register", "communicate", "collect", "pop"}
             => process'[e] # "none"
        /\ pc'[e] # "returned" => state'[e] = "none"
    BY <1>1, <1>2 DEF TypeOK, CallInv, Execute, Start, Register, ReadToEnd,
       CommunicateReturns, Returns, Collect, Goto, world
  <2>3. QED
    BY <2>1, <2>2 DEF CallInv, Apart
<1>3. ASSUME NEW e \in Execution, Child(e) PROVE CallInv'
  <2>1. Apart(e) /\ pc' = pc /\ state' = state
    BY <1>1, <1>3, ChildApart DEF calls
  <2>2. /\ process'[e] \in {"zombie", "collected"} => exit'[e] \in {"zero", "nonzero"}
        /\ process[e] # "none" => process'[e] # "none"
    BY <1>1, <1>3 DEF TypeOK, CallInv, Child, Ends, Spawns, HoldersEnd
  <2>3. QED
    BY <2>1, <2>2 DEF CallInv, Apart
<1>4. ASSUME NEW s \in Stopper, Stop(s) PROVE CallInv'
  BY <1>1, <1>4, StopApart DEF CallInv
<1>5. CASE UNCHANGED vars
  BY <1>5 DEF CallInv, vars, calls, given, world
<1>6. QED
  BY <1>2, <1>3, <1>4, <1>5 DEF Next

LEMMA Shadows ==
  ASSUME NEW e \in Execution, Apart(e)
  PROVE  /\ child[e] = ChildOf(e) /\ offer[e] = OfferOf(e) /\ result[e] = ResultOf(e)
         /\ child' = [child EXCEPT ![e] = ChildOf(e)']
         /\ offer' = [offer EXCEPT ![e] = OfferOf(e)']
         /\ result' = [result EXCEPT ![e] = ResultOf(e)']
         /\ child = [child EXCEPT ![e] = child[e]]
         /\ offer = [offer EXCEPT ![e] = offer[e]]
         /\ result = [result EXCEPT ![e] = result[e]]
<1>1. \A f \in Execution \ {e} :
        ChildOf(f)' = ChildOf(f) /\ OfferOf(f)' = OfferOf(f) /\ ResultOf(f)' = ResultOf(f)
  BY DEF Apart, ChildOf, OfferOf, ResultOf
<1>2. /\ child = [f \in Execution |-> ChildOf(f)]
      /\ offer = [f \in Execution |-> OfferOf(f)]
      /\ result = [f \in Execution |-> ResultOf(f)]
  BY DEF child, offer, result, ChildOf, OfferOf, ResultOf
<1>3. /\ child' = [f \in Execution |-> ChildOf(f)']
      /\ offer' = [f \in Execution |-> OfferOf(f)']
      /\ result' = [f \in Execution |-> ResultOf(f)']
  BY DEF child, offer, result, ChildOf, OfferOf, ResultOf
<1>4. QED
  BY <1>1, <1>2, <1>3

LEMMA ReplyShadow ==
  ASSUME NEW s \in Stopper, \A t \in Stopper \ {s} : at'[t] = at[t]
  PROVE  reply[s] = ReplyOf(s) /\ reply' = [reply EXCEPT ![s] = ReplyOf(s)']
<1>1. \A t \in Stopper \ {s} : ReplyOf(t)' = ReplyOf(t)
  BY DEF ReplyOf
<1>2. QED
  BY <1>1 DEF reply, ReplyOf

LEMMA ExecuteSeen ==
  ASSUME IInv, CallInv, NEW e \in Execution, Execute(e)
  PROVE  [Contract!Next]_(Contract!vars)
<1>1. TypeOK /\ Apart(e) /\ at' = at /\ target' = target
  BY ExecuteApart DEF IInv
<1>2. reply' = reply
  BY <1>1 DEF reply
<1>3. CASE Start(e)
  <2>1. /\ pc[e] = "popen" /\ process[e] = "none" /\ state[e] = "none"
        /\ e \notin running /\ running' = running
    BY <1>3 DEF IInv, RegistryInv, ResultInv, CallInv, Start
  <2>2. ChildOf(e) = "none" /\ OfferOf(e) = "none" /\ ResultOf(e) = "none"
    BY <2>1 DEF ChildOf, OfferOf, ResultOf
  <2>3. CASE Goto(e, "rejected") /\ UNCHANGED <<state, process>>
    <3>1. pc'[e] = "rejected"
      BY <1>1, <2>3 DEF TypeOK, Goto
    <3>2. /\ ChildOf(e)' = "none" /\ OfferOf(e)' = "none"
          /\ ResultOf(e)' = "rejected"
      BY <2>1, <2>3, <3>1 DEF ChildOf, OfferOf, ResultOf
    <3>3. Contract!Refuse(e)
      BY <1>1, <1>2, <2>2, <3>2, Shadows DEF Contract!Refuse, Contract!Answer
    <3>4. QED
      BY <3>3 DEF Contract!Next
  <2>4. CASE /\ process' = [process EXCEPT ![e] = "running"]
             /\ Goto(e, "register") /\ UNCHANGED state
    <3>1. pc'[e] = "register" /\ process'[e] = "running" /\ state'[e] = "none"
      BY <1>1, <2>1, <2>4 DEF TypeOK, Goto
    <3>2. /\ ChildOf(e)' = "running" /\ OfferOf(e)' = "none"
          /\ ResultOf(e)' = "none"
      BY <2>1, <3>1 DEF ChildOf, OfferOf, ResultOf
    <3>3. Contract!Launch(e)
      BY <1>1, <1>2, <2>2, <3>2, Shadows DEF Contract!Launch
    <3>4. QED
      BY <3>3 DEF Contract!Next
  <2>5. CASE /\ state' = [state EXCEPT ![e] = "failed"]
             /\ Goto(e, "returned") /\ UNCHANGED process
    <3>1. pc'[e] = "returned" /\ process'[e] = "none" /\ state'[e] = "failed"
      BY <1>1, <2>1, <2>5 DEF TypeOK, Goto
    <3>2. /\ ChildOf(e)' = "none" /\ OfferOf(e)' = "none"
          /\ ResultOf(e)' = "failed"
      BY <2>1, <3>1 DEF ChildOf, OfferOf, ResultOf
    <3>3. Contract!Refuse(e)
      BY <1>1, <1>2, <2>2, <3>2, Shadows DEF Contract!Refuse, Contract!Answer
    <3>4. QED
      BY <3>3 DEF Contract!Next
  <2>6. QED
    BY <1>3, <2>3, <2>4, <2>5 DEF Start
<1>4. CASE Register(e)
  <2>1. /\ pc[e] = "register" /\ pc'[e] = "communicate" /\ process[e] # "none"
        /\ state[e] = "none" /\ e \notin running /\ e \in running'
        /\ UNCHANGED <<state, process, exit>>
    BY <1>1, <1>4 DEF IInv, TypeOK, RegistryInv, CallInv, Register, Goto, world
  <2>2. /\ ChildOf(e)' = ChildOf(e) /\ ChildOf(e) # "none"
        /\ OfferOf(e) = "none" /\ OfferOf(e)' = "open"
        /\ ResultOf(e) = "none" /\ ResultOf(e)' = "none"
    BY <2>1 DEF ChildOf, OfferOf, ResultOf, CallInv
  <2>3. Contract!Offer(e)
    BY <1>1, <1>2, <2>2, Shadows DEF Contract!Offer
  <2>4. QED
    BY <2>3 DEF Contract!Next
<1>5. CASE ReadToEnd(e) \/ CommunicateReturns(e)
  <2>1. /\ pc[e] \in {"communicate", "collect"} /\ pc'[e] \in {"collect", "pop"}
        /\ UNCHANGED <<state, running, exit>>
        /\ \/ process'[e] = process[e]
           \/ process[e] = "zombie" /\ process'[e] = "collected"
    BY <1>1, <1>5 DEF TypeOK, ReadToEnd, CommunicateReturns, Collect, Goto, world
  <2>2. /\ ChildOf(e)' = ChildOf(e) /\ OfferOf(e)' = OfferOf(e)
        /\ ResultOf(e)' = ResultOf(e)
    BY <2>1 DEF ChildOf, OfferOf, ResultOf
  <2>3. UNCHANGED Contract!vars
    BY <1>1, <1>2, <2>2, Shadows DEF Contract!vars
  <2>4. QED
    BY <2>3
<1>6. CASE Returns(e)
  <2>1. /\ pc[e] = "pop" /\ pc'[e] = "returned" /\ state[e] = "none"
        /\ process[e] = "collected" /\ exit[e] \in {"zero", "nonzero"}
        /\ e \notin running' /\ UNCHANGED <<process, exit>>
        /\ state'[e] = IF exit[e] = "zero" THEN "completed" ELSE "failed"
    BY <1>1, <1>6 DEF IInv, TypeOK, ResultInv, CallInv, Returns, Goto, world
  <2>2. /\ ChildOf(e) = exit[e] /\ ChildOf(e)' = ChildOf(e)
        /\ OfferOf(e) # "none" /\ OfferOf(e)' = "closed"
        /\ ResultOf(e) = "none"
        /\ ResultOf(e)' = IF exit[e] = "zero" THEN "completed" ELSE "failed"
    BY <2>1 DEF ChildOf, OfferOf, ResultOf
  <2>3. Contract!Return(e)
    BY <1>1, <1>2, <2>1, <2>2, Shadows
    DEF Contract!Return, Contract!Answer, Contract!Over
  <2>4. QED
    BY <2>3 DEF Contract!Next
<1>7. QED
  BY <1>3, <1>4, <1>5, <1>6 DEF Execute

LEMMA ChildSeen ==
  ASSUME IInv, CallInv, NEW e \in Execution, Child(e)
  PROVE  [Contract!Next]_(Contract!vars)
<1>1. TypeOK /\ Apart(e) /\ UNCHANGED <<pc, state, running, at, target>>
  BY ChildApart DEF IInv, calls, given
<1>2. reply' = reply /\ ResultOf(e)' = ResultOf(e)
  BY <1>1 DEF reply, ResultOf
<1>3. CASE Ends(e)
  <2>1. /\ process[e] = "running" /\ process'[e] = "zombie"
        /\ exit'[e] \in {"zero", "nonzero"}
    BY <1>1, <1>3 DEF TypeOK, Ends
  <2>2. /\ ChildOf(e) = "running" /\ ChildOf(e)' \in {"zero", "nonzero"}
        /\ OfferOf(e)' = OfferOf(e)
    BY <1>1, <2>1 DEF ChildOf, OfferOf
  <2>3. Contract!End(e)
    BY <1>1, <1>2, <2>2, Shadows DEF Contract!End, Contract!Over
  <2>4. QED
    BY <2>3 DEF Contract!Next
<1>4. CASE Spawns(e) \/ HoldersEnd(e)
  <2>1. process' = process /\ exit' = exit
    BY <1>4 DEF Spawns, HoldersEnd
  <2>2. ChildOf(e)' = ChildOf(e) /\ OfferOf(e)' = OfferOf(e)
    BY <1>1, <2>1 DEF ChildOf, OfferOf
  <2>3. UNCHANGED Contract!vars
    BY <1>1, <1>2, <2>2, Shadows DEF Contract!vars
  <2>4. QED
    BY <2>3
<1>5. QED
  BY <1>3, <1>4 DEF Child

LEMMA StopSeen ==
  ASSUME IInv, CallInv, NEW s \in Stopper, Stop(s)
  PROVE  [Contract!Next]_(Contract!vars)
<1> DEFINE e == target[s]
<1>1. TypeOK /\ e \in Execution
  BY DEF IInv, TypeOK
<1>2. /\ pc' = pc /\ state' = state /\ target' = target
      /\ child' = child /\ result' = result
  BY <1>1, StopApart DEF child, result
<1>3. reply[s] = ReplyOf(s) /\ reply' = [reply EXCEPT ![s] = ReplyOf(s)']
  BY <1>1, StopApart, ReplyShadow
<1>4. CASE Take(s)
  <2>1. /\ at[s] = "idle"
        /\ at'[s] = IF e \in running THEN "terminate" ELSE "false"
        /\ running' = running \ {e} /\ process' = process
    BY <1>1, <1>4 DEF TypeOK, Take, Move, world
  <2>2. Apart(e) /\ offer[e] = OfferOf(e)
    BY <1>2, <1>1, <2>1, StopApart DEF Apart, offer, OfferOf
  <2>3. CASE e \in running
    <3>1. process[e] # "none" /\ pc[e] # "register"
      BY <1>1, <2>3 DEF IInv, RegistryInv, CallInv
    <3>2. OfferOf(e) = "open" /\ OfferOf(e)' = "closed"
      BY <1>2, <2>1, <2>3, <3>1 DEF OfferOf
    <3>3. ReplyOf(s) = "none" /\ ReplyOf(s)' = "busy"
      BY <2>1, <2>3 DEF ReplyOf, Stopping
    <3>4. Contract!Take(s)
      BY <1>1, <1>2, <1>3, <2>2, <3>2, <3>3, Shadows
      DEF Contract!Take, Contract!Reply
    <3>5. QED
      BY <3>4 DEF Contract!Next
  <2>4. CASE e \notin running
    <3>1. OfferOf(e) # "open" /\ OfferOf(e)' = OfferOf(e)
      BY <1>2, <2>1, <2>4 DEF OfferOf
    <3>2. ReplyOf(s) = "none" /\ ReplyOf(s)' = "false"
      BY <2>1, <2>4 DEF ReplyOf, Stopping
    <3>3. Contract!Miss(s)
      BY <1>1, <1>2, <1>3, <2>2, <3>1, <3>2, Shadows
      DEF Contract!Miss, Contract!Reply
    <3>4. QED
      BY <3>3 DEF Contract!Next
  <2>5. QED
    BY <2>3, <2>4
<1>5. CASE Terminate(s) \/ WaitTerminated(s) \/ Kill(s) \/ WaitKilled(s)
  <2>1. running' = running /\ at[s] \in Stopping
    BY <1>5 DEF Terminate, Kill, Signal, WaitTerminated, WaitKilled, Wait, Stopping
  <2>2. offer' = offer
    <3>1. \A f \in Execution : process'[f] = "none" <=> process[f] = "none"
      BY <1>1, StopApart
    <3>2. QED
      BY <1>2, <2>1, <3>1 DEF offer
  <2>3. \/ at'[s] \in Stopping
        \/ at'[s] = "true" /\ process'[e] = "collected"
        \/ at'[s] \in {"false", "raised"} /\ process[e] = "running"
    BY <1>1, <1>5 DEF TypeOK, Terminate, Kill, Signal, WaitTerminated,
       WaitKilled, Wait, Collect, Move, world, Stopping
  <2>4. ReplyOf(s) = "busy"
    BY <2>1 DEF ReplyOf, Stopping
  <2>5. CASE at'[s] \in Stopping
    <3>1. ReplyOf(s)' = "busy"
      BY <2>5 DEF ReplyOf, Stopping
    <3>2. reply' = reply
      BY <1>3, <2>4, <3>1 DEF reply
    <3>3. QED
      BY <1>2, <2>2, <3>2 DEF Contract!vars
  <2>6. CASE at'[s] = "true" /\ process'[e] = "collected"
    <3>1. ReplyOf(s)' = "true"
      BY <2>6 DEF ReplyOf, Stopping
    <3>2. child[e] \in {"zero", "nonzero"}
      BY <1>1, <2>6, StopApart DEF child, CallInv
    <3>3. Contract!Succeed(s)
      BY <1>2, <1>3, <2>2, <2>4, <3>1, <3>2
      DEF Contract!Succeed, Contract!Reply, Contract!Over
    <3>4. QED
      BY <3>3 DEF Contract!Next
  <2>7. CASE at'[s] \in {"false", "raised"} /\ process[e] = "running"
    <3>1. ReplyOf(s)' = at'[s]
      BY <2>7 DEF ReplyOf, Stopping
    <3>2. child[e] = "running"
      BY <1>1, <2>7 DEF child
    <3>3. Contract!GiveUp(s)
      BY <1>2, <1>3, <2>2, <2>4, <2>7, <3>1, <3>2
      DEF Contract!GiveUp, Contract!Reply
    <3>4. QED
      BY <3>3 DEF Contract!Next
  <2>8. QED
    BY <2>3, <2>5, <2>6, <2>7
<1>6. QED
  BY <1>4, <1>5 DEF Stop

\* Any number of executions and stops implement BackendContract: every step of a
\* thread or of a child is a step of the contract or invisible to it.
THEOREM BackendIsKept == Spec => KeepsBackendContract
<1>1. Init => Contract!Init
  <2> SUFFICES ASSUME Init PROVE Contract!Init
    OBVIOUS
  <2>1. /\ child = [e \in Execution |-> "none"] /\ offer = [e \in Execution |-> "none"]
        /\ reply = [s \in Stopper |-> "none"] /\ result = [e \in Execution |-> "none"]
    BY DEF Init, child, offer, reply, result
  <2>2. QED
    BY <2>1 DEF Init, Contract!Init
<1>2. IInv /\ CallInv /\ [Next]_vars => [Contract!Next]_(Contract!vars)
  <2> SUFFICES ASSUME IInv, CallInv, [Next]_vars
               PROVE  [Contract!Next]_(Contract!vars)
    OBVIOUS
  <2>1. CASE UNCHANGED vars
    BY <2>1 DEF vars, calls, given, world, Contract!vars, child, offer, reply, result
  <2>2. QED
    BY <2>1, ExecuteSeen, ChildSeen, StopSeen DEF Next
<1>3. IInv /\ CallInv /\ [Next]_vars => CallInv'
  BY CallKept
<1>4. QED
  BY <1>1, <1>2, <1>3, CallInitially, Inductive, PTL
     DEF Spec, KeepsBackendContract, Contract!Spec
=============================================================================
