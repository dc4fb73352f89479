---------------------------- MODULE BackendContract ----------------------------
(***************************************************************************)
(* What callers of execute and stop may rely on, without pipes, signals or *)
(* waits: an execution is offered to stops while it runs, one of them at   *)
(* most takes it, and each call answers once, of a child that is over.     *)
(***************************************************************************)
CONSTANTS
  Execution,  \* calls of execute
  Stopper     \* calls of stop

VARIABLES
  target,  \* the execution each stop was given
  child,   \* how far the child of each execution has come
  offer,   \* whether a stop may take it: not yet, now, or no longer
  reply,   \* what each stop has answered
  result   \* what each execute has answered

vars == <<target, child, offer, reply, result>>

Over == {"zero", "nonzero"}

Init == /\ target \in [Stopper -> Execution]
        /\ child  = [e \in Execution |-> "none"]
        /\ offer  = [e \in Execution |-> "none"]
        /\ reply  = [s \in Stopper |-> "none"]
        /\ result = [e \in Execution |-> "none"]

Answer(e, r) == /\ result[e] = "none"
                /\ result' = [result EXCEPT ![e] = r]

Reply(s, from, to) == /\ reply[s] = from
                      /\ reply' = [reply EXCEPT ![s] = to]
                      /\ UNCHANGED <<target, child, result>>

Launch(e) == /\ child[e] = "none" /\ result[e] = "none"
             /\ child' = [child EXCEPT ![e] = "running"]
             /\ UNCHANGED <<target, offer, reply, result>>

\* Nothing was launched.
Refuse(e) == /\ child[e] = "none"
             /\ Answer(e, "rejected") \/ Answer(e, "failed")
             /\ UNCHANGED <<target, child, offer, reply>>

\* Once.
Offer(e) == /\ child[e] # "none" /\ result[e] = "none" /\ offer[e] = "none"
            /\ offer' = [offer EXCEPT ![e] = "open"]
            /\ UNCHANGED <<target, child, reply, result>>

End(e) == /\ child[e] = "running"
          /\ \E x \in Over : child' = [child EXCEPT ![e] = x]
          /\ UNCHANGED <<target, offer, reply, result>>

\* The result is of a child that is over, and the execution is offered no longer.
Return(e) == /\ child[e] \in Over /\ offer[e] # "none"
             /\ Answer(e, IF child[e] = "zero" THEN "completed" ELSE "failed")
             /\ offer' = [offer EXCEPT ![e] = "closed"]
             /\ UNCHANGED <<target, child, reply>>

\* To one stop at most.
Take(s) == /\ offer[target[s]] = "open"
           /\ offer' = [offer EXCEPT ![target[s]] = "closed"]
           /\ Reply(s, "none", "busy")

Miss(s) == /\ offer[target[s]] # "open"
           /\ Reply(s, "none", "false")
           /\ UNCHANGED offer

Succeed(s) == /\ child[target[s]] \in Over
              /\ Reply(s, "busy", "true")
              /\ UNCHANGED offer

\* Only a child that still runs is given up.
GiveUp(s) == /\ child[target[s]] = "running"
             /\ Reply(s, "busy", "false") \/ Reply(s, "busy", "raised")
             /\ UNCHANGED offer

Next == \/ \E e \in Execution :
             Launch(e) \/ Refuse(e) \/ Offer(e) \/ End(e) \/ Return(e)
        \/ \E s \in Stopper : Take(s) \/ Miss(s) \/ Succeed(s) \/ GiveUp(s)

Spec == Init /\ [][Next]_vars
=============================================================================
