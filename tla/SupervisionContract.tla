------------------------ MODULE SupervisionContract ------------------------
(***************************************************************************)
(* What a caller of run_process may rely on, without descriptors, pipes or *)
(* signals: how far each call's program has come, whether its process      *)
(* group holds a live descendant, and the one answer the call gives.       *)
(***************************************************************************)
CONSTANT Run

VARIABLES
  prog,     \* how far the program of each call has come
  company,  \* whether its process group holds a live descendant
  answer    \* what the call has told its caller

vars == <<prog, company, answer>>

Prog   == {"absent", "starting", "executing", "aborted", "ended"}
Answer == {"pending", "refused", "spawnFailed", "succeeded", "finished",
           "timedOut", "lost"}

TypeOK == /\ prog    \in [Run -> Prog]
          /\ company \in [Run -> BOOLEAN]
          /\ answer  \in [Run -> Answer]

Init == /\ prog    = [r \in Run |-> "absent"]
        /\ company = [r \in Run |-> FALSE]
        /\ answer  = [r \in Run |-> "pending"]

\* Variant: a forced end vouches for the leader only.
JustifiedByLeader(r, a) ==
  /\ a = "refused"     => prog[r] = "absent"
  /\ a = "spawnFailed" => prog[r] = "aborted"
  /\ a = "succeeded"   => prog[r] = "ended"
  /\ a \in {"finished", "timedOut", "lost"} => prog[r] \in {"aborted", "ended"}

\* When an answer may be given: a call that refuses never has a process, a
\* spawn failure means the program never ran, success that it ran to its end,
\* and a call that forced the end leaves nobody in the group.
Justified(r, a) ==
  /\ a = "refused"     => prog[r] = "absent"
  /\ a = "spawnFailed" => prog[r] = "aborted"
  /\ a = "succeeded"   => prog[r] = "ended"
  /\ a \in {"finished", "timedOut", "lost"} => prog[r] \in {"aborted", "ended"}
  /\ a \in {"spawnFailed", "timedOut", "lost"} => ~company[r]

Launch(r) == /\ prog[r] = "absent" /\ answer[r] = "pending"
             /\ prog' = [prog EXCEPT ![r] = "starting"]
             /\ UNCHANGED <<company, answer>>

Execute(r) == /\ prog[r] = "starting"
              /\ prog' = [prog EXCEPT ![r] = "executing"]
              /\ UNCHANGED <<company, answer>>

\* The program's process ends; a forced end takes its group along.
End(r) == /\ prog[r] \in {"starting", "executing"}
          /\ prog' = [prog EXCEPT ![r] = IF @ = "starting" THEN "aborted"
                                                           ELSE "ended"]
          /\ company' \in {company, [company EXCEPT ![r] = FALSE]}
          /\ UNCHANGED answer

\* A descendant appears beside the program or another descendant, or the last
\* one goes.
Gather(r) == /\ company[r] \/ prog[r] = "executing"
             /\ company' = [company EXCEPT ![r] = ~@]
             /\ UNCHANGED <<prog, answer>>

Reply(r) == /\ answer[r] = "pending"
            /\ \E a \in Answer \ {"pending"} :
                 /\ Justified(r, a)
                 /\ answer' = [answer EXCEPT ![r] = a]
            /\ UNCHANGED <<prog, company>>

Next == \E r \in Run :
  Launch(r) \/ Execute(r) \/ End(r) \/ Gather(r) \/ Reply(r)

Spec == Init /\ [][Next]_vars
=============================================================================
