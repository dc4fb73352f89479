-------------------------- MODULE HandshakeContract --------------------------
(***************************************************************************)
(* What ETumax may rely on when it invokes the bridge, without timeouts,   *)
(* processes or envelopes: each handshake is answered at most once, is     *)
(* completed only if the guest of that very handshake ended clean, and a   *)
(* first activation is found only while there is no marker.                *)
(***************************************************************************)
CONSTANT Handshake

VARIABLES
  answer,  \* what the caller of each handshake has been told
  after,   \* the handshakes that had completed when it began
  work,    \* how far its guest has come
  found,   \* what its guest has found of the marker
  mark     \* the marker is there

vars == <<answer, after, work, found, mark>>

Answer == {"unasked", "asked", "completed", "failed", "silent"}
Work   == {"absent", "busy", "clean", "unclean"}

Init == /\ answer = [h \in Handshake |-> "unasked"]
        /\ after  = [h \in Handshake |-> {}]
        /\ work   = [h \in Handshake |-> "absent"]
        /\ found  = [h \in Handshake |-> "no"]
        /\ mark   = FALSE

Say(h, a) == answer' = [answer EXCEPT ![h] = a]

Ask(h) == /\ answer[h] = "unasked" /\ Say(h, "asked")
          /\ after' = [after EXCEPT ![h] =
                         {g \in Handshake : answer[g] = "completed"}]
          /\ UNCHANGED <<work, found, mark>>

\* A guest begins, or cannot.  It may do so when the caller has been left alone
\* already.
Begin(h) == /\ answer[h] # "unasked" /\ work[h] = "absent"
            /\ \E w \in {"busy", "unclean"} : work' = [work EXCEPT ![h] = w]
            /\ UNCHANGED <<answer, after, found, mark>>

Look(h) == /\ work[h] = "busy" /\ found[h] = "no"
           /\ found' = [found EXCEPT ![h] =
                          IF mark THEN "persistent" ELSE "first_activation"]
           /\ UNCHANGED <<answer, after, work, mark>>

\* The marker is left and the guest says so, or the guest fails to leave it, and may
\* have left it all the same.  It never goes.
Leave(h) == /\ work[h] = "busy" /\ found[h] # "no"
            /\ \/ mark' = TRUE /\ UNCHANGED found
               \/ /\ found' = [found EXCEPT ![h] = "error"]
                  /\ mark' \in {mark, TRUE}
            /\ UNCHANGED <<answer, after, work>>

\* Clean is only the end of a guest that looked for the marker and left it.
End(h) == /\ work[h] = "busy"
          /\ \/ work' = [work EXCEPT ![h] = "unclean"]
             \/ /\ found[h] \in {"first_activation", "persistent"} /\ mark
                /\ work' = [work EXCEPT ![h] = "clean"]
          /\ UNCHANGED <<answer, after, found, mark>>

\* The one answer, or none: failed may be said of a guest that ended clean.
Reply(h) == /\ answer[h] = "asked"
            /\ \/ Say(h, "failed") \/ Say(h, "silent")
               \/ work[h] = "clean" /\ Say(h, "completed")
            /\ UNCHANGED <<after, work, found, mark>>

Next == \E h \in Handshake :
  Ask(h) \/ Begin(h) \/ Look(h) \/ Leave(h) \/ End(h) \/ Reply(h)

Spec == Init /\ [][Next]_vars
=============================================================================
