------------------------- MODULE MCNativeSupervisor -------------------------
EXTENDS NativeSupervisor

\* Bounds for TLC.  Descendants are started, or the leader leaves its group, in
\* one call - the calls are alike, so any one stands for all, and so are the
\* descendants - and only while every other call has not begun or has refused
\* its arguments: what is left is a single call with descendants, and several
\* calls without.  And at most one call has an error pipe that fails or carries a
\* record, a child that exits with a code other than 0, or one that another part
\* of the application collects.
Born(r) == {k \in Kid : kin[r][k] # "unborn"}

Parent == CHOOSE r \in Run : TRUE
Eldest == CHOOSE k \in Kid : TRUE

Resting(r) == \/ pc[r] = "start"
              \/ pc[r] = "returned" /\ result[r].stage = "InvalidArgument"

Fails(r) == \/ record[r] # "empty" \/ result[r].stage = "ErrorPipe"
            \/ death[r] = "exitN"
            \/ child[r] = "reaped" /\ wstat[r] = "none"

Bound == \A r \in Run :
  /\ child[r] = "away" \/ Born(r) # {} =>
       r = Parent /\ \A s \in Run \ {r} : Resting(s)
  /\ Born(r) # {} => Eldest \in Born(r)
  /\ Fails(r) => \A s \in Run \ {r} : ~Fails(s)

MCSpec == /\ Init /\ [][Next /\ Bound']_vars
          /\ \A r \in Run :
               /\ WF_vars(Supervise(r) /\ Bound')
               /\ WF_vars(ChildSetup(r) /\ Bound')
               /\ WF_vars(ClockTicks(r) /\ Bound')
=============================================================================
