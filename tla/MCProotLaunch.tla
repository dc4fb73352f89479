---------------------------- MODULE MCProotLaunch ----------------------------
EXTENDS ProotLaunch, FiniteSets, Naturals

\* Bounds for TLC.  One path of the host may be a link, and one comes and goes
\* once a launch has been asked for; links and audits go with a plain package
\* launch only; what does not depend on the number of binds is varied without
\* any, and in part with one.
Plain == request.binds = {} /\ request.release = "none" /\ ~request.kill
         /\ request.kind \in {"package", NoRequest.kind}

Bound ==
  /\ \A p \in Path : leads[p] \in {p} \cup Other
  /\ Cardinality({p \in Path : leads[p] # p}) <= 1
  /\ sMode # {} \/ touched # {} => usable
  /\ Cardinality(touched) <= 1 /\ (pc = "asked" => touched = {})
  /\ sMode # {} \/ audit # "idle" \/ (\E p \in Path : leads[p] # p) => Plain
  /\ request.binds # {} => request.release \in {"none", "padded"}
                          /\ (request.kill => request.command = "given")
  /\ Cardinality(request.binds) > 1 =>
       request.release = "none" /\ ~request.kill /\ request.command = "given"

MCInit == Init /\ Bound
MCSpec == MCInit /\ [][Next /\ Bound']_vars
=============================================================================
