-------------------------- MODULE MCSessionRuntime --------------------------
EXTENDS SessionRuntime, FiniteSetsExt, Integers, TLC

\* Callers that share a session identifier are interchangeable.
Symmetry == Permutations(Client)

\* Requests at odds: one keeps output and logs, one exports the output and keeps
\* nothing, one keeps the logs and has a sink that throws.
AtOdds == {[preserve |-> TRUE,  retain |-> TRUE,  sink |-> "none"],
           [preserve |-> FALSE, retain |-> FALSE, sink |-> "works"],
           [preserve |-> FALSE, retain |-> TRUE,  sink |-> "throws"]}

\* The requests differ, and at any time at most one of these holds of one caller:
\* descendants in its group, a descendant that has left it, a link to the output.
\* "succeeded" and "lost" make no difference beside "finished" and "timedOut".
Bound ==
  /\ Cardinality({wish[c] : c \in Client}) = Cardinality(Client)
  /\ Cardinality({c \in Client : stray[c] # "none"})
     + Cardinality({c \in Client : company[c]}) + Cardinality(linked) <= 1
  /\ \A c \in Client : answer[c] \notin {"succeeded", "lost"}

MCInit == Init /\ Bound
MCSpec == MCInit /\ [][Next /\ Bound']_vars
=============================================================================
