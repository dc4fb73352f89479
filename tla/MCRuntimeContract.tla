--------------------------- MODULE MCRuntimeContract ---------------------------
EXTENDS RuntimeContract

\* A request, and three that differ from it in one field each: a retry in the
\* next generation, another request of the session, the request of another one.
Request4 ==
  {[generation |-> 1, request_id |-> "a", session_id |-> "s"],
   [generation |-> 2, request_id |-> "a", session_id |-> "s"],
   [generation |-> 1, request_id |-> "b", session_id |-> "s"],
   [generation |-> 1, request_id |-> "a", session_id |-> "t"]}
=============================================================================
