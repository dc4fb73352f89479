---------------------------- MODULE RuntimeContract ----------------------------
(***************************************************************************)
(* runtime_contract.py: the messages of the runtime lifecycle, how they    *)
(* are built, written and read, and which of them a controller may take    *)
(* for its own.                                                            *)
(*                                                                         *)
(* The module has no caller in the repository.  The controller, the        *)
(* adapter and what carries their messages are the least that its          *)
(* functions imply: a controller waits for the status of its last request; *)
(* an adapter works for a request it was sent, in any order, and says what *)
(* is ready, probed and alive as it finds it, but may name any state and   *)
(* stage; and messages are lost, repeated, overtaken by others, and        *)
(* written by programs that do not use this module.                        *)
(***************************************************************************)
EXTENDS FiniteSets, Naturals

CONSTANTS
  Request,  \* records [generation, request_id, session_id]
  Limit     \* how many of them the controller sends: a bound for TLC

\* _require_generation and _require_text let no other request be built.
ASSUME RequestAssumption ==
  /\ Request \subseteq [generation : Nat, request_id : STRING, session_id : STRING]
  /\ \A q \in Request : q.request_id # ""

Proof == {"ready", "probe_ok", "alive"}

\* The states, "starting" also for dormant and stopping; the stages, those on the
\* way to "ready" and after the end as one, and so the failed_* ones.
RuntimeState == {"starting", "running", "failed"}
RuntimeStage == {"working", "ready", "running", "failed"}

\* A RuntimeStatus, without what nothing decides on.
Status == [generation : {q.generation : q \in Request},
           request_id : {q.request_id : q \in Request},
           session_id : {q.session_id : q \in Request},
           state : RuntimeState, stage : RuntimeStage, proof : SUBSET Proof]

\* A status as JSON: its fields, what it claims of authoritative_running, or that
\* it is malformed: a field is missing, unknown or of a value no field has.
Claim    == {"absent", "true", "false", "malformed"}
Document == [status : Status, claim : Claim, own : BOOLEAN]

VARIABLES
  current,  \* the request the controller waits for, its last one
  issued,   \* the requests it has sent
  serving,  \* the request the adapter works for
  proof,    \* what is ready, probed and alive there
  proven,   \* the requests for which all of it was, once
  wire,     \* the documents under way
  believed  \* the requests the controller has taken for running

controller == <<current, issued, believed>>
adapter    == <<serving, proof, proven>>
vars       == <<controller, adapter, wire>>

None == [generation |-> 0, request_id |-> "", session_id |-> ""]

TypeOK ==
  /\ current \in Request \cup {None}
  /\ issued \in SUBSET Request
  /\ serving \in Request \cup {None}
  /\ proof \in SUBSET Proof
  /\ proven \in SUBSET Request
  /\ wire \in SUBSET Document
  /\ believed \in SUBSET Request

Init ==
  /\ current = None /\ serving = None
  /\ issued = {} /\ proven = {} /\ believed = {} /\ wire = {}
  /\ proof = {}

-----------------------------------------------------------------------------
(* The functions of the module. *)

\* The rules of RuntimeStatus.__post_init__ that relate its fields.
Constructs(s) ==
  /\ s.state = "running" => s.proof = Proof
  /\ "ready" \in s.proof => s.stage \in {"ready", "running"}
  /\ s.stage = "running" => s.state = "running"

AuthoritativeRunning(s) == s.state = "running" /\ s.proof = Proof

\* Variant: a retry that keeps its identifiers is not told from its predecessor.
MatchesAnyGeneration(s, q) ==
  /\ s.request_id = q.request_id
  /\ s.session_id = q.session_id

Matches(s, q) ==
  /\ s.generation = q.generation
  /\ s.request_id = q.request_id
  /\ s.session_id = q.session_id

\* Variant: the state is written where the claim belongs.
ToDictState(s) == [status |-> s, own |-> TRUE, claim |-> s.state]

\* to_dict.  own says that this module wrote the document.
ToDict(s) ==
  [status |-> s, own |-> TRUE,
   claim |-> IF AuthoritativeRunning(s) THEN "true" ELSE "false"]

\* Variant: authoritative_running is a field like any other, and not allowed.
FromDictKeepsClaim(d) ==
  IF d.claim = "absent" /\ Constructs(d.status) THEN {d.status} ELSE {}

\* from_dict: the status, or nothing where it raises.  What the document claims
\* of authoritative_running is dropped.
FromDict(d) ==
  IF d.claim # "malformed" /\ Constructs(d.status) THEN {d.status} ELSE {}

\* A status for a request.
For(q, state, stage, facts) ==
  [generation |-> q.generation, request_id |-> q.request_id,
   session_id |-> q.session_id, state |-> state, stage |-> stage, proof |-> facts]

\* The constructors, with the arguments a caller may give them.
StartingStatus(q) == {For(q, "starting", stage, {}) : stage \in RuntimeStage}
RunningStatus(q)  == {For(q, "running", "running", Proof)}
FailedStatus(q)   == {For(q, "failed", "failed", facts) :
                        facts \in SUBSET {"alive"}}

-----------------------------------------------------------------------------
(* Controller, adapter and wire. *)

\* RuntimeRequest and its to_json: a new request takes the place of the last.
Issue(q) ==
  /\ q \notin issued /\ Cardinality(issued) < Limit
  /\ current' = q
  /\ issued' = issued \cup {q}
  /\ UNCHANGED <<adapter, wire, believed>>

\* RuntimeRequest.from_json: the adapter turns to a request, perhaps one it has
\* worked for already, and starts from nothing.
Serve(q) ==
  /\ q \in issued
  /\ serving' = q
  /\ proof' = {}
  /\ UNCHANGED <<controller, proven, wire>>

\* Something in the runtime becomes true or stops being so.
Changes ==
  /\ serving # None
  /\ \E p \in Proof :
       proof' = IF p \in proof THEN proof \ {p} ELSE proof \cup {p}
  /\ proven' = IF proof' = Proof THEN proven \cup {serving} ELSE proven
  /\ UNCHANGED <<controller, serving, wire>>

Send(d) == wire = {} /\ wire' = {d}

\* The adapter builds a status with the constructor, for what it finds, or with
\* one of the three functions, when they say what it finds.
Report ==
  /\ serving # None
  /\ \E s \in {For(serving, state, stage, proof) :
                 state \in RuntimeState, stage \in RuntimeStage}
              \cup {r \in StartingStatus(serving) \cup RunningStatus(serving)
                          \cup FailedStatus(serving) : r.proof \subseteq proof} :
       Constructs(s) /\ Send(ToDict(s))
  /\ UNCHANGED <<controller, adapter>>

\* A status of the same facts written without this module.
ReportByHand ==
  /\ serving # None
  /\ \E state \in RuntimeState, stage \in RuntimeStage, claim \in Claim :
       Send([status |-> For(serving, state, stage, proof), claim |-> claim,
             own |-> FALSE])
  /\ UNCHANGED <<controller, adapter>>

\* The controller reads a document.  It may read it again.
Read(d) ==
  /\ d \in wire /\ current # None
  /\ believed' = believed \cup
       {q \in {current} : \E s \in FromDict(d) :
                             Matches(s, q) /\ AuthoritativeRunning(s)}
  /\ UNCHANGED <<current, issued, adapter, wire>>

Vanish(d) ==
  /\ d \in wire
  /\ wire' = wire \ {d}
  /\ UNCHANGED <<controller, adapter>>

Next ==
  \/ \E q \in Request : Issue(q) \/ Serve(q)
  \/ Changes \/ Report \/ ReportByHand
  \/ \E d \in wire : Read(d) \/ Vanish(d)

Spec == Init /\ [][Next]_vars

-----------------------------------------------------------------------------
(* Properties. *)

\* The controller takes a request for running only if for that very request, not
\* an earlier generation, another session or a retry, everything was once ready,
\* probed and alive; whatever a document claims of itself and whenever it comes.
RunningIsProven == believed \subseteq proven

\* What this module writes it reads back, unchanged: no status the adapter built
\* is refused by the controller.
AcceptsItsOwn == \A d \in wire : d.own => FromDict(d) = {d.status}
=============================================================================
