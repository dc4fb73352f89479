------------------------ MODULE RuntimeContractProofs ------------------------
(***************************************************************************)
(* Proofs about RuntimeContract for any set of requests, sent in any       *)
(* number.                                                                 *)
(***************************************************************************)
EXTENDS RuntimeContract, TLAPS

-----------------------------------------------------------------------------
(* The functions of the module. *)

\* A request is its three fields, and none has an empty identifier.
LEMMA Requests ==
  ASSUME NEW q \in Request, NEW r \in Request,
         q.generation = r.generation, q.request_id = r.request_id,
         q.session_id = r.session_id
  PROVE  q = r
<1>1. /\ q \in [generation : Nat, request_id : STRING, session_id : STRING]
      /\ r \in [generation : Nat, request_id : STRING, session_id : STRING]
  BY RequestAssumption
<1>2. q = [generation |-> q.generation, request_id |-> q.request_id,
           session_id |-> q.session_id]
  BY <1>1
<1>3. r = [generation |-> r.generation, request_id |-> r.request_id,
           session_id |-> r.session_id]
  BY <1>1
<1>4. QED
  BY <1>2, <1>3

LEMMA NoneIsNoRequest == None \notin Request
  BY RequestAssumption DEF None

\* What can be built is read back, and what is read was built somewhere.
LEMMA RoundTrip ==
  ASSUME NEW s, Constructs(s)
  PROVE  FromDict(ToDict(s)) = {s}
  BY DEF FromDict, ToDict

\* "RUNNING requires ready=true, probe_ok=true, and alive=true": a status that
\* can be built is authoritative exactly if its state is running.
LEMMA RunningIsAuthoritative ==
  ASSUME NEW s, Constructs(s)
  PROVE  AuthoritativeRunning(s) <=> s.state = "running"
  BY DEF Constructs, AuthoritativeRunning

LEMMA ForStatus ==
  ASSUME NEW q \in Request, NEW state \in RuntimeState,
         NEW stage \in RuntimeStage, NEW facts \in SUBSET Proof
  PROVE  /\ For(q, state, stage, facts) \in Status
         /\ Matches(For(q, state, stage, facts), q)
         /\ For(q, state, stage, facts).proof = facts
  BY DEF For, Status, Matches

\* The three constructors build no other status.
LEMMA Constructors ==
  ASSUME NEW q \in Request
  PROVE  \A s \in StartingStatus(q) \cup RunningStatus(q) \cup FailedStatus(q) :
           s \in Status /\ Matches(s, q)
<1>1. {"alive"} \subseteq Proof /\ {} \in SUBSET Proof /\ Proof \in SUBSET Proof
  BY DEF Proof
<1>2. "starting" \in RuntimeState /\ "running" \in RuntimeState
      /\ "failed" \in RuntimeState
      /\ "running" \in RuntimeStage /\ "failed" \in RuntimeStage
  BY DEF RuntimeState, RuntimeStage
<1>3. QED
  BY <1>1, <1>2, ForStatus DEF StartingStatus, RunningStatus, FailedStatus

LEMMA ToDictType ==
  ASSUME NEW s \in Status
  PROVE  ToDict(s) \in Document /\ ToDict(s).status = s
  BY DEF ToDict, Document, Claim

-----------------------------------------------------------------------------
(* The inductive invariant. *)

\* A request all of whose facts hold now is one they have held for.
ProvenNow == serving # None /\ proof = Proof => serving \in proven

\* A document under way is of a request the adapter worked for, and if it says that
\* everything is ready, probed and alive, it was so for that request.
WireInv == \A d \in wire :
  /\ d.own => Constructs(d.status) /\ d.claim # "malformed"
  /\ d.status.proof = Proof => \E q \in proven : Matches(d.status, q)

IInv == TypeOK /\ ProvenNow /\ WireInv /\ RunningIsProven

LEMMA Initially == Init => IInv
  BY DEF Init, IInv, TypeOK, ProvenNow, WireInv, RunningIsProven

LEMMA IssueKeeps ==
  ASSUME IInv, NEW q \in Request, Issue(q)
  PROVE  IInv'
  BY DEF IInv, TypeOK, ProvenNow, WireInv, RunningIsProven, Issue, adapter

LEMMA ServeKeeps ==
  ASSUME IInv, NEW q \in Request, Serve(q)
  PROVE  IInv'
<1>1. {} # Proof
  BY DEF Proof
<1>2. QED
  BY <1>1 DEF IInv, TypeOK, ProvenNow, WireInv, RunningIsProven, Serve,
     controller

LEMMA ChangesKeeps ==
  ASSUME IInv, Changes
  PROVE  IInv'
<1>1. TypeOK'
  BY DEF IInv, TypeOK, Changes, controller
<1>2. ProvenNow' /\ proven \subseteq proven'
  BY DEF Changes, ProvenNow
<1>3. WireInv' /\ RunningIsProven'
  BY <1>2 DEF IInv, WireInv, RunningIsProven, Changes, controller
<1>4. QED
  BY <1>1, <1>2, <1>3 DEF IInv

\* What the adapter sends is of the request it works for and of its facts.
LEMMA SendKeeps ==
  ASSUME IInv, serving # None, UNCHANGED <<controller, adapter>>,
         NEW d \in Document, wire' = {d},
         Matches(d.status, serving), d.status.proof \subseteq proof,
         d.own => Constructs(d.status) /\ d.claim # "malformed"
  PROVE  IInv'
<1>1. TypeOK'
  BY DEF IInv, TypeOK, controller, adapter
<1>2. d.status.proof = Proof => proof = Proof
  BY DEF IInv, TypeOK
<1>3. WireInv'
  BY <1>2 DEF IInv, ProvenNow, WireInv, adapter
<1>4. QED
  BY <1>1, <1>3 DEF IInv, ProvenNow, RunningIsProven, controller, adapter

LEMMA ReportKeeps ==
  ASSUME IInv, Report
  PROVE  IInv'
<1>1. serving \in Request /\ proof \in SUBSET Proof
  BY DEF IInv, TypeOK, Report
<1>2. PICK s \in {For(serving, state, stage, proof) :
                    state \in RuntimeState, stage \in RuntimeStage}
                \cup {r \in StartingStatus(serving) \cup RunningStatus(serving)
                             \cup FailedStatus(serving) : r.proof \subseteq proof} :
        Constructs(s) /\ Send(ToDict(s))
  BY DEF Report
<1>3. s \in Status /\ Matches(s, serving) /\ s.proof \subseteq proof
  BY <1>1, <1>2, ForStatus, Constructors
<1>4. wire' = {ToDict(s)} /\ serving # None /\ UNCHANGED <<controller, adapter>>
  BY <1>2 DEF Send, Report
<1>5. ToDict(s).claim # "malformed"
  BY DEF ToDict
<1>6. QED
  BY <1>2, <1>3, <1>4, <1>5, ToDictType, SendKeeps

LEMMA ReportByHandKeeps ==
  ASSUME IInv, ReportByHand
  PROVE  IInv'
<1>1. serving \in Request /\ proof \in SUBSET Proof
  BY DEF IInv, TypeOK, ReportByHand
<1>2. PICK state \in RuntimeState, stage \in RuntimeStage, claim \in Claim :
        Send([status |-> For(serving, state, stage, proof), claim |-> claim,
              own |-> FALSE])
  BY DEF ReportByHand
<1> DEFINE d == [status |-> For(serving, state, stage, proof),
                 claim |-> claim, own |-> FALSE]
<1>3. /\ d \in Document /\ ~d.own
      /\ Matches(d.status, serving) /\ d.status.proof \subseteq proof
  BY <1>1, ForStatus DEF Document
<1>4. wire' = {d} /\ serving # None /\ UNCHANGED <<controller, adapter>>
  BY <1>2 DEF Send, ReportByHand
<1> HIDE DEF d
<1>5. QED
  BY <1>3, <1>4, SendKeeps

\* Whoever is taken for running matches a status of full proof, and so is one of
\* the requests it was true of.
LEMMA ReadKeeps ==
  ASSUME IInv, NEW d \in wire, Read(d)
  PROVE  IInv'
<1>1. current \in Request
  BY DEF IInv, TypeOK, Read
<1>2. \A s \in FromDict(d) :
        Matches(s, current) /\ AuthoritativeRunning(s) => current \in proven
  <2> SUFFICES ASSUME Matches(d.status, current), d.status.proof = Proof
               PROVE  current \in proven
    BY DEF FromDict, AuthoritativeRunning
  <2>1. PICK q \in proven : Matches(d.status, q)
    BY DEF IInv, WireInv
  <2>2. q = current
    BY <1>1, <2>1, Requests DEF Matches, IInv, TypeOK
  <2>3. QED
    BY <2>1, <2>2
<1>3. believed' \subseteq believed \cup {current} /\ believed' \subseteq proven
  BY <1>2 DEF Read, IInv, RunningIsProven
<1>4. QED
  BY <1>1, <1>3 DEF IInv, TypeOK, ProvenNow, WireInv, RunningIsProven, Read,
     adapter

LEMMA VanishKeeps ==
  ASSUME IInv, NEW d \in wire, Vanish(d)
  PROVE  IInv'
  BY DEF IInv, TypeOK, ProvenNow, WireInv, RunningIsProven, Vanish,
     controller, adapter

THEOREM Inductive == Spec => []IInv
<1>1. IInv /\ [Next]_vars => IInv'
  <2> SUFFICES ASSUME IInv, [Next]_vars PROVE IInv'
    OBVIOUS
  <2>1. CASE Next
    BY <2>1, IssueKeeps, ServeKeeps, ChangesKeeps, ReportKeeps,
       ReportByHandKeeps, ReadKeeps, VanishKeeps DEF Next
  <2>2. CASE UNCHANGED vars
    BY <2>2 DEF IInv, TypeOK, ProvenNow, WireInv, RunningIsProven, vars,
       controller, adapter
  <2>3. QED
    BY <2>1, <2>2
<1>2. QED
  BY <1>1, Initially, PTL DEF Spec

-----------------------------------------------------------------------------
(* What follows. *)

\* The state stays within its types.
THEOREM TypeCorrect == Spec => []TypeOK
<1>1. IInv => TypeOK
  BY DEF IInv
<1>2. QED
  BY <1>1, Inductive, PTL

\* Whatever generations, sessions and retries there are, and whatever the wire
\* does, a request is taken for running only if it was (matches and
\* authoritative_running together).
THEOREM BelievedIsProven == Spec => []RunningIsProven
<1>1. IInv => RunningIsProven
  BY DEF IInv
<1>2. QED
  BY <1>1, Inductive, PTL

\* from_dict reads back whatever to_dict has written.
THEOREM OwnIsRead == Spec => []AcceptsItsOwn
<1>1. IInv => AcceptsItsOwn
  BY DEF IInv, WireInv, AcceptsItsOwn, FromDict
<1>2. QED
  BY <1>1, Inductive, PTL
=============================================================================
