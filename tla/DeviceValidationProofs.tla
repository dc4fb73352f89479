------------------------ MODULE DeviceValidationProofs ------------------------
(***************************************************************************)
(* Proofs about the bridge and the device validation on top of it, for any *)
(* number of handshakes and any diagnostics below them.                    *)
(***************************************************************************)
EXTENDS DeviceValidation, TLAPS

-----------------------------------------------------------------------------
(* The inductive invariant of the bridge. *)

\* The bridge has no envelope before its end, nothing runs below it before it has
\* launched it, and it has refused every event but one it can use by then.
BridgeInv(h) ==
  /\ pc[h] # "over" => envelope[h] = None
  /\ pc[h] \in {"idle", "load", "launch"} => etroute[h] = "none"
  /\ pc[h] = "launch" => event[h] \in {"none", "good", "unlaunchable"}
  /\ pc[h] \in {"wait", "judge"} => event[h] \in {"none", "good"}
  /\ pc[h] = "idle" => earlier[h] = {}

\* What the guest has found by each of its steps, and that the marker is there.
GuestInv(h) ==
  /\ etroute[h] = "none" => guest[h] = "none"
  /\ guest[h] \in {"none", "look"} => activated[h] = "no"
  /\ guest[h] = "write" => activated[h] \in {"first_activation", "persistent"}
  /\ guest[h] \in {"print", "exit", "ended"} => activated[h] # "no"
  /\ guest[h] \in {"exit", "ended"} /\ code[h] = 0 => activated[h] # "error"

MarkerInv(h) ==
  /\ activated[h] = "persistent" => marker = TRUE
  /\ guest[h] \in {"print", "exit", "ended"} /\ activated[h] # "error"
       => marker = TRUE
  /\ earlier[h] # {} => marker = TRUE
  /\ activated[h] = "first_activation" => earlier[h] = {}

\* The exit code, the state and the acknowledgement of an envelope agree, and
\* they claim success only of a guest of this handshake that ran to its end,
\* found nothing wrong and left its marker.
HandshakeProven == \A h \in Handshake :
  LET e == envelope[h] IN
  e.state # "none" =>
    /\ Completed(h) <=> e.exit = 0
    /\ e.ack = "accepted" <=> Completed(h) /\ event[h] = "good"
    /\ Completed(h) => /\ guest[h] = "ended" /\ code[h] = 0 /\ marker
                       /\ activated[h] \in {"first_activation", "persistent"}

\* What HandshakeProven says of one handshake.
Proven(h) ==
  envelope[h].state # "none" =>
    /\ Completed(h) <=> envelope[h].exit = 0
    /\ envelope[h].ack = "accepted" <=> Completed(h) /\ event[h] = "good"
    /\ Completed(h) => /\ guest[h] = "ended" /\ code[h] = 0 /\ marker = TRUE
                       /\ activated[h] \in {"first_activation", "persistent"}

HInv(h) == BridgeInv(h) /\ GuestInv(h) /\ MarkerInv(h) /\ Proven(h)

BInv == TypeOK /\ \A h \in Handshake : HInv(h)

\* A step of one handshake leaves the others alone; the marker stays.
Leaves(i) ==
  /\ \A h \in Handshake \ {i} :
       /\ pc'[h] = pc[h] /\ envelope'[h] = envelope[h] /\ event'[h] = event[h]
       /\ earlier'[h] = earlier[h] /\ etroute'[h] = etroute[h]
       /\ guest'[h] = guest[h] /\ activated'[h] = activated[h]
       /\ code'[h] = code[h]
  /\ marker = TRUE => marker' = TRUE

LEMMA OneStep ==
  ASSUME BInv, NEW i \in Handshake, Leaves(i), TypeOK', HInv(i)'
  PROVE  BInv'
<1>1. ASSUME NEW h \in Handshake \ {i} PROVE HInv(h)'
  <2>1. HInv(h)
    BY DEF BInv
  <2>2. BridgeInv(h)' /\ GuestInv(h)'
    BY <2>1 DEF HInv, BridgeInv, GuestInv, Leaves
  <2>3. MarkerInv(h)' /\ Proven(h)'
    BY <2>1 DEF HInv, MarkerInv, Proven, Completed, Leaves
  <2>4. QED
    BY <2>2, <2>3 DEF HInv
<1>2. QED
  BY <1>1 DEF BInv

LEMMA BInitially == Init => BInv
<1> SUFFICES ASSUME Init PROVE BInv
  OBVIOUS
<1>1. TypeOK
  BY DEF Init, TypeOK, Envelope, None
<1>2. \A h \in Handshake : HInv(h)
  BY DEF Init, HInv, BridgeInv, GuestInv, MarkerInv, Proven, None
<1>3. QED
  BY <1>1, <1>2 DEF BInv

-----------------------------------------------------------------------------
(* The bridge's steps. *)

LEMMA InvokeKeeps ==
  ASSUME BInv, NEW i \in Handshake, Invoke(i)
  PROVE  BInv'
<1>1. TypeOK'
  BY DEF BInv, TypeOK, Invoke, Goto, below
<1>2. Leaves(i)
  BY DEF BInv, TypeOK, Invoke, Goto, below, Leaves
<1>3. HInv(i) /\ \A g \in Handshake : Proven(g)
  BY DEF BInv, HInv
<1>4. pc'[i] = "load" /\ earlier'[i] = {g \in Handshake : Completed(g)}
  BY DEF BInv, TypeOK, Invoke, Goto
<1>5. earlier'[i] # {} => marker = TRUE
  BY <1>3, <1>4 DEF Proven, Completed
<1>6. BridgeInv(i)' /\ GuestInv(i)' /\ Proven(i)'
  BY <1>3, <1>4 DEF HInv, BridgeInv, GuestInv, Proven, Completed, Invoke, below
<1>7. MarkerInv(i)'
  BY <1>3, <1>5 DEF HInv, BridgeInv, GuestInv, MarkerInv, Invoke, below
<1>8. QED
  BY <1>1, <1>2, <1>6, <1>7, OneStep DEF HInv

\* A bridge that ends as failed.
LEMMA FailedKeeps ==
  ASSUME BInv, NEW i \in Handshake, NEW exit \in {20, 21, 22},
         NEW loaded \in BOOLEAN, Emit(i, "FAILED", exit, loaded),
         pc[i] \notin {"idle", "over"},
         UNCHANGED <<event, script, due, earlier, guest, activated, code, marker>>,
         etroute' = etroute \/ (etroute' = [etroute EXCEPT ![i] = "killed"])
  PROVE  BInv'
<1>1. /\ pc' = [pc EXCEPT ![i] = "over"]
      /\ envelope' \in [Handshake -> Envelope]
      /\ etroute' \in [Handshake -> {"none", "running", "exited", "killed"}]
  BY DEF BInv, TypeOK, Emit, Goto, Envelope
<1>2. TypeOK'
  BY <1>1 DEF BInv, TypeOK
<1>3. Leaves(i)
  BY DEF BInv, TypeOK, Emit, Goto, Leaves
<1>4. /\ pc'[i] = "over" /\ envelope'[i].state = "FAILED"
      /\ envelope'[i].exit = exit /\ envelope'[i].ack \in {"none", "rejected"}
      /\ etroute'[i] \in {etroute[i], "killed"}
  BY DEF BInv, TypeOK, Emit, Goto
<1>5. BridgeInv(i)' /\ Proven(i)'
  BY <1>4 DEF BridgeInv, Proven, Completed
<1>6. GuestInv(i)' /\ MarkerInv(i)'
  BY <1>4 DEF BInv, HInv, GuestInv, MarkerInv
<1>7. QED
  BY <1>2, <1>3, <1>5, <1>6, OneStep DEF HInv

LEMMA LoadKeeps ==
  ASSUME BInv, NEW i \in Handshake, Load(i)
  PROVE  BInv'
<1>1. event[i] \in Event /\ pc[i] = "load" /\ HInv(i)
  BY DEF BInv, TypeOK, Load
<1>2. UNCHANGED <<event, script, due, earlier, etroute, guest, activated, code,
                  marker>>
  BY DEF Load, below
<1>3. CASE event[i] = "malformed"
  <2>1. pc' = [pc EXCEPT ![i] = "over"] /\ envelope' = envelope
    BY <1>3 DEF Load, Goto
  <2>2. TypeOK' /\ Leaves(i)
    BY <1>2, <2>1 DEF BInv, TypeOK, Leaves
  <2>3. pc'[i] = "over"
    BY <2>1 DEF BInv, TypeOK
  <2>4. HInv(i)'
    BY <1>1, <1>2, <2>1, <2>3
    DEF HInv, BridgeInv, GuestInv, MarkerInv, Proven, Completed
  <2>5. QED
    BY <2>2, <2>4, OneStep
<1>4. CASE event[i] \in {"rejected", "conflict"}
  <2>1. \E loaded \in BOOLEAN : Emit(i, "FAILED", 22, loaded)
    BY <1>4 DEF Load
  <2>2. QED
    BY <1>1, <1>2, <2>1, FailedKeeps
<1>5. CASE event[i] \in {"none", "good", "unlaunchable"}
  <2>1. pc' = [pc EXCEPT ![i] = "launch"] /\ envelope' = envelope
    BY <1>5 DEF Load, Goto
  <2>2. TypeOK' /\ Leaves(i)
    BY <1>2, <2>1 DEF BInv, TypeOK, Leaves
  <2>3. pc'[i] = "launch"
    BY <2>1 DEF BInv, TypeOK
  <2>4. HInv(i)'
    BY <1>1, <1>2, <1>5, <2>1, <2>3
    DEF HInv, BridgeInv, GuestInv, MarkerInv, Proven, Completed
  <2>5. QED
    BY <2>2, <2>4, OneStep
<1>6. QED
  BY <1>1, <1>3, <1>4, <1>5 DEF Event

LEMMA LaunchKeeps ==
  ASSUME BInv, NEW i \in Handshake, Launch(i)
  PROVE  BInv'
<1>1. UNCHANGED <<event, script, due, earlier, guest, activated, code, marker>>
  BY DEF Launch
<1>2. pc[i] = "launch" /\ HInv(i)
  BY DEF BInv, Launch
<1>3. CASE /\ Goto(i, "wait") /\ etroute' = [etroute EXCEPT ![i] = "running"]
           /\ UNCHANGED envelope /\ event[i] # "unlaunchable"
  <2>1. TypeOK' /\ Leaves(i)
    BY <1>1, <1>3 DEF BInv, TypeOK, Leaves, Goto
  <2>2. pc'[i] = "wait" /\ etroute'[i] = "running" /\ event[i] \in {"none", "good"}
    BY <1>2, <1>3 DEF BInv, TypeOK, Goto, HInv, BridgeInv
  <2>3. HInv(i)'
    BY <1>1, <1>2, <1>3, <2>2
    DEF HInv, BridgeInv, GuestInv, MarkerInv, Proven, Completed
  <2>4. QED
    BY <2>1, <2>3, OneStep
<1>4. CASE Emit(i, "FAILED", 20, HasEvent(i)) /\ UNCHANGED etroute
  BY <1>1, <1>2, <1>4, FailedKeeps DEF HasEvent
<1>5. CASE Goto(i, "over") /\ UNCHANGED <<envelope, etroute>>
  <2>1. TypeOK' /\ Leaves(i)
    BY <1>1, <1>5 DEF BInv, TypeOK, Leaves, Goto
  <2>2. pc'[i] = "over"
    BY <1>5 DEF BInv, TypeOK, Goto
  <2>3. HInv(i)'
    BY <1>1, <1>2, <1>5, <2>2
    DEF HInv, BridgeInv, GuestInv, MarkerInv, Proven, Completed
  <2>4. QED
    BY <2>1, <2>3, OneStep
<1>6. QED
  BY <1>3, <1>4, <1>5 DEF Launch

LEMMA ExpireKeeps ==
  ASSUME BInv, NEW i \in Handshake, Expire(i)
  PROVE  BInv'
<1>1. HasEvent(i) \in BOOLEAN
  BY DEF HasEvent
<1>2. QED
  BY <1>1, FailedKeeps DEF Expire

LEMMA ReturnsKeeps ==
  ASSUME BInv, NEW i \in Handshake, Returns(i)
  PROVE  BInv'
<1>1. UNCHANGED <<event, script, due, envelope, earlier, etroute, guest,
                  activated, code, marker>>
  BY DEF Returns, below
<1>2. TypeOK' /\ Leaves(i)
  BY <1>1 DEF BInv, TypeOK, Leaves, Returns, Goto
<1>3. pc'[i] = "judge" /\ pc[i] = "wait" /\ HInv(i)
  BY DEF BInv, TypeOK, Returns, Goto
<1>4. HInv(i)'
  BY <1>1, <1>3
  DEF HInv, BridgeInv, GuestInv, MarkerInv, Proven, Completed
<1>5. QED
  BY <1>2, <1>4, OneStep

\* A completed handshake is one whose guest has ended with exit code 0.
LEMMA JudgeKeeps ==
  ASSUME BInv, NEW i \in Handshake, Judge(i)
  PROVE  BInv'
<1>1. UNCHANGED <<event, script, due, earlier, etroute, guest, activated, code,
                  marker>>
  BY DEF Judge, below
<1>2. pc[i] = "judge" /\ HInv(i)
  BY DEF BInv, Judge
<1>3. CASE ValidateDiagnostic(i)
  <2>1. Emit(i, "COMPLETED", 0, HasEvent(i))
    BY <1>3 DEF Judge
  <2>2. pc' = [pc EXCEPT ![i] = "over"] /\ envelope' \in [Handshake -> Envelope]
    BY <2>1 DEF BInv, TypeOK, Emit, Goto, Envelope
  <2>3. TypeOK' /\ Leaves(i)
    BY <1>1, <2>1, <2>2 DEF BInv, TypeOK, Leaves, Emit
  <2>4. /\ pc'[i] = "over" /\ envelope'[i].state = "COMPLETED"
        /\ envelope'[i].exit = 0
        /\ envelope'[i].ack = IF event[i] # "none" THEN "accepted" ELSE "none"
    BY <2>1 DEF BInv, TypeOK, Emit, Goto, HasEvent
  <2>5. guest[i] = "ended" /\ code[i] = 0 /\ event[i] \in {"none", "good"}
    BY <1>2, <1>3 DEF ValidateDiagnostic, HInv, BridgeInv
  <2>6. /\ activated[i] \in {"first_activation", "persistent"}
        /\ marker = TRUE
    BY <1>2, <2>5 DEF HInv, GuestInv, MarkerInv, BInv, TypeOK
  <2>7. Proven(i)'
    BY <1>1, <2>4, <2>5, <2>6 DEF Proven, Completed
  <2>8. BridgeInv(i)' /\ GuestInv(i)' /\ MarkerInv(i)'
    BY <1>1, <1>2, <2>4 DEF HInv, BridgeInv, GuestInv, MarkerInv
  <2>9. QED
    BY <2>3, <2>7, <2>8, OneStep DEF HInv
<1>4. CASE ~ValidateDiagnostic(i)
  BY <1>1, <1>2, <1>4, FailedKeeps DEF Judge, HasEvent
<1>5. QED
  BY <1>3, <1>4

LEMMA TimePassesKeeps ==
  ASSUME BInv, NEW i \in Handshake, TimePasses(i)
  PROVE  BInv'
<1>1. UNCHANGED <<event, script, pc, envelope, earlier, etroute, guest,
                  activated, code, marker>>
  BY DEF TimePasses, below
<1>2. TypeOK'
  BY <1>1 DEF BInv, TypeOK, TimePasses
<1>3. \A h \in Handshake : HInv(h)'
  BY <1>1 DEF BInv, HInv, BridgeInv, GuestInv, MarkerInv, Proven, Completed
<1>4. QED
  BY <1>2, <1>3 DEF BInv

-----------------------------------------------------------------------------
(* The steps below it. *)

\* They leave all bridges alone, and so what the envelopes say.
LEMMA BelowKeeps ==
  ASSUME BInv, NEW i \in Handshake, UNCHANGED bridge, TypeOK',
         \A h \in Handshake \ {i} :
           /\ etroute'[h] = etroute[h] /\ guest'[h] = guest[h]
           /\ activated'[h] = activated[h] /\ code'[h] = code[h],
         marker = TRUE => marker' = TRUE,
         etroute[i] # "none", etroute'[i] # "none",
         guest[i] # "ended", GuestInv(i)', MarkerInv(i)'
  PROVE  BInv'
<1>1. Leaves(i)
  BY DEF Leaves, bridge
<1>2. HInv(i)
  BY DEF BInv
<1>3. BridgeInv(i)'
  BY <1>2 DEF HInv, BridgeInv, bridge
<1>4. Proven(i)'
  BY <1>2 DEF HInv, Proven, Completed, bridge
<1>5. QED
  BY <1>1, <1>3, <1>4, OneStep DEF HInv

LEMMA GuestStartsKeeps ==
  ASSUME BInv, NEW i \in Handshake, GuestStarts(i)
  PROVE  BInv'
<1>1. TypeOK'
  BY DEF BInv, TypeOK, GuestStarts, Running, bridge
<1>2. HInv(i) /\ etroute[i] = "running" /\ guest[i] = "none"
  BY DEF BInv, GuestStarts
<1>3. guest'[i] \in {"look", "failed"}
  BY DEF BInv, TypeOK, GuestStarts
<1>4. \A h \in Handshake \ {i} : guest'[h] = guest[h] /\ code'[h] = code[h]
  BY DEF BInv, TypeOK, GuestStarts
<1>5. UNCHANGED <<bridge, etroute, activated, marker>>
  BY DEF GuestStarts
<1>6. GuestInv(i)' /\ MarkerInv(i)'
  BY <1>2, <1>3, <1>5 DEF HInv, GuestInv, MarkerInv, bridge
<1>7. QED
  BY <1>1, <1>2, <1>4, <1>5, <1>6, BelowKeeps

\* Only before anything has completed is there no marker.
LEMMA LooksForMarkerKeeps ==
  ASSUME BInv, NEW i \in Handshake, LooksForMarker(i)
  PROVE  BInv'
<1>1. TypeOK'
  BY DEF BInv, TypeOK, LooksForMarker, Running, bridge
<1>2. HInv(i) /\ guest[i] = "look" /\ etroute[i] # "none"
  BY DEF BInv, HInv, GuestInv, LooksForMarker
<1>3. /\ guest'[i] = "write"
      /\ activated'[i] = IF marker THEN "persistent" ELSE "first_activation"
  BY DEF BInv, TypeOK, LooksForMarker
<1>4. \A h \in Handshake \ {i} :
        guest'[h] = guest[h] /\ activated'[h] = activated[h]
  BY DEF BInv, TypeOK, LooksForMarker
<1>5. UNCHANGED <<bridge, etroute, code, marker>>
  BY DEF LooksForMarker
<1>6. GuestInv(i)'
  BY <1>2, <1>3, <1>5 DEF GuestInv
<1>7. marker \in BOOLEAN
  BY DEF BInv, TypeOK
<1>8. MarkerInv(i)'
  <2>1. CASE marker = TRUE
    BY <1>3, <1>5, <2>1 DEF MarkerInv, bridge
  <2>2. CASE marker = FALSE
    <3>1. earlier[i] = {} /\ activated'[i] = "first_activation"
      BY <1>2, <1>3, <2>2 DEF HInv, MarkerInv
    <3>2. earlier' = earlier
      BY <1>5 DEF bridge
    <3>3. QED
      BY <1>3, <3>1, <3>2 DEF MarkerInv
  <2>3. QED
    BY <1>7, <2>1, <2>2
<1>9. QED
  BY <1>1, <1>2, <1>4, <1>5, <1>6, <1>8, BelowKeeps

LEMMA WritesMarkerKeeps ==
  ASSUME BInv, NEW i \in Handshake, WritesMarker(i)
  PROVE  BInv'
<1>1. TypeOK'
  BY DEF BInv, TypeOK, WritesMarker, Running, bridge
<1>2. HInv(i) /\ guest[i] = "write" /\ etroute[i] # "none"
  BY DEF BInv, HInv, GuestInv, WritesMarker
<1>3. guest'[i] = "print"
  BY DEF BInv, TypeOK, WritesMarker
<1>4. \/ marker' = TRUE /\ activated' = activated
      \/ /\ marker' \in {marker, TRUE}
         /\ activated' = [activated EXCEPT ![i] = "error"]
  BY DEF WritesMarker
<1>5. \/ activated'[i] = "error"
      \/ activated'[i] = activated[i] /\ marker' = TRUE
  BY <1>4 DEF BInv, TypeOK
<1>6. /\ marker = TRUE => marker' = TRUE
      /\ \A h \in Handshake \ {i} :
           guest'[h] = guest[h] /\ activated'[h] = activated[h]
  BY <1>4 DEF BInv, TypeOK, WritesMarker
<1>7. UNCHANGED <<bridge, etroute, code>>
  BY DEF WritesMarker
<1>8. GuestInv(i)' /\ MarkerInv(i)'
  BY <1>2, <1>3, <1>5, <1>6, <1>7 DEF HInv, GuestInv, MarkerInv, bridge
<1>9. QED
  BY <1>1, <1>2, <1>6, <1>7, <1>8, BelowKeeps

LEMMA PrintsReportKeeps ==
  ASSUME BInv, NEW i \in Handshake, PrintsReport(i)
  PROVE  BInv'
<1> DEFINE Code(bind, kernel) == IF ~bind THEN 10
                                 ELSE IF ~kernel THEN 11
                                 ELSE IF activated[i] = "error" THEN 12 ELSE 0
<1>1. PICK n \in {0, 10, 11, 12} : /\ code' = [code EXCEPT ![i] = n]
                                   /\ activated[i] = "error" => n # 0
  <2>1. PICK bind, kernel \in BOOLEAN :
          code' = [code EXCEPT ![i] = Code(bind, kernel)]
    BY Zenon DEF PrintsReport
  <2>2. /\ Code(bind, kernel) \in {0, 10, 11, 12}
        /\ activated[i] = "error" => Code(bind, kernel) # 0
    OBVIOUS
  <2> HIDE DEF Code
  <2>3. QED
    BY <2>1, <2>2
<1>2. UNCHANGED <<bridge, etroute, activated, marker>>
  BY DEF PrintsReport
<1>3. TypeOK'
  BY <1>1, <1>2 DEF BInv, TypeOK, PrintsReport, Running, bridge
<1>4. HInv(i) /\ guest[i] = "print" /\ etroute[i] # "none"
  BY DEF BInv, HInv, GuestInv, PrintsReport
<1>5. guest'[i] = "exit" /\ code'[i] = n
  BY <1>1 DEF BInv, TypeOK, PrintsReport
<1>6. \A h \in Handshake \ {i} : guest'[h] = guest[h] /\ code'[h] = code[h]
  BY <1>1 DEF BInv, TypeOK, PrintsReport
<1>7. GuestInv(i)' /\ MarkerInv(i)'
  BY <1>1, <1>2, <1>4, <1>5 DEF HInv, GuestInv, MarkerInv, bridge
<1>8. QED
  BY <1>2, <1>3, <1>4, <1>6, <1>7, BelowKeeps

LEMMA GuestEndsKeeps ==
  ASSUME BInv, NEW i \in Handshake, GuestEnds(i)
  PROVE  BInv'
<1>1. UNCHANGED <<bridge, etroute, activated, marker>>
  BY DEF GuestEnds
<1>2. TypeOK'
  BY <1>1 DEF BInv, TypeOK, GuestEnds, Running, bridge
<1>3. HInv(i) /\ guest[i] \in {"look", "write", "print", "exit"}
      /\ etroute[i] # "none"
  BY DEF BInv, HInv, GuestInv, GuestEnds, Running
<1>4. \/ guest'[i] = "failed"
      \/ guest[i] = "exit" /\ guest'[i] = "ended" /\ code'[i] = code[i]
  BY DEF BInv, TypeOK, GuestEnds
<1>5. \A h \in Handshake \ {i} : guest'[h] = guest[h] /\ code'[h] = code[h]
  BY DEF BInv, TypeOK, GuestEnds
<1>6. GuestInv(i)' /\ MarkerInv(i)'
  BY <1>1, <1>3, <1>4 DEF HInv, GuestInv, MarkerInv, bridge
<1>7. QED
  BY <1>1, <1>2, <1>3, <1>5, <1>6, BelowKeeps

LEMMA EtrouteExitsKeeps ==
  ASSUME BInv, NEW i \in Handshake, EtrouteExits(i)
  PROVE  BInv'
<1>1. UNCHANGED <<event, script, pc, due, envelope, earlier, guest, activated,
                  code, marker>>
  BY DEF EtrouteExits, bridge
<1>2. TypeOK' /\ Leaves(i)
  BY <1>1 DEF BInv, TypeOK, EtrouteExits, Leaves
<1>3. etroute[i] = "running" /\ etroute'[i] = "exited" /\ HInv(i)
  BY DEF BInv, TypeOK, EtrouteExits
<1>4. HInv(i)'
  BY <1>1, <1>3
  DEF HInv, BridgeInv, GuestInv, MarkerInv, Proven, Completed
<1>5. QED
  BY <1>2, <1>4, OneStep

LEMMA StepKeeps ==
  ASSUME BInv, NEW i \in Handshake,
         Invoke(i) \/ Bridge(i) \/ TimePasses(i) \/ Below(i)
  PROVE  BInv'
BY InvokeKeeps, LoadKeeps, LaunchKeeps, ExpireKeeps, ReturnsKeeps, JudgeKeeps,
   TimePassesKeeps, GuestStartsKeeps, LooksForMarkerKeeps, WritesMarkerKeeps,
   PrintsReportKeeps, GuestEndsKeeps, EtrouteExitsKeeps
DEF Bridge, Below

LEMMA StutterKeeps ==
  ASSUME BInv, UNCHANGED vars
  PROVE  BInv'
<1>1. UNCHANGED <<event, script, pc, due, envelope, earlier, etroute, guest,
                  activated, code, marker>>
  BY DEF vars, bridge, below
<1>2. TypeOK'
  BY <1>1 DEF BInv, TypeOK
<1>3. \A h \in Handshake : HInv(h)'
  BY <1>1 DEF BInv, HInv, BridgeInv, GuestInv, MarkerInv, Proven, Completed
<1>4. QED
  BY <1>2, <1>3 DEF BInv

LEMMA BInvSays == BInv => TypeOK /\ HandshakeProven /\ OneFirstActivation
<1> SUFFICES ASSUME BInv PROVE HandshakeProven /\ OneFirstActivation
  BY DEF BInv
<1>1. \A h \in Handshake : Proven(h) /\ MarkerInv(h)
  BY DEF BInv, HInv
<1>2. HandshakeProven
  BY <1>1 DEF HandshakeProven, Proven
<1>3. OneFirstActivation
  BY <1>1 DEF OneFirstActivation, MarkerInv
<1>4. QED
  BY <1>2, <1>3

-----------------------------------------------------------------------------
(* The bridge alone. *)

\* Whatever guests of other handshakes do, a bridge's envelope is sound and no
\* first activation follows a completed handshake.
THEOREM BridgeSound ==
  Spec => [](TypeOK /\ HandshakeProven /\ OneFirstActivation)
<1>1. BInv /\ [Next]_vars => BInv'
  BY StepKeeps, StutterKeeps DEF Next
<1>2. QED
  BY <1>1, BInitially, BInvSays, PTL DEF Spec

-----------------------------------------------------------------------------
(* The bridge implements HandshakeContract. *)

\* What the contract sees of one handshake.
AnswerOf(h) == IF pc[h] = "over" THEN Said(h)
               ELSE IF envelope[h] # None THEN "inconsistent"
               ELSE IF pc[h] = "idle" THEN "unasked" ELSE "asked"

WorkOf(h) == IF guest[h] = "none" THEN "absent"
             ELSE IF guest[h] \in Running THEN "busy"
             ELSE IF guest[h] = "ended" /\ code[h] = 0 THEN "clean"
             ELSE "unclean"

LEMMA Shadows ==
  ASSUME NEW i \in Handshake, Leaves(i)
  PROVE  /\ answer[i] = AnswerOf(i) /\ work[i] = WorkOf(i)
         /\ answer' = [answer EXCEPT ![i] = AnswerOf(i)']
         /\ work' = [work EXCEPT ![i] = WorkOf(i)']
<1>1. \A h \in Handshake \ {i} :
        AnswerOf(h)' = AnswerOf(h) /\ WorkOf(h)' = WorkOf(h)
  BY DEF Leaves, AnswerOf, WorkOf, Said, Completed
<1>2. /\ answer = [h \in Handshake |-> AnswerOf(h)]
      /\ work = [h \in Handshake |-> WorkOf(h)]
  BY DEF answer, work, AnswerOf, WorkOf
<1>3. /\ answer' = [h \in Handshake |-> AnswerOf(h)']
      /\ work' = [h \in Handshake |-> WorkOf(h)']
  BY DEF answer, work, AnswerOf, WorkOf
<1>4. QED
  BY <1>1, <1>2, <1>3

\* Before its end a bridge has said nothing.
LEMMA NotYetSaid ==
  ASSUME BInv, NEW i \in Handshake, pc[i] # "over"
  PROVE  AnswerOf(i) = IF pc[i] = "idle" THEN "unasked" ELSE "asked"
  BY DEF BInv, HInv, BridgeInv, AnswerOf

\* Completed is what the caller of a completed handshake has been told.
LEMMA CompletedSaid ==
  ASSUME BInv
  PROVE  \A h \in Handshake : answer[h] = "completed" <=> Completed(h)
<1> SUFFICES ASSUME NEW h \in Handshake
             PROVE  AnswerOf(h) = "completed" <=> Completed(h)
  BY DEF answer, AnswerOf
<1>1. BridgeInv(h) /\ Proven(h)
  BY DEF BInv, HInv
<1>2. CASE Completed(h)
  <2>1. envelope[h] # None /\ pc[h] = "over"
    BY <1>1, <1>2 DEF BridgeInv, Completed, None
  <2>2. envelope[h].exit = 0 /\ (envelope[h].ack = "accepted" <=> event[h] = "good")
    BY <1>1, <1>2 DEF Proven, Completed
  <2>3. Said(h) = "completed"
    BY <1>2, <2>1, <2>2 DEF Said
  <2>4. QED
    BY <1>2, <2>1, <2>3 DEF AnswerOf
<1>3. CASE ~Completed(h)
  BY <1>3 DEF AnswerOf, Said
<1>4. QED
  BY <1>2, <1>3

\* A step that changes neither guest nor bridge as the contract sees them.
LEMMA Unseen ==
  ASSUME NEW i \in Handshake, Leaves(i), AnswerOf(i)' = AnswerOf(i),
         WorkOf(i)' = WorkOf(i), UNCHANGED <<earlier, activated, marker>>
  PROVE  UNCHANGED Contract!vars
<1>1. answer = [answer EXCEPT ![i] = answer[i]] /\ work = [work EXCEPT ![i] = work[i]]
  BY DEF answer, work
<1>2. answer' = answer /\ work' = work
  BY <1>1, Shadows
<1>3. QED
  BY <1>2 DEF Contract!vars

\* A reply that is allowed is a step of the contract.
LEMMA Replied ==
  ASSUME NEW i \in Handshake, Leaves(i), AnswerOf(i) = "asked",
         \/ AnswerOf(i)' \in {"failed", "silent"}
         \/ AnswerOf(i)' = "completed" /\ WorkOf(i) = "clean",
         UNCHANGED <<earlier, guest, activated, code, marker>>
  PROVE  Contract!Next
<1>1. work' = work
  BY DEF work
<1>2. Contract!Reply(i)
  BY <1>1, Shadows DEF Contract!Reply, Contract!Say
<1>3. QED
  BY <1>2 DEF Contract!Next

LEMMA FailureIsSaid ==
  ASSUME BInv, NEW i \in Handshake, NEW exit \in {20, 21, 22},
         NEW loaded \in BOOLEAN, Emit(i, "FAILED", exit, loaded),
         pc[i] \notin {"idle", "over"}, Leaves(i),
         UNCHANGED <<earlier, guest, activated, code, marker>>
  PROVE  Contract!Next
<1>1. /\ pc'[i] = "over" /\ envelope'[i].state = "FAILED"
      /\ envelope'[i].exit = exit /\ envelope'[i].ack \in {"none", "rejected"}
  BY DEF BInv, TypeOK, Emit, Goto
<1>2. envelope'[i] # None
  BY <1>1 DEF None
<1>3. AnswerOf(i)' = "failed"
  BY <1>1, <1>2 DEF AnswerOf, Said, Completed
<1>4. QED
  BY <1>3, NotYetSaid, Replied

LEMMA StepLeaves ==
  ASSUME BInv, NEW i \in Handshake,
         Invoke(i) \/ Bridge(i) \/ TimePasses(i) \/ Below(i)
  PROVE  Leaves(i)
<1>1. CASE Invoke(i) \/ TimePasses(i)
  BY <1>1 DEF BInv, TypeOK, Invoke, TimePasses, Goto, below, Leaves
<1>2. CASE Load(i) \/ Returns(i) \/ Judge(i)
  BY <1>2 DEF BInv, TypeOK, Load, Returns, Judge, Emit, Goto, below, Leaves
<1>3. CASE Launch(i) \/ Expire(i)
  BY <1>3 DEF BInv, TypeOK, Launch, Expire, Emit, Goto, Leaves
<1>4. CASE GuestStarts(i) \/ LooksForMarker(i)
  BY <1>4 DEF BInv, TypeOK, GuestStarts, LooksForMarker, bridge, Leaves
<1>5. CASE PrintsReport(i) \/ GuestEnds(i) \/ EtrouteExits(i)
  BY <1>5 DEF BInv, TypeOK, PrintsReport, GuestEnds, EtrouteExits, bridge, Leaves
<1>6. CASE WritesMarker(i)
  <2>1. \A h \in Handshake \ {i} : guest'[h] = guest[h] /\ activated'[h] = activated[h]
    BY <1>6 DEF BInv, TypeOK, WritesMarker
  <2>2. (marker = TRUE => marker' = TRUE) /\ UNCHANGED <<bridge, etroute, code>>
    BY <1>6 DEF WritesMarker
  <2>3. QED
    BY <2>1, <2>2 DEF bridge, Leaves
<1>7. QED
  BY <1>1, <1>2, <1>3, <1>4, <1>5, <1>6 DEF Bridge, Below

LEMMA BridgeSeen ==
  ASSUME BInv, NEW i \in Handshake, Invoke(i) \/ Bridge(i) \/ TimePasses(i)
  PROVE  [Contract!Next]_(Contract!vars)
<1>1. Leaves(i)
  BY StepLeaves
<1>2. CASE Invoke(i)
  <2>1. /\ pc[i] = "idle" /\ pc'[i] = "load" /\ envelope' = envelope
        /\ earlier' = [earlier EXCEPT ![i] = {g \in Handshake : Completed(g)}]
        /\ UNCHANGED <<guest, activated, code, marker>>
    BY <1>2 DEF BInv, TypeOK, Invoke, Goto, below
  <2>2. AnswerOf(i) = "unasked" /\ envelope[i] = None
    BY <2>1, NotYetSaid DEF BInv, HInv, BridgeInv
  <2>3. AnswerOf(i)' = "asked"
    BY <2>1, <2>2 DEF AnswerOf, None
  <2>4. {g \in Handshake : Completed(g)} = {g \in Handshake : answer[g] = "completed"}
    BY CompletedSaid
  <2>5. work' = work
    BY <2>1 DEF work
  <2>6. Contract!Ask(i)
    BY <1>1, <2>1, <2>2, <2>3, <2>4, <2>5, Shadows DEF Contract!Ask, Contract!Say
  <2>7. QED
    BY <2>6 DEF Contract!Next
<1>3. CASE Load(i)
  <2>1. pc[i] = "load" /\ UNCHANGED <<earlier, guest, activated, code, marker>>
    BY <1>3 DEF Load, below
  <2>2. CASE \E loaded \in BOOLEAN : Emit(i, "FAILED", 22, loaded)
    BY <1>1, <2>1, <2>2, FailureIsSaid
  <2>3. CASE Goto(i, "over") /\ UNCHANGED envelope
    <3>1. pc'[i] = "over" /\ envelope'[i] = None
      BY <2>1, <2>3 DEF BInv, HInv, BridgeInv, TypeOK, Goto
    <3>2. AnswerOf(i)' = "silent"
      BY <3>1 DEF AnswerOf, Said, Completed, None
    <3>3. QED
      BY <1>1, <2>1, <3>2, NotYetSaid, Replied
  <2>4. CASE Goto(i, "launch") /\ UNCHANGED envelope
    <3>1. pc'[i] = "launch" /\ envelope'[i] = None
      BY <2>1, <2>4 DEF BInv, HInv, BridgeInv, TypeOK, Goto
    <3>2. AnswerOf(i)' = AnswerOf(i) /\ WorkOf(i)' = WorkOf(i)
      BY <2>1, <3>1, NotYetSaid DEF AnswerOf, WorkOf, None
    <3>3. QED
      BY <1>1, <2>1, <3>2, Unseen
  <2>5. QED
    BY <1>3, <2>2, <2>3, <2>4 DEF Load
<1>4. CASE Launch(i) \/ Expire(i)
  <2>1. /\ pc[i] \notin {"idle", "over"}
        /\ UNCHANGED <<earlier, guest, activated, code, marker>>
    BY <1>4 DEF Launch, Expire
  <2>2. CASE Emit(i, "FAILED", 20, HasEvent(i))
    BY <1>1, <2>1, <2>2, FailureIsSaid DEF HasEvent
  <2>3. CASE Goto(i, "wait") /\ UNCHANGED envelope
    <3>1. pc'[i] = "wait" /\ envelope'[i] = None
      BY <2>1, <2>3 DEF BInv, HInv, BridgeInv, TypeOK, Goto
    <3>2. AnswerOf(i)' = AnswerOf(i) /\ WorkOf(i)' = WorkOf(i)
      BY <2>1, <3>1, NotYetSaid DEF AnswerOf, WorkOf, None
    <3>3. QED
      BY <1>1, <2>1, <3>2, Unseen
  <2>4. CASE Goto(i, "over") /\ UNCHANGED envelope
    <3>1. pc'[i] = "over" /\ envelope'[i] = None
      BY <2>1, <2>4 DEF BInv, HInv, BridgeInv, TypeOK, Goto
    <3>2. AnswerOf(i)' = "silent"
      BY <3>1 DEF AnswerOf, Said, Completed, None
    <3>3. QED
      BY <1>1, <2>1, <3>2, NotYetSaid, Replied
  <2>5. QED
    BY <1>4, <2>2, <2>3, <2>4 DEF Launch, Expire
<1>5. CASE Returns(i)
  <2>1. /\ pc[i] = "wait" /\ pc'[i] = "judge" /\ envelope' = envelope
        /\ UNCHANGED <<earlier, guest, activated, code, marker>>
    BY <1>5 DEF BInv, TypeOK, Returns, Goto, below
  <2>2. AnswerOf(i)' = AnswerOf(i) /\ WorkOf(i)' = WorkOf(i)
    BY <2>1 DEF AnswerOf, WorkOf, None
  <2>3. QED
    BY <1>1, <2>1, <2>2, Unseen
<1>6. CASE Judge(i)
  <2>1. pc[i] = "judge" /\ UNCHANGED <<event, earlier, guest, activated, code, marker>>
    BY <1>6 DEF Judge, below
  <2>2. CASE ValidateDiagnostic(i)
    <3>1. BInv' /\ pc'[i] = "over" /\ Completed(i)'
      BY <1>6, <2>2, JudgeKeeps DEF Judge, Emit, Goto, BInv, TypeOK, Completed
    <3>2. AnswerOf(i)' = "completed"
      <4>1. Proven(i)' /\ envelope'[i] # None
        BY <3>1 DEF BInv, HInv, Completed, None
      <4>2. Said(i)' = "completed"
        BY <3>1, <4>1 DEF Said, Proven, Completed
      <4>3. QED
        BY <3>1, <4>2 DEF AnswerOf
    <3>3. WorkOf(i) = "clean"
      BY <2>2 DEF ValidateDiagnostic, WorkOf, Running
    <3>4. QED
      BY <1>1, <2>1, <3>2, <3>3, NotYetSaid, Replied
  <2>3. CASE ~ValidateDiagnostic(i)
    BY <1>1, <1>6, <2>1, <2>3, FailureIsSaid DEF Judge, HasEvent
  <2>4. QED
    BY <2>2, <2>3
<1>7. CASE TimePasses(i)
  <2>1. UNCHANGED <<event, pc, envelope, earlier, guest, activated, code, marker>>
    BY <1>7 DEF TimePasses, below
  <2>2. AnswerOf(i)' = AnswerOf(i) /\ WorkOf(i)' = WorkOf(i)
    BY <2>1 DEF AnswerOf, WorkOf, Said, Completed, None
  <2>3. QED
    BY <1>1, <2>1, <2>2, Unseen
<1>8. QED
  BY <1>2, <1>3, <1>4, <1>5, <1>6, <1>7 DEF Bridge

\* What runs below the bridge answers nobody.
LEMMA GuestSeen ==
  ASSUME BInv, NEW i \in Handshake, Below(i)
  PROVE  [Contract!Next]_(Contract!vars)
<1>1. Leaves(i) /\ HInv(i) /\ BInv'
  BY StepLeaves, StepKeeps DEF BInv
<1>2. UNCHANGED <<event, pc, envelope, earlier>>
  BY DEF Below, GuestStarts, LooksForMarker, WritesMarker, PrintsReport,
     GuestEnds, EtrouteExits, bridge
<1>3. AnswerOf(i)' = AnswerOf(i) /\ answer' = answer
  BY <1>2 DEF AnswerOf, answer, Said, Completed, None
<1>4. CASE GuestStarts(i)
  <2>1. /\ guest[i] = "none" /\ guest'[i] \in {"look", "failed"}
        /\ etroute[i] # "none" /\ UNCHANGED <<activated, marker>>
    BY <1>4 DEF BInv, TypeOK, GuestStarts
  <2>2. WorkOf(i) = "absent" /\ WorkOf(i)' \in {"busy", "unclean"}
    BY <2>1 DEF WorkOf, Running
  <2>3. pc[i] # "idle"
    BY <1>1, <2>1 DEF HInv, BridgeInv
  <2>4. answer[i] # "unasked"
    <3>1. CASE pc[i] = "over"
      BY <3>1 DEF answer, Said
    <3>2. CASE pc[i] # "over"
      BY <2>3, <3>2, NotYetSaid, <1>1, Shadows
    <3>3. QED
      BY <3>1, <3>2
  <2>5. Contract!Begin(i)
    BY <1>1, <1>2, <1>3, <2>1, <2>2, <2>4, Shadows DEF Contract!Begin
  <2>6. QED
    BY <2>5 DEF Contract!Next
<1>5. CASE LooksForMarker(i)
  <2>1. /\ guest[i] = "look" /\ guest'[i] = "write" /\ activated[i] = "no"
        /\ activated' = [activated EXCEPT ![i] =
                           IF marker THEN "persistent" ELSE "first_activation"]
        /\ UNCHANGED <<code, marker>>
    BY <1>1, <1>5 DEF BInv, TypeOK, HInv, GuestInv, LooksForMarker
  <2>2. WorkOf(i) = "busy" /\ WorkOf(i)' = "busy"
    BY <2>1 DEF WorkOf, Running
  <2>3. work' = work /\ work[i] = "busy"
    BY <1>1, <2>2, Shadows DEF work
  <2>4. Contract!Look(i)
    BY <1>2, <1>3, <2>1, <2>3 DEF Contract!Look
  <2>5. QED
    BY <2>4 DEF Contract!Next
<1>6. CASE WritesMarker(i)
  <2>1. /\ guest[i] = "write" /\ guest'[i] = "print" /\ activated[i] # "no"
        /\ \/ marker' = TRUE /\ UNCHANGED activated
           \/ /\ activated' = [activated EXCEPT ![i] = "error"]
              /\ marker' \in {marker, TRUE}
        /\ UNCHANGED code
    <3>1. guest[i] = "write" /\ guest'[i] = "print" /\ activated[i] # "no"
      BY <1>1, <1>6 DEF BInv, TypeOK, HInv, GuestInv, WritesMarker
    <3>2. QED
      BY <1>6, <3>1 DEF WritesMarker
  <2>2. WorkOf(i) = "busy" /\ WorkOf(i)' = "busy"
    BY <2>1 DEF WorkOf, Running
  <2>3. work' = work /\ work[i] = "busy"
    BY <1>1, <2>2, Shadows DEF work
  <2>4. Contract!Leave(i)
    BY <1>2, <1>3, <2>1, <2>3 DEF Contract!Leave
  <2>5. QED
    BY <2>4 DEF Contract!Next
<1>7. CASE PrintsReport(i)
  <2>1. /\ guest[i] = "print" /\ guest'[i] = "exit"
        /\ UNCHANGED <<activated, marker>>
    BY <1>7 DEF BInv, TypeOK, PrintsReport
  <2>2. WorkOf(i)' = WorkOf(i)
    BY <2>1 DEF WorkOf, Running
  <2>3. QED
    BY <1>1, <1>2, <1>3, <2>1, <2>2, Unseen
<1>8. CASE GuestEnds(i)
  <2>1. /\ guest[i] \in Running /\ guest'[i] \in {"ended", "failed"}
        /\ UNCHANGED <<activated, marker>>
    BY <1>8 DEF BInv, TypeOK, GuestEnds, Running
  <2>2. WorkOf(i) = "busy"
    BY <2>1 DEF WorkOf, Running
  <2>3. /\ WorkOf(i)' \in {"clean", "unclean"}
        /\ WorkOf(i)' = "clean" => guest'[i] = "ended" /\ code'[i] = 0
    BY <2>1 DEF WorkOf, Running
  <2>4. WorkOf(i)' = "clean" =>
          activated[i] \in {"first_activation", "persistent"} /\ marker
    BY <1>1, <2>1, <2>3 DEF BInv, TypeOK, HInv, GuestInv, MarkerInv
  <2>5. Contract!End(i)
    BY <1>1, <1>2, <1>3, <2>1, <2>2, <2>3, <2>4, Shadows DEF Contract!End
  <2>6. QED
    BY <2>5 DEF Contract!Next
<1>9. CASE EtrouteExits(i)
  <2>1. UNCHANGED <<guest, activated, code, marker>>
    BY <1>9 DEF EtrouteExits
  <2>2. WorkOf(i)' = WorkOf(i)
    BY <2>1 DEF WorkOf, Running
  <2>3. QED
    BY <1>1, <1>2, <1>3, <2>1, <2>2, Unseen
<1>10. QED
  BY <1>4, <1>5, <1>6, <1>7, <1>8, <1>9 DEF Below

LEMMA StutterUnseen ==
  ASSUME UNCHANGED vars
  PROVE  UNCHANGED Contract!vars
  BY DEF vars, bridge, below, Contract!vars, answer, work, Said, Completed

LEMMA ContractInitially == Init => Contract!Init
<1> SUFFICES ASSUME Init PROVE Contract!Init
  OBVIOUS
<1>1. answer = [h \in Handshake |-> "unasked"] /\ work = [h \in Handshake |-> "absent"]
  BY DEF Init, answer, work
<1>2. QED
  BY <1>1 DEF Init, Contract!Init

LEMMA StepSeen ==
  ASSUME BInv, NEW i \in Handshake,
         Invoke(i) \/ Bridge(i) \/ TimePasses(i) \/ Below(i)
  PROVE  [Contract!Next]_(Contract!vars)
  BY BridgeSeen, GuestSeen

\* The bridges of any number of handshakes, with any events and diagnostics and
\* guests that outlive them, implement HandshakeContract.
THEOREM HandshakesKept == Spec => KeepsHandshakeContract
<1>1. BInv /\ [Next]_vars => BInv'
  BY StepKeeps, StutterKeeps DEF Next
<1>2. BInv /\ [Next]_vars => [Contract!Next]_(Contract!vars)
  BY StepSeen, StutterUnseen DEF Next
<1>3. QED
  BY <1>1, <1>2, BInitially, ContractInitially, PTL
     DEF Spec, KeepsHandshakeContract, Contract!Spec

-----------------------------------------------------------------------------
(* What a bridge's verdict says. *)

\* The events that make the bridge raise what run_bridge does not catch.
Uncaught == {"malformed", "unlaunchable"}

\* A bridge that is over has left no etroute running; it has judged what etroute
\* captured exactly when etroute ended by itself, and only then completed; and it
\* is over without an envelope only after an event that raised what it does not
\* catch.
Judged(h) ==
  /\ etroute[h] = "exited" => guest[h] \in {"failed", "ended"}
  /\ pc[h] = "judge" => etroute[h] = "exited"
  /\ pc[h] = "over" => etroute[h] # "running"
  /\ Completed(h) => etroute[h] = "exited"
  /\ pc[h] = "over" /\ etroute[h] = "exited"
       => (Completed(h) <=> ValidateDiagnostic(h))
  /\ pc[h] = "over" /\ envelope[h].state = "none" => event[h] \in Uncaught

JInv == BInv /\ \A h \in Handshake : Judged(h)

LEMMA JInitially == Init => JInv
  BY BInitially DEF Init, JInv, Judged, Completed, None

\* Another handshake's step changes nothing a verdict is about.
LEMMA OneVerdict ==
  ASSUME JInv, NEW i \in Handshake, Leaves(i), BInv', script' = script,
         Judged(i)'
  PROVE  JInv'
<1>1. ASSUME NEW h \in Handshake \ {i} PROVE Judged(h)'
  BY DEF JInv, Judged, Leaves, Completed, ValidateDiagnostic
<1>2. QED
  BY <1>1 DEF JInv

LEMMA BridgeJudged ==
  ASSUME JInv, NEW i \in Handshake, Invoke(i) \/ Bridge(i) \/ TimePasses(i)
  PROVE  Judged(i)'
<1>1. BInv /\ HInv(i) /\ Judged(i)
  BY DEF JInv, BInv
<1>2. event[i] \in Event
  BY <1>1 DEF BInv, TypeOK
<1>3. CASE Invoke(i)
  <2>1. pc'[i] = "load" /\ UNCHANGED <<envelope, etroute, guest>>
    BY <1>1, <1>3 DEF BInv, TypeOK, Invoke, Goto, below
  <2>2. pc[i] = "idle" /\ etroute[i] = "none" /\ envelope[i] = None
    BY <1>1, <1>3 DEF HInv, BridgeInv, Invoke
  <2>3. QED
    BY <2>1, <2>2 DEF Judged, Completed, None
<1>4. CASE Load(i)
  <2>1. /\ etroute[i] = "none" /\ envelope[i] = None
        /\ UNCHANGED <<event, etroute, guest>>
    BY <1>1, <1>4 DEF HInv, BridgeInv, Load, below
  <2>2. \/ event[i] = "malformed" /\ envelope'[i] = None
        \/ envelope'[i].state = "FAILED"
        \/ pc'[i] = "launch" /\ envelope'[i] = None
    BY <1>1, <1>4, <2>1 DEF BInv, TypeOK, Load, Emit, Goto
  <2>3. pc'[i] \in {"over", "launch"}
    BY <1>1, <1>4 DEF BInv, TypeOK, Load, Emit, Goto
  <2>4. QED
    BY <2>1, <2>2, <2>3 DEF Judged, Completed, None, Uncaught
<1>5. CASE Launch(i)
  <2>1. /\ etroute[i] = "none" /\ envelope[i] = None
        /\ UNCHANGED <<event, guest>>
    BY <1>1, <1>5 DEF HInv, BridgeInv, Launch
  <2>2. \/ pc'[i] = "wait" /\ etroute'[i] = "running" /\ envelope'[i] = None
        \/ /\ pc'[i] = "over" /\ etroute'[i] = "none"
           /\ envelope'[i].state = "FAILED"
        \/ /\ pc'[i] = "over" /\ etroute'[i] = "none" /\ envelope'[i] = None
           /\ event[i] = "unlaunchable"
    BY <1>1, <1>5, <2>1 DEF BInv, TypeOK, Launch, Emit, Goto
  <2>3. QED
    BY <2>1, <2>2 DEF Judged, Completed, None, Uncaught
<1>6. CASE Expire(i)
  <2>1. pc'[i] = "over" /\ etroute'[i] = "killed" /\ envelope'[i].state = "FAILED"
    BY <1>1, <1>6 DEF BInv, TypeOK, Expire, Emit, Goto
  <2>2. QED
    BY <2>1 DEF Judged, Completed
<1>7. CASE Returns(i)
  <2>1. /\ pc'[i] = "judge" /\ etroute[i] = "exited" /\ envelope[i] = None
        /\ UNCHANGED <<envelope, etroute, guest>>
    BY <1>1, <1>7 DEF HInv, BridgeInv, BInv, TypeOK, Returns, Goto, below
  <2>2. QED
    BY <1>1, <2>1 DEF Judged, Completed, None
<1>8. CASE Judge(i)
  <2>1. /\ pc'[i] = "over" /\ etroute[i] = "exited"
        /\ envelope'[i].state = IF ValidateDiagnostic(i) THEN "COMPLETED"
                                ELSE "FAILED"
        /\ UNCHANGED <<script, etroute, guest, code>>
    BY <1>1, <1>8 DEF BInv, TypeOK, Judged, Judge, Emit, Goto, below
  <2>2. ValidateDiagnostic(i)' <=> ValidateDiagnostic(i)
    BY <2>1 DEF ValidateDiagnostic
  <2>3. QED
    BY <1>1, <2>1, <2>2 DEF Judged, Completed
<1>9. CASE TimePasses(i)
  BY <1>1, <1>9 DEF Judged, Completed, ValidateDiagnostic, TimePasses, below
<1>10. QED
  BY <1>3, <1>4, <1>5, <1>6, <1>7, <1>8, <1>9 DEF Bridge

\* What etroute has passed on does not change any more: the guest is over.
LEMMA BelowJudged ==
  ASSUME JInv, NEW i \in Handshake, Below(i)
  PROVE  Judged(i)'
<1>1. BInv /\ Judged(i)
  BY DEF JInv
<1>2. UNCHANGED <<event, script, pc, envelope>>
  BY DEF Below, GuestStarts, LooksForMarker, WritesMarker, PrintsReport,
     GuestEnds, EtrouteExits, bridge
<1>3. CASE EtrouteExits(i)
  <2>1. /\ etroute[i] = "running" /\ etroute'[i] = "exited"
        /\ guest[i] \in {"failed", "ended"} /\ guest' = guest
    BY <1>1, <1>3 DEF BInv, TypeOK, EtrouteExits
  <2>2. pc[i] # "over" /\ pc[i] # "judge" /\ ~Completed(i)
    BY <1>1, <2>1 DEF Judged
  <2>3. QED
    BY <1>2, <2>1, <2>2 DEF Judged, Completed
<1>4. CASE ~EtrouteExits(i)
  <2>1. /\ guest[i] \in {"none"} \cup Running
        /\ etroute' = etroute
    BY <1>4 DEF Below, GuestStarts, LooksForMarker, WritesMarker, PrintsReport,
       GuestEnds, Running
  <2>2. etroute[i] # "exited"
    BY <1>1, <2>1 DEF Judged, Running
  <2>3. QED
    BY <1>1, <1>2, <2>1, <2>2 DEF Judged, Completed
<1>5. QED
  BY <1>3, <1>4

LEMMA JStep == JInv /\ [Next]_vars => JInv'
<1> SUFFICES ASSUME JInv, [Next]_vars PROVE JInv'
  OBVIOUS
<1>1. BInv
  BY DEF JInv
<1>2. ASSUME NEW i \in Handshake,
             Invoke(i) \/ Bridge(i) \/ TimePasses(i) \/ Below(i)
      PROVE  JInv'
  <2>1. BInv' /\ Leaves(i)
    BY <1>1, <1>2, StepKeeps, StepLeaves
  <2>2. script' = script
    BY <1>2 DEF Invoke, Bridge, Load, Launch, Expire, Returns, Judge, TimePasses,
       Below, GuestStarts, LooksForMarker, WritesMarker, PrintsReport, GuestEnds,
       EtrouteExits, bridge
  <2>3. Judged(i)'
    BY <1>2, BridgeJudged, BelowJudged
  <2>4. QED
    BY <2>1, <2>2, <2>3, OneVerdict
<1>3. CASE UNCHANGED vars
  <2>1. BInv'
    BY <1>1, <1>3, StutterKeeps
  <2>2. UNCHANGED <<event, script, pc, envelope, etroute, guest, code>>
    BY <1>3 DEF vars, bridge, below
  <2>3. \A h \in Handshake : Judged(h)'
    BY <2>2 DEF JInv, Judged, Completed, ValidateDiagnostic
  <2>4. QED
    BY <2>1, <2>3 DEF JInv
<1>4. QED
  BY <1>2, <1>3 DEF Next

THEOREM VerdictsInductive == Spec => []JInv
  BY JInitially, JStep, PTL DEF Spec

\* What the run bridge_contract refutes for the diagnostic that ships with the
\* repository holds of one whose report has what validate_diagnostic asks for: a
\* healthy guest that ends in time completes its handshake.
HealthyContractCompletes == \A h \in Handshake :
  /\ script[h] = "contract"
  /\ pc[h] = "over" /\ etroute[h] = "exited" /\ guest[h] = "ended" /\ code[h] = 0
  => Completed(h)

\* And no handshake that runs the shipped diagnostic ever completes.
ShippedNeverCompletes == \A h \in Handshake :
  script[h] = "shipped" => ~Completed(h)

\* What the run bridge_envelope refutes for a malformed event holds of every one whose
\* loading and whose session_id raise nothing that run_bridge does not catch, with a
\* guest that prints one of the two reports: the bridge does not end without an
\* envelope.
EnvelopeUnlessUncaught == \A h \in Handshake :
  pc[h] = "over" /\ event[h] \notin Uncaught => envelope[h].state # "none"

LEMMA Reports ==
  ASSUME NEW h \in Handshake
  PROVE  /\ script[h] = "contract" /\ guest[h] = "ended" /\ code[h] = 0
              => ValidateDiagnostic(h)
         /\ script[h] = "shipped" => ~ValidateDiagnostic(h)
<1>1. "marker" \notin BuildReport("shipped")
  BY DEF BuildReport
<1>2. BuildReport("contract")
        = {"resources", "device", "activation", "integration", "marker"}
  BY DEF BuildReport
<1>3. QED
  BY <1>1, <1>2 DEF ValidateDiagnostic

\* A bridge's verdict is that of validate_diagnostic, no more and no less: healthy
\* guests of a diagnostic that follows the contract complete, those of the
\* shipped one never do.
THEOREM VerdictIsExact == Spec => [](HealthyContractCompletes /\ ShippedNeverCompletes)
<1>1. JInv => HealthyContractCompletes /\ ShippedNeverCompletes
  <2> SUFFICES ASSUME JInv, NEW h \in Handshake
               PROVE  /\ /\ script[h] = "contract"
                         /\ pc[h] = "over" /\ etroute[h] = "exited"
                         /\ guest[h] = "ended" /\ code[h] = 0
                         => Completed(h)
                      /\ script[h] = "shipped" => ~Completed(h)
    BY DEF HealthyContractCompletes, ShippedNeverCompletes
  <2>1. Judged(h)
    BY DEF JInv
  <2>2. Completed(h) => pc[h] = "over"
    BY DEF JInv, BInv, HInv, BridgeInv, Completed, None
  <2>3. QED
    BY <2>1, <2>2, Reports DEF Judged
<1>2. QED
  BY <1>1, VerdictsInductive, PTL

\* Only an event that raises what nothing catches, when it is loaded (a required field
\* missing, created_at not a string, bytes that are not UTF-8) or when its session_id
\* becomes an argument of etroute, ends a bridge without an envelope.
THEOREM SilentOnlyIfUncaught == Spec => []EnvelopeUnlessUncaught
<1>1. JInv => EnvelopeUnlessUncaught
  BY DEF JInv, Judged, EnvelopeUnlessUncaught
<1>2. QED
  BY <1>1, VerdictsInductive, PTL

-----------------------------------------------------------------------------
(* The inductive invariant of the validation. *)

\* An envelope is the last thing a bridge changes.
Finished(h) == pc[h] = "over"

\* The two invocations follow one another, and what the report was made of is
\* still so: nothing changes an envelope or a guest that has ended.
StageInv ==
  /\ stage = "start" => pc[First] = "idle"
  /\ stage = "first" => pc[First] # "idle"
  /\ stage \in {"start", "first", "delay"} => pc[Second] = "idle"
  /\ stage = "second" => pc[Second] # "idle"
  /\ stage \in {"delay", "second", "judge", "passed", "failed"} => Finished(First)
  /\ stage \in {"judge", "passed", "failed"} => Finished(Second)
  /\ stage \in {"second", "judge", "passed", "failed"} /\ Completed(First)
       => pc[Second] # "idle" /\ First \in earlier[Second]
  /\ stage # "crashed" => killed = {}
  /\ stage = "passed" => /\ Completed(First) /\ Completed(Second)
                         /\ activated[Second] = "persistent"

DInv == BInv /\ DeviceTypeOK /\ StageInv

LEMMA DInitially == DeviceInit => DInv
<1> SUFFICES ASSUME DeviceInit PROVE DInv
  OBVIOUS
<1>1. BInv
  BY BInitially DEF DeviceInit
<1>2. StageInv
  BY RunsAssumption DEF DeviceInit, Init, StageInv
<1>3. QED
  BY <1>1, <1>2 DEF DInv, DeviceTypeOK, DeviceInit, BInv

\* What a step of the bridges or below them never undoes.
LEMMA StepIsOrderly ==
  ASSUME BInv, NEW i \in Handshake,
         Invoke(i) \/ Bridge(i) \/ TimePasses(i) \/ Below(i)
  PROVE  /\ \A h \in Handshake :
              Finished(h) => /\ pc'[h] = "over" /\ envelope'[h] = envelope[h]
                             /\ earlier'[h] = earlier[h]
         /\ \A h \in Handshake :
              guest[h] = "ended" => activated'[h] = activated[h]
         /\ \A h \in Handshake : pc[h] # "idle" =>
              pc'[h] # "idle" /\ earlier'[h] = earlier[h]
         /\ \A h \in Handshake : pc'[h] # pc[h] => h = i
         /\ ~Invoke(i) => \A h \in Handshake : pc[h] = "idle" => pc'[h] = "idle"
<1>1. CASE Invoke(i)
  BY <1>1 DEF BInv, TypeOK, Finished, Invoke, Goto, below
<1>2. CASE Load(i)
  BY <1>2 DEF BInv, TypeOK, Finished, Load, Emit, Goto, below
<1>3. CASE Launch(i)
  BY <1>3 DEF BInv, TypeOK, Finished, Launch, Emit, Goto
<1>4. CASE Expire(i)
  BY <1>4 DEF BInv, TypeOK, Finished, Expire, Emit, Goto
<1>5. CASE Returns(i)
  BY <1>5 DEF BInv, TypeOK, Finished, Returns, Goto, below
<1>6. CASE Judge(i)
  BY <1>6 DEF BInv, TypeOK, Finished, Judge, Emit, Goto, below
<1>7. CASE TimePasses(i)
  BY <1>7 DEF BInv, TypeOK, Finished, TimePasses, below
<1>8. CASE Below(i)
  <2>1. UNCHANGED <<pc, envelope, earlier>>
    BY <1>8 DEF Below, GuestStarts, LooksForMarker, WritesMarker, PrintsReport,
       GuestEnds, EtrouteExits, bridge
  <2>2. \A h \in Handshake : guest[h] = "ended" => activated'[h] = activated[h]
    BY <1>8 DEF BInv, TypeOK, Below, GuestStarts, LooksForMarker, WritesMarker,
       PrintsReport, GuestEnds, EtrouteExits, Running
  <2>3. QED
    BY <2>1, <2>2 DEF Finished
<1>9. QED
  BY <1>1, <1>2, <1>3, <1>4, <1>5, <1>6, <1>7, <1>8 DEF Bridge

\* Stages in which an invocation is over are not disturbed by what still happens.
LEMMA StageKept ==
  ASSUME DInv, NEW i \in Handshake, UNCHANGED validation,
         \/ i \notin {First, Second} /\ Invoke(i)
         \/ Bridge(i) \/ TimePasses(i) \/ Below(i)
  PROVE  DInv'
<1> USE RunsAssumption
<1>1. BInv /\ BInv' /\ StageInv
  BY StepKeeps DEF DInv
<1>2. DeviceTypeOK'
  BY <1>1 DEF DInv, DeviceTypeOK, BInv, validation
<1>3. \A h \in {First, Second} : /\ pc[h] = "idle" => pc'[h] = "idle"
                                 /\ pc[h] # "idle" => /\ pc'[h] # "idle"
                                                      /\ earlier'[h] = earlier[h]
                                 /\ Finished(h) => /\ pc'[h] = "over"
                                                   /\ envelope'[h] = envelope[h]
                                 /\ guest[h] = "ended"
                                      => activated'[h] = activated[h]
  <2>1. \A h \in {First, Second} : pc[h] = "idle" => pc'[h] = "idle"
    <3>1. CASE Invoke(i) /\ i \notin {First, Second}
      BY <1>1, <3>1, StepIsOrderly
    <3>2. CASE ~Invoke(i)
      BY <1>1, <3>2, StepIsOrderly
    <3>3. CASE Invoke(i) /\ i \in {First, Second}
      BY <3>3 DEF Bridge, Below, Invoke, Load, Launch, Expire, Returns, Judge,
         TimePasses, GuestStarts, LooksForMarker, WritesMarker, PrintsReport,
         GuestEnds, EtrouteExits, bridge, below, Goto, DInv, BInv, TypeOK
    <3>4. QED
      BY <3>1, <3>2, <3>3
  <2>2. QED
    BY <1>1, <2>1, StepIsOrderly
<1>4. Completed(Second) => guest[Second] = "ended"
  BY <1>1 DEF BInv, HInv, Proven, Completed
<1>5. stage' = stage /\ killed' = killed
  BY DEF validation
<1>6. StageInv'
  BY <1>1, <1>3, <1>4, <1>5 DEF StageInv, Finished, Completed
<1>7. QED
  BY <1>1, <1>2, <1>6 DEF DInv

LEMMA RunFirstKeeps ==
  ASSUME DInv, RunFirst
  PROVE  DInv'
<1>1. BInv /\ BInv' /\ StageInv
  BY RunsAssumption, StepKeeps, StutterKeeps DEF DInv, RunFirst, RunBridge
<1>2. DeviceTypeOK'
  BY <1>1 DEF DInv, DeviceTypeOK, BInv, RunFirst, RunBridge
<1>3. StageInv'
  BY <1>1, RunsAssumption
  DEF StageInv, RunFirst, RunBridge, Invoke, Goto, BInv, TypeOK
<1>4. QED
  BY <1>1, <1>2, <1>3 DEF DInv

LEMMA RunSecondKeeps ==
  ASSUME DInv, RunSecond
  PROVE  DInv'
<1>1. BInv /\ BInv' /\ StageInv
  BY RunsAssumption, StepKeeps DEF DInv, RunSecond, RunBridge
<1>2. DeviceTypeOK'
  BY <1>1 DEF DInv, DeviceTypeOK, BInv, RunSecond, RunBridge
<1>3. /\ stage = "delay" /\ stage' = "second" /\ killed' = killed
      /\ pc' = [pc EXCEPT ![Second] = "load"]
      /\ earlier'[Second] = {g \in Handshake : Completed(g)}
      /\ envelope' = envelope
  BY RunsAssumption DEF RunSecond, RunBridge, Invoke, Goto, DInv, BInv, TypeOK
<1>4. pc'[Second] = "load" /\ pc'[First] = pc[First]
  BY <1>1, <1>3, RunsAssumption DEF BInv, TypeOK
<1>5. StageInv'
  BY <1>1, <1>3, <1>4, RunsAssumption DEF StageInv, Finished, Completed
<1>6. QED
  BY <1>1, <1>2, <1>5 DEF DInv

LEMMA BridgeReturnsKeeps ==
  ASSUME DInv, BridgeReturns(First, "first", "delay")
               \/ BridgeReturns(Second, "second", "judge")
  PROVE  DInv'
<1>1. BInv /\ BInv' /\ StageInv
  BY StutterKeeps DEF DInv, BridgeReturns
<1>2. DeviceTypeOK'
  BY <1>1 DEF DInv, DeviceTypeOK, BInv, BridgeReturns
<1>3. UNCHANGED <<pc, envelope, earlier, activated, killed>>
  BY DEF BridgeReturns, vars, bridge, below
<1>4. StageInv'
  BY <1>1, <1>3 DEF StageInv, Finished, Completed, BridgeReturns
<1>5. QED
  BY <1>1, <1>2, <1>4 DEF DInv

\* A bridge killed by the outer timeout leaves no envelope.
LEMMA OuterExpiresKeeps ==
  ASSUME DInv, NEW h \in Handshake, NEW from, OuterExpires(h, from)
  PROVE  DInv'
<1>1. BInv /\ HInv(h) /\ pc[h] # "over"
  BY DEF DInv, BInv, OuterExpires
<1>2. UNCHANGED <<event, script, due, envelope, earlier, etroute, guest,
                  activated, code, marker>>
  BY DEF OuterExpires, below
<1>3. pc' = [pc EXCEPT ![h] = "over"]
  BY DEF OuterExpires, Goto
<1>4. TypeOK' /\ Leaves(h) /\ pc'[h] = "over"
  BY <1>1, <1>2, <1>3 DEF BInv, TypeOK, Leaves
<1>5. HInv(h)'
  BY <1>1, <1>2, <1>4
  DEF HInv, BridgeInv, GuestInv, MarkerInv, Proven, Completed
<1>6. BInv'
  BY <1>1, <1>4, <1>5, OneStep
<1>7. DeviceTypeOK' /\ StageInv'
  BY <1>4 DEF DInv, DeviceTypeOK, StageInv, OuterExpires
<1>8. QED
  BY <1>6, <1>7 DEF DInv

LEMMA EvaluateKeeps ==
  ASSUME DInv, Evaluate
  PROVE  DInv'
<1>1. BInv /\ BInv' /\ StageInv
  BY StutterKeeps DEF DInv, Evaluate
<1>2. /\ stage = "judge" /\ stage' \in {"passed", "failed"}
      /\ stage' = "passed" => /\ Completed(First) /\ Completed(Second)
                              /\ activated[Second] = "persistent"
  BY DEF Evaluate
<1>3. UNCHANGED <<pc, envelope, earlier, activated, killed>>
  BY DEF Evaluate, vars, bridge, below
<1>4. DeviceTypeOK' /\ StageInv'
  BY <1>1, <1>2, <1>3 DEF DInv, DeviceTypeOK, BInv, StageInv, Finished, Completed
<1>5. QED
  BY <1>1, <1>4 DEF DInv

LEMMA DeviceStep == DInv /\ [DeviceNext]_allVars => DInv'
<1> SUFFICES ASSUME DInv, [DeviceNext]_allVars PROVE DInv'
  OBVIOUS
<1>1. CASE Main
  BY <1>1, RunsAssumption, RunFirstKeeps, RunSecondKeeps, BridgeReturnsKeeps,
     OuterExpiresKeeps, EvaluateKeeps DEF Main
<1>2. CASE Meanwhile /\ UNCHANGED validation
  BY <1>2, StageKept DEF Meanwhile
<1>3. CASE UNCHANGED allVars
  <2>1. BInv' /\ UNCHANGED <<pc, envelope, earlier, activated, stage, killed>>
    BY <1>3, StutterKeeps
    DEF DInv, allVars, validation, vars, bridge, below
  <2>2. DeviceTypeOK' /\ StageInv'
    BY <2>1 DEF DInv, BInv, DeviceTypeOK, StageInv, Finished, Completed
  <2>3. QED
    BY <2>1, <2>2 DEF DInv
<1>4. QED
  BY <1>1, <1>2, <1>3 DEF DeviceNext

LEMMA DInvSays == DInv => DeviceTypeOK /\ PassIsEarned
<1> SUFFICES ASSUME DInv PROVE DeviceTypeOK /\ PassIsEarned
  OBVIOUS
<1>1. BInv /\ StageInv /\ DeviceTypeOK
  BY DEF DInv
<1>2. \A h \in {First, Second} : Completed(h) =>
        guest[h] = "ended" /\ code[h] = 0 /\ marker = TRUE
  BY <1>1, RunsAssumption DEF BInv, HInv, Proven, Completed
<1>3. PassIsEarned
  BY <1>1, <1>2 DEF PassIsEarned, StageInv, Finished
<1>4. QED
  BY <1>1, <1>3

THEOREM Inductive == DeviceSpec => []DInv
  BY DInitially, DeviceStep, PTL DEF DeviceSpec

-----------------------------------------------------------------------------
(* What follows. *)

\* The state stays within its types.
THEOREM TypeCorrect == DeviceSpec => []DeviceTypeOK
  BY DInvSays, Inductive, PTL

\* PASS is reported only of two bridges of this validation, one after the other,
\* whose guests ended well and found the marker the second time.
THEOREM PassEarned == DeviceSpec => []PassIsEarned
  BY DInvSays, Inductive, PTL

\* The envelopes of all handshakes, ETumax's included, are sound under the
\* validation and its outer timeout too.
THEOREM EnvelopesSound == DeviceSpec => []HandshakeProven
<1>1. DInv => HandshakeProven
  BY BInvSays DEF DInv
<1>2. QED
  BY <1>1, Inductive, PTL

\* No handshake begun after a completed one reports a first activation.
THEOREM FirstActivationOnce == DeviceSpec => []OneFirstActivation
<1>1. DInv => OneFirstActivation
  BY BInvSays DEF DInv
<1>2. QED
  BY <1>1, Inductive, PTL

\* A bridge that the validation kills has left its caller without an answer, which
\* the contract allows; so under the validation too the bridges implement it.
THEOREM HandshakesKeptUnderValidation == DeviceSpec => KeepsHandshakeContract
<1>1. DeviceInit => Contract!Init
  BY ContractInitially DEF DeviceInit
<1>2. ASSUME DInv, NEW h \in {First, Second},
             NEW from, from = IF h = First THEN "first" ELSE "second",
             OuterExpires(h, from)
      PROVE  Contract!Next
  <2>1. BInv /\ h \in Handshake /\ pc[h] # "over" /\ envelope[h] = None
    BY <1>2, RunsAssumption DEF DInv, BInv, HInv, BridgeInv, OuterExpires
  <2>2. UNCHANGED <<event, envelope, earlier, etroute, guest, activated, code, marker>>
    BY <1>2 DEF OuterExpires, below
  <2>3. pc' = [pc EXCEPT ![h] = "over"]
    BY <1>2 DEF OuterExpires, Goto
  <2>4. Leaves(h) /\ pc'[h] = "over"
    BY <2>1, <2>2, <2>3 DEF BInv, TypeOK, Leaves
  <2>5. AnswerOf(h)' = "silent"
    BY <2>1, <2>2, <2>4 DEF AnswerOf, Said, Completed, None
  <2>6. pc[h] # "idle"
    BY <1>2, RunsAssumption DEF DInv, StageInv, OuterExpires
  <2>7. QED
    BY <2>1, <2>2, <2>4, <2>5, <2>6, NotYetSaid, Replied
<1>3. DInv /\ [DeviceNext]_allVars => [Contract!Next]_(Contract!vars)
  <2> SUFFICES ASSUME DInv, [DeviceNext]_allVars
               PROVE  [Contract!Next]_(Contract!vars)
    OBVIOUS
  <2>1. BInv
    BY DEF DInv
  <2>2. ASSUME NEW i \in Handshake,
               Invoke(i) \/ Bridge(i) \/ TimePasses(i) \/ Below(i)
        PROVE  [Contract!Next]_(Contract!vars)
    BY <2>1, <2>2, StepSeen
  <2>3. CASE RunFirst \/ RunSecond
    BY <2>2, <2>3, RunsAssumption, StutterUnseen DEF RunFirst, RunSecond, RunBridge
  <2>4. CASE \/ BridgeReturns(First, "first", "delay")
             \/ BridgeReturns(Second, "second", "judge") \/ Evaluate
    BY <2>4, StutterUnseen DEF BridgeReturns, Evaluate
  <2>5. CASE OuterExpires(First, "first") \/ OuterExpires(Second, "second")
    BY <1>2, <2>5, RunsAssumption
  <2>6. CASE Meanwhile
    BY <2>2, <2>6 DEF Meanwhile
  <2>7. CASE UNCHANGED allVars
    BY <2>7, StutterUnseen DEF allVars
  <2>8. QED
    BY <2>3, <2>4, <2>5, <2>6, <2>7 DEF DeviceNext, Main
<1>4. QED
  BY <1>1, <1>3, Inductive, PTL
     DEF DeviceSpec, KeepsHandshakeContract, Contract!Spec

-----------------------------------------------------------------------------
(* The validation needs a diagnostic that follows the contract. *)

\* Under the validation too, whose outer timeout leaves a killed bridge's etroute
\* running, only a diagnostic that validate_diagnostic accepts completes.
Accepted == \A h \in Handshake : Completed(h) => script[h] # "shipped"

\* With the diagnostic that ships with the repository there is no PASS.
PassNeedsContract ==
  stage = "passed" => script[First] # "shipped" /\ script[Second] # "shipped"

LEMMA AcceptedKept ==
  ASSUME BInv, Accepted, NEW i \in Handshake,
         Invoke(i) \/ Bridge(i) \/ TimePasses(i) \/ Below(i)
  PROVE  Accepted' /\ script' = script
<1>1. script' = script
  BY DEF Invoke, Bridge, Load, Launch, Expire, Returns, Judge, TimePasses,
     Below, GuestStarts, LooksForMarker, WritesMarker, PrintsReport, GuestEnds,
     EtrouteExits, bridge
<1>2. ASSUME NEW h \in Handshake, Completed(h)' PROVE script[h] # "shipped"
  <2>1. CASE Judge(i)
    <3>1. CASE Completed(h)
      BY <3>1 DEF Accepted
    <3>2. CASE ~Completed(h)
      <4>1. h = i /\ ValidateDiagnostic(i)
        BY <1>2, <2>1, <3>2 DEF BInv, TypeOK, Judge, Emit, Completed
      <4>2. QED
        BY <4>1, Reports
    <3>3. QED
      BY <3>1, <3>2
  <2>2. CASE Invoke(i) \/ Returns(i) \/ TimePasses(i) \/ Below(i)
    <3>1. envelope' = envelope
      BY <2>2 DEF Invoke, Returns, TimePasses, Below, GuestStarts, LooksForMarker,
         WritesMarker, PrintsReport, GuestEnds, EtrouteExits, bridge
    <3>2. QED
      BY <1>2, <3>1 DEF Accepted, Completed
  <2>3. CASE Load(i) \/ Launch(i) \/ Expire(i)
    <3>1. Completed(h)
      BY <1>2, <2>3 DEF BInv, TypeOK, Load, Launch, Expire, Emit, Completed
    <3>2. QED
      BY <3>1 DEF Accepted
  <2>4. QED
    BY <2>1, <2>2, <2>3 DEF Bridge
<1>3. QED
  BY <1>1, <1>2 DEF Accepted

\* A validation whose guests run the shipped diagnostic never passes, whatever
\* they find and however often it is tried.
THEOREM NoPassAsShipped == DeviceSpec => []PassNeedsContract
<1>1. DeviceInit => Accepted
  BY DEF DeviceInit, Init, Accepted, Completed, None
<1>2. DInv /\ Accepted /\ [DeviceNext]_allVars => Accepted'
  <2> SUFFICES ASSUME DInv, Accepted, [DeviceNext]_allVars PROVE Accepted'
    OBVIOUS
  <2>1. BInv
    BY DEF DInv
  <2>2. CASE RunFirst \/ RunSecond \/ Meanwhile
    <3>1. \/ \E i \in Handshake : Invoke(i) \/ Bridge(i) \/ TimePasses(i) \/ Below(i)
          \/ UNCHANGED vars
      BY <2>2, RunsAssumption DEF RunFirst, RunSecond, RunBridge, Meanwhile
    <3>2. CASE UNCHANGED vars
      BY <3>2 DEF vars, bridge, Accepted, Completed
    <3>3. QED
      BY <2>1, <3>1, <3>2, AcceptedKept
  <2>3. ASSUME envelope' = envelope, script' = script PROVE Accepted'
    BY <2>3 DEF Accepted, Completed
  <2>4. CASE \/ BridgeReturns(First, "first", "delay")
             \/ BridgeReturns(Second, "second", "judge") \/ Evaluate
    BY <2>3, <2>4 DEF BridgeReturns, Evaluate, vars, bridge
  <2>5. CASE OuterExpires(First, "first") \/ OuterExpires(Second, "second")
    BY <2>3, <2>5 DEF OuterExpires
  <2>6. CASE UNCHANGED allVars
    BY <2>3, <2>6 DEF allVars, vars, bridge
  <2>7. QED
    BY <2>2, <2>4, <2>5, <2>6 DEF DeviceNext, Main
<1>3. DInv /\ Accepted => PassNeedsContract
  BY RunsAssumption DEF DInv, StageInv, Accepted, PassNeedsContract
<1>4. QED
  BY <1>1, <1>2, <1>3, Inductive, PTL DEF DeviceSpec
=============================================================================
