---------------------------- MODULE EtumaxBridge ----------------------------
(***************************************************************************)
(* tools/etumax_bridge.py and the processes below it: ETumax starts one    *)
(* bridge per handshake, the bridge runs `etroute diagnose` with a         *)
(* timeout, etroute runs the guest under PRoot, and the guest runs         *)
(* tools/first_activation_diagnostic.py, which leaves an activation marker *)
(* in the rootfs of the environment all handshakes share.                  *)
(*                                                                         *)
(* A report is the set of its fields that matter: those whose value is an  *)
(* object, and "marker" when activation.marker is one.                     *)
(***************************************************************************)
CONSTANTS
  Handshake,  \* invocations of the bridge for one environment
  Script      \* the diagnostics the guests run, of {"shipped", "contract"}

ASSUME ScriptAssumption == Script \subseteq {"shipped", "contract"}

VARIABLES
  event,     \* what each invocation got as its Event Protocol envelope
  script,    \* the diagnostic its guest runs
  pc,        \* where the bridge is
  due,       \* its timeout has passed
  etroute,   \* the `etroute diagnose` process
  guest,     \* the diagnostic process, by its next step
  activated, \* whether the guest wrote the marker, and what it had found
  code,      \* the guest's exit code, which etroute passes on
  marker,    \* the marker is in the rootfs
  envelope,  \* the terminal envelope, with its acknowledgement
  earlier    \* the handshakes that had completed when this one began

bridge == <<event, script, pc, due, envelope, earlier>>
below  == <<etroute, guest, activated, code, marker>>
vars   == <<bridge, below>>

\* "rejected" is one that does not parse, has another source or has expired.
\* "malformed" is one that raises what load_event does not catch: a required
\* field is missing, created_at is not a string, the file is not UTF-8.  "unlaunchable" is a good one whose
\* session_id cannot be an argument of a process: it has a NUL in it.
Event == {"none", "good", "conflict", "rejected", "malformed", "unlaunchable"}

None      == [state |-> "none", ack |-> "none", exit |-> 0]
Envelope  == [state : {"none", "COMPLETED", "FAILED"},
              ack : {"none", "accepted", "rejected"}, exit : {0, 20, 21, 22}]
Running   == {"look", "write", "print", "exit"}

TypeOK ==
  /\ event \in [Handshake -> Event]
  /\ script \in [Handshake -> Script]
  /\ pc \in [Handshake -> {"idle", "load", "launch", "wait", "judge", "over"}]
  /\ due \in [Handshake -> BOOLEAN]
  /\ etroute \in [Handshake -> {"none", "running", "exited", "killed"}]
  /\ guest \in [Handshake -> {"none", "failed", "ended"} \cup Running]
  /\ activated \in [Handshake -> {"no", "first_activation", "persistent", "error"}]
  /\ code \in [Handshake -> {0, 1, 10, 11, 12}]
  /\ marker \in BOOLEAN
  /\ envelope \in [Handshake -> Envelope]
  /\ earlier \in [Handshake -> SUBSET Handshake]

Init ==
  /\ event \in [Handshake -> Event]
  /\ script \in [Handshake -> Script]
  /\ pc = [h \in Handshake |-> "idle"]
  /\ due = [h \in Handshake |-> FALSE]
  /\ etroute = [h \in Handshake |-> "none"]
  /\ guest = [h \in Handshake |-> "none"]
  /\ activated = [h \in Handshake |-> "no"]
  /\ code = [h \in Handshake |-> 0]
  /\ marker = FALSE
  /\ envelope = [h \in Handshake |-> None]
  /\ earlier = [h \in Handshake |-> {}]

Completed(h) == envelope[h].state = "COMPLETED"

Goto(h, l) == pc' = [pc EXCEPT ![h] = l]

\* Variant: a failed diagnostic's own exit code becomes the bridge's.
EmitGuestCode(h, state, exit, loaded) ==
  /\ Goto(h, "over")
  /\ envelope' = [envelope EXCEPT ![h] =
       [state |-> state, exit |-> IF exit = 21 THEN code[h] ELSE exit,
        ack |-> IF loaded THEN "rejected" ELSE "none"]]

\* An envelope is printed and the bridge exits with the code that belongs to
\* it.  It acknowledges the event that was loaded, if any.
Emit(h, state, exit, loaded) ==
  /\ Goto(h, "over")
  /\ envelope' = [envelope EXCEPT ![h] =
       [state |-> state, exit |-> exit,
        ack |-> IF ~loaded THEN "none"
                ELSE IF state = "COMPLETED" THEN "accepted" ELSE "rejected"]]

HasEvent(h) == event[h] # "none"

-----------------------------------------------------------------------------
(* The bridge. *)

\* ETumax invokes it.
Invoke(h) ==
  /\ pc[h] = "idle" /\ Goto(h, "load")
  /\ earlier' = [earlier EXCEPT ![h] = {g \in Handshake : Completed(g)}]
  /\ UNCHANGED <<event, script, due, envelope, below>>

\* load_event and resolve_correlation.  An event that load_event refuses is
\* lost to the caller, which answers without acknowledging it; a conflict of
\* identifiers is found later and acknowledged.  A malformed one raises a TypeError
\* or a UnicodeDecodeError, which nothing catches.
Load(h) ==
  /\ pc[h] = "load"
  /\ \/ event[h] = "malformed" /\ Goto(h, "over") /\ UNCHANGED envelope
     \/ event[h] = "rejected" /\ Emit(h, "FAILED", 22, FALSE)
     \/ event[h] = "conflict" /\ Emit(h, "FAILED", 22, TRUE)
     \/ /\ event[h] \in {"none", "good", "unlaunchable"}
        /\ Goto(h, "launch") /\ UNCHANGED envelope
  /\ UNCHANGED <<event, script, due, earlier, below>>

\* subprocess.run starts etroute, or raises an OSError, or the ValueError of an
\* argument with a NUL, which nothing catches.
Launch(h) ==
  /\ pc[h] = "launch"
  /\ \/ /\ event[h] # "unlaunchable"
        /\ Goto(h, "wait")
        /\ etroute' = [etroute EXCEPT ![h] = "running"]
        /\ UNCHANGED envelope
     \/ Emit(h, "FAILED", 20, HasEvent(h)) /\ UNCHANGED etroute
     \/ event[h] = "unlaunchable" /\ Goto(h, "over") /\ UNCHANGED <<envelope, etroute>>
  /\ UNCHANGED <<event, script, due, earlier, guest, activated, code, marker>>

\* Variant: the bridge gives up only once something else has killed etroute.
ExpireNever(h) ==
  /\ pc[h] = "wait" /\ due[h] /\ etroute[h] = "killed"
  /\ Emit(h, "FAILED", 20, HasEvent(h))
  /\ UNCHANGED <<event, script, due, earlier, below>>

\* TimeoutExpired kills etroute, not what runs below it.
Expire(h) ==
  /\ pc[h] = "wait" /\ due[h] /\ etroute[h] = "running"
  /\ etroute' = [etroute EXCEPT ![h] = "killed"]
  /\ Emit(h, "FAILED", 20, HasEvent(h))
  /\ UNCHANGED <<event, script, due, earlier, guest, activated, code, marker>>

Returns(h) ==
  /\ pc[h] = "wait" /\ etroute[h] = "exited"
  /\ Goto(h, "judge")
  /\ UNCHANGED <<event, script, due, envelope, earlier, below>>

\* build_report of the diagnostic that ships with the repository, and the report
\* of one that follows the contract the bridge checks.
BuildReport(s) ==
  IF s = "shipped" THEN {"kernel", "binds", "activation"}
  ELSE {"resources", "device", "activation", "integration", "marker"}

\* Variant: the exit code of the diagnostic is not looked at.
ValidateReportOnly(h) ==
  {"resources", "device", "activation", "integration", "marker"}
    \subseteq BuildReport(script[h])

\* Whether the captured stdout is one report, the exit code 0, and the report
\* passes validate_diagnostic.  What it says of binds, kernel and identity
\* repeats the exit code and the command line and is left out.
ValidateDiagnostic(h) ==
  /\ guest[h] = "ended" /\ code[h] = 0
  /\ {"resources", "device", "activation", "integration", "marker"}
       \subseteq BuildReport(script[h])

Judge(h) ==
  /\ pc[h] = "judge"
  /\ IF ValidateDiagnostic(h) THEN Emit(h, "COMPLETED", 0, HasEvent(h))
                              ELSE Emit(h, "FAILED", 21, HasEvent(h))
  /\ UNCHANGED <<event, script, due, earlier, below>>

Bridge(h) == \/ Load(h) \/ Launch(h) \/ Expire(h) \/ Returns(h) \/ Judge(h)

TimePasses(h) ==
  /\ pc[h] = "wait" /\ ~due[h]
  /\ due' = [due EXCEPT ![h] = TRUE]
  /\ UNCHANGED <<event, script, pc, envelope, earlier, below>>

-----------------------------------------------------------------------------
(* cmd_diagnose and the guest. *)

\* etroute validates the rootfs and the binds and starts the guest, or fails.
GuestStarts(h) ==
  /\ etroute[h] = "running" /\ guest[h] = "none"
  /\ \/ guest' = [guest EXCEPT ![h] = "look"] /\ UNCHANGED code
     \/ /\ guest' = [guest EXCEPT ![h] = "failed"]
        /\ code' = [code EXCEPT ![h] = 1]
  /\ UNCHANGED <<bridge, etroute, activated, marker>>

\* marker_state: the test for the marker ...
LooksForMarker(h) ==
  /\ guest[h] = "look"
  /\ guest' = [guest EXCEPT ![h] = "write"]
  /\ activated' = [activated EXCEPT ![h] =
                     IF marker THEN "persistent" ELSE "first_activation"]
  /\ UNCHANGED <<bridge, etroute, code, marker>>

\* Variant: a marker that cannot be written is not noticed.
WritesMarkerUnchecked(h) ==
  /\ guest[h] = "write"
  /\ guest' = [guest EXCEPT ![h] = "print"]
  /\ marker' \in {marker, TRUE}
  /\ UNCHANGED <<bridge, etroute, activated, code>>

\* ... and its creation, an OSError of which is reported as state "error" although
\* the file may be there by then, created and not written.
WritesMarker(h) ==
  /\ guest[h] = "write"
  /\ guest' = [guest EXCEPT ![h] = "print"]
  /\ \/ marker' = TRUE /\ UNCHANGED activated
     \/ /\ activated' = [activated EXCEPT ![h] = "error"]
        /\ marker' \in {marker, TRUE}
  /\ UNCHANGED <<bridge, etroute, code>>

\* The report is printed.  The exit code is the first thing found wrong: binds,
\* kernel release, marker.
PrintsReport(h) ==
  /\ guest[h] = "print"
  /\ guest' = [guest EXCEPT ![h] = "exit"]
  /\ \E bind, kernel \in BOOLEAN :
       code' = [code EXCEPT ![h] = IF ~bind THEN 10
                                   ELSE IF ~kernel THEN 11
                                   ELSE IF activated[h] = "error" THEN 12
                                   ELSE 0]
  /\ UNCHANGED <<bridge, etroute, activated, marker>>

\* The guest ends, or is killed before it could.
GuestEnds(h) ==
  /\ \/ /\ guest[h] = "exit"
        /\ guest' = [guest EXCEPT ![h] = "ended"] /\ UNCHANGED code
     \/ /\ guest[h] \in Running
        /\ guest' = [guest EXCEPT ![h] = "failed"]
        /\ code' = [code EXCEPT ![h] = 1]
  /\ UNCHANGED <<bridge, etroute, activated, marker>>

\* run_proot returns the guest's exit code, and etroute exits with it.
EtrouteExits(h) ==
  /\ etroute[h] = "running" /\ guest[h] \in {"failed", "ended"}
  /\ etroute' = [etroute EXCEPT ![h] = "exited"]
  /\ UNCHANGED <<bridge, guest, activated, code, marker>>

Below(h) == \/ GuestStarts(h) \/ LooksForMarker(h) \/ WritesMarker(h)
            \/ PrintsReport(h) \/ GuestEnds(h) \/ EtrouteExits(h)

Next == \E h \in Handshake :
  Invoke(h) \/ Bridge(h) \/ TimePasses(h) \/ Below(h)

Spec == Init /\ [][Next]_vars

\* The bridge runs and its timeout passes.  Nothing obliges a guest to end.
FairSpec == Spec /\ \A h \in Handshake :
  WF_vars(Bridge(h)) /\ WF_vars(TimePasses(h))

-----------------------------------------------------------------------------
(* Properties. *)

\* A handshake begun after another one completed never reports a first
\* activation, whatever guests of timed-out handshakes still do.
OneFirstActivation == \A h \in Handshake :
  earlier[h] # {} => activated[h] # "first_activation"

\* An invocation ends although its guest hangs.
EveryHandshakeEnds == \A h \in Handshake : pc[h] = "load" ~> pc[h] = "over"

\* "The host-side bridge completes the proof by validating what it captured":
\* a handshake whose guest found nothing wrong, in time, is COMPLETED.
HealthyHandshakeCompletes == \A h \in Handshake :
  pc[h] = "over" /\ etroute[h] = "exited" /\ guest[h] = "ended" /\ code[h] = 0
    => Completed(h)

\* The bridge "emits one machine-readable terminal execution envelope": it never
\* ends without one.
AlwaysAnEnvelope == \A h \in Handshake :
  pc[h] = "over" => envelope[h].state # "none"

-----------------------------------------------------------------------------
(* The bridge implements HandshakeContract. *)

\* What an envelope tells the caller.  Its state, its exit code and its
\* acknowledgement must say the same, and none is printed before the end.
Said(h) ==
  LET e == envelope[h] IN
  CASE e = None -> "silent"
    [] Completed(h) /\ e.exit = 0 /\ (e.ack = "accepted" <=> event[h] = "good")
         -> "completed"
    [] e.state = "FAILED" /\ e.exit # 0 /\ e.ack # "accepted" -> "failed"
    [] OTHER -> "inconsistent"

answer == [h \in Handshake |->
  IF pc[h] = "over" THEN Said(h)
  ELSE IF envelope[h] # None THEN "inconsistent"
  ELSE IF pc[h] = "idle" THEN "unasked" ELSE "asked"]

work == [h \in Handshake |->
  IF guest[h] = "none" THEN "absent"
  ELSE IF guest[h] \in Running THEN "busy"
  ELSE IF guest[h] = "ended" /\ code[h] = 0 THEN "clean" ELSE "unclean"]

Contract == INSTANCE HandshakeContract WITH
  after <- earlier, found <- activated, mark <- marker

\* Whatever is refused, fails, times out or is killed, a bridge answers its
\* caller at most once and consistently, COMPLETED only for the guest of that
\* handshake, ended clean with its marker left, and nothing a guest left over
\* from another handshake does counts for it.
KeepsHandshakeContract == Contract!Spec
=============================================================================
