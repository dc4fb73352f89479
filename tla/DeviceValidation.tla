--------------------------- MODULE DeviceValidation ---------------------------
(***************************************************************************)
(* tools/android_device_validation.py on top of the bridge: a fresh        *)
(* directory for the evidence, two invocations of the bridge one after the *)
(* other, each with a timeout of its own around the bridge's, and a report *)
(* on what both envelopes say.  ETumax may invoke the bridge for the same  *)
(* environment meanwhile.                                                  *)
(***************************************************************************)
EXTENDS EtumaxBridge

CONSTANTS First, Second  \* the handshakes of its two runs

ASSUME RunsAssumption == {First, Second} \subseteq Handshake /\ First # Second

VARIABLES
  stage,   \* where main is
  killed   \* the handshakes whose bridge was killed by it

validation == <<stage, killed>>
allVars    == <<vars, validation>>

DeviceTypeOK ==
  /\ TypeOK
  /\ stage \in {"start", "first", "delay", "second", "judge",
                "passed", "failed", "crashed"}
  /\ killed \in SUBSET Handshake

DeviceInit ==
  /\ Init /\ event[First] = "none" /\ event[Second] = "none"
  /\ stage = "start" /\ killed = {}

-----------------------------------------------------------------------------
\* run_bridge starts the bridge, without an event and with identifiers made of
\* the run's.
RunBridge(h, from, to) ==
  /\ stage = from /\ stage' = to
  /\ Invoke(h)
  /\ UNCHANGED killed

\* The directory for the evidence must be new: the identifier of an earlier run
\* ends the validation before it begins.
RunFirst ==
  \/ RunBridge(First, "start", "first")
  \/ stage = "start" /\ stage' = "crashed" /\ UNCHANGED <<vars, killed>>

\* Variant: the second run does not wait for the first.
RunSecondAtOnce == RunBridge(Second, "first", "second")

RunSecond == RunBridge(Second, "delay", "second")

\* Variant: a run that failed is waited for until it succeeds.
BridgeSucceeds(h, from, to) ==
  /\ stage = from /\ Completed(h) /\ stage' = to
  /\ UNCHANGED <<vars, killed>>

\* The bridge has exited and its envelope, if any, is read.
BridgeReturns(h, from, to) ==
  /\ stage = from /\ pc[h] = "over" /\ stage' = to
  /\ UNCHANGED <<vars, killed>>

\* Variant: the bridge is left running.
OuterExpiresKeeping(h, from) ==
  /\ stage = from /\ pc[h] # "over"
  /\ stage' = "failed"
  /\ UNCHANGED <<vars, killed>>

\* The timeout of the run, 10 seconds after the bridge's own, which the bridge may
\* still be handling: subprocess.run kills the bridge, not what runs below it, and
\* raises TimeoutExpired, which nothing catches: there is no report.
OuterExpires(h, from) ==
  /\ stage = from /\ pc[h] # "over"
  /\ Goto(h, "over")
  /\ killed' = killed \cup {h}
  /\ stage' = "crashed"
  /\ UNCHANGED <<event, script, due, envelope, earlier, below>>

\* evaluate.  The binds and the caller repeat what the bridge has checked, the
\* identifiers differ by the run's number; the kernel release, the uptimes and
\* the place of the marker may each be wrong.
Evaluate ==
  /\ stage = "judge"
  /\ \E kernel, uptime, place \in BOOLEAN :
       stage' = IF /\ Completed(First) /\ activated[First] # "error"
                   /\ Completed(Second) /\ activated[Second] = "persistent"
                   /\ kernel /\ uptime /\ place
                  THEN "passed" ELSE "failed"
  /\ UNCHANGED <<vars, killed>>

\* The bridges and what runs below them, and ETumax with handshakes of its own.
Meanwhile == \E h \in Handshake :
  \/ h \notin {First, Second} /\ Invoke(h)
  \/ Bridge(h) \/ TimePasses(h) \/ Below(h)

Main == \/ RunFirst
        \/ BridgeReturns(First, "first", "delay") \/ OuterExpires(First, "first")
        \/ RunSecond
        \/ BridgeReturns(Second, "second", "judge") \/ OuterExpires(Second, "second")
        \/ Evaluate

DeviceNext ==
  \/ Main
  \/ Meanwhile /\ UNCHANGED validation

DeviceSpec == DeviceInit /\ [][DeviceNext]_allVars

BridgesRun == /\ \E h \in Handshake : Bridge(h) \/ TimePasses(h)
              /\ UNCHANGED validation

\* main runs, its timeout included, and so do the bridges and theirs.  There are
\* finitely many steps of bridges, so that all of them can be one action here.
\* Nothing obliges a guest to end.
DeviceFairSpec == /\ DeviceSpec
                  /\ WF_allVars(Main) /\ WF_allVars(BridgesRun)

-----------------------------------------------------------------------------
(* Properties. *)

\* A report is only of bridges that ended by themselves, one before the other was
\* begun; and PASS is only of two guests of these handshakes that ran to their end
\* and found nothing wrong, the later one with the marker already there,
\* whatever other handshakes and guests left over from them do.
PassIsEarned ==
  stage \in {"judge", "passed", "failed"} =>
    /\ pc[First] = "over" /\ pc[Second] = "over" /\ killed = {}
    /\ Completed(First) => First \in earlier[Second]
    /\ stage = "passed" =>
         /\ \A h \in {First, Second} : guest[h] = "ended" /\ code[h] = 0
         /\ activated[Second] = "persistent" /\ marker

\* Once it has started a bridge, the validation ends, in a report or in the
\* exception, although a guest hangs.
ValidationEnds == stage = "first" ~> stage \in {"passed", "failed", "crashed"}
=============================================================================
