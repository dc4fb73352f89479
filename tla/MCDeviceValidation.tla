-------------------------- MODULE MCDeviceValidation --------------------------
EXTENDS DeviceValidation

CONSTANTS One, Other  \* the handshakes of ETumax

\* Bounds for TLC.  Either two handshakes of ETumax, one of them with any event and
\* any diagnostic, and no validation; exit codes 10 and 11 are judged alike, so that
\* one of them, of one guest, is enough.  Or a validation after one handshake, whose guest may live on, without events, with a diagnostic that follows
\* the contract, and with nothing but the marker that may be wrong.
Uniform == \A h \in Handshake : event[h] = "none" /\ script[h] = "contract"

MCInit ==
  /\ DeviceInit /\ event[Other] = "none"
  /\ \A h \in {First, Second, Other} : script[h] = "contract"

Bound == \/ /\ Uniform /\ pc[Other] = "idle"
            /\ stage # "start" => pc[One] \in {"idle", "over"}
            /\ \A h \in Handshake : code[h] \notin {10, 11}
         \/ stage = "start" /\ code[Other] \notin {10, 11} /\ code[One] # 11

MCSpec ==
  /\ MCInit /\ [][DeviceNext /\ Bound']_allVars
  /\ WF_allVars(Main /\ Bound') /\ WF_allVars(BridgesRun)
=============================================================================
