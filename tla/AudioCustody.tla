------------------------------ MODULE AudioCustody -----------------------------
(***************************************************************************)
(* What the phone page, js/phone-calls.js over tours/day-recorder.js,      *)
(* promises about the audio of a call, with no tabs, locks, rows, answers  *)
(* or retries: a recording grows on the device until it is sealed; then it *)
(* never changes; the call service is only ever given all of it; and the   *)
(* device lets go of it only when the service has it and has handed it on. *)
(***************************************************************************)
EXTENDS Naturals

CONSTANTS Recordings, MaxBytes

VARIABLES
  device,   \* device[n]: the bytes the device holds
  sealed,   \* sealed[n]: nothing is added any more
  service,  \* service[n]: the bytes the service holds
  handed    \* handed[n]: the service has handed them on, and needs no device

vars == <<device, sealed, service, handed>>

Init ==
  /\ device = [n \in Recordings |-> 0]
  /\ sealed = [n \in Recordings |-> FALSE]
  /\ service = [n \in Recordings |-> 0]
  /\ handed = [n \in Recordings |-> FALSE]

\* More audio is kept; a file is imported whole, which seals it as well.
Grow(n) ==
  /\ ~ sealed[n]
  /\ \E z \in (device[n] + 1) .. MaxBytes : device' = [device EXCEPT ![n] = z]
  /\ \E s \in BOOLEAN : sealed' = [sealed EXCEPT ![n] = s]
  /\ UNCHANGED <<service, handed>>

Seal(n) ==
  /\ ~ sealed[n]
  /\ sealed' = [sealed EXCEPT ![n] = TRUE]
  /\ UNCHANGED <<device, service, handed>>

\* The service is given the recording, again where it forgot it or its answer
\* was lost.
Upload(n) ==
  /\ sealed[n] /\ device[n] > 0 /\ ~ handed[n]
  /\ service' = [service EXCEPT ![n] = device[n]]
  /\ \E h \in BOOLEAN : handed' = [handed EXCEPT ![n] = h]
  /\ UNCHANGED <<device, sealed>>

HandOn(n) ==
  /\ service[n] > 0
  /\ handed' = [handed EXCEPT ![n] = TRUE]
  /\ UNCHANGED <<device, sealed, service>>

Forget(n) ==
  /\ ~ handed[n]
  /\ service' = [service EXCEPT ![n] = 0]
  /\ UNCHANGED <<device, sealed, handed>>

Release(n) ==
  /\ handed[n] /\ service[n] = device[n]
  /\ device' = [device EXCEPT ![n] = 0]
  /\ UNCHANGED <<sealed, service, handed>>

Next ==
  \E n \in Recordings :
    Grow(n) \/ Seal(n) \/ Upload(n) \/ HandOn(n) \/ Forget(n) \/ Release(n)

Spec == Init /\ [][Next]_vars
================================================================================
