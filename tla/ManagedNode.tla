----------------------------- MODULE ManagedNode -----------------------------
(***************************************************************************)
(* What the supervisor promises to the rest of the application: there is   *)
(* one managed node.  A process is started only after the previous one was *)
(* seen to close, and a process that was told to stop, or that died, never *)
(* counts as running again.                                                *)
(***************************************************************************)
CONSTANTS Ids, None

VARIABLES current, phase

Init == current = None /\ phase = "down"

Start ==
  /\ phase = "down"
  /\ current' \in Ids \ {current}
  /\ phase' = "running"

\* A signal was sent, or the process died by itself.
End ==
  /\ phase = "running"
  /\ phase' = "ending"
  /\ UNCHANGED current

Close ==
  /\ phase = "ending"
  /\ phase' = "down"
  /\ UNCHANGED current

Next == Start \/ End \/ Close

Spec == Init /\ [][Next]_<<current, phase>>
=============================================================================
