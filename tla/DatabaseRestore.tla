--------------------------- MODULE DatabaseRestore ---------------------------
(***************************************************************************)
(* What restoring a blockchain archive promises about the node's database: *)
(* a request wants one archive.  Its directories are replaced by that      *)
(* archive's, all of them before "ok" is answered; an interrupted copy     *)
(* leaves each directory old, absent, partial or replaced, and is never    *)
(* answered "ok".                                                          *)
(***************************************************************************)
CONSTANTS Archives, Dirs, Reset, None

VARIABLES database, wanted, phase
vars == <<database, wanted, phase>>

Answered == {"idle", "ok", "failed", "lost"}

Init ==
  /\ database \in [Dirs -> Archives \cup {"own", "absent"}]
  /\ wanted = None
  /\ phase = "idle"

Request ==
  /\ phase \in Answered
  /\ phase' \in {"asked", "failed"}
  /\ wanted' = None
  /\ UNCHANGED database

Want ==
  /\ phase = "asked" /\ wanted = None
  /\ wanted' \in Archives
  /\ UNCHANGED <<database, phase>>

Replace ==
  /\ phase = "asked" /\ wanted # None
  /\ \E replaced \in (SUBSET Dirs) \ {{}} :
       database' = [d \in Dirs |-> IF d \in replaced THEN wanted
                                   ELSE IF d \in Reset THEN "absent" ELSE database[d]]
  /\ phase' \in {"replaced", "ok", "failed"}
  /\ UNCHANGED wanted

Tear ==
  /\ phase = "asked" /\ wanted # None
  /\ database' \in [Dirs -> Archives \cup {"own", "absent", "partial"}]
  /\ \A d \in Dirs : database'[d] \in {database[d], "absent", "partial", wanted}
  /\ phase' \in {"torn", "failed", "lost"}
  /\ UNCHANGED wanted

Answer ==
  /\ \/ phase = "replaced" /\ phase' \in {"ok", "failed"}
     \/ phase \in {"asked", "torn"} /\ phase' = "failed"
  /\ UNCHANGED <<database, wanted>>

\* The application ends while it restores.
Lose ==
  /\ phase \notin Answered
  /\ phase' = "lost"
  /\ UNCHANGED <<database, wanted>>

Next == Request \/ Want \/ Replace \/ Tear \/ Answer \/ Lose

RestoreSpec == Init /\ [][Next]_vars
=============================================================================
