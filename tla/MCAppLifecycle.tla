--------------------------- MODULE MCAppLifecycle ---------------------------
(* Finite instances of AppLifecycle for TLC. *)
EXTENDS AppLifecycle, TLC

\* One profile without modelled features: these runs are not about config.yml.
MCOnePlan == {[f \in Features |-> TRUE]}

WithoutAnswers == <<procVars, config, ext, op, pc, target, seen, spare, over, appVars>>
=============================================================================
