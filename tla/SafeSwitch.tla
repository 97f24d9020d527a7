----------------------------- MODULE SafeSwitch -----------------------------
(***************************************************************************)
(* What POST /config/apply promises about HAProxy, without releases on     *)
(* disk, bridges, waits or Coraza: a switch from one release to another    *)
(* that a caller can trust.  `active` is the release a start of HAProxy    *)
(* would run, `running` the one it runs.  While a switch is in progress    *)
(* nothing but its target and the release it started from is ever active,  *)
(* HAProxy only ever takes up the active release, and the answer is true.  *)
(***************************************************************************)
CONSTANTS Id, Nothing, Placeholder

VARIABLES active, running, busy, target, fallback, answer

ssVars == <<active, running, busy, target, fallback, answer>>

Answer == {"none", "switched", "kept", "unknown"}

SSTypeOK ==
    /\ active \in Id \cup {Nothing, Placeholder}
    /\ running \in Id \cup {Nothing, Placeholder}
    /\ busy \in BOOLEAN
    /\ target \in Id \cup {Nothing, Placeholder}
    /\ fallback \in Id \cup {Nothing, Placeholder}
    /\ answer \in Answer

SSInit ==
    /\ active = Nothing /\ running = Nothing
    /\ busy = FALSE
    /\ target = Placeholder /\ fallback = Nothing
    /\ answer = "none"

\* A caller asks for a new release; the fallback is whatever is active.
Begin ==
    /\ ~busy
    /\ target' \in Id \ {active, running, target}
    /\ fallback' = active
    /\ \/ busy' = TRUE /\ answer' = "none"
       \/ busy' = FALSE /\ answer' = "kept"
    /\ UNCHANGED <<active, running>>

Activate ==
    /\ busy
    /\ active' \in {target, fallback}
    /\ UNCHANGED <<running, busy, target, fallback, answer>>

\* HAProxy takes up the active release: a reload of the switch, of the GeoIP
\* refresh or a start.  Without one it starts from the placeholder.
Load ==
    /\ IF active = Nothing THEN active' = Placeholder ELSE UNCHANGED active
    /\ running' = active'
    /\ UNCHANGED <<busy, target, fallback, answer>>

\* The answer: "switched" only if HAProxy runs the target, "kept" only if the
\* fallback is active again.  A last reload may come with it.
End ==
    /\ busy /\ busy' = FALSE
    /\ running' \in {running, active}
    /\ \/ answer' = "switched" /\ active = target /\ running' = target
       \/ /\ answer' = "kept"
          /\ active = fallback \/ (active = Placeholder /\ fallback = Nothing)
       \/ answer' = "unknown"
    /\ UNCHANGED <<active, target, fallback>>

\* The backend stops, or starts and replaces the placeholder.
Interrupt ==
    /\ busy' = FALSE /\ answer' = "none"
    /\ UNCHANGED <<active, running, target, fallback>>

Replace ==
    /\ ~busy /\ active \in {Nothing, Placeholder}
    /\ \/ active' = Placeholder /\ UNCHANGED target
       \/ target' \in Id \ {active, running, target} /\ active' = target'
    /\ UNCHANGED <<running, busy, fallback, answer>>

SSNext == Begin \/ Activate \/ Load \/ End \/ Interrupt \/ Replace

SSSpec == SSInit /\ [][SSNext]_ssVars
=============================================================================
