----------------------------- MODULE TuiDeploy -----------------------------
(***************************************************************************)
(* The asynchronous jobs of the TUI, src/main.cpp, with the script runs    *)
(* they start on the Pi (PublisherDeploy).  All callbacks run on one       *)
(* io_context thread, so each is one action; between them the operator     *)
(* presses keys and the jobs go on.                                        *)
(*                                                                         *)
(* The relay's check and deploy are the publisher's line for line, so one  *)
(* of the two is modelled.  The text of the views is left out.             *)
(***************************************************************************)
EXTENDS PublisherDeploy

CONSTANT MaxQueries  \* bound: docker ps queries of the stack under way at once

ASSUME TuiAssumption == MaxQueries \in Nat

ServiceStates == {"Unknown", "Down", "Deploying", "Up"}

VARIABLES
    configured,     \* AppContext.publisher_repo is not empty
    view,           \* AppContext.state, the views that Enter closes taken as one
    publisherState, \* AppContext.publisher_state
    checking,       \* the startup check of the publisher is under way
    stackState,     \* AppContext.stack_state
    restarts,       \* restarts of the stack under way
    queries         \* docker ps queries of the stack under way

tuiVars == <<configured, view, publisherState, checking, stackState, restarts, queries>>
vars == <<deployVars, tuiVars>>

TypeOK ==
    /\ DeployTypeOK /\ configured \in BOOLEAN
    /\ view \in {"MainMenu", "SubMenu"}
    /\ publisherState \in ServiceStates /\ stackState \in ServiceStates
    /\ checking \in BOOLEAN
    /\ restarts \in Nat /\ queries \in 0 .. MaxQueries

Init ==
    /\ DeployInit
    /\ configured \in BOOLEAN /\ checking = configured
    /\ view = "MainMenu" /\ publisherState = "Unknown"
    /\ stackState = "Unknown" /\ restarts = 0 /\ queries = 0

-----------------------------------------------------------------------------
(* The publisher. *)

\* The callback of ensure_publisher_running's check: unless the publisher is up
\* it starts a deploy, whatever the operator has started since.
CheckDone(result) ==
    /\ checking /\ result \in CheckResults
    /\ checking' = FALSE
    /\ IF result = "Up"
         THEN publisherState' = "Up" /\ UNCHANGED <<script, session, parallel>>
         ELSE publisherState' = "Deploying" /\ \E r \in Runs : StartRun(r)
    /\ UNCHANGED <<origin, pi, configured, view, stackState, restarts, queries>>

\* Mutant: no re-entry guard.
RestartPublisherAlways ==
    /\ view = "MainMenu" /\ view' = "SubMenu"
    /\ IF ~configured
         THEN UNCHANGED <<script, session, parallel, publisherState>>
         ELSE publisherState' = "Deploying" /\ \E r \in Runs : StartRun(r)
    /\ UNCHANGED <<origin, pi, configured, checking, stackState, restarts, queries>>

\* Menu entry 6: refused while the state says a deploy is under way, and without
\* a repository to deploy.
RestartPublisher ==
    /\ view = "MainMenu" /\ view' = "SubMenu"
    /\ IF publisherState = "Deploying" \/ ~configured
         THEN UNCHANGED <<script, session, parallel, publisherState>>
         ELSE publisherState' = "Deploying" /\ \E r \in Runs : StartRun(r)
    /\ UNCHANGED <<origin, pi, configured, checking, stackState, restarts, queries>>

\* The callback of a deploy, from the menu or at startup: ssh returned the exit
\* code of the run, or 255 for a session that dropped.
DeployDone(r) ==
    /\ \/ session[r] = "dropped"
       \/ session[r] = "open" /\ script[r] \in Ended
    /\ session' = [session EXCEPT ![r] = "none"]
    /\ script' = [script EXCEPT ![r] = IF script[r] \in Ended THEN "free" ELSE script[r]]
    /\ publisherState' = IF session[r] = "open" /\ script[r] = "ok" THEN "Up" ELSE "Unknown"
    /\ UNCHANGED <<origin, pi, parallel, configured, view, checking, stackState, restarts, queries>>

-----------------------------------------------------------------------------
(* The stack of local services. *)

\* Menu entry 7.
RestartStack ==
    /\ view = "MainMenu" /\ view' = "SubMenu"
    /\ IF stackState = "Deploying"
         THEN UNCHANGED <<stackState, restarts>>
         ELSE stackState' = "Deploying" /\ restarts' = restarts + 1
    /\ UNCHANGED <<deployVars, configured, publisherState, checking, queries>>

RestartStackDone(state) ==
    /\ restarts > 0 /\ restarts' = restarts - 1
    /\ state \in {"Up", "Unknown"} /\ stackState' = state
    /\ UNCHANGED <<deployVars, configured, view, publisherState, checking, queries>>

\* stack_tick, every 3 s, also while an earlier query is still out.
Query ==
    /\ queries < MaxQueries /\ queries' = queries + 1
    /\ UNCHANGED <<deployVars, configured, view, publisherState, checking, stackState, restarts>>

\* Mutant: the answer is taken while a restart is under way.
QueryDoneAlways(state) ==
    /\ queries > 0 /\ queries' = queries - 1
    /\ state \in {"Up", "Down", "Unknown"} /\ stackState' = state
    /\ UNCHANGED <<deployVars, configured, view, publisherState, checking, restarts>>

QueryDone(state) ==
    /\ queries > 0 /\ queries' = queries - 1
    /\ state \in {"Up", "Down", "Unknown"}
    /\ stackState' = IF stackState = "Deploying" THEN stackState ELSE state
    /\ UNCHANGED <<deployVars, configured, view, publisherState, checking, restarts>>

-----------------------------------------------------------------------------
\* The other entries of the menu, and Enter in any other view.
OpenView ==
    /\ view = "MainMenu" /\ view' = "SubMenu"
    /\ UNCHANGED <<deployVars, configured, publisherState, checking, stackState, restarts, queries>>

CloseView ==
    /\ view # "MainMenu" /\ view' = "MainMenu"
    /\ UNCHANGED <<deployVars, configured, publisherState, checking, stackState, restarts, queries>>

OnThePi ==
    \/ OriginMoves \/ ContainerExits
    \/ \E r \in Runs : ScriptStep(r) \/ Drop(r) \/ Gone(r)

Next ==
    \/ \E result \in CheckResults : CheckDone(result)
    \/ RestartPublisher
    \/ \E r \in Runs : DeployDone(r)
    \/ RestartStack
    \/ \E state \in {"Up", "Unknown"} : RestartStackDone(state)
    \/ Query
    \/ \E state \in {"Up", "Down", "Unknown"} : QueryDone(state)
    \/ OpenView \/ CloseView
    \/ OnThePi /\ UNCHANGED tuiVars

Spec == Init /\ [][Next]_vars

-----------------------------------------------------------------------------
(* Properties. *)

\* One restart of the stack at a time, and the state says so until it ends: the
\* periodic query never unlocks the menu entry (main.cpp:747-751, 501).
StackGuarded == restarts <= 1 /\ (restarts = 1 <=> stackState = "Deploying")

\* "A second press would race the same ~/lexaire-publisher checkout"
\* (main.cpp:469).  The callback of the startup check writes over a deploy's
\* state (main.cpp:673), and then each that ends unlocks the menu for the other:
\* the TUI waits for two deploys at a time, and never for a third.
Deploying == {r \in Runs : session[r] # "none"}
AtMostTwoDeploys == \A r, s, t \in Deploying : r = s \/ s = t \/ r = t
=============================================================================
