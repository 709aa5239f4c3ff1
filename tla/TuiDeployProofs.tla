-------------------------- MODULE TuiDeployProofs --------------------------
(* Theorems about TuiDeploy and the script runs it starts. *)
EXTENDS TuiDeploy, TLAPS

-----------------------------------------------------------------------------
(* The guard of "Restart GCS stack". *)

StackInv == restarts \in Nat /\ StackGuarded

\* Restarts of the stack are counted by the state alone: the periodic query and
\* its late answers (main.cpp:743-753) never unlock the menu entry.
THEOREM StackIsGuarded == Spec => []StackGuarded
<1>1. Init => StackInv
  BY DEF Init, StackInv, StackGuarded
<1>2. StackInv /\ [Next]_vars => StackInv'
  <2> SUFFICES ASSUME StackInv, [Next]_vars PROVE StackInv'
    OBVIOUS
  <2> USE DEF StackInv, StackGuarded
  <2>1. CASE RestartStack
    BY <2>1 DEF RestartStack
  <2>2. CASE \E state \in {"Up", "Unknown"} : RestartStackDone(state)
    BY <2>2 DEF RestartStackDone
  <2>3. CASE \E state \in {"Up", "Down", "Unknown"} : QueryDone(state)
    BY <2>3 DEF QueryDone
  <2>4. CASE UNCHANGED <<stackState, restarts>>
    BY <2>4
  <2>5. Next => \/ RestartStack
                \/ \E state \in {"Up", "Unknown"} : RestartStackDone(state)
                \/ \E state \in {"Up", "Down", "Unknown"} : QueryDone(state)
                \/ UNCHANGED <<stackState, restarts>>
    BY DEF Next, CheckDone, RestartPublisher, DeployDone, Query, OpenView, CloseView, tuiVars
  <2> QED
    BY <2>1, <2>2, <2>3, <2>4, <2>5 DEF vars, tuiVars
<1>3. StackInv => StackGuarded
  BY DEF StackInv
<1> QED
  BY <1>1, <1>2, <1>3, PTL DEF Spec

-----------------------------------------------------------------------------
(* The checkout under the container. *)

\* While runs do not overlap at most one run of the script is not free, and
\* between docker compose down and the removal nothing starts the container.
Alone == \A r, s \in Runs : script[r] # "free" /\ script[s] # "free" => r = s
DownBeforeRemove == \A r \in Runs : script[r] = "remove" => container = Nothing
Checkouts == [repo : {Url, OldUrl}, version : Nat] \cup {Nothing}
OrphanInv ==
    /\ checkout \in Checkouts /\ origin \in Nat /\ tracked \in Nat
    /\ script \in [Runs -> Active \cup Ended \cup {"free"}]
    /\ ~parallel => Alone /\ DownBeforeRemove /\ (container # Nothing => checkout # Nothing)

\* The start of a run preserves the invariant: it overlaps another, which
\* parallel records, or is alone (deploy-publisher.sh:34, main.cpp:466-499).
LEMMA StartKeepsOrphanInv ==
    ASSUME OrphanInv, NEW r \in Runs, StartRun(r), UNCHANGED <<origin, pi>>
    PROVE  OrphanInv'
<1>1. script' \in [Runs -> Active \cup Ended \cup {"free"}]
  BY DEF OrphanInv, StartRun, Active
<1>2. ASSUME ~parallel' PROVE Alone' /\ DownBeforeRemove'
  <2>1. ~parallel /\ \A s \in Runs : script[s] = "free"
    BY <1>2 DEF StartRun
  <2>2. \A s \in Runs : script'[s] = IF s = r THEN "url" ELSE "free"
    BY <2>1 DEF StartRun, OrphanInv
  <2> QED
    BY <2>2 DEF Alone, DownBeforeRemove
<1>3. ~parallel' => (container # Nothing => checkout # Nothing)'
  BY DEF OrphanInv, StartRun, pi
<1> QED
  BY <1>1, <1>2, <1>3 DEF OrphanInv, pi

\* A run of the script that goes on or fails keeps the shape of script: another
\* run that was free stays free.
LEMMA MovesKeepAlone ==
    ASSUME OrphanInv, NEW r \in Runs, NEW to \in Active \cup Ended \cup {"free"},
           script[r] # "free", script' = [script EXCEPT ![r] = to], UNCHANGED parallel
    PROVE  /\ script' \in [Runs -> Active \cup Ended \cup {"free"}]
           /\ ~parallel' => Alone'
           /\ \A s \in Runs : script'[s] = IF s = r THEN to ELSE script[s]
<1>1. \A s \in Runs : script'[s] = IF s = r THEN to ELSE script[s]
  BY DEF OrphanInv
<1>2. script' \in [Runs -> Active \cup Ended \cup {"free"}]
  BY DEF OrphanInv
<1>3. ASSUME ~parallel' PROVE Alone'
  <2>1. Alone
    BY <1>3 DEF OrphanInv
  <2> QED
    BY <1>1, <2>1 DEF Alone
<1> QED
  BY <1>1, <1>2, <1>3

\* Every step of a run preserves the invariant: the one that removes the
\* checkout finds no container, and a container is started only on a checkout.
LEMMA ScriptKeepsOrphanInv ==
    ASSUME OrphanInv, NEW r \in Runs, ScriptStep(r)
    PROVE  OrphanInv'
<1> DEFINE Safe == DownBeforeRemove /\ (container # Nothing => checkout # Nothing)
<1>1. PICK to \in Active \cup Ended :
        script' = [script EXCEPT ![r] = to] /\ UNCHANGED parallel
  BY DEF ScriptStep, UrlCheck, Down, Remove, Clone, Fetch, Compare, Reset, Build, Up,
         Fail, Step, Active, Steps, Ended
<1>2. script[r] # "free"
  BY DEF ScriptStep, UrlCheck, Down, Remove, Clone, Fetch, Compare, Reset, Build, Up,
         Fail, Step, Active, Steps, Ended
<1>3. /\ script' \in [Runs -> Active \cup Ended \cup {"free"}]
      /\ ~parallel' => Alone'
      /\ \A s \in Runs : script'[s] = IF s = r THEN to ELSE script[s]
  BY <1>1, <1>2, MovesKeepAlone
<1>4. ASSUME ~parallel' PROVE Safe'
  <2>1. Safe /\ \A s \in Runs : s # r => script[s] = "free"
    BY <1>1, <1>2, <1>4 DEF OrphanInv, Alone
  <2>2. \A s \in Runs : script'[s] = "remove" => s = r /\ to = "remove"
    BY <1>3, <2>1
  <2>3. CASE UrlCheck(r) \/ Fetch(r) \/ Compare(r) \/ Clone(r) \/ Reset(r)
    <3>1. script'[r] # "remove"
      BY <2>3 DEF UrlCheck, Fetch, Compare, Clone, Reset, Step, OrphanInv
    <3>2. container' = container /\ (checkout # Nothing => checkout' # Nothing)
      <4>1. CASE Reset(r)
        <5>1. checkout # Nothing /\ checkout \in [repo : {Url, OldUrl}, version : Nat]
          BY <4>1 DEF Reset, OrphanInv, Checkouts
        <5>2. checkout'.repo \in {Url, OldUrl} /\ container' = container
          BY <4>1, <5>1 DEF Reset
        <5>3. Nothing.repo = "none"
          BY DEF Nothing
        <5> QED
          BY <5>2, <5>3, DeployAssumption
      <4> QED
        BY <2>3, <4>1 DEF UrlCheck, Fetch, Compare, Clone, pi
    <3> QED
      BY <3>1, <3>2, <2>1, <2>2 DEF DownBeforeRemove
  <2>4. CASE Down(r)
    BY <2>4, <2>1 DEF Down, DownBeforeRemove
  <2>5. CASE Remove(r)
    <3>1. container = Nothing /\ container' = Nothing
      BY <2>5, <2>1 DEF Remove, Step, DownBeforeRemove
    <3> QED
      BY <3>1 DEF DownBeforeRemove
  <2>6. CASE Build(r) \/ Up(r)
    <3>1. script'[r] = "ok" /\ checkout' # Nothing
      BY <2>6 DEF Build, Up, Step, OrphanInv
    <3> QED
      BY <3>1, <2>2 DEF DownBeforeRemove
  <2>7. CASE Fail(r)
    <3>1. script'[r] = "failed" /\ UNCHANGED <<checkout, container>>
      BY <2>7 DEF Fail, OrphanInv
    <3> QED
      BY <3>1, <2>1, <2>2 DEF DownBeforeRemove
  <2> QED
    BY <2>3, <2>4, <2>5, <2>6, <2>7 DEF ScriptStep
<1>5. checkout' \in Checkouts /\ origin' \in Nat /\ tracked' \in Nat
  <2> USE DEF OrphanInv, Step
  <2>1. CASE UrlCheck(r) \/ Compare(r) \/ Down(r) \/ Build(r) \/ Up(r) \/ Fail(r)
    BY <2>1 DEF UrlCheck, Compare, Down, Build, Up, Fail, pi
  <2>2. CASE Remove(r) \/ Fetch(r)
    BY <2>2 DEF Remove, Fetch, Checkouts
  <2>3. CASE Clone(r)
    BY <2>3 DEF Clone, Checkouts
  <2>4. CASE Reset(r)
    BY <2>4 DEF Reset, Checkouts
  <2> QED
    BY <2>1, <2>2, <2>3, <2>4 DEF ScriptStep
<1> QED
  BY <1>3, <1>4, <1>5 DEF OrphanInv

\* The invariant holds: runs start, move on and are reaped, and what else happens
\* leaves them alone.
LEMMA OrphanInvHolds == Spec => []OrphanInv
<1>1. Init => OrphanInv
  <2> SUFFICES ASSUME Init PROVE OrphanInv
    OBVIOUS
  <2>1. script = [r \in Runs |-> "free"]
    BY DEF Init, DeployInit
  <2>2. container # Nothing => checkout # Nothing
    BY DEF Init, DeployInit
  <2>3. checkout \in Checkouts /\ origin \in Nat /\ tracked \in Nat
    BY DEF Init, DeployInit, Checkouts, Nothing
  <2> QED
    BY <2>1, <2>2, <2>3 DEF OrphanInv, Alone, DownBeforeRemove
<1>2. OrphanInv /\ [Next]_vars => OrphanInv'
  <2> SUFFICES ASSUME OrphanInv, [Next]_vars PROVE OrphanInv'
    OBVIOUS
  <2>1. CASE \E r \in Runs : StartRun(r) /\ UNCHANGED <<origin, pi>>
    BY <2>1, StartKeepsOrphanInv
  <2>2. CASE \E r \in Runs : ScriptStep(r)
    BY <2>2, ScriptKeepsOrphanInv
  <2>3. CASE \E r \in Runs : DeployDone(r) \/ Gone(r)
    <3> PICK r \in Runs : DeployDone(r) \/ Gone(r)
      BY <2>3
    <3>1. /\ UNCHANGED <<script, parallel>> \/ (\A s \in Runs : script'[s] = IF s = r THEN "free" ELSE script[s])
          /\ script' \in [Runs -> Active \cup Ended \cup {"free"}]
          /\ ~parallel' => Alone'
      <4>1. UNCHANGED <<script, parallel>> \/ (/\ script[r] # "free" /\ UNCHANGED parallel
                                              /\ script' = [script EXCEPT ![r] = "free"])
        BY DEF DeployDone, Gone, Ended, OrphanInv
      <4>2. CASE UNCHANGED <<script, parallel>>
        BY <4>2 DEF OrphanInv, Alone
      <4> QED
        BY <4>1, <4>2, MovesKeepAlone
    <3>2. UNCHANGED <<origin, pi, parallel>>
      BY DEF DeployDone, Gone
    <3> QED
      BY <3>1, <3>2 DEF OrphanInv, DownBeforeRemove, pi
  <2>4. CASE OriginMoves \/ (\E r \in Runs : Drop(r)) \/ UNCHANGED <<script, parallel, origin, pi>>
    BY <2>4 DEF OriginMoves, Drop, OrphanInv, Alone, DownBeforeRemove, pi
  <2>5. CASE ContainerExits
    BY <2>5 DEF ContainerExits, OrphanInv, Alone, DownBeforeRemove
  <2>6. ASSUME NEW result \in CheckResults, CheckDone(result)
        PROVE  \/ \E r \in Runs : StartRun(r) /\ UNCHANGED <<origin, pi>>
               \/ UNCHANGED <<script, parallel, origin, pi>>
    BY <2>6 DEF CheckDone
  <2>7. ASSUME RestartPublisher
        PROVE  \/ \E r \in Runs : StartRun(r) /\ UNCHANGED <<origin, pi>>
               \/ UNCHANGED <<script, parallel, origin, pi>>
    BY <2>7 DEF RestartPublisher
  <2>8. ASSUME RestartStack \/ Query \/ CloseView
               \/ (\E state \in {"Up", "Unknown"} : RestartStackDone(state))
               \/ (\E state \in {"Up", "Down", "Unknown"} : QueryDone(state))
               \/ OpenView
        PROVE  UNCHANGED <<script, parallel, origin, pi>>
    BY <2>8 DEF RestartStack, Query, CloseView, RestartStackDone, QueryDone, OpenView, deployVars
  <2>9. ASSUME UNCHANGED vars PROVE UNCHANGED <<script, parallel, origin, pi>>
    BY <2>9 DEF vars, deployVars
  <2> QED
    BY <2>1, <2>2, <2>3, <2>4, <2>5, <2>6, <2>7, <2>8, <2>9 DEF Next, OnThePi
<1> QED
  BY <1>1, <1>2, PTL DEF Spec

\* While runs do not overlap the checkout is never removed under a running
\* container, however runs fail or lose their session (deploy-publisher.sh:37-45).
THEOREM NeverOrphaned == Spec => []NoOrphan
<1>1. OrphanInv => NoOrphan
  BY DEF OrphanInv, NoOrphan
<1> QED
  BY <1>1, OrphanInvHolds, PTL

-----------------------------------------------------------------------------
(* Types. *)

\* A checkout that is there has been fetched once, so that a reset has a version
\* to go to.
PiTypes ==
    /\ origin \in 1 .. MaxVersion /\ tracked \in 0 .. MaxVersion
    /\ {checkout, image, container} \subseteq Builds \cup {Nothing}
    /\ script \in [Runs -> Active \cup Ended \cup {"free"}]
    /\ session \in [Runs -> {"none", "open", "dropped"}]
    /\ parallel \in BOOLEAN
    /\ checkout # Nothing => tracked >= 1
TuiTypes ==
    /\ configured \in BOOLEAN /\ view \in {"MainMenu", "SubMenu"}
    /\ publisherState \in ServiceStates /\ stackState \in ServiceStates
    /\ checking \in BOOLEAN /\ restarts \in Nat /\ queries \in 0 .. MaxQueries

\* A step of a run keeps the types of what the Pi holds.
LEMMA ScriptKeepsTypes ==
    ASSUME PiTypes, NEW r \in Runs, ScriptStep(r)
    PROVE  PiTypes'
<1> DEFINE Images == Builds \cup {Nothing}
<1> USE DeployAssumption DEF PiTypes
<1>1. /\ script' \in [Runs -> Active \cup Ended \cup {"free"}]
      /\ origin' = origin /\ session' = session /\ parallel' = parallel
  <2>1. \E to \in Active \cup Ended : script' = [script EXCEPT ![r] = to]
    BY DEF ScriptStep, UrlCheck, Down, Remove, Clone, Fetch, Compare, Reset, Build, Up,
           Fail, Step, Active, Steps, Ended
  <2>2. origin' = origin /\ session' = session /\ parallel' = parallel
    BY DEF ScriptStep, UrlCheck, Down, Remove, Clone, Fetch, Compare, Reset, Build, Up,
           Fail, Step
  <2> QED
    BY <2>1, <2>2
<1>2. /\ tracked' \in 0 .. MaxVersion /\ checkout' \in Images
      /\ checkout' # Nothing => tracked' >= 1
  <2>1. CASE UrlCheck(r) \/ Compare(r) \/ Down(r) \/ Build(r) \/ Up(r) \/ Fail(r)
    BY <2>1 DEF UrlCheck, Compare, Down, Build, Up, Fail, pi
  <2>2. CASE Remove(r) \/ Fetch(r)
    BY <2>2 DEF Remove, Fetch
  <2>3. CASE Clone(r)
    BY <2>3 DEF Clone, Builds
  <2>4. CASE Reset(r)
    <3>1. checkout \in Builds /\ tracked \in 1 .. MaxVersion
      BY <2>4 DEF Reset
    <3> QED
      BY <2>4, <3>1 DEF Reset, Builds
  <2> QED
    BY <2>1, <2>2, <2>3, <2>4 DEF ScriptStep
<1>3. image' \in Images /\ container' \in Images
  <2>1. CASE UrlCheck(r) \/ Remove(r) \/ Clone(r) \/ Fetch(r) \/ Compare(r) \/ Reset(r)
    BY <2>1 DEF UrlCheck, Remove, Clone, Fetch, Compare, Reset, pi
  <2>2. CASE Down(r)
    BY <2>2 DEF Down
  <2>3. CASE Build(r)
    BY <2>3 DEF Build
  <2>4. CASE Up(r)
    <3>1. image' \in {image, checkout} /\ container' = image'
      BY <2>4 DEF Up
    <3> QED
      BY <3>1
  <2>5. CASE Fail(r)
    BY <2>5 DEF Fail
  <2> QED
    BY <2>1, <2>2, <2>3, <2>4, <2>5 DEF ScriptStep
<1> QED
  BY <1>1, <1>2, <1>3

\* So does a run that starts.
LEMMA StartKeepsTypes ==
    ASSUME PiTypes, NEW r \in Runs, StartRun(r), UNCHANGED <<origin, pi>>
    PROVE  PiTypes'
<1>1. script' \in [Runs -> Active \cup Ended \cup {"free"}]
  BY DEF PiTypes, StartRun, Active
<1>2. session' \in [Runs -> {"none", "open", "dropped"}]
  BY DEF PiTypes, StartRun
<1>3. parallel' \in BOOLEAN
  BY DEF StartRun
<1> QED
  BY <1>1, <1>2, <1>3 DEF PiTypes, pi

\* And a run that is reaped, a session that drops, and what happens to the Pi
\* besides.
LEMMA OthersKeepTypes ==
    ASSUME PiTypes,
           OriginMoves \/ ContainerExits \/ \E r \in Runs : DeployDone(r) \/ Drop(r) \/ Gone(r)
    PROVE  PiTypes'
<1>1. CASE OriginMoves
  <2>1. origin' \in 1 .. MaxVersion
    BY <1>1, DeployAssumption DEF OriginMoves, PiTypes
  <2> QED
    BY <1>1, <2>1 DEF OriginMoves, PiTypes, pi
<1>2. CASE ContainerExits
  BY <1>2 DEF ContainerExits, PiTypes
<1>3. ASSUME NEW r \in Runs, DeployDone(r) PROVE PiTypes'
  <2>1. script' \in [Runs -> Active \cup Ended \cup {"free"}]
    BY <1>3 DEF DeployDone, PiTypes
  <2>2. session' \in [Runs -> {"none", "open", "dropped"}]
    BY <1>3 DEF DeployDone, PiTypes
  <2> QED
    BY <1>3, <2>1, <2>2 DEF DeployDone, PiTypes, pi
<1>4. ASSUME NEW r \in Runs, Drop(r) PROVE PiTypes'
  BY <1>4 DEF Drop, PiTypes, pi
<1>5. ASSUME NEW r \in Runs, Gone(r) PROVE PiTypes'
  BY <1>5 DEF Gone, PiTypes, pi
<1> QED
  BY <1>1, <1>2, <1>3, <1>4, <1>5

\* The types hold, of what the Pi holds and of what the TUI does.
LEMMA PlainTypesHold == Spec => [](PiTypes /\ TuiTypes)
<1>1. Init => PiTypes /\ TuiTypes
  <2> SUFFICES ASSUME Init PROVE PiTypes /\ TuiTypes
    OBVIOUS
  <2>1. TuiTypes
    BY TuiAssumption DEF Init, TuiTypes, ServiceStates
  <2>2. /\ origin \in 1 .. MaxVersion /\ parallel \in BOOLEAN
        /\ script \in [Runs -> Active \cup Ended \cup {"free"}]
        /\ session \in [Runs -> {"none", "open", "dropped"}]
    <3>1. /\ origin = 1 /\ parallel = FALSE
          /\ script = [r \in Runs |-> "free"] /\ session = [r \in Runs |-> "none"]
      BY DEF Init, DeployInit
    <3>2. 1 \in 1 .. MaxVersion
      BY DeployAssumption
    <3> QED
      BY <3>1, <3>2
  <2>3. /\ {checkout, image} \subseteq Builds \cup {Nothing} /\ tracked \in 0 .. MaxVersion
        /\ checkout # Nothing => tracked >= 1
    BY DeployAssumption DEF Init, DeployInit, Builds, Nothing
  <2>4. container \in Builds \cup {Nothing}
    BY <2>3 DEF Init, DeployInit
  <2> QED
    BY <2>1, <2>2, <2>3, <2>4 DEF PiTypes
<1>2. PiTypes /\ TuiTypes /\ [Next]_vars => PiTypes' /\ TuiTypes'
  <2> SUFFICES ASSUME PiTypes, TuiTypes, [Next]_vars PROVE PiTypes' /\ TuiTypes'
    OBVIOUS
  <2>1. ASSUME UNCHANGED deployVars PROVE PiTypes'
    BY <2>1 DEF deployVars, pi, PiTypes
  <2>2. CASE RestartPublisher \/ \E result \in CheckResults : CheckDone(result)
    <3>1. TuiTypes'
      BY <2>2 DEF RestartPublisher, CheckDone, TuiTypes, ServiceStates
    <3>2. /\ UNCHANGED <<origin, pi>>
          /\ UNCHANGED <<script, session, parallel>> \/ \E r \in Runs : StartRun(r)
      BY <2>2 DEF RestartPublisher, CheckDone
    <3>3. PiTypes'
      BY <2>1, <3>2, StartKeepsTypes DEF deployVars
    <3> QED
      BY <3>1, <3>3
  <2>3. ASSUME NEW r \in Runs, DeployDone(r) PROVE PiTypes' /\ TuiTypes'
    BY <2>3, OthersKeepTypes DEF DeployDone, TuiTypes, ServiceStates
  <2>4. CASE \/ RestartStack \/ Query \/ OpenView \/ CloseView
             \/ \E state \in {"Up", "Unknown"} : RestartStackDone(state)
             \/ \E state \in {"Up", "Down", "Unknown"} : QueryDone(state)
    <3>1. TuiTypes'
      BY <2>4, TuiAssumption DEF RestartStack, Query, OpenView, CloseView, RestartStackDone,
         QueryDone, TuiTypes, ServiceStates
    <3>2. UNCHANGED deployVars
      BY <2>4 DEF RestartStack, Query, OpenView, CloseView, RestartStackDone, QueryDone
    <3> QED
      BY <2>1, <3>1, <3>2
  <2>5. CASE OnThePi /\ UNCHANGED tuiVars
    <3>1. TuiTypes'
      BY <2>5 DEF tuiVars, TuiTypes
    <3>2. PiTypes'
      BY <2>5, ScriptKeepsTypes, OthersKeepTypes DEF OnThePi
    <3> QED
      BY <3>1, <3>2
  <2>6. CASE UNCHANGED vars
    BY <2>1, <2>6 DEF vars, tuiVars, TuiTypes
  <2> QED
    BY <2>2, <2>3, <2>4, <2>5, <2>6 DEF Next
<1> QED
  BY <1>1, <1>2, PTL DEF Spec

\* A run by itself that is past the URL check works on the configured repository:
\* it found it there or cloned it, and nothing changes the repository of a
\* checkout but its removal (deploy-publisher.sh:34-56).
LEMMA RightCheckoutHolds == Spec => []RightCheckout
<1> DEFINE Past == {"fetch", "compare", "reset", "build", "up", "ok"}
<1>1. Init => RightCheckout
  <2> SUFFICES ASSUME Init, NEW r \in Runs PROVE script[r] = "free"
    BY DEF RightCheckout
  <2> QED
    BY DEF Init, DeployInit
<1>2. PiTypes /\ OrphanInv /\ RightCheckout /\ [Next]_vars => RightCheckout'
  <2> SUFFICES ASSUME PiTypes, OrphanInv, RightCheckout, [Next]_vars, ~parallel',
                      NEW s \in Runs, script'[s] \in Past
               PROVE  checkout'.repo = Url
    BY DEF RightCheckout
  <2>1. CASE UNCHANGED <<script, parallel, checkout>>
    BY <2>1 DEF RightCheckout
  <2>2. ASSUME NEW r \in Runs, UNCHANGED checkout,
               /\ script' = [script EXCEPT ![r] = "url"] /\ (~parallel' => ~parallel)
               \/ /\ \/ script' = [script EXCEPT ![r] = "free"]
                     \/ script' = [script EXCEPT ![r] = "failed"]
                     \/ script' = [script EXCEPT ![r] = script[r]]
                  /\ UNCHANGED parallel
        PROVE  checkout'.repo = Url
    <3>1. script[s] = script'[s] /\ ~parallel
      BY <2>2 DEF OrphanInv
    <3> QED
      BY <2>2, <3>1 DEF RightCheckout
  <2>3. ASSUME NEW r \in Runs, ScriptStep(r) PROVE checkout'.repo = Url
    <3>1. /\ ~parallel /\ script[r] \in Active
          /\ \E to \in Active \cup Ended : script' = [script EXCEPT ![r] = to]
      BY <2>3 DEF ScriptStep, UrlCheck, Down, Remove, Clone, Fetch, Compare, Reset, Build, Up,
           Fail, Step, Active, Steps, Ended
    <3>2. s = r
      <4>1. \A t \in Runs : t # r => script[t] = "free"
        BY <3>1 DEF OrphanInv, Alone, Active, Steps
      <4>2. s # r => script'[s] = "free"
        BY <3>1, <4>1 DEF OrphanInv
      <4> QED
        BY <4>2
    <3>3. CASE UrlCheck(r)
      <4>1. script'[r] = "fetch" => checkout # Nothing /\ checkout.repo = Url
        BY <3>3 DEF UrlCheck, Step, OrphanInv
      <4>2. script'[r] \in {"clone", "down", "fetch"} /\ checkout' = checkout
        BY <3>3 DEF UrlCheck, Step, OrphanInv, pi
      <4> QED
        BY <3>2, <4>1, <4>2
    <3>4. CASE Down(r) \/ Remove(r) \/ Fail(r)
      <4>1. script'[r] \in {"remove", "clone", "failed"}
        BY <3>4 DEF Down, Remove, Fail, Step, OrphanInv
      <4> QED
        BY <3>2, <4>1
    <3>5. CASE Clone(r)
      BY <3>5 DEF Clone
    <3>6. CASE Fetch(r) \/ Compare(r) \/ Build(r) \/ Up(r)
      <4>1. script[r] \in Past /\ checkout' = checkout
        BY <3>6 DEF Fetch, Compare, Build, Up, Step, pi
      <4> QED
        BY <3>1, <4>1 DEF RightCheckout
    <3>7. CASE Reset(r)
      <4>1. checkout.repo = Url
        BY <3>1, <3>7 DEF Reset, Step, RightCheckout
      <4>2. checkout \in Builds
        BY <3>7 DEF Reset, PiTypes
      <4> QED
        BY <3>7, <4>1, <4>2 DEF Reset, Builds
    <3> QED
      BY <2>3, <3>3, <3>4, <3>5, <3>6, <3>7 DEF ScriptStep
  <2>4. ASSUME NEW r \in Runs, StartRun(r), UNCHANGED <<origin, pi>> PROVE checkout'.repo = Url
    BY <2>2, <2>4 DEF StartRun, pi
  <2>5. ASSUME NEW r \in Runs, DeployDone(r) PROVE checkout'.repo = Url
    BY <2>2, <2>5 DEF DeployDone, pi
  <2>6. ASSUME NEW r \in Runs, Gone(r) PROVE checkout'.repo = Url
    BY <2>2, <2>6 DEF Gone, pi
  <2>7. CASE OriginMoves \/ ContainerExits \/ \E r \in Runs : Drop(r)
    BY <2>1, <2>7 DEF OriginMoves, ContainerExits, Drop, pi
  <2>8. CASE RestartPublisher \/ \E result \in CheckResults : CheckDone(result)
    BY <2>1, <2>4, <2>8 DEF RestartPublisher, CheckDone, pi
  <2>9. CASE \/ RestartStack \/ Query \/ OpenView \/ CloseView
             \/ (\E state \in {"Up", "Unknown"} : RestartStackDone(state))
             \/ (\E state \in {"Up", "Down", "Unknown"} : QueryDone(state))
             \/ UNCHANGED vars
    BY <2>1, <2>9 DEF RestartStack, Query, OpenView, CloseView, RestartStackDone, QueryDone,
       vars, deployVars, pi
  <2> QED
    BY <2>3, <2>5, <2>6, <2>7, <2>8, <2>9 DEF Next, OnThePi
<1> QED
  BY <1>1, <1>2, PlainTypesHold, OrphanInvHolds, PTL DEF Spec

\* Every variable of the TUI and of the Pi keeps its type, the queries of the
\* stack their bound, and a run that is alone has the configured repository under
\* it from the URL check on (main.cpp:466-506, deploy-publisher.sh:34-46).
THEOREM TypesHold == Spec => []TypeOK
<1>1. PiTypes /\ TuiTypes /\ RightCheckout => TypeOK
  BY DEF PiTypes, TuiTypes, TypeOK, DeployTypeOK
<1> QED
  BY <1>1, PlainTypesHold, RightCheckoutHolds, PTL

-----------------------------------------------------------------------------
(* How many deploys the TUI waits for. *)

\* Two at a time are possible only once the startup check has answered, and then
\* the state says that a deploy is under way.
DeployingInv ==
    /\ AtMostTwoDeploys
    /\ \A r, s \in Deploying : r # s => publisherState = "Deploying" /\ ~checking
    /\ checking /\ Deploying # {} => publisherState = "Deploying"

\* The callback of the startup check costs one extra deploy, and the menu's guard
\* keeps it at that, whatever the order in which the two end (main.cpp:471, 673).
THEOREM TwoDeploysAtMost == Spec => []AtMostTwoDeploys
<1>1. Init => DeployingInv
  <2> SUFFICES ASSUME Init PROVE Deploying = {}
    BY DEF DeployingInv, AtMostTwoDeploys
  <2> QED
    BY DEF Init, DeployInit, Deploying
<1>2. PiTypes /\ DeployingInv /\ [Next]_vars => DeployingInv'
  <2> SUFFICES ASSUME PiTypes, DeployingInv, [Next]_vars PROVE DeployingInv'
    OBVIOUS
  <2>1. ASSUME Deploying' = Deploying, UNCHANGED <<publisherState, checking>>
        PROVE  DeployingInv'
    BY <2>1 DEF DeployingInv, AtMostTwoDeploys
  <2>2. ASSUME UNCHANGED session PROVE Deploying' = Deploying
    BY <2>2 DEF Deploying
  <2>3. ASSUME NEW r \in Runs, StartRun(r) PROVE Deploying' = Deploying \cup {r}
    BY <2>3 DEF StartRun, Deploying, PiTypes
  <2>4. ASSUME NEW result \in CheckResults, CheckDone(result) PROVE DeployingInv'
    <3>1. checking /\ ~checking' /\ \A r, s \in Deploying : r = s
      BY <2>4 DEF CheckDone, DeployingInv
    <3>2. CASE UNCHANGED session
      <4>1. Deploying' = Deploying
        BY <2>2, <3>2
      <4> QED
        BY <3>1, <4>1 DEF DeployingInv, AtMostTwoDeploys
    <3>3. CASE publisherState' = "Deploying" /\ \E r \in Runs : StartRun(r)
      <4>1. \E r \in Runs : Deploying' = Deploying \cup {r}
        BY <2>3, <3>3
      <4> QED
        BY <3>1, <3>3, <4>1 DEF DeployingInv, AtMostTwoDeploys
    <3> QED
      BY <2>4, <3>2, <3>3 DEF CheckDone
  <2>5. CASE RestartPublisher
    <3>1. CASE UNCHANGED <<session, publisherState>>
      BY <2>1, <2>2, <2>5, <3>1 DEF RestartPublisher
    <3>2. CASE /\ publisherState # "Deploying" /\ publisherState' = "Deploying"
               /\ \E r \in Runs : StartRun(r)
      <4>1. \E r \in Runs : Deploying' = Deploying \cup {r}
        BY <2>3, <3>2
      <4>2. (\A r, s \in Deploying : r = s) /\ (checking => Deploying = {}) /\ checking' = checking
        BY <2>5, <3>2 DEF DeployingInv, RestartPublisher
      <4> QED
        BY <3>2, <4>1, <4>2 DEF DeployingInv, AtMostTwoDeploys
    <3> QED
      BY <2>5, <3>1, <3>2 DEF RestartPublisher
  <2>6. ASSUME NEW r \in Runs, DeployDone(r) PROVE DeployingInv'
    <3>1. r \in Deploying /\ Deploying' = Deploying \ {r} /\ checking' = checking
      BY <2>6 DEF DeployDone, Deploying, PiTypes
    <3>2. \A s, t \in Deploying' : s = t
      BY <3>1 DEF DeployingInv, AtMostTwoDeploys
    <3>3. checking' => Deploying' = {}
      BY <3>1 DEF DeployingInv
    <3> QED
      BY <3>2, <3>3 DEF DeployingInv, AtMostTwoDeploys
  <2>7. CASE OnThePi /\ UNCHANGED tuiVars
    <3>1. CASE UNCHANGED session
      BY <2>1, <2>2, <2>7, <3>1 DEF tuiVars
    <3>2. ASSUME NEW r \in Runs, Drop(r) PROVE Deploying' = Deploying
      BY <3>2 DEF Drop, Deploying, PiTypes
    <3>3. UNCHANGED session \/ \E r \in Runs : Drop(r)
      BY <2>7 DEF OnThePi, OriginMoves, ContainerExits, Gone, ScriptStep, UrlCheck, Down,
         Remove, Clone, Fetch, Compare, Reset, Build, Up, Fail, Step
    <3> QED
      BY <2>1, <2>7, <3>1, <3>2, <3>3 DEF tuiVars
  <2>8. CASE \/ RestartStack \/ Query \/ OpenView \/ CloseView
             \/ (\E state \in {"Up", "Unknown"} : RestartStackDone(state))
             \/ (\E state \in {"Up", "Down", "Unknown"} : QueryDone(state))
             \/ UNCHANGED vars
    BY <2>1, <2>2, <2>8 DEF RestartStack, Query, OpenView, CloseView, RestartStackDone,
       QueryDone, vars, deployVars, tuiVars
  <2> QED
    BY <2>4, <2>5, <2>6, <2>7, <2>8 DEF Next
<1>3. DeployingInv => AtMostTwoDeploys
  BY DEF DeployingInv
<1> QED
  BY <1>1, <1>2, <1>3, PlainTypesHold, PTL DEF Spec

-----------------------------------------------------------------------------
(* What a deploy leaves behind.  DeployedMatches is refuted by a build that  *)
(* fails (TuiImage.cfg); no other failure refutes it.                        *)

\* No run ends at docker compose up -d --build.
BuildsSucceed == \A r \in Runs : script[r] = "build" => script'[r] # "failed"

\* Away from a build, the image and the container are those of the checkout.
ImageInv ==
    ~parallel /\ checkout # Nothing /\ (\A r \in Runs : script[r] # "build")
        => {image, container} \subseteq {checkout, Nothing}

\* A run that is not at its build keeps image and checkout together, and so does
\* one that builds (deploy-publisher.sh:37-79).
LEMMA ScriptKeepsImageInv ==
    ASSUME TypeOK, OrphanInv, ImageInv, BuildsSucceed, NEW r \in Runs, ScriptStep(r)
    PROVE  ImageInv'
<1> SUFFICES ASSUME ~parallel', checkout' # Nothing, \A s \in Runs : script'[s] # "build"
             PROVE  {image', container'} \subseteq {checkout', Nothing}
  BY DEF ImageInv
<1>1. script[r] \in Active /\ ~parallel /\ script \in [Runs -> Active \cup Ended \cup {"free"}]
  BY DEF ScriptStep, UrlCheck, Down, Remove, Clone, Fetch, Compare, Reset, Build, Up,
         Fail, Step, Active, Steps, Ended, OrphanInv
<1>2. \A s \in Runs : s # r => script[s] = "free"
  BY <1>1 DEF OrphanInv, Alone, Active, Steps
<1>3. script[r] # "build" /\ checkout # Nothing => {image, container} \subseteq {checkout, Nothing}
  BY <1>1, <1>2 DEF ImageInv
<1>4. CASE UrlCheck(r) \/ Fetch(r) \/ Compare(r)
  BY <1>3, <1>4 DEF UrlCheck, Fetch, Compare, Step, pi
<1>5. CASE Down(r)
  BY <1>3, <1>5 DEF Down, Step
<1>6. CASE Remove(r)
  BY <1>6 DEF Remove
<1>7. CASE Clone(r) \/ Reset(r)
  <2>1. script'[r] = "build"
    BY <1>1, <1>7 DEF Clone, Reset, Step
  <2> QED
    BY <2>1
<1>8. CASE Build(r)
  BY <1>8 DEF Build
<1>9. CASE Up(r)
  <2>1. checkout # Nothing /\ script[r] = "up" /\ checkout' = checkout
    BY <1>9 DEF Up, Step
  <2>2. image \in {checkout, Nothing}
    BY <1>3, <2>1
  <2>3. image' = checkout /\ container' = image'
    BY <1>9, <2>2 DEF Up
  <2> QED
    BY <2>1, <2>3
<1>10. CASE Fail(r)
  <2>1. script'[r] = "failed"
    BY <1>1, <1>10 DEF Fail
  <2>2. script[r] # "build"
    BY <2>1 DEF BuildsSucceed
  <2> QED
    BY <1>3, <1>10, <2>2 DEF Fail
<1> QED
  BY <1>4, <1>5, <1>6, <1>7, <1>8, <1>9, <1>10 DEF ScriptStep

\* A deploy that reports success runs what the checkout holds as long as no build
\* fails: every other command may fail and any session drop
\* (deploy-publisher.sh:37-79).
THEOREM OnlyABuildMismatches == Spec /\ [][BuildsSucceed]_vars => []DeployedMatches
<1>1. Init => ImageInv
  BY DEF Init, DeployInit, ImageInv
<1>2. TypeOK /\ OrphanInv /\ ImageInv /\ [Next]_vars /\ [BuildsSucceed]_vars => ImageInv'
  <2> SUFFICES ASSUME TypeOK, OrphanInv, ImageInv, [Next]_vars, [BuildsSucceed]_vars
               PROVE  ImageInv'
    OBVIOUS
  <2>1. CASE UNCHANGED <<pi, script, parallel>>
    BY <2>1 DEF ImageInv, pi
  <2>2. ASSUME UNCHANGED pi, NEW r \in Runs, StartRun(r) PROVE ImageInv'
    <3>1. \A s \in Runs : s # r => script'[s] = script[s]
      BY <2>2 DEF StartRun, OrphanInv
    <3>2. script[r] = "free" /\ (~parallel' => ~parallel)
      BY <2>2 DEF StartRun
    <3>3. (\A s \in Runs : script'[s] # "build") => \A s \in Runs : script[s] # "build"
      BY <3>1, <3>2
    <3> QED
      BY <2>2, <3>2, <3>3 DEF ImageInv, pi
  <2>3. ASSUME NEW r \in Runs, DeployDone(r) \/ Gone(r) PROVE ImageInv'
    <3>1. \A s \in Runs : s # r => script'[s] = script[s]
      BY <2>3 DEF DeployDone, Gone, OrphanInv
    <3>2. parallel' = parallel /\ (script[r] # "build" \/ script'[r] = "build")
      BY <2>3 DEF DeployDone, Gone, Ended, OrphanInv
    <3>3. (\A s \in Runs : script'[s] # "build") => \A s \in Runs : script[s] # "build"
      BY <3>1, <3>2
    <3>4. UNCHANGED pi
      BY <2>3 DEF DeployDone, Gone
    <3> QED
      BY <3>2, <3>3, <3>4 DEF ImageInv, pi
  <2>4. ASSUME NEW r \in Runs, ScriptStep(r) PROVE ImageInv'
    <3>1. CASE BuildsSucceed
      BY <2>4, <3>1, ScriptKeepsImageInv
    <3>2. CASE UNCHANGED vars
      BY <2>1, <3>2 DEF vars, deployVars
    <3> QED
      BY <3>1, <3>2
  <2>5. CASE ContainerExits
    BY <2>5 DEF ContainerExits, ImageInv
  <2>6. CASE OriginMoves \/ (\E r \in Runs : Drop(r)) \/ RestartStack \/ Query \/ CloseView
             \/ (\E state \in {"Up", "Unknown"} : RestartStackDone(state))
             \/ (\E state \in {"Up", "Down", "Unknown"} : QueryDone(state))
             \/ OpenView
    BY <2>1, <2>6 DEF OriginMoves, Drop, RestartStack, Query, CloseView, RestartStackDone,
       QueryDone, OpenView, deployVars
  <2>7. CASE RestartPublisher \/ \E result \in CheckResults : CheckDone(result)
    BY <2>1, <2>2, <2>7 DEF RestartPublisher, CheckDone
  <2>8. CASE UNCHANGED vars
    BY <2>1, <2>8 DEF vars, deployVars
  <2> QED
    BY <2>3, <2>4, <2>5, <2>6, <2>7, <2>8 DEF Next, OnThePi
<1>3. TypeOK /\ OrphanInv /\ ImageInv => DeployedMatches
  <2> SUFFICES ASSUME TypeOK, OrphanInv, ImageInv, NEW r \in Runs, script[r] = "ok", ~parallel,
                      container.repo = checkout.repo
               PROVE  container = checkout
    BY DEF DeployedMatches
  <2>1. \A s \in Runs : script[s] # "build"
    BY DEF OrphanInv, Alone
  <2>2. \A b \in Builds : b.repo # Nothing.repo
    BY DeployAssumption DEF Builds, Nothing
  <2>3. {checkout, container} \subseteq Builds \cup {Nothing}
    BY DEF TypeOK, DeployTypeOK
  <2>4. checkout = Nothing <=> container = Nothing
    BY <2>2, <2>3
  <2> QED
    BY <2>1, <2>4 DEF ImageInv
<1> QED
  BY <1>1, <1>2, <1>3, TypesHold, OrphanInvHolds, PTL DEF Spec
=============================================================================
