--------------------------- MODULE PublisherDeploy ---------------------------
(***************************************************************************)
(* pi-setup/deploy-publisher.sh and check-publisher.sh on the Pi: the      *)
(* checkout of the publisher's repository, the image built from it and the *)
(* container running, and the runs of the script that change them.  A run  *)
(* stops at the first command that fails (set -e).  Its SSH session may    *)
(* drop: the caller is told of a failure, and the run, which has no        *)
(* terminal, goes on without it or is ended by its closed output.          *)
(*                                                                         *)
(* git, docker compose and the upstream repository are external: a command *)
(* does its work, or fails.                                                *)
(***************************************************************************)
EXTENDS Integers, FiniteSets

CONSTANTS
    Runs,       \* the runs of the script that can be under way at a time
    Url,        \* sensor.publisher_repo, the script's argument
    OldUrl,     \* the repository an earlier configuration named
    MaxVersion  \* bound: versions of the upstream repository

ASSUME DeployAssumption ==
    /\ Url # OldUrl /\ Url # "none" /\ OldUrl # "none"
    /\ MaxVersion \in Nat \ {0}

VARIABLES
    origin,    \* the version at origin/HEAD of Url
    checkout,  \* what ~/lexaire-publisher holds
    tracked,   \* origin/HEAD as the checkout last fetched it
    image,     \* what the project's image was built from
    container, \* what the project's container runs
    script,    \* where each run of the script is
    session,   \* the ssh process of the caller that waits for the run
    parallel   \* history: a run began when another had not ended

pi == <<checkout, tracked, image, container>>
deployVars == <<origin, pi, script, session, parallel>>

Nothing == [repo |-> "none", version |-> 0]
Builds == [repo : {Url, OldUrl}, version : 1 .. MaxVersion]
Steps == {"down", "remove", "clone", "fetch", "compare", "reset", "build", "up"}
Active == {"url"} \cup Steps
Ended == {"ok", "failed"}

\* A run by itself updates, builds and starts the configured repository, never
\* what an earlier configuration left there (deploy-publisher.sh:34-46).
RightCheckout ==
    ~parallel => \A r \in Runs :
        script[r] \in {"fetch", "compare", "reset", "build", "up", "ok"} => checkout.repo = Url

DeployTypeOK ==
    /\ origin \in 1 .. MaxVersion /\ tracked \in 0 .. MaxVersion
    /\ {checkout, image, container} \subseteq Builds \cup {Nothing}
    /\ script \in [Runs -> Active \cup Ended \cup {"free"}]
    /\ session \in [Runs -> {"none", "open", "dropped"}]
    /\ parallel \in BOOLEAN
    /\ RightCheckout

\* The Pi is new, or an earlier TUI left a publisher there, running or not.
DeployInit ==
    /\ origin = 1
    /\ \/ checkout = Nothing /\ image = Nothing
       \/ checkout \in [repo : {Url, OldUrl}, version : {1}] /\ image = checkout
    /\ tracked = checkout.version
    /\ container \in {image, Nothing}
    /\ script = [r \in Runs |-> "free"] /\ session = [r \in Runs |-> "none"]
    /\ parallel = FALSE

-----------------------------------------------------------------------------
\* A caller starts a run.
StartRun(r) ==
    /\ script[r] = "free"
    /\ script' = [script EXCEPT ![r] = "url"]
    /\ session' = [session EXCEPT ![r] = "open"]
    /\ parallel' = (parallel \/ \E other \in Runs : script[other] # "free")

\* A command of run r succeeds and the script goes on.
Step(r, from, to) ==
    /\ script[r] = from
    /\ script' = [script EXCEPT ![r] = to]
    /\ UNCHANGED <<origin, session, parallel>>

\* Mutant: the checkout is taken for the configured one because it is there.
UrlCheckByPresence(r) ==
    /\ Step(r, "url", IF checkout = Nothing THEN "clone" ELSE "fetch")
    /\ UNCHANGED pi

UrlCheck(r) ==
    /\ Step(r, "url", IF checkout = Nothing THEN "clone"
                      ELSE IF checkout.repo # Url THEN "down" ELSE "fetch")
    /\ UNCHANGED pi

\* Mutant: "|| true" after docker compose down.
DownIgnored(r) ==
    /\ Step(r, "down", "remove") /\ checkout # Nothing
    /\ container' \in {container, Nothing}
    /\ UNCHANGED <<checkout, tracked, image>>

Down(r) ==
    /\ Step(r, "down", "remove") /\ checkout # Nothing
    /\ container' = Nothing
    /\ UNCHANGED <<checkout, tracked, image>>

Remove(r) ==
    /\ Step(r, "remove", "clone")
    /\ checkout' = Nothing
    /\ UNCHANGED <<tracked, image, container>>

\* git refuses to clone into a directory that is there.
Clone(r) ==
    /\ Step(r, "clone", "build") /\ checkout = Nothing
    /\ checkout' = [repo |-> Url, version |-> origin] /\ tracked' = origin
    /\ UNCHANGED <<image, container>>

Fetch(r) ==
    /\ Step(r, "fetch", "compare") /\ checkout # Nothing
    /\ tracked' = origin
    /\ UNCHANGED <<checkout, image, container>>

Compare(r) ==
    /\ Step(r, "compare", IF checkout.version = tracked THEN "up" ELSE "reset")
    /\ checkout # Nothing
    /\ UNCHANGED pi

Reset(r) ==
    /\ Step(r, "reset", "build") /\ checkout # Nothing
    /\ checkout' = [checkout EXCEPT !.version = tracked]
    /\ UNCHANGED <<tracked, image, container>>

\* docker compose up -d --build
Build(r) ==
    /\ Step(r, "build", "ok") /\ checkout # Nothing
    /\ image' = checkout /\ container' = checkout
    /\ UNCHANGED <<checkout, tracked>>

\* docker compose up -d builds only if there is no image.  Whether an image of
\* the other repository is taken for this one's depends on their service names.
Up(r) ==
    /\ Step(r, "up", "ok") /\ checkout # Nothing
    /\ image' \in IF image = Nothing THEN {checkout}
                  ELSE IF image.repo = checkout.repo THEN {image} ELSE {image, checkout}
    /\ container' = image'
    /\ UNCHANGED <<checkout, tracked>>

\* A command fails, or its output is closed: the run ends there.  A build may
\* have replaced the image by then.
Fail(r) ==
    /\ script[r] \in Active
    /\ script' = [script EXCEPT ![r] = "failed"]
    /\ image' \in {image} \cup (IF script[r] = "build" /\ checkout # Nothing
                                THEN {checkout} ELSE {})
    /\ UNCHANGED <<origin, checkout, tracked, container, session, parallel>>

ScriptStep(r) ==
    \/ UrlCheck(r) \/ Down(r) \/ Remove(r) \/ Clone(r) \/ Fetch(r) \/ Compare(r)
    \/ Reset(r) \/ Build(r) \/ Up(r) \/ Fail(r)

\* The session of a run drops, wherever the run is.
Drop(r) ==
    /\ session[r] = "open" /\ session' = [session EXCEPT ![r] = "dropped"]
    /\ UNCHANGED <<origin, pi, script, parallel>>

\* A run that nobody waits for any more has ended.
Gone(r) ==
    /\ session[r] = "none" /\ script[r] \in Ended
    /\ script' = [script EXCEPT ![r] = "free"]
    /\ UNCHANGED <<origin, pi, session, parallel>>

\* The upstream repository moves on; the container exits by itself.
OriginMoves ==
    /\ origin < MaxVersion /\ origin' = origin + 1
    /\ UNCHANGED <<pi, script, session, parallel>>

ContainerExits ==
    /\ container # Nothing /\ container' = Nothing
    /\ UNCHANGED <<origin, checkout, tracked, image, script, session, parallel>>

\* The exit code of check-publisher.sh, as exit_to_state reads it.
CheckResults == {IF container # Nothing /\ checkout # Nothing THEN "Up" ELSE "Down", "Unknown"}

-----------------------------------------------------------------------------
(* Properties. *)

\* While runs do not overlap, the checkout is never removed
\* under a running container ("containers are still running and would orphan if
\* we rm -rf'd", deploy-publisher.sh:41).
NoOrphan == ~parallel /\ container # Nothing => checkout # Nothing

\* A deploy that reports success runs what the checkout holds ("so the deployed
\* image always matches the declared upstream", deploy-publisher.sh:72-74).
DeployedMatches ==
    \A r \in Runs :
        script[r] = "ok" /\ ~parallel /\ container.repo = checkout.repo => container = checkout
=============================================================================
