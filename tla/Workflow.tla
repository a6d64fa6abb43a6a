------------------------------ MODULE Workflow ------------------------------
(***************************************************************************)
(* Duo Workflow: the runner of the server (desktop_workflow_runner.ts),    *)
(* which creates a workflow, starts its executor in a docker container,    *)
(* watches the container and keeps one cable for the events of a workflow; *)
(* the controllers of a workflow page (webview_duo_workflow); and the      *)
(* page: its stores and the components that call them.                     *)
(*                                                                         *)
(* The runner is one object for all pages and for the client's             *)
(* notifications: its cable and its container are those of the last call.  *)
(***************************************************************************)
EXTENDS Integers, FiniteSets

CONSTANTS
  Runs,      \* the workflows that may be started (run and workflow coincide)
  PageRuns,  \* those a page starts; the others are started by a notification
  Checkpoints, \* the statuses that checkpoints may carry
  MaxShows,  \* bound: how often the page opens a workflow
  MaxEvents, \* bound: the events the user sends
  MaxSocketChanges, \* bound: how often the configuration of the docker socket changes
  Nobody     \* no workflow, no container

VARIABLES
  docker,       \* the docker daemon: can it be reached, does it have the image; and does
                \* the configuration name its socket (#dockerClient)
  dockerStatus, \* the status of the page's docker store
  verifying,    \* the page's verification or pull of the image
  wfRun,        \* [Runs -> how far runWorkflow and startWorkflow are]
  container,    \* #container: the last one created
  containers,   \* [Runs -> the state of the container of the run]
  watched,      \* [Runs -> the container whose exit the run waits for]
  wfStatus,     \* [Runs -> the status of the workflow at the instance]
  opened,       \* the open cables: [of, status of the last event to come]
  wfCable,      \* #cable
  shows,        \* [1..MaxShows -> a getWorkflowById of the page]
  wfPage,       \* what the page shows
  wfEvents      \* how many events the user sent

workflowVars == <<docker, dockerStatus, verifying, wfRun, container, containers,
                  watched, wfStatus, opened, wfCable, shows, wfPage, wfEvents>>

dockerVars == <<docker, dockerStatus, verifying>>
runVars == <<wfRun, container, containers, watched>>
cableVars == <<opened, wfCable>>

Terminated == {"finished", "failed", "stopped"}

NoShow == [at |-> "idle", workflow |-> Nobody, status |-> "none"]

WorkflowInit ==
  /\ docker \in [up : BOOLEAN, image : BOOLEAN, socket : BOOLEAN, changes : {0}]
  /\ dockerStatus = "NOT_CONFIGURED"
  /\ verifying = "verify"
  /\ wfRun = [r \in Runs |-> "idle"]
  /\ container = Nobody
  /\ containers = [r \in Runs |-> "none"]
  /\ watched = [r \in Runs |-> Nobody]
  /\ wfStatus = [r \in Runs |-> "none"]
  /\ opened = {}
  /\ wfCable = <<>>
  /\ shows = [n \in 1..MaxShows |-> NoShow]
  /\ wfPage = [route |-> "index", workflow |-> Nobody, status |-> "none",
               sending |-> FALSE]
  /\ wfEvents = 0

-----------------------------------------------------------------------------
(***************************************************************************)
(* The docker store. The page verifies the image when it is created; while *)
(* the daemon cannot be reached it verifies again every five seconds, and  *)
(* an image that is missing is pulled.                                     *)
(***************************************************************************)
DockerStarts ==
  /\ ~docker.up
  /\ docker' = [docker EXCEPT !.up = TRUE]
  /\ UNCHANGED <<dockerStatus, verifying, runVars, wfStatus, cableVars, shows,
                 wfPage, wfEvents>>

\* #reconfigure: requests that are under way keep the client they have.
ReconfigureSocket ==
  /\ docker.changes < MaxSocketChanges
  /\ docker' = [docker EXCEPT !.socket = ~@, !.changes = @ + 1]
  /\ UNCHANGED <<dockerStatus, verifying, runVars, wfStatus, cableVars, shows,
                 wfPage, wfEvents>>

\* verifyDockerImage: ENOENT or ECONNREFUSED mean that docker is not configured.
NotConfigured ==
  /\ verifying = "verify"
  /\ docker.socket /\ ~docker.up
  /\ dockerStatus' = "NOT_CONFIGURED"
  /\ verifying' = "timer"
  /\ UNCHANGED <<docker, runVars, wfStatus, cableVars, shows, wfPage, wfEvents>>

VerifyAgain ==
  /\ verifying = "timer"
  /\ verifying' = "verify"
  /\ UNCHANGED <<docker, dockerStatus, runVars, wfStatus, cableVars, shows,
                 wfPage, wfEvents>>

\* dockerConfigured and isDockerImageAvailable arrive one after the other.
Configured ==
  /\ verifying = "verify"
  /\ docker.socket /\ docker.up
  /\ dockerStatus' = IF docker.image THEN "IMAGE_PULLED" ELSE "PULLING_IMAGE"
  /\ verifying' = IF docker.image THEN "done" ELSE "pull"
  /\ UNCHANGED <<docker, runVars, wfStatus, cableVars, shows, wfPage, wfEvents>>

\* Another error, also that of a socket the configuration does not name, is
\* shown and ends the verification.
VerificationFails ==
  /\ verifying = "verify"
  /\ verifying' = "failed"
  /\ UNCHANGED <<docker, dockerStatus, runVars, wfStatus, cableVars, shows,
                 wfPage, wfEvents>>

PullDockerImageCompleted ==
  /\ verifying = "pull"
  /\ verifying' = "done"
  /\ \E success \in BOOLEAN :
       /\ dockerStatus' = IF success THEN "IMAGE_PULLED" ELSE "IMAGE_FAILED"
       /\ docker' = [docker EXCEPT !.image = @ \/ success]
  /\ UNCHANGED <<runVars, wfStatus, cableVars, shows, wfPage, wfEvents>>

-----------------------------------------------------------------------------
(***************************************************************************)
(* Cables. subscribeToUpdates disconnects the cable the runner knows,      *)
(* awaits a new one and keeps that one.                                    *)
(***************************************************************************)
Disconnected == {c \in opened : c.id # wfCable}

Connect(id, w) ==
  /\ opened' = opened \cup {[id |-> id, of |-> w]}
  /\ wfCable' = id

(***************************************************************************)
(* runWorkflow. Without a docker socket it ends at once. The workflow, its *)
(* token and the executor's binary are fetched; any failure ends the run,  *)
(* and the page that started it shows the error.                           *)
(***************************************************************************)
StartWorkflow(r) ==
  /\ wfRun[r] = "idle"
  /\ r \in PageRuns => wfPage.route = "new" /\ dockerStatus = "IMAGE_PULLED"
  /\ wfRun' = [wfRun EXCEPT ![r] = IF docker.socket THEN "creating" ELSE "failed"]
  /\ UNCHANGED <<dockerVars, container, containers, watched, wfStatus, cableVars,
                 shows, wfPage, wfEvents>>

RunFails(r) ==
  /\ wfRun[r] \in {"creating", "created", "copying", "subscribing"}
  /\ wfRun' = [wfRun EXCEPT ![r] = "failed"]
  /\ UNCHANGED <<dockerVars, container, containers, watched, wfStatus, cableVars,
                 shows, wfPage, wfEvents>>

CreateWorkflow(r) ==
  /\ wfRun[r] = "creating"
  /\ wfRun' = [wfRun EXCEPT ![r] = "created"]
  /\ wfStatus' = [wfStatus EXCEPT ![r] = "created"]
  /\ UNCHANGED <<dockerVars, container, containers, watched, cableVars, shows,
                 wfPage, wfEvents>>

\* An answer without an id is kept as the container, and ends the run.
CreateContainer(r) ==
  /\ wfRun[r] = "created"
  /\ docker.socket /\ docker.up
  /\ \/ /\ wfRun' = [wfRun EXCEPT ![r] = "copying"]
        /\ container' = r
        /\ containers' = [containers EXCEPT ![r] = "created"]
     \/ /\ wfRun' = [wfRun EXCEPT ![r] = "failed"]
        /\ container' = Nobody
        /\ UNCHANGED containers
  /\ UNCHANGED <<dockerVars, watched, wfStatus, cableVars, shows, wfPage, wfEvents>>

\* The executor is copied into this run's container and the container starts.
\* A run of the client's notification ends here; startWorkflow of the page goes
\* on to subscribe.
StartContainer(r) ==
  /\ wfRun[r] = "copying"
  /\ docker.socket
  /\ containers' = [containers EXCEPT ![r] = "running"]
  /\ IF r \in PageRuns
     THEN /\ wfRun' = [wfRun EXCEPT ![r] = "subscribing"]
          /\ opened' = Disconnected
     ELSE /\ wfRun' = [wfRun EXCEPT ![r] = "done"]
          /\ UNCHANGED opened
  /\ UNCHANGED <<dockerVars, container, watched, wfStatus, wfCable, shows,
                 wfPage, wfEvents>>

\* watchWorkflowExecutor: without a socket or a container it rejects, which nothing in
\* startWorkflow catches, so that neither a drop nor an error follows.
Watching(r) ==
  IF docker.socket /\ container # Nobody
  THEN /\ wfRun' = [wfRun EXCEPT ![r] = "watching"]
       /\ watched' = [watched EXCEPT ![r] = container]
  ELSE /\ wfRun' = [wfRun EXCEPT ![r] = "unwatched"]
       /\ UNCHANGED watched

\* The cable is there, and the watch waits for the container the runner knows now. The
\* page is told that the workflow started: a page for new workflows goes on to show it.
Subscribed(r) ==
  /\ wfRun[r] = "subscribing"
  /\ Watching(r)
  /\ Connect(<<"run", r>>, r)
  /\ wfPage' = [wfPage EXCEPT !.workflow = r, !.status = "created",
                              !.sending = @ /\ wfPage.status = "created",
                              !.route = IF @ = "new" THEN "started" ELSE @]
  /\ UNCHANGED <<dockerVars, container, containers, wfStatus, shows, wfEvents>>

ContainerExits(r) ==
  /\ containers[r] = "running"
  /\ \E exit \in {"exited", "crashed"} : containers' = [containers EXCEPT ![r] = exit]
  /\ UNCHANGED <<dockerVars, wfRun, container, watched, wfStatus, cableVars,
                 shows, wfPage, wfEvents>>

\* A watch that times out is repeated, with the socket and the container there are then.
WatchTimesOut(r) ==
  /\ wfRun[r] = "watching"
  /\ watched[r] # container \/ ~docker.socket
  /\ Watching(r)
  /\ UNCHANGED <<dockerVars, container, containers, wfStatus, cableVars, shows, wfPage,
                 wfEvents>>

\* What a container that has ended answers.
Waited(r) == IF watched[r] = Nobody THEN "none" ELSE containers[watched[r]]

\* Mutant: the status code of the container is not looked at.
anyExit(r) == FALSE
executorFailed(r) == Waited(r) = "crashed"

\* A status code above zero has the workflow dropped, and the page shows the error; when
\* the instance refuses the update nothing more happens.
WatchEnds(r, failed) ==
  /\ wfRun[r] = "watching"
  /\ \/ /\ ~failed
        /\ wfRun' = [wfRun EXCEPT ![r] = "done"]
        /\ UNCHANGED wfStatus
     \/ /\ failed /\ wfStatus[r] \notin Terminated
        /\ wfRun' = [wfRun EXCEPT ![r] = "done"]
        /\ wfStatus' = [wfStatus EXCEPT ![r] = "failed"]
     \/ /\ failed
        /\ wfRun' = [wfRun EXCEPT ![r] = "refused"]
        /\ UNCHANGED wfStatus
  /\ UNCHANGED <<dockerVars, container, containers, watched, cableVars, shows,
                 wfPage, wfEvents>>

ExecutorWatched(r) ==
  Waited(r) \in {"exited", "crashed"} /\ WatchEnds(r, executorFailed(r))

\* Any other error of the watch counts as a status code of 1, though the container may
\* still run.
WatchFails(r) == WatchEnds(r, TRUE)

-----------------------------------------------------------------------------
(***************************************************************************)
(* The events of a workflow: the instance publishes a checkpoint to the    *)
(* cables that are open, and the runner hands it to the page. The event of *)
(* a finished workflow disconnects the cable the runner knows.             *)
(***************************************************************************)
PageStatus(status) ==
  [wfPage EXCEPT !.status = status,
                 !.sending = @ /\ wfPage.status = status]

Checkpoint(r) ==
  /\ containers[r] = "running"
  /\ wfStatus[r] \notin Terminated
  /\ \E status \in Checkpoints :
       /\ wfStatus[r] # status
       /\ wfStatus' = [wfStatus EXCEPT ![r] = status]
       /\ LET heard == \E c \in opened : c.of = r
          IN /\ wfPage' = IF heard THEN PageStatus(status) ELSE wfPage
             /\ opened' = IF heard /\ status = "finished" THEN Disconnected ELSE opened
  /\ UNCHANGED <<dockerVars, runVars, wfCable, shows, wfEvents>>

(***************************************************************************)
(* Showing a workflow: getWorkflowById queries it, subscribes unless it is *)
(* finished, and then tells the page what it had read.                     *)
(***************************************************************************)
OpenWorkflow(n) ==
  /\ shows[n].at = "idle"
  /\ \A m \in 1..(n - 1) : shows[m].at # "idle"
  /\ \E r \in {q \in Runs : wfStatus[q] # "none"} :
       /\ \/ wfPage.route = "index"
          \/ wfPage.route = "started" /\ r = wfPage.workflow
       /\ shows' = [shows EXCEPT ![n] = [at |-> "query", workflow |-> r, status |-> "none"]]
       /\ wfPage' = [wfPage EXCEPT !.route = "show", !.workflow = r]
  /\ UNCHANGED <<dockerVars, runVars, wfStatus, cableVars, wfEvents>>

QueryFails(n) ==
  /\ shows[n].at \in {"query", "subscribing"}
  /\ shows' = [shows EXCEPT ![n].at = "done"]
  /\ UNCHANGED <<dockerVars, runVars, wfStatus, cableVars, wfPage, wfEvents>>

Queried(n) ==
  /\ shows[n].at = "query"
  /\ LET status == wfStatus[shows[n].workflow]
     IN /\ shows' = [shows EXCEPT ![n].status = status,
                       ![n].at = IF status = "finished" THEN "answer" ELSE "subscribing"]
        /\ opened' = IF status = "finished" THEN opened ELSE Disconnected
  /\ UNCHANGED <<dockerVars, runVars, wfStatus, wfCable, wfPage, wfEvents>>

ShowSubscribed(n) ==
  /\ shows[n].at = "subscribing"
  /\ shows' = [shows EXCEPT ![n].at = "answer"]
  /\ Connect(<<"show", n>>, shows[n].workflow)
  /\ UNCHANGED <<dockerVars, runVars, wfStatus, wfPage, wfEvents>>

\* workflowStarted, workflowCheckpoint and workflowStatus: the stores take them
\* whatever the page shows by now.
Shown(n) ==
  /\ shows[n].at = "answer"
  /\ shows' = [shows EXCEPT ![n].at = "done"]
  /\ wfPage' = [PageStatus(shows[n].status) EXCEPT
                  !.workflow = shows[n].workflow]
  /\ UNCHANGED <<dockerVars, runVars, wfStatus, cableVars, wfEvents>>

\* Leaving the workflow stops the runner's subscription and resets the store.
LeaveWorkflow ==
  /\ wfPage.route = "show"
  /\ opened' = Disconnected
  /\ wfPage' = [wfPage EXCEPT !.route = "index", !.workflow = Nobody,
                              !.status = "none", !.sending = FALSE]
  /\ UNCHANGED <<dockerVars, runVars, wfStatus, wfCable, shows, wfEvents>>

NewWorkflow ==
  /\ wfPage.route = "index"
  /\ wfPage' = [wfPage EXCEPT !.route = "new"]
  /\ UNCHANGED <<dockerVars, runVars, wfStatus, cableVars, shows, wfEvents>>

(***************************************************************************)
(* Pausing, resuming and stopping: the buttons wait for the next status.   *)
(* A failure to send the event is shown; the buttons go on waiting.        *)
(***************************************************************************)
SendWorkflowEvent ==
  /\ wfPage.route = "show"
  /\ wfPage.status \in {"running", "paused"}
  /\ ~wfPage.sending
  /\ wfEvents < MaxEvents
  /\ wfEvents' = wfEvents + 1
  /\ wfPage' = [wfPage EXCEPT !.sending = TRUE]
  /\ UNCHANGED <<dockerVars, runVars, wfStatus, cableVars, shows>>

-----------------------------------------------------------------------------
DockerStep ==
  \/ NotConfigured \/ VerifyAgain \/ Configured \/ VerificationFails
  \/ PullDockerImageCompleted

RunStep(r) ==
  \/ RunFails(r) \/ CreateWorkflow(r) \/ CreateContainer(r) \/ StartContainer(r)
  \/ Subscribed(r) \/ ExecutorWatched(r)

ShowStep(n) == QueryFails(n) \/ Queried(n) \/ ShowSubscribed(n) \/ Shown(n)

WorkflowNext ==
  \/ DockerStarts \/ ReconfigureSocket \/ DockerStep
  \/ \E r \in Runs :
       \/ StartWorkflow(r) \/ RunStep(r) \/ ContainerExits(r) \/ WatchTimesOut(r)
       \/ WatchFails(r) \/ Checkpoint(r)
  \/ \E n \in 1..MaxShows : OpenWorkflow(n) \/ ShowStep(n)
  \/ LeaveWorkflow \/ NewWorkflow \/ SendWorkflowEvent

\* Requests to docker and to the instance end, and timers fire.
WorkflowFairness ==
  /\ WF_workflowVars(DockerStep)
  /\ WF_workflowVars(\E r \in Runs : RunStep(r))

WorkflowSpec == WorkflowInit /\ [][WorkflowNext]_workflowVars /\ WorkflowFairness

-----------------------------------------------------------------------------
\* When the container of a run of the page crashes, the workflow does not stay running at
\* the instance (watchWorkflowExecutor, startWorkflow), unless the page was shown that the
\* run failed, the instance refused the update, the watch had rejected for want of a socket
\* or a container, or it had gone over to the container of a later run.
CrashIsReported ==
  \A r \in PageRuns :
    containers[r] = "crashed"
      ~> \/ wfStatus[r] \in Terminated
         \/ wfRun[r] \in {"failed", "refused", "unwatched"}
         \/ watched[r] \notin {Nobody, r}

=============================================================================
