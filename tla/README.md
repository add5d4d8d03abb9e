# eWoodX: TLA+ models, checks and proofs

This directory models the concurrent and distributed parts of the repository:
the action workflow between a master and its agents with the orchestrator and
the sensing requests on top of it, servo teleoperation, the entity store,
workspaces and their file transfer, the sensing composer, the live streams, the
projector programs and the publication to a broker. Modules are written
from the source; `PROJECT.json` lists, for every definition, the lines it
stands for. Paths below are relative to the repository's root.

## 1. The system

The repository has two layers. `framework/` offers communication (actions,
stores, TCP transports, streams, ROSBridge), orchestration (sequences of
actions), workspace (directories, an entity index) and cameras. `projects/`
uses them: `ewoodx` senses timber, stores it as entities, projects on it and
publishes it to an external broker; `servo_teleop` drives a robot from
Grasshopper through a control agent and a master.

| Component | State it keeps | Operations | Talks to |
|---|---|---|---|
| Action workflow (`communication/core`, `storage`, `workflow`, `transport/tcp`) | master: one JSON file per action (status, claimant); agent: one JSON file per claimed action (status, consumed, reported) | create, claim_next, mark_running, mark_terminal; locally consume_action, mark_terminal; polling | one TCP request per connection; the agent's poller and its local API server share the agent's store |
| Servo control agent (`servo_teleop/agents/control_agent.py`, `operations/input_state.py`, `grasshopper_tcp.py`) | Grasshopper session, phase, arm request, authority, unacknowledged axes, fault | arm, axes, stop from Grasshopper; coordinator loop; acknowledgement watchdog; start, stop | registered stream to the servo master; one thread per Grasshopper connection |
| Servo master (`servo_teleop/agents/master_agent.py`, `operations/control_state.py`) | authority (owner, session, last sequence number, axes), ROS fault | apply a request, expire, check connections, publish, stop | streams to agents; ROSBridge |
| Entity store (`workspace/entity_manager.py`) | a row in `entities.db` and `entity.json` for every entity | create, claim, release, mark unavailable, set availability, query | processes share the file system only |
| Sensing composer and id allocator (`ewoodx/operations/sensing_composer.py`, `entity_id_allocator.py`) | active id, capture phase, frozen measurement, pause, command queues; the counter file | frame, finalize, pause, resume, status, thickness, stop | entity store, sensing stream, keyboard |
| Stream host and endpoints (`ewoodx/operations/streaming`, `workflow/stream_*`, `transport/tcp/stream_*`) | host: registered agents, subscriptions, latest value per topic; endpoint: latest values, command and result queues | publish, subscribe, unsubscribe, send command, send result, connect, disconnect | one host thread per connection |
| Orchestration (`framework/orchestration`) | metadata of the actions in the master's store | start, advance (find the successor or create it), dispatch | action store |
| eWoodX master and sensing agents (`ewoodx/orchestration`, `ewoodx/agents`, `sensing_agent_entrypoint.py`) | where a run of the entrypoint is, the request the agent's server is serving | start an orchestration, wait for the action, execute it, report; list workspaces and entities, resolve a download | orchestrator, agent's store and poller, entity index |
| Workspace, domain, entry managers; entry allocator; sensing entrypoints | directories, manifests, the latest pointer, `.last_workspace` | create, open, list, next entry number, save | processes share the file system only |
| File transfer (`transport/tcp/file_*`) | `.receiving` file beside the destination | announce, send, receive, move into place | one connection per file; the server takes one at a time |
| Circuloos adapter | payload files, the timber's registry with identities and publication status | map the timber and its advertisements, allocate, publish, look back | Orion broker, outside the repository; processes share files |
| Older segmentation operations (`timber_segmentation_*.py`) | thickness in force, command queue | type a command; capture, obey one command, save | terminal thread; entity directory and `projector_runtime` |
| Projector composer (`projector_composer.py`, `projection/`) | measurement, geometry, thickness, what is connected, file signature, command queue | poll stream and files, obey, render, keys | stream host; `projector_runtime`; a window |
| Live viewer (`projector_live_viewer.py`) | data, thickness, connected | draw, keys; receive lines of JSON | server thread for one Grasshopper client; `projector_runtime` |
| Calibration, tuning, cameras, vision | image data | numeric work | OpenCV, devices |

### Which behaviours are hard

* **Lost and late messages.** Every workflow request is a new connection; its
  answer can be lost after the master has acted, and a request the agent gave
  up on can be served later.
* **Two stores of one fact.** Master and agent each record an action; index
  and manifest each record an entity's availability.
* **Crashes between two writes.** Agents, the master and the composer are
  restarted over what is on disk.
* **Threads that act on what they read before.** The servo publisher's
  snapshot, the Grasshopper gate's phase, the stream host's list of connected
  agents, the sender thread's revisions.
* **Timeouts racing late answers.** Arm requests, acknowledgements, command
  expiry.
* **Motion that must stop.** Whatever fails, a disarmed master ends with a
  zero and a stopped one stays still.
* **Retries.** Staged saves, repeated publications, claims after a lost answer.
* **Look, then act.** The successor of an action, the next entry number, the
  size of a file, the registry of a timber are read in one step and used in a
  later one, by processes that share nothing but files.
* **Two sources for one picture.** The projector mixes files, a live stream and
  Grasshopper; each brings a thickness, and each may leave at any time.

### What makes each component correct

* Action workflow: the two stores never contradict each other; an agent claims
  only when it is free and holds one active action; a record never goes back;
  a run that says it is done has its outcome in both stores; the store follows
  the lifecycle.
* Orchestration and sensing requests: steps are released in order, each once;
  a run executes the action it started and no other; what was started is
  finished when nothing goes wrong.
* Servo teleoperation: an authority is used by the input session that asked
  for it; none is left behind; the last word on the way to the master is a
  stop; faults only for reasons; dead man; a zero follows every disarm.
* Entity store: holders and creators are exclusive; index and manifest agree
  when calls take turns.
* Sensing: the artifacts of an entity show one frame; a saved entity is
  complete, an incomplete one is still being saved; ids are never reused;
  commands are answered.
* Streams: the latest value is routed; a subscriber that joined while nothing
  else was going on shows what was last routed.
* Workspaces and transfer: what a pointer names can be opened, what was saved
  can be served; new entries kept apart when they are taken one after the other;
  a copy is a whole file, whatever receivers that died left behind, but for the
  two cases named under `FileTransfer`.
* Circuloos: nothing is called published that the broker lacks, in the quantity
  that was prepared; identities are given once and last; a registry stays whole;
  a repeated publication succeeds.
* Table: a measurement is saved with the thickness typed for it; what is
  projected was saved whole and is corrected by its own thickness; the
  projection catches up.

## 2. The modules

| Module | Models | Lines of code |
|---|---|---|
| `ActionLifecycle` | abstract: the life of single actions, pending to terminal | `core/action.py` |
| `ActionWorkflow` | master store, TCP server, agents' stores, pollers, API threads, lost and late messages, crashes | `storage`, `workflow`, `transport/tcp` |
| `ServoLink` | the registered stream between control agent and master, its breaking and its return | `stream_client`, `stream_handler`, `stream_connection` |
| `ServoControl` | control agent: Grasshopper threads, coordinator, receiving thread | `control_agent.py`, `grasshopper_tcp.py`, `input_state.py` |
| `ServoMaster` | control state, request thread, watchdog, publisher, ROS connection | `master_agent.py`, `control_state.py`, `ros_direction_publisher.py` |
| `ServoTeleop` | composes control agent, link and master, a rival agent, disturbances | |
| `ServoPublishing` | composes the master with a client that sends anything the protocol allows, in any order | |
| `ServoProofs` | theorems of `ServoTeleop`: one input per session, stops, no orphaned authority, no spurious fault; and of `ServoPublishing`: `StopIsFinal` | |
| `EntityStore` | callers of the entity manager, step by step | `entity_manager.py` |
| `EntityStoreProofs` | its theorems: claims and creation are exclusive, the two records agree when calls take turns | |
| `SensingCapture` | the composer's loop, command queues, staged save, allocator, restarts | `sensing_composer.py`, `entity_id_allocator.py` |
| `StepSequence` | abstract: an orchestration releases its steps one after the other | `orchestration/definition.py` |
| `Orchestration` | the orchestrator over the store of `ActionLifecycle`, callers of `advance` | `orchestration/` |
| `OrchestrationProofs` | its theorems, and that it implements `StepSequence` | |
| `SensingRequests` | composes `ActionWorkflow` with `Orchestration`, the agent's server and the runs of the entrypoint | `sensing_agent_entrypoint.py`, `ewoodx/orchestration`, `ewoodx/agents` |
| `SensingRequestsProofs` | theorems of `ActionWorkflow`, and of `SensingRequests`: a run executes its own action, and `Orchestration` is implemented | |
| `Workspace` | sensing processes over workspaces, domains and numbered entries | `workspace/`, `entry_allocator.py`, `sensing_entrypoint*.py` |
| `FileTransfer` | file server, clients, the two ends of a transfer | `transport/tcp/file_*.py` |
| `WorkspaceFiles` | composes both with the master's queries and downloads | `master_handler.py`, `entity_file_resolver.py` |
| `WorkspaceFilesProofs` | its theorems: what a pointer names, entries apart, whole copies | |
| `Circuloos` | mapping, registry, publication, the broker as an external party | `circuloos_adapter/` |
| `CirculoosProofs` | its theorems | |
| `MeasurementFiles` | the files the segmentation leaves and the projectors read | `projection/projector_state.py` |
| `TimberSegmentation` | terminal thread, capture loop, save | `timber_segmentation_angetube.py`, `timber_segmentation_arducam.py` |
| `Projector` | the composer's loop, its state, the receiving thread | `projector_composer.py`, `projection/` |
| `LiveViewer` | the viewer's loop and its server thread | `projector_live_viewer.py` |
| `TableProjection` | composes the segmentation with one of the two projector programs | |
| `TableProjectionProofs` | its theorems: thickness as typed, only what was saved is shown, corrected as measured | |
| `StreamHub` | publisher and its sender, the host's threads, subscribers that come and go | `stream_common.py`, `stream_host.py`, `stream_handler.py` |
| `SensingStreamProofs` | theorems of `SensingCapture` and `StreamHub`: what a save leaves, ids, what a subscriber shows | |
| `MC*` | the instances TLC checks | |

Each definition ending in `_Something` under a comment that begins with "Slip"
(`PollClaim_Unguarded`, `Capture_WhileFinalizing`, ...) is a plausible bug, the
mutated form of the definition after it. `PROJECT.json` pairs one with every
checked property; replacing the definition by its slip makes TLC report that
property, which shows that the property says something about the code.

### How state and actions correspond to the code

**ActionWorkflow.** `status` and `claimedBy` are the JSON files of
`ActionStore`, `local[g]` those of `AgentActionStore`. Both are read in the
order of file names, hence actions are natural numbers and `IsFirst` picks the
least. `rpc[t]` is the one request a thread waits for: `sent`, then `ok` or
`error` when the server has acted and the answer is on its way. `MasterServe`
is `TCPServer._handle_client` with `WorkflowHandler.handle`, one connection at a
time. A client that gives up (`Timeout`, `AgentRestart`) loses its answer, or
leaves its request in the listen backlog (`late`), to be served afterwards.
Sending the answer to a client that is gone may raise out of the server's loop,
which ends it (`MasterServeLate`, `ResetConnections`). `PollClaim` is
`AgentPoller.poll_once` up to the request, `PollSave` what follows the answer;
`ApiConsume`, `ApiRunningReported`, `ApiTerminal` and `ApiTerminalReported` are
the halves of the two local commands, split at the call of the master. A local
record has the status the agent wrote plus the two flags `consumed` and
`reported`, and *active* means not both terminal and reported.

**Servo modules.** One region under a lock, or one send, is one step. In
`ServoControl` the coordinator's program counter is `worker.at`, with the
snapshot it works from; a Grasshopper message is admitted (`GhRequest`) and
applied (`GhApply`) in two steps, because the code reads the phase before it
takes the input state's lock. Phase `CLOSED` stands for an instance that was
stopped or died. A Grasshopper message's sequence number is left out and its
direction is `zero` or `move`. Acknowledgements of stops are ignored by the
agent and therefore not sent. A timeout may happen whenever the code could
measure one: it counts as a disturbance. In `ServoMaster` the publisher takes
its snapshot, checks ROS and sends in three steps; `robot` is the last command
the robot got, `cut` when the bridge went down (the robot's own watchdog is
outside the repository).

**EntityStore.** Each call is a program: `create` makes the directory, writes
the manifest, inserts the row; `claim` and `give back` update the row in one
conditional SQL statement and then write the temporary file and rename it;
`override` writes the manifest first and the row last. A second writer uses the
same temporary name, so a rename may find it gone (and raises) or bring the
other caller's content. Opening and writing the temporary file are one step:
two writers whose bytes mix are not modelled. Metadata never changes and is
left out.

**SensingCapture.** `at` is the place of the loop: the typed commands until there
are none, then the streamed ones, then a frame unless the composer is paused. `Save`, `CreateDirectory`, `WriteManifest`, `RegisterEntity`,
`WriteArtifact`, `Saved` are `finalize` with each of its writes, `Raise` its
failure at any of them. A measurement is the number of the frame it came from.
Two artifacts, the first written and the last, stand for the four. All random
tokens are equal, so that only the counter keeps ids apart. Setting thickness
and asking for status are the command `query`.

**StreamHub.** One topic with one publisher, whose values are their revision
numbers. `SenderReads` and `SenderSends` are the sender loop before and after
the `LatestValue` lock. In the host, a message's handler prunes (`PruneTo...`),
then works under the lock (`AddSubscription`, `CacheAndSelect`), then sends
outside it (`SendCached`, `RouteSend`); the connected agents are read in the
first of these steps. A subscription made between that reading and the pruning
is lost, and a cached value sent outside the lock may come after a newer one
that another thread routed. The model has both races, the code has them too,
and no property covers them: `overlapped` marks a subscriber whom another thread
of the host met, and `CurrentInTurn` speaks of the others only. Both ends notice a lost connection at once, and the
host's thread of the old connection ends before the agent returns.

**Orchestration and SensingRequests.** `origin` is the orchestration metadata
of an action, `Successors` the search of `_find_successor` through the store;
`advance` is `Lookup` and `CreateSuccessor`, with the store open to everybody
in between. In the composition the orchestration id, which is new for every
run, is the run itself. `forward` is the `start_orchestration` that the agent's
server sends on to the master and waits for, `serving` the run whose request
that server is working on (one at a time), `run[r]` where the entrypoint is:
`RequestStart`, `Consume`, `Report` are its requests, `StartAnswered`,
`ConsumeAnswered`, `ReportAnswered` what the server answers. A run reports its
outcome once: if the report or its answer is lost, the run raises, nothing sends
the outcome again, and the record it left blocks the agent. `DoneIsRecorded`
therefore speaks of runs whose report was acknowledged. A start that was
given up stays in the master's backlog (`lateStarts`) and may create an action
nobody waits for. Creating an action is a step of `Orchestration`, so the
action `Create` of `ActionWorkflow` is not taken here. Agents of the other
steps take lifecycle steps only (`OtherAgent`). Runs and the
agent are processes of their own: `RunKilled` leaves the agent alone,
`StationRestarts` the runs whose request it was not serving.

**Workspace, FileTransfer, WorkspaceFiles.** A file or directory is named by
how far it has come: `none`, `bare` (the directory), `blank` (a file opened for
writing), `whole` or `managed` (its manifest is there). `session[s]` is the place
of the entrypoint in its menus and in `init_workspace`; each mkdir, check, open
and fill is a step, `EndSession` a kill or an error after any of them. All
entries are of one day. The platform may refuse a symbolic link, in which case
the pointer is a text file with the path. Two processes
that make the same pointer at once may end one of them (`OpenText`); a workspace
whose creator died between its directory and its manifest can neither be opened
nor created again, and a blank manifest ends the process that opens it. The
models keep these outcomes. A transfer is `conv[c]` at the client and `server` at the one
thread of the file server; the announced size is one look at the file, the
bytes come from a later opening. `CopyIsWhole` names the two ways in which a copy
that was moved into place is not a whole version, and both happen: a file that
was replaced by a longer one after the announcement is cut at the announced size
(`cut`: the copy is the beginning of a version), and a sender that fails midway
sends its error message on the same connection, whose bytes may fill the
announced size (`garbled`). `framework/communication/transport/tcp/README.md` says
that the temporary file prevents an incomplete transfer from appearing at its
destination as though it were complete; in these two cases it does not. What
holds in all others is that nothing of an earlier, abandoned transfer gets into
a copy. The eWoodX master has no upload
resolver; the instance has one, so that uploads are checked as well. Two
downloads of one process into one destination would share the `.receiving`
file; a client has one conversation here. Menus for equipment and mode are left
out.

**Circuloos.** A payload file is a set: `{}` is no payload, otherwise it has one
document with a `quantity`, of which validation refuses 0, and `details`, which
stand for the price, the title and all else. `Readback` compares the identity, the
quantity and the reference to the timber, as `_publish` does, and nothing else.
A publication over an older one whose upsert the broker acknowledges and drops
is therefore called published if the quantity is the same, although its other
attributes may be the old ones: `QuantityAsPrepared` says nothing about them. `measured`, `local` and `registry` are files,
`remote` the broker. A call is `call[c]`, one step per file read or written and
per HTTP request; a validation that fails raises with nothing changed (`Ends`).
The status `failed` is declared in the code and never set. Overlapping calls
may hand out a number twice, and a payload may then lose its registration:
`overlapped` marks those executions, which `IdentitiesInTurn` leaves out: that race
is the code's, and only `BrokerHasPublished` covers it. The caching of the token
and `get_mapping`, which only reads, are left out.

**MeasurementFiles, TimberSegmentation, Projector, LiveViewer, TableProjection.**
`runtime[n]` is the n-th state of `measurements.json` under `projector_runtime`,
`entities[n]` what the entity's own directory has. A thickness that may be missing is
a set with at most one element; pictures and outlines are the measurement they
were made from. `TimberSegmentation` has the terminal thread and the capture
loop, which takes the typed commands in order and saves artifact by artifact;
the file the projector reads is written last. In `Projector`, `loop.at` is the
place in one pass: the stream, the file (`SignFile` looks at its signature,
another step reads it), Grasshopper, the key, the rendering; `source` is the
`ProjectorState`, `shown` the picture. Whether a timeout has passed is a
nondeterministic choice. In `LiveViewer` the server thread handles a line of
JSON between any two steps of the draw loop; a line that is not an object
raises in that thread and ends it. Offsets, zoom, colours and the menu of
layers are left out.

## 3. The runs

| Run | Instance | States | What it shows |
|---|---|---|---|
| `workflow_faults` | 2 agents, 3 actions, one handled by one agent only | 395,004 | stores agree, claims only when free, records never go back, the lifecycle is implemented, under any losses, late requests and crashes |
| `sensing_requests` | 1 station, 1 other agent, 2 runs, 2 steps, 4 actions, 2 callers, 1 fault | 176,386 | a run executes its own action; what is created is finished without faults; a run that reports success has it recorded in both stores; the orchestration and its sequence of steps are implemented |
| `servo_teleop` | 1 client, 1 rival, 2 inputs, 2 sessions, 1 disturbance | 357,214 | authority, faults and motion of `ServoTeleop` |
| `servo_publishing` | one client, 2 sessions, 2 queued requests | 637,848 | motion stops, and a stopped master is still |
| `servo_feedback` | as `servo_teleop` | violation in 17 states | a fault is overwritten by a phase |
| `entity_calls` | 1 entity, 2 consumers, 1 administrator, 6 calls | 15,187 | exclusive holders and creators; agreement when calls take turns |
| `entity_agreement` | 1 entity, 2 consumers, 4 calls | violation in 15 states | row and manifest disagree with no call in progress |
| `workspace_files` | 2 sessions, 2 workspaces, 2 entries, 1 client, 2 versions, 5 events | 2,055,467 | workspaces can be opened and served, entries taken one after the other are kept apart, copies are whole but for the two cases named above |
| `sensing_capture` | 2 artifacts, 2 sequence numbers, 3 frames, 2 commands, 2 starts | 192,924 | saves, ids and answers |
| `stream_turns` | 2 subscribers, 2 values, 3 connections | 429,810 | routing and what a subscriber shows |
| `circuloos` | 2 processes, 2 numbers, 2 quantities, 2 kinds of details, 3 calls, 1 fault | 1,624,350 | what is published and in which quantity, identities, the registry, and that a repeated publication succeeds |
| `table_projection` | 2 thicknesses, 2 typed commands, 2 inputs of each projector program | 1,439,882 | what is saved and shown belongs together; the composer catches up |

**Why the bounds suffice.** Two agents and three actions give two agents
competing for one action, an agent that can own several, and a backlog with a
request of each. Two servo sessions give a late message of the first in the
second; one disturbance may happen at any point of either; one unacknowledged
axes message fills the backlog. One entity and two consumers give every
interleaving of a pair of calls, and an administrator the third writer. Two
sequence numbers and two starts give a crash at every step of a save and a
restart over what is left; three frames give one saved, one between two tries
and one after; a queue of one command is full with one waiting. Two values are
needed for an old and a new one, three connections for one subscriber that
returns while the other stays. Two runs of the entrypoint and one fault let a
run find what another left; two steps with two ids for the second let one
completed action be given two successors, by two callers. Two sessions and two
workspaces give every interleaving of two creations and of two allocations, and
a session killed at any step with another after it; files of one and of two
blocks and an error as long as one block let a transfer end short, long or with
the wrong bytes. Two processes of the adapter give every interleaving of two
calls, and two numbers one that is used twice or lost. Two thicknesses make a
wrong one visible; two messages let a source come and go. Two kinds of details
tell what a readback misses. Entities, actions and subscribers are
independent of each other except through what these instances contain. Every
counter has its bound in a guard (`MaxCalls`, `MaxShots`, ...), named in the
module where it is used.

**Deadlock** is checked in `workflow_faults`, where pollers never run out of
work. Elsewhere the system may stop: all bounded work is done, or the process
ended.

**Fairness and why the code justifies it.**

* `RequestSpec` (`SensingRequests`): the master's process is restarted; the
  server loops, the poller and the agent's server keep running; a run goes on
  with its request, and executes its action to some end (each WF). Nothing
  resends a report. `EveryActionFinishes` excuses every execution in which
  something went wrong, because an action left by a run that gave up, or whose
  report was lost, is finished by nobody.
* `ServoTeleop`: threads run and connections notice their loss (WF). Nothing is
  assumed of Grasshopper. `OrphanExpires` is the `command_timeout` of an
  authority nobody refreshes, measured by the master's own clock.
* `ServoPublishing`: the publisher thread runs and `stop()` returns (WF). `stop()`
  waits for that thread for two seconds; the model takes it to end its pass, at
  most one publication, within them, as it does unless ROSBridge blocks.
* `SensingCapture`: the loop runs: camera and disk answer, with success or an
  exception (WF of the loop's next step).
* `StreamHub`: threads run (WF).
* `Circuloos`: a call in progress goes on, and an operator repeats
  `publish_wood(overwrite=True)` (WF); faults are bounded.
* `TableSpec`: the composer's and the segmentation's loops run (WF). `SignFile` is
  strongly fair: the loop comes past the file again and again and looks at it
  only when `file_poll_interval` is over, which happens each time anew. Nothing
  is assumed of the operator, of the stream or of the live viewer.

### Where code and documentation part

* `servo_feedback`: the tests of the acknowledgement watchdog expect a fault to
  be reported and to block arming. The coordinator may be between its look at
  the fault and its `_set_phase(ARMING)`: that phase is then written over `FAULT`,
  the coordinator ends for the fault, and `ARMING` is what Grasshopper is told until
  `main()` closes the program.
* `entity_agreement`: `framework/workspace/README.md:1750` says availability is
  persisted in both stores; overlapping calls that all succeed leave them
  different. `StoresAgreeInTurn` says what does hold.

## 4. The proofs

The theorems of `SensingRequestsProofs`, `OrchestrationProofs`,
`EntityStoreProofs`, `CirculoosProofs`, `WorkspaceFilesProofs`, `ServoProofs`,
`SensingStreamProofs` and `TableProjectionProofs` hold for every value of the
constants that satisfies the assumptions named in the modules, however many
agents, actions, steps, entities, callers, payloads, processes, connections,
subscribers and commands there are. What is assumed is what the instances need
to be read as intended:

* a placeholder is no member (`ActionsAssumption`, `AgentsAssumption`,
  `StationAssumption`, `UsersAssumption`, `NamesAssumption`, `HoldersAssumption`,
  `ClientsAssumption`, `OthersAssumption`);
* a bound, a size or a thickness is a natural number (`MaxCallsAssumption`,
  `FaultsAssumption`, `BoundsAssumption` of `Circuloos` and of `SensingCapture`,
  `EntryAssumption`, `SizeAssumption`, `ControlBounds`, `MaxSessionsAssumption`,
  `HubBounds`, `QuantitiesAssumption`, `ThicknessesAssumption`,
  `ConfiguredAssumption`);
* data has its shape (`EligibleAssumption`, `OutcomesAssumption`, `ConstantsOK` of
  `Orchestration` through `OrchestrationAssumption`, `ArtifactsAssumption`).

`ActionWorkflow` is proved about in the module of `SensingRequests`, which
extends it; `SensingCapture` and `StreamHub`, the composer and the host of the
stream it publishes on, and `ServoTeleop` and `ServoPublishing`, two views of
one master, share a module each.

**Action workflow.** `Invariance` proves `Spec => []IInv`; `TypeCorrect`,
`StoresAlwaysAgree` and `ClaimsOnlyWhenFree` follow from it. `StoresAgree` alone
is not inductive: whether a late `mark_running` may change the master depends
on what the agent recorded when it sent it. `IInv` adds what every request in
flight, answered or abandoned, says of the record it belongs to
(`CallsFitRecords`): an answered claim names an action claimed for this agent
and not yet in its store; a report belongs to an action the agent consumed, and
carries the outcome it recorded. `OwnedIffClaimed` and `ConsumedMatchesStatus`
tie the fields of each store together. The proof has one lemma per action;
`HandleEffect` and `StoreStepKeeps` say once what the server's three commands can
do to the stores, and are used for requests served in time and late.
`ImplementsActionLifecycle` proves that the workflow implements
`ActionLifecycle` (the variables `status` and `claimedBy` map to themselves):
each step is a lifecycle step or leaves both variables alone, given `IInv`.
`RecordsNeverRegress` proves the action property `LocalNeverRegresses` from the
same invariant: every write of an agent's record is `Forward`, and a step that
writes no record is `Forward` by reflexivity; `IInv` is needed where a write
presumes the status it overwrites.

**Orchestration.** `Invariance` proves `Spec => []IInv` for any length of the
definition and any number of callers; `StepsStayInOrder` and
`AtMostOneSuccessor` follow. `OneSuccessorInTurn` speaks of the store when a
successor is in it; a caller between its lookup and the creation has written
nothing yet. `LookupHolds` says that what it looked up is still true when it
creates (a completed action stays completed), `AloneAdvances` that, unless two
callers are marked as overlapping, no successor has appeared meanwhile and no
other caller is about to create one; `Fresh` that an id not yet used has no
orchestration. `ImplementsStepSequence` proves the refinement of `StepSequence`:
the released and completed steps are computed from the store (`ReleasedSteps`,
`CompletedSteps`), `CreateMaps` shows that a new action releases its step, or
that an overlapping successor's step was released before, and completing one is
`Complete` or, for the second of two successors, no change.

**Sensing requests.** `RequestInvariance` proves that `RequestInv` holds: `IInv` of
the workflow, the types, and three parts about the requests. `OthersIdle`: an
agent other than the station has no request of its own. `ForwardFits`: while a
start is on its way to the master the station's server does nothing else.
`ExecutingFits`: the action of an executing run is recorded as running in the
station's store, so by `IInv` it is the only active one (`RunExecutesItsOwn`).
`DoneStaysRecorded` proves `DoneIsRecorded`: the report on its way is for the action
that the run started (`ReportingFits`), a run that is done has that action's record
marked as reported (`DoneFits`), and by `IInv` the master then holds the recorded
outcome; the marks are never taken back (`RequestsForward`).
`OthersStoreKeeps` covers the steps that change other parties only: the master
creating a successor, another agent working. `ImplementsTheOrchestration` maps
the steps of the workflow to those of `Orchestration`; `HandleWorks` says what the
server's three commands are there, served in time or late. What
`OrchestrationProofs` shows then holds with every fault underneath: its theorems
are taken through an instance (`Orchestrated`) and give `OneSuccessor` and
`StepsAreInSequence`.

**Entity store.** `Invariance` proves `Spec => []IInv`; `HoldersAreExclusive` and
`CreationIsExclusive` follow. `HeldIsClaimed` speaks of callers that have
returned; the strengthening (`CallSound`) says the same of those in the middle
of a call: a claim on its way is the claimant in the row or was overridden
(`ClaimSound`), an override on its way is recorded as one (`OverrideSound`), and
a creator past the directory has no row yet and the directory is there
(`CreationSound`). The directory is per entry, so creators of one id are exclusive
within an entry. `OneCreator` is stated for pairs, so that the step of one
creator meets each other one.

`TurnsAgree` proves `StoresAgreeInTurn`. Its strengthening `TurnInv` says that two calls on one entity have marked it
(`Overlaps`), and that a call alone on its entity has done what its step says
(`Progress`): the draft it wrote is the one it will move into place, the record
it wrote first is still there when it writes the second. `BeginKeeps` and
`StepKeeps` carry every other entity and call over a step once; each action
then owes only the progress of its own call. A call that raises marks its
entity, which is what the property excludes and what
`EntityStore_agree` shows to be necessary for overlapping calls.

**Circuloos.** `Invariance` proves `Spec => []IInv`; the three invariants the run
checks follow (`QuantityAsPrepared` as `PublishesPreparedQuantity`), and `RegistryIsKept` proves the action property `RegistryLasts`
from it. `CallFits` says of every call, by the place it is at, what it read
and what must still be true of it: which operation can be there (`KindFits`),
that the broker has what was read back (`BrokerFits`; the broker loses nothing),
that a snapshot to be stored was taken from a whole registry (`RegistryFits`),
and, while calls take turns, that nothing read has changed (`TurnFits`).
`Alone` says that one process at a time fills a registry, which rests on the
exclusive opening of the file. The next sequence number is defined as the code
computes it, by a `CHOOSE`; that there is one, and that it is above all
registered numbers, is `NextSequenceIsNew`, from the existence of a smallest
number in a set of naturals.

**Workspaces and files.** `FilesInvariance` proves `FilesSpec => []FilesInv`, the
conjunction of `WorkspaceInv` and `TransferInv`; the three invariants follow. None of
them is inductive: `WorkspaceIsSound` speaks of what pointers name, and a pointer
is written long after the manifest it relies on. `Fits` says of one process what
it has already done, by its place: a process past its manifest has a whole
workspace, one past its domain a managed domain, unless another process
created the same workspace (`contested`). `Apart` says of two processes that
those with one new entry have been marked (`shared`). `MoveKeeps` carries all
other processes over a step once; each action then owes its own process and the
pointers. The number of a new entry is above all that were there, by
`NextEntryIsNew`, from the smallest element of a set of naturals.
Of a transfer, `Talks` says who has the attention of the server and what each
place of a conversation implies, and `MakesUp` that what has arrived and what
is under way are together the beginning of one version, of the announced size
unless the file was replaced meanwhile, or end in the sender's error.
`WhatIsSent`, `BlockArrives`, `PartIsBeginning` and `AllArrived` carry that from the
first byte to the move into place (`CopiesAreWhole`).
`TalkKeeps` carries the other conversations over a step.

**Servo teleoperation.** `ServoInvariance` proves `Spec => []ServoInv`, from which
`OneInput`, `StopIsLast` and `NothingOrphaned` follow. None of the three is inductive,
because each speaks of one end while the other end, or the stream between them,
decides what comes next. The invariant therefore speaks of the *line*: the
request in the master's hands, then those in the stream, in the order in which
they were sent.
`WorkerFits` ties the coordinator's place to its authorization and to its arm
request. `ArmsFit` says that a request id is used once and that an answered
request is no longer on the line, so that an acknowledgement can only be of
the request it names. `SessionsFit` says that a session that is being granted is
later than those of all axes sent; with it `InputsFit`, that the axes of one
session are of one input, survives a new grant. `StopsFollow` says that a stop
follows all the agent has sent but the axes of the authorization it has and the
arm request it waits for; it is what a time-out, a refusal and a shutdown each
have to restore, and holds while the connection does. `AuthorityFits` says of an
armed master why it is: the agent uses the session, is about to learn of it or
to refuse it, or a stop is on the line (`Wanted`). There is one lemma for every
group of actions and part of the invariant; `Pushed` and `Passes` say once what
sending a message and losing the connection do to the line.

`NoFaultInOrdinaryUse` proves the action property `NoSpuriousFault`: a step of an
agent that nothing has disturbed raises a fault only over a full backlog. The
faults of the code are a refused arm, an acknowledgement that does not fit, an
answer that comes too late and a connection that is lost, so the proof is that
none of them happens by itself. `QuietInv` says what an undisturbed execution
keeps: nobody else is armed (`Calm`), a grant on its way to the agent is what
the master holds (`AwaitsGrant`, `TakesGrant`), and while it is used the axes on
the line are in order, each above what the master has seen, and acknowledged as
accepted (`UsesGrant`, `InOrder`). `FaultsAreDue` then goes through the steps that
can raise one. `PendingFits` bounds the backlog.

**Servo publishing.** `StopIsFinal` proves `StoppedMeansStill`. It needs to know
where the publishing thread can be once `stop()` has returned (`ThreadJoined`: it
was waited for, and sends nothing more) and that a bridge that is down has cut
the robot off (`CutOff`), because a final zero is not sent over a bridge that is
down.

**Sensing capture.** `CaptureInvariance` proves `Spec => []CaptureInv`. `IdsFit`: every
id given out has a number that is in the counter on the disk, and nothing is on
the disk of an id not given out; `IdsReservedOnce` (the action property
`ReservedOnce`) follows from it, because `allocate` takes the next number.
`CaptureFits` says how the phase, the frozen result and the artifacts hang
together: a capture that is not being saved has none, one that is has frozen
the frame of its runtime measurement, which therefore cannot change under it.
`LoopFits` says what each place of the loop relies on, of the writes of a save
above all: how many artifacts are there. A crash keeps it all, because what
`CaptureFits` says of memory ends with memory, and `IncompleteIsPending` moves to
its other case.

**Stream host.** `SubscribersAreCurrent` proves `CurrentInTurn` from `HubInv`. A
subscriber joined *in turn* if no other thread of the host was at work when it
connected and when its requests were taken up. `InTurn` says of such a
subscriber that nothing is routed while it is being served; that no thread that
looked at the connections before it was there prunes it; and that, when its
subscription was handled, the host's value is the last it was sent (`Coming`), or
is about to be sent to it. `LinesFit` keeps the streams of a subscriber that is
not connected empty, `CachedFits` covers a host that has routed nothing yet. Each
step of a thread owes `InTurn` to the subscriber it serves and to all others;
`Sending` says once what `_safe_send` does.

**Table.** `TableInv` has three parts. Of the segmentation: `SavedAsTyped` compares a
save with what was typed before it, while the loop is any number of commands
behind. `InForce(q, base, i, t)` says that `t` is the thickness in force after the
first `i - 1` commands of the queue, and `QueueFits` that each queued save, and
the terminal, have that value; `InForceAppend`, `InForceAfter` and `InForceTail` are
its lemmas for a command typed and one obeyed. `SaveFits` follows the thickness
from the frame into the entity, and `CopiesFit` says that what lies in the
projector's directory is of a completed entity, because it is written last and
entities only grow (`SavedStays`). Of the composer: whatever is in its state, or
has been read and not yet taken over, is of such a file or from the stream
(`DataFit`, `ReadsFit`), and the thickness in force is that of the active source
(`ThicknessFitsSource`). Of the viewer: its thickness is that of its data, or
the operator has set another.

The attempt to prove `CorrectedAsMeasured` showed where the live viewer differs
from the composer: `ProjectorState.__init__` of `projector_live_viewer.py` (lines
79 to 91) uses the thickness of the newest file only if it is above zero, and
the segmentation accepts and saves a thickness of zero. The viewer then
corrects that picture with its default. The property says so, and the
thicknesses of the run contain zero.

**Only model-checked.** Liveness (`EveryActionFinishes`, `DeadMan`, `InputTakesEffect`, `MotionStops`, `CommandAnswered`,
`LatestIsRouted`, `PublicationConverges`, `TableCatchesUp`) is outside TLAPS's
reach, and with it the fairness conditions. Every other property the passing
runs check, invariants and action properties alike, is proved. The type
invariants of `ActionWorkflow`, `Orchestration`, `EntityStore`, `Circuloos`,
`SensingCapture` and `StreamHub` are proved as they stand (`TypeCorrect`,
`CaptureTypeCorrect`, `HubTypeCorrect`); the other components are typed in their
invariants (`ServoTypes`, `ToolTypes`, `SourceTypes`, ...), without the bounds that
keep the instances finite, and the publishing thread by `PublisherFits`.

## 5. Not modelled, and why

* *Calibration, tuning, cameras and vision* are numeric work on images and on
  devices, done by one thread for one user; what other parts see of them is one
  of a few outcomes of a frame.
* *The test agents* of servo teleoperation (`*_agent_T.py`) are earlier versions
  of the agents that are modelled.
* *Configuration and set-up* pass constants on.
* *Entity store*: the migration of an older index, which runs once, and the
  bytes of two writers of one temporary file.
* *Stream host*: commands and results on their way through the host; they are
  modelled from the queue of their target on. A late message of a connection
  that is being torn down (a hazard without a property) needs a host thread
  that outlives its connection.
* *Sensing agent*: an answer written to a run that was killed may raise out of
  the agent's server and end it, as at the master; here the agent ends only by
  `StationRestarts`.
* *Circuloos*: the text of documents, Mintaka's queries, the token cache.
* *Projectors*: what offsets, zoom and labels do to a picture.
* A file's write is atomic in all modules except where the code stages it or
  where another process may look at it half-written, which is then two steps.

## 6. Plan

1. `StreamCommands`: routing of commands and results in the stream host, the
   command queue of the endpoint, composed with the composer's loop as
   `SensingCapture` sees it. Properties: a result goes to who asked, a command
   to its target or an error comes back.
2. Proofs about the routing of commands, once it is modelled.
3. Schema migration in the entity store, with a process that opens the index
   in the middle of it.
