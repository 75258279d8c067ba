# Verification of the Spyre device plugin

TLA+ models of the Spyre device plugin, the TLC runs that check them on small
instances, and TLAPS proofs that hold for every instance.

## The system

The plugin runs once per node. It advertises Spyre cards to the kubelet under
several resource names at once (an aggregated name, "tier" names that promise
close neighbours, one name per card), so the *same* card can be asked for under
different names, and the kubelet keeps separate books for each name. Keeping
those books consistent is the plugin's own core logic.

| Part | State | Operations | Talks to |
|---|---|---|---|
| `SpyreDeviceSharedInfo` (`pkg/factory/info.go`) | `allocation` (device to grant), `reservedPathWithTime`, three channels | `Run`, `updateAllocation`, `deleteAllocation`, `notify`, `claimMountedPaths`, `periodicClean` | every server, through `InformedBySharedInfo` |
| Resource pool (`pkg/resources/pool_stub.go`) | `otherAllocation`, `selfAllocation` | `GetDevices`, `InformedBySharedInfo` | its server |
| Resource server (`pkg/resources/server/server.go`) | `serverStarted`, `processing`, `updateSignal` | `ListAndWatch`, `Allocate`, `WaitForNoAllocationInProcess`, `Start`/`Stop`/`Watch` | kubelet (gRPC), `allocatedCh` |
| PodWatcher (`pkg/resources/server/pod_watcher.go`) | memo per pod, event queue | claim mounted paths, clean up ended pods, initial notification | API server, `mountedCh`, `deallocatedCh`, `allocatedCh` |
| Runtime queries (`pkg/spyredevice/runtime`) | none | `CheckConflict`, `CleanUnmountedHostPath` | container runtime, host directories |
| Topology (`pkg/spyredevice/topology`) | topology files | `GetMaxValidPeers`, filtering by health | servers, health handler |
| Node state writer (`pkg/spyredevice/spyrenodestate*.go`) | `SpyreNodeState` | `AllocateDevices`, `InitAllocationList`, interface updates | API server |
| Health (`pkg/spyredevice/health`) | health per device, stream state | register, listen, reconnect, apply | health checker, node state, servers |
| Manager (`cmd/spyre/manager`) | servers, pools, device list | `InitServers`, hot-plug, ticker | everything |
| P2P DMA (`pkg/spyredevice/dma`) | file permissions | set on `Allocate`, unset on deallocate | host files |

What is hard: `Run`, the cleaner, every `ListAndWatch`, the PodWatcher's worker
and the kubelet's calls run concurrently; `Run` picks its three channels in any
order; a grant is known to the plugin as a message, a record, two maps per
pool, a list on its way to the kubelet, a directory, a reservation and a memo
entry, none updated together; sends and API requests fail and are retried; and
a restart rebuilds all of it from what is on disk and in the API server. Around
that core, servers are stopped, restarted and replaced while others talk to
them over channels of capacity zero or one; reports about devices come over a
stream that breaks and is reopened; and what is published about the devices is
spread over two topology files, a cache and two updates of a custom resource.
`PROJECT.json` lists the hazards with their lines.

## Modules

| Module | Models | Kind |
|---|---|---|
| `ResourcePool` | the pool's maps and what a pool advertises | pure operators |
| `SharedInfo` | state; the `Run` goroutine; every server's `ListAndWatch`; the cleaner | component |
| `DevicePlugin` | `SharedInfo` composed with the kubelet, the PodWatcher's effects, start-up and restart; properties | composition |
| `PodWatcher` | informer handlers, event queue, worker, memo, `AllocationList`, reservations, P2P DMA permissions, restart, a broken watch; properties | component |
| `Reservation` | reservation mode: scheduler, `GetPreferredAllocation`, admission, retirement; properties | composition |
| `HealthChecker` | what the health handler may expect of any checker | abstract specification |
| `HealthClient` | the gRPC client of the health checker process and its goroutines; that it implements `HealthChecker` | component |
| `Topology` | filtering by presence and health, dynamic file and cache | pure operators |
| `NodeState` | what a pass makes of the `SpyreNodeState` | pure operators |
| `HealthHandler` | a `HealthChecker` composed with the handler's goroutine, the provider, the pools, `Topology` and `NodeState`; properties | composition |
| `ServerLifecycle` | start, stop, restart and replacement of servers against `ListAndWatch`, `notify`, hot-plug, shutdown and the kubelet; properties | component |
| `MC...` | constants for TLC | models |
| `DevicePluginProofs` | type correctness, two safety theorems without conditions | proofs |
| `DevicePluginPaced` | five safety theorems for orderly environments: exclusive, nothing lost, lists up to date, claims not overtaken | proofs |
| `PodWatcherProofs`, `PodWatcherSafety` | type correctness, five safety theorems | proofs |
| `ReservationProofs` | type correctness, two safety theorems | proofs |
| `HealthClientProofs` | type correctness, two safety theorems, refinement | proofs |
| `HealthHandlerProofs` | type correctness, no lost wake-up, status agrees with spec | proofs |
| `ServerLifecycleProofs` | type correctness, one listener per resource, no call of a nil server | proofs |

Several modules look at one part from different sides. `DevicePlugin` has what
the PodWatcher's messages do to the allocation state, with one container per
pod and no names; `PodWatcher` how events turn into those messages;
`Reservation` which entry of the node state a pod is served from. `SharedInfo`
has what a list of devices says and `ServerLifecycle` whether there is a stream
to send it on. `HealthHandler` does not contain the client: it is written
against `HealthChecker`, and `HealthClient` is shown to implement that.

### How the state corresponds to the code

* A *path* (`Paths`) is the config directory one `Allocate` call creates. It
  also stands for the call and for the container it was made for; `grant[p]` is
  what the files in the directory say (`ReadSenlibConfig`, `ReadResourcePool`).
  `dirs` and `mdirs` are the config and metrics directories that exist.
* `allocation` is the Go map (a partial function); a record keeps the resource
  and the mount path. `reserved` is `reservedPathWithTime`, time abstracted to
  "fresh" and "old" (over 30 s). The reservation of a metrics directory is left
  out: when it expires `ReadSenlibConfig` fails on it and nothing happens.
* `pc`, `msg`, `conflicts`, `job`, `next`, `resume` are where `Run` is. One
  step per blocking point or visible effect: receiving a message, releasing the
  conflicts of one resource, recording, informing one server, handing over a
  signal, taking `cleanupMu`. `updateSignal` is unbuffered, so `UpdateSignal`
  moves both sides at once.
* `other` and `self` are the pools' two maps as the set of devices bound to
  `true`; a missing key and `false` behave alike in every reader and in the
  writer.
* `started`, `listener`, `snapshot`, `view`: `serverStarted`, where the
  `ListAndWatch` loop is, the list it has computed, the list the kubelet has.
* `memo` and `dropping` are the PodWatcher's memo (as a set of paths) and the
  pod whose clean-up is between removing directories and sending.
* Pods go `none`, `created` (admitted), `mounted` (container running),
  `exited` (ended after running; may still be listed by the API server) or
  `gone`. These steps, and the choice of devices, are the kubelet's and marked
  external in the map.

In `PodWatcher`:

* A *pod* is one generation (UID) of a name. It stands for its config directory
  (`dirs`) and its grant; `DeviceOf` is the device set it was granted, as one
  value. Its phases are those the code tells apart: `started` is Pending with
  all Spyre containers started, `terminating` is Running with a deletion
  timestamp. The cluster's own steps are external. `refused` pods are the ones
  whose Allocate failed.
* `watch` is what the API server has to tell the informer, `seen` the
  informer's store (which decides between `onPodAdd` and `onPodUpdate`),
  `queue` and `delayed` the delaying work queue, `work` and `step` the event
  the single worker has and how far it is. One step per request to the API
  server or the runtime whose answer may be stale when it is used.
* `memo` maps a name to the generation whose devices and paths it holds;
  `allocList` has an entry per UID with the generation whose devices it names
  (they differ when the memo was another generation's); `reservations` are
  those bound to a pod, so a pod's reservation is the pod.
* `claimed` and `freed` remember what was sent to `mountedCh` and
  `deallocatedCh`.
* A conflict is retried by `RetryOnConflict`; only its last failure is visible,
  as a failed request. `faults` counts failed updates, `GetMayFail` lets any
  read fail at any time.
* `WatchBreaks` is a watch that cannot be resumed: the informer lists again,
  what it had not delivered is lost, a pod that is gone arrives as
  `DeletedFinalStateUnknown`, and a successor as an update of its predecessor,
  because the store is keyed by name.
* In reservation mode the scheduler gives a new pod no devices that
  `AllocationList` or `Reservations` has for another one (`InNodeState`).

Left out of `DevicePlugin` on purpose: reservation mode (none of these channels is used there);
requests with several containers (one path per container, handled one after
the other with the same code); `ValidateTier`, which only rejects calls; the
fallback of `GetMaxValidPeers` when no topology file can be read, and VFs.

In `Reservation`:

* `reserved[p]` and `allocated[p]` are the entry of pod `p` in
  `Status.Reservations` and `Status.AllocationList`, as a set of devices.
  `granted[p]` is what the kubelet has picked for or given to the pod; the
  kubelet keeps its books per resource (`AvailableDeviceIDs`).
* One action per actor: the scheduler reserves, `GetPreferredAllocation` picks
  the devices of an entry of the right size, whoever's it is, `Allocate` admits,
  the PodWatcher enters the pod and retires its reservation, or removes both.
  Pods may be created again after they have ended.
* `Paced` says that the scheduler reserves only while every grant is in
  `AllocationList`; how many devices pods ask for is not restricted.

In `HealthClient`:

* `register` is where a call of `Register` is, `retry` and `attempt` where
  `attemptReconnect` is, `spawned` the number of `attemptReconnect` goroutines
  that have not looked at their flag yet, `listener[c]` where the `listen` of a
  connection is, `applying` the `setAndNotify` goroutines that have not begun.
  `owed` is a `setAndNotify` between replacing the map and triggering, which
  holds `mu`. A step per change of a flag, of `t.conn` or of the map.
* `sent` is what the checker process has reported, `wire[c]` the messages on a
  stream, as indices into `sent`. A new stream starts with the report in force.
* `Prompt` says that a goroutine about to return does so before others get far:
  `listen`'s deferred function before the `Register` of the reconnect it has
  just spawned looks, and `attemptReconnect`'s before the stream it opened ends.

In `HealthHandler`:

* `actual` are the devices as they are, `report` is what the checker says:
  the client reports states, the PCI monitor who is there. `seen`, `failed` and
  `torn` are ghosts that the properties speak of.
* `hpc` is the step of a pass: scan, assess, hot-plug, topology file, spec,
  status; the start-up goes through the last ones, too. Each of them may fail
  and the code goes on or gives up as it does there. A hot-plug that makes no new
  server of a kind, because making or starting it fails or no device is left,
  keeps the old pool with its stopped server; the pass then goes on, or hangs in
  `TriggerUpdate` for good (`"hung"`). `recent`, `young` and
  `ripe` are the debounce interval and its timers.
* `pools` holds the devices of the PF and the VF resource, `served` the kinds
  that got a server at start-up. `dynFile` and `cache` are the dynamic topology
  file and `PciTopology`; a topology is its devices, their peers and its count.
* `spec`, `pcitopo`, `status` are the custom resource. An interface of a PF seen
  only through its VFs has health `""`. Node state and pods survive a
  `Restart`; everything else does not.

In `ServerLifecycle`:

* Servers are numbered as they are made; `resource[i]` is also membership in
  `SharedInfo.servers`, `serverOf` is `rm.resourceServers`. `waiting[i]` are the
  `ListAndWatch` calls of a server blocked in their select, in the order Go
  serves them, `sending[i]` those about to send; a call whose stream is broken
  goes on until a send fails, because it does not look at its context.
* `caller` is how far a `Stop` is, `watcher` how far `Watch` and `restart` are,
  `toinform` the servers `notify` has still to inform.
* A hot-plug that fails after it has stopped the old server (`HotplugFails`,
  `manager.go:506-521`) leaves that one in `rm.resourceServers`; a new one that
  was made and could not be started stays registered with `SharedInfo`.
  `KubeletRefuses` is `NotifyRegistrationStatus` with a failed registration: it
  logs that the server restarts (`server.go:166`) and only stops it.
* `Calm` names events that come only at moments when they are known to do no
  harm: a hot-plug where there are no watchers and no first list of the server
  or notification is under way, a shutdown or, with watchers, a kubelet restart
  while no first list is, a connection while no `Stop` is, a refusal before the
  server's first list is sent. In the mode without watchers first lists do fail,
  after a kubelet restart or a refusal. What happens without is in the table below.

## Runs

| Run | Question | Result |
|---|---|---|
| `paced` | Two resources over two devices, an allocation only when the plugin is at rest: exclusive, nothing hidden without a reason, kubelet up to date, no claim overtaken by its reservation? | holds |
| `live` | Does `Run` always get back to its select, and is every ended pod's record released? | holds |
| `faults` | Overlapping grants of one device through two resources, full channels, late containers, a blind conflict check and failing requests; and one grant under restarts, a failed send and a timed-out wait as well: is every record hidden from the other resource, can one be orphaned? | hidden, it cannot |
| `watch_reuse` | Two pods of one name in reservation mode, a failed update, a restart: is anything left of a deleted pod without a DELETE event on its way, are devices reserved and allocated at once, does a clean-up take the P2P DMA permissions of a running pod? | nothing, never, no |
| `watch_names` | Two pods of one name on the same devices, an update and any reads failing, a restart with pods changing or a broken watch: what can free a successor's devices, when does its entry name its predecessor's? | only a DELETE that is tried again; only after a failure or unseen changes |
| `watch_live` | Is a running pod claimed, and a claimed pod freed once deleted? | yes |
| `reserve` | Reservation mode with pods of equal and different sizes, served from each other's entries: is a device ever held twice, is a scheduled pod served while nobody has been entered with another's devices? | never, yes |
| `interchange` | Is it served always, since reservations of one size are interchangeable, as the code's comment says? | violated: one is refused |
| `client` | Through two outages, a fault and a stop: one listener, no leaked connection, the checker's contract kept, the report in force known in the end? | holds |
| `handler` | Devices break, recover, come and go, one step fails or the plugin restarts: is a wake-up lost, does the status agree with the spec, do node state, topology and pools converge? | none, yes, they do |
| `lifecycle` | Both registration modes through a kubelet restart, refused registrations, hot-plugs that succeed or fail, notifications and shutdown: one server per socket, no call of a nil server, streams back unless the server is down, nobody hangs but the handler after a failed hot-plug? | holds |
| `hotplug` | Does `notify` return after a hot-plug? | violated, `Run` blocks |

The findings in `PROJECT.json` quote the comment each violation contradicts.

### What the conditions are for

A passing run states the conditions under which the code does what it is for,
and the conditions are constants. Changing one makes TLC show what happens
without it.

`paced` describes a kubelet that admits pods one after the other with the
plugin idle between them.

| `DevicePlugin` | Then fails | Because |
|---|---|---|
| `live`, `Paced = FALSE` | `NoAllocationInProcess` | the wait polls the length of a channel and the flag of its own server; its comment (`server.go:493`) says there is no allocation in process afterwards |
| `paced`, `Paced = FALSE` | `Exclusive`, `NoLostUpdate`, `HiddenForAReason` | a second grant is made in that window; a change between the initial list and `serverStarted` is never sent; and ending the second pod deletes the first one's record and leaves the device hidden by the second resource's own pool, which `notify()` skips |
| `paced`, `TimelyStart = FALSE` | `Exclusive`, `HiddenForAReason` | the reservation expires before the container starts, the cleaner frees the devices, and they are granted again |
| `paced`, `ConfigMayFail = TRUE` | `Exclusive` | Allocate answers although its configuration was not written; `handleAllocated` finds no directory and records nothing, and the other resource goes on advertising the device |
| `paced`, `MaxRestarts = 1` | `Exclusive`, `HiddenForAReason`, `NoLostUpdate` | a pod is admitted and its container not started when the plugin restarts: `BootClean` removes its directory and frees its devices; the initial notification is announced between the initial list and `serverStarted` |
| `paced`, `MaxRestarts = 1`, `TimelyStart = FALSE` | `ReservedIsUnclaimed`, `ForcesOnlyUnclaimed` | after a restart running pods are in the memo and their paths reserved, but `mountedCh` is only sent pods that are *not* in the memo (`pod_watcher.go:435`): the cleaner frees the devices of a running container (`info.go:190`) |
| `paced`, `MaxTimeouts = 1` | `ReservedIsUnclaimed` | Allocate answers before its message is handled, so the claim may come first |
| `live`, `Paced = FALSE` | `NotifyCompletes` | the cleaner holds `cleanupMu` and waits for room in `deallocatedCh` (`info.go:207`), which only `Run` empties, and `Run` waits for `cleanupMu`; it takes a full channel, 3 messages here and 1000 in the code |
| `live`, `MaxFailures = 1` | `NotifyCompletes` | `serverStarted` stays true after `ListAndWatch` has returned (`server.go:307`), and `Run` blocks on `updateSignal` |

| `PodWatcher` | Then fails | Because |
|---|---|---|
| `watch_reuse`, `BootGap = TRUE` | `NothingLeftBehind` | a pod deleted between the initial notification and the informer's list is in the memo and gets no event |
| `watch_reuse`, `GetMayFail = TRUE` | `NothingLeftBehind` | `removeAllocationOrReservation` takes a failed read for an absent entry |
| `watch_reuse`, `WatchMayBreak = TRUE` | `NothingLeftBehind` | `onPodDelete` ignores a `DeletedFinalStateUnknown` (`pod_watcher.go:167`) |
| `RunningKeepsP2PDMA` without `ReservationMode`, `SameDevice = TRUE` | `RunningKeepsP2PDMA` | the late clean-up of a pod unsets the permissions of the pod that has its devices now; in reservation mode the scheduler does not hand them on before |
| `RunningKeepsP2PDMA` without `restarts = 0`, `SameName = FALSE`, `SameDevice = TRUE` | `RunningKeepsP2PDMA` | the initial notification enters a failed pod again although its devices have been handed on |
| `watch_names`, `FreesOnlyEnded` without the retried DELETE | `FreesOnlyEnded` | a retried delete event meets the successor's memo entry (`pod_watcher.go:328`) and frees its devices while it runs |
| `watch_names`, `EntryNamesOwnDevices` without `Disturbed` | `EntryNamesOwnDevices` | the predecessor is still in the memo when the successor is entered: its DELETE failed, or was lost with the watch |
| `watch_reuse`, `MaxFaults = 0` | `ReservationIsCleaned` | a pod deleted around a restart gets no DELETE event, and only `AllocationList` is rewritten (`pod_watcher.go:286`) |
| `watch_live`, `GetMayFail = TRUE` | `RunningIsClaimed` | `isPodAlive` takes a failed Get for a dead pod and the event is dropped |
| `watch_live`, `WatchMayBreak = TRUE` | `ClaimedIsFreed` | as above; `RunningIsClaimed` still holds |
| `watch_live`, `Pods = {1, 2}`, `SameName = TRUE` | `RunningIsClaimed` | `onPodUpdate` finds the name of the predecessor in the memo |

| `Reservation` | Then fails | Because |
|---|---|---|
| `reserve`, `ServedUnlessSwapped` without the swap | `ReservedIsServed` | run `interchange`: a pod is served from another's entry, and its own is the one retired |
| `reserve`, `Paced = FALSE` | `HoldersDisjoint`, `ServedUnlessSwapped` | a pod is served from the entry of an ended pod, which is removed before the first is entered: its devices are in nobody's entry, are reserved again through another resource and granted twice |

| `HealthClient`, `HealthHandler` | Then fails | Because |
|---|---|---|
| `LatestReported` without `~paced` | `LatestReported` | two messages that come closely are applied by two goroutines in any order (`health_client.go:261`) |
| `client`, `Prompt = FALSE` | `LatestReported` | `listen` clears `running` and closes `t.conn` after it has spawned the reconnect: a quick one finds `running` set and ends, or has its connection closed (`health_client.go:190`, `:231`, `:303`) |
| `handler`, `Attentive = FALSE` | `NodeStateConverges` | a device plugged and removed between two reports is in the spec for good: the report is as before and causes no pass |
| `StatusMatchesSpec` without `~torn`, `MaxChanges = 3` | `StatusMatchesSpec` | after a status that was not written, the list is rewritten only if an update is new or its length differs (`spyrenodestate.go:322`) |
| `handler`, `MaxMishaps = 0` | `RecoveredIsRestored` | devices are made anew as healthy in every pass, so a recovery is no change (`handler.go:307`) and the file is not rewritten; the comment at `topology.go:155` has them restored |

| `lifecycle`, `Calm` without | Then fails | Because |
|---|---|---|
| `"hotplug"` | `ShutdownCompletes`, `HotplugCompletes` | the new server has no watcher, so in deprecated mode its `Stop` blocks on `stopWatcher` |
| `"hotplug"` | `OneServerPerSocket`, `NoPanic` | in deprecated mode the restart a watcher has begun starts the server that was replaced meanwhile; and a first list under way fails when the `Stop` of the hot-plug closes the server |
| `"notify"` | `NotifyReturns`, `StreamsComeBack` | run `hotplug`; and a notification in flight during a deprecated restart leaves a signal behind that ends the new stream (`server.go:394`) |
| `"shutdown"`, `"connect"` | `NoPanic` | a first list under way fails and calls `Stop` of a `grpcServer` that is nil (`server.go:275`) |
| `"restart"` | `NoPanic`, `StreamsComeBack` | as above; or `termSignal` is still full from before a stream existed |
| `"refuse"` | `NotifyReturns` | a server that was registered before is stopped with its streams and `serverStarted` set, and `notify` blocks on it |
| (nothing), `HotplugCompletes` without `Hung` | `HotplugCompletes` | a hot-plug fails after `rs.Stop()`: the stopped server stays in `rm.resourceServers`, and `UpdateResourceServers` blocks in its `TriggerUpdate` for good (`manager.go:506-521`, `server.go:485`) |
| (nothing), `StreamsComeBack` without `Down` | `StreamsComeBack` | without watchers nobody starts a server again that has stopped: after a refused registration, a failed hot-plug, or a first list that a kubelet restart has broken and whose failure stops the server (`server.go:275`) |

More observations that are part of the models and have no property of their
own. `BootClean` removes the metrics directories of running containers with the
rest. A retried deallocation repeats the clean-up and the message, because
`deallocate` clears the paths in a copy of the memo entry. Nothing repeats a
pass of the handler that failed. Devices missing at start-up are not filtered
from the topology, because making a server fills the cache before
`EnsureDynamicTopologyFiltered` runs; with no server made, the cached copy keeps
the original count. A kind of device without a server at start-up is never
served. The kubelet is not told of unhealthy devices. If the kubelet restarts
and finds the sockets as they were, a call of `ListAndWatch` that lost its
stream takes the next update, which is lost (`StreamsComeBack` excuses it).

### Bounds

* `DevicePlugin`: two servers over the same devices. In `paced` the second is
  topology aware, which covers both branches of `notify()` for the granting
  server (skip, self-inform); in the other runs both are plain, because with the
  one device they have a topology-aware server finds no peers and advertises
  nothing. Two paths: an old and a new grant of the same device, the smallest
  number with a stale message. `paced` has two devices, so lists may be mixed
  (one device of a list allocated here, one elsewhere); the others have one.
  `faults` has every environment flag on; its state constraint `FaultBudget`
  allows one pod with every fault, or two pods, which may be granted the same
  device in conflict, without the counted ones. `ChanCap` is 1 or 3 for 1000;
  at 1 every channel is full after one message. `MaxRestarts`, `MaxFailures`,
  `MaxTimeouts` count environment events. Retries of the PodWatcher are not counted; the channel bound ends them.
  Paths are interchangeable and so are the devices of `paced`: symmetry.
* `PodWatcher`: two generations of one name, on the same devices or on others,
  which is the smallest number with a successor; one pod where liveness is
  checked. Three pods are out of TLC's reach; the safety properties are theorems
  for any number. They were also checked, in reservation mode with every failure,
  on pods of two names and on pods that share their devices.
  `MaxAttemptBeforeIgnore` is 1 or 2 for 5, never less than
  the number of failing updates. `MaxRestarts` bounds restarts of the process
  and of its watch together. A pod's status is updated again only while nothing
  about the pod is under way. The pods are ordered by creation: no symmetry.
* `Reservation`: three pods of one resource, two of them of one size, and one of
  another resource over four devices, enough for a reservation to be free again
  while its old owner runs. Five creations, so pods come back after others have
  ended.
* `HealthClient`: two connections, an old and a new one; two attempts, so the
  last one is not the first; two messages, two outages, one fault.
* `HealthHandler`: a PF, its VF and an isolated VF, the three kinds of
  interface; two changes (break and recover, come and go, or one each), one
  mishap, at any step or as a restart.
* `ServerLifecycle`: an aggregated resource and a tier of it, two hot-plugs, so
  that a replaced server is replaced again, two notifications, one kubelet
  restart, and three of these events in all (`MaxEvents`), one of each kind; both registration modes. Refusals and failing hot-plugs need no bound.
* Deadlock is not checked: when every bound is used up nothing is left to do.
  That nobody hangs is `NotifyCompletes`, `NotifyReturns`, `HotplugCompletes`
  and `ShutdownCompletes`.

### Fairness

Goroutines that can run do, in all modules, one weak fairness per goroutine or
step: `RunNext`, each `ListAndWatch`, start-up and the cleaner in
`DevicePlugin`; the informer, the requeue delays and the worker in `PodWatcher`;
`Register`, the reconnect, each `listen` and the `setAndNotify` goroutines in
`HealthClient`; every step of a pass, the timers and the checker in
`HealthHandler`; servers, watchers, `Stop` calls and `notify` in
`ServerLifecycle`. Tickers and timers fire. The kubelet opens a stream to a
server it has been told of. `WatcherRemoves` of `DevicePlugin` is strongly fair:
the delete event stays in the work queue, and the worker handles one event at a
time, so other events disable it again and again. Nothing is assumed about pods
being created, started or ended, devices changing, the checker process
reporting, stopping or starting, hot-plugs, notifications or shutdown.

### Abstract specification

`HealthChecker` is what the handler relies on: `UpdateHealths` answers with the
present report, a change of it is followed by a token, a token may stand for
several changes or for none. `HealthHandler` uses its actions as its checker;
`HealthClient` checks `ImplementsChecker`, that the client implements
`CheckerSpec` with the report mapped to `healthInfoMap`, its fairness included.
The two do not add up to a statement about the whole. The `handler` run's checker
is the contract plus an assumption of its own: the report moves only to what the
devices are (`Observed`), and does so eventually (fairness of `CheckerStep`). The
contract alone promises neither. The client gives the second under the conditions
of `LatestReported`; the first is up to the checker process it listens to.

## Proofs

The assumptions are those named in the modules: sets are finite where the code
counts them, functions have the domains they should, flags are Boolean, bounds
are numbers. The theorems hold for every such value: any number of devices,
servers, pods, connections, changes and faults. Theorems with a condition state
it as an `ASSUME`, and the tables above show that it is needed.

`DevicePlugin`

* `TypeCorrect`: `Spec => []TypeOK`. `TypeInv` adds that a message is in hand
  while `Run` handles one, that the cursor is on a server while a signal is
  sent, that the cleaner works on reserved paths, and that a pod's grant names
  a server.
* `AllocatedDevicesAreHidden`: `Spec => []RecordedIsHidden`. Not inductive by
  itself: `JobInv` ties what `notify()` announces to the place it was called
  from, and `OnceInv` says a grant is announced once, because the duplicate
  branch of `updateAllocation` would release conflicts and then announce
  nothing. `OnceInv` in turn needs `GrantInv` (a path with a message or a
  record belongs to a pod), which makes the path of a new `Allocate` fresh.
* `RecordsAreReleased`: `Spec => []NoZombieRecord`. `CoverInv` extends it to
  the message in hand: between the directory check of `handleAllocated` and
  the recording the directory may go, but then a deallocation is queued that
  `Run` has not taken yet. `GrantInv` gives that this deallocation covers the
  devices of the record.

`DevicePlugin` in an orderly environment. `Orderly` is the kubelet of `paced`:
it allocates when the plugin is at rest, containers start before their
reservation expires, the configuration can be written, and the plugin does not
restart. Stream sends, requests to the API server and the container runtime, and
waits in Allocate may fail at any time, without bound.

* `NoDeviceIsSharedByPods`: `Spec => []Exclusive` if `Orderly`. That no two live
  pods share a device says nothing about the pods that have ended, whose messages,
  memo entries and reservations are still at work; `OwnInv` is about all of them:
  the devices of an *active* pod are no other active pod's and are not recorded
  for another resource, and a queued deallocation is about such a pod, too.
  `LiveInv` says that a live pod's devices are recorded or about to be. A new
  grant is of devices in the kubelet's list, the list is the pool's (`NoLostUpdate`),
  and the pool hides what is recorded elsewhere (`RecordedIsHidden`), so it takes
  all three theorems. `TruthInv` gives that messages tell the truth about
  their grant and that only an ended pod's reservation expires.
* `NoDeviceIsLost`: `Spec => []HiddenForAReason` if `Orderly`. `ReleaseInv` says
  which of the two maps of a pool has a device while its release is announced,
  that servers already passed have it in neither, and, from `OwnInv`, that
  `updateAllocation` never meets a conflict to release: the path on which
  `notify()` skips a pool that hides the device is not taken.
* `ListsAreUpToDate`: `Spec => []NoLostUpdate` if `Paced` and without restarts.
  `StartInv` says that nothing is announced before the first Allocate and that
  every server is started by then, so no change falls between a first list and
  `serverStarted`; `SnapshotInv` that a list about to be sent is the pool's
  unless the signal for the next one is pending.
* `ClaimsAreNotOvertaken`: `Spec => []ReservedIsUnclaimed`, and
  `CleanerSparesClaimed`: `Spec => ForcesOnlyUnclaimed`, without restarts and
  time-outs, however allocations overlap and however late containers start.
  `ClaimInv`: Allocate answers only after `Run` has taken its message, so a
  claim is queued behind the reservation it has to remove.

`PodWatcher`, for both modes

* `WatcherTypeCorrect`: `WatcherSpec => []WatcherTypeOK`, with `WorkInv`, which
  adds which event the worker has at which step.
* `DeletedPodsAreCleanedUp`: `WatcherSpec => []NothingLeftBehind` if
  `Dependable` (reads succeed, the watch holds, no change during start-up, no
  more failures than attempts).
  `CoverInv` extends the property to the pod the worker is
  about to enter: it was alive when `isPodAlive` asked, so its deletion can
  only be ahead. `KeepInv` gives that nothing is kept of a pod whose Allocate
  failed, for which a failed deallocation is not retried, and `EventInv` that
  a DELETE event has been tried at most as often as requests have failed, so
  `processEvent` never ignores one.
* `ReservedOrAllocated`: `WatcherSpec => NeverHeldTwice`. A new reservation is
  for a pod that is not listed yet, by `KeepInv`. The property is about the
  steps of worker and cluster: a restart enters pods without retiring their
  reservations.
* `EntriesAreOwn` and `OnlyEndedAreFreed`: `EntryNamesOwnDevices` and
  `FreesOnlyEnded`, with names reused freely, devices shared, reads failing, the
  watch breaking and the process restarting at any time. `OrderInv`: of the
  pods of a name only the last created is not deleted. `TurnInv`: the informer
  delivers the changes of a pod before those of its successor, and its DELETE is
  tried for the first time before any event of the successor is handled, so a
  DELETE at its first attempt never meets the successor in the memo. `MemoInv`:
  as long as no request failed and nothing changed unseen, what the memo has of
  a deleted pod has a DELETE on its way, hence nothing of it is left when
  the successor is entered. `HoldsInv` covers the
  rest: a memo or `AllocationList` entry names the pod's own devices or those of
  an earlier pod of its name. What the properties leave open (a DELETE that is
  tried again, an entry after a failure) does happen, see the table above.
* `RunningPodsKeepP2PDMA`: `WatcherSpec => RunningKeepsP2PDMA`. In reservation
  mode the node state keeps the devices of a pod with the pod until it is
  cleaned up. `BookInv`: before the first restart, a pod that is alive or being
  entered is in the node state, and what the node state has for others, by
  entries that name their own devices, are other devices. An entry that names a
  predecessor's devices, which takes a failed request, may by the time it is
  removed take them from a third pod; the property excuses it.

`Reservation`

* `ReservationTypes`: `Spec => []ReservationTypeOK`, with `SizeInv`, that a
  pod has as many devices as it asked for from the moment the kubelet picks
  them, whosever reservation they are.
* `NeverHeldByTwo`: `Spec => []HoldersDisjoint` if `Paced`, for any sizes.
  `GrantInv` is about all devices picked or given: no device twice, and what a pod
  was given is a whole entry of its resource or disjoint from all entries. An
  entry of another resource is therefore safe to serve from, and the kubelet's
  own books do the rest. A new entry is disjoint from every grant because
  `AllocatedInv` makes the grants of a paced node its allocations.
* `ServedBySomeEntry`: `Spec => []ServedUnlessSwapped` if `Paced`. `EntryInv`:
  a pod on its way from reservation to allocation has an entry of its own, of
  its size. If a scheduled pod found no entry, each entry of its resource and
  size would be held by a pod, by a different one each, and none of them entered:
  each of these still has its own entry, and the scheduled pod has one more, one
  entry too many (`NoneLeftOut`, the pigeonhole principle).

`HealthClient`

* `ClientTypeCorrect` and `ListensOnce`: `ClientTypeOK` and `OneListener` are
  always true. `OneListener` is not inductive: `TokenInv` says that a call of
  `Register`, a reconnect that is due or at work, and a stream listened to
  exclude each other, each handing over to at most one successor; `AttemptInv`
  bounds the loop.
* `NoConnectionLeaks`: `[]NoLeakedConn` if `Prompt`. `ConnInv` adds that no old
  `listen` is about to close while `Register` has a connection in hand, and
  that an open connection is being made, is in use or will be closed.
* `RefinesChecker`: `Spec => HC!CheckerInit /\ [][HC!CheckerNext]_(HC!checkerVars)`,
  every initial state and every step of the client is one of the contract.

`HealthHandler`

* `HandlerTypes`: `Spec => []HandlerTypeOK`. `TypeInv` adds that a pass begins
  with nothing left of the last one.
* `WakeUpsAreKept`: `Spec => []NoLostWakeUp`. `WakeInv` adds where the goroutine
  can be before the handler is started and that the timers are counted.
* `StatusAgreesWithSpec`: `Spec => []StatusMatchesSpec`, for any changes, failing
  steps and restarts. `MatchInv` adds that every device marked unhealthy in the
  spec is in the status list, unless a status write has failed since (`torn`).
  The point is the list the code does *not* rewrite: `MergedStatus` shows that if
  it has the length of the new one and no update is new to it, it is the new one.

`ServerLifecycle`

* `LifecycleTypes`: `Spec => []LifecycleTypeOK`, calm or not. `TypeInv` adds that
  servers are numbered in the order they are made, so that the number of a new
  one is free.
* `OneListenerPerResource`: `Spec => []OneServerPerSocket` if `"hotplug"` is
  calm. `ListenInv`: only the server a resource has in `rm.resourceServers`
  listens or is watched, and a hot-plug replaces a server whose `Stop` has returned,
  or leaves it.
* `NilServerIsNotCalled`: `Spec => []NoPanic` if all but notifications and refusals
  are calm. First lists fail, and stop their server, in the mode without
  watchers; a server may be stopped by a refusal, by a first list and by a
  hot-plug, and once more at shutdown. `StopInv`: hot-plug and shutdown do not overlap,
  and a `Stop` finds the `grpcServer` it will close. `FirstInv`: a first list is
  under way only on a server whose `grpcServer` is there, and on a broken stream
  only where there are no watchers. `WatchInv`: in the deprecated mode a
  socket that is gone has no live stream, and a watcher does not restart what the
  shutdown stops. The panic with overlapping `Stop` and first list is in the table
  above.

Each inductive invariant was checked with TLC on the instances of the runs
before it was proved.

Only model-checked: what is stated under fairness (`EndedIsReleased`,
`NotifyCompletes`, `RunningIsClaimed`, `ClaimedIsFreed`, `LatestReported`, the
fairness of `ImplementsChecker`, the three convergence properties of the handler
and the four liveness properties of the servers), which is outside TLAPS here.
Every safety property a passing run checks is a theorem. One condition is not
shown to be needed: with failing configuration writes `HiddenForAReason` still
holds on the instance of `paced`.

## Not modelled

* `InitAllocationList` and the allocation of devices outside reservation mode in
  `spyrenodestate.go`: the first acts once, on an empty list; the second picks
  devices by topology scores, which are data.
* The goroutine a timed-out `WaitForNoAllocationInProcess` leaves behind, which
  may send on a closed channel.
* Per-device pools, configuration files, selectors, object construction, and
  failures to create, listen or register at start-up, which end it. In a hot-plug
  they do not and are modelled.
* Topology scores, the three tiers as such, pseudo devices and the tool that
  writes the topology file.
* File contents: Senlib configuration, environment, device specs, metrics and
  pod info files. Which directories exist, and that what is read back was
  written, is in `DevicePlugin`.
* Partial failures within one change of P2P DMA permissions.

## Plan

1. An abstract specification of device ownership (granted, hidden, released)
   that `DevicePlugin` implements in an orderly environment; the refinement can
   be proved from `OwnInv`, `LiveInv` and `ReleaseInv`.
2. `InitAllocationList` next to the PodWatcher's updates, per-device pools in
   `HealthHandler`.
