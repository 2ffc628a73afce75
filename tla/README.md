# Verification of the ThreeFold Grid Terraform provider

This directory holds TLA+ models of the provider in `src/`, TLC configurations
that check them on small instances, and TLAPS proofs of theorems about them.
Paths below are relative to the repository; names in `code font` that are not
paths are Go functions or TLA+ definitions of the same name.

## 1. The system

The provider is a plugin process that Terraform starts for one command. It
reads `state.json`, serves calls of resource handlers over a local socket, and
writes `state.json` when the server returns. Each resource is a schema and four
handlers (Create, Read, Update, Delete); a handler gets the values of the
configuration and of Terraform's state, makes calls that leave the process (the
chain, the nodes over RMB, the grid proxy, farmerbots), and answers with new
state, an id and diagnostics. Terraform, not the provider, decides what is kept:
`src/wiki/internals.md:22-64` states the contract.

| Part | Source | State it keeps | Operations |
|---|---|---|---|
| Scheduler package | `src/internal/provider/scheduler/` | the node and farm caches of one run (`nodes`, `farms`), the assignment under construction | `ProcessRequests`, `Schedule`, `gridProxySchedule`, `farmerBotSchedule`, `getNode`, `addNodes`, `getFarmInfo`, `consume`, `consumePublicIPs`, `fulfils` |
| `grid_scheduler` | `resource_scheduler.go` | `requests`, `nodes` | `ResourceSchedCreate/Read/Update/Delete`, all but Read through `schedule` |
| `grid_deployment` | `resource_deployment.go`, `deployment.go` | the id (a contract id), node, workloads | Create, Read, Update (which first cancels the contract of a node it leaves), Delete |
| `grid_network` | `resource_network.go` | `nodes`, `node_deployment_id`, `public_node_id`, ip ranges, keys | Create, Read, Update, Delete, `storeState` |
| Local network state | `src/internal/state/file_state.go`, `src/main.go`, `provider.go` | `state.json`: subnets and used host ids of every network | `Load`, `GetState`, `Save`, and `updateNetworkLocalState` of the network handlers |
| `grid_kubernetes` | `k8s.go`, `resource_k8s.go` | master, workers, `node_deployment_id` | Create, Read, Update, Delete, `storeK8sState` |
| Gateways | `gateway_name.go`, `gateway_fqdn.go`, `resource_gateway_*.go` | `node_deployment_id`, `name_contract_id` | Create, Read, Update, Delete |
| Gateway domain data source | `data_source_gateway_domain.go` | none | one lookup |
| Provider configuration | `provider.go` | the grid client | `providerConfigure` |

**Interactions.** `grid_scheduler` runs the scheduler package and hands the node
ids to the other resources through Terraform's graph. Networks, deployments,
clusters and gateways call the grid client, a library that deploys, syncs and
cancels contracts; it is not part of `src/` and is modelled by what the handlers
rely on. All handlers of a process share the local network state: network
handlers rewrite their network's entry, the grid client reads subnets and host
ids from it when it deploys. The chain and the nodes are shared with everyone
else: contracts expire, nodes go down, other tenants take capacity.

**What is hard here.**

- A handler is a sequence of remote calls. Any of them may fail after an earlier
  one has changed the chain, and the process may be killed between any two; what
  Terraform then keeps differs between Create, Read, Update and Delete.
- The grid moves while a handler is at work: listings of the proxy are cached
  and reused for later requests, contracts expire between two calls.
- State is derived twice: a handler writes what it deployed, and the next Read
  writes what it finds. The two must meet, or plans never settle.
- Paging with a page size that doubles, a filter that falls back half way, 64
  bit counters that are subtracted, and maps that are visited in random order.

**What makes each part correct.** The scheduler: requests placed together fit on
the node together; a distinct request shares its node with none before it; a
cached node satisfies the request at hand, not the one it was listed for; giving
up means that nothing would do; the search ends. `grid_scheduler`: a request
keeps its node; every request has one. Deployments and networks: no contract
that lives, and is paid for, is lost sight of; success means deployed as
configured; a refresh shows what is there. Local state: what one process saved
the next one finds. Clusters and gateways: as deployments, over several
contracts of different kinds.

## 2. Plan

In this order, the behaviour that matters most first:

1. *(done)* `Scheduler`, the placement run, with `NodePlacement`, what a run
   promises its caller, and the refinement between them.
2. *(done)* `SchedulerResource`, the resource over its life; it extends
   `NodePlacement`, so its runs are runs of the abstract specification that
   `Scheduler` is proved to implement. `ScheduledResource`, the resource composed
   with `Scheduler` itself, and the refinement between the two.
3. *(done)* `Deployment`, the handlers against chain, failure and kill.
4. *(done)* `Network`, the same over several contracts, with the hidden public
   node.
5. *(done)* `LocalState`: the processes that load, share and save `state.json`,
   and the entry that the handlers of a network rewrite.
   (`src/wiki/architecture/decisions/0001-persisting-network-state.md` says what
   it is for.)
6. *(done)* `Kubernetes`: master and workers over several contracts.
7. *(done)* `Gateway`: a node contract and a name contract. `Contracts`, the
   ledger a resource has to keep, which `Deployment`, `Network`, `Kubernetes` and
   `Gateway` implement.
8. *(done)* Theorems: every invariant, action property and refinement that the
   passing runs check.

What is left: composing handlers that run in parallel in one process, which share
the copy of the local state and the identity on the chain.

## 3. Modules

| Module | Models | Kind |
|---|---|---|
| `Scheduler` | one run of `ProcessRequests` | detailed specification |
| `NodePlacement` | what a run promises its caller | abstract specification |
| `SchedulerResource` | a `grid_scheduler` over applies, edits and destroy | extends `NodePlacement` |
| `ScheduledResource` | the same, whose applies run `Scheduler` itself | composition, extends `Scheduler` |
| `Deployment` | a `grid_deployment`: handlers, Terraform, chain | detailed specification |
| `Network` | a `grid_network`: handlers, Terraform, chain | detailed specification |
| `LocalState` | `state.json`, the processes that load and save it, and what the handlers of a network write | detailed specification |
| `Kubernetes` | a `grid_kubernetes`: handlers, Terraform, chain | detailed specification |
| `Gateway` | a `grid_name_proxy` or `grid_fqdn_proxy`: handlers, Terraform, chain | detailed specification |
| `Contracts` | what a resource owes its user about contracts | abstract specification |
| `MCScheduler`, `MCSchedulerResource`, `MCScheduledResource`, `MCDeployment`, `MCNetwork`, `MCLocalState`, `MCKubernetes`, `MCGateway` | instances for TLC | |
| one `_proofs` module for each of the modules above that is not abstract | theorems and proofs | |

An operator whose comment begins with "Faulty" is a variant of the definition
below it with a plausible bug. Nothing refers to it; put in place of that
definition it makes a property of the module fail, which shows that the property
depends on the code it is about.

### Scheduler

`reqs`, `i`, `req` are the loop of `ProcessRequests`; `nodes` and `farms` the
caches of the `Scheduler` structure; `f` and `l` the filter and limit of
`gridProxySchedule`; `assignment` and `assignedNodes` what the loop has built.
`proxyNodes` and `proxyFarms` are the grid as the proxy answers for it. `pc`
names the call about to be made: the lookup of the farm that a farmerbot is asked
of, the ping of the bot, the question to it, the first search of the cache, the
next listing (`ListPage`), the search after it (`SearchPage`). The farm lookups of
one search are a single step with it, since each reads its own farm once. Between
two steps `OtherTenant` may take capacity, take a node down or up, or reserve a public ip.
`missed`, `placed` and `booked` are history variables.

What is kept exactly: the order of the checks in `fulfils`; the order of farm
lookup, ping, question and fallback (`FarmNotFound`, `BotSilent`, `BotFails`); the page limits, which double
the size of page 2 for ever (`NextPage`); the fallback from light to full nodes
*without* a return to the first page (`FallBackToFull`); the cache that keeps
an entry it has (`addNodes`); `consumePublicIPs`, which changes a copy and so
changes nothing; `uint64` subtraction (`Minus`, modulo `Word`); the rounding of
`buildNodeOptions`; the random order of map iteration and the lookups of farms
that fail on the way (`getNode`). What is abstracted: the proxy's listing is the
set of matching nodes in an order `ProxyOrder` fixes; the farmerbot returns any
node of its farm that suits its options.

### NodePlacement, SchedulerResource and ScheduledResource

`NodePlacement` says what a caller may rely on: requests are placed in order,
none on a node it excludes, a distinct one on no node that is held, and what is
put on a node is taken from what the node had when it was first seen.
`Scheduler!ImplementsPlacement` instantiates it under a refinement mapping.

`SchedulerResource` runs it from Create and Update (`schedule`):
`parseAssignment` and `parseRequests` set up the queue (the loop of
`parseRequests` is a function from the number of its rounds to the list so far);
`parseRequest` converts as Go does: megabytes become bytes modulo `Word`, and farm
ids, counts of ips and excluded nodes are cut to `Word32` values, so that a
negative number of the configuration comes out as a large one;
`Store` is `d.Set` and the save, `ReturnError` what Terraform keeps after an error, `Crash` a kill.

`ScheduledResource` puts the two halves together. `Schedules` makes the new
Scheduler and gives it the assignment of the state and the requests that have no
node in it; `Runs` is any step of `Scheduler`, so that an apply may fail, or the
provider be killed, at each call to the proxy or a farmerbot; the handlers' ends,
edits and destroy are those of `SchedulerResource`, with the run left as it is.
`Res` instantiates `SchedulerResource` with what the run looks like to its caller.

### Deployment

`op` is the handler at work and `step` its next remote call: `cancelOld` (the
`CancelContract` of an Update that changes the node), `load`
(`newDeploymentFromSchema`, which asks the node for its features), `deploy`,
`cancel`, `sync`, `set`. `id` and `state` are Terraform's; `newId` is the id the
handler has set on its resource data so far; `dl` the deployment it works on;
`live` and `made` the chain. The handler gives the client the node of the resource
data and the id as that node's contract, and a contract cannot move: `NodeAnswers`
is true where that node is up and, if the contract lives, has it. So after an
Update to another node whose `CancelContract` failed, Deploy and Sync fail, and a
Read warns, until the node is changed once more, which cancels the contract, the
resource is destroyed or the contract is gone.
Every step has its failing twin; `Fails` is what
Terraform makes of an error. `Kill`, `Expire` and `Outage` may come anywhere. The
history variable `told` has the contracts there were when the user was last told
of trouble, by an error or by a kill.
A `version` stands for all the workloads of a deployment.

### Network

The same frame with `node_deployment_id` (`state.ids`) in place of the id. The
user lists `config`; the grid client may add a hidden public node (`pub`).
`Deploys` makes and cancels contracts together; `DeployFails` and `CancelFails`
leave any part of it done, with the ids of the network in step with the chain.
`CreateFails` is the early return of `resourceNetworkCreate` with nothing
deployed; in every other case the handler goes on to `Store`, which is
`storeState` with its choice of the nodes to list (`storedNodes`). The history
variable `told` has the contracts there were when a handler was killed; an error
does not add to it, since nothing is lost by one.

### LocalState

`file` is `state.json`: absent, empty, two states written over each other, or a
state. Each slot of `Process` runs one provider process after another; `pc` is
where `main` is: in `Load` (`stat`, `create`, `read`), between it and the
provider's configuration (`loaded`), `serving`, in `Save` (`truncate`, `write`),
or ended. `dropped` has the networks whose entry is deleted and not written again
yet. `mem` is the map `f.st` that the process holds and its handlers share;
`tf` is what Terraform's own state says of the subnets, the standard the file is
held to.

`Stat`, `CreateFile`, `ReadFile` and `LoadFails` are `Load` with what `main`
makes of its error: an empty file is made on the first start and not read.
`Configure` is `providerConfigure`. `DeleteEntry`, `Store` and `Delete` are what the
handlers of a network do to the map: delete the entry, then, in a step of its own,
`UpdateNetworkSubnets`. Handlers of different networks come between the two.
`ServeReturns` and `DebugReturns` are the two ends of `main`; `Save` is
`os.WriteFile`, in two steps because it truncates first. Processes overlap as
they like, and `Kill` comes anywhere; `Remove` is a user who deletes a file that
no process can load. The history variables (`wrote`, `crowd`, `atRisk`,
`troubled`) say which entries a process without trouble can vouch for.

Of an entry the model keeps the set of nodes with a subnet. The host ids that
deployments take are written by the grid client, and only within one process.

### Kubernetes

`config` and `state` are clusters, a master and workers, each machine with name,
node and mycelium seed; `state.ids` is `node_deployment_id`; `k8s` is the cluster
the handler works on; `live` says what each contract runs. Create and Update go
through `Deploy`, `UpdateFromRemote` and `storeK8sState`; Read through
`Validate`, `Invalidate` (`InvalidateBrokenAttributes`), `UpdateFromRemote` and
`storeK8sState`; Delete through `Cancel`. Each has its failing twin, with any
part of its work done, and, unlike a network's handlers, nothing stored. Before
any of it `newK8sFromSchema` decodes the seeds (`Decodes`): `BadSeeds` are those
that are not hexadecimal, and a handler that meets one returns at once (`Refuses`).
Since Terraform keeps the new values of an Update that fails, Read and Delete then
refuse too, until another Update.

Three details of `storeK8sState` (`written`) are kept because they bite: the
workers' seeds are written from the master's (`k8s.go:112`); that line
dereferences the master before the check that there is one, so that a Read of a
cluster that lost its master's node panics (`StorePanics`); and a cluster that has
neither is written with a master of no name on node 0 (`EmptyVM`), which the next
Read cannot validate.

### Gateway

`kind` chooses between the two resources, whose code differs in the name contract
alone. `load` is the conversion of the resource data with `validateBackends`;
`deploy`, `cancel` and `sync` are the calls of the client; `set` stores. A
gateway that changes its node gets a new contract and loses the old one; one that
changes its name gets a new name contract, if the name is free: names are unique
on the grid, and one held by a contract that an earlier apply lost stays taken.
A `version` stands for backends, passthrough, network and fqdn.

### Contracts

Nothing is said of how a resource works, only of its books: `alive` contracts,
the ids `recorded` in Terraform's state, those there were when the user was
`told` of trouble. While a handler is `busy` contracts come and go; when it
returns, every live contract is recorded or told, and none that was recorded and
lives has been dropped. `Deployment`, `Network`, `Kubernetes` and `Gateway` each
instantiate it as `ImplementsContracts`; they differ in what they tell of.

## 4. Runs

Counts are distinct states.

| Run | States | Question |
|---|---|---|
| `scheduler` | 530 000 | Are the safety properties of a run and its refinement of `NodePlacement` true, and does each step bring it nearer to its end? |
| `fallback`, `public_ips` | | Two claims of comments and schema about a run, each violated |
| `resource` | 166 000 | Are assignments stable, distinct and complete over applies that fail or are killed? |
| `resource_nodes` | | Has every request in the state a node? No |
| `scheduled` | 197 000 | Does the resource with the real scheduler do only what the one with the abstract run does, and does every apply end? |
| `deployment` | 176 000 | Does the state hold on to live contracts, is each one lost reported, and are reports of success and refreshes true? |
| `deployment_create` | | Does a failed Create keep what it made? No |
| `network` | 3 863 000 | As `deployment`, and does a half-done Deploy or Cancel orphan a contract? |
| `localstate` | 627 000 | Has a process the subnets that Terraform has, whatever ran before it, and can the file be loaded? |
| `kubernetes` | 910 000 | As `deployment`, over several contracts with nothing stored on failure: what is lost, and is it reported? Do plans settle? |
| `gateway` | 905 000 | The same over a node and a name contract, with configurations that are refused |

### Properties that hold

*Scheduler.* `NoOvercommit`: requests put on a node through the proxy never take
more of it together than it had when it was listed. `DistinctFromEarlier`: a
distinct request shares its node with no earlier one, by whichever way it was
placed. `FeaturesOrLeftOver`: a request that needs the full network (yggdrasil,
wireguard, a public node or ip) gets a node that has it, or one that stayed in the
cache from the listing of an earlier request that needed none. The second half is
how far `resource_scheduler.go:66` and `:71` are from the truth, and no farther: a
full page, a fall back or another tenant add nothing to it. `SearchIsExhaustive`: on a grid that
stands still, giving up means that the pages covered the listing of the
request's own filter and that nothing in it will do; this is what the doubling
page size must guarantee. `BotNodeNearlyFits`: what the farmerbot finds falls
short of a request by less than the gigabyte that rounding its options loses, and
has the cores, free public ips, farm, domain and certification that the options
name; they do not name yggdrasil and wireguard. `CacheOnlyShrinks`: no counter wraps around or is
restored. `StepsProgress`: every step lowers a rank of five naturals (the requests
left, the calls left for the one at hand, the fallback, the nodes that the pages
have not passed, the search of the page at hand), and no change of the grid raises it, so that no run pages for
ever. `ImplementsPlacement`: a run does what `NodePlacement` promises its caller.

*SchedulerResource.* `AssignmentStable`: a request that has its node keeps it,
whatever becomes of later applies. `DistinctAcrossUpdates`: a distinct request
shares its node with none placed before it, in whichever apply.
`AppliedIsPlaced`: success means that every request has a node.

*ScheduledResource.* `ImplementsResource`: with the real scheduler the resource is
a `SchedulerResource`, so that the three above hold for it, with pages, cache and
farmerbots in place of the abstract run. `AppliesEnd`: a handler that has begun
returns, if its calls do.

*Deployment.* `OrphansAreReported`: a contract that lives between two handlers
is in the state, unless an error was returned or a handler died since it was
made. `ImplementsContracts`: the books are kept as `Contracts` has them; above all,
the id is replaced or cleared only once its contract is gone. `AppliedIsDeployed`: success means that the configured version
lives on the configured node under the id in the state, whatever earlier applies
left; in particular, none succeeds while the contract is on another node.
`RefreshIsTruth`: a Read without a warning shows what is there, node and version;
where the state names a node the contract is not on, there is a warning.

*Network.* `NothingOrphaned`: every live contract is in the
state between two handlers, save those there were when a handler was killed, so
that an error loses none; `ImplementsContracts`, `AppliedIsDeployed`;
`RefreshIsTruth`: the listed nodes are those with a live contract, save the
public one.

*LocalState.* `ServesCurrentEntries`: a process that serves alone has every
network's subnets as Terraform has them, except networks that a handler is about
to write again and those last written by a
process that was killed, debugged or not alone; a Read by a process that is alone
puts those in order again. The exceptions are exactly where the file loses
writes. `ReadableAtRest`: while no process was killed, debugged or overlapped,
the empty file of a first start and of a truncated save is never met by a later
process.

*Kubernetes.* `OrphansAreReported`: a contract that lives between two handlers is
in the state, unless a Create or Update returned an error or a handler died since
it was made. `ImplementsContracts`: and the state lets go of none. `AppliedIsDeployed`:
after a success each node of the cluster runs its machines, as written, under a
recorded contract, and nothing else is recorded. `AppliedIsRecorded`: the next
plan is empty, as long as no worker has a seed of its own. `RefreshIsTruth`: what
a Read stores lives, with the machines it runs, apart from the empty machine that
stands for a master that is gone.

*Gateway.* The same, where the name is part of what is deployed and
`AppliedIsDeployed` says that the next plan is empty too, and
`NothingInvalidRuns`: backends that validation refuses never run, although
Terraform keeps them in its state.

### Properties that do not

| Run | What a doc or comment says | What the code does |
|---|---|---|
| `fallback` | `scheduler.go:143`: "Schedule makes sure there's at least one node that satisfies the given request" | the fallback to full nodes goes on at the page reached (`scheduler.go:170`), so the first full nodes are never listed |
| `public_ips` | `resource_scheduler.go:81`: "Required count of public ips." | `consumePublicIPs` decrements a copy (`scheduler.go:44`); one free ip serves two requests |
| `resource_nodes` | `resource_scheduler.go:114`: "Mapping from the request name to the node id." | after a failed Update the requests are in the state without nodes, and no later plan differs (`resource_scheduler.go:180`) |
| `deployment_create` | `wiki/internals.md:63`: "In case of a revert failure, set the id and store the active deployment ids." | Create returns without an id (`resource_deployment.go:493`) |

More was found by reading or along the way, and is plain from one place of the
code, so that no run is spent on it:

- Read may fail: it asks the nodes for their features, or validates them, first
  (`resource_deployment.go:515`, `resource_k8s.go:400`), although
  `wiki/internals.md:50` says "Reading shouldn't raise an error in any case."
- `yggdrasil` and `wireguard` of a request choose the filter of the listing
  (`resource_scheduler.go:66`, `:71`), but `fulfils` does not look at features, so
  a node cached for another request is taken without them; nor do the farmerbot's
  options name them. `FeaturesOrLeftOver` bounds the first.
- Sizes, ids and counts of a request may be negative in the configuration and
  wrap (`resource_scheduler.go:146-156`): a negative excluded node excludes none or
  another, a negative size is one no node has.
- Memory and disks are "in MBs" (`resource_scheduler.go:46`) and rounded down to
  gigabytes for the farmerbot (`farmer_bot.go:82`); `BotNodeNearlyFits` says how
  much may be missing.
- The CPUs a request requires never reach the scheduler
  (`resource_scheduler.go:152`).
- Two saves that overlap may leave a `state.json` that no process can load; so
  does a first process that is killed, or run for debugging, and leaves the empty
  file that `Load` made (`file_state.go:41`). A Delete that succeeds does not
  touch the network's entry; whether it goes is up to the client.
- A cluster whose worker has a seed other than the master's never settles: each
  apply records the master's seed for it (`k8s.go:112`).
- After an Update with a seed that is not hexadecimal, Read and Delete refuse the
  state too (`resource_k8s.go:396`, `:433`), until another Update repairs it; after
  a Read of a cluster that lost all its contracts the stored master has no name and
  node 0, and the next Read fails on it.
- After an Update to another node whose `CancelContract` fails, the state names the
  new node with the old node's contract (`resource_deployment.go:542-552`,
  `deployment.go:118`): a Read warns and repairs nothing, and an Update to the new
  node fails, since Terraform's state no longer shows that the node changed.
- A name contract that ends while the node contract lives leaves
  `name_contract_id` 0 after a Read, and no plan differs
  (`resource_gateway_name.go`): the name is not asked for again until something
  else of the gateway changes.
- After an Update with backends that are refused, Read and Delete refuse the
  state too (`gateway_name.go:44`), until another Update repairs it.

### Bounds

- `MCScheduler`: three nodes on two farms, pages of one node, so that three
  nodes need three pages and the size doubles; grids of mixed, split and equal
  nodes, so that the light listing runs out while full nodes remain; two or
  three requests of nine kinds, chosen so that two fit on a node and three do
  not; `Word = 16` with capacities below it, so that a wrap would show as a
  large number; `GB = 2`, so that an odd size is rounded; one change by another
  tenant at any point.
- `MCSchedulerResource`: three names, two nodes, six configurations (a request
  renamed, changed, removed, doubled, distinct, excluding), three applies: one
  to create, one to fail, one to meet what is left. `Word = 2` and `Word32 = 4`
  with a size of -2, which wraps to nothing, and an excluded node -3, which is
  node 1; `MB = 1`.
- `MCScheduledResource`: two nodes of one farm, one too small for two requests, on
  three grids; six configurations of one or two requests (distinct, for the bot,
  too large for one of the nodes, of a negative size), `Word = 4`, one change by another tenant in
  each run, three applies.
- `MCDeployment`: two nodes and two versions, so that updates come in place and
  to another node; three contracts and three things that go wrong: a failure, a
  kill of what comes after it, an expiry meanwhile.
- `MCNetwork`: three nodes (listed, dropped, hidden); six contracts, so that an
  apply of up to three is followed by another; two things that go wrong.
- `MCLocalState`: two processes at a time and four in all, so that a pair that
  overlapped is followed by one that finds the result and by one after that; two
  networks, one that is written and one that should stay; one node, since an
  entry matters here as a whole.
- `MCKubernetes`: two nodes, two machines and five clusters: master and worker on
  two nodes, on one, with different seeds, a master alone that has moved, and one
  whose seed is refused, so that edits add, drop, move and keep nodes. Five contracts: two applies over two
  nodes and the room that a third needs to begin; two things that go wrong.
- `MCGateway`: two nodes, two names, two valid workloads and one that is refused,
  both kinds; five contracts and two things that go wrong, as above.
- `MaxContract` holds back the *start* of an apply, never a call in the middle
  of one. `MaxTrouble` holds back what goes wrong, except a failure the state
  forces (a node that is down, a contract that is gone), which is always
  possible.
- Nodes and versions of `MCDeployment`, nodes of `MCNetwork`, processes and
  networks of `MCLocalState`, and nodes, names and valid workloads of `MCGateway`
  are model values under symmetry: no definition orders or names them. No liveness is checked
  under symmetry.
- Deadlock is not checked in the scheduler's configurations, where a run ends,
  in the scheduler resource's, where the applies do, nor in `MCLocalState`, where
  no more processes are started; it is in the others, where the user can always
  edit the configuration.

### Fairness

Only `scheduled` needs it: weak fairness of `Proceeds`, which is a step of the run
that its own calls answer (`Answered`) or, when the run has ended, the return of
the handler (`Store`, `ReturnError`). Calls to the proxy return an answer or an
error and calls over RMB have deadlines, so a run under way takes its next step.
An error of the proxy or a kill ends an apply but is not required to happen; other
tenants are never required to act, and act boundedly often.

## 5. Hazards

`PROJECT.json` lists, line by line, what in this code is hard to test, with the
properties that would notice it going wrong. Two have none: the feature query that
makes a Read fail, and the panic of a Read without a master, modelled by
`StorePanics`. Both are part of every behaviour checked; no doc says what should
happen instead of the second, and what one says of the first is contradicted by a
single line.

## 6. Proofs

The theorems hold for all values of the constants that satisfy the named
assumptions: any grid, request lists, page size, word size, numbers of nodes,
contracts and failures.

**Assumptions.** `ConstantsAssumption` and `InputsAssumption` type the constants
of `Scheduler`; `ProxyOrderAssumption` says that the proxy's order of a set of
nodes is a sequence that has every node of the set once. `DeploymentAssumption` and
`NetworkAssumption` say that the bounds are natural numbers, that there are
nodes, and that the markers for "none" are not among them; `Network` needs the
nodes to be finitely many. `ResourceAssumption` types the
configurations of `SchedulerResource`, whose kinds of capacity are among those a
request asks for, and `LifeAssumption` those of `ScheduledResource`. `LocalStateAssumption` bounds the
processes by a natural number. `KubernetesAssumption` has finitely many nodes, none
of them 0, and
clusters with one master that is not a worker and with unique names, which the
grid needs to tell machines apart; by `SeedsAssumption` the empty seed is one that
decodes. `GatewayAssumption` keeps the markers for "no
workload" and "no name contract" out of the real ones. TLC evaluates all of them in the runs.

**`Scheduler_proofs`.**

| Theorem | States | Argument |
|---|---|---|
| `TypeCorrect` | `TypeOK` | inductive with the lemmas on `Minus`, `consume`, `addNodes`, `withFarms`, `getNode` |
| `CapacityKept` | `NoOvercommit` | `Conserved`: what is left of a cached node and what is booked on it add up to what it was listed with. `NoOvercommit` alone says nothing about what is left, so it is not inductive |
| `CacheShrinks` | `CacheOnlyShrinks` | from `TypeOK`: `fulfils` guards `consume`, so the subtraction does not wrap |
| `DistinctKept` | `DistinctFromEarlier` | `Excluded`: while a distinct request is placed, all assigned nodes are excluded, whether the bot or the proxy is asked |
| `FeaturesKept` | `FeaturesOrLeftOver` | `Origin`: every cached node was up when listed and has the full features, or was listed for a request that has been placed or is at hand and needs only the light ones; it needs `Filtered`, that the filter is the request's own or asks for full nodes, and `PlacedCached`, that nodes placed by the proxy stay cached |
| `BotNearlyFits` | `BotNodeNearlyFits` | what rounding down loses (`RoundedDown`), and that the grid has not moved since the farmerbot answered |
| `SearchKept` | `SearchIsExhaustive` | `Searched`: as long as the grid stands still, the cached farms are fresh (`FarmsFresh`), the pages before the one at hand are cached whole (`PagesCover`), and no cached node fits (`NoneFits`). The page sizes matter here: page 2 of size 2s begins where page 2 of size s ended |
| `RunsEnd` | `StepsProgress` | `Counted`: the size grows only after page 1, and the loop stops at the end of the list. A page that is not empty begins within the listing, which is no longer than the grid, and the next one begins where it ended (`PageLeavesFewer`), so that the nodes left over get fewer (`Lexicographic` puts the five parts together). No listing need be the same as the one before |

`Implements` is `Spec => ImplementsPlacement`. Initial
states map to initial states; a step that assigns a node maps to `PutByProxy` or
`PutByBot`, a search that goes on to `Look`, the ends to `Return` and `GiveUp`,
all else to stutters. The invariant `Taken` says that the request at hand is the
head of the abstract queue, with more excluded. `StepsSeen` says once how each
step looks to the caller.

**`ScheduledResource_proofs`.** `ResourceImplements`: `LifeSpec =>
ImplementsResource`. The invariant `Underway` says that the run in the resource
is one of those that `Scheduler_proofs` is about, though its requests and its
assignment come from a handler: `RequestsGiven` takes what `parseRequests`
returns from `SchedulerResource_proofs`. A handler then gives the run what the
abstract one is given (`StartsAre`), and a step of the run is one of the abstract
run by `StepsSeen` (`RunsAre`, with `PlacedGrows` for the history). `NodesStay`,
`DistinctStays` and `AppliesPlace` are then theorems of
`SchedulerResource_proofs`, instantiated by `ResP`; `SameSpec` says that its
specification is the one of the refinement. `RunsHold` takes the invariants of
`Scheduler_proofs` to the runs of the resource, each on a grid that has moved
since the last: `Kept` puts them together, a handler's start establishes them and
the steps of a run preserve them by the lemmas proved of `Scheduler`.
`HandlersEnd` (`HandlersProgress`) does the same for the rank.

**`Deployment_proofs`.** `TypeCorrect`, and `NeverForgets` (`NeverForgetsLive`:
the id is replaced or cleared only once its contract is gone) from `Holding`: a handler at work on a resource whose contract lives still has
its id and works on that contract, and no id is ahead of the contracts made, so
that one that is gone does not come back. `NoSilentOrphans`
(`OrphansAreReported`) from `Accounted`: what lives is the id of the state or
told, except in the hands of the handler that made it; with `Holding` that gives
`DeploymentImplementsContracts` (`ImplementsContracts`), each handler's start, its
calls and its end being `Begin`, `Work` and `Return`. `AppliesDeploy` and `RefreshesShow`
(`AppliedIsDeployed`, `RefreshIsTruth`) from `Settling`, which says step by step
what the handler at work may rely on: after `deploy` the contract it holds runs
the configured version, after `sync` its deployment is what the contract runs.

**`SchedulerResource_proofs`.** `TypeCorrect`, `AssignmentsStay`
(`AssignmentStable`), `AppliesPlace` (`AppliedIsPlaced`) and `DistinctStays`
(`DistinctAcrossUpdates`), from two inductive invariants: `Working` relates the
queue of a run, the assignment and the requests of the configuration, so that an
empty queue means that all are placed; `Apart` carries what distinct requests
were promised over the end of one run and the start of the next. Both need to
know what `parseRequests` returns for every list: that its rounds exist and that
it keeps, in order, what has no node yet. This is an induction over the rounds,
which is done by the least round that would be wrong (`LeastMember`), since
induction theorems with an operator parameter are out of the provers' reach.

**`Network_proofs`.** All the properties of the run `network`, from one
invariant, `Accounted`, with `Room` for the types:
the ids of the state and of the handler name contracts of their own nodes
(`OnNode`); a handler starts from the ids of the state and drops only what is
dead (`Working`); every live contract is among the ids of the handler about to
store, and among those of the state otherwise (`Held`), or told; what is about to be
stored as a success is one (`Ready`). `NothingOrphaned` is not inductive by
itself because it speaks only of the moments between handlers.
`DeploysGives` says once what a Deploy or Cancel does, whole or in part.
`NetworkImplementsContracts` (`ImplementsContracts`) follows from the same
invariant: what is stored keeps every recorded contract that lives, which
`NeverForgets` (`NeverForgetsLive`) says of every step.

**`LocalState_proofs`.** `TypeCorrect`; `AloneServesCurrent`
(`ServesCurrentEntries`) from `Crowded`, that processes that overlap are all
known as such, and `Current`, which follows the entries from the memory of a
process that is alone, through its save, into the file, and into the memory of
the next; `RestIsReadable` (`ReadableAtRest`) from `Untouched`: without trouble
the file is empty only between the Load and the Save of the one process that runs.

**`Kubernetes_proofs`.** `TypeCorrect`, with `Room`: a Deploy never runs out of
ids. `NoSilentOrphans` (`OrphansAreReported`) and
`KubernetesImplementsContracts` (`ImplementsContracts`) from `Accounted`: what
lives is in the state or told, except while an apply holds contracts it has not
stored, when its cluster has them; and what a handler is about to store lets go
of nothing that lives. `AppliesDeploy` from `Matching`, that recorded
contracts live on their own nodes, and `Applying`, what the contracts of a
handler run after Deploy. `AppliesRecord` from
`Recording` and `AsWritten`; it needs names to be unique, since
`UpdateFromRemote` finds the master by its name. `RefreshesShow` from
`Refreshing` and `Shown`.

**`Gateway_proofs`.** `TypeCorrect`, with `Room` and `Behind` (no recorded id is
ahead of the contracts made). `NoSilentOrphans` and `GatewayImplementsContracts`
from `Accounted`, as in `Kubernetes`, where what a handler is about to have
recorded is `Held`. `RefusedNeverRuns` (`NothingInvalidRuns`) from `Validated`:
what is about to be deployed has passed validation. `AppliesDeploy` and
`RefreshesShow` from `Settling`, as in `Deployment`.

**Only model-checked.** `AppliesEnd`, which is liveness, out of reach of the prover;
the part of it that is safety, that a handler cannot take steps for ever, is
`HandlersEnd`. The violated properties need no proof: TLC shows a behaviour.

## 7. What is not modelled

- **The grid client, the chain, the nodes, the proxy, the farmerbot, Terraform**
  are not part of the repository. They appear as actions that do what the
  handlers rely on, failing wherever they can.
- **The gateway domain data source** is one lookup without state; **provider
  configuration** reads the provider block and builds the client. The one thing
  it hands on, the local network state, is `Configure` in `LocalState`.
- **Schemas and conversions** (types, defaults, parsing of ip ranges and keys,
  `d.Set` of computed values) are abstracted: no property is about them. An
  error of `d.Set` is not modelled, it does not occur for values of the
  schema's types.
- **Time**: deadlines appear as answers that fail.
- **Parallel handlers of one process** are not composed. In `LocalState` the
  handlers of all networks interleave, with deletion and update of an entry as two
  steps; that Go may crash a process whose map is written concurrently is a case of
  `Kill`. Handlers of
  deployments, clusters and gateways share the chain alone, where each has
  contracts of its own.
