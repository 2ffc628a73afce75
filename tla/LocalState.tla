------------------------------ MODULE LocalState ------------------------------
(***************************************************************************)
(* The local network state: state.json, which main.go loads before it      *)
(* serves and saves when the server returns, the copy each provider        *)
(* process keeps in between, and the entry that the handlers of a network  *)
(* write into it (resource_network.go, updateNetworkLocalState).           *)
(*                                                                         *)
(* Terraform starts a process for every phase of a command and for every   *)
(* configuration of the provider, so that processes follow each other and  *)
(* may overlap; it kills one that takes too long to stop.  Within one, the *)
(* handlers of different networks run side by side on one map.  What the   *)
(* entry of a network should be is what Terraform's own state says of it.  *)
(***************************************************************************)
EXTENDS Integers, FiniteSets, Functions

CONSTANTS
  Process,    \* slots for provider processes
  Network,    \* names of networks
  Node,       \* nodes that may have a subnet in a network
  MaxStarts   \* bound on the processes started

ASSUME LocalStateAssumption == MaxStarts \in Nat

VARIABLES
  file,       \* state.json: [kind, nets]
  pc,         \* what a process does next
  mem,        \* the state it holds, f.st: network -> nodes that have a subnet
  dropped,    \* networks whose entry a handler of it has deleted, to write it again
  tf,         \* Terraform's state: network -> nodes that have a subnet
  started,    \* processes started
  wrote,      \* history: networks whose entry a process has written
  crowd,      \* history: processes that have overlapped with one that runs
  atRisk,     \* history: networks being written, or last written by a process that
              \* was killed, debugged, or not alone
  troubled    \* history: a process was killed or debugged, or not alone

histVars == <<wrote, crowd, atRisk, troubled>>
vars == <<file, pc, mem, dropped, tf, started, histVars>>

NoNets == <<>>
Nodes == SUBSET Node
States == UNION {[N -> Nodes] : N \in SUBSET Network}

\* The file is absent, empty, two states written over each other, or one state.
Text(kind) == [kind |-> kind, nets |-> NoNets]
Json(nets) == [kind |-> "json", nets |-> nets]
Parses == file.kind = "json"

Alive == {p \in Process : pc[p] \notin {"off", "fatal"}}

-----------------------------------------------------------------------------
Init ==
  /\ file = Text("absent")
  /\ pc = [p \in Process |-> "off"] /\ mem = [p \in Process |-> NoNets]
  /\ dropped = [p \in Process |-> {}] /\ tf = NoNets /\ started = 0
  /\ wrote = [p \in Process |-> {}] /\ crowd = {} /\ atRisk = {}
  /\ troubled = FALSE

Goes(p, next) == pc' = [pc EXCEPT ![p] = next]

\* Faulty: the new state is not an empty one.
StartDirty(p) ==
  /\ p \notin Alive /\ started < MaxStarts /\ started' = started + 1
  /\ Goes(p, "stat")
  /\ wrote' = [wrote EXCEPT ![p] = {}]
  /\ crowd' = IF Alive = {} THEN {} ELSE Alive \cup {p}
  /\ atRisk' = atRisk \cup UNION {wrote[q] : q \in Alive}
  /\ troubled' = (troubled \/ Alive # {})
  /\ UNCHANGED <<file, tf, mem, dropped>>

\* Terraform starts a process: it overlaps with those that still run.
Start(p) ==
  /\ p \notin Alive /\ started < MaxStarts /\ started' = started + 1
  /\ Goes(p, "stat")
  /\ mem' = [mem EXCEPT ![p] = NoNets]
  /\ wrote' = [wrote EXCEPT ![p] = {}]
  /\ crowd' = IF Alive = {} THEN {} ELSE Alive \cup {p}
  /\ atRisk' = atRisk \cup UNION {wrote[q] : q \in Alive}
  /\ troubled' = (troubled \/ Alive # {})
  /\ UNCHANGED <<file, tf, dropped>>

\* Load: os.Stat ...
Stat(p) ==
  /\ pc[p] = "stat"
  /\ Goes(p, IF file.kind = "absent" THEN "create" ELSE "read")
  /\ UNCHANGED <<file, mem, dropped, tf, started, histVars>>

\* ... then an empty file is made, unless one is there by now, and not read ...
CreateFile(p) ==
  /\ pc[p] = "create"
  /\ file' = IF file.kind = "absent" THEN Text("empty") ELSE file
  /\ Goes(p, "loaded")
  /\ UNCHANGED <<mem, dropped, tf, started, histVars>>

\* Faulty: what is there is not read.
ReadNothing(p) ==
  /\ pc[p] = "read" /\ Parses
  /\ Goes(p, "loaded")
  /\ UNCHANGED <<file, mem, dropped, tf, started, histVars>>

\* ... or the file that is there is read ...
ReadFile(p) ==
  /\ pc[p] = "read" /\ Parses
  /\ mem' = [mem EXCEPT ![p] = file.nets]
  /\ Goes(p, "loaded")
  /\ UNCHANGED <<file, dropped, tf, started, histVars>>

\* ... and if it does not parse, main gives up.
LoadFails(p) ==
  /\ pc[p] = "read" /\ ~Parses
  /\ Goes(p, "fatal")
  /\ UNCHANGED <<file, mem, dropped, tf, started, histVars>>

\* providerConfigure hands the map that Load made, or GetState in its place, to
\* the client the handlers get: what they write is written to f.st.
Configure(p) ==
  /\ pc[p] = "loaded" /\ Goes(p, "serving")
  /\ UNCHANGED <<file, mem, dropped, tf, started, histVars>>

-----------------------------------------------------------------------------
(* The handlers of a network.                                              *)

With(nets, n, nodes) ==
  [m \in DOMAIN nets \cup {n} |-> IF m = n THEN nodes ELSE nets[m]]
Without(nets, n) == Restrict(nets, DOMAIN nets \ {n})

\* UpdateNetworkSubnets adds to the subnets the entry has.
UpdateNetworkSubnets(nets, n, nodes) ==
  With(nets, n, nodes \cup (IF n \in DOMAIN nets THEN nets[n] ELSE {}))

\* The history of it: alone, the process makes up for what went wrong before.
Writes(p, n) ==
  /\ wrote' = [wrote EXCEPT ![p] = @ \cup {n}]
  /\ atRisk' = IF p \in crowd THEN atRisk \cup {n} ELSE atRisk \ {n}
  /\ UNCHANGED <<crowd, troubled>>

Begins(p, n) ==
  /\ pc[p] = "serving" /\ n \notin dropped[p]
  /\ dropped' = [dropped EXCEPT ![p] = @ \cup {n}]
  /\ wrote' = [wrote EXCEPT ![p] = @ \cup {n}]
  /\ atRisk' = atRisk \cup {n}
  /\ UNCHANGED <<file, pc, tf, started, crowd, troubled>>

\* Faulty: the entry is not deleted first.
DeleteNoEntry(p, n) == Begins(p, n) /\ mem' = mem

\* storeState of a Create, Update or Read, or of a Delete that failed, calls
\* updateNetworkLocalState, which deletes the entry ...
DeleteEntry(p, n) ==
  /\ Begins(p, n)
  /\ mem' = [mem EXCEPT ![p] = Without(@, n)]

\* ... and updates it, here in one step with the answer to Terraform, for only a
\* handler of the same network would tell the two apart: whatever ip ranges the
\* handler came by are in both.
Store(p, n) ==
  /\ pc[p] = "serving" /\ n \in dropped[p]
  /\ \E nodes \in Nodes :
       /\ tf' = With(tf, n, nodes)
       /\ mem' = [mem EXCEPT ![p] = UpdateNetworkSubnets(@, n, nodes)]
  /\ dropped' = [dropped EXCEPT ![p] = @ \ {n}]
  /\ Writes(p, n)
  /\ UNCHANGED <<file, pc, started>>

\* A Delete that succeeds writes no entry; Cancel may drop the one that is there.
Delete(p, n) ==
  /\ pc[p] = "serving" /\ n \in DOMAIN tf /\ n \notin dropped[p]
  /\ tf' = Without(tf, n)
  /\ mem' \in {mem, [mem EXCEPT ![p] = Without(@, n)]}
  /\ Writes(p, n)
  /\ UNCHANGED <<file, pc, dropped, started>>

-----------------------------------------------------------------------------
\* Faulty: the server's return is taken for the end of the process.
ReturnUnsaved(p) ==
  /\ pc[p] \in {"loaded", "serving"} /\ dropped[p] = {} /\ Goes(p, "off")
  /\ UNCHANGED <<file, mem, dropped, tf, started, histVars>>

\* Serve returns once the handlers have, whether Terraform configured the process
\* or only asked it for its schemas ...
ServeReturns(p) ==
  /\ pc[p] \in {"loaded", "serving"} /\ dropped[p] = {} /\ Goes(p, "truncate")
  /\ UNCHANGED <<file, mem, dropped, tf, started, histVars>>

EndsUnsaved(p) ==
  /\ Goes(p, "off") /\ troubled' = TRUE
  /\ atRisk' = atRisk \cup wrote[p]
  /\ dropped' = [dropped EXCEPT ![p] = {}]
  /\ UNCHANGED <<file, mem, tf, started, wrote, crowd>>

\* ... except that in debug mode nothing is saved.
DebugReturns(p) ==
  /\ pc[p] \in {"loaded", "serving"} /\ dropped[p] = {} /\ EndsUnsaved(p)

\* Save: os.WriteFile truncates the file ...
Truncate(p) ==
  /\ pc[p] = "truncate" /\ Goes(p, "write")
  /\ file' = Text("empty")
  /\ UNCHANGED <<mem, dropped, tf, started, histVars>>

\* ... and writes from its start.  What another process has written since the
\* file was truncated may be the longer, and its end stays.
Write(p) ==
  /\ pc[p] = "write" /\ Goes(p, "off")
  /\ IF file.kind = "empty" THEN file' = Json(mem[p])
     ELSE file' \in {Json(mem[p]), Text("garbled")}
  /\ UNCHANGED <<mem, dropped, tf, started, histVars>>

\* The process is killed, or its Save fails, or it crashes, as it may when two
\* handlers write the map at once, which no lock in the provider prevents.
Kill(p) == p \in Alive /\ EndsUnsaved(p)

\* The user removes a file that no process can load.
Remove ==
  /\ Alive = {} /\ file.kind \in {"empty", "garbled"}
  /\ file' = Text("absent") /\ atRisk' = Network
  /\ UNCHANGED <<pc, mem, dropped, tf, started, wrote, crowd, troubled>>

Next ==
  \/ \E p \in Process :
       \/ Start(p) \/ Stat(p) \/ CreateFile(p) \/ ReadFile(p) \/ LoadFails(p)
       \/ Configure(p) \/ ServeReturns(p) \/ DebugReturns(p)
       \/ Truncate(p) \/ Write(p) \/ Kill(p)
       \/ \E n \in Network : DeleteEntry(p, n) \/ Store(p, n) \/ Delete(p, n)
  \/ Remove

Spec == Init /\ [][Next]_vars

-----------------------------------------------------------------------------
(* Properties.                                                             *)

FileType == [kind : {"absent", "empty", "garbled"}, nets : {NoNets}]
              \cup [kind : {"json"}, nets : States]

\* Every variable keeps its type; a process that has not loaded holds nothing,
\* one that is not configured has written nothing, and an entry is missing until
\* the handler that deleted it writes it again.
TypeOK ==
  /\ file \in FileType /\ tf \in States
  /\ pc \in [Process -> {"off", "fatal", "stat", "create", "read", "loaded",
                         "serving", "truncate", "write"}]
  /\ mem \in [Process -> States] /\ started \in 0 .. MaxStarts
  /\ wrote \in [Process -> SUBSET Network] /\ crowd \subseteq Process
  /\ atRisk \subseteq Network /\ troubled \in BOOLEAN
  /\ dropped \in [Process -> SUBSET Network]
  /\ \A p \in Process :
       /\ pc[p] \in {"stat", "create", "read"} => mem[p] = NoNets
       /\ pc[p] \in {"stat", "create", "read", "loaded"} => wrote[p] = {}
       /\ pc[p] # "serving" => dropped[p] = {}
       /\ dropped[p] \cap DOMAIN mem[p] = {}

\* What the ADR wants of state.json: a process that serves alone has the subnets
\* of every network as Terraform's state has them, through any number of
\* processes before it and handlers beside each other in it, save for the networks
\* whose handler has deleted the entry and not yet written it, and those last
\* written by a process that was killed, debugged or not alone.  Once a process
\* that is alone has refreshed such a network, it is in order again.
ServesCurrentEntries ==
  \A p \in Process \ crowd : pc[p] = "serving" =>
    \A n \in DOMAIN tf \ atRisk : n \in DOMAIN mem[p] /\ mem[p][n] = tf[n]

\* The file can be loaded whenever no process runs, as long as none was killed,
\* debugged, or run beside another: that Load makes an empty file, and that Save
\* truncates it first, is never seen by the next process.
ReadableAtRest ==
  (Alive = {} /\ ~troubled) => file.kind \notin {"empty", "garbled"}
=============================================================================
