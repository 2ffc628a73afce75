--------------------------- MODULE LocalState_proofs ---------------------------
(***************************************************************************)
(* Proofs about LocalState: its types, and that a process that serves      *)
(* alone has what Terraform has, and can load the file, save for what      *)
(* processes that were killed, debugged or not alone have left.            *)
(***************************************************************************)
EXTENDS LocalState, TLAPS

LEMMA StatesAre ==
  ASSUME NEW nets
  PROVE  nets \in States <=> DOMAIN nets \subseteq Network /\ nets \in [DOMAIN nets -> Nodes]
BY DEF States

LEMMA NoNetsAre == NoNets \in States /\ DOMAIN NoNets = {}
<1>1. DOMAIN NoNets = {} /\ NoNets \in [{} -> Nodes]
  BY DEF NoNets
<1> QED BY <1>1, StatesAre

LEMMA WithIs ==
  ASSUME NEW nets \in States, NEW n \in Network, NEW nodes \in Nodes
  PROVE  /\ With(nets, n, nodes) \in States
         /\ DOMAIN With(nets, n, nodes) = DOMAIN nets \cup {n}
         /\ With(nets, n, nodes)[n] = nodes
         /\ \A m \in DOMAIN nets \ {n} : With(nets, n, nodes)[m] = nets[m]
<1>1. /\ DOMAIN With(nets, n, nodes) = DOMAIN nets \cup {n}
      /\ With(nets, n, nodes)[n] = nodes
      /\ \A m \in DOMAIN nets \ {n} : With(nets, n, nodes)[m] = nets[m]
  BY DEF With
<1>2. DOMAIN nets \subseteq Network /\ nets \in [DOMAIN nets -> Nodes]
  BY StatesAre
<1>3. With(nets, n, nodes) \in [DOMAIN nets \cup {n} -> Nodes]
  BY <1>2 DEF With
<1> QED BY <1>1, <1>2, <1>3, StatesAre

LEMMA WithoutIs ==
  ASSUME NEW nets \in States, NEW n
  PROVE  /\ Without(nets, n) \in States
         /\ DOMAIN Without(nets, n) = DOMAIN nets \ {n}
         /\ \A m \in DOMAIN nets \ {n} : Without(nets, n)[m] = nets[m]
<1>1. /\ DOMAIN Without(nets, n) = DOMAIN nets \ {n}
      /\ \A m \in DOMAIN nets \ {n} : Without(nets, n)[m] = nets[m]
  BY DEF Without, Restrict
<1>2. DOMAIN nets \subseteq Network /\ nets \in [DOMAIN nets -> Nodes]
  BY StatesAre
<1>3. Without(nets, n) \in [DOMAIN nets \ {n} -> Nodes]
  BY <1>2 DEF Without, Restrict
<1> QED BY <1>1, <1>2, <1>3, StatesAre

\* UpdateNetworkSubnets adds to an entry, so it replaces one that is deleted.
LEMMA UpdateIs ==
  ASSUME NEW nets \in States, NEW n \in Network, n \notin DOMAIN nets, NEW nodes \in Nodes
  PROVE  UpdateNetworkSubnets(nets, n, nodes) = With(nets, n, nodes)
<1>1. nodes \cup (IF n \in DOMAIN nets THEN nets[n] ELSE {}) = nodes
  OBVIOUS
<1> QED BY <1>1 DEF UpdateNetworkSubnets

\* A step of a process to "next" leaves the others where they are.
LEMMA GoesTo ==
  ASSUME TypeOK, NEW p \in Process, NEW next, Goes(p, next)
  PROVE  /\ pc'[p] = next /\ \A q \in Process \ {p} : pc'[q] = pc[q]
         /\ Alive' = IF next \in {"off", "fatal"} THEN Alive \ {p} ELSE Alive \cup {p}
<1>1. pc'[p] = next /\ \A q \in Process \ {p} : pc'[q] = pc[q]
  BY DEF Goes, TypeOK
<1> QED BY <1>1 DEF Alive

-----------------------------------------------------------------------------
(* The types.                                                              *)

PC == {"off", "fatal", "stat", "create", "read", "loaded", "serving", "truncate", "write"}

LEMMA GoesType ==
  ASSUME TypeOK, NEW p \in Process, NEW next \in PC, Goes(p, next)
  PROVE  pc' \in [Process -> PC]
BY DEF Goes, TypeOK, PC

LEMMA TypeInit == Init => TypeOK
<1> SUFFICES ASSUME Init PROVE TypeOK
  OBVIOUS
<1>1. file \in FileType /\ tf \in States /\ started \in 0 .. MaxStarts
  BY NoNetsAre, LocalStateAssumption DEF Init, FileType, Text
<1>2. mem \in [Process -> States] /\ wrote \in [Process -> SUBSET Network]
  BY NoNetsAre DEF Init
<1>3. \A p \in Process : pc[p] = "off" /\ mem[p] = NoNets /\ wrote[p] = {} /\ dropped[p] = {}
  BY DEF Init
<1>4. pc \in [Process -> {"off", "fatal", "stat", "create", "read", "loaded", "serving",
                          "truncate", "write"}]
  BY DEF Init
<1> QED BY <1>1, <1>2, <1>3, <1>4 DEF Init, TypeOK

\* No handler of a process is at work after a step.
DropsNone(p) ==
  /\ dropped' \in [Process -> SUBSET Network] /\ dropped'[p] = {}
  /\ \A q \in Process \ {p} : dropped'[q] = dropped[q]

LEMMA StillNone ==
  ASSUME TypeOK, NEW p \in Process, dropped[p] = {}, UNCHANGED dropped
  PROVE  DropsNone(p)
BY DEF DropsNone, TypeOK

\* A process that writes no entry and loads nothing.
LEMMA MovesType ==
  ASSUME TypeOK, NEW p \in Process,
         NEW next \in {"off", "fatal", "loaded", "serving", "truncate", "write"},
         Goes(p, next), UNCHANGED <<mem, tf, started, wrote, crowd>>,
         file' \in FileType, atRisk' \subseteq Network, troubled' \in BOOLEAN,
         next = "loaded" => wrote[p] = {}, DropsNone(p)
  PROVE  TypeOK'
<1>1. pc' \in [Process -> PC]
  BY GoesType DEF PC
<1>2. pc'[p] = next /\ \A q \in Process \ {p} : pc'[q] = pc[q]
  BY GoesTo
<1> QED BY <1>1, <1>2 DEF TypeOK, PC, DropsNone

LEMMA UnsavedType ==
  ASSUME TypeOK, NEW p \in Process, EndsUnsaved(p) PROVE TypeOK'
<1>1. wrote[p] \subseteq Network
  BY DEF TypeOK
<1>2. atRisk' \subseteq Network /\ troubled' \in BOOLEAN /\ file' \in FileType
  BY <1>1 DEF EndsUnsaved, TypeOK
<1>3. DropsNone(p)
  BY DEF EndsUnsaved, DropsNone, TypeOK
<1> QED BY <1>2, <1>3, MovesType DEF EndsUnsaved

\* What an entry that is written, or dropped, leaves of the other entries.
OnlyEntry(p, n) ==
  /\ dropped' \in [Process -> SUBSET Network] /\ dropped'[p] \subseteq dropped[p] \ {n}
  /\ \A q \in Process \ {p} : dropped'[q] = dropped[q]
  /\ DOMAIN mem'[p] \subseteq DOMAIN mem[p] \cup {n}
  /\ mem' \in [Process -> States] /\ \A q \in Process \ {p} : mem'[q] = mem[q]
  /\ tf' \in States /\ \A m \in DOMAIN tf' \ {n} : m \in DOMAIN tf /\ tf'[m] = tf[m]
  /\ \A m \in DOMAIN mem[p] \ {n} : m \in DOMAIN mem'[p] /\ mem'[p][m] = mem[p][m]
  /\ n \in DOMAIN tf' => n \in DOMAIN mem'[p] /\ mem'[p][n] = tf'[n]

LEMMA WritesType ==
  ASSUME TypeOK, NEW p \in Process, NEW n \in Network, pc[p] = "serving", Writes(p, n),
         UNCHANGED <<file, pc, started>>, OnlyEntry(p, n)
  PROVE  TypeOK'
<1>1. wrote' \in [Process -> SUBSET Network] /\ \A q \in Process \ {p} : wrote'[q] = wrote[q]
  BY DEF Writes, TypeOK
<1>2. atRisk' \subseteq Network /\ UNCHANGED <<crowd, troubled>>
  BY DEF Writes, TypeOK
<1> QED BY <1>1, <1>2 DEF OnlyEntry, TypeOK

LEMMA StoreIs ==
  ASSUME TypeOK, NEW p \in Process, NEW n \in Network, Store(p, n)
  PROVE  OnlyEntry(p, n)
<1>1. PICK nodes \in Nodes :
        /\ tf' = With(tf, n, nodes)
        /\ mem' = [mem EXCEPT ![p] = UpdateNetworkSubnets(mem[p], n, nodes)]
  BY DEF Store
<1>2. /\ tf \in States /\ mem[p] \in States /\ mem \in [Process -> States]
      /\ n \notin DOMAIN mem[p]
  BY DEF TypeOK, Store
<1> DEFINE new == With(mem[p], n, nodes)
<1>3. mem' = [mem EXCEPT ![p] = new]
  BY <1>1, <1>2, UpdateIs
<1>4. ASSUME NEW nets \in States
      PROVE  /\ With(nets, n, nodes) \in States
             /\ DOMAIN With(nets, n, nodes) = DOMAIN nets \cup {n}
             /\ With(nets, n, nodes)[n] = nodes
             /\ \A m \in DOMAIN nets \ {n} : With(nets, n, nodes)[m] = nets[m]
  BY WithIs
<1>5. /\ new \in States /\ DOMAIN new = DOMAIN mem[p] \cup {n} /\ new[n] = nodes
      /\ \A m \in DOMAIN mem[p] \ {n} : new[m] = mem[p][m]
  BY <1>2, <1>4
<1> HIDE DEF new
<1>6. /\ mem' \in [Process -> States] /\ mem'[p] = new
      /\ \A q \in Process \ {p} : mem'[q] = mem[q]
  BY <1>2, <1>3, <1>5
<1>7. /\ tf' \in States /\ DOMAIN tf' = DOMAIN tf \cup {n} /\ tf'[n] = nodes
      /\ \A m \in DOMAIN tf \ {n} : tf'[m] = tf[m]
  BY <1>1, <1>2, <1>4
<1>8. /\ dropped' \in [Process -> SUBSET Network] /\ dropped'[p] = dropped[p] \ {n}
      /\ \A q \in Process \ {p} : dropped'[q] = dropped[q]
  BY DEF Store, TypeOK
<1> QED BY <1>5, <1>6, <1>7, <1>8 DEF OnlyEntry

LEMMA DeleteIs ==
  ASSUME TypeOK, NEW p \in Process, NEW n \in Network, Delete(p, n)
  PROVE  OnlyEntry(p, n)
<1>1. tf \in States /\ mem[p] \in States /\ mem \in [Process -> States]
  BY DEF TypeOK
<1>2. ASSUME NEW nets \in States
      PROVE  /\ Without(nets, n) \in States
             /\ DOMAIN Without(nets, n) = DOMAIN nets \ {n}
             /\ \A m \in DOMAIN nets \ {n} : Without(nets, n)[m] = nets[m]
  BY WithoutIs
<1>3. /\ tf' \in States /\ DOMAIN tf' = DOMAIN tf \ {n}
      /\ \A m \in DOMAIN tf \ {n} : tf'[m] = tf[m]
  BY <1>1, <1>2 DEF Delete
<1> DEFINE less == Without(mem[p], n)
<1>4. /\ less \in States /\ DOMAIN less = DOMAIN mem[p] \ {n}
      /\ \A m \in DOMAIN mem[p] \ {n} : less[m] = mem[p][m]
  BY <1>1, <1>2
<1>5. mem' = mem \/ mem' = [mem EXCEPT ![p] = less]
  BY DEF Delete
<1> HIDE DEF less
<1>6. /\ mem' \in [Process -> States] /\ mem'[p] \in {mem[p], less}
      /\ \A q \in Process \ {p} : mem'[q] = mem[q]
  BY <1>1, <1>4, <1>5
<1>7. dropped' = dropped /\ dropped \in [Process -> SUBSET Network] /\ n \notin dropped[p]
  BY DEF Delete, TypeOK
<1> QED BY <1>3, <1>4, <1>6, <1>7 DEF OnlyEntry

\* A handler that has deleted an entry has put it at risk.
LEMMA DeleteEntryIs ==
  ASSUME TypeOK, NEW p \in Process, NEW n \in Network, DeleteEntry(p, n)
  PROVE  /\ mem' \in [Process -> States] /\ \A q \in Process \ {p} : mem'[q] = mem[q]
         /\ DOMAIN mem'[p] = DOMAIN mem[p] \ {n}
         /\ \A m \in DOMAIN mem[p] \ {n} : mem'[p][m] = mem[p][m]
         /\ wrote' \in [Process -> SUBSET Network] /\ wrote'[p] = wrote[p] \cup {n}
         /\ \A q \in Process \ {p} : wrote'[q] = wrote[q]
         /\ dropped' \in [Process -> SUBSET Network] /\ dropped'[p] = dropped[p] \cup {n}
         /\ \A q \in Process \ {p} : dropped'[q] = dropped[q]
         /\ pc[p] = "serving" /\ atRisk' = atRisk \cup {n}
         /\ UNCHANGED <<file, pc, tf, started, crowd, troubled>>
<1>1. mem[p] \in States /\ mem \in [Process -> States]
  BY DEF TypeOK
<1> DEFINE less == Without(mem[p], n)
<1>2. /\ less \in States /\ DOMAIN less = DOMAIN mem[p] \ {n}
      /\ \A m \in DOMAIN mem[p] \ {n} : less[m] = mem[p][m]
  <2>1. ASSUME NEW nets \in States
        PROVE  /\ Without(nets, n) \in States
               /\ DOMAIN Without(nets, n) = DOMAIN nets \ {n}
               /\ \A m \in DOMAIN nets \ {n} : Without(nets, n)[m] = nets[m]
    BY WithoutIs
  <2> QED BY <1>1, <2>1
<1>3. mem' = [mem EXCEPT ![p] = less]
  BY DEF DeleteEntry
<1> HIDE DEF less
<1>4. /\ mem' \in [Process -> States] /\ mem'[p] = less
      /\ \A q \in Process \ {p} : mem'[q] = mem[q]
  BY <1>1, <1>2, <1>3
<1>5. /\ wrote' = [wrote EXCEPT ![p] = wrote[p] \cup {n}]
      /\ dropped' = [dropped EXCEPT ![p] = dropped[p] \cup {n}]
      /\ wrote \in [Process -> SUBSET Network] /\ dropped \in [Process -> SUBSET Network]
  BY DEF DeleteEntry, Begins, TypeOK
<1>6. /\ wrote' \in [Process -> SUBSET Network] /\ wrote'[p] = wrote[p] \cup {n}
      /\ \A q \in Process \ {p} : wrote'[q] = wrote[q]
  BY <1>5
<1>7. /\ dropped' \in [Process -> SUBSET Network] /\ dropped'[p] = dropped[p] \cup {n}
      /\ \A q \in Process \ {p} : dropped'[q] = dropped[q]
  BY <1>5
<1> QED BY <1>2, <1>4, <1>6, <1>7 DEF DeleteEntry, Begins

LEMMA TypeNext == TypeOK /\ [Next]_vars => TypeOK'
<1> SUFFICES ASSUME TypeOK, [Next]_vars PROVE TypeOK'
  OBVIOUS
<1>1. ASSUME NEW p \in Process, Start(p) PROVE TypeOK'
  <2>1. pc' \in [Process -> PC] /\ pc'[p] = "stat" /\ \A q \in Process \ {p} : pc'[q] = pc[q]
    BY <1>1, GoesType, GoesTo DEF Start, PC
  <2>2. /\ mem' \in [Process -> States] /\ mem'[p] = NoNets
        /\ \A q \in Process \ {p} : mem'[q] = mem[q]
    BY <1>1, NoNetsAre DEF Start, TypeOK
  <2>3. /\ wrote' \in [Process -> SUBSET Network] /\ wrote'[p] = {}
        /\ \A q \in Process \ {p} : wrote'[q] = wrote[q]
    BY <1>1 DEF Start, TypeOK
  <2>4. /\ started' \in 0 .. MaxStarts /\ crowd' \subseteq Process /\ atRisk' \subseteq Network
        /\ troubled' \in BOOLEAN /\ UNCHANGED <<file, tf, dropped>> /\ dropped[p] = {}
    BY <1>1, LocalStateAssumption DEF Start, TypeOK, Alive
  <2> QED BY <2>1, <2>2, <2>3, <2>4 DEF TypeOK, PC
<1>2. ASSUME NEW p \in Process, Stat(p) PROVE TypeOK'
  <2>1. PICK next \in {"create", "read"} : Goes(p, next)
    BY <1>2 DEF Stat
  <2>2. pc' \in [Process -> PC] /\ pc'[p] = next /\ \A q \in Process \ {p} : pc'[q] = pc[q]
    BY <2>1, GoesType, GoesTo DEF PC
  <2>3. mem[p] = NoNets /\ wrote[p] = {} /\ dropped[p] = {}
    BY <1>2 DEF Stat, TypeOK
  <2> QED BY <1>2, <2>2, <2>3 DEF Stat, histVars, TypeOK, PC
<1>3. ASSUME NEW p \in Process, ReadFile(p) PROVE TypeOK'
  <2>1. pc' \in [Process -> PC] /\ pc'[p] = "loaded" /\ \A q \in Process \ {p} : pc'[q] = pc[q]
    BY <1>3, GoesType, GoesTo DEF ReadFile, PC
  <2>2. file.nets \in States /\ wrote[p] = {} /\ dropped[p] = {}
    BY <1>3 DEF ReadFile, Parses, TypeOK, FileType
  <2>3. mem' \in [Process -> States] /\ \A q \in Process \ {p} : mem'[q] = mem[q]
    BY <1>3, <2>2 DEF ReadFile, TypeOK
  <2> QED BY <1>3, <2>1, <2>2, <2>3 DEF ReadFile, histVars, TypeOK, PC
<1>4. ASSUME NEW p \in Process, CreateFile(p) PROVE TypeOK'
  <2>1. file' \in FileType /\ wrote[p] = {} /\ Goes(p, "loaded")
        /\ UNCHANGED <<mem, tf, started, wrote, crowd, atRisk, troubled>>
    BY <1>4 DEF CreateFile, histVars, TypeOK, FileType, Text
  <2>2. DropsNone(p)
    BY <1>4, StillNone DEF CreateFile, TypeOK
  <2> QED BY <2>1, <2>2, MovesType DEF TypeOK
<1>5. ASSUME NEW p \in Process, LoadFails(p) \/ Configure(p) \/ ServeReturns(p) PROVE TypeOK'
  <2>1. PICK next \in {"fatal", "serving", "truncate"} : Goes(p, next)
    BY <1>5 DEF LoadFails, Configure, ServeReturns
  <2>2. UNCHANGED <<file, mem, tf, started, wrote, crowd, atRisk, troubled>>
    BY <1>5 DEF LoadFails, Configure, ServeReturns, histVars
  <2>3. DropsNone(p)
    BY <1>5, StillNone DEF LoadFails, Configure, ServeReturns, TypeOK
  <2> QED BY <2>1, <2>2, <2>3, MovesType DEF TypeOK
<1>6. ASSUME NEW p \in Process, Truncate(p) \/ Write(p) PROVE TypeOK'
  <2>1. PICK next \in {"write", "off"} : Goes(p, next)
    BY <1>6 DEF Truncate, Write
  <2>2. UNCHANGED <<mem, tf, started, wrote, crowd, atRisk, troubled>>
    BY <1>6 DEF Truncate, Write, histVars
  <2>3. file' \in FileType
    BY <1>6 DEF Truncate, Write, TypeOK, FileType, Text, Json
  <2>4. DropsNone(p)
    BY <1>6, StillNone DEF Truncate, Write, TypeOK
  <2> QED BY <2>1, <2>2, <2>3, <2>4, MovesType DEF TypeOK
<1>7. ASSUME NEW p \in Process, DebugReturns(p) \/ Kill(p) PROVE TypeOK'
  BY <1>7, UnsavedType DEF DebugReturns, Kill
<1>8. ASSUME NEW p \in Process, NEW n \in Network, Store(p, n) \/ Delete(p, n) PROVE TypeOK'
  BY <1>8, StoreIs, DeleteIs, WritesType DEF Store, Delete
<1>11. ASSUME NEW p \in Process, NEW n \in Network, DeleteEntry(p, n) PROVE TypeOK'
  BY <1>11, DeleteEntryIs DEF TypeOK
<1>9. CASE Remove
  BY <1>9 DEF Remove, TypeOK, FileType, Text
<1>10. CASE UNCHANGED vars
  BY <1>10 DEF vars, histVars, TypeOK
<1> QED BY <1>1, <1>2, <1>3, <1>4, <1>5, <1>6, <1>7, <1>8, <1>9, <1>10, <1>11 DEF Next

\* Every variable keeps its type, for any processes, networks and nodes.
THEOREM TypeCorrect == Spec => []TypeOK
BY TypeInit, TypeNext, PTL DEF Spec

-----------------------------------------------------------------------------
(* What a process that is alone serves.                                    *)

Safe == DOMAIN tf \ atRisk
Holds(nets) == \A n \in Safe : n \in DOMAIN nets /\ nets[n] = tf[n]
Written == UNION {wrote[q] : q \in Alive}

\* Processes that overlap are of the crowd, and what one of them wrote is at risk.
Crowded ==
  /\ \A p, q \in Alive : p # q => p \in crowd
  /\ \A p \in Alive \cap crowd : wrote[p] \subseteq atRisk

\* Every process that has loaded holds the networks that are not at risk, and the
\* file has those that no process has written since it was saved.  A file is not
\* made beside a network that could be lost by it.
Current ==
  /\ \A p \in Process : pc[p] \in {"loaded", "serving", "truncate", "write"} => Holds(mem[p])
  /\ \A p \in Process : pc[p] = "create" => Safe = {}
  /\ file.kind = "absent" => Safe = {} /\ \A p \in Alive : pc[p] \in {"stat", "create"}
  /\ Parses => \A n \in Safe :
                 n \in Written \/ (n \in DOMAIN file.nets /\ file.nets[n] = tf[n])

LEMMA CrowdedNext == TypeOK /\ Crowded /\ [Next]_vars => Crowded'
<1> SUFFICES ASSUME TypeOK, Crowded, [Next]_vars PROVE Crowded'
  OBVIOUS
<1>1. ASSUME NEW p \in Process, Start(p) PROVE Crowded'
  <2>1. Alive' = Alive \cup {p} /\ p \notin Alive
    BY <1>1, GoesTo DEF Start
  <2>2. wrote'[p] = {} /\ \A q \in Process \ {p} : wrote'[q] = wrote[q]
    BY <1>1 DEF Start, TypeOK
  <2>3. crowd' = IF Alive = {} THEN {} ELSE Alive'
    BY <1>1, <2>1 DEF Start
  <2>4. \A q \in Alive : wrote[q] \subseteq atRisk'
    BY <1>1 DEF Start
  <2> QED BY <2>1, <2>2, <2>3, <2>4 DEF Crowded, Alive
<1>2. ASSUME Alive' \subseteq Alive, UNCHANGED <<wrote, crowd>>, atRisk \subseteq atRisk'
      PROVE  Crowded'
  BY <1>2 DEF Crowded
<1>3. ASSUME NEW p \in Process,
             \/ Stat(p) \/ CreateFile(p) \/ ReadFile(p) \/ LoadFails(p) \/ Configure(p)
             \/ ServeReturns(p) \/ DebugReturns(p) \/ Truncate(p) \/ Write(p) \/ Kill(p)
      PROVE  Crowded'
  <2>1. PICK next : Goes(p, next)
    BY <1>3 DEF Stat, CreateFile, ReadFile, LoadFails, Configure, ServeReturns,
       DebugReturns, Truncate, Write, Kill, EndsUnsaved
  <2>2. p \in Alive
    BY <1>3 DEF Stat, CreateFile, ReadFile, LoadFails, Configure, ServeReturns,
       DebugReturns, Truncate, Write, Kill, Alive
  <2>3. Alive' \subseteq Alive
    BY <2>1, <2>2, GoesTo
  <2>4. UNCHANGED <<wrote, crowd>> /\ atRisk \subseteq atRisk'
    BY <1>3 DEF Stat, CreateFile, ReadFile, LoadFails, Configure, ServeReturns,
       DebugReturns, Truncate, Write, Kill, EndsUnsaved, histVars
  <2> QED BY <1>2, <2>3, <2>4
<1>4. ASSUME NEW p \in Process, NEW n \in Network, Store(p, n) \/ Delete(p, n) PROVE Crowded'
  <2>1. Writes(p, n) /\ p \in Alive /\ Alive' = Alive
    BY <1>4 DEF Store, Delete, Alive
  <2>2. /\ wrote'[p] = wrote[p] \cup {n} /\ \A q \in Process \ {p} : wrote'[q] = wrote[q]
        /\ crowd' = crowd
    BY <2>1 DEF Writes, TypeOK
  <2>3. CASE p \in crowd
    <3>1. atRisk' = atRisk \cup {n}
      BY <2>1, <2>3 DEF Writes
    <3> QED BY <2>1, <2>2, <3>1 DEF Crowded, Alive
  <2>4. CASE p \notin crowd
    <3>1. \A q \in Alive : q = p
      BY <2>1, <2>4 DEF Crowded
    <3> QED BY <2>1, <2>2, <2>4, <3>1 DEF Crowded
  <2> QED BY <2>3, <2>4
<1>7. ASSUME NEW p \in Process, NEW n \in Network, DeleteEntry(p, n) PROVE Crowded'
  BY <1>7, DeleteEntryIs DEF Crowded, Alive
<1>5. CASE Remove
  <2>1. Alive' = {}
    BY <1>5 DEF Remove, Alive
  <2> QED BY <2>1 DEF Crowded
<1>6. CASE UNCHANGED vars
  BY <1>2, <1>6 DEF vars, histVars, Alive
<1> QED BY <1>1, <1>3, <1>4, <1>5, <1>6, <1>7 DEF Next

LEMMA CurrentWrites ==
  ASSUME TypeOK, Crowded, Current, NEW p \in Process, NEW n \in Network,
         pc[p] = "serving", Writes(p, n), OnlyEntry(p, n), UNCHANGED <<file, pc>>
  PROVE  Current'
<1>1. p \in Alive /\ Alive' = Alive
  BY DEF Alive
<1>2. /\ wrote'[p] = wrote[p] \cup {n} /\ \A q \in Process \ {p} : wrote'[q] = wrote[q]
  BY DEF Writes, TypeOK
<1>3. Written' = Written \cup {n}
  BY <1>1, <1>2 DEF Written, Alive
<1>4. file.kind # "absent"
  BY <1>1 DEF Current
<1>5. CASE p \in crowd
  <2>1. atRisk' = atRisk \cup {n}
    BY <1>5 DEF Writes
  <2>2. Safe' \subseteq Safe \ {n} /\ \A m \in Safe' : tf'[m] = tf[m]
    BY <2>1 DEF Safe, OnlyEntry
  <2>3. ASSUME NEW q \in Process, Holds(mem[q]) PROVE Holds(mem[q])'
    BY <2>2, <2>3 DEF Holds, OnlyEntry
  <2> QED BY <1>3, <1>4, <2>2, <2>3 DEF Current, Parses
<1>6. CASE p \notin crowd
  <2>1. \A q \in Alive : q = p
    BY <1>1, <1>6 DEF Crowded
  <2>2. \A q \in Process : pc[q] \notin {"off", "fatal"} => q = p
    BY <2>1 DEF Alive
  <2>3. atRisk' = atRisk \ {n}
    BY <1>6 DEF Writes
  <2>4. Safe' \subseteq Safe \cup {n} /\ \A m \in Safe' \ {n} : m \in Safe /\ tf'[m] = tf[m]
    BY <2>3 DEF Safe, OnlyEntry
  <2>5. Holds(mem[p])
    BY DEF Current
  <2>6. Holds(mem[p])'
    BY <2>4, <2>5 DEF Holds, OnlyEntry, Safe
  <2> QED BY <1>3, <1>4, <2>2, <2>4, <2>6 DEF Current, Parses
<1> QED BY <1>5, <1>6

LEMMA CurrentNext == TypeOK /\ Crowded /\ Current /\ [Next]_vars => Current'
<1> SUFFICES ASSUME TypeOK, Crowded, Current, [Next]_vars PROVE Current'
  OBVIOUS
\* A step that writes no entry puts, if anything, more of them at risk.
<1>1. ASSUME UNCHANGED tf, atRisk \subseteq atRisk'
      PROVE  /\ Safe' \subseteq Safe
             /\ \A nets : Holds(nets) => \A n \in Safe' : n \in DOMAIN nets /\ nets[n] = tf'[n]
  BY <1>1 DEF Safe, Holds
<1>2. ASSUME NEW p \in Process, Start(p) PROVE Current'
  <2>1. /\ pc'[p] = "stat" /\ \A q \in Process \ {p} : pc'[q] = pc[q]
        /\ Alive' = Alive \cup {p} /\ p \notin Alive
    BY <1>2, GoesTo DEF Start
  <2>2. /\ \A q \in Process \ {p} : wrote'[q] = wrote[q] /\ mem'[q] = mem[q]
    BY <1>2 DEF Start, TypeOK
  <2>3. UNCHANGED <<file, tf>> /\ atRisk \subseteq atRisk'
    BY <1>2 DEF Start
  <2>4. Written \subseteq Written'
    BY <2>1, <2>2 DEF Written, Alive
  <2>5. \A q \in Process : pc'[q] \in {"loaded", "serving", "truncate", "write"} => Holds(mem[q])'
    BY <1>1, <2>1, <2>2, <2>3 DEF Current, Holds
  <2>6. Safe' \subseteq Safe /\ file' = file /\ tf' = tf
    BY <1>1, <2>3
  <2>7. \A q \in Process : pc'[q] = "create" => Safe' = {}
    BY <2>1, <2>6 DEF Current
  <2>8. file'.kind = "absent" => Safe' = {} /\ \A q \in Alive' : pc'[q] \in {"stat", "create"}
    BY <2>1, <2>6 DEF Current, Alive
  <2>9. Parses' => \A n \in Safe' :
                     n \in Written' \/ (n \in DOMAIN file'.nets /\ file'.nets[n] = tf'[n])
    BY <2>4, <2>6 DEF Current, Parses
  <2> QED BY <2>5, <2>7, <2>8, <2>9 DEF Current
<1>3. ASSUME NEW p \in Process, NEW next, Goes(p, next), p \in Alive,
             UNCHANGED <<file, mem, tf, wrote>>, atRisk \subseteq atRisk',
             next \in {"loaded", "serving", "truncate", "write"} =>
               pc[p] \in {"loaded", "serving", "truncate", "write"},
             next = "create" => Safe = {},
             next \notin {"stat", "create", "off", "fatal"} => file.kind # "absent",
             next \in {"off", "fatal"} => wrote[p] \subseteq atRisk'
      PROVE  Current'
  <2>1. /\ pc'[p] = next /\ \A q \in Process \ {p} : pc'[q] = pc[q]
        /\ Alive' = IF next \in {"off", "fatal"} THEN Alive \ {p} ELSE Alive
    BY <1>3, GoesTo
  <2>2. \A n \in Safe' : n \in Written => n \in Written'
    BY <1>3, <2>1 DEF Written, Safe
  <2>3. \A q \in Process : pc'[q] \in {"loaded", "serving", "truncate", "write"} => Holds(mem[q])'
    BY <1>1, <1>3, <2>1 DEF Current, Holds
  <2> QED BY <1>1, <1>3, <2>1, <2>2, <2>3 DEF Current, Parses, Alive
<1>4. ASSUME NEW p \in Process, Stat(p) PROVE Current'
  <2>1. PICK next \in {"create", "read"} :
          Goes(p, next) /\ (next = "create" <=> file.kind = "absent")
    BY <1>4 DEF Stat
  <2> QED BY <1>3, <1>4, <2>1 DEF Stat, histVars, Alive, Current
<1>5. ASSUME NEW p \in Process, Configure(p) \/ ServeReturns(p) PROVE Current'
  <2>1. PICK next \in {"serving", "truncate"} : Goes(p, next)
    BY <1>5 DEF Configure, ServeReturns
  <2>2. pc[p] \in {"loaded", "serving"} /\ p \in Alive
    BY <1>5 DEF Configure, ServeReturns, Alive
  <2>3. file.kind # "absent"
    BY <2>2 DEF Current
  <2> QED BY <1>3, <1>5, <2>1, <2>2, <2>3 DEF Configure, ServeReturns, histVars
<1>6. ASSUME NEW p \in Process, LoadFails(p) \/ DebugReturns(p) \/ Kill(p) PROVE Current'
  <2>1. PICK next \in {"off", "fatal"} : Goes(p, next)
    BY <1>6 DEF LoadFails, DebugReturns, Kill, EndsUnsaved
  <2>2. /\ p \in Alive /\ UNCHANGED <<file, mem, tf, wrote>> /\ atRisk \subseteq atRisk'
        /\ wrote[p] \subseteq atRisk'
    BY <1>6 DEF LoadFails, DebugReturns, Kill, EndsUnsaved, histVars, Alive, TypeOK
  <2> QED BY <1>3, <2>1, <2>2
<1>7. ASSUME NEW p \in Process, CreateFile(p) PROVE Current'
  <2>1. pc'[p] = "loaded" /\ \A q \in Process \ {p} : pc'[q] = pc[q]
    BY <1>7, GoesTo DEF CreateFile
  <2>2. UNCHANGED <<mem, tf, wrote, atRisk>> /\ Safe = {} /\ Safe' = {}
    BY <1>7 DEF CreateFile, Current, histVars, Safe
  <2>3. file'.kind # "absent"
    BY <1>7 DEF CreateFile, Text
  <2> QED BY <2>1, <2>2, <2>3 DEF Current, Holds
<1>8. ASSUME NEW p \in Process, ReadFile(p) PROVE Current'
  <2>1. /\ pc'[p] = "loaded" /\ \A q \in Process \ {p} : pc'[q] = pc[q]
        /\ p \in Alive /\ Alive' = Alive \cup {p}
    BY <1>8, GoesTo DEF ReadFile, Alive
  <2>2. /\ mem'[p] = file.nets /\ \A q \in Process \ {p} : mem'[q] = mem[q]
        /\ UNCHANGED <<file, tf, wrote, atRisk>> /\ Parses /\ file.kind # "absent"
    BY <1>8 DEF ReadFile, histVars, TypeOK, Parses
  <2>3. Written \subseteq atRisk
    <3> SUFFICES ASSUME NEW q \in Alive PROVE wrote[q] \subseteq atRisk
      BY DEF Written
    <3>1. CASE q = p
      BY <1>8, <3>1 DEF ReadFile, TypeOK
    <3>2. CASE q # p
      BY <2>1, <3>2 DEF Crowded
    <3> QED BY <3>1, <3>2
  <2>4. Holds(file.nets)
    BY <2>2, <2>3 DEF Current, Holds, Safe
  <2>5. Safe' = Safe /\ Written' = Written
    BY <2>1, <2>2 DEF Safe, Written
  <2>6. \A q \in Process : pc'[q] \in {"loaded", "serving", "truncate", "write"} => Holds(mem[q])'
    BY <2>1, <2>2, <2>4, <2>5 DEF Current, Holds
  <2> QED BY <2>1, <2>2, <2>5, <2>6 DEF Current, Parses
<1>9. ASSUME NEW p \in Process, Truncate(p) PROVE Current'
  <2>1. pc'[p] = "write" /\ \A q \in Process \ {p} : pc'[q] = pc[q]
    BY <1>9, GoesTo DEF Truncate
  <2>2. UNCHANGED <<mem, tf, wrote, atRisk>> /\ file'.kind = "empty" /\ pc[p] = "truncate"
    BY <1>9 DEF Truncate, histVars, Text
  <2>3. Safe' = Safe
    BY <2>2 DEF Safe
  <2> QED BY <2>1, <2>2, <2>3 DEF Current, Parses, Holds
<1>10. ASSUME NEW p \in Process, Write(p) PROVE Current'
  <2>1. pc'[p] = "off" /\ \A q \in Process \ {p} : pc'[q] = pc[q]
    BY <1>10, GoesTo DEF Write
  <2>2. /\ UNCHANGED <<mem, tf, wrote, atRisk>> /\ pc[p] = "write"
        /\ file'.kind # "absent"
        /\ file'.kind = "json" => file'.nets = mem[p]
    BY <1>10 DEF Write, histVars, Json, Text
  <2>3. Safe' = Safe /\ Holds(mem[p])
    BY <2>2 DEF Safe, Current
  <2> QED BY <2>1, <2>2, <2>3 DEF Current, Parses, Holds
<1>11. ASSUME NEW p \in Process, NEW n \in Network, Store(p, n) \/ Delete(p, n) PROVE Current'
  BY <1>11, StoreIs, DeleteIs, CurrentWrites DEF Store, Delete
<1>14. ASSUME NEW p \in Process, NEW n \in Network, DeleteEntry(p, n) PROVE Current'
  <2>1. /\ Safe' = Safe \ {n} /\ Alive' = Alive
        /\ UNCHANGED <<file, pc, tf>>
    BY <1>14, DeleteEntryIs DEF Safe, Alive
  <2>2. Written \subseteq Written'
    <3>1. \A q \in Alive : wrote[q] \subseteq wrote'[q]
      BY <1>14, DeleteEntryIs DEF Alive
    <3> QED BY <2>1, <3>1 DEF Written
  <2>3. ASSUME NEW q \in Process, Holds(mem[q]) PROVE Holds(mem[q])'
    <3>1. \A m \in Safe' : m \in DOMAIN mem'[q] /\ mem'[q][m] = mem[q][m]
      BY <1>14, <2>1, <2>3, DeleteEntryIs DEF Holds
    <3> QED BY <2>1, <2>3, <3>1 DEF Holds
  <2> QED BY <2>1, <2>2, <2>3 DEF Current, Parses
<1>12. CASE Remove
  <2>1. Safe' = {} /\ file'.kind = "absent" /\ Alive' = {} /\ pc' = pc
    BY <1>12 DEF Remove, Safe, Text, Alive, TypeOK, States
  <2> QED BY <2>1 DEF Current, Parses, Holds, Alive
<1>13. CASE UNCHANGED vars
  BY <1>13 DEF vars, histVars, Current, Holds, Parses, Safe, Written, Alive
<1> QED BY <1>2, <1>4, <1>5, <1>6, <1>7, <1>8, <1>9, <1>10, <1>11, <1>12, <1>13,
           <1>14 DEF Next

\* A process that serves alone has the subnets of every network as Terraform has
\* them, save for networks a handler is writing, or last written by one that was
\* killed, debugged or not alone.
THEOREM AloneServesCurrent == Spec => []ServesCurrentEntries
<1>1. Init => Crowded /\ Current
  <2> SUFFICES ASSUME Init PROVE Crowded /\ Current
    OBVIOUS
  <2>1. Alive = {} /\ Safe = {} /\ file.kind = "absent" /\ \A p \in Process : pc[p] = "off"
    BY NoNetsAre DEF Init, Alive, Safe, Text
  <2> QED BY <2>1 DEF Crowded, Current, Parses
<1>2. Current => ServesCurrentEntries
  BY DEF Current, Holds, Safe, ServesCurrentEntries
<1>3. Spec => [](TypeOK /\ Crowded /\ Current)
  BY <1>1, TypeInit, TypeNext, CrowdedNext, CurrentNext, PTL DEF Spec
<1> QED BY <1>2, <1>3, PTL

-----------------------------------------------------------------------------
(* What is left of the file between processes.                             *)

Loaded == {"loaded", "serving", "truncate", "write"}

\* While nothing went wrong, at most one process runs, the file is empty only
\* between its Load and its Save, and it writes only what it truncated.
Untouched ==
  ~troubled =>
    /\ \A p, q \in Alive : p = q
    /\ file.kind # "garbled"
    /\ file.kind = "empty" => \E p \in Alive : pc[p] \in Loaded
    /\ \A p \in Process : pc[p] = "write" => file.kind = "empty"

LEMMA UntouchedNext == TypeOK /\ Untouched /\ [Next]_vars => Untouched'
<1> SUFFICES ASSUME TypeOK, Untouched, [Next]_vars, ~troubled' PROVE Untouched'
  BY DEF Untouched
<1>1. ASSUME NEW p \in Process, Start(p) PROVE Untouched'
  <2>1. /\ pc'[p] = "stat" /\ \A q \in Process \ {p} : pc'[q] = pc[q]
        /\ Alive' = Alive \cup {p}
    BY <1>1, GoesTo DEF Start
  <2>2. Alive = {} /\ ~troubled /\ file' = file
    BY <1>1 DEF Start
  <2> QED BY <2>1, <2>2 DEF Untouched
\* The process that takes a step is the only one.
<1>2. ASSUME NEW p \in Process, p \in Alive, NEW next, Goes(p, next), UNCHANGED troubled,
             file'.kind # "garbled",
             file'.kind = "empty" => next \in Loaded,
             next = "write" => file'.kind = "empty"
      PROVE  Untouched'
  <2>1. /\ pc'[p] = next /\ \A q \in Process \ {p} : pc'[q] = pc[q]
        /\ Alive' \subseteq Alive \cup {p}
        /\ next \in Loaded => p \in Alive'
    BY <1>2, GoesTo DEF Loaded
  <2>2. \A q \in Alive : q = p
    BY <1>2 DEF Untouched
  <2>3. \A q \in Process \ {p} : pc'[q] # "write"
    BY <2>1, <2>2 DEF Alive
  <2>4. \A q \in Alive' : q = p
    BY <2>1, <2>2
  <2>5. file'.kind = "empty" => \E q \in Alive' : pc'[q] \in Loaded
    BY <1>2, <2>1
  <2> QED BY <1>2, <2>1, <2>3, <2>4, <2>5 DEF Untouched
<1>3. ASSUME NEW p \in Alive
      PROVE  ~troubled => /\ file.kind # "garbled"
                          /\ file.kind = "empty" => pc[p] \in Loaded
  BY <1>3 DEF Untouched
<1>4. ASSUME NEW p \in Process, Stat(p) PROVE Untouched'
  <2>1. PICK next \in {"create", "read"} : Goes(p, next)
    BY <1>4 DEF Stat
  <2>2. p \in Alive /\ UNCHANGED <<file, troubled>> /\ pc[p] \notin Loaded
    BY <1>4 DEF Stat, Alive, histVars, Loaded
  <2> QED BY <1>2, <1>3, <2>1, <2>2 DEF Loaded
<1>5. ASSUME NEW p \in Process, CreateFile(p) PROVE Untouched'
  <2>1. p \in Alive /\ Goes(p, "loaded") /\ UNCHANGED troubled
        /\ file'.kind \in {"empty", file.kind}
    BY <1>5 DEF CreateFile, Alive, histVars, Text
  <2> QED BY <1>2, <1>3, <2>1 DEF Loaded
<1>6. ASSUME NEW p \in Process, ReadFile(p) PROVE Untouched'
  <2>1. p \in Alive /\ Goes(p, "loaded") /\ UNCHANGED <<file, troubled>>
    BY <1>6 DEF ReadFile, Alive, histVars
  <2> QED BY <1>2, <1>3, <2>1 DEF Loaded
<1>7. ASSUME NEW p \in Process, LoadFails(p) PROVE Untouched'
  <2>1. p \in Alive /\ Goes(p, "fatal") /\ UNCHANGED <<file, troubled>> /\ pc[p] \notin Loaded
    BY <1>7 DEF LoadFails, Alive, histVars, Loaded
  <2> QED BY <1>2, <1>3, <2>1
<1>8. ASSUME NEW p \in Process, Configure(p) \/ ServeReturns(p) PROVE Untouched'
  <2>1. PICK next \in {"serving", "truncate"} : Goes(p, next)
    BY <1>8 DEF Configure, ServeReturns
  <2>2. p \in Alive /\ UNCHANGED <<file, troubled>>
    BY <1>8 DEF Configure, ServeReturns, Alive, histVars
  <2> QED BY <1>2, <1>3, <2>1, <2>2 DEF Loaded
<1>9. ASSUME NEW p \in Process, DebugReturns(p) \/ Kill(p) PROVE FALSE
  BY <1>9 DEF DebugReturns, Kill, EndsUnsaved
<1>10. ASSUME NEW p \in Process, Truncate(p) PROVE Untouched'
  <2>1. p \in Alive /\ Goes(p, "write") /\ UNCHANGED troubled /\ file'.kind = "empty"
    BY <1>10 DEF Truncate, Alive, histVars, Text
  <2> QED BY <1>2, <2>1 DEF Loaded
<1>11. ASSUME NEW p \in Process, Write(p) PROVE Untouched'
  <2>1. p \in Alive /\ Goes(p, "off") /\ UNCHANGED troubled /\ pc[p] = "write"
    BY <1>11 DEF Write, Alive, histVars
  <2>2. file.kind = "empty"
    BY <2>1 DEF Untouched
  <2>3. file'.kind = "json"
    BY <1>11, <2>2 DEF Write, Json
  <2> QED BY <1>2, <2>1, <2>3
<1>12. ASSUME NEW p \in Process, NEW n \in Network,
              DeleteEntry(p, n) \/ Store(p, n) \/ Delete(p, n)
       PROVE  Untouched'
  <2>1. UNCHANGED <<file, pc, troubled>>
    BY <1>12 DEF DeleteEntry, Begins, Store, Delete, Writes
  <2> QED BY <2>1 DEF Untouched, Alive
<1>13. CASE Remove
  <2>1. Alive = {} /\ UNCHANGED <<pc, troubled>> /\ file'.kind = "absent"
    BY <1>13 DEF Remove, Text
  <2>2. Alive' = {} /\ \A p \in Process : pc'[p] # "write"
    BY <2>1 DEF Alive
  <2> QED BY <2>1, <2>2 DEF Untouched
<1>14. CASE UNCHANGED vars
  BY <1>14 DEF vars, histVars, Untouched, Alive
<1> QED BY <1>1, <1>4, <1>5, <1>6, <1>7, <1>8, <1>9, <1>10, <1>11, <1>12, <1>13, <1>14 DEF Next

\* As long as no process was killed, debugged or run beside another, the next one
\* finds a file that it can load, or none.
THEOREM RestIsReadable == Spec => []ReadableAtRest
<1>1. Init => Untouched
  <2> SUFFICES ASSUME Init PROVE Untouched
    OBVIOUS
  <2>1. file.kind = "absent" /\ \A p \in Process : pc[p] = "off"
    BY DEF Init, Text
  <2> QED BY <2>1 DEF Untouched, Alive
<1>2. Untouched => ReadableAtRest
  BY DEF Untouched, ReadableAtRest
<1>3. Spec => [](TypeOK /\ Untouched)
  BY <1>1, TypeInit, TypeNext, UntouchedNext, PTL DEF Spec
<1> QED BY <1>2, <1>3, PTL
=============================================================================
