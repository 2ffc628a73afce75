--------------------------- MODULE Deployment_proofs ---------------------------
(***************************************************************************)
(* Proofs about Deployment: its types, that it accounts for its contracts  *)
(* as Contracts wants, and that what handlers report is so.                *)
(***************************************************************************)
EXTENDS Deployment, TLAPS

LEMMA IdKinds ==
  /\ ContractId \subseteq Int /\ NoId \notin ContractId /\ Gone \notin ContractId
  /\ NoId \in Int /\ Gone \in Int /\ NoId # Gone
BY DeploymentAssumption DEF ContractId, NoId, Gone

LEMMA TypeInit == Init => TypeOK
<1> SUFFICES ASSUME Init PROVE TypeOK
  OBVIOUS
<1>1. ChainType
  BY DeploymentAssumption DEF Init, ChainType
<1>2. StateType
  BY DEF Init, StateType, Wanted, Known, Ids
<1>3. HandlerType
  BY DEF Init, HandlerType, Wanted, Ids
<1> QED BY <1>1, <1>2, <1>3 DEF TypeOK

\* A handler that begins, and one that ends in an error.
LEMMA BeginsType ==
  ASSUME TypeOK, NEW handler \in {"create", "read", "update", "delete"},
         NEW first \in {"load", "cancelOld"}, Begins(handler, first),
         first = "cancelOld" => handler = "update"
  PROVE  TypeOK'
<1>1. ChainType' /\ StateType'
  BY DEF TypeOK, ChainType, StateType, Begins, chainVars, stateVars
<1>2. HandlerType'
  BY DEF TypeOK, HandlerType, StateType, Begins
<1> QED BY <1>1, <1>2 DEF TypeOK

LEMMA FailsType ==
  ASSUME TypeOK, Fails, ChainType', UNCHANGED <<up, config, quiet>>,
         dl' \in [node : Node, version : Version \cup {NoWorkloads},
                  contract : {Gone} \cup ContractId]
  PROVE  TypeOK'
<1>1. StateType'
  <2>1. DOMAIN live' \subseteq ContractId
    BY DeploymentAssumption DEF ChainType, ContractId
  <2> QED BY <2>1 DEF TypeOK, StateType, HandlerType, Fails, stateVars, Wanted, Known
<1>2. HandlerType'
  BY DEF TypeOK, HandlerType, Fails
<1> QED BY <1>1, <1>2 DEF TypeOK

LEMMA CountsType ==
  ASSUME TypeOK, Counts PROVE trouble' \in 0 .. MaxTrouble
BY DeploymentAssumption DEF TypeOK, ChainType, Counts

LEMMA loadedType ==
  ASSUME TypeOK, data.node \in up, step = "load"
  PROVE  loaded \in [node : Node, version : Version \cup {NoWorkloads},
                     contract : {Gone} \cup ContractId]
BY DEF TypeOK, StateType, HandlerType, loaded, data, Wanted, Known, Ids

\* What Deploy does to the chain.
LEMMA DeployType ==
  ASSUME TypeOK, DeployInPlace \/ DeployNew \/ DeployNothing
  PROVE  /\ made' \in 0 .. MaxContract /\ DOMAIN live' \subseteq 1 .. made'
         /\ live' \in [DOMAIN live' -> Wanted]
         /\ dl' \in [node : Node, version : Version \cup {NoWorkloads},
                     contract : {Gone} \cup ContractId]
<1>1. Deployed \in Wanted \/ step # "deploy"
  BY DEF TypeOK, HandlerType, Deployed, Wanted
<1>2. CASE DeployInPlace
  BY <1>1, <1>2 DEF DeployInPlace, TypeOK, ChainType, HandlerType
<1>3. CASE DeployNew
  <2>1. made + 1 \in ContractId /\ made' = made + 1 /\ made' \in 0 .. MaxContract
    BY <1>3, DeploymentAssumption DEF DeployNew, TypeOK, ChainType, ContractId
  <2>2. DOMAIN live' = DOMAIN live \cup {made + 1}
    BY <1>3 DEF DeployNew
  <2>3. DOMAIN live' \subseteq 1 .. made'
    BY <2>1, <2>2 DEF TypeOK, ChainType
  <2>4. live' \in [DOMAIN live' -> Wanted]
    BY <1>1, <1>3, <2>1, <2>2 DEF DeployNew, TypeOK, ChainType
  <2>5. dl' \in [node : Node, version : Version \cup {NoWorkloads},
                 contract : {Gone} \cup ContractId]
    BY <1>3, <2>1 DEF DeployNew, TypeOK, HandlerType
  <2> QED BY <2>1, <2>3, <2>4, <2>5
<1>4. CASE DeployNothing
  BY <1>4 DEF DeployNothing, TypeOK, ChainType, HandlerType, chainVars
<1> QED BY <1>2, <1>3, <1>4

\* What Sync makes of the deployment.
LEMMA SyncIs ==
  ASSUME TypeOK, Sync
  PROVE  /\ dl' \in [node : Node, version : Version \cup {NoWorkloads},
                     contract : {Gone} \cup ContractId]
         /\ dl'.node = dl.node
         /\ dl'.contract = IF dl.contract \in DOMAIN live THEN dl.contract ELSE Gone
         /\ dl.contract \in DOMAIN live =>
              live[dl.contract].node = dl.node /\ dl'.version = live[dl.contract].version
<1>1. dl \in [node : Node, version : Version \cup {NoWorkloads},
             contract : {Gone} \cup ContractId]
  BY DEF TypeOK, HandlerType
<1>2. CASE dl.contract \in DOMAIN live
  <2>1. live[dl.contract] \in Wanted /\ live[dl.contract].node = dl.node
    BY <1>2 DEF Sync, Lives, NodeAnswers, TypeOK, ChainType
  <2>2. dl' = [dl EXCEPT !.version = live[dl.contract].version]
    BY <1>2 DEF Sync, Lives
  <2> QED BY <1>1, <1>2, <2>1, <2>2 DEF Wanted
<1>3. CASE dl.contract \notin DOMAIN live
  <2>1. dl' = [dl EXCEPT !.version = NoWorkloads, !.contract = Gone]
    BY <1>3 DEF Sync, Lives
  <2> QED BY <1>1, <1>3, <2>1
<1> QED BY <1>2, <1>3

LEMMA TypeNext == TypeOK /\ [Next]_vars => TypeOK'
<1> SUFFICES ASSUME TypeOK, [Next]_vars PROVE TypeOK'
  OBVIOUS
<1>1. CASE Create \/ Read \/ Update \/ Delete
  BY <1>1, BeginsType DEF Create, Read, Update, Delete
<1>2. CASE Edit
  BY <1>2 DEF Edit, TypeOK, ChainType, StateType, HandlerType, chainVars,
     stateVars, histVars, opVars
<1>3. ASSUME Counts \/ UNCHANGED trouble, UNCHANGED chainVars
      PROVE  ChainType'
  BY <1>3, CountsType DEF TypeOK, ChainType, chainVars
<1>4. CASE CancelOldFails \/ LoadFails \/ CancelFails
  <2>1. ChainType' /\ Fails /\ UNCHANGED <<up, config, dl, quiet>>
    BY <1>3, <1>4 DEF CancelOldFails, LoadFails, CancelFails
  <2>2. dl' \in [node : Node, version : Version \cup {NoWorkloads},
                 contract : {Gone} \cup ContractId]
    BY <2>1 DEF TypeOK, HandlerType
  <2> QED BY <2>1, <2>2, FailsType
<1>5. CASE DeployFails
  <2>1. ChainType' /\ dl' \in [node : Node, version : Version \cup {NoWorkloads},
                               contract : {Gone} \cup ContractId]
    <3>1. trouble' \in 0 .. MaxTrouble
      BY <1>5, CountsType DEF DeployFails, TypeOK, ChainType
    <3> QED BY <1>5, <3>1, DeployType DEF DeployFails, ChainType
  <2> QED BY <1>5, <2>1, FailsType DEF DeployFails
<1>6. CASE Deploy
  <2>1. ChainType' /\ dl' \in [node : Node, version : Version \cup {NoWorkloads},
                               contract : {Gone} \cup ContractId]
    BY <1>6, DeployType DEF Deploy, ChainType, TypeOK
  <2>2. StateType'
    BY <1>6 DEF Deploy, TypeOK, StateType, stateVars, histVars
  <2>3. op \in {"create", "update"}
    BY <1>6 DEF Deploy, DeployInPlace, DeployNew, TypeOK, HandlerType
  <2>4. HandlerType'
    BY <1>6, <2>1, <2>3 DEF Deploy, Goes, TypeOK, HandlerType
  <2> QED BY <2>1, <2>2, <2>4 DEF TypeOK
<1>7. ASSUME UNCHANGED <<made, trouble>>, NEW c,
             live' = [x \in DOMAIN live \ {c} |-> live[x]]
      PROVE  ChainType'
  BY <1>7 DEF TypeOK, ChainType
<1>8. CASE CancelOld
  <2>1. HandlerType' /\ StateType'
    BY <1>8 DEF CancelOld, Goes, TypeOK, StateType, HandlerType, stateVars, histVars, Ids
  <2> QED BY <1>7, <1>8, <2>1 DEF CancelOld, TypeOK
<1>9. CASE Cancel
  <2>1. HandlerType' /\ StateType'
    BY <1>9 DEF Cancel, Goes, TypeOK, StateType, HandlerType, stateVars, histVars
  <2> QED BY <1>7, <1>9, <2>1 DEF Cancel, TypeOK
<1>10. CASE Load
  <2>1. HandlerType'
    BY <1>10, loadedType DEF Load, loaded, data, Goes, TypeOK, StateType,
       HandlerType, Wanted
  <2>2. StateType'
    BY <1>10 DEF Load, TypeOK, StateType, stateVars, histVars
  <2> QED BY <1>3, <1>10, <2>1, <2>2 DEF Load, TypeOK
<1>11. CASE Sync
  <2>1. HandlerType'
    BY <1>11, SyncIs DEF Sync, Goes, TypeOK, HandlerType
  <2>2. StateType'
    BY <1>11 DEF Sync, TypeOK, StateType, stateVars, histVars
  <2> QED BY <1>3, <1>11, <2>1, <2>2 DEF Sync, TypeOK
<1>12. CASE SyncFails
  <2>1. ChainType' /\ UNCHANGED <<up, config, dl, quiet>>
    BY <1>3, <1>12 DEF SyncFails
  <2>2. dl' \in [node : Node, version : Version \cup {NoWorkloads},
                 contract : {Gone} \cup ContractId]
    BY <2>1 DEF TypeOK, HandlerType
  <2>3. CASE op # "read"
    BY <1>12, <2>1, <2>2, <2>3, FailsType DEF SyncFails
  <2>4. CASE op = "read"
    <3>1. StateType' /\ HandlerType'
      BY <1>12, <2>1, <2>2, <2>4 DEF SyncFails, TypeOK, StateType, HandlerType,
         stateVars, histVars
    <3> QED BY <2>1, <3>1 DEF TypeOK
  <2> QED BY <2>3, <2>4
<1>13. CASE Set
  <2>1. id' \in Ids /\ state' \in Known
    BY <1>13 DEF Set, TypeOK, HandlerType, Ids, Known
  <2>2. HandlerType'
    BY <1>13, <2>1 DEF Set, TypeOK, HandlerType
  <2>3. StateType'
    BY <1>13, <2>1 DEF Set, TypeOK, StateType, histVars
  <2> QED BY <1>3, <1>13, <2>2, <2>3 DEF Set, TypeOK
<1>14. CASE Kill
  <2>1. StateType' /\ HandlerType'
    <3>1. told' \subseteq ContractId
      BY <1>14, DeploymentAssumption DEF Kill, TypeOK, ChainType, StateType, ContractId
    <3> QED BY <1>14, <3>1 DEF Kill, TypeOK, StateType, HandlerType, stateVars
  <2> QED BY <1>3, <1>14, <2>1 DEF Kill, TypeOK
<1>15. CASE Expire
  <2>1. PICK c \in DOMAIN live : live' = [x \in DOMAIN live \ {c} |-> live[x]]
    BY <1>15 DEF Expire
  <2>2. ChainType'
    BY <1>15, <2>1, CountsType DEF Expire, TypeOK, ChainType
  <2>3. StateType'
    BY <1>15 DEF Expire, TypeOK, StateType, stateVars, histVars
  <2>4. HandlerType'
    BY <1>15 DEF Expire, TypeOK, HandlerType, opVars
  <2> QED BY <2>2, <2>3, <2>4 DEF TypeOK
<1>16. CASE Outage
  <2>1. StateType'
    BY <1>16 DEF Outage, TypeOK, StateType, stateVars, histVars
  <2>2. HandlerType'
    BY <1>16 DEF Outage, TypeOK, HandlerType, opVars
  <2> QED BY <1>3, <1>16, <2>1, <2>2 DEF Outage, TypeOK
<1>17. CASE UNCHANGED vars
  BY <1>17 DEF vars, TypeOK, ChainType, StateType, HandlerType, chainVars,
     stateVars, histVars, opVars
<1> QED BY <1>1, <1>2, <1>4, <1>5, <1>6, <1>8, <1>9, <1>10, <1>11, <1>12, <1>13,
           <1>14, <1>15, <1>16, <1>17 DEF Next

\* Every variable keeps its type, whatever fails and whenever the provider dies.
THEOREM TypeCorrect == Spec => []TypeOK
BY TypeInit, TypeNext, PTL DEF Spec

-----------------------------------------------------------------------------
(* The contract of the state.                                              *)

\* A handler at work on a resource whose contract lives still has its id, and
\* works on that contract; a Delete has not cancelled it yet.  No id is ahead of
\* the contracts made, so a contract that is gone does not come back.
Holding ==
  /\ id <= made /\ newId <= made /\ dl.contract <= made
  /\ ~Idle /\ id \in DOMAIN live =>
       /\ newId = id
       /\ step \notin {"load", "cancelOld"} => dl.contract = id
       /\ op = "delete" => step \in {"load", "cancel"}

\* What Deploy does to the contract of the state.
LEMMA DeployHolds ==
  ASSUME TypeOK, Holding, DeployInPlace \/ DeployNew \/ DeployNothing
  PROVE  /\ id <= made' /\ newId <= made' /\ dl'.contract <= made'
         /\ id \in DOMAIN live' =>
              id \in DOMAIN live /\ newId = id /\ dl'.contract = id
<1>1. /\ made \in Nat /\ DOMAIN live \subseteq 1 .. made
      /\ id \in Int /\ newId \in Int /\ dl.contract \in Int
  BY IdKinds, DeploymentAssumption DEF TypeOK, ChainType, StateType, HandlerType, Ids
<1>2. ~Idle /\ step = "deploy"
  BY DEF DeployInPlace, DeployNew, DeployNothing, TypeOK, HandlerType, Idle
<1>3. CASE DeployInPlace
  BY <1>1, <1>2, <1>3 DEF DeployInPlace, Holding
<1>4. CASE DeployNothing
  BY <1>1, <1>2, <1>4 DEF DeployNothing, Holding, chainVars
<1>5. CASE DeployNew
  <2>1. made' = made + 1 /\ DOMAIN live' = DOMAIN live \cup {made + 1}
    BY <1>5 DEF DeployNew
  <2>2. dl'.contract = made + 1
    BY <1>5 DEF DeployNew, TypeOK, HandlerType
  <2>3. id \notin DOMAIN live'
    BY <1>1, <1>2, <1>5, <2>1 DEF DeployNew, Holding
  <2> QED BY <1>1, <2>1, <2>2, <2>3 DEF Holding
<1> QED BY <1>3, <1>4, <1>5

LEMMA HoldingNext == TypeOK /\ Holding /\ [Next]_vars => Holding'
<1> SUFFICES ASSUME TypeOK, Holding, [Next]_vars PROVE Holding'
  OBVIOUS
<1>1. /\ made \in Nat /\ DOMAIN live \subseteq 1 .. made
      /\ id \in Int /\ newId \in Int /\ dl.contract \in Int
      /\ op = "none" <=> step = "none"
  BY IdKinds, DeploymentAssumption DEF TypeOK, ChainType, StateType, HandlerType, Ids
<1>2. ASSUME UNCHANGED <<made, dl>>, id' \in {id, newId}, newId' = newId, Idle'
      PROVE  Holding'
  BY <1>2 DEF Holding
<1>3. CASE Create \/ Read \/ Update \/ Delete
  <2>1. dl'.contract = Gone /\ UNCHANGED <<id, live, made>> /\ newId' = id
    BY <1>3 DEF Create, Read, Update, Delete, Begins, stateVars, histVars, chainVars, TypeOK,
       HandlerType
  <2>2. step' \in {"load", "cancelOld"} /\ (op' = "delete" => step' = "load")
    BY <1>3 DEF Create, Read, Update, Delete, Begins
  <2> QED BY <1>1, <2>1, <2>2 DEF Holding, Gone
<1>4. CASE CancelOldFails \/ LoadFails \/ CancelFails
  BY <1>2, <1>4 DEF CancelOldFails, LoadFails, CancelFails, Fails, chainVars,
     stateVars, histVars, Idle
<1>5. CASE SyncFails
  BY <1>2, <1>5 DEF SyncFails, Fails, chainVars, stateVars, histVars, Idle
<1>6. CASE DeployFails
  <2>1. Idle' /\ id' \in {id, newId} /\ newId' = newId
    BY <1>6 DEF DeployFails, Fails, stateVars, histVars, Idle
  <2> QED BY <1>6, <2>1, DeployHolds DEF DeployFails, Holding
<1>7. CASE Deploy
  BY <1>7, DeployHolds DEF Deploy, DeployInPlace, DeployNew, Goes, Holding, stateVars,
     TypeOK, HandlerType
<1>8. CASE CancelOld
  <2>1. id' = id /\ id \notin DOMAIN live' /\ newId' = NoId /\ UNCHANGED <<made, dl>>
    BY <1>8 DEF CancelOld, stateVars, histVars
  <2> QED BY <1>1, <2>1 DEF Holding, NoId
<1>9. CASE Load
  <2>1. UNCHANGED <<id, newId, live, made, op>> /\ step = "load"
    BY <1>9 DEF Load, stateVars, histVars, chainVars, Goes
  <2>2. dl'.contract = IF newId = NoId THEN Gone ELSE newId
    BY <1>9 DEF Load, loaded
  <2>3. op' = "delete" => step' = "cancel"
    BY <1>9 DEF Load, Goes
  <2>4. id \in DOMAIN live => id # NoId
    BY <1>1 DEF NoId
  <2> QED BY <1>1, <2>1, <2>2, <2>3, <2>4 DEF Holding, Idle, Gone, TypeOK, HandlerType
<1>10. CASE Cancel
  <2>1. id \notin DOMAIN live'
    BY <1>1, <1>10 DEF Cancel, Holding, Idle
  <2> QED BY <1>10, <2>1 DEF Cancel, Holding, stateVars, histVars
<1>11. CASE Sync
  <2>1. UNCHANGED <<id, newId, live, made, op>> /\ step = "sync" /\ step' = "set"
    BY <1>11 DEF Sync, stateVars, histVars, chainVars, Goes
  <2>2. dl'.contract = IF dl.contract \in DOMAIN live THEN dl.contract ELSE Gone
    BY <1>11, SyncIs
  <2> QED BY <1>1, <2>1, <2>2 DEF Holding, Idle, Gone
<1>12. CASE Set
  <2>1. id' = newId' /\ id' \in {NoId, dl.contract} /\ UNCHANGED <<made, dl>> /\ Idle'
    BY <1>12 DEF Set, chainVars, Idle
  <2> QED BY <1>1, <2>1 DEF Holding, NoId
<1>13. CASE Expire
  <2>1. DOMAIN live' \subseteq DOMAIN live /\ UNCHANGED <<id, newId, made, dl, op, step>>
    BY <1>13 DEF Expire, stateVars, histVars, opVars
  <2> QED BY <2>1 DEF Holding, Idle
<1>14. CASE Kill
  BY <1>2, <1>14 DEF Kill, stateVars, histVars, chainVars, Idle
<1>15. CASE Edit \/ Outage \/ UNCHANGED vars
  BY <1>15 DEF Edit, Outage, vars, stateVars, histVars, chainVars, opVars, Holding, Idle
<1> QED BY <1>3, <1>4, <1>5, <1>6, <1>7, <1>8, <1>9, <1>10, <1>11, <1>12, <1>13,
           <1>14, <1>15 DEF Next

LEMMA HoldingInit == Init => Holding
<1>1. ASSUME Init PROVE dl.contract = Gone
  BY <1>1 DEF Init
<1> QED BY <1>1 DEF Init, Holding, Idle, NoId, Gone

LEMMA NeverForgetsNext ==
  ASSUME TypeOK, Holding, [Next]_vars, id' # id
  PROVE  id \notin DOMAIN live'
<1>1. CASE Set
  <2>1. id \notin DOMAIN live
    BY <1>1 DEF Set, Holding, Idle, TypeOK, HandlerType
  <2> QED BY <1>1, <2>1 DEF Set, chainVars
<1>2. CASE CancelOldFails \/ LoadFails \/ CancelFails \/ SyncFails
  <2>1. id' = newId /\ ~Idle /\ live' = live
    BY <1>2 DEF CancelOldFails, LoadFails, CancelFails, SyncFails, Fails, stateVars, histVars,
       chainVars, Idle, TypeOK, HandlerType
  <2> QED BY <2>1 DEF Holding
<1>3. CASE DeployFails
  <2>1. id' = newId
    BY <1>3 DEF DeployFails, Fails, stateVars, histVars
  <2> QED BY <1>3, <2>1, DeployHolds DEF DeployFails
<1>4. CASE \/ Edit \/ Create \/ Read \/ Update \/ Delete \/ CancelOld \/ Load
           \/ Deploy \/ Cancel \/ Sync \/ Kill \/ Expire \/ Outage \/ UNCHANGED vars
  BY <1>4 DEF Edit, Create, Read, Update, Delete, Begins, CancelOld, Load, Deploy,
     Cancel, Sync, Kill, Expire, Outage, vars, stateVars, histVars
<1> QED BY <1>1, <1>2, <1>3, <1>4 DEF Next

\* The id of the resource is replaced or cleared only once its contract is gone.
THEOREM NeverForgets == Spec => NeverForgetsLive
<1>1. TypeOK /\ Holding /\ [Next]_vars =>
        [(id \in ContractId /\ id' # id) => id \notin DOMAIN live']_vars
  BY NeverForgetsNext
<1> QED BY <1>1, TypeCorrect, HoldingInit, HoldingNext, PTL DEF Spec, NeverForgetsLive

-----------------------------------------------------------------------------
(* The contracts, accounted for.                                           *)

\* What no error or kill has told of is the contract the state names, or the one
\* a Create or Update is about to record.
Accounted ==
  DOMAIN live \subseteq told \cup IF step \in {"sync", "set"} /\ op \in {"create", "update"}
                                  THEN {dl.contract} ELSE Recorded

\* A handler that returns an error.
LEMMA FailsAccounted ==
  ASSUME Accounted, Fails, op # "none", DOMAIN live' \subseteq DOMAIN live
                                          \/ op \in {"create", "update"}
  PROVE  Accounted' /\ told \subseteq told'
<1>1. op' = "none" /\ step' = "none"
  BY DEF Fails
<1>2. CASE op \in {"create", "update"}
  BY <1>1, <1>2 DEF Fails, Accounted
<1>3. CASE op \notin {"create", "update"}
  BY <1>1, <1>3 DEF Fails, Accounted, Recorded, stateVars
<1> QED BY <1>2, <1>3

LEMMA AccountedNext == TypeOK /\ Holding /\ Accounted /\ [Next]_vars => Accounted'
<1> SUFFICES ASSUME TypeOK, Holding, Accounted, [Next]_vars PROVE Accounted'
  OBVIOUS
<1>1. /\ op = "none" <=> step = "none"
      /\ op \in {"none", "create", "read", "update", "delete"}
      /\ DOMAIN live \subseteq ContractId /\ NoId \notin ContractId
      /\ step \in {"cancelOld", "deploy"} => op \in {"create", "update"}
      /\ step = "cancel" => op = "delete"
  BY IdKinds, DeploymentAssumption DEF TypeOK, ChainType, HandlerType, ContractId
\* Steps with nothing recorded, or about to be, that was not.
<1>2. ASSUME DOMAIN live' \subseteq DOMAIN live, id' = id, told \subseteq told',
             step \notin {"sync", "set"} \/ op \notin {"create", "update"},
             step' \notin {"sync", "set"} \/ op' \notin {"create", "update"}
      PROVE  Accounted'
  BY <1>2 DEF Accounted, Recorded
<1>3. CASE Create \/ Read \/ Update \/ Delete
  BY <1>1, <1>2, <1>3 DEF Create, Read, Update, Delete, Begins, Idle, stateVars, chainVars
<1>4. CASE CancelOldFails \/ LoadFails \/ CancelFails \/ (SyncFails /\ op # "read")
  BY <1>1, <1>4, FailsAccounted DEF CancelOldFails, LoadFails, CancelFails, SyncFails,
     chainVars
<1>5. CASE SyncFails /\ op = "read"
  BY <1>2, <1>5 DEF SyncFails, chainVars, stateVars
<1>6. CASE DeployFails
  BY <1>1, <1>6, FailsAccounted DEF DeployFails, DeployInPlace, DeployNew, DeployNothing
<1>7. CASE Deploy
  <2>1. /\ step = "deploy" /\ step' = "sync" /\ op \in {"create", "update"}
        /\ UNCHANGED <<op, told, id>>
    BY <1>1, <1>7 DEF Deploy, DeployInPlace, DeployNew, Goes, histVars, stateVars
  <2>2. DOMAIN live' \subseteq DOMAIN live \cup {dl'.contract}
    <3>1. CASE DeployInPlace
      BY <3>1 DEF DeployInPlace
    <3>2. CASE DeployNew
      BY <3>2 DEF DeployNew, TypeOK, HandlerType
    <3> QED BY <1>7, <3>1, <3>2 DEF Deploy
  <2>3. id \in DOMAIN live' => dl'.contract = id
    BY <1>7, DeployHolds DEF Deploy
  <2> QED BY <2>1, <2>2, <2>3 DEF Accounted, Recorded
<1>8. CASE CancelOld \/ Load \/ Cancel
  <2>1. DOMAIN live' \subseteq DOMAIN live /\ UNCHANGED <<id, op, told>>
    BY <1>8 DEF CancelOld, Load, Cancel, Goes, chainVars, stateVars, histVars
  <2>2. /\ step \notin {"sync", "set"}
        /\ step' = "sync" => op \in {"read", "delete"} /\ step' # "set"
    BY <1>1, <1>8 DEF CancelOld, Load, Cancel, Goes
  <2>3. step' # "set"
    BY <1>8 DEF CancelOld, Load, Cancel, Goes
  <2> QED BY <1>2, <2>1, <2>2, <2>3
<1>9. CASE Sync
  <2>1. /\ step = "sync" /\ step' = "set" /\ UNCHANGED <<live, id, op, told>>
        /\ dl.contract \in DOMAIN live => dl'.contract = dl.contract
    BY <1>9, SyncIs DEF Sync, Goes, chainVars, stateVars, histVars
  <2> QED BY <2>1 DEF Accounted, Recorded
<1>10. CASE Set
  <2>1. /\ step = "set" /\ op # "none" /\ op' = "none" /\ UNCHANGED <<live, told>>
        /\ id' = IF op = "delete" THEN NoId ELSE dl.contract
    BY <1>1, <1>10 DEF Set, chainVars, histVars
  <2>2. id \in DOMAIN live => dl.contract = id /\ op # "delete"
    BY <2>1 DEF Holding, Idle
  <2> QED BY <1>1, <2>1, <2>2 DEF Accounted, Recorded
<1>11. CASE Kill
  BY <1>11 DEF Kill, Accounted, Recorded, chainVars
<1>12. CASE Expire
  BY <1>12 DEF Expire, Accounted, Recorded, stateVars, opVars
<1>13. CASE Edit \/ Outage \/ UNCHANGED vars
  BY <1>13 DEF Edit, Outage, vars, chainVars, stateVars, opVars, histVars, Accounted, Recorded
<1> QED BY <1>3, <1>4, <1>5, <1>6, <1>7, <1>8, <1>9, <1>10, <1>11, <1>12, <1>13 DEF Next

LEMMA AllAccounted == Spec => [](TypeOK /\ Holding /\ Accounted)
<1>1. Init => Accounted
  BY DEF Init, Accounted
<1> QED BY <1>1, TypeInit, TypeNext, HoldingInit, HoldingNext, AccountedNext, PTL DEF Spec

\* At rest, a contract that lives and that the state does not name is one there was
\* when an apply failed or a handler was killed.
THEOREM NoSilentOrphans == Spec => []OrphansAreReported
<1>1. TypeOK /\ Accounted => OrphansAreReported
  BY DEF Accounted, OrphansAreReported, TypeOK, HandlerType, Idle
<1> QED BY <1>1, AllAccounted, PTL

LEMMA LedgerInit == Init => Ledger!Init
BY IdKinds DEF Init, Ledger!Init, Recorded, Idle

LEMMA LedgerNext ==
  TypeOK /\ Holding /\ Accounted /\ Accounted' /\ [Next]_vars => [Ledger!Next]_(Ledger!vars)
<1> SUFFICES ASSUME TypeOK, Holding, Accounted, Accounted', [Next]_vars
             PROVE  [Ledger!Next]_(Ledger!vars)
  OBVIOUS
<1>1. /\ made \in Nat /\ (op = "none" <=> step = "none")
      /\ step \in {"cancelOld", "deploy"} => op \in {"create", "update"}
  BY DeploymentAssumption DEF TypeOK, ChainType, HandlerType
<1>2. ASSUME made' = made, DOMAIN live' \subseteq DOMAIN live PROVE Ledger!Changes
  BY <1>1, <1>2 DEF Ledger!Changes
<1>3. ASSUME DeployInPlace \/ DeployNew \/ DeployNothing PROVE Ledger!Changes
  BY <1>1, <1>3 DEF DeployInPlace, DeployNew, DeployNothing, chainVars, Ledger!Changes
<1>4. CASE Create \/ Read \/ Update \/ Delete
  <2>1. PICK handler, first : Begins(handler, first) /\ handler # "none"
    BY <1>4 DEF Create, Read, Update, Delete
  <2>2. Ledger!Begin
    BY <2>1 DEF Begins, Ledger!Begin, Idle, Recorded, chainVars, stateVars
  <2> QED BY <2>2 DEF Ledger!Next
<1>5. CASE CancelOld \/ Load \/ Deploy \/ Cancel \/ Sync
  <2>1. Ledger!Changes
    BY <1>2, <1>3, <1>5 DEF CancelOld, Load, Deploy, Cancel, Sync, chainVars
  <2>2. op # "none" /\ UNCHANGED <<op, id, told>>
    BY <1>1, <1>5 DEF CancelOld, Load, Deploy, DeployInPlace, DeployNew, Cancel, Sync, Goes,
       stateVars, histVars
  <2>3. Ledger!Work
    BY <2>1, <2>2 DEF Ledger!Work, Idle, Recorded
  <2> QED BY <2>3 DEF Ledger!Next
<1>6. ASSUME op # "none", op' = "none", step' = "none", Ledger!Changes, told \subseteq told'
      PROVE  [Ledger!Next]_(Ledger!vars)
  <2>1. DOMAIN live' \subseteq Recorded' \cup told'
    BY <1>6 DEF Accounted
  <2>2. Recorded \cap DOMAIN live' \subseteq Recorded'
    BY NeverForgetsNext DEF Recorded
  <2>3. Ledger!Return
    BY <1>6, <2>1, <2>2 DEF Ledger!Return, Idle
  <2> QED BY <2>3 DEF Ledger!Next
<1>7. CASE CancelOldFails \/ LoadFails \/ CancelFails \/ SyncFails
  <2>1. /\ UNCHANGED chainVars /\ op # "none" /\ op' = "none" /\ step' = "none"
        /\ told \subseteq told'
    BY <1>1, <1>7 DEF CancelOldFails, LoadFails, CancelFails, SyncFails, Fails
  <2> QED BY <1>2, <1>6, <2>1 DEF chainVars
<1>8. CASE DeployFails
  <2>1. Ledger!Changes /\ op # "none" /\ Fails
    BY <1>1, <1>3, <1>8 DEF DeployFails, DeployInPlace, DeployNew, DeployNothing
  <2> QED BY <1>6, <2>1 DEF Fails
<1>9. CASE Set
  BY <1>1, <1>2, <1>6, <1>9 DEF Set, chainVars, histVars
<1>10. CASE Kill
  BY <1>2, <1>6, <1>10 DEF Kill, Idle, chainVars
<1>11. CASE Expire
  <2>1. DOMAIN live' \subseteq DOMAIN live
    BY <1>11 DEF Expire
  <2>2. Ledger!Expire
    BY <1>11, <2>1 DEF Expire, Ledger!Expire, Recorded, Idle, stateVars, opVars
  <2> QED BY <2>2 DEF Ledger!Next
<1>12. CASE Edit \/ Outage \/ UNCHANGED vars
  BY <1>12 DEF Edit, Outage, vars, chainVars, stateVars, opVars, histVars, Ledger!vars,
     Recorded, Idle
<1> QED BY <1>4, <1>5, <1>7, <1>8, <1>9, <1>10, <1>11, <1>12 DEF Next

\* The handlers implement Contracts: whatever fails or is killed, the state lets go
\* of no contract that lives, and at rest every contract is accounted for.
THEOREM DeploymentImplementsContracts == Spec => ImplementsContracts
BY AllAccounted, LedgerInit, LedgerNext, PTL DEF Spec, ImplementsContracts, Ledger!Spec

-----------------------------------------------------------------------------
(* What a handler reports.                                                 *)

\* What is deployed is what the user wants; a handler that has deployed it finds
\* it, unless it expired, and what is about to be set is what is there.
Settling ==
  /\ ~Idle => last = "none"
  /\ step = "deploy" => Deployed = config
  /\ (step \in {"sync", "set"} /\ op \in {"create", "update"} /\ quiet) =>
       dl.contract \in DOMAIN live /\ live[dl.contract] = config
  /\ (step = "set" /\ quiet) =>
       IF dl.contract \in DOMAIN live THEN live[dl.contract] = Deployed
       ELSE dl.contract = Gone
  /\ AppliedIsDeployed /\ RefreshIsTruth

LEMMA SettlingInit == Init => Settling
BY DEF Init, Settling, Idle, AppliedIsDeployed, RefreshIsTruth

LEMMA SettlingNext == TypeOK /\ Settling /\ [Next]_vars => Settling'
<1> SUFFICES ASSUME TypeOK, Settling, [Next]_vars PROVE Settling'
  OBVIOUS
<1>1. /\ op = "none" <=> step = "none"
      /\ step = "deploy" => op \in {"create", "update"}
      /\ config \in Wanted /\ dl.contract \in {Gone} \cup ContractId
      /\ DOMAIN live \subseteq ContractId /\ Gone \notin ContractId
  BY IdKinds, DeploymentAssumption DEF TypeOK, ChainType, StateType, HandlerType, ContractId
\* A step after which no handler is at work, and nothing was reported.
<1>2. ASSUME step' = "none", op' = "none", last' \notin {"applied", "refreshed"}
      PROVE  Settling'
  BY <1>2 DEF Settling, Idle, AppliedIsDeployed, RefreshIsTruth
\* A step of a handler to a call it has not to prepare.
<1>3. ASSUME step' \in {"load", "cancelOld", "cancel"}, last' = "none" PROVE Settling'
  BY <1>3 DEF Settling, AppliedIsDeployed, RefreshIsTruth
<1>4. CASE Create \/ Read \/ Update \/ Delete
  BY <1>3, <1>4 DEF Create, Read, Update, Delete, Begins
<1>5. CASE CancelOldFails \/ LoadFails \/ DeployFails \/ CancelFails \/ SyncFails \/ Kill
  BY <1>2, <1>5 DEF CancelOldFails, LoadFails, DeployFails, CancelFails, SyncFails, Kill, Fails
<1>6. CASE CancelOld
  BY <1>1, <1>3, <1>6 DEF CancelOld, Goes, Settling, Idle
<1>7. CASE Load
  <2>1. UNCHANGED <<live, config, op, last, quiet>> /\ last = "none"
    BY <1>1, <1>7 DEF histVars, Load, Goes, chainVars, Settling, Idle
  <2>2. CASE step' = "deploy"
    <3>1. op \in {"create", "update"}
      BY <1>1, <1>7, <2>2 DEF Load, Goes, TypeOK, HandlerType
    <3>2. dl'.node = config.node /\ dl'.version = config.version
      BY <1>7, <3>1 DEF Load, loaded, data
    <3>3. Deployed' = config
      BY <1>1, <3>2 DEF Deployed, Wanted
    <3> QED BY <2>1, <2>2, <3>3 DEF Settling, Idle, AppliedIsDeployed, RefreshIsTruth
  <2>3. CASE step' # "deploy"
    <3>1. step' \in {"sync", "cancel"} /\ (step' = "sync" => op \notin {"create", "update"})
      BY <1>1, <1>7, <2>3 DEF Load, Goes, TypeOK, HandlerType
    <3> QED BY <2>1, <3>1 DEF Settling, Idle, AppliedIsDeployed, RefreshIsTruth
  <2> QED BY <2>2, <2>3
<1>8. CASE Deploy
  <2>1. step = "deploy" /\ Deployed = config /\ last = "none" /\ op # "none"
    BY <1>1, <1>8 DEF Deploy, DeployInPlace, DeployNew, Settling, Idle
  <2>2. /\ UNCHANGED <<config, op, last, quiet>> /\ step' = "sync"
    BY <1>8 DEF histVars, Deploy, Goes
  <2>3. dl'.contract \in DOMAIN live' /\ live'[dl'.contract] = config
    <3>1. CASE DeployInPlace
      BY <2>1, <3>1 DEF DeployInPlace, TypeOK, ChainType
    <3>2. CASE DeployNew
      <4>1. dl'.contract = made'
        BY <3>2 DEF DeployNew, TypeOK, HandlerType
      <4> QED BY <2>1, <3>2, <4>1 DEF DeployNew
    <3> QED BY <1>8, <3>1, <3>2 DEF Deploy
  <2> QED BY <2>1, <2>2, <2>3 DEF Settling, Idle, AppliedIsDeployed, RefreshIsTruth
<1>9. CASE Cancel
  <2>1. op = "delete" /\ op' = "delete" /\ step' = "sync" /\ last' = "none"
    BY <1>1, <1>9 DEF Cancel, Goes, TypeOK, HandlerType, Settling, Idle
  <2> QED BY <2>1 DEF Settling, Idle, AppliedIsDeployed, RefreshIsTruth
<1>10. CASE Sync
  <2>1. /\ step = "sync" /\ step' = "set" /\ last' = "none"
        /\ UNCHANGED <<live, config, op, quiet>>
    BY <1>1, <1>10 DEF histVars, Sync, Goes, chainVars, Settling, Idle
  <2>2. CASE dl.contract \in DOMAIN live
    <3>1. live[dl.contract] \in Wanted
      BY <2>2 DEF TypeOK, ChainType
    <3>2. dl'.contract = dl.contract /\ Deployed' = live[dl.contract]
      BY <1>10, <2>2, <3>1, SyncIs DEF Deployed, Wanted
    <3> QED BY <2>1, <2>2, <3>2 DEF Settling, Idle, AppliedIsDeployed, RefreshIsTruth
  <2>3. CASE dl.contract \notin DOMAIN live
    <3>1. dl'.contract = Gone /\ Gone \notin DOMAIN live
      BY <1>1, <1>10, <2>3, SyncIs
    <3> QED BY <2>1, <2>3, <3>1 DEF Settling, Idle, AppliedIsDeployed, RefreshIsTruth
  <2> QED BY <2>2, <2>3
<1>11. CASE Set
  <2>1. /\ step = "set" /\ op \in {"create", "read", "update", "delete"}
        /\ step' = "none" /\ op' = "none" /\ UNCHANGED <<live, config, quiet>>
        /\ state' = Deployed /\ (op # "delete" => id' = dl.contract)
        /\ (last' = "applied" => op \in {"create", "update"})
        /\ (last' = "refreshed" => op = "read")
    BY <1>1, <1>11 DEF histVars, Set, chainVars, Deployed, TypeOK, HandlerType
  <2>2. AppliedIsDeployed'
    BY <2>1 DEF Settling, AppliedIsDeployed
  <2>3. RefreshIsTruth'
    BY <2>1 DEF Settling, RefreshIsTruth
  <2> QED BY <2>1, <2>2, <2>3 DEF Settling, Idle
<1>12. CASE Expire
  <2>1. quiet' = FALSE /\ UNCHANGED <<config, op, step, dl, last>>
    BY <1>12 DEF Expire, opVars
  <2> QED BY <2>1 DEF Settling, Idle, Deployed, AppliedIsDeployed, RefreshIsTruth
<1>13. CASE Edit
  <2>1. op = "none" /\ step = "none" /\ UNCHANGED <<op, step>> /\ last' = "none"
    BY <1>1, <1>13 DEF Edit, Idle, opVars
  <2> QED BY <2>1, <1>2
<1>14. CASE Outage \/ UNCHANGED vars
  <2>1. UNCHANGED <<live, config, id, state, op, step, dl, last, quiet>>
    BY <1>14 DEF Outage, vars, chainVars, stateVars, histVars, opVars
  <2> QED BY <2>1 DEF Settling, Idle, Deployed, AppliedIsDeployed, RefreshIsTruth
<1> QED BY <1>4, <1>5, <1>6, <1>7, <1>8, <1>9, <1>10, <1>11, <1>12, <1>13, <1>14 DEF Next

LEMMA SettlingKept == Spec => []Settling
BY SettlingInit, SettlingNext, TypeCorrect, PTL DEF Spec

\* An apply that reports success has deployed what the user asked for.
THEOREM AppliesDeploy == Spec => []AppliedIsDeployed
<1>1. Settling => AppliedIsDeployed
  BY DEF Settling
<1> QED BY <1>1, SettlingKept, PTL

\* A Read without a warning shows the deployment as it is.
THEOREM RefreshesShow == Spec => []RefreshIsTruth
<1>1. Settling => RefreshIsTruth
  BY DEF Settling
<1> QED BY <1>1, SettlingKept, PTL
===============================================================================
