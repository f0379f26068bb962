------------------------ MODULE PeerConnectionsProofs ------------------------
(***************************************************************************)
(* Proofs about PeerConnections for every value of the constants: the type *)
(* invariant, and that no peer of the peer list ever loses its last        *)
(* connection.                                                             *)
(***************************************************************************)
EXTENDS PeerConnections, FiniteSetTheorems, TLAPS

USE ConstAssumption

(***************************************************************************)
(* Type correctness.                                                       *)
(***************************************************************************)

LEMMA CapsType == InCap \in Nat /\ PingCap \in Nat /\ InvCap \in Nat
BY DEF InCap, PingCap, InvCap

LEMMA OlderType ==
    ASSUME NEW cap \in Nat, NEW x \in 0..cap
    PROVE  Older(x, cap) \in 0..cap
BY DEF Older

(* The connection operations keep the connection state well typed. *)
LEMMA InvalidateType ==
    ASSUME TypeOK, NEW p \in PeerObjs, NEW a \in Paths,
           invalidateActiveConnection(p, a)
    PROVE  /\ active' \in [PeerObjs -> SUBSET Paths]
           /\ inactive' \in [PeerObjs -> SUBSET Paths]
           /\ status' \in [PeerObjs -> [Paths -> Statuses]]
           /\ ageInv' \in [PeerObjs -> [Paths -> 0..InvCap]]
<1>1. CASE a \in active[p]
  <2>1. /\ active' = [active EXCEPT ![p] = @ \ {a}]
        /\ inactive' = [inactive EXCEPT ![p] = @ \cup {a}]
        /\ status' = [status EXCEPT ![p][a] = "Inactive"]
        /\ ageInv' = [ageInv EXCEPT ![p][a] = 0]
    BY <1>1 DEF invalidateActiveConnection
  <2>2. active' \in [PeerObjs -> SUBSET Paths] /\ inactive' \in [PeerObjs -> SUBSET Paths]
    BY <2>1 DEF TypeOK, VarTypes
  <2>3. status' \in [PeerObjs -> [Paths -> Statuses]]
    BY <2>1 DEF TypeOK, VarTypes, Statuses
  <2>4. ageInv' \in [PeerObjs -> [Paths -> 0..InvCap]]
    BY <2>1, CapsType DEF TypeOK, VarTypes
  <2>. QED
    BY <2>2, <2>3, <2>4
<1>2. CASE a \notin active[p]
  BY <1>2 DEF invalidateActiveConnection, TypeOK, VarTypes
<1>. QED
  BY <1>1, <1>2

LEMMA SendPingType ==
    ASSUME TypeOK, NEW p \in PeerObjs, NEW a \in Paths, sendPing(p, a)
    PROVE  /\ active' \in [PeerObjs -> SUBSET Paths]
           /\ inactive' \in [PeerObjs -> SUBSET Paths]
           /\ status' \in [PeerObjs -> [Paths -> Statuses]]
           /\ ageIn' \in [PeerObjs -> [Paths -> 0..InCap]]
           /\ agePing' \in [PeerObjs -> [Paths -> 0..PingCap]]
           /\ ageInv' \in [PeerObjs -> [Paths -> 0..InvCap]]
<1>1. PICK fatal \in SendOutcomes :
        IF fatal /\ status[p][a] \in {"Active", "Redundant"}
        THEN /\ invalidateActiveConnection(p, a)
             /\ agePing' = [agePing EXCEPT ![p][a] = 0]
             /\ UNCHANGED ageIn
        ELSE /\ agePing' = [agePing EXCEPT ![p][a] = 0]
             /\ UNCHANGED <<active, inactive, status, ageIn, ageInv>>
  BY DEF sendPing
<1>2. agePing' \in [PeerObjs -> [Paths -> 0..PingCap]]
  BY <1>1, CapsType DEF TypeOK, VarTypes
<1>3. CASE fatal /\ status[p][a] \in {"Active", "Redundant"}
  BY <1>1, <1>2, <1>3, InvalidateType DEF TypeOK, VarTypes
<1>4. CASE ~(fatal /\ status[p][a] \in {"Active", "Redundant"})
  BY <1>1, <1>2, <1>4 DEF TypeOK, VarTypes
<1>. QED
  BY <1>3, <1>4

LEMMA RegisterType ==
    ASSUME TypeOK, NEW p \in PeerObjs, NEW a \in Paths, registerConnection(p, a)
    PROVE  /\ active' \in [PeerObjs -> SUBSET Paths]
           /\ inactive' \in [PeerObjs -> SUBSET Paths]
           /\ status' \in [PeerObjs -> [Paths -> Statuses]]
           /\ ageIn' \in [PeerObjs -> [Paths -> 0..InCap]]
           /\ agePing' \in [PeerObjs -> [Paths -> 0..PingCap]]
           /\ ageInv' \in [PeerObjs -> [Paths -> 0..InvCap]]
BY CapsType DEF registerConnection, TypeOK, VarTypes, Statuses

LEMMA PeerlistAddType ==
    ASSUME TypeOK, NEW k \in Keys, NEW a \in Paths, PeerlistAdd(k, a)
    PROVE  /\ registry' \in [Keys -> PeerObjs \cup {None}]
           /\ active' \in [PeerObjs -> SUBSET Paths]
           /\ inactive' \in [PeerObjs -> SUBSET Paths]
           /\ status' \in [PeerObjs -> [Paths -> Statuses]]
           /\ ageIn' \in [PeerObjs -> [Paths -> 0..InCap]]
           /\ agePing' \in [PeerObjs -> [Paths -> 0..PingCap]]
           /\ ageInv' \in [PeerObjs -> [Paths -> 0..InvCap]]
<1>1. CASE registry[k] # None /\ UNCHANGED <<registry, active, inactive, connVars>>
  BY <1>1 DEF TypeOK, VarTypes, connVars
<1>2. CASE registry[k] = None
  <2>1. PICK p \in PeerObjs \ Referenced :
            /\ registry' = [registry EXCEPT ![k] = p]
            /\ active' = [active EXCEPT ![p] = {a}]
            /\ inactive' = [inactive EXCEPT ![p] = {}]
            /\ status' = [status EXCEPT ![p][a] = "Active"]
            /\ ageIn' = [ageIn EXCEPT ![p][a] = 0]
            /\ agePing' = [agePing EXCEPT ![p][a] = PingCap]
            /\ ageInv' = [ageInv EXCEPT ![p][a] = InvCap]
    BY <1>2 DEF PeerlistAdd
  <2>. QED
    BY <2>1, CapsType DEF TypeOK, VarTypes, Statuses
<1>. QED
  BY <1>1, <1>2 DEF PeerlistAdd

(* The connection operations keep each connection in the list its Status *)
(* names.                                                                  *)
LEMMA InvalidateShape ==
    ASSUME TypeOK, NEW p \in PeerObjs, NEW a \in Paths,
           invalidateActiveConnection(p, a)
    PROVE  ListShape'
<1>1. CASE a \in active[p]
  <2>1. /\ active' = [active EXCEPT ![p] = @ \ {a}]
        /\ inactive' = [inactive EXCEPT ![p] = @ \cup {a}]
        /\ status' = [status EXCEPT ![p][a] = "Inactive"]
    BY <1>1 DEF invalidateActiveConnection
  <2>. QED
    BY <2>1 DEF TypeOK, VarTypes, ListShape
<1>2. CASE a \notin active[p]
  BY <1>2 DEF invalidateActiveConnection, TypeOK, ListShape
<1>. QED
  BY <1>1, <1>2

LEMMA SendPingShape ==
    ASSUME TypeOK, NEW p \in PeerObjs, NEW a \in Paths, sendPing(p, a)
    PROVE  ListShape'
<1>1. PICK fatal \in SendOutcomes :
        IF fatal /\ status[p][a] \in {"Active", "Redundant"}
        THEN invalidateActiveConnection(p, a)
        ELSE UNCHANGED <<active, inactive, status>>
  BY DEF sendPing
<1>2. CASE fatal /\ status[p][a] \in {"Active", "Redundant"}
  BY <1>1, <1>2, InvalidateShape
<1>3. CASE ~(fatal /\ status[p][a] \in {"Active", "Redundant"})
  BY <1>1, <1>3 DEF TypeOK, ListShape
<1>. QED
  BY <1>2, <1>3

LEMMA RegisterShape ==
    ASSUME TypeOK, NEW p \in PeerObjs, NEW a \in Paths, registerConnection(p, a)
    PROVE  ListShape'
BY DEF registerConnection, TypeOK, VarTypes, ListShape

LEMMA PeerlistAddShape ==
    ASSUME TypeOK, NEW k \in Keys, NEW a \in Paths, PeerlistAdd(k, a)
    PROVE  ListShape'
<1>1. CASE registry[k] # None /\ UNCHANGED <<registry, active, inactive, connVars>>
  BY <1>1 DEF TypeOK, ListShape, connVars
<1>2. CASE registry[k] = None
  <2>1. PICK p \in PeerObjs \ Referenced :
            /\ active' = [active EXCEPT ![p] = {a}]
            /\ inactive' = [inactive EXCEPT ![p] = {}]
            /\ status' = [status EXCEPT ![p][a] = "Active"]
    BY <1>2 DEF PeerlistAdd
  <2>. QED
    BY <2>1 DEF TypeOK, VarTypes, ListShape
<1>. QED
  BY <1>1, <1>2 DEF PeerlistAdd

(* The records a step writes into workers and sched are well typed. *)
LEMMA IdleWorkerType == IdleWorker \in WorkerState
BY DEF IdleWorker, WorkerState

LEMMA TypeInit == Init => TypeOK
BY CapsType, IdleWorkerType DEF Init, TypeOK, VarTypes, ListShape, SchedState, Statuses, IdleWorker

LEMMA TypeStep == TypeOK /\ [Next]_vars => TypeOK'
<1> SUFFICES ASSUME TypeOK, [Next]_vars PROVE TypeOK'
  OBVIOUS
<1>1. VarTypes'
  <2>1. CASE Tick
    <3>1. ageIn' \in [PeerObjs -> [Paths -> 0..InCap]]
      BY <2>1, CapsType, OlderType DEF Tick, TypeOK, VarTypes
    <3>2. agePing' \in [PeerObjs -> [Paths -> 0..PingCap]]
      BY <2>1, CapsType, OlderType DEF Tick, TypeOK, VarTypes
    <3>3. ageInv' \in [PeerObjs -> [Paths -> 0..InvCap]]
      BY <2>1, CapsType, OlderType DEF Tick, TypeOK, VarTypes
    <3>. QED
      BY <2>1, <3>1, <3>2, <3>3 DEF Tick, TypeOK, VarTypes, SchedState
  <2>2. CASE ListPeers
    <3>1. Registered \in SUBSET PeerObjs
      BY DEF Registered, TypeOK, VarTypes
    <3>. QED
      BY <2>2, <3>1 DEF ListPeers, TypeOK, VarTypes, SchedState, connVars
  <2>3. CASE NextPeer
    <3>1. PICK p \in sched.todo :
            sched' = [sched EXCEPT !.pc = "conns", !.todo = @ \ {p}, !.cur = p,
                                   !.phase = "active", !.conns = active[p]]
      BY <2>3 DEF NextPeer
    <3>2. p \in PeerObjs /\ active[p] \in SUBSET Paths
      BY <3>1 DEF TypeOK, VarTypes, SchedState
    <3>. QED
      BY <2>3, <3>1, <3>2 DEF NextPeer, TypeOK, VarTypes, SchedState, connVars
  <2>4. CASE EndRound
    BY <2>4 DEF EndRound, TypeOK, VarTypes, SchedState, connVars
  <2>5. CASE Check
    <3>1. PICK a \in sched.conns :
            LET d == IF sched.phase = "active" THEN ActiveDecision(sched.cur, a)
                                               ELSE InactiveDecision(sched.cur, a)
            IN  sched' = [sched EXCEPT !.pc = IF d = "none" THEN "conns" ELSE "act",
                                       !.conns = @ \ {a},
                                       !.conn = IF d = "none" THEN None ELSE a,
                                       !.decision = d]
      BY <2>5 DEF Check
    <3>2. /\ ActiveDecision(sched.cur, a) \in {"invalidate", "ping", "none"}
          /\ InactiveDecision(sched.cur, a) \in {"remove", "ping", "none"}
      BY DEF ActiveDecision, InactiveDecision
    <3>. QED
      BY <2>5, <3>1, <3>2 DEF Check, TypeOK, VarTypes, SchedState, connVars
  <2>6. CASE ActInvalidate
    BY <2>6, InvalidateType DEF ActInvalidate, AfterAct, TypeOK, VarTypes, SchedState
  <2>7. CASE ActPing
    BY <2>7, SendPingType DEF ActPing, AfterAct, TypeOK, VarTypes, SchedState
  <2>8. CASE ActRemove
    BY <2>8 DEF ActRemove, removeInactiveConnection, AfterAct, TypeOK, VarTypes, SchedState
  <2>9. CASE EndActive
    BY <2>9 DEF EndActive, TypeOK, VarTypes, SchedState, connVars
  <2>10. CASE EndPeer
    BY <2>10 DEF EndPeer, TypeOK, VarTypes, SchedState, connVars
  <2>11. ASSUME NEW w \in Workers, Receive(w) PROVE VarTypes'
    BY <2>11 DEF Receive, TypeOK, VarTypes, WorkerState, connVars
  <2>12. ASSUME NEW w \in Workers, DispatchKnown(w) PROVE VarTypes'
    <3>1. workers[w].peer \in PeerObjs /\ workers[w].path \in Paths
      BY <2>12 DEF DispatchKnown, TypeOK, VarTypes, WorkerState
    <3>2. registerConnection(workers[w].peer, workers[w].path)
      BY <2>12 DEF DispatchKnown
    <3>. QED
      BY <2>12, <3>1, <3>2, RegisterType, IdleWorkerType
      DEF DispatchKnown, TypeOK, VarTypes, IdleWorker
  <2>13. ASSUME NEW w \in Workers, DispatchNew(w) PROVE VarTypes'
    BY <2>13, PeerlistAddType, IdleWorkerType DEF DispatchNew, TypeOK, VarTypes, IdleWorker
  <2>14. ASSUME NEW w \in Workers, DispatchIgnored(w) PROVE VarTypes'
    BY <2>14, IdleWorkerType DEF DispatchIgnored, TypeOK, VarTypes, connVars, IdleWorker
  <2>15. ASSUME NEW k \in Keys, PeerlistRemove(k) PROVE VarTypes'
    BY <2>15 DEF PeerlistRemove, TypeOK, VarTypes, connVars
  <2>16. ASSUME NEW p \in PeerObjs, NEW a \in Paths, SetRedundant(p, a) PROVE VarTypes'
    BY <2>16 DEF SetRedundant, TypeOK, VarTypes, Statuses
  <2>17. CASE UNCHANGED vars
    BY <2>17 DEF vars, TypeOK, VarTypes
  <2>. QED
    BY <2>1, <2>2, <2>3, <2>4, <2>5, <2>6, <2>7, <2>8, <2>9, <2>10, <2>11,
       <2>12, <2>13, <2>14, <2>15, <2>16, <2>17
    DEF Next, SchedStep, WorkerStep
<1>2. ListShape'
  <2>1. CASE UNCHANGED <<active, inactive, status>>
    BY <2>1 DEF TypeOK, ListShape
  <2>2. CASE ActInvalidate
    BY <2>2, InvalidateShape DEF ActInvalidate, TypeOK, VarTypes
  <2>3. CASE ActPing
    BY <2>3, SendPingShape DEF ActPing, TypeOK, VarTypes
  <2>4. CASE ActRemove
    BY <2>4 DEF ActRemove, removeInactiveConnection, TypeOK, VarTypes, ListShape
  <2>5. ASSUME NEW w \in Workers, DispatchKnown(w) PROVE ListShape'
    <3>1. workers[w].peer \in PeerObjs /\ workers[w].path \in Paths
      BY <2>5 DEF DispatchKnown, TypeOK, VarTypes, WorkerState
    <3>. QED
      BY <2>5, <3>1, RegisterShape DEF DispatchKnown
  <2>6. ASSUME NEW w \in Workers, DispatchNew(w) PROVE ListShape'
    BY <2>6, PeerlistAddShape DEF DispatchNew, TypeOK, VarTypes
  <2>7. ASSUME NEW p \in PeerObjs, NEW a \in Paths, SetRedundant(p, a) PROVE ListShape'
    BY <2>7 DEF SetRedundant, TypeOK, VarTypes, ListShape
  <2>8. CASE SchedStep /\ ~ActInvalidate /\ ~ActPing /\ ~ActRemove
    BY <2>1, <2>8
    DEF SchedStep, Tick, ListPeers, NextPeer, EndRound, Check, EndActive, EndPeer, connVars
  <2>9. ASSUME NEW w \in Workers, Receive(w) \/ DispatchIgnored(w) PROVE ListShape'
    BY <2>1, <2>9 DEF Receive, DispatchIgnored, connVars
  <2>10. ASSUME NEW k \in Keys, PeerlistRemove(k) PROVE ListShape'
    BY <2>1, <2>10 DEF PeerlistRemove, connVars
  <2>11. CASE UNCHANGED vars
    BY <2>1, <2>11 DEF vars
  <2>. QED
    BY <2>2, <2>3, <2>4, <2>5, <2>6, <2>7, <2>8, <2>9, <2>10, <2>11
    DEF Next, SchedStep, WorkerStep
<1>. QED
  BY <1>1, <1>2 DEF TypeOK

(* The type invariant of the peer registry, the connection lists and the   *)
(* goroutines' local state holds in every reachable state.                 *)
THEOREM TypeCorrect == Spec => []TypeOK
BY TypeInit, TypeStep, PTL DEF Spec

(***************************************************************************)
(* No peer in the peer list loses its last connection.  The guard of the   *)
(* purge is read in one step (Check) and acted on in a later one           *)
(* (ActRemove); in between the workers may move connections of the same   *)
(* peer.  The strengthening RemoveGuarded says the guard still holds when  *)
(* the purge is carried out: a worker can only add to the active list.     *)
(***************************************************************************)
RemoveGuarded ==
    sched.pc = "act" /\ sched.decision = "remove" =>
        active[sched.cur] # {} \/ Cardinality(inactive[sched.cur]) > 2

IInv == TypeOK /\ PeerHasPath /\ RemoveGuarded

(* A set of paths with more than two elements keeps one after removing one. *)
LEMMA MoreThanTwoLeft ==
    ASSUME NEW S \in SUBSET Paths, NEW x, Cardinality(S) > 2
    PROVE  S \ {x} # {}
<1>1. IsFiniteSet(S)
  BY FS_Subset
<1>2. SUFFICES ASSUME S \ {x} = {} PROVE FALSE
  OBVIOUS
<1>3. S \in SUBSET {x}
  BY <1>2
<1>4. Cardinality(S) <= 1
  <2>1. IsFiniteSet({x}) /\ Cardinality({x}) = 1
    BY FS_Singleton
  <2>. QED
    BY <1>3, <2>1, FS_Subset
<1>5. Cardinality(S) \in Nat
  BY <1>1, FS_CardinalityType
<1>. QED
  BY <1>4, <1>5

(* A step that changes neither the registry nor the lists keeps every      *)
(* listed peer's connections.                                              *)
LEMMA ListsUnchanged ==
    ASSUME PeerHasPath, UNCHANGED <<registry, active, inactive>>
    PROVE  PeerHasPath'
BY DEF PeerHasPath, Registered

(* Every listed peer keeps a connection if the peers Q touched by a step   *)
(* end with one and every other listed peer loses none.                    *)
LEMMA PathsKept ==
    ASSUME PeerHasPath, NEW Q,
           Registered' \subseteq Registered \cup Q,
           \A q \in Q : active'[q] \cup inactive'[q] # {},
           \A q \in Registered \ Q :
               active[q] \cup inactive[q] \subseteq active'[q] \cup inactive'[q]
    PROVE  PeerHasPath'
BY DEF PeerHasPath

(* The peers of the registry are PeerInfo objects. *)
LEMMA RegisteredType == TypeOK => Registered \subseteq PeerObjs
BY DEF TypeOK, VarTypes, Registered

LEMMA IInvInit == Init => IInv
<1> SUFFICES ASSUME Init PROVE IInv
  OBVIOUS
<1>1. TypeOK
  BY TypeInit
<1>2. Registered = {}
  BY DEF Init, Registered
<1>. QED
  BY <1>1, <1>2 DEF IInv, PeerHasPath, RemoveGuarded, Init

LEMMA IInvStep == IInv /\ [Next]_vars => IInv'
<1> SUFFICES ASSUME IInv, [Next]_vars PROVE IInv'
  OBVIOUS
<1>0. TypeOK /\ PeerHasPath /\ RemoveGuarded /\ TypeOK'
  BY TypeStep DEF IInv
<1>1. CASE \/ Tick \/ ListPeers \/ NextPeer \/ EndRound \/ EndActive \/ EndPeer
  <2>1. UNCHANGED <<registry, active, inactive>> /\ sched'.pc # "act"
    BY <1>0, <1>1 DEF Tick, ListPeers, NextPeer, EndRound, EndActive, EndPeer,
                      connVars, TypeOK, VarTypes, SchedState
  <2>. QED
    BY <1>0, <2>1, ListsUnchanged DEF IInv, RemoveGuarded
<1>2. CASE Check
  <2>1. PICK a \in sched.conns :
          LET d == IF sched.phase = "active" THEN ActiveDecision(sched.cur, a)
                                             ELSE InactiveDecision(sched.cur, a)
          IN  sched' = [sched EXCEPT !.pc = IF d = "none" THEN "conns" ELSE "act",
                                     !.conns = @ \ {a},
                                     !.conn = IF d = "none" THEN None ELSE a,
                                     !.decision = d]
    BY <1>2 DEF Check
  <2>2. UNCHANGED <<registry, active, inactive>>
    BY <1>2 DEF Check
  <2>3. ActiveDecision(sched.cur, a) # "remove"
    BY DEF ActiveDecision
  <2>4. InactiveDecision(sched.cur, a) = "remove" =>
          active[sched.cur] # {} \/ Cardinality(inactive[sched.cur]) > 2
    BY DEF InactiveDecision
  <2>5. RemoveGuarded'
    BY <1>0, <2>1, <2>2, <2>3, <2>4 DEF RemoveGuarded, TypeOK, VarTypes, SchedState
  <2>. QED
    BY <1>0, <2>2, <2>5, ListsUnchanged DEF IInv
<1>3. CASE ActInvalidate \/ ActPing
  <2>0. sched.cur \in PeerObjs /\ sched.conn \in Paths
    BY <1>0, <1>3 DEF ActInvalidate, ActPing, TypeOK, VarTypes
  <2>1. sched'.pc = "conns" /\ UNCHANGED registry
    BY <1>0, <1>3 DEF ActInvalidate, ActPing, AfterAct, TypeOK, VarTypes, SchedState
  <2>2. \A q \in PeerObjs : active[q] \cup inactive[q] \subseteq active'[q] \cup inactive'[q]
    <3>1. CASE invalidateActiveConnection(sched.cur, sched.conn)
      <4>1. CASE /\ sched.conn \in active[sched.cur]
                 /\ active' = [active EXCEPT ![sched.cur] = @ \ {sched.conn}]
                 /\ inactive' = [inactive EXCEPT ![sched.cur] = @ \cup {sched.conn}]
        BY <4>1, <2>0, <1>0 DEF TypeOK, VarTypes
      <4>2. CASE UNCHANGED <<active, inactive>>
        BY <4>2
      <4>. QED
        BY <3>1, <4>1, <4>2 DEF invalidateActiveConnection
    <3>2. CASE UNCHANGED <<active, inactive>>
      BY <3>2
    <3>. QED
      BY <1>3, <3>1, <3>2 DEF ActInvalidate, ActPing, sendPing
  <2>3. PeerHasPath'
    BY <1>0, <2>1, <2>2, RegisteredType, PathsKept DEF Registered
  <2>. QED
    BY <1>0, <2>1, <2>3 DEF IInv, RemoveGuarded
<1>4. CASE ActRemove
  <2>1. sched'.pc = "conns" /\ UNCHANGED <<registry, active>>
    BY <1>4 DEF ActRemove, removeInactiveConnection, AfterAct, TypeOK, VarTypes, SchedState
  <2>2. inactive' = [inactive EXCEPT ![sched.cur] = @ \ {sched.conn}]
    BY <1>4 DEF ActRemove, removeInactiveConnection
  <2>3. active[sched.cur] # {} \/ inactive[sched.cur] \ {sched.conn} # {}
    BY <1>0, <1>4, MoreThanTwoLeft DEF ActRemove, RemoveGuarded, TypeOK, VarTypes
  <2>4. sched.cur \in PeerObjs
    BY <1>0, <1>4 DEF ActRemove, TypeOK, VarTypes
  <2>5. \A q \in PeerObjs \ {sched.cur} : inactive'[q] = inactive[q]
    BY <1>0, <2>2 DEF TypeOK, VarTypes
  <2>6. active'[sched.cur] \cup inactive'[sched.cur] # {}
    BY <1>0, <2>1, <2>2, <2>3, <2>4 DEF TypeOK, VarTypes
  <2>7. Registered' = Registered
    BY <2>1 DEF Registered
  <2>8. PeerHasPath'
    <3>1. Registered' \subseteq Registered \cup {sched.cur}
      BY <2>7
    <3>2. \A q \in {sched.cur} : active'[q] \cup inactive'[q] # {}
      BY <2>6
    <3>3. \A q \in Registered \ {sched.cur} :
              active[q] \cup inactive[q] \subseteq active'[q] \cup inactive'[q]
      BY <1>0, <2>1, <2>5, RegisteredType
    <3>. QED
      BY <1>0, <3>1, <3>2, <3>3 DEF PeerHasPath
  <2>. QED
    BY <1>0, <2>1, <2>8 DEF IInv, RemoveGuarded
<1>5. ASSUME NEW w \in Workers, Receive(w) \/ DispatchIgnored(w) PROVE IInv'
  <2>1. UNCHANGED <<registry, active, inactive, sched>>
    BY <1>5 DEF Receive, DispatchIgnored, connVars
  <2>. QED
    BY <1>0, <2>1, ListsUnchanged DEF IInv, RemoveGuarded
<1>6. ASSUME NEW w \in Workers, DispatchKnown(w) PROVE IInv'
  <2> DEFINE p0 == workers[w].peer
             a0 == workers[w].path
  <2>1. p0 \in PeerObjs /\ a0 \in Paths
    BY <1>0, <1>6 DEF DispatchKnown, TypeOK, VarTypes, WorkerState
  <2>2. /\ active' = [active EXCEPT ![p0] = @ \cup {a0}]
        /\ inactive' = [inactive EXCEPT ![p0] = @ \ {a0}]
        /\ UNCHANGED <<registry, sched>>
    BY <1>6 DEF DispatchKnown, registerConnection
  <2>3. \A q \in PeerObjs : q # p0 => active'[q] = active[q] /\ inactive'[q] = inactive[q]
    BY <1>0, <2>2 DEF TypeOK, VarTypes
  <2>4. active'[p0] # {}
    BY <1>0, <2>1, <2>2 DEF TypeOK, VarTypes
  <2>5. PeerHasPath'
    <3>1. Registered' = Registered
      BY <2>2 DEF Registered
    <3>. QED
      <4>1. Registered' \subseteq Registered \cup {p0}
        BY <3>1
      <4>2. \A q \in {p0} : active'[q] \cup inactive'[q] # {}
        BY <2>4
      <4>3. \A q \in Registered \ {p0} :
                active[q] \cup inactive[q] \subseteq active'[q] \cup inactive'[q]
        BY <1>0, <2>3, RegisteredType
      <4>. QED
        BY <1>0, <4>1, <4>2, <4>3 DEF PeerHasPath
  <2>6. RemoveGuarded'
    BY <1>0, <2>2, <2>3, <2>4 DEF RemoveGuarded, TypeOK, VarTypes
  <2>. QED
    BY <1>0, <2>5, <2>6 DEF IInv
<1>7. ASSUME NEW w \in Workers, DispatchNew(w) PROVE IInv'
  <2> DEFINE k0 == workers[w].key
             a0 == workers[w].path
  <2>1. k0 \in Keys /\ a0 \in Paths /\ PeerlistAdd(k0, a0) /\ UNCHANGED sched
    BY <1>0, <1>7 DEF DispatchNew, TypeOK, VarTypes
  <2>2. CASE UNCHANGED <<registry, active, inactive>>
    BY <1>0, <2>1, <2>2, ListsUnchanged DEF IInv, RemoveGuarded
  <2>3. CASE registry[k0] = None
    <3>1. PICK p \in PeerObjs \ Referenced :
            /\ registry' = [registry EXCEPT ![k0] = p]
            /\ active' = [active EXCEPT ![p] = {a0}]
            /\ inactive' = [inactive EXCEPT ![p] = {}]
      BY <2>1, <2>3 DEF PeerlistAdd
    <3>2. p \notin Registered /\ p # sched.cur
      BY <3>1 DEF Referenced
    <3>3. Registered' \subseteq Registered \cup {p}
      BY <1>0, <3>1 DEF Registered, TypeOK, VarTypes
    <3>4. \A q \in PeerObjs : q # p => active'[q] = active[q] /\ inactive'[q] = inactive[q]
      BY <1>0, <3>1 DEF TypeOK, VarTypes
    <3>5. active'[p] # {}
      BY <1>0, <3>1 DEF TypeOK, VarTypes
    <3>6. PeerHasPath'
      <4>1. \A q \in {p} : active'[q] \cup inactive'[q] # {}
        BY <3>5
      <4>2. \A q \in Registered \ {p} :
                active[q] \cup inactive[q] \subseteq active'[q] \cup inactive'[q]
        BY <1>0, <3>4, RegisteredType
      <4>. QED
        BY <1>0, <3>3, <4>1, <4>2 DEF PeerHasPath
    <3>7. RemoveGuarded'
      BY <1>0, <2>1, <3>2, <3>4 DEF RemoveGuarded, TypeOK, VarTypes
    <3>. QED
      BY <1>0, <3>6, <3>7 DEF IInv
  <2>. QED
    BY <2>1, <2>2, <2>3 DEF PeerlistAdd, connVars
<1>8. ASSUME NEW k \in Keys, PeerlistRemove(k) PROVE IInv'
  <2>1. UNCHANGED <<active, inactive, sched>> /\ registry' = [registry EXCEPT ![k] = None]
    BY <1>8 DEF PeerlistRemove
  <2>2. Registered' \subseteq Registered
    BY <1>0, <2>1 DEF Registered, TypeOK, VarTypes
  <2>. QED
    BY <1>0, <2>1, <2>2 DEF IInv, PeerHasPath, RemoveGuarded
<1>9. ASSUME NEW p \in PeerObjs, NEW a \in Paths, SetRedundant(p, a) PROVE IInv'
  <2>1. UNCHANGED <<registry, active, inactive, sched>>
    BY <1>9 DEF SetRedundant
  <2>. QED
    BY <1>0, <2>1, ListsUnchanged DEF IInv, RemoveGuarded
<1>10. CASE UNCHANGED vars
  BY <1>0, <1>10, ListsUnchanged DEF vars, IInv, RemoveGuarded
<1>. QED
  BY <1>1, <1>2, <1>3, <1>4, <1>5, <1>6, <1>7, <1>8, <1>9, <1>10
  DEF Next, SchedStep, WorkerStep

(* Never drop the last known path: in every reachable state each peer of  *)
(* the peer list has a connection, whatever order autoPingAll's purge and  *)
(* the packet workers interleave in.                                       *)
THEOREM PeerHasPathInvariant == Spec => []PeerHasPath
<1>1. IInv => PeerHasPath
  BY DEF IInv
<1>. QED
  BY IInvInit, IInvStep, <1>1, PTL DEF Spec

(***************************************************************************)
(* Two more facts of every reachable state, needed for PurgeSafe and for   *)
(* the refinement of PeerPaths.  RegistryInjective: no PeerInfo is the     *)
(* entry of two keys (PeerlistAdd only hands out objects nothing           *)
(* references).  RemoveExpired: a pending purge was decided on an expired  *)
(* connection, and its Expires is still past when the purge is carried out *)
(* (a worker that registers the connection meanwhile keeps its Expires).   *)
(***************************************************************************)
RegistryInjective ==
    \A k1, k2 \in Keys :
        registry[k1] = registry[k2] /\ registry[k1] # None => k1 = k2

RemoveExpired ==
    sched.pc = "act" /\ sched.decision = "remove" =>
        ageInv[sched.cur][sched.conn] > ConnectionRemove

IInv2 == IInv /\ RegistryInjective /\ RemoveExpired

(* Every step but PeerlistAdd and PeerlistRemove leaves the registry alone. *)
LEMMA RegistryKept ==
    ASSUME [Next]_vars,
           ~\E w \in Workers : DispatchNew(w),
           ~\E k \in Keys : PeerlistRemove(k)
    PROVE  UNCHANGED registry
<1>1. SchedStep => UNCHANGED registry
  BY DEF SchedStep, Tick, ListPeers, NextPeer, EndRound, Check, ActInvalidate,
         ActPing, ActRemove, EndActive, EndPeer
<1>2. \A w \in Workers : Receive(w) \/ DispatchKnown(w) \/ DispatchIgnored(w)
                         => UNCHANGED registry
  BY DEF Receive, DispatchKnown, DispatchIgnored
<1>3. \A p \in PeerObjs, a \in Paths : SetRedundant(p, a) => UNCHANGED registry
  BY DEF SetRedundant
<1>. QED
  BY <1>1, <1>2, <1>3 DEF Next, WorkerStep, vars

LEMMA InjectiveStep ==
    ASSUME IInv, RegistryInjective, [Next]_vars
    PROVE  RegistryInjective'
<1>0. TypeOK
  BY DEF IInv
<1>1. ASSUME NEW w \in Workers, DispatchNew(w) PROVE RegistryInjective'
  <2> DEFINE k0 == workers[w].key
             a0 == workers[w].path
  <2>1. PeerlistAdd(k0, a0)
    BY <1>1 DEF DispatchNew
  <2>2. CASE registry[k0] # None /\ UNCHANGED registry
    BY <2>2 DEF RegistryInjective
  <2>3. CASE registry[k0] = None
    <3>1. PICK p \in PeerObjs \ Referenced : registry' = [registry EXCEPT ![k0] = p]
      BY <2>1, <2>3 DEF PeerlistAdd
    <3>2. \A k \in Keys : registry[k] # p
      BY <3>1 DEF Referenced, Registered
    <3>. QED
      BY <1>0, <2>3, <3>1, <3>2 DEF RegistryInjective, TypeOK, VarTypes
  <2>. QED
    BY <2>1, <2>2, <2>3 DEF PeerlistAdd
<1>2. ASSUME NEW k \in Keys, PeerlistRemove(k) PROVE RegistryInjective'
  BY <1>0, <1>2 DEF PeerlistRemove, RegistryInjective, TypeOK, VarTypes
<1>3. CASE UNCHANGED registry
  BY <1>3 DEF RegistryInjective
<1>. QED
  BY <1>1, <1>2, <1>3, RegistryKept


LEMMA ExpiredStep ==
    ASSUME IInv, RemoveExpired, [Next]_vars
    PROVE  RemoveExpired'
<1>0. TypeOK
  BY DEF IInv
<1>1. CASE \/ Tick \/ ListPeers \/ NextPeer \/ EndRound \/ EndActive \/ EndPeer
           \/ ActInvalidate \/ ActPing \/ ActRemove
  <2>1. sched'.pc # "act"
    BY <1>0, <1>1 DEF Tick, ListPeers, NextPeer, EndRound, EndActive, EndPeer,
                      ActInvalidate, ActPing, ActRemove, AfterAct, TypeOK, VarTypes, SchedState
  <2>. QED
    BY <2>1 DEF RemoveExpired
<1>2. CASE Check
  <2>1. PICK a \in sched.conns :
          LET d == IF sched.phase = "active" THEN ActiveDecision(sched.cur, a)
                                             ELSE InactiveDecision(sched.cur, a)
          IN  sched' = [sched EXCEPT !.pc = IF d = "none" THEN "conns" ELSE "act",
                                     !.conns = @ \ {a},
                                     !.conn = IF d = "none" THEN None ELSE a,
                                     !.decision = d]
    BY <1>2 DEF Check
  <2>2. UNCHANGED ageInv
    BY <1>2 DEF Check, connVars
  <2>3. ActiveDecision(sched.cur, a) # "remove"
    BY DEF ActiveDecision
  <2>4. InactiveDecision(sched.cur, a) = "remove" =>
          ageInv[sched.cur][a] > ConnectionRemove
    BY DEF InactiveDecision
  <2>. QED
    BY <1>0, <2>1, <2>2, <2>3, <2>4 DEF RemoveExpired, TypeOK, VarTypes, SchedState
<1>3. ASSUME NEW w \in Workers, DispatchKnown(w) PROVE RemoveExpired'
  <2> DEFINE p0 == workers[w].peer
             a0 == workers[w].path
  <2>1. /\ ageInv' = [ageInv EXCEPT ![p0][a0] = IF Listed(p0, a0) THEN @ ELSE InvCap]
        /\ UNCHANGED sched
    BY <1>3 DEF DispatchKnown, registerConnection
  <2>2. p0 \in PeerObjs /\ a0 \in Paths
    BY <1>0, <1>3 DEF DispatchKnown, TypeOK, VarTypes, WorkerState
  <2>3. InvCap > ConnectionRemove
    BY DEF InvCap
  <2>. QED
    BY <1>0, <2>1, <2>2, <2>3 DEF RemoveExpired, TypeOK, VarTypes
<1>4. ASSUME NEW w \in Workers, DispatchNew(w) PROVE RemoveExpired'
  <2> DEFINE k0 == workers[w].key
             a0 == workers[w].path
  <2>1. PeerlistAdd(k0, a0) /\ UNCHANGED sched
    BY <1>4 DEF DispatchNew
  <2>2. CASE UNCHANGED ageInv
    BY <2>1, <2>2 DEF RemoveExpired
  <2>3. CASE registry[k0] = None
    <3>1. PICK p \in PeerObjs \ Referenced :
              ageInv' = [ageInv EXCEPT ![p][a0] = InvCap]
      BY <2>1, <2>3 DEF PeerlistAdd
    <3>2. p # sched.cur
      BY <3>1 DEF Referenced
    <3>. QED
      BY <1>0, <2>1, <3>1, <3>2 DEF RemoveExpired, TypeOK, VarTypes
  <2>. QED
    BY <2>1, <2>2, <2>3 DEF PeerlistAdd, connVars
<1>5. CASE UNCHANGED <<sched, ageInv>>
  BY <1>5 DEF RemoveExpired
<1>6. ASSUME NEW w \in Workers, Receive(w) \/ DispatchIgnored(w) PROVE UNCHANGED <<sched, ageInv>>
  BY <1>6 DEF Receive, DispatchIgnored, connVars
<1>7. ASSUME NEW k \in Keys, PeerlistRemove(k) PROVE UNCHANGED <<sched, ageInv>>
  BY <1>7 DEF PeerlistRemove, connVars
<1>8. ASSUME NEW p \in PeerObjs, NEW a \in Paths, SetRedundant(p, a)
      PROVE UNCHANGED <<sched, ageInv>>
  BY <1>8 DEF SetRedundant
<1>9. UNCHANGED vars => UNCHANGED <<sched, ageInv>>
  BY DEF vars
<1>. QED
  BY <1>1, <1>2, <1>3, <1>4, <1>5, <1>6, <1>7, <1>8, <1>9
  DEF Next, SchedStep, WorkerStep

LEMMA IInv2Init == Init => IInv2
BY IInvInit DEF Init, IInv2, RegistryInjective, RemoveExpired

LEMMA IInv2Step == IInv2 /\ [Next]_vars => IInv2'
BY IInvStep, InjectiveStep, ExpiredStep DEF IInv2


(***************************************************************************)
(* PurgeSafe.  Only ActRemove can purge a connection of a listed peer, and *)
(* only the one its decision names: the other steps either leave the       *)
(* inactive lists alone, add to them (invalidation), move the connection   *)
(* to the active list (a worker's packet) or fill a PeerInfo that was not  *)
(* listed (PeerlistAdd).                                                   *)
(***************************************************************************)
PurgeStep ==
    \A p \in Registered \cap Registered', a \in Paths :
        Purged(p, a) =>
            /\ ageInv[p][a] > ConnectionRemove
            /\ active'[p] # {} \/ Cardinality(inactive'[p]) >= 2

(* A step that takes nothing out of any inactive list purges nothing. *)
LEMMA NoPurgeWhenKept ==
    ASSUME TypeOK, \A q \in PeerObjs : inactive[q] \subseteq inactive'[q]
    PROVE  PurgeStep
BY RegisteredType DEF PurgeStep, Purged

(* Removing one element from a set of more than two paths leaves two. *)
LEMMA TwoLeft ==
    ASSUME NEW S \in SUBSET Paths, NEW x, Cardinality(S) > 2
    PROVE  Cardinality(S \ {x}) >= 2
<1>1. IsFiniteSet(S)
  BY FS_Subset
<1>2. Cardinality(S) \in Nat
  BY <1>1, FS_CardinalityType
<1>3. Cardinality(S \ {x}) = IF x \in S THEN Cardinality(S) - 1 ELSE Cardinality(S)
  BY <1>1, FS_RemoveElement
<1>. QED
  BY <1>2, <1>3

LEMMA PurgeStepHolds ==
    ASSUME IInv2, [Next]_vars
    PROVE  PurgeStep
<1>0. TypeOK /\ RemoveGuarded /\ RemoveExpired
  BY DEF IInv2, IInv
<1>1. CASE ActRemove
  <2> DEFINE c == sched.cur
             x == sched.conn
  <2>1. c \in PeerObjs /\ x \in Paths
    BY <1>0, <1>1 DEF ActRemove, TypeOK, VarTypes
  <2>2. /\ inactive' = [inactive EXCEPT ![c] = @ \ {x}]
        /\ UNCHANGED active
    BY <1>1 DEF ActRemove, removeInactiveConnection
  <2>3. ageInv[c][x] > ConnectionRemove
    BY <1>0, <1>1 DEF ActRemove, RemoveExpired
  <2>4. active'[c] # {} \/ Cardinality(inactive'[c]) >= 2
    <3>1. active[c] # {} \/ Cardinality(inactive[c]) > 2
      BY <1>0, <1>1 DEF ActRemove, RemoveGuarded
    <3>2. Cardinality(inactive[c]) > 2 => Cardinality(inactive[c] \ {x}) >= 2
      BY <1>0, <2>1, TwoLeft DEF TypeOK, VarTypes
    <3>. QED
      BY <1>0, <2>1, <2>2, <3>1, <3>2 DEF TypeOK, VarTypes
  <2>5. \A q \in PeerObjs, a \in Paths :
          Purged(q, a) => q = c /\ a = x
    BY <1>0, <2>1, <2>2 DEF Purged, TypeOK, VarTypes
  <2>. QED
    BY <1>0, <2>3, <2>4, <2>5, RegisteredType DEF PurgeStep
<1>2. CASE ActInvalidate \/ ActPing
  <2>0. sched.cur \in PeerObjs /\ sched.conn \in Paths
    BY <1>0, <1>2 DEF ActInvalidate, ActPing, TypeOK, VarTypes
  <2>1. \A q \in PeerObjs : inactive[q] \subseteq inactive'[q]
    <3>1. CASE invalidateActiveConnection(sched.cur, sched.conn)
      <4>1. CASE inactive' = [inactive EXCEPT ![sched.cur] = @ \cup {sched.conn}]
        BY <4>1, <2>0, <1>0 DEF TypeOK, VarTypes
      <4>2. CASE UNCHANGED inactive
        BY <4>2
      <4>. QED
        BY <3>1, <4>1, <4>2 DEF invalidateActiveConnection
    <3>2. CASE UNCHANGED inactive
      BY <3>2
    <3>. QED
      BY <1>2, <3>1, <3>2 DEF ActInvalidate, ActPing, sendPing
  <2>. QED
    BY <1>0, <2>1, NoPurgeWhenKept
<1>3. ASSUME NEW w \in Workers, DispatchKnown(w) PROVE PurgeStep
  <2> DEFINE p0 == workers[w].peer
             a0 == workers[w].path
  <2>1. p0 \in PeerObjs /\ a0 \in Paths
    BY <1>0, <1>3 DEF DispatchKnown, TypeOK, VarTypes, WorkerState
  <2>2. /\ active' = [active EXCEPT ![p0] = @ \cup {a0}]
        /\ inactive' = [inactive EXCEPT ![p0] = @ \ {a0}]
    BY <1>3 DEF DispatchKnown, registerConnection
  <2>3. \A q \in PeerObjs, a \in Paths : ~Purged(q, a)
    BY <1>0, <2>1, <2>2 DEF Purged, TypeOK, VarTypes
  <2>. QED
    BY <1>0, <2>3, RegisteredType DEF PurgeStep
<1>4. ASSUME NEW w \in Workers, DispatchNew(w) PROVE PurgeStep
  <2> DEFINE k0 == workers[w].key
             a0 == workers[w].path
  <2>1. PeerlistAdd(k0, a0)
    BY <1>4 DEF DispatchNew
  <2>2. CASE UNCHANGED inactive
    BY <1>0, <2>2, NoPurgeWhenKept
  <2>3. CASE registry[k0] = None
    <3>1. PICK p \in PeerObjs \ Referenced :
              inactive' = [inactive EXCEPT ![p] = {}]
      BY <2>1, <2>3 DEF PeerlistAdd
    <3>2. p \notin Registered
      BY <3>1 DEF Referenced
    <3>3. \A q \in Registered, a \in Paths : ~Purged(q, a)
      BY <1>0, <3>1, <3>2, RegisteredType DEF Purged, TypeOK, VarTypes
    <3>. QED
      BY <3>3 DEF PurgeStep
  <2>. QED
    BY <2>1, <2>2, <2>3 DEF PeerlistAdd
<1>5. CASE UNCHANGED inactive
  BY <1>0, <1>5, NoPurgeWhenKept
<1>6. CASE \/ Tick \/ ListPeers \/ NextPeer \/ EndRound \/ Check \/ EndActive \/ EndPeer
  BY <1>5, <1>6 DEF Tick, ListPeers, NextPeer, EndRound, Check, EndActive, EndPeer
<1>7. ASSUME NEW w \in Workers, Receive(w) \/ DispatchIgnored(w) PROVE UNCHANGED inactive
  BY <1>7 DEF Receive, DispatchIgnored
<1>8. ASSUME NEW k \in Keys, PeerlistRemove(k) PROVE UNCHANGED inactive
  BY <1>8 DEF PeerlistRemove
<1>9. ASSUME NEW p \in PeerObjs, NEW a \in Paths, SetRedundant(p, a)
      PROVE UNCHANGED inactive
  BY <1>9 DEF SetRedundant
<1>10. UNCHANGED vars => UNCHANGED inactive
  BY DEF vars
<1>. QED
  BY <1>1, <1>2, <1>3, <1>4, <1>5, <1>6, <1>7, <1>8, <1>9, <1>10
  DEF Next, SchedStep, WorkerStep

(* autoPingAll purges an inactive connection of a listed peer only once    *)
(* its Expires has passed, and leaves the peer an active connection or two *)
(* inactive ones, although the guard is read before the peer's lock is     *)
(* taken and workers move connections in between.                          *)
THEOREM PurgeSafeHolds == Spec => PurgeSafe
<1>1. IInv2 /\ [Next]_vars => [PurgeStep]_vars
  BY PurgeStepHolds
<1>. QED
  BY IInv2Init, IInv2Step, <1>1, PTL DEF Spec, PurgeSafe, PurgeStep


(***************************************************************************)
(* Refinement of PeerPaths.  Each step of the detailed model is a step of  *)
(* the abstract one on the mapped state (ListedKeys, KnownPaths), or       *)
(* leaves it alone:                                                        *)
(*   - PeerlistAdd of an unknown key is Join: the object it hands out is   *)
(*     listed under no other key;                                          *)
(*   - a worker's registerConnection on a listed peer is Learn: by         *)
(*     RegistryInjective only one key sees it, by PeerHasPath that key is  *)
(*     already known;                                                      *)
(*   - ActRemove is Forget or nothing: the key stays listed, and          *)
(*     PeerHasPath' says it keeps a path;                                  *)
(*   - PeerlistRemove is Leave;                                            *)
(*   - invalidation moves a path between the two lists, so it is nothing.  *)
(***************************************************************************)
LEMMA RefineStep ==
    ASSUME IInv2, IInv2', [Next]_vars
    PROVE  [Abstract!Next]_Abstract!vars
<1>0. /\ TypeOK /\ PeerHasPath /\ RegistryInjective
      /\ TypeOK' /\ PeerHasPath'
  BY DEF IInv2, IInv
<1>1. CASE UNCHANGED <<registry, active, inactive>>
  BY <1>1 DEF KnownPaths, ListedKeys, Abstract!vars
<1>2. CASE ActInvalidate \/ ActPing
  <2>0. sched.cur \in PeerObjs /\ sched.conn \in Paths /\ UNCHANGED registry
    BY <1>0, <1>2 DEF ActInvalidate, ActPing, TypeOK, VarTypes
  <2>1. \A q \in PeerObjs : active'[q] \cup inactive'[q] = active[q] \cup inactive[q]
    <3>1. CASE invalidateActiveConnection(sched.cur, sched.conn)
      <4>1. CASE /\ sched.conn \in active[sched.cur]
                 /\ active' = [active EXCEPT ![sched.cur] = @ \ {sched.conn}]
                 /\ inactive' = [inactive EXCEPT ![sched.cur] = @ \cup {sched.conn}]
        BY <4>1, <2>0, <1>0 DEF TypeOK, VarTypes
      <4>2. CASE UNCHANGED <<active, inactive>>
        BY <4>2
      <4>. QED
        BY <3>1, <4>1, <4>2 DEF invalidateActiveConnection
    <3>2. CASE UNCHANGED <<active, inactive>>
      BY <3>2
    <3>. QED
      BY <1>2, <3>1, <3>2 DEF ActInvalidate, ActPing, sendPing
  <2>. QED
    BY <1>0, <2>0, <2>1 DEF KnownPaths, ListedKeys, TypeOK, VarTypes, Abstract!vars
<1>3. CASE ActRemove
  <2> DEFINE c == sched.cur
             x == sched.conn
  <2>1. /\ c \in PeerObjs /\ x \in Paths
        /\ UNCHANGED <<registry, active>>
        /\ inactive' = [inactive EXCEPT ![c] = @ \ {x}]
    BY <1>0, <1>3 DEF ActRemove, removeInactiveConnection, TypeOK, VarTypes
  <2>2. \A k \in Keys : registry[k] # c => KnownPaths'[k] = KnownPaths[k]
    BY <1>0, <2>1 DEF KnownPaths, TypeOK, VarTypes
  <2>0. UNCHANGED ListedKeys
    BY <2>1 DEF ListedKeys
  <2>3. CASE KnownPaths' = KnownPaths
    BY <2>0, <2>3 DEF Abstract!vars
  <2>4. CASE KnownPaths' # KnownPaths
    <3>1. PICK k0 \in Keys : registry[k0] = c
      BY <2>2, <2>4 DEF KnownPaths
    <3>2. \A k \in Keys \ {k0} : KnownPaths'[k] = KnownPaths[k]
      BY <1>0, <2>1, <2>2, <3>1 DEF RegistryInjective, TypeOK, VarTypes
    <3>3. KnownPaths'[k0] = active[c] \cup (inactive[c] \ {x})
          /\ KnownPaths[k0] = active[c] \cup inactive[c]
      BY <1>0, <2>1, <3>1 DEF KnownPaths, TypeOK, VarTypes
    <3>4. KnownPaths'[k0] # KnownPaths[k0]
      BY <2>4, <3>2 DEF KnownPaths
    <3>5. x \in KnownPaths[k0] /\ KnownPaths'[k0] = KnownPaths[k0] \ {x}
      BY <3>3, <3>4
    <3>6. KnownPaths'[k0] # {}
      <4>1. c \in Registered'
        BY <2>1, <3>1 DEF Registered
      <4>2. active'[c] \cup inactive'[c] # {}
        BY <1>0, <4>1 DEF PeerHasPath
      <4>3. KnownPaths'[k0] = active'[c] \cup inactive'[c]
        BY <1>0, <2>1, <3>1 DEF KnownPaths, TypeOK, VarTypes
      <4>. QED
        BY <4>2, <4>3
    <3>7. KnownPaths' = [KnownPaths EXCEPT ![k0] = @ \ {x}]
      BY <3>2, <3>5 DEF KnownPaths
    <3>9. k0 \in ListedKeys
      BY <1>0, <2>1, <3>1 DEF ListedKeys
    <3>8. Abstract!Forget(k0, x)
      BY <2>0, <3>5, <3>6, <3>7, <3>9 DEF Abstract!Forget
    <3>. QED
      BY <2>1, <3>8 DEF Abstract!Next
  <2>. QED
    BY <2>3, <2>4
<1>4. ASSUME NEW w \in Workers, DispatchKnown(w) PROVE [Abstract!Next]_Abstract!vars
  <2> DEFINE p0 == workers[w].peer
             a0 == workers[w].path
  <2>5. p0 \in PeerObjs /\ a0 \in Paths
    <3>1. VarTypes
      BY <1>0 DEF TypeOK
    <3>. QED
      BY <3>1, <1>4 DEF DispatchKnown, VarTypes, WorkerState
  <2>1. /\ p0 \in PeerObjs /\ a0 \in Paths
        /\ active' = [active EXCEPT ![p0] = @ \cup {a0}]
        /\ inactive' = [inactive EXCEPT ![p0] = @ \ {a0}]
        /\ UNCHANGED registry
    BY <2>5, <1>4 DEF DispatchKnown, registerConnection
  <2>2. \A k \in Keys : registry[k] # p0 => KnownPaths'[k] = KnownPaths[k]
    BY <1>0, <2>1 DEF KnownPaths, TypeOK, VarTypes
  <2>0. UNCHANGED ListedKeys
    BY <2>1 DEF ListedKeys
  <2>3. CASE KnownPaths' = KnownPaths
    BY <2>0, <2>3 DEF Abstract!vars
  <2>4. CASE KnownPaths' # KnownPaths
    <3>1. PICK k0 \in Keys : registry[k0] = p0
      BY <2>2, <2>4 DEF KnownPaths
    <3>2. \A k \in Keys \ {k0} : KnownPaths'[k] = KnownPaths[k]
      BY <1>0, <2>1, <2>2, <3>1 DEF RegistryInjective, TypeOK, VarTypes
    <3>3. KnownPaths'[k0] = KnownPaths[k0] \cup {a0}
      BY <1>0, <2>1, <3>1 DEF KnownPaths, TypeOK, VarTypes
    <3>4. KnownPaths[k0] # {}
      BY <1>0, <2>1, <3>1 DEF PeerHasPath, Registered, KnownPaths
    <3>5. KnownPaths' = [KnownPaths EXCEPT ![k0] = @ \cup {a0}]
      BY <3>2, <3>3 DEF KnownPaths
    <3>7. k0 \in ListedKeys
      BY <1>0, <2>1, <3>1 DEF ListedKeys
    <3>6. Abstract!Learn(k0, a0)
      BY <2>0, <3>5, <3>7 DEF Abstract!Learn
    <3>. QED
      BY <2>1, <3>6 DEF Abstract!Next
  <2>. QED
    BY <2>3, <2>4
<1>5. ASSUME NEW w \in Workers, DispatchNew(w) PROVE [Abstract!Next]_Abstract!vars
  <2> DEFINE k0 == workers[w].key
             a0 == workers[w].path
  <2>1. k0 \in Keys /\ a0 \in Paths /\ PeerlistAdd(k0, a0)
    BY <1>0, <1>5 DEF DispatchNew, TypeOK, VarTypes
  <2>2. CASE UNCHANGED <<registry, active, inactive>>
    BY <2>2 DEF KnownPaths, ListedKeys, Abstract!vars
  <2>3. CASE registry[k0] = None
    <3>1. PICK p \in PeerObjs \ Referenced :
            /\ registry' = [registry EXCEPT ![k0] = p]
            /\ active' = [active EXCEPT ![p] = {a0}]
            /\ inactive' = [inactive EXCEPT ![p] = {}]
      BY <2>1, <2>3 DEF PeerlistAdd
    <3>2. \A k \in Keys : registry[k] # p
      BY <3>1 DEF Referenced, Registered
    <3>3. \A k \in Keys \ {k0} : KnownPaths'[k] = KnownPaths[k]
      BY <1>0, <3>1, <3>2 DEF KnownPaths, TypeOK, VarTypes
    <3>4. KnownPaths'[k0] = {a0} /\ KnownPaths[k0] = {}
      BY <1>0, <2>1, <2>3, <3>1 DEF KnownPaths, TypeOK, VarTypes
    <3>5. KnownPaths' = [KnownPaths EXCEPT ![k0] = {a0}]
      BY <2>1, <3>3, <3>4 DEF KnownPaths
    <3>7. k0 \notin ListedKeys /\ ListedKeys' = ListedKeys \cup {k0}
      <4>1. p # None
        BY <3>1
      <4>. QED
        <5>1. registry \in [Keys -> PeerObjs \cup {None}]
          BY <1>0 DEF TypeOK, VarTypes
        <5>. QED
          BY <5>1, <2>1, <2>3, <3>1, <4>1 DEF ListedKeys
    <3>6. Abstract!Join(k0, a0)
      BY <3>5, <3>7 DEF Abstract!Join
    <3>. QED
      BY <2>1, <3>6 DEF Abstract!Next
  <2>. QED
    BY <2>1, <2>2, <2>3 DEF PeerlistAdd, connVars
<1>6. ASSUME NEW k \in Keys, PeerlistRemove(k) PROVE [Abstract!Next]_Abstract!vars
  <2>1. /\ registry[k] # None
        /\ registry' = [registry EXCEPT ![k] = None]
        /\ UNCHANGED <<active, inactive>>
    BY <1>6 DEF PeerlistRemove
  <2>2. k \in ListedKeys /\ ListedKeys' = ListedKeys \ {k}
    BY <1>0, <2>1 DEF ListedKeys, TypeOK, VarTypes
  <2>3. KnownPaths' = [KnownPaths EXCEPT ![k] = {}]
    BY <1>0, <2>1 DEF KnownPaths, TypeOK, VarTypes
  <2>4. Abstract!Leave(k)
    BY <2>2, <2>3 DEF Abstract!Leave
  <2>. QED
    BY <2>4 DEF Abstract!Next
<1>7. CASE \/ Tick \/ ListPeers \/ NextPeer \/ EndRound \/ Check \/ EndActive \/ EndPeer
  BY <1>1, <1>7 DEF Tick, ListPeers, NextPeer, EndRound, Check, EndActive, EndPeer
<1>8. ASSUME NEW w \in Workers, Receive(w) \/ DispatchIgnored(w)
      PROVE  UNCHANGED <<registry, active, inactive>>
  BY <1>8 DEF Receive, DispatchIgnored
<1>9. ASSUME NEW p \in PeerObjs, NEW a \in Paths, SetRedundant(p, a)
      PROVE  UNCHANGED <<registry, active, inactive>>
  BY <1>9 DEF SetRedundant
<1>10. UNCHANGED vars => UNCHANGED <<registry, active, inactive>>
  BY DEF vars
<1>. QED
  BY <1>1, <1>2, <1>3, <1>4, <1>5, <1>6, <1>7, <1>8, <1>9, <1>10
  DEF Next, SchedStep, WorkerStep

(* The registry, the connection lists and the keep-alive loop implement    *)
(* PeerPaths: whatever the interleaving of workers, PeerlistRemove and     *)
(* autoPingAll, an identity enters the peer list with its first path,      *)
(* gains paths only from packets, loses them one at a time and never the   *)
(* last, and is emptied only by PeerlistRemove.                            *)
THEOREM Refinement == Spec => PeerPathsRefined
<1>1. Init => Abstract!Init
  BY DEF Init, Abstract!Init, KnownPaths, ListedKeys
<1>2. IInv2 /\ IInv2' /\ [Next]_vars => [Abstract!Next]_Abstract!vars
  BY RefineStep
<1>. QED
  BY <1>1, <1>2, IInv2Init, IInv2Step, PTL DEF Spec, PeerPathsRefined, Abstract!Spec

=============================================================================
