--------------------------- MODULE PeerConnections ---------------------------
(***************************************************************************)
(* The peer registry, the per-peer connection lists and the keep-alive     *)
(* loop of peernet-core, with the packet workers that feed them.           *)
(*                                                                         *)
(*   - registry models peerList (Peer ID.go), the map from a public key to *)
(*     its PeerInfo object; PeerInfo objects are the model values PeerObjs. *)
(*   - active[p] / inactive[p] are connectionActive / connectionInactive of *)
(*     PeerInfo p; a connection is named by its remote address (Paths).    *)
(*   - status, ageIn, agePing, ageInv are the Connection fields Status,    *)
(*     LastPacketIn, LastPingOut and Expires.  Time is kept as the age of  *)
(*     each time stamp in keep-alive ticks, saturated just above the       *)
(*     largest threshold it is compared with, so that every comparison of  *)
(*     autoPingAll (Commands.go) keeps its outcome.                        *)
(*   - sched is the autoPingAll goroutine, workers the packetWorker        *)
(*     goroutines.                                                         *)
(***************************************************************************)
EXTENDS Naturals, FiniteSets

CONSTANTS
    Keys,                 \* public keys of remote peers
    PeerObjs,             \* PeerInfo objects (heap addresses)
    Paths,                \* remote addresses a connection can use
    Workers,              \* packetWorker goroutines
    InCommands,           \* command codes that arrive in packets
    PingTime,             \* pingTime (Commands.go)
    ConnectionInvalidate, \* connectionInvalidate (Commands.go)
    ConnectionRemove,     \* connectionRemove (Commands.go)
    RedundantFactor,      \* multiplier of the thresholds of redundant connections (4)
    FatalErrors,          \* whether a send may report a fatal network error
    None                  \* nil

ASSUME ConstAssumption ==
    /\ IsFiniteSet(Paths)
    /\ None \notin PeerObjs
    /\ PingTime \in Nat \ {0}
    /\ ConnectionInvalidate \in Nat \ {0}
    /\ ConnectionRemove \in Nat \ {0}
    /\ RedundantFactor \in Nat \ {0}
    /\ FatalErrors \in BOOLEAN
    /\ InCommands \subseteq Nat

VARIABLES registry, active, inactive, status, ageIn, agePing, ageInv,
          workers, sched

vars == <<registry, active, inactive, status, ageIn, agePing, ageInv,
          workers, sched>>
connVars == <<status, ageIn, agePing, ageInv>>

(* Command codes, Commands.go. *)
CommandAnnouncement == 0
CommandResponse     == 1
CommandPing         == 2
CommandPong         == 3
CommandChat         == 10

Statuses == {"Active", "Redundant", "Inactive"}

(* Saturation points of the ages: one above the largest threshold each     *)
(* time stamp is compared with.                                            *)
InCap   == RedundantFactor * ConnectionInvalidate + 1
PingCap == RedundantFactor * PingTime + 1
InvCap  == ConnectionRemove + 1

(* One keep-alive tick later. *)
Older(x, cap) == IF x < cap THEN x + 1 ELSE cap

(* Thresholds of the active-connection loop, picked by the status. *)
ThrInv(st)  == IF st = "Redundant" THEN RedundantFactor * ConnectionInvalidate
                                   ELSE ConnectionInvalidate
ThrPing(st) == IF st = "Redundant" THEN RedundantFactor * PingTime
                                   ELSE PingTime

Registered == {registry[k] : k \in Keys} \ {None}

(* A path is a connection of p when it is in one of p's lists. *)
Listed(p, a) == a \in active[p] \cup inactive[p]

(* PeerInfo objects still reachable from some goroutine or the registry:   *)
(* only the others may be handed out again by a later allocation.         *)
Referenced ==
    Registered \cup {workers[w].peer : w \in Workers}
               \cup sched.todo \cup {sched.cur}

WorkerState ==
    [pc : {"idle", "dispatch"}, key : Keys \cup {None}, path : Paths \cup {None},
     cmd : InCommands \cup {None}, peer : PeerObjs \cup {None}]
SchedState ==
    [pc : {"sleep", "list", "peers", "conns", "act"},
     todo : SUBSET PeerObjs, cur : PeerObjs \cup {None},
     phase : {"active", "inactive"}, conns : SUBSET Paths,
     conn : Paths \cup {None},
     decision : {"invalidate", "ping", "remove", "none"}]

(* Where a connection is, by its Status. *)
ListShape ==
    \A p \in PeerObjs, a \in Paths :
        /\ a \in active[p] => a \notin inactive[p] /\ status[p][a] # "Inactive"
        /\ a \in inactive[p] => status[p][a] = "Inactive"

(* The type invariant.  Besides the types of the variables, it states   *)
(* the shape of a PeerInfo's two lists that Connection.go maintains under  *)
(* the peer's lock: a connection is in one list at most, and its Status    *)
(* says which (Active or Redundant in connectionActive, Inactive in        *)
(* connectionInactive), whichever worker or keep-alive step moved it last. *)
VarTypes ==
    /\ registry \in [Keys -> PeerObjs \cup {None}]
    /\ active \in [PeerObjs -> SUBSET Paths]
    /\ inactive \in [PeerObjs -> SUBSET Paths]
    /\ status \in [PeerObjs -> [Paths -> Statuses]]
    /\ ageIn \in [PeerObjs -> [Paths -> 0..InCap]]
    /\ agePing \in [PeerObjs -> [Paths -> 0..PingCap]]
    /\ ageInv \in [PeerObjs -> [Paths -> 0..InvCap]]
    /\ workers \in [Workers -> WorkerState]
    /\ sched \in SchedState
    /\ \A w \in Workers : workers[w].pc = "dispatch" =>
          workers[w].key \in Keys /\ workers[w].path \in Paths
    /\ sched.pc \in {"conns", "act"} => sched.cur \in PeerObjs
    /\ sched.pc = "act" => sched.conn \in Paths

TypeOK == VarTypes /\ ListShape

IdleWorker == [pc |-> "idle", key |-> None, path |-> None, cmd |-> None,
               peer |-> None]

Init ==
    /\ registry = [k \in Keys |-> None]
    /\ active = [p \in PeerObjs |-> {}]
    /\ inactive = [p \in PeerObjs |-> {}]
    /\ status = [p \in PeerObjs |-> [a \in Paths |-> "Active"]]
    /\ ageIn = [p \in PeerObjs |-> [a \in Paths |-> 0]]
    /\ agePing = [p \in PeerObjs |-> [a \in Paths |-> PingCap]]
    /\ ageInv = [p \in PeerObjs |-> [a \in Paths |-> InvCap]]
    /\ workers = [w \in Workers |-> IdleWorker]
    /\ sched = [pc |-> "sleep", todo |-> {}, cur |-> None, phase |-> "active",
                conns |-> {}, conn |-> None, decision |-> "none"]

(***************************************************************************)
(* Operations on a PeerInfo's connection lists.  Their code (Connection.go *)
(* of the repository) is not part of the sources at hand; they follow the  *)
(* contract of the spec: each runs under the peer's lock, so each is one   *)
(* atomic step.                                                            *)
(***************************************************************************)

(* invalidateActiveConnection: move an active connection to the inactive   *)
(* list, marking it Inactive and starting its expiry; no-op otherwise.     *)
invalidateActiveConnection(p, a) ==
    \/ /\ a \in active[p]
       /\ active' = [active EXCEPT ![p] = @ \ {a}]
       /\ inactive' = [inactive EXCEPT ![p] = @ \cup {a}]
       /\ status' = [status EXCEPT ![p][a] = "Inactive"]
       /\ ageInv' = [ageInv EXCEPT ![p][a] = 0]
    \/ /\ a \notin active[p]
       /\ UNCHANGED <<active, inactive, status, ageInv>>

(* removeInactiveConnection: drop a connection from the inactive list.     *)
removeInactiveConnection(p, a) ==
    /\ inactive' = [inactive EXCEPT ![p] = @ \ {a}]
    /\ UNCHANGED <<active, status, ageIn, agePing, ageInv>>

(* Mutant of registerConnection: a known inactive connection is appended  *)
(* to connectionActive but not taken off connectionInactive.              *)
registerConnectionKeepsInactive(p, a) ==
    /\ active' = [active EXCEPT ![p] = @ \cup {a}]
    /\ UNCHANGED inactive
    /\ status' = [status EXCEPT ![p][a] = "Active"]
    /\ ageIn' = [ageIn EXCEPT ![p][a] = 0]
    /\ agePing' = [agePing EXCEPT ![p][a] = IF Listed(p, a) THEN @ ELSE PingCap]
    /\ ageInv' = [ageInv EXCEPT ![p][a] = IF Listed(p, a) THEN @ ELSE InvCap]

(* registerConnection: a packet arrived from path a for peer p.  A known   *)
(* connection is refreshed and (if inactive) moved back to the active      *)
(* list; an unknown one is added as a new active connection whose          *)
(* LastPingOut and Expires are the zero time.                              *)
registerConnection(p, a) ==
    /\ active' = [active EXCEPT ![p] = @ \cup {a}]
    /\ inactive' = [inactive EXCEPT ![p] = @ \ {a}]
    /\ status' = [status EXCEPT ![p][a] = "Active"]
    /\ ageIn' = [ageIn EXCEPT ![p][a] = 0]
    /\ agePing' = [agePing EXCEPT ![p][a] = IF Listed(p, a) THEN @ ELSE PingCap]
    /\ ageInv' = [ageInv EXCEPT ![p][a] = IF Listed(p, a) THEN @ ELSE InvCap]

(* The outcomes IsNetworkErrorFatal can report for a send. *)
SendOutcomes == IF FatalErrors THEN BOOLEAN ELSE {FALSE}

(* Mutant of sendPing: the time of the ping stamped into LastPacketIn     *)
(* instead of LastPingOut.                                                 *)
sendPingStampsIn(p, a) ==
    \E fatal \in SendOutcomes :
        IF fatal /\ status[p][a] \in {"Active", "Redundant"}
        THEN /\ invalidateActiveConnection(p, a)
             /\ ageIn' = [ageIn EXCEPT ![p][a] = 0]
             /\ UNCHANGED agePing
        ELSE /\ ageIn' = [ageIn EXCEPT ![p][a] = 0]
             /\ UNCHANGED <<active, inactive, status, agePing, ageInv>>

(* sendPing: send, stamp LastPingOut, and invalidate an active or          *)
(* redundant connection whose send failed fatally.                         *)
sendPing(p, a) ==
    \E fatal \in SendOutcomes :
        IF fatal /\ status[p][a] \in {"Active", "Redundant"}
        THEN /\ invalidateActiveConnection(p, a)
             /\ agePing' = [agePing EXCEPT ![p][a] = 0]
             /\ UNCHANGED ageIn
        ELSE /\ agePing' = [agePing EXCEPT ![p][a] = 0]
             /\ UNCHANGED <<active, inactive, status, ageIn, ageInv>>

(***************************************************************************)
(* Peer registry (Peer ID.go).                                             *)
(***************************************************************************)

(* Mutant of PeerlistAdd: the lookup of the key dropped, so a second      *)
(* first packet replaces the PeerInfo the first one added.                 *)
PeerlistAddNoLookup(k, a) ==
    \E p \in PeerObjs \ Referenced :
        /\ registry' = [registry EXCEPT ![k] = p]
        /\ active' = [active EXCEPT ![p] = {a}]
        /\ inactive' = [inactive EXCEPT ![p] = {}]
        /\ status' = [status EXCEPT ![p][a] = "Active"]
        /\ ageIn' = [ageIn EXCEPT ![p][a] = 0]
        /\ agePing' = [agePing EXCEPT ![p][a] = PingCap]
        /\ ageInv' = [ageInv EXCEPT ![p][a] = InvCap]

(* PeerlistAdd(k, a): if k is known, nothing; otherwise a new PeerInfo     *)
(* whose only connection is a, Active, becomes k's entry.                  *)
PeerlistAdd(k, a) ==
    \/ /\ registry[k] # None
       /\ UNCHANGED <<registry, active, inactive, connVars>>
    \/ /\ registry[k] = None
       /\ \E p \in PeerObjs \ Referenced :
            /\ registry' = [registry EXCEPT ![k] = p]
            /\ active' = [active EXCEPT ![p] = {a}]
            /\ inactive' = [inactive EXCEPT ![p] = {}]
            /\ status' = [status EXCEPT ![p][a] = "Active"]
            /\ ageIn' = [ageIn EXCEPT ![p][a] = 0]
            /\ agePing' = [agePing EXCEPT ![p][a] = PingCap]
            /\ ageInv' = [ageInv EXCEPT ![p][a] = InvCap]

(* PeerlistRemove: an administrative removal of k's entry. *)
PeerlistRemove(k) ==
    /\ registry[k] # None
    /\ registry' = [registry EXCEPT ![k] = None]
    /\ UNCHANGED <<active, inactive, connVars, workers, sched>>

(***************************************************************************)
(* Packet workers: a decoded packet (key, path, command) is taken from the *)
(* queue and its sender looked up (PeerlistLookup); then, in a later step, *)
(* the packet is registered with the peer found and dispatched to its      *)
(* command handler.                                                        *)
(***************************************************************************)
Receive(w) ==
    /\ workers[w].pc = "idle"
    /\ \E k \in Keys, a \in Paths, c \in InCommands :
         workers' = [workers EXCEPT ![w] = [pc |-> "dispatch", key |-> k,
                        path |-> a, cmd |-> c, peer |-> registry[k]]]
    /\ UNCHANGED <<registry, active, inactive, connVars, sched>>

(* Known sender: the connection is registered, then the handler replies    *)
(* (Response, Pong) on the peer's latest connection or does nothing.       *)
DispatchKnown(w) ==
    /\ workers[w].pc = "dispatch"
    /\ workers[w].peer # None
    /\ registerConnection(workers[w].peer, workers[w].path)
    /\ workers' = [workers EXCEPT ![w] = IdleWorker]
    /\ UNCHANGED <<registry, sched>>

(* Unknown sender of an Announcement or a Response: cmdAnouncement /       *)
(* cmdResponse add it to the peer list from this connection.               *)
DispatchNew(w) ==
    /\ workers[w].pc = "dispatch"
    /\ workers[w].peer = None
    /\ workers[w].cmd \in {CommandAnnouncement, CommandResponse}
    /\ PeerlistAdd(workers[w].key, workers[w].path)
    /\ workers' = [workers EXCEPT ![w] = IdleWorker]
    /\ UNCHANGED sched

(* Unknown sender of any other command: cmdPing's TODO, cmdPong, cmdChat   *)
(* and unknown codes change nothing.                                       *)
DispatchIgnored(w) ==
    /\ workers[w].pc = "dispatch"
    /\ workers[w].peer = None
    /\ workers[w].cmd \notin {CommandAnnouncement, CommandResponse}
    /\ workers' = [workers EXCEPT ![w] = IdleWorker]
    /\ UNCHANGED <<registry, active, inactive, connVars, sched>>

(* A newer preferred path makes an active connection Redundant (spec 3). *)
SetRedundant(p, a) ==
    /\ a \in active[p]
    /\ status[p][a] = "Active"
    /\ active[p] \ {a} # {}
    /\ status' = [status EXCEPT ![p][a] = "Redundant"]
    /\ UNCHANGED <<registry, active, inactive, ageIn, agePing, ageInv,
                   workers, sched>>

(***************************************************************************)
(* The keep-alive loop autoPingAll.  One round: sleep a tick, snapshot the *)
(* peer list, and for each peer snapshot its active connections, check     *)
(* each one (the check reads Status, LastPacketIn and LastPingOut without  *)
(* the peer's lock) and then act on it under the lock; then the same for   *)
(* the inactive connections.                                               *)
(***************************************************************************)

(* time.Sleep(time.Second) and the thresholds of the new round. *)
Tick ==
    /\ sched.pc = "sleep"
    /\ ageIn' = [p \in PeerObjs |-> [a \in Paths |->
                    IF Listed(p, a) THEN Older(ageIn[p][a], InCap)
                                    ELSE ageIn[p][a]]]
    /\ agePing' = [p \in PeerObjs |-> [a \in Paths |->
                    IF Listed(p, a) THEN Older(agePing[p][a], PingCap)
                                    ELSE agePing[p][a]]]
    /\ ageInv' = [p \in PeerObjs |-> [a \in Paths |->
                    IF Listed(p, a) THEN Older(ageInv[p][a], InvCap)
                                    ELSE ageInv[p][a]]]
    /\ sched' = [sched EXCEPT !.pc = "list"]
    /\ UNCHANGED <<registry, active, inactive, status, workers>>

(* PeerlistGet: a snapshot of the peer list. *)
ListPeers ==
    /\ sched.pc = "list"
    /\ sched' = [sched EXCEPT !.pc = "peers", !.todo = Registered]
    /\ UNCHANGED <<registry, active, inactive, connVars, workers>>

(* Next peer of the snapshot: GetConnections(true). *)
NextPeer ==
    /\ sched.pc = "peers"
    /\ \E p \in sched.todo :
         sched' = [sched EXCEPT !.pc = "conns", !.todo = @ \ {p}, !.cur = p,
                                !.phase = "active", !.conns = active[p]]
    /\ UNCHANGED <<registry, active, inactive, connVars, workers>>

EndRound ==
    /\ sched.pc = "peers"
    /\ sched.todo = {}
    /\ sched' = [sched EXCEPT !.pc = "sleep", !.cur = None]
    /\ UNCHANGED <<registry, active, inactive, connVars, workers>>

(* What the loop decides for a connection of the active snapshot. *)
ActiveDecision(p, a) ==
    LET st == status[p][a] IN
    IF ageIn[p][a] > ThrInv(st) THEN "invalidate"
    ELSE IF ageIn[p][a] > ThrPing(st) /\ agePing[p][a] > ThrPing(st) THEN "ping"
    ELSE "none"

(* Mutant of InactiveDecision: the purge guard on the list lengths        *)
(* dropped, only the expiry checked.                                       *)
InactiveDecisionNoGuard(p, a) ==
    IF ageInv[p][a] > ConnectionRemove THEN "remove"
    ELSE IF agePing[p][a] > PingTime THEN "ping"
    ELSE "none"

(* Mutant of InactiveDecision: len(peer.connectionInactive) > 1. *)
InactiveDecisionOffByOne(p, a) ==
    IF /\ active[p] # {} \/ Cardinality(inactive[p]) > 1
       /\ ageInv[p][a] > ConnectionRemove
    THEN "remove"
    ELSE IF agePing[p][a] > PingTime THEN "ping"
    ELSE "none"

(* What the loop decides for a connection of the inactive snapshot: the   *)
(* guard reads the current lengths of both lists.                          *)
InactiveDecision(p, a) ==
    IF /\ active[p] # {} \/ Cardinality(inactive[p]) > 2
       /\ ageInv[p][a] > ConnectionRemove
    THEN "remove"
    ELSE IF agePing[p][a] > PingTime THEN "ping"
    ELSE "none"

(* The unlocked check of one connection of the current snapshot. *)
Check ==
    /\ sched.pc = "conns"
    /\ \E a \in sched.conns :
         LET d == IF sched.phase = "active" THEN ActiveDecision(sched.cur, a)
                                            ELSE InactiveDecision(sched.cur, a)
         IN  sched' = [sched EXCEPT !.pc = IF d = "none" THEN "conns" ELSE "act",
                                    !.conns = @ \ {a},
                                    !.conn = IF d = "none" THEN None ELSE a,
                                    !.decision = d]
    /\ UNCHANGED <<registry, active, inactive, connVars, workers>>

AfterAct == [sched EXCEPT !.pc = "conns", !.conn = None, !.decision = "none"]

ActInvalidate ==
    /\ sched.pc = "act"
    /\ sched.decision = "invalidate"
    /\ invalidateActiveConnection(sched.cur, sched.conn)
    /\ sched' = AfterAct
    /\ UNCHANGED <<registry, ageIn, agePing, workers>>

ActPing ==
    /\ sched.pc = "act"
    /\ sched.decision = "ping"
    /\ sendPing(sched.cur, sched.conn)
    /\ sched' = AfterAct
    /\ UNCHANGED <<registry, workers>>

ActRemove ==
    /\ sched.pc = "act"
    /\ sched.decision = "remove"
    /\ removeInactiveConnection(sched.cur, sched.conn)
    /\ sched' = AfterAct
    /\ UNCHANGED <<registry, workers>>

(* Active snapshot done: GetConnections(false). *)
EndActive ==
    /\ sched.pc = "conns"
    /\ sched.phase = "active"
    /\ sched.conns = {}
    /\ sched' = [sched EXCEPT !.phase = "inactive", !.conns = inactive[sched.cur]]
    /\ UNCHANGED <<registry, active, inactive, connVars, workers>>

EndPeer ==
    /\ sched.pc = "conns"
    /\ sched.phase = "inactive"
    /\ sched.conns = {}
    /\ sched' = [sched EXCEPT !.pc = "peers", !.cur = None, !.phase = "active"]
    /\ UNCHANGED <<registry, active, inactive, connVars, workers>>

SchedStep ==
    \/ Tick \/ ListPeers \/ NextPeer \/ EndRound \/ Check
    \/ ActInvalidate \/ ActPing \/ ActRemove \/ EndActive \/ EndPeer

WorkerStep(w) ==
    Receive(w) \/ DispatchKnown(w) \/ DispatchNew(w) \/ DispatchIgnored(w)

Next ==
    \/ SchedStep
    \/ \E w \in Workers : WorkerStep(w)
    \/ \E k \in Keys : PeerlistRemove(k)
    \/ \E p \in PeerObjs, a \in Paths : SetRedundant(p, a)

(* The keep-alive goroutine is always runnable once its timer fires; the  *)
(* workers and the administrative calls are driven by the environment.    *)
Spec == Init /\ [][Next]_vars /\ WF_vars(SchedStep)

-----------------------------------------------------------------------------
(***************************************************************************)
(* Properties.                                                             *)
(***************************************************************************)

(* A connection of p is purged in this step: it leaves the inactive list   *)
(* without going back to the active one.                                   *)
Purged(p, a) == a \in inactive[p] /\ a \notin inactive'[p] /\ a \notin active'[p]

(* Never drop the last known path: every peer in the peer list has at     *)
(* least one connection, active or inactive, whatever the keep-alive loop  *)
(* and the workers do to its lists (autoPingAll's purge guard).            *)
PeerHasPath == \A p \in Registered : active[p] \cup inactive[p] # {}

(* The purge of an inactive connection by autoPingAll happens only after   *)
(* its expiry and leaves its peer with an active connection or at least    *)
(* two inactive ones (the code comment at Commands.go:134), even though    *)
(* the guard is read before the peer's lock is taken.                      *)
PurgeSafe ==
    [][\A p \in Registered \cap Registered', a \in Paths :
         Purged(p, a) =>
            /\ ageInv[p][a] > ConnectionRemove
            /\ active'[p] # {} \/ Cardinality(inactive'[p]) >= 2]_vars

(* Spec 4.5: an expired inactive connection is purged only if the peer    *)
(* keeps an active connection or MORE than two other inactive ones.        *)
EvictionGuardSpec ==
    [][\A p \in Registered \cap Registered', a \in Paths :
         Purged(p, a) => active'[p] # {} \/ Cardinality(inactive'[p]) > 2]_vars

(* Spec 3 and 5: an active or redundant connection becomes inactive only  *)
(* when no packet arrived within its invalidation threshold (meaningful    *)
(* where sends report no fatal errors, which invalidate at once).          *)
NoFreshInvalidation ==
    [][\A p \in PeerObjs, a \in Paths :
         a \in active[p] /\ a \in inactive'[p] => ageIn[p][a] > ThrInv(status[p][a])]_vars

(* A packet from path a is registered with PeerInfo p in this step. *)
PacketOn(p, a) ==
    \E w \in Workers : DispatchKnown(w) /\ workers[w].peer = p /\ workers[w].path = a

(* A connection from which no packet arrives any more, of a peer that      *)
(* stays in the peer list, is eventually and for good out of the active    *)
(* list: autoPingAll invalidates it once LastPacketIn passes its threshold *)
(* (pings it sends must not count as liveness).                            *)
SilentInvalidated ==
    \A p \in PeerObjs, a \in Paths :
        (<>[](p \in Registered) /\ <>[][~PacketOn(p, a)]_vars)
            => <>[](a \notin active[p])

-----------------------------------------------------------------------------
(***************************************************************************)
(* Refinement of PeerPaths: the listed identities are the keys the peer    *)
(* list maps to a PeerInfo; the paths the node knows for identity k are    *)
(* the connections, in either list, of that PeerInfo.                      *)
(***************************************************************************)
ListedKeys == {k \in Keys : registry[k] # None}

KnownPaths ==
    [k \in Keys |-> IF registry[k] = None THEN {}
                    ELSE active[registry[k]] \cup inactive[registry[k]]]

Abstract == INSTANCE PeerPaths WITH listed <- ListedKeys, known <- KnownPaths

(* The peer list and the connection lists, changed by the workers'         *)
(* handlers, PeerlistRemove and the keep-alive loop's invalidations and    *)
(* purges in any interleaving, behave as PeerPaths: an identity enters     *)
(* with its first path, gains paths only from packets, loses them one at a *)
(* time and never the last, and is emptied only by PeerlistRemove.         *)
PeerPathsRefined == Abstract!Spec

=============================================================================
