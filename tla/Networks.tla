------------------------------ MODULE Networks ------------------------------
(***************************************************************************)
(* The listener lists networks4 / networks6 and the goroutine that keeps   *)
(* them in step with the machine's network adapters: initNetwork opens a   *)
(* listener per address at start-up (Network Init.go), networkChangeMonitor*)
(* compares each snapshot of the adapters with the previous one and opens  *)
(* listeners for new addresses or terminates and unlists the listeners of  *)
(* removed addresses and adapters (Network Detection.go).                  *)
(*                                                                         *)
(* A listener is a model value of Listeners (a *Network); its adapter and  *)
(* IP are fixed when it is opened.  A listener list is a sequence.  The    *)
(* removal loops splice the slice they range over; they are modelled with  *)
(* Go's slice semantics: the range reads the shared backing array, and     *)
(* networks6[:n] may reach past the current length up to the capacity.     *)
(* Every change of the lists is made by the monitor goroutine (or by       *)
(* initNetwork before it starts); each iteration of a removal loop is one  *)
(* step, between which only the machine's adapters change.                 *)
(***************************************************************************)
EXTENDS Naturals, Sequences, FiniteSets

CONSTANTS
    Ifaces,          \* adapter names
    IPs,             \* non-loopback addresses the adapters may carry
    IPv4,            \* the IPv4 ones; the others are IPv6
    Listeners,       \* *Network objects
    BindFailures,    \* whether networkPrepareListen may fail to bind
    MaxChanges       \* bound on the adapter changes of a behaviour

ASSUME NetAssumption ==
    /\ IPv4 \subseteq IPs
    /\ BindFailures \in BOOLEAN
    /\ MaxChanges \in Nat

VARIABLES
    osUp, osAddrs,       \* the adapters as net.Interfaces / Addrs report them
    changes,             \* adapter changes so far
    existUp, existAddrs, \* ifacesExist: names and addresses of the last snapshot
    nets,                \* nets["v4"] = networks4, nets["v6"] = networks6
    lIface, lIP,         \* network.iface and network.address.IP ("none": never opened)
    used,                \* the listener objects that have been opened
    term,                \* Terminate() calls per listener, 2 meaning "2 or more"
    mon,                 \* the monitor goroutine
    listenCfg,           \* config.Listen: the addresses the user gave, {} if none
    ipsListen            \* ipsListen: the listen addresses recorded for IsAddressSelf

vars == <<osUp, osAddrs, changes, existUp, existAddrs, nets, lIface, lIP,
          used, term, mon, listenCfg, ipsListen>>

Families == {"v4", "v6"}

(* IsIPv4: which list a listener on ip joins. *)
Family(ip) == IF ip \in IPv4 THEN "v4" ELSE "v6"

(* The elements of a sequence (SequencesExt's ToSet, written out here so   *)
(* that the module reaches no RECURSIVE operator and can be reasoned about *)
(* by the provers).                                                        *)
ToSet(s) == {s[i] : i \in DOMAIN s}

Listed == ToSet(nets["v4"]) \cup ToSet(nets["v6"])

(* Objects no list or goroutine holds any more: never opened, or           *)
(* terminated and unlisted.                                                *)
Free == (Listeners \ used) \cup {l \in used : term[l] > 0 /\ l \notin Listed}

MonState ==
    [pc : {"manual", "off", "boot", "sleep", "iface", "open", "remove", "gone",
           "loop"},
     todo : SUBSET Ifaces,              \* adapters of the snapshot left to visit
     snapAddrs : [Ifaces -> SUBSET IPs], \* the addresses the snapshot reported
     newUp : SUBSET Ifaces,             \* ifacesNew: names
     newAddrs : [Ifaces -> SUBSET IPs],  \* ifacesNew: addresses
     cur : Ifaces \cup {"none"},        \* the adapter being handled
     opens : SUBSET IPs,                \* addresses still to open
     removes : SUBSET IPs,              \* addresses still to remove
     gone : SUBSET Ifaces,              \* vanished adapters still to remove
     by : {"ip", "iface"},              \* the removal loop running: which test,
     rm : IPs \cup Ifaces \cup {"none"}, \* ... for which address or adapter,
     fam : Families,                    \* ... over which list,
     arr : Seq(Listeners),              \* ... the backing array it ranges over,
     n : Nat]                           \* ... and the index it has reached

TypeOK ==
    /\ osUp \in SUBSET Ifaces
    /\ osAddrs \in [Ifaces -> SUBSET IPs]
    /\ changes \in 0..MaxChanges
    /\ existUp \in SUBSET Ifaces
    /\ existAddrs \in [Ifaces -> SUBSET IPs]
    /\ nets \in [Families -> Seq(Listeners)]
    /\ lIface \in [Listeners -> Ifaces \cup {"none"}]
    /\ lIP \in [Listeners -> IPs \cup {"none"}]
    /\ used \in SUBSET Listeners
    /\ term \in [Listeners -> 0..2]
    /\ mon \in MonState
    /\ listenCfg \in SUBSET IPs
    /\ ipsListen \in SUBSET IPs

NoAddrs == [i \in Ifaces |-> {}]

(***************************************************************************)
(* The removal loop of networkChangeInterfaceRemove / networkChangeIPRemove*)
(* splices the list it ranges over.  The range reads the backing array arr *)
(* of the slice it started on; the list is arr[1..len].  Removing element  *)
(* n+1 (Go's n) makes networks6[:n], then appends networks6[n+1:] in place *)
(* when n < len - 1: the tail moves down by one; when n >= len the         *)
(* reslice re-extends the list up to n.                                    *)
(***************************************************************************)
(* Mutant of SpliceStep: the tail appended from networks6[n+2:]. *)
SpliceStepSkipsNext(arr, n, len) ==
    [arr |-> [j \in DOMAIN arr |->
                IF j > n /\ j < len - 1 THEN arr[j + 2] ELSE arr[j]],
     len |-> IF n < len - 1 THEN len - 2 ELSE IF n < len THEN len - 1 ELSE n]

SpliceStep(arr, n, len) ==
    [arr |-> [j \in DOMAIN arr |-> IF j > n /\ j < len THEN arr[j + 1] ELSE arr[j]],
     len |-> IF n < len THEN len - 1 ELSE n]

(* networkChangeIPRemove's test: network.address.IP.Equal(ip). *)
MatchesIP(l, ip) == lIP[l] = ip

(* networkChangeInterfaceRemove's test: network.iface.Name == iface. *)
MatchesIface(l, i) == lIface[l] = i

(* network.Terminate(), counted up to 2. *)
Terminate(l) == term' = [term EXCEPT ![l] = IF @ < 2 THEN @ + 1 ELSE 2]

(***************************************************************************)
(* networkPrepareListen(ip, 0): FindInterfaceByIP looks the address up in  *)
(* the live adapter list (failing when no adapter has it); the bind may    *)
(* fail; on success the new listener is appended to the list of its       *)
(* family.  Both failures return an error and change nothing.              *)
(***************************************************************************)
(* FindInterfaceByIP: the adapters that carry the address. *)
Carriers(ip) == {i \in Ifaces : ip \in osAddrs[i]}

(* Mutant of networkPrepareListen: the iface == nil check after          *)
(* FindInterfaceByIP dropped, a listener opened with no adapter.           *)
networkPrepareListenNoIfaceCheck(ip) ==
    \/ /\ \E l \in Free,
               i \in IF Carriers(ip) \cap osUp = {} THEN {"nil"} ELSE Carriers(ip) \cap osUp :
            /\ nets' = [nets EXCEPT ![Family(ip)] = Append(@, l)]
            /\ used' = used \cup {l}
            /\ lIface' = [lIface EXCEPT ![l] = i]
            /\ lIP' = [lIP EXCEPT ![l] = ip]
            /\ term' = [term EXCEPT ![l] = 0]
    \/ /\ BindFailures
       /\ UNCHANGED <<nets, used, lIface, lIP, term>>

networkPrepareListen(ip) ==
    \/ /\ \E l \in Free, i \in Carriers(ip) \cap osUp :
            /\ nets' = [nets EXCEPT ![Family(ip)] = Append(@, l)]
            /\ used' = used \cup {l}
            /\ lIface' = [lIface EXCEPT ![l] = i]
            /\ lIP' = [lIP EXCEPT ![l] = ip]
            /\ term' = [term EXCEPT ![l] = 0]
    \/ /\ BindFailures \/ Carriers(ip) \cap osUp = {}
       /\ UNCHANGED <<nets, used, lIface, lIP, term>>

(***************************************************************************)
(* The self-address filter.  ipsListen is keyed by "ip:port"; the port     *)
(* comes from AutoAssignPort, which is not in the sources at hand, so the  *)
(* model keys it by the IP alone.                                          *)
(***************************************************************************)
addListenAddress(ip) == ipsListen' = ipsListen \cup {ip}

(* IsAddressSelf: a datagram from this address is dropped as an echo. *)
IsAddressSelf(ip) == ip \in ipsListen

(* After networkPrepareListen: the address is recorded only if the        *)
(* listener was opened (it was appended to its list).                      *)
RecordIfOpened(ip) ==
    IF nets' # nets THEN addListenAddress(ip) ELSE UNCHANGED ipsListen

(***************************************************************************)
(* initNetwork with config.Listen set: a listener for each configured      *)
(* address, nothing recorded in ipsListen; networkChangeMonitor then       *)
(* returns at once.                                                        *)
(***************************************************************************)
ManualOpen ==
    /\ mon.pc = "manual"
    /\ \E ip \in mon.opens :
         /\ networkPrepareListen(ip)
         /\ mon' = [mon EXCEPT !.opens = @ \ {ip}]
    /\ UNCHANGED <<osUp, osAddrs, changes, existUp, existAddrs, listenCfg,
                   ipsListen>>

ManualDone ==
    /\ mon.pc = "manual"
    /\ mon.opens = {}
    /\ mon' = [mon EXCEPT !.pc = "off"]
    /\ UNCHANGED <<osUp, osAddrs, changes, existUp, existAddrs, nets, lIface,
                   lIP, used, term, listenCfg, ipsListen>>

(* Both goroutines have returned; the listeners stay as they are. *)
MonitorOff ==
    /\ mon.pc = "off"
    /\ UNCHANGED vars

(***************************************************************************)
(* initNetwork: for each adapter (mon.todo), Addrs(), then a listener for  *)
(* each address (mon.opens), in the order the adapters report them.        *)
(***************************************************************************)
BootIface ==
    /\ mon.pc = "boot"
    /\ mon.opens = {}
    /\ \E i \in mon.todo :
         mon' = [mon EXCEPT !.todo = @ \ {i}, !.opens = osAddrs[i]]
    /\ UNCHANGED <<listenCfg, ipsListen, osUp, osAddrs, changes, existUp,
                   existAddrs, nets, lIface, lIP, used, term>>

BootOpen ==
    /\ mon.pc = "boot"
    /\ \E ip \in mon.opens :
         /\ networkPrepareListen(ip)
         /\ RecordIfOpened(ip)
         /\ mon' = [mon EXCEPT !.opens = @ \ {ip}]
    /\ UNCHANGED <<osUp, osAddrs, changes, existUp, existAddrs, listenCfg>>

(* initNetwork done; networkChangeMonitor starts from ifacesExist, which  *)
(* nothing assigns before the first cycle: the nil map.                   *)
BootDone ==
    /\ mon.pc = "boot"
    /\ mon.opens = {}
    /\ mon.todo = {}
    /\ mon' = [mon EXCEPT !.pc = "sleep"]
    /\ UNCHANGED <<listenCfg, ipsListen, osUp, osAddrs, changes, existUp,
                   existAddrs, nets, lIface, lIP, used, term>>

(***************************************************************************)
(* networkChangeMonitor, one cycle: the snapshot, then each adapter of it  *)
(* (new adapter: open all its addresses; known adapter: open the new       *)
(* addresses, then remove the vanished ones), then the removal of the      *)
(* adapters that vanished, then ifacesExist = ifacesNew.                   *)
(***************************************************************************)
Scan ==
    /\ mon.pc = "sleep"
    /\ mon' = [mon EXCEPT !.pc = "iface", !.todo = osUp, !.snapAddrs = osAddrs,
                          !.newUp = {}, !.newAddrs = NoAddrs]
    /\ UNCHANGED <<listenCfg, ipsListen, osUp, osAddrs, changes, existUp,
                   existAddrs, nets, lIface, lIP, used, term>>

VisitIface ==
    /\ mon.pc = "iface"
    /\ \E i \in mon.todo :
         LET addrs == mon.snapAddrs[i] IN
         mon' = [mon EXCEPT !.pc = "open", !.todo = @ \ {i}, !.cur = i,
                   !.newUp = @ \cup {i},
                   !.newAddrs = [@ EXCEPT ![i] = addrs],
                   !.opens = IF i \in existUp THEN addrs \ existAddrs[i] ELSE addrs,
                   !.removes = IF i \in existUp THEN existAddrs[i] \ addrs ELSE {}]
    /\ UNCHANGED <<listenCfg, ipsListen, osUp, osAddrs, changes, existUp,
                   existAddrs, nets, lIface, lIP, used, term>>

(* networkChangeInterfaceNew / networkChangeIPNew: networkStart on one     *)
(* address, which records the address it opened (spec 4.2).                *)
OpenAddr ==
    /\ mon.pc = "open"
    /\ \E ip \in mon.opens :
         /\ networkPrepareListen(ip)
         /\ RecordIfOpened(ip)
         /\ mon' = [mon EXCEPT !.opens = @ \ {ip}]
    /\ UNCHANGED <<osUp, osAddrs, changes, existUp, existAddrs, listenCfg>>

OpensDone ==
    /\ mon.pc = "open"
    /\ mon.opens = {}
    /\ mon' = [mon EXCEPT !.pc = "remove"]
    /\ UNCHANGED <<listenCfg, ipsListen, osUp, osAddrs, changes, existUp,
                   existAddrs, nets, lIface, lIP, used, term>>

(* networkChangeIPRemove: the loops start over networks6. *)
RemoveAddr ==
    /\ mon.pc = "remove"
    /\ \E ip \in mon.removes :
         mon' = [mon EXCEPT !.pc = "loop", !.removes = @ \ {ip}, !.by = "ip",
                   !.rm = ip, !.fam = "v6", !.arr = nets["v6"], !.n = 0]
    /\ UNCHANGED <<listenCfg, ipsListen, osUp, osAddrs, changes, existUp,
                   existAddrs, nets, lIface, lIP, used, term>>

(* The adapter is handled; after the last one, the vanished adapters. *)
RemovesDone ==
    /\ mon.pc = "remove"
    /\ mon.removes = {}
    /\ mon' = [mon EXCEPT !.pc = IF mon.todo = {} THEN "gone" ELSE "iface",
                          !.cur = "none",
                          !.gone = IF mon.todo = {} THEN existUp \ mon.newUp ELSE {}]
    /\ UNCHANGED <<listenCfg, ipsListen, osUp, osAddrs, changes, existUp,
                   existAddrs, nets, lIface, lIP, used, term>>

(* A snapshot with no adapter goes straight to the vanished ones. *)
NoIfaces ==
    /\ mon.pc = "iface"
    /\ mon.todo = {}
    /\ mon.newUp = {}
    /\ mon' = [mon EXCEPT !.pc = "gone", !.gone = existUp]
    /\ UNCHANGED <<listenCfg, ipsListen, osUp, osAddrs, changes, existUp,
                   existAddrs, nets, lIface, lIP, used, term>>

(* networkChangeInterfaceRemove: the loops start over networks6. *)
RemoveIface ==
    /\ mon.pc = "gone"
    /\ \E i \in mon.gone :
         mon' = [mon EXCEPT !.pc = "loop", !.gone = @ \ {i}, !.by = "iface",
                   !.rm = i, !.fam = "v6", !.arr = nets["v6"], !.n = 0]
    /\ UNCHANGED <<listenCfg, ipsListen, osUp, osAddrs, changes, existUp,
                   existAddrs, nets, lIface, lIP, used, term>>

(***************************************************************************)
(* One iteration of a removal loop, on element n+1 of the array.           *)
(***************************************************************************)
Matches(l) == IF mon.by = "ip" THEN MatchesIP(l, mon.rm) ELSE MatchesIface(l, mon.rm)

LoopSkip ==
    /\ mon.pc = "loop"
    /\ mon.n < Len(mon.arr)
    /\ ~Matches(mon.arr[mon.n + 1])
    /\ mon' = [mon EXCEPT !.n = @ + 1]
    /\ UNCHANGED <<listenCfg, ipsListen, osUp, osAddrs, changes, existUp,
                   existAddrs, nets, lIface, lIP, used, term>>

(* Terminate, then networks6 = networks6[:n] + networks6[n+1:]. *)
LoopRemove ==
    /\ mon.pc = "loop"
    /\ mon.n < Len(mon.arr)
    /\ Matches(mon.arr[mon.n + 1])
    /\ Terminate(mon.arr[mon.n + 1])
    /\ LET st == SpliceStep(mon.arr, mon.n, Len(nets[mon.fam])) IN
       /\ nets' = [nets EXCEPT ![mon.fam] = SubSeq(st.arr, 1, st.len)]
       /\ mon' = [mon EXCEPT !.arr = st.arr, !.n = @ + 1]
    /\ UNCHANGED <<listenCfg, ipsListen, osUp, osAddrs, changes, existUp,
                   existAddrs, lIface, lIP, used>>

(* The networks6 loop is done: the networks4 loop starts. *)
LoopV4 ==
    /\ mon.pc = "loop"
    /\ mon.n = Len(mon.arr)
    /\ mon.fam = "v6"
    /\ mon' = [mon EXCEPT !.fam = "v4", !.arr = nets["v4"], !.n = 0]
    /\ UNCHANGED <<listenCfg, ipsListen, osUp, osAddrs, changes, existUp,
                   existAddrs, nets, lIface, lIP, used, term>>

(* Both loops are done: back to the monitor's cycle. *)
LoopEnd ==
    /\ mon.pc = "loop"
    /\ mon.n = Len(mon.arr)
    /\ mon.fam = "v4"
    /\ mon' = [mon EXCEPT !.pc = IF mon.by = "ip" THEN "remove" ELSE "gone",
                          !.by = "ip", !.rm = "none", !.fam = "v6", !.arr = <<>>,
                          !.n = 0]
    /\ UNCHANGED <<listenCfg, ipsListen, osUp, osAddrs, changes, existUp,
                   existAddrs, nets, lIface, lIP, used, term>>

(* ifacesExist = ifacesNew. *)
EndCycle ==
    /\ mon.pc = "gone"
    /\ mon.gone = {}
    /\ existUp' = mon.newUp
    /\ existAddrs' = mon.newAddrs
    /\ mon' = [mon EXCEPT !.pc = "sleep"]
    /\ UNCHANGED <<listenCfg, ipsListen, osUp, osAddrs, changes, nets, lIface,
                   lIP, used, term>>

(***************************************************************************)
(* The machine: an adapter comes or goes, or an address is added to or     *)
(* removed from an adapter.  An address is on at most one adapter at a     *)
(* time; moving it takes a removal and an addition.                        *)
(***************************************************************************)

OsChange ==
    /\ changes < MaxChanges
    /\ changes' = changes + 1
    /\ \/ \E i \in Ifaces : osUp' = osUp \ {i} /\ i \in osUp /\ UNCHANGED osAddrs
       \/ \E i \in Ifaces : osUp' = osUp \cup {i} /\ i \notin osUp /\ UNCHANGED osAddrs
       \/ \E i \in Ifaces, ip \in IPs :
            /\ Carriers(ip) \subseteq {i}
            /\ osAddrs' = [osAddrs EXCEPT ![i] = IF ip \in @ THEN @ \ {ip} ELSE @ \cup {ip}]
            /\ UNCHANGED osUp
    /\ UNCHANGED <<listenCfg, ipsListen, existUp, existAddrs, nets, lIface,
                   lIP, used, term, mon>>

(* initNetwork and networkChangeMonitor run on the same goroutine in turn. *)
MonStep ==
    \/ ManualOpen \/ ManualDone
    \/ BootIface \/ BootOpen \/ BootDone \/ Scan \/ VisitIface \/ OpenAddr \/ OpensDone
    \/ RemoveAddr \/ RemovesDone \/ NoIfaces \/ RemoveIface \/ EndCycle
    \/ LoopSkip \/ LoopRemove \/ LoopV4 \/ LoopEnd

Next == MonStep \/ OsChange \/ MonitorOff

(* Any adapter configuration, and any config.Listen, may be the one the    *)
(* program starts on.                                                      *)
Init ==
    /\ osUp \in SUBSET Ifaces
    /\ osAddrs \in [Ifaces -> SUBSET IPs]
    /\ \A ip \in IPs : Cardinality(Carriers(ip)) <= 1
    /\ changes = 0
    /\ existUp = {}
    /\ existAddrs = NoAddrs
    /\ nets = [f \in Families |-> <<>>]
    /\ lIface = [l \in Listeners |-> "none"]
    /\ lIP = [l \in Listeners |-> "none"]
    /\ used = {}
    /\ term = [l \in Listeners |-> 0]
    /\ listenCfg \in SUBSET IPs
    /\ ipsListen = {}
    /\ mon = [pc |-> IF listenCfg = {} THEN "boot" ELSE "manual",
               todo |-> osUp, snapAddrs |-> NoAddrs, newUp |-> {},
               newAddrs |-> NoAddrs, cur |-> "none",
               opens |-> listenCfg, removes |-> {}, gone |-> {},
               by |-> "ip", rm |-> "none", fam |-> "v6", arr |-> <<>>, n |-> 0]

Spec == Init /\ [][Next]_vars /\ WF_vars(MonStep)

(***************************************************************************)
(* Properties.                                                             *)
(***************************************************************************)

(* No listener is leaked: every listener opened and not terminated is     *)
(* still in the list of its family, so the removal loops never unlist a   *)
(* listener without terminating it, however their splices shift the       *)
(* slice.                                                                  *)
NoLeak == \A l \in used : term[l] = 0 => l \in ToSet(nets[Family(lIP[l])])

(* Interface-removal cascade (spec section 8): a listener that has been    *)
(* terminated is no longer in networks4 or networks6.                      *)
ListedAreLive == \A l \in Listed : term[l] = 0

(* Between two cycles, an address that ifacesExist records and the        *)
(* adapter still carries has an open listener: as the monitor sees no      *)
(* change for it, it would never open one later.                           *)
Covered ==
    mon.pc = "sleep" =>
        \A i \in existUp \cap osUp : \A ip \in existAddrs[i] \cap osAddrs[i] :
            \E l \in Listed : lIP[l] = ip /\ term[l] = 0

(* Self-send filtering (spec 4.2): every listener that is open has its     *)
(* address in the listen-address set, so IsAddressSelf discards the        *)
(* broadcast and multicast echoes of this node's own packets.  Both       *)
(* initNetwork paths open listeners; only the adapter path records them.   *)
SelfRecorded == \A l \in Listed : term[l] = 0 => IsAddressSelf(lIP[l])

(* ipsListen is "the list of IPs currently listening on" (Network Init.go) *)
(* and the filter drops datagrams from "a currently-registered local       *)
(* listen address" (spec 7): an address IsAddressSelf accepts has an open  *)
(* listener, so a peer that later owns an address this node gave up is not *)
(* taken for an echo.                                                      *)
SelfFilterCurrent ==
    \A ip \in IPs : IsAddressSelf(ip) => \E l \in Listed : lIP[l] = ip /\ term[l] = 0

(* One listener per local address (spec 3: a listener is bound to one     *)
(* local IP and created when the address becomes available): the monitor   *)
(* never opens a second listener on an address initNetwork already opened, *)
(* so no datagram is received, and no broadcast sent, twice.               *)
UniqueListener ==
    \A l1, l2 \in Listed :
        l1 # l2 /\ term[l1] = 0 /\ term[l2] = 0 => lIP[l1] # lIP[l2]
====
