--------------------------- MODULE NetworksProofs ---------------------------
(***************************************************************************)
(* Proofs about the listener lists and the interface monitor: the type     *)
(* invariant, and that no listener is unlisted without being terminated    *)
(* (NoLeak), for all adapters, addresses and listener objects.             *)
(***************************************************************************)
EXTENDS Networks, TLAPS

USE NetAssumption

(* While a removal loop runs, the list it splices is a prefix of the array *)
(* the range reads, and the index has not run past that array.             *)
LoopShape ==
    mon.pc = "loop" =>
        /\ mon.n <= Len(mon.arr)
        /\ Len(nets[mon.fam]) <= Len(mon.arr)
        /\ \A i \in 1..Len(nets[mon.fam]) : nets[mon.fam][i] = mon.arr[i]

TInv == TypeOK /\ LoopShape

IInv == TInv /\ NoLeak

-----------------------------------------------------------------------------
(***************************************************************************)
(* One splice of the removal loop, on an array of length L with the list   *)
(* a prefix of length len <= L: the array keeps its length and its element *)
(* type, the new list is again a prefix of it, and every element of the    *)
(* old list other than the removed one (element n+1) is still in the new   *)
(* list.                                                                   *)
(***************************************************************************)
LEMMA SpliceStepType ==
    ASSUME NEW S, NEW arr \in Seq(S), NEW n \in Nat, NEW len \in Nat,
           n < Len(arr), len <= Len(arr)
    PROVE  LET st == SpliceStep(arr, n, len) IN
           /\ st.arr \in Seq(S)
           /\ Len(st.arr) = Len(arr)
           /\ st.len \in 0..Len(arr)
           /\ SubSeq(st.arr, 1, st.len) \in Seq(S)
           /\ Len(SubSeq(st.arr, 1, st.len)) = st.len
           /\ \A i \in 1..st.len : SubSeq(st.arr, 1, st.len)[i] = st.arr[i]
<1> DEFINE a2 == [j \in DOMAIN arr |-> IF j > n /\ j < len THEN arr[j + 1] ELSE arr[j]]
           l2 == IF n < len THEN len - 1 ELSE n
<1>1. SpliceStep(arr, n, len) = [arr |-> a2, len |-> l2]
  BY DEF SpliceStep
<1>2. a2 \in [1..Len(arr) -> S]
  OBVIOUS
<1>3. a2 \in Seq(S) /\ Len(a2) = Len(arr)
  BY <1>2
<1>4. l2 \in 0..Len(arr)
  OBVIOUS
<1>5. SubSeq(a2, 1, l2) \in Seq(S) /\ Len(SubSeq(a2, 1, l2)) = l2
      /\ \A i \in 1..l2 : SubSeq(a2, 1, l2)[i] = a2[i]
  BY <1>3, <1>4
<1>. QED
  BY <1>1, <1>3, <1>4, <1>5

LEMMA SpliceStepKeeps ==
    ASSUME NEW S, NEW arr \in Seq(S), NEW n \in Nat, NEW len \in Nat,
           n < Len(arr), len <= Len(arr)
    PROVE  LET st == SpliceStep(arr, n, len) IN
           \A i \in 1..len : i # n + 1 => \E k \in 1..st.len : st.arr[k] = arr[i]
<1> DEFINE a2 == [j \in DOMAIN arr |-> IF j > n /\ j < len THEN arr[j + 1] ELSE arr[j]]
           l2 == IF n < len THEN len - 1 ELSE n
<1>1. SpliceStep(arr, n, len).arr = a2 /\ SpliceStep(arr, n, len).len = l2
  BY DEF SpliceStep
<1> SUFFICES ASSUME NEW i \in 1..len, i # n + 1
             PROVE  \E k \in 1..l2 : a2[k] = arr[i]
  BY <1>1, Zenon
<1>2. CASE n < len /\ i <= n
  <2>1. i \in 1..l2 /\ a2[i] = arr[i]
    BY <1>2
  <2>. QED
    BY <2>1
<1>3. CASE n < len /\ i > n
  <2>1. i - 1 \in 1..l2 /\ a2[i - 1] = arr[i]
    BY <1>3
  <2>. QED
    BY <2>1
<1>4. CASE n >= len
  <2>1. i \in 1..l2 /\ a2[i] = arr[i]
    BY <1>4
  <2>. QED
    BY <2>1
<1>5. (n < len /\ i <= n) \/ (n < len /\ i > n) \/ n >= len
  OBVIOUS
<1>. QED
  BY <1>2, <1>3, <1>4, <1>5, Zenon

(***************************************************************************)
(* The record updates the monitor's actions make keep its state a          *)
(* MonState, one lemma per shape of update.                                *)
(***************************************************************************)
LEMMA MonDomain ==
    ASSUME NEW m \in MonState
    PROVE  /\ m = [pc |-> m.pc, todo |-> m.todo, snapAddrs |-> m.snapAddrs,
                   newUp |-> m.newUp, newAddrs |-> m.newAddrs, cur |-> m.cur,
                   opens |-> m.opens, removes |-> m.removes, gone |-> m.gone,
                   by |-> m.by, rm |-> m.rm, fam |-> m.fam, arr |-> m.arr, n |-> m.n]
           /\ m.arr \in Seq(Listeners) /\ m.n \in Nat /\ m.fam \in Families
           /\ m.opens \in SUBSET IPs /\ m.removes \in SUBSET IPs
           /\ m.gone \in SUBSET Ifaces /\ m.todo \in SUBSET Ifaces
           /\ m.newUp \in SUBSET Ifaces /\ m.newAddrs \in [Ifaces -> SUBSET IPs]
           /\ m.snapAddrs \in [Ifaces -> SUBSET IPs]
  BY Zenon DEF MonState

LEMMA MonPc ==
    ASSUME NEW m \in MonState, NEW p \in {"off", "sleep", "remove", "gone", "iface"}
    PROVE  LET r == [m EXCEPT !.pc = p] IN
           r \in MonState /\ r.pc = p
  BY Zenon DEF MonState

LEMMA MonOpens ==
    ASSUME NEW m \in MonState, NEW o \in SUBSET IPs
    PROVE  LET r == [m EXCEPT !.opens = o] IN
           r \in MonState /\ r.pc = m.pc
  BY Zenon DEF MonState

LEMMA MonBootIface ==
    ASSUME NEW m \in MonState, NEW i, NEW o \in SUBSET IPs
    PROVE  LET r == [m EXCEPT !.todo = @ \ {i}, !.opens = o] IN
           r \in MonState /\ r.pc = m.pc
  BY Zenon DEF MonState

LEMMA MonScan ==
    ASSUME NEW m \in MonState, NEW u \in SUBSET Ifaces, NEW a \in [Ifaces -> SUBSET IPs]
    PROVE  LET r == [m EXCEPT !.pc = "iface", !.todo = u, !.snapAddrs = a,
                         !.newUp = {}, !.newAddrs = NoAddrs] IN
           r \in MonState /\ r.pc = "iface"
  BY Zenon DEF MonState, NoAddrs

LEMMA MonNoIfaces ==
    ASSUME NEW m \in MonState, NEW g \in SUBSET Ifaces
    PROVE  LET r == [m EXCEPT !.pc = "gone", !.gone = g] IN
           r \in MonState /\ r.pc = "gone"
  BY Zenon DEF MonState

LEMMA MonLoopSkip ==
    ASSUME NEW m \in MonState, NEW v \in Nat
    PROVE  LET r == [m EXCEPT !.n = v] IN
           r \in MonState /\ r.pc = m.pc /\ r.fam = m.fam /\ r.arr = m.arr /\ r.n = v
  BY Zenon DEF MonState

LEMMA MonLoopV4 ==
    ASSUME NEW m \in MonState, NEW a \in Seq(Listeners)
    PROVE  LET r == [m EXCEPT !.fam = "v4", !.arr = a, !.n = 0] IN
           r \in MonState /\ r.pc = m.pc /\ r.fam = "v4" /\ r.arr = a /\ r.n = 0
  BY Zenon DEF MonState, Families

LEMMA MonLoopEnd ==
    ASSUME NEW m \in MonState, NEW p \in {"remove", "gone"}
    PROVE  LET r == [m EXCEPT !.pc = p, !.by = "ip", !.rm = "none", !.fam = "v6",
                         !.arr = <<>>, !.n = 0] IN
           r \in MonState /\ r.pc = p
<1>1. <<>> \in Seq(Listeners)
  OBVIOUS
<1>. QED
  BY <1>1, Zenon DEF MonState, Families

-----------------------------------------------------------------------------
(***************************************************************************)
(* Type correctness.  TypeOK alone is not inductive: the splice of a       *)
(* removal loop stays within its array only because the list is a prefix   *)
(* of that array (LoopShape), so the two are proved together.              *)
(***************************************************************************)
LEMMA TInvInit == Init => TInv
<1> SUFFICES ASSUME Init PROVE TInv
  OBVIOUS
<1>1. TypeOK
  BY DEF Init, TypeOK, MonState, NoAddrs, Families
<1>2. LoopShape
  BY DEF Init, LoopShape
<1>. QED
  BY <1>1, <1>2 DEF TInv

(* The variables networkPrepareListen sets keep their types. *)
ListenVarsOK ==
    /\ nets \in [Families -> Seq(Listeners)]
    /\ lIface \in [Listeners -> Ifaces \cup {"none"}]
    /\ lIP \in [Listeners -> IPs \cup {"none"}]
    /\ used \in SUBSET Listeners
    /\ term \in [Listeners -> 0..2]

LEMMA TInvStep == TInv /\ [Next]_vars => TInv'
<1> SUFFICES ASSUME TInv, [Next]_vars PROVE TInv'
  OBVIOUS
<1>0. TypeOK /\ LoopShape
  BY DEF TInv
<1>1. ListenVarsOK
  BY <1>0 DEF TypeOK, ListenVarsOK
<1>2. ASSUME NEW ip \in IPs, networkPrepareListen(ip) PROVE ListenVarsOK'
  <2>1. ASSUME NEW l \in Free, NEW i \in Carriers(ip) \cap osUp,
               nets' = [nets EXCEPT ![Family(ip)] = Append(@, l)],
               used' = used \cup {l},
               lIface' = [lIface EXCEPT ![l] = i],
               lIP' = [lIP EXCEPT ![l] = ip],
               term' = [term EXCEPT ![l] = 0]
        PROVE  ListenVarsOK'
    <3>1. l \in Listeners /\ i \in Ifaces /\ Family(ip) \in Families
      BY <1>0 DEF Free, Carriers, Family, Families, TypeOK
    <3>. QED
      BY <1>1, <2>1, <3>1 DEF ListenVarsOK
  <2>2. CASE UNCHANGED <<nets, used, lIface, lIP, term>>
    BY <1>1, <2>2 DEF ListenVarsOK
  <2>. QED
    BY <1>2, <2>1, <2>2 DEF networkPrepareListen
<1>3. ASSUME NEW ip \in IPs, RecordIfOpened(ip) PROVE ipsListen' \in SUBSET IPs
  BY <1>0, <1>3 DEF RecordIfOpened, addListenAddress, TypeOK
<1>m. mon \in MonState
  BY <1>0 DEF TypeOK
(* An action that changes only mon keeps the types of the other variables. *)
<1>4. ASSUME mon' \in MonState, LoopShape',
             UNCHANGED <<listenCfg, ipsListen, osUp, osAddrs, changes, existUp,
                         existAddrs, nets, lIface, lIP, used, term>>
      PROVE  TInv'
  BY <1>0, <1>4 DEF TypeOK, TInv
(* ... and one that leaves no removal loop running keeps LoopShape. *)
<1>l. ASSUME mon' \in MonState, mon'.pc # "loop" PROVE LoopShape'
  BY <1>l DEF LoopShape
(* An action that opens one address. *)
<1>5. ASSUME NEW ip \in IPs, networkPrepareListen(ip), ipsListen' \in SUBSET IPs,
             mon' = [mon EXCEPT !.opens = @ \ {ip}],
             mon.pc \in {"manual", "boot", "open"},
             UNCHANGED <<osUp, osAddrs, changes, existUp, existAddrs, listenCfg>>
      PROVE  TInv'
  <2>1. mon.opens \ {ip} \in SUBSET IPs
    BY <1>m, MonDomain
  <2>2. LET r == [mon EXCEPT !.opens = mon.opens \ {ip}] IN r \in MonState /\ r.pc = mon.pc
    BY <1>m, <2>1, MonOpens
  <2>3. mon' \in MonState /\ mon'.pc # "loop"
    BY <1>5, <2>2
  <2>4. TypeOK'
    BY <1>0, <1>2, <1>5, <2>3 DEF TypeOK, ListenVarsOK
  <2>. QED
    BY <1>l, <2>3, <2>4 DEF TInv
<1>6. CASE ManualOpen
  <2>1. PICK ip \in mon.opens : networkPrepareListen(ip) /\ mon' = [mon EXCEPT !.opens = @ \ {ip}]
    BY <1>6 DEF ManualOpen
  <2>2. ip \in IPs /\ ipsListen' \in SUBSET IPs
    BY <1>0, <1>m, <1>6, MonDomain DEF ManualOpen, TypeOK
  <2>. QED
    BY <1>5, <1>6, <2>1, <2>2 DEF ManualOpen
<1>7. CASE BootOpen
  <2>1. PICK ip \in mon.opens : networkPrepareListen(ip) /\ RecordIfOpened(ip)
                                /\ mon' = [mon EXCEPT !.opens = @ \ {ip}]
    BY <1>7 DEF BootOpen
  <2>2. ip \in IPs
    BY <1>m, MonDomain
  <2>. QED
    BY <1>3, <1>5, <1>7, <2>1, <2>2 DEF BootOpen
<1>8. CASE OpenAddr
  <2>1. PICK ip \in mon.opens : networkPrepareListen(ip) /\ RecordIfOpened(ip)
                                /\ mon' = [mon EXCEPT !.opens = @ \ {ip}]
    BY <1>8 DEF OpenAddr
  <2>2. ip \in IPs
    BY <1>m, MonDomain
  <2>. QED
    BY <1>3, <1>5, <1>8, <2>1, <2>2 DEF OpenAddr
<1>9. CASE MonitorOff \/ UNCHANGED vars
  BY <1>0, <1>9 DEF MonitorOff, vars, TInv, TypeOK, LoopShape
<1>10. CASE LoopRemove
  <2> DEFINE f == mon.fam
             st == SpliceStep(mon.arr, mon.n, Len(nets[f]))
             x == mon.arr[mon.n + 1]
  <2>1. /\ mon.pc = "loop" /\ mon.n < Len(mon.arr)
        /\ nets' = [nets EXCEPT ![f] = SubSeq(st.arr, 1, st.len)]
        /\ mon' = [mon EXCEPT !.arr = st.arr, !.n = @ + 1]
        /\ term' = [term EXCEPT ![x] = IF @ < 2 THEN @ + 1 ELSE 2]
        /\ UNCHANGED <<listenCfg, ipsListen, osUp, osAddrs, changes, existUp,
                       existAddrs, lIface, lIP, used>>
    BY <1>10 DEF LoopRemove, Terminate
  <2>2. /\ mon.arr \in Seq(Listeners) /\ mon.n \in Nat /\ f \in Families
        /\ nets[f] \in Seq(Listeners) /\ Len(nets[f]) <= Len(mon.arr)
    BY <1>0, <1>m, <2>1, MonDomain DEF TypeOK, LoopShape
  <2>3. /\ st.arr \in Seq(Listeners) /\ Len(st.arr) = Len(mon.arr)
        /\ st.len \in 0..Len(mon.arr)
        /\ SubSeq(st.arr, 1, st.len) \in Seq(Listeners)
        /\ Len(SubSeq(st.arr, 1, st.len)) = st.len
        /\ \A i \in 1..st.len : SubSeq(st.arr, 1, st.len)[i] = st.arr[i]
    BY <2>1, <2>2, SpliceStepType
  <2>4. LET r == [mon EXCEPT !.arr = st.arr, !.n = mon.n + 1] IN
        r \in MonState /\ r.pc = mon.pc /\ r.fam = mon.fam /\ r.arr = st.arr
        /\ r.n = mon.n + 1
    <3>1. mon.n + 1 \in Nat /\ st.arr \in Seq(Listeners)
      BY <2>2, <2>3
    <3>. QED
      BY <1>m, <3>1, Zenon DEF MonState
  <2>5. mon' \in MonState /\ mon'.pc = "loop" /\ mon'.arr = st.arr /\ mon'.fam = f
    BY <2>1, <2>4
  <2>6. x \in Listeners
    BY <2>1, <2>2
  <2>7. nets' \in [Families -> Seq(Listeners)] /\ nets'[f] = SubSeq(st.arr, 1, st.len)
    BY <1>0, <2>1, <2>2, <2>3 DEF TypeOK
  <2>8. term' \in [Listeners -> 0..2]
    <3>1. term \in [Listeners -> 0..2]
      BY <1>0 DEF TypeOK
    <3>. QED
      BY <2>1, <2>6, <3>1
  <2>9. TypeOK'
    BY <1>0, <2>1, <2>5, <2>7, <2>8 DEF TypeOK
  <2>10. mon'.n <= Len(mon'.arr) /\ Len(nets'[mon'.fam]) <= Len(mon'.arr)
    BY <2>1, <2>2, <2>3, <2>4, <2>5, <2>7
  <2>11. \A i \in 1..Len(nets'[mon'.fam]) : nets'[mon'.fam][i] = mon'.arr[i]
    BY <2>3, <2>5, <2>7
  <2>. QED
    BY <2>9, <2>10, <2>11 DEF TInv, LoopShape
<1>11. CASE OsChange
  <2>1. TypeOK'
    BY <1>0, <1>11 DEF OsChange, TypeOK
  <2>2. LoopShape'
    BY <1>0, <1>11 DEF OsChange, LoopShape
  <2>. QED
    BY <2>1, <2>2 DEF TInv
<1>20. CASE ManualDone
  <2>1. mon' = [mon EXCEPT !.pc = "off"]
    BY <1>20 DEF ManualDone
  <2>2. LET r == [mon EXCEPT !.pc = "off"] IN r \in MonState /\ r.pc = "off"
    BY <1>m, MonPc
  <2>3. mon' \in MonState /\ mon'.pc # "loop"
    BY <2>1, <2>2
  <2>. QED
    BY <1>4, <1>l, <1>20, <2>3 DEF ManualDone
<1>21. CASE BootIface
  <2>1. PICK i \in mon.todo : mon' = [mon EXCEPT !.todo = @ \ {i}, !.opens = osAddrs[i]]
    BY <1>21 DEF BootIface
  <2>2. osAddrs[i] \in SUBSET IPs
    BY <1>0, <1>m, MonDomain DEF TypeOK
  <2>3. LET r == [mon EXCEPT !.todo = @ \ {i}, !.opens = osAddrs[i]] IN
        r \in MonState /\ r.pc = mon.pc
    BY <1>m, <2>2, MonBootIface
  <2>4. mon' \in MonState /\ mon'.pc # "loop"
    BY <1>21, <2>1, <2>3 DEF BootIface
  <2>. QED
    BY <1>4, <1>l, <1>21, <2>4 DEF BootIface
<1>22. CASE BootDone
  <2>1. mon' = [mon EXCEPT !.pc = "sleep"]
    BY <1>22 DEF BootDone
  <2>2. LET r == [mon EXCEPT !.pc = "sleep"] IN r \in MonState /\ r.pc = "sleep"
    BY <1>m, MonPc
  <2>3. mon' \in MonState /\ mon'.pc # "loop"
    BY <2>1, <2>2
  <2>. QED
    BY <1>4, <1>l, <1>22, <2>3 DEF BootDone
<1>23. CASE Scan
  <2>1. mon' = [mon EXCEPT !.pc = "iface", !.todo = osUp, !.snapAddrs = osAddrs,
                           !.newUp = {}, !.newAddrs = NoAddrs]
    BY <1>23 DEF Scan
  <2>2. LET r == [mon EXCEPT !.pc = "iface", !.todo = osUp, !.snapAddrs = osAddrs,
                             !.newUp = {}, !.newAddrs = NoAddrs] IN
        r \in MonState /\ r.pc = "iface"
    BY <1>0, <1>m, MonScan DEF TypeOK
  <2>3. mon' \in MonState /\ mon'.pc # "loop"
    BY <2>1, <2>2
  <2>. QED
    BY <1>4, <1>l, <1>23, <2>3 DEF Scan
<1>24. CASE VisitIface
  <2> DEFINE A(i) == mon.snapAddrs[i]
             O(i) == IF i \in existUp THEN A(i) \ existAddrs[i] ELSE A(i)
             V(i) == IF i \in existUp THEN existAddrs[i] \ A(i) ELSE {}
  <2>1. PICK i \in mon.todo :
          mon' = [mon EXCEPT !.pc = "open", !.todo = @ \ {i}, !.cur = i,
                   !.newUp = @ \cup {i}, !.newAddrs = [@ EXCEPT ![i] = A(i)],
                   !.opens = O(i), !.removes = V(i)]
    BY <1>24 DEF VisitIface
  <2>2. i \in Ifaces /\ A(i) \in SUBSET IPs /\ O(i) \in SUBSET IPs /\ V(i) \in SUBSET IPs
    BY <1>0, <1>m, MonDomain DEF TypeOK
  <2>3. LET r == [mon EXCEPT !.pc = "open", !.todo = @ \ {i}, !.cur = i,
                   !.newUp = @ \cup {i}, !.newAddrs = [@ EXCEPT ![i] = A(i)],
                   !.opens = O(i), !.removes = V(i)] IN
        r \in MonState /\ r.pc = "open"
    BY <1>m, <2>2, Zenon DEF MonState, Families
  <2>4. mon' \in MonState /\ mon'.pc # "loop"
    BY <2>1, <2>3
  <2>. QED
    BY <1>4, <1>l, <1>24, <2>4 DEF VisitIface
<1>25. CASE OpensDone
  <2>1. mon' = [mon EXCEPT !.pc = "remove"]
    BY <1>25 DEF OpensDone
  <2>2. LET r == [mon EXCEPT !.pc = "remove"] IN r \in MonState /\ r.pc = "remove"
    BY <1>m, MonPc
  <2>3. mon' \in MonState /\ mon'.pc # "loop"
    BY <2>1, <2>2
  <2>. QED
    BY <1>4, <1>l, <1>25, <2>3 DEF OpensDone
<1>26. CASE RemovesDone
  <2> DEFINE p == IF mon.todo = {} THEN "gone" ELSE "iface"
             g == IF mon.todo = {} THEN existUp \ mon.newUp ELSE {}
  <2>1. mon' = [mon EXCEPT !.pc = p, !.cur = "none", !.gone = g]
    BY <1>26 DEF RemovesDone
  <2>2. p \in {"gone", "iface"} /\ g \in SUBSET Ifaces
    BY <1>0 DEF TypeOK
  <2>3. LET r == [mon EXCEPT !.pc = p, !.cur = "none", !.gone = g] IN
        r \in MonState /\ r.pc = p
    BY <1>m, <2>2, Zenon DEF MonState, Families
  <2>4. mon' \in MonState /\ mon'.pc # "loop"
    BY <2>1, <2>2, <2>3
  <2>. QED
    BY <1>4, <1>l, <1>26, <2>4 DEF RemovesDone
<1>27. CASE NoIfaces
  <2>1. mon' = [mon EXCEPT !.pc = "gone", !.gone = existUp]
    BY <1>27 DEF NoIfaces
  <2>2. LET r == [mon EXCEPT !.pc = "gone", !.gone = existUp] IN
        r \in MonState /\ r.pc = "gone"
    BY <1>0, <1>m, MonNoIfaces DEF TypeOK
  <2>3. mon' \in MonState /\ mon'.pc # "loop"
    BY <2>1, <2>2
  <2>. QED
    BY <1>4, <1>l, <1>27, <2>3 DEF NoIfaces
<1>28. CASE EndCycle
  <2>1. mon' = [mon EXCEPT !.pc = "sleep"]
    BY <1>28 DEF EndCycle
  <2>2. LET r == [mon EXCEPT !.pc = "sleep"] IN r \in MonState /\ r.pc = "sleep"
    BY <1>m, MonPc
  <2>3. mon' \in MonState /\ mon'.pc # "loop"
    BY <2>1, <2>2
  <2>4. existUp' \in SUBSET Ifaces /\ existAddrs' \in [Ifaces -> SUBSET IPs]
    BY <1>m, <1>28, MonDomain DEF EndCycle
  <2>5. TypeOK'
    BY <1>0, <1>28, <2>3, <2>4 DEF EndCycle, TypeOK
  <2>. QED
    BY <1>l, <2>3, <2>5 DEF TInv
<1>29. CASE RemoveAddr
  <2>1. PICK ip \in mon.removes :
          mon' = [mon EXCEPT !.pc = "loop", !.removes = @ \ {ip}, !.by = "ip",
                   !.rm = ip, !.fam = "v6", !.arr = nets["v6"], !.n = 0]
    BY <1>29 DEF RemoveAddr
  <2>2. ip \in IPs /\ nets["v6"] \in Seq(Listeners)
    BY <1>0, <1>m, MonDomain DEF TypeOK, Families
  <2>3. LET r == [mon EXCEPT !.pc = "loop", !.removes = @ \ {ip}, !.by = "ip",
                   !.rm = ip, !.fam = "v6", !.arr = nets["v6"], !.n = 0] IN
        r \in MonState /\ r.pc = "loop" /\ r.fam = "v6" /\ r.arr = nets["v6"] /\ r.n = 0
    BY <1>m, <2>2, Zenon DEF MonState, Families
  <2>4. mon' \in MonState /\ mon'.fam = "v6" /\ mon'.arr = nets["v6"] /\ mon'.n = 0
    BY <2>1, <2>3
  <2>5. nets' = nets
    BY <1>29 DEF RemoveAddr
  <2>6. LoopShape'
    BY <2>2, <2>4, <2>5 DEF LoopShape
  <2>. QED
    BY <1>4, <1>29, <2>4, <2>6 DEF RemoveAddr
<1>30. CASE RemoveIface
  <2>1. PICK i \in mon.gone :
          mon' = [mon EXCEPT !.pc = "loop", !.gone = @ \ {i}, !.by = "iface",
                   !.rm = i, !.fam = "v6", !.arr = nets["v6"], !.n = 0]
    BY <1>30 DEF RemoveIface
  <2>2. i \in Ifaces /\ nets["v6"] \in Seq(Listeners)
    BY <1>0, <1>m, MonDomain DEF TypeOK, Families
  <2>3. LET r == [mon EXCEPT !.pc = "loop", !.gone = @ \ {i}, !.by = "iface",
                   !.rm = i, !.fam = "v6", !.arr = nets["v6"], !.n = 0] IN
        r \in MonState /\ r.pc = "loop" /\ r.fam = "v6" /\ r.arr = nets["v6"] /\ r.n = 0
    BY <1>m, <2>2, Zenon DEF MonState, Families
  <2>4. mon' \in MonState /\ mon'.fam = "v6" /\ mon'.arr = nets["v6"] /\ mon'.n = 0
    BY <2>1, <2>3
  <2>5. nets' = nets
    BY <1>30 DEF RemoveIface
  <2>6. LoopShape'
    BY <2>2, <2>4, <2>5 DEF LoopShape
  <2>. QED
    BY <1>4, <1>30, <2>4, <2>6 DEF RemoveIface
<1>31. CASE LoopV4
  <2>1. mon' = [mon EXCEPT !.fam = "v4", !.arr = nets["v4"], !.n = 0] /\ nets' = nets
    BY <1>31 DEF LoopV4
  <2>2. nets["v4"] \in Seq(Listeners)
    BY <1>0 DEF TypeOK, Families
  <2>3. LET r == [mon EXCEPT !.fam = "v4", !.arr = nets["v4"], !.n = 0] IN
        r \in MonState /\ r.pc = mon.pc /\ r.fam = "v4" /\ r.arr = nets["v4"] /\ r.n = 0
    BY <1>m, <2>2, MonLoopV4
  <2>4. mon' \in MonState /\ mon'.fam = "v4" /\ mon'.arr = nets["v4"] /\ mon'.n = 0
    BY <2>1, <2>3
  <2>5. LoopShape'
    BY <2>1, <2>2, <2>4 DEF LoopShape
  <2>. QED
    BY <1>4, <1>31, <2>4, <2>5 DEF LoopV4
<1>32. CASE LoopSkip
  <2>1. mon' = [mon EXCEPT !.n = mon.n + 1] /\ nets' = nets
        /\ mon.pc = "loop" /\ mon.n < Len(mon.arr)
    BY <1>32 DEF LoopSkip
  <2>2. mon.n \in Nat /\ mon.arr \in Seq(Listeners)
    BY <1>m, MonDomain
  <2>3. LET r == [mon EXCEPT !.n = mon.n + 1] IN
        r \in MonState /\ r.pc = mon.pc /\ r.fam = mon.fam /\ r.arr = mon.arr
        /\ r.n = mon.n + 1
    BY <1>m, <2>2, MonLoopSkip
  <2>4. mon' \in MonState /\ mon'.pc = mon.pc /\ mon'.fam = mon.fam
        /\ mon'.arr = mon.arr /\ mon'.n = mon.n + 1
    BY <2>1, <2>3
  <2>5. LoopShape'
    BY <1>0, <2>1, <2>2, <2>4 DEF LoopShape
  <2>. QED
    BY <1>4, <1>32, <2>4, <2>5 DEF LoopSkip
<1>33. CASE LoopEnd
  <2> DEFINE p == IF mon.by = "ip" THEN "remove" ELSE "gone"
  <2>1. mon' = [mon EXCEPT !.pc = p, !.by = "ip", !.rm = "none", !.fam = "v6",
                           !.arr = <<>>, !.n = 0]
    BY <1>33 DEF LoopEnd
  <2>2. LET r == [mon EXCEPT !.pc = p, !.by = "ip", !.rm = "none", !.fam = "v6",
                             !.arr = <<>>, !.n = 0] IN
        r \in MonState /\ r.pc = p
    BY <1>m, MonLoopEnd
  <2>3. mon' \in MonState /\ mon'.pc # "loop"
    BY <2>1, <2>2
  <2>. QED
    BY <1>4, <1>l, <1>33, <2>3 DEF LoopEnd
<1>. QED
  BY <1>6, <1>7, <1>8, <1>9, <1>10, <1>11, <1>20, <1>21, <1>22, <1>23, <1>24, <1>25,
     <1>26, <1>27, <1>28, <1>29, <1>30, <1>31, <1>32, <1>33
  DEF Next, MonStep

(* The listener lists and the monitor's state keep their types, whatever   *)
(* the adapters do, for any sets of adapters, addresses and listener       *)
(* objects: in particular the removal loops, splicing the slice they range *)
(* over, never read past the array or store anything but a listener.       *)
THEOREM TypeCorrect == Spec => []TypeOK
<1>1. TInv => TypeOK
  BY DEF TInv
<1>. QED
  BY TInvInit, TInvStep, <1>1, PTL DEF Spec

-----------------------------------------------------------------------------
(***************************************************************************)
(* No leak.  NoLeak is inductive together with TInv: an open appends its   *)
(* listener to the list of its family and moves no other one; a splice of  *)
(* a removal loop drops element n+1 of the array, which is the listener it *)
(* has just terminated, and keeps every other element of the list, because *)
(* the list is a prefix of the array (LoopShape).                          *)
(***************************************************************************)
LEMMA ToSetAppend ==
    ASSUME NEW S, NEW s \in Seq(S), NEW x
    PROVE  /\ x \in ToSet(Append(s, x))
           /\ \A y \in ToSet(s) : y \in ToSet(Append(s, x))
<1>1. Len(s) + 1 \in DOMAIN Append(s, x) /\ Append(s, x)[Len(s) + 1] = x
  OBVIOUS
<1>2. ASSUME NEW y \in ToSet(s) PROVE y \in ToSet(Append(s, x))
  <2>1. PICK i \in DOMAIN s : s[i] = y
    BY DEF ToSet
  <2>2. i \in DOMAIN Append(s, x) /\ Append(s, x)[i] = y
    BY <2>1
  <2>. QED
    BY <2>2 DEF ToSet
<1>. QED
  BY <1>1, <1>2 DEF ToSet

LEMMA IInvInit == Init => IInv
<1> SUFFICES ASSUME Init PROVE IInv
  OBVIOUS
<1>1. NoLeak
  BY DEF Init, NoLeak
<1>. QED
  BY <1>1, TInvInit DEF IInv

LEMMA NoLeakStep == IInv /\ [Next]_vars => NoLeak'
<1> SUFFICES ASSUME TInv, NoLeak, [Next]_vars PROVE NoLeak'
  BY DEF IInv
<1>0. TypeOK /\ LoopShape
  BY DEF TInv
(* Actions that leave the lists, the listeners and their states alone. *)
<1>1. CASE UNCHANGED <<nets, used, term, lIP>>
  BY <1>1 DEF NoLeak
(* An open: the new listener is appended, the others keep their places. *)
<1>2. ASSUME NEW ip \in IPs, networkPrepareListen(ip) PROVE NoLeak'
  <2>1. ASSUME NEW l \in Free, NEW i \in Carriers(ip) \cap osUp,
               nets' = [nets EXCEPT ![Family(ip)] = Append(@, l)],
               used' = used \cup {l},
               lIP' = [lIP EXCEPT ![l] = ip],
               term' = [term EXCEPT ![l] = 0]
        PROVE  NoLeak'
    <3> SUFFICES ASSUME NEW k \in used', term'[k] = 0
                 PROVE  k \in ToSet(nets'[Family(lIP'[k])])
      BY DEF NoLeak
    <3>1. l \in Listeners /\ Family(ip) \in Families
          /\ nets \in [Families -> Seq(Listeners)]
          /\ lIP \in [Listeners -> IPs \cup {"none"}]
          /\ term \in [Listeners -> 0..2] /\ used \in SUBSET Listeners
      BY <1>0 DEF Free, Family, Families, TypeOK
    <3>2. CASE k = l
      <4>1. lIP'[k] = ip /\ nets'[Family(ip)] = Append(nets[Family(ip)], l)
        BY <2>1, <3>1, <3>2
      <4>. QED
        BY <3>1, <3>2, <4>1, ToSetAppend
    <3>3. CASE k # l
      <4> DEFINE F == Family(lIP[k])
      <4>1. k \in used /\ term[k] = 0 /\ lIP'[k] = lIP[k]
        BY <2>1, <3>1, <3>3
      <4>2. k \in ToSet(nets[F])
        BY <4>1 DEF NoLeak
      <4>3. F \in Families
        BY DEF Family, Families
      <4>4. nets'[F] = nets[F] \/ nets'[F] = Append(nets[F], l)
        BY <2>1, <3>1, <4>3
      <4>. QED
        BY <3>1, <4>1, <4>2, <4>3, <4>4, ToSetAppend
    <3>. QED
      BY <3>2, <3>3
  <2>. QED
    BY <1>2, <2>1, <1>1 DEF networkPrepareListen
(* A splice: the terminated listener leaves, the others stay listed. *)
<1>3. CASE LoopRemove
  <2> DEFINE f == mon.fam
             len == Len(nets[f])
             st == SpliceStep(mon.arr, mon.n, len)
             x == mon.arr[mon.n + 1]
  <2>1. /\ mon.pc = "loop" /\ mon.n < Len(mon.arr)
        /\ nets' = [nets EXCEPT ![f] = SubSeq(st.arr, 1, st.len)]
        /\ term' = [term EXCEPT ![x] = IF @ < 2 THEN @ + 1 ELSE 2]
        /\ UNCHANGED <<used, lIP>>
    BY <1>3 DEF LoopRemove, Terminate
  <2>2. /\ mon.arr \in Seq(Listeners) /\ mon.n \in Nat /\ f \in Families
        /\ nets \in [Families -> Seq(Listeners)]
        /\ term \in [Listeners -> 0..2] /\ used \in SUBSET Listeners
        /\ len <= Len(mon.arr)
        /\ \A i \in 1..len : nets[f][i] = mon.arr[i]
    BY <1>0, <2>1, MonDomain DEF TypeOK, LoopShape
  <2>3. /\ st.len \in Nat
        /\ SubSeq(st.arr, 1, st.len) \in Seq(Listeners)
        /\ Len(SubSeq(st.arr, 1, st.len)) = st.len
        /\ \A i \in 1..st.len : SubSeq(st.arr, 1, st.len)[i] = st.arr[i]
    BY <2>1, <2>2, SpliceStepType
  <2>4. x \in Listeners
    BY <2>1, <2>2
  <2>9. term'[x] # 0
    <3>1. term'[x] = IF term[x] < 2 THEN term[x] + 1 ELSE 2
      BY <2>1, <2>2, <2>4
    <3>2. term[x] \in 0..2
      BY <2>2, <2>4
    <3>. QED
      BY <3>1, <3>2
  <2> SUFFICES ASSUME NEW k \in used', term'[k] = 0
               PROVE  k \in ToSet(nets'[Family(lIP'[k])])
    BY DEF NoLeak
  <2>5. k # x /\ k \in used /\ term[k] = 0 /\ lIP'[k] = lIP[k]
    BY <2>1, <2>2, <2>4, <2>9
  <2>6. k \in ToSet(nets[Family(lIP[k])])
    BY <2>5 DEF NoLeak
  <2>7. CASE Family(lIP[k]) # f
    BY <2>1, <2>2, <2>5, <2>6, <2>7 DEF Family, Families
  <2>8. CASE Family(lIP[k]) = f
    <3>1. PICK i \in 1..len : nets[f][i] = k
      BY <2>2, <2>6, <2>8 DEF ToSet
    <3>2. i # mon.n + 1
      BY <2>2, <2>5, <3>1
    <3>3. \E j \in 1..st.len : st.arr[j] = mon.arr[i]
      <4>1. len \in Nat
        BY <2>2
      <4>2. /\ mon.arr \in Seq(Listeners) /\ mon.n \in Nat /\ len \in Nat
            /\ mon.n < Len(mon.arr) /\ len <= Len(mon.arr)
        BY <2>1, <2>2, <4>1
      <4>3. \A m \in 1..len : m # mon.n + 1 => \E j \in 1..st.len : st.arr[j] = mon.arr[m]
        BY ONLY <4>2, SpliceStepKeeps
      <4>. QED
        BY <3>1, <3>2, <4>3
    <3>4. nets'[f] = SubSeq(st.arr, 1, st.len)
      BY <2>1, <2>2
    <3>. QED
      <4>1. PICK j \in 1..st.len : st.arr[j] = k
        BY <2>2, <3>1, <3>3
      <4>2. j \in DOMAIN nets'[f] /\ nets'[f][j] = k
        BY <2>3, <3>4, <4>1
      <4>. QED
        BY <2>5, <2>8, <4>2 DEF ToSet
  <2>. QED
    BY <2>7, <2>8
<1>4. CASE ManualOpen \/ BootOpen \/ OpenAddr
  <2>1. PICK ip \in mon.opens : networkPrepareListen(ip)
    BY <1>4 DEF ManualOpen, BootOpen, OpenAddr
  <2>2. ip \in IPs
    BY <1>0, MonDomain DEF TypeOK
  <2>. QED
    BY <1>2, <2>1, <2>2
<1>5. CASE ManualDone \/ BootIface \/ BootDone \/ Scan \/ VisitIface \/ OpensDone
           \/ RemoveAddr \/ RemovesDone \/ NoIfaces \/ RemoveIface \/ EndCycle
           \/ LoopSkip \/ LoopV4 \/ LoopEnd \/ OsChange \/ MonitorOff
  BY <1>1, <1>5 DEF ManualDone, BootIface, BootDone, Scan, VisitIface, OpensDone,
                    RemoveAddr, RemovesDone, NoIfaces, RemoveIface, EndCycle,
                    LoopSkip, LoopV4, LoopEnd, OsChange, MonitorOff, vars
<1>6. CASE UNCHANGED vars
  BY <1>1, <1>6 DEF vars
<1>. QED
  BY <1>3, <1>4, <1>5, <1>6 DEF Next, MonStep

(* No listener is leaked, for any adapters, addresses and listener objects *)
(* and however the adapters change: every listener opened and not          *)
(* terminated is in the list of its family, so the removal loops of        *)
(* networkChangeIPRemove and networkChangeInterfaceRemove, which splice    *)
(* the slice they range over, never drop a listener they did not           *)
(* terminate.                                                              *)
THEOREM NoLeakInvariant == Spec => []NoLeak
<1>1. IInv /\ [Next]_vars => IInv'
  BY TInvStep, NoLeakStep DEF IInv
<1>2. IInv => NoLeak
  BY DEF IInv
<1>. QED
  BY IInvInit, <1>1, <1>2, PTL DEF Spec

=============================================================================
