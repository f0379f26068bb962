------------------------- MODULE MC_PeerConnections -------------------------
(* Model-checking instance of PeerConnections: model values for keys,      *)
(* PeerInfo objects, paths and workers; thresholds scaled down with their  *)
(* order kept: pingTime < connectionInvalidate < RedundantFactor *        *)
(* pingTime < RedundantFactor * connectionInvalidate, as 10 < 22 < 40 < 88 *)
(* in the code.                                                            *)
EXTENDS PeerConnections, TLC

(* Paths and PeerInfo objects are only ever compared for equality. *)
MCSymmetry == Permutations(Paths) \cup Permutations(PeerObjs)

(* The fields of a Connection that is in neither list of its PeerInfo are *)
(* garbage: every way back into a list overwrites all four of them, so     *)
(* states that differ only there behave alike.  LastPacketIn is read only *)
(* for active connections and reset when one becomes active, so it is     *)
(* garbage for inactive ones too.                                          *)
Live(f, p, a) == IF Listed(p, a) THEN f[p][a] ELSE "gone"
(* Expires is read only for a connection of the inactive snapshot being   *)
(* processed, and set whenever a connection is invalidated.                *)
ExpiresLive(p, a) ==
    \/ a \in inactive[p]
    \/ sched.cur = p /\ sched.phase = "inactive"
       /\ (a \in sched.conns \/ a = sched.conn)
MCView ==
    <<registry, active, inactive,
      [p \in PeerObjs |-> [a \in Paths |-> Live(status, p, a)]],
      [p \in PeerObjs |-> [a \in Paths |->
                  IF a \in active[p] THEN ageIn[p][a] ELSE "gone"]],
      [p \in PeerObjs |-> [a \in Paths |-> Live(agePing, p, a)]],
      [p \in PeerObjs |-> [a \in Paths |->
                  IF ExpiresLive(p, a) THEN ageInv[p][a] ELSE "gone"]],
      workers, sched>>
=============================================================================
