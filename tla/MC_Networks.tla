---------------------------- MODULE MC_Networks ----------------------------
EXTENDS Networks, TLC

MCSymmetry == Permutations(Listeners) \cup Permutations(Ifaces)

(* The adapter and IP of an object that is not open are leftovers of its  *)
(* previous use that no step reads: they are hidden from the state.        *)
MCView == <<osUp, osAddrs, changes, existUp, existAddrs, nets,
            [l \in used |-> <<lIface[l], lIP[l], term[l]>>], mon,
            listenCfg, ipsListen>>
====
