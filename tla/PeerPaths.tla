------------------------------ MODULE PeerPaths ------------------------------
(***************************************************************************)
(* What the peer registry and the connection lists promise together, seen  *)
(* from outside: the identities in the peer list, and for each identity    *)
(* the set of network paths the node knows for it.                         *)
(*                                                                         *)
(*   - Join: an identity enters the peer list with exactly the path its    *)
(*     first packet came from (spec 3: never created with zero             *)
(*     connections).                                                       *)
(*   - Learn: a packet from a listed identity adds its path.               *)
(*   - Forget: a listed identity loses one path, never the last one (spec  *)
(*     3, 4.5: never drop the last known path to a peer).                  *)
(*   - Leave: the identity is removed from the peer list, with all its     *)
(*     paths (administrative removal only).                                *)
(* Which list a path is in (active or inactive) and its status are the    *)
(* detailed model's business and invisible here.                           *)
(***************************************************************************)
CONSTANTS Keys, Paths

VARIABLES
    listed,   \* the identities in the peer list
    known     \* known[k]: the paths known for identity k

vars == <<listed, known>>

Init == listed = {} /\ known = [k \in Keys |-> {}]

Join(k, a) ==
    /\ k \notin listed
    /\ listed' = listed \cup {k}
    /\ known' = [known EXCEPT ![k] = {a}]

Learn(k, a) ==
    /\ k \in listed
    /\ known' = [known EXCEPT ![k] = @ \cup {a}]
    /\ UNCHANGED listed

Forget(k, a) ==
    /\ k \in listed
    /\ a \in known[k]
    /\ known[k] # {a}
    /\ known' = [known EXCEPT ![k] = @ \ {a}]
    /\ UNCHANGED listed

Leave(k) ==
    /\ k \in listed
    /\ listed' = listed \ {k}
    /\ known' = [known EXCEPT ![k] = {}]

Next ==
    \/ \E k \in Keys, a \in Paths : Join(k, a) \/ Learn(k, a) \/ Forget(k, a)
    \/ \E k \in Keys : Leave(k)

Spec == Init /\ [][Next]_vars
=============================================================================
