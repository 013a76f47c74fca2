----------------------------- MODULE MCStorage -----------------------------
(***************************************************************************)
(* A small instance of Storage: two uploads and a local put of one         *)
(* artifact, a put of another, room for one, and leases of two epochs of   *)
(* which the older upload lease expires.                                   *)
(***************************************************************************)
EXTENDS Storage

CONSTANTS s1, s2, d1, d2

Binding == [s \in Sessions |-> d1]

L(op, s, e, n) == [op |-> op, session |-> s, epoch |-> e, nonce |-> n]

OldLeases == {L("put", s1, 1, 1)}
Lasting == {L("put", s, 2, 2) : s \in Sessions} \cup {L("get", s1, 1, 3)}
AllLeases == OldLeases \cup Lasting
=============================================================================
