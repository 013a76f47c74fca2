--------------------------- MODULE LeaseAuthority ---------------------------
(***************************************************************************)
(* What the controller promises of execution authority, without tables,    *)
(* files, gate or process: a lease is issued for the current epoch, is     *)
(* claimed at most once and receipted at most once after its claim, both   *)
(* only while its epoch is current, and an advance of the epoch ends every *)
(* lease issued before it.                                                 *)
(***************************************************************************)
EXTENDS Integers

CONSTANT AllLeases   \* every lease that can exist, with an epoch field

VARIABLES fence, issued, claims, receipts

avars == <<fence, issued, claims, receipts>>

AInit == fence \in Nat /\ issued = {} /\ claims = {} /\ receipts = {}

\* One admission: a job's lease, or all the leases of a shard set.
Issue ==
    /\ issued \subseteq issued'
    /\ \A l \in issued' \ issued : l \in AllLeases /\ l.epoch = fence
    /\ UNCHANGED <<fence, claims, receipts>>

Claim ==
    \E l \in issued \ claims :
        /\ l.epoch = fence
        /\ claims' = claims \cup {l}
        /\ UNCHANGED <<fence, issued, receipts>>

Receipt ==
    \E l \in claims \ receipts :
        /\ l.epoch = fence
        /\ receipts' = receipts \cup {l}
        /\ UNCHANGED <<fence, issued, claims>>

Fence == fence' = fence + 1 /\ UNCHANGED <<issued, claims, receipts>>

ANext == Issue \/ Claim \/ Receipt \/ Fence

ASpec == AInit /\ [][ANext]_avars
=============================================================================
