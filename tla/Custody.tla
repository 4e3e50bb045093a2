------------------------------- MODULE Custody -------------------------------
(***************************************************************************)
(* What a store-and-forward hop promises.  An item is in the custody of    *)
(* its source until the source lets go of it, and the source may let go    *)
(* only of an item of which the destination holds a copy: whatever fails   *)
(* in between, an item is never lost, though it may arrive more than once. *)
(*                                                                         *)
(* The connect command is two such hops: a queued message moves from the   *)
(* incident directory to the BBS, and a message moves from the mailbox at  *)
(* the BBS to the incident directory.  Connection.tla instantiates this    *)
(* module once for each.                                                   *)
(***************************************************************************)
EXTENDS Naturals

CONSTANT Item

VARIABLES
    offered,    \* the items that have ever been in the source's custody
    source,     \* the items the source still holds
    copies      \* how many copies of each item the destination has

vars == <<offered, source, copies>>

TypeOK ==
    /\ offered \subseteq Item
    /\ source \subseteq offered
    /\ copies \in [Item -> Nat]

Init ==
    /\ offered \subseteq Item
    /\ source = offered
    /\ copies = [i \in Item |-> 0]

\* A new item comes into the source's custody.
Offer(i) ==
    /\ i \notin offered
    /\ offered' = offered \cup {i}
    /\ source' = source \cup {i}
    /\ UNCHANGED copies

\* The destination takes a copy of an item the source still holds.
Copy(i) ==
    /\ i \in source
    /\ copies' = [copies EXCEPT ![i] = @ + 1]
    /\ UNCHANGED <<offered, source>>

\* The source lets go of an item the destination has.
Release(i) ==
    /\ i \in source
    /\ copies[i] > 0
    /\ source' = source \ {i}
    /\ UNCHANGED <<offered, copies>>

Next == \E i \in Item : Offer(i) \/ Copy(i) \/ Release(i)

Spec == Init /\ [][Next]_vars

=============================================================================
