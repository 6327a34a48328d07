----------------------------- MODULE MCMailbox ------------------------------
(* Instances of Mailbox for TLC: agents are compared only for equality. *)
EXTENDS Mailbox, TLC

Symmetry == Permutations(Senders) \cup Permutations(Readers)
=============================================================================
