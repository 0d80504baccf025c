------------------------------- MODULE MCNode -------------------------------
(* Instances of module Node for TLC. *)
EXTENDS Node

\* One sender, three nonces; the second transaction pays more than the first.
MCTx == {[from |-> "a", nonce |-> 0, max_fee |-> 1],
         [from |-> "a", nonce |-> 1, max_fee |-> 2],
         [from |-> "a", nonce |-> 2, max_fee |-> 1]}

MCTwo == {t \in MCTx : t.nonce < 2}

NoSend == {}

AllSend == Tx

=============================================================================
