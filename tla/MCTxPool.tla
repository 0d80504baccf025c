------------------------------ MODULE MCTxPool ------------------------------
(* Instances of TxPool for TLC. *)
EXTENDS TxPool

\* One sender, nonces 0 to 2, and for nonce 1 an equally dear and a dearer variant.
MCTx ==
  {[from |-> "a", nonce |-> 0, max_fee |-> 1, v |-> 0],
   [from |-> "a", nonce |-> 1, max_fee |-> 1, v |-> 0],
   [from |-> "a", nonce |-> 1, max_fee |-> 1, v |-> 1],
   [from |-> "a", nonce |-> 1, max_fee |-> 2, v |-> 0],
   [from |-> "a", nonce |-> 2, max_fee |-> 1, v |-> 0]}

\* Without the equally dear variant.
MCTxSmall == {t \in MCTx : t.v = 0}

=============================================================================
