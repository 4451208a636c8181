-------------------------------- MODULE MCApp --------------------------------
(***************************************************************************)
(* Model of App for TLC: three addresses (two accounts and one address     *)
(* that only receives), one denom, one begin and one end blocker, balances *)
(* three bits wide so that a credit can overflow.                          *)
(***************************************************************************)
EXTENDS AppChain

CONSTANTS a1, a2, a3, uatom, bb, eb, bank

\* Alice sends 1 to Bob.
TxAlice == [sender |-> a1, nonce |-> 0, msgs |-> <<[payload |-> "json", from |-> a1, to |-> a2, amount |-> 1]>>]

\* Bob sends 1 to Carol, then 2 to Alice: the second message fails when Bob
\* is left with less than 2, or when Alice's balance would overflow.
TxBob == [sender |-> a2, nonce |-> 0,
          msgs |-> <<[payload |-> "json", from |-> a2, to |-> a3, amount |-> 1], [payload |-> "json", from |-> a2, to |-> a1, amount |-> 2]>>]

\* Alice's second transaction sends 1 to herself: after TxAlice she holds 2,
\* so a credit computed from the balance read before the debit (3) would
\* still fit and create a coin.
TxAliceSelf == [sender |-> a1, nonce |-> 1,
                msgs |-> <<[payload |-> "json", from |-> a1, to |-> a1, amount |-> 1]>>]

\* Bob's transaction whose message bytes are not an ExecuteMsg.
TxGarbled == [sender |-> a2, nonce |-> 0,
              msgs |-> <<[payload |-> "garbage", from |-> a2, to |-> a3, amount |-> 1]>>]

MCTxPool == {TxAlice, TxBob, TxAliceSelf, TxGarbled}

MCGenesisBalances == [a \in Addrs |-> CASE a = a1 -> 3 [] a = a2 -> 2 [] OTHER -> 0]

\* A sender sends 0 to an address with no balance.
TxZero == [sender |-> a1, nonce |-> 0, msgs |-> <<[payload |-> "json", from |-> a1, to |-> a3, amount |-> 0]>>]

MCZeroTxPool == {TxZero}
\* Bob's transaction names Alice as the payer of a Send to Bob.
TxSteal == [sender |-> a2, nonce |-> 0, msgs |-> <<[payload |-> "json", from |-> a1, to |-> a2, amount |-> 1]>>]

MCTheftTxPool == {TxSteal}
=============================================================================
