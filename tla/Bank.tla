-------------------------------- MODULE Bank --------------------------------
(***************************************************************************)
(* The bank contract (contracts/bank/src/lib.rs): BALANCES maps            *)
(* (address, denom) to a u64 balance; `send' moves an amount between two   *)
(* addresses with checked arithmetic.  Each Map::update writes through to  *)
(* the contract's store as soon as it returns, so when the second update   *)
(* fails the first one has already been written: the caller's cache       *)
(* overlay is what undoes it.                                              *)
(***************************************************************************)
EXTENDS Store

LOCAL SetsExt == INSTANCE FiniteSetsExt

CONSTANT MaxBalance  \* u64::MAX, scaled down: the width of a balance

ASSUME MaxBalance \in Nat \ {0}

\* The outcome of a call on a store: the store it leaves (the writes that
\* happened before any error included) and whether it returned an error.
Outcome(s, err) == [store |-> s, err |-> err]

\* BALANCES.update(store, (from, denom), ..): checked_sub, and delete the
\* entry when the balance reaches zero.
Debit(s, from, denom, amount) ==
  LET balance == NumOr0(s[BalKey(from, denom)]) IN
  IF balance < amount
  THEN Outcome(s, TRUE)
  ELSE Outcome([s EXCEPT ![BalKey(from, denom)] =
                   IF balance - amount > 0 THEN balance - amount ELSE None],
               FALSE)

\* Mutation: the overflow check dropped from the add.
CreditUnchecked(s, to, denom, amount) ==
  LET balance == NumOr0(s[BalKey(to, denom)]) IN
  Outcome([s EXCEPT ![BalKey(to, denom)] = balance + amount], FALSE)

\* Mutation: a wrapping add (u64 `+' in a release build) for checked_add.
CreditWrapping(s, to, denom, amount) ==
  LET balance == NumOr0(s[BalKey(to, denom)]) IN
  Outcome([s EXCEPT ![BalKey(to, denom)] =
             (balance + amount) % (MaxBalance + 1)], FALSE)

\* BALANCES.update(store, (to, denom), ..): checked_add against u64::MAX;
\* the new balance is saved as Some(balance) whatever its value.
Credit(s, to, denom, amount) ==
  LET balance == NumOr0(s[BalKey(to, denom)]) IN
  IF balance + amount > MaxBalance
  THEN Outcome(s, TRUE)
  ELSE Outcome([s EXCEPT ![BalKey(to, denom)] = balance + amount], FALSE)

\* Mutation: the credit computed from the balances read before the debit
\* (a send that loads both balances first), stale when from = to.
SendStaleCredit(s, from, to, denom, amount) ==
  LET d == Debit(s, from, denom, amount)
      c == Credit(s, to, denom, amount)
  IN  IF d.err THEN d
      ELSE IF c.err THEN Outcome(d.store, TRUE)
      ELSE Outcome([d.store EXCEPT ![BalKey(to, denom)] = c.store[BalKey(to, denom)]], FALSE)

\* send(ctx, from, to, denom, amount): debit, then credit the store the
\* debit left.
Send(s, from, to, denom, amount) ==
  LET d == Debit(s, from, denom, amount) IN
  IF d.err THEN d ELSE Credit(d.store, to, denom, amount)

\* Every balance of a store is a u64.
BalancesFit(s) ==
  \A a \in Addrs, d \in Denoms : s[BalKey(a, d)] \in 0..MaxBalance \cup {None}

\* The coins of one denom held in a store.
Supply(s, denom) ==
  SetsExt!MapThenSumSet(LAMBDA a : NumOr0(s[BalKey(a, denom)]), Addrs)

=============================================================================
