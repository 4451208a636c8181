------------------------------- MODULE AppChain -------------------------------
(***************************************************************************)
(* App shown to implement ChainAbstract: the persisted versions of the     *)
(* BaseStore are the abstract chain, and a block is applied as spec        *)
(* sections 4.F-4.G describe it, each transaction all or nothing except   *)
(* for its sender's sequence.  The block-level and tx-level caches, the    *)
(* staged version, the phases of do_finalize_block and the crashes are all *)
(* hidden by the mapping.  Also: the liveness of a block once consensus    *)
(* has handed it to the application.                                       *)
(***************************************************************************)
EXTENDS App

\* A decided block: its raw transactions and, for each, whether the
\* sender's after_tx (backrun) hook succeeds.
SpecBlocks ==
  UNION {{[txs |-> t, oks |-> o] : o \in [1..Len(t) -> BOOLEAN]} : t \in BlockTxs}

\* Spec 4.F for one raw transaction: undecodable or not authenticated, no
\* change; authenticated, the sender's sequence is bumped whatever happens
\* next; its messages and backrun take effect only if all of them succeed.
SpecTx(s, tx, backrunOk) ==
  IF tx = Garbage \/ s[SeqKey(tx.sender)] # tx.nonce THEN s
  ELSE LET bumped == [s EXCEPT ![SeqKey(tx.sender)] = @ + 1]
           run == ProcessMsgs(bumped, tx.sender, tx.msgs)
       IN IF run.err \/ ~backrunOk THEN bumped ELSE run.store

RECURSIVE SpecTxs(_, _, _)
SpecTxs(s, txs, oks) ==
  IF txs = <<>> THEN s
  ELSE SpecTxs(SpecTx(s, Head(txs), Head(oks)), Tail(txs), Tail(oks))

\* Spec 4.G finalize_block: begin blockers, the transactions in order, the
\* end blockers, then last_finalized_block := the block's height.
SpecBlock(s, height, b) ==
  LET afterTxs == SpecTxs(CallBlockers(s, BeginBlockers), b.txs,
                          [i \in 1..Len(b.txs) |-> b.oks[i]])
  IN [CallBlockers(afterTxs, EndBlockers) EXCEPT ![LastBlockKey] = height]

\* Spec 4.G init_chain: chain id, config and block 0 saved, then the
\* genesis messages, in one overlay over the empty store.
SpecGenesis ==
  {ProcessGenesisMsgs([EmptyStore EXCEPT ![ChainIdKey] = ChainId,
                                         ![ConfigKey] = CfgValue,
                                         ![LastBlockKey] = 0]).store}

Chain == INSTANCE ChainAbstract
           WITH chain <- db, GenesisStates <- SpecGenesis,
                Blocks <- SpecBlocks, Apply <- SpecBlock

\* Refinement: along every behaviour of the node, with crashes between any
\* two ABCI calls and in the middle of a block, the persisted versions grow
\* exactly as the abstract chain does: genesis, then one whole block at a
\* time at the height of its version.
ChainRefinement == Chain!Spec

(***************************************************************************)
(* Liveness.  do_finalize_block runs its loop over transactions and its    *)
(* end blockers without waiting on anything (spec section 5: no suspension *)
(* points), so once it has started, its steps stay enabled until they are  *)
(* taken or the process dies: weak fairness.  Consensus calls Commit after *)
(* every FinalizeBlock response: weak fairness on Commit.  Nothing forces  *)
(* consensus to propose a block or to restart a crashed node.              *)
(***************************************************************************)
FairSpec ==
  /\ Spec
  /\ WF_vars(\E ok \in BOOLEAN : RunTx(ok))
  /\ WF_vars(\E ok \in BOOLEAN : (EndBlockers = {} => ok) /\ FinalizeEnd(ok))
  /\ WF_vars(Commit)

\* A block do_finalize_block has started is eventually persisted as the
\* version of its height, unless a blocker fails (the chain halts) or the
\* node crashes in between.
BlockEventuallyPersisted ==
  \A h \in 1..MaxHeight, c \in 0..MaxCrashes :
    (phase = "Txs" /\ block = h /\ crashes = c)
      ~> (Len(db) > h \/ fatal # "none" \/ crashes > c)

=============================================================================
