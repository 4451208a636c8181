---------------------------- MODULE ChainAbstract ----------------------------
(***************************************************************************)
(* What the application promises consensus about its persisted history     *)
(* (spec sections 3-4): the chain is a sequence of states, version v being *)
(* the state after block v.  It starts with one genesis state, and every   *)
(* later version is the previous one with one whole block applied at the   *)
(* height of its version.  Nothing is ever removed or rewritten, and no    *)
(* partial block is ever visible.  How a block is applied is a parameter.  *)
(***************************************************************************)
EXTENDS Naturals, Sequences

CONSTANTS
  GenesisStates,  \* the states genesis can produce
  Blocks,         \* the blocks consensus can decide
  Apply(_, _, _)  \* Apply(s, h, b): the state after block b at height h

VARIABLE chain

Init == chain = <<>>

\* Genesis is persisted as version 0.
Genesis ==
  /\ chain = <<>>
  /\ \E g \in GenesisStates : chain' = <<g>>

\* Block number Len(chain) is applied to the latest state and persisted.
Extend ==
  /\ chain # <<>>
  /\ Len(chain') = Len(chain) + 1
  /\ \E b \in Blocks : chain' = Append(chain, Apply(chain[Len(chain)], Len(chain), b))

Next == Genesis \/ Extend

Spec == Init /\ [][Next]_chain

=============================================================================
