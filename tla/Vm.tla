--------------------------------- MODULE Vm ---------------------------------
(***************************************************************************)
(* A sequence of calls on one contract through RustVm.  Every call builds  *)
(* a fresh instance (build_instance keeps nothing between calls), so the   *)
(* only state that carries over is the contract's prefixed store.          *)
(***************************************************************************)
EXTENDS Naturals, TLC, RustVm

CONSTANTS
  Names,      \* entry-point names callers ask for
  WriteTags,  \* distinguishable writes a guest can make to its store
  MaxCalls    \* bound on the number of calls

VARIABLES
  storage,  \* the tags written to the contract's prefixed store
  last,     \* the last call: its shape, name and output
  calls     \* the number of calls made

vars == <<storage, last, calls>>

\* What a call of a shape taking n inputs may return: VmResult<Vec<u8>>,
\* whose IncorrectNumberOfInputs error carries n.
OutputsOf(n) == {<<"ok">>, <<"GuestError">>, <<"DeserializeError">>,
                 <<"IncorrectNumberOfInputs", n>>}

TypeOK ==
  /\ storage \subseteq WriteTags
  /\ \/ last = [shape |-> 0, name |-> "none", out |-> <<"none">>]
     \/ /\ last \in [shape : 0..2, name : Names, out : UNION {OutputsOf(n) : n \in 0..2}]
        /\ last.out \in OutputsOf(last.shape)
  /\ calls \in 0..MaxCalls

Init ==
  /\ storage = {}
  /\ last = [shape |-> 0, name |-> "none", out |-> <<"none">>]
  /\ calls = 0

\* Apply the result r of a call of `name' at `shape'.
Apply(shape, name, r) ==
  /\ storage' = r.storage
  /\ last' = [shape |-> shape, name |-> name, out |-> r.out]
  /\ calls' = calls + 1

Call0 ==
  /\ calls < MaxCalls
  /\ \E name \in Names, w \in SUBSET WriteTags, gok \in BOOLEAN :
       Apply(0, name, CallIn0Out1(storage, name, w, gok))

Call1 ==
  /\ calls < MaxCalls
  /\ \E name \in Names, p1 \in Params, w \in SUBSET WriteTags, gok \in BOOLEAN :
       Apply(1, name, CallIn1Out1(storage, name, p1, w, gok))

Call2 ==
  /\ calls < MaxCalls
  /\ \E name \in Names, p1, p2 \in Params, w \in SUBSET WriteTags, gok \in BOOLEAN :
       Apply(2, name, CallIn2Out1(storage, name, p1, p2, w, gok))

Next == Call0 \/ Call1 \/ Call2

Spec == Init /\ [][Next]_vars

(***************************************************************************)
(* Properties.                                                             *)
(***************************************************************************)

\* Spec 4.D's entry-point matrix: the names each calling shape serves.
EntryPoints ==
  (0 :> {"receive"}) @@
  (1 :> {"instantiate", "execute", "migrate", "query", "authenticate", "backrun",
         "bank_execute", "bank_query", "withhold_fee", "finalize_fee", "cron_execute"}) @@
  (2 :> {"reply"})

\* Spec 4.D: only a name the entry-point matrix does not give a calling
\* shape is a hard error.  call_in_*_out_1 returns IncorrectNumberOfInputs
\* (the catch-all arm of its match) only for such a name, never for an
\* entry point the matrix lists at that shape.
OnlyUnknownNamesRejected ==
  last.out[1] = "IncorrectNumberOfInputs" => last.name \notin EntryPoints[last.shape]

=============================================================================
