------------------------------- MODULE RustVm -------------------------------
(***************************************************************************)
(* The native Rust VM (crates/vm/rust/src/vm.rs).  A RustVm is built fresh *)
(* for every call from the contract's prefixed store, a querier and a      *)
(* program handle, and dispatches an entry-point name to the contract's    *)
(* registered function, one dispatch table per calling shape.              *)
(*                                                                         *)
(* Data is abstracted to what a caller can tell apart: a byte parameter is *)
(* "json" (from_json_slice decodes it) or "garbage" (it does not); the     *)
(* guest's writes to the prefixed store are a set of tags `w'; whether the *)
(* guest returns Ok is the boolean `gok'.  The storage handed in is the    *)
(* set of tags written so far; the VM writes straight through to it and    *)
(* never rolls back (that is the caller's cache overlay's job).            *)
(***************************************************************************)

\* Params: the byte parameters a caller can pass.
Params == {"json", "garbage"}

\* The result of a call: the storage the VM leaves and its output, <<"ok">>
\* for Ok(bytes) or the error it returns.
Result(s, out) == [storage |-> s, out |-> out]

\* The guest entry point runs on `&mut self.storage': its writes stay in the
\* store whether or not it returns an error, and into_std_result()? turns
\* its error into the call's error.  to_json_vec of a response cannot fail.
RunGuest(s, w, gok) == Result(s \cup w, IF gok THEN <<"ok">> ELSE <<"GuestError">>)

\* A parameter that from_json_slice rejects: the `?' returns before the
\* guest runs.
Decodes(p) == p = "json"

\* call_in_0_out_1: only "receive"; any other name is IncorrectNumberOfInputs
\* with num 0.
CallIn0Out1(s, name, w, gok) ==
  IF name = "receive"
  THEN RunGuest(s, w, gok)
  ELSE Result(s, <<"IncorrectNumberOfInputs", 0>>)

\* call_in_1_out_1: "instantiate", "execute" and "migrate" decode the
\* message and run the guest on the mutable store; "query" gets
\* `&self.storage', so its guest cannot write; any other name is
\* IncorrectNumberOfInputs with num 1.
CallIn1Out1(s, name, p1, w, gok) ==
  CASE name \in {"instantiate", "execute", "migrate"} ->
         IF Decodes(p1) THEN RunGuest(s, w, gok) ELSE Result(s, <<"DeserializeError">>)
    [] name = "query" ->
         IF Decodes(p1) THEN RunGuest(s, {}, gok) ELSE Result(s, <<"DeserializeError">>)
    [] OTHER -> Result(s, <<"IncorrectNumberOfInputs", 1>>)

\* Mutation: the error of call_in_1_out_1 copied with its `num: 1'.
CallIn2Out1Num1(s, name, p1, p2, w, gok) ==
  IF name = "reply"
  THEN IF Decodes(p1) /\ Decodes(p2)
       THEN RunGuest(s, w, gok)
       ELSE Result(s, <<"DeserializeError">>)
  ELSE Result(s, <<"IncorrectNumberOfInputs", 1>>)

\* call_in_2_out_1: only "reply", which decodes the original message and
\* then the submessage result before running the guest.
CallIn2Out1(s, name, p1, p2, w, gok) ==
  IF name = "reply"
  THEN IF Decodes(p1) /\ Decodes(p2)
       THEN RunGuest(s, w, gok)
       ELSE Result(s, <<"DeserializeError">>)
  ELSE Result(s, <<"IncorrectNumberOfInputs", 2>>)

\* An error that the VM returns without running the guest.
Rejected(out) == out[1] \in {"DeserializeError", "IncorrectNumberOfInputs"}

=============================================================================
