----------------------------- MODULE AccountKey -----------------------------
(***************************************************************************)
(* AccountType as a storage key (dango/types/src/account_factory/         *)
(* account.rs): raw_keys encodes it as one fixed byte and from_slice       *)
(* decodes the bytes a map finds under its namespace.  A run decodes every *)
(* byte string up to MaxKeyLen bytes, the keys a store can hold there.     *)
(***************************************************************************)
EXTENDS Naturals, Sequences, SequencesExt

CONSTANTS
  MaxKeyLen,           \* the longest byte string decoded
  Spot, Margin, Safe   \* the variants of AccountType

Bytes == 0..255

\* The variants of AccountType, in declaration order: #[derive(Ord)] orders
\* them by that order.
AccountTypes == <<Spot, Margin, Safe>>

\* The derived Ord of AccountType.
TypeLess(a, b) == \E i, j \in 1..3 : i < j /\ AccountTypes[i] = a /\ AccountTypes[j] = b

\* Mutation: the indices given in alphabetical order of the variants.
RawKeysAlphabetical(ty) ==
  LET index == CASE ty = Margin -> 0 [] ty = Safe -> 1 [] ty = Spot -> 2 IN
  <<index>>

\* raw_keys: RawKey::Fixed8([index]), the single byte of the variant.
RawKeys(ty) ==
  LET index == CASE ty = Spot -> 0 [] ty = Margin -> 1 [] ty = Safe -> 2 IN
  <<index>>

\* The outcome of from_slice.
Decoded(ty) == [ok |-> TRUE, val |-> ty]
Failed(err) == [ok |-> FALSE, err |-> err]

\* Before from_slice has run.
Pending == Failed("pending")

\* Mutation: the length check dropped, the first byte read.
FromSliceFirstByte(bytes) ==
  IF bytes = <<>> THEN Failed("length")
  ELSE CASE bytes[1] = 0 -> Decoded(Spot)
         [] bytes[1] = 1 -> Decoded(Margin)
         [] bytes[1] = 2 -> Decoded(Safe)
         [] OTHER        -> Failed("index")

\* Mutation: the arms of 1 and 2 swapped.
FromSliceSwapped(bytes) ==
  IF Len(bytes) # 1 THEN Failed("length")
  ELSE CASE bytes[1] = 0 -> Decoded(Spot)
         [] bytes[1] = 1 -> Decoded(Safe)
         [] bytes[1] = 2 -> Decoded(Margin)
         [] OTHER        -> Failed("index")

\* Mutation: the catch-all arm turns the index into a value unchecked.
FromSliceUnchecked(bytes) ==
  IF Len(bytes) # 1 THEN Failed("length")
  ELSE CASE bytes[1] = 0 -> Decoded(Spot)
         [] bytes[1] = 1 -> Decoded(Margin)
         [] bytes[1] = 2 -> Decoded(Safe)
         [] OTHER        -> Decoded(bytes[1])

\* from_slice: bytes.try_into() into [u8; 1] fails unless there is exactly
\* one byte; u8::from_be_bytes, then the index match, unknown indices being
\* a deserialize error.
FromSlice(bytes) ==
  IF Len(bytes) # 1 THEN Failed("length")
  ELSE CASE bytes[1] = 0 -> Decoded(Spot)
         [] bytes[1] = 1 -> Decoded(Margin)
         [] bytes[1] = 2 -> Decoded(Safe)
         [] OTHER        -> Failed("index")

\* AccountParams: a variant name and its payload, single::Params for Spot
\* and Margin, multi::Params for Safe (payloads abstracted to their type).
AllParams == [tag : {"Spot", "Margin"}, inner : {"single"}]
               \cup [tag : {"Safe"}, inner : {"multi"}]

\* The panic of as_<variant> on another variant.
DowncastPanic == "panic"

\* The pairs generate_downcast! is invoked with: variant name and the type
\* whose name the variant shares.
DowncastOf == <<"Spot", "Margin", "Safe">>

\* as_<variant>(self): the payload, or a panic on any other variant.
AsVariant(p, tag) == IF p.tag = tag THEN p.inner ELSE DowncastPanic

\* is_<variant>(self).
IsVariant(p, tag) == p.tag = tag

\* Mutation: a copied arm mapping Margin params to the Spot type.
TyCopiedArm(p) ==
  CASE p.tag = "Spot" -> Spot [] p.tag = "Margin" -> Spot [] p.tag = "Safe" -> Safe

\* AccountParams::ty.
Ty(p) ==
  CASE p.tag = "Spot" -> Spot [] p.tag = "Margin" -> Margin [] p.tag = "Safe" -> Safe

\* The lexicographic order of byte strings in which a store iterates keys.
RECURSIVE BytesLess(_, _)
BytesLess(a, b) ==
  IF a = <<>> THEN b # <<>>
  ELSE IF b = <<>> THEN FALSE
  ELSE \/ a[1] < b[1]
       \/ a[1] = b[1] /\ BytesLess(Tail(a), Tail(b))

VARIABLES
  key,     \* the bytes found under the map's namespace
  decoded, \* what from_slice made of them, Pending before
  params   \* the params of the account stored next to that key

vars == <<key, decoded, params>>

Init ==
  /\ key \in BoundedSeq(Bytes, MaxKeyLen)
  /\ decoded = Pending
  /\ params \in AllParams

\* A map range or load decoding the key with from_slice.
Decode ==
  /\ decoded = Pending
  /\ decoded' = FromSlice(key)
  /\ UNCHANGED <<key, params>>

Next == Decode

Spec == Init /\ [][Next]_vars

(***************************************************************************)
(* Properties.                                                             *)
(***************************************************************************)

TypeOK ==
  /\ key \in Seq(Bytes) /\ Len(key) <= MaxKeyLen
  /\ decoded \in [ok : {TRUE}, val : ToSet(AccountTypes)]
                \cup [ok : {FALSE}, err : {"pending", "length", "index"}]
  /\ params \in AllParams

\* Every account type read back from its own key is that type: from_slice
\* inverts raw_keys.
RoundTrip ==
  \A i \in 1..3 : key = RawKeys(AccountTypes[i]) /\ decoded # Pending
                   => decoded = Decoded(AccountTypes[i])

\* from_slice accepts only the canonical encoding: whatever bytes decode to
\* a type are exactly the key raw_keys writes for it, so no two keys in a
\* store can name the same account type.
DecodeIsCanonical ==
  decoded.ok => RawKeys(decoded.val) = key

\* Iterating a Map<AccountType, _> in key order visits the types in their
\* derived Ord order: the key of every type sorts before a decoded key
\* exactly when the type is less than the decoded one.
OrderPreserved ==
  decoded.ok =>
    \A i \in 1..3 :
      TypeLess(AccountTypes[i], decoded.val) <=> BytesLess(RawKeys(AccountTypes[i]), key)

\* An account indexed under the key of its own type (raw_keys of ty()):
\* the type read back from that key names the one variant whose
\* is_<variant> holds, and whose as_<variant> downcast returns the params
\* without panicking.
IndexedTypeDowncasts ==
  key = RawKeys(Ty(params)) /\ decoded.ok =>
    \A i \in 1..3 :
      (AccountTypes[i] = decoded.val)
        <=> (IsVariant(params, DowncastOf[i])
             /\ AsVariant(params, DowncastOf[i]) # DowncastPanic)

=============================================================================
