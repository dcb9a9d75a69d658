---------------------------- MODULE MCBlobCopier ----------------------------
(***************************************************************************)
(* An instance of BlobCopier for TLC: repository s of one registry, and    *)
(* a and b of another.  Two calls copy overlapping blobs from s to a and   *)
(* b; a third copies to b a blob that a holds from the start.              *)
(***************************************************************************)
EXTENDS BlobCopier, TLC

CONSTANTS d, e, s, a, b, dstReg, srcReg

RegistryOf == s :> srcReg @@ a :> dstReg @@ b :> dstReg

TwoRequests == {
  [src |-> s, dst |-> a, dgsts |-> <<d, e>>],
  [src |-> s, dst |-> b, dgsts |-> <<d>>]}

Requests == TwoRequests \cup {
  [src |-> a, dst |-> b, dgsts |-> <<e>>]}

AtStart == {<<d, s>>, <<e, s>>, <<e, a>>}

=============================================================================
