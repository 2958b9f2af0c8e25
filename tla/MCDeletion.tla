----------------------------- MODULE MCDeletion -----------------------------
(* An instance of Deletion with one failed call. *)
EXTENDS Deletion, TLC

CONSTANTS s1, s2, s3, b1, b2

\* Two sources share a blob; the third is a photograph of the enrollment.
SharedContent == s1 :> b1 @@ s2 :> b1 @@ s3 :> b2

OneError == {[crashes |-> 0, errors |-> 1]}
=============================================================================
