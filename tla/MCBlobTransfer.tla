--------------------------- MODULE MCBlobTransfer ---------------------------
(***************************************************************************)
(* Instances of BlobTransfer for TLC.                                      *)
(***************************************************************************)
EXTENDS BlobTransfer

CONSTANTS r1, r2, k1

(* All blobs have the same message type and target_blob_id, as those that  *)
(* broadcast_blob sends have.                                              *)
OneKind == [b \in Blobs |-> k1]
=============================================================================
