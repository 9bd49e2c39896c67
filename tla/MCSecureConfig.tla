--------------------------- MODULE MCSecureConfig ---------------------------
(* Model values for SecureConfig: files of up to two bytes over a two-byte *)
(* alphabet, so that the configured checksum matches, mismatches, or is a  *)
(* prefix of what Sum returns, and a read may fail on either byte.         *)
EXTENDS SecureConfig

MCContents == BoundedSeq({0, 1}, 2)
=============================================================================
