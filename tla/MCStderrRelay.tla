--------------------------- MODULE MCStderrRelay ---------------------------
(* Model values for StderrRelay: every stream of up to five symbols over  *)
(* a two-byte reader buffer, so that lines shorter than, equal to and      *)
(* longer than the buffer, CR LF split by the buffer, an unterminated last *)
(* line and a level prefix after a fragment all occur.                     *)
EXTENDS StderrRelay

MCStreams == BoundedSeq(Symbols, 5)

=============================================================================
