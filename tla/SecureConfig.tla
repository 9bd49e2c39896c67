---------------------------- MODULE SecureConfig ----------------------------
(***************************************************************************)
(* SecureConfig.Check (client.go:282-322), as Start calls it before every  *)
(* spawn (client.go:577-583). Check rejects an empty Checksum or a nil     *)
(* Hash, opens the file, streams it into s.Hash with io.Copy, and compares *)
(* s.Hash.Sum(nil) with Checksum in constant time.                         *)
(*                                                                         *)
(* s.Hash is the hash.Hash value held by the configuration: its state is   *)
(* what has been written to it, and Sum(nil) digests all of it without     *)
(* resetting. The digest is collision-free and never empty: Digest(b) is  *)
(* b, tagged. Each of Callers is a Start attempt that calls Check up to    *)
(* MaxChecks times on the same configuration (a retried Start, or clients  *)
(* sharing it).                                                            *)
(***************************************************************************)
EXTENDS Naturals, Sequences, SequencesExt

CONSTANTS Bytes,      \* the byte values a file may hold
          Contents,   \* the executables' possible contents
          Callers,    \* goroutines that call Check
          MaxChecks   \* calls of Check per caller

Digest(b) == [empty |-> FALSE, sum |-> b]

(* len(s.Checksum) == 0, or the digest the host configured.                *)
EmptyChecksum == [empty |-> TRUE, sum |-> <<>>]
Checksums == {EmptyChecksum} \cup {Digest(b) : b \in Contents}

(* The file at cmd.Path: whether os.Open succeeds, its content, and the    *)
(* byte whose read fails (0: none).                                        *)
Files == {[exists |-> e, content |-> b, failAt |-> f] :
             e \in BOOLEAN, b \in Contents, f \in 0..2}

Errors == {"none", "nochecksum", "nohash", "open", "read"}

VARIABLES
    checksum,   \* s.Checksum
    hashSet,    \* s.Hash != nil
    file,       \* the executable
    hashBuf,    \* the bytes written to s.Hash so far
    pc,         \* per caller: "idle" or "copy" (inside io.Copy)
    pos,        \* per caller: bytes io.Copy has written
    results     \* history: per caller, the (bool, error) of each Check

vars == <<checksum, hashSet, file, hashBuf, pc, pos, results>>

Init ==
    /\ checksum \in Checksums
    /\ hashSet \in BOOLEAN
    /\ file \in {f \in Files : f.failAt <= Len(f.content)}
    /\ hashBuf = <<>>
    /\ pc = [c \in Callers |-> "idle"]
    /\ pos = [c \in Callers |-> 0]
    /\ results = [c \in Callers |-> <<>>]

Return(c, ok, err) ==
    /\ results' = [results EXCEPT ![c] = Append(@, [ok |-> ok, err |-> err])]
    /\ pc' = [pc EXCEPT ![c] = "idle"]

(* Mutant of CheckBegin: the empty-checksum test is dropped.               *)
CheckBeginNoChecksumTest(c) ==
    /\ pc[c] = "idle" /\ Len(results[c]) < MaxChecks
    /\ CASE ~hashSet     -> Return(c, FALSE, "nohash") /\ UNCHANGED pos
         [] ~file.exists -> Return(c, FALSE, "open") /\ UNCHANGED pos
         [] OTHER        -> /\ pc' = [pc EXCEPT ![c] = "copy"]
                            /\ pos' = [pos EXCEPT ![c] = 0]
                            /\ UNCHANGED results
    /\ UNCHANGED <<checksum, hashSet, file, hashBuf>>

(* Check up to io.Copy: the two configuration tests, then os.Open.         *)
CheckBegin(c) ==
    /\ pc[c] = "idle" /\ Len(results[c]) < MaxChecks
    /\ CASE checksum = EmptyChecksum -> Return(c, FALSE, "nochecksum") /\ UNCHANGED pos
         [] ~hashSet     -> Return(c, FALSE, "nohash") /\ UNCHANGED pos
         [] ~file.exists -> Return(c, FALSE, "open") /\ UNCHANGED pos
         [] OTHER        -> /\ pc' = [pc EXCEPT ![c] = "copy"]
                            /\ pos' = [pos EXCEPT ![c] = 0]
                            /\ UNCHANGED results
    /\ UNCHANGED <<checksum, hashSet, file, hashBuf>>

(* io.Copy writes the next byte of the file into s.Hash.                   *)
CopyByte(c) ==
    /\ pc[c] = "copy"
    /\ pos[c] < Len(file.content) /\ file.failAt # pos[c] + 1
    /\ hashBuf' = Append(hashBuf, file.content[pos[c] + 1])
    /\ pos' = [pos EXCEPT ![c] = @ + 1]
    /\ UNCHANGED <<checksum, hashSet, file, pc, results>>

(* Mutant of CopyFail: a read error is reported as a match.                *)
CopyFailTrusts(c) ==
    /\ pc[c] = "copy"
    /\ file.failAt = pos[c] + 1
    /\ Return(c, TRUE, "read")
    /\ UNCHANGED <<checksum, hashSet, file, hashBuf, pos>>

(* io.Copy returns the read error; the deferred file.Close runs. What was *)
(* written to s.Hash stays there.                                          *)
CopyFail(c) ==
    /\ pc[c] = "copy"
    /\ file.failAt = pos[c] + 1
    /\ Return(c, FALSE, "read")
    /\ UNCHANGED <<checksum, hashSet, file, hashBuf, pos>>

(* s.Hash.Sum(nil) and subtle.ConstantTimeCompare(sum, s.Checksum) == 1.   *)
CheckSum(c) ==
    /\ pc[c] = "copy"
    /\ pos[c] = Len(file.content)
    /\ Return(c, Digest(hashBuf) = checksum, "none")
    /\ UNCHANGED <<checksum, hashSet, file, hashBuf, pos>>

CallerStep(c) == CheckBegin(c) \/ CopyByte(c) \/ CopyFail(c) \/ CheckSum(c)

Finished ==
    /\ \A c \in Callers : pc[c] = "idle" /\ Len(results[c]) = MaxChecks
    /\ UNCHANGED vars

Next == (\E c \in Callers : CallerStep(c)) \/ Finished

Spec == Init /\ [][Next]_vars /\ \A c \in Callers : WF_vars(CallerStep(c))

-----------------------------------------------------------------------------
(* Reference (spec 4.4 and 8): what Check(path) returns for this file and  *)
(* configuration, however often it is called.                              *)
CheckSpec ==
    CASE checksum = EmptyChecksum -> [ok |-> FALSE, err |-> "nochecksum"]
      [] ~hashSet                 -> [ok |-> FALSE, err |-> "nohash"]
      [] ~file.exists             -> [ok |-> FALSE, err |-> "open"]
      [] file.failAt # 0          -> [ok |-> FALSE, err |-> "read"]
      [] OTHER -> [ok |-> Digest(file.content) = checksum, err |-> "none"]

(* A Check never reports a match together with an error (spec 4.4: "never *)
(* partially trusts a match").                                             *)
TypeOK ==
    /\ hashBuf \in Seq(Bytes)
    /\ pc \in [Callers -> {"idle", "copy"}]
    /\ \A c \in Callers : pos[c] \in 0..Len(file.content)
    /\ \A c \in Callers : \A i \in DOMAIN results[c] :
          /\ results[c][i] \in [ok : BOOLEAN, err : Errors]
          /\ results[c][i].ok => results[c][i].err = "none"

(* Every Check a Start attempt makes returns what the spec says of the     *)
(* file and configuration: a match iff the file's digest is Checksum, and  *)
(* the specific error otherwise. Check writes into the shared s.Hash       *)
(* without Reset, so this depends on what earlier calls left there.        *)
CheckAsSpecified ==
    \A c \in Callers : \A i \in DOMAIN results[c] : results[c][i] = CheckSpec
=============================================================================
