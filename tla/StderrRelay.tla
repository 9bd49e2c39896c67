---------------------------- MODULE StderrRelay ----------------------------
(***************************************************************************)
(* The stderr relay goroutine Client.logStderr (client.go:892-976): it     *)
(* reads the plugin's stderr pipe with bufio.Reader.ReadLine over a buffer *)
(* of stdErrBufferSize bytes, copies every line to config.Stderr (the raw  *)
(* sink) with a restored newline, and logs it: a complete line at the      *)
(* level its prefix names (or as a parsed JSON record), a fragment of an   *)
(* over-long line at debug level, unparsed.                                *)
(*                                                                         *)
(* The stream is a sequence of symbols: LF and CR are the bytes '\n' and   *)
(* '\r'; "E" stands for the bytes "[ERROR]" that open a line, "{" for the  *)
(* opening of a JSON record that parseJSON accepts, "x" for any other      *)
(* byte. BufSize is the reader's buffer size.                              *)
(***************************************************************************)
EXTENDS Naturals, Sequences, SequencesExt

CONSTANTS BufSize,   \* stdErrBufferSize (at least 2, as bufio guarantees 16)
          Streams    \* the stderr contents the plugin may write before EOF

LF == "LF"
CR == "CR"
Symbols == {"x", "E", "{", CR, LF}

ASSUME BufSize >= 2 /\ Streams \subseteq Seq(Symbols)

VARIABLES
    stream,        \* what the plugin wrote; fixed for the run
    rest,          \* the bytes the reader has not yet returned
    continuation,  \* logStderr's flag: the previous line was a prefix
    sink,          \* bytes written to c.config.Stderr
    logged,        \* entries logged through l: [level, form, text, line]
    lineNo,        \* history: logical lines completed so far
    done           \* logStderr has returned

vars == <<stream, rest, continuation, sink, logged, lineNo, done>>

-----------------------------------------------------------------------------
(* bufio.Reader.ReadLine over a buffer of BufSize bytes, for a pipe that   *)
(* reports EOF on a read of its own. ReadSlice('\n') returns up to and     *)
(* including the first LF if it lies within the buffer; otherwise it       *)
(* returns a full buffer (ErrBufferFull, isPrefix), putting back a final   *)
(* CR so that a CR LF split by the buffer is still recognised; at EOF it   *)
(* returns what is left. ReadLine drops a trailing LF or CR LF.            *)
ReadLine(r) ==
    LET i == SelectInSeq(r, LAMBDA c : c = LF)
        Chop(l) == IF l # <<>> /\ Last(l) = CR THEN Front(l) ELSE l
    IN CASE r = <<>> ->
              [eof |-> TRUE, line |-> <<>>, isPrefix |-> FALSE, rest |-> r]
         [] i # 0 /\ i <= BufSize ->
              [eof |-> FALSE, line |-> Chop(SubSeq(r, 1, i - 1)),
               isPrefix |-> FALSE, rest |-> SubSeq(r, i + 1, Len(r))]
         [] Len(r) < BufSize ->
              [eof |-> FALSE, line |-> r, isPrefix |-> FALSE, rest |-> <<>>]
         [] OTHER ->
              LET n == IF r[BufSize] = CR THEN BufSize - 1 ELSE BufSize
              IN [eof |-> FALSE, line |-> SubSeq(r, 1, n),
                  isPrefix |-> TRUE, rest |-> SubSeq(r, n + 1, Len(r))]

(* Mutant of LevelOf: the "[ERROR]" case logs through l.Info.             *)
LevelOfInfo(line) ==
    CASE line # <<>> /\ line[1] = "{" -> [level |-> "debug", form |-> "json"]
      [] line # <<>> /\ line[1] = "E" -> [level |-> "info", form |-> "raw"]
      [] OTHER                        -> [level |-> "debug", form |-> "raw"]

(* parseJSON, then the prefix switch: the level and form a complete line   *)
(* is logged with.                                                         *)
LevelOf(line) ==
    CASE line # <<>> /\ line[1] = "{" -> [level |-> "debug", form |-> "json"]
      [] line # <<>> /\ line[1] = "E" -> [level |-> "error", form |-> "raw"]
      [] OTHER                        -> [level |-> "debug", form |-> "raw"]

Entry(kind, line) == kind @@ [text |-> line, line |-> lineNo + 1]

-----------------------------------------------------------------------------
Init ==
    /\ stream \in Streams
    /\ rest = stream
    /\ continuation = FALSE
    /\ sink = <<>>
    /\ logged = <<>>
    /\ lineNo = 0
    /\ done = FALSE

(* ReadLine returns io.EOF (or another read error): logStderr returns.     *)
RelayEOF ==
    /\ ~done
    /\ ReadLine(rest).eof
    /\ done' = TRUE
    /\ UNCHANGED <<stream, rest, continuation, sink, logged, lineNo>>

(* Mutant of RelayFragment: the newline is not restored after a continued *)
(* line.                                                                   *)
RelayFragmentNoNewline ==
    LET r == ReadLine(rest) IN
    /\ ~done
    /\ ~r.eof
    /\ r.isPrefix \/ continuation
    /\ rest' = r.rest
    /\ sink' = sink \o r.line
    /\ logged' = Append(logged, Entry([level |-> "debug", form |-> "raw"], r.line))
    /\ continuation' = r.isPrefix
    /\ lineNo' = IF r.isPrefix THEN lineNo ELSE lineNo + 1
    /\ UNCHANGED <<stream, done>>

(* Mutant of RelayFragment: continuation is only ever set, never reset.    *)
RelayFragmentSticky ==
    LET r == ReadLine(rest) IN
    /\ ~done
    /\ ~r.eof
    /\ r.isPrefix \/ continuation
    /\ rest' = r.rest
    /\ sink' = sink \o r.line \o (IF r.isPrefix THEN <<>> ELSE <<LF>>)
    /\ logged' = Append(logged, Entry([level |-> "debug", form |-> "raw"], r.line))
    /\ continuation' = (r.isPrefix \/ continuation)
    /\ lineNo' = IF r.isPrefix THEN lineNo ELSE lineNo + 1
    /\ UNCHANGED <<stream, done>>

(* Mutant of RelayLine: the check of continuation is dropped, so the last  *)
(* piece of a continued line may be parsed as a line of its own.           *)
RelayLineIgnoresContinuation ==
    LET r == ReadLine(rest) IN
    /\ ~done
    /\ ~r.eof
    /\ ~r.isPrefix
    /\ rest' = r.rest
    /\ sink' = sink \o r.line \o <<LF>>
    /\ logged' = Append(logged, Entry(LevelOf(r.line), r.line))
    /\ lineNo' = lineNo + 1
    /\ UNCHANGED <<stream, continuation, done>>

(* A prefix, or the rest of a continued line: written raw, logged at debug *)
(* unparsed, with the newline restored once the line is finished.          *)
RelayFragment ==
    LET r == ReadLine(rest) IN
    /\ ~done
    /\ ~r.eof
    /\ r.isPrefix \/ continuation
    /\ rest' = r.rest
    /\ sink' = sink \o r.line \o (IF r.isPrefix THEN <<>> ELSE <<LF>>)
    /\ logged' = Append(logged, Entry([level |-> "debug", form |-> "raw"], r.line))
    /\ continuation' = r.isPrefix
    /\ lineNo' = IF r.isPrefix THEN lineNo ELSE lineNo + 1
    /\ UNCHANGED <<stream, done>>

(* A complete line: written raw with its newline, then parsed or levelled. *)
RelayLine ==
    LET r == ReadLine(rest) IN
    /\ ~done
    /\ ~r.eof
    /\ ~r.isPrefix /\ ~continuation
    /\ rest' = r.rest
    /\ sink' = sink \o r.line \o <<LF>>
    /\ logged' = Append(logged, Entry(LevelOf(r.line), r.line))
    /\ lineNo' = lineNo + 1
    /\ UNCHANGED <<stream, continuation, done>>

(* The goroutine has returned; nothing more happens.                       *)
Returned == done /\ UNCHANGED vars

Next == RelayEOF \/ RelayFragment \/ RelayLine \/ Returned

Spec == Init /\ [][Next]_vars /\ WF_vars(Next)

-----------------------------------------------------------------------------
(* Reference: the logical lines of a stream. A line ends at LF, which with *)
(* a CR before it is the line's terminator; a last line may be            *)
(* unterminated. raw is the line with its CR, as it sits in the buffer.    *)
RECURSIVE LogicalLines(_)
LogicalLines(s) ==
    LET i == SelectInSeq(s, LAMBDA c : c = LF) IN
    IF s = <<>> THEN <<>>
    ELSE IF i = 0 THEN <<[raw |-> s, text |-> s, ended |-> FALSE]>>
    ELSE LET raw == SubSeq(s, 1, i - 1)
             text == IF raw # <<>> /\ Last(raw) = CR THEN Front(raw) ELSE raw
         IN <<[raw |-> raw, text |-> text, ended |-> TRUE]>>
              \o LogicalLines(SubSeq(s, i + 1, Len(s)))

Lines == LogicalLines(stream)

(* What config.Stderr should hold: every line of the stream, verbatim,     *)
(* terminated by one newline.                                              *)
ExpectedSink == FlattenSeq([k \in DOMAIN Lines |-> Lines[k].text \o <<LF>>])

(* The entries logged for logical line k, in order.                        *)
EntriesOf(k) == SelectSeq(logged, LAMBDA e : e.line = k)

TypeOK ==
    /\ rest \in Seq(Symbols) /\ IsSuffix(rest, stream)
    /\ continuation \in BOOLEAN /\ done \in BOOLEAN
    /\ sink \in Seq(Symbols)
    /\ lineNo \in 0..Len(Lines)
    /\ \A i \in DOMAIN logged :
          logged[i].level \in {"debug", "error"} /\ logged[i].form \in {"raw", "json"}

(* Safety of the raw copy (logStderr's Stderr.Write calls and the          *)
(* continuation flag): at every step the raw sink holds a prefix of the    *)
(* stream's lines, each followed by exactly one newline; no fragment is    *)
(* lost, repeated or split by a stray newline.                            *)
SinkFollowsStream == IsPrefix(sink, ExpectedSink)

(* Fragments are never parsed (client.go:917): once the relay returns, the *)
(* entries of each line concatenate to that line, and an entry logged at a *)
(* level other than debug, or as a JSON record, is a whole line.           *)
LogReassemblesLines ==
    done =>
      /\ \A k \in DOMAIN Lines :
            FlattenSeq([i \in DOMAIN EntriesOf(k) |-> EntriesOf(k)[i].text])
              = Lines[k].text
      /\ \A i \in DOMAIN logged :
            (logged[i].level # "debug" \/ logged[i].form = "json")
              => logged[i].text = Lines[logged[i].line].text

(* A line that fits the reader's buffer together with its terminator is    *)
(* logged as one entry at the level its prefix names, even when it follows *)
(* an over-long line (the continuation flag is reset); a terminated line   *)
(* longer than the buffer ("longer than our max token size", client.go:915)*)
(* is logged in more than one fragment. A line of exactly BufSize bytes is *)
(* left open here: the code fragments it, against that comment.           *)
Whole(k) == << LevelOf(Lines[k].text) @@ [text |-> Lines[k].text, line |-> k] >>

ShortLinesLevelled ==
    done =>
      \A k \in DOMAIN Lines :
         /\ Len(Lines[k].raw) < BufSize => EntriesOf(k) = Whole(k)
         /\ Lines[k].ended /\ Len(Lines[k].raw) > BufSize => Len(EntriesOf(k)) > 1
=============================================================================
