-------------------------------- MODULE UsageTee --------------------------------
(***************************************************************************)
(* Recording the usage of one answer (share/usage_tee.go, usage/sink.go,   *)
(* usage/record.go): the body the reverse proxy copies to the client is    *)
(* mirrored into a sink, which adds one line to the session's file when    *)
(* the body ends or is closed.  A compressed stream goes through a pipe to *)
(* a goroutine that decompresses it.                                       *)
(*                                                                         *)
(* A chunk is one line of the stream, or the first or the last part of     *)
(* one; larger reads are several chunks.                                   *)
(***************************************************************************)
EXTENDS Integers, Sequences

CONSTANTS
    MaxEvents,      \* bound: events of a streamed answer
    MaxTokens       \* bound: tokens an event reports

ASSUME UsageAssumption == MaxEvents \in Nat /\ MaxTokens \in Nat \ {0}

VARIABLES
    sink,       \* what installUsageTee wraps the body with
    up,         \* the answer, as far as it has been sent
    said,       \* what has been read says of the usage
    copy,       \* the reverse proxy's copy loop and teeBody
    sse,        \* sseSink, also the inner sink of a gzipSink
    pipe,       \* gzipSink and its goroutine
    file        \* the lines appended to the session's file

usageVars == <<sink, up, said, copy, sse, pipe, file>>

Tokens == [in : 0..MaxTokens, out : 0..MaxTokens]
None == [in |-> 0, out |-> 0]
Absent == -1
Events == {"message_start", "message_delta", "error", "other"}
NoLine == <<"none">>

(* message_start reports the input and the first output, message_delta the *)
(* output, and the input once more or not.  Only the data of other events  *)
(* grows beyond sseLineCap.                                                *)
DataLines(e) ==
    CASE e = "message_start" -> {<<"data", i, 0>> : i \in 0..MaxTokens}
      [] e = "message_delta" -> {<<"data", i, o>> : i \in {Absent, MaxTokens}, o \in 0..MaxTokens}
      [] OTHER -> {<<"data", Absent, Absent>>, <<"long">>}
EventLines == {<<"event", e>> : e \in Events}
Lines == EventLines \cup (UNION {DataLines(e) : e \in Events}) \cup {NoLine}
Chunks == [line : Lines, part : {"whole", "first", "last"}]
NoChunk == [line |-> NoLine, part |-> "whole"]
Junk == [line |-> NoLine, part |-> "first"]
Header == [line |-> NoLine, part |-> "last"]

Sinks == {"off", "none", "json", "sse", "gzip"}
Reader == [event : Events \cup {""}, line : Lines, poisoned : BOOLEAN, usage : Tokens]
NewReader == [event |-> "", line |-> NoLine, poisoned |-> FALSE, usage |-> None]

UsageTypeOK ==
    /\ sink \in Sinks
    /\ up \in [events : 0..MaxEvents, name : Events \cup {""}, half : Lines,
               fate : {"open", "eof", "cut"}, header : BOOLEAN, junk : BOOLEAN]
    /\ said \in [usage : Tokens, error : BOOLEAN]
    /\ copy \in [pc : {"idle", "read", "write", "finalize", "close", "closed"},
                 chunk : Chunks, once : BOOLEAN, failed : BOOLEAN]
    /\ sse \in Reader
    /\ pipe \in [gz : {"off", "header", "loop", "drain", "done"},
                 got : Chunks, closed : BOOLEAN]
    /\ file \in Seq([usage : Tokens, stream : BOOLEAN])

UsageInit ==
    /\ sink = "off" /\ said = [usage |-> None, error |-> FALSE]
    /\ up = [events |-> 0, name |-> "", half |-> NoLine, fate |-> "open",
             header |-> FALSE, junk |-> FALSE]
    /\ copy = [pc |-> "idle", chunk |-> NoChunk, once |-> FALSE, failed |-> FALSE]
    /\ sse = NewReader /\ file = << >>
    /\ pipe = [gz |-> "off", got |-> NoChunk, closed |-> FALSE]

CopyAt(pc) == copy.pc = pc
CopyGoto(pc) == copy' = [copy EXCEPT !.pc = pc]

-------------------------------------------------------------------------------
(* installUsageTee: nothing but /v1/messages of a session with a proper    *)
(* id, not compressed or gzipped, with a content type that parses.         *)
InstallUsageTee(wanted, stream, gzipped) ==
    /\ CopyAt("idle")
    /\ sink' = IF ~wanted THEN "none" ELSE IF ~stream THEN "json"
                ELSE IF gzipped THEN "gzip" ELSE "sse"
    /\ pipe' = [pipe EXCEPT !.gz = IF wanted /\ stream /\ gzipped THEN "header" ELSE "off"]
    /\ CopyGoto("read")
    /\ UNCHANGED <<up, said, sse, file>>

(* What a line adds to a usage: the fields that are there overwrite.       *)
Applied(usage, line) ==
    [in  |-> IF line[2] = Absent THEN usage.in ELSE line[2],
     out |-> IF line[3] = Absent THEN usage.out ELSE line[3]]

(* The answer's next chunk.  A gzipped one begins with a header; from a    *)
(* corrupt byte on nothing can be decompressed.                            *)
Sendable ==
    IF sink = "gzip" /\ ~up.header THEN {Header, Junk}
    ELSE (IF up.half # NoLine THEN {[line |-> up.half, part |-> "last"]}
          ELSE [line : IF up.name = "" THEN IF up.events < MaxEvents THEN EventLines ELSE {}
                       ELSE DataLines(up.name),
                part : {"whole", "first"}])
         \cup (IF sink = "gzip" /\ ~up.junk THEN {Junk} ELSE {})

Sent(c) ==
    CASE c = Header -> [up EXCEPT !.header = TRUE]
      [] c = Junk -> [up EXCEPT !.header = TRUE, !.junk = TRUE]
      [] c # Junk /\ c.part = "first" -> [up EXCEPT !.half = c.line]
      [] OTHER -> [up EXCEPT !.half = NoLine,
                     !.name = IF c.line[1] = "event" THEN c.line[2] ELSE "",
                     !.events = IF c.line[1] = "event" THEN @ + 1 ELSE @]

(* teeBody.Read: the chunk goes to the client and into the sink.           *)
Read(c) ==
    /\ CopyAt("read") /\ up.fate = "open" /\ sink \in {"sse", "gzip"}
    /\ up' = Sent(c)
    /\ said' = IF up.junk \/ c \in {Junk, Header} \/ c.part = "first" THEN said
               ELSE [usage |-> IF c.line[1] = "data" THEN Applied(said.usage, c.line) ELSE said.usage,
                     error |-> said.error \/ c.line = <<"event", "error">>]
    /\ copy' = [copy EXCEPT !.pc = "write", !.chunk = c]
    /\ UNCHANGED <<sink, sse, pipe, file>>

(* A body that is not a stream is kept until it has ended.                 *)
ReadBody(usage) ==
    /\ CopyAt("read") /\ up.fate = "open" /\ sink = "json"
    /\ up' = [up EXCEPT !.fate = "eof"] /\ said' = [said EXCEPT !.usage = usage]
    /\ UNCHANGED <<sink, copy, sse, pipe, file>>

(* The upstream has sent all, or the connection breaks.                    *)
UpstreamEnds ==
    /\ CopyAt("read") /\ up.fate = "open"
    /\ \E fate \in {"eof", "cut"} :
          /\ fate = "eof" => up.half = NoLine /\ up.name = "" /\ sink # "json"
          /\ up' = [up EXCEPT !.fate = fate]
    /\ UNCHANGED <<sink, said, copy, sse, pipe, file>>

(* The last Read finalizes; so does Close, when the client has gone.       *)
ReadEnds == CopyAt("read") /\ up.fate # "open" /\ CopyGoto("finalize") /\ UNCHANGED <<sink, up, said, sse, pipe, file>>
ClientGone ==
    /\ CopyAt("read") /\ up.fate = "open" /\ CopyGoto("close")
    /\ up' = [up EXCEPT !.fate = "cut"]
    /\ UNCHANGED <<sink, said, sse, pipe, file>>

-------------------------------------------------------------------------------
(* sseSink.Write and processLine: a line counts when its newline is there. *)
Process(r, line) ==
    CASE line[1] = "event" ->
           [r EXCEPT !.event = line[2], !.poisoned = @ \/ line[2] = "error"]
      [] line[1] = "data" /\ r.event \in {"message_start", "message_delta"} ->
           [r EXCEPT !.usage = Applied(@, line)]
      [] OTHER -> r

Written(r, c) ==
    CASE c.part = "first" -> [r EXCEPT !.line = c.line]
      [] c.part = "last" /\ r.line # c.line -> [r EXCEPT !.line = NoLine]
      [] OTHER -> [Process(r, c.line) EXCEPT !.line = NoLine]

WritePlain ==
    /\ CopyAt("write") /\ sink = "sse"
    /\ sse' = Written(sse, copy.chunk)
    /\ copy' = [copy EXCEPT !.pc = "read", !.chunk = NoChunk]
    /\ UNCHANGED <<sink, up, said, pipe, file>>

(* gzipSink.Write blocks until the goroutine has taken the chunk, and      *)
(* fails, unnoticed, once the reading end is closed.                       *)
Take(gz, got) ==
    /\ CopyAt("write") /\ sink = "gzip"
    /\ pipe' = [pipe EXCEPT !.gz = gz, !.got = got]
    /\ copy' = [copy EXCEPT !.pc = "read", !.chunk = NoChunk]
    /\ UNCHANGED <<sink, up, said, sse, file>>

WriteFails == pipe.gz = "done" /\ Take("done", NoChunk)

(* gzipSink.run: a header that is none makes it drain the pipe, a corrupt  *)
(* byte behind the header makes it return, which closes the reading end.   *)
ReadHeader == pipe.gz = "header" /\ Take(IF copy.chunk = Header THEN "loop" ELSE "drain", NoChunk)
Drain == pipe.gz = "drain" /\ Take("drain", NoChunk)
Decompress == pipe.gz = "loop" /\ pipe.got = NoChunk /\ Take("loop", copy.chunk)

Emit ==
    /\ pipe.gz = "loop" /\ pipe.got # NoChunk
    /\ sse' = IF pipe.got = Junk THEN sse ELSE Written(sse, pipe.got)
    /\ pipe' = [pipe EXCEPT !.got = NoChunk, !.gz = IF pipe.got = Junk THEN "done" ELSE "loop"]
    /\ UNCHANGED <<sink, up, said, copy, file>>

(* The writing end is closed: what was being read of the pipe ends.        *)
PipeEnds ==
    /\ pipe.gz \in {"header", "loop", "drain"} /\ pipe.closed /\ pipe.got = NoChunk
    /\ pipe' = [pipe EXCEPT !.gz = "done"]
    /\ UNCHANGED <<sink, up, said, copy, sse, file>>

-------------------------------------------------------------------------------
(* Mutant: the pipe stays open.                                            *)
ClosePipeForgets ==
    /\ CopyAt("finalize") /\ sink = "gzip" /\ ~pipe.closed
    /\ UNCHANGED usageVars

(* teeBody.finalize runs once; a gzipSink closes the pipe and waits for    *)
(* the goroutine before it asks the inner sink.                            *)
ClosePipe ==
    /\ CopyAt("finalize") /\ sink = "gzip" /\ ~pipe.closed
    /\ pipe' = [pipe EXCEPT !.closed = TRUE]
    /\ UNCHANGED <<sink, up, said, copy, sse, file>>

(* Finalize of the two sinks: a poisoned stream, an answer that reports no *)
(* token and a body that does not parse are not recorded.                  *)
Total(usage) == usage # None
Recordable ==
    CASE sink = "json" -> up.fate = "eof" /\ Total(said.usage)
      [] sink \in {"sse", "gzip"} -> ~sse.poisoned /\ Total(sse.usage)
      [] OTHER -> FALSE
Line == [usage |-> IF sink = "json" THEN said.usage ELSE sse.usage, stream |-> sink # "json"]

(* Mutant: the inner sink is asked before the goroutine is done.           *)
FinalizeEarly ==
    /\ CopyAt("finalize") /\ (sink = "gzip" => pipe.closed)
    /\ copy' = [copy EXCEPT !.pc = "close", !.once = TRUE]
    /\ file' = IF Recordable THEN Append(file, Line) ELSE file
    /\ UNCHANGED <<sink, up, said, sse, pipe>>

(* Append may fail, which is logged at most.                               *)
Finalize ==
    /\ CopyAt("finalize") /\ (sink = "gzip" => pipe.closed /\ pipe.gz = "done")
    /\ \E failed \in BOOLEAN :
          /\ copy' = [copy EXCEPT !.pc = "close", !.once = TRUE, !.failed = failed]
          /\ file' = IF Recordable /\ ~failed THEN Append(file, Line) ELSE file
    /\ UNCHANGED <<sink, up, said, sse, pipe>>

Close ==
    /\ CopyAt("close")
    /\ CopyGoto(IF copy.once THEN "closed" ELSE "finalize")
    /\ UNCHANGED <<sink, up, said, sse, pipe, file>>

-------------------------------------------------------------------------------
CopyNext ==
    \/ \E c \in Sendable : Read(c)
    \/ \E usage \in Tokens : ReadBody(usage)
    \/ UpstreamEnds \/ ReadEnds \/ ClientGone \/ WritePlain \/ WriteFails
    \/ ClosePipe \/ Finalize \/ Close
GzipNext == ReadHeader \/ Drain \/ Decompress \/ Emit \/ PipeEnds
UsageNext == CopyNext \/ GzipNext
===============================================================================
