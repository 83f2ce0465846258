--------------------------- MODULE MessagePathProofs ---------------------------
(***************************************************************************)
(* Proofs about a message on its way through the proxy.                    *)
(*                                                                         *)
(* The recording of an answer's usage, for every length of the answer and  *)
(* every number of tokens: IInv says what the reader behind the chunks on  *)
(* the way to it will have read.                                           *)
(*                                                                         *)
(* The alias table, for every alphabet, table and name.  First the matcher *)
(* without the boot check: the states of the automaton after n letters are *)
(* those of the beginnings of the pattern that can stand for them, so that *)
(* it matches the names that its pattern covers.  Then the boot check:     *)
(* Booted says that its search sees all pairs of states that one name      *)
(* leads to, and only those.                                               *)
(***************************************************************************)
EXTENDS MessagePath, WellFoundedInduction, TLAPS

(* A chunk of the stream, as opposed to the gzip header and to a corrupt   *)
(* byte.                                                                   *)
Clean(c) == c \notin {Header, Junk, NoChunk}

(* What the inner sink will have read once it has been given what is on    *)
(* the way to it: first the goroutine's chunk, then the copy loop's.       *)
Behind == IF Clean(pipe.got) THEN Written(sse, pipe.got) ELSE sse
OnTheWay ==
    /\ CopyAt("write") /\ Clean(copy.chunk)
    /\ sink = "gzip" => pipe.gz = "loop" /\ pipe.got # Junk
Ahead == IF OnTheWay THEN Written(Behind, copy.chunk) ELSE Behind

(* A reader has kept up if it agrees with what the upstream has said, and  *)
(* knows the line begun and the event whose data comes next.  A corrupt    *)
(* byte is where the upstream stops saying anything.                       *)
Keeps(r, usage, error, half, name) ==
    /\ r.usage = usage /\ r.poisoned = error
    /\ r.line = half
    /\ name # "" => r.event = name

Streamed == sink \in {"sse", "gzip"}
Agrees ==
    IF up.junk THEN Ahead.usage = said.usage /\ Ahead.poisoned = said.error
    ELSE Keeps(Ahead, said.usage, said.error, up.half, up.name)

(* The line begun is one that was awaited.                                 *)
Awaited == IF up.name = "" THEN EventLines ELSE DataLines(up.name)
Halves ==
    up.half # NoLine => /\ up.half \in Awaited
                        /\ up.name = "" => up.events < MaxEvents

(* Where the goroutine is, by what has been sent.                          *)
Plumbing ==
    /\ sink # "gzip" => pipe.gz = "off" /\ ~up.junk
    /\ sink = "gzip" => pipe.gz # "off"
    /\ pipe.gz # "loop" => pipe.got = NoChunk
    /\ pipe.closed => copy.pc \in {"finalize", "close", "closed"}
    /\ pipe.gz = "done" => up.junk \/ pipe.closed
    /\ pipe.gz = "drain" => up.junk
    /\ pipe.gz = "header" =>
          \/ CopyAt("write") /\ copy.chunk \in {Header, Junk}
          \/ ~CopyAt("write") /\ ~up.header
    /\ CopyAt("write") /\ copy.chunk = Header => pipe.gz = "header" /\ up.header
    /\ CopyAt("write") /\ copy.chunk = Junk => up.junk /\ pipe.gz \in {"header", "loop"} /\ pipe.got # Junk
    /\ pipe.got = Junk => up.junk
    /\ pipe.got # Header
    /\ up.junk => up.header
    /\ sink = "gzip" /\ ~up.header => pipe.gz = "header" \/ pipe.closed
    /\ up.junk => \/ pipe.gz \in {"drain", "done"} \/ pipe.got = Junk
                  \/ CopyAt("write") /\ copy.chunk = Junk

(* Where the copy loop is.                                                 *)
Copying ==
    /\ CopyAt("idle") <=> sink = "off"
    /\ CopyAt("write") => Streamed /\ copy.chunk # NoChunk
    /\ up.fate # "open" => copy.pc \in {"read", "finalize", "close", "closed"}
    /\ copy.once => copy.pc \in {"close", "closed"}
    /\ CopyAt("closed") => copy.once
    /\ ~copy.once /\ copy.pc \in {"finalize", "close"} => up.fate # "open"
    /\ sink = "off" => up.fate = "open"
    /\ copy.once => up.fate # "open" /\ (sink = "gzip" => pipe.gz = "done")

(* What is not streamed says nothing before it has ended.                  *)
Unstreamed ==
    /\ sse = NewReader /\ ~said.error
    /\ up.half = NoLine /\ up.name = "" /\ ~up.header /\ ~up.junk
    /\ sink # "json" \/ up.fate # "eof" => said.usage = None

(* The file, before and after the one call of Finalize.                    *)
Recorded ==
    IF copy.once
    THEN /\ Len(file) <= 1
         /\ \A i \in DOMAIN file : file[i].usage = said.usage /\ ~said.error
         /\ sink # "none" /\ said.usage # None /\ ~said.error =>
               file # << >> \/ copy.failed \/ (sink = "json" /\ up.fate = "cut")
    ELSE file = << >>

Kept == IF Streamed THEN Agrees ELSE Unstreamed
IInv == UsageTypeOK /\ Copying /\ Plumbing /\ Halves /\ Kept /\ Recorded

-------------------------------------------------------------------------------
(* Lines and chunks.                                                       *)
LEMMA EventLineFacts ==
    ASSUME NEW line \in EventLines
    PROVE  /\ line \in Lines /\ line # NoLine
           /\ line[1] = "event" /\ line[2] \in Events
           /\ line = <<"event", "error">> <=> line[2] = "error"
BY DEF EventLines, Lines, NoLine

LEMMA DataLineFacts ==
    ASSUME NEW e \in Events, NEW line \in DataLines(e)
    PROVE  /\ line \in Lines /\ line # NoLine
           /\ line[1] # "event"
           /\ line[1] = "data" => /\ line[2] \in {Absent} \cup (0..MaxTokens)
                                  /\ line[3] \in {Absent} \cup (0..MaxTokens)
           /\ line[1] = "data" /\ e \notin {"message_start", "message_delta"} =>
                 line[2] = Absent /\ line[3] = Absent
<1>1. line \in Lines
  BY DEF Lines
<1>2. CASE e = "message_start"
  BY <1>1, <1>2, UsageAssumption DEF DataLines, NoLine, Absent
<1>3. CASE e = "message_delta"
  BY <1>1, <1>3, UsageAssumption DEF DataLines, NoLine, Absent
<1>4. CASE e \notin {"message_start", "message_delta"}
  BY <1>1, <1>4, UsageAssumption DEF DataLines, NoLine, Absent
<1> QED
  BY <1>2, <1>3, <1>4

LEMMA LineFacts ==
    ASSUME NEW line \in Lines
    PROVE  /\ line[1] = "event" => line[2] \in Events
           /\ line[1] = "data" => /\ line[2] \in {Absent} \cup (0..MaxTokens)
                                  /\ line[3] \in {Absent} \cup (0..MaxTokens)
<1>1. CASE line \in EventLines
  BY <1>1, EventLineFacts
<1>2. CASE line = NoLine
  BY <1>2 DEF NoLine
<1>3. CASE line \notin EventLines /\ line # NoLine
  <2>1. line \in UNION {DataLines(e) : e \in Events}
    BY <1>3 DEF Lines
  <2>2. PICK e \in Events : line \in DataLines(e)
    BY <2>1
  <2> QED
    BY <2>2, DataLineFacts
<1> QED
  BY <1>1, <1>2, <1>3

LEMMA ChunkFacts ==
    /\ NoLine \in Lines
    /\ NoChunk \in Chunks /\ Header \in Chunks /\ Junk \in Chunks
    /\ NoChunk # Header /\ NoChunk # Junk /\ Header # Junk
<1>1. NoLine \in Lines
  BY DEF Lines
<1>2. NoChunk.part = "whole" /\ Header.part = "last" /\ Junk.part = "first"
  BY DEF NoChunk, Header, Junk
<1> QED
  BY <1>1, <1>2 DEF Chunks, NoChunk, Header, Junk

(* What a line makes of a usage.                                           *)
LEMMA AppliedTyped ==
    ASSUME NEW u \in Tokens, NEW line \in Lines, line[1] = "data"
    PROVE  Applied(u, line) \in Tokens
BY LineFacts, UsageAssumption DEF Applied, Tokens

LEMMA NothingApplied ==
    ASSUME NEW u \in Tokens, NEW line, line[2] = Absent, line[3] = Absent
    PROVE  Applied(u, line) = u
BY DEF Applied, Tokens

-------------------------------------------------------------------------------
(* What a reader makes of a chunk.                                         *)
LEMMA ProcessedEvent ==
    ASSUME NEW r \in Reader, NEW line, line[1] = "event"
    PROVE  /\ Process(r, line).event = line[2]
           /\ Process(r, line).poisoned = (r.poisoned \/ line[2] = "error")
           /\ Process(r, line).usage = r.usage
BY DEF Process, Reader

LEMMA ProcessedData ==
    ASSUME NEW r \in Reader, NEW line, line[1] # "event"
    PROVE  /\ Process(r, line).event = r.event
           /\ Process(r, line).poisoned = r.poisoned
           /\ Process(r, line).usage =
                 IF line[1] = "data" /\ r.event \in {"message_start", "message_delta"}
                 THEN Applied(r.usage, line) ELSE r.usage
BY DEF Process, Reader

LEMMA ProcessTyped ==
    ASSUME NEW r \in Reader, NEW line \in Lines
    PROVE  Process(r, line) \in Reader
<1>1. CASE line[1] = "event"
  BY <1>1, LineFacts DEF Process, Reader
<1>2. CASE line[1] = "data" /\ r.event \in {"message_start", "message_delta"}
  BY <1>2, AppliedTyped DEF Process, Reader
<1> QED
  BY <1>1, <1>2 DEF Process, Reader

LEMMA WrittenTyped ==
    ASSUME NEW r \in Reader, NEW c \in Chunks
    PROVE  Written(r, c) \in Reader
<1>1. c.line \in Lines /\ NoLine \in Lines
  BY ChunkFacts DEF Chunks
<1>2. Process(r, c.line) \in Reader
  BY <1>1, ProcessTyped
<1> QED
  BY <1>1, <1>2 DEF Written, Reader

LEMMA WrittenFirst ==
    ASSUME NEW r \in Reader, NEW c, c.part = "first"
    PROVE  /\ Written(r, c).event = r.event
           /\ Written(r, c).poisoned = r.poisoned
           /\ Written(r, c).usage = r.usage
           /\ Written(r, c).line = c.line
BY DEF Written, Reader

LEMMA WrittenLine ==
    ASSUME NEW r \in Reader, NEW c \in Chunks, c.part # "first", c.part = "last" => r.line = c.line
    PROVE  /\ Written(r, c).event = Process(r, c.line).event
           /\ Written(r, c).poisoned = Process(r, c.line).poisoned
           /\ Written(r, c).usage = Process(r, c.line).usage
           /\ Written(r, c).line = NoLine
<1>1. Process(r, c.line) \in Reader
  BY ProcessTyped DEF Chunks
<1> QED
  BY <1>1 DEF Written, Reader

(* The chunks of the stream that may be sent: the rest of a line begun, or *)
(* a line, or its beginning, that is awaited.                              *)
LEMMA SendableFacts ==
    ASSUME UsageTypeOK, Halves, NEW c \in Sendable, Clean(c)
    PROVE  /\ c \in Chunks /\ c.line \in Awaited /\ c.line \in Lines
           /\ up.half # NoLine => c.line = up.half /\ c.part = "last"
           /\ up.half = NoLine => c.part \in {"whole", "first"}
           /\ sink = "gzip" => up.header
<1>1. up.name \in Events \cup {""} /\ up.half \in Lines
  BY DEF UsageTypeOK
<1>2. Awaited \subseteq Lines
  <2>1. ASSUME NEW line \in Awaited PROVE line \in Lines
    BY <1>1, EventLineFacts, DataLineFacts DEF Awaited
  <2> QED
    BY <2>1
<1>3. sink = "gzip" => up.header
  BY DEF Sendable, Clean
<1>4. CASE up.half # NoLine
  <2>1. c = [line |-> up.half, part |-> "last"]
    BY <1>4, <1>3 DEF Sendable, Clean
  <2> QED
    BY <2>1, <1>1, <1>2, <1>3, <1>4 DEF Halves, Chunks
<1>5. CASE up.half = NoLine
  <2>1. c \in [line : IF up.name = "" THEN IF up.events < MaxEvents THEN EventLines ELSE {}
                       ELSE DataLines(up.name),
               part : {"whole", "first"}]
    BY <1>5, <1>3 DEF Sendable, Clean
  <2>2. c.line \in Awaited /\ c.part \in {"whole", "first"}
    BY <2>1 DEF Awaited
  <2>3. c \in Chunks
    BY <2>1, <2>2, <1>2 DEF Chunks
  <2> QED
    BY <2>2, <2>3, <1>2, <1>3, <1>5
<1> QED
  BY <1>4, <1>5

(* What is said when the chunk is sent, and what a reader that has kept up *)
(* makes of it, agree.                                                     *)
LEMMA Follows ==
    ASSUME UsageTypeOK, Halves, NEW c \in Sendable, Clean(c), Read(c), ~up.junk,
           NEW r \in Reader, Keeps(r, said.usage, said.error, up.half, up.name)
    PROVE  Keeps(Written(r, c), said'.usage, said'.error, up'.half, up'.name)
<1>1. /\ c \in Chunks /\ c.line \in Awaited /\ c.line \in Lines
      /\ up.half # NoLine => c.line = up.half /\ c.part = "last"
      /\ up.half = NoLine => c.part \in {"whole", "first"}
  BY SendableFacts
<1>2. c # Junk /\ c # Header
  BY DEF Clean
<1>3. up.name \in Events \cup {""} /\ up.half \in Lines /\ said.error \in BOOLEAN /\ said.usage \in Tokens
  BY DEF UsageTypeOK
<1>4. CASE c.part = "first"
  <2>1. up'.half = c.line /\ up'.name = up.name
    BY <1>2, <1>4 DEF Read, Sent, UsageTypeOK
  <2>2. said' = said
    BY <1>4 DEF Read
  <2>3. Keeps(Written(r, c), said.usage, said.error, c.line, up.name)
    BY <1>4, WrittenFirst DEF Keeps
  <2> QED
    BY <2>1, <2>2, <2>3
<1>5. CASE c.part # "first"
  <2>1. /\ Written(r, c).event = Process(r, c.line).event
        /\ Written(r, c).poisoned = Process(r, c.line).poisoned
        /\ Written(r, c).usage = Process(r, c.line).usage
        /\ Written(r, c).line = NoLine
    BY <1>1, <1>5, WrittenLine DEF Keeps
  <2>2. up'.half = NoLine /\ up'.name = (IF c.line[1] = "event" THEN c.line[2] ELSE "")
    BY <1>2, <1>5 DEF Read, Sent, UsageTypeOK
  <2>3. /\ said'.usage = (IF c.line[1] = "data" THEN Applied(said.usage, c.line) ELSE said.usage)
        /\ said'.error = (said.error \/ c.line = <<"event", "error">>)
    BY <1>2, <1>5 DEF Read
  <2>5. CASE up.name = ""
    <3>1. c.line \in EventLines
      BY <1>1, <2>5 DEF Awaited
    <3>2. /\ c.line[1] = "event" /\ c.line[2] \in Events
          /\ c.line = <<"event", "error">> <=> c.line[2] = "error"
      BY <3>1, EventLineFacts
    <3>3. /\ Process(r, c.line).event = c.line[2]
          /\ Process(r, c.line).poisoned = (r.poisoned \/ c.line[2] = "error")
          /\ Process(r, c.line).usage = r.usage
      BY <3>2, ProcessedEvent
    <3>4. said'.error = (said.error \/ c.line[2] = "error") /\ said'.usage = said.usage
      BY <2>3, <3>2
    <3> QED
      BY <2>1, <2>2, <3>2, <3>3, <3>4 DEF Keeps
  <2>6. CASE up.name # ""
    <3>1. up.name \in Events /\ c.line \in DataLines(up.name) /\ r.event = up.name
      BY <1>1, <1>3, <2>6 DEF Awaited, Keeps
    <3>2. /\ c.line[1] # "event"
          /\ c.line[1] = "data" /\ up.name \notin {"message_start", "message_delta"} =>
                c.line[2] = Absent /\ c.line[3] = Absent
      BY <3>1, DataLineFacts
    <3>3. /\ Process(r, c.line).poisoned = r.poisoned
          /\ Process(r, c.line).usage =
                IF c.line[1] = "data" /\ r.event \in {"message_start", "message_delta"}
                THEN Applied(r.usage, c.line) ELSE r.usage
      BY <3>2, ProcessedData
    <3>4. r.usage = said.usage /\ r.poisoned = said.error
      BY DEF Keeps
    <3>5. Process(r, c.line).usage = said'.usage
      <4>1. CASE c.line[1] = "data" /\ up.name \notin {"message_start", "message_delta"}
        <5>1. Applied(said.usage, c.line) = said.usage
          BY <4>1, <3>2, <1>3, NothingApplied
        <5> QED
          BY <5>1, <4>1, <3>1, <3>3, <3>4, <2>3
      <4>2. CASE ~(c.line[1] = "data" /\ up.name \notin {"message_start", "message_delta"})
        BY <4>2, <3>1, <3>3, <3>4, <2>3
      <4> QED
        BY <4>1, <4>2
    <3>6. c.line # <<"event", "error">>
      BY <3>2
    <3>7. said'.error = said.error
      BY <2>3, <3>6, <1>3
    <3>8. up'.name = ""
      BY <2>2, <3>2
    <3> QED
      BY <2>1, <2>2, <3>3, <3>4, <3>5, <3>7, <3>8 DEF Keeps
  <2> QED
    BY <2>5, <2>6
<1> QED
  BY <1>4, <1>5

LEMMA NothingIsNotSent ==
    ASSUME UsageTypeOK, NEW c \in Sendable
    PROVE  c # NoChunk
<1> SUFFICES ASSUME c \notin {Header, Junk}, c.part = "whole", c.line = NoLine PROVE FALSE
  BY ChunkFacts DEF NoChunk
<1>1. c \notin {Header, Junk}
  OBVIOUS
<1>2. c.part = "whole" /\ c.line = NoLine
  OBVIOUS
<1>3. up.name \in Events \cup {""}
  BY DEF UsageTypeOK
<1>4. c.line \in EventLines \/ (up.name # "" /\ c.line \in DataLines(up.name))
  <2>1. CASE up.half # NoLine
    <3>1. c = [line |-> up.half, part |-> "last"]
      BY <1>1, <2>1 DEF Sendable
    <3> QED
      BY <3>1, <1>2
  <2>2. CASE up.half = NoLine
    BY <1>1, <2>2 DEF Sendable
  <2> QED
    BY <2>1, <2>2
<1> QED
  BY <1>2, <1>3, <1>4, EventLineFacts, DataLineFacts

(* A gzip header and a corrupt byte are no lines.                          *)
LEMMA MarksSent ==
    ASSUME UsageTypeOK, NEW c \in {Header, Junk}, Read(c)
    PROVE  /\ up'.half = up.half /\ up'.name = up.name /\ up'.events = up.events
           /\ up'.header /\ up'.junk = (up.junk \/ c = Junk) /\ up'.fate = up.fate
           /\ said' = said /\ sse' = sse
<1>1. CASE c = Header
  <2>01. up' = Sent(Header)
    BY <1>1 DEF Read
  <2>02. Header # Junk /\ Header.part # "first"
    BY ChunkFacts DEF Header
  <2>1. up' = [up EXCEPT !.header = TRUE]
    BY <2>01, <2>02 DEF Sent
  <2> QED
    BY <2>1, <1>1, ChunkFacts DEF Read, UsageTypeOK
<1>2. CASE c = Junk
  <2>1. up' = [up EXCEPT !.header = TRUE, !.junk = TRUE]
    BY <1>2, ChunkFacts DEF Read, Sent
  <2> QED
    BY <2>1, <1>2, ChunkFacts DEF Read, UsageTypeOK
<1> QED
  BY <1>1, <1>2

LEMMA LinesSent ==
    ASSUME UsageTypeOK, NEW c \in Sendable, Clean(c), Read(c)
    PROVE  up'.header = up.header /\ up'.junk = up.junk /\ up'.fate = up.fate
<1>1. CASE c.part = "first"
  BY <1>1 DEF Read, Sent, Clean, UsageTypeOK
<1>2. CASE c.part # "first"
  BY <1>2 DEF Read, Sent, Clean, UsageTypeOK
<1> QED
  BY <1>1, <1>2

(* When they may be sent.                                                  *)
LEMMA MarksSendable ==
    ASSUME UsageTypeOK, NEW c \in Sendable
    PROVE  /\ c = Header => sink = "gzip" /\ ~up.header
           /\ c = Junk => sink = "gzip" /\ (~up.header \/ ~up.junk)
<1> SUFFICES ASSUME sink # "gzip" \/ up.header
             PROVE  c # Header /\ (c = Junk => sink = "gzip" /\ ~up.junk)
  BY DEF Sendable
<1>1. Header.line = NoLine /\ Junk.line = NoLine /\ Header # Junk
  BY ChunkFacts DEF Header, Junk
<1>2. up.name \in Events \cup {""}
  BY DEF UsageTypeOK
<1>3. (c = Junk /\ sink = "gzip" /\ ~up.junk) \/ c.line # NoLine
  <2>1. CASE up.half # NoLine
    BY <2>1 DEF Sendable
  <2>2. CASE up.half = NoLine
    <3>1. \/ c = Junk /\ sink = "gzip" /\ ~up.junk
          \/ c \in [line : IF up.name = "" THEN IF up.events < MaxEvents THEN EventLines ELSE {}
                          ELSE DataLines(up.name),
                     part : {"whole", "first"}]
      BY <2>2 DEF Sendable
    <3> QED
      BY <3>1, <1>2, EventLineFacts, DataLineFacts
  <2> QED
    BY <2>1, <2>2
<1> QED
  BY <1>1, <1>3

LEMMA HalvesStep ==
    ASSUME UsageTypeOK, Halves, NEW c \in Sendable, Read(c)
    PROVE  Halves'
<1>1. CASE Clean(c)
  <2>1. /\ c.line \in Awaited /\ c # Junk /\ c # Header
        /\ up.half # NoLine => c.line = up.half /\ c.part = "last"
    BY <1>1, SendableFacts DEF Clean
  <2>2. CASE c.part = "first"
    <3>1. /\ up'.half = c.line /\ up'.name = up.name /\ up'.events = up.events
          /\ up.half = NoLine
      BY <2>1, <2>2 DEF Read, Sent, UsageTypeOK
    <3>2. up.name = "" => up.events < MaxEvents
      <4>1. CASE sink = "gzip" /\ ~up.header
        BY <4>1, <1>1 DEF Sendable, Clean
      <4>2. CASE ~(sink = "gzip" /\ ~up.header)
        BY <4>2, <3>1, <1>1, <2>2 DEF Sendable, Clean
      <4> QED
        BY <4>1, <4>2
    <3> QED
      BY <3>1, <3>2, <2>1 DEF Halves, Awaited
  <2>3. CASE c.part # "first"
    BY <2>1, <2>3 DEF Read, Sent, UsageTypeOK, Halves
  <2> QED
    BY <2>2, <2>3
<1>2. CASE ~Clean(c)
  <2>1. c \in {Header, Junk}
    BY <1>2, NothingIsNotSent DEF Clean
  <2>2. up'.half = up.half /\ up'.name = up.name /\ up'.events = up.events
    BY <2>1, MarksSent
  <2> QED
    BY <2>2 DEF Halves, Awaited
<1> QED
  BY <1>1, <1>2

-------------------------------------------------------------------------------
(* Frames: what a step that gives the reader nothing leaves alone.         *)
LEMMA NothingRead ==
    ASSUME ~CopyAt("write"), ~CopyAt("write")', pipe'.got = pipe.got, sse' = sse
    PROVE  Ahead' = Ahead
BY DEF Ahead, OnTheWay, Behind, Clean

LEMMA KeptOn ==
    ASSUME Kept, Ahead' = Ahead, sse' = sse, sink' = sink, said' = said,
           up'.junk = up.junk, up'.half = up.half, up'.name = up.name, up'.header = up.header,
           sink = "json" /\ up.fate = "eof" => up'.fate = "eof"
    PROVE  Kept'
BY DEF Kept, Streamed, Agrees, Unstreamed, Keeps

LEMMA RecordedOn ==
    ASSUME Recorded, UNCHANGED file, copy'.once = copy.once, copy'.failed = copy.failed,
           copy.once => UNCHANGED <<sink, said, up>>
    PROVE  Recorded'
BY DEF Recorded

LEMMA NextToRead ==
    ASSUME UsageTypeOK
    PROVE  Behind \in Reader
BY WrittenTyped DEF Behind, UsageTypeOK

(* Where nothing has been sent the sink is put in.                         *)
LEMMA InstallStep ==
    ASSUME IInv, NEW wanted \in BOOLEAN, NEW stream \in BOOLEAN, NEW gzipped \in BOOLEAN,
           InstallUsageTee(wanted, stream, gzipped)
    PROVE  IInv'
<1>1. /\ CopyAt("idle") /\ sink = "off" /\ ~Streamed /\ pipe.gz = "off" /\ pipe.got = NoChunk
      /\ ~pipe.closed /\ ~copy.once /\ up.fate = "open"
      /\ UsageTypeOK /\ Copying /\ Plumbing /\ Halves /\ Unstreamed /\ Recorded
  BY DEF IInv, Kept, Copying, Plumbing, Streamed, InstallUsageTee, CopyAt
<1>2. /\ sink' \in {"none", "json", "gzip", "sse"}
      /\ pipe' = [pipe EXCEPT !.gz = IF sink' = "gzip" THEN "header" ELSE "off"]
      /\ copy' = [copy EXCEPT !.pc = "read"]
      /\ UNCHANGED <<up, said, sse, file>>
  BY DEF InstallUsageTee, CopyGoto
<1>3. UsageTypeOK'
  BY <1>1, <1>2 DEF UsageTypeOK, Sinks
<1>4. /\ copy'.pc = "read" /\ copy'.once = FALSE /\ copy'.failed = copy.failed
      /\ pipe'.got = NoChunk /\ pipe'.closed = FALSE
      /\ pipe'.gz = IF sink' = "gzip" THEN "header" ELSE "off"
  BY <1>1, <1>2 DEF UsageTypeOK
<1>5. Copying'
  BY <1>1, <1>2, <1>4 DEF Copying, CopyAt
<1>6. Plumbing'
  <2>1. ~up.junk /\ ~up.header /\ up' = up
    BY <1>1, <1>2 DEF Unstreamed
  <2>2. pipe'.gz \in {"off", "header"} /\ (pipe'.gz = "header" <=> sink' = "gzip")
    BY <1>4
  <2>3. NoChunk # Header /\ NoChunk # Junk
    BY ChunkFacts
  <2> QED
    BY <1>4, <2>1, <2>2, <2>3 DEF Plumbing, CopyAt
<1>7. Halves'
  BY <1>1, <1>2 DEF Halves, Awaited
<1>8. Kept'
  <2>1. Ahead' = sse
    BY <1>2, <1>4 DEF Ahead, OnTheWay, Behind, Clean, CopyAt
  <2>2. /\ sse.usage = None /\ sse.poisoned = FALSE /\ sse.line = NoLine
        /\ said.usage = None /\ said.error = FALSE
        /\ up.half = NoLine /\ up.name = "" /\ ~up.junk /\ ~up.header
    BY <1>1 DEF Unstreamed, NewReader, UsageTypeOK
  <2>3. Agrees'
    BY <2>1, <2>2, <1>2 DEF Agrees, Keeps
  <2>4. Unstreamed'
    BY <1>1, <1>2, <2>2 DEF Unstreamed
  <2> QED
    BY <2>3, <2>4 DEF Kept
<1>9. Recorded'
  BY <1>1, <1>2, <1>4 DEF Recorded
<1> QED
  BY <1>3, <1>5, <1>6, <1>7, <1>8, <1>9 DEF IInv

(* A chunk of the stream is said and goes to the sink.                     *)
LEMMA ReadTyped ==
    ASSUME UsageTypeOK, Halves, NEW c \in Sendable, Read(c)
    PROVE  UsageTypeOK' /\ copy'.pc = "write" /\ copy'.chunk = c /\ copy'.once = copy.once
           /\ copy'.failed = copy.failed
<1>1. c \in Chunks
  BY SendableFacts, ChunkFacts DEF Clean
<1>2. copy' = [copy EXCEPT !.pc = "write", !.chunk = c] /\ UNCHANGED <<sink, sse, pipe, file>>
  BY DEF Read
<1>3. /\ copy' \in [pc : {"idle", "read", "write", "finalize", "close", "closed"},
                    chunk : Chunks, once : BOOLEAN, failed : BOOLEAN]
      /\ copy'.pc = "write" /\ copy'.chunk = c /\ copy'.once = copy.once /\ copy'.failed = copy.failed
  BY <1>1, <1>2 DEF UsageTypeOK
<1>4. said' \in [usage : Tokens, error : BOOLEAN]
  <2>1. CASE c.line[1] = "data"
    <3>1. Applied(said.usage, c.line) \in Tokens
      BY <2>1, <1>1, AppliedTyped DEF Chunks, UsageTypeOK
    <3> QED
      BY <3>1 DEF Read, UsageTypeOK
  <2>2. CASE c.line[1] # "data"
    BY <2>2 DEF Read, UsageTypeOK
  <2> QED
    BY <2>1, <2>2
<1>5. up' \in [events : 0..MaxEvents, name : Events \cup {""}, half : Lines,
               fate : {"open", "eof", "cut"}, header : BOOLEAN, junk : BOOLEAN]
  <2>1. CASE ~Clean(c)
    <3>1. c \in {Header, Junk}
      BY <2>1, NothingIsNotSent DEF Clean
    <3>2. up' \in {[up EXCEPT !.header = TRUE], [up EXCEPT !.header = TRUE, !.junk = TRUE]}
      <4>1. up' = Sent(c) /\ Header.part # "first" /\ Header # Junk
        BY ChunkFacts DEF Read, Header
      <4> QED
        BY <3>1, <4>1 DEF Sent
    <3> QED
      BY <3>2, ZenonT(60) DEF UsageTypeOK
  <2>2. CASE Clean(c) /\ c.part = "first"
    <3>1. up' = [up EXCEPT !.half = c.line]
      BY <2>2 DEF Read, Sent, Clean
    <3> QED
      BY <3>1, <1>1 DEF UsageTypeOK, Chunks
  <2>3. CASE Clean(c) /\ c.part # "first"
    <3>1. up' = [up EXCEPT !.half = NoLine,
                     !.name = IF c.line[1] = "event" THEN c.line[2] ELSE "",
                     !.events = IF c.line[1] = "event" THEN @ + 1 ELSE @]
      BY <2>3 DEF Read, Sent, Clean
    <3>2. c.line[1] = "event" => c.line[2] \in Events
      BY <1>1, LineFacts DEF Chunks
    <3>3. c.line[1] = "event" => up.events < MaxEvents
      <4>1. c.line \in Awaited /\ (up.half # NoLine => c.line = up.half)
        BY <2>3, SendableFacts
      <4>2. c.line[1] = "event" => up.name = ""
        BY <4>1, DataLineFacts DEF Awaited, UsageTypeOK
      <4>3. CASE up.half # NoLine
        BY <4>3, <4>2 DEF Halves
      <4>4. CASE up.half = NoLine
        <5>1. c \in [line : IF up.name = "" THEN IF up.events < MaxEvents THEN EventLines ELSE {}
                         ELSE DataLines(up.name),
                     part : {"whole", "first"}]
          BY <4>4, <2>3 DEF Sendable, Clean
        <5> QED
          BY <5>1, <4>2
      <4> QED
        BY <4>3, <4>4
    <3>4. up.events \in 0..MaxEvents /\ MaxEvents \in Nat /\ NoLine \in Lines
      BY UsageAssumption, ChunkFacts DEF UsageTypeOK
    <3>5. (IF c.line[1] = "event" THEN up.events + 1 ELSE up.events) \in 0..MaxEvents
      BY <3>3, <3>4
    <3> QED
      BY <3>1, <3>2, <3>4, <3>5 DEF UsageTypeOK
  <2> QED
    BY <2>1, <2>2, <2>3
<1> QED
  BY <1>2, <1>3, <1>4, <1>5 DEF UsageTypeOK

LEMMA ReadStep ==
    ASSUME IInv, NEW c \in Sendable, Read(c)
    PROVE  IInv'
<1>1. /\ UsageTypeOK' /\ Halves'
      /\ copy'.pc = "write" /\ copy'.chunk = c /\ copy'.once = copy.once /\ copy'.failed = copy.failed
  BY ReadTyped, HalvesStep DEF IInv
<1>2. /\ UsageTypeOK /\ Copying /\ Plumbing /\ Halves /\ Kept /\ Recorded
      /\ copy.pc = "read" /\ up.fate = "open" /\ Streamed
      /\ sink' = sink /\ pipe' = pipe /\ sse' = sse /\ file' = file
      /\ ~pipe.closed /\ ~copy.once /\ c # NoChunk
  BY NothingIsNotSent DEF IInv, Copying, Plumbing, Read, CopyAt, Streamed
<1>3. /\ c = Header => sink = "gzip" /\ ~up.header
      /\ c = Junk => sink = "gzip" /\ (~up.header \/ ~up.junk)
  BY <1>2, MarksSendable
<1>4. c \in {Header, Junk} \/ Clean(c)
  BY <1>2 DEF Clean
<1>5. /\ up'.fate = up.fate /\ up'.junk = (up.junk \/ c = Junk)
      /\ up'.header = (up.header \/ c \in {Header, Junk})
  <2>1. CASE c \in {Header, Junk}
    BY <2>1, <1>2, MarksSent
  <2>2. CASE Clean(c)
    BY <2>2, <1>2, LinesSent DEF Clean, UsageTypeOK
  <2> QED
    BY <2>1, <2>2, <1>4
<1>6. Copying'
  BY <1>1, <1>2, <1>5 DEF Copying, CopyAt, Streamed
<1>7. pipe.gz = "header" => c \in {Header, Junk}
  BY <1>2 DEF Plumbing, CopyAt, Sendable
<1>8. Plumbing'
  <2>1. c = Header => pipe.gz = "header"
    BY <1>2, <1>3 DEF Plumbing
  <2>2. c = Junk => pipe.gz \in {"header", "loop"} /\ pipe.got # Junk
    BY <1>2, <1>3 DEF Plumbing, UsageTypeOK
  <2>3. up.junk => pipe.gz \in {"drain", "done"} \/ pipe.got = Junk
    BY <1>2 DEF Plumbing, CopyAt
  <2> QED
    BY <1>1, <1>2, <1>3, <1>5, <1>7, <2>1, <2>2, <2>3 DEF Plumbing, CopyAt
<1>9. Kept'
  <2>1. Agrees /\ Ahead = Behind /\ Behind' = Behind
    BY <1>2 DEF Kept, Ahead, OnTheWay, Behind, CopyAt
  <2>2. CASE ~Clean(c)
    <3>1. c \in {Header, Junk}
      BY <2>2, <1>4
    <3>2. said' = said /\ up'.half = up.half /\ up'.name = up.name
      BY <3>1, <1>2, MarksSent
    <3>3. Ahead' = Behind
      BY <2>1, <2>2, <1>1 DEF Ahead, OnTheWay
    <3>4. Agrees'
      BY <2>1, <3>2, <3>3, <1>5 DEF Agrees, Keeps
    <3> QED
      BY <3>4, <1>2 DEF Kept, Streamed
  <2>3. CASE Clean(c) /\ up.junk
    <3>1. said' = said /\ up'.junk
      BY <2>3, <1>5 DEF Read
    <3>2. ~OnTheWay'
      BY <1>1, <1>2, <2>3 DEF OnTheWay, Plumbing, CopyAt
    <3>3. Ahead' = Behind
      BY <2>1, <3>2 DEF Ahead
    <3>4. Agrees'
      BY <2>1, <2>3, <3>1, <3>3 DEF Agrees
    <3> QED
      BY <3>4, <1>2 DEF Kept, Streamed
  <2>4. CASE Clean(c) /\ ~up.junk
    <3>1. ~up'.junk
      BY <2>4, <1>5 DEF Clean
    <3>2. OnTheWay'
      <4>1. sink = "gzip" => pipe.gz = "loop" /\ pipe.got # Junk
        BY <2>4, <1>2, <1>7 DEF Plumbing, UsageTypeOK, Clean, CopyAt
      <4> QED
        BY <4>1, <1>1, <1>2, <2>4 DEF OnTheWay, CopyAt
    <3>3. Ahead' = Written(Behind, c)
      BY <2>1, <3>2, <1>1 DEF Ahead
    <3>4. Keeps(Behind, said.usage, said.error, up.half, up.name)
      BY <2>1, <2>4 DEF Agrees
    <3>5. Keeps(Written(Behind, c), said'.usage, said'.error, up'.half, up'.name)
      BY <3>4, <2>4, <1>2, Follows, NextToRead
    <3>6. Agrees'
      BY <3>1, <3>3, <3>5 DEF Agrees
    <3> QED
      BY <3>6, <1>2 DEF Kept, Streamed
  <2> QED
    BY <2>2, <2>3, <2>4
<1>10. Recorded'
  BY <1>1, <1>2, RecordedOn
<1> QED
  BY <1>1, <1>6, <1>8, <1>9, <1>10 DEF IInv

-------------------------------------------------------------------------------
(* The steps of the copy loop that neither read nor write a chunk.         *)
Turning == ReadEnds \/ ClientGone \/ UpstreamEnds \/ ClosePipe \/ Close

LEMMA TurningStep ==
    ASSUME IInv, Turning
    PROVE  IInv'
<1>1. UsageTypeOK /\ Copying /\ Plumbing /\ Halves /\ Kept /\ Recorded
  BY DEF IInv
<1>2. /\ sink' = sink /\ said' = said /\ sse' = sse /\ file' = file
      /\ ~CopyAt("write")
  BY DEF Turning, ReadEnds, ClientGone, UpstreamEnds, ClosePipe, Close, CopyAt
<1>3. /\ up'.events = up.events /\ up'.name = up.name /\ up'.half = up.half
      /\ up'.header = up.header /\ up'.junk = up.junk
      /\ copy'.chunk = copy.chunk /\ copy'.once = copy.once /\ copy'.failed = copy.failed
      /\ copy'.pc \in {"read", "finalize", "close", "closed"}
      /\ pipe'.gz = pipe.gz /\ pipe'.got = pipe.got
      /\ copy.once => up' = up
  <2>1. CASE ReadEnds \/ Close
    BY <1>1, <2>1 DEF ReadEnds, Close, CopyGoto, UsageTypeOK
  <2>2. CASE ClosePipe
    BY <1>1, <2>2 DEF ClosePipe, CopyAt, UsageTypeOK
  <2>3. CASE ClientGone \/ UpstreamEnds
    <3>1. ~copy.once /\ copy.pc = "read"
      BY <1>1, <2>3 DEF ClientGone, UpstreamEnds, Copying, CopyAt
    <3>2. copy' = copy \/ copy' = [copy EXCEPT !.pc = "close"]
      BY <2>3 DEF ClientGone, UpstreamEnds, CopyGoto
    <3>3. \E fate \in {"eof", "cut"} : up' = [up EXCEPT !.fate = fate]
      BY <2>3 DEF ClientGone, UpstreamEnds
    <3>4. pipe' = pipe
      BY <2>3 DEF ClientGone, UpstreamEnds
    <3>5. /\ copy'.chunk = copy.chunk /\ copy'.once = copy.once /\ copy'.failed = copy.failed
          /\ copy'.pc \in {"read", "close"}
      BY <1>1, <3>1, <3>2 DEF UsageTypeOK
    <3>6. /\ up'.events = up.events /\ up'.name = up.name /\ up'.half = up.half
          /\ up'.header = up.header /\ up'.junk = up.junk
      BY <1>1, <3>3, ZenonT(60) DEF UsageTypeOK
    <3> QED
      BY <3>1, <3>4, <3>5, <3>6
  <2> QED
    BY <2>1, <2>2, <2>3 DEF Turning
<1>4. UsageTypeOK'
  <2>1. up' \in [events : 0..MaxEvents, name : Events \cup {""}, half : Lines,
                 fate : {"open", "eof", "cut"}, header : BOOLEAN, junk : BOOLEAN]
    <3>1. up' = up \/ \E fate \in {"eof", "cut"} : up' = [up EXCEPT !.fate = fate]
      BY DEF Turning, ReadEnds, ClientGone, UpstreamEnds, ClosePipe, Close
    <3> QED
      BY <1>1, <3>1 DEF UsageTypeOK
  <2>2. copy' \in [pc : {"idle", "read", "write", "finalize", "close", "closed"},
                   chunk : Chunks, once : BOOLEAN, failed : BOOLEAN]
    <3>1. copy' = copy \/ \E pc \in {"finalize", "close", "closed"} : copy' = [copy EXCEPT !.pc = pc]
      BY DEF Turning, ReadEnds, ClientGone, UpstreamEnds, ClosePipe, Close, CopyGoto
    <3> QED
      BY <1>1, <3>1 DEF UsageTypeOK
  <2>3. pipe' \in [gz : {"off", "header", "loop", "drain", "done"}, got : Chunks, closed : BOOLEAN]
    <3>1. pipe' = pipe \/ pipe' = [pipe EXCEPT !.closed = TRUE]
      BY DEF Turning, ReadEnds, ClientGone, UpstreamEnds, ClosePipe, Close
    <3> QED
      BY <1>1, <3>1 DEF UsageTypeOK
  <2> QED
    BY <1>1, <1>2, <2>1, <2>2, <2>3 DEF UsageTypeOK
<1>5. Copying'
  BY <1>1, <1>2, <1>3, ZenonT(60)
     DEF Turning, ReadEnds, ClientGone, UpstreamEnds, ClosePipe, Close, CopyAt, CopyGoto,
         UsageTypeOK, Copying, Streamed
<1>6. Plumbing'
  <2>1. /\ pipe.closed => pipe'.closed
        /\ pipe'.closed => copy'.pc \in {"finalize", "close", "closed"}
    BY <1>1 DEF Turning, ReadEnds, ClientGone, UpstreamEnds, ClosePipe, Close, CopyAt, CopyGoto,
                UsageTypeOK, Plumbing
  <2> QED
    BY <1>1, <1>2, <1>3, <2>1 DEF Plumbing, CopyAt
<1>7. Halves'
  BY <1>1, <1>3 DEF Halves, Awaited
<1>8. Ahead' = Ahead
  BY <1>2, <1>3, NothingRead DEF CopyAt
<1>9. sink = "json" /\ up.fate = "eof" => up'.fate = "eof"
  BY <1>1 DEF Turning, ReadEnds, ClientGone, UpstreamEnds, ClosePipe, Close, CopyAt
<1>10. Kept'
  BY <1>1, <1>2, <1>3, <1>8, <1>9, KeptOn
<1>11. Recorded'
  BY <1>1, <1>2, <1>3, RecordedOn
<1> QED
  BY <1>4, <1>5, <1>6, <1>7, <1>10, <1>11 DEF IInv

(* A body that is not a stream says all at its end.                        *)
LEMMA ReadBodyStep ==
    ASSUME IInv, NEW usage \in Tokens, ReadBody(usage)
    PROVE  IInv'
<1>1. /\ UsageTypeOK /\ Copying /\ Plumbing /\ Halves /\ Kept /\ Recorded
      /\ CopyAt("read") /\ up.fate = "open" /\ sink = "json" /\ ~copy.once
      /\ up' = [up EXCEPT !.fate = "eof"] /\ said' = [said EXCEPT !.usage = usage]
      /\ UNCHANGED <<sink, copy, sse, pipe, file>>
  BY DEF IInv, Copying, ReadBody, CopyAt
<1>2. /\ UsageTypeOK' /\ said'.error = said.error
      /\ up'.events = up.events /\ up'.name = up.name /\ up'.half = up.half
      /\ up'.header = up.header /\ up'.junk = up.junk /\ up'.fate = "eof"
  BY <1>1 DEF UsageTypeOK
<1>3. Copying'
  BY <1>1, <1>2 DEF Copying, CopyAt, Streamed
<1>4. Plumbing'
  BY <1>1, <1>2 DEF Plumbing, CopyAt
<1>5. Halves'
  BY <1>1, <1>2 DEF Halves, Awaited
<1>6. Kept'
  BY <1>1, <1>2 DEF Kept, Streamed, Unstreamed
<1>7. Recorded'
  BY <1>1 DEF Recorded
<1> QED
  BY <1>2, <1>3, <1>4, <1>5, <1>6, <1>7 DEF IInv

-------------------------------------------------------------------------------
(* The steps that hand a chunk on.  Nothing is said and nothing recorded.  *)
Handing == WritePlain \/ WriteFails \/ ReadHeader \/ Drain \/ Decompress \/ Emit \/ PipeEnds
Taken == copy' = [copy EXCEPT !.pc = "read", !.chunk = NoChunk]

LEMMA HandingFrame ==
    ASSUME IInv, Handing
    PROVE  /\ UsageTypeOK' /\ Copying' /\ Halves' /\ Recorded'
           /\ UNCHANGED <<sink, up, said, file>>
<1>1. UsageTypeOK /\ Copying /\ Plumbing /\ Halves /\ Kept /\ Recorded
  BY DEF IInv
<1>2. UNCHANGED <<sink, up, said, file>>
  BY DEF Handing, WritePlain, WriteFails, ReadHeader, Drain, Decompress, Emit, PipeEnds, Take
<1>3. (CopyAt("write") /\ Taken) \/ copy' = copy
  BY DEF Handing, WritePlain, WriteFails, ReadHeader, Drain, Decompress, Emit, PipeEnds, Take, Taken
<1>4. copy' \in [pc : {"idle", "read", "write", "finalize", "close", "closed"},
                 chunk : Chunks, once : BOOLEAN, failed : BOOLEAN]
  BY <1>1, <1>3, ChunkFacts DEF UsageTypeOK, Taken
<1>5. sse' \in Reader
  <2>1. sse \in Reader /\ copy.chunk \in Chunks /\ pipe.got \in Chunks
    BY <1>1 DEF UsageTypeOK
  <2>2. sse' \in {sse, Written(sse, copy.chunk), Written(sse, pipe.got)}
    BY DEF Handing, WritePlain, WriteFails, ReadHeader, Drain, Decompress, Emit, PipeEnds, Take
  <2> QED
    BY <2>1, <2>2, WrittenTyped
<1>6. pipe' \in [gz : {"off", "header", "loop", "drain", "done"}, got : Chunks, closed : BOOLEAN]
  <2>1. \/ pipe' = pipe
        \/ \E gz \in {"loop", "drain", "done"}, got \in {NoChunk, copy.chunk} :
              pipe' = [pipe EXCEPT !.gz = gz, !.got = got]
        \/ pipe' = [pipe EXCEPT !.gz = "done"]
    BY DEF Handing, WritePlain, WriteFails, ReadHeader, Drain, Decompress, Emit, PipeEnds, Take
  <2> QED
    BY <1>1, <2>1, ChunkFacts, ZenonT(60) DEF UsageTypeOK
<1>7. pipe.gz = "done" => pipe'.gz = "done"
  BY <1>1 DEF Handing, WritePlain, WriteFails, ReadHeader, Drain, Decompress, Emit, PipeEnds, Take,
              UsageTypeOK
<1>8. UsageTypeOK'
  BY <1>1, <1>2, <1>4, <1>5, <1>6 DEF UsageTypeOK
<1>9. copy'.once = copy.once /\ copy'.failed = copy.failed
      /\ (copy' = copy \/ (CopyAt("write") /\ copy'.pc = "read"))
  BY <1>1, <1>3 DEF Taken, UsageTypeOK
<1>10. Copying'
  BY <1>1, <1>2, <1>7, <1>9 DEF Copying, CopyAt, Streamed
<1>11. Halves'
  BY <1>1, <1>2 DEF Halves, Awaited
<1>12. Recorded'
  BY <1>1, <1>2, <1>9, RecordedOn
<1> QED
  BY <1>2, <1>8, <1>10, <1>11, <1>12

LEMMA KeptByStream ==
    ASSUME Streamed, Kept, Ahead' = Ahead, UNCHANGED <<sink, up, said>>
    PROVE  Kept'
BY DEF Kept, Streamed, Agrees, Keeps

LEMMA TakenFields ==
    ASSUME UsageTypeOK, Taken
    PROVE  copy'.pc = "read" /\ copy'.chunk = NoChunk
BY DEF UsageTypeOK, Taken

(* To a plain sink.                                                        *)
LEMMA WritePlainStep ==
    ASSUME IInv, WritePlain
    PROVE  IInv'
<1>1. /\ UsageTypeOK /\ Copying /\ Plumbing /\ Kept
      /\ CopyAt("write") /\ sink = "sse" /\ sse' = Written(sse, copy.chunk) /\ Taken
      /\ UNCHANGED <<sink, up, said, pipe, file>>
  BY DEF IInv, WritePlain, Taken
<1>2. UsageTypeOK' /\ Copying' /\ Halves' /\ Recorded'
  BY HandingFrame DEF Handing
<1>3. copy'.pc = "read" /\ copy'.chunk = NoChunk
  BY <1>1, TakenFields
<1>4. pipe.gz = "off" /\ pipe.got = NoChunk /\ Clean(copy.chunk)
  BY <1>1 DEF Plumbing, Copying, Clean
<1>5. Plumbing'
  BY <1>1, <1>3, <1>4 DEF Plumbing, CopyAt
<1>6. Ahead' = Ahead
  BY <1>1, <1>3, <1>4 DEF Ahead, Behind, OnTheWay, Clean, CopyAt
<1>7. Kept'
  BY <1>1, <1>6, KeptByStream DEF Streamed
<1> QED
  BY <1>2, <1>5, <1>7 DEF IInv

(* To the goroutine: at the header, while it drains and when it has ended, *)
(* nothing of the chunk is for the inner sink.                             *)
LEMMA LostStep ==
    ASSUME IInv, WriteFails \/ ReadHeader \/ Drain
    PROVE  IInv'
<1>1. /\ UsageTypeOK /\ Copying /\ Plumbing /\ Kept
      /\ CopyAt("write") /\ sink = "gzip" /\ Taken
      /\ pipe.gz \in {"header", "drain", "done"}
      /\ pipe' = [pipe EXCEPT !.gz = IF pipe.gz # "header" THEN @
                                     ELSE IF copy.chunk = Header THEN "loop" ELSE "drain",
                              !.got = NoChunk]
      /\ UNCHANGED <<sink, up, said, sse, file>>
  BY DEF IInv, WriteFails, ReadHeader, Drain, Take, Taken
<1>2. UsageTypeOK' /\ Copying' /\ Halves' /\ Recorded'
  BY HandingFrame DEF Handing
<1>3. copy'.pc = "read" /\ copy'.chunk = NoChunk
  BY <1>1, TakenFields
<1>4. /\ pipe'.got = NoChunk /\ pipe.got = NoChunk /\ pipe'.closed = pipe.closed
      /\ pipe'.gz = IF pipe.gz # "header" THEN pipe.gz
                    ELSE IF copy.chunk = Header THEN "loop" ELSE "drain"
  BY <1>1 DEF Plumbing, UsageTypeOK
<1>5. Plumbing'
  <2>1. CASE pipe.gz = "header" /\ copy.chunk = Header
    <3>1. ~pipe.closed /\ ~up.junk /\ up.header
      BY <1>1, <2>1, ChunkFacts DEF Plumbing, CopyAt
    <3> QED
      BY <1>1, <1>3, <1>4, <2>1, <3>1, ChunkFacts DEF Plumbing, CopyAt
  <2>2. CASE pipe.gz = "header" /\ copy.chunk # Header
    <3>1. copy.chunk = Junk
      BY <1>1, <2>2 DEF Plumbing
    <3>2. up.junk /\ up.header
      BY <1>1, <3>1 DEF Plumbing
    <3> QED
      BY <1>1, <1>3, <1>4, <2>2, <3>2, ChunkFacts DEF Plumbing, CopyAt
  <2>3. CASE pipe.gz # "header"
    BY <1>1, <1>3, <1>4, <2>3, ChunkFacts DEF Plumbing, CopyAt
  <2> QED
    BY <2>1, <2>2, <2>3
<1>6. Ahead' = Ahead
  BY <1>1, <1>3, <1>4 DEF Ahead, Behind, OnTheWay, Clean, CopyAt
<1>7. Kept'
  BY <1>1, <1>6, KeptByStream DEF Streamed
<1> QED
  BY <1>2, <1>5, <1>7 DEF IInv

LEMMA DecompressStep ==
    ASSUME IInv, Decompress
    PROVE  IInv'
<1>1. /\ UsageTypeOK /\ Copying /\ Plumbing /\ Kept
      /\ CopyAt("write") /\ sink = "gzip" /\ Taken
      /\ pipe.gz = "loop" /\ pipe.got = NoChunk
      /\ pipe' = [pipe EXCEPT !.gz = "loop", !.got = copy.chunk]
      /\ UNCHANGED <<sink, up, said, sse, file>>
  BY DEF IInv, Decompress, Take, Taken
<1>2. UsageTypeOK' /\ Copying' /\ Halves' /\ Recorded'
  BY HandingFrame DEF Handing
<1>3. copy'.pc = "read" /\ copy'.chunk = NoChunk
  BY <1>1, TakenFields
<1>4. pipe'.got = copy.chunk /\ pipe'.gz = "loop" /\ pipe'.closed = pipe.closed
  BY <1>1 DEF UsageTypeOK
<1>5. copy.chunk # Header /\ (copy.chunk = Junk <=> up.junk)
  BY <1>1, ChunkFacts DEF Plumbing
<1>6. Plumbing'
  BY <1>1, <1>3, <1>4, <1>5, ChunkFacts DEF Plumbing, CopyAt
<1>7. Ahead' = Ahead
  <2>1. Ahead = IF Clean(copy.chunk) THEN Written(sse, copy.chunk) ELSE sse
    BY <1>1, ChunkFacts DEF Ahead, Behind, OnTheWay, Clean
  <2>2. Behind' = IF Clean(copy.chunk) THEN Written(sse, copy.chunk) ELSE sse
    BY <1>1, <1>4 DEF Behind, Clean
  <2>3. ~OnTheWay'
    BY <1>3 DEF OnTheWay, CopyAt
  <2> QED
    BY <2>1, <2>2, <2>3 DEF Ahead
<1>8. Kept'
  BY <1>1, <1>7, KeptByStream DEF Streamed
<1> QED
  BY <1>2, <1>6, <1>8 DEF IInv

(* From the goroutine to the inner sink.                                   *)
LEMMA EmitStep ==
    ASSUME IInv, Emit
    PROVE  IInv'
<1>1. /\ UsageTypeOK /\ Copying /\ Plumbing /\ Kept
      /\ pipe.gz = "loop" /\ pipe.got # NoChunk
      /\ sse' = IF pipe.got = Junk THEN sse ELSE Written(sse, pipe.got)
      /\ pipe' = [pipe EXCEPT !.got = NoChunk, !.gz = IF pipe.got = Junk THEN "done" ELSE "loop"]
      /\ UNCHANGED <<sink, up, said, copy, file>>
  BY DEF IInv, Emit
<1>2. UsageTypeOK' /\ Copying' /\ Halves' /\ Recorded'
  BY HandingFrame DEF Handing
<1>3. /\ pipe'.got = NoChunk /\ pipe'.closed = pipe.closed
      /\ pipe'.gz = IF pipe.got = Junk THEN "done" ELSE "loop"
  BY <1>1 DEF UsageTypeOK
<1>4. sink = "gzip" /\ (Clean(pipe.got) <=> pipe.got # Junk)
  BY <1>1 DEF Plumbing, Clean
<1>5. Plumbing'
  <2>1. CASE pipe.got = Junk
    <3>1. up.junk /\ up.header /\ (CopyAt("write") => copy.chunk \notin {Header, Junk})
      BY <1>1, <2>1 DEF Plumbing
    <3> QED
      BY <1>1, <1>3, <1>4, <2>1, <3>1, ChunkFacts DEF Plumbing, CopyAt
  <2>2. CASE pipe.got # Junk
    BY <1>1, <1>3, <1>4, <2>2, ChunkFacts DEF Plumbing, CopyAt
  <2> QED
    BY <2>1, <2>2
<1>6. Ahead' = Ahead
  <2>1. Behind' = Behind
    BY <1>1, <1>3, <1>4, ChunkFacts DEF Behind, Clean
  <2>2. OnTheWay' = OnTheWay
    <3>1. CASE pipe.got = Junk
      BY <1>1, <1>3, <1>4, <3>1 DEF OnTheWay
    <3>2. CASE pipe.got # Junk
      BY <1>1, <1>3, <1>4, <3>2, ChunkFacts DEF OnTheWay, CopyAt, Clean
    <3> QED
      BY <3>1, <3>2
  <2> QED
    BY <1>1, <2>1, <2>2 DEF Ahead
<1>7. Kept'
  BY <1>1, <1>4, <1>6, KeptByStream DEF Streamed
<1> QED
  BY <1>2, <1>5, <1>7 DEF IInv

LEMMA PipeEndsStep ==
    ASSUME IInv, PipeEnds
    PROVE  IInv'
<1>1. /\ UsageTypeOK /\ Copying /\ Plumbing /\ Kept
      /\ pipe.gz \in {"header", "loop", "drain"} /\ pipe.closed /\ pipe.got = NoChunk
      /\ pipe' = [pipe EXCEPT !.gz = "done"]
      /\ UNCHANGED <<sink, up, said, copy, sse, file>>
  BY DEF IInv, PipeEnds
<1>2. UsageTypeOK' /\ Copying' /\ Halves' /\ Recorded'
  BY HandingFrame DEF Handing
<1>3. pipe'.got = NoChunk /\ pipe'.closed /\ pipe'.gz = "done"
  BY <1>1 DEF UsageTypeOK
<1>4. sink = "gzip" /\ ~CopyAt("write")
  BY <1>1 DEF Plumbing, CopyAt
<1>5. Plumbing'
  BY <1>1, <1>3, <1>4, ChunkFacts DEF Plumbing, CopyAt
<1>6. Ahead' = Ahead
  BY <1>1, <1>3, <1>4, NothingRead DEF CopyAt
<1>7. Kept'
  BY <1>1, <1>4, <1>6, KeptByStream DEF Streamed
<1> QED
  BY <1>2, <1>5, <1>7 DEF IInv

-------------------------------------------------------------------------------
(* When the sink is asked, everything on the way has arrived.              *)
LEMMA FinalizeStep ==
    ASSUME IInv, Finalize
    PROVE  IInv'
<1>1. /\ UsageTypeOK /\ Copying /\ Plumbing /\ Halves /\ Kept /\ Recorded
      /\ CopyAt("finalize") /\ (sink = "gzip" => pipe.closed /\ pipe.gz = "done")
      /\ UNCHANGED <<sink, up, said, sse, pipe>>
  BY DEF IInv, Finalize
<1>2. PICK failed \in BOOLEAN :
        /\ copy' = [copy EXCEPT !.pc = "close", !.once = TRUE, !.failed = failed]
        /\ file' = IF Recordable /\ ~failed THEN Append(file, Line) ELSE file
  BY DEF Finalize
<1>3. copy'.pc = "close" /\ copy'.once = TRUE /\ copy'.failed = failed /\ copy'.chunk = copy.chunk
  BY <1>1, <1>2 DEF UsageTypeOK
<1>4. ~copy.once /\ file = << >> /\ up.fate # "open" /\ sink # "off"
  BY <1>1 DEF Copying, Recorded, CopyAt
<1>5. Line \in [usage : Tokens, stream : BOOLEAN] /\ Line.usage = IF sink = "json" THEN said.usage ELSE sse.usage
  BY <1>1 DEF Line, UsageTypeOK, Reader
<1>6. Append(file, Line) = <<Line>> /\ <<Line>> \in Seq([usage : Tokens, stream : BOOLEAN])
  BY <1>4, <1>5
<1>7. UsageTypeOK'
  <2>1. file' \in Seq([usage : Tokens, stream : BOOLEAN])
    BY <1>1, <1>2, <1>6 DEF UsageTypeOK
  <2> QED
    BY <1>1, <1>2, <2>1 DEF UsageTypeOK
<1>8. Copying'
  BY <1>1, <1>3, <1>4 DEF Copying, CopyAt, Streamed
<1>9. Plumbing'
  BY <1>1, <1>3 DEF Plumbing, CopyAt
<1>10. Halves'
  BY <1>1 DEF Halves, Awaited
<1>11. Ahead' = Ahead
  BY <1>1, <1>3, NothingRead DEF CopyAt
<1>12. Kept'
  BY <1>1, <1>11, KeptOn
<1>13. Streamed => sse.usage = said.usage /\ sse.poisoned = said.error
  <2>1. Streamed => Ahead = sse
    BY <1>1 DEF Ahead, OnTheWay, Behind, Clean, Plumbing, CopyAt, Streamed
  <2> QED
    BY <1>1, <2>1 DEF Kept, Agrees, Keeps
<1>14. Recordable => Line.usage = said.usage /\ ~said.error
  BY <1>1, <1>5, <1>13 DEF Recordable, Kept, Streamed, Unstreamed
<1>15. sink # "none" /\ said.usage # None /\ ~said.error =>
          Recordable \/ (sink = "json" /\ up.fate = "cut")
  BY <1>1, <1>4, <1>13 DEF Recordable, Total, Streamed, UsageTypeOK, Sinks
<1>16. Recorded'
  <2>1. CASE Recordable /\ ~failed
    <3>1. file' = <<Line>>
      BY <1>2, <1>6, <2>1
    <3> QED
      BY <1>1, <1>3, <1>14, <2>1, <3>1 DEF Recorded
  <2>2. CASE ~(Recordable /\ ~failed)
    <3>1. file' = << >>
      BY <1>2, <1>4, <2>2
    <3> QED
      BY <1>1, <1>3, <1>15, <2>2, <3>1 DEF Recorded
  <2> QED
    BY <2>1, <2>2
<1> QED
  BY <1>7, <1>8, <1>9, <1>10, <1>12, <1>16 DEF IInv

-------------------------------------------------------------------------------
LEMMA NothingRecorded == ASSUME NEW S PROVE << >> \in Seq(S)
OBVIOUS

LEMMA InitIInv == Init => IInv
<1> SUFFICES ASSUME UsageInit PROVE IInv
  BY DEF Init
<1>1. UsageTypeOK
  <2>1. None \in Tokens /\ NoLine \in Lines /\ NoChunk \in Chunks /\ 0 \in 0..MaxEvents
    BY UsageAssumption, ChunkFacts DEF Tokens, None
  <2>2. NewReader \in Reader
    BY <2>1 DEF NewReader, Reader
  <2>3. up \in [events : 0..MaxEvents, name : Events \cup {""}, half : Lines,
                fate : {"open", "eof", "cut"}, header : BOOLEAN, junk : BOOLEAN]
    BY <2>1 DEF UsageInit
  <2>4. /\ copy \in [pc : {"idle", "read", "write", "finalize", "close", "closed"},
                    chunk : Chunks, once : BOOLEAN, failed : BOOLEAN]
        /\ pipe \in [gz : {"off", "header", "loop", "drain", "done"}, got : Chunks, closed : BOOLEAN]
    BY <2>1 DEF UsageInit
  <2>5. said \in [usage : Tokens, error : BOOLEAN]
    BY <2>1 DEF UsageInit
  <2>6. sse \in Reader /\ sink \in Sinks
    BY <2>2 DEF UsageInit, Sinks
  <2>7. file \in Seq([usage : Tokens, stream : BOOLEAN])
    BY NothingRecorded DEF UsageInit
  <2> QED
    BY <2>3, <2>4, <2>5, <2>6, <2>7 DEF UsageTypeOK
<1>2. Copying
  BY DEF UsageInit, Copying, CopyAt, Streamed
<1>3. Plumbing
  BY ChunkFacts DEF UsageInit, Plumbing, CopyAt
<1>4. Halves
  BY DEF UsageInit, Halves
<1>5. Kept
  BY DEF UsageInit, Kept, Streamed, Unstreamed
<1>6. Recorded
  BY DEF UsageInit, Recorded
<1> QED
  BY <1>1, <1>2, <1>3, <1>4, <1>5, <1>6 DEF IInv

LEMMA IInvStep == IInv /\ [Next]_vars => IInv'
<1> SUFFICES ASSUME IInv, [Next]_vars PROVE IInv'
  OBVIOUS
<1>1. CASE UNCHANGED usageVars
  <2>1. UNCHANGED <<sink, up, said, copy, sse, pipe, file>>
    BY <1>1 DEF usageVars
  <2>2. Ahead' = Ahead
    BY <2>1 DEF Ahead, Behind, OnTheWay, Clean, CopyAt
  <2>3. Halves'
    BY <2>1 DEF IInv, Halves, Awaited
  <2>4. Kept'
    <3>1. CASE Streamed
      BY <2>1, <2>2, <3>1, KeptByStream DEF IInv
    <3>2. CASE ~Streamed
      BY <2>1, <3>2 DEF IInv, Kept, Streamed, Unstreamed
    <3> QED
      BY <3>1, <3>2
  <2>5. Recorded'
    BY <2>1 DEF IInv, Recorded
  <2>6. Copying'
    BY <2>1 DEF IInv, Copying, Streamed, CopyAt
  <2>7. Plumbing'
    BY <2>1 DEF IInv, Plumbing, CopyAt
  <2>8. UsageTypeOK'
    <3>1. /\ sink' = sink /\ up' = up /\ said' = said /\ copy' = copy
          /\ sse' = sse /\ pipe' = pipe /\ file' = file
      BY <2>1
    <3>2. UsageTypeOK
      BY DEF IInv
    <3>3. up' \in [events : 0..MaxEvents, name : Events \cup {""}, half : Lines,
                   fate : {"open", "eof", "cut"}, header : BOOLEAN, junk : BOOLEAN]
      BY <3>1, <3>2 DEF UsageTypeOK
    <3>4. /\ sink' \in Sinks /\ sse' \in Reader
          /\ copy' \in [pc : {"idle", "read", "write", "finalize", "close", "closed"},
                        chunk : Chunks, once : BOOLEAN, failed : BOOLEAN]
      BY <3>1, <3>2 DEF UsageTypeOK
    <3>5. /\ pipe' \in [gz : {"off", "header", "loop", "drain", "done"},
                        got : Chunks, closed : BOOLEAN]
          /\ said' \in [usage : Tokens, error : BOOLEAN]
      BY <3>1, <3>2 DEF UsageTypeOK
    <3>6. file' \in Seq([usage : Tokens, stream : BOOLEAN])
      BY <3>1, <3>2 DEF UsageTypeOK
    <3> QED
      BY <3>3, <3>4, <3>5, <3>6 DEF UsageTypeOK
  <2> QED
    BY <2>3, <2>4, <2>5, <2>6, <2>7, <2>8 DEF IInv
<1>2. CASE Answer
  BY <1>2, InstallStep DEF Answer
<1>3. CASE UsageNext
  <2>1. CASE \E c \in Sendable : Read(c)
    BY <2>1, ReadStep
  <2>2. CASE \E usage \in Tokens : ReadBody(usage)
    BY <2>2, ReadBodyStep
  <2>3. CASE UpstreamEnds \/ ReadEnds \/ ClientGone \/ ClosePipe \/ Close
    BY <2>3, TurningStep DEF Turning
  <2>4. CASE WritePlain
    BY <2>4, WritePlainStep
  <2>5. CASE WriteFails \/ ReadHeader \/ Drain
    BY <2>5, LostStep
  <2>6. CASE Decompress
    BY <2>6, DecompressStep
  <2>7. CASE Emit
    BY <2>7, EmitStep
  <2>8. CASE PipeEnds
    BY <2>8, PipeEndsStep
  <2>9. CASE Finalize
    BY <2>9, FinalizeStep
  <2> QED
    BY <1>3, <2>1, <2>2, <2>3, <2>4, <2>5, <2>6, <2>7, <2>8, <2>9 DEF UsageNext, CopyNext, GzipNext
<1> QED
  BY <1>1, <1>2, <1>3 DEF Next, Boot, Rewrite, vars

(* However an answer is cut into chunks, compressed or broken off: at most *)
(* one line is recorded, it holds what the upstream had said, and none is  *)
(* missing for any other reason than a failed append.                      *)
THEOREM UsageIsExact == Spec => []RecordIsExact
<1>1. IInv => RecordIsExact
  BY DEF IInv, Recorded, Copying, RecordIsExact, CopyAt
<1> QED
  BY <1>1, InitIInv, IInvStep, PTL DEF Spec

-------------------------------------------------------------------------------
(* The natural numbers: the least of a set of them, induction over a set,  *)
(* and the functions that are defined by recursion.                        *)
LEMMA LeastNat ==
    ASSUME NEW T \in SUBSET Nat, T # {}
    PROVE  \E m \in T : \A n \in T : m <= n
<1> DEFINE R == OpToRel(<, Nat)
<1>1. IsWellFoundedOn(R, Nat)
  BY NatLessThanWellFounded
<1>2. \E m \in T : \A n \in T : ~(<<n, m>> \in R)
  <2> HIDE DEF R
  <2> QED
    BY <1>1, WFMin
<1>3. \A n, m \in Nat : n < m => <<n, m>> \in R
  BY DEF OpToRel
<1>4. PICK m \in T : \A n \in T : ~(<<n, m>> \in R)
  BY <1>2
<1>5. \A n \in T : m <= n
  <2> HIDE DEF R
  <2> SUFFICES ASSUME NEW n \in T PROVE m <= n
    OBVIOUS
  <2>1. ~(n < m)
    BY <1>3, <1>4
  <2> QED
    BY <2>1
<1> QED
  BY <1>5

LEMMA GreatestNat ==
    ASSUME NEW N \in Nat, NEW T \in SUBSET (0..N), T # {}
    PROVE  \E m \in T : \A n \in T : n <= m
<1> DEFINE C == {N - n : n \in T}
<1>1. C \in SUBSET Nat /\ C # {}
  <2>1. \A n \in T : n \in 0..N /\ N - n \in Nat
    OBVIOUS
  <2> QED
    BY <2>1
<1>2. PICK k \in C : \A j \in C : k <= j
  BY <1>1, LeastNat
<1>3. PICK m \in T : k = N - m
  BY <1>2
<1>4. \A n \in T : n <= m
  BY <1>2, <1>3
<1> QED
  BY <1>4

LEMMA SetInduction ==
    ASSUME NEW T \in SUBSET Nat, 0 \in T, \A n \in T : n + 1 \in T
    PROVE  T = Nat
<1>1. SUFFICES ASSUME NEW k \in Nat \ T PROVE FALSE
  OBVIOUS
<1>2. PICK m \in Nat \ T : \A n \in Nat \ T : m <= n
  BY <1>1, LeastNat
<1>3. m # 0 /\ m - 1 \in Nat
  BY <1>2
<1>4. m - 1 \in T
  BY <1>2, <1>3
<1> QED
  BY <1>2, <1>3, <1>4

(* Induction up to a bound.                                                *)
LEMMA UpTo ==
    ASSUME NEW N \in Nat, NEW T \in SUBSET (0..N), 0 \in T,
           \A n \in T : n < N => n + 1 \in T
    PROVE  T = 0..N
<1> DEFINE D == T \cup {n \in Nat : n > N}
<1>1. D \in SUBSET Nat /\ 0 \in D
  <2>1. \A n \in T : n \in Nat
    OBVIOUS
  <2> QED
    BY <2>1
<1>2. \A n \in D : n + 1 \in D
  OBVIOUS
<1>3. D = Nat
  <2> HIDE DEF D
  <2> QED
    BY <1>1, <1>2, SetInduction
<1>4. ASSUME NEW n \in 0..N PROVE n \in T
  <2>1. n \in Nat /\ ~(n > N)
    OBVIOUS
  <2>2. n \in D
    BY <1>3, <2>1
  <2> QED
    BY <2>1, <2>2
<1> QED
  BY <1>4

Defines(N, S, b, F) ==
    \E f \in [0..N -> S] : f[0] = b /\ \A n \in 1..N : f[n] = F[n][f[n - 1]]

LEMMA Recursion ==
    ASSUME NEW N \in Nat, NEW S, NEW b \in S, NEW F \in [1..N -> [S -> S]]
    PROVE  Defines(N, S, b, F)
<1> DEFINE T == {m \in 0..N : \E f \in [0..m -> S] : f[0] = b /\ \A n \in 1..m : f[n] = F[n][f[n - 1]]}
<1>1. 0 \in T
  <2> DEFINE f == [n \in 0..0 |-> b]
  <2>1. f \in [0..0 -> S] /\ f[0] = b /\ \A n \in 1..0 : f[n] = F[n][f[n - 1]]
    OBVIOUS
  <2> HIDE DEF f
  <2> QED
    BY <2>1
<1>2. ASSUME NEW m \in T, m < N PROVE m + 1 \in T
  <2>1. PICK f \in [0..m -> S] : f[0] = b /\ \A n \in 1..m : f[n] = F[n][f[n - 1]]
    OBVIOUS
  <2> DEFINE g == [n \in 0..(m + 1) |-> IF n <= m THEN f[n] ELSE F[m + 1][f[m]]]
  <2>2. m \in 0..N /\ m + 1 \in 1..N /\ m \in 0..m
    BY <1>2
  <2>3. F[m + 1] \in [S -> S] /\ f[m] \in S
    BY <2>2
  <2>4. F[m + 1][f[m]] \in S
    BY <2>3
  <2>5. g \in [0..(m + 1) -> S]
    BY <2>2, <2>4
  <2>6. g[0] = b
    BY <2>1, <2>2
  <2>7. ASSUME NEW n \in 1..(m + 1) PROVE g[n] = F[n][g[n - 1]]
    <3>1. n - 1 \in 0..m /\ g[n - 1] = f[n - 1]
      BY <2>2
    <3>2. CASE n <= m
      BY <2>1, <2>2, <3>1, <3>2
    <3>3. CASE n = m + 1
      BY <2>2, <3>1, <3>3
    <3> QED
      BY <2>2, <3>2, <3>3
  <2> HIDE DEF g
  <2> QED
    BY <2>2, <2>5, <2>6, <2>7, SMTT(40)
<1>3. T = 0..N
  <2>1. T \in SUBSET (0..N)
    OBVIOUS
  <2> HIDE DEF T
  <2> QED
    BY <1>1, <1>2, <2>1, UpTo
<1> QED
  BY <1>3, SMTT(40) DEF Defines

-------------------------------------------------------------------------------
(* The segments of a pattern, letter by letter.                            *)
Pieces == {x \in Seq(Seq(Letters)) : Len(x) >= 1}
Cut(p, n, x) ==
    IF p[n] # Star THEN [x EXCEPT ![Len(x)] = Append(@, p[n])]
    ELSE IF n > 1 /\ p[n - 1] = Star THEN x
    ELSE Append(x, << >>)

LEMMA CutType ==
    ASSUME NEW p \in Seq(Letters \cup {Star}), NEW n \in 1..Len(p), NEW x \in Pieces
    PROVE  Cut(p, n, x) \in Pieces
<1>1. x \in Seq(Seq(Letters)) /\ Len(x) \in Nat /\ Len(x) >= 1 /\ x[Len(x)] \in Seq(Letters)
  BY DEF Pieces
<1>2. p[n] \in Letters \cup {Star}
  OBVIOUS
<1>3. CASE p[n] # Star
  <2>1. Append(x[Len(x)], p[n]) \in Seq(Letters)
    BY <1>1, <1>2, <1>3
  <2>2. Cut(p, n, x) = [x EXCEPT ![Len(x)] = Append(x[Len(x)], p[n])]
    BY <1>3 DEF Cut
  <2> DEFINE a == Append(x[Len(x)], p[n])
  <2>3. [x EXCEPT ![Len(x)] = a] \in Seq(Seq(Letters)) /\ Len([x EXCEPT ![Len(x)] = a]) = Len(x)
    <3>1. a \in Seq(Letters)
      BY <2>1
    <3> HIDE DEF a
    <3> QED
      BY <1>1, <3>1
  <2> QED
    BY <1>1, <2>2, <2>3 DEF Pieces
<1>4. CASE p[n] = Star
  <2>1. << >> \in Seq(Letters)
    OBVIOUS
  <2>2. Append(x, << >>) \in Seq(Seq(Letters)) /\ Len(Append(x, << >>)) = Len(x) + 1
    BY <1>1, <2>1
  <2> QED
    BY <1>1, <1>4, <2>2 DEF Pieces, Cut
<1> QED
  BY <1>3, <1>4

LEMMA SegmentsRecursion ==
    ASSUME NEW p \in Seq(Letters \cup {Star})
    PROVE  /\ SegmentsUpTo(p) \in [0..Len(p) -> Pieces]
           /\ SegmentsUpTo(p)[0] = << << >> >>
           /\ \A n \in 1..Len(p) : SegmentsUpTo(p)[n] = Cut(p, n, SegmentsUpTo(p)[n - 1])
<1> DEFINE F == [n \in 1..Len(p) |-> [x \in Pieces |-> Cut(p, n, x)]]
           b == << << >> >>
           Body(f, n) == CASE n = 0 -> << << >> >>
                           [] n > 0 /\ p[n] # Star ->
                                [f[n - 1] EXCEPT ![Len(f[n - 1])] = Append(@, p[n])]
                           [] n > 1 /\ p[n] = Star /\ p[n - 1] = Star -> f[n - 1]
                           [] OTHER -> Append(f[n - 1], << >>)
           U == CHOOSE f : f = [n \in 0..Len(p) |-> Body(f, n)]
<1>1. Len(p) \in Nat
  OBVIOUS
<1>2. b \in Pieces
  BY DEF Pieces
<1>3. F \in [1..Len(p) -> [Pieces -> Pieces]]
  BY CutType
<1>4. PICK g \in [0..Len(p) -> Pieces] : g[0] = b /\ \A n \in 1..Len(p) : g[n] = F[n][g[n - 1]]
  <2>1. Defines(Len(p), Pieces, b, F)
    <3> HIDE DEF F, b
    <3> QED
      BY <1>1, <1>2, <1>3, Recursion
  <2> HIDE DEF F, b
  <2> QED
    BY <2>1 DEF Defines
<1>5. \A n \in 1..Len(p) : n - 1 \in 0..Len(p) /\ n \in Nat
  BY <1>1
<1>6. \A n \in 1..Len(p) : g[n] = Cut(p, n, g[n - 1])
  BY <1>4, <1>5
<1>7. ASSUME NEW f, NEW n \in 1..Len(p) PROVE Body(f, n) = Cut(p, n, f[n - 1])
  <2>1. n # 0 /\ n > 0
    BY <1>5
  <2>2. CASE p[n] # Star
    BY <2>1, <2>2 DEF Cut
  <2>3. CASE p[n] = Star /\ n > 1 /\ p[n - 1] = Star
    BY <2>1, <2>3 DEF Cut
  <2>4. CASE p[n] = Star /\ ~(n > 1 /\ p[n - 1] = Star)
    BY <2>1, <2>4 DEF Cut
  <2> QED
    BY <2>2, <2>3, <2>4
<1>8. \A f : Body(f, 0) = b
  OBVIOUS
<1> HIDE DEF Body
<1>9. g = [n \in 0..Len(p) |-> Body(g, n)]
  <2>1. ASSUME NEW n \in 0..Len(p) PROVE g[n] = Body(g, n)
    <3>1. n = 0 \/ n \in 1..Len(p)
      BY <1>1
    <3> QED
      BY <1>4, <1>6, <1>7, <1>8, <3>1
  <2> QED
    BY <2>1
<1>10. U = [n \in 0..Len(p) |-> Body(U, n)]
  BY <1>9
<1>11. U = SegmentsUpTo(p)
  BY DEF SegmentsUpTo, Body
<1> HIDE DEF U
<1>12. U[0] = b
  BY <1>1, <1>8, <1>10
<1>13. \A n \in 1..Len(p) : U[n] = Cut(p, n, U[n - 1])
  BY <1>5, <1>7, <1>10
<1>14. \A n \in 0..Len(p) : U[n] \in Pieces
  <2> DEFINE T == {n \in 0..Len(p) : U[n] \in Pieces}
  <2>1. 0 \in T
    BY <1>1, <1>2, <1>12
  <2>2. ASSUME NEW n \in T, n < Len(p) PROVE n + 1 \in T
    <3>1. n + 1 \in 1..Len(p) /\ (n + 1) - 1 = n
      BY <1>1, <2>2
    <3>2. U[n + 1] = Cut(p, n + 1, U[n])
      BY <1>13, <3>1
    <3> QED
      BY <3>1, <3>2, CutType
  <2>3. T = 0..Len(p)
    <3> HIDE DEF T
    <3> T \in SUBSET (0..Len(p))
      BY DEF T
    <3> QED
      BY <1>1, <2>1, <2>2, UpTo
  <2> QED
    BY <2>3
<1> QED
  BY <1>10, <1>11, <1>12, <1>13, <1>14

(* The segments of a longer beginning go on from those of a shorter one.   *)
GoesOn(x, y) ==
    /\ Len(x) <= Len(y)
    /\ \A k \in 1..(Len(x) - 1) : y[k] = x[k]
    /\ Len(x[Len(x)]) <= Len(y[Len(x)])
    /\ \A j \in 1..Len(x[Len(x)]) : y[Len(x)][j] = x[Len(x)][j]

LEMMA PiecesFacts ==
    ASSUME NEW x \in Pieces
    PROVE  /\ x \in Seq(Seq(Letters)) /\ Len(x) \in Nat \ {0}
           /\ \A k \in 1..Len(x) : x[k] \in Seq(Letters) /\ Len(x[k]) \in Nat
BY DEF Pieces

LEMMA CutLetter ==
    ASSUME NEW p \in Seq(Letters \cup {Star}), NEW n \in 1..Len(p), NEW x \in Pieces, p[n] # Star
    PROVE  LET y == Cut(p, n, x)
           IN /\ Len(y) = Len(x)
              /\ \A k \in 1..(Len(x) - 1) : y[k] = x[k]
              /\ Len(y[Len(x)]) = Len(x[Len(x)]) + 1
              /\ \A j \in 1..Len(x[Len(x)]) : y[Len(x)][j] = x[Len(x)][j]
              /\ y[Len(x)][Len(x[Len(x)]) + 1] = p[n]
<1> DEFINE last == x[Len(x)]
           a == Append(last, p[n])
           y == [x EXCEPT ![Len(x)] = a]
<1>1. Cut(p, n, x) = y
  BY DEF Cut
<1>2. last \in Seq(Letters) /\ Len(last) \in Nat /\ Len(x) \in Nat \ {0} /\ x \in Seq(Seq(Letters))
  BY PiecesFacts
<1>3. p[n] \in Letters
  OBVIOUS
<1>4. /\ a \in Seq(Letters) /\ Len(a) = Len(last) + 1 /\ a[Len(last) + 1] = p[n]
      /\ \A j \in 1..Len(last) : a[j] = last[j]
  BY <1>2, <1>3
<1>5. Len(y) = Len(x) /\ y[Len(x)] = a /\ \A k \in 1..(Len(x) - 1) : y[k] = x[k]
  <2> HIDE DEF a
  <2> QED
    BY <1>2, <1>4
<1> HIDE DEF y, a
<1> QED
  BY <1>1, <1>4, <1>5

LEMMA CutStar ==
    ASSUME NEW p \in Seq(Letters \cup {Star}), NEW n \in 1..Len(p), NEW x \in Pieces, p[n] = Star
    PROVE  LET y == Cut(p, n, x)
           IN IF n > 1 /\ p[n - 1] = Star THEN y = x
              ELSE /\ Len(y) = Len(x) + 1 /\ y[Len(y)] = << >>
                   /\ \A k \in 1..Len(x) : y[k] = x[k]
<1>1. x \in Seq(Seq(Letters)) /\ << >> \in Seq(Letters)
  BY PiecesFacts
<1>2. LET y == Append(x, << >>)
      IN Len(y) = Len(x) + 1 /\ y[Len(y)] = << >> /\ \A k \in 1..Len(x) : y[k] = x[k]
  BY <1>1
<1> QED
  BY <1>2 DEF Cut

LEMMA CutGoesOn ==
    ASSUME NEW p \in Seq(Letters \cup {Star}), NEW n \in 1..Len(p), NEW x \in Pieces
    PROVE  GoesOn(x, Cut(p, n, x))
<1>1. Len(x) \in Nat \ {0} /\ Len(x[Len(x)]) \in Nat
  BY PiecesFacts
<1>2. CASE p[n] # Star
  BY <1>1, <1>2, CutLetter DEF GoesOn
<1>3. CASE p[n] = Star
  BY <1>1, <1>3, CutStar, SMTT(40) DEF GoesOn
<1> QED
  BY <1>2, <1>3

LEMMA GoesOnTransitive ==
    ASSUME NEW x \in Pieces, NEW y \in Pieces, NEW z \in Pieces, GoesOn(x, y), GoesOn(y, z)
    PROVE  GoesOn(x, z)
<1> DEFINE m == Len(x)
           n == Len(y)
<1>1. /\ m \in Nat \ {0} /\ n \in Nat \ {0} /\ Len(z) \in Nat /\ m <= n /\ n <= Len(z)
      /\ Len(x[m]) \in Nat /\ Len(y[m]) \in Nat /\ Len(y[n]) \in Nat
  BY PiecesFacts, SMTT(40) DEF GoesOn
<1>2. \A k \in 1..(m - 1) : z[k] = x[k]
  BY <1>1 DEF GoesOn
<1>3. CASE m = n
  BY <1>1, <1>2, <1>3 DEF GoesOn
<1>4. CASE m < n
  <2>1. z[m] = y[m]
    BY <1>1, <1>4 DEF GoesOn
  <2> QED
    BY <1>1, <1>2, <2>1 DEF GoesOn
<1> QED
  BY <1>1, <1>3, <1>4

LEMMA SegmentsGoOn ==
    ASSUME NEW p \in Seq(Letters \cup {Star})
    PROVE  \A n \in 0..Len(p) : \A i \in 0..n : GoesOn(SegmentsUpTo(p)[i], SegmentsUpTo(p)[n])
<1> DEFINE U == SegmentsUpTo(p)
           T == {n \in 0..Len(p) : \A i \in 0..n : GoesOn(U[i], U[n])}
<1>1. Len(p) \in Nat
  OBVIOUS
<1>2. \A n \in 0..Len(p) : U[n] \in Pieces
  BY SegmentsRecursion
<1>3. \A x \in Pieces : GoesOn(x, x)
  BY PiecesFacts DEF GoesOn
<1>4. 0 \in T
  BY <1>1, <1>2, <1>3
<1>5. ASSUME NEW n \in T, n < Len(p) PROVE n + 1 \in T
  <2>1. n \in 0..Len(p) /\ n + 1 \in 1..Len(p) /\ (n + 1) - 1 = n /\ n + 1 \in 0..Len(p)
    BY <1>1, <1>5
  <2>2. U[n + 1] = Cut(p, n + 1, U[n])
    BY <2>1, SegmentsRecursion
  <2>3. GoesOn(U[n], U[n + 1])
    <3> HIDE DEF U
    <3> QED
      BY <1>2, <2>1, <2>2, CutGoesOn
  <2>4. ASSUME NEW i \in 0..(n + 1) PROVE GoesOn(U[i], U[n + 1])
    <3>1. CASE i = n + 1
      BY <1>2, <1>3, <2>1, <3>1
    <3>2. CASE i \in 0..n
      <4>1. i \in 0..Len(p)
        BY <2>1, <3>2
      <4>2. GoesOn(U[i], U[n])
        BY <3>2
      <4> HIDE DEF U
      <4> QED
        BY <1>2, <2>1, <2>3, <4>1, <4>2, GoesOnTransitive
    <3> QED
      BY <2>1, <3>1, <3>2
  <2> QED
    BY <2>1, <2>4
<1>6. T = 0..Len(p)
  <2>1. T \in SUBSET (0..Len(p))
    OBVIOUS
  <2> HIDE DEF T
  <2> QED
    BY <1>1, <1>4, <1>5, <2>1, UpTo
<1> QED
  BY <1>6

LEMMA StarOpens ==
    ASSUME NEW p \in Seq(Letters \cup {Star})
    PROVE  \A n \in 1..Len(p) : p[n] = Star =>
              LET x == SegmentsUpTo(p)[n] IN Len(x) >= 2 /\ x[Len(x)] = << >>
<1> DEFINE U == SegmentsUpTo(p)
           T == {n \in 0..Len(p) : n > 0 /\ p[n] = Star => Len(U[n]) >= 2 /\ U[n][Len(U[n])] = << >>}
<1>1. Len(p) \in Nat
  OBVIOUS
<1>2. \A n \in 0..Len(p) : U[n] \in Pieces
  BY SegmentsRecursion
<1>3. 0 \in T
  BY <1>1
<1>4. ASSUME NEW n \in T, n < Len(p) PROVE n + 1 \in T
  <2>1. n \in 0..Len(p) /\ n + 1 \in 1..Len(p) /\ (n + 1) - 1 = n /\ n + 1 \in 0..Len(p)
    BY <1>1, <1>4
  <2>2. U[n + 1] = Cut(p, n + 1, U[n])
    BY <2>1, SegmentsRecursion
  <2>3. U[n] \in Pieces /\ Len(U[n]) \in Nat \ {0}
    BY <1>2, <2>1, PiecesFacts
  <2>4. CASE p[n + 1] = Star
    <3> HIDE DEF U
    <3>1. CASE n > 0 /\ p[n] = Star
      BY <2>1, <2>2, <2>3, <2>4, <3>1, CutStar
    <3>2. CASE ~(n > 0 /\ p[n] = Star)
      <4>1. ~(n + 1 > 1 /\ p[(n + 1) - 1] = Star)
        BY <2>1, <3>2
      <4>2. Len(U[n + 1]) = Len(U[n]) + 1 /\ U[n + 1][Len(U[n + 1])] = << >>
        BY <2>1, <2>2, <2>3, <2>4, <4>1, CutStar
      <4> QED
        BY <2>1, <2>3, <4>2
    <3> QED
      BY <3>1, <3>2
  <2> QED
    BY <2>1, <2>4
<1>5. T = 0..Len(p)
  <2>1. T \in SUBSET (0..Len(p))
    OBVIOUS
  <2> HIDE DEF T
  <2> QED
    BY <1>1, <1>3, <1>4, <2>1, UpTo
<1>6. \A n \in 1..Len(p) : n \in 0..Len(p) /\ n > 0
  BY <1>1
<1> QED
  BY <1>5, <1>6

-------------------------------------------------------------------------------
(* The state in which the automaton is when it has read what the first i   *)
(* letters and stars of the pattern stand for: a star, and the stars that  *)
(* follow it, are read in the state before them.                           *)
AfterStar(p, i) == i > 0 /\ p[i] = Star
State(p, i) ==
    LET x == SegmentsUpTo(p)[i]
        m == IF AfterStar(p, i) THEN Len(x) - 1 ELSE Len(x)
    IN <<m, Len(x[m])>>

LEMMA StateBounds ==
    ASSUME NEW p \in Seq(Letters \cup {Star}), NEW i \in 0..Len(p)
    PROVE  LET r == Segments(p)
               m == State(p, i)[1]
           IN /\ r \in Pieces /\ State(p, i) = <<m, State(p, i)[2]>>
              /\ m \in 1..Len(r) /\ State(p, i)[2] \in 0..Len(r[m])
              /\ AfterStar(p, i) => m < Len(r) /\ State(p, i)[2] = Len(r[m])
<1> DEFINE U == SegmentsUpTo(p)
           r == Segments(p)
           x == U[i]
<1>1. Len(p) \in Nat /\ Len(p) \in 0..Len(p) /\ r = U[Len(p)]
  BY DEF Segments
<1>2. x \in Pieces /\ r \in Pieces
  BY <1>1, SegmentsRecursion
<1>3. GoesOn(x, r)
  BY <1>1, SegmentsGoOn
<1>4. /\ Len(x) \in Nat \ {0} /\ Len(r) \in Nat \ {0} /\ Len(x[Len(x)]) \in Nat
      /\ Len(x) <= Len(r) /\ Len(x[Len(x)]) <= Len(r[Len(x)])
      /\ Len(r[Len(x)]) \in Nat
  <2> HIDE DEF x, r
  <2> QED
    BY <1>2, <1>3, PiecesFacts DEF GoesOn
<1>5. CASE AfterStar(p, i)
  <2>1. i \in 1..Len(p) /\ p[i] = Star
    BY <1>1, <1>5 DEF AfterStar
  <2>2. Len(x) >= 2
    BY <2>1, StarOpens
  <2>3. r[Len(x) - 1] = x[Len(x) - 1] /\ Len(x[Len(x) - 1]) \in Nat
    <3>1. Len(x) - 1 \in 1..(Len(x) - 1) /\ Len(x) - 1 \in 1..Len(x)
      BY <1>4, <2>2
    <3> HIDE DEF x, r
    <3> QED
      BY <1>2, <1>3, <3>1, PiecesFacts DEF GoesOn
  <2>4. State(p, i) = <<Len(x) - 1, Len(x[Len(x) - 1])>>
    BY <1>5 DEF State
  <2> HIDE DEF x, r
  <2> QED
    BY <1>2, <1>4, <2>2, <2>3, <2>4 DEF r
<1>6. CASE ~AfterStar(p, i)
  <2>1. State(p, i) = <<Len(x), Len(x[Len(x)])>>
    BY <1>6 DEF State
  <2> HIDE DEF x, r
  <2> QED
    BY <1>2, <1>4, <1>6, <2>1 DEF r
<1> QED
  BY <1>5, <1>6

LEMMA StateOfLetter ==
    ASSUME NEW p \in Seq(Letters \cup {Star}), NEW i \in 0..Len(p), i < Len(p), p[i + 1] # Star
    PROVE  LET r == Segments(p)
               s == State(p, i)
           IN IF AfterStar(p, i)
              THEN /\ r[s[1] + 1] # << >> /\ r[s[1] + 1][1] = p[i + 1]
                   /\ State(p, i + 1) = <<s[1] + 1, 1>>
              ELSE /\ s[2] < Len(r[s[1]]) /\ r[s[1]][s[2] + 1] = p[i + 1]
                   /\ State(p, i + 1) = <<s[1], s[2] + 1>>
<1> DEFINE U == SegmentsUpTo(p)
           r == Segments(p)
           x == U[i]
           y == U[i + 1]
           m == Len(x)
<1>1. /\ Len(p) \in Nat /\ Len(p) \in 0..Len(p) /\ r = U[Len(p)]
      /\ i + 1 \in 1..Len(p) /\ i + 1 \in 0..Len(p) /\ (i + 1) - 1 = i
  BY DEF Segments
<1>2. x \in Pieces /\ y \in Pieces /\ r \in Pieces
  BY <1>1, SegmentsRecursion
<1>3. y = Cut(p, i + 1, x)
  BY <1>1, SegmentsRecursion
<1>4. GoesOn(y, r)
  BY <1>1, SegmentsGoOn
<1>5. ~AfterStar(p, i + 1)
  BY DEF AfterStar
<1>6. State(p, i + 1) = <<Len(y), Len(y[Len(y)])>>
  BY <1>5 DEF State
<1>7. IF AfterStar(p, i)
      THEN State(p, i) = <<m - 1, Len(x[m - 1])>> /\ x[m] = << >>
      ELSE State(p, i) = <<m, Len(x[m])>>
  <2>1. AfterStar(p, i) => i \in 1..Len(p) /\ p[i] = Star
    BY <1>1 DEF AfterStar
  <2>2. AfterStar(p, i) => x[m] = << >>
    BY <2>1, StarOpens
  <2> QED
    BY <2>2 DEF State
<1> HIDE DEF x, y, r
<1>8. /\ Len(y) = m /\ m \in Nat \ {0} /\ Len(x[m]) \in Nat
      /\ Len(y[m]) = Len(x[m]) + 1 /\ y[m][Len(x[m]) + 1] = p[i + 1]
  <2>1. m \in Nat \ {0} /\ Len(x[m]) \in Nat
    BY <1>2, PiecesFacts
  <2>2. /\ Len(Cut(p, i + 1, x)) = m
        /\ Len(Cut(p, i + 1, x)[m]) = Len(x[m]) + 1
        /\ Cut(p, i + 1, x)[m][Len(x[m]) + 1] = p[i + 1]
    <3> HIDE DEF m
    <3> QED
      BY <1>1, <1>2, CutLetter DEF m
  <2> QED
    BY <1>3, <2>1, <2>2
<1>9. /\ Len(r[m]) >= Len(x[m]) + 1 /\ r[m][Len(x[m]) + 1] = p[i + 1]
      /\ Len(r[m]) \in Nat
  <2>1. Len(x[m]) + 1 \in 1..Len(y[m]) /\ m \in 1..Len(r) /\ Len(r) \in Nat
    BY <1>2, <1>4, <1>8, PiecesFacts, SMTT(40) DEF GoesOn
  <2> QED
    BY <1>2, <1>4, <1>8, <2>1, PiecesFacts DEF GoesOn
<1>10. CASE AfterStar(p, i)
  <2>1. Len(x[m]) = 0 /\ m - 1 + 1 = m
    BY <1>7, <1>8, <1>10
  <2>2. r[m] # << >> /\ r[m][1] = p[i + 1]
    BY <1>9, <2>1
  <2> QED
    BY <1>6, <1>7, <1>8, <1>10, <2>1, <2>2 DEF r
<1>11. CASE ~AfterStar(p, i)
  BY <1>6, <1>7, <1>8, <1>9, <1>11 DEF r
<1> QED
  BY <1>10, <1>11

LEMMA StateOfStar ==
    ASSUME NEW p \in Seq(Letters \cup {Star}), NEW i \in 0..Len(p), i < Len(p), p[i + 1] = Star
    PROVE  State(p, i + 1) = State(p, i)
<1> DEFINE U == SegmentsUpTo(p)
           x == U[i]
           y == U[i + 1]
           m == Len(x)
<1>1. /\ Len(p) \in Nat /\ i + 1 \in 1..Len(p) /\ i + 1 \in 0..Len(p) /\ (i + 1) - 1 = i
  OBVIOUS
<1>2. x \in Pieces /\ y = Cut(p, i + 1, x)
  BY <1>1, SegmentsRecursion
<1>3. AfterStar(p, i + 1) /\ (AfterStar(p, i) <=> i + 1 > 1 /\ p[(i + 1) - 1] = Star)
  BY <1>1 DEF AfterStar
<1>4. State(p, i + 1) = <<Len(y) - 1, Len(y[Len(y) - 1])>>
  BY <1>3 DEF State
<1>5. State(p, i) = IF AfterStar(p, i) THEN <<m - 1, Len(x[m - 1])>> ELSE <<m, Len(x[m])>>
  BY DEF State
<1> HIDE DEF x, y
<1>6. CASE AfterStar(p, i)
  BY <1>1, <1>2, <1>3, <1>4, <1>5, <1>6, CutStar
<1>7. CASE ~AfterStar(p, i)
  <2>1. Len(y) = m + 1 /\ \A k \in 1..m : y[k] = x[k]
    BY <1>1, <1>2, <1>3, <1>7, CutStar
  <2>2. m \in Nat \ {0}
    BY <1>2, PiecesFacts
  <2>3. Len(y) - 1 = m /\ y[m] = x[m]
    BY <2>1, <2>2
  <2> QED
    BY <1>4, <1>5, <1>7, <2>3
<1> QED
  BY <1>6, <1>7

LEMMA LastState ==
    ASSUME NEW p \in Seq(Letters \cup {Star})
    PROVE  LET r == Segments(p)
               s == State(p, Len(p))
           IN /\ s[2] = Len(r[s[1]])
              /\ IF AfterStar(p, Len(p)) THEN s[1] + 1 = Len(r) /\ r[Len(r)] = << >>
                                         ELSE s[1] = Len(r)
<1> DEFINE r == Segments(p)
<1>1. Len(p) \in Nat /\ Len(p) \in 0..Len(p) /\ r = SegmentsUpTo(p)[Len(p)]
  BY DEF Segments
<1>2. r \in Pieces /\ Len(r) \in Nat \ {0}
  BY <1>1, SegmentsRecursion, PiecesFacts
<1>3. CASE AfterStar(p, Len(p))
  <2>1. r[Len(r)] = << >>
    BY <1>1, <1>3, StarOpens DEF AfterStar
  <2>2. State(p, Len(p)) = <<Len(r) - 1, Len(r[Len(r) - 1])>>
    BY <1>1, <1>3 DEF State
  <2> QED
    BY <1>2, <1>3, <2>1, <2>2
<1>4. CASE ~AfterStar(p, Len(p))
  <2>1. State(p, Len(p)) = <<Len(r), Len(r[Len(r)])>>
    BY <1>1, <1>4 DEF State
  <2> QED
    BY <1>4, <2>1
<1> QED
  BY <1>3, <1>4

(* What the automaton does there: it reads the next letter of the pattern, *)
(* stays after a star, and accepts at the end.                             *)
LEMMA MoveFromState ==
    ASSUME NEW p \in Seq(Letters \cup {Star}), NEW i \in 0..Len(p), NEW c,
           i < Len(p) => p[i + 1] # Star
    PROVE  LET r == Segments(p)
               s == State(p, i)
           IN /\ Transitions(r, s, c)
                    = {t \in {s} : AfterStar(p, i)}
                      \cup {t \in {State(p, i + 1)} : i < Len(p) /\ p[i + 1] = c}
              /\ AcceptsState(r, s) <=> i = Len(p)
<1> DEFINE r == Segments(p)
           s == State(p, i)
<1>1. /\ r \in Pieces /\ s = <<s[1], s[2]>>
      /\ s[1] \in 1..Len(r) /\ s[2] \in 0..Len(r[s[1]])
      /\ AfterStar(p, i) => s[1] < Len(r) /\ s[2] = Len(r[s[1]])
  BY StateBounds
<1>2. /\ Len(p) \in Nat /\ Len(r) \in Nat /\ Len(r[s[1]]) \in Nat
      /\ s[1] \in Nat /\ s[2] \in Nat
  <2> HIDE DEF r, s
  <2> QED
    BY <1>1, PiecesFacts
<1>3. CASE i < Len(p) /\ AfterStar(p, i)
  <2>1. /\ r[s[1] + 1] # << >> /\ r[s[1] + 1][1] = p[i + 1]
        /\ State(p, i + 1) = <<s[1] + 1, 1>>
    BY <1>3, StateOfLetter
  <2>2. s[1] < Len(r) /\ s[2] = Len(r[s[1]]) /\ ~(s[2] < Len(r[s[1]]))
    BY <1>1, <1>2, <1>3
  <2>3. Transitions(r, s, c) = {s} \cup {t \in {<<s[1] + 1, 1>>} : r[s[1] + 1] # << >> /\ r[s[1] + 1][1] = c}
    <3> HIDE DEF r, s
    <3> QED
      BY <2>2 DEF Transitions
  <2>4. ~AcceptsState(r, s)
    <3>1. s[1] + 1 \in (s[1] + 1)..Len(r)
      BY <1>2, <2>2
    <3> HIDE DEF r, s
    <3> QED
      BY <2>1, <3>1 DEF AcceptsState
  <2> HIDE DEF r, s
  <2> QED
    BY <1>2, <1>3, <2>1, <2>3, <2>4 DEF r, s
<1>4. CASE i < Len(p) /\ ~AfterStar(p, i)
  <2>1. /\ s[2] < Len(r[s[1]]) /\ r[s[1]][s[2] + 1] = p[i + 1]
        /\ State(p, i + 1) = <<s[1], s[2] + 1>>
    BY <1>4, StateOfLetter
  <2>2. Transitions(r, s, c) = {t \in {<<s[1], s[2] + 1>>} : r[s[1]][s[2] + 1] = c}
    <3> HIDE DEF r, s
    <3> QED
      BY <2>1, <1>2 DEF Transitions
  <2>3. ~AcceptsState(r, s)
    <3> HIDE DEF r, s
    <3> QED
      BY <1>2, <2>1 DEF AcceptsState
  <2> HIDE DEF r, s
  <2> QED
    BY <1>2, <1>4, <2>1, <2>2, <2>3, SMTT(40) DEF r, s
<1>5. CASE ~(i < Len(p))
  <2>1. i = Len(p)
    BY <1>2, <1>5
  <2>2. /\ s[2] = Len(r[s[1]])
        /\ IF AfterStar(p, i) THEN s[1] + 1 = Len(r) /\ r[Len(r)] = << >> ELSE s[1] = Len(r)
    BY <2>1, LastState
  <2>3. AcceptsState(r, s)
    <3>1. \A k \in (s[1] + 1)..Len(r) : r[k] = << >>
      <4> HIDE DEF r, s
      <4> QED
        BY <1>2, <2>2
    <3> HIDE DEF r, s
    <3> QED
      BY <2>2, <3>1 DEF AcceptsState
  <2>4. CASE AfterStar(p, i)
    <3>1. Transitions(r, s, c) = {s}
      <4>1. r[s[1] + 1] = << >> /\ s[1] < Len(r) /\ ~(s[2] < Len(r[s[1]]))
        <5> HIDE DEF r, s
        <5> QED
          BY <1>2, <2>2, <2>4, SMTT(40)
      <4> HIDE DEF r, s
      <4> QED
        BY <2>2, <4>1 DEF Transitions
    <3> HIDE DEF r, s
    <3> QED
      BY <1>5, <2>1, <2>3, <2>4, <3>1 DEF r, s
  <2>5. CASE ~AfterStar(p, i)
    <3>1. Transitions(r, s, c) = {}
      <4>1. ~(s[1] < Len(r)) /\ ~(s[2] < Len(r[s[1]]))
        <5> HIDE DEF r, s
        <5> QED
          BY <1>2, <2>2, <2>5
      <4> HIDE DEF r, s
      <4> QED
        BY <4>1 DEF Transitions
    <3> HIDE DEF r, s
    <3> QED
      BY <1>5, <2>1, <2>3, <2>5, <3>1 DEF r, s
  <2> QED
    BY <2>4, <2>5
<1> QED
  BY <1>3, <1>4, <1>5

-------------------------------------------------------------------------------
(* Reading a name.                                                         *)
Pairs == Nat \X Nat
Moved(r, w, n, states) == UNION {Transitions(r, s, w[n]) : s \in states}

LEMMA MovesAreStates ==
    ASSUME NEW r, NEW s \in Pairs, NEW c
    PROVE  Transitions(r, s, c) \subseteq Pairs
<1>1. s[1] \in Nat /\ s[2] \in Nat
  BY DEF Pairs
<1>2. <<s[1], s[2] + 1>> \in Pairs /\ <<s[1] + 1, 1>> \in Pairs
  BY <1>1 DEF Pairs
<1>3. CASE s[2] < Len(r[s[1]])
  BY <1>2, <1>3 DEF Transitions
<1>4. CASE ~(s[2] < Len(r[s[1]])) /\ s[2] = Len(r[s[1]]) /\ s[1] < Len(r)
  BY <1>2, <1>4 DEF Transitions
<1>5. CASE ~(s[2] < Len(r[s[1]])) /\ ~(s[2] = Len(r[s[1]]) /\ s[1] < Len(r))
  BY <1>5 DEF Transitions
<1> QED
  BY <1>3, <1>4, <1>5

LEMMA StatesRecursion ==
    ASSUME NEW r, NEW w, Len(w) \in Nat
    PROVE  /\ \A n \in 0..Len(w) : States(r, w)[n] \subseteq Pairs
           /\ States(r, w)[0] = {Start}
           /\ \A n \in 1..Len(w) : States(r, w)[n] = Moved(r, w, n, States(r, w)[n - 1])
<1> DEFINE S == SUBSET Pairs
           F == [n \in 1..Len(w) |-> [states \in S |-> Moved(r, w, n, states)]]
           b == {Start}
           Body(f, n) == IF n = 0 THEN {Start} ELSE UNION {Transitions(r, s, w[n]) : s \in f[n - 1]}
           U == CHOOSE f : f = [n \in 0..Len(w) |-> Body(f, n)]
<1>1. b \in S
  BY DEF Start, Pairs
<1>2. F \in [1..Len(w) -> [S -> S]]
  <2>1. ASSUME NEW n \in 1..Len(w), NEW states \in S PROVE Moved(r, w, n, states) \in S
    <3>1. \A s \in states : Transitions(r, s, w[n]) \subseteq Pairs
      BY MovesAreStates
    <3> QED
      BY <3>1 DEF Moved
  <2> HIDE DEF S
  <2> QED
    BY <2>1
<1>3. PICK g \in [0..Len(w) -> S] : g[0] = b /\ \A n \in 1..Len(w) : g[n] = F[n][g[n - 1]]
  <2>1. Defines(Len(w), S, b, F)
    <3> HIDE DEF F, b, S
    <3> QED
      BY <1>1, <1>2, Recursion
  <2> HIDE DEF F, b, S
  <2> QED
    BY <2>1 DEF Defines
<1>4. \A n \in 1..Len(w) : n - 1 \in 0..Len(w) /\ n \in Nat /\ n # 0
  OBVIOUS
<1>5. \A n \in 1..Len(w) : g[n] = Moved(r, w, n, g[n - 1])
  <2>1. \A n \in 1..Len(w) : g[n - 1] \in S
    BY <1>4
  <2> HIDE DEF S
  <2> QED
    BY <1>3, <1>4, <2>1
<1>6. \A f : \A n \in 1..Len(w) : Body(f, n) = Moved(r, w, n, f[n - 1])
  BY <1>4 DEF Moved
<1>7. \A f : Body(f, 0) = b
  OBVIOUS
<1> HIDE DEF Body
<1>8. g = [n \in 0..Len(w) |-> Body(g, n)]
  <2>1. ASSUME NEW n \in 0..Len(w) PROVE g[n] = Body(g, n)
    <3>1. n = 0 \/ n \in 1..Len(w)
      OBVIOUS
    <3> QED
      BY <1>3, <1>5, <1>6, <1>7, <3>1
  <2> HIDE DEF S
  <2> QED
    BY <2>1
<1>9. U = [n \in 0..Len(w) |-> Body(U, n)]
  BY <1>8
<1>10. U = States(r, w)
  BY DEF States, Body
<1> HIDE DEF U
<1>11. U[0] = b
  BY <1>7, <1>9
<1>12. \A n \in 1..Len(w) : U[n] = Moved(r, w, n, U[n - 1])
  BY <1>4, <1>6, <1>9
<1>13. \A n \in 0..Len(w) : U[n] \subseteq Pairs
  <2> DEFINE T == {n \in 0..Len(w) : U[n] \subseteq Pairs}
  <2>1. 0 \in T
    BY <1>1, <1>11
  <2>2. ASSUME NEW n \in T, n < Len(w) PROVE n + 1 \in T
    <3>1. n + 1 \in 1..Len(w) /\ (n + 1) - 1 = n
      BY <2>2
    <3>2. U[n + 1] = Moved(r, w, n + 1, U[n])
      BY <1>12, <3>1
    <3>3. \A s \in U[n] : Transitions(r, s, w[n + 1]) \subseteq Pairs
      BY MovesAreStates
    <3> QED
      BY <3>1, <3>2, <3>3 DEF Moved
  <2>3. T = 0..Len(w)
    <3> HIDE DEF T
    <3> T \in SUBSET (0..Len(w))
      BY DEF T
    <3> QED
      BY <2>1, <2>2, UpTo
  <2> QED
    BY <2>3
<1> QED
  BY <1>10, <1>11, <1>12, <1>13

-------------------------------------------------------------------------------
(* The first i letters and stars of the pattern stand for the first n      *)
(* letters of the name.                                                    *)
Placed(p, w, i, n) ==
    \E cut \in [0..i -> 0..Len(w)] :
        /\ cut[0] = 0 /\ cut[i] = n
        /\ \A k \in 1..i :
              IF p[k] = Star THEN cut[k - 1] <= cut[k]
              ELSE cut[k] = cut[k - 1] + 1 /\ w[cut[k]] = p[k]

LEMMA PlacedStart ==
    ASSUME NEW p, NEW w, Len(w) \in Nat, NEW n
    PROVE  Placed(p, w, 0, n) <=> n = 0
<1>1. ASSUME n = 0 PROVE Placed(p, w, 0, n)
  <2> DEFINE cut == [k \in 0..0 |-> 0]
  <2>1. cut \in [0..0 -> 0..Len(w)] /\ cut[0] = 0 /\ \A k \in 1..0 : FALSE
    OBVIOUS
  <2> HIDE DEF cut
  <2> QED
    BY <1>1, <2>1 DEF Placed
<1> QED
  BY <1>1 DEF Placed

LEMMA PlacedBound ==
    ASSUME NEW p, NEW w, Len(w) \in Nat, NEW i \in Nat, NEW n, Placed(p, w, i, n)
    PROVE  n \in 0..Len(w)
<1>1. i \in 0..i
  OBVIOUS
<1> QED
  BY <1>1 DEF Placed

(* A letter stands for itself.                                             *)
LEMMA PlacedLetter ==
    ASSUME NEW p, NEW w, Len(w) \in Nat, NEW i \in Nat, NEW n \in 0..Len(w), p[i + 1] # Star
    PROVE  Placed(p, w, i + 1, n) <=> n > 0 /\ w[n] = p[i + 1] /\ Placed(p, w, i, n - 1)
<1>1. ASSUME Placed(p, w, i + 1, n)
      PROVE  n > 0 /\ w[n] = p[i + 1] /\ Placed(p, w, i, n - 1)
  <2>1. PICK cut \in [0..(i + 1) -> 0..Len(w)] :
           /\ cut[0] = 0 /\ cut[i + 1] = n
           /\ \A k \in 1..(i + 1) :
                 IF p[k] = Star THEN cut[k - 1] <= cut[k]
                 ELSE cut[k] = cut[k - 1] + 1 /\ w[cut[k]] = p[k]
    BY <1>1 DEF Placed
  <2>2. i + 1 \in 1..(i + 1) /\ i + 1 - 1 = i /\ i \in 0..(i + 1)
    OBVIOUS
  <2>3. n = cut[i] + 1 /\ w[n] = p[i + 1] /\ cut[i] \in 0..Len(w)
    BY <2>1, <2>2
  <2> DEFINE short == [k \in 0..i |-> cut[k]]
  <2>4. short \in [0..i -> 0..Len(w)] /\ short[0] = 0 /\ short[i] = n - 1
    BY <2>1, <2>3
  <2>5. ASSUME NEW k \in 1..i
        PROVE IF p[k] = Star THEN short[k - 1] <= short[k]
              ELSE short[k] = short[k - 1] + 1 /\ w[short[k]] = p[k]
    <3>1. short[k] = cut[k] /\ short[k - 1] = cut[k - 1] /\ k \in 1..(i + 1)
      OBVIOUS
    <3> QED
      BY <2>1, <3>1
  <2>6. Placed(p, w, i, n - 1)
    <3> HIDE DEF short
    <3> QED
      BY <2>4, <2>5 DEF Placed
  <2> QED
    BY <2>3, <2>6
<1>2. ASSUME n > 0, w[n] = p[i + 1], Placed(p, w, i, n - 1)
      PROVE  Placed(p, w, i + 1, n)
  <2>1. PICK cut \in [0..i -> 0..Len(w)] :
           /\ cut[0] = 0 /\ cut[i] = n - 1
           /\ \A k \in 1..i :
                 IF p[k] = Star THEN cut[k - 1] <= cut[k]
                 ELSE cut[k] = cut[k - 1] + 1 /\ w[cut[k]] = p[k]
    BY <1>2 DEF Placed
  <2> DEFINE long == [k \in 0..(i + 1) |-> IF k <= i THEN cut[k] ELSE n]
  <2>2. long \in [0..(i + 1) -> 0..Len(w)] /\ long[0] = 0 /\ long[i + 1] = n /\ long[i] = n - 1
    BY <2>1
  <2>3. ASSUME NEW k \in 1..(i + 1)
        PROVE IF p[k] = Star THEN long[k - 1] <= long[k]
              ELSE long[k] = long[k - 1] + 1 /\ w[long[k]] = p[k]
    <3>1. CASE k = i + 1
      <4>1. k - 1 = i /\ long[k] = n /\ long[k - 1] = n - 1
        BY <2>2, <3>1
      <4> HIDE DEF long
      <4> QED
        BY <1>2, <3>1, <4>1
    <3>2. CASE k \in 1..i
      <4>1. long[k] = cut[k] /\ long[k - 1] = cut[k - 1]
        BY <3>2
      <4> HIDE DEF long
      <4> QED
        BY <2>1, <3>2, <4>1
    <3> QED
      BY <3>1, <3>2
  <2> HIDE DEF long
  <2> QED
    BY <2>2, <2>3 DEF Placed
<1> QED
  BY <1>1, <1>2

(* A star stands for nothing, or for one letter more.                      *)
LEMMA PlacedStar ==
    ASSUME NEW p, NEW w, Len(w) \in Nat, NEW i \in Nat, NEW n \in 0..Len(w), p[i + 1] = Star
    PROVE  Placed(p, w, i + 1, n) <=>
              Placed(p, w, i, n) \/ (n > 0 /\ Placed(p, w, i + 1, n - 1))
<1> DEFINE Fits(cut, k) == IF p[k] = Star THEN cut[k - 1] <= cut[k]
                           ELSE cut[k] = cut[k - 1] + 1 /\ w[cut[k]] = p[k]
<1>1. ASSUME NEW e \in 0..Len(w), NEW m \in 0..e, Placed(p, w, i, m)
      PROVE  Placed(p, w, i + 1, e)
  <2>1. PICK cut \in [0..i -> 0..Len(w)] : cut[0] = 0 /\ cut[i] = m /\ \A k \in 1..i : Fits(cut, k)
    BY <1>1 DEF Placed
  <2> DEFINE long == [k \in 0..(i + 1) |-> IF k <= i THEN cut[k] ELSE e]
  <2>2. long \in [0..(i + 1) -> 0..Len(w)] /\ long[0] = 0 /\ long[i + 1] = e /\ long[i] = m
    BY <2>1
  <2>3. ASSUME NEW k \in 1..(i + 1) PROVE Fits(long, k)
    <3>1. CASE k = i + 1
      <4>1. k - 1 = i /\ long[k] = e /\ long[k - 1] = m /\ m <= e
        BY <2>2, <3>1
      <4> HIDE DEF long
      <4> QED
        BY <3>1, <4>1
    <3>2. CASE k \in 1..i
      <4>1. long[k] = cut[k] /\ long[k - 1] = cut[k - 1]
        BY <3>2
      <4> HIDE DEF long
      <4> QED
        BY <2>1, <3>2, <4>1
    <3> QED
      BY <3>1, <3>2
  <2> HIDE DEF long
  <2> QED
    BY <2>2, <2>3 DEF Placed
<1>2. ASSUME NEW m \in 0..Len(w), Placed(p, w, i + 1, m)
      PROVE  \E j \in 0..m : Placed(p, w, i, j)
  <2>1. PICK cut \in [0..(i + 1) -> 0..Len(w)] :
           cut[0] = 0 /\ cut[i + 1] = m /\ \A k \in 1..(i + 1) : Fits(cut, k)
    BY <1>2 DEF Placed
  <2>2. i + 1 \in 1..(i + 1) /\ i + 1 - 1 = i /\ i \in 0..(i + 1)
    OBVIOUS
  <2>3. cut[i] \in 0..m
    BY <2>1, <2>2
  <2> DEFINE short == [k \in 0..i |-> cut[k]]
  <2>4. short \in [0..i -> 0..Len(w)] /\ short[0] = 0 /\ short[i] = cut[i]
    BY <2>1
  <2>5. ASSUME NEW k \in 1..i PROVE Fits(short, k)
    <3>1. short[k] = cut[k] /\ short[k - 1] = cut[k - 1] /\ k \in 1..(i + 1)
      OBVIOUS
    <3> HIDE DEF short
    <3> QED
      BY <2>1, <3>1
  <2>6. Placed(p, w, i, cut[i])
    <3> HIDE DEF short
    <3> QED
      BY <2>4, <2>5 DEF Placed
  <2> QED
    BY <2>3, <2>6
<1> HIDE DEF Fits
<1>3. ASSUME Placed(p, w, i + 1, n), ~Placed(p, w, i, n)
      PROVE  n > 0 /\ Placed(p, w, i + 1, n - 1)
  <2>1. PICK j \in 0..n : Placed(p, w, i, j)
    BY <1>2, <1>3
  <2>2. j # n
    BY <1>3, <2>1
  <2>3. n > 0 /\ n - 1 \in 0..Len(w) /\ j \in 0..(n - 1)
    BY <2>2
  <2>4. Placed(p, w, i + 1, n - 1)
    BY <1>1, <2>1, <2>3
  <2> QED
    BY <2>3, <2>4
<1>4. ASSUME n > 0, Placed(p, w, i + 1, n - 1)
      PROVE  Placed(p, w, i + 1, n)
  <2>1. n - 1 \in 0..Len(w)
    BY <1>4
  <2>2. PICK j \in 0..(n - 1) : Placed(p, w, i, j)
    BY <1>2, <1>4, <2>1
  <2>3. j \in 0..n
    BY <1>4
  <2> QED
    BY <1>1, <2>2, <2>3
<1>5. Placed(p, w, i, n) => Placed(p, w, i + 1, n)
  <2>1. n \in 0..n
    OBVIOUS
  <2> QED
    BY <1>1, <2>1
<1> QED
  BY <1>3, <1>4, <1>5

-------------------------------------------------------------------------------
(* The states after n letters are those of the beginnings of the pattern   *)
(* that can stand for them; so a pattern matches the names it covers.      *)
StatesOf(p, w, n) == {State(p, i) : i \in {j \in 0..Len(p) : Placed(p, w, j, n)}}

(* Of the beginnings that a state belongs to, a star never follows the     *)
(* longest one, and the shortest one does not end with a star.             *)
LEMMA LongestBeginning ==
    ASSUME NEW p \in Seq(Letters \cup {Star}), NEW w, Len(w) \in Nat, NEW n \in 0..Len(w),
           NEW i \in 0..Len(p), Placed(p, w, i, n)
    PROVE  \E k \in 0..Len(p) :
              /\ State(p, k) = State(p, i) /\ Placed(p, w, k, n)
              /\ k < Len(p) => p[k + 1] # Star
<1> DEFINE T == {k \in 0..Len(p) : State(p, k) = State(p, i) /\ Placed(p, w, k, n)}
<1>1. Len(p) \in Nat
  OBVIOUS
<1>2. PICK k \in T : \A j \in T : j <= k
  <2>1. T \in SUBSET (0..Len(p)) /\ T # {}
    OBVIOUS
  <2> HIDE DEF T
  <2> QED
    BY <1>1, <2>1, GreatestNat
<1>3. ASSUME k < Len(p), p[k + 1] = Star PROVE FALSE
  <2>1. k \in Nat /\ k + 1 \in 0..Len(p) /\ k \in 0..Len(p)
    BY <1>1, <1>3
  <2>2. State(p, k + 1) = State(p, k)
    BY <1>3, <2>1, StateOfStar
  <2>3. Placed(p, w, k + 1, n)
    BY <1>2, <1>3, <2>1, PlacedStar
  <2>4. k + 1 \in T
    BY <1>2, <2>1, <2>2, <2>3
  <2> QED
    BY <1>2, <2>1, <2>4
<1> QED
  BY <1>2, <1>3

LEMMA ShortestBeginning ==
    ASSUME NEW p \in Seq(Letters \cup {Star}), NEW w, Len(w) \in Nat, NEW n \in 0..Len(w),
           NEW i \in 0..Len(p), Placed(p, w, i, n)
    PROVE  \E k \in 0..Len(p) :
              /\ State(p, k) = State(p, i) /\ Placed(p, w, k, n)
              /\ AfterStar(p, k) => ~Placed(p, w, k - 1, n)
<1> DEFINE T == {k \in 0..Len(p) : State(p, k) = State(p, i) /\ Placed(p, w, k, n)}
<1>1. Len(p) \in Nat
  OBVIOUS
<1>2. PICK k \in T : \A j \in T : k <= j
  <2>1. T \in SUBSET Nat /\ T # {}
    BY <1>1
  <2> HIDE DEF T
  <2> QED
    BY <2>1, LeastNat
<1>3. ASSUME AfterStar(p, k), Placed(p, w, k - 1, n) PROVE FALSE
  <2>1. k - 1 \in 0..Len(p) /\ k - 1 < Len(p) /\ p[(k - 1) + 1] = Star /\ (k - 1) + 1 = k /\ k \in Nat
    BY <1>1, <1>3 DEF AfterStar
  <2>2. State(p, k) = State(p, k - 1)
    BY <2>1, StateOfStar
  <2>3. k - 1 \in T
    BY <1>2, <1>3, <2>1, <2>2
  <2> QED
    BY <1>2, <2>1, <2>3
<1> QED
  BY <1>2, <1>3

LEMMA StatesStep ==
    ASSUME NEW p \in Seq(Letters \cup {Star}), NEW w, Len(w) \in Nat, NEW n \in 0..Len(w), n < Len(w)
    PROVE  Moved(Segments(p), w, n + 1, StatesOf(p, w, n)) = StatesOf(p, w, n + 1)
<1> DEFINE r == Segments(p)
           c == w[n + 1]
<1>1. Len(p) \in Nat /\ n + 1 \in 0..Len(w) /\ n + 1 > 0 /\ (n + 1) - 1 = n
  OBVIOUS
<1>2. ASSUME NEW s \in StatesOf(p, w, n), NEW t \in Transitions(r, s, c)
      PROVE  t \in StatesOf(p, w, n + 1)
  <2>1. PICK i \in 0..Len(p) : s = State(p, i) /\ Placed(p, w, i, n)
    BY DEF StatesOf
  <2>2. PICK k \in 0..Len(p) :
           /\ State(p, k) = s /\ Placed(p, w, k, n)
           /\ k < Len(p) => p[k + 1] # Star
    BY <1>1, <2>1, LongestBeginning
  <2>3. Transitions(r, s, c) = {u \in {s} : AfterStar(p, k)}
                               \cup {u \in {State(p, k + 1)} : k < Len(p) /\ p[k + 1] = c}
    BY <2>2, MoveFromState
  <2>4. CASE t = s /\ AfterStar(p, k)
    <3>1. k - 1 \in Nat /\ (k - 1) + 1 = k /\ p[k] = Star
      BY <1>1, <2>4 DEF AfterStar
    <3>2. Placed(p, w, k, n + 1)
      BY <1>1, <2>2, <3>1, PlacedStar
    <3> QED
      BY <2>2, <2>4, <3>2 DEF StatesOf
  <2>5. CASE t = State(p, k + 1) /\ k < Len(p) /\ p[k + 1] = c
    <3>1. k \in Nat /\ k + 1 \in 0..Len(p) /\ p[k + 1] # Star
      BY <1>1, <2>2, <2>5
    <3>2. Placed(p, w, k + 1, n + 1)
      BY <1>1, <2>2, <2>5, <3>1, PlacedLetter
    <3> QED
      BY <2>5, <3>1, <3>2 DEF StatesOf
  <2> QED
    BY <2>3, <2>4, <2>5
<1>3. ASSUME NEW t \in StatesOf(p, w, n + 1)
      PROVE  \E s \in StatesOf(p, w, n) : t \in Transitions(r, s, c)
  <2>1. PICK i \in 0..Len(p) : t = State(p, i) /\ Placed(p, w, i, n + 1)
    BY DEF StatesOf
  <2>2. PICK k \in 0..Len(p) :
           /\ State(p, k) = t /\ Placed(p, w, k, n + 1)
           /\ AfterStar(p, k) => ~Placed(p, w, k - 1, n + 1)
    BY <1>1, <2>1, ShortestBeginning
  <2>3. k # 0
    BY <1>1, <2>2, PlacedStart
  <2>4. k - 1 \in Nat /\ k - 1 \in 0..Len(p) /\ k - 1 < Len(p) /\ (k - 1) + 1 = k
    BY <1>1, <2>3
  <2>5. CASE p[k] = Star
    <3>1. AfterStar(p, k)
      BY <2>3, <2>5 DEF AfterStar
    <3>2. Placed(p, w, k, n)
      BY <1>1, <2>2, <2>4, <2>5, <3>1, PlacedStar
    <3>3. t \in StatesOf(p, w, n)
      BY <2>2, <3>2 DEF StatesOf
    <3>4. PICK m \in 0..Len(p) :
             /\ State(p, m) = t /\ Placed(p, w, m, n)
             /\ m < Len(p) => p[m + 1] # Star
      BY <1>1, <2>2, <3>2, LongestBeginning
    <3>5. t \in Transitions(r, t, c)
      <4>1. t[2] = Len(r[t[1]]) /\ t[1] < Len(r) /\ ~(t[2] < Len(r[t[1]]))
        <5>1. /\ r \in Pieces /\ t[1] \in 1..Len(r) /\ t[2] \in 0..Len(r[t[1]])
              /\ t[1] < Len(r) /\ t[2] = Len(r[t[1]])
          BY <2>2, <3>1, StateBounds
        <5>2. Len(r[t[1]]) \in Nat
          BY <5>1, PiecesFacts
        <5> HIDE DEF r
        <5> QED
          BY <5>1, <5>2
      <4> HIDE DEF r, c
      <4> QED
        BY <4>1 DEF Transitions
    <3> QED
      BY <3>3, <3>5
  <2>6. CASE p[k] # Star
    <3>1. w[n + 1] = p[k] /\ Placed(p, w, k - 1, n)
      BY <1>1, <2>2, <2>4, <2>6, PlacedLetter
    <3>2. State(p, k - 1) \in StatesOf(p, w, n)
      BY <2>4, <3>1 DEF StatesOf
    <3>3. t \in Transitions(r, State(p, k - 1), c)
      BY <2>2, <2>4, <2>6, <3>1, MoveFromState
    <3> QED
      BY <3>2, <3>3
  <2> QED
    BY <2>5, <2>6
<1> HIDE DEF r, c
<1>4. Moved(r, w, n + 1, StatesOf(p, w, n)) = UNION {Transitions(r, s, c) : s \in StatesOf(p, w, n)}
  BY DEF Moved, c
<1> QED
  BY <1>2, <1>3, <1>4 DEF r

LEMMA StatesAreStatesOf ==
    ASSUME NEW p \in Seq(Letters \cup {Star}), NEW w, Len(w) \in Nat
    PROVE  \A n \in 0..Len(w) : States(Segments(p), w)[n] = StatesOf(p, w, n)
<1> DEFINE r == Segments(p)
           T == {n \in 0..Len(w) : States(r, w)[n] = StatesOf(p, w, n)}
<1>1. Len(p) \in Nat
  OBVIOUS
<1>2. 0 \in T
  <2>1. States(r, w)[0] = {Start}
    BY StatesRecursion
  <2>2. State(p, 0) = Start
    <3>1. ~AfterStar(p, 0)
      BY DEF AfterStar
    <3>2. SegmentsUpTo(p)[0] = << << >> >>
      BY SegmentsRecursion
    <3>3. Len(<< << >> >>) = 1 /\ Len((<< << >> >>)[1]) = 0
      OBVIOUS
    <3> QED
      BY <3>1, <3>2, <3>3 DEF State, Start
  <2>3. ASSUME NEW i \in 0..Len(p), Placed(p, w, i, 0) PROVE State(p, i) = Start
    <3>1. PICK k \in 0..Len(p) :
             /\ State(p, k) = State(p, i) /\ Placed(p, w, k, 0)
             /\ AfterStar(p, k) => ~Placed(p, w, k - 1, 0)
      BY <2>3, ShortestBeginning
    <3>2. k = 0
      <4>1. SUFFICES ASSUME k # 0 PROVE FALSE
        OBVIOUS
      <4>2. k - 1 \in Nat /\ (k - 1) + 1 = k /\ 0 \in 0..Len(w)
        BY <1>1, <4>1
      <4>3. p[k] = Star
        BY <3>1, <4>2, PlacedLetter
      <4>4. AfterStar(p, k)
        BY <1>1, <4>1, <4>3 DEF AfterStar
      <4> QED
        BY <3>1, <4>2, <4>3, <4>4, PlacedStar
    <3> QED
      BY <2>2, <3>1, <3>2
  <2>4. StatesOf(p, w, 0) = {Start}
    <3>1. Placed(p, w, 0, 0) /\ 0 \in 0..Len(p)
      BY <1>1, PlacedStart
    <3> QED
      BY <2>2, <2>3, <3>1 DEF StatesOf
  <2>5. 0 \in 0..Len(w)
    OBVIOUS
  <2> HIDE DEF r
  <2> QED
    BY <2>1, <2>4, <2>5
<1>3. ASSUME NEW n \in T, n < Len(w) PROVE n + 1 \in T
  <2>1. n \in 0..Len(w) /\ n + 1 \in 1..Len(w) /\ (n + 1) - 1 = n /\ n + 1 \in 0..Len(w)
    BY <1>3
  <2>2. States(r, w)[n + 1] = Moved(r, w, n + 1, States(r, w)[n])
    BY <2>1, StatesRecursion
  <2> QED
    BY <1>3, <2>1, <2>2, StatesStep
<1>4. T = 0..Len(w)
  <2>1. T \in SUBSET (0..Len(w))
    OBVIOUS
  <2> HIDE DEF T
  <2> QED
    BY <1>2, <1>3, <2>1, UpTo
<1> QED
  BY <1>4

LEMMA MatchesWhatItCovers ==
    ASSUME NEW p \in Seq(Letters \cup {Star}), NEW w, Len(w) \in Nat
    PROVE  Matches(p, w) <=> Placed(p, w, Len(p), Len(w))
<1>1. Len(p) \in Nat /\ Len(w) \in 0..Len(w) /\ Len(p) \in 0..Len(p)
  OBVIOUS
<1>2. Matches(p, w) <=> \E s \in StatesOf(p, w, Len(w)) : AcceptsState(Segments(p), s)
  BY <1>1, StatesAreStatesOf DEF Matches
<1>3. ASSUME NEW s \in StatesOf(p, w, Len(w)), AcceptsState(Segments(p), s)
      PROVE  Placed(p, w, Len(p), Len(w))
  <2>1. PICK i \in 0..Len(p) : s = State(p, i) /\ Placed(p, w, i, Len(w))
    BY DEF StatesOf
  <2>2. PICK k \in 0..Len(p) :
           /\ State(p, k) = s /\ Placed(p, w, k, Len(w))
           /\ k < Len(p) => p[k + 1] # Star
    BY <1>1, <2>1, LongestBeginning
  <2>3. k = Len(p)
    BY <1>3, <2>2, MoveFromState
  <2> QED
    BY <2>2, <2>3
<1>4. ASSUME Placed(p, w, Len(p), Len(w))
      PROVE  \E s \in StatesOf(p, w, Len(w)) : AcceptsState(Segments(p), s)
  <2>1. State(p, Len(p)) \in StatesOf(p, w, Len(w))
    BY <1>1, <1>4 DEF StatesOf
  <2>2. AcceptsState(Segments(p), State(p, Len(p)))
    BY <1>1, MoveFromState
  <2> QED
    BY <2>1, <2>2
<1> QED
  BY <1>2, <1>3, <1>4

-------------------------------------------------------------------------------
(* The boot check: the pairs of states in which the two patterns can be    *)
(* after the same name, of letters that a pattern may contain.             *)
Words == Seq(Letters \cup {Foreign})
Reads(p, w) == States(Segments(p), w)[Len(w)]
Reached(p, q, u) == \E w \in Seq(Letters) : u[1] \in Reads(p, w) /\ u[2] \in Reads(q, w)
Sharing(p, q) == \E w \in Seq(Letters) : Matches(p, w) /\ Matches(q, w)
Disjoint(p, q) == \A w \in Words : ~(Matches(p, w) /\ Matches(q, w))

Successors(u) ==
    UNION {Transitions(Compiled(1), u[1], c) \X Transitions(Compiled(2), u[2], c) : c \in Letters}
Seen == visited \cup queue
Before(i, j) == i < pair[1] \/ (i = pair[1] /\ j < pair[2])

(* What has been seen is reached, what has been expanded accepts no name   *)
(* and leads to what has been seen, and the pairs of rules that were       *)
(* compared before share no name at all.                                   *)
Searching ==
    /\ pair \in (Nat \ {0}) \X (Nat \ {0})
    /\ \A i, j \in DOMAIN rules : i < j /\ Before(i, j) => Disjoint(rules[i], rules[j])
    /\ IF Seen = {} THEN pair = <<1, 1>>
       ELSE /\ pair[1] < pair[2] /\ pair[2] <= Len(rules)
            /\ <<Start, Start>> \in Seen
            /\ \A u \in Seen : Reached(rules[pair[1]], rules[pair[2]], u)
            /\ \A u \in visited : ~Both(u) /\ Successors(u) \subseteq Seen

Booted ==
    /\ rules \in Seq(Patterns) /\ Len(rules) <= MaxRules
    /\ boot \in {"check", "accepted", "refused"}
    /\ boot = "check" => Searching
    /\ boot = "refused" => \E i, j \in DOMAIN rules : i # j /\ Sharing(rules[i], rules[j])
    /\ boot = "accepted" => \A i, j \in DOMAIN rules : i # j => Disjoint(rules[i], rules[j])

(* The request, by the table that was accepted.                            *)
Looked ==
    /\ req.pc \in {"none", "forwarded", "refused"} /\ req.body \in Bodies
    /\ req.rewritten \in BOOLEAN /\ req.target \in 0..Len(rules)
    /\ req.pc # "none" => boot = "accepted"
    /\ req.model # NoName =>
          boot = "accepted" /\ req.model \in Names /\ req.target = Lookup(req.model)

LEMMA PatternFacts ==
    ASSUME NEW p \in Patterns
    PROVE  p \in Seq(Letters \cup {Star}) /\ Len(p) \in Nat
BY AliasAssumption

LEMMA RuleFacts ==
    ASSUME rules \in Seq(Patterns)
    PROVE  /\ Len(rules) \in Nat /\ DOMAIN rules = 1..Len(rules)
           /\ \A i \in DOMAIN rules : rules[i] \in Patterns /\ rules[i] \in Seq(Letters \cup {Star})
BY PatternFacts

(* A longer name is read from where the shorter one has led.               *)
LEMMA ReadsLonger ==
    ASSUME NEW r, NEW w \in Seq(Letters), NEW c \in Letters
    PROVE  LET v == Append(w, c)
           IN States(r, v)[Len(v)] = UNION {Transitions(r, s, c) : s \in States(r, w)[Len(w)]}
<1> DEFINE v == Append(w, c)
           T == {n \in 0..Len(w) : States(r, v)[n] = States(r, w)[n]}
<1>1. /\ Len(w) \in Nat /\ Len(v) = Len(w) + 1 /\ Len(v) \in Nat /\ v[Len(v)] = c
      /\ \A n \in 1..Len(w) : v[n] = w[n]
  OBVIOUS
<1> HIDE DEF v
<1>2. /\ States(r, w)[0] = {Start} /\ States(r, v)[0] = {Start}
      /\ \A n \in 1..Len(w) : States(r, w)[n] = Moved(r, w, n, States(r, w)[n - 1])
      /\ \A n \in 1..Len(v) : States(r, v)[n] = Moved(r, v, n, States(r, v)[n - 1])
  BY <1>1, StatesRecursion
<1>3. 0 \in T
  <2>1. 0 \in 0..Len(w)
    BY <1>1
  <2> QED
    BY <1>2, <2>1
<1>4. ASSUME NEW n \in T, n < Len(w) PROVE n + 1 \in T
  <2>1. n + 1 \in 1..Len(w) /\ n + 1 \in 1..Len(v) /\ (n + 1) - 1 = n /\ n + 1 \in 0..Len(w)
    BY <1>1, <1>4
  <2>2. States(r, w)[n + 1] = Moved(r, w, n + 1, States(r, w)[n])
    BY <1>2, <2>1
  <2>3. States(r, v)[n + 1] = Moved(r, v, n + 1, States(r, v)[n])
    BY <1>2, <2>1
  <2>4. v[n + 1] = w[n + 1]
    BY <1>1, <2>1
  <2> QED
    BY <2>1, <2>2, <2>3, <2>4 DEF Moved
<1>5. T = 0..Len(w)
  <2>1. T \in SUBSET (0..Len(w))
    OBVIOUS
  <2> HIDE DEF T
  <2> QED
    BY <1>1, <1>3, <1>4, <2>1, UpTo
<1>6. States(r, v)[Len(w)] = States(r, w)[Len(w)]
  BY <1>1, <1>5
<1>7. Len(v) \in 1..Len(v) /\ Len(v) - 1 = Len(w)
  BY <1>1
<1> QED
  BY <1>1, <1>2, <1>6, <1>7 DEF Moved, v

LEMMA ReachedByOneMore ==
    ASSUME NEW p, NEW q, NEW u, Reached(p, q, u), NEW c \in Letters,
           NEW v \in Transitions(Segments(p), u[1], c) \X Transitions(Segments(q), u[2], c)
    PROVE  Reached(p, q, v)
<1>1. PICK w \in Seq(Letters) : u[1] \in Reads(p, w) /\ u[2] \in Reads(q, w)
  BY DEF Reached
<1>2. Append(w, c) \in Seq(Letters)
  OBVIOUS
<1>3. /\ v[1] \in Transitions(Segments(p), u[1], c)
      /\ v[2] \in Transitions(Segments(q), u[2], c)
  OBVIOUS
<1>4. v[1] \in Reads(p, Append(w, c))
  BY <1>1, <1>3, ReadsLonger DEF Reads
<1>5. v[2] \in Reads(q, Append(w, c))
  BY <1>1, <1>3, ReadsLonger DEF Reads
<1> QED
  BY <1>2, <1>4, <1>5 DEF Reached

LEMMA StartReached ==
    ASSUME NEW p, NEW q
    PROVE  Reached(p, q, <<Start, Start>>)
<1>1. << >> \in Seq(Letters) /\ Len(<< >>) = 0
  OBVIOUS
<1>2. \A r : States(r, << >>)[0] = {Start}
  BY <1>1, StatesRecursion
<1> QED
  BY <1>1, <1>2 DEF Reached, Reads

(* A letter that no pattern contains moves no automaton.                   *)
LEMMA ForeignStays ==
    ASSUME NEW p \in Seq(Letters \cup {Star}), NEW s, NEW t \in Transitions(Segments(p), s, Foreign),
           s[1] \in 1..Len(Segments(p)), s[2] \in Nat
    PROVE  t = s
<1> DEFINE r == Segments(p)
<1>1. r \in Pieces
  <2>1. 0 \in 0..Len(p)
    OBVIOUS
  <2> QED
    BY <2>1, StateBounds
<1>2. Foreign \notin Letters
  BY PathAssumption
<1>3. /\ Len(r) \in Nat /\ Len(r[s[1]]) \in Nat
      /\ \A k \in 1..Len(r) : \A j \in 1..Len(r[k]) : r[k][j] \in Letters
  <2> HIDE DEF r
  <2> QED
    BY <1>1, PiecesFacts
<1> HIDE DEF r
<1>4. CASE s[2] < Len(r[s[1]])
  <2>1. s[2] + 1 \in 1..Len(r[s[1]])
    BY <1>3, <1>4
  <2>2. r[s[1]][s[2] + 1] # Foreign
    BY <1>2, <1>3, <2>1 DEF r
  <2> QED
    BY <1>4, <2>2 DEF Transitions, r
<1>5. CASE ~(s[2] < Len(r[s[1]])) /\ s[2] = Len(r[s[1]]) /\ s[1] < Len(r)
  <2>1. s[1] + 1 \in 1..Len(r)
    BY <1>3, <1>5 DEF r
  <2>2. r[s[1] + 1] # << >> => r[s[1] + 1][1] # Foreign
    <3>1. r[s[1] + 1] \in Seq(Letters)
      BY <1>1, <2>1, PiecesFacts
    <3> QED
      BY <1>2, <3>1
  <2> QED
    BY <1>5, <2>2 DEF Transitions, r
<1>6. CASE ~(s[2] < Len(r[s[1]])) /\ ~(s[2] = Len(r[s[1]]) /\ s[1] < Len(r))
  BY <1>6 DEF Transitions, r
<1> QED
  BY <1>4, <1>5, <1>6

LEMMA StateOfReading ==
    ASSUME NEW p \in Seq(Letters \cup {Star}), NEW w, Len(w) \in Nat, NEW n \in 0..Len(w),
           NEW s \in States(Segments(p), w)[n]
    PROVE  s[1] \in 1..Len(Segments(p)) /\ s[2] \in Nat
<1>1. s \in StatesOf(p, w, n)
  BY StatesAreStatesOf
<1>2. PICK i \in 0..Len(p) : s = State(p, i)
  BY <1>1 DEF StatesOf
<1>3. /\ Segments(p) \in Pieces /\ s[1] \in 1..Len(Segments(p))
      /\ s[2] \in 0..Len(Segments(p)[s[1]])
  BY <1>2, StateBounds
<1>4. Len(Segments(p)[s[1]]) \in Nat
  BY <1>3, PiecesFacts
<1> QED
  BY <1>3, <1>4

(* When there is nothing left to expand, no name leads both automata to    *)
(* states that accept it: all pairs of states they can be in were seen.    *)
LEMMA NothingShared ==
    ASSUME rules \in Seq(Patterns), Searching, queue = {}, visited # {}
    PROVE  Disjoint(rules[pair[1]], rules[pair[2]])
<1> DEFINE p == rules[pair[1]]
           q == rules[pair[2]]
<1>1. /\ pair[1] \in DOMAIN rules /\ pair[2] \in DOMAIN rules
      /\ <<Start, Start>> \in visited
      /\ \A u \in visited : ~Both(u) /\ Successors(u) \subseteq visited
  <2>1. Seen = visited /\ Seen # {}
    BY DEF Seen
  <2>2. pair \in (Nat \ {0}) \X (Nat \ {0}) /\ pair[1] < pair[2] /\ pair[2] <= Len(rules)
    BY <2>1 DEF Searching
  <2>3. pair[1] \in Nat \ {0} /\ pair[2] \in Nat \ {0}
    BY <2>2
  <2>4. pair[1] \in 1..Len(rules) /\ pair[2] \in 1..Len(rules)
    BY <2>2, <2>3, RuleFacts
  <2> QED
    BY <2>1, <2>4, RuleFacts DEF Searching
<1>2. p \in Seq(Letters \cup {Star}) /\ q \in Seq(Letters \cup {Star})
  BY <1>1, RuleFacts
<1>3. Compiled(1) = Segments(p) /\ Compiled(2) = Segments(q)
  BY DEF Compiled
<1> HIDE DEF p, q
<1>4. SUFFICES ASSUME NEW w \in Words, Matches(p, w), Matches(q, w) PROVE FALSE
  BY DEF Disjoint, p, q
<1> DEFINE A(n) == States(Segments(p), w)[n]
           B(n) == States(Segments(q), w)[n]
           T == {n \in 0..Len(w) : \A a \in A(n), b \in B(n) : <<a, b>> \in visited}
<1>5. Len(w) \in Nat /\ \A n \in 1..Len(w) : w[n] \in Letters \cup {Foreign}
  BY <1>4 DEF Words
<1>6. 0 \in T
  <2>1. A(0) = {Start} /\ B(0) = {Start} /\ 0 \in 0..Len(w)
    BY <1>5, StatesRecursion
  <2> HIDE DEF A, B
  <2> QED
    BY <1>1, <2>1
<1>7. ASSUME NEW n \in T, n < Len(w) PROVE n + 1 \in T
  <2>1. n \in 0..Len(w) /\ n + 1 \in 1..Len(w) /\ (n + 1) - 1 = n /\ n + 1 \in 0..Len(w)
    BY <1>5, <1>7
  <2>2. /\ A(n + 1) = Moved(Segments(p), w, n + 1, A(n))
        /\ B(n + 1) = Moved(Segments(q), w, n + 1, B(n))
    BY <1>5, <2>1, StatesRecursion
  <2>3. ASSUME NEW a \in A(n + 1), NEW b \in B(n + 1) PROVE <<a, b>> \in visited
    <3>1. PICK x \in A(n) : a \in Transitions(Segments(p), x, w[n + 1])
      BY <2>2 DEF Moved
    <3>2. PICK y \in B(n) : b \in Transitions(Segments(q), y, w[n + 1])
      BY <2>2 DEF Moved
    <3>3. <<x, y>> \in visited
      BY <1>7
    <3>4. CASE w[n + 1] \in Letters
      <4> DEFINE u == <<x, y>>
      <4>1. u[1] = x /\ u[2] = y /\ u \in visited
        BY <3>3
      <4> HIDE DEF u
      <4>2. <<a, b>> \in Successors(u)
        BY <1>3, <3>1, <3>2, <3>4, <4>1 DEF Successors
      <4> QED
        BY <1>1, <4>1, <4>2
    <3>5. CASE w[n + 1] = Foreign
      <4>1. /\ x[1] \in 1..Len(Segments(p)) /\ x[2] \in Nat
            /\ y[1] \in 1..Len(Segments(q)) /\ y[2] \in Nat
        BY <1>2, <1>5, <2>1, StateOfReading
      <4>2. a = x
        BY <1>2, <3>1, <3>5, <4>1, ForeignStays
      <4>3. b = y
        BY <1>2, <3>2, <3>5, <4>1, ForeignStays
      <4> QED
        BY <3>3, <4>2, <4>3
    <3> QED
      BY <1>5, <2>1, <3>4, <3>5
  <2> QED
    BY <2>1, <2>3
<1>8. T = 0..Len(w)
  <2>1. T \in SUBSET (0..Len(w))
    OBVIOUS
  <2> HIDE DEF T
  <2> QED
    BY <1>5, <1>6, <1>7, <2>1, UpTo
<1>9. PICK a \in A(Len(w)) : AcceptsState(Segments(p), a)
  BY <1>4 DEF Matches
<1>10. PICK b \in B(Len(w)) : AcceptsState(Segments(q), b)
  BY <1>4 DEF Matches
<1>11. <<a, b>> \in visited
  <2>1. Len(w) \in T
    BY <1>5, <1>8
  <2> QED
    BY <2>1
<1>12. Both(<<a, b>>)
  BY <1>3, <1>9, <1>10 DEF Both
<1> QED
  BY <1>1, <1>11, <1>12

LEMMA RefusedForAReason ==
    ASSUME NEW p \in Seq(Letters \cup {Star}), NEW q \in Seq(Letters \cup {Star}), NEW u, Reached(p, q, u),
           AcceptsState(Segments(p), u[1]), AcceptsState(Segments(q), u[2])
    PROVE  Sharing(p, q)
<1>1. PICK w \in Seq(Letters) : u[1] \in Reads(p, w) /\ u[2] \in Reads(q, w)
  BY DEF Reached
<1>2. Matches(p, w) /\ Matches(q, w)
  BY <1>1 DEF Matches, Reads
<1> QED
  BY <1>2 DEF Sharing

LEMMA DisjointTurned ==
    ASSUME NEW p, NEW q
    PROVE  Disjoint(p, q) <=> Disjoint(q, p)
BY DEF Disjoint

LEMMA NextPairStep ==
    ASSUME Booted, NextPair
    PROVE  Booted'
<1> DEFINE n == Len(rules)
           i0 == pair[1]
           j0 == pair[2]
           next == IF pair[2] < Len(rules) THEN <<pair[1], pair[2] + 1>>
                                           ELSE <<pair[1] + 1, pair[1] + 2>>
<1>1. /\ boot = "check" /\ queue = {} /\ rules' = rules /\ rules \in Seq(Patterns) /\ Searching
      /\ Len(rules) <= MaxRules
  BY DEF Booted, NextPair
<1>2. n \in Nat /\ DOMAIN rules = 1..n
  BY <1>1, RuleFacts
<1>3. /\ pair \in (Nat \ {0}) \X (Nat \ {0}) /\ pair = <<i0, j0>>
      /\ i0 \in Nat \ {0} /\ j0 \in Nat \ {0}
  BY <1>1 DEF Searching
<1>4. i0 < j0 \/ (i0 = 1 /\ j0 = 1)
  <2>1. CASE Seen = {}
    BY <1>1, <2>1 DEF Searching
  <2>2. CASE Seen # {}
    BY <1>1, <2>2 DEF Searching
  <2> QED
    BY <2>1, <2>2
<1>5. i0 < j0 => Disjoint(rules[i0], rules[j0])
  <2>1. SUFFICES ASSUME i0 < j0 PROVE Disjoint(rules[i0], rules[j0])
    OBVIOUS
  <2>2. visited # {}
    <3>1. SUFFICES ASSUME visited = {} PROVE FALSE
      OBVIOUS
    <3>2. Seen = {}
      BY <1>1, <3>1 DEF Seen
    <3> QED
      BY <1>1, <1>3, <2>1, <3>2 DEF Searching
  <2> QED
    BY <1>1, <2>2, NothingShared
<1>6. \A i, j \in 1..n : i < j /\ (i < i0 \/ (i = i0 /\ j <= j0)) => Disjoint(rules[i], rules[j])
  <2> SUFFICES ASSUME NEW i \in 1..n, NEW j \in 1..n, i < j, i < i0 \/ (i = i0 /\ j <= j0)
               PROVE  Disjoint(rules[i], rules[j])
    OBVIOUS
  <2>1. CASE i = i0 /\ j = j0
    BY <1>5, <2>1
  <2>2. CASE Before(i, j)
    BY <1>1, <1>2, <2>2 DEF Searching
  <2> QED
    BY <1>2, <1>3, <2>1, <2>2 DEF Before
<1>7. /\ next \in (Nat \ {0}) \X (Nat \ {0}) /\ next[1] < next[2]
      /\ next = IF j0 < n THEN <<i0, j0 + 1>> ELSE <<i0 + 1, i0 + 2>>
  BY <1>2, <1>3, <1>4
<1>8. \A i, j \in 1..n : i < j /\ (i < next[1] \/ (i = next[1] /\ j < next[2])) =>
         i < i0 \/ (i = i0 /\ j <= j0)
  <2> HIDE DEF n, i0, j0, next
  <2>1. CASE j0 < n
    <3>1. next[1] = i0 /\ next[2] = j0 + 1
      BY <1>7, <2>1
    <3> QED
      BY <1>2, <1>3, <3>1
  <2>2. CASE ~(j0 < n)
    <3>1. next[1] = i0 + 1 /\ next[2] = i0 + 2
      BY <1>7, <2>2
    <3> QED
      BY <1>2, <1>3, <2>2, <3>1
  <2> QED
    BY <2>1, <2>2
<1>9. CASE next[2] <= n
  <2>1. /\ pair' = next /\ queue' = {<<Start, Start>>} /\ visited' = {} /\ boot' = "check"
    BY <1>1, <1>9 DEF NextPair
  <2>2. Searching'
    <3>1. Seen' = {<<Start, Start>>}
      BY <2>1 DEF Seen
    <3>2. \A i, j \in DOMAIN rules : i < j /\ Before(i, j)' => Disjoint(rules[i], rules[j])
      <4> HIDE DEF n, i0, j0, next
      <4>1. \A i, j : Before(i, j)' <=> i < next[1] \/ (i = next[1] /\ j < next[2])
        BY <2>1 DEF Before
      <4> QED
        BY <1>2, <1>6, <1>8, <4>1 DEF n
    <3>3. \A u \in Seen' : Reached(rules[next[1]], rules[next[2]], u)
      BY <3>1, StartReached
    <3> HIDE DEF next
    <3> QED
      BY <1>1, <1>7, <1>9, <2>1, <3>1, <3>2, <3>3 DEF Searching
  <2> QED
    BY <1>1, <2>1, <2>2 DEF Booted
<1>10. CASE ~(next[2] <= n)
  <2>1. boot' = "accepted"
    BY <1>1, <1>10 DEF NextPair
  <2>2. i0 + 2 > n
    BY <1>2, <1>3, <1>7, <1>10
  <2>3. ASSUME NEW i \in 1..n, NEW j \in 1..n, i < j PROVE Disjoint(rules[i], rules[j])
    <3>1. i < i0 \/ (i = i0 /\ j <= j0)
      <4>1. ~(j0 < n)
        BY <1>2, <1>3, <1>7, <1>10
      <4> QED
        BY <1>2, <1>3, <2>2, <2>3, <4>1
    <3> QED
      BY <1>6, <2>3, <3>1
  <2>4. \A i, j \in DOMAIN rules : i # j => Disjoint(rules[i], rules[j])
    <3> SUFFICES ASSUME NEW i \in 1..n, NEW j \in 1..n, i # j PROVE Disjoint(rules[i], rules[j])
      BY <1>2
    <3>1. i < j \/ j < i
      BY <1>2
    <3> QED
      BY <2>3, <3>1, DisjointTurned
  <2> QED
    BY <1>1, <2>1, <2>4 DEF Booted
<1> QED
  BY <1>9, <1>10

LEMMA ExpandStep ==
    ASSUME Booted, NEW u \in queue, Expand(u)
    PROVE  Booted'
<1> DEFINE p == rules[pair[1]]
           q == rules[pair[2]]
           reached == UNION {Transitions(Compiled(1), u[1], c)
                              \X Transitions(Compiled(2), u[2], c) : c \in Letters}
<1>1. /\ boot = "check" /\ u \in queue /\ rules' = rules /\ pair' = pair
      /\ rules \in Seq(Patterns) /\ Searching /\ Len(rules) <= MaxRules
  BY DEF Booted, Expand, Refuse
<1>2. /\ pair[1] \in DOMAIN rules /\ pair[2] \in DOMAIN rules /\ pair[1] # pair[2]
      /\ Seen # {} /\ <<Start, Start>> \in Seen
      /\ \A v \in Seen : Reached(p, q, v)
      /\ \A v \in visited : ~Both(v) /\ Successors(v) \subseteq Seen
      /\ pair[1] < pair[2] /\ pair[2] <= Len(rules)
  <2>1. Seen # {}
    BY <1>1 DEF Seen
  <2>2. pair \in (Nat \ {0}) \X (Nat \ {0}) /\ pair[1] < pair[2] /\ pair[2] <= Len(rules)
    BY <1>1, <2>1 DEF Searching
  <2>3. pair[1] \in Nat \ {0} /\ pair[2] \in Nat \ {0}
    BY <2>2
  <2>4. pair[1] \in 1..Len(rules) /\ pair[2] \in 1..Len(rules) /\ pair[1] # pair[2]
    BY <1>1, <2>2, <2>3, RuleFacts
  <2> QED
    BY <1>1, <2>1, <2>4, RuleFacts DEF Searching
<1>3. p \in Seq(Letters \cup {Star}) /\ q \in Seq(Letters \cup {Star})
  BY <1>1, <1>2, RuleFacts
<1>4. Compiled(1) = Segments(p) /\ Compiled(2) = Segments(q)
  BY DEF Compiled
<1>5. Reached(p, q, u)
  BY <1>1, <1>2 DEF Seen
<1>6. \A v \in reached : Reached(p, q, v)
  <2> SUFFICES ASSUME NEW v \in reached PROVE Reached(p, q, v)
    OBVIOUS
  <2>1. PICK c \in Letters : v \in Transitions(Compiled(1), u[1], c) \X Transitions(Compiled(2), u[2], c)
    OBVIOUS
  <2> HIDE DEF p, q, reached
  <2> QED
    BY <1>4, <1>5, <2>1, ReachedByOneMore
<1>7. reached = Successors(u)
  BY DEF Successors
<1>8. IF Both(u) \/ \E v \in reached : Both(v) THEN Refuse
      ELSE /\ visited' = visited \cup {u}
           /\ queue' = (queue \cup reached) \ (visited \cup {u})
           /\ UNCHANGED <<rules, boot, pair>>
  BY DEF Expand
<1> HIDE DEF reached
<1>9. CASE Both(u) \/ \E v \in reached : Both(v)
  <2>1. boot' = "refused"
    BY <1>8, <1>9 DEF Refuse
  <2>2. PICK v : Both(v) /\ Reached(p, q, v)
    BY <1>5, <1>6, <1>9
  <2>3. Sharing(p, q)
    <3> HIDE DEF p, q
    <3> QED
      BY <1>3, <1>4, <2>2, RefusedForAReason DEF Both
  <2> QED
    BY <1>1, <1>2, <2>1, <2>3 DEF Booted
<1>10. CASE ~(Both(u) \/ \E v \in reached : Both(v))
  <2>1. /\ visited' = visited \cup {u} /\ boot' = "check"
        /\ queue' = (queue \cup reached) \ (visited \cup {u})
    BY <1>1, <1>8, <1>10
  <2>2. Seen' = Seen \cup reached
    BY <1>1, <2>1 DEF Seen
  <2>3. \A v : Both(v)' = Both(v) /\ Successors(v)' = Successors(v)
    BY <1>1 DEF Both, Successors, Compiled
  <2>4. \A v \in visited' : ~Both(v) /\ Successors(v) \subseteq Seen'
    BY <1>2, <1>7, <1>10, <2>1, <2>2
  <2>5. \A v \in Seen' : Reached(p, q, v)
    BY <1>2, <1>6, <2>2
  <2>6. \A i, j : Before(i, j)' = Before(i, j)
    BY <1>1 DEF Before
  <2>7. Searching'
    <3>1. \A v \in visited' : ~Both(v)' /\ Successors(v)' \subseteq Seen'
      BY <2>3, <2>4
    <3>2. \A v \in Seen' : Reached(rules'[pair'[1]], rules'[pair'[2]], v)
      BY <1>1, <2>5
    <3>3. Seen' # {} /\ <<Start, Start>> \in Seen'
      BY <1>2, <2>2
    <3>4. \A i, j \in DOMAIN rules' : i < j /\ Before(i, j)' => Disjoint(rules'[i], rules'[j])
      BY <1>1, <2>6 DEF Searching
    <3>5. /\ pair' \in (Nat \ {0}) \X (Nat \ {0}) /\ pair'[1] < pair'[2] /\ pair'[2] <= Len(rules')
      BY <1>1, <1>2 DEF Searching
    <3> QED
      BY <3>1, <3>2, <3>3, <3>4, <3>5 DEF Searching
  <2> QED
    BY <1>1, <2>1, <2>7 DEF Booted
<1> QED
  BY <1>9, <1>10

LEMMA InitBooted == Init => Booted /\ Looked
<1> SUFFICES ASSUME Init PROVE Booted /\ Looked
  OBVIOUS
<1>1. /\ boot = "check" /\ pair = <<1, 1>> /\ queue = {} /\ visited = {} /\ req = NoRequest
      /\ rules \in UNION {[1..n -> Patterns] : n \in 0..MaxRules}
  BY DEF Init, AliasInit
<1>2. rules \in Seq(Patterns) /\ Len(rules) <= MaxRules
  <2>1. PICK n \in 0..MaxRules : rules \in [1..n -> Patterns]
    BY <1>1
  <2>2. n \in Nat /\ n <= MaxRules
    BY AliasAssumption
  <2> QED
    BY <2>1, <2>2
<1>3. Searching
  <2>1. Seen = {}
    BY <1>1 DEF Seen
  <2>2. ASSUME NEW i \in DOMAIN rules, NEW j \in DOMAIN rules, i < j, Before(i, j) PROVE FALSE
    <3>1. i \in Nat \ {0} /\ j \in Nat \ {0}
      BY <1>2, RuleFacts
    <3> QED
      BY <1>1, <2>2, <3>1 DEF Before
  <2> QED
    BY <1>1, <2>1, <2>2 DEF Searching
<1>4. Looked
  <2>1. 0 \in 0..Len(rules)
    BY <1>2
  <2> QED
    BY <1>1, <2>1 DEF Looked, NoRequest, NoName, Bodies
<1> QED
  BY <1>1, <1>2, <1>3, <1>4 DEF Booted

(* A request is looked up in the table that was accepted.                  *)
LEMMA LookupFacts ==
    ASSUME rules \in Seq(Patterns), NEW w
    PROVE  LET hits == {i \in DOMAIN rules : Matches(rules[i], w)}
           IN /\ Lookup(w) \in 0..Len(rules)
              /\ IF hits = {} THEN Lookup(w) = 0 ELSE Lookup(w) \in hits
<1> DEFINE hits == {i \in DOMAIN rules : Matches(rules[i], w)}
<1>1. Len(rules) \in Nat /\ DOMAIN rules = 1..Len(rules) /\ hits \subseteq 1..Len(rules)
  BY RuleFacts
<1>2. CASE hits = {}
  <2>1. Lookup(w) = 0
    BY <1>2 DEF Lookup
  <2> QED
    BY <1>1, <1>2, <2>1
<1>3. CASE hits # {}
  <2>1. hits \in SUBSET Nat
    BY <1>1
  <2>2. \E i \in hits : \A j \in hits : i <= j
    <3> HIDE DEF hits
    <3> QED
      BY <1>3, <2>1, LeastNat
  <2>3. Lookup(w) = CHOOSE i \in hits : \A j \in hits : i <= j
    BY <1>3 DEF Lookup
  <2>4. Lookup(w) \in hits
    <3> HIDE DEF hits
    <3> QED
      BY <2>2, <2>3
  <2>5. Lookup(w) \in 0..Len(rules)
    BY <1>1, <2>4
  <2> QED
    BY <1>3, <2>4, <2>5
<1> QED
  BY <1>2, <1>3

LEMMA SameTable ==
    ASSUME Booted, UNCHANGED aliasVars
    PROVE  Booted'
<1>1. rules' = rules /\ boot' = boot /\ pair' = pair /\ queue' = queue /\ visited' = visited
  BY DEF aliasVars
<1>2. Searching => Searching'
  BY <1>1 DEF Searching, Seen, Before, Both, Successors, Compiled
<1> QED
  BY <1>1, <1>2 DEF Booted

LEMMA BootedStep ==
    ASSUME Booted, Looked, [Next]_vars
    PROVE  Booted' /\ Looked'
<1>1. CASE UNCHANGED vars
  <2>1. UNCHANGED aliasVars /\ req' = req
    BY <1>1 DEF vars
  <2>2. boot' = boot /\ rules' = rules
    BY <2>1 DEF aliasVars
  <2>3. \A w : Lookup(w)' = Lookup(w)
    BY <2>2 DEF Lookup
  <2> QED
    BY <2>1, <2>2, <2>3, SameTable DEF Looked
<1>2. CASE Boot
  <2>1. AliasNext /\ req' = req
    BY <1>2 DEF Boot
  <2>2. Booted'
    BY <2>1, NextPairStep, ExpandStep DEF AliasNext
  <2>3. boot = "check" /\ rules' = rules
    BY <2>1 DEF AliasNext, NextPair, Expand, Refuse
  <2>4. Looked'
    BY <2>1, <2>3 DEF Looked
  <2> QED
    BY <2>2, <2>4
<1>3. CASE Answer
  <2>1. UNCHANGED aliasVars /\ req' = NoRequest
    BY <1>3 DEF Answer
  <2>2. 0 \in 0..Len(rules) /\ rules' = rules
    BY <2>1, RuleFacts DEF aliasVars, Booted
  <2> QED
    BY <2>1, <2>2, SameTable DEF Looked, NoRequest, NoName, Bodies
<1>4. ASSUME NEW body \in Bodies, NEW model \in Names \cup {NoName}, Rewrite(body, model)
      PROVE  Booted' /\ Looked'
  <2> DEFINE parsed == body \notin {"empty", "broken"}
             target == IF parsed THEN Lookup(model) ELSE 0
  <2>1. /\ UNCHANGED aliasVars /\ boot = "accepted"
        /\ model # NoName <=> body \in {"model first", "nested first"}
        /\ req' = [pc |-> IF body = "broken" THEN "refused" ELSE "forwarded",
                   body |-> body, model |-> model, target |-> target,
                   rewritten |-> target # 0 /\ body = "model first"]
    BY <1>4 DEF Rewrite
  <2>2. rules' = rules /\ boot' = boot
    BY <2>1 DEF aliasVars
  <2>3. target \in 0..Len(rules)
    BY LookupFacts, RuleFacts DEF Booted
  <2>4. model # NoName => target = Lookup(model)
    BY <2>1
  <2> HIDE DEF target
  <2>5. \A w : Lookup(w)' = Lookup(w)
    BY <2>2 DEF Lookup
  <2> QED
    BY <2>1, <2>2, <2>3, <2>4, <2>5, SameTable DEF Looked
<1>5. CASE UsageNext /\ UNCHANGED <<aliasVars, req>>
  <2>1. UNCHANGED aliasVars /\ req' = req
    BY <1>5
  <2>2. boot' = boot /\ rules' = rules
    BY <2>1 DEF aliasVars
  <2>3. \A w : Lookup(w)' = Lookup(w)
    BY <2>2 DEF Lookup
  <2> QED
    BY <2>1, <2>2, <2>3, SameTable DEF Looked
<1> QED
  BY <1>1, <1>2, <1>3, <1>4, <1>5 DEF Next

LEMMA CoversIsMatches ==
    ASSUME NEW p \in Patterns, NEW w \in Names
    PROVE  Covers[p][w] <=> Matches(p, w)
<1>1. p \in Seq(Letters \cup {Star}) /\ Len(w) \in Nat
  BY PatternFacts, PathAssumption
<1>2. Covers[p][w] <=> Placed(p, w, Len(p), Len(w))
  BY DEF Covers, Placed
<1> QED
  BY <1>1, <1>2, MatchesWhatItCovers

(* The rule that rewrites a request is the only one that covers its model, *)
(* whatever the names it may ask for; and, if those are all the names the  *)
(* patterns may spell, every refused table has two rules that share one.   *)
OnlyRule ==
    req.model # NoName =>
        {i \in DOMAIN rules : Covers[rules[i]][req.model]}
           = IF req.target = 0 THEN {} ELSE {req.target}

LEMMA LookedUpAlone ==
    ASSUME Booted, Looked
    PROVE  OnlyRule
<1> SUFFICES ASSUME req.model # NoName
             PROVE  {i \in DOMAIN rules : Covers[rules[i]][req.model]}
                       = IF req.target = 0 THEN {} ELSE {req.target}
  BY DEF OnlyRule
<1> DEFINE w == req.model
           hits == {i \in DOMAIN rules : Matches(rules[i], w)}
<1>1. boot = "accepted" /\ w \in Names /\ req.target = Lookup(w)
  BY DEF Looked
<1>2. rules \in Seq(Patterns) /\ \A i, j \in DOMAIN rules : i # j => Disjoint(rules[i], rules[j])
  BY <1>1 DEF Booted
<1>3. w \in Words
  BY <1>1, PathAssumption DEF Words
<1>4. {i \in DOMAIN rules : Covers[rules[i]][w]} = hits
  BY <1>1, <1>2, RuleFacts, CoversIsMatches
<1>5. \A i, j \in hits : i = j
  BY <1>2, <1>3 DEF Disjoint
<1>6. IF hits = {} THEN Lookup(w) = 0 ELSE Lookup(w) \in hits
  BY <1>2, LookupFacts
<1>7. 0 \notin hits
  BY <1>2, RuleFacts
<1> HIDE DEF hits
<1> QED
  BY <1>1, <1>4, <1>5, <1>6, <1>7

LEMMA RefusedRightly ==
    ASSUME Booted, Seq(Letters) \subseteq Names, boot = "refused"
    PROVE  \E i, j \in DOMAIN rules :
              i # j /\ \E w \in Names : Covers[rules[i]][w] /\ Covers[rules[j]][w]
<1>1. PICK i \in DOMAIN rules, j \in DOMAIN rules : i # j /\ Sharing(rules[i], rules[j])
  BY DEF Booted
<1>2. PICK w \in Seq(Letters) : Matches(rules[i], w) /\ Matches(rules[j], w)
  BY <1>1 DEF Sharing
<1>3. w \in Names /\ rules[i] \in Patterns /\ rules[j] \in Patterns
  BY RuleFacts DEF Booted
<1> QED
  BY <1>1, <1>2, <1>3, CoversIsMatches

(* A table is refused only if two of its rules share a name, and the rule  *)
(* of an accepted one that rewrites a request is the only one that covers  *)
(* its model, for every alphabet, every patterns and every name.  That the *)
(* first part finds the shared name among the names needs all of them to   *)
(* be there.                                                               *)
THEOREM OneRuleRewrites ==
    Spec => /\ []TypeOK /\ []OnlyRule
            /\ Seq(Letters) \subseteq Names => []Inv
<1> DEFINE All == Seq(Letters) \subseteq Names
<1>1. Booted /\ Looked /\ IInv => TypeOK
  <2> SUFFICES ASSUME Booted, Looked, IInv PROVE TypeOK
    OBVIOUS
  <2>1. DOMAIN rules = 1..Len(rules) /\ Len(rules) \in Nat /\ Len(rules) <= MaxRules
    BY RuleFacts DEF Booted
  <2>2. req.target \in 0..MaxRules
    BY <2>1, AliasAssumption DEF Looked
  <2> QED
    BY <2>1, <2>2 DEF TypeOK, Booted, Looked, IInv
<1>2. Booted /\ Looked => OnlyRule
  BY LookedUpAlone
<1>3. Booted /\ Looked /\ IInv /\ All => Inv
  BY <1>1, <1>2, RefusedRightly DEF Inv, OneRuleCovers, OnlyRule
<1>4. Init => Booted /\ Looked /\ IInv
  BY InitBooted, InitIInv
<1>5. (Booted /\ Looked /\ IInv) /\ [Next]_vars => (Booted /\ Looked /\ IInv)'
  BY BootedStep, IInvStep
<1> HIDE DEF All
<1>6. Spec => [](Booted /\ Looked /\ IInv)
  BY <1>4, <1>5, PTL DEF Spec
<1>7. Spec => []TypeOK /\ []OnlyRule
  BY <1>1, <1>2, <1>6, PTL
<1>8. Spec => (All => []Inv)
  <2>1. CASE All
    BY <1>3, <1>6, <2>1, PTL
  <2>2. CASE ~All
    BY <2>2
  <2> QED
    BY <2>1, <2>2
<1> QED
  BY <1>7, <1>8 DEF All
===============================================================================
