---------------------------- MODULE ProviderTerminal ----------------------------
(***************************************************************************)
(* The terminals of a codex or grok share: the handler at the end of the   *)
(* proxy's pipeline that turns one Anthropic request into a Responses API  *)
(* call and the streamed answer back (internal/codex/middleware/           *)
(* terminal.go, internal/grok/middleware/terminal.go), with the bearer it  *)
(* gets from credState (share/credstate.go) or from the identity bundle    *)
(* (codex/identity/bundle.go), and the per-session prompt size by which    *)
(* the grok terminal forces a compaction.                                  *)
(*                                                                         *)
(* One connection of one Claude Code session is followed request after     *)
(* request; the session's other requests meet it only in the map of prompt *)
(* sizes, where they may record theirs.  What the upstream sends is the    *)
(* environment's choice within the grammar that the repository's captured  *)
(* streams follow.                                                         *)
(***************************************************************************)
EXTENDS StreamTranslation, FiniteSets

CONSTANTS
    Providers,      \* the providers to consider, of {"codex", "grok"}
    MaxBlocks,      \* bound: output items and summary parts of one answer
    MaxTurns,       \* bound: user turns of the session
    MaxRefreshes,   \* bound: refreshes of the token
    MaxOthers       \* bound: prompt sizes that other requests record

ASSUME TerminalAssumption ==
    /\ Providers \subseteq {"codex", "grok"}
    /\ {MaxBlocks, MaxTurns, MaxRefreshes, MaxOthers} \subseteq Nat

VARIABLES
    provider,
    call,       \* the request: where its handler is, what it asked, how it was answered
    up,         \* the upstream: how far its answer is
    tr,         \* StreamTranslator
    out,        \* events translated and not yet written
    client,     \* the answer as the client has received it
    ctx,        \* grok Terminal.ctx of the session: its last prompt reached the threshold
    turns,      \* grok Terminal.turns of the session
    token,      \* credState: which refresh gave the token it holds
    others      \* prompt sizes recorded by other requests so far

vars == <<provider, call, up, tr, out, client, ctx, turns, token, others>>

Bundle == 0         \* the token of the credential the bundle was built with

Sizes == {"absent", "under", "over"}
NoItem == "none"
FreshUpstream == [stage |-> "new", item |-> NoItem, blocks |-> 0,
                  said |-> FALSE, seal |-> "", acted |-> FALSE, overflow |-> FALSE]
Unseen == [phase |-> "none", block |-> NoBlock, kind |-> "", next |-> 0,
           last |-> <<"none", NoBlock>>, deltas |-> {}]
NewCall == [pc |-> "idle", stream |-> TRUE, matched |-> TRUE, omit |-> FALSE, newTurn |-> FALSE,
            sent |-> 0, late |-> FALSE, gone |-> FALSE, dies |-> FALSE, answer |-> "none"]

Answers == {"none", "unavailable", "bad_request", "bad_gateway", "rejected", "too_long",
            "upstream_error", "raw", "stream", "json_message", "json_error", "json_events"}

TypeOK ==
    /\ provider \in Providers
    /\ call.pc \in {"idle", "gate", "clear", "translate", "turn", "build", "send", "refresh", "rebuild", "resend",
                    "failing", "classify", "pipe", "collect", "drain", "record"}
    /\ {call.stream, call.matched, call.omit, call.newTurn, call.late, call.gone, call.dies}
          \subseteq BOOLEAN
    /\ call.answer \in Answers /\ call.sent \in 0..MaxRefreshes
    /\ up.blocks \in 0..MaxBlocks /\ tr.next \in 0..up.blocks /\ tr.cur \in -1..(tr.next - 1)
    /\ tr.cur = NoBlock <=> tr.type = ""
    /\ client.block \in {NoBlock, client.next - 1} /\ client.next \in 0..tr.next
    /\ ctx \in BOOLEAN /\ turns \in 0..MaxTurns
    /\ token \in 0..MaxRefreshes /\ others \in 0..MaxOthers

Init ==
    /\ provider \in Providers
    /\ call = NewCall /\ up = FreshUpstream /\ tr = NewStreamTranslator(FALSE, FALSE)
    /\ out = <<>> /\ client = Unseen /\ ctx = FALSE /\ turns = 0
    /\ token = 0 /\ others = 0

At(pc) == call.pc = pc
Goto(pc) == call' = [call EXCEPT !.pc = pc]
Answer(answer) == call' = [call EXCEPT !.pc = "idle", !.answer = answer]
Grok == provider = "grok"

session == <<ctx, turns, others>>
answerVars == <<up, tr, out, client>>

-------------------------------------------------------------------------------
(* credState.Fresh: a token about to expire is refreshed, which may fail;  *)
(* any other is returned as it is.  Time passes between two calls of it.   *)
Fresh(ok, gen) ==
    \/ ok /\ gen = token /\ token' = token
    \/ token < MaxRefreshes /\ ok /\ gen = token + 1 /\ token' = gen
    \/ token < MaxRefreshes /\ ~ok /\ gen = token /\ token' = token

(* Another request of the session, streamed at the same time, ends.  Where *)
(* this one does not look at ctx next, that is as good as later.           *)
OtherRecords(size) ==
    /\ Grok /\ call.pc \in {"idle", "gate", "clear", "record"} /\ others < MaxOthers
    /\ ctx' = (size = "over") /\ others' = others + 1
    /\ UNCHANGED <<provider, call, up, tr, out, client, turns, token>>

(* A request comes through the pipeline, where UpstreamAuthReplace asks    *)
(* for a token first.                                                      *)
Arrive(stream, matched, omit, newTurn) ==
    /\ At("idle")
    /\ newTurn => turns < MaxTurns
    /\ (Grok => matched) /\ (~Grok => ~omit /\ ~newTurn)
    /\ \E ok \in BOOLEAN, gen \in 0..MaxRefreshes :
          /\ Fresh(ok, gen)
          /\ call' = IF ok
                     THEN [NewCall EXCEPT !.pc = "gate", !.stream = stream, !.matched = matched,
                                          !.omit = omit, !.newTurn = newTurn]
                     ELSE [NewCall EXCEPT !.answer = "unavailable"]
    /\ up' = FreshUpstream /\ tr' = NewStreamTranslator(Grok, omit)
    /\ UNCHANGED <<provider, out, client, session>>

(* overCtx: grok only.                                                     *)
Gate ==
    /\ At("gate")
    /\ Goto(IF Grok /\ ctx THEN "clear" ELSE "translate")
    /\ UNCHANGED <<provider, answerVars, session, token>>

ClearForgets ==
    /\ At("clear")
    /\ Answer("rejected")
    /\ UNCHANGED <<provider, answerVars, session, token>>
(* clearCtx, a critical section of its own, and the 400.                   *)
Clear ==
    /\ At("clear")
    /\ Answer("rejected") /\ ctx' = FALSE
    /\ UNCHANGED <<provider, answerVars, turns, others, token>>

(* TranslateRequest, unless codex passes an unmatched body through.        *)
Translate ==
    /\ At("translate")
    /\ \/ Goto("turn")
       \/ call.matched /\ Answer("bad_request")
    /\ UNCHANGED <<provider, answerVars, session, token>>

TurnFor ==
    /\ At("turn")
    /\ turns' = IF Grok /\ (turns = 0 \/ call.newTurn) /\ turns < MaxTurns THEN turns + 1 ELSE turns
    /\ call' = [call EXCEPT !.pc = "build", !.newTurn = FALSE]
    /\ UNCHANGED <<provider, answerVars, ctx, others, token>>

(* build of doWith401Retry: codex applies the bundle, grok asks credState. *)
Build ==
    /\ call.pc \in {"build", "rebuild"}
    /\ \E ok \in BOOLEAN, gen \in 0..MaxRefreshes :
          /\ IF Grok THEN Fresh(ok, gen) ELSE ok /\ gen = Bundle /\ UNCHANGED token
          /\ IF ok THEN call' = [call EXCEPT !.pc = IF At("build") THEN "send" ELSE "resend",
                                             !.sent = gen]
             ELSE Answer("bad_gateway")
    /\ UNCHANGED <<provider, answerVars, session>>

(* The codex terminal asks credState for a fresh token before it rebuilds. *)
Refresh ==
    /\ At("refresh")
    /\ IF Grok THEN Goto("rebuild") /\ UNCHANGED token
       ELSE \E ok \in BOOLEAN, gen \in 0..MaxRefreshes :
               /\ Fresh(ok, gen)
               /\ IF ok THEN Goto("rebuild") ELSE Answer("bad_gateway")
    /\ UNCHANGED <<provider, answerVars, session>>

(* Transport.Do.  A second 401 is an answer like any other error.          *)
Unauthorized ==
    /\ At("send") /\ Goto("refresh")
    /\ UNCHANGED <<provider, answerVars, session, token>>
Unreachable ==
    /\ call.pc \in {"send", "resend"} /\ Answer("bad_gateway")
    /\ UNCHANGED <<provider, answerVars, session, token>>
Refused ==
    /\ call.pc \in {"send", "resend"} /\ Goto("failing")
    /\ UNCHANGED <<provider, answerVars, session, token>>
Accepted ==
    /\ call.pc \in {"send", "resend"}
    /\ call' = [call EXCEPT !.sent = 0,
                  !.pc = CASE ~call.matched -> "idle" [] call.matched /\ call.stream -> "classify"
                           [] OTHER -> "collect",
                  !.answer = IF call.matched THEN @ ELSE "raw"]
    /\ UNCHANGED <<provider, answerVars, session, token>>

(* An error of the upstream: an unknown model ends the session, and grok's *)
(* word for a context overflow becomes the client's.                       *)
Report(modelUnknown, tooLong) ==
    /\ At("failing")
    /\ call' = [call EXCEPT !.pc = "idle", !.dies = modelUnknown,
                            !.answer = IF Grok /\ tooLong THEN "too_long" ELSE "upstream_error"]
    /\ UNCHANGED <<provider, answerVars, session, token>>

-------------------------------------------------------------------------------
(* The upstream's stream.  Grammar(ev) moves it on by one event.           *)
Event(type, of, usage) == [type |-> type, of |-> of, usage |-> usage]
Stage(s) == [up EXCEPT !.stage = s]
Content(item) == IF item = "message" THEN "text" ELSE "args"

Speaks(ev) ==
    \/ up.stage = "new" /\ ev = Event("created", "", "absent") /\ up' = Stage("between")
    \/ \E k \in Kinds \cup {"other"} :
          /\ up.stage = "between" /\ up.blocks < MaxBlocks /\ ev = Event("item", k, "absent")
          /\ up' = [up EXCEPT !.stage = "open", !.item = k, !.blocks = @ + 1, !.said = FALSE,
                              !.seal = ""]
    \/ /\ up.item \in {"message", "function_call", "Read"}
       /\ \/ /\ up.stage = "open" /\ ev = Event(Content(up.item), "", "absent")
             /\ up' = [up EXCEPT !.stage = "said", !.said = TRUE, !.acted = TRUE]
          \/ /\ up.stage \in {"open", "said"}
             /\ ev = Event(IF up.item = "message" THEN "text_done" ELSE "args_done", "", "absent")
             /\ up' = Stage("whole")
    \/ /\ up.item = "reasoning"
       /\ \/ /\ up.stage \in {"open", "whole"} /\ up.blocks < MaxBlocks
             /\ ev = Event("part", "", "absent")
             /\ up' = [up EXCEPT !.stage = "part", !.blocks = @ + 1, !.said = FALSE]
          \/ /\ up.stage = "part" /\ ev.type \in {"summary", "reasoning"}
             /\ up' = [up EXCEPT !.stage = IF ev.type = "summary" THEN "said" ELSE "whole", !.said = TRUE]
          \/ up.stage = "said" /\ ev = Event("summary_done", "", "absent") /\ up' = Stage("whole")
    \/ /\ up.stage = "whole" \/ (up.stage = "open" /\ up.item \in {"reasoning", "other"})
       /\ ev.type = "item_done" /\ (ev.of = "signed" => up.item = "reasoning")
       /\ up' = [up EXCEPT !.stage = "between", !.seal = ev.of]

(* The end of the answer.  An error on its own is followed by the failure  *)
(* it announces, or by nothing.                                            *)
Concludes(ev) ==
    /\ \/ /\ ev.type = "completed" /\ up.stage \in {"between", "whole"}
       \/ /\ ev.type = "incomplete" /\ up.stage \notin {"new", "erred", "over"}
       \/ /\ ev.type \in {"failed", "error"} /\ up.stage \notin {"new", "erred", "over"}
       \/ /\ ev.type = "failed" /\ up.stage = "erred" /\ Overflow(ev) = up.overflow
    /\ up' = [up EXCEPT !.stage = IF ev.type = "error" THEN "erred" ELSE "over",
                        !.overflow = Overflow(ev)]

(* The usage of an answer matters to grok's terminal alone.                *)
Usages == IF Grok THEN Sizes ELSE {"absent"}
Events ==
    [type : {"created", "text", "text_done", "summary", "summary_done", "reasoning", "part",
             "args", "args_done"}, of : {""}, usage : {"absent"}]
    \cup [type : {"item"}, of : Kinds \cup {"other"}, usage : {"absent"}]
    \cup [type : {"item_done"}, of : {"", "signed"}, usage : {"absent"}]
    \cup [type : {"error"}, of : {"context_length_exceeded", "server_overloaded"}, usage : {"absent"}]
    \cup [type : {"completed"}, of : {""}, usage : Usages]
    \cup [type : {"failed"}, of : {"context_length_exceeded", "server_overloaded"}, usage : Usages]
    \cup [type : {"incomplete"}, of : {"max_output_tokens", "content_filter"}, usage : Usages]

(* The upstream sends an event; the classifier or the translator reads it. *)
(* The classifier keeps what it reads and replays it when the stream is    *)
(* let through: the events it leads to wait in out.                        *)
Advance(ev, keep(_)) ==
    LET r == Apply(tr, ev) IN tr' = r.t /\ out' = out \o keep(r.out)

All(emissions) == emissions
(* What AssembleMessage tells apart.                                       *)
Told(emissions) ==
    LET Told1(e) == e.name \in {"error", "message_start"} IN SelectSeq(emissions, Told1)

(* A delta of thought lets the stream through.                             *)
ClassifyThought(ev) ==
    /\ At("classify")
    /\ Speaks(ev) \/ Concludes(ev)
    /\ IF Overflow(ev) THEN Answer("too_long") /\ out' = <<>> /\ tr' = tr
       ELSE /\ Advance(ev, All)
            /\ Goto(IF Decisive(ev) \/ ev.type = "summary" THEN "pipe" ELSE "classify")
    /\ UNCHANGED <<provider, client, session, token>>
Classify(ev) ==
    /\ At("classify")
    /\ Speaks(ev) \/ Concludes(ev)
    /\ IF Overflow(ev) THEN Answer("too_long") /\ out' = <<>> /\ tr' = tr
       ELSE /\ Advance(ev, All)
            /\ Goto(IF Decisive(ev) THEN "pipe" ELSE "classify")
    /\ UNCHANGED <<provider, client, session, token>>

(* classifyFirstByteTimeout has passed when a read returns: what has been  *)
(* read goes through, before anything decisive has come.                   *)
Deadline ==
    /\ At("classify") /\ up.stage # "new"
    /\ call' = [call EXCEPT !.pc = "pipe", !.late = TRUE]
    /\ UNCHANGED <<provider, answerVars, session, token>>

Pipe(ev) ==
    /\ At("pipe") /\ out = <<>>
    /\ Speaks(ev) \/ Concludes(ev)
    /\ Advance(ev, All)
    /\ call' = [call EXCEPT !.late = @ /\ ~up'.acted]
    /\ UNCHANGED <<provider, client, session, token>>

Collect(ev) ==
    /\ At("collect")
    /\ Speaks(ev) \/ Concludes(ev)
    /\ Advance(ev, Told)
    /\ UNCHANGED <<provider, call, client, session, token>>

(* The upstream's stream ends, or its connection breaks.                   *)
ClassifyEnds(broken) ==
    /\ At("classify")
    /\ IF broken THEN Answer("bad_gateway") /\ out' = <<>> ELSE Goto("pipe") /\ out' = out
    /\ up' = Stage("over")
    /\ UNCHANGED <<provider, tr, client, session, token>>

PipeEnds(broken) ==
    /\ At("pipe") /\ out = <<>>
    /\ LET net == SafetyNet(tr) IN
          tr' = net.t /\ out' = net.out \o (IF broken THEN <<ErrorEvent>> ELSE <<>>)
    /\ call' = [call EXCEPT !.pc = "drain", !.answer = "stream"]
    /\ up' = Stage("over")
    /\ UNCHANGED <<provider, client, session, token>>

(* codex writes the collected events as they are, grok one message.        *)
CollectEnds(broken) ==
    /\ At("collect")
    /\ LET net == SafetyNet(tr)
           names == [i \in DOMAIN out |-> out[i].name]
       IN  /\ tr' = net.t
           /\ call' = [call EXCEPT !.pc = "record",
                 !.answer = IF broken THEN "json_error"
                            ELSE IF Grok THEN Assemble(names) ELSE "json_events"]
    /\ up' = Stage("over") /\ out' = <<>>
    /\ UNCHANGED <<provider, client, session, token>>

(* What the client has received, once it has received one event more.      *)
Received(c, e) ==
    LET opens == e.name = "content_block_start"
        closes == e.name = "content_block_stop"
        delta == e.name = "content_block_delta"
    IN  [phase |-> CASE e.name = "message_start" -> "open" [] e.name = "message_delta" -> "closing"
                     [] e.name = "message_stop" -> "ended" [] OTHER -> c.phase,
         block |-> IF opens THEN e.idx ELSE IF closes THEN NoBlock ELSE c.block,
         kind |-> IF opens THEN e.kind ELSE IF closes THEN "" ELSE c.kind,
         next |-> IF opens THEN e.idx + 1 ELSE c.next,
         last |-> <<IF delta THEN e.kind ELSE e.name, e.idx>>,
         deltas |-> IF opens THEN {} ELSE IF delta THEN c.deltas \cup {e.kind} ELSE c.deltas]

(* writeSSE and the flush after it.                                        *)
Deliver ==
    /\ call.pc \in {"pipe", "drain"} /\ out # <<>>
    /\ client' = Received(client, Head(out)) /\ out' = Tail(out)
    /\ UNCHANGED <<provider, call, up, tr, session, token>>

Drained ==
    /\ At("drain") /\ out = <<>> /\ Goto("record")
    /\ UNCHANGED <<provider, answerVars, session, token>>

(* recordCtx: nothing without a usage.  The handler returns.               *)
Record ==
    /\ At("record")
    /\ call' = [NewCall EXCEPT !.answer = call.answer]
    /\ ctx' = IF Grok /\ tr.usage # "absent" THEN tr.usage = "over" ELSE ctx
    /\ up' = FreshUpstream /\ tr' = NewStreamTranslator(FALSE, FALSE) /\ client' = Unseen
    /\ UNCHANGED <<provider, out, turns, others, token>>

(* The client goes away: the request's context is cancelled, the transport *)
(* fails or the loop that reads sees it before the next event.             *)
HangUp ==
    /\ call.pc \in {"send", "resend", "classify", "pipe", "collect", "drain"}
    /\ call' = [call EXCEPT !.gone = TRUE,
                  !.pc = IF @ \in {"pipe", "collect", "drain"} THEN "record" ELSE "idle",
                  !.answer = CASE call.pc \in {"pipe", "drain"} -> "stream"
                               [] At("collect") -> "json_error" [] OTHER -> "bad_gateway"]
    /\ out' = <<>>
    /\ UNCHANGED <<provider, up, tr, client, session, token>>

-------------------------------------------------------------------------------
Reading == call.pc \in {"classify", "collect"} \/ (At("pipe") /\ out = <<>>)

Handle ==
    \/ Gate \/ Clear \/ Translate \/ TurnFor \/ Build \/ Refresh
    \/ Unauthorized \/ Unreachable \/ Refused \/ Accepted
    \/ \E modelUnknown, tooLong \in BOOLEAN : Report(modelUnknown, tooLong)
    \/ Reading /\ \E ev \in Events : Classify(ev) \/ Pipe(ev) \/ Collect(ev)
    \/ \E broken \in BOOLEAN : ClassifyEnds(broken) \/ PipeEnds(broken) \/ CollectEnds(broken)
    \/ Deadline \/ Deliver \/ Drained \/ Record

Next ==
    \/ Handle \/ HangUp
    \/ \E size \in {"under", "over"} : OtherRecords(size)
    \/ \E stream, matched, omit, newTurn \in BOOLEAN : Arrive(stream, matched, omit, newTurn)

(* The handler runs on, and the upstream sends or closes in the end: the   *)
(* code sets no timeout on it.                                             *)
Spec == Init /\ [][Next]_vars /\ WF_vars(Handle)

-------------------------------------------------------------------------------
(* A context overflow the upstream reports before any text or arguments    *)
(* reaches a streaming client as the error that makes Claude Code compact, *)
(* never as an answer (classify.go), whatever thoughts came before it.     *)
OverflowIsTold ==
    At("record") /\ call.answer = "stream" /\ ~call.gone /\ ~call.late => ~(up.overflow /\ ~up.acted)

(* An item the upstream has sent whole has reached the client whole: the   *)
(* text, the arguments even where they are held back for Read, the last    *)
(* thought unless it is omitted, and where the dialect carries reasoning   *)
(* (grok), the signature of every item that was closed with encrypted      *)
(* content, thoughts or not (stream.go: "blocks and signatures are still   *)
(* emitted").                                                              *)
ItemsArriveWhole ==
    At("pipe") /\ out = <<>> /\ up.stage = "between" =>
       /\ up.said =>
             \/ up.item = "message" /\ "text" \in client.deltas
             \/ up.item \in {"function_call", "Read"} /\ "input" \in client.deltas
             \/ up.item = "reasoning" /\ (tr.omit \/ "thinking" \in client.deltas)
       /\ tr.carry /\ up.seal = "signed" => "signature" \in client.deltas
Inv == TypeOK /\ ItemsArriveWhole

(* Whatever the upstream sends and however it ends, a streaming client     *)
(* sees one well-formed message, finished unless it has hung up.           *)
Claude == INSTANCE MessageStream WITH
    phase <- client.phase, block <- client.block,
    kind <- client.kind, next <- client.next, last <- client.last, gone <- call.gone
StreamsAreMessages == Claude!Spec

(* Requests are not rejected over and over for one recorded prompt size:   *)
(* as long as rejections go on, so do requests that are sent upstream      *)
(* (grok terminal.go, clearCtx: "this clear breaks the reject/retry loop"). *)
RejectionsGiveWay == []<>At("clear") => []<>At("send")

(* After a 401 and a successful refresh the request is sent again with the *)
(* token credState now holds ("retries once with the new bearer").         *)
RetryCarriesFreshBearer == At("resend") => call.sent = token
===============================================================================
