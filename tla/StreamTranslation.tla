---------------------------- MODULE StreamTranslation ----------------------------
(***************************************************************************)
(* The reducer of internal/responses/stream.go: one upstream event of the  *)
(* Responses API in, the Anthropic events to write out.  A translator is a *)
(* record, Apply returns its next value and the events it emits; texts,    *)
(* identifiers and token counts are left out, an event is its name, the    *)
(* index it carries and what kind of content that is.                      *)
(***************************************************************************)
EXTENDS Integers, Sequences

NoBlock == -1

(* carry, omit: Dialect.CarryReasoning (grok) and OmitThinkingText.        *)
NewStreamTranslator(carry, omit) ==
    [carry |-> carry, omit |-> omit, started |-> FALSE, ended |-> FALSE,
     cur |-> NoBlock, type |-> "", lastType |-> "", next |-> 0, parts |-> 0,
     reading |-> FALSE, args |-> FALSE, usage |-> "absent"]

Emit(name, idx, kind) == [name |-> name, idx |-> idx, kind |-> kind]
Delta(t, kind) == Emit("content_block_delta", t.cur, kind)
ErrorEvent == Emit("error", NoBlock, "")
Result(t, emissions) == [t |-> t, out |-> emissions]
Nothing(t) == Result(t, <<>>)

Kinds == {"message", "reasoning", "function_call", "Read"}
BlockOf(item) == IF item = "Read" THEN "function_call" ELSE item

(* An item of an unknown type forgets the open block without closing it.   *)
OpenBlock(t, item) ==
    IF item \notin Kinds
    THEN Nothing([t EXCEPT !.cur = NoBlock, !.type = ""])
    ELSE Result([t EXCEPT !.cur = t.next, !.next = @ + 1, !.type = BlockOf(item),
                          !.parts = IF item = "reasoning" THEN 0 ELSE @,
                          !.reading = @ \/ item = "Read",
                          !.args = @ /\ item # "Read"],
                <<Emit("content_block_start", t.next, BlockOf(item))>>)

CloseBlock(t) ==
    IF t.cur = NoBlock THEN Nothing(t)
    ELSE Result([t EXCEPT !.lastType = t.type, !.cur = NoBlock, !.type = ""],
                <<Emit("content_block_stop", t.cur, "")>>)

(* content_block_stop of the open block, after some deltas to it.          *)
ThenClose(t, deltas) == LET c == CloseBlock(t) IN Result(c.t, deltas \o c.out)

Finalize(t, stop, usage) ==
    IF t.ended THEN Nothing(t)
    ELSE LET c == CloseBlock(t) IN
         Result([c.t EXCEPT !.ended = TRUE,
                            !.usage = IF usage = "absent" THEN @ ELSE usage],
                c.out \o <<Emit("message_delta", NoBlock, stop), Emit("message_stop", NoBlock, "")>>)

StopReason(t) ==
    LET blockType == IF t.type = "" THEN t.lastType ELSE t.type
    IN IF blockType = "function_call" THEN "tool_use" ELSE "end_turn"
IncompleteReason(reason) ==
    CASE reason = "max_output_tokens" -> "max_tokens"
      [] reason = "content_filter" -> "refusal"
      [] OTHER -> "end_turn"

(* Thought: summary text, and reasoning text, which an open block of       *)
(* another type must not get.                                              *)
Thought(t) == IF t.omit THEN Nothing(t) ELSE Result(t, <<Delta(t, "thinking")>>)

(* parts only tells the first paragraph from the later ones: it stops at 2. *)
SummaryPart(t) ==
    IF t.carry /\ t.type = "reasoning"
    THEN Result([t EXCEPT !.parts = IF @ < 2 THEN @ + 1 ELSE @],
                IF t.parts > 0 /\ ~t.omit THEN <<Delta(t, "thinking")>> ELSE <<>>)
    ELSE IF t.cur # NoBlock THEN Nothing(t) ELSE OpenBlock(t, "reasoning")

Arguments(t) ==
    IF t.reading THEN Nothing([t EXCEPT !.args = TRUE]) ELSE Result(t, <<Delta(t, "input")>>)

(* The buffered arguments of Read are dropped.                             *)
ArgumentsDoneDrops(t) ==
    ThenClose([t EXCEPT !.reading = FALSE, !.args = FALSE], <<>>)
(* dropEmptyReadPages rewrites the buffered text; it is emitted in one go. *)
ArgumentsDone(t) ==
    ThenClose([t EXCEPT !.reading = FALSE, !.args = IF t.reading THEN FALSE ELSE @],
              IF t.reading THEN <<Delta(t, "input")>> ELSE <<>>)

(* An item without text or arguments leaves its block open.                *)
ItemDoneUnclosed(t, signed) == Nothing(t)
(* The signature of the reasoning is left out.                             *)
ItemDoneUnsigned(t, signed) == ThenClose(t, <<>>)
ItemDone(t, signed) ==
    ThenClose(t, IF t.carry /\ t.type = "reasoning" /\ signed
                 THEN <<Delta(t, "signature")>> ELSE <<>>)

Apply(t, ev) ==
    CASE ev.type = "created" ->
            IF t.started THEN Nothing(t)
            ELSE Result([t EXCEPT !.started = TRUE], <<Emit("message_start", NoBlock, "")>>)
      [] ev.type = "item" -> OpenBlock(t, ev.of)
      [] ev.type = "text" -> Result(t, <<Delta(t, "text")>>)
      [] ev.type = "text_done" -> CloseBlock(t)
      [] ev.type = "summary" -> Thought(t)
      [] ev.type = "summary_done" -> IF t.carry THEN Nothing(t) ELSE CloseBlock(t)
      [] ev.type = "reasoning" -> IF t.type = "reasoning" THEN Thought(t) ELSE Nothing(t)
      [] ev.type = "part" -> SummaryPart(t)
      [] ev.type = "args" -> Arguments(t)
      [] ev.type = "args_done" -> ArgumentsDone(t)
      [] ev.type = "item_done" -> ItemDone(t, ev.of = "signed")
      [] ev.type = "completed" -> Finalize(t, StopReason(t), ev.usage)
      [] ev.type = "incomplete" -> Finalize(t, IncompleteReason(ev.of), ev.usage)
      [] ev.type = "failed" ->
            LET f == Finalize(t, "end_turn", ev.usage) IN Result(f.t, <<ErrorEvent>> \o f.out)
      [] OTHER -> Nothing(t)       \* in_progress, content parts, a top-level error

(* The end of the stream: EOF, [DONE] or a failed read.                    *)
SafetyNet(t) == IF t.started /\ ~t.ended THEN Finalize(t, "end_turn", "absent") ELSE Nothing(t)

-------------------------------------------------------------------------------
(* ClassifyStream: what the first decisive event says of the answer.       *)
Overflow(ev) ==
    \/ ev.type \in {"failed", "error"} /\ ev.of = "context_length_exceeded"
    \/ ev.type = "incomplete" /\ ev.of = "max_output_tokens"
Decisive(ev) ==
    Overflow(ev) \/ ev.type \in {"text", "args", "completed", "failed", "incomplete"}

(* AssembleMessage, from the events that Collect has gathered: the first   *)
(* error is the body, and without a message_start there is nothing.        *)
Assemble(names) ==
    LET said == {names[i] : i \in DOMAIN names}
    IN  IF "message_start" \in said /\ "error" \notin said THEN "json_message" ELSE "json_error"
===============================================================================
