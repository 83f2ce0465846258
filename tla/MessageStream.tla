------------------------------ MODULE MessageStream ------------------------------
(***************************************************************************)
(* What Claude Code expects of one streamed answer: the Anthropic event    *)
(* protocol that internal/responses/stream.go promises to speak.  A        *)
(* message starts once; its content blocks are numbered from 0, one is     *)
(* open at a time, and a delta names the open block and fits its kind;     *)
(* message_delta and message_stop close it when no block is open.  An      *)
(* error may be reported at any moment.  A message that has started is     *)
(* finished, unless the client has hung up.                                *)
(***************************************************************************)
EXTENDS Integers

CONSTANT MaxBlocks      \* bound: blocks of one message

VARIABLES phase, block, kind, next, last, gone

stream == <<phase, block, kind, next, last, gone>>

Closed == -1
Fits(delta, k) ==
    <<delta, k>> \in {<<"text", "message">>, <<"thinking", "reasoning">>,
                      <<"signature", "reasoning">>, <<"input", "function_call">>}

Init == /\ phase = "none" /\ block = Closed /\ kind = "" /\ next = 0
        /\ last = <<"none", Closed>> /\ gone = FALSE

Start == /\ phase = "none" /\ phase' = "open" /\ last' = <<"message_start", Closed>>
         /\ UNCHANGED <<block, kind, next, gone>>

OpenBlock(k) ==
    /\ phase = "open" /\ block = Closed /\ next < MaxBlocks
    /\ block' = next /\ kind' = k /\ next' = next + 1 /\ last' = <<"content_block_start", next>>
    /\ UNCHANGED <<phase, gone>>

Delta(d) ==
    /\ phase = "open" /\ block # Closed /\ Fits(d, kind)
    /\ last' = <<d, block>>
    /\ UNCHANGED <<phase, block, kind, next, gone>>

CloseBlock ==
    /\ phase = "open" /\ block # Closed
    /\ block' = Closed /\ kind' = "" /\ last' = <<"content_block_stop", block>>
    /\ UNCHANGED <<phase, next, gone>>

Summarise ==
    /\ phase = "open" /\ block = Closed
    /\ phase' = "closing" /\ last' = <<"message_delta", Closed>>
    /\ UNCHANGED <<block, kind, next, gone>>

Stop == /\ phase = "closing" /\ phase' = "ended" /\ last' = <<"message_stop", Closed>>
        /\ UNCHANGED <<block, kind, next, gone>>

Error == last' = <<"error", Closed>> /\ UNCHANGED <<phase, block, kind, next, gone>>

HangUp == gone' = TRUE /\ UNCHANGED <<phase, block, kind, next, last>>

(* The connection serves its next request.                                 *)
Renew ==
    /\ phase \in {"none", "ended"} \/ gone
    /\ phase' = "none" /\ block' = Closed /\ kind' = "" /\ next' = 0
    /\ last' = <<"none", Closed>> /\ gone' = FALSE

Next == \/ Start \/ CloseBlock \/ Summarise \/ Stop \/ Error \/ HangUp \/ Renew
        \/ \E k \in {"message", "reasoning", "function_call"} : OpenBlock(k)
        \/ \E d \in {"text", "thinking", "signature", "input"} : Delta(d)

Finished == phase \in {"open", "closing"} ~> (phase = "ended" \/ gone)

Spec == Init /\ [][Next]_stream /\ Finished
===============================================================================
