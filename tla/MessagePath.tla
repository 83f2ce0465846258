------------------------------ MODULE MessagePath ------------------------------
(***************************************************************************)
(* A message on its way through a proxy that serves Claude: the alias      *)
(* table, checked before the proxy starts, rewrites the request's model    *)
(* (middleware/alias.go), and the usage of the answer is recorded.         *)
(***************************************************************************)
EXTENDS AliasTable, UsageTee

CONSTANTS
    Names,          \* bound: the models a request may ask for
    Foreign         \* a letter of a model name that no pattern may contain

ASSUME PathAssumption ==
    /\ Foreign \notin Letters \cup {Star}
    /\ Names \subseteq Seq(Letters \cup {Foreign})

VARIABLE req        \* the request being forwarded

vars == <<aliasVars, usageVars, req>>

NoName == << >>
Bodies == {"empty", "broken", "model first", "nested first", "no model"}
NoRequest == [pc |-> "none", body |-> "empty", model |-> NoName, target |-> 0, rewritten |-> FALSE]

TypeOK ==
    /\ UsageTypeOK
    /\ DOMAIN rules = 1..Len(rules) /\ boot \in {"check", "accepted", "refused"}
    /\ req.pc \in {"none", "forwarded", "refused"} /\ req.body \in Bodies
    /\ req.target \in 0..MaxRules /\ req.rewritten \in BOOLEAN

Init == AliasInit /\ UsageInit /\ req = NoRequest

Boot == AliasNext /\ UNCHANGED <<usageVars, req>>

(* AliasRewrite.Apply: an empty body is forwarded unseen, one that does    *)
(* not parse is refused.  rewriteModelField replaces the first "model" of  *)
(* the text, wherever it stands, and nothing where there is none.          *)
Rewrite(body, model) ==
    /\ boot = "accepted" /\ req.pc = "none" /\ CopyAt("idle")
    /\ model # NoName <=> body \in {"model first", "nested first"}
    /\ LET parsed == body \notin {"empty", "broken"}
           target == IF parsed THEN Lookup(model) ELSE 0
       IN req' = [pc |-> IF body = "broken" THEN "refused" ELSE "forwarded",
                  body |-> body, model |-> model, target |-> target,
                  rewritten |-> target # 0 /\ body = "model first"]
    /\ UNCHANGED <<aliasVars, usageVars>>

(* The answer's header: the request has been read.                         *)
Answer ==
    /\ req.pc = "forwarded" /\ req' = NoRequest
    /\ \E wanted, stream, gzipped \in BOOLEAN : InstallUsageTee(wanted, stream, gzipped)
    /\ UNCHANGED aliasVars

Next ==
    \/ Boot \/ Answer
    \/ \E body \in Bodies, model \in Names \cup {NoName} : Rewrite(body, model)
    \/ UsageNext /\ UNCHANGED <<aliasVars, req>>

(* The copy loop and the goroutine run on, and the upstream sends or ends: *)
(* the code sets no timeout on it.                                         *)
Spec == Init /\ [][Next]_vars
        /\ WF_vars(CopyNext /\ UNCHANGED <<aliasVars, req>>)
        /\ WF_vars(GzipNext /\ UNCHANGED <<aliasVars, req>>)

-------------------------------------------------------------------------------
(* What a pattern means: the name is cut into one piece per letter or star *)
(* of the pattern, a letter's piece being that letter.                     *)
Covers == [p \in Patterns |-> [w \in Names |->
    \E cut \in [0..Len(p) -> 0..Len(w)] :
        /\ cut[0] = 0 /\ cut[Len(p)] = Len(w)
        /\ \A i \in 1..Len(p) :
              IF p[i] = Star THEN cut[i - 1] <= cut[i]
              ELSE cut[i] = cut[i - 1] + 1 /\ w[cut[i]] = p[i]]]

(* The boot check refuses the tables in which two rules share a name, and  *)
(* no others; so the rule that rewrites a request is the only one that     *)
(* covers its model, in whatever order the flags were given, letters that  *)
(* no pattern may contain included.                                        *)
OneRuleCovers ==
    /\ boot = "refused" =>
          \E i, j \in DOMAIN rules : i # j /\ \E w \in Names : Covers[rules[i]][w] /\ Covers[rules[j]][w]
    /\ req.model # NoName =>
          {i \in DOMAIN rules : Covers[rules[i]][req.model]}
             = IF req.target = 0 THEN {} ELSE {req.target}
Inv == TypeOK /\ OneRuleCovers

(* The line in the session's file holds what the answer had reported when  *)
(* it ended, however it was cut into chunks, compressed or broken off.     *)
(* There is one line at most, none if the stream reported an error, and    *)
(* none is missing unless it could not be appended.                        *)
RecordIsExact ==
    /\ Len(file) <= 1
    /\ \A i \in DOMAIN file : file[i].usage = said.usage /\ ~said.error
    /\ CopyAt("closed") /\ sink # "none" /\ said.usage # None /\ ~said.error =>
          \/ file # << >> \/ copy.failed
          \/ sink = "json" /\ up.fate = "cut"

(* An answer that has begun ends for the client, whatever the recording of *)
(* its usage meets ("Best-effort; never blocks the proxy").                *)
AnswerEnds == CopyAt("read") ~> CopyAt("closed")
===============================================================================
