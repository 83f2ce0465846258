------------------------------- MODULE AliasTable -------------------------------
(***************************************************************************)
(* --model-alias (internal/share/alias): the rules are compiled and every  *)
(* two of them checked for overlap before the proxy starts; a request's    *)
(* model is looked up in them.                                             *)
(*                                                                         *)
(* A pattern is a sequence of letters and stars, and compiles to the list  *)
(* of its literal segments.  A state of the automaton is <<phase, pos>>:   *)
(* pos letters of segment number phase have been read.                     *)
(***************************************************************************)
EXTENDS Integers, Sequences

CONSTANTS
    Letters,        \* allowedAlphabet
    Star,
    Patterns,       \* bound: the patterns a rule may have
    MaxRules        \* bound: values of --model-alias

ASSUME AliasAssumption ==
    /\ Star \notin Letters /\ MaxRules \in Nat
    /\ Patterns \subseteq Seq(Letters \cup {Star})

VARIABLES
    rules,      \* Map.rules, by their patterns; rule i has target i
    boot,       \* "check", then "refused" or "accepted"
    pair,       \* the two rules being compared
    queue,      \* patternsConflict: product states to expand
    visited     \* patternsConflict: product states expanded

aliasVars == <<rules, boot, pair, queue, visited>>

(* splitOnStar: the segments of every beginning of a pattern; adjacent     *)
(* stars are one.                                                          *)
SegmentsUpTo(p) ==
    LET upTo[n \in 0..Len(p)] ==
          CASE n = 0 -> << << >> >>
            [] n > 0 /\ p[n] # Star ->
                  [upTo[n - 1] EXCEPT ![Len(upTo[n - 1])] = Append(@, p[n])]
            [] n > 1 /\ p[n] = Star /\ p[n - 1] = Star -> upTo[n - 1]
            [] OTHER -> Append(upTo[n - 1], << >>)
    IN upTo
Segments(p) == SegmentsUpTo(p)[Len(p)]

Start == <<1, 0>>

(* Mutant: once in the free zone of a star there is no staying there.      *)
TransitionsNoLoop(r, s, c) ==
    LET phase == s[1]
        pos   == s[2]
    IN IF pos < Len(r[phase])
       THEN {t \in {<<phase, pos + 1>>} : r[phase][pos + 1] = c}
       ELSE {t \in {<<phase + 1, 1>>} : phase < Len(r) /\ r[phase + 1] # << >> /\ r[phase + 1][1] = c}

(* Within a segment its next letter; behind it, if a star follows, any     *)
(* letter, or the first one of the next segment.  The empty segment behind *)
(* a last star has nothing to enter.                                       *)
Transitions(r, s, c) ==
    LET phase == s[1]
        pos   == s[2]
    IN CASE pos < Len(r[phase]) ->
              {t \in {<<phase, pos + 1>>} : r[phase][pos + 1] = c}
         [] pos = Len(r[phase]) /\ phase < Len(r) ->
              {s} \cup {t \in {<<phase + 1, 1>>} : r[phase + 1] # << >> /\ r[phase + 1][1] = c}
         [] OTHER -> {}

AcceptsState(r, s) ==
    s[2] = Len(r[s[1]]) /\ \A i \in (s[1] + 1)..Len(r) : r[i] = << >>

(* The states after every number of letters of a name.                     *)
States(r, w) ==
    LET after[n \in 0..Len(w)] ==
          IF n = 0 THEN {Start}
                   ELSE UNION {Transitions(r, s, w[n]) : s \in after[n - 1]}
    IN after

Matches(p, w) == \E s \in States(Segments(p), w)[Len(w)] : AcceptsState(Segments(p), s)

(* The first rule that matches; 0: none.                                   *)
Lookup(w) ==
    LET hits == {i \in DOMAIN rules : Matches(rules[i], w)}
    IN IF hits = {} THEN 0 ELSE CHOOSE i \in hits : \A j \in hits : i <= j

-------------------------------------------------------------------------------
AliasInit ==
    /\ rules \in UNION {[1..n -> Patterns] : n \in 0..MaxRules}
    /\ boot = "check" /\ pair = <<1, 1>> /\ queue = {} /\ visited = {}

Compiled(k) == Segments(rules[pair[k]])
Both(u) == AcceptsState(Compiled(1), u[1]) /\ AcceptsState(Compiled(2), u[2])
Refuse == boot' = "refused" /\ UNCHANGED <<rules, pair, queue, visited>>

(* Parse goes on to its next pair when the queue has run empty, and is     *)
(* done after the last one.                                                *)
NextPair ==
    /\ boot = "check" /\ queue = {}
    /\ LET next == IF pair[2] < Len(rules) THEN <<pair[1], pair[2] + 1>>
                                           ELSE <<pair[1] + 1, pair[1] + 2>>
       IN IF next[2] <= Len(rules)
          THEN /\ pair' = next /\ queue' = {<<Start, Start>>} /\ visited' = {}
               /\ UNCHANGED <<rules, boot>>
          ELSE boot' = "accepted" /\ queue' = {} /\ visited' = {} /\ UNCHANGED <<rules, pair>>

(* One turn of the loop of patternsConflict.                               *)
Expand(u) ==
    /\ boot = "check" /\ u \in queue
    /\ LET reached == UNION {Transitions(Compiled(1), u[1], c)
                              \X Transitions(Compiled(2), u[2], c) : c \in Letters}
       IN IF Both(u) \/ \E v \in reached : Both(v) THEN Refuse
          ELSE /\ visited' = visited \cup {u}
               /\ queue' = (queue \cup reached) \ (visited \cup {u})
               /\ UNCHANGED <<rules, boot, pair>>

AliasNext == NextPair \/ \E u \in queue : Expand(u)
===============================================================================
