------------------------- MODULE ProviderTerminalProofs -------------------------
(***************************************************************************)
(* Proofs about ProviderTerminal, for any number of blocks of an answer,   *)
(* turns, refreshes and requests beside it: what a streaming client has    *)
(* received, and what still waits to be written to it, is at every moment  *)
(* the beginning of a well-formed message, which an item the upstream has  *)
(* sent whole is in whole, and no context overflow becomes an answer.      *)
(*                                                                         *)
(* The events that wait are followed to the client they lead to (Leads),   *)
(* and that client is abreast of the translator (Abreast).  So each event  *)
(* of the upstream is one question, whether the client is still abreast    *)
(* once it has received what the event is translated to (Progress), and    *)
(* each event written is one the client expects next (Expects).            *)
(***************************************************************************)
EXTENDS ProviderTerminal, SequenceTheorems, TLAPS

-------------------------------------------------------------------------------
Items == Kinds \cup {"other"}
Speaking == {"between", "open", "part", "said", "whole"}
BlockKinds == {"message", "reasoning", "function_call"}
DeltaKinds == {"text", "thinking", "signature", "input"}

EventNames ==
    {"message_start", "content_block_start", "content_block_delta", "content_block_stop",
     "message_delta", "message_stop", "error"}
StopReasons == {"tool_use", "end_turn", "max_tokens", "refusal"}
EventKinds == BlockKinds \cup DeltaKinds \cup StopReasons \cup {""}
Emissions == [name : EventNames, idx : Int, kind : EventKinds]
Lasts == (EventNames \cup EventKinds \cup {"none"}) \X Int
Clients ==
    [phase : {"none", "open", "closing", "ended"}, block : Int, kind : BlockKinds \cup {""},
     next : 0..MaxBlocks, last : Lasts, deltas : SUBSET DeltaKinds]
Translators ==
    [carry : BOOLEAN, omit : BOOLEAN, started : BOOLEAN, ended : BOOLEAN, cur : Int,
     type : BlockKinds \cup {""}, lastType : BlockKinds \cup {""}, next : Nat, parts : Nat,
     reading : BOOLEAN, args : BOOLEAN, usage : Sizes]
Upstreams ==
    [stage : {"new", "erred", "over"} \cup Speaking, item : Items \cup {NoItem},
     blocks : 0..MaxBlocks, said : BOOLEAN, seal : {"", "signed"}, acted : BOOLEAN,
     overflow : BOOLEAN]
Calls ==
    [pc : {"idle", "gate", "clear", "translate", "turn", "build", "send", "refresh", "rebuild",
           "resend", "failing", "classify", "pipe", "collect", "drain", "record"},
     stream : BOOLEAN, matched : BOOLEAN, omit : BOOLEAN, newTurn : BOOLEAN,
     sent : 0..MaxRefreshes, late : BOOLEAN, gone : BOOLEAN, dies : BOOLEAN, answer : Answers]

(* The events that a client expects next, as MessageStream has them, and   *)
(* a whole sequence of them that leads it from c to d.                     *)
Expects(c, e) ==
    \/ e.name = "message_start" /\ e.idx = NoBlock /\ c.phase = "none"
    \/ /\ e.name = "content_block_start" /\ e.idx = c.next /\ e.kind \in BlockKinds
       /\ c.phase = "open" /\ c.block = NoBlock /\ c.next < MaxBlocks
    \/ /\ e.name = "content_block_delta" /\ e.idx = c.block
       /\ e.kind \in DeltaKinds /\ Claude!Fits(e.kind, c.kind)
       /\ c.phase = "open" /\ c.block # NoBlock
    \/ e.name = "content_block_stop" /\ e.idx = c.block /\ c.phase = "open" /\ c.block # NoBlock
    \/ e.name = "message_delta" /\ e.idx = NoBlock /\ c.phase = "open" /\ c.block = NoBlock
    \/ e.name = "message_stop" /\ e.idx = NoBlock /\ c.phase = "closing"
    \/ e.name = "error" /\ e.idx = NoBlock

Leads(c, s, d) ==
    \E f \in [1..(Len(s) + 1) -> Clients] :
        /\ f[1] = c /\ f[Len(s) + 1] = d
        /\ \A i \in 1..Len(s) : Expects(f[i], s[i]) /\ f[i + 1] = Received(f[i], s[i])
        /\ \A i \in 1..(Len(s) + 1) : f[i].next <= d.next

(* How far the translator is, by how far the upstream is.                  *)
TranslatorOK(t, u) ==
    /\ t.next \in 0..u.blocks /\ t.cur \in {NoBlock, t.next - 1}
    /\ t.cur \in -1..(t.next - 1) /\ (t.cur = NoBlock <=> t.type = "")

Translating(t, u) ==
    /\ u.stage = "new" => u = FreshUpstream /\ t = NewStreamTranslator(t.carry, t.omit)
    /\ u.stage \in Speaking \cup {"erred"} => t.started /\ ~t.ended
    /\ u.stage \in Speaking \ {"between"} => u.item # NoItem
    /\ u.stage = "between" => t.cur = NoBlock
    /\ u.stage = "open" => t.type = IF u.item = "other" THEN "" ELSE BlockOf(u.item)
    /\ u.stage = "part" => u.item = "reasoning" /\ t.type = "reasoning"
    /\ u.stage = "said" => u.item # "other" /\ t.type = BlockOf(u.item)
    /\ u.stage = "whole" =>
          IF u.item = "reasoning" THEN t.type = "reasoning" \/ (t.type = "" /\ ~t.carry)
          ELSE u.item # "other" /\ t.type = ""
    /\ u.stage \in Speaking => (t.reading <=> u.item = "Read" /\ u.stage \in {"open", "said"})

(* A client that has received what was translated: what it shows, and what *)
(* it has been told of the item, given the kinds of the deltas to it.      *)
Sees(c, t) ==
    /\ c.phase = IF ~t.started THEN "none" ELSE IF t.ended THEN "ended" ELSE "open"
    /\ c.block = t.cur /\ c.kind = t.type /\ c.next = t.next
Tells(deltas, t, u) ==
    /\ u.said =>
         \/ u.item = "message" /\ "text" \in deltas
         \/ u.item = "function_call" /\ "input" \in deltas
         \/ u.item = "Read" /\ (u.stage \in {"whole", "between"} => "input" \in deltas)
         \/ u.item = "reasoning" /\ (t.omit \/ "thinking" \in deltas)
    /\ u.stage = "between" /\ u.seal = "signed" /\ t.carry => "signature" \in deltas

Abreast(c, t, u) ==
    /\ c \in Clients /\ t \in Translators /\ u \in Upstreams
    /\ TranslatorOK(t, u) /\ Translating(t, u) /\ Sees(c, t) /\ Tells(c.deltas, t, u)

(* A result of the translator that brings client c to where the translator *)
(* is, with these deltas to the last block.                                *)
Brings(c, r, deltas) ==
    /\ r.t \in Translators /\ r.out \in Seq(Emissions)
    /\ \E d \in Clients : Leads(c, r.out, d) /\ Sees(d, r.t) /\ d.deltas = deltas
UnderWay(t) == t.started /\ ~t.ended /\ (t.cur = NoBlock <=> t.type = "")

-------------------------------------------------------------------------------
(* Receiving events one by one: what an event changes, and what it leaves. *)
LEMMA ReceivedShape ==
    ASSUME NEW c, NEW e, NEW d, d = Received(c, e)
    PROVE  d = [phase |-> d.phase, block |-> d.block, kind |-> d.kind, next |-> d.next,
                last |-> d.last, deltas |-> d.deltas]
BY Zenon DEF Received

LEMMA ReceivedPhase ==
    ASSUME NEW c, NEW e, NEW d, d = Received(c, e)
    PROVE  /\ e.name = "message_start" => d.phase = "open"
           /\ e.name = "message_delta" => d.phase = "closing"
           /\ e.name = "message_stop" => d.phase = "ended"
           /\ e.name \notin {"message_start", "message_delta", "message_stop"} => d.phase = c.phase
BY Zenon DEF Received

LEMMA ReceivedLast ==
    ASSUME NEW c, NEW e, NEW d, d = Received(c, e)
    PROVE  /\ e.name = "content_block_delta" => d.last = <<e.kind, e.idx>>
           /\ e.name # "content_block_delta" => d.last = <<e.name, e.idx>>
BY Zenon DEF Received

LEMMA ReceivedOpening ==
    ASSUME NEW c, NEW e, NEW d, d = Received(c, e), e.name = "content_block_start"
    PROVE  d.block = e.idx /\ d.kind = e.kind /\ d.next = e.idx + 1 /\ d.deltas = {}
BY Zenon DEF Received

LEMMA ReceivedClosing ==
    ASSUME NEW c, NEW e, NEW d, d = Received(c, e), e.name = "content_block_stop"
    PROVE  d.block = NoBlock /\ d.kind = "" /\ d.next = c.next /\ d.deltas = c.deltas
BY Zenon DEF Received

LEMMA ReceivedDelta ==
    ASSUME NEW c, NEW e, NEW d, d = Received(c, e), e.name = "content_block_delta"
    PROVE  d.block = c.block /\ d.kind = c.kind /\ d.next = c.next /\ d.deltas = c.deltas \cup {e.kind}
BY Zenon DEF Received

LEMMA ReceivedOther ==
    ASSUME NEW c, NEW e, NEW d, d = Received(c, e),
           e.name \notin {"content_block_start", "content_block_stop", "content_block_delta"}
    PROVE  d.block = c.block /\ d.kind = c.kind /\ d.next = c.next /\ d.deltas = c.deltas
BY Zenon DEF Received

LEMMA NoBlockIsInt == NoBlock \in Int /\ \A n \in Nat : n # NoBlock
BY DEF NoBlock

LEMMA ReceivedFacts ==
    ASSUME NEW c \in Clients, NEW e \in Emissions, Expects(c, e)
    PROVE  Received(c, e) \in Clients /\ c.next <= Received(c, e).next
<1>1. PICK d : d = Received(c, e)
  OBVIOUS
<1>2. /\ c.phase \in {"none", "open", "closing", "ended"} /\ c.block \in Int
      /\ c.kind \in BlockKinds \cup {""} /\ c.deltas \in SUBSET DeltaKinds
  BY DEF Clients
<1>3. MaxBlocks \in Nat /\ c.next \in 0..MaxBlocks
  BY TerminalAssumption DEF Clients
<1>4. e.name \in EventNames /\ e.idx \in Int /\ e.kind \in EventKinds
  BY DEF Emissions
<1>5. d.phase \in {"none", "open", "closing", "ended"}
  BY <1>1, <1>2, ReceivedPhase, ZenonT(40)
<1>6. d.last \in Lasts
  <2>1. d.last = <<e.kind, e.idx>> \/ d.last = <<e.name, e.idx>>
    BY <1>1, ReceivedLast
  <2> QED
    BY <1>4, <2>1 DEF Lasts
<1>7. d.next \in 0..MaxBlocks /\ c.next <= d.next
  <2>1. CASE e.name = "content_block_start"
    <3>1. e.idx = c.next /\ c.next < MaxBlocks
      BY <2>1 DEF Expects
    <3>2. d.next = e.idx + 1
      BY <1>1, <2>1, ReceivedOpening
    <3> QED
      BY <1>3, <3>1, <3>2
  <2>2. CASE e.name # "content_block_start"
    <3>1. d.next = c.next
      BY <1>1, <2>2, Zenon DEF Received
    <3> QED
      BY <1>3, <3>1
  <2> QED
    BY <2>1, <2>2
<1>8. /\ d.block \in Int /\ d.kind \in BlockKinds \cup {""} /\ d.deltas \in SUBSET DeltaKinds
  <2>1. CASE e.name = "content_block_start"
    <3>1. e.kind \in BlockKinds
      BY <2>1 DEF Expects
    <3>2. d.block = e.idx /\ d.kind = e.kind /\ d.deltas = {}
      BY <1>1, <2>1, ReceivedOpening
    <3> QED
      BY <1>4, <3>1, <3>2
  <2>2. CASE e.name = "content_block_stop"
    <3>1. d.block = NoBlock /\ d.kind = "" /\ d.deltas = c.deltas
      BY <1>1, <2>2, ReceivedClosing
    <3>2. d.block \in Int
      BY <3>1, NoBlockIsInt
    <3> QED
      BY <1>2, <3>1, <3>2
  <2>3. CASE e.name = "content_block_delta"
    <3>1. e.kind \in DeltaKinds
      BY <2>3 DEF Expects
    <3>2. d.block = c.block /\ d.kind = c.kind /\ d.deltas = c.deltas \cup {e.kind}
      BY <1>1, <2>3, ReceivedDelta
    <3> QED
      BY <1>2, <3>1, <3>2
  <2>4. CASE e.name \notin {"content_block_start", "content_block_stop", "content_block_delta"}
    <3>1. d.block = c.block /\ d.kind = c.kind /\ d.deltas = c.deltas
      BY <1>1, <2>4, ReceivedOther
    <3> QED
      BY <1>2, <3>1
  <2> QED
    BY <2>1, <2>2, <2>3, <2>4
<1>9. d \in Clients
  <2>1. d = [phase |-> d.phase, block |-> d.block, kind |-> d.kind, next |-> d.next,
             last |-> d.last, deltas |-> d.deltas]
    BY <1>1, ReceivedShape
  <2>2. d.next \in 0..MaxBlocks
    BY <1>7
  <2> QED
    BY <1>5, <1>6, <1>8, <2>1, <2>2 DEF Clients
<1> QED
  BY <1>1, <1>7, <1>9

LEMMA NextIsNat == \A c \in Clients : c.next \in Nat
<1>1. MaxBlocks \in Nat
  BY TerminalAssumption
<1>2. \A c \in Clients : c.next \in 0..MaxBlocks
  BY DEF Clients
<1> QED
  BY <1>1, <1>2

LEMMA LeadsNowhere ==
    ASSUME NEW c \in Clients
    PROVE  Leads(c, <<>>, c)
<1> DEFINE f == [i \in 1..1 |-> c]
<1>1. Len(<<>>) = 0 /\ f \in [1..1 -> Clients] /\ f[1] = c /\ \A i \in 1..1 : f[i].next <= c.next
  BY NextIsNat
<1> HIDE DEF f
<1> QED
  BY <1>1 DEF Leads

LEMMA LeadsOne ==
    ASSUME NEW c \in Clients, NEW e \in Emissions, Expects(c, e)
    PROVE  Leads(c, <<e>>, Received(c, e)) /\ Received(c, e) \in Clients
<1> DEFINE d == Received(c, e)
           f == [i \in 1..2 |-> IF i = 1 THEN c ELSE d]
<1>1. d \in Clients /\ c.next <= d.next /\ d.next <= d.next
  BY ReceivedFacts, NextIsNat
<1> HIDE DEF d
<1>2. f \in [1..2 -> Clients] /\ f[1] = c /\ f[2] = d /\ \A i \in 1..2 : f[i].next <= d.next
  BY <1>1
<1>3. Len(<<e>>) = 1 /\ <<e>>[1] = e
  OBVIOUS
<1>4. \A i \in 1..1 : i = 1 /\ i + 1 = 2
  OBVIOUS
<1> HIDE DEF f
<1>5. \A i \in 1..Len(<<e>>) : Expects(f[i], <<e>>[i]) /\ f[i + 1] = Received(f[i], <<e>>[i])
  BY <1>2, <1>3, <1>4 DEF d
<1>6. Leads(c, <<e>>, d)
  BY <1>2, <1>3, <1>5 DEF Leads
<1> QED
  BY <1>1, <1>6 DEF d

LEMMA LeadsOn ==
    ASSUME NEW c, NEW d \in Clients, NEW e \in Clients,
           NEW s \in Seq(Emissions), NEW t \in Seq(Emissions), Leads(c, s, d), Leads(d, t, e)
    PROVE  Leads(c, s \o t, e)
<1>1. PICK f \in [1..(Len(s) + 1) -> Clients] :
         /\ f[1] = c /\ f[Len(s) + 1] = d
         /\ \A i \in 1..Len(s) : Expects(f[i], s[i]) /\ f[i + 1] = Received(f[i], s[i])
         /\ \A i \in 1..(Len(s) + 1) : f[i].next <= d.next
  BY DEF Leads
<1>2. PICK g \in [1..(Len(t) + 1) -> Clients] :
         /\ g[1] = d /\ g[Len(t) + 1] = e
         /\ \A i \in 1..Len(t) : Expects(g[i], t[i]) /\ g[i + 1] = Received(g[i], t[i])
         /\ \A i \in 1..(Len(t) + 1) : g[i].next <= e.next
  BY DEF Leads
<1> DEFINE m == Len(s)
           n == Len(t)
           st == s \o t
           h == [i \in 1..(m + n + 1) |-> IF i <= m + 1 THEN f[i] ELSE g[i - m]]
<1>3. /\ m \in Nat /\ n \in Nat /\ Len(st) = m + n
      /\ \A i \in 1..m : st[i] = s[i]
      /\ \A i \in (m + 1)..(m + n) : st[i] = t[i - m]
  OBVIOUS
<1> HIDE DEF m, n, st
<1>4. h \in [1..(m + n + 1) -> Clients]
  <2>1. \A i \in 1..(m + n + 1) : (i <= m + 1 => i \in 1..(m + 1)) /\ (~(i <= m + 1) => i - m \in 1..(n + 1))
    BY <1>3
  <2>2. \A i \in 1..(m + 1) : f[i] \in Clients
    BY DEF m
  <2>3. \A i \in 1..(n + 1) : g[i] \in Clients
    BY DEF n
  <2> QED
    BY <2>1, <2>2, <2>3
<1>5. \A i \in 1..(m + 1) : h[i] = f[i]
  BY <1>3
<1>6. \A i \in (m + 1)..(m + n + 1) : h[i] = g[i - m]
  <2> SUFFICES ASSUME NEW i \in (m + 1)..(m + n + 1) PROVE h[i] = g[i - m]
    OBVIOUS
  <2>1. CASE i = m + 1
    <3>1. i - m = 1 /\ h[i] = f[m + 1]
      BY <1>3, <2>1
    <3> QED
      BY <1>1, <1>2, <3>1 DEF m
  <2>2. CASE i # m + 1
    BY <1>3, <2>2
  <2> QED
    BY <2>1, <2>2
<1> HIDE DEF h
<1>7. h[1] = c /\ h[m + n + 1] = e
  <2>1. 1 \in 1..(m + 1) /\ m + n + 1 \in (m + 1)..(m + n + 1) /\ (m + n + 1) - m = n + 1
    BY <1>3
  <2> QED
    BY <1>1, <1>2, <1>5, <1>6, <2>1 DEF n
<1>8. ASSUME NEW i \in 1..(m + n) PROVE Expects(h[i], st[i]) /\ h[i + 1] = Received(h[i], st[i])
  <2>1. CASE i <= m
    <3>1. i \in 1..m /\ i \in 1..(m + 1) /\ i + 1 \in 1..(m + 1)
      BY <1>3, <2>1
    <3> QED
      BY <1>1, <1>3, <1>5, <3>1 DEF m
  <2>2. CASE i > m
    <3>1. /\ i \in (m + 1)..(m + n) /\ i \in (m + 1)..(m + n + 1) /\ i + 1 \in (m + 1)..(m + n + 1)
          /\ i - m \in 1..n /\ (i + 1) - m = (i - m) + 1
      BY <1>3, <2>2
    <3>2. h[i] = g[i - m] /\ h[i + 1] = g[(i - m) + 1] /\ st[i] = t[i - m]
      BY <1>3, <1>6, <3>1
    <3> QED
      BY <1>2, <3>1, <3>2 DEF n
  <2> QED
    BY <1>3, <2>1, <2>2
<1>9. d.next \in Nat /\ e.next \in Nat /\ d.next <= e.next
  <2>1. 1 \in 1..(n + 1)
    BY <1>3
  <2> QED
    BY <1>2, <2>1, NextIsNat DEF n
<1>10. ASSUME NEW i \in 1..(m + n + 1) PROVE h[i].next <= e.next
  <2>1. h[i].next \in Nat
    BY <1>4, NextIsNat
  <2>2. CASE i <= m + 1
    <3>1. i \in 1..(m + 1)
      BY <1>3, <2>2
    <3>2. h[i].next <= d.next
      BY <1>1, <1>5, <3>1 DEF m
    <3> QED
      BY <1>9, <2>1, <3>2
  <2>3. CASE i > m + 1
    <3>1. i \in (m + 1)..(m + n + 1) /\ i - m \in 1..(n + 1)
      BY <1>3, <2>3
    <3> QED
      BY <1>2, <1>6, <3>1 DEF n
  <2> QED
    BY <1>3, <2>2, <2>3
<1>11. Len(st) + 1 = m + n + 1
  BY <1>3
<1> QED
  BY <1>3, <1>4, <1>7, <1>8, <1>10, <1>11 DEF Leads, st

LEMMA LeadsOff ==
    ASSUME NEW c \in Clients, NEW d \in Clients, NEW s \in Seq(Emissions), s # <<>>, Leads(c, s, d)
    PROVE  /\ Expects(c, Head(s)) /\ Head(s) \in Emissions
           /\ Leads(Received(c, Head(s)), Tail(s), d)
<1>1. PICK f \in [1..(Len(s) + 1) -> Clients] :
         /\ f[1] = c /\ f[Len(s) + 1] = d
         /\ \A i \in 1..Len(s) : Expects(f[i], s[i]) /\ f[i + 1] = Received(f[i], s[i])
         /\ \A i \in 1..(Len(s) + 1) : f[i].next <= d.next
  BY DEF Leads
<1> DEFINE n == Len(s) - 1
           t == Tail(s)
           g == [i \in 1..(n + 1) |-> f[i + 1]]
<1>2. /\ n \in Nat /\ Len(s) = n + 1 /\ Len(t) = n /\ s[1] = Head(s) /\ Head(s) \in Emissions
      /\ \A i \in 1..n : t[i] = s[i + 1]
  OBVIOUS
<1> HIDE DEF n, t
<1>3. 1 \in 1..Len(s) /\ 1 + 1 = 2
  BY <1>2
<1>4. Expects(c, Head(s)) /\ f[2] = Received(c, Head(s))
  BY <1>1, <1>2, <1>3
<1>5. \A i \in 1..(n + 1) : i + 1 \in 1..(Len(s) + 1)
  BY <1>2
<1>6. g \in [1..(n + 1) -> Clients]
  BY <1>5
<1>7. g[1] = Received(c, Head(s)) /\ g[n + 1] = d
  <2>1. 1 \in 1..(n + 1) /\ n + 1 \in 1..(n + 1) /\ n + 1 + 1 = Len(s) + 1
    BY <1>2
  <2> QED
    BY <1>1, <1>3, <1>4, <2>1
<1>8. ASSUME NEW i \in 1..n PROVE Expects(g[i], t[i]) /\ g[i + 1] = Received(g[i], t[i])
  <2>1. i \in 1..(n + 1) /\ i + 1 \in 1..(n + 1) /\ i + 1 \in 1..Len(s)
    BY <1>2
  <2>2. g[i] = f[i + 1] /\ g[i + 1] = f[i + 1 + 1] /\ t[i] = s[i + 1]
    BY <1>2, <2>1
  <2> HIDE DEF g
  <2> QED
    BY <1>1, <2>1, <2>2
<1>9. \A i \in 1..(n + 1) : g[i].next <= d.next
  BY <1>1, <1>5
<1> HIDE DEF g
<1>10. Leads(Received(c, Head(s)), t, d)
  BY <1>2, <1>6, <1>7, <1>8, <1>9 DEF Leads
<1> QED
  BY <1>2, <1>4, <1>10 DEF t

LEMMA LeadsBound ==
    ASSUME NEW c \in Clients, NEW d \in Clients, NEW s \in Seq(Emissions), Leads(c, s, d)
    PROVE  c.next <= d.next /\ (s = <<>> => c = d)
<1>1. 1 \in 1..(Len(s) + 1) /\ (s = <<>> => Len(s) = 0)
  OBVIOUS
<1> QED
  BY <1>1 DEF Leads

-------------------------------------------------------------------------------
(* What the translator does, one emission at a time.                       *)
LEMMA TranslatorFields ==
    ASSUME NEW t \in Translators
    PROVE  /\ t.started \in BOOLEAN /\ t.ended \in BOOLEAN /\ t.cur \in Int /\ t.next \in Nat
           /\ t.type \in BlockKinds \cup {""} /\ t.lastType \in BlockKinds \cup {""}
           /\ t.carry \in BOOLEAN /\ t.omit \in BOOLEAN /\ t.reading \in BOOLEAN
           /\ t.args \in BOOLEAN /\ t.parts \in Nat /\ t.usage \in Sizes
BY DEF Translators

LEMMA BringsNothing ==
    ASSUME NEW c \in Clients, NEW t \in Translators, Sees(c, t)
    PROVE  Brings(c, Result(t, <<>>), c.deltas)
<1>1. Result(t, <<>>).t = t /\ Result(t, <<>>).out = <<>>
  BY DEF Result
<1>2. <<>> \in Seq(Emissions)
  OBVIOUS
<1> QED
  BY <1>1, <1>2, LeadsNowhere DEF Brings

LEMMA BringsOne ==
    ASSUME NEW c \in Clients, NEW t \in Translators, NEW e \in Emissions, Expects(c, e),
           NEW D, Received(c, e).deltas = D, Sees(Received(c, e), t)
    PROVE  Brings(c, Result(t, <<e>>), D)
<1>1. Result(t, <<e>>).t = t /\ Result(t, <<e>>).out = <<e>>
  BY DEF Result
<1>2. <<e>> \in Seq(Emissions)
  OBVIOUS
<1> QED
  BY <1>1, <1>2, LeadsOne DEF Brings

LEMMA BringsOn ==
    ASSUME NEW c \in Clients, NEW r, NEW q, NEW D, NEW E, Brings(c, r, D),
           \A d \in Clients : Sees(d, r.t) /\ d.deltas = D => Brings(d, q, E)
    PROVE  Brings(c, Result(q.t, r.out \o q.out), E)
<1> DEFINE s == r.out \o q.out
<1>1. PICK d \in Clients : Leads(c, r.out, d) /\ Sees(d, r.t) /\ d.deltas = D
  BY DEF Brings
<1>2. Brings(d, q, E)
  BY <1>1
<1>3. PICK e \in Clients : Leads(d, q.out, e) /\ Sees(e, q.t) /\ e.deltas = E
  BY <1>2 DEF Brings
<1>4. q.t \in Translators /\ r.out \in Seq(Emissions) /\ q.out \in Seq(Emissions)
  BY <1>2 DEF Brings
<1>5. s \in Seq(Emissions) /\ Leads(c, s, e)
  BY <1>1, <1>3, <1>4, LeadsOn
<1>6. Result(q.t, s).t = q.t /\ Result(q.t, s).out = s
  BY DEF Result
<1> HIDE DEF s
<1>7. Brings(c, Result(q.t, s), E)
  BY <1>3, <1>4, <1>5, <1>6 DEF Brings
<1> QED
  BY <1>7 DEF s

LEMMA Emits ==
    ASSUME NEW n \in EventNames, NEW i \in Int, NEW k \in EventKinds
    PROVE  /\ Emit(n, i, k) \in Emissions
           /\ Emit(n, i, k).name = n /\ Emit(n, i, k).idx = i /\ Emit(n, i, k).kind = k
BY DEF Emit, Emissions

LEMMA OpensBlock ==
    ASSUME NEW c \in Clients, NEW t \in Translators, Sees(c, t), UnderWay(t), t.cur = NoBlock,
           t.next < MaxBlocks, NEW item \in Kinds
    PROVE  Brings(c, OpenBlock(t, item), {})
<1>1. PICK e : e = Emit("content_block_start", t.next, BlockOf(item))
  OBVIOUS
<1>2. PICK P, R, A : /\ P = IF item = "reasoning" THEN 0 ELSE t.parts
                     /\ R = (t.reading \/ item = "Read") /\ A = (t.args /\ item # "Read")
  OBVIOUS
<1>3. PICK s : s = [t EXCEPT !.cur = t.next, !.next = t.next + 1, !.type = BlockOf(item),
                             !.parts = P, !.reading = R, !.args = A]
  OBVIOUS
<1>4. OpenBlock(t, item) = Result(s, <<e>>)
  BY <1>1, <1>2, <1>3, Zenon DEF OpenBlock
<1>5. BlockOf(item) \in BlockKinds
  BY DEF BlockOf, BlockKinds, Kinds
<1>6. t.next \in Int /\ t.next \in Nat /\ t.next + 1 \in Nat
  <2>1. t.next \in Nat
    BY TranslatorFields
  <2> QED
    BY <2>1
<1>7. /\ e \in Emissions /\ e.name = "content_block_start" /\ e.idx = t.next
       /\ e.kind = BlockOf(item)
  <2>1. BlockOf(item) \in EventKinds /\ "content_block_start" \in EventNames
    BY <1>5 DEF EventKinds, EventNames
  <2> QED
    BY <1>1, <1>6, <2>1, Emits
<1>8. s \in Translators
  <2>1. P \in Nat /\ R \in BOOLEAN /\ A \in BOOLEAN
    BY <1>2, TranslatorFields
  <2> QED
    BY <1>3, <1>5, <1>6, <2>1 DEF Translators
<1>9. /\ s.cur = t.next /\ s.next = t.next + 1 /\ s.type = BlockOf(item)
      /\ s.started = t.started /\ s.ended = t.ended
  BY <1>3, TranslatorFields DEF Translators
<1>10. Expects(c, e)
  BY <1>5, <1>7 DEF Sees, UnderWay, Expects
<1>11. PICK d : d = Received(c, e)
  OBVIOUS
<1>12. d.block = e.idx /\ d.kind = e.kind /\ d.next = e.idx + 1 /\ d.deltas = {}
  BY <1>7, <1>11, ReceivedOpening
<1>13. d.phase = c.phase
  BY <1>7, <1>11, ReceivedPhase
<1>14. Sees(d, s)
  BY <1>7, <1>9, <1>12, <1>13 DEF Sees
<1> QED
  BY <1>4, <1>7, <1>8, <1>10, <1>11, <1>12, <1>14, BringsOne

LEMMA Opened ==
    ASSUME NEW t \in Translators, NEW item \in Kinds, NEW s, s = OpenBlock(t, item).t
    PROVE  /\ s.cur = t.next /\ s.next = t.next + 1 /\ s.type = BlockOf(item)
           /\ s.started = t.started /\ s.ended = t.ended /\ s.omit = t.omit
           /\ (s.reading <=> t.reading \/ item = "Read")
<1>1. PICK P, R, A : /\ P = IF item = "reasoning" THEN 0 ELSE t.parts
                     /\ R = (t.reading \/ item = "Read") /\ A = (t.args /\ item # "Read")
  OBVIOUS
<1>2. s = [t EXCEPT !.cur = t.next, !.next = t.next + 1, !.type = BlockOf(item),
                    !.parts = P, !.reading = R, !.args = A]
  BY <1>1, Zenon DEF OpenBlock, Result
<1>3. /\ s.cur = t.next /\ s.next = t.next + 1 /\ s.type = BlockOf(item)
      /\ s.started = t.started /\ s.ended = t.ended /\ s.omit = t.omit /\ s.reading = R
  BY <1>2 DEF Translators
<1> QED
  BY <1>1, <1>3, Zenon

LEMMA ClosesBlock ==
    ASSUME NEW c \in Clients, NEW t \in Translators, Sees(c, t), UnderWay(t)
    PROVE  Brings(c, CloseBlock(t), c.deltas)
<1>1. CASE t.cur = NoBlock
  <2>1. CloseBlock(t) = Result(t, <<>>)
    BY <1>1 DEF CloseBlock, Nothing
  <2> QED
    BY <2>1, BringsNothing
<1>2. CASE t.cur # NoBlock
  <2>1. PICK e : e = Emit("content_block_stop", t.cur, "")
    OBVIOUS
  <2>2. PICK s : s = [t EXCEPT !.lastType = t.type, !.cur = NoBlock, !.type = ""]
    OBVIOUS
  <2>3. CloseBlock(t) = Result(s, <<e>>)
    BY <1>2, <2>1, <2>2 DEF CloseBlock
  <2>4. e \in Emissions /\ e.name = "content_block_stop" /\ e.idx = t.cur
    <3>1. t.cur \in Int /\ "" \in EventKinds /\ "content_block_stop" \in EventNames
      BY TranslatorFields DEF EventKinds, EventNames
    <3>2. /\ Emit("content_block_stop", t.cur, "") \in Emissions
          /\ Emit("content_block_stop", t.cur, "").name = "content_block_stop"
          /\ Emit("content_block_stop", t.cur, "").idx = t.cur
      BY <3>1 DEF Emit, Emissions
    <3> QED
      BY <2>1, <3>2
  <2>5. s \in Translators
    BY <2>2, TranslatorFields, NoBlockIsInt DEF Translators
  <2>6. /\ s.cur = NoBlock /\ s.next = t.next /\ s.type = ""
        /\ s.started = t.started /\ s.ended = t.ended
    BY <2>2 DEF Translators
  <2>7. Expects(c, e)
    BY <1>2, <2>4 DEF Sees, UnderWay, Expects
  <2>8. PICK d : d = Received(c, e)
    OBVIOUS
  <2>9. d.block = NoBlock /\ d.kind = "" /\ d.next = c.next /\ d.deltas = c.deltas
    BY <2>4, <2>8, ReceivedClosing
  <2>10. d.phase = c.phase
    BY <2>4, <2>8, ReceivedPhase
  <2>11. Sees(d, s)
    BY <2>6, <2>9, <2>10 DEF Sees
  <2> QED
    BY <2>3, <2>4, <2>5, <2>7, <2>8, <2>9, <2>11, BringsOne
<1> QED
  BY <1>1, <1>2

LEMMA SendsDelta ==
    ASSUME NEW c \in Clients, NEW t \in Translators, Sees(c, t), UnderWay(t), t.cur # NoBlock,
           NEW k \in DeltaKinds, Claude!Fits(k, t.type)
    PROVE  Brings(c, Result(t, <<Delta(t, k)>>), c.deltas \cup {k})
<1>1. PICK e : e = Delta(t, k)
  OBVIOUS
<1>2. e \in Emissions /\ e.name = "content_block_delta" /\ e.idx = t.cur /\ e.kind = k
  <2>1. t.cur \in Int /\ k \in EventKinds /\ "content_block_delta" \in EventNames
    BY TranslatorFields DEF EventKinds, EventNames
  <2> QED
    BY <1>1, <2>1, Emits DEF Delta
<1>3. Expects(c, e)
  BY <1>2 DEF Sees, UnderWay, Expects
<1>4. PICK d : d = Received(c, e)
  OBVIOUS
<1>5. d.block = c.block /\ d.kind = c.kind /\ d.next = c.next /\ d.deltas = c.deltas \cup {e.kind}
  BY <1>2, <1>4, ReceivedDelta
<1>6. d.phase = c.phase
  BY <1>2, <1>4, ReceivedPhase
<1>7. Sees(d, t)
  BY <1>5, <1>6 DEF Sees
<1> QED
  BY <1>1, <1>2, <1>3, <1>4, <1>5, <1>7, BringsOne

(* The result of a translation that appends to what came before.           *)
LEMMA BringsThenCloses ==
    ASSUME NEW c \in Clients, NEW t \in Translators, NEW deltas, NEW D,
           UnderWay(t), Brings(c, Result(t, deltas), D)
    PROVE  Brings(c, ThenClose(t, deltas), D)
<1>1. PICK r : r = Result(t, deltas)
  OBVIOUS
<1>2. r.t = t /\ r.out = deltas
  BY <1>1 DEF Result
<1>3. PICK q : q = CloseBlock(t)
  OBVIOUS
<1>4. \A d \in Clients : Sees(d, r.t) /\ d.deltas = D => Brings(d, q, D)
  BY <1>2, <1>3, ClosesBlock
<1>5. Brings(c, Result(q.t, r.out \o q.out), D)
  BY <1>1, <1>4, BringsOn
<1>6. ThenClose(t, deltas) = Result(q.t, deltas \o q.out)
  BY <1>3 DEF ThenClose
<1> QED
  BY <1>2, <1>5, <1>6

LEMMA CloseIsThenClose ==
    ASSUME NEW c \in Clients, NEW t \in Translators, Sees(c, t), UnderWay(t)
    PROVE  CloseBlock(t) = Result(CloseBlock(t).t, <<>> \o CloseBlock(t).out)
<1>1. PICK r : r = CloseBlock(t)
  OBVIOUS
<1>2. r = Result(r.t, r.out)
  BY <1>1 DEF CloseBlock, Nothing, Result
<1>3. r.out \in Seq(Emissions)
  BY <1>1, ClosesBlock DEF Brings
<1>4. <<>> \o r.out = r.out
  BY <1>3
<1> QED
  BY <1>1, <1>2, <1>4

(* The block closed, the rest of the translator as it was.                 *)
LEMMA Closed ==
    ASSUME NEW t \in Translators, NEW s, s = CloseBlock(t).t, t.cur = NoBlock <=> t.type = ""
    PROVE  /\ s \in Translators /\ s.cur = NoBlock /\ s.type = "" /\ s.next = t.next
           /\ s.started = t.started /\ s.ended = t.ended /\ s.omit = t.omit
           /\ s.carry = t.carry /\ s.reading = t.reading /\ s.usage = t.usage
<1>1. CASE t.cur = NoBlock
  BY <1>1 DEF CloseBlock, Nothing, Result
<1>2. CASE t.cur # NoBlock
  <2>1. s = [t EXCEPT !.lastType = t.type, !.cur = NoBlock, !.type = ""]
    BY <1>2 DEF CloseBlock, Result
  <2> QED
    BY <2>1, TranslatorFields, NoBlockIsInt DEF Translators
<1> QED
  BY <1>1, <1>2

LEMMA OneThenOther ==
    ASSUME NEW S, NEW x \in S, NEW y \in S
    PROVE  <<x>> \o <<y>> = <<x, y>>
<1>1. <<x>> \o <<y>> \in Seq(S) /\ Len(<<x>> \o <<y>>) = 2
  OBVIOUS
<1>2. <<x, y>> \in Seq(S) /\ Len(<<x, y>>) = 2
  OBVIOUS
<1>3. \A i \in 1..2 : (<<x>> \o <<y>>)[i] = <<x, y>>[i]
  OBVIOUS
<1> QED
  BY <1>1, <1>2, <1>3, SeqEqual

(* The two events that end a message.                                      *)
LEMMA BringsEnd ==
    ASSUME NEW c \in Clients, NEW t \in Translators, Sees(c, t), UnderWay(t), t.cur = NoBlock,
           NEW stop \in StopReasons, NEW s \in Translators, s.started, s.ended,
           s.cur = t.cur, s.type = t.type, s.next = t.next
    PROVE  Brings(c, Result(s, <<Emit("message_delta", NoBlock, stop),
                                 Emit("message_stop", NoBlock, "")>>), c.deltas)
<1>1. PICK e, f : e = Emit("message_delta", NoBlock, stop) /\ f = Emit("message_stop", NoBlock, "")
  OBVIOUS
<1>2. e \in Emissions /\ e.name = "message_delta" /\ e.idx = NoBlock
  <2>1. NoBlock \in Int /\ stop \in EventKinds /\ "message_delta" \in EventNames
    BY NoBlockIsInt DEF EventKinds, EventNames
  <2> QED
    BY <1>1, <2>1 DEF Emit, Emissions
<1>3. f \in Emissions /\ f.name = "message_stop" /\ f.idx = NoBlock
  <2>1. NoBlock \in Int /\ "" \in EventKinds /\ "message_stop" \in EventNames
    BY NoBlockIsInt DEF EventKinds, EventNames
  <2> QED
    BY <1>1, <2>1 DEF Emit, Emissions
<1>4. Expects(c, e)
  BY <1>2 DEF Sees, UnderWay, Expects
<1>5. PICK d : d = Received(c, e)
  OBVIOUS
<1>6. d \in Clients /\ Leads(c, <<e>>, d)
  BY <1>2, <1>4, <1>5, LeadsOne
<1>7. d.phase = "closing" /\ d.block = c.block /\ d.kind = c.kind /\ d.next = c.next /\ d.deltas = c.deltas
  BY <1>2, <1>5, ReceivedPhase, ReceivedOther
<1>8. Expects(d, f)
  BY <1>3, <1>7 DEF Expects
<1>9. PICK g : g = Received(d, f)
  OBVIOUS
<1>10. g \in Clients /\ Leads(d, <<f>>, g)
  BY <1>3, <1>6, <1>8, <1>9, LeadsOne
<1>11. g.phase = "ended" /\ g.block = d.block /\ g.kind = d.kind /\ g.next = d.next /\ g.deltas = d.deltas
  BY <1>3, <1>9, ReceivedPhase, ReceivedOther
<1>12. <<e>> \in Seq(Emissions) /\ <<f>> \in Seq(Emissions) /\ <<e>> \o <<f>> = <<e, f>>
  <2>1. e \in Emissions /\ f \in Emissions
    BY <1>2, <1>3
  <2> QED
    BY <2>1, OneThenOther
<1>13. Leads(c, <<e, f>>, g)
  BY <1>6, <1>10, <1>12, LeadsOn
<1>14. Sees(g, s)
  BY <1>7, <1>11 DEF Sees
<1>15. PICK r : r = Result(s, <<e, f>>)
  OBVIOUS
<1>16. r.t = s /\ r.out = <<e, f>>
  BY <1>15 DEF Result
<1>17. <<e, f>> \in Seq(Emissions)
  BY <1>2, <1>3
<1>18. g.deltas = c.deltas
  BY <1>7, <1>11
<1> QED
  BY <1>1, <1>10, <1>13, <1>14, <1>15, <1>16, <1>17, <1>18 DEF Brings

(* Finalize closes what is open; the rest of the translator stays.         *)
Finalized(t, z) ==
    z.ended /\ z.cur = NoBlock /\ z.type = "" /\ z.next = t.next /\ z.omit = t.omit

LEMMA Finished ==
    ASSUME NEW t \in Translators, UnderWay(t), NEW stop, NEW usage \in Sizes
    PROVE  Finalized(t, Finalize(t, stop, usage).t)
<1>1. PICK s, U : s = CloseBlock(t).t /\ U = IF usage = "absent" THEN s.usage ELSE usage
  OBVIOUS
<1>2. /\ s \in Translators /\ s.cur = NoBlock /\ s.type = "" /\ s.next = t.next
      /\ s.omit = t.omit
  BY <1>1, Closed DEF UnderWay
<1>3. PICK z : z = [s EXCEPT !.ended = TRUE, !.usage = U]
  OBVIOUS
<1>4. Finalize(t, stop, usage).t = z
  BY <1>1, <1>3, Zenon DEF Finalize, Result, UnderWay
<1>5. z.ended /\ z.cur = s.cur /\ z.type = s.type /\ z.next = s.next /\ z.omit = s.omit
  BY <1>2, <1>3 DEF Translators
<1>6. Finalized(t, z)
  BY <1>2, <1>5 DEF Finalized
<1> QED
  BY <1>4, <1>6

LEMMA Finishes ==
    ASSUME NEW c \in Clients, NEW t \in Translators, Sees(c, t), UnderWay(t),
           NEW stop \in StopReasons, NEW usage \in Sizes
    PROVE  Brings(c, Finalize(t, stop, usage), c.deltas)
<1>1. PICK r, s, U : /\ r = CloseBlock(t) /\ s = r.t
                     /\ U = IF usage = "absent" THEN s.usage ELSE usage
  OBVIOUS
<1>2. /\ s \in Translators /\ s.cur = NoBlock /\ s.type = "" /\ s.next = t.next
      /\ s.started = t.started /\ s.ended = t.ended
  BY <1>1, Closed DEF UnderWay
<1>3. PICK z, o : /\ z = [s EXCEPT !.ended = TRUE, !.usage = U]
                  /\ o = <<Emit("message_delta", NoBlock, stop), Emit("message_stop", NoBlock, "")>>
  OBVIOUS
<1>4. Finalize(t, stop, usage) = Result(z, r.out \o o)
  BY <1>1, <1>3, Zenon DEF Finalize, UnderWay
<1>5. z \in Translators /\ z.cur = s.cur /\ z.type = s.type /\ z.next = s.next
  <2>1. U \in Sizes
    BY <1>1, <1>2, TranslatorFields
  <2> QED
    BY <1>2, <1>3, <2>1 DEF Translators
<1>6. UnderWay(s) /\ z.started /\ z.ended
  <2>1. z.started = s.started /\ z.ended
    BY <1>2, <1>3 DEF Translators
  <2> QED
    BY <1>2, <2>1 DEF UnderWay
<1>7. Brings(c, r, c.deltas)
  BY <1>1, ClosesBlock
<1>8. PICK q : q = Result(z, o)
  OBVIOUS
<1>9. ASSUME NEW d \in Clients, Sees(d, s), d.deltas = c.deltas PROVE Brings(d, q, c.deltas)
  <2>1. Brings(d, Result(z, o), d.deltas)
    BY <1>2, <1>3, <1>5, <1>6, <1>9, BringsEnd
  <2> QED
    BY <1>8, <1>9, <2>1
<1>10. q.t = z /\ q.out = o
  BY <1>8 DEF Result
<1>11. Brings(c, Result(z, r.out \o o), c.deltas)
  BY <1>1, <1>7, <1>9, <1>10, BringsOn
<1> QED
  BY <1>4, <1>11

-------------------------------------------------------------------------------
(* What the upstream says next takes the translator along, and a client    *)
(* that has received what was translated.                                  *)
Progress(c, r, u) ==
    /\ r.out \in Seq(Emissions)
    /\ \E d \in Clients : Leads(c, r.out, d) /\ Abreast(d, r.t, u)

LEMMA Progressing ==
    ASSUME NEW c \in Clients, NEW r, NEW D, NEW u \in Upstreams, Brings(c, r, D),
           TranslatorOK(r.t, u), Translating(r.t, u), Tells(D, r.t, u)
    PROVE  Progress(c, r, u)
BY DEF Brings, Progress, Abreast

LEMMA UpstreamFields ==
    ASSUME NEW u \in Upstreams
    PROVE  /\ u.stage \in {"new", "erred", "over"} \cup Speaking /\ u.item \in Items \cup {NoItem}
           /\ u.blocks \in 0..MaxBlocks /\ u.said \in BOOLEAN /\ u.acted \in BOOLEAN
           /\ u.overflow \in BOOLEAN
BY DEF Upstreams

LEMMA AbreastFacts ==
    ASSUME NEW c, NEW t, NEW u, Abreast(c, t, u), u.stage \in Speaking \cup {"erred"}
    PROVE  /\ c \in Clients /\ t \in Translators /\ u \in Upstreams
           /\ Sees(c, t) /\ UnderWay(t) /\ t.started /\ ~t.ended
           /\ TranslatorOK(t, u) /\ Translating(t, u) /\ Tells(c.deltas, t, u)
BY DEF Abreast, TranslatorOK, Translating, UnderWay

(* The blocks of the answer are counted alike.                             *)
LEMMA Counting ==
    ASSUME NEW n, NEW b, NEW m, n \in 0..b, b \in 0..MaxBlocks, m \in 0..MaxBlocks
    PROVE  /\ n \in Nat /\ NoBlock \in -1..(n - 1) /\ (b <= m => n \in 0..m)
           /\ (b < MaxBlocks => n < MaxBlocks)
BY TerminalAssumption DEF NoBlock

LEMMA BlocksStay ==
    ASSUME NEW u \in Upstreams, NEW v, v.blocks = u.blocks \/ v.blocks = u.blocks + 1
    PROVE  u.blocks <= v.blocks
<1>1. u.blocks \in 0..MaxBlocks /\ MaxBlocks \in Nat
  BY UpstreamFields, TerminalAssumption
<1> QED
  BY <1>1

LEMMA BlocksLeft ==
    ASSUME NEW t, NEW u \in Upstreams, TranslatorOK(t, u), u.blocks < MaxBlocks
    PROVE  t.next < MaxBlocks
<1>1. t.next \in 0..u.blocks
  BY DEF TranslatorOK
<1> QED
  BY <1>1, Counting, UpstreamFields

LEMMA SameBlocks ==
    ASSUME NEW t, NEW u \in Upstreams, TranslatorOK(t, u), NEW v \in Upstreams, u.blocks <= v.blocks,
           NEW s, s.next = t.next, \/ s.cur = t.cur /\ s.type = t.type
                                   \/ s.cur = NoBlock /\ s.type = ""
    PROVE  TranslatorOK(s, v)
<1>1. u.blocks \in 0..MaxBlocks /\ v.blocks \in 0..MaxBlocks
  BY UpstreamFields
<1>2. t.next \in 0..u.blocks /\ t.cur \in {NoBlock, t.next - 1} /\ t.cur \in -1..(t.next - 1)
  BY DEF TranslatorOK
<1>3. t.next \in 0..v.blocks /\ NoBlock \in -1..(t.next - 1)
  BY <1>1, <1>2, Counting
<1>4. s.cur \in {NoBlock, t.next - 1} /\ s.cur \in -1..(t.next - 1)
  <2>1. s.cur = t.cur \/ s.cur = NoBlock
    OBVIOUS
  <2> QED
    BY <1>2, <1>3, <2>1
<1>5. s.cur = NoBlock <=> s.type = ""
  BY DEF TranslatorOK
<1> QED
  BY <1>3, <1>4, <1>5 DEF TranslatorOK

LEMMA OneMoreBlock ==
    ASSUME NEW t, NEW u \in Upstreams, TranslatorOK(t, u), NEW v \in Upstreams, v.blocks = u.blocks + 1,
           NEW s, s.next = t.next + 1, s.cur = t.next, s.type \in BlockKinds
    PROVE  TranslatorOK(s, v)
<1>1. u.blocks \in 0..MaxBlocks /\ v.blocks \in 0..MaxBlocks /\ MaxBlocks \in Nat
  BY UpstreamFields, TerminalAssumption
<1>2. t.next \in 0..u.blocks
  BY DEF TranslatorOK
<1>3. t.next \in Nat /\ s.next \in 0..v.blocks /\ s.cur = s.next - 1 /\ s.cur \in -1..(s.next - 1)
  BY <1>1, <1>2
<1>4. s.cur # NoBlock /\ s.type # ""
  BY <1>3, NoBlockIsInt DEF BlockKinds
<1> QED
  BY <1>3, <1>4 DEF TranslatorOK

(* response.created                                                        *)
LEMMA CreatedProgress ==
    ASSUME NEW c, NEW t, NEW u, Abreast(c, t, u), u.stage = "new",
           NEW ev, ev.type = "created", NEW v \in Upstreams, v.stage = "between",
           v.blocks = u.blocks, v.said = u.said, v.item = u.item, v.seal = u.seal
    PROVE  Progress(c, Apply(t, ev), v)
<1>1. /\ c \in Clients /\ t \in Translators /\ u \in Upstreams /\ TranslatorOK(t, u)
      /\ u = FreshUpstream /\ t = NewStreamTranslator(t.carry, t.omit) /\ Sees(c, t)
  BY DEF Abreast, Translating
<1>2. /\ ~t.started /\ ~t.ended /\ t.cur = NoBlock /\ t.type = "" /\ t.reading = FALSE
      /\ u.said = FALSE /\ u.item = NoItem /\ u.seal = ""
  <2>1. PICK carry, omit : t = NewStreamTranslator(carry, omit)
    BY <1>1
  <2>2. ~t.started /\ ~t.ended /\ t.cur = NoBlock /\ t.type = "" /\ t.reading = FALSE
    BY <2>1 DEF NewStreamTranslator
  <2> QED
    BY <1>1, <2>2 DEF FreshUpstream
<1>3. PICK e, s : e = Emit("message_start", NoBlock, "") /\ s = [t EXCEPT !.started = TRUE]
  OBVIOUS
<1>4. Apply(t, ev) = Result(s, <<e>>)
  BY <1>2, <1>3, Zenon DEF Apply
<1>5. e \in Emissions /\ e.name = "message_start" /\ e.idx = NoBlock
  <2>1. NoBlock \in Int /\ "" \in EventKinds /\ "message_start" \in EventNames
    BY NoBlockIsInt DEF EventKinds, EventNames
  <2> QED
    BY <1>3, <2>1 DEF Emit, Emissions
<1>6. /\ s \in Translators /\ s.started /\ s.ended = t.ended /\ s.cur = t.cur /\ s.type = t.type
      /\ s.next = t.next /\ s.reading = t.reading
  BY <1>1, <1>3 DEF Translators
<1>7. Expects(c, e)
  BY <1>1, <1>2, <1>5 DEF Sees, Expects
<1>8. PICK d : d = Received(c, e)
  OBVIOUS
<1>9. d.phase = "open" /\ d.block = c.block /\ d.kind = c.kind /\ d.next = c.next /\ d.deltas = c.deltas
  BY <1>5, <1>8, ReceivedPhase, ReceivedOther
<1>10. Sees(d, s)
  BY <1>1, <1>2, <1>6, <1>9 DEF Sees
<1>11. Brings(c, Result(s, <<e>>), c.deltas)
  BY <1>1, <1>5, <1>6, <1>7, <1>8, <1>9, <1>10, BringsOne
<1>13. TranslatorOK(s, v)
  BY <1>1, <1>6, BlocksStay, SameBlocks
<1>14. Translating(s, v) /\ Tells(c.deltas, s, v)
  BY <1>2, <1>6 DEF Translating, Tells, Speaking, NoItem
<1>15. Result(s, <<e>>).t = s
  BY DEF Result
<1> QED
  BY <1>1, <1>4, <1>11, <1>13, <1>14, <1>15, Progressing

(* response.output_item.added                                              *)
LEMMA ItemProgress ==
    ASSUME NEW c, NEW t, NEW u, Abreast(c, t, u), u.stage = "between", u.blocks < MaxBlocks,
           NEW ev, ev.type = "item", ev.of \in Items,
           NEW v \in Upstreams, v.stage = "open", v.item = ev.of, v.blocks = u.blocks + 1, ~v.said
    PROVE  Progress(c, Apply(t, ev), v)
<1>1. /\ c \in Clients /\ t \in Translators /\ u \in Upstreams
      /\ Sees(c, t) /\ UnderWay(t) /\ t.started /\ ~t.ended /\ TranslatorOK(t, u)
  BY AbreastFacts DEF Speaking
<1>2. t.cur = NoBlock /\ ~t.reading
  BY DEF Abreast, Translating, Speaking
<1>3. Apply(t, ev) = OpenBlock(t, ev.of)
  BY Zenon DEF Apply
<1>4. CASE ev.of \in Kinds
  <2>1. PICK r : r = OpenBlock(t, ev.of)
    OBVIOUS
  <2>2. Brings(c, r, {})
    BY <1>1, <1>2, <1>4, <2>1, BlocksLeft, OpensBlock
  <2>3. /\ r.t.cur = t.next /\ r.t.next = t.next + 1 /\ r.t.type = BlockOf(ev.of)
        /\ r.t.started = t.started /\ r.t.ended = t.ended
        /\ (r.t.reading <=> t.reading \/ ev.of = "Read")
    <3>1. PICK z, k : z = r.t /\ k = ev.of
      OBVIOUS
    <3>2. k \in Kinds /\ z = OpenBlock(t, k).t
      BY <1>4, <2>1, <3>1
    <3>3. t \in Translators
      BY <1>1
    <3>4. /\ z.cur = t.next /\ z.next = t.next + 1 /\ z.type = BlockOf(k)
          /\ z.started = t.started /\ z.ended = t.ended
      BY <3>2, <3>3, Opened
    <3>5. z.reading <=> t.reading \/ k = "Read"
      BY <3>2, <3>3, Opened
    <3> QED
      BY <3>1, <3>4, <3>5
  <2>4. BlockOf(ev.of) \in BlockKinds /\ ev.of # "other"
    BY <1>4 DEF BlockOf, BlockKinds, Kinds
  <2>5. TranslatorOK(r.t, v)
    BY <1>1, <2>3, <2>4, OneMoreBlock
  <2>6. Translating(r.t, v)
    BY <1>1, <1>2, <1>4, <2>3, <2>4 DEF Translating, Speaking, NoItem, Kinds
  <2>7. Tells({}, r.t, v)
    BY DEF Tells
  <2> QED
    BY <1>1, <1>3, <2>1, <2>2, <2>5, <2>6, <2>7, Progressing
<1>5. CASE ev.of \notin Kinds
  <2>1. ev.of = "other"
    BY <1>5 DEF Items
  <2>2. PICK s : s = [t EXCEPT !.cur = NoBlock, !.type = ""]
    OBVIOUS
  <2>3. OpenBlock(t, ev.of) = Result(s, <<>>)
    BY <1>5, <2>2, Zenon DEF OpenBlock, Nothing
  <2>4. /\ s \in Translators /\ s.cur = NoBlock /\ s.type = "" /\ s.next = t.next
        /\ s.started = t.started /\ s.ended = t.ended /\ s.reading = t.reading
    BY <1>1, <2>2, NoBlockIsInt DEF Translators
  <2>5. Sees(c, s)
    BY <1>1, <1>2, <2>4 DEF Sees, UnderWay
  <2>6. Brings(c, Result(s, <<>>), c.deltas)
    BY <1>1, <2>4, <2>5, BringsNothing
  <2>7. TranslatorOK(s, v)
    BY <1>1, <2>4, BlocksStay, SameBlocks
  <2>8. Translating(s, v) /\ Tells(c.deltas, s, v)
    BY <1>1, <1>2, <2>1, <2>4 DEF Translating, Speaking, NoItem, Tells
  <2>9. Result(s, <<>>).t = s
    BY DEF Result
  <2> QED
    BY <1>1, <1>3, <2>3, <2>6, <2>7, <2>8, <2>9, Progressing
<1> QED
  BY <1>4, <1>5

(* A delta to the open block leaves the translator as it is.               *)
LEMMA DeltaProgress ==
    ASSUME NEW c, NEW t, NEW u, Abreast(c, t, u), u.stage \in Speaking, t.cur # NoBlock,
           NEW k \in DeltaKinds, Claude!Fits(k, t.type),
           NEW v \in Upstreams, v.blocks = u.blocks \/ v.blocks = u.blocks + 1,
           Translating(t, v), Tells(c.deltas \cup {k}, t, v)
    PROVE  Progress(c, Result(t, <<Delta(t, k)>>), v)
<1>1. /\ c \in Clients /\ t \in Translators /\ u \in Upstreams
      /\ Sees(c, t) /\ UnderWay(t) /\ TranslatorOK(t, u)
  BY AbreastFacts
<1>2. Brings(c, Result(t, <<Delta(t, k)>>), c.deltas \cup {k})
  BY <1>1, SendsDelta
<1>3. TranslatorOK(t, v)
  BY <1>1, BlocksStay, SameBlocks
<1>4. Result(t, <<Delta(t, k)>>).t = t
  BY DEF Result
<1> QED
  BY <1>1, <1>2, <1>3, <1>4, Progressing

(* An event that emits nothing, and leaves the block alone.                *)
LEMMA QuietProgress ==
    ASSUME NEW c, NEW t, NEW u, Abreast(c, t, u), u.stage \in Speaking \cup {"erred"},
           NEW s \in Translators, s.started = t.started, s.ended = t.ended, s.next = t.next,
           s.cur = t.cur, s.type = t.type,
           NEW v \in Upstreams, v.blocks = u.blocks \/ v.blocks = u.blocks + 1,
           Translating(s, v), Tells(c.deltas, s, v)
    PROVE  Progress(c, Result(s, <<>>), v)
<1>1. c \in Clients /\ u \in Upstreams /\ Sees(c, t) /\ TranslatorOK(t, u)
  BY AbreastFacts
<1>2. Sees(c, s)
  BY <1>1 DEF Sees
<1>3. Brings(c, Result(s, <<>>), c.deltas)
  BY <1>1, <1>2, BringsNothing
<1>4. TranslatorOK(s, v)
  BY <1>1, BlocksStay, SameBlocks
<1>5. Result(s, <<>>).t = s
  BY DEF Result
<1> QED
  BY <1>1, <1>3, <1>4, <1>5, Progressing

(* The block is closed, after some deltas to it or none.                   *)
LEMMA CloseProgress ==
    ASSUME NEW c \in Clients, NEW s \in Translators, UnderWay(s), NEW u \in Upstreams, TranslatorOK(s, u),
           NEW deltas, NEW D, Brings(c, Result(s, deltas), D),
           NEW v \in Upstreams, v.blocks = u.blocks,
           \A z : /\ z.cur = NoBlock /\ z.type = "" /\ z.next = s.next
                  /\ z.started = s.started /\ z.ended = s.ended
                  /\ z.omit = s.omit /\ z.carry = s.carry /\ z.reading = s.reading
                  => Translating(z, v) /\ Tells(D, z, v)
    PROVE  Progress(c, ThenClose(s, deltas), v)
<1>1. Brings(c, ThenClose(s, deltas), D)
  BY BringsThenCloses
<1>2. PICK z : z = CloseBlock(s).t
  OBVIOUS
<1>3. ThenClose(s, deltas).t = z
  BY <1>2 DEF ThenClose, Result
<1>4. /\ z \in Translators /\ z.cur = NoBlock /\ z.type = "" /\ z.next = s.next
      /\ z.started = s.started /\ z.ended = s.ended /\ z.omit = s.omit
      /\ z.carry = s.carry /\ z.reading = s.reading
  BY <1>2, Closed DEF UnderWay
<1>5. TranslatorOK(z, v)
  BY <1>4, BlocksStay, SameBlocks
<1> QED
  BY <1>1, <1>3, <1>4, <1>5, Progressing

(* Text, and arguments that are not held back.                             *)
LEMMA SaidProgress ==
    ASSUME NEW c, NEW t, NEW u, Abreast(c, t, u), u.stage = "open",
           NEW ev, \/ u.item = "message" /\ ev.type = "text"
                   \/ u.item \in {"function_call", "Read"} /\ ev.type = "args",
           NEW v \in Upstreams, v.stage = "said", v.item = u.item, v.blocks = u.blocks
    PROVE  Progress(c, Apply(t, ev), v)
<1>1. /\ c \in Clients /\ t \in Translators /\ u \in Upstreams
      /\ UnderWay(t) /\ t.started /\ ~t.ended /\ Translating(t, u)
  BY AbreastFacts DEF Speaking
<1>2. t.type = BlockOf(u.item) /\ (t.reading <=> u.item = "Read")
  BY <1>1 DEF Translating, Speaking
<1>3. CASE u.item = "message" /\ ev.type = "text"
  <2>1. Apply(t, ev) = Result(t, <<Delta(t, "text")>>)
    BY <1>3, Zenon DEF Apply
  <2>2. t.type = "message" /\ t.cur # NoBlock /\ ~t.reading
    BY <1>1, <1>2, <1>3 DEF BlockOf, UnderWay
  <2>3. Claude!Fits("text", t.type) /\ "text" \in DeltaKinds
    BY <2>2 DEF Claude!Fits, DeltaKinds
  <2>4. Translating(t, v)
    BY <1>1, <1>2, <1>3, <2>2 DEF Translating, Speaking, NoItem, BlockOf
  <2>5. Tells(c.deltas \cup {"text"}, t, v)
    BY <1>3 DEF Tells
  <2> QED
    BY <2>1, <2>2, <2>3, <2>4, <2>5, DeltaProgress DEF Speaking
<1>4. CASE u.item = "function_call" /\ ev.type = "args"
  <2>1. t.type = "function_call" /\ t.cur # NoBlock /\ ~t.reading
    BY <1>1, <1>2, <1>4 DEF BlockOf, UnderWay
  <2>2. Apply(t, ev) = Result(t, <<Delta(t, "input")>>)
    BY <1>4, <2>1, Zenon DEF Apply, Arguments
  <2>3. Claude!Fits("input", t.type) /\ "input" \in DeltaKinds
    BY <2>1 DEF Claude!Fits, DeltaKinds
  <2>4. Translating(t, v)
    BY <1>1, <1>2, <1>4, <2>1 DEF Translating, Speaking, NoItem, BlockOf
  <2>5. Tells(c.deltas \cup {"input"}, t, v)
    BY <1>4 DEF Tells
  <2> QED
    BY <2>1, <2>2, <2>3, <2>4, <2>5, DeltaProgress DEF Speaking
<1>5. CASE u.item = "Read" /\ ev.type = "args"
  <2>1. PICK s : s = [t EXCEPT !.args = TRUE]
    OBVIOUS
  <2>2. Apply(t, ev) = Result(s, <<>>)
    BY <1>2, <1>5, <2>1, Zenon DEF Apply, Arguments, Nothing
  <2>3. /\ s \in Translators /\ s.started = t.started /\ s.ended = t.ended /\ s.next = t.next
        /\ s.cur = t.cur /\ s.type = t.type /\ s.reading = t.reading
    BY <1>1, <2>1 DEF Translators
  <2>4. Translating(s, v)
    BY <1>1, <1>2, <1>5, <2>3 DEF Translating, Speaking, NoItem, BlockOf
  <2>5. Tells(c.deltas, s, v)
    BY <1>5 DEF Tells
  <2> QED
    BY <2>2, <2>3, <2>4, <2>5, QuietProgress DEF Speaking
<1> QED
  BY <1>3, <1>4, <1>5

(* output_text.done and function_call_arguments.done                       *)
LEMMA WholeProgress ==
    ASSUME NEW c, NEW t, NEW u, Abreast(c, t, u), u.stage \in {"open", "said"},
           NEW ev, \/ u.item = "message" /\ ev.type = "text_done"
                   \/ u.item \in {"function_call", "Read"} /\ ev.type = "args_done",
           NEW v \in Upstreams, v.stage = "whole", v.item = u.item, v.blocks = u.blocks,
           v.said = u.said
    PROVE  Progress(c, Apply(t, ev), v)
<1>1. /\ c \in Clients /\ t \in Translators /\ u \in Upstreams /\ Sees(c, t)
      /\ UnderWay(t) /\ TranslatorOK(t, u) /\ Tells(c.deltas, t, u)
  BY AbreastFacts DEF Speaking
<1>2. /\ t.type = BlockOf(u.item) /\ (t.reading <=> u.item = "Read") /\ t.started /\ ~t.ended
      /\ u.item # NoItem /\ u.item # "other" /\ u.item # "reasoning"
  BY <1>1, AbreastFacts DEF Translating, Speaking, NoItem
<1>3. ASSUME NEW s, NEW D, ~s.reading, s.started, ~s.ended, c.deltas \subseteq D,
             u.item = "Read" => "input" \in D
      PROVE  \A z : /\ z.cur = NoBlock /\ z.type = "" /\ z.next = s.next
                    /\ z.started = s.started /\ z.ended = s.ended
                    /\ z.omit = s.omit /\ z.carry = s.carry /\ z.reading = s.reading
                    => Translating(z, v) /\ Tells(D, z, v)
  <2> SUFFICES ASSUME NEW z, z.type = "", z.started, ~z.ended, ~z.reading
               PROVE  Translating(z, v) /\ Tells(D, z, v)
    BY <1>3
  <2>1. Translating(z, v)
    BY <1>2 DEF Translating, Speaking
  <2>2. Tells(D, z, v)
    BY <1>1, <1>2, <1>3 DEF Tells
  <2> QED
    BY <2>1, <2>2
<1>4. CASE u.item = "message"
  <2>1. Apply(t, ev) = ThenClose(t, <<>>)
    <3>1. PICK r : r = CloseBlock(t)
      OBVIOUS
    <3>2. Apply(t, ev) = r
      BY <1>4, <3>1, Zenon DEF Apply
    <3>3. r = Result(r.t, <<>> \o r.out)
      BY <1>1, <3>1, CloseIsThenClose
    <3> QED
      BY <3>1, <3>2, <3>3 DEF ThenClose
  <2>2. Brings(c, Result(t, <<>>), c.deltas)
    BY <1>1, BringsNothing
  <2>3. ~t.reading
    BY <1>2, <1>4
  <2> QED
    BY <1>1, <1>2, <1>3, <1>4, <2>1, <2>2, <2>3, CloseProgress, ZenonT(40)
<1>5. CASE u.item \in {"function_call", "Read"}
  <2>1. PICK A, s : A = (IF t.reading THEN FALSE ELSE t.args) /\ s = [t EXCEPT !.reading = FALSE, !.args = A]
    OBVIOUS
  <2>2. PICK deltas : deltas = IF t.reading THEN <<Delta(t, "input")>> ELSE <<>>
    OBVIOUS
  <2>3. Apply(t, ev) = ThenClose(s, deltas)
    BY <1>5, <2>1, <2>2, Zenon DEF Apply, ArgumentsDone
  <2>4. s \in Translators
    <3>1. A \in BOOLEAN
      BY <1>1, <2>1, TranslatorFields
    <3> QED
      BY <1>1, <2>1, <3>1 DEF Translators
  <2>5. /\ s.cur = t.cur /\ s.type = t.type /\ s.next = t.next
        /\ s.started = t.started /\ s.ended = t.ended /\ s.reading = FALSE
    BY <1>1, <2>1 DEF Translators
  <2>6. UnderWay(s) /\ Sees(c, s) /\ s.started /\ ~s.ended /\ ~s.reading
    BY <1>1, <1>2, <2>5 DEF UnderWay, Sees
  <2>7. TranslatorOK(s, u)
    BY <1>1, <2>5 DEF TranslatorOK
  <2>8. CASE u.item = "Read"
    <3>1. t.reading /\ t.type = "function_call"
      BY <1>2, <2>8 DEF BlockOf
    <3>2. deltas = <<Delta(s, "input")>>
      BY <2>2, <2>5, <3>1 DEF Delta
    <3>3. s.cur # NoBlock /\ Claude!Fits("input", s.type) /\ "input" \in DeltaKinds
      BY <2>5, <2>6, <3>1 DEF UnderWay, Claude!Fits, DeltaKinds
    <3>4. Brings(c, Result(s, deltas), c.deltas \cup {"input"})
      BY <1>1, <2>4, <2>6, <3>2, <3>3, SendsDelta
    <3>5. PICK D : D = c.deltas \cup {"input"}
      OBVIOUS
    <3>6. \A z : /\ z.cur = NoBlock /\ z.type = "" /\ z.next = s.next
                 /\ z.started = s.started /\ z.ended = s.ended
                 /\ z.omit = s.omit /\ z.carry = s.carry /\ z.reading = s.reading
                 => Translating(z, v) /\ Tells(D, z, v)
      <4>1. c.deltas \subseteq D /\ "input" \in D
        BY <3>5
      <4> QED
        BY <1>3, <2>6, <4>1
    <3> QED
      BY <1>1, <2>3, <2>4, <2>6, <2>7, <3>4, <3>5, <3>6, CloseProgress
  <2>9. CASE u.item # "Read"
    <3>1. deltas = <<>>
      BY <1>2, <2>2, <2>9
    <3>2. Brings(c, Result(s, deltas), c.deltas)
      BY <1>1, <2>4, <2>6, <3>1, BringsNothing
    <3> QED
      BY <1>1, <1>3, <2>3, <2>4, <2>6, <2>7, <2>9, <3>2, CloseProgress, ZenonT(40)
  <2> QED
    BY <2>8, <2>9
<1> QED
  BY <1>4, <1>5

(* reasoning_summary_part.added                                            *)
LEMMA PartProgress ==
    ASSUME NEW c, NEW t, NEW u, Abreast(c, t, u), u.item = "reasoning", u.stage \in {"open", "whole"},
           u.blocks < MaxBlocks, NEW ev, ev.type = "part",
           NEW v \in Upstreams, v.stage = "part", v.item = u.item, v.blocks = u.blocks + 1, ~v.said
    PROVE  Progress(c, Apply(t, ev), v)
<1>1. /\ c \in Clients /\ t \in Translators /\ u \in Upstreams /\ Sees(c, t)
      /\ UnderWay(t) /\ TranslatorOK(t, u)
  BY AbreastFacts DEF Speaking
<1>2. /\ t.type \in {"", "reasoning"} /\ ~t.reading /\ t.started /\ ~t.ended
  <2>1. Translating(t, u) /\ t.started /\ ~t.ended
    BY AbreastFacts DEF Speaking
  <2>2. ~t.reading
    BY <2>1 DEF Translating, Speaking
  <2>3. t.type \in {"", "reasoning"}
    BY <2>1 DEF Translating, BlockOf
  <2> QED
    BY <2>1, <2>2, <2>3
<1>3. Apply(t, ev) = SummaryPart(t)
  BY Zenon DEF Apply
<1>4. ASSUME NEW z, z.type = "reasoning", z.started, ~z.ended, ~z.reading
      PROVE  Translating(z, v)
  BY <1>4 DEF Translating, Speaking, NoItem
<1>5. \A D, z : Tells(D, z, v)
  BY DEF Tells
<1>6. CASE t.type = "reasoning" /\ t.carry
  <2>1. PICK P, s : P = (IF t.parts < 2 THEN t.parts + 1 ELSE t.parts) /\ s = [t EXCEPT !.parts = P]
    OBVIOUS
  <2>2. s \in Translators
    <3>1. t.parts \in Nat
      BY <1>1, TranslatorFields
    <3>2. P \in Nat
      BY <2>1, <3>1
    <3> QED
      BY <1>1, <2>1, <3>2 DEF Translators
  <2>3. /\ s.started = t.started /\ s.ended = t.ended /\ s.next = t.next
        /\ s.cur = t.cur /\ s.type = t.type /\ s.reading = t.reading
    BY <1>1, <2>1 DEF Translators
  <2>4. Translating(s, v)
    BY <1>2, <1>4, <1>6, <2>3
  <2>5. CASE t.parts > 0 /\ ~t.omit
    <3>1. SummaryPart(t) = Result(s, <<Delta(t, "thinking")>>)
      BY <1>6, <2>1, <2>5, Zenon DEF SummaryPart
    <3>2. Delta(t, "thinking") = Delta(s, "thinking")
      BY <2>3 DEF Delta
    <3>3. UnderWay(s) /\ Sees(c, s)
      BY <1>1, <2>3 DEF UnderWay, Sees
    <3>4. s.cur # NoBlock /\ Claude!Fits("thinking", s.type) /\ "thinking" \in DeltaKinds
      BY <1>6, <2>3, <3>3 DEF UnderWay, Claude!Fits, DeltaKinds
    <3>5. Brings(c, Result(s, <<Delta(s, "thinking")>>), c.deltas \cup {"thinking"})
      BY <1>1, <2>2, <3>3, <3>4, SendsDelta
    <3>6. TranslatorOK(s, v)
      BY <1>1, <2>3, BlocksStay, SameBlocks
    <3>7. Result(s, <<Delta(s, "thinking")>>).t = s
      BY DEF Result
    <3> QED
      BY <1>1, <1>3, <1>5, <2>4, <3>1, <3>2, <3>5, <3>6, <3>7, Progressing
  <2>6. CASE ~(t.parts > 0 /\ ~t.omit)
    <3>1. SummaryPart(t) = Result(s, <<>>)
      BY <1>6, <2>1, <2>6, Zenon DEF SummaryPart
    <3> QED
      BY <1>3, <1>5, <2>2, <2>3, <2>4, <3>1, QuietProgress DEF Speaking
  <2> QED
    BY <2>5, <2>6
<1>7. CASE ~(t.type = "reasoning" /\ t.carry) /\ t.cur # NoBlock
  <2>1. SummaryPart(t) = Result(t, <<>>)
    BY <1>7, Zenon DEF SummaryPart, Nothing
  <2>2. t.type = "reasoning"
    BY <1>1, <1>2, <1>7 DEF UnderWay
  <2>3. Translating(t, v)
    BY <1>2, <1>4, <2>2
  <2> QED
    BY <1>1, <1>3, <1>5, <2>1, <2>3, QuietProgress DEF Speaking
<1>8. CASE ~(t.type = "reasoning" /\ t.carry) /\ t.cur = NoBlock
  <2>1. SummaryPart(t) = OpenBlock(t, "reasoning")
    BY <1>8, Zenon DEF SummaryPart
  <2>2. PICK r, k, z : k = "reasoning" /\ r = OpenBlock(t, k) /\ z = r.t
    OBVIOUS
  <2>3. k \in Kinds /\ BlockOf(k) = "reasoning" /\ BlockOf(k) \in BlockKinds /\ k # "Read"
    BY <2>2 DEF Kinds, BlockOf, BlockKinds
  <2>4. Brings(c, r, {})
    BY <1>1, <1>8, <2>2, <2>3, BlocksLeft, OpensBlock
  <2>5. t \in Translators
    BY <1>1
  <2>6. /\ z.cur = t.next /\ z.next = t.next + 1 /\ z.type = BlockOf(k)
        /\ z.started = t.started /\ z.ended = t.ended
    BY <2>2, <2>3, <2>5, Opened
  <2>7. z.reading <=> t.reading \/ k = "Read"
    BY <2>2, <2>3, <2>5, Opened
  <2>8. TranslatorOK(z, v)
    BY <1>1, <2>3, <2>6, OneMoreBlock
  <2>9. Translating(z, v)
    BY <1>2, <1>4, <2>3, <2>6, <2>7
  <2> QED
    BY <1>1, <1>3, <1>5, <2>1, <2>2, <2>4, <2>8, <2>9, Progressing
<1> QED
  BY <1>6, <1>7, <1>8

(* A thought: summary or reasoning text.                                   *)
LEMMA ThoughtProgress ==
    ASSUME NEW c, NEW t, NEW u, Abreast(c, t, u), u.item = "reasoning", u.stage = "part",
           NEW ev, ev.type \in {"summary", "reasoning"},
           NEW v \in Upstreams, v.stage \in {"said", "whole"}, v.item = u.item, v.blocks = u.blocks, v.said
    PROVE  Progress(c, Apply(t, ev), v)
<1>1. c \in Clients /\ t \in Translators /\ u \in Upstreams /\ UnderWay(t)
  BY AbreastFacts DEF Speaking
<1>2. /\ t.type = "reasoning" /\ ~t.reading /\ t.started /\ ~t.ended
  <2>1. Translating(t, u) /\ t.started /\ ~t.ended
    BY AbreastFacts DEF Speaking
  <2> QED
    BY <2>1 DEF Translating, Speaking
<1>3. Apply(t, ev) = Thought(t)
  BY <1>2, Zenon DEF Apply
<1>4. Translating(t, v)
  BY <1>2 DEF Translating, Speaking, NoItem, BlockOf
<1>5. CASE t.omit
  <2>1. Thought(t) = Result(t, <<>>)
    BY <1>5 DEF Thought, Nothing
  <2>2. Tells(c.deltas, t, v)
    BY <1>5 DEF Tells
  <2> QED
    BY <1>1, <1>3, <1>4, <2>1, <2>2, QuietProgress DEF Speaking
<1>6. CASE ~t.omit
  <2>1. Thought(t) = Result(t, <<Delta(t, "thinking")>>)
    BY <1>6 DEF Thought
  <2>2. t.cur # NoBlock /\ Claude!Fits("thinking", t.type) /\ "thinking" \in DeltaKinds
    BY <1>1, <1>2 DEF UnderWay, Claude!Fits, DeltaKinds
  <2>3. Tells(c.deltas \cup {"thinking"}, t, v)
    BY DEF Tells
  <2> QED
    BY <1>3, <1>4, <2>1, <2>2, <2>3, DeltaProgress DEF Speaking
<1> QED
  BY <1>5, <1>6

(* reasoning_summary_text.done                                             *)
LEMMA ThoughtEndProgress ==
    ASSUME NEW c, NEW t, NEW u, Abreast(c, t, u), u.item = "reasoning", u.stage = "said",
           NEW ev, ev.type = "summary_done",
           NEW v \in Upstreams, v.stage = "whole", v.item = u.item, v.blocks = u.blocks,
           v.said = u.said
    PROVE  Progress(c, Apply(t, ev), v)
<1>1. /\ c \in Clients /\ t \in Translators /\ u \in Upstreams /\ Sees(c, t)
      /\ UnderWay(t) /\ TranslatorOK(t, u) /\ Tells(c.deltas, t, u)
  BY AbreastFacts DEF Speaking
<1>2. t.type = "reasoning" /\ ~t.reading /\ t.started /\ ~t.ended
  <2>1. Translating(t, u) /\ t.started /\ ~t.ended
    BY AbreastFacts DEF Speaking
  <2> QED
    BY <2>1 DEF Translating, Speaking, BlockOf
<1>3. CASE t.carry
  <2>1. Apply(t, ev) = Result(t, <<>>)
    BY <1>3, Zenon DEF Apply, Nothing
  <2> QED
    <3>1. Translating(t, v)
      BY <1>2 DEF Translating, Speaking, NoItem
    <3>2. Tells(c.deltas, t, v)
      BY <1>1 DEF Tells
    <3> QED
      BY <1>1, <2>1, <3>1, <3>2, QuietProgress DEF Speaking
<1>4. CASE ~t.carry
  <2>1. Apply(t, ev) = CloseBlock(t)
    BY <1>4, Zenon DEF Apply
  <2>2. CloseBlock(t) = ThenClose(t, <<>>)
    BY <1>1, CloseIsThenClose DEF ThenClose
  <2>3. Brings(c, Result(t, <<>>), c.deltas)
    BY <1>1, BringsNothing
  <2>4. \A z : /\ z.cur = NoBlock /\ z.type = "" /\ z.next = t.next
               /\ z.started = t.started /\ z.ended = t.ended
               /\ z.omit = t.omit /\ z.carry = t.carry /\ z.reading = t.reading
               => Translating(z, v) /\ Tells(c.deltas, z, v)
    <3> SUFFICES ASSUME NEW z, z.type = "", z.started, ~z.ended, ~z.reading, z.omit = t.omit,
                        ~z.carry
                 PROVE  Translating(z, v) /\ Tells(c.deltas, z, v)
      BY <1>2, <1>4
    <3>1. Translating(z, v)
      BY DEF Translating, Speaking, NoItem
    <3>2. Tells(c.deltas, z, v)
      BY <1>1 DEF Tells
    <3> QED
      BY <3>1, <3>2
  <2> QED
    BY <1>1, <2>1, <2>2, <2>3, <2>4, CloseProgress
<1> QED
  BY <1>3, <1>4

(* response.output_item.done                                               *)
LEMMA ItemDoneProgress ==
    ASSUME NEW c, NEW t, NEW u, Abreast(c, t, u),
           u.stage = "whole" \/ (u.stage = "open" /\ u.item \in {"reasoning", "other"}),
           NEW ev, ev.type = "item_done", ev.of = "signed" => u.item = "reasoning",
           NEW v \in Upstreams, v.stage = "between", v.item = u.item, v.blocks = u.blocks,
           v.said = u.said, v.seal = ev.of
    PROVE  Progress(c, Apply(t, ev), v)
<1>1. /\ c \in Clients /\ t \in Translators /\ u \in Upstreams /\ Sees(c, t)
      /\ UnderWay(t) /\ TranslatorOK(t, u) /\ Tells(c.deltas, t, u)
  BY AbreastFacts DEF Speaking
<1>2. ~t.reading /\ t.started /\ ~t.ended
  <2>1. Translating(t, u) /\ t.started /\ ~t.ended
    BY AbreastFacts DEF Speaking
  <2>2. ~t.reading
    BY <2>1 DEF Translating, Speaking
  <2> QED
    BY <2>1, <2>2
<1>3. t.carry /\ ev.of = "signed" => t.type = "reasoning"
  <2>1. Translating(t, u)
    BY AbreastFacts DEF Speaking
  <2>2. CASE u.stage = "whole"
    BY <2>1, <2>2 DEF Translating
  <2>3. CASE u.stage = "open"
    <3>1. t.type = IF u.item = "other" THEN "" ELSE BlockOf(u.item)
      BY <2>1, <2>3 DEF Translating
    <3> QED
      BY <3>1 DEF BlockOf
  <2> QED
    BY <2>2, <2>3
<1>4. ASSUME NEW D, c.deltas \subseteq D, t.carry /\ ev.of = "signed" => "signature" \in D
      PROVE  \A z : /\ z.cur = NoBlock /\ z.type = "" /\ z.next = t.next
                    /\ z.started = t.started /\ z.ended = t.ended
                    /\ z.omit = t.omit /\ z.carry = t.carry /\ z.reading = t.reading
                    => Translating(z, v) /\ Tells(D, z, v)
  <2> SUFFICES ASSUME NEW z, z.cur = NoBlock, z.started, ~z.ended, ~z.reading, z.omit = t.omit,
                      z.carry = t.carry
               PROVE  Translating(z, v) /\ Tells(D, z, v)
    BY <1>2
  <2>1. Translating(z, v)
    BY DEF Translating, Speaking
  <2>2. Tells(D, z, v)
    BY <1>1, <1>4 DEF Tells
  <2> QED
    BY <2>1, <2>2
<1>5. PICK deltas : deltas = IF t.carry /\ t.type = "reasoning" /\ ev.of = "signed"
                             THEN <<Delta(t, "signature")>> ELSE <<>>
  OBVIOUS
<1>6. Apply(t, ev) = ThenClose(t, deltas)
  BY <1>5, Zenon DEF Apply, ItemDone
<1>7. CASE t.carry /\ t.type = "reasoning" /\ ev.of = "signed"
  <2>1. t.cur # NoBlock /\ Claude!Fits("signature", t.type) /\ "signature" \in DeltaKinds
    BY <1>1, <1>7 DEF UnderWay, Claude!Fits, DeltaKinds
  <2>2. PICK D : D = c.deltas \cup {"signature"}
    OBVIOUS
  <2>3. Brings(c, Result(t, deltas), D)
    BY <1>1, <1>5, <1>7, <2>1, <2>2, SendsDelta
  <2>4. c.deltas \subseteq D /\ "signature" \in D
    BY <2>2
  <2> QED
    BY <1>1, <1>4, <1>6, <2>3, <2>4, CloseProgress
<1>8. CASE ~(t.carry /\ t.type = "reasoning" /\ ev.of = "signed")
  <2>1. Brings(c, Result(t, deltas), c.deltas)
    BY <1>1, <1>5, <1>8, BringsNothing
  <2>2. ~(t.carry /\ ev.of = "signed")
    BY <1>8, <1>3
  <2> QED
    BY <1>1, <1>4, <1>6, <2>1, <2>2, CloseProgress
<1> QED
  BY <1>7, <1>8

(* Whatever ends the answer brings a client to its end.                    *)
LEMMA FinalProgress ==
    ASSUME NEW c, NEW t, NEW u, Abreast(c, t, u), u.stage \in Speaking \cup {"erred"},
           NEW stop \in StopReasons, NEW usage \in Sizes,
           NEW v \in Upstreams, v.stage = "over", v.item = u.item, v.blocks = u.blocks,
           v.said = u.said
    PROVE  /\ Progress(c, Finalize(t, stop, usage), v)
           /\ Progress(c, Result(Finalize(t, stop, usage).t,
                                 <<ErrorEvent>> \o Finalize(t, stop, usage).out), v)
<1>1. /\ c \in Clients /\ t \in Translators /\ u \in Upstreams /\ Sees(c, t)
      /\ UnderWay(t) /\ TranslatorOK(t, u) /\ Tells(c.deltas, t, u)
  BY AbreastFacts
<1>2. PICK r, z : r = Finalize(t, stop, usage) /\ z = r.t
  OBVIOUS
<1>3. Brings(c, r, c.deltas)
  BY <1>1, <1>2, Finishes
<1>4. Finalized(t, z)
  BY <1>1, <1>2, Finished
<1>5. TranslatorOK(z, v)
  BY <1>1, <1>4, BlocksStay, SameBlocks DEF Finalized
<1>6. Translating(z, v)
  BY DEF Translating, Speaking
<1>7. Tells(c.deltas, z, v)
  BY <1>1, <1>4 DEF Finalized, Tells
<1>8. Progress(c, r, v)
  BY <1>1, <1>2, <1>3, <1>5, <1>6, <1>7, Progressing
<1>9. PICK e, d, q : e = ErrorEvent /\ d = Received(c, e) /\ q = Result(t, <<e>>)
  OBVIOUS
<1>10. e \in Emissions /\ e.name = "error" /\ e.idx = NoBlock
  <2>1. NoBlock \in Int /\ "" \in EventKinds /\ "error" \in EventNames
    BY NoBlockIsInt DEF EventKinds, EventNames
  <2> QED
    BY <1>9, <2>1 DEF ErrorEvent, Emit, Emissions
<1>11. Expects(c, e)
  BY <1>10 DEF Expects
<1>12. d.phase = c.phase /\ d.block = c.block /\ d.kind = c.kind /\ d.next = c.next /\ d.deltas = c.deltas
  BY <1>9, <1>10, ReceivedPhase, ReceivedOther
<1>13. Sees(d, t)
  BY <1>1, <1>12 DEF Sees
<1>14. Brings(c, q, c.deltas)
  BY <1>1, <1>9, <1>10, <1>11, <1>12, <1>13, BringsOne
<1>15. q.t = t /\ q.out = <<e>>
  BY <1>9 DEF Result
<1>16. ASSUME NEW b \in Clients, Sees(b, t), b.deltas = c.deltas PROVE Brings(b, r, c.deltas)
  BY <1>1, <1>2, <1>16, Finishes
<1>17. PICK p : p = Result(z, <<e>> \o r.out)
  OBVIOUS
<1>18. Brings(c, p, c.deltas)
  BY <1>1, <1>2, <1>14, <1>15, <1>16, <1>17, BringsOn
<1>19. p.t = z
  BY <1>17 DEF Result
<1>20. Progress(c, p, v)
  BY <1>1, <1>5, <1>6, <1>7, <1>18, <1>19, Progressing
<1> QED
  BY <1>2, <1>8, <1>9, <1>17, <1>20

LEMMA StopReasonIs ==
    ASSUME NEW t
    PROVE  StopReason(t) \in StopReasons
BY DEF StopReason, StopReasons

LEMMA IncompleteReasonIs ==
    ASSUME NEW of
    PROVE  IncompleteReason(of) \in StopReasons
<1>1. CASE of = "max_output_tokens"
  <2>1. IncompleteReason(of) = "max_tokens"
    BY <1>1, Zenon DEF IncompleteReason
  <2> QED
    BY <2>1 DEF StopReasons
<1>2. CASE of = "content_filter"
  <2>1. IncompleteReason(of) = "refusal"
    BY <1>2, Zenon DEF IncompleteReason
  <2> QED
    BY <2>1 DEF StopReasons
<1>3. CASE of \notin {"max_output_tokens", "content_filter"}
  <2>1. IncompleteReason(of) = "end_turn"
    BY <1>3, Zenon DEF IncompleteReason
  <2> QED
    BY <2>1 DEF StopReasons
<1> QED
  BY <1>1, <1>2, <1>3

(* response.completed, incomplete, failed, and an error on its own.        *)
LEMMA EndProgress ==
    ASSUME NEW c, NEW t, NEW u, Abreast(c, t, u), u.stage \in Speaking \cup {"erred"},
           NEW ev, ev.type \in {"completed", "incomplete", "failed"}, ev.usage \in Sizes,
           NEW v \in Upstreams, v.stage = "over", v.item = u.item, v.blocks = u.blocks,
           v.said = u.said
    PROVE  Progress(c, Apply(t, ev), v)
<1>1. CASE ev.type = "completed"
  <2>1. Apply(t, ev) = Finalize(t, StopReason(t), ev.usage)
    BY <1>1, Zenon DEF Apply
  <2> QED
    BY <2>1, StopReasonIs, FinalProgress
<1>2. CASE ev.type = "incomplete"
  <2>1. Apply(t, ev) = Finalize(t, IncompleteReason(ev.of), ev.usage)
    BY <1>2, Zenon DEF Apply
  <2> QED
    BY <2>1, IncompleteReasonIs, FinalProgress
<1>3. CASE ev.type = "failed"
  <2>1. PICK r : r = Finalize(t, "end_turn", ev.usage)
    OBVIOUS
  <2>2. Apply(t, ev) = Result(r.t, <<ErrorEvent>> \o r.out)
    BY <1>3, <2>1, Zenon DEF Apply
  <2>3. "end_turn" \in StopReasons
    BY DEF StopReasons
  <2> QED
    BY <2>1, <2>2, <2>3, FinalProgress
<1> QED
  BY <1>1, <1>2, <1>3

LEMMA ErrorProgress ==
    ASSUME NEW c, NEW t, NEW u, Abreast(c, t, u), u.stage \in Speaking,
           NEW ev, ev.type = "error",
           NEW v \in Upstreams, v.stage = "erred", v.item = u.item, v.blocks = u.blocks,
           v.said = u.said
    PROVE  Progress(c, Apply(t, ev), v)
<1>1. t \in Translators /\ t.started /\ ~t.ended /\ Tells(c.deltas, t, u)
  BY AbreastFacts
<1>2. Apply(t, ev) = Result(t, <<>>)
  BY Zenon DEF Apply, Nothing
<1>3. Translating(t, v)
  BY <1>1 DEF Translating, Speaking
<1>4. Tells(c.deltas, t, v)
  BY <1>1 DEF Tells
<1> QED
  BY <1>1, <1>2, <1>3, <1>4, QuietProgress

-------------------------------------------------------------------------------
(* Whatever the upstream says next.                                        *)
LEMMA EventFacts ==
    ASSUME NEW ev \in Events
    PROVE  /\ ev.usage \in Sizes /\ (ev.type = "item" => ev.of \in Items)
           /\ ev.type = "item_done" => ev.of \in {"", "signed"}
BY DEF Events, Usages, Sizes, Items

LEMMA EventFields ==
    ASSUME NEW type, NEW of, NEW usage
    PROVE  /\ Event(type, of, usage).type = type /\ Event(type, of, usage).of = of
BY DEF Event

LEMMA SpeaksProgress ==
    ASSUME NEW c, Abreast(c, tr, up), NEW ev \in Events, Speaks(ev)
    PROVE  up' \in Upstreams /\ Progress(c, Apply(tr, ev), up')
<1>1. up \in Upstreams
  BY DEF Abreast
<1>2. up.blocks < MaxBlocks => up.blocks + 1 \in 0..MaxBlocks
  <2>1. up.blocks \in 0..MaxBlocks /\ MaxBlocks \in Nat
    BY <1>1, UpstreamFields, TerminalAssumption
  <2> QED
    BY <2>1
<1>3. CASE up.stage = "new" /\ ev = Event("created", "", "absent") /\ up' = Stage("between")
  <2>1. /\ up' \in Upstreams /\ up'.stage = "between" /\ up'.blocks = up.blocks
        /\ up'.said = up.said /\ up'.item = up.item /\ up'.seal = up.seal
    BY <1>1, <1>3 DEF Stage, Upstreams, Speaking
  <2>2. ev.type = "created" /\ up.stage = "new"
    BY <1>3, EventFields, ZenonT(40)
  <2> QED
    BY <2>1, <2>2, CreatedProgress
<1>4. ASSUME NEW k \in Kinds \cup {"other"},
             up.stage = "between" /\ up.blocks < MaxBlocks /\ ev = Event("item", k, "absent"),
             up' = [up EXCEPT !.stage = "open", !.item = k, !.blocks = @ + 1, !.said = FALSE,
                               !.seal = ""]
      PROVE  up' \in Upstreams /\ Progress(c, Apply(tr, ev), up')
  <2>1. /\ up' \in Upstreams /\ up'.stage = "open" /\ up'.item = k /\ up'.blocks = up.blocks + 1
        /\ up'.said = FALSE
    BY <1>1, <1>2, <1>4 DEF Upstreams, Speaking, Items
  <2>2. ev.type = "item" /\ ev.of = k /\ ev.of \in Items
    BY <1>4, EventFields DEF Items
  <2> QED
    BY <1>4, <2>1, <2>2, ItemProgress
<1>5. CASE /\ up.item \in {"message", "function_call", "Read"}
           /\ up.stage = "open" /\ ev = Event(Content(up.item), "", "absent")
           /\ up' = [up EXCEPT !.stage = "said", !.said = TRUE, !.acted = TRUE]
  <2>1. /\ up' \in Upstreams /\ up'.stage = "said" /\ up'.item = up.item /\ up'.blocks = up.blocks
    BY <1>1, <1>5 DEF Upstreams, Speaking
  <2>2. ev = Event(Content(up.item), "", "absent") /\ up.item \in {"message", "function_call", "Read"}
    BY <1>5
  <2>3. \/ up.item = "message" /\ ev.type = "text"
        \/ up.item \in {"function_call", "Read"} /\ ev.type = "args"
    BY <2>2 DEF Content, Event
  <2>4. up.stage = "open"
    BY <1>5
  <2> QED
    BY <2>1, <2>3, <2>4, SaidProgress
<1>6. CASE /\ up.item \in {"message", "function_call", "Read"} /\ up.stage \in {"open", "said"}
           /\ ev = Event(IF up.item = "message" THEN "text_done" ELSE "args_done", "", "absent")
           /\ up' = Stage("whole")
  <2>1. /\ up' \in Upstreams /\ up'.stage = "whole" /\ up'.blocks = up.blocks
        /\ up'.said = up.said /\ up'.item = up.item
    BY <1>1, <1>6 DEF Stage, Upstreams, Speaking
  <2>2. /\ ev = Event(IF up.item = "message" THEN "text_done" ELSE "args_done", "", "absent")
        /\ up.item \in {"message", "function_call", "Read"}
    BY <1>6
  <2>3. \/ up.item = "message" /\ ev.type = "text_done"
        \/ up.item \in {"function_call", "Read"} /\ ev.type = "args_done"
    BY <2>2 DEF Event
  <2>4. up.stage \in {"open", "said"}
    BY <1>6
  <2> QED
    BY <2>1, <2>3, <2>4, WholeProgress
<1>7. CASE /\ up.item = "reasoning" /\ up.stage \in {"open", "whole"} /\ up.blocks < MaxBlocks
           /\ ev = Event("part", "", "absent")
           /\ up' = [up EXCEPT !.stage = "part", !.blocks = @ + 1, !.said = FALSE]
  <2>1. /\ up' \in Upstreams /\ up'.stage = "part" /\ up'.item = up.item
        /\ up'.blocks = up.blocks + 1 /\ up'.said = FALSE
    BY <1>1, <1>2, <1>7 DEF Upstreams, Speaking
  <2>2. ev.type = "part" /\ up.item = "reasoning" /\ up.stage \in {"open", "whole"} /\ up.blocks < MaxBlocks
    BY <1>7 DEF Event
  <2> QED
    BY <2>1, <2>2, PartProgress
<1>8. CASE /\ up.item = "reasoning" /\ up.stage = "part" /\ ev.type \in {"summary", "reasoning"}
           /\ up' = [up EXCEPT !.stage = IF ev.type = "summary" THEN "said" ELSE "whole", !.said = TRUE]
  <2>1. /\ up' \in Upstreams /\ up'.stage \in {"said", "whole"} /\ up'.item = up.item
        /\ up'.blocks = up.blocks /\ up'.said
    BY <1>1, <1>8 DEF Upstreams, Speaking
  <2>2. up.item = "reasoning" /\ up.stage = "part" /\ ev.type \in {"summary", "reasoning"}
    BY <1>8
  <2> QED
    BY <2>1, <2>2, ThoughtProgress
<1>9. CASE /\ up.item = "reasoning" /\ up.stage = "said"
           /\ ev = Event("summary_done", "", "absent") /\ up' = Stage("whole")
  <2>1. /\ up' \in Upstreams /\ up'.stage = "whole" /\ up'.blocks = up.blocks
        /\ up'.said = up.said /\ up'.item = up.item
    BY <1>1, <1>9 DEF Stage, Upstreams, Speaking
  <2>2. ev.type = "summary_done" /\ up.item = "reasoning" /\ up.stage = "said"
    BY <1>9 DEF Event
  <2> QED
    BY <2>1, <2>2, ThoughtEndProgress
<1>10. CASE /\ up.stage = "whole" \/ (up.stage = "open" /\ up.item \in {"reasoning", "other"})
            /\ ev.type = "item_done" /\ (ev.of = "signed" => up.item = "reasoning")
            /\ up' = [up EXCEPT !.stage = "between", !.seal = ev.of]
  <2>1. /\ up' \in Upstreams /\ up'.stage = "between" /\ up'.blocks = up.blocks
        /\ up'.said = up.said /\ up'.item = up.item /\ up'.seal = ev.of
    <3>1. ev.of \in {"", "signed"}
      BY <1>10, EventFacts
    <3> QED
      BY <1>1, <1>10, <3>1 DEF Upstreams, Speaking
  <2>2. /\ up.stage = "whole" \/ (up.stage = "open" /\ up.item \in {"reasoning", "other"})
        /\ ev.type = "item_done" /\ (ev.of = "signed" => up.item = "reasoning")
    BY <1>10
  <2> QED
    BY <2>1, <2>2, ItemDoneProgress
<1> QED
  BY <1>3, <1>4, <1>5, <1>6, <1>7, <1>8, <1>9, <1>10 DEF Speaks

LEMMA ConcludesProgress ==
    ASSUME NEW c, Abreast(c, tr, up), NEW ev \in Events, Concludes(ev)
    PROVE  up' \in Upstreams /\ Progress(c, Apply(tr, ev), up')
<1>1. up \in Upstreams /\ Overflow(ev) \in BOOLEAN /\ ev.usage \in Sizes
  BY EventFacts DEF Abreast, Overflow
<1>2. PICK F, s : F = Overflow(ev) /\ s = IF ev.type = "error" THEN "erred" ELSE "over"
  OBVIOUS
<1>3. up' = [up EXCEPT !.stage = s, !.overflow = F]
  BY <1>2, Zenon DEF Concludes
<1>4. F \in BOOLEAN /\ s \in {"erred", "over"}
  BY <1>1, <1>2
<1>5. /\ up' \in Upstreams /\ up'.stage = s /\ up'.blocks = up.blocks
      /\ up'.said = up.said /\ up'.item = up.item
  BY <1>1, <1>3, <1>4 DEF Upstreams, Speaking
<1>6. CASE ev.type = "error"
  <2>1. up.stage \in Speaking
    BY <1>1, <1>6, UpstreamFields DEF Concludes
  <2>2. up'.stage = "erred"
    BY <1>2, <1>5, <1>6
  <2> QED
    BY <1>5, <1>6, <2>1, <2>2, ErrorProgress
<1>7. CASE ev.type # "error"
  <2>1. ev.type \in {"completed", "incomplete", "failed"}
    BY <1>7 DEF Concludes
  <2>2. up.stage \in Speaking \cup {"erred"}
    <3>1. up.stage \in {"new", "erred", "over"} \cup Speaking
      BY <1>1, UpstreamFields
    <3>2. up.stage # "new" /\ up.stage # "over"
      BY DEF Concludes
    <3> QED
      BY <3>1, <3>2
  <2>3. up'.stage = "over"
    BY <1>2, <1>5, <1>7
  <2> QED
    BY <1>1, <1>5, <2>1, <2>2, <2>3, EndProgress
<1> QED
  BY <1>6, <1>7

-------------------------------------------------------------------------------
(* The end of the upstream's stream, as a client that is abreast sees it.  *)
LEMMA NetEnds ==
    ASSUME NEW a \in Clients, NEW t \in Translators, NEW u \in Upstreams, Sees(a, t), TranslatorOK(t, u)
    PROVE  /\ Brings(a, SafetyNet(t), a.deltas) /\ TranslatorOK(SafetyNet(t).t, u)
           /\ SafetyNet(t).t.started => SafetyNet(t).t.ended
<1>1. PICK r, z : r = SafetyNet(t) /\ z = r.t
  OBVIOUS
<1>2. u.blocks <= u.blocks
  <2>1. u.blocks \in 0..MaxBlocks
    BY UpstreamFields
  <2> QED
    BY <2>1
<1>3. CASE t.started /\ ~t.ended
  <2>1. PICK stop \in StopReasons, usage \in Sizes : stop = "end_turn" /\ usage = "absent"
    BY DEF StopReasons, Sizes
  <2>2. r = Finalize(t, stop, usage)
    BY <1>1, <1>3, <2>1, Zenon DEF SafetyNet
  <2>3. UnderWay(t)
    BY <1>3 DEF UnderWay, TranslatorOK
  <2>4. Brings(a, r, a.deltas)
    BY <2>1, <2>2, <2>3, Finishes
  <2>5. Finalized(t, z)
    BY <1>1, <2>2, <2>3, Finished
  <2>6. TranslatorOK(z, u)
    BY <1>2, <2>5, SameBlocks DEF Finalized
  <2> QED
    BY <1>1, <2>4, <2>5, <2>6 DEF Finalized
<1>4. CASE ~(t.started /\ ~t.ended)
  <2>1. r = Result(t, <<>>)
    BY <1>1, <1>4, Zenon DEF SafetyNet, Nothing
  <2>2. z = t
    BY <1>1, <2>1 DEF Result
  <2>3. Brings(a, r, a.deltas)
    BY <2>1, BringsNothing
  <2>4. t.started => t.ended
    BY <1>4
  <2> QED
    BY <1>1, <2>2, <2>3, <2>4
<1> QED
  BY <1>3, <1>4

(* ... and with the error that tells it that the connection broke.         *)
LEMMA ErrorIsQuiet ==
    ASSUME NEW d \in Clients, NEW t \in Translators, Sees(d, t)
    PROVE  Brings(d, Result(t, <<ErrorEvent>>), d.deltas)
<1>1. PICK e, g : e = ErrorEvent /\ g = Received(d, e)
  OBVIOUS
<1>2. e \in Emissions /\ e.name = "error" /\ e.idx = NoBlock
  <2>1. NoBlock \in Int /\ "" \in EventKinds /\ "error" \in EventNames
    BY NoBlockIsInt DEF EventKinds, EventNames
  <2> QED
    BY <1>1, <2>1 DEF ErrorEvent, Emit, Emissions
<1>3. Expects(d, e)
  BY <1>2 DEF Expects
<1>4. g.phase = d.phase /\ g.block = d.block /\ g.kind = d.kind /\ g.next = d.next /\ g.deltas = d.deltas
  BY <1>1, <1>2, ReceivedPhase, ReceivedOther
<1>5. Sees(g, t)
  BY <1>4 DEF Sees
<1> QED
  BY <1>1, <1>2, <1>3, <1>4, <1>5, BringsOne

(* What is still to be delivered when the handler has seen the end.        *)
Concluded(c, s, n) ==
    /\ s \in Seq(Emissions)
    /\ \E d \in Clients : Leads(c, s, d) /\ d.phase \in {"none", "ended"} /\ d.next = n

LEMMA NetConcludes ==
    ASSUME NEW a \in Clients, NEW t \in Translators, NEW u \in Upstreams, Sees(a, t), TranslatorOK(t, u),
           NEW s, s = <<>> \/ s = <<ErrorEvent>>
    PROVE  Concluded(a, SafetyNet(t).out \o s, SafetyNet(t).t.next)
<1>1. PICK r, z : r = SafetyNet(t) /\ z = r.t
  OBVIOUS
<1>2. Brings(a, r, a.deltas) /\ (z.started => z.ended) /\ z \in Translators
  BY <1>1, NetEnds DEF Brings
<1>3. PICK q : q = Result(z, s)
  OBVIOUS
<1>4. q.t = z /\ q.out = s
  BY <1>3 DEF Result
<1>5. ASSUME NEW d \in Clients, Sees(d, z), d.deltas = a.deltas PROVE Brings(d, q, a.deltas)
  <2>1. CASE s = <<>>
    BY <1>2, <1>3, <1>5, <2>1, BringsNothing
  <2>2. CASE s = <<ErrorEvent>>
    BY <1>2, <1>3, <1>5, <2>2, ErrorIsQuiet
  <2> QED
    BY <2>1, <2>2
<1>6. PICK p : p = Result(z, r.out \o s)
  OBVIOUS
<1>7. Brings(a, p, a.deltas)
  BY <1>1, <1>2, <1>4, <1>5, <1>6, BringsOn
<1>8. p.t = z /\ p.out = r.out \o s
  BY <1>6 DEF Result
<1>9. PICK d \in Clients : Leads(a, p.out, d) /\ Sees(d, z)
  BY <1>7, <1>8 DEF Brings
<1>10. d.phase \in {"none", "ended"} /\ d.next = z.next
  BY <1>2, <1>9 DEF Sees
<1>11. p.out \in Seq(Emissions)
  BY <1>7 DEF Brings
<1>12. Concluded(a, p.out, z.next)
  BY <1>9, <1>10, <1>11 DEF Concluded
<1> QED
  BY <1>1, <1>8, <1>12

-------------------------------------------------------------------------------
(* The invariant: types; what of the answer there is, by where the handler *)
(* is; what is still to be written of it; and what becomes of an overflow. *)
Early ==
    {"gate", "clear", "translate", "turn", "build", "send", "refresh", "rebuild", "resend", "failing"}
Handlers == {"idle", "classify", "pipe", "collect", "drain", "record"} \cup Early

Typed ==
    /\ provider \in Providers /\ call \in Calls /\ client \in Clients
    /\ up \in Upstreams /\ tr \in Translators /\ TranslatorOK(tr, up)
    /\ ctx \in BOOLEAN /\ turns \in 0..MaxTurns
    /\ token \in 0..MaxRefreshes /\ others \in 0..MaxOthers
Shows(c, t) == c.block \in {NoBlock, c.next - 1} /\ c.next <= t.next

Untouched(t, u) == u = FreshUpstream /\ t = NewStreamTranslator(t.carry, t.omit)
Placed ==
    /\ call.gone => call.pc \in {"idle", "record"}
    /\ call.late => call.pc \in {"pipe", "drain", "record"}
    /\ call.pc \in {"idle", "record"} \cup Early => out = <<>>
    /\ call.pc \in {"idle", "classify", "collect"} \cup Early => client = Unseen
    /\ call.pc \in Early => Untouched(tr, up)
    /\ At("record") => call.gone \/ client.phase \in {"none", "ended"}

Awaits(c, s, t, u) ==
    s \in Seq(Emissions) /\ \E a \in Clients : Leads(c, s, a) /\ Abreast(a, t, u)
Gathers(t, u) == \E a \in Clients : Abreast(a, t, u)
Answering ==
    /\ call.pc \in {"classify", "pipe"} => Awaits(client, out, tr, up)
    /\ At("drain") => Concluded(client, out, tr.next)
    /\ At("collect") => Gathers(tr, up)

Overflowing(k, u) ==
    /\ k.pc = "classify" => ~u.overflow /\ ~u.acted
    /\ k.pc \in {"pipe", "drain"} \/ (k.pc = "record" /\ k.answer = "stream" /\ ~k.gone) =>
          k.late \/ u.acted \/ (u.stage = "over" /\ ~u.overflow)

IInv == Typed /\ Shows(client, tr) /\ Placed /\ Answering /\ Overflowing(call, up)

-------------------------------------------------------------------------------
LEMMA FreshIsThere ==
    FreshUpstream \in Upstreams /\ FreshUpstream.stage = "new" /\ ~FreshUpstream.said
<1>1. 0 \in 0..MaxBlocks
  BY TerminalAssumption
<1> QED
  BY <1>1 DEF FreshUpstream, Upstreams, NoItem

LEMMA NewTranslator ==
    ASSUME NEW carry \in BOOLEAN, NEW omit \in BOOLEAN, NEW t, t = NewStreamTranslator(carry, omit)
    PROVE  /\ t \in Translators /\ t = NewStreamTranslator(t.carry, t.omit)
           /\ t.cur = NoBlock /\ t.type = "" /\ t.next = 0
<1>1. t.carry = carry /\ t.omit = omit /\ t.cur = NoBlock /\ t.type = "" /\ t.next = 0
  BY DEF NewStreamTranslator
<1>2. t \in Translators
  BY NoBlockIsInt DEF NewStreamTranslator, Translators, Sizes
<1> QED
  BY <1>1, <1>2

LEMMA Zeroes == 0 \in 0..0 /\ NoBlock \in -1..(0 - 1)
<1>1. 0 \in 0..0
  OBVIOUS
<1>2. 0 \in 0..MaxBlocks
  BY TerminalAssumption
<1>3. NoBlock \in -1..(0 - 1)
  BY <1>1, <1>2, Counting
<1> QED
  BY <1>1, <1>3

LEMMA NewIsOK ==
    ASSUME NEW t, t.cur = NoBlock, t.type = "", t.next = 0
    PROVE  TranslatorOK(t, FreshUpstream)
<1>1. FreshUpstream.blocks = 0
  BY DEF FreshUpstream
<1> QED
  BY <1>1, Zeroes DEF TranslatorOK

LEMMA UnseenFields ==
    /\ Unseen \in Clients /\ Unseen.phase = "none" /\ Unseen.block = NoBlock /\ Unseen.kind = ""
    /\ Unseen.next = 0
<1>1. 0 \in 0..MaxBlocks
  BY TerminalAssumption
<1>2. <<"none", NoBlock>> \in Lasts
  BY NoBlockIsInt DEF Lasts
<1> QED
  BY <1>1, <1>2, NoBlockIsInt DEF Unseen, Clients

LEMMA UnseenShows ==
    ASSUME NEW t \in Translators
    PROVE  Shows(Unseen, t)
<1>1. t.next \in Nat
  BY TranslatorFields
<1>2. 0 <= t.next
  BY <1>1
<1> QED
  BY <1>2, UnseenFields DEF Shows

LEMMA UntouchedAbreast ==
    ASSUME NEW t \in Translators, NEW u, Untouched(t, u), TranslatorOK(t, u)
    PROVE  Abreast(Unseen, t, u)
<1>1. u \in Upstreams /\ u.stage = "new" /\ ~u.said
  BY FreshIsThere DEF Untouched
<1>2. Translating(t, u)
  BY <1>1 DEF Translating, Untouched, Speaking
<1>3. PICK carry, omit : t = NewStreamTranslator(carry, omit)
  BY DEF Untouched
<1>4. ~t.started /\ ~t.ended /\ t.cur = NoBlock /\ t.type = "" /\ t.next = 0
  BY <1>3 DEF NewStreamTranslator
<1>5. Sees(Unseen, t)
  BY <1>4, UnseenFields DEF Sees
<1>6. Tells(Unseen.deltas, t, u)
  BY <1>1 DEF Tells
<1> QED
  BY <1>1, <1>2, <1>5, <1>6, UnseenFields DEF Abreast

(* What is still to be written, as more of it comes and as it is written.  *)
LEMMA AwaitsFirst ==
    ASSUME NEW c \in Clients, NEW t, NEW u, Abreast(c, t, u)
    PROVE  Awaits(c, <<>>, t, u)
<1>1. <<>> \in Seq(Emissions)
  OBVIOUS
<1> QED
  BY <1>1, LeadsNowhere DEF Awaits

LEMMA AwaitsMore ==
    ASSUME NEW c \in Clients, NEW s, NEW t, NEW u, Awaits(c, s, t, u), NEW r, NEW v,
           \A a : Abreast(a, t, u) => Progress(a, r, v)
    PROVE  Awaits(c, s \o r.out, r.t, v)
<1>1. PICK a \in Clients : Leads(c, s, a) /\ Abreast(a, t, u)
  BY DEF Awaits
<1>2. Progress(a, r, v)
  BY <1>1
<1>3. PICK d \in Clients : Leads(a, r.out, d) /\ Abreast(d, r.t, v)
  BY <1>2 DEF Progress
<1>4. PICK o : o = r.out
  OBVIOUS
<1>5. s \in Seq(Emissions) /\ o \in Seq(Emissions)
  BY <1>2, <1>4 DEF Awaits, Progress
<1>6. Leads(c, s \o o, d) /\ s \o o \in Seq(Emissions)
  BY <1>1, <1>3, <1>4, <1>5, LeadsOn
<1> QED
  BY <1>3, <1>4, <1>6 DEF Awaits

LEMMA AwaitsLess ==
    ASSUME NEW c \in Clients, NEW s, s # <<>>, NEW t, NEW u, Awaits(c, s, t, u)
    PROVE  /\ Expects(c, Head(s)) /\ Head(s) \in Emissions
           /\ Awaits(Received(c, Head(s)), Tail(s), t, u)
<1>1. PICK a \in Clients : s \in Seq(Emissions) /\ Leads(c, s, a) /\ Abreast(a, t, u)
  BY DEF Awaits
<1>2. Tail(s) \in Seq(Emissions)
  BY <1>1
<1>3. /\ Expects(c, Head(s)) /\ Head(s) \in Emissions
      /\ Leads(Received(c, Head(s)), Tail(s), a)
  BY <1>1, LeadsOff
<1> QED
  BY <1>1, <1>2, <1>3 DEF Awaits

LEMMA ConcludedLess ==
    ASSUME NEW c \in Clients, NEW s, s # <<>>, NEW n, Concluded(c, s, n)
    PROVE  /\ Expects(c, Head(s)) /\ Head(s) \in Emissions
           /\ Concluded(Received(c, Head(s)), Tail(s), n)
<1>1. PICK a \in Clients : s \in Seq(Emissions) /\ Leads(c, s, a) /\ a.phase \in {"none", "ended"} /\ a.next = n
  BY DEF Concluded
<1>2. Tail(s) \in Seq(Emissions)
  BY <1>1
<1>3. /\ Expects(c, Head(s)) /\ Head(s) \in Emissions
      /\ Leads(Received(c, Head(s)), Tail(s), a)
  BY <1>1, LeadsOff
<1> QED
  BY <1>1, <1>2, <1>3 DEF Concluded

LEMMA AwaitsBound ==
    ASSUME NEW c \in Clients, NEW s, NEW t, NEW u, Awaits(c, s, t, u)
    PROVE  c.next <= t.next /\ (s = <<>> => Abreast(c, t, u))
<1>1. PICK a \in Clients : s \in Seq(Emissions) /\ Leads(c, s, a) /\ Abreast(a, t, u)
  BY DEF Awaits
<1>2. c.next <= a.next /\ (s = <<>> => c = a)
  BY <1>1, LeadsBound
<1>3. a.next = t.next
  BY <1>1 DEF Abreast, Sees
<1> QED
  BY <1>1, <1>2, <1>3

LEMMA ConcludedBound ==
    ASSUME NEW c \in Clients, NEW s, NEW n, Concluded(c, s, n)
    PROVE  c.next <= n /\ (s = <<>> => c.phase \in {"none", "ended"})
<1>1. PICK a \in Clients : s \in Seq(Emissions) /\ Leads(c, s, a) /\ a.phase \in {"none", "ended"} /\ a.next = n
  BY DEF Concluded
<1>2. c.next <= a.next /\ (s = <<>> => c = a)
  BY <1>1, LeadsBound
<1> QED
  BY <1>1, <1>2

-------------------------------------------------------------------------------
(* Before the upstream has answered.                                       *)
Moves(k, l) ==
    l \in Calls /\ l.pc \in Early \cup {"idle"} /\ (l.gone <=> k.gone) /\ (l.late <=> k.late)

LEMMA CallFields ==
    ASSUME NEW k \in Calls
    PROVE  /\ k.pc \in Handlers /\ k.sent \in 0..MaxRefreshes /\ k.answer \in Answers
           /\ k.stream \in BOOLEAN /\ k.matched \in BOOLEAN /\ k.omit \in BOOLEAN
           /\ k.newTurn \in BOOLEAN /\ k.late \in BOOLEAN /\ k.gone \in BOOLEAN /\ k.dies \in BOOLEAN
BY DEF Calls, Handlers, Early

LEMMA GotoMoves ==
    ASSUME call \in Calls, NEW pc \in Early \cup {"idle"}, Goto(pc)
    PROVE  Moves(call, call')
<1>1. call' = [call EXCEPT !.pc = pc]
  BY DEF Goto
<1>2. call' \in Calls
  BY <1>1 DEF Calls, Early
<1>3. call'.pc = pc /\ call'.gone = call.gone /\ call'.late = call.late
  BY <1>1 DEF Calls
<1> QED
  BY <1>2, <1>3 DEF Moves

LEMMA AnswerMoves ==
    ASSUME call \in Calls, NEW answer \in Answers, Answer(answer)
    PROVE  Moves(call, call')
<1>1. call' = [call EXCEPT !.pc = "idle", !.answer = answer]
  BY DEF Answer
<1>2. call' \in Calls
  BY <1>1 DEF Calls
<1>3. call'.pc = "idle" /\ call'.gone = call.gone /\ call'.late = call.late
  BY <1>1 DEF Calls
<1> QED
  BY <1>2, <1>3 DEF Moves

LEMMA EarlyStays ==
    ASSUME IInv, call.pc \in Early, Moves(call, call'), UNCHANGED <<provider, answerVars>>,
           ctx' \in BOOLEAN, turns' \in 0..MaxTurns, token' \in 0..MaxRefreshes,
           others' \in 0..MaxOthers
    PROVE  IInv' /\ client' = client /\ (call'.gone <=> call.gone)
<1>1. Typed /\ Shows(client, tr) /\ Placed
  BY DEF IInv
<1>2. up' = up /\ tr' = tr /\ out' = out /\ client' = client /\ provider' = provider
  BY DEF answerVars
<1>3. /\ call' \in Calls /\ call'.pc \in Early \cup {"idle"}
      /\ (call'.gone <=> call.gone) /\ (call'.late <=> call.late)
  BY DEF Moves
<1>4. ~call.gone /\ ~call.late /\ out = <<>> /\ client = Unseen /\ Untouched(tr, up)
  BY <1>1 DEF Placed, Early
<1>5. Typed'
  BY <1>1, <1>2, <1>3 DEF Typed
<1>6. Shows(client, tr)'
  BY <1>1, <1>2
<1>7. Placed'
  <2>1. ~call'.gone /\ ~call'.late
    BY <1>3, <1>4
  <2>2. out' = <<>> /\ client' = Unseen /\ Untouched(tr', up')
    BY <1>2, <1>4
  <2>3. call'.pc # "record"
    BY <1>3 DEF Early
  <2> QED
    BY <2>1, <2>2, <2>3 DEF Placed, At
<1>8. Answering'
  BY <1>3 DEF Answering, Early, At
<1>9. Overflowing(call, up)'
  BY <1>3 DEF Overflowing, Early
<1> QED
  BY <1>2, <1>3, <1>5, <1>6, <1>7, <1>8, <1>9 DEF IInv

LEMMA FreshIs ==
    ASSUME NEW ok, NEW gen, token \in 0..MaxRefreshes, Fresh(ok, gen)
    PROVE  token' \in 0..MaxRefreshes
<1>1. MaxRefreshes \in Nat
  BY TerminalAssumption
<1>2. token' = token \/ (token < MaxRefreshes /\ token' = token + 1)
  BY DEF Fresh
<1> QED
  BY <1>1, <1>2

LEMMA EarlyActions ==
    ASSUME IInv,
           \/ Gate \/ Clear \/ Translate \/ TurnFor \/ Build \/ Refresh
           \/ Unauthorized \/ Unreachable \/ Refused
           \/ \E modelUnknown, tooLong \in BOOLEAN : Report(modelUnknown, tooLong)
    PROVE  IInv' /\ client' = client /\ (call'.gone <=> call.gone)
<1>1. /\ call \in Calls /\ ctx \in BOOLEAN /\ turns \in 0..MaxTurns
      /\ token \in 0..MaxRefreshes /\ others \in 0..MaxOthers
  BY DEF IInv, Typed
<1>2. {"rejected", "bad_request", "bad_gateway", "too_long", "upstream_error"} \subseteq Answers
  BY DEF Answers
<1>3. CASE Gate
  <2>1. call.pc \in Early /\ UNCHANGED <<provider, answerVars, session, token>>
    BY <1>3 DEF Gate, At, Early
  <2>2. Moves(call, call')
    <3>1. Goto("clear") \/ Goto("translate")
      BY <1>3 DEF Gate
    <3> QED
      BY <1>1, <3>1, GotoMoves DEF Early
  <2> QED
    BY <1>1, <2>1, <2>2, EarlyStays DEF session
<1>4. CASE Clear
  <2>1. call.pc \in Early /\ ctx' = FALSE /\ UNCHANGED <<provider, answerVars, turns, others, token>>
    BY <1>4 DEF Clear, At, Early
  <2>2. Moves(call, call')
    BY <1>1, <1>2, <1>4, AnswerMoves DEF Clear
  <2> QED
    BY <1>1, <2>1, <2>2, EarlyStays
<1>5. CASE Translate
  <2>1. call.pc \in Early /\ UNCHANGED <<provider, answerVars, session, token>>
    BY <1>5 DEF Translate, At, Early
  <2>2. Moves(call, call')
    <3>1. Goto("turn") \/ Answer("bad_request")
      BY <1>5 DEF Translate
    <3> QED
      BY <1>1, <1>2, <3>1, GotoMoves, AnswerMoves DEF Early
  <2> QED
    BY <1>1, <2>1, <2>2, EarlyStays DEF session
<1>6. CASE TurnFor
  <2>1. call.pc \in Early /\ UNCHANGED <<provider, answerVars, ctx, others, token>>
    BY <1>6 DEF TurnFor, At, Early
  <2>2. turns' \in 0..MaxTurns
    <3>1. MaxTurns \in Nat
      BY TerminalAssumption
    <3>2. turns' = turns \/ (turns < MaxTurns /\ turns' = turns + 1)
      BY <1>6 DEF TurnFor
    <3> QED
      BY <1>1, <3>1, <3>2
  <2>3. Moves(call, call')
    <3>1. call' = [call EXCEPT !.pc = "build", !.newTurn = FALSE]
      BY <1>6 DEF TurnFor
    <3>2. call' \in Calls
      BY <1>1, <3>1 DEF Calls
    <3>3. call'.pc = "build" /\ call'.gone = call.gone /\ call'.late = call.late
      BY <1>1, <3>1 DEF Calls
    <3> QED
      BY <3>2, <3>3 DEF Moves, Early
  <2> QED
    BY <1>1, <2>1, <2>2, <2>3, EarlyStays
<1>7. CASE Build
  <2>1. call.pc \in Early /\ UNCHANGED <<provider, answerVars, session>>
    BY <1>7 DEF Build, Early
  <2>2. PICK ok \in BOOLEAN, gen \in 0..MaxRefreshes :
           /\ IF Grok THEN Fresh(ok, gen) ELSE ok /\ gen = Bundle /\ UNCHANGED token
           /\ IF ok THEN call' = [call EXCEPT !.pc = IF At("build") THEN "send" ELSE "resend",
                                              !.sent = gen]
              ELSE Answer("bad_gateway")
    BY <1>7 DEF Build
  <2>3. token' \in 0..MaxRefreshes
    BY <1>1, <2>2, FreshIs
  <2>4. Moves(call, call')
    <3>1. CASE ok
      <4>1. PICK pc : pc = IF At("build") THEN "send" ELSE "resend"
        OBVIOUS
      <4>2. pc \in Early
        BY <4>1 DEF Early
      <4>3. call' = [call EXCEPT !.pc = pc, !.sent = gen]
        BY <2>2, <3>1, <4>1
      <4>4. call' \in Calls
        BY <1>1, <4>2, <4>3 DEF Calls, Early
      <4>5. call'.pc = pc /\ call'.gone = call.gone /\ call'.late = call.late
        BY <1>1, <4>3 DEF Calls
      <4> QED
        BY <4>2, <4>4, <4>5 DEF Moves
    <3>2. CASE ~ok
      BY <1>1, <1>2, <2>2, <3>2, AnswerMoves
    <3> QED
      BY <3>1, <3>2
  <2> QED
    BY <1>1, <2>1, <2>3, <2>4, EarlyStays DEF session
<1>8. CASE Refresh
  <2>1. call.pc \in Early /\ UNCHANGED <<provider, answerVars, session>>
    BY <1>8 DEF Refresh, At, Early
  <2>2. \/ Goto("rebuild") /\ UNCHANGED token
        \/ \E ok \in BOOLEAN, gen \in 0..MaxRefreshes :
              Fresh(ok, gen) /\ (Goto("rebuild") \/ Answer("bad_gateway"))
    BY <1>8 DEF Refresh
  <2>3. token' \in 0..MaxRefreshes
    BY <1>1, <2>2, FreshIs
  <2>4. Moves(call, call')
    BY <1>1, <1>2, <2>2, GotoMoves, AnswerMoves DEF Early
  <2> QED
    BY <1>1, <2>1, <2>3, <2>4, EarlyStays DEF session
<1>9. CASE Unauthorized \/ Unreachable \/ Refused
  <2>1. call.pc \in Early /\ UNCHANGED <<provider, answerVars, session, token>>
    BY <1>9 DEF Unauthorized, Unreachable, Refused, At, Early
  <2>2. Moves(call, call')
    <3>1. Goto("refresh") \/ Goto("failing") \/ Answer("bad_gateway")
      BY <1>9 DEF Unauthorized, Unreachable, Refused
    <3> QED
      BY <1>1, <1>2, <3>1, GotoMoves, AnswerMoves DEF Early
  <2> QED
    BY <1>1, <2>1, <2>2, EarlyStays DEF session
<1>10. ASSUME NEW modelUnknown \in BOOLEAN, NEW tooLong \in BOOLEAN, Report(modelUnknown, tooLong)
       PROVE  IInv' /\ client' = client /\ (call'.gone <=> call.gone)
  <2>1. call.pc \in Early /\ UNCHANGED <<provider, answerVars, session, token>>
    BY <1>10 DEF Report, At, Early
  <2>2. Moves(call, call')
    <3>1. PICK answer : answer = IF Grok /\ tooLong THEN "too_long" ELSE "upstream_error"
      OBVIOUS
    <3>2. answer \in Answers
      BY <1>2, <3>1
    <3>3. call' = [call EXCEPT !.pc = "idle", !.dies = modelUnknown, !.answer = answer]
      BY <1>10, <3>1 DEF Report
    <3>4. call' \in Calls
      BY <1>1, <1>10, <3>2, <3>3 DEF Calls
    <3>5. call'.pc = "idle" /\ call'.gone = call.gone /\ call'.late = call.late
      BY <1>1, <3>3 DEF Calls
    <3> QED
      BY <3>4, <3>5 DEF Moves
  <2> QED
    BY <1>1, <2>1, <2>2, EarlyStays DEF session
<1> QED
  BY <1>3, <1>4, <1>5, <1>6, <1>7, <1>8, <1>9, <1>10

LEMMA InitHolds ==
    ASSUME Init
    PROVE  IInv
<1>1. /\ MaxTurns \in Nat /\ MaxRefreshes \in Nat /\ MaxOthers \in Nat
  BY TerminalAssumption
<1>2. /\ call = NewCall /\ up = FreshUpstream /\ tr = NewStreamTranslator(FALSE, FALSE)
      /\ out = <<>> /\ client = Unseen
  BY DEF Init
<1>3. call.pc = "idle" /\ ~call.gone /\ ~call.late
  BY <1>2 DEF NewCall
<1>4. call \in Calls
  BY <1>1, <1>2 DEF NewCall, Calls, Answers
<1>5. tr \in Translators /\ TranslatorOK(tr, up)
  BY <1>2, NewTranslator, NewIsOK
<1>6. up \in Upstreams /\ client \in Clients
  BY <1>2, FreshIsThere, UnseenFields
<1>7. /\ provider \in Providers /\ ctx \in BOOLEAN /\ turns \in 0..MaxTurns
      /\ token \in 0..MaxRefreshes /\ others \in 0..MaxOthers
  <2>1. provider \in Providers /\ ctx = FALSE /\ turns = 0 /\ token = 0 /\ others = 0
    BY DEF Init
  <2>2. 0 \in 0..MaxTurns /\ 0 \in 0..MaxRefreshes /\ 0 \in 0..MaxOthers
    BY <1>1
  <2> QED
    BY <2>1, <2>2
<1>8. Typed
  BY <1>4, <1>5, <1>6, <1>7 DEF Typed
<1>9. Shows(client, tr)
  BY <1>2, <1>5, UnseenShows
<1>10. Placed
  BY <1>2, <1>3 DEF Placed, Early, At
<1>11. Answering /\ Overflowing(call, up)
  BY <1>3 DEF Answering, Overflowing, At
<1> QED
  BY <1>8, <1>9, <1>10, <1>11 DEF IInv

(* A request arrives, and its answer is accepted.                          *)
LEMMA ArriveHolds ==
    ASSUME IInv, NEW stream \in BOOLEAN, NEW matched \in BOOLEAN, NEW omit \in BOOLEAN,
           NEW newTurn \in BOOLEAN, Arrive(stream, matched, omit, newTurn)
    PROVE  IInv' /\ client = Unseen /\ client' = client /\ ~call'.gone
<1>1. Typed /\ Placed
  BY DEF IInv
<1>2. /\ call.pc = "idle" /\ up' = FreshUpstream /\ tr' = NewStreamTranslator(Grok, omit)
      /\ provider' = provider /\ out' = out /\ client' = client
      /\ ctx' = ctx /\ turns' = turns /\ others' = others
  BY DEF Arrive, At, session
<1>3. out = <<>> /\ client = Unseen
  BY <1>1, <1>2 DEF Placed
<1>4. PICK ok \in BOOLEAN, gen \in 0..MaxRefreshes :
         /\ Fresh(ok, gen)
         /\ call' = IF ok
                    THEN [NewCall EXCEPT !.pc = "gate", !.stream = stream, !.matched = matched,
                                         !.omit = omit, !.newTurn = newTurn]
                    ELSE [NewCall EXCEPT !.answer = "unavailable"]
  BY DEF Arrive
<1>5. NewCall \in Calls
  <2>1. MaxRefreshes \in Nat
    BY TerminalAssumption
  <2> QED
    BY <2>1 DEF NewCall, Calls, Answers
<1>6. call' \in Calls /\ call'.pc \in {"idle", "gate"}
  <2>1. CASE ok
    <3>1. call' = [NewCall EXCEPT !.pc = "gate", !.stream = stream, !.matched = matched,
                                  !.omit = omit, !.newTurn = newTurn]
      BY <1>4, <2>1
    <3> QED
      BY <1>5, <3>1, ZenonT(40) DEF Calls
  <2>2. CASE ~ok
    <3>1. call' = [NewCall EXCEPT !.answer = "unavailable"]
      BY <1>4, <2>2
    <3>2. "unavailable" \in Answers /\ NewCall.pc = "idle"
      BY DEF Answers, NewCall
    <3> QED
      BY <1>5, <3>1, <3>2 DEF Calls
  <2> QED
    BY <2>1, <2>2
<1>7. ~call'.gone /\ ~call'.late
  <2>1. NewCall.gone = FALSE /\ NewCall.late = FALSE
    BY DEF NewCall
  <2>2. call'.gone = NewCall.gone /\ call'.late = NewCall.late
    BY <1>4, <1>5 DEF Calls
  <2> QED
    BY <2>1, <2>2
<1>8. PICK g \in BOOLEAN : tr' = NewStreamTranslator(g, omit)
  <2>1. Grok \in BOOLEAN
    BY DEF Grok
  <2> QED
    BY <1>2, <2>1
<1>9. tr' \in Translators /\ TranslatorOK(tr', up') /\ Untouched(tr', up')
  <2>1. /\ tr' \in Translators /\ tr' = NewStreamTranslator(tr'.carry, tr'.omit)
        /\ tr'.cur = NoBlock /\ tr'.type = "" /\ tr'.next = 0
    BY <1>8, NewTranslator
  <2>2. TranslatorOK(tr', up')
    BY <1>2, <2>1, NewIsOK
  <2> QED
    BY <1>2, <2>1, <2>2 DEF Untouched
<1>10. token' \in 0..MaxRefreshes
  BY <1>1, <1>4, FreshIs DEF Typed
<1>11. Typed'
  BY <1>1, <1>2, <1>6, <1>9, <1>10, FreshIsThere DEF Typed
<1>12. Shows(client, tr)'
  BY <1>2, <1>3, <1>9, UnseenShows
<1>13. Placed'
  BY <1>2, <1>3, <1>6, <1>7, <1>9 DEF Placed, Early, At
<1>14. Answering' /\ Overflowing(call, up)'
  BY <1>6 DEF Answering, Overflowing, At
<1> QED
  BY <1>2, <1>3, <1>7, <1>11, <1>12, <1>13, <1>14 DEF IInv

LEMMA AcceptedHolds ==
    ASSUME IInv, Accepted
    PROVE  IInv' /\ client' = client /\ (call'.gone <=> call.gone)
<1>1. Typed /\ Shows(client, tr) /\ Placed
  BY DEF IInv
<1>2. /\ call.pc \in Early /\ up' = up /\ tr' = tr /\ out' = out /\ client' = client
      /\ provider' = provider /\ ctx' = ctx /\ turns' = turns /\ others' = others /\ token' = token
  BY DEF Accepted, Early, answerVars, session
<1>3. ~call.gone /\ ~call.late /\ out = <<>> /\ client = Unseen /\ Untouched(tr, up)
  BY <1>1, <1>2 DEF Placed, Early
<1>4. PICK pc, answer :
         /\ pc = CASE ~call.matched -> "idle" [] call.matched /\ call.stream -> "classify"
                   [] OTHER -> "collect"
         /\ answer = IF call.matched THEN call.answer ELSE "raw"
  OBVIOUS
<1>5. pc \in {"idle", "classify", "collect"}
  BY <1>4, Zenon
<1>6. call \in Calls /\ call.answer \in Answers /\ answer \in Answers /\ 0 \in 0..MaxRefreshes
  <2>1. call \in Calls /\ call.answer \in Answers
    BY <1>1, CallFields DEF Typed
  <2>2. answer \in Answers
    BY <1>4, <2>1 DEF Answers
  <2>3. 0 \in 0..MaxRefreshes
    BY TerminalAssumption
  <2> QED
    BY <2>1, <2>2, <2>3
<1>7. call' = [call EXCEPT !.sent = 0, !.pc = pc, !.answer = answer]
  BY <1>4, Zenon DEF Accepted
<1>8. call' \in Calls
  BY <1>5, <1>6, <1>7 DEF Calls
<1>9. call'.pc = pc /\ call'.gone = call.gone /\ call'.late = call.late
  BY <1>6, <1>7 DEF Calls
<1>10. ~call'.gone /\ ~call'.late
  BY <1>3, <1>9
<1>11. Abreast(Unseen, tr, up)
  BY <1>1, <1>3, UntouchedAbreast DEF Typed
<1>12. Typed'
  BY <1>1, <1>2, <1>8 DEF Typed
<1>13. Shows(client, tr)'
  BY <1>1, <1>2
<1>14. Placed'
  BY <1>2, <1>3, <1>5, <1>9, <1>10 DEF Placed, Early, At
<1>15. Answering'
  <2>1. Awaits(Unseen, <<>>, tr, up) /\ Gathers(tr, up)
    BY <1>11, AwaitsFirst, UnseenFields DEF Gathers
  <2>2. Awaits(client, out, tr, up)' /\ Gathers(tr, up)'
    BY <1>2, <1>3, <2>1
  <2>3. call'.pc # "drain"
    BY <1>5, <1>9
  <2> QED
    BY <2>2, <2>3 DEF Answering, At
<1>16. Overflowing(call, up)'
  <2>1. up'.overflow = FALSE /\ up'.acted = FALSE
    BY <1>2, <1>3 DEF Untouched, FreshUpstream
  <2> QED
    BY <1>5, <1>9, <2>1 DEF Overflowing
<1> QED
  BY <1>2, <1>3, <1>10, <1>12, <1>13, <1>14, <1>15, <1>16 DEF IInv

(* The map of prompt sizes, and the end of the request.                    *)
LEMMA OtherRecordsHolds ==
    ASSUME IInv, NEW size, OtherRecords(size)
    PROVE  IInv' /\ client' = client /\ (call'.gone <=> call.gone)
<1>1. /\ call' = call /\ up' = up /\ tr' = tr /\ out' = out /\ client' = client
      /\ provider' = provider /\ turns' = turns /\ token' = token /\ ctx' \in BOOLEAN
  BY DEF OtherRecords
<1>2. others' \in 0..MaxOthers
  <2>1. others \in 0..MaxOthers /\ MaxOthers \in Nat
    BY TerminalAssumption DEF IInv, Typed
  <2>2. others < MaxOthers /\ others' = others + 1
    BY DEF OtherRecords
  <2> QED
    BY <2>1, <2>2
<1>3. Typed'
  BY <1>1, <1>2 DEF IInv, Typed
<1>4. Shows(client, tr)' /\ Placed' /\ Answering' /\ Overflowing(call, up)'
  BY <1>1 DEF IInv, Placed, Answering, At
<1> QED
  BY <1>1, <1>3, <1>4 DEF IInv

LEMMA RecordHolds ==
    ASSUME IInv, Record
    PROVE  IInv' /\ client' = Unseen /\ ~call'.gone /\ (call.gone \/ client.phase \in {"none", "ended"})
<1>1. Typed /\ Placed
  BY DEF IInv
<1>2. /\ call.pc = "record" /\ call' = [NewCall EXCEPT !.answer = call.answer]
      /\ up' = FreshUpstream /\ tr' = NewStreamTranslator(FALSE, FALSE) /\ client' = Unseen
      /\ provider' = provider /\ out' = out /\ turns' = turns /\ others' = others /\ token' = token
  BY DEF Record, At
<1>3. out = <<>> /\ (call.gone \/ client.phase \in {"none", "ended"})
  BY <1>1, <1>2 DEF Placed, At
<1>4. ctx' \in BOOLEAN
  <2>1. ctx \in BOOLEAN
    BY <1>1 DEF Typed
  <2> QED
    BY <2>1 DEF Record
<1>5. call.answer \in Answers
  BY <1>1, CallFields DEF Typed
<1>6. NewCall \in Calls
  <2>1. MaxRefreshes \in Nat
    BY TerminalAssumption
  <2> QED
    BY <2>1 DEF NewCall, Calls, Answers
<1>7. call' \in Calls
  BY <1>2, <1>5, <1>6 DEF Calls
<1>8. call'.pc = NewCall.pc /\ call'.gone = NewCall.gone /\ call'.late = NewCall.late
  BY <1>2, <1>6 DEF Calls
<1>9. call'.pc = "idle" /\ ~call'.gone /\ ~call'.late
  BY <1>8 DEF NewCall
<1>10. tr' \in Translators /\ TranslatorOK(tr', up')
  BY <1>2, NewTranslator, NewIsOK
<1>11. Typed'
  BY <1>1, <1>2, <1>4, <1>7, <1>10, FreshIsThere, UnseenFields DEF Typed
<1>12. Shows(client, tr)'
  BY <1>2, <1>10, UnseenShows
<1>13. Placed'
  BY <1>2, <1>3, <1>9 DEF Placed, Early, At
<1>14. Answering' /\ Overflowing(call, up)'
  BY <1>9 DEF Answering, Overflowing, At
<1> QED
  BY <1>2, <1>3, <1>9, <1>11, <1>12, <1>13, <1>14 DEF IInv

(* The handler moves on without reading: client, translator and upstream   *)
(* stay.                                                                   *)
LEMMA DeadlineHolds ==
    ASSUME IInv, Deadline
    PROVE  IInv' /\ client' = client /\ (call'.gone <=> call.gone)
<1>1. Typed /\ Shows(client, tr) /\ Placed /\ Answering
  BY DEF IInv
<1>2. /\ call.pc = "classify" /\ up' = up /\ tr' = tr /\ out' = out /\ client' = client
      /\ provider' = provider /\ ctx' = ctx /\ turns' = turns /\ others' = others /\ token' = token
      /\ call' = [call EXCEPT !.pc = "pipe", !.late = TRUE]
  BY DEF Deadline, At, answerVars, session
<1>3. call \in Calls /\ ~call.gone /\ Awaits(client, out, tr, up)
  BY <1>1, <1>2 DEF Typed, Placed, Answering
<1>4. call' \in Calls
  BY <1>2, <1>3 DEF Calls
<1>5. call'.pc = "pipe" /\ call'.late /\ call'.gone = call.gone
  BY <1>2, <1>3 DEF Calls
<1>6. ~call'.gone
  BY <1>3, <1>5
<1>7. Typed' /\ Shows(client, tr)'
  BY <1>1, <1>2, <1>4 DEF Typed
<1>8. Placed'
  BY <1>5, <1>6 DEF Placed, Early, At
<1>9. Answering'
  <2>1. Awaits(client, out, tr, up)'
    BY <1>2, <1>3
  <2> QED
    BY <1>5, <2>1 DEF Answering, At
<1>10. Overflowing(call, up)'
  BY <1>5 DEF Overflowing
<1> QED
  BY <1>2, <1>3, <1>6, <1>7, <1>8, <1>9, <1>10 DEF IInv

LEMMA DrainedHolds ==
    ASSUME IInv, Drained
    PROVE  IInv' /\ client' = client /\ (call'.gone <=> call.gone)
<1>1. Typed /\ Shows(client, tr) /\ Placed /\ Answering /\ Overflowing(call, up)
  BY DEF IInv
<1>2. /\ call.pc = "drain" /\ up' = up /\ tr' = tr /\ out' = out /\ client' = client /\ out = <<>>
      /\ provider' = provider /\ ctx' = ctx /\ turns' = turns /\ others' = others /\ token' = token
      /\ call' = [call EXCEPT !.pc = "record"]
  BY DEF Drained, At, Goto, answerVars, session
<1>3. call \in Calls /\ ~call.gone /\ Concluded(client, out, tr.next) /\ client \in Clients
  BY <1>1, <1>2 DEF Typed, Placed, Answering, At
<1>4. call' \in Calls
  BY <1>2, <1>3 DEF Calls
<1>5. call'.pc = "record" /\ call'.gone = call.gone /\ call'.late = call.late
  BY <1>2, <1>3 DEF Calls
<1>6. ~call'.gone
  BY <1>3, <1>5
<1>7. Typed' /\ Shows(client, tr)'
  BY <1>1, <1>2, <1>4 DEF Typed
<1>8. Placed'
  <2>1. client.phase \in {"none", "ended"}
    BY <1>2, <1>3, ConcludedBound
  <2> QED
    BY <1>2, <1>5, <1>6, <2>1 DEF Placed, Early, At
<1>9. Answering'
  BY <1>5 DEF Answering, At
<1>10. Overflowing(call, up)'
  <2>1. call.late \/ up.acted \/ (up.stage = "over" /\ ~up.overflow)
    BY <1>1, <1>2 DEF Overflowing
  <2>2. call'.late \/ up'.acted \/ (up'.stage = "over" /\ ~up'.overflow)
    BY <1>2, <1>5, <2>1
  <2> QED
    BY <1>5, <2>2 DEF Overflowing
<1> QED
  BY <1>2, <1>3, <1>6, <1>7, <1>8, <1>9, <1>10 DEF IInv

LEMMA HangUpHolds ==
    ASSUME IInv, HangUp
    PROVE  IInv' /\ client' = client /\ call'.gone
<1>1. Typed /\ Shows(client, tr) /\ Placed
  BY DEF IInv
<1>2. /\ call.pc \in {"send", "resend", "classify", "pipe", "collect", "drain"}
      /\ up' = up /\ tr' = tr /\ out' = <<>> /\ client' = client
      /\ provider' = provider /\ ctx' = ctx /\ turns' = turns /\ others' = others /\ token' = token
  BY DEF HangUp, session
<1>3. PICK pc, answer :
         /\ pc = IF call.pc \in {"pipe", "collect", "drain"} THEN "record" ELSE "idle"
         /\ answer = CASE call.pc \in {"pipe", "drain"} -> "stream"
                       [] At("collect") -> "json_error" [] OTHER -> "bad_gateway"
  OBVIOUS
<1>4. answer \in {"stream", "json_error", "bad_gateway"}
  BY <1>3, Zenon
<1>5. call' = [call EXCEPT !.gone = TRUE, !.pc = pc, !.answer = answer]
  BY <1>3, Zenon DEF HangUp
<1>6. call \in Calls /\ answer \in Answers /\ pc \in {"idle", "record"}
  BY <1>1, <1>3, <1>4 DEF Typed, Answers
<1>7. call' \in Calls
  BY <1>5, <1>6 DEF Calls
<1>8. call'.pc = pc /\ call'.gone /\ call'.late = call.late
  BY <1>5, <1>6 DEF Calls
<1>9. Typed' /\ Shows(client, tr)'
  BY <1>1, <1>2, <1>7 DEF Typed
<1>10. Placed'
  <2>1. call'.pc = "idle" => ~call.late /\ client = Unseen
    BY <1>1, <1>2, <1>3, <1>8 DEF Placed, Early
  <2> QED
    BY <1>2, <1>6, <1>8, <2>1 DEF Placed, Early, At
<1>11. Answering' /\ Overflowing(call, up)'
  BY <1>6, <1>8 DEF Answering, Overflowing, At
<1> QED
  BY <1>2, <1>8, <1>9, <1>10, <1>11 DEF IInv

(* The upstream's stream ends.                                             *)
LEMMA ClosedUpstream ==
    ASSUME up \in Upstreams, up' = Stage("over")
    PROVE  /\ up' \in Upstreams /\ up'.stage = "over" /\ up'.blocks = up.blocks /\ up'.item = up.item
           /\ (up'.said <=> up.said) /\ (up'.acted <=> up.acted) /\ (up'.overflow <=> up.overflow)
<1>1. up' = [up EXCEPT !.stage = "over"]
  BY DEF Stage
<1>2. up' \in Upstreams
  BY <1>1 DEF Upstreams
<1>3. /\ up'.stage = "over" /\ up'.blocks = up.blocks /\ up'.item = up.item
      /\ up'.said = up.said /\ up'.acted = up.acted /\ up'.overflow = up.overflow
  BY <1>1 DEF Upstreams
<1> QED
  BY <1>2, <1>3

LEMMA ClosedAbreast ==
    ASSUME NEW a, NEW t, NEW u, Abreast(a, t, u), NEW v \in Upstreams, v.stage = "over",
           v.blocks = u.blocks, v.item = u.item, v.said <=> u.said
    PROVE  Abreast(a, t, v)
<1>1. /\ a \in Clients /\ t \in Translators /\ u \in Upstreams /\ TranslatorOK(t, u) /\ Sees(a, t)
      /\ Tells(a.deltas, t, u)
  BY DEF Abreast
<1>2. TranslatorOK(t, v)
  BY <1>1 DEF TranslatorOK
<1>3. Translating(t, v)
  BY DEF Translating, Speaking
<1>4. Tells(a.deltas, t, v)
  BY <1>1 DEF Tells
<1> QED
  BY <1>1, <1>2, <1>3, <1>4 DEF Abreast

LEMMA ClassifyEndsHolds ==
    ASSUME IInv, NEW broken \in BOOLEAN, ClassifyEnds(broken)
    PROVE  IInv' /\ client' = client /\ (call'.gone <=> call.gone)
<1>1. Typed /\ Shows(client, tr) /\ Placed /\ Answering /\ Overflowing(call, up)
  BY DEF IInv
<1>2. /\ call.pc = "classify" /\ tr' = tr /\ client' = client
      /\ provider' = provider /\ ctx' = ctx /\ turns' = turns /\ others' = others /\ token' = token
      /\ up' = Stage("over")
  BY DEF ClassifyEnds, At, session
<1>3. /\ call \in Calls /\ ~call.gone /\ ~call.late /\ Awaits(client, out, tr, up) /\ client = Unseen
      /\ up \in Upstreams
  BY <1>1, <1>2 DEF Typed, Placed, Answering
<1>4. ~up.overflow
  BY <1>1, <1>2 DEF Overflowing
<1>5. /\ up' \in Upstreams /\ up'.stage = "over" /\ up'.blocks = up.blocks /\ up'.item = up.item
      /\ (up'.said <=> up.said) /\ ~up'.overflow
  BY <1>2, <1>3, <1>4, ClosedUpstream
<1>6. TranslatorOK(tr', up')
  BY <1>1, <1>2, <1>5 DEF Typed, TranslatorOK
<1>7. Shows(client, tr)'
  BY <1>1, <1>2
<1>8. CASE broken
  <2>1. Answer("bad_gateway") /\ out' = <<>>
    BY <1>8 DEF ClassifyEnds
  <2>2. Moves(call, call') /\ call'.pc = "idle"
    <3>1. "bad_gateway" \in Answers
      BY DEF Answers
    <3>2. Moves(call, call')
      BY <1>3, <2>1, <3>1, AnswerMoves
    <3>3. call'.pc = "idle"
      BY <1>3, <2>1 DEF Answer, Calls
    <3> QED
      BY <3>2, <3>3
  <2>3. call' \in Calls /\ ~call'.gone /\ ~call'.late
    BY <1>3, <2>2 DEF Moves
  <2>4. Typed'
    BY <1>1, <1>2, <1>5, <1>6, <2>3 DEF Typed
  <2>5. Placed'
    BY <1>2, <1>3, <2>1, <2>2, <2>3 DEF Placed, Early, At
  <2>6. Answering' /\ Overflowing(call, up)'
    BY <2>2 DEF Answering, Overflowing, At
  <2> QED
    BY <1>2, <1>3, <1>7, <2>3, <2>4, <2>5, <2>6 DEF IInv
<1>9. CASE ~broken
  <2>1. call' = [call EXCEPT !.pc = "pipe"] /\ out' = out
    BY <1>9 DEF ClassifyEnds, Goto
  <2>2. call' \in Calls
    BY <1>3, <2>1 DEF Calls
  <2>3. call'.pc = "pipe" /\ call'.gone = call.gone
    BY <1>3, <2>1 DEF Calls
  <2>4. ~call'.gone
    BY <1>3, <2>3
  <2>5. Typed'
    BY <1>1, <1>2, <1>5, <1>6, <2>2 DEF Typed
  <2>6. Placed'
    BY <2>3, <2>4 DEF Placed, Early, At
  <2>7. Awaits(client', out', tr', up')
    <3>1. PICK a \in Clients : out \in Seq(Emissions) /\ Leads(client, out, a) /\ Abreast(a, tr, up)
      BY <1>3 DEF Awaits
    <3>2. Abreast(a, tr, up')
      BY <1>5, <3>1, ClosedAbreast
    <3> QED
      BY <1>2, <2>1, <3>1, <3>2 DEF Awaits
  <2>8. Answering'
    BY <2>3, <2>7 DEF Answering, At
  <2>9. Overflowing(call, up)'
    BY <1>5, <2>3 DEF Overflowing
  <2> QED
    BY <1>2, <1>3, <1>7, <2>4, <2>5, <2>6, <2>8, <2>9 DEF IInv
<1> QED
  BY <1>8, <1>9

LEMMA PipeEndsHolds ==
    ASSUME IInv, NEW broken \in BOOLEAN, PipeEnds(broken)
    PROVE  IInv' /\ client' = client /\ (call'.gone <=> call.gone)
<1>1. Typed /\ Shows(client, tr) /\ Placed /\ Answering /\ Overflowing(call, up)
  BY DEF IInv
<1>2. /\ call.pc = "pipe" /\ client' = client /\ out = <<>>
      /\ provider' = provider /\ ctx' = ctx /\ turns' = turns /\ others' = others /\ token' = token
      /\ up' = Stage("over") /\ call' = [call EXCEPT !.pc = "drain", !.answer = "stream"]
  BY DEF PipeEnds, At, session
<1>3. PICK x : x = IF broken THEN <<ErrorEvent>> ELSE <<>>
  OBVIOUS
<1>4. tr' = SafetyNet(tr).t /\ out' = SafetyNet(tr).out \o x
  BY <1>3 DEF PipeEnds
<1>5. /\ call \in Calls /\ ~call.gone /\ Awaits(client, out, tr, up) /\ client \in Clients
      /\ up \in Upstreams
  BY <1>1, <1>2 DEF Typed, Placed, Answering
<1>6. /\ up' \in Upstreams /\ up'.stage = "over" /\ up'.blocks = up.blocks
      /\ (up'.acted <=> up.acted) /\ (up'.overflow <=> up.overflow)
  BY <1>2, <1>5, ClosedUpstream
<1>7. Abreast(client, tr, up)
  BY <1>2, <1>5, AwaitsBound
<1>8. tr' \in Translators /\ TranslatorOK(tr', up')
  <2>1. Brings(client, SafetyNet(tr), client.deltas) /\ TranslatorOK(SafetyNet(tr).t, up)
    BY <1>5, <1>7, NetEnds DEF Abreast
  <2>2. TranslatorOK(tr', up)
    BY <1>4, <2>1
  <2> QED
    BY <1>4, <1>6, <2>1, <2>2 DEF Brings, TranslatorOK
<1>9. Concluded(client', out', tr'.next)
  <2>1. Concluded(client, SafetyNet(tr).out \o x, SafetyNet(tr).t.next)
    BY <1>3, <1>5, <1>7, NetConcludes DEF Abreast
  <2> QED
    BY <1>2, <1>4, <2>1
<1>10. call' \in Calls
  <2>1. "stream" \in Answers
    BY DEF Answers
  <2> QED
    BY <1>2, <1>5, <2>1 DEF Calls
<1>11. call'.pc = "drain" /\ call'.gone = call.gone /\ call'.late = call.late
  BY <1>2, <1>5 DEF Calls
<1>12. ~call'.gone
  BY <1>5, <1>11
<1>13. Typed'
  BY <1>1, <1>2, <1>6, <1>8, <1>10 DEF Typed
<1>14. Shows(client, tr)'
  <2>1. client'.next <= tr'.next
    BY <1>2, <1>5, <1>9, ConcludedBound
  <2> QED
    BY <1>1, <1>2, <2>1 DEF Shows
<1>15. Placed'
  BY <1>11, <1>12 DEF Placed, Early, At
<1>16. Answering'
  BY <1>9, <1>11 DEF Answering, At
<1>17. Overflowing(call, up)'
  <2>1. call.late \/ up.acted \/ (up.stage = "over" /\ ~up.overflow)
    BY <1>1, <1>2 DEF Overflowing
  <2>2. call'.late \/ up'.acted \/ (up'.stage = "over" /\ ~up'.overflow)
    BY <1>6, <1>11, <2>1
  <2> QED
    BY <1>11, <2>2 DEF Overflowing
<1> QED
  BY <1>2, <1>5, <1>12, <1>13, <1>14, <1>15, <1>16, <1>17 DEF IInv

LEMMA CollectEndsHolds ==
    ASSUME IInv, NEW broken \in BOOLEAN, CollectEnds(broken)
    PROVE  IInv' /\ client' = client /\ (call'.gone <=> call.gone)
<1>1. Typed /\ Shows(client, tr) /\ Placed /\ Answering
  BY DEF IInv
<1>2. /\ call.pc = "collect" /\ client' = client /\ out' = <<>> /\ tr' = SafetyNet(tr).t
      /\ provider' = provider /\ ctx' = ctx /\ turns' = turns /\ others' = others /\ token' = token
      /\ up' = Stage("over")
  BY DEF CollectEnds, At, session
<1>3. PICK names : names = [i \in DOMAIN out |-> out[i].name]
  OBVIOUS
<1>4. PICK answer : answer = IF broken THEN "json_error"
                             ELSE IF Grok THEN Assemble(names) ELSE "json_events"
  OBVIOUS
<1>5. answer \in {"json_error", "json_message", "json_events"}
  BY <1>4 DEF Assemble
<1>6. call' = [call EXCEPT !.pc = "record", !.answer = answer]
  BY <1>3, <1>4, Zenon DEF CollectEnds
<1>7. /\ call \in Calls /\ ~call.gone /\ ~call.late /\ client = Unseen /\ Gathers(tr, up)
      /\ up \in Upstreams
  BY <1>1, <1>2 DEF Typed, Placed, Answering, At
<1>8. up' \in Upstreams /\ up'.blocks = up.blocks
  BY <1>2, <1>7, ClosedUpstream
<1>9. PICK a \in Clients : Abreast(a, tr, up)
  BY <1>7 DEF Gathers
<1>10. tr' \in Translators /\ TranslatorOK(tr', up')
  <2>1. Brings(a, SafetyNet(tr), a.deltas) /\ TranslatorOK(SafetyNet(tr).t, up)
    BY <1>9, NetEnds DEF Abreast
  <2>2. TranslatorOK(tr', up)
    BY <1>2, <2>1
  <2> QED
    BY <1>2, <1>8, <2>1, <2>2 DEF Brings, TranslatorOK
<1>11. call' \in Calls
  <2>1. answer \in Answers
    BY <1>5 DEF Answers
  <2> QED
    BY <1>6, <1>7, <2>1 DEF Calls
<1>12. /\ call'.pc = "record" /\ call'.answer = answer
       /\ call'.gone = call.gone /\ call'.late = call.late
  BY <1>6, <1>7 DEF Calls
<1>13. ~call'.gone /\ ~call'.late
  BY <1>7, <1>12
<1>14. Typed'
  BY <1>1, <1>2, <1>8, <1>10, <1>11 DEF Typed
<1>15. Shows(client, tr)'
  BY <1>2, <1>7, <1>10, UnseenShows
<1>16. Placed'
  <2>1. client'.phase = "none"
    BY <1>2, <1>7, UnseenFields
  <2> QED
    BY <1>2, <1>12, <1>13, <2>1 DEF Placed, Early, At
<1>17. Answering' /\ Overflowing(call, up)'
  BY <1>5, <1>12 DEF Answering, Overflowing, At
<1> QED
  BY <1>2, <1>7, <1>13, <1>14, <1>15, <1>16, <1>17 DEF IInv

(* What the next event of the upstream does to what the classifier knows.  *)
Goes(u, ev, v) ==
    /\ v.blocks = u.blocks \/ v.blocks = u.blocks + 1
    /\ u.stage # "over"
    /\ u.acted => v.acted
    /\ ~Decisive(ev) /\ ~u.acted => ~v.acted
    /\ ~Overflow(ev) /\ ~u.overflow => ~v.overflow
    /\ Decisive(ev) /\ ~Overflow(ev) => v.acted \/ (v.stage = "over" /\ ~v.overflow)

LEMMA SpeaksGoes ==
    ASSUME up \in Upstreams, NEW ev, Speaks(ev)
    PROVE  Goes(up, ev, up')
<1>1. CASE /\ up.item \in {"message", "function_call", "Read"}
           /\ up.stage = "open" /\ ev = Event(Content(up.item), "", "absent")
           /\ up' = [up EXCEPT !.stage = "said", !.said = TRUE, !.acted = TRUE]
  <2>1. ev.type \in {"text", "args"} /\ up.stage = "open"
    BY <1>1 DEF Event, Content
  <2>2. Decisive(ev) /\ ~Overflow(ev)
    BY <2>1 DEF Decisive, Overflow
  <2>3. up'.blocks = up.blocks /\ up'.overflow = up.overflow /\ up'.acted
    BY <1>1 DEF Upstreams
  <2> QED
    BY <2>1, <2>2, <2>3 DEF Goes
<1>2. ASSUME ev.type \in {"created", "item", "text_done", "args_done", "part", "summary",
                          "reasoning", "summary_done", "item_done"}
      PROVE  ~Decisive(ev) /\ ~Overflow(ev)
  BY <1>2 DEF Decisive, Overflow
<1>3. ASSUME ~Decisive(ev), ~Overflow(ev), up.stage # "over",
             up'.blocks = up.blocks \/ up'.blocks = up.blocks + 1,
             up'.acted = up.acted, up'.overflow = up.overflow
      PROVE  Goes(up, ev, up')
  BY <1>3 DEF Goes
<1>4. CASE up.stage = "new" /\ ev = Event("created", "", "absent") /\ up' = Stage("between")
  <2>1. ev.type = "created" /\ up.stage # "over"
    BY <1>4 DEF Event
  <2>2. up'.blocks = up.blocks /\ up'.acted = up.acted /\ up'.overflow = up.overflow
    BY <1>4 DEF Stage, Upstreams
  <2> QED
    BY <1>2, <1>3, <2>1, <2>2
<1>5. ASSUME NEW k \in Kinds \cup {"other"},
             up.stage = "between" /\ up.blocks < MaxBlocks /\ ev = Event("item", k, "absent"),
             up' = [up EXCEPT !.stage = "open", !.item = k, !.blocks = @ + 1, !.said = FALSE,
                               !.seal = ""]
      PROVE  Goes(up, ev, up')
  <2>1. ev.type = "item" /\ up.stage # "over"
    BY <1>5 DEF Event
  <2>2. up'.blocks = up.blocks + 1 /\ up'.acted = up.acted /\ up'.overflow = up.overflow
    BY <1>5 DEF Upstreams
  <2> QED
    BY <1>2, <1>3, <2>1, <2>2
<1>6. CASE /\ up.stage \in {"open", "said"}
           /\ ev = Event(IF up.item = "message" THEN "text_done" ELSE "args_done", "", "absent")
           /\ up' = Stage("whole")
  <2>1. ev.type \in {"text_done", "args_done"} /\ up.stage # "over"
    BY <1>6 DEF Event
  <2>2. up'.blocks = up.blocks /\ up'.acted = up.acted /\ up'.overflow = up.overflow
    BY <1>6 DEF Stage, Upstreams
  <2> QED
    BY <1>2, <1>3, <2>1, <2>2
<1>7. CASE /\ up.stage \in {"open", "whole"} /\ up.blocks < MaxBlocks
           /\ ev = Event("part", "", "absent")
           /\ up' = [up EXCEPT !.stage = "part", !.blocks = @ + 1, !.said = FALSE]
  <2>1. ev.type = "part" /\ up.stage # "over"
    BY <1>7 DEF Event
  <2>2. up'.blocks = up.blocks + 1 /\ up'.acted = up.acted /\ up'.overflow = up.overflow
    BY <1>7 DEF Upstreams
  <2> QED
    BY <1>2, <1>3, <2>1, <2>2
<1>8. CASE /\ up.stage = "part" /\ ev.type \in {"summary", "reasoning"}
           /\ up' = [up EXCEPT !.stage = IF ev.type = "summary" THEN "said" ELSE "whole", !.said = TRUE]
  <2>1. ev.type \in {"summary", "reasoning"} /\ up.stage # "over"
    BY <1>8
  <2>2. up'.blocks = up.blocks /\ up'.acted = up.acted /\ up'.overflow = up.overflow
    BY <1>8 DEF Upstreams
  <2> QED
    BY <1>2, <1>3, <2>1, <2>2
<1>9. CASE up.stage = "said" /\ ev = Event("summary_done", "", "absent") /\ up' = Stage("whole")
  <2>1. ev.type = "summary_done" /\ up.stage # "over"
    BY <1>9 DEF Event
  <2>2. up'.blocks = up.blocks /\ up'.acted = up.acted /\ up'.overflow = up.overflow
    BY <1>9 DEF Stage, Upstreams
  <2> QED
    BY <1>2, <1>3, <2>1, <2>2
<1>10. CASE /\ up.stage = "whole" \/ up.stage = "open"
            /\ ev.type = "item_done" /\ up' = [up EXCEPT !.stage = "between", !.seal = ev.of]
  <2>1. ev.type = "item_done" /\ up.stage # "over"
    BY <1>10
  <2>2. up'.blocks = up.blocks /\ up'.acted = up.acted /\ up'.overflow = up.overflow
    BY <1>10 DEF Upstreams
  <2> QED
    BY <1>2, <1>3, <2>1, <2>2
<1> QED
  BY <1>1, <1>4, <1>5, <1>6, <1>7, <1>8, <1>9, <1>10 DEF Speaks

LEMMA ConcludesGoes ==
    ASSUME up \in Upstreams, NEW ev, Concludes(ev)
    PROVE  Goes(up, ev, up')
<1>1. PICK F, s : F = Overflow(ev) /\ s = IF ev.type = "error" THEN "erred" ELSE "over"
  OBVIOUS
<1>2. up' = [up EXCEPT !.stage = s, !.overflow = F]
  BY <1>1, Zenon DEF Concludes
<1>3. up'.blocks = up.blocks /\ up'.acted = up.acted /\ up'.stage = s /\ up'.overflow = F
  BY <1>2 DEF Upstreams
<1>4. up.stage # "over" /\ ev.type \in {"completed", "incomplete", "failed", "error"}
  BY DEF Concludes
<1>5. up'.overflow <=> Overflow(ev)
  BY <1>1, <1>3, Zenon
<1>6. Decisive(ev) /\ ~Overflow(ev) => up'.stage = "over"
  BY <1>1, <1>3, <1>4 DEF Decisive
<1>7. up.acted <=> up'.acted
  BY <1>3
<1>8. up'.blocks = up.blocks
  BY <1>3
<1> QED
  BY <1>4, <1>5, <1>6, <1>7, <1>8 DEF Goes

LEMMA UpstreamGoes ==
    ASSUME NEW a, Abreast(a, tr, up), NEW ev \in Events, Speaks(ev) \/ Concludes(ev)
    PROVE  /\ up' \in Upstreams /\ Goes(up, ev, up') /\ TranslatorOK(tr, up')
           /\ \A c : Abreast(c, tr, up) => Progress(c, Apply(tr, ev), up')
<1>1. up \in Upstreams /\ TranslatorOK(tr, up)
  BY DEF Abreast
<1>2. up' \in Upstreams /\ Goes(up, ev, up')
  BY <1>1, SpeaksProgress, ConcludesProgress, SpeaksGoes, ConcludesGoes
<1>3. TranslatorOK(tr, up')
  <2>1. up'.blocks = up.blocks \/ up'.blocks = up.blocks + 1
    BY <1>2 DEF Goes
  <2>2. up.blocks <= up'.blocks
    BY <1>1, <2>1, BlocksStay
  <2> QED
    BY <1>1, <1>2, <2>2, SameBlocks
<1>4. \A c : Abreast(c, tr, up) => Progress(c, Apply(tr, ev), up')
  BY SpeaksProgress, ConcludesProgress
<1> QED
  BY <1>2, <1>3, <1>4

(* What a translated event leaves: types that hold, and more to write.     *)
LEMMA Translated ==
    ASSUME NEW a, Abreast(a, tr, up), NEW ev \in Events, Speaks(ev) \/ Concludes(ev),
           client \in Clients, Awaits(client, out, tr, up), client' = client, Advance(ev, All)
    PROVE  /\ up' \in Upstreams /\ Goes(up, ev, up') /\ tr' \in Translators /\ TranslatorOK(tr', up')
           /\ Awaits(client', out', tr', up') /\ client'.next <= tr'.next
<1>1. PICK r, v : r = Apply(tr, ev) /\ v = up'
  OBVIOUS
<1>2. tr' = r.t /\ out' = out \o r.out
  BY <1>1 DEF Advance, All
<1>3. /\ up' \in Upstreams /\ Goes(up, ev, up')
      /\ \A c : Abreast(c, tr, up) => Progress(c, r, v)
  BY <1>1, UpstreamGoes
<1>4. Awaits(client, out \o r.out, r.t, v)
  BY <1>3, AwaitsMore
<1>5. Awaits(client', out', tr', up')
  BY <1>1, <1>2, <1>4
<1>6. PICK d : Abreast(d, r.t, v)
  BY <1>4 DEF Awaits
<1>7. tr' \in Translators /\ TranslatorOK(tr', up')
  BY <1>1, <1>2, <1>6 DEF Abreast
<1>8. client'.next <= tr'.next
  BY <1>5, AwaitsBound
<1> QED
  BY <1>3, <1>5, <1>7, <1>8

LEMMA ClassifyHolds ==
    ASSUME IInv, NEW ev \in Events, Classify(ev)
    PROVE  IInv' /\ client' = client /\ (call'.gone <=> call.gone)
<1>1. Typed /\ Shows(client, tr) /\ Placed /\ Answering /\ Overflowing(call, up)
  BY DEF IInv
<1>2. /\ call.pc = "classify" /\ client' = client /\ (Speaks(ev) \/ Concludes(ev))
      /\ provider' = provider /\ ctx' = ctx /\ turns' = turns /\ others' = others /\ token' = token
  BY DEF Classify, At, session
<1>3. /\ call \in Calls /\ ~call.gone /\ ~call.late /\ Awaits(client, out, tr, up)
      /\ client = Unseen /\ client \in Clients /\ tr \in Translators
  BY <1>1, <1>2 DEF Typed, Placed, Answering
<1>4. ~up.overflow /\ ~up.acted
  BY <1>1, <1>2 DEF Overflowing
<1>5. PICK a : Abreast(a, tr, up)
  BY <1>3 DEF Awaits
<1>6. CASE Overflow(ev)
  <2>1. Answer("too_long") /\ out' = <<>> /\ tr' = tr
    BY <1>6 DEF Classify
  <2>2. Moves(call, call') /\ call'.pc = "idle"
    <3>1. "too_long" \in Answers
      BY DEF Answers
    <3>2. Moves(call, call')
      BY <1>3, <2>1, <3>1, AnswerMoves
    <3>3. call'.pc = "idle"
      BY <1>3, <2>1 DEF Answer, Calls
    <3> QED
      BY <3>2, <3>3
  <2>3. call' \in Calls /\ ~call'.gone /\ ~call'.late
    BY <1>3, <2>2 DEF Moves
  <2>4. up' \in Upstreams /\ TranslatorOK(tr', up')
    BY <1>2, <1>5, <2>1, UpstreamGoes
  <2>5. Typed'
    BY <1>1, <1>2, <2>1, <2>3, <2>4 DEF Typed
  <2>6. Shows(client, tr)'
    BY <1>1, <1>2, <2>1
  <2>7. Placed'
    BY <1>2, <1>3, <2>1, <2>2, <2>3 DEF Placed, Early, At
  <2>8. Answering' /\ Overflowing(call, up)'
    BY <2>2 DEF Answering, Overflowing, At
  <2> QED
    BY <1>2, <1>3, <2>3, <2>5, <2>6, <2>7, <2>8 DEF IInv
<1>7. CASE ~Overflow(ev)
  <2>1. PICK pc : pc = IF Decisive(ev) THEN "pipe" ELSE "classify"
    OBVIOUS
  <2>2. Advance(ev, All) /\ call' = [call EXCEPT !.pc = pc]
    BY <1>7, <2>1 DEF Classify, Goto
  <2>3. pc \in {"classify", "pipe"}
    BY <2>1
  <2>4. call' \in Calls
    BY <1>3, <2>2, <2>3 DEF Calls
  <2>5. call'.pc = pc /\ call'.gone = call.gone /\ call'.late = call.late
    BY <1>3, <2>2 DEF Calls
  <2>6. ~call'.gone /\ ~call'.late
    BY <1>3, <2>5
  <2>7. /\ up' \in Upstreams /\ Goes(up, ev, up') /\ tr' \in Translators /\ TranslatorOK(tr', up')
        /\ Awaits(client', out', tr', up') /\ client'.next <= tr'.next
    BY <1>2, <1>3, <1>5, <2>2, Translated
  <2>8. Typed'
    BY <1>1, <1>2, <2>4, <2>7 DEF Typed
  <2>9. Shows(client, tr)'
    BY <1>1, <1>2, <2>7 DEF Shows
  <2>10. Placed'
    BY <1>2, <1>3, <2>3, <2>5, <2>6 DEF Placed, Early, At
  <2>11. Answering'
    BY <2>3, <2>5, <2>7 DEF Answering, At
  <2>12. Overflowing(call, up)'
    <3>1. CASE Decisive(ev)
      <4>1. call'.pc = "pipe"
        BY <2>1, <2>5, <3>1
      <4>2. up'.acted \/ (up'.stage = "over" /\ ~up'.overflow)
        BY <1>7, <2>7, <3>1 DEF Goes
      <4> QED
        BY <4>1, <4>2 DEF Overflowing
    <3>2. CASE ~Decisive(ev)
      <4>1. call'.pc = "classify"
        BY <2>1, <2>5, <3>2
      <4>2. ~up'.overflow /\ ~up'.acted
        BY <1>4, <1>7, <2>7, <3>2 DEF Goes
      <4> QED
        BY <4>1, <4>2 DEF Overflowing
    <3> QED
      BY <3>1, <3>2
  <2> QED
    BY <1>2, <1>3, <2>6, <2>8, <2>9, <2>10, <2>11, <2>12 DEF IInv
<1> QED
  BY <1>6, <1>7

LEMMA PipeHolds ==
    ASSUME IInv, NEW ev \in Events, Pipe(ev)
    PROVE  IInv' /\ client' = client /\ (call'.gone <=> call.gone)
<1>1. Typed /\ Shows(client, tr) /\ Placed /\ Answering /\ Overflowing(call, up)
  BY DEF IInv
<1>2. /\ call.pc = "pipe" /\ client' = client /\ (Speaks(ev) \/ Concludes(ev)) /\ Advance(ev, All)
      /\ provider' = provider /\ ctx' = ctx /\ turns' = turns /\ others' = others /\ token' = token
  BY DEF Pipe, At, session
<1>3. /\ call \in Calls /\ ~call.gone /\ Awaits(client, out, tr, up) /\ client \in Clients
  BY <1>1, <1>2 DEF Typed, Placed, Answering
<1>4. PICK a : Abreast(a, tr, up)
  BY <1>3 DEF Awaits
<1>5. PICK L \in BOOLEAN : L <=> (call.late /\ ~up'.acted)
  <2>1. PICK L : L = (call.late /\ ~up'.acted)
    OBVIOUS
  <2> QED
    BY <2>1
<1>6. call' = [call EXCEPT !.late = L]
  <2>1. L = (call.late /\ ~up'.acted)
    BY <1>5
  <2> QED
    BY <2>1, Zenon DEF Pipe
<1>7. call' \in Calls
  BY <1>3, <1>5, <1>6 DEF Calls
<1>8. call'.pc = "pipe" /\ call'.gone = call.gone /\ call'.late = L
  BY <1>2, <1>3, <1>6 DEF Calls
<1>9. ~call'.gone
  BY <1>3, <1>8
<1>10. /\ up' \in Upstreams /\ Goes(up, ev, up') /\ tr' \in Translators /\ TranslatorOK(tr', up')
       /\ Awaits(client', out', tr', up') /\ client'.next <= tr'.next
  BY <1>2, <1>3, <1>4, Translated
<1>11. Typed'
  BY <1>1, <1>2, <1>7, <1>10 DEF Typed
<1>12. Shows(client, tr)'
  BY <1>1, <1>2, <1>10 DEF Shows
<1>13. Placed'
  BY <1>8, <1>9 DEF Placed, Early, At
<1>14. Answering'
  BY <1>8, <1>10 DEF Answering, At
<1>15. Overflowing(call, up)'
  <2>1. call.late \/ up.acted
    BY <1>1, <1>2, <1>10 DEF Overflowing, Goes
  <2>2. up.acted => up'.acted
    BY <1>10 DEF Goes
  <2>3. call'.late <=> call.late /\ ~up'.acted
    BY <1>5, <1>8
  <2> QED
    BY <1>8, <2>1, <2>2, <2>3 DEF Overflowing
<1> QED
  BY <1>2, <1>3, <1>9, <1>11, <1>12, <1>13, <1>14, <1>15 DEF IInv

LEMMA CollectHolds ==
    ASSUME IInv, NEW ev \in Events, Collect(ev)
    PROVE  IInv' /\ client' = client /\ (call'.gone <=> call.gone)
<1>1. Typed /\ Shows(client, tr) /\ Placed /\ Answering
  BY DEF IInv
<1>2. /\ call.pc = "collect" /\ client' = client /\ call' = call /\ (Speaks(ev) \/ Concludes(ev))
      /\ provider' = provider /\ ctx' = ctx /\ turns' = turns /\ others' = others /\ token' = token
      /\ tr' = Apply(tr, ev).t
  BY DEF Collect, At, session, Advance
<1>3. ~call.gone /\ ~call.late /\ client = Unseen /\ Gathers(tr, up)
  BY <1>1, <1>2 DEF Placed, Answering, At
<1>4. PICK a : Abreast(a, tr, up)
  BY <1>3 DEF Gathers
<1>5. up' \in Upstreams /\ Progress(a, Apply(tr, ev), up')
  BY <1>2, <1>4, UpstreamGoes
<1>6. PICK d \in Clients : Abreast(d, tr', up')
  BY <1>2, <1>5 DEF Progress
<1>7. tr' \in Translators /\ TranslatorOK(tr', up') /\ Gathers(tr', up')
  BY <1>6 DEF Abreast, Gathers
<1>8. Typed'
  BY <1>1, <1>2, <1>5, <1>7 DEF Typed
<1>9. Shows(client, tr)'
  BY <1>2, <1>3, <1>7, UnseenShows
<1>10. Placed'
  BY <1>2, <1>3 DEF Placed, Early, At
<1>11. Answering' /\ Overflowing(call, up)'
  BY <1>2, <1>7 DEF Answering, Overflowing, At
<1> QED
  BY <1>2, <1>3, <1>8, <1>9, <1>10, <1>11 DEF IInv

(* An event is written.                                                    *)
LEMMA ReceivedShows ==
    ASSUME NEW c \in Clients, NEW e \in Emissions, Expects(c, e), c.block \in {NoBlock, c.next - 1}
    PROVE  Received(c, e).block \in {NoBlock, Received(c, e).next - 1}
<1>1. PICK d : d = Received(c, e)
  OBVIOUS
<1>2. CASE e.name = "content_block_start"
  <2>1. d.block = e.idx /\ d.next = e.idx + 1
    BY <1>1, <1>2, ReceivedOpening
  <2>2. e.idx \in Int
    BY DEF Emissions
  <2> QED
    BY <1>1, <2>1, <2>2
<1>3. CASE e.name = "content_block_stop"
  <2>1. d.block = NoBlock
    BY <1>1, <1>3, ReceivedClosing
  <2> QED
    BY <1>1, <2>1
<1>4. CASE e.name \notin {"content_block_start", "content_block_stop"}
  <2>1. d.block = c.block /\ d.next = c.next
    BY <1>1, <1>4, ReceivedDelta, ReceivedOther
  <2> QED
    BY <1>1, <2>1
<1> QED
  BY <1>2, <1>3, <1>4

LEMMA DeliverHolds ==
    ASSUME IInv, Deliver
    PROVE  /\ IInv' /\ (call'.gone <=> call.gone)
           /\ Expects(client, Head(out)) /\ Head(out) \in Emissions /\ client \in Clients
<1>1. Typed /\ Shows(client, tr) /\ Placed /\ Answering /\ Overflowing(call, up)
  BY DEF IInv
<1>2. /\ call.pc \in {"pipe", "drain"} /\ out # <<>> /\ up' = up /\ tr' = tr /\ call' = call
      /\ client' = Received(client, Head(out)) /\ out' = Tail(out)
      /\ provider' = provider /\ ctx' = ctx /\ turns' = turns /\ others' = others /\ token' = token
  BY DEF Deliver, session
<1>3. client \in Clients /\ ~call.gone
  BY <1>1, <1>2 DEF Typed, Placed
<1>4. Expects(client, Head(out)) /\ Head(out) \in Emissions /\ Answering' /\ client'.next <= tr'.next
  <2>1. CASE call.pc = "pipe"
    <3>1. Awaits(client, out, tr, up)
      BY <1>1, <2>1 DEF Answering
    <3>2. /\ Expects(client, Head(out)) /\ Head(out) \in Emissions
          /\ Awaits(Received(client, Head(out)), Tail(out), tr, up)
      BY <1>2, <1>3, <3>1, AwaitsLess
    <3>3. Received(client, Head(out)) \in Clients
      BY <1>3, <3>2, ReceivedFacts
    <3>4. Awaits(client', out', tr', up') /\ client' \in Clients
      BY <1>2, <3>2, <3>3
    <3>5. client'.next <= tr'.next
      BY <3>4, AwaitsBound
    <3> QED
      BY <1>2, <2>1, <3>2, <3>4, <3>5 DEF Answering, At
  <2>2. CASE call.pc = "drain"
    <3>1. Concluded(client, out, tr.next)
      BY <1>1, <2>2 DEF Answering, At
    <3>2. /\ Expects(client, Head(out)) /\ Head(out) \in Emissions
          /\ Concluded(Received(client, Head(out)), Tail(out), tr.next)
      BY <1>2, <1>3, <3>1, ConcludedLess
    <3>3. Received(client, Head(out)) \in Clients
      BY <1>3, <3>2, ReceivedFacts
    <3>4. Concluded(client', out', tr'.next) /\ client' \in Clients
      BY <1>2, <3>2, <3>3
    <3>5. client'.next <= tr'.next
      BY <3>4, ConcludedBound
    <3> QED
      BY <1>2, <2>2, <3>2, <3>4, <3>5 DEF Answering, At
  <2> QED
    BY <1>2, <2>1, <2>2
<1>5. client' \in Clients
  BY <1>2, <1>3, <1>4, ReceivedFacts
<1>6. Typed'
  BY <1>1, <1>2, <1>5 DEF Typed
<1>7. Shows(client, tr)'
  <2>1. Received(client, Head(out)).block \in {NoBlock, Received(client, Head(out)).next - 1}
    BY <1>1, <1>3, <1>4, ReceivedShows DEF Shows
  <2> QED
    BY <1>2, <1>4, <2>1 DEF Shows
<1>8. Placed'
  BY <1>2, <1>3 DEF Placed, Early, At
<1>9. Overflowing(call, up)'
  BY <1>1, <1>2
<1> QED
  BY <1>2, <1>3, <1>4, <1>6, <1>7, <1>8, <1>9 DEF IInv

-------------------------------------------------------------------------------
(* The invariant holds, and no event reaches the client but one that it    *)
(* expects: each step is one of MessageStream or leaves the answer alone.  *)
LEMMA StutterHolds ==
    ASSUME IInv, UNCHANGED vars
    PROVE  IInv' /\ client' = client /\ (call'.gone <=> call.gone)
<1>1. /\ provider' = provider /\ call' = call /\ up' = up /\ tr' = tr /\ out' = out
      /\ client' = client /\ ctx' = ctx /\ turns' = turns /\ token' = token /\ others' = others
  BY DEF vars
<1>2. Typed /\ Shows(client, tr) /\ Placed /\ Answering /\ Overflowing(call, up)
  BY DEF IInv
<1>3. Typed' /\ Shows(client, tr)' /\ Overflowing(call, up)'
  BY <1>1, <1>2 DEF Typed
<1>4. Placed'
  BY <1>1, <1>2 DEF Placed, At
<1>5. Answering'
  BY <1>1, <1>2 DEF Answering, At
<1> QED
  BY <1>1, <1>3, <1>4, <1>5 DEF IInv

(* The steps that leave the answer as the client has it.                   *)
Behind ==
    \/ Gate \/ Clear \/ Translate \/ TurnFor \/ Build \/ Refresh
    \/ Unauthorized \/ Unreachable \/ Refused
    \/ \E modelUnknown, tooLong \in BOOLEAN : Report(modelUnknown, tooLong)
    \/ Accepted \/ Deadline \/ Drained
    \/ \E ev \in Events : Classify(ev) \/ Pipe(ev) \/ Collect(ev)
    \/ \E broken \in BOOLEAN : ClassifyEnds(broken) \/ PipeEnds(broken) \/ CollectEnds(broken)
    \/ \E size : OtherRecords(size)
    \/ UNCHANGED vars
Arrives ==
    \E stream, matched, omit, newTurn \in BOOLEAN : Arrive(stream, matched, omit, newTurn)

LEMMA BehindHolds ==
    ASSUME IInv, Behind
    PROVE  IInv' /\ client' = client /\ (call'.gone <=> call.gone)
<1>1. CASE \/ Gate \/ Clear \/ Translate \/ TurnFor \/ Build \/ Refresh
           \/ Unauthorized \/ Unreachable \/ Refused
           \/ \E modelUnknown, tooLong \in BOOLEAN : Report(modelUnknown, tooLong)
  BY <1>1, EarlyActions
<1>2. CASE Accepted \/ Deadline \/ Drained
  BY <1>2, AcceptedHolds, DeadlineHolds, DrainedHolds
<1>3. CASE \E ev \in Events : Classify(ev) \/ Pipe(ev) \/ Collect(ev)
  BY <1>3, ClassifyHolds, PipeHolds, CollectHolds
<1>4. CASE \E broken \in BOOLEAN : ClassifyEnds(broken) \/ PipeEnds(broken) \/ CollectEnds(broken)
  BY <1>4, ClassifyEndsHolds, PipeEndsHolds, CollectEndsHolds
<1>5. CASE (\E size : OtherRecords(size)) \/ UNCHANGED vars
  BY <1>5, OtherRecordsHolds, StutterHolds
<1> QED
  BY <1>1, <1>2, <1>3, <1>4, <1>5 DEF Behind

LEMMA NextCases ==
    ASSUME [Next]_vars
    PROVE  Behind \/ Arrives \/ Deliver \/ Record \/ HangUp
BY DEF Next, Handle, Behind, Arrives

LEMMA NextHolds ==
    ASSUME IInv, [Next]_vars
    PROVE  IInv'
<1>1. CASE Behind
  BY <1>1, BehindHolds
<1>2. CASE Arrives
  BY <1>2, ArriveHolds DEF Arrives
<1>3. CASE Deliver \/ Record \/ HangUp
  BY <1>3, DeliverHolds, RecordHolds, HangUpHolds
<1> QED
  BY <1>1, <1>2, <1>3, NextCases

LEMMA IInvHolds == Spec => []IInv
<1>1. Init => IInv
  BY InitHolds
<1>2. IInv /\ [Next]_vars => IInv'
  BY NextHolds
<1> QED
  BY <1>1, <1>2, PTL DEF Spec

LEMMA TypesHold == IInv => TypeOK
<1> SUFFICES ASSUME IInv PROVE TypeOK
  OBVIOUS
<1>1. /\ provider \in Providers /\ call \in Calls /\ client \in Clients
      /\ up \in Upstreams /\ tr \in Translators /\ TranslatorOK(tr, up)
      /\ ctx \in BOOLEAN /\ turns \in 0..MaxTurns
      /\ token \in 0..MaxRefreshes /\ others \in 0..MaxOthers
  BY DEF IInv, Typed
<1>2. client.block \in {NoBlock, client.next - 1} /\ client.next <= tr.next
  BY DEF IInv, Shows
<1>3. up.blocks \in 0..MaxBlocks
  BY <1>1 DEF Upstreams
<1>4. tr.next \in 0..up.blocks /\ tr.cur \in -1..(tr.next - 1) /\ (tr.cur = NoBlock <=> tr.type = "")
  BY <1>1 DEF TranslatorOK
<1>5. client.next \in 0..tr.next
  <2>1. client.next \in Nat /\ tr.next \in Nat
    BY <1>1, TranslatorFields, NextIsNat
  <2> QED
    BY <1>2, <2>1
<1>6. call.answer \in Answers /\ call.sent \in 0..MaxRefreshes
      /\ {call.stream, call.matched, call.omit, call.newTurn, call.late, call.gone, call.dies}
           \subseteq BOOLEAN
  BY <1>1, CallFields
<1>7. call.pc \in {"idle", "gate", "clear", "translate", "turn", "build", "send", "refresh", "rebuild", "resend",
                   "failing", "classify", "pipe", "collect", "drain", "record"}
  BY <1>1 DEF Calls
<1> QED
  BY <1>1, <1>2, <1>3, <1>4, <1>5, <1>6, <1>7 DEF TypeOK

LEMMA ItemsHold == IInv => ItemsArriveWhole
<1> SUFFICES ASSUME IInv, At("pipe"), out = <<>>, up.stage = "between"
             PROVE  /\ up.said =>
                          \/ up.item = "message" /\ "text" \in client.deltas
                          \/ up.item \in {"function_call", "Read"} /\ "input" \in client.deltas
                          \/ up.item = "reasoning" /\ (tr.omit \/ "thinking" \in client.deltas)
                    /\ tr.carry /\ up.seal = "signed" => "signature" \in client.deltas
  BY DEF ItemsArriveWhole
<1>1. Awaits(client, out, tr, up) /\ client \in Clients
  BY DEF IInv, Answering, Typed, At
<1>2. Tells(client.deltas, tr, up)
  BY <1>1, AwaitsBound DEF Abreast
<1> QED
  BY <1>2 DEF Tells

(* The types, and ItemsArriveWhole: whenever all that was translated of an *)
(* item the upstream has sent whole is written, the client has had its     *)
(* text, its arguments or its last thought, and the signature of reasoning *)
(* that grok encrypted, whatever came before it (Apply of stream.go).      *)
THEOREM ItemsReachTheClient == Spec => []Inv
<1>1. IInv => Inv
  BY TypesHold, ItemsHold DEF Inv
<1> QED
  BY <1>1, IInvHolds, PTL

(* classify.go: a context overflow reported before any text or arguments   *)
(* never ends in an answer streamed to a client, unless the classifier ran *)
(* out of time or the client has left.                                     *)
THEOREM OverflowIsAlwaysTold == Spec => []OverflowIsTold
<1>1. IInv => OverflowIsTold
  <2> SUFFICES ASSUME IInv, At("record"), call.answer = "stream", ~call.gone, ~call.late
               PROVE  ~(up.overflow /\ ~up.acted)
    BY DEF OverflowIsTold
  <2> QED
    BY DEF IInv, Overflowing, At
<1> QED
  BY <1>1, IInvHolds, PTL

-------------------------------------------------------------------------------
(* The refinement of MessageStream.                                        *)
LEMMA AnswerStays ==
    ASSUME call \in Calls, call' \in Calls, client' = client, call'.gone <=> call.gone
    PROVE  UNCHANGED Claude!stream
<1>1. call.gone \in BOOLEAN /\ call'.gone \in BOOLEAN
  BY CallFields
<1>2. call'.gone = call.gone
  BY <1>1
<1> QED
  BY <1>2 DEF Claude!stream

LEMMA Delivers ==
    ASSUME client \in Clients, NEW e \in Emissions, Expects(client, e),
           client' = Received(client, e), call' = call
    PROVE  Claude!Next
<1>1. NoBlock = Claude!Closed /\ call'.gone = call.gone
  BY DEF NoBlock, Claude!Closed
<1>2. CASE e.name = "message_start" /\ e.idx = NoBlock /\ client.phase = "none"
  <2>1. client'.phase = "open" /\ client'.last = <<"message_start", NoBlock>>
    BY <1>2, ReceivedPhase, ReceivedLast
  <2>2. client'.block = client.block /\ client'.kind = client.kind /\ client'.next = client.next
    BY <1>2, ReceivedOther
  <2>3. Claude!Start
    BY <1>1, <1>2, <2>1, <2>2 DEF Claude!Start
  <2> QED
    BY <2>3 DEF Claude!Next
<1>3. CASE /\ e.name = "content_block_start" /\ e.idx = client.next /\ e.kind \in BlockKinds
           /\ client.phase = "open" /\ client.block = NoBlock /\ client.next < MaxBlocks
  <2>1. client'.phase = client.phase /\ client'.last = <<"content_block_start", client.next>>
    BY <1>3, ReceivedPhase, ReceivedLast
  <2>2. client'.block = client.next /\ client'.kind = e.kind /\ client'.next = client.next + 1
    BY <1>3, ReceivedOpening
  <2>3. Claude!OpenBlock(e.kind)
    BY <1>1, <1>3, <2>1, <2>2 DEF Claude!OpenBlock
  <2> QED
    BY <1>3, <2>3 DEF Claude!Next, BlockKinds
<1>4. CASE /\ e.name = "content_block_delta" /\ e.idx = client.block
           /\ e.kind \in DeltaKinds /\ Claude!Fits(e.kind, client.kind)
           /\ client.phase = "open" /\ client.block # NoBlock
  <2>1. client'.phase = client.phase /\ client'.last = <<e.kind, client.block>>
    BY <1>4, ReceivedPhase, ReceivedLast
  <2>2. client'.block = client.block /\ client'.kind = client.kind /\ client'.next = client.next
    BY <1>4, ReceivedDelta
  <2>3. Claude!Delta(e.kind)
    BY <1>1, <1>4, <2>1, <2>2 DEF Claude!Delta
  <2> QED
    BY <1>4, <2>3 DEF Claude!Next, DeltaKinds
<1>5. CASE e.name = "content_block_stop" /\ e.idx = client.block /\ client.phase = "open" /\ client.block # NoBlock
  <2>1. client'.phase = client.phase /\ client'.last = <<"content_block_stop", client.block>>
    BY <1>5, ReceivedPhase, ReceivedLast
  <2>2. client'.block = NoBlock /\ client'.kind = "" /\ client'.next = client.next
    BY <1>5, ReceivedClosing
  <2>3. Claude!CloseBlock
    BY <1>1, <1>5, <2>1, <2>2 DEF Claude!CloseBlock
  <2> QED
    BY <2>3 DEF Claude!Next
<1>6. CASE e.name = "message_delta" /\ e.idx = NoBlock /\ client.phase = "open" /\ client.block = NoBlock
  <2>1. client'.phase = "closing" /\ client'.last = <<"message_delta", NoBlock>>
    BY <1>6, ReceivedPhase, ReceivedLast
  <2>2. client'.block = client.block /\ client'.kind = client.kind /\ client'.next = client.next
    BY <1>6, ReceivedOther
  <2>3. Claude!Summarise
    BY <1>1, <1>6, <2>1, <2>2 DEF Claude!Summarise
  <2> QED
    BY <2>3 DEF Claude!Next
<1>7. CASE e.name = "message_stop" /\ e.idx = NoBlock /\ client.phase = "closing"
  <2>1. client'.phase = "ended" /\ client'.last = <<"message_stop", NoBlock>>
    BY <1>7, ReceivedPhase, ReceivedLast
  <2>2. client'.block = client.block /\ client'.kind = client.kind /\ client'.next = client.next
    BY <1>7, ReceivedOther
  <2>3. Claude!Stop
    BY <1>1, <1>7, <2>1, <2>2 DEF Claude!Stop
  <2> QED
    BY <2>3 DEF Claude!Next
<1>8. CASE e.name = "error" /\ e.idx = NoBlock
  <2>1. client'.phase = client.phase /\ client'.last = <<"error", NoBlock>>
    BY <1>8, ReceivedPhase, ReceivedLast
  <2>2. client'.block = client.block /\ client'.kind = client.kind /\ client'.next = client.next
    BY <1>8, ReceivedOther
  <2>3. Claude!Error
    BY <1>1, <1>8, <2>1, <2>2 DEF Claude!Error
  <2> QED
    BY <2>3 DEF Claude!Next
<1> QED
  BY <1>2, <1>3, <1>4, <1>5, <1>6, <1>7, <1>8 DEF Expects

LEMMA StreamInit == Init => Claude!Init
<1> SUFFICES ASSUME Init PROVE Claude!Init
  OBVIOUS
<1>1. client = Unseen /\ call = NewCall
  BY DEF Init
<1>2. /\ client.phase = "none" /\ client.block = Claude!Closed /\ client.kind = "" /\ client.next = 0
      /\ client.last = <<"none", Claude!Closed>>
  BY <1>1 DEF Unseen, NoBlock, Claude!Closed
<1>3. call.gone = FALSE
  BY <1>1 DEF NewCall
<1> QED
  BY <1>2, <1>3 DEF Claude!Init

LEMMA Renews ==
    ASSUME client' = Unseen, call' \in Calls, ~call'.gone,
           call.gone \/ client.phase \in {"none", "ended"}
    PROVE  Claude!Renew
<1>1. /\ client'.phase = "none" /\ client'.block = Claude!Closed /\ client'.kind = "" /\ client'.next = 0
      /\ client'.last = <<"none", Claude!Closed>>
  BY DEF Unseen, NoBlock, Claude!Closed
<1>2. call'.gone \in BOOLEAN
  BY CallFields
<1>3. call'.gone = FALSE
  BY <1>2
<1> QED
  BY <1>1, <1>3 DEF Claude!Renew

LEMMA StreamStep ==
    ASSUME IInv, [Next]_vars
    PROVE  [Claude!Next]_(Claude!stream)
<1>1. call \in Calls /\ call' \in Calls /\ client \in Clients
  BY NextHolds DEF IInv, Typed
<1>2. CASE Behind
  BY <1>1, <1>2, BehindHolds, AnswerStays
<1>3. CASE Arrives
  <2>1. client = Unseen /\ client' = Unseen /\ ~call'.gone
    BY <1>3, ArriveHolds DEF Arrives
  <2>2. Claude!Renew
    BY <1>1, <2>1, UnseenFields, Renews
  <2> QED
    BY <2>2 DEF Claude!Next
<1>4. CASE Record
  <2>1. Claude!Renew
    BY <1>1, <1>4, RecordHolds, Renews
  <2> QED
    BY <2>1 DEF Claude!Next
<1>5. CASE HangUp
  <2>1. client' = client /\ call'.gone /\ call'.gone \in BOOLEAN
    BY <1>1, <1>5, HangUpHolds, CallFields
  <2>2. call'.gone = TRUE
    BY <2>1
  <2>3. Claude!HangUp
    BY <2>1, <2>2 DEF Claude!HangUp
  <2> QED
    BY <2>3 DEF Claude!Next
<1>6. CASE Deliver
  <2>1. Expects(client, Head(out)) /\ Head(out) \in Emissions
    BY <1>6, DeliverHolds
  <2>2. client' = Received(client, Head(out)) /\ call' = call
    BY <1>6 DEF Deliver
  <2>3. Claude!Next
    BY <1>1, <2>1, <2>2, Delivers
  <2> QED
    BY <2>3
<1> QED
  BY <1>2, <1>3, <1>4, <1>5, <1>6, NextCases

(* StreamsAreMessages but for its liveness: whatever the upstream sends    *)
(* and however it ends, the client of a streamed answer sees a message     *)
(* that starts once, blocks numbered in order with one open at a time,     *)
(* deltas that fit the open one, and an end when none is open; and the     *)
(* connection serves its next request only when the message has ended, has *)
(* never started, or the client has left.                                  *)
THEOREM StreamsAreWellFormed ==
    Spec => Claude!Init /\ [][Claude!Next]_(Claude!stream)
<1>1. IInv /\ [Next]_vars => [Claude!Next]_(Claude!stream)
  BY StreamStep
<1> QED
  BY <1>1, StreamInit, IInvHolds, PTL DEF Spec
===============================================================================
