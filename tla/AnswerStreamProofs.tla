------------------------ MODULE AnswerStreamProofs ------------------------
(***************************************************************************)
(* For any answers, any requests and any number of attempts: the client is *)
(* given the answer whole, however it is cut into frames, tidy tool blocks *)
(* stay hidden, a Responses stream keeps the life cycle of its items, and  *)
(* both endpoints make one prompt of a conversation.                       *)
(***************************************************************************)
EXTENDS AnswerStream, AnswerTextProofs

-----------------------------------------------------------------------------
(* Recursion upwards over the numbers from 1 to n. *)

\* Upward induction.
LEMMA Upward ==
    ASSUME NEW n \in Nat, NEW S, \A i \in 1..n : (\A j \in 1..i - 1 : j \in S) => i \in S
    PROVE  1..n \subseteq S
<1> DEFINE T == {i \in 1..n : i \notin S}
<1>1. SUFFICES ASSUME T # {}
               PROVE  FALSE
  OBVIOUS
<1>2. PICK i \in T : \A j \in T : i <= j
  <2> T \subseteq Nat
    OBVIOUS
  <2> HIDE DEF T
  <2> QED
    BY <1>1, LeastElement
<1>3. ASSUME NEW j \in 1..i - 1
      PROVE  j \in S
  BY <1>2, <1>3
<1> QED
  BY <1>2, <1>3

\* A recursion that takes one of the steps at every number, from a first value.
Recursion(g, n, first, step) ==
    g = [k \in 0..n |-> IF k = 0 THEN first ELSE step[k][g[k - 1]]]

\* Two that take the same steps up to m.
SameSteps(m, step, skip) == \A k \in 1..m : step[k] = skip[k]

\* There is one for every n ...
LEMMA RecursionExists ==
    ASSUME NEW V, NEW n \in Nat, NEW first \in V, NEW step \in [1..n -> [V -> V]]
    PROVE  \E g \in [0..n -> V] : Recursion(g, n, first, step)
<1> DEFINE S == {m \in 1..n : \E g \in [0..m -> V] : Recursion(g, m, first, step)}
<1>1. \E g \in [0..0 -> V] : Recursion(g, 0, first, step)
  <2> DEFINE g == [k \in 0..0 |-> first]
  <2>1. g \in [0..0 -> V]
    OBVIOUS
  <2>2. Recursion(g, 0, first, step)
    BY DEF Recursion
  <2> QED
    BY <2>1, <2>2
<1>2. ASSUME NEW m \in 1..n, \A j \in 1..m - 1 : j \in S
      PROVE  m \in S
  <2>1. PICK h \in [0..m - 1 -> V] : Recursion(h, m - 1, first, step)
    <3>1. CASE m = 1
      BY <3>1, <1>1
    <3>2. CASE m # 1
      <4>1. m - 1 \in 1..m - 1
        BY <3>2
      <4> QED
        BY <4>1, <1>2
    <3> QED
      BY <3>1, <3>2
  <2> DEFINE g == [k \in 0..m |-> IF k = m THEN step[m][h[m - 1]] ELSE h[k]]
  <2>2. h[m - 1] \in V /\ step[m] \in [V -> V]
    OBVIOUS
  <2>3. g \in [0..m -> V]
    <3>1. ASSUME NEW k \in 0..m
          PROVE  g[k] \in V
      BY <2>2
    <3> QED
      BY <3>1
  <2>4. ASSUME NEW k \in 0..m
        PROVE  g[k] = IF k = 0 THEN first ELSE step[k][g[k - 1]]
    <3>1. \A j \in 0..m - 1 : h[j] = IF j = 0 THEN first ELSE step[j][h[j - 1]]
      BY <2>1 DEF Recursion
    <3>2. CASE k = m
      <4>1. g[k - 1] = h[m - 1] /\ k # 0
        BY <3>2
      <4> QED
        BY <4>1, <3>2
    <3>3. CASE k # m /\ k # 0
      <4>1. k \in 0..m - 1 /\ k - 1 \in 0..m /\ k - 1 # m
        BY <3>3
      <4>2. g[k - 1] = h[k - 1] /\ g[k] = h[k]
        BY <4>1, <3>3
      <4>3. h[k] = step[k][h[k - 1]]
        BY <4>1, <3>1, <3>3
      <4> QED
        BY <4>2, <4>3, <3>3
    <3>4. CASE k = 0
      <4>1. 0 \in 0..m - 1 /\ k # m
        BY <3>4
      <4>2. g[k] = h[0] /\ h[0] = first
        BY <4>1, <3>1, <3>4
      <4> QED
        BY <4>2, <3>4
    <3> QED
      BY <3>2, <3>3, <3>4
  <2>5. Recursion(g, m, first, step)
    <3> HIDE DEF g
    <3>1. g = [k \in 0..m |-> g[k]]
      BY <2>3
    <3> QED
      BY <2>4, <3>1 DEF Recursion
  <2> QED
    BY <2>3, <2>5
<1>3. 1..n \subseteq S
  <2> HIDE DEF S
  <2> QED
    BY <1>2, Upward
<1>4. CASE n = 0
  BY <1>1, <1>4
<1>5. CASE n # 0
  <2>1. n \in S
    <3> n \in 1..n
      BY <1>5
    <3> HIDE DEF S
    <3> QED
      BY <1>3
  <2> QED
    BY <2>1
<1> QED
  BY <1>4, <1>5

\* ... and only one: two that take the same steps up to m agree up to m.
LEMMA RecursionUnique ==
    ASSUME NEW n \in Nat, NEW m \in 0..n, NEW first, NEW g, NEW h,
           NEW step, NEW skip, SameSteps(m, step, skip),
           Recursion(g, n, first, step), Recursion(h, m, first, skip)
    PROVE  g[m] = h[m]
<1> DEFINE S == {k \in 1..m : g[k] = h[k]}
<1>1. /\ \A k \in 0..n : g[k] = IF k = 0 THEN first ELSE step[k][g[k - 1]]
      /\ \A k \in 0..m : h[k] = IF k = 0 THEN first ELSE skip[k][h[k - 1]]
  BY DEF Recursion
<1>2. g[0] = h[0]
  BY <1>1
<1>3. ASSUME NEW k \in 1..m, \A j \in 1..k - 1 : j \in S
      PROVE  k \in S
  <2>1. g[k - 1] = h[k - 1]
    <3>1. CASE k = 1
      BY <1>2, <3>1
    <3>2. CASE k # 1
      <4>1. k - 1 \in 1..k - 1
        BY <3>2
      <4> QED
        BY <4>1, <1>3
    <3> QED
      BY <3>1, <3>2
  <2>2. k \in 0..n /\ k \in 0..m /\ k # 0
    OBVIOUS
  <2>3. g[k] = step[k][g[k - 1]] /\ h[k] = skip[k][h[k - 1]] /\ step[k] = skip[k]
    BY <1>1, <2>2 DEF SameSteps
  <2> QED
    BY <2>1, <2>3
<1>4. 1..m \subseteq S
  <2> HIDE DEF S
  <2> QED
    BY <1>3, Upward, SMTT(30)
<1> QED
  BY <1>2, <1>4

-----------------------------------------------------------------------------
(* FlattenSeq. *)

Appending(S, seqs) == [k \in 1..Len(seqs) |-> [x \in Seq(S) |-> x \o seqs[k]]]

\* The step of FlattenSeq is a function on sequences.
LEMMA AppendingType ==
    ASSUME NEW S, NEW seqs \in Seq(Seq(S))
    PROVE  Appending(S, seqs) \in [1..Len(seqs) -> [Seq(S) -> Seq(S)]]
<1>1. ASSUME NEW k \in 1..Len(seqs), NEW x \in Seq(S)
      PROVE  x \o seqs[k] \in Seq(S)
  <2>1. seqs[k] \in Seq(S)
    BY LenProperties, ElementOfSeq
  <2> QED
    BY <2>1, ConcatProperties, Zenon
<1> QED
  BY <1>1 DEF Appending

\* FlattenSeq appends one sequence after the other.
LEMMA FlattenIs ==
    ASSUME NEW S, NEW seqs \in Seq(Seq(S)), NEW g \in [0..Len(seqs) -> Seq(S)],
           Recursion(g, Len(seqs), <<>>, Appending(S, seqs))
    PROVE  FlattenSeq(seqs) = g[Len(seqs)]
<1> DEFINE n == Len(seqs)
           Solves(h) == h = [i \in 1..n |-> IF i = 1 THEN seqs[i] ELSE h[i - 1] \o seqs[i]]
           h == [i \in 1..n |-> g[i]]
           c == CHOOSE d : Solves(d)
<1>1. n \in Nat /\ \A k \in 1..n : seqs[k] \in Seq(S)
  BY LenProperties, ElementOfSeq
<1>2. g[0] = <<>> /\ \A k \in 1..n : g[k] = g[k - 1] \o seqs[k]
  <2>1. \A k \in 0..n : g[k] = IF k = 0 THEN <<>> ELSE Appending(S, seqs)[k][g[k - 1]]
    BY DEF Recursion
  <2>2. g[0] = <<>>
    <3>1. 0 \in 0..n
      BY <1>1
    <3> HIDE DEF n
    <3> QED
      BY <2>1, <3>1
  <2>3. ASSUME NEW k \in 1..n
        PROVE  g[k] = g[k - 1] \o seqs[k]
    <3>1. k \in 0..n /\ k # 0 /\ k - 1 \in 0..n
      BY <1>1
    <3>2. g[k] = Appending(S, seqs)[k][g[k - 1]] /\ g[k - 1] \in Seq(S)
      BY <2>1, <3>1
    <3> QED
      BY <3>2 DEF Appending
  <2> QED
    BY <2>2, <2>3
<1>3. CASE n = 0
  <2>1. seqs = <<>>
    BY <1>3, EmptySeq
  <2>2. FlattenSeq(seqs) = seqs
    BY <1>3 DEF FlattenSeq
  <2> QED
    BY <1>2, <1>3, <2>1, <2>2
<1>4. CASE n # 0
  <2>1. ASSUME NEW i \in 1..n
        PROVE  g[i] = IF i = 1 THEN seqs[i] ELSE h[i - 1] \o seqs[i]
    <3>1. CASE i = 1
      <4>1. g[1] = <<>> \o seqs[1]
        <5>1. 1 \in 1..n /\ 1 - 1 = 0
          BY <1>1, <1>4
        <5> QED
          BY <5>1, <1>2
      <4>2. <<>> \o seqs[1] = seqs[1]
        <5> seqs[1] \in Seq(S)
          BY <1>1, <1>4
        <5> QED
          BY ConcatEmptySeq
      <4> QED
        BY <3>1, <4>1, <4>2
    <3>2. CASE i # 1
      <4>1. i - 1 \in 1..n
        BY <1>1, <3>2
      <4> QED
        BY <4>1, <3>2, <1>2
    <3> QED
      BY <3>1, <3>2
  <2>2. Solves(h)
    BY <2>1
  <2>3. Solves(c)
    <3> HIDE DEF h
    <3> QED
      BY <2>2, Zenon
  <2>4. FlattenSeq(seqs) = c[n]
    BY <1>4, Zenon DEF FlattenSeq
  <2> DEFINE T == {i \in 1..n : c[i] = g[i]}
  <2>5. \A i \in 1..n : c[i] = IF i = 1 THEN seqs[i] ELSE c[i - 1] \o seqs[i]
    <3> HIDE DEF c
    <3> QED
      BY <2>3
  <2> HIDE DEF c
  <2>6. ASSUME NEW i \in 1..n, \A j \in 1..i - 1 : j \in T
        PROVE  i \in T
    <3>1. CASE i = 1
      <4>1. g[1] = seqs[1]
        BY <2>1, <3>1
      <4> QED
        BY <4>1, <2>5, <3>1
    <3>2. CASE i # 1
      <4>1. i - 1 \in 1..n /\ i - 1 \in 1..i - 1
        BY <3>2, <1>1
      <4>2. c[i - 1] = g[i - 1]
        BY <4>1, <2>6
      <4>3. g[i] = g[i - 1] \o seqs[i]
        BY <1>2
      <4>4. c[i] = c[i - 1] \o seqs[i]
        BY <2>5, <3>2
      <4> QED
        BY <4>2, <4>3, <4>4
    <3> QED
      BY <3>1, <3>2
  <2>7. 1..n \subseteq T
    <3> HIDE DEF T
    <3> QED
      BY <1>1, <2>6, Upward
  <2>8. n \in T
    <3> n \in 1..n
      BY <1>1, <1>4
    <3> HIDE DEF T
    <3> QED
      BY <2>7
  <2> QED
    BY <2>4, <2>8
<1> QED
  BY <1>3, <1>4

\* FlattenSeq yields a sequence of the elements.
LEMMA FlattenType ==
    ASSUME NEW S, NEW seqs \in Seq(Seq(S))
    PROVE  FlattenSeq(seqs) \in Seq(S)
<1>1. Len(seqs) \in Nat /\ <<>> \in Seq(S)
  BY LenProperties, EmptySeq
<1>2. PICK g \in [0..Len(seqs) -> Seq(S)] : Recursion(g, Len(seqs), <<>>, Appending(S, seqs))
  BY <1>1, AppendingType, RecursionExists
<1>3. FlattenSeq(seqs) = g[Len(seqs)]
  BY <1>2, FlattenIs
<1> QED
  BY <1>1, <1>3

\* Nothing flattens to nothing.
LEMMA FlattenNothing == FlattenSeq(<<>>) = <<>>
BY EmptySeq DEF FlattenSeq

\* One sequence more: its elements are appended.
LEMMA FlattenStep ==
    ASSUME NEW S, NEW seqs \in Seq(Seq(S)), NEW some \in Seq(Seq(S)), Len(seqs) = Len(some) + 1,
           \A k \in 1..Len(some) : seqs[k] = some[k]
    PROVE  FlattenSeq(seqs) = FlattenSeq(some) \o seqs[Len(seqs)]
<1> DEFINE n == Len(seqs)
           m == Len(some)
<1>1. n \in Nat /\ m \in 0..n /\ m = n - 1 /\ <<>> \in Seq(S) /\ n \in 1..n
  BY LenProperties, EmptySeq
<1>2. PICK g \in [0..n -> Seq(S)] : Recursion(g, n, <<>>, Appending(S, seqs))
  BY <1>1, AppendingType, RecursionExists
<1>3. PICK h \in [0..m -> Seq(S)] : Recursion(h, m, <<>>, Appending(S, some))
  <2> m \in Nat
    BY LenProperties
  <2> QED
    BY <1>1, AppendingType, RecursionExists
<1>4. FlattenSeq(seqs) = g[n] /\ FlattenSeq(some) = h[m]
  BY <1>2, <1>3, FlattenIs
<1>5. g[m] = h[m]
  <2>1. \A k \in 1..m : Appending(S, seqs)[k] = Appending(S, some)[k]
    <3>1. ASSUME NEW k \in 1..m
          PROVE  Appending(S, seqs)[k] = Appending(S, some)[k]
      <4>1. k \in 1..n /\ seqs[k] = some[k]
        BY <1>1
      <4> QED
        BY <4>1 DEF Appending
    <3> QED
      BY <3>1
  <2> DEFINE step == Appending(S, seqs)
             skip == Appending(S, some)
             first == <<>>
  <2>2. n \in Nat /\ m \in 0..n
    BY <1>1
  <2>3. SameSteps(m, step, skip)
    BY <2>1 DEF SameSteps
  <2>4. Recursion(g, n, first, step) /\ Recursion(h, m, first, skip)
    BY <1>2, <1>3
  <2> HIDE DEF n, m, step, skip, first
  <2>5. ASSUME NEW p, NEW q, Recursion(p, n, first, step), Recursion(q, m, first, skip)
        PROVE  p[m] = q[m]
    BY <2>2, <2>3, <2>5, RecursionUnique
  <2> QED
    BY <2>4, <2>5
<1>6. g[n] = g[m] \o seqs[n]
  <2>1. g[n] = Appending(S, seqs)[n][g[n - 1]]
    BY <1>1, <1>2 DEF Recursion
  <2>2. g[n - 1] \in Seq(S)
    BY <1>1
  <2> QED
    BY <1>1, <2>1, <2>2 DEF Appending
<1> QED
  BY <1>4, <1>5, <1>6

-----------------------------------------------------------------------------
(* The types of events and requests. *)

EventSet(n) == [kind : Kinds, index : 0..n]

\* An event of a known kind.
LEMMA EventType ==
    ASSUME NEW n \in Nat, NEW kind \in Kinds, NEW i \in 0..n
    PROVE  Event(kind, i) \in EventSet(n)
BY DEF Event, EventSet

\* A history with fewer calls is one with more.
LEMMA EventSetGrows ==
    ASSUME NEW n \in Nat, NEW es \in Seq(EventSet(0))
    PROVE  es \in Seq(EventSet(n))
<1>1. EventSet(0) \subseteq EventSet(n)
  BY DEF EventSet
<1>2. Len(es) \in Nat /\ es \in [1..Len(es) -> EventSet(0)]
  BY LenProperties
<1>3. es = [i \in 1..Len(es) |-> es[i]] /\ \A i \in 1..Len(es) : es[i] \in EventSet(n)
  BY <1>1, <1>2
<1> QED
  BY <1>2, <1>3

\* Streams as they begin and end.
LEMMA OpeningType ==
    ASSUME NEW t
    PROVE  Opening(t) \in Seq(EventSet(0))
<1>1. /\ Event("role", 0) \in EventSet(0) /\ Event("created", 0) \in EventSet(0)
      /\ Event("in_progress", 0) \in EventSet(0)
      /\ Event("item.added", 0) \in EventSet(0) /\ Event("part.added", 0) \in EventSet(0)
  BY EventType DEF Kinds
<1> HIDE DEF EventSet
<1>2. /\ <<>> \in Seq(EventSet(0)) /\ <<Event("role", 0)>> \in Seq(EventSet(0))
      /\ <<Event("created", 0), Event("in_progress", 0)>> \in Seq(EventSet(0))
      /\ <<Event("item.added", 0), Event("part.added", 0)>> \in Seq(EventSet(0))
  BY <1>1
<1>3. \A s, u \in Seq(EventSet(0)) : s \o u \in Seq(EventSet(0))
  BY ConcatProperties
<1> QED
  BY <1>2, <1>3 DEF Opening

\* A delta adds an event of its index, or none.
LEMMA WithDeltaType ==
    ASSUME NEW n \in Nat, NEW i \in 0..n, NEW es \in Seq(EventSet(n)), NEW delta
    PROVE  WithDelta(es, delta, i) \in Seq(EventSet(n))
<1>1. Event("delta", i) \in EventSet(n)
  BY EventType DEF Kinds
<1>2. Append(es, Event("delta", i)) \in Seq(EventSet(n))
  BY <1>1, AppendProperties
<1> QED
  BY <1>2 DEF WithDelta

\* The events of n calls have the indices 0 to n - 1.
LEMMA FunctionItemsType ==
    ASSUME NEW n \in Nat
    PROVE  FunctionItems(n) \in Seq(EventSet(n))
<1> DEFINE items == [k \in 1..n |-> <<Event("item.added", k - 1), Event("arguments", k - 1),
                                      Event("arguments.done", k - 1), Event("function.done", k - 1)>>]
<1>1. ASSUME NEW k \in 1..n
      PROVE  items[k] \in Seq(EventSet(n))
  <2>1. k - 1 \in 0..n
    OBVIOUS
  <2>2. /\ Event("item.added", k - 1) \in EventSet(n) /\ Event("arguments", k - 1) \in EventSet(n)
        /\ Event("arguments.done", k - 1) \in EventSet(n) /\ Event("function.done", k - 1) \in EventSet(n)
    BY <2>1, EventType DEF Kinds
  <2> QED
    BY <2>2
<1>2. items \in Seq(Seq(EventSet(n)))
  BY <1>1
<1> QED
  BY <1>2, FlattenType DEF FunctionItems

\* The events of a message have its index.
LEMMA BufferedMessageType ==
    ASSUME NEW n \in Nat, NEW i \in 0..n, NEW text
    PROVE  BufferedMessage(text, i) \in Seq(EventSet(n)) /\ MessageEnd(i) \in Seq(EventSet(n))
<1>1. \A k \in {"item.added", "part.added", "delta", "text.done", "part.done", "message.done"} :
          Event(k, i) \in EventSet(n)
  BY EventType DEF Kinds
<1> HIDE DEF EventSet
<1>2. /\ <<Event("item.added", i), Event("part.added", i)>> \in Seq(EventSet(n))
      /\ <<Event("delta", i)>> \in Seq(EventSet(n)) /\ <<>> \in Seq(EventSet(n))
      /\ MessageEnd(i) \in Seq(EventSet(n))
  BY <1>1 DEF MessageEnd
<1>3. \A s, u \in Seq(EventSet(n)) : s \o u \in Seq(EventSet(n))
  BY ConcatProperties
<1> QED
  BY <1>2, <1>3 DEF BufferedMessage

\* The events that end a Responses stream.
LEMMA ResponsesEndType ==
    ASSUME Calls \in Nat, NEW es \in Seq(EventSet(0))
    PROVE  ResponsesEnd(es) \in Seq(EventSet(Calls))
<1>1. es \in Seq(EventSet(Calls)) /\ FunctionItems(Calls) \in Seq(EventSet(Calls))
  BY EventSetGrows, FunctionItemsType
<1>2. BufferedMessage(Text, Calls) \in Seq(EventSet(Calls)) /\ MessageEnd(0) \in Seq(EventSet(Calls))
  BY BufferedMessageType
<1>3. Event("completed", 0) \in EventSet(Calls)
  BY EventType DEF Kinds
<1> HIDE DEF EventSet
<1>4. <<Event("completed", 0)>> \in Seq(EventSet(Calls)) /\ <<>> \in Seq(EventSet(Calls))
  BY <1>3
<1>5. \A s, u \in Seq(EventSet(Calls)) : s \o u \in Seq(EventSet(Calls))
  BY ConcatProperties
<1> QED
  BY <1>1, <1>2, <1>4, <1>5 DEF ResponsesEnd

\* The events that end a chat stream.
LEMMA ChatEndType ==
    ASSUME Calls \in Nat, NEW es \in Seq(EventSet(0))
    PROVE  ChatEnd(es) \in Seq(EventSet(Calls))
<1>1. es \in Seq(EventSet(Calls))
  BY EventSetGrows
<1>2. /\ Event("tool_calls", 0) \in EventSet(Calls) /\ Event("finish", 0) \in EventSet(Calls)
      /\ Event("end", 0) \in EventSet(Calls)
  BY EventType DEF Kinds
<1> HIDE DEF EventSet
<1>3. /\ <<Event("tool_calls", 0)>> \in Seq(EventSet(Calls)) /\ <<>> \in Seq(EventSet(Calls))
      /\ <<Event("finish", 0), Event("end", 0)>> \in Seq(EventSet(Calls))
  BY <1>2
<1>4. \A s, u \in Seq(EventSet(Calls)) : s \o u \in Seq(EventSet(Calls))
  BY ConcatProperties
<1> QED
  BY <1>1, <1>3, <1>4 DEF ChatEnd

\* The items of the object.
LEMMA ResponseOutputType ==
    ASSUME NEW n \in Nat, NEW text
    PROVE  ResponseOutput(n, text) \in Seq(EventSet(n))
<1> DEFINE items == [k \in 1..n |-> Event("function.done", k - 1)]
<1>1. ASSUME NEW k \in 1..n
      PROVE  items[k] \in EventSet(n)
  <2>1. k - 1 \in 0..n /\ "function.done" \in Kinds
    BY DEF Kinds
  <2> QED
    BY <2>1, EventType
<1>2. items \in Seq(EventSet(n))
  BY <1>1
<1>3. Event("message.done", n) \in EventSet(n)
  BY EventType DEF Kinds
<1> HIDE DEF EventSet, items
<1>4. <<Event("message.done", n)>> \in Seq(EventSet(n)) /\ <<>> \in Seq(EventSet(n))
  BY <1>3
<1>5. \A s, u \in Seq(EventSet(n)) : s \o u \in Seq(EventSet(n))
  BY ConcatProperties
<1> QED
  BY <1>2, <1>4, <1>5 DEF ResponseOutput, items

\* A plain request is a request.
LEMMA PlainRequestType ==
    ASSUME NEW functions \in Seq(ToolSet), NEW turns \in Seq(TurnSet)
    PROVE  PlainRequest(functions, turns) \in RequestSet
<1>1. 1 \in Nat /\ "auto" \in Strings
  BY AnswerStreamAssumption
<1> QED
  BY <1>1, Zenon DEF PlainRequest, RequestSet

\* So is the empty one.
LEMMA NoRequestType == NoRequest \in RequestSet
<1>1. <<>> \in Seq(ToolSet) /\ <<>> \in Seq(TurnSet)
  BY EmptySeq
<1> QED
  BY <1>1, PlainRequestType DEF NoRequest

\* A message of one text is a turn.
LEMMA MessageType ==
    ASSUME NEW role \in Strings, NEW text \in Seq(Token), NEW made \in Seq(Recalled)
    PROVE  /\ Message(role, Content(text), made) \in TurnSet
           /\ Message(role, <<>>, made) \in TurnSet
<1> DEFINE PartSet == [type : Strings, text : Seq(Token)]
<1>1. Part("text", text) \in PartSet
  <2> "text" \in Strings
    BY AnswerStreamAssumption
  <2> QED
    BY Zenon DEF Part
<1> HIDE DEF PartSet
<1>2. Content(text) \in Seq(PartSet) /\ <<>> \in Seq(PartSet)
  BY <1>1 DEF Content
<1>3. Content(text) \in ContentSet /\ <<>> \in ContentSet
  BY <1>2 DEF ContentSet, PartSet
<1> QED
  BY <1>3, Zenon DEF Message, TurnSet

\* A word is a text.
LEMMA WordType == <<Word>> \in Seq(Token)
BY DEF Token

\* A call that was made can be sent back.
LEMMA MadeIsRecalled ==
    ASSUME NEW made \in Seq(Made)
    PROVE  made \in Seq(Recalled)
<1>1. Made \subseteq Recalled
  BY DEF Made, Recalled
<1>2. Len(made) \in Nat /\ made \in [1..Len(made) -> Made]
  BY LenProperties
<1> HIDE DEF Made, Recalled
<1>3. made = [i \in 1..Len(made) |-> made[i]] /\ \A i \in 1..Len(made) : made[i] \in Recalled
  BY <1>1, <1>2
<1> QED
  BY <1>2, <1>3

\* What the client sends after an answer is a request.
LEMMA LastExchangeType ==
    ASSUME answer \in Seq(Token), visible \in Seq(Token)
    PROVE  LastExchange \in Seq(TurnSet)
<1> DEFINE made == IF tools THEN CallsIn(ResultText) ELSE <<>>
           results == [k \in DOMAIN made |-> Message("tool", Content(<<Word>>), <<>>)]
           asked == Message("user", Content(<<Word>>), <<>>)
           said == Message("assistant", IF visible = <<>> THEN <<>> ELSE Content(visible), made)
<1>1. ResultText \in Seq(Token)
  BY CleanTextType DEF ResultText
<1>2. made \in Seq(Made)
  <2>1. CallsIn(ResultText) \in Seq(Made) /\ <<>> \in Seq(Made)
    BY <1>1, CallsInType, EmptySeq
  <2> QED
    BY <2>1
<1>3. made \in Seq(Recalled) /\ <<>> \in Seq(Recalled)
  <2> HIDE DEF made
  <2> QED
    BY <1>2, MadeIsRecalled, EmptySeq
<1>4. DOMAIN made = 1..Len(made) /\ Len(made) \in Nat
  <2> HIDE DEF made
  <2> QED
    BY <1>2, LenProperties
<1> HIDE DEF made
<1>5. asked \in TurnSet /\ said \in TurnSet /\ Message("tool", Content(<<Word>>), <<>>) \in TurnSet
  <2>1. "user" \in Strings /\ "tool" \in Strings /\ "assistant" \in Strings
    BY AnswerStreamAssumption
  <2>2. asked \in TurnSet /\ Message("tool", Content(<<Word>>), <<>>) \in TurnSet
    BY <2>1, <1>3, WordType, MessageType
  <2>3. Message("assistant", Content(visible), made) \in TurnSet /\ Message("assistant", <<>>, made) \in TurnSet
    BY <2>1, <1>3, MessageType
  <2> QED
    BY <2>2, <2>3
<1>6. results \in Seq(TurnSet)
  BY <1>4, <1>5
<1> HIDE DEF asked, said, results, TurnSet
<1>7. <<asked, said>> \in Seq(TurnSet)
  BY <1>5
<1>8. <<asked, said>> \o results \in Seq(TurnSet)
  BY <1>6, <1>7, ConcatProperties
<1>9. LastExchange = <<asked, said>> \o results
  BY Zenon DEF LastExchange, made, asked, said, results
<1> QED
  BY <1>8, <1>9

-----------------------------------------------------------------------------
(* Type correctness. *)

\* Before the prompt has been sent nothing is left of an earlier request, and
\* calls are counted at the end only.
Begun ==
    /\ pc \in {"request", "refused"} => /\ emitted = <<>> /\ visible = <<>> /\ gate = ClosedGate
                                        /\ ~ tools /\ ~ resent /\ ~ split /\ read = 0
    /\ pc = "request" => events = <<>>
    /\ pc # "done" => calls = 0

TypeInv == TypeOK /\ Begun

\* The gate before the first delta.
LEMMA ClosedGateType == ClosedGate \in GateState /\ ClosedGate = Gate(<<>>, <<>>, FALSE)
<1>1. <<>> \in Seq(Token)
  BY NoText
<1> QED
  BY <1>1 DEF ClosedGate, Gate, GateState

\* The types as the proofs below use them.
LEMMA TypesAreUseful ==
    ASSUME TypeOK
    PROVE  /\ answer \in Seq(Token) /\ Len(answer) \in Nat
           /\ gate \in GateState /\ events \in Seq(EventSet(calls))
           /\ ResultText \in Seq(Token) /\ Text \in Seq(Token) /\ Calls \in Nat
<1>1. answer \in Seq(Token)
  BY NoText, AnswerStreamAssumption DEF TypeOK
<1>2. Len(answer) \in Nat
  BY <1>1, LenProperties
<1>3. ResultText \in Seq(Token)
  BY <1>1, CleanTextType DEF ResultText
<1>4. Text \in Seq(Token)
  BY <1>3, VisibleTextType DEF Text
<1>5. Calls \in Nat
  <2>1. CallsIn(ResultText) \in Seq(Made)
    BY <1>3, CallsInType
  <2>2. Len(CallsIn(ResultText)) \in Nat
    BY <2>1, LenProperties
  <2> QED
    BY <2>2 DEF Calls
<1>6. gate \in GateState /\ events \in Seq(EventSet(calls))
  BY DEF TypeOK, GateState, EventSet
<1> QED
  BY <1>1, <1>2, <1>3, <1>4, <1>5, <1>6

\* The invariant holds at the start.
LEMMA InitTypeInv == Init => TypeInv
<1> SUFFICES ASSUME Init
             PROVE  TypeInv
  OBVIOUS
<1>1. answer = <<>> /\ Len(answer) = 0 /\ <<>> \in Seq(Token) /\ read \in 0..Len(answer)
  BY NoText DEF Init
<1>2. gate \in [sent : Seq(Token), buffer : Seq(Token), inFence : BOOLEAN]
  BY ClosedGateType DEF Init, GateState
<1>3. request \in RequestSet
  BY AnswerStreamAssumption DEF Init
<1>4. events \in Seq([kind : Kinds, index : 0..calls])
  <2>1. events = <<>>
    BY DEF Init
  <2> QED
    BY <2>1, EmptySeq
<1>5. sends \in 1..MaxSends
  BY AnswerStreamAssumption DEF Init
<1> HIDE DEF Begun
<1>6. TypeOK
  BY <1>1, <1>2, <1>3, <1>4, <1>5 DEF Init, TypeOK
<1>7. Begun
  BY DEF Init, Begun
<1> QED
  BY <1>6, <1>7 DEF TypeInv

\* Each action keeps it.
LEMMA RefuseTypeInv ==
    ASSUME TypeInv, Refuse
    PROVE  TypeInv'
<1>1. events' \in Seq([kind : Kinds, index : 0..calls'])
  <2>1. calls' = 0
    BY DEF TypeInv, Begun, Refuse
  <2>2. Event("error", 0) \in EventSet(0)
    BY EventType DEF Kinds
  <2>3. <<Event("error", 0)>> \in Seq(EventSet(0))
    <3> HIDE DEF EventSet
    <3> QED
      BY <2>2
  <2> QED
    BY <2>1, <2>3 DEF Refuse, EventSet
<1>2. TypeOK'
  BY <1>1 DEF TypeInv, TypeOK, Refuse, textVars
<1>3. Begun'
  BY DEF TypeInv, Begun, Refuse, textVars
<1> QED
  BY <1>2, <1>3 DEF TypeInv

\* Submit keeps the invariant.
LEMMA SubmitTypeInv ==
    ASSUME TypeInv, Submit
    PROVE  TypeInv'
<1>1. events' \in Seq([kind : Kinds, index : 0..calls'])
  <2>1. calls' = 0
    BY DEF TypeInv, Begun, Submit
  <2>2. events' \in Seq(EventSet(0))
    BY OpeningType DEF Submit
  <2> QED
    BY <2>1, <2>2 DEF EventSet
<1>2. read' \in 0..Len(answer')
  <2>1. answer' \in Seq(Token) /\ read' = 0
    BY AnswerStreamAssumption DEF TypeInv, Begun, Submit
  <2> QED
    BY <2>1, LenProperties
<1>3. request' \in RequestSet /\ request' = NoRequest
  BY NoRequestType DEF Submit
<1>4. tools' \in BOOLEAN
  BY DEF Submit
<1>5. TypeOK'
  BY <1>1, <1>2, <1>3, <1>4 DEF TypeInv, TypeOK, Submit, textVars
<1>6. Begun'
  BY DEF TypeInv, Begun, Submit, textVars
<1> QED
  BY <1>5, <1>6 DEF TypeInv

\* Frame keeps the invariant: the delta, and what the gate shows of it, are texts.
LEMMA FrameTypeInv ==
    ASSUME TypeInv, NEW n \in 1..Len(answer), Frame(n)
    PROVE  TypeInv'
<1> DEFINE delta == IF HasOnContent THEN TrackerDelta(emitted, SubSeq(answer, 1, n)) ELSE <<>>
           pushed == IF Gated THEN Push(gate, delta) ELSE gate
           shown == IF Gated THEN SubSeq(pushed.sent, Len(gate.sent) + 1, Len(pushed.sent)) ELSE delta
<1>1. /\ answer \in Seq(Token) /\ Len(answer) \in Nat /\ gate \in GateState
      /\ events \in Seq(EventSet(calls))
  BY TypesAreUseful DEF TypeInv
<1>2. delta \in Seq(Token)
  <2>1. SubSeq(answer, 1, n) \in Seq(Token)
    BY <1>1, BeginningIs
  <2>2. emitted \in Seq(Token)
    BY DEF TypeInv, TypeOK
  <2> QED
    BY <2>1, <2>2, TrackerDeltaType, NoText
<1> HIDE DEF delta
<1>3. pushed \in GateState
  BY <1>1, <1>2, PushType
<1> HIDE DEF pushed
<1>4. shown \in Seq(Token)
  <2>1. pushed.sent \in Seq(Token) /\ gate.sent \in Seq(Token)
    BY <1>1, <1>3 DEF GateState
  <2>2. Len(pushed.sent) \in Nat /\ Len(gate.sent) \in Nat
    BY <2>1, LenProperties
  <2>3. SubSeq(pushed.sent, Len(gate.sent) + 1, Len(pushed.sent)) \in Seq(Token)
    BY <2>1, <2>2, SubSeqIsText
  <2> QED
    BY <1>2, <2>3
<1> HIDE DEF shown
<1>5. /\ emitted' = emitted \o delta /\ gate' = pushed /\ visible' = visible \o shown
      /\ events' = WithDelta(events, shown, 0)
  BY Zenon DEF Frame, delta, pushed, shown
<1>6. emitted' \in Seq(Token) /\ visible' \in Seq(Token)
  <2>1. emitted \in Seq(Token) /\ visible \in Seq(Token)
    BY DEF TypeInv, TypeOK
  <2> QED
    BY <1>2, <1>4, <1>5, <2>1, ConcatIs
<1>7. events' \in Seq([kind : Kinds, index : 0..calls'])
  <2>1. calls' = calls /\ calls \in Nat /\ 0 \in 0..calls
    BY DEF Frame, TypeInv, TypeOK
  <2>2. events' \in Seq(EventSet(calls))
    BY <1>1, <1>5, <2>1, WithDeltaType
  <2> QED
    BY <2>1, <2>2 DEF EventSet
<1>8. gate' \in [sent : Seq(Token), buffer : Seq(Token), inFence : BOOLEAN]
  BY <1>3, <1>5 DEF GateState
<1>9. read' \in 0..Len(answer') /\ split' \in BOOLEAN
  <2>1. read' = n /\ answer' = answer /\ split' = (split \/ Torn(n)) /\ split \in BOOLEAN
    BY DEF Frame, TypeInv, TypeOK
  <2> QED
    BY <1>1, <2>1
<1>10. TypeOK'
  <2>1. UNCHANGED <<api, stream, pc, request, tools, answer, calls, sends, resent>>
    BY DEF Frame
  <2> QED
    BY <1>6, <1>7, <1>8, <1>9, <2>1 DEF TypeInv, TypeOK
<1>11. Begun'
  <2>1. pc = "reading" /\ pc' = pc /\ calls' = calls
    BY DEF Frame
  <2> QED
    BY <2>1 DEF TypeInv, Begun
<1> QED
  BY <1>10, <1>11 DEF TypeInv

\* Resend keeps the invariant.
LEMMA ResendTypeInv ==
    ASSUME TypeInv, Resend
    PROVE  TypeInv'
<1>1. read' \in 0..Len(answer')
  <2>1. answer' \in Seq(Token) /\ read' = 0
    BY AnswerStreamAssumption DEF Resend
  <2> QED
    BY <2>1, LenProperties
<1>2. sends' \in 1..MaxSends
  BY AnswerStreamAssumption DEF TypeInv, TypeOK, Resend
<1>3. resent' \in BOOLEAN
  BY DEF TypeInv, TypeOK, Resend
<1>4. TypeOK'
  BY <1>1, <1>2, <1>3 DEF TypeInv, TypeOK, Resend, textVars
<1>5. Begun'
  BY DEF TypeInv, Begun, Resend, textVars
<1> QED
  BY <1>4, <1>5 DEF TypeInv

\* Fail keeps the invariant.
LEMMA FailTypeInv ==
    ASSUME TypeInv, Fail
    PROVE  TypeInv'
<1>1. events' \in Seq([kind : Kinds, index : 0..calls'])
  <2>1. calls' = 0 /\ calls = 0 /\ events \in Seq(EventSet(0))
    BY TypesAreUseful DEF TypeInv, Begun, Fail
  <2>2. /\ Event("error", 0) \in EventSet(0) /\ Event("end", 0) \in EventSet(0)
        /\ Event("failed", 0) \in EventSet(0)
    BY EventType DEF Kinds
  <2> HIDE DEF EventSet
  <2>3. /\ <<Event("error", 0)>> \in Seq(EventSet(0)) /\ <<Event("failed", 0)>> \in Seq(EventSet(0))
        /\ <<Event("error", 0), Event("end", 0)>> \in Seq(EventSet(0))
    BY <2>2
  <2>4. \A s \in Seq(EventSet(0)) : events \o s \in Seq(EventSet(0))
    BY <2>1, ConcatProperties
  <2>5. events' \in Seq(EventSet(0))
    BY <2>3, <2>4 DEF Fail
  <2> QED
    BY <2>1, <2>5 DEF EventSet
<1>2. TypeOK'
  BY <1>1 DEF TypeInv, TypeOK, Fail, textVars
<1>3. Begun'
  BY DEF TypeInv, Begun, Fail, textVars
<1> QED
  BY <1>2, <1>3 DEF TypeInv

\* Finish keeps the invariant: no event has an index past the calls.
LEMMA FinishTypeInv ==
    ASSUME TypeInv, Finish
    PROVE  TypeInv'
<1> DEFINE rest == IF HasOnContent THEN RemainingText(Text, visible) ELSE Text
<1>1. /\ Text \in Seq(Token) /\ Calls \in Nat /\ visible \in Seq(Token)
      /\ calls = 0 /\ events \in Seq(EventSet(0))
  BY TypesAreUseful DEF TypeInv, TypeOK, Begun, Finish
<1>2. rest \in Seq(Token)
  BY <1>1, RemainingTextType
<1> HIDE DEF rest
<1>3. /\ visible' = visible \o rest /\ calls' = Calls
      /\ events' = IF api = "chat" THEN ChatEnd(IF stream THEN WithDelta(events, rest, 0) ELSE events)
                   ELSE IF ~ stream THEN ResponseOutput(Calls, Text)
                   ELSE IF tools THEN ResponsesEnd(events)
                   ELSE ResponsesEnd(WithDelta(events, rest, 0))
  BY Zenon DEF Finish, rest
<1>4. visible' \in Seq(Token)
  BY <1>1, <1>2, <1>3, ConcatIs
<1>5. events' \in Seq([kind : Kinds, index : 0..calls'])
  <2>1. WithDelta(events, rest, 0) \in Seq(EventSet(0))
    BY <1>1, WithDeltaType
  <2>2. /\ ChatEnd(WithDelta(events, rest, 0)) \in Seq(EventSet(Calls))
        /\ ChatEnd(events) \in Seq(EventSet(Calls))
    BY <1>1, <2>1, ChatEndType
  <2>3. /\ ResponsesEnd(WithDelta(events, rest, 0)) \in Seq(EventSet(Calls))
        /\ ResponsesEnd(events) \in Seq(EventSet(Calls))
    BY <1>1, <2>1, ResponsesEndType
  <2>4. ResponseOutput(Calls, Text) \in Seq(EventSet(Calls))
    BY <1>1, ResponseOutputType
  <2>5. events' \in Seq(EventSet(Calls))
    BY <1>3, <2>2, <2>3, <2>4
  <2> QED
    BY <1>3, <2>5 DEF EventSet
<1>6. TypeOK'
  <2>1. /\ UNCHANGED <<api, stream, request, tools, answer, read, emitted, gate, sends, resent, split>>
        /\ pc = "reading" /\ pc' = "done" /\ calls' \in Nat
    BY <1>1, <1>3 DEF Finish
  <2> QED
    BY <1>4, <1>5, <2>1 DEF TypeInv, TypeOK
<1>7. Begun'
  BY DEF Begun, Finish
<1> QED
  BY <1>6, <1>7 DEF TypeInv

\* Continue keeps the invariant: what was given makes a request.
LEMMA ContinueTypeInv ==
    ASSUME TypeInv, Continue
    PROVE  TypeInv'
<1>1. request' \in RequestSet
  <2>1. answer \in Seq(Token) /\ visible \in Seq(Token)
    BY TypesAreUseful DEF TypeInv, TypeOK
  <2>2. LastExchange \in Seq(TurnSet)
    BY <2>1, LastExchangeType
  <2>3. Function("function", "f") \in ToolSet
    <3> "function" \in Strings /\ "f" \in Strings
      BY AnswerStreamAssumption
    <3> QED
      BY Zenon DEF Function, ToolSet
  <2>4. (IF tools THEN <<Function("function", "f")>> ELSE <<>>) \in Seq(ToolSet)
    BY <2>3
  <2> QED
    BY <2>2, <2>4, PlainRequestType DEF Continue
<1>2. <<>> \in Seq(Token) /\ Len(<<>>) = 0
  BY NoText
<1>3. gate' \in [sent : Seq(Token), buffer : Seq(Token), inFence : BOOLEAN]
  BY ClosedGateType DEF Continue, GateState
<1>4. events' \in Seq([kind : Kinds, index : 0..calls'])
  <2>1. events' = <<>>
    BY DEF Continue
  <2> QED
    BY <2>1, EmptySeq
<1>5. /\ answer' = <<>> /\ read' = 0 /\ emitted' = <<>> /\ visible' = <<>> /\ calls' = 0 /\ sends' = 1
      /\ ~ resent' /\ ~ split' /\ ~ tools' /\ resent' \in BOOLEAN /\ split' \in BOOLEAN /\ tools' \in BOOLEAN
      /\ pc' = "request" /\ UNCHANGED <<api, stream>>
  BY DEF Continue
<1>6. read' \in 0..Len(answer')
  BY <1>2, <1>5
<1>7. TypeOK'
  BY <1>1, <1>2, <1>3, <1>4, <1>5, <1>6, AnswerStreamAssumption DEF TypeInv, TypeOK
<1>8. Begun'
  BY DEF Begun, Continue
<1> QED
  BY <1>7, <1>8 DEF TypeInv

\* So does a step that changes nothing.
LEMMA StutterTypeInv ==
    ASSUME TypeInv, UNCHANGED vars
    PROVE  TypeInv'
BY DEF TypeInv, TypeOK, Begun, vars, textVars

\* The inductive invariant: the types, and what holds before the prompt is sent
\* and until the end (every step of chat.go and responses.go).
THEOREM TypeInvHolds == Spec => []TypeInv
<1>1. TypeInv /\ [Next]_vars => TypeInv'
  BY RefuseTypeInv, SubmitTypeInv, FrameTypeInv, ResendTypeInv, FailTypeInv, FinishTypeInv,
     ContinueTypeInv, StutterTypeInv DEF Next
<1> QED
  BY InitTypeInv, <1>1, PTL DEF Spec

\* The values of the variables have their types.
THEOREM AnswerTypeCorrect == Spec => []TypeOK
BY TypeInvHolds, PTL DEF TypeInv

-----------------------------------------------------------------------------
(* The gate. *)

\* The gate stands where it would after the text in one piece: the deltas that
\* Push was given, in whatever frames they came, do not matter (tools.go:69).
THEOREM AnswerFramesDoNotMatter == Spec => []FramesDoNotMatter
<1>1. TypeInv /\ (pc \in {"request", "refused"}) => FramesDoNotMatter
  BY PushNothing DEF TypeInv, Begun, FramesDoNotMatter
<1>2. Init => FramesDoNotMatter
  BY InitTypeInv, <1>1 DEF Init
<1>3. TypeInv /\ TypeInv' /\ FramesDoNotMatter /\ [Next]_vars => FramesDoNotMatter'
  <2> SUFFICES ASSUME TypeInv, TypeInv', FramesDoNotMatter, [Next]_vars
               PROVE  FramesDoNotMatter'
    OBVIOUS
  <2>1. CASE Refuse
    BY <2>1 DEF Refuse, textVars, FramesDoNotMatter, Gated
  <2>2. CASE Submit
    <3>1. gate' = ClosedGate /\ emitted' = <<>>
      BY <2>2 DEF Submit, textVars, TypeInv, Begun
    <3> QED
      BY <3>1, PushNothing DEF FramesDoNotMatter
  <2>3. ASSUME NEW n \in 1..Len(answer), Frame(n)
        PROVE  FramesDoNotMatter'
    <3> DEFINE delta == IF HasOnContent THEN TrackerDelta(emitted, SubSeq(answer, 1, n)) ELSE <<>>
    <3>1. delta \in Seq(Token) /\ emitted \in Seq(Token)
      <4>1. answer \in Seq(Token) /\ emitted \in Seq(Token)
        BY TypesAreUseful DEF TypeInv, TypeOK
      <4>2. SubSeq(answer, 1, n) \in Seq(Token)
        BY <4>1, BeginningIs, LenProperties
      <4> QED
        BY <4>1, <4>2, TrackerDeltaType, NoText
    <3>2. emitted' = emitted \o delta /\ gate' = IF Gated THEN Push(gate, delta) ELSE gate
      BY <2>3, Zenon DEF Frame
    <3>3. UNCHANGED <<stream, api, tools>>
      BY <2>3 DEF Frame
    <3> HIDE DEF delta
    <3>4. CASE Gated
      <4>1. gate = Push(ClosedGate, emitted)
        BY <3>4 DEF FramesDoNotMatter
      <4>2. gate' = Push(Push(ClosedGate, emitted), delta)
        BY <3>2, <3>4, <4>1
      <4>3. Push(Push(ClosedGate, emitted), delta) = Push(ClosedGate, emitted \o delta)
        BY <3>1, PushInPieces
      <4> QED
        BY <3>2, <4>2, <4>3 DEF FramesDoNotMatter
    <3>5. CASE ~ Gated
      BY <3>3, <3>5 DEF FramesDoNotMatter, Gated
    <3> QED
      BY <3>4, <3>5
  <2>4. CASE Resend
    BY <2>4 DEF Resend, textVars, FramesDoNotMatter, Gated
  <2>5. CASE Fail
    BY <2>5 DEF Fail, textVars, FramesDoNotMatter, Gated
  <2>6. CASE Finish
    BY <2>6 DEF Finish, FramesDoNotMatter, Gated
  <2>7. CASE Continue
    <3>1. gate' = ClosedGate /\ emitted' = <<>>
      BY <2>7 DEF Continue
    <3> QED
      BY <3>1, PushNothing DEF FramesDoNotMatter
  <2>8. CASE UNCHANGED vars
    BY <2>8 DEF vars, textVars, FramesDoNotMatter, Gated
  <2> QED
    BY <2>1, <2>2, <2>3, <2>4, <2>5, <2>6, <2>7, <2>8 DEF Next
<1> QED
  BY <1>2, <1>3, TypeInvHolds, PTL DEF Spec

-----------------------------------------------------------------------------
(* The text the client is given. *)

\* While the answer is read: what is shown is what the gate let through, or all
\* that was passed on, or nothing; and what was passed on begins the result.
Shown ==
    pc = "reading" =>
        /\ ~ HasOnContent => visible = <<>>
        /\ HasOnContent /\ ~ Gated => visible = emitted
        /\ Gated => visible = gate.sent
        /\ ~ split /\ ~ resent => IsPrefix(emitted, ResultText)

\* Nothing has been shown when the prompt goes out.
LEMMA SubmitShown ==
    ASSUME TypeInv, TypeInv', Submit
    PROVE  Shown'
<1>1. /\ emitted' = <<>> /\ visible' = <<>> /\ gate' = ClosedGate
  BY DEF Submit, textVars, TypeInv, Begun
<1>2. ResultText' \in Seq(Token)
  <2>1. answer' \in Seq(Token)
    BY AnswerStreamAssumption DEF Submit
  <2> QED
    BY <2>1, CleanTextType DEF ResultText
<1>3. IsPrefix(<<>>, ResultText')
  BY <1>2, NoText, PrefixLaws
<1>4. gate'.sent = <<>>
  BY <1>1 DEF ClosedGate, Gate
<1> QED
  BY <1>1, <1>3, <1>4 DEF Shown

\* What the tracker passes on brings the text to the one of the frame, or
\* nowhere.
LEMMA TrackerDeltaIs ==
    ASSUME NEW e \in Seq(Token), NEW s \in Seq(Token)
    PROVE  \/ TrackerDelta(e, s) = <<>> /\ e \o TrackerDelta(e, s) = e
           \/ e \o TrackerDelta(e, s) = CleanText(s)
<1> DEFINE c == CleanText(s)
<1>1. c \in Seq(Token)
  BY CleanTextType
<1> HIDE DEF c
<1>2. CASE Len(c) <= Len(e) \/ ~ IsPrefix(e, c)
  <2>1. TrackerDelta(e, s) = <<>>
    BY <1>2 DEF TrackerDelta, c
  <2>2. e \o <<>> = e
    BY ConcatEmptySeq
  <2> QED
    BY <2>1, <2>2
<1>3. CASE ~ (Len(c) <= Len(e) \/ ~ IsPrefix(e, c))
  <2>1. TrackerDelta(e, s) = SubSeq(c, Len(e) + 1, Len(c))
    BY <1>3 DEF TrackerDelta, c
  <2>2. e \o SubSeq(c, Len(e) + 1, Len(c)) = c
    BY <1>1, <1>3, PrefixIs
  <2> QED
    BY <2>1, <2>2 DEF c
<1> QED
  BY <1>2, <1>3

\* A frame passes on a piece of the text that comes next.
LEMMA FrameShown ==
    ASSUME TypeInv, TypeInv', Shown, NEW n \in 1..Len(answer), Frame(n)
    PROVE  Shown'
<1> DEFINE cumulative == SubSeq(answer, 1, n)
           delta == IF HasOnContent THEN TrackerDelta(emitted, cumulative) ELSE <<>>
           pushed == IF Gated THEN Push(gate, delta) ELSE gate
           shown == IF Gated THEN SubSeq(pushed.sent, Len(gate.sent) + 1, Len(pushed.sent)) ELSE delta
<1>1. /\ answer \in Seq(Token) /\ Len(answer) \in Nat /\ gate \in GateState
      /\ emitted \in Seq(Token) /\ visible \in Seq(Token)
      /\ ResultText \in Seq(Token) /\ cumulative \in Seq(Token) /\ n \in 0..Len(answer)
  <2>1. answer \in Seq(Token) /\ Len(answer) \in Nat /\ n \in 0..Len(answer)
    BY TypesAreUseful DEF TypeInv
  <2>2. cumulative \in Seq(Token)
    BY <2>1, BeginningIs
  <2> QED
    BY <2>1, <2>2, TypesAreUseful DEF TypeInv, TypeOK
<1> HIDE DEF cumulative
<1>2. delta \in Seq(Token)
  BY <1>1, TrackerDeltaType, NoText
<1>3. /\ pc = "reading" /\ UNCHANGED <<api, stream, pc, tools, answer, resent>>
      /\ split' = (split \/ Torn(n))
  BY DEF Frame
<1>4. /\ emitted' = emitted \o delta /\ gate' = pushed /\ visible' = visible \o shown
  BY Zenon DEF Frame, delta, pushed, shown, cumulative
<1>5. HasOnContent' = HasOnContent /\ Gated' = Gated /\ ResultText' = ResultText
  BY <1>3 DEF HasOnContent, Gated, ResultText
<1>6. ~ HasOnContent => visible' = <<>>
  <2>1. SUFFICES ASSUME ~ HasOnContent
                 PROVE  visible' = <<>>
    OBVIOUS
  <2>2. ~ Gated
    BY <2>1 DEF HasOnContent, Gated
  <2>3. shown = <<>> /\ visible = <<>>
    BY <1>3, <2>1, <2>2 DEF Shown
  <2>4. <<>> \o <<>> = <<>>
    BY NoText, ConcatEmptySeq
  <2> QED
    BY <1>4, <2>3, <2>4
<1>7. HasOnContent /\ ~ Gated => visible' = emitted'
  BY <1>3, <1>4 DEF Shown
<1>8. Gated => visible' = gate'.sent
  <2>1. SUFFICES ASSUME Gated
                 PROVE  visible' = gate'.sent
    OBVIOUS
  <2> HIDE DEF delta
  <2>2. gate' = Push(gate, delta) /\ gate' \in GateState
    BY <1>1, <1>2, <1>4, <2>1, PushType
  <2>3. gate.sent \in Seq(Token) /\ gate'.sent \in Seq(Token)
    BY <1>1, <2>2 DEF GateState
  <2>4. IsPrefix(gate.sent, gate'.sent)
    BY <1>1, <1>2, <2>2, PushSendsMore
  <2>5. gate.sent \o SubSeq(gate'.sent, Len(gate.sent) + 1, Len(gate'.sent)) = gate'.sent
    BY <2>3, <2>4, PrefixIs
  <2>6. visible = gate.sent
    BY <1>3, <2>1 DEF Shown
  <2>7. shown = SubSeq(gate'.sent, Len(gate.sent) + 1, Len(gate'.sent))
    BY <1>4, <2>1
  <2> QED
    BY <1>4, <2>5, <2>6, <2>7
<1>9. ~ split' /\ ~ resent' => IsPrefix(emitted', ResultText')
  <2>1. SUFFICES ASSUME ~ split', ~ resent'
                 PROVE  IsPrefix(emitted \o delta, ResultText)
    BY <1>4, <1>5
  <2>2. IsPrefix(emitted, ResultText)
    BY <1>3, <2>1 DEF Shown
  <2>3. Uncut(answer, n)
    BY <1>3, <2>1 DEF Torn, Uncut
  <2>4. IsPrefix(CleanText(cumulative), ResultText)
    BY <1>1, <2>3, CleanTextGrows DEF ResultText, cumulative
  <2>5. CASE HasOnContent
    BY <1>1, <2>2, <2>4, <2>5, TrackerDeltaIs
  <2>6. CASE ~ HasOnContent
    <3>1. emitted \o delta = emitted
      BY <1>1, <2>6, ConcatEmptySeq
    <3> QED
      BY <2>2, <3>1
  <2> QED
    BY <2>5, <2>6
<1> QED
  BY <1>5, <1>6, <1>7, <1>8, <1>9 DEF Shown

\* A resend changes nothing of what was shown.
LEMMA ResendShown ==
    ASSUME TypeInv, TypeInv', Shown, Resend
    PROVE  Shown'
<1>1. /\ pc = "reading" /\ UNCHANGED <<api, stream, tools, emitted, gate, visible, split>>
      /\ resent' = (resent \/ emitted # <<>>)
  BY DEF Resend, textVars
<1>2. ResultText' \in Seq(Token)
  <2>1. answer' \in Seq(Token)
    BY AnswerStreamAssumption DEF Resend
  <2> QED
    BY <2>1, CleanTextType DEF ResultText
<1>3. ~ resent' => IsPrefix(emitted', ResultText')
  <2>1. IsPrefix(<<>>, ResultText')
    BY <1>2, NoText, PrefixLaws
  <2> QED
    BY <1>1, <2>1
<1> QED
  BY <1>1, <1>3 DEF Shown, HasOnContent, Gated

\* What was shown is what was passed on, or what the gate has sent of it; and,
\* without a resend or a torn artifact, the beginning of the answer (parser.go:31).
THEOREM ShownHolds == Spec => []Shown
<1>1. Init => Shown
  BY DEF Init, Shown
<1>2. TypeInv /\ TypeInv' /\ Shown /\ [Next]_vars => Shown'
  <2> SUFFICES ASSUME TypeInv, TypeInv', Shown, [Next]_vars
               PROVE  Shown'
    OBVIOUS
  <2>1. CASE Refuse
    BY <2>1 DEF Refuse, Shown
  <2>2. CASE Submit
    BY <2>2, SubmitShown
  <2>3. ASSUME NEW n \in 1..Len(answer), Frame(n)
        PROVE  Shown'
    BY <2>3, FrameShown
  <2>4. CASE Resend
    BY <2>4, ResendShown
  <2>5. CASE Fail
    BY <2>5 DEF Fail, Shown
  <2>6. CASE Finish
    BY <2>6 DEF Finish, Shown
  <2>7. CASE Continue
    BY <2>7 DEF Continue, Shown
  <2>8. CASE UNCHANGED vars
    BY <2>8 DEF vars, textVars, Shown, HasOnContent, Gated, ResultText
  <2> QED
    BY <2>1, <2>2, <2>3, <2>4, <2>5, <2>6, <2>7, <2>8 DEF Next
<1> QED
  BY <1>1, <1>2, TypeInvHolds, PTL DEF Spec

\* What has been shown begins the text that is given at the end.
LEMMA ShownBegins ==
    ASSUME TypeInv, Shown, FramesDoNotMatter, pc = "reading", HasOnContent, ~ resent, ~ split,
           Gated => \A i \in DOMAIN ResultText : ~ Opens(ResultText, i)
    PROVE  IsPrefix(visible, Text)
<1>1. /\ emitted \in Seq(Token) /\ visible \in Seq(Token) /\ answer \in Seq(Token)
      /\ ResultText \in Seq(Token) /\ DOMAIN ResultText = 1..Len(ResultText)
  <2>1. answer \in Seq(Token) /\ ResultText \in Seq(Token)
    BY TypesAreUseful DEF TypeInv
  <2> QED
    BY <2>1, LenProperties DEF TypeInv, TypeOK
<1>2. IsPrefix(emitted, ResultText)
  BY DEF Shown
<1>3. CASE ~ Gated
  <2>1. ~ tools
    BY <1>3 DEF TypeInv, TypeOK, HasOnContent, Gated
  <2> QED
    BY <1>2, <1>3, <2>1 DEF Shown, Text
<1>4. CASE Gated
  <2>1. Plain(ResultText)
    BY <1>1, <1>4 DEF Plain, Opens
  <2>2. IsPrefix(Push(ClosedGate, emitted).sent, emitted)
    BY <1>1, <1>2, <2>1, BeginningIsPlain, PlainIsStreamed
  <2>3. visible = Push(ClosedGate, emitted).sent
    BY <1>4 DEF Shown, FramesDoNotMatter
  <2>4. IsPrefix(visible, ResultText)
    BY <1>1, <1>2, <2>2, <2>3, PrefixLaws
  <2>5. Text = ResultText
    <3>1. tools
      BY <1>4 DEF Gated
    <3>2. VisibleText(ResultText) = TrimSpace(ResultText)
      BY <1>1, <2>1, PlainIsVisible
    <3>3. Without(answer, ArtifactEnd(answer)) \in Seq(Token)
      BY <1>1, ArtifactEndType, WithoutType
    <3>4. TrimSpace(ResultText) = ResultText
      BY <3>3, TrimSpaceTwice DEF ResultText, CleanText
    <3> QED
      BY <3>1, <3>2, <3>4 DEF Text
  <2> QED
    BY <2>4, <2>5
<1> QED
  BY <1>3, <1>4

\* The client is given the whole answer, what the gate held back included
\* (parser.go:31, tools.go:114): what was passed on begins the result
\* (CleanTextGrows), the gate has let through a beginning of it, and
\* remainingText is the rest.
THEOREM AnswerGivenWhole == Spec => []AnswerIsWhole
<1>1. Init => AnswerIsWhole
  BY DEF Init, AnswerIsWhole
<1>2. TypeInv /\ Shown /\ FramesDoNotMatter /\ AnswerIsWhole /\ [Next]_vars => AnswerIsWhole'
  <2> SUFFICES ASSUME TypeInv, Shown, FramesDoNotMatter, AnswerIsWhole, [Next]_vars
               PROVE  AnswerIsWhole'
    OBVIOUS
  <2>1. CASE Refuse
    BY <2>1 DEF Refuse, AnswerIsWhole
  <2>2. CASE Submit
    BY <2>2 DEF Submit, AnswerIsWhole
  <2>3. ASSUME NEW n \in 1..Len(answer), Frame(n)
        PROVE  AnswerIsWhole'
    BY <2>3 DEF Frame, AnswerIsWhole
  <2>4. CASE Resend
    BY <2>4 DEF Resend, AnswerIsWhole
  <2>5. CASE Fail
    BY <2>5 DEF Fail, AnswerIsWhole
  <2>6. CASE Finish
    <3>1. SUFFICES ASSUME ~ resent', ~ split',
                          Gated' => \A i \in DOMAIN ResultText' : ~ Opens(ResultText', i)
                   PROVE  visible' = Text'
      BY DEF AnswerIsWhole, Opens, At
    <3>2. /\ pc = "reading" /\ UNCHANGED <<api, stream, tools, answer, resent, split>>
          /\ visible' = visible \o (IF HasOnContent THEN RemainingText(Text, visible) ELSE Text)
      BY <2>6 DEF Finish
    <3>3. Text' = Text /\ Gated' = Gated /\ ResultText' = ResultText
      BY <3>2 DEF Text, Gated, ResultText
    <3>4. visible \in Seq(Token) /\ Text \in Seq(Token)
      BY TypesAreUseful DEF TypeInv, TypeOK
    <3>5. CASE HasOnContent
      <4>1. IsPrefix(visible, Text)
        BY <3>1, <3>2, <3>3, <3>5, ShownBegins
      <4>2. visible \o RemainingText(Text, visible) = Text
        BY <3>4, <4>1, PrefixIs DEF RemainingText
      <4> QED
        BY <3>2, <3>3, <3>5, <4>2
    <3>6. CASE ~ HasOnContent
      <4>1. visible = <<>>
        BY <3>2, <3>6 DEF Shown
      <4>2. <<>> \o Text = Text
        BY <3>4, ConcatEmptySeq
      <4> QED
        BY <3>2, <3>3, <3>6, <4>1, <4>2
    <3> QED
      BY <3>5, <3>6
  <2>7. CASE Continue
    BY <2>7 DEF Continue, AnswerIsWhole
  <2>8. CASE UNCHANGED vars
    BY <2>8 DEF vars, textVars, AnswerIsWhole, Gated, ResultText, Text
  <2> QED
    BY <2>1, <2>2, <2>3, <2>4, <2>5, <2>6, <2>7, <2>8 DEF Next
<1> QED
  BY <1>1, <1>2, TypeInvHolds, ShownHolds, AnswerFramesDoNotMatter, PTL DEF Spec

-----------------------------------------------------------------------------
(* The prompt. *)

\* Sequences of one element each.
LEMMA FlattenSingletons ==
    ASSUME NEW S, NEW n \in Nat, NEW f \in [1..n -> S]
    PROVE  FlattenSeq([i \in 1..n |-> <<f[i]>>]) = f
<1> DEFINE seqs == [i \in 1..n |-> <<f[i]>>]
           g == [k \in 0..n |-> [i \in 1..k |-> f[i]]]
<1>1. \A i \in 1..n : f[i] \in S
  OBVIOUS
<1>2. seqs \in Seq(Seq(S)) /\ Len(seqs) = n
  <2>1. \A i \in 1..n : <<f[i]>> \in Seq(S)
    BY <1>1
  <2> QED
    BY <2>1
<1>3. g \in [0..n -> Seq(S)]
  <2>1. ASSUME NEW k \in 0..n
        PROVE  [i \in 1..k |-> f[i]] \in Seq(S)
    <3>1. \A i \in 1..k : f[i] \in S
      BY <1>1
    <3> QED
      BY <3>1
  <2> QED
    BY <2>1
<1>4. ASSUME NEW k \in 0..n
      PROVE  g[k] = IF k = 0 THEN <<>> ELSE Appending(S, seqs)[k][g[k - 1]]
  <2>1. CASE k = 0
    <3>1. 1..0 = {} /\ g[0] = [i \in 1..0 |-> f[i]]
      BY <2>1
    <3>2. g[0] \in Seq(S) /\ Len(g[0]) = 0
      BY <3>1
    <3> QED
      BY <2>1, <3>2, EmptySeq
  <2>2. CASE k # 0
    <3> DEFINE u == [i \in 1..k - 1 |-> f[i]]
               v == [i \in 1..k |-> f[i]]
    <3>1. k \in 1..n /\ k - 1 \in 0..n
      BY <2>2
    <3>2. g[k - 1] = u /\ g[k] = v /\ u \in Seq(S) /\ v \in Seq(S) /\ <<f[k]>> \in Seq(S)
      BY <1>1, <1>3, <3>1
    <3>3. Appending(S, seqs)[k][u] = u \o <<f[k]>>
      BY <1>2, <3>1, <3>2 DEF Appending
    <3>4. u \o <<f[k]>> = v
      <4>1. Len(u) = k - 1 /\ Len(v) = k
        BY <3>1
      <4>2. u \o <<f[k]>> \in Seq(S) /\ Len(u \o <<f[k]>>) = k
        BY <3>1, <3>2, <4>1
      <4>3. \A i \in 1..k : (u \o <<f[k]>>)[i] = v[i]
        BY <3>1, <3>2, <4>1
      <4> DEFINE w == u \o <<f[k]>>
      <4>4. w \in Seq(S) /\ v \in Seq(S) /\ Len(w) = Len(v) /\ \A i \in 1..Len(w) : w[i] = v[i]
        BY <3>2, <4>1, <4>2, <4>3
      <4> HIDE DEF v, w
      <4>5. w = v
        BY <4>4, SeqEqual
      <4> QED
        BY <4>5 DEF w
    <3> QED
      BY <2>2, <3>2, <3>3, <3>4
  <2> QED
    BY <2>1, <2>2
<1>5. Recursion(g, Len(seqs), <<>>, Appending(S, seqs))
  <2>1. g = [k \in 0..n |-> g[k]]
    OBVIOUS
  <2> HIDE DEF g, seqs
  <2> QED
    BY <1>2, <1>4, <2>1 DEF Recursion
<1>6. FlattenSeq(seqs) = g[n]
  <2> HIDE DEF g, seqs
  <2> QED
    BY <1>2, <1>3, <1>5, FlattenIs
<1>7. g[n] = f
  OBVIOUS
<1> QED
  BY <1>6, <1>7

\* The item of a turn a Responses client can say, and the section of its message.
LEMMA ItemIsTurn ==
    ASSUME NEW turn \in TurnSet, turn.calls = <<>>,
           turn.role = "tool" => Len(turn.content) = 1 /\ turn.content[1].type = "text"
    PROVE  \E item :
              /\ ItemsOfTurn(turn) = <<item>>
              /\ MessageOfItem(item).content = turn.content
              /\ SectionOf(MessageOfItem(item)) = SectionOf(turn)
<1>1. CASE turn.role = "tool"
  <2> DEFINE item == Item("function_call_output", "", turn.content)
  <2>1. ItemsOfTurn(turn) = <<item>>
    BY <1>1 DEF ItemsOfTurn
  <2>2. item.type = "function_call_output" /\ item.content = turn.content
    BY DEF Item
  <2>3. OutputText(turn.content) = turn.content
    BY <1>1 DEF OutputText
  <2> HIDE DEF item
  <2>4. MessageOfItem(item) = Message("tool", turn.content, <<>>)
    BY <2>2, <2>3 DEF MessageOfItem
  <2>5. /\ Message("tool", turn.content, <<>>).content = turn.content
        /\ Message("tool", turn.content, <<>>).role = "tool"
    BY DEF Message
  <2>6. SectionOf(Message("tool", turn.content, <<>>)) = SectionOf(turn)
    BY <1>1, <2>5 DEF SectionOf
  <2> QED
    BY <2>1, <2>4, <2>5, <2>6
<1>2. CASE turn.role # "tool"
  <2> DEFINE item == Item("message", turn.role, turn.content)
             m == Message(IF turn.role = "" THEN "user" ELSE turn.role, turn.content, <<>>)
  <2>1. ItemsOfTurn(turn) = <<item>>
    <3>1. [i \in DOMAIN turn.calls |-> Item("function_call", "", <<>>)] = <<>>
      BY EmptySeq
    <3>2. <<item>> \o <<>> = <<item>>
      OBVIOUS
    <3>3. ItemsOfTurn(turn) = <<item>> \o [i \in DOMAIN turn.calls |-> Item("function_call", "", <<>>)]
      BY <1>2 DEF ItemsOfTurn
    <3> QED
      BY <3>1, <3>2, <3>3
  <2>2. /\ item.type = "message" /\ item.content = turn.content /\ item.role = turn.role
        /\ item.calls = <<>>
    BY DEF Item
  <2> HIDE DEF item
  <2>3. MessageOfItem(item) = m
    BY <2>2 DEF MessageOfItem
  <2>4. /\ m.role = IF turn.role = "" THEN "user" ELSE turn.role
        /\ m.content = turn.content /\ m.calls = <<>>
    BY DEF Message
  <2> HIDE DEF m
  <2>5. AssistantText(m) = AssistantText(turn)
    BY <2>4 DEF AssistantText
  <2>6. SectionOf(m) = SectionOf(turn)
    <3>1. CASE turn.role = ""
      BY <3>1, <2>4 DEF SectionOf
    <3>2. CASE turn.role # ""
      BY <1>2, <3>2, <2>4, <2>5 DEF SectionOf
    <3> QED
      BY <3>1, <3>2
  <2> QED
    BY <2>1, <2>3, <2>4, <2>6
<1> QED
  BY <1>1, <1>2

\* The same for the conversation.
LEMMA ConversationsAgree ==
    ASSUME request \in RequestSet, SaidByBoth
    PROVE  LET items == FlattenSeq([i \in DOMAIN request.turns |-> ItemsOfTurn(request.turns[i])])
           IN  MessagesToPrompt(ResponsesInputToMessages(items), request.tools, request.choice)
                 = MessagesToPrompt(request.turns, request.tools, request.choice)
<1> DEFINE turns == request.turns
           n == Len(turns)
           ItemOf(i) == CHOOSE item : /\ ItemsOfTurn(turns[i]) = <<item>>
                                      /\ MessageOfItem(item).content = turns[i].content
                                      /\ SectionOf(MessageOfItem(item)) = SectionOf(turns[i])
           items == [i \in 1..n |-> ItemOf(i)]
           messages == ResponsesInputToMessages(items)
<1>1. turns \in Seq(TurnSet)
  BY DEF RequestSet
<1>2. n \in Nat /\ DOMAIN turns = 1..n /\ \A i \in 1..n : turns[i] \in TurnSet
  BY <1>1, LenProperties, ElementOfSeq
<1>3. ASSUME NEW i \in 1..n
      PROVE  /\ ItemsOfTurn(turns[i]) = <<ItemOf(i)>>
             /\ MessageOfItem(ItemOf(i)).content = turns[i].content
             /\ SectionOf(MessageOfItem(ItemOf(i))) = SectionOf(turns[i])
  <2>1. /\ turns[i].calls = <<>>
        /\ turns[i].role = "tool" => Len(turns[i].content) = 1 /\ turns[i].content[1].type = "text"
    BY <1>2 DEF SaidByBoth
  <2>2. \E item : /\ ItemsOfTurn(turns[i]) = <<item>>
                  /\ MessageOfItem(item).content = turns[i].content
                  /\ SectionOf(MessageOfItem(item)) = SectionOf(turns[i])
    <3>1. turns[i] \in TurnSet
      BY <1>2
    <3> DEFINE turn == turns[i]
    <3> HIDE DEF turn
    <3>2. turn = turns[i]
      BY DEF turn
    <3>3. \E item : /\ ItemsOfTurn(turn) = <<item>>
                    /\ MessageOfItem(item).content = turn.content
                    /\ SectionOf(MessageOfItem(item)) = SectionOf(turn)
      BY <2>1, <3>1, <3>2, ItemIsTurn
    <3> QED
      BY <3>2, <3>3
  <2> QED
    BY <2>2, Zenon
<1> HIDE DEF ItemOf
<1>4. FlattenSeq([i \in DOMAIN turns |-> ItemsOfTurn(turns[i])]) = items
  <2>1. [i \in DOMAIN turns |-> ItemsOfTurn(turns[i])] = [i \in 1..n |-> <<items[i]>>]
    BY <1>2, <1>3
  <2> DEFINE S == {items[i] : i \in 1..n}
  <2>2. items \in [1..n -> S]
    OBVIOUS
  <2> HIDE DEF items, n, S
  <2>3. FlattenSeq([i \in 1..n |-> <<items[i]>>]) = items
    BY <1>2, <2>2, FlattenSingletons
  <2> QED
    BY <2>1, <2>3
<1>5. /\ DOMAIN messages = 1..n
      /\ \A i \in 1..n : messages[i] = MessageOfItem(ItemOf(i))
  BY DEF ResponsesInputToMessages
<1> HIDE DEF messages, items
<1>6. /\ \A i \in 1..n : messages[i].content = turns[i].content
      /\ \A i \in 1..n : SectionOf(messages[i]) = SectionOf(turns[i])
  BY <1>3, <1>5
<1>7. (\E i \in DOMAIN messages : Unsupported(messages[i].content))
        <=> (\E i \in DOMAIN turns : Unsupported(turns[i].content))
  BY <1>2, <1>5, <1>6
<1>8. [i \in DOMAIN messages |-> SectionOf(messages[i])] = [i \in DOMAIN turns |-> SectionOf(turns[i])]
  BY <1>2, <1>5, <1>6
<1>9. MessagesToPrompt(messages, request.tools, request.choice)
        = MessagesToPrompt(turns, request.tools, request.choice)
  BY <1>7, <1>8 DEF MessagesToPrompt
<1> QED
  BY <1>4, <1>9 DEF messages

\* A conversation that both endpoints can express gets one prompt, or is refused
\* by both (prompt.go:15, prompt.go:68).
THEOREM EndpointsGiveOnePrompt == Spec => []EndpointsAgree
<1>1. TypeInv => EndpointsAgree
  <2> SUFFICES ASSUME TypeInv, SaidByBoth
               PROVE  LET chat == ChatPrompt(request)
                          responses == ResponsesPrompt(request)
                      IN  \/ chat = responses
                          \/ chat = Refused("empty_prompt") /\ responses = Refused("empty_input")
    BY DEF EndpointsAgree
  <2> DEFINE prompt == MessagesToPrompt(request.turns, request.tools, request.choice)
  <2>1. request \in RequestSet /\ request.n \in Nat
    BY DEF TypeInv, TypeOK, RequestSet
  <2>2. ResponsesPrompt(request) = NotEmpty(prompt, "empty_input")
    BY <2>1, ConversationsAgree DEF ResponsesPrompt
  <2>3. ChatPrompt(request) = NotEmpty(prompt, "empty_prompt")
    BY <2>1 DEF ChatPrompt, SaidByBoth
  <2> HIDE DEF prompt
  <2> QED
    BY <2>2, <2>3 DEF NotEmpty
<1> QED
  BY <1>1, TypeInvHolds, PTL

-----------------------------------------------------------------------------
(* The life cycle of a Responses stream. *)

StageSet == [phase : {"between", "item", "part", "over", "wrong"}, next : Nat]

\* The life cycle, event by event.
LEMMA Transitions ==
    ASSUME NEW n \in Nat
    PROVE  /\ AfterEvent(Stage("between", 0), Event("created", 0)) = Stage("between", 0)
           /\ AfterEvent(Stage("between", 0), Event("in_progress", 0)) = Stage("between", 0)
           /\ AfterEvent(Stage("between", n), Event("item.added", n)) = Stage("item", n)
           /\ AfterEvent(Stage("item", n), Event("part.added", n)) = Stage("part", n)
           /\ AfterEvent(Stage("item", n), Event("arguments", n)) = Stage("item", n)
           /\ AfterEvent(Stage("item", n), Event("arguments.done", n)) = Stage("item", n)
           /\ AfterEvent(Stage("item", n), Event("function.done", n)) = Stage("between", n + 1)
           /\ AfterEvent(Stage("part", n), Event("delta", n)) = Stage("part", n)
           /\ AfterEvent(Stage("part", n), Event("text.done", n)) = Stage("part", n)
           /\ AfterEvent(Stage("part", n), Event("part.done", n)) = Stage("item", n)
           /\ AfterEvent(Stage("item", n), Event("message.done", n)) = Stage("between", n + 1)
           /\ n > 0 => AfterEvent(Stage("between", n), Event("completed", 0)) = Stage("over", n)
           /\ AfterEvent(Stage("between", n), Event("failed", 0)) = Stage("over", n)
           /\ AfterEvent(Stage("part", n), Event("failed", 0)) = Stage("over", n)
<1>1. \A p, k : /\ Stage(p, n).phase = p /\ Stage(p, n).next = n
                /\ Stage(p, 0).phase = p /\ Stage(p, 0).next = 0
                /\ Event(k, n).kind = k /\ Event(k, n).index = n
                /\ Event(k, 0).kind = k /\ Event(k, 0).index = 0
  BY DEF Stage, Event
<1> HIDE DEF Stage, Event
<1>2. /\ AfterEvent(Stage("between", 0), Event("created", 0)) = Stage("between", 0)
      /\ AfterEvent(Stage("between", 0), Event("in_progress", 0)) = Stage("between", 0)
  BY <1>1 DEF AfterEvent, PhaseAfter, Closing
<1>3. /\ AfterEvent(Stage("between", n), Event("item.added", n)) = Stage("item", n)
      /\ AfterEvent(Stage("item", n), Event("part.added", n)) = Stage("part", n)
  BY <1>1 DEF AfterEvent, PhaseAfter, Closing
<1>4. /\ AfterEvent(Stage("item", n), Event("arguments", n)) = Stage("item", n)
      /\ AfterEvent(Stage("item", n), Event("arguments.done", n)) = Stage("item", n)
  BY <1>1 DEF AfterEvent, PhaseAfter, Closing
<1>5. /\ AfterEvent(Stage("item", n), Event("function.done", n)) = Stage("between", n + 1)
      /\ AfterEvent(Stage("item", n), Event("message.done", n)) = Stage("between", n + 1)
  BY <1>1 DEF AfterEvent, PhaseAfter, Closing
<1>6. /\ AfterEvent(Stage("part", n), Event("delta", n)) = Stage("part", n)
      /\ AfterEvent(Stage("part", n), Event("text.done", n)) = Stage("part", n)
  BY <1>1 DEF AfterEvent, PhaseAfter, Closing
<1>7. AfterEvent(Stage("part", n), Event("part.done", n)) = Stage("item", n)
  BY <1>1 DEF AfterEvent, PhaseAfter, Closing
<1>8. n > 0 => AfterEvent(Stage("between", n), Event("completed", 0)) = Stage("over", n)
  BY <1>1 DEF AfterEvent, PhaseAfter, Closing
<1>9. /\ AfterEvent(Stage("between", n), Event("failed", 0)) = Stage("over", n)
      /\ AfterEvent(Stage("part", n), Event("failed", 0)) = Stage("over", n)
  BY <1>1 DEF AfterEvent, PhaseAfter, Closing
<1> QED
  BY <1>2, <1>3, <1>4, <1>5, <1>6, <1>7, <1>8, <1>9

\* An event leads from a stage to a stage.
LEMMA AfterEventType ==
    ASSUME NEW st \in StageSet, NEW e
    PROVE  AfterEvent(st, e) \in StageSet
<1>1. PhaseAfter(st, e) \in {"between", "item", "part", "over", "wrong"}
  BY DEF PhaseAfter
<1>2. st.next \in Nat
  BY DEF StageSet
<1> HIDE DEF PhaseAfter
<1> QED
  BY <1>1, <1>2 DEF AfterEvent, Stage, StageSet

Passing(es) == [k \in 1..Len(es) |-> [st \in StageSet |-> AfterEvent(st, es[k])]]

\* LifeCycle passes the events one after the other.
LEMMA LifeCycleIs ==
    ASSUME NEW S, NEW es \in Seq(S)
    PROVE  \E g \in [0..Len(es) -> StageSet] :
              Recursion(g, Len(es), Stage("between", 0), Passing(es)) /\ LifeCycle(es) = g[Len(es)]
<1> DEFINE n == Len(es)
           first == Stage("between", 0)
           Solves(c) == c = [k \in 0..n |-> IF k = 0 THEN first ELSE AfterEvent(c[k - 1], es[k])]
           c == CHOOSE d : Solves(d)
<1>1. n \in Nat /\ first \in StageSet
  BY LenProperties DEF Stage, StageSet
<1>2. Passing(es) \in [1..n -> [StageSet -> StageSet]]
  BY AfterEventType DEF Passing
<1>3. PICK g \in [0..n -> StageSet] : Recursion(g, n, first, Passing(es))
  <2> DEFINE step == Passing(es)
  <2>1. step \in [1..n -> [StageSet -> StageSet]]
    BY <1>2
  <2>2. \E g \in [0..n -> StageSet] : Recursion(g, n, first, step)
    <3> HIDE DEF n, first, step
    <3> QED
      BY <1>1, <2>1, RecursionExists
  <2> QED
    BY <2>2
<1>4. ASSUME NEW k \in 0..n
      PROVE  g[k] = IF k = 0 THEN first ELSE AfterEvent(g[k - 1], es[k])
  <2>1. g[k] = IF k = 0 THEN first ELSE Passing(es)[k][g[k - 1]]
    BY <1>3 DEF Recursion
  <2>2. CASE k = 0
    BY <2>1, <2>2
  <2>3. CASE k # 0
    <3>1. k \in 1..n /\ g[k - 1] \in StageSet
      BY <1>1, <2>3
    <3>2. Passing(es)[k][g[k - 1]] = AfterEvent(g[k - 1], es[k])
      BY <3>1 DEF Passing
    <3> QED
      BY <2>1, <2>3, <3>2
  <2> QED
    BY <2>2, <2>3
<1>5. Solves(g)
  <2>1. g = [k \in 0..n |-> g[k]]
    OBVIOUS
  <2> QED
    BY <1>4, <2>1
<1>6. Solves(c)
  BY <1>5, Zenon
<1>7. LifeCycle(es) = c[n]
  BY Zenon DEF LifeCycle
<1>8. \A k \in 0..n : c[k] = IF k = 0 THEN first ELSE AfterEvent(c[k - 1], es[k])
  <2> HIDE DEF c
  <2> QED
    BY <1>6
<1> HIDE DEF c, first
<1> DEFINE T == {k \in 1..n : c[k] = g[k]}
<1>9. c[0] = g[0]
  BY <1>1, <1>4, <1>8
<1>10. ASSUME NEW k \in 1..n, \A j \in 1..k - 1 : j \in T
       PROVE  k \in T
  <2>1. c[k - 1] = g[k - 1]
    <3>1. CASE k = 1
      BY <1>9, <3>1
    <3>2. CASE k # 1
      <4>1. k - 1 \in 1..k - 1
        BY <3>2
      <4> QED
        BY <4>1, <1>10
    <3> QED
      BY <3>1, <3>2
  <2>2. k \in 0..n /\ k # 0
    OBVIOUS
  <2> QED
    BY <1>4, <1>8, <2>1, <2>2
<1>11. 1..n \subseteq T
  <2> HIDE DEF T
  <2> QED
    BY <1>1, <1>10, Upward
<1>12. c[n] = g[n]
  <2>1. CASE n = 0
    BY <1>9, <2>1
  <2>2. CASE n # 0
    <3>1. n \in 1..n
      BY <1>1, <2>2
    <3> QED
      BY <3>1, <1>11
  <2> QED
    BY <2>1, <2>2
<1> QED
  BY <1>3, <1>7, <1>12 DEF first

\* Before the first event.
LEMMA LifeCycleNothing == LifeCycle(<<>>) = Stage("between", 0)
<1>1. <<>> \in Seq(Nat) /\ Len(<<>>) = 0
  BY EmptySeq
<1>2. PICK g \in [0..0 -> StageSet] :
          Recursion(g, 0, Stage("between", 0), Passing(<<>>)) /\ LifeCycle(<<>>) = g[0]
  BY <1>1, LifeCycleIs
<1> QED
  BY <1>2 DEF Recursion

\* One more event.
LEMMA LifeCycleAppend ==
    ASSUME NEW S, NEW es \in Seq(S), NEW e \in S
    PROVE  LifeCycle(Append(es, e)) = AfterEvent(LifeCycle(es), e)
<1> DEFINE fs == Append(es, e)
           n == Len(es)
           first == Stage("between", 0)
<1>1. /\ n \in Nat /\ fs \in Seq(S) /\ Len(fs) = n + 1
      /\ fs[n + 1] = e /\ \A k \in 1..n : fs[k] = es[k]
  BY AppendProperties, LenProperties
<1>2. PICK g \in [0..n -> StageSet] :
          Recursion(g, n, first, Passing(es)) /\ LifeCycle(es) = g[n]
  BY LifeCycleIs
<1>3. PICK h \in [0..n + 1 -> StageSet] :
          Recursion(h, n + 1, first, Passing(fs)) /\ LifeCycle(fs) = h[n + 1]
  <2>1. \E h \in [0..Len(fs) -> StageSet] :
            Recursion(h, Len(fs), first, Passing(fs)) /\ LifeCycle(fs) = h[Len(fs)]
    BY <1>1, LifeCycleIs
  <2> QED
    BY <1>1, <2>1
<1>4. h[n] = g[n]
  <2> DEFINE step == Passing(fs)
             skip == Passing(es)
  <2>1. n + 1 \in Nat /\ n \in 0..n + 1
    BY <1>1
  <2>2. SameSteps(n, step, skip)
    BY <1>1 DEF Passing, SameSteps
  <2>3. Recursion(h, n + 1, first, step) /\ Recursion(g, n, first, skip)
    BY <1>2, <1>3
  <2> HIDE DEF n, step, skip, first
  <2>4. ASSUME NEW p, NEW q, Recursion(p, n + 1, first, step), Recursion(q, n, first, skip)
        PROVE  p[n] = q[n]
    BY <2>1, <2>2, <2>4, RecursionUnique
  <2> QED
    BY <2>3, <2>4
<1>5. h[n + 1] = AfterEvent(h[n], e)
  <2>1. h[n + 1] = Passing(fs)[n + 1][h[n + 1 - 1]]
    BY <1>1, <1>3 DEF Recursion
  <2>2. h[n] \in StageSet /\ n + 1 \in 1..Len(fs) /\ n + 1 - 1 = n
    BY <1>1
  <2>3. Passing(fs)[n + 1][h[n]] = AfterEvent(h[n], fs[n + 1])
    BY <2>2 DEF Passing
  <2> QED
    BY <1>1, <2>1, <2>2, <2>3
<1> QED
  BY <1>2, <1>3, <1>4, <1>5

\* One more event closes one more item, or none.
LEMMA ClosedAppend ==
    ASSUME NEW S, NEW es \in Seq(S), NEW e \in S
    PROVE  /\ Closed(Append(es, e)) = Closed(es) \o IF e.kind \in Closing THEN <<e>> ELSE <<>>
           /\ Closed(es) \in Seq(S)
<1> DEFINE fs == Append(es, e)
           n == Len(es)
           some == [i \in DOMAIN es |-> IF es[i].kind \in Closing THEN <<es[i]>> ELSE <<>>]
           seqs == [i \in DOMAIN fs |-> IF fs[i].kind \in Closing THEN <<fs[i]>> ELSE <<>>]
<1>1. /\ n \in Nat /\ fs \in Seq(S) /\ Len(fs) = n + 1 /\ DOMAIN fs = 1..n + 1 /\ DOMAIN es = 1..n
      /\ fs[n + 1] = e /\ \A k \in 1..n : fs[k] = es[k] /\ es[k] \in S
  BY AppendProperties, LenProperties, ElementOfSeq
<1> HIDE DEF fs
<1>2. some \in Seq(Seq(S)) /\ Len(some) = n
  <2>1. ASSUME NEW i \in 1..n
        PROVE  (IF es[i].kind \in Closing THEN <<es[i]>> ELSE <<>>) \in Seq(S)
    BY <1>1
  <2> QED
    BY <1>1, <2>1
<1>3. seqs \in Seq(Seq(S)) /\ Len(seqs) = n + 1
  <2>1. ASSUME NEW i \in 1..n + 1
        PROVE  (IF fs[i].kind \in Closing THEN <<fs[i]>> ELSE <<>>) \in Seq(S)
    <3>1. fs[i] \in S
      BY <1>1
    <3> QED
      BY <3>1
  <2> QED
    BY <1>1, <2>1
<1>4. \A k \in 1..n : seqs[k] = some[k]
  BY <1>1
<1>5. seqs[n + 1] = IF e.kind \in Closing THEN <<e>> ELSE <<>>
  BY <1>1
<1>6. Closed(fs) = FlattenSeq(seqs) /\ Closed(es) = FlattenSeq(some)
  BY DEF Closed
<1> HIDE DEF seqs, some, n
<1>7. FlattenSeq(seqs) = FlattenSeq(some) \o seqs[n + 1]
  BY <1>2, <1>3, <1>4, FlattenStep
<1>8. FlattenSeq(some) \in Seq(S)
  BY <1>2, FlattenType
<1> QED
  BY <1>5, <1>6, <1>7, <1>8 DEF fs

\* No event has closed no item.
LEMMA ClosedNothing == Closed(<<>>) = <<>>
<1>1. <<>> \in Seq(Nat) /\ Len(<<>>) = 0 /\ DOMAIN <<>> = 1..Len(<<>>)
  BY EmptySeq, LenProperties
<1>2. Closed(<<>>) = FlattenSeq(<<>>)
  BY <1>1 DEF Closed
<1> QED
  BY <1>2, FlattenNothing

\* Where a stream stands, and the items it has closed.
Stands(n, es, phase, next, closed) ==
    /\ es \in Seq(EventSet(n)) /\ next \in Nat
    /\ LifeCycle(es) = Stage(phase, next)
    /\ Closed(es) = closed

\* One more event, from a known stage.
LEMMA StandsAppend ==
    ASSUME NEW n \in Nat, NEW es, NEW phase, NEW next, NEW closed, Stands(n, es, phase, next, closed),
           NEW kind \in Kinds, NEW i \in 0..n, NEW after, NEW follows \in Nat,
           AfterEvent(Stage(phase, next), Event(kind, i)) = Stage(after, follows)
    PROVE  Stands(n, es \o <<Event(kind, i)>>, after, follows,
                  IF kind \in Closing THEN closed \o <<Event(kind, i)>> ELSE closed)
<1> DEFINE e == Event(kind, i)
<1>1. es \in Seq(EventSet(n)) /\ e \in EventSet(n) /\ e.kind = kind
  BY EventType DEF Stands, Event
<1> HIDE DEF e, EventSet
<1>2. Append(es, e) = es \o <<e>> /\ Append(es, e) \in Seq(EventSet(n))
  BY <1>1, AppendProperties, AppendIsConcat
<1>3. LifeCycle(Append(es, e)) = Stage(after, follows)
  BY <1>1, LifeCycleAppend DEF Stands, e
<1>4. Closed(Append(es, e)) = closed \o IF kind \in Closing THEN <<e>> ELSE <<>>
  BY <1>1, ClosedAppend DEF Stands
<1>5. closed \o <<>> = closed
  <2> closed \in Seq(EventSet(n))
    BY <1>1, ClosedAppend DEF Stands
  <2> QED
    BY ConcatEmptySeq
<1> QED
  BY <1>2, <1>3, <1>4, <1>5 DEF Stands, e

\* Events in a row are appended one by one.
LEMMA TwoInARow ==
    ASSUME NEW S, NEW es \in Seq(S), NEW a \in S, NEW b \in S
    PROVE  es \o <<a, b>> = (es \o <<a>>) \o <<b>>
<1>1. <<a>> \in Seq(S) /\ <<b>> \in Seq(S)
  OBVIOUS
<1>2. Append(<<a>>, b) = <<a>> \o <<b>>
  BY <1>1, AppendIsConcat
<1>3. <<a, b>> = Append(<<a>>, b)
  OBVIOUS
<1>4. (es \o <<a>>) \o <<b>> = es \o (<<a>> \o <<b>>)
  BY <1>1, ConcatAssociative
<1> QED
  BY <1>2, <1>3, <1>4

\* Events in a row, from stage to stage.
LEMMA InARow ==
    ASSUME NEW S, NEW es \in Seq(S), NEW a \in S, NEW b \in S, NEW c \in S, NEW d \in S
    PROVE  /\ es \o <<a, b>> = (es \o <<a>>) \o <<b>>
           /\ es \o <<a, b, c>> = ((es \o <<a>>) \o <<b>>) \o <<c>>
           /\ es \o <<a, b, c, d>> = (((es \o <<a>>) \o <<b>>) \o <<c>>) \o <<d>>
<1>1. ASSUME NEW s \in Seq(S), NEW t \in Seq(S), NEW u \in Seq(S)
      PROVE  (s \o t) \o u = s \o (t \o u)
  BY ConcatAssociative
<1>2. /\ <<a>> \in Seq(S) /\ <<b>> \in Seq(S) /\ <<c>> \in Seq(S) /\ <<d>> \in Seq(S)
      /\ <<a, b>> \in Seq(S) /\ <<a, b, c>> \in Seq(S) /\ <<a, b, c, d>> \in Seq(S)
  OBVIOUS
<1>4. <<a, b, c>> = <<a, b>> \o <<c>>
  BY <1>2
<1>5. <<a, b, c, d>> = <<a, b, c>> \o <<d>>
  <2> DEFINE u == <<a, b, c>> \o <<d>>
             v == <<a, b, c, d>>
  <2>1. Len(<<a, b, c>>) = 3 /\ Len(<<d>>) = 1 /\ Len(v) = 4
    OBVIOUS
  <2>2. u \in Seq(S) /\ Len(u) = 4 /\ v \in Seq(S)
    BY <1>2, <2>1, ConcatProperties
  <2>3. /\ u[1] = a /\ u[2] = b /\ u[3] = c
        /\ u[4] = d
    <3>1. \A i \in 1..3 : u[i] = <<a, b, c>>[i]
      BY <1>2, <2>1, ConcatProperties
    <3>2. u[4] = <<d>>[4 - 3]
      BY <1>2, <2>1, ConcatProperties
    <3> QED
      BY <3>1, <3>2
  <2>4. \A i \in 1..4 : u[i] = v[i]
    BY <2>3
  <2> HIDE DEF u, v
  <2>5. u = v
    BY <2>1, <2>2, <2>4, SeqEqual
  <2> QED
    BY <2>5 DEF u, v
<1>6. es \o <<a, b>> = (es \o <<a>>) \o <<b>>
  BY TwoInARow
<1>7. es \o <<a, b, c>> = (es \o <<a, b>>) \o <<c>>
  BY <1>1, <1>2, <1>4
<1>8. es \o <<a, b, c, d>> = (es \o <<a, b, c>>) \o <<d>>
  BY <1>1, <1>2, <1>5
<1> QED
  BY <1>6, <1>7, <1>8

\* The end of a message closes the item that is open.
LEMMA MessageEndStands ==
    ASSUME NEW n \in Nat, NEW es, NEW i \in 0..n, NEW closed, Stands(n, es, "part", i, closed)
    PROVE  Stands(n, es \o MessageEnd(i), "between", i + 1, closed \o <<Event("message.done", i)>>)
<1> DEFINE es1 == es \o <<Event("text.done", i)>>
           es2 == es1 \o <<Event("part.done", i)>>
<1>1. /\ i \in Nat /\ i + 1 \in Nat
      /\ "text.done" \in Kinds /\ "part.done" \in Kinds /\ "message.done" \in Kinds
      /\ "text.done" \notin Closing /\ "part.done" \notin Closing /\ "message.done" \in Closing
  BY DEF Kinds, Closing
<1>2. /\ AfterEvent(Stage("part", i), Event("text.done", i)) = Stage("part", i)
      /\ AfterEvent(Stage("part", i), Event("part.done", i)) = Stage("item", i)
      /\ AfterEvent(Stage("item", i), Event("message.done", i)) = Stage("between", i + 1)
  BY <1>1, Transitions
<1>3. Stands(n, es1, "part", i, closed)
  BY <1>1, <1>2, StandsAppend
<1> HIDE DEF es1
<1>4. Stands(n, es2, "item", i, closed)
  BY <1>1, <1>2, <1>3, StandsAppend
<1> HIDE DEF es2
<1>5. Stands(n, es2 \o <<Event("message.done", i)>>, "between", i + 1, closed \o <<Event("message.done", i)>>)
  BY <1>1, <1>2, <1>4, StandsAppend
<1>6. es \o MessageEnd(i) = es2 \o <<Event("message.done", i)>>
  <2>1. /\ es \in Seq(EventSet(n)) /\ Event("text.done", i) \in EventSet(n)
        /\ Event("part.done", i) \in EventSet(n) /\ Event("message.done", i) \in EventSet(n)
    BY <1>1, EventType DEF Stands
  <2> HIDE DEF EventSet
  <2>2. es \o <<Event("text.done", i), Event("part.done", i), Event("message.done", i)>>
          = ((es \o <<Event("text.done", i)>>) \o <<Event("part.done", i)>>) \o <<Event("message.done", i)>>
    BY <2>1, InARow, SMTT(30)
  <2> QED
    BY <2>2 DEF MessageEnd, es1, es2
<1> QED
  BY <1>5, <1>6

\* A buffered message is one item.
LEMMA BufferedMessageStands ==
    ASSUME NEW n \in Nat, NEW es, NEW i \in 0..n, NEW closed, NEW text, Stands(n, es, "between", i, closed)
    PROVE  Stands(n, es \o BufferedMessage(text, i), "between", i + 1, closed \o <<Event("message.done", i)>>)
<1> DEFINE es1 == es \o <<Event("item.added", i)>>
           es2 == es1 \o <<Event("part.added", i)>>
           delta == IF text # <<>> THEN <<Event("delta", i)>> ELSE <<>>
           es3 == es2 \o delta
<1>1. /\ i \in Nat /\ "item.added" \in Kinds /\ "part.added" \in Kinds /\ "delta" \in Kinds
      /\ "item.added" \notin Closing /\ "part.added" \notin Closing /\ "delta" \notin Closing
  BY DEF Kinds, Closing
<1>2. /\ AfterEvent(Stage("between", i), Event("item.added", i)) = Stage("item", i)
      /\ AfterEvent(Stage("item", i), Event("part.added", i)) = Stage("part", i)
      /\ AfterEvent(Stage("part", i), Event("delta", i)) = Stage("part", i)
  BY <1>1, Transitions
<1>3. /\ Event("item.added", i) \in EventSet(n) /\ Event("part.added", i) \in EventSet(n)
      /\ Event("delta", i) \in EventSet(n) /\ es \in Seq(EventSet(n))
      /\ MessageEnd(i) \in Seq(EventSet(n))
  BY <1>1, EventType, BufferedMessageType DEF Stands
<1>4. Stands(n, es1, "item", i, closed)
  BY <1>1, <1>2, StandsAppend
<1> HIDE DEF es1
<1>5. Stands(n, es2, "part", i, closed)
  BY <1>1, <1>2, <1>4, StandsAppend
<1> HIDE DEF es2
<1>6. Stands(n, es3, "part", i, closed)
  <2>1. CASE text # <<>>
    <3>1. Stands(n, es2 \o <<Event("delta", i)>>, "part", i, closed)
      BY <1>1, <1>2, <1>5, StandsAppend
    <3> QED
      BY <2>1, <3>1
  <2>2. CASE text = <<>>
    <3>1. es2 \in Seq(EventSet(n))
      BY <1>5 DEF Stands
    <3>2. es2 \o <<>> = es2
      BY <3>1, ConcatEmptySeq
    <3> QED
      BY <2>2, <3>2, <1>5
  <2> QED
    BY <2>1, <2>2
<1> HIDE DEF es3, EventSet
<1>7. Stands(n, es3 \o MessageEnd(i), "between", i + 1, closed \o <<Event("message.done", i)>>)
  BY <1>6, MessageEndStands
<1>8. es \o BufferedMessage(text, i) = es3 \o MessageEnd(i)
  <2> DEFINE head == <<Event("item.added", i), Event("part.added", i)>>
  <2>1. head \in Seq(EventSet(n)) /\ delta \in Seq(EventSet(n))
    BY <1>3
  <2>2. es2 = es \o head
    <3>1. es \o <<Event("item.added", i), Event("part.added", i)>>
            = (es \o <<Event("item.added", i)>>) \o <<Event("part.added", i)>>
      BY <1>3, TwoInARow, SMTT(30)
    <3> QED
      BY <3>1 DEF es1, es2
  <2>3. ASSUME NEW s \in Seq(EventSet(n)), NEW t \in Seq(EventSet(n)), NEW u \in Seq(EventSet(n))
        PROVE  (s \o t) \o u = s \o (t \o u) /\ s \o t \in Seq(EventSet(n))
    BY ConcatAssociative, ConcatProperties, SMTT(30)
  <2>4. BufferedMessage(text, i) = (head \o delta) \o MessageEnd(i)
    BY Zenon DEF BufferedMessage
  <2> HIDE DEF head, delta
  <2>5. es \o (head \o delta) = (es \o head) \o delta
    BY <1>3, <2>1, <2>3
  <2>6. head \o delta \in Seq(EventSet(n))
    BY <2>1, <2>3
  <2>7. es \o ((head \o delta) \o MessageEnd(i)) = (es \o (head \o delta)) \o MessageEnd(i)
    BY <1>3, <2>3, <2>6, SMTT(30)
  <2> QED
    BY <2>2, <2>4, <2>5, <2>7 DEF es3
<1> QED
  BY <1>7, <1>8

FunctionItem(i) == <<Event("item.added", i), Event("arguments", i),
                     Event("arguments.done", i), Event("function.done", i)>>
FunctionsDone(n) == [k \in 1..n |-> Event("function.done", k - 1)]

\* The events of n + 1 calls are those of n, and one call more.
LEMMA FunctionItemsStep ==
    ASSUME NEW n \in Nat, NEW m \in 1..n
    PROVE  /\ FunctionItems(m) = FunctionItems(m - 1) \o FunctionItem(m - 1)
           /\ FunctionItems(m - 1) \in Seq(EventSet(n)) /\ FunctionItem(m - 1) \in Seq(EventSet(n))
           /\ FunctionsDone(m) = FunctionsDone(m - 1) \o <<Event("function.done", m - 1)>>
           /\ FunctionsDone(m - 1) \in Seq(EventSet(n))
<1> DEFINE S == EventSet(n)
           seqs == [k \in 1..m |-> FunctionItem(k - 1)]
           some == [k \in 1..m - 1 |-> FunctionItem(k - 1)]
<1>1. ASSUME NEW k \in 1..m
      PROVE  FunctionItem(k - 1) \in Seq(S) /\ Event("function.done", k - 1) \in S
  <2>1. k - 1 \in 0..n
    OBVIOUS
  <2>2. /\ Event("item.added", k - 1) \in S /\ Event("arguments", k - 1) \in S
        /\ Event("arguments.done", k - 1) \in S /\ Event("function.done", k - 1) \in S
    BY <2>1, EventType DEF Kinds
  <2> HIDE DEF S
  <2> QED
    BY <2>2 DEF FunctionItem
<1> HIDE DEF S
<1>2. m - 1 \in Nat /\ m \in 1..m
  OBVIOUS
<1>3. seqs \in Seq(Seq(S)) /\ some \in Seq(Seq(S)) /\ Len(seqs) = m /\ Len(some) = m - 1
  BY <1>1, <1>2
<1>4. (\A k \in 1..Len(some) : seqs[k] = some[k]) /\ Len(seqs) = Len(some) + 1
  BY <1>3
<1>5. seqs[Len(seqs)] = FunctionItem(m - 1)
  BY <1>2, <1>3
<1>6. FunctionItems(m) = FlattenSeq(seqs) /\ FunctionItems(m - 1) = FlattenSeq(some)
  BY Zenon DEF FunctionItems, FunctionItem
<1> HIDE DEF seqs, some
<1>7. FunctionItems(m) = FunctionItems(m - 1) \o FunctionItem(m - 1)
  BY <1>3, <1>4, <1>5, <1>6, FlattenStep
<1>8. FunctionItems(m - 1) \in Seq(S)
  BY <1>3, <1>6, FlattenType
<1>9. /\ FunctionsDone(m) = FunctionsDone(m - 1) \o <<Event("function.done", m - 1)>>
      /\ FunctionsDone(m - 1) \in Seq(S)
  <2> DEFINE u == FunctionsDone(m - 1)
             e == Event("function.done", m - 1)
             v == FunctionsDone(m)
             w == Append(u, e)
  <2>1. e \in S /\ \A k \in 1..m : Event("function.done", k - 1) \in S
    BY <1>1, <1>2
  <2>2. u \in Seq(S) /\ v \in Seq(S) /\ Len(u) = m - 1 /\ Len(v) = m
    BY <1>2, <2>1 DEF FunctionsDone
  <2>3. /\ \A k \in 1..m - 1 : u[k] = v[k]
        /\ v[m] = e
    BY <1>2 DEF FunctionsDone
  <2> HIDE DEF u, v, e
  <2>4. w \in Seq(S) /\ Len(w) = m /\ \A k \in 1..m : w[k] = v[k]
    BY <2>1, <2>2, <2>3, AppendProperties
  <2>5. w = u \o <<e>>
    BY <2>1, <2>2, AppendIsConcat
  <2> HIDE DEF w
  <2>6. w = v
    BY <2>2, <2>4, SeqEqual
  <2> QED
    BY <2>2, <2>5, <2>6 DEF u, v, e
<1> QED
  BY <1>1, <1>2, <1>7, <1>8, <1>9 DEF S

\* The events of a call are one item.
LEMMA FunctionItemStands ==
    ASSUME NEW n \in Nat, NEW es, NEW i \in 0..n, NEW closed, Stands(n, es, "between", i, closed)
    PROVE  Stands(n, es \o FunctionItem(i), "between", i + 1, closed \o <<Event("function.done", i)>>)
<1> DEFINE es1 == es \o <<Event("item.added", i)>>
           es2 == es1 \o <<Event("arguments", i)>>
           es3 == es2 \o <<Event("arguments.done", i)>>
<1>1. /\ i \in Nat /\ i + 1 \in Nat
      /\ "item.added" \in Kinds /\ "arguments" \in Kinds /\ "arguments.done" \in Kinds
      /\ "function.done" \in Kinds
      /\ "item.added" \notin Closing /\ "arguments" \notin Closing /\ "arguments.done" \notin Closing
      /\ "function.done" \in Closing
  BY DEF Kinds, Closing
<1>2. /\ AfterEvent(Stage("between", i), Event("item.added", i)) = Stage("item", i)
      /\ AfterEvent(Stage("item", i), Event("arguments", i)) = Stage("item", i)
      /\ AfterEvent(Stage("item", i), Event("arguments.done", i)) = Stage("item", i)
      /\ AfterEvent(Stage("item", i), Event("function.done", i)) = Stage("between", i + 1)
  BY <1>1, Transitions
<1>3. Stands(n, es1, "item", i, closed)
  BY <1>1, <1>2, StandsAppend
<1> HIDE DEF es1
<1>4. Stands(n, es2, "item", i, closed)
  BY <1>1, <1>2, <1>3, StandsAppend
<1> HIDE DEF es2
<1>5. Stands(n, es3, "item", i, closed)
  BY <1>1, <1>2, <1>4, StandsAppend
<1> HIDE DEF es3
<1>6. Stands(n, es3 \o <<Event("function.done", i)>>, "between", i + 1, closed \o <<Event("function.done", i)>>)
  BY <1>1, <1>2, <1>5, StandsAppend
<1>7. es \o FunctionItem(i) = es3 \o <<Event("function.done", i)>>
  <2>1. /\ es \in Seq(EventSet(n)) /\ Event("item.added", i) \in EventSet(n)
        /\ Event("arguments", i) \in EventSet(n) /\ Event("arguments.done", i) \in EventSet(n)
        /\ Event("function.done", i) \in EventSet(n)
    BY <1>1, EventType DEF Stands
  <2> HIDE DEF EventSet
  <2> DEFINE a == Event("item.added", i)
             b == Event("arguments", i)
             c == Event("arguments.done", i)
             d == Event("function.done", i)
  <2> HIDE DEF a, b, c, d
  <2>2. es \o <<a, b, c, d>> = (((es \o <<a>>) \o <<b>>) \o <<c>>) \o <<d>>
    BY <2>1, InARow, SMTT(30) DEF a, b, c, d
  <2> QED
    BY <2>2 DEF FunctionItem, es1, es2, es3, a, b, c, d
<1> QED
  BY <1>6, <1>7

\* The events of n calls are n items, in the order of their index.
LEMMA FunctionItemsStand ==
    ASSUME NEW n \in Nat, NEW es, Stands(n, es, "between", 0, <<>>)
    PROVE  Stands(n, es \o FunctionItems(n), "between", n, FunctionsDone(n))
<1> DEFINE P(m) == Stands(n, es \o FunctionItems(m), "between", m, FunctionsDone(m))
           T == {m \in 1..n : P(m)}
<1>1. es \in Seq(EventSet(n))
  BY DEF Stands
<1>2. P(0)
  <2>1. FunctionItems(0) = <<>>
    <3>1. [k \in 1..0 |-> <<Event("item.added", k - 1), Event("arguments", k - 1),
                            Event("arguments.done", k - 1), Event("function.done", k - 1)>>] = <<>>
      BY EmptySeq
    <3> QED
      BY <3>1, FlattenNothing DEF FunctionItems
  <2>2. FunctionsDone(0) = <<>>
    BY EmptySeq DEF FunctionsDone
  <2>3. es \o <<>> = es
    BY <1>1, ConcatEmptySeq
  <2> QED
    BY <2>1, <2>2, <2>3
<1>3. ASSUME NEW m \in 1..n, \A j \in 1..m - 1 : j \in T
      PROVE  m \in T
  <2>1. P(m - 1)
    <3>1. CASE m = 1
      BY <1>2, <3>1
    <3>2. CASE m # 1
      <4>1. m - 1 \in 1..m - 1
        BY <3>2
      <4> QED
        BY <4>1, <1>3
    <3> QED
      BY <3>1, <3>2
  <2> DEFINE a == FunctionItems(m - 1)
             b == FunctionItem(m - 1)
             done == FunctionsDone(m - 1)
  <2>2. /\ FunctionItems(m) = a \o b /\ a \in Seq(EventSet(n)) /\ b \in Seq(EventSet(n))
        /\ FunctionsDone(m) = done \o <<Event("function.done", m - 1)>>
    BY FunctionItemsStep
  <2>3. m - 1 \in 0..n /\ m - 1 + 1 = m
    OBVIOUS
  <2>4. Stands(n, es \o a, "between", m - 1, done)
    BY <2>1
  <2>5. Stands(n, (es \o a) \o b, "between", m - 1 + 1, done \o <<Event("function.done", m - 1)>>)
    <3> HIDE DEF a, done
    <3> QED
      BY <2>3, <2>4, FunctionItemStands
  <2>6. (es \o a) \o b = es \o (a \o b)
    BY <1>1, <2>2, ConcatAssociative, SMTT(30)
  <2> HIDE DEF a, b, done
  <2>7. P(m)
    BY <2>2, <2>3, <2>5, <2>6
  <2> QED
    BY <2>7
<1>4. 1..n \subseteq T
  <2> HIDE DEF T
  <2> QED
    BY <1>3, Upward
<1>5. CASE n = 0
  BY <1>2, <1>5
<1>6. CASE n # 0
  <2>1. n \in 1..n
    BY <1>6
  <2> QED
    BY <2>1, <1>4
<1> QED
  BY <1>5, <1>6

\* The end of a Responses stream: over, with the items of the object.
LEMMA ResponsesEndStands ==
    ASSUME Calls \in Nat, ~ tools => Calls = 0, NEW es,
           Stands(Calls, es, IF tools THEN "between" ELSE "part", 0, <<>>)
    PROVE  LifeCycle(ResponsesEnd(es)).phase = "over" /\ Closed(ResponsesEnd(es)) = ResponseOutput(Calls, Text)
<1> DEFINE n == Calls
           rest == IF ~ tools THEN MessageEnd(0)
                   ELSE FunctionItems(n) \o IF Text # <<>> \/ n = 0 THEN BufferedMessage(Text, n) ELSE <<>>
           last == <<Event("completed", 0)>>
           output == ResponseOutput(n, Text)
<1>1. es \in Seq(EventSet(n)) /\ n \in Nat
  BY DEF Stands
<1>2. /\ FunctionItems(n) \in Seq(EventSet(n)) /\ BufferedMessage(Text, n) \in Seq(EventSet(n))
      /\ MessageEnd(0) \in Seq(EventSet(n)) /\ last \in Seq(EventSet(n)) /\ <<>> \in Seq(EventSet(n))
      /\ FunctionsDone(n) \in Seq(EventSet(n))
  <2>1. Event("completed", 0) \in EventSet(n)
    BY <1>1, EventType DEF Kinds
  <2>2. \A k \in 1..n : Event("function.done", k - 1) \in EventSet(n)
    <3>1. ASSUME NEW k \in 1..n
          PROVE  Event("function.done", k - 1) \in EventSet(n)
      <4>1. k - 1 \in 0..n /\ "function.done" \in Kinds
        BY <1>1 DEF Kinds
      <4> QED
        BY <1>1, <4>1, EventType
    <3> QED
      BY <3>1
  <2> HIDE DEF n, EventSet
  <2>3. last \in Seq(EventSet(n)) /\ <<>> \in Seq(EventSet(n))
    BY <2>1
  <2>4. FunctionsDone(n) \in Seq(EventSet(n))
    BY <1>1, <2>2 DEF FunctionsDone
  <2>5. n \in 0..n /\ 0 \in 0..n
    BY <1>1
  <2> QED
    BY <1>1, <2>3, <2>4, <2>5, FunctionItemsType, BufferedMessageType
<1>3. output = FunctionsDone(n) \o IF Text # <<>> \/ n = 0 THEN <<Event("message.done", n)>> ELSE <<>>
  BY Zenon DEF ResponseOutput, FunctionsDone
<1>4. Stands(n, es \o rest, "between", 1, output) \/ (n > 0 /\ Stands(n, es \o rest, "between", n, output))
        \/ Stands(n, es \o rest, "between", n + 1, output)
  <2>1. CASE ~ tools
    <3>1. n = 0 /\ 0 \in 0..n
      BY <2>1
    <3>2. Stands(n, es \o MessageEnd(0), "between", 0 + 1, <<>> \o <<Event("message.done", 0)>>)
      <4> HIDE DEF n
      <4> QED
        BY <1>1, <2>1, <3>1, MessageEndStands
    <3>3. FunctionsDone(0) = <<>>
      BY EmptySeq DEF FunctionsDone
    <3> QED
      BY <1>3, <2>1, <3>1, <3>2, <3>3
  <2>2. CASE tools
    <3> HIDE DEF n
    <3>1. Stands(n, es, "between", 0, <<>>)
      BY <2>2 DEF n
    <3>2. Stands(n, es \o FunctionItems(n), "between", n, FunctionsDone(n))
      BY <1>1, <3>1, FunctionItemsStand
    <3>3. CASE Text # <<>> \/ n = 0
      <4>1. n \in 0..n
        BY <1>1
      <4>2. Stands(n, (es \o FunctionItems(n)) \o BufferedMessage(Text, n), "between", n + 1,
                   FunctionsDone(n) \o <<Event("message.done", n)>>)
        BY <1>1, <3>2, <4>1, BufferedMessageStands
      <4>3. (es \o FunctionItems(n)) \o BufferedMessage(Text, n) = es \o (FunctionItems(n) \o BufferedMessage(Text, n))
        BY <1>1, <1>2, ConcatAssociative, SMTT(30)
      <4> QED
        BY <1>3, <2>2, <3>3, <4>2, <4>3
    <3>4. CASE ~ (Text # <<>> \/ n = 0)
      <4>1. FunctionItems(n) \o <<>> = FunctionItems(n) /\ FunctionsDone(n) \o <<>> = FunctionsDone(n)
        BY <1>2, ConcatEmptySeq
      <4> QED
        BY <1>1, <1>3, <2>2, <3>2, <3>4, <4>1
    <3> QED
      BY <3>3, <3>4
  <2> QED
    BY <2>1, <2>2
<1> HIDE DEF rest, output
<1>5. PICK m \in Nat \ {0} : Stands(n, es \o rest, "between", m, output)
  BY <1>1, <1>4
<1>6. ResponsesEnd(es) = (es \o rest) \o last
  BY Zenon DEF ResponsesEnd, rest
<1>7. Stands(n, (es \o rest) \o last, "over", m, output)
  <2>1. /\ "completed" \in Kinds /\ "completed" \notin Closing /\ 0 \in 0..n /\ m \in Nat /\ m > 0
    BY <1>1, <1>5 DEF Kinds, Closing
  <2>2. AfterEvent(Stage("between", m), Event("completed", 0)) = Stage("over", m)
    BY <2>1, Transitions
  <2> HIDE DEF n
  <2> QED
    BY <1>1, <1>5, <2>1, <2>2, StandsAppend
<1> QED
  BY <1>6, <1>7 DEF Stands, Stage, output

\* The opening leaves the message open, or waits for the items.
LEMMA OpeningStands ==
    ASSUME NEW t \in BOOLEAN, api = "responses", stream
    PROVE  Stands(0, Opening(t), IF t THEN "between" ELSE "part", 0, <<>>)
<1> DEFINE E(kind) == Event(kind, 0)
           es1 == <<>> \o <<E("created")>>
           es2 == es1 \o <<E("in_progress")>>
           es3 == es2 \o <<E("item.added")>>
           es4 == es3 \o <<E("part.added")>>
<1>1. /\ "created" \in Kinds /\ "in_progress" \in Kinds /\ "item.added" \in Kinds /\ "part.added" \in Kinds
      /\ "created" \notin Closing /\ "in_progress" \notin Closing
      /\ "item.added" \notin Closing /\ "part.added" \notin Closing
      /\ 0 \in Nat /\ 0 \in 0..0
  BY DEF Kinds, Closing
<1>2. /\ AfterEvent(Stage("between", 0), E("created")) = Stage("between", 0)
      /\ AfterEvent(Stage("between", 0), E("in_progress")) = Stage("between", 0)
      /\ AfterEvent(Stage("between", 0), E("item.added")) = Stage("item", 0)
      /\ AfterEvent(Stage("item", 0), E("part.added")) = Stage("part", 0)
  BY <1>1, Transitions
<1>3. Stands(0, <<>>, "between", 0, <<>>)
  BY EmptySeq, LifeCycleNothing, ClosedNothing DEF Stands
<1>4. Stands(0, es1, "between", 0, <<>>)
  BY <1>1, <1>2, <1>3, StandsAppend
<1> HIDE DEF es1
<1>5. Stands(0, es2, "between", 0, <<>>)
  BY <1>1, <1>2, <1>4, StandsAppend
<1> HIDE DEF es2
<1>6. Stands(0, es3, "item", 0, <<>>)
  BY <1>1, <1>2, <1>5, StandsAppend
<1> HIDE DEF es3
<1>7. Stands(0, es4, "part", 0, <<>>)
  BY <1>1, <1>2, <1>6, StandsAppend
<1> HIDE DEF es4
<1>8. /\ E("created") \in EventSet(0) /\ E("in_progress") \in EventSet(0)
      /\ E("item.added") \in EventSet(0) /\ E("part.added") \in EventSet(0)
  BY <1>1, EventType
<1>9. es2 = <<E("created"), E("in_progress")>>
  <2>1. ASSUME NEW S, NEW a \in S, NEW b \in S
        PROVE  (<<>> \o <<a>>) \o <<b>> = <<a, b>>
    <3>1. ASSUME NEW s \in Seq(S)
          PROVE  s \o <<a, b>> = (s \o <<a>>) \o <<b>>
      BY TwoInARow
    <3>2. <<>> \o <<a, b>> = (<<>> \o <<a>>) \o <<b>>
      BY <3>1, EmptySeq
    <3>3. <<a, b>> \in Seq(S)
      OBVIOUS
    <3> QED
      BY <3>2, <3>3, ConcatEmptySeq
  <2> QED
    BY <1>8, <2>1 DEF es1, es2
<1>10. es2 \in Seq(EventSet(0))
  BY <1>5 DEF Stands
<1>11. es4 = es2 \o <<E("item.added"), E("part.added")>>
  BY <1>8, <1>10, TwoInARow DEF es3, es4
<1>12. es2 \o <<>> = es2
  BY <1>10, ConcatEmptySeq
<1>13. Opening(t) = es2 \o IF t THEN <<>> ELSE <<E("item.added"), E("part.added")>>
  BY <1>9 DEF Opening
<1> HIDE DEF E
<1>14. CASE t
  BY <1>5, <1>12, <1>13, <1>14
<1>15. CASE ~ t
  BY <1>7, <1>11, <1>13, <1>15
<1> QED
  BY <1>14, <1>15

\* Where the events of a Responses stream stand in every phase of a request.
Staged ==
    api = "responses" /\ stream =>
        /\ pc = "reading" => Stands(0, events, IF tools THEN "between" ELSE "part", 0, <<>>)
        /\ pc = "failed" => LifeCycle(events).phase = "over"
        /\ pc = "done" => /\ LifeCycle(events).phase = "over"
                          /\ Closed(events) = ResponseOutput(calls, Text)

\* A delta keeps the part open.
LEMMA WithDeltaStands ==
    ASSUME NEW es, NEW delta, Stands(0, es, "part", 0, <<>>)
    PROVE  Stands(0, WithDelta(es, delta, 0), "part", 0, <<>>)
<1>1. CASE delta = <<>> \/ es[Len(es)].kind = "delta"
  BY <1>1 DEF WithDelta
<1>2. CASE ~ (delta = <<>> \/ es[Len(es)].kind = "delta")
  <2>1. "delta" \in Kinds /\ "delta" \notin Closing /\ 0 \in Nat /\ 0 \in 0..0
    BY DEF Kinds, Closing
  <2>2. AfterEvent(Stage("part", 0), Event("delta", 0)) = Stage("part", 0)
    BY <2>1, Transitions
  <2>3. Stands(0, es \o <<Event("delta", 0)>>, "part", 0, <<>>)
    BY <2>1, <2>2, StandsAppend
  <2>4. Append(es, Event("delta", 0)) = es \o <<Event("delta", 0)>>
    <3>1. es \in Seq(EventSet(0)) /\ Event("delta", 0) \in EventSet(0)
      BY <2>1, EventType DEF Stands
    <3> QED
      BY <3>1, AppendIsConcat
  <2>5. WithDelta(es, delta, 0) = Append(es, Event("delta", 0))
    BY <1>2 DEF WithDelta
  <2> QED
    BY <2>3, <2>4, <2>5
<1> QED
  BY <1>1, <1>2

\* A frame keeps the stage.
LEMMA FrameStaged ==
    ASSUME TypeInv, Staged, NEW n \in 1..Len(answer), Frame(n)
    PROVE  Staged'
<1> SUFFICES ASSUME api = "responses", stream
             PROVE  Stands(0, events', IF tools THEN "between" ELSE "part", 0, <<>>)
  BY DEF Frame, Staged
<1> DEFINE delta == IF HasOnContent THEN TrackerDelta(emitted, SubSeq(answer, 1, n)) ELSE <<>>
           pushed == IF Gated THEN Push(gate, delta) ELSE gate
           shown == IF Gated THEN SubSeq(pushed.sent, Len(gate.sent) + 1, Len(pushed.sent)) ELSE delta
<1>1. events' = WithDelta(events, shown, 0) /\ pc = "reading"
  BY Zenon DEF Frame, delta, pushed, shown
<1>2. ~ Gated
  BY DEF Gated
<1>3. Stands(0, events, IF tools THEN "between" ELSE "part", 0, <<>>)
  BY <1>1 DEF Staged
<1>4. CASE tools
  <2>1. shown = <<>>
    BY <1>2, <1>4 DEF HasOnContent
  <2>2. events' = events
    <3> HIDE DEF shown
    <3> QED
      BY <1>1, <2>1 DEF WithDelta
  <2> QED
    BY <1>3, <2>2
<1>5. CASE ~ tools
  <2> HIDE DEF shown
  <2> QED
    BY <1>1, <1>3, <1>5, WithDeltaStands
<1> QED
  BY <1>4, <1>5

\* A failure ends the stream.
LEMMA FailStaged ==
    ASSUME TypeInv, Staged, Fail
    PROVE  Staged'
<1> SUFFICES ASSUME api = "responses", stream
             PROVE  LifeCycle(events').phase = "over"
  BY DEF Fail, Staged
<1>1. events' = events \o <<Event("failed", 0)>> /\ pc = "reading"
  BY DEF Fail
<1> DEFINE phase == IF tools THEN "between" ELSE "part"
<1>2. Stands(0, events, phase, 0, <<>>)
  BY <1>1 DEF Staged
<1>3. "failed" \in Kinds /\ "failed" \notin Closing /\ 0 \in Nat /\ 0 \in 0..0
  BY DEF Kinds, Closing
<1>4. AfterEvent(Stage(phase, 0), Event("failed", 0)) = Stage("over", 0)
  BY <1>3, Transitions
<1> HIDE DEF phase
<1>5. Stands(0, events \o <<Event("failed", 0)>>, "over", 0, <<>>)
  BY <1>2, <1>3, <1>4, StandsAppend
<1> QED
  BY <1>1, <1>5 DEF Stands, Stage

\* The end closes the items of the object.
LEMMA FinishStaged ==
    ASSUME TypeInv, Staged, Finish
    PROVE  Staged'
<1> SUFFICES ASSUME api = "responses", stream
             PROVE  LifeCycle(events').phase = "over" /\ Closed(events') = ResponseOutput(Calls, Text)
  BY DEF Finish, Staged, Text, ResultText
<1> DEFINE rest == IF HasOnContent THEN RemainingText(Text, visible) ELSE Text
           es == IF tools THEN events ELSE WithDelta(events, rest, 0)
<1>1. events' = ResponsesEnd(es) /\ pc = "reading"
  BY Zenon DEF Finish
<1>2. Stands(0, events, IF tools THEN "between" ELSE "part", 0, <<>>)
  BY <1>1 DEF Staged
<1>3. Calls \in Nat /\ (~ tools => Calls = 0)
  BY TypesAreUseful DEF TypeInv, Calls
<1>4. Stands(0, es, IF tools THEN "between" ELSE "part", 0, <<>>)
  <2>1. CASE tools
    BY <1>2, <2>1
  <2>2. CASE ~ tools
    <3> HIDE DEF rest
    <3>1. Stands(0, WithDelta(events, rest, 0), "part", 0, <<>>)
      BY <1>2, <2>2, WithDeltaStands
    <3> QED
      BY <2>2, <3>1
  <2> QED
    BY <2>1, <2>2
<1> HIDE DEF es
<1>5. Stands(Calls, es, IF tools THEN "between" ELSE "part", 0, <<>>)
  <2>1. es \in Seq(EventSet(Calls))
    BY <1>3, <1>4, EventSetGrows DEF Stands
  <2> QED
    BY <1>4, <2>1 DEF Stands
<1>6. LifeCycle(ResponsesEnd(es)).phase = "over" /\ Closed(ResponsesEnd(es)) = ResponseOutput(Calls, Text)
  BY <1>3, <1>5, ResponsesEndStands
<1> QED
  BY <1>1, <1>6

\* A Responses stream stands in its message, or between items, until it is over;
\* then it has closed the items of the object (responses.go:86).
THEOREM StagedHolds == Spec => []Staged
<1>1. Init => Staged
  BY DEF Init, Staged
<1>2. TypeInv /\ Staged /\ [Next]_vars => Staged'
  <2> SUFFICES ASSUME TypeInv, Staged, [Next]_vars
               PROVE  Staged'
    OBVIOUS
  <2>1. CASE Refuse
    BY <2>1 DEF Refuse, Staged
  <2>2. CASE Submit
    <3>1. /\ UNCHANGED <<api, stream>> /\ pc' = "reading"
          /\ events' = Opening(tools') /\ tools' \in BOOLEAN
      BY <2>2 DEF Submit
    <3>2. api = "responses" /\ stream =>
            Stands(0, events', IF tools' THEN "between" ELSE "part", 0, <<>>)
      BY <3>1, OpeningStands
    <3> QED
      BY <3>1, <3>2 DEF Staged
  <2>3. ASSUME NEW n \in 1..Len(answer), Frame(n)
        PROVE  Staged'
    BY <2>3, FrameStaged
  <2>4. CASE Resend
    BY <2>4 DEF Resend, textVars, Staged
  <2>5. CASE Fail
    BY <2>5, FailStaged
  <2>6. CASE Finish
    BY <2>6, FinishStaged
  <2>7. CASE Continue
    BY <2>7 DEF Continue, Staged
  <2>8. CASE UNCHANGED vars
    BY <2>8 DEF vars, textVars, Staged, Text, ResultText
  <2> QED
    BY <2>1, <2>2, <2>3, <2>4, <2>5, <2>6, <2>7, <2>8 DEF Next
<1> QED
  BY <1>1, <1>2, TypeInvHolds, PTL DEF Spec

\* The events of a Responses stream follow the life cycle: items in the order of
\* their index, parts and deltas in the item that is open, and an end after
\* which nothing comes (responses.go:86).
THEOREM ResponsesInOrder == Spec => []LifeCycleInOrder
<1>1. Staged => LifeCycleInOrder
  BY DEF Staged, LifeCycleInOrder, Stands, Stage
<1> QED
  BY <1>1, StagedHolds, PTL

\* The items a Responses stream has closed at its end are those of the object
\* (responses.go:124, responses.go:218).
THEOREM StreamHasTheItems == Spec => []StreamGivesTheObject
<1>1. Staged => StreamGivesTheObject
  BY DEF Staged, StreamGivesTheObject
<1> QED
  BY <1>1, StagedHolds, PTL

-----------------------------------------------------------------------------
(* Tidy tool blocks. *)

\* Place i is behind every block that opens before it.
Free(s, i) == \A b \in 1..i - 1 : Opens(s, b) => BlockEnd(s)[b] < i

Hides(t) == \A k \in 1..Len(t) : t[k] \notin {Tool, Call}

\* A tidy block: no backquotes within, and no other block inside it.
LEMMA TidyBlock ==
    ASSUME NEW s \in Seq(Token), Tidy(s), NEW i \in 1..Len(s), Opens(s, i)
    PROVE  LET c == BlockEnd(s)[i]
           IN  /\ c \in i + 4..Len(s) /\ s[c] = Ticks
               /\ \A j \in i + 1..c - 1 : s[j] # Ticks
               /\ \A j \in i + 1..c : ~ Opens(s, j)
<1>1. Len(s) \in Nat /\ DOMAIN s = 1..Len(s)
  BY LenProperties
<1> DEFINE c == BlockEnd(s)[i]
<1>2. c # 0 /\ ~ Opens(s, c) /\ \A j \in i + 1..c - 1 : s[j] # Ticks
  BY <1>1 DEF Tidy
<1>3. c \in i + 4..Len(s) /\ s[c] = Ticks
  BY <1>2, BlockEndIs
<1> HIDE DEF c
<1>4. ASSUME NEW j \in i + 1..c
      PROVE  ~ Opens(s, j)
  <2>1. CASE j = c
    BY <1>2, <2>1
  <2>2. CASE j # c
    BY <1>2, <1>3, <2>2 DEF Opens, At
  <2> QED
    BY <2>1, <2>2
<1> QED
  BY <1>2, <1>3, <1>4 DEF c

\* Behind a block, or past a place where none opens, no block is open.
LEMMA FreeNext ==
    ASSUME NEW s \in Seq(Token), Tidy(s), NEW i \in 1..Len(s), Free(s, i)
    PROVE  /\ Opens(s, i) => Free(s, BlockEnd(s)[i] + 1)
           /\ ~ Opens(s, i) => Free(s, i + 1) /\ s[i] \notin {Tool, Call}
           /\ Opens(s, i) <=> BlockEnd(s)[i] # 0
<1>1. Len(s) \in Nat /\ DOMAIN s = 1..Len(s)
  BY LenProperties
<1>2. ASSUME Opens(s, i)
      PROVE  Free(s, BlockEnd(s)[i] + 1)
  <2> DEFINE c == BlockEnd(s)[i]
  <2>1. c \in i + 4..Len(s) /\ \A j \in i + 1..c : ~ Opens(s, j)
    BY <1>2, TidyBlock
  <2>2. SUFFICES ASSUME NEW b \in 1..c, Opens(s, b)
                 PROVE  BlockEnd(s)[b] < c + 1
    BY <2>1 DEF Free
  <2>3. CASE b < i
    <3>1. BlockEnd(s)[b] < i
      BY <2>2, <2>3 DEF Free
    <3>2. b \in 1..Len(s)
      BY <1>1, <2>1
    <3>3. BlockEnd(s)[b] \in b + 4..Len(s)
      BY <2>2, <3>2, TidyBlock
    <3> HIDE DEF c
    <3> QED
      BY <1>1, <2>1, <3>1, <3>3
  <2>4. CASE b = i
    BY <1>1, <2>1, <2>4
  <2>5. CASE b > i
    BY <2>1, <2>2, <2>5
  <2> QED
    BY <2>1, <2>3, <2>4, <2>5
<1>3. ASSUME ~ Opens(s, i)
      PROVE  Free(s, i + 1) /\ s[i] \notin {Tool, Call}
  <2>1. ASSUME NEW b \in 1..i, Opens(s, b)
        PROVE  BlockEnd(s)[b] < i
    <3>1. b # i /\ b \in 1..i - 1
      BY <1>3, <2>1
    <3> QED
      BY <2>1, <3>1 DEF Free
  <2>2. ASSUME NEW b \in 1..i, Opens(s, b)
        PROVE  BlockEnd(s)[b] \in Nat
    <3>1. b \in 1..Len(s)
      BY <1>1
    <3>2. BlockEnd(s)[b] \in b + 4..Len(s)
      BY <2>2, <3>1, TidyBlock
    <3> QED
      BY <1>1, <3>2
  <2>3. Free(s, i + 1)
    <3>1. ASSUME NEW b \in 1..i + 1 - 1, Opens(s, b)
          PROVE  BlockEnd(s)[b] < i + 1
      <4>1. b \in 1..i
        OBVIOUS
      <4> QED
        BY <2>1, <2>2, <3>1, <4>1
    <3> QED
      BY <3>1 DEF Free
  <2>4. ASSUME s[i] \in {Tool, Call}
        PROVE  FALSE
    <3>1. PICK b \in 1..i - 1 : Opens(s, b) /\ i < BlockEnd(s)[b]
      BY <1>1, <2>4 DEF Tidy
    <3>2. b \in 1..i
      OBVIOUS
    <3> QED
      BY <2>1, <2>2, <3>1, <3>2
  <2> QED
    BY <2>3, <2>4
<1>4. Opens(s, i) <=> BlockEnd(s)[i] # 0
  <2>1. Opens(s, i) => BlockEnd(s)[i] # 0
    BY <1>1 DEF Tidy
  <2>2. BlockEnd(s)[i] # 0 => Opens(s, i)
    BY BlockEndIs DEF Opens
  <2> QED
    BY <2>1, <2>2
<1> QED
  BY <1>2, <1>3, <1>4

\* Two texts that hide, in a row.
LEMMA HidesAll ==
    ASSUME NEW s \in Seq(Token), NEW t \in Seq(Token), Hides(s), Hides(t)
    PROVE  Hides(s \o t)
<1>1. /\ Len(s \o t) = Len(s) + Len(t) /\ Len(s) \in Nat /\ Len(t) \in Nat
      /\ \A k \in 1..Len(s) : (s \o t)[k] = s[k]
      /\ \A k \in 1..Len(t) : (s \o t)[Len(s) + k] = t[k]
  BY ConcatIs
<1>2. ASSUME NEW k \in 1..Len(s \o t)
      PROVE  (s \o t)[k] \notin {Tool, Call}
  <2>1. CASE k <= Len(s)
    BY <1>1, <2>1 DEF Hides
  <2>2. CASE k > Len(s)
    <3>1. k - Len(s) \in 1..Len(t) /\ Len(s) + (k - Len(s)) = k
      BY <1>1, <2>2
    <3>2. (s \o t)[Len(s) + (k - Len(s))] = t[k - Len(s)]
      BY <1>1, <3>1
    <3> QED
      BY <3>1, <3>2 DEF Hides
  <2> QED
    BY <1>1, <2>1, <2>2
<1> QED
  BY <1>2 DEF Hides

\* A stretch of a text without markers and calls.
LEMMA HidesStretch ==
    ASSUME NEW s \in Seq(Token), NEW i \in Nat \ {0}, NEW j \in Int, j <= Len(s),
           \A k \in i..j : s[k] \notin {Tool, Call}
    PROVE  Hides(SubSeq(s, i, j))
<1>1. Len(s) \in Nat
  BY LenProperties
<1>2. /\ i <= j + 1 => Len(SubSeq(s, i, j)) = j - i + 1
      /\ j < i => SubSeq(s, i, j) = <<>>
      /\ \A k \in 1..j - i + 1 : SubSeq(s, i, j)[k] = s[i + k - 1]
  BY SubSeqIsText
<1>3. CASE j < i
  <2>1. Hides(<<>>)
    BY NoText DEF Hides
  <2> QED
    BY <1>2, <1>3, <2>1
<1>4. CASE i <= j
  <2> DEFINE u == SubSeq(s, i, j)
  <2>1. Len(u) = j - i + 1
    BY <1>2, <1>4
  <2>2. ASSUME NEW k \in 1..j - i + 1
        PROVE  u[k] \notin {Tool, Call}
    <3>1. i + k - 1 \in i..j /\ u[k] = s[i + k - 1]
      BY <1>2
    <3> QED
      BY <3>1
  <2> HIDE DEF u
  <2>3. Hides(u)
    BY <2>1, <2>2 DEF Hides
  <2> QED
    BY <2>3 DEF u
<1> QED
  BY <1>3, <1>4

\* parseToolCalls leaves no part of a tidy block in the text.
LEMMA VisibleTextHides ==
    ASSUME NEW s \in Seq(Token), Tidy(s)
    PROVE  Hides(VisibleText(s))
<1> DEFINE end == BlockEnd(s)
           n == Len(s) + 1
<1>1. Len(s) \in Nat /\ DOMAIN s = 1..Len(s) /\ n \in Nat /\ 1 \in 1..n
  BY LenProperties
<1>2. end \in Stretches(s)
  BY BlockEndType
<1>3. \A i \in 1..Len(s) : end[i] = 0 \/ end[i] \in i..Len(s)
  BY <1>1, <1>2 DEF Stretches
<1>4. PICK w \in [1..Len(s) + 1 -> Seq(Token)] :
         /\ Without(s, end) = w[1]
         /\ w[Len(s) + 1] = <<>>
         /\ \A i \in 1..Len(s) : /\ end[i] # 0 => w[i] = w[end[i] + 1]
                                 /\ end[i] = 0 => w[i] = <<s[i]>> \o w[i + 1]
  BY <1>2, WithoutFrom
<1>5. ASSUME NEW i \in 1..Len(s), Free(s, i)
      PROVE  /\ end[i] # 0 => Free(s, end[i] + 1)
             /\ end[i] = 0 => Free(s, i + 1) /\ s[i] \notin {Tool, Call}
  BY <1>5, FreeNext
<1> HIDE DEF end
<1> DEFINE S == {i \in 1..n : Free(s, i) => Hides(w[i])}
<1>6. ASSUME NEW i \in 1..n, \A j \in i + 1..n : j \in S
      PROVE  i \in S
  <2>1. SUFFICES ASSUME Free(s, i)
                 PROVE  Hides(w[i])
    OBVIOUS
  <2>2. CASE i = n
    <3>1. w[i] = <<>> /\ Len(w[i]) = 0
      BY <1>4, <2>2, NoText
    <3> QED
      BY <3>1 DEF Hides
  <2>3. CASE i # n /\ end[i] # 0
    <3>1. i \in 1..Len(s) /\ end[i] + 1 \in i + 1..n
      BY <1>1, <1>3, <2>3
    <3>2. Free(s, end[i] + 1) /\ w[i] = w[end[i] + 1]
      BY <1>4, <1>5, <2>1, <2>3, <3>1
    <3> QED
      BY <1>6, <3>1, <3>2
  <2>4. CASE i # n /\ end[i] = 0
    <3>1. i \in 1..Len(s) /\ i + 1 \in i + 1..n
      BY <1>1, <2>4
    <3>2. /\ Free(s, i + 1) /\ s[i] \notin {Tool, Call}
          /\ w[i] = <<s[i]>> \o w[i + 1]
      BY <1>4, <1>5, <2>1, <2>4, <3>1
    <3>3. Hides(w[i + 1]) /\ w[i + 1] \in Seq(Token)
      BY <1>4, <1>6, <3>1, <3>2
    <3>4. <<s[i]>> \in Seq(Token) /\ Hides(<<s[i]>>)
      BY <3>1, <3>2, <1>1 DEF Hides
    <3> QED
      BY <3>2, <3>3, <3>4, HidesAll
  <2> QED
    BY <2>2, <2>3, <2>4
<1>7. 1..n \subseteq S
  <2> HIDE DEF S, n
  <2> QED
    BY <1>1, <1>6, Downward
<1>8. Free(s, 1)
  BY DEF Free
<1>9. Hides(Without(s, end)) /\ Without(s, end) \in Seq(Token)
  BY <1>1, <1>4, <1>7, <1>8
<1> DEFINE t == Without(s, end)
<1> HIDE DEF t, S
<1>10. Hides(TrimSpace(t))
  <2>1. t \in Seq(Token) /\ Hides(t)
    BY <1>9 DEF t
  <2>2. CASE Solid(t) = {}
    <3>1. TrimSpace(t) = <<>>
      BY <2>1, <2>2, TrimSpaceIs
    <3>2. Hides(<<>>)
      BY NoText DEF Hides
    <3> QED
      BY <3>1, <3>2
  <2>3. CASE Solid(t) # {}
    <3>1. PICK a, b \in 1..Len(t) : TrimSpace(t) = SubSeq(t, a, b)
      BY <2>1, <2>3, TrimSpaceIs
    <3>2. Len(t) \in Nat
      BY <2>1, LenProperties
    <3>3. a \in Nat \ {0} /\ b \in Int /\ b <= Len(t) /\ \A k \in a..b : k \in 1..Len(t)
      BY <3>1, <3>2
    <3>4. \A k \in a..b : t[k] \notin {Tool, Call}
      BY <2>1, <3>3 DEF Hides
    <3> QED
      BY <2>1, <3>1, <3>3, <3>4, HidesStretch
  <2> QED
    BY <2>2, <2>3
<1> QED
  BY <1>10 DEF VisibleText, t, end

\* What one turn of the gate's loop sends.
LEMMA TurnSends ==
    ASSUME NEW s, NEW g, NEW i, NEW open, NEW close,
           open = OpenFrom(s, i), close = CloseFrom(s, open + 2)
    PROVE  /\ open > Len(s) =>
                 Turn(s, g, i).sent = SubSeq(s, i, Len(s) - PartialPrefixLength(SubSeq(s, i, Len(s))))
           /\ ~ (open > Len(s)) /\ close > Len(s) => Turn(s, g, i).sent = SubSeq(s, i, open - 1)
           /\ ~ (open > Len(s)) /\ ~ (close > Len(s)) =>
                 Turn(s, g, i).sent = SubSeq(s, i, open - 1) \o g[close + 1].sent
<1>1. \A x, y, z : Gate(x, y, z).sent = x
  BY DEF Gate
<1> DEFINE end == Len(s) - PartialPrefixLength(SubSeq(s, i, Len(s)))
<1>2. Turn(s, g, i) =
         IF open > Len(s)
         THEN Gate(SubSeq(s, i, end), SubSeq(s, end + 1, Len(s)), FALSE)
         ELSE IF close > Len(s)
         THEN Gate(SubSeq(s, i, open - 1), SubSeq(s, open + 2, Len(s)), TRUE)
         ELSE Gate(SubSeq(s, i, open - 1) \o g[close + 1].sent, g[close + 1].buffer, g[close + 1].inFence)
  BY Zenon DEF Turn
<1> HIDE DEF end
<1>3. CASE open > Len(s)
  <2>1. Turn(s, g, i) = Gate(SubSeq(s, i, end), SubSeq(s, end + 1, Len(s)), FALSE)
    BY <1>2, <1>3, Zenon
  <2> QED
    BY <1>1, <1>3, <2>1, Zenon DEF end
<1>4. CASE ~ (open > Len(s)) /\ close > Len(s)
  <2>1. Turn(s, g, i) = Gate(SubSeq(s, i, open - 1), SubSeq(s, open + 2, Len(s)), TRUE)
    BY <1>2, <1>4, Zenon
  <2>2. Turn(s, g, i).sent = SubSeq(s, i, open - 1)
    <3> DEFINE t == SubSeq(s, i, open - 1)
               b == SubSeq(s, open + 2, Len(s))
    <3>1. Turn(s, g, i) = Gate(t, b, TRUE)
      BY <2>1, Zenon
    <3> HIDE DEF t, b
    <3>2. Turn(s, g, i).sent = t
      BY <3>1 DEF Gate
    <3> QED
      BY <3>2 DEF t
  <2> QED
    BY <1>4, <2>2
<1>5. CASE ~ (open > Len(s)) /\ ~ (close > Len(s))
  <2>1. Turn(s, g, i) = Gate(SubSeq(s, i, open - 1) \o g[close + 1].sent,
                             g[close + 1].buffer, g[close + 1].inFence)
    BY <1>2, <1>5, Zenon
  <2>2. Turn(s, g, i).sent = SubSeq(s, i, open - 1) \o g[close + 1].sent
    <3> DEFINE t == SubSeq(s, i, open - 1) \o g[close + 1].sent
               b == g[close + 1].buffer
               f == g[close + 1].inFence
    <3>1. Turn(s, g, i) = Gate(t, b, f)
      BY <2>1, Zenon
    <3> HIDE DEF t, b, f
    <3>2. Turn(s, g, i).sent = t
      BY <1>1, <3>1, Zenon
    <3> QED
      BY <3>2 DEF t
  <2> QED
    BY <1>5, <2>2
<1> QED
  BY <1>3, <1>4, <1>5, Zenon

\* The gate lets no part of a tidy block through, wherever the text is cut.
LEMMA PushHides ==
    ASSUME NEW r \in Seq(Token), NEW e \in Seq(Token), IsPrefix(e, r), Tidy(r)
    PROVE  Hides(Push(ClosedGate, e).sent)
<1> DEFINE n == Len(e) + 1
           S == {i \in 1..n : Free(r, i) => Hides(Outside(e)[i].sent)}
<1>1. /\ Len(e) \in Nat /\ Len(r) \in Nat /\ n \in Nat /\ 1 \in 1..n
      /\ DOMAIN e = 1..Len(e) /\ DOMAIN r = 1..Len(r)
  BY LenProperties
<1>2. Len(e) <= Len(r) /\ \A k \in 1..Len(e) : e[k] = r[k]
  BY PrefixIs
<1>3. ASSUME NEW i \in 1..n, Free(r, i)
      PROVE  /\ \A k \in i..Len(e) : k < OpenFrom(e, i) => e[k] \notin {Tool, Call}
             /\ OpenFrom(e, i) <= Len(e) => Free(r, OpenFrom(e, i))
  <2> DEFINE open == OpenFrom(e, i)
  <2>1. /\ open \in 1..Len(e) + 1
        /\ open <= Len(e) => open \in i..Len(e) - 1
        /\ \A j \in i..Len(e) : e[j] = Ticks /\ At(e, j + 1, Tool) => open <= j
    <3>1. i \in Nat \ {0}
      BY <1>1
    <3> QED
      BY <3>1, OpenFromIs
  <2> HIDE DEF open
  <2>2. ASSUME NEW b \in i..Len(e) - 1, Opens(r, b)
        PROVE  open <= b
    <3>1. b \in i..Len(e) /\ b \in 1..Len(e) /\ b + 1 \in 1..Len(e)
      BY <1>1
    <3>2. r[b] = Ticks /\ r[b + 1] = Tool
      BY <2>2 DEF Opens, At
    <3>3. e[b] = Ticks /\ At(e, b + 1, Tool)
      BY <1>1, <1>2, <3>1, <3>2 DEF At
    <3> QED
      BY <2>1, <3>1, <3>3
  <2>3. ASSUME NEW k \in i..Len(e), k < open, e[k] \in {Tool, Call}
        PROVE  FALSE
    <3>1. k \in 1..Len(r) /\ r[k] \in {Tool, Call}
      BY <1>1, <1>2, <2>3
    <3>2. PICK b \in 1..k - 1 : Opens(r, b) /\ k < BlockEnd(r)[b]
      BY <1>1, <3>1 DEF Tidy
    <3>3. b \in 1..Len(r)
      BY <1>1, <3>1
    <3>4. BlockEnd(r)[b] \in b + 4..Len(r)
      BY <3>2, <3>3, TidyBlock
    <3>5. ~ (b \in 1..i - 1)
      <4>1. b \in 1..i - 1 => BlockEnd(r)[b] < i
        BY <1>3, <3>2 DEF Free
      <4> QED
        BY <1>1, <3>2, <3>4, <4>1
    <3>6. b \in i..Len(e) - 1
      BY <1>1, <3>5
    <3> QED
      BY <1>1, <2>1, <2>2, <2>3, <3>2, <3>6
  <2>4. ASSUME open <= Len(e), NEW b \in 1..open - 1, Opens(r, b)
        PROVE  BlockEnd(r)[b] < open
    <3>1. open \in i..Len(e) - 1
      BY <2>1, <2>4
    <3>2. ~ (b \in i..Len(e) - 1)
      BY <1>1, <2>2, <2>4, <3>1
    <3>3. b \in 1..i - 1 /\ b \in 1..Len(r)
      BY <1>1, <1>2, <3>1, <3>2
    <3>4. BlockEnd(r)[b] < i /\ BlockEnd(r)[b] \in b + 4..Len(r)
      BY <1>3, <2>4, <3>3, TidyBlock DEF Free
    <3> QED
      BY <1>1, <3>1, <3>3, <3>4
  <2> QED
    BY <2>3, <2>4 DEF Free, open
<1>4. ASSUME NEW i \in 1..n, \A j \in i + 1..n : j \in S
      PROVE  i \in S
  <2> DEFINE open == OpenFrom(e, i)
             close == CloseFrom(e, open + 2)
             keep == PartialPrefixLength(SubSeq(e, i, Len(e)))
             end == Len(e) - keep
  <2>1. SUFFICES ASSUME Free(r, i)
                 PROVE  Hides(Outside(e)[i].sent)
    OBVIOUS
  <2>2. /\ open \in 1..Len(e) + 1
        /\ open <= Len(e) => open \in i..Len(e) - 1 /\ Opens(e, open)
    <3>1. /\ open \in 1..Len(e) + 1
          /\ open <= Len(e) => open \in i..Len(e) - 1 /\ e[open] = Ticks /\ e[open + 1] = Tool
      <4>1. i \in Nat \ {0}
        BY <1>1
      <4> QED
        BY <4>1, OpenFromIs
    <3> HIDE DEF open
    <3> QED
      BY <1>1, <3>1 DEF Opens, At
  <2>3. /\ \A k \in i..Len(e) : k < open => e[k] \notin {Tool, Call}
        /\ open <= Len(e) => Free(r, open)
    BY <1>3, <2>1
  <2>4. Outside(e)[i] = Turn(e, Outside(e), i)
    BY <1>1, OutsideEquation
  <2>5. Outside(e) \in [1..n -> GateState]
    BY OutsideType
  <2>6. keep \in {0, 1}
    BY <1>1, KeepIs
  <2>7. CASE open > Len(e)
    <3>1. Outside(e)[i].sent = SubSeq(e, i, end)
      BY <2>4, <2>7, TurnSends, Zenon
    <3> HIDE DEF keep, open
    <3>2. end \in Int /\ end <= Len(e) /\ \A k \in i..end : k \in i..Len(e) /\ k < open
      BY <1>1, <2>2, <2>6, <2>7
    <3>3. i \in Nat \ {0} /\ \A k \in i..end : e[k] \notin {Tool, Call}
      BY <1>1, <2>3, <3>2
    <3> HIDE DEF end
    <3>4. Hides(SubSeq(e, i, end))
      BY <3>2, <3>3, HidesStretch
    <3> QED
      BY <3>1, <3>4
  <2>8. CASE open <= Len(e)
    <3>0. ~ (open > Len(e))
      BY <1>1, <2>2, <2>8
    <3>1. /\ open - 1 \in Int /\ open - 1 <= Len(e) /\ i \in Nat \ {0}
          /\ \A k \in i..open - 1 : k \in i..Len(e) /\ k < open
      <4> HIDE DEF open
      <4> QED
        BY <1>1, <2>2, <2>8
    <3>2. \A k \in i..open - 1 : e[k] \notin {Tool, Call}
      BY <2>3, <3>1
    <3>3. Hides(SubSeq(e, i, open - 1)) /\ SubSeq(e, i, open - 1) \in Seq(Token)
      <4> HIDE DEF open
      <4> QED
        BY <3>1, <3>2, HidesStretch, SubSeqIsText
    <3>4. CASE close > Len(e)
      <4>1. Outside(e)[i].sent = SubSeq(e, i, open - 1)
        BY <2>4, <3>0, <3>4, TurnSends, Zenon
      <4> QED
        BY <3>3, <4>1
    <3>5. CASE ~ (close > Len(e))
      <4>1. Outside(e)[i].sent = SubSeq(e, i, open - 1) \o Outside(e)[close + 1].sent
        <5>0. open = OpenFrom(e, i) /\ close = CloseFrom(e, open + 2)
          OBVIOUS
        <5> HIDE DEF open, close
        <5>1. Turn(e, Outside(e), i).sent = SubSeq(e, i, open - 1) \o Outside(e)[close + 1].sent
          BY <3>0, <3>5, <5>0, TurnSends, ZenonT(60)
        <5> QED
          BY <2>4, <5>1, Zenon
      <4> HIDE DEF open
      <4>2. open + 2 \in Nat \ {0} /\ open \in 1..Len(r)
        BY <1>1, <1>2, <2>2, <2>8
      <4>3. /\ close \in 1..Len(e) + 1
            /\ close <= Len(e) => close \in open + 2..Len(e) /\ e[close] = Ticks
            /\ \A j \in open + 2..Len(e) : e[j] = Ticks => close <= j
        BY <4>2, CloseFromIs
      <4> HIDE DEF close
      <4>4. close \in open + 2..Len(e) /\ e[close] = Ticks
        BY <1>1, <3>5, <4>3
      <4>5. Opens(r, open)
        <5>1. open \in 1..Len(e) /\ open + 1 \in 1..Len(e)
          BY <1>1, <2>2, <2>8
        <5> QED
          BY <1>1, <1>2, <2>2, <2>8, <5>1 DEF Opens, At
      <4> DEFINE c == BlockEnd(r)[open]
      <4>6. /\ c \in open + 4..Len(r) /\ r[c] = Ticks
            /\ \A j \in open + 1..c - 1 : r[j] # Ticks
        BY <4>2, <4>5, TidyBlock
      <4>7. Free(r, c + 1)
        BY <2>3, <2>8, <4>2, <4>5, FreeNext
      <4> HIDE DEF c
      <4>8. c = close
        <5>1. r[close] = Ticks
          BY <1>1, <1>2, <4>2, <4>4
        <5>2. ~ (close \in open + 1..c - 1)
          BY <4>6, <5>1
        <5>3. c <= close
          BY <1>1, <4>2, <4>4, <4>6, <5>2
        <5>4. c \in open + 2..Len(e) /\ c \in 1..Len(e)
          BY <1>1, <4>2, <4>4, <4>6, <5>3
        <5>5. close <= c
          BY <1>2, <4>3, <4>6, <5>4
        <5> QED
          BY <1>1, <4>4, <4>6, <5>3, <5>5
      <4>9. close + 1 \in i + 1..n /\ close + 1 \in 1..n
        BY <1>1, <2>2, <2>8, <4>2, <4>4
      <4>10. Hides(Outside(e)[close + 1].sent)
        BY <1>4, <4>7, <4>8, <4>9
      <4>11. Outside(e)[close + 1].sent \in Seq(Token)
        BY <2>5, <4>9 DEF GateState
      <4> HIDE DEF S
      <4> QED
        BY <3>3, <4>1, <4>10, <4>11, HidesAll
    <3> QED
      BY <3>4, <3>5
  <2> QED
    <3> HIDE DEF open
    <3> QED
      BY <1>1, <2>2, <2>7, <2>8
<1>5. 1..n \subseteq S
  <2> HIDE DEF S, n
  <2> QED
    BY <1>1, <1>4, Downward
<1>6. Free(r, 1)
  BY DEF Free
<1>7. Hides(Outside(e)[1].sent)
  BY <1>1, <1>5, <1>6
<1> QED
  BY <1>7, PushOnClosed

\* Nothing of a tidy block has been shown while the answer comes.
LEMMA ReadingHides ==
    TypeInv /\ Shown /\ FramesDoNotMatter /\ pc = "reading" => TidyBlocksStayHidden
<1> SUFFICES ASSUME TypeInv, Shown, FramesDoNotMatter, pc = "reading",
                    Gated, ~ resent, ~ split, Tidy(ResultText)
             PROVE  HidesCalls
  BY DEF TidyBlocksStayHidden
<1>1. ResultText \in Seq(Token) /\ emitted \in Seq(Token) /\ visible \in Seq(Token)
  BY TypesAreUseful DEF TypeInv, TypeOK
<1>2. visible = Push(ClosedGate, emitted).sent /\ IsPrefix(emitted, ResultText)
  BY DEF Shown, FramesDoNotMatter
<1>3. Hides(visible)
  BY <1>1, <1>2, PushHides
<1>4. DOMAIN visible = 1..Len(visible)
  BY <1>1, LenProperties
<1> QED
  BY <1>3, <1>4 DEF Hides, HidesCalls

\* The rest of the text hides them as well.
LEMMA FinishHides ==
    ASSUME TypeInv, Shown, FramesDoNotMatter, TidyBlocksStayHidden, Finish
    PROVE  TidyBlocksStayHidden'
<1>1. /\ pc = "reading" /\ UNCHANGED <<api, stream, tools, answer, resent, split>>
      /\ visible' = visible \o (IF HasOnContent THEN RemainingText(Text, visible) ELSE Text)
  BY DEF Finish
<1>2. Gated' = Gated /\ ResultText' = ResultText
  BY <1>1 DEF Gated, ResultText
<1>3. SUFFICES ASSUME Gated, ~ resent, ~ split, Tidy(ResultText)
               PROVE  HidesCalls'
  BY <1>1, <1>2 DEF TidyBlocksStayHidden, Tidy, Opens, At
<1>4. /\ ResultText \in Seq(Token) /\ Text \in Seq(Token) /\ visible \in Seq(Token)
      /\ DOMAIN visible = 1..Len(visible) /\ Len(Text) \in Nat /\ Len(visible) \in Nat
  <2>1. ResultText \in Seq(Token) /\ Text \in Seq(Token) /\ visible \in Seq(Token)
    BY TypesAreUseful DEF TypeInv, TypeOK
  <2> QED
    BY <2>1, LenProperties
<1>5. Hides(visible)
  BY <1>3, <1>4 DEF Hides, HidesCalls, TidyBlocksStayHidden
<1>6. Hides(Text)
  <2>1. tools
    BY <1>3 DEF Gated
  <2> QED
    BY <1>3, <1>4, <2>1, VisibleTextHides DEF Text
<1> DEFINE rest == RemainingText(Text, visible)
<1>7. rest \in Seq(Token) /\ Hides(rest)
  <2>1. CASE IsPrefix(visible, Text)
    <3>1. rest = SubSeq(Text, Len(visible) + 1, Len(Text))
      BY <2>1 DEF RemainingText
    <3>2. /\ Len(visible) + 1 \in Nat \ {0} /\ Len(Text) \in Int
          /\ \A k \in Len(visible) + 1..Len(Text) : k \in 1..Len(Text)
      BY <1>4
    <3>3. \A k \in Len(visible) + 1..Len(Text) : Text[k] \notin {Tool, Call}
      BY <1>6, <3>2 DEF Hides
    <3>4. Hides(SubSeq(Text, Len(visible) + 1, Len(Text)))
      BY <1>4, <3>2, <3>3, HidesStretch
    <3>5. SubSeq(Text, Len(visible) + 1, Len(Text)) \in Seq(Token)
      BY <1>4, <3>2, SubSeqIsText
    <3> QED
      BY <3>1, <3>4, <3>5
  <2>2. CASE ~ IsPrefix(visible, Text)
    <3>1. rest = <<>>
      BY <2>2 DEF RemainingText
    <3> HIDE DEF rest
    <3> QED
      BY <3>1, NoText DEF Hides
  <2> QED
    BY <2>1, <2>2
<1> HIDE DEF rest
<1>8. visible' = visible \o rest
  BY <1>1, <1>3 DEF rest, Gated, HasOnContent
<1>9. Hides(visible \o rest) /\ DOMAIN (visible \o rest) = 1..Len(visible \o rest)
  BY <1>4, <1>5, <1>7, HidesAll, ConcatIs
<1> QED
  BY <1>8, <1>9 DEF Hides, HidesCalls

\* No part of a tidy tool block is ever shown, wherever the frames cut it
\* (tools.go:69).
THEOREM ToolBlocksStayHidden == Spec => []TidyBlocksStayHidden
<1> DEFINE Reading == pc = "reading"
<1>1. Init => TidyBlocksStayHidden
  BY DEF Init, TidyBlocksStayHidden, Gated
<1>2. TypeInv /\ Shown /\ FramesDoNotMatter /\ Reading => TidyBlocksStayHidden
  BY ReadingHides
<1>3. TypeInv /\ Shown /\ FramesDoNotMatter /\ TidyBlocksStayHidden /\ [Next]_vars
        => TidyBlocksStayHidden' \/ Reading'
  <2> SUFFICES ASSUME TypeInv, Shown, FramesDoNotMatter, TidyBlocksStayHidden, [Next]_vars
               PROVE  TidyBlocksStayHidden' \/ Reading'
    OBVIOUS
  <2> DEFINE Still == UNCHANGED <<api, stream, tools, answer, visible, resent, split>>
  <2>1. Still => TidyBlocksStayHidden'
    BY DEF TidyBlocksStayHidden, Gated, ResultText, HidesCalls, Tidy, Opens, At
  <2>2. CASE Refuse
    BY <2>1, <2>2 DEF Refuse, textVars
  <2>3. CASE Submit
    BY <2>3 DEF Submit
  <2>4. ASSUME NEW n \in 1..Len(answer), Frame(n)
        PROVE  Reading'
    BY <2>4 DEF Frame
  <2>5. CASE Resend
    BY <2>5 DEF Resend
  <2>6. CASE Fail
    BY <2>1, <2>6 DEF Fail, textVars
  <2>7. CASE Finish
    BY <2>7, FinishHides
  <2>8. CASE Continue
    BY <2>8 DEF Continue, TidyBlocksStayHidden, Gated
  <2>9. CASE UNCHANGED vars
    BY <2>1, <2>9 DEF vars, textVars
  <2> QED
    BY <2>2, <2>3, <2>4, <2>5, <2>6, <2>7, <2>8, <2>9 DEF Next
<1> HIDE DEF Reading
<1> QED
  BY <1>1, <1>2, <1>3, TypeInvHolds, ShownHolds, AnswerFramesDoNotMatter, PTL DEF Spec

-----------------------------------------------------------------------------
(* The calls of a conversation. *)

\* One text more: it is left out if it is empty.
LEMMA FilledAppend ==
    ASSUME NEW S, NEW ts \in Seq(S), NEW x \in S
    PROVE  /\ Filled(Append(ts, x)) = Filled(ts) \o IF x = <<>> THEN <<>> ELSE <<x>>
           /\ Filled(ts) \in Seq(S)
<1> DEFINE fs == Append(ts, x)
           n == Len(ts)
           some == [i \in DOMAIN ts |-> IF ts[i] = <<>> THEN <<>> ELSE <<ts[i]>>]
           seqs == [i \in DOMAIN fs |-> IF fs[i] = <<>> THEN <<>> ELSE <<fs[i]>>]
<1>1. /\ n \in Nat /\ fs \in Seq(S) /\ Len(fs) = n + 1 /\ DOMAIN fs = 1..n + 1 /\ DOMAIN ts = 1..n
      /\ fs[n + 1] = x /\ \A k \in 1..n : fs[k] = ts[k] /\ ts[k] \in S
  BY AppendProperties, LenProperties, ElementOfSeq
<1> HIDE DEF fs
<1>2. some \in Seq(Seq(S)) /\ Len(some) = n
  <2>1. ASSUME NEW i \in 1..n
        PROVE  (IF ts[i] = <<>> THEN <<>> ELSE <<ts[i]>>) \in Seq(S)
    BY <1>1
  <2> QED
    BY <1>1, <2>1
<1>3. seqs \in Seq(Seq(S)) /\ Len(seqs) = n + 1
  <2>1. ASSUME NEW i \in 1..n + 1
        PROVE  (IF fs[i] = <<>> THEN <<>> ELSE <<fs[i]>>) \in Seq(S)
    <3>1. fs[i] \in S
      BY <1>1
    <3> QED
      BY <3>1
  <2> QED
    BY <1>1, <2>1
<1>4. \A k \in 1..n : seqs[k] = some[k]
  BY <1>1
<1>5. seqs[n + 1] = IF x = <<>> THEN <<>> ELSE <<x>>
  BY <1>1
<1>6. Filled(fs) = FlattenSeq(seqs) /\ Filled(ts) = FlattenSeq(some)
  BY Zenon DEF Filled
<1> HIDE DEF seqs, some, n
<1>7. FlattenSeq(seqs) = FlattenSeq(some) \o seqs[n + 1]
  BY <1>2, <1>3, <1>4, FlattenStep
<1>8. FlattenSeq(some) \in Seq(S)
  BY <1>2, FlattenType
<1> QED
  BY <1>5, <1>6, <1>7, <1>8 DEF fs

\* No texts are no filled ones, and join to nothing.
LEMMA FilledNothing == Filled(<<>>) = <<>> /\ Join(<<>>) = <<>>
<1>1. <<>> \in Seq(Nat) /\ Len(<<>>) = 0 /\ DOMAIN <<>> = 1..Len(<<>>)
  BY EmptySeq, LenProperties
<1>2. Filled(<<>>) = FlattenSeq(<<>>) /\ Join(<<>>) = FlattenSeq(<<>>)
  BY <1>1 DEF Filled, Join
<1> QED
  BY <1>2, FlattenNothing

\* One text more: it is joined on a line of its own.
LEMMA JoinAppend ==
    ASSUME NEW ts \in Seq(Seq(Token)), NEW x \in Seq(Token)
    PROVE  /\ Join(Append(ts, x)) = Join(ts) \o IF Len(ts) = 0 THEN x ELSE <<Break>> \o x
           /\ Join(ts) \in Seq(Token)
<1> DEFINE fs == Append(ts, x)
           n == Len(ts)
           some == [i \in DOMAIN ts |-> IF i = 1 THEN ts[i] ELSE <<Break>> \o ts[i]]
           seqs == [i \in DOMAIN fs |-> IF i = 1 THEN fs[i] ELSE <<Break>> \o fs[i]]
<1>1. /\ n \in Nat /\ Len(fs) = n + 1 /\ DOMAIN fs = 1..n + 1 /\ DOMAIN ts = 1..n
      /\ fs[n + 1] = x /\ \A k \in 1..n : fs[k] = ts[k] /\ ts[k] \in Seq(Token)
  BY AppendProperties, LenProperties, ElementOfSeq
<1> HIDE DEF fs
<1>2. \A y \in Seq(Token) : <<Break>> \o y \in Seq(Token)
  <2>1. <<Break>> \in Seq(Token)
    BY DEF Token
  <2> QED
    BY <2>1, ConcatProperties
<1>3. some \in Seq(Seq(Token)) /\ Len(some) = n
  <2>1. ASSUME NEW i \in 1..n
        PROVE  (IF i = 1 THEN ts[i] ELSE <<Break>> \o ts[i]) \in Seq(Token)
    BY <1>1, <1>2
  <2> QED
    BY <1>1, <2>1
<1>4. seqs \in Seq(Seq(Token)) /\ Len(seqs) = n + 1
  <2>1. ASSUME NEW i \in 1..n + 1
        PROVE  (IF i = 1 THEN fs[i] ELSE <<Break>> \o fs[i]) \in Seq(Token)
    <3>1. fs[i] \in Seq(Token)
      <4>1. i = n + 1 \/ i \in 1..n
        BY <1>1
      <4> QED
        BY <1>1, <4>1
    <3> QED
      BY <1>2, <3>1
  <2> QED
    BY <1>1, <2>1
<1>5. \A k \in 1..n : seqs[k] = some[k]
  BY <1>1
<1>6. seqs[n + 1] = IF n = 0 THEN x ELSE <<Break>> \o x
  <2>1. n + 1 \in 1..n + 1 /\ (n + 1 = 1 <=> n = 0)
    BY <1>1
  <2> QED
    BY <1>1, <2>1
<1>7. Join(fs) = FlattenSeq(seqs) /\ Join(ts) = FlattenSeq(some)
  BY Zenon DEF Join
<1> HIDE DEF seqs, some, n
<1>8. FlattenSeq(seqs) = FlattenSeq(some) \o seqs[n + 1]
  BY <1>3, <1>4, <1>5, FlattenStep
<1>9. FlattenSeq(some) \in Seq(Token)
  BY <1>3, FlattenType
<1> QED
  BY <1>6, <1>7, <1>8, <1>9 DEF fs, n

\* The text of a content is a text.
LEMMA ContentTextType ==
    ASSUME NEW content \in ContentSet
    PROVE  ContentText(content) \in Seq(Token)
<1> DEFINE n == Len(content)
           texts == [i \in DOMAIN content |->
                        IF content[i].type = "text" THEN <<content[i].text>> ELSE <<>>]
<1>1. n \in Nat /\ DOMAIN content = 1..n /\ \A i \in 1..n : content[i].text \in Seq(Token)
  <2> DEFINE PartSet == [type : Strings, text : Seq(Token)]
  <2>1. \A part \in PartSet : part.text \in Seq(Token)
    OBVIOUS
  <2>2. content \in Seq(PartSet)
    BY DEF ContentSet
  <2> HIDE DEF PartSet
  <2>3. n \in Nat /\ DOMAIN content = 1..n /\ \A i \in 1..n : content[i] \in PartSet
    BY <2>2, LenProperties, ElementOfSeq
  <2> QED
    BY <2>1, <2>3
<1>2. texts \in Seq(Seq(Seq(Token)))
  <2> DEFINE Texts == Seq(Token)
  <2>1. \A i \in 1..n : content[i].text \in Texts
    BY <1>1
  <2> HIDE DEF Texts, n
  <2>2. ASSUME NEW i \in 1..n
        PROVE  (IF content[i].type = "text" THEN <<content[i].text>> ELSE <<>>) \in Seq(Texts)
    BY <2>1
  <2>3. texts \in Seq(Seq(Texts))
    BY <1>1, <2>2
  <2> QED
    BY <2>3 DEF Texts
<1>3. ContentText(content) = Join(FlattenSeq(texts))
  BY Zenon DEF ContentText
<1> HIDE DEF texts, n
<1>4. FlattenSeq(texts) \in Seq(Seq(Token))
  BY <1>2, FlattenType
<1> QED
  BY <1>3, <1>4, JoinAppend, WordType

\* What the texts and blocks ts say: the text, and the calls made.
Written(ts, text, made) ==
    /\ ts \in Seq(Seq(Token))
    /\ Len(ts) = 0 => Len(Join(ts)) = 0
    /\ Complete(Join(ts))
    /\ CallsIn(Join(ts)) = made
    /\ TrimSpace(Without(Join(ts), BlockEnd(Join(ts)))) = TrimSpace(text)

\* A text in which no tool block opens says itself, and no call.
LEMMA TextWritten ==
    ASSUME NEW text \in Seq(Token), Plain(text)
    PROVE  Written(Filled(<<text>>), text, <<>>)
<1> DEFINE one == IF text = <<>> THEN <<>> ELSE <<text>>
<1>1. Filled(<<text>>) = one
  <2>1. <<>> \in Seq(Seq(Token)) /\ Append(<<>>, text) = <<text>>
    OBVIOUS
  <2>2. Filled(Append(<<>>, text)) = Filled(<<>>) \o one
    BY <2>1, FilledAppend
  <2>3. <<>> \o one = one /\ one \in Seq(Seq(Token))
    <3>1. one \in Seq(Seq(Token))
      OBVIOUS
    <3> QED
      BY <3>1, ConcatEmptySeq
  <2> QED
    BY <2>1, <2>2, <2>3, FilledNothing
<1>2. one \in Seq(Seq(Token)) /\ Join(one) = text
  <2>1. one \in Seq(Seq(Token))
    OBVIOUS
  <2>2. CASE text = <<>>
    BY <2>1, <2>2, FilledNothing, Zenon
  <2>3. CASE text # <<>>
    <3>1. <<>> \in Seq(Seq(Token)) /\ Append(<<>>, text) = <<text>> /\ Len(<<>>) = 0
      OBVIOUS
    <3>2. Join(<<text>>) = <<>> \o text
      BY <3>1, JoinAppend, FilledNothing
    <3>3. <<>> \o text = text
      BY ConcatEmptySeq
    <3> QED
      BY <2>1, <2>3, <3>2, <3>3, Zenon
  <2> QED
    BY <2>1, <2>2, <2>3
<1>3. Len(one) = 0 => Len(text) = 0
  <2>1. text # <<>> => Len(one) = 1
    OBVIOUS
  <2>2. text = <<>> => Len(text) = 0
    BY NoText, Zenon
  <2> QED
    BY <2>1, <2>2
<1> HIDE DEF one
<1>4. Complete(text) /\ CallsIn(text) = <<>> /\ Without(text, BlockEnd(text)) = text
  BY PlainIsComplete
<1> QED
  BY <1>1, <1>2, <1>3, <1>4 DEF Written

\* A call more is written as a block, and is read back as itself.
LEMMA CallWritten ==
    ASSUME NEW ts, NEW text, NEW made, NEW c \in Recalled, Written(ts, text, made)
    PROVE  LET x == SerializePriorToolCall(c)
           IN  /\ x \in Seq(Token)
               /\ Written(ts \o IF x = <<>> THEN <<>> ELSE <<x>>, text,
                          made \o IF c = <<>> THEN <<>> ELSE <<c>>)
<1> DEFINE x == SerializePriorToolCall(c)
           s == Join(ts)
           d == IF Len(ts) = 0 THEN <<>> ELSE <<Break>>
<1>1. /\ ts \in Seq(Seq(Token)) /\ (Len(ts) = 0 => Len(s) = 0) /\ Complete(s) /\ CallsIn(s) = made
      /\ TrimSpace(Without(s, BlockEnd(s))) = TrimSpace(text)
  BY DEF Written
<1>2. s \in Seq(Token) /\ made \in Seq(Made)
  <2>1. s \in Seq(Token)
    BY <1>1, JoinAppend, WordType
  <2> HIDE DEF s
  <2> QED
    BY <1>1, <2>1, CallsInType
<1>3. CASE c = <<>>
  <2>1. x = <<>> /\ <<>> \in Seq(Token)
    BY <1>3, NoText, Zenon DEF SerializePriorToolCall
  <2>2. ts \o <<>> = ts /\ made \o <<>> = made
    BY <1>1, <1>2, ConcatEmptySeq
  <2> QED
    BY <1>3, <2>1, <2>2, Zenon
<1>4. CASE c # <<>>
  <2>1. c \in Made /\ c \in Seq(Token)
    BY <1>4 DEF Recalled, Made
  <2>2. x = BlockOf(c)
    BY <1>4, Zenon DEF SerializePriorToolCall, BlockOf
  <2>3. x \in Seq(Token) /\ x # <<>>
    <3>1. BlockOf(c) \in Seq(Token) /\ Len(BlockOf(c)) = Len(c) + 5 /\ Len(c) \in Nat
      BY <2>1, BlockTokens
    <3>2. Len(BlockOf(c)) # 0
      BY <3>1
    <3> QED
      BY <2>2, <3>1, <3>2, NoText, Zenon
  <2> HIDE DEF x
  <2>4. ts \o <<x>> = Append(ts, x) /\ Append(ts, x) \in Seq(Seq(Token)) /\ Len(Append(ts, x)) # 0
    <3> DEFINE S == Seq(Token)
    <3>1. ts \in Seq(S) /\ x \in S
      BY <1>1, <2>3
    <3> HIDE DEF S
    <3>2. ts \o <<x>> = Append(ts, x) /\ Append(ts, x) \in Seq(S) /\ Len(Append(ts, x)) # 0
      BY <3>1, AppendIsConcat, AppendProperties, LenProperties
    <3> QED
      BY <3>2 DEF S
  <2>5. /\ d \in Seq(Token) /\ (d = <<Break>> \/ (Len(d) = 0 /\ Len(s) = 0))
        /\ Join(Append(ts, x)) = s \o (d \o x)
    <3>1. Join(Append(ts, x)) = s \o IF Len(ts) = 0 THEN x ELSE <<Break>> \o x
      BY <1>1, <2>3, JoinAppend
    <3>2. CASE Len(ts) = 0
      <4>1. d = <<>> /\ <<>> \o x = x
        BY <2>3, <3>2, ConcatEmptySeq
      <4> QED
        BY <1>1, <3>1, <3>2, <4>1, NoText
    <3>3. CASE Len(ts) # 0
      <4>1. d = <<Break>> /\ <<Break>> \in Seq(Token)
        BY <3>3 DEF Token
      <4> QED
        BY <3>1, <3>3, <4>1
    <3> QED
      BY <3>2, <3>3
  <2> DEFINE t == s \o (d \o x)
  <2>6. /\ t \in Seq(Token) /\ Complete(t) /\ CallsIn(t) = made \o <<c>>
        /\ Without(t, BlockEnd(t)) = Without(s, BlockEnd(s)) \o d
    <3> HIDE DEF d, s
    <3>1. /\ Complete(s \o (d \o BlockOf(c))) /\ s \o (d \o BlockOf(c)) \in Seq(Token)
          /\ CallsIn(s \o (d \o BlockOf(c))) = CallsIn(s) \o <<c>>
          /\ Without(s \o (d \o BlockOf(c)), BlockEnd(s \o (d \o BlockOf(c)))) = Without(s, BlockEnd(s)) \o d
      BY <1>1, <1>2, <2>1, <2>5, CallBehind
    <3> QED
      BY <1>1, <2>2, <3>1
  <2>7. TrimSpace(Without(t, BlockEnd(t))) = TrimSpace(text)
    <3> DEFINE kept == Without(s, BlockEnd(s))
    <3>1. kept \in Seq(Token)
      <4> HIDE DEF s
      <4> QED
        BY <1>2, BlockEndType, WithoutType
    <3> HIDE DEF kept
    <3>2. TrimSpace(kept \o d) = TrimSpace(kept)
      <4>1. CASE Len(ts) = 0
        <5>1. d = <<>> /\ kept \o <<>> = kept
          BY <3>1, <4>1, ConcatEmptySeq
        <5> QED
          BY <5>1
      <4>2. CASE Len(ts) # 0
        <5>1. d = <<Break>>
          BY <4>2
        <5> QED
          BY <3>1, <5>1, TrimBreak, Zenon
      <4> QED
        BY <4>1, <4>2
    <3> QED
      BY <1>1, <2>6, <3>2 DEF kept
  <2> HIDE DEF t, s, d
  <2>8. Written(Append(ts, x), text, made \o <<c>>)
    <3>1. Join(Append(ts, x)) = t
      BY <2>5 DEF t
    <3> QED
      BY <2>4, <2>6, <2>7, <3>1 DEF Written
  <2>9. Written(ts \o <<x>>, text, made \o <<c>>)
    BY <2>4, <2>8
  <2> QED
    BY <1>4, <2>3, <2>9, Zenon DEF x
<1> QED
  BY <1>3, <1>4

\* The turn of an assistant is its text and the block of every call, each of
\* which is read back as the call.
LEMMA TurnWritten ==
    ASSUME NEW text \in Seq(Token), NEW recalled \in Seq(Recalled), Plain(text)
    PROVE  LET ts == <<text>> \o [i \in DOMAIN recalled |-> SerializePriorToolCall(recalled[i])]
           IN  Written(Filled(ts), text, Filled(recalled))
<1> DEFINE n == Len(recalled)
           some(k) == [i \in 1..k |-> recalled[i]]
           blocks(k) == [i \in 1..k |-> SerializePriorToolCall(recalled[i])]
           list(k) == <<text>> \o blocks(k)
           Good(k) == Written(Filled(list(k)), text, Filled(some(k)))
           S == {k \in 1..n : Good(k)}
<1>1. n \in Nat /\ DOMAIN recalled = 1..n /\ \A i \in 1..n : recalled[i] \in Recalled
  BY LenProperties, ElementOfSeq
<1>2. \A c \in Recalled : SerializePriorToolCall(c) \in Seq(Token)
  BY TextWritten, CallWritten
<1>3. ASSUME NEW k \in 0..n
      PROVE  /\ some(k) \in Seq(Recalled) /\ Len(some(k)) = k
             /\ blocks(k) \in Seq(Seq(Token)) /\ Len(blocks(k)) = k
  <2>1. \A i \in 1..k : i \in 1..n
    BY <1>1
  <2>2. k \in Nat /\ \A i \in 1..k : recalled[i] \in Recalled /\ SerializePriorToolCall(recalled[i]) \in Seq(Token)
    BY <1>1, <1>2, <2>1
  <2> DEFINE T == Seq(Token)
  <2> HIDE DEF T
  <2>3. \A i \in 1..k : SerializePriorToolCall(recalled[i]) \in T
    BY <2>2 DEF T
  <2>4. blocks(k) \in Seq(T) /\ Len(blocks(k)) = k
    BY <2>2, <2>3
  <2>5. some(k) \in Seq(Recalled) /\ Len(some(k)) = k
    BY <2>2
  <2> QED
    BY <2>4, <2>5 DEF T
<1>4. Good(0)
  <2>1. blocks(0) = <<>> /\ some(0) = <<>>
    <3>1. 0 \in 0..n
      BY <1>1
    <3> QED
      BY <1>3, <3>1, EmptySeq
  <2>2. <<text>> \o <<>> = <<text>>
    <3>1. <<text>> \in Seq(Seq(Token))
      OBVIOUS
    <3> QED
      BY <3>1, ConcatEmptySeq
  <2>3. list(0) = <<text>>
    BY <2>1, <2>2
  <2> HIDE DEF list, some
  <2> QED
    BY <2>1, <2>3, TextWritten, FilledNothing
<1>5. ASSUME NEW k \in 1..n, Good(k - 1)
      PROVE  Good(k)
  <2> DEFINE c == recalled[k]
             x == SerializePriorToolCall(c)
  <2>1. c \in Recalled /\ x \in Seq(Token) /\ k - 1 \in 0..n /\ k \in 0..n /\ k \in Nat \ {0} /\ k - 1 + 1 = k
    BY <1>1, <1>2
  <2>2. some(k) = Append(some(k - 1), c)
    <3> DEFINE a == some(k)
               b == Append(some(k - 1), c)
    <3>1. a \in Seq(Recalled) /\ Len(a) = k
      BY <1>3, <2>1
    <3>2. /\ b \in Seq(Recalled) /\ Len(b) = k
          /\ b[k] = c /\ \A i \in 1..k - 1 : b[i] = some(k - 1)[i]
      <4>1. some(k - 1) \in Seq(Recalled) /\ Len(some(k - 1)) = k - 1
        BY <1>3, <2>1
      <4> HIDE DEF some, c
      <4> QED
        BY <2>1, <4>1, AppendProperties
    <3>3. ASSUME NEW i \in 1..k
          PROVE  a[i] = b[i]
      <4>1. i = k \/ i \in 1..k - 1
        BY <2>1
      <4> HIDE DEF b
      <4> QED
        BY <2>1, <3>2, <4>1
    <3> HIDE DEF a, b
    <3>4. a = b
      BY <3>1, <3>2, <3>3, SeqEqual
    <3> QED
      BY <3>4 DEF a, b
  <2>3. blocks(k) = Append(blocks(k - 1), x)
    <3> DEFINE a == blocks(k)
               b == Append(blocks(k - 1), x)
               T == Seq(Token)
    <3> HIDE DEF T
    <3>1. a \in Seq(T) /\ Len(a) = k
      BY <1>3, <2>1 DEF T
    <3>2. /\ b \in Seq(T) /\ Len(b) = k
          /\ b[k] = x /\ \A i \in 1..k - 1 : b[i] = blocks(k - 1)[i]
      <4>1. blocks(k - 1) \in Seq(T) /\ Len(blocks(k - 1)) = k - 1 /\ x \in T
        BY <1>3, <2>1 DEF T
      <4> HIDE DEF blocks, x
      <4> QED
        BY <2>1, <4>1, AppendProperties
    <3>3. ASSUME NEW i \in 1..k
          PROVE  a[i] = b[i]
      <4>1. i = k \/ i \in 1..k - 1
        BY <2>1
      <4> HIDE DEF b
      <4> QED
        BY <2>1, <3>2, <4>1
    <3> HIDE DEF a, b
    <3>4. a = b
      BY <3>1, <3>2, <3>3, SeqEqual
    <3> QED
      BY <3>4 DEF a, b
  <2>4. /\ some(k - 1) \in Seq(Recalled) /\ blocks(k - 1) \in Seq(Seq(Token))
        /\ <<text>> \in Seq(Seq(Token))
    <3>1. <<text>> \in Seq(Seq(Token))
      OBVIOUS
    <3> QED
      BY <1>3, <2>1, <3>1
  <2> HIDE DEF some, blocks, c, x
  <2>5. list(k) = Append(list(k - 1), x) /\ list(k - 1) \in Seq(Seq(Token))
    <3> DEFINE T == Seq(Token)
               b == blocks(k - 1)
               one == <<text>>
    <3>1. one \in Seq(T) /\ b \in Seq(T) /\ x \in T
      BY <2>1, <2>4
    <3> HIDE DEF T, b, one
    <3>2. one \o b \in Seq(T) /\ <<x>> \in Seq(T)
      BY <3>1, ConcatProperties
    <3>3. one \o (b \o <<x>>) = (one \o b) \o <<x>>
      BY <3>1, <3>2, ConcatAssociative
    <3>4. Append(b, x) = b \o <<x>> /\ Append(one \o b, x) = (one \o b) \o <<x>>
      BY <3>1, <3>2, AppendIsConcat
    <3>5. one \o Append(b, x) = Append(one \o b, x)
      BY <3>3, <3>4
    <3> QED
      BY <2>3, <3>2, <3>5 DEF T, b, one
  <2>6. /\ Filled(list(k)) = Filled(list(k - 1)) \o IF x = <<>> THEN <<>> ELSE <<x>>
        /\ Filled(some(k)) = Filled(some(k - 1)) \o IF c = <<>> THEN <<>> ELSE <<c>>
    <3> HIDE DEF list
    <3> QED
      BY <2>1, <2>2, <2>4, <2>5, FilledAppend, ZenonT(30)
  <2>7. Written(Filled(list(k - 1)) \o IF x = <<>> THEN <<>> ELSE <<x>>, text,
                Filled(some(k - 1)) \o IF c = <<>> THEN <<>> ELSE <<c>>)
    <3>1. Written(Filled(list(k - 1)), text, Filled(some(k - 1)))
      BY <1>5 DEF some, list, blocks
    <3> HIDE DEF list
    <3> QED
      BY <2>1, <3>1, CallWritten DEF x
  <2>8. Written(Filled(list(k)), text, Filled(some(k)))
    <3> HIDE DEF list
    <3> QED
      BY <2>6, <2>7
  <2> QED
    BY <2>8 DEF some, list, blocks
<1>6. Good(n)
  <2>1. 1..n \subseteq S
    <3>1. ASSUME NEW k \in 1..n, \A j \in 1..k - 1 : j \in S
          PROVE  k \in S
      <4>1. Good(k - 1)
        <5> HIDE DEF Good
        <5>1. CASE k = 1
          BY <1>4, <5>1
        <5>2. CASE k # 1
          <6>1. k - 1 \in 1..k - 1
            BY <1>1, <5>2
          <6> QED
            BY <3>1, <6>1
        <5> QED
          BY <5>1, <5>2
      <4>2. Good(k)
        BY <1>5, <4>1
      <4> HIDE DEF Good
      <4> QED
        BY <4>2
    <3> HIDE DEF S, n
    <3> QED
      BY <1>1, <3>1, Upward
  <2> HIDE DEF Good
  <2>2. n = 0 \/ n \in 1..n
    BY <1>1
  <2> QED
    BY <1>4, <2>1, <2>2
<1>7. some(n) = recalled
  <2>1. \A i \in 1..n : some(n)[i] = recalled[i]
    OBVIOUS
  <2>2. some(n) \in Seq(Recalled) /\ Len(some(n)) = n
    <3>1. n \in 0..n
      BY <1>1
    <3> QED
      BY <1>3, <3>1
  <2> HIDE DEF some, n
  <2> QED
    BY <2>1, <2>2, SeqEqual DEF n
<1>8. list(n) = <<text>> \o [i \in DOMAIN recalled |-> SerializePriorToolCall(recalled[i])]
  BY <1>1
<1> HIDE DEF some, list
<1> QED
  BY <1>6, <1>7, <1>8

\* A conversation tells the model the text of every turn and the calls it made,
\* as it would have written them itself (prompt.go:15, tools.go:33): what
\* parseToolCalls makes of the section is what the section was made of.
THEOREM HistoryTellsTheCalls == Spec => []HistoryKeepsCalls
<1>1. TypeOK => HistoryKeepsCalls
  <2> SUFFICES ASSUME TypeOK, NEW i \in DOMAIN request.turns,
                      \A k \in DOMAIN ContentText(request.turns[i].content) :
                          ~ Opens(ContentText(request.turns[i].content), k)
               PROVE  /\ CallsIn(AssistantText(request.turns[i])) = Filled(request.turns[i].calls)
                      /\ VisibleText(AssistantText(request.turns[i]))
                            = TrimSpace(ContentText(request.turns[i].content))
    BY DEF HistoryKeepsCalls
  <2> DEFINE turn == request.turns[i]
             text == ContentText(turn.content)
             ts == <<text>> \o [k \in DOMAIN turn.calls |-> SerializePriorToolCall(turn.calls[k])]
  <2>1. turn \in TurnSet
    <3>1. request.turns \in Seq(TurnSet)
      BY DEF TypeOK, RequestSet
    <3> HIDE DEF TurnSet
    <3> QED
      BY <3>1, ElementOfSeq
  <2>2. turn.content \in ContentSet /\ turn.calls \in Seq(Recalled)
    BY <2>1 DEF TurnSet
  <2> HIDE DEF turn
  <2>3. text \in Seq(Token)
    BY <2>2, ContentTextType
  <2>4. Plain(text)
    <3>1. DOMAIN text = 1..Len(text)
      BY <2>3, LenProperties
    <3> QED
      BY <3>1 DEF Plain, Opens, turn
  <2> HIDE DEF text
  <2>5. Written(Filled(ts), text, Filled(turn.calls))
    BY <2>2, <2>3, <2>4, TurnWritten
  <2>6. AssistantText(turn) = Join(Filled(ts))
    BY Zenon DEF AssistantText, text
  <2>7. /\ CallsIn(AssistantText(turn)) = Filled(turn.calls)
        /\ VisibleText(AssistantText(turn)) = TrimSpace(text)
    <3> HIDE DEF ts
    <3> QED
      BY <2>5, <2>6 DEF Written, VisibleText
  <2> QED
    BY <2>7 DEF turn, text
<1> QED
  BY <1>1, AnswerTypeCorrect, PTL
=============================================================================
