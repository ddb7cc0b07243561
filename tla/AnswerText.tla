----------------------------- MODULE AnswerText -----------------------------
(***************************************************************************)
(* What the gateway does to the text of an answer: CleanText and           *)
(* DeltaTracker of internal/gemini/parser.go, parseToolCalls, the tool     *)
(* fence gate and remainingText of internal/openai/tools.go.  A text is a  *)
(* sequence of tokens, the shortest pieces these functions tell apart.     *)
(***************************************************************************)
EXTENDS Integers, Sequences, SequencesExt

Ticks == "ticks"        \* the three backquotes
Tool  == "tool_call"    \* after Ticks: opens a tool block
Code  == "?code_..."    \* after Ticks: opens an artifact
Break == "newline"
Call  == "{...}"        \* (part of) a JSON object that names a function
Word  == "word"
Token == {Ticks, Tool, Code, Break, Call, Word}

\* strings.TrimSpace.
Solid(s) == {i \in DOMAIN s : s[i] # Break}
TrimSpace(s) ==
    IF Solid(s) = {} THEN <<>>
    ELSE SubSeq(s, CHOOSE i \in Solid(s) : \A j \in Solid(s) : i <= j,
                   CHOOSE i \in Solid(s) : \A j \in Solid(s) : i >= j)

\* The least element of a set of positions of s, or the one behind s.
FirstOf(s, P) == IF P = {} THEN Len(s) + 1 ELSE CHOOSE i \in P : \A j \in P : i <= j

\* What the places of a pass over a text contribute: from place i the pass goes
\* on at next[i], or ends where that is 0.
AlongFrom(next, piece) ==
    LET along[i \in DOMAIN next] ==
            IF next[i] = 0 THEN piece[i] ELSE piece[i] \o along[next[i]]
    IN  along
Along(next, piece) == AlongFrom(next, piece)[1]

\* The pass of ReplaceAll and FindAll, left to right: the match that begins at i
\* ends at end[i]; end[i] = 0 where none begins.
Matching(s, end) ==
    [i \in 1..Len(s) + 1 |->
        IF i > Len(s) THEN 0 ELSE IF end[i] # 0 THEN end[i] + 1 ELSE i + 1]

\* s without its matches.
Without(s, end) ==
    Along(Matching(s, end),
          [i \in 1..Len(s) + 1 |-> IF i > Len(s) \/ end[i] # 0 THEN <<>> ELSE <<s[i]>>])

At(s, i, mark) == i \in DOMAIN s /\ s[i] = mark

\* artifactPattern: the end of an artifact that is complete, with one newline.
ArtifactEnd(s) ==
    [i \in DOMAIN s |->
        LET close == FirstOf(s, {j \in i + 2..Len(s) : s[j] = Ticks})
        IN  IF ~ (At(s, i, Ticks) /\ At(s, i + 1, Code)) \/ close > Len(s) THEN 0
            ELSE IF At(s, close + 1, Break) THEN close + 1 ELSE close]

CleanText(s) == TrimSpace(Without(s, ArtifactEnd(s)))

\* DeltaTracker.Push: the part of a cumulative text not passed on yet.
TrackerDelta(emitted, cumulative) ==
    LET c == CleanText(cumulative)
    IN  IF Len(c) <= Len(emitted) \/ ~ IsPrefix(emitted, c) THEN <<>>
        ELSE SubSeq(c, Len(emitted) + 1, Len(c))

\* toolCallPattern: the end of a tool block; its lines stand between newlines.
BlockEnd(s) ==
    [i \in DOMAIN s |->
        LET close == FirstOf(s, {j \in i + 4..Len(s) : s[j - 1] = Break /\ s[j] = Ticks})
        IN  IF At(s, i, Ticks) /\ At(s, i + 1, Tool) /\ At(s, i + 2, Break) /\ close <= Len(s)
            THEN close ELSE 0]

\* The JSON of a block decodes, and names a function.
IsCall(body) == LET b == TrimSpace(body)
                IN  /\ b # <<>> /\ b[1] = Call /\ b[Len(b)] = Call
                    /\ \A i \in DOMAIN b : b[i] \in {Call, Ticks}

\* parseToolCalls: the text around the blocks, and the calls.
VisibleText(s) == TrimSpace(Without(s, BlockEnd(s)))
BodyOf(s, i) == TrimSpace(SubSeq(s, i + 3, BlockEnd(s)[i] - 2))
CallsIn(s) ==
    LET end == BlockEnd(s)
    IN  Along(Matching(s, end),
              [i \in 1..Len(s) + 1 |->
                  IF i <= Len(s) /\ end[i] # 0 /\ IsCall(BodyOf(s, i)) THEN <<BodyOf(s, i)>> ELSE <<>>])

\* toolFenceGate.
Gate(sent, buffer, inFence) == [sent |-> sent, buffer |-> buffer, inFence |-> inFence]
ClosedGate == Gate(<<>>, <<>>, FALSE)

\* A slip: the start of a marker is not held back.
PartialPrefixIgnored(s) == 0

\* partialPrefixLength: only Ticks begins the marker Ticks, Tool.
PartialPrefixLength(s) == IF s # <<>> /\ s[Len(s)] = Ticks THEN 1 ELSE 0

\* strings.Index of the marker that opens a fence, and of the one that closes it.
OpenFrom(s, i) == FirstOf(s, {j \in i..Len(s) : s[j] = Ticks /\ At(s, j + 1, Tool)})
CloseFrom(s, i) == FirstOf(s, {j \in i..Len(s) : s[j] = Ticks})

\* The loop of Push over the buffer s, from place i outside a fence: what it
\* sends, keeps, and where it stands.
Outside(s) ==
    LET outside[i \in 1..Len(s) + 1] ==
            LET open  == OpenFrom(s, i)
                close == CloseFrom(s, open + 2)
                end   == Len(s) - PartialPrefixLength(SubSeq(s, i, Len(s)))
            IN  IF open > Len(s)
                THEN Gate(SubSeq(s, i, end), SubSeq(s, end + 1, Len(s)), FALSE)
                ELSE IF close > Len(s)
                THEN Gate(SubSeq(s, i, open - 1), SubSeq(s, open + 2, Len(s)), TRUE)
                ELSE LET g == outside[close + 1]
                     IN  Gate(SubSeq(s, i, open - 1) \o g.sent, g.buffer, g.inFence)
    IN  outside

\* The loop, from the start of the buffer.
Scan(s, inFence) ==
    IF ~ inFence THEN Outside(s)[1]
    ELSE IF CloseFrom(s, 1) > Len(s) THEN Gate(<<>>, s, TRUE)
    ELSE Outside(s)[CloseFrom(s, 1) + 1]

\* A slip: whether a fence is open is forgotten between two deltas.
PushForgetsFence(gate, delta) ==
    LET g == Scan(gate.buffer \o delta, FALSE)
    IN  Gate(gate.sent \o g.sent, g.buffer, g.inFence)

\* toolFenceGate.Push: the gate after another delta; sent is Sent().
Push(gate, delta) ==
    LET g == Scan(gate.buffer \o delta, gate.inFence)
    IN  Gate(gate.sent \o g.sent, g.buffer, g.inFence)

\* A slip: nothing is left to send.
NothingRemains(full, sent) == <<>>

\* remainingText.
RemainingText(full, sent) ==
    IF IsPrefix(sent, full) THEN SubSeq(full, Len(sent) + 1, Len(full)) ELSE <<>>
=============================================================================
