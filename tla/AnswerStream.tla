---------------------------- MODULE AnswerStream ----------------------------
(***************************************************************************)
(* One request and its answer: the checks and the prompt (PromptText), the *)
(* frames the upstream sends (scanFrames and Client.Generate,              *)
(* internal/gemini), the deltas passed on while the text grows, and the    *)
(* end of it (chat.go and responses.go, internal/openai), streamed or in   *)
(* one object.  Then the client goes on from the answer.                   *)
(***************************************************************************)
EXTENDS PromptText, FiniteSets

CONSTANTS Answers,  \* texts the upstream may answer with
          Strings,  \* the names, types and roles in requests
          Requests, \* requests a client may begin with
          MaxSends  \* bound: attempts of one request

\* A call that a client sends back: one it was given, or one without a name.
Recalled == {c \in Seq(Token) : c = <<>> \/ (IsCall(c) /\ TrimSpace(c) = c)}

ContentSet == Seq([type : Strings, text : Seq(Token)])
TurnSet == [role : Strings, content : ContentSet, calls : Seq(Recalled)]
ToolSet == [type : Strings, name : Strings]
RequestSet == [n : Nat, choice : Strings, tools : Seq(ToolSet), turns : Seq(TurnSet)]

ASSUME AnswerStreamAssumption ==
    /\ Answers \subseteq Seq(Token)
    /\ \A r \in Requests : r \in RequestSet
    /\ {"auto", "text", "user", "assistant", "tool", "function", "f"} \subseteq Strings
    /\ MaxSends \in Nat \ {0}

VARIABLES api,      \* the endpoint: "chat" or "responses"
          stream,   \* the request asks for a stream
          pc,
          request,  \* until the prompt has been sent
          tools,    \* the request names tools
          answer,   \* what the upstream answers in this attempt
          read,     \* how much of it has been in a frame
          emitted,  \* textTracker
          gate,     \* the tool fence gate, of a chat stream with tools
          visible,  \* visible, or sent: the text the client has been given
          events,   \* history: the kinds of events, or of parts, it was given
          calls,    \* history: the number of tool calls it was given
          sends,    \* history: attempts
          resent,   \* history: ... one of them after output
          split     \* history: an artifact was in more than one frame

textVars == <<emitted, gate, visible>>
vars == <<api, stream, pc, request, tools, answer, read, textVars, events, calls, sends, resent, split>>

Kinds == {"role", "delta", "tool_calls", "finish", "end", "error", "created", "in_progress",
          "item.added", "part.added", "text.done", "part.done", "message.done", "arguments",
          "arguments.done", "function.done", "completed", "failed"}
Event(kind, index) == [kind |-> kind, index |-> index]

\* What is sent before the upstream is asked.
Opening(t) ==
    IF ~ stream THEN <<>>
    ELSE IF api = "chat" THEN <<Event("role", 0)>>
    ELSE <<Event("created", 0), Event("in_progress", 0)>>
         \o IF t THEN <<>> ELSE <<Event("item.added", 0), Event("part.added", 0)>>

\* The deltas of one text, in a row, count as one.
WithDelta(es, delta, index) ==
    IF delta = <<>> \/ es[Len(es)].kind = "delta" THEN es ELSE Append(es, Event("delta", index))

PlainRequest(functions, turns) == [n |-> 1, tools |-> functions, choice |-> "auto", turns |-> turns]
NoRequest == PlainRequest(<<>>, <<>>)

Init ==
    /\ api \in {"chat", "responses"} /\ stream \in BOOLEAN
    /\ pc = "request" /\ request \in Requests /\ tools = FALSE
    /\ answer = <<>> /\ read = 0
    /\ emitted = <<>> /\ visible = <<>>
    /\ gate = ClosedGate
    /\ events = <<>> /\ calls = 0
    /\ sends = 1 /\ resent = FALSE /\ split = FALSE

\* decode has accepted the body; a request that is refused gets one error.
Refuse ==
    /\ pc = "request" /\ PromptOf(api, request).refusal # ""
    /\ pc' = "refused"
    /\ events' = <<Event("error", 0)>>
    /\ UNCHANGED <<api, stream, request, tools, answer, read, textVars, calls, sends, resent, split>>

\* The prompt goes to the gateway.
Submit ==
    /\ pc = "request" /\ PromptOf(api, request).refusal = ""
    /\ pc' = "reading"
    /\ tools' = (request.tools # <<>>)
    /\ request' = NoRequest
    /\ answer' \in Answers
    /\ events' = Opening(tools')
    /\ UNCHANGED <<api, stream, read, textVars, calls, sends, resent, split>>

\* Only a stream passes an OnContent; a Responses stream with tools does not.
HasOnContent == stream /\ ~ (api = "responses" /\ tools)

Gated == stream /\ api = "chat" /\ tools

\* The text of the last frame ends within an artifact.
Torn(n) == \E i \in 1..n : /\ ArtifactEnd(answer)[i] > n
                           /\ ArtifactEnd(SubSeq(answer, 1, n))[i] = 0

\* A frame with the text so far: OnContent is called with what is new in it.
Frame(n) ==
    /\ pc = "reading" /\ read < n /\ n <= Len(answer)
    /\ read' = n
    /\ split' = (split \/ Torn(n))
    /\ LET delta == IF HasOnContent THEN TrackerDelta(emitted, SubSeq(answer, 1, n)) ELSE <<>>
           pushed == IF Gated THEN Push(gate, delta) ELSE gate
           shown == IF Gated THEN SubSeq(pushed.sent, Len(gate.sent) + 1, Len(pushed.sent)) ELSE delta
       IN  /\ emitted' = emitted \o delta
           /\ gate' = pushed
           /\ visible' = visible \o shown
           /\ events' = WithDelta(events, shown, 0)
    /\ UNCHANGED <<api, stream, pc, request, tools, answer, calls, sends, resent>>

\* A slip: what an attempt has read counts for the next.
ResendKeepsRead ==
    /\ pc = "reading" /\ sends < MaxSends
    /\ emitted = <<>> \/ ~ resent
    /\ answer' \in Answers
    /\ sends' = sends + 1
    /\ resent' = (resent \/ emitted # <<>>)
    /\ UNCHANGED <<api, stream, pc, request, tools, read, textVars, events, calls, split>>

\* The attempt has failed, and the prompt goes out again: nothing had been
\* passed on, or (once) the token was refused.
Resend ==
    /\ pc = "reading" /\ sends < MaxSends
    /\ emitted = <<>> \/ ~ resent
    /\ answer' \in Answers /\ read' = 0
    /\ sends' = sends + 1
    /\ resent' = (resent \/ emitted # <<>>)
    /\ UNCHANGED <<api, stream, pc, request, tools, textVars, events, calls, split>>

\* It has failed for good: the error closes the stream, or is all there is.
Fail ==
    /\ pc = "reading"
    /\ pc' = "failed"
    /\ events' = IF ~ stream THEN <<Event("error", 0)>>
                 ELSE events \o IF api = "chat" THEN <<Event("error", 0), Event("end", 0)>>
                                 ELSE <<Event("failed", 0)>>
    /\ UNCHANGED <<api, stream, request, tools, answer, read, textVars, calls, sends, resent, split>>

\* What Generate returns: the text of the longest frame, which is the last.
ResultText == CleanText(answer)

Text == IF tools THEN VisibleText(ResultText) ELSE ResultText
Calls == IF tools THEN Len(CallsIn(ResultText)) ELSE 0

\* The rest of streamChat, or the object of ChatCompletions.
ChatEnd(es) ==
    es \o (IF Calls > 0 THEN <<Event("tool_calls", 0)>> ELSE <<>>)
       \o <<Event("finish", 0), Event("end", 0)>>

\* A slip: every item has the index of the first.
FunctionItemsAtZero(n) ==
    FlattenSeq([k \in 1..n |-> <<Event("item.added", 0), Event("arguments", 0),
                                 Event("arguments.done", 0), Event("function.done", 0)>>])

FunctionItems(n) ==
    FlattenSeq([k \in 1..n |-> <<Event("item.added", k - 1), Event("arguments", k - 1),
                                 Event("arguments.done", k - 1), Event("function.done", k - 1)>>])

MessageEnd(index) ==
    <<Event("text.done", index), Event("part.done", index), Event("message.done", index)>>

\* emitBufferedMessage.
BufferedMessage(text, index) ==
    <<Event("item.added", index), Event("part.added", index)>>
    \o (IF text # <<>> THEN <<Event("delta", index)>> ELSE <<>>)
    \o MessageEnd(index)

\* A slip: a message only for a text.
ResponsesEndWithoutEmptyMessage(es) ==
    es \o (IF ~ tools THEN MessageEnd(0)
           ELSE FunctionItems(Calls) \o IF Text # <<>> THEN BufferedMessage(Text, Calls) ELSE <<>>)
       \o <<Event("completed", 0)>>

\* The rest of streamResponses.
ResponsesEnd(es) ==
    es \o (IF ~ tools THEN MessageEnd(0)
           ELSE FunctionItems(Calls)
                \o IF Text # <<>> \/ Calls = 0 THEN BufferedMessage(Text, Calls) ELSE <<>>)
       \o <<Event("completed", 0)>>

\* responseOutput: the items of the object Responses answers with.
ResponseOutput(n, text) ==
    [k \in 1..n |-> Event("function.done", k - 1)]
    \o IF text # <<>> \/ n = 0 THEN <<Event("message.done", n)>> ELSE <<>>

\* Generate has returned a text.
Finish ==
    /\ pc = "reading" /\ read = Len(answer) /\ ResultText # <<>>
    /\ pc' = "done"
    /\ calls' = Calls
    /\ LET rest == IF HasOnContent THEN RemainingText(Text, visible) ELSE Text
       IN  /\ visible' = visible \o rest
           /\ events' = IF api = "chat" THEN ChatEnd(IF stream THEN WithDelta(events, rest, 0) ELSE events)
                        ELSE IF ~ stream THEN ResponseOutput(Calls, Text)
                        ELSE IF tools THEN ResponsesEnd(events)
                        ELSE ResponsesEnd(WithDelta(events, rest, 0))
    /\ UNCHANGED <<api, stream, request, tools, answer, read, emitted, gate, sends, resent, split>>

\* The client sends what it was given as the assistant's turn, and a result
\* for every call.
LastExchange ==
    LET made == IF tools THEN CallsIn(ResultText) ELSE <<>>
    IN  <<Message("user", Content(<<Word>>), <<>>),
          Message("assistant", IF visible = <<>> THEN <<>> ELSE Content(visible), made)>>
        \o [k \in DOMAIN made |-> Message("tool", Content(<<Word>>), <<>>)]

Continue ==
    /\ pc = "done"
    /\ pc' = "request"
    /\ request' = PlainRequest(IF tools THEN <<Function("function", "f")>> ELSE <<>>, LastExchange)
    /\ tools' = FALSE
    /\ answer' = <<>> /\ read' = 0
    /\ emitted' = <<>> /\ visible' = <<>>
    /\ gate' = ClosedGate
    /\ events' = <<>> /\ calls' = 0
    /\ sends' = 1 /\ resent' = FALSE /\ split' = FALSE
    /\ UNCHANGED <<api, stream>>

Next ==
    \/ Refuse
    \/ Submit
    \/ \E n \in 1..Len(answer) : Frame(n)
    \/ Resend
    \/ Fail
    \/ Finish
    \/ Continue

Spec == Init /\ [][Next]_vars

-----------------------------------------------------------------------------
(* Properties *)

TypeOK ==
    /\ api \in {"chat", "responses"} /\ stream \in BOOLEAN /\ tools \in BOOLEAN
    /\ pc \in {"request", "refused", "reading", "failed", "done"}
    /\ request \in RequestSet
    /\ pc \in {"request", "refused"} => answer = <<>>
    /\ pc \in {"reading", "failed", "done"} => answer \in Answers /\ request = NoRequest
    /\ read \in 0..Len(answer)
    /\ emitted \in Seq(Token) /\ visible \in Seq(Token)
    /\ gate \in [sent : Seq(Token), buffer : Seq(Token), inFence : BOOLEAN]
    /\ events \in Seq([kind : Kinds, index : 0..calls])
    /\ calls \in Nat /\ sends \in 1..MaxSends
    /\ resent \in BOOLEAN /\ split \in BOOLEAN

\* What a Responses client can say: one candidate, no calls of its own, results
\* that are strings.
SaidByBoth ==
    /\ request.n <= 1 /\ request.turns # <<>>
    /\ \A i \in DOMAIN request.turns :
          LET turn == request.turns[i]
          IN  /\ turn.calls = <<>>
              /\ turn.role = "tool" => Len(turn.content) = 1 /\ turn.content[1].type = "text"

\* A conversation both endpoints can express gets the same prompt from either,
\* or is refused by both for the same reason (prompt.go:15, prompt.go:68).
EndpointsAgree ==
    pc = "request" /\ SaidByBoth =>
        LET chat == ChatPrompt(request)
            responses == ResponsesPrompt(request)
        IN  \/ chat = responses
            \/ chat = Refused("empty_prompt") /\ responses = Refused("empty_input")

Opens(s, i) == At(s, i, Ticks) /\ At(s, i + 1, Tool)

\* A call the client was given and sends back stands in the next prompt in the
\* form the upstream is asked for: parsed, it is the same call (prompt.go:206).
HistoryKeepsCalls ==
    pc = "request" /\ api = "chat" =>
        \A i \in DOMAIN request.turns :
            LET turn == request.turns[i]
                text == ContentText(turn.content)
                sent == AssistantText(turn)
            IN  turn.role = "assistant" /\ (\A k \in DOMAIN text : ~ Opens(text, k)) =>
                    /\ CallsIn(sent) = Filled(turn.calls)
                    /\ VisibleText(sent) = TrimSpace(text)

\* However the upstream cuts an answer into frames, the gate lets through and
\* holds back what it would of the text in one piece (tools.go:69).
FramesDoNotMatter == Gated => gate = Push(ClosedGate, emitted)

\* The client has been given the answer to the last token, the one the gate
\* held back included, unless the answer opens a tool block, a resend changed
\* it under way, or an artifact came in pieces (parser.go:31, tools.go:114).
AnswerIsWhole ==
    /\ pc = "done" /\ ~ resent /\ ~ split
    /\ Gated => \A i \in DOMAIN ResultText : ~ Opens(ResultText, i)
    => visible = Text

\* Every block that opens is closed, by the first backquotes in it, which open
\* no other, and every call stands in one.
Tidy(s) ==
    /\ \A i \in DOMAIN s :
          Opens(s, i) => LET end == BlockEnd(s)[i]
                         IN  /\ end # 0 /\ ~ Opens(s, end)
                             /\ \A j \in i + 1..end - 1 : s[j] # Ticks
    /\ \A i \in DOMAIN s :
          s[i] \in {Tool, Call} => \E b \in 1..i - 1 : Opens(s, b) /\ i < BlockEnd(s)[b]

HidesCalls == \A i \in DOMAIN visible : visible[i] \notin {Tool, Call}

\* No part of a tidy tool block is ever shown as text, at whatever token the
\* frames cut it (tools.go:69).
TidyBlocksStayHidden == Gated /\ ~ resent /\ ~ split /\ Tidy(ResultText) => HidesCalls

\* TestToolFenceGateNeverLeaksToolBlockAcrossChunks, of every call.
CallsStayHidden == Gated /\ pc = "done" /\ calls > 0 => HidesCalls

\* The phases of a Responses stream: between two items, in an item, in a part of
\* one, over; and the index of the item that is open or comes next.
Stage(phase, next) == [phase |-> phase, next |-> next]
Closing == {"function.done", "message.done"}

PhaseAfter(st, e) ==
    CASE st.phase = "between" /\ st.next = 0 /\ e.kind \in {"created", "in_progress"} -> "between"
      [] st.phase = "between" /\ e.index = st.next /\ e.kind = "item.added" -> "item"
      [] st.phase = "item" /\ e.index = st.next /\ e.kind = "part.added" -> "part"
      [] st.phase = "item" /\ e.index = st.next /\ e.kind \in {"arguments", "arguments.done"} -> "item"
      [] st.phase = "part" /\ e.index = st.next /\ e.kind \in {"delta", "text.done"} -> "part"
      [] st.phase = "part" /\ e.index = st.next /\ e.kind = "part.done" -> "item"
      [] st.phase = "item" /\ e.index = st.next /\ e.kind \in Closing -> "between"
      [] st.phase = "between" /\ st.next > 0 /\ e.kind = "completed" -> "over"
      [] st.phase \in {"between", "item", "part"} /\ e.kind = "failed" -> "over"
      [] OTHER -> "wrong"

AfterEvent(st, e) ==
    Stage(PhaseAfter(st, e), IF e.kind \in Closing THEN st.next + 1 ELSE st.next)

LifeCycle(es) ==
    LET stage[k \in 0..Len(es)] ==
            IF k = 0 THEN Stage("between", 0) ELSE AfterEvent(stage[k - 1], es[k])
    IN  stage[Len(es)]

\* The Responses life cycle: items open and close in the order of their index,
\* parts and deltas belong to the open item, and nothing follows the end, which
\* comes (responses.go:86).
LifeCycleInOrder ==
    api = "responses" /\ stream =>
        /\ pc \in {"reading", "done"} => LifeCycle(events).phase # "wrong"
        /\ pc \in {"failed", "done"} => LifeCycle(events).phase = "over"

\* The items that have been closed.
Closed(es) == FlattenSeq([i \in DOMAIN es |-> IF es[i].kind \in Closing THEN <<es[i]>> ELSE <<>>])

\* A Responses stream ends with the items the object would have had
\* (responses.go:124, responses.go:218).
StreamGivesTheObject ==
    api = "responses" /\ stream /\ pc = "done" =>
        Closed(events) = ResponseOutput(calls, Text)
=============================================================================
