----------------------------- MODULE PromptText -----------------------------
(***************************************************************************)
(* What the gateway makes of a request: messagesToPrompt,                  *)
(* responsesInputToMessages and their helpers (internal/openai/prompt.go)  *)
(* and the checks in front of them (handler.go, chat.go, responses.go).    *)
(* A prompt is the sequence of its sections, a text one of AnswerText.     *)
(***************************************************************************)
EXTENDS AnswerText

Join(texts) ==
    FlattenSeq([i \in DOMAIN texts |-> IF i = 1 THEN texts[i] ELSE <<Break>> \o texts[i]])

-----------------------------------------------------------------------------
(* Contents and messages. *)

\* A content is the sequence of its parts; a string is one part, null is none.
Part(type, text) == [type |-> type, text |-> text]
Content(text) == <<Part("text", text)>>

Message(role, content, calls) == [role |-> role, content |-> content, calls |-> calls]

\* contentText: what cannot be sent refuses the request, what is unknown is skipped.
Unsupported(content) == \E i \in DOMAIN content : content[i].type \in {"image", "audio"}
ContentText(content) ==
    Join(FlattenSeq([i \in DOMAIN content |->
                        IF content[i].type = "text" THEN <<content[i].text>> ELSE <<>>]))

\* A slip: the block closes on the line of its arguments.
SerializeOnOneLine(call) ==
    IF call = <<>> THEN <<>> ELSE <<Ticks, Tool, Break>> \o call \o <<Ticks>>

\* serializePriorToolCall; a call without a name is left out.
SerializePriorToolCall(call) ==
    IF call = <<>> THEN <<>> ELSE <<Ticks, Tool, Break>> \o call \o <<Break, Ticks>>

Filled(texts) == FlattenSeq([i \in DOMAIN texts |-> IF texts[i] = <<>> THEN <<>> ELSE <<texts[i]>>])

\* An assistant's turn: its text, and the calls it made.
AssistantText(m) ==
    Join(Filled(<<ContentText(m.content)>>
                \o [i \in DOMAIN m.calls |-> SerializePriorToolCall(m.calls[i])]))

Section(kind, text) == [kind |-> kind, text |-> text]

\* The section of a message, if it has one.
SectionOf(m) ==
    CASE m.role = "assistant" -> <<Section("Assistant", AssistantText(m))>>
      [] m.role = "tool" -> <<Section("Tool result", ContentText(m.content))>>
      [] OTHER -> IF ContentText(m.content) = <<>> THEN <<>>
                  ELSE <<Section(IF m.role = "system" THEN "System instruction" ELSE "User",
                                 ContentText(m.content))>>

-----------------------------------------------------------------------------
(* Tools. *)

Function(type, name) == [type |-> type, name |-> name]

\* parseToolChoice: a mode, or the name of the function that is forced.
Modes == {"auto", "none", "required"}
Forced(choice) == choice \notin Modes

Definitions(tools, choice) ==
    SelectSeq(tools, LAMBDA tool : tool.name # "" /\ (Forced(choice) => tool.name = choice))

\* buildToolSection refuses a tool that is no function, and a forced function
\* it does not know.
BadTools(tools, choice) ==
    /\ tools # <<>> /\ choice # "none"
    /\ \/ \E i \in DOMAIN tools : tools[i].type \notin {"", "function"}
       \/ Forced(choice) /\ Definitions(tools, choice) = <<>>

ToolSection(tools, choice) ==
    IF choice = "none" \/ Definitions(tools, choice) = <<>> THEN <<>>
    ELSE <<Section("Tool protocol", <<>>)>>

-----------------------------------------------------------------------------
(* Prompts. *)

Refused(code) == [refusal |-> code, sections |-> <<>>]
Accepted(sections) == [refusal |-> "", sections |-> sections]

\* messagesToPrompt.
MessagesToPrompt(messages, tools, choice) ==
    IF BadTools(tools, choice) THEN Refused("invalid_tools")
    ELSE IF \E i \in DOMAIN messages : Unsupported(messages[i].content) THEN Refused("unsupported_input")
    ELSE Accepted(ToolSection(tools, choice)
                  \o FlattenSeq([i \in DOMAIN messages |-> SectionOf(messages[i])]))

\* The endpoints refuse a prompt with nothing in it.
NotEmpty(prompt, code) == IF prompt = Accepted(<<>>) THEN Refused(code) ELSE prompt

\* unsupportedN and ensurePrompt.
ChatPrompt(request) ==
    IF request.n > 1 THEN Refused("unsupported_parameter")
    ELSE IF request.turns = <<>> THEN Refused("messages_required")
    ELSE NotEmpty(MessagesToPrompt(request.turns, request.tools, request.choice), "empty_prompt")

\* The items a client of the Responses API sends for a turn: a call is an item
\* of its own, and so is its result.
Item(type, role, content) == [type |-> type, role |-> role, content |-> content, calls |-> <<>>]
ItemsOfTurn(turn) ==
    IF turn.role = "tool" THEN <<Item("function_call_output", "", turn.content)>>
    ELSE (IF turn.content = <<>> /\ turn.calls # <<>> THEN <<>> ELSE <<Item("message", turn.role, turn.content)>>)
         \o [i \in DOMAIN turn.calls |-> Item("function_call", "", <<>>)]

\* A result counts when it is a string.
OutputText(content) == IF Len(content) = 1 /\ content[1].type = "text" THEN content ELSE Content(<<>>)

\* A slip: a result is an item like every other.
MessageOfAnyItem(item) ==
    Message(IF item.role = "" THEN "user" ELSE item.role, item.content, item.calls)

\* An item without a role, a call among them, is the user's.
MessageOfItem(item) ==
    IF item.type = "function_call_output" THEN Message("tool", OutputText(item.content), <<>>)
    ELSE Message(IF item.role = "" THEN "user" ELSE item.role, item.content, item.calls)

\* responsesInputToMessages, for an array of objects.
ResponsesInputToMessages(items) == [i \in DOMAIN items |-> MessageOfItem(items[i])]

ResponsesPrompt(request) ==
    LET items == FlattenSeq([i \in DOMAIN request.turns |-> ItemsOfTurn(request.turns[i])])
    IN  NotEmpty(MessagesToPrompt(ResponsesInputToMessages(items), request.tools, request.choice),
                 "empty_input")

PromptOf(api, request) == IF api = "chat" THEN ChatPrompt(request) ELSE ResponsesPrompt(request)
=============================================================================
