--------------------------- MODULE MCAnswerStream ---------------------------
(* Answers put together from a few pieces. *)
EXTENDS AnswerStream

Block    == <<Ticks, Tool, Break, Call, Break, Ticks>>
Broken   == <<Ticks, Tool, Break, Word, Break, Ticks>>
Cut      == <<Ticks, Tool, Break, Call>>
Quoting  == <<Ticks, Tool, Break, Call, Ticks, Call, Break, Ticks>>
Artifact == <<Ticks, Code, Word, Ticks, Break>>

Of(pieces, n) == {FlattenSeq(p) : p \in BoundedSeq(pieces, n) \ {<<>>}}

MCAnswers ==
    Of({<<Word>>, <<Ticks>>, Block}, 3) \cup Of({<<Word>>, <<Break>>, <<Ticks>>, Block}, 2) \cup Of({<<Word>>, Broken, Artifact, Cut}, 2)
    \cup {<<Word, Break>> \o Block \o <<Break, Word, Ticks>>, Block \o Block \o <<Word>>,
          <<Ticks>> \o Artifact \o <<Tool, Ticks, Word>>}
QuotingAnswers == Of({<<Word>>, Quoting}, 2)

Says(role, text) == Message(role, Content(text), <<>>)
Asks == <<Says("user", <<Word>>)>>
Image == <<Part("text", <<Word>>), Part("image", <<>>)>>
Parts == <<Part("text", <<Word>>), Part("other", <<>>), Part("text", <<Word>>)>>
Calling == Message("assistant", <<>>, << <<Call>>, <<>> >>)

MCStrings == STRING
Asking(turns) == [NoRequest EXCEPT !.turns = turns]
With(functions, choice) == [Asking(Asks) EXCEPT !.tools = functions, !.choice = choice]
Named == <<Function("function", "f"), Function("function", "g")>>

QuotingRequests == {With(Named, "auto")}
MCRequests ==
    {Asking(turns) : turns \in {<<>>, Asks, <<Says("user", <<>>)>>, <<Says("system", <<Word>>)>> \o Asks,
                                Asks \o <<Says("assistant", <<Word>>)>> \o Asks,
                                <<Says("tool", <<Word>>)>>, <<Message("user", Image, <<>>)>>,
                                <<Message("user", Parts, <<>>)>>, <<Message("tool", Parts, <<>>)>>,
                                Asks \o <<Calling, Says("tool", <<>>)>>}}
    \cup {With(Named, choice) : choice \in Modes \cup {"g", "h"}}
    \cup {With(<<Function("function", "")>>, "auto"), With(<<Function("search", "f")>>, "auto"), With(<<Function("", "f")>>, "auto"),
          [Asking(Asks) EXCEPT !.n = 2], [With(Named, "auto") EXCEPT !.turns = <<>>]}
=============================================================================
