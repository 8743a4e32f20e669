--------------------------- MODULE MCBufferedSSE ---------------------------
(* Small instances of BufferedSSE for TLC.                                 *)
EXTENDS BufferedSSE

Texts == {Missing, Invalid, <<>>, <<"a">>, <<"a", "b">>}

ToolCalls == {Missing, Invalid, <<>>, <<"f">>, <<"f", "g">>, <<"f", Invalid>>}

ChoiceOf(message, reason, index) ==
  [message |-> message, finish_reason |-> reason, index |-> index]

Messages ==
  {Invalid} \cup [reasoning_content : Texts, content : Texts, tool_calls : ToolCalls]

\* One choice of any kind, or two that are told apart by position or by index.
MCBodies ==
  {<<ChoiceOf(m, reason, i)>> : m \in Messages, reason \in {Missing, "length"}, i \in {Missing, 0}}
  \cup
  {<<ChoiceOf(m, Missing, i), ChoiceOf(m2, "stop", j)>> :
     m \in [reasoning_content : {Missing}, content : {<<"a">>}, tool_calls : ToolCalls],
     m2 \in [reasoning_content : {<<"b">>}, content : Texts, tool_calls : {<<"g">>}],
     <<i, j>> \in {<<Missing, Missing>>, <<1, 0>>}}

=============================================================================
