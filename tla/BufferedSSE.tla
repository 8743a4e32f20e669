---------------------------- MODULE BufferedSSE ----------------------------
(***************************************************************************)
(* gateway/app/chat_stream.py: a complete chat answer is sent as the       *)
(* stream of chunks a streaming client expects, and the client puts it     *)
(* together again.  The encoding is checked against what the client gets.  *)
(*                                                                         *)
(* Texts are sequences of words, so that the client's concatenation is     *)
(* real; tool calls are values.  One turn of the loop over the choices is  *)
(* one action.                                                             *)
(***************************************************************************)
EXTENDS Naturals, Sequences

CONSTANTS
  Bodies,         \* the sequences of choices the engine may answer with
  Words,          \* what texts are made of
  FunctionCalls,  \* what tool calls are
  Reasons,        \* why a choice may have ended
  Missing,        \* a field that is absent or null
  Invalid         \* a field of the wrong type

VARIABLES
  body,           \* body["choices"]
  include_usage,
  pc,
  ordinal,        \* the choices the loop has been through
  events,         \* encoded, and not yet read by the client
  got, usage      \* what the client has put together

vars == <<body, include_usage, pc, ordinal, events, got, usage>>

-----------------------------------------------------------------------------

\* What buffered_sse and the handler accept; otherwise the answer is 502.
Encodable(choice) ==
  /\ choice.message # Invalid
  /\ choice.message.reasoning_content # Invalid
  /\ choice.message.content # Invalid
  /\ choice.message.tool_calls # Invalid
  /\ choice.message.tool_calls # Missing =>
       \A n \in DOMAIN choice.message.tool_calls : choice.message.tool_calls[n] # Invalid

\* An index that is absent is the position (a null one is not among the inputs).
Index(choices, n) == IF choices[n].index = Missing THEN n - 1 ELSE choices[n].index

Text == {Missing, Invalid} \cup Seq(Words)

Choice ==
  [message       : {Invalid} \cup
                     [reasoning_content : Text, content : Text,
                      tool_calls : {Missing, Invalid} \cup Seq({Invalid} \cup FunctionCalls)],
   finish_reason : {Missing} \cup Reasons,
   index         : {Missing} \cup Nat]

\* An engine numbers no two choices alike, so that clients can tell them apart.
ASSUME StreamAssumption ==
  \A choices \in Bodies :
    /\ choices \in Seq(Choice)
    /\ \A m, n \in DOMAIN choices : Index(choices, m) = Index(choices, n) => m = n

OrEmpty(value) == IF value = Missing THEN <<>> ELSE value

\* Mutant of Calls: calls carry no index of their own.
CallsUnnumbered(m) ==
  LET calls == OrEmpty(m.tool_calls)
  IN [n \in DOMAIN calls |-> [index |-> 0, call |-> calls[n]]]

\* The tool calls of a message, each with its position.
Calls(m) ==
  LET calls == OrEmpty(m.tool_calls)
  IN [n \in DOMAIN calls |-> [index |-> n - 1, call |-> calls[n]]]

Chunk(index, field, value) == <<[index |-> index, field |-> field, value |-> value]>>

\* A chunk is left out when there is nothing in it.
Optional(index, field, value) ==
  IF value = <<>> THEN <<>> ELSE Chunk(index, field, value)

\* Why the choice ended, if the engine does not say.
Reason(choice) ==
  IF choice.finish_reason # Missing THEN choice.finish_reason
  ELSE IF Calls(choice.message) # <<>> THEN "tool_calls" ELSE "stop"

ChoiceChunks(choices, n) ==
  LET i == Index(choices, n)
      m == choices[n].message
  IN Chunk(i, "role", "assistant")
       \o Optional(i, "reasoning_content", OrEmpty(m.reasoning_content))
       \o Optional(i, "content", OrEmpty(m.content))
       \o Optional(i, "tool_calls", Calls(m))
       \o Chunk(i, "finish_reason", Reason(choices[n]))

\* The next choice goes into the stream.
EncodeChoice ==
  /\ pc = "encode"
  /\ ordinal < Len(body)
  /\ Encodable(body[ordinal + 1])
  /\ events' = events \o ChoiceChunks(body, ordinal + 1)
  /\ ordinal' = ordinal + 1
  /\ UNCHANGED <<body, include_usage, pc, got, usage>>

\* ValueError: what was encoded so far is thrown away.
EncodeFails ==
  /\ pc = "encode"
  /\ ordinal < Len(body)
  /\ ~Encodable(body[ordinal + 1])
  /\ pc' = "error"
  /\ events' = <<>>
  /\ UNCHANGED <<body, include_usage, ordinal, got, usage>>

\* After the last choice the stream is closed, and sent.
EncodeEnds ==
  /\ pc = "encode"
  /\ ordinal = Len(body)
  /\ events' = events \o (IF include_usage THEN Chunk(Missing, "usage", TRUE) ELSE <<>>)
                       \o Chunk(Missing, "[DONE]", Missing)
  /\ pc' = "stream"
  /\ UNCHANGED <<body, include_usage, ordinal, got, usage>>

-----------------------------------------------------------------------------
(* The client (external).                                                  *)

NewMessage == [role |-> Missing, reasoning_content |-> <<>>, content |-> <<>>,
               tool_calls |-> <<>>, finish_reason |-> Missing]

\* Tool calls go where their index says, the last one wins.
Placed(calls) ==
  [i \in {calls[n].index : n \in DOMAIN calls} |->
     calls[CHOOSE n \in DOMAIN calls :
             calls[n].index = i /\ \A m \in DOMAIN calls : calls[m].index = i => m <= n].call]

\* A delta is added to the message it belongs to.
Merged(m, c) ==
  CASE c.field = "tool_calls" -> [m EXCEPT !.tool_calls = Placed(c.value)]
    [] c.field \in {"reasoning_content", "content"} -> [m EXCEPT ![c.field] = @ \o c.value]
    [] OTHER -> [m EXCEPT ![c.field] = c.value]

Receive ==
  /\ pc = "stream"
  /\ events' = Tail(events)
  /\ LET c == Head(events) IN
       CASE c.field = "[DONE]" -> pc' = "done" /\ UNCHANGED <<got, usage>>
         [] c.field = "usage" -> usage' = TRUE /\ UNCHANGED <<pc, got>>
         [] OTHER ->
              /\ got' = [i \in DOMAIN got \cup {c.index} |->
                           LET m == IF i \in DOMAIN got THEN got[i] ELSE NewMessage
                           IN IF i = c.index THEN Merged(m, c) ELSE m]
              /\ UNCHANGED <<pc, usage>>
  /\ UNCHANGED <<body, include_usage, ordinal>>

Init ==
  /\ body \in Bodies
  /\ include_usage \in BOOLEAN
  /\ pc = "encode"
  /\ ordinal = 0
  /\ events = <<>> /\ got = <<>> /\ usage = FALSE

Next == EncodeChoice \/ EncodeFails \/ EncodeEnds \/ Receive

Spec == Init /\ [][Next]_vars

-----------------------------------------------------------------------------
(* Properties.                                                             *)

\* What the client has after "[DONE]" is the answer of the engine: every
\* choice under its index, with its texts, its tool calls in order and the reason
\* it ended, and usage exactly if it was asked for.
RoundTrip ==
  pc = "done" =>
    /\ events = <<>>
    /\ usage = include_usage
    /\ DOMAIN got = {Index(body, n) : n \in DOMAIN body}
    /\ \A n \in DOMAIN body :
         LET m == body[n].message
             g == got[Index(body, n)]
             calls == OrEmpty(m.tool_calls)
         IN /\ g.role = "assistant"
            /\ g.reasoning_content = OrEmpty(m.reasoning_content)
            /\ g.content = OrEmpty(m.content)
            /\ DOMAIN g.tool_calls = {k - 1 : k \in DOMAIN calls}
            /\ \A k \in DOMAIN calls : g.tool_calls[k - 1] = calls[k]
            /\ g.finish_reason = (IF body[n].finish_reason # Missing THEN body[n].finish_reason
                                  ELSE IF calls # <<>> THEN "tool_calls" ELSE "stop")

=============================================================================
