------------------------- MODULE BufferedSSEProofs -------------------------
(***************************************************************************)
(* Proofs about BufferedSSE: for answers of any number of choices, texts   *)
(* and tool calls of any length, the client gets what the engine answered. *)
(*                                                                         *)
(* The argument: no chunk is sent twice, and at every moment each field of *)
(* a choice is either still on its way and untouched at the client, or has *)
(* arrived with its whole value (or there was nothing to send).            *)
(***************************************************************************)
EXTENDS BufferedSSE, TLAPS

Fields == {"role", "reasoning_content", "content", "tool_calls", "finish_reason"}

\* What the client is to have of a choice.
Final(choice) ==
  [role |-> "assistant",
   reasoning_content |-> OrEmpty(choice.message.reasoning_content),
   content |-> OrEmpty(choice.message.content),
   tool_calls |-> Placed(Calls(choice.message)),
   finish_reason |-> Reason(choice)]

\* The chunk of a field of a choice, and the two that close a stream.
Item(choices, n, f) ==
  [index |-> Index(choices, n), field |-> f,
   value |-> IF f = "tool_calls" THEN Calls(choices[n].message) ELSE Final(choices[n])[f]]

UsageItem == [index |-> Missing, field |-> "usage", value |-> TRUE]

DoneItem == [index |-> Missing, field |-> "[DONE]", value |-> Missing]

Items(choices, N) == {Item(choices, n, f) : n \in N, f \in Fields}

Values(s) == {s[k] : k \in DOMAIN s}

Distinct(s) == \A k, l \in DOMAIN s : s[k] = s[l] => k = l

Current(i) == IF i \in DOMAIN got THEN got[i] ELSE NewMessage

\* The stream holds chunks of the choices encoded so far, none of them twice.
StreamOk ==
  /\ body \in Bodies
  /\ ordinal \in 0..Len(body)
  /\ \A n \in 1..ordinal : Encodable(body[n])
  /\ events \in Seq(Items(body, 1..ordinal) \cup {UsageItem, DoneItem})
  /\ Distinct(events)

\* A field is on its way and untouched, or it has arrived.
FieldsOk ==
  \A n \in 1..ordinal, f \in Fields :
    Current(Index(body, n))[f] =
      IF Item(body, n, f) \in Values(events) THEN NewMessage[f] ELSE Final(body[n])[f]

\* The client has messages of the choices, and none goes by without a chunk.
MessagesOk ==
  /\ DOMAIN got \subseteq {Index(body, n) : n \in 1..ordinal}
  /\ \A i \in DOMAIN got : got[i] = [f \in Fields |-> got[i][f]]
  /\ \A n \in 1..ordinal :
       Item(body, n, "finish_reason") \in Values(events) \/ Index(body, n) \in DOMAIN got

\* How the stream is opened and closed.
PhaseOk ==
  /\ pc \in {"encode", "error", "stream", "done"}
  /\ pc = "encode" => /\ got = <<>> /\ usage = FALSE
                      /\ UsageItem \notin Values(events) /\ DoneItem \notin Values(events)
  /\ pc = "stream" => /\ ordinal = Len(body)
                      /\ events # <<>> /\ events[Len(events)] = DoneItem
                      /\ usage = (include_usage /\ UsageItem \notin Values(events))
                      /\ UsageItem \in Values(events) => include_usage
  /\ pc = "done" => /\ ordinal = Len(body) /\ events = <<>>
                    /\ usage = include_usage

SSEInv ==
  /\ include_usage \in BOOLEAN
  /\ StreamOk
  /\ PhaseOk
  /\ pc # "error" => FieldsOk /\ MessagesOk

-----------------------------------------------------------------------------
(* Sequences without repetitions.                                          *)

LEMMA Singleton ==
  ASSUME NEW S, NEW e \in S
  PROVE  /\ <<e>> \in Seq(S)
         /\ Values(<<e>>) = {e}
         /\ Distinct(<<e>>)
  BY DEF Values, Distinct

LEMMA EmptySequence ==
  ASSUME NEW S
  PROVE  /\ <<>> \in Seq(S)
         /\ Values(<<>>) = {}
         /\ Distinct(<<>>)
  BY DEF Values, Distinct

LEMMA Concatenation ==
  ASSUME NEW S, NEW s \in Seq(S), NEW t \in Seq(S),
         Distinct(s), Distinct(t),
         Values(s) \cap Values(t) = {}
  PROVE  /\ s \o t \in Seq(S)
         /\ Values(s \o t) = Values(s) \cup Values(t)
         /\ Distinct(s \o t)
<1> DEFINE u == s \o t
<1>1. /\ u \in Seq(S)
      /\ Len(u) = Len(s) + Len(t)
      /\ \A k \in 1..Len(s) : u[k] = s[k]
      /\ \A k \in 1..Len(t) : u[Len(s) + k] = t[k]
  OBVIOUS
<1>2. /\ DOMAIN u = 1..Len(u) /\ DOMAIN s = 1..Len(s) /\ DOMAIN t = 1..Len(t)
      /\ Len(s) \in Nat /\ Len(t) \in Nat
  BY <1>1
<1>3. \A k \in DOMAIN u : \/ k \in DOMAIN s /\ u[k] = s[k]
                          \/ /\ k - Len(s) \in DOMAIN t
                             /\ u[k] = t[k - Len(s)]
  <2> TAKE k \in DOMAIN u
  <2>1. CASE k <= Len(s)
    BY <2>1, <1>1, <1>2
  <2>2. CASE ~(k <= Len(s))
    <3>1. k - Len(s) \in 1..Len(t) /\ Len(s) + (k - Len(s)) = k
      BY <2>2, <1>1, <1>2
    <3> HIDE DEF u
    <3> QED
      BY <3>1, <1>1, <1>2
  <2> QED
    BY <2>1, <2>2
<1>4. /\ DOMAIN s \subseteq DOMAIN u
      /\ \A k \in DOMAIN t : Len(s) + k \in DOMAIN u
  BY <1>1, <1>2
<1> HIDE DEF u
<1>5. Values(u) = Values(s) \cup Values(t)
  <2>1. Values(u) \subseteq Values(s) \cup Values(t)
    BY <1>3 DEF Values
  <2>2. Values(s) \subseteq Values(u)
    BY <1>1, <1>2, <1>4 DEF Values
  <2>3. Values(t) \subseteq Values(u)
    BY <1>1, <1>2, <1>4 DEF Values
  <2> QED
    BY <2>1, <2>2, <2>3
<1>6. Distinct(u)
  <2> SUFFICES ASSUME NEW k \in DOMAIN u, NEW l \in DOMAIN u, u[k] = u[l]
               PROVE  k = l
    BY DEF Distinct
  <2>1. CASE k \in DOMAIN s /\ u[k] = s[k] /\ l \in DOMAIN s /\ u[l] = s[l]
    BY <2>1 DEF Distinct
  <2>2. CASE /\ k - Len(s) \in DOMAIN t /\ u[k] = t[k - Len(s)]
             /\ l - Len(s) \in DOMAIN t /\ u[l] = t[l - Len(s)]
    <3>1. k - Len(s) = l - Len(s)
      BY <2>2 DEF Distinct
    <3> QED
      BY <3>1, <1>1, <1>2
  <2>3. CASE k \in DOMAIN s /\ u[k] = s[k] /\ l - Len(s) \in DOMAIN t /\ u[l] = t[l - Len(s)]
    BY <2>3 DEF Values
  <2>4. CASE l \in DOMAIN s /\ u[l] = s[l] /\ k - Len(s) \in DOMAIN t /\ u[k] = t[k - Len(s)]
    BY <2>4 DEF Values
  <2> QED
    BY <2>1, <2>2, <2>3, <2>4, <1>3
<1> QED
  BY <1>1, <1>5, <1>6 DEF u

LEMMA HeadAndTail ==
  ASSUME NEW S, NEW s \in Seq(S), s # <<>>, Distinct(s)
  PROVE  /\ Head(s) \in Values(s)
         /\ Head(s) \in S
         /\ Tail(s) \in Seq(S)
         /\ Values(Tail(s)) = Values(s) \ {Head(s)}
         /\ Distinct(Tail(s))
         /\ \/ Tail(s) = <<>> /\ Head(s) = s[Len(s)]
            \/ /\ Tail(s) # <<>> /\ Tail(s)[Len(Tail(s))] = s[Len(s)]
               /\ Head(s) # s[Len(s)]
<1> DEFINE t == Tail(s)
<1>1. /\ Len(s) \in Nat /\ Len(s) >= 1 /\ DOMAIN s = 1..Len(s)
      /\ Head(s) = s[1]
      /\ t \in Seq(S) /\ Len(t) = Len(s) - 1 /\ DOMAIN t = 1..Len(t)
      /\ \A k \in 1..Len(t) : t[k] = s[k + 1]
  OBVIOUS
<1> HIDE DEF t
<1>2. Head(s) \in Values(s) /\ Head(s) \in S
  BY <1>1 DEF Values
<1>3. Values(t) = Values(s) \ {Head(s)}
  <2>1. ASSUME NEW e \in Values(t)
        PROVE  e \in Values(s) /\ e # Head(s)
    <3>1. PICK k \in DOMAIN t : e = t[k]
      BY DEF Values
    <3>2. k + 1 \in DOMAIN s /\ 1 \in DOMAIN s /\ k + 1 # 1 /\ e = s[k + 1]
      BY <3>1, <1>1
    <3> QED
      BY <3>2, <1>1 DEF Values, Distinct
  <2>2. ASSUME NEW e \in Values(s), e # Head(s)
        PROVE  e \in Values(t)
    <3>1. PICK k \in DOMAIN s : e = s[k]
      BY DEF Values
    <3>2. k - 1 \in DOMAIN t /\ (k - 1) + 1 = k
      BY <3>1, <2>2, <1>1
    <3>3. e = t[k - 1]
      BY <3>1, <3>2, <1>1
    <3> QED
      BY <3>2, <3>3 DEF Values
  <2> QED
    BY <2>1, <2>2
<1>4. Distinct(t)
  <2> SUFFICES ASSUME NEW k \in DOMAIN t, NEW l \in DOMAIN t, t[k] = t[l]
               PROVE  k = l
    BY DEF Distinct
  <2>1. k + 1 \in DOMAIN s /\ l + 1 \in DOMAIN s /\ s[k + 1] = s[l + 1]
    BY <1>1
  <2>2. k + 1 = l + 1
    BY <2>1 DEF Distinct
  <2> QED
    BY <2>2, <1>1
<1>5. CASE Len(s) = 1
  <2>1. Len(t) = 0 /\ Head(s) = s[Len(s)]
    BY <1>1, <1>5
  <2>2. t = <<>>
    BY <2>1, <1>1
  <2> QED
    BY <2>1, <2>2, <1>1, <1>2, <1>3, <1>4 DEF t
<1>6. CASE Len(s) # 1
  <2>1. /\ Len(t) \in 1..Len(t) /\ Len(t) + 1 = Len(s)
        /\ Len(s) \in DOMAIN s /\ 1 \in DOMAIN s
    BY <1>1, <1>6
  <2>2. t[Len(t)] = s[Len(s)]
    BY <2>1, <1>1
  <2>3. Head(s) # s[Len(s)]
    BY <2>1, <1>1, <1>6 DEF Distinct
  <2>4. t # <<>>
    BY <2>1, <1>1
  <2> QED
    BY <2>2, <2>3, <2>4, <1>1, <1>2, <1>3, <1>4 DEF t
<1> QED
  BY <1>5, <1>6

-----------------------------------------------------------------------------
(* Chunks and messages.                                                    *)

\* Choices and fields have chunks of their own.
LEMMA ItemsDiffer ==
  ASSUME NEW choices \in Bodies,
         NEW m \in DOMAIN choices, NEW n \in DOMAIN choices,
         NEW f \in Fields, NEW g \in Fields,
         Item(choices, m, f) = Item(choices, n, g)
  PROVE  m = n /\ f = g
<1>1. Index(choices, m) = Index(choices, n) /\ f = g
  BY DEF Item
<1> QED
  BY <1>1, StreamAssumption

LEMMA ClosingItems ==
  ASSUME NEW choices, NEW n, NEW f \in Fields
  PROVE  /\ Item(choices, n, f) # UsageItem
         /\ Item(choices, n, f) # DoneItem
         /\ UsageItem # DoneItem
<1>1. /\ Item(choices, n, f).field \in Fields
      /\ UsageItem.field = "usage" /\ DoneItem.field = "[DONE]"
  BY DEF Item, UsageItem, DoneItem
<1> QED
  BY <1>1 DEF Fields

LEMMA NewMessageIs ==
  NewMessage = [f \in Fields |-> NewMessage[f]]
  BY DEF NewMessage, Fields

LEMMA FinalIs ==
  ASSUME NEW c
  PROVE  /\ Final(c)["role"] = "assistant"
         /\ Final(c)["reasoning_content"] = OrEmpty(c.message.reasoning_content)
         /\ Final(c)["content"] = OrEmpty(c.message.content)
         /\ Final(c)["tool_calls"] = Placed(Calls(c.message))
         /\ Final(c)["finish_reason"] = Reason(c)
  BY DEF Final

LEMMA EmptyFields ==
  /\ NewMessage["reasoning_content"] = <<>>
  /\ NewMessage["content"] = <<>>
  /\ NewMessage["tool_calls"] = <<>>
  BY DEF NewMessage

\* What an encodable choice holds.
LEMMA EncodableMessage ==
  ASSUME NEW choices \in Bodies, NEW n \in DOMAIN choices, Encodable(choices[n]),
         NEW m, m = choices[n].message
  PROVE  /\ OrEmpty(m.reasoning_content) \in Seq(Words)
         /\ OrEmpty(m.content) \in Seq(Words)
         /\ m.tool_calls # Missing => m.tool_calls \in Seq(FunctionCalls)
<1>1. choices[n] \in Choice
  BY StreamAssumption
<1>2. m \in [reasoning_content : Text, content : Text,
             tool_calls : {Missing, Invalid} \cup Seq({Invalid} \cup FunctionCalls)]
  BY <1>1 DEF Choice, Encodable
<1>3. OrEmpty(m.reasoning_content) \in Seq(Words) /\ OrEmpty(m.content) \in Seq(Words)
  BY <1>2, EmptySequence DEF Text, Encodable, OrEmpty
<1>4. ASSUME m.tool_calls # Missing
      PROVE  m.tool_calls \in Seq(FunctionCalls)
  <2>1. /\ m.tool_calls \in Seq({Invalid} \cup FunctionCalls)
        /\ \A k \in DOMAIN m.tool_calls : m.tool_calls[k] # Invalid
    BY <1>2, <1>4 DEF Encodable
  <2>2. \A k \in 1..Len(m.tool_calls) : m.tool_calls[k] \in FunctionCalls
    BY <2>1
  <2> QED
    BY <2>1, <2>2
<1> QED
  BY <1>3, <1>4

\* The client puts the call at position k of the list under k - 1.
LEMMA PlacedCalls ==
  ASSUME NEW choices \in Bodies, NEW n \in DOMAIN choices, Encodable(choices[n]),
         NEW m, m = choices[n].message
  PROVE  LET calls == OrEmpty(m.tool_calls)
         IN /\ DOMAIN Placed(Calls(m)) = {k - 1 : k \in DOMAIN calls}
            /\ \A k \in DOMAIN calls : Placed(Calls(m))[k - 1] = calls[k]
            /\ Calls(m) = <<>> <=> calls = <<>>
            /\ Calls(m) = <<>> => Placed(Calls(m)) = <<>>
<1> DEFINE calls == OrEmpty(m.tool_calls)
           list  == Calls(m)
<1>1. /\ calls \in Seq(FunctionCalls)
      /\ DOMAIN list = DOMAIN calls
      /\ \A k \in DOMAIN calls : list[k].index = k - 1 /\ list[k].call = calls[k]
  <2>1. CASE m.tool_calls = Missing
    BY <2>1, EmptySequence DEF Calls, OrEmpty
  <2>2. CASE m.tool_calls # Missing
    BY <2>2, EncodableMessage DEF Calls, OrEmpty
  <2> QED
    BY <2>1, <2>2
<1>2. DOMAIN calls = 1..Len(calls) /\ Len(calls) \in Nat
  BY <1>1
<1>3. list = <<>> <=> calls = <<>>
  <2>1. calls = <<>> <=> DOMAIN calls = {}
    BY <1>1, <1>2
  <2>2. list = <<>> <=> DOMAIN list = {}
    BY <1>1, <1>2 DEF Calls
  <2> QED
    BY <2>1, <2>2, <1>1
<1> HIDE DEF calls, list
<1>4. DOMAIN Placed(list) = {k - 1 : k \in DOMAIN calls}
  BY <1>1 DEF Placed
<1>5. ASSUME NEW k \in DOMAIN calls
      PROVE  Placed(list)[k - 1] = calls[k]
  <2> DEFINE Last(j) == /\ list[j].index = k - 1
                        /\ \A l \in DOMAIN list : list[l].index = k - 1 => l <= j
  <2>1. Last(k) /\ \A j \in DOMAIN list : Last(j) => j = k
    BY <1>1, <1>2
  <2>2. (CHOOSE j \in DOMAIN list : Last(j)) = k
    BY <2>1, <1>1
  <2>3. Placed(list)[k - 1] = list[CHOOSE j \in DOMAIN list : Last(j)].call
    BY <1>1, <1>4 DEF Placed
  <2> QED
    BY <2>2, <2>3, <1>1
<1>6. list = <<>> => Placed(list) = <<>>
  <2>1. SUFFICES ASSUME list = <<>>
                 PROVE  Placed(list) = <<>>
    OBVIOUS
  <2>2. {list[k].index : k \in DOMAIN list} = {}
    BY <2>1, EmptySequence
  <2> DEFINE Call(i) ==
        list[CHOOSE k \in DOMAIN list :
               list[k].index = i /\ \A l \in DOMAIN list : list[l].index = i => l <= k].call
  <2>3. Placed(list) = [i \in {} |-> Call(i)]
    BY <2>2, Zenon DEF Placed
  <2> HIDE DEF Call
  <2> QED
    BY <2>3
<1> QED
  BY <1>3, <1>4, <1>5, <1>6 DEF calls, list

\* A delta sets its own field, and no other.
LEMMA MergedIs ==
  ASSUME NEW choices \in Bodies, NEW n \in DOMAIN choices, Encodable(choices[n]),
         NEW f \in Fields,
         NEW m, m = [g \in Fields |-> m[g]], m[f] = NewMessage[f]
  PROVE  Merged(m, Item(choices, n, f)) =
           [g \in Fields |-> IF g = f THEN Final(choices[n])[g] ELSE m[g]]
<1> DEFINE c == Item(choices, n, f)
<1>1. /\ c.field = f
      /\ f # "tool_calls" => c.value = Final(choices[n])[f]
      /\ f = "tool_calls" => c.value = Calls(choices[n].message)
  BY DEF Item
<1> HIDE DEF c
<1>2. CASE f = "tool_calls"
  <2>1. Merged(m, c) = [m EXCEPT !["tool_calls"] = Placed(c.value)]
    BY <1>1, <1>2 DEF Merged
  <2>2. Placed(c.value) = Final(choices[n])[f]
    BY <1>1, <1>2, FinalIs
  <2> QED
    BY <2>1, <2>2, <1>2 DEF c
<1>3. CASE f \in {"reasoning_content", "content"}
  <2>1. Merged(m, c) = [m EXCEPT ![f] = m[f] \o c.value]
    BY <1>1, <1>3 DEF Merged
  <2>2. m[f] = <<>> /\ c.value \in Seq(Words)
    BY <1>1, <1>3, EmptyFields, FinalIs, EncodableMessage
  <2>3. m[f] \o c.value = Final(choices[n])[f]
    BY <2>2, <1>1, <1>3
  <2> QED
    BY <2>1, <2>3 DEF c
<1>4. CASE f \notin {"tool_calls", "reasoning_content", "content"}
  <2>1. Merged(m, c) = [m EXCEPT ![f] = c.value]
    BY <1>1, <1>4 DEF Merged
  <2> QED
    BY <2>1, <1>1, <1>4 DEF c
<1> QED
  BY <1>2, <1>3, <1>4

\* One chunk, or none where there is nothing to say.
LEMMA OptionalIs ==
  ASSUME NEW choices \in Bodies, NEW n \in DOMAIN choices, Encodable(choices[n]),
         NEW f, NEW v,
         \/ f \in {"reasoning_content", "content"} /\ v = Final(choices[n])[f]
         \/ f = "tool_calls" /\ v = Calls(choices[n].message)
  PROVE  LET s == Optional(Index(choices, n), f, v)
         IN /\ s \in Seq(Items(choices, {n}))
            /\ Distinct(s)
            /\ Values(s) \subseteq {Item(choices, n, f)}
            /\ Item(choices, n, f) \in Values(s) \/ Final(choices[n])[f] = NewMessage[f]
<1> DEFINE s == Optional(Index(choices, n), f, v)
           e == Item(choices, n, f)
<1>1. f \in Fields /\ e \in Items(choices, {n})
  BY DEF Fields, Items
<1>2. CASE v = <<>>
  <2>1. s = <<>>
    BY <1>2 DEF Optional
  <2>2. Final(choices[n])[f] = NewMessage[f]
    BY <1>2, FinalIs, EmptyFields, PlacedCalls
  <2> QED
    BY <2>1, <2>2, EmptySequence
<1>3. CASE v # <<>>
  <2>1. s = <<e>>
    BY <1>3 DEF Optional, Chunk, Item
  <2> HIDE DEF s, e
  <2>2. s \in Seq(Items(choices, {n})) /\ Distinct(s) /\ Values(s) = {e}
    BY <2>1, <1>1, Singleton
  <2> QED
    BY <2>2 DEF s, e
<1> QED
  BY <1>2, <1>3

\* The chunks of a choice: each once, none of another choice, and none missing
\* unless it would tell the client nothing new.
LEMMA ChoiceChunksAre ==
  ASSUME NEW choices \in Bodies, NEW n \in DOMAIN choices, Encodable(choices[n])
  PROVE  LET s == ChoiceChunks(choices, n)
         IN /\ s \in Seq(Items(choices, {n}))
            /\ Distinct(s)
            /\ Item(choices, n, "finish_reason") \in Values(s)
            /\ \A f \in Fields :
                 Item(choices, n, f) \in Values(s) \/ Final(choices[n])[f] = NewMessage[f]
<1> DEFINE i == Index(choices, n)
           m == choices[n].message
           S == Items(choices, {n})
           I(f) == Item(choices, n, f)
           a == <<I("role")>>
           b == Optional(i, "reasoning_content", OrEmpty(m.reasoning_content))
           c == Optional(i, "content", OrEmpty(m.content))
           d == Optional(i, "tool_calls", Calls(m))
           e == <<I("finish_reason")>>
<1>1. ChoiceChunks(choices, n) = a \o b \o c \o d \o e
  <2>1. a = Chunk(i, "role", "assistant")
    BY FinalIs DEF Chunk, Item
  <2>2. e = Chunk(i, "finish_reason", Reason(choices[n]))
    BY FinalIs DEF Chunk, Item
  <2> HIDE DEF a, b, c, d, e
  <2> QED
    BY <2>1, <2>2 DEF ChoiceChunks, b, c, d
<1>2. \A f \in Fields : I(f) \in S
  BY DEF Items
<1>3. "role" \in Fields /\ "reasoning_content" \in Fields /\ "content" \in Fields
      /\ "tool_calls" \in Fields /\ "finish_reason" \in Fields
  BY DEF Fields
<1>4. \A f, g \in Fields : I(f) = I(g) => f = g
  BY ItemsDiffer
<1>5. /\ a \in Seq(S) /\ Distinct(a) /\ Values(a) = {I("role")}
      /\ e \in Seq(S) /\ Distinct(e) /\ Values(e) = {I("finish_reason")}
  <2> HIDE DEF I, S
  <2> QED
    BY <1>2, <1>3, Singleton
<1>6. /\ b \in Seq(S) /\ Distinct(b) /\ Values(b) \subseteq {I("reasoning_content")}
      /\ \/ I("reasoning_content") \in Values(b)
         \/ Final(choices[n])["reasoning_content"] = NewMessage["reasoning_content"]
  BY FinalIs, OptionalIs
<1>7. /\ c \in Seq(S) /\ Distinct(c) /\ Values(c) \subseteq {I("content")}
      /\ I("content") \in Values(c) \/ Final(choices[n])["content"] = NewMessage["content"]
  BY FinalIs, OptionalIs
<1>8. /\ d \in Seq(S) /\ Distinct(d) /\ Values(d) \subseteq {I("tool_calls")}
      /\ I("tool_calls") \in Values(d) \/ Final(choices[n])["tool_calls"] = NewMessage["tool_calls"]
  BY OptionalIs
<1> HIDE DEF I, S, a, b, c, d, e, i, m
<1> DEFINE ab == a \o b
           abc == ab \o c
           abcd == abc \o d
           abcde == abcd \o e
<1>9. ab \in Seq(S) /\ Distinct(ab) /\ Values(ab) = Values(a) \cup Values(b)
  <2>1. Values(a) \cap Values(b) = {}
    BY <1>3, <1>4, <1>5, <1>6
  <2> QED
    BY <2>1, <1>5, <1>6, Concatenation
<1> HIDE DEF ab
<1>10. abc \in Seq(S) /\ Distinct(abc) /\ Values(abc) = Values(ab) \cup Values(c)
  <2>1. Values(ab) \cap Values(c) = {}
    BY <1>3, <1>4, <1>5, <1>6, <1>7, <1>9
  <2> QED
    BY <2>1, <1>7, <1>9, Concatenation
<1> HIDE DEF abc
<1>11. abcd \in Seq(S) /\ Distinct(abcd) /\ Values(abcd) = Values(abc) \cup Values(d)
  <2>1. Values(abc) \cap Values(d) = {}
    BY <1>3, <1>4, <1>5, <1>6, <1>7, <1>8, <1>9, <1>10
  <2> QED
    BY <2>1, <1>8, <1>10, Concatenation
<1> HIDE DEF abcd
<1>12. abcde \in Seq(S) /\ Distinct(abcde) /\ Values(abcde) = Values(abcd) \cup Values(e)
  <2>1. Values(abcd) \cap Values(e) = {}
    BY <1>3, <1>4, <1>5, <1>6, <1>7, <1>8, <1>9, <1>10, <1>11
  <2> QED
    BY <2>1, <1>5, <1>11, Concatenation
<1> HIDE DEF abcde
<1>13. ChoiceChunks(choices, n) = abcde
  BY <1>1 DEF ab, abc, abcd, abcde
<1>14. \A f \in Fields :
         I(f) \in Values(ChoiceChunks(choices, n)) \/ Final(choices[n])[f] = NewMessage[f]
  BY <1>13, <1>5, <1>6, <1>7, <1>8, <1>9, <1>10, <1>11, <1>12 DEF Fields
<1>15. I("finish_reason") \in Values(ChoiceChunks(choices, n))
  BY <1>13, <1>5, <1>12
<1> QED
  BY <1>12, <1>13, <1>14, <1>15 DEF I, S

-----------------------------------------------------------------------------
(* The invariant.                                                          *)

LEMMA ValuesIn ==
  ASSUME NEW S, NEW s \in Seq(S)
  PROVE  Values(s) \subseteq S
  BY DEF Values

LEMMA SeqMonotonic ==
  ASSUME NEW S, NEW T, S \subseteq T, NEW s \in Seq(S)
  PROVE  s \in Seq(T)
<1>1. \A k \in 1..Len(s) : s[k] \in T
  OBVIOUS
<1> QED
  BY <1>1

LEMMA InitInv == Init => SSEInv
<1> SUFFICES ASSUME Init
             PROVE  SSEInv
  OBVIOUS
<1> USE DEF Init
<1>1. Len(body) \in Nat
  BY StreamAssumption
<1>2. 1..ordinal = {} /\ 0 \in 0..Len(body)
  BY <1>1
<1>3. StreamOk
  BY <1>1, <1>2, EmptySequence DEF StreamOk
<1>4. PhaseOk
  BY EmptySequence DEF PhaseOk
<1>5. FieldsOk /\ MessagesOk
  BY <1>2 DEF FieldsOk, MessagesOk
<1> QED
  BY <1>3, <1>4, <1>5 DEF SSEInv

LEMMA EncodeChoiceInv == SSEInv /\ EncodeChoice => SSEInv'
<1> SUFFICES ASSUME SSEInv, EncodeChoice
             PROVE  SSEInv'
  OBVIOUS
<1> DEFINE n == ordinal + 1
           cc == ChoiceChunks(body, n)
           S == Items(body, 1..ordinal) \cup {UsageItem, DoneItem}
           T == Items(body, 1..n) \cup {UsageItem, DoneItem}
<1>1. /\ body \in Bodies /\ Len(body) \in Nat /\ DOMAIN body = 1..Len(body)
      /\ ordinal \in 0..Len(body) /\ ordinal < Len(body)
      /\ Encodable(body[n])
      /\ events \in Seq(S) /\ Distinct(events)
      /\ pc = "encode" /\ got = <<>>
      /\ FieldsOk /\ MessagesOk
      /\ UsageItem \notin Values(events) /\ DoneItem \notin Values(events)
      /\ \A k \in 1..ordinal : Encodable(body[k])
  BY StreamAssumption DEF SSEInv, StreamOk, PhaseOk, EncodeChoice
<1>2. /\ ordinal' = n /\ events' = events \o cc
      /\ UNCHANGED <<body, include_usage, pc, got, usage>>
  BY DEF EncodeChoice
<1>3. /\ n \in DOMAIN body /\ n \in 0..Len(body)
      /\ 1..n = (1..ordinal) \cup {n} /\ n \notin 1..ordinal
      /\ 1..ordinal \subseteq DOMAIN body
  BY <1>1
<1>4. /\ cc \in Seq(Items(body, {n}))
      /\ Distinct(cc)
      /\ Item(body, n, "finish_reason") \in Values(cc)
      /\ \A f \in Fields : Item(body, n, f) \in Values(cc) \/ Final(body[n])[f] = NewMessage[f]
  BY <1>1, <1>3, ChoiceChunksAre
<1> HIDE DEF cc, n
<1>5. \A k \in 1..ordinal, f \in Fields : Item(body, k, f) \notin Items(body, {n})
  <2> SUFFICES ASSUME NEW k \in 1..ordinal, NEW f \in Fields, NEW g \in Fields,
                      Item(body, k, f) = Item(body, n, g)
               PROVE  FALSE
    BY DEF Items
  <2>1. k = n
    BY <1>1, <1>3, ItemsDiffer
  <2> QED
    BY <2>1, <1>3
<1>6. /\ Values(events) \subseteq Items(body, 1..ordinal)
      /\ Values(cc) \subseteq Items(body, {n})
  BY <1>1, <1>4, ValuesIn
<1>7. Values(events) \cap Values(cc) = {}
  BY <1>5, <1>6 DEF Items
<1>8. events \in Seq(T) /\ cc \in Seq(T)
  <2>1. S \subseteq T /\ Items(body, {n}) \subseteq T
    BY <1>3 DEF Items
  <2> HIDE DEF S, T
  <2> QED
    BY <2>1, <1>1, <1>4, SeqMonotonic
<1>9. events' \in Seq(T) /\ Distinct(events') /\ Values(events') = Values(events) \cup Values(cc)
  <2> HIDE DEF T
  <2> QED
    BY <1>1, <1>2, <1>4, <1>7, <1>8, Concatenation
<1>10. StreamOk'
  BY <1>1, <1>2, <1>3, <1>9 DEF StreamOk
<1>11. PhaseOk'
  <2>1. \A f \in Fields : Item(body, n, f) # UsageItem /\ Item(body, n, f) # DoneItem
    BY ClosingItems
  <2>2. UsageItem \notin Values(events') /\ DoneItem \notin Values(events')
    BY <2>1, <1>1, <1>6, <1>9 DEF Items
  <2>3. (UsageItem \notin Values(events))' /\ (DoneItem \notin Values(events))'
    BY <2>2 DEF UsageItem, DoneItem
  <2> QED
    BY <2>3, <1>1, <1>2 DEF SSEInv, PhaseOk
<1>12. FieldsOk'
  <2> SUFFICES ASSUME NEW k \in 1..n, NEW f \in Fields
               PROVE  NewMessage[f] =
                        IF Item(body, k, f) \in Values(events') THEN NewMessage[f]
                        ELSE Final(body[k])[f]
    <3>1. \A k \in 1..n : Current(Index(body, k))' = NewMessage
      BY <1>1, <1>2 DEF Current
    <3> QED
      BY <3>1, <1>2 DEF FieldsOk
  <2>1. CASE k \in 1..ordinal
    <3>1. Item(body, k, f) \in Values(events') <=> Item(body, k, f) \in Values(events)
      BY <2>1, <1>5, <1>6, <1>9
    <3>2. Current(Index(body, k)) = NewMessage
      BY <1>1 DEF Current
    <3> QED
      BY <3>1, <3>2, <2>1, <1>1 DEF FieldsOk
  <2>2. CASE k = n
    BY <2>2, <1>4, <1>9
  <2> QED
    BY <2>1, <2>2, <1>3
<1>13. MessagesOk'
  BY <1>1, <1>2, <1>3, <1>4, <1>9 DEF MessagesOk
<1> QED
  BY <1>2, <1>10, <1>11, <1>12, <1>13 DEF SSEInv

LEMMA EncodeEndsInv == SSEInv /\ EncodeEnds => SSEInv'
<1> SUFFICES ASSUME SSEInv, EncodeEnds
             PROVE  SSEInv'
  OBVIOUS
<1> DEFINE S == Items(body, 1..ordinal) \cup {UsageItem, DoneItem}
           u == IF include_usage THEN <<UsageItem>> ELSE <<>>
           t == events \o u
<1>1. /\ body \in Bodies /\ ordinal = Len(body) /\ include_usage \in BOOLEAN
      /\ events \in Seq(S) /\ Distinct(events)
      /\ got = <<>> /\ usage = FALSE /\ pc = "encode"
      /\ FieldsOk /\ MessagesOk /\ StreamOk
      /\ UsageItem \notin Values(events) /\ DoneItem \notin Values(events)
  BY DEF SSEInv, StreamOk, PhaseOk, EncodeEnds
<1>2. /\ events' = t \o <<DoneItem>>
      /\ pc' = "stream"
      /\ UNCHANGED <<body, include_usage, ordinal, got, usage>>
  BY DEF EncodeEnds, Chunk, UsageItem, DoneItem
<1>3. UsageItem \in S /\ DoneItem \in S /\ UsageItem # DoneItem
  <2>1. "role" \in Fields
    BY DEF Fields
  <2> QED
    BY <2>1, ClosingItems
<1> HIDE DEF S
<1>4. /\ u \in Seq(S) /\ Distinct(u)
      /\ Values(u) = IF include_usage THEN {UsageItem} ELSE {}
  BY <1>3, Singleton, EmptySequence
<1> HIDE DEF u
<1>5. t \in Seq(S) /\ Distinct(t) /\ Values(t) = Values(events) \cup Values(u)
  <2>1. Values(events) \cap Values(u) = {}
    BY <1>1, <1>4
  <2> QED
    BY <2>1, <1>1, <1>4, Concatenation
<1> HIDE DEF t
<1>6. /\ events' \in Seq(S) /\ Distinct(events')
      /\ Values(events') = Values(t) \cup {DoneItem}
  <2> DEFINE d == <<DoneItem>>
  <2>1. d \in Seq(S) /\ Distinct(d) /\ Values(d) = {DoneItem}
    BY <1>3, Singleton
  <2>2. Values(t) \cap Values(d) = {}
    BY <2>1, <1>1, <1>3, <1>4, <1>5
  <2>3. events' = t \o d
    BY <1>2
  <2> HIDE DEF d
  <2> QED
    BY <2>1, <2>2, <2>3, <1>5, Concatenation
<1>7. events' # <<>> /\ events'[Len(events')] = DoneItem
  BY <1>2, <1>5
<1>8. UsageItem \in Values(events') <=> include_usage
  BY <1>1, <1>3, <1>4, <1>5, <1>6
<1>9. StreamOk'
  BY <1>1, <1>2, <1>6 DEF StreamOk, S
<1>10. PhaseOk'
  <2>1. (UsageItem \in Values(events))' <=> include_usage
    BY <1>8 DEF UsageItem
  <2>2. (events[Len(events)] = DoneItem)' /\ (events # <<>>)'
    BY <1>7 DEF DoneItem
  <2>3. usage' = (include_usage /\ UsageItem \notin Values(events))'
    BY <2>1, <1>1, <1>2
  <2> QED
    BY <2>1, <2>2, <2>3, <1>1, <1>2 DEF PhaseOk
<1>11. \A n \in 1..ordinal, f \in Fields :
         Item(body, n, f) \in Values(events') <=> Item(body, n, f) \in Values(events)
  BY <1>4, <1>5, <1>6, ClosingItems
<1>12. FieldsOk'
  <2>1. \A i : Current(i)' = Current(i)
    BY <1>2 DEF Current
  <2> QED
    BY <2>1, <1>1, <1>2, <1>11 DEF FieldsOk
<1>13. MessagesOk'
  <2>1. "finish_reason" \in Fields
    BY DEF Fields
  <2> QED
    BY <2>1, <1>1, <1>2, <1>11 DEF MessagesOk
<1> QED
  BY <1>1, <1>2, <1>9, <1>10, <1>12, <1>13 DEF SSEInv

LEMMA ReceiveInv == SSEInv /\ Receive => SSEInv'
<1> SUFFICES ASSUME SSEInv, Receive
             PROVE  SSEInv'
  OBVIOUS
<1> DEFINE S == Items(body, 1..ordinal) \cup {UsageItem, DoneItem}
           c == Head(events)
<1>1. /\ body \in Bodies /\ ordinal = Len(body) /\ include_usage \in BOOLEAN
      /\ events \in Seq(S) /\ Distinct(events) /\ events # <<>>
      /\ events[Len(events)] = DoneItem
      /\ usage = (include_usage /\ UsageItem \notin Values(events))
      /\ UsageItem \in Values(events) => include_usage
      /\ FieldsOk /\ MessagesOk /\ StreamOk
      /\ pc = "stream"
      /\ 1..ordinal = DOMAIN body
  BY StreamAssumption DEF SSEInv, StreamOk, PhaseOk, Receive
<1>2. events' = Tail(events) /\ UNCHANGED <<body, include_usage, ordinal>>
  BY DEF Receive
<1>3. /\ c \in S /\ c \in Values(events)
      /\ events' \in Seq(S) /\ Distinct(events')
      /\ Values(events') = Values(events) \ {c}
      /\ \/ events' = <<>> /\ c = DoneItem
         \/ events' # <<>> /\ events'[Len(events')] = DoneItem /\ c # DoneItem
  <2> HIDE DEF S
  <2> QED
    BY <1>1, <1>2, HeadAndTail
<1>4. StreamOk'
  BY <1>1, <1>2, <1>3 DEF StreamOk
<1>5. /\ UsageItem' = UsageItem /\ DoneItem' = DoneItem
      /\ (Values(events))' = Values(events')
      /\ UsageItem.field = "usage" /\ DoneItem.field = "[DONE]"
      /\ \A n, f : Item(body, n, f).field = f /\ Item(body, n, f).index = Index(body, n)
  BY DEF UsageItem, DoneItem, Item
<1>6. UsageItem # DoneItem
  BY <1>5
<1>7. CASE c \in {UsageItem, DoneItem}
  <2>1. \A n \in 1..ordinal, f \in Fields :
          Item(body, n, f) \in Values(events') <=> Item(body, n, f) \in Values(events)
    BY <1>3, <1>7, ClosingItems
  <2>2. got' = got
    BY <1>5, <1>7 DEF Receive
  <2>3. FieldsOk'
    <3>1. \A i : Current(i)' = Current(i)
      BY <2>2 DEF Current
    <3> QED
      BY <3>1, <2>1, <1>1, <1>2 DEF FieldsOk
  <2>4. MessagesOk'
    <3>1. "finish_reason" \in Fields
      BY DEF Fields
    <3> QED
      BY <3>1, <2>1, <2>2, <1>1, <1>2 DEF MessagesOk
  <2>5. PhaseOk'
    <3>1. CASE c = DoneItem
      <4>1. pc' = "done" /\ usage' = usage /\ events' = <<>>
        BY <3>1, <1>3, <1>5 DEF Receive
      <4>2. UsageItem \notin Values(events)
        BY <4>1, <3>1, <1>3, <1>6, EmptySequence
      <4> QED
        BY <4>1, <4>2, <1>1, <1>2 DEF PhaseOk
    <3>2. CASE c = UsageItem
      <4>1. pc' = "stream" /\ usage' = TRUE
        BY <3>2, <1>1, <1>5 DEF Receive
      <4>2. events' # <<>> /\ events'[Len(events')] = DoneItem
        BY <3>2, <1>3, <1>6
      <4>3. UsageItem \notin Values(events') /\ include_usage = TRUE
        BY <3>2, <1>1, <1>3
      <4> QED
        BY <4>1, <4>2, <4>3, <1>1, <1>2, <1>5 DEF PhaseOk
    <3> QED
      BY <3>1, <3>2, <1>7
  <2> QED
    BY <2>3, <2>4, <2>5, <1>1, <1>2, <1>4 DEF SSEInv
<1>8. ASSUME NEW n \in 1..ordinal, NEW f \in Fields, c = Item(body, n, f)
      PROVE  SSEInv'
  <2> DEFINE i == Index(body, n)
             m == Current(i)
  <2>1. c.field = f /\ c.index = i /\ c # UsageItem /\ c # DoneItem
    BY <1>5, <1>8, ClosingItems
  <2>2. m = [g \in Fields |-> m[g]] /\ m[f] = NewMessage[f]
    <3>1. m[f] = NewMessage[f]
      BY <1>1, <1>3, <1>8 DEF FieldsOk
    <3>2. m = [g \in Fields |-> m[g]]
      BY <1>1, NewMessageIs DEF MessagesOk, Current
    <3> QED
      BY <3>1, <3>2
  <2>3. Encodable(body[n]) /\ n \in DOMAIN body
    BY <1>1 DEF StreamOk
  <2> HIDE DEF c, m, i
  <2>4. Merged(m, c) = [g \in Fields |-> IF g = f THEN Final(body[n])[g] ELSE m[g]]
    BY <1>1, <1>8, <2>2, <2>3, MergedIs
  <2>5. /\ pc' = pc /\ usage' = usage
        /\ got' = [j \in DOMAIN got \cup {c.index} |->
                     IF j = c.index THEN Merged(Current(j), c) ELSE Current(j)]
    <3>1. f # "[DONE]" /\ f # "usage"
      BY DEF Fields
    <3> QED
      BY <3>1, <2>1 DEF Receive, Current, c
  <2>6. /\ DOMAIN got' = DOMAIN got \cup {i}
        /\ got'[i] = Merged(m, c)
        /\ \A j \in DOMAIN got : j # i => got'[j] = got[j]
    BY <2>1, <2>5 DEF Current, m
  <2>7. /\ Current(i)' = Merged(m, c)
        /\ \A j : j # i => Current(j)' = Current(j)
    <3>1. i' = i
      BY <1>2 DEF i, Index
    <3> HIDE DEF m
    <3> QED
      BY <3>1, <2>6 DEF Current
  <2>8. FieldsOk'
    <3> SUFFICES ASSUME NEW k \in 1..ordinal, NEW g \in Fields
                 PROVE  Current(Index(body, k))'[g] =
                          IF Item(body, k, g) \in Values(events') THEN NewMessage[g]
                          ELSE Final(body[k])[g]
      BY <1>2 DEF FieldsOk
    <3>1. CASE k = n /\ g = f
      <4>1. Item(body, k, g) \notin Values(events')
        BY <3>1, <1>3, <1>8
      <4> QED
        BY <4>1, <3>1, <2>4, <2>7 DEF i
    <3>2. CASE ~(k = n /\ g = f)
      <4>1. Item(body, k, g) # c
        BY <3>2, <1>1, <1>8, ItemsDiffer
      <4>2. Item(body, k, g) \in Values(events') <=> Item(body, k, g) \in Values(events)
        BY <4>1, <1>3
      <4>3. Current(Index(body, k))'[g] = Current(Index(body, k))[g]
        <5>1. CASE k = n
          BY <5>1, <3>2, <2>4, <2>7 DEF i, m
        <5>2. CASE k # n
          <6>1. Index(body, k) # i
            BY <5>2, <1>1, StreamAssumption DEF i
          <6> QED
            BY <6>1, <2>7, <1>2 DEF Index, Current
        <5> QED
          BY <5>1, <5>2
      <4> QED
        BY <4>2, <4>3, <1>1 DEF FieldsOk
    <3> QED
      BY <3>1, <3>2
  <2>9. MessagesOk'
    <3>1. DOMAIN got' \subseteq {Index(body, k) : k \in 1..ordinal}
      BY <2>6, <1>1 DEF MessagesOk, i
    <3>2. \A j \in DOMAIN got' : got'[j] = [g \in Fields |-> got'[j][g]]
      BY <2>4, <2>6, <1>1 DEF MessagesOk
    <3>3. \A k \in 1..ordinal :
            Item(body, k, "finish_reason") \in Values(events') \/ Index(body, k) \in DOMAIN got'
      <4> TAKE k \in 1..ordinal
      <4>1. CASE k = n
        BY <4>1, <2>6 DEF i
      <4>2. CASE k # n
        <5>1. "finish_reason" \in Fields
          BY DEF Fields
        <5>2. Item(body, k, "finish_reason") # c
          BY <5>1, <4>2, <1>1, <1>8, ItemsDiffer
        <5> QED
          BY <5>2, <2>6, <1>1, <1>3 DEF MessagesOk
      <4> QED
        BY <4>1, <4>2
    <3> QED
      BY <3>1, <3>2, <3>3, <1>2 DEF MessagesOk
  <2>10. PhaseOk'
    <3>1. UsageItem \in Values(events') <=> UsageItem \in Values(events)
      BY <2>1, <1>3
    <3>2. events' # <<>> /\ events'[Len(events')] = DoneItem
      BY <2>1, <1>3
    <3> QED
      BY <3>1, <3>2, <2>5, <1>1, <1>2, <1>5 DEF PhaseOk
  <2> QED
    BY <2>8, <2>9, <2>10, <1>1, <1>2, <1>4 DEF SSEInv
<1> QED
  BY <1>3, <1>7, <1>8 DEF Items

LEMMA EncodeFailsInv == SSEInv /\ EncodeFails => SSEInv'
<1> SUFFICES ASSUME SSEInv, EncodeFails
             PROVE  SSEInv'
  OBVIOUS
<1>1. StreamOk'
  BY EmptySequence DEF SSEInv, StreamOk, EncodeFails
<1> QED
  BY <1>1 DEF SSEInv, PhaseOk, EncodeFails

LEMMA StutterInv == SSEInv /\ UNCHANGED vars => SSEInv'
  BY DEF SSEInv, StreamOk, PhaseOk, FieldsOk, MessagesOk, Current, vars

LEMMA InductiveInv == SSEInv /\ [Next]_vars => SSEInv'
  BY EncodeChoiceInv, EncodeFailsInv, EncodeEndsInv, ReceiveInv, StutterInv DEF Next

\* At "[DONE]" nothing is on its way, so every field has arrived.
LEMMA InvImpliesRoundTrip == SSEInv => RoundTrip
<1> SUFFICES ASSUME SSEInv, pc = "done"
             PROVE  /\ events = <<>>
                    /\ usage = include_usage
                    /\ DOMAIN got = {Index(body, n) : n \in DOMAIN body}
                    /\ \A n \in DOMAIN body :
                         LET m == body[n].message
                             g == got[Index(body, n)]
                             calls == OrEmpty(m.tool_calls)
                         IN /\ g.role = "assistant"
                            /\ g.reasoning_content = OrEmpty(m.reasoning_content)
                            /\ g.content = OrEmpty(m.content)
                            /\ DOMAIN g.tool_calls = {k - 1 : k \in DOMAIN calls}
                            /\ \A k \in DOMAIN calls : g.tool_calls[k - 1] = calls[k]
                            /\ g.finish_reason =
                                 (IF body[n].finish_reason # Missing THEN body[n].finish_reason
                                  ELSE IF calls # <<>> THEN "tool_calls" ELSE "stop")
  BY Zenon DEF RoundTrip
<1>1. /\ events = <<>> /\ usage = include_usage
      /\ body \in Bodies /\ 1..ordinal = DOMAIN body
      /\ \A n \in DOMAIN body : Encodable(body[n])
      /\ FieldsOk /\ MessagesOk
  BY StreamAssumption DEF SSEInv, StreamOk, PhaseOk
<1>2. Values(events) = {}
  BY <1>1, EmptySequence
<1>3. /\ DOMAIN got = {Index(body, n) : n \in DOMAIN body}
      /\ \A n \in DOMAIN body : Index(body, n) \in DOMAIN got
  BY <1>1, <1>2 DEF MessagesOk
<1>4. \A n \in DOMAIN body, f \in Fields : got[Index(body, n)][f] = Final(body[n])[f]
  BY <1>1, <1>2, <1>3 DEF FieldsOk, Current
<1>5. ASSUME NEW n \in DOMAIN body, NEW m, m = body[n].message,
             NEW g, g = got[Index(body, n)],
             NEW calls, calls = OrEmpty(m.tool_calls)
      PROVE  /\ g.role = "assistant"
             /\ g.reasoning_content = OrEmpty(m.reasoning_content)
             /\ g.content = OrEmpty(m.content)
             /\ DOMAIN g.tool_calls = {k - 1 : k \in DOMAIN calls}
             /\ \A k \in DOMAIN calls : g.tool_calls[k - 1] = calls[k]
             /\ g.finish_reason =
                  (IF body[n].finish_reason # Missing THEN body[n].finish_reason
                   ELSE IF calls # <<>> THEN "tool_calls" ELSE "stop")
  <2>1. /\ g.role = "assistant"
        /\ g.reasoning_content = OrEmpty(m.reasoning_content)
        /\ g.content = OrEmpty(m.content)
        /\ g.tool_calls = Placed(Calls(m))
        /\ g.finish_reason = Reason(body[n])
    BY <1>4, <1>5, FinalIs DEF Fields
  <2>2. /\ DOMAIN Placed(Calls(m)) = {k - 1 : k \in DOMAIN calls}
        /\ \A k \in DOMAIN calls : Placed(Calls(m))[k - 1] = calls[k]
        /\ Calls(m) = <<>> <=> calls = <<>>
    <3>1. Encodable(body[n]) /\ body \in Bodies
      BY <1>1
    <3>2. /\ DOMAIN Placed(Calls(m)) = {k - 1 : k \in DOMAIN OrEmpty(m.tool_calls)}
          /\ \A k \in DOMAIN OrEmpty(m.tool_calls) :
               Placed(Calls(m))[k - 1] = OrEmpty(m.tool_calls)[k]
          /\ Calls(m) = <<>> <=> OrEmpty(m.tool_calls) = <<>>
      BY <3>1, <1>5, PlacedCalls, Zenon
    <3> QED
      BY <3>2, <1>5
  <2> QED
    BY <2>1, <2>2, <1>5 DEF Reason
<1> QED
  BY <1>1, <1>3, <1>5

\* An answer sent as a buffered stream arrives whole: whatever choices, texts and
\* tool calls the engine answered with, the client has them after "[DONE]".
THEOREM AnswersArriveWhole == Spec => []RoundTrip
<1>1. Init => SSEInv
  BY InitInv
<1>2. SSEInv /\ [Next]_vars => SSEInv'
  BY InductiveInv
<1>3. SSEInv => RoundTrip
  BY InvImpliesRoundTrip
<1> QED
  BY <1>1, <1>2, <1>3, PTL DEF Spec

=============================================================================
