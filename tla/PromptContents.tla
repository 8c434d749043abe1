---------------------------- MODULE PromptContents ----------------------------
(***************************************************************************)
(* From the messages of a conversation to the contents of a Gemini request *)
(* and back (conversation-context.service.ts and gemini-content.mapper.ts  *)
(* of src/modules/chat).                                                   *)
(*                                                                         *)
(* A text is the set of what it mentions: "words", and the product ids it  *)
(* lists, in the JSON of a tool result or in a [DISPLAY_CARDS: ...] tag.   *)
(* The empty set is a blank text.                                          *)
(***************************************************************************)
EXTENDS Selections

Words == "words"
NoCall == <<>>

Message(role, text, calls, callId) ==
    [role |-> role, text |-> text, calls |-> calls, callId |-> callId]

User(text) == Message("user", text, <<>>, NoCall)
Assistant(text) == Message("assistant", text, <<>>, NoCall)
ToolRequest(text, calls) == Message("assistant", text, calls, NoCall)
ToolResult(text, callId) == Message("tool", text, <<>>, callId)

IsUser(m) == m.role = "user"
RequestsTools(m) == m.role = "assistant" /\ m.calls # <<>>

-------------------------------------------------------------------------------
(* The part of the stored messages that goes into a prompt: the last       *)
(* maxMessages of them, from the first message of a user on.               *)

(* Mutant: the oldest messages are kept instead of the newest.             *)
OldestHistory(messages, maxMessages) ==
    SubSeq(messages, 1, IF Len(messages) > maxMessages THEN maxMessages ELSE Len(messages))

PromptHistory(messages, maxMessages) ==
    LET size == Len(messages)
        bounded == SubSeq(messages, IF size > maxMessages THEN size - maxMessages + 1 ELSE 1, size)
        first == SelectInSeq(bounded, IsUser)
    IN  IF first = 0 THEN <<>> ELSE SubSeq(bounded, first, Len(bounded))

-------------------------------------------------------------------------------
(* toGeminiContents.                                                       *)

TextPart(text) == [kind |-> "text", text |-> text, callId |-> NoCall]
CallPart(call) == [kind |-> "call", text |-> {}, callId |-> call.id]
ResponsePart(m) == [kind |-> "response", text |-> m.text, callId |-> m.callId]
Content(role, parts) == [role |-> role, parts |-> parts]

(* Before the last message of a user, tool results and tool requests are   *)
(* dropped; of a request its text stays, if it has one.                    *)
Sanitized(messages) ==
    LET lastUser == SelectLastInSeq(messages, IsUser)
        Stays(m) == m.role # "tool" /\ (RequestsTools(m) => m.text # {})
        shorn == [i \in DOMAIN messages |->
                     IF i < lastUser /\ RequestsTools(messages[i])
                     THEN Assistant(messages[i].text) ELSE messages[i]]
    IN  Select(shorn, {i \in DOMAIN messages : i < lastUser => Stays(messages[i])})

RequestParts(m) ==
    (IF m.text = {} THEN <<>> ELSE <<TextPart(m.text)>>)
        \o [i \in DOMAIN m.calls |-> CallPart(m.calls[i])]

(* Consecutive tool results share one content.                             *)
Continues(sent, i) == i > 1 /\ sent[i].role = "tool" /\ sent[i - 1].role = "tool"

(* How many messages share the content of message i.                       *)
Sharing(sent, i) ==
    Cardinality({j \in DOMAIN sent : i <= j /\ \A k \in (i + 1)..j : Continues(sent, k)})

ContentOf(sent, i) ==
    LET m == sent[i] IN
    CASE m.role = "tool" ->
             Content("user", [k \in 1..Sharing(sent, i) |-> ResponsePart(sent[i + k - 1])])
      [] RequestsTools(m) -> Content("model", RequestParts(m))
      [] IsUser(m) -> Content("user", <<TextPart(m.text)>>)
      [] OTHER -> Content("model", <<TextPart(m.text)>>)

ToGeminiContents(messages) ==
    LET sent == Sanitized(Select(messages, {i \in DOMAIN messages : messages[i].role # "system"}))
        begins == Ascending({i \in DOMAIN sent : ~Continues(sent, i)})
    IN  [k \in DOMAIN begins |-> ContentOf(sent, begins[k])]

(* parseGeminiResponse: every function call gets an id, of its own or made *)
(* up; thoughts are left out of the text.                                  *)
ParseGeminiResponse(parts, request) ==
    LET at == Ascending({i \in DOMAIN parts : parts[i].kind = "call"})
    IN  [text |-> UNION {p.text : p \in {q \in ToSet(parts) : q.kind = "text"}},
         calls |-> [k \in DOMAIN at |-> [id |-> <<request, at[k]>>, call |-> parts[at[k]].call]]]

-------------------------------------------------------------------------------
(* What Gemini accepts: the first content is a user's text, and each       *)
(* content with function calls is followed by one with a response to each  *)
(* of them, in their order, and to nothing else.                           *)

IdsOf(content, kind) ==
    LET parts == content.parts
        ids == [i \in DOMAIN parts |-> parts[i].callId]
    IN  Select(ids, {i \in DOMAIN parts : parts[i].kind = kind})

WellFormed(contents) ==
    /\ contents # <<>>
    /\ contents[1].role = "user" /\ IdsOf(contents[1], "response") = <<>>
    /\ \A i \in DOMAIN contents :
         LET calls == IdsOf(contents[i], "call")
             next == IF i = Len(contents) THEN <<>> ELSE IdsOf(contents[i + 1], "response")
         IN  /\ next = calls
             /\ Len(calls) = Cardinality(ToSet(calls))

Mentions(contents) ==
    UNION {UNION {p.text : p \in ToSet(c.parts)} : c \in ToSet(contents)}
===============================================================================
