----------------------------- MODULE TalkProofs ------------------------------
(***************************************************************************)
(* Theorems of Conversation, for every value of its constants: the call    *)
(* (KeepsItsPromise) and the Turns it is part of (CallsAnswered,           *)
(* TurnEchoed, TranscriptGrows, TraceRetells).                             *)
(***************************************************************************)
EXTENDS Conversation, StreamProofs

-----------------------------------------------------------------------------
(* The bytes of one event on their way, or of none.                        *)
Rest == [line |-> <<>>, data |-> <<>>]
InFlight(w, r, p) ==
  \/ w = Event(p) /\ r = Rest
  \/ w = <<Byte("rest", p), Eol, Eol>> /\ r = [line |-> <<Byte("head", p)>>, data |-> <<>>]
  \/ w = <<Eol, Eol>> /\ r = [line |-> <<Byte("head", p), Byte("rest", p)>>, data |-> <<>>]
  \/ w = <<Eol>> /\ r = [line |-> <<>>, data |-> <<p>>]
KeepAlive == Byte("comment", "none")
Between(w, r) ==
  \/ w = <<>> /\ r = Rest
  \/ w = <<KeepAlive, Eol>> /\ r = Rest
  \/ w = <<Eol>> /\ r = [line |-> <<KeepAlive>>, data |-> <<>>]
StrayPayloads == {[type |-> "error", class |-> c] : c \in {Overloaded, Rejected}} \cup {[type |-> "garbage"]}

(* Nothing of a piece is on its way, or the last one sent of a part is.    *)
Coming(f, m, s, n, w, r, a, seen, i) ==
  \E got : /\ n = One(got, i) /\ Follows(f, m, s, got, i) /\ Reading(f, m, s, got, a, seen)
           /\ InFlight(w, r, ScriptOf(f, m, s)[i][n[i]])
Streaming(f, m, s, n, w, r, a, seen) ==
  \/ Reading(f, m, s, n, a, seen) /\ (Between(w, r) \/ \E p \in StrayPayloads : InFlight(w, r, p))
  \/ \E i : Coming(f, m, s, n, w, r, a, seen, i)

(* The state of a call.                                                    *)
CallInv ==
  /\ format \in DOMAIN Messages
  /\ phase \in {"ready", "body", "stream", "answered"}
  /\ phase # "answered" => outcome = Pending
  /\ phase = "ready" => said = Silent
  /\ phase \in {"ready", "body"} => shown = Nothing /\ wire = <<>> /\ sse = Rest
  /\ phase \in {"body", "stream"} => said \in Messages[format] /\ style \in Styles[format]
  /\ phase = "stream" => Streaming(format, said, style, sent, wire, sse, asm, shown)
  /\ phase = "answered" =>
       outcome \in Errors \/ (said \in Messages[format] /\ Reached(format, said, outcome))

(* The lines of an event are read byte by byte, and dispatched.            *)
LEMMA BytesAre ==
  /\ Eol.part = "eol" /\ KeepAlive.part = "comment"
  /\ \A p : /\ Byte("head", p).part = "head" /\ Byte("head", p).payload = p
            /\ Byte("rest", p).part = "rest"
BY DEF Byte, Eol, KeepAlive

Quiet == UNCHANGED <<format, phase, attempt, timeouts, sender, asm, shown, outcome>>
Dispatched(p) ==
  /\ UNCHANGED format
  /\ IF p.type = "error" THEN AttemptFails(p.class)
     ELSE IF p.type = "garbage" THEN AttemptFails(Rejected)
     ELSE IF Ends(p) THEN Finish(Feed(asm, p))
     ELSE /\ wire' = <<>> /\ sse' = Rest
          /\ asm' = Feed(asm, p) /\ shown' = Shown(p)
          /\ UNCHANGED <<phase, attempt, timeouts, sender, outcome>>

LEMMA FlightRead ==
  ASSUME NEW p, InFlight(wire, sse, p), Chunk
  PROVE  (Quiet /\ InFlight(wire', sse', p)) \/ Dispatched(p)
<1>1. PICK h, t : h = Byte("head", p) /\ t = Byte("rest", p) /\ h.part = "head" /\ h.payload = p /\ t.part = "rest"
  BY BytesAre
<1>2. PICK n : n = Eol /\ n.part = "eol"
  BY BytesAre
<1>3. CASE wire = Event(p) /\ sse = Rest
  <2>1. wire = <<h, t, n, n>> /\ sse.line = <<>> /\ sse.data = <<>>
    BY <1>1, <1>2, <1>3 DEF Event, Rest
  <2>2. Head(wire) = h /\ Tail(wire) = <<t, n, n>>
    BY <2>1
  <2>3. Quiet /\ wire' = <<t, n, n>> /\ sse' = [sse EXCEPT !.line = Append(sse.line, h)]
    BY <1>1, <2>2 DEF Chunk, Quiet
  <2>4. sse' = [line |-> <<h>>, data |-> <<>>]
    BY <1>3, <2>1, <2>3 DEF Rest
  <2> QED BY <1>1, <1>2, <2>3, <2>4 DEF InFlight
<1>4. CASE wire = <<t, n, n>> /\ sse = [line |-> <<h>>, data |-> <<>>]
  <2>2. Head(wire) = t /\ Tail(wire) = <<n, n>> /\ sse.line = <<h>>
    BY <1>4
  <2>3. Quiet /\ wire' = <<n, n>> /\ sse' = [sse EXCEPT !.line = Append(sse.line, t)]
    BY <1>1, <2>2 DEF Chunk, Quiet
  <2>4. sse' = [line |-> <<h, t>>, data |-> <<>>]
    BY <1>4, <2>2, <2>3
  <2> QED BY <1>1, <1>2, <2>3, <2>4 DEF InFlight
<1>5. CASE wire = <<n, n>> /\ sse = [line |-> <<h, t>>, data |-> <<>>]
  <2>1. Head(wire) = n /\ Tail(wire) = <<n>> /\ sse.line = <<h, t>> /\ sse.data = <<>>
    BY <1>5
  <2>2. sse.line # <<>> /\ Head(sse.line) = h
    BY <2>1
  <2>3. Quiet /\ TakeLine
    BY <1>2, <2>1, <2>2 DEF Chunk, Quiet, Dispatches
  <2>4. sse' = [line |-> <<>>, data |-> Append(sse.data, p)] /\ wire' = <<n>>
    BY <1>1, <2>1, <2>2, <2>3 DEF TakeLine
  <2>5. sse' = [line |-> <<>>, data |-> <<p>>]
    BY <2>1, <2>4
  <2> QED BY <1>2, <2>3, <2>4, <2>5 DEF InFlight
<1>6. CASE wire = <<n>> /\ sse = [line |-> <<>>, data |-> <<p>>]
  <2>1. Head(wire) = n /\ Tail(wire) = <<>> /\ sse.line = <<>> /\ sse.data = <<p>>
    BY <1>6
  <2>2. Dispatches /\ Head(sse.data) = p
    BY <2>1 DEF Dispatches
  <2>3. TakeLine => wire' = <<>> /\ sse' = Rest
    BY <2>1 DEF TakeLine, Rest
  <2> QED BY <1>2, <2>1, <2>2, <2>3 DEF Chunk, Dispatched
<1> QED BY <1>1, <1>2, <1>3, <1>4, <1>5, <1>6 DEF InFlight

LEMMA BetweenRead ==
  ASSUME Between(wire, sse), Chunk
  PROVE  Quiet /\ Between(wire', sse')
<1>1. PICK k, n : k = KeepAlive /\ k.part = "comment" /\ n = Eol /\ n.part = "eol"
  BY BytesAre
<1>2. wire # <<>>
  BY DEF Chunk
<1>3. CASE wire = <<k, n>> /\ sse = Rest
  <2>1. Head(wire) = k /\ Tail(wire) = <<n>> /\ sse.line = <<>> /\ sse.data = <<>>
    BY <1>3 DEF Rest
  <2>2. Quiet /\ wire' = <<n>> /\ sse' = [sse EXCEPT !.line = Append(sse.line, k)]
    BY <1>1, <2>1 DEF Chunk, Quiet
  <2>3. sse' = [line |-> <<k>>, data |-> <<>>]
    BY <1>3, <2>1, <2>2 DEF Rest
  <2> QED BY <1>1, <2>2, <2>3 DEF Between
<1>4. CASE wire = <<n>> /\ sse = [line |-> <<k>>, data |-> <<>>]
  <2>1. Head(wire) = n /\ Tail(wire) = <<>> /\ sse.line = <<k>> /\ sse.data = <<>>
    BY <1>4
  <2>2. sse.line # <<>> /\ Head(sse.line) = k
    BY <2>1
  <2>3. Quiet /\ TakeLine
    BY <1>1, <2>1, <2>2 DEF Chunk, Quiet, Dispatches
  <2>4. sse' = Rest /\ wire' = <<>>
    BY <1>1, <2>1, <2>2, <2>3 DEF TakeLine, Rest
  <2> QED BY <2>3, <2>4 DEF Between
<1> QED BY <1>1, <1>2, <1>3, <1>4 DEF Between

-----------------------------------------------------------------------------
(* The reply as the promise reads it is the reply.                         *)
LEMMA SameFlatten ==
  ASSUME NEW ss
  PROVE  Promised!FlattenSeq(ss) = FlattenSeq(ss)
BY DEF Promised!FlattenSeq, FlattenSeq

LEMMA SameSelected ==
  ASSUME NEW ss, NEW places
  PROVE  Promised!Selected(ss, places) = Selected(ss, places)
<1>1. PICK t : t = [i \in DOMAIN ss |-> IF i \in places THEN <<ss[i]>> ELSE <<>>]
  OBVIOUS
<1>2. Promised!FlattenSeq(t) = FlattenSeq(t)
  BY SameFlatten
<1> QED BY <1>1, <1>2 DEF Promised!Selected, Selected

LEMMA SameOfType ==
  ASSUME NEW blocks, NEW types
  PROVE  Promised!OfType(blocks, types) = OfType(blocks, types)
BY SameSelected DEF Promised!OfType, OfType

LEMMA SameConcat ==
  ASSUME NEW blocks, NEW types
  PROVE  /\ Promised!Texts(blocks, types) = Texts(blocks, types)
         /\ Promised!Concat(blocks, types) = Concat(blocks, types)
<1>1. Promised!Texts(blocks, types) = Texts(blocks, types)
  BY DEF Promised!Texts, Texts
<1>2. Promised!Concat(blocks, types) = FlattenSeq(Promised!Texts(blocks, types))
  BY SameFlatten DEF Promised!Concat
<1> QED BY <1>1, <1>2 DEF Concat

LEMMA SameJoined ==
  ASSUME NEW texts
  PROVE  Promised!Joined(texts) = Joined(texts)
<1>1. PICK t : t = [i \in DOMAIN texts |->
                IF texts[i] # <<>> /\ \E j \in 1..i - 1 : texts[j] # <<>>
                THEN <<Newline>> \o texts[i] ELSE texts[i]]
  OBVIOUS
<1>2. Joined(texts) = FlattenSeq(t)
  BY <1>1 DEF Joined
<1>3. Promised!Joined(texts) = Promised!FlattenSeq(t)
  BY <1>1 DEF Promised!Joined, Promised!Newline, Newline
<1> QED BY <1>2, <1>3, SameFlatten

LEMMA SameWords ==
  /\ Promised!Refused = Refused /\ Promised!EmptyChoices = EmptyChoices
  /\ Promised!NoUsage = NoUsage /\ Promised!ReplayTypes = ReplayTypes
  /\ Promised!ReasoningFields = ReasoningFields
  /\ Promised!NoArguments = NoArguments /\ Promised!Newline = Newline
  /\ Promised!Pending = Pending /\ Promised!Silent = Silent /\ Promised!Nothing = Nothing
BY DEF Promised!Refused, Promised!EmptyChoices, Promised!Failed, Promised!NoUsage,
       Promised!ReplayTypes, Promised!ReasoningFields, Promised!NoArguments, Promised!Newline,
       Promised!Pending, Promised!Silent, Promised!Nothing,
       Refused, EmptyChoices, Failed, NoUsage, ReplayTypes, ReasoningFields, NoArguments, Newline,
       Pending, Silent, Nothing

LEMMA SameRequests ==
  ASSUME NEW calls
  PROVE  Promised!Requests(calls) = Requests(calls)
<1>1. \A b : Promised!Requested(b) = Requested(b)
  BY DEF Promised!Requested, Requested, Promised!NoArguments, NoArguments
<1> QED BY <1>1 DEF Promised!Requests, Requests

LEMMA SameLlmReply ==
  ASSUME NEW a, NEW b, NEW c, NEW d, NEW e, NEW f
  PROVE  Promised!LlmReply(a, b, c, d, e, f) = LlmReply(a, b, c, d, e, f)
BY DEF Promised!LlmReply, LlmReply

LEMMA SameOpenai ==
  ASSUME NEW m
  PROVE  Promised!parse_reply(m) = parse_reply(m)
<1>1. PICK texts : texts = [f \in 1..3 |-> Concat(m.blocks, {ReasoningFields[f]})]
  OBVIOUS
<1>2. [f \in 1..3 |-> Promised!Concat(m.blocks, {Promised!ReasoningFields[f]})] = texts
  BY <1>1, SameConcat, SameWords
<1>3. Promised!Joined([f \in 1..3 |-> Promised!Concat(m.blocks, {Promised!ReasoningFields[f]})]) = Joined(texts)
  BY <1>2, SameJoined
<1>4. Promised!Concat(m.blocks, {"text"}) = Concat(m.blocks, {"text"})
      /\ Promised!Concat(m.blocks, {"refusal"}) = Concat(m.blocks, {"refusal"})
  BY SameConcat
<1>5. Promised!Requests(Promised!OfType(m.blocks, {"tool_use"})) = Requests(OfType(m.blocks, {"tool_use"}))
  BY SameOfType, SameRequests
<1>6. PICK thinking, text, refusal, reqs, usage :
        /\ thinking = Joined(texts) /\ text = Concat(m.blocks, {"text"}) /\ refusal = Concat(m.blocks, {"refusal"})
        /\ reqs = Requests(OfType(m.blocks, {"tool_use"}))
        /\ usage = [prompt |-> m.usage.input, completion |-> m.usage.output]
  OBVIOUS
<1>7. parse_reply(m) = IF m.blocks = <<>> THEN EmptyChoices
                       ELSE IF refusal # <<>> THEN Refused
                       ELSE LlmReply(thinking, text, m.stop, reqs, usage, <<>>)
  BY <1>1, <1>6 DEF parse_reply
<1>8. Promised!parse_reply(m) = IF m.blocks = <<>> THEN Promised!EmptyChoices
                       ELSE IF refusal # <<>> THEN Promised!Refused
                       ELSE Promised!LlmReply(thinking, text, m.stop, reqs, usage, <<>>)
  BY <1>3, <1>4, <1>5, <1>6 DEF Promised!parse_reply
<1>9. Promised!LlmReply(thinking, text, m.stop, reqs, usage, <<>>) = LlmReply(thinking, text, m.stop, reqs, usage, <<>>)
  BY SameLlmReply
<1> QED BY <1>7, <1>8, <1>9, SameWords

LEMMA SameAnthropic ==
  ASSUME NEW m
  PROVE  Promised!parse_response(m) = parse_response(m)
<1>1. PICK thinking, text, reqs, usage, replay, finish :
        /\ thinking = Joined(Texts(m.blocks, {"thinking"})) /\ text = Concat(m.blocks, {"text"})
        /\ reqs = Requests(OfType(m.blocks, {"tool_use"}))
        /\ usage = TokenUsage(m) /\ replay = OfType(m.blocks, ReplayTypes) /\ finish = finish_reason(m.stop)
  OBVIOUS
<1>2. /\ Promised!Joined(Promised!Texts(m.blocks, {"thinking"})) = thinking
      /\ Promised!Concat(m.blocks, {"text"}) = text
  BY <1>1, SameConcat, SameJoined
<1>3. Promised!Requests(Promised!OfType(m.blocks, {"tool_use"})) = reqs
  BY <1>1, SameOfType, SameRequests
<1>4. Promised!OfType(m.blocks, Promised!ReplayTypes) = replay
  BY <1>1, SameOfType, SameWords
<1>5. Promised!TokenUsage(m) = usage
  BY <1>1 DEF Promised!TokenUsage, TokenUsage
<1>6. Promised!finish_reason(m.stop) = finish
  BY <1>1 DEF Promised!finish_reason, finish_reason
<1>7. parse_response(m) = IF m.stop = "refusal" THEN Refused
                          ELSE LlmReply(thinking, text, finish, reqs, usage, replay)
  BY <1>1 DEF parse_response
<1>8. Promised!parse_response(m) = IF m.stop = "refusal" THEN Promised!Refused
                          ELSE Promised!LlmReply(thinking, text, finish, reqs, usage, replay)
  BY <1>2, <1>3, <1>4, <1>5, <1>6 DEF Promised!parse_response
<1>9. Promised!LlmReply(thinking, text, finish, reqs, usage, replay) = LlmReply(thinking, text, finish, reqs, usage, replay)
  BY SameLlmReply
<1> QED BY <1>7, <1>8, <1>9, SameWords

LEMMA SameParsed ==
  ASSUME NEW f, NEW m
  PROVE  Promised!Parsed(f, m) = Parsed(f, m)
BY SameOpenai, SameAnthropic DEF Promised!Parsed, Parsed

LEMMA SamePlain ==
  ASSUME NEW text
  PROVE  Promised!Plain(text) = Plainly(text)
BY SameSelected, SameWords DEF Promised!Plain, Plainly

LEMMA SameShows ==
  ASSUME NEW reply
  PROVE  Promised!Shows(reply) = ShowsOf(reply)
<1>1. Promised!Thought(reply) = Plainly(reply.thinking)
  BY SamePlain DEF Promised!Thought
<1>2. \A c : Promised!Argued(c) = Argue(c)
  BY SameWords DEF Promised!Argued, Argue
<1>3. [i \in DOMAIN reply.tool_calls |->
                [id |-> reply.tool_calls[i].id, name |-> reply.tool_calls[i].name,
                 fragment |-> Promised!Argued(reply.tool_calls[i])]] = ShownAll(reply.tool_calls)
  BY <1>2 DEF ShownAll
<1> QED BY <1>1, <1>3 DEF Promised!Shows, ShowsOf, Seen

LEMMA SameBegins ==
  ASSUME NEW part, NEW whole
  PROVE  Promised!Begins(part, whole) <=> BeginsOf(part, whole)
<1>1. \A s, t : Promised!IsPrefix(s, t) = IsPrefix(s, t)
  BY DEF Promised!IsPrefix, IsPrefix
<1> QED BY <1>1 DEF Promised!Begins, BeginsOf

-----------------------------------------------------------------------------
(* The steps of a call keep its promise.                                   *)
Keeps == CallInv' /\ [Promised!Next]_(Promised!vars)

LEMMA Failing ==
  ASSUME CallInv, phase \in {"body", "stream"}, NEW error \in Errors, AttemptFails(error), UNCHANGED format
  PROVE  Keeps
<1>1. outcome = Pending /\ Promised!Pending = Pending
  BY SameWords DEF CallInv
<1>2. CASE Return(error)
  <2>1. phase' = "answered" /\ outcome' = error /\ UNCHANGED <<format, said, shown>>
    BY <1>2 DEF Return, sender
  <2>2. CallInv'
    BY <2>1 DEF CallInv
  <2>3. Promised!Fail
    BY <1>1, <2>1 DEF Promised!Fail
  <2> QED BY <2>2, <2>3 DEF Keeps, Promised!Next
<1>3. CASE ~Return(error)
  <2>1. /\ phase' = "ready" /\ said' = Silent /\ wire' = <<>> /\ sse' = Rest
        /\ shown' = Nothing /\ UNCHANGED <<format, outcome>>
    BY <1>3 DEF AttemptFails, Rest
  <2>2. CallInv'
    BY <1>1, <2>1 DEF CallInv
  <2>3. Promised!Attempt
    BY <1>1, <2>1, SameWords DEF Promised!Attempt
  <2> QED BY <2>2, <2>3 DEF Keeps, Promised!Next
<1> QED BY <1>2, <1>3

LEMMA UsageUnshown ==
  ASSUME NEW f, NEW m, Parsed(f, m) \notin {Refused, EmptyChoices}, NEW usage
  PROVE  ShowsOf([Parsed(f, m) EXCEPT !.usage = usage]) = ShowsOf(Parsed(f, m))
<1>1. PICK a, b, c, d, e, g : Parsed(f, m) = LlmReply(a, b, c, d, e, g)
  BY DEF Parsed, parse_reply, parse_response
<1>2. PICK r, q : r = LlmReply(a, b, c, d, e, g) /\ q = LlmReply(a, b, c, d, usage, g)
  OBVIOUS
<1>3. [r EXCEPT !.usage = usage] = q
  BY <1>2 DEF LlmReply
<1>4. r.output = b /\ r.thinking = a /\ r.tool_calls = d /\ q.output = b /\ q.thinking = a /\ q.tool_calls = d
  BY <1>2 DEF LlmReply
<1>5. ShowsOf(q) = ShowsOf(r)
  BY <1>4 DEF ShowsOf
<1> QED BY <1>1, <1>2, <1>3, <1>5, Zenon

LEMMA Returning ==
  ASSUME CallInv, phase \in {"body", "stream"}, NEW result, Return(result), Reached(format, said, result),
         Parsed(format, said) \in {Refused, EmptyChoices} \/ shown \in {Nothing, ShowsOf(Parsed(format, said))}
  PROVE  Keeps
<1>1. /\ outcome = Pending /\ Promised!Pending = Pending /\ said \in Messages[format] /\ format \in DOMAIN Messages
  BY SameWords DEF CallInv
<1>2. said # Silent
  BY <1>1, BlocksAre
<1>3. phase' = "answered" /\ outcome' = result /\ UNCHANGED <<format, said, shown>>
  BY DEF Return, sender
<1>4. CallInv'
  BY <1>1, <1>3 DEF CallInv, Reached
<1>5. Promised!Parsed(format, said) = Parsed(format, said)
  BY SameParsed
<1>6. CASE Parsed(format, said) \in {Refused, EmptyChoices}
  <2>1. result = Parsed(format, said)
    BY <1>6 DEF Reached
  <2>2. Promised!Decline
    BY <1>1, <1>2, <1>3, <1>5, <1>6, <2>1, SameWords DEF Promised!Decline
  <2> QED BY <1>4, <2>2 DEF Keeps, Promised!Next
<1>7. CASE Parsed(format, said) \notin {Refused, EmptyChoices}
  <2>1. result \in Promised!Replies
    BY <1>5, SameWords DEF Reached, Promised!Replies
  <2>2. ShowsOf(result) = ShowsOf(Parsed(format, said))
    BY <1>7, UsageUnshown DEF Reached
  <2>3. shown \in {Promised!Nothing, Promised!Shows(outcome')}
    BY <1>3, <1>7, <2>2, SameShows, SameWords
  <2>4. Promised!Answer
    BY <1>1, <1>2, <1>3, <1>5, <1>7, <2>1, <2>3, SameWords DEF Promised!Answer
  <2> QED BY <1>4, <2>4 DEF Keeps, Promised!Next
<1> QED BY <1>6, <1>7

LEMMA Finishing ==
  ASSUME CallInv, phase \in {"body", "stream"}, NEW a, Finish(a), UNCHANGED format,
         Assembled(a) = Transport \/ Ended(format, said, shown, Assembled(a))
  PROVE  Keeps
<1>1. CASE Assembled(a) \in Errors
  <2>1. AttemptFails(Assembled(a))
    BY <1>1 DEF Finish
  <2> QED BY <1>1, <2>1, Failing
<1>2. CASE Assembled(a) \notin Errors
  <2>1. Return(Assembled(a))
    BY <1>2 DEF Finish
  <2>2. Assembled(a) # Transport
    BY <1>2 DEF Errors, Retryable
  <2>3. Ended(format, said, shown, Assembled(a))
    BY <2>2
  <2>4. Reached(format, said, Assembled(a))
    BY <2>3 DEF Ended
  <2>5. Parsed(format, said) \in {Refused, EmptyChoices} \/ shown \in {Nothing, ShowsOf(Parsed(format, said))}
    BY <2>3 DEF Ended
  <2> QED BY <2>1, <2>4, <2>5, Returning
<1> QED BY <1>1, <1>2

LEMMA SpeaksNow ==
  ASSUME CallInv, phase = "stream"
  PROVE  /\ Speaks(format, said, style) /\ said # Silent /\ outcome = Pending
         /\ Streaming(format, said, style, sent, wire, sse, asm, shown)
<1>1. Speaks(format, said, style)
  BY DEF CallInv, Speaks
<1>2. said # Silent
  BY <1>1, BlocksAre DEF Speaks
<1> QED BY <1>1, <1>2 DEF CallInv

(* What is still on its way is no reason to stay.                          *)
LEMMA StillCalled ==
  ASSUME CallInv, phase = "stream", UNCHANGED <<format, phase, said, style, outcome>>,
         Streaming(format, said, style, sent', wire', sse', asm', shown')
  PROVE  CallInv'
BY DEF CallInv

LEMMA QuietKeeps ==
  ASSUME CallInv, phase = "stream", Quiet,
         Streaming(format, said, style, sent, wire', sse', asm, shown)
  PROVE  Keeps
<1>1. UNCHANGED <<format, phase, said, style, sent, asm, shown, outcome>>
  BY DEF Quiet, sender
<1>2. Streaming(format, said, style, sent', wire', sse', asm', shown')
  BY <1>1
<1>3. CallInv'
  BY <1>1, <1>2, StillCalled
<1> QED BY <1>1, <1>3 DEF Keeps, Promised!vars

LEMMA ChunkKeeps ==
  ASSUME CallInv, Chunk
  PROVE  Keeps
<1>1. phase = "stream"
  BY DEF Chunk
<1>2. PICK m, s : m = said /\ s = style /\ Speaks(format, m, s)
  BY <1>1, SpeaksNow
<1>3. CASE Reading(format, m, s, sent, asm, shown) /\ Between(wire, sse)
  <2>1. Quiet /\ Between(wire', sse')
    BY <1>3, BetweenRead
  <2>2. Streaming(format, said, style, sent, wire', sse', asm, shown)
    BY <1>2, <1>3, <2>1 DEF Streaming
  <2> QED BY <1>1, <2>1, <2>2, QuietKeeps
<1>4. ASSUME Reading(format, m, s, sent, asm, shown), NEW p \in StrayPayloads, InFlight(wire, sse, p)
      PROVE  Keeps
  <2>1. CASE Quiet /\ InFlight(wire', sse', p)
    <3>1. Streaming(format, said, style, sent, wire', sse', asm, shown)
      BY <1>2, <1>4, <2>1 DEF Streaming
    <3> QED BY <1>1, <2>1, <3>1, QuietKeeps
  <2>2. CASE Dispatched(p)
    <3>1. \E c \in {Overloaded, Rejected} : AttemptFails(c)
      <4>1. CASE p.type = "error"
        <5>1. p.type = "error" /\ AttemptFails(p.class)
          BY <2>2, <4>1 DEF Dispatched
        <5>2. p.class \in {Overloaded, Rejected}
          <6>1. CASE p = [type |-> "garbage"]
            BY <4>1, <6>1
          <6>2. CASE \E c \in {Overloaded, Rejected} : p = [type |-> "error", class |-> c]
            BY <6>2
          <6> QED BY <1>4, <6>1, <6>2 DEF StrayPayloads
        <5> QED BY <5>1, <5>2
      <4>2. CASE p.type # "error"
        <5>1. p.type = "garbage"
          BY <1>4, <4>2 DEF StrayPayloads
        <5> QED BY <2>2, <4>2, <5>1 DEF Dispatched
      <4> QED BY <4>1, <4>2
    <3>2. {Overloaded, Rejected} \subseteq Errors
      BY DEF Errors, Retryable
    <3>3. UNCHANGED format
      BY <2>2 DEF Dispatched
    <3> QED BY <1>1, <3>1, <3>2, <3>3, Failing
  <2> QED BY <1>4, <2>1, <2>2, FlightRead
<1>5. ASSUME NEW i, Coming(format, m, s, sent, wire, sse, asm, shown, i)
      PROVE  Keeps
  <2>1. PICK got : /\ sent = One(got, i) /\ Follows(format, m, s, got, i)
                   /\ Reading(format, m, s, got, asm, shown)
                   /\ InFlight(wire, sse, ScriptOf(format, m, s)[i][sent[i]])
    BY <1>5 DEF Coming
  <2>2. PICK now, x : now = sent /\ x = ScriptOf(format, m, s)[i][now[i]]
    OBVIOUS
  <2>3. PieceTaken(m, s, now, x)
    BY <1>2, <2>1, <2>2, PieceRead
  <2>4. CASE Quiet /\ InFlight(wire', sse', x)
    <3>1. Coming(format, m, s, sent, wire', sse', asm, shown, i)
      BY <2>1, <2>2, <2>4 DEF Coming
    <3>2. Streaming(format, said, style, sent, wire', sse', asm, shown)
      BY <1>2, <3>1 DEF Streaming
    <3> QED BY <1>1, <2>4, <3>2, QuietKeeps
  <2>5. CASE Dispatched(x)
    <3>1. x.type # "error" /\ x.type # "garbage"
      BY <2>3 DEF PieceTaken
    <3>2. CASE Ends(x)
      <4>1. Finish(Feed(asm, x)) /\ UNCHANGED format
        BY <2>5, <3>1, <3>2 DEF Dispatched
      <4>2. Ended(format, said, shown, Assembled(Feed(asm, x)))
        BY <1>2, <2>3, <3>2 DEF PieceTaken
      <4> QED BY <1>1, <4>1, <4>2, Finishing
    <3>3. CASE ~Ends(x)
      <4>1. /\ wire' = <<>> /\ sse' = Rest /\ asm' = Feed(asm, x) /\ shown' = Shown(x)
            /\ UNCHANGED <<format, phase, said, style, sent, outcome>>
        BY <2>5, <3>1, <3>3 DEF Dispatched, sender
      <4>2. Reading(format, m, s, now, Feed(asm, x), Shown(x))
        BY <2>3, <3>3 DEF PieceTaken
      <4>3. Streaming(format, said, style, sent', wire', sse', asm', shown')
        BY <1>2, <2>2, <4>1, <4>2 DEF Streaming, Between
      <4>4. CallInv'
        BY <1>1, <4>1, <4>3, StillCalled
      <4>5. Parsed(format, m) \in {Refused, EmptyChoices} \/ BeginsOf(shown', ShowsOf(Parsed(format, m)))
        <5>1. PICK seen : seen = Shown(x)
          OBVIOUS
        <5>2. Parsed(format, m) \in {Refused, EmptyChoices} \/ BeginsOf(seen, ShowsOf(Parsed(format, m)))
          BY <1>2, <4>2, <5>1, ReadingShows
        <5> QED BY <4>1, <5>1, <5>2
      <4>6. \/ Promised!Parsed(format, said) \in {Promised!Refused, Promised!EmptyChoices}
            \/ Promised!Begins(shown', Promised!Shows(Promised!Parsed(format, said)))
        BY <1>2, <4>5, SameParsed, SameShows, SameBegins, SameWords
      <4>7. outcome = Promised!Pending /\ said # Promised!Silent
        BY <1>1, SpeaksNow, SameWords
      <4>8. Promised!Show
        BY <4>1, <4>6, <4>7 DEF Promised!Show
      <4> QED BY <4>4, <4>8 DEF Keeps, Promised!Next
    <3> QED BY <3>2, <3>3
  <2> QED BY <2>1, <2>2, <2>4, <2>5, FlightRead
<1>6. Streaming(format, m, s, sent, wire, sse, asm, shown)
  BY <1>1, <1>2, SpeaksNow
<1> QED BY <1>3, <1>4, <1>5, <1>6 DEF Streaming

LEMMA SendKeeps ==
  ASSUME CallInv, Send
  PROVE  Keeps
<1>1. phase = "stream" /\ wire = <<>>
  BY DEF Send
<1>2. PICK m, s : m = said /\ s = style /\ Speaks(format, m, s)
  BY <1>1, SpeaksNow
<1>3. UNCHANGED <<format, phase, said, style, sse, asm, shown, outcome>>
  BY DEF Send
<1>4. Reading(format, m, s, sent, asm, shown) /\ sse = Rest
  <2>1. \A p : ~InFlight(wire, sse, p)
    BY <1>1 DEF InFlight, Event
  <2>2. \A i : ~Coming(format, m, s, sent, wire, sse, asm, shown, i)
    BY <2>1 DEF Coming
  <2>3. Between(wire, sse) => sse = Rest
    BY <1>1 DEF Between
  <2>4. Streaming(format, m, s, sent, wire, sse, asm, shown)
    BY <1>1, <1>2, SpeaksNow
  <2> QED BY <2>1, <2>2, <2>3, <2>4 DEF Streaming
<1>5. Streaming(format, said, style, sent', wire', sse', asm', shown')
  <2>1. ASSUME NEW i \in DOMAIN sent, SendPart(i) PROVE Streaming(format, said, style, sent', wire', sse', asm', shown')
    <3>1. PICK script : script = ScriptOf(format, m, s) /\ script = Script(said, style)
      BY <1>2 DEF ScriptOf, Script
    <3>2. Orderly(format, m, s, sent) /\ Len(m.blocks) \in Nat
      BY <1>2, <1>4, StyleIs, BlocksAre DEF Reading
    <3>3. i \in Pieced(m) /\ sent[i] \in Nat /\ Len(script[i]) \in Nat
      <4>1. sent \in [Pieced(m) -> Nat]
        BY <3>2 DEF Orderly
      <4>2. i \in Pieced(m) /\ sent[i] \in Nat
        BY <2>1, <4>1
      <4> QED BY <1>2, <3>1, <4>2, ScriptLengths
    <3>4. /\ sent[i] < Len(script[i]) /\ sent' = One(sent, i) /\ wire' = Event(script[i][sent[i] + 1])
          /\ \A j \in 1..i - 1 : sent[j] = Len(script[j]) \/ Interleaves(i, j)
      BY <2>1, <3>1 DEF SendPart, One
    <3>5. MayFollow(format, m, s, sent, i)
      BY <1>2, <3>1, <3>4 DEF MayFollow, Interleaves, Mingle
    <3>6. Follows(format, m, s, sent, i)
      BY <3>1, <3>2, <3>3, <3>4, <3>5 DEF Follows
    <3>7. sent'[i] = sent[i] + 1
      BY <3>4, <3>6, OrderlyNext
    <3>8. InFlight(wire', sse', ScriptOf(format, m, s)[i][sent'[i]])
      BY <1>3, <1>4, <3>1, <3>4, <3>7 DEF InFlight
    <3>9. Coming(format, m, s, sent', wire', sse', asm', shown', i)
      BY <1>3, <1>4, <3>4, <3>6, <3>8 DEF Coming
    <3> QED BY <1>2, <3>9 DEF Streaming
  <2>2. ASSUME wire' \in Stray, UNCHANGED sent PROVE Streaming(format, said, style, sent', wire', sse', asm', shown')
    <3>1. Between(wire', sse') \/ \E p \in StrayPayloads : InFlight(wire', sse', p)
      <4>1. CASE wire' = <<Byte("comment", "none"), Eol>>
        BY <1>3, <1>4, <4>1 DEF Between, KeepAlive
      <4>2. CASE \E p \in StrayPayloads : wire' = Event(p)
        BY <1>3, <1>4, <4>2 DEF InFlight
      <4> QED BY <2>2, <4>1, <4>2 DEF Stray, StrayPayloads
    <3>2. Reading(format, said, style, sent', asm', shown')
      BY <1>2, <1>3, <1>4, <2>2
    <3> QED BY <3>1, <3>2 DEF Streaming
  <2> QED BY <2>1, <2>2 DEF Send
<1>6. CallInv'
  BY <1>1, <1>3, <1>5, StillCalled
<1> QED BY <1>3, <1>6 DEF Keeps, Promised!vars

LEMMA OpenKeeps ==
  ASSUME CallInv, Open
  PROVE  Keeps
<1>1. /\ phase = "ready" /\ phase' \in {"body", "stream"} /\ said' \in Messages[format] /\ style' \in Styles[format]
      /\ sent' = [i \in 1..Len(said'.blocks) + 2 |-> 0] /\ asm' = Assembler
      /\ UNCHANGED <<format, wire, sse, shown, outcome>>
  BY DEF Open
<1>2. outcome = Pending /\ shown = Nothing /\ wire = <<>> /\ sse = Rest /\ format \in DOMAIN Messages
  BY <1>1 DEF CallInv
<1>3. PICK m, s, got : m = said' /\ s = style' /\ got = sent'
  OBVIOUS
<1>4. Speaks(format, m, s)
  BY <1>1, <1>2, <1>3 DEF Speaks
<1>5. Reading(format, m, s, got, Assembler, Nothing)
  BY <1>1, <1>3, <1>4, Opened DEF Pieced
<1>6. Streaming(format', said', style', sent', wire', sse', asm', shown')
  BY <1>1, <1>2, <1>3, <1>5 DEF Streaming, Between
<1>7. CallInv'
  BY <1>1, <1>2, <1>6 DEF CallInv
<1>8. Promised!Attempt
  BY <1>1, <1>2, SameWords DEF Promised!Attempt
<1> QED BY <1>7, <1>8 DEF Keeps, Promised!Next

LEMMA CallKeeps ==
  ASSUME CallInv, CallNext
  PROVE  Keeps
<1>1. CASE Open
  BY <1>1, OpenKeeps
<1>2. CASE Send
  BY <1>2, SendKeeps
<1>3. CASE Broken
  <2>1. phase \in {"body", "stream"}
    BY <1>3 DEF Broken
  <2>2. PICK error \in Errors : AttemptFails(error)
    BY <1>3 DEF Broken
  <2>3. UNCHANGED format
    BY <2>2 DEF AttemptFails, Return
  <2> QED BY <2>1, <2>2, <2>3, Failing
<1>4. CASE WholeBody
  <2>1. phase = "body" /\ Return(Parsed(format, said))
    BY <1>4 DEF WholeBody
  <2>2. shown = Nothing
    BY <2>1 DEF CallInv
  <2>3. Reached(format, said, Parsed(format, said))
    BY DEF Reached
  <2> QED BY <2>1, <2>2, <2>3, Returning
<1>5. CASE BodyEnds
  <2>1. phase = "stream" /\ Finish(asm)
    BY <1>5 DEF BodyEnds
  <2>2. \E got : Reading(format, said, style, got, asm, shown)
    BY <2>1, SpeaksNow DEF Streaming, Coming
  <2>3. Cut(said)
    BY <2>1, <2>2, SpeaksNow, BodyCut
  <2>4. UNCHANGED format
    BY <2>1 DEF Finish, AttemptFails, Return
  <2> QED BY <2>1, <2>3, <2>4, Finishing DEF Cut
<1>6. CASE Chunk
  BY <1>6, ChunkKeeps
<1> QED BY <1>1, <1>2, <1>3, <1>4, <1>5, <1>6 DEF CallNext

LEMMA TalkKeeps ==
  ASSUME CallInv, [TalkNext]_conversation
  PROVE  Keeps
<1>1. CASE CallStep
  BY <1>1, CallKeeps DEF CallStep
<1>2. CASE ToolsRun \/ NoAnswer
  <2>1. Idle /\ UNCHANGED format
    BY <1>2 DEF ToolsRun, NoAnswer, NextTurn
  <2>2. /\ phase' = "ready" /\ said' = Silent /\ shown' = Nothing /\ wire' = <<>> /\ sse' = Rest
        /\ outcome' = Pending
    BY <2>1 DEF Idle, Rest
  <2>3. CallInv'
    BY <2>1, <2>2 DEF CallInv
  <2>4. Promised!Ask
    BY <2>1, <2>2, SameWords DEF Promised!Ask
  <2> QED BY <2>3, <2>4 DEF Keeps, Promised!Next
<1>3. CASE UNCHANGED conversation
  <2>1. UNCHANGED <<format, phase, said, style, sent, wire, sse, asm, shown, outcome>>
    BY <1>3 DEF conversation, call, sender, reader
  <2>2. CallInv'
    BY <2>1 DEF CallInv
  <2> QED BY <2>1, <2>2 DEF Keeps, Promised!vars
<1> QED BY <1>1, <1>2, <1>3 DEF TalkNext

LEMMA CallStarts == TalkInit => CallInv /\ Promised!Init
<1> SUFFICES ASSUME TalkInit PROVE CallInv /\ Promised!Init
  OBVIOUS
<1>1. /\ format \in DOMAIN Messages /\ phase = "ready" /\ said = Silent /\ wire = <<>> /\ sse = Rest
      /\ shown = Nothing /\ outcome = Pending
  BY DEF TalkInit, StreamInit, Rest
<1>2. CallInv
  BY <1>1 DEF CallInv
<1>3. Promised!Init
  BY <1>1, GatewayAssumption, SameWords DEF Promised!Init
<1> QED BY <1>2, <1>3

(* A call's reply, of whatever body, is the reply of what was said, and    *)
(* what is assembled on the way is of the pieces read so far.              *)
THEOREM CallCorrect == TalkSpec => []CallInv
<1>1. TalkInit => CallInv
  BY CallStarts
<1>2. CallInv /\ [TalkNext]_conversation => CallInv'
  BY TalkKeeps DEF Keeps
<1> QED BY <1>1, <1>2, PTL DEF TalkSpec

(* Every call keeps the promise of ModelCall (client.rs, chat_observed):   *)
(* whatever way its reply comes.                                           *)
THEOREM PromiseKept == TalkSpec => KeepsItsPromise
<1>1. TalkInit => CallInv /\ Promised!Init
  BY CallStarts
<1>2. CallInv /\ [TalkNext]_conversation => CallInv' /\ [Promised!Next]_(Promised!vars)
  BY TalkKeeps DEF Keeps
<1>3. TalkSpec => Promised!Spec
  BY <1>1, <1>2, PTL DEF TalkSpec, Promised!Spec
<1> QED BY <1>3 DEF KeepsItsPromise

-----------------------------------------------------------------------------
(* Sums of sizes, taken from the first to the last.                        *)
Counted(s) == List(s) /\ \A i \in 1..Len(s) : s[i] \in Nat
Sums(f, s, n) == f = [i \in 0..n |-> IF i = 0 THEN 0 ELSE f[i - 1] + s[i]]

LEMMA Summed ==
  ASSUME NEW s, Len(s) \in Nat
  PROVE  \E f : Sums(f, s, Len(s)) /\ SumOf(s) = f[Len(s)]
<1> DEFINE S == {n \in Nat : \E f : Sums(f, s, n)}
<1>1. 0 \in S
  <2> DEFINE f == [i \in 0..0 |-> 0]
  <2>1. f = [i \in 0..0 |-> IF i = 0 THEN 0 ELSE f[i - 1] + s[i]]
    <3>1. \A i \in 0..0 : i = 0
      OBVIOUS
    <3>2. \A i \in 0..0 : f[i] = IF i = 0 THEN 0 ELSE f[i - 1] + s[i]
      BY <3>1
    <3> QED BY <3>2
  <2> HIDE DEF f
  <2> QED BY <2>1 DEF Sums
<1>2. \A n \in S : n + 1 \in S
  <2> SUFFICES ASSUME NEW n \in S PROVE n + 1 \in S
    OBVIOUS
  <2>1. n \in Nat
    OBVIOUS
  <2>2. PICK f : Sums(f, s, n)
    OBVIOUS
  <2> DEFINE g == [i \in 0..n + 1 |-> IF i = n + 1 THEN f[n] + s[n + 1] ELSE f[i]]
  <2>3. ASSUME NEW i \in 0..n + 1
        PROVE  g[i] = IF i = 0 THEN 0 ELSE g[i - 1] + s[i]
    <3>1. CASE i = n + 1
      <4>1. i # 0 /\ i - 1 \in 0..n + 1 /\ i - 1 # n + 1 /\ i - 1 = n
        BY <2>1, <3>1
      <4>2. g[i - 1] = f[n]
        BY <4>1
      <4> QED BY <3>1, <4>1, <4>2
    <3>2. CASE i # n + 1
      <4>1. i \in 0..n
        BY <2>1, <3>2
      <4>2. f[i] = IF i = 0 THEN 0 ELSE f[i - 1] + s[i]
        BY <2>2, <4>1 DEF Sums
      <4>3. i # 0 => g[i - 1] = f[i - 1]
        <5>1. i # 0 => i - 1 \in 0..n + 1 /\ i - 1 # n + 1
          BY <2>1, <4>1
        <5> QED BY <5>1
      <4>4. g[i] = f[i]
        BY <3>2
      <4> HIDE DEF g
      <4> QED BY <4>2, <4>3, <4>4
    <3> QED BY <3>1, <3>2
  <2>4. g = [i \in 0..n + 1 |-> g[i]]
    OBVIOUS
  <2> HIDE DEF g
  <2>5. Sums(g, s, n + 1)
    BY <2>3, <2>4 DEF Sums
  <2> QED BY <2>1, <2>5
<1>3. S \in SUBSET Nat
  OBVIOUS
<1> HIDE DEF S
<1>4. S = Nat
  BY <1>1, <1>2, <1>3, Inductive
<1>5. \E f : Sums(f, s, Len(s))
  BY <1>4 DEF S
<1> DEFINE sum == CHOOSE f : Sums(f, s, Len(s))
<1>6. Sums(sum, s, Len(s))
  BY <1>5
<1>7. SumOf(s) = sum[Len(s)]
  BY DEF SumOf, Sums
<1> HIDE DEF sum
<1> QED BY <1>6, <1>7

LEMMA SumsAt ==
  ASSUME NEW s, NEW n \in Nat, NEW f, Sums(f, s, n), \A i \in 1..n : s[i] \in Nat
  PROVE  f[0] = 0 /\ \A i \in 0..n : f[i] \in Nat /\ (i > 0 => f[i] = f[i - 1] + s[i])
<1>1. \A i \in 0..n : f[i] = IF i = 0 THEN 0 ELSE f[i - 1] + s[i]
  BY DEF Sums
<1>2. f[0] = 0
  BY <1>1
<1> DEFINE S == {i \in Nat : i <= n => f[i] \in Nat}
<1>3. 0 \in S
  BY <1>2
<1>4. \A i \in S : i + 1 \in S
  <2> SUFFICES ASSUME NEW i \in S, i + 1 <= n PROVE f[i + 1] \in Nat
    OBVIOUS
  <2>1. i \in 0..n /\ i + 1 \in 0..n /\ i + 1 # 0 /\ (i + 1) - 1 = i /\ i + 1 \in 1..n /\ f[i] \in Nat
    OBVIOUS
  <2>2. f[i + 1] = f[i] + s[i + 1] /\ s[i + 1] \in Nat
    BY <1>1, <2>1
  <2> QED BY <2>1, <2>2
<1>5. S \in SUBSET Nat
  OBVIOUS
<1> HIDE DEF S
<1>6. S = Nat
  BY <1>3, <1>4, <1>5, Inductive
<1>7. \A i \in 0..n : f[i] \in Nat
  BY <1>6 DEF S
<1> QED BY <1>1, <1>2, <1>7

LEMMA SumIsNat ==
  ASSUME NEW s, Counted(s)
  PROVE  SumOf(s) \in Nat
<1>1. PICK N, f : N \in Nat /\ N = Len(s) /\ Sums(f, s, N) /\ SumOf(s) = f[N]
  BY ListAre, Summed DEF Counted
<1>2. \A i \in 1..N : s[i] \in Nat
  BY <1>1 DEF Counted
<1>3. \A i \in 0..N : f[i] \in Nat
  BY <1>1, <1>2, SumsAt
<1> QED BY <1>1, <1>3

(* One more size makes the sum larger by it. *)
LEMMA SumGrows ==
  ASSUME NEW s, Counted(s), NEW t, Counted(t), Len(t) = Len(s) + 1, \A i \in 1..Len(s) : t[i] = s[i]
  PROVE  SumOf(t) = SumOf(s) + t[Len(s) + 1] /\ SumOf(s) \in Nat /\ SumOf(t) \in Nat
<1>1. PICK N, f : N \in Nat /\ N = Len(s) /\ Sums(f, s, N) /\ SumOf(s) = f[N]
  BY ListAre, Summed DEF Counted
<1>2. PICK M, g : M = N + 1 /\ Len(t) = M /\ Sums(g, t, M) /\ SumOf(t) = g[M]
  <2>1. Len(t) = N + 1 /\ Len(t) \in Nat
    BY <1>1
  <2> QED BY <2>1, Summed
<1>3. (\A i \in 1..N : s[i] \in Nat) /\ (\A i \in 1..M : t[i] \in Nat) /\ \A i \in 1..N : t[i] = s[i]
  BY <1>1, <1>2 DEF Counted
<1>4. f[0] = 0 /\ \A i \in 0..N : f[i] \in Nat /\ (i > 0 => f[i] = f[i - 1] + s[i])
  BY <1>1, <1>3, SumsAt
<1>5. g[0] = 0 /\ \A i \in 0..M : g[i] \in Nat /\ (i > 0 => g[i] = g[i - 1] + t[i])
  <2>1. M \in Nat
    BY <1>1, <1>2
  <2> QED BY <1>2, <1>3, <2>1, SumsAt
<1> DEFINE S == {i \in Nat : i <= N => g[i] = f[i]}
<1>6. 0 \in S
  BY <1>4, <1>5
<1>7. \A i \in S : i + 1 \in S
  <2> SUFFICES ASSUME NEW i \in S, i + 1 <= N PROVE g[i + 1] = f[i + 1]
    OBVIOUS
  <2>1. i \in Nat /\ i + 1 \in 0..N /\ i + 1 \in 0..M /\ i + 1 > 0 /\ (i + 1) - 1 = i /\ i + 1 \in 1..N /\ g[i] = f[i]
    BY <1>1, <1>2
  <2>2. f[i + 1] = f[i] + s[i + 1] /\ g[i + 1] = g[i] + t[i + 1] /\ t[i + 1] = s[i + 1]
    BY <1>3, <1>4, <1>5, <2>1
  <2> QED BY <2>1, <2>2
<1>8. S \in SUBSET Nat
  OBVIOUS
<1> HIDE DEF S
<1>9. S = Nat
  BY <1>6, <1>7, <1>8, Inductive
<1>10. g[N] = f[N]
  BY <1>1, <1>9 DEF S
<1>11. g[M] = g[N] + t[M] /\ g[M] \in Nat /\ f[N] \in Nat
  <2>1. M \in 0..M /\ M > 0 /\ M - 1 = N /\ N \in 0..N
    BY <1>1, <1>2
  <2> QED BY <1>4, <1>5, <2>1
<1> QED BY <1>1, <1>2, <1>10, <1>11

-----------------------------------------------------------------------------
(* The elements of a sequence after its first.                             *)
LEMMA SinceIs ==
  ASSUME NEW s, List(s), NEW k \in 0..Len(s)
  PROVE  /\ List(Since(s, k)) /\ Len(Since(s, k)) = Len(s) - k
         /\ \A i \in 1..Len(s) - k : Since(s, k)[i] = s[k + i]
<1>1. PICK N, u, S : N \in Nat /\ N = Len(s) /\ u = Since(s, k) /\ N - k \in Nat /\ S = ToSet(s) /\ s \in Seq(S)
  BY ListAre DEF List
<1>2. (\A i \in k + 1..N : s[i] \in S) /\ k + 1 \in Int /\ N \in Int
  BY <1>1
<1>3. /\ u \in Seq(S) /\ Len(u) = (IF k + 1 <= N THEN N - (k + 1) + 1 ELSE 0)
      /\ \A i \in 1..(N - (k + 1) + 1) : u[i] = s[k + 1 + i - 1]
  BY <1>1, <1>2, SubSeqProperties DEF Since
<1>4. List(u)
  BY <1>3, ListIn
<1>5. Len(u) = N - k /\ \A i \in 1..N - k : u[i] = s[k + i]
  <2>1. (IF k + 1 <= N THEN N - (k + 1) + 1 ELSE 0) = N - k /\ N - (k + 1) + 1 = N - k
    BY <1>1
  <2>2. \A i \in 1..N - k : k + 1 + i - 1 = k + i
    BY <1>1
  <2>3. Len(u) = N - k
    BY <1>3, <2>1
  <2>4. \A i \in 1..N - k : u[i] = s[k + 1 + i - 1]
    BY <1>3, <2>1
  <2> QED BY <2>2, <2>3, <2>4
<1> QED BY <1>1, <1>4, <1>5

LEMMA AppendIs ==
  ASSUME NEW s, List(s), NEW x
  PROVE  /\ List(Append(s, x)) /\ Len(Append(s, x)) = Len(s) + 1 /\ Append(s, x)[Len(s) + 1] = x
         /\ \A i \in 1..Len(s) : Append(s, x)[i] = s[i]
         /\ Append(s, x) = s \o <<x>>
<1>1. PICK S : S = ToSet(s) \cup {x}
  OBVIOUS
<1>2. s \in Seq(S) /\ x \in S
  BY <1>1 DEF List
<1>6. /\ Append(s, x) \in Seq(S) /\ Len(Append(s, x)) = Len(s) + 1 /\ Append(s, x)[Len(s) + 1] = x
      /\ \A i \in 1..Len(s) : Append(s, x)[i] = s[i]
  BY <1>2, AppendProperties
<1>3. PICK t : t = Append(s, x) /\ t \in Seq(S) /\ Len(t) = Len(s) + 1 /\ t[Len(s) + 1] = x
               /\ \A i \in 1..Len(s) : t[i] = s[i]
  BY <1>6
<1>4. List(t)
  BY <1>3, ListIn
<1>5. Append(s, x) = s \o <<x>>
  BY <1>2
<1> QED BY <1>3, <1>4, <1>5

-----------------------------------------------------------------------------
(* The entries of a history.                                               *)
TextEntry(e) ==
  /\ e.kind = "text" /\ List(e.text) /\ List(e.observation) /\ e.size \in Nat
  /\ ~(ToSet(e.observation) \subseteq {Space})
ToolEntry(e) ==
  /\ e.kind = "tool" /\ List(e.text) /\ List(e.calls) /\ List(e.results) /\ List(e.replay)
  /\ Len(e.calls) # 0 /\ Len(e.results) = Len(e.calls)
  /\ \A i \in 1..Len(e.calls) :
       List(e.calls[i].arguments) /\ e.results[i].id = e.calls[i].id /\ e.results[i].size \in Nat
  /\ \A i, j \in 1..Len(e.calls) : e.calls[i].id = e.calls[j].id => i = j
  /\ \A i \in 1..Len(e.replay) :
       /\ List(e.replay[i].text) /\ List(e.replay[i].signature)
       /\ e.replay[i].type \in ReplayTypes
Entered(e) == TextEntry(e) \/ ToolEntry(e)
Recounts(h) == List(h) /\ \A i \in 1..Len(h) : Entered(h[i])

LEMMA CountedOf ==
  ASSUME NEW s, List(s), NEW t, t = [i \in DOMAIN s |-> t[i]], \A i \in 1..Len(s) : t[i] \in Nat
  PROVE  Counted(t) /\ Len(t) = Len(s)
<1>1. PICK N : N \in Nat /\ N = Len(s) /\ DOMAIN s = 1..N
  BY ListAre
<1>2. List(t) /\ Len(t) = N
  BY <1>1, ListOf
<1> QED BY <1>1, <1>2 DEF Counted

LEMMA SizeIsNat ==
  ASSUME NEW e, Entered(e)
  PROVE  EntrySize(e) \in Nat
<1>1. Len(e.text) \in Nat
  BY ListAre DEF Entered, TextEntry, ToolEntry
<1>2. CASE TextEntry(e)
  BY <1>1, <1>2 DEF TextEntry, EntrySize, SizeOf
<1>3. CASE ToolEntry(e)
  <2> DEFINE r == [i \in DOMAIN e.replay |-> SizeOf(e.replay[i].text) + SizeOf(e.replay[i].signature)]
             c == [i \in DOMAIN e.calls |-> SizeOf(e.calls[i].arguments)]
             o == [i \in DOMAIN e.results |-> e.results[i].size]
  <2>1. SumOf(r) \in Nat
    <3>1. \A i \in 1..Len(e.replay) : Len(e.replay[i].text) \in Nat /\ Len(e.replay[i].signature) \in Nat
      BY <1>3, ListAre DEF ToolEntry
    <3>2. List(e.replay) /\ DOMAIN e.replay = 1..Len(e.replay)
      BY <1>3, ListAre DEF ToolEntry
    <3>3. /\ r = [i \in DOMAIN e.replay |-> r[i]]
          /\ \A i \in 1..Len(e.replay) : r[i] = Len(e.replay[i].text) + Len(e.replay[i].signature)
      BY <3>2 DEF SizeOf
    <3> HIDE DEF r
    <3>4. ASSUME NEW i \in 1..Len(e.replay) PROVE r[i] \in Nat
      <4>1. PICK a, b : a = Len(e.replay[i].text) /\ b = Len(e.replay[i].signature)
        OBVIOUS
      <4>2. a \in Nat /\ b \in Nat /\ r[i] = a + b
        BY <3>1, <3>3, <4>1
      <4> QED BY <4>2
    <3> QED BY <3>2, <3>3, <3>4, CountedOf, SumIsNat
  <2>2. SumOf(c) \in Nat
    <3>1. \A i \in 1..Len(e.calls) : Len(e.calls[i].arguments) \in Nat
      BY <1>3, ListAre DEF ToolEntry
    <3>2. List(e.calls) /\ DOMAIN e.calls = 1..Len(e.calls)
      BY <1>3, ListAre DEF ToolEntry
    <3>3. c = [i \in DOMAIN e.calls |-> c[i]] /\ \A i \in 1..Len(e.calls) : c[i] \in Nat
      BY <3>1, <3>2 DEF SizeOf
    <3> HIDE DEF c
    <3> QED BY <3>2, <3>3, CountedOf, SumIsNat
  <2>3. SumOf(o) \in Nat
    <3>1. \A i \in 1..Len(e.results) : e.results[i].size \in Nat
      BY <1>3 DEF ToolEntry
    <3>2. List(e.results) /\ DOMAIN e.results = 1..Len(e.results)
      BY <1>3, ListAre DEF ToolEntry
    <3>3. o = [i \in DOMAIN e.results |-> o[i]] /\ \A i \in 1..Len(e.results) : o[i] \in Nat
      BY <3>1, <3>2
    <3> HIDE DEF o
    <3> QED BY <3>2, <3>3, CountedOf, SumIsNat
  <2>4. EntrySize(e) = SizeOf(e.text) + SumOf(r) + SumOf(c) + SumOf(o)
    BY <1>3 DEF ToolEntry, EntrySize
  <2> HIDE DEF r, c, o
  <2> QED BY <1>1, <2>1, <2>2, <2>3, <2>4 DEF SizeOf
<1> QED BY <1>2, <1>3 DEF Entered

(* What does not fit now did not fit before an entry was added.            *)
Sizes(h) == [i \in DOMAIN h |-> EntrySize(h[i])]

LEMMA SizesAre ==
  ASSUME NEW h, Recounts(h)
  PROVE  Counted(Sizes(h)) /\ Len(Sizes(h)) = Len(h) /\ \A i \in 1..Len(h) : Sizes(h)[i] = EntrySize(h[i])
<1>1. PICK N, s : N \in Nat /\ N = Len(h) /\ DOMAIN h = 1..N /\ s = Sizes(h)
  BY ListAre DEF Recounts
<1>2. \A i \in 1..N : s[i] = EntrySize(h[i])
  BY <1>1 DEF Sizes
<1>3. \A i \in 1..N : EntrySize(h[i]) \in Nat
  BY <1>1, SizeIsNat DEF Recounts
<1>4. s = [i \in DOMAIN h |-> s[i]]
  BY <1>1 DEF Sizes
<1>5. Counted(s) /\ Len(s) = N
  BY <1>1, <1>2, <1>3, <1>4, CountedOf DEF Recounts
<1> QED BY <1>1, <1>2, <1>5

LEMMA AddedRecounts ==
  ASSUME NEW h, Recounts(h), NEW e, Entered(e)
  PROVE  Recounts(Append(h, e))
<1>1. PICK N, g : N \in Nat /\ N = Len(h) /\ g = Append(h, e)
  BY ListAre DEF Recounts
<1>2. List(g) /\ Len(g) = N + 1 /\ g[N + 1] = e /\ \A i \in 1..N : g[i] = h[i]
  BY <1>1, AppendIs DEF Recounts
<1>3. ASSUME NEW i \in 1..N + 1 PROVE Entered(g[i])
  <2>1. CASE i = N + 1
    BY <1>2, <2>1
  <2>2. CASE i # N + 1
    <3>1. i \in 1..N
      BY <1>1, <2>2
    <3> QED BY <1>1, <1>2, <3>1 DEF Recounts
  <2> QED BY <2>1, <2>2
<1> QED BY <1>1, <1>2, <1>3 DEF Recounts

LEMMA FitsNoLater ==
  ASSUME NEW h, Recounts(h), NEW e, Entered(e), NEW k \in 0..Len(h), Fits(Sizes(Append(h, e)), k)
  PROVE  Fits(Sizes(h), k)
<1>1. PICK N, g : N \in Nat /\ N = Len(h) /\ g = Append(h, e)
  BY ListAre DEF Recounts
<1>2. Recounts(g) /\ Len(g) = N + 1 /\ \A i \in 1..N : g[i] = h[i]
  BY <1>1, AddedRecounts, AppendIs DEF Recounts
<1>3. PICK s, t : s = Sizes(h) /\ t = Sizes(g)
  OBVIOUS
<1>4. Counted(s) /\ Len(s) = N /\ Counted(t) /\ Len(t) = N + 1 /\ \A i \in 1..N : t[i] = s[i]
  <2>1. Counted(s) /\ Len(s) = N /\ \A i \in 1..N : s[i] = EntrySize(h[i])
    BY <1>1, <1>3, SizesAre
  <2>2. Counted(t) /\ Len(t) = N + 1 /\ \A i \in 1..N + 1 : t[i] = EntrySize(g[i])
    BY <1>2, <1>3, SizesAre
  <2>3. \A i \in 1..N : i \in 1..N + 1
    BY <1>1
  <2> QED BY <1>2, <2>1, <2>2, <2>3
<1>5. PICK u, v, n : u = Since(s, k) /\ v = Since(t, k) /\ n \in Nat /\ n = N - k
  BY <1>1
<1>6. List(u) /\ Len(u) = n /\ \A i \in 1..n : u[i] = s[k + i]
  <2>1. List(s) /\ k \in 0..Len(s) /\ Len(s) - k = n
    BY <1>1, <1>4, <1>5 DEF Counted
  <2> QED BY <1>5, <2>1, SinceIs
<1>7. List(v) /\ Len(v) = n + 1 /\ \A i \in 1..n + 1 : v[i] = t[k + i]
  <2>1. List(t) /\ k \in 0..Len(t) /\ Len(t) - k = n + 1
    BY <1>1, <1>4, <1>5 DEF Counted
  <2> QED BY <1>5, <2>1, SinceIs
<1>8. Counted(u)
  <2>1. \A i \in 1..n : k + i \in 1..N
    BY <1>1, <1>5
  <2> QED BY <1>4, <1>6, <2>1 DEF Counted
<1>9. Counted(v)
  <2>1. \A i \in 1..n + 1 : k + i \in 1..N + 1
    BY <1>1, <1>5
  <2> QED BY <1>4, <1>7, <2>1 DEF Counted
<1>10. \A i \in 1..n : v[i] = u[i]
  <2>1. \A i \in 1..n : k + i \in 1..N /\ i \in 1..n + 1
    BY <1>1, <1>5
  <2> QED BY <1>4, <1>6, <1>7, <2>1
<1>11. SumOf(v) = SumOf(u) + v[n + 1] /\ SumOf(u) \in Nat /\ SumOf(v) \in Nat
  BY <1>6, <1>7, <1>8, <1>9, <1>10, SumGrows
<1>12. v[n + 1] \in Nat
  BY <1>5, <1>7, <1>9 DEF Counted
<1>13. FixedSize + SumOf(v) <= MaxContext
  BY <1>1, <1>3, <1>5 DEF Fits
<1>14. FixedSize \in Nat /\ MaxContext \in Nat
  BY ConversationAssumption
<1>15. FixedSize + SumOf(u) <= MaxContext
  BY <1>11, <1>12, <1>13, <1>14
<1> QED BY <1>3, <1>5, <1>15 DEF Fits

(* Dropped: the newest entry never, and one that was is never back.        *)
Droppable(h) == {k \in 0..Len(h) : Fits(Sizes(h), k) \/ k >= Len(h) - 1}

LEMMA DroppedIs ==
  ASSUME NEW h, List(h)
  PROVE  Dropped(h) \in Droppable(h) /\ (\A k \in Droppable(h) : Dropped(h) <= k)
         /\ Dropped(h) \in 0..Len(h) /\ (h # <<>> => Dropped(h) < Len(h))
<1>1. PICK N : N \in Nat /\ N = Len(h) /\ (h = <<>> <=> N = 0)
  BY ListAre
<1>2. Dropped(h) = Min(Droppable(h))
  BY DEF Dropped, Droppable, Sizes
<1>3. N \in Droppable(h) /\ Droppable(h) \subseteq 0..N
  BY <1>1 DEF Droppable
<1>4. Droppable(h) \subseteq Nat /\ Droppable(h) # {}
  BY <1>1, <1>3
<1>5. Dropped(h) \in Droppable(h) /\ \A k \in Droppable(h) : Dropped(h) <= k
  BY <1>2, <1>4, MinOf
<1>6. ASSUME h # <<>> PROVE Dropped(h) < N
  <2>1. N - 1 \in 0..N /\ N - 1 >= N - 1
    BY <1>1, <1>6
  <2>2. N - 1 \in Droppable(h)
    BY <1>1, <2>1 DEF Droppable
  <2>3. Dropped(h) <= N - 1 /\ Dropped(h) \in 0..N
    BY <1>3, <1>5, <2>2
  <2> QED BY <1>1, <2>3
<1> QED BY <1>1, <1>3, <1>5, <1>6

LEMMA DroppedGrows ==
  ASSUME NEW h, Recounts(h), NEW e, Entered(e)
  PROVE  Dropped(Append(h, e)) >= Dropped(h)
<1>0. List(h) /\ Len(h) \in Nat /\ List(Append(h, e)) /\ Len(Append(h, e)) = Len(h) + 1
  BY ListAre, AppendIs DEF Recounts
<1>1. PICK N, g : N \in Nat /\ N = Len(h) /\ g = Append(h, e) /\ List(g) /\ Len(g) = N + 1
  BY <1>0
<1>2. PICK p, q : p = Dropped(h) /\ q = Dropped(g)
  OBVIOUS
<1>3. p \in 0..N /\ \A k \in Droppable(h) : p <= k
  BY <1>1, <1>2, DroppedIs DEF Recounts
<1>4. q \in Droppable(g) /\ q \in 0..N + 1
  BY <1>1, <1>2, DroppedIs
<1>5. ASSUME q < p PROVE FALSE
  <2>1. q \in 0..N /\ ~(q >= N) /\ (N + 1) - 1 = N
    BY <1>1, <1>3, <1>4, <1>5
  <2>2. Fits(Sizes(g), q)
    BY <1>1, <1>4, <2>1 DEF Droppable
  <2>3. Fits(Sizes(h), q)
    BY <1>1, <2>1, <2>2, FitsNoLater
  <2>4. q \in Droppable(h)
    BY <1>1, <2>1, <2>3 DEF Droppable
  <2>5. p <= q
    BY <1>3, <2>4
  <2> QED BY <1>3, <1>5, <2>1, <2>5
<1> QED BY <1>1, <1>2, <1>3, <1>4, <1>5

-----------------------------------------------------------------------------
(* What is sent of a history: the messages of its entries, one after the   *)
(* other.                                                                  *)
Said(m) == m.role \in {"assistant", "tool", "user", "system"} /\ List(Content(m))
Messaged(c) == List(c) /\ \A i \in 1..Len(c) : Said(c[i])

LEMMA NonBlankIs ==
  ASSUME NEW t
  PROVE  /\ List(NonBlank(t))
         /\ NonBlank(t) = <<>> \/ NonBlank(t) = <<[type |-> "text", text |-> t]>>
         /\ ~(ToSet(t) \subseteq {Space}) => NonBlank(t) = <<[type |-> "text", text |-> t]>>
BY EmptyList, OneList DEF NonBlank

LEMMA ContentOf ==
  ASSUME NEW m, m.role \in {"assistant", "tool", "user", "system"},
         m.role = "assistant" => List(m.replay) /\ List(m.calls)
  PROVE  Said(m)
<1>1. CASE m.role = "assistant"
  <2> DEFINE uses == [i \in DOMAIN m.calls |-> ToolUse(m.calls[i])]
  <2>1. List(uses)
    <3>1. PICK N : N \in Nat /\ DOMAIN m.calls = 1..N
      BY <1>1, ListAre
    <3>2. uses = [i \in 1..N |-> uses[i]]
      BY <3>1
    <3> HIDE DEF uses
    <3> QED BY <3>1, <3>2, ListOf
  <2>2. Content(m) = m.replay \o NonBlank(m.text) \o uses
    BY <1>1 DEF Content, AssistantContent
  <2> HIDE DEF uses
  <2>3. List(m.replay \o NonBlank(m.text))
    BY <1>1, NonBlankIs, ConcatLists
  <2>4. List(m.replay \o NonBlank(m.text) \o uses)
    BY <2>1, <2>3, ConcatLists
  <2> QED BY <2>2, <2>4 DEF Said
<1>2. CASE m.role = "tool"
  BY <1>2, OneList DEF Said, Content
<1>3. CASE m.role \in {"user", "system"}
  BY <1>3, NonBlankIs DEF Said, Content
<1> QED BY <1>1, <1>2, <1>3

LEMMA MessagedConcat ==
  ASSUME NEW a, NEW b, Messaged(a), Messaged(b), NEW c, Appended(c, a, b)
  PROVE  Messaged(c)
<1>1. PICK A, B : A \in Nat /\ A = Len(a) /\ B \in Nat /\ B = Len(b) /\ List(c) /\ Len(c) = A + B
  BY DEF Appended
<1>2. ASSUME NEW i \in 1..A + B PROVE Said(c[i])
  <2>1. CASE i \in 1..A
    BY <1>1, <2>1 DEF Appended, Messaged
  <2>2. CASE i \notin 1..A
    <3>1. PICK j : j \in 1..B /\ i = A + j
      <4>1. i - A \in 1..B /\ i = A + (i - A)
        BY <1>1, <2>2
      <4> QED BY <4>1
    <3> QED BY <1>1, <3>1 DEF Appended, Messaged
  <2> QED BY <2>1, <2>2
<1> QED BY <1>1, <1>2 DEF Messaged

LEMMA MessagedOne ==
  ASSUME NEW m, Said(m)
  PROVE  Messaged(<<m>>) /\ Len(<<m>>) = 1 /\ <<m>>[1] = m
<1>1. List(<<m>>) /\ Len(<<m>>) = 1 /\ <<m>>[1] = m
  BY OneList
<1>2. \A i \in 1..1 : i = 1
  OBVIOUS
<1> QED BY <1>1, <1>2 DEF Messaged

LEMMA MessagedBoth ==
  ASSUME NEW a, NEW b, Messaged(a), Messaged(b)
  PROVE  Messaged(a \o b) /\ Appended(a \o b, a, b)
<1>1. Appended(a \o b, a, b)
  BY ListConcat DEF Messaged
<1> QED BY <1>1, MessagedConcat

LEMMA MessagedNone == Messaged(<<>>)
  BY EmptyList DEF Messaged

LEMMA SaysIs ==
  ASSUME NEW role \in {"user", "assistant", "system"}, NEW text
  PROVE  Said(Says(role, text)) /\ Says(role, text).role = role /\ Says(role, text).text = text
         /\ Says(role, text).calls = <<>> /\ Says(role, text).replay = <<>>
<1>1. PICK m : m = Says(role, text)
  OBVIOUS
<1>2. m.role = role /\ m.text = text /\ m.calls = <<>> /\ m.replay = <<>>
  BY <1>1 DEF Says, ChatMessage
<1>3. Said(m)
  BY <1>2, ContentOf, EmptyList
<1> QED BY <1>1, <1>2, <1>3

(* The messages of an entry: it is not answers that come first.            *)
Segment(seg) == Messaged(seg) /\ Len(seg) # 0 /\ seg[1].role # "tool"

ToolResults(e) ==
  [i \in DOMAIN e.results |-> ChatMessage("tool", e.results[i].text, <<>>, <<>>, e.results[i].id)]

LEMMA ResultsAre ==
  ASSUME NEW e, ToolEntry(e)
  PROVE  /\ Messaged(ToolResults(e)) /\ Len(ToolResults(e)) = Len(e.calls) /\ Len(e.calls) \in Nat \ {0}
         /\ \A i \in 1..Len(e.calls) :
              /\ ToolResults(e)[i].role = "tool" /\ ToolResults(e)[i].id = e.calls[i].id
              /\ ToolResults(e)[i].calls = <<>>
<1>1. PICK N, r : N \in Nat /\ N = Len(e.calls) /\ DOMAIN e.results = 1..N /\ N # 0 /\ r = ToolResults(e)
  BY ListAre DEF ToolEntry
<1>2. \A i \in 1..N : r[i] = ChatMessage("tool", e.results[i].text, <<>>, <<>>, e.results[i].id)
  BY <1>1 DEF ToolResults
<1>3. r = [i \in 1..N |-> r[i]]
  BY <1>1 DEF ToolResults
<1>4. List(r) /\ Len(r) = N
  BY <1>1, <1>3, ListOf
<1>5. ASSUME NEW i \in 1..N PROVE r[i].role = "tool" /\ r[i].id = e.calls[i].id /\ r[i].calls = <<>> /\ Said(r[i])
  <2>1. r[i].role = "tool" /\ r[i].id = e.results[i].id /\ r[i].calls = <<>>
    <3>1. PICK t, d : t = e.results[i].text /\ d = e.results[i].id
      OBVIOUS
    <3>2. r[i] = ChatMessage("tool", t, <<>>, <<>>, d)
      BY <1>2, <3>1
    <3> QED BY <3>1, <3>2 DEF ChatMessage
  <2>2. e.results[i].id = e.calls[i].id
    BY <1>1 DEF ToolEntry
  <2>3. Said(r[i])
    BY <2>1, ContentOf
  <2> QED BY <2>1, <2>2, <2>3
<1>6. Messaged(r)
  BY <1>4, <1>5 DEF Messaged
<1> QED BY <1>1, <1>4, <1>5, <1>6

LEMMA EntrySaid ==
  ASSUME NEW e, Entered(e)
  PROVE  Segment(EntryMessages(e))
<1>1. CASE TextEntry(e)
  <2>1. PICK a, b : a = (IF e.text = <<>> THEN <<>> ELSE <<Says("assistant", e.text)>>)
                    /\ b = <<Says("user", e.observation)>>
    OBVIOUS
  <2>2. EntryMessages(e) = a \o b
    BY <1>1, <2>1 DEF EntryMessages, TextEntry
  <2>3. Messaged(a) /\ (a = <<>> \/ (Len(a) = 1 /\ a[1].role = "assistant"))
    BY <2>1, MessagedNone, SaysIs, MessagedOne
  <2>4. Messaged(b) /\ Len(b) = 1 /\ b[1].role = "user"
    BY <2>1, SaysIs, MessagedOne
  <2>5. Messaged(a \o b) /\ Appended(a \o b, a, b)
    BY <2>3, <2>4, MessagedBoth
  <2>6. CASE a = <<>>
    <3>1. a \o b = b
      BY <2>4, <2>6, ConcatEmpty DEF Messaged
    <3> QED BY <2>2, <2>4, <3>1 DEF Segment
  <2>7. CASE a # <<>>
    <3>1. Len(a) = 1 /\ 1 \in 1..Len(a) /\ a[1].role = "assistant" /\ Len(b) = 1
      BY <2>3, <2>4, <2>7
    <3>2. (a \o b)[1] = a[1] /\ Len(a \o b) = 1 + 1
      BY <2>5, <3>1 DEF Appended
    <3> QED BY <2>2, <2>5, <3>1, <3>2 DEF Segment
  <2> QED BY <2>6, <2>7
<1>2. CASE ToolEntry(e)
  <2>1. PICK a, b : a = <<Assistant(e)>> /\ b = ToolResults(e)
    OBVIOUS
  <2>2. EntryMessages(e) = a \o b
    BY <1>2, <2>1 DEF EntryMessages, ToolEntry, ToolResults
  <2>3. Assistant(e).role = "assistant" /\ List(Assistant(e).replay) /\ List(Assistant(e).calls)
    BY <1>2 DEF Assistant, ChatMessage, ToolEntry
  <2>4. Messaged(a) /\ Len(a) = 1 /\ a[1].role = "assistant"
    BY <2>1, <2>3, ContentOf, MessagedOne
  <2>5. Messaged(b) /\ Len(b) \in Nat
    BY <1>2, <2>1, ResultsAre
  <2>6. Messaged(a \o b) /\ Appended(a \o b, a, b)
    BY <2>4, <2>5, MessagedBoth
  <2>7. (a \o b)[1] = a[1] /\ Len(a \o b) = 1 + Len(b)
    <3>1. 1 \in 1..Len(a)
      BY <2>4
    <3> QED BY <2>4, <2>6, <3>1 DEF Appended
  <2>8. Len(a \o b) # 0
    BY <2>5, <2>7
  <2> QED BY <2>2, <2>4, <2>6, <2>7, <2>8 DEF Segment
<1> QED BY <1>1, <1>2 DEF Entered

(* What is sent before the entries, and of all of them but the first k.    *)
Opening(k) ==
  <<Says("system", System), Says("user", Goal)>>
  \o (IF k = 0 THEN <<>> ELSE <<Says("user", <<"truncated", ToString(k)>>)>>)
Kept(h, k) == [i \in 1..Len(h) - k |-> EntryMessages(h[k + i])]

LEMMA OpeningIs ==
  ASSUME NEW k
  PROVE  /\ Messaged(Opening(k)) /\ Len(Opening(k)) # 0 /\ Opening(k)[1] = Says("system", System)
         /\ \A i \in 1..Len(Opening(k)) :
              Opening(k)[i].role \in {"system", "user"} /\ Opening(k)[i].calls = <<>>
<1>1. PICK a, b, p, q, r :
        /\ p = Says("system", System) /\ q = Says("user", Goal) /\ r = Says("user", <<"truncated", ToString(k)>>)
        /\ a = <<p, q>> /\ b = (IF k = 0 THEN <<>> ELSE <<r>>)
  OBVIOUS
<1>2. /\ Said(p) /\ Said(q) /\ Said(r) /\ p.role = "system" /\ q.role = "user" /\ r.role = "user"
      /\ p.calls = <<>> /\ q.calls = <<>> /\ r.calls = <<>>
  BY <1>1, SaysIs
<1>3. Messaged(a) /\ Len(a) = 2 /\ a[1] = p /\ a[2] = q
  <2>1. a = [i \in 1..2 |-> a[i]] /\ a[1] = p /\ a[2] = q
    BY <1>1
  <2>2. List(a) /\ Len(a) = 2
    BY <2>1, ListOf
  <2>3. \A i \in 1..2 : i = 1 \/ i = 2
    OBVIOUS
  <2> QED BY <1>2, <2>1, <2>2, <2>3 DEF Messaged
<1>4. Messaged(b) /\ (b = <<>> \/ (Len(b) = 1 /\ b[1] = r))
  BY <1>1, <1>2, MessagedNone, MessagedOne
<1>5. PICK c : c = Opening(k) /\ c = a \o b /\ Messaged(c) /\ Appended(c, a, b)
  BY <1>1, <1>3, <1>4, MessagedBoth DEF Opening
<1>6. Len(b) \in Nat /\ Len(b) <= 1 /\ \A j \in 1..Len(b) : b[j] = r
  <2>1. CASE b = <<>>
    BY <2>1, EmptyList
  <2>2. CASE Len(b) = 1 /\ b[1] = r
    <3>1. \A j \in 1..1 : j = 1
      OBVIOUS
    <3> QED BY <2>2, <3>1
  <2> QED BY <1>4, <2>1, <2>2
<1>7. ASSUME NEW i \in 1..Len(c) PROVE c[i] \in {p, q, r}
  <2>1. Len(c) = 2 + Len(b)
    BY <1>3, <1>5 DEF Appended
  <2>2. CASE i <= 2
    <3>1. i \in 1..2 /\ (i = 1 \/ i = 2)
      BY <1>6, <2>1, <2>2
    <3> QED BY <1>3, <1>5, <3>1 DEF Appended
  <2>3. CASE ~(i <= 2)
    <3>1. PICK j : j \in 1..Len(b) /\ i = 2 + j
      <4>1. i - 2 \in 1..Len(b) /\ i = 2 + (i - 2)
        BY <1>6, <2>1, <2>3
      <4> QED BY <4>1
    <3> QED BY <1>3, <1>5, <1>6, <3>1 DEF Appended
  <2> QED BY <2>2, <2>3
<1>8. Len(c) # 0 /\ c[1] = p
  <2>1. 1 \in 1..2 /\ Len(c) = 2 + Len(b)
    BY <1>3, <1>5 DEF Appended
  <2>2. c[1] = a[1]
    BY <1>3, <1>5, <2>1 DEF Appended
  <2> QED BY <1>3, <1>6, <2>1, <2>2
<1> QED BY <1>1, <1>2, <1>5, <1>7, <1>8

LEMMA KeptIs ==
  ASSUME NEW h, Recounts(h), NEW k \in 0..Len(h)
  PROVE  /\ Lists(Kept(h, k)) /\ Len(Kept(h, k)) = Len(h) - k
         /\ \A i \in 1..Len(h) - k : Kept(h, k)[i] = EntryMessages(h[k + i])
<1>1. PICK n, s : n \in Nat /\ n = Len(h) - k /\ s = Kept(h, k)
  BY ListAre DEF Recounts
<1>2. s = [i \in 1..n |-> s[i]] /\ \A i \in 1..n : s[i] = EntryMessages(h[k + i])
  BY <1>1 DEF Kept
<1>3. ASSUME NEW i \in 1..n PROVE List(s[i])
  <2>1. Len(h) \in Nat
    BY ListAre DEF Recounts
  <2>2. k + i \in 1..Len(h)
    BY <1>1, <2>1
  <2>3. Segment(EntryMessages(h[k + i]))
    BY <2>2, EntrySaid DEF Recounts
  <2> QED BY <1>2, <2>3 DEF Segment, Messaged
<1> QED BY <1>1, <1>2, <1>3, ListsOf

LEMMA AssembleIs ==
  ASSUME NEW h, NEW k
  PROVE  assemble(h, k) = Opening(k) \o FlattenSeq(Kept(h, k))
BY DEF assemble, Opening, Kept

(* One more entry adds its messages.                                       *)
LEMMA AssembleGrows ==
  ASSUME NEW h, Recounts(h), NEW k \in 0..Len(h), NEW e, Entered(e)
  PROVE  assemble(Append(h, e), k) = assemble(h, k) \o EntryMessages(e)
<1>1. List(h) /\ Len(h) \in Nat
  BY ListAre DEF Recounts
<1>0. PICK n, m : n \in Nat /\ n = Len(h) - k /\ m = n + 1
  BY <1>1
<1>2. PICK s, t, g :
        n \in Nat /\ n = Len(h) - k /\ m = n + 1 /\ s = Kept(h, k) /\ g = Append(h, e) /\ t = Kept(g, k)
  BY <1>0
<1>3. Recounts(g) /\ Len(g) = Len(h) + 1 /\ g[Len(h) + 1] = e /\ \A i \in 1..Len(h) : g[i] = h[i]
  BY <1>1, <1>2, AddedRecounts, AppendIs
<1>4. Lists(s) /\ Len(s) = n /\ \A i \in 1..n : s[i] = EntryMessages(h[k + i])
  BY <1>2, KeptIs
<1>5. Lists(t) /\ Len(t) = m /\ \A i \in 1..m : t[i] = EntryMessages(g[k + i])
  <2>1. k \in 0..Len(g) /\ Len(g) - k = m
    BY <1>1, <1>2, <1>3
  <2>2. /\ Lists(Kept(g, k)) /\ Len(Kept(g, k)) = Len(g) - k
        /\ \A i \in 1..Len(g) - k : Kept(g, k)[i] = EntryMessages(g[k + i])
    BY <1>3, <2>1, KeptIs
  <2> QED BY <1>2, <2>1, <2>2
<1>6. \A i \in 1..n : t[i] = s[i]
  <2>1. \A i \in 1..n : i \in 1..m /\ k + i \in 1..Len(h)
    BY <1>1, <1>2
  <2> QED BY <1>3, <1>4, <1>5, <2>1
<1>7. t[m] = EntryMessages(e)
  <2>1. m \in 1..m /\ k + m = Len(h) + 1
    BY <1>1, <1>2
  <2> QED BY <1>3, <1>5, <2>1
<1>8. FlattenSeq(t) = FlattenSeq(s) \o t[m]
  <2>1. m = Len(s) + 1 /\ Len(t) = m /\ \A i \in 1..Len(s) : t[i] = s[i]
    BY <1>2, <1>4, <1>5, <1>6
  <2>2. Lists(s) /\ Lists(t)
    BY <1>4, <1>5
  <2> QED BY <2>1, <2>2, FlattenStep
<1>9. PICK a, b, c : a = Opening(k) /\ b = FlattenSeq(s) /\ c = EntryMessages(e) /\ List(a) /\ List(b) /\ List(c)
  <2>1. List(Opening(k))
    BY OpeningIs DEF Messaged
  <2>2. List(FlattenSeq(s))
    BY <1>4, FlattenList
  <2>3. List(EntryMessages(e))
    BY EntrySaid DEF Segment, Messaged
  <2> QED BY <2>1, <2>2, <2>3
<1>10. (a \o b) \o c = a \o (b \o c)
  BY <1>9, ConcatAssoc
<1>11. assemble(h, k) = a \o b
  BY <1>2, <1>9, AssembleIs
<1>12. assemble(g, k) = a \o (b \o c)
  BY <1>2, <1>7, <1>8, <1>9, AssembleIs
<1> QED BY <1>2, <1>9, <1>10, <1>11, <1>12

LEMMA AssembleAll ==
  ASSUME NEW h, List(h), NEW k, k = Len(h)
  PROVE  assemble(h, k) = Opening(k)
<1>1. 1..Len(h) - k = {}
  BY ListAre
<1>2. Kept(h, k) = <<>>
  BY <1>1 DEF Kept
<1>3. List(Opening(k))
  BY OpeningIs DEF Messaged
<1> QED BY <1>2, <1>3, AssembleIs, FlattenNone, ConcatEmpty

LEMMA AssembleMessaged ==
  ASSUME NEW h, Recounts(h), NEW k \in 0..Len(h)
  PROVE  /\ Messaged(assemble(h, k)) /\ Len(assemble(h, k)) # 0
         /\ assemble(h, k)[1] = Says("system", System)
<1>1. List(h) /\ Len(h) \in Nat
  BY ListAre DEF Recounts
<1>2. PICK n, a, s : n \in Nat /\ n = Len(h) - k /\ a = Opening(k) /\ s = Kept(h, k)
  BY <1>1
<1>3. Lists(s) /\ Len(s) = n /\ \A i \in 1..n : Messaged(s[i])
  <2>1. \A i \in 1..n : s[i] = EntryMessages(h[k + i])
    BY <1>2, KeptIs
  <2>2. \A i \in 1..n : k + i \in 1..Len(h)
    BY <1>1, <1>2
  <2> QED BY <1>2, <2>1, <2>2, KeptIs, EntrySaid DEF Recounts, Segment
<1> DEFINE S == {j \in Nat : j <= n => Messaged(FlattenSeq(First(s, j)))}
<1>4. 0 \in S
  <2>1. First(s, 0) = <<>>
    BY <1>2, <1>3, FirstOf DEF Lists
  <2> QED BY <2>1, FlattenNone, MessagedNone
<1>5. \A j \in S : j + 1 \in S
  <2> SUFFICES ASSUME NEW j \in S, j + 1 <= n PROVE Messaged(FlattenSeq(First(s, j + 1)))
    OBVIOUS
  <2>1. PICK m : m = j + 1 /\ m <= Len(s) /\ m \in 1..n /\ j \in Nat
    BY <1>2, <1>3
  <2>2. FlattenSeq(First(s, m)) = FlattenSeq(First(s, j)) \o s[m]
    BY <1>3, <2>1, FlattenFirst
  <2>3. Messaged(FlattenSeq(First(s, j))) /\ Messaged(s[m])
    BY <1>2, <1>3, <2>1
  <2> HIDE DEF S
  <2> QED BY <2>1, <2>2, <2>3, MessagedBoth
<1>6. S \in SUBSET Nat
  OBVIOUS
<1> HIDE DEF S
<1>7. S = Nat
  BY <1>4, <1>5, <1>6, Inductive
<1>8. Messaged(FlattenSeq(First(s, n)))
  BY <1>2, <1>7 DEF S
<1>9. First(s, n) = s
  BY <1>2, <1>3, FirstOf DEF Lists
<1>10. PICK b, c : b = FlattenSeq(s) /\ c = assemble(h, k) /\ c = a \o b /\ Messaged(b)
  BY <1>2, <1>8, <1>9, AssembleIs
<1>11. Messaged(a) /\ Len(a) # 0 /\ Len(a) \in Nat /\ a[1] = Says("system", System)
  BY <1>2, OpeningIs, ListAre DEF Messaged
<1>12. Messaged(c) /\ Appended(c, a, b)
  BY <1>10, <1>11, MessagedBoth
<1>13. Len(c) # 0 /\ c[1] = a[1]
  BY <1>11, <1>12 DEF Appended
<1> QED BY <1>10, <1>11, <1>12, <1>13

-----------------------------------------------------------------------------
(* The Messages API: a message that is no answer begins a group, so what   *)
(* is sent before it and from it on are mapped apart.                      *)
Grouped(c, i) ==
  [j \in DOMAIN c |-> IF j >= i /\ \A n \in i + 1..j : Joins(c, n) THEN Content(c[j]) ELSE <<>>]
MappedAll(c) == [i \in DOMAIN c |-> Mapped(c, i)]

LEMMA GroupedIs ==
  ASSUME NEW c, Messaged(c), NEW i
  PROVE  /\ Lists(Grouped(c, i)) /\ Len(Grouped(c, i)) = Len(c) /\ Group(c, i) = FlattenSeq(Grouped(c, i))
         /\ \A j \in 1..Len(c) :
              Grouped(c, i)[j] = IF j >= i /\ \A n \in i + 1..j : Joins(c, n) THEN Content(c[j]) ELSE <<>>
<1>1. PICK N, s : N \in Nat /\ N = Len(c) /\ DOMAIN c = 1..N /\ s = Grouped(c, i)
  BY ListAre DEF Messaged
<1>2. /\ s = [j \in 1..N |-> s[j]]
      /\ \A j \in 1..N : s[j] = IF j >= i /\ \A n \in i + 1..j : Joins(c, n) THEN Content(c[j]) ELSE <<>>
  BY <1>1 DEF Grouped
<1>3. \A j \in 1..N : List(Content(c[j]))
  BY <1>1 DEF Messaged, Said
<1>4. \A j \in 1..N : List(s[j])
  BY <1>2, <1>3, EmptyList
<1>5. Lists(s) /\ Len(s) = N
  BY <1>1, <1>2, <1>4, ListsOf
<1> QED BY <1>1, <1>2, <1>5 DEF Group, Grouped

LEMMA MappedIs ==
  ASSUME NEW c, Messaged(c)
  PROVE  /\ Lists(MappedAll(c)) /\ Len(MappedAll(c)) = Len(c) /\ map_messages(c) = FlattenSeq(MappedAll(c))
         /\ \A i \in 1..Len(c) : MappedAll(c)[i] = Mapped(c, i)
<1>1. PICK N, s : N \in Nat /\ N = Len(c) /\ DOMAIN c = 1..N /\ s = MappedAll(c)
  BY ListAre DEF Messaged
<1>2. s = [i \in 1..N |-> s[i]] /\ \A i \in 1..N : s[i] = Mapped(c, i)
  BY <1>1 DEF MappedAll
<1>3. \A i \in 1..N : List(Mapped(c, i))
  BY OneList, EmptyList DEF Mapped
<1>4. \A i \in 1..N : List(s[i])
  BY <1>2, <1>3
<1>5. Lists(s) /\ Len(s) = N
  BY <1>1, <1>2, <1>4, ListsOf
<1> QED BY <1>1, <1>2, <1>5 DEF map_messages, MappedAll

(* Two parts of what is sent, of which the second begins a group.          *)
Parted(c, a, b) ==
  /\ Messaged(a) /\ Messaged(b) /\ Messaged(c) /\ Appended(c, a, b)
  /\ Len(b) # 0 /\ b[1].role # "tool"

LEMMA PartedAre ==
  ASSUME NEW c, NEW a, NEW b, Parted(c, a, b)
  PROVE  /\ Len(a) \in Nat /\ Len(b) \in Nat \ {0} /\ Len(c) = Len(a) + Len(b)
         /\ \A i \in 1..Len(a) : c[i] = a[i] /\ (Joins(c, i) <=> Joins(a, i))
         /\ \A i \in 1..Len(b) : c[Len(a) + i] = b[i] /\ (Joins(c, Len(a) + i) <=> Joins(b, i))
         /\ ~Joins(c, Len(a) + 1)
<1>1. PICK A, B : A \in Nat /\ A = Len(a) /\ B \in Nat \ {0} /\ B = Len(b) /\ Len(c) = A + B
  BY DEF Parted, Appended
<1>2. (\A i \in 1..A : c[i] = a[i]) /\ (\A i \in 1..B : c[A + i] = b[i])
  BY <1>1 DEF Parted, Appended
<1>3. ASSUME NEW i \in 1..A PROVE Joins(c, i) <=> Joins(a, i)
  <2>1. i > 1 => i - 1 \in 1..A
    BY <1>1
  <2>2. i > 1 => c[i] = a[i] /\ c[i - 1] = a[i - 1]
    BY <1>2, <2>1
  <2> QED BY <2>2 DEF Joins
<1>4. ~Joins(c, A + 1)
  <2>1. 1 \in 1..B
    BY <1>1
  <2>2. c[A + 1].role # "tool"
    BY <1>2, <2>1 DEF Parted
  <2> QED BY <2>2 DEF Joins
<1>5. ASSUME NEW i \in 1..B PROVE Joins(c, A + i) <=> Joins(b, i)
  <2>1. CASE i = 1
    BY <1>4, <2>1 DEF Joins
  <2>2. CASE i # 1
    <3>1. PICK l : l = i - 1 /\ l \in 1..B /\ A + i - 1 = A + l /\ i > 1 /\ A + i > 1
      <4>1. i - 1 \in 1..B /\ A + i - 1 = A + (i - 1) /\ i > 1 /\ A + i > 1
        BY <1>1, <2>2
      <4> QED BY <4>1
    <3>2. c[A + i] = b[i] /\ c[A + i - 1] = b[i - 1]
      BY <1>2, <3>1
    <3>3. PICK n : n = A + i /\ n > 1 /\ n - 1 = A + l /\ c[n] = b[i] /\ c[n - 1] = b[l]
      <4>1. c[A + i] = b[i] /\ c[A + l] = b[l]
        BY <1>2, <3>1
      <4>2. PICK n : n = A + i
        OBVIOUS
      <4>3. n > 1 /\ n - 1 = A + l
        BY <1>1, <3>1, <4>2
      <4>4. c[n] = b[i] /\ c[n - 1] = b[l]
        BY <4>1, <4>2, <4>3
      <4> QED BY <4>2, <4>3, <4>4
    <3>4. Joins(c, n) <=> c[n].role = "tool" /\ c[n - 1].role = "tool"
      BY <3>3 DEF Joins
    <3>5. Joins(b, i) <=> b[i].role = "tool" /\ b[l].role = "tool"
      BY <3>1 DEF Joins
    <3>6. Joins(c, n) <=> Joins(b, i)
      BY <3>3, <3>4, <3>5
    <3> QED BY <3>3, <3>6
  <2> QED BY <2>1, <2>2
<1> QED BY <1>1, <1>2, <1>3, <1>4, <1>5

LEMMA GroupBefore ==
  ASSUME NEW c, NEW a, NEW b, Parted(c, a, b), NEW i \in 1..Len(a)
  PROVE  Mapped(c, i) = Mapped(a, i)
<1>0. Len(a) \in Nat /\ Len(b) \in Nat \ {0} /\ Len(c) = Len(a) + Len(b)
  BY PartedAre
<1>1. PICK A, B : A \in Nat /\ A = Len(a) /\ B \in Nat /\ B = Len(b) /\ Len(c) = A + B /\ i \in 1..A
  BY <1>0
<1>2. /\ \A j \in 1..A : c[j] = a[j] /\ (Joins(c, j) <=> Joins(a, j))
      /\ ~Joins(c, A + 1)
  BY <1>1, PartedAre
<1>3. PICK s, t : s = Grouped(a, i) /\ t = Grouped(c, i)
  OBVIOUS
<1>4. Lists(s) /\ Len(s) = A /\ Group(a, i) = FlattenSeq(s)
      /\ \A j \in 1..A : s[j] = IF j >= i /\ \A n \in i + 1..j : Joins(a, n) THEN Content(a[j]) ELSE <<>>
  BY <1>1, <1>3, GroupedIs DEF Parted
<1>5. Lists(t) /\ Len(t) = A + B /\ Group(c, i) = FlattenSeq(t)
      /\ \A j \in 1..A + B : t[j] = IF j >= i /\ \A n \in i + 1..j : Joins(c, n) THEN Content(c[j]) ELSE <<>>
  BY <1>1, <1>3, GroupedIs DEF Parted
<1>6. ASSUME NEW j \in 1..A PROVE t[j] = s[j]
  <2>1. j \in 1..A + B
    BY <1>1
  <2>2. (\A n \in i + 1..j : Joins(c, n)) <=> (\A n \in i + 1..j : Joins(a, n))
    <3>1. \A n \in i + 1..j : n \in 1..A
      BY <1>1
    <3> QED BY <1>2, <3>1
  <2> QED BY <1>2, <1>4, <1>5, <2>1, <2>2
<1>7. ASSUME NEW j \in A + 1..A + B PROVE t[j] = <<>>
  <2>1. A + 1 \in i + 1..j /\ j \in 1..A + B
    BY <1>1
  <2> QED BY <1>2, <1>5, <2>1
<1>8. FlattenSeq(t) = FlattenSeq(First(t, A))
  <2>1. A \in 0..Len(t) /\ \A j \in A + 1..Len(t) : t[j] = <<>>
    BY <1>1, <1>5, <1>7
  <2> QED BY <1>5, <2>1, FlattenTail
<1>9. First(t, A) = s
  <2>1. First(t, A) = [j \in 1..A |-> s[j]]
    BY <1>6 DEF First
  <2>2. s = [j \in 1..A |-> s[j]]
    BY <1>4, ListAre DEF Lists
  <2> QED BY <2>1, <2>2
<1>10. Group(c, i) = Group(a, i)
  BY <1>4, <1>5, <1>8, <1>9
<1> QED BY <1>1, <1>2, <1>10 DEF Mapped

LEMMA GroupAfter ==
  ASSUME NEW c, NEW a, NEW b, Parted(c, a, b), NEW i \in 1..Len(b)
  PROVE  Mapped(c, Len(a) + i) = Mapped(b, i)
<1>0. Len(a) \in Nat /\ Len(b) \in Nat \ {0} /\ Len(c) = Len(a) + Len(b)
  BY PartedAre
<1>1. PICK A, B, p : A \in Nat /\ A = Len(a) /\ B \in Nat /\ B = Len(b) /\ Len(c) = A + B /\ i \in 1..B /\ p = A + i
  BY <1>0
<1>2. \A j \in 1..B : c[A + j] = b[j] /\ (Joins(c, A + j) <=> Joins(b, j))
  BY <1>1, PartedAre
<1>3. PICK s, t, u : s = Grouped(b, i) /\ t = Grouped(c, p) /\ u = First(t, A)
  OBVIOUS
<1>4. Lists(s) /\ Len(s) = B /\ Group(b, i) = FlattenSeq(s)
      /\ \A j \in 1..B : s[j] = IF j >= i /\ \A n \in i + 1..j : Joins(b, n) THEN Content(b[j]) ELSE <<>>
  BY <1>1, <1>3, GroupedIs DEF Parted
<1>5. Lists(t) /\ Len(t) = A + B /\ Group(c, p) = FlattenSeq(t)
      /\ \A j \in 1..A + B : t[j] = IF j >= p /\ \A n \in p + 1..j : Joins(c, n) THEN Content(c[j]) ELSE <<>>
  BY <1>1, <1>3, GroupedIs DEF Parted
<1>6. ASSUME NEW j \in 1..B PROVE t[A + j] = s[j]
  <2>1. A + j \in 1..A + B /\ (A + j >= p <=> j >= i)
    BY <1>1
  <2>2. (\A n \in p + 1..A + j : Joins(c, n)) <=> (\A n \in i + 1..j : Joins(b, n))
    <3>1. ASSUME NEW n \in i + 1..j, \A l \in p + 1..A + j : Joins(c, l) PROVE Joins(b, n)
      <4>1. A + n \in p + 1..A + j /\ n \in 1..B
        BY <1>1
      <4> QED BY <1>2, <3>1, <4>1
    <3>2. ASSUME NEW n \in p + 1..A + j, \A l \in i + 1..j : Joins(b, l) PROVE Joins(c, n)
      <4>1. PICK l : l \in i + 1..j /\ l \in 1..B /\ n = A + l
        <5>1. n - A \in i + 1..j /\ n - A \in 1..B /\ n = A + (n - A)
          BY <1>1
        <5> QED BY <5>1
      <4> QED BY <1>2, <3>2, <4>1
    <3> QED BY <3>1, <3>2
  <2> QED BY <1>2, <1>4, <1>5, <2>1, <2>2
<1>7. Lists(u) /\ Len(u) = A /\ \A j \in 1..A : u[j] = <<>>
  <2>1. A \in 0..Len(t)
    BY <1>1, <1>5
  <2>2. Lists(u) /\ Len(u) = A
    BY <1>3, <1>5, <2>1, FirstLists
  <2>3. \A j \in 1..A : u[j] = t[j]
    BY <1>3 DEF First
  <2>4. \A j \in 1..A : j \in 1..A + B /\ ~(j >= p)
    BY <1>1
  <2> QED BY <1>5, <2>2, <2>3, <2>4
<1>8. Appended(t, u, s)
  <2>1. \A j \in 1..A : t[j] = u[j]
    BY <1>3 DEF First
  <2> QED BY <1>1, <1>4, <1>5, <1>6, <1>7, <2>1 DEF Appended, Lists
<1>9. FlattenSeq(t) = FlattenSeq(u) \o FlattenSeq(s)
  BY <1>4, <1>7, <1>8, FlattenConcat
<1>10. FlattenSeq(u) = <<>> /\ List(FlattenSeq(s))
  BY <1>4, <1>7, FlattenEmpty, FlattenList DEF Lists
<1>11. Group(c, p) = Group(b, i)
  BY <1>4, <1>5, <1>9, <1>10, ConcatEmpty
<1> QED BY <1>1, <1>2, <1>11 DEF Mapped

LEMMA MapConcat ==
  ASSUME NEW c, NEW a, NEW b, Parted(c, a, b)
  PROVE  map_messages(c) = map_messages(a) \o map_messages(b)
<1>0. Len(a) \in Nat /\ Len(b) \in Nat \ {0} /\ Len(c) = Len(a) + Len(b)
  BY PartedAre
<1>1. PICK A, B : A \in Nat /\ A = Len(a) /\ B \in Nat /\ B = Len(b) /\ Len(c) = A + B
  BY <1>0
<1>2. PICK s, t, u : s = MappedAll(a) /\ t = MappedAll(b) /\ u = MappedAll(c)
  OBVIOUS
<1>3. /\ Lists(s) /\ Len(s) = A /\ map_messages(a) = FlattenSeq(s) /\ \A i \in 1..A : s[i] = Mapped(a, i)
      /\ Lists(t) /\ Len(t) = B /\ map_messages(b) = FlattenSeq(t) /\ \A i \in 1..B : t[i] = Mapped(b, i)
  BY <1>1, <1>2, MappedIs DEF Parted
<1>4. Lists(u) /\ Len(u) = A + B /\ map_messages(c) = FlattenSeq(u) /\ \A i \in 1..A + B : u[i] = Mapped(c, i)
  BY <1>1, <1>2, MappedIs DEF Parted
<1>5. \A i \in 1..A : u[i] = s[i]
  <2>1. \A i \in 1..A : i \in 1..A + B
    BY <1>1
  <2> QED BY <1>1, <1>3, <1>4, <2>1, GroupBefore
<1>6. \A i \in 1..B : u[A + i] = t[i]
  <2>1. \A i \in 1..B : A + i \in 1..A + B
    BY <1>1
  <2> QED BY <1>1, <1>3, <1>4, <2>1, GroupAfter
<1>7. Appended(u, s, t)
  BY <1>1, <1>3, <1>4, <1>5, <1>6 DEF Appended, Lists
<1> QED BY <1>3, <1>4, <1>7, FlattenConcat

-----------------------------------------------------------------------------
(* What is sent of a history with one more entry.                          *)
LEMMA SentParts ==
  ASSUME NEW h, Recounts(h), NEW k \in 0..Len(h), NEW e, Entered(e)
  PROVE  Parted(assemble(Append(h, e), k), assemble(h, k), EntryMessages(e))
<1>1. PICK a, b, c : a = assemble(h, k) /\ b = EntryMessages(e) /\ c = a \o b /\ c = assemble(Append(h, e), k)
  BY AssembleGrows
<1>2. Messaged(a) /\ Messaged(b) /\ Len(b) # 0 /\ b[1].role # "tool"
  BY <1>1, AssembleMessaged, EntrySaid DEF Segment
<1>3. Messaged(c) /\ Appended(c, a, b)
  BY <1>1, <1>2, MessagedBoth
<1> QED BY <1>1, <1>2, <1>3 DEF Parted

(* In the format of the gateway.                                           *)
LEMMA WireParts ==
  ASSUME NEW h, Recounts(h), NEW k \in 0..Len(h), NEW e, Entered(e)
  PROVE  Appended(Wire(assemble(Append(h, e), k)), Wire(assemble(h, k)), Wire(EntryMessages(e)))
<1>1. PICK a, b, c : /\ a = assemble(h, k) /\ b = EntryMessages(e) /\ c = assemble(Append(h, e), k)
                     /\ Parted(c, a, b)
  BY SentParts
<1>2. CASE format = "openai"
  BY <1>1, <1>2 DEF Parted, Wire
<1>3. CASE format # "openai"
  <2>1. List(map_messages(a)) /\ List(map_messages(b))
    BY <1>1, MappedIs, FlattenList DEF Parted
  <2>0. Parted(c, a, b)
    BY <1>1
  <2>2. map_messages(c) = map_messages(a) \o map_messages(b)
    BY <2>0, MapConcat
  <2>3. Appended(map_messages(a) \o map_messages(b), map_messages(a), map_messages(b))
    BY <2>1, ListConcat
  <2>4. Appended(map_messages(c), map_messages(a), map_messages(b))
    BY <2>2, <2>3
  <2> QED BY <1>1, <1>3, <2>4 DEF Wire
<1> QED BY <1>2, <1>3

(* A group of one message, and a group of answers.                         *)
LEMMA GroupApart ==
  ASSUME NEW c, Messaged(c), NEW i \in 1..Len(c), i < Len(c) => ~Joins(c, i + 1)
  PROVE  Group(c, i) = Content(c[i]) /\ List(Content(c[i]))
<1>1. PICK N, s : N \in Nat /\ N = Len(c) /\ s = Grouped(c, i) /\ i \in 1..N
  BY ListAre DEF Messaged
<1>2. Lists(s) /\ Len(s) = N /\ Group(c, i) = FlattenSeq(s)
      /\ \A j \in 1..N : s[j] = IF j >= i /\ \A n \in i + 1..j : Joins(c, n) THEN Content(c[j]) ELSE <<>>
  BY <1>1, GroupedIs
<1>3. s[i] = Content(c[i])
  <2>1. i >= i /\ i + 1..i = {}
    BY <1>1
  <2> QED BY <1>1, <1>2, <2>1
<1>4. ASSUME NEW j \in 1..N, j # i PROVE s[j] = <<>>
  <2>1. CASE j < i
    <3>1. ~(j >= i)
      BY <1>1, <2>1
    <3> QED BY <1>2, <3>1
  <2>2. CASE j > i
    <3>1. i + 1 \in i + 1..j /\ i < Len(c)
      BY <1>1, <2>2
    <3>2. ~Joins(c, i + 1)
      BY <3>1
    <3> QED BY <1>2, <3>1, <3>2
  <2> QED BY <1>1, <1>4, <2>1, <2>2
<1>5. Lists(<<Content(c[i])>>) /\ FlattenSeq(<<Content(c[i])>>) = Content(c[i]) /\ List(Content(c[i]))
  BY <1>1, FlattenOne DEF Messaged, Said
<1>6. PICK t : t = <<Content(c[i])>>
  OBVIOUS
<1>7. t[1] = s[i] /\ Len(t) = 1 /\ Lists(t)
  BY <1>3, <1>5, <1>6, OneList
<1>8. Ranks(t, s, {i})
  <2>1. Places({i}, N)
    BY <1>1 DEF Places
  <2>2. Rank({i}, i) = 1 /\ Cardinality({i}) = 1
    <3>1. {q \in {i} : q <= i} = {i}
      BY <1>1
    <3> QED BY <3>1, FS_Singleton DEF Rank
  <2>3. \A j \in {i} : t[Rank({i}, j)] = s[j]
    <3>1. t[Rank({i}, i)] = s[i]
      BY <1>7, <2>2
    <3> QED BY <3>1
  <2>4. {i} \subseteq 1..Len(s) /\ Len(t) = Cardinality({i}) /\ List(t) /\ List(s)
    BY <1>1, <1>2, <1>7, <2>2 DEF Lists
  <2> QED BY <2>3, <2>4 DEF Ranks
<1>9. FlattenSeq(t) = FlattenSeq(s)
  <2>1. \A j \in 1..Len(s) : j \notin {i} => s[j] = <<>>
    BY <1>2, <1>4
  <2> QED BY <1>2, <1>7, <1>8, <2>1, FlattenRanked
<1> QED BY <1>2, <1>5, <1>6, <1>9

(* The mapped messages of an entry.  Those of calls are two: what is said  *)
(* with the calls, and all the answers.                                    *)
Answering(e) == [i \in DOMAIN e.results |-> ToolResult(ToolResults(e)[i])]
ToolMapped(e) ==
  <<[role |-> "assistant", content |-> AssistantContent(Assistant(e))],
    [role |-> "user", content |-> Answering(e)]>>

LEMMA AnsweringIs ==
  ASSUME NEW e, ToolEntry(e)
  PROVE  /\ List(Answering(e)) /\ Len(Answering(e)) = Len(e.calls) /\ Len(e.calls) \in Nat \ {0}
         /\ \A i \in 1..Len(e.calls) : Answering(e)[i] = ToolResult(ToolResults(e)[i])
<1>1. PICK N, s : N \in Nat \ {0} /\ N = Len(e.calls) /\ DOMAIN e.results = 1..N /\ s = Answering(e)
  BY ListAre DEF ToolEntry
<1>2. s = [i \in 1..N |-> s[i]] /\ \A i \in 1..N : s[i] = ToolResult(ToolResults(e)[i])
  BY <1>1 DEF Answering
<1>3. List(s) /\ Len(s) = N
  BY <1>1, <1>2, ListOf
<1> QED BY <1>1, <1>2, <1>3

LEMMA TwoOnes ==
  ASSUME NEW v, NEW w
  PROVE  <<v>> \o <<w>> = <<v, w>> /\ List(<<v, w>>) /\ Len(<<v, w>>) = 2
<1>1. PICK t : t = <<v, w>>
  OBVIOUS
<1>2. t = [i \in 1..2 |-> t[i]] /\ t[1] = v /\ t[2] = w
  BY <1>1
<1>3. List(t) /\ Len(t) = 2
  BY <1>2, ListOf
<1>4. PICK a, b : /\ a = <<v>> /\ List(a) /\ Len(a) = 1 /\ a[1] = v
                  /\ b = <<w>> /\ List(b) /\ Len(b) = 1 /\ b[1] = w
  BY OneList
<1>5. Appended(a \o b, a, b)
  BY <1>4, ListConcat
<1>6. \A i \in 1..1 : i = 1 /\ 1 + i = 2
  OBVIOUS
<1>7. Appended(t, a, b)
  <2>1. t[1] = a[1] /\ t[1 + 1] = b[1] /\ Len(t) = Len(a) + Len(b)
    BY <1>2, <1>3, <1>4
  <2>2. (\A i \in 1..Len(a) : t[i] = a[i]) /\ (\A i \in 1..Len(b) : t[Len(a) + i] = b[i])
    BY <1>4, <1>6, <2>1
  <2> QED BY <1>3, <1>4, <2>1, <2>2 DEF Appended
<1>8. t = a \o b
  BY <1>5, <1>7, AppendedOnce
<1> QED BY <1>1, <1>3, <1>4, <1>8

LEMMA MapOne ==
  ASSUME NEW m, Said(m), m.role \in {"user", "assistant"}
  PROVE  /\ Content(m) = <<>> => map_messages(<<m>>) = <<>>
         /\ Content(m) # <<>> => map_messages(<<m>>) = <<[role |-> WireRole(m), content |-> Content(m)]>>
<1>1. PICK c, s : c = <<m>> /\ s = MappedAll(c) /\ Messaged(c) /\ Len(c) = 1 /\ c[1] = m
  BY MessagedOne
<1>2. Lists(s) /\ Len(s) = 1 /\ map_messages(c) = FlattenSeq(s) /\ s[1] = Mapped(c, 1)
  BY <1>1, MappedIs
<1>3. Group(c, 1) = Content(m)
  <2>1. 1 \in 1..Len(c) /\ ~(1 < Len(c))
    BY <1>1
  <2> QED BY <1>1, <2>1, GroupApart
<1>4. ~Joins(c, 1)
  BY DEF Joins
<1>5. s[1] = IF Content(m) = <<>> THEN <<>> ELSE <<[role |-> WireRole(m), content |-> Content(m)]>>
  BY <1>1, <1>2, <1>3, <1>4 DEF Mapped
<1>6. s = <<s[1]>>
  <2>1. PICK t : t = <<s[1]>> /\ List(t) /\ Len(t) = 1 /\ t[1] = s[1]
    BY OneList
  <2>2. \A i \in 1..1 : i = 1
    OBVIOUS
  <2> QED BY <1>2, <2>1, <2>2, ListsEqual DEF Lists
<1>7. FlattenSeq(s) = s[1]
  <2>1. PICK x : x = s[1] /\ List(x) /\ s = <<x>>
    BY <1>2, <1>6 DEF Lists
  <2>2. FlattenSeq(<<x>>) = x
    BY <2>1, FlattenOne
  <2> QED BY <2>1, <2>2
<1> QED BY <1>1, <1>2, <1>5, <1>7

(* What is said with calls is not nothing.                                 *)
LEMMA AssistantSays ==
  ASSUME NEW e, ToolEntry(e)
  PROVE  /\ AssistantContent(Assistant(e)) # <<>> /\ List(AssistantContent(Assistant(e)))
         /\ AssistantContent(Assistant(e))
              = e.replay \o NonBlank(e.text) \o [i \in DOMAIN e.calls |-> ToolUse(e.calls[i])]
<1>1. PICK u, t, r : /\ u = [i \in DOMAIN e.calls |-> ToolUse(e.calls[i])]
                     /\ t = NonBlank(e.text) /\ r = e.replay
  OBVIOUS
<1>2. AssistantContent(Assistant(e)) = r \o t \o u
  BY <1>1 DEF AssistantContent, Assistant, ChatMessage
<1>3. List(u) /\ Len(u) = Len(e.calls) /\ Len(e.calls) \in Nat \ {0}
  <2>1. PICK N : N \in Nat /\ N = Len(e.calls) /\ DOMAIN e.calls = 1..N /\ N # 0
    BY ListAre DEF ToolEntry
  <2>2. u = [i \in 1..N |-> u[i]]
    BY <1>1, <2>1
  <2>3. List(u) /\ Len(u) = N
    BY <2>1, <2>2, ListOf
  <2> QED BY <2>1, <2>3
<1>4. List(t) /\ List(r)
  BY <1>1, NonBlankIs DEF ToolEntry
<1>5. PICK p : p = r \o t /\ List(p)
  BY <1>4, ConcatLists
<1>6. PICK q : q = p \o u /\ List(q) /\ Appended(q, p, u)
  BY <1>3, <1>5, ListConcat, ConcatLists
<1>7. Len(q) # 0 /\ Len(<<>>) = 0
  <2>1. Len(q) = Len(p) + Len(u) /\ Len(p) \in Nat
    BY <1>5, <1>6, ListAre DEF Appended
  <2> QED BY <1>3, <2>1, EmptyList
<1> QED BY <1>1, <1>2, <1>5, <1>6, <1>7

LEMMA GroupAnswers ==
  ASSUME NEW e, ToolEntry(e), NEW c, Messaged(c), Len(c) = Len(e.calls) + 1,
         \A j \in 2..Len(c) : c[j] = ToolResults(e)[j - 1] /\ c[j].role = "tool",
         \A j \in 3..Len(c) : Joins(c, j)
  PROVE  Group(c, 2) = Answering(e)
<1>0. Len(e.calls) \in Nat \ {0}
  BY AnsweringIs
<1>1. PICK N, M, y, s : /\ N \in Nat \ {0} /\ N = Len(e.calls) /\ M = N + 1 /\ M = Len(c)
                        /\ y = Answering(e) /\ s = Grouped(c, 2)
  BY <1>0
<1>2. List(y) /\ Len(y) = N /\ \A i \in 1..N : y[i] = ToolResult(ToolResults(e)[i])
  BY <1>1, AnsweringIs
<1>3. Lists(s) /\ Len(s) = M /\ Group(c, 2) = FlattenSeq(s)
      /\ \A j \in 1..M : s[j] = IF j >= 2 /\ \A n \in 2 + 1..j : Joins(c, n) THEN Content(c[j]) ELSE <<>>
  BY <1>1, GroupedIs
<1>4. PICK t : t = [i \in 1..N |-> <<y[i]>>] /\ \A i \in 1..N : t[i] = <<y[i]>>
  <2> DEFINE t == [i \in 1..N |-> <<y[i]>>]
  <2>1. t = [i \in 1..N |-> <<y[i]>>] /\ \A i \in 1..N : t[i] = <<y[i]>>
    OBVIOUS
  <2> QED BY <2>1
<1>5. Lists(t) /\ Len(t) = N
  <2>1. t = [i \in 1..N |-> t[i]] /\ \A i \in 1..N : List(t[i])
    BY <1>4, OneList
  <2>2. N \in Nat
    BY <1>1
  <2> QED BY <2>1, <2>2, ListsOf
<1>6. FlattenSeq(t) = y
  <2>1. List(t) /\ Len(t) = Len(y) /\ \A i \in 1..Len(y) : t[i] = <<y[i]>>
    BY <1>2, <1>4, <1>5 DEF Lists
  <2> QED BY <1>2, <2>1, FlattenSingles
<1>7. PICK x, u : x = <<>> /\ u = <<x>> /\ Lists(u) /\ Len(u) = 1 /\ u[1] = x /\ FlattenSeq(u) = x
  <2>1. PICK x : x = <<>> /\ List(x)
    BY EmptyList
  <2>2. Lists(<<x>>) /\ Len(<<x>>) = 1 /\ <<x>>[1] = x /\ FlattenSeq(<<x>>) = x
    BY <2>1, FlattenOne, OneList
  <2> QED BY <2>1, <2>2
<1>8. s[1] = <<>>
  BY <1>1, <1>3
<1>9. ASSUME NEW i \in 1..N PROVE s[1 + i] = t[i]
  <2>1. PICK j : j = 1 + i /\ j \in 2..M /\ j \in 1..M /\ j - 1 = i /\ j >= 2
    <3>1. 1 + i \in 2..M /\ 1 + i \in 1..M /\ (1 + i) - 1 = i /\ 1 + i >= 2
      BY <1>1
    <3> QED BY <3>1
  <2>2. \A n \in 2 + 1..j : n \in 3..M
    BY <1>1, <2>1
  <2>3. s[j] = Content(c[j])
    BY <1>1, <1>3, <2>1, <2>2
  <2>4. c[j].role = "tool" /\ c[j] = ToolResults(e)[i]
    BY <1>1, <2>1
  <2>5. Content(c[j]) = <<ToolResult(c[j])>>
    BY <2>4 DEF Content
  <2> QED BY <1>2, <1>4, <2>1, <2>3, <2>4, <2>5
<1>10. Appended(s, u, t)
  <2>1. \A j \in 1..1 : j = 1
    OBVIOUS
  <2> QED BY <1>1, <1>3, <1>5, <1>7, <1>8, <1>9, <2>1 DEF Appended, Lists
<1>11. FlattenSeq(s) = FlattenSeq(u) \o FlattenSeq(t)
  BY <1>5, <1>7, <1>10, FlattenConcat
<1>12. <<>> \o y = y
  BY <1>2, ConcatEmpty
<1> QED BY <1>1, <1>3, <1>6, <1>7, <1>11, <1>12

(* The answers alone: one message.                                         *)
LEMMA MapAnswers ==
  ASSUME NEW e, ToolEntry(e), NEW c, NEW a, NEW b, a = <<Assistant(e)>>, b = ToolResults(e), Appended(c, a, b)
  PROVE  map_messages(c) = ToolMapped(e)
<1>1. PICK N, M, x, y :
        /\ N \in Nat \ {0} /\ N = Len(e.calls) /\ M = N + 1
        /\ x = AssistantContent(Assistant(e)) /\ y = Answering(e)
  BY AnsweringIs
<1>2. Messaged(b) /\ Len(b) = N /\ \A i \in 1..N : b[i].role = "tool"
  BY <1>1, ResultsAre
<1>3. Messaged(a) /\ Len(a) = 1 /\ a[1] = Assistant(e) /\ Assistant(e).role = "assistant" /\ Said(Assistant(e))
  <2>1. Assistant(e).role = "assistant" /\ List(Assistant(e).replay) /\ List(Assistant(e).calls)
    BY DEF Assistant, ChatMessage, ToolEntry
  <2> QED BY <2>1, ContentOf, MessagedOne
<1>4. Messaged(c) /\ Len(c) = M /\ c[1] = Assistant(e) /\ \A i \in 1..N : c[1 + i] = b[i]
  <2>1. Messaged(c)
    BY <1>2, <1>3, MessagedConcat
  <2>2. 1 \in 1..Len(a) /\ Len(c) = 1 + N
    BY <1>2, <1>3 DEF Appended
  <2>3. c[1] = a[1] /\ \A i \in 1..N : c[1 + i] = b[i]
    BY <1>2, <1>3, <2>2 DEF Appended
  <2> QED BY <1>1, <1>3, <2>1, <2>2, <2>3
<1>5. \A j \in 2..M : c[j] = b[j - 1] /\ c[j].role = "tool" /\ j - 1 \in 1..N
  <2>1. \A j \in 2..M : j - 1 \in 1..N /\ 1 + (j - 1) = j
    BY <1>1
  <2> QED BY <1>2, <1>4, <2>1
<1>6. ~Joins(c, 1) /\ ~Joins(c, 2) /\ \A j \in 3..M : Joins(c, j)
  <2>1. ~Joins(c, 2)
    BY <1>3, <1>4 DEF Joins
  <2>2. \A j \in 3..M : j \in 2..M /\ j - 1 \in 2..M /\ j > 1
    BY <1>1
  <2> QED BY <1>5, <2>1, <2>2 DEF Joins
<1>7. PICK s : s = MappedAll(c) /\ Lists(s) /\ Len(s) = M /\ map_messages(c) = FlattenSeq(s)
               /\ \A i \in 1..M : s[i] = Mapped(c, i)
  BY <1>4, MappedIs
<1>8. s[1] = <<[role |-> "assistant", content |-> x]>>
  <2>1. 1 \in 1..M /\ 1 + 1 = 2
    BY <1>1
  <2>2. Group(c, 1) = Content(c[1])
    <3>1. ~Joins(c, 2) /\ 1 \in 1..Len(c)
      BY <1>4, <1>6, <2>1
    <3> QED BY <1>4, <3>1, GroupApart
  <2>3. Content(c[1]) = x
    BY <1>1, <1>3, <1>4 DEF Content
  <2>4. x # <<>>
    BY <1>1, AssistantSays
  <2>5. Mapped(c, 1) = <<[role |-> WireRole(c[1]), content |-> Group(c, 1)]>>
    BY <1>3, <1>4, <1>6, <2>2, <2>3, <2>4 DEF Mapped
  <2> QED BY <1>3, <1>4, <1>7, <2>1, <2>2, <2>3, <2>5 DEF WireRole
<1>9. s[2] = <<[role |-> "user", content |-> y]>>
  <2>1. 2 \in 1..M /\ 2 \in 2..M
    BY <1>1
  <2>2. Group(c, 2) = y
    BY <1>1, <1>4, <1>5, <1>6, GroupAnswers
  <2>3. y # <<>> /\ c[2].role = "tool"
    BY <1>1, <1>5, <2>1, AnsweringIs, EmptyList
  <2>4. Mapped(c, 2) = <<[role |-> WireRole(c[2]), content |-> Group(c, 2)]>>
    BY <1>6, <2>2, <2>3 DEF Mapped
  <2> QED BY <1>7, <2>1, <2>2, <2>3, <2>4 DEF WireRole
<1>10. \A j \in 3..M : s[j] = <<>>
  <2>1. \A j \in 3..M : j \in 1..M
    BY <1>1
  <2> QED BY <1>6, <1>7, <2>1 DEF Mapped
<1>11. FlattenSeq(s) = FlattenSeq(First(s, 2))
  <2>1. 2 \in 0..Len(s) /\ \A j \in 2 + 1..Len(s) : s[j] = <<>>
    BY <1>1, <1>7, <1>10
  <2> QED BY <1>7, <2>1, FlattenTail
<1>12. FlattenSeq(First(s, 2)) = s[1] \o s[2]
  <2>1. 2 <= Len(s) /\ 1 <= Len(s) /\ 2 = 1 + 1 /\ 1 = 0 + 1
    BY <1>1, <1>7
  <2>2. FlattenSeq(First(s, 2)) = FlattenSeq(First(s, 1)) \o s[2]
    BY <1>7, <2>1, FlattenFirst
  <2>3. FlattenSeq(First(s, 1)) = FlattenSeq(First(s, 0)) \o s[1] /\ List(s[1])
    BY <1>7, <2>1, FlattenFirst
  <2>4. First(s, 0) = <<>>
    BY <1>7, FirstOf DEF Lists
  <2>5. FlattenSeq(First(s, 1)) = s[1]
    BY <2>3, <2>4, FlattenNone, ConcatEmpty
  <2> QED BY <2>2, <2>5
<1>13. PICK v, w : v = [role |-> "assistant", content |-> x] /\ w = [role |-> "user", content |-> y]
  OBVIOUS
<1>14. <<v>> \o <<w>> = <<v, w>>
  BY TwoOnes
<1> QED BY <1>1, <1>7, <1>8, <1>9, <1>11, <1>12, <1>13, <1>14 DEF ToolMapped

-----------------------------------------------------------------------------
(* The elements of some types, and where they come from.                   *)
TypePlaces(s, types) == {i \in 1..Len(s) : s[i].type \in types}
From(t, s, K) == Ranks(t, s, K) /\ \A k \in 1..Len(t) : \E p \in K : Rank(K, p) = k /\ t[k] = s[p]

LEMMA OfTypeFrom ==
  ASSUME NEW s, List(s), NEW types
  PROVE  /\ From(OfType(s, types), s, TypePlaces(s, types))
         /\ OfType(s, types) = Selected(s, TypePlaces(s, types))
<1>0. PICK K : K = TypePlaces(s, types)
  OBVIOUS
<1>1. DOMAIN s = 1..Len(s) /\ K \subseteq 1..Len(s)
  BY <1>0, ListAre DEF TypePlaces
<1>2. PICK t : t = OfType(s, types) /\ t = Selected(s, K)
  BY <1>0, <1>1 DEF OfType, TypePlaces
<1>3. List(t) /\ Len(t) = Cardinality(K) /\ \A i \in K : t[Rank(K, i)] = s[i]
  BY <1>1, <1>2, SelectedAt
<1>4. Ranks(t, s, K)
  BY <1>1, <1>3 DEF Ranks
<1>5. \A k \in 1..Len(t) : \E p \in K : Rank(K, p) = k
  <2>1. Places(K, Len(s))
    BY <1>1, ListAre DEF Places
  <2> QED BY <1>3, <2>1, RankOnto
<1>6. \A k \in 1..Len(t) : \E p \in K : Rank(K, p) = k /\ t[k] = s[p]
  BY <1>3, <1>5
<1> QED BY <1>0, <1>2, <1>4, <1>6 DEF From

(* The calls of a reply: an id is of one, or of none.                      *)
Asked(calls) ==
  /\ List(calls)
  /\ \A i \in 1..Len(calls) :
       /\ calls[i] = [id |-> calls[i].id, name |-> calls[i].name, arguments |-> calls[i].arguments]
       /\ List(calls[i].arguments) /\ Len(calls[i].id) <= 1
  /\ \A i, j \in 1..Len(calls) : calls[i].id = calls[j].id => i = j \/ calls[i].id = <<>>

LEMMA AskedOf ==
  ASSUME NEW f, NEW m, f \in DOMAIN Messages, m \in Messages[f]
  PROVE  Asked(Requests(OfType(m.blocks, {"tool_use"})))
<1>1. PICK s, T, K, t, r :
        /\ s = m.blocks /\ T = {"tool_use"} /\ K = TypePlaces(s, T)
        /\ t = OfType(s, T) /\ r = Requests(t)
  OBVIOUS
<1>2. List(m.blocks) /\ DOMAIN m.blocks = 1..Len(m.blocks)
      /\ \A p \in 1..Len(m.blocks) : List(m.blocks[p].text)
  BY BlocksAre
<1>0. List(s) /\ From(OfType(s, T), s, TypePlaces(s, T))
  BY <1>1, <1>2, OfTypeFrom
<1>3. Ranks(t, s, K) /\ \A k \in 1..Len(t) : \E p \in K : Rank(K, p) = k /\ t[k] = s[p]
  BY <1>0, <1>1 DEF From
<1>4. PICK n : n \in Nat /\ n = Len(t) /\ DOMAIN t = 1..n
  BY <1>3, ListAre DEF Ranks
<1>5. r = [i \in 1..n |-> r[i]] /\ \A i \in 1..n : r[i] = Requested(t[i])
  BY <1>1, <1>4 DEF Requests
<1>6. List(r) /\ Len(r) = n
  BY <1>4, <1>5, ListOf
<1>7. Wellformed(m) /\ K = CallBlocks(m)
  <2>1. Wellformed(m)
    BY GatewayAssumption
  <2> QED BY <1>1, <1>2, <2>1 DEF CallBlocks, TypePlaces
<1>8. ASSUME NEW i \in 1..n
      PROVE  /\ r[i] = [id |-> r[i].id, name |-> r[i].name, arguments |-> r[i].arguments]
             /\ List(r[i].arguments) /\ Len(r[i].id) <= 1
  <2>1. PICK p \in K : t[i] = m.blocks[p]
    BY <1>1, <1>3, <1>4
  <2>2. PICK b, a : b = m.blocks[p] /\ a = (IF b.text = <<>> THEN NoArguments ELSE b.text)
    OBVIOUS
  <2>3. r[i] = [id |-> b.id, name |-> b.name, arguments |-> a]
    BY <1>5, <2>1, <2>2 DEF Requested
  <2>4. List(b.text) /\ Len(b.id) <= 1
    <3>1. p \in 1..Len(m.blocks) /\ p \in CallBlocks(m)
      BY <1>1, <1>7 DEF TypePlaces
    <3>2. Len(m.blocks[p].id) <= 1
      BY <1>7, <3>1 DEF Wellformed
    <3> QED BY <1>2, <2>2, <3>1, <3>2
  <2>5. List(NoArguments)
    BY OneList DEF NoArguments
  <2> QED BY <2>2, <2>3, <2>4, <2>5
<1>9. ASSUME NEW i \in 1..n, NEW j \in 1..n, r[i].id = r[j].id, r[i].id # <<>> PROVE i = j
  <2>1. PICK p \in K, q \in K : Rank(K, p) = i /\ t[i] = m.blocks[p] /\ Rank(K, q) = j /\ t[j] = m.blocks[q]
    BY <1>1, <1>3, <1>4
  <2>2. r[i].id = m.blocks[p].id /\ r[j].id = m.blocks[q].id
    BY <1>5, <2>1 DEF Requested
  <2>3. p = q
    BY <1>7, <1>9, <2>2 DEF Wellformed
  <2> QED BY <2>1, <2>3
<1>10. Asked(r)
  BY <1>6, <1>8, <1>9 DEF Asked
<1> QED BY <1>1, <1>10

(* The ids that are made up are of two parts, the others of one at most.   *)
Resolved(r, calls) ==
  /\ List(r) /\ Len(r) = Len(calls)
  /\ \A i \in 1..Len(calls) : r[i].arguments = calls[i].arguments
  /\ \A i, j \in 1..Len(calls) : r[i].id = r[j].id => i = j

LEMMA ResolvedAre ==
  ASSUME NEW calls, Asked(calls)
  PROVE  Resolved(resolve_call_ids(calls), calls)
<1>1. PICK n, r : n \in Nat /\ n = Len(calls) /\ DOMAIN calls = 1..n /\ r = resolve_call_ids(calls)
  BY ListAre DEF Asked
<1>2. /\ r = [i \in 1..n |-> r[i]]
      /\ \A i \in 1..n : r[i] = IF calls[i].id = <<>> THEN [calls[i] EXCEPT !.id = <<turn, i>>] ELSE calls[i]
  BY <1>1 DEF resolve_call_ids
<1>3. List(r) /\ Len(r) = n
  BY <1>1, <1>2, ListOf
<1>4. ASSUME NEW i \in 1..n
      PROVE  /\ r[i].arguments = calls[i].arguments
             /\ r[i].id = IF calls[i].id = <<>> THEN <<turn, i>> ELSE calls[i].id
  <2>1. PICK x, y, z : calls[i] = [id |-> x, name |-> y, arguments |-> z]
    BY <1>1 DEF Asked
  <2>2. calls[i].id = x /\ calls[i].arguments = z
    BY <2>1
  <2>3. CASE x = <<>>
    <3>1. PICK w : w = <<turn, i>>
      OBVIOUS
    <3>2. r[i] = [calls[i] EXCEPT !.id = w]
      BY <1>2, <2>2, <2>3, <3>1
    <3>3. r[i] = [id |-> w, name |-> y, arguments |-> z]
      BY <2>1, <3>2
    <3> QED BY <2>2, <2>3, <3>1, <3>3
  <2>4. CASE x # <<>>
    BY <1>2, <2>2, <2>4
  <2> QED BY <2>3, <2>4
<1>5. ASSUME NEW i \in 1..n, NEW j \in 1..n, r[i].id = r[j].id PROVE i = j
  <2>1. Len(<<turn, i>>) = 2 /\ Len(<<turn, j>>) = 2 /\ (<<turn, i>> = <<turn, j>> => i = j)
    OBVIOUS
  <2>2. Len(calls[i].id) <= 1 /\ Len(calls[j].id) <= 1
    BY <1>1 DEF Asked
  <2>3. calls[i].id = calls[j].id => i = j \/ calls[i].id = <<>>
    BY <1>1 DEF Asked
  <2>4. CASE calls[i].id = <<>> /\ calls[j].id = <<>>
    BY <1>4, <1>5, <2>1, <2>4
  <2>5. CASE calls[i].id = <<>> /\ calls[j].id # <<>>
    <3>1. PICK w : w = <<turn, i>> /\ w = calls[j].id
      BY <1>4, <1>5, <2>5
    <3>2. Len(w) = 2 /\ Len(w) <= 1
      BY <2>1, <2>2, <3>1, Zenon
    <3> QED BY <3>2
  <2>6. CASE calls[i].id # <<>> /\ calls[j].id = <<>>
    <3>1. PICK w : w = <<turn, j>> /\ w = calls[i].id
      BY <1>4, <1>5, <2>6
    <3>2. Len(w) = 2 /\ Len(w) <= 1
      BY <2>1, <2>2, <3>1, Zenon
    <3> QED BY <3>2
  <2>7. CASE calls[i].id # <<>> /\ calls[j].id # <<>>
    BY <1>4, <1>5, <2>3, <2>7
  <2> QED BY <2>4, <2>5, <2>6, <2>7
<1> QED BY <1>1, <1>3, <1>4, <1>5 DEF Resolved

(* The reply that was returned is of what was said.                        *)
Uttered(o, m) ==
  /\ List(o.output)
  /\ o.tool_calls = Requests(OfType(m.blocks, {"tool_use"})) /\ Asked(o.tool_calls)
  /\ o.replay = IF format = "openai" THEN <<>> ELSE OfType(m.blocks, ReplayTypes)
  /\ List(o.replay)
  /\ \A i \in 1..Len(o.replay) :
       List(o.replay[i].text) /\ List(o.replay[i].signature) /\ o.replay[i].type \in ReplayTypes

LEMMA ReplayIs ==
  ASSUME NEW f, NEW m, f \in DOMAIN Messages, m \in Messages[f], NEW r, r \in {<<>>, OfType(m.blocks, ReplayTypes)}
  PROVE  /\ List(r)
         /\ \A i \in 1..Len(r) : List(r[i].text) /\ List(r[i].signature) /\ r[i].type \in ReplayTypes
<1>1. CASE r = <<>>
  <2>1. 1..0 = {}
    OBVIOUS
  <2> QED BY <1>1, <2>1, EmptyList
<1>2. CASE r = OfType(m.blocks, ReplayTypes)
  <2>1. PICK s, K : s = m.blocks /\ K = TypePlaces(s, ReplayTypes) /\ r = OfType(s, ReplayTypes)
    BY <1>2
  <2>2. List(s) /\ \A p \in 1..Len(s) : s[p] \in Block
    BY <2>1, BlocksAre
  <2>5. From(r, s, K)
    BY <2>1, <2>2, OfTypeFrom
  <2>3. List(r) /\ \A k \in 1..Len(r) : \E p \in K : r[k] = s[p]
    BY <2>5 DEF From, Ranks
  <2>6. \A p \in K : p \in 1..Len(s) /\ s[p].type \in ReplayTypes
    BY <2>1 DEF TypePlaces
  <2>4. ASSUME NEW b \in Block PROVE List(b.text) /\ List(b.signature)
    <3>1. b.text \in Seq(STRING) /\ b.signature \in Seq(STRING)
      BY DEF Block
    <3> QED BY <3>1, ListIn
  <2> QED BY <2>2, <2>3, <2>4, <2>6
<1> QED BY <1>1, <1>2

LEMMA ReplySaid ==
  ASSUME CallInv, Replied
  PROVE  format \in DOMAIN Messages /\ said \in Messages[format] /\ Uttered(outcome, said)
<1>1. format \in DOMAIN Messages /\ said \in Messages[format] /\ Reached(format, said, outcome)
      /\ outcome \notin {Refused, EmptyChoices}
  BY DEF CallInv, Replied
<1>2. Parsed(format, said) \notin {Refused, EmptyChoices}
  BY <1>1 DEF Reached
<1>3. PICK p, m : p = Parsed(format, m) /\ m = said /\ m \in Messages[format]
  BY <1>1
<1>4. PICK a, d, g, u, c, b :
        /\ p = LlmReply(a, b, d, c, u, g)
        /\ b = Concat(m.blocks, {"text"}) /\ c = Requests(OfType(m.blocks, {"tool_use"}))
        /\ g = IF format = "openai" THEN <<>> ELSE OfType(m.blocks, ReplayTypes)
  BY <1>2, <1>3 DEF Parsed, parse_reply, parse_response
<1>5. outcome.output = b /\ outcome.tool_calls = c /\ outcome.replay = g
  <2>1. CASE outcome = p
    BY <1>4, <2>1 DEF LlmReply
  <2>2. CASE outcome # p
    <3>1. outcome = [p EXCEPT !.usage = NoUsage]
      BY <1>1, <1>3, <2>2 DEF Reached
    <3>2. outcome = LlmReply(a, b, d, c, NoUsage, g)
      BY <1>4, <3>1 DEF LlmReply
    <3> QED BY <3>2 DEF LlmReply
  <2> QED BY <2>1, <2>2
<1>6. List(b)
  <2>1. List(m.blocks) /\ \A p_1 \in 1..Len(m.blocks) : List(m.blocks[p_1].text)
    BY <1>1, <1>3, BlocksAre
  <2> QED BY <1>4, <2>1, TextsAre
<1>7. Asked(c)
  BY <1>1, <1>3, <1>4, AskedOf
<1>8. List(g) /\ \A i \in 1..Len(g) : List(g[i].text) /\ List(g[i].signature) /\ g[i].type \in ReplayTypes
  <2>1. g \in {<<>>, OfType(m.blocks, ReplayTypes)}
    BY <1>4
  <2> QED BY <1>1, <1>3, <2>1, ReplayIs
<1> QED BY <1>1, <1>3, <1>4, <1>5, <1>6, <1>7, <1>8 DEF Uttered

-----------------------------------------------------------------------------
(* The entries a Turn adds.                                                *)
LEMMA NoteIs == List(Note) /\ Len(Note) = 2
<1>1. PICK x, y : Note = <<x, y>>
  BY DEF Note
<1> QED BY <1>1, TwoOnes

LEMMA TurnText ==
  ASSUME NEW m, Uttered(outcome, m)
  PROVE  TextEntry(TextTurn)
<1>1. PICK o, w : w = <<"repair">> /\ o = w \o Note
  OBVIOUS
<1>2. List(w) /\ Len(w) = 1 /\ w[1] = "repair"
  BY <1>1, OneList
<1>3. PICK n : n = Note /\ List(n) /\ Len(n) = 2
  BY NoteIs
<1>4. o = w \o n /\ Appended(o, w, n)
  BY <1>1, <1>2, <1>3, ListConcat
<1>5. List(o) /\ 1 \in DOMAIN o /\ o[1] = "repair"
  <2>1. List(o) /\ Len(o) = 3 /\ 1 \in 1..1
    BY <1>2, <1>3, <1>4 DEF Appended
  <2>2. 1 \in DOMAIN o
    BY <2>1, ListAre
  <2>3. o[1] = w[1]
    BY <1>2, <1>4, <2>1 DEF Appended
  <2> QED BY <1>2, <2>1, <2>2, <2>3
<1>6. ~(ToSet(o) \subseteq {Space})
  <2>1. "repair" \in ToSet(o)
    BY <1>5 DEF ToSet
  <2>2. "repair" # Space
    BY DEF Space
  <2> QED BY <2>1, <2>2
<1>7. PICK e : e = TextTurn
  OBVIOUS
<1>8. e.kind = "text" /\ e.text = outcome.output /\ e.observation = o /\ e.size = 1
  BY <1>1, <1>7 DEF TextTurn
<1>9. List(outcome.output)
  BY DEF Uttered
<1> QED BY <1>5, <1>6, <1>7, <1>8, <1>9 DEF TextEntry

LEMMA TurnTool ==
  ASSUME NEW m, Uttered(outcome, m), outcome.tool_calls # <<>>,
         NEW calls, calls = resolve_call_ids(outcome.tool_calls),
         NEW outcomes \in [DOMAIN calls -> Results]
  PROVE  ToolEntry(ToolTurn(calls, outcomes))
<1>1. Asked(outcome.tool_calls) /\ Resolved(calls, outcome.tool_calls)
  BY ResolvedAre DEF Uttered
<1>2. PICK n : n \in Nat /\ n # 0 /\ n = Len(outcome.tool_calls) /\ n = Len(calls) /\ DOMAIN calls = 1..n
               /\ List(calls)
  BY <1>1, ListAre DEF Asked, Resolved
<1>3. \A i \in 1..n : List(calls[i].arguments)
  BY <1>1, <1>2 DEF Asked, Resolved
<1>4. PICK r, e : e = ToolTurn(calls, outcomes) /\ r = e.results
  OBVIOUS
<1>5. /\ e.kind = "tool" /\ e.text = outcome.output /\ e.calls = calls /\ e.replay = outcome.replay
      /\ r = [i \in 1..n |-> ResultFor(i, calls[i], outcomes, n)]
  BY <1>2, <1>4 DEF ToolTurn
<1>6. r = [i \in 1..n |-> r[i]] /\ \A i \in 1..n : r[i] = ResultFor(i, calls[i], outcomes, n)
  BY <1>5
<1>7. List(r) /\ Len(r) = n
  BY <1>2, <1>6, ListOf
<1>8. ASSUME NEW i \in 1..n PROVE r[i].id = calls[i].id /\ r[i].size \in Nat
  <2>1. PICK q : q = IF i > MaxTools THEN [text |-> <<"not executed">>, size |-> 1] ELSE outcomes[i]
    OBVIOUS
  <2>2. r[i] = [id |-> calls[i].id, text |-> q.text \o (IF i = n THEN Note ELSE <<>>), size |-> q.size]
    BY <1>6, <2>1 DEF ResultFor
  <2>3. PICK x, y : x = calls[i].id /\ y = q.text \o (IF i = n THEN Note ELSE <<>>)
    OBVIOUS
  <2>4. r[i].id = x /\ r[i].size = q.size
    BY <2>2, <2>3
  <2>5. q.size \in Nat
    <3>1. outcomes[i] \in [text : Seq(STRING), size : Nat]
      BY <1>2, ConversationAssumption
    <3> QED BY <2>1, <3>1
  <2> QED BY <2>3, <2>4, <2>5
<1>9. \A i, j \in 1..n : calls[i].id = calls[j].id => i = j
  BY <1>1, <1>2 DEF Resolved
<1> QED BY <1>2, <1>3, <1>4, <1>5, <1>7, <1>8, <1>9 DEF ToolEntry, Uttered

-----------------------------------------------------------------------------
(* The Turns of a session: the history, and what was last asked of it.     *)
TalkInv ==
  /\ turn \in Nat \ {0} /\ Recounts(history) /\ Len(history) = turn - 1
  /\ dropped = Dropped(history) /\ request = Wire(assemble(history, dropped))

(* A Turn that ends the wait for the gateway adds an entry.                *)
TurnEnds ==
  \E e : Entered(e) /\ NextTurn(e)
         /\ IF outcome.tool_calls = <<>> THEN e = TextTurn
            ELSE \E calls \in {resolve_call_ids(outcome.tool_calls)} :
                   \E outcomes \in [DOMAIN calls -> Results] : e = ToolTurn(calls, outcomes)

LEMMA EndsTurn ==
  ASSUME CallInv, ToolsRun \/ NoAnswer
  PROVE  TurnEnds
<1>1. Replied
  BY DEF ToolsRun, NoAnswer
<1>2. Uttered(outcome, said)
  BY <1>1, ReplySaid
<1>3. CASE NoAnswer
  <2>1. outcome.tool_calls = <<>> /\ NextTurn(TextTurn)
    BY <1>3 DEF NoAnswer
  <2>2. Entered(TextTurn)
    BY <1>2, TurnText DEF Entered
  <2> QED BY <2>1, <2>2 DEF TurnEnds
<1>4. CASE ToolsRun
  <2>1. PICK calls : calls = resolve_call_ids(outcome.tool_calls)
    OBVIOUS
  <2>2. outcome.tool_calls # <<>> /\ \E outcomes \in [DOMAIN calls -> Results] : NextTurn(ToolTurn(calls, outcomes))
    BY <1>4, <2>1 DEF ToolsRun
  <2>3. PICK outcomes \in [DOMAIN calls -> Results] : NextTurn(ToolTurn(calls, outcomes))
    BY <2>2
  <2>4. Entered(ToolTurn(calls, outcomes))
    BY <1>2, <2>1, <2>2, TurnTool DEF Entered
  <2>5. PICK e : e = ToolTurn(calls, outcomes)
    OBVIOUS
  <2>6. Entered(e) /\ NextTurn(e)
    BY <2>3, <2>4, <2>5
  <2> QED BY <2>1, <2>2, <2>5, <2>6 DEF TurnEnds
<1> QED BY <1>3, <1>4

LEMMA NextTurnIs ==
  ASSUME NEW e, NextTurn(e)
  PROVE  /\ history' = Append(history, e) /\ dropped' = Dropped(history') /\ turn' = turn + 1
         /\ request' = Wire(assemble(history', dropped')) /\ spoken' = Append(spoken, said)
         /\ phase' = "ready" /\ UNCHANGED <<format, retained, trace>>
BY DEF NextTurn, Idle, traced

LEMMA CallKeepsFormat == CallNext => UNCHANGED format /\ phase # "answered"
BY DEF CallNext, Open, Send, Broken, WholeBody, BodyEnds, Chunk, Finish, AttemptFails, Return

LEMMA WireList ==
  ASSUME NEW c, Messaged(c)
  PROVE  List(Wire(c))
<1>1. List(map_messages(c))
  BY MappedIs, FlattenList
<1> QED BY <1>1 DEF Wire, Messaged

(* What is sent of what is kept: the request of the Turn before and more.  *)
LEMMA EntryWired ==
  ASSUME NEW e, Entered(e)
  PROVE  List(Wire(EntryMessages(e))) /\ Wire(EntryMessages(e)) # <<>>
<1>1. PICK b : b = EntryMessages(e) /\ Segment(b)
  BY EntrySaid
<1>2. CASE format = "openai"
  <2>1. List(b) /\ b # <<>>
    BY <1>1, EmptyList DEF Segment, Messaged
  <2> QED BY <1>1, <1>2, <2>1 DEF Wire
<1>3. CASE format # "openai" /\ ToolEntry(e)
  <2>1. PICK c, a, r : c = a \o r /\ a = <<Assistant(e)>> /\ r = ToolResults(e) /\ b = c
    BY <1>1, <1>3 DEF EntryMessages, ToolEntry, ToolResults
  <2>2. Messaged(a) /\ Messaged(r)
    <3>1. Assistant(e).role = "assistant" /\ List(Assistant(e).replay) /\ List(Assistant(e).calls)
      BY <1>3 DEF Assistant, ChatMessage, ToolEntry
    <3> QED BY <1>3, <2>1, <3>1, ContentOf, MessagedOne, ResultsAre
  <2>3. Appended(c, a, r)
    BY <2>1, <2>2, MessagedBoth
  <2>4. map_messages(c) = ToolMapped(e)
    BY <1>3, <2>1, <2>3, MapAnswers
  <2>5. List(ToolMapped(e)) /\ Len(ToolMapped(e)) = 2
    BY TwoOnes DEF ToolMapped
  <2>6. ToolMapped(e) # <<>>
    BY <2>5, EmptyList
  <2> QED BY <1>1, <1>3, <2>1, <2>4, <2>5, <2>6 DEF Wire
<1>4. CASE format # "openai" /\ TextEntry(e)
  <2>1. PICK a, u, x : /\ a = (IF e.text = <<>> THEN <<>> ELSE <<Says("assistant", e.text)>>)
                       /\ u = Says("user", e.observation) /\ x = <<u>> /\ b = a \o x
    BY <1>1, <1>4 DEF EntryMessages, TextEntry
  <2>2. Messaged(a) /\ Messaged(x) /\ Len(x) = 1 /\ x[1] = u /\ Said(u) /\ u.role = "user"
        /\ u.text = e.observation
    BY <2>1, MessagedNone, SaysIs, MessagedOne
  <2>3. Parted(b, a, x)
    <3>1. Appended(b, a, x) /\ Messaged(b)
      BY <2>1, <2>2, MessagedBoth
    <3> QED BY <2>2, <3>1 DEF Parted
  <2>4. map_messages(b) = map_messages(a) \o map_messages(x)
    BY <2>3, MapConcat
  <2>5. PICK s, v : s = map_messages(a) /\ v = map_messages(x) /\ List(s) /\ List(v)
    BY <2>2, MappedIs, FlattenList
  <2>6. Len(v) = 1
    <3>1. Content(u) # <<>>
      <4>1. Content(u) = NonBlank(e.observation)
        BY <2>2 DEF Content
      <4>2. NonBlank(e.observation) = <<[type |-> "text", text |-> e.observation]>>
        BY <1>4, NonBlankIs DEF TextEntry
      <4> QED BY <4>1, <4>2, OneList, EmptyList
    <3>2. v = <<[role |-> WireRole(u), content |-> Content(u)]>>
      BY <2>1, <2>2, <2>5, <3>1, MapOne
    <3> QED BY <3>2, OneList
  <2>7. List(s \o v) /\ Len(s \o v) = Len(s) + Len(v) /\ Len(s) \in Nat
    BY <2>5, ConcatLists, ListAre
  <2>8. Len(s \o v) # 0
    BY <2>6, <2>7
  <2>9. List(map_messages(b)) /\ map_messages(b) # <<>>
    BY <2>4, <2>5, <2>7, <2>8, EmptyList
  <2> QED BY <1>1, <1>4, <2>9 DEF Wire
<1> QED BY <1>2, <1>3, <1>4 DEF Entered

LEMMA TalkNexts ==
  ASSUME CallInv, TalkInv, [TalkNext]_conversation
  PROVE  TalkInv'
<1>1. CASE ToolsRun \/ NoAnswer
  <2>1. PICK e : Entered(e) /\ NextTurn(e)
    BY <1>1, EndsTurn DEF TurnEnds
  <2>2. /\ history' = Append(history, e) /\ dropped' = Dropped(history') /\ turn' = turn + 1
        /\ request' = Wire(assemble(history', dropped')) /\ UNCHANGED format
    BY <2>1, NextTurnIs
  <2>3. Recounts(history) /\ Len(history) = turn - 1 /\ turn \in Nat \ {0}
    BY DEF TalkInv
  <2>4. Recounts(history')
    BY <2>1, <2>2, <2>3, AddedRecounts
  <2>5. Len(history') = Len(history) + 1
    BY <2>2, <2>3, AppendIs DEF Recounts
  <2>6. turn' \in Nat \ {0} /\ Len(history') = turn' - 1
    BY <2>2, <2>3, <2>5
  <2>7. request' = Wire(assemble(history, dropped))'
    BY <2>2 DEF Wire
  <2> QED BY <2>2, <2>4, <2>6, <2>7 DEF TalkInv, Recounts
<1>2. CASE CallStep \/ UNCHANGED conversation
  <2>1. UNCHANGED <<turn, history, dropped, request>>
    BY <1>2 DEF CallStep, conversation, talk
  <2>2. UNCHANGED format
    BY <1>2, CallKeepsFormat DEF CallStep, conversation
  <2> QED BY <2>1, <2>2 DEF TalkInv, Recounts, Wire
<1> QED BY <1>1, <1>2 DEF TalkNext

LEMMA TalkStarts == TalkInit => TalkInv
<1> SUFFICES ASSUME TalkInit PROVE TalkInv
  OBVIOUS
<1>1. turn = 1 /\ history = <<>> /\ dropped = 0 /\ request = Wire(assemble(<<>>, 0))
  BY DEF TalkInit
<1>2. List(history) /\ Len(history) = 0
  BY <1>1, EmptyList
<1>3. Recounts(history)
  BY <1>2 DEF Recounts
<1>4. Dropped(history) = 0
  <2>1. Dropped(history) \in 0..0
    BY <1>2, DroppedIs
  <2> QED BY <2>1
<1> QED BY <1>1, <1>2, <1>3, <1>4 DEF TalkInv

(* A Turn adds to the transcript what it is about, unless Turns before it  *)
(* are dropped.                                                            *)
Lengthens ==
  turn' # turn =>
    /\ dropped' >= dropped /\ dropped' < Len(history')
    /\ dropped' = dropped => IsStrictPrefix(request, request')

LEMMA TurnGrows ==
  ASSUME TalkInv, NEW e, Entered(e), NextTurn(e)
  PROVE  Lengthens
<1>1. /\ history' = Append(history, e) /\ dropped' = Dropped(history')
      /\ request' = Wire(assemble(history', dropped')) /\ UNCHANGED format
  BY NextTurnIs
<1>0. /\ Recounts(history) /\ List(history) /\ dropped = Dropped(history)
      /\ request = Wire(assemble(history, dropped))
  BY DEF TalkInv, Recounts
<1>2. PICK h, g, k, l : h = history /\ g = Append(h, e) /\ g = history' /\ k = dropped /\ l = dropped'
                        /\ Recounts(h) /\ List(h) /\ k = Dropped(h) /\ l = Dropped(g)
  BY <1>0, <1>1
<1>3. k \in 0..Len(h)
  BY <1>2, DroppedIs
<1>4. l >= k
  BY <1>2, DroppedGrows
<1>5. l < Len(g)
  <2>1. List(g) /\ Len(g) = Len(h) + 1 /\ Len(h) \in Nat
    BY <1>2, AppendIs, ListAre
  <2>2. g # <<>>
    BY <2>1, EmptyList
  <2> QED BY <1>2, <2>1, <2>2, DroppedIs
<1>6. ASSUME l = k PROVE IsStrictPrefix(request, request')
  <2>1. PICK s, y, t : /\ s = Wire(assemble(h, k)) /\ y = Wire(EntryMessages(e))
                       /\ t = Wire(assemble(g, k)) /\ s = request /\ t = request'
    BY <1>0, <1>1, <1>2, <1>6
  <2>2. Appended(t, s, y)
    BY <1>2, <1>3, <2>1, WireParts
  <2>3. List(y) /\ Len(y) \in Nat \ {0}
    <3>1. List(y) /\ y # <<>>
      BY <2>1, EntryWired
    <3> QED BY <3>1, ListAre
  <2>4. List(s)
    <3>1. Messaged(assemble(h, k))
      BY <1>2, <1>3, AssembleMessaged
    <3> QED BY <2>1, <3>1, WireList
  <2>5. Appended(s \o y, s, y)
    BY <2>3, <2>4, ListConcat
  <2>6. t = s \o y
    BY <2>2, <2>5, AppendedOnce
  <2>7. IsPrefix(s, t)
    BY <2>3, <2>4, <2>6, PrefixConcat
  <2>8. s # t
    <3>1. Len(t) = Len(s) + Len(y) /\ Len(s) \in Nat
      BY <2>2 DEF Appended
    <3>2. Len(t) # Len(s)
      BY <2>3, <3>1
    <3> QED BY <3>2
  <2> QED BY <2>1, <2>7, <2>8 DEF IsStrictPrefix
<1> QED BY <1>2, <1>4, <1>5, <1>6 DEF Lengthens

LEMMA TurnsGrow ==
  ASSUME CallInv, TalkInv, [TalkNext]_conversation
  PROVE  Lengthens
<1>1. CASE ToolsRun \/ NoAnswer
  <2>1. PICK e : Entered(e) /\ NextTurn(e)
    BY <1>1, EndsTurn DEF TurnEnds
  <2> QED BY <2>1, TurnGrows
<1>2. CASE CallStep \/ UNCHANGED conversation
  <2>1. turn' = turn
    BY <1>2 DEF CallStep, conversation, talk
  <2> QED BY <2>1 DEF Lengthens
<1> QED BY <1>1, <1>2 DEF TalkNext

(* The history and the request made of it, as the calls that end leave     *)
(* them (runner.rs, handle_tool_calls and handle_text; context.rs).        *)
THEOREM TalkCorrect == TalkSpec => []TalkInv
<1>1. TalkInit => TalkInv
  BY TalkStarts
<1>2. CallInv /\ TalkInv /\ [TalkNext]_conversation => TalkInv'
  BY TalkNexts
<1> QED BY <1>1, <1>2, CallCorrect, PTL DEF TalkSpec

(* A dropped Turn never comes back, the newest is never dropped, and until *)
(* Turns are dropped each request begins with the whole of the last one    *)
(* (context.rs, truncate_history).                                         *)
THEOREM TranscriptGrown == TalkSpec => TranscriptGrows
<1>1. CallInv /\ TalkInv /\ [TalkNext]_conversation =>
        [turn' # turn =>
           /\ dropped' >= dropped /\ dropped' < Len(history')
           /\ dropped' = dropped => IsStrictPrefix(request, request')]_conversation
  BY TurnsGrow DEF Lengthens
<1>2. TalkSpec => [][turn' # turn =>
                       /\ dropped' >= dropped /\ dropped' < Len(history')
                       /\ dropped' = dropped => IsStrictPrefix(request, request')]_conversation
  BY <1>1, CallCorrect, TalkCorrect, PTL DEF TalkSpec
<1> QED BY <1>2 DEF TranscriptGrows

-----------------------------------------------------------------------------
(* What the rows of the trace tell: those since the last that is full.     *)
Telling(rows) ==
  [i \in DOMAIN rows |-> IF \E j \in i + 1..Len(rows) : rows[j].full THEN <<>> ELSE rows[i].messages]
Rows(rows) ==
  List(rows) /\ \A i \in 1..Len(rows) : rows[i].full \in BOOLEAN /\ List(rows[i].messages)

LEMMA TellingIs ==
  ASSUME NEW rows, Rows(rows)
  PROVE  /\ Lists(Telling(rows)) /\ Len(Telling(rows)) = Len(rows)
         /\ \A i \in 1..Len(rows) :
              Telling(rows)[i] = IF \E j \in i + 1..Len(rows) : rows[j].full THEN <<>> ELSE rows[i].messages
<1>1. PICK n, s : n \in Nat /\ n = Len(rows) /\ DOMAIN rows = 1..n /\ s = Telling(rows)
  BY ListAre DEF Rows
<1>2. /\ s = [i \in 1..n |-> s[i]]
      /\ \A i \in 1..n : s[i] = IF \E j \in i + 1..n : rows[j].full THEN <<>> ELSE rows[i].messages
  BY <1>1 DEF Telling
<1>3. \A i \in 1..n : List(s[i])
  BY <1>1, <1>2, EmptyList DEF Rows
<1>4. Lists(s) /\ Len(s) = n
  BY <1>1, <1>2, <1>3, ListsOf
<1> QED BY <1>1, <1>2, <1>4

RowsThen(g, rows, row) ==
  /\ Rows(g) /\ Len(g) = Len(rows) + 1 /\ Len(rows) \in Nat /\ g[Len(rows) + 1] = row
  /\ \A i \in 1..Len(rows) : g[i] = rows[i]

LEMMA RowAdded ==
  ASSUME NEW rows, Rows(rows), NEW row, row.full \in BOOLEAN, List(row.messages)
  PROVE  RowsThen(Append(rows, row), rows, row)
<1>1. PICK n, g : n \in Nat /\ n = Len(rows) /\ g = Append(rows, row)
  BY ListAre DEF Rows
<1>2. List(g) /\ Len(g) = n + 1 /\ g[n + 1] = row /\ \A i \in 1..n : g[i] = rows[i]
  <2>1. List(rows)
    BY DEF Rows
  <2>2. List(Append(rows, row)) /\ Len(Append(rows, row)) = Len(rows) + 1
    BY <2>1, AppendIs
  <2>3. Append(rows, row)[Len(rows) + 1] = row
    BY <2>1, AppendIs
  <2>4. \A i \in 1..Len(rows) : Append(rows, row)[i] = rows[i]
    BY <2>1, AppendIs
  <2> QED BY <1>1, <2>2, <2>3, <2>4
<1>3. ASSUME NEW i \in 1..n + 1 PROVE g[i].full \in BOOLEAN /\ List(g[i].messages)
  <2>1. CASE i = n + 1
    BY <1>2, <2>1
  <2>2. CASE i # n + 1
    <3>1. i \in 1..n
      BY <1>1, <2>2
    <3> QED BY <1>1, <1>2, <3>1 DEF Rows
  <2> QED BY <2>1, <2>2
<1> QED BY <1>1, <1>2, <1>3 DEF Rows, RowsThen

LEMMA ToldAgain ==
  ASSUME NEW rows, Rows(rows), NEW row, row.full \in BOOLEAN, List(row.messages)
  PROVE  FlattenSeq(Telling(Append(rows, row)))
           = IF row.full THEN row.messages ELSE FlattenSeq(Telling(rows)) \o row.messages
<1>1. PICK n, m, g : n = Len(rows) /\ n \in Nat /\ m = n + 1 /\ g = Append(rows, row)
  BY ListAre DEF Rows
<1>2. Rows(g) /\ Len(g) = m /\ g[m] = row /\ \A i \in 1..n : g[i] = rows[i]
  <2>1. RowsThen(g, rows, row)
    BY <1>1, RowAdded
  <2> QED BY <1>1, <2>1 DEF RowsThen
<1>3. PICK s, t : s = Telling(rows) /\ t = Telling(g)
  OBVIOUS
<1>4. Lists(s) /\ Len(s) = n
      /\ \A i \in 1..n : s[i] = IF \E j \in i + 1..n : rows[j].full THEN <<>> ELSE rows[i].messages
  BY <1>1, <1>3, TellingIs
<1>5. Lists(t) /\ Len(t) = m
      /\ \A i \in 1..m : t[i] = IF \E j \in i + 1..m : g[j].full THEN <<>> ELSE g[i].messages
  BY <1>2, <1>3, TellingIs
<1>6. t[m] = row.messages
  <2>1. m + 1..m = {} /\ m \in 1..m
    BY <1>1
  <2> QED BY <1>2, <1>5, <2>1
<1>7. CASE row.full
  <2>1. ASSUME NEW i \in 1..n PROVE t[i] = <<>>
    <3>1. m \in i + 1..m /\ i \in 1..m
      BY <1>1
    <3> QED BY <1>2, <1>5, <1>7, <3>1
  <2>2. PICK u : u = First(t, n) /\ List(u) /\ Len(u) = n /\ \A i \in 1..n : u[i] = t[i]
    <3>1. n \in 0..Len(t)
      BY <1>1, <1>5
    <3> QED BY <1>5, <3>1, FirstOf DEF Lists
  <2>3. FlattenSeq(u) = <<>>
    BY <2>1, <2>2, FlattenEmpty
  <2>4. FlattenSeq(First(t, m)) = FlattenSeq(First(t, n)) \o t[m]
    <3>1. m = n + 1 /\ m <= Len(t)
      BY <1>1, <1>5
    <3> QED BY <1>1, <1>5, <3>1, FlattenFirst
  <2>5. First(t, m) = t
    BY <1>5, FirstOf, ListAre DEF Lists
  <2>6. <<>> \o row.messages = row.messages
    BY ConcatEmpty
  <2> QED BY <1>1, <1>3, <1>6, <1>7, <2>2, <2>3, <2>4, <2>5, <2>6
<1>8. CASE ~row.full
  <2>1. ASSUME NEW i \in 1..n PROVE t[i] = s[i]
    <3>1. (\E j \in i + 1..m : g[j].full) <=> (\E j \in i + 1..n : rows[j].full)
      <4>1. ASSUME NEW j \in i + 1..m, g[j].full PROVE j \in i + 1..n /\ rows[j].full
        <5>1. j # m
          BY <1>2, <1>8, <4>1
        <5>2. j \in i + 1..n /\ j \in 1..n
          BY <1>1, <5>1
        <5> QED BY <1>2, <4>1, <5>2
      <4>2. ASSUME NEW j \in i + 1..n, rows[j].full PROVE j \in i + 1..m /\ g[j].full
        <5>1. j \in i + 1..m /\ j \in 1..n
          BY <1>1
        <5> QED BY <1>2, <4>2, <5>1
      <4> QED BY <4>1, <4>2
    <3>2. i \in 1..m /\ g[i] = rows[i]
      BY <1>1, <1>2
    <3> QED BY <1>4, <1>5, <3>1, <3>2
  <2>2. FlattenSeq(t) = FlattenSeq(s) \o t[m]
    <3>1. m = Len(s) + 1 /\ Len(t) = m /\ \A i \in 1..Len(s) : t[i] = s[i]
      BY <1>1, <1>4, <1>5, <2>1
    <3>2. Lists(s) /\ Lists(t)
      BY <1>4, <1>5
    <3> QED BY <3>1, <3>2, FlattenStep
  <2> QED BY <1>1, <1>3, <1>6, <1>8, <2>2
<1> QED BY <1>7, <1>8

(* The messages traced of a request: all but the system prompt.            *)
LEMMA TracedIs ==
  ASSUME TalkInv
  PROVE  List(Traced)
<1>1. PICK a : a = assemble(history, dropped) /\ List(a) /\ Len(a) # 0
  <2>1. Recounts(history) /\ dropped \in 0..Len(history)
    BY DroppedIs DEF TalkInv, Recounts
  <2> QED BY <2>1, AssembleMessaged DEF Messaged
<1>2. PICK S : a \in Seq(S) /\ a # <<>>
  BY <1>1, EmptyList DEF List
<1>3. Tail(a) \in Seq(S)
  BY <1>2
<1>4. List(Tail(a))
  BY <1>3, ListIn
<1> QED BY <1>1, <1>4 DEF Traced

(* A row that is not full is what the last request is a prefix without.    *)
LEMMA RowTells ==
  ASSUME NEW current, List(current), List(retained)
  PROVE  /\ model_row(current).full \in BOOLEAN /\ List(model_row(current).messages)
         /\ current = IF model_row(current).full THEN model_row(current).messages
                      ELSE retained \o model_row(current).messages
<1>1. PICK row : row = model_row(current)
  OBVIOUS
<1>2. CASE ~IsPrefix(retained, current)
  <2>1. row.full = TRUE /\ row.messages = current
    BY <1>1, <1>2 DEF model_row, TraceRow
  <2> QED BY <1>1, <2>1
<1>3. CASE IsPrefix(retained, current)
  <2>1. PICK k, N, y : /\ k \in Nat /\ k = Len(retained) /\ N \in Nat /\ N = Len(current)
                       /\ y = Since(current, k)
    BY ListAre
  <2>2. row.full = FALSE /\ row.messages = y
    BY <1>1, <1>3, <2>1 DEF model_row, TraceRow
  <2>3. k <= N /\ SubSeq(retained, 1, k) = SubSeq(current, 1, k)
    BY <1>3, <2>1 DEF IsPrefix
  <2>4. k \in 0..N /\ k \in 0..k
    BY <2>1, <2>3
  <2>5. SubSeq(retained, 1, k) = First(retained, k) /\ SubSeq(current, 1, k) = First(current, k)
    BY <2>1, <2>4, FirstSub
  <2>6. \A i \in 1..k : current[i] = retained[i]
    <3>1. \A i \in 1..k : First(retained, k)[i] = retained[i]
      BY DEF First
    <3>2. \A i \in 1..k : First(current, k)[i] = current[i]
      BY DEF First
    <3> QED BY <2>3, <2>5, <3>1, <3>2
  <2>7. List(y) /\ Len(y) = N - k /\ \A i \in 1..N - k : y[i] = current[k + i]
    BY <2>1, <2>4, SinceIs
  <2>8. Appended(current, retained, y)
    BY <2>1, <2>4, <2>6, <2>7 DEF Appended
  <2>9. current = retained \o y
    BY <2>7, <2>8, ListConcat, AppendedOnce
  <2> QED BY <1>1, <2>2, <2>7, <2>9
<1> QED BY <1>2, <1>3

(* The trace of the requests of a session.                                 *)
TraceInv ==
  /\ Rows(trace) /\ List(retained) /\ FlattenSeq(Telling(trace)) = retained
  /\ Len(trace) = IF phase = "answered" THEN turn ELSE turn - 1
  /\ phase = "answered" => retained = Traced

LEMMA TraceNexts ==
  ASSUME TalkInv, TraceInv, [TalkNext]_conversation
  PROVE  TraceInv'
<1>1. CASE ToolsRun \/ NoAnswer
  <2>1. PICK e : NextTurn(e) /\ phase = "answered"
    BY <1>1 DEF ToolsRun, NoAnswer, Replied
  <2>2. turn' = turn + 1 /\ phase' = "ready" /\ UNCHANGED <<retained, trace>>
    BY <2>1, NextTurnIs
  <2>3. Len(trace') = turn' - 1
    BY <2>1, <2>2 DEF TraceInv, TalkInv
  <2> QED BY <2>2, <2>3 DEF TraceInv, Rows, Telling
<1>2. CASE CallStep
  <2>1. UNCHANGED <<turn, history, dropped>> /\ phase # "answered"
    BY <1>2, CallKeepsFormat DEF CallStep, talk
  <2>2. CASE phase' = "answered"
    <3>1. trace_model
      BY <1>2, <2>2 DEF CallStep
    <3>2. PICK c, row : /\ c = Traced /\ row = model_row(c) /\ retained' = c /\ trace' = Append(trace, row)
      BY <3>1 DEF trace_model
    <3>3. List(c) /\ List(retained) /\ Rows(trace)
      BY <3>2, TracedIs DEF TraceInv
    <3>4. row.full \in BOOLEAN /\ List(row.messages)
          /\ c = IF row.full THEN row.messages ELSE retained \o row.messages
      BY <3>2, <3>3, RowTells
    <3>5. Rows(trace') /\ Len(trace') = Len(trace) + 1
      <4>1. RowsThen(Append(trace, row), trace, row)
        BY <3>3, <3>4, RowAdded
      <4> QED BY <3>2, <4>1 DEF RowsThen
    <3>6. FlattenSeq(Telling(Append(trace, row)))
            = IF row.full THEN row.messages ELSE FlattenSeq(Telling(trace)) \o row.messages
      BY <3>3, <3>4, ToldAgain
    <3>7. FlattenSeq(Telling(trace')) = retained'
      BY <3>2, <3>4, <3>6 DEF TraceInv
    <3>8. Len(trace') = turn'
      BY <2>1, <3>5 DEF TraceInv, TalkInv
    <3>9. Traced' = Traced
      BY <2>1 DEF Traced, assemble, EntryMessages, Assistant
    <3> QED BY <2>2, <3>2, <3>3, <3>5, <3>7, <3>8, <3>9 DEF TraceInv, Rows, Telling
  <2>3. CASE phase' # "answered"
    <3>1. UNCHANGED <<retained, trace>>
      BY <1>2, <2>3 DEF CallStep, traced
    <3> QED BY <2>1, <2>3, <3>1 DEF TraceInv, Rows, Telling
  <2> QED BY <2>2, <2>3
<1>3. CASE UNCHANGED conversation
  <2>1. UNCHANGED <<turn, history, dropped, phase, retained, trace>>
    BY <1>3 DEF conversation, call, talk, traced
  <2>2. Traced' = Traced
    BY <2>1 DEF Traced, assemble, EntryMessages, Assistant
  <2> QED BY <2>1, <2>2 DEF TraceInv, Rows, Telling
<1> QED BY <1>1, <1>2, <1>3 DEF TalkNext

LEMMA TraceStarts == TalkInit => TraceInv
<1> SUFFICES ASSUME TalkInit PROVE TraceInv
  OBVIOUS
<1>1. turn = 1 /\ retained = <<>> /\ trace = <<>> /\ phase = "ready"
  BY DEF TalkInit, StreamInit
<1>2. List(trace) /\ Len(trace) = 0 /\ List(retained)
  BY <1>1, EmptyList
<1>3. Rows(trace)
  BY <1>2 DEF Rows
<1>4. FlattenSeq(Telling(trace)) = <<>>
  <2>1. PICK s : s = Telling(trace) /\ List(s) /\ Len(s) = 0
    BY <1>2, <1>3, TellingIs DEF Lists
  <2>2. s = <<>>
    BY <2>1, EmptyList, ListAre
  <2> QED BY <2>1, <2>2, FlattenNone
<1> QED BY <1>1, <1>2, <1>3, <1>4 DEF TraceInv

(* Who reads the rows of the trace in their order knows the request of     *)
(* every Turn that was answered, also after Turns were dropped from it     *)
(* (trace.rs, model_row).                                                  *)
THEOREM TraceTold == TalkSpec => []TraceRetells
<1>1. TalkInit => TraceInv
  BY TraceStarts
<1>2. TalkInv /\ TraceInv /\ [TalkNext]_conversation => TraceInv'
  BY TraceNexts
<1>3. TraceInv => TraceRetells
  <2> SUFFICES ASSUME TraceInv, phase = "answered" PROVE Len(trace) = turn /\ Retold = Traced
    BY DEF TraceRetells
  <2>1. Retold = FlattenSeq(Telling(trace))
    BY DEF Retold, Telling
  <2> QED BY <2>1 DEF TraceInv
<1> QED BY <1>1, <1>2, <1>3, TalkCorrect, PTL DEF TalkSpec

-----------------------------------------------------------------------------
(* Whom a message of a request in one of the formats asks and answers, and *)
(* that those asked answer.                                                *)
AsksIn(f, m) ==
  IF f = "openai" THEN {m.calls[i].id : i \in DOMAIN m.calls}
  ELSE {m.content[i].id : i \in {j \in DOMAIN m.content : m.content[j].type = "tool_use"}}
AnswersIn(f, m) ==
  IF f = "openai" THEN IF m.role = "tool" THEN <<m.id>> ELSE <<>>
  ELSE LET results == OfType(m.content, {"tool_result"}) IN [i \in DOMAIN results |-> results[i].id]
Following(f, R, k) ==
  [j \in DOMAIN R |->
     IF j > k /\ \A i \in k + 1..j : AnswersIn(f, R[i]) # <<>> THEN AnswersIn(f, R[j]) ELSE <<>>]
Pairs(f, R, k) ==
  /\ LET answers == FlattenSeq(Following(f, R, k)) IN
     AnswersIn(f, R[k]) = <<>> => ToSet(answers) = AsksIn(f, R[k]) /\ IsInjective(answers)
  /\ f = "anthropic" /\ k < Len(R) => AnswersIn(f, R[k]) = <<>> \/ AnswersIn(f, R[k + 1]) = <<>>
Paired(f, R) == \A k \in 1..Len(R) : Pairs(f, R, k)
Readable(f, R) == List(R) /\ \A i \in 1..Len(R) : List(AnswersIn(f, R[i]))

LEMMA FollowingIs ==
  ASSUME NEW f, NEW R, Readable(f, R), NEW k
  PROVE  /\ Lists(Following(f, R, k)) /\ Len(Following(f, R, k)) = Len(R)
         /\ \A j \in 1..Len(R) :
              Following(f, R, k)[j] = IF j > k /\ \A i \in k + 1..j : AnswersIn(f, R[i]) # <<>>
                                      THEN AnswersIn(f, R[j]) ELSE <<>>
<1>1. PICK N, s : N \in Nat /\ N = Len(R) /\ DOMAIN R = 1..N /\ s = Following(f, R, k)
  BY ListAre DEF Readable
<1>2. /\ s = [j \in 1..N |-> s[j]]
      /\ \A j \in 1..N : s[j] = IF j > k /\ \A i \in k + 1..j : AnswersIn(f, R[i]) # <<>>
                                THEN AnswersIn(f, R[j]) ELSE <<>>
  BY <1>1 DEF Following
<1>3. \A j \in 1..N : List(s[j])
  BY <1>1, <1>2, EmptyList DEF Readable
<1>4. Lists(s) /\ Len(s) = N
  BY <1>1, <1>2, <1>3, ListsOf
<1> QED BY <1>1, <1>2, <1>4

(* Two parts of a request, of which the second answers nothing of the      *)
(* first.                                                                  *)
Apart(f, c, a, b) ==
  /\ Readable(f, a) /\ Readable(f, b) /\ Appended(c, a, b)
  /\ Len(b) # 0 => AnswersIn(f, b[1]) = <<>>

LEMMA ApartReadable ==
  ASSUME NEW f, NEW c, NEW a, NEW b, Apart(f, c, a, b)
  PROVE  Readable(f, c)
<1>1. PICK A, B : A \in Nat /\ A = Len(a) /\ B \in Nat /\ B = Len(b) /\ Len(c) = A + B /\ List(c)
  BY DEF Apart, Appended
<1>2. (\A i \in 1..A : c[i] = a[i]) /\ (\A i \in 1..B : c[A + i] = b[i])
  BY <1>1 DEF Apart, Appended
<1>3. ASSUME NEW i \in 1..A + B PROVE List(AnswersIn(f, c[i]))
  <2>1. CASE i \in 1..A
    BY <1>1, <1>2, <2>1 DEF Apart, Readable
  <2>2. CASE i \notin 1..A
    <3>1. PICK j : j \in 1..B /\ i = A + j
      <4>1. i - A \in 1..B /\ i = A + (i - A)
        BY <1>1, <2>2
      <4> QED BY <4>1
    <3> QED BY <1>1, <1>2, <3>1 DEF Apart, Readable
  <2> QED BY <2>1, <2>2
<1> QED BY <1>1, <1>3 DEF Readable

LEMMA FollowingBefore ==
  ASSUME NEW f, NEW c, NEW a, NEW b, Apart(f, c, a, b), NEW k \in 1..Len(a)
  PROVE  FlattenSeq(Following(f, c, k)) = FlattenSeq(Following(f, a, k))
<1>1. PICK A, B : A \in Nat /\ A = Len(a) /\ B \in Nat /\ B = Len(b) /\ Len(c) = A + B /\ k \in 1..A
  BY DEF Apart, Appended
<1>2. (\A i \in 1..A : c[i] = a[i]) /\ (\A i \in 1..B : c[A + i] = b[i])
  BY <1>1 DEF Apart, Appended
<1>3. PICK s, t : s = Following(f, a, k) /\ t = Following(f, c, k)
  OBVIOUS
<1>4. Lists(s) /\ Len(s) = A
      /\ \A j \in 1..A : s[j] = IF j > k /\ \A i \in k + 1..j : AnswersIn(f, a[i]) # <<>>
                                THEN AnswersIn(f, a[j]) ELSE <<>>
  BY <1>1, <1>3, FollowingIs DEF Apart
<1>5. Lists(t) /\ Len(t) = A + B
      /\ \A j \in 1..A + B : t[j] = IF j > k /\ \A i \in k + 1..j : AnswersIn(f, c[i]) # <<>>
                                    THEN AnswersIn(f, c[j]) ELSE <<>>
  BY <1>1, <1>3, FollowingIs, ApartReadable
<1>6. ASSUME NEW j \in 1..A PROVE t[j] = s[j]
  <2>1. j \in 1..A + B /\ \A i \in k + 1..j : i \in 1..A
    BY <1>1
  <2> QED BY <1>2, <1>4, <1>5, <2>1
<1>7. ASSUME NEW j \in A + 1..A + B PROVE t[j] = <<>>
  <2>1. A + 1 \in k + 1..j /\ j \in 1..A + B /\ B # 0 /\ 1 \in 1..B
    BY <1>1
  <2>2. AnswersIn(f, c[A + 1]) = <<>>
    BY <1>1, <1>2, <2>1 DEF Apart
  <2> QED BY <1>5, <2>1, <2>2
<1>8. FlattenSeq(t) = FlattenSeq(First(t, A))
  <2>1. A \in 0..Len(t) /\ \A j \in A + 1..Len(t) : t[j] = <<>>
    BY <1>1, <1>5, <1>7
  <2> QED BY <1>5, <2>1, FlattenTail
<1>9. First(t, A) = s
  <2>1. First(t, A) = [j \in 1..A |-> s[j]]
    BY <1>6 DEF First
  <2>2. s = [j \in 1..A |-> s[j]]
    BY <1>4, ListAre DEF Lists
  <2> QED BY <2>1, <2>2
<1> QED BY <1>3, <1>8, <1>9

LEMMA FollowingAfter ==
  ASSUME NEW f, NEW c, NEW a, NEW b, Apart(f, c, a, b), NEW l \in 1..Len(b)
  PROVE  FlattenSeq(Following(f, c, Len(a) + l)) = FlattenSeq(Following(f, b, l))
<1>0. Len(a) \in Nat
  BY DEF Apart, Appended
<1>1. PICK A, B, k : /\ A \in Nat /\ A = Len(a) /\ B \in Nat /\ B = Len(b) /\ Len(c) = A + B
                     /\ l \in 1..B /\ k = A + l
  BY DEF Apart, Appended
<1>2. (\A i \in 1..A : c[i] = a[i]) /\ (\A i \in 1..B : c[A + i] = b[i])
  BY <1>1 DEF Apart, Appended
<1>3. PICK s, t : s = Following(f, b, l) /\ t = Following(f, c, k)
  OBVIOUS
<1>4. Lists(s) /\ Len(s) = B
      /\ \A j \in 1..B : s[j] = IF j > l /\ \A i \in l + 1..j : AnswersIn(f, b[i]) # <<>>
                                THEN AnswersIn(f, b[j]) ELSE <<>>
  BY <1>1, <1>3, FollowingIs DEF Apart
<1>5. Lists(t) /\ Len(t) = A + B
      /\ \A j \in 1..A + B : t[j] = IF j > k /\ \A i \in k + 1..j : AnswersIn(f, c[i]) # <<>>
                                    THEN AnswersIn(f, c[j]) ELSE <<>>
  BY <1>1, <1>3, FollowingIs, ApartReadable
<1>6. ASSUME NEW j \in 1..B PROVE t[A + j] = s[j]
  <2>1. A + j \in 1..A + B /\ (A + j > k <=> j > l)
    BY <1>1
  <2>2. c[A + j] = b[j]
    BY <1>2
  <2>3. (\A i \in k + 1..A + j : AnswersIn(f, c[i]) # <<>>) <=> (\A i \in l + 1..j : AnswersIn(f, b[i]) # <<>>)
    <3>1. ASSUME NEW i \in l + 1..j, \A n \in k + 1..A + j : AnswersIn(f, c[n]) # <<>> PROVE AnswersIn(f, b[i]) # <<>>
      <4>1. A + i \in k + 1..A + j /\ i \in 1..B
        BY <1>1
      <4> QED BY <1>2, <3>1, <4>1
    <3>2. ASSUME NEW i \in k + 1..A + j, \A n \in l + 1..j : AnswersIn(f, b[n]) # <<>> PROVE AnswersIn(f, c[i]) # <<>>
      <4>1. PICK n : n \in l + 1..j /\ n \in 1..B /\ i = A + n
        <5>1. i - A \in l + 1..j /\ i - A \in 1..B /\ i = A + (i - A)
          BY <1>1
        <5> QED BY <5>1
      <4> QED BY <1>2, <3>2, <4>1
    <3> QED BY <3>1, <3>2
  <2> QED BY <1>4, <1>5, <2>1, <2>2, <2>3
<1>7. PICK u : u = First(t, A) /\ Lists(u) /\ Len(u) = A /\ \A j \in 1..A : u[j] = t[j]
  <2>1. A \in 0..Len(t)
    BY <1>1, <1>5
  <2>2. Lists(First(t, A)) /\ Len(First(t, A)) = A
    BY <1>5, <2>1, FirstLists
  <2> QED BY <2>2 DEF First
<1>8. \A j \in 1..A : u[j] = <<>>
  <2>1. \A j \in 1..A : j \in 1..A + B /\ ~(j > k)
    BY <1>1
  <2> QED BY <1>5, <1>7, <2>1
<1>9. Appended(t, u, s)
  BY <1>1, <1>4, <1>5, <1>6, <1>7 DEF Appended, Lists
<1>10. FlattenSeq(t) = FlattenSeq(u) \o FlattenSeq(s)
  BY <1>4, <1>7, <1>9, FlattenConcat
<1>11. FlattenSeq(u) = <<>> /\ List(FlattenSeq(s))
  BY <1>4, <1>7, <1>8, FlattenEmpty, FlattenList DEF Lists
<1>12. FlattenSeq(t) = FlattenSeq(s)
  BY <1>10, <1>11, ConcatEmpty
<1> QED BY <1>1, <1>3, <1>12

LEMMA PairedConcat ==
  ASSUME NEW f, NEW c, NEW a, NEW b, Apart(f, c, a, b), Paired(f, a), Paired(f, b)
  PROVE  Paired(f, c)
<1>1. PICK A, B : A \in Nat /\ A = Len(a) /\ B \in Nat /\ B = Len(b) /\ Len(c) = A + B
  BY DEF Apart, Appended
<1>2. (\A i \in 1..A : c[i] = a[i]) /\ (\A i \in 1..B : c[A + i] = b[i])
  BY <1>1 DEF Apart, Appended
<1>3. ASSUME NEW k \in 1..A PROVE Pairs(f, c, k)
  <2>1. Pairs(f, a, k) /\ c[k] = a[k]
    BY <1>1, <1>2 DEF Paired
  <2>2. FlattenSeq(Following(f, c, k)) = FlattenSeq(Following(f, a, k))
    BY <1>1, FollowingBefore
  <2>3. ASSUME f = "anthropic", k < Len(c) PROVE AnswersIn(f, c[k]) = <<>> \/ AnswersIn(f, c[k + 1]) = <<>>
    <3>1. CASE k < A
      <4>1. k + 1 \in 1..A
        BY <1>1, <3>1
      <4>2. AnswersIn(f, a[k]) = <<>> \/ AnswersIn(f, a[k + 1]) = <<>>
        BY <1>1, <2>1, <2>3, <3>1 DEF Pairs
      <4> QED BY <1>2, <4>1, <4>2
    <3>2. CASE ~(k < A)
      <4>1. k + 1 = A + 1 /\ B # 0 /\ 1 \in 1..B
        BY <1>1, <2>3, <3>2
      <4>2. c[A + 1] = b[1] /\ AnswersIn(f, b[1]) = <<>>
        BY <1>1, <1>2, <4>1 DEF Apart
      <4> QED BY <4>1, <4>2
    <3> QED BY <3>1, <3>2
  <2> QED BY <2>1, <2>2, <2>3 DEF Pairs
<1>4. ASSUME NEW l \in 1..B PROVE Pairs(f, c, A + l)
  <2>0. PICK k : k = A + l
    OBVIOUS
  <2>1. Pairs(f, b, l) /\ c[k] = b[l]
    BY <1>1, <1>2, <2>0 DEF Paired
  <2>2. FlattenSeq(Following(f, c, k)) = FlattenSeq(Following(f, b, l))
    BY <1>1, <2>0, FollowingAfter
  <2>3. ASSUME f = "anthropic", k < Len(c) PROVE AnswersIn(f, c[k]) = <<>> \/ AnswersIn(f, c[k + 1]) = <<>>
    <3>1. l < B /\ l + 1 \in 1..B /\ k + 1 = A + (l + 1)
      BY <1>1, <2>0, <2>3
    <3>2. AnswersIn(f, b[l]) = <<>> \/ AnswersIn(f, b[l + 1]) = <<>>
      BY <1>1, <2>1, <2>3, <3>1 DEF Pairs
    <3>3. c[k + 1] = b[l + 1]
      BY <1>2, <3>1
    <3> QED BY <2>1, <3>2, <3>3
  <2>4. Pairs(f, c, k)
    BY <2>1, <2>2, <2>3 DEF Pairs
  <2> QED BY <2>0, <2>4
<1>5. ASSUME NEW k \in 1..A + B PROVE Pairs(f, c, k)
  <2>1. CASE k \in 1..A
    BY <1>3, <2>1
  <2>2. CASE k \notin 1..A
    <3>1. PICK l : l \in 1..B /\ k = A + l
      <4>1. k - A \in 1..B /\ k = A + (k - A)
        BY <1>1, <2>2
      <4> QED BY <4>1
    <3> QED BY <1>4, <3>1
  <2> QED BY <2>1, <2>2
<1> QED BY <1>1, <1>5 DEF Paired

(* A part in which nothing is asked, and nothing answered.                 *)
Unasked(f, R) == List(R) /\ \A i \in 1..Len(R) : AnswersIn(f, R[i]) = <<>> /\ AsksIn(f, R[i]) = {}

LEMMA PairedUnasked ==
  ASSUME NEW f, NEW R, Unasked(f, R)
  PROVE  Readable(f, R) /\ Paired(f, R) /\ (Len(R) # 0 => AnswersIn(f, R[1]) = <<>>)
<1>1. PICK N : N \in Nat /\ N = Len(R)
  BY ListAre DEF Unasked
<1>2. Readable(f, R)
  BY EmptyList DEF Unasked, Readable
<1>3. ASSUME NEW k \in 1..N PROVE Pairs(f, R, k)
  <2>1. PICK s : s = Following(f, R, k) /\ List(s) /\ \A j \in 1..Len(s) : s[j] = <<>>
    <3>1. /\ Lists(Following(f, R, k)) /\ Len(Following(f, R, k)) = Len(R)
          /\ \A j \in 1..Len(R) :
               Following(f, R, k)[j] = IF j > k /\ \A i \in k + 1..j : AnswersIn(f, R[i]) # <<>>
                                       THEN AnswersIn(f, R[j]) ELSE <<>>
      BY <1>2, FollowingIs
    <3> QED BY <3>1 DEF Lists, Unasked
  <2>2. FlattenSeq(s) = <<>>
    BY <2>1, FlattenEmpty
  <2>3. PICK x : x = <<>> /\ DOMAIN x = {}
    OBVIOUS
  <2>4. ToSet(x) = {} /\ IsInjective(x)
    BY <2>3 DEF ToSet, IsInjective
  <2>5. AnswersIn(f, R[k]) = <<>> /\ AsksIn(f, R[k]) = {}
    BY <1>1 DEF Unasked
  <2> QED BY <2>1, <2>2, <2>3, <2>4, <2>5 DEF Pairs
<1>4. Len(R) # 0 => 1 \in 1..Len(R)
  BY <1>1
<1> QED BY <1>1, <1>2, <1>3, <1>4 DEF Paired, Unasked

(* A message that asks, and those that answer it.                          *)
LEMMA PairedAsked ==
  ASSUME NEW f, NEW R, Readable(f, R), NEW M \in Nat, M = Len(R), M > 1, f = "anthropic" => M = 2,
         AnswersIn(f, R[1]) = <<>>, \A i \in 2..M : AnswersIn(f, R[i]) # <<>>,
         NEW t, Lists(t), Len(t) = M, t[1] = <<>>, \A i \in 2..M : t[i] = AnswersIn(f, R[i]),
         NEW ids, FlattenSeq(t) = ids, ToSet(ids) = AsksIn(f, R[1]), IsInjective(ids)
  PROVE  Paired(f, R)
<1>1. PICK s : s = Following(f, R, 1) /\ Lists(s) /\ Len(s) = M
               /\ \A j \in 1..M : s[j] = IF j > 1 /\ \A i \in 1 + 1..j : AnswersIn(f, R[i]) # <<>>
                                         THEN AnswersIn(f, R[j]) ELSE <<>>
  BY FollowingIs
<1>2. ASSUME NEW j \in 1..M PROVE s[j] = t[j]
  <2>1. CASE j = 1
    BY <1>1, <2>1
  <2>2. CASE j # 1
    <3>1. j > 1 /\ j \in 2..M /\ \A i \in 1 + 1..j : i \in 2..M
      BY <2>2
    <3> QED BY <1>1, <3>1
  <2> QED BY <2>1, <2>2
<1>3. s = t
  BY <1>1, <1>2, ListsEqual DEF Lists
<1>4. ASSUME NEW k \in 1..M PROVE Pairs(f, R, k)
  <2>1. CASE k = 1
    BY <1>1, <1>3, <2>1 DEF Pairs
  <2>2. CASE k # 1
    <3>1. k \in 2..M /\ (M = 2 => ~(k < M))
      BY <2>2
    <3>2. AnswersIn(f, R[k]) # <<>>
      BY <3>1
    <3> QED BY <3>1, <3>2 DEF Pairs
  <2> QED BY <2>1, <2>2
<1> QED BY <1>4 DEF Paired

-----------------------------------------------------------------------------
(* What is selected of two parts, of all, of none.                         *)
LEMMA FlattenBehind ==
  ASSUME NEW t, Lists(t), NEW u, Lists(u), Len(t) = Len(u) + 1, t[1] = <<>>,
         \A i \in 1..Len(u) : t[1 + i] = u[i]
  PROVE  FlattenSeq(t) = FlattenSeq(u)
<1>1. PICK x : x = <<>> /\ List(x)
  BY EmptyList
<1>2. PICK v : v = <<x>> /\ Lists(v) /\ Len(v) = 1 /\ v[1] = x /\ FlattenSeq(v) = x
  <2>1. Lists(<<x>>) /\ Len(<<x>>) = 1 /\ FlattenSeq(<<x>>) = x
    BY <1>1, FlattenOne
  <2>2. <<x>>[1] = x
    BY OneList
  <2> QED BY <2>1, <2>2
<1>3. Len(u) \in Nat
  BY ListAre DEF Lists
<1>4. \A i \in 1..1 : i = 1
  OBVIOUS
<1>5. Appended(t, v, u)
  BY <1>1, <1>2, <1>3, <1>4 DEF Appended, Lists
<1>6. FlattenSeq(t) = FlattenSeq(v) \o FlattenSeq(u)
  BY <1>2, <1>5, FlattenConcat
<1>7. List(FlattenSeq(u))
  BY FlattenList
<1> QED BY <1>1, <1>2, <1>6, <1>7, ConcatEmpty

Selecting(s, K) == [i \in DOMAIN s |-> IF i \in K THEN <<s[i]>> ELSE <<>>]

LEMMA SelectingIs ==
  ASSUME NEW s, List(s), NEW K
  PROVE  /\ Lists(Selecting(s, K)) /\ Len(Selecting(s, K)) = Len(s)
         /\ Selected(s, K) = FlattenSeq(Selecting(s, K))
         /\ \A i \in 1..Len(s) : Selecting(s, K)[i] = IF i \in K THEN <<s[i]>> ELSE <<>>
<1>1. PICK N, z : N \in Nat /\ N = Len(s) /\ DOMAIN s = 1..N /\ z = Selecting(s, K)
  BY ListAre
<1>2. z = [i \in 1..N |-> z[i]] /\ \A i \in 1..N : z[i] = IF i \in K THEN <<s[i]>> ELSE <<>>
  BY <1>1 DEF Selecting
<1>3. \A i \in 1..N : List(z[i])
  BY <1>2, OneList, EmptyList
<1>4. Lists(z) /\ Len(z) = N
  BY <1>1, <1>2, <1>3, ListsOf
<1>5. Selected(s, K) = FlattenSeq(z)
  BY <1>1 DEF Selected, Selecting
<1> QED BY <1>1, <1>2, <1>4, <1>5

LEMMA SelectedConcat ==
  ASSUME NEW a, NEW b, NEW c, List(a), List(b), Appended(c, a, b), NEW K, NEW J, NEW L,
         \A i \in 1..Len(a) : i \in K <=> i \in J,
         \A i \in 1..Len(b) : Len(a) + i \in K <=> i \in L
  PROVE  Selected(c, K) = Selected(a, J) \o Selected(b, L)
<1>1. PICK A, B : A \in Nat /\ A = Len(a) /\ B \in Nat /\ B = Len(b) /\ Len(c) = A + B /\ List(c)
  BY DEF Appended
<1>2. (\A i \in 1..A : c[i] = a[i]) /\ (\A i \in 1..B : c[A + i] = b[i])
  BY <1>1 DEF Appended
<1>3. PICK s, t, u : s = Selecting(a, J) /\ t = Selecting(b, L) /\ u = Selecting(c, K)
  OBVIOUS
<1>4. Lists(s) /\ Len(s) = A /\ Selected(a, J) = FlattenSeq(s)
      /\ \A i \in 1..A : s[i] = IF i \in J THEN <<a[i]>> ELSE <<>>
  BY <1>1, <1>3, SelectingIs
<1>5. Lists(t) /\ Len(t) = B /\ Selected(b, L) = FlattenSeq(t)
      /\ \A i \in 1..B : t[i] = IF i \in L THEN <<b[i]>> ELSE <<>>
  BY <1>1, <1>3, SelectingIs
<1>6. Lists(u) /\ Len(u) = A + B /\ Selected(c, K) = FlattenSeq(u)
      /\ \A i \in 1..A + B : u[i] = IF i \in K THEN <<c[i]>> ELSE <<>>
  <2>1. List(c)
    BY <1>1
  <2>2. /\ Lists(Selecting(c, K)) /\ Len(Selecting(c, K)) = Len(c)
        /\ Selected(c, K) = FlattenSeq(Selecting(c, K))
        /\ \A i \in 1..Len(c) : Selecting(c, K)[i] = IF i \in K THEN <<c[i]>> ELSE <<>>
    BY <2>1, SelectingIs
  <2> QED BY <1>1, <1>3, <2>2
<1>7. \A i \in 1..A : u[i] = s[i]
  <2>1. \A i \in 1..A : i \in 1..A + B
    BY <1>1
  <2> QED BY <1>1, <1>2, <1>4, <1>6, <2>1
<1>8. \A i \in 1..B : u[A + i] = t[i]
  <2>1. \A i \in 1..B : A + i \in 1..A + B
    BY <1>1
  <2> QED BY <1>1, <1>2, <1>5, <1>6, <2>1
<1>9. Appended(u, s, t)
  BY <1>1, <1>4, <1>5, <1>6, <1>7, <1>8 DEF Appended, Lists
<1> QED BY <1>4, <1>5, <1>6, <1>9, FlattenConcat

LEMMA SelectedAll ==
  ASSUME NEW s, List(s), NEW K, \A i \in 1..Len(s) : i \in K
  PROVE  Selected(s, K) = s
<1>1. PICK z : z = Selecting(s, K)
  OBVIOUS
<1>2. Lists(z) /\ Len(z) = Len(s) /\ Selected(s, K) = FlattenSeq(z)
      /\ \A i \in 1..Len(s) : z[i] = IF i \in K THEN <<s[i]>> ELSE <<>>
  BY <1>1, SelectingIs
<1>3. List(z) /\ Len(z) = Len(s) /\ \A i \in 1..Len(s) : z[i] = <<s[i]>>
  BY <1>2 DEF Lists
<1>4. FlattenSeq(z) = s
  BY <1>3, FlattenSingles
<1> QED BY <1>2, <1>4

LEMMA SelectedNone ==
  ASSUME NEW s, List(s), NEW K, \A i \in 1..Len(s) : i \notin K
  PROVE  Selected(s, K) = <<>>
<1>1. PICK z : z = Selecting(s, K)
  OBVIOUS
<1>2. Lists(z) /\ Len(z) = Len(s) /\ Selected(s, K) = FlattenSeq(z)
      /\ \A i \in 1..Len(s) : z[i] = IF i \in K THEN <<s[i]>> ELSE <<>>
  BY <1>1, SelectingIs
<1>3. List(z) /\ \A i \in 1..Len(z) : z[i] = <<>>
  BY <1>2 DEF Lists
<1> QED BY <1>2, <1>3, FlattenEmpty

LEMMA OfTypeAll ==
  ASSUME NEW s, List(s), NEW types, \A i \in 1..Len(s) : s[i].type \in types
  PROVE  OfType(s, types) = s
<1>1. OfType(s, types) = Selected(s, TypePlaces(s, types))
  BY OfTypeFrom
<1>2. \A i \in 1..Len(s) : i \in TypePlaces(s, types)
  BY DEF TypePlaces
<1> QED BY <1>1, <1>2, SelectedAll

LEMMA OfTypeNone ==
  ASSUME NEW s, List(s), NEW types, \A i \in 1..Len(s) : s[i].type \notin types
  PROVE  OfType(s, types) = <<>>
<1>1. OfType(s, types) = Selected(s, TypePlaces(s, types))
  BY OfTypeFrom
<1>2. \A i \in 1..Len(s) : i \notin TypePlaces(s, types)
  BY DEF TypePlaces
<1> QED BY <1>1, <1>2, SelectedNone

LEMMA OfTypeConcat ==
  ASSUME NEW a, NEW b, NEW c, List(a), List(b), Appended(c, a, b), NEW types
  PROVE  OfType(c, types) = OfType(a, types) \o OfType(b, types)
<1>1. PICK A, B : A \in Nat /\ A = Len(a) /\ B \in Nat /\ B = Len(b) /\ Len(c) = A + B /\ List(c)
  BY DEF Appended
<1>2. (\A i \in 1..A : c[i] = a[i]) /\ (\A i \in 1..B : c[A + i] = b[i])
  BY <1>1 DEF Appended
<1>3. PICK J, L, K : J = TypePlaces(a, types) /\ L = TypePlaces(b, types) /\ K = TypePlaces(c, types)
  OBVIOUS
<1>4. OfType(a, types) = Selected(a, J) /\ OfType(b, types) = Selected(b, L) /\ OfType(c, types) = Selected(c, K)
  BY <1>1, <1>3, OfTypeFrom
<1>5. \A i \in 1..A : i \in K <=> i \in J
  <2>1. \A i \in 1..A : i \in 1..A + B
    BY <1>1
  <2> QED BY <1>1, <1>2, <1>3, <2>1 DEF TypePlaces
<1>6. \A i \in 1..B : A + i \in K <=> i \in L
  <2>1. \A i \in 1..B : A + i \in 1..A + B
    BY <1>1
  <2> QED BY <1>1, <1>2, <1>3, <2>1 DEF TypePlaces
<1>7. Selected(c, K) = Selected(a, J) \o Selected(b, L)
  BY <1>1, <1>5, <1>6, SelectedConcat
<1> QED BY <1>4, <1>7

(* What an assistant is sent as: what it thought, said and asked.          *)
Uses(e) == [i \in DOMAIN e.calls |-> ToolUse(e.calls[i])]
Thinks(e) == e.replay \o NonBlank(e.text)
AssistantParts(e, x, p, r, t, u) ==
  /\ x = AssistantContent(Assistant(e)) /\ p = Thinks(e) /\ r = e.replay /\ t = NonBlank(e.text) /\ u = Uses(e)
  /\ Appended(x, p, u) /\ Appended(p, r, t) /\ List(p) /\ List(r) /\ List(t) /\ List(u)
  /\ Len(u) = Len(e.calls) /\ \A i \in 1..Len(e.calls) : u[i] = ToolUse(e.calls[i])
  /\ \A i \in 1..Len(r) : r[i].type \in ReplayTypes
  /\ \A i \in 1..Len(t) : t[i].type = "text"
  /\ \A i \in 1..Len(p) : p[i].type \in ReplayTypes \cup {"text"}

LEMMA NonBlankText ==
  ASSUME NEW text
  PROVE  \A i \in 1..Len(NonBlank(text)) : NonBlank(text)[i].type = "text"
<1>1. PICK b, t : b = [type |-> "text", text |-> text] /\ t = NonBlank(text) /\ t \in {<<>>, <<b>>}
  BY NonBlankIs
<1>2. CASE t = <<>>
  <2>1. Len(t) = 0
    BY <1>2, EmptyList
  <2> QED BY <1>1, <2>1
<1>3. CASE t = <<b>>
  <2>1. Len(t) = 1 /\ t[1] = b /\ b.type = "text"
    BY <1>1, <1>3, OneList
  <2>2. \A i \in 1..1 : i = 1
    OBVIOUS
  <2> QED BY <1>1, <2>1, <2>2
<1> QED BY <1>1, <1>2, <1>3

LEMMA AssistantIs ==
  ASSUME NEW e, ToolEntry(e)
  PROVE  \E x, p, r, t, u : AssistantParts(e, x, p, r, t, u)
<1>1. PICK x, p, r, t, u :
        /\ x = AssistantContent(Assistant(e)) /\ p = Thinks(e) /\ r = e.replay /\ t = NonBlank(e.text)
        /\ u = Uses(e)
  OBVIOUS
<1>2. p = r \o t /\ x = p \o u
  BY <1>1, AssistantSays DEF Thinks, Uses
<1>3. PICK N : N \in Nat /\ N = Len(e.calls) /\ DOMAIN e.calls = 1..N
  BY ListAre DEF ToolEntry
<1>4. u = [i \in 1..N |-> u[i]] /\ \A i \in 1..N : u[i] = ToolUse(e.calls[i])
  BY <1>1, <1>3 DEF Uses
<1>5. List(u) /\ Len(u) = N
  BY <1>3, <1>4, ListOf
<1>6. List(r) /\ List(t) /\ \A i \in 1..Len(t) : t[i].type = "text"
  BY <1>1, NonBlankIs, NonBlankText DEF ToolEntry
<1>7. Appended(p, r, t) /\ List(p)
  BY <1>2, <1>6, ListConcat, ConcatLists
<1>8. Appended(x, p, u)
  BY <1>2, <1>5, <1>7, ListConcat
<1>9. \A i \in 1..Len(r) : r[i].type \in ReplayTypes
  BY <1>1 DEF ToolEntry
<1>10. ASSUME NEW i \in 1..Len(p) PROVE p[i].type \in ReplayTypes \cup {"text"}
  <2>1. PICK A, B : A \in Nat /\ A = Len(r) /\ B \in Nat /\ B = Len(t) /\ Len(p) = A + B
    BY <1>7 DEF Appended
  <2>2. CASE i \in 1..A
    BY <1>7, <1>9, <2>1, <2>2 DEF Appended
  <2>3. CASE i \notin 1..A
    <3>1. PICK j : j \in 1..B /\ i = A + j
      <4>1. i - A \in 1..B /\ i = A + (i - A)
        BY <2>1, <2>3
      <4> QED BY <4>1
    <3> QED BY <1>6, <1>7, <2>1, <3>1 DEF Appended
  <2> QED BY <2>2, <2>3
<1>11. AssistantParts(e, x, p, r, t, u)
  BY <1>1, <1>3, <1>4, <1>5, <1>6, <1>7, <1>8, <1>9, <1>10 DEF AssistantParts
<1> QED BY <1>11

LEMMA AssistantTypes ==
  ASSUME NEW e, NEW x, NEW p, NEW r, NEW t, NEW u, AssistantParts(e, x, p, r, t, u)
  PROVE  /\ OfType(x, ReplayTypes) = r /\ OfType(x, {"tool_use"}) = u /\ OfType(x, {"tool_result"}) = <<>>
<1>1. Appended(x, p, u) /\ Appended(p, r, t) /\ List(p) /\ List(r) /\ List(t) /\ List(u)
  BY DEF AssistantParts
<1>2. \A types : OfType(x, types) = OfType(p, types) \o OfType(u, types)
  BY <1>1, OfTypeConcat
<1>3. \A types : OfType(p, types) = OfType(r, types) \o OfType(t, types)
  BY <1>1, OfTypeConcat
<1>4. \A i \in 1..Len(u) : u[i].type = "tool_use"
  <2>1. \A i \in 1..Len(u) : u[i] = ToolUse(e.calls[i])
    BY DEF AssistantParts
  <2>2. \A c : ToolUse(c).type = "tool_use"
    BY DEF ToolUse
  <2> QED BY <2>1, <2>2
<1>5. \A i \in 1..Len(r) : r[i].type \in {"thinking", "redacted_thinking"}
  BY DEF AssistantParts, ReplayTypes
<1>6. \A i \in 1..Len(t) : t[i].type = "text"
  BY DEF AssistantParts
<1>7. OfType(x, ReplayTypes) = r
  <2>1. OfType(r, ReplayTypes) = r
    BY <1>1, <1>5, OfTypeAll DEF ReplayTypes
  <2>2. OfType(t, ReplayTypes) = <<>> /\ OfType(u, ReplayTypes) = <<>>
    <3>1. \A i \in 1..Len(t) : t[i].type \notin ReplayTypes
      BY <1>6 DEF ReplayTypes
    <3>2. \A i \in 1..Len(u) : u[i].type \notin ReplayTypes
      BY <1>4 DEF ReplayTypes
    <3> QED BY <1>1, <3>1, <3>2, OfTypeNone
  <2>3. OfType(p, ReplayTypes) = r
    BY <1>1, <1>3, <2>1, <2>2, ConcatEmpty
  <2> QED BY <1>1, <1>2, <2>2, <2>3, ConcatEmpty
<1>8. OfType(x, {"tool_use"}) = u
  <2>0. PICK types : types = {"tool_use"}
    OBVIOUS
  <2>1. OfType(u, types) = u
    BY <1>1, <1>4, <2>0, OfTypeAll
  <2>2. OfType(p, types) = <<>>
    <3>1. \A i \in 1..Len(p) : p[i].type \notin types
      BY <2>0 DEF AssistantParts, ReplayTypes
    <3> QED BY <1>1, <3>1, OfTypeNone
  <2>3. OfType(x, types) = u
    BY <1>1, <1>2, <2>1, <2>2, ConcatEmpty
  <2> QED BY <2>0, <2>3
<1>9. OfType(x, {"tool_result"}) = <<>>
  <2>0. PICK types : types = {"tool_result"}
    OBVIOUS
  <2>1. \A i \in 1..Len(u) : u[i].type \notin types
    BY <1>4, <2>0
  <2>2. \A i \in 1..Len(p) : p[i].type \notin types
    BY <2>0 DEF AssistantParts, ReplayTypes
  <2>3. OfType(u, types) = <<>> /\ OfType(p, types) = <<>>
    BY <1>1, <2>1, <2>2, OfTypeNone
  <2>4. OfType(x, types) = <<>>
    BY <1>2, <2>3, EmptyList, ConcatEmpty
  <2> QED BY <2>0, <2>4
<1> QED BY <1>7, <1>8, <1>9

-----------------------------------------------------------------------------
(* The parts of a request, in the format of the gateway: nothing is asked  *)
(* by what is only said, and what is asked with calls is answered.         *)
LEMMA WireApart ==
  ASSUME NEW c, NEW a, NEW b, Parted(c, a, b)
  PROVE  Appended(Wire(c), Wire(a), Wire(b))
<1>1. CASE format = "openai"
  BY <1>1 DEF Parted, Wire
<1>2. CASE format # "openai"
  <2>1. List(map_messages(a)) /\ List(map_messages(b))
    BY MappedIs, FlattenList DEF Parted
  <2>2. map_messages(c) = map_messages(a) \o map_messages(b)
    BY MapConcat
  <2>3. Appended(map_messages(a) \o map_messages(b), map_messages(a), map_messages(b))
    BY <2>1, ListConcat
  <2> QED BY <1>2, <2>2, <2>3 DEF Wire
<1> QED BY <1>1, <1>2

LEMMA UnaskedConcat ==
  ASSUME NEW f, NEW a, NEW b, NEW c, Unasked(f, a), Unasked(f, b), Appended(c, a, b)
  PROVE  Unasked(f, c)
<1>1. PICK A, B : A \in Nat /\ A = Len(a) /\ B \in Nat /\ B = Len(b) /\ List(c) /\ Len(c) = A + B
  BY DEF Appended
<1>2. ASSUME NEW i \in 1..A + B PROVE AnswersIn(f, c[i]) = <<>> /\ AsksIn(f, c[i]) = {}
  <2>1. CASE i \in 1..A
    BY <1>1, <2>1 DEF Appended, Unasked
  <2>2. CASE i \notin 1..A
    <3>1. PICK j : j \in 1..B /\ i = A + j
      <4>1. i - A \in 1..B /\ i = A + (i - A)
        BY <1>1, <2>2
      <4> QED BY <4>1
    <3> QED BY <1>1, <3>1 DEF Appended, Unasked
  <2> QED BY <2>1, <2>2
<1> QED BY <1>1, <1>2 DEF Unasked

LEMMA UnaskedOne ==
  ASSUME NEW f, NEW m, AnswersIn(f, m) = <<>>, AsksIn(f, m) = {}
  PROVE  Unasked(f, <<m>>)
<1>1. PICK s : s = <<m>> /\ List(s) /\ Len(s) = 1 /\ s[1] = m
  BY OneList
<1>2. \A i \in 1..1 : i = 1
  OBVIOUS
<1> QED BY <1>1, <1>2 DEF Unasked

LEMMA UnaskedNone == \A f : Unasked(f, <<>>)
  BY EmptyList DEF Unasked

(* What is only said.                                                      *)
LEMMA SaysContent ==
  ASSUME NEW role \in {"user", "assistant", "system"}, NEW text
  PROVE  Content(Says(role, text)) = NonBlank(text)
<1>1. PICK m : m = Says(role, text) /\ m.role = role /\ m.text = text /\ m.calls = <<>> /\ m.replay = <<>>
  BY SaysIs
<1>2. CASE role # "assistant"
  BY <1>1, <1>2 DEF Content
<1>3. CASE role = "assistant"
  <2>1. PICK u : u = [i \in DOMAIN m.calls |-> ToolUse(m.calls[i])]
    OBVIOUS
  <2>2. u = <<>>
    BY <1>1, <2>1
  <2>3. Content(m) = m.replay \o NonBlank(m.text) \o u
    BY <1>1, <1>3, <2>1 DEF Content, AssistantContent
  <2>4. List(NonBlank(text))
    BY NonBlankIs
  <2> QED BY <1>1, <2>2, <2>3, <2>4, ConcatEmpty
<1> QED BY <1>2, <1>3

LEMMA MapSystem ==
  ASSUME NEW m, Said(m), m.role = "system"
  PROVE  map_messages(<<m>>) = <<>>
<1>1. PICK c, s : c = <<m>> /\ s = MappedAll(c) /\ Messaged(c) /\ Len(c) = 1 /\ c[1] = m
  BY MessagedOne
<1>2. Lists(s) /\ Len(s) = 1 /\ map_messages(c) = FlattenSeq(s) /\ s[1] = Mapped(c, 1)
  BY <1>1, MappedIs
<1>3. s[1] = <<>>
  BY <1>1, <1>2 DEF Mapped
<1>4. List(s) /\ \A i \in 1..Len(s) : s[i] = <<>>
  <2>1. \A i \in 1..1 : i = 1
    OBVIOUS
  <2> QED BY <1>2, <1>3, <2>1 DEF Lists
<1> QED BY <1>1, <1>2, <1>4, FlattenEmpty

LEMMA UnaskedTexts ==
  ASSUME NEW role, NEW text, NEW m, m = [role |-> role, content |-> NonBlank(text)]
  PROVE  Unasked("anthropic", <<m>>)
<1>1. PICK b, T : b = NonBlank(text) /\ T = {"tool_result"} /\ m.content = b
  OBVIOUS
<1>2. List(b) /\ DOMAIN b = 1..Len(b) /\ \A i \in 1..Len(b) : b[i].type = "text"
  BY <1>1, NonBlankIs, NonBlankText, ListAre
<1>3. OfType(b, T) = <<>>
  <2>1. \A i \in 1..Len(b) : b[i].type \notin T
    BY <1>1, <1>2
  <2> QED BY <1>2, <2>1, OfTypeNone
<1>4. AnswersIn("anthropic", m) = <<>>
  <2>1. PICK r : r = OfType(m.content, {"tool_result"}) /\ r = <<>>
    BY <1>1, <1>3
  <2>2. AnswersIn("anthropic", m) = [i \in DOMAIN r |-> r[i].id]
    BY <2>1 DEF AnswersIn
  <2> QED BY <2>1, <2>2
<1>5. AsksIn("anthropic", m) = {}
  BY <1>1, <1>2 DEF AsksIn
<1> QED BY <1>4, <1>5, UnaskedOne

LEMMA UnaskedSays ==
  ASSUME format \in {"openai", "anthropic"}, NEW role \in {"user", "assistant", "system"}, NEW text
  PROVE  Unasked(format, Wire(<<Says(role, text)>>))
<1>1. PICK m : m = Says(role, text) /\ m.role = role /\ m.text = text /\ m.calls = <<>> /\ m.replay = <<>> /\ Said(m)
  BY SaysIs
<1>2. CASE format = "openai"
  <2>1. AnswersIn(format, m) = <<>>
    BY <1>1, <1>2 DEF AnswersIn
  <2>2. AsksIn(format, m) = {}
    BY <1>1, <1>2 DEF AsksIn
  <2> QED BY <1>1, <1>2, <2>1, <2>2, UnaskedOne DEF Wire
<1>3. CASE format = "anthropic"
  <2>1. Content(m) = NonBlank(text)
    BY <1>1, SaysContent
  <2>2. CASE role = "system" \/ Content(m) = <<>>
    <3>1. map_messages(<<m>>) = <<>>
      BY <1>1, <2>2, MapSystem, MapOne
    <3> QED BY <1>1, <1>3, <3>1, UnaskedNone DEF Wire
  <2>3. CASE role # "system" /\ Content(m) # <<>>
    <3>1. PICK w : w = [role |-> WireRole(m), content |-> NonBlank(text)]
      OBVIOUS
    <3>2. map_messages(<<m>>) = <<w>>
      BY <1>1, <2>1, <2>3, <3>1, MapOne
    <3>3. Unasked("anthropic", <<w>>)
      BY <3>1, UnaskedTexts
    <3> QED BY <1>1, <1>3, <3>2, <3>3 DEF Wire
  <2> QED BY <2>2, <2>3
<1> QED BY <1>2, <1>3

LEMMA UnaskedParts ==
  ASSUME NEW a, NEW b, Messaged(a), Messaged(b), b = <<>> \/ b[1].role # "tool",
         Unasked(format, Wire(a)), Unasked(format, Wire(b))
  PROVE  Unasked(format, Wire(a \o b))
<1>1. CASE b = <<>>
  BY <1>1, ConcatEmpty DEF Messaged
<1>2. CASE b # <<>>
  <2>1. Messaged(a \o b) /\ Appended(a \o b, a, b)
    BY MessagedBoth
  <2>2. Len(b) # 0
    BY <1>2, ListAre DEF Messaged
  <2>3. Parted(a \o b, a, b)
    BY <1>2, <2>1, <2>2 DEF Parted
  <2>4. Appended(Wire(a \o b), Wire(a), Wire(b))
    BY <2>3, WireApart
  <2> QED BY <2>4, UnaskedConcat
<1> QED BY <1>1, <1>2

LEMMA UnaskedEmpty == Unasked(format, Wire(<<>>))
<1>1. Messaged(<<>>) /\ Len(<<>>) = 0
  BY MessagedNone, EmptyList
<1>2. map_messages(<<>>) = <<>>
  <2>1. PICK s : s = MappedAll(<<>>) /\ Lists(s) /\ Len(s) = 0 /\ map_messages(<<>>) = FlattenSeq(s)
    BY <1>1, MappedIs
  <2>2. s = <<>>
    BY <2>1, ListAre DEF Lists
  <2> QED BY <2>1, <2>2, FlattenNone
<1> QED BY <1>2, UnaskedNone DEF Wire

LEMMA OpeningUnasked ==
  ASSUME format \in {"openai", "anthropic"}, NEW k
  PROVE  Unasked(format, Wire(Opening(k)))
<1>1. PICK p, q, r, b :
        /\ p = Says("system", System) /\ q = Says("user", Goal) /\ r = Says("user", <<"truncated", ToString(k)>>)
        /\ b = (IF k = 0 THEN <<>> ELSE <<r>>) /\ Opening(k) = <<p, q>> \o b
  BY DEF Opening
<1>2. /\ Unasked(format, Wire(<<p>>)) /\ Unasked(format, Wire(<<q>>)) /\ Unasked(format, Wire(<<r>>))
  BY <1>1, UnaskedSays
<1>3. /\ Messaged(<<p>>) /\ Messaged(<<q>>) /\ Messaged(<<r>>)
      /\ <<q>>[1].role # "tool" /\ <<r>>[1].role # "tool"
  <2>1. Said(p) /\ Said(q) /\ Said(r) /\ q.role = "user" /\ r.role = "user"
    BY <1>1, SaysIs
  <2>2. Messaged(<<p>>) /\ Messaged(<<q>>) /\ Messaged(<<r>>) /\ <<q>>[1] = q /\ <<r>>[1] = r
    BY <2>1, MessagedOne
  <2> QED BY <2>1, <2>2
<1>4. PICK a : a = <<p, q>> /\ a = <<p>> \o <<q>> /\ Messaged(a)
  BY <1>3, TwoOnes, MessagedBoth
<1>5. Unasked(format, Wire(a))
  BY <1>2, <1>3, <1>4, UnaskedParts
<1>6. Messaged(b) /\ (b = <<>> \/ b[1].role # "tool") /\ Unasked(format, Wire(b))
  BY <1>1, <1>2, <1>3, MessagedNone, UnaskedEmpty
<1> QED BY <1>1, <1>4, <1>5, <1>6, UnaskedParts

LEMMA TextUnasked ==
  ASSUME format \in {"openai", "anthropic"}, NEW e, TextEntry(e)
  PROVE  Unasked(format, Wire(EntryMessages(e)))
<1>1. PICK a, u, b : /\ a = (IF e.text = <<>> THEN <<>> ELSE <<Says("assistant", e.text)>>)
                     /\ u = Says("user", e.observation) /\ b = <<u>> /\ EntryMessages(e) = a \o b
  BY DEF EntryMessages, TextEntry
<1>2. Messaged(a) /\ Unasked(format, Wire(a))
  BY <1>1, MessagedNone, SaysIs, MessagedOne, UnaskedEmpty, UnaskedSays
<1>3. Messaged(b) /\ b[1].role # "tool" /\ Unasked(format, Wire(b))
  <2>1. Said(u) /\ u.role = "user" /\ Unasked(format, Wire(<<u>>))
    BY <1>1, SaysIs, UnaskedSays
  <2> QED BY <1>1, <2>1, MessagedOne
<1> QED BY <1>1, <1>2, <1>3, UnaskedParts

(* The calls of a Turn, and their answers.                                 *)
Ids(e) == [i \in DOMAIN e.calls |-> e.calls[i].id]

LEMMA IdsAre ==
  ASSUME NEW e, ToolEntry(e)
  PROVE  /\ List(Ids(e)) /\ Len(Ids(e)) = Len(e.calls) /\ Len(e.calls) \in Nat \ {0} /\ IsInjective(Ids(e))
         /\ DOMAIN e.calls = 1..Len(e.calls)
         /\ \A i \in 1..Len(e.calls) : Ids(e)[i] = e.calls[i].id
         /\ ToSet(Ids(e)) = {e.calls[i].id : i \in 1..Len(e.calls)}
<1>1. PICK N, s : N \in Nat \ {0} /\ N = Len(e.calls) /\ DOMAIN e.calls = 1..N /\ s = Ids(e)
  BY ListAre DEF ToolEntry
<1>2. s = [i \in 1..N |-> s[i]] /\ DOMAIN s = 1..N /\ \A i \in 1..N : s[i] = e.calls[i].id
  BY <1>1 DEF Ids
<1>3. List(s) /\ Len(s) = N
  BY <1>1, <1>2, ListOf
<1>4. IsInjective(s)
  <2>1. ASSUME NEW i \in 1..N, NEW j \in 1..N, s[i] = s[j] PROVE i = j
    <3>1. i \in DOMAIN e.calls /\ j \in DOMAIN e.calls /\ e.calls[i].id = e.calls[j].id
      BY <1>1, <1>2, <2>1
    <3> QED BY <3>1 DEF ToolEntry
  <2> QED BY <1>2, <2>1 DEF IsInjective
<1>5. ToSet(s) = {e.calls[i].id : i \in 1..N}
  BY <1>2 DEF ToSet
<1> QED BY <1>1, <1>2, <1>3, <1>4, <1>5

LEMMA ToolParts ==
  ASSUME NEW e, ToolEntry(e)
  PROVE  \E a, b : /\ a = <<Assistant(e)>> /\ b = ToolResults(e) /\ EntryMessages(e) = a \o b
                   /\ Messaged(a) /\ Messaged(b) /\ Messaged(a \o b) /\ Appended(a \o b, a, b)
<1>1. PICK a, b : a = <<Assistant(e)>> /\ b = ToolResults(e) /\ EntryMessages(e) = a \o b
  BY DEF EntryMessages, ToolEntry, ToolResults
<1>2. Assistant(e).role = "assistant" /\ List(Assistant(e).replay) /\ List(Assistant(e).calls)
  BY DEF Assistant, ChatMessage, ToolEntry
<1>3. Messaged(a) /\ Messaged(b)
  BY <1>1, <1>2, ContentOf, MessagedOne, ResultsAre
<1>4. Messaged(a \o b) /\ Appended(a \o b, a, b)
  BY <1>3, MessagedBoth
<1> QED BY <1>1, <1>3, <1>4

(* A part of a request that begins anew, and in which the asked answer.    *)
Complete(f, R) == Readable(f, R) /\ Paired(f, R) /\ (Len(R) # 0 => AnswersIn(f, R[1]) = <<>>)

LEMMA OpenaiPaired ==
  ASSUME NEW e, ToolEntry(e)
  PROVE  Complete("openai", EntryMessages(e))
<1>1. PICK a, b, R : /\ a = <<Assistant(e)>> /\ b = ToolResults(e) /\ R = EntryMessages(e)
                     /\ Messaged(R) /\ Appended(R, a, b)
  BY ToolParts
<1>2. PICK N, M, ids :
        /\ N \in Nat \ {0} /\ N = Len(e.calls) /\ DOMAIN e.calls = 1..N /\ M = N + 1 /\ ids = Ids(e)
        /\ List(ids) /\ Len(ids) = N /\ IsInjective(ids) /\ \A i \in 1..N : ids[i] = e.calls[i].id
        /\ ToSet(ids) = {e.calls[i].id : i \in 1..N}
  BY IdsAre
<1>3. Len(a) = 1 /\ a[1] = Assistant(e)
  BY <1>1, OneList
<1>4. Len(b) = N /\ \A i \in 1..N : b[i].role = "tool" /\ b[i].id = e.calls[i].id
  BY <1>1, <1>2, ResultsAre
<1>5. List(R) /\ Len(R) = M /\ R[1] = Assistant(e) /\ \A i \in 1..N : R[1 + i] = b[i]
  <2>1. Len(R) = 1 + N /\ 1 \in 1..Len(a)
    BY <1>1, <1>3, <1>4 DEF Appended
  <2>2. R[1] = a[1] /\ \A i \in 1..N : R[1 + i] = b[i]
    BY <1>1, <1>3, <1>4, <2>1 DEF Appended
  <2> QED BY <1>1, <1>2, <1>3, <2>1, <2>2 DEF Messaged
<1>6. AnswersIn("openai", R[1]) = <<>> /\ AsksIn("openai", R[1]) = ToSet(ids)
  <2>1. Assistant(e).role = "assistant" /\ Assistant(e).calls = e.calls
    BY DEF Assistant, ChatMessage
  <2> QED BY <1>2, <1>5, <2>1 DEF AnswersIn, AsksIn
<1>7. ASSUME NEW i \in 1..N PROVE AnswersIn("openai", R[1 + i]) = <<ids[i]>>
  BY <1>2, <1>4, <1>5 DEF AnswersIn
<1>8. ASSUME NEW j \in 2..M PROVE \E i \in 1..N : j = 1 + i
  <2>1. j - 1 \in 1..N /\ j = 1 + (j - 1)
    BY <1>2
  <2> QED BY <2>1
<1>9. Readable("openai", R)
  <2>1. ASSUME NEW j \in 1..M PROVE List(AnswersIn("openai", R[j]))
    <3>1. CASE j = 1
      BY <1>6, <3>1, EmptyList
    <3>2. CASE j # 1
      <4>1. j \in 2..M
        BY <3>2
      <4>2. PICK i \in 1..N : j = 1 + i
        BY <1>8, <4>1
      <4> QED BY <1>7, <4>2, OneList
    <3> QED BY <3>1, <3>2
  <2> QED BY <1>5, <2>1 DEF Readable
<1>10. PICK t : t = [j \in 1..M |-> IF j = 1 THEN <<>> ELSE AnswersIn("openai", R[j])]
  OBVIOUS
<1>11. M \in Nat /\ M > 1 /\ 1 \in 1..M
  BY <1>2
<1>12. t = [j \in 1..M |-> t[j]] /\ t[1] = <<>> /\ \A j \in 2..M : t[j] = AnswersIn("openai", R[j])
  BY <1>10, <1>11
<1>13. Lists(t) /\ Len(t) = M
  <2>1. ASSUME NEW j \in 1..M PROVE List(t[j])
    <3>1. CASE j = 1
      BY <1>12, <3>1, EmptyList
    <3>2. CASE j # 1
      <4>1. j \in 2..M
        BY <3>2
      <4> QED BY <1>5, <1>9, <1>12, <4>1 DEF Readable
    <3> QED BY <3>1, <3>2
  <2> QED BY <1>11, <1>12, <2>1, ListsOf
<1>14. PICK u : u = [i \in 1..N |-> <<ids[i]>>]
  OBVIOUS
<1>15. u = [i \in 1..N |-> u[i]] /\ \A i \in 1..N : u[i] = <<ids[i]>>
  BY <1>14
<1>16. Lists(u) /\ Len(u) = N
  <2>1. ASSUME NEW i \in 1..N PROVE List(u[i])
    <3>1. List(<<ids[i]>>)
      BY OneList
    <3> QED BY <1>15, <3>1
  <2>2. N \in Nat
    BY <1>2
  <2> QED BY <1>15, <2>1, <2>2, ListsOf
<1>17. FlattenSeq(u) = ids
  <2>1. List(u) /\ Len(u) = Len(ids) /\ \A i \in 1..Len(ids) : u[i] = <<ids[i]>>
    BY <1>2, <1>15, <1>16 DEF Lists
  <2> QED BY <1>2, <2>1, FlattenSingles
<1>18. FlattenSeq(t) = ids
  <2>1. \A i \in 1..N : t[1 + i] = u[i]
    <3>1. \A i \in 1..N : 1 + i \in 2..M
      BY <1>2
    <3> QED BY <1>7, <1>12, <1>15, <3>1
  <2>2. Len(t) = Len(u) + 1
    BY <1>2, <1>13, <1>16
  <2>3. FlattenSeq(t) = FlattenSeq(u)
    BY <1>12, <1>13, <1>16, <2>1, <2>2, FlattenBehind
  <2> QED BY <1>17, <2>3
<1>19. \A i \in 2..M : AnswersIn("openai", R[i]) # <<>>
  BY <1>7, <1>8
<1>20. Paired("openai", R)
  <2>1. PICK f : f = "openai" /\ f # "anthropic"
    OBVIOUS
  <2>2. Readable(f, R) /\ AnswersIn(f, R[1]) = <<>> /\ \A i \in 2..M : AnswersIn(f, R[i]) # <<>>
    BY <1>6, <1>9, <1>19, <2>1
  <2>3. \A i \in 2..M : t[i] = AnswersIn(f, R[i])
    BY <1>12, <2>1
  <2>4. ToSet(ids) = AsksIn(f, R[1]) /\ IsInjective(ids)
    BY <1>2, <1>6, <2>1
  <2>5. M \in Nat /\ M > 1 /\ M = Len(R) /\ Lists(t) /\ Len(t) = M /\ t[1] = <<>> /\ FlattenSeq(t) = ids
    BY <1>5, <1>11, <1>12, <1>13, <1>18
  <2>6. Paired(f, R)
    BY <2>1, <2>2, <2>3, <2>4, <2>5, PairedAsked
  <2> QED BY <2>1, <2>6
<1> QED BY <1>1, <1>6, <1>9, <1>20 DEF Complete

LEMMA AnswersOf ==
  ASSUME NEW e, ToolEntry(e), NEW w, w.content = Answering(e)
  PROVE  AnswersIn("anthropic", w) = Ids(e)
<1>1. PICK y, T : y = Answering(e) /\ T = {"tool_result"}
  OBVIOUS
<1>2. PICK N : N \in Nat /\ N = Len(e.calls) /\ DOMAIN e.calls = 1..N /\ List(y) /\ Len(y) = N
               /\ \A i \in 1..N : y[i] = ToolResult(ToolResults(e)[i])
  BY <1>1, AnsweringIs, IdsAre
<1>3. ASSUME NEW i \in 1..N PROVE y[i].type = "tool_result" /\ y[i].id = e.calls[i].id
  <2>1. ToolResults(e)[i].id = e.calls[i].id
    BY <1>2, ResultsAre
  <2>2. PICK m : m = ToolResults(e)[i] /\ y[i] = ToolResult(m)
    BY <1>2
  <2>3. y[i].type = "tool_result" /\ y[i].id = m.id
    BY <2>2 DEF ToolResult
  <2> QED BY <2>1, <2>2, <2>3
<1>4. OfType(y, T) = y
  <2>1. \A i \in 1..Len(y) : y[i].type \in T
    BY <1>1, <1>2, <1>3
  <2> QED BY <1>2, <2>1, OfTypeAll
<1>5. AnswersIn("anthropic", w) = [i \in DOMAIN y |-> y[i].id]
  BY <1>1, <1>4 DEF AnswersIn
<1>6. [i \in DOMAIN y |-> y[i].id] = [i \in 1..N |-> e.calls[i].id]
  <2>1. DOMAIN y = 1..N
    BY <1>2, ListAre
  <2> QED BY <1>3, <2>1
<1> QED BY <1>2, <1>5, <1>6 DEF Ids

LEMMA AsksOf ==
  ASSUME NEW e, ToolEntry(e), NEW w, w.content = AssistantContent(Assistant(e))
  PROVE  AnswersIn("anthropic", w) = <<>> /\ AsksIn("anthropic", w) = ToSet(Ids(e))
<1>1. PICK x, p, r, t, u : AssistantParts(e, x, p, r, t, u)
  BY AssistantIs
<1>2. w.content = x /\ Appended(x, p, u)
  BY <1>1 DEF AssistantParts
<1>3. AnswersIn("anthropic", w) = <<>>
  <2>1. PICK q : q = OfType(w.content, {"tool_result"}) /\ q = <<>>
    BY <1>1, <1>2, AssistantTypes
  <2>2. AnswersIn("anthropic", w) = [i \in DOMAIN q |-> q[i].id]
    BY <2>1 DEF AnswersIn
  <2> QED BY <2>1, <2>2
<1>4. PICK A, N : /\ A \in Nat /\ A = Len(p) /\ N \in Nat /\ N = Len(u) /\ N = Len(e.calls)
                  /\ List(x) /\ Len(x) = A + N /\ DOMAIN x = 1..A + N
  <2>1. Len(u) = Len(e.calls) /\ List(p) /\ List(u)
    BY <1>1 DEF AssistantParts
  <2>2. Len(p) \in Nat /\ Len(u) \in Nat
    BY <2>1, ListAre
  <2>3. List(x) /\ Len(x) = Len(p) + Len(u)
    BY <1>2 DEF Appended
  <2>4. DOMAIN x = 1..Len(x)
    BY <2>3, ListAre
  <2> QED BY <2>1, <2>2, <2>3, <2>4
<1>5. ASSUME NEW i \in 1..A PROVE x[i].type # "tool_use"
  <2>1. x[i] = p[i]
    BY <1>2, <1>4 DEF Appended
  <2>2. p[i].type \in ReplayTypes \cup {"text"}
    BY <1>1, <1>4 DEF AssistantParts
  <2> QED BY <2>1, <2>2 DEF ReplayTypes
<1>6. ASSUME NEW i \in 1..N PROVE x[A + i].type = "tool_use" /\ x[A + i].id = e.calls[i].id
  <2>1. x[A + i] = u[i]
    BY <1>2, <1>4 DEF Appended
  <2>2. u[i] = ToolUse(e.calls[i])
    BY <1>1, <1>4 DEF AssistantParts
  <2> QED BY <2>1, <2>2 DEF ToolUse
<1>7. PICK J : J = {j \in DOMAIN x : x[j].type = "tool_use"}
  OBVIOUS
<1>8. AsksIn("anthropic", w) = {x[i].id : i \in J}
  BY <1>2, <1>7 DEF AsksIn
<1>9. ASSUME NEW j \in J PROVE \E i \in 1..N : x[j].id = e.calls[i].id
  <2>1. j \in 1..A + N /\ x[j].type = "tool_use"
    BY <1>4, <1>7
  <2>2. j \notin 1..A
    BY <1>5, <2>1
  <2>3. PICK i : i \in 1..N /\ j = A + i
    <3>1. j - A \in 1..N /\ j = A + (j - A)
      BY <1>4, <2>1, <2>2
    <3> QED BY <3>1
  <2> QED BY <1>6, <2>3
<1>10. ASSUME NEW i \in 1..N PROVE \E j \in J : x[j].id = e.calls[i].id
  <2>1. A + i \in 1..A + N
    BY <1>4
  <2>2. A + i \in J
    BY <1>4, <1>6, <1>7, <2>1
  <2> QED BY <1>6, <2>2
<1>11. {x[i].id : i \in J} = {e.calls[i].id : i \in 1..N}
  <2>1. ASSUME NEW z \in {x[i].id : i \in J} PROVE z \in {e.calls[i].id : i \in 1..N}
    BY <1>9
  <2>2. ASSUME NEW z \in {e.calls[i].id : i \in 1..N} PROVE z \in {x[i].id : i \in J}
    BY <1>10
  <2> QED BY <2>1, <2>2
<1>12. ToSet(Ids(e)) = {e.calls[i].id : i \in 1..N}
  BY <1>4, IdsAre
<1> QED BY <1>3, <1>8, <1>11, <1>12

LEMMA MappedTool ==
  ASSUME NEW e, ToolEntry(e)
  PROVE  map_messages(EntryMessages(e)) = ToolMapped(e)
<1>1. PICK a, b, c : a = <<Assistant(e)>> /\ b = ToolResults(e) /\ c = EntryMessages(e) /\ Appended(c, a, b)
  BY ToolParts
<1> QED BY <1>1, MapAnswers

LEMMA AnthropicPaired ==
  ASSUME NEW e, ToolEntry(e)
  PROVE  Complete("anthropic", map_messages(EntryMessages(e)))
<1>1. PICK v, w, R : /\ v = [role |-> "assistant", content |-> AssistantContent(Assistant(e))]
                     /\ w = [role |-> "user", content |-> Answering(e)]
                     /\ R = <<v, w>> /\ R = map_messages(EntryMessages(e))
  BY MappedTool DEF ToolMapped
<1>2. v.content = AssistantContent(Assistant(e)) /\ w.content = Answering(e)
  BY <1>1
<1>3. List(R) /\ Len(R) = 2
  BY <1>1, TwoOnes
<1>0. R[1] = v /\ R[2] = w
  BY <1>1
<1>4. AnswersIn("anthropic", v) = <<>> /\ AsksIn("anthropic", v) = ToSet(Ids(e))
  BY <1>2, AsksOf
<1>5. AnswersIn("anthropic", w) = Ids(e)
  BY <1>2, AnswersOf
<1>6. PICK ids : ids = Ids(e) /\ List(ids) /\ IsInjective(ids) /\ ids # <<>>
  <2>1. List(Ids(e)) /\ Len(Ids(e)) # 0 /\ IsInjective(Ids(e))
    BY IdsAre
  <2> QED BY <2>1, EmptyList
<1>7. \A i \in 1..2 : i = 1 \/ i = 2
  OBVIOUS
<1>8. Readable("anthropic", R)
  BY <1>0, <1>3, <1>4, <1>5, <1>6, <1>7, EmptyList DEF Readable
<1>18. PICK x : x = <<>>
  OBVIOUS
<1>19. PICK u : u = <<ids>>
  OBVIOUS
<1>20. PICK t : t = <<x, ids>>
  OBVIOUS
<1>21. t[1] = x /\ t[2] = ids
  BY <1>20
<1>9. x = <<>> /\ u = <<ids>> /\ t = <<x, ids>> /\ t[1] = x /\ t[2] = ids
  BY <1>18, <1>19, <1>20, <1>21
<1>10. Lists(u) /\ Len(u) = 1 /\ u[1] = ids /\ FlattenSeq(u) = ids
  <2>1. Lists(<<ids>>) /\ Len(<<ids>>) = 1 /\ FlattenSeq(<<ids>>) = ids
    BY <1>6, FlattenOne
  <2> QED BY <1>9, <2>1, OneList
<1>11. Lists(t) /\ Len(t) = 2
  <2>1. List(t) /\ Len(t) = 2
    BY <1>9, TwoOnes
  <2>2. t = [i \in 1..2 |-> t[i]] /\ \A i \in 1..2 : List(t[i])
    BY <1>6, <1>7, <1>9, <2>1, EmptyList, ListAre
  <2>3. 2 \in Nat
    OBVIOUS
  <2> QED BY <2>2, <2>3, ListsOf
<1>12. FlattenSeq(t) = ids
  <2>1. \A i \in 1..1 : i = 1 /\ 1 + i = 2
    OBVIOUS
  <2>2. Len(t) = Len(u) + 1 /\ t[1] = <<>> /\ \A i \in 1..Len(u) : t[1 + i] = u[i]
    BY <1>9, <1>10, <1>11, <2>1
  <2> QED BY <1>10, <1>11, <2>2, FlattenBehind
<1>13. \A i \in 2..2 : i = 2
  OBVIOUS
<1>14. 2 \in Nat /\ 2 > 1
  OBVIOUS
<1>15. \A i \in 2..2 : AnswersIn("anthropic", R[i]) # <<>> /\ t[i] = AnswersIn("anthropic", R[i])
  BY <1>0, <1>5, <1>6, <1>9, <1>13
<1>16. AnswersIn("anthropic", R[1]) = <<>> /\ ToSet(ids) = AsksIn("anthropic", R[1]) /\ t[1] = <<>>
  BY <1>0, <1>4, <1>6, <1>9
<1>17. Paired("anthropic", R)
  BY <1>3, <1>6, <1>8, <1>11, <1>12, <1>14, <1>15, <1>16, PairedAsked
<1> QED BY <1>1, <1>8, <1>16, <1>17 DEF Complete

LEMMA EntryComplete ==
  ASSUME format \in {"openai", "anthropic"}, NEW e, Entered(e)
  PROVE  Complete(format, Wire(EntryMessages(e)))
<1>1. CASE TextEntry(e)
  BY <1>1, TextUnasked, PairedUnasked DEF Complete
<1>2. CASE ToolEntry(e) /\ format = "openai"
  BY <1>2, OpenaiPaired DEF Wire
<1>3. CASE ToolEntry(e) /\ format = "anthropic"
  BY <1>3, AnthropicPaired DEF Wire
<1> QED BY <1>1, <1>2, <1>3 DEF Entered

-----------------------------------------------------------------------------
(* Requests in which the asked answer, Turn after Turn.                    *)
LEMMA CompleteConcat ==
  ASSUME NEW f, NEW a, NEW b, NEW c, Complete(f, a), Complete(f, b), Appended(c, a, b)
  PROVE  Complete(f, c)
<1>1. Apart(f, c, a, b) /\ Paired(f, a) /\ Paired(f, b)
  BY DEF Complete, Apart
<1>2. Readable(f, c) /\ Paired(f, c)
  BY <1>1, ApartReadable, PairedConcat
<1>3. PICK A, B : A \in Nat /\ A = Len(a) /\ B \in Nat /\ B = Len(b) /\ Len(c) = A + B
  BY DEF Appended
<1>4. (\A i \in 1..A : c[i] = a[i]) /\ (\A i \in 1..B : c[A + i] = b[i])
  BY <1>3 DEF Appended
<1>5. (A # 0 => AnswersIn(f, a[1]) = <<>>) /\ (B # 0 => AnswersIn(f, b[1]) = <<>>)
  BY <1>3 DEF Complete
<1>6. ASSUME Len(c) # 0 PROVE AnswersIn(f, c[1]) = <<>>
  <2>1. CASE A # 0
    <3>1. 1 \in 1..A
      BY <1>3, <2>1
    <3> QED BY <1>4, <1>5, <2>1, <3>1
  <2>2. CASE A = 0
    <3>1. B # 0 /\ 1 \in 1..B /\ A + 1 = 1
      BY <1>3, <1>6, <2>2
    <3>2. c[A + 1] = b[1]
      BY <1>4, <3>1
    <3> QED BY <1>5, <3>1, <3>2
  <2> QED BY <2>1, <2>2
<1> QED BY <1>2, <1>6 DEF Complete

Sendable(h) == \A k \in 0..Len(h) : Complete(format, Wire(assemble(h, k)))

LEMMA SendableNone ==
  ASSUME format \in {"openai", "anthropic"}, NEW h, List(h), NEW k, k = Len(h)
  PROVE  Complete(format, Wire(assemble(h, k)))
<1>1. assemble(h, k) = Opening(k)
  BY AssembleAll
<1>2. Unasked(format, Wire(Opening(k)))
  BY OpeningUnasked
<1>3. PICK R : R = Wire(Opening(k)) /\ Unasked(format, R)
  BY <1>2
<1>4. Complete(format, R)
  BY <1>3, PairedUnasked DEF Complete
<1> QED BY <1>1, <1>3, <1>4

LEMMA SendableNext ==
  ASSUME format \in {"openai", "anthropic"}, NEW h, Recounts(h), Sendable(h), NEW e, Entered(e)
  PROVE  Sendable(Append(h, e))
<1>1. PICK g, n : n = Len(h) /\ n \in Nat /\ g = Append(h, e)
  BY ListAre DEF Recounts
<1>2. List(g) /\ Len(g) = n + 1
  <2>1. List(h)
    BY DEF Recounts
  <2> QED BY <1>1, <2>1, AppendIs
<1>3. ASSUME NEW k \in 0..n + 1 PROVE Complete(format, Wire(assemble(g, k)))
  <2>1. CASE k \in 0..n
    <3>1. PICK c, a, b : c = Wire(assemble(g, k)) /\ a = Wire(assemble(h, k)) /\ b = Wire(EntryMessages(e))
      OBVIOUS
    <3>2. Appended(c, a, b)
      BY <1>1, <2>1, <3>1, WireParts
    <3>3. Complete(format, a)
      BY <1>1, <2>1, <3>1 DEF Sendable
    <3>4. Complete(format, b)
      BY <3>1, EntryComplete
    <3>5. Complete(format, c)
      BY <3>2, <3>3, <3>4, CompleteConcat
    <3> QED BY <3>1, <3>5
  <2>2. CASE k \notin 0..n
    <3>1. k = Len(g)
      BY <1>1, <1>2, <2>2
    <3> QED BY <1>2, <3>1, SendableNone
  <2> QED BY <2>1, <2>2
<1> QED BY <1>1, <1>2, <1>3 DEF Sendable

PairInv == Sendable(history)

LEMMA PairStarts == CallInv /\ TalkInit => PairInv
<1> SUFFICES ASSUME CallInv, TalkInit PROVE PairInv
  OBVIOUS
<1>1. history = <<>> /\ format \in {"openai", "anthropic"}
  BY GatewayAssumption DEF CallInv, TalkInit
<1>2. List(history) /\ Len(history) = 0
  BY <1>1, EmptyList
<1>3. Complete(format, Wire(assemble(history, 0)))
  BY <1>1, <1>2, SendableNone
<1>4. \A k \in 0..0 : k = 0
  OBVIOUS
<1> QED BY <1>2, <1>3, <1>4 DEF PairInv, Sendable

LEMMA PairNexts ==
  ASSUME CallInv, TalkInv, PairInv, [TalkNext]_conversation
  PROVE  PairInv'
<1>1. CASE ToolsRun \/ NoAnswer
  <2>1. PICK e : Entered(e) /\ NextTurn(e)
    BY <1>1, EndsTurn DEF TurnEnds
  <2>2. history' = Append(history, e) /\ UNCHANGED format
    BY <2>1, NextTurnIs
  <2>3. format \in {"openai", "anthropic"} /\ Recounts(history)
    BY GatewayAssumption DEF CallInv, TalkInv
  <2>4. Sendable(history')
    BY <2>1, <2>2, <2>3, SendableNext DEF PairInv
  <2> QED BY <2>2, <2>4 DEF PairInv, Sendable, Wire
<1>2. CASE CallStep \/ UNCHANGED conversation
  <2>1. UNCHANGED history
    BY <1>2 DEF CallStep, conversation, talk
  <2>2. UNCHANGED format
    BY <1>2, CallKeepsFormat DEF CallStep, conversation
  <2> QED BY <2>1, <2>2 DEF PairInv, Sendable, Wire
<1> QED BY <1>1, <1>2 DEF TalkNext

LEMMA PairedAnswers ==
  ASSUME TalkInv, PairInv
  PROVE  CallsAnswered
<1>1. List(history) /\ dropped = Dropped(history) /\ request = Wire(assemble(history, dropped))
  BY DEF TalkInv, Recounts
<1>2. dropped \in 0..Len(history)
  BY <1>1, DroppedIs
<1>3. Complete(format, request)
  BY <1>1, <1>2 DEF PairInv, Sendable
<1>4. List(request) /\ Paired(format, request)
  BY <1>3 DEF Complete, Readable
<1>5. \A m : Asks(m) = AsksIn(format, m) /\ Answers(m) = AnswersIn(format, m)
  BY DEF Asks, AsksIn, Answers, AnswersIn
<1>6. ASSUME NEW k \in DOMAIN request
      PROVE  /\ LET answers == AnswersAfter(k) IN
                Answers(request[k]) = <<>> =>
                  /\ ToSet(answers) = Asks(request[k])
                  /\ IsInjective(answers)
             /\ format = "anthropic" /\ k < Len(request) =>
                  Answers(request[k]) = <<>> \/ Answers(request[k + 1]) = <<>>
  <2>1. Pairs(format, request, k)
    BY <1>4, ListAre DEF Paired
  <2>2. AnswersAfter(k) = FlattenSeq(Following(format, request, k))
    BY <1>5 DEF AnswersAfter, Following
  <2> QED BY <1>5, <2>1, <2>2 DEF Pairs
<1> QED BY <1>6 DEF CallsAnswered

(* In every request the calls of a Turn are answered, each once, before    *)
(* anything else is said, and nothing is answered that was not asked       *)
(* (context.rs, assemble; anthropic.rs, map_messages; runner.rs,           *)
(* resolve_call_ids).                                                      *)
THEOREM CallsPaired == TalkSpec => []CallsAnswered
<1>1. CallInv /\ TalkInit => PairInv
  BY PairStarts
<1>2. CallInv /\ TalkInv /\ PairInv /\ [TalkNext]_conversation => PairInv'
  BY PairNexts
<1>3. TalkInv /\ PairInv => CallsAnswered
  BY PairedAnswers
<1> QED BY <1>1, <1>2, <1>3, CallCorrect, TalkCorrect, PTL DEF TalkSpec

-----------------------------------------------------------------------------
(* The Turns that called tools, and the messages of a request that ask.    *)
Turns(h, k) == Selected([i \in DOMAIN h |-> i], {i \in k + 1..Len(h) : h[i].kind = "tool"})
Asking(f, R) == Selected(R, {j \in DOMAIN R : AsksIn(f, R[j]) # {}})

EchoesOf(m, blocks) ==
  LET uses == OfType(m.content, {"tool_use"})
      asks == OfType(blocks, {"tool_use"}) IN
  /\ Thoughts(m) = OfType(blocks, ReplayTypes)
  /\ Thoughts(m) = SubSeq(m.content, 1, Len(Thoughts(m)))
  /\ DOMAIN uses = DOMAIN asks
  /\ \A k \in DOMAIN asks : uses[k].input = tool_input(Requested(asks[k]).arguments)

Echoed(turns, asking, s) ==
  /\ List(turns) /\ List(asking) /\ Len(asking) = Len(turns)
  /\ \A n \in 1..Len(turns) : turns[n] \in 1..Len(s) /\ EchoesOf(asking[n], s[turns[n]].blocks)

LEMMA EchoedNone ==
  ASSUME NEW s
  PROVE  Echoed(<<>>, <<>>, s)
<1>1. PICK x : x = <<>> /\ List(x) /\ Len(x) = 0
  BY EmptyList
<1> QED BY <1>1 DEF Echoed

LEMMA EchoedOne ==
  ASSUME NEW s, NEW i \in 1..Len(s), NEW m, EchoesOf(m, s[i].blocks)
  PROVE  Echoed(<<i>>, <<m>>, s)
<1>1. PICK a : a = <<i>> /\ List(a) /\ Len(a) = 1 /\ a[1] = i
  BY OneList
<1>2. PICK b : b = <<m>> /\ List(b) /\ Len(b) = 1 /\ b[1] = m
  BY OneList
<1>3. \A n \in 1..1 : n = 1
  OBVIOUS
<1> QED BY <1>1, <1>2, <1>3 DEF Echoed

LEMMA EchoedKept ==
  ASSUME NEW turns, NEW asking, NEW s, List(s), Echoed(turns, asking, s), NEW x
  PROVE  Echoed(turns, asking, Append(s, x))
<1>1. PICK N, t : N \in Nat /\ N = Len(s) /\ t = Append(s, x) /\ Len(t) = N + 1 /\ \A i \in 1..N : t[i] = s[i]
  <2>1. Len(s) \in Nat
    BY ListAre
  <2>2. Len(Append(s, x)) = Len(s) + 1 /\ \A i \in 1..Len(s) : Append(s, x)[i] = s[i]
    BY AppendIs
  <2> QED BY <2>1, <2>2
<1>2. ASSUME NEW n \in 1..Len(turns) PROVE turns[n] \in 1..Len(t) /\ EchoesOf(asking[n], t[turns[n]].blocks)
  <2>1. PICK i : i = turns[n] /\ i \in 1..N /\ EchoesOf(asking[n], s[i].blocks)
    BY <1>1 DEF Echoed
  <2>2. i \in 1..N + 1 /\ t[i] = s[i]
    BY <1>1, <2>1
  <2> QED BY <1>1, <2>1, <2>2
<1> QED BY <1>1, <1>2 DEF Echoed

LEMMA EchoedConcat ==
  ASSUME NEW s, NEW a, NEW b, NEW c, NEW d, Echoed(a, c, s), Echoed(b, d, s)
  PROVE  Echoed(a \o b, c \o d, s)
<1>1. List(a) /\ List(b) /\ List(c) /\ List(d) /\ Len(c) = Len(a) /\ Len(d) = Len(b)
  BY DEF Echoed
<1>2. PICK x, y, A, B : /\ x = a \o b /\ y = c \o d /\ Appended(x, a, b) /\ Appended(y, c, d)
                        /\ A = Len(a) /\ B = Len(b)
  BY <1>1, ListConcat
<1>3. /\ A \in Nat /\ B \in Nat /\ List(x) /\ List(y) /\ Len(x) = A + B /\ Len(y) = A + B
      /\ \A i \in 1..A : x[i] = a[i] /\ y[i] = c[i]
      /\ \A i \in 1..B : x[A + i] = b[i] /\ y[A + i] = d[i]
  BY <1>1, <1>2 DEF Appended
<1>4. ASSUME NEW n \in 1..A + B PROVE x[n] \in 1..Len(s) /\ EchoesOf(y[n], s[x[n]].blocks)
  <2>1. CASE n \in 1..A
    <3>1. a[n] \in 1..Len(s) /\ EchoesOf(c[n], s[a[n]].blocks)
      BY <1>2, <2>1 DEF Echoed
    <3>2. x[n] = a[n] /\ y[n] = c[n]
      BY <1>3, <2>1
    <3> QED BY <3>1, <3>2
  <2>2. CASE n \notin 1..A
    <3>1. PICK i : i \in 1..B /\ n = A + i
      <4>1. n - A \in 1..B /\ n = A + (n - A)
        BY <1>3, <2>2
      <4> QED BY <4>1
    <3>2. b[i] \in 1..Len(s) /\ EchoesOf(d[i], s[b[i]].blocks)
      BY <1>2, <3>1 DEF Echoed
    <3>3. x[n] = b[i] /\ y[n] = d[i]
      BY <1>3, <3>1
    <3> QED BY <3>2, <3>3
  <2> QED BY <2>1, <2>2
<1>5. Echoed(x, y, s)
  BY <1>3, <1>4 DEF Echoed
<1> QED BY <1>2, <1>5

(* The messages that ask, of a request in two parts.                       *)
LEMMA AskingConcat ==
  ASSUME NEW f, NEW a, NEW b, NEW c, List(a), List(b), Appended(c, a, b)
  PROVE  Asking(f, c) = Asking(f, a) \o Asking(f, b)
<1>1. PICK A, B : /\ A \in Nat /\ A = Len(a) /\ B \in Nat /\ B = Len(b) /\ Len(c) = A + B /\ List(c)
                  /\ DOMAIN a = 1..A /\ DOMAIN b = 1..B
  BY ListAre DEF Appended
<1>2. DOMAIN c = 1..A + B
  BY <1>1, ListAre
<1>3. (\A i \in 1..A : c[i] = a[i]) /\ (\A i \in 1..B : c[A + i] = b[i])
  BY <1>1 DEF Appended
<1>4. PICK K, J, L : /\ K = {j \in DOMAIN c : AsksIn(f, c[j]) # {}}
                     /\ J = {j \in DOMAIN a : AsksIn(f, a[j]) # {}}
                     /\ L = {j \in DOMAIN b : AsksIn(f, b[j]) # {}}
  OBVIOUS
<1>5. \A i \in 1..A : i \in K <=> i \in J
  <2>1. \A i \in 1..A : i \in 1..A + B
    BY <1>1
  <2> QED BY <1>1, <1>2, <1>3, <1>4, <2>1
<1>6. \A i \in 1..B : A + i \in K <=> i \in L
  <2>1. \A i \in 1..B : A + i \in 1..A + B
    BY <1>1
  <2> QED BY <1>1, <1>2, <1>3, <1>4, <2>1
<1>7. Selected(c, K) = Selected(a, J) \o Selected(b, L)
  <2>1. \A i \in 1..Len(a) : i \in K <=> i \in J
    BY <1>1, <1>5
  <2>2. \A i \in 1..Len(b) : Len(a) + i \in K <=> i \in L
    BY <1>1, <1>6
  <2> QED BY <2>1, <2>2, SelectedConcat
<1> QED BY <1>4, <1>7 DEF Asking

LEMMA AskingUnasked ==
  ASSUME NEW f, NEW R, Unasked(f, R)
  PROVE  Asking(f, R) = <<>>
<1>1. PICK K : K = {j \in DOMAIN R : AsksIn(f, R[j]) # {}}
  OBVIOUS
<1>2. List(R) /\ \A i \in 1..Len(R) : i \notin K
  BY <1>1 DEF Unasked
<1>3. Selected(R, K) = <<>>
  BY <1>2, SelectedNone
<1> QED BY <1>1, <1>3 DEF Asking

LEMMA AskingOne ==
  ASSUME NEW f, NEW m, AsksIn(f, m) # {}
  PROVE  Asking(f, <<m>>) = <<m>>
<1>1. PICK R : R = <<m>> /\ List(R) /\ Len(R) = 1 /\ R[1] = m
  BY OneList
<1>2. PICK K : K = {j \in DOMAIN R : AsksIn(f, R[j]) # {}}
  OBVIOUS
<1>3. \A i \in 1..1 : i = 1 /\ i \in DOMAIN R
  BY <1>1, ListAre
<1>4. \A i \in 1..Len(R) : i \in K
  BY <1>1, <1>2, <1>3
<1>5. Selected(R, K) = R
  BY <1>1, <1>4, SelectedAll
<1> QED BY <1>1, <1>2, <1>5 DEF Asking

(* The Turns that called tools, of a history and one more.                 *)
LEMMA TurnsThen ==
  ASSUME NEW h, List(h), NEW e, NEW k \in 0..Len(h)
  PROVE  Turns(Append(h, e), k) = Turns(h, k) \o (IF e.kind = "tool" THEN <<Len(h) + 1>> ELSE <<>>)
<1>1. PICK N, M, g : N \in Nat /\ N = Len(h) /\ M = N + 1 /\ g = Append(h, e) /\ DOMAIN h = 1..N
  BY ListAre
<1>2. List(g) /\ Len(g) = M /\ g[M] = e /\ \A i \in 1..N : g[i] = h[i]
  BY <1>1, AppendIs
<1>3. DOMAIN g = 1..M
  BY <1>2, ListAre
<1>4. PICK a : a = [i \in DOMAIN h |-> i]
  OBVIOUS
<1>5. PICK c : c = [i \in DOMAIN g |-> i]
  OBVIOUS
<1>6. PICK b : b = <<M>> /\ List(b) /\ Len(b) = 1 /\ b[1] = M
  BY OneList
<1>7. List(a) /\ Len(a) = N /\ \A i \in 1..N : a[i] = i
  <2>1. a = [i \in 1..N |-> a[i]] /\ \A i \in 1..N : a[i] = i
    BY <1>1, <1>4
  <2> QED BY <1>1, <2>1, ListOf
<1>8. List(c) /\ Len(c) = M /\ \A i \in 1..M : c[i] = i
  <2>1. c = [i \in 1..M |-> c[i]] /\ \A i \in 1..M : c[i] = i
    BY <1>3, <1>5
  <2>2. M \in Nat
    BY <1>1
  <2> QED BY <2>1, <2>2, ListOf
<1>9. Appended(c, a, b)
  <2>1. (\A i \in 1..N : i \in 1..M) /\ (\A i \in 1..1 : i = 1) /\ M \in 1..M /\ N + 1 = M
    BY <1>1
  <2> QED BY <1>1, <1>6, <1>7, <1>8, <2>1 DEF Appended
<1>10. PICK K, J, L : /\ K = {i \in k + 1..M : g[i].kind = "tool"}
                      /\ J = {i \in k + 1..N : h[i].kind = "tool"}
                      /\ L = (IF e.kind = "tool" THEN {1} ELSE {})
  OBVIOUS
<1>11. \A i \in 1..N : i \in K <=> i \in J
  <2>1. \A i \in 1..N : i \in k + 1..M <=> i \in k + 1..N
    BY <1>1
  <2> QED BY <1>2, <1>10, <2>1
<1>12. \A i \in 1..1 : N + i \in K <=> i \in L
  <2>1. (\A i \in 1..1 : i = 1) /\ M \in k + 1..M /\ N + 1 = M
    BY <1>1
  <2> QED BY <1>2, <1>10, <2>1
<1>13. Selected(c, K) = Selected(a, J) \o Selected(b, L)
  <2>1. \A i \in 1..Len(a) : i \in K <=> i \in J
    BY <1>7, <1>11
  <2>2. \A i \in 1..Len(b) : Len(a) + i \in K <=> i \in L
    BY <1>6, <1>7, <1>12
  <2>3. List(a) /\ List(b) /\ Appended(c, a, b)
    BY <1>6, <1>7, <1>9
  <2> QED BY <2>1, <2>2, <2>3, SelectedConcat
<1>14. Selected(b, L) = IF e.kind = "tool" THEN <<M>> ELSE <<>>
  <2>1. \A i \in 1..1 : i = 1
    OBVIOUS
  <2>2. CASE e.kind = "tool"
    <3>1. \A i \in 1..Len(b) : i \in L
      BY <1>6, <1>10, <2>1, <2>2
    <3> QED BY <1>6, <2>2, <3>1, SelectedAll
  <2>3. CASE e.kind # "tool"
    <3>1. \A i \in 1..Len(b) : i \notin L
      BY <1>10, <2>3
    <3> QED BY <1>6, <2>3, <3>1, SelectedNone
  <2> QED BY <2>2, <2>3
<1>15. Turns(h, k) = Selected(a, J) /\ Turns(g, k) = Selected(c, K)
  BY <1>1, <1>2, <1>4, <1>5, <1>10 DEF Turns
<1> QED BY <1>1, <1>13, <1>14, <1>15

LEMMA TurnsNone ==
  ASSUME NEW h, List(h), NEW k, k = Len(h)
  PROVE  Turns(h, k) = <<>>
<1>1. PICK N : N \in Nat /\ N = Len(h) /\ DOMAIN h = 1..N
  BY ListAre
<1>2. PICK a : a = [i \in DOMAIN h |-> i]
  OBVIOUS
<1>3. List(a)
  <2>1. a = [i \in 1..N |-> a[i]]
    BY <1>1, <1>2
  <2> QED BY <1>1, <2>1, ListOf
<1>4. PICK K : K = {i \in k + 1..Len(h) : h[i].kind = "tool"} /\ K = {}
  <2>1. k + 1..Len(h) = {}
    BY <1>1
  <2> QED BY <2>1
<1>5. Selected(a, K) = <<>>
  BY <1>3, <1>4, SelectedNone
<1> QED BY <1>2, <1>4, <1>5 DEF Turns

(* What the next request says of the Turn that ends.                       *)
LEMMA ToolEchoes ==
  ASSUME format = "anthropic", NEW e, ToolEntry(e), NEW m, Uttered(outcome, m),
         e.replay = outcome.replay, NEW calls, calls = resolve_call_ids(outcome.tool_calls), e.calls = calls,
         NEW v, v.content = AssistantContent(Assistant(e))
  PROVE  EchoesOf(v, m.blocks)
<1>1. PICK x, p, r, t, u : AssistantParts(e, x, p, r, t, u)
  BY AssistantIs
<1>2. v.content = x /\ Appended(x, p, u) /\ Appended(p, r, t) /\ r = e.replay /\ List(r)
  BY <1>1 DEF AssistantParts
<1>3. OfType(x, ReplayTypes) = r /\ OfType(x, {"tool_use"}) = u
  BY <1>1, AssistantTypes
<1>4. r = OfType(m.blocks, ReplayTypes)
  BY <1>2 DEF Uttered
<1>5. r = SubSeq(x, 1, Len(r))
  <2>1. PICK R, T, U : R \in Nat /\ R = Len(r) /\ T \in Nat /\ T = Len(t) /\ Len(p) = R + T /\ U \in Nat /\ U = Len(u)
                       /\ Len(x) = R + T + U /\ List(x)
    BY <1>2 DEF Appended
  <2>2. R \in 0..Len(x)
    BY <2>1
  <2>3. SubSeq(x, 1, R) = First(x, R)
    BY <2>1, <2>2, FirstSub
  <2>4. ASSUME NEW i \in 1..R PROVE x[i] = r[i]
    <3>1. i \in 1..R + T
      BY <2>1
    <3>2. x[i] = p[i]
      BY <1>2, <2>1, <3>1 DEF Appended
    <3>3. p[i] = r[i]
      BY <1>2, <2>1 DEF Appended
    <3> QED BY <3>2, <3>3
  <2>5. First(x, R) = [i \in 1..R |-> r[i]]
    BY <2>4 DEF First
  <2>6. r = [i \in 1..R |-> r[i]]
    BY <1>2, <2>1, ListAre
  <2> QED BY <2>1, <2>3, <2>5, <2>6
<1>6. PICK c, q : c = OfType(m.blocks, {"tool_use"}) /\ q = outcome.tool_calls /\ q = Requests(c)
                  /\ Asked(q) /\ calls = resolve_call_ids(q)
  BY DEF Uttered
<1>7. Resolved(calls, q)
  BY <1>6, ResolvedAre
<1>8. PICK N : N \in Nat /\ N = Len(calls) /\ N = Len(q) /\ DOMAIN q = 1..N /\ List(q)
  <2>1. List(q) /\ Len(calls) = Len(q)
    BY <1>6, <1>7 DEF Asked, Resolved
  <2> QED BY <2>1, ListAre
<1>9. DOMAIN c = 1..N /\ \A i \in 1..N : q[i] = Requested(c[i])
  <2>1. q = [i \in DOMAIN c |-> Requested(c[i])]
    BY <1>6 DEF Requests
  <2> QED BY <1>8, <2>1
<1>10. DOMAIN u = 1..N /\ \A i \in 1..N : u[i] = ToolUse(calls[i])
  <2>1. List(u) /\ Len(u) = Len(e.calls) /\ \A i \in 1..Len(e.calls) : u[i] = ToolUse(e.calls[i])
    BY <1>1 DEF AssistantParts
  <2> QED BY <1>8, <2>1, ListAre
<1>11. ASSUME NEW i \in 1..N PROVE u[i].input = tool_input(Requested(c[i]).arguments)
  <2>1. u[i].input = tool_input(calls[i].arguments)
    BY <1>10 DEF ToolUse
  <2>2. calls[i].arguments = q[i].arguments
    BY <1>7, <1>8 DEF Resolved
  <2> QED BY <1>9, <2>1, <2>2
<1>12. DOMAIN u = DOMAIN c /\ \A k \in DOMAIN c : u[k].input = tool_input(Requested(c[k]).arguments)
  BY <1>9, <1>10, <1>11
<1>13. Thoughts(v) = r /\ OfType(v.content, {"tool_use"}) = u
  BY <1>2, <1>3 DEF Thoughts
<1> QED BY <1>2, <1>4, <1>5, <1>6, <1>12, <1>13 DEF EchoesOf

LEMMA ToolAsking ==
  ASSUME format = "anthropic", NEW e, ToolEntry(e),
         NEW v, v = [role |-> "assistant", content |-> AssistantContent(Assistant(e))]
  PROVE  Asking(format, Wire(EntryMessages(e))) = <<v>>
<1>1. PICK f, w, R : /\ f = "anthropic" /\ f = format /\ w = [role |-> "user", content |-> Answering(e)]
                     /\ R = <<v, w>> /\ R = Wire(EntryMessages(e))
  BY MappedTool DEF ToolMapped, Wire
<1>2. v.content = AssistantContent(Assistant(e)) /\ w.content = Answering(e)
  BY <1>1
<1>3. AsksIn(f, v) # {}
  <2>1. AsksIn("anthropic", v) = ToSet(Ids(e))
    BY <1>2, AsksOf
  <2>2. PICK N : N \in Nat \ {0} /\ N = Len(e.calls) /\ ToSet(Ids(e)) = {e.calls[i].id : i \in 1..N}
    BY IdsAre
  <2>3. 1 \in 1..N
    BY <2>2
  <2>4. e.calls[1].id \in ToSet(Ids(e))
    BY <2>2, <2>3
  <2> QED BY <1>1, <2>1, <2>4
<1>4. AsksIn(f, w) = {}
  <2>1. PICK y : y = Answering(e) /\ y = w.content
    BY <1>2
  <2>2. PICK N : N \in Nat /\ N = Len(y) /\ List(y) /\ DOMAIN y = 1..N
                 /\ \A i \in 1..N : y[i] = ToolResult(ToolResults(e)[i])
    <3>1. List(y) /\ Len(y) = Len(e.calls) /\ \A i \in 1..Len(e.calls) : y[i] = ToolResult(ToolResults(e)[i])
      BY <2>1, AnsweringIs
    <3> QED BY <3>1, ListAre
  <2>3. \A i \in 1..N : y[i].type # "tool_use"
    <3>1. \A z : ToolResult(z).type # "tool_use"
      BY DEF ToolResult
    <3> QED BY <2>2, <3>1
  <2> QED BY <1>1, <2>1, <2>2, <2>3 DEF AsksIn
<1>5. PICK a : a = <<v>> /\ List(a) /\ Len(a) = 1 /\ a[1] = v /\ Asking(f, a) = a
  <2>1. Asking(f, <<v>>) = <<v>>
    BY <1>3, AskingOne
  <2> QED BY <2>1, OneList
<1>6. PICK b : b = <<w>> /\ List(b) /\ Len(b) = 1 /\ b[1] = w
  BY OneList
<1>7. Asking(f, b) = <<>>
  <2>1. PICK K : K = {j \in DOMAIN b : AsksIn(f, b[j]) # {}}
    OBVIOUS
  <2>2. \A i \in 1..1 : i = 1
    OBVIOUS
  <2>3. \A i \in 1..Len(b) : i \notin K
    BY <1>4, <1>6, <2>1, <2>2
  <2>4. Selected(b, K) = <<>>
    BY <1>6, <2>3, SelectedNone
  <2> QED BY <2>1, <2>4 DEF Asking
<1>8. R = a \o b
  BY <1>1, <1>5, <1>6, TwoOnes
<1>9. Appended(R, a, b)
  BY <1>5, <1>6, <1>8, ListConcat
<1>10. Asking(f, R) = a \o <<>>
  BY <1>5, <1>6, <1>7, <1>9, AskingConcat
<1> QED BY <1>1, <1>5, <1>10, ConcatEmpty

(* The requests that can be made of the history echo the Turns they keep.  *)
EchoedFrom(k) == Echoed(Turns(history, k), Asking(format, Wire(assemble(history, k))), spoken)
EchoInv ==
  /\ List(spoken) /\ Len(spoken) = Len(history)
  /\ format = "anthropic" => \A k \in 0..Len(history) : EchoedFrom(k)

LEMMA EchoedOpening ==
  ASSUME format = "anthropic", NEW h, List(h), NEW k, k = Len(h), NEW s
  PROVE  Echoed(Turns(h, k), Asking(format, Wire(assemble(h, k))), s)
<1>1. assemble(h, k) = Opening(k) /\ Turns(h, k) = <<>>
  BY AssembleAll, TurnsNone
<1>2. Unasked(format, Wire(Opening(k)))
  BY OpeningUnasked
<1>3. Asking(format, Wire(Opening(k))) = <<>>
  BY <1>2, AskingUnasked
<1> QED BY <1>1, <1>3, EchoedNone

Repeats(e, m) == TextEntry(e) \/ (ToolEntry(e) /\ \A v : v.content = AssistantContent(Assistant(e)) => EchoesOf(v, m.blocks))

LEMMA EchoedThen ==
  ASSUME format = "anthropic", NEW h, Recounts(h), NEW s, List(s), Len(s) = Len(h),
         NEW e, NEW m, Repeats(e, m), NEW k \in 0..Len(h),
         Echoed(Turns(h, k), Asking(format, Wire(assemble(h, k))), s)
  PROVE  Echoed(Turns(Append(h, e), k), Asking(format, Wire(assemble(Append(h, e), k))), Append(s, m))
<1>1. PICK N, g, z : N \in Nat /\ N = Len(h) /\ N = Len(s) /\ g = Append(h, e) /\ z = Append(s, m) /\ List(h)
  BY ListAre DEF Recounts
<1>2. Len(z) = N + 1 /\ z[N + 1] = m
  BY <1>1, AppendIs
<1>3. Entered(e)
  BY DEF Repeats, Entered
<1>4. PICK c, a, b : /\ c = Wire(assemble(g, k)) /\ a = Wire(assemble(h, k)) /\ b = Wire(EntryMessages(e))
                     /\ Appended(c, a, b) /\ List(a) /\ List(b)
  <2>1. Appended(Wire(assemble(g, k)), Wire(assemble(h, k)), Wire(EntryMessages(e)))
    BY <1>1, <1>3, WireParts
  <2>2. List(Wire(assemble(h, k)))
    BY AssembleMessaged, WireList
  <2>3. List(Wire(EntryMessages(e)))
    BY <1>3, EntryWired
  <2> QED BY <2>1, <2>2, <2>3
<1>5. Asking(format, c) = Asking(format, a) \o Asking(format, b)
  BY <1>4, AskingConcat
<1>6. PICK d : d = (IF e.kind = "tool" THEN <<N + 1>> ELSE <<>>) /\ Turns(g, k) = Turns(h, k) \o d
  BY <1>1, TurnsThen
<1>7. Echoed(Turns(h, k), Asking(format, a), z)
  BY <1>1, <1>4, EchoedKept
<1>8. Echoed(d, Asking(format, b), z)
  <2>1. CASE TextEntry(e)
    <3>1. e.kind # "tool"
      BY <2>1 DEF TextEntry
    <3>2. Unasked(format, b)
      BY <1>4, <2>1, TextUnasked
    <3>3. Asking(format, b) = <<>>
      BY <3>2, AskingUnasked
    <3> QED BY <1>6, <3>1, <3>3, EchoedNone
  <2>2. CASE ToolEntry(e) /\ ~TextEntry(e)
    <3>1. PICK v : v = [role |-> "assistant", content |-> AssistantContent(Assistant(e))]
      OBVIOUS
    <3>2. EchoesOf(v, m.blocks)
      BY <2>2, <3>1 DEF Repeats
    <3>3. Asking(format, b) = <<v>>
      BY <1>4, <2>2, <3>1, ToolAsking
    <3>4. e.kind = "tool"
      BY <2>2 DEF ToolEntry
    <3>5. N + 1 \in 1..Len(z) /\ EchoesOf(v, z[N + 1].blocks)
      BY <1>1, <1>2, <3>2
    <3>6. Echoed(<<N + 1>>, <<v>>, z)
      BY <3>5, EchoedOne
    <3> QED BY <1>6, <3>3, <3>4, <3>6
  <2> QED BY <1>3, <2>1, <2>2 DEF Entered
<1>9. Echoed(Turns(h, k) \o d, Asking(format, a) \o Asking(format, b), z)
  BY <1>7, <1>8, EchoedConcat
<1> QED BY <1>1, <1>4, <1>5, <1>6, <1>9

LEMMA TurnRepeats ==
  ASSUME CallInv, format = "anthropic", ToolsRun \/ NoAnswer
  PROVE  \E e : Entered(e) /\ NextTurn(e) /\ Repeats(e, said)
<1>1. PICK e : /\ Entered(e) /\ NextTurn(e)
               /\ IF outcome.tool_calls = <<>> THEN e = TextTurn
                  ELSE \E calls \in {resolve_call_ids(outcome.tool_calls)} :
                         \E outcomes \in [DOMAIN calls -> Results] : e = ToolTurn(calls, outcomes)
  BY EndsTurn DEF TurnEnds
<1>2. Replied
  BY DEF ToolsRun, NoAnswer
<1>3. Uttered(outcome, said)
  BY <1>2, ReplySaid
<1>4. CASE outcome.tool_calls = <<>>
  <2>1. TextEntry(e)
    BY <1>1, <1>3, <1>4, TurnText
  <2> QED BY <1>1, <2>1 DEF Repeats
<1>5. CASE outcome.tool_calls # <<>>
  <2>1. PICK calls, outcomes : /\ calls = resolve_call_ids(outcome.tool_calls) /\ outcomes \in [DOMAIN calls -> Results]
                               /\ e = ToolTurn(calls, outcomes)
    BY <1>1, <1>5
  <2>2. ToolEntry(e)
    BY <1>3, <1>5, <2>1, TurnTool
  <2>3. e.replay = outcome.replay /\ e.calls = calls
    BY <2>1 DEF ToolTurn
  <2>4. ASSUME NEW v, v.content = AssistantContent(Assistant(e)) PROVE EchoesOf(v, said.blocks)
    BY <1>3, <2>1, <2>2, <2>3, <2>4, ToolEchoes
  <2> QED BY <1>1, <2>2, <2>4 DEF Repeats
<1> QED BY <1>4, <1>5

LEMMA EchoStarts == TalkInit => EchoInv
<1> SUFFICES ASSUME TalkInit PROVE EchoInv
  OBVIOUS
<1>1. history = <<>> /\ spoken = <<>>
  BY DEF TalkInit
<1>2. List(history) /\ List(spoken) /\ Len(history) = 0 /\ Len(spoken) = 0
  BY <1>1, EmptyList
<1>3. ASSUME format = "anthropic"
      PROVE  Echoed(Turns(history, 0), Asking(format, Wire(assemble(history, 0))), spoken)
  BY <1>2, <1>3, EchoedOpening
<1>4. \A k \in 0..0 : k = 0
  OBVIOUS
<1> QED BY <1>2, <1>3, <1>4 DEF EchoInv, EchoedFrom

LEMMA EchoNexts ==
  ASSUME CallInv, TalkInv, EchoInv, [TalkNext]_conversation
  PROVE  EchoInv'
<1>1. CASE ToolsRun \/ NoAnswer
  <2>1. PICK e : Entered(e) /\ NextTurn(e) /\ (format = "anthropic" => Repeats(e, said))
    <3>1. CASE format = "anthropic"
      BY <1>1, <3>1, TurnRepeats
    <3>2. CASE format # "anthropic"
      BY <1>1, <3>2, EndsTurn DEF TurnEnds
    <3> QED BY <3>1, <3>2
  <2>2. history' = Append(history, e) /\ spoken' = Append(spoken, said) /\ UNCHANGED format
    BY <2>1, NextTurnIs
  <2>3. PICK h, s, g, t, N :
          /\ h = history /\ s = spoken /\ g = Append(h, e) /\ t = Append(s, said) /\ g = history' /\ t = spoken'
          /\ Recounts(h) /\ List(h) /\ List(s) /\ N = Len(h) /\ N = Len(s) /\ N \in Nat
    <3>1. Recounts(history) /\ List(history) /\ List(spoken) /\ Len(spoken) = Len(history)
      BY DEF TalkInv, Recounts, EchoInv
    <3>2. Len(history) \in Nat
      BY <3>1, ListAre
    <3> QED BY <2>2, <3>1, <3>2
  <2>4. List(g) /\ Len(g) = N + 1 /\ List(t) /\ Len(t) = N + 1
    BY <2>3, AppendIs
  <2>5. ASSUME format = "anthropic", NEW k \in 0..N + 1
        PROVE  Echoed(Turns(g, k), Asking(format, Wire(assemble(g, k))), t)
    <3>1. CASE k \in 0..N
      <4>1. Echoed(Turns(h, k), Asking(format, Wire(assemble(h, k))), s)
        BY <2>3, <2>5, <3>1 DEF EchoInv, EchoedFrom
      <4>2. Repeats(e, said)
        BY <2>1, <2>5
      <4>3. Len(s) = Len(h) /\ k \in 0..Len(h) /\ Recounts(h) /\ List(s)
        BY <2>3, <3>1
      <4>4. Echoed(Turns(Append(h, e), k), Asking(format, Wire(assemble(Append(h, e), k))), Append(s, said))
        BY <2>5, <4>1, <4>2, <4>3, EchoedThen
      <4> QED BY <2>3, <4>4
    <3>2. CASE k \notin 0..N
      <4>1. k = Len(g) /\ List(g)
        BY <2>3, <2>4, <3>2
      <4>2. format = "anthropic"
        BY <2>5
      <4> QED BY <4>1, <4>2, EchoedOpening
    <3> QED BY <3>1, <3>2
  <2>6. format' = format /\ history' = g /\ spoken' = t
    BY <2>2, <2>3
  <2>7. List(spoken') /\ Len(spoken') = Len(history') /\ Len(history') = N + 1
    BY <2>4, <2>6
  <2>8. ASSUME format' = "anthropic", NEW k \in 0..Len(history')
        PROVE  EchoedFrom(k)'
    <3>1. format = "anthropic" /\ k \in 0..N + 1
      BY <2>6, <2>7, <2>8
    <3>2. Echoed(Turns(g, k), Asking(format, Wire(assemble(g, k))), t)
      BY <2>5, <3>1
    <3> QED BY <2>6, <3>2 DEF EchoedFrom, Wire
  <2> QED BY <2>7, <2>8 DEF EchoInv
<1>2. CASE CallStep \/ UNCHANGED conversation
  <2>1. UNCHANGED <<history, spoken>>
    BY <1>2 DEF CallStep, conversation, talk
  <2>2. UNCHANGED format
    BY <1>2, CallKeepsFormat DEF CallStep, conversation
  <2> QED BY <2>1, <2>2 DEF EchoInv, EchoedFrom, Wire
<1> QED BY <1>1, <1>2 DEF TalkNext

LEMMA EchoesTurns ==
  ASSUME TalkInv, EchoInv
  PROVE  TurnEchoed
<1> SUFFICES ASSUME format = "anthropic" PROVE TurnEchoed
  BY DEF TurnEchoed
<1>1. List(history) /\ dropped = Dropped(history) /\ request = Wire(assemble(history, dropped))
  BY DEF TalkInv, Recounts
<1>2. dropped \in 0..Len(history)
  BY <1>1, DroppedIs
<1>3. Echoed(Turns(history, dropped), Asking(format, request), spoken)
  BY <1>1, <1>2 DEF EchoInv, EchoedFrom
<1>4. PICK turns, asking : turns = Turns(history, dropped) /\ asking = Asking(format, request)
  OBVIOUS
<1>5. Len(asking) = Len(turns) /\ \A k \in DOMAIN turns : EchoesOf(asking[k], spoken[turns[k]].blocks)
  BY <1>3, <1>4, ListAre DEF Echoed
<1>6. \A i, m : EchoesOf(m, spoken[i].blocks) <=> Echoes(i, m)
  BY DEF EchoesOf, Echoes, tool_input
<1>7. Len(asking) = Len(turns) /\ \A k \in DOMAIN turns : Echoes(turns[k], asking[k])
  BY <1>5, <1>6
<1>8. \A m : AsksIn(format, m) = Asks(m)
  BY DEF AsksIn, Asks
<1>9. asking = Selected(request, {k \in DOMAIN request : Asks(request[k]) # {}})
  BY <1>4, <1>8 DEF Asking
<1> QED BY <1>4, <1>7, <1>9 DEF TurnEchoed, Turns

(* A Turn that called tools is echoed as the gateway said it, thinking     *)
(* first and verbatim, calls with their arguments, which are empty where   *)
(* they were said as no object, in every request that keeps it             *)
(* (request.rs, ReplayBlocks; anthropic.rs, assistant_content, tool_input).*)
THEOREM TurnsEchoed == TalkSpec => []TurnEchoed
<1>1. TalkInit => EchoInv
  BY EchoStarts
<1>2. CallInv /\ TalkInv /\ EchoInv /\ [TalkNext]_conversation => EchoInv'
  BY EchoNexts
<1>3. TalkInv /\ EchoInv => TurnEchoed
  BY EchoesTurns
<1> QED BY <1>1, <1>2, <1>3, CallCorrect, TalkCorrect, PTL DEF TalkSpec
=============================================================================
