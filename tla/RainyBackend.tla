---------------------------- MODULE RainyBackend ----------------------------
(***************************************************************************)
(* The Rainy adapter: the model catalogue and its cache, the models that   *)
(* were refused tools, the request of a step, and the task that turns the  *)
(* provider's stream (Responses or Chat Completions) into model events on  *)
(* a bounded channel.  The provider may send anything, in any order, stop  *)
(* anywhere or never; the agent reads the channel or drops it.             *)
(*                                                                         *)
(* Identifiers are records of what the code looks at, an Option is <<>> or *)
(* <<value>>, and JSON text is a sequence of pieces, of which ValidJson    *)
(* are documents.                                                          *)
(***************************************************************************)
EXTENDS Integers, Sequences, FiniteSets

CONSTANTS
    ModelIds,         \* identifiers: [provider, start, clean]
    CatalogItems,     \* entries that the provider may list: [id, v1, parameters]
    CallIds,          \* call and item identifiers the provider uses
    ProviderCalls,    \* the calls of a Responses stream
    Namings,          \* how an event may name its call: [of, call, item], the last two Options
    ChannelCapacity,  \* STREAM_CHANNEL_CAPACITY
    MaxEvents,        \* bound: items of one stream
    MaxSteps          \* bound: requests and catalogue questions

ChatIndices == {"0", "1"}
IdField == {<<>>, <<"">>} \cup {<<i>> : i \in CallIds}

ASSUME RainyAssumption ==
    /\ ChannelCapacity \in Nat \ {0} /\ MaxEvents \in Nat /\ MaxSteps \in Nat
    /\ CallIds \cap {"", "none"} = {} /\ ProviderCalls \cap ChatIndices = {}
    /\ Namings \subseteq [of : ProviderCalls, call : IdField, item : IdField]

VARIABLES
    catalogCache,  \* CatalogCache: the views and whether CATALOG_TTL has not passed, or NoCache
    deniedModels,  \* denied_tool_models
    offered,       \* the views of the last answer to discover_models
    attached,      \* whether the request of the step carried a continuation
    adapter,       \* the task: place, open calls, completed calls, chat state, events to send
    channel,       \* the mpsc channel: what is in it and whether the receiver lives
    received,      \* what the agent took from the channel
    opened,        \* history: the identifiers or indices under which the stream began a call
    named,         \* history: the calls of the stream with the identifiers it gave them
    refused,       \* history: the models whose requests the provider refused for their tools
    rainySteps     \* requests and questions so far

rainyVars == <<catalogCache, deniedModels, offered, attached, adapter, channel, received, opened, named,
               refused, rainySteps>>
streamHistory == <<opened, named>>

NoModel == [provider |-> "none", start |-> "none", clean |-> FALSE]
NoCache == [fresh |-> FALSE, views |-> {}, none |-> TRUE]

NoRequest == [pc |-> "idle", calls |-> <<>>, completed |-> {}, chat |-> <<>>, terminal |-> FALSE,
         usage |-> FALSE, outbox |-> <<>>, closing |-> FALSE, events |-> 0]
Running == adapter.pc # "idle"
EmptyChannel == [queue |-> <<>>, open |-> TRUE]

Pieces == {"{", "}", "{}"}
ValidJson == {<<"{}">>, <<"{", "}">>}

-----------------------------------------------------------------------------
(* The catalogue.                                                          *)

BoundedIdentifier(id) == id.clean

CapabilityFlag(flag) == IF flag = "yes" THEN "supported" ELSE IF flag = "no" THEN "unsupported" ELSE "unknown"

\* The first generation of the catalogue says it in a flag, the second in the parameter names.
Capability(item, flag, names) ==
    IF item.v1 # <<>> THEN CapabilityFlag(item.v1[1][flag])
    ELSE IF item.parameters = <<>> THEN "unknown"
    ELSE IF item.parameters[1] \cap names # {} THEN "supported" ELSE "unsupported"

ToolsCapability(item) == Capability(item, "tools", {"tools"})
ReasoningCapability(item) == Capability(item, "reasoning", {"reasoning", "reasoning.effort", "thinking"})

ReasoningModes(item) ==
    LET names == IF item.parameters = <<>> THEN {} ELSE item.parameters[1]
        effort == names \cap {"reasoning_effort", "reasoning.effort"} # {}
        budget == names \cap {"reasoning_max_tokens", "reasoning.max_tokens"} # {}
    IN  IF effort \/ budget
        THEN (IF effort THEN {"effort"} ELSE {}) \cup (IF budget THEN {"budget"} ELSE {})
        ELSE IF "reasoning" \in names THEN {"reasoning"} ELSE {}

\* The provider prefix is the routing contract; unqualified names keep the common OpenAI forms.
ProtocolForModelId(id) ==
    IF id.provider = "openai" \/ id.start \in {"gpt-", "o1", "o3", "o4", "chatgpt-"}
    THEN "responses" ELSE "chat"

FromCatalog(item) ==
    [id |-> item.id, protocol |-> ProtocolForModelId(item.id), tools |-> ToolsCapability(item),
     reasoning |-> ReasoningCapability(item), modes |-> ReasoningModes(item),
     modalities |-> item.modalities, availability |-> "unknown"]

NormalizeCatalog(items) == {FromCatalog(i) : i \in {j \in items : BoundedIdentifier(j.id)}}

ApplyToolDenials(views, denied) ==
    {IF v.id \in denied THEN [v EXCEPT !.tools = "unsupported"] ELSE v : v \in views}

\* discover_models within the time to live of the cache, and after it: the provider may fail.
DiscoverCached ==
    /\ rainySteps < MaxSteps /\ ~Running /\ catalogCache.fresh
    /\ rainySteps' = rainySteps + 1
    /\ offered' = ApplyToolDenials(catalogCache.views, deniedModels)
    /\ UNCHANGED <<catalogCache, deniedModels, attached, adapter, channel, received, streamHistory, refused>>

DiscoverRefreshed ==
    /\ rainySteps < MaxSteps /\ ~Running /\ ~catalogCache.fresh
    /\ rainySteps' = rainySteps + 1
    /\ \/ UNCHANGED <<catalogCache, offered>>
       \/ \E items \in SUBSET CatalogItems :
             /\ catalogCache' = [fresh |-> TRUE, views |-> NormalizeCatalog(items), none |-> FALSE]
             /\ offered' = ApplyToolDenials(catalogCache'.views, deniedModels)
    /\ UNCHANGED <<deniedModels, attached, adapter, channel, received, streamHistory, refused>>

CatalogExpires ==
    /\ ~Running /\ catalogCache.fresh
    /\ catalogCache' = [catalogCache EXCEPT !.fresh = FALSE]
    /\ UNCHANGED <<deniedModels, offered, attached, adapter, channel, received, streamHistory, refused, rainySteps>>

-----------------------------------------------------------------------------
(* Errors.                                                                 *)

IsToolsNotAllowed(error) == error.code = "TOOLS_NOT_ALLOWED"
IsContinuationFieldCode(code) == code = "previous_response_id"

\* What the agent is told: only a rejected continuation and missing access have a type of their own.
MapRainyError(error, continuationAttached) ==
    IF continuationAttached /\ error.kind = "invalid request" /\ IsContinuationFieldCode(error.code)
    THEN [type |-> "error", error |-> "invalid_continuation", retryable |-> FALSE]
    ELSE IF IsToolsNotAllowed(error)
    THEN [type |-> "error", error |-> "feature_unavailable", retryable |-> FALSE]
    ELSE [type |-> "error", error |-> "operation", retryable |-> error.kind \in {"network", "rate limit"}]

RainyErrors == [kind : {"invalid request"}, code : {"previous_response_id", "other"}]
                 \cup [kind : {"network"}, code : {"none"}]
                 \cup [kind : {"access denied"}, code : {"TOOLS_NOT_ALLOWED"}]

Failure(name) == [type |-> "error", error |-> name, retryable |-> FALSE]

-----------------------------------------------------------------------------
(* stream_step: the request.                                               *)

SelectModel(requested) ==
    IF requested = NoModel THEN "feature_unavailable"
    ELSE IF ~BoundedIdentifier(requested) THEN "mapping" ELSE "none"

\* What stops a request before anything is sent.
RequestError(request) ==
    IF SelectModel(request.model) # "none" THEN SelectModel(request.model)
    ELSE IF request.tools /\ request.model \in deniedModels THEN "feature_unavailable"
    ELSE IF ProtocolForModelId(request.model) = "responses"
    THEN IF request.continuation = "malformed" THEN "invalid_continuation" ELSE "none"
    ELSE IF request.continuation # "none" THEN "invalid_continuation"
    ELSE IF request.conversation = 0 THEN "mapping" ELSE "none"

Requests == [model : ModelIds \cup {NoModel}, tools : BOOLEAN, conversation : {0, 1},
             continuation : {"none", "given", "malformed"}]

\* Nothing is sent: stream_step returns the error.
Refused(request) ==
    /\ RequestError(request) # "none"
    /\ received' = <<Failure(RequestError(request))>>
    /\ UNCHANGED <<attached, adapter, deniedModels, refused>>

\* A slip: the refusal is reported and not remembered.
MarkNothing(models) == UNCHANGED deniedModels

MarkToolsDenied(models) == deniedModels' = deniedModels \cup models

\* The provider refuses the request; no other attempt is made.
NotStreamed(request, error) ==
    /\ RequestError(request) = "none"
    /\ received' = <<MapRainyError(error, request.continuation # "none")>>
    /\ IF request.tools /\ IsToolsNotAllowed(error)
       THEN MarkToolsDenied({request.model}) /\ refused' = Append(refused, request.model)
       ELSE UNCHANGED <<deniedModels, refused>>
    /\ UNCHANGED <<attached, adapter>>

Streamed(request) ==
    /\ RequestError(request) = "none"
    /\ attached' = (request.continuation # "none")
    /\ adapter' = [NoRequest EXCEPT !.pc = ProtocolForModelId(request.model)]
    /\ received' = <<>>
    /\ UNCHANGED <<deniedModels, refused>>

StreamStep ==
    /\ rainySteps < MaxSteps /\ ~Running
    /\ rainySteps' = rainySteps + 1
    /\ \E request \in Requests :
          \/ Refused(request)
          \/ \E error \in RainyErrors : NotStreamed(request, error)
          \/ Streamed(request)
    /\ channel' = EmptyChannel /\ opened' = {} /\ named' = {}
    /\ UNCHANGED <<catalogCache, offered>>

-----------------------------------------------------------------------------
(* The Responses stream.                                                   *)

SomeArguments == {<<"{}">>, <<"{">>}

ResponsesEvents ==
    [kind : {"text", "failed", "incomplete", "error", "eof"}]
      \cup [kind : {"delta"}, names : Namings, piece : {"{", "}"}]
      \cup [kind : {"arguments_done"}, names : Namings, name : {<<>>, <<"n">>},
            arguments : {<<>>} \cup {<<a>> : a \in SomeArguments}]
      \cup [kind : {"item_added", "item_done"}, names : Namings, function : BOOLEAN, name : {<<>>, <<"n">>},
            arguments : {<<>>, <<<<>>>>} \cup {<<a>> : a \in SomeArguments}]
      \cup [kind : {"completed"}, id : BOOLEAN, usage : BOOLEAN]
      \cup [kind : {"broken"}, error : RainyErrors]

\* The identifier fields that are strings, in the order in which event_string tries them:
\* call_id, then item_id or id.  The first one decides, and an empty one is an error.
IdStrings(event) == event.names.call \o event.names.item
HasId(event) == IdStrings(event) # <<>> /\ Head(IdStrings(event)) # ""
EventString(event) == Head(IdStrings(event))

\* of: history, the call of the stream that the report is about.
Call(of, id, name, arguments) ==
    [type |-> "call", of |-> of, id |-> id, name |-> name, arguments |-> arguments]
Text == [type |-> "text"]
Usage == [type |-> "usage"]
Done(continuation) == [type |-> "done", continuation |-> continuation]

Put(f, k, v) == [x \in DOMAIN f \cup {k} |-> IF x = k THEN v ELSE f[x]]
Without(f, k) == [x \in DOMAIN f \ {k} |-> f[x]]

\* map_event fails, or adds to what is sent.
Mapped(a, out) == [a EXCEPT !.outbox = out]
Unmapped(a, name) == [a EXCEPT !.outbox = <<Failure(name)>>, !.closing = TRUE]

\* A call is reported when its arguments are complete, and once under its identifier: one whose
\* deltas carry an item_id and whose item a call_id is known under two.
Complete(a, e, name, arguments) ==
    LET id == EventString(e) IN
    IF arguments \notin ValidJson THEN Unmapped(a, "mapping")
    ELSE Mapped([a EXCEPT !.calls = Without(a.calls, id), !.completed = @ \cup {id}],
                <<Call(e.names.of, id, name, arguments)>>)

ArgumentsDelta(a, e) ==
    IF ~HasId(e) THEN Unmapped(a, "mapping")
    ELSE LET id == EventString(e)
             entry == IF id \in DOMAIN a.calls THEN a.calls[id] ELSE <<"", <<>>>>
         IN  [a EXCEPT !.calls = Put(a.calls, id, <<entry[1], Append(entry[2], e.piece)>>)]

ArgumentsDone(a, e) ==
    IF ~HasId(e) THEN Unmapped(a, "mapping")
    ELSE LET id == EventString(e)
             known == id \in DOMAIN a.calls
         IN  IF id \in a.completed THEN a
             ELSE IF e.name = <<>> /\ ~known THEN Unmapped(a, "mapping")
             ELSE Complete(a, e, IF e.name # <<>> THEN e.name[1] ELSE a.calls[id][1],
                           IF e.arguments # <<>> THEN e.arguments[1]
                           ELSE IF known THEN a.calls[id][2] ELSE <<"{}">>)

OutputItem(a, e) ==
    IF ~e.function THEN a
    ELSE IF ~HasId(e) THEN Unmapped(a, "mapping")
    ELSE LET id == EventString(e)
             arguments == IF e.arguments # <<>> THEN e.arguments[1] ELSE <<"{}">>
         IN  IF id \in a.completed THEN a
             ELSE IF e.name = <<>> THEN Unmapped(a, "mapping")
             ELSE IF e.kind = "item_added"
             THEN [a EXCEPT !.calls = Put(a.calls, id, <<e.name[1], arguments>>)]
             ELSE Complete(a, e, e.name[1], arguments)

ResponseCompleted(a, e) ==
    IF ~e.id THEN Unmapped(a, "mapping")
    ELSE [Mapped(a, (IF e.usage THEN <<Usage>> ELSE <<>>) \o <<Done("response")>>) EXCEPT !.closing = TRUE]

MapEvent(a, e) ==
    CASE e.kind = "text" -> Mapped(a, <<Text>>)
      [] e.kind = "delta" -> ArgumentsDelta(a, e)
      [] e.kind = "arguments_done" -> ArgumentsDone(a, e)
      [] e.kind \in {"item_added", "item_done"} -> OutputItem(a, e)
      [] e.kind = "completed" -> ResponseCompleted(a, e)
      [] e.kind = "failed" -> Unmapped(a, "response_failed")
      [] e.kind = "incomplete" -> Unmapped(a, "response_incomplete")
      [] e.kind = "error" -> Unmapped(a, "operation")

\* A slip: a completed response drops the calls that are still open.
OpenCallsDropped(a) == FALSE

\* A call that was begun and not completed fails the response that completes without it.
OpenCalls(a) == a.calls # <<>>

AdaptEvent(a, e) ==
    CASE e.kind = "eof" -> Unmapped(a, "incomplete_stream")
      [] e.kind = "broken" ->
           [a EXCEPT !.closing = TRUE,
                     !.outbox = <<MapRainyError(e.error, attached)>>]
      [] e.kind = "completed" /\ OpenCalls(a) -> Unmapped(a, "incomplete_stream")
      [] OTHER -> MapEvent(a, e)

\* The identifier under which an event of Responses opens a call, or the index of Chat.
Begins(e) ==
    CASE e.kind = "delta" /\ HasId(e) -> {EventString(e)}
      [] e.kind = "item_added" /\ e.function /\ HasId(e) -> {EventString(e)}
      [] e.kind = "chunk" /\ ~adapter.terminal /\ e.delta # <<>> -> {Head(e.delta).index}
      [] OTHER -> {}

\* The identifier that an item of either stream gives to one of its calls.
Names(e) ==
    CASE e.kind \in {"delta", "arguments_done"} /\ HasId(e) -> {<<e.names.of, EventString(e)>>}
      [] e.kind \in {"item_added", "item_done"} /\ e.function /\ HasId(e) -> {<<e.names.of, EventString(e)>>}
      [] e.kind = "chunk" /\ ~adapter.terminal /\ e.delta # <<>> ->
            IF Head(e.delta).id = "" THEN {} ELSE {<<Head(e.delta).index, Head(e.delta).id>>}
      [] OTHER -> {}

-----------------------------------------------------------------------------
(* The Chat Completions stream: calls by index, reported at its end.       *)

ChatPieces == {"none", "{", "}"}

\* A chunk of text, of a piece of a call, or of usage; the first two may finish the choice.
ChatDeltas == [index : ChatIndices, id : CallIds \cup {""}, name : BOOLEAN, piece : ChatPieces]

ChatChunks ==
    [kind : {"chunk"}, text : {TRUE}, delta : {<<>>}, finish : BOOLEAN, usage : {FALSE}]
      \cup [kind : {"chunk"}, text : {FALSE}, delta : {<<d>> : d \in ChatDeltas}, finish : BOOLEAN, usage : {FALSE}]
      \cup [kind : {"chunk"}, text : {FALSE}, delta : {<<>>}, finish : {FALSE}, usage : {TRUE}]
      \cup [kind : {"eof"}] \cup [kind : {"broken"}, error : RainyErrors]

NewCall == [id |-> "none", named |-> FALSE, arguments |-> <<>>]

MergeDelta(calls, d) ==
    LET old == IF d.index \in DOMAIN calls THEN calls[d.index] ELSE NewCall
    IN  Put(calls, d.index,
            [id |-> IF d.id = "" THEN old.id ELSE d.id,
             named |-> old.named \/ d.name,
             arguments |-> IF d.piece = "none" THEN old.arguments ELSE Append(old.arguments, d.piece)])

ChatArguments(c) == IF c.arguments = <<>> THEN <<"{}">> ELSE c.arguments
ChatCallValid(c) == c.id # "none" /\ c.named /\ ChatArguments(c) \in ValidJson

EmitChatCall(calls, n) ==
    IF n \notin DOMAIN calls THEN <<>>
    ELSE IF ChatCallValid(calls[n]) THEN <<Call(n, calls[n].id, "n", ChatArguments(calls[n]))>>
    ELSE <<Failure("mapping")>>

\* The calls in the order of their index, up to the first that is not whole.
EmitChatToolCalls(calls) ==
    IF "0" \in DOMAIN calls /\ ~ChatCallValid(calls["0"]) THEN EmitChatCall(calls, "0")
    ELSE EmitChatCall(calls, "0") \o EmitChatCall(calls, "1")

ChatEnd(a) ==
    LET calls == EmitChatToolCalls(a.chat)
        whole == \A c \in DOMAIN a.chat : ChatCallValid(a.chat[c])
    IN  IF ~a.terminal THEN Unmapped(a, "incomplete_stream")
        ELSE [a EXCEPT !.closing = TRUE,
                       !.outbox = IF whole
                                  THEN calls \o (IF a.usage THEN <<Usage>> ELSE <<>>) \o <<Done("none")>>
                                  ELSE calls]

\* After the terminal chunk only usage is read.
AdaptChunk(a, c) ==
    CASE c.kind = "eof" -> ChatEnd(a)
      [] c.kind = "broken" -> [a EXCEPT !.closing = TRUE, !.outbox = <<MapRainyError(c.error, FALSE)>>]
      [] c.kind = "chunk" /\ a.terminal -> [a EXCEPT !.usage = @ \/ c.usage]
      [] c.kind = "chunk" /\ ~a.terminal ->
           [a EXCEPT !.usage = @ \/ c.usage, !.terminal = c.finish,
                     !.outbox = IF c.text THEN <<Text>> ELSE <<>>,
                     !.chat = IF c.delta = <<>> THEN @ ELSE MergeDelta(@, Head(c.delta))]

-----------------------------------------------------------------------------
(* The task and the channel.                                               *)

Ended == NoRequest

\* select!: the next item of the stream, which the provider may never send.
NextItem(items, Adapt(_, _)) ==
    /\ adapter.outbox = <<>> /\ ~adapter.closing /\ adapter.events < MaxEvents
    /\ \E e \in items :
          /\ adapter' = Adapt([adapter EXCEPT !.events = @ + 1], e)
          /\ opened' = opened \cup Begins(e) /\ named' = named \cup Names(e)
    /\ UNCHANGED <<catalogCache, deniedModels, offered, attached, channel, received, refused, rainySteps>>

AdaptStream == adapter.pc = "responses" /\ NextItem(ResponsesEvents, AdaptEvent)
AdaptChatStream == adapter.pc = "chat" /\ NextItem(ChatChunks, AdaptChunk)

\* select!: the receiver is gone.
SenderClosed ==
    /\ Running /\ adapter.outbox = <<>> /\ ~channel.open
    /\ adapter' = Ended
    /\ UNCHANGED <<catalogCache, deniedModels, offered, attached, channel, received, streamHistory, refused, rainySteps>>

\* send waits for room, and fails when the receiver is gone.
Send ==
    /\ Running /\ adapter.outbox # <<>>
    /\ \/ /\ channel.open /\ Len(channel.queue) < ChannelCapacity
          /\ channel' = [channel EXCEPT !.queue = Append(@, Head(adapter.outbox))]
          /\ adapter' = [adapter EXCEPT !.outbox = Tail(@)]
       \/ ~channel.open /\ adapter' = Ended /\ UNCHANGED channel
    /\ UNCHANGED <<catalogCache, deniedModels, offered, attached, received, streamHistory, refused, rainySteps>>

AdapterReturns ==
    /\ Running /\ adapter.outbox = <<>> /\ adapter.closing
    /\ adapter' = Ended
    /\ UNCHANGED <<catalogCache, deniedModels, offered, attached, channel, received, streamHistory, refused, rainySteps>>

Receive ==
    /\ channel.open /\ channel.queue # <<>>
    /\ received' = Append(received, Head(channel.queue))
    /\ channel' = [channel EXCEPT !.queue = Tail(@)]
    /\ UNCHANGED <<catalogCache, deniedModels, offered, attached, adapter, streamHistory, refused, rainySteps>>

\* The turn was cancelled, or the step failed: the agent drops the receiver.
DropReceiver ==
    /\ Running /\ channel.open
    /\ channel' = [channel EXCEPT !.open = FALSE]
    /\ UNCHANGED <<catalogCache, deniedModels, offered, attached, adapter, received, streamHistory, refused, rainySteps>>

-----------------------------------------------------------------------------
RainyInit ==
    /\ catalogCache = NoCache /\ deniedModels = {} /\ offered = {}
    /\ attached = FALSE /\ adapter = NoRequest /\ channel = EmptyChannel
    /\ received = <<>> /\ opened = {} /\ named = {} /\ refused = <<>> /\ rainySteps = 0

RainyNext ==
    \/ DiscoverCached \/ DiscoverRefreshed \/ CatalogExpires
    \/ StreamStep \/ AdaptStream \/ AdaptChatStream \/ SenderClosed \/ Send \/ AdapterReturns
    \/ Receive \/ DropReceiver

RainySpec == RainyInit /\ [][RainyNext]_rainyVars

-----------------------------------------------------------------------------
(* Properties.                                                             *)

IsCall(m) == m.type = "call"
CallsOf(said) == {said[i] : i \in {j \in DOMAIN said : IsCall(said[j])}}

\* No two reports of a step are of the same call with the same identifier, and only a Chat stream
\* that gives one identifier to two of its indices has it reported twice.
ApartIn(said) ==
    \A i, j \in DOMAIN said : IsCall(said[i]) /\ IsCall(said[j]) /\ i # j =>
        /\ said[i].of = said[j].of => said[i].id # said[j].id
        /\ said[i].id = said[j].id => said[i].of \in ChatIndices

\* A reported call has an identifier that the stream gave to it.
GivenIn(said) == \A c \in CallsOf(said) : <<c.of, c.id>> \in named

\* A response that the agent sees as done is whole: nothing failed before it, whatever its stream
\* began was reported first, and nothing follows.  A call that its stream names alike throughout is
\* reported once, whatever mix of delta, done and item events tells of it; two reports of one call
\* have two identifiers that the stream gave it (the deltas an item_id, the item a call_id), and two
\* reports with one identifier are two indices of Chat with the same id (completed_tool_calls,
\* adapt_stream's check of open calls, emit_chat_tool_calls).
DoneIsTheWholeResponse ==
    /\ \A i \in DOMAIN received :
          received[i].type = "done" =>
             /\ i = Len(received) /\ channel.queue = <<>>
             /\ \A j \in 1 .. i : received[j].type # "error"
             /\ \A key \in opened : \E j \in 1 .. i : IsCall(received[j]) /\ key \in {received[j].id, received[j].of}
    /\ ApartIn(received) /\ GivenIn(received)

\* A model that the provider refused tools for is not asked with tools again, whatever the catalogue
\* says of it later: the refusal outlives the cache (denied_tool_models).
ToolsAreRefusedOnce == \A i, j \in 1 .. Len(refused) : refused[i] = refused[j] => i = j

-----------------------------------------------------------------------------
(* The invariant.                                                          *)

ErrorNames == {"invalid_continuation", "feature_unavailable", "operation", "mapping", "response_failed",
               "response_incomplete", "incomplete_stream"}

Messages == [type : {"text", "usage"}] \cup [type : {"done"}, continuation : {"response", "none"}]
              \cup [type : {"error"}, error : ErrorNames, retryable : BOOLEAN]
              \cup [type : {"call"}, of : ProviderCalls \cup ChatIndices, id : CallIds, name : {"", "n"},
                    arguments : ValidJson]

OpenCall == {"", "n"} \X Seq(Pieces)

AdapterOK(a) ==
    /\ DOMAIN a = DOMAIN NoRequest
    /\ a.pc \in {"idle", "responses", "chat"}
    /\ DOMAIN a.calls \subseteq CallIds /\ \A id \in DOMAIN a.calls : a.calls[id] \in OpenCall
    /\ a.completed \subseteq CallIds /\ DOMAIN a.chat \subseteq ChatIndices
    /\ \A n \in DOMAIN a.chat : a.chat[n].id \in CallIds \cup {"none"}
    /\ a.outbox \in Seq(Messages)
    /\ {a.terminal, a.usage, a.closing} \subseteq BOOLEAN
    /\ a.events \in 0 .. MaxEvents

RainyTypeOK ==
    /\ AdapterOK(adapter)
    /\ channel \in [queue : Seq(Messages), open : BOOLEAN] /\ Len(channel.queue) <= ChannelCapacity
    /\ received \in Seq(Messages)
    /\ deniedModels \subseteq ModelIds /\ refused \in Seq(ModelIds)
    /\ rainySteps \in 0 .. MaxSteps

\* What the stream has said so far, taken by the agent or not.
Said == received \o channel.queue \o adapter.outbox

Has(said, type) == \E i \in DOMAIN said : said[i].type = type
ReportedIn(said) == {c.id : c \in CallsOf(said)}
ReportedOf(said) == {c.of : c \in CallsOf(said)}
KeysIn(said) == ReportedIn(said) \cup ReportedOf(said)

\* A response that is done has said so last, without an error and with every call that was begun.
DoneLast(said, begun) ==
    \A i \in DOMAIN said : said[i].type = "done" =>
        i = Len(said) /\ ~Has(said, "error") /\ begun \subseteq KeysIn(said)

\* While the task reads the stream, what it said has not ended, and it knows every call that was
\* begun.
StillOpen(said, a, begun) ==
    ~a.closing =>
        /\ ~Has(said, "done") /\ ~Has(said, "error")
        /\ a.pc = "responses" => /\ ReportedIn(said) = a.completed
                                 /\ begun \subseteq a.completed \cup DOMAIN a.calls
        /\ a.pc = "chat" => ReportedIn(said) = {} /\ begun \subseteq DOMAIN a.chat

\* The identifier that the task keeps for an index of Chat is one that the stream gave to it.
ChatGiven(chat, given) == \A n \in DOMAIN chat : chat[n].id # "none" => <<n, chat[n].id>> \in given

StreamInv ==
    /\ ApartIn(Said) /\ DoneLast(Said, opened)
    /\ GivenIn(Said) /\ ChatGiven(adapter.chat, named)
    /\ Running => StillOpen(Said, adapter, opened)
    /\ ~Running => adapter.outbox = <<>> /\ adapter.chat = <<>>

RefusalInv == (\A i \in DOMAIN refused : refused[i] \in deniedModels) /\ ToolsAreRefusedOnce

RainyInv == RainyTypeOK /\ StreamInv /\ RefusalInv
=============================================================================
