----------------------------- MODULE ToolAgent ------------------------------
(***************************************************************************)
(* tool_agent_loop.py: one trajectory that alternates between the model    *)
(* and its tools, several calls at a time.                                 *)
(*                                                                         *)
(* A token is where it comes from: <<"prompt">>, <<"model">>, <<"tool">>,  *)
(* or <<"image", turn, call>>, the place of an image.  A tool's message is *)
(* one token of text and, if it has images, one place: however many images *)
(* the list holds that a tool returned (schemas.py: list[Any]).            *)
(***************************************************************************)
EXTENDS Integers, FiniteSets, Sequences, SequencesExt, FiniteSetsExt

CONSTANTS
    PromptLength, ResponseLength,
    MaxAssistantTurns, MaxUserTurns,   \* 0: None
    MaxParallelCalls,
    MaxCalls,                          \* bound: calls in one answer
    MaxImages                          \* bound: images in one response

VARIABLES
    agent,       \* "off", "generating", "tools", "terminated" or "raised"
    promptIds,   \* prompt_ids, which the answers are appended to
    mask,        \* response_mask
    logprobs,    \* response_logprobs: TRUE for the model's, FALSE for 0.0
    scored,      \* the servers return log-probs
    images,      \* image_data
    turns,       \* assistant_turns and user_turns
    calls,       \* per call of this turn: "called", "created", "executed",
                 \* "answered" or "broken"
    messages,    \* per call: the images in its response, 0 for text, or Video
    output       \* the AgentLoopOutput

agentVars == <<promptIds, mask, logprobs, scored, images, turns, output>>
vars      == <<agent, agentVars, calls, messages>>

Video == -1
Kinds == Video .. MaxImages

None == [prompt |-> <<>>, response |-> <<>>, mask |-> <<>>, logprobs |-> <<>>]
Times(token, n) == [i \in 1 .. n |-> token]
IsImage(token)  == token[1] = "image"

Init ==
    /\ agent = "off" /\ promptIds = <<>> /\ mask = <<>> /\ logprobs = <<>>
    /\ scored = FALSE /\ images = <<>> /\ turns = [assistant |-> 0, user |-> 0]
    /\ calls = <<>> /\ messages = <<>> /\ output = None

\* _handle_pending_state: a prompt is no longer than prompt_length.
Pending ==
    /\ agent = "off" /\ agent' = "generating"
    /\ \E n \in 1 .. PromptLength : promptIds' = Times(<<"prompt">>, n)
    /\ scored' \in BOOLEAN
    /\ UNCHANGED <<mask, logprobs, images, turns, calls, messages, output>>

\* The end of run
Capped(s) == SubSeq(s, 1, Min({Len(s), ResponseLength}))
Terminate(ids, ms, probs) ==
    LET asked == Len(ids) - Len(ms)
    IN  output' = [prompt   |-> SubSeq(ids, 1, asked),
                   response |-> Capped(SubSeq(ids, asked + 1, Len(ids))),
                   mask     |-> Capped(ms),
                   logprobs |-> Capped(probs)]

NewTokens == Min({ResponseLength, PromptLength + ResponseLength - Len(promptIds)})

AtLimit(length, asked) ==
    \/ length >= ResponseLength
    \/ MaxAssistantTurns > 0 /\ asked >= MaxAssistantTurns
    \/ MaxUserTurns > 0 /\ turns.user >= MaxUserTurns

\* _handle_generating_state; an answer has at least one token.
Generate ==
    /\ agent = "generating"
    /\ \E n \in 1 .. NewTokens, called \in 0 .. MaxCalls :
         LET ids   == promptIds \o Times(<<"model">>, n)
             ms    == mask \o Times(1, n)
             probs == logprobs \o Times(TRUE, IF scored THEN n ELSE 0)
             ended == AtLimit(Len(ms), turns.assistant + 1) \/ called = 0
         IN  /\ promptIds' = ids /\ mask' = ms /\ logprobs' = probs
             /\ agent' = IF ended THEN "terminated" ELSE "tools"
             /\ calls' = IF ended THEN <<>>
                         ELSE Times("called", Min({called, MaxParallelCalls}))
             /\ IF ended THEN Terminate(ids, ms, probs) ELSE UNCHANGED output
    /\ turns' = [turns EXCEPT !.assistant = @ + 1]
    /\ messages' = Times(0, Len(calls'))
    /\ UNCHANGED <<scored, images>>

-----------------------------------------------------------------------------
\* _call_tool, one task per call.  gather does not cancel the others when one
\* of them raises.

Goes(c, from, to) == calls[c] = from /\ calls' = [calls EXCEPT ![c] = to]
Says(c, kind)     == messages' = [messages EXCEPT ![c] = kind]

\* An unknown tool, bad arguments, a create that raises, or a function tool,
\* which has no life cycle.
AnswerAtOnce(c) ==
    /\ Goes(c, "called", "answered")
    /\ \E kind \in Kinds : Says(c, kind)
    /\ UNCHANGED <<agent, agentVars>>

Create(c) == Goes(c, "called", "created") /\ UNCHANGED <<agent, agentVars, messages>>

\* An execution that raises is a message, too.
Execute(c) ==
    /\ Goes(c, "created", "executed")
    /\ \E kind \in Kinds : Says(c, kind)
    /\ UNCHANGED <<agent, agentVars>>

Release(c) ==
    /\ Goes(c, "executed", "answered")
    /\ UNCHANGED <<agent, agentVars, messages>>

\* A release that raises ends the trajectory.
ReleaseRaises(c) ==
    /\ Goes(c, "executed", "broken")
    /\ agent' = "raised"
    /\ UNCHANGED <<agentVars, messages>>

Call(c) == AnswerAtOnce(c) \/ Create(c) \/ Execute(c) \/ Release(c) \/ ReleaseRaises(c)

\* The rest of _handle_processing_tools_state
Answered == agent = "tools" /\ \A c \in DOMAIN calls : calls[c] = "answered"

PlaceOf(c) == <<"image", turns.user, c>>
Said(c)    == IF messages[c] > 0 THEN <<<<"tool">>, PlaceOf(c)>> ELSE <<<<"tool">>>>
Response   == FlattenSeq([c \in DOMAIN calls |-> Said(c)])
NewImages  == FlattenSeq([c \in DOMAIN calls |-> Times(PlaceOf(c), messages[c])])
Fits      == Len(mask) + Len(Response) < ResponseLength

MutKeepsImages(new) == images \o new
ImagesIfTooLong(new) == images

Respond ==
    /\ Answered /\ \A c \in DOMAIN calls : messages[c] # Video
    /\ calls' = <<>> /\ messages' = <<>>
    /\ IF Fits
       THEN /\ agent' = "generating"
            /\ images' = images \o NewImages
            /\ promptIds' = promptIds \o Response
            /\ mask' = mask \o Times(0, Len(Response))
            /\ logprobs' = IF logprobs = <<>> THEN <<>>
                           ELSE logprobs \o Times(FALSE, Len(Response))
            /\ turns' = [turns EXCEPT !.user = @ + 1]
            /\ UNCHANGED output
       ELSE /\ agent' = "terminated" /\ images' = ImagesIfTooLong(NewImages)
            /\ Terminate(promptIds, mask, logprobs)
            /\ UNCHANGED <<promptIds, mask, logprobs, turns>>
    /\ UNCHANGED scored

VideoRaises ==
    /\ Answered /\ \E c \in DOMAIN calls : messages[c] = Video
    /\ agent' = "raised"
    /\ UNCHANGED <<agentVars, calls, messages>>

Next ==
    \/ Pending \/ Generate \/ (\E c \in DOMAIN calls : Call(c)) \/ Respond \/ VideoRaises

Rests == /\ agent \in {"terminated", "raised"}
         /\ \A c \in DOMAIN calls : calls[c] \in {"answered", "broken"}

-----------------------------------------------------------------------------
TypeOK ==
    /\ agent \in {"off", "generating", "tools", "terminated", "raised"}
    /\ \A i \in DOMAIN mask : mask[i] \in {0, 1}
    /\ Len(promptIds) <= PromptLength + ResponseLength
    /\ turns.assistant - turns.user \in {0, 1} /\ scored \in BOOLEAN
    /\ Len(calls) <= MaxParallelCalls /\ Len(messages) = Len(calls)
    /\ \A c \in DOMAIN calls :
         /\ calls[c] \in {"called", "created", "executed", "answered", "broken"}
         /\ messages[c] \in Kinds

ImagesIn(s) ==
    FlattenSeq([i \in DOMAIN s |-> IF IsImage(s[i]) THEN <<s[i]>> ELSE <<>>])

\* The images shown are those of the places, in their order: each place stands
\* for the images of one message, at least one.
Shows(places, shown) ==
    \E n \in [DOMAIN places -> 1 .. MaxImages] :
        shown = FlattenSeq([i \in DOMAIN places |-> Times(places[i], n[i])])

\* What is trained on is exactly what the model said: mask and log-probs mark
\* the tokens of the model, the prompt is the one that was asked, and the images
\* are those of the messages that have a place in the tokens, in the order of
\* the places, and no other.
Aligned ==
    agent = "terminated" =>
        /\ output.prompt # <<>> /\ Range(output.prompt) = {<<"prompt">>}
        /\ Len(output.response) \in 1 .. ResponseLength
        /\ Len(output.mask) = Len(output.response)
        /\ \A i \in DOMAIN output.mask :
             output.mask[i] = 1 <=> output.response[i] = <<"model">>
        /\ output.logprobs = IF scored THEN [i \in DOMAIN output.mask |-> output.mask[i] = 1]
                             ELSE <<>>
        /\ Shows(ImagesIn(output.response), images)
=============================================================================
