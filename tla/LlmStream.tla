------------------------------- MODULE LlmStream -------------------------------
(***************************************************************************)
(* One streamed request to a provider and what becomes of its answer       *)
(* (mini_pi/llm/base.py, openai_client.py; _stream_assistant of            *)
(* agent/loop.py, complete of llm/base.py with context/summarizer.py).     *)
(*                                                                         *)
(* The provider refuses the request, loses the connection, or streams      *)
(* chunks: pieces of text, pieces of calls told apart by their index, a    *)
(* finish reason.  The client retries, passes text on as it arrives, puts  *)
(* the calls together and ends with one message or error.                  *)
(* A chunk with several pieces is several steps.  Thinking, which is       *)
(* treated as text is, usage, and the contents of pieces are left out.     *)
(*                                                                         *)
(* An id is a string the provider is free to choose: it may send one it    *)
(* sent before, another one in a later piece of the same call, or the very *)
(* "call_1" the client makes up for a call without one.                    *)
(*                                                                         *)
(* AgentLoop takes from here that a reply is a message with calls, or an   *)
(* error without any.  It names the calls of a session by numbers, as if   *)
(* their ids were all different; IdsOwn says when they are not.            *)
(***************************************************************************)
EXTENDS Naturals, Sequences, SequencesExt, FiniteSets

CONSTANTS
  MaxRetries,   \* max_retries
  Indexes,      \* bound: indexes of the calls of one answer
  OtherIds,     \* bound: ids a provider sends, but for those of the form call_<index>
  MaxRequests,  \* bound: streams opened by the program
  MaxPieces     \* bound: pieces in one answer

ASSUME LlmStreamAssumption ==
  Indexes \subseteq Nat /\ MaxRetries \in Nat /\ MaxRequests \in Nat /\ MaxPieces \in Nat

\* What a call's argument pieces make up so far: nothing, no JSON object yet, or
\* one.
Arguments == {"empty", "cut", "object"}
\* stop stands for tool_calls and function_call too, refused for content_filter
\* and an unknown reason.
Finishes == {"none", "stop", "length", "refused"}

VARIABLES
  requests,     \* streams opened so far
  phase,        \* idle, request: about to be sent, stream: answered
  caller,       \* turn: _stream_assistant, summary: summarize_transcript
  attempt, started,
  acc,          \* _AssistantAccumulator: text, calls by index, finish
  reply,        \* the message committed, or summary accepted, by the last stream
  ids,          \* the calls of the messages committed: id, the one the provider sent
                \* last, index, the stream it came with
  \* History: pieces of the answer, the text and the calls it was sent as, and
  \* the text passed on.
  pieces, sent, shown

streamVars == <<requests, phase, caller, attempt, started, acc, reply, ids, pieces, sent, shown>>

NoCalls == [i \in {} |-> {}]
Empty == [text |-> 0, calls |-> NoCalls, finish |-> "none"]
NotSent == [text |-> 0, calls |-> NoCalls]
NoReply == [by |-> "none", text |-> 0, calls |-> <<>>, stop |-> "error"]

StreamInit ==
  /\ requests = 0 /\ phase = "idle" /\ caller = "turn"
  /\ attempt = 0 /\ started = FALSE /\ acc = Empty
  /\ reply = NoReply /\ ids = <<>>
  /\ pieces = 0 /\ sent = NotSent /\ shown = 0

-------------------------------------------------------------------------------
\* call_<index>, the id of a call the provider sends none with.
MadeUp(i) == <<"call", i>>

\* No id, or any.
Ids == {{}} \cup {{id} : id \in OtherIds \cup {MadeUp(i) : i \in Indexes}}

-------------------------------------------------------------------------------
(* The end of a stream.                                                    *)

\* summarize_transcript: a message that is no whole summary is refused.
IsSummary(m) == m.stop # "length" /\ m.calls = <<>> /\ m.text > 0

ErrorMessage == [text |-> 0, calls |-> <<>>, stop |-> "error"]

\* The stream ends with one event.  A turn commits its message, an error as a
\* message too; complete() raises an error.
Deliver(m) ==
  /\ IF caller = "turn" \/ (m.stop # "error" /\ IsSummary(m))
       THEN /\ reply' = [by |-> caller, text |-> m.text, calls |-> m.calls, stop |-> m.stop]
            /\ ids' = ids \o [k \in DOMAIN m.calls |->
                 [id |-> m.calls[k].id, sent |-> sent.calls[m.calls[k].index].id,
                  index |-> m.calls[k].index, request |-> requests]]
       ELSE UNCHANGED <<reply, ids>>
  /\ phase' = "idle"

Reset == attempt' = 0 /\ started' = FALSE /\ acc' = Empty /\ pieces' = 0 /\ sent' = NotSent /\ shown' = 0

\* Mutant: an answer that broke off is asked for again.
RetryStarted(retryable) ==
  \/ /\ ~retryable \/ attempt = MaxRetries
     /\ Deliver(ErrorMessage) /\ Reset
  \/ /\ retryable /\ attempt # MaxRetries
     /\ phase' = "request"
     /\ attempt' = attempt + 1 /\ started' = FALSE
     /\ acc' = Empty /\ sent' = NotSent /\ pieces' = 0
     /\ UNCHANGED <<reply, ids, shown>>

\* LLMError in stream(): retried only when nothing was passed on.
Failure(retryable) ==
  \/ /\ started \/ ~retryable \/ attempt = MaxRetries
     /\ Deliver(ErrorMessage) /\ Reset
  \/ /\ ~started /\ retryable /\ attempt # MaxRetries
     /\ phase' = "request"
     /\ attempt' = attempt + 1
     /\ UNCHANGED <<started, acc, reply, ids, pieces, sent, shown>>

-------------------------------------------------------------------------------
(* The request.                                                            *)

Ask ==
  /\ phase = "idle" /\ requests < MaxRequests
  /\ requests' = requests + 1
  /\ caller' \in {"turn", "summary"}
  /\ phase' = "request" /\ reply' = NoReply
  /\ UNCHANGED <<attempt, started, acc, ids, pieces, sent, shown>>

\* 408, 409, 429, 5xx and a lost connection may be tried again.
RequestFails ==
  /\ phase = "request"
  /\ \E retryable \in BOOLEAN : Failure(retryable)
  /\ UNCHANGED <<requests, caller>>

\* StartEvent.
Open ==
  /\ phase = "request"
  /\ phase' = "stream" /\ started' = TRUE
  /\ UNCHANGED <<requests, caller, attempt, acc, reply, ids, pieces, sent, shown>>

-------------------------------------------------------------------------------
(* The answer, piece by piece.                                             *)

Piece ==
  /\ phase = "stream" /\ pieces < MaxPieces
  /\ pieces' = pieces + 1
  /\ UNCHANGED <<requests, phase, caller, attempt, started, reply, ids>>

TextPiece ==
  /\ Piece
  /\ acc' = [acc EXCEPT !.text = @ + 1]
  /\ sent' = [sent EXCEPT !.text = @ + 1]
  /\ shown' = IF caller = "turn" THEN shown + 1 ELSE shown

\* Mutant: an id made up for a call's first piece is kept when its own comes later.
JoinedFirst(i, piece) ==
  IF i \notin DOMAIN acc.calls
    THEN [piece EXCEPT !.id = IF @ = {} THEN {MadeUp(i)} ELSE @]
    ELSE [acc.calls[i] EXCEPT !.name = @ \/ piece.name, !.args = piece.args]

\* What a piece makes of the buffer of its call.
Joined(i, piece) ==
  IF i \notin DOMAIN acc.calls
    THEN [piece EXCEPT !.id = IF @ = {} THEN {MadeUp(i)} ELSE @]
    ELSE [acc.calls[i] EXCEPT !.id = IF piece.id = {} THEN @ ELSE piece.id,
                              !.name = @ \/ piece.name,
                              !.args = piece.args]

With(calls, i, call) == [j \in DOMAIN calls \cup {i} |-> IF j = i THEN call ELSE calls[j]]

ArgumentsNow(i) == IF i \in DOMAIN acc.calls THEN acc.calls[i].args ELSE "empty"

\* Id, name and a piece of the arguments each come or do not.
CallPieces(i) ==
  {piece \in [id : Ids, name : BOOLEAN, args : Arguments] :
     /\ \/ piece.args = ArgumentsNow(i)
        \/ ArgumentsNow(i) \in {"empty", "cut"} /\ piece.args # "empty"
     /\ piece.id # {} \/ piece.name \/ piece.args # ArgumentsNow(i)}

SentOf(i, piece) ==
  IF i \notin DOMAIN sent.calls
    THEN piece
    ELSE [id |-> IF piece.id = {} THEN sent.calls[i].id ELSE piece.id,
          name |-> sent.calls[i].name \/ piece.name, args |-> piece.args]

CallPiece(i) ==
  /\ Piece
  /\ \E piece \in CallPieces(i) :
       /\ acc' = [acc EXCEPT !.calls = With(@, i, Joined(i, piece))]
       /\ sent' = [sent EXCEPT !.calls = With(@, i, SentOf(i, piece))]
  /\ UNCHANGED shown

\* A later reason replaces the one before.
FinishPiece ==
  /\ Piece
  /\ \E f \in Finishes \ {"none"} : acc' = [acc EXCEPT !.finish = f]
  /\ UNCHANGED <<sent, shown>>

-------------------------------------------------------------------------------
(* The end of the answer.                                                  *)

\* _build_tool_calls: a call has a name, and an object or nothing as arguments.
Built == \A i \in DOMAIN acc.calls : acc.calls[i].name /\ acc.calls[i].args \in {"empty", "object"}

\* sorted(): the members of a set of indexes, ascending.
InOrder(S) == CHOOSE s \in SetToSeqs(S) : \A j, k \in DOMAIN s : j < k => s[j] < s[k]

ToolCalls ==
  LET order == InOrder(DOMAIN acc.calls) IN
  [k \in DOMAIN order |->
     [index |-> order[k], id |-> acc.calls[order[k]].id, args |-> acc.calls[order[k]].args]]

\* _map_finish_reason: an answer that ends without a reason counts as whole.
StopReason == IF acc.finish = "none" THEN "stop" ELSE acc.finish

\* finalize: the calls are ended, then the message is done.
Finalize ==
  /\ phase = "stream"
  /\ \/ /\ Built /\ acc.finish # "refused"
        /\ Deliver([text |-> acc.text, calls |-> ToolCalls, stop |-> StopReason])
        /\ Reset
     \/ /\ ~Built \/ acc.finish = "refused"
        /\ Failure(FALSE)
  /\ UNCHANGED <<requests, caller>>

\* The connection is lost, or the provider reports an error, in mid-answer.
StreamFails ==
  /\ phase = "stream"
  /\ \E retryable \in BOOLEAN : Failure(retryable)
  /\ UNCHANGED <<requests, caller>>

\* Ctrl+C, or an exception stream() does not take for an LLMError: there is no
\* event, and nothing is committed.
Leave ==
  /\ phase # "idle"
  /\ phase' = "idle" /\ Reset
  /\ UNCHANGED <<requests, caller, reply, ids>>

StreamNext ==
  \/ Ask \/ RequestFails \/ Open
  \/ TextPiece \/ (\E i \in Indexes : CallPiece(i)) \/ FinishPiece
  \/ Finalize \/ StreamFails \/ Leave

StreamSpec == StreamInit /\ [][StreamNext]_streamVars

-------------------------------------------------------------------------------
\* A message that is no error is the answer to one request: its text is all
\* that was sent and, in a turn, exactly what the user saw; its calls are all
\* that were sent, in the order of their indexes, each with its id and with
\* whole arguments or none.  A summary is that of an answer that asked for
\* nothing and was not cut (BaseLLMClient.stream, finalize, summarize_transcript).
ReplyAsSent ==
  [][reply' # reply /\ reply'.stop # "error" =>
       LET m == reply'
           order == InOrder(DOMAIN sent.calls)
       IN  /\ m.text = sent.text
           /\ m.by = "turn" => m.text = shown
           /\ Len(m.calls) = Len(order)
           /\ \A k \in DOMAIN order :
                LET call == sent.calls[order[k]] IN
                /\ call.name /\ call.args \in {"empty", "object"}
                /\ m.calls[k].args = call.args
                /\ call.id # {} => m.calls[k].id = call.id
           /\ m.by = "summary" => order = <<>> /\ acc.finish # "length"]_streamVars

\* When the calls of a session share an id, which no resume accepts, it is the
\* provider that sent it with both, or sent with one what the client makes up for the
\* other, or both came without an id in different answers, at the same index
\* (_AssistantAccumulator.consume).
IdsOwn ==
  \A j, k \in DOMAIN ids :
    LET a == ids[j]  b == ids[k] IN
    j # k /\ a.id = b.id =>
      \/ a.sent # {} /\ a.sent = b.sent
      \/ a.sent = {} /\ b.sent = {MadeUp(a.index)}
      \/ b.sent = {} /\ a.sent = {MadeUp(b.index)}
      \/ a.sent = {} /\ b.sent = {} /\ a.index = b.index /\ a.request # b.request
===============================================================================
