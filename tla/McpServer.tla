------------------------------ MODULE McpServer ------------------------------
(***************************************************************************)
(* The HTTP and JSON-RPC front of the server: McpServer::run and           *)
(* handle_http_request, handle_jsonrpc_payload, dispatch_request, and      *)
(* FileTools::call, which turns what a tool throws into a tool error.      *)
(* httplib queues connections and serves them on a pool of threads, each   *)
(* of which runs one handler to its end; a tool call blocks its thread.    *)
(*                                                                         *)
(* A request is a health check, a preflight, a path nobody serves, or a    *)
(* POST with a body; a body is no JSON, no UTF-8, a scalar, one JSON-RPC   *)
(* object or a batch.  Of an object only its form counts: which check of   *)
(* dispatch_request it fails, or which method it calls.  What a tool does  *)
(* is left open: it ends with a result, with an error, or with an error    *)
(* whose text is no UTF-8 (an exception that quotes a file name) and       *)
(* cannot be put into JSON: json::dump throws json::type_error, which is   *)
(* neither a JsonRpcError nor a parse_error, so it leaves the handler and  *)
(* httplib answers 500.  A tool call need not end.                         *)
(***************************************************************************)
EXTENDS Naturals, Sequences

CONSTANTS
    Requests,   \* the HTTP requests
    Workers,    \* the threads of the pool
    Bodies,     \* what the requests may carry: functions from requests to a Body
    Debug,      \* bound: the values debug_enabled may have
    RootTexts,  \* may the name of the root be UTF-8, and may it be none?
    Nobody      \* no request

\* An object by the way dispatch_request takes it.
Rejected == {"bad_version", "bad_method", "bad_params", "unknown_method",
             "bad_call"}
Plain == {"initialize", "ping", "tools_list"}
Form == Rejected \cup Plain \cup {"initialized", "call", "no_object"}

\* An entry of a body: its form and its id.
Entry == [form : Form, id : STRING]
Kinds == {"health", "preflight", "unserved", "no_json", "no_utf8", "scalar",
          "single", "batch"}
Body(b) == b.kind \in Kinds /\ b.entries \in Seq(Entry)

ASSUME BodyAssumption ==
    \A f \in Bodies : DOMAIN f = Requests /\ \A r \in Requests :
        /\ Body(f[r])
        /\ f[r].kind = "single" => Len(f[r].entries) = 1
        /\ f[r].kind \notin {"single", "batch"} => f[r].entries = <<>>
ASSUME ServerAssumption ==
    Debug \subseteq BOOLEAN /\ RootTexts \subseteq BOOLEAN /\ Nobody \notin Requests

VARIABLES
    debug,      \* debug_enabled
    rootText,   \* is the name of the root UTF-8?
    body,       \* what each request carries
    queue,      \* the connections that wait for a thread
    serving,    \* the request each thread handles
    at,         \* the entry a handler has come to
    calling,    \* is it inside a tool?
    outcome,    \* how the tool call of each entry ended
    responses,  \* the responses collected so far
    status      \* the HTTP status once the request is answered

vars == <<debug, rootText, body, queue, serving, at, calling, outcome, responses, status>>

Entries(r) == body[r].entries
Outcomes == {"none", "result", "tool_error", "bad_text"}
Statuses == {"none", "waiting", "200", "204", "404", "500"}

TypeOK ==
    /\ debug \in Debug
    /\ rootText \in RootTexts
    /\ body \in Bodies
    /\ queue \in Seq(Requests)
    /\ serving \in [Workers -> Requests \cup {Nobody}]
    /\ \A r \in Requests :
          /\ at[r] \in 1..Len(Entries(r)) + 1
          /\ calling[r] \in BOOLEAN
          /\ outcome[r] \in [1..Len(Entries(r)) -> Outcomes]
          /\ Len(responses[r]) <= Len(Entries(r)) + 1
          /\ status[r] \in Statuses

Init ==
    /\ debug \in Debug
    /\ rootText \in RootTexts
    /\ body \in Bodies
    /\ queue = <<>>
    /\ serving = [w \in Workers |-> Nobody]
    /\ at = [r \in Requests |-> 1]
    /\ calling = [r \in Requests |-> FALSE]
    /\ outcome = [r \in Requests |-> [i \in 1..Len(body[r].entries) |-> "none"]]
    /\ responses = [r \in Requests |-> <<>>]
    /\ status = [r \in Requests |-> "none"]

-----------------------------------------------------------------------------
\* The codes of the errors that dispatch_request throws.
ErrorCode(form) ==
    CASE form \in {"bad_version", "bad_method", "no_object"} -> "-32600"
      [] form \in {"bad_params", "bad_call"} -> "-32602"
      [] form = "unknown_method" -> "-32601"

\* The response to one entry.  Errors carry no id, whatever the entry had.
Error(code) == [id |-> "null", what |-> code]
Response(e, how) ==
    IF e.form \in Plain THEN [id |-> e.id, what |-> "result"]
    ELSE IF e.form = "call" THEN [id |-> e.id, what |-> how]
    ELSE Error(ErrorCode(e.form))

Current(r) == Entries(r)[at[r]]
InPayload(r) == body[r].kind \in {"single", "batch"} /\ at[r] <= Len(Entries(r))

-----------------------------------------------------------------------------
\* A connection arrives and waits for a thread.
Arrive(r) ==
    /\ status[r] = "none"
    /\ status' = [status EXCEPT ![r] = "waiting"]
    /\ queue' = Append(queue, r)
    /\ UNCHANGED <<debug, rootText, body, serving, at, calling, outcome, responses>>

\* A free thread of httplib's pool takes the next connection.
Accept(w) ==
    /\ serving[w] = Nobody /\ queue # <<>>
    /\ serving' = [serving EXCEPT ![w] = Head(queue)]
    /\ queue' = Tail(queue)
    /\ UNCHANGED <<debug, rootText, body, at, calling, outcome, responses, status>>

\* The handler of w ends with an HTTP status.
Answer(w, s) ==
    /\ serving' = [serving EXCEPT ![w] = Nobody]
    /\ status' = [status EXCEPT ![serving[w]] = s]

\* A request without JSON-RPC in it.  The health check names the root: if that is no
\* UTF-8 it cannot be dumped, as in FinishUndumpable.
Simple(w) ==
    /\ serving[w] # Nobody
    /\ \/ body[serving[w]].kind = "health" /\ Answer(w, IF rootText THEN "200" ELSE "500")
       \/ body[serving[w]].kind = "preflight" /\ Answer(w, "204")
       \/ body[serving[w]].kind = "unserved" /\ Answer(w, "404")
    /\ UNCHANGED <<debug, rootText, body, queue, at, calling, outcome, responses>>

\* A body that is no JSON, a scalar, or an empty batch: one error.  The message of
\* a parse error quotes the bytes it stopped at, so it cannot be dumped if these are
\* no UTF-8: of "no_utf8" the quoted bytes are none, as in a body that is not, or the
\* first byte of a letter outside ASCII where a token should begin.
BadBody(w) ==
    /\ serving[w] # Nobody
    /\ LET r == serving[w] IN
       \/ /\ body[r].kind = "no_json"
          /\ responses' = [responses EXCEPT ![r] = <<Error("-32700")>>]
          /\ Answer(w, "200")
       \/ /\ body[r].kind = "no_utf8"
          /\ Answer(w, "500")
          /\ UNCHANGED responses
       \/ /\ body[r].kind = "scalar" \/ (body[r].kind = "batch" /\ Entries(r) = <<>>)
          /\ responses' = [responses EXCEPT ![r] = <<Error("-32600")>>]
          /\ Answer(w, "200")
    /\ UNCHANGED <<debug, rootText, body, queue, at, calling, outcome>>

\* Mutant: an error in the middle of a batch ends the batch.
DispatchStops(w) ==
    /\ serving[w] # Nobody /\ InPayload(serving[w])
    /\ LET r == serving[w]  e == Current(r) IN
       /\ e.form # "call"
       /\ responses' = [responses EXCEPT ![r] =
              IF e.form = "initialized" THEN @ ELSE Append(@, Response(e, "none"))]
       /\ at' = [at EXCEPT ![r] =
              IF e.form \in Rejected THEN Len(Entries(r)) + 1 ELSE @ + 1]
    /\ UNCHANGED <<debug, rootText, body, queue, serving, calling, outcome, status>>

\* Mutant: the loop over the batch and dispatch_request both advance.
DispatchSkips(w) ==
    /\ serving[w] # Nobody /\ InPayload(serving[w])
    /\ LET r == serving[w]  e == Current(r) IN
       /\ e.form # "call"
       /\ responses' = [responses EXCEPT ![r] =
              IF e.form = "initialized" THEN @ ELSE Append(@, Response(e, "none"))]
       /\ at' = [at EXCEPT ![r] = @ + 2]
    /\ UNCHANGED <<debug, rootText, body, queue, serving, calling, outcome, status>>

\* dispatch_request for an entry that calls no tool.
Dispatch(w) ==
    /\ serving[w] # Nobody /\ InPayload(serving[w])
    /\ LET r == serving[w]  e == Current(r) IN
       /\ e.form # "call"
       /\ responses' = [responses EXCEPT ![r] =
              IF e.form = "initialized" THEN @ ELSE Append(@, Response(e, "none"))]
       /\ at' = [at EXCEPT ![r] = @ + 1]
    /\ UNCHANGED <<debug, rootText, body, queue, serving, calling, outcome, status>>

\* dispatch_request enters FileTools::call.
StartCall(w) ==
    /\ serving[w] # Nobody /\ InPayload(serving[w])
    /\ Current(serving[w]).form = "call" /\ ~calling[serving[w]]
    /\ calling' = [calling EXCEPT ![serving[w]] = TRUE]
    /\ UNCHANGED <<debug, rootText, body, queue, serving, at, outcome, responses, status>>

\* Mutant: a tool error leaves the batch, as a JSON-RPC error leaves a request.
EndCallThrows(w) ==
    /\ serving[w] # Nobody /\ calling[serving[w]]
    /\ LET r == serving[w] IN
       \E how \in {"result", "tool_error"} :
          /\ outcome' = [outcome EXCEPT ![r][at[r]] = how]
          /\ calling' = [calling EXCEPT ![r] = FALSE]
          /\ responses' = [responses EXCEPT ![r] = Append(@, Response(Current(r), how))]
          /\ at' = [at EXCEPT ![r] = @ + 1]
          /\ IF how = "tool_error" THEN Answer(w, "500") ELSE UNCHANGED <<serving, status>>
    /\ UNCHANGED <<debug, rootText, body, queue>>

\* The tool returns or throws; FileTools::call makes a result of either, and
\* dispatch_request a response.
EndCall(w) ==
    /\ serving[w] # Nobody /\ calling[serving[w]]
    /\ LET r == serving[w] IN
       \E how \in {"result", "tool_error"} :
          /\ outcome' = [outcome EXCEPT ![r][at[r]] = how]
          /\ calling' = [calling EXCEPT ![r] = FALSE]
          /\ responses' = [responses EXCEPT ![r] = Append(@, Response(Current(r), how))]
          /\ at' = [at EXCEPT ![r] = @ + 1]
    /\ UNCHANGED <<debug, rootText, body, queue, serving, status>>

\* The result is an error whose text is no UTF-8.  With the debug log on, the
\* response is dumped for the log and the exception ends the batch; else it is
\* kept like any other, and the batch goes on.
EndCallBadText(w) ==
    /\ serving[w] # Nobody /\ calling[serving[w]]
    /\ LET r == serving[w] IN
       /\ outcome' = [outcome EXCEPT ![r][at[r]] = "bad_text"]
       /\ calling' = [calling EXCEPT ![r] = FALSE]
       /\ IF debug
            THEN /\ responses' = [responses EXCEPT ![r] = <<>>]
                 /\ Answer(w, "500")
                 /\ UNCHANGED at
            ELSE /\ responses' = [responses EXCEPT ![r] =
                                    Append(@, Response(Current(r), "bad_text"))]
                 /\ at' = [at EXCEPT ![r] = @ + 1]
                 /\ UNCHANGED <<serving, status>>
    /\ UNCHANGED <<debug, rootText, body, queue>>

AtTheEnd(w) ==
    /\ serving[w] # Nobody
    /\ LET r == serving[w] IN
       /\ body[r].kind \in {"single", "batch"} /\ Entries(r) # <<>>
       /\ at[r] > Len(Entries(r))
Undumpable(r) == \E i \in DOMAIN responses[r] : responses[r][i].what = "bad_text"

\* Mutant: a body of notifications only is never answered.
FinishIfResponses(w) ==
    /\ AtTheEnd(w) /\ responses[serving[w]] # <<>> /\ ~Undumpable(serving[w])
    /\ Answer(w, "200")
    /\ UNCHANGED <<debug, rootText, body, queue, at, calling, outcome, responses>>

\* All entries are done: 204 if nothing is to be said.
Finish(w) ==
    /\ AtTheEnd(w) /\ ~Undumpable(serving[w])
    /\ Answer(w, IF responses[serving[w]] = <<>> THEN "204" ELSE "200")
    /\ UNCHANGED <<debug, rootText, body, queue, at, calling, outcome, responses>>

\* All entries are done, but the responses cannot be dumped: none is sent.
FinishUndumpable(w) ==
    /\ AtTheEnd(w) /\ Undumpable(serving[w])
    /\ responses' = [responses EXCEPT ![serving[w]] = <<>>]
    /\ Answer(w, "500")
    /\ UNCHANGED <<debug, rootText, body, queue, at, calling, outcome>>

-----------------------------------------------------------------------------
\* What the thread itself does, and what the tool does that it has called.
Serve(w) ==
    \/ Accept(w) \/ Simple(w) \/ BadBody(w) \/ Dispatch(w) \/ StartCall(w)
    \/ Finish(w) \/ FinishUndumpable(w)
Worker(w) == Serve(w) \/ EndCall(w) \/ EndCallBadText(w)

Next == (\E r \in Requests : Arrive(r)) \/ \E w \in Workers : Worker(w)

Spec == Init /\ [][Next]_vars

\* The threads of the pool are scheduled.  A tool call may go on for ever: a command
\* whose output a descendant keeps open is waited for without limit.
ServerFairness == \A w \in Workers : WF_vars(Serve(w))

-----------------------------------------------------------------------------
Answered(r) == status[r] \notin {"none", "waiting"}
IsPayload(r) == body[r].kind \in {"single", "batch"} /\ Entries(r) # <<>>

\* The responses so far belong to the first n entries, `of` tells which to which:
\* all but the notifications have one, in the order of the entries, with the id of
\* the entry and the outcome of its call.
Match(of, r, n) ==
    /\ \A j, k \in DOMAIN of : j < k => of[j] < of[k]
    /\ {of[k] : k \in DOMAIN of} = {i \in 1..n : Entries(r)[i].form # "initialized"}
    /\ \A k \in DOMAIN of :
          responses[r][k] = Response(Entries(r)[of[k]], outcome[r][of[k]])

\* A body is answered by exactly one response for each entry but the
\* notifications, in the order of the entries, with the id of the entry and the
\* outcome of its call; 204 if there are none.  Errors of some entries do not
\* cost the others theirs.
AnswersMatchBody ==
    \A r \in Requests :
        IsPayload(r) /\ status[r] \in {"200", "204"} =>
            /\ \E of \in [DOMAIN responses[r] -> DOMAIN Entries(r)] :
                   Match(of, r, Len(Entries(r)))
            /\ status[r] = "204" <=>
                   \A i \in DOMAIN Entries(r) : Entries(r)[i].form = "initialized"

\* Tool calls of one body run in its order, none is skipped and none is repeated:
\* at any time those that ran are the first ones.
CallsInOrder ==
    \A r \in Requests : \A i \in DOMAIN Entries(r) :
        /\ outcome[r][i] # "none" => Entries(r)[i].form = "call"
        /\ Entries(r)[i].form = "call" /\ outcome[r][i] = "none"
             => \A j \in DOMAIN Entries(r) : j > i => outcome[r][j] = "none"

\* The only answer that hides tool calls that ran is 500, and its cause is text
\* that is no UTF-8: in the name of the root or in the body, and then nothing ran, or
\* in the error of a call.
\* Without the debug log all calls of the body have run by then, with it none
\* after the bad one has.
LostOnlyByBadText ==
    \A r \in Requests : Answered(r) =>
        LET calls == {i \in DOMAIN Entries(r) : Entries(r)[i].form = "call"}
            bad == {i \in calls : outcome[r][i] = "bad_text"}
            ran == {i \in calls : outcome[r][i] # "none"}
        IN  /\ status[r] = "500" <=>
                   \/ body[r].kind = "no_utf8"
                   \/ body[r].kind = "health" /\ ~rootText
                   \/ bad # {}
            /\ bad = {} \/ ~debug => ran = calls
            /\ bad # {} /\ debug => \A i \in bad : ran = {j \in calls : j <= i}

\* Every request is answered, behind any number of tool calls that end, unless its own
\* tool call never does, or all threads of the pool are held for ever by calls that
\* never end: health checks and refusals wait for a thread like everything else.
InTool(w) == serving[w] # Nobody /\ calling[serving[w]]
EveryRequestAnswered ==
    \A r \in Requests :
        []<>(~calling[r]) /\ []<>(\E w \in Workers : ~InTool(w))
            => ((status[r] = "waiting") ~> Answered(r))
=============================================================================
