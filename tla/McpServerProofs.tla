--------------------------- MODULE McpServerProofs ---------------------------
(***************************************************************************)
(* Proofs about McpServer, for any number of requests, threads and bodies, *)
(* and that the process as a whole does what its two parts are proved of.  *)
(***************************************************************************)
EXTENDS Process, TLAPS

Replies == [id : STRING \cup {"null"},
            what : {"result", "tool_error", "bad_text", "none",
                    "-32700", "-32600", "-32601", "-32602"}]

\* The types of the variables, and what bounds the responses: every entry that is
\* done has at most one.
TypeInv ==
    /\ debug \in Debug
    /\ rootText \in RootTexts
    /\ body \in Bodies
    /\ queue \in Seq(Requests)
    /\ serving \in [Workers -> Requests \cup {Nobody}]
    /\ at \in [Requests -> Nat \ {0}]
    /\ calling \in [Requests -> BOOLEAN]
    /\ outcome \in [Requests -> UNION {[1..n -> Outcomes] : n \in Nat}]
    /\ responses \in [Requests -> Seq(Replies)]
    /\ status \in [Requests -> Statuses]
    /\ \A r \in Requests :
          /\ outcome[r] \in [1..Len(Entries(r)) -> Outcomes]
          /\ at[r] <= Len(Entries(r)) + 1
          /\ Len(responses[r]) <= at[r]
          /\ calling[r] => InPayload(r) /\ Current(r).form = "call"

\* A request is in one place: with one thread, or once in the queue.
PlaceInv ==
    /\ \A i, j \in 1..Len(queue) : queue[i] = queue[j] => i = j
    /\ \A w \in Workers : \A i \in 1..Len(queue) : serving[w] # queue[i]
    /\ \A v, w \in Workers : serving[v] = serving[w] /\ serving[v] # Nobody => v = w
    /\ \A r \in Requests :
          status[r] = "waiting" <=> \/ \E w \in Workers : serving[w] = r
                                    \/ \E i \in 1..Len(queue) : queue[i] = r

\* The calls that ran are those before the entry a handler has come to, and
\* perhaps that entry itself.
RanInv ==
    \A r \in Requests : \A i \in 1..Len(Entries(r)) :
        /\ outcome[r][i] # "none" => Entries(r)[i].form = "call" /\ i <= at[r]
        /\ Entries(r)[i].form = "call" /\ i < at[r] => outcome[r][i] # "none"

\* Bad text: while a request is handled it is among its responses, and with the debug
\* log on it has ended the handler.
\* What cannot be dumped whatever the tools do.
NoText(r) ==
    body[r].kind = "no_utf8" \/ (body[r].kind = "health" /\ ~rootText)

HasBad(r) == \E i \in 1..Len(Entries(r)) : outcome[r][i] = "bad_text"
LossInv ==
    \A r \in Requests :
        /\ ~Answered(r) => (HasBad(r) => ~debug) /\ (HasBad(r) <=> Undumpable(r))
        /\ ~Answered(r) =>
              \A i \in 1..Len(Entries(r)) : outcome[r][i] = "bad_text" => i < at[r]
        /\ Answered(r) =>
              /\ status[r] = "500" <=> NoText(r) \/ HasBad(r)
              /\ \/ at[r] > Len(Entries(r))
                 \/ /\ debug /\ at[r] <= Len(Entries(r))
                    /\ outcome[r][at[r]] = "bad_text"
              /\ debug /\ HasBad(r) => at[r] <= Len(Entries(r))
        /\ debug => \A i \in 1..Len(Entries(r)) : outcome[r][i] = "bad_text" => i = at[r]

-----------------------------------------------------------------------------
\* A request has entries, one when it is no batch.
LEMMA Bodied ==
    ASSUME body \in Bodies, NEW r \in Requests
    PROVE  /\ Entries(r) \in Seq(Entry) /\ Len(Entries(r)) \in Nat
           /\ body[r].kind = "single" => Len(Entries(r)) = 1
           /\ body[r].kind \notin {"single", "batch"} => Entries(r) = <<>>
BY BodyAssumption DEF Body, Entries

\* A response is one of the replies, and a bad one when the result of a call was.
LEMMA Replied ==
    ASSUME NEW e \in Entry, e.form # "initialized",
           NEW how \in {"result", "tool_error", "bad_text", "none"}
    PROVE  /\ Response(e, how) \in Replies
           /\ Response(e, how).what = "bad_text" <=> e.form = "call" /\ how = "bad_text"
<1>1. e.form \in Form /\ e.id \in STRING
    BY DEF Entry
<1>2. e.form \notin Plain /\ e.form # "call" =>
        ErrorCode(e.form) \in {"-32600", "-32601", "-32602"}
    BY <1>1 DEF Form, Rejected, Plain, ErrorCode
<1>3. \A code \in {"-32600", "-32601", "-32602"} :
        Error(code) \in Replies /\ Error(code).what # "bad_text"
    BY DEF Error, Replies
<1>4. "call" \notin Plain
    BY DEF Plain
<1>5. CASE e.form \in Plain
    BY <1>1, <1>4, <1>5 DEF Response, Replies
<1>6. CASE e.form = "call"
    BY <1>1, <1>4, <1>6 DEF Response, Replies
<1>7. CASE e.form \notin Plain /\ e.form # "call"
    BY <1>2, <1>3, <1>7 DEF Response
<1> QED
    BY <1>5, <1>6, <1>7

\* The types hold at the start.
LEMMA TypeInit == Init => TypeInv
<1> SUFFICES ASSUME Init PROVE TypeInv
    OBVIOUS
<1>1. \A r \in Requests : Len(Entries(r)) \in Nat
    BY Bodied DEF Init
<1> QED
    BY <1>1 DEF Init, TypeInv, Outcomes, Statuses, Entries

\* The types hold after every step.
LEMMA TypeNext == TypeInv /\ [Next]_vars => TypeInv'
<1> SUFFICES ASSUME TypeInv, [Next]_vars PROVE TypeInv'
    OBVIOUS
<1> USE DEF TypeInv
<1>0. /\ \A r \in Requests : Entries(r) \in Seq(Entry) /\ Len(Entries(r)) \in Nat
      /\ \A r \in Requests : body[r].kind \notin {"single", "batch"} => Entries(r) = <<>>
      /\ \A r \in Requests : body[r].kind = "single" => Len(Entries(r)) = 1
    BY Bodied
<1>1. ASSUME NEW r \in Requests, Arrive(r) PROVE TypeInv'
    BY <1>0, <1>1 DEF Arrive, Statuses, Entries, InPayload, Current
<1> SUFFICES ASSUME NEW w \in Workers, Worker(w) PROVE TypeInv'
    BY <1>0, <1>1 DEF Next, vars, Entries, InPayload, Current
<1>2. CASE Accept(w)
    BY <1>0, <1>2 DEF Accept, Entries, InPayload, Current
<1> SUFFICES ASSUME serving[w] # Nobody, ~Accept(w) PROVE TypeInv'
    BY <1>2 DEF Worker, Serve, Simple, BadBody, Dispatch, StartCall, EndCall, EndCallBadText,
                Finish, FinishUndumpable, AtTheEnd
<1> DEFINE r == serving[w]
<1>3. r \in Requests /\ r # Nobody
    OBVIOUS
<1>4. body' = body /\ rootText' = rootText /\ debug' = debug /\ queue' = queue
    BY DEF Worker, Serve, Simple, BadBody, Dispatch, StartCall, EndCall, EndCallBadText,
           Finish, FinishUndumpable
<1>5. ASSUME NEW s \in Statuses, Answer(w, s)
      PROVE  /\ serving' \in [Workers -> Requests \cup {Nobody}]
             /\ status' \in [Requests -> Statuses]
    BY <1>3, <1>5 DEF Answer
<1>6. InPayload(r) => /\ at[r] \in 1..Len(Entries(r)) /\ Current(r) \in Entry
                      /\ at[r] + 1 <= Len(Entries(r)) + 1
    BY <1>0, <1>3 DEF InPayload, Current
<1>7. CASE Simple(w) \/ Finish(w)
  <2>1. \E s \in Statuses : Answer(w, s)
    BY <1>7 DEF Simple, Finish, Statuses
  <2>2. UNCHANGED <<at, calling, outcome, responses>>
    BY <1>7 DEF Simple, Finish
  <2> QED
    BY <1>0, <1>4, <1>5, <2>1, <2>2 DEF Entries, InPayload, Current
<1>8. CASE BadBody(w)
  <2>1. responses' = responses \/ \E e \in Replies : responses' = [responses EXCEPT ![r] = <<e>>]
    <3>1. Error("-32700") \in Replies /\ Error("-32600") \in Replies
      BY DEF Error, Replies
    <3> QED
      BY <1>8, <3>1 DEF BadBody
  <2>2. /\ responses' \in [Requests -> Seq(Replies)]
        /\ \A q \in Requests : Len(responses'[q]) <= at[q]
    <3>1. \A e \in Replies : <<e>> \in Seq(Replies) /\ Len(<<e>>) = 1
      OBVIOUS
    <3>2. CASE responses' = responses
      BY <3>2
    <3>3. ASSUME NEW e \in Replies, responses' = [responses EXCEPT ![r] = <<e>>]
          PROVE  /\ responses' \in [Requests -> Seq(Replies)]
                 /\ \A q \in Requests : Len(responses'[q]) <= at[q]
      BY <1>3, <3>1, <3>3
    <3> QED
      BY <2>1, <3>2, <3>3
  <2>3. /\ serving' \in [Workers -> Requests \cup {Nobody}]
        /\ status' \in [Requests -> Statuses]
    BY <1>5, <1>8 DEF BadBody, Statuses
  <2> QED
    BY <1>4, <1>8, <2>2, <2>3 DEF BadBody, Entries, InPayload, Current
<1>9. CASE Dispatch(w)
  <2>1. /\ InPayload(r) /\ Current(r).form # "call" /\ ~calling[r]
        /\ at' = [at EXCEPT ![r] = @ + 1]
    BY <1>3, <1>9 DEF Dispatch
  <2>2. \/ responses' = responses
        \/ \E e \in Replies : responses' = [responses EXCEPT ![r] = Append(@, e)]
    BY <1>3, <1>6, <1>9, <2>1, Replied DEF Dispatch
  <2>3. /\ responses' \in [Requests -> Seq(Replies)]
        /\ \A q \in Requests : Len(responses'[q]) <= at'[q]
    <3>1. \A e \in Replies : /\ Append(responses[r], e) \in Seq(Replies)
                              /\ Len(Append(responses[r], e)) = Len(responses[r]) + 1
      BY <1>3
    <3>2. CASE responses' = responses
      BY <1>3, <2>1, <3>2
    <3>3. ASSUME NEW e \in Replies, responses' = [responses EXCEPT ![r] = Append(@, e)]
          PROVE  /\ responses' \in [Requests -> Seq(Replies)]
                 /\ \A q \in Requests : Len(responses'[q]) <= at'[q]
      BY <1>3, <2>1, <3>1, <3>3
    <3> QED
      BY <2>2, <3>2, <3>3
  <2>4. at' \in [Requests -> Nat \ {0}] /\ \A q \in Requests : at'[q] <= Len(Entries(q)) + 1
    BY <1>0, <1>3, <1>6, <2>1
  <2>5. \A q \in Requests : calling'[q] => InPayload(q)' /\ Current(q)'.form = "call"
    BY <1>3, <1>4, <1>9, <2>1 DEF Dispatch, Entries, InPayload, Current
  <2> QED
    BY <1>4, <1>9, <2>3, <2>4, <2>5 DEF Dispatch, Entries
<1>10. CASE StartCall(w)
    BY <1>3, <1>4, <1>10 DEF StartCall, Entries, InPayload, Current
<1>11. ASSUME NEW how \in {"result", "tool_error", "bad_text"}, calling[r],
              outcome' = [outcome EXCEPT ![r][at[r]] = how]
       PROVE  /\ outcome' \in [Requests -> UNION {[1..n -> Outcomes] : n \in Nat}]
              /\ \A q \in Requests : outcome'[q] \in [1..Len(Entries(q)) -> Outcomes]
  <2>1. outcome' = [outcome EXCEPT ![r] = [outcome[r] EXCEPT ![at[r]] = how]]
    BY <1>11
  <2>2. [outcome[r] EXCEPT ![at[r]] = how] \in [1..Len(Entries(r)) -> Outcomes]
    BY <1>3 DEF Outcomes
  <2> QED
    BY <1>0, <1>3, <2>1, <2>2
<1>12. ASSUME NEW how \in {"result", "tool_error", "bad_text"}, calling[r],
              responses' = [responses EXCEPT ![r] = Append(@, Response(Current(r), how))],
              at' = [at EXCEPT ![r] = @ + 1]
       PROVE  /\ responses' \in [Requests -> Seq(Replies)]
              /\ at' \in [Requests -> Nat \ {0}]
              /\ \A q \in Requests : /\ at'[q] <= Len(Entries(q)) + 1
                                     /\ Len(responses'[q]) <= at'[q]
  <2>1. Response(Current(r), how) \in Replies
    BY <1>3, <1>6, <1>12, Replied
  <2> QED
    BY <1>0, <1>3, <1>6, <1>12, <2>1
<1>13. CASE EndCall(w)
  <2>1. PICK how \in {"result", "tool_error"} :
          /\ outcome' = [outcome EXCEPT ![r][at[r]] = how]
          /\ responses' = [responses EXCEPT ![r] = Append(@, Response(Current(r), how))]
          /\ at' = [at EXCEPT ![r] = @ + 1]
    BY <1>13 DEF EndCall
  <2>2. /\ calling[r] /\ calling' = [calling EXCEPT ![r] = FALSE]
        /\ UNCHANGED <<serving, status>>
    BY <1>13 DEF EndCall
  <2>3. \A q \in Requests : calling'[q] => InPayload(q)' /\ Current(q)'.form = "call"
    BY <1>3, <1>4, <2>1, <2>2 DEF Entries, InPayload, Current
  <2> QED
    BY <1>3, <1>4, <1>11, <1>12, <2>1, <2>2, <2>3 DEF Entries
<1>14. CASE EndCallBadText(w)
  <2>1. /\ calling[r] /\ calling' = [calling EXCEPT ![r] = FALSE]
        /\ outcome' = [outcome EXCEPT ![r][at[r]] = "bad_text"]
    BY <1>14 DEF EndCallBadText
  <2>2. CASE debug
    <3>1. /\ responses' = [responses EXCEPT ![r] = <<>>] /\ at' = at
          /\ Answer(w, "500")
      BY <1>14, <2>2 DEF EndCallBadText
    <3>2. \A q \in Requests : calling'[q] => InPayload(q)' /\ Current(q)'.form = "call"
      BY <1>3, <1>4, <2>1, <3>1 DEF Entries, InPayload, Current
    <3>3. /\ serving' \in [Workers -> Requests \cup {Nobody}]
          /\ status' \in [Requests -> Statuses]
      BY <1>5, <3>1 DEF Statuses
    <3>4. /\ responses' \in [Requests -> Seq(Replies)]
          /\ \A q \in Requests : Len(responses'[q]) <= at[q]
      BY <1>3, <3>1
    <3> QED
      BY <1>3, <1>4, <1>11, <2>1, <3>1, <3>2, <3>3, <3>4 DEF Entries
  <2>3. CASE ~debug
    <3>1. /\ responses' = [responses EXCEPT ![r] = Append(@, Response(Current(r), "bad_text"))]
          /\ at' = [at EXCEPT ![r] = @ + 1]
          /\ UNCHANGED <<serving, status>>
      BY <1>14, <2>3 DEF EndCallBadText
    <3>2. \A q \in Requests : calling'[q] => InPayload(q)' /\ Current(q)'.form = "call"
      BY <1>3, <1>4, <2>1, <3>1 DEF Entries, InPayload, Current
    <3> QED
      BY <1>3, <1>4, <1>11, <1>12, <2>1, <3>1, <3>2 DEF Entries
  <2> QED
    BY <2>2, <2>3
<1>15. CASE FinishUndumpable(w)
  <2>1. /\ serving' \in [Workers -> Requests \cup {Nobody}]
        /\ status' \in [Requests -> Statuses]
    BY <1>5, <1>15 DEF FinishUndumpable, Statuses
  <2>2. /\ responses' \in [Requests -> Seq(Replies)]
        /\ \A q \in Requests : Len(responses'[q]) <= at[q]
    BY <1>3, <1>15 DEF FinishUndumpable
  <2> QED
    BY <1>3, <1>4, <1>15, <2>1, <2>2 DEF FinishUndumpable, Entries, InPayload, Current
<1> QED
    BY <1>7, <1>8, <1>9, <1>10, <1>13, <1>14, <1>15 DEF Worker, Serve

\* Every variable keeps its type: TypeOK of McpServer.
THEOREM ServerTypes == Spec => []TypeOK
<1>1. TypeInv => TypeOK
  <2> SUFFICES ASSUME TypeInv, NEW r \in Requests
               PROVE  /\ at[r] \in 1..Len(Entries(r)) + 1
                      /\ Len(responses[r]) <= Len(Entries(r)) + 1
    BY DEF TypeInv, TypeOK
  <2> QED
    BY Bodied DEF TypeInv
<1> QED
    BY <1>1, TypeInit, TypeNext, PTL DEF Spec

-----------------------------------------------------------------------------
\* What a step of a thread does to the places: it goes on with its request, or it
\* answers it.
LEMMA WorkerPlaces ==
    ASSUME NEW w \in Workers, Worker(w)
    PROVE  \/ Accept(w)
           \/ UNCHANGED <<queue, serving, status>>
           \/ serving[w] # Nobody /\ UNCHANGED queue
              /\ \E s \in {"200", "204", "404", "500"} : Answer(w, s)
BY DEF Worker, Serve, Simple, BadBody, Dispatch, StartCall, EndCall, EndCallBadText, Finish,
       FinishUndumpable, AtTheEnd

\* No request is waiting at the start.
LEMMA PlaceInit == Init => PlaceInv
BY ServerAssumption DEF Init, PlaceInv

\* A request stays in one place: the queue, one worker or nowhere.
LEMMA PlaceNext == TypeInv /\ PlaceInv /\ [Next]_vars => PlaceInv'
<1> SUFFICES ASSUME TypeInv, PlaceInv, [Next]_vars PROVE PlaceInv'
    OBVIOUS
<1>0. /\ Nobody \notin Requests /\ Len(queue) \in Nat
      /\ \A i \in 1..Len(queue) : queue[i] \in Requests
    BY ServerAssumption DEF TypeInv
<1>1. ASSUME NEW r \in Requests, Arrive(r) PROVE PlaceInv'
  <2>1. /\ Len(queue') = Len(queue) + 1 /\ queue'[Len(queue) + 1] = r
        /\ \A i \in 1..Len(queue) : queue'[i] = queue[i]
    BY <1>1 DEF Arrive, TypeInv
  <2>2. /\ \A i \in 1..Len(queue) : queue[i] # r
        /\ \A w \in Workers : serving[w] # r
    BY <1>1 DEF Arrive, PlaceInv
  <2>3. serving' = serving /\ status' = [status EXCEPT ![r] = "waiting"]
    BY <1>1 DEF Arrive
  <2>4. \A i \in 1..Len(queue') : i \in 1..Len(queue) \/ i = Len(queue) + 1
    BY <1>0, <2>1
  <2>5. \A i, j \in 1..Len(queue') : queue'[i] = queue'[j] => i = j
    BY <1>0, <2>1, <2>2, <2>4 DEF PlaceInv
  <2>6. \A w \in Workers : \A i \in 1..Len(queue') : serving'[w] # queue'[i]
    BY <1>0, <2>1, <2>2, <2>3, <2>4 DEF PlaceInv
  <2>7. ASSUME NEW q \in Requests
        PROVE  status'[q] = "waiting" <=> \/ \E w \in Workers : serving'[w] = q
                                          \/ \E i \in 1..Len(queue') : queue'[i] = q
    <3>1. CASE q = r
      <4>1. Len(queue) + 1 \in 1..Len(queue') /\ queue'[Len(queue) + 1] = q
        BY <1>0, <2>1, <3>1
      <4>2. status'[q] = "waiting"
        BY <2>3, <3>1 DEF TypeInv
      <4> QED
        BY <4>1, <4>2
    <3>2. CASE q # r
      <4>1. (\E i \in 1..Len(queue') : queue'[i] = q) <=> \E i \in 1..Len(queue) : queue[i] = q
        BY <1>0, <2>1, <2>4, <3>2
      <4> QED
        BY <2>3, <3>2, <4>1 DEF PlaceInv, TypeInv
    <3> QED
      BY <3>1, <3>2
  <2> QED
    BY <2>3, <2>5, <2>6, <2>7 DEF PlaceInv
<1>2. CASE UNCHANGED <<queue, serving, status>>
    BY <1>2 DEF PlaceInv
<1> SUFFICES ASSUME NEW w \in Workers, Worker(w) PROVE PlaceInv'
    BY <1>1, <1>2 DEF Next, vars
<1>3. CASE Accept(w)
  <2> DEFINE r == Head(queue)
  <2>1. /\ r = queue[1] /\ r \in Requests /\ 1 \in 1..Len(queue)
        /\ Len(queue') = Len(queue) - 1
        /\ \A i \in 1..Len(queue') : i + 1 \in 1..Len(queue) /\ queue'[i] = queue[i + 1]
        /\ \A i \in 1..Len(queue) : i = 1 \/ i - 1 \in 1..Len(queue')
    BY <1>0, <1>3 DEF Accept, TypeInv
  <2>2. /\ serving[w] = Nobody /\ serving' = [serving EXCEPT ![w] = r]
        /\ status' = status
    BY <1>3 DEF Accept
  <2>3. \A i, j \in 1..Len(queue') : queue'[i] = queue'[j] => i = j
    BY <1>0, <2>1 DEF PlaceInv
  <2>4. \A i \in 1..Len(queue') : queue'[i] # r
    BY <1>0, <2>1 DEF PlaceInv
  <2>5. \A v \in Workers : \A i \in 1..Len(queue') : serving'[v] # queue'[i]
    BY <2>1, <2>2, <2>4, SMTT(30) DEF PlaceInv, TypeInv
  <2>6. \A v \in Workers : serving[v] # r
    BY <2>1 DEF PlaceInv
  <2>7. \A v, u \in Workers : serving'[v] = serving'[u] /\ serving'[v] # Nobody => v = u
    BY <2>2, <2>6 DEF PlaceInv, TypeInv
  <2>8. ASSUME NEW q \in Requests
        PROVE  status'[q] = "waiting" <=> \/ \E v \in Workers : serving'[v] = q
                                          \/ \E i \in 1..Len(queue') : queue'[i] = q
    <3>1. CASE q = r
      <4>1. status[r] = "waiting"
        BY <2>1 DEF PlaceInv
      <4>2. serving'[w] = r
        BY <2>2 DEF TypeInv
      <4> QED
        BY <2>2, <3>1, <4>1, <4>2
    <3>2. CASE q # r
      <4>1. (\E i \in 1..Len(queue') : queue'[i] = q) <=> \E i \in 1..Len(queue) : queue[i] = q
        <5>1. ASSUME NEW i \in 1..Len(queue'), queue'[i] = q
              PROVE  \E j \in 1..Len(queue) : queue[j] = q
          BY <2>1, <5>1
        <5>2. ASSUME NEW i \in 1..Len(queue), queue[i] = q
              PROVE  \E j \in 1..Len(queue') : queue'[j] = q
          <6>1. i # 1 /\ i - 1 \in 1..Len(queue')
            BY <2>1, <3>2, <5>2
          <6>2. queue'[i - 1] = queue[i]
            BY <2>1, <6>1
          <6> QED
            BY <5>2, <6>1, <6>2
        <5> QED
          BY <5>1, <5>2
      <4>2. (\E v \in Workers : serving'[v] = q) <=> \E v \in Workers : serving[v] = q
        <5>1. q # Nobody
          BY <1>0
        <5> QED
          BY <2>2, <3>2, <5>1 DEF TypeInv
      <4> QED
        BY <2>2, <4>1, <4>2 DEF PlaceInv
    <3> QED
      BY <3>1, <3>2
  <2> QED
    BY <2>3, <2>5, <2>7, <2>8 DEF PlaceInv
<1>4. ASSUME serving[w] # Nobody, UNCHANGED queue,
             NEW s \in {"200", "204", "404", "500"}, Answer(w, s)
      PROVE  PlaceInv'
  <2>1. /\ serving' = [serving EXCEPT ![w] = Nobody]
        /\ status' = [status EXCEPT ![serving[w]] = s]
        /\ serving[w] \in Requests /\ s # "waiting"
    BY <1>4 DEF Answer, TypeInv
  <2>2. \A v \in Workers : serving'[v] = IF v = w THEN Nobody ELSE serving[v]
    BY <2>1 DEF TypeInv
  <2>4. \A v \in Workers : \A i \in 1..Len(queue) : serving'[v] # queue[i]
    BY <1>0, <2>2 DEF PlaceInv
  <2>5. \A v, u \in Workers : serving'[v] = serving'[u] /\ serving'[v] # Nobody => v = u
    BY <2>2 DEF PlaceInv
  <2>3. ASSUME NEW q \in Requests
        PROVE  status'[q] = "waiting" <=> \/ \E v \in Workers : serving'[v] = q
                                          \/ \E i \in 1..Len(queue) : queue[i] = q
    <3>1. CASE q = serving[w]
      <4>1. ~\E v \in Workers : serving'[v] = q
        BY <1>0, <2>1, <3>1 DEF PlaceInv, TypeInv
      <4>2. ~\E i \in 1..Len(queue) : queue[i] = q
        BY <3>1 DEF PlaceInv
      <4> QED
        BY <2>1, <3>1, <4>1, <4>2 DEF TypeInv
    <3>2. CASE q # serving[w]
      <4>1. (\E v \in Workers : serving'[v] = q) <=> \E v \in Workers : serving[v] = q
        BY <1>0, <2>1, <3>2 DEF TypeInv
      <4> QED
        BY <2>1, <3>2, <4>1 DEF PlaceInv, TypeInv
    <3> QED
      BY <3>1, <3>2
  <2> QED
    BY <1>4, <2>3, <2>4, <2>5 DEF PlaceInv
<1> QED
    BY <1>2, <1>3, <1>4, WorkerPlaces

-----------------------------------------------------------------------------
\* A step of a thread, seen from the requests: nothing but the one it handles is
\* touched, and that one goes on, runs a call, or ends.
LEMMA Untouched ==
    ASSUME TypeInv, NEW w \in Workers, Worker(w), ~Accept(w)
    PROVE  /\ serving[w] \in Requests /\ body' = body /\ rootText' = rootText /\ debug' = debug
           /\ \A q \in Requests \ {serving[w]} :
                 /\ at'[q] = at[q] /\ outcome'[q] = outcome[q]
                 /\ responses'[q] = responses[q] /\ status'[q] = status[q]
<1>1. serving[w] \in Requests /\ body' = body /\ rootText' = rootText /\ debug' = debug
    BY DEF Worker, Serve, Simple, BadBody, Dispatch, StartCall, EndCall, EndCallBadText,
           Finish, FinishUndumpable, AtTheEnd, TypeInv
<1> SUFFICES ASSUME NEW q \in Requests, q # serving[w]
             PROVE  /\ at'[q] = at[q] /\ outcome'[q] = outcome[q]
                    /\ responses'[q] = responses[q] /\ status'[q] = status[q]
    BY <1>1
<1> USE DEF TypeInv
<1>2. CASE Simple(w) \/ Finish(w) \/ FinishUndumpable(w) \/ StartCall(w)
    BY <1>2 DEF Simple, Finish, FinishUndumpable, StartCall, Answer
<1>3. CASE BadBody(w) \/ Dispatch(w)
    BY <1>3 DEF BadBody, Dispatch, Answer
<1>4. CASE EndCall(w) \/ EndCallBadText(w)
    BY <1>4 DEF EndCall, EndCallBadText, Answer
<1> QED
    BY <1>2, <1>3, <1>4 DEF Worker, Serve

\* An entry that calls no tool; a call; a call whose bad text the debug log meets.
PassesEntry(r) ==
    /\ UNCHANGED <<outcome, status>> /\ at'[r] = at[r] + 1
    /\ at[r] <= Len(Entries(r)) /\ Entries(r)[at[r]].form # "call"
    /\ \/ responses' = responses
       \/ \E e \in Replies : /\ e.what # "bad_text"
                             /\ responses'[r] = Append(responses[r], e)
EndsCall(r) ==
    /\ status' = status /\ at'[r] = at[r] + 1
    /\ at[r] <= Len(Entries(r)) /\ Entries(r)[at[r]].form = "call"
    /\ \E how \in {"result", "tool_error", "bad_text"}, e \in Replies :
          /\ outcome'[r] = [outcome[r] EXCEPT ![at[r]] = how]
          /\ responses'[r] = Append(responses[r], e)
          /\ e.what = "bad_text" <=> how = "bad_text"
          /\ how = "bad_text" => ~debug
EndsLoggedCall(r) ==
    /\ at[r] <= Len(Entries(r)) /\ Entries(r)[at[r]].form = "call"
    /\ debug /\ at' = at /\ status'[r] = "500"
    /\ outcome'[r] = [outcome[r] EXCEPT ![at[r]] = "bad_text"]
\* An answer with, and one without, the responses.
Answers(r) ==
    /\ UNCHANGED <<at, outcome>> /\ at[r] > Len(Entries(r))
    /\ status'[r] \in {"200", "204", "404"} /\ ~NoText(r)
    /\ Entries(r) = <<>> \/ ~Undumpable(r)
Loses(r) ==
    /\ UNCHANGED <<at, outcome>> /\ at[r] > Len(Entries(r))
    /\ status'[r] = "500"
    /\ NoText(r) \/ Undumpable(r)

\* What a step of a worker does to the request it serves.
LEMMA StepForms ==
    ASSUME TypeInv, NEW w \in Workers, Worker(w), ~Accept(w),
           NEW r \in Requests, r = serving[w]
    PROVE  \/ UNCHANGED <<at, outcome, responses, status>>
           \/ PassesEntry(r) \/ EndsCall(r) \/ EndsLoggedCall(r) \/ Answers(r) \/ Loses(r)
<1> USE DEF TypeInv, PassesEntry, EndsCall, EndsLoggedCall, Answers, Loses, NoText
<1>0. /\ Entries(r) \in Seq(Entry) /\ Len(Entries(r)) \in Nat
      /\ body[r].kind \notin {"single", "batch"} => Entries(r) = <<>> /\ Len(Entries(r)) = 0
      /\ body[r].kind \in Kinds
      /\ Entries(r) = <<>> => at[r] > Len(Entries(r))
    BY Bodied, BodyAssumption DEF Body
<1>1. CASE StartCall(w)
    BY <1>1 DEF StartCall
<1>2. CASE Simple(w)
    BY <1>0, <1>2 DEF Simple, Answer
<1>3. CASE Finish(w)
    BY <1>0, <1>3 DEF Finish, AtTheEnd, Answer
<1>4. CASE FinishUndumpable(w)
    BY <1>0, <1>4 DEF FinishUndumpable, AtTheEnd, Answer
<1>5. CASE BadBody(w)
    BY <1>0, <1>5 DEF BadBody, Answer
<1>6. InPayload(r) => /\ at[r] \in 1..Len(Entries(r)) /\ Current(r) \in Entry
                      /\ Current(r) = Entries(r)[at[r]]
    BY <1>0 DEF InPayload, Current
<1>7. CASE Dispatch(w)
  <2>1. /\ InPayload(r) /\ Current(r).form # "call" /\ at' = [at EXCEPT ![r] = @ + 1]
        /\ UNCHANGED <<outcome, status>>
        /\ responses' = [responses EXCEPT ![r] =
              IF Current(r).form = "initialized" THEN @ ELSE Append(@, Response(Current(r), "none"))]
    BY <1>7 DEF Dispatch
  <2>2. \/ responses' = responses
        \/ \E e \in Replies : e.what # "bad_text" /\ responses'[r] = Append(responses[r], e)
    <3>1. CASE Current(r).form = "initialized"
      BY <2>1, <3>1
    <3>2. CASE Current(r).form # "initialized"
      <4>1. /\ Response(Current(r), "none") \in Replies
            /\ Response(Current(r), "none").what # "bad_text"
        BY <1>6, <2>1, <3>2, Replied
      <4> QED
        BY <2>1, <3>2, <4>1
    <3> QED
      BY <3>1, <3>2
  <2> QED
    BY <1>6, <2>1, <2>2
<1>8. ASSUME NEW how \in {"result", "tool_error", "bad_text"}, calling[r]
      PROVE  /\ at[r] \in 1..Len(Entries(r)) /\ Entries(r)[at[r]].form = "call"
             /\ Response(Current(r), how) \in Replies
             /\ Response(Current(r), how).what = "bad_text" <=> how = "bad_text"
    BY <1>6, <1>8, Replied
<1>9. ASSUME NEW how \in {"result", "tool_error", "bad_text"}, calling[r],
             status' = status, at' = [at EXCEPT ![r] = @ + 1],
             outcome' = [outcome EXCEPT ![r][at[r]] = how],
             responses' = [responses EXCEPT ![r] = Append(@, Response(Current(r), how))]
      PROVE  /\ status' = status /\ at'[r] = at[r] + 1
             /\ at[r] <= Len(Entries(r)) /\ Entries(r)[at[r]].form = "call"
             /\ \E e \in Replies :
                   /\ outcome'[r] = [outcome[r] EXCEPT ![at[r]] = how]
                   /\ responses'[r] = Append(responses[r], e)
                   /\ e.what = "bad_text" <=> how = "bad_text"
    BY <1>0, <1>8, <1>9
<1>10. CASE EndCall(w)
  <2>1. PICK how \in {"result", "tool_error"} :
          /\ outcome' = [outcome EXCEPT ![r][at[r]] = how]
          /\ responses' = [responses EXCEPT ![r] = Append(@, Response(Current(r), how))]
          /\ at' = [at EXCEPT ![r] = @ + 1] /\ calling[r] /\ status' = status
    BY <1>10 DEF EndCall
  <2> QED
    BY <1>9, <2>1
<1>11. CASE EndCallBadText(w) /\ ~debug
    BY <1>9, <1>11 DEF EndCallBadText
<1>12. CASE EndCallBadText(w) /\ debug
    BY <1>0, <1>8, <1>12 DEF EndCallBadText, Answer
<1> QED
    BY <1>1, <1>2, <1>3, <1>4, <1>5, <1>7, <1>10, <1>11, <1>12 DEF Worker, Serve

\* Every entry before the current one has been run.
LEMMA RanNext == TypeInv /\ RanInv /\ [Next]_vars => RanInv'
<1> SUFFICES ASSUME TypeInv, RanInv, [Next]_vars PROVE RanInv'
    OBVIOUS
<1>1. CASE UNCHANGED <<body, at, outcome>>
    BY <1>1 DEF RanInv, Entries
<1>2. (\E r \in Requests : Arrive(r)) \/ (\E w \in Workers : Accept(w))
        => UNCHANGED <<body, at, outcome>>
    BY DEF Arrive, Accept
<1> SUFFICES ASSUME NEW w \in Workers, Worker(w), ~Accept(w) PROVE RanInv'
    BY <1>1, <1>2 DEF Next, vars
<1> SUFFICES ASSUME NEW q \in Requests, NEW i \in 1..Len(Entries(q))
             PROVE  /\ outcome'[q][i] # "none" => Entries(q)[i].form = "call" /\ i <= at'[q]
                    /\ Entries(q)[i].form = "call" /\ i < at'[q] => outcome'[q][i] # "none"
    BY Untouched DEF RanInv, Entries
<1>3. /\ outcome[q][i] # "none" => Entries(q)[i].form = "call" /\ i <= at[q]
      /\ Entries(q)[i].form = "call" /\ i < at[q] => outcome[q][i] # "none"
      /\ at[q] \in Nat /\ i \in Nat /\ outcome[q] \in [1..Len(Entries(q)) -> Outcomes]
      /\ Len(Entries(q)) \in Nat
    BY Bodied DEF RanInv, TypeInv
<1>4. CASE q # serving[w] \/ UNCHANGED <<at, outcome>>
    BY <1>3, <1>4, Untouched
<1>5. CASE PassesEntry(q)
    BY <1>3, <1>5 DEF PassesEntry
<1>6. CASE EndsCall(q)
    BY <1>3, <1>6 DEF EndsCall
<1>7. CASE EndsLoggedCall(q)
    BY <1>3, <1>7 DEF EndsLoggedCall
<1>8. Answers(q) \/ Loses(q) => UNCHANGED <<at, outcome>>
    BY DEF Answers, Loses
<1> QED
    BY <1>4, <1>5, <1>6, <1>7, <1>8, StepForms

\* The calls of a body run in its order, none is skipped and none is repeated:
\* CallsInOrder of McpServer.
THEOREM CallsOrdered == Spec => []CallsInOrder
<1>1. Init => RanInv
  <2> SUFFICES ASSUME Init, NEW r \in Requests, NEW i \in 1..Len(Entries(r))
               PROVE  outcome[r][i] = "none" /\ ~(i < at[r])
    BY DEF RanInv
  <2> QED
    BY Bodied DEF Init, Entries
<1>2. TypeInv /\ RanInv => CallsInOrder
  <2> SUFFICES ASSUME TypeInv, RanInv, NEW r \in Requests, NEW i \in DOMAIN Entries(r)
               PROVE  /\ outcome[r][i] # "none" => Entries(r)[i].form = "call"
                      /\ Entries(r)[i].form = "call" /\ outcome[r][i] = "none"
                           => \A j \in DOMAIN Entries(r) : j > i => outcome[r][j] = "none"
    BY DEF CallsInOrder
  <2>1. DOMAIN Entries(r) = 1..Len(Entries(r)) /\ at[r] \in Nat /\ Len(Entries(r)) \in Nat
    BY Bodied DEF TypeInv
  <2> QED
    BY <2>1 DEF RanInv
<1> QED
    BY <1>1, <1>2, TypeInit, TypeNext, RanNext, PTL DEF Spec

-----------------------------------------------------------------------------
\* Only a response that cannot be dumped is lost, and only after its entries ran.
LEMMA LossNext == TypeInv /\ PlaceInv /\ RanInv /\ LossInv /\ [Next]_vars => LossInv'
<1> SUFFICES ASSUME TypeInv, PlaceInv, RanInv, LossInv, [Next]_vars PROVE LossInv'
    OBVIOUS
<1> DEFINE Loss(r) ==
      /\ ~Answered(r) => (HasBad(r) => ~debug) /\ (HasBad(r) <=> Undumpable(r))
      /\ ~Answered(r) =>
            \A i \in 1..Len(Entries(r)) : outcome[r][i] = "bad_text" => i < at[r]
      /\ Answered(r) =>
            /\ status[r] = "500" <=> NoText(r) \/ HasBad(r)
            /\ \/ at[r] > Len(Entries(r))
               \/ /\ debug /\ at[r] <= Len(Entries(r))
                  /\ outcome[r][at[r]] = "bad_text"
            /\ debug /\ HasBad(r) => at[r] <= Len(Entries(r))
      /\ debug => \A i \in 1..Len(Entries(r)) : outcome[r][i] = "bad_text" => i = at[r]
<1>1. ASSUME NEW r \in Requests, body' = body, rootText' = rootText, debug' = debug, at'[r] = at[r],
             outcome'[r] = outcome[r], responses'[r] = responses[r],
             Answered(r)' <=> Answered(r), Answered(r) => status'[r] = status[r]
      PROVE  Loss(r)'
    BY <1>1 DEF LossInv, Entries, HasBad, NoText, Undumpable
<1> SUFFICES ASSUME NEW q \in Requests PROVE Loss(q)'
    BY DEF LossInv
<1>2. CASE UNCHANGED vars
    BY <1>1, <1>2 DEF vars, Answered
<1>3. ASSUME NEW r \in Requests, Arrive(r) PROVE Loss(q)'
  <2>1. Answered(q)' <=> Answered(q)
    BY <1>3 DEF Arrive, Answered, TypeInv
  <2>2. Answered(q) => status'[q] = status[q]
    BY <1>3 DEF Arrive, Answered, TypeInv
  <2> QED
    BY <1>1, <1>3, <2>1, <2>2 DEF Arrive
<1> SUFFICES ASSUME NEW w \in Workers, Worker(w) PROVE Loss(q)'
    BY <1>2, <1>3 DEF Next
<1>4. CASE Accept(w)
    BY <1>1, <1>4 DEF Accept, Answered
<1>5. CASE ~Accept(w) /\ q # serving[w]
    BY <1>1, <1>5, Untouched DEF Answered
<1> SUFFICES ASSUME ~Accept(w), q = serving[w] PROVE Loss(q)'
    BY <1>4, <1>5
<1>6. /\ body' = body /\ rootText' = rootText /\ debug' = debug /\ Len(Entries(q)) \in Nat
      /\ Entries(q) = <<>> => Len(Entries(q)) = 0
      /\ at[q] \in Nat \ {0} /\ outcome[q] \in [1..Len(Entries(q)) -> Outcomes]
      /\ responses[q] \in Seq(Replies) /\ Entries(q)' = Entries(q)
    BY Untouched, Bodied DEF TypeInv, Entries
<1>7. ~Answered(q) /\ status[q] = "waiting"
    BY DEF PlaceInv, Answered
<1>8. Loss(q)
    BY DEF LossInv
<1>9. ~(HasBad(q) /\ debug)
    BY <1>7, <1>8
<1>10. CASE UNCHANGED <<at, outcome, responses, status>>
    BY <1>1, <1>6, <1>10 DEF Answered
<1>11. ASSUME NEW e \in Replies, responses'[q] = Append(responses[q], e)
       PROVE  Undumpable(q)' <=> Undumpable(q) \/ e.what = "bad_text"
  <2>1. /\ DOMAIN responses'[q] = 1..Len(responses[q]) + 1
        /\ DOMAIN responses[q] = 1..Len(responses[q]) /\ Len(responses[q]) \in Nat
        /\ responses'[q][Len(responses[q]) + 1] = e
        /\ \A i \in 1..Len(responses[q]) : responses'[q][i] = responses[q][i]
    BY <1>6, <1>11
  <2>2. \A i \in 1..Len(responses[q]) + 1 : i \in 1..Len(responses[q]) \/ i = Len(responses[q]) + 1
    BY <2>1
  <2>3. ASSUME Undumpable(q)' PROVE Undumpable(q) \/ e.what = "bad_text"
    BY <2>1, <2>2, <2>3 DEF Undumpable
  <2>4. ASSUME Undumpable(q) PROVE Undumpable(q)'
    <3>1. PICK i \in 1..Len(responses[q]) : responses[q][i].what = "bad_text"
      BY <2>1, <2>4 DEF Undumpable
    <3>2. i \in 1..Len(responses[q]) + 1 /\ responses'[q][i].what = "bad_text"
      BY <2>1, <3>1
    <3> QED
      BY <2>1, <3>2 DEF Undumpable
  <2>5. ASSUME e.what = "bad_text" PROVE Undumpable(q)'
    <3>1. Len(responses[q]) + 1 \in 1..Len(responses[q]) + 1
      BY <2>1
    <3> QED
      BY <2>1, <2>5, <3>1 DEF Undumpable
  <2> QED
    BY <2>3, <2>4, <2>5
<1>12. CASE PassesEntry(q)
  <2>1. HasBad(q)' <=> HasBad(q)
    BY <1>6, <1>12 DEF PassesEntry, HasBad
  <2>2. Undumpable(q)' <=> Undumpable(q)
    BY <1>11, <1>12 DEF PassesEntry, Undumpable
  <2>3. ~Answered(q)'
    BY <1>7, <1>12 DEF PassesEntry, Answered
  <2>4. debug => \A i \in 1..Len(Entries(q)) : outcome'[q][i] # "bad_text"
    BY <1>9, <1>12 DEF PassesEntry, HasBad
  <2>5. \A i \in 1..Len(Entries(q)) : outcome'[q][i] = "bad_text" => i < at'[q]
    BY <1>6, <1>7, <1>8, <1>12 DEF PassesEntry
  <2> QED
    BY <1>6, <1>7, <1>8, <2>1, <2>2, <2>3, <2>4, <2>5
<1>13. CASE EndsCall(q)
  <2>1. PICK how \in {"result", "tool_error", "bad_text"}, e \in Replies :
          /\ outcome'[q] = [outcome[q] EXCEPT ![at[q]] = how]
          /\ responses'[q] = Append(responses[q], e)
          /\ e.what = "bad_text" <=> how = "bad_text"
          /\ how = "bad_text" => ~debug
    BY <1>13 DEF EndsCall
  <2>2. /\ at[q] \in 1..Len(Entries(q))
        /\ outcome[q][at[q]] # "bad_text" \/ HasBad(q)
    BY <1>6, <1>13 DEF EndsCall, HasBad
  <2>3. HasBad(q)' => HasBad(q) \/ how = "bad_text"
    BY <1>6, <2>1, <2>2 DEF HasBad
  <2>4. HasBad(q) \/ how = "bad_text" => HasBad(q)'
    <3>1. HasBad(q) => \E i \in 1..Len(Entries(q)) : outcome[q][i] = "bad_text" /\ i < at[q]
      BY <1>7, <1>8 DEF HasBad
    <3> QED
      BY <1>6, <2>1, <2>2, <3>1 DEF HasBad
  <2>8. \A i \in 1..Len(Entries(q)) : outcome'[q][i] = "bad_text" => i < at'[q]
    BY <1>6, <1>7, <1>8, <1>13, <2>1 DEF EndsCall
  <2>5. ~Answered(q)'
    BY <1>7, <1>13 DEF EndsCall, Answered
  <2>6. Undumpable(q)' <=> Undumpable(q) \/ how = "bad_text"
    BY <1>11, <2>1
  <2>7. debug => \A i \in 1..Len(Entries(q)) : outcome'[q][i] # "bad_text"
    BY <1>6, <1>9, <2>1 DEF HasBad
  <2> QED
    BY <1>6, <1>7, <1>8, <2>1, <2>3, <2>4, <2>5, <2>6, <2>7, <2>8
<1>14. CASE EndsLoggedCall(q)
  <2>1. /\ at[q] \in 1..Len(Entries(q)) /\ at'[q] = at[q] /\ status'[q] = "500" /\ debug
        /\ outcome'[q][at[q]] = "bad_text"
        /\ \A i \in 1..Len(Entries(q)) : i # at[q] => outcome'[q][i] = outcome[q][i]
    BY <1>6, <1>14 DEF EndsLoggedCall
  <2>2. HasBad(q)' /\ Answered(q)'
    BY <1>6, <2>1 DEF HasBad, Answered
  <2>3. \A i \in 1..Len(Entries(q)) : outcome[q][i] # "bad_text"
    BY <1>9, <2>1 DEF HasBad
  <2> QED
    BY <1>6, <2>1, <2>2, <2>3
<1>15. CASE Answers(q)
  <2>1. HasBad(q)' <=> HasBad(q)
    BY <1>6, <1>15 DEF Answers, HasBad
  <2>2. ~HasBad(q)
    BY <1>6, <1>7, <1>8, <1>15 DEF Answers, HasBad
  <2> QED
    BY <1>6, <1>15, <2>1, <2>2 DEF Answers, HasBad, Answered, NoText
<1>16. CASE Loses(q)
  <2>1. HasBad(q)' <=> HasBad(q)
    BY <1>6, <1>16 DEF Loses, HasBad
  <2>2. NoText(q) \/ HasBad(q)
    BY <1>7, <1>8, <1>16 DEF Loses
  <2>3. Answered(q)' /\ status'[q] = "500"
    BY <1>16 DEF Loses, Answered
  <2>4. at'[q] = at[q] /\ at[q] > Len(Entries(q)) /\ outcome'[q] = outcome[q]
    BY <1>16 DEF Loses
  <2> QED
    BY <1>6, <1>8, <1>9, <2>1, <2>2, <2>3, <2>4 DEF NoText
<1> QED
    BY <1>10, <1>12, <1>13, <1>14, <1>15, <1>16, StepForms

\* Calls that ran are hidden by nothing but a 500, and only text that is no UTF-8
\* causes one: LostOnlyByBadText of McpServer.
THEOREM LossHonest == Spec => []LostOnlyByBadText
<1>1. Init => RanInv /\ LossInv
  <2> SUFFICES ASSUME Init, NEW r \in Requests
               PROVE  /\ \A i \in 1..Len(Entries(r)) : outcome[r][i] = "none" /\ ~(i < at[r])
                      /\ ~Answered(r) /\ ~Undumpable(r)
    BY DEF RanInv, LossInv, HasBad
  <2> QED
    BY Bodied DEF Init, Entries, Answered, Undumpable
<1>2. TypeInv /\ RanInv /\ LossInv => LostOnlyByBadText
  <2> SUFFICES ASSUME TypeInv, RanInv, LossInv, NEW r \in Requests, Answered(r)
               PROVE  LET calls == {i \in DOMAIN Entries(r) : Entries(r)[i].form = "call"}
                          bad == {i \in calls : outcome[r][i] = "bad_text"}
                          ran == {i \in calls : outcome[r][i] # "none"}
                      IN  /\ status[r] = "500" <=> NoText(r) \/ bad # {}
                          /\ bad = {} \/ ~debug => ran = calls
                          /\ bad # {} /\ debug => \A i \in bad : ran = {j \in calls : j <= i}
    BY DEF LostOnlyByBadText, NoText
  <2> DEFINE calls == {i \in DOMAIN Entries(r) : Entries(r)[i].form = "call"}
             bad == {i \in calls : outcome[r][i] = "bad_text"}
             ran == {i \in calls : outcome[r][i] # "none"}
  <2>1. DOMAIN Entries(r) = 1..Len(Entries(r)) /\ at[r] \in Nat /\ Len(Entries(r)) \in Nat
    BY Bodied DEF TypeInv
  <2>2. bad # {} <=> HasBad(r)
    BY <2>1 DEF RanInv, HasBad
  <2>3. status[r] = "500" <=> NoText(r) \/ bad # {}
    BY <2>2 DEF LossInv
  <2>4. ASSUME bad = {} \/ ~debug PROVE ran = calls
    <3>1. at[r] > Len(Entries(r))
      <4>1. at[r] <= Len(Entries(r)) => at[r] \in 1..Len(Entries(r))
        BY <2>1 DEF TypeInv
      <4>2. at[r] > Len(Entries(r)) \/ (debug /\ at[r] \in 1..Len(Entries(r))
                                               /\ outcome[r][at[r]] = "bad_text")
        BY <4>1 DEF LossInv
      <4> QED
        BY <2>2, <2>4, <4>2 DEF HasBad
    <3> QED
      BY <2>1, <3>1 DEF RanInv
  <2>5. ASSUME bad # {}, debug, NEW i \in bad PROVE ran = {j \in calls : j <= i}
    <3>1. i = at[r] /\ i \in 1..Len(Entries(r)) /\ outcome[r][i] = "bad_text"
      BY <2>1, <2>5 DEF LossInv
    <3> QED
      BY <2>1, <3>1 DEF RanInv
  <2> QED
    BY <2>3, <2>4, <2>5
<1> QED
    BY <1>1, <1>2, TypeInit, TypeNext, PlaceInit, PlaceNext, RanNext, LossNext, PTL DEF Spec

-----------------------------------------------------------------------------
\* The responses belong to the entries that are done, until a 500 loses them.
Matched(r) ==
    \E of \in [1..Len(responses[r]) -> 1..Len(Entries(r))] : Match(of, r, at[r] - 1)
MatchInv ==
    \A r \in Requests : IsPayload(r) =>
        /\ status[r] # "500" => Matched(r)
        /\ status[r] \in {"200", "204"} =>
              /\ at[r] > Len(Entries(r))
              /\ status[r] = "204" <=> responses[r] = <<>>

\* What a thread may do to a payload, with the response it adds.
GoesOn(r) ==
    /\ status' = status /\ at'[r] = at[r] + 1 /\ at[r] <= Len(Entries(r))
    /\ \E how \in Outcomes :
          /\ \A i \in 1..Len(Entries(r)) : outcome'[r][i] =
                IF i = at[r] /\ Entries(r)[i].form = "call" THEN how ELSE outcome[r][i]
          /\ responses'[r] = IF Entries(r)[at[r]].form = "initialized" THEN responses[r]
                             ELSE Append(responses[r], Response(Entries(r)[at[r]], how))
GoodAnswer(r) ==
    /\ UNCHANGED <<at, outcome, responses>> /\ at[r] > Len(Entries(r))
    /\ status'[r] = IF responses[r] = <<>> THEN "204" ELSE "200"

\* A step for a payload starts a call, goes on to the next entry, gives the answer,
\* or gives a 500.
LEMMA PayloadForms ==
    ASSUME TypeInv, NEW w \in Workers, Worker(w), ~Accept(w),
           NEW r \in Requests, r = serving[w], IsPayload(r)
    PROVE  \/ UNCHANGED <<at, outcome, responses, status>>
           \/ GoesOn(r) \/ GoodAnswer(r) \/ status'[r] = "500"
<1> USE DEF TypeInv
<1>0. /\ Entries(r) \in Seq(Entry) /\ Len(Entries(r)) \in Nat
      /\ body[r].kind \in {"single", "batch"} /\ Entries(r) # <<>>
      /\ outcome[r] \in [1..Len(Entries(r)) -> Outcomes]
    BY Bodied DEF IsPayload
<1>1. CASE StartCall(w)
    BY <1>1 DEF StartCall
<1>2. CASE Simple(w) \/ BadBody(w)
    BY <1>0, <1>2 DEF Simple, BadBody
<1>3. CASE Finish(w)
    BY <1>0, <1>3 DEF Finish, AtTheEnd, Answer, GoodAnswer
<1>4. CASE FinishUndumpable(w)
    BY <1>0, <1>4 DEF FinishUndumpable, Answer
<1>5. CASE Dispatch(w)
  <2>1. /\ at[r] <= Len(Entries(r)) /\ Entries(r)[at[r]].form # "call"
        /\ at' = [at EXCEPT ![r] = @ + 1] /\ UNCHANGED <<outcome, status>>
        /\ responses' = [responses EXCEPT ![r] =
              IF Entries(r)[at[r]].form = "initialized" THEN @
              ELSE Append(@, Response(Entries(r)[at[r]], "none"))]
    BY <1>5 DEF Dispatch, Current, InPayload
  <2>2. \A i \in 1..Len(Entries(r)) : ~(i = at[r] /\ Entries(r)[i].form = "call")
    BY <2>1
  <2> QED
    BY <1>0, <2>1, <2>2 DEF GoesOn, Outcomes
<1>6. ASSUME NEW how \in {"result", "tool_error", "bad_text"}, calling[r], status' = status,
             at' = [at EXCEPT ![r] = @ + 1],
             outcome' = [outcome EXCEPT ![r][at[r]] = how],
             responses' = [responses EXCEPT ![r] = Append(@, Response(Current(r), how))]
      PROVE  GoesOn(r)
  <2>1. at[r] \in 1..Len(Entries(r)) /\ Entries(r)[at[r]].form = "call"
    BY <1>0, <1>6 DEF Current, InPayload
  <2>2. responses'[r] = Append(responses[r], Response(Entries(r)[at[r]], how))
    BY <1>6 DEF Current
  <2>3. \A i \in 1..Len(Entries(r)) :
          outcome'[r][i] = IF i = at[r] THEN how ELSE outcome[r][i]
    BY <1>0, <1>6, <2>1
  <2>4. how \in Outcomes /\ at'[r] = at[r] + 1 /\ status' = status
    BY <1>6 DEF Outcomes
  <2>5. \A i \in 1..Len(Entries(r)) : outcome'[r][i] =
            IF i = at[r] /\ Entries(r)[i].form = "call" THEN how ELSE outcome[r][i]
    BY <2>1, <2>3
  <2>6. responses'[r] = IF Entries(r)[at[r]].form = "initialized" THEN responses[r]
                        ELSE Append(responses[r], Response(Entries(r)[at[r]], how))
    BY <2>1, <2>2
  <2>7. at[r] <= Len(Entries(r))
    BY <1>0, <2>1
  <2> QED
    BY <2>4, <2>5, <2>6, <2>7 DEF GoesOn
<1>7. CASE EndCall(w)
    BY <1>6, <1>7 DEF EndCall
<1>8. CASE EndCallBadText(w) /\ ~debug
    BY <1>6, <1>8 DEF EndCallBadText
<1>9. CASE EndCallBadText(w) /\ debug
    BY <1>9 DEF EndCallBadText, Answer
<1> QED
    BY <1>1, <1>2, <1>3, <1>4, <1>5, <1>7, <1>8, <1>9 DEF Worker, Serve

\* Only a call's response depends on how its tool ended.
LEMMA ResponseOf ==
    ASSUME NEW e, e.form # "call", NEW g, NEW h
    PROVE  Response(e, g) = Response(e, h)
BY DEF Response

\* Going on to the next entry keeps the match: the entry's response, if it has one,
\* goes to the end of both.
LEMMA MatchGoesOn ==
    ASSUME TypeInv, NEW r \in Requests, body' = body, GoesOn(r), Matched(r)
    PROVE  Matched(r)'
<1>a. PICK L, n, a, E : L = Len(Entries(r)) /\ n = Len(responses[r]) /\ a = at[r] /\ E = Entries(r)
    OBVIOUS
<1>0. /\ L \in Nat /\ n \in Nat /\ a \in Nat \ {0} /\ a <= L /\ at'[r] = a + 1
      /\ at'[r] - 1 = a /\ Entries(r)' = E /\ responses[r] \in Seq(Replies)
      /\ a \in 1..L /\ Len(E) = L /\ Len(Entries(r)') = L
    BY <1>a, Bodied DEF TypeInv, GoesOn, Entries
<1>1. PICK of \in [1..n -> 1..L] : Match(of, r, a - 1)
    BY <1>a DEF Matched
<1>2. PICK how \in Outcomes :
          /\ \A i \in 1..L : outcome'[r][i] =
                IF i = a /\ E[i].form = "call" THEN how ELSE outcome[r][i]
          /\ responses'[r] = IF E[a].form = "initialized" THEN responses[r]
                             ELSE Append(responses[r], Response(E[a], how))
    BY <1>a DEF GoesOn
<1>3. /\ \A j, k \in 1..n : j < k => of[j] < of[k]
      /\ {of[k] : k \in 1..n} = {i \in 1..a - 1 : E[i].form # "initialized"}
      /\ \A k \in 1..n : responses[r][k] = Response(E[of[k]], outcome[r][of[k]])
    BY <1>1, <1>a DEF Match
<1>4. \A k \in 1..n : of[k] \in 1..a - 1 /\ of[k] \in 1..L /\ of[k] # a
    BY <1>0, <1>1, <1>3
<1>5. \A k \in 1..n : responses[r][k] = Response(E[of[k]], outcome'[r][of[k]])
    BY <1>2, <1>3, <1>4
<1>6. CASE E[a].form = "initialized"
  <2>1. responses'[r] = responses[r]
    BY <1>2, <1>6
  <2>2. {i \in 1..a : E[i].form # "initialized"} = {i \in 1..a - 1 : E[i].form # "initialized"}
    BY <1>0, <1>6
  <2>3. Match(of, r, a)'
    BY <1>0, <1>1, <1>3, <1>5, <2>1, <2>2 DEF Match
  <2> QED
    BY <1>0, <1>1, <1>a, <2>1, <2>3 DEF Matched
<1>7. CASE E[a].form # "initialized"
  <2> DEFINE on == [k \in 1..n + 1 |-> IF k = n + 1 THEN a ELSE of[k]]
  <2>1. responses'[r] = Append(responses[r], Response(E[a], how))
    BY <1>2, <1>7
  <2>2. /\ Len(responses'[r]) = n + 1 /\ responses'[r][n + 1] = Response(E[a], how)
        /\ \A k \in 1..n : responses'[r][k] = responses[r][k]
    <3>1. E[a] \in Entry
      <4>1. E \in Seq(Entry)
        BY <1>a, Bodied DEF TypeInv
      <4> QED
        BY <1>0, <4>1
    <3>2. Response(E[a], how) \in Replies
      BY <1>7, <3>1, Replied DEF Outcomes
    <3> QED
      BY <1>0, <1>a, <2>1, <3>2
  <2>3. \A k \in 1..n + 1 : k \in 1..n \/ k = n + 1
    BY <1>0
  <2>4. on[n + 1] = a /\ (\A k \in 1..n : on[k] = of[k]) /\ DOMAIN on = 1..n + 1
    BY <1>0
  <2>5. on \in [1..n + 1 -> 1..L]
    BY <1>0, <1>4, <2>3
  <2> HIDE DEF on
  <2>6. \A j, k \in 1..n + 1 : j < k => on[j] < on[k]
    BY <1>0, <1>3, <1>4, <2>3, <2>4
  <2>7. {on[k] : k \in 1..n + 1} = {i \in 1..a : E[i].form # "initialized"}
    <3>1. ASSUME NEW k \in 1..n + 1 PROVE on[k] \in 1..a /\ E[on[k]].form # "initialized"
      <4>1. CASE k = n + 1
        BY <1>0, <1>7, <2>4, <4>1
      <4>2. CASE k \in 1..n
        <5>1. of[k] \in {i \in 1..a - 1 : E[i].form # "initialized"}
          BY <1>3, <4>2
        <5> QED
          BY <1>0, <2>4, <4>2, <5>1
      <4> QED
        BY <2>3, <4>1, <4>2
    <3>2. ASSUME NEW i \in 1..a, E[i].form # "initialized" PROVE \E k \in 1..n + 1 : on[k] = i
      <4>1. CASE i = a
        <5>1. n + 1 \in 1..n + 1
          BY <1>0
        <5> QED
          BY <2>4, <4>1, <5>1
      <4>2. CASE i # a
        <5>1. i \in {of[k] : k \in 1..n}
          <6>1. i \in 1..a - 1
            BY <1>0, <4>2
          <6> QED
            BY <1>3, <3>2, <6>1
        <5> QED
          BY <1>0, <2>4, <5>1
      <4> QED
        BY <4>1, <4>2
    <3> QED
      BY <3>1, <3>2
  <2>8. Response(E[a], how) = Response(E[a], outcome'[r][a])
    <3>1. CASE E[a].form = "call"
      BY <1>0, <1>2, <3>1
    <3>2. CASE E[a].form # "call"
      BY <3>2, ResponseOf
    <3> QED
      BY <3>1, <3>2
  <2>9. \A k \in 1..n + 1 : responses'[r][k] = Response(E[on[k]], outcome'[r][on[k]])
    BY <1>5, <2>2, <2>3, <2>4, <2>8
  <2>10. Match(on, r, a)'
    BY <1>0, <2>4, <2>6, <2>7, <2>9 DEF Match
  <2> QED
    BY <1>0, <2>2, <2>5, <2>10 DEF Matched
<1> QED
    BY <1>6, <1>7

\* The answers so far stay those of the entries passed, in their order.
LEMMA MatchNext == TypeInv /\ PlaceInv /\ MatchInv /\ [Next]_vars => MatchInv'
<1> SUFFICES ASSUME TypeInv, PlaceInv, MatchInv, [Next]_vars PROVE MatchInv'
    OBVIOUS
<1>0. body' = body
    BY Untouched DEF Next, vars, Arrive, Accept
<1> SUFFICES ASSUME NEW q \in Requests, IsPayload(q)
             PROVE  /\ status'[q] # "500" => Matched(q)'
                    /\ status'[q] \in {"200", "204"} =>
                          /\ at'[q] > Len(Entries(q))
                          /\ status'[q] = "204" <=> responses'[q] = <<>>
    BY <1>0 DEF MatchInv, IsPayload, Entries
<1>1. /\ status[q] # "500" => Matched(q)
      /\ status[q] \in {"200", "204"} =>
            /\ at[q] > Len(Entries(q))
            /\ status[q] = "204" <=> responses[q] = <<>>
    BY DEF MatchInv
<1>2. ASSUME at'[q] = at[q], outcome'[q] = outcome[q], responses'[q] = responses[q]
      PROVE  Matched(q) => Matched(q)'
    BY <1>0, <1>2 DEF Matched, Match, Entries
<1>3. CASE /\ at'[q] = at[q] /\ outcome'[q] = outcome[q]
           /\ responses'[q] = responses[q] /\ status'[q] = status[q]
    BY <1>1, <1>2, <1>3
<1>4. ASSUME NEW r \in Requests, Arrive(r)
      PROVE  /\ UNCHANGED <<at, outcome, responses>>
             /\ \/ status'[q] = status[q]
                \/ status[q] = "none" /\ status'[q] = "waiting"
    BY <1>4 DEF Arrive, TypeInv
<1>5. CASE \E r \in Requests : Arrive(r)
    BY <1>1, <1>2, <1>4, <1>5
<1>6. CASE UNCHANGED vars \/ \E w \in Workers : Accept(w)
    BY <1>3, <1>6 DEF vars, Accept
<1> SUFFICES ASSUME NEW w \in Workers, Worker(w), ~Accept(w)
             PROVE  /\ status'[q] # "500" => Matched(q)'
                    /\ status'[q] \in {"200", "204"} =>
                          /\ at'[q] > Len(Entries(q))
                          /\ status'[q] = "204" <=> responses'[q] = <<>>
    BY <1>5, <1>6 DEF Next
<1>7. CASE q # serving[w]
    BY <1>3, <1>7, Untouched
<1>8. CASE q = serving[w]
  <2>1. status[q] = "waiting"
    BY <1>8 DEF PlaceInv
  <2>2. CASE GoesOn(q)
    BY <1>0, <1>1, <2>1, <2>2, MatchGoesOn DEF GoesOn
  <2>3. CASE GoodAnswer(q)
    BY <1>1, <1>2, <2>1, <2>3 DEF GoodAnswer
  <2> QED
    BY <1>3, <1>8, <2>2, <2>3, PayloadForms
<1> QED
    BY <1>7, <1>8

\* A body is answered by one response for each entry but the notifications, in the
\* order of the entries and with the outcome of each call: AnswersMatchBody of
\* McpServer.
THEOREM AnswersMatch == Spec => []AnswersMatchBody
<1>1. Init => MatchInv
  <2> SUFFICES ASSUME Init, NEW r \in Requests
               PROVE  status[r] = "none" /\ Matched(r)
    BY DEF MatchInv
  <2>1. /\ status[r] = "none" /\ responses[r] = <<>> /\ at[r] = 1
        /\ Len(Entries(r)) \in Nat
    BY Bodied DEF Init
  <2> DEFINE none == [k \in 1..0 |-> 1]
  <2>2. none \in [1..Len(responses[r]) -> 1..Len(Entries(r))]
    BY <2>1
  <2>3. Match(none, r, at[r] - 1)
    BY <2>1 DEF Match
  <2> QED
    BY <2>1, <2>2, <2>3 DEF Matched
<1>2. TypeInv /\ MatchInv => AnswersMatchBody
  <2> SUFFICES ASSUME TypeInv, MatchInv, NEW r \in Requests, IsPayload(r),
                      status[r] \in {"200", "204"}
               PROVE  /\ \E of \in [DOMAIN responses[r] -> DOMAIN Entries(r)] :
                             Match(of, r, Len(Entries(r)))
                      /\ status[r] = "204" <=>
                             \A i \in DOMAIN Entries(r) : Entries(r)[i].form = "initialized"
    BY DEF AnswersMatchBody
  <2>1. /\ Entries(r) \in Seq(Entry) /\ Len(Entries(r)) \in Nat
        /\ responses[r] \in Seq(Replies) /\ Len(responses[r]) \in Nat
        /\ DOMAIN responses[r] = 1..Len(responses[r])
        /\ DOMAIN Entries(r) = 1..Len(Entries(r))
    BY Bodied DEF TypeInv
  <2>2. at[r] - 1 = Len(Entries(r))
    BY <2>1 DEF MatchInv, TypeInv
  <2>3. PICK of \in [1..Len(responses[r]) -> 1..Len(Entries(r))] :
            Match(of, r, Len(Entries(r)))
    BY <2>2 DEF MatchInv, Matched
  <2>4. status[r] = "204" <=> Len(responses[r]) = 0
    BY <2>1 DEF MatchInv
  <2>5. {of[k] : k \in 1..Len(responses[r])} =
            {i \in 1..Len(Entries(r)) : Entries(r)[i].form # "initialized"}
    BY <2>3 DEF Match
  <2>6. Len(responses[r]) = 0 <=> {of[k] : k \in 1..Len(responses[r])} = {}
    <3>1. CASE Len(responses[r]) = 0
      BY <3>1
    <3>2. CASE Len(responses[r]) # 0
      <4>1. 1 \in 1..Len(responses[r])
        BY <2>1, <3>2
      <4>2. of[1] \in {of[k] : k \in 1..Len(responses[r])}
        BY <4>1
      <4> QED
        BY <3>2, <4>2
    <3> QED
      BY <3>1, <3>2
  <2>7. status[r] = "204" <=>
            \A i \in 1..Len(Entries(r)) : Entries(r)[i].form = "initialized"
    BY <2>4, <2>5, <2>6
  <2> QED
    BY <2>1, <2>3, <2>7
<1> QED
    BY <1>1, <1>2, TypeInit, TypeNext, PlaceInit, PlaceNext, MatchNext, PTL DEF Spec

-----------------------------------------------------------------------------
\* The process starts as Startup says and then serves as McpServer says: what is
\* proved of either holds of the process, however requests and the end of main fall.
THEOREM ProcessComposed == ProcessSpec => StartSpec /\ Spec
<1>1. ProcessInit => StartInit /\ Init
    BY DEF ProcessInit
<1>2. [ProcessNext]_processVars => [StartNext]_startVars
    BY DEF ProcessNext, Main, Run, processVars
<1>3. [ProcessNext]_processVars => [Next]_vars
    BY DEF ProcessNext, Main, Run, Next, processVars
<1> QED
    BY <1>1, <1>2, <1>3, PTL DEF ProcessSpec, StartSpec, Spec
=============================================================================
