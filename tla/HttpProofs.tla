------------------------------ MODULE HttpProofs ------------------------------
(***************************************************************************)
(* Proofs about HttpStream.  The first part needs nothing of the server or *)
(* the application: types and bounds, and CredentialsOnlyWhenAsked, for    *)
(* any URLs, responses and sizes.                                          *)
(*                                                                         *)
(* The inductive invariant TInv adds to the types that the stream and its  *)
(* connection are at the same URL, and that a stream with a scheme for     *)
(* Authorization is at an https server or at one that asked (Permitted).   *)
(***************************************************************************)
EXTENDS HttpStream, SequenceTheorems, TLAPS

\* An informational response; and the types of the fields.
Inform == [status: Informational]
Framings == {"length", "chunked", "identity", "gzip"}
Data == Seq(1 .. MaxBody)
Counts == 0 .. HTTP_MOVE_LIMIT + 1
Statuses == 0 .. 599

\* The types of the three records.
StreamRec ==
    [chunked_sending: BOOLEAN, keep_connection: BOOLEAN, no_expect: BOOLEAN,
     should_retry: BOOLEAN, close_handling_required: BOOLEAN,
     auth_type: {"NONE", "KNOWN"}, retried: BOOLEAN,
     redirect_count: Counts, status: Statuses, url: URLs,
     user_headers: BOOLEAN, body_receiver: Framings \cup {Null}, out_buffer: Data]

ConnRec ==
    [up: BOOLEAN, peer: BOOLEAN, url: URLs,
     request: {"none", "headers", "complete", "broken"}, header: BOOLEAN,
     authorised: BOOLEAN, body: Data, informed: BOOLEAN, answered: BOOLEAN,
     wire: Seq(Responses \cup Inform), unread: BOOLEAN]

JobRec ==
    [call: {"none", "simple", "first", "chunked"}, finished: BOOLEAN, data: Data,
     buffered: BOOLEAN, rest: Data]

\* What the client may be about to do.
Steps == {"app", "prepare", "send", "chunk", "last", "receive", "drain", "return"}

\* The part of the invariant that holds of every server and application.
TInv ==
    /\ stream \in StreamRec /\ Len(stream.out_buffer) <= BodySend
    /\ conn \in ConnRec
    /\ job \in JobRec /\ (~job.buffered => job.rest = <<>>)
    /\ pc \in Steps /\ err \in Errors
    /\ phase \in {"sending", "receiving", "failed"}
    /\ written \in 0 .. MaxBody /\ header \in BOOLEAN /\ asked \in BOOLEAN
    /\ conn.url = stream.url
    /\ stream.auth_type # "NONE" => Https(stream.url) \/ asked
    /\ conn.authorised => Https(conn.url) \/ asked

\* Zenon proves most steps; those with arithmetic or sequences name SMT.
USE ZenonT(120)

-----------------------------------------------------------------------------
(* The operators.                                                          *)

\* What is sent to and received from one server.
SameServer(c2, c) ==
    c2 \in ConnRec /\ c2.url = c.url /\ (c2.authorised => c.authorised)

\* Everything but the flags that ask for another attempt.
SameButRetry(u, s) ==
    /\ u.chunked_sending = s.chunked_sending /\ u.keep_connection = s.keep_connection
    /\ u.close_handling_required = s.close_handling_required
    /\ u.auth_type = s.auth_type /\ u.redirect_count = s.redirect_count
    /\ u.status = s.status /\ u.url = s.url /\ u.user_headers = s.user_headers
    /\ u.body_receiver = s.body_receiver /\ u.out_buffer = s.out_buffer

\* A stretch of units, and when it is content of a request.
LEMMA UnitsFacts ==
    ASSUME NEW a \in Nat, NEW n \in Nat
    PROVE  /\ Units(a, n) \in Seq(Nat) \cup Seq(Int) /\ Len(Units(a, n)) = n
           /\ \A i \in 1 .. n : Units(a, n)[i] = a + i - 1
           /\ DOMAIN Units(a, n) = 1 .. n
           /\ (a >= 1 /\ a + n <= MaxBody + 1) => Units(a, n) \in Data
BY SMT, HttpAssumption DEF Units, Data

\* A new connection is clean.
LEMMA NewConnFacts ==
    ASSUME NEW url \in URLs
    PROVE  /\ NewConn(url) \in ConnRec /\ NewConn(url).url = url
           /\ ~NewConn(url).authorised /\ NewConn(url).up
           /\ NewConn(url).wire = <<>> /\ Reusable(NewConn(url))
BY SMT DEF NewConn, ConnRec, Data, Reusable

\* Closing the socket and ending an exchange stay with the server.
LEMMA ClosedFacts ==
    ASSUME NEW c \in ConnRec
    PROVE  SameServer(Closed(c), c)
BY DEF Closed, SameServer, ConnRec

\* Also ending an exchange does.
LEMMA ExchangedFacts ==
    ASSUME NEW c \in ConnRec, NEW unread \in BOOLEAN
    PROVE  SameServer(Exchanged(c, unread), c)
<1>1. c.url \in URLs /\ c.peer \in BOOLEAN
      BY DEF ConnRec
<1> DEFINE n == NewConn(c.url)
<1>2. n \in ConnRec /\ n.url = c.url /\ ~n.authorised
      BY <1>1, NewConnFacts
<1> HIDE DEF n
<1>3. SameServer([n EXCEPT !.peer = c.peer, !.unread = unread], c)
      BY <1>1, <1>2 DEF SameServer, ConnRec
<1>4. SameServer([c EXCEPT !.unread = unread], c)
      BY DEF SameServer, ConnRec
<1> QED BY <1>3, <1>4 DEF Exchanged, n

\* Authorization is sent only by a stream that has a scheme for it.
LEMMA TakeHeadersFacts ==
    ASSUME NEW c \in ConnRec, NEW s \in StreamRec, NEW body \in Data, NEW more \in BOOLEAN
    PROVE  /\ TakeHeaders(c, s, body, more) \in ConnRec
           /\ TakeHeaders(c, s, body, more).url = c.url
           /\ TakeHeaders(c, s, body, more).authorised =>
                c.authorised \/ s.auth_type # "NONE"
<1> DEFINE request == IF more THEN "headers" ELSE "complete"
           d == [c EXCEPT !.request = request, !.header = s.user_headers,
                          !.authorised = s.auth_type # "NONE",
                          !.body = body, !.informed = FALSE, !.answered = FALSE]
<1>1. s.user_headers \in BOOLEAN /\ request \in {"headers", "complete"}
      BY DEF StreamRec
<1> HIDE DEF request
<1>2. d \in ConnRec /\ d.url = c.url /\ (d.authorised <=> s.auth_type # "NONE")
      BY <1>1 DEF ConnRec
<1>3. TakeHeaders(c, s, body, more) = IF c.peer /\ c.request # "broken" THEN d ELSE c
      BY DEF TakeHeaders, request
<1> HIDE DEF d
<1> QED BY <1>2, <1>3

\* A chunk changes nothing about authorization.
LEMMA TakeChunkFacts ==
    ASSUME NEW c \in ConnRec, NEW data \in Data
    PROVE  SameServer(TakeChunk(c, data), c)
<1>1. c.body \o data \in Data
      BY SMT DEF ConnRec, Data
<1> QED BY <1>1 DEF TakeChunk, SameServer, ConnRec

\* update_flags_after_receiving_headers only asks for another attempt,
\* and for a success only after a redirect.
LEMMA UpdateFlagsFacts ==
    ASSUME NEW s \in StreamRec, NEW e \in Errors
    PROVE  /\ UpdateFlags(s, e) \in StreamRec /\ SameButRetry(UpdateFlags(s, e), s)
           /\ e = "ok" /\ s.status \div 100 # 3 =>
                UpdateFlags(s, e).should_retry = s.should_retry
<1> DEFINE a == [s EXCEPT !.retried = TRUE, !.should_retry = TRUE]
           b == [s EXCEPT !.no_expect = TRUE, !.should_retry = TRUE]
           d == [s EXCEPT !.should_retry = TRUE]
<1>1. a \in StreamRec /\ SameButRetry(a, s)
      BY DEF StreamRec, SameButRetry
<1>2. b \in StreamRec /\ SameButRetry(b, s)
      BY DEF StreamRec, SameButRetry
<1>3. d \in StreamRec /\ SameButRetry(d, s)
      BY DEF StreamRec, SameButRetry
<1>4. SameButRetry(s, s)
      BY DEF SameButRetry
<1>5. UpdateFlags(s, e) \in {a, b, d, s}
      BY DEF UpdateFlags
<1>6. e = "ok" /\ s.status \div 100 # 3 => UpdateFlags(s, e) = s
      BY DEF UpdateFlags
<1> HIDE DEF a, b, d
<1> QED BY <1>1, <1>2, <1>3, <1>4, <1>5, <1>6

\* The same of the end of _avs_http_receive_headers.
LEMMA ReceivedHeadersFacts ==
    ASSUME NEW s \in StreamRec, NEW e \in Errors, ReceivedHeaders(s, e)
    PROVE  /\ stream' \in StreamRec /\ SameButRetry(stream', s)
           /\ err' \in Errors /\ pc' \in Steps
           /\ e = "ok" /\ s.status \div 100 # 3 => stream'.should_retry = s.should_retry
<1> DEFINE u == UpdateFlags(s, e)
<1>1. /\ u \in StreamRec /\ SameButRetry(u, s)
      /\ e = "ok" /\ s.status \div 100 # 3 => u.should_retry = s.should_retry
      BY UpdateFlagsFacts
<1>2. stream' = u
      BY DEF ReceivedHeaders
<1>3. err' \in Errors
      BY DEF ReceivedHeaders, Errors
<1>4. pc' \in Steps
      BY DEF ReceivedHeaders, ChunkStep, RetryOrReturn, Steps
<1> HIDE DEF u
<1> QED BY <1>1, <1>2, <1>3, <1>4

\* The conjuncts of TInv, for citing.
LEMMA TBasics ==
    ASSUME TInv
    PROVE  /\ stream \in StreamRec /\ conn \in ConnRec /\ job \in JobRec
           /\ Len(stream.out_buffer) <= BodySend /\ (~job.buffered => job.rest = <<>>)
           /\ pc \in Steps /\ err \in Errors
           /\ phase \in {"sending", "receiving", "failed"}
           /\ written \in 0 .. MaxBody /\ header \in BOOLEAN /\ asked \in BOOLEAN
           /\ conn.url = stream.url
           /\ stream.auth_type # "NONE" => Https(stream.url) \/ asked
           /\ conn.authorised => Https(conn.url) \/ asked
BY DEF TInv

\* The server's steps.
LEMMA ServerTypes ==
    ASSUME TInv, Server
    PROVE  TInv'
<1>1. SameServer(conn', conn)
  <2>1. ASSUME NEW status \in Informational, ServerInforms(status)
        PROVE  SameServer(conn', conn)
    <3>1. Append(conn.wire, [status |-> status]) \in Seq(Responses \cup Inform)
          BY SMT, TBasics DEF ConnRec, Inform
    <3> QED BY <2>1, <3>1, TBasics DEF ServerInforms, SameServer, ConnRec
  <2>2. ASSUME NEW r \in Responses, ServerAnswers(r)
        PROVE  SameServer(conn', conn)
    <3>1. Append(conn.wire, r) \in Seq(Responses \cup Inform)
          BY SMT, TBasics DEF ConnRec
    <3> QED BY <2>2, <3>1, TBasics DEF ServerAnswers, SameServer, ConnRec
  <2>3. CASE ServerCloses
        BY <2>3, TBasics DEF ServerCloses, SameServer, ConnRec
  <2> QED BY <2>1, <2>2, <2>3 DEF Server
<1>2. UNCHANGED <<stream, pc, job, err, phase, written, header, asked>>
      BY DEF Server, ServerInforms, ServerAnswers, ServerCloses, app
<1> QED BY <1>1, <1>2 DEF TInv, SameServer

\* Everything that http_send_block leaves alone.
SameAtStart(u, s) ==
    /\ u.keep_connection = s.keep_connection /\ u.should_retry = s.should_retry
    /\ u.auth_type = s.auth_type /\ u.url = s.url /\ u.user_headers = s.user_headers
    /\ u.body_receiver = s.body_receiver /\ u.out_buffer = s.out_buffer

\* What http_send_block starts with.
LEMMA SendBlockFacts ==
    ASSUME NEW s \in StreamRec, NEW finished \in BOOLEAN, NEW data \in Data,
           NEW buffered \in BOOLEAN, NEW rest \in Data,
           SendBlock(s, finished, data, buffered, rest)
    PROVE  /\ stream' \in StreamRec /\ SameAtStart(stream', s)
           /\ stream'.chunked_sending = (s.chunked_sending \/ ~finished)
           /\ job' \in JobRec /\ job'.finished = finished /\ job'.data = data
           /\ job'.buffered = buffered /\ job'.rest = rest
           /\ job'.call = IF s.chunked_sending THEN "chunked"
                          ELSE IF finished THEN "simple" ELSE "first"
           /\ err' = "ok"
           /\ pc' = IF s.chunked_sending THEN ChunkStep(job') ELSE "prepare"
           /\ pc' \in Steps
<1> DEFINE k == IF s.chunked_sending THEN "chunked" ELSE IF finished THEN "simple" ELSE "first"
           j == [call |-> k, finished |-> finished, data |-> data,
                 buffered |-> buffered, rest |-> rest]
           a == [s EXCEPT !.retried = FALSE]
           b == [s EXCEPT !.retried = FALSE, !.chunked_sending = TRUE]
<1>1. /\ job' = j /\ err' = "ok"
      /\ pc' = IF k = "chunked" THEN ChunkStep(j) ELSE "prepare"
      /\ stream' = CASE k = "chunked" -> s [] k = "simple" -> a [] OTHER -> b
      BY DEF SendBlock
<1>2. a \in StreamRec /\ SameAtStart(a, s) /\ a.chunked_sending = s.chunked_sending
      BY DEF StreamRec, SameAtStart
<1>3. b \in StreamRec /\ SameAtStart(b, s) /\ b.chunked_sending
      BY DEF StreamRec, SameAtStart
<1>4. k \in {"simple", "first", "chunked"} /\ s.chunked_sending \in BOOLEAN
      BY DEF StreamRec
<1>5. /\ j \in JobRec /\ j.finished = finished /\ j.data = data
      /\ j.buffered = buffered /\ j.rest = rest /\ j.call = k
      BY <1>4 DEF JobRec
<1>6. pc' \in Steps
      BY <1>1 DEF ChunkStep, Steps
<1>7. /\ k = "chunked" <=> s.chunked_sending
      /\ k = "simple" <=> ~s.chunked_sending /\ finished
      BY <1>4
<1>8. /\ stream' = IF s.chunked_sending THEN s ELSE IF finished THEN a ELSE b
      /\ pc' = IF s.chunked_sending THEN ChunkStep(job') ELSE "prepare"
      BY <1>1, <1>7
<1>9. SameAtStart(s, s)
      BY DEF SameAtStart
<1> HIDE DEF a, b, j
<1>10. /\ stream' \in StreamRec /\ SameAtStart(stream', s)
       /\ stream'.chunked_sending = (s.chunked_sending \/ ~finished)
      BY <1>2, <1>3, <1>4, <1>8, <1>9
<1> QED BY <1>1, <1>5, <1>6, <1>8, <1>10

\* TInv of a step that stays with its server, and on which only the stream,
\* the connection, pc, err and job change.
LEMMA StreamTypes ==
    ASSUME TInv, stream' \in StreamRec, Len(stream'.out_buffer) <= BodySend,
           stream'.url = stream.url, stream'.auth_type = stream.auth_type,
           SameServer(conn', conn), UNCHANGED asked,
           job' \in JobRec, ~job'.buffered => job'.rest = <<>>,
           pc' \in Steps, err' \in Errors,
           phase' \in {"sending", "receiving", "failed"},
           written' \in 0 .. MaxBody, header' \in BOOLEAN
    PROVE  TInv'
BY DEF TInv, SameServer

\* A step that leaves the connection alone stays with the server.
LEMMA SameConn == ASSUME TInv, UNCHANGED conn PROVE SameServer(conn', conn)
BY TBasics DEF SameServer

\* avs_stream_write keeps TInv: what does not fit is sent, so the buffer
\* never holds more than body_send.
LEMMA WriteTypes ==
    ASSUME TInv, NEW n \in WriteSizes, Write(n)
    PROVE  TInv'
<1> DEFINE first == RequestSoFar + 1
           data == Units(first, n)
<1>1. n \in Nat /\ n > 0 /\ RequestSoFar \in Nat /\ RequestSoFar + n <= MaxBody
      BY SMT, TBasics, HttpAssumption DEF Write, RequestSoFar
<1>2. data \in Data /\ Len(data) = n
  <2>1. first \in Nat /\ first >= 1 /\ first + n <= MaxBody + 1
        BY SMT, <1>1, HttpAssumption
  <2> HIDE DEF first
  <2> QED BY <1>1, <2>1, UnitsFacts
<1>3. /\ written' = RequestSoFar + n /\ header' = (header /\ phase = "sending")
      /\ phase' = "sending" /\ UNCHANGED <<conn, asked>>
      BY DEF Write
<1>4. written' \in 0 .. MaxBody /\ header' \in BOOLEAN /\ SameServer(conn', conn)
      BY SMT, <1>1, <1>3, SameConn, HttpAssumption
<1>5. CASE NeedsFlush(n)
  <2>1. SendBlock(stream, FALSE, stream.out_buffer, TRUE, data)
        BY <1>5 DEF Write
  <2>2. stream.out_buffer \in Data
        BY TBasics DEF StreamRec
  <2> HIDE DEF data
  <2>3. /\ stream' \in StreamRec /\ SameAtStart(stream', stream)
        /\ job' \in JobRec /\ job'.buffered = TRUE /\ err' = "ok" /\ pc' \in Steps
        BY <1>2, <2>1, <2>2, TBasics, SendBlockFacts
  <2>4. err' \in Errors
        BY <2>3 DEF Errors
  <2>5. /\ stream'.url = stream.url /\ stream'.auth_type = stream.auth_type
        /\ Len(stream'.out_buffer) <= BodySend
        BY <2>3, TBasics DEF SameAtStart
  <2> QED BY <1>3, <1>4, <2>3, <2>4, <2>5, StreamTypes
<1>6. CASE ~NeedsFlush(n)
  <2>1. /\ stream' = [stream EXCEPT !.out_buffer = stream.out_buffer \o data]
        /\ UNCHANGED <<pc, job, err>>
        BY <1>6 DEF Write
  <2>2. /\ stream.out_buffer \o data \in Data
        /\ Len(stream.out_buffer \o data) = Len(stream.out_buffer) + n
        BY SMT, <1>2, TBasics DEF StreamRec, Data
  <2> HIDE DEF data
  <2>3. /\ stream' \in StreamRec /\ stream'.url = stream.url
        /\ stream'.auth_type = stream.auth_type
        /\ stream'.out_buffer = stream.out_buffer \o data
        BY <2>1, <2>2, TBasics DEF StreamRec
  <2>4. Len(stream.out_buffer) \in Nat
        BY SMT, TBasics DEF StreamRec, Data
  <2>5. Len(stream'.out_buffer) <= BodySend
        BY SMT, <1>1, <1>6, <2>2, <2>3, <2>4, HttpAssumption DEF NeedsFlush
  <2> QED BY <1>3, <1>4, <2>1, <2>3, <2>5, TBasics, StreamTypes
<1> QED BY <1>5, <1>6

\* avs_stream_finish_message keeps TInv.
LEMMA FinishTypes ==
    ASSUME TInv, Finish
    PROVE  TInv'
<1>1. /\ written' = RequestSoFar /\ header' = (header /\ phase = "sending")
      /\ phase' = "sending" /\ UNCHANGED <<conn, asked>>
      /\ SendBlock(stream, TRUE, stream.out_buffer, TRUE, <<>>)
      BY DEF Finish
<1>2. written' \in 0 .. MaxBody /\ header' \in BOOLEAN /\ SameServer(conn', conn)
      BY SMT, <1>1, TBasics, SameConn, HttpAssumption DEF RequestSoFar
<1>3. stream.out_buffer \in Data /\ <<>> \in Data
      BY SMT, TBasics DEF StreamRec, Data
<1>4. /\ stream' \in StreamRec /\ SameAtStart(stream', stream)
      /\ job' \in JobRec /\ job'.buffered = TRUE /\ err' = "ok" /\ pc' \in Steps
      BY <1>1, <1>3, TBasics, SendBlockFacts
<1>5. err' \in Errors
      BY <1>4 DEF Errors
<1>6. /\ stream'.url = stream.url /\ stream'.auth_type = stream.auth_type
      /\ Len(stream'.out_buffer) <= BodySend
      BY <1>4, TBasics DEF SameAtStart
<1> QED BY <1>1, <1>2, <1>4, <1>5, <1>6, StreamTypes

\* avs_http_add_header keeps TInv.
LEMMA AddHeaderTypes ==
    ASSUME TInv, AddHeader
    PROVE  TInv'
<1>1. /\ stream' = [stream EXCEPT !.user_headers = TRUE] /\ header' = TRUE
      /\ UNCHANGED <<conn, pc, job, err, phase, written, asked>>
      BY DEF AddHeader
<1>2. /\ stream' \in StreamRec /\ stream'.url = stream.url
      /\ stream'.auth_type = stream.auth_type /\ stream'.out_buffer = stream.out_buffer
      BY <1>1, TBasics DEF StreamRec
<1> QED BY <1>1, <1>2, TBasics, SameConn, StreamTypes

\* The stream as ReturnBlock finds it.
LEMMA ReturnBlockTypes ==
    ASSUME TInv, ReturnBlock
    PROVE  TInv'
<1> DEFINE done == err = "ok"
           out == IF done /\ job.buffered THEN <<>> ELSE stream.out_buffer
           uh == stream.user_headers /\ ~(done /\ job.call \in {"simple", "first"})
           cs == stream.chunked_sending /\ ~(done /\ job.finished /\ job.call = "chunked")
           s == [stream EXCEPT !.out_buffer = out, !.user_headers = uh,
                               !.chunked_sending = cs]
<1>1. out \in Data /\ Len(out) <= BodySend /\ uh \in BOOLEAN /\ cs \in BOOLEAN
  <2>1. stream.out_buffer \in Data /\ <<>> \in Data /\ Len(<<>>) <= BodySend
        BY SMT, TBasics, HttpAssumption DEF StreamRec, Data
  <2>2. uh \in BOOLEAN /\ cs \in BOOLEAN
        BY TBasics DEF StreamRec
  <2> QED BY <2>1, <2>2, TBasics
<1>2. /\ UNCHANGED <<conn, written, header, asked>>
      /\ \/ /\ Len(job.rest) > BodySend /\ UNCHANGED phase
            /\ SendBlock(s, FALSE, job.rest, FALSE, <<>>)
         \/ /\ stream' = [s EXCEPT !.out_buffer = IF done THEN @ \o job.rest ELSE @]
            /\ ~(done /\ Len(job.rest) > BodySend)
            /\ pc' = "app" /\ job' = NoJob /\ err' = "ok"
            /\ phase' \in {"sending", "receiving", "failed"}
      BY DEF ReturnBlock
<1>3. job.rest \in Data /\ <<>> \in Data
      BY SMT, TBasics DEF JobRec, Data
<1> HIDE DEF uh, cs
<1>4. /\ s \in StreamRec /\ s.url = stream.url /\ s.auth_type = stream.auth_type
      /\ s.out_buffer = out
      BY <1>1, TBasics DEF StreamRec
<1> HIDE DEF s
<1>5. CASE /\ Len(job.rest) > BodySend /\ UNCHANGED phase
           /\ SendBlock(s, FALSE, job.rest, FALSE, <<>>)
  <2>1. /\ stream' \in StreamRec /\ SameAtStart(stream', s)
        /\ job' \in JobRec /\ job'.rest = <<>> /\ err' = "ok" /\ pc' \in Steps
        BY <1>3, <1>4, <1>5, SendBlockFacts
  <2>2. /\ stream'.url = stream.url /\ stream'.auth_type = stream.auth_type
        /\ Len(stream'.out_buffer) <= BodySend /\ err' \in Errors
        BY <1>1, <1>4, <2>1 DEF SameAtStart, Errors
  <2> QED BY <1>2, <1>5, <2>1, <2>2, TBasics, SameConn, StreamTypes
<1>6. CASE /\ stream' = [s EXCEPT !.out_buffer = IF done THEN @ \o job.rest ELSE @]
           /\ ~(done /\ Len(job.rest) > BodySend)
           /\ pc' = "app" /\ job' = NoJob /\ err' = "ok"
           /\ phase' \in {"sending", "receiving", "failed"}
  <2> DEFINE new == IF done THEN out \o job.rest ELSE out
  <2>1. new \in Data /\ Len(new) <= BodySend
    <3>1. CASE ~done
          BY <1>1, <3>1
    <3>2. CASE done /\ job.buffered
      <4>1. new = <<>> \o job.rest
            BY <3>2
      <4>2. <<>> \o job.rest \in Data /\ Len(<<>> \o job.rest) = Len(job.rest)
            BY SMT, <1>3 DEF Data
      <4>3. Len(job.rest) \in Nat
            BY SMT, <1>3 DEF Data
      <4> QED BY SMT, <1>6, <3>2, <4>1, <4>2, <4>3, HttpAssumption
    <3>3. CASE done /\ ~job.buffered
      <4>1. new = out \o <<>>
            BY <3>3, TBasics
      <4>2. out \o <<>> \in Data /\ Len(out \o <<>>) = Len(out)
            BY SMT, <1>1 DEF Data
      <4> HIDE DEF new, out
      <4> QED BY <1>1, <4>1, <4>2
    <3> QED BY <3>1, <3>2, <3>3
  <2>2. stream' = [s EXCEPT !.out_buffer = new]
        BY <1>4, <1>6
  <2> HIDE DEF new
  <2>3. /\ stream' \in StreamRec /\ stream'.url = stream.url
        /\ stream'.auth_type = stream.auth_type /\ stream'.out_buffer = new
        BY <1>4, <2>1, <2>2 DEF StreamRec
  <2>4. job' \in JobRec /\ job'.rest = <<>> /\ err' \in Errors /\ pc' \in Steps
        BY <1>3, <1>6 DEF NoJob, JobRec, Errors, Steps
  <2> QED BY <1>2, <1>6, <2>1, <2>3, <2>4, TBasics, SameConn, StreamTypes
<1> QED BY <1>2, <1>5, <1>6

\* Credentials(s, c, a): the stream and the connection are at one server, and
\* have credentials for it only if they may.
Permitted(s, c, a) ==
    /\ c.url = s.url
    /\ s.auth_type # "NONE" => Https(s.url) \/ a
    /\ c.authorised => Https(c.url) \/ a

\* A step of the client within a block keeps TInv, given the types of what
\* it changes.
LEMMA GeneralTypes ==
    ASSUME TInv, stream' \in StreamRec, Len(stream'.out_buffer) <= BodySend,
           conn' \in ConnRec, asked' \in BOOLEAN, Permitted(stream', conn', asked'),
           UNCHANGED <<job, app>>, pc' \in Steps, err' \in Errors
    PROVE  TInv'
BY DEF TInv, Permitted, app

\* A step that ends with ReceivedHeaders(t, e).
LEMMA ReceivedTypes ==
    ASSUME TInv, NEW t \in StreamRec, NEW e \in Errors, ReceivedHeaders(t, e),
           t.out_buffer = stream.out_buffer,
           conn' \in ConnRec, asked' \in BOOLEAN, Permitted(t, conn', asked'),
           UNCHANGED <<job, app>>
    PROVE  TInv'
<1>1. /\ stream' \in StreamRec /\ SameButRetry(stream', t)
      /\ err' \in Errors /\ pc' \in Steps
      BY ReceivedHeadersFacts
<1>2. Permitted(stream', conn', asked') /\ Len(stream'.out_buffer) <= BodySend
      BY <1>1, TBasics DEF Permitted, SameButRetry
<1> QED BY <1>1, <1>2, GeneralTypes

\* What a step that keeps url and auth_type, and stays with the server, keeps.
LEMMA StillPermitted ==
    ASSUME TInv, NEW t, t.url = stream.url, t.auth_type = stream.auth_type,
           NEW c, SameServer(c, conn)
    PROVE  c \in ConnRec /\ Permitted(t, c, asked)
BY TBasics DEF SameServer, Permitted

\* http_receive_headers_error drops the connection only.
LEMMA FailedFacts ==
    ASSUME NEW s \in StreamRec
    PROVE  /\ Failed(s) \in StreamRec /\ ~Failed(s).keep_connection
           /\ Failed(s).url = s.url /\ Failed(s).auth_type = s.auth_type
           /\ Failed(s).out_buffer = s.out_buffer /\ Failed(s).status = s.status
           /\ Failed(s).chunked_sending = s.chunked_sending
           /\ Failed(s).body_receiver = s.body_receiver
           /\ Failed(s).user_headers = s.user_headers
           /\ Failed(s).should_retry = s.should_retry
BY DEF Failed, StreamRec

\* Closing the body receiver leaves the rest of the stream as it was.
LEMMA ReceiverClosedFacts ==
    ASSUME NEW s \in StreamRec
    PROVE  /\ ReceiverClosed(s) \in StreamRec
           /\ ReceiverClosed(s).keep_connection = s.keep_connection
           /\ ReceiverClosed(s).url = s.url /\ ReceiverClosed(s).auth_type = s.auth_type
           /\ ReceiverClosed(s).out_buffer = s.out_buffer
           /\ ReceiverClosed(s).status = s.status
           /\ ReceiverClosed(s).chunked_sending = s.chunked_sending
           /\ ReceiverClosed(s).body_receiver = Null
           /\ ReceiverClosed(s).user_headers = s.user_headers
           /\ ReceiverClosed(s).should_retry = s.should_retry
BY DEF ReceiverClosed, StreamRec

\* Clearing should_retry leaves the rest of the stream as it was.
LEMMA RetryFlagClearedFacts ==
    ASSUME NEW s \in StreamRec
    PROVE  /\ RetryFlagCleared(s) \in StreamRec /\ ~RetryFlagCleared(s).should_retry
           /\ RetryFlagCleared(s).keep_connection = s.keep_connection
           /\ RetryFlagCleared(s).url = s.url
           /\ RetryFlagCleared(s).auth_type = s.auth_type
           /\ RetryFlagCleared(s).out_buffer = s.out_buffer
           /\ RetryFlagCleared(s).status = s.status
           /\ RetryFlagCleared(s).chunked_sending = s.chunked_sending
           /\ RetryFlagCleared(s).body_receiver = s.body_receiver
           /\ RetryFlagCleared(s).user_headers = s.user_headers
BY DEF RetryFlagCleared, StreamRec

\* The four things _avs_http_prepare_for_sending does to the stream.
SameAtPrepare(u, s) ==
    /\ u.url = s.url /\ u.auth_type = s.auth_type /\ u.out_buffer = s.out_buffer
    /\ u.chunked_sending = s.chunked_sending /\ u.user_headers = s.user_headers
    /\ u.body_receiver = s.body_receiver /\ u.should_retry = s.should_retry

\* The three outcomes of reconnecting: the connection is kept, a new one to
\* the same URL, or none.
LEMMA ReconnectFacts ==
    ASSUME NEW s \in StreamRec, NEW c \in ConnRec, c.url = s.url, Reconnect(s, c)
    PROVE  /\ stream' \in StreamRec /\ SameAtPrepare(stream', s)
           /\ \/ /\ s.keep_connection /\ stream' = s /\ conn' = c
                 /\ pc' = "send" /\ UNCHANGED err
              \/ /\ stream'.keep_connection /\ conn' = NewConn(s.url)
                 /\ pc' = "send" /\ UNCHANGED err
              \/ /\ ~stream'.keep_connection /\ conn' = Closed(c)
                 /\ pc' = "return" /\ err' = "errno"
           /\ SameServer(conn', c)
<1> DEFINE a == [s EXCEPT !.close_handling_required = FALSE, !.keep_connection = TRUE]
           b == [s EXCEPT !.close_handling_required = FALSE]
<1>1. a \in StreamRec /\ SameAtPrepare(a, s) /\ a.keep_connection
      BY DEF StreamRec, SameAtPrepare
<1>2. /\ b \in StreamRec /\ SameAtPrepare(b, s)
      /\ b.keep_connection = s.keep_connection
      BY DEF StreamRec, SameAtPrepare
<1>3. SameAtPrepare(s, s) /\ SameServer(c, c) /\ s.url \in URLs
      BY DEF SameAtPrepare, SameServer, StreamRec
<1>4. SameServer(NewConn(s.url), c) /\ SameServer(Closed(c), c)
      BY <1>3, NewConnFacts, ClosedFacts DEF SameServer
<1>5. \/ s.keep_connection /\ stream' = s /\ conn' = c /\ pc' = "send" /\ UNCHANGED err
      \/ stream' = a /\ conn' = NewConn(s.url) /\ pc' = "send" /\ UNCHANGED err
      \/ /\ ~s.keep_connection /\ stream' = b /\ conn' = Closed(c)
         /\ pc' = "return" /\ err' = "errno"
      BY DEF Reconnect
<1> HIDE DEF a, b
<1> QED BY <1>1, <1>2, <1>3, <1>4, <1>5

\* SameServer is transitive.
LEMMA SameServerTrans ==
    ASSUME NEW a, NEW b, NEW c, SameServer(a, b), SameServer(b, c)
    PROVE  SameServer(a, c)
BY DEF SameServer

\* What every step of _avs_http_prepare_for_sending amounts to.
LEMMA PrepareCases ==
    ASSUME TInv, PrepareForSending
    PROVE  /\ UNCHANGED <<job, app, asked>>
           /\ \/ /\ stream.body_receiver = Null
                 /\ Reconnect(RetryFlagCleared(stream), conn)
              \/ /\ stream.body_receiver # Null /\ BodyCanEnd
                 /\ \E unread \in UnreadAtEnd(stream.body_receiver) :
                       Reconnect(ReceiverClosed(RetryFlagCleared(stream)),
                                 Exchanged(conn, unread))
              \/ /\ stream.body_receiver # Null
                 /\ stream' = RetryFlagCleared(stream) /\ err' = "errno"
                 /\ pc' = "return" /\ UNCHANGED conn
BY DEF PrepareForSending

\* _avs_http_prepare_for_sending keeps TInv.
LEMMA PrepareTypes ==
    ASSUME TInv, PrepareForSending
    PROVE  TInv'
<1> DEFINE s == RetryFlagCleared(stream)
<1>1. /\ s \in StreamRec /\ s.url = stream.url /\ s.auth_type = stream.auth_type
      /\ s.out_buffer = stream.out_buffer
      BY TBasics, RetryFlagClearedFacts
<1>2. /\ ReceiverClosed(s) \in StreamRec /\ ReceiverClosed(s).url = stream.url
      /\ ReceiverClosed(s).auth_type = stream.auth_type
      /\ ReceiverClosed(s).out_buffer = stream.out_buffer
      BY <1>1, ReceiverClosedFacts
<1> HIDE DEF s
<1>3. ASSUME NEW t \in StreamRec, t.url = stream.url, t.auth_type = stream.auth_type,
             t.out_buffer = stream.out_buffer,
             NEW c, SameServer(c, conn), Reconnect(t, c), UNCHANGED <<job, app, asked>>
      PROVE  TInv'
  <2>1. c \in ConnRec /\ c.url = t.url
        BY <1>3, TBasics DEF SameServer
  <2>2. /\ stream' \in StreamRec /\ SameAtPrepare(stream', t) /\ SameServer(conn', c)
        /\ pc' \in {"send", "return"} /\ err' \in {err, "errno"}
        BY <1>3, <2>1, ReconnectFacts
  <2>3. SameServer(conn', conn)
        BY <1>3, <2>2, SameServerTrans
  <2>4. pc' \in Steps /\ err' \in Errors
        BY <2>2, TBasics DEF Steps, Errors
  <2>5. conn' \in ConnRec /\ Permitted(stream', conn', asked)
        BY <1>3, <2>2, <2>3, StillPermitted DEF SameAtPrepare
  <2>6. Len(stream'.out_buffer) <= BodySend
        BY <1>3, <2>2, TBasics DEF SameAtPrepare
  <2> QED BY <1>3, <2>2, <2>4, <2>5, <2>6, TBasics, GeneralTypes
<1>4. UNCHANGED <<job, app, asked>>
      BY PrepareCases
<1>5. SameServer(conn, conn)
      BY TBasics DEF SameServer
<1>6. CASE Reconnect(s, conn)
      BY <1>1, <1>3, <1>4, <1>5, <1>6
<1>7. ASSUME NEW unread \in UnreadAtEnd(stream.body_receiver),
             Reconnect(ReceiverClosed(s), Exchanged(conn, unread))
      PROVE  TInv'
  <2>1. unread \in BOOLEAN
        BY DEF UnreadAtEnd
  <2>2. SameServer(Exchanged(conn, unread), conn)
        BY <2>1, TBasics, ExchangedFacts
  <2> QED BY <1>2, <1>3, <1>4, <1>7, <2>2
<1>8. CASE stream' = s /\ err' = "errno" /\ pc' = "return" /\ UNCHANGED conn
  <2>1. conn' \in ConnRec /\ Permitted(stream', conn', asked)
        BY <1>1, <1>5, <1>8, StillPermitted
  <2>2. pc' \in Steps /\ err' \in Errors
        BY <1>8 DEF Steps, Errors
  <2>3. stream' \in StreamRec /\ Len(stream'.out_buffer) <= BodySend
        BY <1>1, <1>8, TBasics
  <2> QED BY <1>4, <2>1, <2>2, <2>3, TBasics, GeneralTypes
<1> QED BY <1>6, <1>7, <1>8, PrepareCases DEF s

\* A failed send: the connection may be broken, the stream may ask for another
\* attempt on a new one.
SameAtSend(u, s) ==
    /\ u.url = s.url /\ u.auth_type = s.auth_type /\ u.out_buffer = s.out_buffer
    /\ u.chunked_sending = s.chunked_sending /\ u.user_headers = s.user_headers
    /\ u.body_receiver = s.body_receiver

\* A failed send asks for another attempt only together with a new
\* connection.
LEMMA SendFailsFacts ==
    ASSUME NEW s \in StreamRec, conn \in ConnRec, SendFails(s)
    PROVE  /\ stream' \in StreamRec /\ SameAtSend(stream', s) /\ err' = "errno"
           /\ SameServer(conn', conn)
           /\ \/ stream'.keep_connection = FALSE
              \/ stream' = s
           /\ ~SendsFail => ~conn.peer /\ conn' = conn
<1>1. PICK epipe \in BOOLEAN :
          /\ IF epipe THEN ~conn.peer ELSE SendsFail
          /\ stream' = MaybeScheduleRetry(s, epipe)
          /\ conn' = IF conn.peer THEN [conn EXCEPT !.request = "broken"] ELSE conn
          /\ err' = "errno"
      BY DEF SendFails
<1> DEFINE a == [s EXCEPT !.keep_connection = FALSE, !.should_retry = TRUE]
<1>2. a \in StreamRec /\ SameAtSend(a, s) /\ a.keep_connection = FALSE
      BY DEF StreamRec, SameAtSend
<1>3. stream' \in {a, s}
      BY <1>1 DEF MaybeScheduleRetry
<1>4. SameAtSend(s, s)
      BY DEF SameAtSend
<1>5. SameServer(conn', conn)
      BY <1>1 DEF SameServer, ConnRec
<1> HIDE DEF a
<1> QED BY <1>1, <1>2, <1>3, <1>4, <1>5

\* A failed send keeps TInv.
LEMMA SendFailsTypes ==
    ASSUME TInv, NEW s \in StreamRec, s.url = stream.url, s.auth_type = stream.auth_type,
           s.out_buffer = stream.out_buffer, SendFails(s),
           pc' \in Steps, UNCHANGED <<job, app, asked>>
    PROVE  TInv'
<1>1. /\ stream' \in StreamRec /\ SameAtSend(stream', s) /\ err' = "errno"
      /\ SameServer(conn', conn)
      BY TBasics, SendFailsFacts
<1>2. conn' \in ConnRec /\ Permitted(stream', conn', asked)
      BY <1>1, StillPermitted DEF SameAtSend
<1>3. err' \in Errors /\ Len(stream'.out_buffer) <= BodySend
      BY <1>1, TBasics DEF Errors, SameAtSend
<1> QED BY <1>1, <1>2, <1>3, TBasics, GeneralTypes

\* The stream with another status.
LEMMA StatusFacts ==
    ASSUME NEW s \in StreamRec, NEW n \in Statuses
    PROVE  /\ [s EXCEPT !.status = n] \in StreamRec /\ [s EXCEPT !.status = n].status = n
           /\ SameAtSend([s EXCEPT !.status = n], s)
           /\ [s EXCEPT !.status = n].keep_connection = s.keep_connection
           /\ [s EXCEPT !.status = n].should_retry = s.should_retry
           /\ [s EXCEPT !.status = n].no_expect = s.no_expect
BY DEF StreamRec, SameAtSend

\* Sending the headers: it succeeds or fails.
LEMMA SendHeadersCases ==
    ASSUME SendHeaders
    PROVE  /\ pc = "send" /\ UNCHANGED <<job, app, asked>>
           /\ \/ /\ stream' = [stream EXCEPT !.status = 0]
                 /\ conn' = TakeHeaders(conn, stream',
                                IF job.call = "simple" THEN job.data ELSE <<>>,
                                job.call = "first")
                 /\ pc' = IF job.call = "simple"
                             \/ (job.call = "first" /\ ~stream'.no_expect)
                          THEN "receive" ELSE ChunkStep(job)
                 /\ err' = "ok"
              \/ /\ SendFails([stream EXCEPT !.status = 0])
                 /\ pc' = RetryOrReturn(stream')
BY DEF SendHeaders

\* _avs_http_send_headers keeps TInv: Authorization goes out only if the
\* stream is permitted to send it.
LEMMA SendHeadersTypes ==
    ASSUME TInv, SendHeaders
    PROVE  TInv'
<1> DEFINE s == [stream EXCEPT !.status = 0]
           body == IF job.call = "simple" THEN job.data ELSE <<>>
           more == job.call = "first"
<1>1. s \in StreamRec /\ SameAtSend(s, stream)
  <2>1. 0 \in Statuses
        BY SMT DEF Statuses
  <2> QED BY <2>1, TBasics, StatusFacts
<1>2. body \in Data /\ more \in BOOLEAN
  <2>1. job.data \in Data /\ <<>> \in Data
        BY SMT, TBasics DEF JobRec, Data
  <2> QED BY <2>1
<1>3. pc = "send" /\ UNCHANGED <<job, app, asked>>
      BY SendHeadersCases
<1> HIDE DEF s, body, more
<1>4. CASE /\ stream' = s /\ conn' = TakeHeaders(conn, s, body, more)
           /\ err' = "ok" /\ pc' \in Steps
  <2>1. /\ conn' \in ConnRec /\ conn'.url = conn.url
        /\ conn'.authorised => conn.authorised \/ s.auth_type # "NONE"
        BY <1>1, <1>2, <1>4, TBasics, TakeHeadersFacts
  <2>2. Permitted(stream', conn', asked)
        BY <1>1, <1>4, <2>1, TBasics DEF Permitted, SameAtSend
  <2>3. err' \in Errors /\ Len(stream'.out_buffer) <= BodySend
        BY <1>1, <1>4, TBasics DEF Errors, SameAtSend
  <2> QED BY <1>1, <1>3, <1>4, <2>1, <2>2, <2>3, TBasics, GeneralTypes
<1>5. CASE SendFails(s) /\ pc' = RetryOrReturn(stream')
  <2>1. pc' \in Steps
        BY <1>5 DEF RetryOrReturn, Steps
  <2> QED BY <1>1, <1>3, <1>5, <2>1, SendFailsTypes DEF SameAtSend
<1>6. \A j : ChunkStep(j) \in Steps /\ "receive" \in Steps
      BY DEF ChunkStep, Steps
<1> QED BY <1>4, <1>5, <1>6, SendHeadersCases DEF s, body, more

\* http_send_single_chunk keeps TInv.
LEMMA SendChunkTypes ==
    ASSUME TInv, SendChunk \/ SendLastChunk
    PROVE  TInv'
<1>1. UNCHANGED <<job, app, asked>> /\ pc' \in Steps
  <2>1. UNCHANGED <<job, app, asked>>
        BY DEF SendChunk, SendLastChunk
  <2>2. pc' \in {"last", "return", "receive", "prepare"}
    <3>1. CASE SendChunk
          BY <3>1 DEF SendChunk, RetryOrReturn
    <3>2. CASE SendLastChunk
          BY <3>2 DEF SendLastChunk
    <3> QED BY <3>1, <3>2
  <2> QED BY <2>1, <2>2 DEF Steps
<1>2. CASE SendFails(stream)
      BY <1>1, <1>2, TBasics, SendFailsTypes
<1>3. ASSUME NEW data \in Data, conn' = TakeChunk(conn, data),
             stream' \in {stream, [stream EXCEPT !.chunked_sending = FALSE]},
             err' \in Errors
      PROVE  TInv'
  <2>1. SameServer(conn', conn)
        BY <1>3, TBasics, TakeChunkFacts
  <2> DEFINE b == [stream EXCEPT !.chunked_sending = FALSE]
  <2>2. /\ b \in StreamRec /\ b.url = stream.url /\ b.auth_type = stream.auth_type
        /\ b.out_buffer = stream.out_buffer
        BY TBasics DEF StreamRec
  <2> HIDE DEF b
  <2>3. /\ stream' \in StreamRec /\ stream'.url = stream.url
        /\ stream'.auth_type = stream.auth_type
        /\ stream'.out_buffer = stream.out_buffer
        BY <1>3, <2>2, TBasics DEF b
  <2>4. conn' \in ConnRec /\ Permitted(stream', conn', asked)
        BY <2>1, <2>3, StillPermitted
  <2> QED BY <1>1, <1>3, <2>3, <2>4, TBasics, GeneralTypes
<1>4. CASE SendChunk /\ ~SendFails(stream)
  <2>1. job.data \in Data /\ "ok" \in Errors
        BY TBasics DEF JobRec, Errors
  <2> QED BY <1>3, <1>4, <2>1 DEF SendChunk
<1>5. CASE SendLastChunk /\ ~SendFails(stream)
  <2>1. <<>> \in Data
        BY SMT DEF Data
  <2> QED BY <1>3, <1>5, <2>1, TBasics DEF SendLastChunk
<1> QED BY <1>2, <1>4, <1>5

\* A response that does not come keeps TInv.
LEMMA ReceiveFailsTypes ==
    ASSUME TInv, ReceiveFails
    PROVE  TInv'
<1>1. PICK n \in {399, 100} :
          ReceivedHeaders([Failed(stream) EXCEPT !.status = n], "errno")
      BY DEF ReceiveFails
<1>2. UNCHANGED <<conn, job, app, asked>>
      BY DEF ReceiveFails
<1> DEFINE t == [Failed(stream) EXCEPT !.status = n]
<1>3. /\ t \in StreamRec /\ t.url = stream.url /\ t.auth_type = stream.auth_type
      /\ t.out_buffer = stream.out_buffer
  <2>1. n \in Statuses
        BY SMT DEF Statuses
  <2> QED BY SMT, <2>1, TBasics, FailedFacts, StatusFacts DEF SameAtSend
<1> HIDE DEF t
<1>4. conn' \in ConnRec /\ Permitted(t, conn', asked)
      BY <1>2, <1>3, SameConn, StillPermitted
<1>5. "errno" \in Errors
      BY DEF Errors
<1> QED BY <1>1, <1>2, <1>3, <1>4, <1>5, TBasics, ReceivedTypes DEF t

\* The class of a status code.
LEMMA ClassFacts == \A n \in 0 .. 599 : n \div 100 = 1 <=> n \in 100 .. 199
<1> SUFFICES ASSUME NEW n \in 0 .. 599 PROVE n \div 100 = 1 <=> n \in 100 .. 199
    OBVIOUS
<1> QED BY SMT

\* What _avs_http_receive_headers takes off the connection.
LEMMA WireFacts ==
    ASSUME TInv, conn.wire # <<>>
    PROVE  /\ Head(conn.wire) \in Responses \cup Inform
           /\ Head(conn.wire) = conn.wire[1]
           /\ Tail(conn.wire) \in Seq(Responses \cup Inform)
           /\ Head(conn.wire).status \in Statuses
           /\ Head(conn.wire) \in Inform <=> Head(conn.wire).status \div 100 = 1
           /\ Head(conn.wire) \in Responses <=> Head(conn.wire).status \div 100 # 1
<1>1. conn.wire \in Seq(Responses \cup Inform)
      BY TBasics DEF ConnRec
<1>2. /\ Head(conn.wire) \in Responses \cup Inform /\ Head(conn.wire) = conn.wire[1]
      /\ Tail(conn.wire) \in Seq(Responses \cup Inform)
      BY SMT, <1>1
<1>3. \A r \in Responses : r.status \in Statuses /\ r.status \div 100 # 1
  <2> SUFFICES ASSUME NEW r \in Responses
               PROVE  r.status \in Statuses /\ r.status \div 100 # 1
      OBVIOUS
  <2>1. r \in FinalResponse /\ r.status \div 100 # 1
        BY ResponseAssumption
  <2> QED BY <2>1 DEF FinalResponse, Statuses
<1>4. \A r \in Inform : r.status \in Statuses /\ r.status \div 100 = 1
  <2> SUFFICES ASSUME NEW r \in Inform PROVE r.status \in Statuses /\ r.status \div 100 = 1
      OBVIOUS
  <2>1. r.status \in 100 .. 199
        BY HttpAssumption DEF Inform
  <2>2. r.status \in 0 .. 599
        BY SMT, <2>1
  <2> QED BY <2>1, <2>2, ClassFacts DEF Statuses
<1> QED BY <1>2, <1>3, <1>4

\* The stream as a 1xx response leaves it.
LEMMA InformedFacts ==
    ASSUME NEW s \in StreamRec, NEW n \in Statuses,
           NEW t, t = [s EXCEPT !.status = n, !.keep_connection = TRUE,
                                !.close_handling_required = FALSE]
    PROVE  /\ t \in StreamRec /\ SameAtSend(t, s) /\ t.status = n
           /\ t.should_retry = s.should_retry
BY DEF StreamRec, SameAtSend

\* What receiving an informational response does.
LEMMA InformationalCases ==
    ASSUME TInv, ReceiveInformational
    PROVE  /\ pc = "receive" /\ conn.wire # <<>> /\ UNCHANGED <<job, app, asked>>
           /\ Head(conn.wire) \in Inform
           /\ conn' = [conn EXCEPT !.wire = Tail(conn.wire)]
           /\ SameServer(conn', conn)
           /\ \E t \in StreamRec :
                /\ SameAtSend(t, stream) /\ t.status = Head(conn.wire).status
                /\ t.should_retry = stream.should_retry
                /\ IF Skipped(t) THEN stream' = t /\ UNCHANGED <<pc, err>>
                                 ELSE ReceivedHeaders(t, "ok")
<1> DEFINE t == [stream EXCEPT !.status = Head(conn.wire).status,
                               !.keep_connection = TRUE,
                               !.close_handling_required = FALSE]
<1>1. /\ pc = "receive" /\ conn.wire # <<>> /\ t.status \div 100 = 1
      /\ conn' = [conn EXCEPT !.wire = Tail(conn.wire)]
      /\ IF Skipped(t) THEN stream' = t /\ UNCHANGED <<pc, err>>
                       ELSE ReceivedHeaders(t, "ok")
      /\ UNCHANGED <<job, app, asked>>
      BY DEF ReceiveInformational
<1>2. Head(conn.wire).status \in Statuses /\ Tail(conn.wire) \in Seq(Responses \cup Inform)
      BY <1>1, WireFacts
<1>3. /\ t \in StreamRec /\ SameAtSend(t, stream)
      /\ t.status = Head(conn.wire).status /\ t.should_retry = stream.should_retry
  <2> DEFINE n == Head(conn.wire).status
  <2>1. n \in Statuses
        BY <1>2
  <2>2. t = [stream EXCEPT !.status = n, !.keep_connection = TRUE,
                           !.close_handling_required = FALSE]
        OBVIOUS
  <2> HIDE DEF n, t
  <2>3. /\ t \in StreamRec /\ SameAtSend(t, stream)
        /\ t.status = n /\ t.should_retry = stream.should_retry
        BY <2>1, <2>2, TBasics, InformedFacts
  <2> QED BY <2>3 DEF n
<1>4. SameServer(conn', conn)
      BY <1>1, <1>2, TBasics DEF SameServer, ConnRec
<1> HIDE DEF t
<1>5. Head(conn.wire) \in Inform
      BY <1>1, <1>3, WireFacts
<1> QED BY <1>1, <1>3, <1>4, <1>5

\* Receiving an informational response keeps TInv.
LEMMA InformationalTypes ==
    ASSUME TInv, ReceiveInformational
    PROVE  TInv'
<1>1. PICK t \in StreamRec :
          /\ SameAtSend(t, stream)
          /\ IF Skipped(t) THEN stream' = t /\ UNCHANGED <<pc, err>>
                           ELSE ReceivedHeaders(t, "ok")
      BY InformationalCases
<1>2. SameServer(conn', conn) /\ UNCHANGED <<job, app, asked>>
      BY InformationalCases
<1>3. conn' \in ConnRec /\ Permitted(t, conn', asked)
      BY <1>1, <1>2, StillPermitted DEF SameAtSend
<1>4. t.out_buffer = stream.out_buffer /\ "ok" \in Errors
      BY <1>1 DEF SameAtSend, Errors
<1>5. CASE Skipped(t)
      BY <1>1, <1>2, <1>3, <1>4, <1>5, TBasics, GeneralTypes
<1>6. CASE ~Skipped(t)
      BY <1>1, <1>2, <1>3, <1>4, <1>6, TBasics, ReceivedTypes
<1> QED BY <1>5, <1>6

\* What the headline and the header fields leave of the stream.
LEMMA ParsedFacts ==
    ASSUME NEW s \in StreamRec, NEW r \in Responses
    PROVE  /\ ParsedHeaders(s, r) \in StreamRec
           /\ ParsedHeaders(s, r).url = s.url
           /\ ParsedHeaders(s, r).out_buffer = s.out_buffer
           /\ ParsedHeaders(s, r).chunked_sending = s.chunked_sending
           /\ ParsedHeaders(s, r).user_headers = s.user_headers
           /\ ParsedHeaders(s, r).body_receiver = s.body_receiver
           /\ ParsedHeaders(s, r).should_retry = s.should_retry
           /\ ParsedHeaders(s, r).status = r.status
           /\ ParsedHeaders(s, r).auth_type # "NONE" =>
                s.auth_type # "NONE" \/ r.challenge # "absent"
<1>1. /\ r.status \in Statuses /\ r.close \in BOOLEAN
      BY SMT, ResponseAssumption DEF FinalResponse, Statuses
<1> DEFINE auth == CASE r.challenge = "absent" -> s.auth_type
                     [] r.challenge = "known" -> "KNOWN"
                     [] OTHER -> "NONE"
<1>2. /\ auth \in {"NONE", "KNOWN"}
      /\ auth # "NONE" => s.auth_type # "NONE" \/ r.challenge # "absent"
      BY DEF StreamRec
<1>3. ParsedHeaders(s, r) =
          [s EXCEPT !.status = r.status, !.close_handling_required = FALSE,
                    !.keep_connection = ~r.close, !.auth_type = auth]
      BY DEF ParsedHeaders, StreamRec
<1> HIDE DEF auth
<1> QED BY <1>1, <1>2, <1>3 DEF StreamRec

\* What every path from the header fields on keeps of the stream.
Carried(t, s, r) ==
    /\ t.out_buffer = s.out_buffer /\ t.chunked_sending = s.chunked_sending
    /\ t.user_headers = s.user_headers /\ t.should_retry = s.should_retry
    /\ t.status = r.status

\* A stream that has read the header fields of r and is still at its server.
Parsed(t, r) ==
    /\ t \in StreamRec /\ Carried(t, stream, r) /\ t.url = stream.url
    /\ t.auth_type # "NONE" => stream.auth_type # "NONE" \/ r.challenge # "absent"

\* _avs_http_body_receiver_init has succeeded.
HasReceiver(t, r) ==
    /\ t.body_receiver \in {"length", r.framing}
    /\ t.body_receiver = "identity" => ~t.keep_connection

\* The changes that http_receive_headline_and_headers makes to a stream
\* after it has parsed the headers keep it Parsed.
LEMMA RetriedParsed ==
    ASSUME NEW s, NEW r, Parsed(s, r), NEW b \in BOOLEAN
    PROVE  /\ Parsed([s EXCEPT !.retried = b], r)
           /\ [s EXCEPT !.retried = b].body_receiver = s.body_receiver
           /\ [s EXCEPT !.retried = b].redirect_count = s.redirect_count
BY DEF Parsed, Carried, StreamRec

\* So does giving up,
LEMMA FailedParsed ==
    ASSUME NEW s, NEW r, Parsed(s, r)
    PROVE  /\ Parsed(Failed(s), r) /\ ~Failed(s).keep_connection
           /\ Failed(s).body_receiver = s.body_receiver
           /\ Failed(s).auth_type = s.auth_type
BY FailedFacts DEF Parsed, Carried

\* creating the body receiver,
LEMMA ReadyParsed ==
    ASSUME NEW s, NEW r \in Responses, Parsed(s, r)
    PROVE  Parsed(ReceiverReady(s, r), r) /\ HasReceiver(ReceiverReady(s, r), r)
<1> DEFINE empty == r.framing = "identity" /\ s.status \in {204, 205}
           b == IF empty THEN "length" ELSE r.framing
           k == s.keep_connection /\ (r.framing = "identity" => empty)
           t == [s EXCEPT !.body_receiver = b, !.keep_connection = k]
<1>1. s \in StreamRec /\ r.framing \in Framings
      BY ResponseAssumption DEF Parsed, FinalResponse, Framings
<1>2. /\ b \in Framings /\ k \in BOOLEAN /\ b \in {"length", r.framing}
      /\ b = "identity" => ~k
      BY SMT, <1>1 DEF StreamRec, Framings
<1>3. ReceiverReady(s, r) = t
      BY <1>1 DEF ReceiverReady, StreamRec
<1> HIDE DEF b, k
<1>4. t \in StreamRec /\ t.body_receiver = b /\ t.keep_connection = k
      BY <1>1, <1>2 DEF StreamRec
<1>5. /\ Carried(t, stream, r) /\ t.url = stream.url /\ t.auth_type = s.auth_type
      BY <1>1 DEF Parsed, Carried, StreamRec
<1> HIDE DEF t
<1> QED BY <1>2, <1>3, <1>4, <1>5 DEF Parsed, HasReceiver

\* and counting a redirect.
LEMMA CountParsed ==
    ASSUME NEW s, NEW r, Parsed(s, r), NEW n \in Counts
    PROVE  /\ Parsed([s EXCEPT !.redirect_count = n], r)
           /\ [s EXCEPT !.redirect_count = n].body_receiver = s.body_receiver
           /\ [s EXCEPT !.redirect_count = n].keep_connection = s.keep_connection
           /\ [s EXCEPT !.redirect_count = n].redirect_count = n
BY DEF Parsed, Carried, StreamRec

\* redirect_count stays in its range.
LEMMA CountFacts ==
    ASSUME NEW n \in Counts
    PROVE  (IF LimitExceeded(n) THEN n ELSE n + 1) \in Counts
BY SMT, HttpAssumption DEF Counts, LimitExceeded

\* The stream that leaves its server, before it has a new one.
LEMMA LeftParsed ==
    ASSUME NEW s, NEW r, Parsed(s, r),
           NEW t, t = AuthReset([s EXCEPT !.close_handling_required = FALSE])
    PROVE  /\ Parsed(t, r) /\ t.auth_type = "NONE" /\ t.body_receiver = s.body_receiver
<1> DEFINE a == [s EXCEPT !.close_handling_required = FALSE]
<1>1. Parsed(a, r) /\ a.body_receiver = s.body_receiver
      BY DEF Parsed, Carried, StreamRec
<1>2. t = [a EXCEPT !.auth_type = "NONE", !.retried = FALSE]
      BY DEF AuthReset
<1> HIDE DEF a
<1> QED BY <1>1, <1>2 DEF Parsed, Carried, StreamRec

\* The stream at the server it was sent to.
MovedTo(s, url) ==
    [s EXCEPT !.url = url, !.no_expect = FALSE, !.keep_connection = TRUE,
              !.auth_type = StartAuth(s.auth_type, url)]

\* After a redirect the stream is at the new URL and will send credentials
\* only over https.
LEMMA MovedFacts ==
    ASSUME NEW s \in StreamRec, s.auth_type = "NONE", NEW url \in URLs
    PROVE  /\ MovedTo(s, url) \in StreamRec /\ MovedTo(s, url).url = url
           /\ MovedTo(s, url).keep_connection
           /\ MovedTo(s, url).auth_type # "NONE" => Https(url)
           /\ MovedTo(s, url).out_buffer = s.out_buffer
           /\ MovedTo(s, url).chunked_sending = s.chunked_sending
           /\ MovedTo(s, url).user_headers = s.user_headers
           /\ MovedTo(s, url).should_retry = s.should_retry
           /\ MovedTo(s, url).status = s.status
           /\ MovedTo(s, url).body_receiver = s.body_receiver
<1> DEFINE a == StartAuth(s.auth_type, url)
           t == MovedTo(s, url)
<1>1. a \in {"NONE", "KNOWN"} /\ (a # "NONE" => Https(url))
      BY DEF StartAuth
<1>2. t = [s EXCEPT !.url = url, !.no_expect = FALSE, !.keep_connection = TRUE,
                    !.auth_type = a]
      BY DEF MovedTo
<1> SUFFICES /\ t \in StreamRec /\ t.url = url /\ t.keep_connection
             /\ t.auth_type # "NONE" => Https(url)
             /\ t.out_buffer = s.out_buffer /\ t.chunked_sending = s.chunked_sending
             /\ t.user_headers = s.user_headers /\ t.should_retry = s.should_retry
             /\ t.status = s.status /\ t.body_receiver = s.body_receiver
    OBVIOUS
<1> HIDE DEF a, t
<1> QED BY <1>1, <1>2 DEF StreamRec

\* The ways http_receive_headline_and_headers ends a final response, and what
\* follows: it gives the connection up, goes to another server, succeeds, or has
\* an error body to read.
GivesUp(t, c) ==
    /\ \E e \in Errors \ {"ok"} : ReceivedHeaders(t, e)
    /\ ~t.keep_connection /\ t.body_receiver = stream.body_receiver
    /\ conn' \in {c, Closed(c)}

Moves(t, r) ==
    /\ ReceivedHeaders(t, "errno") /\ t.keep_connection
    /\ t.body_receiver = stream.body_receiver
    /\ r.location \in URLs /\ conn' = NewConn(r.location)

Succeeds(t, r, c) ==
    /\ ReceivedHeaders(t, "ok") /\ r.status \div 100 = 2 /\ ~r.malformed
    /\ HasReceiver(t, r) /\ conn' = c

Drains(t, r, c) ==
    /\ stream' = t /\ pc' = "drain" /\ UNCHANGED err /\ conn' = c
    /\ r.status \div 100 \notin {1, 2, 3} /\ HasReceiver(t, r)

Outcome(t, r, c) ==
    /\ t \in StreamRec /\ Carried(t, stream, r) /\ conn' \in ConnRec
    /\ Permitted(t, conn', asked')
    /\ GivesUp(t, c) \/ Moves(t, r) \/ Succeeds(t, r, c) \/ Drains(t, r, c)

\* The connection once the response has been taken from it.
TakenFrom(c, r) == [c EXCEPT !.wire = Tail(c.wire), !.unread = HasBody(r)]

\* Reading the headers of a response takes it off the wire.
LEMMA TakenFromFacts ==
    ASSUME TInv, conn.wire # <<>>, NEW r
    PROVE  /\ SameServer(TakenFrom(conn, r), conn)
           /\ TakenFrom(conn, r).wire = Tail(conn.wire)
           /\ TakenFrom(conn, r).up = conn.up /\ TakenFrom(conn, r).peer = conn.peer
           /\ TakenFrom(conn, r).request = conn.request
           /\ TakenFrom(conn, r).body = conn.body
           /\ TakenFrom(conn, r).header = conn.header
           /\ TakenFrom(conn, r).answered = conn.answered
<1>1. HasBody(r) \in BOOLEAN /\ Tail(conn.wire) \in Seq(Responses \cup Inform)
      BY WireFacts DEF HasBody
<1> QED BY <1>1, TBasics DEF TakenFrom, SameServer, ConnRec

\* A stream still at its server may go on to answer with what it knows.
LEMMA ParsedPermitted ==
    ASSUME TInv, NEW r, NEW t, Parsed(t, r), SameServer(conn', conn),
           asked' = ((asked \/ r.challenge # "absent") /\ conn'.url = conn.url)
    PROVE  conn' \in ConnRec /\ Permitted(t, conn', asked') /\ asked' \in BOOLEAN
BY TBasics DEF Parsed, SameServer, Permitted

\* _avs_http_redirect moves to the new server or gives up.
LEMMA RedirectedOutcome ==
    ASSUME TInv, NEW r \in Responses, r.location # NoURL, NEW s, Parsed(s, r),
           s.body_receiver = stream.body_receiver,
           NEW connects \in BOOLEAN, Redirected(s, TakenFrom(conn, r), r, connects),
           conn.wire # <<>>,
           asked' = ((asked \/ r.challenge # "absent") /\ conn'.url = conn.url)
    PROVE  asked' \in BOOLEAN /\ \E t : Outcome(t, r, TakenFrom(conn, r))
<1> DEFINE c == TakenFrom(conn, r)
           n == IF LimitExceeded(s.redirect_count) THEN s.redirect_count
                ELSE s.redirect_count + 1
           counted == [s EXCEPT !.redirect_count = n]
           left == AuthReset([counted EXCEPT !.close_handling_required = FALSE])
           moved == MovedTo(left, r.location)
<1>1. n \in Counts
  <2>1. s.redirect_count \in Counts
        BY DEF Parsed, StreamRec
  <2> QED BY <2>1, CountFacts
<1>2. \/ conn' = c /\ ReceivedHeaders(Failed(counted), "http")
      \/ conn' = Closed(c) /\ ReceivedHeaders(Failed(left), "errno")
      \/ conn' = NewConn(r.location) /\ ReceivedHeaders(moved, "errno")
  <2>1. /\ counted = [s EXCEPT !.redirect_count =
                          IF LimitExceeded(@) THEN @ ELSE @ + 1]
        /\ moved = [left EXCEPT !.url = r.location,
                                !.no_expect = FALSE,
                                !.keep_connection = TRUE,
                                !.auth_type = StartAuth(@, r.location)]
        BY DEF MovedTo
  <2> QED BY <2>1 DEF Redirected
<1>3. SameServer(c, conn) /\ c \in ConnRec /\ c.url = conn.url
      BY TakenFromFacts DEF SameServer
<1>4. r.location \in URLs
      BY ResponseAssumption DEF FinalResponse
<1> SUFFICES asked' \in BOOLEAN /\ \E t : Outcome(t, r, c)
    OBVIOUS
<1> HIDE DEF c, n
<1>5. Parsed(counted, r) /\ counted.body_receiver = stream.body_receiver
      BY <1>1, CountParsed
<1> HIDE DEF counted
<1>6. /\ Parsed(left, r) /\ left.auth_type = "NONE"
      /\ left.body_receiver = stream.body_receiver
      BY <1>5, LeftParsed
<1> HIDE DEF left
<1>7. "http" \in Errors \ {"ok"} /\ "errno" \in Errors \ {"ok"}
      BY DEF Errors
<1>8. CASE conn' = c /\ ReceivedHeaders(Failed(counted), "http")
  <2>1. /\ Parsed(Failed(counted), r) /\ ~Failed(counted).keep_connection
        /\ Failed(counted).body_receiver = stream.body_receiver
        BY <1>5, FailedParsed
  <2>2. /\ conn' \in ConnRec /\ asked' \in BOOLEAN
        /\ Permitted(Failed(counted), conn', asked')
        BY <1>3, <1>8, <2>1, ParsedPermitted
  <2>3. GivesUp(Failed(counted), c)
        BY <1>7, <1>8, <2>1 DEF GivesUp
  <2> QED BY <2>1, <2>2, <2>3 DEF Outcome, Parsed
<1>9. CASE conn' = Closed(c) /\ ReceivedHeaders(Failed(left), "errno")
  <2>1. /\ Parsed(Failed(left), r) /\ ~Failed(left).keep_connection
        /\ Failed(left).body_receiver = stream.body_receiver
        BY <1>6, FailedParsed
  <2>2. SameServer(conn', conn)
        BY <1>3, <1>9, ClosedFacts, SameServerTrans
  <2>3. /\ conn' \in ConnRec /\ asked' \in BOOLEAN
        /\ Permitted(Failed(left), conn', asked')
        BY <2>1, <2>2, ParsedPermitted
  <2>4. GivesUp(Failed(left), c)
        BY <1>7, <1>9, <2>1 DEF GivesUp
  <2> QED BY <2>1, <2>3, <2>4 DEF Outcome, Parsed
<1>10. CASE conn' = NewConn(r.location) /\ ReceivedHeaders(moved, "errno")
  <2>1. left \in StreamRec /\ Carried(left, stream, r)
        BY <1>6 DEF Parsed
  <2>2. /\ moved \in StreamRec /\ moved.url = r.location /\ moved.keep_connection
        /\ moved.auth_type # "NONE" => Https(r.location)
        /\ moved.out_buffer = left.out_buffer
        /\ moved.chunked_sending = left.chunked_sending
        /\ moved.user_headers = left.user_headers
        /\ moved.should_retry = left.should_retry
        /\ moved.status = left.status /\ moved.body_receiver = left.body_receiver
        BY <1>4, <1>6, <2>1, MovedFacts
  <2> HIDE DEF moved
  <2>3. /\ conn' \in ConnRec /\ conn'.url = r.location /\ ~conn'.authorised
        BY <1>4, <1>10, NewConnFacts
  <2>4. Permitted(moved, conn', asked') /\ asked' \in BOOLEAN
        BY <2>2, <2>3 DEF Permitted
  <2>5. Carried(moved, stream, r)
        BY <2>1, <2>2 DEF Carried
  <2>6. Moves(moved, r)
        BY <1>4, <1>6, <1>10, <2>2 DEF Moves
  <2> QED BY <2>2, <2>3, <2>4, <2>5, <2>6 DEF Outcome
<1> QED BY <1>2, <1>8, <1>9, <1>10

\* A final response has one of the outcomes.
LEMMA ResponseCases ==
    ASSUME TInv, ReceiveResponse
    PROVE  /\ asked' \in BOOLEAN /\ UNCHANGED <<job, app>>
           /\ Head(conn.wire) \in Responses
           /\ \E t : Outcome(t, Head(conn.wire), TakenFrom(conn, Head(conn.wire)))
<1> DEFINE r == Head(conn.wire)
           c == TakenFrom(conn, r)
           s == ParsedHeaders(stream, r)
<1>1. /\ conn.wire # <<>> /\ r.status \div 100 # 1
      /\ asked' = ((asked \/ r.challenge # "absent") /\ conn'.url = conn.url)
      /\ UNCHANGED <<job, app>>
      BY DEF ReceiveResponse
<1>2. /\ \/ r.malformed /\ conn' = c /\ ReceivedHeaders(Failed(s), "errno")
         \/ ~r.malformed /\ r.status \div 100 = 2 /\ ReceiveSuccess(s, c, r)
         \/ ~r.malformed /\ r.status \div 100 = 3 /\ ReceiveRedirect(s, c, r)
         \/ ~r.malformed /\ r.status \div 100 \notin {1, 2, 3} /\ ReceiveErrorStatus(s, c, r)
      BY <1>1 DEF ReceiveResponse, TakenFrom
<1>3. r \in Responses
      BY <1>1, WireFacts
<1> SUFFICES asked' \in BOOLEAN /\ \E t : Outcome(t, r, c)
    BY <1>1, <1>3
<1> HIDE DEF r, s
<1>4. Parsed(s, r) /\ s.body_receiver = stream.body_receiver
      BY <1>3, TBasics, ParsedFacts DEF Parsed, Carried, s
<1>5. SameServer(c, conn)
      BY <1>1, TakenFromFacts
<1>6. "errno" \in Errors \ {"ok"}
      BY DEF Errors
\* Whatever fails here gives the connection up.
<1>7. ASSUME NEW u, Parsed(u, r), u.body_receiver = stream.body_receiver,
             conn' = c, ReceivedHeaders(Failed(u), "errno")
      PROVE  asked' \in BOOLEAN /\ \E t : Outcome(t, r, c)
  <2> HIDE DEF c
  <2>1. /\ Parsed(Failed(u), r) /\ ~Failed(u).keep_connection
        /\ Failed(u).body_receiver = stream.body_receiver
        BY <1>7, FailedParsed
  <2>2. /\ conn' \in ConnRec /\ asked' \in BOOLEAN
        /\ Permitted(Failed(u), conn', asked')
        BY <1>1, <1>5, <1>7, <2>1, ParsedPermitted
  <2>3. GivesUp(Failed(u), c)
        BY <1>6, <1>7, <2>1 DEF GivesUp
  <2> QED BY <2>1, <2>2, <2>3 DEF Outcome, Parsed
<1>8. ASSUME NEW u, Parsed(u, r), HasReceiver(u, r), conn' = c,
             Succeeds(u, r, c) \/ Drains(u, r, c)
      PROVE  asked' \in BOOLEAN /\ \E t : Outcome(t, r, c)
  <2> HIDE DEF c
  <2>1. conn' \in ConnRec /\ asked' \in BOOLEAN /\ Permitted(u, conn', asked')
        BY <1>1, <1>5, <1>8, ParsedPermitted
  <2> QED BY <1>8, <2>1 DEF Outcome, Parsed
<1>9. CASE r.malformed /\ conn' = c /\ ReceivedHeaders(Failed(s), "errno")
      BY <1>4, <1>7, <1>9
<1>10. CASE ~r.malformed /\ r.status \div 100 = 2 /\ ReceiveSuccess(s, c, r)
  <2> DEFINE t == [s EXCEPT !.retried = FALSE]
             u == ReceiverReady(t, r)
             v == [u EXCEPT !.redirect_count = 0]
  <2>1. /\ conn' = c
        /\ IF s.body_receiver # Null THEN ReceivedHeaders(Failed(t), "errno")
           ELSE ReceivedHeaders(v, "ok")
        BY <1>10 DEF ReceiveSuccess
  <2>2. Parsed(t, r) /\ t.body_receiver = stream.body_receiver
        BY <1>4, RetriedParsed
  <2> HIDE DEF t
  <2>3. Parsed(u, r) /\ HasReceiver(u, r)
        BY <1>3, <2>2, ReadyParsed
  <2> HIDE DEF u
  <2>4. Parsed(v, r) /\ HasReceiver(v, r)
    <3>1. 0 \in Counts
          BY SMT, HttpAssumption DEF Counts
    <3> QED BY <2>3, <3>1, CountParsed DEF HasReceiver
  <2> HIDE DEF v
  <2>5. CASE s.body_receiver # Null
        BY <1>7, <2>1, <2>2, <2>5
  <2>6. CASE s.body_receiver = Null
        BY <1>8, <1>10, <2>1, <2>4, <2>6 DEF Succeeds
  <2> QED BY <2>5, <2>6
<1>11. CASE ~r.malformed /\ r.status \div 100 = 3 /\ ReceiveRedirect(s, c, r)
  <2> DEFINE t == [s EXCEPT !.retried = FALSE]
  <2>1. \/ r.location = NoURL /\ conn' = c /\ ReceivedHeaders(Failed(t), "errno")
        \/ r.location # NoURL /\ \E connects \in BOOLEAN : Redirected(t, c, r, connects)
        BY <1>11 DEF ReceiveRedirect
  <2>2. Parsed(t, r) /\ t.body_receiver = stream.body_receiver
        BY <1>4, RetriedParsed
  <2> HIDE DEF t
  <2>3. CASE r.location = NoURL /\ conn' = c /\ ReceivedHeaders(Failed(t), "errno")
        BY <1>7, <2>2, <2>3
  <2>4. ASSUME NEW connects \in BOOLEAN, r.location # NoURL, Redirected(t, c, r, connects)
        PROVE  asked' \in BOOLEAN /\ \E u : Outcome(u, r, c)
        BY <1>1, <1>3, <2>2, <2>4, RedirectedOutcome
  <2> QED BY <2>1, <2>3, <2>4
<1>12. CASE /\ ~r.malformed /\ r.status \div 100 \notin {1, 2, 3}
            /\ ReceiveErrorStatus(s, c, r)
  <2> DEFINE b == s.retried /\ s.status \div 100 = 4
             t == [s EXCEPT !.retried = b]
             u == ReceiverReady(t, r)
  <2>1. /\ conn' = c
        /\ IF s.body_receiver # Null THEN ReceivedHeaders(Failed(t), "errno")
           ELSE stream' = u /\ pc' = "drain" /\ UNCHANGED err
    <3>1. t = [s EXCEPT !.retried = @ /\ s.status \div 100 = 4]
          OBVIOUS
    <3> QED BY <1>12, <3>1 DEF ReceiveErrorStatus
  <2>2. b \in BOOLEAN
        OBVIOUS
  <2> HIDE DEF b
  <2>3. Parsed(t, r) /\ t.body_receiver = stream.body_receiver
        BY <1>4, <2>2, RetriedParsed
  <2> HIDE DEF t
  <2>4. Parsed(u, r) /\ HasReceiver(u, r)
        BY <1>3, <2>3, ReadyParsed
  <2> HIDE DEF u
  <2>5. CASE s.body_receiver # Null
        BY <1>7, <2>1, <2>3, <2>5
  <2>6. CASE s.body_receiver = Null
        BY <1>8, <1>12, <2>1, <2>4, <2>6 DEF Drains
  <2> QED BY <2>5, <2>6
<1> QED BY <1>2, <1>9, <1>10, <1>11, <1>12

\* Receiving a final response keeps TInv: a redirect forgets the challenge
\* of the server it leaves.
LEMMA ResponseTypes ==
    ASSUME TInv, ReceiveResponse
    PROVE  TInv'
<1> DEFINE r == Head(conn.wire)
           c == TakenFrom(conn, r)
<1>1. asked' \in BOOLEAN /\ UNCHANGED <<job, app>> /\ \E t : Outcome(t, r, c)
      BY ResponseCases
<1> HIDE DEF r, c
<1>2. PICK t : Outcome(t, r, c)
      BY <1>1
<1>3. /\ t \in StreamRec /\ t.out_buffer = stream.out_buffer /\ conn' \in ConnRec
      /\ Permitted(t, conn', asked')
      /\ \/ \E e \in Errors : ReceivedHeaders(t, e)
         \/ stream' = t /\ pc' = "drain" /\ UNCHANGED err
      BY <1>2 DEF Outcome, Carried, GivesUp, Moves, Succeeds, Drains, Errors
<1>4. CASE \E e \in Errors : ReceivedHeaders(t, e)
      BY <1>1, <1>3, <1>4, ReceivedTypes
<1>5. CASE stream' = t /\ pc' = "drain" /\ UNCHANGED err
      BY <1>1, <1>3, <1>5, TBasics, GeneralTypes DEF Steps
<1> QED BY <1>3, <1>4, <1>5

\* What is left of a body is a Boolean.
LEMMA UnreadFacts == \A kind : UnreadAtEnd(kind) \subseteq BOOLEAN
BY DEF UnreadAtEnd

\* The stream whose error body cannot be read.
LEMMA GivenUpFacts ==
    ASSUME NEW s \in StreamRec, NEW t, t = [Failed(s) EXCEPT !.body_receiver = Null]
    PROVE  /\ t \in StreamRec /\ ~t.keep_connection /\ t.body_receiver = Null
           /\ t.url = s.url /\ t.auth_type = s.auth_type
           /\ t.out_buffer = s.out_buffer /\ t.status = s.status
           /\ t.chunked_sending = s.chunked_sending
           /\ t.user_headers = s.user_headers /\ t.should_retry = s.should_retry
<1> DEFINE f == Failed(s)
<1>1. /\ f \in StreamRec /\ ~f.keep_connection /\ f.url = s.url
      /\ f.auth_type = s.auth_type /\ f.out_buffer = s.out_buffer
      /\ f.status = s.status /\ f.chunked_sending = s.chunked_sending
      /\ f.user_headers = s.user_headers /\ f.should_retry = s.should_retry
      BY FailedFacts
<1> HIDE DEF f
<1>2. t = [f EXCEPT !.body_receiver = Null]
      BY DEF f
<1> QED BY <1>1, <1>2 DEF StreamRec

\* Reading the body of an error response keeps TInv.
LEMMA DrainTypes ==
    ASSUME TInv, DrainErrorBody
    PROVE  TInv'
<1> DEFINE t == ReceiverClosed(stream)
           u == [Failed(stream) EXCEPT !.body_receiver = Null]
<1>1. \/ /\ \E unread \in UnreadAtEnd(stream.body_receiver) :
               conn' = Exchanged(conn, unread)
         /\ ReceivedHeaders(t, "http")
      \/ ReceivedHeaders(u, "errno") /\ UNCHANGED conn
      BY DEF DrainErrorBody
<1>2. UNCHANGED <<job, app, asked>> /\ "http" \in Errors /\ "errno" \in Errors
      BY DEF DrainErrorBody, Errors
<1>3. /\ t \in StreamRec /\ t.url = stream.url /\ t.auth_type = stream.auth_type
      /\ t.out_buffer = stream.out_buffer
      BY TBasics, ReceiverClosedFacts
<1>4. /\ u \in StreamRec /\ u.url = stream.url /\ u.auth_type = stream.auth_type
      /\ u.out_buffer = stream.out_buffer
      BY TBasics, GivenUpFacts
<1> HIDE DEF t, u
<1>5. SameServer(conn', conn)
      BY <1>1, TBasics, ExchangedFacts, SameConn, UnreadFacts
<1>6. conn' \in ConnRec /\ Permitted(t, conn', asked) /\ Permitted(u, conn', asked)
      BY <1>3, <1>4, <1>5, StillPermitted
<1> QED BY <1>1, <1>2, <1>3, <1>4, <1>6, TBasics, ReceivedTypes

\* avs_stream_read keeps TInv.
LEMMA ReadTypes ==
    ASSUME TInv, Read
    PROVE  TInv'
<1> DEFINE t == ReceiverClosed(stream)
<1>1. /\ t \in StreamRec /\ t.url = stream.url /\ t.auth_type = stream.auth_type
      /\ t.out_buffer = stream.out_buffer
      BY TBasics, ReceiverClosedFacts
<1>2. /\ stream' \in {stream, t} /\ phase' \in {"sending", "failed"}
      /\ written' \in {0, written} /\ header' \in {FALSE, header}
      /\ UNCHANGED <<pc, job, err, asked>>
      BY DEF Read
<1>3. \/ UNCHANGED conn
      \/ \E unread \in UnreadAtEnd(stream.body_receiver) : conn' = Exchanged(conn, unread)
      BY DEF Read
<1> HIDE DEF t
<1>4. SameServer(conn', conn)
      BY <1>3, TBasics, ExchangedFacts, SameConn, UnreadFacts
<1>5. 0 \in 0 .. MaxBody
      BY SMT, HttpAssumption
<1>6. /\ stream' \in StreamRec /\ Len(stream'.out_buffer) <= BodySend
      /\ stream'.url = stream.url /\ stream'.auth_type = stream.auth_type
      BY <1>1, <1>2, TBasics
<1>7. /\ job' \in JobRec /\ (~job'.buffered => job'.rest = <<>>)
      /\ pc' \in Steps /\ err' \in Errors
      /\ phase' \in {"sending", "receiving", "failed"}
      /\ written' \in 0 .. MaxBody /\ header' \in BOOLEAN
      BY <1>2, <1>5, TBasics
<1> QED BY <1>2, <1>4, <1>6, <1>7, StreamTypes

\* The stream that http_reset leaves.
LEMMA ResetFacts ==
    ASSUME NEW s \in StreamRec, NEW keep \in BOOLEAN, NEW b \in BOOLEAN
    PROVE  /\ ResetStream(s, keep, b) \in StreamRec
           /\ ResetStream(s, keep, b).keep_connection = keep
           /\ ResetStream(s, keep, b).url = s.url
           /\ ResetStream(s, keep, b).auth_type = s.auth_type
           /\ ResetStream(s, keep, b).out_buffer = <<>>
           /\ ~ResetStream(s, keep, b).chunked_sending
           /\ ResetStream(s, keep, b).body_receiver = Null
           /\ ~ResetStream(s, keep, b).user_headers
           /\ ~ResetStream(s, keep, b).should_retry
<1> DEFINE t == ResetStream(s, keep, b)
<1>1. t = [s EXCEPT !.chunked_sending = FALSE, !.no_expect = FALSE,
              !.should_retry = FALSE, !.keep_connection = keep,
              !.close_handling_required = b,
              !.body_receiver = Null, !.out_buffer = <<>>, !.status = 0,
              !.user_headers = FALSE]
      BY DEF ResetStream
<1> SUFFICES /\ t \in StreamRec /\ t.keep_connection = keep /\ t.url = s.url
             /\ t.auth_type = s.auth_type /\ t.out_buffer = <<>> /\ ~t.chunked_sending
             /\ t.body_receiver = Null /\ ~t.user_headers /\ ~t.should_retry
    OBVIOUS
<1> HIDE DEF t
<1>2. 0 \in Statuses /\ <<>> \in Data
      BY SMT DEF Statuses, Data
<1>3. /\ t.keep_connection = keep /\ t.url = s.url
      /\ t.auth_type = s.auth_type /\ t.out_buffer = <<>> /\ ~t.chunked_sending
      /\ t.body_receiver = Null /\ ~t.user_headers /\ ~t.should_retry
      BY <1>1 DEF StreamRec
<1> DEFINE a == [s EXCEPT !.chunked_sending = FALSE, !.no_expect = FALSE,
                          !.should_retry = FALSE, !.keep_connection = keep,
                          !.close_handling_required = b]
<1>4. a \in StreamRec
      BY DEF StreamRec
<1>5. t = [a EXCEPT !.body_receiver = Null, !.out_buffer = <<>>, !.status = 0,
                    !.user_headers = FALSE]
      BY <1>1 DEF StreamRec
<1> HIDE DEF a
<1>6. t \in StreamRec
      BY <1>2, <1>4, <1>5 DEF StreamRec
<1> QED BY <1>3, <1>6

\* http_reset keeps the connection only when the body could be discarded.
ResetCase(keep) ==
    \/ /\ keep => stream.keep_connection /\ ~stream.chunked_sending
                  /\ stream.body_receiver = Null
       /\ UNCHANGED conn
    \/ /\ keep /\ stream.keep_connection /\ ~stream.chunked_sending
       /\ stream.body_receiver # Null /\ BodyCanEnd
       /\ \E unread \in UnreadAtEnd(stream.body_receiver) :
             conn' = Exchanged(conn, unread)

\* Every reset is one of the two cases.
LEMMA ResetCases ==
    ASSUME TInv, Reset
    PROVE  \E keep \in BOOLEAN : \E b \in BOOLEAN :
               stream' = ResetStream(stream, keep, b) /\ ResetCase(keep)
<1> DEFINE keep == stream.keep_connection /\ ~stream.chunked_sending
           receiving == stream.body_receiver # Null
<1>0. keep \in BOOLEAN /\ FALSE \in BOOLEAN /\ TRUE \in BOOLEAN
      OBVIOUS
<1>1. CASE ~(keep /\ receiving) /\ stream' = ResetStream(stream, keep, FALSE) /\ UNCHANGED conn
  <2>1. ResetCase(keep)
        BY <1>1, TBasics DEF ResetCase, StreamRec
  <2> QED BY <1>0, <1>1, <2>1
<1>2. CASE /\ keep /\ receiving /\ BodyCanEnd
           /\ stream' = ResetStream(stream, TRUE, TRUE)
           /\ \E unread \in UnreadAtEnd(stream.body_receiver) :
                 conn' = Exchanged(conn, unread)
  <2>1. ResetCase(TRUE)
        BY <1>2 DEF ResetCase
  <2> QED BY <1>0, <1>2, <2>1
<1>3. CASE /\ keep /\ receiving /\ stream' = ResetStream(stream, FALSE, FALSE)
           /\ UNCHANGED conn
  <2>1. ResetCase(FALSE)
        BY <1>3 DEF ResetCase
  <2> QED BY <1>0, <1>3, <2>1
<1> QED BY <1>1, <1>2, <1>3 DEF Reset

\* avs_stream_reset keeps TInv.
LEMMA ResetTypes ==
    ASSUME TInv, Reset
    PROVE  TInv'
<1>1. PICK keep \in BOOLEAN : \E b \in BOOLEAN :
          stream' = ResetStream(stream, keep, b) /\ ResetCase(keep)
      BY ResetCases
<1>2. PICK b \in BOOLEAN : stream' = ResetStream(stream, keep, b) /\ ResetCase(keep)
      BY <1>1
<1>3. /\ stream' \in StreamRec /\ stream'.url = stream.url
      /\ stream'.auth_type = stream.auth_type /\ stream'.out_buffer = <<>>
  <2>1. stream \in StreamRec
        BY TBasics
  <2> QED BY <1>2, <2>1, ResetFacts
<1>4. SameServer(conn', conn)
      BY <1>2, TBasics, ExchangedFacts, SameConn, UnreadFacts DEF ResetCase
<1>5. Len(stream'.out_buffer) <= BodySend /\ 0 \in 0 .. MaxBody
      BY SMT, <1>3, HttpAssumption
<1>6. /\ phase' = "sending" /\ written' = 0 /\ header' = FALSE
      /\ UNCHANGED <<pc, job, err, asked>>
      BY DEF Reset
<1>7. /\ job' \in JobRec /\ (~job'.buffered => job'.rest = <<>>)
      /\ pc' \in Steps /\ err' \in Errors
      BY <1>6, TBasics
<1> QED BY <1>3, <1>4, <1>5, <1>6, <1>7, StreamTypes

\* The stream avs_http_open_stream returns.
LEMMA NewStreamFacts ==
    /\ NewStream \in StreamRec /\ NewStream.url = FirstURL
    /\ NewStream.out_buffer = <<>> /\ NewStream.body_receiver = Null
    /\ ~NewStream.chunked_sending /\ ~NewStream.should_retry
    /\ ~NewStream.user_headers
    /\ NewStream.auth_type # "NONE" => Https(FirstURL)
<1> DEFINE a == StartAuth("NONE", FirstURL)
<1>1. a \in {"NONE", "KNOWN"} /\ (a # "NONE" => Https(FirstURL))
      BY DEF StartAuth
<1>2. NewStream =
          [chunked_sending |-> FALSE, keep_connection |-> TRUE, no_expect |-> FALSE,
           should_retry |-> FALSE, close_handling_required |-> FALSE,
           auth_type |-> a, retried |-> FALSE,
           redirect_count |-> 0, status |-> 0, url |-> FirstURL,
           user_headers |-> FALSE, body_receiver |-> Null, out_buffer |-> <<>>]
      BY DEF NewStream
<1> HIDE DEF a
<1>3. 0 \in Statuses /\ 0 \in Counts /\ <<>> \in Data /\ FirstURL \in URLs
      BY SMT, HttpAssumption DEF Statuses, Counts, Data
<1> QED BY <1>1, <1>2, <1>3 DEF StreamRec

\* A stream just opened, whoever it was before.
LEMMA NewTypes ==
    /\ NewStream \in StreamRec /\ Len(NewStream.out_buffer) <= BodySend
    /\ NewConn(FirstURL) \in ConnRec /\ NewConn(FirstURL).url = NewStream.url
    /\ Permitted(NewStream, NewConn(FirstURL), FALSE)
    /\ 0 \in 0 .. MaxBody
<1>1. FirstURL \in URLs /\ BodySend \in Nat /\ MaxBody \in Nat
      BY HttpAssumption
<1>2. /\ NewConn(FirstURL) \in ConnRec /\ NewConn(FirstURL).url = FirstURL
      /\ ~NewConn(FirstURL).authorised
      BY <1>1, NewConnFacts
<1> QED BY SMT, <1>1, <1>2, NewStreamFacts DEF Permitted

\* Closing the stream and opening another keeps TInv.
LEMMA ReopenTypes ==
    ASSUME TInv, Reopen
    PROVE  TInv'
BY TBasics, NewTypes DEF TInv, Reopen, Permitted

\* TInv holds at first.
LEMMA InitTypes == Init => TInv
<1> SUFFICES ASSUME Init PROVE TInv
    OBVIOUS
<1>1. job \in JobRec /\ (~job.buffered => job.rest = <<>>)
      BY SMT DEF Init, NoJob, JobRec, Data
<1>2. pc \in Steps /\ err \in Errors
      BY DEF Init, Steps, Errors
<1> QED BY <1>1, <1>2, NewTypes DEF TInv, Init, Permitted

\* A retry without a reset keeps TInv.
LEMMA RetryWithoutResetTypes ==
    ASSUME TInv, RetryWithoutReset
    PROVE  TInv'
<1>1. 0 \in 0 .. MaxBody
      BY SMT, HttpAssumption
<1> QED BY <1>1 DEF TInv, RetryWithoutReset

\* Every step keeps TInv.
LEMMA NextTypes == TInv /\ [Next]_vars => TInv'
<1> SUFFICES ASSUME TInv, [Next]_vars PROVE TInv'
    OBVIOUS
<1>1. CASE Client
      BY <1>1, ReturnBlockTypes, PrepareTypes, SendHeadersTypes, SendChunkTypes,
         ReceiveFailsTypes, InformationalTypes, ResponseTypes, DrainTypes
      DEF Client
<1>2. CASE Application
      BY <1>2, WriteTypes, FinishTypes, AddHeaderTypes, ReadTypes, ResetTypes,
         ReopenTypes, RetryWithoutResetTypes DEF Application
<1>3. CASE Server
      BY <1>3, ServerTypes
<1>4. CASE UNCHANGED vars
      BY <1>4 DEF TInv, vars
<1> QED BY <1>1, <1>2, <1>3, <1>4 DEF Next

\* The stream, the connection and the block in progress have their types,
\* out_buffer never holds more than body_send, and the stream and its
\* connection are at the same server, whatever the servers answer.
THEOREM TypesHold == Spec => []TInv
BY InitTypes, NextTypes, PTL DEF Spec

\* Authorization goes to a plain http server only after that server asked for it,
\* whatever the servers answer and however often the application retries.
THEOREM CredentialsGuarded == Spec => []CredentialsOnlyWhenAsked
<1>1. TInv => CredentialsOnlyWhenAsked
      BY DEF TInv, CredentialsOnlyWhenAsked
<1> QED BY <1>1, TypesHold, PTL

\* TInv contains the type invariant the runs check.
LEMMA TypeOKFollows == TInv => TypeOK
<1> SUFFICES ASSUME TInv PROVE TypeOK
    OBVIOUS
<1>1. \A f \in Flags : stream[f] \in BOOLEAN
      BY TBasics DEF Flags, StreamRec
<1>2. /\ stream.auth_type \in {"NONE", "KNOWN"}
      /\ stream.redirect_count \in 0 .. HTTP_MOVE_LIMIT + 1
      /\ stream.status \in 0 .. 599
      /\ stream.url \in URLs
      /\ stream.body_receiver \in {Null, "length", "chunked", "identity", "gzip"}
      /\ stream.out_buffer \in Seq(1 .. MaxBody)
      BY TBasics DEF StreamRec, Counts, Statuses, Data, Framings
<1>3. /\ conn.url \in URLs /\ conn.body \in Seq(1 .. MaxBody)
      /\ conn.request \in {"none", "headers", "complete", "broken"}
      BY TBasics DEF ConnRec, Data
<1>4. job.call \in {"none", "simple", "first", "chunked"}
      BY TBasics DEF JobRec
<1> QED BY <1>1, <1>2, <1>3, <1>4, TBasics DEF TypeOK, Steps

------------------------------------------------------------------------------
(***************************************************************************)
(* HttpStream delivers what the application wrote: CleanBeforeRequest,     *)
(* RequestsIntact and StreamConsistent for streams and servers of any      *)
(* size, on the assumptions of Orderly.                                    *)
(*                                                                         *)
(* The inductive invariant JInv says, for every step the client can be at, *)
(* which part of the request the server has: none (Ready), the units       *)
(* before the block being sent (InRequest), or all (Whole); and that the   *)
(* rest is in the buffer or in the job.  It needs the types of TInv.       *)
(***************************************************************************)

\* The streams and servers of the theorems: a send fails only on a closed
\* connection, the application resets a stream whose call failed, the only
\* informational response is 100, bodies are not compressed, and a response
\* that does not wait for the request is no success.
Orderly ==
    /\ ~SendsFail /\ ResetsOnError
    /\ Informational \subseteq {100}
    /\ \A r \in Responses : r.framing # "gzip"
    /\ \A r \in EarlyResponses : r.status \div 100 # 2

\* Consecutive units, from FIRST on.
Run(q, first) == q = Units(first, Len(q))

\* The connection once the body of a response has been read.
Drained(c) == [c EXCEPT !.unread = FALSE]

\* The connection can be used once the body being received has been read,
\* unless it is not to be kept.
Ready(s, c) ==
    /\ s.keep_connection =>
        c.up /\ Reusable(IF s.body_receiver = Null THEN c ELSE Drained(c))
    /\ s.body_receiver = "identity" => ~s.keep_connection

\* No response on its way is a success.
NoSuccess(c) == \A i \in 1 .. Len(c.wire) : c.wire[i].status \div 100 # 2

\* A final response is the last one on its way, and then the server has
\* answered.
WireInv(c) ==
    /\ \A i \in 1 .. Len(c.wire) - 1 : c.wire[i] \in Inform
    /\ ~c.answered => \A i \in 1 .. Len(c.wire) : c.wire[i] \in Inform

\* The server has the whole request: n units, and its header.
Delivered(c, n, h) == c.request = "complete" /\ c.body = Units(1, n) /\ c.header = h

\* The server, if it is still there, is in a chunked request and has its
\* first n units.
InRequest(c, n, h) ==
    /\ c.up /\ NoSuccess(c)
    /\ c.peer => c.request = "headers" /\ c.body = Units(1, n) /\ c.header = h

\* A server that is still there, or has answered with success, has it all.
Whole(c, n, h) == c.up /\ (c.peer \/ ~NoSuccess(c) => Delivered(c, n, h))

\* The block being sent and the rest of the write are what follows the first
\* n units, up to the last one written.
Payload(j, s, n, w) ==
    /\ n \in Nat
    /\ Run(j.data, n + 1) /\ Run(j.rest, n + 1 + Len(j.data))
    /\ n + Len(j.data) + Len(j.rest) = w
    /\ s.out_buffer = IF j.buffered THEN j.data ELSE <<>>

\* The request can be sent from its beginning.
Again(j, s, w, h) == Payload(j, s, 0, w) /\ s.user_headers = h

-----------------------------------------------------------------------------
(* What holds at each step; p, e, s, c, j, w, h stand for phase, err,      *)
(* stream, conn, job, written and header.                                  *)

\* Between calls in a chunked request: the server has the units that are not
\* in the buffer.
ChunkedInv(s, c, w, h) ==
    /\ s.body_receiver = Null /\ ~s.user_headers /\ ~s.should_retry /\ w > 0
    /\ Len(s.out_buffer) <= w
    /\ Run(s.out_buffer, w - Len(s.out_buffer) + 1)
    /\ InRequest(c, w - Len(s.out_buffer), h)

\* Before anything was sent: the buffer has all units.
BufferedInv(s, c, w, h) ==
    s.out_buffer = Units(1, w) /\ s.user_headers = h /\ Ready(s, c)

\* After avs_stream_finish_message succeeded.
ReceivingInv(s, c, w, h) ==
    /\ s.body_receiver # Null /\ ~s.chunked_sending /\ ~s.should_retry
    /\ s.out_buffer = <<>> /\ ~s.user_headers
    /\ Ready(s, c) /\ Delivered(c, w, h)

\* Between calls.
AppInv(p, s, c, w, h) ==
    /\ p = "sending" /\ s.chunked_sending => ChunkedInv(s, c, w, h)
    /\ p = "sending" /\ ~s.chunked_sending => BufferedInv(s, c, w, h)
    /\ p = "receiving" => ReceivingInv(s, c, w, h)
    /\ p = "failed" /\ ~s.chunked_sending => Ready(s, c)

\* During a block.
JobInv(p, j, w) ==
    /\ j.call # "none" /\ p = "sending"
    /\ j.call = "simple" => j.finished
    /\ j.call = "first" => ~j.finished
    /\ j.call # "simple" => w > 0
    /\ j.finished => j.buffered /\ j.rest = <<>>

\* Before the headers: the whole request is still here.
PrepareInv(s, c, j, w, h) ==
    /\ j.call \in {"simple", "first"} /\ s.chunked_sending = (j.call = "first")
    /\ Again(j, s, w, h) /\ Ready(s, c)

\* There is no receiver while a request is sent.
Sending(s) == s.body_receiver = Null /\ ~s.should_retry

\* The connection is clean.
SendInv(s, c, j, w, h) ==
    /\ PrepareInv(s, c, j, w, h) /\ Sending(s)
    /\ c.up /\ Reusable(c)

\* Before a chunk, and before the last one.
ChunkInv(s, c, j, w, h) ==
    /\ j.call \in {"first", "chunked"} /\ s.chunked_sending /\ Sending(s)
    /\ j.data # <<>>
    /\ Payload(j, s, w - Len(j.data) - Len(j.rest), w)
    /\ InRequest(c, w - Len(j.data) - Len(j.rest), h)
    /\ IF j.call = "first" THEN Again(j, s, w, h) ELSE ~s.user_headers

LastInv(s, c, j, w, h) ==
    /\ j.call = "chunked" /\ j.finished /\ s.chunked_sending /\ Sending(s)
    /\ ~s.user_headers /\ InRequest(c, w, h)

\* What another attempt would need: the headers and the content, or, in the
\* middle of a chunked request, nothing, for there is no other attempt.
HeadersFor(s, j, w, h) ==
    IF j.call = "chunked" THEN ~s.user_headers ELSE Again(j, s, w, h)

\* Waiting for 100 Continue, or for the final response.
ReceiveInv(s, c, j, w, h) ==
    /\ Sending(s) /\ s.chunked_sending = (j.call = "first")
    /\ HeadersFor(s, j, w, h)
    /\ IF j.call = "first" THEN InRequest(c, 0, h) ELSE j.finished /\ Whole(c, w, h)

\* Reading the body of an error response.
DrainInv(s, c, j, w, h) ==
    /\ s.body_receiver # Null /\ ~s.should_retry
    /\ s.status \div 100 \notin {1, 2, 3}
    /\ s.chunked_sending = (j.call = "first")
    /\ HeadersFor(s, j, w, h) /\ Ready(s, c)

\* A call that succeeds: at the end of a request, and in the middle of one.
EndedInv(s, c, w, h) ==
    /\ s.body_receiver # Null /\ ~s.chunked_sending
    /\ Ready(s, c) /\ Delivered(c, w, h)

UnendedInv(s, c, j, w, h) ==
    /\ s.body_receiver = Null /\ s.chunked_sending
    /\ Len(j.rest) <= w /\ Run(j.rest, w - Len(j.rest) + 1)
    /\ InRequest(c, w - Len(j.rest), h)
    /\ ~j.buffered => s.out_buffer = <<>>

\* Before the call returns.
ReturnInv(e, s, c, j, w, h) ==
    /\ e # "ok" /\ ~s.chunked_sending => Ready(s, c)
    /\ e = "ok" =>
        /\ ~s.should_retry /\ (j.call = "chunked" => ~s.user_headers)
        /\ IF j.finished THEN EndedInv(s, c, w, h) ELSE UnendedInv(s, c, j, w, h)

\* All of them.
PcInv(x, p, e, s, c, j, w, h) ==
    /\ x = "app" => AppInv(p, s, c, w, h)
    /\ x # "app" => JobInv(p, j, w)
    /\ x = "prepare" => PrepareInv(s, c, j, w, h)
    /\ x = "send" => SendInv(s, c, j, w, h)
    /\ x = "chunk" => ChunkInv(s, c, j, w, h)
    /\ x = "last" => LastInv(s, c, j, w, h)
    /\ x = "receive" => ReceiveInv(s, c, j, w, h)
    /\ x = "drain" => DrainInv(s, c, j, w, h)
    /\ x = "return" => ReturnInv(e, s, c, j, w, h)

\* The inductive invariant.
JInv ==
    /\ stream.body_receiver # "gzip" /\ WireInv(conn)
    /\ PcInv(pc, phase, err, stream, conn, job, written, header)

\* Zenon proves most steps; those with arithmetic or sequences name SMT.

-----------------------------------------------------------------------------
(* Units.                                                                  *)

\* No units.
LEMMA EmptyUnits ==
    ASSUME NEW a \in Nat
    PROVE  Units(a, 0) = <<>> /\ Run(<<>>, a)
<1>1. Len(Units(a, 0)) = 0 /\ DOMAIN Units(a, 0) = 1 .. 0
      BY SMT, UnitsFacts
<1>2. Units(a, 0) = <<>>
      BY SMT, <1>1 DEF Units
<1> QED BY SMT, <1>2 DEF Run

\* The units of one stretch, and of the next.
LEMMA UnitsConcat ==
    ASSUME NEW a \in Nat, NEW n \in Nat, NEW m \in Nat
    PROVE  Units(a, n) \o Units(a + n, m) = Units(a, n + m)
<1> DEFINE q == Units(a, n)
           r == Units(a + n, m)
           u == Units(a, n + m)
<1>1. /\ q \in Seq(Int) /\ Len(q) = n /\ \A i \in 1 .. n : q[i] = a + i - 1
      BY SMT DEF Units
<1>2. /\ r \in Seq(Int) /\ Len(r) = m /\ \A i \in 1 .. m : r[i] = a + n + i - 1
      BY SMT DEF Units
<1>3. /\ u \in Seq(Int) /\ Len(u) = n + m /\ \A i \in 1 .. n + m : u[i] = a + i - 1
      BY SMT DEF Units
<1> SUFFICES q \o r = u
    OBVIOUS
<1> HIDE DEF q, r, u
<1>4. /\ q \o r \in Seq(Int) /\ Len(q \o r) = Len(q) + Len(r)
      /\ \A i \in 1 .. Len(q) + Len(r) :
            (q \o r)[i] = IF i <= Len(q) THEN q[i] ELSE r[i - Len(q)]
      BY <1>1, <1>2, ConcatProperties
<1>5. Len(q \o r) = Len(u)
      BY <1>1, <1>2, <1>3, <1>4
<1>6. ASSUME NEW i \in 1 .. Len(q \o r)
      PROVE  (q \o r)[i] = u[i]
  <2>1. i \in 1 .. n + m
        BY <1>1, <1>2, <1>4
  <2>2. CASE i <= n
        BY SMTT(30), <1>1, <1>2, <1>3, <1>4, <2>1, <2>2
  <2>3. CASE ~(i <= n)
    <3>1. i - n \in 1 .. m
          BY SMT, <2>1, <2>3
    <3>2. (q \o r)[i] = r[i - n] /\ r[i - n] = a + n + (i - n) - 1 /\ u[i] = a + i - 1
          BY <1>1, <1>2, <1>3, <1>4, <2>1, <2>3, <3>1
    <3> QED BY SMT, <2>1, <3>2
  <2> QED BY <2>2, <2>3
<1> QED BY <1>3, <1>4, <1>5, <1>6, SeqEqual

\* Two runs, the second starting where the first ends, are one.
LEMMA RunConcat ==
    ASSUME NEW q \in Data, NEW r \in Data, NEW a \in Nat,
           Run(q, a), Run(r, a + Len(q))
    PROVE  /\ q \o r = Units(a, Len(q) + Len(r)) /\ Len(q \o r) = Len(q) + Len(r)
           /\ Run(q \o r, a)
<1>1. Len(q) \in Nat /\ Len(r) \in Nat /\ Len(q \o r) = Len(q) + Len(r)
      BY SMT DEF Data
<1>2. q \o r = Units(a, Len(q) + Len(r))
      BY <1>1, UnitsConcat DEF Run
<1> QED BY <1>1, <1>2 DEF Run

\* The block written now is a run.
LEMMA RunUnits ==
    ASSUME NEW a \in Nat, NEW n \in Nat
    PROVE  Run(Units(a, n), a) /\ Len(Units(a, n)) = n
BY UnitsFacts DEF Run

-----------------------------------------------------------------------------
(* The server.                                                             *)

\* The fields of a connection that a server's response does not touch.
SameExchange(c2, c) ==
    /\ c2.up = c.up /\ c2.request = c.request /\ c2.body = c.body
    /\ c2.header = c.header /\ c2.unread = c.unread

\* What a step of the server does to the connection.
LEMMA ServerCases ==
    ASSUME TInv, Server
    PROVE  /\ UNCHANGED <<stream, pc, job, err, phase, written, header, asked>>
           /\ conn.peer /\ SameExchange(conn', conn)
           /\ \/ /\ conn'.peer = FALSE /\ conn'.wire = conn.wire
                 /\ conn'.answered = conn.answered
              \/ /\ ~conn.answered /\ conn.request \in {"headers", "complete"}
                 /\ conn'.peer = conn.peer
                 /\ \/ /\ conn'.answered = conn.answered
                       /\ \E r \in Inform : conn'.wire = Append(conn.wire, r)
                    \/ /\ conn'.answered = TRUE
                       /\ \E r \in Responses :
                            /\ conn'.wire = Append(conn.wire, r)
                            /\ conn.request = "headers" => r \in EarlyResponses
<1>1. ASSUME NEW status \in Informational, ServerInforms(status)
      PROVE  /\ conn.peer /\ SameExchange(conn', conn) /\ ~conn.answered
             /\ conn.request \in {"headers", "complete"} /\ conn'.peer = conn.peer
             /\ conn'.answered = conn.answered
             /\ \E r \in Inform : conn'.wire = Append(conn.wire, r)
  <2>1. [status |-> status] \in Inform
        BY DEF Inform
  <2> QED BY <1>1, <2>1, TBasics DEF ServerInforms, SameExchange, ConnRec
<1>2. ASSUME NEW r \in Responses, ServerAnswers(r)
      PROVE  /\ conn.peer /\ SameExchange(conn', conn) /\ ~conn.answered
             /\ conn.request \in {"headers", "complete"} /\ conn'.peer = conn.peer
             /\ conn'.answered = TRUE /\ conn'.wire = Append(conn.wire, r)
             /\ conn.request = "headers" => r \in EarlyResponses
      BY <1>2, TBasics DEF ServerAnswers, SameExchange, ConnRec
<1>3. CASE ServerCloses
  <2>1. /\ conn.peer /\ SameExchange(conn', conn) /\ conn'.peer = FALSE
        /\ conn'.wire = conn.wire /\ conn'.answered = conn.answered
        BY <1>3, TBasics DEF ServerCloses, SameExchange, ConnRec
  <2>2. UNCHANGED <<stream, pc, job, err, phase, written, header, asked>>
        BY <1>3 DEF ServerCloses, app
  <2> QED BY <2>1, <2>2
<1>4. UNCHANGED <<stream, pc, job, err, phase, written, header, asked>>
      BY DEF Server, ServerInforms, ServerAnswers, ServerCloses, app
<1>5. CASE \E status \in Informational : ServerInforms(status)
      BY <1>1, <1>4, <1>5
<1>6. CASE \E r \in Responses : ServerAnswers(r)
      BY <1>2, <1>4, <1>6
<1> QED BY <1>3, <1>5, <1>6 DEF Server

\* The elements of a sequence with one more at its end.
LEMMA AppendFacts ==
    ASSUME NEW S, NEW q \in Seq(S), NEW r \in S
    PROVE  /\ Len(q) \in Nat /\ Len(Append(q, r)) = Len(q) + 1
           /\ \A i \in 1 .. Len(q) : Append(q, r)[i] = q[i]
           /\ Append(q, r)[Len(q) + 1] = r
BY SMT

\* Final and informational responses are told apart by their status.
LEMMA StatusClass ==
    /\ \A r \in Inform : r.status \div 100 = 1
    /\ \A r \in Responses : r.status \div 100 # 1
<1>1. \A r \in Inform : r.status \div 100 = 1
  <2> SUFFICES ASSUME NEW r \in Inform PROVE r.status \div 100 = 1
      OBVIOUS
  <2>1. r.status \in 100 .. 199
        BY HttpAssumption DEF Inform
  <2>2. r.status \in 0 .. 599
        BY SMT, <2>1
  <2> QED BY <2>1, <2>2, ClassFacts
<1>2. \A r \in Responses : r.status \div 100 # 1
      BY ResponseAssumption
<1> QED BY <1>1, <1>2

\* A response on its way changes nothing that the invariant says of the wire.
LEMMA AppendedWire ==
    ASSUME Orderly, NEW c \in ConnRec, NEW d, WireInv(c), ~c.answered,
           NEW r \in Responses \cup Inform, d.wire = Append(c.wire, r),
           r \in Inform \/ d.answered
    PROVE  /\ WireInv(d)
           /\ NoSuccess(c) /\ (r \in Inform \cup EarlyResponses) => NoSuccess(d)
<1> DEFINE q == c.wire
           n == Len(q)
<1>1. q \in Seq(Responses \cup Inform)
      BY DEF ConnRec
<1>2. /\ n \in Nat /\ Len(d.wire) = n + 1 /\ d.wire[n + 1] = r
      /\ \A i \in 1 .. n : d.wire[i] = q[i]
      BY SMT, <1>1, AppendFacts
<1>3. \A i \in 1 .. n : q[i] \in Inform
      BY DEF WireInv
<1> SUFFICES ASSUME TRUE
             PROVE  /\ WireInv(d)
                    /\ (\A i \in 1 .. n : q[i].status \div 100 # 2)
                          /\ (r \in Inform \cup EarlyResponses) => NoSuccess(d)
    BY DEF NoSuccess
<1> HIDE DEF q, n
<1>4. \A i \in 1 .. n + 1 : i \in 1 .. n \/ i = n + 1
      BY SMT, <1>2
<1>5. n + 1 - 1 = n
      BY SMT, <1>2
<1>6. \A i \in 1 .. Len(d.wire) - 1 : d.wire[i] \in Inform
      BY SMTT(30), <1>2, <1>3, <1>5
<1>7. ~d.answered => \A i \in 1 .. Len(d.wire) : d.wire[i] \in Inform
      BY <1>2, <1>3, <1>4
<1>8. r \in Inform \cup EarlyResponses => r.status \div 100 # 2
  <2>1. \A x \in Inform : x.status \div 100 = 1
        BY StatusClass
  <2>2. 1 # 2
        BY SMT
  <2> QED BY <2>1, <2>2 DEF Orderly
<1> QED BY <1>2, <1>4, <1>6, <1>7, <1>8 DEF WireInv, NoSuccess

\* Reading the rest of a body changes nothing else of the connection.
LEMMA DrainedFacts ==
    ASSUME NEW c \in ConnRec
    PROVE  /\ Drained(c) \in ConnRec /\ Drained(c).unread = FALSE
           /\ Drained(c).up = c.up /\ Drained(c).peer = c.peer
           /\ Drained(c).request = c.request /\ Drained(c).body = c.body
           /\ Drained(c).header = c.header /\ Drained(c).answered = c.answered
           /\ Drained(c).wire = c.wire
BY DEF Drained, ConnRec

\* What the server does leaves a connection ready that was, and the request as
\* far as it was received.
LEMMA ServerKeeps ==
    ASSUME Orderly, TInv, TInv', WireInv(conn), Server
    PROVE  /\ WireInv(conn')
           /\ Reusable(conn) => Reusable(conn')
           /\ Reusable(Drained(conn)) => Reusable(Drained(conn'))
           /\ \A n, h : InRequest(conn, n, h) => InRequest(conn', n, h)
           /\ \A n, h : Whole(conn, n, h) => Whole(conn', n, h)
           /\ \A n, h : Delivered(conn, n, h) => Delivered(conn', n, h)
           /\ conn'.up = conn.up
<1>1. conn \in ConnRec /\ conn' \in ConnRec
      BY DEF TInv
<1>2. conn.peer /\ SameExchange(conn', conn)
      BY ServerCases
<1>3. \A n, h : Delivered(conn, n, h) => Delivered(conn', n, h)
      BY <1>2 DEF SameExchange, Delivered
<1>4. \A n, h : Whole(conn, n, h) => Whole(conn', n, h)
      BY <1>2, <1>3 DEF SameExchange, Whole
<1>5. CASE /\ conn'.peer = FALSE /\ conn'.wire = conn.wire
           /\ conn'.answered = conn.answered
  <2>1. WireInv(conn') /\ (NoSuccess(conn) => NoSuccess(conn'))
        BY <1>5 DEF WireInv, NoSuccess
  <2>2. Reusable(conn) => Reusable(conn')
        BY <1>2, <1>5 DEF SameExchange, Reusable
  <2>3. Reusable(Drained(conn)) => Reusable(Drained(conn'))
        BY <1>1, <1>2, <1>5, DrainedFacts DEF SameExchange, Reusable
  <2>4. \A n, h : InRequest(conn, n, h) => InRequest(conn', n, h)
        BY <1>2, <1>5, <2>1 DEF SameExchange, InRequest
  <2> QED BY <1>2, <1>3, <1>4, <2>1, <2>2, <2>3, <2>4 DEF SameExchange
<1>6. CASE /\ ~conn.answered /\ conn.request \in {"headers", "complete"}
           /\ conn'.peer = conn.peer
           /\ \E r \in Responses \cup Inform :
                /\ conn'.wire = Append(conn.wire, r)
                /\ r \in Inform \/ conn'.answered
                /\ conn.request = "headers" => r \in Inform \cup EarlyResponses
  <2>1. PICK r \in Responses \cup Inform :
           /\ conn'.wire = Append(conn.wire, r)
           /\ r \in Inform \/ conn'.answered
           /\ conn.request = "headers" => r \in Inform \cup EarlyResponses
        BY <1>6
  <2>2. /\ WireInv(conn')
        /\ conn.request = "headers" /\ NoSuccess(conn) => NoSuccess(conn')
        BY <1>1, <1>6, <2>1, AppendedWire
  <2>3. ~Reusable(conn) /\ ~Reusable(Drained(conn))
        BY <1>1, <1>2, <1>6, DrainedFacts DEF Reusable
  <2>4. \A n, h : InRequest(conn, n, h) => InRequest(conn', n, h)
        BY <1>2, <1>6, <2>2 DEF SameExchange, InRequest
  <2> QED BY <1>2, <1>3, <1>4, <2>2, <2>3, <2>4 DEF SameExchange
<1> QED BY <1>5, <1>6, ServerCases

\* The server keeps JInv, at every step of the client.
LEMMA ServerJ ==
    ASSUME Orderly, TInv, TInv', JInv, Server
    PROVE  JInv'
<1>1. UNCHANGED <<stream, pc, job, err, phase, written, header>>
      BY ServerCases
<1>2. WireInv(conn) /\ PcInv(pc, phase, err, stream, conn, job, written, header)
      BY DEF JInv
<1> DEFINE d == conn'
<1>3. /\ WireInv(d)
      /\ Reusable(conn) => Reusable(d)
      /\ Reusable(Drained(conn)) => Reusable(Drained(d))
      /\ \A n, h : InRequest(conn, n, h) => InRequest(d, n, h)
      /\ \A n, h : Whole(conn, n, h) => Whole(d, n, h)
      /\ \A n, h : Delivered(conn, n, h) => Delivered(d, n, h)
      /\ d.up = conn.up
      BY <1>2, ServerKeeps
<1>4. Ready(stream, conn) => Ready(stream, d)
      BY <1>3 DEF Ready
<1>5. AppInv(phase, stream, conn, written, header) =>
          AppInv(phase, stream, d, written, header)
      BY <1>3, <1>4 DEF AppInv, ChunkedInv, BufferedInv, ReceivingInv
<1>6. PrepareInv(stream, conn, job, written, header) =>
          PrepareInv(stream, d, job, written, header)
      BY <1>4 DEF PrepareInv
<1>7. SendInv(stream, conn, job, written, header) =>
          SendInv(stream, d, job, written, header)
      BY <1>3, <1>6 DEF SendInv
<1>8. ChunkInv(stream, conn, job, written, header) =>
          ChunkInv(stream, d, job, written, header)
      BY <1>3 DEF ChunkInv
<1>9. LastInv(stream, conn, job, written, header) =>
          LastInv(stream, d, job, written, header)
      BY <1>3 DEF LastInv
<1>10. ReceiveInv(stream, conn, job, written, header) =>
          ReceiveInv(stream, d, job, written, header)
      BY <1>3 DEF ReceiveInv
<1>11. DrainInv(stream, conn, job, written, header) =>
          DrainInv(stream, d, job, written, header)
      BY <1>4 DEF DrainInv
<1>12. ReturnInv(err, stream, conn, job, written, header) =>
          ReturnInv(err, stream, d, job, written, header)
      BY <1>3, <1>4 DEF ReturnInv, EndedInv, UnendedInv
<1>13. PcInv(pc, phase, err, stream, d, job, written, header)
      BY <1>2, <1>5, <1>6, <1>7, <1>8, <1>9, <1>10, <1>11, <1>12 DEF PcInv
<1> QED BY <1>1, <1>3, <1>13 DEF JInv

-----------------------------------------------------------------------------
(* Receiving.                                                              *)

\* Only these two fields decide whether a connection is ready.
LEMMA ReadyFor ==
    ASSUME NEW s, NEW t, NEW c, t.keep_connection = s.keep_connection,
           t.body_receiver = s.body_receiver, Ready(s, c)
    PROVE  Ready(t, c)
BY DEF Ready

\* A connection that is not kept is always ready.
LEMMA NotKeptReady ==
    ASSUME NEW s, NEW c, ~s.keep_connection
    PROVE  Ready(s, c)
BY DEF Ready

\* The request can still be sent after a change that keeps the buffer and the
\* headers.
LEMMA SameHeadersFor ==
    ASSUME NEW s, NEW t, t.out_buffer = s.out_buffer, t.user_headers = s.user_headers,
           NEW j, NEW w, NEW h
    PROVE  /\ HeadersFor(s, j, w, h) => HeadersFor(t, j, w, h)
           /\ Again(j, s, w, h) => Again(j, t, w, h)
           /\ \A n : Payload(j, s, n, w) => Payload(j, t, n, w)
BY DEF HeadersFor, Again, Payload

\* _avs_http_receive_headers fails: the block is sent again, or the call fails.
LEMMA ReceivedFailure ==
    ASSUME TInv, JobInv(phase, job, written), UNCHANGED <<job, app>>,
           NEW t \in StreamRec, NEW e \in Errors \ {"ok"}, ReceivedHeaders(t, e),
           ~(job.call = "first" /\ t.status \div 100 = 1),
           t.body_receiver # "gzip", t.chunked_sending = (job.call = "first"),
           HeadersFor(t, job, written, header), Ready(t, conn'), WireInv(conn')
    PROVE  JInv'
<1>1. stream' \in StreamRec /\ SameButRetry(stream', t)
      BY ReceivedHeadersFacts
<1>2. Ready(stream', conn') /\ HeadersFor(stream', job, written, header)
  <2> DEFINE u == stream'
  <2>1. /\ u.keep_connection = t.keep_connection /\ u.body_receiver = t.body_receiver
        /\ u.out_buffer = t.out_buffer /\ u.user_headers = t.user_headers
        BY <1>1 DEF SameButRetry
  <2> SUFFICES Ready(u, conn') /\ HeadersFor(u, job, written, header)
      OBVIOUS
  <2> HIDE DEF u
  <2> QED BY <2>1, ReadyFor, SameHeadersFor
<1>3. /\ stream'.chunked_sending = (job.call = "first") /\ stream'.body_receiver # "gzip"
      /\ stream'.status = t.status
      BY <1>1 DEF SameButRetry
<1>4. /\ err' = e /\ stream' = UpdateFlags(t, e)
      /\ job.call = "chunked" => pc' = "return"
      /\ job.call # "chunked" => pc' \in {"prepare", "return"}
  <2>1. stream' = UpdateFlags(t, e)
        BY DEF ReceivedHeaders
  <2>2. err' = IF job.call = "first" /\ stream'.status \div 100 = 1 THEN "ok" ELSE e
        BY <2>1 DEF ReceivedHeaders
  <2>3. pc' = IF job.call = "first" /\ (e = "ok" \/ stream'.status \div 100 = 1)
              THEN ChunkStep(job)
              ELSE IF job.call # "chunked" /\ e # "ok" THEN RetryOrReturn(stream')
              ELSE "return"
        BY <2>1 DEF ReceivedHeaders
  <2>4. ~(job.call = "first" /\ (e = "ok" \/ stream'.status \div 100 = 1))
        BY <1>3
  <2>5. pc' = IF job.call # "chunked" THEN RetryOrReturn(stream') ELSE "return"
        BY <2>3, <2>4
  <2> QED BY <1>3, <2>1, <2>2, <2>5 DEF RetryOrReturn
<1>5. JobInv(phase', job', written') /\ UNCHANGED <<job, phase, written, header>>
      BY DEF app
<1>6. CASE pc' = "return"
  <2>1. ReturnInv(err', stream', conn', job', written', header')
        BY <1>2, <1>4 DEF ReturnInv
  <2> QED BY <1>3, <1>5, <1>6, <2>1 DEF JInv, PcInv
<1>7. CASE pc' = "prepare"
  <2>1. job.call \in {"simple", "first"}
        BY <1>4, <1>7, TBasics DEF JobRec, JobInv
  <2>2. PrepareInv(stream', conn', job', written', header')
        BY <1>2, <1>3, <1>5, <2>1 DEF PrepareInv, HeadersFor
  <2> QED BY <1>3, <1>5, <1>7, <2>2 DEF JInv, PcInv
<1> QED BY <1>4, <1>6, <1>7

\* The first block of a chunked request is sent once its headers are through.
LEMMA ContinueFirst ==
    ASSUME TInv, JobInv(phase, job, written), UNCHANGED <<job, app>>,
           job.call = "first", pc' = ChunkStep(job), err' = "ok",
           NEW s, stream' = s, Sending(s), s.chunked_sending,
           Again(job, s, written, header), NEW c, conn' = c,
           InRequest(c, 0, header), WireInv(c)
    PROVE  JInv'
<1>1. JobInv(phase', job', written') /\ UNCHANGED <<job, phase, written, header>>
      BY DEF app
<1>2. /\ job.data \in Data /\ job.rest \in Data /\ ~job.finished
      /\ written \in Nat
  <2>1. written \in Nat
        BY SMT, TBasics, HttpAssumption
  <2> QED BY <2>1, TBasics DEF JobRec, JobInv
<1> DEFINE d == Len(job.data)
           r == Len(job.rest)
<1>3. d \in Nat /\ r \in Nat /\ (job.data = <<>> => d = 0)
      BY SMT, <1>2 DEF Data
<1>4. /\ Payload(job, s, 0, written) /\ Run(job.rest, 0 + 1 + d) /\ 0 + d + r = written
      /\ ~job.buffered => s.out_buffer = <<>>
      BY DEF Again, Payload
<1>5. s.body_receiver = Null /\ s.body_receiver # "gzip" /\ ~s.should_retry
      BY DEF Sending, Null
<1> SUFFICES ASSUME TRUE PROVE PcInv(pc', phase, err', s, c, job, written, header)
    BY <1>1, <1>5 DEF JInv
<1>6. CASE job.data # <<>>
  <2>1. pc' = "chunk"
        BY <1>6 DEF ChunkStep
  <2>2. written - d - r = 0
    <3> HIDE DEF d, r
    <3> QED BY SMT, <1>2, <1>3, <1>4
  <2>3. ChunkInv(s, c, job, written, header)
        BY <1>4, <1>6, <2>2 DEF ChunkInv
  <2> QED BY <1>1, <2>1, <2>3 DEF PcInv
<1>7. CASE job.data = <<>>
  <2>1. pc' = "return"
        BY <1>2, <1>7 DEF ChunkStep
  <2>2. written - r = 0 /\ r <= written /\ written - r + 1 = 0 + 1 + d
    <3> HIDE DEF d, r
    <3> QED BY SMTT(30), <1>2, <1>3, <1>4, <1>7
  <2>3. UnendedInv(s, c, job, written, header)
        BY <1>4, <1>5, <2>2 DEF UnendedInv
  <2>4. ReturnInv("ok", s, c, job, written, header)
        BY <1>2, <1>5, <2>3 DEF ReturnInv
  <2> QED BY <1>1, <2>1, <2>4 DEF PcInv
<1> QED BY <1>6, <1>7

\* What the client waits for.
LEMMA AtReceive ==
    ASSUME JInv, pc = "receive"
    PROVE  /\ JobInv(phase, job, written) /\ WireInv(conn) /\ Sending(stream)
           /\ stream.chunked_sending = (job.call = "first")
           /\ HeadersFor(stream, job, written, header)
           /\ job.call = "first" =>
                InRequest(conn, 0, header) /\ Again(job, stream, written, header)
           /\ job.call # "first" => job.finished /\ Whole(conn, written, header)
BY DEF JInv, PcInv, ReceiveInv, HeadersFor

\* The end of _avs_http_receive_headers, with the flags updated.
LEMMA ReceivedEnd ==
    ASSUME NEW t, NEW e, ReceivedHeaders(t, e), NEW u, u = UpdateFlags(t, e)
    PROVE  /\ stream' = u
           /\ err' = IF job.call = "first" /\ u.status \div 100 = 1 THEN "ok" ELSE e
           /\ job.call = "first" /\ (e = "ok" \/ u.status \div 100 = 1) =>
                pc' = ChunkStep(job)
           /\ job.call # "first" /\ e = "ok" => pc' = "return"
<1>1. /\ stream' = u
      /\ err' = IF job.call = "first" /\ u.status \div 100 = 1 THEN "ok" ELSE e
      /\ pc' = IF job.call = "first" /\ (~(e # "ok") \/ u.status \div 100 = 1)
               THEN ChunkStep(job)
               ELSE IF job.call # "chunked" /\ e # "ok" THEN RetryOrReturn(u)
               ELSE "return"
      BY DEF ReceivedHeaders
<1> QED BY <1>1

\* update_flags_after_receiving_headers asks for nothing after a 1xx status.
LEMMA InformedFlags ==
    ASSUME NEW s, NEW e, s.status \div 100 = 1
    PROVE  UpdateFlags(s, e) = s
<1>1. s.status # 401 /\ s.status # 417 /\ s.status \div 100 # 3
  <2>1. 401 \div 100 = 4 /\ 417 \div 100 = 4 /\ 1 # 3 /\ 1 # 4
        BY SMT
  <2> QED BY SMT, <2>1
<1> QED BY <1>1 DEF UpdateFlags

\* A response that does not come keeps JInv: the connection is dropped.
LEMMA ReceiveFailsJ ==
    ASSUME Orderly, TInv, TInv', JInv, ReceiveFails
    PROVE  JInv'
<1>1. PICK n \in {399, 100} :
          ReceivedHeaders([Failed(stream) EXCEPT !.status = n], "errno")
      BY DEF ReceiveFails
<1>2. UNCHANGED <<conn, job, app, asked>> /\ pc = "receive"
      BY DEF ReceiveFails
<1> DEFINE t == [Failed(stream) EXCEPT !.status = n]
<1>3. /\ t \in StreamRec /\ t.status = n /\ ~t.keep_connection
      /\ t.out_buffer = stream.out_buffer /\ t.user_headers = stream.user_headers
      /\ t.chunked_sending = stream.chunked_sending
      /\ t.body_receiver = stream.body_receiver /\ t.should_retry = stream.should_retry
  <2>1. n \in Statuses
        BY SMT DEF Statuses
  <2> DEFINE f == Failed(stream)
  <2>2. /\ f \in StreamRec /\ ~f.keep_connection
        /\ f.out_buffer = stream.out_buffer /\ f.user_headers = stream.user_headers
        /\ f.chunked_sending = stream.chunked_sending
        /\ f.body_receiver = stream.body_receiver /\ f.should_retry = stream.should_retry
        BY TBasics, FailedFacts
  <2> HIDE DEF f
  <2>3. /\ [f EXCEPT !.status = n] \in StreamRec /\ [f EXCEPT !.status = n].status = n
        /\ SameAtSend([f EXCEPT !.status = n], f)
        /\ [f EXCEPT !.status = n].keep_connection = f.keep_connection
        /\ [f EXCEPT !.status = n].should_retry = f.should_retry
        BY <2>1, <2>2, StatusFacts
  <2> QED BY <2>2, <2>3 DEF SameAtSend, f
<1>4. ReceivedHeaders(t, "errno")
      BY <1>1
<1> HIDE DEF t
<1>5. /\ HeadersFor(t, job, written, header)
      /\ Again(job, stream, written, header) => Again(job, t, written, header)
      BY <1>2, <1>3, AtReceive, SameHeadersFor
<1>6. /\ JobInv(phase, job, written) /\ WireInv(conn') /\ Sending(t)
      /\ t.chunked_sending = (job.call = "first") /\ t.body_receiver # "gzip"
      /\ Ready(t, conn')
      BY <1>2, <1>3, AtReceive, NotKeptReady DEF Sending, Null
<1>7. CASE ~(job.call = "first" /\ t.status \div 100 = 1)
  <2>1. "errno" \in Errors \ {"ok"}
        BY DEF Errors
  <2> QED BY <1>2, <1>3, <1>4, <1>5, <1>6, <1>7, <2>1, ReceivedFailure
<1>8. CASE job.call = "first" /\ t.status \div 100 = 1
  <2>1. UpdateFlags(t, "errno") = t
        BY <1>8, InformedFlags
  <2>2. stream' = t /\ err' = "ok" /\ pc' = ChunkStep(job)
        BY SMT, <1>4, <1>8, <2>1, ReceivedEnd
  <2>3. t.chunked_sending /\ Again(job, t, written, header) /\ InRequest(conn', 0, header)
        BY <1>2, <1>5, <1>6, <1>8, AtReceive
  <2> QED BY <1>2, <1>6, <1>8, <2>2, <2>3, ContinueFirst
<1> QED BY <1>7, <1>8

\* What is left on the connection once the first response has been taken.
LEMMA TailWire ==
    ASSUME NEW c \in ConnRec, c.wire # <<>>, WireInv(c),
           NEW d, d.wire = Tail(c.wire), d.answered = c.answered
    PROVE  /\ WireInv(d) /\ (NoSuccess(c) => NoSuccess(d))
           /\ c.wire[1] \notin Inform => d.wire = <<>> /\ c.answered
<1> DEFINE q == c.wire
           n == Len(q)
<1>1. q \in Seq(Responses \cup Inform) /\ q # <<>>
      BY DEF ConnRec
<1>2. /\ n \in Nat /\ n >= 1 /\ Len(Tail(q)) = n - 1
      /\ \A i \in 1 .. n - 1 : Tail(q)[i] = q[i + 1]
      /\ n = 1 => Tail(q) = <<>>
  <2> HIDE DEF q
  <2>1. n \in Nat /\ n # 0
        BY <1>1, EmptySeq, LenProperties
  <2>2. /\ Tail(q) \in Seq(Responses \cup Inform) /\ Len(Tail(q)) = n - 1
        /\ \A i \in 1 .. Len(Tail(q)) : Tail(q)[i] = q[i + 1]
        BY <1>1, HeadTailProperties
  <2>3. n = 1 => Tail(q) = <<>>
    <3>1. n = 1 => Len(Tail(q)) = 0
          BY SMT, <2>2
    <3> QED BY <2>2, <3>1, EmptySeq
  <2>4. n >= 1
    <3> HIDE DEF n
    <3> QED BY SMT, <2>1
  <2> QED BY <2>1, <2>2, <2>3, <2>4
<1>3. /\ \A i \in 1 .. n - 1 : q[i] \in Inform
      /\ ~c.answered => \A i \in 1 .. n : q[i] \in Inform
      BY DEF WireInv
<1>4. NoSuccess(c) <=> \A i \in 1 .. n : q[i].status \div 100 # 2
      BY DEF NoSuccess
<1>5. d.wire = Tail(q)
      OBVIOUS
<1> SUFFICES ASSUME TRUE
             PROVE  /\ WireInv(d) /\ (NoSuccess(c) => NoSuccess(d))
                    /\ q[1] \notin Inform => d.wire = <<>> /\ c.answered
    OBVIOUS
<1> HIDE DEF q
<1>6. /\ \A i \in 1 .. n - 1 : i + 1 \in 1 .. n
      /\ \A i \in 1 .. n - 1 - 1 : i \in 1 .. n - 1 /\ i + 1 \in 1 .. n - 1
      /\ n # 1 => 1 \in 1 .. n - 1
      /\ 1 \in 1 .. n
  <2> HIDE DEF n
  <2> QED BY SMT, <1>2
<1> HIDE DEF n
<1>7. Len(d.wire) = n - 1
      BY <1>2, <1>5
<1>8. \A i \in 1 .. Len(d.wire) - 1 : d.wire[i] \in Inform
      BY <1>2, <1>3, <1>5, <1>6, <1>7
<1>9. ~d.answered => \A i \in 1 .. Len(d.wire) : d.wire[i] \in Inform
      BY <1>2, <1>3, <1>5, <1>6, <1>7
<1>10. NoSuccess(c) => NoSuccess(d)
  <2> SUFFICES ASSUME NoSuccess(c), NEW i \in 1 .. n - 1
               PROVE  d.wire[i].status \div 100 # 2
      BY <1>7 DEF NoSuccess
  <2>1. d.wire[i] = q[i + 1] /\ i + 1 \in 1 .. n
        BY <1>2, <1>5, <1>6
  <2> QED BY <1>4, <2>1
<1> QED BY <1>2, <1>3, <1>5, <1>6, <1>8, <1>9, <1>10 DEF WireInv

\* An informational response keeps JInv: it is 100, skipped or waited for.
LEMMA InformationalJ ==
    ASSUME Orderly, TInv, TInv', JInv, ReceiveInformational
    PROVE  JInv'
<1>1. /\ pc = "receive" /\ conn.wire # <<>> /\ UNCHANGED <<job, app, asked>>
      /\ Head(conn.wire) \in Inform
      /\ conn' = [conn EXCEPT !.wire = Tail(conn.wire)]
      BY InformationalCases
<1>2. PICK t \in StreamRec :
          /\ SameAtSend(t, stream) /\ t.status = Head(conn.wire).status
          /\ t.should_retry = stream.should_retry
          /\ IF Skipped(t) THEN stream' = t /\ UNCHANGED <<pc, err>>
                           ELSE ReceivedHeaders(t, "ok")
      BY InformationalCases
<1> DEFINE d == conn'
<1>3. /\ d.wire = Tail(conn.wire) /\ d.answered = conn.answered /\ d.up = conn.up
      /\ d.peer = conn.peer /\ d.request = conn.request /\ d.body = conn.body
      /\ d.header = conn.header
      BY <1>1, TBasics DEF ConnRec
<1>4. conn \in ConnRec /\ WireInv(conn)
      BY <1>1, TBasics, AtReceive
<1> HIDE DEF d
<1>5. WireInv(d) /\ (NoSuccess(conn) => NoSuccess(d))
      BY <1>1, <1>3, <1>4, TailWire
<1>6. /\ InRequest(conn, 0, header) => InRequest(d, 0, header)
      /\ Whole(conn, written, header) => Whole(d, written, header)
      BY <1>3, <1>5 DEF InRequest, Whole, Delivered
<1>7. t.status = 100 /\ t.status \div 100 = 1
  <2>1. Head(conn.wire).status \in Informational
        BY <1>1 DEF Inform
  <2> QED BY <1>1, <1>2, <2>1, StatusClass DEF Orderly
<1>8. /\ t.body_receiver = stream.body_receiver /\ t.chunked_sending = stream.chunked_sending
      /\ t.out_buffer = stream.out_buffer /\ t.user_headers = stream.user_headers
      BY <1>2 DEF SameAtSend
<1>9. /\ HeadersFor(t, job, written, header) /\ Sending(t)
      /\ Again(job, stream, written, header) => Again(job, t, written, header)
      /\ t.body_receiver # "gzip"
      BY <1>1, <1>2, <1>8, AtReceive, SameHeadersFor DEF Sending, Null
<1>10. UNCHANGED <<phase, written, header>>
      BY <1>1 DEF app
<1>11. CASE job.call = "first"
  <2>1. t.chunked_sending /\ ~Skipped(t)
        BY <1>1, <1>8, <1>11, AtReceive DEF Skipped
  <2>2. UpdateFlags(t, "ok") = t
        BY <1>7, InformedFlags
  <2>3. stream' = t /\ err' = "ok" /\ pc' = ChunkStep(job)
        BY SMT, <1>2, <1>11, <2>1, <2>2, ReceivedEnd
  <2>4. conn' = d
        BY DEF d
  <2>5. /\ JobInv(phase, job, written) /\ Again(job, t, written, header)
        /\ InRequest(d, 0, header)
        BY <1>1, <1>6, <1>9, <1>11, AtReceive
  <2> QED BY <1>1, <1>5, <1>9, <1>11, <2>1, <2>3, <2>4, <2>5, ContinueFirst
<1>12. CASE job.call # "first"
  <2>1. ~t.chunked_sending /\ Skipped(t)
        BY <1>1, <1>7, <1>8, <1>12, AtReceive DEF Skipped
  <2>2. stream' = t /\ UNCHANGED <<pc, err>>
        BY <1>2, <2>1
  <2>3. ReceiveInv(t, d, job, written, header)
    <3>1. t.chunked_sending = (job.call = "first") /\ job.finished
          BY <1>1, <1>8, <1>12, AtReceive
    <3>2. Whole(d, written, header)
          BY <1>1, <1>6, <1>12, AtReceive
    <3> QED BY <1>9, <1>12, <3>1, <3>2 DEF ReceiveInv
  <2>4. PcInv(pc, phase, err, t, d, job, written, header)
        BY <1>1, <2>3, AtReceive DEF PcInv
  <2> QED BY <1>1, <1>5, <1>9, <1>10, <2>2, <2>4 DEF JInv, d
<1> QED BY <1>11, <1>12

\* A final response is the end of its exchange: once its body has been read, the
\* server waits for the next request, or is gone.
LEMMA TakenReusable ==
    ASSUME TInv, JInv, pc = "receive", conn.wire # <<>>,
           NEW r, r = Head(conn.wire), r \in Responses,
           NEW c, c = TakenFrom(conn, r)
    PROVE  /\ c \in ConnRec /\ c.up /\ Reusable(Drained(c)) /\ WireInv(c)
           /\ r.status \div 100 = 2 =>
                job.call # "first" /\ Delivered(c, written, header)
<1>1. /\ c \in ConnRec /\ c.wire = Tail(conn.wire) /\ c.up = conn.up
      /\ c.peer = conn.peer /\ c.request = conn.request /\ c.body = conn.body
      /\ c.header = conn.header /\ c.answered = conn.answered
      BY TakenFromFacts DEF SameServer
<1>2. conn \in ConnRec /\ r = conn.wire[1]
      BY TBasics, WireFacts
<1>3. r \notin Inform
  <2>1. r.status \div 100 # 1 /\ \A x \in Inform : x.status \div 100 = 1
        BY StatusClass
  <2> QED BY <2>1
<1>4. WireInv(c) /\ c.wire = <<>> /\ conn.answered
      BY <1>1, <1>2, <1>3, AtReceive, TailWire
<1>5. r.status \div 100 = 2 => ~NoSuccess(conn)
  <2>1. 1 \in 1 .. Len(conn.wire)
        BY SMT, <1>2 DEF ConnRec
  <2> QED BY <1>2, <2>1 DEF NoSuccess
<1>6. /\ Drained(c).wire = <<>> /\ ~Drained(c).unread /\ Drained(c).answered
      /\ Drained(c).peer = conn.peer /\ Drained(c).request = conn.request
      /\ Drained(c).body = conn.body
      BY <1>1, <1>4, DrainedFacts
<1>7. Units(1, 0) = <<>>
      BY SMT, EmptyUnits
<1>8. CASE job.call = "first"
      BY <1>1, <1>4, <1>5, <1>6, <1>7, <1>8, AtReceive DEF InRequest, Reusable
<1>9. CASE job.call # "first"
      BY <1>1, <1>4, <1>5, <1>6, <1>9, AtReceive DEF Whole, Delivered, Reusable
<1> QED BY <1>8, <1>9

\* A closed socket keeps the responses that were on their way,
LEMMA ClosedJ ==
    ASSUME NEW c \in ConnRec, WireInv(c)
    PROVE  WireInv(Closed(c))
<1>1. Closed(c).wire = c.wire /\ Closed(c).answered = c.answered
      BY DEF Closed, ConnRec
<1> QED BY <1>1 DEF WireInv

\* and a new one has none.
LEMMA NewConnJ ==
    ASSUME NEW url \in URLs
    PROVE  WireInv(NewConn(url)) /\ NoSuccess(NewConn(url))
<1>1. NewConn(url).wire = <<>>
      BY NewConnFacts
<1> QED BY SMT, <1>1 DEF WireInv, NoSuccess

\* A final response keeps JInv: a success comes only once the request is
\* whole, and any other leaves what the next attempt needs.
LEMMA ResponseJ ==
    ASSUME Orderly, TInv, TInv', JInv, ReceiveResponse
    PROVE  JInv'
<1> DEFINE r == Head(conn.wire)
           c == TakenFrom(conn, r)
<1>1. /\ UNCHANGED <<job, app>> /\ r \in Responses /\ \E t : Outcome(t, r, c)
      BY ResponseCases
<1>2. pc = "receive" /\ conn.wire # <<>>
      BY DEF ReceiveResponse
<1>3. /\ c \in ConnRec /\ c.up /\ Reusable(Drained(c)) /\ WireInv(c)
      /\ r.status \div 100 = 2 => job.call # "first" /\ Delivered(c, written, header)
      BY <1>1, <1>2, TakenReusable
<1> HIDE DEF r, c
<1>4. PICK t : Outcome(t, r, c)
      BY <1>1
<1>5. /\ t \in StreamRec /\ t.out_buffer = stream.out_buffer
      /\ t.chunked_sending = stream.chunked_sending
      /\ t.user_headers = stream.user_headers /\ t.should_retry = stream.should_retry
      /\ t.status = r.status
      BY <1>4 DEF Outcome, Carried
<1>6. /\ JobInv(phase, job, written) /\ HeadersFor(t, job, written, header)
      /\ t.chunked_sending = (job.call = "first") /\ ~t.should_retry
      /\ stream.body_receiver = Null
      BY <1>2, <1>5, AtReceive, SameHeadersFor DEF Sending
<1>7. t.status \div 100 # 1 /\ UNCHANGED <<phase, written, header>>
      BY <1>1, <1>5, StatusClass DEF app
<1>8. HasReceiver(t, r) => /\ t.body_receiver # Null /\ t.body_receiver # "gzip"
                           /\ Ready(t, c)
  <2> SUFFICES ASSUME HasReceiver(t, r)
               PROVE  t.body_receiver # Null /\ t.body_receiver # "gzip" /\ Ready(t, c)
      OBVIOUS
  <2>1. r.framing \in Framings
    <3>1. r \in FinalResponse
          BY <1>1, ResponseAssumption
    <3> QED BY <3>1 DEF FinalResponse, Framings
  <2>2. r.framing # "gzip"
        BY <1>1 DEF Orderly
  <2>3. t.body_receiver # Null /\ t.body_receiver # "gzip"
        BY <2>1, <2>2 DEF HasReceiver, Framings, Null
  <2> QED BY <1>3, <2>3 DEF HasReceiver, Ready
<1>9. CASE GivesUp(t, c) \/ Moves(t, r)
  <2>1. PICK e \in Errors \ {"ok"} : ReceivedHeaders(t, e)
        BY <1>9 DEF GivesUp, Moves, Errors
  <2>2. t.body_receiver = Null /\ t.body_receiver # "gzip"
        BY <1>6, <1>9 DEF GivesUp, Moves, Null
  <2>3. Ready(t, conn') /\ WireInv(conn')
    <3>1. CASE GivesUp(t, c)
          BY <1>3, <3>1, NotKeptReady, ClosedJ DEF GivesUp
    <3>2. CASE Moves(t, r)
      <4>1. r.location \in URLs /\ conn' = NewConn(r.location)
            BY <3>2 DEF Moves
      <4>2. conn'.up /\ Reusable(conn') /\ WireInv(conn')
            BY <4>1, NewConnFacts, NewConnJ
      <4> QED BY <2>2, <4>2 DEF Ready, Null
    <3> QED BY <1>9, <3>1, <3>2
  <2> QED BY <1>1, <1>5, <1>6, <1>7, <2>1, <2>2, <2>3, ReceivedFailure
<1>10. CASE Succeeds(t, r, c)
  <2>1. ReceivedHeaders(t, "ok") /\ r.status \div 100 = 2 /\ conn' = c /\ HasReceiver(t, r)
        BY <1>10 DEF Succeeds
  <2>2. job.call # "first" /\ Delivered(c, written, header) /\ job.finished
        BY <1>2, <1>3, <2>1, AtReceive
  <2>3. "ok" \in Errors /\ t.status \div 100 # 3
    <3>1. 2 # 3
          BY SMT
    <3> QED BY <1>5, <2>1, <3>1 DEF Errors
  <2>4. /\ SameButRetry(stream', t) /\ stream'.should_retry = t.should_retry
        BY <1>5, <2>1, <2>3, ReceivedHeadersFacts
  <2>5. err' = "ok" /\ pc' = "return"
        BY <2>1, <2>2, ReceivedEnd
  <2> DEFINE u == stream'
  <2>6. /\ u.keep_connection = t.keep_connection /\ u.body_receiver = t.body_receiver
        /\ u.user_headers = t.user_headers /\ u.chunked_sending = t.chunked_sending
        /\ ~u.should_retry
        BY <1>6, <2>4 DEF SameButRetry
  <2> HIDE DEF u
  <2>7. Ready(u, c) /\ u.body_receiver # "gzip" /\ EndedInv(u, c, written, header)
        BY <1>6, <1>8, <2>1, <2>2, <2>6, ReadyFor DEF EndedInv
  <2>8. job.call = "chunked" => ~u.user_headers
        BY <1>6, <2>6 DEF HeadersFor
  <2>9. ReturnInv("ok", u, c, job, written, header)
        BY <2>2, <2>6, <2>7, <2>8 DEF ReturnInv
  <2>10. PcInv("return", phase, "ok", u, c, job, written, header)
        BY <1>6, <2>9 DEF PcInv
  <2> QED BY <1>1, <1>3, <1>7, <2>1, <2>5, <2>7, <2>10 DEF JInv, u
<1>11. CASE Drains(t, r, c)
  <2>1. /\ stream' = t /\ pc' = "drain" /\ UNCHANGED err /\ conn' = c
        /\ r.status \div 100 \notin {1, 2, 3} /\ HasReceiver(t, r)
        BY <1>11 DEF Drains
  <2>2. DrainInv(t, c, job, written, header)
        BY <1>5, <1>6, <1>8, <2>1 DEF DrainInv
  <2>3. PcInv("drain", phase, err, t, c, job, written, header)
        BY <1>6, <2>2 DEF PcInv
  <2> QED BY <1>1, <1>3, <1>7, <1>8, <2>1, <2>3 DEF JInv
<1> QED BY <1>4, <1>9, <1>10, <1>11 DEF Outcome

-----------------------------------------------------------------------------
(* The end of a response body, and sending.                                *)

\* A body that is not compressed leaves nothing unread.
LEMMA NothingUnread ==
    ASSUME NEW kind, kind # "gzip", NEW unread \in UnreadAtEnd(kind)
    PROVE  unread = FALSE
BY DEF UnreadAtEnd

\* Once the body has been read the connection is ready without a receiver.
LEMMA ExchangedReady ==
    ASSUME NEW s \in StreamRec, NEW c \in ConnRec, Ready(s, c), WireInv(c),
           s.body_receiver # Null, NEW d, d = Exchanged(c, FALSE)
    PROVE  /\ WireInv(d) /\ (s.keep_connection => d.up /\ Reusable(d))
           /\ \A t : /\ t.body_receiver = Null
                     /\ t.keep_connection => s.keep_connection
                     => Ready(t, d)
<1> DEFINE n == [NewConn(c.url) EXCEPT !.peer = c.peer, !.unread = FALSE]
<1>1. d = IF Reusable(Drained(c)) /\ Drained(c).request # "broken" THEN n ELSE Drained(c)
      BY DEF Exchanged, Drained
<1>2. /\ n.up /\ n.wire = <<>> /\ n.unread = FALSE /\ n.request = "none"
      /\ Drained(c).up = c.up /\ Drained(c).wire = c.wire
      /\ Drained(c).answered = c.answered
      BY DrainedFacts DEF NewConn
<1>3. Reusable(n) /\ WireInv(n)
  <2> HIDE DEF n
  <2>1. Reusable(n)
        BY <1>2 DEF Reusable
  <2> QED BY SMT, <1>2, <2>1 DEF WireInv
<1> HIDE DEF n
<1>4. WireInv(Drained(c))
      BY <1>2 DEF WireInv
<1>5. s.keep_connection => c.up /\ Reusable(Drained(c))
      BY DEF Ready
<1>6. WireInv(d) /\ (s.keep_connection => d.up /\ Reusable(d))
      BY <1>1, <1>2, <1>3, <1>4, <1>5
<1> QED BY <1>6 DEF Ready, Null

\* Reading the body of an error response keeps JInv: it leaves the
\* connection clean, or it is dropped.
LEMMA DrainJ ==
    ASSUME Orderly, TInv, TInv', JInv, DrainErrorBody
    PROVE  JInv'
<1> DEFINE t == ReceiverClosed(stream)
           u == [Failed(stream) EXCEPT !.body_receiver = Null]
<1>1. \/ /\ \E unread \in UnreadAtEnd(stream.body_receiver) :
               conn' = Exchanged(conn, unread)
         /\ ReceivedHeaders(t, "http")
      \/ ReceivedHeaders(u, "errno") /\ UNCHANGED conn
      BY DEF DrainErrorBody
<1>2. /\ UNCHANGED <<job, app>> /\ pc = "drain"
      /\ "http" \in Errors \ {"ok"} /\ "errno" \in Errors \ {"ok"}
      BY DEF DrainErrorBody, Errors
<1>3. /\ JobInv(phase, job, written) /\ WireInv(conn) /\ stream.body_receiver # "gzip"
      /\ DrainInv(stream, conn, job, written, header)
      BY <1>2 DEF JInv, PcInv
<1>4. /\ stream.body_receiver # Null /\ stream.status \div 100 # 1
      /\ stream.chunked_sending = (job.call = "first")
      /\ HeadersFor(stream, job, written, header) /\ Ready(stream, conn)
      BY <1>3 DEF DrainInv
<1>5. stream \in StreamRec /\ conn \in ConnRec
      BY TBasics
<1>6. /\ t \in StreamRec /\ t.keep_connection = stream.keep_connection
      /\ t.out_buffer = stream.out_buffer /\ t.user_headers = stream.user_headers
      /\ t.chunked_sending = stream.chunked_sending /\ t.body_receiver = Null
      /\ t.status = stream.status
      BY <1>5, ReceiverClosedFacts
<1>7. /\ u \in StreamRec /\ ~u.keep_connection
      /\ u.out_buffer = stream.out_buffer /\ u.user_headers = stream.user_headers
      /\ u.chunked_sending = stream.chunked_sending /\ u.body_receiver = Null
      /\ u.status = stream.status
      BY <1>5, GivenUpFacts
<1> HIDE DEF t, u
<1>8. HeadersFor(t, job, written, header) /\ HeadersFor(u, job, written, header)
      BY <1>4, <1>6, <1>7, SameHeadersFor
<1>9. Null # "gzip"
      BY DEF Null
<1>10. CASE /\ \E unread \in UnreadAtEnd(stream.body_receiver) :
                  conn' = Exchanged(conn, unread)
            /\ ReceivedHeaders(t, "http")
  <2>1. conn' = Exchanged(conn, FALSE)
        BY <1>3, <1>10, NothingUnread
  <2>2. WireInv(conn') /\ Ready(t, conn')
        BY <1>3, <1>4, <1>5, <1>6, <2>1, ExchangedReady
  <2> QED BY <1>2, <1>3, <1>4, <1>6, <1>8, <1>9, <1>10, <2>2, ReceivedFailure
<1>11. CASE ReceivedHeaders(u, "errno") /\ UNCHANGED conn
  <2>1. WireInv(conn') /\ Ready(u, conn')
        BY <1>3, <1>7, <1>11, NotKeptReady
  <2> QED BY <1>2, <1>3, <1>4, <1>7, <1>8, <1>9, <1>11, <2>1, ReceivedFailure
<1> QED BY <1>1, <1>10, <1>11

\* _avs_http_prepare_for_sending, with what it sends with and on.
LEMMA ReconnectJ ==
    ASSUME TInv, JobInv(phase, job, written), UNCHANGED <<job, app>>,
           NEW s \in StreamRec, NEW c \in ConnRec, c.url = s.url, Reconnect(s, c),
           Sending(s), Ready(s, c), WireInv(c), Again(job, s, written, header),
           s.chunked_sending = (job.call = "first"), job.call \in {"simple", "first"}
    PROVE  JInv'
<1>1. UNCHANGED <<job, phase, written, header>>
      BY DEF app
<1>2. /\ SameAtPrepare(stream', s)
      /\ \/ /\ s.keep_connection /\ stream' = s /\ conn' = c
            /\ pc' = "send" /\ UNCHANGED err
         \/ /\ stream'.keep_connection /\ conn' = NewConn(s.url)
            /\ pc' = "send" /\ UNCHANGED err
         \/ /\ ~stream'.keep_connection /\ conn' = Closed(c)
            /\ pc' = "return" /\ err' = "errno"
      BY ReconnectFacts
<1> DEFINE u == stream'
<1>3. /\ u.out_buffer = s.out_buffer /\ u.user_headers = s.user_headers
      /\ u.chunked_sending = s.chunked_sending /\ u.body_receiver = Null
      /\ u.should_retry = s.should_retry
      BY <1>2 DEF SameAtPrepare, Sending
<1>4. s.url \in URLs
      BY DEF StreamRec
<1>5. CASE pc' = "send"
  <2>1. conn'.up /\ Reusable(conn') /\ WireInv(conn')
    <3>1. CASE s.keep_connection /\ conn' = c
          BY <3>1 DEF Ready, Sending
    <3>2. CASE conn' = NewConn(s.url)
          BY <1>4, <3>2, NewConnFacts, NewConnJ
    <3> QED BY <1>2, <1>5, <3>1, <3>2
  <2> DEFINE d == conn'
  <2> HIDE DEF u, d
  <2>2. Ready(u, d) /\ Sending(u)
        BY <1>3, <2>1 DEF Ready, Sending, Null, d
  <2>3. Again(job, u, written, header)
        BY <1>3, SameHeadersFor
  <2>4. SendInv(u, d, job, written, header)
        BY <1>3, <2>1, <2>2, <2>3 DEF SendInv, PrepareInv, d
  <2>5. PcInv("send", phase, err', u, d, job, written, header)
        BY <2>4 DEF PcInv
  <2> QED BY <1>1, <1>3, <1>5, <2>1, <2>5 DEF JInv, u, d, Null
<1>6. CASE ~stream'.keep_connection /\ conn' = Closed(c) /\ pc' = "return" /\ err' = "errno"
  <2>1. WireInv(conn')
        BY <1>6, ClosedJ
  <2> DEFINE d == conn'
  <2>2. ~u.keep_connection
        BY <1>6
  <2> HIDE DEF u, d
  <2>3. ReturnInv("errno", u, d, job, written, header)
        BY <2>2, NotKeptReady DEF ReturnInv
  <2>4. PcInv("return", phase, "errno", u, d, job, written, header)
        BY <2>3 DEF PcInv
  <2> QED BY <1>1, <1>3, <1>6, <2>1, <2>4 DEF JInv, u, d, Null
<1> QED BY <1>2, <1>5, <1>6

\* _avs_http_prepare_for_sending keeps JInv: it leaves a clean connection.
LEMMA PrepareJ ==
    ASSUME Orderly, TInv, TInv', JInv, PrepareForSending
    PROVE  JInv'
<1>1. UNCHANGED <<job, app>> /\ pc = "prepare" /\ UNCHANGED <<phase, written, header>>
      BY DEF PrepareForSending, app
<1>2. /\ JobInv(phase, job, written) /\ WireInv(conn) /\ stream.body_receiver # "gzip"
      /\ PrepareInv(stream, conn, job, written, header)
      BY <1>1 DEF JInv, PcInv
<1>3. /\ job.call \in {"simple", "first"} /\ stream.chunked_sending = (job.call = "first")
      /\ Again(job, stream, written, header) /\ Ready(stream, conn)
      BY <1>2 DEF PrepareInv
<1>4. stream \in StreamRec /\ conn \in ConnRec /\ conn.url = stream.url
      BY TBasics
<1> DEFINE s == RetryFlagCleared(stream)
           t == ReceiverClosed(s)
<1>5. /\ s \in StreamRec /\ ~s.should_retry /\ s.url = stream.url
      /\ s.keep_connection = stream.keep_connection
      /\ s.out_buffer = stream.out_buffer /\ s.user_headers = stream.user_headers
      /\ s.chunked_sending = stream.chunked_sending
      /\ s.body_receiver = stream.body_receiver
      BY <1>4, RetryFlagClearedFacts
<1>6. \/ stream.body_receiver = Null /\ Reconnect(s, conn)
      \/ /\ stream.body_receiver # Null
         /\ \E unread \in UnreadAtEnd(stream.body_receiver) :
               Reconnect(t, Exchanged(conn, unread))
      \/ /\ stream' = s /\ err' = "errno" /\ pc' = "return" /\ UNCHANGED conn
      BY PrepareCases
<1> HIDE DEF s
<1>7. /\ t \in StreamRec /\ ~t.should_retry /\ t.url = stream.url
      /\ t.keep_connection = stream.keep_connection
      /\ t.out_buffer = stream.out_buffer /\ t.user_headers = stream.user_headers
      /\ t.chunked_sending = stream.chunked_sending /\ t.body_receiver = Null
      BY <1>5, ReceiverClosedFacts
<1> HIDE DEF t
<1>8. /\ Again(job, s, written, header) /\ Again(job, t, written, header)
      /\ Ready(s, conn)
      BY <1>3, <1>5, <1>7, SameHeadersFor, ReadyFor
<1>9. CASE stream.body_receiver = Null /\ Reconnect(s, conn)
  <2>1. Sending(s)
        BY <1>5, <1>9 DEF Sending
  <2> QED BY <1>1, <1>2, <1>3, <1>4, <1>5, <1>8, <1>9, <2>1, ReconnectJ
<1>10. CASE /\ stream.body_receiver # Null
            /\ \E unread \in UnreadAtEnd(stream.body_receiver) :
                  Reconnect(t, Exchanged(conn, unread))
  <2> DEFINE d == Exchanged(conn, FALSE)
  <2>1. Reconnect(t, d)
        BY <1>2, <1>10, NothingUnread
  <2>2. d \in ConnRec /\ d.url = t.url
        BY <1>4, <1>7, ExchangedFacts DEF SameServer
  <2>3. WireInv(d) /\ Ready(t, d)
        BY <1>2, <1>3, <1>4, <1>7, <1>10, ExchangedReady
  <2>4. Sending(t)
        BY <1>7 DEF Sending
  <2> HIDE DEF d
  <2> QED BY <1>1, <1>2, <1>3, <1>7, <1>8, <2>1, <2>2, <2>3, <2>4, ReconnectJ
<1>11. CASE stream' = s /\ err' = "errno" /\ pc' = "return" /\ UNCHANGED conn
  <2>1. ReturnInv("errno", s, conn, job, written, header)
        BY <1>8 DEF ReturnInv
  <2>2. PcInv("return", phase, "errno", s, conn, job, written, header)
        BY <1>2, <2>1 DEF PcInv
  <2> QED BY <1>1, <1>2, <1>5, <1>11, <2>2 DEF JInv
<1> QED BY <1>6, <1>9, <1>10, <1>11

\* The block being sent is the whole request when it is the last one.
LEMMA WholePayload ==
    ASSUME NEW j \in JobRec, NEW s, NEW w, Payload(j, s, 0, w), j.rest = <<>>
    PROVE  j.data = Units(1, w)
<1>1. Len(j.data) \in Nat /\ Len(j.rest) = 0
      BY SMT DEF JobRec, Data
<1>2. j.data = Units(0 + 1, Len(j.data)) /\ 0 + Len(j.data) + Len(j.rest) = w
      BY DEF Payload, Run
<1>3. Len(j.data) = w
      BY SMTT(30), <1>1, <1>2
<1>4. 0 + 1 = 1
      BY SMT
<1> QED BY <1>2, <1>3, <1>4

\* What the server takes of a request on a connection that was ready.
LEMMA TakeHeadersJ ==
    ASSUME NEW c \in ConnRec, c.up, Reusable(c), NEW s, NEW body, NEW more \in BOOLEAN,
           NEW d, d = TakeHeaders(c, s, body, more)
    PROVE  /\ d.up /\ d.wire = <<>> /\ NoSuccess(d) /\ WireInv(d)
           /\ d.peer => /\ d.request = IF more THEN "headers" ELSE "complete"
                        /\ d.body = body /\ d.header = s.user_headers
<1>1. c.wire = <<>> /\ (c.peer => c.request # "broken")
      BY DEF Reusable
<1> DEFINE t == [c EXCEPT !.request = IF more THEN "headers" ELSE "complete",
                          !.header = s.user_headers,
                          !.authorised = s.auth_type # "NONE",
                          !.body = body, !.informed = FALSE, !.answered = FALSE]
<1>2. /\ t.up = c.up /\ t.wire = c.wire /\ t.body = body /\ t.header = s.user_headers
      /\ t.request = IF more THEN "headers" ELSE "complete"
      BY DEF ConnRec
<1>3. d = IF c.peer THEN t ELSE c
      BY <1>1 DEF TakeHeaders
<1> HIDE DEF t
<1>4. /\ d.up /\ d.wire = <<>>
      /\ d.peer => /\ d.request = IF more THEN "headers" ELSE "complete"
                   /\ d.body = body /\ d.header = s.user_headers
      BY <1>1, <1>2, <1>3
<1> QED BY SMT, <1>4 DEF NoSuccess, WireInv

\* _avs_http_send_headers keeps JInv.
LEMMA SendHeadersJ ==
    ASSUME Orderly, TInv, TInv', JInv, SendHeaders
    PROVE  JInv'
<1>1. pc = "send" /\ UNCHANGED <<job, app>> /\ UNCHANGED <<phase, written, header>>
      BY SendHeadersCases DEF app
<1>2. /\ JobInv(phase, job, written) /\ WireInv(conn)
      /\ SendInv(stream, conn, job, written, header)
      BY <1>1 DEF JInv, PcInv
<1>3. /\ job.call \in {"simple", "first"} /\ stream.chunked_sending = (job.call = "first")
      /\ Again(job, stream, written, header) /\ Ready(stream, conn)
      /\ Sending(stream) /\ conn.up /\ Reusable(conn)
      BY <1>2 DEF SendInv, PrepareInv
<1>4. stream \in StreamRec /\ conn \in ConnRec /\ job \in JobRec
      BY TBasics
<1> DEFINE s == [stream EXCEPT !.status = 0]
           body == IF job.call = "simple" THEN job.data ELSE <<>>
           more == job.call = "first"
<1>0. more \in BOOLEAN
      OBVIOUS
<1>5. /\ s \in StreamRec /\ s.keep_connection = stream.keep_connection
      /\ s.out_buffer = stream.out_buffer /\ s.user_headers = stream.user_headers
      /\ s.chunked_sending = stream.chunked_sending
      /\ s.body_receiver = stream.body_receiver /\ s.should_retry = stream.should_retry
  <2>1. 0 \in Statuses
        BY SMT DEF Statuses
  <2> QED BY <1>4, <2>1, StatusFacts DEF SameAtSend
<1>6. \/ /\ stream' = s /\ conn' = TakeHeaders(conn, s, body, more) /\ err' = "ok"
         /\ \/ job.call = "simple" /\ pc' = "receive"
            \/ job.call = "first" /\ pc' \in {"receive", ChunkStep(job)}
      \/ SendFails(s) /\ pc' = RetryOrReturn(stream')
      BY <1>3, SendHeadersCases
<1> HIDE DEF s, body, more
<1>7. /\ Again(job, s, written, header) /\ Ready(s, conn) /\ Sending(s)
      /\ s.chunked_sending = (job.call = "first") /\ s.user_headers = header
      /\ s.body_receiver # "gzip"
  <2>1. Again(job, s, written, header) /\ Ready(s, conn)
        BY <1>3, <1>5, SameHeadersFor, ReadyFor
  <2> QED BY <1>3, <1>5, <2>1 DEF Sending, Again, Null
<1>8. CASE SendFails(s) /\ pc' = RetryOrReturn(stream')
  <2>1. /\ SameAtSend(stream', s) /\ err' = "errno" /\ conn' = conn
        /\ stream'.keep_connection = FALSE \/ stream' = s
        BY <1>4, <1>5, <1>8, SendFailsFacts DEF Orderly
  <2> DEFINE u == stream'
  <2>2. /\ u.out_buffer = s.out_buffer /\ u.user_headers = s.user_headers
        /\ u.chunked_sending = s.chunked_sending /\ u.body_receiver = s.body_receiver
        BY <2>1 DEF SameAtSend
  <2>3. Ready(u, conn)
        BY <1>7, <2>1, NotKeptReady
  <2>4. pc' \in {"prepare", "return"}
        BY <1>8 DEF RetryOrReturn
  <2> HIDE DEF u
  <2>5. Again(job, u, written, header)
        BY <1>7, <2>2, SameHeadersFor
  <2>6. PrepareInv(u, conn, job, written, header)
        BY <1>3, <1>7, <2>2, <2>3, <2>5 DEF PrepareInv
  <2>7. ReturnInv("errno", u, conn, job, written, header)
        BY <2>3 DEF ReturnInv
  <2>8. PcInv(pc', phase, "errno", u, conn, job, written, header)
        BY <1>2, <2>4, <2>6, <2>7 DEF PcInv
  <2> QED BY <1>1, <1>2, <1>7, <2>1, <2>2, <2>8 DEF JInv, u
<1>9. CASE stream' = s /\ conn' = TakeHeaders(conn, s, body, more) /\ err' = "ok"
  <2> DEFINE d == conn'
  <2>2. /\ d.up /\ d.wire = <<>> /\ NoSuccess(d) /\ WireInv(d)
        /\ d.peer => /\ d.request = IF more THEN "headers" ELSE "complete"
                     /\ d.body = body /\ d.header = s.user_headers
        BY SMTT(30), <1>0, <1>3, <1>4, <1>9, TakeHeadersJ
  <2> HIDE DEF d
  <2>3. CASE job.call = "simple" /\ pc' = "receive"
    <3>1. job.finished /\ job.rest = <<>>
          BY <1>2, <2>3 DEF JobInv
    <3>2. body = Units(1, written)
          BY <1>4, <1>7, <2>3, <3>1, WholePayload DEF Again, body
    <3>3. Whole(d, written, header)
          BY <1>7, <2>2, <2>3, <3>2 DEF Whole, Delivered, more
    <3>4. ReceiveInv(s, d, job, written, header)
          BY <1>7, <2>3, <3>1, <3>3 DEF ReceiveInv, HeadersFor
    <3>5. PcInv("receive", phase, "ok", s, d, job, written, header)
          BY <1>2, <3>4 DEF PcInv
    <3> QED BY <1>1, <1>7, <1>9, <2>2, <2>3, <3>5 DEF JInv, d
  <2>4. CASE job.call = "first" /\ pc' \in {"receive", ChunkStep(job)}
    <3>1. Units(1, 0) = <<>>
          BY SMTT(30), EmptyUnits
    <3>2. InRequest(d, 0, header)
          BY <1>7, <2>2, <2>4, <3>1 DEF InRequest, body, more
    <3>3. CASE pc' = "receive"
      <4>1. ReceiveInv(s, d, job, written, header)
            BY <1>7, <2>4, <3>2 DEF ReceiveInv, HeadersFor
      <4>2. PcInv("receive", phase, "ok", s, d, job, written, header)
            BY <1>2, <4>1 DEF PcInv
      <4> QED BY <1>1, <1>7, <1>9, <2>2, <3>3, <4>2 DEF JInv, d
    <3>4. CASE pc' = ChunkStep(job)
      <4>1. conn' = d
            BY DEF d
      <4>2. s.chunked_sending
            BY <1>7, <2>4
      <4> QED BY <1>1, <1>2, <1>7, <1>9, <2>2, <2>4, <3>2, <3>4, <4>1, <4>2, ContinueFirst
    <3> QED BY <2>4, <3>3, <3>4
  <2> QED BY <1>6, <1>8, <2>3, <2>4
<1> QED BY <1>6, <1>8, <1>9

\* A chunk in its place.
LEMMA TakeChunkJ ==
    ASSUME NEW c \in ConnRec, NEW data \in Data, NEW n \in Nat, NEW h,
           InRequest(c, n, h), Run(data, n + 1), n + Len(data) <= MaxBody,
           WireInv(c), NEW d, d = TakeChunk(c, data)
    PROVE  /\ WireInv(d)
           /\ data # <<>> => InRequest(d, n + Len(data), h)
           /\ data = <<>> => Whole(d, n, h)
<1>1. c.up /\ NoSuccess(c)
      BY DEF InRequest
<1>2. CASE ~c.peer
  <2>1. d = c
        BY <1>2 DEF TakeChunk
  <2> QED BY <1>1, <1>2, <2>1 DEF InRequest, Whole
<1>3. CASE c.peer
  <2>1. c.request = "headers" /\ c.body = Units(1, n) /\ c.header = h /\ c.body \in Data
        BY <1>3 DEF InRequest, ConnRec
  <2>2. Len(c.body) = n /\ Run(c.body, 1) /\ Len(data) \in Nat
    <3>1. 1 \in Nat /\ Len(data) \in Nat
          BY SMT DEF Data
    <3> QED BY <2>1, <3>1, RunUnits
  <2>3. 1 + Len(c.body) = n + 1 /\ 1 \in Nat
        BY SMT, <2>2
  <2>4. /\ c.body \o data = Units(1, n + Len(data))
        /\ Len(c.body \o data) = n + Len(data)
        BY <2>1, <2>2, <2>3, RunConcat
  <2> DEFINE r == IF data = <<>> THEN "complete" ELSE "headers"
             u == [c EXCEPT !.request = r, !.body = c.body \o data]
  <2>5. d = u
        BY <1>3, <2>1, <2>4 DEF TakeChunk
  <2>6. /\ d.up = c.up /\ d.wire = c.wire /\ d.answered = c.answered
        /\ d.request = r /\ d.body = c.body \o data /\ d.header = c.header
        BY <2>5 DEF ConnRec
  <2>7. WireInv(d) /\ NoSuccess(d)
        BY <1>1, <2>6 DEF WireInv, NoSuccess
  <2>8. data = <<>> => n + Len(data) = n
        BY SMT
  <2>9. data # <<>> => InRequest(d, n + Len(data), h)
        BY <1>1, <2>1, <2>4, <2>6, <2>7 DEF InRequest
  <2>10. data = <<>> => Whole(d, n, h)
        BY <1>1, <2>1, <2>4, <2>6, <2>8 DEF Whole, Delivered
  <2> QED BY <2>7, <2>9, <2>10
<1> QED BY <1>2, <1>3

\* Sizes, as the arithmetic of the steps below needs them.
LEMMA JobSizes ==
    ASSUME TInv
    PROVE  /\ job \in JobRec /\ job.data \in Data /\ job.rest \in Data
           /\ Len(job.data) \in Nat /\ Len(job.rest) \in Nat
           /\ written \in Nat /\ written <= MaxBody /\ MaxBody \in Nat
           /\ job.rest = <<>> => Len(job.rest) = 0
<1>1. job \in JobRec /\ job.data \in Data /\ job.rest \in Data
      BY TBasics DEF JobRec
<1>2. Len(job.data) \in Nat /\ Len(job.rest) \in Nat /\ (job.rest = <<>> => Len(job.rest) = 0)
      BY SMTT(30), <1>1 DEF Data
<1>3. written \in Nat /\ written <= MaxBody /\ MaxBody \in Nat
      BY SMTT(30), TBasics, HttpAssumption
<1> QED BY <1>1, <1>2, <1>3

\* A chunk keeps JInv: it is the next one the server is waiting for.
LEMMA SendChunkJ ==
    ASSUME Orderly, TInv, TInv', JInv, SendChunk
    PROVE  JInv'
<1>1. pc = "chunk" /\ UNCHANGED <<job, app>> /\ UNCHANGED <<phase, written, header>>
      BY DEF SendChunk, app
<1> DEFINE d == Len(job.data)
           r == Len(job.rest)
           n == written - d - r
<1>2. /\ JobInv(phase, job, written) /\ WireInv(conn) /\ stream.body_receiver # "gzip"
      /\ job.call \in {"first", "chunked"} /\ stream.chunked_sending /\ Sending(stream)
      /\ job.data # <<>> /\ Payload(job, stream, n, written)
      /\ InRequest(conn, n, header)
      /\ job.call = "first" => Again(job, stream, written, header)
      /\ job.call # "first" => ~stream.user_headers
      BY <1>1 DEF JInv, PcInv, ChunkInv
<1>3. /\ n \in Nat /\ Run(job.data, n + 1) /\ Run(job.rest, n + 1 + d)
      /\ n + d + r = written /\ (~job.buffered => stream.out_buffer = <<>>)
      BY <1>2 DEF Payload
<1>4. stream \in StreamRec /\ conn \in ConnRec
      BY TBasics
<1>5. /\ job.data \in Data /\ d \in Nat /\ r \in Nat /\ written \in Nat
      /\ written <= MaxBody /\ MaxBody \in Nat /\ (job.rest = <<>> => r = 0)
      BY JobSizes
<1> HIDE DEF d, r, n
<1>6. /\ n + d <= MaxBody /\ n + d = written - r /\ r <= written
      /\ n + 1 + d = written - r + 1 /\ (r = 0 => n + d = written)
      BY SMTT(30), <1>3, <1>5
<1>7. CASE SendFails(stream) /\ pc' = IF job.call = "first" THEN RetryOrReturn(stream')
                                      ELSE "return"
  <2>1. /\ SameAtSend(stream', stream) /\ err' = "errno" /\ conn' = conn
        /\ stream'.keep_connection = FALSE \/ stream' = stream
    <3>1. ~SendsFail
          BY DEF Orderly
    <3> QED BY <1>4, <1>7, <3>1, SendFailsFacts
  <2> DEFINE u == stream'
  <2>2. /\ u.out_buffer = stream.out_buffer /\ u.user_headers = stream.user_headers
        /\ u.chunked_sending = stream.chunked_sending
        /\ u.body_receiver = stream.body_receiver
        BY <2>1 DEF SameAtSend
  <2>3. u.should_retry => ~u.keep_connection
        BY <1>2, <2>1 DEF Sending
  <2>4. \/ pc' = "return"
        \/ pc' = "prepare" /\ job.call = "first" /\ u.should_retry
        BY <1>7 DEF RetryOrReturn
  <2> HIDE DEF u
  <2>5. ReturnInv("errno", u, conn, job, written, header)
        BY <1>2, <2>2 DEF ReturnInv
  <2>6. job.call = "first" /\ u.should_retry => PrepareInv(u, conn, job, written, header)
    <3> SUFFICES ASSUME job.call = "first", u.should_retry
                 PROVE  PrepareInv(u, conn, job, written, header)
        OBVIOUS
    <3>1. Ready(u, conn) /\ Again(job, u, written, header)
          BY <1>2, <2>2, <2>3, NotKeptReady, SameHeadersFor
    <3>2. u.chunked_sending = TRUE
          BY <1>2, <1>4, <2>2 DEF StreamRec
    <3> QED BY <3>1, <3>2 DEF PrepareInv
  <2>7. PcInv(pc', phase, "errno", u, conn, job, written, header)
        BY <1>2, <2>4, <2>5, <2>6 DEF PcInv
  <2> QED BY <1>1, <1>2, <2>1, <2>2, <2>7 DEF JInv, u
<1>8. CASE /\ conn' = TakeChunk(conn, job.data) /\ err' = "ok" /\ UNCHANGED stream
           /\ pc' = IF job.finished THEN "last" ELSE "return"
  <2>1. WireInv(conn') /\ InRequest(conn', n + d, header)
        BY <1>2, <1>3, <1>4, <1>5, <1>6, <1>8, TakeChunkJ DEF d
  <2> DEFINE c == conn'
  <2>2. WireInv(c) /\ InRequest(c, n + d, header) /\ conn' = c
        BY <2>1
  <2> HIDE DEF c
  <2>3. CASE job.finished
    <3>1. job.call = "chunked" /\ n + d = written
          BY <1>2, <1>5, <1>6, <2>3 DEF JobInv
    <3>2. LastInv(stream, c, job, written, header)
          BY <1>2, <2>2, <2>3, <3>1 DEF LastInv
    <3>3. PcInv("last", phase, "ok", stream, c, job, written, header)
          BY <1>2, <3>2 DEF PcInv
    <3> QED BY <1>1, <1>2, <1>8, <2>2, <2>3, <3>3 DEF JInv
  <2>4. CASE ~job.finished
    <3>1. UnendedInv(stream, c, job, written, header)
          BY <1>2, <1>3, <1>6, <2>2 DEF UnendedInv, Sending, r
    <3>2. ReturnInv("ok", stream, c, job, written, header)
          BY <1>2, <2>4, <3>1 DEF ReturnInv, Sending
    <3>3. PcInv("return", phase, "ok", stream, c, job, written, header)
          BY <1>2, <3>2 DEF PcInv
    <3> QED BY <1>1, <1>2, <1>8, <2>2, <2>4, <3>3 DEF JInv
  <2> QED BY <2>3, <2>4
<1> QED BY <1>7, <1>8 DEF SendChunk

\* The empty chunk keeps JInv: with it the server has the whole request.
LEMMA SendLastChunkJ ==
    ASSUME Orderly, TInv, TInv', JInv, SendLastChunk
    PROVE  JInv'
<1>1. pc = "last" /\ UNCHANGED <<job, app>> /\ UNCHANGED <<phase, written, header>>
      BY DEF SendLastChunk, app
<1>2. /\ JobInv(phase, job, written) /\ WireInv(conn) /\ stream.body_receiver # "gzip"
      /\ job.call = "chunked" /\ job.finished /\ stream.chunked_sending
      /\ Sending(stream) /\ ~stream.user_headers /\ InRequest(conn, written, header)
      BY <1>1 DEF JInv, PcInv, LastInv
<1>3. stream \in StreamRec /\ conn \in ConnRec
      BY TBasics
<1>4. CASE SendFails(stream) /\ pc' = "return"
  <2>1. SameAtSend(stream', stream) /\ err' = "errno" /\ conn' = conn
    <3>1. ~SendsFail
          BY DEF Orderly
    <3> QED BY <1>3, <1>4, <3>1, SendFailsFacts
  <2> DEFINE u == stream'
  <2>2. u.chunked_sending /\ u.body_receiver # "gzip"
        BY <1>2, <2>1 DEF SameAtSend
  <2> HIDE DEF u
  <2>3. ReturnInv("errno", u, conn, job, written, header)
        BY <2>2 DEF ReturnInv
  <2>4. PcInv("return", phase, "errno", u, conn, job, written, header)
        BY <1>2, <2>3 DEF PcInv
  <2> QED BY <1>1, <1>2, <1>4, <2>1, <2>2, <2>4 DEF JInv, u
<1>5. CASE /\ conn' = TakeChunk(conn, <<>>) /\ pc' = "receive" /\ UNCHANGED err
           /\ stream' = [stream EXCEPT !.chunked_sending = FALSE]
  <2> DEFINE u == stream'
             c == conn'
  <2>1. /\ u.chunked_sending = FALSE /\ u.body_receiver = stream.body_receiver
        /\ u.should_retry = stream.should_retry /\ u.user_headers = stream.user_headers
        BY <1>3, <1>5 DEF StreamRec
  <2>2. /\ <<>> \in Data /\ written \in Nat /\ written + Len(<<>>) <= MaxBody
        /\ Run(<<>>, written + 1)
    <3>1. written \in Nat /\ written + Len(<<>>) <= MaxBody /\ <<>> \in Data
          BY SMTT(30), JobSizes DEF Data
    <3>2. written + 1 \in Nat
          BY SMT, <3>1
    <3> QED BY <3>1, <3>2, EmptyUnits
  <2>3. WireInv(c) /\ Whole(c, written, header)
        BY <1>2, <1>3, <1>5, <2>2, TakeChunkJ
  <2> HIDE DEF u, c
  <2>4. Sending(u) /\ u.chunked_sending = (job.call = "first")
        BY <1>2, <2>1 DEF Sending
  <2>5. ReceiveInv(u, c, job, written, header)
        BY <1>2, <2>1, <2>3, <2>4 DEF ReceiveInv, HeadersFor
  <2>6. PcInv("receive", phase, err, u, c, job, written, header)
        BY <1>2, <2>5 DEF PcInv
  <2> QED BY <1>1, <1>2, <1>5, <2>1, <2>3, <2>6 DEF JInv, u, c
<1> QED BY <1>4, <1>5 DEF SendLastChunk

-----------------------------------------------------------------------------
(* The application's calls.                                                *)

\* The stream after a block, before the rest of the write is placed.
AfterBlock(s, j, e) ==
    [s EXCEPT
        !.out_buffer = IF e = "ok" /\ j.buffered THEN <<>> ELSE @,
        !.user_headers = @ /\ ~(e = "ok" /\ j.call \in {"simple", "first"}),
        !.chunked_sending = @ /\ ~(e = "ok" /\ j.finished /\ j.call = "chunked")]

\* What a block clears when it succeeds.
LEMMA AfterBlockFacts ==
    ASSUME NEW s \in StreamRec, NEW j, NEW e,
           NEW t, t = AfterBlock(s, j, e)
    PROVE  /\ t \in StreamRec /\ t.keep_connection = s.keep_connection
           /\ t.body_receiver = s.body_receiver /\ t.should_retry = s.should_retry
           /\ t.out_buffer = IF e = "ok" /\ j.buffered THEN <<>> ELSE s.out_buffer
           /\ t.user_headers = (s.user_headers /\ ~(e = "ok" /\ j.call \in {"simple", "first"}))
           /\ t.chunked_sending =
                (s.chunked_sending /\ ~(e = "ok" /\ j.finished /\ j.call = "chunked"))
<1> DEFINE out == IF e = "ok" /\ j.buffered THEN <<>> ELSE s.out_buffer
           uh == s.user_headers /\ ~(e = "ok" /\ j.call \in {"simple", "first"})
           cs == s.chunked_sending /\ ~(e = "ok" /\ j.finished /\ j.call = "chunked")
<1>1. out \in Data /\ uh \in BOOLEAN /\ cs \in BOOLEAN
  <2>1. s.out_buffer \in Data /\ <<>> \in Data
        BY SMT DEF StreamRec, Data
  <2> QED BY <2>1
<1>2. t = [s EXCEPT !.out_buffer = out, !.user_headers = uh, !.chunked_sending = cs]
      BY DEF AfterBlock
<1> SUFFICES /\ t \in StreamRec /\ t.keep_connection = s.keep_connection
             /\ t.body_receiver = s.body_receiver /\ t.should_retry = s.should_retry
             /\ t.out_buffer = out /\ t.user_headers = uh /\ t.chunked_sending = cs
    OBVIOUS
<1> HIDE DEF out, uh, cs
<1> QED BY <1>1, <1>2 DEF StreamRec

\* The end of a block: the rest of the write is sent, buffered, or the call
\* has failed.
LEMMA ReturnBlockCases ==
    ASSUME TInv, ReturnBlock, NEW t, t = AfterBlock(stream, job, err)
    PROVE  /\ pc = "return" /\ UNCHANGED <<conn, written, header, asked>>
           /\ \/ /\ err = "ok" /\ Len(job.rest) > BodySend /\ UNCHANGED phase
                 /\ SendBlock(t, FALSE, job.rest, FALSE, <<>>)
              \/ /\ pc' = "app" /\ job' = NoJob
                 /\ \/ err # "ok" /\ stream' = t /\ phase' = "failed"
                    \/ /\ err = "ok" /\ stream' = [t EXCEPT !.out_buffer = @ \o job.rest]
                       /\ phase' = IF job.finished THEN "receiving" ELSE "sending"
<1>1. /\ pc = "return" /\ UNCHANGED <<conn, written, header, asked>>
      /\ \/ /\ err = "ok" /\ Len(job.rest) > BodySend /\ UNCHANGED phase
            /\ SendBlock(t, FALSE, job.rest, FALSE, <<>>)
         \/ /\ pc' = "app" /\ job' = NoJob
            /\ stream' = [t EXCEPT !.out_buffer = IF err = "ok" THEN @ \o job.rest ELSE @]
            /\ phase' = IF err # "ok" THEN "failed"
                        ELSE IF job.finished THEN "receiving" ELSE "sending"
      BY DEF ReturnBlock, AfterBlock
<1>2. t \in StreamRec
      BY TBasics, AfterBlockFacts
<1>3. [t EXCEPT !.out_buffer = t.out_buffer] = t
      BY <1>2 DEF StreamRec
<1> QED BY <1>1, <1>3

\* The end of a block keeps JInv.
LEMMA ReturnBlockJ ==
    ASSUME Orderly, TInv, TInv', JInv, ReturnBlock
    PROVE  JInv'
<1> DEFINE t == AfterBlock(stream, job, err)
<1>1. /\ pc = "return" /\ UNCHANGED <<conn, written, header>>
      /\ \/ /\ err = "ok" /\ Len(job.rest) > BodySend /\ UNCHANGED phase
            /\ SendBlock(t, FALSE, job.rest, FALSE, <<>>)
         \/ /\ pc' = "app"
            /\ \/ err # "ok" /\ stream' = t /\ phase' = "failed"
               \/ /\ err = "ok" /\ stream' = [t EXCEPT !.out_buffer = t.out_buffer \o job.rest]
                  /\ phase' = IF job.finished THEN "receiving" ELSE "sending"
      BY ReturnBlockCases
<1>2. /\ JobInv(phase, job, written) /\ WireInv(conn) /\ stream.body_receiver # "gzip"
      /\ ReturnInv(err, stream, conn, job, written, header)
      BY <1>1 DEF JInv, PcInv
<1>3. /\ stream \in StreamRec /\ conn \in ConnRec /\ (~job.buffered => job.rest = <<>>)
      /\ job.call \in {"none", "simple", "first", "chunked"}
      BY TBasics DEF JobRec
<1>4. t = AfterBlock(stream, job, err)
      OBVIOUS
<1> HIDE DEF t
<1>5. /\ t \in StreamRec /\ t.keep_connection = stream.keep_connection
      /\ t.body_receiver = stream.body_receiver /\ t.should_retry = stream.should_retry
      /\ t.out_buffer = IF err = "ok" /\ job.buffered THEN <<>> ELSE stream.out_buffer
      /\ t.user_headers =
            (stream.user_headers /\ ~(err = "ok" /\ job.call \in {"simple", "first"}))
      /\ t.chunked_sending =
            (stream.chunked_sending /\ ~(err = "ok" /\ job.finished /\ job.call = "chunked"))
      BY SMTT(30), <1>3, <1>4, AfterBlockFacts
<1>6. CASE err # "ok" /\ pc' = "app" /\ stream' = t /\ phase' = "failed"
  <2>1. ~t.chunked_sending => Ready(t, conn)
    <3>1. t.chunked_sending = (stream.chunked_sending /\ TRUE)
          BY <1>5, <1>6
    <3>2. ~t.chunked_sending => ~stream.chunked_sending
          BY <3>1
    <3> QED BY <1>2, <1>5, <1>6, <3>2, ReadyFor DEF ReturnInv
  <2>2. AppInv("failed", t, conn, written, header)
        BY <2>1 DEF AppInv
  <2>3. PcInv("app", "failed", err', t, conn, job', written, header)
        BY <2>2 DEF PcInv
  <2> QED BY <1>1, <1>2, <1>5, <1>6, <2>3 DEF JInv
<1>7. CASE err = "ok"
  <2> DEFINE r == Len(job.rest)
  <2>1. /\ ~t.should_retry /\ ~t.user_headers
        /\ t.out_buffer = <<>>
    <3>1. ~stream.should_retry /\ (job.call = "chunked" => ~stream.user_headers)
          BY <1>2, <1>7 DEF ReturnInv
    <3>2. job.call # "none" /\ (job.finished => job.buffered)
          BY <1>2 DEF JobInv
    <3>3. ~job.finished /\ ~job.buffered => stream.out_buffer = <<>>
          BY <1>2, <1>7 DEF ReturnInv, UnendedInv
    <3> QED BY <1>3, <1>5, <1>7, <3>1, <3>2, <3>3
  <2>2. /\ job.rest \in Data /\ r \in Nat /\ written \in Nat /\ BodySend \in Nat
        /\ (job.rest = <<>> => r = 0) /\ (r # 0 => job.rest # <<>>)
        BY JobSizes, HttpAssumption
  <2>3. <<>> \o job.rest = job.rest
        BY <2>2, ConcatEmptySeq DEF Data
  <2>4. CASE job.finished
    <3>1. EndedInv(stream, conn, written, header) /\ job.rest = <<>>
          BY <1>2, <1>7, <2>4 DEF ReturnInv, JobInv
    <3>2. ~t.chunked_sending /\ t.body_receiver # Null /\ Ready(t, conn)
          /\ Delivered(conn, written, header)
          BY <1>5, <3>1, ReadyFor DEF EndedInv
    <3>3. ~(r > BodySend)
      <4> HIDE DEF r
      <4> QED BY SMTT(30), <2>2, <3>1
    <3>4. /\ pc' = "app" /\ phase' = "receiving"
          /\ stream' = [t EXCEPT !.out_buffer = <<>>]
          BY <1>1, <1>7, <2>1, <2>3, <2>4, <3>1, <3>3
    <3>5. stream' = t
          BY <1>5, <2>1, <3>4 DEF StreamRec
    <3>6. ReceivingInv(t, conn, written, header)
          BY <2>1, <3>2 DEF ReceivingInv
    <3>7. PcInv("app", "receiving", err', t, conn, job', written, header)
          BY <3>6 DEF PcInv, AppInv
    <3> QED BY <1>1, <1>2, <1>5, <3>4, <3>5, <3>7 DEF JInv
  <2>5. CASE ~job.finished
    <3>1. /\ stream.body_receiver = Null /\ stream.chunked_sending
          /\ r <= written /\ Run(job.rest, written - r + 1)
          /\ InRequest(conn, written - r, header)
          BY <1>2, <1>7, <2>5 DEF ReturnInv, UnendedInv
    <3>2. t.chunked_sending /\ t.body_receiver = Null /\ written > 0 /\ phase = "sending"
      <4>1. t.chunked_sending = (TRUE /\ ~FALSE)
            BY <1>3, <1>5, <2>5, <3>1 DEF StreamRec
      <4> QED BY <1>2, <1>5, <2>5, <3>1, <4>1 DEF JobInv
    <3>3. CASE /\ r > BodySend /\ UNCHANGED phase
               /\ SendBlock(t, FALSE, job.rest, FALSE, <<>>)
      <4>1. job.rest # <<>>
        <5>1. r # 0
          <6> HIDE DEF r
          <6> QED BY SMTT(30), <2>2, <3>3
        <5> QED BY <2>2, <5>1
      <4>2. <<>> \in Data
            BY SMTT(30) DEF Data
      <4> DEFINE j == job'
                 u == stream'
      <4>3. /\ u \in StreamRec /\ SameAtStart(u, t)
            /\ u.chunked_sending = (t.chunked_sending \/ ~FALSE)
            /\ j \in JobRec /\ j.finished = FALSE /\ j.data = job.rest
            /\ j.buffered = FALSE /\ j.rest = <<>>
            /\ j.call = IF t.chunked_sending THEN "chunked"
                        ELSE IF FALSE THEN "simple" ELSE "first"
            /\ err' = "ok"
            /\ pc' = IF t.chunked_sending THEN ChunkStep(j) ELSE "prepare"
            BY <1>5, <2>2, <3>3, <4>2, SendBlockFacts
      <4> HIDE DEF j, u
      <4>4. /\ j.call = "chunked" /\ pc' = "chunk" /\ u.chunked_sending
            BY <3>2, <4>1, <4>3 DEF ChunkStep
      <4>5. /\ u.body_receiver = Null /\ ~u.should_retry /\ ~u.user_headers
            /\ u.out_buffer = <<>>
            BY <2>1, <3>2, <4>3 DEF SameAtStart
      <4>6. Len(j.data) = r /\ Len(j.rest) = 0
            BY SMTT(30), <4>3
      <4>7. /\ written - r - 0 = written - r /\ written - r \in Nat
            /\ written - r + r + 0 = written /\ written - r + 1 + r \in Nat
        <5> HIDE DEF r
        <5> QED BY SMTT(30), <2>2, <3>1
      <4>8. Payload(j, u, written - r, written)
        <5>1. Run(j.rest, written - r + 1 + r)
              BY <4>3, <4>7, EmptyUnits
        <5> QED BY <3>1, <4>3, <4>5, <4>6, <4>7, <5>1 DEF Payload
      <4>9. ChunkInv(u, conn, j, written, header)
            BY <3>1, <4>1, <4>3, <4>4, <4>5, <4>6, <4>7, <4>8 DEF ChunkInv, Sending
      <4>10. JobInv("sending", j, written)
            BY <3>2, <4>3, <4>4 DEF JobInv
      <4>11. PcInv("chunk", "sending", "ok", u, conn, j, written, header)
            BY <4>9, <4>10 DEF PcInv
      <4>12. u.body_receiver # "gzip"
            BY <4>5 DEF Null
      <4> QED BY <1>1, <1>2, <3>2, <3>3, <4>3, <4>4, <4>11, <4>12 DEF JInv, j, u
    <3>4. CASE /\ pc' = "app" /\ phase' = "sending"
               /\ stream' = [t EXCEPT !.out_buffer = job.rest]
      <4> DEFINE u == stream'
      <4>1. /\ u.out_buffer = job.rest /\ u.body_receiver = Null
            /\ ~u.user_headers /\ ~u.should_retry /\ u.chunked_sending
            BY <1>5, <2>1, <3>2, <3>4 DEF StreamRec
      <4> HIDE DEF u
      <4>2. ChunkedInv(u, conn, written, header)
            BY <3>1, <3>2, <4>1 DEF ChunkedInv
      <4>3. PcInv("app", "sending", err', u, conn, job', written, header)
            BY <4>1, <4>2 DEF PcInv, AppInv
      <4>4. u.body_receiver # "gzip"
            BY <4>1 DEF Null
      <4> QED BY <1>1, <1>2, <3>4, <4>3, <4>4 DEF JInv, u
    <3> QED BY <1>1, <1>7, <2>1, <2>3, <2>5, <3>3, <3>4
  <2> QED BY <2>4, <2>5
<1> QED BY <1>1, <1>6, <1>7

\* The request a call of the application continues or starts.
RequestInv(s, c, w, h) ==
    IF s.chunked_sending THEN ChunkedInv(s, c, w, h) ELSE BufferedInv(s, c, w, h)

\* A call that is allowed continues the request, or starts one with nothing
\* in the buffer.
LEMMA RequestStart ==
    ASSUME TInv, JInv, CallAllowed, NEW w, w = RequestSoFar,
           NEW h, h = (header /\ phase = "sending")
    PROVE  /\ RequestInv(stream, conn, w, h) /\ w \in Nat /\ w <= MaxBody
           /\ pc = "app" /\ WireInv(conn) /\ stream.body_receiver # "gzip"
<1>1. /\ pc = "app" /\ phase \in {"sending", "receiving"} /\ WireInv(conn)
      /\ stream.body_receiver # "gzip" /\ AppInv(phase, stream, conn, written, header)
      BY DEF JInv, PcInv, CallAllowed
<1>2. written \in Nat /\ written <= MaxBody /\ 0 \in Nat /\ 0 <= MaxBody
      BY SMTT(30), TBasics, HttpAssumption
<1>3. CASE phase = "sending"
  <2>1. w = written /\ h = header
        BY <1>3, TBasics DEF RequestSoFar
  <2> QED BY <1>1, <1>2, <1>3, <2>1 DEF AppInv, RequestInv
<1>4. CASE phase = "receiving"
  <2>1. w = 0 /\ h = FALSE
        BY <1>4 DEF RequestSoFar
  <2>2. ReceivingInv(stream, conn, written, header)
        BY <1>1, <1>4 DEF AppInv
  <2>3. stream.user_headers = FALSE /\ stream.chunked_sending = FALSE
        BY <2>2, TBasics DEF ReceivingInv, StreamRec
  <2>4. Units(1, 0) = <<>>
        BY SMT, EmptyUnits
  <2>5. BufferedInv(stream, conn, 0, FALSE)
        BY <2>2, <2>3, <2>4 DEF BufferedInv, ReceivingInv
  <2> QED BY <1>1, <1>2, <2>1, <2>3, <2>5 DEF RequestInv
<1> QED BY <1>1, <1>3, <1>4

\* What avs_stream_write and avs_stream_finish_message do when they send.
LEMMA SendsJ ==
    ASSUME TInv, JInv,
           NEW w \in Nat, NEW h, RequestInv(stream, conn, w, h),
           NEW finished \in BOOLEAN, NEW rest \in Data,
           SendBlock(stream, finished, stream.out_buffer, TRUE, rest),
           Run(rest, w + 1), conn' = conn, written' = w + Len(rest), header' = h,
           phase' = "sending", finished => rest = <<>>, ~finished => written' > 0
    PROVE  JInv'
<1> DEFINE o == stream.out_buffer
           d == Len(o)
           r == Len(rest)
           u == stream'
           j == job'
           v == written'
<1>1. o \in Data /\ d \in Nat /\ r \in Nat /\ (o = <<>> => d = 0) /\ (rest = <<>> => r = 0)
  <2>1. o \in Data
        BY TBasics DEF StreamRec
  <2> HIDE DEF o
  <2> QED BY SMTT(30), <2>1 DEF Data
<1>2. /\ u \in StreamRec /\ SameAtStart(u, stream)
      /\ u.chunked_sending = (stream.chunked_sending \/ ~finished)
      /\ j \in JobRec /\ j.finished = finished /\ j.data = o
      /\ j.buffered = TRUE /\ j.rest = rest
      /\ j.call = IF stream.chunked_sending THEN "chunked"
                  ELSE IF finished THEN "simple" ELSE "first"
      /\ err' = "ok"
      /\ pc' = IF stream.chunked_sending THEN ChunkStep(j) ELSE "prepare"
  <2>1. TRUE \in BOOLEAN /\ stream \in StreamRec /\ stream.out_buffer \in Data
        BY <1>1, TBasics
  <2> QED BY <2>1, SendBlockFacts
<1>3. /\ stream.body_receiver # "gzip" /\ WireInv(conn)
      /\ v = w + r /\ (finished => rest = <<>>) /\ (~finished => v > 0)
      BY DEF JInv
<1>4. Len(j.data) = d /\ Len(j.rest) = r /\ o = stream.out_buffer
      BY <1>2
<1> SUFFICES PcInv(pc', "sending", err', u, conn, j, v, h)
  <2>1. u.body_receiver # "gzip"
        BY <1>2, <1>3 DEF SameAtStart
  <2> QED BY <1>3, <2>1 DEF JInv
<1> HIDE DEF o, d, r, u, j, v
<1>5. CASE stream.chunked_sending
  <2>1. ChunkedInv(stream, conn, w, h)
        BY <1>5 DEF RequestInv
  <2>2. /\ stream.body_receiver = Null /\ ~stream.user_headers /\ ~stream.should_retry
        /\ w > 0 /\ d <= w /\ Run(o, w - d + 1) /\ InRequest(conn, w - d, h)
        BY <1>4, <2>1 DEF ChunkedInv, d
  <2>3. /\ u.body_receiver = Null /\ ~u.user_headers /\ ~u.should_retry
        /\ u.out_buffer = o /\ u.chunked_sending = TRUE /\ j.call = "chunked"
        /\ pc' = ChunkStep(j)
        BY <1>2, <1>4, <1>5, <2>2 DEF SameAtStart
  <2>4. /\ v - d - r = w - d /\ w - d \in Nat /\ w - d + 1 + d = w + 1
        /\ w - d + d + r = v /\ v > 0 /\ r <= v /\ v - r + 1 = w + 1 /\ v - r = w
        BY SMTT(30), <1>1, <1>3, <2>2
  <2>5. JobInv("sending", j, v)
        BY <1>2, <1>3, <2>3, <2>4 DEF JobInv
  <2>6. CASE o # <<>>
    <3>1. pc' = "chunk"
          BY <1>2, <2>3, <2>6 DEF ChunkStep
    <3>2. Payload(j, u, w - d, v)
          BY <1>2, <1>4, <2>2, <2>3, <2>4 DEF Payload
    <3>3. ChunkInv(u, conn, j, v, h)
          BY <1>2, <1>4, <2>2, <2>3, <2>4, <2>6, <3>2 DEF ChunkInv, Sending
    <3> QED BY <2>5, <3>1, <3>3 DEF PcInv
  <2>7. CASE o = <<>>
    <3>1. d = 0 /\ w - d = w
          BY SMTT(30), <1>1, <2>7
    <3>2. InRequest(conn, w, h)
          BY <2>2, <3>1
    <3>3. CASE finished
      <4>1. pc' = "last"
            BY <1>2, <2>3, <2>7, <3>3 DEF ChunkStep
      <4>2. v = w
            BY SMTT(30), <1>1, <1>3, <3>3
      <4>3. LastInv(u, conn, j, v, h)
            BY <1>2, <2>3, <3>2, <3>3, <4>2 DEF LastInv, Sending
      <4> QED BY <2>5, <4>1, <4>3 DEF PcInv
    <3>4. CASE ~finished
      <4>1. pc' = "return"
            BY <1>2, <2>3, <2>7, <3>4 DEF ChunkStep
      <4>2. UnendedInv(u, conn, j, v, h)
            BY <1>2, <1>4, <2>3, <2>4, <3>2 DEF UnendedInv
      <4>3. ReturnInv(err', u, conn, j, v, h)
            BY <1>2, <2>3, <3>4, <4>2 DEF ReturnInv
      <4> QED BY <2>5, <4>1, <4>3 DEF PcInv
    <3> QED BY <3>3, <3>4
  <2> QED BY <2>6, <2>7
<1>6. CASE ~stream.chunked_sending
  <2>1. o = Units(1, w) /\ stream.user_headers = h /\ Ready(stream, conn)
        BY <1>4, <1>6 DEF RequestInv, BufferedInv
  <2>2. d = w /\ Run(o, 1)
        BY SMTT(30), <2>1, RunUnits DEF d
  <2>3. /\ j.call = (IF finished THEN "simple" ELSE "first") /\ pc' = "prepare"
        /\ u.chunked_sending = ~finished /\ u.out_buffer = o /\ u.user_headers = h
        BY <1>2, <1>4, <1>6, <2>1 DEF SameAtStart
  <2>4. /\ 0 + 1 = 1 /\ 0 + 1 + d = w + 1 /\ 0 + d + r = v /\ 0 \in Nat
        BY SMTT(30), <1>1, <1>3, <2>2
  <2>5. Payload(j, u, 0, v)
        BY <1>2, <1>4, <2>2, <2>3, <2>4 DEF Payload
  <2>6. Ready(u, conn)
        BY <1>2, <2>1, ReadyFor DEF SameAtStart
  <2>7. /\ j.call \in {"simple", "first"} /\ u.chunked_sending = (j.call = "first")
        BY <2>3
  <2>8. PrepareInv(u, conn, j, v, h)
        BY <2>3, <2>5, <2>6, <2>7 DEF PrepareInv, Again
  <2>9. JobInv("sending", j, v)
        BY <1>2, <1>3, <2>3 DEF JobInv
  <2> QED BY <2>3, <2>8, <2>9 DEF PcInv
<1> QED BY <1>5, <1>6

\* avs_stream_finish_message keeps JInv.
LEMMA FinishJ ==
    ASSUME TInv, JInv, Finish
    PROVE  JInv'
<1> DEFINE w == RequestSoFar
           h == header /\ phase = "sending"
<1>1. /\ CallAllowed /\ written' = w /\ header' = h /\ phase' = "sending"
      /\ SendBlock(stream, TRUE, stream.out_buffer, TRUE, <<>>) /\ conn' = conn
      BY DEF Finish
<1> HIDE DEF h, w
<1>2. RequestInv(stream, conn, w, h) /\ w \in Nat
      BY <1>1, RequestStart DEF h, w
<1>3. <<>> \in Data /\ w + Len(<<>>) = w
      BY SMT, <1>2 DEF Data
<1>4. Run(<<>>, w + 1)
  <2>1. w + 1 \in Nat
        BY SMT, <1>2
  <2> QED BY <2>1, EmptyUnits
<1>5. TRUE \in BOOLEAN
      OBVIOUS
<1> QED BY <1>1, <1>2, <1>3, <1>4, <1>5, SendsJ

\* avs_stream_write keeps JInv: units are sent or buffered in the order they
\* were written.
LEMMA WriteJ ==
    ASSUME TInv, JInv, NEW n \in WriteSizes, Write(n)
    PROVE  JInv'
<1> DEFINE w == RequestSoFar
           h == header /\ phase = "sending"
           data == Units(w + 1, n)
<1>1. /\ CallAllowed /\ w + n <= MaxBody /\ written' = w + n /\ header' = h
      /\ phase' = "sending" /\ conn' = conn
      /\ \/ SendBlock(stream, FALSE, stream.out_buffer, TRUE, data)
         \/ /\ stream' = [stream EXCEPT !.out_buffer = stream.out_buffer \o data]
            /\ pc' = pc
      BY DEF Write
<1> HIDE DEF h, w
<1>2. /\ RequestInv(stream, conn, w, h) /\ w \in Nat /\ pc = "app" /\ WireInv(conn)
      /\ stream.body_receiver # "gzip"
      BY <1>1, RequestStart DEF h, w
<1>3. n \in Nat /\ n > 0 /\ w + 1 \in Nat /\ w + n > 0
      BY SMTT(30), <1>2, HttpAssumption
<1>4. data \in Data /\ Len(data) = n /\ Run(data, w + 1)
  <2>1. w + 1 >= 1 /\ w + 1 + n <= MaxBody + 1
        BY SMTT(30), <1>1, <1>2, <1>3, HttpAssumption
  <2> QED BY <1>3, <2>1, UnitsFacts, RunUnits
<1> HIDE DEF data
<1>5. CASE SendBlock(stream, FALSE, stream.out_buffer, TRUE, data)
  <2>1. FALSE \in BOOLEAN /\ written' = w + Len(data) /\ written' > 0
        BY <1>1, <1>3, <1>4
  <2> QED BY <1>1, <1>2, <1>4, <1>5, <2>1, SendsJ
<1>6. CASE stream' = [stream EXCEPT !.out_buffer = stream.out_buffer \o data] /\ pc' = pc
  <2> DEFINE o == stream.out_buffer
             q == o \o data
             u == stream'
             d == Len(o)
             v == w + n
  <2>1. o \in Data /\ d \in Nat
    <3>1. o \in Data
          BY TBasics DEF StreamRec
    <3> QED BY SMTT(30), <3>1 DEF Data
  <2>2. /\ u.out_buffer = q /\ u.chunked_sending = stream.chunked_sending
        /\ u.keep_connection = stream.keep_connection
        /\ u.body_receiver = stream.body_receiver /\ u.should_retry = stream.should_retry
        /\ u.user_headers = stream.user_headers
        BY <1>6, TBasics DEF StreamRec
  <2>3. o = stream.out_buffer /\ v = w + n /\ d = Len(o)
        OBVIOUS
  <2> SUFFICES AppInv("sending", u, conn, v, h)
    <3>1. PcInv("app", "sending", err', u, conn, job', v, h)
          BY DEF PcInv
    <3> QED BY <1>1, <1>2, <1>6, <2>2, <3>1 DEF JInv
  <2> HIDE DEF u, d, v
  <2>4. CASE stream.chunked_sending
    <3>1. /\ stream.body_receiver = Null /\ ~stream.user_headers /\ ~stream.should_retry
          /\ d <= w /\ Run(o, w - d + 1) /\ InRequest(conn, w - d, h)
          BY <1>2, <2>3, <2>4 DEF RequestInv, ChunkedInv
    <3>2. w - d + 1 \in Nat /\ w - d + 1 + d = w + 1
          BY SMTT(30), <1>2, <2>1, <3>1
    <3>3. Len(q) = d + n /\ Run(q, w - d + 1)
      <4> HIDE DEF o, q
      <4> QED BY <1>4, <2>1, <2>3, <3>1, <3>2, RunConcat DEF q
    <3>4. d + n <= v /\ v > 0 /\ v - (d + n) + 1 = w - d + 1 /\ v - (d + n) = w - d
          BY SMTT(30), <1>2, <1>3, <2>1, <2>3, <3>1
    <3> HIDE DEF o, q
    <3>5. ChunkedInv(u, conn, v, h)
          BY <2>2, <3>1, <3>3, <3>4 DEF ChunkedInv
    <3> QED BY <2>2, <2>4, <3>5 DEF AppInv
  <2>5. CASE ~stream.chunked_sending
    <3>1. o = Units(1, w) /\ stream.user_headers = h /\ Ready(stream, conn)
          BY <1>2, <2>5 DEF RequestInv, BufferedInv
    <3>2. 1 \in Nat /\ 1 + w = w + 1
          BY SMTT(30), <1>2
    <3>3. q = Units(1, v)
      <4>1. Units(1, w) \o Units(1 + w, n) = Units(1, w + n)
            BY <1>2, <1>3, <3>2, UnitsConcat
      <4> QED BY <2>3, <3>1, <3>2, <4>1 DEF data
    <3>4. BufferedInv(u, conn, v, h)
          BY <2>2, <3>1, <3>3, ReadyFor DEF BufferedInv
    <3> QED BY <2>2, <2>5, <3>4 DEF AppInv
  <2> QED BY <2>4, <2>5
<1> QED BY <1>1, <1>5, <1>6

\* Between requests.
LEMMA EmptyRequest ==
    ASSUME NEW s \in StreamRec, NEW c, s.out_buffer = <<>>, ~s.user_headers,
           ~s.chunked_sending, Ready(s, c)
    PROVE  AppInv("sending", s, c, 0, FALSE)
<1>1. Units(1, 0) = <<>>
      BY SMTT(30), EmptyUnits
<1>2. s.user_headers = FALSE
      BY DEF StreamRec
<1> QED BY <1>1, <1>2 DEF AppInv, BufferedInv

\* What JInv says between calls,
LEMMA AtApplication ==
    ASSUME JInv, pc = "app"
    PROVE  /\ AppInv(phase, stream, conn, written, header) /\ WireInv(conn)
           /\ stream.body_receiver # "gzip"
BY DEF JInv, PcInv

\* and what it takes to have it again.
LEMMA BackToApplication ==
    ASSUME pc' = "app", AppInv(phase', stream', conn', written', header'),
           WireInv(conn'), stream'.body_receiver # "gzip"
    PROVE  JInv'
BY DEF JInv, PcInv

\* avs_http_add_header keeps JInv: the request has not been started.
LEMMA AddHeaderJ ==
    ASSUME TInv, JInv, AddHeader
    PROVE  JInv'
<1>1. /\ pc = "app" /\ phase = "sending" /\ written = 0 /\ ~header
      /\ stream' = [stream EXCEPT !.user_headers = TRUE] /\ header' = TRUE
      /\ UNCHANGED <<conn, pc, phase, written>>
      BY DEF AddHeader
<1>2. /\ AppInv("sending", stream, conn, 0, header) /\ WireInv(conn)
      /\ stream.body_receiver # "gzip"
      BY <1>1, AtApplication
<1>3. ~stream.chunked_sending
  <2>1. ~(0 > 0)
        BY SMT
  <2> QED BY <1>2, <2>1 DEF AppInv, ChunkedInv
<1> DEFINE u == stream'
<1>4. /\ ~u.chunked_sending /\ u.keep_connection = stream.keep_connection
      /\ u.body_receiver = stream.body_receiver /\ u.out_buffer = stream.out_buffer
      /\ u.user_headers = TRUE
      BY <1>1, <1>3, TBasics DEF StreamRec
<1> HIDE DEF u
<1>5. BufferedInv(u, conn, 0, TRUE)
      BY <1>2, <1>3, <1>4, ReadyFor DEF AppInv, BufferedInv
<1>6. AppInv("sending", u, conn, 0, TRUE)
      BY <1>4, <1>5 DEF AppInv
<1> QED BY <1>1, <1>2, <1>4, <1>6, BackToApplication DEF u

\* avs_stream_read keeps JInv: the end of the body leaves a clean connection.
LEMMA ReadJ ==
    ASSUME TInv, JInv, Read
    PROVE  JInv'
<1> DEFINE t == ReceiverClosed(stream)
<1>1. /\ pc = "app" /\ phase = "receiving" /\ pc' = pc /\ stream.body_receiver # Null
      /\ \/ /\ stream' = t /\ phase' = "sending" /\ written' = 0 /\ header' = FALSE
            /\ \E unread \in UnreadAtEnd(stream.body_receiver) :
                  conn' = Exchanged(conn, unread)
         \/ /\ phase' = "failed" /\ UNCHANGED <<conn, written, header>>
            /\ \/ stream' = stream
               \/ stream.body_receiver = "identity" /\ stream' = t
      BY DEF Read
<1>2. /\ ReceivingInv(stream, conn, written, header) /\ WireInv(conn)
      /\ stream.body_receiver # "gzip"
      BY <1>1, AtApplication DEF AppInv
<1>3. /\ ~stream.chunked_sending /\ stream.out_buffer = <<>> /\ ~stream.user_headers
      /\ Ready(stream, conn)
      BY <1>2 DEF ReceivingInv
<1>4. /\ t \in StreamRec /\ t.keep_connection = stream.keep_connection
      /\ t.out_buffer = stream.out_buffer /\ t.body_receiver = Null
      /\ t.chunked_sending = stream.chunked_sending
      /\ t.user_headers = stream.user_headers
      BY TBasics, ReceiverClosedFacts
<1> HIDE DEF t
<1>5. t.body_receiver # "gzip"
      BY <1>4 DEF Null
<1>6. CASE /\ stream' = t /\ phase' = "sending" /\ written' = 0 /\ header' = FALSE
           /\ \E unread \in UnreadAtEnd(stream.body_receiver) :
                 conn' = Exchanged(conn, unread)
  <2>1. conn' = Exchanged(conn, FALSE)
        BY <1>2, <1>6, NothingUnread
  <2>2. WireInv(conn') /\ Ready(t, conn')
        BY <1>1, <1>2, <1>3, <1>4, <2>1, TBasics, ExchangedReady
  <2>3. AppInv("sending", t, conn', 0, FALSE)
        BY <1>3, <1>4, <2>2, EmptyRequest
  <2> QED BY <1>1, <1>5, <1>6, <2>2, <2>3, BackToApplication
<1>7. CASE phase' = "failed" /\ UNCHANGED <<conn, written, header>> /\ stream' = stream
  <2>1. AppInv("failed", stream, conn, written, header)
        BY <1>3 DEF AppInv
  <2> QED BY <1>1, <1>2, <1>7, <2>1, BackToApplication
<1>8. CASE /\ phase' = "failed" /\ UNCHANGED <<conn, written, header>>
           /\ stream.body_receiver = "identity" /\ stream' = t
  <2>1. Ready(t, conn)
        BY <1>3, <1>4, <1>8, NotKeptReady DEF Ready
  <2>2. AppInv("failed", t, conn, written, header)
        BY <2>1 DEF AppInv
  <2> QED BY <1>1, <1>2, <1>5, <1>8, <2>2, BackToApplication
<1> QED BY <1>1, <1>6, <1>7, <1>8

\* avs_stream_reset keeps JInv: the connection is kept only when it is clean.
LEMMA ResetJ ==
    ASSUME TInv, JInv, Reset
    PROVE  JInv'
<1>1. /\ pc = "app" /\ pc' = pc /\ phase' = "sending" /\ written' = 0 /\ header' = FALSE
      BY DEF Reset
<1>2. PICK keep \in BOOLEAN : \E b \in BOOLEAN :
          stream' = ResetStream(stream, keep, b) /\ ResetCase(keep)
      BY ResetCases
<1>3. PICK b \in BOOLEAN : stream' = ResetStream(stream, keep, b) /\ ResetCase(keep)
      BY <1>2
<1>4. /\ stream' \in StreamRec /\ stream'.keep_connection = keep
      /\ stream'.out_buffer = <<>> /\ ~stream'.chunked_sending
      /\ stream'.body_receiver = Null /\ ~stream'.user_headers
  <2>1. stream \in StreamRec
        BY TBasics
  <2> DEFINE t == ResetStream(stream, keep, b)
  <2>2. /\ t \in StreamRec /\ t.keep_connection = keep /\ t.out_buffer = <<>>
        /\ ~t.chunked_sending /\ t.body_receiver = Null /\ ~t.user_headers
        BY <2>1, ResetFacts
  <2>3. stream' = t
        BY <1>3
  <2> HIDE DEF t
  <2> QED BY <2>2, <2>3
<1>5. /\ WireInv(conn) /\ stream.body_receiver # "gzip"
      /\ ~stream.chunked_sending => Ready(stream, conn)
  <2>1. /\ AppInv(phase, stream, conn, written, header) /\ WireInv(conn)
        /\ stream.body_receiver # "gzip"
        BY <1>1, AtApplication
  <2>2. phase \in {"sending", "receiving", "failed"}
        BY TBasics
  <2> QED BY <2>1, <2>2 DEF AppInv, BufferedInv, ReceivingInv
<1>6. WireInv(conn') /\ Ready(stream', conn')
  <2>1. CASE /\ keep => stream.keep_connection /\ ~stream.chunked_sending
                        /\ stream.body_receiver = Null
             /\ UNCHANGED conn
    <3>1. CASE keep
          BY <1>4, <1>5, <2>1, <3>1, ReadyFor DEF StreamRec
    <3>2. CASE ~keep
          BY <1>4, <1>5, <2>1, <3>2, NotKeptReady
    <3> QED BY <3>1, <3>2
  <2>2. CASE /\ stream.keep_connection /\ ~stream.chunked_sending
             /\ stream.body_receiver # Null
             /\ \E unread \in UnreadAtEnd(stream.body_receiver) :
                   conn' = Exchanged(conn, unread)
    <3>1. conn' = Exchanged(conn, FALSE)
          BY <1>5, <2>2, NothingUnread
    <3> QED BY <1>4, <1>5, <2>2, <3>1, TBasics, ExchangedReady
  <2> QED BY <1>3, <2>1, <2>2 DEF ResetCase
<1>7. AppInv("sending", stream', conn', 0, FALSE)
      BY <1>4, <1>6, EmptyRequest
<1>8. stream'.body_receiver # "gzip"
      BY <1>4 DEF Null
<1> QED BY <1>1, <1>6, <1>7, <1>8, BackToApplication

\* A stream just opened satisfies JInv.
LEMMA NewJ ==
    /\ AppInv("sending", NewStream, NewConn(FirstURL), 0, FALSE)
    /\ WireInv(NewConn(FirstURL)) /\ NewStream.body_receiver # "gzip"
<1>1. FirstURL \in URLs
      BY HttpAssumption
<1>2. WireInv(NewConn(FirstURL)) /\ NewConn(FirstURL).up /\ Reusable(NewConn(FirstURL))
      BY <1>1, NewConnJ, NewConnFacts
<1>3. NewStream.body_receiver = Null
      BY NewStreamFacts
<1>4. Ready(NewStream, NewConn(FirstURL)) /\ NewStream.body_receiver # "gzip"
      BY <1>2, <1>3 DEF Ready, Null
<1> QED BY <1>2, <1>4, NewStreamFacts, EmptyRequest

\* JInv holds at first,
LEMMA InitJ == Init => JInv
BY NewJ DEF Init, JInv, PcInv

\* and after the stream is opened again.
LEMMA ReopenJ ==
    ASSUME JInv, Reopen
    PROVE  JInv'
BY NewJ, BackToApplication DEF Reopen

-----------------------------------------------------------------------------
(* The theorems.                                                           *)

\* Every step keeps JInv.
LEMMA NextJ ==
    ASSUME Orderly
    PROVE  TInv /\ JInv /\ [Next]_vars => JInv'
<1> SUFFICES ASSUME TInv, JInv, [Next]_vars PROVE JInv'
    OBVIOUS
<1>1. TInv'
      BY NextTypes
<1>2. CASE Client
      BY <1>1, <1>2, ReturnBlockJ, PrepareJ, SendHeadersJ, SendChunkJ, SendLastChunkJ,
         ReceiveFailsJ, InformationalJ, ResponseJ, DrainJ DEF Client
<1>3. CASE Application
  <2>1. ~RetryWithoutReset
        BY DEF Orderly, RetryWithoutReset
  <2> QED BY <1>3, <2>1, WriteJ, FinishJ, AddHeaderJ, ReadJ, ResetJ, ReopenJ
          DEF Application
<1>4. CASE Server
      BY <1>1, <1>4, ServerJ
<1>5. CASE UNCHANGED vars
      BY <1>5 DEF JInv, vars
<1> QED BY <1>2, <1>3, <1>4, <1>5 DEF Next

\* On orderly servers and applications the inductive invariant holds: the
\* stream and the server agree on what of the request has been delivered.
THEOREM ProgressAgreed ==
    ASSUME Orderly
    PROVE  Spec => []JInv
<1>1. TInv /\ JInv /\ [Next]_vars => JInv'
      BY NextJ
<1>2. TInv /\ [Next]_vars => TInv'
      BY NextTypes
<1> QED BY <1>1, <1>2, InitTypes, InitJ, PTL DEF Spec

\* A request goes out only on a connected socket with nothing of an earlier
\* exchange on it, whatever was retried, redirected, read or reset before.
THEOREM RequestsStartClean ==
    ASSUME Orderly
    PROVE  Spec => []CleanBeforeRequest
<1>1. JInv => CleanBeforeRequest
      BY DEF JInv, PcInv, SendInv, CleanBeforeRequest
<1> QED BY <1>1, ProgressAgreed, PTL

\* When avs_stream_finish_message succeeds, the server that answered has
\* exactly the units the application wrote, in order and once, and its
\* header; and avs_http_should_retry does not ask for another attempt.
THEOREM RequestsDelivered ==
    ASSUME Orderly
    PROVE  Spec => []RequestsIntact
<1>1. JInv => RequestsIntact
      BY DEF JInv, PcInv, AppInv, ReceivingInv, Delivered, RequestsIntact, RequestIntact,
             NoRetryAfterSuccess
<1> QED BY <1>1, ProgressAgreed, PTL

\* The stream's buffer, counters and flags keep their bounds, and between
\* calls it has a body receiver when it is receiving and none in the middle
\* of a chunked request.
THEOREM StreamStaysConsistent ==
    ASSUME Orderly
    PROVE  Spec => []StreamConsistent
<1>1. TInv /\ JInv => ReceiverIffReceiving
  <2> SUFFICES ASSUME TInv, JInv, pc = "app", phase # "failed"
               PROVE  /\ phase = "receiving" => stream.body_receiver # Null
                      /\ stream.chunked_sending => stream.body_receiver = Null
      BY DEF ReceiverIffReceiving
  <2>1. AppInv(phase, stream, conn, written, header)
        BY AtApplication
  <2>2. phase \in {"sending", "receiving", "failed"}
        BY TBasics
  <2> QED BY <2>1, <2>2 DEF AppInv, ReceivingInv, ChunkedInv
<1>2. TInv /\ JInv => StreamConsistent
      BY <1>1, TypeOKFollows DEF StreamConsistent
<1> QED BY <1>2, TypesHold, ProgressAgreed, PTL

=============================================================================
