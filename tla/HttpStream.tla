----------------------------- MODULE HttpStream -----------------------------
(***************************************************************************)
(* One HTTP client stream, src/src/http/: the request and response state   *)
(* machine behind avs_stream_write, avs_stream_finish_message,             *)
(* avs_stream_read and avs_stream_reset, with its retries after a closed   *)
(* connection, 401, 417 and redirects, against a server that may close the *)
(* connection at any moment.  The client is one thread: a step is one      *)
(* blocking exchange with the socket, and between two of them the server   *)
(* acts.  Bodies are sequences of units numbered from 1 in the order the   *)
(* application writes them.                                                *)
(***************************************************************************)
EXTENDS Integers, Sequences, FiniteSets

CONSTANTS
    URLs,
    HttpsURLs,        \* those of protocol https
    FirstURL,         \* the URL given to avs_http_open_stream
    Credentials,      \* credentials.user or credentials.password is set
    HTTP_MOVE_LIMIT,
    BodySend,         \* buffer_sizes.body_send, in units
    MaxBody,          \* bound: units in a request
    MaxWire,          \* bound: responses on their way to the client
    WriteSizes,       \* units in one avs_stream_write
    Responses,        \* final responses of the server
    EarlyResponses,   \* those it may send before it has the request body
    Informational,    \* 1xx statuses of the server
    SendsFail,        \* a send may fail half way on a live connection
    ResetsOnError,    \* the application resets the stream after every error
    NoURL

ASSUME HttpAssumption ==
    /\ HttpsURLs \subseteq URLs /\ FirstURL \in URLs /\ NoURL \notin URLs
    /\ Credentials \in BOOLEAN
    /\ HTTP_MOVE_LIMIT \in Nat /\ BodySend \in Nat
    /\ MaxBody \in Nat /\ MaxWire \in Nat
    /\ WriteSizes \subseteq Nat \ {0}
    /\ EarlyResponses \subseteq Responses
    /\ Informational \subseteq 100 .. 199
    /\ SendsFail \in BOOLEAN /\ ResetsOnError \in BOOLEAN

\* A final response: its status, how its body is framed, what it says of
\* authentication, and whether it has a header field that cannot be parsed.
FinalResponse ==
    [status: 0 .. 599, framing: {"length", "chunked", "identity", "gzip"},
     challenge: {"absent", "known", "unknown"}, close: BOOLEAN,
     location: URLs \cup {NoURL}, malformed: BOOLEAN]

ASSUME ResponseAssumption ==
    Responses \subseteq {r \in FinalResponse : r.status \div 100 # 1}

VARIABLES
    stream,      \* http_stream_t
    conn,        \* the connection and the server's side of it
    pc,          \* what the client does next
    job,         \* the http_send_block in progress
    err,         \* avs_error_t of the call in progress
    phase,       \* application: "sending", "receiving" or "failed"
    written,     \* application: units written for this request
    header,      \* application: this request has a header of its own
    asked        \* ghost: the server of stream.url sent WWW-Authenticate

vars == <<stream, conn, pc, job, err, phase, written, header, asked>>

app == <<phase, written, header>>

Null == "NULL"

\* What kind of error matters to update_flags_after_receiving_headers.
Errors == {"ok", "http", "errno"}

-----------------------------------------------------------------------------
(* The connection, as the server sees it.                                  *)

NewConn(url) ==
    [up |-> TRUE,          \* the client's socket is connected
     peer |-> TRUE,        \* the server has not closed
     url |-> url,
     request |-> "none",   \* "none", "headers", "complete" or "broken"
     header |-> FALSE,     \* the application's header was sent
     authorised |-> FALSE, \* Authorization was sent
     body |-> <<>>,
     informed |-> FALSE,   \* a 1xx response was sent
     answered |-> FALSE,   \* the final response was sent
     wire |-> <<>>,        \* responses the client has not read
     unread |-> FALSE]     \* part of a response body is still to be read

Closed(c) == [c EXCEPT !.up = FALSE, !.peer = FALSE]

\* The server takes a request line and headers; BODY is the content sent
\* with Content-Length, and MORE says that chunks follow.
TakeHeaders(c, s, body, more) ==
    IF c.peer /\ c.request # "broken"
    THEN [c EXCEPT !.request = IF more THEN "headers" ELSE "complete",
                   !.header = s.user_headers,
                   !.authorised = s.auth_type # "NONE",
                   !.body = body, !.informed = FALSE, !.answered = FALSE]
    ELSE c

\* A chunk out of place, or beyond MaxBody units, is taken for garbage.
TakeChunk(c, data) ==
    IF ~c.peer THEN c
    ELSE IF c.request = "headers" /\ Len(c.body \o data) <= MaxBody
    THEN [c EXCEPT !.request = IF data = <<>> THEN "complete" ELSE "headers",
                   !.body = @ \o data]
    ELSE [c EXCEPT !.request = "broken"]

\* Nothing of an earlier exchange is left to read, and a server that is
\* still there waits for a request.
Reusable(c) ==
    /\ c.wire = <<>>
    /\ ~c.unread
    /\ \/ ~c.peer
       \/ c.request = "none"
       \/ c.answered /\ c.request = "complete"
       \/ c.answered /\ c.request = "headers" /\ c.body = <<>>

\* The exchange is over for the client; UNREAD bytes of it may be left.
Exchanged(c, unread) ==
    LET d == [c EXCEPT !.unread = FALSE] IN
    IF Reusable(d) /\ d.request # "broken"
    THEN [NewConn(c.url) EXCEPT !.peer = c.peer, !.unread = unread]
    ELSE [c EXCEPT !.unread = unread]

ServerInforms(status) ==
    /\ conn.peer /\ conn.request \in {"headers", "complete"}
    /\ ~conn.informed /\ ~conn.answered /\ Len(conn.wire) < MaxWire
    /\ conn' = [conn EXCEPT !.informed = TRUE,
                            !.wire = Append(@, [status |-> status])]
    /\ UNCHANGED <<stream, pc, job, err, app, asked>>

ServerAnswers(r) ==
    /\ conn.peer /\ ~conn.answered /\ Len(conn.wire) < MaxWire
    /\ \/ conn.request = "complete"
       \/ conn.request = "headers" /\ r \in EarlyResponses
    /\ conn' = [conn EXCEPT !.answered = TRUE, !.wire = Append(@, r)]
    /\ UNCHANGED <<stream, pc, job, err, app, asked>>

ServerCloses ==
    /\ conn.peer
    /\ conn' = [conn EXCEPT !.peer = FALSE]
    /\ UNCHANGED <<stream, pc, job, err, app, asked>>

-----------------------------------------------------------------------------
(* The stream.                                                             *)

Https(url) == url \in HttpsURLs

\* With https the credentials are sent without being asked for.
StartAuth(type, url) == IF Credentials /\ Https(url) THEN "KNOWN" ELSE type

NewStream ==
    [chunked_sending |-> FALSE, keep_connection |-> TRUE, no_expect |-> FALSE,
     should_retry |-> FALSE, close_handling_required |-> FALSE,
     auth_type |-> StartAuth("NONE", FirstURL), retried |-> FALSE,
     redirect_count |-> 0, status |-> 0, url |-> FirstURL,
     user_headers |-> FALSE, body_receiver |-> Null, out_buffer |-> <<>>]

NoJob == [call |-> "none", finished |-> FALSE, data |-> <<>>,
          buffered |-> FALSE, rest |-> <<>>]

Init ==
    /\ stream = NewStream
    /\ conn = NewConn(FirstURL)
    /\ pc = "app"
    /\ job = NoJob
    /\ err = "ok"
    /\ phase = "sending"
    /\ written = 0
    /\ header = FALSE
    /\ asked = FALSE

\* The step after the headers of a chunked request, or the start of
\* _avs_http_chunked_send.
ChunkStep(j) ==
    IF j.data # <<>> THEN "chunk" ELSE IF j.finished THEN "last" ELSE "return"

\* http_send_block, of out_buffer when BUFFERED; REST is what
\* _avs_http_send_via_buffer has still to place.
SendBlock(s, finished, data, buffered, rest) ==
    LET call == IF s.chunked_sending THEN "chunked"
                ELSE IF finished THEN "simple" ELSE "first"
        j == [call |-> call, finished |-> finished, data |-> data,
              buffered |-> buffered, rest |-> rest]
    IN  /\ job' = j
        /\ err' = "ok"
        /\ pc' = IF call = "chunked" THEN ChunkStep(j) ELSE "prepare"
        /\ stream' = CASE call = "chunked" -> s
                       [] call = "simple" -> [s EXCEPT !.retried = FALSE]
                       [] OTHER -> [s EXCEPT !.retried = FALSE,
                                             !.chunked_sending = TRUE]

Units(first, n) == [i \in 1 .. n |-> first + i - 1]

\* A call in the receiving state starts the next request.
RequestSoFar == IF phase = "receiving" THEN 0 ELSE written

CallAllowed == pc = "app" /\ phase \in {"sending", "receiving"}

\* The data does not fit in what is left of out_buffer.
NeedsFlush(n) == n > BodySend - Len(stream.out_buffer)

\* http_send_some without an encoder: _avs_http_send_via_buffer
Write(n) ==
    LET data == Units(RequestSoFar + 1, n) IN
    /\ CallAllowed
    /\ RequestSoFar + n <= MaxBody
    /\ written' = RequestSoFar + n
    /\ header' = (header /\ phase = "sending")
    /\ phase' = "sending"
    /\ IF NeedsFlush(n)
       THEN SendBlock(stream, FALSE, stream.out_buffer, TRUE, data)
       ELSE /\ stream' = [stream EXCEPT !.out_buffer = @ \o data]
            /\ UNCHANGED <<pc, job, err>>
    /\ UNCHANGED <<conn, asked>>

\* http_finish
Finish ==
    /\ CallAllowed
    /\ written' = RequestSoFar
    /\ header' = (header /\ phase = "sending")
    /\ phase' = "sending"
    /\ SendBlock(stream, TRUE, stream.out_buffer, TRUE, <<>>)
    /\ UNCHANGED <<conn, asked>>

\* avs_http_add_header
AddHeader ==
    /\ pc = "app" /\ phase = "sending" /\ written = 0 /\ ~header
    /\ ~stream.user_headers
    /\ stream' = [stream EXCEPT !.user_headers = TRUE]
    /\ header' = TRUE
    /\ UNCHANGED <<conn, pc, job, err, phase, written, asked>>

\* Content of out_buffer, or of the write, left to place after a block.
\* A block that failed leaves out_buffer as it was.
ReturnBlock ==
    LET done == err = "ok"
        s == [stream EXCEPT
                !.out_buffer = IF done /\ job.buffered THEN <<>> ELSE @,
                !.user_headers = @ /\ ~(done /\ job.call \in {"simple", "first"}),
                !.chunked_sending = @ /\ ~(done /\ job.finished
                                           /\ job.call = "chunked")]
    IN  /\ pc = "return"
        /\ IF done /\ Len(job.rest) > BodySend
           THEN /\ SendBlock(s, FALSE, job.rest, FALSE, <<>>)
                /\ UNCHANGED phase
           ELSE /\ stream' = [s EXCEPT !.out_buffer = IF done THEN @ \o job.rest
                                                      ELSE @]
                /\ pc' = "app"
                /\ job' = NoJob
                /\ phase' = IF ~done THEN "failed"
                            ELSE IF job.finished THEN "receiving" ELSE "sending"
                /\ err' = "ok"
        /\ UNCHANGED <<conn, written, header, asked>>

-----------------------------------------------------------------------------
(* Sending.                                                                *)

\* The bytes left of a response once its receiver reports the end.  A gzip
\* decoder reports it before the last, empty chunk has been read; that
\* chunk is on the connection, or lost with the receiver's buffer.
UnreadAtEnd(kind) == IF kind = "gzip" THEN BOOLEAN ELSE {FALSE}

BodyCanEnd == stream.body_receiver = "identity" => ~conn.peer

ReceiverClosed(s) ==
    [s EXCEPT !.body_receiver = Null, !.close_handling_required = TRUE]

\* Reconnecting part of _avs_http_prepare_for_sending, when the connection
\* is not kept.
Reconnect(s, c) ==
    IF s.keep_connection
    THEN /\ stream' = s
         /\ conn' = c
         /\ pc' = "send"
         /\ UNCHANGED err
    ELSE \/ /\ stream' = [s EXCEPT !.close_handling_required = FALSE,
                                   !.keep_connection = TRUE]
            /\ conn' = NewConn(s.url)
            /\ pc' = "send"
            /\ UNCHANGED err
         \/ /\ stream' = [s EXCEPT !.close_handling_required = FALSE]
            /\ conn' = Closed(c)
            /\ err' = "errno"
            /\ pc' = "return"

RetryFlagCleared(s) == [s EXCEPT !.should_retry = FALSE]

\* _avs_http_prepare_for_sending
PrepareForSending ==
    LET s == RetryFlagCleared(stream) IN
    /\ pc = "prepare"
    /\ \/ /\ stream.body_receiver = Null
          /\ Reconnect(s, conn)
       \/ /\ stream.body_receiver # Null /\ BodyCanEnd
          /\ \E unread \in UnreadAtEnd(stream.body_receiver) :
                Reconnect(ReceiverClosed(s), Exchanged(conn, unread))
       \/ /\ stream.body_receiver # Null
          /\ stream' = s
          /\ err' = "errno"
          /\ pc' = "return"
          /\ UNCHANGED conn
    /\ UNCHANGED <<job, app, asked>>

\* _avs_http_maybe_schedule_retry_after_send
MaybeScheduleRetry(s, epipe) ==
    IF epipe /\ s.close_handling_required
    THEN [s EXCEPT !.keep_connection = FALSE, !.should_retry = TRUE]
    ELSE s

\* A failed step of a do ... while (err && should_retry) loop.
RetryOrReturn(s) == IF s.should_retry THEN "prepare" ELSE "return"

\* A send fails with EPIPE on a connection the server has closed, and with
\* another error, after part of the data, on a live one.
SendFails(s) ==
    \E epipe \in BOOLEAN :
        /\ IF epipe THEN ~conn.peer ELSE SendsFail
        /\ stream' = MaybeScheduleRetry(s, epipe)
        /\ conn' = IF conn.peer THEN [conn EXCEPT !.request = "broken"] ELSE conn
        /\ err' = "errno"

\* _avs_http_send_headers and, for a simple request, its content.
SendHeaders ==
    LET s == [stream EXCEPT !.status = 0]
        expect == job.call = "first" /\ ~s.no_expect
    IN  /\ pc = "send"
        /\ \/ /\ stream' = s
              /\ conn' = TakeHeaders(conn, s, IF job.call = "simple" THEN job.data
                                            ELSE <<>>, job.call = "first")
              /\ pc' = IF job.call = "simple" \/ expect THEN "receive"
                       ELSE ChunkStep(job)
              /\ err' = "ok"
           \/ /\ SendFails(s)
              /\ pc' = RetryOrReturn(stream')
        /\ UNCHANGED <<job, app, asked>>

\* http_send_single_chunk with data; only the first block is sent again.
SendChunk ==
    /\ pc = "chunk"
    /\ \/ /\ conn' = TakeChunk(conn, job.data)
          /\ pc' = IF job.finished THEN "last" ELSE "return"
          /\ err' = "ok"
          /\ UNCHANGED stream
       \/ /\ SendFails(stream)
          /\ pc' = IF job.call = "first" THEN RetryOrReturn(stream')
                   ELSE "return"
    /\ UNCHANGED <<job, app, asked>>

\* http_send_single_chunk without data, at the end of the request.
SendLastChunk ==
    /\ pc = "last"
    /\ \/ /\ conn' = TakeChunk(conn, <<>>)
          /\ stream' = [stream EXCEPT !.chunked_sending = FALSE]
          /\ pc' = "receive"
          /\ UNCHANGED err
       \/ /\ SendFails(stream)
          /\ pc' = "return"
    /\ UNCHANGED <<job, app, asked>>

-----------------------------------------------------------------------------
(* Receiving the headers.                                                  *)

\* Variant: authentication is retried again and again.
UpdateFlagsRetried(s, e) ==
    CASE e = "http" /\ s.status = 401 /\ Credentials
            /\ s.auth_type # "NONE" -> [s EXCEPT !.should_retry = TRUE]
      [] e = "http" /\ s.status = 417 /\ ~s.no_expect ->
           [s EXCEPT !.no_expect = TRUE, !.should_retry = TRUE]
      [] e # "http" /\ s.status \div 100 = 3 ->
           [s EXCEPT !.should_retry = TRUE]
      [] OTHER -> s

\* update_flags_after_receiving_headers
UpdateFlags(s, e) ==
    CASE e = "http" /\ s.status = 401 /\ Credentials
            /\ s.auth_type # "NONE" /\ ~s.retried ->
           [s EXCEPT !.retried = TRUE, !.should_retry = TRUE]
      [] e = "http" /\ s.status = 417 /\ ~s.no_expect ->
           [s EXCEPT !.no_expect = TRUE, !.should_retry = TRUE]
      [] e # "http" /\ s.status \div 100 = 3 ->
           [s EXCEPT !.should_retry = TRUE]
      [] OTHER -> s

\* End of _avs_http_receive_headers, and what its caller does next.
ReceivedHeaders(s, e) ==
    LET u == UpdateFlags(s, e)
        failed == e # "ok"
    IN  /\ stream' = u
        /\ err' = IF job.call = "first" /\ u.status \div 100 = 1 THEN "ok" ELSE e
        /\ pc' = IF job.call = "first" /\ (~failed \/ u.status \div 100 = 1)
                 THEN ChunkStep(job)
                 ELSE IF job.call # "chunked" /\ failed THEN RetryOrReturn(u)
                 ELSE "return"

\* Variant: the connection is kept.
FailedKept(s) == s

\* http_receive_headers_error
Failed(s) == [s EXCEPT !.keep_connection = FALSE]

\* avs_stream_getline fails: a timeout, or the end of the connection.
ReceiveFails ==
    /\ pc = "receive"
    /\ \E eof \in BOOLEAN :
          /\ eof => ~conn.peer /\ conn.wire = <<>>
          /\ ReceivedHeaders(
                [Failed(stream) EXCEPT
                    !.status = IF eof /\ stream.close_handling_required
                               THEN 399 ELSE 100], "errno")
    /\ UNCHANGED <<conn, job, app, asked>>

\* Variant: 100 is skipped where it is waited for, and not elsewhere.
SkippedWhenChunked(s) == s.status = 100 /\ s.chunked_sending

\* skip_100_continue
Skipped(s) == s.status = 100 /\ ~s.chunked_sending

ReceiveInformational ==
    LET s == [stream EXCEPT !.status = Head(conn.wire).status,
                            !.keep_connection = TRUE,
                            !.close_handling_required = FALSE]
    IN  /\ pc = "receive" /\ conn.wire # <<>>
        /\ s.status \div 100 = 1
        /\ conn' = [conn EXCEPT !.wire = Tail(@)]
        /\ IF Skipped(s)
           THEN stream' = s /\ UNCHANGED <<pc, err>>
           ELSE ReceivedHeaders(s, "ok")
        /\ UNCHANGED <<job, app, asked>>

\* Headline and header fields; _avs_http_auth_setup
ParsedHeaders(s, r) ==
    [s EXCEPT !.status = r.status,
              !.close_handling_required = FALSE,
              !.keep_connection = ~r.close,
              !.auth_type = CASE r.challenge = "absent" -> @
                              [] r.challenge = "known" -> "KNOWN"
                              [] OTHER -> "NONE"]

\* _avs_http_body_receiver_init, which fails when there is a receiver.
ReceiverReady(s, r) ==
    LET empty == r.framing = "identity" /\ s.status \in {204, 205} IN
    [s EXCEPT !.body_receiver = IF empty THEN "length" ELSE r.framing,
              !.keep_connection = @ /\ (r.framing = "identity" => empty)]

HasBody(r) == ~(r.framing = "identity" /\ r.status \in {204, 205})

\* Variant: the state survives.
AuthKept(s) == s

\* _avs_http_auth_reset
AuthReset(s) == [s EXCEPT !.auth_type = "NONE", !.retried = FALSE]

LimitExceeded(n) == n > HTTP_MOVE_LIMIT

\* _avs_http_redirect and what follows it.  Counts above the limit are all
\* alike, so redirect_count stops one above it.
Redirected(s, c, r, connects) ==
    LET counted == [s EXCEPT !.redirect_count =
                        IF LimitExceeded(@) THEN @ ELSE @ + 1]
        left == AuthReset([counted EXCEPT !.close_handling_required = FALSE])
    IN  IF LimitExceeded(counted.redirect_count)
        THEN /\ conn' = c
             /\ ReceivedHeaders(Failed(counted), "http")
        ELSE IF ~connects
        THEN /\ conn' = Closed(c)
             /\ ReceivedHeaders(Failed(left), "errno")
        ELSE /\ conn' = NewConn(r.location)
             /\ ReceivedHeaders(
                    [left EXCEPT !.url = r.location,
                                 !.no_expect = FALSE,
                                 !.keep_connection = TRUE,
                                 !.auth_type = StartAuth(@, r.location)], "errno")

ReceiveSuccess(s, c, r) ==
    LET t == [s EXCEPT !.retried = FALSE] IN
    /\ conn' = c
    /\ IF s.body_receiver # Null
       THEN ReceivedHeaders(Failed(t), "errno")
       ELSE ReceivedHeaders([ReceiverReady(t, r) EXCEPT !.redirect_count = 0],
                            "ok")

ReceiveRedirect(s, c, r) ==
    LET t == [s EXCEPT !.retried = FALSE] IN
    IF r.location = NoURL
    THEN conn' = c /\ ReceivedHeaders(Failed(t), "errno")
    ELSE \E connects \in BOOLEAN : Redirected(t, c, r, connects)

\* 4xx and the rest, up to avs_stream_ignore_to_end.
ReceiveErrorStatus(s, c, r) ==
    LET t == [s EXCEPT !.retried = @ /\ s.status \div 100 = 4] IN
    /\ conn' = c
    /\ IF s.body_receiver # Null
       THEN ReceivedHeaders(Failed(t), "errno")
       ELSE /\ stream' = ReceiverReady(t, r)
            /\ pc' = "drain"
            /\ UNCHANGED err

\* http_receive_headline_and_headers, for a final response; a headline or a
\* header field that cannot be parsed ends it.
ReceiveResponse ==
    LET r == Head(conn.wire)
        c == [conn EXCEPT !.wire = Tail(@), !.unread = HasBody(r)]
        s == ParsedHeaders(stream, r)
    IN  /\ pc = "receive" /\ conn.wire # <<>>
        /\ r.status \div 100 # 1
        /\ IF r.malformed
           THEN conn' = c /\ ReceivedHeaders(Failed(s), "errno")
           ELSE CASE r.status \div 100 = 2 -> ReceiveSuccess(s, c, r)
                  [] r.status \div 100 = 3 -> ReceiveRedirect(s, c, r)
                  [] OTHER -> ReceiveErrorStatus(s, c, r)
        /\ asked' = ((asked \/ r.challenge # "absent") /\ conn'.url = conn.url)
        /\ UNCHANGED <<job, app>>

\* avs_stream_ignore_to_end over the body of an error response.
DrainErrorBody ==
    /\ pc = "drain"
    /\ \/ /\ BodyCanEnd
          /\ \E unread \in UnreadAtEnd(stream.body_receiver) :
                conn' = Exchanged(conn, unread)
          /\ ReceivedHeaders(ReceiverClosed(stream), "http")
       \/ /\ ReceivedHeaders([Failed(stream) EXCEPT !.body_receiver = Null],
                             "errno")
          /\ UNCHANGED conn
    /\ UNCHANGED <<job, app, asked>>

-----------------------------------------------------------------------------
(* The rest of the application's interface.                                *)

\* http_receive: a read that ends the message, or that fails.  A failed
\* read ends it only for an identity body read into a large buffer.
Read ==
    /\ pc = "app" /\ phase = "receiving" /\ stream.body_receiver # Null
    /\ \/ /\ BodyCanEnd
          /\ stream' = ReceiverClosed(stream)
          /\ \E unread \in UnreadAtEnd(stream.body_receiver) :
                conn' = Exchanged(conn, unread)
          /\ phase' = "sending"
          /\ written' = 0
          /\ header' = FALSE
       \/ /\ stream' \in {stream} \cup
                         (IF stream.body_receiver = "identity"
                          THEN {ReceiverClosed(stream)} ELSE {})
          /\ phase' = "failed"
          /\ UNCHANGED <<conn, written, header>>
    /\ UNCHANGED <<pc, job, err, asked>>

\* Variant: out_buffer keeps what was written.
ResetKeepsBuffer(s, keep, close_handling) ==
    [s EXCEPT !.chunked_sending = FALSE, !.no_expect = FALSE,
              !.should_retry = FALSE, !.keep_connection = keep,
              !.close_handling_required = close_handling,
              !.body_receiver = Null, !.status = 0, !.user_headers = FALSE]

\* http_reset; KEEP is keep_connection after the unread body was discarded.
ResetStream(s, keep, close_handling) ==
    [s EXCEPT !.chunked_sending = FALSE, !.no_expect = FALSE,
              !.should_retry = FALSE, !.keep_connection = keep,
              !.close_handling_required = close_handling,
              !.body_receiver = Null, !.out_buffer = <<>>, !.status = 0,
              !.user_headers = FALSE]

Reset ==
    LET keep == stream.keep_connection /\ ~stream.chunked_sending
        receiving == stream.body_receiver # Null
    IN  /\ pc = "app"
        /\ \/ /\ ~(keep /\ receiving)
              /\ stream' = ResetStream(stream, keep, FALSE)
              /\ UNCHANGED conn
           \/ /\ keep /\ receiving /\ BodyCanEnd
              /\ stream' = ResetStream(stream, TRUE, TRUE)
              /\ \E unread \in UnreadAtEnd(stream.body_receiver) :
                    conn' = Exchanged(conn, unread)
           \/ /\ keep /\ receiving
              /\ stream' = ResetStream(stream, FALSE, FALSE)
              /\ UNCHANGED conn
        /\ phase' = "sending"
        /\ written' = 0
        /\ header' = FALSE
        /\ UNCHANGED <<pc, job, err, asked>>

\* http_close, and avs_http_open_stream for the next conversation.
Reopen ==
    /\ pc = "app"
    /\ stream' = NewStream
    /\ conn' = NewConn(FirstURL)
    /\ phase' = "sending"
    /\ written' = 0
    /\ header' = FALSE
    /\ asked' = FALSE
    /\ UNCHANGED <<pc, job, err>>

\* An application that repeats the request, when avs_http_should_retry says
\* it may, without a reset.
RetryWithoutReset ==
    /\ ~ResetsOnError
    /\ pc = "app" /\ phase = "failed" /\ stream.should_retry
    /\ phase' = "sending"
    /\ written' = 0
    /\ UNCHANGED <<stream, conn, pc, job, err, header, asked>>

Client ==
    \/ ReturnBlock \/ PrepareForSending \/ SendHeaders \/ SendChunk
    \/ SendLastChunk \/ ReceiveFails \/ ReceiveInformational
    \/ ReceiveResponse \/ DrainErrorBody

Application ==
    \/ \E n \in WriteSizes : Write(n)
    \/ Finish \/ AddHeader \/ Read \/ Reset \/ Reopen \/ RetryWithoutReset

Server ==
    \/ \E status \in Informational : ServerInforms(status)
    \/ \E r \in Responses : ServerAnswers(r)
    \/ ServerCloses

Next == Client \/ Application \/ Server

Spec == Init /\ [][Next]_vars

\* The client's thread runs; every socket operation ends, at the latest by
\* its timeout.
FairSpec == Spec /\ WF_vars(Client)

-----------------------------------------------------------------------------
(* Properties.                                                             *)

Flags == {"chunked_sending", "keep_connection", "no_expect", "should_retry",
          "close_handling_required", "retried", "user_headers"}

\* The stream, the job and the connection have their types; the buffer
\* never holds more than body_send, and redirect_count stays within one of
\* HTTP_MOVE_LIMIT.
TypeOK ==
    /\ \A f \in Flags : stream[f] \in BOOLEAN
    /\ stream.auth_type \in {"NONE", "KNOWN"}
    /\ stream.redirect_count \in 0 .. HTTP_MOVE_LIMIT + 1
    /\ stream.status \in 0 .. 599
    /\ stream.url \in URLs
    /\ stream.body_receiver \in {Null, "length", "chunked", "identity", "gzip"}
    /\ stream.out_buffer \in Seq(1 .. MaxBody)
    /\ Len(stream.out_buffer) <= BodySend
    /\ conn.url \in URLs /\ conn.body \in Seq(1 .. MaxBody)
    /\ conn.request \in {"none", "headers", "complete", "broken"}
    /\ pc \in {"app", "prepare", "send", "chunk", "last", "receive", "drain",
               "return"}
    /\ job.call \in {"none", "simple", "first", "chunked"}
    /\ err \in Errors
    /\ phase \in {"sending", "receiving", "failed"}
    /\ written \in 0 .. MaxBody
    /\ asked \in BOOLEAN

\* When _avs_http_prepare_for_sending lets a request go out, the socket is
\* connected and nothing of an earlier exchange is left on the connection:
\* no response or rest of a response to be taken for the answer, and no
\* request the server is still in the middle of.
CleanBeforeRequest == pc = "send" => conn.up /\ Reusable(conn)

\* When avs_stream_finish_message succeeds, however many times the request
\* was sent, the server that answered has on this connection exactly the
\* content the application wrote, and its header if and only if the
\* application added one to this request.
RequestIntact ==
    pc = "app" /\ phase = "receiving" =>
        /\ conn.request = "complete"
        /\ conn.body = Units(1, written)
        /\ conn.header = header

\* Between calls, unless the last one failed, a stream in the receiving
\* state has a body receiver, and one in the middle of sending chunks has
\* none.
ReceiverIffReceiving ==
    pc = "app" /\ phase # "failed" =>
        /\ phase = "receiving" => stream.body_receiver # Null
        /\ stream.chunked_sending => stream.body_receiver = Null

\* avs_http_should_retry is 0 once a request has succeeded, also when it
\* took retries.
NoRetryAfterSuccess ==
    pc = "app" /\ phase = "receiving" => ~stream.should_retry

\* Authorization goes to a plain http server only after that server asked
\* for it: a redirect forgets the challenge of the server it leaves.
CredentialsOnlyWhenAsked == conn.authorised => Https(conn.url) \/ asked

\* Every call of avs_stream_write and avs_stream_finish_message returns:
\* the retry loops end whatever the server answers.
CallsReturn == pc # "app" ~> pc = "app"

\* A 3xx status code shown by avs_http_status_code means that the limit of
\* redirects was exceeded.
RedirectStatusMeansLimit ==
    pc = "app" /\ stream.status \div 100 = 3 =>
        stream.redirect_count > HTTP_MOVE_LIMIT

\* A request that succeeds was received whole and once, and is not repeated.
RequestsIntact ==
    /\ RequestIntact
    /\ NoRetryAfterSuccess

\* The bounds of the stream's state hold, and it has a body receiver if and
\* only if it is receiving a response.
StreamConsistent ==
    /\ TypeOK
    /\ ReceiverIffReceiving

=============================================================================
