---------------------------- MODULE MCHttpStream ----------------------------
(***************************************************************************)
(* Instances of HttpStream for TLC: the responses of the server.           *)
(***************************************************************************)
EXTENDS HttpStream

CONSTANTS Plain, Secure     \* a URL of protocol http and one of https

Response(status, framing) ==
    [status |-> status, framing |-> framing, challenge |-> "absent",
     close |-> FALSE, location |-> NoURL, malformed |-> FALSE]

OK == Response(200, "length")
OKIdentity == Response(200, "identity")
OKClose == [Response(200, "chunked") EXCEPT !.close = TRUE]
OKGzip == Response(200, "gzip")
NoContent == Response(204, "identity")
Moved(url) == [Response(302, "length") EXCEPT !.location = url]
MovedNowhere == Response(304, "length")
Unauthorized == [Response(401, "length") EXCEPT !.challenge = "known"]
UnknownScheme == [Response(401, "length") EXCEPT !.challenge = "unknown"]
ExpectationFailed == Response(417, "length")
ServerError == Response(503, "identity")
Garbage == [Response(0, "identity") EXCEPT !.malformed = TRUE]

Redirects == {Moved(Plain), Moved(Secure)}
Errors4xx == {Unauthorized, UnknownScheme, ExpectationFailed}

\* Responses the client is written for.
Usual == {OK, OKIdentity, OKClose, NoContent, ServerError, Garbage}
             \cup Redirects \cup Errors4xx
UsualEarly == Redirects \cup Errors4xx \cup {ServerError}

\* One response of each class, and a compressed one, for the run in which
\* sends fail half way and the application does not always reset.
Faulty == {OK, OKClose, OKGzip, ServerError, Garbage, Unauthorized,
           ExpectationFailed} \cup Redirects
FaultyEarly == Faulty \ {OK, OKClose, Garbage}

\* A server that answers 304, or redirects without a usable Location.
Nowhere == {OK, MovedNowhere}

=============================================================================
