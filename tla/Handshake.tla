----------------------------- MODULE Handshake -----------------------------
(***************************************************************************)
(* The opening handshake of two programs that use the library: the client  *)
(* runs connect of src/framer.rs, the server the loop read_header of       *)
(* examples/server.rs and then accept; between them the two HTTP messages  *)
(* of src/http.rs, which the streams hand over in chunks.  A client that   *)
(* fails may connect again with the same WebSocket; the server has a new   *)
(* one for each connection.  Either side may face a program that is not    *)
(* this library.                                                           *)
(*                                                                         *)
(* A header is represented by its values under each name, in their order.  *)
(* An accept string is represented by the key it is computed from: SHA-1   *)
(* is taken to tell keys apart.                                            *)
(***************************************************************************)
EXTENDS WebSocketCodec, SequencesExt

CONSTANTS
  Keys,               \* the keys that the random numbers may give
  Protocols,          \* names of sub-protocols
  LongNames,          \* those of them that do not fit 24 characters
  MaxOffer,           \* bound on the length of a list that a client offers
  ProtocolCapacity,   \* capacity of the list that the server keeps of it
  MaxConnections,     \* bound on the attempts of the client
  RequestLen, ResponseLen,    \* lengths of the HTTP messages
  MaxBehind,          \* bound on the bytes that follow a message at once
  UsizeRange,         \* number of values of a usize
  Failures,           \* may a buffer be too small, or a stream end?
  AcceptGiven         \* do all servers answer with an accept string?

ASSUME HandshakeAssumption ==
  /\ LongNames \subseteq Protocols
  /\ {MaxConnections, RequestLen, ResponseLen} \subseteq Nat \ {0}
  /\ {MaxBehind, MaxOffer, ProtocolCapacity} \subseteq Nat
  /\ UsizeRange \in Nat /\ UsizeRange > RequestLen + MaxBehind
  /\ UsizeRange > ResponseLen + MaxBehind
  /\ {Failures, AcceptGiven} \subseteq BOOLEAN

VARIABLES
  ws, key, client_cursor, sub_protocol,    \* the client
  client,        \* where it is: see ClientPC
  server_ws, context, server_cursor, chosen,    \* the server
  server,        \* where it is: see ServerPC
  request, response,    \* the messages, and the streams that carry them
  ended,         \* the connection is closed, what it carries is still read
  connections    \* number of connections so far

client_vars == <<ws, key, client_cursor, sub_protocol, client>>
server_vars == <<server_ws, context, server_cursor, chosen, server>>
wire == <<request, response, ended, connections>>
vars == <<client_vars, server_vars, wire>>

ClientPC == {"start", "connecting", "open", "failed", "panicked"}

ServerPC == {"none", "foreign", "reading", "accepting", "open", "done",
             "failed"}

\* The values that splitting a CSV list gives: "" when nothing is in it.
Name == Protocols \cup {""}
Option(S) == S \cup {"None"}

csv(names) == IF names = <<>> THEN <<"">> ELSE names

\* A stream: what it carries first, the bytes put in, those not taken out.
Stream(message, sent) == [message |-> message, sent |-> sent, left |-> sent]

http_response(code) == [code |-> code, accepts |-> <<>>, protocols |-> <<>>]

NoMessage == Stream(http_response(0), 0)
NoContext == [key |-> "None", list |-> <<>>]

TypeOK ==
  /\ {ws, server_ws} \subseteq WebSocket
  /\ key \in Option(Keys) /\ {sub_protocol, chosen} \subseteq Option(Name)
  /\ {client_cursor, server_cursor} \subseteq 0..(UsizeRange - 1)
  /\ client \in ClientPC
  /\ server \in ServerPC
  /\ context.key \in Option(Keys \cup {""}) /\ context.list \in Seq(Name)
  /\ {request.sent, response.sent} \subseteq Nat
  /\ request.left \in 0..request.sent /\ response.left \in 0..response.sent
  /\ ended \in BOOLEAN /\ connections \in 0..MaxConnections

Init ==
  /\ ws = new_websocket(TRUE) /\ server_ws = new_websocket(FALSE)
  /\ key = "None" /\ sub_protocol = "None" /\ chosen = "None"
  /\ client_cursor = 0 /\ server_cursor = 0
  /\ client = "start" /\ server = "none"
  /\ context = NoContext
  /\ request = NoMessage /\ response = NoMessage
  /\ ended = FALSE /\ connections = 0

-----------------------------------------------------------------------------
(* The messages.                                                           *)

\* What an application may offer: lists of names, or None, and a header line.
Offers ==
  LET lists == UNION {[1..n -> Protocols] : n \in 0..MaxOffer}
  IN  {<<>>} \cup {<<names>> : names \in lists}

AdditionalHeaders == {<<>>} \cup {<< <<name>> >> : name \in Protocols}

build_connect_handshake_request(path, k, offer, additional) ==
  [path |-> path, upgrade |-> <<TRUE>>, keys |-> <<k>>,
   protocols |-> [i \in DOMAIN offer |-> csv(offer[i])] \o additional]

\* The names that read_http_header puts into its list: the first that fit.
listed(r) ==
  LET items == FlattenSeq(r.protocols)
      fits  == Len(items) <= ProtocolCapacity
  IN  SubSeq(items, 1, IF fits THEN Len(items) ELSE ProtocolCapacity)

\* Mutant: a protocol header starts the context anew.
read_http_header_forgets(r) ==
  IF r.upgrade = <<>> \/ ~Last(r.upgrade) THEN NoContext
  ELSE [key |-> IF r.keys = <<>> \/ r.protocols # <<>> THEN ""
                ELSE Last(r.keys),
        list |-> listed(r)]

\* Of the headers of one name the last counts; the lists of names add up.
read_http_header(r) ==
  IF r.upgrade = <<>> \/ ~Last(r.upgrade) THEN NoContext
  ELSE [key |-> IF r.keys = <<>> THEN "" ELSE Last(r.keys),
        list |-> listed(r)]

\* Mutant: does not tell the client which sub-protocol was chosen.
build_connect_handshake_response_silent(k, protocol) ==
  [code |-> 101, accepts |-> <<k>>, protocols |-> <<>>]

build_connect_handshake_response(k, protocol) ==
  [code |-> 101, accepts |-> <<k>>,
   protocols |-> IF protocol = "None" THEN <<>> ELSE <<protocol>>]

\* The first header that is not accepted decides: a wrong accept string is an
\* error, a name that does not fit a panic.  Either may come first.
Outcomes(wrong, long) ==
  LET ends == {e \in {"HttpError", "Panic"} :
                 IF e = "Panic" THEN long ELSE wrong}
  IN  IF ends = {} THEN {"None"} ELSE ends

\* Mutant: the last accept string is the one that counts.
read_server_connect_handshake_response_last(k, r) ==
  IF r.code # 101 THEN {"HttpError"}
  ELSE Outcomes(r.accepts # <<>> /\ Last(r.accepts) # k,
                Range(r.protocols) \cap LongNames # {})

\* Any accept string that is wrong is an error, to have none is not.
read_server_connect_handshake_response(k, r) ==
  IF r.code # 101 THEN {"HttpError"}
  ELSE Outcomes(\E i \in DOMAIN r.accepts : r.accepts[i] # k,
                Range(r.protocols) \cap LongNames # {})

answered_protocol(r) ==
  IF r.protocols = <<>> THEN "None" ELSE Last(r.protocols)

-----------------------------------------------------------------------------
(* The cursor behind a message of len bytes, of which the last read got n. *)

\* Mutant: forgets what the earlier reads got.
arrived_last(cursor, n) == n

\* The bytes in read_buf after a read of n.
arrived(cursor, n) == cursor + n

\* Mutant: the bytes of the earlier reads are not counted.
advance_overwrites(cursor, n, len) == (n - len) % UsizeRange

\* Mutant: in a wider type than usize.
advance_unwrapped(cursor, n, len) == cursor + ((n - len) % UsizeRange)

advance(cursor, n, len) ==
  (cursor + ((n - len) % UsizeRange)) % UsizeRange

\* A build with overflow checks panics when the difference is negative.
Builds(n, len, advanced, panicked) ==
  IF n >= len THEN {advanced} ELSE {advanced, panicked}

Take(s, n) == [s EXCEPT !.left = @ - n]

Drop(s) == [message |-> s.message, sent |-> s.sent - s.left, left |-> 0]

Grow(s) == [message |-> s.message, sent |-> s.sent + 1, left |-> s.left + 1]

\* The bytes that have arrived behind the message.
Behind(s, len) == s.sent - s.left - len

-----------------------------------------------------------------------------
(* A connection and its client.                                            *)

\* connect up to its loop.  The server that gets the request is a new thread
\* of examples/server.rs, or some other program.
Connects(server_of) ==
  /\ client \in {"start", "failed"}
  /\ connections < MaxConnections
  /\ connections' = connections + 1
  /\ server' \in server_of
  /\ server_ws' = new_websocket(FALSE)
  /\ context' = NoContext /\ server_cursor' = 0 /\ chosen' = "None"
  /\ response' = NoMessage /\ ended' = FALSE

\* What another program answers is any answer, so it gets but one request.
Connect ==
  \E k \in Keys, path \in {"/chat", "/"}, offer \in Offers,
     additional \in AdditionalHeaders :
    /\ Connects(IF path = "/chat" /\ offer = <<>> /\ additional = <<>>
                THEN {"reading", "foreign"} ELSE {"reading"})
    /\ ws' = client_connect(ws, "None").ws
    /\ key' = k /\ client_cursor' = 0 /\ sub_protocol' = "None"
    /\ client' = "connecting"
    /\ request' = Stream(build_connect_handshake_request(path, k, offer,
                                                         additional),
                         RequestLen)

\* The request does not fit its 1024 bytes, or not the buffer of the caller.
ConnectRefuses ==
  /\ Failures /\ client \in {"start", "failed"}
  /\ \/ ws' = client_connect(ws, "Unknown").ws /\ client' = "failed"
     \/ ws' = ws /\ client' = "panicked"
  /\ UNCHANGED <<key, client_cursor, sub_protocol, server_vars, wire>>

ForeignConnects ==
  \E path \in {"/chat", "/"}, upgrade \in BOOLEAN,
     keys \in {<<>>} \cup {<<k>> : k \in Keys}, behind \in 0..MaxBehind :
    /\ Connects({"reading"})
    /\ request' = Stream([path |-> path, upgrade |-> <<upgrade>>,
                          keys |-> keys, protocols |-> <<>>],
                         RequestLen + behind)
    /\ UNCHANGED client_vars

\* One round of the loop of connect.  A read of no bytes, when the stream has
\* ended, changes nothing: the loop goes round.
ClientReads ==
  /\ client = "connecting"
  /\ \E n \in 1..response.left :
       \E have \in {arrived(client_cursor, n)} :
       \E http \in IF have < ResponseLen THEN {"HttpHeaderIncomplete"}
                   ELSE read_server_connect_handshake_response(
                          key, response.message) :
         /\ response' = Take(response, n)
         /\ IF http = "Panic" THEN UNCHANGED ws
            ELSE ws' = client_accept(ws, http).ws
         /\ client_cursor' = IF http = "None"
                             THEN advance(client_cursor, n, ResponseLen)
                             ELSE have
         /\ sub_protocol' = IF http = "None"
                            THEN answered_protocol(response.message)
                            ELSE "None"
         /\ client' \in IF http = "HttpHeaderIncomplete" THEN {"connecting"}
                       ELSE IF http = "HttpError" THEN {"failed"}
                       ELSE IF http = "Panic" THEN {"panicked"}
                       ELSE Builds(n, ResponseLen, "open", "panicked")
  /\ UNCHANGED <<key, server_vars, request, ended, connections>>

\* The stream fails, or ends and takes what it has not delivered with it.
StreamEnds ==
  /\ Failures /\ ~ended /\ server # "none"
  /\ ended' = TRUE
  /\ request' \in {request, Drop(request)}
  /\ response' \in {response, Drop(response)}
  /\ client' \in {client, IF client = "connecting" THEN "failed" ELSE client}
  /\ UNCHANGED <<ws, key, client_cursor, sub_protocol, server_vars,
                 connections>>

-----------------------------------------------------------------------------
(* The server.                                                             *)

\* The request is no upgrade, or one of another path: it gets its answer, and
\* the connection is closed.
Serves(code) ==
  /\ server' = "done" /\ ended' = TRUE
  /\ response' = Stream(http_response(code), ResponseLen)
  /\ UNCHANGED context

\* One round of the loop of read_header.
ServerReads ==
  /\ server = "reading"
  /\ \E n \in 1..request.left :
       \E have \in {arrived(server_cursor, n)},
          c \in {read_http_header(request.message)} :
         /\ request' = Take(request, n)
         /\ IF have < RequestLen
            THEN /\ server_cursor' = have
                 /\ UNCHANGED <<context, server, response, ended>>
            ELSE /\ server_cursor' = advance(server_cursor, n, RequestLen)
                 /\ \E goes_on \in Builds(n, RequestLen, TRUE, FALSE) :
                    IF ~goes_on
                         \/ Range(listed(request.message)) \cap LongNames # {}
                    THEN /\ server' = "failed" /\ ended' = TRUE
                         /\ UNCHANGED <<context, response>>
                    ELSE IF c = NoContext
                    THEN Serves(IF request.message.path = "/" THEN 200
                                ELSE 404)
                    ELSE IF request.message.path # "/chat" THEN Serves(404)
                    ELSE /\ context' = c /\ server' = "accepting"
                         /\ UNCHANGED <<response, ended>>
  /\ UNCHANGED <<client_vars, server_ws, chosen, connections>>

\* accept, which chooses no sub-protocol, or a call of server_accept that does.
ServerAccepts ==
  /\ server = "accepting"
  /\ server_ws' = server_accept(server_ws, "None").ws
  /\ chosen' \in Option(Range(context.list))
  /\ \/ /\ ~ended /\ server' = "open" /\ UNCHANGED ended
        /\ response' = Stream(build_connect_handshake_response(context.key,
                                                               chosen'),
                              ResponseLen)
     \/ /\ Failures \/ ended
        /\ server' = "failed" /\ ended' = TRUE /\ UNCHANGED response
  /\ UNCHANGED <<client_vars, context, server_cursor, request, connections>>

ForeignAnswers ==
  /\ server = "foreign" /\ ~ended /\ response.sent = 0
  /\ \E code \in {101, 404}, protocol \in Option(Protocols),
        n \in (IF AcceptGiven THEN 1 ELSE 0)..2 :
       \E accepts \in [1..n -> Keys] :
         response' = Stream([code |-> code, accepts |-> accepts,
                             protocols |-> IF protocol = "None" THEN <<>>
                                           ELSE <<protocol>>], ResponseLen)
  /\ UNCHANGED <<client_vars, server_vars, request, ended, connections>>

\* The first frames follow the response without a pause.
ServerWrites ==
  /\ server \in {"open", "foreign"} /\ ~ended
  /\ response.sent \in ResponseLen..(ResponseLen + MaxBehind - 1)
  /\ response' = Grow(response)
  /\ UNCHANGED <<client_vars, server_vars, request, ended, connections>>

Next == Connect \/ ConnectRefuses \/ ForeignConnects \/ ClientReads
        \/ ServerReads \/ ServerAccepts \/ ForeignAnswers \/ ServerWrites
        \/ StreamEnds

(***************************************************************************)
(* Fairness: what has arrived is read, and the server accepts.  Nothing    *)
(* makes another program answer.                                           *)
(***************************************************************************)
Fairness ==
  WF_vars(ClientReads) /\ WF_vars(ServerReads) /\ WF_vars(ServerAccepts)

Spec == Init /\ [][Next]_vars /\ Fairness

-----------------------------------------------------------------------------
(***************************************************************************)
(* A client opens only on an accept string for the key of this very        *)
(* attempt, whatever its earlier attempts were and whoever answers         *)
(* (client_accept: an invalid one is the error AcceptStringInvalid).       *)
(***************************************************************************)
OpensOnItsOwnKey ==
  client = "open" =>
    /\ response.message.accepts # <<>>
    /\ Range(response.message.accepts) = {key}

(***************************************************************************)
(* When both sides are open they agree on the sub-protocol, and it is one  *)
(* that the client has offered (server_accept, client_accept); "" counts   *)
(* as offered by an empty list.                                            *)
(***************************************************************************)
SidesAgree ==
  client = "open" /\ server = "open" =>
    /\ sub_protocol = chosen
    /\ chosen \in Option(Range(FlattenSeq(request.message.protocols)))

(***************************************************************************)
(* The client of a server that has accepted it does not abort: what this   *)
(* library answers, this library takes.                                    *)
(***************************************************************************)
AcceptedIsNotAborted ==
  [][client = "connecting" /\ server = "open" => ws'.state # "Aborted"]_vars

(***************************************************************************)
(* After the handshake the cursor is the number of bytes that have arrived *)
(* behind the HTTP message, however it was cut into reads: the subtraction *)
(* that underflows is made good by the addition that overflows.            *)
(***************************************************************************)
CursorPastHeader ==
  /\ client = "open" => client_cursor = Behind(response, ResponseLen)
  /\ server \in {"accepting", "open"} =>
       server_cursor = Behind(request, RequestLen)

(***************************************************************************)
(* connect comes to an end when this library's server gets its request,    *)
(* unless the connection is lost.                                          *)
(***************************************************************************)
HandshakeConcludes ==
  (client = "connecting" /\ server # "foreign")
    ~> (client # "connecting" \/ ended)
=============================================================================
