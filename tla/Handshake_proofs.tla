--------------------------- MODULE Handshake_proofs ---------------------------
(***************************************************************************)
(* Proofs about Handshake, for all lengths of the messages, all cuts of    *)
(* the streams into reads, every width of usize and any set of keys and    *)
(* names.                                                                  *)
(***************************************************************************)
EXTENDS Handshake, Codec_proofs, SequenceTheorems

-----------------------------------------------------------------------------
(* Arithmetic modulo the range of usize.                                   *)

(* The remainder of a number that is at most once off the range.           *)
LEMMA Wraps ==
  ASSUME NEW W \in Nat, W > 0, NEW d \in Int, -W <= d, d < 2 * W
  PROVE  /\ 0 <= d /\ d < W => d % W = d
         /\ d < 0 => d % W = d + W
         /\ W <= d => d % W = d - W
<1>1. CASE 0 <= d /\ d < W
  BY <1>1
<1>2. CASE d < 0
  BY <1>2
<1>3. CASE W <= d
  BY <1>3
<1> QED
  BY <1>1, <1>2, <1>3

(* The cursor of connect and read_header: the number of bytes read less    *)
(* the length of the message, also where the subtraction wraps round.      *)
LEMMA AdvanceProps ==
  ASSUME NEW cursor \in Nat, NEW n \in Nat, NEW len \in Nat,
         cursor + n >= len, cursor + n < len + UsizeRange, len < UsizeRange
  PROVE  advance(cursor, n, len) = cursor + n - len
<1> DEFINE W == UsizeRange
<1>1. W \in Nat /\ W > 0
  BY HandshakeAssumption
<1>2. n - len \in Int /\ -W <= n - len /\ n - len < W
  BY <1>1
<1>3. CASE n >= len
  <2>1. (n - len) % W = n - len
    BY <1>1, <1>2, <1>3, Wraps
  <2>2. cursor + n - len \in Int
        /\ 0 <= cursor + n - len /\ cursor + n - len < W
    BY <1>1
  <2>3. (cursor + n - len) % W = cursor + n - len
    BY <1>1, <2>2, Wraps
  <2>4. cursor + (n - len) = cursor + n - len
    OBVIOUS
  <2> QED
    BY <2>1, <2>3, <2>4 DEF advance
<1>4. CASE n < len
  <2>1. (n - len) % W = n - len + W
    BY <1>1, <1>2, <1>4, Wraps
  <2>2. cursor + (n - len + W) \in Int /\ W <= cursor + (n - len + W)
        /\ cursor + (n - len + W) < 2 * W
    BY <1>1
  <2>3. (cursor + (n - len + W)) % W = cursor + (n - len + W) - W
    BY <1>1, <2>2, Wraps
  <2>4. cursor + (n - len + W) - W = cursor + n - len
    BY <1>1
  <2> QED
    BY <2>1, <2>3, <2>4 DEF advance
<1> QED
  BY <1>3, <1>4

-----------------------------------------------------------------------------
(* The streams, and what the cursors know of them.                         *)

IsStream(s, max) ==
  /\ s = [message |-> s.message, sent |-> s.sent, left |-> s.left]
  /\ s.sent \in Nat /\ s.left \in Nat /\ s.left <= s.sent /\ s.sent <= max

ResponseInv ==
  /\ IsStream(response, ResponseLen + MaxBehind)
  /\ server \in {"reading", "accepting"} => response.sent = 0
  /\ client = "connecting" =>
       client_cursor \in Nat /\ client_cursor + response.left = response.sent
  /\ client = "open" =>
       client_cursor \in Nat /\ client_cursor = Behind(response, ResponseLen)

RequestInv ==
  /\ IsStream(request, RequestLen + MaxBehind)
  /\ server = "reading" =>
       server_cursor \in Nat /\ server_cursor + request.left = request.sent
  /\ server \in {"accepting", "open"} =>
       server_cursor \in Nat /\ server_cursor = Behind(request, RequestLen)

(* The lengths are numbers, and neither message is empty.                  *)
LEMMA Lengths ==
  /\ RequestLen \in Nat /\ RequestLen > 0 /\ RequestLen < UsizeRange
  /\ ResponseLen \in Nat /\ ResponseLen > 0 /\ ResponseLen < UsizeRange
  /\ MaxBehind \in Nat /\ UsizeRange \in Nat
  /\ RequestLen + MaxBehind < UsizeRange
  /\ ResponseLen + MaxBehind < UsizeRange
BY HandshakeAssumption

(* A new stream, one that is read, one that is cut off, one that is fed.   *)
LEMMA Streams ==
  ASSUME NEW max \in Nat
  PROVE  /\ \A m : \A n \in 0..max :
              /\ IsStream(Stream(m, n), max)
              /\ Stream(m, n).sent = n /\ Stream(m, n).left = n
              /\ Stream(m, n).message = m
         /\ \A s : IsStream(s, max) =>
              /\ \A n \in 1..s.left :
                   /\ IsStream(Take(s, n), max) /\ n \in Nat
                   /\ Take(s, n).sent = s.sent
                   /\ Take(s, n).left = s.left - n
                   /\ Take(s, n).message = s.message
              /\ IsStream(Drop(s), max)
              /\ Drop(s).left = 0 /\ Drop(s).sent = s.sent - s.left
              /\ Drop(s).message = s.message
              /\ s.sent < max => IsStream(Grow(s), max)
              /\ Grow(s).sent = s.sent + 1 /\ Grow(s).left = s.left + 1
              /\ Grow(s).message = s.message
<1>1. ASSUME NEW m, NEW n \in 0..max
      PROVE  /\ IsStream(Stream(m, n), max)
             /\ Stream(m, n).sent = n /\ Stream(m, n).left = n
             /\ Stream(m, n).message = m
  BY DEF IsStream, Stream
<1>2. ASSUME NEW s, IsStream(s, max), NEW n \in 1..s.left
      PROVE  /\ IsStream(Take(s, n), max) /\ n \in Nat
             /\ Take(s, n).sent = s.sent
             /\ Take(s, n).left = s.left - n
             /\ Take(s, n).message = s.message
  <2>1. Take(s, n) = [message |-> s.message, sent |-> s.sent,
                      left |-> s.left - n]
    BY <1>2 DEF IsStream, Take
  <2> QED
    BY <1>2, <2>1 DEF IsStream
<1>3. ASSUME NEW s, IsStream(s, max)
      PROVE  /\ IsStream(Drop(s), max)
             /\ Drop(s).left = 0 /\ Drop(s).sent = s.sent - s.left
             /\ Drop(s).message = s.message
             /\ s.sent < max => IsStream(Grow(s), max)
             /\ Grow(s).sent = s.sent + 1 /\ Grow(s).left = s.left + 1
             /\ Grow(s).message = s.message
  BY <1>3 DEF IsStream, Drop, Grow
<1> QED
  BY <1>1, <1>2, <1>3

-----------------------------------------------------------------------------
(* The client's cursor.                                                    *)

(* The bounds of the two streams are numbers.                              *)
LEMMA Bounds ==
  ResponseLen + MaxBehind \in Nat /\ RequestLen + MaxBehind \in Nat
BY Lengths

(* Steps that leave the response and the client's cursor alone.            *)
LEMMA KeepsResponse ==
  ASSUME ResponseInv, UNCHANGED <<response, client_cursor>>,
         client' \in {client, "failed", "panicked"},
         server' \in {"reading", "accepting"}
           => server \in {"reading", "accepting"}
  PROVE  ResponseInv'
BY DEF ResponseInv, IsStream, Behind

(* The answer to a request, which is the first of the connection.          *)
LEMMA FirstAnswer ==
  ASSUME ResponseInv, response.sent = 0, NEW m,
         response' = Stream(m, ResponseLen),
         UNCHANGED <<client, client_cursor>>,
         server' \notin {"reading", "accepting"}
  PROVE  ResponseInv' /\ client # "open"
<1>1. /\ IsStream(response', ResponseLen + MaxBehind)
      /\ response'.sent = ResponseLen /\ response'.left = ResponseLen
  BY Bounds, Lengths, Streams
<1>2. client # "open"
  BY Lengths DEF ResponseInv, IsStream, Behind
<1>3. client = "connecting" => client_cursor = 0
  BY DEF ResponseInv, IsStream
<1> QED
  BY <1>1, <1>2, <1>3, Lengths DEF ResponseInv

(* What the client makes of a response, and which response it accepts.     *)
LEMMA Answers ==
  ASSUME NEW k, NEW r, NEW e \in read_server_connect_handshake_response(k, r)
  PROVE  /\ e \in {"HttpError", "Panic", "None"}
         /\ e = "None" =>
              r.code = 101 /\ \A i \in DOMAIN r.accepts : r.accepts[i] = k
         /\ e = "HttpError" =>
              r.code # 101 \/ \E i \in DOMAIN r.accepts : r.accepts[i] # k
BY DEF read_server_connect_handshake_response, Outcomes

(* ClientReads: the cursor becomes the number of bytes behind the response.*)
LEMMA ClientReadsResponse ==
  ASSUME ResponseInv, ClientReads
  PROVE  ResponseInv'
<1>1. PICK n \in 1..response.left :
        \E have \in {arrived(client_cursor, n)} :
        \E http \in IF have < ResponseLen THEN {"HttpHeaderIncomplete"}
                    ELSE read_server_connect_handshake_response(
                           key, response.message) :
          /\ response' = Take(response, n)
          /\ client_cursor' = IF http = "None"
                              THEN advance(client_cursor, n, ResponseLen)
                              ELSE have
          /\ client' \in IF http = "HttpHeaderIncomplete" THEN {"connecting"}
                         ELSE IF http = "HttpError" THEN {"failed"}
                         ELSE IF http = "Panic" THEN {"panicked"}
                         ELSE Builds(n, ResponseLen, "open", "panicked")
  BY DEF ClientReads
<1>2. PICK http :
        /\ http \in IF client_cursor + n < ResponseLen
                    THEN {"HttpHeaderIncomplete"}
                    ELSE read_server_connect_handshake_response(
                           key, response.message)
        /\ response' = Take(response, n)
        /\ client_cursor' = IF http = "None"
                            THEN advance(client_cursor, n, ResponseLen)
                            ELSE client_cursor + n
        /\ client' \in IF http = "HttpHeaderIncomplete" THEN {"connecting"}
                       ELSE IF http = "HttpError" THEN {"failed"}
                       ELSE IF http = "Panic" THEN {"panicked"}
                       ELSE Builds(n, ResponseLen, "open", "panicked")
  BY <1>1 DEF arrived
<1>3. client = "connecting" /\ server' = server
  BY DEF ClientReads, server_vars
<1>4. /\ IsStream(response, ResponseLen + MaxBehind)
      /\ client_cursor \in Nat /\ client_cursor + response.left = response.sent
      /\ response.sent \in Nat /\ response.left \in Nat
      /\ response.sent <= ResponseLen + MaxBehind
  BY <1>3 DEF ResponseInv, IsStream
<1>5. /\ IsStream(response', ResponseLen + MaxBehind) /\ n \in Nat
      /\ response'.sent = response.sent /\ response'.left = response.left - n
  BY <1>2, <1>4, Bounds, Streams
<1>6. http \in {"HttpHeaderIncomplete", "HttpError", "Panic", "None"}
  BY <1>2, Answers
<1>7. server' \in {"reading", "accepting"} => response'.sent = 0
  BY <1>3, <1>5 DEF ResponseInv
<1>8. CASE http = "HttpHeaderIncomplete"
  <2>1. client' = "connecting" /\ client_cursor' = client_cursor + n
    BY <1>2, <1>8
  <2> QED
    BY <1>4, <1>5, <1>7, <2>1 DEF ResponseInv
<1>9. CASE http \in {"HttpError", "Panic"}
  <2>1. client' \in {"failed", "panicked"}
    BY <1>2, <1>9
  <2> QED
    BY <1>5, <1>7, <2>1 DEF ResponseInv
<1>10. CASE http = "None"
  <2>1. client' \in {"open", "panicked"}
    BY <1>2, <1>10 DEF Builds
  <2>2. client_cursor + n >= ResponseLen
    BY <1>2, <1>4, <1>5, <1>10, Lengths
  <2>3. client_cursor' = client_cursor + n - ResponseLen
    BY <1>2, <1>4, <1>5, <1>10, <2>2, Lengths, AdvanceProps
  <2>4. client_cursor' \in Nat
    BY <1>4, <1>5, <2>2, <2>3, Lengths
  <2>5. client_cursor' = Behind(response', ResponseLen)
    BY <1>4, <1>5, <2>3, Lengths DEF Behind
  <2>6. client' # "connecting"
    BY <2>1
  <2> QED
    BY <1>5, <1>7, <2>4, <2>5, <2>6 DEF ResponseInv, Behind
<1> QED
  BY <1>6, <1>8, <1>9, <1>10

(* StreamEnds and ServerWrites: the stream loses and gains bytes that the  *)
(* client has not read.                                                    *)
LEMMA StreamChangesResponse ==
  ASSUME ResponseInv, StreamEnds \/ ServerWrites
  PROVE  ResponseInv'
<1>1. IsStream(response, ResponseLen + MaxBehind)
  BY DEF ResponseInv
<1>2. CASE StreamEnds
  <2>1. /\ client' \in {client, "failed"} /\ server' = server
        /\ client_cursor' = client_cursor
        /\ response' \in {response, Drop(response)}
    BY <1>2 DEF StreamEnds, server_vars
  <2>2. CASE response' = response
    BY <2>1, <2>2, KeepsResponse
  <2>3. CASE response' = Drop(response)
    <3>1. /\ IsStream(response', ResponseLen + MaxBehind)
          /\ response'.left = 0
          /\ response'.sent = response.sent - response.left
      BY <1>1, <2>3, Bounds, Streams
    <3> QED
      BY <1>1, <2>1, <3>1, Lengths DEF ResponseInv, IsStream, Behind
  <2> QED
    BY <2>1, <2>2, <2>3
<1>3. CASE ServerWrites
  <2>1. /\ UNCHANGED <<client, server, client_cursor>>
        /\ server \in {"open", "foreign"}
        /\ response' = Grow(response)
        /\ response.sent <= ResponseLen + MaxBehind - 1
    BY <1>3, Lengths DEF ServerWrites, client_vars, server_vars
  <2>2. response.sent < ResponseLen + MaxBehind
    BY <1>1, <2>1, Lengths DEF IsStream
  <2>3. /\ IsStream(response', ResponseLen + MaxBehind)
        /\ response'.left = response.left + 1
        /\ response'.sent = response.sent + 1
    BY <1>1, <2>1, <2>2, Bounds, Streams
  <2> QED
    BY <1>1, <2>1, <2>3, Lengths DEF ResponseInv, IsStream, Behind
<1> QED
  BY <1>2, <1>3

-----------------------------------------------------------------------------
(* The server's cursor.                                                    *)

(* What a round of read_header does, with the definitions of one case      *)
(* after the other.                                                        *)
LEMMA ServerReadsCases ==
  ASSUME ServerReads
  PROVE  /\ server = "reading" /\ UNCHANGED <<client, client_cursor, key>>
         /\ \E n \in 1..request.left :
              /\ request' = Take(request, n)
              /\ \/ /\ server_cursor + n < RequestLen
                    /\ server_cursor' = server_cursor + n
                    /\ UNCHANGED <<server, response>>
                 \/ /\ ~(server_cursor + n < RequestLen)
                    /\ server_cursor' = advance(server_cursor, n, RequestLen)
                    /\ \/ /\ server' \in {"failed", "accepting"}
                          /\ UNCHANGED response
                       \/ /\ server' = "done"
                          /\ \E code \in {200, 404} :
                               response' = Stream(http_response(code),
                                                  ResponseLen)
<1>1. server = "reading" /\ UNCHANGED <<client, client_cursor, key>>
  BY DEF ServerReads, client_vars
<1>2. PICK n, c :
        /\ n \in 1..request.left
        /\ request' = Take(request, n)
        /\ IF server_cursor + n < RequestLen
           THEN /\ server_cursor' = server_cursor + n
                /\ UNCHANGED <<context, server, response, ended>>
           ELSE /\ server_cursor' = advance(server_cursor, n, RequestLen)
                /\ \E goes_on \in Builds(n, RequestLen, TRUE, FALSE) :
                   IF ~goes_on
                        \/ Range(listed(request.message)) \cap LongNames # {}
                   THEN /\ server' = "failed" /\ ended' = TRUE
                        /\ UNCHANGED <<context, response>>
                   ELSE IF c = NoContext
                   THEN Serves(IF request.message.path = "/" THEN 200
                               ELSE 404)
                   ELSE IF request.message.path # "/chat" THEN Serves(404)
                   ELSE /\ context' = c /\ server' = "accepting"
                        /\ UNCHANGED <<response, ended>>
  BY DEF ServerReads, arrived
<1>3. CASE server_cursor + n < RequestLen
  BY <1>1, <1>2, <1>3
<1>4. CASE ~(server_cursor + n < RequestLen)
  <2>1. server_cursor' = advance(server_cursor, n, RequestLen)
    BY <1>2, <1>4
  <2>2. \/ server' \in {"failed", "accepting"} /\ UNCHANGED response
        \/ Serves(200) \/ Serves(404)
    BY <1>2, <1>4
  <2> QED
    BY <1>1, <1>2, <1>4, <2>1, <2>2 DEF Serves
<1> QED
  BY <1>3, <1>4

(* ServerReads: the cursor becomes the number of bytes behind the request. *)
LEMMA ServerReadsRequest ==
  ASSUME RequestInv, ServerReads
  PROVE  RequestInv'
<1>1. server = "reading"
  BY ServerReadsCases
<1>2. PICK n \in 1..request.left :
        /\ request' = Take(request, n)
        /\ \/ /\ server_cursor + n < RequestLen
              /\ server_cursor' = server_cursor + n
              /\ UNCHANGED server
           \/ /\ ~(server_cursor + n < RequestLen)
              /\ server_cursor' = advance(server_cursor, n, RequestLen)
              /\ server' \in {"failed", "accepting", "done"}
  BY ServerReadsCases
<1>3. /\ IsStream(request, RequestLen + MaxBehind)
      /\ server_cursor \in Nat /\ server_cursor + request.left = request.sent
      /\ request.sent \in Nat /\ request.left \in Nat
      /\ request.sent <= RequestLen + MaxBehind
  BY <1>1 DEF RequestInv, IsStream
<1>4. /\ IsStream(request', RequestLen + MaxBehind) /\ n \in Nat
      /\ request'.sent = request.sent /\ request'.left = request.left - n
  BY <1>2, <1>3, Bounds, Streams
<1>5. CASE server_cursor + n < RequestLen
  <2>1. server_cursor' = server_cursor + n /\ server' = "reading"
    BY <1>1, <1>2, <1>5
  <2> QED
    BY <1>3, <1>4, <2>1 DEF RequestInv
<1>6. CASE ~(server_cursor + n < RequestLen)
  <2>1. /\ server_cursor' = advance(server_cursor, n, RequestLen)
        /\ server' \in {"failed", "accepting", "done"}
    BY <1>2, <1>6
  <2>2. server_cursor + n >= RequestLen
    BY <1>3, <1>4, <1>6, Lengths
  <2>3. server_cursor' = server_cursor + n - RequestLen
    BY <1>3, <1>4, <2>1, <2>2, Lengths, AdvanceProps
  <2>4. server_cursor' \in Nat
    BY <1>3, <1>4, <2>2, <2>3, Lengths
  <2>5. server_cursor' = Behind(request', RequestLen)
    BY <1>3, <1>4, <2>3, Lengths DEF Behind
  <2> QED
    BY <1>4, <2>1, <2>4, <2>5 DEF RequestInv, Behind
<1> QED
  BY <1>5, <1>6

(* The other steps: a new request, one that is cut off, and none at all.   *)
LEMMA RequestStep ==
  ASSUME RequestInv, [Next]_vars
  PROVE  RequestInv'
<1>1. IsStream(request, RequestLen + MaxBehind)
  BY DEF RequestInv
<1>2. CASE Connect \/ ForeignConnects
  <2>1. PICK n, m :
          /\ n \in RequestLen..(RequestLen + MaxBehind)
          /\ request' = Stream(m, n)
          /\ server' \in {"reading", "foreign"} /\ server_cursor' = 0
    <3>1. CASE Connect
      <4>1. PICK k \in Keys, path \in {"/chat", "/"}, offer \in Offers,
                 additional \in AdditionalHeaders :
              /\ request' = Stream(build_connect_handshake_request(
                                     path, k, offer, additional), RequestLen)
              /\ server' \in {"reading", "foreign"}
              /\ server_cursor' = 0
        BY <3>1, Zenon DEF Connect, Connects
      <4>2. RequestLen \in RequestLen..(RequestLen + MaxBehind)
        BY Lengths
      <4> QED
        BY <4>1, <4>2, Zenon
    <3>2. CASE ForeignConnects
      <4>1. PICK behind \in 0..MaxBehind :
              /\ \E m : request' = Stream(m, RequestLen + behind)
              /\ server' \in {"reading", "foreign"} /\ server_cursor' = 0
        BY <3>2 DEF ForeignConnects, Connects
      <4>2. RequestLen + behind \in RequestLen..(RequestLen + MaxBehind)
        BY Lengths
      <4> QED
        BY <4>1, <4>2
    <3> QED
      BY <1>2, <3>1, <3>2
  <2>2. n \in 0..(RequestLen + MaxBehind)
    BY <2>1, Lengths
  <2>3. /\ IsStream(request', RequestLen + MaxBehind)
        /\ request'.sent = n /\ request'.left = n
    BY <2>1, <2>2, Bounds, Streams
  <2> QED
    BY <2>1, <2>2, <2>3 DEF RequestInv
<1>3. CASE StreamEnds
  <2>1. /\ UNCHANGED <<server, server_cursor>>
        /\ request' \in {request, Drop(request)}
    BY <1>3 DEF StreamEnds, server_vars
  <2>2. CASE request' = request
    BY <2>1, <2>2 DEF RequestInv, IsStream, Behind
  <2>3. CASE request' = Drop(request)
    <3>1. /\ IsStream(request', RequestLen + MaxBehind)
          /\ request'.left = 0
          /\ request'.sent = request.sent - request.left
      BY <1>1, <2>3, Bounds, Streams
    <3> QED
      BY <1>1, <2>1, <3>1, Lengths DEF RequestInv, IsStream, Behind
  <2> QED
    BY <2>1, <2>2, <2>3
<1>4. CASE ServerReads
  BY <1>4, ServerReadsRequest
<1>5. ASSUME UNCHANGED <<request, server_cursor>>,
             server' \in {server, "failed"}
               \/ (server = "accepting" /\ server' = "open")
      PROVE  RequestInv'
  BY <1>5 DEF RequestInv, IsStream, Behind
<1>6. CASE ConnectRefuses \/ ClientReads \/ UNCHANGED vars
  BY <1>5, <1>6
     DEF ConnectRefuses, ClientReads, vars, wire, server_vars
<1>7. CASE ForeignAnswers \/ ServerWrites \/ ServerAccepts
  BY <1>5, <1>7
     DEF ForeignAnswers, ServerWrites, ServerAccepts, server_vars
<1> QED
  BY <1>2, <1>3, <1>4, <1>6, <1>7 DEF Next

(* ResponseInv is preserved by every step.                                 *)
LEMMA ResponseStep ==
  ASSUME ResponseInv, [Next]_vars
  PROVE  ResponseInv'
<1>1. CASE Connect \/ ForeignConnects
  <2>1. /\ response' = Stream(http_response(0), 0)
        /\ \/ client' = "connecting" /\ client_cursor' = 0
           \/ client' \in {"start", "failed"}
    BY <1>1
       DEF Connect, ForeignConnects, Connects, NoMessage, client_vars
  <2>2. 0 \in 0..(ResponseLen + MaxBehind)
    BY Bounds
  <2>3. /\ IsStream(response', ResponseLen + MaxBehind)
        /\ response'.sent = 0 /\ response'.left = 0
    BY <2>1, <2>2, Bounds, Streams
  <2> QED
    BY <2>1, <2>3 DEF ResponseInv
<1>2. CASE ConnectRefuses \/ UNCHANGED vars
  BY <1>2, KeepsResponse
     DEF ConnectRefuses, vars, wire, server_vars, client_vars
<1>3. CASE ClientReads
  BY <1>3, ClientReadsResponse
<1>4. CASE StreamEnds \/ ServerWrites
  BY <1>4, StreamChangesResponse
<1>5. CASE ServerReads
  <2>1. /\ server = "reading" /\ UNCHANGED <<client, client_cursor>>
        /\ \/ /\ server' \in {"reading", "failed", "accepting"}
              /\ UNCHANGED response
           \/ /\ server' = "done"
              /\ \E m : response' = Stream(m, ResponseLen)
    BY <1>5, ServerReadsCases
  <2>2. response.sent = 0
    BY <2>1 DEF ResponseInv
  <2>3. CASE UNCHANGED response
    BY <2>1, <2>3, KeepsResponse
  <2>4. CASE server' = "done" /\ \E m : response' = Stream(m, ResponseLen)
    BY <2>1, <2>2, <2>4, FirstAnswer
  <2> QED
    BY <2>1, <2>3, <2>4
<1>6. CASE ServerAccepts
  <2>1. /\ server = "accepting" /\ UNCHANGED <<client, client_cursor>>
        /\ \/ server' = "failed" /\ UNCHANGED response
           \/ /\ server' = "open"
              /\ \E m : response' = Stream(m, ResponseLen)
    BY <1>6 DEF ServerAccepts, client_vars
  <2>2. response.sent = 0
    BY <2>1 DEF ResponseInv
  <2>3. CASE UNCHANGED response
    BY <2>1, <2>3, KeepsResponse
  <2>4. CASE server' = "open" /\ \E m : response' = Stream(m, ResponseLen)
    BY <2>1, <2>2, <2>4, FirstAnswer
  <2> QED
    BY <2>1, <2>3, <2>4
<1>7. CASE ForeignAnswers
  <2>1. /\ server' = "foreign" /\ UNCHANGED <<client, client_cursor>>
        /\ response.sent = 0
        /\ \E m : response' = Stream(m, ResponseLen)
    BY <1>7 DEF ForeignAnswers, client_vars, server_vars
  <2> QED
    BY <2>1, FirstAnswer
<1> QED
  BY <1>1, <1>2, <1>3, <1>4, <1>5, <1>6, <1>7 DEF Next

(***************************************************************************)
(* Whatever the lengths of the messages, the reads and the width of usize, *)
(* the cursors of connect and read_header end up behind the HTTP message,  *)
(* although the difference that is added to them may wrap round.           *)
(***************************************************************************)
THEOREM CursorsCorrect == Spec => []CursorPastHeader
<1>1. Init => ResponseInv /\ RequestInv
  <2> SUFFICES ASSUME Init PROVE ResponseInv /\ RequestInv
    OBVIOUS
  <2>1. 0 \in 0..(ResponseLen + MaxBehind) /\ 0 \in 0..(RequestLen + MaxBehind)
    BY Bounds
  <2>2. /\ IsStream(NoMessage, ResponseLen + MaxBehind)
        /\ IsStream(NoMessage, RequestLen + MaxBehind)
    BY <2>1, Bounds, Streams DEF NoMessage
  <2> QED
    BY <2>2 DEF Init, ResponseInv, RequestInv
<1>2. ResponseInv /\ RequestInv /\ [Next]_vars => (ResponseInv /\ RequestInv)'
  BY ResponseStep, RequestStep
<1>3. ResponseInv /\ RequestInv => CursorPastHeader
  BY DEF ResponseInv, RequestInv, CursorPastHeader
<1> QED
  BY <1>1, <1>2, <1>3, PTL DEF Spec

-----------------------------------------------------------------------------
(* The accept string.                                                      *)

KeyInv ==
  LET r == response.message
  IN  /\ r.code = 101 => r.accepts # <<>> /\ DOMAIN r.accepts # {}
      /\ client = "open" => r.accepts # <<>> /\ Range(r.accepts) = {key}

(* Steps that leave the message alone and do not open the client.          *)
LEMMA KeepsMessage ==
  ASSUME KeyInv, response'.message = response.message,
         \/ client' = client /\ key' = key
         \/ client' # "open"
  PROVE  KeyInv'
BY DEF KeyInv

(* A new message, before which the client is not open.                     *)
LEMMA NewMessage ==
  ASSUME client' # "open",
         LET r == response'.message
         IN  r.code # 101 \/ (r.accepts # <<>> /\ DOMAIN r.accepts # {})
  PROVE  KeyInv'
BY DEF KeyInv

(* ClientReads opens on nothing but its own key.                           *)
LEMMA ClientReadsKey ==
  ASSUME ResponseInv, KeyInv, ClientReads
  PROVE  KeyInv'
<1>1. PICK n \in 1..response.left :
        /\ response' = Take(response, n)
        /\ client' # "open" \/
           "None" \in
             read_server_connect_handshake_response(key, response.message)
  <2>1. PICK n, http :
          /\ n \in 1..response.left
          /\ \/ http = "HttpHeaderIncomplete"
             \/ http \in read_server_connect_handshake_response(
                            key, response.message)
          /\ response' = Take(response, n)
          /\ client' \in IF http = "HttpHeaderIncomplete" THEN {"connecting"}
                         ELSE IF http = "HttpError" THEN {"failed"}
                         ELSE IF http = "Panic" THEN {"panicked"}
                         ELSE Builds(n, ResponseLen, "open", "panicked")
    BY DEF ClientReads
  <2>2. CASE http = "None"
    BY <2>1, <2>2
  <2>3. CASE http # "None"
    <3>1. http \in {"HttpHeaderIncomplete", "HttpError", "Panic"}
      BY <2>1, <2>3, Answers
    <3> QED
      BY <2>1, <3>1
  <2> QED
    BY <2>2, <2>3
<1>2. IsStream(response, ResponseLen + MaxBehind) /\ key' = key
  BY DEF ResponseInv, ClientReads
<1>3. response'.message = response.message
  BY <1>1, <1>2, Bounds, Streams
<1>4. CASE client' # "open"
  BY <1>3, <1>4, KeepsMessage
<1>5. CASE "None" \in
             read_server_connect_handshake_response(key, response.message)
  <2> DEFINE a == response.message.accepts
  <2>1. response.message.code = 101 /\ \A i \in DOMAIN a : a[i] = key
    BY <1>5, Answers
  <2>2. a # <<>> /\ DOMAIN a # {}
    BY <2>1 DEF KeyInv
  <2>3. Range(a) = {key}
    BY <2>1, <2>2 DEF Range
  <2> QED
    BY <1>2, <1>3, <2>2, <2>3 DEF KeyInv
<1> QED
  BY <1>1, <1>4, <1>5

(* What the two kinds of server answer has an accept string, if it is 101. *)
LEMMA AnswersKey ==
  ASSUME AcceptGiven, ResponseInv, KeyInv,
         ServerReads \/ ServerAccepts \/ ForeignAnswers
  PROVE  KeyInv'
<1>1. UNCHANGED <<client, key>>
  BY DEF ServerReads, ServerAccepts, ForeignAnswers, client_vars
<1>2. ASSUME response.sent = 0
      PROVE  client # "open"
  BY <1>2, Lengths DEF ResponseInv, IsStream, Behind
<1>3. ResponseLen \in 0..(ResponseLen + MaxBehind)
  BY Lengths
<1>4. \A m : Stream(m, ResponseLen).message = m
  BY <1>3, Bounds, Streams
<1>5. CASE ServerReads
  <2>1. /\ server = "reading"
        /\ \/ UNCHANGED response
           \/ \E code \in {200, 404} :
                response' = Stream(http_response(code), ResponseLen)
    BY <1>5, ServerReadsCases
  <2>2. client # "open"
    BY <1>2, <2>1 DEF ResponseInv
  <2>3. CASE UNCHANGED response
    BY <1>1, <2>3, KeepsMessage
  <2>4. ASSUME NEW code \in {200, 404},
               response' = Stream(http_response(code), ResponseLen)
        PROVE  KeyInv'
    <3>1. response'.message = http_response(code)
      BY <1>4, <2>4
    <3>2. response'.message.code # 101
      BY <3>1 DEF http_response
    <3> QED
      BY <1>1, <2>2, <3>2, NewMessage
  <2> QED
    BY <2>1, <2>3, <2>4
<1>6. CASE ServerAccepts
  <2>1. /\ server = "accepting"
        /\ \/ UNCHANGED response
           \/ \E k, p : response' =
                Stream(build_connect_handshake_response(k, p), ResponseLen)
    BY <1>6 DEF ServerAccepts
  <2>2. client # "open"
    BY <1>2, <2>1 DEF ResponseInv
  <2>3. CASE UNCHANGED response
    BY <1>1, <2>3, KeepsMessage
  <2>4. ASSUME NEW k, NEW p,
               response' =
                 Stream(build_connect_handshake_response(k, p), ResponseLen)
        PROVE  KeyInv'
    <3>1. response'.message.accepts = <<k>>
      BY <1>4, <2>4 DEF build_connect_handshake_response
    <3>2. <<k>> # <<>> /\ 1 \in DOMAIN <<k>>
      OBVIOUS
    <3> QED
      BY <1>1, <2>2, <3>1, <3>2, NewMessage
  <2> QED
    BY <2>1, <2>3, <2>4
<1>7. CASE ForeignAnswers
  <2>1. PICK n, accepts, code, protocols :
          /\ n \in 1..2 /\ accepts \in [1..n -> Keys]
          /\ response' = Stream([code |-> code, accepts |-> accepts,
                                 protocols |-> protocols], ResponseLen)
    <3>1. (IF AcceptGiven THEN 1 ELSE 0)..2 = 1..2
      OBVIOUS
    <3>2. PICK code \in {101, 404}, protocol \in Option(Protocols),
               n \in (IF AcceptGiven THEN 1 ELSE 0)..2 :
            \E accepts \in [1..n -> Keys] :
              response' =
                Stream([code |-> code, accepts |-> accepts,
                        protocols |-> IF protocol = "None" THEN <<>>
                                      ELSE <<protocol>>], ResponseLen)
      BY <1>7, Zenon DEF ForeignAnswers
    <3> QED
      BY <3>1, <3>2, Zenon
  <2>2. client # "open"
    BY <1>2, <1>7 DEF ForeignAnswers
  <2>3. response'.message.accepts = accepts
    BY <1>4, <2>1
  <2>4. DOMAIN accepts = 1..n /\ 1 \in 1..n
    BY <2>1
  <2>5. accepts # <<>>
    BY <2>1
  <2> QED
    BY <1>1, <2>2, <2>3, <2>4, <2>5, NewMessage
<1> QED
  BY <1>5, <1>6, <1>7

(***************************************************************************)
(* If all servers give an accept string, a client opens only on the one    *)
(* for the key of this very attempt, for any number of attempts and any    *)
(* set of keys.                                                            *)
(***************************************************************************)
THEOREM KeysCorrect ==
  ASSUME AcceptGiven PROVE Spec => []OpensOnItsOwnKey
<1>1. ASSUME Init
      PROVE  ResponseInv /\ KeyInv
  <2>1. 0 \in 0..(ResponseLen + MaxBehind)
    BY Bounds
  <2>2. /\ IsStream(NoMessage, ResponseLen + MaxBehind)
        /\ NoMessage.sent = 0 /\ NoMessage.message = http_response(0)
    BY <2>1, Bounds, Streams DEF NoMessage
  <2>3. ResponseInv
    BY <1>1, <2>2 DEF Init, ResponseInv
  <2>4. KeyInv
    BY <1>1, <2>2 DEF Init, KeyInv, http_response
  <2> QED
    BY <2>3, <2>4
<1>2. ASSUME ResponseInv, KeyInv, [Next]_vars
      PROVE  (ResponseInv /\ KeyInv)'
  <2>1. IsStream(response, ResponseLen + MaxBehind)
    BY <1>2 DEF ResponseInv
  <2>2. CASE Connect \/ ForeignConnects
    <3>1. /\ response' = Stream(http_response(0), 0)
          /\ client' \in {"connecting", "start", "failed"}
      BY <2>2
         DEF Connect, ForeignConnects, Connects, NoMessage, client_vars
    <3>2. response'.message.code = 0
      BY <3>1 DEF Stream, http_response
    <3> QED
      BY <1>2, <3>1, <3>2, NewMessage, ResponseStep
  <2>3. CASE ConnectRefuses \/ UNCHANGED vars
    <3>1. response' = response
      BY <2>3 DEF ConnectRefuses, vars, wire
    <3>2. (client' = client /\ key' = key) \/ client' # "open"
      BY <2>3 DEF ConnectRefuses, vars, client_vars
    <3> QED
      BY <1>2, <3>1, <3>2, KeepsMessage, ResponseStep
  <2>4. CASE ClientReads
    BY <1>2, <2>4, ClientReadsKey, ResponseStep
  <2>5. CASE ServerReads \/ ServerAccepts \/ ForeignAnswers
    BY <1>2, <2>5, AnswersKey, ResponseStep
  <2>6. CASE StreamEnds \/ ServerWrites
    <3>1. response' \in {response, Drop(response), Grow(response)}
      BY <2>6 DEF StreamEnds, ServerWrites
    <3>2. response'.message = response.message
      BY <2>1, <3>1, Bounds, Streams
    <3>3. (client' = client /\ key' = key) \/ client' # "open"
      BY <2>6 DEF StreamEnds, ServerWrites, client_vars
    <3> QED
      BY <1>2, <3>2, <3>3, KeepsMessage, ResponseStep
  <2> QED
    BY <1>2, <2>2, <2>3, <2>4, <2>5, <2>6 DEF Next
<1>3. KeyInv => OpensOnItsOwnKey
  BY DEF KeyInv, OpensOnItsOwnKey
<1> QED
  BY <1>1, <1>2, <1>3, PTL DEF Spec

-----------------------------------------------------------------------------
(* The lists of names.                                                     *)

(* What the protocol headers of a request are: none, one or two lists.     *)
Lists == {<<>>} \cup {<<a>> : a \in Seq(Name)}
         \cup {<<a, b>> : a \in Seq(Name), b \in Seq(Name)}

IsRequest(m) ==
  m.protocols \in Lists /\ m.keys \in {<<>>} \cup {<<k>> : k \in Keys}

(* The lists of two headers add up (read_http_header).                     *)
LEMMA FlattenOne ==
  ASSUME NEW a
  PROVE  FlattenSeq(<<a>>) = a
<1> DEFINE s == <<a>>
           f == CHOOSE f : f = [i \in 1..Len(s) |->
                  IF i = 1 THEN s[i] ELSE f[i - 1] \o s[i]]
           g == [i \in 1..1 |-> a]
<1>1. Len(s) = 1 /\ s[1] = a
  OBVIOUS
<1>2. g = [i \in 1..Len(s) |-> IF i = 1 THEN s[i] ELSE g[i - 1] \o s[i]]
  BY <1>1
<1>3. f = [i \in 1..Len(s) |-> IF i = 1 THEN s[i] ELSE f[i - 1] \o s[i]]
  BY <1>2
<1>4. FlattenSeq(s) = f[Len(s)]
  BY <1>1 DEF FlattenSeq
<1> HIDE DEF f
<1> QED
  BY <1>1, <1>3, <1>4

(* A sequence of two sequences is flattened to the one behind the other.   *)
LEMMA FlattenTwo ==
  ASSUME NEW a, NEW b
  PROVE  FlattenSeq(<<a, b>>) = a \o b
<1> DEFINE s == <<a, b>>
           f == CHOOSE f : f = [i \in 1..Len(s) |->
                  IF i = 1 THEN s[i] ELSE f[i - 1] \o s[i]]
           g == [i \in 1..2 |-> IF i = 1 THEN a ELSE a \o b]
<1>1. Len(s) = 2 /\ s[1] = a /\ s[2] = b
  OBVIOUS
<1>2. g = [i \in 1..Len(s) |-> IF i = 1 THEN s[i] ELSE g[i - 1] \o s[i]]
  BY <1>1
<1>3. f = [i \in 1..Len(s) |-> IF i = 1 THEN s[i] ELSE f[i - 1] \o s[i]]
  BY <1>2
<1>4. FlattenSeq(s) = f[Len(s)]
  BY <1>1 DEF FlattenSeq
<1> HIDE DEF f
<1>5. f[1] = a
  BY <1>1, <1>3
<1>6. 2 \in 1..Len(s) /\ 2 # 1 /\ 2 - 1 = 1
  BY <1>1
<1>7. f[2] = f[2 - 1] \o s[2]
  BY <1>3, <1>6
<1> QED
  BY <1>1, <1>4, <1>5, <1>6, <1>7

(* The names of all headers, one after the other, are a list of names.     *)
LEMMA FlattenType ==
  ASSUME NEW lists \in Lists
  PROVE  FlattenSeq(lists) \in Seq(Name)
<1>1. CASE lists = <<>>
  <2>1. FlattenSeq(<<>>) = <<>>
    BY DEF FlattenSeq
  <2> QED
    BY <1>1, <2>1, EmptySeq
<1>2. ASSUME NEW a \in Seq(Name), lists = <<a>>
      PROVE  FlattenSeq(lists) \in Seq(Name)
  BY <1>2, FlattenOne
<1>3. ASSUME NEW a \in Seq(Name), NEW b \in Seq(Name), lists = <<a, b>>
      PROVE  FlattenSeq(lists) \in Seq(Name)
  <2>1. a \o b \in Seq(Name)
    BY ConcatProperties
  <2> QED
    BY <1>3, <2>1, FlattenTwo
<1> QED
  BY <1>1, <1>2, <1>3 DEF Lists

(* The server keeps names that were offered, as many as fit.               *)
LEMMA ListedIsOffered ==
  ASSUME NEW m, m.protocols \in Lists
  PROVE  /\ listed(m) \in Seq(Name)
         /\ Range(listed(m)) \subseteq Range(FlattenSeq(m.protocols))
<1> DEFINE items == FlattenSeq(m.protocols)
           n == IF Len(items) <= ProtocolCapacity THEN Len(items)
                ELSE ProtocolCapacity
<1>1. items \in Seq(Name)
  BY FlattenType
<1>2. listed(m) = SubSeq(items, 1, n)
  BY DEF listed
<1> HIDE DEF items
<1>3. n \in 0..Len(items) /\ ProtocolCapacity \in Nat
  BY <1>1, HandshakeAssumption
<1> HIDE DEF n
<1>4. /\ SubSeq(items, 1, n) \in Seq(Name)
      /\ Len(SubSeq(items, 1, n)) = n
      /\ \A i \in 1..n : SubSeq(items, 1, n)[i] = items[i]
  BY <1>1, <1>3
<1>5. DOMAIN items = 1..Len(items) /\ DOMAIN listed(m) = 1..n
  BY <1>1, <1>2, <1>4
<1>6. ASSUME NEW i \in DOMAIN listed(m)
      PROVE  i \in DOMAIN items /\ listed(m)[i] = items[i]
  BY <1>1, <1>2, <1>3, <1>4, <1>5
<1> QED
  BY <1>2, <1>4, <1>6 DEF Range, items

(* A client of the library sends a request with its key.                   *)
LEMMA OwnRequest ==
  ASSUME NEW path, NEW k \in Keys, NEW offer \in Offers,
         NEW additional \in AdditionalHeaders
  PROVE  LET m == build_connect_handshake_request(path, k, offer, additional)
         IN  IsRequest(m) /\ m.keys = <<k>>
<1> DEFINE own == [i \in DOMAIN offer |-> csv(offer[i])]
<1>1. own \in {<<>>} \cup {<<a>> : a \in Seq(Name)}
  <2>1. CASE offer = <<>>
    BY <2>1
  <2>2. ASSUME NEW n \in Nat, NEW names \in [1..n -> Protocols],
               offer = <<names>>
        PROVE  \E a \in Seq(Name) : own = <<a>>
    <3>1. /\ names = [i \in 1..n |-> names[i]]
          /\ \A i \in 1..n : names[i] \in Name
      BY DEF Name
    <3>2. [i \in 1..n |-> names[i]] \in Seq(Name)
      BY <3>1
    <3>4. <<"">> \in Seq(Name)
      BY DEF Name
    <3>5. csv(names) \in Seq(Name)
      BY <3>1, <3>2, <3>4 DEF csv
    <3>3. own = <<csv(names)>>
      BY <2>2
    <3> QED
      BY <3>3, <3>5
  <2>3. offer = <<>> \/ \E n \in Nat : \E names \in [1..n -> Protocols] :
                          offer = <<names>>
    BY HandshakeAssumption DEF Offers
  <2> QED
    BY <2>1, <2>2, <2>3
<1>2. additional \in {<<>>} \cup {<<a>> : a \in Seq(Name)}
  <2>1. ASSUME NEW name \in Protocols
        PROVE  <<name>> \in Seq(Name)
    <3>1. name \in Name
      BY DEF Name
    <3> QED
      BY <3>1
  <2> QED
    BY <2>1 DEF AdditionalHeaders
<1> HIDE DEF own
<1>3. own \o additional \in Lists
  <2>1. ASSUME NEW a, NEW b
        PROVE  <<a>> \o <<b>> = <<a, b>>
    <3> DEFINE ab == <<a>> \o <<b>>
               S  == {a, b}
    <3>1. <<a>> \in Seq(S) /\ <<b>> \in Seq(S) /\ <<a, b>> \in Seq(S)
      OBVIOUS
    <3>2. ab \in Seq(S) /\ Len(ab) = 2 /\ ab[1] = a /\ ab[2] = b
      BY <3>1, ConcatProperties
    <3>3. Len(<<a, b>>) = 2
      OBVIOUS
    <3> HIDE DEF ab, S
    <3>4. \A i \in 1..2 : ab[i] = <<a, b>>[i]
      BY <3>2
    <3>5. ab = <<a, b>>
      BY <3>1, <3>2, <3>3, <3>4, SeqEqual
    <3> QED
      BY <3>5 DEF ab
  <2>2. ASSUME NEW a
        PROVE  <<a>> \o <<>> = <<a>> /\ <<>> \o <<a>> = <<a>>
    OBVIOUS
  <2>3. <<>> \o <<>> = <<>>
    OBVIOUS
  <2>4. CASE own = <<>>
    BY <1>2, <2>2, <2>3, <2>4 DEF Lists
  <2>5. ASSUME NEW a \in Seq(Name), own = <<a>>
        PROVE  own \o additional \in Lists
    <3>1. CASE additional = <<>>
      BY <2>2, <2>5, <3>1 DEF Lists
    <3>2. ASSUME NEW b \in Seq(Name), additional = <<b>>
          PROVE  own \o additional \in Lists
      <4>1. own \o additional = <<a, b>>
        BY <2>1, <2>5, <3>2
      <4> QED
        BY <4>1 DEF Lists
    <3> QED
      BY <1>2, <3>1, <3>2
  <2> QED
    BY <1>1, <2>4, <2>5
<1> QED
  BY <1>3 DEF build_connect_handshake_request, IsRequest, own

(* What read_http_header finds in a request.                               *)
LEMMA HeaderIsRead ==
  ASSUME NEW m, IsRequest(m)
  PROVE  LET c == read_http_header(m)
         IN  /\ c.key \in Option(Keys \cup {""}) /\ c.list \in Seq(Name)
             /\ Range(c.list) \subseteq Range(FlattenSeq(m.protocols))
             /\ \A k : c # NoContext /\ m.keys = <<k>> => c.key = k
<1>1. CASE m.upgrade = <<>> \/ ~Last(m.upgrade)
  <2>1. read_http_header(m) = NoContext
    BY <1>1 DEF read_http_header
  <2>2. Range(<<>>) = {}
    BY DEF Range
  <2> QED
    BY <2>1, <2>2, EmptySeq DEF NoContext, Option
<1>2. CASE ~(m.upgrade = <<>> \/ ~Last(m.upgrade))
  <2>1. read_http_header(m)
          = [key |-> IF m.keys = <<>> THEN "" ELSE Last(m.keys),
             list |-> listed(m)]
    BY <1>2 DEF read_http_header
  <2>2. \A k : Last(<<k>>) = k /\ <<k>> # <<>>
    BY DEF Last
  <2>3. (IF m.keys = <<>> THEN "" ELSE Last(m.keys)) \in Keys \cup {""}
    BY <2>2 DEF IsRequest
  <2> QED
    <3>1. /\ listed(m) \in Seq(Name)
          /\ Range(listed(m)) \subseteq Range(FlattenSeq(m.protocols))
      BY ListedIsOffered DEF IsRequest
    <3>2. \A k : m.keys = <<k>> =>
                   (IF m.keys = <<>> THEN "" ELSE Last(m.keys)) = k
      BY <2>2
    <3> DEFINE k0 == IF m.keys = <<>> THEN "" ELSE Last(m.keys)
    <3>3. k0 \in Keys \cup {""} /\ \A k : m.keys = <<k>> => k0 = k
      BY <2>3, <3>2
    <3> HIDE DEF k0
    <3> DEFINE c == [key |-> k0, list |-> listed(m)]
    <3>4. read_http_header(m) = c
      BY <2>1 DEF k0
    <3>5. c.key = k0 /\ c.list = listed(m)
      OBVIOUS
    <3> HIDE DEF c
    <3> QED
      BY <3>1, <3>3, <3>4, <3>5 DEF Option
<1> QED
  BY <1>1, <1>2

-----------------------------------------------------------------------------
(* What the two sides know of each other.                                  *)

(* The types, and where the client's WebSocket stands: an attempt begins   *)
(* on one that is not open, and is made with one that is connecting.       *)
StatesInv ==
  /\ ws \in WebSocket /\ server_ws \in WebSocket
  /\ client \in ClientPC /\ server \in ServerPC
  /\ client \in {"start", "failed"} => ws.state # "Open"
  /\ client = "connecting" => ws.state = "Connecting"
  /\ ended \in BOOLEAN /\ connections \in 0..MaxConnections

(* The request is that of the client, as long as it waits or is open, and  *)
(* what the server has read of it comes from it.                           *)
ContextInv ==
  /\ key \in Option(Keys) /\ chosen \in Option(Name)
  /\ server # "none" => IsRequest(request.message)
  /\ client \in {"connecting", "open"} =>
       server # "none" /\ request.message.keys = <<key>>
  /\ context \in {NoContext, read_http_header(request.message)}
  /\ server = "none" => context = NoContext
  /\ server \in {"accepting", "open"} => context # NoContext

(* The response is that of the server, if that is open, and the client has *)
(* taken its protocol from it.                                             *)
AnswerInv ==
  LET r == response.message
  IN  /\ r.protocols \in {<<>>} \cup {<<p>> : p \in Name}
      /\ server = "open" =>
           /\ chosen \in Option(Range(context.list))
           /\ r = build_connect_handshake_response(context.key, chosen)
      /\ sub_protocol \in Option(Name)
      /\ client = "open" => sub_protocol = answered_protocol(r)

CursorsInv ==
  /\ client_cursor \in 0..(UsizeRange - 1)
  /\ server_cursor \in 0..(UsizeRange - 1)

AgreeInv == StatesInv /\ ContextInv /\ AnswerInv /\ CursorsInv

(* What read_header has put into the context is of its type.               *)
LEMMA ContextType ==
  ASSUME ContextInv
  PROVE  /\ context.key \in Option(Keys \cup {""})
         /\ context.list \in Seq(Name)
         /\ Option(Range(context.list)) \subseteq Option(Name)
<1>1. NoContext.key = "None" /\ NoContext.list = <<>>
  BY DEF NoContext
<1>2. context.key \in Option(Keys \cup {""}) /\ context.list \in Seq(Name)
  BY <1>1, EmptySeq, HeaderIsRead DEF ContextInv, Option
<1>3. Range(context.list) \subseteq Name
  BY <1>2, RangeOfSeq
<1> QED
  BY <1>2, <1>3 DEF Option

(* A new connection: a new server, a new request, and no response yet.     *)
LEMMA ConnectAgrees ==
  ASSUME AgreeInv, Connect \/ ForeignConnects
  PROVE  AgreeInv'
<1>1. /\ client \in {"start", "failed"} /\ connections < MaxConnections
      /\ connections' = connections + 1 /\ ended' = FALSE
      /\ server' \in {"reading", "foreign"}
      /\ server_ws' = new_websocket(FALSE)
      /\ context' = NoContext /\ server_cursor' = 0 /\ chosen' = "None"
      /\ response' = NoMessage
  BY DEF Connect, ForeignConnects, Connects
<1>2. \/ /\ ws' = client_connect(ws, "None").ws /\ key' \in Keys
         /\ client_cursor' = 0 /\ sub_protocol' = "None"
         /\ client' = "connecting"
      \/ UNCHANGED <<ws, key, client_cursor, sub_protocol, client>>
  BY DEF Connect, ForeignConnects, client_vars
<1>7. /\ IsRequest(request'.message)
      /\ client' = "connecting" => request'.message.keys = <<key'>>
  <2>1. \A m, n : Stream(m, n).message = m
    BY DEF Stream
  <2>2. CASE Connect
    <3>1. PICK k \in Keys, path \in {"/chat", "/"}, offer \in Offers,
               additional \in AdditionalHeaders :
            /\ key' = k
            /\ request' = Stream(build_connect_handshake_request(
                                   path, k, offer, additional), RequestLen)
      BY <2>2, Zenon DEF Connect
    <3> QED
      BY <2>1, <3>1, OwnRequest
  <2>3. CASE ForeignConnects
    <3>1. PICK path \in {"/chat", "/"}, upgrade \in BOOLEAN,
               keys \in {<<>>} \cup {<<k>> : k \in Keys},
               behind \in 0..MaxBehind :
            request' = Stream([path |-> path, upgrade |-> <<upgrade>>,
                               keys |-> keys, protocols |-> <<>>],
                              RequestLen + behind)
      BY <2>3, Zenon DEF ForeignConnects
    <3>2. request'.message = [path |-> path, upgrade |-> <<upgrade>>,
                              keys |-> keys, protocols |-> <<>>]
      BY <2>1, <3>1
    <3>3. client' # "connecting"
      BY <1>1, <2>3 DEF ForeignConnects, client_vars
    <3> QED
      BY <3>2, <3>3 DEF IsRequest, Lists
  <2> QED
    BY <2>2, <2>3
<1>3. StatesInv'
  <2>1. client_connect(ws, "None").ws \in WebSocket
    BY HandshakeType DEF AgreeInv, StatesInv, Error
  <2>2. client_connect(ws, "None").ws.state = "Connecting"
    BY <1>1 DEF AgreeInv, StatesInv, client_connect, handshake, WebSocket
  <2>3. connections' \in 0..MaxConnections
    BY <1>1, HandshakeAssumption DEF AgreeInv, StatesInv
  <2> QED
    BY <1>1, <1>2, <2>1, <2>2, <2>3, NewWebSocketType
       DEF AgreeInv, StatesInv, ClientPC, ServerPC
<1>4. ContextInv'
  BY <1>1, <1>2, <1>7 DEF AgreeInv, ContextInv, Option
<1>5. AnswerInv'
  <2>1. response'.message.protocols = <<>>
    BY <1>1 DEF NoMessage, Stream, http_response
  <2> QED
    BY <1>1, <1>2, <2>1 DEF AgreeInv, AnswerInv, Option
<1>6. CursorsInv'
  BY <1>1, <1>2, Lengths DEF AgreeInv, CursorsInv
<1> QED
  BY <1>3, <1>4, <1>5, <1>6 DEF AgreeInv

(* A connect that sends nothing.                                           *)
LEMMA RefusalAgrees ==
  ASSUME AgreeInv, ConnectRefuses
  PROVE  AgreeInv'
<1>1. /\ client \in {"start", "failed"} /\ client' \in {"failed", "panicked"}
      /\ ws' \in {client_connect(ws, "Unknown").ws, ws}
      /\ UNCHANGED <<key, client_cursor, sub_protocol, server_vars, wire>>
  BY DEF ConnectRefuses
<1>2. ws' \in WebSocket /\ ws'.state # "Open"
  <2>1. client_connect(ws, "Unknown").ws \in WebSocket
    BY HandshakeType DEF AgreeInv, StatesInv, Error
  <2>2. client_connect(ws, "Unknown").ws.state = ws.state
    BY DEF AgreeInv, StatesInv, client_connect, handshake, WebSocket
  <2> QED
    BY <1>1, <2>1, <2>2 DEF AgreeInv, StatesInv
<1> QED
  BY <1>1, <1>2
     DEF AgreeInv, StatesInv, ContextInv, AnswerInv, CursorsInv, ClientPC,
         server_vars, wire

(* ClientReads, with the definitions of one outcome after the other.       *)
LEMMA ClientReadsCases ==
  ASSUME ClientReads
  PROVE  /\ client = "connecting"
         /\ UNCHANGED <<key, server_vars, request, ended, connections>>
         /\ \E n \in 1..response.left :
              /\ response' = Take(response, n)
              /\ \/ /\ client_cursor + n < ResponseLen
                    /\ ws' = client_accept(ws, "HttpHeaderIncomplete").ws
                    /\ client_cursor' = client_cursor + n
                    /\ sub_protocol' = "None" /\ client' = "connecting"
                 \/ \E http \in read_server_connect_handshake_response(
                                  key, response.message) :
                      \/ /\ http = "HttpError"
                         /\ ws' = client_accept(ws, http).ws
                         /\ client_cursor' = client_cursor + n
                         /\ sub_protocol' = "None" /\ client' = "failed"
                      \/ /\ http = "Panic" /\ UNCHANGED ws
                         /\ client_cursor' = client_cursor + n
                         /\ sub_protocol' = "None" /\ client' = "panicked"
                      \/ /\ http = "None"
                         /\ ws' = client_accept(ws, http).ws
                         /\ client_cursor'
                              = advance(client_cursor, n, ResponseLen)
                         /\ sub_protocol' = answered_protocol(response.message)
                         /\ client' \in {"open", "panicked"}
<1>1. /\ client = "connecting"
      /\ UNCHANGED <<key, server_vars, request, ended, connections>>
  BY DEF ClientReads
<1>2. PICK n, http :
         /\ n \in 1..response.left
         /\ http \in IF client_cursor + n < ResponseLen
                     THEN {"HttpHeaderIncomplete"}
                     ELSE read_server_connect_handshake_response(
                            key, response.message)
         /\ response' = Take(response, n)
         /\ IF http = "Panic" THEN UNCHANGED ws
            ELSE ws' = client_accept(ws, http).ws
         /\ client_cursor' = IF http = "None"
                             THEN advance(client_cursor, n, ResponseLen)
                             ELSE client_cursor + n
         /\ sub_protocol' = IF http = "None"
                            THEN answered_protocol(response.message)
                            ELSE "None"
         /\ client' \in IF http = "HttpHeaderIncomplete" THEN {"connecting"}
                        ELSE IF http = "HttpError" THEN {"failed"}
                        ELSE IF http = "Panic" THEN {"panicked"}
                        ELSE Builds(n, ResponseLen, "open", "panicked")
  BY DEF ClientReads, arrived
<1>3. CASE client_cursor + n < ResponseLen
  BY <1>1, <1>2, <1>3
<1>4. CASE ~(client_cursor + n < ResponseLen)
  <2>1. http \in
          read_server_connect_handshake_response(key, response.message)
    BY <1>2, <1>4
  <2>2. http \in {"HttpError", "Panic", "None"}
    BY <2>1, Answers
  <2>3. Builds(n, ResponseLen, "open", "panicked")
          \subseteq {"open", "panicked"}
    BY DEF Builds
  <2>4. CASE http = "HttpError"
    BY <1>1, <1>2, <2>1, <2>4
  <2>5. CASE http = "Panic"
    BY <1>1, <1>2, <2>1, <2>5
  <2>6. CASE http = "None"
    BY <1>1, <1>2, <2>1, <2>3, <2>6
  <2> QED
    BY <2>2, <2>4, <2>5, <2>6
<1> QED
  BY <1>3, <1>4

(* A cursor, advanced or not, is the value of a usize.                     *)
LEMMA CursorType ==
  ASSUME NEW cursor \in Nat, NEW n \in Nat, NEW len \in Nat,
         cursor + n < UsizeRange
  PROVE  /\ cursor + n \in 0..(UsizeRange - 1)
         /\ advance(cursor, n, len) \in 0..(UsizeRange - 1)
<1>1. UsizeRange \in Nat /\ UsizeRange > 0
  BY Lengths
<1>2. \A x \in Int : x % UsizeRange \in 0..(UsizeRange - 1)
  BY <1>1
<1>3. cursor + ((n - len) % UsizeRange) \in Int
  BY <1>2
<1> QED
  BY <1>1, <1>2, <1>3 DEF advance

(* The answer of the library's server to the library's client.             *)
LEMMA AnswerAccepted ==
  ASSUME ContextInv, AnswerInv,
         client = "connecting", server = "open"
  PROVE  "HttpError" \notin
           read_server_connect_handshake_response(key, response.message)
<1>1. context.key = key
  BY HeaderIsRead DEF ContextInv
<1>2. response.message.code = 101 /\ response.message.accepts = <<key>>
  BY <1>1 DEF AnswerInv, build_connect_handshake_response
<1>3. \A i \in DOMAIN <<key>> : <<key>>[i] = key
  OBVIOUS
<1> QED
  BY <1>2, <1>3, Answers

(* What the answers to a client are, and what they say of its protocol.    *)
LEMMA ProtocolType ==
  ASSUME NEW r, r.protocols \in {<<>>} \cup {<<p>> : p \in Name}
  PROVE  answered_protocol(r) \in Option(Name)
<1>1. \A p : Last(<<p>>) = p /\ <<p>> # <<>>
  BY DEF Last
<1> QED
  BY <1>1 DEF answered_protocol, Option

(* ClientReads: the client that opens takes the protocol of the response.  *)
LEMMA ClientReadsAgrees ==
  ASSUME ResponseInv, AgreeInv, ClientReads
  PROVE  AgreeInv' /\ (server = "open" => ws'.state # "Aborted")
<1>1. client = "connecting"
      /\ UNCHANGED <<key, server_vars, request, ended, connections>>
  BY ClientReadsCases
<1>2. PICK n \in 1..response.left :
        /\ response' = Take(response, n)
        /\ \/ /\ client_cursor + n < ResponseLen
              /\ ws' = client_accept(ws, "HttpHeaderIncomplete").ws
              /\ client_cursor' = client_cursor + n
              /\ sub_protocol' = "None" /\ client' = "connecting"
           \/ \E http \in read_server_connect_handshake_response(
                            key, response.message) :
                \/ /\ http = "HttpError"
                   /\ ws' = client_accept(ws, http).ws
                   /\ client_cursor' = client_cursor + n
                   /\ sub_protocol' = "None" /\ client' = "failed"
                \/ /\ http = "Panic" /\ UNCHANGED ws
                   /\ client_cursor' = client_cursor + n
                   /\ sub_protocol' = "None" /\ client' = "panicked"
                \/ /\ http = "None"
                   /\ ws' = client_accept(ws, http).ws
                   /\ client_cursor' = advance(client_cursor, n, ResponseLen)
                   /\ sub_protocol' = answered_protocol(response.message)
                   /\ client' \in {"open", "panicked"}
  BY ClientReadsCases
<1>3. /\ IsStream(response, ResponseLen + MaxBehind)
      /\ client_cursor \in Nat /\ client_cursor + response.left = response.sent
      /\ response.sent \in Nat /\ response.left \in Nat
      /\ response.sent <= ResponseLen + MaxBehind
  BY <1>1 DEF ResponseInv, IsStream
<1>4. response'.message = response.message /\ n \in Nat /\ n <= response.left
  BY <1>2, <1>3, Bounds, Streams
<1>5. CursorsInv'
  <2>1. client_cursor + n < UsizeRange
    BY <1>3, <1>4, Lengths
  <2>2. client_cursor' \in {client_cursor + n,
                           advance(client_cursor, n, ResponseLen)}
    BY <1>2
  <2> QED
    BY <1>1, <1>3, <1>4, <2>1, <2>2, Lengths, CursorType
       DEF AgreeInv, CursorsInv, server_vars
<1>6. AnswerInv'
  BY <1>1, <1>2, <1>4, ProtocolType
     DEF AgreeInv, AnswerInv, Option, server_vars
<1>7. ContextInv'
  BY <1>1, <1>2 DEF AgreeInv, ContextInv, server_vars
<1>8. \A http \in {"HttpHeaderIncomplete", "HttpError", "None"} :
        LET w == client_accept(ws, http).ws
        IN  /\ w \in WebSocket
            /\ w.state = CASE http = "None" -> "Open"
                          [] http = "HttpHeaderIncomplete" -> "Connecting"
                          [] OTHER -> "Aborted"
  <2> TAKE http \in {"HttpHeaderIncomplete", "HttpError", "None"}
  <2>1. ws \in WebSocket /\ ws.state = "Connecting"
    BY <1>1 DEF AgreeInv, StatesInv
  <2>2. client_accept(ws, http).ws \in WebSocket
    BY <2>1, HandshakeType DEF Error
  <2>3. client_accept(ws, http).ws = [ws EXCEPT !.state =
          CASE http = "None" -> "Open"
            [] http = "HttpHeaderIncomplete" -> ws.state
            [] OTHER -> "Aborted"]
    BY <2>1 DEF client_accept, handshake
  <2> QED
    BY <2>1, <2>2, <2>3 DEF WebSocket
<1>9. StatesInv'
  BY <1>1, <1>2, <1>8 DEF AgreeInv, StatesInv, ClientPC, server_vars
<1>10. server = "open" => ws'.state # "Aborted"
  <2> SUFFICES ASSUME server = "open" PROVE ws'.state # "Aborted"
    OBVIOUS
  <2>1. "HttpError" \notin
          read_server_connect_handshake_response(key, response.message)
    BY <1>1, AnswerAccepted DEF AgreeInv
  <2>2. ws.state = "Connecting"
    BY <1>1 DEF AgreeInv, StatesInv
  <2> QED
    BY <1>2, <1>8, <2>1, <2>2
<1> QED
  BY <1>5, <1>6, <1>7, <1>9, <1>10 DEF AgreeInv

(* ServerReads: the server takes its context from the request.             *)
LEMMA ServerReadsContext ==
  ASSUME ServerReads
  PROVE  /\ UNCHANGED <<client_vars, server_ws, chosen, connections>>
         /\ \/ UNCHANGED context /\ server' # "accepting"
            \/ /\ context' = read_http_header(request.message)
               /\ context' # NoContext /\ server' = "accepting"
         /\ ended' \in {ended, TRUE}
<1>1. PICK n, c :
        /\ n \in 1..request.left
        /\ c = read_http_header(request.message)
        /\ IF server_cursor + n < RequestLen
           THEN UNCHANGED <<context, server, response, ended>>
           ELSE \E goes_on \in Builds(n, RequestLen, TRUE, FALSE) :
                   IF ~goes_on
                        \/ Range(listed(request.message)) \cap LongNames # {}
                   THEN /\ server' = "failed" /\ ended' = TRUE
                        /\ UNCHANGED <<context, response>>
                   ELSE IF c = NoContext
                   THEN Serves(IF request.message.path = "/" THEN 200
                               ELSE 404)
                   ELSE IF request.message.path # "/chat" THEN Serves(404)
                   ELSE /\ context' = c /\ server' = "accepting"
                        /\ UNCHANGED <<response, ended>>
  BY DEF ServerReads, arrived
<1>2. server = "reading"
      /\ UNCHANGED <<client_vars, server_ws, chosen, connections>>
  BY DEF ServerReads
<1>3. CASE server_cursor + n < RequestLen
  BY <1>1, <1>2, <1>3
<1>4. CASE ~(server_cursor + n < RequestLen)
  BY <1>1, <1>2, <1>4 DEF Serves
<1> QED
  BY <1>3, <1>4

(* The invariant is preserved when the server reads.                       *)
LEMMA ServerReadsAgrees ==
  ASSUME ResponseInv, RequestInv, AgreeInv, ServerReads
  PROVE  AgreeInv'
<1>1. /\ UNCHANGED <<client_vars, server_ws, chosen, connections>>
      /\ \/ UNCHANGED context /\ server' # "accepting"
         \/ /\ context' = read_http_header(request.message)
            /\ context' # NoContext /\ server' = "accepting"
      /\ ended' \in {ended, TRUE}
  BY ServerReadsContext
<1>2. PICK n \in 1..request.left :
        /\ server = "reading" /\ request' = Take(request, n)
        /\ server_cursor' \in {server_cursor + n,
                               advance(server_cursor, n, RequestLen)}
        /\ server' \in {"reading", "failed", "accepting", "done"}
        /\ \/ UNCHANGED response
           \/ \E code : response' = Stream(http_response(code), ResponseLen)
  BY ServerReadsCases
<1>3. /\ IsStream(request, RequestLen + MaxBehind)
      /\ server_cursor \in Nat /\ server_cursor + request.left = request.sent
      /\ request.sent \in Nat /\ request.left \in Nat
      /\ request.sent <= RequestLen + MaxBehind
  BY <1>2 DEF RequestInv, IsStream
<1>4. request'.message = request.message /\ n \in Nat /\ n <= request.left
  BY <1>2, <1>3, Bounds, Streams
<1>5. CursorsInv'
  <2>1. server_cursor + n < UsizeRange
    BY <1>3, <1>4, Lengths
  <2> QED
    BY <1>1, <1>2, <1>3, <1>4, <2>1, Lengths, CursorType
       DEF AgreeInv, CursorsInv, client_vars
<1>6. client # "open" /\ server' # "open"
  BY <1>2, Lengths DEF ResponseInv, IsStream, Behind
<1>7. AnswerInv'
  <2>1. \/ UNCHANGED response
        \/ response'.message.protocols = <<>>
    BY <1>2 DEF Stream, http_response
  <2> QED
    BY <1>1, <1>6, <2>1 DEF AgreeInv, AnswerInv, client_vars
<1>8. ContextInv'
  BY <1>1, <1>2, <1>4 DEF AgreeInv, ContextInv, client_vars
<1>9. StatesInv'
  BY <1>1, <1>2 DEF AgreeInv, StatesInv, ServerPC, client_vars
<1> QED
  BY <1>5, <1>7, <1>8, <1>9 DEF AgreeInv

(* ServerAccepts: the server answers the key and the protocol it keeps.    *)
LEMMA ServerAcceptsAgrees ==
  ASSUME ResponseInv, AgreeInv, ServerAccepts
  PROVE  AgreeInv'
<1>1. /\ server = "accepting"
      /\ server_ws' = server_accept(server_ws, "None").ws
      /\ chosen' \in Option(Range(context.list))
      /\ ended' \in {ended, TRUE}
      /\ \/ /\ server' = "open"
            /\ response' = Stream(build_connect_handshake_response(
                                    context.key, chosen'), ResponseLen)
         \/ server' = "failed" /\ UNCHANGED response
      /\ UNCHANGED <<client_vars, context, server_cursor, request,
                     connections>>
  BY DEF ServerAccepts
<1>2. client # "open"
  BY <1>1, Lengths DEF ResponseInv, IsStream, Behind
<1>3. server_ws' \in WebSocket
  BY <1>1, HandshakeType DEF AgreeInv, StatesInv, Error
<1>4. chosen' \in Option(Name)
  BY <1>1, ContextType DEF AgreeInv
<1>5. StatesInv'
  BY <1>1, <1>3 DEF AgreeInv, StatesInv, ServerPC, client_vars
<1>6. ContextInv'
  BY <1>1, <1>4 DEF AgreeInv, ContextInv, client_vars
<1>7. AnswerInv'
  <2>1. CASE server' = "open"
    <3>1. response'.message
            = build_connect_handshake_response(context.key, chosen')
      BY <1>1, <2>1 DEF Stream
    <3>2. build_connect_handshake_response(context.key, chosen').protocols
            \in {<<>>} \cup {<<p>> : p \in Name}
      BY <1>4 DEF build_connect_handshake_response, Option
    <3> QED
      BY <1>1, <1>2, <3>1, <3>2 DEF AgreeInv, AnswerInv, client_vars
  <2>2. CASE server' = "failed" /\ UNCHANGED response
    BY <1>1, <1>2, <2>2 DEF AgreeInv, AnswerInv, client_vars
  <2> QED
    BY <1>1, <2>1, <2>2
<1> QED
  BY <1>1, <1>5, <1>6, <1>7 DEF AgreeInv, CursorsInv, client_vars

(* ForeignAnswers: what another program answers names one protocol at most.*)
LEMMA ForeignAnswersAgrees ==
  ASSUME ResponseInv, AgreeInv, ForeignAnswers
  PROVE  AgreeInv'
<1>1. /\ server = "foreign" /\ response.sent = 0
      /\ UNCHANGED <<client_vars, server_vars, request, ended, connections>>
  BY DEF ForeignAnswers
<1>2. client # "open"
  BY <1>1, Lengths DEF ResponseInv, IsStream, Behind
<1>3. response'.message.protocols \in {<<>>} \cup {<<p>> : p \in Name}
  <2>1. PICK code \in {101, 404}, protocol \in Option(Protocols),
             n \in (IF AcceptGiven THEN 1 ELSE 0)..2 :
          \E accepts \in [1..n -> Keys] :
            response' = Stream([code |-> code, accepts |-> accepts,
                                protocols |-> IF protocol = "None" THEN <<>>
                                              ELSE <<protocol>>], ResponseLen)
    BY Zenon DEF ForeignAnswers
  <2>2. response'.message.protocols
          = IF protocol = "None" THEN <<>> ELSE <<protocol>>
    BY <2>1 DEF Stream
  <2>3. protocol = "None" \/ protocol \in Name
    BY DEF Option, Name
  <2> QED
    BY <2>2, <2>3
<1> QED
  BY <1>1, <1>2, <1>3
     DEF AgreeInv, StatesInv, ContextInv, AnswerInv, CursorsInv, client_vars,
         server_vars

(* ServerWrites and StreamEnds: the messages stay what they are.           *)
LEMMA StreamAgrees ==
  ASSUME ResponseInv, RequestInv, AgreeInv, StreamEnds \/ ServerWrites
  PROVE  AgreeInv'
<1>1. /\ UNCHANGED <<ws, key, client_cursor, sub_protocol, server_vars,
                     connections>>
      /\ client' \in {client, IF client = "connecting" THEN "failed"
                             ELSE client}
      /\ ended' \in {ended, TRUE}
      /\ request' \in {request, Drop(request)}
      /\ response' \in {response, Drop(response), Grow(response)}
  BY DEF StreamEnds, ServerWrites, client_vars
<1>2. /\ request'.message = request.message
      /\ response'.message = response.message
  BY <1>1, Bounds, Streams DEF ResponseInv, RequestInv
<1>3. StatesInv'
  BY <1>1 DEF AgreeInv, StatesInv, ClientPC, server_vars
<1>4. ContextInv' /\ AnswerInv' /\ CursorsInv'
  BY <1>1, <1>2 DEF AgreeInv, ContextInv, AnswerInv, CursorsInv, server_vars
<1> QED
  BY <1>3, <1>4 DEF AgreeInv

HandshakeInv == ResponseInv /\ RequestInv /\ AgreeInv

(* Every step of the two programs and of the streams between them.         *)
LEMMA HandshakeStep ==
  ASSUME HandshakeInv, [Next]_vars
  PROVE  HandshakeInv'
<1>1. CASE Connect \/ ForeignConnects
  BY <1>1, ConnectAgrees, ResponseStep, RequestStep DEF HandshakeInv
<1>2. CASE ConnectRefuses
  BY <1>2, RefusalAgrees, ResponseStep, RequestStep DEF HandshakeInv
<1>3. CASE ClientReads
  BY <1>3, ClientReadsAgrees, ResponseStep, RequestStep DEF HandshakeInv
<1>4. CASE ServerReads
  BY <1>4, ServerReadsAgrees, ResponseStep, RequestStep DEF HandshakeInv
<1>5. CASE ServerAccepts
  BY <1>5, ServerAcceptsAgrees, ResponseStep, RequestStep DEF HandshakeInv
<1>6. CASE ForeignAnswers
  BY <1>6, ForeignAnswersAgrees, ResponseStep, RequestStep DEF HandshakeInv
<1>7. CASE StreamEnds \/ ServerWrites
  BY <1>7, StreamAgrees, ResponseStep, RequestStep DEF HandshakeInv
<1>8. CASE UNCHANGED vars
  <2>1. AgreeInv'
    BY <1>8
       DEF HandshakeInv, AgreeInv, StatesInv, ContextInv, AnswerInv,
           CursorsInv, vars, client_vars, server_vars, wire
  <2> QED
    BY <1>8, <2>1, ResponseStep, RequestStep DEF HandshakeInv
<1> QED
  BY <1>1, <1>2, <1>3, <1>4, <1>5, <1>6, <1>7, <1>8 DEF Next

(* Neither side has begun.                                                 *)
LEMMA HandshakeInit ==
  ASSUME Init
  PROVE  HandshakeInv
<1>1. 0 \in 0..(ResponseLen + MaxBehind) /\ 0 \in 0..(RequestLen + MaxBehind)
  BY Bounds
<1>2. /\ IsStream(NoMessage, ResponseLen + MaxBehind)
      /\ IsStream(NoMessage, RequestLen + MaxBehind)
      /\ NoMessage.message.protocols = <<>>
  BY <1>1, Bounds, Streams DEF NoMessage, http_response
<1>3. ResponseInv /\ RequestInv
  BY <1>2 DEF Init, ResponseInv, RequestInv
<1>4. StatesInv
  <2>1. 0 \in 0..MaxConnections
    BY HandshakeAssumption
  <2>2. new_websocket(TRUE).state = "None"
    BY DEF new_websocket
  <2> QED
    BY <2>1, <2>2, NewWebSocketType DEF Init, StatesInv, ClientPC, ServerPC
<1>5. ContextInv /\ AnswerInv /\ CursorsInv
  BY <1>2, Lengths DEF Init, ContextInv, AnswerInv, CursorsInv, Option
<1> QED
  BY <1>3, <1>4, <1>5 DEF HandshakeInv, AgreeInv

(***************************************************************************)
(* The variables of the handshake keep their types, for all lengths of the *)
(* messages and any set of keys and names: the cursors of connect and      *)
(* read_header never leave the range of usize.                             *)
(***************************************************************************)
THEOREM TypeCorrect == Spec => []TypeOK
<1>1. HandshakeInv => TypeOK
  <2> SUFFICES ASSUME HandshakeInv PROVE TypeOK
    OBVIOUS
  <2>1. context.key \in Option(Keys \cup {""}) /\ context.list \in Seq(Name)
    BY ContextType DEF HandshakeInv, AgreeInv
  <2>2. /\ {request.sent, response.sent} \subseteq Nat
        /\ request.left \in 0..request.sent
        /\ response.left \in 0..response.sent
    BY DEF HandshakeInv, ResponseInv, RequestInv, IsStream
  <2>3. /\ {ws, server_ws} \subseteq WebSocket
        /\ client \in ClientPC /\ server \in ServerPC
        /\ ended \in BOOLEAN /\ connections \in 0..MaxConnections
    BY DEF HandshakeInv, AgreeInv, StatesInv
  <2>4. /\ key \in Option(Keys)
        /\ {sub_protocol, chosen} \subseteq Option(Name)
        /\ {client_cursor, server_cursor} \subseteq 0..(UsizeRange - 1)
    BY DEF HandshakeInv, AgreeInv, ContextInv, AnswerInv, CursorsInv
  <2> QED
    BY <2>1, <2>2, <2>3, <2>4 DEF TypeOK
<1> QED
  BY <1>1, HandshakeInit, HandshakeStep, PTL DEF Spec

(***************************************************************************)
(* A client and a server that are both open agree on the sub-protocol, and *)
(* it is one that the client has offered, for lists of any length, any     *)
(* capacity of the server's list and any choice of the server              *)
(* (server_accept, client_accept).                                         *)
(***************************************************************************)
THEOREM AgreementCorrect == Spec => []SidesAgree
<1>1. HandshakeInv => SidesAgree
  <2> SUFFICES ASSUME HandshakeInv, client = "open", server = "open"
               PROVE  /\ sub_protocol = chosen
                      /\ chosen \in Option(Range(FlattenSeq(
                                     request.message.protocols)))
    BY DEF SidesAgree
  <2>1. sub_protocol = answered_protocol(response.message)
        /\ chosen \in Option(Range(context.list))
        /\ response.message
              = build_connect_handshake_response(context.key, chosen)
    BY DEF HandshakeInv, AgreeInv, AnswerInv
  <2>2. answered_protocol(response.message) = chosen
    <3>1. Last(<<chosen>>) = chosen /\ <<chosen>> # <<>>
      BY DEF Last
    <3> QED
      BY <2>1, <3>1 DEF answered_protocol, build_connect_handshake_response
  <2>3. Range(context.list)
          \subseteq Range(FlattenSeq(request.message.protocols))
    BY HeaderIsRead DEF HandshakeInv, AgreeInv, ContextInv
  <2> QED
    BY <2>1, <2>2, <2>3 DEF Option
<1> QED
  BY <1>1, HandshakeInit, HandshakeStep, PTL DEF Spec

(***************************************************************************)
(* What the library's server answers, the library's client takes: no read  *)
(* of connect aborts it.                                                   *)
(***************************************************************************)
THEOREM AcceptanceCorrect == Spec => AcceptedIsNotAborted
<1>1. HandshakeInv /\ [Next]_vars =>
        [client = "connecting" /\ server = "open"
           => ws'.state # "Aborted"]_vars
  <2> SUFFICES ASSUME HandshakeInv, Next,
                      client = "connecting", server = "open"
               PROVE  ws'.state # "Aborted"
    OBVIOUS
  <2>1. ws.state # "Aborted"
    BY DEF HandshakeInv, AgreeInv, StatesInv
  <2>2. CASE ClientReads
    BY <2>2, ClientReadsAgrees DEF HandshakeInv
  <2>3. CASE ~ClientReads
    <3>1. ws' = ws
      BY <2>3 DEF Next, Connect, ForeignConnects, Connects, ConnectRefuses,
                  ServerReads, ServerAccepts, ForeignAnswers, ServerWrites,
                  StreamEnds, client_vars
    <3> QED
      BY <2>1, <3>1
  <2> QED
    BY <2>2, <2>3
<1> QED
  BY <1>1, HandshakeInit, HandshakeStep, PTL DEF Spec, AcceptedIsNotAborted
=============================================================================
