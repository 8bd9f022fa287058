-------------------------- MODULE ResponsePipeline --------------------------
(***************************************************************************)
(* The origin-response path of the proxy: the buffered_reader of parse.c  *)
(* (readbuf, next, peek, read, flush, advance), the scanning functions    *)
(* built on it (try_match, readline, readspaces, read_code, read_int,     *)
(* read_hex, read_content_length, read_to_empty_line) and their driver    *)
(* recieve_data_and_pipe_to_client of proxyFilter.c, up to the status     *)
(* process_request sends when the driver returns -1.                      *)
(*                                                                         *)
(* The driver calls initialize(in, DATA_LENGTH, sd, -1): the reader has   *)
(* no client sink, so every buffer is copied into the queue in->data and  *)
(* the queue is sent to the client only after parsing has finished.  The  *)
(* client_sd >= 0 branches of readbuf and flush are dead in this program  *)
(* and are not modelled.                                                  *)
(*                                                                         *)
(* Each helper is an operator that returns the SET of its possible        *)
(* outcomes: the only nondeterminism is what recv() returns on a refill.  *)
(* Each step of the driver between two helper calls is an action.         *)
(***************************************************************************)
EXTENDS Integers, Sequences, SequencesExt, FiniteSets, CNumber

CONSTANTS
    BufLen,        \* DATA_LENGTH, the capacity of in->buf
    RecvSizes,     \* byte counts recv() may return when more is available
    Responses,     \* the byte streams an origin may send
    Framed,        \* those of them spec 4.2 says are delivered whole
    Chars,         \* the byte alphabet; an uninitialised byte is any of it
    StatusPrefix,  \* the literal "HTTP/1." matched by read_code
    CLName,        \* the literal "Content-Length:"
    TEName,        \* the literal "Transfer-Encoding:"
    ChunkedName,   \* the literal "chunked"
    ShortSends     \* whether send() may return fewer bytes than asked

ASSUME /\ BufLen \in Nat \ {0}
       /\ RecvSizes \subseteq 1..BufLen
       /\ \A r \in Responses : r \in Seq(Chars)

CR == "CR"
LF == "LF"
Uninit == "?"           \* a byte of in->buf no recv() has written
NUL == "NUL"            \* what next()/peek() return when status != 0
LowerHex == <<"0","1","2","3","4","5","6","7","8","9","a","b","c","d","e","f">>
UpperHex == <<"A","B","C","D","E","F">>
Digits == {LowerHex[i] : i \in 1..10}
HexDigits == Range(LowerHex) \cup Range(UpperHex)
\* The value atoi/strtol give a digit.
DigitValue(c) ==
    IF c \in Range(LowerHex) THEN (CHOOSE i \in 1..16 : LowerHex[i] = c) - 1
    ELSE (CHOOSE i \in 1..6 : UpperHex[i] = c) + 9
Spaces == {" ", "TAB"}

\* Reader status values (constants.h) and the two framing sentinels of
\* read_content_length.
OK == "OK"
HostErrors == {"HOST_TIMEOUT_ERROR", "HOST_IO_ERROR"}
IS_TE == -1     \* IS_TRANSFER_ENCODING ("-1 is chunk transfer")
NO_CL == -2     \* NO_CONTENT_LENGTH_OR_TRANSFER_ENCODING, another negative

\* The canned responses of response.c, as the client sees them.
Canned == {"R500", "R502", "R504"}
StatusFor(s) == IF s = "HOST_IO_ERROR" THEN "R500" ELSE "R504"

VARIABLES
    resp,      \* the bytes the origin sends on the host socket
    rd,        \* the buffered_reader, plus recvd: bytes recv() has delivered
    pc,        \* the driver's position
    code,      \* the status code read by read_code
    len,       \* Content-Length, or the current chunk size
    ci,        \* the queue chunk being sent to the client
    bsent,     \* bytes_sent of send_message for that chunk
    client,    \* what the client socket has received, in order
    clientUp,  \* FALSE once a send to the client has failed
    result,    \* the value recieve_data_and_pipe_to_client returns
    cacheFile  \* the content create_cache_file committed, or <<>>

vars == <<resp, rd, pc, code, len, ci, bsent, client, clientUp, result, cacheFile>>

-----------------------------------------------------------------------------
(* The buffered_reader.                                                   *)

Reader == [buf : [1..BufLen -> Chars \cup {Uninit}], pos : 0..BufLen,
           n : 0..BufLen, status : {OK} \cup HostErrors, recvd : Nat,
           data : Seq(Seq(Chars))]

\* Flat map of a set of outcomes through F.
Then(S, F(_)) == UNION {F(x) : x \in S}

\* readbuf: copy the whole window into the queue, then one recv() into the
\* window.  recv() returns some bytes, 0 (the origin closed) or -1 (an
\* error, or the 10 s SO_RCVTIMEO expiring); on 0 or -1 the window keeps
\* its old bytes but bytes_in_buf and pos become 0.
readbuf(r) ==
    LET kept  == IF r.status = OK /\ r.n > 0
                 THEN Append(r.data, SubSeq(r.buf, 1, r.n)) ELSE r.data
        avail == Len(resp) - r.recvd
        sizes == ({Min({BufLen, avail})} \cup RecvSizes) \cap 1..Min({BufLen, avail})
    IN  {[r EXCEPT !.data = kept, !.n = k, !.pos = 0, !.recvd = @ + k,
                   !.buf = [i \in 1..BufLen |-> IF i <= k THEN resp[r.recvd + i]
                                                ELSE r.buf[i]]] : k \in sizes}
        \cup
        {[r EXCEPT !.data = kept, !.n = 0, !.pos = 0, !.status = e]
            : e \in {"HOST_TIMEOUT_ERROR", "HOST_IO_ERROR"}}

\* The window refilled if it is exhausted.
Ready(r) == IF r.pos = r.n THEN readbuf(r) ELSE {r}

\* in->buf[in->pos]: after a failed refill pos = 0 and the byte is stale,
\* or uninitialised if no recv() ever wrote it.
Byte(r) == IF r.buf[r.pos + 1] = Uninit THEN Chars ELSE {r.buf[r.pos + 1]}

\* peek and next, as sets of [c |-> byte returned, r |-> reader after].
peek(r) ==
    IF r.status # OK THEN {[c |-> NUL, r |-> r]}
    ELSE Then(Ready(r), LAMBDA q : {[c |-> b, r |-> q] : b \in Byte(q)})

next(r) ==
    IF r.status # OK THEN {[c |-> NUL, r |-> r]}
    ELSE Then(Ready(r), LAMBDA q : {[c |-> b, r |-> [q EXCEPT !.pos = @ + 1]]
                                      : b \in Byte(q)})

\* next() right after a peek(): the window is ready, so it only moves pos.
Consume(r) == IF r.status = OK THEN [r EXCEPT !.pos = @ + 1] ELSE r

\* read(in, buf, num): outcomes [s |-> bytes read, r |-> reader].
RECURSIVE read(_, _, _)
read(r, num, s) ==
    IF r.status # OK \/ Len(s) = num THEN {[s |-> s, r |-> r]}
    ELSE Then(next(r), LAMBDA x : read(x.r, num, Append(s, x.c)))

\* Variant of flush that passes on only the unread rest of the window.
flushTail(r) ==
    [r EXCEPT !.pos = r.n,
              !.data = IF r.status = OK /\ r.n > r.pos
                       THEN Append(@, SubSeq(r.buf, r.pos + 1, r.n)) ELSE @]

\* flush: give up the rest of the window; the whole window goes to the queue.
flush(r) ==
    [r EXCEPT !.pos = r.n,
              !.data = IF r.status = OK /\ r.n > 0
                       THEN Append(@, SubSeq(r.buf, 1, r.n)) ELSE @]

\* Mutant: when the window runs short, num is reduced by the whole window
\* (bytes_in_buf) instead of by what is left of it (bytes_in_buf - pos).
RECURSIVE advanceWholeWindow(_, _)
advanceWholeWindow(r, num) ==
    IF r.status # OK \/ num <= 0 THEN {r}
    ELSE Then(Ready(r), LAMBDA q :
            IF q.n = 0 THEN {q}
            ELSE IF q.n - q.pos < num
                 THEN advanceWholeWindow([q EXCEPT !.pos = q.n], num - q.n)
                 ELSE {[q EXCEPT !.pos = @ + num]})

\* advance(in, num): skip num bytes, refilling as often as needed.  When
\* fewer than num bytes are left in the window, the rest of it is skipped
\* and counted; otherwise pos moves by num.
RECURSIVE advance(_, _)
advance(r, num) ==
    IF r.status # OK \/ num <= 0 THEN {r}
    ELSE Then(Ready(r), LAMBDA q :
            IF q.n = 0 THEN {q}
            ELSE LET take == Min({q.n - q.pos, num})
                 IN  advance([q EXCEPT !.pos = @ + take], num - take))

-----------------------------------------------------------------------------
(* The scanning functions of parse.c.                                     *)

\* try_match(in, str): outcomes [i |-> characters matched, r |-> reader].
RECURSIVE try_match(_, _, _)
try_match(r, str, i) ==
    IF r.status # OK \/ i = Len(str) THEN {[i |-> i, r |-> r]}
    ELSE Then(peek(r), LAMBDA p :
            IF p.c = str[i + 1] THEN try_match(Consume(p.r), str, i + 1)
            ELSE {[i |-> i, r |-> p.r]})

\* readline: up to and including the next LF.
RECURSIVE readline(_)
readline(r) ==
    IF r.status # OK THEN {r}
    ELSE Then(peek(r), LAMBDA p : IF p.c = LF THEN {Consume(p.r)}
                                  ELSE readline(Consume(p.r)))

RECURSIVE readspaces(_)
readspaces(r) ==
    IF r.status # OK THEN {r}
    ELSE Then(peek(r), LAMBDA p : IF p.c \in Spaces THEN readspaces(Consume(p.r))
                                  ELSE {p.r})

\* read_int and read_hex: num[] collects at most 31 digits; atoi(num) and
\* strtol(num, NULL, 16) are (int) of strtol's loop over them, which is
\* run here digit by digit as num is filled.  After a failed refill peek
\* returns a stale byte; if it is a digit, next() stores 0 in num, which
\* ends the string, so the number is what was read before.  (The new
\* value is bound once, through a set, so that TLC computes it once.)
RECURSIVE ReadNum(_, _, _, _, _)
ReadNum(r, ds, base, acc, i) ==
    IF i = 31 \/ r.status # OK THEN {[v |-> CastInt(Saturate(acc)), r |-> r]}
    ELSE Then(peek(r), LAMBDA p :
            IF p.c \in ds /\ p.r.status = OK
            THEN UNION {ReadNum(Consume(p.r), ds, base, a, i + 1) :
                          a \in {AddDigit(acc, base, DigitValue(p.c))}}
            ELSE {[v |-> CastInt(Saturate(acc)), r |-> p.r]})
read_int(r) == ReadNum(r, Digits, 10, NoDigits, 0)
read_hex(r) == ReadNum(r, HexDigits, 16, NoDigits, 0)

\* read_code: outcomes [ok, code, r].  try_match("0") runs only when
\* try_match("1") fails; the byte after the version is skipped unread.
read_code(r) ==
    LET Fail(q) == {[ok |-> FALSE, code |-> <<>>, r |-> q]}
        Minor(q) == Then(try_match(q, <<"1">>, 0), LAMBDA a :
                       IF a.i = 1 THEN {a} ELSE try_match(a.r, <<"0">>, 0))
    IN Then(try_match(r, StatusPrefix, 0), LAMBDA a :
         IF a.i # Len(StatusPrefix) THEN Fail(a.r) ELSE
         Then(Minor(a.r), LAMBDA b :
           IF b.i # 1 THEN Fail(b.r) ELSE
           Then(next(b.r), LAMBDA sp : Then(readspaces(sp.r), LAMBDA q :
             {[ok |-> Len(x.s) = 3 /\ \A j \in 1..3 : x.s[j] \in Digits,
               code |-> x.s, r |-> x.r] : x \in read(q, 3, <<>>)}))))

\* read_content_length: outcomes [len, r].  Once a peek() has failed every
\* branch ends in NO_CL: the stale byte either is LF (return at once) or
\* matches nothing, readline is a no-op and the loop exits.
RECURSIVE read_content_length(_)
read_content_length(r) ==
    LET Done(q) == {[len |-> NO_CL, r |-> q]}
        Skip(q) == Then(readline(q), LAMBDA q2 : read_content_length(q2))
        Header(q, name, Found(_)) ==
            Then(try_match(q, name, 0), LAMBDA m :
                IF m.i = Len(name) THEN Then(readspaces(m.r), Found) ELSE Skip(m.r))
        Length(q) == {[len |-> x.v, r |-> x.r] : x \in read_int(q)}
        Chunked(q) == {[len |-> IF x.i = Len(ChunkedName) THEN IS_TE ELSE NO_CL, r |-> x.r]
                         : x \in try_match(q, ChunkedName, 0)}
    IN IF r.status # OK THEN Done(r)
       ELSE Then(peek(r), LAMBDA p :
              IF p.r.status # OK \/ p.c = LF THEN Done(p.r)
              ELSE IF p.c = CR
                   THEN Then(try_match(p.r, <<CR, LF>>, 0), LAMBDA m :
                          IF m.i = 2 THEN Done(m.r) ELSE Skip(m.r))
              ELSE IF p.c = CLName[1] THEN Header(p.r, CLName, Length)
              ELSE IF p.c = TEName[1] THEN Header(p.r, TEName, Chunked)
              ELSE Skip(p.r))

\* read_to_empty_line: outcomes r, positioned at (LF) or after (CR LF) the
\* first empty line.
RECURSIVE read_to_empty_line(_)
read_to_empty_line(r) ==
    LET Skip(q) == Then(readline(q), LAMBDA q2 : read_to_empty_line(q2))
    IN IF r.status # OK THEN {r}
       ELSE Then(peek(r), LAMBDA p :
              IF p.r.status # OK \/ p.c = LF THEN {p.r}
              ELSE IF p.c = CR
                   THEN Then(try_match(p.r, <<CR, LF>>, 0), LAMBDA m :
                          IF m.i = 2 THEN {m.r} ELSE Skip(m.r))
              ELSE Skip(p.r))

-----------------------------------------------------------------------------
(* recieve_data_and_pipe_to_client, and process_request after it returns. *)

Code200 == <<"2", "0", "0">>

\* code_has_no_body: 1xx, 204 and 304.
code_has_no_body(c) == c[1] = "1" \/ c = <<"2", "0", "4">> \/ c = <<"3", "0", "4">>

\* send_response through res_send_message, whose result nobody checks.
send_response(s) == client' = IF clientUp THEN Append(client, s) ELSE client

\* The error statuses handle_error_status answers with a response.
handle_error_status(st) == send_response(StatusFor(st))

Init ==
    /\ resp \in Responses
    /\ rd = [buf |-> [i \in 1..BufLen |-> Uninit], pos |-> 0, n |-> 0,
             status |-> OK, recvd |-> 0, data |-> <<>>]
    /\ pc = "read_code"
    /\ code = <<>>
    /\ len = 0
    /\ ci = 1
    /\ bsent = 0
    /\ client = <<>>
    /\ clientUp = TRUE
    /\ result = 0
    /\ cacheFile = <<>>

\* read_code; a bad status line is answered 502 and the driver returns -1.
ReadCode ==
    /\ pc = "read_code"
    /\ \E x \in read_code(rd) :
         /\ rd' = x.r
         /\ IF x.ok
            THEN /\ code' = x.code
                 /\ pc' = IF code_has_no_body(x.code) THEN "no_body" ELSE "framing"
                 /\ UNCHANGED <<client, result>>
            ELSE /\ send_response("R502")
                 /\ result' = -1
                 /\ pc' = "returned"
                 /\ UNCHANGED code
    /\ UNCHANGED <<resp, len, ci, bsent, clientUp, cacheFile>>

\* A step of the driver that only moves the reader.
ReaderStep(from, to, Outcomes) ==
    /\ pc = from
    /\ \E q \in Outcomes : rd' = q
    /\ pc' = to
    /\ UNCHANGED <<resp, code, len, ci, bsent, client, clientUp, result, cacheFile>>

\* No-body codes: read_to_empty_line; flush.
NoBody ==
    ReaderStep("no_body", "check", {flush(q) : q \in read_to_empty_line(rd)})

\* read_content_length decides the framing.
Framing ==
    /\ pc = "framing"
    /\ \E x \in read_content_length(rd) :
         /\ rd' = x.r
         /\ len' = x.len
         /\ pc' = CASE x.len >= 0     -> "length"
                     [] x.len = IS_TE  -> "chunked"
                     [] x.len = NO_CL  -> "unknown"
                     [] OTHER          -> "check"
    /\ UNCHANGED <<resp, code, ci, bsent, client, clientUp, result, cacheFile>>

\* Content-Length: readline; read_to_empty_line; advance(len); flush.
FixedLength ==
    ReaderStep("length", "check",
               Then(readline(rd), LAMBDA q1 : Then(read_to_empty_line(q1), LAMBDA q2 :
                 {flush(q3) : q3 \in advance(q2, len)})))

\* Chunked: readline; read_to_empty_line; len = read_hex.
ChunkedHead ==
    /\ pc = "chunked"
    /\ \E x \in Then(readline(rd), LAMBDA q1 : Then(read_to_empty_line(q1), read_hex)) :
         rd' = x.r /\ len' = x.v
    /\ pc' = "chunk"
    /\ UNCHANGED <<resp, code, ci, bsent, client, clientUp, result, cacheFile>>

\* One turn of while (len != 0): readline; advance(len); readline; read_hex.
ChunkedChunk ==
    /\ pc = "chunk"
    /\ len # 0
    /\ \E x \in Then(readline(rd), LAMBDA q1 : Then(advance(q1, len), LAMBDA q2 :
                   Then(readline(q2), read_hex))) :
         rd' = x.r /\ len' = x.v
    /\ UNCHANGED <<resp, pc, code, ci, bsent, client, clientUp, result, cacheFile>>

\* After the zero-size chunk: read_to_empty_line; flush.
ChunkedEnd ==
    /\ len = 0
    /\ ReaderStep("chunk", "check", {flush(q) : q \in read_to_empty_line(rd)})

\* Neither header: a reader already in error answers with its status and
\* returns -1; otherwise the body is read until the origin stops.
UnknownFailed ==
    /\ pc = "unknown"
    /\ rd.status # OK
    /\ handle_error_status(rd.status)
    /\ result' = -1
    /\ pc' = "returned"
    /\ UNCHANGED <<resp, rd, code, len, ci, bsent, clientUp, cacheFile>>

UnknownRead ==
    /\ rd.status = OK
    /\ ReaderStep("unknown", "drain", {rd})

\* while (in->status == 0) { flush(in); peek(in); }
Drain ==
    /\ rd.status = OK
    /\ ReaderStep("drain", "drain", {p.r : p \in peek(flush(rd))})

\* Variant of DrainEnd with the status reset inside the loop.
DrainEndInLoop ==
    /\ pc = "drain"
    /\ rd.status # OK
    /\ rd' = [rd EXCEPT !.status = OK]
    /\ UNCHANGED <<resp, pc, code, len, ci, bsent, client, clientUp, result, cacheFile>>

\* Variant of DrainEnd that reports success for what it discarded.
DrainEndReportsSuccess ==
    /\ pc = "drain"
    /\ rd.status # OK
    /\ rd' = [rd EXCEPT !.status = OK]
    /\ result' = 0
    /\ pc' = "returned"
    /\ UNCHANGED <<resp, code, len, ci, bsent, client, clientUp, cacheFile>>

\* in->status = 0; clean(in); return -1: the bytes read are discarded.
DrainEnd ==
    /\ pc = "drain"
    /\ rd.status # OK
    /\ rd' = [rd EXCEPT !.status = OK]
    /\ result' = -1
    /\ pc' = "returned"
    /\ UNCHANGED <<resp, code, len, ci, bsent, client, clientUp, cacheFile>>

\* if (in->status != 0): answer with the status and return -1.
CheckStatus ==
    /\ pc = "check"
    /\ IF rd.status = OK
       THEN pc' = "send" /\ UNCHANGED <<client, result>>
       ELSE handle_error_status(rd.status) /\ result' = -1 /\ pc' = "returned"
    /\ UNCHANGED <<resp, rd, code, len, ci, bsent, clientUp, cacheFile>>

\* Variant of SendCall whose loop runs while bytes_sent <= message_len.
SendCallPastEnd ==
    /\ pc = "send"
    /\ ci <= Len(rd.data)
    /\ LET msg == rd.data[ci]
       IN \E k \in IF ShortSends THEN 1..Len(msg) ELSE {Len(msg)} :
            /\ client' = client \o SubSeq(msg, 1, k)
            /\ IF bsent + k > Len(msg)
               THEN ci' = ci + 1 /\ bsent' = 0
               ELSE bsent' = bsent + k /\ UNCHANGED ci
    /\ UNCHANGED <<resp, rd, pc, code, len, clientUp, result, cacheFile>>

\* Mutant: the loop takes chunk = in->data->start->next each turn instead
\* of chunk->next, so it sends the first chunk again and again.
SendCallFirstChunk ==
    /\ pc = "send"
    /\ ci <= Len(rd.data)
    /\ LET msg == rd.data[1]
       IN \/ /\ client' = client \o msg
             /\ ci' = ci + 1 /\ bsent' = 0
             /\ UNCHANGED <<pc, clientUp, result>>
          \/ /\ clientUp' = FALSE
             /\ result' = -1
             /\ pc' = "cache"
             /\ UNCHANGED <<client, ci, bsent>>
    /\ UNCHANGED <<resp, rd, code, len, cacheFile>>

\* One send() of send_message(clientsd, chunk->buf, chunk->len).  The loop
\* passes the whole chunk again each time: after a short send the client
\* gets the chunk's first bytes once more.  A send() <= 0 fails the loop.
SendCall ==
    /\ pc = "send"
    /\ ci <= Len(rd.data)
    /\ LET msg == rd.data[ci]
       IN \/ \E k \in IF ShortSends THEN 1..Len(msg) ELSE {Len(msg)} :
               /\ client' = client \o SubSeq(msg, 1, k)
               /\ IF bsent + k >= Len(msg)
                  THEN ci' = ci + 1 /\ bsent' = 0
                  ELSE bsent' = bsent + k /\ UNCHANGED ci
               /\ UNCHANGED <<pc, clientUp, result>>
          \/ /\ clientUp' = FALSE
               /\ result' = -1
               /\ pc' = "cache"
               /\ UNCHANGED <<client, ci, bsent>>
    /\ UNCHANGED <<resp, rd, code, len, cacheFile>>

SendDone ==
    /\ pc = "send"
    /\ ci > Len(rd.data)
    /\ result' = 0
    /\ pc' = "cache"
    /\ UNCHANGED <<resp, rd, code, len, ci, bsent, client, clientUp, cacheFile>>

\* A 200 response is written to the cache, whether or not the client got
\* it; create_cache_file may fail (mkstemp, write, rename) and then
\* commits nothing.
Cache ==
    /\ pc = "cache"
    /\ IF code = Code200
       THEN \E ok \in BOOLEAN : cacheFile' = IF ok THEN FlattenSeq(rd.data) ELSE <<>>
       ELSE UNCHANGED cacheFile
    /\ pc' = "returned"
    /\ UNCHANGED <<resp, rd, code, len, ci, bsent, client, clientUp, result>>

\* process_request: if (success != 0) handle_error_status(sd, HOST_IO_ERROR).
Returned ==
    /\ pc = "returned"
    /\ IF result # 0 THEN handle_error_status("HOST_IO_ERROR") ELSE UNCHANGED client
    /\ pc' = "done"
    /\ UNCHANGED <<resp, rd, code, len, ci, bsent, clientUp, result, cacheFile>>

\* The handler has finished with this connection.
Finished == pc = "done" /\ UNCHANGED vars

Next ==
    \/ ReadCode \/ NoBody \/ Framing \/ FixedLength
    \/ ChunkedHead \/ ChunkedChunk \/ ChunkedEnd
    \/ UnknownFailed \/ UnknownRead \/ Drain \/ DrainEnd
    \/ CheckStatus \/ SendCall \/ SendDone \/ Cache \/ Returned
    \/ Finished

\* Every step is the handler thread running its own code; recv() and send()
\* always return, at the latest when SO_RCVTIMEO / SO_SNDTIMEO expire.
Spec == Init /\ [][Next]_vars /\ WF_vars(Next)

-----------------------------------------------------------------------------
(* Properties.                                                            *)

TypeOK ==
    /\ resp \in Responses
    /\ rd \in Reader
    /\ rd.recvd <= Len(resp)
    /\ pc \in {"read_code", "no_body", "framing", "length", "chunked", "chunk",
               "unknown", "drain", "check", "send", "cache", "returned", "done"}
    /\ code \in Seq(Chars \cup {NUL})
    /\ len \in Int
    /\ ci \in 1..Len(rd.data) + 1
    /\ bsent \in 0..(IF ci <= Len(rd.data) THEN Len(rd.data[ci]) - 1 ELSE 0)
    /\ client \in Seq(Chars \cup Canned)
    /\ clientUp \in BOOLEAN
    /\ result \in {0, -1}
    /\ cacheFile \in Seq(Chars)

\* The origin's bytes in what the client received.
OriginBytes == SelectSeq(client, LAMBDA x : x \notin Canned)

\* P1: the client receives the origin's bytes in the order the origin sent
\* them, each once: the queue built by readbuf/flush and sent by
\* send_message neither drops, repeats nor reorders a byte.
ClientBytesInOrder == IsPrefix(OriginBytes, resp)

\* When recieve_data_and_pipe_to_client reports success for a response
\* framed as spec 4.2 describes, the client has received the origin's
\* whole response and nothing else: the framing drivers read up to the
\* response's last byte before the final flush.
SuccessMeansComplete == (resp \in Framed /\ pc = "done" /\ result = 0) => client = resp

\* A canned status response is the only thing the client gets on that
\* connection: never two of them, never one after origin bytes.
StatusOnlyAlone ==
    \A i \in DOMAIN client : client[i] \in Canned => Len(client) = 1

\* Once the origin has sent its whole response, a client whose connection
\* is still up receives that response, whatever the framing: for a
\* response without Content-Length or chunking, the origin closing the
\* connection ends the body (spec 4.2, Unknown framing).
DeliveredWhenOriginDone ==
    (pc = "done" /\ rd.recvd = Len(resp) /\ clientUp) => client = resp

\* The abstract relay: the driver positions before the status check are
\* its reading, the send loop its delivery, create_cache_file its store,
\* process_request's handle_error_status its answer.
RelayPhase ==
    CASE pc = "send"     -> "deliver"
      [] pc = "cache"    -> "store"
      [] pc = "returned" -> "answer"
      [] pc = "done"     -> "done"
      [] OTHER           -> "read"

\* All bytes the queue holds.
Queued == FlattenSeq(rd.data)

Relay == INSTANCE ResponseRelay WITH
           got <- Queued, phase <- RelayPhase,
           failed <- (result # 0), R500 <- "R500"

\* recieve_data_and_pipe_to_client with process_request's error answer
\* implements ResponseRelay: the client is sent only what was queued, in
\* queue order and only after the status check; what reaches the client
\* on success is the whole queue, and that queue is a prefix of the
\* origin's response; at most one status comes from the relay and one more
\* only after a failure; the cache commits the queue or nothing.  (The
\* relay's fairness, that it reaches "done", is Terminates below.)
RelayRefined == Relay!Safety

\* The handler always finishes with the origin response.
Terminates == <>(pc = "done")

=============================================================================
