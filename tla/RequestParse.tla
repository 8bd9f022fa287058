--------------------------- MODULE RequestParse ---------------------------
(***************************************************************************)
(* One thread of process_client reading requests into its stack buffer    *)
(* `char request[REQUEST_LENGTH + 1]` (read_request) and parsing them     *)
(* (check_GET_and_get_resource).  The buffer is the same stack memory for *)
(* every client the thread serves, so it keeps the previous requests'     *)
(* bytes beyond the NUL read_request writes; before the first request it  *)
(* holds whatever the stack held (`Uninit`).  A scan that reaches it ends *)
(* in any outcome garbage can give: NO_HOST, a garbage Host, or a read    *)
(* past the array (UB).                                                   *)
(*                                                                         *)
(* Data abstraction: "GET " and "Host:" are single symbols; every other   *)
(* symbol is one byte.  A cell index i is request[i - 1].                 *)
(***************************************************************************)
EXTENDS Naturals, Sequences, SequencesExt

CONSTANTS
    Requests,      \* the byte sequences a client may send
    BufCells,      \* REQUEST_LENGTH + 1, the cells of request[]
    RecvSizes,     \* byte counts recv() may return when more is available
    GarbageChars,  \* what read_request's reads before request[0] may give
    MaxClients     \* bound: clients the thread serves in one behaviour

GET == "GET "
HOSTW == "Host:"
SP == " "
CR == "CR"
LF == "LF"
NUL == "NUL"
Uninit == "?"
OOB == "OOB"        \* a read past the end of request[]

VARIABLES
    buf,      \* the cells of request[]
    pc,       \* "accept", "recv" or "parse"
    req,      \* the bytes the current client sends
    got,      \* read_request's bytes_read
    parsed,   \* the outcome of check_GET_and_get_resource, or None
    clients   \* clients accepted so far

vars == <<buf, pc, req, got, parsed, clients>>

None == [kind |-> "none"]
NoHost == [kind |-> "NO_HOST"]
NotGet == [kind |-> "IS_NOT_GET"]
UB == [kind |-> "UB"]          \* the scan ran off the end of request[]

\* What check_GET_and_get_resource may return once it reads stack garbage.
FromGarbage(resource) ==
    {NoHost, UB, [kind |-> "ok", host |-> <<Uninit>>, resource |-> resource]}

\* The value read at cell i: Uninit for stack memory never written.
Sym(i) == IF i > BufCells THEN {OOB} ELSE {buf[i]}

Then(S, F(_)) == UNION {F(x) : x \in S}

is_space(c) == c = SP

\* read_to_new_line: the index after the first LF or NUL from i
\* (-1: off the end; 0: it reached stack garbage).
RECURSIVE read_to_new_line(_)
read_to_new_line(i) ==
    Then(Sym(i), LAMBDA c : IF c = OOB THEN {-1}
                            ELSE IF c = Uninit THEN {0}
                            ELSE IF c \in {LF, NUL} THEN {i + 1}
                            ELSE read_to_new_line(i + 1))

\* read_till_non_space and read_till_space.
RECURSIVE read_till_non_space(_)
read_till_non_space(i) ==
    Then(Sym(i), LAMBDA c : IF is_space(c) THEN read_till_non_space(i + 1) ELSE {i})

RECURSIVE read_till_space(_)
read_till_space(i) ==
    Then(Sym(i), LAMBDA c : IF is_space(c) \/ c \in {NUL, OOB} THEN {i}
                            ELSE read_till_space(i + 1))

Cells(from, to) == [p \in 1..(to - from) |-> buf[from + p - 1]]

\* Mutant: the CR before the LF is kept in the host.
HostValueKeepsCR(j, resource) ==
    Then(read_till_non_space(j), LAMBDA k :
      Then(read_to_new_line(k), LAMBDA e :
        IF e = -1 THEN {UB}
        ELSE IF e = 0 THEN FromGarbage(resource)
        ELSE {[kind |-> "ok", host |-> Cells(k, e - 1), resource |-> resource]}))

\* After "Host:": skip spaces, take the rest of the line without LF and a CR.
HostValue(j, resource) ==
    Then(read_till_non_space(j), LAMBDA k :
      Then(read_to_new_line(k), LAMBDA e :
        IF e = -1 THEN {UB}
        ELSE IF e = 0 THEN FromGarbage(resource)
        ELSE Then(Sym(e - 2), LAMBDA c :
               LET end == IF c = CR THEN e - 2 ELSE e - 1
               IN  {[kind |-> "ok", host |-> Cells(k, end), resource |-> resource]})))

\* The header loop: while (*buffer != '\n' && !(*buffer == '\r' &&
\* *(buffer + 1) == '\r')) { buffer = read_to_new_line(buffer); Host:? }
RECURSIVE HeaderLoop(_, _)
HeaderLoop(i, resource) ==
    LET body == Then(read_to_new_line(i), LAMBDA j :
                  IF j = -1 THEN {UB}
                  ELSE IF j = 0 THEN FromGarbage(resource)
                  ELSE Then(Sym(j), LAMBDA c :
                         IF c = HOSTW THEN HostValue(j + 1, resource)
                         ELSE HeaderLoop(j, resource)))
    IN  Then(Sym(i), LAMBDA c :
          IF c = OOB THEN {UB}
          ELSE IF c = Uninit THEN FromGarbage(resource)
          ELSE IF c = LF THEN {NoHost}
          ELSE IF c = CR THEN Then(Sym(i + 1), LAMBDA d : IF d = CR THEN {NoHost} ELSE body)
          ELSE body)

check_GET_and_get_resource ==
    IF buf[1] # GET THEN {NotGet}
    ELSE Then(read_till_non_space(2), LAMBDA r0 :
           Then(read_till_space(r0), LAMBDA e : HeaderLoop(r0, Cells(r0, e))))

-----------------------------------------------------------------------------
(* The request as HTTP/1.1 reads it (RFC 7230 3): the request line, then   *)
(* header lines up to the first empty line.                                *)

FirstFrom(r, from, S) == Min({i \in from..Len(r) : r[i] \in S} \cup {Len(r) + 1})

LineStarts(r) == {i \in 2..Len(r) : r[i - 1] = LF}

IsEmptyLine(r, s) == r[s] = LF \/ (r[s] = CR /\ s < Len(r) /\ r[s + 1] = LF)

HeaderEnd(r) == Min({s \in LineStarts(r) : IsEmptyLine(r, s)} \cup {Len(r) + 1})

HostLines(r) == {s \in LineStarts(r) : s < HeaderEnd(r) /\ r[s] = HOSTW}

Expected(r) ==
    IF r[1] # GET THEN NotGet
    ELSE IF HostLines(r) = {} THEN NoHost
    ELSE LET rs == FirstFrom(r, 2, (Range(r) \ {SP}))
             s  == Min(HostLines(r))
             hs == FirstFrom(r, s + 1, (Range(r) \ {SP}))
         IN  [kind |-> "ok",
              host |-> SubSeq(r, hs, FirstFrom(r, hs, {CR, LF}) - 1),
              resource |-> SubSeq(r, rs, FirstFrom(r, rs, {SP, CR, LF}) - 1)]

-----------------------------------------------------------------------------

Init == /\ buf = [i \in 1..BufCells |-> Uninit]
        /\ pc = "accept"
        /\ req = << >>
        /\ got = 0
        /\ parsed = None
        /\ clients = 0

\* accept() returns the next client, which will send the request r.
Accept == /\ pc = "accept"
          /\ clients < MaxClients
          /\ \E r \in Requests : req' = r
          /\ got' = 0
          /\ parsed' = None
          /\ clients' = clients + 1
          /\ pc' = "recv"
          /\ UNCHANGED buf

\* The end test of read_request on the cells before buf + g (short-circuit).
EndSeen(b, g) ==
    LET S(i) == IF i < 1 THEN GarbageChars ELSE {b[i]}
    IN  \E c1 \in S(g) : c1 = LF /\ \E c2 \in S(g - 1) :
          \/ c2 = LF
          \/ c2 = CR /\ \E c3 \in S(g - 2) : c3 = LF

\* Mutant: a read of no bytes is processed (the request_len == 0 test dropped).
RecvParsesEmpty ==
    /\ pc = "recv"
    /\ LET left == Len(req) - got
           len  == BufCells - 1 - got
           more == IF left = 0 THEN {} ELSE {k \in RecvSizes : k < left} \cup {left}
           finish(b, g) == /\ buf' = [b EXCEPT ![g + 1] = NUL]
                           /\ pc' = "parse"
       IN  \/ \E k \in more :
                LET n  == IF k > len THEN len ELSE k
                    b  == [i \in 1..BufCells |-> IF got < i /\ i <= got + n
                                                 THEN req[i] ELSE buf[i]]
                IN  /\ got' = got + n
                    /\ IF got + n = BufCells - 1 \/ EndSeen(b, got + n)
                       THEN finish(b, got + n)
                       ELSE buf' = b /\ UNCHANGED pc
           \/ /\ finish(buf, got)    \* 0: the client closed; -1: SO_RCVTIMEO
              /\ UNCHANGED got
    /\ UNCHANGED <<req, parsed, clients>>

\* One recv(sd, buf, len, 0) of read_request, with len = BufCells - 1 - got.
\* A positive count is copied in; when the loop ends (count <= 0, len = 0
\* or the end test) *buf = 0 is written and the request is processed if
\* any byte was read; otherwise the connection is closed.
Recv ==
    /\ pc = "recv"
    /\ LET left == Len(req) - got
           len  == BufCells - 1 - got
           more == IF left = 0 THEN {} ELSE {k \in RecvSizes : k < left} \cup {left}
           finish(b, g) == /\ buf' = [b EXCEPT ![g + 1] = NUL]
                           /\ pc' = IF g = 0 THEN "accept" ELSE "parse"
       IN  \/ \E k \in more :
                LET n  == IF k > len THEN len ELSE k
                    b  == [i \in 1..BufCells |-> IF got < i /\ i <= got + n
                                                 THEN req[i] ELSE buf[i]]
                IN  /\ got' = got + n
                    /\ IF got + n = BufCells - 1 \/ EndSeen(b, got + n)
                       THEN finish(b, got + n)
                       ELSE buf' = b /\ UNCHANGED pc
           \/ /\ finish(buf, got)    \* 0: the client closed; -1: SO_RCVTIMEO
              /\ UNCHANGED got
    /\ UNCHANGED <<req, parsed, clients>>

\* process_request's check_GET_and_get_resource on the buffer; close(new_sd).
Parse == /\ pc = "parse"
         /\ \E o \in check_GET_and_get_resource : parsed' = o
         /\ pc' = "accept"
         /\ UNCHANGED <<buf, req, got, clients>>

\* Every client of the bound has been served.
Finished == /\ pc = "accept"
            /\ clients = MaxClients
            /\ UNCHANGED vars

Next == Accept \/ Recv \/ Parse \/ Finished

Spec == Init /\ [][Next]_vars

-----------------------------------------------------------------------------
TypeOK ==
    /\ pc \in {"accept", "recv", "parse"}
    /\ got \in 0..(BufCells - 1)
    /\ pc = "parse" => got > 0
    /\ clients \in 0..MaxClients
    /\ DOMAIN buf = 1..BufCells

\* The bytes read_request received from this client.
Received == SubSeq(req, 1, got)

\* Spec P7 and RFC 7230: the method, resource and Host the proxy acts on
\* are those of the request this client sent; a GET without a Host header
\* is answered 400 (NO_HOST), whatever earlier clients of the thread sent.
ParseMatchesRequest ==
    parsed # None => parsed = Expected(Received)

\* For a request that is not a GET, or whose headers as received contain a
\* Host line, check_GET_and_get_resource finds the method, resource and
\* Host of this client's request, for any split of it into recv() results
\* and whatever the buffer held before.
OwnRequestParsed ==
    (parsed # None /\ (Received[1] # GET \/ HostLines(Received) # {}))
        => parsed = Expected(Received)

=============================================================================
