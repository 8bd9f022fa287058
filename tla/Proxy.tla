------------------------------- MODULE Proxy -------------------------------
(***************************************************************************)
(* The proxy as a whole (proxyFilter.c): main and startServer, then       *)
(* NUM_OF_THREADS threads running process_client's accept loop on one    *)
(* listening socket.  Each thread reads a request, lets process_request   *)
(* answer it (parse outcome, host filter, cache lookup, proxy_get) and    *)
(* closes the client socket.                                              *)
(*                                                                         *)
(* The request parse is summarised by its outcome (RequestParse checks    *)
(* it), the relay by whether it succeeded and the code was 200, and the   *)
(* cache by which resource each fingerprint names (ResponsePipeline and   *)
(* CacheStore check those).  What this module keeps is the control of     *)
(* process_client, process_request and proxy_get, the filter of filter.c, *)
(* get_port, and the process's descriptor table: accept(), socket(),      *)
(* fopen() and mkstemp() fail with EMFILE once MaxFds descriptors are     *)
(* open.  Descriptors that no code path closes are counted in `leaked`.   *)
(***************************************************************************)
EXTENDS Naturals, Sequences, SequencesExt, FiniteSets, TLC, HostFilter

CONSTANTS
    Threads,      \* NUM_OF_THREADS threads of process_client
    Clients,      \* the clients that connect
    Requests,     \* what check_GET_and_get_resource makes of a request
    FilterFiles,  \* contents the filter list file may have
    Key(_),       \* hash(host, resource): the cache file of a resource
    Stdio,        \* descriptors open before main (0, 1, 2)
    MaxFds        \* RLIMIT_NOFILE: accept/socket/open fail at this many

None == "none"
NoReq == [kind |-> "none"]
NoOrigin == [kind |-> "none"]
Digits == {"0", "1", "2", "3", "4", "5", "6", "7", "8", "9"}
Port80 == <<"8", "0">>

\* get_port's walk back from the last character reads before the host
\* buffer for an empty or all-digit host; such hosts are not requests here.
ASSUME \A r \in Requests :
         r.kind = "ok" => Len(r.host) > 0 /\ \E i \in DOMAIN r.host : r.host[i] \notin Digits

VARIABLES
    \* main and startServer
    phase,     \* "start", "serving" or "exited"
    file,      \* the filter file read_filter_list read
    banlist,   \* banlist[0 .. len_banlist - 1]
    \* the clients
    pending,   \* connections in the listen backlog, in arrival order
    reqOf,     \* the request each client sends
    answer,    \* what each client receives, one symbol per response
    origin,    \* the address proxy_get opened a socket for, per client
    closed,    \* clients whose connection the proxy closed
    \* the threads
    pc,        \* where each thread is in process_client
    cl,        \* the client each thread serves (new_sd)
    \* process-wide state
    leaked,    \* open descriptors no code path will close
    cache      \* fingerprint -> resource of the committed cache file

vars == <<phase, file, banlist, pending, reqOf, answer, origin, closed,
          pc, cl, leaked, cache>>

Arrived == {c \in Clients : reqOf[c] # NoReq}

\* Open descriptors: stdio, the listening socket, each thread's new_sd, and
\* the leaked ones.
Open == Stdio + (IF phase = "serving" THEN 1 ELSE 0)
        + Cardinality({t \in Threads : pc[t] # "accept"}) + leaked

CanOpen == Open < MaxFds

\* Mutant: the port get_port finds is used as is, without proxy_get's
\* default "80" when there is none.
get_portNoDefault(h) ==
    LET k == SelectLastInSeq(h, LAMBDA x : x \notin Digits)
    IN  IF h[Len(h)] \in Digits /\ h[k] = ":"
        THEN [name |-> SubSeq(h, 1, k - 1), port |-> SubSeq(h, k + 1, Len(h))]
        ELSE [name |-> h, port |-> << >>]

\* get_port(host): a ":digits" suffix is cut off (*host = 0) and returned;
\* otherwise NULL and proxy_get uses "80".
get_port(h) ==
    LET k == SelectLastInSeq(h, LAMBDA x : x \notin Digits)
    IN  IF h[Len(h)] \in Digits /\ h[k] = ":"
        THEN [name |-> SubSeq(h, 1, k - 1), port |-> SubSeq(h, k + 1, Len(h))]
        ELSE [name |-> h, port |-> Port80]

\* Spec 4.5 step 5: an explicit host:port suffix is honoured, else port 80.
SpecAddress(h) ==
    LET k == SelectLastInSeq(h, LAMBDA x : x = ":")
    IN  IF k > 0 /\ k < Len(h) /\ \A i \in (k + 1)..Len(h) : h[i] \in Digits
        THEN [name |-> SubSeq(h, 1, k - 1), port |-> SubSeq(h, k + 1, Len(h))]
        ELSE [name |-> h, port |-> Port80]

\* handle_error_status for the parse outcomes.
StatusOf(kind) == IF kind = "NO_HOST" THEN "400" ELSE "405"

Req(t) == reqOf[cl[t]]

\* The thread answers its client with s.
Say(t, s) == answer' = [answer EXCEPT ![cl[t]] = Append(@, s)]

Goto(t, p) == pc' = [pc EXCEPT ![t] = p]

Init == /\ phase = "start"
        /\ file = << >>
        /\ banlist = << >>
        /\ pending = << >>
        /\ reqOf = [c \in Clients |-> NoReq]
        /\ answer = [c \in Clients |-> << >>]
        /\ origin = [c \in Clients |-> NoOrigin]
        /\ closed = {}
        /\ pc = [t \in Threads |-> "accept"]
        /\ cl = [t \in Threads |-> None]
        /\ leaked = 0
        /\ cache = << >>

\* main: read_filter_list(argv[2]); an unreadable file ends the process.
\* startServer: socket, setsockopt, bind, listen; any failure returns -1
\* and main exits.  Otherwise the threads start.
Start == /\ phase = "start"
         /\ \/ phase' = "exited" /\ UNCHANGED <<file, banlist>>
            \/ \E f \in FilterFiles :
                 /\ file' = f
                 /\ banlist' = read_filter_list(f)
                 /\ phase' \in {"serving", "exited"}
         /\ UNCHANGED <<pending, reqOf, answer, origin, closed, pc, cl, leaked, cache>>

\* A client connects and will send request r.
Connect(c) == /\ phase = "serving"
              /\ reqOf[c] = NoReq
              /\ \E r \in Requests : reqOf' = [reqOf EXCEPT ![c] = r]
              /\ pending' = Append(pending, c)
              /\ UNCHANGED <<phase, file, banlist, answer, origin, closed, pc, cl, leaked, cache>>

\* accept() takes the oldest connection.  With an empty backlog it times
\* out (SO_RCVTIMEO on the listening socket), and with MaxFds descriptors
\* open it fails with EMFILE; then the loop continues: a step that
\* changes nothing.
Accept(t) == /\ phase = "serving"
             /\ pc[t] = "accept"
             /\ \/ /\ pending # << >>
                   /\ CanOpen
                   /\ cl' = [cl EXCEPT ![t] = Head(pending)]
                   /\ pending' = Tail(pending)
                   /\ Goto(t, "timeouts")
                \/ /\ pending = << >> \/ ~CanOpen
                   /\ UNCHANGED <<pending, pc, cl>>
             /\ UNCHANGED <<phase, file, banlist, reqOf, answer, origin, closed, leaked, cache>>

\* close(new_sd) and back to accept().
Close(t) == /\ closed' = closed \cup {cl[t]}
            /\ cl' = [cl EXCEPT ![t] = None]
            /\ Goto(t, "accept")

\* The two setsockopt calls; on failure close(new_sd); continue.
Timeouts(t) == /\ pc[t] = "timeouts"
               /\ \/ Goto(t, "read") /\ UNCHANGED <<closed, cl>>
                  \/ Close(t)
               /\ UNCHANGED <<phase, file, banlist, pending, reqOf, answer, origin, leaked, cache>>

\* read_request: 0 bytes (the client closed or SO_RCVTIMEO expired first)
\* closes the connection unanswered; otherwise process_request runs.
ReadRequest(t) == /\ pc[t] = "read"
                  /\ \/ Goto(t, "process") /\ UNCHANGED <<closed, cl>>
                     \/ Close(t)
                  /\ UNCHANGED <<phase, file, banlist, pending, reqOf, answer, origin, leaked, cache>>

\* process_request up to the cache lookup: a parse error is answered by
\* handle_error_status, a banned host by 403; both return.
Process(t) ==
    /\ pc[t] = "process"
    /\ \/ /\ Req(t).kind # "ok"
          /\ Say(t, StatusOf(Req(t).kind))
          /\ Goto(t, "close")
       \/ /\ Req(t).kind = "ok"
          /\ filter_host(banlist, Req(t).host) = -1
          /\ Say(t, "403")
          /\ Goto(t, "close")
       \/ /\ Req(t).kind = "ok"
          /\ filter_host(banlist, Req(t).host) = 0
          /\ Goto(t, "lookup")
          /\ UNCHANGED answer
    /\ UNCHANGED <<phase, file, banlist, pending, reqOf, origin, closed, cl, leaked, cache>>

\* if_cache_file_exists_send_to_client.  fopen fails if there is no file
\* or no descriptor (FILE_NOT_EXIST).  An opened FILE is never closed: a
\* matching identity line is a hit, a different one CACHE_CONFLICT, and an
\* fread or send error returns an error process_request only logs.
Lookup(t) ==
    /\ pc[t] = "lookup"
    /\ LET r == Req(t).res IN
       \/ /\ Key(r) \notin DOMAIN cache \/ ~CanOpen
          /\ Goto(t, "socket")
          /\ UNCHANGED <<answer, leaked>>
       \/ /\ Key(r) \in DOMAIN cache /\ CanOpen
          /\ leaked' = leaked + 1
          /\ \/ cache[Key(r)] = r /\ Say(t, "cached") /\ Goto(t, "close")
             \/ cache[Key(r)] = r /\ Goto(t, "close") /\ UNCHANGED answer
             \/ cache[Key(r)] # r /\ Goto(t, "socket") /\ UNCHANGED answer
    /\ UNCHANGED <<phase, file, banlist, pending, reqOf, origin, closed, cl, cache>>

\* proxy_get: get_port, getaddrinfo, socket().  No path closes the socket.
\* Without a descriptor socket() fails and process_request answers 500.
Socket(t) ==
    /\ pc[t] = "socket"
    /\ \/ /\ CanOpen
          /\ leaked' = leaked + 1
          /\ origin' = [origin EXCEPT ![cl[t]] = get_port(Req(t).host)]
          /\ Goto(t, "connect")
          /\ UNCHANGED answer
       \/ /\ ~CanOpen
          /\ Say(t, "500")
          /\ Goto(t, "close")
          /\ UNCHANGED <<leaked, origin>>
    /\ UNCHANGED <<phase, file, banlist, pending, reqOf, closed, cl, cache>>

\* setsockopt twice, connect, send_message: any failure returns -1 and
\* process_request answers 500.
ConnectOrigin(t) ==
    /\ pc[t] = "connect"
    /\ \/ Goto(t, "relay") /\ UNCHANGED answer
       \/ Say(t, "500") /\ Goto(t, "close")
    /\ UNCHANGED <<phase, file, banlist, pending, reqOf, origin, closed, cl, leaked, cache>>

\* recieve_data_and_pipe_to_client: the client gets the origin's response,
\* or a failure ends with process_request's 500; a 200 is then cached.
Relay(t) ==
    /\ pc[t] = "relay"
    /\ \E ok \in BOOLEAN, code200 \in BOOLEAN :
         /\ Say(t, IF ok THEN "origin" ELSE "500")
         /\ Goto(t, IF code200 THEN "store" ELSE "close")
    /\ UNCHANGED <<phase, file, banlist, pending, reqOf, origin, closed, cl, leaked, cache>>

\* create_cache_file: mkstemp needs a descriptor, which is never closed;
\* the rename commits the file, or a write or rename error removes it.
Store(t) ==
    /\ pc[t] = "store"
    /\ \/ /\ CanOpen
          /\ leaked' = leaked + 1
          /\ \/ cache' = (Key(Req(t).res) :> Req(t).res) @@ cache
             \/ UNCHANGED cache
       \/ ~CanOpen /\ UNCHANGED <<leaked, cache>>
    /\ Goto(t, "close")
    /\ UNCHANGED <<phase, file, banlist, pending, reqOf, answer, origin, closed, cl>>

\* Mutant: close(new_sd) is left out; the descriptor stays open.
FinishNoClose(t) == /\ pc[t] = "close"
                    /\ cl' = [cl EXCEPT ![t] = None]
                    /\ Goto(t, "accept")
                    /\ leaked' = leaked + 1
                    /\ UNCHANGED <<phase, file, banlist, pending, reqOf, answer, origin, closed, cache>>

\* process_request has returned: close(new_sd).
Finish(t) == /\ pc[t] = "close"
             /\ Close(t)
             /\ UNCHANGED <<phase, file, banlist, pending, reqOf, answer, origin, leaked, cache>>

Thread(t) == \/ Accept(t) \/ Timeouts(t) \/ ReadRequest(t) \/ Process(t)
             \/ Lookup(t) \/ Socket(t) \/ ConnectOrigin(t) \/ Relay(t)
             \/ Store(t) \/ Finish(t)

\* main returned: the process has exited.
Exited == phase = "exited" /\ UNCHANGED vars

Next == Start \/ (\E c \in Clients : Connect(c)) \/ (\E t \in Threads : Thread(t)) \/ Exited

\* Each thread is an OS thread whose every blocking call returns (the
\* sockets have receive and send timeouts), so each keeps taking steps.
Spec == Init /\ [][Next]_vars /\ WF_vars(Start) /\ \A t \in Threads : WF_vars(Thread(t))

-----------------------------------------------------------------------------
Phases == {"start", "serving", "exited"}
PC == {"accept", "timeouts", "read", "process", "lookup", "socket", "connect",
       "relay", "store", "close"}

\* The address proxy_get connects to: a host name and a port of digits.
IsAddress(o) == /\ DOMAIN o = {"name", "port"}
                /\ o.name \in Seq(STRING)
                /\ o.port \in Seq(Digits) /\ o.port # << >>

TypeOK ==
    /\ phase \in Phases
    /\ pending \in Seq(Clients)
    /\ closed \subseteq Clients
    /\ pc \in [Threads -> PC]
    /\ cl \in [Threads -> Clients \cup {None}]
    /\ leaked \in Nat
    /\ \A c \in Clients : origin[c] = NoOrigin \/ IsAddress(origin[c])

\* Spec 4.4, 4.5 and P7: the proxy opens a connection to an origin only for
\* a GET with a Host header whose host contains no line of the filter file,
\* in any letter case, and it connects to that host's name and port.  This
\* is about read_filter_list (fgets pieces, CR/LF stripping, lowering),
\* filter_host, the order of process_request's checks and get_port.
OriginOnlyForAllowed ==
    \A c \in Clients :
        origin[c] # NoOrigin =>
            /\ reqOf[c].kind = "ok"
            /\ ~Banned(file, reqOf[c].host)
            /\ origin[c] = SpecAddress(reqOf[c].host)

\* Every client that connects is accepted, served and closed.  Descriptors
\* leak on every proxied request (the origin socket, the cache FILE, the
\* mkstemp descriptor), yet no client waits forever in the backlog: a leak
\* needs a free descriptor while the thread holds its new_sd, so once all
\* threads wait in accept() one descriptor is always free.  As
\* the clients are finitely many, this says each arrived client is
\* eventually closed.
EveryClientServed ==
    <>[](Arrived \subseteq closed)

\* Between two clients the process holds only stdio and the listening
\* socket: every descriptor opened for a request is closed again.
NoLeakWhenIdle ==
    (phase = "serving" /\ \A t \in Threads : pc[t] = "accept") => leaked = 0

=============================================================================
