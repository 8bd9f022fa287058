--------------------------- MODULE ResponseRelay ---------------------------
(***************************************************************************)
(* What proxy_get's receive-and-relay promises for one origin response,   *)
(* with no parsing in it: the relay reads, then either gives up (sending  *)
(* at most one status of its own) or delivers what it read, which is then *)
(* a prefix of the origin's response; it may commit what it read to the  *)
(* cache; and process_request answers a failure with one more status,     *)
(* unless the client is gone.  ResponsePipeline implements it.            *)
(***************************************************************************)
EXTENDS Sequences, SequencesExt

CONSTANTS Responses, Canned, R500

VARIABLES
    resp,      \* the origin's response
    got,       \* what the relay has read and queued
    phase,     \* "read", "deliver", "store", "answer", "done"
    client,    \* what the client has received
    failed,    \* the relay reported failure
    cacheFile  \* what the cache committed

vars == <<resp, got, phase, client, failed, cacheFile>>

\* The queue only grows.
Extends == Len(got) <= Len(got') /\ SubSeq(got', 1, Len(got)) = got

Init == /\ resp \in Responses
        /\ got = << >>
        /\ phase = "read"
        /\ client = << >>
        /\ failed = FALSE
        /\ cacheFile = << >>

\* Reading: the queue only grows, but by anything (a failed drain queues
\* a window twice).
Read == /\ phase = "read"
        /\ Extends
        /\ UNCHANGED <<resp, phase, client, failed, cacheFile>>

\* Giving up while reading, with no status or one canned status; the last
\* read may still have queued bytes.
GiveUp == /\ phase = "read"
          /\ Extends
          /\ \E s \in Canned \cup {"none"} :
               client' = IF s = "none" THEN client ELSE Append(client, s)
          /\ phase' = "answer"
          /\ failed' = TRUE
          /\ UNCHANGED <<resp, cacheFile>>

\* The response was read whole: what was read is a prefix of the origin's.
Parsed == /\ phase = "read"
          /\ IsPrefix(got, resp)
          /\ phase' = "deliver"
          /\ UNCHANGED <<resp, got, client, failed, cacheFile>>

\* The client receives more of what was read, in order.
Deliver == /\ phase = "deliver"
           /\ \E n \in (Len(client) + 1)..Len(got) : client' = SubSeq(got, 1, n)
           /\ UNCHANGED <<resp, got, phase, failed, cacheFile>>

\* Delivery ends: all of it reached the client, or the client is gone.
Delivered == /\ phase = "deliver"
             /\ \/ client = got /\ UNCHANGED failed
                \/ failed' = TRUE
             /\ phase' = "store"
             /\ UNCHANGED <<resp, got, client, cacheFile>>

\* The cache commits what was read, or nothing.
Store == /\ phase = "store"
         /\ cacheFile' \in {cacheFile, got}
         /\ phase' = "answer"
         /\ UNCHANGED <<resp, got, client, failed>>

\* A failure is answered with a 500, which a gone client does not receive.
Answer == /\ phase = "answer"
          /\ IF failed THEN client' \in {client, Append(client, R500)}
                       ELSE UNCHANGED client
          /\ phase' = "done"
          /\ UNCHANGED <<resp, got, failed, cacheFile>>

Done == phase = "done" /\ UNCHANGED vars

Next == Read \/ GiveUp \/ Parsed \/ Deliver \/ Delivered \/ Store \/ Answer \/ Done

\* The relay's safety: every step is one of the above.
Safety == Init /\ [][Next]_vars

\* The thread running the relay keeps taking steps, so it reaches "done".
Spec == Safety /\ WF_vars(Next)

=============================================================================
