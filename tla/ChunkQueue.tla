------------------------------ MODULE ChunkQueue ------------------------------
(***************************************************************************)
(* What the response queue in->data promises one thread of the proxy: the *)
(* windows the reader copies are kept in order; the client is sent a      *)
(* prefix of them, in order, each once; the cache file gets all of them   *)
(* or nothing; clean() ends the queue.  ByteQueue is the linked list      *)
(* queue.c builds on the heap, shown to implement this.                   *)
(***************************************************************************)
EXTENDS Naturals, Sequences

CONSTANTS Threads, Chunks

VARIABLES
    phase,     \* "idle", "fill", "send" or "store"
    items,     \* the windows queued, oldest first
    delivered, \* what the client was sent from the queue
    file       \* what the cache file received, or << >>

vars == <<phase, items, delivered, file>>

Init == /\ phase = [t \in Threads |-> "idle"]
        /\ items = [t \in Threads |-> << >>]
        /\ delivered = [t \in Threads |-> << >>]
        /\ file = [t \in Threads |-> << >>]

Go(t, from, to) == phase[t] = from /\ phase' = [phase EXCEPT ![t] = to]

\* A new reader with an empty queue.
Open(t) == /\ Go(t, "idle", "fill")
           /\ items' = [items EXCEPT ![t] = << >>]
           /\ delivered' = [delivered EXCEPT ![t] = << >>]
           /\ file' = [file EXCEPT ![t] = << >>]

Put(t, c) == /\ phase[t] = "fill"
             /\ items' = [items EXCEPT ![t] = Append(@, c)]
             /\ UNCHANGED <<phase, delivered, file>>

StartSend(t) == Go(t, "fill", "send") /\ UNCHANGED <<items, delivered, file>>

\* The next window not yet sent goes to the client.
Deliver(t) == /\ phase[t] = "send"
              /\ Len(delivered[t]) < Len(items[t])
              /\ delivered' = [delivered EXCEPT ![t] = Append(@, items[t][Len(@) + 1])]
              /\ UNCHANGED <<phase, items, file>>

\* Sending ends, after the last window or at a failed send.
StopSend(t) == Go(t, "send", "store") /\ UNCHANGED <<items, delivered, file>>

\* The cache gets the whole queue or nothing, and the queue is released.
Store(t) == /\ Go(t, "store", "idle")
            /\ \E whole \in BOOLEAN :
                 file' = [file EXCEPT ![t] = IF whole THEN items[t] ELSE << >>]
            /\ items' = [items EXCEPT ![t] = << >>]
            /\ UNCHANGED delivered

\* An error before sending: the queue is released unsent.
Release(t) == /\ Go(t, "fill", "idle")
              /\ items' = [items EXCEPT ![t] = << >>]
              /\ UNCHANGED <<delivered, file>>

Next == \E t \in Threads :
          \/ Open(t) \/ (\E c \in Chunks : Put(t, c)) \/ StartSend(t)
          \/ Deliver(t) \/ StopSend(t) \/ Store(t) \/ Release(t)

Spec == Init /\ [][Next]_vars

=============================================================================
