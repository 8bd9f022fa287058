------------------------------ MODULE ByteQueue ------------------------------
(***************************************************************************)
(* queue.c on the heap, as recieve_data_and_pipe_to_client uses it: each *)
(* thread's reader gets a queue with a dummy head (initialize,            *)
(* initialize_queue), every window is copied into a malloc'd buffer and   *)
(* linked at the end (readbuf/flush, create_queue_t, enqueue), the send   *)
(* loop and create_cache_file walk the list from the dummy's next, and    *)
(* clean() runs free_queue.                                               *)
(*                                                                         *)
(* The allocator is glibc's for these small blocks: free() puts a block  *)
(* on the calling thread's tcache list, and malloc() takes the block      *)
(* freed last by that thread, or else a fresh one (zeroed; the lowest).   *)
(* free keeps the `next` field of a block: the tcache links are written   *)
(* in its first 16 bytes, and next is at offset 16.  A buffer's bytes are *)
(* unpredictable as a pointer (Junk).                                     *)
(***************************************************************************)
EXTENDS Integers, Sequences, FiniteSetsExt

CONSTANTS
    Threads,       \* threads running recieve_data_and_pipe_to_client
    MaxAddr,       \* heap blocks the allocator can hand out
    MaxChunks,     \* windows queued per response
    MaxResponses   \* responses each thread handles

NULL == 0
Junk == -1
Addrs == 1..MaxAddr
Ptr == Addrs \cup {NULL, Junk}
Free == "free"
\* A copied window, named by its place in the response: the i-th window
\* read.  Windows are told apart by where they came from, whatever bytes
\* they hold.
Chunks == 1..MaxChunks
Fresh == "fresh"
\* The data of a block that holds no window (a node, a queue, a free block).
None == 0

VARIABLES
    heap,     \* the fields of every block: nxt, buf (queue_t), start, end
              \* (queue) and data (a copied window)
    owner,    \* the thread that malloc'd a block, or Free / Fresh
    tcache,   \* each thread's list of freed blocks, the last freed last
    badFree,  \* some free() was of a block its thread did not own
    pc,       \* where each thread is
    qa,       \* in->data: the thread's queue block
    cur,      \* the chunk pointer of the send loop or of free_queue
    cnt,      \* windows queued in this response
    sent,     \* what send_message sent the client from the queue
    stored,   \* what create_cache_file wrote and kept
    served    \* responses the thread has finished

vars == <<heap, owner, tcache, badFree, pc, qa, cur, cnt, sent, stored, served>>

-----------------------------------------------------------------------------
(* The allocator.                                                         *)

\* Two mallocs can be served without going past MaxAddr, a bound of the
\* model and not of malloc: it is chosen so that it is never reached.
Available2(t) ==
    Len(tcache[t]) + Cardinality({a \in Addrs : owner[a] = Fresh}) >= 2

\* The blocks two mallocs in a row by thread t return.
MallocPair(t) ==
    LET tc == tcache[t]
        n  == Len(tc)
        f1 == Min({a \in Addrs : owner[a] = Fresh})
        f2 == Min({a \in Addrs : owner[a] = Fresh} \ {f1})
    IN  CASE n >= 2 -> <<tc[n], tc[n - 1]>>
          [] n = 1  -> <<tc[1], f1>>
          [] OTHER  -> <<f1, f2>>

\* Both mallocs done: the blocks belong to t.
Malloc2(t, p) ==
    /\ owner' = [a \in Addrs |-> IF a \in {p[1], p[2]} THEN t ELSE owner[a]]
    /\ tcache' = [tcache EXCEPT ![t] = SubSeq(@, 1, Len(@) - Min({2, Len(@)}))]

\* free() of the blocks of s in order (free(NULL) does nothing).  Of a
\* freed block the model keeps only next: no path reads the other fields
\* of a block before it has written them.
FreeBlocks(t, s) ==
    LET S == {s[i] : i \in DOMAIN s}
    IN  /\ owner' = [a \in Addrs |-> IF a \in S THEN Free ELSE owner[a]]
        /\ heap' = [heap EXCEPT
                       !.buf = [a \in Addrs |-> IF a \in S THEN NULL ELSE @[a]],
                       !.start = [a \in Addrs |-> IF a \in S THEN NULL ELSE @[a]],
                       !.end = [a \in Addrs |-> IF a \in S THEN NULL ELSE @[a]],
                       !.data = [a \in Ptr |-> IF a \in S THEN None ELSE @[a]]]
        /\ tcache' = [tcache EXCEPT ![t] = @ \o s]
        /\ badFree' = (badFree \/ \E a \in S : owner[a] # t)

-----------------------------------------------------------------------------
(* queue.c as operators on the heap.                                      *)

\* Mutant: create_queue_t that leaves next as malloc returned it.
CreateNoNullNext(h, n, b) == [h EXCEPT !.buf[n] = b]

\* create_queue_t(buf, len): t->buf = buf; t->next = NULL.  (It has no
\* return statement; the builds return t, still in the return register.)
create_queue_t(h, n, b) == [h EXCEPT !.buf[n] = b, !.nxt[n] = NULL]

\* initialize_queue: start and end point at a dummy node.
initialize_queue(h, q, d) ==
    [create_queue_t(h, d, NULL) EXCEPT !.start[q] = d, !.end[q] = d]

\* Mutant: enqueue links the node but leaves q->end behind.
EnqueueNoEnd(h, q, n) == [h EXCEPT !.nxt[h.end[q]] = n]

\* enqueue: q->end->next = t; q->end = t.
enqueue(h, q, n) == [h EXCEPT !.nxt[h.end[q]] = n, !.end[q] = n]

\* The nodes after a, following next while it is a block, at most k.
RECURSIVE Chain(_, _, _)
Chain(h, a, k) ==
    IF k = 0 \/ h.nxt[a] \notin Addrs THEN << >>
    ELSE << h.nxt[a] >> \o Chain(h, h.nxt[a], k - 1)

\* The pointer the walk from a ends on: NULL for a well-formed list.
RECURSIVE ChainEnd(_, _, _)
ChainEnd(h, a, k) ==
    IF h.nxt[a] \notin Addrs THEN h.nxt[a]
    ELSE IF k = 0 THEN Junk
    ELSE ChainEnd(h, h.nxt[a], k - 1)

\* The windows the walk from the dummy reaches, in list order.
Items(h, q) == LET ch == Chain(h, h.start[q], MaxAddr)
               IN  [i \in DOMAIN ch |-> h.data[h.buf[ch[i]]]]

-----------------------------------------------------------------------------
Init == /\ heap = [nxt |-> [a \in Addrs |-> NULL], buf |-> [a \in Addrs |-> NULL],
                   start |-> [a \in Addrs |-> NULL], end |-> [a \in Addrs |-> NULL],
                   data |-> [a \in Ptr |-> None]]
        /\ owner = [a \in Addrs |-> Fresh]
        /\ tcache = [t \in Threads |-> << >>]
        /\ badFree = FALSE
        /\ pc = [t \in Threads |-> "idle"]
        /\ qa = [t \in Threads |-> NULL]
        /\ cur = [t \in Threads |-> NULL]
        /\ cnt = [t \in Threads |-> 0]
        /\ sent = [t \in Threads |-> << >>]
        /\ stored = [t \in Threads |-> << >>]
        /\ served = [t \in Threads |-> 0]

Goto(t, p) == pc' = [pc EXCEPT ![t] = p]

\* initialize(): q = malloc(sizeof(queue)); initialize_queue(q).
Initialize(t) ==
    /\ pc[t] = "idle"
    /\ served[t] < MaxResponses
    /\ Available2(t)
    /\ LET p == MallocPair(t) IN
         /\ heap' = initialize_queue(heap, p[1], p[2])
         /\ Malloc2(t, p)
         /\ qa' = [qa EXCEPT ![t] = p[1]]
    /\ Goto(t, "read")
    /\ cnt' = [cnt EXCEPT ![t] = 0]
    /\ sent' = [sent EXCEPT ![t] = << >>]
    /\ stored' = [stored EXCEPT ![t] = << >>]
    /\ UNCHANGED <<badFree, cur, served>>

\* readbuf/flush with bytes in the window: buf = malloc(n); memcpy;
\* enqueue(in->data, create_queue_t(buf, n)).
Enqueue(t) ==
    /\ pc[t] = "read"
    /\ cnt[t] < MaxChunks
    /\ Available2(t)
    /\ LET p == MallocPair(t)
           b == p[1]
           n == p[2]
           copied == [heap EXCEPT !.data[b] = cnt[t] + 1, !.nxt[b] = Junk]
       IN  /\ heap' = enqueue(create_queue_t(copied, n, b), qa[t], n)
           /\ Malloc2(t, p)
    /\ cnt' = [cnt EXCEPT ![t] = @ + 1]
    /\ UNCHANGED <<badFree, pc, qa, cur, sent, stored, served>>

\* The parse ends: on a bad status line, an unframed body or a reader
\* error clean(in) runs at once; otherwise the send loop starts at
\* chunk = in->data->start.
EndRead(t) ==
    /\ pc[t] = "read"
    /\ \E p \in {"free", "send"} : Goto(t, p)
    /\ cur' = [cur EXCEPT ![t] = heap.start[qa[t]]]
    /\ UNCHANGED <<heap, owner, tcache, badFree, qa, cnt, sent, stored, served>>

\* Mutant: the loop tests chunk != NULL instead of chunk->next != NULL.
SendChunkNoNextCheck(t) ==
    /\ pc[t] = "send"
    /\ cur' = [cur EXCEPT ![t] = heap.nxt[cur[t]]]
    /\ sent' = [sent EXCEPT ![t] = IF heap.nxt[cur[t]] \in Addrs
                                   THEN Append(@, heap.data[heap.buf[heap.nxt[cur[t]]]])
                                   ELSE @]
    /\ UNCHANGED <<heap, owner, tcache, badFree, pc, qa, cnt, stored, served>>

\* while (chunk->next != NULL && success == 0): chunk = chunk->next;
\* success = send_message(chunk->buf); a failed send ends the loop.
SendChunk(t) ==
    /\ pc[t] = "send"
    /\ heap.nxt[cur[t]] \in Addrs
    /\ LET n == heap.nxt[cur[t]] IN
         /\ cur' = [cur EXCEPT ![t] = n]
         /\ \/ sent' = [sent EXCEPT ![t] = Append(@, heap.data[heap.buf[n]])]
               /\ UNCHANGED pc
            \/ Goto(t, "cache") /\ UNCHANGED sent
    /\ UNCHANGED <<heap, owner, tcache, badFree, qa, cnt, stored, served>>

SendDone(t) ==
    /\ pc[t] = "send"
    /\ heap.nxt[cur[t]] = NULL
    /\ Goto(t, "cache")
    /\ UNCHANGED <<heap, owner, tcache, badFree, qa, cur, cnt, sent, stored, served>>

\* For a 200, create_cache_file writes every chunk after the dummy; the
\* file is kept only if every write and the rename succeed.  Then
\* clean(in): free_queue starts at q->start.
CacheWalk(t) ==
    /\ pc[t] = "cache"
    /\ \E kept \in BOOLEAN :
         stored' = [stored EXCEPT ![t] = IF kept THEN Items(heap, qa[t]) ELSE << >>]
    /\ Goto(t, "free")
    /\ cur' = [cur EXCEPT ![t] = heap.start[qa[t]]]
    /\ UNCHANGED <<heap, owner, tcache, badFree, qa, cnt, sent, served>>

\* free_queue, one turn of while (start->next != NULL): free(temp->buf);
\* free(temp).
FreeStep(t) ==
    /\ pc[t] = "free"
    /\ heap.nxt[cur[t]] \in Addrs
    /\ FreeBlocks(t, SelectSeq(<<heap.buf[cur[t]], cur[t]>>, LAMBDA a : a \in Addrs))
    /\ cur' = [cur EXCEPT ![t] = heap.nxt[cur[t]]]
    /\ UNCHANGED <<pc, qa, cnt, sent, stored, served>>

\* Mutant: free_queue frees the last node but not the queue struct.
FreeLastNoFreeQ(t) ==
    /\ pc[t] = "free"
    /\ heap.nxt[cur[t]] = NULL
    /\ FreeBlocks(t, <<cur[t]>>)
    /\ Goto(t, "idle")
    /\ served' = [served EXCEPT ![t] = @ + 1]
    /\ UNCHANGED <<qa, cur, cnt, sent, stored>>

\* The loop ends at the last node: free(start); free(q).  The last node's
\* buffer is not freed.  clean() then frees in->buf and in.
FreeLast(t) ==
    /\ pc[t] = "free"
    /\ heap.nxt[cur[t]] = NULL
    /\ FreeBlocks(t, <<cur[t], qa[t]>>)
    /\ Goto(t, "idle")
    /\ served' = [served EXCEPT ![t] = @ + 1]
    /\ UNCHANGED <<qa, cur, cnt, sent, stored>>

Thread(t) == \/ Initialize(t) \/ Enqueue(t) \/ EndRead(t) \/ SendChunk(t)
             \/ SendDone(t) \/ CacheWalk(t) \/ FreeStep(t) \/ FreeLast(t)

\* Every thread has handled its responses.
Finished == /\ \A t \in Threads : pc[t] = "idle" /\ served[t] = MaxResponses
            /\ UNCHANGED vars

Next == (\E t \in Threads : Thread(t)) \/ Finished

Spec == Init /\ [][Next]_vars /\ \A t \in Threads : WF_vars(Thread(t))

-----------------------------------------------------------------------------
TypeOK ==
    /\ owner \in [Addrs -> Threads \cup {Free, Fresh}]
    /\ tcache \in [Threads -> Seq(Addrs)]
    /\ badFree \in BOOLEAN
    /\ pc \in [Threads -> {"idle", "read", "send", "cache", "free"}]
    /\ \A t \in Threads : pc[t] \in {"send", "free"} => cur[t] \in Addrs
    /\ cnt \in [Threads -> 0..MaxChunks]
    /\ sent \in [Threads -> Seq(Chunks)]
    /\ stored \in [Threads -> Seq(Chunks)]
    /\ served \in [Threads -> 0..MaxResponses]

\* The blocks a thread's list is made of: from node a on, every node and
\* the buffer of every node after a.
Reach(a) == {a} \cup {n \in Addrs : \E i \in DOMAIN Chain(heap, a, MaxAddr) :
                        n \in {Chain(heap, a, MaxAddr)[i],
                               heap.buf[Chain(heap, a, MaxAddr)[i]]}}

\* The list each thread walks is its own: it ends in NULL after at most
\* the nodes it queued, every node and buffer on it was malloc'd by that
\* thread and not freed since, and no free() releases a block another
\* thread holds.  This is about create_queue_t's next = NULL on a reused
\* block, enqueue, and the order of free_queue's reads and frees while
\* the other threads reuse what it frees.
HeapSafe ==
    /\ ~badFree
    /\ \A t \in Threads :
         LET from == IF pc[t] = "free" THEN cur[t] ELSE heap.start[qa[t]]
         IN  pc[t] # "idle" =>
               /\ ChainEnd(heap, from, MaxAddr) = NULL
               /\ \A a \in Reach(from) \cup {qa[t]} : owner[a] = t

\* The abstract queue: before the send loop the list is the queue being
\* filled; free_queue releases it.
Phase(t) == CASE pc[t] = "read"  -> "fill"
              [] pc[t] = "send"  -> "send"
              [] pc[t] = "cache" -> "store"
              [] OTHER           -> "idle"

Abs == INSTANCE ChunkQueue WITH
         phase <- [t \in Threads |-> Phase(t)],
         items <- [t \in Threads |-> IF Phase(t) = "idle" THEN << >> ELSE Items(heap, qa[t])],
         delivered <- sent,
         file <- stored

\* The linked list implements ChunkQueue: enqueue appends the window at
\* the end, the send loop sends the windows in queue order, each once,
\* create_cache_file writes exactly the queue, and the dummy head is
\* never sent or written.
QueueRefined == Abs!Spec

\* What a thread keeps between responses is the leak of free_queue and
\* nothing more: once clean() has run, every block the thread still owns
\* is a window buffer (never a node, the dummy or the queue struct), and
\* there is at most one per response served, the buffer of the last
\* node, which free_queue does not free.  The heap a long-running thread
\* loses therefore grows by one window per response, not faster.
LeakBounded ==
    \A t \in Threads :
      pc[t] = "idle" =>
        LET kept == {a \in Addrs : owner[a] = t}
        IN  /\ \A a \in kept : heap.data[a] \in Chunks
            /\ Cardinality(kept) <= served[t]

=============================================================================
