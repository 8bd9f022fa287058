---------------------------- MODULE CacheStore ----------------------------
(***************************************************************************)
(* The cache of cache.c as the threads of proxyFilter.c use it: each      *)
(* request looks the resource up (`if_cache_file_exists_send_to_client`)  *)
(* and, on a miss or a conflict, fetches it and stores a 200 response     *)
(* (`create_cache_file`).  The cache directory is shared by all threads.  *)
(*                                                                         *)
(* The file system is a set of inodes (`inode`, their contents) and two   *)
(* kinds of names: `files` maps a fingerprint ./cache/<hash> to an inode, *)
(* `temps` holds the inodes still under their mkstemp name.  A thread     *)
(* that opened a file keeps reading its inode even if `rename` replaces   *)
(* the name meanwhile, as POSIX says.  Each open(), write(), rename(),    *)
(* remove(), getline() and fread() is one atomic step.                    *)
(***************************************************************************)
EXTENDS Naturals, Sequences, SequencesExt, TLC, Fingerprint

CONSTANTS
    Threads,      \* the proxy's threads
    Hosts,        \* origin hosts
    Resources,    \* resources: sequences of one-character strings
    Ascii,        \* the byte value of each character used in Resources
    Chunks(_, _), \* Chunks(h, r): the queue in->data of host h's 200 response to r
    ShortWrites,  \* may write() on the cache file return a short count
    MaxInodes,    \* bound: files mkstemp may create in one behaviour
    MaxRequests   \* bound: requests each thread serves in one behaviour

ASSUME \A h \in Hosts, r \in Resources :
         Len(r) > 0 /\ \A i \in DOMAIN Chunks(h, r) : Len(Chunks(h, r)[i]) > 0

CR == "CR"
LF == "LF"

VARIABLES
    files,   \* fingerprint -> inode of the committed cache file
    temps,   \* inodes named ./cache/tempXXXXXX
    inode,   \* inode contents, in creation order
    pc,      \* where each thread is
    req,     \* the host and resource of each thread's request
    ino,     \* the inode each thread reads or writes
    wi,      \* create_cache_file: which buffer write_all is writing
    wn,      \* write_all: its n, bytes counted as written
    off,     \* lookup: file offset after getline
    out,     \* what a cache hit sent to the thread's client
    fds,     \* descriptors the thread opened and has not closed (the leak is
             \* checked process-wide in Proxy, NoLeakWhenIdle)
    served   \* requests the thread has finished

vars == <<files, temps, inode, pc, req, ino, wi, wn, off, out, fds, served>>

Fp(r) == hash([i \in DOMAIN r |-> Ascii[r[i]]])

Body(h, r) == FlattenSeq(Chunks(h, r))

\* The buffers create_cache_file writes: resource, "\r\n", each queued chunk.
Items(t) == << req[t].r, <<CR, LF>> >> \o Chunks(req[t].h, req[t].r)

\* getline: the first line with its LF (or everything if there is none).
Line(c) == LET i == SelectInSeq(c, LAMBDA x : x = LF)
           IN  IF i = 0 THEN c ELSE SubSeq(c, 1, i)

\* *(cache_resource + strlen(cache_resource) - 2) = 0: drop the CRLF.
Identity(c) == LET l == Line(c) IN
               IF Len(l) >= 2 THEN SubSeq(l, 1, Len(l) - 2) ELSE <<>>

\* write(fd, buf, len) returns len, or any count 1..len if short writes happen.
WriteSizes(len) == IF ShortWrites THEN 1..len ELSE {len}

\* process_request returns and process_client takes the next request.
Finish(t) == /\ pc' = [pc EXCEPT ![t] = "idle"]
             /\ served' = [served EXCEPT ![t] = @ + 1]

Init == /\ files = [f \in {} |-> 0]
        /\ temps = {}
        /\ inode = << >>
        /\ pc = [t \in Threads |-> "idle"]
        /\ req = [t \in Threads |-> [h |-> CHOOSE h \in Hosts : TRUE,
                                     r |-> CHOOSE r \in Resources : TRUE]]
        /\ ino = [t \in Threads |-> 0]
        /\ wi = [t \in Threads |-> 0]
        /\ wn = [t \in Threads |-> 0]
        /\ off = [t \in Threads |-> 0]
        /\ out = [t \in Threads |-> << >>]
        /\ fds = [t \in Threads |-> 0]
        /\ served = [t \in Threads |-> 0]

\* A request GET r with Host h that passed parsing and the filter.
Begin(t) == /\ pc[t] = "idle"
            /\ served[t] < MaxRequests
            /\ \E h \in Hosts, r \in Resources : req' = [req EXCEPT ![t] = [h |-> h, r |-> r]]
            /\ pc' = [pc EXCEPT ![t] = "open"]
            /\ out' = [out EXCEPT ![t] = << >>]
            /\ UNCHANGED <<files, temps, inode, ino, wi, wn, off, fds, served>>

\* Mutant: the NULL returned by fopen is not checked.
LookupOpenNoNullCheck(t) ==
    /\ pc[t] = "open"
    /\ IF Fp(req[t].r) \in DOMAIN files
       THEN /\ ino' = [ino EXCEPT ![t] = files[Fp(req[t].r)]]
            /\ fds' = [fds EXCEPT ![t] = @ + 1]
       ELSE UNCHANGED <<ino, fds>>
    /\ pc' = [pc EXCEPT ![t] = "identity"]
    /\ UNCHANGED <<files, temps, inode, req, wi, wn, off, out, served>>

\* fopen(hash(host, resource), "r"); NULL is FILE_NOT_EXIST, a miss.
LookupOpen(t) ==
    /\ pc[t] = "open"
    /\ IF Fp(req[t].r) \in DOMAIN files
       THEN /\ ino' = [ino EXCEPT ![t] = files[Fp(req[t].r)]]
            /\ fds' = [fds EXCEPT ![t] = @ + 1]
            /\ pc' = [pc EXCEPT ![t] = "identity"]
       ELSE /\ pc' = [pc EXCEPT ![t] = "fetch"]
            /\ UNCHANGED <<ino, fds>>
    /\ UNCHANGED <<files, temps, inode, req, wi, wn, off, out, served>>

\* Mutant: the identity line is not compared.
LookupIdentityNoCheck(t) ==
    /\ pc[t] = "identity"
    /\ off' = [off EXCEPT ![t] = Len(Line(inode[ino[t]]))]
    /\ pc' = [pc EXCEPT ![t] = "send"]
    /\ UNCHANGED <<files, temps, inode, req, ino, wi, wn, out, fds, served>>

\* getline and strcmp with the resource.  A mismatch is CACHE_CONFLICT,
\* which process_request treats as a miss; the FILE is not closed.
LookupIdentity(t) ==
    /\ pc[t] = "identity"
    /\ LET c == inode[ino[t]] IN
       IF Identity(c) = req[t].r
       THEN /\ off' = [off EXCEPT ![t] = Len(Line(c))]
            /\ pc' = [pc EXCEPT ![t] = "send"]
       ELSE /\ pc' = [pc EXCEPT ![t] = "fetch"]
            /\ UNCHANGED off
    /\ UNCHANGED <<files, temps, inode, req, ino, wi, wn, out, fds, served>>

\* The fread/send loop: one fread of BUFFER_LENGTH reads the rest of a
\* response this small.  On ferror it returns FILE_IO_ERROR, and
\* process_request returns ("Cache Error") without answering.  The FILE is
\* not closed on any path (close(file) passes a FILE* to close()).
LookupSend(t) ==
    /\ pc[t] = "send"
    /\ \/ out' = [out EXCEPT ![t] = SubSeq(inode[ino[t]], off[t] + 1, Len(inode[ino[t]]))]
       \/ UNCHANGED out
    /\ Finish(t)
    /\ UNCHANGED <<files, temps, inode, req, ino, wi, wn, off, fds>>

\* proxy_get: the origin answers; the parse succeeds with code "200" and
\* the response is cached, or it does not and nothing is stored.
Fetch(t) ==
    /\ pc[t] = "fetch"
    /\ \/ /\ pc' = [pc EXCEPT ![t] = "mkstemp"]
          /\ UNCHANGED served
       \/ Finish(t)
    /\ UNCHANGED <<files, temps, inode, req, ino, wi, wn, off, out, fds>>

\* Mutant: the file is created under its final name and written in place.
MkstempInPlace(t) ==
    /\ pc[t] = "mkstemp"
    /\ Len(inode) < MaxInodes
    /\ inode' = Append(inode, << >>)
    /\ files' = (Fp(req[t].r) :> Len(inode) + 1) @@ files
    /\ ino' = [ino EXCEPT ![t] = Len(inode) + 1]
    /\ fds' = [fds EXCEPT ![t] = @ + 1]
    /\ wi' = [wi EXCEPT ![t] = 1]
    /\ wn' = [wn EXCEPT ![t] = 0]
    /\ pc' = [pc EXCEPT ![t] = "write"]
    /\ UNCHANGED <<temps, req, off, out, served>>

\* mkstemp("./cache/tempXXXXXXX") creates a new empty file and opens it.
\* On -1 it returns FILE_CANNOT_BE_CREATED (close(name) and remove(name)
\* act on no file).  The descriptor is never closed.
Mkstemp(t) ==
    /\ pc[t] = "mkstemp"
    /\ \/ /\ Len(inode) < MaxInodes
          /\ inode' = Append(inode, << >>)
          /\ temps' = temps \cup {Len(inode) + 1}
          /\ ino' = [ino EXCEPT ![t] = Len(inode) + 1]
          /\ fds' = [fds EXCEPT ![t] = @ + 1]
          /\ wi' = [wi EXCEPT ![t] = 1]
          /\ wn' = [wn EXCEPT ![t] = 0]
          /\ pc' = [pc EXCEPT ![t] = "write"]
          /\ UNCHANGED served
       \/ /\ Finish(t)
          /\ UNCHANGED <<inode, temps, ino, fds, wi, wn>>
    /\ UNCHANGED <<files, req, off, out>>

\* Mutant: a failed write returns without removing the temp file.
WriteNoRemove(t) ==
    /\ pc[t] = "write"
    /\ wi[t] <= Len(Items(t))
    /\ LET item == Items(t)[wi[t]] IN
       \/ \E k \in WriteSizes(Len(item)) :
            /\ inode' = [inode EXCEPT ![ino[t]] = @ \o SubSeq(item, 1, k)]
            /\ IF wn[t] + k >= Len(item)
               THEN wi' = [wi EXCEPT ![t] = @ + 1] /\ wn' = [wn EXCEPT ![t] = 0]
               ELSE wn' = [wn EXCEPT ![t] = @ + k] /\ UNCHANGED wi
            /\ UNCHANGED <<pc, served>>
       \/ Finish(t) /\ UNCHANGED <<inode, wi, wn>>
    /\ UNCHANGED <<files, temps, req, ino, off, out, fds>>

\* One write(fd, buf, len) of write_all.  It always passes the buffer from
\* its start, so after a short write of k bytes the next call appends the
\* buffer again from its first byte; the loop ends once n >= len.  A
\* negative return ends create_cache_file with remove(name), FILE_IO_ERROR.
Write(t) ==
    /\ pc[t] = "write"
    /\ wi[t] <= Len(Items(t))
    /\ LET item == Items(t)[wi[t]] IN
       \/ \E k \in WriteSizes(Len(item)) :
            /\ inode' = [inode EXCEPT ![ino[t]] = @ \o SubSeq(item, 1, k)]
            /\ IF wn[t] + k >= Len(item)
               THEN wi' = [wi EXCEPT ![t] = @ + 1] /\ wn' = [wn EXCEPT ![t] = 0]
               ELSE wn' = [wn EXCEPT ![t] = @ + k] /\ UNCHANGED wi
            /\ UNCHANGED pc
       \/ /\ pc' = [pc EXCEPT ![t] = "remove"]
          /\ UNCHANGED <<inode, wi, wn>>
    /\ UNCHANGED <<files, temps, req, ino, off, out, fds, served>>

\* rename(name, hash(host, resource)) atomically replaces any entry under
\* that name.  On -1 the temp file is removed (FILE_CANNOT_BE_RENAMED).
Rename(t) ==
    /\ pc[t] = "write"
    /\ wi[t] > Len(Items(t))
    /\ \/ /\ files' = (Fp(req[t].r) :> ino[t]) @@ files
          /\ temps' = temps \ {ino[t]}
          /\ Finish(t)
       \/ /\ pc' = [pc EXCEPT ![t] = "remove"]
          /\ UNCHANGED <<files, temps, served>>
    /\ UNCHANGED <<inode, req, ino, wi, wn, off, out, fds>>

\* remove(name) after a failed write or rename.
RemoveTemp(t) ==
    /\ pc[t] = "remove"
    /\ temps' = temps \ {ino[t]}
    /\ Finish(t)
    /\ UNCHANGED <<files, inode, req, ino, wi, wn, off, out, fds>>

\* Every thread has served its bounded number of requests.
Finished == /\ \A t \in Threads : served[t] = MaxRequests
            /\ UNCHANGED vars

Next == \/ \E t \in Threads : \/ Begin(t) \/ LookupOpen(t) \/ LookupIdentity(t)
                              \/ LookupSend(t) \/ Fetch(t) \/ Mkstemp(t)
                              \/ Write(t) \/ Rename(t) \/ RemoveTemp(t)
        \/ Finished

Spec == Init /\ [][Next]_vars

-----------------------------------------------------------------------------
PC == {"idle", "open", "identity", "send", "fetch", "mkstemp", "write", "remove"}

TypeOK ==
    /\ temps \subseteq DOMAIN inode
    /\ \A f \in DOMAIN files : files[f] \in DOMAIN inode
    /\ Len(inode) <= MaxInodes
    /\ pc \in [Threads -> PC]
    /\ req \in [Threads -> [h : Hosts, r : Resources]]
    /\ ino \in [Threads -> 0..MaxInodes]
    /\ fds \in [Threads -> 0..(2 * MaxRequests)]
    /\ served \in [Threads -> 0..MaxRequests]
    /\ \A t \in Threads : pc[t] \in {"identity", "send", "write", "remove"} => ino[t] \in DOMAIN inode

\* A cache hit sends the client a complete response that some origin gave
\* for the requested resource: never a partly written file (temp file and
\* rename), never another resource with the same hash (the identity line).
\* The run has whole writes only: write_all's retry after a short write()
\* is not covered here.
HitIsStoredResponse ==
    \A t \in Threads : out[t] # << >> => \E h \in Hosts : out[t] = Body(h, req[t].r)

\* Spec sections 1-3 key the cache by host and resource: a cache hit
\* sends the response of the requested host.
HitIsRequestedHost ==
    \A t \in Threads : out[t] # << >> => out[t] = Body(req[t].h, req[t].r)

\* A temp file exists only while its creator is still writing or removing
\* it: create_cache_file leaves no ./cache/temp* file behind.
TempsOwned ==
    \A i \in temps : \E t \in Threads : ino[t] = i /\ pc[t] \in {"write", "remove"}

=============================================================================
