# TLA+ models of the forwarding HTTP proxy (CS317 a3)

This directory holds TLA+ models of the proxy in
`src/CPSC317/CS317_a3_e0p8_u4o8/`, the TLC configurations that check them,
and `PROJECT.json`. That file lists the components, runs, mutants, the map
from definitions to source lines, the findings and the hazards.

## 1. Inventory

### Components and their state

| Component | Source | State | Operations |
|---|---|---|---|
| Buffered Reader | `parse.c` 1-148, `parse.h` | `buf`, `pos`, `bytes_in_buf`, `status`, `data` (queue), `host_sd`, `client_sd`, `total_bytes` | `initialize`, `readbuf` (refill), `next`, `peek`, `read`, `flush`, `advance`, `clean` |
| Response Parser | `parse.c` 150-271 | none (works on a reader) | `try_match`, `readline`, `readspaces`, `read_code`, `read_int`, `read_hex`, `read_content_length`, `read_to_empty_line` |
| Response driver | `proxyFilter.c` 279-408 | the reader, the status code, the framing length | `recieve_data_and_pipe_to_client`, `handle_error_status`, `code_has_no_body`, `send_message` |
| Byte Queue | `queue.c`, `queue.h` | a linked list of copied buffers | `initialize_queue`, `enqueue`, `create_queue_t`, `free_queue` |
| Cache Store | `cache.c` | files `./cache/<hash>` on disk, shared by all threads and surviving restarts | `hash`, `create_cache_file`, `write_all`, `if_cache_file_exists_send_to_client` |
| Host Filter | `filter.c` | `banlist[100]`, `len_banlist`: written once at startup | `read_filter_list`, `filter_host`, `to_lower_str` |
| Request parsing | `proxyFilter.c` 158-171, `parse.c` 276-349 | each thread's stack buffer `request[6073]`, reused from one client to the next | `read_request`, `check_GET_and_get_resource`, `read_to_after_empty_line`, `get_port` |
| Connection Handler | `proxyFilter.c` 115-263, `response.c` | per-thread client and origin sockets; the process-wide descriptor table | `process_client`, `process_request`, `proxy_get`, `send_response` |
| Listener / startup | `proxyFilter.c` 33-113 | the listening socket, NUM_OF_THREADS = 4 threads | `main`, `startServer` |

### How they interact

Four threads run `process_client` over one listening socket. Each thread
accepts a client, reads the request into its stack buffer, and parses the
method, resource and Host. It then asks the host filter and looks in the
cache. On a miss it connects to the origin and forwards the request. It
runs `recieve_data_and_pipe_to_client`, which drives the parser over a
buffered reader on the origin socket. Every buffer is copied into the
queue, because the reader gets `client_sd = -1`. When parsing succeeds the
queue is sent to the client, and a 200 response is written to the cache
with a temp file and `rename`. The threads share no variables except the
filter list, which is read-only after startup, but they share one heap:
every queue node and copied window is malloc'd and freed while the other
threads do the same. They share two things
outside memory: the cache directory and the process's descriptor table.

### What is hard here

* Segmentation. A response reaches `recv()` split at any byte. The parser
  must give the same answer for every split, at every refill inside
  `next`, `peek` and `advance`.
* Failure at any read. The origin can close or time out at any refill.
  After a failed refill `next`/`peek` still return a byte, a stale one.
* Short sends and writes. Every send/write loop in the code retries from
  the start of the buffer.
* Error paths. Statuses are sent from several levels of the call chain.
* Threads. Four threads store and look up cache files concurrently. They
  also consume one process-wide descriptor table, and several paths leak
  descriptors from it.
* Stale state. Each thread's request buffer keeps the previous client's
  bytes, and the request parser can read past the current request.

### What makes each component correct

* Reader + parser + driver: the client gets the origin's bytes in order,
  each once (spec P1). A reported success means the whole response was
  delivered (P3, P4). At most one status response is sent, and never
  after body bytes (4.5.7). The handler always finishes.
* Cache: a lookup returns only a response stored for the same host and
  resource (sections 1-3 key entries by host and resource). A reader never sees a partly written entry. Concurrent
  stores leave one complete entry.
* Filter: the result does not depend on the case of the host (P6). Only
  listed words ban.
* Request parsing: without a Host header the answer is 400; for a method
  other than GET it is 405. Neither opens an origin connection (P7). The
  request parsed is the client's own.
* Handler/listener: every accepted client is answered, and descriptors
  are released. The pool keeps serving.

## 2. Plan

Modules in order of importance. Each is checked by its own MC module and
cfgs.

1. **ResponsePipeline** (done): the buffered reader, the parser and the
   driver, up to the 500 that `process_request` adds. This is the core of
   the spec.
2. **CacheStore** + **Fingerprint** (done, without the reference check of
   `hash`): `hash` as a RECURSIVE operator over
   4-byte little-endian words with 32-bit wrap-around. It is checked
   against a reference polynomial definition over bounded strings.
   `create_cache_file` is modelled as mkstemp / write_all with short
   writes / rename, and `if_cache_file_exists_send_to_client` as
   open / identity line / send. Two or three threads store and look up
   concurrently. Properties: a lookup serves only the requested host and
   resource (host-blind key), and stored entries are complete when every
   write() is whole (the short-write case is described in section 4).
   The descriptors it opens are counted per thread; their leak is checked
   process-wide in Proxy.
3. **ResponseRelay** (done) (abstract): what the pipeline does for one response.
   The outcome is the response delivered, one or two statuses, or a
   failure, with the cache written or not. ResponsePipeline is checked to
   implement it (INSTANCE ... WITH a mapping of `pc`, `client` and
   `cacheFile`). Proxy summarises the relay further, by its outcome
   (delivered or 500, and whether the code was 200).
4. **HostFilter** (done): `read_filter_list` and `filter_host` as
   operators, compared with the file read line by line in Proxy's
   `OriginOnlyForAllowed`.
5. **RequestParse** (done, without `get_port`): `read_request` and `check_GET_and_get_resource` over
   a per-thread buffer that keeps old bytes, plus `get_port`. Checked: the
   400/405 mapping (P7), and that the Host used is the request's own.
6. **Proxy** (done): NUM_OF_THREADS threads in `process_client` loops
   over the outcomes of the request parse, the relay and the cache,
   with HostFilter's operators and `get_port` themselves, and a bounded
   descriptor table. Properties: an origin connection only for an
   allowed GET, at the host's name and port; descriptors released
   (violated by the leaks); every client eventually served under weak
   fairness of each thread.
7. **ByteQueue** + **ChunkQueue** (done): `queue.c` as a linked list on
   a heap shared by two threads, with the allocator's reuse of freed
   blocks, shown to implement the abstract queue ChunkQueue.
8. **CNumber** (done): `atoi`/`strtol` as glibc computes them on a
   64-bit long, then cast to `int`, used by `read_int`/`read_hex`.

## 3. ResponsePipeline

### Correspondence with the code

* `rd` is the `buffered_reader`: `buf` (a function `1..BufLen`, whose
  unwritten bytes are `Uninit`), `pos`, `n` (= `bytes_in_buf`), `status`
  and `data` (the queue, a sequence of copied windows). `recvd` counts the
  bytes `recv()` has delivered from `resp`, the origin's byte stream.
  `total_bytes` is never read and is left out.
* `readbuf`, `next`, `peek`, `read`, `flush`, `advance` and every scanning
  function are operators with the C names. Each returns the set of its
  possible outcomes. The only nondeterminism is the result of `recv()` in
  `readbuf`: a byte count in `RecvSizes` (or all that is left), 0
  (close), or -1 (error or timeout). Loops are RECURSIVE operators.
* The driver is one action per step between helper calls: `ReadCode`,
  `NoBody`, `Framing`, `FixedLength`, `ChunkedHead`, `ChunkedChunk`,
  `ChunkedEnd`, `UnknownFailed`/`UnknownRead`, `Drain`/`DrainEnd`,
  `CheckStatus`, `SendCall` (one `send()` of `send_message`), `SendDone`,
  `Cache` (`create_cache_file` as one step that may fail), and
  `Returned` (`process_request`'s `handle_error_status(HOST_IO_ERROR)`).
* `client` is what the client socket receives: origin bytes and the
  canned statuses `R500`, `R502`, `R504`. `cacheFile` is the committed
  cache content.
* Data abstraction: `"HTTP/1."`, `"Content-Length:"`,
  `"Transfer-Encoding:"` and `"chunked"` are the words `H`, `C:`, `T:`,
  `k` (`MC_ResponsePipeline`). Full, partial and failed matches all
  still happen. Bytes are one-character strings, with `CR` and `LF`.

### Runs

| Run | Expect | What it shows |
|---|---|---|
| `pipeline_all` | pass | Every framing (length, no body, chunked, unframed, bad status), every split into recv() results of 1 or 3 bytes, and every close or error at any refill. The client gets origin bytes only in origin order (P1). For the responses in `Framed` (CRLF Content-Length, 204), success means the client got exactly the response. The handler always finishes, and the pipeline implements `ResponseRelay`. About 2.9 million states, under 3 minutes. |
| `chunked_tail` | violation | With `Framed` = the chunked response: the final CRLF of a chunked response is never read. |
| `short_send` | violation | A short `send()` duplicates the start of a chunk. |
| `double_status` | violation | Every error path sends two statuses (e.g. 502 then 500). |
| `unframed` | violation | A close-delimited body is discarded with a 500. |

Bounds: `BufLen = 3` with `recv()` returning 1 or 3 bytes (or what is
left). One-byte reads put a refill boundary at every byte position, and
3-byte reads put one in the middle of every multi-byte match. The
responses are the shortest ones that exercise each branch. For example,
`RespLength` has a header `Cx` that partly matches `C:`, and
`RespChunked` has one data chunk and the terminating chunk. The body of
`RespLength` has 4 bytes, more than a whole window. So `advance` always
runs short of bytes in the window, counts what is left and refills
(`parse.c` 131-134), whatever the split. Every recv() may also return 0
or -1. `pipeline_all` reaches 2.9 million states.

Mutants of `pipeline_all`:

* `SendCallPastEnd` (a send that runs past the chunk) breaks `TypeOK`.
* `SendCallFirstChunk` (the loop takes `in->data->start->next` each turn
  instead of `chunk->next`) breaks `ClientBytesInOrder`.
* `advanceWholeWindow` (`num -= bytes_in_buf` instead of
  `bytes_in_buf - pos`) stops the body short and breaks
  `SuccessMeansComplete`.
* `DrainEndInLoop` breaks `Terminates`.
* `DrainEndReportsSuccess` breaks `RelayRefined`.

Fairness: `WF_vars(Next)`. The model is a single thread running its own
code. Every `recv()`/`send()` returns, at the latest when SO_RCVTIMEO (10
s) or SO_SNDTIMEO (120 s) expires, so the thread cannot stop while a
step is enabled.

`Framed` is a constant: the responses for which the completeness
properties are claimed. The chunked and close-delimited responses are
left out of it in `pipeline_all`, because the violation runs show the
code gets them wrong.

### Refinement: ResponseRelay

`ResponseRelay` is what the relay promises, with no parsing in it. It
has a phase (`read`, `deliver`, `store`, `answer`, `done`) and `got`,
what has been queued. While reading, the queue only grows. The relay
gives up with at most one canned status, or it delivers. It delivers
only if what it read is a prefix of the origin's response. The client
then gets a growing prefix of the queue. Delivery ends with the client
holding the whole queue, or with a failure. The cache commits the queue
or nothing. A failure is answered with one more 500, which a client that
is gone does not receive.

`ResponsePipeline` instantiates it with these mappings:

* `got <- Queued` (the flattened `rd.data`);
* `phase <- RelayPhase` (`send` to `deliver`, `cache` to `store`,
  `returned` to `answer`, and every position before `send` to `read`);
* `failed <- (result # 0)`.

`pipeline_all` checks `RelayRefined == Relay!Safety`. The relay's
fairness (it reaches `done`) is the separate property `Terminates`. TLC
cannot evaluate ENABLED for the abstract actions through the mapped
queue, so the fairness is not checked through the instance. The mutant
`DrainEndReportsSuccess` makes the close-delimited path return 0 after
discarding the body, and it breaks the refinement.

Reading may queue anything, because the close-delimited drain loop
queues a window twice (`flush` queues it, and the failing `readbuf` of
the next `peek` queues it again). That path always ends in failure, so
the duplicate never reaches the client.

Other divergences the model shows, which no run keeps:

* With bare-LF line ends (`... 200 \n C:1 \n \n z`), `read_to_empty_line`
  leaves the LF unconsumed and `advance` stops one byte short.
* A status line without a reason phrase (`HTTP/1.1 200\r\n`) makes
  `read_code`'s `readline` consume the CRLF. The next empty line is then
  taken as the end of the headers, so the framing is lost.
* The whole response is queued before any of it is sent (spec P2 asks
  for streaming), since `client_sd` is always -1.

### Not modelled in this module

* The `client_sd >= 0` branches of `readbuf`/`flush`, and
  `br_send_message`. They are unreachable because the only caller passes
  `-1`.
* Memory management (`malloc`, `clean`, `free_queue`).
* The body of `create_cache_file`, which is planned for CacheStore.

### CNumber: the number conversions

`read_int` returns `atoi(num)` and `read_hex` returns `strtol(num, NULL, 16)`,
each over at most 31 digits. With glibc on x86-64, `atoi` is
`(int) strtol(s, NULL, 10)`. `strtol` accumulates in a 64-bit
`unsigned long`, and returns `LONG_MAX` once the value passes it (its
overflow flag stays set). The conversion to `int` keeps the low 32 bits.
TLC's integers are 32-bit, so `CNumber` keeps the long as four 16-bit
limbs (`MulAddLimbs`, `AddDigit`, `Saturate`, `CastInt`). `ReadNum` runs
the loop one digit at a time as `num` fills. Each new value is bound
through a set, so that TLC computes it once. When TLC evaluated the
argument at each use instead, the liveness run slowed to a crawl.

The module's `ASSUME` checks the edge values. 4294967297 reads as 1 and
4294967294 as -2, which is `NO_CONTENT_LENGTH_OR_TRANSFER_ENCODING`.
LONG_MAX, and anything beyond it, reads as -1 (`IS_TRANSFER_ENCODING`).
2147483648 reads as `INT_MIN`. A chunk size of `100000000` reads as 0,
which means the last chunk. So a large `Content-Length` can make the
proxy treat the body as chunked or unframed. A negative length other
than these two goes to the status check: `Framing` follows
`recieve_data_and_pipe_to_client`'s order `len >= 0`, then `IS_TE`,
then `NO_CL`. No run reaches these values. The checked responses carry
one-digit lengths, and a ten-digit length split over every `recv`
boundary is beyond TLC.

## 4. CacheStore and Fingerprint

### Correspondence with the code

* `Fingerprint!hash` is `hash()` in `cache.c`. It reads the resource as
  4-byte little-endian words (`Word`) and computes `n * 31 + word` in
  unsigned 32-bit arithmetic (`MulAdd31`). A partial last word is padded
  with zero bytes (`ZeroPad`). TLC integers are 32-bit signed, so the
  value is kept as its two 16-bit halves. `sprintf("%u")` is injective,
  so the pair stands for the file name. The host argument is not used,
  as in the code.
* The file system: `inode` holds the contents of every file created and
  `files` maps a fingerprint to the inode named `./cache/<hash>`. `temps`
  holds the inodes still under their `mkstemp` name. A thread that opened
  an inode keeps reading it even after `rename` replaces the name.
* Per thread: `pc`, the request `req` (host and resource), `ino` (the
  inode it reads or writes), `wi`/`wn` (which buffer `write_all` writes
  and its `n`), `off` (file offset after `getline`), and `out` (what a hit
  sent to the client). `fds` counts descriptors opened and not closed,
  and `served` counts finished requests.
* Actions, one per system call:
  * `Begin` is a request that passed parsing and the filter.
  * `LookupOpen` is `fopen`.
  * `LookupIdentity` is `getline` plus `strcmp`. A conflict is treated as
    a miss, as `process_request` does.
  * `LookupSend` is the `fread`/`send` loop. Its `ferror` branch returns
    without answering the client.
  * `Fetch` is `proxy_get`: either a parsed 200 that will be cached, or
    no store.
  * `Mkstemp`, `Write` (one `write()` of `write_all`) and `Rename` are the
    steps of `create_cache_file`, and `RemoveTemp` is its `remove(name)`.

`Write` keeps the bug of `write_all`. After a short count the next
`write()` is passed the buffer from its start again. With
`ShortWrites = TRUE` in `MC_CacheStore.cfg`, `HitIsStoredResponse` fails:
the chunk `a1 a2` is stored as `a1 a1` and later hits serve it. No run
checks this, because it is the same retry-from-the-start loop as
`br_send_message`, which the `short_send` run shows.

### Runs

| Run | Expect | What it shows |
|---|---|---|
| `cache_store` | pass | Two threads, two hosts, and two resources whose hashes collide (`/xyzb`, `0xyzC`). `mkstemp`, `write` and `rename` may fail. A hit serves only a complete response stored for the requested resource (`HitIsStoredResponse`), never a file being written and never the colliding resource. No temp file outlives its writer (`TempsOwned`). About 1.07 million states. |
| `cache_host_blind` | violation | Spec sections 1-3 (entries keyed by host and resource; 4.3's fingerprint reads only the resource). Host h2's response to a path is served for the same path at h1. |

The mutants show what `HitIsStoredResponse` depends on:

* writing the file in place instead of through a temp file and `rename`
  (`MkstempInPlace`) lets a concurrent lookup serve a partial entry;
* dropping the identity check (`LookupIdentityNoCheck`) serves the
  colliding resource.

Bounds. There are 2 threads and each serves `MaxRequests = 2` requests, so
every ordering of two lookups and two stores is covered, including a store
that replaces an entry while the other thread reads it. `MaxInodes = 3`
files may be created. Two hosts and two colliding resources exercise
both the host-blind key and the conflict path. Threads are symmetric
(SYMMETRY over the thread set: no property names a thread). The behaviour
ends when every thread has served its requests (`Finished`).

### Not modelled here

* `create_cache_directory` (mkdir): the directory is taken to exist. If
  it cannot be created, `mkstemp` fails, which is modelled.
* `close(name)` and `close(file)` pass a string or a `FILE*` to `close()`.
  They close no descriptor of the process and are left out.
* `send_message` failures in the hit path, which are modelled in
  ResponsePipeline.
* The `remove(name)` after a failed `mkstemp`. It acts on the template
  name, which no file has.
* Origin responses that change over time: each host gives one fixed
  response per resource.

## 5. RequestParse

### Correspondence with the code

* `buf` is one thread's `char request[REQUEST_LENGTH + 1]`. It is the
  same stack memory for every client the thread serves, so it is never
  reset. It starts `Uninit` (stack garbage). Cell `i` is `request[i-1]`.
* `Accept` is `accept()` returning a client that will send one of
  `Requests`. `Recv` is one `recv()` of `read_request`. The count is
  limited by `len`, or it is 0 (close) or -1 (SO_RCVTIMEO). The end test
  `EndSeen` is the code's test on the three bytes before `buf`. Before
  `request[0]` those bytes are stack garbage (`GarbageChars`). When the
  loop ends, `*buf = 0` is written, and `process_client` skips a request
  of length 0.
* `Parse` is `check_GET_and_get_resource`. Its helpers
  (`read_to_new_line`, `read_till_space`, `read_till_non_space`, the
  header loop and the Host value) are RECURSIVE operators with the code's
  names. Each returns the set of possible outcomes. A scan that reaches
  stack garbage may end in any outcome garbage allows (`FromGarbage`):
  NO_HOST, a garbage Host, or a read past the array.
* `Expected` is the reference. It is how RFC 7230 reads the received
  bytes: the method, the request target up to SP, and the first `Host:`
  line before the first empty line. The request is NO_HOST if there is
  no such line.
* Data abstraction: `"GET "` and `"Host:"` are single symbols, and the
  other symbols are bytes. `REQUEST_LENGTH` is 17 cells, so the longest
  request (19) is cut at `len = 0`.

### Runs

| Run | Expect | What it shows |
|---|---|---|
| `request_parse` | pass | Three clients in a row on one thread, with every recv() split, early close and timeout. A non-GET, or a GET whose received headers have a Host line, parses to this client's own method, resource and Host (`OwnRequestParsed`), whatever earlier clients left in the buffer. |
| `request_stale` | violation | Spec P7. A CRLF GET without Host is not answered 400. The loop tests `'\r' '\r'` instead of CRLF, so it passes the empty line and the NUL and scans the rest of `request[]`. For a thread's first client that is stack garbage (TLC's shortest trace). After a longer earlier request, it is that request's Host line: the second client's Host-less request is forwarded to the first client's host `h`. |

The requests are chosen so that the stale case happens. `ReqLong`'s
Host line starts at cell 13, beyond the 8 cells and NUL of `ReqNoHost`.
Bare-LF `ReqNoHostLF` shows the one Host-less form the loop does stop
on. `ReqPost` is a non-GET. Three clients are enough for a stale read
of a stale read.

### Not modelled here

* `get_port`, which belongs to `proxy_get` (Proxy).
* Lengths in bytes. The `memcpy` of the Host and resource into their
  2024- and 4048-byte blocks can overflow, and that is listed as a hazard.
* `read_to_after_empty_line`, which is never called.

## 6. HostFilter and Proxy

### HostFilter: correspondence with the code

`HostFilter.tla` holds `filter.c` as pure operators. A character is a
one-character string, and CR and LF are the strings `"CR"` and `"LF"`.
`ToLower` is `tolower()` on the characters in use.

* `FgetsLen` is what one `fgets(tempstore, 103, file)` takes: characters
  through the first LF, at most `FgetsCap` of them. `FgetsCap` stands
  for the 102 characters fgets can take, scaled down with the lines.
* `Entry` is the loop body of `read_filter_list`. A final LF is cut,
  then a CR before the last character read is cut too, and the rest is
  lowered. `read_filter_list` is a RECURSIVE operator: one entry per
  fgets call until the end of the file.
* `filter_host` lowers the host. It returns -1 if some entry is a
  contiguous part of the lowered host (`SubSeqs`, which is `strstr`;
  the empty word is a part of every host).
* `FileLines` and `Banned` are the reference: the file as spec 6 and
  4.4 read it, one word per LF- or CRLF-ended line, compared without
  regard to case.

### Proxy: correspondence with the code

`Proxy.tla` is the whole process.

* `Start` is `main` and `startServer`. `read_filter_list` either fails
  to open the file and the process exits, or it fills `banlist`. Then
  the socket, setsockopt, bind and listen sequence either fails (exit)
  or the threads start.
* `Connect(c)` is a client entering the listen backlog (`pending`). It
  will send one of `Requests`. A request is summarised by what
  `check_GET_and_get_resource` makes of it: `NO_HOST`, `IS_NOT_GET`, or
  `ok` with a host and a resource. RequestParse checks that step.
* Each thread's `pc` follows `process_client`, in order:
  * `Accept` is `accept()`. It times out on an empty backlog, and fails
    with EMFILE when `Open = MaxFds`; then the loop continues, a step
    that changes nothing.
  * `Timeouts` is the two `setsockopt` calls.
  * `ReadRequest` is `read_request`'s 0 or non-0 length.
  * `Process` is `process_request` up to the filter. A parse error is
    answered by `handle_error_status` (`StatusOf`), a banned host by
    403.
  * `Lookup` is `if_cache_file_exists_send_to_client`. `Socket` and
    `ConnectOrigin` are `proxy_get`, which calls `get_port` and records
    the address it connects to in `origin`.
  * `Relay` is `recieve_data_and_pipe_to_client`, summarised by its
    outcome (ResponsePipeline checks the inside).
  * `Store` is `create_cache_file`, with `cache` mapping a hash to the
    resource committed under it. `Key` collides on purpose.
  * `Finish` is `close(new_sd)`.
* `answer[c]` is the sequence of responses client `c` receives, one
  symbol per `send_response` or relayed response. `closed` holds the
  clients whose socket was closed.
* Descriptors. `Open` counts stdio, the listening socket, each thread's
  `new_sd`, and `leaked`: the descriptors opened by `socket()` in
  `proxy_get`, `fopen()` in the lookup and `mkstemp()` in
  `create_cache_file`, which no path closes. `accept`, `socket`, `fopen`
  and `mkstemp` fail when `Open = MaxFds`.

### Runs

| Run | Expect | What it shows |
|---|---|---|
| `proxy` | pass | Two threads and three clients. Each client sends one of: a 400 request, a 405 request, a GET to a banned host (`aBx`), a GET to an allowed host (`a`), or a GET to `x:8` for either of two resources with the same cache key. The filter file is one of three: a CRLF file, a file whose last line has no LF, and a file whose line fgets splits. An origin connection is opened only for a GET whose host contains no line of the file in any case, at the host's name and port (`OriginOnlyForAllowed`). Every origin address has a host name and a port (`TypeOK`). Every client that connects is eventually closed (`EveryClientServed`). About 1.4 million states, under 2 minutes. |
| `proxy_fd_leak` | violation | With both threads back in `accept()`, descriptors opened for earlier requests are still open. TLC's shortest trace is one request whose `connect` fails: the origin socket from `proxy_get` stays open. The `mkstemp` and `fopen` leaks give the same violation on the store and hit paths. |

What the leaks do. They never starve `accept()`. A leak needs a free
descriptor while the thread still holds its `new_sd`. So when every
thread waits in `accept()`, one descriptor is free, and
`EveryClientServed` holds. What runs out is everything else. Once the
table is full, `socket()` fails and every proxied request is answered
500, while `fopen()` and `mkstemp()` fail, so the cache neither serves
nor stores. The process keeps accepting clients it can no longer serve.

Mutants: `get_portNoDefault` (the port used without proxy_get's
default `"80"`) breaks `TypeOK`, whose origin addresses have a port. `EntryKeepsCase` (ban words not lowered) breaks
`OriginOnlyForAllowed`: `B` in the file no longer bans `aBx`.
`FinishNoClose` (no `close(new_sd)`) breaks `EveryClientServed`.

Bounds. `MaxFds = 8` with 3 stdio descriptors leaves room for the
listening socket, two clients and a few leaks. With 6 or 7, the leaks
use up the table before a store or a cache hit can happen. Three
clients on two threads make a client wait in the backlog while both
threads are busy. `FgetsCap = 4` makes the 5-character CRLF line split
in two fgets pieces, as a 101-character line does in the code. No
symmetry is used: the run checks liveness.

Fairness. Each thread has weak fairness on its own steps
(`WF_vars(Thread(t))`), and `Start` is weakly fair. Every blocking call
of a thread returns: `accept` on the listening socket and every `recv`
and `send` on client and origin sockets have SO_RCVTIMEO or
SO_SNDTIMEO, so a thread that is able to move keeps moving. An
`Accept` that changes nothing is not a step of `Thread(t)` in the
`<<A>>_vars` sense, so fairness does not let a thread loop on a
timeout while a client waits and a descriptor is free.

## 7. ByteQueue and ChunkQueue

`ResponsePipeline` keeps the queue `in->data` as a sequence. `ByteQueue`
models `queue.c` itself: a linked list of `malloc`'d blocks on one heap,
which two threads running `recieve_data_and_pipe_to_client` use at once.
Each thread frees into its own tcache list and mallocs from it, so no
block passes from one thread to the other. `HeapSafe` is about a thread
reusing its own freed blocks. The second thread checks that the lists
stay apart.
`ChunkQueue` is what the queue promises one thread.

### Correspondence with the code

* `heap` holds the fields of every block `1..MaxAddr`: `nxt` and `buf` of
  a `queue_t`, `start` and `end` of a `queue` (`queue.h`), and `data`, the
  window a copied buffer holds. `len` is left out: nothing reads it
  except `send_message` and `write_all`, which the other modules model.
  `NULL` is 0. `Junk` stands for a pointer read from a buffer's bytes.
* The allocator. `owner` says which thread `malloc`'d a block, or that it
  is `Free` or never used (`Fresh`). `tcache` is each thread's list of
  freed blocks. `malloc` takes the block the thread freed last, or else
  the lowest fresh block, as glibc's per-thread tcache does. `free` keeps
  a block's `next`: the tcache link is written in the block's first 16
  bytes, and `next` sits at offset 16. The other fields of a freed block
  are forgotten, because every path writes them before reading them.
  `badFree` records a `free` of a block the thread does not own.
* Size classes are merged. A `queue_t` (24 bytes) and a `queue` (16
  bytes) are both 32-byte chunks in glibc and share a tcache list. A full
  8096-byte window is too big for the tcache and is reused through the
  thread's arena bins instead. The model puts every block on the one
  list, so a freed window can come back as a node. This only adds
  behaviours, which is sound for the safety properties checked.
* Operators with the C names: `create_queue_t`, `initialize_queue` and
  `enqueue` (`queue.c`). `Chain`, `ChainEnd` and `Items` are the walks
  over `next` of the send loop and `create_cache_file`.
* Actions, one per step of a thread:
  * `Initialize` is `initialize`: `malloc` of the queue, then
    `initialize_queue`'s dummy node.
  * `Enqueue` is `readbuf`/`flush` with bytes in the window: `malloc`,
    `memcpy`, `create_queue_t`, `enqueue`. Window i of a response is
    named i (`Chunks`). Windows are told apart by where they came from,
    so a lost or repeated window is visible.
  * `EndRead` is the end of the parse: either straight to `clean(in)` (a
    bad status line, an unframed body or a reader error), or the send
    loop.
  * `SendChunk` is one turn of the send loop, whose `send_message` may
    fail and end it. `SendDone` is the loop reaching `next == NULL`.
  * `CacheWalk` is `create_cache_file` for a 200. The file keeps the
    whole queue, or nothing if a write or the rename fails. For other
    codes nothing is kept.
  * `FreeStep` is one turn of `free_queue`'s loop: `free(temp->buf)`,
    then `free(temp)`. `FreeLast` is `free(start); free(q)`.

`create_queue_t` has no `return` statement. The model takes the value
the builds return, `t`, which is still in the return register.
`free_queue` never frees the last node's buffer, so every response that
queued a window leaks one buffer. In the model that buffer stays owned by
its thread. Both are listed as hazards. `LeakBounded` checks that the leak
is exactly this, and no worse.

### Properties

* `HeapSafe`: every list a thread is working on ends in NULL, and every
  block reachable from it (nodes and buffers) and the queue block belong
  to that thread. No block is freed twice or by another thread.
* `LeakBounded`: a thread that has finished a response (`idle`) owns
  only window buffers, at most one per response served. It owns no node,
  dummy or queue struct. So the memory a long-running thread loses grows
  by one window per response, and `free_queue` releases everything else.
* `QueueRefined`: the list implements `ChunkQueue`. The mapping takes
  the phase from `pc` (`read` is fill, `send` is send, `cache` is store).
  The items are the windows reachable from the dummy head, `delivered`
  is what the send loop sent, and `file` is what the cache file kept.
  `ChunkQueue` has no fairness, so its `Spec` is a safety property, and
  symmetry is sound.

### Runs

| Run | Expect | What it shows |
|---|---|---|
| `queue` | pass | Two threads, each handling two responses of up to two windows, over a heap of 16 blocks with immediate reuse of freed blocks. `TypeOK`, `HeapSafe`, `LeakBounded` and `QueueRefined` hold. 544,566 distinct states, under a minute. |

Mutants:

* `CreateNoNullNext` (`create_queue_t` without `t->next = NULL`) breaks
  `HeapSafe`. A node reused from the previous response still points into
  the freed list.
* `EnqueueNoEnd` (`enqueue` leaves `q->end` behind) breaks
  `QueueRefined`: the second window replaces the first.
* `SendChunkNoNextCheck` (the send loop steps without testing
  `chunk->next`) breaks `TypeOK`.
* `FreeLastNoFreeQ` (`free_queue` without `free(q)`) breaks
  `LeakBounded`: the idle thread still owns its queue struct.

Bounds. `MaxResponses = 2` makes every thread reuse the blocks it freed
for its first response. `MaxChunks = 2` gives a list with a middle node,
and so an `enqueue` after the end has moved. One response uses at most
6 blocks (queue, dummy, two nodes, two buffers) and the leak keeps at
most 2 per thread, so 16 blocks are never exhausted. Threads are
symmetric.

Fairness. Each thread has `WF_vars(Thread(t))`, as in Proxy. The run
checks no liveness, and fairness only rules out stopping early.

## 8. Not modelled

* A failing `malloc`. No result of `malloc` is checked (`parse.c` 25,
  28, 43, 111; `queue.c` 21), so under memory exhaustion the proxy
  dereferences NULL and crashes. ByteQueue's allocator always succeeds;
  `MaxAddr` is chosen large enough that it is never reached.
* glibc's size classes, the tcache count limit and the arenas. ByteQueue
  keeps one LIFO list of freed blocks per thread, for every size (see
  section 7).
* The missing `return` of `create_queue_t`. The model takes the `t` the
  builds return (see section 7). The leak of the last node's buffer in
  `free_queue` is modelled, and `LeakBounded` bounds it.
* Dead code. `read_to_after_empty_line` (`parse.c` 324) has no caller.
  `br_send_message` (`parse.c` 9-18) and the `client_sd >= 0` branches
  run only with a client socket, and `client_sd` is always -1. None of
  them changes the proxy's state.
* Content-Length and chunk-size values of ten or more digits. `CNumber`
  computes them, and its `ASSUME` checks them, but no run sends one
  (see section 3).
* The `FILE` of `read_filter_list`, which is never `fclose`d
  (`filter.c` 23). It holds one descriptor for the life of the process.
  `Proxy`'s `Open` does not count it, which amounts to `Stdio` being one
  larger.
* `Thread.h`, which is not in the repository. Its threads are taken as
  OS threads, each with weak fairness.
* The 400 response sent with the 404 length (two bytes short). This is
  a fixed string, which a unit test of `send_response` shows directly.
* Hosts longer than the 100-byte `lower[]` of `filter_host`, and the
  `banlist[100]` bound. The model's hosts and files are a few characters
  long.
* The over-ban of the filter: an empty line, or an fgets piece that is
  just the LF of a split line, gives an empty word that bans every
  host. It is listed as a hazard. `OriginOnlyForAllowed` checks only
  the direction that lets a banned host through.
* `getaddrinfo` for an unknown host, whose unchecked result is undefined
  behaviour that can crash the process. The model keeps only the
  failure answered by 500.
