# Formal models of the ComputerNetworks repository

TLA+ models of the programs under `src/`, the TLC configurations that check
them, and TLAPS proofs of the results that hold for every size. Paths below are
relative to `src/`.

## 1. The system

The repository holds four assignments that share no code.

| Component | Source | State | Operations | Hard because |
|---|---|---|---|---|
| mysocket connection | `Assignment3/src/mysock.c`, `mysock_api.c`, `stcp_api.c`, `network_io_socket.c`, `network_io_tcp.c` | per connection: three buffer queues, close, eof and blocking flags, two condition variables, an exit pipe, a TCP socket | `myconnect`, `mywrite`, `myread`, `myclose`; the `stcp_` calls of the transport layer; the receive thread | three threads share one context; broadcasts come after unlocks; joins wait for blocking calls |
| passive connections | `Assignment3/src/connection_demux.c`, `mysock_api.c` | listen queue (slots, completed list, length), read-write lock, condition, `new_socket` | `mylisten`, `myaccept`, `_mysock_enqueue_connection`, `_mysock_passive_connection_complete`, `_mysock_close_passive_socket` | a listener, one transport thread per connection and the application threads use two locks of different strength |
| transport skeleton | `Assignment3/src/transport.c` | `done`, initial sequence number | `transport_init`, `control_loop` | must use the library in the right order |
| file transfer programs | `Assignment3/src/client.c`, `server.c` | response line, bytes still expected, open file | request, response, transfer, close | the two must agree where a response ends while files change and connections break |
| HTTP proxy | `Assignment1/starter_code/proxy.c` | parent's socket, a worker per client with its buffer | accept, fork, recv, check, connect, relay | requests come in pieces; sockets are shared by parent and child |
| HTTP request parser | `Assignment1/starter_code/proxy_parse.c` | request line, growing header array, heap blocks | parse, set, remove, get, unparse, destroy | removed entries stay in the array; twelve error paths free different things |
| VNS session | `Assignment2/src/router/sr_vns_comm.c`, `sr_main.c`, `sr_if.c`; `pox_module/cs414/srhandler.py`, `ofhandler.py` | router: phase, interface list; server: clients, interfaces, port map | authentication, OPEN, HWINFO, packet broadcast | two server threads; packets overtake the negotiation |
| router: ARP cache | `Assignment2/src/router/sr_arpcache.c` | cache entries, request list | lookup, queue, insert, destroy, sweep thread | sweep thread against packet handler |
| router: forwarding | `Assignment2/src/router/sr_router.c`, `sr_rt.c` | interface and routing lists | `sr_handlepacket`, longest prefix match | unfinished, see section 7 |
| descriptor and hash table | `Assignment3/src/mysock.c`, `mysock_api.c`, `mysock_hash.h`, `connection_demux.c` | `global_ctx`, contexts with their sockets and threads, `listen_table` | `mysocket`, `mybind`, `mylisten`, `myconnect`, `myaccept`, `myclose`, `_mysock_new_mysocket` | no lock protects the table; the listener creates mysockets; descriptors, sockets and memory are used again |
| segments and checksums | `Assignment3/src/stcp_api.c`, `network_io_tcp.c`, `tcp_sum.c`; `Assignment2/src/router/sr_utils.c` | bytes under way | `stcp_network_send`, `_tcp_io`, `_network_recv_packet`, `_mysock_tcp_checksum`, `cksum` | partial reads and writes; byte order, odd lengths, carries; addresses from two sources |
| remaining parts | `Assignment0`, `sr_dumper.c`, `sha1.c`, `topo.py` | | | sequential, see section 7 |

The library's threads interact through the context's queues, flags and
conditions; the library and its transport layer through the calls of
`stcp_api.h`; the client and the server through a mysocket connection; the proxy's parent
and workers through inherited sockets; the router and the POX server through a TCP
connection that carries typed messages.

What makes each part correct:

- *connection*: bytes arrive once and in order in both directions; the close
  event comes once and last; no thread sleeps through its wake-up; the context
  outlives its users; calls return;
- *passive connections*: every completed connection is accepted once; no
  pointer into the queue is stale; the assertions hold; close ends;
- *descriptor table*: a mysocket, a socket and a block of memory have one owner
  each; descriptors that are used again lead to the right queue;
- *segments*: they arrive whole, and the checksum tells damaged ones apart;
- *file transfer*: a file taken for complete is the file; both sides end;
- *proxy*: a client gets one answer, its own, and its connection ends;
- *parser*: the array is a map; no memory error on any path;
- *session*: messages stay in step; a router becomes ready;
- *ARP cache*: the queue holds live requests only, and no thread uses a freed one; a
  waiting packet is sent once, to its next hop, or given up.

`PROJECT.json` lists the hazards behind these, each at its line.

## 2. Modules

| Module | Models | Composition |
|---|---|---|
| `BytePipe` | what one direction of a connection promises: bytes in order, end after the last | abstract specification |
| `MysockConn` | one active connection: application, transport and receive thread | refines `BytePipe` twice (`Down`, `Up`) |
| `MysockConnProofs` | theorems about `MysockConn` | extends it |
| `ConnectionDemux` | a listening mysocket with its listener, connections and acceptors | |
| `ConnectionDemuxProofs` | theorems about `ConnectionDemux` | extends it |
| `MysockTable` | all mysockets of a process: table, contexts, sockets, threads, `listen_table` | has `MysockConn`'s connections and `ConnectionDemux`'s queues as single steps |
| `MysockTableProofs` | theorems about `MysockTable` | extends it |
| `StcpSegment` | a segment's way from `stcp_network_send` to `stcp_network_recv`, with both checksums | below `MysockConn`, which takes whole packets for granted |
| `StcpSegmentProofs` | theorems about `StcpSegment` | extends it |
| `FileTransfer` | `client.c` and `server.c` over a connection with `BytePipe`'s contract that may also break | uses the contract of `MysockConn` |
| `HeaderMap` | what the header functions promise: a map | abstract specification |
| `ParsedRequest` | the request object and parser of `proxy_parse.c` | refines `HeaderMap` |
| `ParsedRequestProofs` | theorems about `ParsedRequest` | extends it |
| `HttpProxy` | parent, workers, clients, servers | uses the parser by its outcome |
| `HttpProxyProofs` | theorems about `HttpProxy` | extends it |
| `VnsSession` | routers and the two threads of the server | |
| `VnsSessionProofs` | theorems about `VnsSession` | extends it |
| `SrArpCache` | ARP cache, request queue, sweep thread and a packet handler | |
| `SrArpCacheProofs` | theorems about `SrArpCache` | extends it |
| `MC*` | small instances for TLC | extend their module |

The few lemmas on lists and least numbers that a proof module needs are stated
at its beginning, so that each of them stands alone.

A definition named `...` with the comment *mutant* is a faulty variant of the
definition after it. No specification uses one; it documents an error that the
listed property detects.

### MysockConn

`app`, `tr` and `rx` are the program counters of the three threads. A critical
section is one step; what follows the unlock is a step of its own
(`WriteBroadcast`, `UpBroadcast`, `RecvBroadcast`, `Signal`), and so is the
copy out of a partially dequeued buffer, which `_mysock_dequeue_buffer` makes
after it has released the lock (`ReadPartial`/`ReadCopy`,
`AppRecvPartial`/`AppRecvCopy`). Sleeping threads are sets of waiters,
spurious wake-ups included. A buffer is the interval of stream positions it
holds. `written`, `taken`, `sentUp` and `readUp` count bytes of each stream.
The transport layer is `transport.c` as committed (`"skeleton"`) or an STCP
(`"stcp"`) of the usual shape: it sends a SYN, waits for the answer or gives up, and
then serves the events of one `stcp_wait_for_event` after the other, application
data before network data, handing data up in the order it comes, until both sides
have closed. When it times out, how much it takes and for which flags it waits
is open. An STCP that calls `stcp_api.h` in another order, keeps segments for later
or resends them is not covered.

### ConnectionDemux

An attempt is a TCP connection to the listening port and names the mysocket
created for it. The read-write lock, the mutex and the condition are explicit.
`++cur_len` and `--cur_len` are a read and a write each, because no common lock
excludes them. An assertion that fails sets `failure` and stops the process.
Whether the table has room for a new mysocket is left open, since the rest of the
program uses it too (`MysockTable`).

### MysockTable

A context is a block of memory that may be handed out again, and its receive
thread has the block's name. Each entry that `_mysock_new_mysocket` looks at is a
step of its own, and so is the store into the one it found; `clashed` records
that the entry had been taken meanwhile. `open` holds the open sockets by the
lowest free number, as the kernel gives them out. A nested `myclose` of a queued
connection is a second context on the stack `cur`. An assertion that fails ends
the process; its condition is a guard of the step, and `AssertionsHold` says
of the assertions on descriptors and on `listen_table` that the condition holds
wherever the step is due. Two assertions are guards alone and cannot fail here:
`assert(local_port > 0)` (`connection_demux.c:319`; section 5 says how it fails)
and `assert(queue_entry)` (`connection_demux.c:200`), which `ConnectionDemux` models
with the length it depends on.

### StcpSegment

Bytes have `B` values and words `B * B`, an address is one word, and a header is
four bytes, two of them the sum; the carries behave as with 256 and 65536.
`host` holds the addresses of both hosts by name and as the peer sees them,
`little` their byte orders. `TcpWrite` and `TcpRead` move any number of bytes;
`Damage` changes one byte of a segment, `WriteFails` breaks the connection.

### FileTransfer

Characters are model values and a length is written in binary, so that a cut
length is another number. `Break` ends the connection with any prefix of what
is under way delivered. `Grow` and `Shrink` are other programs that write the
served file. `opened` is the file as announced, `stored` what the client
handed to `fwrite`. The server sends a file to its end as it is then, the client
reads as many bytes as were announced: `strayed` is the first request whose answer
was longer than announced, and a client that asks again after it is `Misplaced`, since it
reads the surplus as the beginning of the next response line.

### ParsedRequest

A request text is how its request line fares with the checks, and the lines after
it: header lines, the blank line, and what follows in the buffer, of which the last
line may lack its CRLF (`open`). Behind the colon of a line stand characters, with
or without the space, or nothing. A key is a sequence of names because the parser
looks for the colon in the rest of the text; the value starts two characters after
the colon, whatever they are, and runs to the next CRLF (`ValueHere`). `heap` is
the set of allocated blocks, so that a leak, a double free or a free of something
else is visible. `array` is `NULL` after a `realloc` that failed (`SetFails`): the key has
been removed by then, the doubled size stays, and the old array is lost.
`Crash` is a null pointer followed: to the CRLF that a value does not have, or to the lost
array. One step of `ParseHeader` is one header line.

### HttpProxy

A request is a sequence of bytes, with CR and LF apart, which arrives in pieces.
What the parser makes of a text (accepts, refuses, crashes) is computed from its
line ends and colons as in `ParsedRequest`, with the length the code passes it
(`ParsedText`). A server may speak, close or reset the connection at any time; a
`send` on a reset one fails or kills the worker with SIGPIPE (`SendFails`).
`holders[c]` are the processes that have the socket of client `c` open: the
client sees the end of the connection when there are none.

### VnsSession

Messages are whole (`sr_read_from_server_expect` reads until it has one).
The reactor's thread handles connections (`ReactorStep`), POX's thread
`RouterInfo`, interface by interface, and `Broadcast`, client by client.

### SrArpCache

A function of `sr_arpcache.c` that holds the lock throughout is one step
(`Lookup`, `Queue`, `Insert`, `Served`); the sweep is `SweepBegin`, one
`SweepRequest` per request and `SweepEnd`, with the lock held in between. The
packets of an answered request are sent one by one without the lock
(`SendWaiting`). Times are ages, capped where the code's comparisons stop telling
them apart, so that time needs no bound. A request is "sent" when the code counts it
as sent: the sending itself is a TODO (`sr_arpcache.c:58`), and only the counters
change. The sweep reads `curr->next` after it may have freed `curr`: the result is the
old successor, or `Wild` if the memory was handed out meanwhile, and nothing is
said of the router behind that. The packet handler is external: it uses the
cache as the comment of `sr_arpcache.h` says, except that it leaves the first
sending of a request to the sweep (section 5). The committed one is in section 7.

## 3. Runs

| Run | Instance | Shows |
|---|---|---|
| `MysockConn` | a write of 2 bytes taken byte by byte, packets of 2 bytes read byte by byte, two queued buffers, three packets, both transports | `StreamsInOrder`, `NoUseAfterFree`, `NoLostWakeup`, `SuccessMeansEstablished`; both directions are a `BytePipe`; `ConnectReturns`, `DataTaken`, `ReadReturns`, `CloseReturns` |
| `Demux` | two attempts, two slots, one acceptor, first packets that are no SYN, both transports | `EachCompletionQueuedOnce`, `PointersValid`, `CompletionAccepted` |
| `MysockTable` | a table of two entries, three blocks, one application thread, queues of one slot | `MysocketsOwned`, `SocketsOwned`, `ContextsAlive`, `AssertionsHold` |
| `StcpSegment` | bytes of two bits, payloads of 0, 1 and 3 bytes, two segments, six pairs of hosts, four pairs of byte orders | `SegmentsWhole`, `ChecksumExact`, `SumsAgree` |
| `DemuxNewSocket` | three attempts, one slot | **violated**: a dropped SYN leaves `new_socket` set, and the assertion on it fails |
| `DemuxLength` | two attempts, two slots | **violated**: a lost update of `cur_len` makes the length assertions fail |
| `DemuxClose` | two attempts | **violated**: `myclose` of a listening mysocket deadlocks with a completing connection |
| `FileTransfer` | two names (one of a single character), a file of 2 bytes that may become empty or grow by what reads like a response line, two requests, one change, buffers of 2 and 4 | `CompleteMeansWhole`, `TransferEnds` |
| `ParsedRequest` | two names, lines `name: v`, `name:v`, `name:` and `name`, texts of three lines with the blank one, arrays of 2 growing twice | `CapacityLeft`, `MemorySafe`, `ParsedKept`, `PrintedIsMap`, `ImplementsMap` |
| `HttpProxy` | two clients, requests of 6, 10 and 11 bytes and a line without GET, replies of two bytes | `RequestLineWhole`, `AnswerExplained`, `ClientReleased` |
| `VnsSession` | two routers with and without key and template, a fitting and an unfitting switch, one frame | `InStep`, `HwinfoWhole`, `SessionSettles` |
| `SrArpCache` | three packets for two next hops, a cache of two entries, entries of one second, three sends | `NoDanglingRequest`, `EachPacketOnce`, `SentToNextHop`, `GivesUpLate`, `QueueSettles` |

`MysockConn` and `ParsedRequest` also check their `TypeOK`, which their proofs
use. The other modules state no type invariant, since a value of a wrong type would
stop TLC at the operator that meets it; the proofs about them state and prove
one of their own. Deadlock is checked for the ARP cache, whose sweep thread never ends; the other programs may stop.

**Why the bounds suffice.** *MysockConn*: two bytes in one buffer with reads of one give a partial and a
whole dequeue; two buffers give an append while the head is being shrunk; three
packets are a handshake, data and a FIN. Empty writes, longer partial reads and
waits without `APP_DATA` are covered by the theorems, which put no bound on
lengths, flags or packets. *ConnectionDemux*: two attempts are both in the
queue, or the second takes the slot that the first has left; one acceptor is a
thread that accepts and later closes. *MysockTable*: with two
entries a listening mysocket and one connection fill the table, and the next
creation fails; with three blocks memory is used again; the application and one
listener are enough for two threads at the table. Nothing is explored behind a
state in which they clash (`NotClashed`): two mysockets then share a descriptor
and nothing can be said of either. *StcpSegment*: the second segment starts where
a wrong end of the first would show; sums of up to eight words carry over twice.
*FileTransfer*: with two requests the left-over of the first transfer meets the second
response, also where the left-over is the response line of an empty file or of one
longer than anything the server sends; a file of two bytes has a length of two digits,
which can be cut. The server's buffer of four makes it read past the announced
length in one piece and in two.
*ParsedRequest*: three lines are two headers and the blank line, so that one
can swallow or join the other, or a header, the blank line and a line behind it;
four entries take an array of two through both doublings, with
removed entries before and after each. *HttpProxy*: six bytes can be cut
between CR and LF of both line ends; in the request of ten bytes the parser sees,
according to the cut, no blank line, a line without a colon, or a colon with no line end
behind it; the one of eleven bytes asks the server to keep the connection. *VnsSession*: one frame at any moment
meets every phase of each router; interface lists of two can be seen half-built.
*SrArpCache*: two packets of one next hop share a request, the third needs a
second one, so that the sweep has a list to follow; two entries are enough for a full
cache and for two entries of one address; three sends have a first, a middle and
a last one (the code has five, and 15 seconds instead of one).

Properties with an exception say in their comment what the exception is. The
exceptions are behaviours of the code: a file that shrinks makes the client wait
for ever (`TransferEnds`), and after a file has grown while it was sent, the next
request of that connection may take the surplus for its response line, which may
announce anything (`Misplaced` in `CompleteMeansWhole` and `TransferEnds`); a request cut by
the proxy, or one that asks to keep the connection, makes the server wait
(`ClientReleased`); a header line has the form `name: value`, and no `realloc` has failed
(`ParsedKept`); the sweep has not taken a pointer from memory that was handed out
again (`Wild` in `NoDanglingRequest` and `QueueSettles`); the context of a connection that failed before `myaccept`
took it is never freed, and nothing holds after two threads took one table
entry (`MysocketsOwned`); a host reached under another address than its name has
fails the checksum assertion (`ChecksumExact`); five causes keep a router from being ready
(`SessionSettles`).

## 4. Fairness

Weak fairness is assumed of threads and processes only, which the operating
system schedules: the application, transport and receive thread inside a call
(`AppStep`, `TrStep`, `RxStep`); the listener, each connection's thread and each
acceptor; the file server and the client while it works on a response; the
proxy's parent and workers; each router, the reactor per connection, and POX's
thread inside an event; the ARP cache's sweep and its handler inside a call.
Seconds pass (`Tick`). Users, peers, other programs, hosts and switches need not
act, nothing need break, and no time-out need expire. The one assumption on the
outside is in `HttpProxy`: a web server that has received a complete request
answers it, and closes unless the request asks to keep the connection
(`ServerAnswers`).
`MysockTable` and `StcpSegment` check safety only and assume no fairness.

## 5. Findings

The three violated runs contradict a comment or an assertion of the source;
`PROJECT.json` quotes each. Modelling also met these differences, which have no
run of their own:

- `network_io_socket.c:260-262` says "the system call will be interrupted by the
  transport layer thread if we're to exit"; `_network_stop_recv_thread` only
  writes to the exit pipe, which is polled before the call. `myclose` therefore waits for
  the peer when the receive thread is inside `read` or `connect`, the exception
  of `CloseReturns`.
- `mysock.c:53`: two threads in `_mysock_new_mysocket` can take the same entry; the
  first mysocket is lost (`clashed` in `MysockTable`).
- `mysock_api.c:122`: `myaccept` returns -1 for a failed connection and keeps its
  descriptor to itself, so that nobody can close it.
- `mysock_api.c:41` sets `bound` before `bind` may fail; a `myconnect` after that
  uses no port, and a `mylisten` fails the assertion on `local_port`.
- `connection_demux.c:341`: a second `mylisten` with a longer backlog moves the
  array `completed_queue` points into and starts a second receive thread, while
  only the last one is joined.
- `tcp_sum.c:46` asserts `(packet & 2) == 0`, which tests for another alignment
  than that of 16-bit words and fails for an even address that is no multiple of 4.
- `network_io_socket.c:76` calls the local address "completely broken for multi-homed
  hosts"; `ChecksumExact` shows for which hosts the sums agree.
- `Assignment0/client.c` tests for a failed connection inside the loop over
  addresses, where the test is never true.
- `mysock_api.c:225`: `myread` with length 0 sets `eof`, which
  `mysock_impl.h:105` calls "true once peer finishes writing".
- `mysock.c:219` returns the length of the whole packet although fewer bytes
  may have been copied.
- `mysock.c:204`: `memcpy` between overlapping parts of one buffer.
- `stcp_api.c:78` gives the close event whatever flags were passed
  (`stcp_api.c:51-53`).
- `network_io_socket.c:270`: one peer that hangs up before its first packet ends
  the listening thread.
- `server.c:87` says "just keep accepting connections forever"; the loop around
  it is commented out and one connection is served.
- `client.c:152` treats a name of one character like an empty line.
- `server.c:229-249` sends a file to its end as it is then, `client.c:216-253` reads
  as many bytes as were announced: what a file grew by meanwhile is read as the
  beginning of the next response line (`client.c:171-199`) and can make that transfer
  complete with other contents, or wait for bytes nobody sends.
- `client.c:242-252` goes on after a failed `fwrite`; `errcnd` is set and never read.
- `proxy.c:38` says "check for \r\n\r\n"; `proxy.c:43` looks for one line end, and
  `proxy.c:140` sends as many bytes as the last `recv` returned. A request that
  arrives in pieces reaches the server without its end, which then waits for it
  (`Waits`, the exception of `ClientReleased`). `RequestLineWhole` says what remains
  true: the server never gets part of a request line.
- `proxy.c:140` sends the client's request line and headers as they came;
  `Assignment1/README.md:144-160` asks for a relative URL and the headers `Host` and
  `Connection: close`, which `proxy.c:74-80` sets in the parsed object only. A client's
  `Connection: keep-alive` therefore reaches the server, which does not close, and the
  worker stays in its relay loop (`Waits` again). No property says that the
  request is forwarded as the assignment asks, because it is not.
- `proxy.c:54` looks for GET in the whole buffer; `Assignment1/README.md:108` asks for
  501 for every other method.
- `proxy.c:141-153`: after a failed `send` the client is told 500, and the bytes
  the server may have sent before are relayed behind it. SIGPIPE, which nobody
  catches, may end the worker first, and the client gets nothing
  (`AnswerExplained` allows both, since the code does both).
- `proxy_parse.c:244` skips two characters after the colon whatever they are, so that a
  header `key:value`, the format of `proxy_parse.h:45-46`, is kept as `alue`;
  `ParsedKept` is about lines with the space that `Assignment1/README.md:126` shows.
- `proxy_parse.c:244-248`: a header with nothing behind its colon takes the next line
  for its value; a colon without a CRLF behind its value leaves `index2` at `NULL`
  and `memcpy` with a wild length. The colon may stand behind the blank line, in a body.
- `proxy_parse.c:250` ignores the result of `ParsedHeader_set`: after a failed
  `realloc` (`proxy_parse.c:47-52`) the parse goes on with `headers` at `NULL`.
- `sr_router.c:87` says "ensures the packet is ip or arp"; `packet_type`
  compares the type in host byte order, so that on a little-endian machine every
  ARP or IP frame fails the assertion.
- `srhandler.py:107` calls a method that does not exist, so a router started
  with `-T` waits for ever on a closed connection.
- `sr_arpcache.c:27` reads `curr->next` from the request that line 25 has just freed;
  `sr_arpcache.h:61-63` asks to save it before. The model reads it where the code
  does: with glibc the field is intact as long as the chunk waits in the sweep
  thread's own cache, and anything (`Wild`) once another thread has got it. The
  properties of the cache hold up to such a read.
- `sr_arpcache.c:24` destroys a request in the same sweep that counts its fifth
  sending, so that one would have no time to be answered, and the branch of
  `handle_arpreq` that should send ICMP messages is never reached from there. Neither
  the request (`sr_arpcache.c:58`) nor the messages are sent: both are TODOs.
- `sr_arpcache.c:240` speaks of a random entry to "kick out" when all are in use;
  `sr_arpcache_insert` then drops the mapping. It also adds a second entry for
  an address that has one, and `sr_arpcache_lookup` returns the last in the array, which
  may be the older.
- `sr_arpcache.h:18-19` calls `handle_arpreq(req)` on the result of
  `arpcache_queuereq`, after the lock was released: the sweep may have freed it.

## 6. Proofs

All results hold for every value of the constants that satisfies the named
assumptions, which TLC evaluates in the runs. `MysockConn`: lengths are
natural numbers, those of packets positive, and flags are event flags (`LensAssumption`,
`FlagsAssumption`). `ConnectionDemux`: there are finitely many slots, and threads
have different names (`DemuxAssumption`). `MysockTable`: the table has an entry,
backlogs are natural numbers, and threads, contexts, queues and the null pointer
are told apart (`TableAssumption`, `NULLAssumption`). `ParsedRequest`: the array starts
with at least two entries, no name is blank, and nothing that can stand behind a colon or be
stored as a value is the mark of a missing one
(`NHDRSAssumption`, `BlankAssumption`, `NoValueAssumption`, `MaxLinesAssumption`,
`UserKeysAssumption`). `StcpSegment`: bytes have at least two values; header and
payload are bytes and fit a packet together, as `stcp_network_send` asserts; `th_sum` is
at an even place inside the header; a packet's length is one word; and the sum of
all words fits the positive half of the `int` it is kept in (`BaseAssumption`,
`SegmentAssumption`). The last two hold for 256, a header of 20 bytes and packets
of 1500. `HttpProxy`: requests and the reply are sequences of bytes
(`RequestsAssumption`, `ReplyAssumption`). `VnsSession`: every switch has an
interface (`InterfacesAssumption`). `SrArpCache`: every packet has a next hop, every
host a hardware address, the sizes are positive, and the null pointer, the wild
pointer and the marks for a packet that was not sent are no requests and no addresses
(`HopAssumption`, `MacsAssumption`, `SizesAssumption`, `NULLAssumption`,
`FateAssumption`).

| Theorem | States | Rests on |
|---|---|---|
| `TypeCorrect` | `[]TypeOK` of `MysockConn` | `ControlInv` |
| `ContextFreedLast` | `[]NoUseAfterFree` | `ControlInv`, `Waiting` |
| `WakeupsNotLost` | `[]NoLostWakeup` | `ControlInv`, one lemma per sleeper |
| `ConnectSuccess` | `[]SuccessMeansEstablished` | `Reported` |
| `BytesInOrder` | `[]StreamsInOrder` | `ControlInv`, lemmas on append, tail and shrink |
| `DownIsPipe`, `UpIsPipe` | `Spec /\ CopiesWhole => DownPipe`, `UpPipe` | `PipeInv` |
| `RequestTypeCorrect`, `RoomForNext`, `RequestMemorySafe` | `[]TypeOK`, `[]CapacityLeft`, `[]MemorySafe` of `ParsedRequest` | `ObjectInv` |
| `ArrayIsMap` | `Spec => ImplementsMap` | `ObjectInv` |
| `PrintsTheMap` | `[]PrintedIsMap` | `ObjectInv`, `PrintedFacts` on the loop of `ParsedHeader_printHeaders` |
| `LinesKept` | `[]ParsedKept` | `KeptInv` |
| `SegmentsArriveWhole` | `[]SegmentsWhole` of `StcpSegment` | `StreamInv` |
| `ChecksumDecides` | `[]ChecksumExact` | `StreamInv`, `VerifyExact`, `DamageFound` |
| `ChecksumsAgree` | `[]SumsAgree` | `StreamInv`, `FoldIsOnes`, `CksumSumIsOnes` |
| `CompletionsQueuedOnce`, `PointersStayValid` | `[]EachCompletionQueuedOnce`, `[]PointersValid` of `ConnectionDemux` | `DemuxInv` |
| `SocketsHaveOwners` | `[]SocketsOwned` of `MysockTable` | `Base` |
| `ContextsStayAlive`, `MysocketsHaveOwners`, `AssertionsNeverFail` | `[]ContextsAlive`, `[]MysocketsOwned`, `[]AssertionsHold` of `MysockTable` | `TableInv` |
| `RequestLinesWhole`, `AnswersExplained` | `[]RequestLineWhole`, `[]AnswerExplained` of `HttpProxy` | `ProxyInv` |
| `SessionsInStep`, `InterfacesWhole` | `[]InStep`, `[]HwinfoWhole` of `VnsSession` | `SessionInv` |
| `RequestsNeverDangle`, `PacketsWaitOnce`, `PacketsToNextHop` | `[]NoDanglingRequest`, `[]EachPacketOnce`, `[]SentToNextHop` of `SrArpCache` | `CacheInv` |
| `RequestsGivenUpLate` | `Spec => GivesUpLate` (action property) | `CacheInv`, `Spaced` |

*Connection.* `TypeOK` alone is not inductive: the second half of a partial
dequeue takes the head of a queue it does not look at again. `ControlInv` adds
`QueuesReady` (a thread between the two halves, or with an event pending, has a
buffer to take, because only that thread removes from the queue) and `Joined`
(how far `myclose` is says which threads are gone). `Waiting` says that only a
thread in its wait loop is asleep. `NoLostWakeup` then goes
thread by thread: whatever makes a sleeper's condition true leaves the actor before its
broadcast. `Reported` links the unblocked flag and the errno to the transport's
success. For the refinement `PipeInv` adds that the close event is given once
and over an empty queue (`CloseOnce`), that a read in progress started before
end of file (`ReadOpen`), and that buffers are intact and, upwards, that an empty
one is the end mark (`GoodQueues`).

`CopiesWhole` is the price of the two pipe theorems: `memcpy` moves overlapping
bytes correctly, receive buffers hold a whole packet, and no read asks for 0
bytes. Section 5 says what the code does otherwise.

*Parser.* `CapacityLeft` needs `NHDRS >= 2` (it is 8 in the code). `ObjectInv`
adds that live keys are unique, without which removing one entry would leave a second
value, and that the allocated blocks are exactly those the object points to, which
makes every free valid and the last one complete. A set that fails has removed its
key, and the old array stays allocated with nothing pointing to it; `SetOrFailStep`
and `RemoveStep` carry the invariant over both outcomes, for the user's calls and
the parser's, and no step after a failed one frees anything of the array. `PrintsTheMap` follows the loop
of `ParsedHeader_printHeaders`: after any number of entries, what is printed are the
live ones among them, in their order (`PrintsLive`). For `LinesKept`, `LineKey` says
that a line with a colon is filed under its own name and one without a colon under
a longer key, so that it cannot take away a value. The value of a line `name: value` is
what `ValueHere` cuts out, whatever lines stand around it.

*Passive connections.* `EachCompletionQueuedOnce` says nothing of a connection
that is still shaking hands, of the slot the listener is about to fill, or of who
may touch the queue. `DemuxInv` adds these. `Locked` says who holds
`listen_lock`: the scan of `myclose` excludes everybody else, and the listener
has ended by then. `Fresh` says that a connection has no threads before the
listener has made its mysocket. `SlotsUsed` gives every connection with threads
exactly one slot until `myaccept` returns it, so that `complete` finds it; slots
are told apart by `Scanned`, because behind the scan contexts are freed while
their slots still name them. `Queued` says that the completed list holds the
slots of the completed connections, each once. The registers of the unprotected
`++cur_len` and `--cur_len` do not occur: the theorem holds whatever the races
make of the length. `SynPending` is what keeps the context alive to which the
listener appends the SYN with the connection's threads already running: an STCP
that has not had the SYN cannot have been established, and the skeleton's
thread never ends, so the application cannot have accepted and closed it.

*Descriptor table.* `Base` (types, `Receiving` and `SocketsOwned`) is inductive
by itself, so sockets are neither lost nor closed twice even after two threads
have taken one entry. The other three properties need `Ownership`, which is
inductive until that happens. Its parts say where a context can be found and by
whom. `Table`: an entry and the context it leads to name each other, and a
context outside the table is one that a thread is about to enter. `Exclusive`:
one thread at a time works on a context, and none works on one whose descriptor an
application thread holds, unless that thread is inside `myconnect` or `myaccept`
for it. `Calling`, `Stack` and `Listener` tell for each point of a call what its
contexts have reached: after the joins they are `Quiet`, and the receive thread
that holds `listen_lock` has an empty slot to fill. `Hashed` and `Owned` make the queues
of `listen_table` exactly those of listening mysockets, from `mylisten` until the
scan of `myclose` is through, so that a descriptor which is used again finds no
queue of its predecessor. `Slots`, `Completions` and `Transports` follow a passive
connection: while its slot waits (`Scanned` separates the slots that `myclose`
has been through) nobody else can get at it, each is in one slot, and a handshake
still finds the slot it will report to, or is the connection that the nested
`myclose` waits for. `Closable` is the claim itself, that somebody can close every
context. Most steps touch one context that belongs to the thread that takes the
step; `OneContextStep` proves them all at once, and the frame lemmas before it
carry the parts over for everybody else. The table is scanned entry by entry
without a lock, and none of this depends on what the scan saw: `Store` clashes
or finds the entry empty.

*Segments.* `SegmentsWhole` looks at what has arrived; the invariant has to say
where everything else is. `StreamInv` claims one stream of bytes, the lengths and
segments one after the other (`Layout`, `Frames`), of which the bytes read by the current
`_tcp_io`, the bytes in the connection and the bytes still to be written are, in
this order, the rest (`InOrder`), and that the current `_tcp_io` begins at the
length or at the segment whose turn it is (`Reading`). A write or a read moves a boundary
between neighbouring pieces, a complete one moves the beginning to the next part;
a broken connection loses the end of the stream only. A closed connection that has
nothing left cannot stand inside a segment, because the piece that was read is
shorter than what `_tcp_io` asked for.

The checksums are arithmetic modulo `W - 1`. `Ones` is the one's complement sum of a
number; `FoldIsOnes` says that two folds reach it for every sum below `W * W`, which
`TotalFacts` shows of every packet, and `CksumSumIsOnes` that the router's loop
ends with it for every number. Reading words in the other byte order
multiplies each of them by `B` modulo `W - 1`, since `B * B = W` leaves 1; hence
both hosts put the same two bytes on the wire (`SumWordsSwap`, `SwapOnes`,
`ChecksumBytes`), also for the odd byte, which is the first of its word.
A wrong byte changes the sum by less than `W - 1` and not by 0, so it is found
wherever it is (`OneByteChanged`, `DamageFound`); in `th_sum` itself it changes the
stored sum alone. For one host that talks to itself both sides exchange the
addresses, which the sum does not notice (`TotalExchanged`).

Loops over data (`SumWords`, `CksumLoop`, `ParsedHeader_printHeaders`) are recursive
functions, and statements about all of their values go by the least counterexample: the
set of numbers that do not satisfy one has no least element (`LeastNatural`,
`UpTo`).

*Proxy.* A worker shares no memory with another one, so the invariant is
`ClientInv` for each client, and `SameStep` carries it over the steps of the others.
It says how the counters of the receive loop bound each other (`Received`), that the
text which the last `recv` counts has a good request line once the parser has taken it
(`Checked`), that nothing is answered or forwarded before a server is connected
(`Untouched`, `Connected`), that what has been relayed is the beginning of the reply,
behind an error if the request was not sent (`Relayed`), and what a killed worker
leaves (`Killed`). `ForwardedFacts` is the step from the parser's `recd + 2` bytes, two
of which the proxy added, to the `recd` bytes of the `send`: a text whose
request line ends at its fourth byte and that has a blank line is at least
six bytes long, so the line is among those sent (`LineWhole`).

*Session.* `InStep` holds of a router that has not ended. To keep it, `SessionOf`
adds that the server knows every router it has written to and writes to
no other, that a request on its way excludes an answer on its way, and that the
hardware information goes to a router that has none yet. `ToRouter`, the type of
the messages, says that every `HWINFO` carries the whole list of one switch: POX's
thread replaces the list by assignment once it is complete (`Published`).

*ARP cache.* `Linked` makes the allocated requests exactly those in the queue
and the one the handler serves without the lock. `Disjoint` says that no packet is in
two lists and no address in two requests, so that unlinking or freeing a request
cannot lose a packet of another. `Announced` covers the cache, which is where
the address of a packet that does not wait comes from. `Spaced` relates the number
of sendings counted for a request to the time since the first. All of them hold
also where the sweep's next pointer is `Wild`: the module takes no further step of the
sweep there, so the theorems speak of the router up to that read.

**Only model-checked.** Liveness: the prover does not handle fairness.
`CompleteMeansWhole` of `FileTransfer`: it rests on `Number(Binary(n)) = n` for
lengths of any size, and on what is left of such a text when it is cut, which are
inductions over recursive functions and folds.

## 7. Not modelled

- `sr_handlepacket` beyond its assertion (`sr_router.c:87`), and with it packets
  from the router: no ARP or IP frame gets there on a little-endian machine, the only
  one `VnsSession` fits, and past it the code writes through uninitialised
  pointers. The ARP cache has no other user. What stands there (`sr_router.c:144-177`,
  `396-440`) uses the cache otherwise than `SrArpCache`'s handler: it inserts other
  arguments than the header prescribes, and it walks the requests and changes `sent` and
  `times_sent` without the lock (`sr_router.c:431-439`). The theorems about
  `SrArpCache` say nothing of it. The header's own call of `handle_arpreq` after
  `arpcache_queuereq` is left out too (section 5).
- `assert(!(fds[1].revents & POLLERR))` (`network_io_socket.c:247`): `Poll` of
  `MysockConn` takes an error of the socket for data to read.
- A packet between `srhandler.py:119`, which adds a client, and line 122, which sends
  it `AUTH_REQUEST`: `NewClient` of `VnsSession` is one step, so that a broadcast comes
  before both or after both.
- A second `mylisten` on one mysocket; segments longer than the receive buffer,
  which `stcp_network_send` refuses; `mygetsockname` and `mygetpeername`, which
  copy an address.
- `sr_rt.c` and the rest of `sr_router.c`, `sr_main.c`: reading a table from a
  file, arguments, printing.
- `fwrite` errors and `-q` in `client.c`: `stored` is what was handed to `fwrite`.
- In the proxy, `recv` returning -1 for a client that resets (`proxy.c:39-41`), buffers
  filled to `MAX_REQ_LEN` and the parser's check against it (`proxy_parse.c:365`, which
  answers 400 to 65534 bytes or more), failed `ParsedHeader_set` calls at
  `proxy.c:74-80`, and short `send`s. A failing `malloc` anywhere, except the `realloc` of
  the header array.
- Formatting, logging and printing, `sha1.c` and `sr_dumper.c`, static web
  pages and the Mininet topology: no state or nothing to interleave. `Assignment0`,
  two straight programs with one connection at a time.
- `VNSCLOSE`, `VNSBANNER` and `VNS_RTABLE`: the server never sends them.

## 8. Plan

Done: the mysocket library with its descriptor table and segments, its
applications, the proxy with its parser, the VNS session, the ARP cache. What
the code has beyond that is in section 7. Proved: all safety properties that hold, those of
`FileTransfer` excepted, and both refinements. Left:

1. The part of `CompleteMeansWhole` of `FileTransfer` that needs no induction over
   data: the place of the client in the stream of responses while nothing has grown.
2. The router's packet handler, once `sr_router.c` gets past its assertion.
