# DNS over QUIC: specifications and proofs

This directory holds TLA+ specifications of the program in this repository: a
pair of proxies that carry DNS queries over QUIC, written as changes to the
picoquic demonstration program, and the test programs that come with it.

A stub resolver sends its queries to the **client** proxy. The client puts each
query on streams of one QUIC connection to the **server** proxy. The server
forwards the query to a DNS resolver on the same host and sends the response
back on the stream; the client cuts the response out of the QUIC packet and
relays it to the stub.

## 1. Inventory

### Components, their state and their operations

| Component | Source | State | Operations |
|---|---|---|---|
| Server loop | `picoquicfirst/picoquicdemo.c` 419-1006, `quic_server` | sockets (`fd2`/`global_fd` to the resolver), `cnx_server`, the last datagram (`buffer`) | select; hand a datagram to the engine; forward 80 bytes of every datagram to the resolver; let the engine send |
| Server stream callback | 174-411, `first_server_callback` | a context per connection, a context per stream: `status`, `command`, `command_length`, `response_length` | data, FIN, reset, stop sending, close; blocks in `recvfrom` for a response |
| Client loop | 1296-1690, `quic_client` | `ret`, `client_receive_loop`, `established`, `buffer_final` | select; hand a datagram to the engine; relay a response to the stub; start the scenario with a query; let the engine send |
| Client callback and scenario | 1014-1292 | list of stream contexts, `nb_open_streams`, the table `test_scenario` | open the streams that follow one; data, FIN, reset, stop sending, close |
| Demo `main` | 1692-1908, with `getopt.c` | `optind`, the scanning pointer, the settings | scan an option, apply it, take name and port, choose client or server |
| Simulated link | `picoquictest/sim_link.c` | `queue_time`, a queue of packets, counters, a rotating loss pattern | submit, dequeue, next arrival |
| Simulated connection | `picoquictest/tls_api_test.c` 24-1000 | a clock, two endpoints, two links, the table of streams with what was received of each | a round of the simulation (send, or take what arrives); loops to connect, to send data, to close; the stream callback of both endpoints |
| Test runner | `picoquic_t/picoquic_t.c` | table of tests, exclusions, count of failures | exclude, run all tests, run named tests |
| Tests of received numbers | `picoquictest/sacktest.c` | the numbers seen, the expected frames, the ranges | record a packet number and ask again for all, parse an ack frame and compare, record ranges |
| Other unit tests | other files of `picoquictest/` | - | one function per test |
| UDP relay | `test.c` | two sockets, the address of the last sender | forward a datagram to the resolver and wait for the answer |
| Stub | `myServer.c` | a socket | print what it receives |
| QUIC engine | picoquic and picotls, not in `src/` except for object files | connections, streams, timers | called by both loops; calls both callbacks |

### How they interact

* Each proxy is one thread. A loop waits in `picoquic_select`, passes what it
  received to `picoquic_incoming_packet`, and the engine calls the stream
  callback *synchronously*, any number of times, before it returns.
* The server's callback and its loop share the socket to the resolver through
  the global `global_fd`: the loop sends on it, the callback receives on it and
  blocks. Both run in the same thread, so while the callback waits nothing is
  forwarded and no other connection is served.
* The client has one socket for two peers. A datagram is the server's if the value of its source port
  in memory is 20753, that is port 4433 in network order (1484); anything else is a query of the stub, also what a
  server at another port sends, the default 4443 included. Both go
  through the engine first. The callback and the loop share `buffer_final`.
* Two simulated links share one loss pattern when a test passes one pointer to
  both. The clock belongs to the test.
* The two proxies know nothing of each other's state. What a stream carries is `buffer_final` of the
  client when the stream is opened; what it gets is the head of the server's queue of responses when
  its request is complete. Nothing but the order of that queue relates the two, and QUIC puts in order only what the
  callbacks are given: the loop forwards datagrams as UDP brings them, so a query sent again is asked again.
* A scenario shares one table of streams between the callbacks of both
  endpoints, which run one after the other in the process of the test.

### What is hard

* **Blocking inside a callback.** The server waits for a response before the
  loop forwards the datagram that completed the query.
* **Nothing relates a response to a request.** The id of the DNS message is not
  looked at: streams and connections share one receive queue, and every
  datagram, acknowledgements and retransmissions included, is forwarded as it comes.
* **A buffer that is never cleared.** What a short datagram leaves of an earlier one is forwarded again by the
  server, and scanned again for a response by the client.
* **Order of events of the engine.** Data after FIN, a reset after an answer, a
  second FIN, contexts freed by a close and created again by a later event.
* **One table for many queries.** Each query of the stub starts the whole
  scenario, on stream ids that may be in use or finished.
* **Counts kept on many paths.** `nb_open_streams` goes up on one path of
  opening and down on three of closing, with failures of `malloc` and `fopen`
  between them.
* **Starvation.** The client sends only if nothing comes in, or at its batch limit.
* **A clock that may go back**, a queue bound and a rotating pattern in the link.
* **Two queues and one clock.** A round of the simulation moves the clock before it looks for
  arrivals and after it has sent, so that a packet may be due before "now".
* **An end that is guessed.** The loop that sends data ends when any stream without followers is
  finished and nothing is unacknowledged, whatever has not been sent yet.
* **Oracles that repeat calls.** `sacktest` records again, while it asks, what it has recorded: a
  wrong state may be repaired before anything looks at it.
* **Options that advance `optind`** on their own, in a command line whose end is a NULL.

`PROJECT.json` lists the hazards, each at its line and with the properties that
would catch it going wrong.

### What makes each component correct

* Server: a stream gets at most one answer, which is a positive response to a
  forwarded query that answers nobody else; the command fits its buffer; a
  finished stream stays finished.
* Client: the count of open streams is right; a stream carries the first query it
  was given; followers are opened once and after FIN; what is hidden by a newer context stays open.
* Path of a query: a stream gets the response to the query it carries, unless a datagram sent again has made one
  too many; the server waits in vain for named reasons only; unless it does, what a stream has taken comes back to
  the stub; and packets that keep coming do not keep the client from sending.
* Link: packets keep their order, losses follow the pattern, and the queue bound
  bounds the delay.
* Simulated connection: of two links the earlier packet is taken first, so the clock does not go
  back; the loop that gives up for inactivity gives up nothing that is under way; no endpoint
  sleeps past its wake time; a stream that follows another is opened when that one is over; a
  correct engine is never reported as faulty; what the loop leaves unfinished when it breaks had
  not been sent.
* Tests of received numbers: an engine without fault passes, one wrong call is noticed, and no wrong frame
  is taken for the right one.
* Test runner: without names all tests run but the excluded ones, with names none but these (not all of them, against
  the help: see Findings), and the exit code tells a failure.
* Demo `main`: the settings do not depend on how the options are spelled, joined and ordered, and
  no word behind the last one is read.

## 2. Modules

| Module | What it is |
|---|---|
| `DnsQuicServer` | the server: loop and callback |
| `DnsExchange` | what the server promises, abstractly: numbered exchanges, each given to at most one stream |
| `DnsQuicServerProofs` | proofs about the server, refinement of `DnsExchange` included |
| `MCDnsQuicServer` | instances of the server for TLC |
| `DnsQuicClient` | the client: loop, callback and scenario |
| `MCDnsQuicClient` | instances of the client |
| `DnsOverQuic`, `MCDnsOverQuic` | stub, client, connection, server and resolver together: the client extended, the server an instance; its instances |
| `DnsOverQuicProofs` | proofs about the client, and about the whole path, where the theorems about both ends are used |
| `SimLink` | one simulated link |
| `SimLinkTest`, `MCSimLinkTest` | `sim_link_one_test`: the link and the test's loop around it; its instance |
| `SimLinkProofs` | proof that a link keeps the order of its packets, whoever calls it; lemmas on submitting, dequeuing and the loss pattern |
| `SimLinkTestProofs` | proofs about the test of the link, for any pattern, delay, latency and number of packets |
| `TlsApiRound`, `MCTlsApiRound` | the simulated network: two instances of `SimLink`, one clock, an engine at each end; its instance |
| `TlsApiRoundProofs` | proofs about the two links, the clock, the loops and the losses |
| `TlsApiScenario`, `MCTlsApiScenario` | the scenarios of streams over such a network; its tables |
| `StreamTable` | what the callbacks of both endpoints promise, abstractly: the end of a stream opens its followers |
| `TlsApiScenarioProofs` | proofs for any table of streams, refinement of `StreamTable` included |
| `SackTest` | the tests of received packet numbers and ack frames |
| `PicoquicT`, `MCPicoquicT` | the test runner; its instance |
| `PicoquicCtProofs` | proofs about `picoquic_ct`, that is `PicoquicT` and `SackTest`, which it runs |
| `DemoMain`, `MCDemoMain`, `DemoMainProofs` | `main` of picoquicdemo with `getopt`; its instance; proofs |

Operators marked "faulty" are variants of the definition that follows them with a
plausible mistake. No specification uses them; a property is worth keeping only
if replacing the definition by its faulty variant violates it, and
`PROJECT.json` ("mutants") says which variant violates which property.

### DnsQuicServer and the code

`pc` is where the thread is: `select` (505-610), `deliver` (the engine has the
datagram and calls back, 611-621 and 242-411), `wait` (the `while(1)` around
`recvfrom`, 336-376), `forward` (738-913), `send` (915-989), `exit`.

* A request is a sequence of chunks, one per stream frame; the first holds the DNS
  query, the last carries FIN. What matters of the bytes: which query, how many,
  whether a CR or LF is among them, and the offset in the datagram at which
  the data starts.
* `buffer` is which query lies in the receive buffer, and where. A datagram overwrites it, unless it is so short
  that it ends before the query (`Received`). `Extract` (738-768) cuts the query out of the buffer, from 26 or from 30.
* The engine is external. `recvd`, `delivered`, `cnx_state`, `reset_sent` and `sent` are what
  the program relies on of it: stream data is delivered once and in order, and
  nothing is delivered on a closed connection.
* `Callback(x)` is one call of `first_server_callback` with data: one disjunct per
  way out of it. `Store` ends in `pc = "wait"` when the request is complete (318-338).
  `RecvTimeout`, `RecvOther`, `RecvResponse` are the passes of the blocking loop.
* `Forward` sends for *every* datagram, query or not. `Resolve` and `Drop` are the
  resolver and the path to it. What is no query may draw an error, which comes at once: `recvfrom` reads and forgets it
  whenever it comes.
* `forwarded`, `answer` are histories: what was sent to the resolver, which response each
  stream got. They carry the properties and the refinement.

### DnsQuicClient and the code

`pc`: `select` (1446-1475), `engine` (1476 and the callback 1192-1286), `start` (inside
`demo_client_start_streams`, 1177-1190, called from the callback or from the loop),
`relay` (1482-1519), `batch` (1521-1548), `send` (1548-1626), `exit` (1556-1558).

* `streams` is the list of contexts, newest last; `Found` is the search from
  `first_stream`. A context is (id, has a file, query of `buffer_final` at that time).
* `Scenario` and `Previous` are the table `test_scenario`; stream ids start at 4.
* `IsServerPort` is the comparison of 1484, `NetworkOrder` what makes 20753 of port 4433. With a server at another port
  `StartScenario` takes what the server sends for a query: `Foreign`, which is not a DNS message, overwrites `buffer_final`
  and starts the scenario.
* A packet holds a DNS message or none. What the scan of 1488 finds beyond the datagram's own bytes is of an earlier
  packet, which was scanned when it came; a response relayed twice goes to the stub twice and changes no state.
* A file that cannot be opened does not keep the query from being sent (`OpenWithoutFile`, 1151-1171).
* `ret` is 0 or an error. It is *not* reset at the head of the loop, only by the
  engine accepting a packet, so an error stops all sending until then (1602).
* `queued`, `sent`, `rx`, `reset_sent` are the engine. A query needs two packets (`StreamPackets`): `buffer_final`
  has 1536 bytes.

### DnsOverQuic and the code

The client's actions are those of `DnsQuicClient`, the server's those of an instance of `DnsQuicServer` for one
connection; each step is one of either side, or hands something from one to the other.

* `DataArrives`: a datagram with stream data the client's engine has transmitted is in the server's socket when it
  selects, in any order, and again (`repeats`); the callback is given the data in order and once, which is the engine's
  part (`Deliverable`), while the loop forwards what came. `NoiseArrives`: one without stream data, which
  may be too short to overwrite a query in `buffer`.
* `BufferFinal`: a stream is given 1536 bytes of `buffer_final`, the query and what earlier datagrams left behind it. Any of
  its packets may hold CR or LF (`LineEnds`), and so end the request (333).
* `AnswerArrives` and `OtherArrives` are the same at the client. An answer is two packets, in any order and again: the DNS
  message in the first, FIN in the second. `ResetArrives`: the server has reset the stream before its answer was sent. For FIN
  and reset the engine calls back (`StreamEnds`) before it returns.
* A stream carries one query for good (`FirstQueryIsKept`), so the server's streams are pairs of a stream and its
  query. What the client may write (`Written`) and send (`Datagrams`) gives the server's constants their values; that the server's
  assumptions hold of them is proved, and is evaluated in the runs.
* `Offset` says where the data may begin in the packet with the head of a query. `Extract` finds a query at 26, and one
  at 30 if it is short and the high byte of its id is not zero. The resolver may refuse a query, err on what is none, and
  datagrams to and from it may be lost.
* Left out: closing, failures, stop sending, several clients. Each has its run on one side; end to end closing or a failure
  ends what can be asked of the path.

### SimLink, SimLinkTest and the code

One action per call of `picoquictest_sim_link_submit` and `_dequeue`; `NextArrival` is the
third call. `loss_mask` is the word the pointer points to, last bit first. The
time of a call is any value: nothing in `sim_link.c` makes it grow. `SimLinkTest` is
the test's loop around it: the head of the loop sets the clock (`Tick`), and then a packet
arrives, departs, or the loop ends.

### TlsApiRound and the code

`tls_api_one_sim_round` (654-801 of `tls_api_test.c`) has two halves, and so has a round here. In
the first (`half = "send"`) the server's stateless packets, the client and the server are asked, in
that order, for a packet; one packet ends the round. If there is none (`SendNothing`) the clock
goes 5 ms on and the second half takes the packet that arrives next on either link (`ArriveClient`,
`ArriveServer`), or moves the clock to the earlier wake time (`ArriveNothing`).

* `c_to_s` and `s_to_c` are instances of `SimLink`; `loss_mask` is one word for both, to which
  both links of the code hold a pointer, and `attached` are the links whose pointer is not NULL.
* `Connecting` and `Closing` are the guards of `tls_api_connection_loop` and of the loop of
  `tls_api_attempt_to_close`; `Close` is what lies between them: `picoquic_close`, and the pointers of both
  links are set to NULL, each by an assignment of its own (886, 887; `Detached`). `Crash` is the access to a server connection that does not exist.
* The engine is external: a call moves the state of its connection on or not, may fail, and says
  when it wants to be woken. Nothing else is known of it, so the properties hold for any engine.

### TlsApiScenario and the code

`Scenario` is the table of a test (`test_scenario_*`), `q_sent`, `received`, `recv_nb` what
`test_stream[i]` holds of it. `Event` is a call of `test_api_callback` with data, FIN or a reset:
`test_api_receive_stream_data` and its checks, the response of the other end, `test_api_queue_initial_queries`
for the streams that follow, and `test_finished`. `StopEvent` answers STOP_SENDING with a reset.
`Check` is the end of a pass of `tls_api_data_sending_loop`. `LoopAgain` and `StopSending` are
`stop_sending_test` around it, whose limit of 64 loops is taken to be enough.

* Which stream a packet carries a piece of, when it is sent, lost or repeated, is the engine's
  choice. The backlog (`BacklogEmpty`) is, as in the engine, what is sent and not acknowledged: data that
  has not been sent at all does not count.
* `Limit` is one of the two limits of the loop (rounds, and rounds without activity), at any time.

### SackTest and the code

`test` is one of `sacktest`, `sendacktest`, `ackrange_test`; `i` and `j` are its loops, the tables are the code's. The engine's
list is the set of numbers it holds; of the ranges only the first numbers of the pieces they are cut into matter.

* `Call` is a call that changes or asks the list; in `Erring` it gives the wrong answer, loses a number
  or takes up one too many. `PrepareAck` makes the frame for what the list holds, `FrameOf`: the ranges without a gap, from
  the highest (`Tops`, `Top`, `Bottom`). Fields of it may then be wrong (`Edited`).
* `Accepts` is `basic_ack_parse` with its unsigned counters and `ack_range_mask`, which folds numbers onto
  64 bits, with what `sendacktest` compares. `Parsed` is what its loop over the blocks has read at the end.
* `ErrorsAreFound` is about single errors. Two may cancel: a number lost in one call and taken up in a later one leaves the
  list as it should be.

### PicoquicT and the code

Options, then either all tests (`RunAll`) or names (`RunNamed`), with `getopt` taken as having put the
options first. `NoMemory`: the table of exclusions cannot be allocated, and `main` returns -1 without running a test (174-178). A test is a number and an outcome, chosen freely. `Listed` is what `usage` prints. The state of `main` is `stage`,
where it is, and `main_ret`, its `ret`: names apart from those of the tests it runs, so that the two can be proved about together.

### DemoMain and the code

A word is plain, or a dash with letters, an option that takes an argument, and an argument attached. `place` is the
static pointer of `getopt.c` into the word; `FlagOption`, `MissingArgument`, `ArgumentOption` are a
return of `getopt` and the case of the switch it leads to; `Start` is 1824-1908 up to the call of
`quic_server` or `quic_client`. `Wants` and `Reads` are the words an option checks for and takes beyond its argument. Numbers and
versions are tables from words, so that every word may be valid or not for each use of it.

## 3. Runs

| Run | Question | Bounds |
|---|---|---|
| `server_any` | What holds whatever the network, the clients and failures do? Does the server implement `DnsExchange`? | 2 connections, 2 streams; one request with LF in its head, one too long by its last byte, one of a single packet; 3 datagrams out of data, double frames, reset, stop, close, empty, too short to overwrite a query, stray; 1 failure; lossy resolver path |
| `server_reset` | Is a stream reset only "after fin, or too many bytes"? No: see Findings | 1 connection, 2 streams, 5 datagrams |
| `client_any` | What holds for any events, with a failure and a stream of the server? | the server at port 4433 or 4443; 2 queries, 2 streams of the scenario and 1 of the server, batch 1, 1 failure |
| `end_to_end` | When may a stream get the response to another query, when does the server wait in vain? Otherwise, does every query taken come back and end its stream; does the client get to send? | 2 queries of the stub, one at offset 30, one with a zero id at 26 whose bytes hold CR or LF when the second stream carries it; a stream and its follower; batch 0; 1 packet without data, 1 datagram with data again; lossy resolver path; fairness |
| `sim_link_test` | Does the loop of the test lose what the pattern says, keep the order, bound the delay? | the test's own 16 packets, 250 us apart; 35 patterns; bounds of 0, 2 and 5.5 packets; 2 latencies |
| `round` | Are packets of two links taken in time and in order, for any engine; do the links share the losses, is closing without any; does silence mean that nothing is under way, may an endpoint oversleep, when is the server's connection missing? | 1 size of packet at the test's rate and latency; 3 patterns; wakes at once or after 25 ms; 5 rounds to connect, 2 to close, 2 of inactivity; 1 stateless packet |
| `scenario_all` | Does the callback accept a correct engine, what does the loop leave unfinished, and do the callbacks implement `StreamTable`? | 4 tables of 2 or 3 streams of 1 or 2 pieces, one of them stopped; 1 loss, 1 repetition |
| `scenario_live` | Does the loop end without its limits? | 1 table of 2 unidirectional streams; 1 loss, fairness |
| `sack` | Do the tests accept an engine without fault, notice one that errs, refuse every wrong frame? | the tables of the code; 2 calls that err; 2 wrong fields in a frame |
| `runner_all` | Which tests run, and does the exit code tell? | 6 tests, 1 unknown name, 2 options, 2 names; the table of exclusions may be missing |
| `runner_help` | Do all named tests run that are not excluded, as the help says? No: see Findings | the same |
| `demo_main` | Does the program start with what the command line means? | 2 options in each spelling, or 3 joined; after them 0, 1 or 2 names; 4 words that are a name, a port and mtu, a port beyond the mtu, a version; besides, lines of 3 words of any kind |

Why the bounds are enough for what is asked.

* The server handles one datagram at a time and its only memory across datagrams is the stream
  contexts, the socket queue and the engine. Three datagrams let a request be answered early,
  continue, and be met by another connection's; five reach the reset of an answered stream. Two connections are the least in which a response can
  go astray, since streams of one connection behave alike; two streams serve for interleaving.
* The client's second query is the first that meets a context of the same stream; a third meets
  nothing new. A batch of 1 reaches the limit with two packets. Failures: any single one, at any place.
* On the whole path two queries and two streams are the least in which a response can go to the wrong stream, and in which
  the stub asks again while the first query is under way or its follower still to be opened. One repeated datagram makes the
  surplus response that misleads a stream: that each stream gets the response to its own query is *violated* in this instance
  (the first query's packet comes twice, its second response answers the follower, which carries the second query), so
  `OwnOrRepeated` is not true for want of such a case; likewise the server starves here for a query
  in the packet at hand and for a lost one. No query is placed where `Extract` misses it, so that the run would notice an `Extract` that does. `OwnOrRepeated`
  and `StarvesForCause` are proved for any number of streams, queries, repetitions and packets without data. The resolver sends no errors
  for what is no query in this run, which only saves states: they are read and forgotten, and the proofs allow them. The run has 216 thousand states.
* `sacktest` and `ackrange_test` have no inputs but the engine's answers; two errors at any calls of any kind are the least
  that can cancel. Frames: two wrong fields are the least with which blocks can be shifted, merged or split.
* Patterns of 5 bits are gone through three times by 16 packets, which the 64 bits of the
  real word are not.
* A round of the simulation has no memory but the links and the clock. With five rounds both links hold
  packets at once, in both orders of arrival; 25 ms is more than the 5 ms of an idle round and the
  latency of 10 ms, so an endpoint may be woken before, between and after arrivals. The limits are those of the code, made small,
  so that they are reached with and without packets under way.
* Two pieces are the least of which one can be unsent while another is acknowledged. The
  tables have each relation the code distinguishes: streams side by side, one after another, without response, opened
  by the server, stopped. One loss and one repetition let an acknowledgement be lost and data arrive
  twice.
* The tests' outcomes are free; six tests are one more than the first that `usage` skips. Three words on a command line have every pair of
  neighbours, and the longest option takes three words.

All counters that the code does not bound are bounded by a constant in a guard:
`MaxPackets`, `MaxFail` (server), `MaxQueries`, `MaxFail` (client), `MaxSubmits` (link on its own),
`MaxNoise`, `MaxRepeats` (path), `MaxErrors`, `MaxEdits` (tests of numbers),
`MaxStateless` (round), `MaxLosses`, `MaxRepeats` (scenario), `MaxOptions`, `MaxNames` (runner).

Deadlock is checked in all runs but `sim_link_test`, where the test ends; elsewhere a state without
steps would be an error, and the states in which a program has ended have a stuttering action.

### Fairness

* Path: weak fairness of the client's thread, its select included (`ClientPath`, `ClientSelects`), and of the server's (`ServerSteps`): both
  run nothing else, and their system calls return (`recvfrom` has a timeout of 3 s, select one, too); weak fairness of the
  resolver for what has reached it and is not lost (`Resolves`). Strong fairness of `SomethingNew`: the handshake packet, a packet without data, which stands for an
  acknowledgement, stream data the other side does not have, sending such data, an answer or a reset. It is strong since a datagram stays in the socket's
  queue, or is sent again by the engine, until the loop selects, but the loop is not always selecting. There is a bounded number of such
  things, so all of them come across; nothing is assumed of their order, of how often they are repeated, or of the timeout of select,
  so packets may keep coming. Datagrams to and from the resolver may be lost: the code does not repeat a query, and a
  lost one may block the server for good, so `CarriedIsRelayed` excepts a server that is `Starved`, and a stream that the server
  has reset. When it may starve is what `StarvesForCause` says.
* Scenario: weak fairness of the loop and of the callbacks, which are the test's own thread; strong
  fairness, at each endpoint, of sending what is new, of repeating what is lost, of acknowledging, and of arrivals. The
  rounds of the code ask both endpoints every time and take arrivals when neither sends; that an engine does not put off for
  ever what it may send is what the test expects of it.

## 4. Proofs

Proved by TLAPS for all values of the constants allowed by the ASSUMEs.

| Theorem | States | Argument |
|---|---|---|
| `TypeCorrect` | types of the server | inductive as it stands |
| `CommandStaysInBuffer` | `CommandFits` | inductive with the type invariant; the guard `TooLong` |
| `ResponsesUsedOnce`, `AnswersAreForwarded` | `ResponseUsedOnce`, `AnswersAreResponses` | `ResponseInv`: a number is forwarded once and not later than `received` (`ForwardedInv`); what is in the socket queue is, one by one, a response to a forwarded datagram that is no longer under way (`QueueInv`); what answers a stream is no longer in the queue nor under way (`AnswerInv`). Without the part about the queue the step of `RecvResponse` does not go through |
| `AnsweredOnce` | `AnsweredAtMostOnce` | `OnceInv`: an answered stream is finished, or its connection is closed and delivers nothing more; a stream that waits has no answer |
| `FinishedForGood` | `FinishedIsFinal` | action property from the guards of each step |
| `ServerImplementsExchange` | `ImplementsExchange` | `forwarded` and `answer` implement `asked` and `given`; a step is `Ask` (Forward), `Give` (RecvResponse) or a stutter, from the invariants above |
| `ClientTypeCorrect`, `CountedStreams` | types, `OpenStreamsCounted` | together: `nb_open_streams` stays a natural number only because it is the number of open contexts; lemmas on what appending, closing and clearing do to the set of open contexts |
| `BatchIsKept` | `BatchKept` | the counter before `batch` is at most one more, unless there is an error |
| `FirstQueryIsKept` | `FirstQueryKept` | `FirstInv`: besides, a stream that the client has reset, or that holds data, has a context or belongs to the server |
| `HiddenIsLost` | `HiddenStaysOpen` | the search finds the newest context |
| `FollowersOnceAfterFin` | `FollowersAfterFin` | `FollowInv`: while the loop over the table runs for stream s, s has ended by FIN, and entries from `i` on that follow s have no context yet; if a stream is not ended, no follower has one |
| `LinkKeepsOrder` | `ArrivalsOrdered` | inductive with the types: each accepted packet takes at least a microsecond, so `queue_time` grows whatever the time of the call |
| `TestTypeCorrect` | `TestTypeOK` | `TestInv`: with each packet the queue of the link grows by no more than the interval and a packet's transmission, so that all arrivals are before `Forever`, and the last round of the test finds the link empty only when all packets have been sent |
| `LossesAreThePattern` | `LossesFollowPattern` | `LossInv`: what has been received, then what is in the link, are in the order of sending, and together the packets sent that the pattern does not name; the mask is the pattern rotated by the number sent, so its lowest bit speaks of the next packet |
| `DelaysAreBounded` | `DelayBounded` | from the types and the test of `sim_link_submit` for each packet it accepts |
| `PathIsBoth`, `PathImplementsExchange` | the path's specification implies the client's, and the server's with the path's streams and packets; hence the path implements `DnsExchange`, however datagrams come | the assumptions of the server hold of `Written` and `Datagrams`; each step of the path is one of either side. The limit on the client's sends (`CountInv`) gives the type of the packets |
| `StarvesOnlyForCause` | `StarvesForCause` of the path, for any scenario, datagrams and repetitions | `SideInv`: what the server has of a stream and of queries comes from the client's streams (`SourceInv`); a stream has begun only when its head was received, what is due to the callback belongs to the packet at hand, and so does the stream that waits (`HandInv`); if each query is where `Extract` looks for it, the heads received are no more than the datagrams with a query that were forwarded, but for the one at hand (`HeadsInv`). Suppose no response is lost or under way: every query forwarded has then answered a stream, a different one each (`ResponseInv`, as an injection), all of which have a head; the stream that waits has a head and no answer. So there would be one head more than datagrams forwarded, and it must be in the packet at hand |
| `AnswersAreOwn` | `OwnOrRepeated`, if `FanScenario`: one stream without a previous one, which all others follow, as in the program's table | `CarryInv`: followers are opened in one pass over the table, after the end of the root, and all carry one query; the root ends after its answer. `RootInv`: the root is answered before there is another query than its own. So an answer to another query than the stream's own is one to the root's query on a follower, and the root has one, too; a response is used once (`ResponseUsedOnce`), so there were two |
| `RoundsOnTime`, `LinksKeepOrder`, `ClockGoesOn` | `NothingLate`, `LinksOrdered`, `ClockNeverBack`, for any engine, size, rate, latency and pattern | `ClockInv`: types, the order of both links, and, before the first stateless packet, no packet due before the time of the round. The order is needed because the step that takes the first packet of a link must know that those behind it are not due earlier; and that the other link has nothing earlier is the comparison of `ClientFirst`. Submitting and taking a packet are lemmas about a link, cited for each of the two |
| `RoundTypeCorrect`, `CrashesNeedLimit` | types, `CrashNeedsLimit` | `LoopInv`: the limits of the counters, and that the loop of the connection is left, without a server connection, only at a limit |
| `NobodyOversleeps` | `NoOversleep` | an action property of `ArriveNothing`: the time it goes to is not above either wake time that counts |
| `ClosesWithoutLoss` | `CloseLossless`, if links drop nothing for delay (`DelayMax = 0`) | `CloseInv`: from `pc = "close"` on no link is attached, and neither has a bound for its delay; `StepLoses`: a link drops a packet only if it is attached to the pattern, for each step of either link. That each of the two is detached is needed: with one left the step of `Close` does not go through |
| `PatternIsShared` | `PatternShared`, if `DelayMax = 0` | `PatternInv`: the shared word is the pattern rotated by the number of packets sent on both links, and the packets dropped are counted by the set of numbers below it that the pattern names; a lemma about remainders says that rotating by one more is rotating again |
| `QuietIsEmpty` | `QuietMeansEmpty`, if `LongSilence` | `QuietInv`: an inactive round moves the clock on by 10 ms at least, but never past a packet under way, and the queue of a link is ahead of the clock by no more than the packets of all rounds so far, 100 ms of a stateless packet included. So the rounds that lead to the limit reach any packet there is before |
| `ScenarioTypeCorrect`, `NothingIsRefused` | types, `NothingRefused` of `TlsApiScenario`, for any table | together, `TableInv`: an endpoint has been given queries of opened streams and responses to ended queries only (`QueueInv`); what has arrived was sent, and what was sent was given (`TransportInv`); a response ends after its query, with all of its data (`ReceiptInv`); a stream is open exactly if the one it follows is over (`OpenedInv`). The errors of the callback need all four: `CallbackEffect` says what a call does when it finds none |
| `CallbacksImplementTable` | `ImplementsTable` | `q_sent`, `Over` and `test_finished` implement the abstract table: a call of either callback that sees a stream end is `StreamEnds`, every other step a stutter (`CallbackEndsStream`). That the ended stream had not ended before, and that none of its followers had been opened, is `TableInv` |
| `BreakLeavesUnsent` | `BreakLeavesOnlyUnsent` | `LateInv` besides: what a stream is waited for has been given to the engine (`GivenInv`), and outside of the callbacks nothing that has arrived is left to be delivered (`SettledInv`). With both backlogs empty what is missing has then not been sent |
| `BreaksComplete` | `BreakIsComplete` | `ChainInv`: in a chain the streams before an opened one are over, and `test_finished` is set by the end of the last |
| `RunnerTypeCorrect`, `ExitTells` | types, `ExitTellsFailure` of `PicoquicT` | together: `main_ret` is not 0 exactly if `failed` is positive or there was no memory |
| `RunsWhatIsAsked` | `RunsAsAsked`: without names the tests not excluded, once and in order; with names no others than these | `AskedInv`: the options looked at so far determine the exclusions, `next` the tests tried, and a test tried for a name is the one of that name |
| `SackTypeCorrect` | types of `SackTest` | `SackWhere`: which loop each test is in |
| `OnlyRightFramesPass` | `AcceptedIsRight`, for any number of errors and wrong fields | `AcceptedFrame`, for every frame there is: what is parsed without an error are runs of numbers that descend (`ReadAsRuns`, `RunsDescend`), which the mask covers; as the mask is that of the numbers that have arrived, all below 64, the runs cover these numbers (`MaskTellsFrame`). They might still be adjacent or empty, so the number of blocks is needed: a set cut into as many runs as it has ranges without a gap is cut into just these (`RunsAreSpans`, by counting their ends). `Rows` has the ranges after each of the 21 arrivals and what the table expects of them |
| `FaultlessEnginePasses`, `SingleErrorsAreFound` | `FaultlessPasses`, `ErrorsAreFound`, for any number of errors and wrong fields | `Faultless`: without an error the list is what is due, and `highest_seen` is its highest; the frame for it is accepted (`FrameIsAccepted`), each number and each range has something new when it comes (`NumberIsNew`, `RangeIsNew`), and all together are one item (`AllArrived`, `AllRanges`). `OneError`: after one error the list of `sacktest` and `sendacktest` differs from what is due, and no further right call makes it equal, as the numbers are all different; sets that differ have frames that differ (`FrameTells`), so the frame is not the one accepted |
| `MainTypeCorrect`, `ReadsOnlyWords` | types, `NoReadBeyond` of `DemoMain` | `LineInv`: `place` is what is left of a word, `optind` at most two beyond `argc`, and the seed and the connection id are words. `Wants` covers `Reads` |
| `StartsAsGiven` | `StartsAsMeant`, for any options and, behind them, names a user may mean, but for `-v` or `-l` as the last option without names (`LastIsRefused`) | `MeansInv`: while the options are read, `getopt` stands behind the first k items (`At`), the settings are those they mean (`Sets`), and none of them leads to the usage (`IsFine`). A line is built item by item, so the line of all items continues each line before it (`LineContinues`, by induction over the items); hence each item stands in it as it was spelled (`ItemInLine`), and a return of `getopt` is the next item, whether joined, attached or not (`FlagMoves`, `ArgumentMoves`). That later options override earlier ones is `LastAdds` |

`AnsweredAtMostOnce`, `AnswersAreResponses` and `ResponseUsedOnce` are not in a run of their own:
`ImplementsExchange`, which `server_any` checks, implies them.

The assumptions are those the modules name. Some are worth a word: values that stand for nothing (`None`) are no
connection, word or state; a row of the table of streams names an earlier row or none, as all tables of
`tls_api_test.c` do (`TableAssumption`); `DelayMax = 0` is how all tests but those of a congested link call the loops.

`LongSilence` says that the rounds without a packet after which the connection loop gives up take longer than what the links can hold:
512 rounds of 10 ms in the code are 5.12 s, while 1024 packets of less than 1.3 ms, the latency of 10 ms and the 100 ms of a stateless packet are less than 1.5 s.
The run has small limits instead, and small links. `SimLinkTest` assumes that `Forever`, the time at which the test drains the link, is later than any arrival,
as the code's (uint64_t)-1 is.

Only model-checked: everything under fairness (`CarriedIsRelayed`, `KeepsSending`, `LoopEnds`), since the prover does not
handle ENABLED. Every other property of a run that passes is proved, some under the assumptions above.
Where a proof needs induction (`LinesExist`, `LinesAre`, `LineContinues`; `Climb` and what cites it) it takes the least number
without the property, which the library's fact that < is well-founded gives (`WFMin`).

## 5. Findings

* `server_reset`: a DNS name with a label of length 10 or 13 contains the byte LF or CR; the
  server then answers the request before its FIN, and the rest of the same request resets
  the stream. The comment at line 311 names two causes of a reset only.
* `runner_help`: the help of `picoquic_ct` promises `[test1 [test2 ..[testN]]]` (134-136) and of `-x` "Do not run the specified
  test" (147). With names on the command line the first known one is run, excluded or not, and then the loop ends
  (`picoquic_t.c:232`). `RunsAsAsked` holds of what the code does: no test runs that was not named.

Seen while modelling; the models do what the code does, and no run is about these:

* Packets that the engine rejects are not limited by the client's batch, since the limit is tested
  under `ret == 0` (`picoquicdemo.c:1548`).
* Sending a stateless packet moves the simulated clock 100 ms on (`tls_api_test.c:671`), past arrivals
  that are then taken with the clock going back; hence `made = 0` in two properties of `TlsApiRound`.
* The help of `picoquic_ct` omits every fifth name of a test.
* A query sent again by the engine is forwarded again, and its second response answers whatever stream completes next
  (`OwnOrRepeated`). A query that comes late, in the packet that completes its request, or that `Extract` does
  not find where it begins, leaves the server waiting in its callback (`StarvesForCause`); the same
  happens when the resolver's response is lost.
* The client recognises the server by port 4433 only (`picoquicdemo.c:1484`), while the default port of both is 4443 (102).
* `ackrange_test` notices wrong answers only: its last range, 501 to 7500, covers what the round before may have lost or
  taken up, so `ErrorsAreFound` asks no more of it.
* `picoquicdemo`: `-v` and `-l` with their argument as the last words lead to the usage, though the usage itself has "-v version" (1700) and
  "-l file" (1702). The usage line has `[server_name [port]]` before the options (1685), while `getopt.c` stops at the first name, so that
  options behind it are ignored. `-s` takes the same word for both halves of the seed; `-t` eats the next word.
  `StartsAsMeant` is about the lines on which usage and code agree: names come last (`Given`), and `LastIsRefused` and the seed are excepted.

## 6. What is not modelled, and why

* The QUIC engine, picotls and the DNS resolver: not in this repository's sources. They
  appear as the environment, as little constrained as the program lets them be.
* Bytes and offsets inside packets, log output, files: abstracted to what the properties need.
  Reading outside `buffer` near its ends (1488) is listed as a hazard only. Datagrams of 27 to 29, 31 and 32 bytes (`Size`), which overwrite
  a part of the transaction id of a query in the server's buffer, so that a query with some other id is forwarded, are left out.
* `test.c` is one thread that forwards one datagram at a time and waits for its answer; its
  hazard, bytes of an earlier datagram sent again, is listed; neither proxy uses it. `myServer.c` and `port.c` have no state.
* On the whole path: connections that close, failures, stop sending, several clients. They are in the models of the two sides.
* That responses are matched to requests: the program does not, and so nothing stronger than `OwnOrRepeated` holds end to end.
* The bit operations of `parse_target_version` and of the connection-id callback of the demo: a version is a
  table of words, a connection id what the words were.
* The other tests of `picoquictest`: tests of functions of the engine (ack of ack, stream 0, hash table,
  tickets, connection contexts) and tables of test vectors. They are sequences of calls with expected results; what they verify
  is not in these sources, and unlike the tests of `sacktest.c` they keep no state of their own in which an error could hide.
* After line 1260 of `tls_api_test.c` single tests check what the engine negotiated (versions, resumption, retry, key rotation). They are
  runs of the loops that `TlsApiRound` and `TlsApiScenario` model, followed by comparisons of fields of the engine.
* `UnitTest1`, `CMakeFiles`, `Makefile`, `Report`, `certs`, `ci`: wrappers, build products, project files, data.

## 7. Plan

1. (done) `DnsQuicServer`, its abstract specification, proofs.
2. (done) `DnsQuicClient`, proofs.
3. (done) `SimLink`, `SimLinkTest`, proof of the order.
4. (done) `TlsApiRound`, composing two links; proof of the clock.
5. (done) `TlsApiScenario`, `PicoquicT`, `DemoMain`.
6. (done) `DnsOverQuic`: both proxies and the resolver over datagrams that come late, repeated and out of order; `OwnOrRepeated` and
   `StarvesForCause` end to end, proved for any number of streams.
7. (done) `SackTest`, the tests of received numbers with errors of the engine.
8. (done) Proofs of `TlsApiRound`, `PicoquicT` and `DemoMain`.
9. (done) Proofs of `TlsApiScenario`, for every table of streams, with `StreamTable`.
10. (done) Proofs of `SimLinkTest`, of the silence of `TlsApiRound`, and that `DemoMain` starts with what any line means.
11. (done) Proofs of `SackTest`, with those of the runner in `PicoquicCtProofs`.
12. On the whole path: several clients that share the server's queue of responses, and closing.
