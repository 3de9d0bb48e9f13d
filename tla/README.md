# Isolation login server: TLA+ models, checks and proofs

The program under `src/src/` is a C++ login server. Clients connect over TCP,
register accounts, log in, ask for their player data and log out; all
persistent state is in Redis. This directory holds TLA+ models of it, the TLC
configurations that check them on small instances, and TLAPS proofs for every
instance. `PROJECT.json` maps every definition to the lines it models.

    tlc -config AuthLocks.cfg MCAuthServer       # a run
    tlapm AuthSessionProofs.tla                  # a module of proofs

## 1. Inventory

| Component | State | Operations | Model |
|-|-|-|-|
| `Server` | `_connectedClients`, `_connMtx`; the Redis keys `client:{token}`, `id:{id}`, `logined:{id}` | `AddClient`, `RemoveClient`, the four `HandleRequest…`, `LogoutClient`, the disconnect handler | `AuthServer`, `LoginRegistry` |
| `RedisService` | none of its own; Redis holds hashes | `Exists`, `Del`, `HashGet`, `HashSet`, `HashDel`, `Scan`, `Persist` | `Redis` |
| `main` | io threads, work guard, signal set | clean-up of old keys, start of the threads, shutdown, join | `AuthServer` |
| `Acceptor`, `TokenPool64`, `ClientSocket` (set-up, reads, tear-down) | handler maps with a mutex each, the set of used tokens | accept, `Init`, `Set…Handler`, `HandlePacket`, `HandleError`, `Stop`, destructor | `ClientLifecycle` |
| `ClientSocket` (responses) | `_writeBufferQueue`, `_writeBufferMtx`, a strand | `PostWrite`, `WriteAsync`, the completion handler | `ResponseWriter` |
| `ClientSocket::ReadAsync` (bytes), `util` (header) | `_recvBuffer` | one read and its header and length test, header encoding | `ReadFraming` |
| `sha256` | `m_block`, `m_len`, `m_tot_len` | `init`, `update`, `final`, `transform` | `Sha256Padding` (an injective `sha256` in `AuthServer`) |
| `LobbyManager`, `Session` (`deprecated/`) | `_emptySessions`, `_sessions`, the cached list, three mutexes, a timer; the Redis keys `session:{token}`, `session:{token}:clients`, `client:{token}` | enter and leave the lobby, create, enter, list, `JOINCODE`, the rewrite of the list | `Lobby`, `SessionDirectory` |
| `Room`, `TestAsyncServer` (`deprecated/`) | rooms of clients; an older accept loop | | not modelled (section 5) |
| protobuf messages, tests, deployment | | | not modelled |

How they interact. `main` scans for the keys `client:*` and `logined:*` a former
process left and deletes what the scans return, starts `hardware_concurrency()/2` io threads (at least one) and
arms the acceptor. Each accepted socket draws a token and goes through
`Server::AddClient` under `_connMtx`: it enters the map, its reads start, its
key is written, its handlers are registered. From then on the reads of one
connection are chained: the next one is issued when the handler of the last
one returns, so a connection runs one handler at a time while handlers of
different connections run on different io threads and meet in Redis. There is
no lock or transaction around the calls of one handler. A handler answers with
`PostWrite`; the completion handlers of the writes run on the socket's strand,
possibly at the same time as the next `PostWrite`. A read that fails runs the
disconnect handler: log out, close, remove.

The lobby in `deprecated/` is not built today; it is the part of the program a
login used to lead to. It uses the same sockets, threads and Redis. A client
enters the lobby, one creates a session, whose two keys expire after three
minutes, and enters it as its host, which makes the keys stay; the host's
`JOINCODE` activates the session; a timer rewrites the list of activated
sessions that clients ask for; guests enter.

What is hard, and what would make each part correct:

* *check, then act, over several Redis calls* (`Server.cpp:159-173, 225-239,
  354-372`): one session per account, one registration per id, no lock without
  an owner;
* *death between two calls* (an exception in an io thread is caught by nobody;
  the container restarts the process, `docker-compose.yml:28`): no key that
  later code dereferences may lack a field, and nothing may stay locked;
* *a clean-up that sees only a part* (`redisService.cpp:93-107`): what the keys it
  leaves can do to the next process's clients;
* *two locks in opposite order* (`_connMtx`, `_disconnectHandlerMtx`): no cycle;
* *reads that start before the handlers are registered* (`Server.cpp:44`);
* *two writers of one queue* (`ClientSocket.cpp:93, 223`): no response is lost,
  doubled, mixed with another or left waiting;
* *reads that do not end where packets do* (`ClientSocket.cpp:42-59`): what is
  handled is a packet that was sent, whatever came before it;
* *the last block of a digest* (`sha256.cpp:83-107`): no byte is lost, read twice
  or left over where a piece or the padding meets the end of a block;
* *keys that expire between two calls* (`session.cpp:226-313`), *locks held across
  Redis calls* (`lobbyManager.cpp:154, 365`), *a timer that arms itself*
  (`lobbyManager.cpp:209`): an activated session is complete for ever, is listed,
  and full means full for everybody who enters, and nobody waits for ever.

`PROJECT.json` lists these hazards line by line with the properties that cover
them.

## 2. The modules

**`Redis`** has the commands as operators on tables of hashes. A hash is a
function from field names to values or `NoValue`; a key exists exactly when a
field has a value, as in Redis, where deleting the last field deletes the key.
`Scan` is `RedisService::Scan` as it is: the cursor is passed to `scan()` by value,
the next cursor is what `scan()` returns, and line 99 drops it. The loop ends after
the first page. A page counts entries of the whole database, the accounts `id:*`
among them, so what it holds of one pattern may be all, some or none: any subset.

**`AuthServer`** is the core: `Server`'s handlers over `Redis`, and the life of
the process. `pc[t]` is the next Redis call of the handler connection `t` runs;
each call is one action (`RegExists`, `LogSetToken`, `OutDel`, …) and what
follows it up to the next call or the response belongs to the same action.
`req[t]` holds the handler's local variables. `Begin` is an io thread taking a
completed read; at most `IoThreads` handlers run at once. `answered` is who got a
`PostWrite` since its last request. `Crash` and `Exit` lose the memory and keep
Redis; `Boot` is the start: both scans, then the deletion of what they returned,
before any io thread runs. Nothing in the model keeps a client from a second
login, the process from dying, or handlers from overlapping.

Six variables are history; no step reads them. They record what the code does not
prevent, so that a property can say what holds otherwise, and what it costs:
`staleClient` and `staleLogined` are the keys the last clean-up did not see,
`forked` the ids a registration looked up between the lookup and the first write
of another, `contended` the ids whose lock one login looked up between the lookup
and the write of another, `overwritten` the ids whose client logged in with
another one, `interrupted` the ids whose registration a process left half written.
All but the last are forgotten when the process ends.

Abstractions:

* a profile stands for a registration's password, nickname and colour at once;
  a login presents a profile's password. `sha256` is injective and distinct from
  its argument; times are one value, since nothing compares them;
* what a response says is left out; that there is one is not;
* the member `_loginKey` of `ClientSocket` is left out: it is written and never
  read;
* a new connection's token is one Redis has no key for. The generator is seeded
  anew in each process and draws from 2^64 numbers: that it hits a number a former
  process has left a key for is taken to be impossible. Within a process tokens are
  used again once their key is gone;
* a request that does not parse, or fails the length tests, is `RejectRequest`:
  it makes no call on Redis;
* `AddClient` is one step. `ClientLifecycle` has its parts, and its
  `KeysFollowSockets` shows that no handler runs before the key is written;
* dereferencing an empty optional (`DatColor`) either answers with whatever is
  there or ends the process.

**`LoginRegistry`** is what the server promises: an id is registered once, with
one password; whoever presents it holds the account's only session until it
ends or the registry restarts. The promise is withdrawn id by id and visibly:
`Fork` and `Contend` mark an id for which two registrations, or two logins,
overlap, and only a marked id may be registered twice or have two sessions.
`AuthServer!Registry` is the refinement mapping: the account is the digest in
`id:{id}`, the session is the `loginId` of the connection, and the marks are the
variables of the same names.

**`ResponseWriter`** is the write path of one socket. `poster` is the handler
between the two halves of `PostWrite`, `strand` the completion handler between
its pop, its look at the queue and its `WriteAsync`; each is one critical
section of `_writeBufferMtx`. `concurrency`, chosen at the start, is the number
of io threads. `writes` are the `async_write` operations under
way; asio sends each in `Chunks` pieces, which mix when there are two.
`async_write` does not own the buffer: one the queue has dropped may be read
after it is freed, and then sends its old bytes or anything. The variables
marked history record what the peer has received.

**`ClientLifecycle`** is one socket's life with the two locks. `accept` is where
the accept handler is in `AddClient`; `reader[t]` where `t`'s chain of reads is.
A mutex taken and given up within one call is not shown. `concurrency` is the
number of io threads, as in `ResponseWriter`. `unheard` is history: the sockets
whose read failed when no disconnect handler was registered.

**`ReadFraming`** is what one connection's reads make of its bytes. The peer
sends packets, `ReadSome(n)` is one completion of `async_read_some` with any
number of bytes, and `header` is the part of `_recvBuffer` the tests look at: it
keeps old bytes, and at first whatever `new char[]` left. `stream` is what the
peer has written, and `sent` where each packet starts in it. A word has four
bytes; `Base` is how many values a byte has. A payload is any bytes: it may hold
"prot", or a whole packet, which the server handles when a read begins and ends
with it. What is then handled is not what was sent, but it is what was read, and
that is what the property says. `Accepts` is the test, `append_prot_packet` the encoding.

**`Sha256Padding`** is `SHA256` down to which bytes make up which block. A byte of
the message is a value of its own. `Update` is `update()`, including the part
that digests straight from the argument, `Final` is `final()`.

**`Lobby`** has one action per call on Redis that another handler, the timer or
an expiry may come between. `pc[c]` says where the handler of client `c` is and
for which session. `sessionKey` and `clientsKey` are the two keys, `clientsTtl`
and the state `"volatile"` their time to live; `ExpireSession` and
`ExpireClients` may happen at any moment, in the order in which the expiries
were set. `holder` is whoever has `_sessionsMtx`: an entry holds it together with
`_emptySessionsMtx` until its answer is sent, the timer together with
`_RSLCacheMtx`; the other handlers take one or two of them within one step and
wait while they are held. An exception nobody catches ends the process (`up`).
Undefined behaviour is a choice: a `hostToken` that has expired since it was found
(`session.cpp:235`) makes `stoull` throw or is any number. Which index a client
knows is not modelled: it may ask for any session, one that does not exist
included.

**`SessionDirectory`** is what the lobby promises: a session waits for its host
until it lapses for good or, once the host was let in, is activated for good; the
list has activated sessions only and never loses one. It says nothing of guests,
because the code lets them in before the activation it announces
(`lobby_early_guest`). `Lobby!Directory` is the refinement mapping.

`MC…` modules instantiate these for TLC. In each module a section *Slips* holds
what an action would be after a plausible mistake; they document which property
catches it and no specification uses them.

## 3. Runs

| Run | Instance | Checks | Distinct states |
|-|-|-|-|
| `auth_locks` | 2 tokens, 2 ids, 1 profile, 2 threads | `TypeOK`, `ClientKeyTracksConnection`, `SingleLoginUnlessContended`, `SessionLocked`, `LockExplained`, `DisconnectReleasesLogin` | 2,008,406 |
| `auth_accounts` | 2 tokens, 1 id, 2 profiles, 2 threads, fairness | `PasswordPresent`, `AccountTornOnlyByEnd`, `ImplementsRegistry`, `RequestAnswered` | 249,769 |
| `writer` | 4 responses in 2 pieces, 1 or 2 threads, fairness | `TypeOK`, `NoneSkipped`, `NoStall`, `InOrderUnlessReissued`, `Drains` | 142,526 |
| `lifecycle` | 3 tokens, 4 packet types, 1 to 3 threads, fairness | `TypeOK`, `KeptIsServed`, `NoLockCycle`, `KeysFollowSockets`, `DisconnectCompletes`, `AddClientCompletes` | 9,030 |
| `framing_reads` | 2 packets with payloads of 0, 1 and 13 bytes, the longest of which holds a packet, bytes of 8 values, reads of 7 lengths up to 25 bytes | `TypeOK`, `WholePackets` | 1,322,880 |
| `sha256_padding` | blocks of 64 bytes, messages of up to 200 bytes in pieces around the block size | `TypeOK`, `DigestsPaddedMessage`, `NothingLost` | 484 |
| `lobby` | 3 clients, 1 session for 1 client and its extra place, 2 threads, fairness | `TypeOK`, `ActiveKeysPersist`, `NeverTorn`, `ListedHasHost`, `CacheCountMatches`, `FullTakesNobody`, `ImplementsDirectory`, `LocksGivenBack`, `ActivatedGetsListed` | 270,013 |
| `auth_double_login` | 2 tokens, 2 threads | `SingleLogin` **fails** | |
| `auth_stale_lock` | 2 tokens, 2 ids, 1 thread | `LockHasOwner` **fails** | |
| `framing_short` | as `framing_reads` | `NoneInsufficient` **fails** | |
| `lobby_over_limit` | 3 clients, 1 session for 2 | `WithinLimit` **fails** | |
| `lobby_early_guest` | 2 clients, 1 session for 2 | `GuestsAfterActivation` **fails** | |

Bounds. The account hazards need two connections on one account, which is also
what two threads can run at once. `auth_locks` has a second id for the client that
changes accounts; tokens, ids and profiles are interchangeable there and TLC uses
the symmetry. `auth_accounts` has a second profile for the wrong password and the
overwritten one; it checks liveness and a refinement, without symmetry. Crashes,
shutdowns and starts are not bounded in number, and every start may miss any of
the keys. The writer needs three responses for a dropped one (one being written
twice, one popped unwritten) and has four; two pieces are enough for two writes to
mix. In `framing_reads` the reads end inside each of the header's words, with the header,
in a payload and in the next packet, one payload is a byte and then a packet, so
that a read may begin and end with the packet in it, the total
lengths need their second byte, and the buffer begins with zeros or with the
header of an old packet. `sha256_padding` uses the real block size;
200 bytes are three blocks and the piece after them, in pieces that end before,
at and after the places where the padding changes. In `lobby` a session may have
two members (the limit of 1 and one more, see `lobby_over_limit`), so three
clients are needed to race for the last place; with one session the handlers still share all locks
with the timer, and what they leave to chance is when that session expires.

The runs of `AuthServer` check for deadlock. `ResponseWriter` may stop once all
responses are out, `ClientLifecycle` when the acceptor has failed and everybody
has left, `ReadFraming` when the connection ends, `Sha256Padding` after `final`
and `Lobby` when the process has died, so their runs do not; stuck handlers are
what their liveness properties are about.

Fairness. Weak fairness of a running handler, of the completion handlers and of
`main` says that io threads go on executing what they have begun; the code has
no wait in a handler but Redis, whose failure is an exception (`Crash`).
`RemoveClient` in `ClientLifecycle` is strongly fair because it waits for a mutex
that `AddClient` takes again and again; `std::mutex` promises no more than that
somebody gets it, so this is the assumption that a waiting thread is not starved
for ever. Nothing is assumed about peers, signals, crashes or the acceptor,
except in `Drains`, where the peer of a connection that stays up goes on reading.
In `Lobby` a handler goes on while no lock keeps it waiting, and the timer's
handler gets a thread and the locks if they are free again and again (strong
fairness); that a waiting client is not starved is not assumed.

What the failing runs show (each quoted in `PROJECT.json`):

1. *Two logins to one account.* `src/README.md:139` calls `logined:{id}` a
   prevention of duplicate logins. With two io threads two connections both find
   it missing (`Server.cpp:225`) before either writes it (238). On the documented
   EC2 type, t3.small with two virtual CPUs, there is one io thread, and there
   the property holds; it is proved for one thread (`OneThreadOneLogin`).
2. *A lock without an owner.* The clean-up of the start sees one page of the keys
   (`redisService.cpp:99`). A client is logged in when the process dies, its
   `logined:{id}` is not in the page, and the account is locked for everybody until
   a later start happens to see the key; `src/README.md:136` says that the key
   names a real client. A client that logs in to a second account and leaves
   (`Server.cpp:237`) locks the first one without any restart. `LockExplained` says
   that there is no third way.
3. *A packet of negative length.* A read that ends inside the length word of its
   header is completed with bytes an earlier packet left in the buffer. It can so
   pass the test that is to drop insufficient data (`ClientSocket.cpp:52-54`), and
   its handler is called with a length below zero.
4. *A member too many.* A session takes `maxClientCount + 1` members: line 341 of
   `session.cpp` has a `>` where line 176, "the largest number of clients that can
   enter", asks for `>=`. What does hold is `FullTakesNobody`: with the code's own
   notion of full, no two entries race for a place.
5. *A guest before the activation.* The comment at `session.cpp:244` says that the
   host's join code is what lets clients in. A guest that names the index enters a
   session that still waits for its host (`lobbyManager.cpp:368`), even before the
   host has entered, since `CreateSession` makes the host a member (190).

Also seen while modelling. A crash during a registration leaves an account that has
a password, so one can log in to it, and lacks the rest; no start completes it, and
the id cannot be registered again. `AccountTornOnlyByEnd` says that this takes a
process that ended in the middle. With two threads a registration can overwrite the
password of another for the same id (`Server.cpp:159-171`); `LoginRegistry!Fork` is
where the promise gives that up. Player data of an account that was torn or is
still being written dereferences an empty optional (`Server.cpp:316-317`); there is
no property that it does not, for it does. With two threads a read that fails
before `SetErrorHandler` finds no handler (`Server.cpp:44, 110`): the socket, its
key and its token stay and nobody reads from it. `KeptIsServed` says that this is
the only way a kept connection is not served, and that it takes two threads.
`PostWrite` calls `WriteAsync` while a write is under way, so with one thread already the front may
be written twice; `NoneSkipped` fails with two threads, where a repeated completion
pops a response nobody has written. In the lobby the check for duplicate nicknames
(`lobbyManager.cpp:44-48`) looks up the client's own token, and a host whose session
expires between the check and `Persist` (`session.cpp:226, 312`) is told that it
entered a session that is gone; `SessionDirectory!HostEnters` allows that, and no
such session is ever activated.

## 4. Proofs

Every theorem is for all values of the constants its module's `ASSUME` admits;
where it needs more, its statement says so. In each module the properties are
conjuncts or consequences of one inductive invariant. The argument has the same form
throughout: the invariant holds in `Init`, one lemma per action (one step per
conjunct the action touches) shows that it is preserved, and the theorems follow.

* `AuthServerProofs`. All theorems about `AuthServer` are for any sets of ids and
  profiles, a finite set of tokens, any number of threads, with crashes, starts
  that miss keys and repeated logins; two theorems of `AuthRefinementProofs` assume
  one thread and say so.
  * `TypeCorrect`: `TypeOK` is invariant. It is not inductive: handlers write to
    Redis what they parsed or read earlier. `TypeInv` adds what `req[t]` holds at
    each `pc[t]` (`ReqAt`), in five parts, with lemmas for what each Redis
    command does to each table; `HistoryOK` is the part about the history.
  * `PasswordAlwaysPresent`: every existing account has a password.
    `PasswordInv` adds that a handler past the first write of its registration
    works on an account that has one; so adding a nickname never creates a key.
* `AuthSessionProofs`. Steps are first sorted into those that write a session
  and `QuietStep`s, which only move handlers (`StepKinds`). `SessionInv` says which
  `loginId` a handler of a logout, or of a login past its first write, belongs to.
  * `OneLoginUnlessContended`, `LoginsAreLocked`: `LoginInv` says, of each id that is
    not contended, that two handlers are never both between the lookup and the
    write of its lock (`Overlapping`), that while one is there nobody has a session
    with it (`Fresh`: what the lookup saw still holds), and that each session has
    its lock. A key the clean-up missed only locks more.
  * `LocksAreExplained`, `DisconnectsRelease`: `OwnerInv` adds to `LockExplained`
    that the token in a lock this process wrote is that of the connection with the
    session (`NamesOwner`), so that the logout of the one that leaves deletes every
    lock with its name.
  * `KeysTrackConnections`: `ConnectionInv` says of each token that its key, if it is
    neither a connection's nor left by the clean-up, has no field at all.
  * `AccountsTornOnlyByEnd`: `FilledInv` adds how far the registration that runs has
    come; a second registration of the same id goes through the same steps.
* `AuthRefinementProofs`
  * `ServerImplementsRegistry`: `KnownInv` says that what a handler read of an account
    still holds when it acts on it, or that the id is forked. `RegPassword` is the
    abstract `Register`, `RegExists` and `LogLogined` are `Fork` and `Contend` when
    they overlap another's, `LogSetId` is `Login`, `OutDel` is `End`, the end
    of the process is `Restart`, everything else is a stutter.
  * `OneThreadOneLogin`, `OneThreadImplementsRegistry`: with one io thread no id is
    ever forked or contended (`SerialInv`), so `SingleLogin` itself holds and the
    server implements `LoginRegistry` with both sets empty (`StrictRegistry`).
* `ClientLifecycleProofs` (a finite set of tokens, any number of packet types
  and threads): `LifecycleTypeCorrect`, `LockOrderSafe`, `KeysFollow`,
  `KeptAreServed`. None is inductive. `AddingInv` says what `AddClient` has done
  for its socket at each step, `LockInv` who holds the two mutexes, `HandlerInv`
  what a registered handler implies of the map and of Redis. The lock cycle needs
  a disconnect handler that runs while `AddClient` works on the same socket, and
  that handler is the last thing `AddClient` registers. `SerialInv` is the case of
  one thread: while `AddClient` runs nobody else does.
* `ResponseWriterProofs` (any number of responses, pieces and threads):
  `WriterTypeCorrect`, `NoWakeUpLost`, `SerialSkipsNone`, `InOrderDelivery`.
  `QueueInv`: the queue holds the responses posted last, in order, so that what
  was popped is known by its number. `FrontInv`: with one thread, the front of the
  queue has been written whenever no handler runs; this is why pops by repeated
  completions take only responses that have been sent. `OrderInv`: before the first
  repeated write there is at most one write, that of the front, and the peer has
  exactly what was popped and the pieces of that one.
* `Sha256PaddingProofs` (any block size of at least 9 bytes, which is room for
  the byte 0x80 and the eight bytes of the length; any set of chunk sizes):
  `PaddingTypeCorrect`, `UpdateLosesNothing`, `FinalDigestsPadded`. The three
  properties together are inductive: an `update()` goes on where the last one
  stopped because `m_block` holds exactly the bytes that no block has. The work
  is in the lemmas: the arithmetic of positions within blocks (`BlockIndex`,
  `Division`), the bytes of each sequence operator (`CopyBytes`, `BlocksBytes`,
  `MoreBlocks`, `PaddedBytes`, `FinalBytes`), and that the number of padding
  blocks `final()` computes is the one that leaves the fewest zeros
  (`ZerosUnique`).
* `LobbyProofs` (any clients and sessions, finitely many, any limit and number of
  threads): `LobbyTypeCorrect`, `ActivatedStays`, `JoinCodeNeverTears`,
  `ListedSessionsOpen`, `ListComplete`, `PlacesNotShared` and
  `LobbyImplementsDirectory`. `HostInv` carries the argument: who has the handler
  of `JOINCODE` and is past the two `Persist` calls has found both keys there and
  made them stay, or they are gone for good; `CodeInv` and `ActiveInv` take that to
  the activated session. `LockInv` keeps the entries and the timer apart, so that
  `ListInv` (what the timer has visited and still has to) and `MemberInv` (what
  an entry was checked against still holds when it is added) are preserved;
  `MemberHasPlace` is what `PlacesNotShared` needs of the latter. For
  the refinement, `CreateSession` is the abstract `Create`, `AddMember` of the host is `HostEnters`,
  `ExpireSession` is `Lapse`, `ActivateSession` is `Activate` or a stutter,
  `RewriteDone` is `Show`, and everything else is a stutter.
* `ReadFramingProofs` (any packet types and payloads whose numbers fit a word, any
  reads, any old bytes in the buffer, any four bytes for "prot"):
  `FramingTypeCorrect`, `WholePacketsHandled`. `StreamInv` says that each packet's
  bytes are in the stream where it starts. Reading a little-endian word undoes
  writing it and the other way round (`WordReads`, `WordWrites`, from `Horner`).
  The first gives `HeaderDecodes`, from which a read that is one packet is handled
  with its type and payload; the second gives `EncodesRead`, that whatever a read
  of header size or more passes on encodes to the very bytes of the read.

Every invariant and action property of the passing runs is proved, and so are the
two refinements. Only model-checked are the liveness properties (`RequestAnswered`,
`Drains`, `DisconnectCompletes`, `AddClientCompletes`, `LocksGivenBack`,
`ActivatedGetsListed`): fairness and `ENABLED` are beyond the prover. The failing
runs are counterexamples and need no proof.

## 5. Not modelled

* `deprecated/room.cpp`: nothing creates a `Room`. Its one user,
  `LobbyManager::GetRoom`, is commented out, as is most of the class, and the
  message its timer would send is never set: there is no behaviour to model.
* `deprecated/TestAsyncServer.cpp`: the server loop before `Acceptor` and
  `ClientSocket`. It does not compile: the head of its main function is missing
  (line 303), so what its handlers belong to cannot be told.
* The compression function and the hexadecimal form of `sha256`, which the prover
  and TLC have no use for beyond being a function of the blocks; messages of 2^29
  bytes and more, whose bit count overflows the 32 bits it is kept in.
* The value `utf8_length` returns; in `Lobby` a name is long enough or throws.
* Logging, the wording of responses, reading the port from the environment,
  generated protobuf code, deployment.
* `Server::Stop`, `Acceptor::Stop`, `PrintStatus`, the methods that remove
  handlers, `Session::GetJoinCode`, `IsActiveSession` and the set and flush
  commands of `RedisService` are called by nothing.
* A Redis error is an exception and appears as `Crash`; a Redis server that loses
  its data does not, and neither does a restart of Redis. The login server's keys have no expiry (the call is commented
  out, `Server.cpp:174`), so `Persist` does nothing there.

## 6. Plan

The control of every part that can run is modelled, and every safety property the
runs check is proved. What may still be added: an abstract FIFO channel that
`ResponseWriter` implements until a response is written twice, and that
`ClientLifecycle` with its steps of `AddClient` implements the one-step `AddClient`
of `AuthServer`.
