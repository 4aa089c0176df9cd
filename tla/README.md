# go-file in TLA+

go-file (module `github.com/fichain/go-file`) distributes files between peers
over libp2p with the BitTorrent protocol. It is a fork of the torrent client
*rain*: `src/filechain` is the client, `src/external` the packages changed for
libp2p, `src/internal` those taken over. This directory holds TLA+ models of the
client's own logic, TLC runs of small instances, and TLAPS proofs.
`PROJECT.json` lists the components, the runs, a mutant per property, the source
lines behind each definition and the hazards.

To check: `tlc -config MCTorrent.cfg MCTorrent`, and likewise for the other
runs; `tlapm TorrentProofs.tla`, and likewise for the other `...Proofs`, for the proofs.

## 1. Inventory

A *session* owns a database, a libp2p host, a piece cache, a RAM manager and a
table of *torrents*. Each torrent has one goroutine, the *run loop*
(`torrent_run.go`), which alone changes the torrent's state; everything else
reaches it through unbuffered channels: results of the allocator, the verifier
and the piece writers, messages and disconnections of peers, RAM grants, new
streams, and commands of the user.

| Component | State | Operations | Correct when |
|---|---|---|---|
| session, resume database | table of torrents; list of ids; a record per torrent | NewSession and load, AddFileId, CreateFile, Close, RemoveData | what was added is restored, and an id runs once |
| torrent life cycle | allocator, verifier, pieces, bitfield, picker, completed | start, metadata, allocation, verification, completion, stop, crash | what it claims to have is on the disk; phases exclude one another |
| download engine | downloaders, RAM, writers, suspension of piece messages | peer messages, write results, RAM grants, closing of peers | each piece is written once and one at a time; no RAM leaks; the end is noticed |
| piece picker | per piece the peers having, requested, choked; counters | have, choke, pick, endgame and stalled pick, disconnect | it agrees with downloaders and peers |
| block download | remaining, pending, done blocks of a piece | request, block, reject, cancel | each request is answered once; the download ends |
| upload queue | queued messages, count of requests, served requests | request, cancel, write | bounded; rejects only what exceeds the limit |
| piece cache | map, access list, size, timers, semaphore | get, load, evict, expire | size and map agree, loads are not repeated, every get returns |
| peer connection | five goroutines, a stream, a snub timer | read, forward, deliver, report, close | messages in order, none after Close, ends are reported |
| resource manager | available bytes, waiting requests | request, release, notify, cancel, close | nothing lost or granted twice; requests are answered and served |
| metadata download | blocks of the info dictionary per peer, queued messages | handshake, request, block, reject, hash check | the info arrives; honest peers are kept; announcements are not lost |
| storage | files, sections, bitfield | create, open, cut, verify, read, write | every byte is where it was hashed |
| unchoker | two sets of unchoked peers, round | tick, fast unchoke, disconnect | the sets match the peers' flags; limits respected |
| blocklist | segment tree | reload, lookup | blocks what is listed and nothing else |
| announcers and trackers | timer, contexts, tier, transactions, connection ids | announce, result, completed, need more peers, close | never left without a wake-up; cancelled calls end |
| encryption and handshakes | two connections, what was read and sent | dial, accept, fall back, close | both ends agree, nothing leaks, compatible ends connect |
| address list | addresses by priority and by time | push, pop, reset | both orders hold the same addresses |

The announcers, trackers, handshakers, the encryption and the segment tree came
with the fork. The client of this commit still has their types but does not run
them (`session.go` makes a blocklist and does not consult it; the calls of the others are
commented out). They are modelled as libraries with the contracts their callers rely on.

Hard behaviours: a write result, a RAM grant, a timer or an answer that arrives when the
state it belongs to has gone; handlers that range over a map which they change;
several peers on one piece in endgame mode; suspension of one channel; a crash
between two database transactions; concurrent additions; goroutines that
block on channels nobody receives from; datagrams that are lost or repeated; files
whose ends do not fall on piece borders.

## 2. Modules

```
PiecePicker <- Download <- DownloadProofs                    refines PieceStore
Torrent <- TorrentProofs
Session <- SessionProofs
UdpTransport <- Tracking <- TrackingProofs
PieceDownloader, PeerWriter <- Transfer
PieceCache, Transfer, SumProofs <- UploadProofs
PeerConn, Handshake, Metadata <- ConnectionProofs
ResourceManager, Unchoker, SumProofs <- ResourceProofs       refines RamBudget
Storage, Blocklist, Unchoker <- MCStructures
```

Each `MC...` module adds what TLC needs (symmetry, sizes), with a `.cfg` per run.
Definitions that end in what a bug would do (`DedupDropsFirst`, `StartUnsaved`)
are mutants used to show that a property notices the bug; no specification
uses them.

**PiecePicker** has the picker as a record and its methods as operators.
**Download** is the run loop of a running torrent from the moment it has pieces
until `stop()`. An event of the `select` statement is one action. A handler that
ranges over a map and decides in each iteration (`startPieceDownloaders`,
cancelling the other peers of a finished piece, closing peers) becomes steps at
a `pc` of its own, and its order is any order. RAM is counted in pieces.
A panic of the code ends the behaviour with `panic` set.
**PieceStore** is what the engine promises: pieces go from missing to
writing to have, one at a time, and completion is final. `Store` is the
refinement mapping.

**Torrent** is the whole life of a torrent with the disk (`exist`, `good`) and its
database record (`db`), but no picker: a connected peer delivers any piece that
is neither done nor being written. Writers survive `stop()`, as in the code,
and know whether their piece still belongs to the current pieces (`cur`). `deleted`
remembers that the user deleted files.

**PeerConn** is one connection. A send on an unbuffered channel is one step of both
goroutines. **PieceCache** has a goroutine's `Get` in the steps between which locks
are released; an item is an identity and forgotten ones are reused (`Kept`).
**Transfer** puts a `PieceDownloader` and a `PeerWriter` at the two ends of a
stream that keeps order, with cancels and rejects crossing. Messages may take any time: the
downloader's snub timer (`snub`) is reset and stopped where the handlers do it, may fire, and then blocks
`Peer.Run` for good.

**Session** has the calls of several users in the steps between which the lock is
released or a transaction ends, the load in `NewSession`, and a crash
anywhere. `overlapped` and `lost` are history variables for the conditions
of its properties.

**ResourceManager** is the manager's goroutine (`at`: picking a request, in its `select`,
answering one) and the run loops that ask it, with every unbuffered channel a joint
step. **RamBudget** is what Download assumes of it: a budget that is taken, waited for
and given back.

**Metadata** connects nodes that run the same code, and possibly a faulty one, by
streams. `view[n][p]` is what `n` keeps about `p`: handshake, downloader, queued messages,
known pieces, bitfield, snub timer. A handler of the run loop is a step that goes from one `State` of
the node to another (`Commit` puts it in place, with the messages it sends), except
`processQueuedMessages`: each message that it handles is a step of its own (`NextQueue`, `HandleQueued`),
between which the run loop does nothing else, since handling one may close the peer whose queue it goes on with.
An announcement whose index or bitfield does not fit closes its peer, and the process ends (phase
`crashed`) if that peer was closed already; `ghosts` are closed peers that a later message of their queue
put back into the picker. A faulty node sends any message of `Lie` at any time, asked or not.
What a peer announced on this connection is the history `told`; the data that `Transfer` moves is not here.

**UdpTransport** is `Tracker.Announce` for callers that share a transport: locking a
connection, connecting with retries, transactions, the read loop, and a network
that loses, repeats and reorders. **Tracking** puts a periodical announcer with a tier
of trackers, and a stop announcer, on top; a timer is armed or has fired.

**Handshake** has a dialer and an acceptor for each of its two attempts. A stream
carries tokens (key, padding byte, synchronisation, encrypted part, the halves of
the handshake), in clear or under RC4; the settings of both ends are chosen in Init.

**Storage** follows the bytes: byte *k* of the torrent is the number *k* and a hash is
the data it is of. `NewInfoBytes` makes a dictionary of a layout of files, `NewInfoAccepts`
is what `NewInfo` checks, `NewPieces` is the loop that cuts, `ReadAt` and `WriteSection`
are `filesection`. `Tamper` is the user who deletes or shortens a file of a stopped torrent; the history `stale`
remembers which bitfields are older than that. **Blocklist** has addresses of `Bits` bits; a node of the segment
tree is its range of leaves, and recursion over the tree is a recursive function.
**Unchoker** has the flags of the peers and the unchoker's two sets; Init chooses whether
peers start choked (as in `internal/peer`) or not (as in `external/peer`), and whether
anybody calls `TickUnchoke`; speeds are any order of the peers.

## 3. Runs

| Run | Instance | Shows |
|---|---|---|
| download | 2 peers, 2 pieces, RAM for 2 | `PickerAgrees`, `NoAssertionPanic`, and `ImplementsPieceStore` |
| download_endgame | 3 peers, 1 piece, limit 2, RAM for 2 | `RamAccounted`; liveness `WriteResumes`, `AllDoneCompletes` |
| torrent | 2 peers, 2 pieces | `BitfieldSound`, `OneWrite`, `PhasesExclude`; liveness `StopCompletes` |
| peerconn | 2 messages, 1 upload | `InOrder`, `SilentAfterClose`; liveness `BrokenReported`, `EndsUnlessHolding` |
| cache | 2 readers, blocks of sizes 1 to 4, cache of 3, 1 parallel read | `ListAccounted`, `SingleLoad`; liveness `GetReturns` |
| transfer | 2 pieces of 3 blocks, queues of 1, 2, 4, limit 3, default 2 | `AnsweredOnce`, `BlocksDivided`, `NothingRejected`; liveness `DownloadEnds` |
| session | 2 users, 2 torrents, 2 made per id and process | `ListedIsRecorded`, `AddedIsSaved`, `OneRunning` |
| resource | 2 torrents with pieces of 1 and 2, budget 2 | `Accounted`, `ImplementsBudget`; liveness `RequestReturns`, `FittingServed` |
| tracking | 2 announcing goroutines, a UDP and an HTTP tracker, a stop announcer | `TransactionsTracked`, `NeverIdle`; liveness `CallsEnd` |
| handshake | 2 attempts, all settings, padding up to 2 | `EndsAgree`, `NothingLeaks`; liveness `CompatibleConnect` |
| metadata | a seed with 1 of 2 pieces, a leecher, a third node that may be faulty and then sends up to 2 of 5 wrong messages; 2 blocks, 2 connections | `AnnouncementsKept`, `HonestKept`; liveness `InfoArrives` |
| structures | Storage: up to 3 files of up to 3 bytes, pieces of 3 and 4, blocks of 2. Blocklist: 3 bits, lists of up to 3 lines. Unchoker: 3 peers, 1 regular and 1 optimistic slot | `BytesInPlace`, `BlockedIffListed`, `SlotsAccounted` |

Type invariants are conjuncts of one of the properties of their module. In the run
*structures* a behaviour is of one of the three modules, while the variables of the other two stay
as they are, so that the instances add up instead of multiplying.

*Why the bounds are enough.* Two peers on one piece is endgame mode with a
duplicate; the third peer in download_endgame is the one that the limit keeps
out. Two pieces are the least with a next piece to start while one is written,
and with a partial bitfield. RAM for two with three peers makes requests wait; `MaxWait` and
`MaxGone` cap the waiting requests of a peer and the pointers to closed peers, and
a handler that could exceed them is not taken. In the cache, size 3 with
blocks of 1 to 4 gives evictions of one item and of two, and a value
that does not fit at all; three item identities suffice for what two
readers, the list and late timers hold, and a `Get` that finds no free
identity waits. Queues of 1, 2 and 4 are below, at and above the default number
of requests. Two messages and an upload are enough for every goroutine of a
connection to hold something while another ends. `MaxMade` 2 lets two users
each make a torrent of one id. Pieces of lengths 1 and 2 with a budget of 2 give a
request that waits though a smaller one would fit. Two goroutines of the announcer are a
cancelled announcement beside its successor; three transaction ids serve
both and the stop announcer, and one datagram in flight
may be lost, repeated or late. Padding of 0, 1 and 2 bytes covers both limits of
the search. Two connections suffice for a peer that fails and one that
takes its place, and two blocks with a queue of one for a request that follows an answer. Two wrong
messages are the least that close a peer in the middle of its queue and go on with it; the five kinds are an invalid and a
valid announcement, a handshake that names too few blocks, a wrong block and a reject. A seed with one of the two pieces
announces a bitfield. The user changes the files once, and again when both bitfields are sound.
Three files with lengths 0 to 3 and pieces of 3 and 4 give pieces over three files,
files over three pieces, ends on a border, and empty files at the beginning, between
and at the end; pieces of 3 have a short last block. Three ranges of three bits are equal,
nested, adjacent and at both ends of the address space.

Deadlock is checked except where the program may rightly stop: when an epoch, a transfer,
a connection, a handshake or an announcer has ended.

### Fairness

* Download, Torrent: the loop's own steps (`LoopStep`) are weakly fair: straight-line
  code goes on. `WriteDone` is strongly fair, since `select` chooses at random among
  ready channels and a writer waits until it is received. Nothing is assumed of
  peers, of RAM or of the user.
* PeerConn: each goroutine is weakly fair; receiving from a channel in a
  `select` that is ready again and again is strongly fair.
  That suspended piece messages are resumed is assumed, as `WriteResumes` shows it.
* PieceCache: a reader is weakly fair, the mutex and the semaphore strongly,
  because Go's mutexes (starvation mode) and channels (queues) do not pass over a
  waiting goroutine for ever. A load that starts ends.
* Transfer: both loops and the writer go on as long as they can. No message is assumed to come in time: nothing
  keeps the snub timer from firing first.
* ResourceManager: the goroutines are weakly fair; the cases of a `select` and the random
  choice of a request are strongly fair.
* Tracking: goroutines and the timer of the stop announcer are weakly fair and the lock of a connection is
  strongly fair. Nothing is assumed of trackers and datagrams.
* Handshake: dialer and acceptors are weakly fair, with deadlines that end a read.
* Metadata: the run loops of correct nodes and their snub timers together are weakly fair: as long as
  a message can be received or a timer can fire, one of the two happens. Which one is left open, so a slow
  peer may be snubbed before its answer is read. Nothing is assumed of faulty nodes and of streams that break.

## 4. What the code does otherwise than it says

These were met while modelling. Where a property would fail because of one, its condition names
the case and the comment above it says so.

* Life cycle: metadata that arrives in a stopped torrent starts the allocator, and the next
  `start()` panics with "allocator exists" (`torrent_start.go:141`). The source of
  a corrupt piece may be closed twice: "close of closed channel" (`torrent_write.go:24`;
  set aside in `NoAssertionPanic`). Deleting files between two runs with a
  saved bitfield makes the bitfield wrong: `torrent_allocation.go:54` trusts it once
  the files exist again (`deleted` in `BitfieldSound`, `TrustedStale` in `BytesInPlace`); a file that became
  shorter is extended with zeros and trusted (`filestorage.go:76`). After a write, "Tell everyone that we have this
  piece" (`torrent_write.go:55`) ranges over `t.peers`, which nobody fills, so nobody is told.
* Connections: a peer whose snub timer fires blocks on a channel that the run loop no
  longer receives (`peer.go:181`, `torrent_run.go:77`), and its disconnection is not
  reported until it is closed. The timer starts with the first request and an honest peer that is slow once is
  lost with it: it holds a download for ever (`DownloadEnds`, `Stuck` in `InfoArrives`). When the info is there, the
  timers of the other peers that were asked for it keep running (`torrent_stop.go:122`). A goroutine of a closed connection may hold a message
  for ever (`EndsUnlessHolding`).
* Cache: `peerID` is never filled, so blocks of different torrents share their keys
  (`torrent_messagehandler.go:261`). A reader that waited for a value larger than the
  cache finds a nil timer (`GetReturns`).
* Transfer: a download of which everything left was rejected waits for ever (`DownloadEnds`).
* Session: a load that is cut off or fails forgets the ids after it (`lost`);
  overlapping additions lose ids and run an id twice (`overlapped`); stopping
  never undoes the saved started flag.
* Resources: a request answered at the moment its peer goes may leave the run loop in `Request`
  until the manager closes (`resourcemanager.go:178`); a large request hides small
  ones (`FittingServed`).
* Metadata: when a peer goes from which the info is downloaded, the run loop does not ask
  another one (`torrent_run.go:85`) until some peer sends a handshake (`dropped`); a peer that never answers keeps its slot.
  `processQueuedMessages` goes on with the queue of a peer that a message of it has closed (`torrent_peer.go:133`): another
  invalid one closes it again, "close of closed channel" (phase `crashed`), a valid one makes it a peer of the picker again
  (`ghosts`). `HonestKept` shows that no peer that runs this code causes either. A
  peer that gets the info later does not announce it (`torrent_messagehandler.go:319`);
  the size a peer announces is not limited (`torrent_infodownload.go:19`);
  `GotBlock` counts a repeated block twice (`infodownloader.go:50`).
* Unchoking: peers of `external/peer` start unchoked and in no set of the unchoker, and
  `TickUnchoke` is not called, so the configured limits do not limit anything. Where it is
  called, peers that are not interested keep their slots, and an optimistic
  peer among the slowest is choked again in the next round.
* Trackers: a UDP tracker that stays silent never fails, so the tier never turns to the
  next one as `tier.go:25` says; a read loop that ended is not started again
  (`transport.go:143`); callers that wait for a connection do not see their context
  end (`transport.go:113`); `StopAnnouncer.Close` waits for a channel nobody closes (`stop.go:43`);
  the back-off `2^*b` is an exclusive or (`backoff.go:12`); the filter
  of the own address drops the last peers of the list (`httptracker.go:174`).
* Handshakes: after a failed encrypted attempt `Dial` may return the cipher of that attempt with a plain
  connection (`dial.go:83`); closing an incoming handshaker waits for its handshake instead of
  closing the connection (`incominghandshaker.go:36`); on an error the accepting
  side leaves the connection open for the receiver of the result (`mse.go:87` says it is closed).
* Metainfo: negative file lengths are not refused (`info.go:91`), and `CreateFile` fills the bitfield
  although `cleanName` may have changed the name under which the files are opened.

## 5. Proofs

For every value of the constants that the named assumption of the module allows
(finite sets of peers and pieces, natural numbers as limits, a `None` that is no peer), TLAPS
proves that the specification satisfies:

| Module | Theorem | Property |
|---|---|---|
| TorrentProofs | `TypeCorrect` | `TypeOK` |
| | `BitfieldIsSound` | `BitfieldSound` |
| | `OneWriteAtATime` | `OneWrite` |
| | `PhasesExclusive` | `PhasesExclude` |
| DownloadProofs | `PickerAgreesAlways` | `PickerAgrees` |
| | `AssertionsHold` | `NoAssertionPanic` |
| | `RamAlwaysAccounted` | `RamAccounted` |
| | `RefinesPieceStore` | `ImplementsPieceStore`, a refinement |
| ResourceProofs | `AccountsBalance` | `Accounted` |
| | `RefinesBudget` | `ImplementsBudget`, a refinement |
| | `SlotsStayAccounted` | `SlotsAccounted` |
| SessionProofs | `ListsOnlyRecorded` | `ListedIsRecorded` |
| | `AddedStaysSaved` | `AddedIsSaved` |
| | `OneWriterOfFiles` | `OneRunning` |
| TrackingProofs | `TableStaysTrue` | `TransactionsTracked` |
| | `AlwaysWoken` | `NeverIdle` |
| ConnectionProofs | `MessagesStayInOrder` | `InOrder` |
| | `ClosedPeersAreSilent` | `SilentAfterClose`, an action property |
| | `EndsAlwaysAgree` | `EndsAgree` |
| | `NoConnectionLeaks` | `NothingLeaks` |
| | `NoAnnouncementIsLost` | `AnnouncementsKept` |
| | `HonestPeersStay` | `HonestKept` |
| UploadProofs | `SizeIsListed` | `ListAccounted` |
| | `OneLoadOfABlock` | `SingleLoad` |
| | `EveryRequestAnsweredOnce` | `AnsweredOnce` |
| | `BlocksStayDivided` | `BlocksDivided` |
| | `NothingWantedRejected` | `NothingRejected` |

Each model has an inductive invariant, which TLC checked on the run's instance before it was
proved: `IInv`, or `HandshakeInv`, `MetadataInv`, `HonestInv`, `SlotsInv`, `TransferInv` and `LimitInv` where a module
of proofs is about several models, and one per theorem in TorrentProofs.
A step lemma has one named step per action; what helpers such as `closePeer`,
`PickFor` or `checkCompletion` preserve is stated in lemmas of their own, because
many actions call them. The bounds in guards (`MaxWait`, `MaxNet` and so on) are constants
too, so a theorem holds for every bound. None of the properties is inductive by itself
but `OneWrite`; what the invariants add, and why:

* **Torrent.** A result that waits in `pieceWriterResultC` will set a bit in the future, so
  `SoundInv` adds `WrittenIsGood`: what the writers whose result is still to come have left on
  the disk. Both are claimed only until somebody deletes files: doing so between two runs, with a
  saved bitfield, breaks them, as nothing compares the two. `OneWrite` holds across stop and start because
  the suspension flag and the writers both survive `stop()`. `PhasesExclude` needs `pieces => info`.
* **Download.** `Engine` ties the picker, the downloaders and the RAM together, with parameters, because a
  handler changes the three several times in one step. `Left` says that a peer which is not connected left
  nothing behind, `Visits` what the loop over peers may rely on half way (only downloads still to be
  visited are of a piece that is done), `Writes` that a write is of a missing piece and excludes others,
  `Ended` that completion comes with the last piece and clears the picker.
  `RefinesPieceStore` goes over the same actions: a good or failed write ends one, a block may
  begin one, and everything else is a stutter.
* **ResourceManager.** `Offered` says that what the manager is offering in its `select` still waits and still
  fits: each branch of the `select` sends it round its loop before it offers again. `LoopOK` says
  that a run loop which gives back holds something. Bytes and objects are sums over the torrents.
* **Session.** `Recorded` says of every addition between its transactions that what it will
  list already has a record; nothing else is needed for `ListedIsRecorded`, whatever overlaps. `Alone` is what
  a call knows of the table while no other one runs, and `Kept`, which needs `Alone`, is where a torrent that was added is while
  a load rewrites the list with only the torrents loaded so far.
* **Tracking.** `Table` and `Calls` give the table's transactions one owner each; `Locks` is the mutex of a connection
  with the state that its critical section protects. `Contexts` says that only calls that run
  are cancelled, without which a new announcement could inherit a cancelled context and
  `NeverIdle` would not be preserved.
* **PeerConn.** `Holding` says that a goroutine holds a message exactly while it waits for somebody to receive
  it, so that the messages on the way are the concatenation of what the goroutines hold. `Waited`: once
  `Peer.Close` has returned, `Peer.Run` has ended.
* **Handshake.** A dialer's promises depend on what it has read, so `HandshakeInv` says at each place of an attempt
  what the connection carries: which tokens are on the stream (`BytesSound`), which connections are open or about to be closed
  (`OpenSound`), and what both ends know of each other's settings by then (`DialerSound`, `AcceptorSound`). A token
  of the first attempt cannot reach the second, since each has its stream.
* **Metadata.** `AnnouncementsKept` follows from `MetadataInv`: `ViewKept` says it of one view in one phase, and that a
  bitfield exists from the verification on and a downloader of the info only before the info; `NodeKept` adds what waits while
  `processQueuedMessages` runs, in the queues and in what is left of the one being handled. It restricts nothing that a
  peer sends. `HonestKept` is about two nodes that run the code, whatever the others do.
  `Between` relates their views, phases and both streams: a request is sent only to a peer that has the info, and behind
  the handshake without which it would be ignored; the blocks that a downloader misses are the requests under way
  and the answers under way, each once (`Due`). `TrustInv` says of everything that is kept or queued of such a peer
  that it is a valid announcement of pieces which are there, and that a peer whose queue is being handled is up unless it is a
  faulty one that was closed: hence no second close and no closed peer in the picker. What a node keeps about a peer that
  runs other code is not restricted at all.
* **PieceCache.** `ReaderOK` says for every place in `Get` which lock is held and whether the item is new, loaded or
  listed; with it the list and the map of the cache change together although different locks guard them.
  `OneLoadOfABlock` has the hypothesis that there is one torrent: the key of a block holds no torrent (section 4), so
  with two of them a reader may be given the other one's data. `SizeIsListed` needs no such hypothesis.

* **Transfer.** `TransferInv` takes all that is under way as one sequence, from what arrives next at the downloader to what the
  seeder has not handled: the blocks a downloader waits for are those that the sequence brings, each once; nothing in it
  cancels the piece being downloaded, and nothing mentions a piece that is still to be picked.
  `NothingRejected` counts, which `TransferInv` does not: `LimitInv` adds the books of the seeder (`Books`), over the blocks that
  wait in its queue or are asked for on the way to it. No block is asked for twice, nor after it was taken back; before a piece
  is asked for, whatever is due of other pieces is taken back, so the cancels that come first make room; and
  of one piece no more is due than the queue takes. Until the downloader has read the seeder's limit it
  sends the default number, which is why the property has the hypothesis that the queue takes as many (section 4 says what happens when it takes fewer).
* **Unchoker.** `FlagsMatch` and `WithinLimits` hold after every message; a tick is a choice of peers to choke
  and to unchoke, and each of the two keeps the sets equal to the flags, whichever peers are chosen.

**SumProofs** has the lemmas about sums (`SumFunctionOnSet`) that the accounts of the manager and the
cache rest on. A sum is a fold over a finite set in an order that `CHOOSE` fixes, and the provers have no induction scheme
to unfold it with. `SumIsUnits` shows that it is the cardinality of the set of its units: if it were not, some finite
set would be a smallest counterexample, and taking out its chosen element gives a smaller one.

Only model-checked:

* all liveness (`WriteResumes`, `AllDoneCompletes`, `StopCompletes`, `BrokenReported`, `EndsUnlessHolding`, `GetReturns`,
  `DownloadEnds`, `RequestReturns`, `FittingServed`, `CallsEnd`, `CompatibleConnect`, `InfoArrives`), which with
  `ENABLED` is out of the prover's reach;
* `BytesInPlace` and `BlockedIffListed`, whose modules compute with recursive functions and
  folds over sequences: what those return for every input needs an induction over data.

## 6. Not modelled

* libp2p and the DHT, whose streams and peers are inputs.
* Formats (wire, bencoding, magnet, database values), names of files, statistics and speed
  limits.
* The order and counters of the address list: Torrent has it as a set.
* Webseeds and the packages of `internal/` that `external/` supersedes (picker, peer,
  connection, address list, acceptor, peer exchange): nothing creates them, and the code that
  runs is modelled instead.
* Choking within Transfer: nothing in this program chokes a peer.
* The console, rpc and commands.

## 7. Plan

Modelled: everything in section 2. Proved: section 5. What is left,
when the prover can apply induction theorems, is a proof of what the segment tree of Blocklist and the cutting of Storage compute.
