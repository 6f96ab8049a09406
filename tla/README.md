# A TLA+ model of wireguard-go

This directory models the concurrent core of the Go implementation of WireGuard in
`src/`: handshakes and key pairs, the packet pipelines, timers, cookies and the rate
limiter, the routing table, the replay filter, the state and configuration of a device,
and the order of its locks. Each module is written from the Go code; `PROJECT.json` maps
every definition to its lines.

## The program

A device reads packets from a TUN interface, finds the peer for each by longest prefix
match, numbers and encrypts it, and sends it over UDP; datagrams go the other way.
What makes it hard to test is that almost every arrow is a goroutine:

| Part | Source | Goroutines | Module |
|---|---|---|---|
| handshakes, key pairs, index table | `noise-protocol.go`, `keypair.go`, `index.go`, `receive.go` | one handshake worker per CPU, timers, nonce routine | `Handshake` |
| outbound pipeline | `send.go` | TUN reader, nonce routine and sender per peer, one worker per CPU | `Outbound` |
| inbound pipeline | `receive.go` | one receiver per address family, one worker per CPU, sequential receiver per peer | `Inbound` |
| timers | `timers.go`, and where `send.go` and `receive.go` set them | a callback per timer, the routines of a peer, handshake workers | `Timers` |
| cookies, handshake queue, load | `cookie.go`, `receive.go`, `device.go` | handshake workers | `Cookies` |
| rate limiter | `ratelimiter/` | handshake workers, garbage collection | `RateLimiter` |
| replay filter | `replay.go` | used by the sequential receiver only | `ReplayFilter` (implements `ReplayWindow`) |
| routing table | `routing.go`, `trie.go` | under a lock | `RoutingTable` |
| device state, sockets | `device.go`, `conn.go`, `tun.go` | TUN events, configuration connections, callers of `Close` | `DeviceState` |
| configuration protocol | `uapi.go` | one per connection | `Configuration` |
| the order of locks | all of the above | all of the above | `Locks` |
| timestamps | `tai64n/tai64n.go` | | a growing number, in `Handshake` |

The modules meet where the code does. `Handshake` gives a peer key pairs; `Outbound`, `Inbound`
and `Timers` see their effect on `peer.keyPairs` and the signal that one has arrived. `Timers`
has the two sequential routines and `RoutineNonce` again, with less of the queues and all of the
timers. `Cookies` decides which messages reach the consumption that `Handshake` describes, and
uses the rate limiter by its answer. `Inbound` uses the replay filter by its promise (a counter
is valid once), which `ReplayFilter` is shown to keep, and the routing table by its answer.
`DeviceState` starts and stops peers as a whole; `Outbound` and `Inbound` contain `Peer.Start`
and `Peer.Stop` step by step. `Configuration` treats the routing table as a function, which is
what `RoutingTable` shows for disjoint prefixes. `Outbound`, `Inbound` and `DeviceState` know by
`held` and `stuck` that a lock may be kept for ever; `Locks` says how that comes about. `Locks`
forgets everything but who holds and waits for what, across all components: the other modules
take an operation under several locks as one step.

## The modules

**Handshake.** `hs`, `kps` and `table` are `peer.handshake`, `peer.keyPairs` and
`device.indices`; `wk` holds the program counter of each `RoutineHandshake`. One step is
one critical section: `ConsumeMessageInitiation` and `ConsumeMessageResponse` check under
a read lock and update under a later write lock, and are two actions each. `Peer.Stop` is
two as well. Cryptography is symbolic: a chain key is the pair of ephemerals mixed into
it, and something opens if both ends have the same. The network never forgets a message:
it delivers any of them any number of times, in any order, or not at all. An ephemeral
key doubles as timestamp, since both grow with every initiation; the limit on initiations
per second is left out, so that the model consumes at least as many as the code. The
history variable `crowded` records that two workers of a device were busy at once.

**ReplayFilter / ReplayWindow.** The ring of words with the counter, and the window it
promises: a counter is valid once, and while it is at most `WindowSize` behind. A word is
a set of bits. `Reset` is `ReplayFilter.Init` on a used filter, which clears one word only.

**RoutingTable.** Tries as nested records, with `Insert`, `RemovePeer`, `Lookup` and
`AllowedIPs` as recursive operators; the reference is the set of inserted prefixes and the
longest match in it. `Trie.Count` is left out: nothing in the program calls it.

**Outbound.** Elements are numbered in the order they were queued; the queues hold
numbers. `addToOutboundQueue` and `addToEncryptionQueue` evict the oldest element when
full, with and without the release of its mutex, as in the code. `RoutineNonce` is split
at every point where it looks at shared state, since the order of its lookup, its emptying
of the signal and its wait matters. Sending on a closed channel ends the program
(`panicked`); this can happen when `Peer.Stop` falls between the check of `isRunning` and
the send, and is part of the model. Where the nonce routine or the sender is to send
something it needs `net.mutex`, and for an initiation `noise.mutex`; `LockHeld` says that
somebody keeps such a lock until the `Peer.Stop` under way returns, as `RemovePeer` does.

**Inbound.** The same for the other direction, for one peer. A datagram is a record of what
the pipeline looks at: key, counter, whether it is genuine, where it came from and whether
it is a keepalive. `Initiated` are the key pairs of handshakes that this end initiated: with
one of those the receiver may have to send an initiation (`keepKeyFreshReceiving`). The
configuration may change the routing table at any moment, so any packet may turn out to
have a source that is allowed or not.

**Timers.** `timers` is `peer.timers`: which runtime timers are set (`armed`), which have
been so for `RekeyTimeout` (`ripe`, so that they may fire), and `isPending`, which the code
keeps beside them without a lock. Where the two sequential routines call `Mod` or `Del`
the two assignments are two steps. There is no clock: `Elapse` lets `RekeyTimeout` pass, the
shortest of the fixed durations, and only when no goroutine has anything to do. A key pair
is `fresh`, `old` (`RekeyAfterTime`), `expired` (`RejectAfterTime`) or `stale` (so long that
`zeroKeyMaterial` may fire). A handshake worker does all it does to the timers in one step.
`weak` says that the static key of the peer has no shared secret with the device's, so that
`CreateMessageInitiation` returns an error; its other error, that of `crypto/rand`, is taken
not to happen. The persistent keepalive may be off, shorter or longer than `RekeyTimeout`, and
is set while the peer runs.
`faults` records what the properties except: a callback that had begun when the peer was
stopped, a send error, a key derived for a stopped peer.

**Cookies.** One device under load, with its `CookieChecker`, its queue and its workers; one
peer with its `CookieGenerator`. A cookie is the address it was made for, or `None` once the
secret has changed. `CreateReply` is three steps, one per lock. Time passes in ticks of
`RekeyTimeout`, the shortest time between two initiations.

**RateLimiter.** `Allow` is two steps: the lookup under the lock of the tables, then the
creation of an entry or its use. A token is one nanosecond of credit. `outdated` records the
addresses with a packet that was served after a lookup which was no longer true: the entry
found had been collected or replaced, or another worker had made one where there was none.

**DeviceState.** `state.mutex` is held over several steps; `isUp`, `isClosed` and
`changing` are read without it where the code does. Opening sockets can fail, and so can
setting their mark, which leaves them open and `unread`. A call of `Peer.Stop` may never
return (the peer is `hung`), for the reasons that `Outbound`, `Inbound` and `Locks` have; its
caller then keeps its locks (`stuck`), and whoever asks for them waits for ever with its own.

**Configuration.** The lines of a set operation are actions of a connection, which keeps
the pointer to the peer it selected; a peer object is a key with a generation, because a
peer can be removed and created again under a pointer. The line `public_key` is three
steps, one for each lock it takes. The device goes up and down in between. `SetPrivateKey`
for a running peer never returns (see below): the connection is `stuck`, and so is everybody
who needs its locks. The history variable `overlapped` records whether two set operations
have run at the same time. Lines that only store a value are left out.

**Locks.** An operation is the sequence of its lock operations; a goroutine carries what is
left of its operation in `todo`. Where the code may return early there is a choice (`Either`,
`Maybe`, resolved by `Choose`), and a loop over the peers is one over the peer, if it is still
there (`Loop`). A lock under which the code waits for nothing is acquired and released in one
step (`Touching`, `Peeking`). Writers of an `RWMutex` announce themselves, which keeps new
readers out; this is what turns two readers in opposite orders into a circular wait. Locks
under which nothing else is locked are left out.

`MC*` modules add symmetry sets and structured constants. Definitions whose comment says
`mutant` are deliberately wrong variants of the definition below them; they are used to
confirm that each property notices a plausible mistake, and by nothing else.

## What is checked

| Run | Shows | Bounds |
|---|---|---|
| `handshake` | index table and owners agree (`OwnersEntered`, `EntriesOwned`), a responder's key is used only once confirmed (`KeyConfirmed`), the initiator sends to the responder's index (`SendIndexAgreed`); unless two workers of a device were busy at once, one key pair per handshake (`DerivedOnce`) | 2 devices that both initiate, 2 workers each, 3 indices, 4 ephemerals (3 once two workers were busy; the last is left for a response): crossing initiations, a second handshake over the first |
| `replay_filter` | the ring is exact and implements the window (`RingExact`, `ImplementsWindow`) | words of 2 bits, ring of 3 words, window of 4, counters up to 14: jumps past the ring, wrap-around, limit |
| `routing_table` | lookup is longest prefix match in the reported routes (`LookupIsReported`), no stale route (`NoStaleRoute`), an insertion changes exactly one route (`InsertIsExact`) | 2 peers, 3 routes, addresses of 1 and 2 bits, removals of one peer |
| `outbound` | no nonce twice (`NonceUsedOnce`), nothing sent unencrypted (`SealedBeforeSent`) or out of order (`OrderKept`), no element locked without a holder while the device is open (`LockHasHolder`), the sender's waits for elements end (`SenderWaitEnds`), and so does the wait of `Peer.Stop` for the two routines, unless one of them asks for a lock that is kept (`RoutinesEnd`) | 2 workers, queues of 1, 2 packets, 2 key pairs with a limit of 2 messages; expiry of the first, flush, stop and start, close |
| `inbound` | only genuine messages accepted (`AcceptedGenuine`), and once (`AcceptedOnce`); only they move the endpoint (`EndpointGenuine`); the receiver's waits for elements end (`ReceiverWaitEnds`), and so does the wait of `Peer.Stop` for it, unless it asks for a lock that is kept (`ReceiverEnds`) | 2 receivers, 2 workers, queues of 1, 2 datagrams that are genuine, forged or repeated, one key pair of each role; stop and start, close |
| `timers` | a waiting packet is sent or given up (`PacketResolved`), received data is answered (`DataAnswered`), silence leads to a handshake (`SilenceNoticed`), the persistent keepalive goes on (`PersistentAlive`), key material has a timer that will destroy it (`KeysTimed`), a stopped peer is silent (`StoppedSilent`) | 2 messages of the peer, send errors or set operations in all (`MaxEvents`); any number of packets from the TUN device, of stops and of ageing keys; queues of 1, 2 retries |
| `cookies` | a cookie is accepted only from the address it was made for, and while recent (`CookieRecent`); a peer that keeps trying is let in once it is left undisturbed (`EventuallyAdmitted`) | 2 workers, 2 addresses, secret of 2 ticks, queue of 2; loss, eviction, roaming, new keys |
| `rate_limiter` | the limiter grants at least what a token bucket allows (`NeverStricter`), and exactly that to an address that is not `outdated` (`LimiterExact`) | 2 workers, 2 addresses, 3 entries, bursts of 2 |
| `device_state` | at rest `isUp`, sockets and peers agree (`Settled`); the device follows the interface (`FollowsInterface`); no peer after `Close` (`NoPeerAfterClose`); a request ends unless somebody waits for ever with a lock (`RequestsEnd`) | 2 peers, 1 connection, 2 callers of `Close`, sockets that may fail, stops that may hang |
| `configuration` | running peers are the configured ones (`RunningAreConfigured`); while set operations do not overlap, routes lead to configured peers (`RoutesOfPeers`) and never to the own key (`OwnKeyUnrouted`) | 3 keys (one weak), limit of 2 peers, 1 address, 2 connections |
| `locks` | every circular wait has a writer of `noise.mutex` or `net.mutex` (`CircularWaitsChange`), and comes from stopping a peer under them or from consuming a response (`CircularWaitsExplained`) | 1 connection, 1 worker, the TUN events, a caller of `Close`, the sequential receiver of one peer |

Bounds are capacities of 1 (so that queues are full as a matter of course), two of each
kind of actor that can race, and just enough packets or handshakes that one is in each
stage at once. Two workers in the pipelines seal and open elements out of order. In `locks`
the sender, the nonce routine, the TUN reader and the timer callbacks are left out of the
instance: the locks they take, in their order, are among those that the sequential receiver
and the worker take.
In `device_state` one connection is enough: two that create the same peer are in
`configuration`, and the proofs are for any number. In `timers` the bound on events is on the
inputs whose order with the timers matters; the rest come as often as they like, because
`PacketResolved` is about what an endless stream of packets can do.
In `rate_limiter`, `MaxEntries` bounds the entries ever made, and is enough for two workers
to race over one address and for one entry to be collected and made again.

**Deadlock** is checked for handshakes, routing, replay filter, cookies and the rate limiter.
It is switched off where a run ends for a good reason: the bound on elements is used up, the
device is closed, or the program has panicked (`outbound`, `inbound`, `device_state`,
`timers`); in `configuration`, where a stuck connection may stop everybody; and in `locks`,
whose two properties are about deadlocks.

**Fairness.** Weak fairness of each goroutine's own steps says that the Go scheduler runs a
goroutine that can go on; nothing makes inputs (packets, events, configuration lines, expiring
keys) come, nor the callers of `Start`, `Stop` and `Close` call. Elements and key pairs in
`Outbound` and `Inbound`, and messages of the peer, send errors and set operations in
`Timers`, end with the bound on them; the other inputs may go on for ever. In `DeviceState`
the steps that take `state.mutex` are strongly fair: a Go mutex hands itself to a goroutine
that has waited for more than a millisecond. In `Timers` and `Cookies` the passing of time and
the firing of a timer that is due are strongly fair, because they wait for a moment when no
goroutine is busy. In `Cookies` the bounded number of messages makes it come again. In `Timers`
packets may arrive for ever, so this is an assumption (`[]<>(Quiet \/ life = "crashed")`): each
goroutine gets the locks it asks for, and works faster than `RekeyTimeout`, which is 5 seconds.
`Cookies` also assumes that a
peer that wants a handshake retries, which is what `Timers` shows of
`expiredRetransmitHandshake`, and says in `Disturbed` what may not go on for ever: losses,
evictions, changes of key or address. `~panicked` in the fairness conditions says that an
ended program takes no steps.

### What the models show about the code

One run, `routing_remove_others`, ends in a counterexample: removing a peer from an inner
node drops the routes below its second child; the finding in `PROJECT.json` quotes the
comment it contradicts.

Circular waits that `Locks` contains (and `CircularWaitsExplained` says there are no others
in kind):

- `RemovePeer`, `RemoveAllPeers`, `SetPrivateKey` and `Close` hold `noise.mutex` while
  `Peer.Stop` waits for a routine that wants to read it for an initiation.
- `SetPrivateKey` with the key of a running peer waits for itself: it reads
  `handshake.mutex` of every peer, and `Peer.Stop`, once the routines have ended, writes it.
- `BindUpdate` and `BindSetMark` hold `net.mutex` and wait for `peers.mutex`, whose holder
  (`Down`, `RemovePeer`) stops a peer whose sender wants `net.mutex`.
- `ConsumeMessageResponse` reads `handshake.mutex`, then `noise.mutex`; initiations take them
  the other way round, and a writer of `noise.mutex` in between stops both.

Exceptions that the properties name are behaviours of the code, not of the model:

- Two workers that check copies of one message under the read lock both go on to consume it:
  `DerivedOnce` excepts `crowded`. The second key pair derived from one response has index 0,
  since the first cleared the handshake, although `index.go` reserves it; `OwnersEntered` and
  `EntriesOwned` are about the indices that are given out, and leave index 0 out.
- A new initiation between check and update of a response can leave the ends with
  different indices for the responder's direction; `SendIndexAgreed` is about the other.
- `RoutineNonce` empties the key-pair signal after it has looked for a key pair, so an
  arrival in between is missed; and a request to flush that nobody was waiting for drops the
  packets of a later wait.
- `SendHandshakeInitiation` returns without setting a timer when a handshake message was
  sent within `RekeyTimeout`, a response included. A packet that waits is then `stranded`
  until another one comes: `PacketResolved`, `DataAnswered` and `PersistentAlive` except it. It
  is stranded as well when `CreateMessageInitiation` fails because the static key of the peer
  has no shared secret with that of the device, which `NewPeer` does not refuse.
- Each packet that is read while others wait for a key pair sets the count of attempts back
  to 0. If that happens again and again the handshake is never given up, and what waits is
  never flushed: `PacketResolved` excepts it (`Restart`).
- A persistent keepalive that expires after the last initiation, before the handshake is given
  up, finds packets waiting, sends nothing and is not set again, since giving up sends nothing
  either: `PersistentAlive` excepts it (`early`).
- A send error skips the timers: `DataAnswered` and `PersistentAlive` except it (`failed`).
- `Del` and `Mod` of two goroutines can collide (`Torn`): `isPending` is set, the timer is
  not, and nobody sets it until something else clears `isPending`.
- A callback that has begun when `Peer.Stop` calls `timersStop` is not waited for, and may
  send on a closed queue. A worker may derive a key pair for a peer that has been stopped,
  and no timer will destroy it.
- After `Device.Close` has ended the workers and drained their queues, a sender or a sequential
  receiver may wait for ever for an element nobody will release, and `Close` with it: the
  liveness properties of `Outbound` and `Inbound` are about an open device, and `RequestsEnd`
  excepts `stuck`.
- `Peer.Stop` may wait for a routine that asks for a lock which the caller of `Stop` has
  (`noise.mutex`), or which somebody has who waits for the caller (`net.mutex`). `RoutinesEnd`
  and `ReceiverEnds` except a routine that asks for such a lock, `RequestsEnd` what follows.
- Workers that find the cookie secret expired at the same time all replace it, and void a
  cookie just given out. The peer gets through if the secret lives for at least as many ticks
  as there are workers (with `RefreshTime` 1 and two workers `EventuallyAdmitted` fails; in
  the code a secret lives for 24).
- Two first packets of an address both get a full bucket, and a packet may be charged to an
  entry that has just been collected: `LimiterExact` excepts `outdated`. `NeverStricter` says
  that nobody is granted less for that.
- `isClosed` is tested before `state.mutex` is taken, so a closing device can be marked up,
  or its sockets reopened, once more; `NoPeerAfterClose` says what still holds. A
  `listen_port` line whose `SetMark` fails leaves sockets that nobody reads.
- A connection can add routes to a peer that another connection has removed, hence
  `overlapped`. A peer with the device's own key is created, although the comment at
  `uapi.go:235` says that it is ignored; `OwnKeyUnrouted` says that it gets no routes.
- `tai64n.Now` wraps its nanosecond field inside a second. Initiations to a peer are at
  least `RekeyTimeout` apart, which is why `Handshake` takes timestamps as growing.

## What is proved

The modules named `...Proofs` hold proofs, for every value of the constants. Each states an
inductive invariant first, with the reason why the properties are not inductive by
themselves, then a lemma for each step or group of steps, then the theorems. The
invariants were checked by TLC on instances like those of the runs, except for `Disciplined`
of `LocksProofs`: it quantifies over sets that TLC cannot enumerate, so TLC has only checked
what follows from it, such as `LockOrder`.

**HandshakeProofs: the table.** `TableCorrect`: `TableInv` is an invariant, for any number of
devices, workers and indices; `TypeCorrect`, `OwnersAlwaysEntered` and `EntriesAlwaysOwned`
follow. Neither `OwnersEntered` nor `EntriesOwned` is inductive by itself: retiring a key pair
deletes an index, which is harmless only if no other key pair and no handshake has it
(`SlotsDistinct`, and the fact that an entry names one owner), and a step for peer p
must not touch entries of other peers, which needs that a worker is never busy with its
own device (`NoSelfPeer`). The argument has two halves: lemmas about one peer and one
table (`Local...`: a new index, giving an index up, mapping it to a key pair, retiring a
key pair), and `LocalToGlobal`, which lifts a change that is right for one peer, and leaves
the others' entries alone, to the whole device. Then there is one lemma per action. The only
assumptions are that 0 is no index to be given out (`IndexAssumption`) and that `Nil` is
neither a key pair nor an entry (`NilAssumption`).

**HandshakeProofs: the keys.** Three more invariants, each using the ones before.

- `Agreed` (`Agreement`). A responder *claims* an ephemeral key when it creates a response: the
  response, the handshake record and the key pair derived from it are the same claim, and no
  two claims share an ephemeral. An initiator holds no claim, but rests on one: a response
  in the network, to an initiation it has sent. `IndicesAgree` (`SendIndexAgreed`) follows,
  because the key of the initiator is the key of exactly one claim.
- `AlwaysConfirmed` (`Confirmation`). A transport message is made with a key that an initiator
  has derived: its sender is that initiator, or a responder that was confirmed before. The
  invariant follows the message from the network, through the index table and the queue of
  opened elements, to the slot `next`, from which the key pair is promoted.
  `KeysConfirmed` (`KeyConfirmed`) follows.
- `AlwaysSerial` (`Serial`). As long as no two workers of a device are busy at once, an
  initiation from which the initiator has derived a key pair is used by nothing else: no
  handshake in progress and no worker refers to it. `KeysDerivedOnce` (`DerivedOnce`) follows.

**OutboundProofs.** `NoncesAreFresh`, `DoubleCheckNeverFires` (`NonceBelowLimit`: the second
comparison of `RoutineNonce` with `RejectAfterMessages` never finds the limit passed),
`SentIsSealed`, `LocksAreHeld` and `PacketsLeaveInOrder`, for any number of peers, workers and
elements. The elements of a peer form a *line*: what its sender holds, its outbound queue,
what `RoutineNonce` holds, its nonce queue. Along the line their numbers grow
(`LineSorted`), so an element is in one place, and an eviction or a release disturbs no other;
each key pair has counted the nonces given under it (`Counted`); an element with a nonce is
locked, dropped or sealed (`Guarded`); and while the device is open a locked element in
the sender's way is with somebody who will encrypt it (`Holding`). `OutboundAssumption` says
that the channels are buffered and `Nil` is no number.

**InboundProofs.** `OnlyOpenedAccepted`, `NothingAcceptedTwice`, `EndpointFollowsGenuine`, and
`ReceiverNotAbandoned`: while the device is open, an element for which the sequential receiver
has to wait is in the decryption queue or with a worker. This is the state half of
`ReceiverWaitEnds`; that the worker runs is a matter of fairness. The first three rest on the
flags of the elements (`Opening`), the last on where the elements are: each is in one place
(`Apart`), and a locked one is carried while the device is open (`Guarded`). `DatagramAssumption`
gives the fields of a datagram, `SizeAssumption` says that the channels are buffered.

The module also extends `ReplayFilter`, on whose promise the pipeline relies.
`RingAlwaysExact`: each bit of the ring is the truth about its counter;
`FilterImplementsWindow`: the filter refines `ReplayWindow`. They assume `FilterAssumption`:
sizes are positive and the window fits in the ring less one word, as the constants of
`replay.go` do. The invariant adds the types; the work is in the arithmetic of
words and slots: two counters of the words the ring holds share a slot only if they share
the word.

**TimersProofs.** For any number of attempts at a handshake, events and queue sizes
(`TimersAssumption`: they are natural numbers, queues have room). `KeyMaterialTimed`
(`KeysTimed`) and `StopSilences` (`StoppedSilent`) need that only an armed timer is ripe
(`Sound`), so that none fires that was stopped. The invariant also has the state halves of
three liveness properties. `WaitsAreTimed`: whenever `RoutineNonce` waits for a key pair, and is
not stranded, the next retransmission is timed or a signal is there to wake it.
`SilencesAreTimed` and `AnswersAreTimed`: while the peer is silent, or data is to be answered,
the timer is set or somebody is about to set it or to send, unless it is `Torn`. The two
routines do `Mod` and `Del` in halves, between which the other may act, so the inductive form is
about `isPending` and about where the routine is; what is armed follows. That a timer which is
set fires in the end, and so the rest of `PacketResolved`, `SilenceNoticed` and `DataAnswered`,
is a matter of fairness and left to TLC.

**LocksProofs.** For any number of connections and workers, and any selection of the other
goroutines. The locks have a rank: state, net, noise, routing, peers, routines, and then the peer
and its handshake. `LocksInOrder`: a goroutine asks only for locks above all those it has, with
two exceptions (`Excepted`): the response that is consumed, and the peer that is stopped under
`noise.mutex`. This is a fact about programs: `Leads` says that a program, begun with given
locks, only takes what it may and ends with given locks; it is closed under sequence, choice,
loop and holding a lock, and there is a lemma for each operation of the code (`...Keeps`). The
inductive invariant says that what is left of every operation is such a program for exactly the
locks its goroutine has now (`Disciplined`), besides the types, announced writers that still want
the lock (`PendingOK`), and `peer.routines` being a plain mutex without readers (`RoutinesOK`).

`ChangesTakePart` (`CircularWaitsChange`) and `WaitsAreExplained` (`CircularWaitsExplained`) follow:
in a circular wait without an exception each goroutine would wait for one on a higher `Level`,
and levels are bounded. A level is twice the rank of the lock that is waited for, and one more
for a writer that has announced itself; the wait of `Peer.Stop` for the routines comes after
those for `peer.routines`, that of `Close` for the workers after those for `state.mutex`.
`LocksAssumption` says that connections, workers and the other goroutines are different
goroutines.

**ConfigurationProofs.** `RunningPeersConfigured`, `RoutesLeadToPeers`, `NoRouteToSelf`, for any
keys and connections. `RunningAreConfigured` needs that `NewPeer` makes a new object. The model
reuses the names of objects to which nobody points any more, so this is a matter of counting
pointers; hence `ConfigurationAssumption`, that addresses and connections are finite. The
other two need what a connection knows of the peer it has selected (`Selection`).

**DeviceStateProofs.** `MutexExcludes`, `AlwaysSettled`, `InterfaceFollowed`, `ClosedForGood`, for
any number of peers, connections and callers of `Close`. `Progress` says what a change of state
has established at each of its steps, including one that found nothing to do and one that
could not open the sockets; `ChangingMarked` says when `state.changing` is set; `MutexHeld` says
who holds `state.mutex`. `DeviceStateAssumption` keeps the names of the goroutines apart.

**LoadProofs.** `CookieIsRecent`. `CheckMAC2` tests the age of the secret, not that of the
cookie; the invariant says that a cookie that still fits, wherever it is stored or on its way,
was made after the present secret. `CookiesAssumption`: sizes are positive, workers finite, and
the values that stand for no cookie are no addresses.

The module also extends `RateLimiter`, whose definitions have names of their own for that.
`LimiterAlwaysExact`: an address that is not `outdated` has exactly its tokens, and
`LimiterNeverStricter`: every address has at least those, under `LimiterAssumption`: a bucket
holds a packet, and is full again before it is collected, as with the constants of
`ratelimiter.go`. The invariant adds that no entry is in the table for two addresses, and that
what a worker holds is an entry of the address it serves or was replaced.

What remains is model-checked only, on the instances above. The liveness properties are
outside the prover's reach, as is `ENABLED`: `SenderWaitEnds`, `RoutinesEnd`, `ReceiverWaitEnds`,
`ReceiverEnds`, `RequestsEnd`, `EventuallyAdmitted`, and `PacketResolved`, `DataAnswered`,
`SilenceNoticed` and `PersistentAlive` of `Timers`. So is the routing table (`LookupIsReported`,
`NoStaleRoute`, `InsertIsExact`): its operators recurse over tries, and what they compute takes
induction over data, which the prover cannot do.

## Not modelled

- **Platform code** (`conn_linux.go`, `tun_*.go`, `uapi_linux.go`, ...) and `main.go`: system
  calls and start-up. What they deliver (packets, TUN events, connections, errors) are
  inputs of the modules.
- **Cryptography** below the level of "opens or not", and the encoding of messages:
  functions on bytes.
- **Get operations and lines that only store a value** (`preshared_key`, `endpoint`, `fwmark`):
  their locks are in `Locks`; what they print or store decides nothing in the other modules.
- **Packet lengths**: padding, and the arithmetic of length fields in `receive.go`.
- **Two things at a time.** A handshake worker handles the timers in one step in `Timers`;
  the callbacks that send initiations are one step as well. Two peers in one pipeline, or
  more packets than two together with stop, start and close, take TLC longer than is practical.
- **Device.Close** together with timers, cookies and configuration; it is in `Outbound`,
  `Inbound`, `DeviceState` and `Locks`.
