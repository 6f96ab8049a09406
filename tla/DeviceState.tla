----------------------------- MODULE DeviceState -----------------------------
(***************************************************************************)
(* Bringing a device up and down, changing its configuration and closing   *)
(* it (deviceUpdateState, Up, Down, Close, RemovePeer and RemoveAllPeers   *)
(* of device.go, BindUpdate and BindClose of conn.go, NewPeer of peer.go,  *)
(* RoutineTUNEventReader of tun.go).                                       *)
(*                                                                         *)
(* Three kinds of goroutines meet here: the reader of TUN events, the      *)
(* connections of the configuration socket, and the callers of Close (the  *)
(* main goroutine, and the TUN reader when reading fails).  state.mutex is *)
(* held over several steps; the other locks cover one step each, unless    *)
(* their holder waits for ever: Peer.Stop does not return if a routine of  *)
(* the peer waits for an element that nobody releases (Outbound, Inbound), *)
(* or for a lock that the caller of Stop keeps (Locks).                    *)
(***************************************************************************)
EXTENDS Naturals

CONSTANTS Peer,            \* public keys that are configured as peers
          Connection,      \* configuration connections
          Closer,          \* callers of Device.Close
          Nil

\* state.mutex is held by the TUN reader ("events"), by a caller of Close, by a connection
\* that waits for ever ("connection"), or by nobody.
ASSUME DeviceStateAssumption ==
    /\ Nil \notin Peer \cup Closer
    /\ {"events", "connection"} \cap (Closer \cup {Nil}) = {}

VARIABLES isUp, isClosed,      \* device.isUp, device.isClosed
          mutex,               \* who holds device.state.mutex
          changing, current,   \* device.state.changing, device.state.current
          bind,                \* device.net.bind: "closed", "open", or open but unread
          peers,               \* device.peers.keyMap and peer.isRunning
          events,              \* RoutineTUNEventReader
          conn,                \* the peer each connection is about to create
          closer,              \* the callers of Close
          stuck                \* those of noise, peers and net.mutex that are never released

vars == <<isUp, isClosed, mutex, changing, current, bind, peers, events, conn, closer, stuck>>

-----------------------------------------------------------------------------
(* Peers and sockets.                                                      *)

\* Peer.Start refuses to start on a closed device.
Started == [p \in Peer |-> IF peers[p] = "absent" \/ isClosed THEN peers[p] ELSE "running"]

Stopped == [p \in Peer |-> IF peers[p] = "absent" THEN "absent" ELSE "stopped"]

\* None of these locks is held for ever.
Free(locks) == stuck \cap locks = {}

\* noise.mutex and peers.mutex, which RemovePeer and RemoveAllPeers hold.
Removal == {"noise", "peers"}

\* A loop over the peers, under these locks, that makes some of them what done says gets to
\* one whose Peer.Stop never returns.
StopHangs(done, locks) ==
    \E p \in Peer, before \in SUBSET Peer :
        /\ peers[p] = "running" /\ p \notin before
        /\ peers' = [[q \in Peer |-> IF q \in before THEN done[q] ELSE peers[q]]
                        EXCEPT ![p] = "hung"]
        /\ stuck' = stuck \cup locks

Removed == [p \in Peer |-> "absent"]

\* The sockets after BindUpdate: closed first, reopened if the device is up.  That may
\* fail, or setting fwmark may fail, before the routines that read from them are started.
BindUpdated(up) == IF up THEN {"closed", "unread", "open"} ELSE {"closed"}

-----------------------------------------------------------------------------
(* RoutineTUNEventReader, Up, Down and deviceUpdateState.                  *)

At(pc) == [events EXCEPT !.pc = pc]

EventUpForgotten ==        \* mutant: setUp is not set
    /\ events.pc = "wait" /\ ~events.setUp
    /\ events' = [pc |-> "up", setUp |-> FALSE, target |-> FALSE]
    /\ UNCHANGED <<isUp, isClosed, mutex, changing, current, bind, peers, conn, closer, stuck>>

\* Updates of the MTU change none of this state.
EventUp ==
    /\ events.pc = "wait" /\ ~events.setUp
    /\ events' = [pc |-> "up", setUp |-> TRUE, target |-> FALSE]
    /\ UNCHANGED <<isUp, isClosed, mutex, changing, current, bind, peers, conn, closer, stuck>>

EventDown ==
    /\ events.pc = "wait" /\ events.setUp
    /\ events' = [pc |-> "setDown", setUp |-> FALSE, target |-> FALSE]
    /\ UNCHANGED <<isUp, isClosed, mutex, changing, current, bind, peers, conn, closer, stuck>>

\* Up, as far as its guard.
Up ==
    /\ events.pc = "up"
    /\ events' = At(IF isClosed THEN "wait" ELSE "setUp")
    /\ UNCHANGED <<isUp, isClosed, mutex, changing, current, bind, peers, conn, closer, stuck>>

SetIsUp ==
    /\ events.pc \in {"setUp", "setDown"}
    /\ mutex = Nil
    /\ isUp' = (events.pc = "setUp")
    /\ events' = At("guard")
    /\ UNCHANGED <<isClosed, mutex, changing, current, bind, peers, conn, closer, stuck>>

\* state.changing.Swap(true)
UpdateGuard ==
    /\ events.pc = "guard"
    /\ changing' = TRUE
    /\ events' = At(IF changing THEN "wait" ELSE "lock")
    /\ UNCHANGED <<isUp, isClosed, mutex, current, bind, peers, conn, closer, stuck>>

UpdateCompare ==
    /\ events.pc = "lock"
    /\ mutex = Nil
    /\ \/ /\ isUp = current
          /\ changing' = FALSE
          /\ events' = At("wait")
          /\ UNCHANGED mutex
       \/ /\ isUp # current
          /\ mutex' = "events"
          /\ events' = [events EXCEPT !.pc = "bind", !.target = isUp]
          /\ UNCHANGED changing
    /\ UNCHANGED <<isUp, isClosed, current, bind, peers, conn, closer, stuck>>

\* BindUpdate, which looks at isUp again and may fail, or BindClose.
UpdateBind ==
    /\ events.pc = "bind"
    /\ Free({"net"}) /\ (events.target => Free({"peers"}))
    /\ bind' \in BindUpdated(events.target /\ isUp)
    /\ \/ /\ events.target /\ isUp /\ bind' # "open"
          /\ isUp' = FALSE
          /\ events' = At("done")
       \/ /\ events.target /\ isUp => bind' = "open"
          /\ events' = At("peers")
          /\ UNCHANGED isUp
    /\ UNCHANGED <<isClosed, mutex, changing, current, peers, conn, closer, stuck>>

UpdatePeers ==
    /\ events.pc = "peers"
    /\ Free({"peers"})
    /\ peers' = IF events.target THEN Started ELSE Stopped
    /\ events' = At("done")
    /\ UNCHANGED <<isUp, isClosed, mutex, changing, current, bind, conn, closer, stuck>>

UpdatePeersHangs ==
    /\ events.pc = "peers" /\ ~events.target
    /\ Free({"peers"})
    /\ StopHangs(Stopped, {"peers"})
    /\ UNCHANGED <<isUp, isClosed, mutex, changing, current, bind, events, conn, closer>>

\* The state variables are updated and deviceUpdateState calls itself.
UpdateDone ==
    /\ events.pc = "done"
    /\ current' = events.target
    /\ changing' = FALSE
    /\ mutex' = Nil
    /\ events' = At("guard")
    /\ UNCHANGED <<isUp, isClosed, bind, peers, conn, closer, stuck>>

\* The TUN device has closed the channel of events.
EventsEnd ==
    /\ events.pc = "wait"
    /\ \E c \in Closer : closer[c] \notin {"call", "mark", "lock", "tun"}
    /\ events' = At("ended")
    /\ UNCHANGED <<isUp, isClosed, mutex, changing, current, bind, peers, conn, closer, stuck>>

-----------------------------------------------------------------------------
(* The configuration connections.                                          *)

\* listen_port
BindUpdate ==
    /\ Free({"net", "peers"})
    /\ bind' \in BindUpdated(isUp)
    /\ UNCHANGED <<isUp, isClosed, mutex, changing, current, peers, events, conn, closer, stuck>>

\* BindUpdate or BindSetMark gets net.mutex, but waits for peers.mutex for ever.
BindHangs ==
    /\ Free({"net"}) /\ ~Free({"peers"})
    /\ stuck' = stuck \cup {"net"}
    /\ UNCHANGED <<isUp, isClosed, mutex, changing, current, bind, peers, events, conn, closer>>

\* public_key of an unknown peer: NewPeer, as far as its guard.
NewPeer(c, p) ==
    /\ conn[c] = Nil
    /\ peers[p] = "absent"
    /\ ~isClosed
    /\ conn' = [conn EXCEPT ![c] = p]
    /\ UNCHANGED <<isUp, isClosed, mutex, changing, current, bind, peers, events, closer, stuck>>

AddPeerStarted(c) ==        \* mutant: started whether or not the device is up
    /\ conn[c] # Nil
    /\ mutex = Nil /\ Free(Removal)
    /\ conn' = [conn EXCEPT ![c] = Nil]
    /\ peers' = IF peers[conn[c]] = "absent"
                THEN [peers EXCEPT ![conn[c]] = "running"]
                ELSE peers
    /\ UNCHANGED <<isUp, isClosed, mutex, changing, current, bind, events, closer, stuck>>

\* The rest of NewPeer, under state.mutex: another connection may have been faster.
AddPeer(c) ==
    /\ conn[c] # Nil
    /\ mutex = Nil /\ Free(Removal)
    /\ conn' = [conn EXCEPT ![c] = Nil]
    /\ peers' = IF peers[conn[c]] = "absent"
                THEN [peers EXCEPT ![conn[c]] =
                        IF isUp /\ ~isClosed THEN "running" ELSE "stopped"]
                ELSE peers
    /\ UNCHANGED <<isUp, isClosed, mutex, changing, current, bind, events, closer, stuck>>

\* NewPeer gets state.mutex, but waits for another lock for ever.
AddPeerHangs(c) ==
    /\ conn[c] # Nil
    /\ mutex = Nil /\ ~Free(Removal)
    /\ mutex' = "connection"
    /\ UNCHANGED <<isUp, isClosed, changing, current, bind, peers, events, conn, closer, stuck>>

RemovePeer(p) ==
    /\ peers[p] # "absent"
    /\ Free(Removal)
    /\ peers' = [peers EXCEPT ![p] = "absent"]
    /\ UNCHANGED <<isUp, isClosed, mutex, changing, current, bind, events, conn, closer, stuck>>

\* replace_peers
RemoveAllPeers ==
    /\ Free(Removal)
    /\ peers' = Removed
    /\ UNCHANGED <<isUp, isClosed, mutex, changing, current, bind, events, conn, closer, stuck>>

\* RemoveAllPeers or, with no peer before the one that is stopped, RemovePeer.
RemovalHangs ==
    /\ Free(Removal)
    /\ StopHangs(Removed, Removal)
    /\ UNCHANGED <<isUp, isClosed, mutex, changing, current, bind, events, conn, closer>>

\* A response, an initiation and a writer of noise.mutex wait for each other (see Locks).
NoiseHangs ==
    /\ Free({"noise"})
    /\ stuck' = stuck \cup {"noise"}
    /\ UNCHANGED <<isUp, isClosed, mutex, changing, current, bind, peers, events, conn, closer>>

-----------------------------------------------------------------------------
(* Device.Close.                                                           *)

Close(c) ==
    /\ closer[c] = "call"
    /\ isClosed' = TRUE
    /\ closer' = [closer EXCEPT ![c] = IF isClosed THEN "returned" ELSE "mark"]
    /\ UNCHANGED <<isUp, mutex, changing, current, bind, peers, events, conn, stuck>>

CloseMark(c) ==
    /\ closer[c] = "mark"
    /\ changing' = TRUE
    /\ closer' = [closer EXCEPT ![c] = "lock"]
    /\ UNCHANGED <<isUp, isClosed, mutex, current, bind, peers, events, conn, stuck>>

CloseLock(c) ==
    /\ closer[c] = "lock"
    /\ mutex = Nil
    /\ mutex' = c
    /\ closer' = [closer EXCEPT ![c] = "tun"]
    /\ UNCHANGED <<isUp, isClosed, changing, current, bind, peers, events, conn, stuck>>

\* The TUN device and the sockets are closed.
CloseBind(c) ==
    /\ closer[c] = "tun" /\ Free({"net"})
    /\ bind' = "closed"
    /\ closer' = [closer EXCEPT ![c] = "down"]
    /\ UNCHANGED <<isUp, isClosed, mutex, changing, current, peers, events, conn, stuck>>

\* signals.stop is closed.
CloseDown(c) ==
    /\ closer[c] = "down"
    /\ isUp' = FALSE
    /\ closer' = [closer EXCEPT ![c] = "wait"]
    /\ UNCHANGED <<isClosed, mutex, changing, current, bind, peers, events, conn, stuck>>

\* stopping.Wait: the workers have ended, none of which waits for a lock.  The queues are
\* flushed (see Outbound and Inbound).
CloseFlush(c) ==
    /\ closer[c] = "wait" /\ stuck = {}
    /\ closer' = [closer EXCEPT ![c] = "peers"]
    /\ UNCHANGED <<isUp, isClosed, mutex, changing, current, bind, peers, events, conn, stuck>>

ClosePeersKept(c) ==        \* mutant: the peers are not removed
    /\ closer[c] = "peers"
    /\ closer' = [closer EXCEPT ![c] = "finish"]
    /\ UNCHANGED <<isUp, isClosed, mutex, changing, current, bind, peers, events, conn, stuck>>

ClosePeersLocking(c) ==        \* mutant: RemoveAllPeers takes state.mutex as NewPeer does
    /\ closer[c] = "peers" /\ Free(Removal)
    /\ mutex = Nil
    /\ peers' = Removed
    /\ closer' = [closer EXCEPT ![c] = "finish"]
    /\ UNCHANGED <<isUp, isClosed, mutex, changing, current, bind, events, conn, stuck>>

ClosePeers(c) ==
    /\ closer[c] = "peers" /\ Free(Removal)
    /\ peers' = Removed
    /\ closer' = [closer EXCEPT ![c] = "finish"]
    /\ UNCHANGED <<isUp, isClosed, mutex, changing, current, bind, events, conn, stuck>>

ClosePeersHangs(c) ==
    /\ closer[c] = "peers" /\ Free(Removal)
    /\ StopHangs(Removed, Removal)
    /\ UNCHANGED <<isUp, isClosed, mutex, changing, current, bind, events, conn, closer>>

CloseFinish(c) ==
    /\ closer[c] = "finish"
    /\ changing' = FALSE
    /\ mutex' = Nil
    /\ closer' = [closer EXCEPT ![c] = "returned"]
    /\ UNCHANGED <<isUp, isClosed, current, bind, peers, events, conn, stuck>>

-----------------------------------------------------------------------------

Init ==
    /\ isUp = FALSE /\ isClosed = FALSE
    /\ mutex = Nil /\ changing = FALSE /\ current = FALSE
    /\ bind = "closed"
    /\ peers = Removed
    /\ events = [pc |-> "wait", setUp |-> FALSE, target |-> FALSE]
    /\ conn = [c \in Connection |-> Nil]
    /\ closer = [c \in Closer |-> "call"]
    /\ stuck = {}

UpdateState == UpdateGuard \/ UpdateCompare \/ UpdateBind \/ UpdatePeers \/ UpdateDone

Closing(c) ==
    \/ CloseMark(c) \/ CloseLock(c) \/ CloseBind(c) \/ CloseDown(c) \/ CloseFlush(c)
    \/ ClosePeers(c) \/ CloseFinish(c)

\* Somebody comes to wait for ever.
Hang ==
    \/ UpdatePeersHangs \/ BindHangs \/ RemovalHangs \/ NoiseHangs
    \/ \E c \in Connection : AddPeerHangs(c)
    \/ \E c \in Closer : ClosePeersHangs(c)

Next ==
    \/ EventUp \/ EventDown \/ Up \/ SetIsUp \/ UpdateState \/ EventsEnd
    \/ BindUpdate
    \/ \E c \in Connection : AddPeer(c) \/ \E p \in Peer : NewPeer(c, p)
    \/ \E p \in Peer : RemovePeer(p)
    \/ RemoveAllPeers
    \/ \E c \in Closer : Close(c) \/ Closing(c)
    \/ Hang

\* The goroutines that are in the middle of an operation run.  Go's mutex hands the
\* lock to a waiter that has starved for a millisecond: hence the strong fairness of
\* the steps that take state.mutex.
Fairness ==
    /\ WF_vars(Up \/ UpdateState)
    /\ SF_vars(SetIsUp) /\ SF_vars(UpdateCompare)
    /\ \A c \in Closer : WF_vars(Closing(c)) /\ SF_vars(CloseLock(c))

Spec == Init /\ [][Next]_vars

FairSpec == Spec /\ Fairness

-----------------------------------------------------------------------------
(* Properties.                                                             *)

\* Between two changes of state everything agrees: the sockets are open only if the
\* device is up, and a peer runs exactly if the device is up, even a peer that was
\* added or sockets that were reopened while a change was under way.  The exception is a
\* peer that is being removed by a call that never returns.
Settled ==
    events.pc = "wait" /\ ~isClosed =>
        /\ current = isUp
        /\ bind # "closed" => isUp
        /\ \A p \in Peer : peers[p] \notin {"absent", "hung"} => (peers[p] = "running" <=> isUp)

\* Once the events are dealt with, the device is up only if the interface is (it may
\* be down although the interface is up, if the sockets could not be opened).
FollowsInterface == events.pc = "wait" /\ isUp /\ ~isClosed => events.setUp

\* Close has been called, and every call of it is past removing the peers.
Closed == isClosed /\ \A c \in Closer : closer[c] \in {"call", "finish", "returned"}

\* No peer runs on a device that has been closed, although a call of Up or of NewPeer
\* may have passed its test of isClosed before.
NoPeerAfterClose == Closed => \A p \in Peer : peers[p] # "running"

\* A requested change of state is made, by deviceUpdateState itself or by the call it
\* leaves the change to, and Close returns, unless a Peer.Stop never does or goroutines
\* wait for each other in one of the ways that Locks describes.
RequestsEnd ==
    /\ (isUp # current) ~> (isUp = current \/ isClosed \/ stuck # {})
    /\ \A c \in Closer : (closer[c] # "call") ~> (closer[c] = "returned" \/ stuck # {})

=============================================================================
