-------------------------- MODULE DeviceStateProofs --------------------------
(***************************************************************************)
(* Proofs about bringing a device up and down and closing it: that         *)
(* state.mutex excludes, and the three invariants of DeviceState, for any  *)
(* numbers of peers, configuration connections and callers of Close.       *)
(***************************************************************************)
EXTENDS DeviceState, TLAPS

-----------------------------------------------------------------------------
(* The inductive invariant.                                                *)

PeerState == {"absent", "stopped", "running", "hung"}

EventsAt == {"wait", "up", "setUp", "setDown", "guard", "lock", "bind", "peers", "done",
             "ended"}

CloserAt == {"call", "mark", "lock", "tun", "down", "wait", "peers", "finish", "returned"}

\* The types of the variables.
TypeOK ==
    /\ isUp \in BOOLEAN /\ isClosed \in BOOLEAN
    /\ changing \in BOOLEAN /\ current \in BOOLEAN
    /\ mutex \in Closer \cup {Nil, "events", "connection"}
    /\ bind \in {"closed", "unread", "open"}
    /\ peers \in [Peer -> PeerState]
    /\ events \in [pc : EventsAt, setUp : BOOLEAN, target : BOOLEAN]
    /\ conn \in [Connection -> Peer \cup {Nil}]
    /\ closer \in [Closer -> CloserAt]

\* The points at which deviceUpdateState, and those at which Close, holds state.mutex.
EventsHold == {"bind", "peers", "done"}

CloserHolds == {"tun", "down", "wait", "peers", "finish"}

\* state.mutex is held by whoever is between locking and unlocking it, so that no two
\* goroutines are.
MutexHeld ==
    /\ mutex = "events" <=> events.pc \in EventsHold
    /\ \A c \in Closer : mutex = c <=> closer[c] \in CloserHolds

\* isClosed is set by the first step of Close.
CloseBegun == (\E c \in Closer : closer[c] # "call") => isClosed

\* Sockets and peers agree with isUp.
Agreed ==
    /\ bind # "closed" => isUp
    /\ \A p \in Peer : peers[p] \notin {"absent", "hung"} => (peers[p] = "running" <=> isUp)

\* What a change of state has established by the time it gets to each of its steps.  A
\* change that finds nothing to do leaves what the one before it has made; one that could
\* not open the sockets is followed by another that closes them again.
Progress ==
    /\ events.pc \in {"wait", "up", "setUp", "setDown"} => isUp = current /\ Agreed
    /\ events.pc \in {"guard", "lock"} => (isUp = current => Agreed)
    /\ events.pc = "bind"  => events.target = isUp
    /\ events.pc = "peers" => events.target = isUp /\ (bind # "closed" => isUp)
    /\ events.pc = "done"  => (events.target = isUp => Agreed)

\* state.changing is set from UpdateGuard until the change is over, and only then.
ChangingMarked == changing <=> events.pc \in {"lock"} \cup EventsHold

\* setUp, which only the reader of events knows, covers isUp.
SetUpFollowed ==
    /\ events.pc \in {"up", "setUp"} => events.setUp
    /\ isUp /\ events.pc # "setDown" => events.setUp

\* The inductive invariant.  After Close has begun, only the mutex and the peers matter.
IInv ==
    /\ TypeOK /\ MutexHeld /\ CloseBegun /\ NoPeerAfterClose
    /\ ~isClosed => Progress /\ ChangingMarked /\ SetUpFollowed

-----------------------------------------------------------------------------
(* The steps keep it.                                                      *)

\* The program counter of the reader of events moves, and nothing else of its variables.
LEMMA EventsMove ==
    ASSUME TypeOK, NEW x \in EventsAt
    PROVE  /\ At(x) \in [pc : EventsAt, setUp : BOOLEAN, target : BOOLEAN]
           /\ At(x).pc = x /\ At(x).setUp = events.setUp /\ At(x).target = events.target
  BY SMTT(30) DEF TypeOK, At

\* An event arrives or the channel is closed; Up and Down as far as deviceUpdateState.
LEMMA StepEvent ==
    ASSUME IInv, EventUp \/ EventDown \/ Up \/ SetIsUp \/ EventsEnd
    PROVE  IInv'
  <1> USE EventsMove, DeviceStateAssumption
      DEF IInv, TypeOK, MutexHeld, CloseBegun, NoPeerAfterClose, Closed, Progress,
          ChangingMarked, SetUpFollowed, Agreed, EventsHold, CloserHolds, EventsAt
  <1>1. CASE EventUp
    BY <1>1 DEF EventUp
  <1>2. CASE EventDown
    BY <1>2 DEF EventDown
  <1>3. CASE Up
    BY <1>3 DEF Up
  <1>4. CASE SetIsUp
    BY <1>4 DEF SetIsUp
  <1>5. CASE EventsEnd
    BY <1>5 DEF EventsEnd
  <1> QED  BY <1>1, <1>2, <1>3, <1>4, <1>5

\* deviceUpdateState up to the comparison of isUp and current.
LEMMA StepCompare ==
    ASSUME IInv, UpdateGuard \/ UpdateCompare
    PROVE  IInv'
  <1> USE EventsMove, DeviceStateAssumption DEF IInv, EventsHold
  <1>1. CASE UpdateGuard
    BY <1>1 DEF UpdateGuard, TypeOK, MutexHeld, CloseBegun, NoPeerAfterClose, Closed,
                Progress, ChangingMarked, SetUpFollowed, Agreed, CloserHolds, EventsAt
  <1>2. CASE UpdateCompare
    <2>1. PICK x \in {"wait", "bind"} :
              /\ events' \in [pc : EventsAt, setUp : BOOLEAN, target : BOOLEAN]
              /\ events'.pc = x /\ events'.setUp = events.setUp
              /\ x = "wait" => isUp = current /\ changing' = FALSE /\ mutex' = mutex
              /\ x = "bind" => /\ isUp # current /\ changing' = changing
                               /\ mutex' = "events" /\ events'.target = isUp
      <3>1. CASE isUp = current
        BY <1>2, <3>1 DEF UpdateCompare, EventsAt
      <3>2. CASE isUp # current
        BY <1>2, <3>2, ZenonT(30) DEF UpdateCompare, EventsAt, TypeOK
      <3> QED  BY <3>1, <3>2, Zenon
    <2>2. events.pc = "lock" /\ mutex = Nil
      BY <1>2 DEF UpdateCompare
    <2>3. UNCHANGED <<isUp, isClosed, current, bind, peers, conn, closer>>
      BY <1>2 DEF UpdateCompare
    <2>4. TypeOK'
      BY <2>1, <2>3, Zenon DEF TypeOK
    <2>5. MutexHeld'
      BY <2>1, <2>2, <2>3 DEF MutexHeld
    <2>6. CloseBegun' /\ NoPeerAfterClose'
      BY <2>3 DEF CloseBegun, NoPeerAfterClose, Closed
    <2>7. ~isClosed => SetUpFollowed' /\ ChangingMarked'
      <3>1. ~isClosed => SetUpFollowed'
        BY <2>1, <2>2, <2>3 DEF SetUpFollowed
      <3>2. ~isClosed /\ x = "wait" => ChangingMarked'
        BY <2>1, Zenon DEF ChangingMarked
      <3>3. ~isClosed => changing
        BY <2>2, Zenon DEF ChangingMarked
      <3>4. ~isClosed /\ x = "bind" => changing' /\ events'.pc \in EventsHold
        BY <2>1, <3>3, SMT
      <3>5. ~isClosed /\ x = "bind" => ChangingMarked'
        BY <3>4, Zenon DEF ChangingMarked
      <3> QED  BY <3>1, <3>2, <3>5, Zenon
    <2>8. ~isClosed => Progress'
      BY <2>1, <2>2, <2>3 DEF Progress, Agreed
    <2> QED  BY <2>3, <2>4, <2>5, <2>6, <2>7, <2>8, Zenon
  <1> QED  BY <1>1, <1>2

\* The sockets: BindUpdate may fail, and then the device is not up.
LEMMA StepBind ==
    ASSUME IInv, UpdateBind \/ BindUpdate
    PROVE  IInv'
  <1> USE EventsMove, DeviceStateAssumption
      DEF IInv, TypeOK, MutexHeld, CloseBegun, NoPeerAfterClose, Closed, Progress,
          ChangingMarked, SetUpFollowed, Agreed, EventsHold, CloserHolds, EventsAt
  <1>1. CASE BindUpdate
    BY <1>1 DEF BindUpdate, BindUpdated
  <1>2. CASE UpdateBind
    <2>1. bind' \in {"closed", "unread", "open"}
      BY <1>2, Zenon DEF UpdateBind, BindUpdated
    <2>2. CASE events' = At("done") /\ isUp' = FALSE
      BY <1>2, <2>1, <2>2, ZenonT(30) DEF UpdateBind
    <2>3. CASE events' = At("peers") /\ isUp' = isUp
      BY <1>2, <2>1, <2>3 DEF UpdateBind, BindUpdated
    <2> QED  BY <1>2, <2>2, <2>3, Zenon DEF UpdateBind
  <1> QED  BY <1>1, <1>2

\* The peers are started or stopped, and the change is over.
LEMMA StepPeers ==
    ASSUME IInv, UpdatePeers \/ UpdateDone
    PROVE  IInv'
  <1> USE EventsMove, DeviceStateAssumption DEF IInv
  <1>1. CASE UpdatePeers
    BY <1>1 DEF UpdatePeers, Started, Stopped, PeerState, TypeOK, MutexHeld, CloseBegun,
                NoPeerAfterClose, Closed, Progress, ChangingMarked, SetUpFollowed, Agreed,
                EventsHold, CloserHolds, EventsAt
  <1>2. CASE UpdateDone
    <2>1. /\ events.pc = "done" /\ events' = At("guard")
          /\ current' = events.target /\ changing' = FALSE /\ mutex' = Nil
          /\ UNCHANGED <<isUp, isClosed, bind, peers, conn, closer>>
      BY <1>2, Zenon DEF UpdateDone
    <2>2. TypeOK'
      BY <2>1, ZenonT(30) DEF TypeOK, EventsAt
    <2>3. MutexHeld'
      BY <2>1, <2>2 DEF MutexHeld, TypeOK, EventsHold, EventsAt
    <2>4. CloseBegun' /\ NoPeerAfterClose'
      BY <2>1 DEF CloseBegun, NoPeerAfterClose, Closed
    <2>5. ~isClosed => Progress' /\ ChangingMarked' /\ SetUpFollowed'
      BY <2>1, SMTT(30)
         DEF Progress, ChangingMarked, SetUpFollowed, Agreed, EventsHold, EventsAt
    <2> QED  BY <2>1, <2>2, <2>3, <2>4, <2>5
  <1> QED  BY <1>1, <1>2

\* The configuration connections.
LEMMA StepConnection ==
    ASSUME IInv,
           \/ \E c \in Connection : AddPeer(c) \/ \E p \in Peer : NewPeer(c, p)
           \/ \E p \in Peer : RemovePeer(p)
           \/ RemoveAllPeers
    PROVE  IInv'
  <1> USE DeviceStateAssumption
      DEF IInv, TypeOK, MutexHeld, CloseBegun, NoPeerAfterClose, Closed, Progress,
          ChangingMarked, SetUpFollowed, Agreed, EventsHold, CloserHolds, PeerState
  <1>1. ASSUME NEW c \in Connection, AddPeer(c)  PROVE IInv'
    BY <1>1 DEF AddPeer
  <1>2. ASSUME NEW c \in Connection, NEW p \in Peer, NewPeer(c, p)  PROVE IInv'
    BY <1>2 DEF NewPeer
  <1>3. ASSUME NEW p \in Peer, RemovePeer(p)  PROVE IInv'
    BY <1>3 DEF RemovePeer
  <1>4. CASE RemoveAllPeers
    BY <1>4, SMTT(30) DEF RemoveAllPeers, Removed
  <1> QED  BY <1>1, <1>2, <1>3, <1>4

\* Device.Close.
LEMMA StepClose ==
    ASSUME IInv, NEW c \in Closer, Close(c) \/ Closing(c)
    PROVE  IInv'
  <1> USE DeviceStateAssumption
      DEF IInv, TypeOK, MutexHeld, CloseBegun, NoPeerAfterClose, Closed, EventsHold,
          CloserHolds, CloserAt, PeerState
  <1>1. CASE Close(c)
    BY <1>1 DEF Close, Progress, ChangingMarked, SetUpFollowed, Agreed
  <1>2. CASE CloseMark(c)
    BY <1>2 DEF CloseMark
  <1>3. CASE CloseLock(c)
    BY <1>3 DEF CloseLock
  <1>4. CASE CloseBind(c)
    BY <1>4, ZenonT(30) DEF CloseBind
  <1>5. CASE CloseDown(c)
    BY <1>5, ZenonT(30) DEF CloseDown
  <1>6. CASE ClosePeers(c)
    BY <1>6, ZenonT(30) DEF ClosePeers, Removed
  <1>7. CASE CloseFinish(c)
    BY <1>7, ZenonT(30) DEF CloseFinish
  <1>8. CASE CloseFlush(c)
    BY <1>8, ZenonT(30) DEF CloseFlush
  <1> QED  BY <1>1, <1>2, <1>3, <1>4, <1>5, <1>6, <1>7, <1>8 DEF Closing

\* Somebody comes to wait for ever: no peer is started by that, and state.mutex is not
\* released.
LEMMA StepHang ==
    ASSUME IInv, Hang
    PROVE  IInv'
  <1> USE DeviceStateAssumption
  <1>1. ASSUME NEW done \in [Peer -> {"absent", "stopped"}], NEW locks, StopHangs(done, locks),
               UNCHANGED <<isUp, isClosed, mutex, changing, current, bind, events, conn, closer>>,
               events.pc = "peers" \/ done = Removed
        PROVE  IInv'
    <2>1. peers' \in [Peer -> PeerState]
      BY <1>1 DEF StopHangs, PeerState, IInv, TypeOK
    <2>2. \A p \in Peer : peers'[p] \in {peers[p], "hung", done[p]}
      BY <1>1 DEF StopHangs, IInv, TypeOK
    <2>3. TypeOK' /\ MutexHeld' /\ CloseBegun'
      BY <1>1, <2>1, Zenon DEF IInv, TypeOK, MutexHeld, CloseBegun
    <2>4. NoPeerAfterClose'
      BY <1>1, <2>2 DEF IInv, NoPeerAfterClose, Closed
    <2>5. Agreed /\ events.pc # "peers" => Agreed'
      BY <1>1, <2>2 DEF Agreed, Removed
    <2>6. ~isClosed => Progress' /\ ChangingMarked' /\ SetUpFollowed'
      BY <1>1, <2>5 DEF IInv, Progress, ChangingMarked, SetUpFollowed
    <2> QED  BY <1>1, <2>3, <2>4, <2>6 DEF IInv
  <1>2. Removed \in [Peer -> {"absent", "stopped"}] /\ Stopped \in [Peer -> {"absent", "stopped"}]
    BY DEF Removed, Stopped
  <1>3. CASE UpdatePeersHangs
    BY <1>1, <1>2, <1>3, Zenon DEF UpdatePeersHangs
  <1>4. CASE RemovalHangs
    BY <1>1, <1>2, <1>4, Zenon DEF RemovalHangs
  <1>5. ASSUME NEW c \in Closer, ClosePeersHangs(c)  PROVE IInv'
    BY <1>1, <1>2, <1>5, Zenon DEF ClosePeersHangs
  <1>6. ASSUME NEW c \in Connection, AddPeerHangs(c)  PROVE IInv'
    BY <1>6 DEF AddPeerHangs, IInv, TypeOK, MutexHeld, CloseBegun, NoPeerAfterClose, Closed,
                Progress, ChangingMarked, SetUpFollowed, Agreed
  <1>7. CASE BindHangs \/ NoiseHangs
    BY <1>7 DEF BindHangs, NoiseHangs, IInv, TypeOK, MutexHeld, CloseBegun, NoPeerAfterClose,
                Closed, Progress, ChangingMarked, SetUpFollowed, Agreed
  <1> QED  BY <1>3, <1>4, <1>5, <1>6, <1>7 DEF Hang

-----------------------------------------------------------------------------
(* The theorems.                                                           *)

\* IInv holds in every state of every behaviour.
THEOREM Invariance == Spec => []IInv
  <1>1. Init => IInv
    <2> SUFFICES ASSUME Init PROVE IInv
      OBVIOUS
    <2>1. TypeOK
      BY Zenon DEF Init, TypeOK, EventsAt, CloserAt, PeerState, Removed
    <2>2. MutexHeld
      BY DeviceStateAssumption DEF Init, MutexHeld, EventsHold, CloserHolds
    <2>3. CloseBegun /\ NoPeerAfterClose
      BY DEF Init, Removed, CloseBegun, NoPeerAfterClose, Closed
    <2>4. Progress /\ ChangingMarked /\ SetUpFollowed
      BY Zenon DEF Init, Removed, Progress, ChangingMarked, SetUpFollowed, Agreed, EventsHold
    <2> QED  BY <2>1, <2>2, <2>3, <2>4 DEF IInv
  <1>2. IInv /\ [Next]_vars => IInv'
    <2> SUFFICES ASSUME IInv, [Next]_vars PROVE IInv'
      OBVIOUS
    <2>1. CASE UNCHANGED vars
      BY <2>1 DEF vars, IInv, TypeOK, MutexHeld, CloseBegun, NoPeerAfterClose, Closed,
                  Progress, ChangingMarked, SetUpFollowed, Agreed
    <2>2. CASE Next
      BY <2>2, StepEvent, StepCompare, StepBind, StepPeers, StepConnection, StepClose, StepHang
         DEF Next, UpdateState
    <2> QED  BY <2>1, <2>2
  <1> QED  BY <1>1, <1>2, PTL DEF Spec

\* state.mutex excludes: deviceUpdateState, or one call of Close, holds it exactly while it
\* is between locking and unlocking it.
THEOREM MutexExcludes == Spec => []MutexHeld
  BY Invariance, PTL DEF IInv

\* Between two changes of state the sockets and the peers agree with isUp.
THEOREM AlwaysSettled == Spec => []Settled
  <1>1. IInv => Settled
    BY DEF IInv, Settled, Progress, Agreed
  <1> QED  BY <1>1, Invariance, PTL

\* The device is up only if the interface is.
THEOREM InterfaceFollowed == Spec => []FollowsInterface
  <1>1. IInv => FollowsInterface
    BY DEF IInv, FollowsInterface, SetUpFollowed
  <1> QED  BY <1>1, Invariance, PTL

\* No peer runs on a closed device.
THEOREM ClosedForGood == Spec => []NoPeerAfterClose
  BY Invariance, PTL DEF IInv

=============================================================================
