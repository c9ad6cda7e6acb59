--------------------------- MODULE StreamLifecycle ---------------------------
(***************************************************************************)
(* Opening, using and closing the streams multiplexed over one connection  *)
(* (libcore/src/network/MultiplexedSocket.cpp and TCPStream.cpp).          *)
(*                                                                         *)
(* A connection is a set of TCP sockets between two ends.  A stream is     *)
(* known to the peer only by its id.  The first packet with an unknown id  *)
(* opens the stream at the peer; a stream is closed by a Close control     *)
(* packet broadcast on every socket, and the peer answers with an Ack      *)
(* broadcast on every socket.  An id is used again for later streams.      *)
(*                                                                         *)
(* User threads call cloneFrom, send and close; each end has one reactor   *)
(* thread, which runs receiveFullChunk.  Callbacks registered by user      *)
(* threads wait in mCallbackRegistration until the reactor commits them.   *)
(* A stream here is one incarnation: messages carry it as a ghost, so that *)
(* the properties can tell two streams with the same id apart.             *)
(*                                                                         *)
(* The connection is in the phase CONNECTED throughout.  A send and its    *)
(* bracket on mSendStatus are one step (module TCPStream shows why no send *)
(* is under way once closeSendStatus has returned).                        *)
(***************************************************************************)
EXTENDS Integers, SequencesExt

CONSTANTS
  NumSockets,   \* TCP sockets per connection (3 in the code)
  MaxStreams,   \* bound: stream incarnations in a behaviour
  MaxData,      \* bound: MaxData[e][g] packets end e sends on stream g
  Openers,      \* the ends whose users clone new streams
  Closers,      \* the ends whose users call close()
  Refusers      \* the ends whose substream callback sets no callbacks

Connector == "connector"
Listener  == "listener"
Ends      == {Connector, Listener}

ASSUME LifecycleAssumption ==
  /\ NumSockets \in Nat \ {0}
  /\ MaxStreams \in Nat \ {0}
  /\ MaxData \in [Ends -> [1..MaxStreams -> Nat]]
  /\ Openers \subseteq Ends /\ Closers \subseteq Ends /\ Refusers \subseteq Ends

VARIABLES
  chan,      \* chan[e][s]: packets e sent on socket s that the peer has not read
  ms,        \* ms[e]: the state of the MultiplexedSocket of e
  reactor,   \* reactor[e]: what the reactor of e does after receiveFullChunk began
  idOf,      \* the StreamID of each incarnation
  status,    \* status[e][g]: the TCPStream of e and its mSendStatus
  closing,   \* closing[e][g]: how far a close() by the user of e has come
  sent,      \* sent[e][g]: packets e has sent on g
  got,       \* got[e][g]: packets given to the callback of stream g of e
  told,      \* told[e][g]: stream g of e got the Disconnected callback
  offered,   \* offered[e][g]: times g was given to the substream callback of e
  ignored    \* packets dropped by receiveFullChunk

vars == <<chan, ms, reactor, idOf, status, closing, sent, got, told, offered,
          ignored>>

ghostVars == <<sent, got, told, offered, ignored>>

-----------------------------------------------------------------------------

Peer(e) == IF e = Connector THEN Listener ELSE Connector

Streams == 1..MaxStreams
Sockets == 1..NumSockets
Ids     == 1..(2 * MaxStreams + 1)
None    == 0       \* no stream (a NULL callback)

Data(g, n, ordered) ==
  [type |-> "data", id |-> idOf[g], stream |-> g, n |-> n, ordered |-> ordered]

Control(code, id, g) ==
  [type |-> code, id |-> id, stream |-> g, n |-> 0, ordered |-> TRUE]

(***************************************************************************)
(* The socket an ordered packet of a stream takes (the hash of its id).    *)
(***************************************************************************)
SocketOf(id) == (id % NumSockets) + 1

(***************************************************************************)
(* sendBytesNow broadcasts a control packet on sockets 1, 2, ... and last  *)
(* on socket 0: the k-th socket of a broadcast.                            *)
(***************************************************************************)
BroadcastSocket(k) == IF k = NumSockets THEN 1 ELSE k + 1

Put(e, s, m) == chan' = [chan EXCEPT ![e][s] = Append(@, m)]

(***************************************************************************)
(* ioReactorThreadCommitCallback.  A NULL callback for a stream that has   *)
(* none is an assertion failure.                                           *)
(***************************************************************************)
CommitCallback(m, r) ==
  IF r.stream = None
  THEN [m EXCEPT !.oneSided = @ \cup {r.id},
                 !.callbacks[r.id] = None,
                 !.assertFailed = @ \/ m.callbacks[r.id] = None]
  ELSE IF m.callbacks[r.id] = None
       THEN [m EXCEPT !.callbacks[r.id] = r.stream]
       ELSE m

(***************************************************************************)
(* CommitCallbacks with the status unchanged.                              *)
(***************************************************************************)
Committed(m) ==
  FoldLeft(CommitCallback, [m EXCEPT !.registration = <<>>], m.registration)

(***************************************************************************)
(* addCallbacks                                                            *)
(***************************************************************************)
Registered(m, id, g) ==
  [m EXCEPT !.registration = Append(@, [id |-> id, stream |-> g])]

(***************************************************************************)
(* The end of shutDownClosedStream: the id is no longer closing, and goes  *)
(* to mFreeStreamIDs when this end hands out ids of its parity.            *)
(***************************************************************************)
Retired(m, id) ==
  [m EXCEPT !.oneSided = @ \ {id},
            !.free = IF id % 2 = m.highest % 2 THEN Append(@, id) ELSE @]

NotClosing == [step |-> "no", next |-> 1]

Idle == [step |-> "idle", id |-> 0, stream |-> None, next |-> 1]

Init ==
  /\ chan = [e \in Ends |-> [s \in Sockets |-> <<>>]]
  /\ ms = [e \in Ends |->
             [callbacks    |-> [i \in Ids |-> IF i = 1 /\ e = Connector
                                              THEN 1 ELSE None],
              registration |-> IF e = Connector THEN <<>>
                               ELSE <<[id |-> 1, stream |-> 1]>>,
              acked        |-> [i \in Ids |-> 0],
              oneSided     |-> {},
              free         |-> <<>>,
              highest      |-> IF e = Connector THEN 1 ELSE 0,
              assertFailed |-> FALSE,
              badErase     |-> FALSE]]
  /\ reactor = [e \in Ends |-> Idle]
  /\ idOf = [g \in Streams |-> IF g = 1 THEN 1 ELSE 0]
  /\ status = [e \in Ends |-> [g \in Streams |->
                                 IF g = 1 THEN "open" ELSE "none"]]
  /\ closing = [e \in Ends |-> [g \in Streams |-> NotClosing]]
  /\ sent = [e \in Ends |-> [g \in Streams |-> 0]]
  /\ got = [e \in Ends |-> [g \in Streams |-> <<>>]]
  /\ told = [e \in Ends |-> [g \in Streams |-> FALSE]]
  /\ offered = [e \in Ends |-> [g \in Streams |-> IF g = 1 THEN 1 ELSE 0]]
  /\ ignored = {}

-----------------------------------------------------------------------------
(* User threads *)

(***************************************************************************)
(* cloneFrom: getNewID, then addCallbacks.  A free id is preferred to a    *)
(* new one.                                                                *)
(***************************************************************************)
CloneFrom(e) ==
  \E g \in Streams :
    LET free == ms[e].free
        id   == IF free # <<>> THEN Head(free) ELSE ms[e].highest + 2
        m    == IF free # <<>> THEN [ms[e] EXCEPT !.free = Tail(@)]
                               ELSE [ms[e] EXCEPT !.highest = @ + 2]
    IN  /\ e \in Openers
        /\ idOf[g] = 0
        /\ \A h \in Streams : h < g => idOf[h] # 0
        /\ idOf' = [idOf EXCEPT ![g] = id]
        /\ status' = [status EXCEPT ![e][g] = "open"]
        /\ ms' = [ms EXCEPT ![e] = Registered(m, id, g)]
        /\ UNCHANGED <<chan, reactor, closing, ghostVars>>

(***************************************************************************)
(* Mutant: an ordered packet takes any socket.                             *)
(***************************************************************************)
SendAnywhere(e, g) ==
  /\ status[e][g] = "open"
  /\ sent[e][g] < MaxData[e][g]
  /\ \E ordered \in BOOLEAN : \E s \in Sockets :
       Put(e, s, Data(g, sent[e][g] + 1, ordered))
  /\ sent' = [sent EXCEPT ![e][g] = @ + 1]
  /\ UNCHANGED <<ms, reactor, idOf, status, closing, got, told, offered,
                 ignored>>

(***************************************************************************)
(* send: nothing goes out once mSendStatus says the stream is closing.     *)
(***************************************************************************)
Send(e, g) ==
  /\ status[e][g] = "open"
  /\ sent[e][g] < MaxData[e][g]
  /\ \E ordered \in BOOLEAN : \E s \in Sockets :
       /\ ordered => s = SocketOf(idOf[g])
       /\ Put(e, s, Data(g, sent[e][g] + 1, ordered))
  /\ sent' = [sent EXCEPT ![e][g] = @ + 1]
  /\ UNCHANGED <<ms, reactor, idOf, status, closing, got, told, offered,
                 ignored>>

(***************************************************************************)
(* close(): closeSendStatus, then addCallbacks(NULL), then closeStream,    *)
(* which broadcasts Close socket by socket.                                *)
(***************************************************************************)
CloseSendStatus(e, g) ==
  /\ e \in Closers
  /\ status[e][g] # "none"
  /\ closing[e][g].step = "no"
  /\ status' = [status EXCEPT ![e][g] = "closed"]
  /\ closing' = [closing EXCEPT ![e][g].step = "unregister"]
  /\ UNCHANGED <<chan, ms, reactor, idOf, ghostVars>>

Unregister(e, g) ==
  /\ closing[e][g].step = "unregister"
  /\ ms' = [ms EXCEPT ![e] = Registered(ms[e], idOf[g], None)]
  /\ closing' = [closing EXCEPT ![e][g].step = "announce"]
  /\ UNCHANGED <<chan, reactor, idOf, status, ghostVars>>

(***************************************************************************)
(* One socket further in a broadcast.                                      *)
(***************************************************************************)
Further(b, last) ==
  IF b.next = NumSockets THEN [b EXCEPT !.step = last, !.next = 1]
                         ELSE [b EXCEPT !.next = @ + 1]

AnnounceClose(e, g) ==
  LET c == closing[e][g]
  IN  /\ c.step = "announce"
      /\ Put(e, BroadcastSocket(c.next), Control("close", idOf[g], g))
      /\ closing' = [closing EXCEPT ![e][g] = Further(c, "done")]
      /\ UNCHANGED <<ms, reactor, idOf, status, ghostVars>>

-----------------------------------------------------------------------------
(* The reactor thread: receiveFullChunk *)

Pop(e, s) == chan' = [chan EXCEPT ![Peer(e)][s] = Tail(@)]

(***************************************************************************)
(* A data packet: commit registrations, then give it to the stream of that *)
(* id, or open a new substream, or ignore it if the id is closing here.    *)
(***************************************************************************)
ReceiveData(e, s, p) ==
  LET m == Committed(ms[e])
      h == m.callbacks[p.id]
      g == p.stream
  IN  /\ p.type = "data"
      /\ Pop(e, s)
      /\ CASE h # None ->
                /\ ms' = [ms EXCEPT ![e] = m]
                /\ got' = [got EXCEPT ![e][h] = Append(@, p)]
                /\ UNCHANGED <<reactor, status, offered, ignored>>
           [] h = None /\ p.id \notin m.oneSided /\ e \notin Refusers ->
                /\ ms' = [ms EXCEPT ![e] = Committed(Registered(m, p.id, g))]
                /\ status' = [status EXCEPT ![e][g] = "open"]
                /\ offered' = [offered EXCEPT ![e][g] = @ + 1]
                /\ got' = [got EXCEPT ![e][g] = Append(@, p)]
                /\ UNCHANGED <<reactor, ignored>>
           [] h = None /\ p.id \notin m.oneSided /\ e \in Refusers ->
                /\ ms' = [ms EXCEPT ![e] = m]
                /\ offered' = [offered EXCEPT ![e][g] = @ + 1]
                /\ reactor' = [reactor EXCEPT
                                 ![e] = [Idle EXCEPT !.step = "close",
                                                     !.id = p.id,
                                                     !.stream = g]]
                /\ UNCHANGED <<status, got, ignored>>
           [] OTHER ->
                /\ ms' = [ms EXCEPT ![e] = m]
                /\ ignored' = ignored \cup {[end |-> e, packet |-> p]}
                /\ UNCHANGED <<reactor, status, got, offered>>
      /\ UNCHANGED <<idOf, closing, sent, told>>

(***************************************************************************)
(* The count of control packets of an id, Close and Ack alike, reaches the *)
(* number of sockets: the last one decides what happens.  For a Close,     *)
(* shutDownClosedStream commits registrations, closes the send status of   *)
(* the stream found and calls its Disconnected callback.                   *)
(***************************************************************************)
LastControl(e, p, m) ==
  LET c == Committed(m)
      h == c.callbacks[p.id]
  IN  CASE p.type = "ack" ->
             /\ ms' = [ms EXCEPT ![e] = Retired(m, p.id)]
             /\ UNCHANGED <<reactor, status, told>>
        [] p.type = "close" /\ h # None ->
             /\ ms' = [ms EXCEPT ![e] = c]
             /\ status' = [status EXCEPT ![e][h] = "closed"]
             /\ told' = [told EXCEPT ![e][h] = TRUE]
             /\ reactor' = [reactor EXCEPT
                              ![e] = [Idle EXCEPT !.step = "erase",
                                                  !.id = p.id,
                                                  !.stream = p.stream]]
        [] p.type = "close" /\ h = None ->
             /\ ms' = [ms EXCEPT ![e] = Retired(c, p.id)]
             /\ reactor' = [reactor EXCEPT
                              ![e] = [Idle EXCEPT !.step = "ack",
                                                  !.id = p.id,
                                                  !.stream = p.stream]]
             /\ UNCHANGED <<status, told>>

(***************************************************************************)
(* Mutant: the first control packet of an id is acted upon.                *)
(***************************************************************************)
ReceiveControlFirst(e, s, p) ==
  LET count == ms[e].acked[p.id] + 1
  IN  /\ p.type \in {"close", "ack"}
      /\ Pop(e, s)
      /\ IF count = 1
         THEN LastControl(e, p, [ms[e] EXCEPT
                                   !.acked[p.id] = count % NumSockets])
         ELSE /\ ms' = [ms EXCEPT ![e].acked[p.id] = count % NumSockets]
              /\ UNCHANGED <<reactor, status, told>>
      /\ UNCHANGED <<idOf, closing, sent, got, offered, ignored>>

ReceiveControl(e, s, p) ==
  LET count == ms[e].acked[p.id] + 1
  IN  /\ p.type \in {"close", "ack"}
      /\ Pop(e, s)
      /\ IF count = NumSockets
         THEN LastControl(e, p, [ms[e] EXCEPT !.acked[p.id] = 0])
         ELSE /\ ms' = [ms EXCEPT ![e].acked[p.id] = count]
              /\ UNCHANGED <<reactor, status, told>>
      /\ UNCHANGED <<idOf, closing, sent, got, offered, ignored>>

Receive(e) ==
  /\ reactor[e].step = "idle"
  /\ \E s \in Sockets :
       /\ chan[Peer(e)][s] # <<>>
       /\ LET p == Head(chan[Peer(e)][s])
          IN  ReceiveData(e, s, p) \/ ReceiveControl(e, s, p)

(***************************************************************************)
(* Mutant: the closed stream keeps its callback.                           *)
(***************************************************************************)
EraseCallbackNot(e) ==
  LET r == reactor[e]
      m == Committed(ms[e])
  IN  /\ r.step = "erase"
      /\ ms' = [ms EXCEPT ![e] = Retired(m, r.id)]
      /\ reactor' = [reactor EXCEPT ![e].step = "ack"]
      /\ UNCHANGED <<chan, idOf, status, closing, ghostVars>>

(***************************************************************************)
(* After the Disconnected callback shutDownClosedStream commits once more, *)
(* looks the stream up again and erases it without checking that the look  *)
(* up succeeded.                                                           *)
(***************************************************************************)
EraseCallback(e) ==
  LET r == reactor[e]
      m == Committed(ms[e])
  IN  /\ r.step = "erase"
      /\ ms' = [ms EXCEPT
                  ![e] = Retired([m EXCEPT !.callbacks[r.id] = None,
                                           !.badErase = @ \/ m.callbacks[r.id] = None],
                                 r.id)]
      /\ reactor' = [reactor EXCEPT ![e].step = "ack"]
      /\ UNCHANGED <<chan, idOf, status, closing, ghostVars>>

(***************************************************************************)
(* Mutant: the answer goes out on the first socket only.                   *)
(***************************************************************************)
ReactorBroadcastOnce(e) ==
  LET r == reactor[e]
  IN  /\ r.step \in {"ack", "close"}
      /\ Put(e, BroadcastSocket(r.next), Control(r.step, r.id, r.stream))
      /\ reactor' = [reactor EXCEPT ![e] = Idle]
      /\ UNCHANGED <<ms, idOf, status, closing, ghostVars>>

(***************************************************************************)
(* The reactor broadcasts the Ack of a Close, or the Close of a refused    *)
(* substream.                                                              *)
(***************************************************************************)
ReactorBroadcast(e) ==
  LET r == reactor[e]
  IN  /\ r.step \in {"ack", "close"}
      /\ Put(e, BroadcastSocket(r.next), Control(r.step, r.id, r.stream))
      /\ reactor' = [reactor EXCEPT
                       ![e] = IF r.next = NumSockets THEN Idle
                              ELSE Further(r, "idle")]
      /\ UNCHANGED <<ms, idOf, status, closing, ghostVars>>

-----------------------------------------------------------------------------

ReactorStep(e) == Receive(e) \/ EraseCallback(e) \/ ReactorBroadcast(e)

UserClose(e, g) == Unregister(e, g) \/ AnnounceClose(e, g)

Next ==
  \E e \in Ends :
    \/ CloneFrom(e)
    \/ \E g \in Streams : Send(e, g) \/ CloseSendStatus(e, g) \/ UserClose(e, g)
    \/ ReactorStep(e)

Spec == Init /\ [][Next]_vars

-----------------------------------------------------------------------------
(* Properties *)

(***************************************************************************)
(* When the Disconnected callback of a stream runs, every packet the peer  *)
(* sent on that stream before closing it has been delivered, whatever      *)
(* sockets the packets and the Close took.                                 *)
(***************************************************************************)
CompleteBeforeDisconnect ==
  \A e \in Ends, g \in Streams :
    told[e][g] => Len(got[e][g]) = sent[Peer(e)][g]

(***************************************************************************)
(* A packet is only ever given to the stream it was sent on, not to an     *)
(* earlier or a later stream with the same id.                             *)
(***************************************************************************)
NoMixup ==
  \A e \in Ends, g \in Streams :
    \A i \in DOMAIN got[e][g] : got[e][g][i].stream = g

(***************************************************************************)
(* ReliableOrdered packets of a stream arrive in the order sent.           *)
(***************************************************************************)
OrderedInOrder ==
  \A e \in Ends, g \in Streams :
    \A i, j \in DOMAIN got[e][g] :
      got[e][g][i].ordered /\ got[e][g][j].ordered /\ i < j =>
        got[e][g][i].n < got[e][g][j].n

(***************************************************************************)
(* A stream is announced to the peer's substream callback at most once.    *)
(* (mOneSidedClosingStreams is there "to prevent received packets          *)
(* triggering NewStream callbacks as if a new ID were received".)          *)
(***************************************************************************)
OfferedOnce == \A e \in Ends, g \in Streams : offered[e][g] <= 1

(***************************************************************************)
(* The reactor finds the callback it removes: the assertion in             *)
(* ioReactorThreadCommitCallback holds, and shutDownClosedStream finds the *)
(* stream again after its Disconnected callback.                           *)
(***************************************************************************)
CallbackFound == \A e \in Ends : ~ms[e].assertFailed /\ ~ms[e].badErase

(***************************************************************************)
(* A packet on a new stream reaches the peer: it is ignored only by an end *)
(* whose user has closed that very stream.                                 *)
(***************************************************************************)
NewStreamHeard ==
  \A x \in ignored : closing[x.end][x.packet.stream].step # "no"

Quiescent(e) ==
  /\ reactor[e].step = "idle"
  /\ \A s \in Sockets : chan[e][s] = <<>>
  /\ \A g \in Streams : closing[e][g].step \in {"no", "done"}

(***************************************************************************)
(* A stream its owner closed gives its id back: once every packet has been *)
(* read and no close is under way, the id is free or in use by a later     *)
(* stream.                                                                 *)
(* (The control packets were counted to the number of sockets at both      *)
(* ends; a count left over would also spoil the next use of the id.)       *)
(***************************************************************************)
ClosedIdRecovered ==
  (\A e \in Ends : Quiescent(e)) =>
    /\ \A e \in Ends, i \in Ids : ms[e].acked[i] = 0
    /\ \A g \in Streams :
         closing[Connector][g].step = "done" =>
           \/ Contains(ms[Connector].free, idOf[g])
           \/ \E h \in Streams : h > g /\ idOf[h] = idOf[g]
=============================================================================
