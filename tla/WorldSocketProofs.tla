-------------------------- MODULE WorldSocketProofs --------------------------
(***************************************************************************)
(* Proofs about WorldSocket, for every set of sockets and with packets     *)
(* dumped or not: its types, that the network thread never uses a session  *)
(* the world thread has deleted while it holds the lock, nor without it    *)
(* through a pointer that is still set, and that a socket has one read     *)
(* under way at most.                                                      *)
(*                                                                         *)
(* A session is deleted only after its socket is closed, and who closes a  *)
(* socket goes on to OnClose, which waits for the lock and takes the       *)
(* pointer away.  So a pointer to a deleted session is left only while the *)
(* network thread itself is before OnClose, and then it uses nothing, or   *)
(* when the server has crashed.                                            *)
(***************************************************************************)
EXTENDS WorldSocket, TLAPS

InUse == Locked \cup {"stuck"}
AtPacket == Locked \cup Unlocked \cup {"packet", "opcode", "pong"}

\* The lock of a socket is held exactly while the network thread is at one of
\* the steps under it, unless it was stopped there by a crash, and at those
\* that use the session there is a pointer.
LockInv(s) ==
    /\ net.sock = s /\ net.at \in InUse => lock[s] = "net"
    /\ lock[s] = "net" => \/ net.sock = s /\ net.at \in InUse
                          \/ net.at = "crashed"
    /\ net.sock = s /\ net.at \in Locked => pointer[s]

\* A pointer outlives its session, and the flag _closed, only while the
\* closing thread is on its way to OnClose; the world thread goes there for
\* the sake of a session, and sends to one in its list.
PointerInv(s) ==
    /\ pointer[s] \/ world.sock = s => session[s] # "none"
    /\ world.sock = s /\ world.at = "send" => session[s] = "listed"
    /\ session[s] = "deleted" /\ pointer[s] => \/ net.at = "onclose" /\ net.sock = s
                                              \/ net.at = "crashed"
    /\ closed[s] /\ pointer[s] => \/ net.at = "onclose" /\ net.sock = s
                                  \/ WorldCloses(s)
                                  \/ net.at = "crashed"

\* Only sockets without a session are refused, and asked about.
QueryInv(s) ==
    /\ session[s] # "none" => authed[s] /\ ~closing[s]
    /\ query[s] # "none" => ~authed[s] /\ ~closing[s]
    /\ net.sock = s /\ net.at \in AtPacket => ~closing[s]
    /\ net.sock = s /\ net.at \in AtPacket \cup {"authenticated"} => query[s] = "none"

\* Nothing has happened to a socket that is not connected.
UnusedInv(s) ==
    list[s] = "none" => /\ ~authed[s] /\ ~closing[s]
                        /\ ~reading[s] /\ ~writing[s]
                        /\ net.sock # s

WriteInv(s) == writing[s] => write[s] > 0

WorldIdle ==
    /\ world.at \in {"idle", "crashed"} => world.sock = None
    /\ net.at = "crashed" <=> world.at = "crashed"

ReadInv(s) ==
    reading[s] => /\ query[s] = "none"
                  /\ net.sock = s => net.at = "onclose"

SocketInv(s) ==
    /\ LockInv(s)
    /\ PointerInv(s)
    /\ QueryInv(s)
    /\ UnusedInv(s)
    /\ WriteInv(s)
    /\ ReadInv(s)

IInv ==
    /\ TypeOK
    /\ WorldIdle
    /\ \A s \in Sockets : SocketInv(s)

---------------------------------------------------------------------------
(* The invariant holds at the start, and every action keeps it.            *)

LEMMA InitIInv == Init => IInv
<1> SUFFICES ASSUME Init PROVE IInv
  OBVIOUS
<1>1. TypeOK /\ WorldIdle
  BY SocketConstants DEF Init, Idle, TypeOK, WorldIdle
<1>2. ASSUME NEW s \in Sockets PROVE SocketInv(s)
  BY SocketConstants DEF Init, Idle, SocketInv, LockInv, PointerInv, QueryInv,
     UnusedInv, WriteInv, ReadInv, InUse, AtPacket, Locked, Unlocked,
     WorldCloses
<1> QED BY <1>1, <1>2 DEF IInv

\* A step that touches no socket but to hand new ones to the thread.
LEMMA AddNewSocketsStep == ASSUME IInv, AddNewSockets PROVE IInv'
<1> USE DEF IInv, AddNewSockets, queues
<1>1. TypeOK'
  BY DEF TypeOK
<1>2. WorldIdle'
  BY DEF WorldIdle
<1>3. ASSUME NEW t \in Sockets PROVE SocketInv(t)'
  BY DEF TypeOK, SocketInv, LockInv, PointerInv, QueryInv, UnusedInv,
     WriteInv, ReadInv, WorldCloses
<1> QED BY <1>1, <1>2, <1>3

LEMMA ConnectStep ==
  ASSUME IInv, NEW s \in Sockets, Connect(s)
  PROVE  IInv'
<1> USE SocketConstants DEF IInv, Locked, Unlocked, WorldCloses
<1>1. TypeOK'
  BY DEF TypeOK, queues, Connect
<1>2. WorldIdle'
  BY DEF TypeOK, WorldIdle, Connect
<1>3. ASSUME NEW t \in Sockets PROVE SocketInv(t)'
  BY DEF TypeOK, queues, Connect, SocketInv, LockInv, PointerInv, QueryInv,
         UnusedInv, WriteInv, ReadInv, WorldIdle, InUse, AtPacket
<1> QED BY <1>1, <1>2, <1>3

LEMMA RemoveSocketStep ==
  ASSUME IInv, NEW s \in Sockets, RemoveSocket(s)
  PROVE  IInv'
<1> USE SocketConstants DEF IInv, Locked, Unlocked, WorldCloses
<1>1. TypeOK'
  BY DEF TypeOK, queues, RemoveSocket
<1>2. WorldIdle'
  BY DEF TypeOK, WorldIdle, RemoveSocket
<1>3. ASSUME NEW t \in Sockets PROVE SocketInv(t)'
  BY DEF TypeOK, queues, RemoveSocket, SocketInv, LockInv, PointerInv,
         QueryInv, UnusedInv, WriteInv, ReadInv, WorldIdle, InUse, AtPacket
<1> QED BY <1>1, <1>2, <1>3

LEMMA UpdateSocketStep ==
  ASSUME IInv, NEW s \in Sockets, UpdateSocket(s)
  PROVE  IInv'
<1> USE SocketConstants DEF IInv, Locked, Unlocked, WorldCloses
<1>1. TypeOK'
  <2>1. write' \in [Sockets -> Nat] /\ buffer' \in [Sockets -> Nat]
    BY DEF TypeOK, SocketInv, WriteInv, UpdateSocket, HandleQueue
  <2>2. closed' \in [Sockets -> BOOLEAN]
    BY DEF TypeOK, LastBufferGone, NetCloses, UpdateSocket, HandleQueue
  <2>3. writing' \in [Sockets -> BOOLEAN]
    BY DEF TypeOK, UpdateSocket, HandleQueue
  <2>4. net' = net \/ net' = Idle \/ net' = [at |-> "onclose", sock |-> s]
    BY DEF LastBufferGone, NetCloses, NetAt, UpdateSocket, HandleQueue
  <2> QED BY <2>1, <2>2, <2>3, <2>4 DEF TypeOK, Idle, UpdateSocket
<1>2. WorldIdle'
  BY DEF TypeOK, WorldIdle, UpdateSocket, HandleQueue, LastBufferGone,
         NetCloses, NetAt, Idle
<1>3. ASSUME NEW t \in Sockets PROVE SocketInv(t)'
  <2> USE DEF TypeOK, queues, UpdateSocket, HandleQueue, LastBufferGone,
              NetCloses, NetAt, Idle, SocketInv, InUse, AtPacket
  <2>1. LockInv(t)'
    BY DEF LockInv, PointerInv
  <2>2. PointerInv(t)'
    BY DEF LockInv, PointerInv, WorldIdle
  <2>3. QueryInv(t)'
    BY DEF LockInv, PointerInv, QueryInv
  <2>4. UnusedInv(t)'
    BY DEF UnusedInv, WriteInv, QueryInv, PointerInv
  <2>5. WriteInv(t)'
    BY DEF WriteInv
  <2>6. ReadInv(t)'
    BY DEF ReadInv, QueryInv, UnusedInv, PointerInv
  <2> QED BY <2>1, <2>2, <2>3, <2>4, <2>5, <2>6
<1> QED BY <1>1, <1>2, <1>3

LEMMA WriteHandlerWrapperStep ==
  ASSUME IInv, NEW s \in Sockets, WriteHandlerWrapper(s)
  PROVE  IInv'
<1> USE SocketConstants DEF IInv, Locked, Unlocked, WorldCloses
<1>1. TypeOK'
  <2>1. write' \in [Sockets -> Nat] /\ buffer' \in [Sockets -> Nat]
    BY DEF TypeOK, SocketInv, WriteInv, WriteHandlerWrapper, HandleQueue, Ready
  <2>2. closed' \in [Sockets -> BOOLEAN]
    BY DEF TypeOK, LastBufferGone, NetCloses, WriteHandlerWrapper, HandleQueue,
           Ready
  <2>3. writing' \in [Sockets -> BOOLEAN]
    BY DEF TypeOK, WriteHandlerWrapper, HandleQueue, Ready
  <2>4. net' = net \/ net' = Idle \/ net' = [at |-> "onclose", sock |-> s]
    BY DEF LastBufferGone, NetCloses, NetAt, WriteHandlerWrapper, HandleQueue,
           Ready
  <2> QED BY <2>1, <2>2, <2>3, <2>4 DEF TypeOK, Idle, WriteHandlerWrapper
<1>2. WorldIdle'
  BY DEF TypeOK, WorldIdle, WriteHandlerWrapper, Ready, HandleQueue,
         LastBufferGone, NetCloses, NetAt, Idle
<1>3. ASSUME NEW t \in Sockets PROVE SocketInv(t)'
  <2> USE DEF TypeOK, queues, WriteHandlerWrapper, Ready, HandleQueue,
              LastBufferGone, NetCloses, NetAt, Idle, SocketInv, InUse,
              AtPacket
  <2>1. LockInv(t)'
    BY DEF LockInv, PointerInv
  <2>2. PointerInv(t)'
    BY DEF LockInv, PointerInv, WorldIdle
  <2>3. QueryInv(t)'
    BY DEF LockInv, PointerInv, QueryInv
  <2>4. UnusedInv(t)'
    BY DEF UnusedInv, WriteInv, QueryInv, PointerInv
  <2>5. WriteInv(t)'
    BY DEF WriteInv
  <2>6. ReadInv(t)'
    BY DEF ReadInv, QueryInv, UnusedInv, PointerInv
  <2> QED BY <2>1, <2>2, <2>3, <2>4, <2>5, <2>6
<1> QED BY <1>1, <1>2, <1>3

LEMMA RefuseStep ==
  ASSUME IInv, NEW s \in Sockets, Refuse(s)
  PROVE  IInv'
<1> USE SocketConstants DEF IInv, Locked, Unlocked, WorldCloses
<1>1. TypeOK'
  BY DEF TypeOK, queues, Refuse, Answer, SendPacket, Enqueue, IsOpen
<1>2. WorldIdle'
  BY DEF TypeOK, WorldIdle, Refuse, Answer, SendPacket, Enqueue, IsOpen
<1>3. ASSUME NEW t \in Sockets PROVE SocketInv(t)'
  BY DEF TypeOK, queues, Refuse, Answer, SendPacket, Enqueue, IsOpen, SocketInv,
         LockInv, PointerInv, QueryInv, UnusedInv, WriteInv, ReadInv,
         WorldIdle, InUse, AtPacket
<1> QED BY <1>1, <1>2, <1>3

LEMMA ChallengeStep ==
  ASSUME IInv, NEW s \in Sockets, Challenge(s)
  PROVE  IInv'
<1> USE SocketConstants DEF IInv, Locked, Unlocked, WorldCloses
<1>1. TypeOK'
  BY DEF TypeOK, queues, Challenge, Answer, AsyncRead, SendPacket, Enqueue, IsOpen, Idle
<1>2. WorldIdle'
  BY DEF TypeOK, WorldIdle, Challenge, Answer, AsyncRead, SendPacket, Enqueue, IsOpen,
         Idle
<1>3. ASSUME NEW t \in Sockets PROVE SocketInv(t)'
  BY DEF TypeOK, queues, Challenge, Answer, AsyncRead, SendPacket, Enqueue, IsOpen,
         Idle, SocketInv, LockInv, PointerInv, QueryInv, UnusedInv, WriteInv,
         ReadInv, WorldIdle, InUse, AtPacket
<1> QED BY <1>1, <1>2, <1>3

LEMMA AuthenticateStep ==
  ASSUME IInv, NEW s \in Sockets, Authenticate(s)
  PROVE  IInv'
<1> USE SocketConstants DEF IInv, Locked, Unlocked, WorldCloses
<1>1. TypeOK'
  BY DEF TypeOK, queues, Authenticate, Answer, NetAt
<1>2. WorldIdle'
  BY DEF TypeOK, WorldIdle, Authenticate, Answer, NetAt
<1>3. ASSUME NEW t \in Sockets PROVE SocketInv(t)'
  <2> USE DEF TypeOK, queues, Authenticate, Answer, NetAt, SocketInv, InUse,
              AtPacket
  <2>1. LockInv(t)'
    BY DEF LockInv, PointerInv
  <2>2. PointerInv(t)'
    BY DEF LockInv, PointerInv, QueryInv, WorldIdle
  <2>3. QueryInv(t)'
    BY DEF LockInv, PointerInv, QueryInv
  <2>4. UnusedInv(t)'
    BY DEF UnusedInv, WriteInv, QueryInv, PointerInv
  <2>5. WriteInv(t)'
    BY DEF WriteInv
  <2>6. ReadInv(t)'
    BY DEF ReadInv, QueryInv, UnusedInv, PointerInv
  <2> QED BY <2>1, <2>2, <2>3, <2>4, <2>5, <2>6
<1> QED BY <1>1, <1>2, <1>3

LEMMA ReadOnStep ==
  ASSUME IInv, NEW s \in Sockets, ReadOn(s)
  PROVE  IInv'
<1> USE SocketConstants DEF IInv, Locked, Unlocked, WorldCloses
<1>1. TypeOK'
  BY DEF TypeOK, queues, ReadOn, Net, AsyncRead, IsOpen, Idle
<1>2. WorldIdle'
  BY DEF TypeOK, WorldIdle, ReadOn, Net, AsyncRead, IsOpen, Idle
<1>3. ASSUME NEW t \in Sockets PROVE SocketInv(t)'
  BY DEF TypeOK, queues, ReadOn, Net, AsyncRead, IsOpen, Idle, SocketInv,
         LockInv, PointerInv, QueryInv, UnusedInv, WriteInv, ReadInv,
         WorldIdle, InUse, AtPacket
<1> QED BY <1>1, <1>2, <1>3

LEMMA ReadErrorStep ==
  ASSUME IInv, NEW s \in Sockets, ReadError(s)
  PROVE  IInv'
<1> USE SocketConstants DEF IInv, Locked, Unlocked, WorldCloses
<1>1. TypeOK'
  BY DEF TypeOK, queues, ReadError, NetCloses, NetAt, Idle
<1>2. WorldIdle'
  BY DEF TypeOK, WorldIdle, ReadError, NetCloses, NetAt, Idle
<1>3. ASSUME NEW t \in Sockets PROVE SocketInv(t)'
  BY DEF TypeOK, queues, ReadError, NetCloses, NetAt, Idle, SocketInv, LockInv,
         PointerInv, QueryInv, UnusedInv, WriteInv, ReadInv, WorldIdle, InUse,
         AtPacket
<1> QED BY <1>1, <1>2, <1>3

LEMMA ReadHandlerStep ==
  ASSUME IInv, NEW s \in Sockets, ReadHandler(s)
  PROVE  IInv'
<1> USE SocketConstants DEF IInv, Locked, Unlocked, WorldCloses
<1>1. TypeOK'
  BY DEF TypeOK, queues, ReadHandler, IsOpen, NetAt, Idle
<1>2. WorldIdle'
  BY DEF TypeOK, WorldIdle, ReadHandler, IsOpen, NetAt, Idle
<1>3. ASSUME NEW t \in Sockets PROVE SocketInv(t)'
  <2> USE DEF TypeOK, queues, ReadHandler, IsOpen, NetAt, Idle, SocketInv,
              InUse, AtPacket
  <2>1. LockInv(t)'
    BY DEF LockInv, PointerInv
  <2>2. PointerInv(t)'
    BY DEF LockInv, PointerInv, WorldIdle
  <2>3. QueryInv(t)'
    BY DEF LockInv, PointerInv, QueryInv, ReadInv
  <2>4. UnusedInv(t)'
    BY DEF UnusedInv, WriteInv, QueryInv, PointerInv
  <2>5. WriteInv(t)'
    BY DEF WriteInv
  <2>6. ReadInv(t)'
    BY DEF ReadInv, QueryInv, UnusedInv, PointerInv
  <2> QED BY <2>1, <2>2, <2>3, <2>4, <2>5, <2>6
<1> QED BY <1>1, <1>2, <1>3

LEMMA ReadMoreStep ==
  ASSUME IInv, NEW s \in Sockets, ReadMore(s)
  PROVE  IInv'
<1> USE SocketConstants DEF IInv, Locked, Unlocked, WorldCloses
<1>1. TypeOK'
  BY DEF TypeOK, queues, ReadMore, Net, AsyncRead, IsOpen, Idle
<1>2. WorldIdle'
  BY DEF TypeOK, WorldIdle, ReadMore, Net, AsyncRead, IsOpen, Idle
<1>3. ASSUME NEW t \in Sockets PROVE SocketInv(t)'
  BY DEF TypeOK, queues, ReadMore, Net, AsyncRead, IsOpen, Idle, SocketInv,
         LockInv, PointerInv, QueryInv, UnusedInv, WriteInv, ReadInv,
         WorldIdle, InUse, AtPacket
<1> QED BY <1>1, <1>2, <1>3

LEMMA ReadDataHandlerStep ==
  ASSUME IInv, NEW s \in Sockets, ReadDataHandler(s)
  PROVE  IInv'
<1> USE SocketConstants DEF IInv, Locked, Unlocked, WorldCloses
<1>1. TypeOK'
  BY DEF TypeOK, queues, ReadDataHandler, Net, NetAt, Dumps
<1>2. WorldIdle'
  BY DEF TypeOK, WorldIdle, ReadDataHandler, Net, NetAt, Dumps
<1>3. ASSUME NEW t \in Sockets PROVE SocketInv(t)'
  <2> USE DEF TypeOK, queues, ReadDataHandler, Net, NetAt, Dumps, SocketInv,
         InUse, AtPacket
  <2>1. LockInv(t)'
    BY DEF LockInv, PointerInv
  <2>2. PointerInv(t)'
    BY DEF LockInv, PointerInv, WorldIdle
  <2>3. QueryInv(t)'
    BY DEF LockInv, PointerInv, QueryInv
  <2>4. UnusedInv(t)'
    BY DEF UnusedInv, WriteInv, QueryInv, PointerInv
  <2>5. WriteInv(t)'
    BY DEF WriteInv
  <2>6. ReadInv(t)'
    BY DEF ReadInv, QueryInv, UnusedInv, PointerInv
  <2> QED BY <2>1, <2>2, <2>3, <2>4, <2>5, <2>6
<1> QED BY <1>1, <1>2, <1>3

LEMMA DumpPacketStep ==
  ASSUME IInv, NEW s \in Sockets, DumpPacket(s)
  PROVE  IInv'
<1> USE SocketConstants DEF IInv, Locked, Unlocked, WorldCloses
<1>1. TypeOK'
  BY DEF TypeOK, queues, DumpPacket, Net, NetAt, DumpFails, Crash
<1>2. WorldIdle'
  BY DEF TypeOK, WorldIdle, DumpPacket, Net, NetAt, DumpFails, Crash
<1>3. ASSUME NEW t \in Sockets PROVE SocketInv(t)'
  <2> USE DEF TypeOK, queues, DumpPacket, Net, NetAt, DumpFails, Crash,
         SocketInv, InUse, AtPacket
  <2>1. LockInv(t)'
    BY DEF LockInv, PointerInv
  <2>2. PointerInv(t)'
    BY DEF LockInv, PointerInv, WorldIdle
  <2>3. QueryInv(t)'
    BY DEF LockInv, PointerInv, QueryInv
  <2>4. UnusedInv(t)'
    BY DEF UnusedInv, WriteInv, QueryInv, PointerInv
  <2>5. WriteInv(t)'
    BY DEF WriteInv
  <2>6. ReadInv(t)'
    BY DEF ReadInv, QueryInv, UnusedInv, PointerInv
  <2> QED BY <2>1, <2>2, <2>3, <2>4, <2>5, <2>6
<1> QED BY <1>1, <1>2, <1>3

LEMMA BadPacketStep ==
  ASSUME IInv, NEW s \in Sockets, BadPacket(s)
  PROVE  IInv'
<1> USE SocketConstants DEF IInv, Locked, Unlocked, WorldCloses
<1>1. TypeOK'
  BY DEF TypeOK, queues, BadPacket, Net, NetCloses, NetAt, Idle
<1>2. WorldIdle'
  BY DEF TypeOK, WorldIdle, BadPacket, Net, NetCloses, NetAt, Idle
<1>3. ASSUME NEW t \in Sockets PROVE SocketInv(t)'
  BY DEF TypeOK, queues, BadPacket, Net, NetCloses, NetAt, Idle, SocketInv,
         LockInv, PointerInv, QueryInv, UnusedInv, WriteInv, ReadInv,
         WorldIdle, InUse, AtPacket
<1> QED BY <1>1, <1>2, <1>3

LEMMA AuthSessionStep ==
  ASSUME IInv, NEW s \in Sockets, AuthSession(s)
  PROVE  IInv'
<1> USE SocketConstants DEF IInv, Locked, Unlocked, WorldCloses
<1>1. TypeOK'
  BY DEF TypeOK, queues, AuthSession, Net, Idle
<1>2. WorldIdle'
  BY DEF TypeOK, WorldIdle, AuthSession, Net, Idle
<1>3. ASSUME NEW t \in Sockets PROVE SocketInv(t)'
  BY DEF TypeOK, queues, AuthSession, Net, Idle, SocketInv, LockInv,
         PointerInv, QueryInv, UnusedInv, WriteInv, ReadInv, WorldIdle, InUse,
         AtPacket
<1> QED BY <1>1, <1>2, <1>3

LEMMA TakeSessionStep ==
  ASSUME IInv, NEW s \in Sockets, TakeSession(s)
  PROVE  IInv'
<1> USE SocketConstants DEF IInv, Locked, Unlocked, WorldCloses
<1>1. TypeOK'
  BY DEF TypeOK, queues, TakeSession, Net, Lock, NetAt
<1>2. WorldIdle'
  BY DEF TypeOK, WorldIdle, TakeSession, Net, Lock, NetAt
<1>3. ASSUME NEW t \in Sockets PROVE SocketInv(t)'
  <2> USE DEF TypeOK, queues, TakeSession, Net, Lock, NetAt, SocketInv, InUse,
              AtPacket
  <2>1. LockInv(t)'
    BY DEF LockInv, PointerInv
  <2>2. PointerInv(t)'
    BY DEF LockInv, PointerInv, WorldIdle
  <2>3. QueryInv(t)'
    BY DEF LockInv, PointerInv, QueryInv
  <2>4. UnusedInv(t)'
    BY DEF UnusedInv, WriteInv, QueryInv, PointerInv
  <2>5. WriteInv(t)'
    BY DEF WriteInv
  <2>6. ReadInv(t)'
    BY DEF ReadInv, QueryInv, UnusedInv, PointerInv
  <2> QED BY <2>1, <2>2, <2>3, <2>4, <2>5, <2>6
<1> QED BY <1>1, <1>2, <1>3

LEMMA NoSessionStep ==
  ASSUME IInv, NEW s \in Sockets, NoSession(s)
  PROVE  IInv'
<1> USE SocketConstants DEF IInv, Locked, Unlocked, WorldCloses
<1>1. TypeOK'
  <2>1. CASE NetCloses(s) /\ lock' = lock
    BY <2>1 DEF TypeOK, queues, NoSession, NetCloses, NetAt, Idle
  <2>2. CASE NetAt(s, "packet") /\ UNCHANGED <<closed, lock>>
    BY <2>2 DEF TypeOK, queues, NoSession, NetAt
  <2>3. CASE Lock(s) /\ NetAt(s, "stuck") /\ closed' = [closed EXCEPT ![s] = TRUE]
    BY <2>3 DEF TypeOK, queues, NoSession, Lock, NetAt
  <2> QED BY <2>1, <2>2, <2>3 DEF NoSession
<1>2. WorldIdle'
  BY DEF TypeOK, WorldIdle, NoSession, Net, Lock, NetCloses, NetAt, Idle
<1>3. ASSUME NEW t \in Sockets PROVE SocketInv(t)'
  <2> USE DEF TypeOK, queues, NoSession, Net, Lock, NetCloses, NetAt, Idle,
              SocketInv, InUse, AtPacket
  <2>1. LockInv(t)'
    BY DEF LockInv, PointerInv
  <2>2. PointerInv(t)'
    BY DEF LockInv, PointerInv, WorldIdle
  <2>3. QueryInv(t)'
    BY DEF LockInv, PointerInv, QueryInv
  <2>4. UnusedInv(t)'
    BY DEF UnusedInv, WriteInv, QueryInv, PointerInv
  <2>5. WriteInv(t)'
    BY DEF WriteInv
  <2>6. ReadInv(t)'
    BY DEF ReadInv, QueryInv, UnusedInv, PointerInv
  <2> QED BY <2>1, <2>2, <2>3, <2>4, <2>5, <2>6
<1> QED BY <1>1, <1>2, <1>3

LEMMA DuplicateWithoutSessionStep ==
  ASSUME IInv, NEW s \in Sockets, DuplicateWithoutSession(s)
  PROVE  IInv'
<1> USE SocketConstants DEF IInv, Locked, Unlocked, WorldCloses
<1>1. TypeOK'
  BY DEF TypeOK, queues, DuplicateWithoutSession, Net, Crash
<1>2. WorldIdle'
  BY DEF TypeOK, WorldIdle, DuplicateWithoutSession, Net, Crash
<1>3. ASSUME NEW t \in Sockets PROVE SocketInv(t)'
  BY DEF TypeOK, queues, DuplicateWithoutSession, Net, Crash, SocketInv,
         LockInv, PointerInv, QueryInv, UnusedInv, WriteInv, ReadInv,
         WorldIdle, InUse, AtPacket
<1> QED BY <1>1, <1>2, <1>3

LEMMA DuplicateUnloggedStep ==
  ASSUME IInv, NEW s \in Sockets, DuplicateUnlogged(s)
  PROVE  IInv'
<1> USE SocketConstants DEF IInv, Locked, Unlocked, WorldCloses
<1>1. TypeOK'
  BY DEF TypeOK, queues, DuplicateUnlogged, Net, NetCloses, NetAt, Idle
<1>2. WorldIdle'
  BY DEF TypeOK, WorldIdle, DuplicateUnlogged, Net, NetCloses, NetAt, Idle
<1>3. ASSUME NEW t \in Sockets PROVE SocketInv(t)'
  BY DEF TypeOK, queues, DuplicateUnlogged, Net, NetCloses, NetAt, Idle,
         SocketInv, LockInv, PointerInv, QueryInv, UnusedInv, WriteInv,
         ReadInv, WorldIdle, InUse, AtPacket
<1> QED BY <1>1, <1>2, <1>3

LEMMA HandlePingStep ==
  ASSUME IInv, NEW s \in Sockets, HandlePing(s)
  PROVE  IInv'
<1> USE SocketConstants DEF IInv, Locked, Unlocked, WorldCloses
<1>1. TypeOK'
  <2>1. CASE NetAt(s, "pong") /\ closed' = closed
    BY <2>1 DEF TypeOK, queues, HandlePing, Unlock, NetAt
  <2>2. CASE NetCloses(s)
    BY <2>2 DEF TypeOK, queues, HandlePing, Unlock, NetCloses, NetAt, Idle
  <2> QED BY <2>1, <2>2 DEF HandlePing
<1>2. WorldIdle'
  BY DEF TypeOK, WorldIdle, HandlePing, Net, Unlock, NetCloses, NetAt, Idle
<1>3. ASSUME NEW t \in Sockets PROVE SocketInv(t)'
  <2> USE DEF TypeOK, queues, HandlePing, Net, Unlock, NetCloses, NetAt, Idle,
         SocketInv, InUse, AtPacket
  <2>1. LockInv(t)'
    BY DEF LockInv, PointerInv
  <2>2. PointerInv(t)'
    BY DEF LockInv, PointerInv, WorldIdle
  <2>3. QueryInv(t)'
    BY DEF LockInv, PointerInv, QueryInv
  <2>4. UnusedInv(t)'
    BY DEF UnusedInv, WriteInv, QueryInv, PointerInv
  <2>5. WriteInv(t)'
    BY DEF WriteInv
  <2>6. ReadInv(t)'
    BY DEF ReadInv, QueryInv, UnusedInv, PointerInv
  <2> QED BY <2>1, <2>2, <2>3, <2>4, <2>5, <2>6
<1> QED BY <1>1, <1>2, <1>3

LEMMA SendPongStep ==
  ASSUME IInv, NEW s \in Sockets, SendPong(s)
  PROVE  IInv'
<1> USE SocketConstants DEF IInv, Locked, Unlocked, WorldCloses
<1>1. TypeOK'
  BY DEF TypeOK, queues, SendPong, Net, NetAt, Dumps, SendPacket, Enqueue,
         IsOpen
<1>2. WorldIdle'
  BY DEF TypeOK, WorldIdle, SendPong, Net, NetAt, Dumps, SendPacket, Enqueue,
         IsOpen
<1>3. ASSUME NEW t \in Sockets PROVE SocketInv(t)'
  <2> USE DEF TypeOK, queues, SendPong, Net, NetAt, Dumps, SendPacket,
         Enqueue, IsOpen, SocketInv, InUse, AtPacket
  <2>1. LockInv(t)'
    BY DEF LockInv, PointerInv
  <2>2. PointerInv(t)'
    BY DEF LockInv, PointerInv, WorldIdle
  <2>3. QueryInv(t)'
    BY DEF LockInv, PointerInv, QueryInv
  <2>4. UnusedInv(t)'
    BY DEF UnusedInv, WriteInv, QueryInv, PointerInv
  <2>5. WriteInv(t)'
    BY DEF WriteInv
  <2>6. ReadInv(t)'
    BY DEF ReadInv, QueryInv, UnusedInv, PointerInv
  <2> QED BY <2>1, <2>2, <2>3, <2>4, <2>5, <2>6
<1> QED BY <1>1, <1>2, <1>3

LEMMA DumpPongStep ==
  ASSUME IInv, NEW s \in Sockets, DumpPong(s)
  PROVE  IInv'
<1> USE SocketConstants DEF IInv, Locked, Unlocked, WorldCloses
<1>1. TypeOK'
  BY DEF TypeOK, queues, DumpPong, Net, NetAt, DumpFails, Crash, Enqueue
<1>2. WorldIdle'
  BY DEF TypeOK, WorldIdle, DumpPong, Net, NetAt, DumpFails, Crash, Enqueue
<1>3. ASSUME NEW t \in Sockets PROVE SocketInv(t)'
  <2> USE DEF TypeOK, queues, DumpPong, Net, NetAt, DumpFails, Crash, Enqueue,
         SocketInv, InUse, AtPacket
  <2>1. LockInv(t)'
    BY DEF LockInv, PointerInv
  <2>2. PointerInv(t)'
    BY DEF LockInv, PointerInv, WorldIdle
  <2>3. QueryInv(t)'
    BY DEF LockInv, PointerInv, QueryInv
  <2>4. UnusedInv(t)'
    BY DEF UnusedInv, WriteInv, QueryInv, PointerInv
  <2>5. WriteInv(t)'
    BY DEF WriteInv
  <2>6. ReadInv(t)'
    BY DEF ReadInv, QueryInv, UnusedInv, PointerInv
  <2> QED BY <2>1, <2>2, <2>3, <2>4, <2>5, <2>6
<1> QED BY <1>1, <1>2, <1>3

LEMMA UseSessionStep ==
  ASSUME IInv, NEW s \in Sockets, UseSession(s)
  PROVE  IInv'
<1> USE SocketConstants DEF IInv, Locked, Unlocked, WorldCloses
<1>1. TypeOK'
  BY DEF TypeOK, queues, UseSession, Net, Unlock, NetAt
<1>2. WorldIdle'
  BY DEF TypeOK, WorldIdle, UseSession, Net, Unlock, NetAt
<1>3. ASSUME NEW t \in Sockets PROVE SocketInv(t)'
  BY DEF TypeOK, queues, UseSession, Net, Unlock, NetAt, SocketInv, LockInv,
         PointerInv, QueryInv, UnusedInv, WriteInv, ReadInv, WorldIdle, InUse,
         AtPacket
<1> QED BY <1>1, <1>2, <1>3

LEMMA LogDuplicateStep ==
  ASSUME IInv, NEW s \in Sockets, LogDuplicate(s)
  PROVE  IInv'
<1> USE SocketConstants DEF IInv, Locked, Unlocked, WorldCloses
<1>1. TypeOK'
  BY DEF TypeOK, queues, LogDuplicate, Net, Unlock, NetCloses, NetAt, Idle
<1>2. WorldIdle'
  BY DEF TypeOK, WorldIdle, LogDuplicate, Net, Unlock, NetCloses, NetAt, Idle
<1>3. ASSUME NEW t \in Sockets PROVE SocketInv(t)'
  BY DEF TypeOK, queues, LogDuplicate, Net, Unlock, NetCloses, NetAt, Idle,
         SocketInv, LockInv, PointerInv, QueryInv, UnusedInv, WriteInv,
         ReadInv, WorldIdle, InUse, AtPacket
<1> QED BY <1>1, <1>2, <1>3

LEMMA NetOnCloseStep ==
  ASSUME IInv, NEW s \in Sockets, NetOnClose(s)
  PROVE  IInv'
<1> USE SocketConstants DEF IInv, Locked, Unlocked, WorldCloses
<1>1. TypeOK'
  BY DEF TypeOK, queues, NetOnClose, Net, OnClose, Idle
<1>2. WorldIdle'
  BY DEF TypeOK, WorldIdle, NetOnClose, Net, OnClose, Idle
<1>3. ASSUME NEW t \in Sockets PROVE SocketInv(t)'
  <2> USE DEF TypeOK, queues, NetOnClose, Net, OnClose, Idle, SocketInv, InUse,
              AtPacket
  <2>1. LockInv(t)'
    BY DEF LockInv, PointerInv
  <2>2. PointerInv(t)'
    BY DEF LockInv, PointerInv, WorldIdle
  <2>3. QueryInv(t)'
    BY DEF LockInv, PointerInv, QueryInv
  <2>4. UnusedInv(t)'
    BY DEF UnusedInv, WriteInv, QueryInv, PointerInv
  <2>5. WriteInv(t)'
    BY DEF WriteInv
  <2>6. ReadInv(t)'
    BY DEF ReadInv, QueryInv, UnusedInv, PointerInv
  <2> QED BY <2>1, <2>2, <2>3, <2>4, <2>5, <2>6
<1> QED BY <1>1, <1>2, <1>3

LEMMA RefuseSessionStep ==
  ASSUME IInv, NEW s \in Sockets, RefuseSession(s)
  PROVE  IInv'
<1> USE SocketConstants DEF IInv, Locked, Unlocked, WorldCloses
<1>1. TypeOK'
  BY DEF TypeOK, queues, RefuseSession, Deletes
<1>2. WorldIdle'
  BY DEF TypeOK, WorldIdle, RefuseSession, Deletes
<1>3. ASSUME NEW t \in Sockets PROVE SocketInv(t)'
  <2> USE DEF TypeOK, queues, RefuseSession, Deletes, SocketInv, InUse,
              AtPacket
  <2>1. LockInv(t)'
    BY DEF LockInv, PointerInv
  <2>2. PointerInv(t)'
    BY DEF LockInv, PointerInv, WorldIdle
  <2>3. QueryInv(t)'
    BY DEF LockInv, PointerInv, QueryInv
  <2>4. UnusedInv(t)'
    BY DEF UnusedInv, WriteInv, QueryInv, PointerInv
  <2>5. WriteInv(t)'
    BY DEF WriteInv
  <2>6. ReadInv(t)'
    BY DEF ReadInv, QueryInv, UnusedInv, PointerInv
  <2> QED BY <2>1, <2>2, <2>3, <2>4, <2>5, <2>6
<1> QED BY <1>1, <1>2, <1>3

LEMMA AcceptSessionStep ==
  ASSUME IInv, NEW s \in Sockets, AcceptSession(s)
  PROVE  IInv'
<1> USE SocketConstants DEF IInv, Locked, Unlocked, WorldCloses
<1>1. TypeOK'
  BY DEF TypeOK, queues, AcceptSession
<1>2. WorldIdle'
  BY DEF TypeOK, WorldIdle, AcceptSession
<1>3. ASSUME NEW t \in Sockets PROVE SocketInv(t)'
  BY DEF TypeOK, queues, AcceptSession, SocketInv, LockInv, PointerInv,
         QueryInv, UnusedInv, WriteInv, ReadInv, WorldIdle, InUse, AtPacket
<1> QED BY <1>1, <1>2, <1>3

LEMMA SendToClientStep ==
  ASSUME IInv, NEW s \in Sockets, SendToClient(s)
  PROVE  IInv'
<1> USE SocketConstants DEF IInv, Locked, Unlocked, WorldCloses
<1>1. TypeOK'
  BY DEF TypeOK, queues, SendToClient, SendPacket, Enqueue, Dumps, IsOpen
<1>2. WorldIdle'
  BY DEF TypeOK, WorldIdle, SendToClient, SendPacket, Enqueue, Dumps, IsOpen
<1>3. ASSUME NEW t \in Sockets PROVE SocketInv(t)'
  <2> USE DEF TypeOK, queues, SendToClient, SendPacket, Enqueue, Dumps,
         IsOpen, SocketInv, InUse, AtPacket
  <2>1. LockInv(t)'
    BY DEF LockInv, PointerInv
  <2>2. PointerInv(t)'
    BY DEF LockInv, PointerInv, WorldIdle
  <2>3. QueryInv(t)'
    BY DEF LockInv, PointerInv, QueryInv
  <2>4. UnusedInv(t)'
    BY DEF UnusedInv, WriteInv, QueryInv, PointerInv
  <2>5. WriteInv(t)'
    BY DEF WriteInv
  <2>6. ReadInv(t)'
    BY DEF ReadInv, QueryInv, UnusedInv, PointerInv
  <2> QED BY <2>1, <2>2, <2>3, <2>4, <2>5, <2>6
<1> QED BY <1>1, <1>2, <1>3

LEMMA DumpToClientStep ==
  ASSUME IInv, NEW s \in Sockets, DumpToClient(s)
  PROVE  IInv'
<1> USE SocketConstants DEF IInv, Locked, Unlocked, WorldCloses
<1>1. TypeOK'
  BY DEF TypeOK, queues, DumpToClient, DumpFails, Crash, Enqueue, Idle
<1>2. WorldIdle'
  BY DEF TypeOK, WorldIdle, DumpToClient, DumpFails, Crash, Enqueue, Idle
<1>3. ASSUME NEW t \in Sockets PROVE SocketInv(t)'
  <2> USE DEF TypeOK, queues, DumpToClient, DumpFails, Crash, Enqueue, Idle,
         SocketInv, InUse, AtPacket
  <2>1. LockInv(t)'
    BY DEF LockInv, PointerInv
  <2>2. PointerInv(t)'
    BY DEF LockInv, PointerInv, WorldIdle
  <2>3. QueryInv(t)'
    BY DEF LockInv, PointerInv, QueryInv
  <2>4. UnusedInv(t)'
    BY DEF UnusedInv, WriteInv, QueryInv, PointerInv
  <2>5. WriteInv(t)'
    BY DEF WriteInv
  <2>6. ReadInv(t)'
    BY DEF ReadInv, QueryInv, UnusedInv, PointerInv
  <2> QED BY <2>1, <2>2, <2>3, <2>4, <2>5, <2>6
<1> QED BY <1>1, <1>2, <1>3

LEMMA KickPlayerStep ==
  ASSUME IInv, NEW s \in Sockets, KickPlayer(s)
  PROVE  IInv'
<1> USE SocketConstants DEF IInv, Locked, Unlocked, WorldCloses
<1>1. TypeOK'
  BY DEF TypeOK, queues, KickPlayer
<1>2. WorldIdle'
  BY DEF TypeOK, WorldIdle, KickPlayer
<1>3. ASSUME NEW t \in Sockets PROVE SocketInv(t)'
  BY DEF TypeOK, queues, KickPlayer, SocketInv, LockInv, PointerInv, QueryInv,
         UnusedInv, WriteInv, ReadInv, WorldIdle, InUse, AtPacket
<1> QED BY <1>1, <1>2, <1>3

LEMMA EndSessionStep ==
  ASSUME IInv, NEW s \in Sockets, EndSession(s)
  PROVE  IInv'
<1> USE SocketConstants DEF IInv, Locked, Unlocked, WorldCloses
<1>1. TypeOK'
  BY DEF TypeOK, queues, EndSession, IsOpen
<1>2. WorldIdle'
  BY DEF TypeOK, WorldIdle, EndSession, IsOpen
<1>3. ASSUME NEW t \in Sockets PROVE SocketInv(t)'
  <2> USE DEF TypeOK, queues, EndSession, IsOpen, SocketInv, InUse, AtPacket
  <2>1. LockInv(t)'
    BY DEF LockInv, PointerInv
  <2>2. PointerInv(t)'
    BY DEF LockInv, PointerInv, WorldIdle, QueryInv
  <2>3. QueryInv(t)'
    BY DEF LockInv, PointerInv, QueryInv
  <2>4. UnusedInv(t)'
    BY DEF UnusedInv, WriteInv, QueryInv, PointerInv
  <2>5. WriteInv(t)'
    BY DEF WriteInv
  <2>6. ReadInv(t)'
    BY DEF ReadInv, QueryInv, UnusedInv, PointerInv
  <2> QED BY <2>1, <2>2, <2>3, <2>4, <2>5, <2>6
<1> QED BY <1>1, <1>2, <1>3

LEMMA WorldOnCloseStep ==
  ASSUME IInv, NEW s \in Sockets, WorldOnClose(s)
  PROVE  IInv'
<1> USE SocketConstants DEF IInv, Locked, Unlocked, WorldCloses
<1>1. TypeOK'
  BY DEF TypeOK, queues, WorldOnClose, OnClose, Idle
<1>2. WorldIdle'
  BY DEF TypeOK, WorldIdle, WorldOnClose, OnClose, Idle
<1>3. ASSUME NEW t \in Sockets PROVE SocketInv(t)'
  <2> USE DEF TypeOK, queues, WorldOnClose, OnClose, Idle, SocketInv, InUse,
              AtPacket
  <2>1. LockInv(t)'
    BY DEF LockInv, PointerInv
  <2>2. PointerInv(t)'
    BY DEF LockInv, PointerInv, WorldIdle
  <2>3. QueryInv(t)'
    BY DEF LockInv, PointerInv, QueryInv
  <2>4. UnusedInv(t)'
    BY DEF UnusedInv, WriteInv, QueryInv, PointerInv
  <2>5. WriteInv(t)'
    BY DEF WriteInv
  <2>6. ReadInv(t)'
    BY DEF ReadInv, QueryInv, UnusedInv, PointerInv
  <2> QED BY <2>1, <2>2, <2>3, <2>4, <2>5, <2>6
<1> QED BY <1>1, <1>2, <1>3

LEMMA StutterStep == ASSUME IInv, UNCHANGED vars PROVE IInv'
  BY DEF vars, queues, IInv, TypeOK, WorldIdle, SocketInv, LockInv, PointerInv,
     QueryInv, UnusedInv, WriteInv, ReadInv, WorldCloses

LEMMA NextIInv == IInv /\ [Next]_vars => IInv'
<1> SUFFICES ASSUME IInv, [Next]_vars PROVE IInv'
  OBVIOUS
<1>1. CASE AddNewSockets
  BY <1>1, AddNewSocketsStep
<1>2. ASSUME NEW s \in Sockets, Connect(s) \/ RemoveSocket(s) PROVE IInv'
  BY <1>2, ConnectStep, RemoveSocketStep
<1>3. ASSUME NEW s \in Sockets, Update(s) PROVE IInv'
  BY <1>3, UpdateSocketStep, RefuseStep, ChallengeStep, AuthenticateStep
     DEF Update
<1>4. ASSUME NEW s \in Sockets,
             \/ WriteHandlerWrapper(s) \/ ReadError(s) \/ ReadHandler(s)
             \/ ReadMore(s)
      PROVE  IInv'
  BY <1>4, WriteHandlerWrapperStep, ReadErrorStep, ReadHandlerStep, ReadMoreStep
<1>5. ASSUME NEW s \in Sockets, Handler(s) PROVE IInv'
  BY <1>5, ReadOnStep, ReadDataHandlerStep, DumpPacketStep, BadPacketStep,
     AuthSessionStep, TakeSessionStep,
     NoSessionStep, DuplicateWithoutSessionStep, DuplicateUnloggedStep,
     HandlePingStep, SendPongStep, DumpPongStep, UseSessionStep, LogDuplicateStep, NetOnCloseStep
     DEF Handler
<1>6. ASSUME NEW s \in Sockets, World(s) PROVE IInv'
  BY <1>6, RefuseSessionStep, AcceptSessionStep, SendToClientStep,
     DumpToClientStep, KickPlayerStep, EndSessionStep, WorldOnCloseStep
     DEF World
<1>7. CASE UNCHANGED vars
  BY <1>7, StutterStep
<1> QED BY <1>1, <1>2, <1>3, <1>4, <1>5, <1>6, <1>7 DEF Next

THEOREM Inductive == Spec => []IInv
  BY InitIInv, NextIInv, PTL DEF Spec

---------------------------------------------------------------------------
(* What follows from it                                                    *)

\* Every variable keeps to its type (WorldSocket.h, Socket.h).
THEOREM TypeCorrect == Spec => []TypeOK
<1>1. IInv => TypeOK
  BY DEF IInv
<1> QED BY <1>1, Inductive, PTL

\* What the network thread uses under _worldSessionLock has not been deleted,
\* and what either thread uses without it, to dump a packet, has not as long as
\* the pointer is set (WorldSocket.cpp, ReadDataHandler and SendPacket).  That
\* it still is set when it is used is not said, and not so: World.cpp, the
\* comment in AddSession_.
THEOREM SessionsInUse == Spec => []SessionsInUseAreAlive
<1>1. IInv => SessionsInUseAreAlive
  BY DEF IInv, SocketInv, LockInv, PointerInv, SessionsInUseAreAlive, IsAlive,
         TypeOK, Locked, Unlocked
<1> QED BY <1>1, Inductive, PTL

\* One read into _readBuffer at a time (Socket.h, AsyncRead and the handlers
\* that start it again).
THEOREM OneRead == Spec => []OneReadAtATime
<1>1. IInv => OneReadAtATime
  BY DEF IInv, SocketInv, ReadInv, OneReadAtATime
<1> QED BY <1>1, Inductive, PTL
=============================================================================
