----------------------------- MODULE WorldSocket -----------------------------
(***************************************************************************)
(* Server/WorldSocket.cpp on shared/Networking/Socket.h and                *)
(* NetworkThread.h: the connections of one network thread, and the         *)
(* pointer each has to a session that the world thread deletes.            *)
(*                                                                         *)
(* The network thread runs one handler at a time: the update of a socket   *)
(* by the timer, the end of an asynchronous read or write.  The world      *)
(* thread closes sockets when it kicks a session and deletes sessions.     *)
(* Either of them runs CloseSocket: the exchange of _closed, which one     *)
(* caller wins, and then OnClose, which takes _worldSessionLock.  The two  *)
(* are steps of their own, and so is everything a handler does while it    *)
(* holds the lock.                                                         *)
(*                                                                         *)
(* With Debug.LogAllPackets the name of the session goes with each packet  *)
(* that is received or sent.  Both threads read it through the pointer     *)
(* without the lock: they test it, and use it in a later step.             *)
(***************************************************************************)
EXTENDS Naturals

CONSTANTS
    Sockets,
    None,           \* a thread is busy with no socket
    LogAllPackets,  \* Debug.LogAllPackets
    MaxBuffered     \* bound on what waits to be written

ASSUME SocketConstants ==
    /\ None \notin Sockets
    /\ LogAllPackets \in BOOLEAN
    /\ MaxBuffered \in Nat \ {0}

VARIABLES
    list,           \* _newSockets and _sockets of the network thread
    closed,         \* _closed
    closing,        \* _closing
    buffer,         \* the packets in _bufferQueue
    write,          \* the buffers in _writeQueue
    writing,        \* _isWritingAsync
    reading,        \* an asynchronous read is under way
    query,          \* what _queryProcessor waits for
    authed,         \* _authed
    pointer,        \* _worldSession is not nullptr
    session,        \* the session of the socket, as the world thread has it
    lock,           \* _worldSessionLock: "free" or held by "net"
    net,            \* what the network thread does, and with which socket
    world           \* what the world thread does, and with which socket

queues == <<buffer, write, writing>>
vars == <<list, closed, closing, queues, reading, query, authed, pointer,
          session, lock, net, world>>

Idle == [at |-> "idle", sock |-> None]

Init ==
    /\ list = [s \in Sockets |-> "none"]
    /\ closed = [s \in Sockets |-> FALSE]
    /\ closing = [s \in Sockets |-> FALSE]
    /\ buffer = [s \in Sockets |-> 0]
    /\ write = [s \in Sockets |-> 0]
    /\ writing = [s \in Sockets |-> FALSE]
    /\ reading = [s \in Sockets |-> FALSE]
    /\ query = [s \in Sockets |-> "none"]
    /\ authed = [s \in Sockets |-> FALSE]
    /\ pointer = [s \in Sockets |-> FALSE]
    /\ session = [s \in Sockets |-> "none"]
    /\ lock = [s \in Sockets |-> "free"]
    /\ net = Idle
    /\ world = Idle

IsOpen(s) == ~closed[s] /\ ~closing[s]

\* _bufferQueue.Enqueue.
Enqueue(s) == buffer' = [buffer EXCEPT ![s] = @ + 1]

\* SendPacket, from either thread, unless the packet is dumped on the way.
SendPacket(s) == IF IsOpen(s) THEN Enqueue(s) ELSE buffer' = buffer

\* The packet is dumped with the name of a session.
Dumps(s) == LogAllPackets /\ pointer[s]

\* The bound: nothing is sent to a client that has left so much.
HasRoom(s) == buffer[s] + write[s] < MaxBuffered

\* The network thread is in a handler of s, at step p.
Net(s, p) == net.at = p /\ net.sock = s
NetAt(s, p) == net' = [at |-> p, sock |-> s]

\* The server crashes.
Crash ==
    /\ net' = [at |-> "crashed", sock |-> None]
    /\ world' = [at |-> "crashed", sock |-> None]

\* After the test in Dumps the name is read through the pointer, which may
\* have been set to null since.
DumpFails(s) == ~pointer[s] /\ Crash

\* Mutant: OnClose is not called.
NetClosesQuietly(s) ==
    /\ closed' = [closed EXCEPT ![s] = TRUE]
    /\ net' = Idle

\* CloseSocket, called by the network thread as the last thing a handler does.
NetCloses(s) ==
    /\ closed' = [closed EXCEPT ![s] = TRUE]
    /\ IF closed[s] THEN net' = Idle ELSE NetAt(s, "onclose")

\* AsyncRead, likewise.
AsyncRead(s) ==
    /\ reading' = [reading EXCEPT ![s] = IsOpen(s)]
    /\ net' = Idle

---------------------------------------------------------------------------
(* The network thread: connections, and the timer that updates them.       *)

\* SocketMgr::OnSocketOpen: Start asks for the bans of the address, then
\* the socket is handed to the thread.
Connect(s) ==
    /\ list[s] = "none"
    /\ list' = [list EXCEPT ![s] = "new"]
    /\ query' = [query EXCEPT ![s] = "ip"]
    /\ UNCHANGED <<closed, closing, queues, reading, authed, pointer, session,
                   lock, net, world>>

\* AddNewSockets.
AddNewSockets ==
    /\ net.at = "idle"
    /\ \E s \in Sockets : list[s] = "new"
    /\ list' = [s \in Sockets |-> IF list[s] # "new" THEN list[s]
                                  ELSE IF IsOpen(s) THEN "listed" ELSE "removed"]
    /\ UNCHANGED <<closed, closing, queues, reading, query, authed, pointer,
                   session, lock, net, world>>

\* NetworkThread::Update drops a socket whose Update returned false.
RemoveSocket(s) ==
    /\ net.at = "idle"
    /\ list[s] = "listed"
    /\ closed[s]
    /\ list' = [list EXCEPT ![s] = "removed"]
    /\ UNCHANGED <<closed, closing, queues, reading, query, authed, pointer,
                   session, lock, net, world>>

\* Mutant: the flag is looked at only when a write has failed or waited.
LastBufferGoneUnseen(s, left) == FALSE

\* A socket marked by DelayedCloseSocket closes with its last buffer.
LastBufferGone(s, left) == closing[s] /\ left = 0

\* HandleQueue leaves that many buffers in _writeQueue, and closes the socket
\* if it has taken the last one away.
HandleQueue(s, taken, left, blocked) ==
    /\ write' = [write EXCEPT ![s] = left]
    /\ writing' = [writing EXCEPT ![s] = blocked]
    /\ IF taken /\ LastBufferGone(s, left)
       THEN NetCloses(s)
       ELSE net' = Idle /\ closed' = closed

\* WorldSocket::Update of an open socket, but for the queries: the packets
\* of _bufferQueue become a buffer of _writeQueue and, unless a write is
\* under way, the queue is written until it is empty, the socket takes no
\* more, or there is an error, which drops the buffer in front.
UpdateSocket(s) ==
    LET queued == write[s] + (IF buffer[s] > 0 THEN 1 ELSE 0) IN
    /\ net.at = "idle"
    /\ list[s] = "listed"
    /\ ~closed[s]
    /\ buffer[s] > 0 \/ (write[s] > 0 /\ ~writing[s])
    /\ buffer' = [buffer EXCEPT ![s] = 0]
    /\ IF writing[s]
       THEN write' = [write EXCEPT ![s] = queued] /\ UNCHANGED <<writing, closed, net>>
       ELSE \/ \E left \in 1 .. queued : HandleQueue(s, left < queued, left, TRUE)
            \/ \E left \in 0 .. queued - 1 : HandleQueue(s, TRUE, left, FALSE)
    /\ UNCHANGED <<list, closing, reading, query, authed, pointer, session,
                   lock, world>>

\* The end of an asynchronous write.
Ready(s) == writing[s]

\* WriteHandlerWrapper: the socket is ready, and one buffer is tried.
WriteHandlerWrapper(s) ==
    /\ net.at = "idle"
    /\ Ready(s)
    /\ \/ HandleQueue(s, FALSE, write[s], TRUE)
       \/ HandleQueue(s, TRUE, write[s] - 1, FALSE)
    /\ UNCHANGED <<list, closing, buffer, reading, query, authed, pointer,
                   session, lock, world>>

---------------------------------------------------------------------------
(* The network thread: the answers of the database, which the update of    *)
(* an open socket looks for.                                               *)

Answer(s, q) ==
    /\ net.at = "idle"
    /\ list[s] = "listed"
    /\ ~closed[s]
    /\ query[s] = q
    /\ query' = [query EXCEPT ![s] = "none"]

\* SendAuthResponseError and DelayedCloseSocket: the address or the account
\* is refused.
Refuse(s) ==
    /\ \E q \in {"ip", "account"} : Answer(s, q)
    /\ SendPacket(s)
    /\ closing' = [closing EXCEPT ![s] = TRUE]
    /\ UNCHANGED <<list, closed, write, writing, reading, authed, pointer,
                   session, lock, net, world>>

\* CheckIpCallback: reading starts, and the challenge is sent.
Challenge(s) ==
    /\ Answer(s, "ip")
    /\ AsyncRead(s)
    /\ SendPacket(s)
    /\ UNCHANGED <<list, closed, closing, write, writing, authed, pointer,
                   session, lock, world>>

\* HandleAuthSessionCallback: the session is made and handed to the world
\* thread, which may be at work with it before reading starts again.
Authenticate(s) ==
    /\ Answer(s, "account")
    /\ authed' = [authed EXCEPT ![s] = TRUE]
    /\ pointer' = [pointer EXCEPT ![s] = TRUE]
    /\ session' = [session EXCEPT ![s] = "adding"]
    /\ NetAt(s, "authenticated")
    /\ UNCHANGED <<list, closed, closing, queues, reading, lock, world>>

ReadOn(s) ==
    /\ Net(s, "authenticated")
    /\ AsyncRead(s)
    /\ UNCHANGED <<list, closed, closing, queues, query, authed, pointer,
                   session, lock, world>>

---------------------------------------------------------------------------
(* The network thread: a read has ended.                                   *)

\* ReadHandlerInternal with an error: the client is gone.
ReadError(s) ==
    /\ net.at = "idle"
    /\ reading[s]
    /\ reading' = [reading EXCEPT ![s] = FALSE]
    /\ NetCloses(s)
    /\ UNCHANGED <<list, closing, queues, query, authed, pointer, session,
                   lock, world>>

\* ReadHandler starts on the data, unless the socket was closed meanwhile.
ReadHandler(s) ==
    /\ net.at = "idle"
    /\ reading[s]
    /\ reading' = [reading EXCEPT ![s] = FALSE]
    /\ IF IsOpen(s) THEN NetAt(s, "packet") ELSE net' = Idle
    /\ UNCHANGED <<list, closed, closing, queues, query, authed, pointer,
                   session, lock, world>>

\* All the data is used up.
ReadMore(s) ==
    /\ Net(s, "packet")
    /\ AsyncRead(s)
    /\ UNCHANGED <<list, closed, closing, queues, query, authed, pointer,
                   session, lock, world>>

\* ReadDataHandler has a packet, and dumps it.
ReadDataHandler(s) ==
    /\ Net(s, "packet")
    /\ NetAt(s, IF Dumps(s) THEN "dump" ELSE "opcode")
    /\ UNCHANGED <<list, closed, closing, queues, reading, query, authed,
                   pointer, session, lock, world>>

DumpPacket(s) ==
    /\ Net(s, "dump")
    /\ \/ NetAt(s, "opcode") /\ world' = world
       \/ DumpFails(s)
    /\ UNCHANGED <<list, closed, closing, queues, reading, query, authed,
                   pointer, session, lock>>

\* A header or packet that makes no sense.
BadPacket(s) ==
    /\ Net(s, "packet") \/ Net(s, "opcode")
    /\ NetCloses(s)
    /\ UNCHANGED <<list, closing, queues, reading, query, authed, pointer,
                   session, lock, world>>

\* Mutant: reading goes on while the database is asked.
AuthSessionReadsOn(s) ==
    /\ Net(s, "opcode")
    /\ ~authed[s]
    /\ query' = [query EXCEPT ![s] = "account"]
    /\ UNCHANGED <<list, closed, closing, queues, reading, authed, pointer,
                   session, lock, net, world>>

\* The first CMSG_AUTH_SESSION asks the database for the account: ReadHandler
\* returns WaitingForQuery and does not read on.
AuthSession(s) ==
    /\ Net(s, "opcode")
    /\ ~authed[s]
    /\ query' = [query EXCEPT ![s] = "account"]
    /\ net' = Idle
    /\ UNCHANGED <<list, closed, closing, queues, reading, authed, pointer,
                   session, lock, world>>

\* _worldSessionLock is free, and the network thread takes it.
Lock(s) ==
    /\ lock[s] = "free"
    /\ lock' = [lock EXCEPT ![s] = "net"]

Unlock(s) == lock' = [lock EXCEPT ![s] = "free"]

\* A packet that is handled under the lock with the session, if there is one:
\* a ping, one of those answered at once, one for the queue of the session, or
\* a second CMSG_AUTH_SESSION.
Locked == {"ping", "light", "session", "duplicate"}

\* Where it is used without the lock.
Unlocked == {"dump", "dumppong"}

TakeSession(s) ==
    /\ Net(s, "opcode")
    /\ Lock(s)
    /\ pointer[s]
    /\ \E kind \in Locked : /\ kind = "duplicate" => authed[s]
                            /\ kind = "ping" => HasRoom(s)
                            /\ NetAt(s, kind)
    /\ UNCHANGED <<list, closed, closing, queues, reading, query, authed,
                   pointer, session, world>>

\* CMSG_KEEP_ALIVE and CMSG_TIME_SYNC_RESP do nothing without a session; a
\* ping closes the socket.  So does any other packet, under the lock: if the
\* socket was still open, OnClose then locks a mutex its own thread holds, and
\* waits for ever.
NoSession(s) ==
    /\ Net(s, "opcode")
    /\ ~pointer[s]
    /\ \/ NetAt(s, "packet") /\ UNCHANGED <<closed, lock>>
       \/ NetCloses(s) /\ lock' = lock
       \/ /\ ~closed[s]
          /\ Lock(s)
          /\ closed' = [closed EXCEPT ![s] = TRUE]
          /\ NetAt(s, "stuck")
    /\ UNCHANGED <<list, closing, queues, reading, query, authed, pointer,
                   session, world>>

\* A second CMSG_AUTH_SESSION is logged with the name of the session, and
\* the server crashes if there is none.
DuplicateWithoutSession(s) ==
    /\ Net(s, "opcode")
    /\ authed[s]
    /\ ~pointer[s]
    /\ Crash
    /\ UNCHANGED <<list, closed, closing, queues, reading, query, authed,
                   pointer, session, lock>>

\* The world thread is in CloseSocket, before OnClose.
WorldCloses(s) == world.sock = s /\ world.at \in {"kick", "delete"}

\* Nor is it logged if try_lock fails: the world thread may be inside OnClose.
DuplicateUnlogged(s) ==
    /\ Net(s, "opcode")
    /\ authed[s]
    /\ WorldCloses(s)
    /\ NetCloses(s)
    /\ UNCHANGED <<list, closing, queues, reading, query, authed, pointer,
                   session, lock, world>>

---------------------------------------------------------------------------
(* The network thread: it uses the session of s, and lets go of the lock.  *)

\* HandlePing answers, or closes the socket of a client that pings too often.
HandlePing(s) ==
    /\ Net(s, "ping")
    /\ Unlock(s)
    /\ \/ NetAt(s, "pong") /\ closed' = closed
       \/ NetCloses(s)
    /\ UNCHANGED <<list, closing, queues, reading, query, authed, pointer,
                   session, world>>

\* SendPacket of the answer, when the lock has been released.
SendPong(s) ==
    /\ Net(s, "pong")
    /\ IF IsOpen(s) /\ Dumps(s)
       THEN NetAt(s, "dumppong") /\ buffer' = buffer
       ELSE NetAt(s, "packet") /\ SendPacket(s)
    /\ UNCHANGED <<list, closed, closing, write, writing, reading, query,
                   authed, pointer, session, lock, world>>

DumpPong(s) ==
    /\ Net(s, "dumppong")
    /\ \/ Enqueue(s) /\ NetAt(s, "packet") /\ world' = world
       \/ DumpFails(s) /\ buffer' = buffer
    /\ UNCHANGED <<list, closed, closing, write, writing, reading, query,
                   authed, pointer, session, lock>>

\* ResetTimeOutTime, HandleTimeSyncResp or QueuePacket.
UseSession(s) ==
    /\ Net(s, "light") \/ Net(s, "session")
    /\ Unlock(s)
    /\ NetAt(s, "packet")
    /\ UNCHANGED <<list, closed, closing, queues, reading, query, authed,
                   pointer, session, world>>

LogDuplicate(s) ==
    /\ Net(s, "duplicate")
    /\ Unlock(s)
    /\ NetCloses(s)
    /\ UNCHANGED <<list, closing, queues, reading, query, authed, pointer,
                   session, world>>

\* Mutant: OnClose does not wait for the lock.
OnCloseUnlocked(s) == pointer' = [pointer EXCEPT ![s] = FALSE]

\* OnClose, by either thread.
OnClose(s) ==
    /\ lock[s] = "free"
    /\ pointer' = [pointer EXCEPT ![s] = FALSE]

NetOnClose(s) ==
    /\ Net(s, "onclose")
    /\ OnClose(s)
    /\ net' = Idle
    /\ UNCHANGED <<list, closed, closing, queues, reading, query, authed,
                   session, lock, world>>

---------------------------------------------------------------------------
(* The world thread.                                                       *)

\* KickPlayer and ~WorldSession close the socket; if that is up to this
\* thread, OnClose comes first.
Deletes(s) ==
    /\ closed' = [closed EXCEPT ![s] = TRUE]
    /\ IF closed[s]
       THEN session' = [session EXCEPT ![s] = "deleted"] /\ world' = world
       ELSE session' = session /\ world' = [at |-> "delete", sock |-> s]

\* AddSession_ refuses the session: it is kicked and deleted.
RefuseSession(s) ==
    /\ world.at = "idle"
    /\ session[s] = "adding"
    /\ Deletes(s)
    /\ UNCHANGED <<list, closing, queues, reading, query, authed, pointer,
                   lock, net>>

AcceptSession(s) ==
    /\ world.at = "idle"
    /\ session[s] = "adding"
    /\ session' = [session EXCEPT ![s] = "listed"]
    /\ UNCHANGED <<list, closed, closing, queues, reading, query, authed,
                   pointer, lock, net, world>>

\* WorldSession::SendPacket, by the world thread or one that it waits for.
SendToClient(s) ==
    /\ world.at = "idle"
    /\ session[s] = "listed"
    /\ HasRoom(s)
    /\ IF IsOpen(s) /\ Dumps(s)
       THEN world' = [at |-> "send", sock |-> s] /\ buffer' = buffer
       ELSE world' = world /\ SendPacket(s)
    /\ UNCHANGED <<list, closed, closing, write, writing, reading, query,
                   authed, pointer, session, lock, net>>

DumpToClient(s) ==
    /\ world.at = "send" /\ world.sock = s
    /\ \/ Enqueue(s) /\ world' = Idle /\ net' = net
       \/ DumpFails(s) /\ buffer' = buffer
    /\ UNCHANGED <<list, closed, closing, write, writing, reading, query,
                   authed, pointer, session, lock>>

\* KickPlayer, or the time of an idle connection is over.
KickPlayer(s) ==
    /\ world.at = "idle"
    /\ session[s] = "listed"
    /\ ~closed[s]
    /\ closed' = [closed EXCEPT ![s] = TRUE]
    /\ world' = [at |-> "kick", sock |-> s]
    /\ UNCHANGED <<list, closing, queues, reading, query, authed, pointer,
                   session, lock, net>>

\* The session whose socket is not open ends: m_Socket is dropped, and the
\* session deleted.
EndSession(s) ==
    /\ world.at = "idle"
    /\ session[s] = "listed"
    /\ ~IsOpen(s)
    /\ session' = [session EXCEPT ![s] = "deleted"]
    /\ UNCHANGED <<list, closed, closing, queues, reading, query, authed,
                   pointer, lock, net, world>>

WorldOnClose(s) ==
    /\ WorldCloses(s)
    /\ OnClose(s)
    /\ session' = IF world.at = "delete" THEN [session EXCEPT ![s] = "deleted"]
                                         ELSE session
    /\ world' = Idle
    /\ UNCHANGED <<list, closed, closing, queues, reading, query, authed, lock,
                   net>>

---------------------------------------------------------------------------

\* The steps of a handler that has begun.
Handler(s) ==
    \/ ReadOn(s) \/ ReadDataHandler(s) \/ DumpPacket(s) \/ BadPacket(s)
    \/ AuthSession(s) \/ TakeSession(s) \/ NoSession(s)
    \/ DuplicateWithoutSession(s) \/ DuplicateUnlogged(s)
    \/ HandlePing(s) \/ SendPong(s) \/ DumpPong(s)
    \/ UseSession(s) \/ LogDuplicate(s) \/ NetOnClose(s)

Update(s) == UpdateSocket(s) \/ Refuse(s) \/ Challenge(s) \/ Authenticate(s)

World(s) ==
    \/ RefuseSession(s) \/ AcceptSession(s) \/ SendToClient(s) \/ DumpToClient(s)
    \/ KickPlayer(s) \/ EndSession(s) \/ WorldOnClose(s)

Next ==
    \/ AddNewSockets
    \/ \E s \in Sockets :
         \/ Connect(s) \/ RemoveSocket(s) \/ Update(s) \/ WriteHandlerWrapper(s)
         \/ ReadError(s) \/ ReadHandler(s) \/ ReadMore(s) \/ Handler(s)
         \/ World(s)

Spec == Init /\ [][Next]_vars

\* The timer and the completions run in turn, a read buffer ends, the
\* database answers, a client takes data in the end, and the world thread
\* does not stay in SendPacket or OnClose.
FairSpec ==
    /\ Spec
    /\ WF_vars(AddNewSockets)
    /\ \A s \in Sockets :
         /\ SF_vars(RemoveSocket(s))
         /\ SF_vars(UpdateSocket(s))
         /\ SF_vars(Refuse(s) \/ Challenge(s) \/ Authenticate(s))
         /\ SF_vars(WriteHandlerWrapper(s))
         /\ SF_vars(ReadMore(s))
         /\ WF_vars(Handler(s))
         /\ WF_vars(DumpToClient(s) \/ WorldOnClose(s))

---------------------------------------------------------------------------
(* Properties                                                              *)

TypeOK ==
    /\ list \in [Sockets -> {"none", "new", "listed", "removed"}]
    /\ closed \in [Sockets -> BOOLEAN]
    /\ closing \in [Sockets -> BOOLEAN]
    /\ buffer \in [Sockets -> Nat]
    /\ write \in [Sockets -> Nat]
    /\ writing \in [Sockets -> BOOLEAN]
    /\ reading \in [Sockets -> BOOLEAN]
    /\ query \in [Sockets -> {"none", "ip", "account"}]
    /\ authed \in [Sockets -> BOOLEAN]
    /\ pointer \in [Sockets -> BOOLEAN]
    /\ session \in [Sockets -> {"none", "adding", "listed", "deleted"}]
    /\ lock \in [Sockets -> {"free", "net"}]
    /\ net \in [at : {"idle", "onclose", "authenticated", "packet", "opcode",
                      "pong", "stuck", "crashed"} \cup Locked \cup Unlocked,
                sock : Sockets \cup {None}]
    /\ world \in [at : {"idle", "kick", "delete", "send", "crashed"},
                  sock : Sockets \cup {None}]

IsAlive(s) == session[s] \in {"adding", "listed"}

\* The session that the network thread has taken from the socket has not been
\* deleted by the world thread when it is used under _worldSessionLock.  Of
\* the uses without the lock, which Debug.LogAllPackets adds, the same cannot
\* be said: that is the race of World.cpp:279.  But they are exposed to it
\* only between the test of the pointer and the use of it: as long as it is
\* set, the session is there, and so is the one of the world thread.
SessionsInUseAreAlive ==
    \A s \in Sockets :
        /\ net.sock = s /\ net.at \in Locked => IsAlive(s)
        /\ net.sock = s /\ net.at \in Unlocked /\ pointer[s] => IsAlive(s)
        /\ world.sock = s /\ world.at = "send" => IsAlive(s)

\* A socket never has two reads into the one _readBuffer under way, nor a
\* read while its data is handled or the database is asked who it is.
OneReadAtATime ==
    \A s \in Sockets : reading[s] => /\ query[s] = "none"
                                     /\ net.sock = s => net.at = "onclose"

\* Socket.h:118: a socket that was marked for closing after the answer to the
\* client closes, unless the network thread stops in an error of the code.
Halted == net.at \in {"stuck", "crashed"}
RefusedSocketsClose == \A s \in Sockets : closing[s] ~> (closed[s] \/ Halted)

\* A socket that closes, whoever closes it, is let go by the network thread
\* and by its session.
ClosedSocketsAreLetGo ==
    \A s \in Sockets : closed[s] ~> (Halted \/ (list[s] = "removed" /\ ~pointer[s]))
===========================================================================
