------------------------------ MODULE Receiving ------------------------------
(***************************************************************************)
(* How messages cross a connection.                                        *)
(*                                                                         *)
(* Several workers write messages to a socket, each under the socket's     *)
(* write lock, and bytes reach the other side a few at a time.  There,     *)
(* epoll reports the socket once and not again until it is armed; the      *)
(* event goes to some worker, which reads what is available into its       *)
(* buffer, then waits for the rest of a message that is not complete,      *)
(* handles the messages one after another, and arms the socket.            *)
(*                                                                         *)
(* The handling of BATCH_CHUNKS is deferred to an event of its own, whose  *)
(* worker afterwards receives from the socket like any other.              *)
(***************************************************************************)
EXTENDS Integers, Sequences, FiniteSets, SequencesExt

CONSTANTS
    Messages,       \* messages that are sent, one by each sender
    Length,         \* length of the part after a message's header
    HeaderSize,
    BufferSize,     \* of a worker's buffer
    Readers,        \* workers of the receiver
    Deferring       \* messages whose handling is deferred

\* The bytes of a message.  Only their order matters.
Size(m) == HeaderSize + Length[m]
Bytes(m) == [i \in 1 .. Size(m) |-> <<m, i>>]

VARIABLES
    written,        \* bytes of each message that were written
    writeLock,      \* messages whose sender holds the write lock
    stream,         \* bytes on their way
    closed,         \* the sender has closed the connection
    armed,          \* epoll reports the socket
    events,         \* events of the socket: pending, or a deferred message
    at,             \* what a worker of the receiver does
    data,           \* what it has in its buffer
    expected,       \* bytes it waits for
    alive,          \* what recv told it last: the connection is alive
    handled         \* messages in the order in which they were handled

sendVars == <<written, writeLock, stream, closed>>
receivingVars == <<sendVars, armed, events, at, data, expected, alive, handled>>

ReceivingInit ==
    /\ written = [m \in Messages |-> 0] /\ writeLock = {}
    /\ stream = <<>> /\ closed = FALSE
    /\ armed = TRUE /\ events = <<>>
    /\ at = [r \in Readers |-> "idle"] /\ data = [r \in Readers |-> <<>>]
    /\ expected = [r \in Readers |-> 0] /\ alive = [r \in Readers |-> TRUE]
    /\ handled = <<>>

Goto(r, label) == at' = [at EXCEPT ![r] = label]

-----------------------------------------------------------------------------
(***************************************************************************)
(* Socket::send                                                            *)
(***************************************************************************)

\* A mutant: the lock is not taken.
LockFreeNever(m) == TRUE

LockFree(m) == writeLock \subseteq {m}

\* ::write takes as many bytes as it likes, and the loop goes on with the rest.
Write(m, n) ==
    /\ LockFree(m) /\ ~closed /\ written[m] + n <= Size(m)
    /\ written' = [written EXCEPT ![m] = @ + n]
    /\ writeLock' = IF written[m] + n = Size(m) THEN writeLock \ {m} ELSE writeLock \cup {m}
    /\ stream' = stream \o SubSeq(Bytes(m), written[m] + 1, written[m] + n)
    /\ UNCHANGED <<closed, armed, events, at, data, expected, alive, handled>>

\* The sender stops, after the last message or in the middle of one.
Close ==
    /\ ~closed /\ \E m \in Messages : written[m] > 0
    /\ closed' = TRUE
    /\ UNCHANGED <<written, writeLock, stream, armed, events, at, data, expected, alive, handled>>

-----------------------------------------------------------------------------
(***************************************************************************)
(* EPoll::start and the handler                                            *)
(***************************************************************************)

Pending == [type |-> "pending"]
Deferred(m) == [type |-> "deferred", message |-> m]
Stopped == \E r \in Readers : ~alive[r]

\* EPOLLONESHOT: the socket is reported once.
Report ==
    /\ armed /\ (stream # <<>> \/ closed) /\ ~Stopped
    /\ armed' = FALSE
    /\ events' = Append(events, Pending)
    /\ UNCHANGED <<sendVars, at, data, expected, alive, handled>>

-----------------------------------------------------------------------------
(***************************************************************************)
(* WORKER_RECEIVE_FROM_EVENT_SOCKET and what follows                       *)
(***************************************************************************)

\* A worker extracts the event.  A deferred message is handled before anything is read.
Extract(r) ==
    /\ at[r] = "idle" /\ events # <<>>
    /\ events' = Tail(events)
    /\ handled' = IF Head(events).type = "deferred" THEN Append(handled, Head(events).message) ELSE handled
    /\ data' = [data EXCEPT ![r] = <<>>]
    /\ Goto(r, "first")
    /\ UNCHANGED <<sendVars, armed, expected, alive>>

\* One ::read of at most n bytes.
Taken(r, n) ==
    LET k == IF Len(stream) <= n THEN Len(stream) ELSE n
    IN /\ data' = [data EXCEPT ![r] = @ \o SubSeq(stream, 1, k)]
       /\ stream' = SubSeq(stream, k + 1, Len(stream))

\* recv without waiting: until nothing is left, the buffer is full, or the end is met.
First(r) ==
    /\ at[r] = "first"
    /\ \/ /\ stream # <<>> /\ Len(data[r]) < BufferSize
          /\ Taken(r, BufferSize - Len(data[r]))
          /\ UNCHANGED <<at, alive>>
       \/ /\ stream = <<>> /\ Len(data[r]) < BufferSize
          /\ alive' = [alive EXCEPT ![r] = ~closed]
          /\ Goto(r, "messages")
          /\ UNCHANGED <<stream, data>>
       \/ /\ Len(data[r]) = BufferSize
          /\ Goto(r, "messages")
          /\ UNCHANGED <<stream, data, alive>>
    /\ UNCHANGED <<written, writeLock, closed, armed, events, expected, handled>>

\* The length in the header that starts the buffer.
Header(r) == data[r][1]
Announced(r) == HeaderSize + Length[Header(r)[1]]

\* What WORKER_RECEIVE_WHOLE_MESSAGE_FROM_EVENT_SOCKET asks for: a header, then the rest.
Need(r) == IF Len(data[r]) < HeaderSize THEN HeaderSize ELSE Announced(r)

\* parseHeader fails unless the bytes are those of a header.
HeaderValid(r) == SubSeq(data[r], 1, HeaderSize) = SubSeq(Bytes(Header(r)[1]), 1, HeaderSize)

\* The loop ends with the buffer or the connection, or at what is not a header.
Over(r) ==
    \/ data[r] = <<>> \/ ~alive[r]
    \/ Len(data[r]) >= HeaderSize /\ ~HeaderValid(r)

\* The loop over the messages in the buffer.
Message(r) ==
    /\ at[r] = "messages"
    /\ \/ /\ Over(r)
          /\ Goto(r, "done")
          /\ UNCHANGED <<events, data, expected, handled>>
       \/ /\ ~Over(r) /\ Len(data[r]) < Need(r)
          /\ expected' = [expected EXCEPT ![r] = Need(r)]
          /\ Goto(r, "rest")
          /\ UNCHANGED <<events, data, handled>>
       \/ /\ ~Over(r) /\ Len(data[r]) >= Need(r)
          /\ LET m == Header(r)[1]
                 whole == SubSeq(data[r], 1, Size(m)) = Bytes(m)
             IN /\ handled' = IF m \in Deferring THEN handled ELSE Append(handled, IF whole THEN m ELSE "mixed")
                /\ events' = IF m \in Deferring THEN Append(events, Deferred(m)) ELSE events
                /\ data' = [data EXCEPT ![r] = SubSeq(@, Size(m) + 1, Len(@))]
          /\ UNCHANGED <<at, expected>>
    /\ UNCHANGED <<sendVars, armed, alive>>

\* recvRem: recv that waits for the rest of a header or of a message.
Rest(r) ==
    /\ at[r] = "rest"
    /\ \/ /\ Len(data[r]) = expected[r]
          /\ Goto(r, "messages")
          /\ UNCHANGED <<stream, data, alive>>
       \/ /\ Len(data[r]) < expected[r] /\ stream # <<>>
          /\ Taken(r, expected[r] - Len(data[r]))
          /\ UNCHANGED <<at, alive>>
       \/ /\ Len(data[r]) < expected[r] /\ stream = <<>> /\ closed
          /\ alive' = [alive EXCEPT ![r] = FALSE]
          /\ Goto(r, "messages")
          /\ UNCHANGED <<stream, data>>
    /\ UNCHANGED <<written, writeLock, closed, armed, events, expected, handled>>

\* A mutant: a worker that met no message does not arm the socket.
DoneAfterMessages(r) ==
    /\ at[r] = "done"
    /\ armed' = IF alive[r] /\ expected[r] > 0 THEN TRUE ELSE armed
    /\ Goto(r, "idle")
    /\ expected' = [expected EXCEPT ![r] = 0]
    /\ UNCHANGED <<sendVars, events, data, alive, handled>>

\* The socket is armed unless it was closed.
Done(r) ==
    /\ at[r] = "done"
    /\ armed' = IF alive[r] THEN TRUE ELSE armed
    /\ Goto(r, "idle")
    /\ expected' = [expected EXCEPT ![r] = 0]
    /\ UNCHANGED <<sendVars, events, data, alive, handled>>

ReceivingNext ==
    \/ \E m \in Messages : \E n \in 1 .. Size(m) : Write(m, n)
    \/ Close \/ Report
    \/ \E r \in Readers : Extract(r) \/ First(r) \/ Message(r) \/ Rest(r) \/ Done(r)

-----------------------------------------------------------------------------
(***************************************************************************)
(* What the connection promises                                            *)
(***************************************************************************)

Sent == {m \in Messages : written[m] > 0}

\* Messages are handled whole, each once, and none that was not sent, however their
\* bytes arrive and whichever workers read them.
HandledWhole ==
    /\ ToSet(handled) \subseteq Sent
    /\ IsInjective(handled)

\* Bytes that arrive are not left unread: the socket is armed, an event is in the
\* queue, or a worker reads it and will arm it.
NoneUnread ==
    armed \/ events # <<>> \/ Stopped \/ \E r \in Readers : at[r] # "idle"

\* When nothing is on its way or in a worker's hand, all that was sent whole is handled.
AllHandled ==
    stream = <<>> /\ events = <<>> /\ ~closed /\ (\A r \in Readers : at[r] = "idle")
        => \A m \in Messages : written[m] = Size(m) => m \in ToSet(handled)
=============================================================================
