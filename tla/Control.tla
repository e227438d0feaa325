------------------------------- MODULE Control -------------------------------
(***************************************************************************)
(* internal/modules/control: the server of the external control socket.     *)
(* One goroutine accepts connections, one waits for the end of the context, *)
(* a handler goroutine per connection reads one request, calls the session  *)
(* and answers; Stop runs in the goroutine of the daemon.  They share the   *)
(* listener, the set of open connections (under a lock), the slots and the  *)
(* count of handlers.                                                       *)
(*                                                                         *)
(* What a request does to the session is Session's business: here a handler *)
(* is "handle" until the session returns.                                   *)
(***************************************************************************)
EXTENDS Naturals, FiniteSets

CONSTANTS
    Conn,             \* connections of clients
    Slots             \* maxConcurrentRequests

ASSUME ConnAssumption == IsFiniteSet(Conn)
ASSUME SlotsAssumption == Slots \in Nat \ {0}

VARIABLES
    path,             \* what the socket path names: "absent", "socket", "other"
    started,          \* s.listener is set
    listening,        \* the listener is open
    ctxDone,          \* the context of the server is done
    runner,           \* where run is
    closer,           \* where the goroutine is that waits for the context
    stop,             \* where the call of Stop is
    conn,             \* where each connection is
    requested,        \* the client has sent its request and closed its side
    closed,           \* the server's side is closed, or past its deadline
    connections,      \* s.connections
    slots,            \* len(s.requests)
    handlers,         \* the count of the wait group
    answered          \* the client got an answer

serverVars == <<path, started, listening, ctxDone>>
goVars == <<runner, closer, stop>>
shared == <<connections, slots, handlers>>
clientVars == <<requested, answered>>
vars == <<serverVars, goVars, conn, closed, shared, clientVars>>

\* "backlog" and "accepted" come before the handler, "refused" instead of it.
Live == {"read", "handle", "write", "remove", "free", "leave"}
Place == {"none", "backlog", "accepted", "refused", "gone"} \cup Live

TypeOK ==
    /\ path \in {"absent", "socket", "other"}
    /\ started \in BOOLEAN /\ listening \in BOOLEAN /\ ctxDone \in BOOLEAN
    /\ runner \in {"off", "accept", "admit", "drain", "wait", "done"}
    /\ closer \in {"off", "waiting", "closing", "done"}
    /\ stop \in {"out", "listener", "connections", "wait", "remove", "done", "gaveUp"}
    /\ conn \in [Conn -> Place]
    /\ closed \subseteq Conn /\ connections \subseteq Conn
    /\ requested \subseteq Conn /\ answered \subseteq Conn
    /\ slots \in 0..Slots /\ handlers \in Nat

Init ==
    /\ path \in {"absent", "socket", "other"}
    /\ started = FALSE /\ listening = FALSE /\ ctxDone = FALSE
    /\ runner = "off" /\ closer = "off" /\ stop = "out"
    /\ conn = [c \in Conn |-> "none"]
    /\ closed = {} /\ connections = {} /\ requested = {} /\ answered = {}
    /\ slots = 0 /\ handlers = 0

Move(c, place) == conn' = [conn EXCEPT ![c] = place]

-----------------------------------------------------------------------------
(* Start.                                                                  *)

\* A socket left behind is removed and the path taken; chmod may fail after
\* that, and then the socket is removed again.  The loop of the daemon calls
\* Start once.
StartServer ==
    /\ runner = "off" /\ ~started /\ path # "other"
    /\ path' = "socket"
    /\ started' = TRUE /\ listening' = TRUE
    /\ runner' = "accept" /\ closer' = "waiting"
    /\ UNCHANGED <<ctxDone, stop, conn, closed, shared, clientVars>>

StartFails ==
    /\ runner = "off" /\ ~started
    /\ path' \in (IF path = "other" THEN {path} ELSE {path, "absent"})
    /\ runner' = "done"
    /\ UNCHANGED <<started, listening, ctxDone, closer, stop, conn, closed, shared, clientVars>>

-----------------------------------------------------------------------------
(* The clients.  Nothing obliges a client to finish its request.            *)

Connect(c) ==
    /\ listening /\ conn[c] = "none"
    /\ Move(c, "backlog")
    /\ UNCHANGED <<serverVars, goVars, closed, shared, clientVars>>

SendRequest(c) ==
    /\ conn[c] # "none" /\ c \notin requested
    /\ requested' = requested \cup {c}
    /\ UNCHANGED <<serverVars, goVars, conn, closed, shared, answered>>

-----------------------------------------------------------------------------
(* Server.run                                                              *)

Accept(c) ==
    /\ runner = "accept" /\ listening
    /\ conn[c] = "backlog"
    /\ Move(c, "accepted") /\ runner' = "admit"
    /\ UNCHANGED <<serverVars, closer, stop, closed, shared, clientVars>>

\* Other errors of Accept are logged and the loop goes on.
AcceptFails ==
    /\ runner = "accept"
    /\ ~listening \/ ctxDone
    /\ runner' = "drain"
    /\ UNCHANGED <<serverVars, closer, stop, conn, closed, shared, clientVars>>

\* Mutant: the connection is kept without a slot.
AdmitPastCapacity(c) ==
    /\ conn[c] = "accepted"
    /\ slots' = slots + 1 /\ handlers' = handlers + 1
    /\ connections' = connections \cup {c}
    /\ Move(c, "read") /\ runner' = "accept"
    /\ UNCHANGED <<serverVars, closer, stop, closed, clientVars>>

Admit(c) ==
    /\ conn[c] = "accepted" /\ slots < Slots
    /\ slots' = slots + 1 /\ handlers' = handlers + 1
    /\ connections' = connections \cup {c}
    /\ Move(c, "read") /\ runner' = "accept"
    /\ UNCHANGED <<serverVars, closer, stop, closed, clientVars>>

Refuse(c) ==
    /\ conn[c] = "accepted" /\ slots = Slots
    /\ closed' = closed \cup {c}
    /\ Move(c, "refused") /\ runner' = "accept"
    /\ UNCHANGED <<serverVars, closer, stop, shared, clientVars>>

CloseConnections == closed' = closed \cup connections

\* Mutant: run relies on the other goroutine to close the connections.
DrainNothing ==
    /\ runner = "drain"
    /\ runner' = "wait"
    /\ UNCHANGED <<serverVars, closer, stop, conn, closed, shared, clientVars>>

\* A connection accepted while the others were being closed is closed here.
Drain ==
    /\ runner = "drain"
    /\ CloseConnections
    /\ runner' = "wait"
    /\ UNCHANGED <<serverVars, closer, stop, conn, shared, clientVars>>

\* watchDone: the goroutine that waits for the context ends, unless it takes
\* the end of the context first.
CloserReleased == closer' \in (IF closer = "waiting" THEN {"done", "waiting"} ELSE {closer})

\* Mutant: run does not wait for its handlers.
RunEndsAtOnce ==
    /\ runner = "wait"
    /\ runner' = "done" /\ CloserReleased
    /\ listening' = FALSE
    /\ path' = "absent"
    /\ UNCHANGED <<started, ctxDone, stop, conn, closed, shared, clientVars>>

\* handlers.Wait, and the deferred calls: the other goroutine is released,
\* the listener closed and the path removed.
RunEnds ==
    /\ runner = "wait" /\ handlers = 0
    /\ runner' = "done" /\ CloserReleased
    /\ listening' = FALSE
    /\ path' = "absent"
    /\ UNCHANGED <<started, ctxDone, stop, conn, closed, shared, clientVars>>

\* Closing a unix listener unlinks its path.
CloseListener ==
    /\ listening' = FALSE
    /\ path' = IF listening THEN "absent" ELSE path

\* The goroutine that waits for the context.
CloserClosesListener ==
    /\ closer = "waiting" /\ ctxDone
    /\ CloseListener
    /\ closer' = "closing"
    /\ UNCHANGED <<started, ctxDone, runner, stop, conn, closed, shared, clientVars>>

CloserClosesConnections ==
    /\ closer = "closing"
    /\ CloseConnections
    /\ closer' = "done"
    /\ UNCHANGED <<serverVars, runner, stop, conn, shared, clientVars>>

-----------------------------------------------------------------------------
(* The handler of a connection.                                            *)

\* handleConn reads a request that is complete; an error, an oversized or an
\* invalid request is answered at once.
ReadRequest(c) ==
    /\ conn[c] = "read"
    /\ \/ c \in requested /\ c \notin closed /\ \E place \in {"handle", "write"} : Move(c, place)
       \/ c \in closed /\ Move(c, "write")
    /\ UNCHANGED <<serverVars, goVars, closed, shared, clientVars>>

\* Mutant: handleConn sets no deadline.
NoDeadline(c) == FALSE

\* The deadline of the connection, two minutes after its handler began.
Deadline(c) ==
    /\ conn[c] \in {"read", "handle", "write"} /\ c \notin closed
    /\ closed' = closed \cup {c}
    /\ UNCHANGED <<serverVars, goVars, conn, shared, clientVars>>

\* handleRequest: the session returns.
HandleRequest(c) ==
    /\ conn[c] = "handle"
    /\ Move(c, "write")
    /\ UNCHANGED <<serverVars, goVars, closed, shared, clientVars>>

\* writeResponse, and the deferred conn.Close.
WriteResponse(c) ==
    /\ conn[c] = "write"
    /\ answered' = IF c \in closed THEN answered ELSE answered \cup {c}
    /\ closed' = closed \cup {c}
    /\ Move(c, "remove")
    /\ UNCHANGED <<serverVars, goVars, shared, requested>>

RemoveConnection(c) ==
    /\ conn[c] = "remove"
    /\ connections' = connections \ {c}
    /\ Move(c, "free")
    /\ UNCHANGED <<serverVars, goVars, closed, slots, handlers, clientVars>>

\* Mutant: the slot is not given back.
KeepSlot(c) ==
    /\ conn[c] = "free"
    /\ Move(c, "leave")
    /\ UNCHANGED <<serverVars, goVars, closed, shared, clientVars>>

FreeSlot(c) ==
    /\ conn[c] = "free"
    /\ slots' = slots - 1
    /\ Move(c, "leave")
    /\ UNCHANGED <<serverVars, goVars, closed, connections, handlers, clientVars>>

HandlerDone(c) ==
    /\ conn[c] = "leave"
    /\ handlers' = handlers - 1
    /\ Move(c, "gone")
    /\ UNCHANGED <<serverVars, goVars, closed, connections, slots, clientVars>>

-----------------------------------------------------------------------------
(* Stop                                                                    *)

RootEnds ==
    /\ ~ctxDone
    /\ ctxDone' = TRUE
    /\ UNCHANGED <<path, started, listening, goVars, conn, closed, shared, clientVars>>

StopCancels ==
    /\ stop = "out" /\ started
    /\ ctxDone' = TRUE /\ stop' = "listener"
    /\ UNCHANGED <<path, started, listening, runner, closer, conn, closed, shared, clientVars>>

StopClosesListener ==
    /\ stop = "listener"
    /\ CloseListener
    /\ stop' \in {"connections", "gaveUp"}      \* an error of Close ends Stop
    /\ UNCHANGED <<started, ctxDone, runner, closer, conn, closed, shared, clientVars>>

StopClosesConnections ==
    /\ stop = "connections"
    /\ CloseConnections
    /\ stop' = "wait"
    /\ UNCHANGED <<serverVars, runner, closer, conn, shared, clientVars>>

StopSeesRunDone ==
    /\ stop = "wait" /\ runner = "done"
    /\ started' = FALSE
    /\ stop' = "remove"
    /\ UNCHANGED <<path, listening, ctxDone, runner, closer, conn, closed, shared, clientVars>>

StopTimesOut ==
    /\ stop = "wait"
    /\ stop' = "gaveUp"
    /\ UNCHANGED <<serverVars, runner, closer, conn, closed, shared, clientVars>>

StopRemovesPath ==
    /\ stop = "remove"
    /\ path' = "absent"
    /\ stop' = "done"
    /\ UNCHANGED <<started, listening, ctxDone, runner, closer, conn, closed, shared, clientVars>>

-----------------------------------------------------------------------------
Run == AcceptFails \/ Drain \/ RunEnds \/ \E c \in Conn : Accept(c) \/ Admit(c) \/ Refuse(c)
Closer == CloserClosesListener \/ CloserClosesConnections
Handle(c) ==
    \/ ReadRequest(c) \/ HandleRequest(c) \/ WriteResponse(c)
    \/ RemoveConnection(c) \/ FreeSlot(c) \/ HandlerDone(c)
Stop ==
    \/ StopCancels \/ StopClosesListener \/ StopClosesConnections
    \/ StopSeesRunDone \/ StopTimesOut \/ StopRemovesPath

Next ==
    \/ StartServer \/ StartFails
    \/ Run \/ Closer
    \/ \E c \in Conn : Connect(c) \/ SendRequest(c) \/ Deadline(c) \/ Handle(c)
    \/ RootEnds
    \/ Stop

Spec == Init /\ [][Next]_vars

\* The goroutines run, and a request that has reached the session returns: no
\* deadline of the connection would end it, and Session!CallsReturn says when it
\* may not.  No client is obliged to do anything, and Stop is not obliged to time
\* out.
FairSpec ==
    /\ Spec
    /\ WF_vars(Run) /\ WF_vars(Closer)
    /\ \A c \in Conn : WF_vars(Handle(c))
    /\ WF_vars(StopClosesListener) /\ WF_vars(StopClosesConnections)
    /\ WF_vars(StopSeesRunDone) /\ WF_vars(StopRemovesPath)

-----------------------------------------------------------------------------
LiveConns == {c \in Conn : conn[c] \in Live}

\* The three accounts of the handlers agree at every moment, whatever ends a
\* connection: each registered connection has a handler that will remove it,
\* each slot and each count of the wait group belongs to one handler, and no
\* more than Slots requests run at once (server.go 203-217).
AccountsAgree ==
    /\ connections = {c \in Conn : conn[c] \in Live \ {"free", "leave"}}
    /\ slots = Cardinality({c \in Conn : conn[c] \in Live \ {"leave"}})
    /\ handlers = Cardinality(LiveConns)

\* While run waits for its handlers none of them can still be waiting for
\* its client, not even one whose connection was accepted while the others
\* were being closed (server.go 193-222).
NobodyLeftReading ==
    runner = "wait" => \A c \in Conn : conn[c] = "read" => c \in closed

\* When Stop has returned without a timeout, no handler is left to touch the
\* session, nothing listens, and the socket is gone (server.go 134-173).
StopLeavesNothing ==
    stop = "done" => LiveConns = {} /\ connections = {} /\ ~listening /\ path = "absent"

\* Stop returns although clients may never finish their requests and no
\* deadline passes.
StopReturns == stop # "out" ~> stop \in {"done", "gaveUp"}

\* Every connection the server holds is given up in the end, if deadlines
\* pass, so slots come back although clients may never finish their requests
\* (server.go 209-214, 248).  Deadlines bound the reading; a handler inside the
\* session leaves when the session lets it, which FairSpec assumes.
HandlersEnd ==
    (\A c \in Conn : WF_vars(Deadline(c)))
        => \A c \in Conn : conn[c] \in Live ~> conn[c] = "gone"
=============================================================================
