---------------------------- MODULE ControlProofs ----------------------------
(***************************************************************************)
(* Proofs about Control, for any finite set of connections and any number   *)
(* of slots.                                                               *)
(***************************************************************************)
EXTENDS Control, FiniteSetTheorems, TLAPS

\* The connections that are at one of the places.
At(where, places) == {c \in Conn : where[c] \in places}

Registered == Live \ {"free", "leave"}
Slotted == Live \ {"leave"}

\* AccountsAgree, in terms of places.
Accounts ==
    /\ connections = At(conn, Registered)
    /\ slots = Cardinality(At(conn, Slotted))
    /\ handlers = Cardinality(At(conn, Live))

\* Before Start there is nothing to accept, and the loop of run holds at most
\* one connection that no handler has taken yet.
Accepting ==
    /\ runner = "off" => ~listening /\ \A c \in Conn : conn[c] = "none"
    /\ \A c \in Conn : conn[c] = "accepted" =>
         runner = "admit" /\ \A d \in Conn : conn[d] = "accepted" => c = d

\* When run has ended nothing listens and no handler runs.
RunOver == runner = "done" => ~listening /\ \A c \in Conn : conn[c] \notin Live

Stopped ==
    /\ stop \in {"remove", "done"} => runner = "done"
    /\ stop = "done" => path = "absent"

IInv == TypeOK /\ Accounts /\ Accepting /\ RunOver /\ Stopped /\ NobodyLeftReading

-----------------------------------------------------------------------------
(* Counting connections by their place                                     *)

\* Connections are finitely many, so they can be counted wherever they are.
LEMMA Counts ==
  ASSUME NEW where, NEW places
  PROVE  /\ IsFiniteSet(At(where, places))
         /\ Cardinality(At(where, places)) \in Nat
<1>1. At(where, places) \subseteq Conn
  BY DEF At
<1>2. IsFiniteSet(At(where, places))
  BY <1>1, ConnAssumption, FS_Subset
<1>3. QED
  BY <1>2, FS_CardinalityType

\* What a connection that moves does to a count: nothing if both or neither of
\* its places are counted, and one more or one less otherwise.
LEMMA Moves ==
  ASSUME conn \in [Conn -> Place], NEW c \in Conn, NEW place \in Place, Move(c, place),
         NEW places
  PROVE  /\ (conn[c] \in places <=> place \in places) =>
              At(conn', places) = At(conn, places)
         /\ conn[c] \notin places /\ place \in places =>
              /\ At(conn', places) = At(conn, places) \cup {c}
              /\ Cardinality(At(conn', places)) = Cardinality(At(conn, places)) + 1
         /\ conn[c] \in places /\ place \notin places =>
              /\ At(conn', places) = At(conn, places) \ {c}
              /\ Cardinality(At(conn', places)) = Cardinality(At(conn, places)) - 1
<1>1. IsFiniteSet(At(conn, places)) /\ conn' = [conn EXCEPT ![c] = place]
  BY Counts DEF Move
<1>2. (conn[c] \in places <=> place \in places) => At(conn', places) = At(conn, places)
  BY <1>1 DEF At
<1>3. ASSUME conn[c] \notin places, place \in places
      PROVE  /\ At(conn', places) = At(conn, places) \cup {c}
             /\ Cardinality(At(conn', places)) = Cardinality(At(conn, places)) + 1
  <2>1. At(conn', places) = At(conn, places) \cup {c} /\ c \notin At(conn, places)
    BY <1>1, <1>3 DEF At
  <2>2. QED
    BY <1>1, <2>1, FS_AddElement
<1>4. ASSUME conn[c] \in places, place \notin places
      PROVE  /\ At(conn', places) = At(conn, places) \ {c}
             /\ Cardinality(At(conn', places)) = Cardinality(At(conn, places)) - 1
  <2>1. At(conn', places) = At(conn, places) \ {c} /\ c \in At(conn, places)
    BY <1>1, <1>4 DEF At
  <2>2. QED
    BY <1>1, <2>1, FS_RemoveElement
<1>5. QED
  BY <1>2, <1>3, <1>4

\* A move that changes no account: from one place to another of the same kind.
Alike(p, q) ==
    /\ p \in Registered <=> q \in Registered
    /\ p \in Slotted <=> q \in Slotted
    /\ p \in Live <=> q \in Live

-----------------------------------------------------------------------------
(* The inductive invariant                                                 *)

\* The places that the actions use, and which of them are counted.
LEMMA Places ==
    /\ "none" \in Place /\ "backlog" \in Place /\ "accepted" \in Place
    /\ "refused" \in Place /\ "gone" \in Place /\ Live \subseteq Place
    /\ Live = {"read", "handle", "write", "remove", "free", "leave"}
    /\ Slotted = {"read", "handle", "write", "remove", "free"}
    /\ Registered = {"read", "handle", "write", "remove"}
BY DEF Place, Live, Slotted, Registered

LEMMA AccountsInductive == IInv /\ [Next]_vars => Accounts'
<1> SUFFICES ASSUME IInv, [Next]_vars PROVE Accounts'
  OBVIOUS
<1> USE DEF IInv
<1>1. ASSUME UNCHANGED <<conn, shared>>
      PROVE  Accounts'
  BY <1>1 DEF Accounts, shared, At
<1>2. ASSUME NEW c \in Conn, NEW place \in Place, Move(c, place), Alike(conn[c], place),
             UNCHANGED shared
      PROVE  Accounts'
  <2>1. conn \in [Conn -> Place]
    BY DEF TypeOK
  <2>2. /\ At(conn', Registered) = At(conn, Registered)
        /\ At(conn', Slotted) = At(conn, Slotted)
        /\ At(conn', Live) = At(conn, Live)
    BY <1>2, <2>1, Moves DEF Alike
  <2>3. QED
    BY <1>2, <2>2 DEF Accounts, shared
<1>3. CASE StartServer \/ StartFails \/ AcceptFails \/ Drain \/ RunEnds \/ Closer
             \/ RootEnds \/ Stop \/ UNCHANGED vars
  BY <1>1, <1>3
     DEF StartServer, StartFails, AcceptFails, Drain, RunEnds, Closer, RootEnds,
     Stop, CloserClosesListener, CloserClosesConnections, StopCancels,
     StopClosesListener, StopClosesConnections, StopSeesRunDone, StopTimesOut,
     StopRemovesPath, vars
<1>4. ASSUME NEW c \in Conn, SendRequest(c) \/ Deadline(c) PROVE Accounts'
  BY <1>1, <1>4 DEF SendRequest, Deadline
<1>5. ASSUME NEW c \in Conn, Connect(c) PROVE Accounts'
  BY <1>2, <1>5, Places DEF Connect, Alike
<1>6. ASSUME NEW c \in Conn, Accept(c) PROVE Accounts'
  BY <1>2, <1>6, Places DEF Accept, Alike
<1>7. ASSUME NEW c \in Conn, Refuse(c) PROVE Accounts'
  BY <1>2, <1>7, Places DEF Refuse, Alike
<1>8. ASSUME NEW c \in Conn, ReadRequest(c) PROVE Accounts'
  <2>1. PICK place \in {"handle", "write"} : Move(c, place)
    BY <1>8 DEF ReadRequest
  <2>2. Alike(conn[c], place) /\ place \in Place /\ UNCHANGED shared
    BY <1>8, <2>1, Places DEF ReadRequest, Alike
  <2>3. QED
    BY <1>2, <2>1, <2>2
<1>9. ASSUME NEW c \in Conn, HandleRequest(c) PROVE Accounts'
  BY <1>2, <1>9, Places DEF HandleRequest, Alike
<1>10. ASSUME NEW c \in Conn, WriteResponse(c) PROVE Accounts'
  BY <1>2, <1>10, Places DEF WriteResponse, Alike
<1>11. ASSUME NEW c \in Conn, Admit(c) PROVE Accounts'
  <2>1. conn[c] = "accepted" /\ Move(c, "read") /\ conn \in [Conn -> Place]
    BY <1>11 DEF Admit, TypeOK
  <2>2. At(conn', Registered) = At(conn, Registered) \cup {c}
    BY <2>1, Moves, Places
  <2>3. Cardinality(At(conn', Slotted)) = Cardinality(At(conn, Slotted)) + 1
    BY <2>1, Moves, Places
  <2>4. Cardinality(At(conn', Live)) = Cardinality(At(conn, Live)) + 1
    BY <2>1, Moves, Places
  <2>5. QED
    BY <1>11, <2>2, <2>3, <2>4 DEF Admit, Accounts
<1>12. ASSUME NEW c \in Conn, RemoveConnection(c) PROVE Accounts'
  <2>1. conn[c] = "remove" /\ Move(c, "free") /\ conn \in [Conn -> Place]
    BY <1>12 DEF RemoveConnection, TypeOK
  <2>2. At(conn', Registered) = At(conn, Registered) \ {c}
    BY <2>1, Moves, Places
  <2>3. At(conn', Slotted) = At(conn, Slotted) /\ At(conn', Live) = At(conn, Live)
    BY <2>1, Moves, Places
  <2>4. QED
    BY <1>12, <2>2, <2>3 DEF RemoveConnection, Accounts
<1>13. ASSUME NEW c \in Conn, FreeSlot(c) PROVE Accounts'
  <2>1. conn[c] = "free" /\ Move(c, "leave") /\ conn \in [Conn -> Place]
    BY <1>13 DEF FreeSlot, TypeOK
  <2>2. Cardinality(At(conn', Slotted)) = Cardinality(At(conn, Slotted)) - 1
    BY <2>1, Moves, Places
  <2>3. At(conn', Registered) = At(conn, Registered) /\ At(conn', Live) = At(conn, Live)
    BY <2>1, Moves, Places
  <2>4. QED
    BY <1>13, <2>2, <2>3 DEF FreeSlot, Accounts
<1>14. ASSUME NEW c \in Conn, HandlerDone(c) PROVE Accounts'
  <2>1. conn[c] = "leave" /\ Move(c, "gone") /\ conn \in [Conn -> Place]
    BY <1>14 DEF HandlerDone, TypeOK
  <2>2. Cardinality(At(conn', Live)) = Cardinality(At(conn, Live)) - 1
    BY <2>1, Moves, Places
  <2>3. /\ At(conn', Registered) = At(conn, Registered)
        /\ At(conn', Slotted) = At(conn, Slotted)
    BY <2>1, Moves, Places
  <2>4. QED
    BY <1>14, <2>2, <2>3 DEF HandlerDone, Accounts
<1>15. QED
  BY <1>3, <1>4, <1>5, <1>6, <1>7, <1>8, <1>9, <1>10, <1>11, <1>12, <1>13, <1>14
     DEF Next, Run, Handle

LEMMA TypeInductive == IInv /\ [Next]_vars => TypeOK'
<1> SUFFICES ASSUME IInv, [Next]_vars PROVE TypeOK'
  OBVIOUS
<1>1. handlers' \in Nat
  BY AccountsInductive, Counts DEF Accounts
<1>2. slots' \in 0..Slots
  <2>1. slots' \in Nat
    BY AccountsInductive, Counts DEF Accounts
  <2>2. slots' = slots \/ slots' = slots - 1 \/ (slots < Slots /\ slots' = slots + 1)
    BY DEF Next, Run, Closer, Handle, Stop, vars, shared, StartServer, StartFails,
       AcceptFails, Drain, RunEnds, Accept, Admit, Refuse, CloserClosesListener,
       CloserClosesConnections, Connect, SendRequest, Deadline, ReadRequest,
       HandleRequest, WriteResponse, RemoveConnection, FreeSlot, HandlerDone,
       RootEnds, StopCancels, StopClosesListener, StopClosesConnections,
       StopSeesRunDone, StopTimesOut, StopRemovesPath
  <2>3. slots \in 0..Slots
    BY DEF IInv, TypeOK
  <2>4. QED
    BY <2>1, <2>2, <2>3, SlotsAssumption
<1> USE <1>1, <1>2 DEF IInv, TypeOK, serverVars, goVars, shared, clientVars
<1>3. CASE StartServer \/ StartFails \/ RootEnds
  BY <1>3 DEF StartServer, StartFails, RootEnds
<1>4. CASE AcceptFails \/ Drain \/ RunEnds \/ Closer
  BY <1>4 DEF AcceptFails, Drain, RunEnds, Closer, CloserReleased, CloserClosesListener,
     CloserClosesConnections, CloseConnections, CloseListener
<1>5. CASE Stop
  BY <1>5 DEF Stop, StopCancels, StopClosesListener, StopClosesConnections,
     StopSeesRunDone, StopTimesOut, StopRemovesPath, CloseConnections, CloseListener
<1>6. ASSUME NEW c \in Conn, Accept(c) \/ Admit(c) \/ Refuse(c) PROVE TypeOK'
  BY <1>6, Places DEF Accept, Admit, Refuse, Move
<1>7. ASSUME NEW c \in Conn, Connect(c) \/ SendRequest(c) \/ Deadline(c) PROVE TypeOK'
  BY <1>7, Places DEF Connect, SendRequest, Deadline, Move
<1>8. ASSUME NEW c \in Conn, ReadRequest(c) \/ HandleRequest(c) \/ WriteResponse(c)
      PROVE  TypeOK'
  BY <1>8, Places DEF ReadRequest, HandleRequest, WriteResponse, Move
<1>9. ASSUME NEW c \in Conn, RemoveConnection(c) \/ FreeSlot(c) \/ HandlerDone(c)
      PROVE  TypeOK'
  BY <1>9, Places DEF RemoveConnection, FreeSlot, HandlerDone, Move
<1>10. CASE UNCHANGED vars
  BY <1>10 DEF vars
<1>11. QED
  BY <1>3, <1>4, <1>5, <1>6, <1>7, <1>8, <1>9, <1>10 DEF Next, Run, Handle

\* The rest of the invariant is about the places of single connections, and
\* about which of the goroutines has got where.
LEMMA RestInductive ==
  IInv /\ [Next]_vars => Accepting' /\ RunOver' /\ Stopped' /\ NobodyLeftReading'
<1> DEFINE Rest == Accepting /\ RunOver /\ Stopped /\ NobodyLeftReading
<1> SUFFICES ASSUME IInv, [Next]_vars PROVE Rest'
  OBVIOUS
<1> USE Places DEF IInv, TypeOK, Accepting, RunOver, Stopped, NobodyLeftReading,
                   serverVars, goVars, shared, clientVars
<1>1. CASE StartServer \/ StartFails \/ RootEnds
  BY <1>1 DEF StartServer, StartFails, RootEnds
<1>2. CASE AcceptFails
  BY <1>2 DEF AcceptFails
<1>3. CASE Drain
  <2>1. \A c \in Conn : conn[c] = "read" => c \in connections
    BY DEF Accounts, At
  <2>2. QED
    BY <1>3, <2>1 DEF Drain, CloseConnections
<1>4. CASE RunEnds
  <2>1. At(conn, Live) = {}
    BY <1>4, Counts, FS_EmptySet DEF RunEnds, Accounts
  <2>2. \A c \in Conn : conn[c] \notin Live
    BY <2>1 DEF At
  <2>3. QED
    BY <1>4, <2>2 DEF RunEnds
<1>5. CASE Closer
  BY <1>5 DEF Closer, CloserClosesListener, CloserClosesConnections, CloseConnections,
     CloseListener
<1>6. CASE Stop
  BY <1>6 DEF Stop, StopCancels, StopClosesListener, StopClosesConnections,
     StopSeesRunDone, StopTimesOut, StopRemovesPath, CloseConnections, CloseListener
<1>7. ASSUME NEW c \in Conn, Accept(c) \/ Admit(c) \/ Refuse(c) PROVE Rest'
  BY <1>7 DEF Accept, Admit, Refuse, Move
<1>8. ASSUME NEW c \in Conn, Connect(c) \/ SendRequest(c) \/ Deadline(c) PROVE Rest'
  BY <1>8 DEF Connect, SendRequest, Deadline, Move
<1>9. ASSUME NEW c \in Conn, ReadRequest(c) \/ HandleRequest(c) \/ WriteResponse(c)
      PROVE  Rest'
  BY <1>9 DEF ReadRequest, HandleRequest, WriteResponse, Move
<1>10. ASSUME NEW c \in Conn, RemoveConnection(c) \/ FreeSlot(c) \/ HandlerDone(c)
       PROVE  Rest'
  BY <1>10 DEF RemoveConnection, FreeSlot, HandlerDone, Move
<1>11. CASE UNCHANGED vars
  BY <1>11 DEF vars
<1>12. QED
  BY <1>1, <1>2, <1>3, <1>4, <1>5, <1>6, <1>7, <1>8, <1>9, <1>10, <1>11
     DEF Next, Run, Handle

LEMMA InitIInv == Init => IInv
<1> SUFFICES ASSUME Init PROVE IInv
  OBVIOUS
<1>1. TypeOK
  <2>1. conn \in [Conn -> Place] /\ slots \in 0..Slots /\ handlers \in Nat
    BY Places, SlotsAssumption DEF Init
  <2>2. QED
    BY <2>1 DEF Init, TypeOK
<1>2. Accounts
  <2>1. At(conn, Registered) = {} /\ At(conn, Slotted) = {} /\ At(conn, Live) = {}
    BY Places DEF Init, At
  <2>2. QED
    BY <2>1, FS_EmptySet DEF Init, Accounts
<1>3. Accepting /\ RunOver /\ Stopped /\ NobodyLeftReading
  BY DEF Init, Accepting, RunOver, Stopped, NobodyLeftReading
<1>4. QED
  BY <1>1, <1>2, <1>3 DEF IInv

-----------------------------------------------------------------------------
(* Theorems                                                                *)

\* The invariant, for any finite set of connections and any number of slots.
THEOREM Invariance == Spec => []IInv
<1>1. IInv /\ [Next]_vars => IInv'
  BY AccountsInductive, TypeInductive, RestInductive DEF IInv
<1>2. QED
  BY <1>1, InitIInv, PTL DEF Spec

\* The variables of the server have their types: no slot is given back that
\* was not taken, no more are taken than there are, and the wait group never
\* counts below zero, at which Go panics.
THEOREM TypeCorrect == Spec => []TypeOK
<1>1. IInv => TypeOK
  BY DEF IInv
<1>2. QED
  BY <1>1, Invariance, PTL

\* The set of connections, the slots and the wait group count the handlers.
THEOREM AccountsOfHandlers == Spec => []AccountsAgree
<1>1. IInv => AccountsAgree
  BY DEF IInv, Accounts, AccountsAgree, At, Registered, Slotted, LiveConns
<1>2. QED
  BY <1>1, Invariance, PTL

\* No handler that run waits for is still waiting for its client.
THEOREM NobodyReadsOn == Spec => []NobodyLeftReading
<1>1. IInv => NobodyLeftReading
  BY DEF IInv
<1>2. QED
  BY <1>1, Invariance, PTL

\* Stop that returns without a timeout leaves no handler, no listener and no
\* socket behind.
THEOREM StopIsClean == Spec => []StopLeavesNothing
<1>1. IInv => StopLeavesNothing
  <2> SUFFICES ASSUME IInv, stop = "done"
               PROVE  /\ LiveConns = {} /\ connections = {}
                      /\ ~listening /\ path = "absent"
    BY DEF StopLeavesNothing
  <2>1. \A c \in Conn : conn[c] \notin Live
    BY DEF IInv, RunOver, Stopped
  <2>2. connections = {}
    BY <2>1 DEF IInv, Accounts, At, Registered
  <2>3. QED
    BY <2>1, <2>2 DEF IInv, RunOver, Stopped, LiveConns
<1>2. QED
  BY <1>1, Invariance, PTL
=============================================================================
