---------------------- MODULE ServiceConnections_proofs ----------------------
(***************************************************************************)
(* Theorems about ServiceConnections, for any number of clients and any    *)
(* connection bound.                                                       *)
(***************************************************************************)
EXTENDS ServiceConnections, FiniteSetTheorems, TLAPS

\* The loop gets as far as joining only through the flag, which stays set.
LoopStopped == loop \in {"join", "returned"} => stopping

\* The inductive invariant.
ConnectionInv ==
    /\ TypeOK /\ IsFiniteSet(active) /\ TablesFit
    /\ LoopStopped /\ ReturnsAlone

-----------------------------------------------------------------------------
\* Init establishes the inductive invariant.
LEMMA InitConnectionInv == Init => ConnectionInv
<1> SUFFICES ASSUME Init PROVE ConnectionInv
    OBVIOUS
<1>1. TypeOK
    <2>1. workers \in 0 .. MaxConnections
        BY ConnectionsAssumption DEF Init
    <2>2. stopping \in BOOLEAN /\ loop \in Loop /\ active \subseteq Clients
        BY Zenon DEF Init, Loop
    <2>3. sock \in [Clients -> Sock] /\ inbox \in [Clients -> Inbox]
        BY DEF Init, Sock, Inbox
    <2> QED BY <2>1, <2>2, <2>3 DEF TypeOK
<1>2. IsFiniteSet(active) /\ Cardinality(active) = 0
    BY FS_EmptySet DEF Init
<1>3. TablesFit
    BY <1>2, ConnectionsAssumption DEF Init, TablesFit, Serving
<1>4. LoopStopped /\ ReturnsAlone
    BY DEF Init, LoopStopped, ReturnsAlone
<1> QED BY <1>1, <1>2, <1>3, <1>4 DEF ConnectionInv

\* A step that leaves the table and the flag alone, and moves one connection
\* from one side of Serving to the same side, keeps the invariant.
LEMMA MoveKeeps ==
    ASSUME ConnectionInv, NEW c \in Clients, NEW s \in Sock,
           s \in Serving <=> sock[c] \in Serving,
           loop = "returned" => s = "none",
           Moves(c, s), inbox' \in [Clients -> Inbox],
           UNCHANGED <<loop, workers, active>>, stopping' \in {stopping, TRUE}
    PROVE  ConnectionInv'
<1>1. TypeOK'
    BY DEF ConnectionInv, TypeOK, Moves
<1>2. IsFiniteSet(active)'
    BY DEF ConnectionInv
<1>3. \A d \in Clients : sock'[d] \in Serving <=> sock[d] \in Serving
    BY DEF ConnectionInv, TypeOK, Moves
<1>4. TablesFit'
    BY <1>3 DEF ConnectionInv, TablesFit
<1>5. LoopStopped' /\ ReturnsAlone'
    BY DEF ConnectionInv, LoopStopped, ReturnsAlone, TypeOK, Moves
<1> QED BY <1>1, <1>2, <1>4, <1>5 DEF ConnectionInv

\* A step that changes nothing but what clients have sent, keeps the invariant.
LEMMA InboxKeeps ==
    ASSUME ConnectionInv, inbox' \in [Clients -> Inbox],
           UNCHANGED <<loop, workers, active, sock>>, stopping' \in {stopping, TRUE}
    PROVE  ConnectionInv'
BY DEF ConnectionInv, TypeOK, TablesFit, LoopStopped, ReturnsAlone

\* Steps of clients keep the invariant.
LEMMA ClientKeeps ==
    ASSUME ConnectionInv, NEW c \in Clients, ClientStep(c)
    PROVE  ConnectionInv'
<1>0. sock[c] \in Sock /\ inbox \in [Clients -> Inbox]
    BY DEF ConnectionInv, TypeOK
<1>1. CASE Connect(c)
    <2>1. /\ "backlog" \in Sock /\ ("backlog" \in Serving <=> sock[c] \in Serving)
          /\ loop # "returned"
        BY <1>1 DEF Connect, Sock, Serving
    <2> QED BY <1>0, <1>1, <2>1, MoveKeeps DEF Connect, run
<1>2. CASE SendPart(c)
    BY <1>0, <1>2, InboxKeeps DEF SendPart, Holds, Inbox, run
<1>3. CASE Close(c)
    BY <1>0, <1>3, InboxKeeps DEF Close, Holds, Inbox, run
<1>4. ASSUME NEW f \in Whole, SendRest(c, f) PROVE ConnectionInv'
    BY <1>0, <1>4, InboxKeeps DEF SendRest, Holds, Inbox, run
<1>5. CASE Drain(c)
    <2>1. /\ {"poll", "leave"} \subseteq Serving /\ sock[c] \in Serving /\ Serving \subseteq Sock
          /\ loop # "returned"
        BY <1>5 DEF Drain, Sock, Serving, ConnectionInv, ReturnsAlone
    <2>2. CASE Moves(c, "poll") /\ Holds(c, "empty")
        <3>1. inbox' \in [Clients -> Inbox]
            BY <1>0, <2>2 DEF Holds, Inbox
        <3> QED BY <1>5, <2>1, <2>2, <3>1, MoveKeeps DEF Drain, run
    <2>3. CASE Moves(c, "leave") /\ UNCHANGED inbox
        BY <1>0, <1>5, <2>1, <2>3, MoveKeeps DEF Drain, run
    <2> QED BY <1>5, <2>2, <2>3 DEF Drain
<1> QED BY <1>1, <1>2, <1>3, <1>4, <1>5 DEF ClientStep

\* Steps of a connection worker keep the invariant; Leave takes one out of the
\* table and out of Serving.
LEMMA WorkerKeeps ==
    ASSUME ConnectionInv, NEW c \in Clients, WorkerStep(c)
    PROVE  ConnectionInv'
<1>0. /\ inbox \in [Clients -> Inbox]
      /\ {"poll", "read", "handle", "send", "leave"} \subseteq Serving /\ Serving \subseteq Sock
    BY DEF ConnectionInv, TypeOK, Serving, Sock
<1>1. sock[c] \in Serving /\ loop # "returned"
    BY DEF WorkerStep, PollStop, PollReady, ReadFrame, Handle, Leave, Serving,
           ConnectionInv, ReturnsAlone
<1>2. CASE PollStop(c)
    BY <1>0, <1>1, <1>2, MoveKeeps DEF PollStop, run
<1>3. CASE PollReady(c)
    BY <1>0, <1>1, <1>3, MoveKeeps DEF PollReady, run
<1>4. CASE ReadFrame(c)
    BY <1>0, <1>1, <1>4, MoveKeeps DEF ReadFrame, run
<1>5. CASE Handle(c)
    <2>1. inbox' \in [Clients -> Inbox]
        BY <1>0, <1>5 DEF Handle, Holds, Inbox
    <2>2. stopping' \in {stopping, TRUE} /\ \E s \in {"poll", "send", "leave"} : Moves(c, s)
        BY <1>5 DEF Handle
    <2> QED BY <1>0, <1>1, <1>5, <2>1, <2>2, MoveKeeps DEF Handle, run
<1>6. CASE Leave(c)
    <2>1. sock' = [sock EXCEPT ![c] = "none"] /\ active' = active \ {c}
        BY <1>6 DEF Leave, Moves
    <2>2. TypeOK'
        BY <1>6, <2>1 DEF Leave, Holds, ConnectionInv, TypeOK, Sock, Inbox
    <2>3. /\ IsFiniteSet(active') /\ Cardinality(active) \in Nat
          /\ Cardinality(active') \in Nat /\ Cardinality(active') <= Cardinality(active)
        BY <2>1, FS_RemoveElement, FS_CardinalityType, FS_Subset DEF ConnectionInv
    <2>4. Cardinality(active') <= workers' /\ workers' <= MaxConnections
        BY <1>6, <2>3, ConnectionsAssumption DEF Leave, ConnectionInv, TablesFit, TypeOK
    <2>5. active' = {d \in Clients : sock'[d] \in Serving}
        BY <2>1 DEF ConnectionInv, TablesFit, TypeOK, Serving
    <2>6. LoopStopped' /\ ReturnsAlone'
        BY <1>1, <1>6 DEF Leave, ConnectionInv, LoopStopped, ReturnsAlone
    <2> QED BY <2>2, <2>3, <2>4, <2>5, <2>6 DEF ConnectionInv, TablesFit
<1> QED BY <1>2, <1>3, <1>4, <1>5, <1>6 DEF WorkerStep

\* Steps of the accept loop keep the invariant; Accept is the one that fills the
\* table, below the bound.
LEMMA RunKeeps ==
    ASSUME ConnectionInv, RunStep
    PROVE  ConnectionInv'
<1>1. CASE Select
    BY <1>1 DEF Select, ConnectionInv, TypeOK, TablesFit, LoopStopped, ReturnsAlone, Loop
<1>2. CASE StopAccepting
    <2>1. TypeOK'
        BY <1>2 DEF StopAccepting, ConnectionInv, TypeOK, Loop, Sock, Inbox
    <2>2. \A d \in Clients : sock'[d] \in Serving <=> sock[d] \in Serving
        BY <1>2 DEF StopAccepting, ConnectionInv, TypeOK, Serving
    <2>3. TablesFit'
        BY <1>2, <2>2 DEF StopAccepting, ConnectionInv, TablesFit
    <2> QED BY <1>2, <2>1, <2>3 DEF StopAccepting, ConnectionInv, LoopStopped, ReturnsAlone
<1>3. CASE Join
    BY <1>3 DEF Join, ConnectionInv, TypeOK, TablesFit, LoopStopped, ReturnsAlone, Loop
<1>4. ASSUME NEW c \in Clients, Accept(c) PROVE ConnectionInv'
    <2>1. sock' = [sock EXCEPT ![c] = "poll"] /\ active' = active \cup {c}
        BY <1>4 DEF Accept, Moves
    <2>2. TypeOK'
        <3>1. workers' \in 0 .. MaxConnections
            BY <1>4, ConnectionsAssumption DEF Accept, ConnectionInv, TypeOK
        <3>2. sock' \in [Clients -> Sock] /\ active' \subseteq Clients /\ loop' \in Loop
            BY <1>4, <2>1 DEF Accept, ConnectionInv, TypeOK, Sock, Serving, Loop
        <3> QED BY <1>4, <3>1, <3>2 DEF Accept, ConnectionInv, TypeOK
    <2>3. /\ IsFiniteSet(active') /\ Cardinality(active) \in Nat
          /\ Cardinality(active') \in {Cardinality(active), Cardinality(active) + 1}
        <3>1. IsFiniteSet(active) /\ Cardinality(active) \in Nat
            BY FS_CardinalityType DEF ConnectionInv
        <3>2. /\ IsFiniteSet(active \cup {c})
              /\ Cardinality(active \cup {c}) \in {Cardinality(active), Cardinality(active) + 1}
            BY <3>1, FS_AddElement, Zenon
        <3> QED BY <2>1, <3>1, <3>2, Zenon
    <2>4. Cardinality(active') <= workers' /\ workers' <= MaxConnections
        BY <1>4, <2>3, ConnectionsAssumption DEF Accept, ConnectionInv, TablesFit, TypeOK
    <2>5. active' = {d \in Clients : sock'[d] \in Serving}
        BY <2>1 DEF ConnectionInv, TablesFit, TypeOK, Serving
    <2>6. LoopStopped' /\ ReturnsAlone'
        BY <1>4 DEF Accept, LoopStopped, ReturnsAlone
    <2> QED BY <2>2, <2>3, <2>4, <2>5, <2>6 DEF ConnectionInv, TablesFit
<1>5. ASSUME NEW c \in Clients, Refuse(c) PROVE ConnectionInv'
    <2>1. TypeOK'
        BY <1>5 DEF Refuse, Moves, Holds, ConnectionInv, TypeOK, Sock, Inbox, Loop
    <2>2. \A d \in Clients : sock'[d] \in Serving <=> sock[d] \in Serving
        BY <1>5 DEF Refuse, Moves, ConnectionInv, TypeOK, Serving
    <2> QED BY <1>5, <2>1, <2>2 DEF Refuse, ConnectionInv, TablesFit, LoopStopped, ReturnsAlone
<1> QED BY <1>1, <1>2, <1>3, <1>4, <1>5 DEF RunStep

\* Every step keeps the inductive invariant.
LEMMA NextConnectionInv == ConnectionInv /\ [Next]_vars => ConnectionInv'
<1> SUFFICES ASSUME ConnectionInv, [Next]_vars PROVE ConnectionInv'
    OBVIOUS
<1>1. CASE Signal
    BY <1>1, InboxKeeps DEF Signal, run, ConnectionInv, TypeOK
<1>2. CASE UNCHANGED vars
    BY <1>2, InboxKeeps DEF vars, ConnectionInv, TypeOK
<1> QED BY <1>1, <1>2, ClientKeeps, WorkerKeeps, RunKeeps DEF Next

-----------------------------------------------------------------------------
\* The inductive invariant holds in every reachable state.
THEOREM ConnectionInvariance == Spec => []ConnectionInv
BY InitConnectionInv, NextConnectionInv, PTL DEF Spec

\* The connection table is exact and within its reserved room, for any number of
\* clients and any bound (Service::Run, Service::ServeConnection).
THEOREM TablesHold == Spec => []TablesFit
<1>1. ConnectionInv => TablesFit
    BY DEF ConnectionInv
<1> QED BY <1>1, ConnectionInvariance, PTL

\* Run returns only when the flag is set and every worker has ended, for any
\* number of clients, also those accepted while the flag was being set.
THEOREM ReturnsLast == Spec => []ReturnsAlone
<1>1. ConnectionInv => ReturnsAlone
    BY DEF ConnectionInv
<1> QED BY <1>1, ConnectionInvariance, PTL
=============================================================================
