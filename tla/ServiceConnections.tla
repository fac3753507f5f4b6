-------------------------- MODULE ServiceConnections --------------------------
(***************************************************************************)
(* The threads of oppd (src/service.cpp): the accept loop Service::Run,    *)
(* one worker per connection (Service::ServeConnection and ReadFrame), and *)
(* shutdown, which is a flag that every loop polls.                        *)
(*                                                                         *)
(* The sockets block: nothing sets a receive or send timeout on them, so   *)
(* recv in ReadAll waits for the rest of a frame and send in WriteAll for  *)
(* a client that does not read, whatever the flag says.  What a handler    *)
(* does to the service's data is in ServiceRequests.                       *)
(***************************************************************************)
EXTENDS Naturals, FiniteSets

CONSTANTS
    Clients,        \* clients; each has at most one connection at a time
    MaxConnections  \* options_.max_connections

ASSUME ConnectionsAssumption == MaxConnections \in Nat

VARIABLES
    stopping,   \* stopping_
    loop,       \* where Run is
    workers,    \* workers_.size()
    active,     \* active_connections_
    sock,       \* sock[c]: what serves c's connection, and where it is
    inbox       \* inbox[c]: what c has sent and the worker not answered

vars == <<stopping, loop, workers, active, sock, inbox>>

\* The frames a worker tells apart: a request with a reply that fits the socket
\* buffer, one with a reply that does not, Shutdown, and one ReadFrame rejects.
Whole == {"frame", "large", "shutdown", "bad"}

Inbox == {"empty", "part", "eof"} \cup Whole
Serving == {"poll", "read", "handle", "send", "leave"}
Sock == {"none", "backlog"} \cup Serving
Loop == {"select", "accept", "join", "returned"}

Init ==
    /\ stopping = FALSE
    /\ loop = "select"
    /\ workers = 0
    /\ active = {}
    /\ sock = [c \in Clients |-> "none"]
    /\ inbox = [c \in Clients |-> "empty"]

Moves(c, s) == sock' = [sock EXCEPT ![c] = s]
Holds(c, f) == inbox' = [inbox EXCEPT ![c] = f]
run == <<loop, workers, active>>

-----------------------------------------------------------------------------
(* Clients                                                                 *)

Connect(c) ==
    /\ loop \in {"select", "accept"}
    /\ sock[c] = "none"
    /\ Moves(c, "backlog")
    /\ UNCHANGED <<stopping, run, inbox>>

SendPart(c) ==
    /\ sock[c] # "none"
    /\ inbox[c] = "empty"
    /\ Holds(c, "part")
    /\ UNCHANGED <<stopping, run, sock>>

SendRest(c, f) ==
    /\ inbox[c] = "part"
    /\ Holds(c, f)
    /\ UNCHANGED <<stopping, run, sock>>

Close(c) ==
    /\ sock[c] # "none"
    /\ inbox[c] \in {"empty", "part"}
    /\ Holds(c, "eof")
    /\ UNCHANGED <<stopping, run, sock>>

\* The client takes the whole of a large reply, or resets the connection.
Drain(c) ==
    /\ sock[c] = "send"
    /\ \/ Moves(c, "poll") /\ Holds(c, "empty")
       \/ Moves(c, "leave") /\ UNCHANGED inbox
    /\ UNCHANGED <<stopping, run>>

-----------------------------------------------------------------------------
(* Service::Run                                                            *)

\* select reports the listener readable and the flag is not set.
Select ==
    /\ loop = "select"
    /\ ~ stopping
    /\ \E c \in Clients : sock[c] = "backlog"
    /\ loop' = "accept"
    /\ UNCHANGED <<stopping, workers, active, sock, inbox>>

\* accept, and under mutex_ the test of the bound.
Accept(c) ==
    /\ loop = "accept"
    /\ sock[c] = "backlog"
    /\ workers < MaxConnections
    /\ loop' = "select"
    /\ workers' = workers + 1
    /\ active' = active \cup {c}
    /\ Moves(c, "poll")
    /\ UNCHANGED <<stopping, inbox>>

\* At the bound the connection is answered Exhausted and closed.
Refuse(c) ==
    /\ loop = "accept"
    /\ sock[c] = "backlog"
    /\ workers >= MaxConnections
    /\ loop' = "select"
    /\ Moves(c, "none")
    /\ Holds(c, "empty")
    /\ UNCHANGED <<stopping, workers, active>>

\* The loop ends; it closes the listener, which resets the backlog.
StopAccepting ==
    /\ loop = "select"
    /\ stopping
    /\ loop' = "join"
    /\ sock' = [c \in Clients |-> IF sock[c] = "backlog" THEN "none" ELSE sock[c]]
    /\ inbox' = [c \in Clients |-> IF sock[c] = "backlog" THEN "empty" ELSE inbox[c]]
    /\ UNCHANGED <<stopping, workers, active>>

\* Mutant of Join: only the workers that wait for a frame are waited for.
JoinEarly ==
    /\ loop = "join"
    /\ \A c \in Clients : sock[c] # "poll"
    /\ loop' = "returned"
    /\ UNCHANGED <<stopping, workers, active, sock, inbox>>

\* Every worker has been joined.
Join ==
    /\ loop = "join"
    /\ \A c \in Clients : sock[c] = "none"
    /\ loop' = "returned"
    /\ UNCHANGED <<stopping, workers, active, sock, inbox>>

\* Service::Shutdown, called by the signal handler of oppd.
Signal ==
    /\ ~ stopping
    /\ stopping' = TRUE
    /\ UNCHANGED <<run, sock, inbox>>

-----------------------------------------------------------------------------
(* Service::ServeConnection                                                *)

\* Mutant of PollStop: the poll has no time limit.
PollStopUnbounded(c) ==
    /\ sock[c] = "poll"
    /\ stopping
    /\ inbox[c] # "empty"
    /\ Moves(c, "leave")
    /\ UNCHANGED <<stopping, run, inbox>>

\* The poll ends and the flag is set.
PollStop(c) ==
    /\ sock[c] = "poll"
    /\ stopping
    /\ Moves(c, "leave")
    /\ UNCHANGED <<stopping, run, inbox>>

\* select reports the connection readable.
PollReady(c) ==
    /\ sock[c] = "poll"
    /\ ~ stopping
    /\ inbox[c] # "empty"
    /\ Moves(c, "read")
    /\ UNCHANGED <<stopping, run, inbox>>

\* ReadFrame: a whole frame goes to its handler; at the end of the stream, and
\* after the answer to a frame that is not one, the worker leaves.  With a part
\* of a frame recv blocks.
ReadFrame(c) ==
    /\ sock[c] = "read"
    /\ inbox[c] \notin {"empty", "part"}
    /\ Moves(c, IF inbox[c] \in {"bad", "eof"} THEN "leave" ELSE "handle")
    /\ UNCHANGED <<stopping, run, inbox>>

\* HandleFrameFor and the reply, which may fail; Shutdown is acknowledged first
\* and then sets the flag.
Handle(c) ==
    /\ sock[c] = "handle"
    /\ \/ /\ inbox[c] = "frame"
          /\ \/ Moves(c, "poll") /\ Holds(c, "empty")
             \/ Moves(c, "leave") /\ UNCHANGED inbox
          /\ UNCHANGED stopping
       \/ /\ inbox[c] = "large"
          /\ Moves(c, "send")
          /\ UNCHANGED <<stopping, inbox>>
       \/ /\ inbox[c] = "shutdown"
          /\ stopping' = TRUE
          /\ Moves(c, "leave")
          /\ UNCHANGED inbox
    /\ UNCHANGED run

\* Mutant of Leave: the entry is not erased.
LeaveListed(c) ==
    /\ sock[c] = "leave"
    /\ Moves(c, "none")
    /\ Holds(c, "empty")
    /\ UNCHANGED <<stopping, run>>

\* The entry is erased under mutex_ and the socket closed; the thread ends.  Its
\* std::thread stays in workers_.
Leave(c) ==
    /\ sock[c] = "leave"
    /\ active' = active \ {c}
    /\ Moves(c, "none")
    /\ Holds(c, "empty")
    /\ UNCHANGED <<stopping, loop, workers>>

-----------------------------------------------------------------------------
ClientStep(c) ==
    \/ Connect(c) \/ SendPart(c) \/ Close(c) \/ Drain(c)
    \/ \E f \in Whole : SendRest(c, f)

WorkerStep(c) == PollStop(c) \/ PollReady(c) \/ ReadFrame(c) \/ Handle(c) \/ Leave(c)

RunStep == Select \/ StopAccepting \/ Join \/ \E c \in Clients : Accept(c) \/ Refuse(c)

Next == (\E c \in Clients : ClientStep(c) \/ WorkerStep(c)) \/ RunStep \/ Signal

Spec == Init /\ [][Next]_vars

\* The threads are scheduled.
ServerFair == WF_vars(RunStep) /\ \A c \in Clients : WF_vars(WorkerStep(c))

\* A client that started a frame finishes it or closes, and reads its replies.
Finish(c) == inbox[c] = "part" /\ (Close(c) \/ \E f \in Whole : SendRest(c, f))
ClientsFair == \A c \in Clients : WF_vars(Finish(c)) /\ WF_vars(Drain(c))

PromptSpec == Spec /\ ServerFair /\ ClientsFair

-----------------------------------------------------------------------------
TypeOK ==
    /\ stopping \in BOOLEAN
    /\ loop \in Loop
    /\ workers \in 0 .. MaxConnections
    /\ active \subseteq Clients
    /\ sock \in [Clients -> Sock]
    /\ inbox \in [Clients -> Inbox]

(***************************************************************************)
(* "Bookkeeping vectors are pre-sized to the connection bound so that no   *)
(* worker ever observes a reallocation of the tables that describe it":    *)
(* active_connections_ lists exactly the connections that a worker serves, *)
(* and neither it nor workers_ outgrows the room Start reserved.           *)
(***************************************************************************)
TablesFit ==
    /\ Cardinality(active) <= workers
    /\ workers <= MaxConnections
    /\ active = {c \in Clients : sock[c] \in Serving}

(***************************************************************************)
(* Run returns after every worker has ended, also one accepted after the   *)
(* flag was set, so the destructor frees nothing a worker still uses.      *)
(***************************************************************************)
ReturnsAlone == loop = "returned" => stopping /\ \A c \in Clients : sock[c] = "none"

(***************************************************************************)
(* Once the stop flag is set Run returns, provided that clients do not     *)
(* stall inside a frame or a reply.                                        *)
(***************************************************************************)
ShutdownCompletes == stopping ~> loop = "returned"
=============================================================================
