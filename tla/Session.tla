-------------------------------- MODULE Session --------------------------------
(***************************************************************************)
(* Calls of ServiceClient on the incarnations of oppd (src/service.cpp):   *)
(* Connect, Exchange and the destructor on the client's side, the accept   *)
(* loop, the workers and the end of the process on the other.              *)
(*                                                                         *)
(* A connection is two byte streams.  wire holds the requests the service  *)
(* has not read; back what the client has not read, in pieces of the size  *)
(* of a frame header: a reply is a header, or a header and one such piece  *)
(* when it is larger than the client's max_frame_bytes.  What a client     *)
(* learns of epochs, and the fence, are Incarnation's.                     *)
(***************************************************************************)
EXTENDS Incarnation

CONSTANTS
    Clients,    \* ServiceClient objects, one after the other in each slot
    MaxCalls    \* bound: calls of all clients together

VARIABLES
    conn,       \* conn[c]: the process and the state of the connection
    calling,    \* calling[c]: the call in progress and its kind
    wire,       \* wire[c]: requests on their way to the service
    back,       \* back[c]: pieces on their way to the client
    calls,      \* history: how every call returned
    executed    \* history: the calls a handler carried out, in order

session == <<conn, calling, wire, back, calls, executed>>
server == <<lock, record, readable, pc, previous, epoch, continuity, issued, run, known, answer, damage>>

Idle == [call |-> 0, kind |-> "none"]

\* The kinds of frames.  A pinned Hello is handled as any other pinned frame.
CallKinds(pin) == IF pin = 0 THEN {"Hello", "Other", "Shutdown"} ELSE {"Other", "Shutdown"}

\* torn: a part of some reply was left in the stream.
NoConn == [to |-> NoProc, state |-> "none", torn |-> FALSE]

SessionInit ==
    /\ Init
    /\ conn = [c \in Clients |-> NoConn]
    /\ calling = [c \in Clients |-> Idle]
    /\ wire = [c \in Clients |-> <<>>]
    /\ back = [c \in Clients |-> <<>>]
    /\ calls = <<>>
    /\ executed = <<>>

Becomes(c, state) == conn' = [conn EXCEPT ![c].state = state]

\* The frame that answers call i of some kind; 0: it answers no call in particular.
Header(i, kind, verdict, large) == [call |-> i, kind |-> kind, verdict |-> verdict, large |-> large]
Body == Header(0, "none", "body", FALSE)
Refusal == Header(0, "none", "Exhausted", FALSE)

-----------------------------------------------------------------------------
(* ServiceClient                                                           *)

Connect(c, p) ==
    /\ conn[c].state = "none"
    /\ pc[p] \in {"serving", "stopping"}
    /\ conn' = [conn EXCEPT ![c] = [to |-> p, state |-> "backlog", torn |-> FALSE]]
    /\ UNCHANGED <<server, calling, wire, back, calls, executed>>

\* Exchange sends a frame: pinned to the epoch of run r, or not (0).  On a
\* connection that the service closed, send fails, or succeeds to no avail.
Call(c, kind, r) ==
    /\ conn[c].state \notin {"none", "left"}
    /\ calling[c] = Idle
    /\ Len(calls) < MaxCalls
    /\ LET i == Len(calls) + 1
           new(outcome) == Append(calls, [outcome |-> outcome, by |-> 0, clean |-> TRUE])
       IN \/ /\ calls' = new("pending")
             /\ calling' = [calling EXCEPT ![c] = [call |-> i, kind |-> kind]]
             /\ wire' = IF conn[c].state = "closed" THEN wire
                        ELSE [wire EXCEPT ![c] = Append(@, [call |-> i, kind |-> kind, pin |-> r])]
          \/ /\ conn[c].state = "closed"
             /\ calls' = new("IoFailure")
             /\ UNCHANGED <<calling, wire>>
    /\ UNCHANGED <<server, conn, back, executed>>

Return(c, outcome, by) ==
    /\ calls' = [calls EXCEPT ![calling[c].call] = [outcome |-> outcome, by |-> by, clean |-> ~ conn[c].torn]]
    /\ calling' = [calling EXCEPT ![c] = Idle]

\* Exchange reads the reply, and the caller compares its kind; nobody compares
\* its sequence number.  A reply above the limit is left in the stream.
ReadReply(c) ==
    /\ calling[c] # Idle
    /\ back[c] # <<>>
    /\ back' = [back EXCEPT ![c] = Tail(@)]
    /\ LET h == Head(back[c])
           unexpected == h.verdict = "Ok" /\ h.kind # calling[c].kind
       IN \/ h = Body /\ Return(c, "MalformedInput", 0) /\ UNCHANGED conn
          \/ h.large /\ Return(c, "LimitExceeded", h.call) /\ conn' = [conn EXCEPT ![c].torn = TRUE]
          \/ /\ h # Body /\ ~ h.large
             /\ Return(c, IF unexpected THEN "Internal" ELSE h.verdict, h.call)
             /\ UNCHANGED conn
    /\ UNCHANGED <<server, wire, executed>>

\* The stream has ended.
ReadEnd(c) ==
    /\ calling[c] # Idle
    /\ back[c] = <<>>
    /\ conn[c].state = "closed"
    /\ Return(c, "IoFailure", 0)
    /\ UNCHANGED <<server, conn, wire, back, executed>>

\* ~ServiceClient: a worker may still read what was sent.
Disconnect(c) ==
    /\ conn[c].state \notin {"none", "left"}
    /\ calling[c] = Idle
    /\ conn' = [conn EXCEPT ![c] = IF @.state = "open" THEN [@ EXCEPT !.state = "left"] ELSE NoConn]
    /\ wire' = IF conn[c].state = "open" THEN wire ELSE [wire EXCEPT ![c] = <<>>]
    /\ back' = [back EXCEPT ![c] = <<>>]
    /\ UNCHANGED <<server, calling, calls, executed>>

-----------------------------------------------------------------------------
(* The service                                                             *)

\* What the client can still read of a stream whose other end closed: with
\* unread requests the connection is reset, which may discard everything.
Remains(c) == IF wire[c] = <<>> THEN {back[c]} ELSE {back[c], <<>>}

Accept(c) ==
    /\ conn[c].state = "backlog"
    /\ pc[conn[c].to] = "serving"
    /\ Becomes(c, "open")
    /\ UNCHANGED <<server, calling, wire, back, calls, executed>>

\* Mutant of Refuse: the connection is answered, and then served.
RefuseAndServe(c) ==
    /\ conn[c].state = "backlog"
    /\ pc[conn[c].to] = "serving"
    /\ back' = [back EXCEPT ![c] = <<Refusal>>]
    /\ Becomes(c, "open")
    /\ UNCHANGED <<server, calling, wire, calls, executed>>

\* Mutant of Refuse: the connection is answered, and not closed.
RefuseUnclosed(c) ==
    /\ conn[c].state = "backlog"
    /\ pc[conn[c].to] = "serving"
    /\ back' = [back EXCEPT ![c] = <<Refusal>>]
    /\ Becomes(c, "unattended")
    /\ UNCHANGED <<server, calling, wire, calls, executed>>

\* The connection bound is used up, by clients not modelled here.
Refuse(c) ==
    /\ conn[c].state = "backlog"
    /\ pc[conn[c].to] = "serving"
    /\ \/ back' = [back EXCEPT ![c] = <<Refusal>>]
       \/ wire[c] # <<>> /\ UNCHANGED back
    /\ wire' = [wire EXCEPT ![c] = <<>>]
    /\ Becomes(c, "closed")
    /\ UNCHANGED <<server, calling, calls, executed>>

\* HandleFrameFor, and before it the answer to Shutdown: the step of Incarnation
\* that the request is.
Handles(p, request) ==
    \/ request.kind = "Shutdown" /\ request.pin # 0 /\ PinnedShutdown(p, request.pin)
    \/ request.kind = "Shutdown" /\ request.pin = 0 /\ pc[p] = "serving" /\ Shutdown(p)
    \/ request.kind = "Shutdown" /\ request.pin = 0 /\ pc[p] = "stopping" /\ UNCHANGED server
    \/ request.kind # "Shutdown" /\ request.pin # 0 /\ PinnedFrame(p, request.pin)
    \/ request.kind = "Hello" /\ request.pin = 0 /\ Hello(p)
    \/ request.kind = "Other" /\ request.pin = 0 /\ UNCHANGED server

\* The call is turned away at the fence.  Otherwise it is answered Ok, which stands
\* for whatever the handler says (ServiceRequests).
TurnedAway(p, request) == request.kind # "Shutdown" /\ request.pin # 0 /\ Fenced(p, request.pin)

Replies(c, pieces) == IF conn[c].state = "open" THEN [back EXCEPT ![c] = @ \o pieces] ELSE back

\* The worker closes the socket.
Closes(c) == conn' = [conn EXCEPT ![c] = IF @.state = "left" THEN NoConn ELSE [@ EXCEPT !.state = "closed"]]

\* Mutant of Serve: a frame is fenced and carried out all the same.
ServeFenced(c) ==
    /\ conn[c].state \in {"open", "left"}
    /\ pc[conn[c].to] \in {"serving", "stopping"}
    /\ wire[c] # <<>>
    /\ LET request == Head(wire[c])
           p == conn[c].to
           last == request.kind = "Shutdown"
           verdict == IF TurnedAway(p, request) THEN "Fenced" ELSE "Ok"
       IN /\ Handles(p, request)
          /\ \/ back' = Replies(c, <<Header(request.call, request.kind, verdict, FALSE)>>)
             \/ /\ request.kind = "Other" /\ verdict = "Ok"
                /\ back' = Replies(c, <<Header(request.call, "Other", verdict, TRUE), Body>>)
             \/ last /\ Tail(wire[c]) # <<>> /\ back' = [back EXCEPT ![c] = <<>>]
          /\ executed' = Append(executed, request.call)
          /\ wire' = [wire EXCEPT ![c] = IF last THEN <<>> ELSE Tail(@)]
          /\ IF last THEN Closes(c) ELSE UNCHANGED conn
    /\ UNCHANGED <<calling, calls>>

\* A worker reads a frame, handles it and answers; after Shutdown it leaves.
Serve(c) ==
    /\ conn[c].state \in {"open", "left"}
    /\ pc[conn[c].to] \in {"serving", "stopping"}
    /\ wire[c] # <<>>
    /\ LET request == Head(wire[c])
           p == conn[c].to
           last == request.kind = "Shutdown"
           verdict == IF TurnedAway(p, request) THEN "Fenced" ELSE "Ok"
       IN /\ Handles(p, request)
          /\ \/ back' = Replies(c, <<Header(request.call, request.kind, verdict, FALSE)>>)
             \/ /\ request.kind = "Other" /\ verdict = "Ok"
                /\ back' = Replies(c, <<Header(request.call, "Other", verdict, TRUE), Body>>)
             \/ last /\ Tail(wire[c]) # <<>> /\ back' = [back EXCEPT ![c] = <<>>]
          /\ executed' = IF verdict = "Ok" THEN Append(executed, request.call) ELSE executed
          /\ wire' = [wire EXCEPT ![c] = IF last THEN <<>> ELSE Tail(@)]
          /\ IF last THEN Closes(c) ELSE UNCHANGED conn
    /\ UNCHANGED <<calling, calls>>

\* A worker sees the flag, or that the client has gone, and closes.
Leave(c) ==
    /\ conn[c].state \in {"open", "left"}
    /\ pc[conn[c].to] = "stopping" \/ conn[c].state = "left"
    /\ wire' = [wire EXCEPT ![c] = <<>>]
    /\ \E rest \in Remains(c) : back' = [back EXCEPT ![c] = rest]
    /\ Closes(c)
    /\ UNCHANGED <<server, calling, calls, executed>>

\* The connections of a process that ended.  lost: a reply may be cut short.
Cut(p, lost) ==
    /\ conn' = [c \in Clients |->
                  IF conn[c].to # p \/ conn[c].state = "none" THEN conn[c]
                  ELSE IF conn[c].state = "left" THEN NoConn ELSE [conn[c] EXCEPT !.state = "closed"]]
    /\ wire' = [c \in Clients |-> IF conn[c].to = p THEN <<>> ELSE wire[c]]
    /\ back' \in [Clients -> UNION {{SubSeq(back[c], 1, k) : k \in 0 .. Len(back[c])} : c \in Clients}]
    /\ \A c \in Clients :
         IF conn[c].to = p /\ conn[c].state \in {"backlog", "open"} /\ lost
         THEN \E k \in 0 .. Len(back[c]) : back'[c] = SubSeq(back[c], 1, k)
         ELSE back'[c] = back[c]
    /\ UNCHANGED <<calling, calls, executed>>

\* Run has joined its workers.
Ended(p) ==
    /\ \A c \in Clients : conn[c].to = p => conn[c].state \notin {"open", "left"}
    /\ Exit(p)
    /\ Cut(p, FALSE)

Killed(p) == Kill(p) /\ Cut(p, TRUE)

ClientStep(c) ==
    \/ \E p \in Procs : Connect(c, p)
    \/ \E r \in {0} \cup known : \E kind \in CallKinds(r) : Call(c, kind, r)
    \/ ReadReply(c) \/ ReadEnd(c) \/ Disconnect(c)

WorkerStep(c) == Serve(c) \/ Leave(c)
AcceptStep(c) == Accept(c) \/ Refuse(c)

\* A start, a signal, or damage to the record.
Otherwise ==
    /\ DamageRecord \/ \E p \in Procs : StartStep(p) \/ Shutdown(p)
    /\ UNCHANGED session

SessionNext ==
    \/ \E c \in Clients : ClientStep(c) \/ WorkerStep(c) \/ AcceptStep(c)
    \/ \E p \in Procs : Ended(p) \/ Killed(p)
    \/ Otherwise

sessionVars == <<server, session>>

\* The threads of a service are scheduled, and so is the client that waits.
SessionFair ==
    /\ \A c \in Clients : /\ WF_sessionVars(WorkerStep(c)) /\ WF_sessionVars(AcceptStep(c))
                          /\ WF_sessionVars(ReadReply(c) \/ ReadEnd(c))
    /\ \A p \in Procs : WF_sessionVars(Ended(p))

SessionSpec == SessionInit /\ [][SessionNext]_sessionVars /\ SessionFair

-----------------------------------------------------------------------------
Returned == {i \in 1 .. Len(calls) : calls[i].outcome # "pending"}

(***************************************************************************)
(* What Exchange takes for the answer to a call is the answer to that call *)
(* or the refusal of the connection, and of the expected kind, although    *)
(* sequence numbers are not compared - as long as no reply was too large   *)
(* for the client, which leaves the rest of it in the stream.              *)
(***************************************************************************)
OwnAnswer ==
    \A i \in Returned : calls[i].clean => calls[i].by \in {0, i} /\ calls[i].outcome # "Internal"

(***************************************************************************)
(* How a call returned tells what became of the request, whatever is       *)
(* killed, stopped or restarted meanwhile.  No request is carried out      *)
(* twice; one that returned its own answer Ok was carried out; one that    *)
(* was fenced, or refused with its connection, was not and never will be.  *)
(* Only a broken connection or a reply too large leave it open.            *)
(***************************************************************************)
ExecutedOnce ==
    \A i \in 1 .. Len(calls) :
        LET times == {k \in 1 .. Len(executed) : executed[k] = i}
        IN /\ \A k, l \in times : k = l
           /\ calls[i].outcome = "Ok" /\ calls[i].by = i => times # {}
           /\ calls[i].outcome = "Fenced" /\ calls[i].by = i => times = {}
           /\ calls[i].outcome = "Exhausted" => times = {}

(***************************************************************************)
(* Every call returns: with an answer, or because the connection ended.    *)
(***************************************************************************)
CallsComeBack == \A c \in Clients : calling[c] # Idle ~> calling[c] = Idle
=============================================================================
