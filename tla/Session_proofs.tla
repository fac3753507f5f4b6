---------------------------- MODULE Session_proofs ----------------------------
(***************************************************************************)
(* Theorems about Session, for any number of clients, processes, calls and *)
(* restarts: a session is a behaviour of Incarnation, and what a call      *)
(* returns tells what became of the request.                               *)
(***************************************************************************)
EXTENDS Session, Incarnation_proofs

States == {"none", "backlog", "open", "left", "closed"}
Kinded == {"Hello", "Other", "Shutdown"}
Connections == [to : Procs \cup {NoProc}, state : States, torn : BOOLEAN]
Requests == [call : Nat, kind : Kinded, pin : Nat]
Pieces == [call : Nat, kind : Kinded \cup {"none"}, verdict : {"Ok", "Fenced", "Exhausted", "body"},
           large : BOOLEAN]
Outcomes == [outcome : {"pending", "Ok", "Fenced", "Exhausted", "body", "IoFailure", "LimitExceeded",
                        "MalformedInput", "Internal"},
             by : Nat, clean : BOOLEAN]

SessionType ==
    /\ conn \in [Clients -> Connections]
    /\ calling \in [Clients -> [call : Nat, kind : Kinded \cup {"none"}]]
    /\ wire \in [Clients -> Seq(Requests)]
    /\ back \in [Clients -> Seq(Pieces)]
    /\ calls \in Seq(Outcomes)
    /\ executed \in Seq(Nat)

\* The calls whose request waits on c's stream, or on some stream; the calls
\* carried out; the pieces c has not read.
Sent(c) == {wire[c][k].call : k \in 1 .. Len(wire[c])}
Flying == UNION {Sent(c) : c \in Clients}
Done == {executed[k] : k \in 1 .. Len(executed)}
Unread(c) == {back[c][k] : k \in 1 .. Len(back[c])}

\* What the state of a connection says of its streams.
Tidy(c) ==
    /\ conn[c].state # "none" => conn[c].to \in Procs
    /\ conn[c].state \in {"none", "left"} => calling[c] = Idle /\ back[c] = <<>>
    /\ conn[c].state \in {"none", "closed"} => wire[c] = <<>>
    /\ conn[c].state = "backlog" => back[c] = <<>>
    /\ \A h \in Unread(c) : h.verdict = "Exhausted" => conn[c].state = "closed"

\* Before the first reply too large, the streams hold at most the request of the
\* call in progress, or its answer, or the refusal of the connection.
InStep(c) ==
    /\ calling[c] = Idle => wire[c] = <<>>
    /\ Len(wire[c]) <= 1
    /\ wire[c] # <<>> => /\ back[c] = <<>>
                         /\ wire[c][1].call = calling[c].call
                         /\ wire[c][1].kind = calling[c].kind
    /\ Len(back[c]) <= 2
    /\ back[c] # <<>> => /\ back[c][1] = Refusal \/ back[c][1].call = calling[c].call
                         /\ back[c][1].verdict \in {"Ok", "Fenced", "Exhausted"}
                         /\ back[c][1].verdict = "Ok" => back[c][1].kind = calling[c].kind
                         /\ calling[c] = Idle => back[c][1] = Refusal
                         /\ Len(back[c]) = 2 => back[c][1].large

\* No request is on two streams, or twice on one.
OneCopy ==
    \A c, d \in Clients : \A k \in 1 .. Len(wire[c]), l \in 1 .. Len(wire[d]) :
        wire[c][k].call = wire[d][l].call => c = d /\ k = l

\* A request that has not been carried out and never will be.
Dropped == (1 .. Len(calls)) \ (Done \cup Flying)

\* What answers and outcomes say of the request.
Truthful ==
    /\ \A c \in Clients : \A h \in Unread(c) :
         (h.verdict = "Ok" => h.call \in Done) /\ (h.verdict = "Fenced" => h.call \in Dropped)
    /\ \A i \in 1 .. Len(calls) :
         /\ calls[i].outcome = "Ok" /\ calls[i].by = i => i \in Done
         /\ calls[i].outcome = "Fenced" /\ calls[i].by = i => i \in Dropped
         /\ calls[i].outcome = "Exhausted" => i \in Dropped

\* Every request is waiting, carried out or dropped, and carried out once.
Requested ==
    /\ Flying \subseteq 1 .. Len(calls)
    /\ Done \subseteq 1 .. Len(calls)
    /\ Flying \cap Done = {}
    /\ \A k, l \in 1 .. Len(executed) : executed[k] = executed[l] => k = l

\* The call in progress is on no other stream; while its connection is waiting,
\* or was refused, nothing has carried it out.
Waiting ==
    \A c \in Clients :
        /\ calling[c] # Idle => calling[c].call \in 1 .. Len(calls)
        /\ calling[c] = Idle => calling[c].call = 0
        /\ \A d \in Clients : d # c => calling[c].call \notin Sent(d)
        /\ (conn[c].state = "backlog" \/ \E h \in Unread(c) : h.verdict = "Exhausted")
              => calling[c].call \notin Done

\* The inductive invariant.
CallInv ==
    /\ SessionType /\ OneCopy /\ Requested /\ Truthful /\ Waiting /\ OwnAnswer
    /\ \A c \in Clients : Tidy(c) /\ (~ conn[c].torn => InStep(c))

-----------------------------------------------------------------------------
(* A session is a behaviour of Incarnation.                                *)

\* The step a request is, is one of Incarnation's.
LEMMA HandlesSteps ==
    ASSUME LifeInv, NEW p \in Procs, NEW request, Handles(p, request)
    PROVE  [Next]_vars
<1>1. ASSUME NEW r, PinnedFrame(p, r) \/ PinnedShutdown(p, r) PROVE Next
    <2>1. r \in 1 .. Len(issued)
        BY <1>1, Zenon DEF PinnedFrame, PinnedShutdown, LifeInv, TypeOK
    <2> QED BY <1>1, <2>1 DEF Next, FrameStep
<1>2. ASSUME Shutdown(p) \/ Hello(p) PROVE Next
    BY <1>2 DEF Next, FrameStep
<1>3. ASSUME UNCHANGED server PROVE UNCHANGED vars
    BY <1>3 DEF server, vars
<1> QED BY <1>1, <1>2, <1>3 DEF Handles

\* Every step of a session is a step of Incarnation, or leaves it alone.
LEMMA SessionSteps ==
    ASSUME LifeInv, \A c \in Clients : Tidy(c), [SessionNext]_sessionVars
    PROVE  [Next]_vars
<1>1. ASSUME UNCHANGED server PROVE UNCHANGED vars
    BY <1>1 DEF server, vars
<1>2. ASSUME NEW c \in Clients, ClientStep(c) PROVE UNCHANGED server
    BY <1>2, Zenon DEF ClientStep, Connect, Call, ReadReply, ReadEnd, Disconnect
<1>3. ASSUME NEW c \in Clients, Serve(c) PROVE [Next]_vars
    <2>1. conn[c].to \in Procs
        BY <1>3 DEF Serve, Tidy
    <2>2. Handles(conn[c].to, Head(wire[c]))
        BY <1>3 DEF Serve
    <2> QED BY <2>1, <2>2, HandlesSteps
<1>4. ASSUME NEW c \in Clients, Leave(c) \/ AcceptStep(c) PROVE UNCHANGED server
    BY <1>4 DEF Leave, AcceptStep, Accept, Refuse
<1>5. ASSUME NEW p \in Procs, Ended(p) \/ Killed(p) PROVE Next
    BY <1>5, Zenon DEF Ended, Killed, Next, FrameStep
<1>6. ASSUME Otherwise PROVE Next
    BY <1>6 DEF Otherwise, Next, FrameStep
<1>7. CASE UNCHANGED sessionVars
    BY <1>1, <1>7 DEF sessionVars
<1> QED BY <1>1, <1>2, <1>3, <1>4, <1>5, <1>6, <1>7 DEF SessionNext, WorkerStep

-----------------------------------------------------------------------------
(* Streams and calls.                                                      *)

\* Init establishes the inductive invariant.
LEMMA InitCallInv == SessionInit => CallInv
<1> SUFFICES ASSUME SessionInit PROVE CallInv
    OBVIOUS
<1>1. /\ \A c \in Clients : /\ conn[c] = NoConn /\ calling[c] = Idle
                            /\ wire[c] = <<>> /\ back[c] = <<>>
      /\ calls = <<>> /\ executed = <<>> /\ 1 .. Len(calls) = {} /\ 1 .. Len(executed) = {}
    BY DEF SessionInit
<1>2. \A c \in Clients : 1 .. Len(wire[c]) = {} /\ 1 .. Len(back[c]) = {}
    BY <1>1
<1>3. (\A c \in Clients : Sent(c) = {} /\ Unread(c) = {}) /\ Flying = {} /\ Done = {}
    BY <1>1, <1>2 DEF Sent, Unread, Flying, Done
<1>4. SessionType
    BY DEF SessionInit, SessionType, Connections, NoConn, Idle, States
<1>5. OneCopy /\ Requested /\ Truthful
    BY <1>1, <1>2, <1>3 DEF OneCopy, Requested, Truthful
<1>6. Waiting
    BY <1>1, <1>3 DEF Waiting, NoConn, Idle
<1>7. OwnAnswer
    BY <1>1 DEF OwnAnswer, Returned
<1>8. \A c \in Clients : Tidy(c) /\ InStep(c)
    BY <1>1, <1>3 DEF Tidy, InStep, NoConn
<1> QED BY <1>4, <1>5, <1>6, <1>7, <1>8 DEF CallInv

\* A step that sends nothing, drops what it likes, and answers only by refusing
\* a waiting connection, keeps what is said of requests.
LEMMA DropKeeps ==
    ASSUME CallInv, SessionType', UNCHANGED <<calling, calls, executed>>,
           \A c \in Clients : wire'[c] \in {wire[c], <<>>},
           \A c \in Clients : \A h \in Unread(c)' :
               h \in Unread(c) \/ (h = Refusal /\ conn[c].state = "backlog"),
           \A c \in Clients : conn'[c].state = "backlog" =>
               conn[c].state = "backlog" \/ calling[c] = Idle
    PROVE  OneCopy' /\ Requested' /\ Truthful' /\ Waiting' /\ OwnAnswer'
<1>1. \A c \in Clients : \A k \in 1 .. Len(wire'[c]) :
          k \in 1 .. Len(wire[c]) /\ wire'[c][k] = wire[c][k]
    BY DEF CallInv, SessionType
<1>2. OneCopy'
    BY <1>1 DEF OneCopy, CallInv
<1>3. \A c \in Clients : Sent(c)' \subseteq Sent(c)
    BY <1>1 DEF Sent
<1>4. Flying' \subseteq Flying /\ Done' = Done
    BY <1>3 DEF Flying, Done
<1>5. Requested'
    BY <1>4, Zenon DEF Requested, CallInv
<1>6. Dropped \subseteq Dropped'
    BY <1>4 DEF Dropped
<1>7. Truthful'
    BY <1>4, <1>6 DEF Truthful, CallInv, Refusal, Header
<1>8. Waiting'
    <2>1. \A c \in Clients : calling[c] = Idle => calling[c].call \notin Done
        BY DEF CallInv, Requested, Waiting
    <2> QED BY <1>3, <1>4, <2>1 DEF Waiting, CallInv
<1>9. OwnAnswer'
    BY DEF OwnAnswer, Returned, CallInv
<1> QED BY <1>2, <1>5, <1>7, <1>8, <1>9

\* A connection that a step does not touch stays as it is.
LEMMA Untouched ==
    ASSUME CallInv, NEW d \in Clients, conn'[d] = conn[d], calling'[d] = calling[d],
           wire'[d] = wire[d], back'[d] = back[d]
    PROVE  Tidy(d)' /\ (~ conn'[d].torn => InStep(d)')
<1>1. Unread(d)' = Unread(d)
    BY DEF Unread
<1> QED BY <1>1 DEF CallInv, Tidy, InStep

\* Connect keeps the invariant.
LEMMA ConnectKeeps ==
    ASSUME CallInv, NEW c \in Clients, NEW p \in Procs, Connect(c, p)
    PROVE  CallInv'
<1>1. /\ conn[c].state = "none" /\ conn' = [conn EXCEPT ![c] = [to |-> p, state |-> "backlog", torn |-> FALSE]]
      /\ UNCHANGED <<calling, wire, back, calls, executed>>
    BY DEF Connect
<1>2. SessionType'
    BY <1>1 DEF CallInv, SessionType, Connections, States
<1>3. \A d \in Clients : Unread(d)' = Unread(d)
    BY <1>1 DEF Unread
<1>4. calling[c] = Idle /\ wire[c] = <<>> /\ back[c] = <<>>
    BY <1>1 DEF CallInv, Tidy
<1>5. conn'[c] = [to |-> p, state |-> "backlog", torn |-> FALSE] /\ \A d \in Clients : d # c => conn'[d] = conn[d]
    BY <1>1 DEF CallInv, SessionType
<1>6. OneCopy' /\ Requested' /\ Truthful' /\ Waiting' /\ OwnAnswer'
    BY <1>1, <1>2, <1>3, <1>4, <1>5, DropKeeps
<1>7. Unread(c) = {}
    BY <1>4 DEF Unread
<1>8. Tidy(c)' /\ InStep(c)'
    BY <1>1, <1>3, <1>4, <1>5, <1>7 DEF Tidy, InStep
<1>9. \A d \in Clients : Tidy(d)' /\ (~ conn'[d].torn => InStep(d)')
    BY <1>1, <1>5, <1>8, Untouched
<1> QED BY <1>2, <1>6, <1>9 DEF CallInv

\* The steps that change the state of one connection, drop what they like of
\* its streams, and answer only by refusing it.
LEMMA CloseKeeps ==
    ASSUME CallInv, NEW c \in Clients, NEW s \in {"none", "open", "left", "closed"}, NEW rest \in Seq(Pieces),
           conn[c].state # "none",
           conn' = [conn EXCEPT ![c] = IF s = "none" THEN NoConn ELSE [@ EXCEPT !.state = s]],
           wire' = [wire EXCEPT ![c] = IF s \in {"none", "closed"} THEN <<>> ELSE @],
           back' = [back EXCEPT ![c] = rest],
           \/ rest = back[c] \/ rest = <<>> \/ (rest = <<Refusal>> /\ conn[c].state = "backlog" /\ s = "closed"),
           s \in {"none", "left"} => calling[c] = Idle /\ rest = <<>>,
           s = "open" => conn[c].state = "backlog",
           UNCHANGED <<calling, calls, executed>>
    PROVE  CallInv'
<1>1. /\ conn \in [Clients -> Connections] /\ wire \in [Clients -> Seq(Requests)]
      /\ back \in [Clients -> Seq(Pieces)]
    BY DEF CallInv, SessionType
<1>2. /\ conn[c] \in Connections /\ conn'[c] \in Connections
      /\ conn'[c].state = s /\ (s # "none" => conn'[c].to = conn[c].to /\ conn'[c].torn = conn[c].torn)
      /\ \A d \in Clients : d # c => conn'[d] = conn[d]
      /\ conn' \in [Clients -> Connections]
    BY <1>1, Zenon DEF Connections, States, NoConn
<1>3. /\ wire'[c] = IF s \in {"none", "closed"} THEN <<>> ELSE wire[c]
      /\ back'[c] = rest
      /\ \A d \in Clients : d # c => wire'[d] = wire[d] /\ back'[d] = back[d]
      /\ wire' \in [Clients -> Seq(Requests)] /\ back' \in [Clients -> Seq(Pieces)]
    BY <1>1
<1>4. SessionType'
    BY <1>2, <1>3 DEF CallInv, SessionType
<1>5. \A d \in Clients : d # c => Unread(d)' = Unread(d)
    BY <1>3 DEF Unread
<1>6. \A h \in Unread(c)' : h \in Unread(c) \/ (h = Refusal /\ conn[c].state = "backlog" /\ s = "closed")
    BY <1>3 DEF Unread
<1>7. OneCopy' /\ Requested' /\ Truthful' /\ Waiting' /\ OwnAnswer'
    BY <1>2, <1>3, <1>4, <1>5, <1>6, DropKeeps
<1>8. conn[c].to \in Procs /\ Tidy(c) /\ (~ conn[c].torn => InStep(c))
    BY DEF CallInv, Tidy
<1>9. Tidy(c)'
    <2>1. s # "none" => conn'[c].to \in Procs
        BY <1>2, <1>8
    <2>2. s = "open" => back[c] = <<>> /\ Unread(c) = {} /\ Unread(c)' = {}
        BY <1>3, <1>8 DEF Tidy, Unread
    <2>3. s \in {"none", "left"} => Unread(c)' = {}
        BY <1>3 DEF Unread
    <2> QED BY <1>2, <1>3, <2>1, <2>2, <2>3 DEF Tidy
<1>10. ASSUME ~ conn'[c].torn PROVE InStep(c)'
    <2>1. CASE s = "none"
        BY <1>2, <1>3, <2>1 DEF InStep
    <2>2. CASE s # "none"
        <3>1. InStep(c)
            BY <1>2, <1>8, <1>10, <2>2
        <3>2. CASE rest = back[c]
            BY <1>3, <3>1, <3>2 DEF InStep
        <3>3. CASE rest = <<>>
            BY <1>3, <3>1, <3>3 DEF InStep
        <3>4. CASE rest = <<Refusal>> /\ s = "closed"
            BY <1>3, <3>1, <3>4 DEF InStep, Refusal, Header
        <3> QED BY <3>2, <3>3, <3>4
    <2> QED BY <2>1, <2>2
<1>11. \A d \in Clients : Tidy(d)' /\ (~ conn'[d].torn => InStep(d)')
    BY <1>2, <1>3, <1>9, <1>10, Untouched
<1> QED BY <1>4, <1>7, <1>11 DEF CallInv

\* Accept, Refuse, Leave and Disconnect keep the invariant.
LEMMA StatesKeep ==
    ASSUME CallInv, NEW c \in Clients, Accept(c) \/ Refuse(c) \/ Leave(c) \/ Disconnect(c)
    PROVE  CallInv'
<1>1. /\ conn[c] \in Connections /\ wire[c] \in Seq(Requests) /\ back[c] \in Seq(Pieces)
      /\ wire = [wire EXCEPT ![c] = wire[c]] /\ back = [back EXCEPT ![c] = back[c]]
      /\ Tidy(c)
    BY DEF CallInv, SessionType
<1>2. <<Refusal>> \in Seq(Pieces) /\ <<>> \in Seq(Pieces)
    BY DEF Refusal, Header, Pieces
<1>3. CASE Accept(c)
    <2>1. /\ conn[c].state = "backlog" /\ conn' = [conn EXCEPT ![c] = [@ EXCEPT !.state = "open"]]
          /\ UNCHANGED <<wire, back, calling, calls, executed>>
        BY <1>3 DEF Accept, Becomes
    <2> QED BY <1>1, <2>1, CloseKeeps, Zenon
<1>4. CASE Refuse(c)
    <2>1. /\ conn[c].state = "backlog" /\ conn' = [conn EXCEPT ![c] = [@ EXCEPT !.state = "closed"]]
          /\ wire' = [wire EXCEPT ![c] = <<>>]
          /\ back' = [back EXCEPT ![c] = <<Refusal>>] \/ back' = back
          /\ UNCHANGED <<calling, calls, executed>>
        BY <1>4 DEF Refuse, Becomes
    <2>2. CASE back' = back
        BY <1>1, <2>1, <2>2, CloseKeeps, Zenon
    <2>3. CASE back' = [back EXCEPT ![c] = <<Refusal>>]
        BY <1>2, <2>1, <2>3, CloseKeeps, Zenon
    <2> QED BY <2>1, <2>2, <2>3
<1>5. CASE Leave(c)
    <2>1. PICK rest \in Remains(c) : back' = [back EXCEPT ![c] = rest]
        BY <1>5, Zenon DEF Leave
    <2>2. rest = back[c] \/ rest = <<>>
        BY <2>1 DEF Remains
    <2>3. /\ conn[c].state \in {"open", "left"}
          /\ wire' = [wire EXCEPT ![c] = <<>>] /\ UNCHANGED <<calling, calls, executed>>
          /\ conn' = [conn EXCEPT ![c] = IF conn[c].state = "left" THEN NoConn ELSE [@ EXCEPT !.state = "closed"]]
        BY <1>5 DEF Leave, Closes
    <2>4. CASE conn[c].state = "left"
        <3>1. calling[c] = Idle /\ rest = <<>>
            BY <1>1, <2>2, <2>4 DEF Tidy
        <3> QED BY <1>1, <1>2, <2>1, <2>3, <2>4, <3>1, CloseKeeps, Zenon
    <2>5. CASE conn[c].state # "left"
        BY <1>1, <1>2, <2>1, <2>2, <2>3, <2>5, CloseKeeps, Zenon
    <2> QED BY <2>4, <2>5
<1>6. CASE Disconnect(c)
    <2>1. /\ conn[c].state \notin {"none", "left"} /\ calling[c] = Idle
          /\ back' = [back EXCEPT ![c] = <<>>] /\ UNCHANGED <<calling, calls, executed>>
          /\ conn' = [conn EXCEPT ![c] = IF conn[c].state = "open" THEN [@ EXCEPT !.state = "left"] ELSE NoConn]
          /\ wire' = IF conn[c].state = "open" THEN wire ELSE [wire EXCEPT ![c] = <<>>]
        BY <1>6 DEF Disconnect
    <2>2. CASE conn[c].state = "open"
        BY <1>1, <1>2, <2>1, <2>2, CloseKeeps, Zenon
    <2>3. CASE conn[c].state # "open"
        BY <1>1, <1>2, <2>1, <2>3, CloseKeeps, Zenon
    <2> QED BY <2>2, <2>3
<1> QED BY <1>3, <1>4, <1>5, <1>6

\* The end of a process keeps the invariant.
LEMMA CutKeeps ==
    ASSUME CallInv, NEW p \in Procs, NEW lost \in BOOLEAN, Cut(p, lost)
    PROVE  CallInv'
<1>1. /\ conn \in [Clients -> Connections] /\ wire \in [Clients -> Seq(Requests)]
      /\ back \in [Clients -> Seq(Pieces)]
    BY DEF CallInv, SessionType
<1>2. UNCHANGED <<calling, calls, executed>>
    BY DEF Cut
<1>3. \A c \in Clients :
          /\ conn'[c] = IF conn[c].to # p \/ conn[c].state = "none" THEN conn[c]
                        ELSE IF conn[c].state = "left" THEN NoConn ELSE [conn[c] EXCEPT !.state = "closed"]
          /\ wire'[c] = IF conn[c].to = p THEN <<>> ELSE wire[c]
    BY DEF Cut
<1>4. ASSUME NEW c \in Clients
      PROVE  \/ back'[c] = back[c]
             \/ /\ conn[c].to = p /\ conn[c].state \in {"backlog", "open"}
                /\ \E k \in 0 .. Len(back[c]) : back'[c] = SubSeq(back[c], 1, k)
    BY DEF Cut
<1>5. ASSUME NEW c \in Clients, NEW k \in 0 .. Len(back[c])
      PROVE  /\ SubSeq(back[c], 1, k) \in Seq(Pieces) /\ Len(SubSeq(back[c], 1, k)) = k
             /\ \A j \in 1 .. k : SubSeq(back[c], 1, k)[j] = back[c][j]
    BY <1>1, <1>5
<1>6. ASSUME NEW c \in Clients
      PROVE  /\ back'[c] \in Seq(Pieces) /\ Len(back'[c]) <= Len(back[c])
             /\ \A j \in 1 .. Len(back'[c]) : back'[c][j] = back[c][j]
    <2>1. CASE back'[c] = back[c]
        BY <1>1, <2>1
    <2>2. CASE back'[c] # back[c]
        <3>1. PICK k \in 0 .. Len(back[c]) : back'[c] = SubSeq(back[c], 1, k)
            BY <1>4, <2>2
        <3>2. /\ SubSeq(back[c], 1, k) \in Seq(Pieces) /\ Len(SubSeq(back[c], 1, k)) = k
              /\ \A j \in 1 .. k : SubSeq(back[c], 1, k)[j] = back[c][j]
            BY <1>5
        <3>3. k <= Len(back[c])
            BY <1>1
        <3> QED BY <3>1, <3>2, <3>3
    <2> QED BY <2>1, <2>2
<1>7. SessionType'
    <2>1. \A c \in Clients : conn'[c] \in Connections /\ wire'[c] \in Seq(Requests)
        <3> SUFFICES ASSUME NEW c \in Clients PROVE conn'[c] \in Connections /\ wire'[c] \in Seq(Requests)
            OBVIOUS
        <3>1. conn[c] \in Connections /\ wire[c] \in Seq(Requests)
            BY <1>1
        <3>2. NoConn \in Connections /\ [conn[c] EXCEPT !.state = "closed"] \in Connections
            BY <3>1 DEF Connections, States, NoConn
        <3>3. <<>> \in Seq(Requests)
            OBVIOUS
        <3>4. wire'[c] \in Seq(Requests)
            BY <1>3, <3>1, <3>3, Zenon
        <3>5. conn'[c] \in {conn[c], NoConn, [conn[c] EXCEPT !.state = "closed"]}
            BY <1>3, Zenon
        <3> QED BY <3>1, <3>2, <3>4, <3>5, Zenon
    <2>2. conn' \in [Clients -> Connections]
        BY <2>1, Zenon DEF Cut
    <2>3. wire' \in [Clients -> Seq(Requests)]
        BY <2>1, Zenon DEF Cut
    <2>4. back' \in [Clients -> Seq(Pieces)]
        BY <1>6 DEF Cut
    <2> QED BY <1>2, <2>2, <2>3, <2>4 DEF SessionType, CallInv
<1>8. \A c \in Clients : Unread(c)' \subseteq Unread(c)
    <2> SUFFICES ASSUME NEW c \in Clients, NEW k \in 1 .. Len(back'[c]) PROVE back'[c][k] \in Unread(c)
        BY DEF Unread
    <2>1. back'[c][k] = back[c][k] /\ k \in 1 .. Len(back[c])
        BY <1>1, <1>6
    <2> QED BY <2>1 DEF Unread
<1>9. \A c \in Clients : conn'[c].state = "backlog" => conn[c].state = "backlog"
    <2> SUFFICES ASSUME NEW c \in Clients, conn[c].state # "backlog" PROVE conn'[c].state # "backlog"
        OBVIOUS
    <2>1. NoConn.state = "none" /\ [conn[c] EXCEPT !.state = "closed"].state = "closed"
        BY <1>1 DEF Connections, NoConn
    <2> QED BY <1>3, <2>1, Zenon
<1>10. OneCopy' /\ Requested' /\ Truthful' /\ Waiting' /\ OwnAnswer'
    BY <1>2, <1>3, <1>7, <1>8, <1>9, DropKeeps, Zenon
<1>11. ASSUME NEW c \in Clients PROVE Tidy(c)' /\ (~ conn'[c].torn => InStep(c)')
    <2>1. CASE conn[c].to # p \/ conn[c].state = "none"
        <3>1. conn'[c] = conn[c] /\ wire'[c] = wire[c]
            BY <1>3, <2>1, Zenon DEF CallInv, Tidy
        <3>2. back'[c] = back[c]
            BY <1>4, <2>1
        <3> QED BY <1>2, <3>1, <3>2, Untouched
    <2>2. CASE conn[c].to = p /\ conn[c].state = "left"
        <3>1. conn'[c] = NoConn /\ wire'[c] = <<>> /\ back'[c] = <<>> /\ calling'[c] = Idle
            BY <1>2, <1>3, <1>4, <2>2, Zenon DEF CallInv, Tidy
        <3>2. Unread(c)' = {}
            BY <3>1 DEF Unread
        <3> QED BY <3>1, <3>2 DEF Tidy, InStep, NoConn
    <2>3. CASE conn[c].to = p /\ conn[c].state \notin {"none", "left"}
        <3>1. /\ conn'[c].state = "closed" /\ conn'[c].to = p /\ conn'[c].torn = conn[c].torn
              /\ wire'[c] = <<>>
            <4>1. conn'[c] = [conn[c] EXCEPT !.state = "closed"] /\ wire'[c] = <<>> /\ conn[c] \in Connections
                BY <1>1, <1>3, <2>3
            <4> QED BY <2>3, <4>1 DEF Connections
        <3>2. Tidy(c)'
            BY <1>8, <3>1 DEF Tidy
        <3>3. ASSUME ~ conn[c].torn PROVE InStep(c)'
            <4>1. InStep(c)
                BY <3>3 DEF CallInv
            <4>2. /\ Len(back'[c]) \in Nat /\ Len(back[c]) \in Nat
                  /\ Len(back'[c]) <= Len(back[c])
                  /\ back'[c] # <<>> => back[c] # <<>> /\ back'[c][1] = back[c][1]
                BY <1>1, <1>6
            <4>3. CASE back'[c] = <<>>
                BY <1>2, <3>1, <4>1, <4>3 DEF InStep
            <4>4. CASE back'[c] # <<>>
                <5>1. Len(back[c]) = 2 => back[c][1].large
                    BY <4>1, <4>2, <4>4 DEF InStep
                <5>2. Len(back'[c]) <= 2 /\ (Len(back'[c]) = 2 => Len(back[c]) = 2)
                    <6>1. Len(back[c]) <= 2
                        BY <4>1, Zenon DEF InStep
                    <6>2. \A m, n \in Nat : m <= n /\ n <= 2 => m <= 2 /\ (m = 2 => n = 2)
                        OBVIOUS
                    <6> QED BY <4>2, <6>1, <6>2, Zenon
                <5>3. Len(back'[c]) = 2 => back'[c][1].large
                    BY <4>2, <4>4, <5>1, <5>2, Zenon
                <5>4. wire'[c] = <<>> /\ Len(wire'[c]) <= 1 /\ calling'[c] = calling[c]
                    BY <1>2, <3>1
                <5> QED BY <4>1, <4>2, <4>4, <5>2, <5>3, <5>4, Zenon DEF InStep
            <4> QED BY <4>3, <4>4
        <3> QED BY <3>1, <3>2, <3>3
    <2> QED BY <2>1, <2>2, <2>3
<1> QED BY <1>7, <1>10, <1>11 DEF CallInv

\* The first piece of a stream is one of those unread.
LEMMA FirstUnread ==
    ASSUME NEW c \in Clients, back[c] \in Seq(Pieces), back[c] # <<>>
    PROVE  back[c][1] \in Unread(c) /\ back[c][1] \in Pieces
<1>1. Len(back[c]) \in Nat /\ Len(back[c]) # 0
    OBVIOUS
<1>2. 1 \in 1 .. Len(back[c])
    BY <1>1
<1> QED BY <1>2 DEF Unread

\* A call that is sent keeps the invariant.
LEMMA SendKeeps ==
    ASSUME CallInv, NEW c \in Clients, NEW kind \in Kinded, NEW r \in Nat,
           conn[c].state \notin {"none", "left"}, calling[c] = Idle,
           calls' = Append(calls, [outcome |-> "pending", by |-> 0, clean |-> TRUE]),
           calling' = [calling EXCEPT ![c] = [call |-> Len(calls) + 1, kind |-> kind]],
           wire' = IF conn[c].state = "closed" THEN wire
                   ELSE [wire EXCEPT ![c] = Append(@, [call |-> Len(calls) + 1, kind |-> kind, pin |-> r])],
           UNCHANGED <<conn, back, executed>>
    PROVE  CallInv'
<1> DEFINE i == Len(calls) + 1
           request == [call |-> i, kind |-> kind, pin |-> r]
<1>1. /\ calling \in [Clients -> [call : Nat, kind : Kinded \cup {"none"}]]
      /\ wire \in [Clients -> Seq(Requests)] /\ back \in [Clients -> Seq(Pieces)] /\ calls \in Seq(Outcomes)
      /\ i \in Nat /\ i > 0 /\ Len(calls) \in Nat
    BY DEF CallInv, SessionType
<1>2. request \in Requests /\ [outcome |-> "pending", by |-> 0, clean |-> TRUE] \in Outcomes
    BY <1>1 DEF Requests, Outcomes
<1>3. /\ calls' \in Seq(Outcomes) /\ Len(calls') = i
      /\ calls'[i] = [outcome |-> "pending", by |-> 0, clean |-> TRUE]
      /\ \A k \in 1 .. Len(calls) : calls'[k] = calls[k]
    BY <1>1, <1>2
<1>4. /\ calling'[c] = [call |-> i, kind |-> kind]
      /\ \A d \in Clients : d # c => calling'[d] = calling[d] /\ wire'[d] = wire[d]
      /\ wire'[c] = IF conn[c].state = "closed" THEN wire[c] ELSE Append(wire[c], request)
    BY <1>1
<1>5. SessionType'
    <2>1. calling' \in [Clients -> [call : Nat, kind : Kinded \cup {"none"}]]
        BY <1>1
    <2>2. wire' \in [Clients -> Seq(Requests)]
        BY <1>1, <1>2
    <2> QED BY <1>3, <2>1, <2>2 DEF CallInv, SessionType
<1>6. ASSUME NEW d \in Clients, NEW k \in 1 .. Len(wire'[d])
      PROVE  \/ k \in 1 .. Len(wire[d]) /\ wire'[d][k] = wire[d][k]
             \/ d = c /\ k = Len(wire[c]) + 1 /\ wire'[d][k] = request /\ conn[c].state # "closed"
    <2>1. CASE wire'[d] = wire[d]
        BY <2>1
    <2>2. CASE wire'[d] # wire[d]
        <3>1. d = c /\ conn[c].state # "closed" /\ wire'[d] = Append(wire[c], request) /\ wire[c] \in Seq(Requests)
            BY <1>1, <1>4, <2>2
        <3> QED BY <1>2, <1>6, <3>1
    <2> QED BY <2>1, <2>2
<1>7. \A d \in Clients : \A k \in 1 .. Len(wire[d]) : wire[d][k].call \in 1 .. Len(calls)
    BY DEF CallInv, Requested, Flying, Sent
<1>8. i \notin 1 .. Len(calls)
    BY <1>1
<1>9. OneCopy'
    <2> SUFFICES ASSUME NEW d \in Clients, NEW e \in Clients, NEW k \in 1 .. Len(wire'[d]), NEW l \in 1 .. Len(wire'[e]),
                        wire'[d][k].call = wire'[e][l].call
                 PROVE  d = e /\ k = l
        BY Zenon DEF OneCopy
    <2>1. request.call = i
        OBVIOUS
    <2>2. CASE k \in 1 .. Len(wire[d]) /\ wire'[d][k] = wire[d][k] /\ l \in 1 .. Len(wire[e]) /\ wire'[e][l] = wire[e][l]
        BY <2>2 DEF CallInv, OneCopy
    <2> QED BY <1>6, <1>7, <1>8, <2>1, <2>2
<1>10. \A d \in Clients : Sent(d)' \subseteq Sent(d) \cup (IF d = c THEN {i} ELSE {})
    BY <1>6 DEF Sent
<1>11. Flying' \subseteq Flying \cup {i} /\ Done' = Done
    <2>1. Flying' \subseteq Flying \cup {i}
        BY <1>10, Zenon DEF Flying
    <2>2. Done' = Done
        BY DEF Done
    <2> QED BY <2>1, <2>2
<1>12. (Flying \subseteq 1 .. Len(calls)) /\ (Done \subseteq 1 .. Len(calls)) /\ (1 .. Len(calls') = (1 .. Len(calls)) \cup {i})
    BY <1>1, <1>3 DEF CallInv, Requested
<1>13. Requested'
    <2>1. Flying' \subseteq 1 .. Len(calls') /\ Done' \subseteq 1 .. Len(calls') /\ Flying' \cap Done' = {}
        BY <1>8, <1>11, <1>12 DEF CallInv, Requested
    <2> QED BY <2>1 DEF CallInv, Requested
<1>14. Dropped \subseteq Dropped'
    BY <1>8, <1>11, <1>12 DEF Dropped
<1>15. \A d \in Clients : Unread(d)' = Unread(d)
    BY DEF Unread
<1>16. Truthful'
    <2>1. \A d \in Clients : \A h \in Unread(d)' :
             (h.verdict = "Ok" => h.call \in Done') /\ (h.verdict = "Fenced" => h.call \in Dropped')
        BY <1>11, <1>14, <1>15 DEF CallInv, Truthful
    <2>2. ASSUME NEW k \in 1 .. Len(calls')
          PROVE  /\ calls'[k].outcome = "Ok" /\ calls'[k].by = k => k \in Done'
                 /\ calls'[k].outcome = "Fenced" /\ calls'[k].by = k => k \in Dropped'
                 /\ calls'[k].outcome = "Exhausted" => k \in Dropped'
        <3>1. CASE k = i
            BY <1>3, <3>1
        <3>2. CASE k \in 1 .. Len(calls)
            BY <1>3, <1>11, <1>14, <3>2 DEF CallInv, Truthful
        <3> QED BY <1>12, <3>1, <3>2
    <2> QED BY <2>1, <2>2 DEF Truthful
<1>17. calling'[c] # Idle /\ calling'[c].call = i /\ calling'[c].kind = kind
    BY <1>1, <1>4 DEF Idle
<1>18. Waiting'
    <2>1. \A d \in Clients : d # c => Sent(d)' \subseteq Sent(d) /\ i \notin Sent(d)'
        BY <1>8, <1>10, <1>12 DEF Flying
    <2>2. i \notin Done'
        BY <1>8, <1>11, <1>12
    <2>3. ASSUME NEW d \in Clients, d # c
          PROVE  /\ calling'[d] = calling[d] /\ calling[d].call # i /\ Sent(c)' \subseteq Sent(c) \cup {i}
                 /\ calling[d] # Idle => calling[d].call \in 1 .. Len(calls')
        <3>1. calling'[d] = calling[d] /\ Sent(c)' \subseteq Sent(c) \cup {i}
            BY <1>4, <1>10, <2>3
        <3>2. calling[d] # Idle => calling[d].call \in 1 .. Len(calls)
            BY DEF CallInv, Waiting
        <3>3. calling[d].call # i
            <4>1. calling[d] = Idle => calling[d].call = 0
                BY DEF CallInv, Waiting
            <4> QED BY <1>1, <1>8, <3>2, <4>1
        <3> QED BY <1>12, <3>1, <3>2, <3>3
    <2>4. ASSUME NEW d \in Clients, d # c, NEW e \in Clients, e # d PROVE calling'[d].call \notin Sent(e)'
        <3>1. calling[d].call \notin Sent(e)
            BY <2>4 DEF CallInv, Waiting
        <3>2. calling'[d] = calling[d] /\ calling[d].call # i /\ Sent(c)' \subseteq Sent(c) \cup {i}
            BY <2>3, <2>4
        <3>3. e # c => Sent(e)' \subseteq Sent(e)
            BY <2>1
        <3>4. calling[d].call \notin Sent(e)'
            BY <3>1, <3>2, <3>3, Zenon
        <3> QED BY <3>2, <3>4
    <2>5. ASSUME NEW d \in Clients, d # c, conn'[d].state = "backlog" \/ \E h \in Unread(d)' : h.verdict = "Exhausted"
          PROVE  calling'[d].call \notin Done'
        <3>1. calling[d].call \notin Done
            BY <1>15, <2>5 DEF CallInv, Waiting
        <3> QED BY <1>11, <2>3, <2>5, <3>1
    <2>6. ASSUME NEW d \in Clients, d # c, calling'[d] = Idle PROVE calling'[d].call = 0
        BY <2>3, <2>6 DEF CallInv, Waiting
    <2>7. i \in 1 .. Len(calls')
        BY <1>12
    <2> QED BY <1>17, <2>1, <2>2, <2>3, <2>4, <2>5, <2>6, <2>7 DEF Waiting
<1>19. OwnAnswer'
    BY <1>3, <1>12 DEF CallInv, OwnAnswer, Returned
<1>20. Tidy(c)'
    BY <1>4, <1>15 DEF CallInv, Tidy
<1>21. ASSUME ~ conn'[c].torn PROVE InStep(c)'
    <2>1. InStep(c) /\ Tidy(c) /\ wire[c] = <<>>
        BY <1>21 DEF CallInv, InStep
    <2>2. back[c] # <<>> => back[c][1] = Refusal
        BY <2>1 DEF InStep
    <2>3. back[c] # <<>> => conn[c].state = "closed"
        <3>1. back[c] # <<>> => back[c][1] \in Unread(c)
            BY <1>1, FirstUnread
        <3> QED BY <2>1, <2>2, <3>1 DEF Tidy, Refusal, Header
    <2>4. /\ Len(wire'[c]) <= 1
          /\ wire'[c] # <<>> => back[c] = <<>> /\ wire'[c][1] = request
        BY <1>2, <1>4, <2>1, <2>3
    <2>5. request.call = i /\ request.kind = kind
        OBVIOUS
    <2>6. Refusal.verdict = "Exhausted"
        BY DEF Refusal, Header
    <2>7. back'[c] = back[c] /\ Len(back[c]) <= 2 /\ (back[c] # <<>> => (Len(back[c]) = 2 => back[c][1].large))
        BY <2>1 DEF InStep
    <2>8. back[c] # <<>> => back[c][1].verdict \in {"Ok", "Fenced", "Exhausted"} /\ back[c][1].verdict # "Ok"
        BY <2>2, <2>6
    <2>9. wire'[c] # <<>> => wire'[c][1].call = calling'[c].call /\ wire'[c][1].kind = calling'[c].kind
        BY <1>17, <2>4, <2>5
    <2> QED BY <1>17, <2>2, <2>4, <2>7, <2>8, <2>9, Zenon DEF InStep
<1>22. \A d \in Clients : Tidy(d)' /\ (~ conn'[d].torn => InStep(d)')
    BY <1>4, <1>20, <1>21, Untouched
<1> QED BY <1>5, <1>9, <1>13, <1>16, <1>18, <1>19, <1>22 DEF CallInv

\* A call that cannot be sent keeps the invariant.
LEMMA UnsentKeeps ==
    ASSUME CallInv,
           calls' = Append(calls, [outcome |-> "IoFailure", by |-> 0, clean |-> TRUE]),
           UNCHANGED <<conn, calling, wire, back, executed>>
    PROVE  CallInv'
<1> DEFINE i == Len(calls) + 1
<1>1. calls \in Seq(Outcomes) /\ i \in Nat /\ i > 0 /\ Len(calls) \in Nat
    BY DEF CallInv, SessionType
<1>2. [outcome |-> "IoFailure", by |-> 0, clean |-> TRUE] \in Outcomes
    BY DEF Outcomes
<1>3. /\ calls' \in Seq(Outcomes) /\ Len(calls') = i /\ 1 .. Len(calls') = (1 .. Len(calls)) \cup {i}
      /\ calls'[i] = [outcome |-> "IoFailure", by |-> 0, clean |-> TRUE]
      /\ \A k \in 1 .. Len(calls) : calls'[k] = calls[k]
    <2>1. /\ calls' \in Seq(Outcomes) /\ Len(calls') = i
          /\ calls'[i] = [outcome |-> "IoFailure", by |-> 0, clean |-> TRUE]
        BY <1>1, <1>2
    <2>2. \A k \in 1 .. Len(calls) : calls'[k] = calls[k]
        BY <1>1, <1>2
    <2>3. 1 .. Len(calls') = (1 .. Len(calls)) \cup {i}
        BY <1>1, <2>1
    <2> QED BY <2>1, <2>2, <2>3
<1>4. SessionType' /\ OneCopy'
    <2>1. SessionType'
        BY <1>3 DEF CallInv, SessionType
    <2>2. OneCopy'
        BY DEF CallInv, OneCopy
    <2> QED BY <2>1, <2>2, Zenon
<1>5. /\ \A d \in Clients : Sent(d)' = Sent(d) /\ Unread(d)' = Unread(d)
      /\ Flying' = Flying /\ Done' = Done /\ Dropped \subseteq Dropped'
    BY <1>3 DEF Sent, Unread, Flying, Done, Dropped
<1>6. Requested' /\ Waiting'
    BY <1>3, <1>5 DEF CallInv, Requested, Waiting
<1>7. Truthful'
    <2>1. \A d \in Clients : \A h \in Unread(d)' :
             (h.verdict = "Ok" => h.call \in Done') /\ (h.verdict = "Fenced" => h.call \in Dropped')
        BY <1>5 DEF CallInv, Truthful
    <2>2. ASSUME NEW k \in 1 .. Len(calls')
          PROVE  /\ calls'[k].outcome = "Ok" /\ calls'[k].by = k => k \in Done'
                 /\ calls'[k].outcome = "Fenced" /\ calls'[k].by = k => k \in Dropped'
                 /\ calls'[k].outcome = "Exhausted" => k \in Dropped'
        <3>1. CASE k = i
            BY <1>3, <3>1
        <3>2. CASE k \in 1 .. Len(calls)
            BY <1>3, <1>5, <3>2 DEF CallInv, Truthful
        <3> QED BY <1>3, <3>1, <3>2
    <2> QED BY <2>1, <2>2 DEF Truthful
<1>8. OwnAnswer'
    BY <1>3 DEF CallInv, OwnAnswer, Returned
<1>9. \A d \in Clients : Tidy(d)' /\ (~ conn'[d].torn => InStep(d)')
    BY Untouched
<1> QED BY <1>4, <1>6, <1>7, <1>8, <1>9 DEF CallInv

\* A call that returns keeps the invariant, when what it returns is true.
LEMMA ReturnKeeps ==
    ASSUME CallInv, NEW c \in Clients, NEW outcome, NEW by \in Nat, NEW torn \in BOOLEAN, NEW rest \in Seq(Pieces),
           [outcome |-> outcome, by |-> by, clean |-> ~ conn[c].torn] \in Outcomes,
           calling[c] # Idle, conn[c].state \in {"open", "closed"},
           Return(c, outcome, by),
           conn' = [conn EXCEPT ![c].torn = torn], back' = [back EXCEPT ![c] = rest],
           \A k \in 1 .. Len(rest) : rest[k] \in Unread(c),
           outcome = "Ok" /\ by = calling[c].call => by \in Done,
           outcome = "Fenced" /\ by = calling[c].call => by \in Dropped,
           outcome = "Exhausted" => calling[c].call \in Dropped,
           ~ conn[c].torn => by \in {0, calling[c].call} /\ outcome # "Internal",
           ~ torn => rest = <<>> /\ wire[c] = <<>>,
           UNCHANGED <<wire, executed>>
    PROVE  CallInv'
<1> DEFINE i == calling[c].call
           new == [outcome |-> outcome, by |-> by, clean |-> ~ conn[c].torn]
<1>1. /\ conn \in [Clients -> Connections] /\ back \in [Clients -> Seq(Pieces)] /\ calls \in Seq(Outcomes)
      /\ calling \in [Clients -> [call : Nat, kind : Kinded \cup {"none"}]]
      /\ i \in 1 .. Len(calls)
    BY DEF CallInv, SessionType, Waiting
<1>2. calls' = [calls EXCEPT ![i] = new] /\ calling' = [calling EXCEPT ![c] = Idle]
    BY DEF Return
<1>3. /\ calls' \in Seq(Outcomes) /\ Len(calls') = Len(calls) /\ calls'[i] = new
      /\ \A k \in 1 .. Len(calls) : k # i => calls'[k] = calls[k]
    BY <1>1, <1>2
<1>4. /\ calling'[c] = Idle /\ Idle.call = 0
      /\ \A d \in Clients : d # c => calling'[d] = calling[d]
      /\ calling' \in [Clients -> [call : Nat, kind : Kinded \cup {"none"}]]
    BY <1>1, <1>2 DEF Idle
<1>5. /\ conn'[c].torn = torn /\ conn'[c].state = conn[c].state /\ conn'[c].to = conn[c].to
      /\ \A d \in Clients : d # c => conn'[d] = conn[d]
      /\ conn' \in [Clients -> Connections]
    BY <1>1, Zenon DEF Connections
<1>6. /\ back'[c] = rest /\ back' \in [Clients -> Seq(Pieces)]
      /\ \A d \in Clients : d # c => back'[d] = back[d]
    BY <1>1
<1>7. SessionType'
    BY <1>3, <1>4, <1>5, <1>6 DEF CallInv, SessionType
<1>8. \A d \in Clients : Sent(d)' = Sent(d) /\ Unread(d)' \subseteq Unread(d)
    BY <1>6 DEF Sent, Unread
<1>9. Flying' = Flying /\ Done' = Done /\ Dropped' = Dropped
    BY <1>3, <1>8 DEF Flying, Done, Dropped
<1>10. OneCopy' /\ Requested'
    BY <1>3, <1>9 DEF CallInv, OneCopy, Requested
<1>11. Truthful'
    <2>1. \A d \in Clients : \A h \in Unread(d)' :
             (h.verdict = "Ok" => h.call \in Done') /\ (h.verdict = "Fenced" => h.call \in Dropped')
        BY <1>8, <1>9 DEF CallInv, Truthful
    <2>2. ASSUME NEW k \in 1 .. Len(calls')
          PROVE  /\ calls'[k].outcome = "Ok" /\ calls'[k].by = k => k \in Done'
                 /\ calls'[k].outcome = "Fenced" /\ calls'[k].by = k => k \in Dropped'
                 /\ calls'[k].outcome = "Exhausted" => k \in Dropped'
        <3>1. CASE k = i
            BY <1>3, <1>9, <3>1
        <3>2. CASE k # i
            BY <1>3, <1>9, <3>2 DEF CallInv, Truthful
        <3> QED BY <3>1, <3>2
    <2> QED BY <2>1, <2>2 DEF Truthful
<1>12. Waiting'
    <2>1. 0 \notin Flying /\ 0 \notin Done
        BY DEF CallInv, Requested
    <2>2. \A d \in Clients : 0 \notin Sent(d)
        BY <2>1 DEF Flying
    <2>3. ASSUME NEW d \in Clients
          PROVE  /\ calling'[d] # Idle => calling'[d].call \in 1 .. Len(calls')
                 /\ calling'[d] = Idle => calling'[d].call = 0
                 /\ \A e \in Clients : e # d => calling'[d].call \notin Sent(e)'
                 /\ (conn'[d].state = "backlog" \/ \E h \in Unread(d)' : h.verdict = "Exhausted")
                       => calling'[d].call \notin Done'
        <3>1. CASE d = c
            BY <1>4, <1>8, <1>9, <2>1, <2>2, <3>1
        <3>2. CASE d # c
            <4>1. calling'[d] = calling[d] /\ conn'[d] = conn[d] /\ Len(calls') = Len(calls)
                BY <1>3, <1>4, <1>5, <3>2
            <4>2. \A h \in Unread(d)' : h \in Unread(d)
                BY <1>8
            <4> QED BY <1>8, <1>9, <4>1, <4>2, Zenon DEF CallInv, Waiting
        <3> QED BY <3>1, <3>2
    <2> QED BY <2>3 DEF Waiting
<1>13. OwnAnswer'
    <2> SUFFICES ASSUME NEW k \in 1 .. Len(calls), calls'[k].outcome # "pending", calls'[k].clean
                 PROVE  calls'[k].by \in {0, k} /\ calls'[k].outcome # "Internal"
        BY <1>3 DEF OwnAnswer, Returned
    <2>1. CASE k = i
        <3>1. new.by = by /\ new.outcome = outcome /\ new.clean = ~ conn[c].torn
            OBVIOUS
        <3>2. ~ conn[c].torn
            BY <1>3, <2>1, <3>1, Zenon
        <3> QED BY <1>3, <2>1, <3>1, <3>2
    <2>2. CASE k # i
        BY <1>3, <2>2 DEF CallInv, OwnAnswer, Returned
    <2> QED BY <2>1, <2>2
<1>14. Tidy(c)'
    BY <1>4, <1>5, <1>6, <1>8 DEF CallInv, Tidy
<1>15. ~ conn'[c].torn => InStep(c)'
    BY <1>4, <1>5, <1>6 DEF InStep
<1>16. \A d \in Clients : Tidy(d)' /\ (~ conn'[d].torn => InStep(d)')
    BY <1>4, <1>5, <1>6, <1>14, <1>15, Untouched
<1> QED BY <1>7, <1>10, <1>11, <1>12, <1>13, <1>16 DEF CallInv

\* ReadReply and ReadEnd keep the invariant.
LEMMA ReadKeeps ==
    ASSUME CallInv, NEW c \in Clients, ReadReply(c) \/ ReadEnd(c)
    PROVE  CallInv'
<1> DEFINE i == calling[c].call
<1>1. /\ conn \in [Clients -> Connections] /\ conn[c] \in Connections /\ back \in [Clients -> Seq(Pieces)]
      /\ back[c] \in Seq(Pieces) /\ Tidy(c) /\ (~ conn[c].torn => InStep(c))
    BY DEF CallInv, SessionType
<1>2. /\ conn[c].torn \in BOOLEAN /\ conn[c].state \in States
      /\ conn = [conn EXCEPT ![c].torn = conn[c].torn]
    BY <1>1 DEF Connections
<1>3. CASE ReadEnd(c)
    <2>1. /\ calling[c] # Idle /\ conn[c].state = "closed" /\ Return(c, "IoFailure", 0)
          /\ back[c] = <<>> /\ UNCHANGED <<conn, wire, back, executed>>
        BY <1>3 DEF ReadEnd
    <2>2. [outcome |-> "IoFailure", by |-> 0, clean |-> ~ conn[c].torn] \in Outcomes
        BY DEF Outcomes
    <2>3. wire[c] = <<>> /\ back = [back EXCEPT ![c] = <<>>] /\ <<>> \in Seq(Pieces)
        BY <1>1, <2>1 DEF Tidy
    <2>4. \A k \in 1 .. Len(<<>>) : <<>>[k] \in Unread(c)
        OBVIOUS
    <2> QED BY <1>2, <2>1, <2>2, <2>3, <2>4, ReturnKeeps, Zenon
<1>4. CASE ReadReply(c)
    <2> DEFINE h == back[c][1]
               rest == Tail(back[c])
    <2>1. /\ calling[c] # Idle /\ back[c] # <<>> /\ UNCHANGED <<wire, executed>>
          /\ back' = [back EXCEPT ![c] = rest]
        BY <1>4 DEF ReadReply
    <2>2. /\ Head(back[c]) = h /\ rest \in Seq(Pieces) /\ Len(rest) = Len(back[c]) - 1
          /\ \A k \in 1 .. Len(rest) : rest[k] = back[c][k + 1] /\ k + 1 \in 1 .. Len(back[c])
        BY <1>1, <2>1
    <2>3. h \in Unread(c) /\ h \in Pieces
        BY <1>1, <2>1, FirstUnread
    <2>4. \A k \in 1 .. Len(rest) : rest[k] \in Unread(c)
        BY <2>2 DEF Unread
    <2>5. conn[c].state \in {"open", "closed"}
        BY <1>1, <1>2, <2>1 DEF Tidy, States
    <2>6. /\ h.verdict = "Ok" => h.call \in Done
          /\ h.verdict = "Fenced" => h.call \in Dropped
          /\ h.call \in Nat /\ h.large \in BOOLEAN
          /\ h.verdict \in {"Ok", "Fenced", "Exhausted", "body"}
        BY <2>3 DEF CallInv, Truthful, Pieces
    <2>7. ASSUME h.verdict = "Exhausted" PROVE i \in Dropped
        <3>1. conn[c].state = "closed" /\ wire[c] = <<>>
            BY <1>1, <2>3, <2>7 DEF Tidy
        <3>2. i \in 1 .. Len(calls) /\ i \notin Done /\ \A d \in Clients : d # c => i \notin Sent(d)
            BY <2>1, <2>3, <2>7 DEF CallInv, Waiting
        <3>3. Sent(c) = {}
            BY <3>1 DEF Sent
        <3> QED BY <3>2, <3>3 DEF Dropped, Flying
    <2>8. ASSUME ~ conn[c].torn
          PROVE  /\ h.verdict # "body" /\ h.call \in {0, i} /\ wire[c] = <<>>
                 /\ h.verdict = "Ok" => h.kind = calling[c].kind
                 /\ ~ h.large => rest = <<>>
        <3>1. InStep(c)
            BY <1>1, <2>8
        <3>2. Refusal.call = 0
            BY DEF Refusal, Header
        <3>3. /\ h = Refusal \/ (h.call = i /\ h.verdict \in {"Ok", "Fenced", "Exhausted"})
              /\ h.verdict \in {"Ok", "Fenced", "Exhausted"}
              /\ h.verdict = "Ok" => h.kind = calling[c].kind
              /\ Len(back[c]) = 2 => h.large
              /\ Len(back[c]) <= 2
            BY <2>1, <3>1, Zenon DEF InStep
        <3>4. wire[c] = <<>>
            BY <2>1, <3>1 DEF InStep
        <3>5. Len(back[c]) \in Nat /\ Len(back[c]) # 0
            BY <1>1, <2>1
        <3>6. ~ h.large => Len(back[c]) # 2
            BY <3>3, Zenon
        <3>7. \A n \in Nat : n # 0 /\ n <= 2 /\ n # 2 => n - 1 = 0
            OBVIOUS
        <3>8. Len(back[c]) <= 2
            BY <3>3, Zenon
        <3>9. ~ h.large => Len(back[c]) - 1 = 0
            BY <3>5, <3>6, <3>7, <3>8, Zenon
        <3>10. \A t \in Seq(Pieces) : Len(t) = 0 => t = <<>>
            OBVIOUS
        <3>11. Len(rest) = Len(back[c]) - 1 /\ rest \in Seq(Pieces)
            BY <2>2, Zenon
        <3>12. ~ h.large => rest = <<>>
            <4> HIDE DEF rest
            <4> QED BY <3>9, <3>10, <3>11, Zenon
        <3> QED BY <3>2, <3>3, <3>4, <3>12
    <2>9. Body.verdict = "body"
        BY DEF Body, Header
    <2> DEFINE unexpected == h.verdict = "Ok" /\ h.kind # calling[c].kind
               code == IF unexpected THEN "Internal" ELSE h.verdict
    <2>10. \/ h = Body /\ Return(c, "MalformedInput", 0) /\ UNCHANGED conn
           \/ h.large /\ Return(c, "LimitExceeded", h.call) /\ conn' = [conn EXCEPT ![c].torn = TRUE]
           \/ ~ h.large /\ Return(c, code, h.call) /\ UNCHANGED conn
        BY <1>4, <2>2 DEF ReadReply
    <2>11. CASE h = Body /\ Return(c, "MalformedInput", 0) /\ UNCHANGED conn
        <3>1. [outcome |-> "MalformedInput", by |-> 0, clean |-> ~ conn[c].torn] \in Outcomes
            BY DEF Outcomes
        <3>2. conn[c].torn
            BY <2>8, <2>9, <2>11
        <3> HIDE DEF rest
        <3> QED BY <1>2, <2>1, <2>2, <2>4, <2>5, <2>11, <3>1, <3>2, ReturnKeeps, Zenon
    <2>12. CASE h.large /\ Return(c, "LimitExceeded", h.call) /\ conn' = [conn EXCEPT ![c].torn = TRUE]
        <3>1. [outcome |-> "LimitExceeded", by |-> h.call, clean |-> ~ conn[c].torn] \in Outcomes
            BY <2>6 DEF Outcomes
        <3> HIDE DEF rest, h
        <3> QED BY <1>2, <2>1, <2>2, <2>4, <2>5, <2>6, <2>8, <2>12, <3>1, ReturnKeeps, Zenon
    <2>13. CASE ~ h.large /\ Return(c, code, h.call) /\ UNCHANGED conn
        <3>1. [outcome |-> code, by |-> h.call, clean |-> ~ conn[c].torn] \in Outcomes
            BY <2>6 DEF Outcomes
        <3>2. /\ code = "Ok" => h.call \in Done
              /\ code = "Fenced" => h.call \in Dropped
              /\ code = "Exhausted" => i \in Dropped
              /\ ~ conn[c].torn => code # "Internal"
            BY <2>6, <2>7, <2>8
        <3> HIDE DEF rest, h, code
        <3> QED BY <1>2, <2>1, <2>2, <2>4, <2>5, <2>6, <2>8, <2>13, <3>1, <3>2, ReturnKeeps, Zenon
    <2> QED BY <2>10, <2>11, <2>12, <2>13
<1> QED BY <1>3, <1>4

\* Sequences of one and of two elements.
LEMMA ShortSeqs ==
    ASSUME NEW S, NEW x \in S, NEW y \in S
    PROVE  /\ <<x>> \in Seq(S) /\ Len(<<x>>) = 1 /\ <<x>>[1] = x
           /\ <<x, y>> \in Seq(S) /\ Len(<<x, y>>) = 2 /\ <<x, y>>[1] = x /\ <<x, y>>[2] = y
    OBVIOUS

\* What Serve leaves in the stream: what was unread, the answer to q, the rest of it.
Replied(c, q, verdict) ==
    /\ back' \in [Clients -> Seq(Pieces)]
    /\ \A d \in Clients : d # c => back'[d] = back[d]
    /\ conn[c].state = "left" => back'[c] = <<>>
    /\ \A k \in 1 .. Len(back'[c]) :
          \/ back'[c][k] \in Unread(c)
          \/ back'[c][k] = Body
          \/ back'[c][k].call = q.call /\ back'[c][k].verdict = verdict
    /\ back[c] = <<>> /\ back'[c] # <<>> =>
          /\ back'[c][1].call = q.call /\ back'[c][1].verdict = verdict /\ back'[c][1].kind = q.kind
          /\ Len(back'[c]) <= 2 /\ (Len(back'[c]) = 2 => back'[c][1].large)

\* The answer of Serve, small or large, or a reset.
LEMMA ServeReplies ==
    ASSUME CallInv, NEW c \in Clients, NEW q \in Requests, NEW verdict \in {"Ok", "Fenced"},
           conn[c].state \in {"open", "left"},
           \/ back' = Replies(c, <<Header(q.call, q.kind, verdict, FALSE)>>)
           \/ /\ q.kind = "Other"
              /\ back' = Replies(c, <<Header(q.call, "Other", verdict, TRUE), Body>>)
           \/ back' = [back EXCEPT ![c] = <<>>]
    PROVE  Replied(c, q, verdict)
<1> DEFINE small == <<Header(q.call, q.kind, verdict, FALSE)>>
           large == <<Header(q.call, "Other", verdict, TRUE), Body>>
<1>1. back \in [Clients -> Seq(Pieces)] /\ back[c] \in Seq(Pieces)
    BY DEF CallInv, SessionType
<1>2. /\ Header(q.call, q.kind, verdict, FALSE) \in Pieces /\ Header(q.call, "Other", verdict, TRUE) \in Pieces
      /\ Body \in Pieces
    BY DEF Header, Body, Pieces, Requests, Kinded
<1>3. /\ small \in Seq(Pieces) /\ Len(small) = 1 /\ small[1] = Header(q.call, q.kind, verdict, FALSE)
      /\ large \in Seq(Pieces) /\ Len(large) = 2 /\ large[1] = Header(q.call, "Other", verdict, TRUE) /\ large[2] = Body
    BY <1>2, ShortSeqs, Zenon
<1>4. /\ small[1].call = q.call /\ small[1].verdict = verdict /\ small[1].kind = q.kind
      /\ large[1].call = q.call /\ large[1].verdict = verdict /\ large[1].kind = "Other" /\ large[1].large
    BY <1>3 DEF Header
<1> HIDE DEF small, large
<1>5. CASE back' = [back EXCEPT ![c] = <<>>]
    BY <1>1, <1>5 DEF Replied
<1>6. CASE conn[c].state = "left" /\ back' = back
    <2>1. back[c] = <<>>
        BY <1>6 DEF CallInv, Tidy
    <2> QED BY <1>1, <1>6, <2>1 DEF Replied
<1>7. ASSUME NEW more \in Seq(Pieces), back' = [back EXCEPT ![c] = back[c] \o more], conn[c].state # "left",
             more = small \/ (more = large /\ q.kind = "Other")
      PROVE  Replied(c, q, verdict)
    <2>1. back'[c] = back[c] \o more /\ back'[c] \in Seq(Pieces) /\ \A d \in Clients : d # c => back'[d] = back[d]
        BY <1>1, <1>7
    <2>2. back' \in [Clients -> Seq(Pieces)]
        BY <1>1, <1>7
    <2>3. ASSUME NEW j \in 1 .. Len(more)
          PROVE  more[j] = Body \/ (more[j].call = q.call /\ more[j].verdict = verdict)
        <3>1. CASE more = small
            <4>1. Len(more) = 1
                BY <1>3, <3>1, Zenon
            <4>2. j = 1
                BY <4>1
            <4> QED BY <1>4, <3>1, <4>2, Zenon
        <3>2. CASE more = large
            <4>1. Len(more) = 2
                BY <1>3, <3>2, Zenon
            <4>2. j = 1 \/ j = 2
                BY <4>1
            <4> QED BY <1>3, <1>4, <3>2, <4>2, Zenon
        <3> QED BY <1>7, <3>1, <3>2
    <2>4. ASSUME NEW k \in 1 .. Len(back'[c])
          PROVE  \/ back'[c][k] \in Unread(c)
                 \/ back'[c][k] = Body
                 \/ back'[c][k].call = q.call /\ back'[c][k].verdict = verdict
        <3>1. \/ k \in 1 .. Len(back[c]) /\ back'[c][k] = back[c][k]
              \/ k - Len(back[c]) \in 1 .. Len(more) /\ back'[c][k] = more[k - Len(back[c])]
            BY <1>1, <2>1
        <3> QED BY <2>3, <3>1 DEF Unread
    <2>5. ASSUME back[c] = <<>>
          PROVE  /\ back'[c][1].call = q.call /\ back'[c][1].verdict = verdict /\ back'[c][1].kind = q.kind
                 /\ Len(back'[c]) <= 2 /\ (Len(back'[c]) = 2 => back'[c][1].large)
        <3>1. back'[c] = more
            BY <2>1, <2>5
        <3>2. CASE more = small
            <4>1. Len(back'[c]) = 1 /\ back'[c] = small
                BY <1>3, <3>1, <3>2, Zenon
            <4>2. Len(back'[c]) <= 2 /\ Len(back'[c]) # 2
                BY <4>1
            <4> QED BY <1>4, <4>1, <4>2, Zenon
        <3>3. CASE more = large /\ q.kind = "Other"
            <4>1. Len(back'[c]) = 2 /\ back'[c] = large
                BY <1>3, <3>1, <3>3, Zenon
            <4>2. Len(back'[c]) <= 2
                BY <4>1
            <4> QED BY <1>4, <3>3, <4>1, <4>2, Zenon
        <3> QED BY <1>7, <3>2, <3>3, Zenon
    <2> QED BY <1>7, <2>1, <2>2, <2>4, <2>5, Zenon DEF Replied
<1>8. CASE conn[c].state # "left" /\ back' = [back EXCEPT ![c] = back[c] \o small]
    BY <1>3, <1>7, <1>8, Zenon
<1>9. CASE conn[c].state # "left" /\ back' = [back EXCEPT ![c] = back[c] \o large] /\ q.kind = "Other"
    BY <1>3, <1>7, <1>9, Zenon
<1> QED BY <1>5, <1>6, <1>8, <1>9, Zenon DEF Replies, small, large

\* Serve keeps the invariant.
LEMMA ServeKeeps ==
    ASSUME CallInv, NEW c \in Clients, Serve(c)
    PROVE  CallInv'
<1> DEFINE q == Head(wire[c])
           verdict == IF TurnedAway(conn[c].to, q) THEN "Fenced" ELSE "Ok"
           last == q.kind = "Shutdown"
<1>1. /\ conn \in [Clients -> Connections] /\ conn[c] \in Connections /\ executed \in Seq(Nat)
      /\ wire \in [Clients -> Seq(Requests)] /\ wire[c] \in Seq(Requests)
      /\ Tidy(c) /\ (~ conn[c].torn => InStep(c))
    BY DEF CallInv, SessionType
<1>2. /\ conn[c].state \in {"open", "left"} /\ wire[c] # <<>>
      /\ \/ back' = Replies(c, <<Header(q.call, q.kind, verdict, FALSE)>>)
         \/ q.kind = "Other" /\ back' = Replies(c, <<Header(q.call, "Other", verdict, TRUE), Body>>)
         \/ back' = [back EXCEPT ![c] = <<>>]
      /\ executed' = IF verdict = "Ok" THEN Append(executed, q.call) ELSE executed
      /\ wire' = [wire EXCEPT ![c] = IF last THEN <<>> ELSE Tail(wire[c])]
      /\ conn' = IF last THEN [conn EXCEPT ![c] = IF conn[c].state = "left" THEN NoConn
                                                  ELSE [conn[c] EXCEPT !.state = "closed"]]
                 ELSE conn
      /\ UNCHANGED <<calling, calls>>
    BY DEF Serve, Closes
<1>3. /\ q \in Requests /\ q = wire[c][1] /\ 1 \in 1 .. Len(wire[c])
      /\ Tail(wire[c]) \in Seq(Requests) /\ Len(Tail(wire[c])) = Len(wire[c]) - 1 /\ Len(wire[c]) \in Nat
      /\ \A k \in 1 .. Len(Tail(wire[c])) : k + 1 \in 1 .. Len(wire[c]) /\ Tail(wire[c])[k] = wire[c][k + 1]
    BY <1>1, <1>2
<1>4. q.call \in Nat /\ q.kind \in Kinded /\ verdict \in {"Ok", "Fenced"}
    BY <1>3 DEF Requests
<1> HIDE DEF q, verdict, last
<1>5. /\ back' \in [Clients -> Seq(Pieces)]
      /\ \A d \in Clients : d # c => back'[d] = back[d]
      /\ conn[c].state = "left" => back'[c] = <<>>
      /\ \A k \in 1 .. Len(back'[c]) :
            \/ back'[c][k] \in Unread(c)
            \/ back'[c][k] = Body
            \/ back'[c][k].call = q.call /\ back'[c][k].verdict = verdict
      /\ back[c] = <<>> /\ back'[c] # <<>> =>
            /\ back'[c][1].call = q.call /\ back'[c][1].verdict = verdict /\ back'[c][1].kind = q.kind
            /\ Len(back'[c]) <= 2 /\ (Len(back'[c]) = 2 => back'[c][1].large)
    <2>1. conn[c].state \in {"open", "left"} /\ q \in Requests /\ verdict \in {"Ok", "Fenced"}
        BY <1>2, <1>3, <1>4
    <2>2. \/ back' = Replies(c, <<Header(q.call, q.kind, verdict, FALSE)>>)
          \/ q.kind = "Other" /\ back' = Replies(c, <<Header(q.call, "Other", verdict, TRUE), Body>>)
          \/ back' = [back EXCEPT ![c] = <<>>]
        BY <1>2
    <2>3. Replied(c, q, verdict)
        BY <2>1, <2>2, ServeReplies, Zenon
    <2> QED BY <2>3, Zenon DEF Replied
<1>6. /\ wire'[c] \in {<<>>, Tail(wire[c])} /\ (last => wire'[c] = <<>>)
      /\ wire' \in [Clients -> Seq(Requests)]
      /\ \A d \in Clients : d # c => wire'[d] = wire[d]
    BY <1>1, <1>2, <1>3
<1>7. /\ conn' \in [Clients -> Connections]
      /\ \A d \in Clients : d # c => conn'[d] = conn[d]
      /\ \/ conn'[c] = conn[c]
         \/ last /\ conn[c].state = "left" /\ conn'[c] = NoConn
         \/ /\ last /\ conn'[c].state = "closed"
            /\ conn'[c].to = conn[c].to /\ conn'[c].torn = conn[c].torn
    BY <1>1, <1>2, Zenon DEF Connections, States, NoConn
<1>8. SessionType'
    <2>1. executed' \in Seq(Nat)
        BY <1>1, <1>2, <1>4
    <2> QED BY <1>2, <1>5, <1>6, <1>7, <2>1 DEF CallInv, SessionType
<1>9. /\ \A k \in 1 .. Len(executed) : executed'[k] = executed[k] /\ k \in 1 .. Len(executed')
      /\ \A k \in 1 .. Len(executed') : k \in 1 .. Len(executed) \/ (k = Len(executed) + 1 /\ executed'[k] = q.call /\ verdict = "Ok")
      /\ verdict = "Ok" => Len(executed) + 1 \in 1 .. Len(executed') /\ executed'[Len(executed) + 1] = q.call
    <2>1. CASE verdict = "Ok"
        BY <1>1, <1>2, <1>4, <2>1
    <2>2. CASE verdict # "Ok"
        BY <1>2, <2>2
    <2> QED BY <2>1, <2>2
<1>10. /\ \A k \in 1 .. Len(wire'[c]) : /\ k + 1 \in 1 .. Len(wire[c]) /\ wire'[c][k] = wire[c][k + 1]
                                        /\ wire'[c][k].call # q.call
    <2> SUFFICES ASSUME NEW k \in 1 .. Len(wire'[c])
                 PROVE  k + 1 \in 1 .. Len(wire[c]) /\ wire'[c][k] = wire[c][k + 1] /\ wire'[c][k].call # q.call
        OBVIOUS
    <2>1. k + 1 \in 1 .. Len(wire[c]) /\ wire'[c][k] = wire[c][k + 1]
        <3>1. wire'[c] # <<>>
            OBVIOUS
        <3>2. wire'[c] = Tail(wire[c])
            BY <1>6, <3>1
        <3> QED BY <1>3, <3>2, Zenon
    <2>2. k + 1 # 1
        BY <1>6
    <2>3. wire[c][k + 1].call # wire[c][1].call
        BY <1>3, <2>1, <2>2 DEF CallInv, OneCopy
    <2> QED BY <1>3, <2>1, <2>3, Zenon
<1>11. (\A d \in Clients : Sent(d)' \subseteq Sent(d)) /\ q.call \in Sent(c) /\ q.call \notin Sent(c)'
    <2>1. \A d \in Clients : d # c => Sent(d)' = Sent(d)
        BY <1>6 DEF Sent
    <2>2. Sent(c)' \subseteq Sent(c) /\ q.call \notin Sent(c)'
        BY <1>10 DEF Sent
    <2>3. q.call \in Sent(c)
        BY <1>3, Zenon DEF Sent
    <2> QED BY <2>1, <2>2, <2>3
<1>12. \A d \in Clients : d # c => q.call \notin Sent(d)
    BY <1>3 DEF CallInv, OneCopy, Sent
<1>13. Flying' \subseteq Flying /\ q.call \in Flying /\ q.call \notin Flying'
    BY <1>11, <1>12 DEF Flying
<1>14. Done \subseteq Done' /\ Done' \subseteq Done \cup {q.call} /\ (verdict = "Ok" => q.call \in Done') /\ (verdict # "Ok" => Done' = Done)
    BY <1>2, <1>9 DEF Done
<1>15. q.call \notin Done /\ q.call \in 1 .. Len(calls)
    BY <1>13, Zenon DEF CallInv, Requested
<1>16. Requested'
    <2>1. Flying' \subseteq 1 .. Len(calls') /\ Done' \subseteq 1 .. Len(calls') /\ Flying' \cap Done' = {}
        BY <1>2, <1>13, <1>14, <1>15 DEF CallInv, Requested
    <2>2. ASSUME NEW k \in 1 .. Len(executed'), NEW l \in 1 .. Len(executed'), executed'[k] = executed'[l]
          PROVE  k = l
        <3>1. \A j \in 1 .. Len(executed) : executed[j] # q.call
            BY <1>15 DEF Done
        <3> QED BY <1>9, <2>2, <3>1 DEF CallInv, Requested
    <2> QED BY <2>1, <2>2 DEF Requested
<1>17. OneCopy'
    <2> SUFFICES ASSUME NEW d \in Clients, NEW e \in Clients, NEW k \in 1 .. Len(wire'[d]), NEW l \in 1 .. Len(wire'[e]),
                        wire'[d][k].call = wire'[e][l].call
                 PROVE  d = e /\ k = l
        BY DEF OneCopy
    <2> DEFINE old(f, j) == IF f = c THEN j + 1 ELSE j
    <2>1. ASSUME NEW f \in Clients, NEW j \in 1 .. Len(wire'[f])
          PROVE  old(f, j) \in 1 .. Len(wire[f]) /\ wire'[f][j] = wire[f][old(f, j)]
        <3>1. CASE f = c
            BY <1>10, <3>1
        <3>2. CASE f # c
            BY <1>6, <3>2
        <3> QED BY <3>1, <3>2
    <2>2. /\ old(d, k) \in 1 .. Len(wire[d]) /\ wire'[d][k] = wire[d][old(d, k)]
          /\ old(e, l) \in 1 .. Len(wire[e]) /\ wire'[e][l] = wire[e][old(e, l)]
        BY <2>1
    <2>3. d = e /\ old(d, k) = old(e, l)
        <3> HIDE DEF old
        <3> QED BY <2>2 DEF CallInv, OneCopy
    <2>4. k \in Nat /\ l \in Nat
        BY <1>8 DEF SessionType
    <2> QED BY <2>3, <2>4
<1>18. Dropped \subseteq Dropped' /\ (verdict = "Fenced" => q.call \in Dropped')
    BY <1>2, <1>4, <1>13, <1>14, <1>15 DEF Dropped
<1>19. /\ \A d \in Clients : d # c => Unread(d)' = Unread(d)
       /\ \A h \in Unread(c)' : h \in Unread(c) \/ h = Body \/ (h.call = q.call /\ h.verdict = verdict)
    <2>1. \A d \in Clients : d # c => Unread(d)' = Unread(d)
        BY <1>5 DEF Unread
    <2>2. \A h \in Unread(c)' : h \in Unread(c) \/ h = Body \/ (h.call = q.call /\ h.verdict = verdict)
        <3> SUFFICES ASSUME NEW k \in 1 .. Len(back'[c])
                     PROVE  \/ back'[c][k] \in Unread(c) \/ back'[c][k] = Body
                            \/ back'[c][k].call = q.call /\ back'[c][k].verdict = verdict
            BY Zenon DEF Unread
        <3> QED BY <1>5, Zenon
    <2> QED BY <2>1, <2>2
<1>20. Body.verdict = "body"
    BY DEF Body, Header
<1>21. Truthful'
    <2>1. ASSUME NEW d \in Clients, NEW h \in Unread(d)'
          PROVE  (h.verdict = "Ok" => h.call \in Done') /\ (h.verdict = "Fenced" => h.call \in Dropped')
        <3>1. CASE h \in Unread(d)
            BY <1>14, <1>18, <3>1 DEF CallInv, Truthful
        <3>2. CASE h = Body
            BY <1>20, <3>2
        <3>3. CASE h.call = q.call /\ h.verdict = verdict
            BY <1>14, <1>18, <3>3
        <3> QED BY <1>19, <3>1, <3>2, <3>3
    <2>2. ASSUME NEW k \in 1 .. Len(calls')
          PROVE  /\ calls'[k].outcome = "Ok" /\ calls'[k].by = k => k \in Done'
                 /\ calls'[k].outcome = "Fenced" /\ calls'[k].by = k => k \in Dropped'
                 /\ calls'[k].outcome = "Exhausted" => k \in Dropped'
        BY <1>2, <1>14, <1>18 DEF CallInv, Truthful
    <2> QED BY <2>1, <2>2 DEF Truthful
<1>22. \A h \in Unread(c)' : h.verdict # "Exhausted"
    <2>1. \A h \in Unread(c) : h.verdict # "Exhausted"
        BY <1>1, <1>2 DEF Tidy
    <2> QED BY <1>4, <1>19, <1>20, <2>1
<1>23. conn'[c].state # "backlog"
    BY <1>2, <1>7 DEF NoConn
<1>24. Waiting'
    <2>1. ASSUME NEW d \in Clients
          PROVE  /\ calling'[d] # Idle => calling'[d].call \in 1 .. Len(calls')
                 /\ calling'[d] = Idle => calling'[d].call = 0
                 /\ \A e \in Clients : e # d => calling'[d].call \notin Sent(e)'
        BY <1>2, <1>11 DEF CallInv, Waiting
    <2>2. ASSUME NEW d \in Clients, conn'[d].state = "backlog" \/ \E h \in Unread(d)' : h.verdict = "Exhausted"
          PROVE  calling'[d].call \notin Done'
        <3>1. d # c
            BY <1>22, <1>23, <2>2, Zenon
        <3>2. calling[d].call \notin Done
            BY <1>7, <1>19, <2>2, <3>1, Zenon DEF CallInv, Waiting
        <3>3. calling[d].call # q.call
            BY <1>11, <3>1 DEF CallInv, Waiting
        <3> QED BY <1>2, <1>14, <3>2, <3>3
    <2> QED BY <2>1, <2>2 DEF Waiting
<1>25. OwnAnswer'
    BY <1>2 DEF CallInv, OwnAnswer, Returned
<1>26. Tidy(c)'
    <2>1. CASE conn'[c] = conn[c]
        BY <1>1, <1>2, <1>5, <1>22, <2>1 DEF Tidy
    <2>2. CASE last /\ conn[c].state = "left" /\ conn'[c] = NoConn
        BY <1>1, <1>2, <1>5, <1>6, <1>22, <2>2 DEF Tidy, NoConn
    <2>3. CASE last /\ conn'[c].state = "closed" /\ conn'[c].to = conn[c].to
        BY <1>1, <1>2, <1>5, <1>6, <1>22, <2>3 DEF Tidy
    <2> QED BY <1>7, <2>1, <2>2, <2>3
<1>27. ASSUME ~ conn'[c].torn PROVE InStep(c)'
    <2>1. CASE conn'[c] = NoConn /\ last /\ conn[c].state = "left"
        BY <1>5, <1>6, <2>1 DEF InStep
    <2>2. CASE conn'[c].torn = conn[c].torn
        <3>1. InStep(c)
            BY <1>1, <1>27, <2>2
        <3>2. back[c] = <<>> /\ q.call = calling[c].call /\ q.kind = calling[c].kind /\ Len(wire[c]) <= 1 /\ calling[c] # Idle
            BY <1>2, <1>3, <3>1, Zenon DEF InStep
        <3>3. \A t \in Seq(Requests) : Len(t) = 0 => t = <<>>
            OBVIOUS
        <3>4. Len(Tail(wire[c])) = 0
            <4>1. Len(Tail(wire[c])) = Len(wire[c]) - 1 /\ Len(wire[c]) \in Nat /\ 1 \in 1 .. Len(wire[c])
                BY <1>3, Zenon
            <4>2. Len(wire[c]) <= 1
                BY <3>2, Zenon
            <4>3. \A n \in Nat : 1 \in 1 .. n /\ n <= 1 => n - 1 = 0
                OBVIOUS
            <4> QED BY <4>1, <4>2, <4>3, Zenon
        <3>5. wire'[c] = <<>> /\ Len(wire'[c]) <= 1
            BY <1>3, <1>6, <3>3, <3>4
        <3>6. CASE back'[c] = <<>>
            BY <1>2, <3>5, <3>6 DEF InStep
        <3>7. CASE back'[c] # <<>>
            <4>1. verdict \in {"Ok", "Fenced", "Exhausted"}
                BY <1>4
            <4> QED BY <1>2, <1>5, <3>2, <3>5, <3>7, <4>1, Zenon DEF InStep
        <3> QED BY <3>6, <3>7
    <2> QED BY <1>7, <2>1, <2>2
<1>28. \A d \in Clients : Tidy(d)' /\ (~ conn'[d].torn => InStep(d)')
    BY <1>2, <1>5, <1>6, <1>7, <1>26, <1>27, Untouched
<1> QED BY <1>8, <1>16, <1>17, <1>21, <1>24, <1>25, <1>28, Zenon DEF CallInv

-----------------------------------------------------------------------------
SessionInv == LifeInv /\ CallInv

\* Every step keeps the invariant.
LEMMA NextSessionInv == SessionInv /\ [SessionNext]_sessionVars => SessionInv'
<1> SUFFICES ASSUME SessionInv, [SessionNext]_sessionVars PROVE SessionInv'
    OBVIOUS
<1>1. LifeInv /\ CallInv /\ \A c \in Clients : Tidy(c)
    BY DEF SessionInv, CallInv
<1>2. LifeInv'
    BY <1>1, SessionSteps, NextLifeInv, Zenon
<1>3. ASSUME NEW c \in Clients, NEW r \in {0} \cup known, NEW kind \in CallKinds(r), Call(c, kind, r) PROVE CallInv'
    <2>1. r \in Nat /\ kind \in Kinded
        <3>1. known \subseteq Nat
            BY <1>1 DEF LifeInv, TypeOK
        <3> QED BY <3>1 DEF CallKinds, Kinded
    <2>2. CASE /\ calls' = Append(calls, [outcome |-> "pending", by |-> 0, clean |-> TRUE])
               /\ calling' = [calling EXCEPT ![c] = [call |-> Len(calls) + 1, kind |-> kind]]
               /\ wire' = IF conn[c].state = "closed" THEN wire
                          ELSE [wire EXCEPT ![c] = Append(@, [call |-> Len(calls) + 1, kind |-> kind, pin |-> r])]
        <3>1. conn[c].state \notin {"none", "left"} /\ calling[c] = Idle /\ UNCHANGED <<conn, back, executed>>
            BY <1>3, Zenon DEF Call
        <3> QED BY <1>1, <2>1, <2>2, <3>1, SendKeeps, Zenon
    <2>3. CASE /\ calls' = Append(calls, [outcome |-> "IoFailure", by |-> 0, clean |-> TRUE])
               /\ UNCHANGED <<calling, wire>>
        <3>1. UNCHANGED <<conn, back, executed>>
            BY <1>3 DEF Call
        <3> QED BY <1>1, <2>3, <3>1, UnsentKeeps, Zenon
    <2> QED BY <1>3, <2>2, <2>3 DEF Call
<1>4. ASSUME NEW c \in Clients, ClientStep(c) PROVE CallInv'
    BY <1>1, <1>3, <1>4, ConnectKeeps, ReadKeeps, StatesKeep DEF ClientStep
<1>5. ASSUME NEW c \in Clients, WorkerStep(c) \/ AcceptStep(c) PROVE CallInv'
    BY <1>1, <1>5, ServeKeeps, StatesKeep DEF WorkerStep, AcceptStep
<1>6. ASSUME NEW p \in Procs, Ended(p) \/ Killed(p) PROVE CallInv'
    BY <1>1, <1>6, CutKeeps, Zenon DEF Ended, Killed
<1>7. ASSUME UNCHANGED session PROVE CallInv'
    <2>1. UNCHANGED <<conn, calling, wire, back, calls, executed>>
        BY <1>7 DEF session
    <2>2. SessionType'
        BY <1>1, <2>1 DEF CallInv, SessionType
    <2>3. \A c \in Clients : Unread(c)' = Unread(c)
        BY <2>1 DEF Unread
    <2>4. OneCopy' /\ Requested' /\ Truthful' /\ Waiting' /\ OwnAnswer'
        BY <1>1, <2>1, <2>2, <2>3, DropKeeps
    <2>5. \A d \in Clients : Tidy(d)' /\ (~ conn'[d].torn => InStep(d)')
        BY <1>1, <2>1, Untouched
    <2> QED BY <2>2, <2>4, <2>5 DEF CallInv
<1>8. CallInv'
    BY <1>4, <1>5, <1>6, <1>7 DEF SessionNext, Otherwise, sessionVars
<1> QED BY <1>2, <1>8 DEF SessionInv

\* The invariant holds in every reachable state of a session.
THEOREM SessionInvariance == SessionSpec => []SessionInv
<1>1. SessionInit => SessionInv
    BY InitLifeInv, InitCallInv DEF SessionInit, SessionInv
<1> QED BY <1>1, NextSessionInv, PTL DEF SessionSpec

\* Whatever clients and workers do, the processes behave as Incarnation says:
\* every session is a behaviour of its specification, and what is proved of it
\* (one incarnation, ascending epochs, the fence) holds for sessions.
THEOREM SessionsAreLives == SessionSpec => Spec
<1>1. SessionInit => Init
    BY DEF SessionInit
<1>2. SessionInv /\ [SessionNext]_sessionVars => [Next]_vars
    BY SessionSteps DEF SessionInv, CallInv
<1> QED BY <1>1, <1>2, SessionInvariance, PTL DEF SessionSpec, Spec

\* A client whose replies fit never takes the answer to another call for the
\* answer to its own, although Exchange does not compare sequence numbers.
THEOREM OwnReply == SessionSpec => []OwnAnswer
<1>1. SessionInv => OwnAnswer
    BY DEF SessionInv, CallInv
<1> QED BY <1>1, SessionInvariance, PTL

\* No request is carried out twice, one answered Ok was, and one fenced or
\* refused was not, over any number of kills and restarts.
THEOREM OnceAtMost == SessionSpec => []ExecutedOnce
<1>1. ASSUME SessionInv PROVE ExecutedOnce
    <2> SUFFICES ASSUME NEW i \in 1 .. Len(calls)
                 PROVE  LET times == {k \in 1 .. Len(executed) : executed[k] = i}
                        IN /\ \A k, l \in times : k = l
                           /\ calls[i].outcome = "Ok" /\ calls[i].by = i => times # {}
                           /\ calls[i].outcome = "Fenced" /\ calls[i].by = i => times = {}
                           /\ calls[i].outcome = "Exhausted" => times = {}
        BY DEF ExecutedOnce
    <2> DEFINE times == {k \in 1 .. Len(executed) : executed[k] = i}
    <2>1. Requested /\ Truthful
        BY <1>1 DEF SessionInv, CallInv
    <2>2. \A k, l \in times : k = l
        BY <2>1 DEF Requested
    <2>3. i \in Done <=> times # {}
        BY DEF Done
    <2>4. i \in Dropped => times = {}
        BY <2>3 DEF Dropped
    <2> QED BY <2>1, <2>2, <2>3, <2>4 DEF Truthful
<1> QED BY <1>1, SessionInvariance, PTL
=============================================================================
