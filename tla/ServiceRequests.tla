--------------------------- MODULE ServiceRequests ---------------------------
(***************************************************************************)
(* What the request handlers of oppd do to the state they share            *)
(* (Service::HandleFrameFor in src/service.cpp): the snapshot in memory,   *)
(* its persisted copy, the plan store and the cancellation table.          *)
(*                                                                         *)
(* Each worker serves one connection and runs one handler at a time.  A    *)
(* step is what a handler does under mutex_ at once, or one system call of *)
(* WriteFileAtomic: SaveSnapshotFile is called outside mutex_ and its      *)
(* temporary name is made of the target name and the process identifier,   *)
(* so every Ingest of one process opens the same temporary path.           *)
(*                                                                         *)
(* Hello, Validate, GetPlan, StoreList and Stats only read this state;     *)
(* frames that are fenced or do not decode, parse or match their digest    *)
(* are answered with a Failure and change none of it.                      *)
(***************************************************************************)
EXTENDS Naturals, FiniteSets

CONSTANTS
    Workers,    \* connection workers
    Snaps,      \* snapshots that clients ingest
    NoSnap,     \* snapshot_ is null
    Inodes,     \* files snapshot.oppsnap and its temporary can be
    NoFile,     \* the path names no file
    Tokens,     \* cancel tokens of plan requests (0 in a Cancel means all of them)
    MaxCrashes, \* bound: kills of the process
    MaxFails    \* bound: short writes

ASSUME SnapAssumption == NoSnap \notin Snaps
ASSUME FileAssumption == NoFile \notin Inodes
ASSUME InodeAssumption == Cardinality(Inodes) >= Cardinality(Workers) + 1
ASSUME TokenAssumption == Tokens # {}
ASSUME BoundAssumption == MaxCrashes \in Nat /\ MaxFails \in Nat

VARIABLES
    up,             \* the process runs
    snapshot,       \* snapshot_: the snapshot and whether it is marked restored
    snapshot_fresh, \* snapshot_fresh_
    live,           \* the file named snapshot.oppsnap
    temp,           \* the file named snapshot.oppsnap.tmp-<pid>
    content,        \* content[i]: the bytes of file i
    pc,             \* pc[w]: where worker w is in its handler
    arg,            \* arg[w]: the snapshot w ingests, or the one w plans against
    handle,         \* handle[w]: the file w has open for writing
    request,        \* request[w]: the plan request w serves
    active,         \* stats_.active_requests
    cancellations,  \* cancellations_: the registered tokens, and which are requested
    cancelled,      \* history: cancelled[w], a Cancel named w's request while it searched
    stored,         \* history: the last plan Put into the store, and its request
    ingested,       \* history: snapshots acknowledged by this incarnation
    owed,           \* history: the acknowledged snapshot that no later Ingest replaced
    overlapped,     \* history: an Ingest was opened before another one was published
    crashes, fails  \* bounds

vars == <<up, snapshot, snapshot_fresh, live, temp, content, pc, arg, handle, request,
          active, cancellations, cancelled, stored, ingested, owed, overlapped,
          crashes, fails>>

evidence == <<snapshot, snapshot_fresh>>
files    == <<live, temp, content, handle>>
planning == <<request, active, cancelled, stored>>
ingests  == <<ingested, owed, overlapped>>
bounds   == <<crashes, fails>>

\* "empty": just opened; "torn": bytes of two writers, or a part of one's.
Contents == Snaps \cup {"empty", "torn"}

Null == [of |-> NoSnap, restored |-> FALSE]
Evidence == {Null} \cup [of : Snaps, restored : BOOLEAN]
Requests == [token : Tokens, accept : BOOLEAN]
NoRequest == [token |-> CHOOSE t \in Tokens : TRUE, accept |-> FALSE]

\* A Put: the evidence of the plan, its request, and whether that was cancelled.
Puts  == [plan : Evidence, request : Requests, cancelled : BOOLEAN]
NoPut == [plan |-> Null, request |-> NoRequest, cancelled |-> FALSE]

Saving  == {"write", "rename"}
InPlan  == {"search", "put", "tally"}
PcStates == {"idle", "publish"} \cup Saving \cup InPlan

Init ==
    /\ up = TRUE
    /\ snapshot = Null
    /\ snapshot_fresh = FALSE
    /\ live = NoFile
    /\ temp = NoFile
    /\ content = [i \in Inodes |-> "empty"]
    /\ pc = [w \in Workers |-> "idle"]
    /\ arg = [w \in Workers |-> Null]
    /\ handle = [w \in Workers |-> NoFile]
    /\ request = [w \in Workers |-> NoRequest]
    /\ active = 0
    /\ cancellations = <<>>
    /\ cancelled = [w \in Workers |-> FALSE]
    /\ stored = NoPut
    /\ ingested = {}
    /\ owed = NoSnap
    /\ overlapped = FALSE
    /\ crashes = 0
    /\ fails = 0

\* Worker w answers and waits for its next frame.
Reply(w) ==
    /\ pc' = [pc EXCEPT ![w] = "idle"]
    /\ arg' = [arg EXCEPT ![w] = Null]

-----------------------------------------------------------------------------
(* Ingest                                                                  *)

\* Files that no path and no open handle refers to.
FreeInodes == Inodes \ ({live, temp} \cup {handle[w] : w \in Workers})

\* fopen(temporary, "wb") creates the file, or truncates the one that is there.
IngestOpen(w, s) ==
    /\ up /\ pc[w] = "idle"
    /\ \E i \in IF temp = NoFile THEN FreeInodes ELSE {temp} :
       /\ temp' = i
       /\ content' = [content EXCEPT ![i] = "empty"]
       /\ handle' = [handle EXCEPT ![w] = i]
    /\ pc' = [pc EXCEPT ![w] = "write"]
    /\ arg' = [arg EXCEPT ![w] = [of |-> s, restored |-> FALSE]]
    /\ overlapped' = (overlapped \/ \E v \in Workers : pc[v] \in Saving \cup {"publish"})
    /\ UNCHANGED <<up, evidence, live, planning, cancellations, ingested, owed, bounds>>

\* fwrite, fflush, fsync, fclose.  Over another writer's bytes the result is
\* this writer's when they are no shorter, and otherwise a mixture.
IngestWrite(w) ==
    /\ pc[w] = "write"
    /\ \E c \in IF content[handle[w]] \in {"empty", arg[w].of} THEN {arg[w].of}
                                                              ELSE {arg[w].of, "torn"} :
           content' = [content EXCEPT ![handle[w]] = c]
    /\ handle' = [handle EXCEPT ![w] = NoFile]
    /\ pc' = [pc EXCEPT ![w] = "rename"]
    /\ UNCHANGED <<up, evidence, live, temp, arg, planning, cancellations, ingests, bounds>>

\* Mutant of IngestWriteFails: the failure is not noticed.
IngestWriteFailsUnseen(w) ==
    /\ pc[w] = "write"
    /\ fails < MaxFails
    /\ fails' = fails + 1
    /\ content' = [content EXCEPT ![handle[w]] = "torn"]
    /\ handle' = [handle EXCEPT ![w] = NoFile]
    /\ pc' = [pc EXCEPT ![w] = "rename"]
    /\ UNCHANGED <<up, evidence, live, temp, arg, planning, cancellations, ingests, crashes>>

\* Mutant of IngestWriteFails: the target is removed, not the temporary.
IngestWriteFailsTarget(w) ==
    /\ pc[w] = "write"
    /\ fails < MaxFails
    /\ fails' = fails + 1
    /\ content' = [content EXCEPT ![handle[w]] = "torn"]
    /\ handle' = [handle EXCEPT ![w] = NoFile]
    /\ live' = NoFile
    /\ Reply(w)
    /\ UNCHANGED <<up, evidence, temp, planning, cancellations, ingests, crashes>>

\* A short write or a failing flush: the temporary path is removed.
IngestWriteFails(w) ==
    /\ pc[w] = "write"
    /\ fails < MaxFails
    /\ fails' = fails + 1
    /\ content' = [content EXCEPT ![handle[w]] = "torn"]
    /\ handle' = [handle EXCEPT ![w] = NoFile]
    /\ temp' = NoFile
    /\ Reply(w)
    /\ UNCHANGED <<up, evidence, live, planning, cancellations, ingests, crashes>>

\* RenameFile moves whatever file the temporary path names by now.
IngestRename(w) ==
    /\ pc[w] = "rename"
    /\ temp # NoFile
    /\ live' = temp
    /\ temp' = NoFile
    /\ pc' = [pc EXCEPT ![w] = "publish"]
    /\ owed' = NoSnap
    /\ UNCHANGED <<up, evidence, content, arg, handle, planning, cancellations, ingested,
                   overlapped, bounds>>

\* The temporary path is gone: the Ingest is answered with a Failure.
IngestRenameFails(w) ==
    /\ pc[w] = "rename"
    /\ temp = NoFile
    /\ Reply(w)
    /\ UNCHANGED <<up, evidence, files, planning, cancellations, ingests, bounds>>

\* Mutant of IngestPublish: snapshot_fresh_ is not updated.
IngestPublishUnflagged(w) ==
    /\ pc[w] = "publish"
    /\ snapshot' = arg[w]
    /\ ingested' = ingested \cup {arg[w].of}
    /\ owed' = arg[w].of
    /\ Reply(w)
    /\ UNCHANGED <<up, snapshot_fresh, files, planning, cancellations, overlapped, bounds>>

\* The snapshot becomes the current one, under mutex_, and is acknowledged.
IngestPublish(w) ==
    /\ pc[w] = "publish"
    /\ snapshot' = arg[w]
    /\ snapshot_fresh' = TRUE
    /\ ingested' = ingested \cup {arg[w].of}
    /\ owed' = arg[w].of
    /\ Reply(w)
    /\ UNCHANGED <<up, files, planning, cancellations, overlapped, bounds>>

-----------------------------------------------------------------------------
(* Plan and Cancel                                                         *)

\* The handler takes the current snapshot under mutex_ and counts itself.
PlanCapture(w, r) ==
    /\ up /\ pc[w] = "idle"
    /\ arg' = [arg EXCEPT ![w] = snapshot]
    /\ request' = [request EXCEPT ![w] = r]
    /\ active' = active + 1
    /\ pc' = [pc EXCEPT ![w] = "search"]
    /\ UNCHANGED <<up, evidence, files, cancellations, cancelled, stored, ingests, bounds>>

\* Mutant of Decides: restored evidence is as good as fresh.
DecidesRestored(w) == arg[w].of # NoSnap

\* Planner::Plan decides nothing without evidence, nor on restored evidence
\* that the request does not accept.
Decides(w) ==
    /\ arg[w].of # NoSnap
    /\ ~ arg[w].restored \/ request[w].accept

\* The search ends, feasible or not.  It runs with a CancelToken of its own
\* that nobody requests.
PlanSearch(w) ==
    /\ pc[w] = "search"
    /\ \E next \in IF Decides(w) THEN {"put", "tally"} ELSE {"tally"} :
           pc' = [pc EXCEPT ![w] = next]
    /\ UNCHANGED <<up, evidence, files, arg, planning, cancellations, ingests, bounds>>

\* store_->Put of one candidate, which the store may refuse; there may be more.
PlanPut(w) ==
    /\ pc[w] = "put"
    /\ stored' \in {stored, [plan |-> arg[w], request |-> request[w],
                              cancelled |-> cancelled[w]]}
    /\ \E next \in {"put", "tally"} : pc' = [pc EXCEPT ![w] = next]
    /\ UNCHANGED <<up, evidence, files, arg, request, active, cancelled, cancellations,
                   ingests, bounds>>

\* Mutant of PlanTally: active_requests is not given back.
PlanTallyLeaks(w) ==
    /\ pc[w] = "tally"
    /\ request' = [request EXCEPT ![w] = NoRequest]
    /\ cancelled' = [cancelled EXCEPT ![w] = FALSE]
    /\ Reply(w)
    /\ UNCHANGED <<up, evidence, files, active, cancellations, stored, ingests, bounds>>

\* The statistics are updated under mutex_ and the result is sent.
PlanTally(w) ==
    /\ pc[w] = "tally"
    /\ active' = active - 1
    /\ request' = [request EXCEPT ![w] = NoRequest]
    /\ cancelled' = [cancelled EXCEPT ![w] = FALSE]
    /\ Reply(w)
    /\ UNCHANGED <<up, evidence, files, cancellations, stored, ingests, bounds>>

\* Cancel requests the token, or all of them, in cancellations_.  No handler
\* registers one there, so the table is empty and no search is affected.
Cancel(w, t) ==
    /\ up /\ pc[w] = "idle"
    /\ cancellations' = [u \in DOMAIN cancellations |-> cancellations[u] \/ t \in {0, u}]
    /\ cancelled' = [v \in Workers |->
                        cancelled[v] \/ (pc[v] = "search" /\ t \in {0, request[v].token})]
    /\ UNCHANGED <<up, evidence, files, pc, arg, request, active, stored, ingests, bounds>>

-----------------------------------------------------------------------------
(* The process                                                             *)

Kill ==
    /\ up
    /\ crashes < MaxCrashes
    /\ crashes' = crashes + 1
    /\ up' = FALSE
    /\ snapshot' = Null
    /\ snapshot_fresh' = FALSE
    /\ temp' = NoFile          \* the next process has another identifier
    /\ content' \in {content, [i \in Inodes |-> IF \E w \in Workers : handle[w] = i
                                                THEN "torn" ELSE content[i]]}
    /\ pc' = [w \in Workers |-> "idle"]
    /\ arg' = [w \in Workers |-> Null]
    /\ handle' = [w \in Workers |-> NoFile]
    /\ request' = [w \in Workers |-> NoRequest]
    /\ active' = 0
    /\ cancellations' = <<>>
    /\ cancelled' = [w \in Workers |-> FALSE]
    /\ ingested' = {}
    /\ UNCHANGED <<live, stored, owed, overlapped, fails>>

\* LoadSnapshotFile: the file is there and ParseSnapshotText accepts its bytes.
Loads(i) == i # NoFile /\ content[i] \in Snaps

\* Service::Start restores the persisted snapshot, if it parses, as not fresh.
Restart ==
    /\ ~ up
    /\ up' = TRUE
    /\ snapshot' = IF Loads(live) THEN [of |-> content[live], restored |-> TRUE] ELSE Null
    /\ snapshot_fresh' = FALSE
    /\ UNCHANGED <<files, pc, arg, planning, cancellations, ingests, bounds>>

IngestStep(w) ==
    \/ \E s \in Snaps : IngestOpen(w, s)
    \/ IngestWrite(w) \/ IngestWriteFails(w)
    \/ IngestRename(w) \/ IngestRenameFails(w)
    \/ IngestPublish(w)

PlanStep(w) ==
    \/ \E r \in Requests : PlanCapture(w, r)
    \/ PlanSearch(w) \/ PlanPut(w) \/ PlanTally(w)
    \/ \E t \in Tokens \cup {0} : Cancel(w, t)

Next == (\E w \in Workers : IngestStep(w) \/ PlanStep(w)) \/ Kill \/ Restart

Spec == Init /\ [][Next]_vars

-----------------------------------------------------------------------------
TypeOK ==
    /\ up \in BOOLEAN
    /\ snapshot \in Evidence
    /\ snapshot_fresh \in BOOLEAN
    /\ live \in Inodes \cup {NoFile}
    /\ temp \in Inodes \cup {NoFile}
    /\ content \in [Inodes -> Contents]
    /\ pc \in [Workers -> PcStates]
    /\ arg \in [Workers -> Evidence]
    /\ handle \in [Workers -> Inodes \cup {NoFile}]
    /\ request \in [Workers -> Requests]
    /\ active \in Nat
    /\ DOMAIN cancellations \subseteq Tokens
    /\ cancelled \in [Workers -> BOOLEAN]
    /\ stored \in Puts
    /\ ingested \subseteq Snaps
    /\ owed \in Snaps \cup {NoSnap}
    /\ overlapped \in BOOLEAN
    /\ crashes \in 0 .. MaxCrashes
    /\ fails \in 0 .. MaxFails

(***************************************************************************)
(* "A snapshot restored from disk is never presented as fresh": what Hello *)
(* reports (snapshot_fresh_) and what the planner goes by (the mark in the *)
(* snapshot) agree, and evidence is fresh exactly when this incarnation    *)
(* acknowledged it, over ingests, kills and restarts.                      *)
(***************************************************************************)
FreshHonest ==
    /\ snapshot_fresh <=> snapshot.of # NoSnap /\ ~ snapshot.restored
    /\ snapshot_fresh => snapshot.of \in ingested

(***************************************************************************)
(* No plan enters the store on evidence that its request did not accept,   *)
(* even when the snapshot is replaced, or the process restarted, while     *)
(* other requests are in flight.                                           *)
(***************************************************************************)
EvidenceAccepted ==
    stored # NoPut =>
        /\ stored.plan.of # NoSnap
        /\ stored.plan.restored => stored.request.accept

(***************************************************************************)
(* stats_.active_requests is the number of plan requests in flight: every  *)
(* path out of the Plan handler gives back what it counted.                *)
(***************************************************************************)
ActiveExact == active = Cardinality({w \in Workers : pc[w] \in InPlan})

(***************************************************************************)
(* While ingests do not overlap, the persisted snapshot is a whole one, at *)
(* every instant, also across short writes and kills.                      *)
(***************************************************************************)
PersistedWhole == ~ overlapped /\ live # NoFile => content[live] \in Snaps

(***************************************************************************)
(* While ingests do not overlap, an acknowledged snapshot is on disk until *)
(* a later Ingest replaces it: a restart restores it, or a newer one.      *)
(***************************************************************************)
AcknowledgedKept == ~ overlapped /\ owed # NoSnap => live # NoFile /\ content[live] = owed

(***************************************************************************)
(* "Cancellation is real: a cancelled search publishes no candidate and    *)
(* the plan store does not gain an artifact for it."                       *)
(***************************************************************************)
CancellationIsReal == ~ stored.cancelled
=============================================================================
