----------------------- MODULE ServiceRequests_proofs -----------------------
(***************************************************************************)
(* Theorems about ServiceRequests, for any number of workers, snapshots,   *)
(* requests, kills and short writes.                                       *)
(***************************************************************************)
EXTENDS ServiceRequests, FiniteSetTheorems, TLAPS

Ingesting == Saving \cup {"publish"}
Planning  == {w \in Workers : pc[w] \in InPlan}

\* An Ingest holds the snapshot that its client sent.
Handed == \A w \in Workers : pc[w] \in Ingesting => arg[w].of \in Snaps /\ ~ arg[w].restored

\* A candidate rests on evidence that its request accepted, until it is stored.
Decided == \A w \in Workers : pc[w] = "put" => Decides(w)

\* The counter is exact, over a finite number of requests in flight.
Counted == IsFiniteSet(Planning) /\ ActiveExact

\* Without overlap one worker at most is inside an Ingest.
OneIngest == \A v, w \in Workers : pc[v] \in Ingesting /\ pc[w] \in Ingesting => v = w

\* Without overlap the temporary is the ingesting worker's own file: empty until
\* it is written, whole until it is renamed, live until it is acknowledged.
OwnFile ==
    /\ \A w \in Workers :
        /\ handle[w] # NoFile => pc[w] = "write"
        /\ pc[w] = "write" => handle[w] = temp /\ temp # NoFile /\ content[temp] = "empty"
        /\ pc[w] = "rename" => temp # NoFile /\ content[temp] = arg[w].of
        /\ pc[w] = "publish" => live # NoFile /\ content[live] = arg[w].of
    /\ temp # NoFile => temp # live

\* Without overlap the live file is whole, and the acknowledged one.
LiveWhole ==
    /\ live # NoFile => content[live] \in Snaps
    /\ owed # NoSnap => live # NoFile /\ content[live] = owed

\* The inductive invariant.
RequestInv ==
    /\ TypeOK /\ Handed /\ Decided /\ Counted /\ FreshHonest /\ EvidenceAccepted
    /\ ~ overlapped => OneIngest /\ OwnFile /\ LiveWhole

-----------------------------------------------------------------------------
\* What the two empty records are.
LEMMA Blanks == Null \in Evidence /\ NoRequest \in Requests /\ NoPut \in Puts
<1>1. Null \in Evidence
    BY DEF Null, Evidence
<1>2. (CHOOSE t \in Tokens : TRUE) \in Tokens
    BY TokenAssumption
<1>3. NoRequest \in Requests
    BY <1>2 DEF NoRequest, Requests
<1> QED BY <1>1, <1>3 DEF NoPut, Puts

\* Init establishes the inductive invariant.
LEMMA InitRequestInv == Init => RequestInv
<1> SUFFICES ASSUME Init PROVE RequestInv
    OBVIOUS
<1>1. TypeOK
    <2>1. /\ up \in BOOLEAN /\ snapshot_fresh \in BOOLEAN /\ overlapped \in BOOLEAN
          /\ snapshot \in Evidence /\ live \in Inodes \cup {NoFile} /\ temp \in Inodes \cup {NoFile}
          /\ stored \in Puts /\ ingested \subseteq Snaps /\ owed \in Snaps \cup {NoSnap}
        BY Blanks, Zenon DEF Init
    <2>2. /\ content \in [Inodes -> Contents] /\ pc \in [Workers -> PcStates]
          /\ arg \in [Workers -> Evidence] /\ handle \in [Workers -> Inodes \cup {NoFile}]
          /\ request \in [Workers -> Requests] /\ cancelled \in [Workers -> BOOLEAN]
        BY Blanks DEF Init, Contents, PcStates
    <2>3. active \in Nat /\ crashes \in 0 .. MaxCrashes /\ fails \in 0 .. MaxFails
        BY BoundAssumption DEF Init
    <2>4. DOMAIN cancellations \subseteq Tokens
        BY DEF Init
    <2> QED BY <2>1, <2>2, <2>3, <2>4, Zenon DEF TypeOK
<1>2. \A w \in Workers : pc[w] = "idle" /\ handle[w] = NoFile
    BY DEF Init
<1>3. Handed /\ Decided /\ OneIngest
    BY <1>2 DEF Handed, Decided, OneIngest, Ingesting, Saving
<1>4. Counted
    <2>1. Planning = {}
        BY <1>2 DEF Planning, InPlan
    <2> QED BY <2>1, FS_EmptySet DEF Counted, ActiveExact, Planning, Init
<1>5. FreshHonest /\ EvidenceAccepted
    BY DEF Init, FreshHonest, EvidenceAccepted, Null
<1>6. OwnFile /\ LiveWhole
    BY <1>2 DEF Init, OwnFile, LiveWhole
<1> QED BY <1>1, <1>3, <1>4, <1>5, <1>6 DEF RequestInv

-----------------------------------------------------------------------------
(* What the conjuncts that a step does not disturb rest on.                *)

\* No worker enters or leaves a Plan: the counter stays exact.
LEMMA CountKept ==
    ASSUME Counted, active' = active,
           \A v \in Workers : pc'[v] \in InPlan <=> pc[v] \in InPlan
    PROVE  Counted'
<1>1. Planning' = Planning
    BY DEF Planning
<1> QED BY <1>1 DEF Counted, ActiveExact, Planning

\* The evidence is the same: it stays honest.
LEMMA FreshKept ==
    ASSUME FreshHonest, UNCHANGED <<snapshot, snapshot_fresh, ingested>>
    PROVE  FreshHonest'
BY DEF FreshHonest

\* Nobody moves into "put": what was decided stays decided.
LEMMA DecidedKept ==
    ASSUME Decided, \A v \in Workers : pc'[v] = "put" =>
               pc[v] = "put" /\ arg'[v] = arg[v] /\ request'[v] = request[v]
    PROVE  Decided'
BY DEF Decided, Decides

\* The ingests and the files are the same: what holds of them holds still.
LEMMA FilesKept ==
    ASSUME RequestInv, UNCHANGED <<live, temp, content, handle, owed, overlapped>>,
           \A v \in Workers : pc'[v] \in Ingesting \/ pc[v] \in Ingesting =>
               pc'[v] = pc[v] /\ arg'[v] = arg[v]
    PROVE  Handed' /\ (~ overlapped' => OneIngest' /\ OwnFile' /\ LiveWhole')
<1>1. \A v \in Workers : pc'[v] \in Ingesting => pc[v] = pc'[v] /\ arg'[v] = arg[v]
    OBVIOUS
<1>2. Handed'
    BY <1>1 DEF RequestInv, Handed
<1>3. ASSUME ~ overlapped PROVE OneIngest' /\ OwnFile' /\ LiveWhole'
    <2>1. OneIngest /\ OwnFile /\ LiveWhole
        BY <1>3 DEF RequestInv
    <2>2. OneIngest'
        BY <1>1, <2>1 DEF OneIngest
    <2>3. \A v \in Workers : pc[v] = "write" => pc'[v] = "write"
        BY DEF Ingesting, Saving
    <2>4. {"write", "rename", "publish"} \subseteq Ingesting
        BY DEF Ingesting, Saving
    <2>5. OwnFile'
        BY <1>1, <2>1, <2>3, <2>4, Zenon DEF OwnFile
    <2> QED BY <2>1, <2>2, <2>5 DEF LiveWhole
<1> QED BY <1>2, <1>3

-----------------------------------------------------------------------------
(* The ingest steps, one lemma each.                                       *)

\* Opening the temporary: alone, it is a file of its own; otherwise overlapped.
LEMMA OpenKeeps ==
    ASSUME RequestInv, NEW w \in Workers, NEW s \in Snaps, IngestOpen(w, s)
    PROVE  RequestInv'
<1> USE DEF ingests, evidence, planning, bounds
<1>1. PICK i \in (IF temp = NoFile THEN FreeInodes ELSE {temp}) :
          /\ temp' = i /\ content' = [content EXCEPT ![i] = "empty"]
          /\ handle' = [handle EXCEPT ![w] = i]
    BY DEF IngestOpen
<1>2. i \in Inodes /\ i # NoFile /\ (temp = NoFile => i # live)
    BY <1>1, FileAssumption DEF FreeInodes, RequestInv, TypeOK
<1>3. [of |-> s, restored |-> FALSE] \in Evidence
    BY DEF Evidence
<1>4. /\ pc'[w] = "write" /\ pc[w] = "idle" /\ arg'[w] = [of |-> s, restored |-> FALSE]
      /\ handle'[w] = i /\ content'[i] = "empty"
      /\ \A v \in Workers : v # w => /\ pc'[v] = pc[v] /\ arg'[v] = arg[v]
                                     /\ handle'[v] = handle[v]
      /\ \A j \in Inodes : j # i => content'[j] = content[j]
    BY <1>1, <1>2 DEF IngestOpen, RequestInv, TypeOK
<1>5. TypeOK'
    <2>1. /\ temp' \in Inodes \cup {NoFile} /\ content' \in [Inodes -> Contents]
          /\ handle' \in [Workers -> Inodes \cup {NoFile}]
          /\ pc' \in [Workers -> PcStates] /\ arg' \in [Workers -> Evidence]
        BY <1>1, <1>2, <1>3 DEF IngestOpen, RequestInv, TypeOK, Contents, PcStates, Saving
    <2>2. overlapped' \in BOOLEAN
        BY DEF IngestOpen, RequestInv, TypeOK
    <2> QED BY <2>1, <2>2 DEF IngestOpen, RequestInv, TypeOK
<1>6. Handed'
    BY <1>4 DEF RequestInv, Handed
<1>7. Decided' /\ Counted'
    BY <1>4, DecidedKept, CountKept DEF IngestOpen, RequestInv, InPlan
<1>8. FreshHonest' /\ EvidenceAccepted'
    BY FreshKept DEF IngestOpen, RequestInv, EvidenceAccepted
<1>9. ASSUME ~ overlapped' PROVE OneIngest' /\ OwnFile' /\ LiveWhole'
    <2>1. ~ overlapped /\ \A v \in Workers : pc[v] \notin Ingesting
        BY <1>9 DEF IngestOpen, Ingesting
    <2>2. OneIngest /\ OwnFile /\ LiveWhole
        BY <2>1 DEF RequestInv
    <2>3. i # live /\ live' = live /\ owed' = owed /\ temp' = i
        BY <1>1, <1>2, <2>2 DEF OwnFile, IngestOpen
    <2>4. \A v \in Workers : pc'[v] \in Ingesting => v = w
        BY <1>4, <2>1
    <2>5. live # NoFile => content'[live] = content[live]
        BY <1>4, <2>3 DEF RequestInv, TypeOK
    <2>6. LiveWhole'
        BY <2>2, <2>3, <2>5 DEF LiveWhole
    <2>7. \A v \in Workers : v # w => pc'[v] \notin Ingesting /\ handle'[v] = NoFile
        BY <1>4, <2>1, <2>2 DEF OwnFile, Ingesting, Saving
    <2>8. {"write", "rename", "publish"} \subseteq Ingesting
        BY DEF Ingesting, Saving
    <2>9. OwnFile'
        BY <1>2, <1>4, <2>3, <2>7, <2>8 DEF OwnFile
    <2> QED BY <2>4, <2>6, <2>9 DEF OneIngest
<1> QED BY <1>5, <1>6, <1>7, <1>8, <1>9 DEF RequestInv

\* Writing the temporary: alone, it becomes whole.
LEMMA WriteKeeps ==
    ASSUME RequestInv, NEW w \in Workers, IngestWrite(w)
    PROVE  RequestInv'
<1> USE DEF ingests, evidence, planning, bounds
<1>0. PICK c \in (IF content[handle[w]] \in {"empty", arg[w].of} THEN {arg[w].of}
                                                                 ELSE {arg[w].of, "torn"}) :
          content' = [content EXCEPT ![handle[w]] = c]
    BY DEF IngestWrite
<1>1. arg[w].of \in Snaps
    BY DEF RequestInv, Handed, IngestWrite, Ingesting, Saving
<1>2. c \in Contents
    BY <1>0, <1>1 DEF Contents
<1>3. /\ pc[w] = "write" /\ pc'[w] = "rename" /\ handle'[w] = NoFile
      /\ \A v \in Workers : v # w => pc'[v] = pc[v] /\ handle'[v] = handle[v]
      /\ \A j \in Inodes : j # handle[w] => content'[j] = content[j]
    BY <1>0 DEF IngestWrite, RequestInv, TypeOK
<1>4. TypeOK'
    <2>1. /\ content' \in [Inodes -> Contents] /\ handle' \in [Workers -> Inodes \cup {NoFile}]
          /\ pc' \in [Workers -> PcStates]
        BY <1>0, <1>2 DEF IngestWrite, RequestInv, TypeOK, PcStates, Saving
    <2> QED BY <2>1 DEF IngestWrite, RequestInv, TypeOK
<1>5. Handed'
    BY <1>3 DEF RequestInv, Handed, IngestWrite, Ingesting, Saving
<1>6. Decided' /\ Counted'
    BY <1>3, DecidedKept, CountKept DEF IngestWrite, RequestInv, InPlan
<1>7. FreshHonest' /\ EvidenceAccepted'
    BY FreshKept DEF IngestWrite, RequestInv, EvidenceAccepted
<1>8. ASSUME ~ overlapped' PROVE OneIngest' /\ OwnFile' /\ LiveWhole'
    <2>1. ~ overlapped /\ OneIngest /\ OwnFile /\ LiveWhole
        BY <1>8 DEF RequestInv, IngestWrite
    <2>2. /\ handle[w] = temp /\ temp # NoFile /\ temp # live /\ content[temp] = "empty"
          /\ temp \in Inodes
        BY <1>3, <2>1 DEF OwnFile, RequestInv, TypeOK
    <2>3. content'[temp] = arg[w].of
        BY <1>0, <2>2 DEF RequestInv, TypeOK
    <2>4. live # NoFile => content'[live] = content[live]
        BY <1>3, <2>2 DEF RequestInv, TypeOK
    <2>5. LiveWhole'
        BY <2>1, <2>4 DEF LiveWhole, IngestWrite
    <2>6. {"write", "rename", "publish"} \subseteq Ingesting
        BY DEF Ingesting, Saving
    <2>7. \A v \in Workers : v # w => pc[v] \notin Ingesting /\ handle[v] = NoFile
        BY <1>3, <2>1, <2>6 DEF OneIngest, OwnFile
    <2>8. OneIngest'
        BY <1>3, <2>7 DEF OneIngest
    <2>9. OwnFile'
        BY <1>3, <2>2, <2>3, <2>6, <2>7 DEF OwnFile, IngestWrite
    <2> QED BY <2>5, <2>8, <2>9
<1> QED BY <1>4, <1>5, <1>6, <1>7, <1>8 DEF RequestInv

\* A failed write: the worker gives up, and alone it takes its temporary along.
LEMMA WriteFailsKeeps ==
    ASSUME RequestInv, NEW w \in Workers, IngestWriteFails(w)
    PROVE  RequestInv'
<1> USE DEF ingests, evidence, planning, bounds
<1>1. /\ pc[w] = "write" /\ pc'[w] = "idle" /\ handle'[w] = NoFile
      /\ \A v \in Workers : v # w => /\ pc'[v] = pc[v] /\ arg'[v] = arg[v]
                                     /\ handle'[v] = handle[v]
      /\ \A j \in Inodes : j # handle[w] => content'[j] = content[j]
    BY DEF IngestWriteFails, Reply, RequestInv, TypeOK
<1>2. TypeOK'
    <2>1. /\ content' \in [Inodes -> Contents] /\ handle' \in [Workers -> Inodes \cup {NoFile}]
          /\ pc' \in [Workers -> PcStates] /\ arg' \in [Workers -> Evidence]
        BY Blanks DEF IngestWriteFails, Reply, RequestInv, TypeOK, PcStates, Contents
    <2>2. fails' \in 0 .. MaxFails
        BY BoundAssumption DEF IngestWriteFails, RequestInv, TypeOK
    <2> QED BY <2>1, <2>2 DEF IngestWriteFails, RequestInv, TypeOK
<1>3. Handed'
    BY <1>1 DEF RequestInv, Handed, Ingesting, Saving
<1>4. Decided' /\ Counted'
    BY <1>1, DecidedKept, CountKept DEF IngestWriteFails, RequestInv, InPlan
<1>5. FreshHonest' /\ EvidenceAccepted'
    BY FreshKept DEF IngestWriteFails, RequestInv, EvidenceAccepted
<1>6. ASSUME ~ overlapped' PROVE OneIngest' /\ OwnFile' /\ LiveWhole'
    <2>1. ~ overlapped /\ OneIngest /\ OwnFile /\ LiveWhole
        BY <1>6 DEF RequestInv, IngestWriteFails
    <2>2. handle[w] # live
        BY <1>1, <2>1 DEF OwnFile
    <2>3. live # NoFile => content'[live] = content[live]
        BY <1>1, <2>2 DEF RequestInv, TypeOK
    <2>4. LiveWhole'
        BY <2>1, <2>3 DEF LiveWhole, IngestWriteFails
    <2>5. {"write", "rename", "publish"} \subseteq Ingesting /\ "idle" \notin Ingesting
        BY DEF Ingesting, Saving
    <2>6. \A v \in Workers : v # w => pc[v] \notin Ingesting /\ handle[v] = NoFile
        BY <1>1, <2>1, <2>5 DEF OneIngest, OwnFile
    <2>7. OneIngest'
        BY <1>1, <2>5, <2>6 DEF OneIngest
    <2>8. OwnFile'
        BY <1>1, <2>5, <2>6 DEF OwnFile, IngestWriteFails
    <2> QED BY <2>4, <2>7, <2>8
<1> QED BY <1>2, <1>3, <1>4, <1>5, <1>6 DEF RequestInv

\* The rename: alone, the whole temporary becomes the live file.
LEMMA RenameKeeps ==
    ASSUME RequestInv, NEW w \in Workers, IngestRename(w)
    PROVE  RequestInv'
<1> USE DEF ingests, evidence, planning, bounds
<1>1. /\ pc[w] = "rename" /\ pc'[w] = "publish"
      /\ \A v \in Workers : v # w => pc'[v] = pc[v]
    BY DEF IngestRename, RequestInv, TypeOK
<1>2. TypeOK'
    BY <1>1 DEF IngestRename, RequestInv, TypeOK, PcStates
<1>3. Handed'
    BY <1>1 DEF IngestRename, RequestInv, Handed, Ingesting, Saving
<1>4. Decided' /\ Counted'
    BY <1>1, DecidedKept, CountKept DEF IngestRename, RequestInv, InPlan
<1>5. FreshHonest' /\ EvidenceAccepted'
    BY FreshKept DEF IngestRename, RequestInv, EvidenceAccepted
<1>6. ASSUME ~ overlapped' PROVE OneIngest' /\ OwnFile' /\ LiveWhole'
    <2>1. ~ overlapped /\ OneIngest /\ OwnFile /\ LiveWhole
        BY <1>6 DEF RequestInv, IngestRename
    <2>2. live' = temp /\ temp # NoFile /\ content[temp] = arg[w].of /\ arg[w].of \in Snaps
        BY <1>1, <2>1 DEF OwnFile, IngestRename, RequestInv, Handed, Ingesting, Saving
    <2>3. LiveWhole'
        BY <2>2 DEF LiveWhole, IngestRename
    <2>4. {"write", "rename", "publish"} \subseteq Ingesting
        BY DEF Ingesting, Saving
    <2>5. \A v \in Workers : v # w => pc[v] \notin Ingesting /\ handle[v] = NoFile
        BY <1>1, <2>1, <2>4 DEF OneIngest, OwnFile
    <2>6. handle[w] = NoFile
        BY <1>1, <2>1 DEF OwnFile
    <2>7. OneIngest'
        BY <1>1, <2>5 DEF OneIngest
    <2>8. OwnFile'
        BY <1>1, <2>2, <2>4, <2>5, <2>6 DEF OwnFile, IngestRename
    <2> QED BY <2>3, <2>7, <2>8
<1> QED BY <1>2, <1>3, <1>4, <1>5, <1>6 DEF RequestInv

\* A rename that finds no temporary; alone, that does not happen.
LEMMA RenameFailsKeeps ==
    ASSUME RequestInv, NEW w \in Workers, IngestRenameFails(w)
    PROVE  RequestInv'
<1> USE DEF ingests, evidence, planning, bounds, files
<1>1. /\ pc[w] = "rename" /\ pc'[w] = "idle"
      /\ \A v \in Workers : v # w => pc'[v] = pc[v] /\ arg'[v] = arg[v]
    BY DEF IngestRenameFails, Reply, RequestInv, TypeOK
<1>2. TypeOK'
    BY <1>1, Blanks DEF IngestRenameFails, Reply, RequestInv, TypeOK, PcStates
<1>3. Handed'
    BY <1>1 DEF RequestInv, Handed, Ingesting, Saving
<1>4. Decided' /\ Counted'
    BY <1>1, DecidedKept, CountKept DEF IngestRenameFails, RequestInv, InPlan
<1>5. FreshHonest' /\ EvidenceAccepted'
    BY FreshKept DEF IngestRenameFails, RequestInv, EvidenceAccepted
<1>6. overlapped /\ overlapped' = overlapped
    BY <1>1 DEF IngestRenameFails, RequestInv, OwnFile
<1> QED BY <1>2, <1>3, <1>4, <1>5, <1>6 DEF RequestInv

\* The acknowledgement: the evidence is fresh, and alone it is the live file.
LEMMA PublishKeeps ==
    ASSUME RequestInv, NEW w \in Workers, IngestPublish(w)
    PROVE  RequestInv'
<1> USE DEF ingests, evidence, planning, bounds, files
<1>1. /\ pc[w] = "publish" /\ pc'[w] = "idle"
      /\ \A v \in Workers : v # w => pc'[v] = pc[v] /\ arg'[v] = arg[v]
    BY DEF IngestPublish, Reply, RequestInv, TypeOK
<1>2. arg[w] \in Evidence /\ arg[w].of \in Snaps /\ ~ arg[w].restored
    BY <1>1 DEF RequestInv, TypeOK, Handed, Ingesting
<1>3. TypeOK'
    BY <1>1, <1>2, Blanks DEF IngestPublish, Reply, RequestInv, TypeOK, PcStates
<1>4. Handed'
    BY <1>1 DEF RequestInv, Handed, Ingesting, Saving
<1>5. Decided' /\ Counted'
    BY <1>1, DecidedKept, CountKept DEF IngestPublish, RequestInv, InPlan
<1>6. FreshHonest' /\ EvidenceAccepted'
    BY <1>2, SnapAssumption DEF IngestPublish, RequestInv, FreshHonest, EvidenceAccepted
<1>7. ASSUME ~ overlapped' PROVE OneIngest' /\ OwnFile' /\ LiveWhole'
    <2>1. ~ overlapped /\ OneIngest /\ OwnFile /\ LiveWhole
        BY <1>7 DEF RequestInv, IngestPublish
    <2>2. LiveWhole'
        BY <1>1, <2>1 DEF LiveWhole, OwnFile, IngestPublish
    <2>3. \A v \in Workers : pc'[v] \notin Ingesting
        BY <1>1, <2>1 DEF OneIngest, Ingesting, Saving
    <2>4. \A v \in Workers : handle[v] = NoFile
        BY <1>1, <2>1, <2>3 DEF OwnFile, Ingesting, Saving
    <2>5. OneIngest'
        BY <2>3 DEF OneIngest
    <2>6. {"write", "rename", "publish"} \subseteq Ingesting
        BY DEF Ingesting, Saving
    <2>7. OwnFile'
        BY <2>1, <2>3, <2>4, <2>6 DEF OwnFile, IngestPublish
    <2> QED BY <2>2, <2>5, <2>7
<1> QED BY <1>3, <1>4, <1>5, <1>6, <1>7 DEF RequestInv

-----------------------------------------------------------------------------
(* The plan steps, and the process.                                        *)

\* The capture: one more request is in flight, and is counted.
LEMMA CaptureKeeps ==
    ASSUME RequestInv, NEW w \in Workers, NEW r \in Requests, PlanCapture(w, r)
    PROVE  RequestInv'
<1> USE DEF ingests, evidence, bounds, files
<1>1. /\ pc[w] = "idle" /\ pc'[w] = "search"
      /\ \A v \in Workers : v # w => /\ pc'[v] = pc[v] /\ arg'[v] = arg[v]
                                     /\ request'[v] = request[v]
    BY DEF PlanCapture, RequestInv, TypeOK
<1>2. TypeOK'
    BY <1>1 DEF PlanCapture, RequestInv, TypeOK, PcStates, InPlan
<1>3. Handed' /\ (~ overlapped' => OneIngest' /\ OwnFile' /\ LiveWhole')
    BY <1>1, FilesKept DEF PlanCapture, Ingesting, Saving
<1>4. Decided'
    BY <1>1, DecidedKept DEF RequestInv
<1>5. Counted'
    <2>1. w \notin Planning /\ Planning' = Planning \cup {w}
        BY <1>1 DEF Planning, InPlan
    <2>2. IsFiniteSet(Planning) /\ active = Cardinality(Planning)
        BY DEF RequestInv, Counted, ActiveExact, Planning
    <2>3. IsFiniteSet(Planning') /\ Cardinality(Planning') = Cardinality(Planning) + 1
        BY <2>1, <2>2, FS_AddElement, Zenon
    <2> QED BY <2>2, <2>3 DEF Counted, ActiveExact, Planning, PlanCapture
<1>6. FreshHonest' /\ EvidenceAccepted'
    BY FreshKept DEF PlanCapture, RequestInv, EvidenceAccepted
<1> QED BY <1>2, <1>3, <1>4, <1>5, <1>6 DEF RequestInv

\* The search: a candidate leaves it only on evidence the request accepted.
LEMMA SearchKeeps ==
    ASSUME RequestInv, NEW w \in Workers, PlanSearch(w)
    PROVE  RequestInv'
<1> USE DEF ingests, evidence, planning, bounds, files
<1>1. /\ pc[w] = "search" /\ pc'[w] \in {"put", "tally"} /\ (pc'[w] = "put" => Decides(w))
      /\ \A v \in Workers : v # w => pc'[v] = pc[v]
    BY DEF PlanSearch, RequestInv, TypeOK
<1>2. TypeOK'
    BY <1>1 DEF PlanSearch, RequestInv, TypeOK, PcStates, InPlan
<1>3. Handed' /\ (~ overlapped' => OneIngest' /\ OwnFile' /\ LiveWhole')
    BY <1>1, FilesKept DEF PlanSearch, Ingesting, Saving
<1>4. Decided'
    BY <1>1 DEF RequestInv, Decided, Decides, PlanSearch
<1>5. Counted'
    BY <1>1, CountKept DEF PlanSearch, RequestInv, InPlan
<1>6. FreshHonest' /\ EvidenceAccepted'
    BY FreshKept DEF PlanSearch, RequestInv, EvidenceAccepted
<1> QED BY <1>2, <1>3, <1>4, <1>5, <1>6 DEF RequestInv

\* Storing a candidate: what was decided is what is stored.
LEMMA PutKeeps ==
    ASSUME RequestInv, NEW w \in Workers, PlanPut(w)
    PROVE  RequestInv'
<1> USE DEF ingests, evidence, bounds, files
<1> DEFINE new == [plan |-> arg[w], request |-> request[w], cancelled |-> cancelled[w]]
<1>1. /\ pc[w] = "put" /\ pc'[w] \in {"put", "tally"}
      /\ \A v \in Workers : v # w => pc'[v] = pc[v]
    BY DEF PlanPut, RequestInv, TypeOK
<1>2. new \in Puts /\ stored' \in {stored, new}
    BY DEF PlanPut, RequestInv, TypeOK, Puts
<1>3. TypeOK'
    BY <1>1, <1>2 DEF PlanPut, RequestInv, TypeOK, PcStates, InPlan
<1>4. Handed' /\ (~ overlapped' => OneIngest' /\ OwnFile' /\ LiveWhole')
    BY <1>1, FilesKept DEF PlanPut, Ingesting, Saving
<1>5. Decided'
    BY <1>1, DecidedKept DEF PlanPut, RequestInv
<1>6. Counted'
    BY <1>1, CountKept DEF PlanPut, RequestInv, InPlan
<1>7. EvidenceAccepted'
    <2>1. arg[w].of # NoSnap /\ (arg[w].restored => request[w].accept)
        BY <1>1 DEF RequestInv, Decided, Decides
    <2>2. new.plan = arg[w] /\ new.request = request[w]
        OBVIOUS
    <2> QED BY <1>2, <2>1, <2>2 DEF EvidenceAccepted, RequestInv
<1>8. FreshHonest'
    BY FreshKept DEF PlanPut, RequestInv
<1> QED BY <1>3, <1>4, <1>5, <1>6, <1>7, <1>8 DEF RequestInv

\* The tally: the request is no longer in flight, nor counted.
LEMMA TallyKeeps ==
    ASSUME RequestInv, NEW w \in Workers, PlanTally(w)
    PROVE  RequestInv'
<1> USE DEF ingests, evidence, bounds, files
<1>1. /\ pc[w] = "tally" /\ pc'[w] = "idle"
      /\ \A v \in Workers : v # w => /\ pc'[v] = pc[v] /\ arg'[v] = arg[v]
                                     /\ request'[v] = request[v]
    BY DEF PlanTally, Reply, RequestInv, TypeOK
<1>2. Counted' /\ active' \in Nat
    <2>1. w \in Planning /\ Planning' = Planning \ {w}
        BY <1>1 DEF Planning, InPlan
    <2>2. IsFiniteSet(Planning) /\ active = Cardinality(Planning)
        BY DEF RequestInv, Counted, ActiveExact, Planning
    <2>3. IsFiniteSet(Planning') /\ Cardinality(Planning') = Cardinality(Planning) - 1
        BY <2>1, <2>2, FS_RemoveElement, Zenon
    <2>4. Cardinality(Planning') \in Nat
        BY <2>3, FS_CardinalityType, Zenon
    <2> QED BY <2>2, <2>3, <2>4 DEF Counted, ActiveExact, Planning, PlanTally
<1>3. TypeOK'
    BY <1>1, <1>2, Blanks DEF PlanTally, Reply, RequestInv, TypeOK, PcStates
<1>4. Handed' /\ (~ overlapped' => OneIngest' /\ OwnFile' /\ LiveWhole')
    BY <1>1, FilesKept DEF PlanTally, Ingesting, Saving
<1>5. Decided'
    BY <1>1, DecidedKept DEF RequestInv
<1>6. FreshHonest' /\ EvidenceAccepted'
    BY FreshKept DEF PlanTally, RequestInv, EvidenceAccepted
<1> QED BY <1>2, <1>3, <1>4, <1>5, <1>6 DEF RequestInv

\* A Cancel changes its table and the history of it, and nothing else.
LEMMA CancelKeeps ==
    ASSUME RequestInv, NEW w \in Workers, NEW t, Cancel(w, t)
    PROVE  RequestInv'
<1> USE DEF ingests, evidence, bounds, files
<1>1. DOMAIN cancellations' = DOMAIN cancellations /\ cancelled' \in [Workers -> BOOLEAN]
    BY DEF Cancel, RequestInv, TypeOK
<1>2. TypeOK'
    BY <1>1 DEF Cancel, RequestInv, TypeOK
<1>3. Handed' /\ (~ overlapped' => OneIngest' /\ OwnFile' /\ LiveWhole')
    BY FilesKept DEF Cancel
<1>4. Decided' /\ Counted'
    BY DecidedKept, CountKept DEF Cancel, RequestInv
<1>5. FreshHonest' /\ EvidenceAccepted'
    BY FreshKept DEF Cancel, RequestInv, EvidenceAccepted
<1> QED BY <1>2, <1>3, <1>4, <1>5 DEF RequestInv

\* A kill: memory is lost, and alone no open file is the live one.
LEMMA KillKeeps ==
    ASSUME RequestInv, Kill
    PROVE  RequestInv'
<1>1. \A v \in Workers : pc'[v] = "idle" /\ handle'[v] = NoFile
    BY DEF Kill
<1>2. TypeOK'
    <2>1. /\ content' \in [Inodes -> Contents] /\ pc' \in [Workers -> PcStates]
          /\ arg' \in [Workers -> Evidence] /\ handle' \in [Workers -> Inodes \cup {NoFile}]
          /\ request' \in [Workers -> Requests] /\ cancelled' \in [Workers -> BOOLEAN]
        BY Blanks DEF Kill, RequestInv, TypeOK, Contents, PcStates
    <2>2. crashes' \in 0 .. MaxCrashes /\ active' \in Nat
        BY BoundAssumption DEF Kill, RequestInv, TypeOK
    <2>3. up' \in BOOLEAN /\ snapshot' \in Evidence /\ snapshot_fresh' \in BOOLEAN
        BY Blanks DEF Kill
    <2>4. DOMAIN cancellations' \subseteq Tokens
        BY DEF Kill
    <2> QED BY <2>1, <2>2, <2>3, <2>4 DEF Kill, RequestInv, TypeOK
<1>3. Handed' /\ Decided' /\ OneIngest'
    BY <1>1 DEF Handed, Decided, OneIngest, Ingesting, Saving
<1>4. Counted'
    <2>1. Planning' = {}
        BY <1>1 DEF Planning, InPlan
    <2> QED BY <2>1, FS_EmptySet DEF Counted, ActiveExact, Planning, Kill
<1>5. FreshHonest' /\ EvidenceAccepted'
    BY DEF Kill, FreshHonest, EvidenceAccepted, Null, RequestInv
<1>6. OwnFile'
    BY <1>1 DEF OwnFile, Kill
<1>7. ASSUME ~ overlapped' PROVE LiveWhole'
    <2>1. OwnFile /\ LiveWhole
        BY <1>7 DEF RequestInv, Kill
    <2>2. live # NoFile => \A v \in Workers : handle[v] # live
        BY <2>1 DEF OwnFile
    <2>3. live # NoFile => content'[live] = content[live]
        BY <2>2 DEF Kill, RequestInv, TypeOK
    <2> QED BY <2>1, <2>3 DEF LiveWhole, Kill
<1> QED BY <1>2, <1>3, <1>4, <1>5, <1>6, <1>7 DEF RequestInv

\* A start restores what it can read, marked as restored.
LEMMA RestartKeeps ==
    ASSUME RequestInv, Restart
    PROVE  RequestInv'
<1> USE DEF ingests, evidence, bounds, files, planning
<1>1. snapshot' \in Evidence /\ snapshot_fresh' = FALSE
    BY Blanks DEF Restart, Loads, Evidence
<1>2. TypeOK'
    BY <1>1 DEF Restart, RequestInv, TypeOK
<1>3. Handed' /\ (~ overlapped' => OneIngest' /\ OwnFile' /\ LiveWhole')
    BY FilesKept DEF Restart
<1>4. Decided' /\ Counted'
    BY DecidedKept, CountKept DEF Restart, RequestInv
<1>5. FreshHonest'
    BY <1>1, SnapAssumption DEF Restart, Loads, FreshHonest, Null
<1>6. EvidenceAccepted'
    BY DEF Restart, RequestInv, EvidenceAccepted
<1> QED BY <1>2, <1>3, <1>4, <1>5, <1>6 DEF RequestInv

\* Every step keeps the inductive invariant.
LEMMA NextRequestInv == RequestInv /\ [Next]_vars => RequestInv'
<1> SUFFICES ASSUME RequestInv, [Next]_vars PROVE RequestInv'
    OBVIOUS
<1>1. ASSUME NEW w \in Workers, IngestStep(w) PROVE RequestInv'
    BY <1>1, OpenKeeps, WriteKeeps, WriteFailsKeeps, RenameKeeps, RenameFailsKeeps,
       PublishKeeps DEF IngestStep
<1>2. ASSUME NEW w \in Workers, PlanStep(w) PROVE RequestInv'
    BY <1>2, CaptureKeeps, SearchKeeps, PutKeeps, TallyKeeps, CancelKeeps DEF PlanStep
<1>3. CASE UNCHANGED vars
    <2>1. TypeOK' /\ EvidenceAccepted'
        BY <1>3 DEF vars, RequestInv, TypeOK, EvidenceAccepted
    <2>2. Handed' /\ (~ overlapped' => OneIngest' /\ OwnFile' /\ LiveWhole')
        BY <1>3, FilesKept DEF vars
    <2>3. Decided' /\ Counted' /\ FreshHonest'
        BY <1>3, DecidedKept, CountKept, FreshKept DEF vars, RequestInv
    <2> QED BY <2>1, <2>2, <2>3 DEF RequestInv
<1> QED BY <1>1, <1>2, <1>3, KillKeeps, RestartKeeps DEF Next

-----------------------------------------------------------------------------
\* The inductive invariant holds in every reachable state.
THEOREM RequestInvariance == Spec => []RequestInv
BY InitRequestInv, NextRequestInv, PTL DEF Spec

\* Evidence that Hello reports as fresh is evidence this incarnation acknowledged,
\* and the mark in the snapshot agrees (Service::Start, the Ingest handler).
THEOREM FreshIsHonest == Spec => []FreshHonest
<1>1. RequestInv => FreshHonest
    BY DEF RequestInv
<1> QED BY <1>1, RequestInvariance, PTL

\* No plan in the store rests on evidence that its request did not accept, however
\* ingests, restarts and requests interleave (the Plan handler).
THEOREM OnlyAccepted == Spec => []EvidenceAccepted
<1>1. RequestInv => EvidenceAccepted
    BY DEF RequestInv
<1> QED BY <1>1, RequestInvariance, PTL

\* active_requests counts the plan requests in flight, for any number of workers.
THEOREM ActiveIsExact == Spec => []ActiveExact
<1>1. RequestInv => ActiveExact
    BY DEF RequestInv, Counted
<1> QED BY <1>1, RequestInvariance, PTL

\* Without overlapping ingests the persisted snapshot is whole at every instant,
\* whatever writes fail and whenever the process is killed.
THEOREM PersistsWhole == Spec => []PersistedWhole
<1>1. RequestInv => PersistedWhole
    BY DEF RequestInv, LiveWhole, PersistedWhole
<1> QED BY <1>1, RequestInvariance, PTL

\* Without overlapping ingests an acknowledged snapshot stays on disk until a later
\* Ingest replaces it.
THEOREM KeepsAcknowledged == Spec => []AcknowledgedKept
<1>1. RequestInv => AcknowledgedKept
    BY DEF RequestInv, LiveWhole, AcknowledgedKept
<1> QED BY <1>1, RequestInvariance, PTL
=============================================================================
