---------------------------- MODULE Shelf_proofs ----------------------------
(***************************************************************************)
(* Theorems about what the store promises: how far processes that share a  *)
(* root can overshoot its capacity, and, for one process, that tampering   *)
(* stays evident and that the store implements the shelf.                  *)
(***************************************************************************)
EXTENDS PlanStore_proofs, FiniteSetTheorems

\* The processes that passed the capacity test and have not renamed yet.
Writing == {"create", "write", "sync", "rename"}
Pending == {p \in Procs : pc[p] \in Writing}

\* Digests that are published, or about to be; digests a power loss brings back.
Taken  == Published \cup {arg[p] : p \in Pending}
OnDisk == {d \in Digests : disk[d] # "absent"}

Room == MaxPlans + Cardinality(Procs) - 1

\* The inductive invariant: CapacityBound has to count what was already admitted.
RoomInv == Cardinality(Taken) <= Room /\ Cardinality(OnDisk) <= Room

\* The bounds are numbers, and the sets they bound are finite.
LEMMA Finiteness ==
    ASSUME StoreInv
    PROVE  /\ IsFiniteSet(Taken) /\ IsFiniteSet(OnDisk) /\ IsFiniteSet(Published)
           /\ IsFiniteSet(Pending) /\ Cardinality(Pending) <= Cardinality(Procs)
           /\ Cardinality(Pending) \in Nat /\ Cardinality(Procs) \in Nat
           /\ Cardinality(Taken) \in Nat /\ Cardinality(OnDisk) \in Nat
           /\ Cardinality(Published) \in Nat
<1>1. Taken \subseteq Digests /\ OnDisk \subseteq Digests /\ Published \subseteq Digests
    BY DEF Taken, OnDisk, Published, Pending, Writing, StoreInv, ArgKnown
<1>2. Pending \subseteq Procs
    BY DEF Pending
<1>3. IsFiniteSet(Taken) /\ IsFiniteSet(OnDisk) /\ IsFiniteSet(Published)
    BY <1>1, DigestsAssumption, FS_Subset, Zenon
<1>4. IsFiniteSet(Pending) /\ Cardinality(Pending) <= Cardinality(Procs)
    BY <1>2, ProcsAssumption, FS_Subset, Zenon
<1> QED BY <1>3, <1>4, ProcsAssumption, FS_CardinalityType, Zenon

\* A step after which no digest is taken that was not taken, or on the device,
\* before keeps the invariant.
LEMMA Shrinks ==
    ASSUME StoreInv, RoomInv,
           Taken' \subseteq Taken \/ Taken' \subseteq OnDisk,
           OnDisk' \subseteq Taken \/ OnDisk' \subseteq OnDisk
    PROVE  RoomInv'
<1>1. \A S, T : IsFiniteSet(T) /\ S \subseteq T =>
          Cardinality(S) <= Cardinality(T) /\ Cardinality(S) \in Nat /\ Cardinality(T) \in Nat
    BY FS_Subset, FS_CardinalityType, Zenon
<1>2. \A a, b, r \in Int : a <= b /\ b <= r => a <= r
    OBVIOUS
<1>3. Room \in Int /\ Room' = Room
    BY Finiteness, MaxPlansAssumption DEF Room
<1>4. IsFiniteSet(Taken) /\ IsFiniteSet(OnDisk)
    BY Finiteness
<1>5. \A S : S \subseteq Taken \/ S \subseteq OnDisk => Cardinality(S) <= Room
    <2> SUFFICES ASSUME NEW S, S \subseteq Taken \/ S \subseteq OnDisk
                 PROVE  Cardinality(S) <= Room
        OBVIOUS
    <2>1. CASE S \subseteq Taken
        <3>1. Cardinality(S) <= Cardinality(Taken) /\ Cardinality(S) \in Nat
              /\ Cardinality(Taken) \in Nat
            BY <1>1, <1>4, <2>1, Zenon
        <3> QED BY <3>1, <1>3 DEF RoomInv
    <2>2. CASE S \subseteq OnDisk
        <3>1. Cardinality(S) <= Cardinality(OnDisk) /\ Cardinality(S) \in Nat
              /\ Cardinality(OnDisk) \in Nat
            BY <1>1, <1>4, <2>2, Zenon
        <3> QED BY <3>1, <1>3 DEF RoomInv
    <2> QED BY <2>1, <2>2
<1> QED BY <1>3, <1>5, Zenon DEF RoomInv

\* A step that leaves the directory alone and admits nobody keeps the invariant.
LEMMA Quiet ==
    ASSUME StoreInv, RoomInv, UNCHANGED <<files, disk>>,
           \A q \in Procs : pc'[q] \in Writing => pc[q] \in Writing /\ arg'[q] = arg[q]
    PROVE  RoomInv'
<1>1. Taken' \subseteq Taken
    BY DEF Taken, Pending, Published
<1>2. OnDisk' \subseteq OnDisk
    BY DEF OnDisk
<1> QED BY <1>1, <1>2, Shrinks

\* Init establishes the invariant.
LEMMA InitRoom == Init => RoomInv
<1> SUFFICES ASSUME Init PROVE RoomInv
    OBVIOUS
<1>1. Taken = {} /\ OnDisk = {}
    BY DEF Init, Taken, OnDisk, Pending, Published, Writing
<1>2. Cardinality(Procs) \in Nat /\ Cardinality(Procs) # 0
    BY ProcsAssumption, FS_CardinalityType, FS_EmptySet
<1>3. Cardinality(Taken) = 0 /\ Cardinality(OnDisk) = 0
    BY <1>1, FS_EmptySet
<1> QED BY <1>2, <1>3, MaxPlansAssumption DEF RoomInv, Room

\* The capacity test admits one more process, below the capacity: the others that
\* were admitted are at most all the other processes.
LEMMA ScanKeepsRoom ==
    ASSUME StoreInv, RoomInv, NEW p \in Procs, PutScan(p)
    PROVE  RoomInv'
<1> USE DEF storage, listing
<1>1. CASE Cardinality(Published) >= MaxPlans /\ PutReturns(p, "Exhausted")
    BY <1>1, Quiet DEF PutScan, PutReturns, Return, StoreInv, TypeOK, Writing
<1>2. CASE /\ Cardinality(Published) < MaxPlans
           /\ pc' = [pc EXCEPT ![p] = "create"]
           /\ UNCHANGED <<arg, ret, acked>>
    <2> DEFINE Args == {arg[q] : q \in Pending'}
    <2>1. Taken' = Published \cup Args /\ OnDisk' = OnDisk /\ Room' = Room
        BY <1>2 DEF PutScan, Taken, Published, OnDisk, Room, Pending
    <2>2. Pending' \subseteq Procs
        BY DEF Pending
    <2>3. IsFiniteSet(Pending') /\ Cardinality(Pending') <= Cardinality(Procs)
          /\ Cardinality(Pending') \in Nat
        BY <2>2, ProcsAssumption, FS_Subset, FS_CardinalityType, Zenon
    <2>4. IsFiniteSet(Args) /\ Cardinality(Args) <= Cardinality(Pending')
        <3> DEFINE f == [q \in Pending' |-> arg[q]]
        <3>1. Args = {f[q] : q \in Pending'}
            OBVIOUS
        <3>2. f \in Surjection(Pending', Args)
            BY DEF Surjection
        <3> HIDE DEF f, Args
        <3> QED BY <2>3, <3>2, FS_Surjection
    <2>5. IsFiniteSet(Published) /\ Cardinality(Published) \in Nat /\ Cardinality(Procs) \in Nat
        BY Finiteness
    <2> HIDE DEF Args
    <2>6. /\ IsFiniteSet(Published \cup Args) /\ Cardinality(Args) \in Nat
          /\ Cardinality(Published \cap Args) \in Nat
          /\ Cardinality(Published \cup Args) =
                Cardinality(Published) + Cardinality(Args) - Cardinality(Published \cap Args)
        BY <2>4, <2>5, FS_Union, FS_CardinalityType, FS_Intersection, Zenon
    <2>7. Cardinality(Published \cup Args) <= Room
        BY <1>2, <2>3, <2>4, <2>5, <2>6, MaxPlansAssumption DEF Room
    <2> QED BY <2>1, <2>7 DEF RoomInv
<1> QED BY <1>1, <1>2 DEF PutScan

\* Every step keeps the invariant.
LEMMA NextRoom == StoreInv /\ RoomInv /\ [Next]_vars => RoomInv'
<1> SUFFICES ASSUME StoreInv, RoomInv, [Next]_vars PROVE RoomInv'
    OBVIOUS
<1> USE DEF storage, listing, history
<1>0. pc \in [Procs -> PcStates] /\ arg \in [Procs -> Digests \cup {NoDigest}]
    BY DEF StoreInv, TypeOK
<1>1. ASSUME NEW p \in Procs, CallStep(p) PROVE RoomInv'
    <2>1. CASE Open(p) \/ List(p)
        BY <1>0, <2>1, Quiet DEF Open, List, Call, Return, Writing
    <2>2. ASSUME NEW d \in Digests, PutUnsealed(p, d) \/ PutExisting(p, d) \/ PutNew(p, d)
          PROVE  RoomInv'
        BY <1>0, <2>2, Quiet DEF PutUnsealed, PutExisting, PutNew, Call, CallReturns, Return, Writing
    <2>3. ASSUME NEW d \in Digests, Get(p, d) \/ Remove(p, d)
          PROVE  RoomInv'
        BY <1>0, <2>3, Quiet DEF Get, Remove, Call, CallReturns, Return, Writing
    <2> QED BY <1>1, <2>1, <2>2, <2>3 DEF CallStep
<1>2. ASSUME NEW p \in Procs, PutVerify(p) \/ CreateTemp(p) \/ WriteTemp(p) \/ SyncTemp(p)
      PROVE  RoomInv'
    BY <1>0, <1>2, Quiet DEF PutVerify, CreateTemp, WriteTemp, SyncTemp, Written, PutReturns,
       Return, Writing
<1>3. ASSUME NEW p \in Procs, CreateFails(p) \/ WriteFails(p) \/ RenameFails(p)
      PROVE  RoomInv'
    BY <1>0, <1>3, Quiet DEF CreateFails, WriteFails, RenameFails, PutReturns, Return, Writing
<1>4. ASSUME NEW p \in Procs, ReadStep(p) PROVE RoomInv'
    BY <1>0, <1>4, Quiet DEF ReadStep, GetLoad, ListLoad, ListReturn, Return, Writing
<1>5. ASSUME NEW p \in Procs, Crash(p) PROVE RoomInv'
    BY <1>0, <1>5, Quiet DEF Crash, Writing
<1>6. ASSUME NEW p \in Procs, RenameTemp(p) PROVE RoomInv'
    <2>1. p \in Pending /\ arg[p] \in Digests
        BY <1>6 DEF RenameTemp, Pending, Writing, StoreInv, ArgKnown
    <2>2. Published' \subseteq Published \cup {arg[p]}
        BY <1>6 DEF RenameTemp, Published, StoreInv, TypeOK
    <2>3. \A q \in Pending' : q \in Pending /\ arg'[q] = arg[q]
        BY <1>0, <1>6 DEF RenameTemp, PutReturns, Return, Pending, Writing
    <2>4. Taken' \subseteq Taken
        BY <2>1, <2>2, <2>3 DEF Taken
    <2>5. OnDisk' = OnDisk
        BY <1>6 DEF RenameTemp, OnDisk
    <2> QED BY <2>4, <2>5, Shrinks
<1>7. ASSUME NEW p \in Procs, RemoveUnlink(p) PROVE RoomInv'
    <2>1. Published' \subseteq Published
        BY <1>7 DEF RemoveUnlink, Published, StoreInv, TypeOK
    <2>2. \A q \in Pending' : q \in Pending /\ arg'[q] = arg[q]
        BY <1>0, <1>7 DEF RemoveUnlink, Return, Pending, Writing
    <2>3. Taken' \subseteq Taken
        BY <2>1, <2>2 DEF Taken
    <2>4. OnDisk' = OnDisk
        BY <1>7 DEF RemoveUnlink, OnDisk
    <2> QED BY <2>3, <2>4, Shrinks
<1>8. CASE FlushDirectory
    <2>1. Taken' = Taken /\ OnDisk' = Published
        BY <1>8 DEF FlushDirectory, Taken, Published, Pending, OnDisk
    <2> QED BY <2>1, Shrinks DEF Taken
<1>9. CASE PowerLoss
    <2>1. Pending' = {}
        BY <1>9 DEF PowerLoss, Pending, Writing
    <2>2. \A d \in Digests : disk[d] = "absent" => files'[d] = "absent" /\ disk'[d] = "absent"
        BY <1>9 DEF PowerLoss, Survives
    <2>3. Taken' \subseteq OnDisk /\ OnDisk' \subseteq OnDisk
        BY <2>1, <2>2 DEF Taken, Published, OnDisk
    <2> QED BY <2>3, Shrinks
<1>10. ASSUME NEW d \in Digests, NEW s \in {"damaged", "alien"}, Tamper(d, s) PROVE RoomInv'
    <2>1. Published' = Published /\ OnDisk' = OnDisk
        BY <1>10 DEF Tamper, Published, OnDisk, StoreInv, TypeOK
    <2>2. Taken' = Taken
        BY <1>10, <2>1 DEF Tamper, Taken, Pending
    <2> QED BY <2>1, <2>2, Shrinks
<1>11. CASE UNCHANGED vars
    BY <1>11, Quiet DEF vars
<1> QED
    BY <1>1, <1>2, <1>3, <1>4, <1>5, <1>6, <1>7, <1>8, <1>9, <1>10, <1>11, ScanKeepsRoom
    DEF Next, Step, PutStep, Environment

\* Processes that share a root hold at most max_plans artifacts plus one for each
\* further process, for any capacity, number of processes and faults, also when a
\* power loss brings removed artifacts back (PlanStore::Put).
THEOREM CapacityHolds == Spec => []CapacityBound
<1>1. StoreInv /\ RoomInv => CapacityBound
    <2> SUFFICES ASSUME StoreInv, RoomInv PROVE CapacityBound
        OBVIOUS
    <2>1. Published \subseteq Taken
        BY DEF Taken
    <2>2. Cardinality(Published) <= Cardinality(Taken)
        BY <2>1, Finiteness, FS_Subset, Zenon
    <2>3. Room \in Int
        BY Finiteness, MaxPlansAssumption DEF Room
    <2> QED BY <2>2, <2>3, Finiteness DEF RoomInv, CapacityBound, Room
<1> QED BY <1>1, InitRoom, NextRoom, StoreInvariance, PTL DEF Spec

-----------------------------------------------------------------------------
(* One process.                                                            *)

\* The name a Put is about to take is free, since nobody else could take it ...
NameFree == \A p \in Procs : pc[p] \in Writing \cup {"scan"} => files[arg[p]] = "absent"

\* ... and the room it found when it looked is still there.
RoomLeft == \A p \in Procs : pc[p] \in Writing => Cardinality(Published) < MaxPlans

\* A call in progress has not answered; a process in none is about no digest.
CallOpen ==
    \A p \in Procs : /\ pc[p] # "idle" => ret[p] = "none"
                     /\ pc[p] \in {"idle", "closed", "list"} => arg[p] = NoDigest

\* A power loss does not bring back the artifact that a spoiled file replaced.
SpoiledOnDisk == \A d \in Digests : Spoiled(d) => disk[d] \in {"absent", "damaged", "alien"}

SoleInv == StoreInv /\ NameFree /\ RoomLeft /\ CallOpen /\ SpoiledOnDisk

\* Init establishes the invariant.
LEMMA InitSole == Init => SoleInv
<1> SUFFICES ASSUME Init PROVE SoleInv
    OBVIOUS
<1>1. NameFree /\ RoomLeft /\ CallOpen /\ SpoiledOnDisk
    BY DEF Init, NameFree, RoomLeft, CallOpen, SpoiledOnDisk, Spoiled, Writing
<1> QED BY <1>1, InitStoreInv DEF SoleInv

\* A step that leaves the directory alone keeps what is known of it; the process
\* may only move on, below the capacity, or be done.
LEMMA SoleQuiet ==
    ASSUME SoleInv, StoreInv', CallOpen', UNCHANGED <<files, disk>>,
           \A p \in Procs : /\ pc'[p] \in Writing \cup {"scan"} => files[arg'[p]] = "absent"
                            /\ pc'[p] \in Writing => Cardinality(Published) < MaxPlans
    PROVE  SoleInv'
BY DEF SoleInv, NameFree, RoomLeft, SpoiledOnDisk, Spoiled, Published

\* Every step of a store with one process keeps the invariant.
LEMMA NextSole ==
    ASSUME NEW q, Procs = {q}, SoleInv, [Next]_vars
    PROVE  SoleInv'
<1> USE DEF storage, listing, history
<1>0. /\ StoreInv' /\ q \in Procs
      /\ pc \in [Procs -> PcStates] /\ arg \in [Procs -> Digests \cup {NoDigest}]
      /\ ret \in [Procs -> Codes] /\ files \in [Digests -> FileStates]
    BY NextStoreInv DEF SoleInv, StoreInv, TypeOK
<1>1. ASSUME CallStep(q) PROVE SoleInv'
    <2>1. CASE Open(q) \/ List(q)
        <3>1. CallOpen'
            BY <1>0, <2>1 DEF SoleInv, CallOpen, Open, List, Call, Return
        <3> QED BY <1>0, <2>1, <3>1, SoleQuiet DEF Open, List, Call, Return, Writing
    <2>2. ASSUME NEW d \in Digests, PutUnsealed(q, d) \/ PutExisting(q, d) \/ PutNew(q, d)
          PROVE  SoleInv'
        <3>1. CallOpen'
            BY <1>0, <2>2 DEF SoleInv, CallOpen, PutUnsealed, PutExisting, PutNew, Call,
               CallReturns, Return
        <3> QED BY <1>0, <2>2, <3>1, SoleQuiet DEF PutUnsealed, PutExisting, PutNew, Call,
               CallReturns, Return, Writing
    <2>3. ASSUME NEW d \in Digests, Get(q, d) \/ Remove(q, d)
          PROVE  SoleInv'
        <3>1. CallOpen'
            BY <1>0, <2>3 DEF SoleInv, CallOpen, Get, Remove, Call, CallReturns, Return
        <3> QED BY <1>0, <2>3, <3>1, SoleQuiet DEF Get, Remove, Call, CallReturns, Return, Writing
    <2> QED BY <1>1, <2>1, <2>2, <2>3 DEF CallStep
<1>2. CASE PutVerify(q) \/ PutScan(q) \/ CreateFails(q) \/ WriteFails(q) \/ RenameFails(q)
    <2>1. CallOpen'
        BY <1>0, <1>2 DEF SoleInv, CallOpen, PutVerify, PutScan, CreateFails, WriteFails,
           RenameFails, PutReturns, Return
    <2> QED BY <1>0, <1>2, <2>1, SoleQuiet DEF SoleInv, NameFree, PutVerify, PutScan, CreateFails,
           WriteFails, RenameFails, PutReturns, Return, Writing
<1>3. CASE CreateTemp(q) \/ WriteTemp(q) \/ SyncTemp(q)
    <2>1. CallOpen'
        BY <1>0, <1>3 DEF SoleInv, CallOpen, CreateTemp, WriteTemp, SyncTemp, Written
    <2> QED BY <1>0, <1>3, <2>1, SoleQuiet DEF SoleInv, NameFree, RoomLeft, CreateTemp, WriteTemp,
           SyncTemp, Written, Writing
<1>4. CASE ReadStep(q)
    <2>1. CallOpen'
        BY <1>0, <1>4 DEF SoleInv, CallOpen, ReadStep, GetLoad, ListLoad, ListReturn, Return
    <2> QED BY <1>0, <1>4, <2>1, SoleQuiet DEF ReadStep, GetLoad, ListLoad, ListReturn, Return,
           Writing
<1>5. CASE Crash(q)
    <2>1. CallOpen'
        BY <1>0, <1>5 DEF SoleInv, CallOpen, Crash
    <2> QED BY <1>0, <1>5, <2>1, SoleQuiet DEF Crash, Writing
<1>6. CASE RenameTemp(q)
    <2>1. CallOpen'
        BY <1>0, <1>6 DEF SoleInv, CallOpen, RenameTemp, PutReturns, Return
    <2>2. NameFree' /\ RoomLeft'
        BY <1>0, <1>6 DEF RenameTemp, PutReturns, Return, NameFree, RoomLeft, Writing
    <2>3. arg[q] \in Digests /\ files'[arg[q]] = "intact"
          /\ \A d \in Digests : d # arg[q] => files'[d] = files[d]
        BY <1>0, <1>6 DEF SoleInv, StoreInv, ArgKnown, RenamesSynced, RenameTemp
    <2>4. SpoiledOnDisk'
        BY <1>6, <2>3 DEF SoleInv, SpoiledOnDisk, Spoiled, RenameTemp
    <2> QED BY <1>0, <2>1, <2>2, <2>4 DEF SoleInv
<1>7. CASE RemoveUnlink(q)
    <2>1. CallOpen'
        BY <1>0, <1>7 DEF SoleInv, CallOpen, RemoveUnlink, Return
    <2>2. NameFree' /\ RoomLeft'
        BY <1>0, <1>7 DEF RemoveUnlink, Return, NameFree, RoomLeft, Writing
    <2>3. \A d \in Digests : Spoiled(d)' => Spoiled(d)
        BY <1>0, <1>7 DEF Spoiled, RemoveUnlink
    <2>4. SpoiledOnDisk'
        BY <1>7, <2>3 DEF SoleInv, SpoiledOnDisk, RemoveUnlink
    <2> QED BY <1>0, <2>1, <2>2, <2>4 DEF SoleInv
<1>8. CASE FlushDirectory
    <2>1. SpoiledOnDisk'
        BY <1>8 DEF FlushDirectory, SpoiledOnDisk, Spoiled
    <2> QED BY <1>0, <1>8, <2>1 DEF FlushDirectory, SoleInv, NameFree, RoomLeft, CallOpen, Published
<1>9. CASE PowerLoss
    <2>1. disk' = files'
        BY <1>9 DEF PowerLoss
    <2>2. SpoiledOnDisk'
        BY <2>1 DEF SpoiledOnDisk, Spoiled
    <2> QED BY <1>0, <1>9, <2>2 DEF PowerLoss, SoleInv, NameFree, RoomLeft, CallOpen, Writing
<1>10. ASSUME NEW d \in Digests, NEW s \in {"damaged", "alien"}, Tamper(d, s) PROVE SoleInv'
    <2>1. /\ Published' = Published
          /\ \A e \in Digests : (files'[e] = "absent" <=> files[e] = "absent")
                                 /\ (e # d => files'[e] = files[e])
        BY <1>0, <1>10 DEF Tamper, Published
    <2>2. NameFree'
        BY <1>0, <1>10, <2>1 DEF Tamper, SoleInv, StoreInv, ArgKnown, NameFree, Writing
    <2>3. RoomLeft' /\ CallOpen'
        BY <1>10, <2>1 DEF Tamper, SoleInv, RoomLeft, CallOpen
    <2>4. \A e \in Digests : disk'[e] = disk[e] \/ disk'[e] = s
        BY <1>10 DEF Tamper, SoleInv, StoreInv, TypeOK
    <2>5. disk'[d] \in {"absent", s}
        BY <1>10 DEF Tamper, SoleInv, StoreInv, TypeOK
    <2>6. SpoiledOnDisk'
        BY <2>1, <2>4, <2>5 DEF SoleInv, SpoiledOnDisk, Spoiled
    <2> QED BY <1>0, <2>2, <2>3, <2>6 DEF SoleInv
<1>11. CASE UNCHANGED vars
    BY <1>0, <1>11 DEF vars, SoleInv, NameFree, RoomLeft, CallOpen, SpoiledOnDisk, Spoiled, Published
<1> QED
    BY <1>1, <1>2, <1>3, <1>4, <1>5, <1>6, <1>7, <1>8, <1>9, <1>10, <1>11
    DEF Next, Step, PutStep, Environment

\* The invariant holds in every reachable state of a store with one process.
THEOREM SoleInvariance ==
    ASSUME NEW CONSTANT q, Procs = {q}
    PROVE  Spec => []SoleInv
<1>1. SoleInv /\ [Next]_vars => SoleInv'
    BY NextSole
<1> QED BY <1>1, InitSole, PTL DEF Spec

-----------------------------------------------------------------------------
(* Tampering stays evident.                                                *)

\* What a step may do about a digest whose file is spoiled.
Evident(d) ==
    /\ files'[d] = "absent" \/ Spoiled(d)'
    /\ \A p \in Procs :
         /\ arg[p] = d /\ pc[p] # "remove" => ret'[p] # "Ok"
         /\ d \in entries'[p] => d \in entries[p]

\* No step of a store with one process repairs, overwrites or vouches for a
\* spoiled file.
LEMMA StepEvident ==
    ASSUME NEW q, Procs = {q}, SoleInv, [Next]_vars, NEW d \in Digests, Spoiled(d)
    PROVE  Evident(d)
<1> USE DEF storage, listing, history
<1>0. /\ q \in Procs /\ d # NoDigest /\ files[d] \in {"damaged", "alien"}
      /\ pc \in [Procs -> PcStates] /\ arg \in [Procs -> Digests \cup {NoDigest}]
      /\ ret \in [Procs -> Codes] /\ files \in [Digests -> FileStates]
      /\ entries \in [Procs -> SUBSET Digests]
    BY DigestsAssumption DEF SoleInv, StoreInv, TypeOK, Spoiled
<1>1. /\ pc[q] # "idle" => ret[q] = "none"
      /\ pc[q] \in {"idle", "closed", "list"} => arg[q] # d
      /\ pc[q] \in Writing \cup {"scan"} => arg[q] # d
    BY <1>0 DEF SoleInv, CallOpen, NameFree
<1>2. ASSUME CallStep(q) PROVE Evident(d)
    <2>1. CASE Open(q) \/ List(q)
        BY <1>0, <1>1, <2>1 DEF Evident, Spoiled, Open, List, Call, Return
    <2>2. ASSUME NEW e \in Digests, PutUnsealed(q, e) \/ PutExisting(q, e) \/ PutNew(q, e)
          PROVE  Evident(d)
        BY <1>0, <1>1, <2>2 DEF Evident, Spoiled, PutUnsealed, PutExisting, PutNew, Call,
           CallReturns, Return
    <2>3. ASSUME NEW e \in Digests, Get(q, e) \/ Remove(q, e)
          PROVE  Evident(d)
        BY <1>0, <1>1, <2>3 DEF Evident, Spoiled, Get, Remove, Call, CallReturns, Return
    <2> QED BY <1>2, <2>1, <2>2, <2>3 DEF CallStep
<1>3. CASE PutVerify(q)
    <2>1. arg[q] = d => ret'[q] = "IntegrityFailure"
        BY <1>0, <1>3 DEF PutVerify, PutReturns, Return, Matches
    <2> QED BY <1>0, <1>3, <2>1 DEF Evident, Spoiled, PutVerify
<1>4. CASE PutScan(q) \/ CreateFails(q) \/ WriteFails(q) \/ RenameFails(q)
    BY <1>0, <1>1, <1>4 DEF Evident, Spoiled, PutScan, CreateFails, WriteFails, RenameFails,
       PutReturns, Return, Writing
<1>5. CASE CreateTemp(q) \/ WriteTemp(q) \/ SyncTemp(q)
    BY <1>0, <1>1, <1>5 DEF Evident, Spoiled, CreateTemp, WriteTemp, SyncTemp, Written, Writing
<1>6. CASE RenameTemp(q)
    BY <1>0, <1>1, <1>6 DEF Evident, Spoiled, RenameTemp, Writing
<1>7. LoadCode(files[d]) # "Ok"
    BY <1>0 DEF LoadCode, Undecodable, Matches
<1>8. CASE GetLoad(q)
    BY <1>0, <1>7, <1>8 DEF Evident, Spoiled, GetLoad, Return
<1>9. CASE ListReturn(q) \/ \E e \in Digests : ListLoad(q, e)
    BY <1>0, <1>1, <1>7, <1>9 DEF ListLoad, Evident, Spoiled, ListReturn
<1>10. CASE RemoveUnlink(q)
    BY <1>0, <1>10 DEF Evident, Spoiled, RemoveUnlink
<1>11. CASE Crash(q)
    BY <1>0, <1>11 DEF Evident, Spoiled, Crash
<1>12. CASE FlushDirectory
    BY <1>0, <1>1, <1>12 DEF Evident, Spoiled, FlushDirectory
<1>13. CASE PowerLoss
    <2>1. disk[d] \in {"absent", "damaged", "alien"}
        BY DEF SoleInv, SpoiledOnDisk
    <2>2. files'[d] = disk[d]
        BY <1>13, <2>1 DEF PowerLoss, Survives
    <2> QED BY <1>13, <2>1, <2>2 DEF Evident, Spoiled, PowerLoss
<1>14. ASSUME NEW e \in Digests, NEW s \in {"damaged", "alien"}, Tamper(e, s) PROVE Evident(d)
    BY <1>0, <1>1, <1>14 DEF Evident, Spoiled, Tamper
<1>15. CASE UNCHANGED vars
    BY <1>0, <1>1, <1>15 DEF Evident, Spoiled, vars
<1> QED
    BY <1>2, <1>3, <1>4, <1>5, <1>6, <1>7, <1>8, <1>9, <1>10, <1>11, <1>12, <1>13, <1>14, <1>15
    DEF Next, Step, PutStep, ReadStep, Environment

\* In a store that one process uses, a spoiled file is never repaired, overwritten
\* or vouched for by Put, Get or List, for any number of digests and faults.
THEOREM TamperStays ==
    ASSUME NEW CONSTANT q, Procs = {q}
    PROVE  Spec => TamperEvident
<1>1. SoleInv /\ [Next]_vars =>
          [\A d \in Digests : Spoiled(d) =>
             /\ files'[d] = "absent" \/ Spoiled(d)'
             /\ \A p \in Procs :
                  /\ arg[p] = d /\ pc[p] # "remove" => ret'[p] # "Ok"
                  /\ d \in entries'[p] => d \in entries[p]]_vars
    BY StepEvident DEF Evident
<1> QED BY <1>1, SoleInvariance, PTL DEF Spec, TamperEvident

-----------------------------------------------------------------------------
(* The store implements the shelf.                                         *)

\* Where the directories hold whole files, the shelf shows what they hold.
LEMMA ShelfShows ==
    ASSUME NEW dir, WholeFiles(dir)
    PROVE  \A d \in Digests :
             OnShelf(dir)[d] = CASE dir[d] = "absent" -> "empty"
                                 [] dir[d] = "intact" -> "held"
                                 [] OTHER             -> "spoiled"
BY DEF OnShelf, WholeFiles, Matches

\* A step that leaves the directories alone leaves the shelf alone.
LEMMA ShelfStutters ==
    ASSUME UNCHANGED <<files, disk>>
    PROVE  UNCHANGED Promise!shelfVars
BY DEF Promise!shelfVars, OnShelf

\* Every step of a store with one process is a step of the shelf, or none.
LEMMA StepShelf ==
    ASSUME NEW q, Procs = {q}, SoleInv, [Next]_vars
    PROVE  [Promise!ShelfNext]_(Promise!shelfVars)
<1> USE DEF storage, listing, history
<1>0. /\ q \in Procs /\ StoreInv /\ WholeFiles(files) /\ WholeFiles(disk)
      /\ files \in [Digests -> FileStates] /\ disk \in [Digests -> FileStates]
    BY DEF SoleInv, StoreInv, TypeOK
<1>1. StoreInv' /\ WholeFiles(files') /\ WholeFiles(disk')
    BY <1>0, NextStoreInv DEF StoreInv, WholeFiles
<1>2. ASSUME CallStep(q) PROVE UNCHANGED <<files, disk>>
    BY <1>2 DEF CallStep, Open, List, PutUnsealed, PutExisting, PutNew, Get, Remove
<1>3. ASSUME PutStep(q), ~ RenameTemp(q) PROVE UNCHANGED <<files, disk>>
    BY <1>3 DEF PutStep, PutVerify, PutScan, CreateTemp, WriteTemp, SyncTemp, Written, CreateFails,
       WriteFails, RenameFails
<1>4. ASSUME ReadStep(q) \/ Crash(q) \/ UNCHANGED vars PROVE UNCHANGED <<files, disk>>
    BY <1>4 DEF ReadStep, GetLoad, ListLoad, ListReturn, Crash, vars
<1>5. ASSUME RenameTemp(q) PROVE Promise!Place(arg[q])
    <2>1. /\ arg[q] \in Digests /\ files[arg[q]] = "absent" /\ Cardinality(Published) < MaxPlans
          /\ files' = [files EXCEPT ![arg[q]] = "intact"] /\ disk' = disk
        BY <1>0, <1>5 DEF RenameTemp, SoleInv, StoreInv, ArgKnown, RenamesSynced, NameFree,
           RoomLeft, Writing
    <2>2. Promise!Filled(OnShelf(files)) = Published
        BY <1>0, ShelfShows DEF Promise!Filled, Published
    <2>3. OnShelf(files)[arg[q]] = "empty"
        BY <1>0, <2>1, ShelfShows
    <2>4. OnShelf(files') = [OnShelf(files) EXCEPT ![arg[q]] = "held"]
        BY <1>0, <2>1 DEF OnShelf, Matches
    <2>5. OnShelf(disk') = OnShelf(disk)
        BY <2>1
    <2>6. Promise!Cardinality(Promise!Filled(OnShelf(files))) < MaxPlans
        BY <2>1, <2>2 DEF Promise!Cardinality, Cardinality
    <2> QED BY <2>3, <2>4, <2>5, <2>6 DEF Promise!Place
<1>6. ASSUME RemoveUnlink(q)
      PROVE  UNCHANGED Promise!shelfVars \/ (Promise!Withdraw(arg[q]) /\ arg[q] \in Digests)
    <2>1. arg[q] \in Digests /\ files' = [files EXCEPT ![arg[q]] = "absent"] /\ disk' = disk
        BY <1>0, <1>6 DEF RemoveUnlink, StoreInv, ArgKnown
    <2>2. CASE files[arg[q]] = "absent"
        <3>1. files' = files
            BY <1>0, <2>1, <2>2
        <3> QED BY <2>1, <3>1, ShelfStutters
    <2>3. CASE files[arg[q]] # "absent"
        <3>1. OnShelf(files)[arg[q]] # "empty"
            BY <1>0, <2>1, <2>3, ShelfShows
        <3>2. OnShelf(files') = [OnShelf(files) EXCEPT ![arg[q]] = "empty"]
            BY <1>0, <2>1 DEF OnShelf, Matches
        <3> QED BY <2>1, <3>1, <3>2 DEF Promise!Withdraw, OnShelf
    <2> QED BY <2>2, <2>3
<1>7. ASSUME FlushDirectory PROVE Promise!Save
    BY <1>7 DEF FlushDirectory, Promise!Save, OnShelf
<1>8. ASSUME PowerLoss PROVE Promise!Revert
    <2>1. files' = disk /\ disk' = disk
        BY <1>0, <1>8 DEF PowerLoss, Survives, WholeFiles
    <2> QED BY <2>1 DEF Promise!Revert, OnShelf
<1>9. ASSUME NEW d \in Digests, NEW s \in {"damaged", "alien"}, Tamper(d, s)
      PROVE  Promise!Spoil(d)
    <2>1. /\ files[d] # "absent" /\ files' = [files EXCEPT ![d] = s]
          /\ disk' = [disk EXCEPT ![d] = IF disk[d] = "absent" THEN "absent" ELSE s]
        BY <1>0, <1>9 DEF Tamper
    <2>2. OnShelf(files)[d] # "empty"
        BY <1>0, <2>1, ShelfShows
    <2>3. OnShelf(files') = [OnShelf(files) EXCEPT ![d] = "spoiled"]
        BY <1>0, <2>1 DEF OnShelf, Matches
    <2>4. OnShelf(disk') = [OnShelf(disk) EXCEPT ![d] = IF @ = "empty" THEN @ ELSE "spoiled"]
        BY <1>0, <2>1, ShelfShows DEF OnShelf, Matches
    <2> QED BY <2>2, <2>3, <2>4 DEF Promise!Spoil, OnShelf
<1>10. CASE UNCHANGED <<files, disk>>
    BY <1>10, ShelfStutters
<1>11. CASE RenameTemp(q)
    <2>1. arg[q] \in Digests
        BY <1>0, <1>11 DEF RenameTemp, StoreInv, ArgKnown
    <2> QED BY <1>5, <1>11, <2>1 DEF Promise!ShelfNext
<1>12. CASE RemoveUnlink(q) \/ FlushDirectory \/ PowerLoss
    BY <1>6, <1>7, <1>8, <1>12 DEF Promise!ShelfNext
<1>13. ASSUME NEW d \in Digests, NEW s \in {"damaged", "alien"}, Tamper(d, s)
       PROVE  Promise!ShelfNext
    BY <1>9, <1>13 DEF Promise!ShelfNext
<1> QED
    BY <1>2, <1>3, <1>4, <1>10, <1>11, <1>12, <1>13 DEF Next, Step, Environment

\* Used by one process, the store implements the bounded shelf, for any capacity,
\* any set of digests and any number of faults: whatever system call is interrupted,
\* an artifact appears in one step, where there was none and while there is room.
THEOREM RefinesShelf ==
    ASSUME NEW CONSTANT q, Procs = {q}
    PROVE  Spec => ImplementsShelf
<1>1. Init => Promise!ShelfInit
    BY DEF Init, Promise!ShelfInit, OnShelf, Matches
<1>2. SoleInv /\ [Next]_vars => [Promise!ShelfNext]_(Promise!shelfVars)
    BY StepShelf
<1> QED BY <1>1, <1>2, SoleInvariance, PTL DEF Spec, ImplementsShelf, Promise!ShelfSpec
=============================================================================
