-------------------------- MODULE PlanStore_proofs --------------------------
(***************************************************************************)
(* Theorems about PlanStore for any number of processes and digests, any   *)
(* capacity and any number of faults.                                      *)
(***************************************************************************)
EXTENDS PlanStore, TLAPS

\* A published name holds nothing or all the bytes, on the device.
WholeFiles(dir) == \A d \in Digests : dir[d] \in {"absent", "intact", "damaged", "alien"}

\* The digest of a call in progress is known to be one of Digests ...
ArgKnown ==
    \A p \in Procs : pc[p] \in {"verify", "scan", "create", "write", "sync",
                                "rename", "load", "remove"} => arg[p] \in Digests

\* ... and the temporary a process is about to rename is its own, complete and
\* on the device: no other process writes it and no open removes it.
RenamesSynced == \A p \in Procs : pc[p] = "rename" => temps[arg[p]][p] = "intact"

\* The inductive invariant: NoTornArtifact needs the state of the temporaries,
\* which the published names take over at the rename.
StoreInv ==
    /\ TypeOK
    /\ ArgKnown
    /\ RenamesSynced
    /\ WholeFiles(files)
    /\ WholeFiles(disk)
    /\ AckedPublished

\* A fault keeps the fault counter a natural number.
LEMMA FaultCounted == ASSUME faults \in Nat, Fault PROVE faults' \in Nat
  BY DEF Fault

\* An empty store root, with or without an old temporary, satisfies the invariant.
LEMMA InitStoreInv == Init => StoreInv
<1> SUFFICES ASSUME Init PROVE StoreInv
  OBVIOUS
<1>1. temps \in [Digests -> [Owners -> TempStates]]
  BY DEF Init, TempStates
<1>2. TypeOK
  BY <1>1 DEF Init, TypeOK, FileStates, TempStates, PcStates, Codes
<1>3. ArgKnown /\ RenamesSynced /\ WholeFiles(files) /\ WholeFiles(disk) /\ AckedPublished
  BY DEF Init, ArgKnown, RenamesSynced, WholeFiles, AckedPublished
<1> QED
  BY <1>2, <1>3 DEF StoreInv

\* Every system call of PlanStore and WriteFileAtomic, and every fault, keeps it.
LEMMA NextStoreInv == StoreInv /\ [Next]_vars => StoreInv'
<1> SUFFICES ASSUME StoreInv, [Next]_vars PROVE StoreInv'
  OBVIOUS
<1> USE DEF storage, history, listing
<1>1. ASSUME NEW p \in Procs, Open(p) PROVE StoreInv'
  <2>1. TypeOK'
    BY <1>1 DEF StoreInv, TypeOK, ArgKnown, TempStates, FileStates, PcStates, Codes, Owners, Open, CleanTemporaries, CleanedOwners, Return
  <2>2. ArgKnown'
    BY <1>1 DEF StoreInv, TypeOK, ArgKnown, Open, CleanTemporaries, CleanedOwners, Return
  <2>3. RenamesSynced'
    BY <1>1, ProcsAssumption DEF StoreInv, TypeOK, ArgKnown, RenamesSynced, Owners, Open, CleanTemporaries, CleanedOwners, Return
  <2>4. WholeFiles(files)' /\ WholeFiles(disk)'
    BY <1>1 DEF StoreInv, TypeOK, ArgKnown, RenamesSynced, WholeFiles, Open, CleanTemporaries, CleanedOwners, Return
  <2>5. AckedPublished'
    BY <1>1 DEF StoreInv, TypeOK, ArgKnown, RenamesSynced, AckedPublished, Published, Open, CleanTemporaries, CleanedOwners, Return
  <2> QED
    BY <2>1, <2>2, <2>3, <2>4, <2>5 DEF StoreInv
<1>2. ASSUME NEW p \in Procs, List(p) PROVE StoreInv'
  <2>1. TypeOK'
    BY <1>2 DEF StoreInv, TypeOK, PcStates, Codes, Published, List, Call
  <2>2. ArgKnown'
    BY <1>2 DEF StoreInv, TypeOK, ArgKnown, List, Call
  <2>3. RenamesSynced'
    BY <1>2, ProcsAssumption DEF StoreInv, TypeOK, ArgKnown, RenamesSynced, Owners, List, Call
  <2>4. WholeFiles(files)' /\ WholeFiles(disk)'
    BY <1>2 DEF StoreInv, TypeOK, ArgKnown, RenamesSynced, WholeFiles, List, Call
  <2>5. AckedPublished'
    BY <1>2 DEF StoreInv, TypeOK, ArgKnown, RenamesSynced, AckedPublished, Published, List, Call
  <2> QED
    BY <2>1, <2>2, <2>3, <2>4, <2>5 DEF StoreInv
<1>3. ASSUME NEW p \in Procs, NEW d \in Digests, PutUnsealed(p, d) PROVE StoreInv'
  <2>1. TypeOK'
    BY <1>3 DEF StoreInv, TypeOK, PcStates, Codes, PutUnsealed, CallReturns, Return
  <2>2. ArgKnown'
    BY <1>3 DEF StoreInv, TypeOK, ArgKnown, PutUnsealed, CallReturns, Return
  <2>3. RenamesSynced'
    BY <1>3, ProcsAssumption DEF StoreInv, TypeOK, ArgKnown, RenamesSynced, Owners, PutUnsealed, CallReturns, Return
  <2>4. WholeFiles(files)' /\ WholeFiles(disk)'
    BY <1>3 DEF StoreInv, TypeOK, ArgKnown, RenamesSynced, WholeFiles, PutUnsealed, CallReturns, Return
  <2>5. AckedPublished'
    BY <1>3 DEF StoreInv, TypeOK, ArgKnown, RenamesSynced, AckedPublished, Published, PutUnsealed, CallReturns, Return
  <2> QED
    BY <2>1, <2>2, <2>3, <2>4, <2>5 DEF StoreInv
<1>4. ASSUME NEW p \in Procs, NEW d \in Digests, PutExisting(p, d) PROVE StoreInv'
  <2>1. TypeOK'
    BY <1>4 DEF StoreInv, TypeOK, PcStates, Codes, PutExisting, Call, CallReturns, Return
  <2>2. ArgKnown'
    BY <1>4 DEF StoreInv, TypeOK, ArgKnown, PutExisting, Call, CallReturns, Return
  <2>3. RenamesSynced'
    BY <1>4, ProcsAssumption DEF StoreInv, TypeOK, ArgKnown, RenamesSynced, Owners, PutExisting, Call, CallReturns, Return
  <2>4. WholeFiles(files)' /\ WholeFiles(disk)'
    BY <1>4 DEF StoreInv, TypeOK, ArgKnown, RenamesSynced, WholeFiles, PutExisting, Call, CallReturns, Return
  <2>5. AckedPublished'
    BY <1>4 DEF StoreInv, TypeOK, ArgKnown, RenamesSynced, AckedPublished, Published, PutExisting, Call, CallReturns, Return
  <2> QED
    BY <2>1, <2>2, <2>3, <2>4, <2>5 DEF StoreInv
<1>5. ASSUME NEW p \in Procs, NEW d \in Digests, PutNew(p, d) PROVE StoreInv'
  <2>1. TypeOK'
    BY <1>5 DEF StoreInv, TypeOK, PcStates, Codes, PutNew, Call
  <2>2. ArgKnown'
    BY <1>5 DEF StoreInv, TypeOK, ArgKnown, PutNew, Call
  <2>3. RenamesSynced'
    BY <1>5, ProcsAssumption DEF StoreInv, TypeOK, ArgKnown, RenamesSynced, Owners, PutNew, Call
  <2>4. WholeFiles(files)' /\ WholeFiles(disk)'
    BY <1>5 DEF StoreInv, TypeOK, ArgKnown, RenamesSynced, WholeFiles, PutNew, Call
  <2>5. AckedPublished'
    BY <1>5 DEF StoreInv, TypeOK, ArgKnown, RenamesSynced, AckedPublished, Published, PutNew, Call
  <2> QED
    BY <2>1, <2>2, <2>3, <2>4, <2>5 DEF StoreInv
<1>6. ASSUME NEW p \in Procs, NEW d \in Digests, Get(p, d) PROVE StoreInv'
  <2>1. TypeOK'
    BY <1>6 DEF StoreInv, TypeOK, PcStates, Codes, Get, Call, CallReturns, Return
  <2>2. ArgKnown'
    BY <1>6 DEF StoreInv, TypeOK, ArgKnown, Get, Call, CallReturns, Return
  <2>3. RenamesSynced'
    BY <1>6, ProcsAssumption DEF StoreInv, TypeOK, ArgKnown, RenamesSynced, Owners, Get, Call, CallReturns, Return
  <2>4. WholeFiles(files)' /\ WholeFiles(disk)'
    BY <1>6 DEF StoreInv, TypeOK, ArgKnown, RenamesSynced, WholeFiles, Get, Call, CallReturns, Return
  <2>5. AckedPublished'
    BY <1>6 DEF StoreInv, TypeOK, ArgKnown, RenamesSynced, AckedPublished, Published, Get, Call, CallReturns, Return
  <2> QED
    BY <2>1, <2>2, <2>3, <2>4, <2>5 DEF StoreInv
<1>7. ASSUME NEW p \in Procs, NEW d \in Digests, Remove(p, d) PROVE StoreInv'
  <2>1. TypeOK'
    BY <1>7 DEF StoreInv, TypeOK, PcStates, Codes, Remove, Call, CallReturns, Return
  <2>2. ArgKnown'
    BY <1>7 DEF StoreInv, TypeOK, ArgKnown, PcStates, Remove, Call, CallReturns, Return
  <2>3. RenamesSynced'
    BY <1>7, ProcsAssumption DEF StoreInv, TypeOK, ArgKnown, RenamesSynced, Owners, Remove, Call, CallReturns, Return
  <2>4. WholeFiles(files)' /\ WholeFiles(disk)'
    BY <1>7 DEF StoreInv, TypeOK, ArgKnown, RenamesSynced, WholeFiles, Remove, Call, CallReturns, Return
  <2>5. AckedPublished'
    BY <1>7 DEF StoreInv, TypeOK, ArgKnown, RenamesSynced, AckedPublished, Published, Remove, Call, CallReturns, Return
  <2> QED
    BY <2>1, <2>2, <2>3, <2>4, <2>5 DEF StoreInv
<1>8. ASSUME NEW p \in Procs, PutVerify(p) PROVE StoreInv'
  <2>1. TypeOK'
    BY <1>8 DEF StoreInv, TypeOK, ArgKnown, PcStates, Codes, PutVerify, PutReturns, Return, Matches
  <2>2. ArgKnown'
    BY <1>8 DEF StoreInv, TypeOK, ArgKnown, PutVerify, PutReturns, Return, Matches
  <2>3. RenamesSynced'
    BY <1>8, ProcsAssumption DEF StoreInv, TypeOK, ArgKnown, RenamesSynced, Owners, PutVerify, PutReturns, Return, Matches
  <2>4. WholeFiles(files)' /\ WholeFiles(disk)'
    BY <1>8 DEF StoreInv, TypeOK, ArgKnown, RenamesSynced, WholeFiles, PutVerify, PutReturns, Return, Matches
  <2>5. AckedPublished'
    BY <1>8 DEF StoreInv, TypeOK, ArgKnown, RenamesSynced, AckedPublished, Published, PutVerify, PutReturns, Return, Matches
  <2> QED
    BY <2>1, <2>2, <2>3, <2>4, <2>5 DEF StoreInv
<1>9. ASSUME NEW p \in Procs, PutScan(p) PROVE StoreInv'
  <2>1. TypeOK'
    BY <1>9 DEF StoreInv, TypeOK, ArgKnown, PcStates, Codes, PutScan, PutReturns, Return
  <2>2. ArgKnown'
    BY <1>9 DEF StoreInv, TypeOK, ArgKnown, PutScan, PutReturns, Return
  <2>3. RenamesSynced'
    BY <1>9, ProcsAssumption DEF StoreInv, TypeOK, ArgKnown, RenamesSynced, Owners, PutScan, PutReturns, Return
  <2>4. WholeFiles(files)' /\ WholeFiles(disk)'
    BY <1>9 DEF StoreInv, TypeOK, ArgKnown, RenamesSynced, WholeFiles, PutScan, PutReturns, Return
  <2>5. AckedPublished'
    BY <1>9 DEF StoreInv, TypeOK, ArgKnown, RenamesSynced, AckedPublished, Published, PutScan, PutReturns, Return
  <2> QED
    BY <2>1, <2>2, <2>3, <2>4, <2>5 DEF StoreInv
<1>10. ASSUME NEW p \in Procs, CreateTemp(p) PROVE StoreInv'
  <2>1. TypeOK'
    BY <1>10 DEF StoreInv, TypeOK, ArgKnown, TempStates, FileStates, PcStates, Codes, Owners, CreateTemp, Written, SetTemp
  <2>2. ArgKnown'
    BY <1>10 DEF StoreInv, TypeOK, ArgKnown, CreateTemp, Written, SetTemp
  <2>3. RenamesSynced'
    BY <1>10, ProcsAssumption DEF StoreInv, TypeOK, ArgKnown, RenamesSynced, Owners, CreateTemp, Written, SetTemp
  <2>4. WholeFiles(files)' /\ WholeFiles(disk)'
    BY <1>10 DEF StoreInv, TypeOK, ArgKnown, RenamesSynced, WholeFiles, CreateTemp, Written, SetTemp
  <2>5. AckedPublished'
    BY <1>10 DEF StoreInv, TypeOK, ArgKnown, RenamesSynced, AckedPublished, Published, CreateTemp, Written, SetTemp
  <2> QED
    BY <2>1, <2>2, <2>3, <2>4, <2>5 DEF StoreInv
<1>11. ASSUME NEW p \in Procs, WriteTemp(p) PROVE StoreInv'
  <2>1. TypeOK'
    BY <1>11 DEF StoreInv, TypeOK, ArgKnown, TempStates, FileStates, PcStates, Codes, Owners, WriteTemp, Written, SetTemp
  <2>2. ArgKnown'
    BY <1>11 DEF StoreInv, TypeOK, ArgKnown, WriteTemp, Written, SetTemp
  <2>3. RenamesSynced'
    BY <1>11, ProcsAssumption DEF StoreInv, TypeOK, ArgKnown, RenamesSynced, Owners, WriteTemp, Written, SetTemp
  <2>4. WholeFiles(files)' /\ WholeFiles(disk)'
    BY <1>11 DEF StoreInv, TypeOK, ArgKnown, RenamesSynced, WholeFiles, WriteTemp, Written, SetTemp
  <2>5. AckedPublished'
    BY <1>11 DEF StoreInv, TypeOK, ArgKnown, RenamesSynced, AckedPublished, Published, WriteTemp, Written, SetTemp
  <2> QED
    BY <2>1, <2>2, <2>3, <2>4, <2>5 DEF StoreInv
<1>12. ASSUME NEW p \in Procs, SyncTemp(p) PROVE StoreInv'
  <2>1. TypeOK'
    BY <1>12 DEF StoreInv, TypeOK, ArgKnown, TempStates, FileStates, PcStates, Codes, Owners, SyncTemp, Written, SetTemp
  <2>2. ArgKnown'
    BY <1>12 DEF StoreInv, TypeOK, ArgKnown, SyncTemp, Written, SetTemp
  <2>3. RenamesSynced'
    BY <1>12, ProcsAssumption DEF StoreInv, TypeOK, ArgKnown, RenamesSynced, Owners, SyncTemp, Written, SetTemp
  <2>4. WholeFiles(files)' /\ WholeFiles(disk)'
    BY <1>12 DEF StoreInv, TypeOK, ArgKnown, RenamesSynced, WholeFiles, SyncTemp, Written, SetTemp
  <2>5. AckedPublished'
    BY <1>12 DEF StoreInv, TypeOK, ArgKnown, RenamesSynced, AckedPublished, Published, SyncTemp, Written, SetTemp
  <2> QED
    BY <2>1, <2>2, <2>3, <2>4, <2>5 DEF StoreInv
<1>13. ASSUME NEW p \in Procs, RenameTemp(p) PROVE StoreInv'
  <2>1. TypeOK'
    BY <1>13 DEF StoreInv, TypeOK, ArgKnown, TempStates, FileStates, PcStates, Codes, Owners, RenameTemp, SetTemp, PutReturns, Return
  <2>2. ArgKnown'
    BY <1>13 DEF StoreInv, TypeOK, ArgKnown, RenameTemp, SetTemp, PutReturns, Return
  <2>3. RenamesSynced'
    BY <1>13, ProcsAssumption DEF StoreInv, TypeOK, ArgKnown, RenamesSynced, Owners, RenameTemp, SetTemp, PutReturns, Return
  <2>4. WholeFiles(files)' /\ WholeFiles(disk)'
    BY <1>13 DEF StoreInv, TypeOK, ArgKnown, RenamesSynced, WholeFiles, RenameTemp, SetTemp, PutReturns, Return
  <2>5. AckedPublished'
    BY <1>13 DEF StoreInv, TypeOK, ArgKnown, RenamesSynced, AckedPublished, Published, RenameTemp, SetTemp, PutReturns, Return
  <2> QED
    BY <2>1, <2>2, <2>3, <2>4, <2>5 DEF StoreInv
<1>14. ASSUME NEW p \in Procs, CreateFails(p) PROVE StoreInv'
  <2>1. TypeOK'
    BY <1>14 DEF StoreInv, TypeOK, ArgKnown, PcStates, Codes, CreateFails, PutReturns, Return
  <2>2. ArgKnown'
    BY <1>14 DEF StoreInv, TypeOK, ArgKnown, CreateFails, PutReturns, Return
  <2>3. RenamesSynced'
    BY <1>14, ProcsAssumption DEF StoreInv, TypeOK, ArgKnown, RenamesSynced, Owners, CreateFails, PutReturns, Return
  <2>4. WholeFiles(files)' /\ WholeFiles(disk)'
    BY <1>14 DEF StoreInv, TypeOK, ArgKnown, RenamesSynced, WholeFiles, CreateFails, PutReturns, Return
  <2>5. AckedPublished'
    BY <1>14 DEF StoreInv, TypeOK, ArgKnown, RenamesSynced, AckedPublished, Published, CreateFails, PutReturns, Return
  <2> QED
    BY <2>1, <2>2, <2>3, <2>4, <2>5 DEF StoreInv
<1>15. ASSUME NEW p \in Procs, WriteFails(p) PROVE StoreInv'
  <2>1. TypeOK'
    BY <1>15 DEF StoreInv, TypeOK, ArgKnown, TempStates, FileStates, PcStates, Codes, Owners, WriteFails, SetTemp, PutReturns, Return
  <2>2. ArgKnown'
    BY <1>15 DEF StoreInv, TypeOK, ArgKnown, WriteFails, SetTemp, PutReturns, Return
  <2>3. RenamesSynced'
    BY <1>15, ProcsAssumption DEF StoreInv, TypeOK, ArgKnown, RenamesSynced, Owners, WriteFails, SetTemp, PutReturns, Return
  <2>4. WholeFiles(files)' /\ WholeFiles(disk)'
    BY <1>15 DEF StoreInv, TypeOK, ArgKnown, RenamesSynced, WholeFiles, WriteFails, SetTemp, PutReturns, Return
  <2>5. AckedPublished'
    BY <1>15 DEF StoreInv, TypeOK, ArgKnown, RenamesSynced, AckedPublished, Published, WriteFails, SetTemp, PutReturns, Return
  <2> QED
    BY <2>1, <2>2, <2>3, <2>4, <2>5 DEF StoreInv
<1>16. ASSUME NEW p \in Procs, RenameFails(p) PROVE StoreInv'
  <2>1. TypeOK'
    BY <1>16, FaultCounted DEF StoreInv, TypeOK, ArgKnown, PcStates, Codes, RenameFails, PutReturns, Return
  <2>2. ArgKnown'
    BY <1>16 DEF StoreInv, TypeOK, ArgKnown, RenameFails, Fault, PutReturns, Return
  <2>3. RenamesSynced'
    BY <1>16, ProcsAssumption DEF StoreInv, TypeOK, ArgKnown, RenamesSynced, Owners, RenameFails, PutReturns, Return
  <2>4. WholeFiles(files)' /\ WholeFiles(disk)'
    BY <1>16 DEF StoreInv, TypeOK, ArgKnown, RenamesSynced, WholeFiles, RenameFails, Fault, PutReturns, Return
  <2>5. AckedPublished'
    BY <1>16 DEF StoreInv, TypeOK, ArgKnown, RenamesSynced, AckedPublished, Published, RenameFails, Fault, PutReturns, Return
  <2> QED
    BY <2>1, <2>2, <2>3, <2>4, <2>5 DEF StoreInv
<1>17. ASSUME NEW p \in Procs, GetLoad(p) PROVE StoreInv'
  <2>1. TypeOK'
    BY <1>17 DEF StoreInv, TypeOK, ArgKnown, TempStates, FileStates, PcStates, Codes, GetLoad, Return, LoadCode, Undecodable, Matches
  <2>2. ArgKnown'
    BY <1>17 DEF StoreInv, TypeOK, ArgKnown, GetLoad, Return, LoadCode, Undecodable, Matches
  <2>3. RenamesSynced'
    BY <1>17, ProcsAssumption DEF StoreInv, TypeOK, ArgKnown, RenamesSynced, Owners, GetLoad, Return, LoadCode, Undecodable, Matches
  <2>4. WholeFiles(files)' /\ WholeFiles(disk)'
    BY <1>17 DEF StoreInv, TypeOK, ArgKnown, RenamesSynced, WholeFiles, GetLoad, Return, LoadCode, Undecodable, Matches
  <2>5. AckedPublished'
    BY <1>17 DEF StoreInv, TypeOK, ArgKnown, RenamesSynced, AckedPublished, Published, GetLoad
  <2> QED
    BY <2>1, <2>2, <2>3, <2>4, <2>5 DEF StoreInv
<1>18. ASSUME NEW p \in Procs, NEW d \in Digests, ListLoad(p, d) PROVE StoreInv'
  <2>1. TypeOK'
    BY <1>18 DEF StoreInv, TypeOK, ArgKnown, PcStates, Codes, ListLoad
  <2>2. ArgKnown'
    BY <1>18 DEF StoreInv, TypeOK, ArgKnown, ListLoad
  <2>3. RenamesSynced'
    BY <1>18, ProcsAssumption DEF StoreInv, TypeOK, ArgKnown, RenamesSynced, Owners, ListLoad
  <2>4. WholeFiles(files)' /\ WholeFiles(disk)'
    BY <1>18 DEF StoreInv, TypeOK, ArgKnown, RenamesSynced, WholeFiles, ListLoad
  <2>5. AckedPublished'
    BY <1>18 DEF StoreInv, TypeOK, ArgKnown, RenamesSynced, AckedPublished, Published, ListLoad
  <2> QED
    BY <2>1, <2>2, <2>3, <2>4, <2>5 DEF StoreInv
<1>19. ASSUME NEW p \in Procs, ListReturn(p) PROVE StoreInv'
  <2>1. TypeOK'
    BY <1>19 DEF StoreInv, TypeOK, ArgKnown, PcStates, Codes, ListReturn, Return
  <2>2. ArgKnown'
    BY <1>19 DEF StoreInv, TypeOK, ArgKnown, ListReturn, Return
  <2>3. RenamesSynced'
    BY <1>19, ProcsAssumption DEF StoreInv, TypeOK, ArgKnown, RenamesSynced, Owners, ListReturn, Return
  <2>4. WholeFiles(files)' /\ WholeFiles(disk)'
    BY <1>19 DEF StoreInv, TypeOK, ArgKnown, RenamesSynced, WholeFiles, ListReturn, Return
  <2>5. AckedPublished'
    BY <1>19 DEF StoreInv, TypeOK, ArgKnown, RenamesSynced, AckedPublished, Published, ListReturn, Return
  <2> QED
    BY <2>1, <2>2, <2>3, <2>4, <2>5 DEF StoreInv
<1>20. ASSUME NEW p \in Procs, RemoveUnlink(p) PROVE StoreInv'
  <2>1. TypeOK'
    BY <1>20 DEF StoreInv, TypeOK, ArgKnown, TempStates, FileStates, PcStates, Codes, Owners, RemoveUnlink, Return
  <2>2. ArgKnown'
    BY <1>20 DEF StoreInv, TypeOK, ArgKnown, RemoveUnlink, Return
  <2>3. RenamesSynced'
    BY <1>20, ProcsAssumption DEF StoreInv, TypeOK, ArgKnown, RenamesSynced, Owners, RemoveUnlink, Return
  <2>4. WholeFiles(files)' /\ WholeFiles(disk)'
    BY <1>20 DEF StoreInv, TypeOK, ArgKnown, RenamesSynced, WholeFiles, RemoveUnlink, Return
  <2>5. AckedPublished'
    BY <1>20 DEF StoreInv, TypeOK, ArgKnown, RenamesSynced, AckedPublished, Published, RemoveUnlink, Return
  <2> QED
    BY <2>1, <2>2, <2>3, <2>4, <2>5 DEF StoreInv
<1>21. ASSUME NEW p \in Procs, Crash(p) PROVE StoreInv'
  <2>1. TypeOK'
    BY <1>21, FaultCounted DEF StoreInv, TypeOK, ArgKnown, TempStates, FileStates, PcStates, Codes, Owners, Crash
  <2>2. ArgKnown'
    BY <1>21 DEF StoreInv, TypeOK, ArgKnown, Crash, Fault
  <2>3. RenamesSynced'
    BY <1>21, ProcsAssumption DEF StoreInv, TypeOK, ArgKnown, RenamesSynced, Owners, Crash
  <2>4. WholeFiles(files)' /\ WholeFiles(disk)'
    BY <1>21 DEF StoreInv, TypeOK, ArgKnown, RenamesSynced, WholeFiles, Crash, Fault
  <2>5. AckedPublished'
    BY <1>21 DEF StoreInv, TypeOK, ArgKnown, RenamesSynced, AckedPublished, Published, Crash, Fault
  <2> QED
    BY <2>1, <2>2, <2>3, <2>4, <2>5 DEF StoreInv
<1>22. ASSUME FlushDirectory PROVE StoreInv'
  <2>1. TypeOK'
    BY <1>22 DEF StoreInv, TypeOK, ArgKnown, TempStates, FileStates, PcStates, Codes, Owners, FlushDirectory
  <2>2. ArgKnown'
    BY <1>22 DEF StoreInv, TypeOK, ArgKnown, FlushDirectory
  <2>3. RenamesSynced'
    BY <1>22, ProcsAssumption DEF StoreInv, TypeOK, ArgKnown, RenamesSynced, Owners, FlushDirectory
  <2>4. WholeFiles(files)' /\ WholeFiles(disk)'
    BY <1>22 DEF StoreInv, TypeOK, ArgKnown, RenamesSynced, WholeFiles, FlushDirectory
  <2>5. AckedPublished'
    BY <1>22 DEF StoreInv, TypeOK, ArgKnown, RenamesSynced, AckedPublished, Published, FlushDirectory
  <2> QED
    BY <2>1, <2>2, <2>3, <2>4, <2>5 DEF StoreInv
<1>23. ASSUME PowerLoss PROVE StoreInv'
  <2>1. TypeOK'
    BY <1>23 DEF StoreInv, TypeOK, ArgKnown, TempStates, FileStates, PcStates, Codes, Owners, PowerLoss, Fault, Survives
  <2>2. ArgKnown'
    BY <1>23 DEF StoreInv, TypeOK, ArgKnown, PowerLoss, Fault, Survives
  <2>3. RenamesSynced'
    BY <1>23, ProcsAssumption DEF StoreInv, TypeOK, ArgKnown, RenamesSynced, Owners, PowerLoss, Fault, Survives
  <2>4. \A d \in Digests : files'[d] = disk[d] /\ disk'[d] = disk[d]
    BY <1>23 DEF StoreInv, TypeOK, WholeFiles, PowerLoss, Survives
  <2>5. WholeFiles(files)' /\ WholeFiles(disk)'
    BY <2>4 DEF StoreInv, WholeFiles
  <2>6. AckedPublished'
    BY <1>23, <2>4 DEF StoreInv, TypeOK, AckedPublished, Published, PowerLoss
  <2> QED
    BY <2>1, <2>2, <2>3, <2>5, <2>6 DEF StoreInv
<1>24. ASSUME NEW d \in Digests, NEW s \in {"damaged", "alien"}, Tamper(d, s) PROVE StoreInv'
  <2>1. TypeOK'
    BY <1>24, FaultCounted DEF StoreInv, TypeOK, ArgKnown, TempStates, FileStates, PcStates, Codes, Owners, Tamper
  <2>2. ArgKnown'
    BY <1>24 DEF StoreInv, TypeOK, ArgKnown, Tamper, Fault
  <2>3. RenamesSynced'
    BY <1>24, ProcsAssumption DEF StoreInv, TypeOK, ArgKnown, RenamesSynced, Owners, Tamper
  <2>4. WholeFiles(files)' /\ WholeFiles(disk)'
    BY <1>24 DEF StoreInv, TypeOK, ArgKnown, RenamesSynced, WholeFiles, Tamper, Fault
  <2>5. \A e \in Digests : files[e] # "absent" => files'[e] # "absent"
    BY <1>24 DEF StoreInv, TypeOK, Tamper
  <2>6. AckedPublished'
    BY <1>24, <2>5 DEF StoreInv, TypeOK, AckedPublished, Published, Tamper
  <2> QED
    BY <2>1, <2>2, <2>3, <2>4, <2>6 DEF StoreInv
<1>25. ASSUME UNCHANGED vars PROVE StoreInv'
  <2>1. TypeOK'
    BY <1>25 DEF StoreInv, TypeOK, vars
  <2>2. ArgKnown'
    BY <1>25 DEF StoreInv, TypeOK, ArgKnown, vars
  <2>3. RenamesSynced'
    BY <1>25, ProcsAssumption DEF StoreInv, TypeOK, ArgKnown, RenamesSynced, Owners, vars
  <2>4. WholeFiles(files)' /\ WholeFiles(disk)'
    BY <1>25 DEF StoreInv, TypeOK, ArgKnown, RenamesSynced, WholeFiles, vars
  <2>5. AckedPublished'
    BY <1>25 DEF StoreInv, TypeOK, ArgKnown, RenamesSynced, AckedPublished, Published, vars
  <2> QED
    BY <2>1, <2>2, <2>3, <2>4, <2>5 DEF StoreInv
<1> QED
  BY <1>1, <1>2, <1>3, <1>4, <1>5, <1>6, <1>7, <1>8, <1>9,
     <1>10, <1>11, <1>12, <1>13, <1>14, <1>15, <1>16, <1>17, <1>18,
     <1>19, <1>20, <1>21, <1>22, <1>23, <1>24, <1>25
  DEF Next, CallStep, Step, PutStep, ReadStep, Environment

(***************************************************************************)
(* Every reachable state of the store satisfies the inductive invariant.   *)
(***************************************************************************)
THEOREM StoreInvariance == Spec => []StoreInv
  BY InitStoreInv, NextStoreInv, PTL DEF Spec

(***************************************************************************)
(* The variables of the store keep their types (the state PlanStore and    *)
(* WriteFileAtomic work on).                                               *)
(***************************************************************************)
THEOREM TypeCorrect == Spec => []TypeOK
<1>1. StoreInv => TypeOK
  BY DEF StoreInv
<1> QED
  BY <1>1, StoreInvariance, PTL

(***************************************************************************)
(* No reader ever observes a partially written artifact, for any number of *)
(* processes inside WriteFileAtomic, crashes and power losses.             *)
(***************************************************************************)
THEOREM AtomicPublication == Spec => []NoTornArtifact
<1>1. StoreInv => NoTornArtifact
  BY DEF StoreInv, WholeFiles, NoTornArtifact
<1> QED
  BY <1>1, StoreInvariance, PTL

(***************************************************************************)
(* What Put answered Ok for stays published until it is removed or its     *)
(* directory entry is lost with the power.                                 *)
(***************************************************************************)
THEOREM PutIsKept == Spec => []AckedPublished
<1>1. StoreInv => AckedPublished
  BY DEF StoreInv
<1> QED
  BY <1>1, StoreInvariance, PTL
=============================================================================
