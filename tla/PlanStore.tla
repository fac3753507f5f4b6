------------------------------ MODULE PlanStore ------------------------------
(***************************************************************************)
(* The content-addressed plan store (src/store.cpp) over the atomic file   *)
(* writer it uses (src/fileio.cpp).                                        *)
(*                                                                         *)
(* Each member of Procs is a process that has at most one PlanStore object *)
(* open on one shared root.  PlanStore::mutex_ serialises the calls made   *)
(* through one object, so a process is inside at most one call (pc);       *)
(* nothing serialises two processes, so every system call of Put, Get,     *)
(* List and Remove is a step of its own.                                   *)
(*                                                                         *)
(* An artifact is known by its digest: SHA-256 is taken to be injective,   *)
(* so the bytes EncodeStoreFile produces for a plan are "the bytes of d".  *)
(***************************************************************************)
EXTENDS Naturals, FiniteSets

CONSTANTS
    Procs,           \* processes that open the store (the "-<pid>" of a temporary)
    Digests,         \* digests of the plans that are ever put or asked for
    NoDigest,        \* the argument of a process that is in no call about one plan
    MaxPlans,        \* StoreOptions::max_plans
    Verifiers,       \* processes that set StoreOptions::verify_existing
    OldTemp,         \* the owner tag of a temporary whose name ends in ".opptmp"
    Calls,           \* the operations the clients of the store use
    MaxFaults        \* bound: crashes, power losses, failed renames and tampered
                     \* files of one behaviour

ASSUME ProcsAssumption    == IsFiniteSet(Procs) /\ Procs # {} /\ OldTemp \notin Procs
ASSUME DigestsAssumption  == IsFiniteSet(Digests) /\ NoDigest \notin Digests
ASSUME MaxPlansAssumption == MaxPlans \in Nat \ {0}
ASSUME VerifyAssumption   == Verifiers \subseteq Procs
ASSUME CallsAssumption    == Calls \subseteq {"put", "get", "list", "remove"}
ASSUME FaultsAssumption   == MaxFaults \in Nat

VARIABLES
    files,      \* files[d]: what the file named FileNameFor(d) holds
    disk,       \* the directory as it was last written back to the device
    temps,      \* temps[d][o]: the temporary of d that owner o writes
    pc,         \* pc[p]: where process p is in its current call
    arg,        \* arg[p]: the digest that call is about
    ret,        \* ret[p]: the status code of the call p just finished
    names,      \* names[p]: files List has scanned and not loaded yet
    entries,    \* entries[p]: digests List has accepted
    acked,      \* history: digests Put answered Ok for, not removed or lost since
    faults      \* faults so far

vars == <<files, disk, temps, pc, arg, ret, names, entries, acked, faults>>

(***************************************************************************)
(* What a file can hold.  "torn": a prefix of the bytes; "cached": all the *)
(* bytes, not yet on the device; "intact": all the bytes, on the device;   *)
(* "damaged": bytes DecodeStoreFile refuses; "alien": a well-formed file   *)
(* of another digest.  The store itself never writes the last two.         *)
(***************************************************************************)
TempStates == {"absent", "torn", "cached", "intact"}
FileStates == TempStates \cup {"damaged", "alien"}

Owners == Procs \cup {OldTemp}

Codes == {"none", "Ok", "NotFound", "IntegrityFailure", "Refused",
          "Exhausted", "IoFailure", "Undecodable"}

PcStates == {"closed", "idle", "verify", "scan", "create", "write", "sync",
             "rename", "load", "list", "remove"}

Published == {d \in Digests : files[d] # "absent"}

\* The bytes are those EncodeStoreFile produces for the digest of the name.
Matches(s) == s \in {"cached", "intact"}

-----------------------------------------------------------------------------
Init ==
    /\ files = [d \in Digests |-> "absent"]
    /\ disk = [d \in Digests |-> "absent"]
    \* an earlier revision or an operator may have left an ".opptmp" file
    /\ temps \in [Digests -> {[o \in Owners |-> IF o = OldTemp THEN s ELSE "absent"] :
                                s \in {"absent", "torn"}}]
    /\ pc = [p \in Procs |-> "closed"]
    /\ arg = [p \in Procs |-> NoDigest]
    /\ ret = [p \in Procs |-> "none"]
    /\ names = [p \in Procs |-> {}]
    /\ entries = [p \in Procs |-> {}]
    /\ acked = {}
    /\ faults = 0

\* The call of p returns status code c and releases mutex_.
Return(p, c) ==
    /\ pc' = [pc EXCEPT ![p] = "idle"]
    /\ arg' = [arg EXCEPT ![p] = NoDigest]
    /\ ret' = [ret EXCEPT ![p] = c]

\* p calls operation o about digest d and stops before the step named next.
Call(p, o, d, next) ==
    /\ o \in Calls
    /\ pc[p] = "idle"
    /\ pc' = [pc EXCEPT ![p] = next]
    /\ arg' = [arg EXCEPT ![p] = d]
    /\ ret' = [ret EXCEPT ![p] = "none"]

\* p calls operation o and it returns at once with code c.
CallReturns(p, o, c) ==
    /\ o \in Calls
    /\ pc[p] = "idle"
    /\ Return(p, c)

\* Put answers with code c.
PutReturns(p, c) ==
    /\ Return(p, c)
    /\ acked' = IF c = "Ok" THEN acked \cup {arg[p]} ELSE acked

\* One more fault happens.
Fault == faults < MaxFaults /\ faults' = faults + 1

storage == <<files, disk, temps>>
history == <<acked, faults>>
listing == <<names, entries>>

-----------------------------------------------------------------------------
(* PlanStore::Open                                                         *)

\* CleanTemporariesLocked removes the names that end in ".tmp" or ".opptmp".
\* The temporaries of WriteFileAtomic end in ".tmp-<pid>" and are not among them.
CleanedOwners == {OldTemp}

CleanTemporaries ==
    temps' = [d \in Digests |->
                [o \in Owners |-> IF o \in CleanedOwners THEN "absent" ELSE temps[d][o]]]

Open(p) ==
    /\ pc[p] = "closed"
    /\ CleanTemporaries
    /\ Return(p, "Ok")
    /\ UNCHANGED <<files, disk, listing, history>>

-----------------------------------------------------------------------------
(* PlanStore::Put and WriteFileAtomic                                      *)

\* EncodeStoreFile refuses a plan whose seal does not verify.
PutUnsealed(p, d) ==
    /\ CallReturns(p, "put", "IntegrityFailure")
    /\ UNCHANGED <<storage, listing, history>>

PutExisting(p, d) ==
    /\ files[d] # "absent"
    /\ IF p \in Verifiers THEN Call(p, "put", d, "verify")
                           ELSE CallReturns(p, "put", "Refused")
    /\ UNCHANGED <<storage, listing, history>>

\* Mutant: an existing file is written again.
PutNewUnchecked(p, d) ==
    /\ Call(p, "put", d, "scan")
    /\ UNCHANGED <<storage, listing, history>>

PutNew(p, d) ==
    /\ files[d] = "absent"
    /\ Call(p, "put", d, "scan")
    /\ UNCHANGED <<storage, listing, history>>

\* ReadFileBounded of the existing file and the comparison of its bytes.
PutVerify(p) ==
    LET s == files[arg[p]] IN
    /\ pc[p] = "verify"
    /\ PutReturns(p, CASE s = "absent" -> "NotFound"
                        [] Matches(s)   -> "Ok"
                        [] OTHER        -> "IntegrityFailure")
    /\ UNCHANGED <<storage, listing, faults>>

\* Mutant: a full store takes one more plan.
PutScanOffByOne(p) ==
    /\ pc[p] = "scan"
    /\ \/ /\ Cardinality(Published) > MaxPlans
          /\ PutReturns(p, "Exhausted")
       \/ /\ Cardinality(Published) <= MaxPlans
          /\ pc' = [pc EXCEPT ![p] = "create"]
          /\ UNCHANGED <<arg, ret, acked>>
    /\ UNCHANGED <<storage, listing, faults>>

\* ScanLocked and the capacity test.
PutScan(p) ==
    /\ pc[p] = "scan"
    /\ \/ /\ Cardinality(Published) >= MaxPlans
          /\ PutReturns(p, "Exhausted")
       \/ /\ Cardinality(Published) < MaxPlans
          /\ pc' = [pc EXCEPT ![p] = "create"]
          /\ UNCHANGED <<arg, ret, acked>>
    /\ UNCHANGED <<storage, listing, faults>>

SetTemp(p, s) == temps' = [temps EXCEPT ![arg[p]][p] = s]

\* A step of WriteFileAtomic that leaves the temporary in state s.
Written(p, from, s, next) ==
    /\ pc[p] = from
    /\ SetTemp(p, s)
    /\ pc' = [pc EXCEPT ![p] = next]
    /\ UNCHANGED <<files, disk, arg, ret, listing, history>>

\* fopen(temporary, "wb") truncates what an earlier owner of the pid left.
CreateTemp(p) == Written(p, "create", "torn", "write")

\* fwrite and fflush hand all the bytes to the kernel.
WriteTemp(p) == Written(p, "write", "cached", "sync")

\* Mutant: the bytes are never forced to the device.
SyncTempUnsynced(p) == Written(p, "sync", "cached", "rename")

\* fsync, then fclose.
SyncTemp(p) == Written(p, "sync", "intact", "rename")

\* fopen fails: nothing was created.
CreateFails(p) ==
    /\ pc[p] = "create"
    /\ PutReturns(p, "IoFailure")
    /\ UNCHANGED <<storage, listing, faults>>

\* A short write, or a failed fflush, fsync or fclose: the temporary is removed.
WriteFails(p) ==
    /\ pc[p] \in {"write", "sync"}
    /\ SetTemp(p, "absent")
    /\ PutReturns(p, "IoFailure")
    /\ UNCHANGED <<files, disk, listing, faults>>

\* RenameFile replaces whatever the destination holds by then.
RenameTemp(p) ==
    /\ pc[p] = "rename"
    /\ files' = [files EXCEPT ![arg[p]] = temps[arg[p]][p]]
    /\ SetTemp(p, "absent")
    /\ PutReturns(p, "Ok")
    /\ UNCHANGED <<disk, listing, faults>>

\* Mutant: the status of the rename is dropped.
RenameFailsUnseen(p) ==
    /\ pc[p] = "rename"
    /\ Fault
    /\ PutReturns(p, "Ok")
    /\ UNCHANGED <<storage, listing>>

\* A failed rename leaves the temporary behind.
RenameFails(p) ==
    /\ pc[p] = "rename"
    /\ Fault
    /\ PutReturns(p, "IoFailure")
    /\ UNCHANGED <<storage, listing>>

-----------------------------------------------------------------------------
(* PlanStore::Get, List and Remove                                         *)

\* Mutant: the digest is not compared with the file name.
LoadCodeUnnamed(s) ==
    CASE s = "absent"              -> "NotFound"
      [] s \in {"torn", "damaged"} -> "Undecodable"
      [] OTHER                     -> "Ok"

\* DecodeStoreFile finds no artifact in the bytes.
Undecodable(s) == s \in {"torn", "damaged"}

\* LoadLocked followed by the comparison of the digest with the file name.
LoadCode(s) ==
    CASE s = "absent"              -> "NotFound"
      [] Undecodable(s)            -> "Undecodable"
      [] s = "alien"               -> "IntegrityFailure"
      [] Matches(s)                -> "Ok"

Get(p, d) ==
    /\ IF files[d] = "absent" THEN CallReturns(p, "get", "NotFound")
                              ELSE Call(p, "get", d, "load")
    /\ UNCHANGED <<storage, listing, history>>

GetLoad(p) ==
    /\ pc[p] = "load"
    /\ Return(p, LoadCode(files[arg[p]]))
    /\ UNCHANGED <<storage, listing, history>>

List(p) ==
    /\ Call(p, "list", NoDigest, "list")
    /\ names' = [names EXCEPT ![p] = Published]
    /\ entries' = [entries EXCEPT ![p] = {}]
    /\ UNCHANGED <<storage, history>>

\* Mutant: a file that does not load is tried again.
ListLoadRetries(p, d) ==
    /\ pc[p] = "list"
    /\ d \in names[p]
    /\ LoadCode(files[d]) = "Ok"
    /\ names' = [names EXCEPT ![p] = @ \ {d}]
    /\ entries' = [entries EXCEPT ![p] = @ \cup {d}]
    /\ UNCHANGED <<storage, pc, arg, ret, history>>

\* One file of the scan is loaded; it becomes an entry or is rejected.
ListLoad(p, d) ==
    /\ pc[p] = "list"
    /\ d \in names[p]
    /\ names' = [names EXCEPT ![p] = @ \ {d}]
    /\ entries' = IF LoadCode(files[d]) = "Ok"
                    THEN [entries EXCEPT ![p] = @ \cup {d}] ELSE entries
    /\ UNCHANGED <<storage, pc, arg, ret, history>>

ListReturn(p) ==
    /\ pc[p] = "list"
    /\ names[p] = {}
    /\ Return(p, "Ok")
    /\ UNCHANGED <<storage, listing, history>>

Remove(p, d) ==
    /\ IF files[d] = "absent" THEN CallReturns(p, "remove", "NotFound")
                              ELSE Call(p, "remove", d, "remove")
    /\ UNCHANGED <<storage, listing, history>>

\* RemoveFile; a file another process removed meanwhile is not an error.
RemoveUnlink(p) ==
    /\ pc[p] = "remove"
    /\ files' = [files EXCEPT ![arg[p]] = "absent"]
    /\ acked' = acked \ {arg[p]}
    /\ Return(p, "Ok")
    /\ UNCHANGED <<disk, temps, listing, faults>>

-----------------------------------------------------------------------------
(* The environment                                                         *)

\* The process ends at any point; what it handed to the kernel stays.
Crash(p) ==
    /\ pc[p] # "closed"
    /\ Fault
    /\ pc' = [pc EXCEPT ![p] = "closed"]
    /\ arg' = [arg EXCEPT ![p] = NoDigest]
    /\ ret' = [ret EXCEPT ![p] = "none"]
    /\ names' = [names EXCEPT ![p] = {}]
    /\ entries' = [entries EXCEPT ![p] = {}]
    /\ UNCHANGED <<storage, acked>>

\* The kernel writes the directory back; the code never forces it to.
FlushDirectory ==
    /\ disk # files
    /\ disk' = files
    /\ UNCHANGED <<files, temps, pc, arg, ret, listing, history>>

\* What is left, after a power loss, of a file that was in state s.
Survives(s) == IF s = "cached" THEN "torn" ELSE s

\* Every process ends, bytes that were not on the device are lost, and the
\* directory is again what was last written back: its updates reach the device
\* in the order they were made.
PowerLoss ==
    /\ Fault
    /\ files' = [d \in Digests |-> Survives(disk[d])]
    /\ disk' = files'
    /\ temps' = [d \in Digests |-> [o \in Owners |-> Survives(temps[d][o])]]
    /\ pc' = [p \in Procs |-> "closed"]
    /\ arg' = [p \in Procs |-> NoDigest]
    /\ ret' = [p \in Procs |-> "none"]
    /\ names' = [p \in Procs |-> {}]
    /\ entries' = [p \in Procs |-> {}]
    /\ acked' = {d \in acked : disk[d] # "absent"}

\* A published file is changed behind the store's back.
Tamper(d, s) ==
    /\ files[d] # "absent"
    /\ Fault
    /\ files' = [files EXCEPT ![d] = s]
    /\ disk' = [disk EXCEPT ![d] = IF @ = "absent" THEN @ ELSE s]
    /\ UNCHANGED <<temps, pc, arg, ret, listing, acked>>

-----------------------------------------------------------------------------
PutStep(p) ==
    \/ PutVerify(p) \/ PutScan(p)
    \/ CreateTemp(p) \/ WriteTemp(p) \/ SyncTemp(p) \/ RenameTemp(p)
    \/ CreateFails(p) \/ WriteFails(p) \/ RenameFails(p)

ReadStep(p) ==
    \/ GetLoad(p)
    \/ \E d \in Digests : ListLoad(p, d)
    \/ ListReturn(p)

CallStep(p) ==
    \/ Open(p)
    \/ List(p)
    \/ \E d \in Digests : PutUnsealed(p, d) \/ PutExisting(p, d) \/ PutNew(p, d)
                            \/ Get(p, d) \/ Remove(p, d)

\* What p does on its own once it is inside a call.
Step(p) == PutStep(p) \/ ReadStep(p) \/ RemoveUnlink(p)

Environment ==
    \/ \E p \in Procs : Crash(p)
    \/ FlushDirectory
    \/ PowerLoss
    \/ \E d \in Digests, s \in {"damaged", "alien"} : Tamper(d, s)

Next == (\E p \in Procs : CallStep(p) \/ Step(p)) \/ Environment

Spec == Init /\ [][Next]_vars

\* A call that was entered is carried through: nothing in it blocks.
FairSpec == Spec /\ \A p \in Procs : WF_vars(Step(p))

-----------------------------------------------------------------------------
TypeOK ==
    /\ files \in [Digests -> FileStates]
    /\ disk \in [Digests -> FileStates]
    /\ temps \in [Digests -> [Owners -> TempStates]]
    /\ pc \in [Procs -> PcStates]
    /\ arg \in [Procs -> Digests \cup {NoDigest}]
    /\ ret \in [Procs -> Codes]
    /\ names \in [Procs -> SUBSET Digests]
    /\ entries \in [Procs -> SUBSET Digests]
    /\ acked \subseteq Digests
    /\ faults \in Nat

(***************************************************************************)
(* A reader never observes a partially written artifact: no file under a   *)
(* published name holds a prefix of the bytes, whatever processes crash    *)
(* inside WriteFileAtomic and even after a power loss.                     *)
(***************************************************************************)
NoTornArtifact == \A d \in Digests : files[d] # "torn"

(***************************************************************************)
(* Put's answer is kept: an artifact it answered Ok for is still published *)
(* unless it was removed, or its directory entry was not on the device     *)
(* when the power failed.                                                  *)
(***************************************************************************)
AckedPublished == acked \subseteq Published

(***************************************************************************)
(* The capacity test of Put and its rename are apart, so processes sharing *)
(* a root can pass the test together; the store never holds more than      *)
(* max_plans artifacts plus one for each further process.                  *)
(***************************************************************************)
CapacityBound == Cardinality(Published) <= MaxPlans + Cardinality(Procs) - 1

\* d's file is not what the store wrote.
Spoiled(d) == files[d] \in {"damaged", "alien"}

(***************************************************************************)
(* A file changed behind the store's back is never repaired, overwritten   *)
(* or vouched for: until it is gone it stays spoiled, Put and Get do       *)
(* not answer Ok for its digest and List does not accept it.               *)
(***************************************************************************)
TamperEvident ==
    [][\A d \in Digests : Spoiled(d) =>
         /\ files'[d] = "absent" \/ Spoiled(d)'
         /\ \A p \in Procs :
              /\ arg[p] = d /\ pc[p] # "remove" => ret'[p] # "Ok"
              /\ d \in entries'[p] => d \in entries[p]]_vars

(***************************************************************************)
(* No call waits for another process: every call that was entered returns, *)
(* or its process ends.                                                    *)
(***************************************************************************)
CallsReturn ==
    \A p \in Procs : pc[p] \notin {"idle", "closed"} ~> pc[p] \in {"idle", "closed"}

-----------------------------------------------------------------------------
(***************************************************************************)
(* The refinement mapping onto the store's promise.                        *)
(***************************************************************************)
OnShelf(dir) ==
    [d \in Digests |-> CASE dir[d] = "absent" -> "empty"
                         [] Matches(dir[d])   -> "held"
                         [] OTHER             -> "spoiled"]

Promise == INSTANCE Shelf WITH shelf <- OnShelf(files), saved <- OnShelf(disk),
                               Capacity <- MaxPlans

(***************************************************************************)
(* Used by one process, the store implements the bounded shelf: whatever   *)
(* system call is interrupted, an artifact appears in one step, only where *)
(* there was none and only while there is room.                            *)
(***************************************************************************)
ImplementsShelf == Promise!ShelfSpec
=============================================================================
