----------------------------- MODULE Incarnation -----------------------------
(***************************************************************************)
(* The incarnations of oppd over one state directory (src/service.cpp):    *)
(* the directory lock, AdvanceIncarnation, the failure paths of            *)
(* Service::Start, and the epoch fence that every frame passes.            *)
(*                                                                         *)
(* Each member of Procs is a process slot in which an oppd can be started, *)
(* killed and started again.  The incarnation record is replaced through   *)
(* WriteFileAtomic by the holder of the lock only, so its replacement is   *)
(* one step (PlanStore models the steps inside WriteFileAtomic).           *)
(***************************************************************************)
EXTENDS Naturals, Sequences

CONSTANTS
    Procs,      \* process slots
    NoProc,     \* nobody holds the lock
    MaxEpoch,   \* numeric_limits<Epoch>::max()
    MaxDamage   \* bound: times the record is made unreadable from outside

ASSUME NoProcAssumption == NoProc \notin Procs
ASSUME EpochAssumption  == MaxEpoch \in Nat \ {0}
ASSUME DamageAssumption == MaxDamage \in Nat

VARIABLES
    lock,        \* holder of service.lock (flock)
    record,      \* the epoch in the incarnation record; 0 when there is no record
    readable,    \* FALSE: the record exists and does not parse
    pc,          \* pc[p]: where process p is in its life
    previous,    \* previous[p]: previous_epoch in AdvanceIncarnation
    epoch,       \* epoch[p]: incarnation_.epoch
    continuity,  \* continuity[p]: incarnation_.epoch_continuity
    issued,      \* history: the epochs written to the record, in order
    run,         \* history: run[p], the place of p's epoch in issued
    known,       \* runs whose epoch some client learned from a HelloAck
    answer,      \* the last frame pinned to an epoch and what became of it
    damage       \* times the record was damaged

vars == <<lock, record, readable, pc, previous, epoch, continuity, issued, run,
          known, answer, damage>>

PcStates == {"down", "locked", "write", "written", "serving", "stopping"}

\* The frame kinds the fence tells apart.
Kinds == {"Shutdown", "Other"}

NoAnswer == [kind |-> "Other", pin |-> 0, by |-> 0, verdict |-> "None"]

Init ==
    /\ lock = NoProc
    /\ record = 0
    /\ readable = TRUE
    /\ pc = [p \in Procs |-> "down"]
    /\ previous = [p \in Procs |-> 0]
    /\ epoch = [p \in Procs |-> 0]
    /\ continuity = [p \in Procs |-> TRUE]
    /\ issued = <<>>
    /\ run = [p \in Procs |-> 0]
    /\ known = {}
    /\ answer = NoAnswer
    /\ damage = 0

clients == <<known, answer>>
identity == <<epoch, continuity, run>>

\* p ends: ~StateDirectoryLock, or the kernel, releases the lock.
Ends(p) ==
    /\ pc' = [pc EXCEPT ![p] = "down"]
    /\ lock' = IF lock = p THEN NoProc ELSE lock
    /\ previous' = [previous EXCEPT ![p] = 0]
    /\ epoch' = [epoch EXCEPT ![p] = 0]
    /\ continuity' = [continuity EXCEPT ![p] = TRUE]
    /\ run' = [run EXCEPT ![p] = 0]

-----------------------------------------------------------------------------
(* Service::Start                                                          *)

\* Mutant of Acquire: the lock is taken whoever holds it.
AcquireUnlocked(p) ==
    /\ pc[p] = "down"
    /\ lock' = p
    /\ pc' = [pc EXCEPT ![p] = "locked"]
    /\ UNCHANGED <<record, readable, previous, identity, issued, clients, damage>>

\* StateDirectoryLock::Acquire.  While another process holds the lock, flock
\* fails, Start returns Refused and the process ends: nothing changes.
Acquire(p) ==
    /\ pc[p] = "down"
    /\ lock = NoProc
    /\ lock' = p
    /\ pc' = [pc EXCEPT ![p] = "locked"]
    /\ UNCHANGED <<record, readable, previous, identity, issued, clients, damage>>

\* AdvanceIncarnation reads the record; one that does not parse is renamed away.
ReadRecord(p) ==
    /\ pc[p] = "locked"
    /\ pc' = [pc EXCEPT ![p] = "write"]
    /\ previous' = [previous EXCEPT ![p] = IF readable THEN record ELSE 0]
    /\ continuity' = [continuity EXCEPT ![p] = readable]
    /\ record' = IF readable THEN record ELSE 0
    /\ readable' = TRUE
    /\ UNCHANGED <<lock, epoch, issued, run, clients, damage>>

\* Mutant of WriteRecord: the epoch is used and the record not replaced.
WriteRecordSkipped(p) ==
    /\ pc[p] = "write"
    /\ previous[p] < MaxEpoch - 1
    /\ pc' = [pc EXCEPT ![p] = "written"]
    /\ epoch' = [epoch EXCEPT ![p] = previous[p] + 1]
    /\ issued' = Append(issued, previous[p] + 1)
    /\ run' = [run EXCEPT ![p] = Len(issued) + 1]
    /\ UNCHANGED <<lock, record, readable, previous, continuity, clients, damage>>

\* AdvanceIncarnation writes the next epoch.
WriteRecord(p) ==
    /\ pc[p] = "write"
    /\ previous[p] < MaxEpoch - 1
    /\ pc' = [pc EXCEPT ![p] = "written"]
    /\ record' = previous[p] + 1
    /\ epoch' = [epoch EXCEPT ![p] = previous[p] + 1]
    /\ issued' = Append(issued, previous[p] + 1)
    /\ run' = [run EXCEPT ![p] = Len(issued) + 1]
    /\ UNCHANGED <<lock, readable, previous, continuity, clients, damage>>

\* The store is open, the snapshot restored, the socket listening.
Listen(p) ==
    /\ pc[p] = "written"
    /\ pc' = [pc EXCEPT ![p] = "serving"]
    /\ UNCHANGED <<lock, record, readable, previous, identity, issued, clients, damage>>

\* Start gives up: the record cannot be renamed away or written, the epoch is
\* exhausted, the store does not open, or the socket cannot be bound.
StartFails(p) ==
    /\ pc[p] \in {"locked", "write", "written"}
    /\ Ends(p)
    /\ UNCHANGED <<record, readable, issued, clients, damage>>

-----------------------------------------------------------------------------
(* Frames                                                                  *)

\* A client says hello without a pin and learns the epoch.
Hello(p) ==
    /\ pc[p] \in {"serving", "stopping"}
    /\ known' = known \cup {run[p]}
    /\ UNCHANGED <<lock, record, readable, pc, previous, identity, issued, answer, damage>>

\* Mutant of Fenced: only pins to later epochs are fenced.
FencedLater(p, r) == issued[r] > epoch[p]

\* Mutant of Fenced: the pin is compared with the epoch before this one.
FencedByPrevious(p, r) == issued[r] # previous[p]

\* HandleFrameFor: a pin that is not the current epoch is fenced.
Fenced(p, r) == issued[r] # epoch[p]

Answer(p, kind, r, verdict) ==
    answer' = [kind |-> kind, pin |-> r, by |-> run[p], verdict |-> verdict]

\* A frame pinned to the epoch of run r reaches HandleFrameFor.
PinnedFrame(p, r) ==
    /\ pc[p] \in {"serving", "stopping"}
    /\ r \in known
    /\ Answer(p, "Other", r, IF Fenced(p, r) THEN "Fenced" ELSE "Handled")
    /\ UNCHANGED <<lock, record, readable, pc, previous, identity, issued, known, damage>>

\* ServeConnection answers a Shutdown frame itself, before HandleFrameFor and
\* its fence, and sets stopping_.
PinnedShutdown(p, r) ==
    /\ pc[p] \in {"serving", "stopping"}
    /\ r \in known
    /\ Answer(p, "Shutdown", r, "Handled")
    /\ pc' = [pc EXCEPT ![p] = "stopping"]
    /\ UNCHANGED <<lock, record, readable, previous, identity, issued, known, damage>>

\* An unpinned Shutdown frame, or SIGINT or SIGTERM.
Shutdown(p) ==
    /\ pc[p] = "serving"
    /\ pc' = [pc EXCEPT ![p] = "stopping"]
    /\ UNCHANGED <<lock, record, readable, previous, identity, issued, clients, damage>>

\* Run has joined the workers and returned; the service is destroyed.
Exit(p) ==
    /\ pc[p] = "stopping"
    /\ Ends(p)
    /\ UNCHANGED <<record, readable, issued, clients, damage>>

-----------------------------------------------------------------------------
(* The environment                                                         *)

Kill(p) ==
    /\ pc[p] # "down"
    /\ Ends(p)
    /\ UNCHANGED <<record, readable, issued, clients, damage>>

DamageRecord ==
    /\ damage < MaxDamage
    /\ record # 0
    /\ damage' = damage + 1
    /\ readable' = FALSE
    /\ UNCHANGED <<lock, record, pc, previous, identity, issued, clients>>

StartStep(p) ==
    Acquire(p) \/ ReadRecord(p) \/ WriteRecord(p) \/ Listen(p) \/ StartFails(p)

FrameStep(p) ==
    \/ Hello(p)
    \/ \E r \in 1 .. Len(issued) : PinnedFrame(p, r) \/ PinnedShutdown(p, r)
    \/ Shutdown(p)
    \/ Exit(p)

Next == (\E p \in Procs : StartStep(p) \/ FrameStep(p) \/ Kill(p)) \/ DamageRecord

Spec == Init /\ [][Next]_vars

-----------------------------------------------------------------------------
TypeOK ==
    /\ lock \in Procs \cup {NoProc}
    /\ record \in Nat
    /\ readable \in BOOLEAN
    /\ pc \in [Procs -> PcStates]
    /\ previous \in [Procs -> Nat]
    /\ epoch \in [Procs -> Nat]
    /\ continuity \in [Procs -> BOOLEAN]
    /\ issued \in Seq(Nat)
    /\ run \in [Procs -> 0 .. Len(issued)]
    /\ known \subseteq 1 .. Len(issued)
    /\ answer \in [kind : Kinds, pin : Nat, by : Nat, verdict : {"None", "Fenced", "Handled"}]
    /\ damage \in Nat

(***************************************************************************)
(* StateDirectoryLock: two processes are never both past the lock, in      *)
(* whatever order they start, fail, stop and are killed.                   *)
(***************************************************************************)
OneIncarnation ==
    \A p, q \in Procs : pc[p] # "down" /\ pc[q] # "down" => p = q

\* The epochs were written in ascending order.
Ascending == \A i, j \in 1 .. Len(issued) : i < j => issued[i] < issued[j]

(***************************************************************************)
(* "Restarting the process produces a new incarnation with a strictly      *)
(* higher epoch": unless the record was damaged from outside, every epoch  *)
(* AdvanceIncarnation writes is higher than all the earlier ones, also     *)
(* when starts in between failed or were killed.                           *)
(***************************************************************************)
EpochsIncrease == damage = 0 => Ascending

(***************************************************************************)
(* The counter stops before it can wrap: no incarnation has epoch 0, which *)
(* on the wire means "not pinned", nor the maximum of the type.            *)
(***************************************************************************)
EpochInRange ==
    \A i \in 1 .. Len(issued) : issued[i] > 0 /\ issued[i] < MaxEpoch

\* The last pinned request was handled by the incarnation it was pinned to.
HandledByOwner ==
    answer.kind = "Other" /\ answer.verdict = "Handled" => answer.pin = answer.by

(***************************************************************************)
(* Unless the record was damaged from outside, a pinned request is handled *)
(* only by the incarnation the client learned the epoch from, however many *)
(* restarts lie between the HelloAck and the frame.  Shutdown frames are   *)
(* excepted: ServeConnection answers them before the pin is looked at.     *)
(***************************************************************************)
FenceSound == damage = 0 => HandledByOwner

(***************************************************************************)
(* A request pinned to the epoch of the incarnation it reaches is never    *)
(* fenced, also when the record was damaged and the epochs started again.  *)
(***************************************************************************)
CurrentPinServed == answer.pin = answer.by => answer.verdict # "Fenced"
=============================================================================
