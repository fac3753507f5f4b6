-------------------------- MODULE Incarnation_proofs --------------------------
(***************************************************************************)
(* Theorems about Incarnation, for any number of processes, any MaxEpoch   *)
(* and any number of restarts.                                             *)
(***************************************************************************)
EXTENDS Incarnation, SequenceTheorems, TLAPS

\* A process that is not down holds the lock.
LockHeld == \A p \in Procs : pc[p] # "down" => lock = p

\* An incarnation that has its epoch has a place in issued.
Numbered ==
    \A p \in Procs : pc[p] \in {"written", "serving", "stopping"} =>
        run[p] > 0 /\ epoch[p] = issued[run[p]]

\* The record is the last epoch written, and no epoch is above it.
RecordLeads ==
    /\ readable
    /\ \A i \in 1 .. Len(issued) : issued[i] <= record
    /\ \A p \in Procs : pc[p] = "write" => previous[p] = record

\* An incarnation that has its epoch is the last one written.
Newest ==
    \A p \in Procs : pc[p] \in {"written", "serving", "stopping"} =>
        /\ run[p] = Len(issued)
        /\ Len(issued) > 0
        /\ epoch[p] = issued[Len(issued)]

\* What holds while nobody has damaged the record.
Undamaged == RecordLeads /\ Ascending /\ Newest /\ HandledByOwner

\* The inductive invariant.
LifeInv ==
    /\ TypeOK /\ LockHeld /\ Numbered /\ EpochInRange /\ CurrentPinServed
    /\ damage = 0 => Undamaged

-----------------------------------------------------------------------------
\* Init establishes the inductive invariant.
LEMMA InitLifeInv == Init => LifeInv
<1> SUFFICES ASSUME Init PROVE LifeInv
    OBVIOUS
<1>1. issued = <<>> /\ Len(issued) = 0 /\ 1 .. Len(issued) = {}
    BY DEF Init
<1>2. TypeOK
    BY <1>1 DEF Init, TypeOK, PcStates, Kinds, NoAnswer
<1>3. LockHeld /\ Numbered /\ EpochInRange /\ CurrentPinServed
    BY <1>1 DEF Init, LockHeld, Numbered, EpochInRange, CurrentPinServed, NoAnswer
<1>4. Undamaged
    BY <1>1 DEF Init, Undamaged, RecordLeads, Ascending, Newest, HandledByOwner, NoAnswer
<1> QED BY <1>2, <1>3, <1>4 DEF LifeInv

\* The end of a process (a failed start, an exit, a kill) keeps the invariant.
LEMMA EndsLifeInv ==
    ASSUME LifeInv, NEW p \in Procs, Ends(p),
           UNCHANGED <<record, readable, issued, known, answer, damage>>
    PROVE  LifeInv'
<1>1. TypeOK'
    BY DEF LifeInv, TypeOK, Ends, PcStates
<1>2. LockHeld' /\ Numbered'
    BY DEF LifeInv, TypeOK, LockHeld, Numbered, Ends
<1>3. EpochInRange' /\ CurrentPinServed'
    BY DEF LifeInv, EpochInRange, CurrentPinServed
<1>4. ASSUME damage' = 0 PROVE Undamaged'
    <2>1. Undamaged
        BY <1>4 DEF LifeInv
    <2>2. RecordLeads'
        BY <2>1 DEF Undamaged, RecordLeads, Ends, LifeInv, TypeOK
    <2>3. Ascending' /\ HandledByOwner'
        BY <2>1 DEF Undamaged, Ascending, HandledByOwner
    <2>4. Newest'
        BY <2>1 DEF Undamaged, Newest, Ends, LifeInv, TypeOK
    <2> QED BY <2>2, <2>3, <2>4 DEF Undamaged
<1> QED BY <1>1, <1>2, <1>3, <1>4 DEF LifeInv

\* WriteRecord, the one action that appends an epoch, keeps the invariant.
LEMMA WriteLifeInv ==
    ASSUME LifeInv, NEW p \in Procs, WriteRecord(p)
    PROVE  LifeInv'
<1> DEFINE e == previous[p] + 1
<1>1. /\ issued \in Seq(Nat) /\ Len(issued) \in Nat /\ e \in Nat /\ e > 0 /\ e < MaxEpoch
      /\ issued' = Append(issued, e)
    BY EpochAssumption DEF LifeInv, TypeOK, WriteRecord
<1>2. /\ issued' \in Seq(Nat) /\ Len(issued') = Len(issued) + 1
      /\ issued'[Len(issued) + 1] = e
      /\ \A i \in 1 .. Len(issued) : issued'[i] = issued[i]
    BY <1>1
<1>3. TypeOK'
    BY <1>1, <1>2 DEF LifeInv, TypeOK, WriteRecord, PcStates, clients
<1>4. LockHeld' /\ Numbered'
    <2>1. LockHeld'
        BY DEF LifeInv, TypeOK, LockHeld, WriteRecord
    <2>2. run'[p] = Len(issued) + 1 /\ epoch'[p] = e
        BY DEF WriteRecord, LifeInv, TypeOK
    <2>3. \A q \in Procs : q # p => pc'[q] = pc[q] /\ run'[q] = run[q] /\ epoch'[q] = epoch[q]
        BY DEF WriteRecord, LifeInv, TypeOK
    <2>4. \A q \in Procs : run[q] > 0 => issued'[run[q]] = issued[run[q]]
        BY <1>1, <1>2 DEF LifeInv, TypeOK
    <2>5. Numbered'
        <3>1. run'[p] > 0 /\ epoch'[p] = issued'[run'[p]]
            BY <1>1, <1>2, <2>2
        <3>2. ASSUME NEW q \in Procs, q # p, pc'[q] \in {"written", "serving", "stopping"}
              PROVE  run'[q] > 0 /\ epoch'[q] = issued'[run'[q]]
            <4>1. run[q] > 0 /\ epoch[q] = issued[run[q]]
                BY <3>2, <2>3, Zenon DEF LifeInv, Numbered
            <4> QED BY <4>1, <3>2, <2>3, <2>4, Zenon
        <3> QED BY <3>1, <3>2, Zenon DEF Numbered
    <2> QED BY <2>1, <2>5
<1>5. EpochInRange' /\ CurrentPinServed'
    BY <1>1, <1>2 DEF LifeInv, EpochInRange, CurrentPinServed, WriteRecord, clients
<1>6. ASSUME damage' = 0 PROVE Undamaged'
    <2>1. Undamaged /\ previous[p] = record /\ lock = p
        BY <1>6 DEF LifeInv, LockHeld, Undamaged, RecordLeads, WriteRecord
    <2>2. \A i \in 1 .. Len(issued) : issued[i] < e
        BY <1>1, <2>1 DEF Undamaged, RecordLeads, LifeInv, TypeOK
    <2>3. \A q \in Procs : q # p => pc[q] = "down" /\ pc'[q] = "down"
        BY <2>1 DEF LifeInv, TypeOK, LockHeld, WriteRecord
    <2>4. RecordLeads'
        <3>1. readable' /\ record' = e
            BY <2>1 DEF Undamaged, RecordLeads, WriteRecord
        <3>2. \A i \in 1 .. Len(issued') : issued'[i] <= record'
            BY <1>1, <1>2, <2>2, <3>1
        <3>3. \A q \in Procs : pc'[q] # "write"
            BY <2>3 DEF WriteRecord, LifeInv, TypeOK
        <3> QED BY <3>1, <3>2, <3>3 DEF RecordLeads
    <2>5. Ascending'
        <3> SUFFICES ASSUME NEW i \in 1 .. Len(issued'), NEW j \in 1 .. Len(issued'), i < j
                     PROVE  issued'[i] < issued'[j]
            BY DEF Ascending
        <3>1. i \in 1 .. Len(issued) /\ issued'[i] = issued[i]
            BY <1>1, <1>2
        <3>2. CASE j = Len(issued) + 1
            BY <1>2, <2>2, <3>1, <3>2
        <3>3. CASE j \in 1 .. Len(issued)
            BY <1>2, <2>1, <3>1, <3>3 DEF Undamaged, Ascending
        <3> QED BY <1>1, <1>2, <3>2, <3>3
    <2>6. Newest'
        <3>1. run'[p] = Len(issued') /\ epoch'[p] = issued'[Len(issued')] /\ Len(issued') > 0
            BY <1>1, <1>2 DEF WriteRecord, LifeInv, TypeOK
        <3>2. \A q \in Procs : pc'[q] \in {"written", "serving", "stopping"} => q = p
            BY <2>3
        <3> QED BY <3>1, <3>2 DEF Newest
    <2>7. HandledByOwner'
        BY <2>1 DEF Undamaged, HandledByOwner, WriteRecord, clients
    <2> QED BY <2>4, <2>5, <2>6, <2>7 DEF Undamaged
<1> QED BY <1>3, <1>4, <1>5, <1>6 DEF LifeInv

\* ReadRecord keeps the invariant.
LEMMA ReadLifeInv ==
    ASSUME LifeInv, NEW p \in Procs, ReadRecord(p)
    PROVE  LifeInv'
<1>1. TypeOK'
    BY DEF LifeInv, TypeOK, ReadRecord, PcStates, clients
<1>2. LockHeld' /\ Numbered' /\ EpochInRange' /\ CurrentPinServed'
    BY DEF LifeInv, TypeOK, LockHeld, Numbered, EpochInRange, CurrentPinServed, ReadRecord, clients
<1>3. ASSUME damage' = 0 PROVE Undamaged'
    <2>1. Undamaged /\ readable /\ record' = record
        BY <1>3 DEF LifeInv, Undamaged, RecordLeads, ReadRecord
    <2>2. RecordLeads'
        BY <2>1 DEF Undamaged, RecordLeads, ReadRecord, LifeInv, TypeOK
    <2>3. Ascending' /\ HandledByOwner'
        BY <2>1 DEF Undamaged, Ascending, HandledByOwner, ReadRecord, clients
    <2>4. Newest'
        BY <2>1 DEF Undamaged, Newest, ReadRecord, LifeInv, TypeOK
    <2> QED BY <2>2, <2>3, <2>4 DEF Undamaged
<1> QED BY <1>1, <1>2, <1>3 DEF LifeInv

\* A step that moves pc within {locked} or {written, serving, stopping} and
\* writes no record keeps the invariant, whatever the clients learn from it.
LEMMA MoveLifeInv ==
    ASSUME LifeInv, NEW p \in Procs,
           \/ /\ pc[p] = "down" /\ lock = NoProc
              /\ lock' = p /\ pc' = [pc EXCEPT ![p] = "locked"]
           \/ /\ pc[p] \in {"written", "serving", "stopping"} /\ lock' = lock
              /\ \E s \in {"serving", "stopping"} : pc' = [pc EXCEPT ![p] = s]
           \/ lock' = lock /\ pc' = pc,
           UNCHANGED <<record, readable, previous, identity, issued, damage>>,
           known' \subseteq 1 .. Len(issued),
           answer' \in [kind : Kinds, pin : Nat, by : Nat,
                        verdict : {"None", "Fenced", "Handled"}],
           CurrentPinServed', damage' = 0 => HandledByOwner'
    PROVE  LifeInv'
<1>1. TypeOK'
    <2>1. TypeOK /\ pc \in [Procs -> PcStates]
        BY DEF LifeInv, TypeOK
    <2>2. \A s \in PcStates : [pc EXCEPT ![p] = s] \in [Procs -> PcStates]
        BY <2>1
    <2>3. {"locked", "serving", "stopping"} \subseteq PcStates
        BY DEF PcStates
    <2>4. pc' \in [Procs -> PcStates]
        BY <2>1, <2>2, <2>3
    <2>5. lock' \in Procs \cup {NoProc}
        BY <2>1 DEF TypeOK
    <2> QED BY <2>1, <2>4, <2>5 DEF TypeOK, identity
<1>2. LockHeld' /\ Numbered'
    <2>1. LockHeld'
        BY NoProcAssumption DEF LifeInv, TypeOK, LockHeld
    <2>2. Numbered'
        BY DEF LifeInv, TypeOK, Numbered, identity
    <2> QED BY <2>1, <2>2
<1>3. EpochInRange'
    BY DEF LifeInv, EpochInRange
<1>4. ASSUME damage' = 0 PROVE Undamaged'
    <2>1. Undamaged
        BY <1>4 DEF LifeInv
    <2>2. RecordLeads'
        BY <2>1 DEF Undamaged, RecordLeads, LifeInv, TypeOK
    <2>3. Ascending'
        BY <2>1 DEF Undamaged, Ascending
    <2>4. Newest'
        BY <2>1 DEF Undamaged, Newest, LifeInv, TypeOK, identity
    <2> QED BY <1>4, <2>2, <2>3, <2>4 DEF Undamaged
<1> QED BY <1>1, <1>2, <1>3, <1>4 DEF LifeInv


\* Every step keeps the invariant.
LEMMA NextLifeInv == LifeInv /\ [Next]_vars => LifeInv'
<1> SUFFICES ASSUME LifeInv, [Next]_vars PROVE LifeInv'
    OBVIOUS
<1>1. ASSUME NEW p \in Procs, Acquire(p) PROVE LifeInv'
    <2>1. CurrentPinServed' /\ (damage' = 0 => HandledByOwner')
        BY <1>1 DEF Acquire, clients, LifeInv, Undamaged, HandledByOwner, CurrentPinServed
    <2> QED BY <1>1, <2>1, MoveLifeInv DEF Acquire, clients, LifeInv, TypeOK
<1>2. ASSUME NEW p \in Procs, ReadRecord(p) PROVE LifeInv'
    BY <1>2, ReadLifeInv
<1>3. ASSUME NEW p \in Procs, WriteRecord(p) PROVE LifeInv'
    BY <1>3, WriteLifeInv
<1>4. ASSUME NEW p \in Procs, Listen(p) PROVE LifeInv'
    <2>1. CurrentPinServed' /\ (damage' = 0 => HandledByOwner')
        BY <1>4 DEF Listen, clients, LifeInv, Undamaged, HandledByOwner, CurrentPinServed
    <2> QED BY <1>4, <2>1, MoveLifeInv DEF Listen, clients, LifeInv, TypeOK
<1>5. ASSUME NEW p \in Procs, StartFails(p) \/ Exit(p) \/ Kill(p) PROVE LifeInv'
    BY <1>5, EndsLifeInv DEF StartFails, Exit, Kill, clients
<1>6. ASSUME NEW p \in Procs, Hello(p) PROVE LifeInv'
    <2>1. CurrentPinServed' /\ (damage' = 0 => HandledByOwner')
        BY <1>6 DEF Hello, LifeInv, Undamaged, HandledByOwner, CurrentPinServed
    <2>2. run[p] \in 1 .. Len(issued)
        BY <1>6 DEF Hello, LifeInv, TypeOK, Numbered
    <2>3. known' \subseteq 1 .. Len(issued)
        BY <1>6, <2>2 DEF Hello, LifeInv, TypeOK
    <2> QED BY <1>6, <2>1, <2>3, MoveLifeInv DEF Hello, LifeInv, TypeOK
<1>7. ASSUME NEW p \in Procs, NEW r \in 1 .. Len(issued), PinnedFrame(p, r) PROVE LifeInv'
    <2>1. /\ answer' = [kind |-> "Other", pin |-> r, by |-> run[p],
                        verdict |-> IF issued[r] # epoch[p] THEN "Fenced" ELSE "Handled"]
          /\ UNCHANGED <<lock, record, readable, pc, previous, identity, issued, known, damage>>
          /\ pc[p] \in {"serving", "stopping"} /\ run[p] \in Nat /\ r \in Nat
        BY <1>7 DEF PinnedFrame, Answer, Fenced, LifeInv, TypeOK
    <2>2. ASSUME damage' = 0 PROVE HandledByOwner'
        <3>1. Undamaged /\ run[p] = Len(issued) /\ epoch[p] = issued[Len(issued)]
            BY <2>1, <2>2 DEF LifeInv, Undamaged, Newest
        <3>2. Len(issued) \in Nat /\ issued[r] \in Nat /\ issued[Len(issued)] \in Nat
            BY DEF LifeInv, TypeOK
        <3>3. issued[r] = epoch[p] => r = run[p]
            BY <3>1, <3>2 DEF Undamaged, Ascending
        <3> QED BY <2>1, <3>3 DEF HandledByOwner
    <2>3. answer' \in [kind : Kinds, pin : Nat, by : Nat, verdict : {"None", "Fenced", "Handled"}]
        BY <2>1 DEF Kinds
    <2>4. CurrentPinServed'
        BY <2>1 DEF CurrentPinServed, LifeInv, Numbered
    <2> QED BY <2>1, <2>2, <2>3, <2>4, MoveLifeInv DEF LifeInv, TypeOK
<1>8. ASSUME NEW p \in Procs, NEW r \in 1 .. Len(issued), PinnedShutdown(p, r) PROVE LifeInv'
    <2>1. /\ answer' = [kind |-> "Shutdown", pin |-> r, by |-> run[p], verdict |-> "Handled"]
          /\ UNCHANGED <<lock, record, readable, previous, identity, issued, known, damage>>
          /\ pc[p] \in {"serving", "stopping"} /\ lock' = lock /\ pc' = [pc EXCEPT ![p] = "stopping"]
          /\ run[p] \in Nat /\ r \in Nat
        BY <1>8 DEF PinnedShutdown, Answer, LifeInv, TypeOK
    <2>2. HandledByOwner' /\ CurrentPinServed'
        BY <2>1 DEF HandledByOwner, CurrentPinServed
    <2>3. answer' \in [kind : Kinds, pin : Nat, by : Nat, verdict : {"None", "Fenced", "Handled"}]
        BY <2>1 DEF Kinds
    <2> QED BY <2>1, <2>2, <2>3, MoveLifeInv DEF LifeInv, TypeOK
<1>9. ASSUME NEW p \in Procs, Shutdown(p) PROVE LifeInv'
    <2>1. CurrentPinServed' /\ (damage' = 0 => HandledByOwner')
        BY <1>9 DEF Shutdown, clients, LifeInv, Undamaged, HandledByOwner, CurrentPinServed
    <2> QED BY <1>9, <2>1, MoveLifeInv DEF Shutdown, clients, LifeInv, TypeOK
<1>10. ASSUME DamageRecord PROVE LifeInv'
    <2>1. damage' # 0
        BY <1>10 DEF DamageRecord, LifeInv, TypeOK
    <2>2. TypeOK'
        <3>1. TypeOK /\ readable' = FALSE /\ damage' \in Nat
            BY <1>10 DEF DamageRecord, LifeInv, TypeOK
        <3>2. UNCHANGED <<lock, record, pc, previous, epoch, continuity, run, issued, known, answer>>
            BY <1>10 DEF DamageRecord, identity, clients
        <3> QED BY <3>1, <3>2, Zenon DEF TypeOK
    <2>3. LockHeld' /\ Numbered' /\ EpochInRange' /\ CurrentPinServed'
        BY <1>10 DEF DamageRecord, LifeInv, LockHeld, Numbered, EpochInRange, CurrentPinServed,
                     identity, clients
    <2> QED BY <2>1, <2>2, <2>3 DEF LifeInv
<1>11. CASE UNCHANGED vars
    BY <1>11 DEF vars, LifeInv, TypeOK, LockHeld, Numbered, EpochInRange, Undamaged, RecordLeads,
                 Ascending, Newest, HandledByOwner, CurrentPinServed
<1> QED
    BY <1>1, <1>2, <1>3, <1>4, <1>5, <1>6, <1>7, <1>8, <1>9, <1>10, <1>11
    DEF Next, StartStep, FrameStep

-----------------------------------------------------------------------------
\* The inductive invariant holds in every reachable state of the service's life.
THEOREM LifeInvariance == Spec => []LifeInv
<1> QED BY InitLifeInv, NextLifeInv, PTL DEF Spec

\* StateDirectoryLock keeps the incarnations apart: two processes are never
\* both past the lock.
THEOREM Exclusive == Spec => []OneIncarnation
<1>1. LifeInv => OneIncarnation
    BY DEF LifeInv, LockHeld, OneIncarnation
<1> QED BY <1>1, LifeInvariance, PTL

\* AdvanceIncarnation never writes epoch 0 or the maximum of the type.
THEOREM NoWrap == Spec => []EpochInRange
<1>1. LifeInv => EpochInRange
    BY DEF LifeInv
<1> QED BY <1>1, LifeInvariance, PTL

\* As long as the incarnation record has not been damaged from outside, every
\* epoch is strictly higher than all the earlier ones, over any number of
\* failed starts, kills and exits.
THEOREM Monotone == Spec => []EpochsIncrease
<1>1. LifeInv => EpochsIncrease
    BY DEF LifeInv, Undamaged, EpochsIncrease
<1> QED BY <1>1, LifeInvariance, PTL

\* As long as the record has not been damaged, a pinned request is handled
\* only by the incarnation whose epoch the client learned.
THEOREM FenceHolds == Spec => []FenceSound
<1>1. LifeInv => FenceSound
    BY DEF LifeInv, Undamaged, FenceSound
<1> QED BY <1>1, LifeInvariance, PTL

\* A request pinned to the epoch of the incarnation it reaches passes the
\* fence, whatever happened to the record.
THEOREM PinServed == Spec => []CurrentPinServed
<1>1. LifeInv => CurrentPinServed
    BY DEF LifeInv
<1> QED BY <1>1, LifeInvariance, PTL
===============================================================================
