------------------------- MODULE CoordinatorProofs -------------------------
(***************************************************************************)
(* The buffer account and the admission gate are safe for every capacity,  *)
(* corpus and rate threshold.  The gate never wedges for any pipeline      *)
(* depth; the buffer account is proved when no step is aborted with        *)
(* another one behind it (Depth = 1 or forward_interruptible off).         *)
(***************************************************************************)
EXTENDS Coordinator, TLAPS

\* No step that holds rows was admitted through a closed gate, so the
\* snapshot a rollback restores has the gate open.
SnapOpen == \A i \in DOMAIN reservations : reservations[i].snap.admission

WedgeInv == TypeOK /\ SnapOpen /\ NoAdmissionWedge

-----------------------------------------------------------------------------
(***************************************************************************)
(* Sequences: removing the i-th reservation.                               *)
(***************************************************************************)
\* The queue less the step that leaves it: one shorter, and nothing new in it.
LEMMA WithoutSeq ==
  ASSUME NEW R, reservations \in Seq(R), NEW i \in DOMAIN reservations
  PROVE  /\ Without(i) \in Seq(R)
         /\ Len(Without(i)) = Len(reservations) - 1
         /\ \A j \in DOMAIN Without(i) :
              \E k \in DOMAIN reservations :
                 k # i /\ Without(i)[j] = reservations[k]
<1> DEFINE k(j) == IF j < i THEN j ELSE j + 1
<1>1. Len(reservations) - 1 \in Nat
  OBVIOUS
<1>2. \A j \in 1 .. Len(reservations) - 1 :
         k(j) \in DOMAIN reservations /\ k(j) # i
  OBVIOUS
<1>3. \A j \in 1 .. Len(reservations) - 1 :
         Without(i)[j] = reservations[k(j)]
  BY DEF Without
<1>4. /\ Without(i) \in [1 .. Len(reservations) - 1 -> R]
      /\ DOMAIN Without(i) = 1 .. Len(reservations) - 1
  BY <1>2 DEF Without
<1>5. Without(i) \in Seq(R) /\ Len(Without(i)) = Len(reservations) - 1
  BY <1>1, <1>4
<1> QED BY <1>2, <1>3, <1>4, <1>5

\* What a step that schedules n finetuning rows adds to the queue.
NewStep(n, S) ==
    [n |-> n, off |-> CurrentOffset, samples |-> S, snap |-> Snapshot,
     aborted |-> FALSE]

\* _schedule_step either reserves nothing or appends one step of at most the
\* free rows, through an open gate with no backward pending.
LEMMA ScheduleCases ==
  ASSUME TypeOK, Schedule
  PROVE  \/ UNCHANGED <<reservations, reserved_fill>>
         \/ \E n \in 1 .. Capacity, S \in SUBSET Samples :
              /\ reservations' = Append(reservations, NewStep(n, S))
              /\ reserved_fill' = reserved_fill + n
              /\ n <= SpaceRemaining
              /\ NewStep(n, S) \in Reservation
              /\ Len(reservations) < Depth
              /\ admission_open /\ ~pending_backward
<1>0. PICK admitted \in 0 .. Budget, nextLen \in NextLens,
           nextLenAfter \in NextLens, S \in SUBSET (Samples \ buffer_samples) :
        \E scheduled \in 0 .. admitted :
          /\ scheduled > 0 => Len(reservations) < Depth
          /\ Inject(admitted, nextLen, scheduled, nextLenAfter, S)
          /\ reservations' =
               IF scheduled = 0 THEN reservations
               ELSE Append(reservations, NewStep(scheduled, S))
  BY DEF Schedule, NewStep
<1>1. PICK scheduled \in 0 .. admitted :
        /\ scheduled > 0 => Len(reservations) < Depth
        /\ Inject(admitted, nextLen, scheduled, nextLenAfter, S)
        /\ reservations' =
             IF scheduled = 0 THEN reservations
             ELSE Append(reservations, NewStep(scheduled, S))
  BY <1>0
<1>2. reserved_fill' = reserved_fill + scheduled
  BY <1>1 DEF Inject
<1>3. /\ SpaceRemaining \in 0 .. Capacity
      /\ SpaceRemaining > 0 => CurrentOffset + SpaceRemaining = Capacity
  BY CoordAssumption DEF TypeOK, BufferType, SpaceRemaining, Monus, CurrentOffset
<1>4. CASE scheduled = 0
  BY <1>1, <1>2, <1>4 DEF TypeOK, BufferType
<1>5. CASE scheduled > 0
  <2>1. Budget > 0 /\ scheduled <= Budget
    BY <1>5, <1>3, CoordAssumption DEF Budget
  <2>2. /\ Budget = SpaceRemaining /\ admission_open /\ ~pending_backward
        /\ scheduled \in 1 .. Capacity
    BY <2>1, <1>5, <1>3, CoordAssumption DEF Budget
  <2>3. CurrentOffset \in 0 .. Capacity
    BY <2>1, <2>2, <1>3, CoordAssumption DEF CurrentOffset, TypeOK, BufferType
  <2>4. NewStep(scheduled, S) \in Reservation
    BY <2>2, <2>3 DEF NewStep, Reservation, Snapshot, TypeOK, FlagType, Gate
  <2> QED BY <1>1, <1>2, <1>5, <2>1, <2>2, <2>4
<1> QED BY <1>3, <1>4, <1>5 DEF Budget

\* The types of the fields a scheduled step carries to its save or rollback.
LEMMA ReservationFields ==
  ASSUME QueueType, NEW i \in DOMAIN reservations
  PROVE  /\ reservations[i] \in Reservation
         /\ reservations[i].n \in 1 .. Capacity
         /\ reservations[i].off \in 0 .. Capacity
         /\ reservations[i].samples \in SUBSET Samples
         /\ reservations[i].snap \in Gate
         /\ reservations[i].aborted \in BOOLEAN
<1>1. reservations[i] \in Reservation
  BY DEF QueueType
<1> QED BY <1>1 DEF Reservation

\* record_capture moves the rows of the oldest step that still runs from
\* reserved to saved, and asks for a backward only with nothing reserved.
LEMMA CaptureCases ==
  ASSUME QueueType, Capture
  PROVE  \E i \in DOMAIN reservations, lens \in Seq(Nat) :
            /\ NextToRun(i)
            /\ RecordCapture(reservations[i].n, lens)
            /\ reservations' = Without(i)
<1>1. PICK i \in DOMAIN reservations :
         /\ NextToRun(i)
         /\ \E lens \in Splits(reservations[i].n) :
               RecordCapture(reservations[i].n, lens)
         /\ reservations' = Without(i)
  BY DEF Capture
<1>2. reservations[i].n \in Nat
  BY ReservationFields, CoordAssumption
<1>3. Splits(reservations[i].n) \subseteq Seq(Nat)
  <2> DEFINE n == reservations[i].n
  <2> HIDE DEF n
  <2>1. \A k \in 1 .. n : [1 .. k -> 1 .. n] \subseteq Seq(Nat)
    BY <1>2 DEF n
  <2>2. Splits(n) \subseteq UNION {[1 .. k -> 1 .. n] : k \in 1 .. n}
    BY DEF Splits
  <2>3. Splits(n) \subseteq Seq(Nat)
    BY <2>1, <2>2
  <2> QED BY <2>3 DEF n
<1> QED BY <1>1, <1>3

-----------------------------------------------------------------------------
\* A coordinator starts well typed (__init__).
LEMMA InitType == Init => TypeOK
<1> SUFFICES ASSUME Init PROVE TypeOK
  OBVIOUS
<1>1. BufferType
  BY DEF Init, BufferType
<1>2. FlagType
  BY DEF Init, FlagType
<1>3. ChildType
  BY DEF Init, ChildType, DeadAge
<1>4. QueueType
  BY CoordAssumption DEF Init, QueueType
<1> QED BY <1>1, <1>2, <1>3, <1>4 DEF TypeOK

\* note_injection returns a pair of flags.
LEMMA GateType ==
  ASSUME FlagType, NEW nextLen, NEW rows
  PROVE  Snapshot \in Gate /\ NoteInjection(nextLen, rows) \in Gate
<1>1. Snapshot \in Gate
  BY DEF FlagType, Snapshot, Gate
<1>2. [admission |-> FALSE, flush |-> TRUE] \in Gate
  BY DEF Gate
<1> QED BY <1>1, <1>2 DEF NoteInjection

\* Every operation keeps the flags Booleans.
LEMMA NextFlagType == TypeOK /\ [Next]_vars => FlagType'
<1> SUFFICES ASSUME FlagType, QueueType, [Next]_vars PROVE FlagType'
  BY DEF TypeOK
<1> USE DEF FlagType
<1>1. CASE Schedule
  <2>1. \E gate \in Gate :
           admission_open' = gate.admission /\ epoch_flush_pending' = gate.flush
    BY <1>1, GateType DEF Schedule, Inject
  <2>2. UNCHANGED <<pending_backward, ft_started, rps_throttle_active, alive>>
    BY <1>1 DEF Schedule, Inject, backward_vars
  <2> QED BY <2>1, <2>2 DEF Gate
<1>2. CASE Capture
  BY <1>2, CaptureCases DEF RecordCapture, TriggerBackward, gate_vars, backward_vars
<1>3. CASE Abort
  BY <1>3 DEF Abort, coord_vars, gate_vars, backward_vars
<1>4. CASE Undo
  <2>1. PICK i \in DOMAIN reservations :
          Rollback(reservations[i].n, reservations[i].samples,
                   reservations[i].snap)
    BY <1>4 DEF Undo
  <2>2. reservations[i].snap \in Gate
    BY ReservationFields
  <2>3. /\ reservations[i].snap.admission \in BOOLEAN
        /\ reservations[i].snap.flush \in BOOLEAN
    BY <2>2 DEF Gate
  <2> QED BY <2>1, <2>3 DEF Rollback, backward_vars
<1>5. CASE Poll
  BY <1>5 DEF Poll, TakeAck, DisableStuck, TryEpochFlush, TriggerBackward,
              backward_vars
<1>6. CASE Throttle
  BY <1>6 DEF Throttle, CheckRpsThrottle, backward_vars
<1>7. CASE Switch
  BY <1>7 DEF Switch, StartFinetuning, StopFinetuning, gate_vars, backward_vars
<1>8. CASE Child
  BY <1>8 DEF Child, ChildAck, ChildDie, Tick, gate_vars
<1>9. CASE UNCHANGED vars
  BY <1>9 DEF vars, coord_vars, gate_vars, backward_vars
<1> QED
  BY <1>1, <1>2, <1>3, <1>4, <1>5, <1>6, <1>7, <1>8, <1>9 DEF Next

\* Every operation keeps the row counters naturals.
LEMMA NextBufferType == TypeOK /\ [Next]_vars => BufferType'
<1> SUFFICES ASSUME TypeOK, BufferType, QueueType, [Next]_vars PROVE BufferType'
  BY DEF TypeOK
<1> USE DEF BufferType
<1>1. CASE Schedule
  <2>1. reserved_fill' \in Nat
    BY <1>1, ScheduleCases
  <2>2. /\ UNCHANGED <<fill_count, sample_lens>>
        /\ buffer_samples' \subseteq Samples
    BY <1>1 DEF Schedule, Inject
  <2> QED BY <2>1, <2>2
<1>2. CASE Capture
  <2>1. PICK i \in DOMAIN reservations, lens \in Seq(Nat) :
          RecordCapture(reservations[i].n, lens)
    BY <1>2, CaptureCases
  <2>2. reservations[i].n \in Nat
    BY ReservationFields, CoordAssumption
  <2>3. sample_lens' \in Seq(Nat)
    BY <2>1, <2>2 DEF RecordCapture
  <2>4. fill_count' \in Nat /\ reserved_fill' \in Nat
    BY <2>1, <2>2 DEF RecordCapture, Monus
  <2>5. buffer_samples' = buffer_samples
    BY <2>1 DEF RecordCapture
  <2> QED BY <2>3, <2>4, <2>5
<1>3. CASE Abort
  BY <1>3 DEF Abort, coord_vars, buffer_vars
<1>4. CASE Undo
  <2>1. PICK i \in DOMAIN reservations :
          Rollback(reservations[i].n, reservations[i].samples,
                   reservations[i].snap)
    BY <1>4 DEF Undo
  <2>2. reservations[i].n \in Nat
    BY ReservationFields, CoordAssumption
  <2> QED BY <2>1, <2>2 DEF Rollback, Monus
<1>5. CASE Poll
  <2>1. CASE TakeAck
    BY <2>1 DEF TakeAck
  <2>2. CASE DisableStuck \/ TryEpochFlush
    BY <2>2 DEF DisableStuck, TryEpochFlush, buffer_vars
  <2> QED BY <1>5, <2>1, <2>2 DEF Poll
<1>6. CASE Throttle
  BY <1>6 DEF Throttle, CheckRpsThrottle, buffer_vars
<1>7. CASE Switch
  BY <1>7 DEF Switch, StartFinetuning, StopFinetuning, buffer_vars
<1>8. CASE Child
  BY <1>8 DEF Child, ChildAck, ChildDie, Tick, buffer_vars
<1>9. CASE UNCHANGED vars
  BY <1>9 DEF vars, coord_vars, buffer_vars
<1> QED
  BY <1>1, <1>2, <1>3, <1>4, <1>5, <1>6, <1>7, <1>8, <1>9 DEF Next

\* Every operation keeps the hand-off to the child in its range.
LEMMA NextChildType == TypeOK /\ [Next]_vars => ChildType'
<1> SUFFICES ASSUME TypeOK, ChildType, [Next]_vars PROVE ChildType'
  BY DEF TypeOK
<1> USE DEF ChildType, DeadAge
<1>1. CASE Schedule
  BY <1>1 DEF Schedule, Inject, backward_vars
<1>2. CASE Capture
  <2>1. PICK i \in DOMAIN reservations, lens \in Seq(Nat) :
          RecordCapture(reservations[i].n, lens)
    BY <1>2, CaptureCases DEF TypeOK
  <2> QED BY <2>1 DEF RecordCapture, TriggerBackward, backward_vars
<1>3. CASE Abort
  BY <1>3 DEF Abort, coord_vars, backward_vars
<1>4. CASE Undo
  BY <1>4 DEF Undo, Rollback, backward_vars
<1>5. CASE Poll
  BY <1>5 DEF Poll, TakeAck, DisableStuck, TryEpochFlush, TriggerBackward,
              backward_vars
<1>6. CASE Throttle
  BY <1>6 DEF Throttle, CheckRpsThrottle, backward_vars
<1>7. CASE Switch
  BY <1>7 DEF Switch, StartFinetuning, StopFinetuning, backward_vars
<1>8. CASE Child
  BY <1>8 DEF Child, ChildAck, ChildDie, Tick
<1>9. CASE UNCHANGED vars
  BY <1>9 DEF vars, coord_vars, backward_vars
<1> QED
  BY <1>1, <1>2, <1>3, <1>4, <1>5, <1>6, <1>7, <1>8, <1>9 DEF Next

\* Every operation keeps the queue of steps within the pipeline's depth.
LEMMA NextQueueType == TypeOK /\ [Next]_vars => QueueType'
<1> SUFFICES ASSUME TypeOK, QueueType, [Next]_vars PROVE QueueType'
  BY DEF TypeOK
<1>1. CASE Schedule
  <2>1. CASE UNCHANGED <<reservations, reserved_fill>>
    BY <2>1 DEF QueueType
  <2>2. CASE \E n \in 1 .. Capacity, S \in SUBSET Samples :
               /\ reservations' = Append(reservations, NewStep(n, S))
               /\ NewStep(n, S) \in Reservation
               /\ Len(reservations) < Depth
    <3>1. PICK r \in Reservation : reservations' = Append(reservations, r)
      BY <2>2
    <3>2. Len(reservations) < Depth
      BY <2>2
    <3> HIDE DEF QueueType
    <3> QED BY <3>1, <3>2, CoordAssumption DEF QueueType
  <2> QED BY <1>1, <2>1, <2>2, ScheduleCases
<1>2. CASE Capture
  <2>1. PICK i \in DOMAIN reservations : reservations' = Without(i)
    BY <1>2 DEF Capture
  <2> QED BY <2>1, WithoutSeq, CoordAssumption DEF QueueType
<1>3. CASE Abort
  <2>1. PICK i \in DOMAIN reservations :
          reservations' = [reservations EXCEPT ![i].aborted = TRUE]
    BY <1>3 DEF Abort
  <2>2. [reservations[i] EXCEPT !.aborted = TRUE] \in Reservation
    BY ReservationFields DEF Reservation
  <2> QED BY <2>1, <2>2 DEF QueueType
<1>4. CASE Undo
  <2>1. PICK i \in DOMAIN reservations : reservations' = Without(i)
    BY <1>4 DEF Undo
  <2> QED BY <2>1, WithoutSeq, CoordAssumption DEF QueueType
<1>5. CASE UNCHANGED reservations
  BY <1>5 DEF QueueType
<1> QED
  BY <1>1, <1>2, <1>3, <1>4, <1>5 DEF Next, Poll, Throttle, Switch, Child, vars

\* Every operation keeps all the types.
LEMMA NextType == TypeOK /\ [Next]_vars => TypeOK'
  BY NextBufferType, NextFlagType, NextChildType, NextQueueType DEF TypeOK

\* Counters stay naturals and no more steps are in flight than the pipeline
\* is deep, for every capacity, corpus and depth.
THEOREM TypeCorrect == Spec => []TypeOK
  BY InitType, NextType, PTL DEF Spec

-----------------------------------------------------------------------------
(***************************************************************************)
(* The gate.  A rollback always restores an open gate, so the only ways to *)
(* close it leave somebody who opens it again.                             *)
(***************************************************************************)
\* A step gets rows only through an open gate, so its snapshot has it open.
LEMMA ScheduleSnapOpen ==
  ASSUME WedgeInv, Schedule PROVE SnapOpen'
<1>1. CASE UNCHANGED <<reservations, reserved_fill>>
  BY <1>1 DEF WedgeInv, SnapOpen
<1>2. CASE \E n \in 1 .. Capacity, S \in SUBSET Samples :
             /\ reservations' = Append(reservations, NewStep(n, S))
             /\ NewStep(n, S) \in Reservation
             /\ admission_open
  <2>1. PICK r \in Reservation :
          reservations' = Append(reservations, r) /\ r.snap.admission
    BY <1>2 DEF NewStep, Snapshot
  <2> QED BY <2>1 DEF WedgeInv, SnapOpen, TypeOK, QueueType
<1> QED BY <1>1, <1>2, ScheduleCases DEF WedgeInv

\* Every operation that closes the gate leaves one that will open it.
LEMMA NextWedge == WedgeInv /\ [Next]_vars => WedgeInv'
<1> SUFFICES ASSUME WedgeInv, TypeOK, [Next]_vars
             PROVE  SnapOpen' /\ NoAdmissionWedge'
  BY NextType DEF WedgeInv
<1> USE DEF NoAdmissionWedge
<1>0. BufferType /\ QueueType
  BY DEF TypeOK
<1>1. CASE Schedule
  <2>1. SnapOpen'
    BY <1>1, ScheduleSnapOpen
  <2>2. NoAdmissionWedge'
    <3>1. PICK admitted \in 0 .. Budget, nextLen \in NextLens,
               nextLenAfter \in NextLens,
               S \in SUBSET (Samples \ buffer_samples) :
            \E scheduled \in 0 .. admitted :
               Inject(admitted, nextLen, scheduled, nextLenAfter, S)
      BY <1>1 DEF Schedule
    <3>2. PICK scheduled \in 0 .. admitted :
               Inject(admitted, nextLen, scheduled, nextLenAfter, S)
      BY <3>1
    <3>3. Budget \in Nat
      BY <1>0, CoordAssumption DEF Budget, BufferType, SpaceRemaining, Monus
    <3>4. admitted \in Nat /\ scheduled \in Nat /\ scheduled <= admitted
      BY <3>3
    <3>5. fill_count' = fill_count /\ reserved_fill' = reserved_fill + scheduled
          /\ pending_backward' = pending_backward
          /\ rps_throttle_active' = rps_throttle_active
      BY <3>2 DEF Inject, backward_vars
    <3>6. \/ admission_open' = admission_open
             /\ epoch_flush_pending' = epoch_flush_pending
          \/ /\ epoch_flush_pending'
             /\ fill_count + reserved_fill + scheduled > 0
      <4>1. \A nl, rows : \/ NoteInjection(nl, rows) = Snapshot
                          \/ /\ NoteInjection(nl, rows).flush
                             /\ fill_count + reserved_fill + rows > 0
        BY DEF NoteInjection
      <4> QED BY <3>2, <3>4, <4>1 DEF Inject, Snapshot
    <3> QED BY <3>4, <3>5, <3>6, <1>0 DEF BufferType, WedgeInv
  <2> QED BY <2>1, <2>2
<1>2. CASE Capture
  <2>1. PICK i \in DOMAIN reservations, lens \in Seq(Nat) :
          /\ RecordCapture(reservations[i].n, lens)
          /\ reservations' = Without(i)
    BY <1>0, <1>2, CaptureCases
  <2>2. reservations[i].n \in Nat \ {0}
    BY <1>0, ReservationFields, CoordAssumption
  <2>3. fill_count' + reserved_fill' > 0
    BY <2>1, <2>2, <1>0 DEF RecordCapture, Monus, BufferType
  <2>4. NoAdmissionWedge'
    BY <2>1, <2>3 DEF RecordCapture, TriggerBackward, gate_vars, backward_vars,
                      WedgeInv
  <2> QED BY <2>1, <2>4, <1>0, WithoutSeq DEF SnapOpen, WedgeInv, QueueType
<1>3. CASE Abort
  <2>1. PICK i \in DOMAIN reservations :
          reservations' = [reservations EXCEPT ![i].aborted = TRUE]
    BY <1>3 DEF Abort
  <2>2. \A j \in DOMAIN reservations' :
           j \in DOMAIN reservations
             /\ reservations'[j].snap = reservations[j].snap
    BY <2>1, <1>0, ReservationFields DEF Reservation
  <2> QED BY <1>3, <2>2 DEF Abort, coord_vars, gate_vars, buffer_vars,
                            backward_vars, SnapOpen, WedgeInv
<1>4. CASE Undo
  <2>1. PICK i \in DOMAIN reservations :
          /\ admission_open' = reservations[i].snap.admission
          /\ reservations' = Without(i)
    BY <1>4 DEF Undo, Rollback
  <2> QED BY <2>1, <1>0, WithoutSeq DEF SnapOpen, WedgeInv, QueueType
<1>5. CASE Poll
  BY <1>5 DEF Poll, TakeAck, DisableStuck, TryEpochFlush, TriggerBackward,
              SnapOpen, WedgeInv, backward_vars
<1>6. CASE Throttle
  <2>1. PICK rate \in 0 .. CloseRps + 1, held \in BOOLEAN :
          CheckRpsThrottle(rate, held)
    BY <1>6 DEF Throttle
  <2>2. /\ admission_open' \/ rps_throttle_active'
           \/ (admission_open' = admission_open /\ ~rps_throttle_active)
    BY <2>1 DEF CheckRpsThrottle
  <2>3. UNCHANGED <<reservations, pending_backward, epoch_flush_pending,
                    fill_count, reserved_fill>>
    BY <1>6 DEF Throttle, CheckRpsThrottle, backward_vars, buffer_vars
  <2> QED BY <2>2, <2>3 DEF SnapOpen, WedgeInv
<1>7. CASE Switch
  BY <1>7 DEF Switch, StartFinetuning, StopFinetuning, gate_vars, SnapOpen,
              WedgeInv, backward_vars, buffer_vars
<1>8. CASE Child
  BY <1>8 DEF Child, ChildAck, ChildDie, Tick, gate_vars, SnapOpen, WedgeInv,
              buffer_vars
<1>9. CASE UNCHANGED vars
  BY <1>9 DEF vars, coord_vars, gate_vars, backward_vars, buffer_vars,
              SnapOpen, WedgeInv
<1> QED
  BY <1>1, <1>2, <1>3, <1>4, <1>5, <1>6, <1>7, <1>8, <1>9 DEF Next

\* Whatever the depth of the pipeline and wherever steps abort, the admission
\* gate is never closed without an ack, a flush or a throttle release to come.
THEOREM GateNeverWedges == Spec => []NoAdmissionWedge
<1>1. Init => WedgeInv
  BY InitType DEF WedgeInv, Init, SnapOpen, NoAdmissionWedge
<1>2. WedgeInv => NoAdmissionWedge
  BY DEF WedgeInv
<1> QED BY <1>1, <1>2, NextWedge, PTL DEF Spec

-----------------------------------------------------------------------------
(***************************************************************************)
(* The buffer account, when a step that aborts has no other behind it.     *)
(***************************************************************************)
Serial == ~Interruptible \/ Depth = 1

\* RowsContiguous relates neighbours; this relates any two steps.
Ordered ==
    \A i, j \in DOMAIN reservations :
       i < j => EndOf(reservations[i]) <= reservations[j].off

AbortsNeedTierC ==
    \A i \in DOMAIN reservations : reservations[i].aborted => Interruptible

BufInv ==
    /\ TypeOK
    /\ NoOverflow
    /\ RowsContiguous
    /\ Ordered
    /\ ChildOwnsBuffer
    /\ AbortsNeedTierC

\* A step in flight holds at least one row.
LEMMA HeldRows ==
  ASSUME BufInv
  PROVE  /\ reservations = <<>> <=> reserved_fill = 0
         /\ \A i \in DOMAIN reservations :
              /\ fill_count <= reservations[i].off
              /\ EndOf(reservations[i]) <= fill_count + reserved_fill
<1> DEFINE k == Len(reservations)
<1>1. BufferType /\ QueueType
  BY DEF BufInv, TypeOK
<1>2. k \in Nat /\ DOMAIN reservations = 1 .. k
  BY <1>1 DEF QueueType
<1>3. \A i \in 1 .. k : /\ reservations[i].n \in Nat \ {0}
                        /\ reservations[i].off \in Nat
                        /\ EndOf(reservations[i]) = reservations[i].off
                                                      + reservations[i].n
  BY <1>1, <1>2, ReservationFields, CoordAssumption DEF EndOf
<1>4. CASE k = 0
  BY <1>1, <1>2, <1>4 DEF BufInv, RowsContiguous, QueueType
<1>5. CASE k > 0
  <2>1. /\ reservations[1].off = fill_count
        /\ EndOf(reservations[k]) = fill_count + reserved_fill
    BY <1>5 DEF BufInv, RowsContiguous
  <2>2. \A i, j \in 1 .. k : i < j => EndOf(reservations[i]) <= reservations[j].off
    BY <1>2 DEF BufInv, Ordered
  <2>3. \A i \in 1 .. k : /\ fill_count <= reservations[i].off
                          /\ EndOf(reservations[i]) <= fill_count + reserved_fill
    <3> SUFFICES ASSUME NEW i \in 1 .. k
                 PROVE  /\ fill_count <= reservations[i].off
                        /\ EndOf(reservations[i]) <= fill_count + reserved_fill
      OBVIOUS
    <3>1. 1 \in 1 .. k /\ k \in 1 .. k
      BY <1>2, <1>5
    <3>0. k \in Nat
      BY <1>2
    <3>2. i = 1 \/ EndOf(reservations[1]) <= reservations[i].off
      BY <2>2, <3>1, <1>2
    <3> HIDE DEF k
    <3>3. i = k \/ EndOf(reservations[i]) <= reservations[k].off
      BY <2>2, <3>1, <3>0
    <3>4. /\ EndOf(reservations[1]) = reservations[1].off + reservations[1].n
          /\ reservations[1].off \in Nat /\ reservations[1].n \in Nat
      BY <1>3, <3>1
    <3>5. /\ EndOf(reservations[i]) = reservations[i].off + reservations[i].n
          /\ reservations[i].off \in Nat /\ reservations[i].n \in Nat
      BY <1>3
    <3>6. /\ EndOf(reservations[k]) = reservations[k].off + reservations[k].n
          /\ reservations[k].off \in Nat /\ reservations[k].n \in Nat
      BY <1>3, <3>1
    <3>7. fill_count <= reservations[i].off
      <4>1. CASE i = 1  BY <4>1, <2>1, <3>4
      <4>2. CASE EndOf(reservations[1]) <= reservations[i].off
        BY <4>2, <2>1, <3>4, <3>5
      <4> QED BY <3>2, <4>1, <4>2
    <3>8. EndOf(reservations[i]) <= fill_count + reserved_fill
      <4>1. CASE i = k  BY <4>1, <2>1, <3>6
      <4>2. CASE EndOf(reservations[i]) <= reservations[k].off
        BY <4>2, <2>1, <3>5, <3>6
      <4> QED BY <3>3, <4>1, <4>2
    <3> QED BY <3>7, <3>8
  <2>4. reserved_fill > 0
    <3>1. 1 \in 1 .. k
      BY <1>2, <1>5
    <3>2. /\ EndOf(reservations[1]) = reservations[1].off + reservations[1].n
          /\ reservations[1].n \in Nat \ {0}
      BY <1>3, <3>1
    <3>3. EndOf(reservations[1]) <= fill_count + reserved_fill
      BY <2>3, <3>1
    <3> HIDE DEF k
    <3> QED BY <1>1, <2>1, <3>2, <3>3 DEF BufferType
  <2> QED BY <1>2, <1>5, <2>3, <2>4
<1> QED BY <1>2, <1>4, <1>5

\* With no step behind an aborted one, the next to run or to roll back is the
\* oldest.
LEMMA OldestFirst ==
  ASSUME Serial, BufInv, NEW i \in DOMAIN reservations,
         NextToRun(i) \/ Interruptible
  PROVE  i = 1
<1>1. QueueType
  BY DEF BufInv, TypeOK
<1>2. CASE Depth = 1
  BY <1>1, <1>2 DEF QueueType
<1>3. CASE ~Interruptible
  <2>1. \A j \in DOMAIN reservations : ~reservations[j].aborted
    BY <1>3 DEF BufInv, AbortsNeedTierC
  <2> QED BY <1>1, <1>3, <2>1 DEF NextToRun, QueueType
<1> QED BY <1>2, <1>3 DEF Serial

\* A reservation goes behind the last one and fits the buffer (reserve).
LEMMA ScheduleBuf ==
  ASSUME BufInv, Schedule, TypeOK'
  PROVE  BufInv'
<1> DEFINE k == Len(reservations)
<1>1. BufferType /\ QueueType /\ k \in Nat
  BY DEF BufInv, TypeOK, QueueType
<1>2. UNCHANGED <<fill_count, pending_backward>>
  BY DEF Schedule, Inject, backward_vars
<1>3. CASE UNCHANGED <<reservations, reserved_fill>>
  <2>1. pending_backward => epoch_flush_pending' = epoch_flush_pending
    BY DEF Schedule, Inject, NoteInjection, Snapshot
  <2>2. ChildOwnsBuffer'
    BY <1>2, <1>3, <2>1 DEF BufInv, ChildOwnsBuffer
  <2> QED BY <1>2, <1>3, <2>2
          DEF BufInv, NoOverflow, RowsContiguous, Ordered, AbortsNeedTierC, EndOf
<1>4. CASE \E n \in 1 .. Capacity, S \in SUBSET Samples :
             /\ reservations' = Append(reservations, NewStep(n, S))
             /\ reserved_fill' = reserved_fill + n
             /\ n <= SpaceRemaining
             /\ NewStep(n, S) \in Reservation
             /\ ~pending_backward
  <2>1. PICK n \in 1 .. Capacity, r \in Reservation :
             /\ reservations' = Append(reservations, r)
             /\ r.n = n /\ r.off = fill_count + reserved_fill /\ ~r.aborted
             /\ reserved_fill' = reserved_fill + n
             /\ n <= SpaceRemaining
             /\ ~pending_backward
    BY <1>4 DEF NewStep, CurrentOffset
  <2>2. /\ Len(reservations') = k + 1
        /\ DOMAIN reservations' = 1 .. k + 1
        /\ \A i \in 1 .. k : reservations'[i] = reservations[i]
        /\ reservations'[k + 1] = r
    BY <2>1, <1>1 DEF QueueType
  <2>3. NoOverflow'
    BY <1>1, <1>2, <2>1, CoordAssumption
    DEF NoOverflow, BufferType, SpaceRemaining, Monus
  <2>4. EndOf(r) = fill_count' + reserved_fill'
    BY <1>1, <1>2, <2>1, CoordAssumption DEF EndOf, BufferType
  <2>5. RowsContiguous'
    <3>1. CASE k = 0
      <4>1. reserved_fill = 0 /\ reservations'[1] = r /\ Len(reservations') = 1
        BY <3>1, <2>2 DEF BufInv, RowsContiguous
      <4>2. r.off = fill_count'
        BY <4>1, <2>1, <1>1, <1>2 DEF BufferType
      <4> QED BY <4>1, <4>2, <2>4 DEF RowsContiguous
    <3>2. CASE k > 0
      <4>1. /\ reservations[1].off = fill_count
            /\ EndOf(reservations[k]) = fill_count + reserved_fill
            /\ \A i \in 1 .. k - 1 :
                  reservations[i + 1].off = EndOf(reservations[i])
        BY <3>2 DEF BufInv, RowsContiguous
      <4> HIDE DEF k
      <4>2. reservations'[1].off = fill_count'
        BY <4>1, <3>2, <1>1, <1>2, <2>2
      <4>3. EndOf(reservations'[k + 1]) = fill_count' + reserved_fill'
        BY <2>2, <2>4
      <4>4. \A i \in 1 .. k : reservations'[i + 1].off = EndOf(reservations'[i])
        <5> SUFFICES ASSUME NEW i \in 1 .. k
                     PROVE  reservations'[i + 1].off = EndOf(reservations'[i])
          OBVIOUS
        <5>1. CASE i = k
          BY <5>1, <1>1, <2>1, <2>2, <4>1, <3>2 DEF EndOf
        <5>2. CASE i \in 1 .. k - 1
          <6>1. i + 1 \in 1 .. k
            BY <5>2, <1>1
          <6> QED BY <5>2, <6>1, <2>2, <4>1 DEF EndOf
        <5> QED BY <5>1, <5>2, <1>1
      <4>5. (k + 1) - 1 = k /\ k + 1 # 0
        BY <1>1
      <4> QED BY <2>2, <4>2, <4>3, <4>4, <4>5 DEF RowsContiguous
    <3> QED BY <3>1, <3>2, <1>1
  <2>6. Ordered'
    <3>1. \A i \in 1 .. k : EndOf(reservations[i]) <= r.off
      BY <1>1, <2>1, HeldRows DEF QueueType
    <3>2. \A i, j \in 1 .. k :
             i < j => EndOf(reservations[i]) <= reservations[j].off
      BY <1>1 DEF BufInv, Ordered, QueueType
    <3> HIDE DEF k
    <3> SUFFICES ASSUME NEW i \in 1 .. k + 1, NEW j \in 1 .. k + 1, i < j
                 PROVE  EndOf(reservations'[i]) <= reservations'[j].off
      BY <2>2 DEF Ordered
    <3>3. i \in 1 .. k
      BY <1>1
    <3>4. CASE j = k + 1  BY <3>1, <3>3, <3>4, <2>2
    <3>5. CASE j \in 1 .. k  BY <3>2, <3>3, <3>5, <2>2
    <3> QED BY <3>4, <3>5, <1>1
  <2>7. ChildOwnsBuffer'
    BY <1>2, <2>1 DEF ChildOwnsBuffer
  <2>8. AbortsNeedTierC'
    <3>1. \A i \in 1 .. k : reservations[i].aborted => Interruptible
      BY <1>1 DEF BufInv, AbortsNeedTierC, QueueType
    <3> HIDE DEF k
    <3> QED BY <3>1, <1>1, <2>1, <2>2 DEF AbortsNeedTierC
  <2> QED BY <2>3, <2>5, <2>6, <2>7, <2>8 DEF BufInv
<1> QED BY <1>3, <1>4, ScheduleCases DEF BufInv

\* What is left when the oldest step leaves the queue.
LEMMA TailRows ==
  ASSUME BufInv, 1 \in DOMAIN reservations
  PROVE  /\ Without(1) \in Seq(Reservation)
         /\ Len(Without(1)) = Len(reservations) - 1
         /\ \A j \in 1 .. Len(reservations) - 1 :
              Without(1)[j] = reservations[j + 1]
         /\ reservations[1].off = fill_count
         /\ reservations[1].n \in Nat \ {0}
         /\ reservations[1].n <= reserved_fill
         /\ Len(reservations) = 1 => reservations[1].n = reserved_fill
         /\ Len(reservations) > 1 => reservations[1].n < reserved_fill
<1>1. BufferType /\ QueueType
  BY DEF BufInv, TypeOK
<1>2. /\ Without(1) \in Seq(Reservation)
      /\ Len(Without(1)) = Len(reservations) - 1
  BY <1>1, WithoutSeq DEF QueueType
<1>3. \A j \in 1 .. Len(reservations) - 1 :
        Without(1)[j] = reservations[j + 1]
  BY <1>1 DEF Without, QueueType
<1>4. /\ reservations[1].n \in Nat \ {0}
      /\ reservations[1].off \in Nat
      /\ EndOf(reservations[1]) = reservations[1].off + reservations[1].n
  BY <1>1, ReservationFields, CoordAssumption DEF EndOf
<1>5. Len(reservations) \in Nat \ {0}
  BY <1>1 DEF QueueType
<1>6. reservations[1].off = fill_count
  BY <1>5 DEF BufInv, RowsContiguous
<1>7. reservations[1].n <= reserved_fill
  BY <1>1, <1>4, <1>6, HeldRows DEF BufferType
<1>8. Len(reservations) = 1 => reservations[1].n = reserved_fill
  BY <1>1, <1>4, <1>6 DEF BufInv, RowsContiguous, BufferType
<1>9. ASSUME Len(reservations) > 1 PROVE reservations[1].n < reserved_fill
  <2>1. 2 \in DOMAIN reservations
    BY <1>1, <1>9 DEF QueueType
  <2>2. EndOf(reservations[1]) <= reservations[2].off
    BY <2>1 DEF BufInv, Ordered
  <2>3. /\ EndOf(reservations[2]) = reservations[2].off + reservations[2].n
        /\ reservations[2].off \in Nat /\ reservations[2].n \in Nat \ {0}
    BY <1>1, <2>1, ReservationFields, CoordAssumption DEF EndOf
  <2>4. EndOf(reservations[2]) <= fill_count + reserved_fill
    BY <2>1, HeldRows
  <2> QED BY <1>1, <1>4, <1>6, <2>2, <2>3, <2>4 DEF BufferType
<1> QED BY <1>2, <1>3, <1>4, <1>6, <1>7, <1>8, <1>9

\* The oldest step leaves and its rows stay (Capture) or are given back (Undo).
LEMMA LeaveBuf ==
  ASSUME BufInv, TypeOK', 1 \in DOMAIN reservations,
         reservations' = Without(1),
         reserved_fill' = reserved_fill - reservations[1].n,
         \/ fill_count' = fill_count + reservations[1].n
         \/ fill_count' = fill_count /\ Len(reservations) = 1
  PROVE  /\ NoOverflow' /\ RowsContiguous' /\ Ordered' /\ AbortsNeedTierC'
         /\ reserved_fill' = 0 => reservations' = <<>>
<1> DEFINE k == Len(reservations)
<1>1. /\ BufferType /\ QueueType /\ k \in Nat \ {0}
      /\ DOMAIN reservations = 1 .. k
  BY DEF BufInv, TypeOK, QueueType
<1>2. /\ Len(reservations') = k - 1
      /\ DOMAIN reservations' = 1 .. k - 1
      /\ \A j \in 1 .. k - 1 : reservations'[j] = reservations[j + 1]
      /\ reservations' \in Seq(Reservation)
  BY TailRows
<1> DEFINE n == reservations[1].n
<1>3. /\ n \in Nat \ {0} /\ n <= reserved_fill
      /\ k = 1 => n = reserved_fill
      /\ k > 1 => n < reserved_fill
      /\ reservations[1].off = fill_count
  BY TailRows
<1>4. NoOverflow'
  BY <1>1, <1>3, CoordAssumption DEF BufInv, NoOverflow, BufferType
<1>5. RowsContiguous'
  <2>1. CASE k = 1
    BY <2>1, <1>1, <1>2, <1>3 DEF RowsContiguous, BufferType
  <2>2. CASE k > 1
    <3>0. k # 1
      BY <2>2, <1>1
    <3>1. fill_count' = fill_count + n
      BY <3>0
    <3>2. /\ EndOf(reservations[k]) = fill_count + reserved_fill
          /\ \A i \in 1 .. k - 1 :
                reservations[i + 1].off = EndOf(reservations[i])
      BY <2>2 DEF BufInv, RowsContiguous
    <3>3. /\ 1 \in 1 .. k - 1 /\ k - 1 \in 1 .. k - 1
          /\ (k - 1) + 1 = k /\ 1 + 1 = 2
      BY <2>2, <1>1
    <3> HIDE DEF k, n
    <3>4. reservations'[1].off = fill_count'
      <4>1. reservations[2].off = EndOf(reservations[1])
        BY <3>2, <3>3
      <4> QED BY <4>1, <1>2, <1>3, <3>1, <3>3 DEF EndOf, n
    <3>5. EndOf(reservations'[k - 1]) = fill_count' + reserved_fill'
      <4>1. reservations'[k - 1] = reservations[k]
        BY <1>2, <3>3
      <4>2. reserved_fill' = reserved_fill - n
        BY DEF n
      <4> QED BY <4>1, <4>2, <3>1, <3>2, <1>1, <1>3 DEF EndOf, BufferType
    <3>6. \A i \in 1 .. (k - 1) - 1 :
             reservations'[i + 1].off = EndOf(reservations'[i])
      <4> SUFFICES ASSUME NEW i \in 1 .. (k - 1) - 1
                   PROVE  reservations'[i + 1].off = EndOf(reservations'[i])
        OBVIOUS
      <4>1. i \in 1 .. k - 1 /\ i + 1 \in 1 .. k - 1
        BY <1>1
      <4>2. reservations'[i] = reservations[i + 1]
        BY <4>1, <1>2
      <4>3. reservations'[i + 1] = reservations[(i + 1) + 1]
        BY <4>1, <1>2
      <4>4. reservations[(i + 1) + 1].off = EndOf(reservations[i + 1])
        BY <4>1, <3>2
      <4> QED BY <4>2, <4>3, <4>4 DEF EndOf
    <3>7. k - 1 # 0
      BY <2>2, <1>1
    <3> QED BY <1>2, <3>4, <3>5, <3>6, <3>7 DEF RowsContiguous
  <2> QED BY <2>1, <2>2, <1>1
<1>6. Ordered'
  <2>1. \A i, j \in 1 .. k : i < j => EndOf(reservations[i]) <= reservations[j].off
    BY <1>1 DEF BufInv, Ordered
  <2> HIDE DEF k, n
  <2> SUFFICES ASSUME NEW i \in 1 .. k - 1, NEW j \in 1 .. k - 1, i < j
               PROVE  EndOf(reservations'[i]) <= reservations'[j].off
    BY <1>2 DEF Ordered
  <2>2. i + 1 \in 1 .. k /\ j + 1 \in 1 .. k /\ i + 1 < j + 1
    BY <1>1
  <2>3. EndOf(reservations[i + 1]) <= reservations[j + 1].off
    BY <2>1, <2>2
  <2> QED BY <2>3, <1>2 DEF EndOf
<1>7. AbortsNeedTierC'
  <2>1. \A i \in 1 .. k : reservations[i].aborted => Interruptible
    BY <1>1 DEF BufInv, AbortsNeedTierC
  <2> HIDE DEF k, n
  <2>2. \A i \in 1 .. k - 1 : i + 1 \in 1 .. k
    BY <1>1
  <2> QED BY <2>1, <2>2, <1>2 DEF AbortsNeedTierC
<1>8. reserved_fill' = 0 => reservations' = <<>>
  <2>1. reserved_fill' = 0 => k = 1
    BY <1>1, <1>3 DEF BufferType
  <2> QED BY <2>1, <1>2
<1> QED BY <1>4, <1>5, <1>6, <1>7, <1>8

\* Every operation keeps the buffer account, when Serial holds.
LEMMA NextBuf ==
  ASSUME Serial, BufInv, [Next]_vars
  PROVE  BufInv'
<1>0. TypeOK'
  BY NextType DEF BufInv
<1>1. BufferType /\ QueueType
  BY DEF BufInv, TypeOK
<1>2. CASE Schedule
  BY <1>0, <1>2, ScheduleBuf
<1>3. CASE Capture
  <2>1. PICK i \in DOMAIN reservations, lens \in Seq(Nat) :
          /\ NextToRun(i)
          /\ RecordCapture(reservations[i].n, lens)
          /\ reservations' = Without(i)
    BY <1>1, <1>3, CaptureCases
  <2>2. i = 1
    BY <2>1, OldestFirst
  <2>3. /\ fill_count' = fill_count + reservations[1].n
        /\ reserved_fill' = reserved_fill - reservations[1].n
    BY <1>1, <2>1, <2>2, TailRows DEF RecordCapture, Monus, BufferType
  <2>4. /\ NoOverflow' /\ RowsContiguous' /\ Ordered' /\ AbortsNeedTierC'
        /\ reserved_fill' = 0 => reservations' = <<>>
    BY <1>0, <2>1, <2>2, <2>3, LeaveBuf
  <2>5. ChildOwnsBuffer'
    <3>1. ~pending_backward
      BY <1>1, <2>1 DEF BufInv, ChildOwnsBuffer, QueueType
    <3>2. reservations[1].n \in Nat \ {0}
      BY <2>1, <2>2, TailRows
    <3>3. fill_count' > 0
      BY <1>1, <2>3, <3>2 DEF BufferType
    <3>4. pending_backward' => reserved_fill' = 0 /\ ~epoch_flush_pending'
      BY <2>1, <3>1 DEF RecordCapture, TriggerBackward, backward_vars
    <3> QED BY <2>4, <3>3, <3>4 DEF ChildOwnsBuffer
  <2> QED BY <1>0, <2>4, <2>5 DEF BufInv
<1>4. CASE Abort
  <2>1. PICK i \in DOMAIN reservations :
          /\ Interruptible
          /\ reservations' = [reservations EXCEPT ![i].aborted = TRUE]
    BY <1>4 DEF Abort
  <2>2. UNCHANGED <<fill_count, reserved_fill, pending_backward,
                    epoch_flush_pending>>
    BY <1>4 DEF Abort, coord_vars, buffer_vars, gate_vars, backward_vars
  <2>3. \A j \in DOMAIN reservations :
           reservations'[j].off = reservations[j].off
             /\ reservations'[j].n = reservations[j].n
    BY <1>1, <2>1, ReservationFields DEF Reservation
  <2>4. DOMAIN reservations' = DOMAIN reservations
        /\ Len(reservations') = Len(reservations)
    BY <1>1, <2>1 DEF QueueType
  <2>5. NoOverflow' /\ AbortsNeedTierC'
    BY <2>1, <2>2 DEF BufInv, NoOverflow, AbortsNeedTierC
  <2>6. Ordered'
    BY <2>3, <2>4 DEF BufInv, Ordered, EndOf
  <2>7. ChildOwnsBuffer'
    BY <1>1, <2>1, <2>2 DEF BufInv, ChildOwnsBuffer, QueueType
  <2>8. RowsContiguous'
    <3> DEFINE k == Len(reservations)
    <3>1. k \in Nat \ {0} /\ DOMAIN reservations = 1 .. k
      BY <1>1, <2>1 DEF QueueType
    <3>2. /\ reservations[1].off = fill_count
          /\ EndOf(reservations[k]) = fill_count + reserved_fill
          /\ \A j \in 1 .. k - 1 :
                reservations[j + 1].off = EndOf(reservations[j])
      BY <3>1 DEF BufInv, RowsContiguous
    <3>3. \A j \in 1 .. k : EndOf(reservations'[j]) = EndOf(reservations[j])
                            /\ reservations'[j].off = reservations[j].off
      BY <3>1, <2>3 DEF EndOf
    <3> HIDE DEF k
    <3>4. \A j \in 1 .. k - 1 : j \in 1 .. k /\ j + 1 \in 1 .. k
      BY <3>1
    <3>5. 1 \in 1 .. k /\ k \in 1 .. k
      BY <3>1
    <3>6. \A j \in 1 .. k - 1 :
             reservations'[j + 1].off = EndOf(reservations'[j])
      BY <3>2, <3>3, <3>4
    <3>7. Len(reservations') = k
      BY <2>4 DEF k
    <3> QED BY <2>2, <3>1, <3>2, <3>3, <3>5, <3>6, <3>7 DEF RowsContiguous
  <2> QED BY <1>0, <2>5, <2>6, <2>7, <2>8 DEF BufInv
<1>5. CASE Undo
  <2>1. PICK i \in DOMAIN reservations :
          /\ Interruptible
          /\ Rollback(reservations[i].n, reservations[i].samples,
                      reservations[i].snap)
          /\ reservations' = Without(i)
    BY <1>5 DEF Undo
  <2>2. i = 1
    BY <2>1, OldestFirst
  <2>3. Len(reservations) = 1
    <3> DEFINE k == Len(reservations)
    <3>1. k <= 1
      BY <1>1, <2>1 DEF Serial, QueueType
    <3>2. k \in Nat /\ 1 \in 1 .. k
      BY <1>1, <2>2 DEF QueueType
    <3> HIDE DEF k
    <3>3. k = 1
      BY <3>1, <3>2
    <3> QED BY <3>3 DEF k
  <2>4. /\ reserved_fill' = reserved_fill - reservations[1].n
        /\ fill_count' = fill_count
        /\ pending_backward' = pending_backward
    BY <1>1, <2>1, <2>2, TailRows
    DEF Rollback, Monus, backward_vars, BufferType
  <2>5. /\ NoOverflow' /\ RowsContiguous' /\ Ordered' /\ AbortsNeedTierC'
    BY <1>0, <2>1, <2>2, <2>3, <2>4, LeaveBuf
  <2>6. ChildOwnsBuffer'
    BY <1>1, <2>1, <2>4 DEF BufInv, ChildOwnsBuffer, QueueType
  <2> QED BY <1>0, <2>5, <2>6 DEF BufInv
<1>6. CASE TakeAck /\ UNCHANGED reservations
  <2>1. /\ fill_count' = 0 /\ reserved_fill' = 0 /\ ~pending_backward'
        /\ reservations' = <<>>
    BY <1>6 DEF TakeAck, BufInv, ChildOwnsBuffer
  <2> QED BY <1>0, <2>1, CoordAssumption
          DEF BufInv, NoOverflow, RowsContiguous, Ordered, ChildOwnsBuffer,
              AbortsNeedTierC
<1>7. CASE TryEpochFlush /\ UNCHANGED reservations
  <2>1. /\ UNCHANGED <<fill_count, reserved_fill, reservations>>
        /\ reserved_fill = 0 /\ fill_count > 0 /\ ~epoch_flush_pending'
    BY <1>7 DEF TryEpochFlush, CanFlush, TriggerBackward, buffer_vars
  <2>2. reservations = <<>>
    BY <2>1, HeldRows
  <2> QED BY <1>0, <2>1, <2>2
          DEF BufInv, NoOverflow, RowsContiguous, Ordered, ChildOwnsBuffer,
              AbortsNeedTierC
<1>8. CASE UNCHANGED <<fill_count, reserved_fill, reservations,
                       pending_backward, epoch_flush_pending>>
  BY <1>0, <1>8
  DEF BufInv, NoOverflow, RowsContiguous, Ordered, ChildOwnsBuffer,
      AbortsNeedTierC, EndOf
<1>9. CASE DisableStuck /\ UNCHANGED reservations
  BY <1>8, <1>9 DEF DisableStuck, buffer_vars, backward_vars
<1>10. CASE Throttle
  BY <1>8, <1>10 DEF Throttle, CheckRpsThrottle, buffer_vars, backward_vars
<1>11. CASE Switch
  BY <1>8, <1>11 DEF Switch, StartFinetuning, StopFinetuning, buffer_vars,
                     gate_vars, backward_vars
<1>12. CASE Child
  BY <1>8, <1>12 DEF Child, ChildAck, ChildDie, Tick, buffer_vars, gate_vars
<1>13. CASE UNCHANGED vars
  BY <1>8, <1>13 DEF vars, coord_vars, buffer_vars, gate_vars, backward_vars
<1> QED
  BY <1>2, <1>3, <1>4, <1>5, <1>6, <1>7, <1>9, <1>10, <1>11, <1>12, <1>13
  DEF Next, Poll

\* The account of the activation buffer, for every capacity, corpus and
\* interleaving, when no step can abort in front of another (Serial).
THEOREM BufferInvariant ==
  ASSUME Serial PROVE Spec => []BufInv
<1>1. Init => BufInv
  BY InitType, CoordAssumption
  DEF Init, BufInv, NoOverflow, RowsContiguous, Ordered, ChildOwnsBuffer,
      AbortsNeedTierC
<1>2. BufInv /\ [Next]_vars => BufInv'
  BY NextBuf
<1> QED BY <1>1, <1>2, PTL DEF Spec

\* Committed and reserved rows fit the buffer, for every capacity, corpus and
\* interleaving of admissions, captures, acks, throttles and deaths.
THEOREM BufferNeverOverflows ==
  ASSUME Serial PROVE Spec => []NoOverflow
<1>1. BufInv => NoOverflow
  BY DEF BufInv
<1> QED BY <1>1, BufferInvariant, PTL

\* The steps in flight own consecutive, disjoint ranges behind the saved rows.
THEOREM RowsStayContiguous ==
  ASSUME Serial PROVE Spec => []RowsContiguous
<1>1. BufInv => RowsContiguous
  BY DEF BufInv
<1> QED BY <1>1, BufferInvariant, PTL

\* No step in flight writes to a buffer that the child reads.
THEOREM ChildHasBufferAlone ==
  ASSUME Serial PROVE Spec => []ChildOwnsBuffer
<1>1. BufInv => ChildOwnsBuffer
  BY DEF BufInv
<1> QED BY <1>1, BufferInvariant, PTL

\* A backward starts only when no reserved row is still to be saved; for every
\* depth and wherever steps abort.
THEOREM TriggersSettled == Spec => TriggerSettled
<1>1. TypeOK /\ [Next]_vars
        => [~pending_backward /\ pending_backward'
              => reserved_fill' = 0 /\ fill_count' > 0]_vars
  <2> SUFFICES ASSUME TypeOK, Next, ~pending_backward, pending_backward'
               PROVE  reserved_fill' = 0 /\ fill_count' > 0
    OBVIOUS
  <2>0. BufferType /\ QueueType
    BY DEF TypeOK
  <2>1. CASE Capture
    <3>1. PICK i \in DOMAIN reservations, lens \in Seq(Nat) :
            RecordCapture(reservations[i].n, lens)
      BY <2>0, <2>1, CaptureCases
    <3>2. reservations[i].n \in Nat \ {0}
      BY <2>0, ReservationFields, CoordAssumption
    <3>3. fill_count' > 0
      BY <2>0, <3>1, <3>2 DEF RecordCapture, BufferType
    <3>4. reserved_fill' = 0
      BY <3>1 DEF RecordCapture, backward_vars
    <3> QED BY <3>3, <3>4
  <2>2. CASE TryEpochFlush
    BY <2>2 DEF TryEpochFlush, CanFlush, buffer_vars
  <2>3. CASE TakeAck \/ DisableStuck
    BY <2>3 DEF TakeAck, DisableStuck
  <2>4. CASE Schedule \/ Abort \/ Undo
    BY <2>4 DEF Schedule, Inject, Abort, Undo, Rollback, backward_vars,
                coord_vars
  <2>5. CASE Throttle \/ Switch \/ Child
    BY <2>5 DEF Throttle, CheckRpsThrottle, Switch, StartFinetuning,
                StopFinetuning, Child, ChildAck, ChildDie, Tick, backward_vars
  <2> QED BY <2>1, <2>2, <2>3, <2>4, <2>5 DEF Next, Poll
<1> QED BY <1>1, TypeCorrect, PTL DEF Spec, TriggerSettled

-----------------------------------------------------------------------------
(***************************************************************************)
(* Which samples the buffer holds, under the same condition.               *)
(***************************************************************************)
\* A sample the buffer lists with no row saved yet belongs to a step in flight.
OnTheirWay ==
    fill_count = 0 =>
      \A s \in buffer_samples :
        \E i \in DOMAIN reservations : s \in reservations[i].samples

\* Each step in flight has samples of its own, all listed in the buffer.
OwnSamples ==
    /\ \A i \in DOMAIN reservations :
         reservations[i].samples # {}
           /\ reservations[i].samples \subseteq buffer_samples
    /\ \A i, j \in DOMAIN reservations :
         i # j => reservations[i].samples \intersect reservations[j].samples = {}

SampInv == BufInv /\ OwnSamples /\ OnTheirWay

\* _schedule_step takes samples nobody holds, or takes none.
LEMMA ScheduleSamples ==
  ASSUME TypeOK, Schedule
  PROVE  /\ fill_count' = fill_count
         /\ \/ UNCHANGED <<reservations, buffer_samples>>
            \/ \E S \in SUBSET (Samples \ buffer_samples), r \in Reservation :
                 /\ S # {} /\ r.samples = S
                 /\ reservations' = Append(reservations, r)
                 /\ buffer_samples' = buffer_samples \union S
<1>0. PICK admitted \in 0 .. Budget, nextLen \in NextLens,
           nextLenAfter \in NextLens, S \in SUBSET (Samples \ buffer_samples) :
        \E scheduled \in 0 .. admitted :
          /\ (scheduled > 0) <=> (S # {})
          /\ Inject(admitted, nextLen, scheduled, nextLenAfter, S)
          /\ reservations' =
               IF scheduled = 0 THEN reservations
               ELSE Append(reservations, NewStep(scheduled, S))
  BY DEF Schedule, NewStep
<1>1. PICK scheduled \in 0 .. admitted :
        /\ (scheduled > 0) <=> (S # {})
        /\ Inject(admitted, nextLen, scheduled, nextLenAfter, S)
        /\ reservations' =
             IF scheduled = 0 THEN reservations
             ELSE Append(reservations, NewStep(scheduled, S))
  BY <1>0
<1>2. /\ fill_count' = fill_count
      /\ buffer_samples' = buffer_samples \union S
  BY <1>1 DEF Inject
<1>3. Budget \in Nat
  BY CoordAssumption DEF Budget, TypeOK, BufferType, SpaceRemaining, Monus
<1>4. CASE scheduled = 0
  BY <1>1, <1>2, <1>4
<1>5. CASE scheduled > 0
  <2>1. reservations' = Append(reservations, NewStep(scheduled, S)) /\ S # {}
    BY <1>1, <1>5
  <2>2. NewStep(scheduled, S) \in Reservation
    <3>1. /\ SpaceRemaining \in 0 .. Capacity
          /\ SpaceRemaining > 0 => CurrentOffset + SpaceRemaining = Capacity
      BY CoordAssumption
      DEF TypeOK, BufferType, SpaceRemaining, Monus, CurrentOffset
    <3>2. Budget = SpaceRemaining /\ scheduled \in 1 .. Capacity
      BY <1>3, <1>5, <3>1, CoordAssumption DEF Budget
    <3>3. CurrentOffset \in 0 .. Capacity
      BY <1>5, <3>1, <3>2, CoordAssumption DEF CurrentOffset, TypeOK, BufferType
    <3> QED BY <3>2, <3>3
            DEF NewStep, Reservation, Snapshot, TypeOK, FlagType, Gate
  <2>3. NewStep(scheduled, S).samples = S
    BY DEF NewStep
  <2> QED BY <1>2, <2>1, <2>2, <2>3
<1> QED BY <1>3, <1>4, <1>5

\* Every operation keeps the samples accounted for, when Serial holds.
LEMMA NextSamp ==
  ASSUME Serial, SampInv, [Next]_vars
  PROVE  SampInv'
<1> DEFINE k == Len(reservations)
<1>0. BufInv /\ BufInv'
  BY NextBuf DEF SampInv
<1>1. /\ BufferType /\ QueueType /\ TypeOK
      /\ k \in Nat /\ DOMAIN reservations = 1 .. k
  BY <1>0 DEF BufInv, TypeOK, QueueType
<1>2. /\ \A i \in 1 .. k : /\ reservations[i].samples # {}
                           /\ reservations[i].samples \subseteq buffer_samples
      /\ \A i, j \in 1 .. k : i # j =>
            reservations[i].samples \intersect reservations[j].samples = {}
      /\ fill_count = 0 =>
            \A s \in buffer_samples :
              \E i \in 1 .. k : s \in reservations[i].samples
  BY <1>1 DEF SampInv, OwnSamples, OnTheirWay
<1>3. CASE Schedule
  <2>1. CASE UNCHANGED <<reservations, buffer_samples>>
    BY <1>0, <1>1, <1>3, <2>1, ScheduleSamples
    DEF SampInv, OwnSamples, OnTheirWay
  <2>2. CASE \E S \in SUBSET (Samples \ buffer_samples), r \in Reservation :
               /\ S # {} /\ r.samples = S
               /\ reservations' = Append(reservations, r)
               /\ buffer_samples' = buffer_samples \union S
    <3>1. PICK S \in SUBSET (Samples \ buffer_samples), r \in Reservation :
               /\ S # {} /\ r.samples = S
               /\ reservations' = Append(reservations, r)
               /\ buffer_samples' = buffer_samples \union S
      BY <2>2
    <3>2. /\ DOMAIN reservations' = 1 .. k + 1
          /\ \A i \in 1 .. k : reservations'[i] = reservations[i]
          /\ reservations'[k + 1] = r
          /\ k + 1 \in 1 .. k + 1 /\ 1 .. k \subseteq 1 .. k + 1
      BY <3>1, <1>1 DEF QueueType
    <3> HIDE DEF k
    <3>3. \A i \in 1 .. k + 1 : i \in 1 .. k \/ i = k + 1
      BY <1>1
    <3>4. OwnSamples'
      <4>1. \A i \in 1 .. k + 1 :
               /\ reservations'[i].samples # {}
               /\ reservations'[i].samples \subseteq buffer_samples'
        BY <1>2, <3>1, <3>2, <3>3
      <4>2. \A i \in 1 .. k : reservations[i].samples \intersect S = {}
        BY <1>2, <3>1
      <4>3. \A i, j \in 1 .. k + 1 : i # j =>
               reservations'[i].samples \intersect reservations'[j].samples = {}
        BY <1>2, <3>1, <3>2, <3>3, <4>2
      <4> QED BY <3>2, <4>1, <4>3 DEF OwnSamples
    <3>5. OnTheirWay'
      <4>1. fill_count' = fill_count
        BY <1>1, <1>3, ScheduleSamples
      <4>2. \A s \in S : s \in reservations'[k + 1].samples
        BY <3>1, <3>2
      <4>3. fill_count = 0 => \A s \in buffer_samples :
               \E i \in 1 .. k : s \in reservations'[i].samples
        BY <1>2, <3>2
      <4> QED BY <3>1, <3>2, <4>1, <4>2, <4>3 DEF OnTheirWay
    <3> QED BY <1>0, <3>4, <3>5 DEF SampInv
  <2> QED BY <1>1, <1>3, <2>1, <2>2, ScheduleSamples
<1>4. CASE Capture
  <2>1. PICK i \in DOMAIN reservations, lens \in Seq(Nat) :
          /\ NextToRun(i)
          /\ RecordCapture(reservations[i].n, lens)
          /\ reservations' = Without(i)
    BY <1>1, <1>4, CaptureCases
  <2>2. i = 1
    BY <1>0, <2>1, OldestFirst
  <2>3. /\ DOMAIN reservations' = 1 .. k - 1
        /\ \A j \in 1 .. k - 1 : reservations'[j] = reservations[j + 1]
        /\ \A j \in 1 .. k - 1 : j + 1 \in 1 .. k
        /\ reservations[1].n \in Nat \ {0}
    BY <1>0, <1>1, <2>1, <2>2, TailRows
  <2>4. fill_count' > 0 /\ buffer_samples' = buffer_samples
    BY <1>1, <2>1, <2>2, <2>3 DEF RecordCapture, BufferType
  <2> HIDE DEF k
  <2>5. \A j, m \in 1 .. k - 1 : j # m => j + 1 # m + 1
    BY <1>1
  <2>6. OwnSamples'
    <3>1. \A j \in 1 .. k - 1 :
             /\ reservations'[j].samples # {}
             /\ reservations'[j].samples \subseteq buffer_samples'
      BY <1>2, <2>3, <2>4
    <3>2. \A j, m \in 1 .. k - 1 : j # m =>
             reservations'[j].samples \intersect reservations'[m].samples = {}
      BY <1>2, <2>3, <2>5
    <3> QED BY <2>3, <3>1, <3>2 DEF OwnSamples
  <2> QED BY <1>0, <2>4, <2>6 DEF SampInv, OnTheirWay
<1>5. CASE Abort
  <2>1. PICK i \in DOMAIN reservations :
          reservations' = [reservations EXCEPT ![i].aborted = TRUE]
    BY <1>5 DEF Abort
  <2>2. DOMAIN reservations' = DOMAIN reservations
    BY <2>1
  <2>3. \A j \in DOMAIN reservations :
           reservations'[j].samples = reservations[j].samples
    BY <1>1, <2>1, ReservationFields DEF Reservation
  <2>4. UNCHANGED <<fill_count, buffer_samples>>
    BY <1>5 DEF Abort, coord_vars, buffer_vars
  <2> QED BY <1>0, <2>2, <2>3, <2>4 DEF SampInv, OwnSamples, OnTheirWay
<1>6. CASE Undo
  <2>1. PICK i \in DOMAIN reservations :
          /\ Interruptible
          /\ Rollback(reservations[i].n, reservations[i].samples,
                      reservations[i].snap)
          /\ reservations' = Without(i)
    BY <1>6 DEF Undo
  <2>2. i = 1
    BY <1>0, <2>1, OldestFirst
  <2>3. k = 1
    <3>1. k <= 1 /\ 1 \in 1 .. k
      BY <1>1, <2>1, <2>2 DEF Serial, QueueType
    <3> HIDE DEF k
    <3> QED BY <1>1, <3>1
  <2>4. DOMAIN reservations' = {}
    BY <1>0, <1>1, <2>1, <2>2, <2>3, TailRows
  <2>5. /\ fill_count' = fill_count
        /\ buffer_samples' = buffer_samples \ reservations[1].samples
    BY <2>1, <2>2 DEF Rollback
  <2>6. fill_count = 0 => buffer_samples' = {}
    BY <1>2, <2>3, <2>5
  <2> QED BY <1>0, <2>4, <2>5, <2>6 DEF SampInv, OwnSamples, OnTheirWay
<1>7. CASE TakeAck /\ UNCHANGED reservations
  <2>1. buffer_samples' = {} /\ DOMAIN reservations' = {}
    BY <1>0, <1>7 DEF TakeAck, BufInv, ChildOwnsBuffer
  <2> QED BY <1>0, <2>1 DEF SampInv, OwnSamples, OnTheirWay
<1>8. CASE UNCHANGED <<fill_count, buffer_samples, reservations>>
  BY <1>0, <1>8 DEF SampInv, OwnSamples, OnTheirWay
<1>9. CASE (DisableStuck \/ TryEpochFlush) /\ UNCHANGED reservations
  BY <1>8, <1>9 DEF DisableStuck, TryEpochFlush, buffer_vars
<1>10. CASE Throttle \/ Switch \/ Child \/ UNCHANGED vars
  BY <1>8, <1>10 DEF Throttle, CheckRpsThrottle, Switch, StartFinetuning,
     StopFinetuning, Child, ChildAck, ChildDie, Tick, buffer_vars, coord_vars,
     vars
<1> QED
  BY <1>3, <1>4, <1>5, <1>6, <1>7, <1>9, <1>10 DEF Next, Poll

\* For every capacity, corpus and interleaving: a step in flight has samples
\* of its own, all listed in the buffer, and an empty buffer lists none, so an
\* ack commits no sample whose rows were undone or never saved.
THEOREM SamplesStayAccounted ==
  ASSUME Serial PROVE Spec => []SamplesAccounted
<1>1. Init => SampInv
  <2>1. Init => BufInv
    BY InitType, CoordAssumption
    DEF Init, BufInv, NoOverflow, RowsContiguous, Ordered, ChildOwnsBuffer,
        AbortsNeedTierC
  <2> QED BY <2>1 DEF Init, SampInv, OwnSamples, OnTheirWay
<1>2. SampInv /\ [Next]_vars => SampInv'
  BY NextSamp
<1>3. SampInv => SamplesAccounted
  <2> SUFFICES ASSUME SampInv, fill_count + reserved_fill = 0
               PROVE  buffer_samples = {}
    BY DEF SampInv, OwnSamples, SamplesAccounted
  <2>1. fill_count = 0 /\ reserved_fill = 0
    BY DEF SampInv, BufInv, TypeOK, BufferType
  <2>2. reservations = <<>>
    BY <2>1, HeldRows DEF SampInv
  <2> QED BY <2>1, <2>2 DEF SampInv, OnTheirWay
<1> QED BY <1>1, <1>2, <1>3, PTL DEF Spec
=============================================================================
