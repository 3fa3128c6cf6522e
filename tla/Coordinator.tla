---------------------------- MODULE Coordinator ----------------------------
(***************************************************************************)
(* The finetune coordinator of a single-GPU server (coordinator.py): the   *)
(* account of the activation buffer, the admission gate, and the hand-off  *)
(* of a full buffer to the backward child and back.                        *)
(*                                                                         *)
(* An operation of the coordinator is an action here; the arguments its    *)
(* callers pass are the actions' parameters.  The specification at the end *)
(* closes the module with the callers' protocol alone: a step reserves     *)
(* rows when it is scheduled, steps run in the order they were scheduled,  *)
(* and a step runs to the end, is aborted, or is undone before it runs.    *)
(***************************************************************************)
EXTENDS Integers, Sequences, Functions

CONSTANTS
    Capacity,       \* rows of the activation buffer
    MinSampleLen,   \* shortest sample of the corpus (min_sample_len)
    Samples,        \* finetuning samples
    Depth,          \* steps the engine keeps in flight (1 sync, 2 async)
    Interruptible,  \* forward_interruptible
    RpsEnabled,     \* rps_throttle_enable
    CloseRps,       \* rps_throttle_close_rps
    OpenRps         \* rps_throttle_open_rps

ASSUME CoordAssumption ==
    /\ Capacity \in Nat \ {0}
    /\ MinSampleLen \in 1 .. Capacity
    /\ Depth \in Nat \ {0}
    /\ Interruptible \in BOOLEAN
    /\ RpsEnabled \in BOOLEAN
    /\ CloseRps \in Nat \ {0} /\ OpenRps \in Nat

VARIABLES
    fill_count,           \* rows saved into the buffer
    reserved_fill,        \* rows owned by scheduled steps that have not run
    sample_lens,          \* rows of every saved sample, in buffer order
    buffer_samples,       \* samples in the buffer or on their way to it
    admission_open, pending_backward, epoch_flush_pending, ft_started,
    rps_throttle_active,
    waited,               \* age of the pending backward: 0, 1 past
                          \* pending_backward_warn_s, 2 past
                          \* backward_dead_after_s
    job,                  \* what the child's pipe holds: none, work, ack
    alive,                \* the child process is alive
    reservations          \* steps that hold rows, in the order they run

buffer_vars  == <<fill_count, reserved_fill, sample_lens, buffer_samples>>
gate_vars    == <<admission_open, epoch_flush_pending>>
backward_vars == <<pending_backward, waited, job>>
coord_vars == <<buffer_vars, gate_vars, backward_vars, ft_started,
                rps_throttle_active, alive>>
vars == <<coord_vars, reservations>>

WarnAge == 1
DeadAge == 2

Monus(a, b) == IF a > b THEN a - b ELSE 0

\* Mutant: rows reserved by steps in flight count as free.
SpaceIgnoringReserved == Monus(Capacity, fill_count)

SpaceRemaining == Monus(Capacity, fill_count + reserved_fill)

\* next_ft_budget
Budget == IF ft_started /\ admission_open /\ ~pending_backward
          THEN SpaceRemaining ELSE 0

CurrentOffset == fill_count + reserved_fill

(***************************************************************************)
(* _trigger_backward with a local child: close the gate, hand the buffer   *)
(* over.  notify_buffer_full drops the work if the child is gone.          *)
(***************************************************************************)
TriggerBackward ==
    /\ admission_open' = FALSE
    /\ pending_backward' = TRUE
    /\ epoch_flush_pending' = FALSE
    /\ waited' = 0
    /\ job' = IF alive THEN "work" ELSE job

\* Mutant: the flush does not wait for the reserved rows.
CanFlushEarly == epoch_flush_pending /\ fill_count > 0 /\ ~pending_backward

\* try_epoch_flush, at the top of schedule().
CanFlush == /\ epoch_flush_pending
            /\ reserved_fill = 0
            /\ fill_count > 0
            /\ ~pending_backward

TryEpochFlush ==
    /\ CanFlush
    /\ TriggerBackward
    /\ UNCHANGED <<buffer_vars, ft_started, rps_throttle_active, alive>>

\* Mutants of record_capture: the reservation is settled with all the rows
\* saved so far, unclamped; the full buffer does not wait for the reserved
\* rows; the flush is left to try_epoch_flush.
CaptureSettlesTotal(n, lens) ==
    /\ n > 0
    /\ fill_count' = fill_count + n
    /\ reserved_fill' = reserved_fill - fill_count'
    /\ sample_lens' = sample_lens \o lens
    /\ UNCHANGED <<gate_vars, backward_vars, buffer_samples, ft_started,
                   rps_throttle_active, alive>>

CaptureTriggersEarly(n, lens) ==
    /\ n > 0
    /\ fill_count' = fill_count + n
    /\ reserved_fill' = Monus(reserved_fill, n)
    /\ sample_lens' = sample_lens \o lens
    /\ IF Monus(Capacity, fill_count') < MinSampleLen \/ epoch_flush_pending
       THEN TriggerBackward
       ELSE UNCHANGED <<gate_vars, backward_vars>>
    /\ UNCHANGED <<buffer_samples, ft_started, rps_throttle_active, alive>>

(***************************************************************************)
(* record_capture: n rows of the step that just ran are saved.             *)
(***************************************************************************)
RecordCapture(n, lens) ==
    /\ n > 0
    /\ fill_count' = fill_count + n
    /\ reserved_fill' = Monus(reserved_fill, n)
    /\ sample_lens' = sample_lens \o lens
    /\ IF /\ ~pending_backward
          /\ reserved_fill' = 0
          /\ \/ Monus(Capacity, fill_count') < MinSampleLen
             \/ epoch_flush_pending
       THEN TriggerBackward
       ELSE UNCHANGED <<gate_vars, backward_vars>>
    /\ UNCHANGED <<buffer_samples, ft_started, rps_throttle_active, alive>>

(***************************************************************************)
(* _check_backward_stuck: give up on a dead or overdue child.              *)
(***************************************************************************)
Stuck == waited >= WarnAge /\ (~alive \/ waited >= DeadAge) /\ ft_started

\* Mutants of the ack: the gate stays closed; the samples, or their lengths,
\* stay in the buffer.
AckKeepsGate ==
    /\ pending_backward /\ job = "ack"
    /\ fill_count' = 0 /\ reserved_fill' = 0
    /\ sample_lens' = <<>> /\ buffer_samples' = {}
    /\ pending_backward' = FALSE /\ waited' = 0 /\ job' = "none"
    /\ UNCHANGED <<gate_vars, ft_started, rps_throttle_active, alive>>

AckKeepsSamples ==
    /\ pending_backward /\ job = "ack"
    /\ fill_count' = 0 /\ reserved_fill' = 0 /\ sample_lens' = <<>>
    /\ pending_backward' = FALSE /\ waited' = 0 /\ job' = "none"
    /\ admission_open' = TRUE
    /\ UNCHANGED <<buffer_samples, epoch_flush_pending, ft_started,
                   rps_throttle_active, alive>>

AckKeepsLens ==
    /\ pending_backward /\ job = "ack"
    /\ fill_count' = 0 /\ reserved_fill' = 0 /\ buffer_samples' = {}
    /\ pending_backward' = FALSE /\ waited' = 0 /\ job' = "none"
    /\ admission_open' = TRUE
    /\ UNCHANGED <<sample_lens, epoch_flush_pending, ft_started,
                   rps_throttle_active, alive>>

\* poll_backward with the ack in the pipe: commit, empty the buffer, reopen.
TakeAck ==
    /\ pending_backward
    /\ job = "ack"
    /\ fill_count' = 0 /\ reserved_fill' = 0
    /\ sample_lens' = <<>> /\ buffer_samples' = {}
    /\ pending_backward' = FALSE
    /\ admission_open' = TRUE
    /\ waited' = 0
    /\ job' = "none"
    /\ UNCHANGED <<epoch_flush_pending, ft_started, rps_throttle_active, alive>>

\* poll_backward with nothing in the pipe.
DisableStuck ==
    /\ pending_backward
    /\ job # "ack"
    /\ Stuck
    /\ ft_started' = FALSE
    /\ admission_open' = FALSE
    /\ UNCHANGED <<buffer_vars, backward_vars, epoch_flush_pending,
                   rps_throttle_active, alive>>

(***************************************************************************)
(* check_rps_throttle for an arrival rate and whether the minimum hold     *)
(* (close_time) has run out.  An engaged throttle asserts the close again  *)
(* on every step.                                                          *)
(***************************************************************************)
CheckRpsThrottle(rate, held) ==
    LET release == rps_throttle_active /\ rate < OpenRps /\ (held \/ rate = 0)
        engage  == ~rps_throttle_active /\ rate > CloseRps
    IN  /\ RpsEnabled
        /\ rps_throttle_active' = IF rps_throttle_active THEN ~release
                                                         ELSE engage
        /\ admission_open' = IF release THEN TRUE
                             ELSE IF rps_throttle_active' THEN FALSE
                             ELSE admission_open
        /\ UNCHANGED <<buffer_vars, backward_vars, epoch_flush_pending,
                       ft_started, alive>>

(***************************************************************************)
(* What _schedule_step does to the coordinator after admission: take the   *)
(* snapshot, note_injection, note it again from the snapshot if the base   *)
(* scheduler scheduled fewer rows than were admitted, and reserve.         *)
(* A length above Capacity stands for "no sample is left".                 *)
(***************************************************************************)
Snapshot == [admission |-> admission_open, flush |-> epoch_flush_pending]

NoteInjection(nextLen, rows) ==
    IF /\ ~pending_backward
       /\ fill_count + reserved_fill + rows > 0
       /\ nextLen > SpaceRemaining - rows
    THEN [admission |-> FALSE, flush |-> TRUE]
    ELSE Snapshot

\* Mutant: the verdict on the admitted rows stands although fewer were
\* scheduled (the code before its fix of 2026-09-10).
InjectUnchecked(admitted, nextLen, scheduled, nextLenAfter, S) ==
    /\ LET gate == NoteInjection(nextLen, admitted)
       IN  /\ admission_open' = gate.admission
           /\ epoch_flush_pending' = gate.flush
    /\ reserved_fill' = reserved_fill + scheduled
    /\ buffer_samples' = buffer_samples \union S
    /\ UNCHANGED <<fill_count, sample_lens, backward_vars, ft_started,
                   rps_throttle_active, alive>>

Inject(admitted, nextLen, scheduled, nextLenAfter, S) ==
    /\ LET gate == IF scheduled = admitted THEN NoteInjection(nextLen, admitted)
                   ELSE IF scheduled > 0 THEN NoteInjection(nextLenAfter, scheduled)
                   ELSE Snapshot
       IN  /\ admission_open' = gate.admission
           /\ epoch_flush_pending' = gate.flush
    /\ reserved_fill' = reserved_fill + scheduled
    /\ buffer_samples' = buffer_samples \union S
    /\ UNCHANGED <<fill_count, sample_lens, backward_vars, ft_started,
                   rps_throttle_active, alive>>

\* Mutants of the rollback: the gate is not restored; the samples stay in the
\* buffer.
RollbackKeepsGate(n, S, snap) ==
    /\ reserved_fill' = Monus(reserved_fill, n)
    /\ buffer_samples' = buffer_samples \ S
    /\ UNCHANGED <<fill_count, sample_lens, gate_vars, backward_vars,
                   ft_started, rps_throttle_active, alive>>

RollbackKeepsSamples(n, S, snap) ==
    /\ reserved_fill' = Monus(reserved_fill, n)
    /\ admission_open' = snap.admission /\ epoch_flush_pending' = snap.flush
    /\ UNCHANGED <<fill_count, sample_lens, buffer_samples, backward_vars,
                   ft_started, rps_throttle_active, alive>>

(***************************************************************************)
(* The coordinator's part of _rollback_ft_step: release_reserve and        *)
(* restore_admission.                                                      *)
(***************************************************************************)
Rollback(n, S, snap) ==
    /\ reserved_fill' = Monus(reserved_fill, n)
    /\ buffer_samples' = buffer_samples \ S
    /\ admission_open' = snap.admission
    /\ epoch_flush_pending' = snap.flush
    /\ UNCHANGED <<fill_count, sample_lens, backward_vars, ft_started,
                   rps_throttle_active, alive>>

\* POST /start_finetuning and /stop_finetuning.
StartFinetuning ==
    /\ ft_started' = TRUE
    /\ UNCHANGED <<buffer_vars, gate_vars, backward_vars,
                   rps_throttle_active, alive>>

StopFinetuning ==
    /\ ft_started' = FALSE
    /\ UNCHANGED <<buffer_vars, gate_vars, backward_vars,
                   rps_throttle_active, alive>>

(***************************************************************************)
(* The child: it answers the work it holds, may die, and time passes.      *)
(***************************************************************************)
ChildAck ==
    /\ alive /\ job = "work"
    /\ job' = "ack"
    /\ UNCHANGED <<buffer_vars, gate_vars, pending_backward, waited,
                   ft_started, rps_throttle_active, alive>>

ChildDie ==
    /\ alive
    /\ alive' = FALSE
    /\ job' = IF job = "work" THEN "none" ELSE job
    /\ UNCHANGED <<buffer_vars, gate_vars, pending_backward, waited,
                   ft_started, rps_throttle_active>>

Tick ==
    /\ pending_backward /\ waited < DeadAge
    /\ waited' \in waited + 1 .. DeadAge
    /\ UNCHANGED <<buffer_vars, gate_vars, pending_backward, job, ft_started,
                   rps_throttle_active, alive>>

-----------------------------------------------------------------------------
(***************************************************************************)
(* The callers' protocol.                                                  *)
(***************************************************************************)
Init ==
    /\ fill_count = 0 /\ reserved_fill = 0
    /\ sample_lens = <<>> /\ buffer_samples = {}
    /\ admission_open = TRUE /\ epoch_flush_pending = FALSE
    /\ pending_backward = FALSE /\ waited = 0 /\ job = "none"
    /\ ft_started \in BOOLEAN                 \* start_on_launch
    /\ rps_throttle_active = FALSE
    /\ alive = TRUE
    /\ reservations = <<>>

NextLens == 1 .. Capacity + 1

\* A step whose finetuning part did not schedule holds no rows.
Schedule ==
    \E admitted \in 0 .. Budget, nextLen, nextLenAfter \in NextLens,
       S \in SUBSET (Samples \ buffer_samples) :
      \E scheduled \in 0 .. admitted :
        /\ (scheduled > 0) <=> (S # {})
        /\ scheduled > 0 => Len(reservations) < Depth
        /\ Inject(admitted, nextLen, scheduled, nextLenAfter, S)
        /\ reservations' =
             IF scheduled = 0 THEN reservations
             ELSE Append(reservations,
                         [n |-> scheduled, off |-> CurrentOffset, samples |-> S,
                          snap |-> Snapshot, aborted |-> FALSE])

\* Reservations of aborted steps come first: their output is processed later.
NextToRun(i) ==
    /\ i \in DOMAIN reservations
    /\ ~reservations[i].aborted
    /\ \A j \in 1 .. i - 1 : reservations[j].aborted

Without(i) == [j \in 1 .. Len(reservations) - 1 |->
                 reservations[IF j < i THEN j ELSE j + 1]]

\* The ways n rows divide into samples.
Splits(n) ==
    {lens \in UNION {[1 .. k -> 1 .. n] : k \in 1 .. n} :
       SumFunction(lens) = n}

Capture ==
    \E i \in DOMAIN reservations :
      /\ NextToRun(i)
      /\ \E lens \in Splits(reservations[i].n) :
            RecordCapture(reservations[i].n, lens)
      /\ reservations' = Without(i)

Abort ==
    \E i \in DOMAIN reservations :
      /\ Interruptible
      /\ NextToRun(i)
      /\ reservations' = [reservations EXCEPT ![i].aborted = TRUE]
      /\ UNCHANGED coord_vars

\* Tier C rolls back the oldest step, tier B the one just scheduled.
Undo ==
    \E i \in DOMAIN reservations :
      /\ Interruptible
      /\ \/ i = 1 /\ reservations[i].aborted
         \/ i = Len(reservations) /\ ~reservations[i].aborted
      /\ Rollback(reservations[i].n, reservations[i].samples,
                  reservations[i].snap)
      /\ reservations' = Without(i)

Poll == (TakeAck \/ DisableStuck \/ TryEpochFlush) /\ UNCHANGED reservations

Throttle ==
    /\ \E rate \in 0 .. CloseRps + 1, held \in BOOLEAN :
          CheckRpsThrottle(rate, held)
    /\ UNCHANGED reservations

Switch == (StartFinetuning \/ StopFinetuning) /\ UNCHANGED reservations

Child == (ChildAck \/ ChildDie \/ Tick) /\ UNCHANGED reservations

Next == \/ Schedule \/ Capture \/ Abort \/ Undo
        \/ Poll \/ Throttle \/ Switch \/ Child

Spec == Init /\ [][Next]_vars

-----------------------------------------------------------------------------
Gate == [admission : BOOLEAN, flush : BOOLEAN]

Reservation ==
    [n : 1 .. Capacity, off : 0 .. Capacity, samples : SUBSET Samples,
     snap : Gate, aborted : BOOLEAN]

BufferType ==
    /\ fill_count \in Nat /\ reserved_fill \in Nat
    /\ sample_lens \in Seq(Nat)
    /\ buffer_samples \subseteq Samples

FlagType ==
    /\ admission_open \in BOOLEAN /\ epoch_flush_pending \in BOOLEAN
    /\ pending_backward \in BOOLEAN /\ ft_started \in BOOLEAN
    /\ rps_throttle_active \in BOOLEAN /\ alive \in BOOLEAN

ChildType == waited \in 0 .. DeadAge /\ job \in {"none", "work", "ack"}

QueueType == reservations \in Seq(Reservation) /\ Len(reservations) <= Depth

\* Types of the coordinator's fields and of the steps in flight.
TypeOK == BufferType /\ FlagType /\ ChildType /\ QueueType

EndOf(r) == r.off + r.n

\* Committed and reserved rows together never exceed the buffer, however
\* admissions, captures, aborts and rollbacks interleave (coordinator.py:282).
NoOverflow == fill_count + reserved_fill <= Capacity

\* The steps in flight own consecutive ranges that start where the committed
\* rows end: no step writes over another one or over saved rows, and the rows
\* a step saves are exactly the next ones the backward will read.
RowsContiguous ==
    LET k == Len(reservations)
    IN  IF k = 0 THEN reserved_fill = 0
        ELSE /\ reservations[1].off = fill_count
             /\ EndOf(reservations[k]) = fill_count + reserved_fill
             /\ \A i \in 1 .. k - 1 :
                   reservations[i + 1].off = EndOf(reservations[i])

\* While the child owns the buffer no step in flight may still write to it,
\* and the flush that handed it over is spent.
ChildOwnsBuffer ==
    pending_backward => /\ reservations = <<>>
                        /\ reserved_fill = 0
                        /\ fill_count > 0
                        /\ ~epoch_flush_pending

\* The gate is never left closed with nobody to open it again: a backward is
\* outstanding (its ack reopens), a flush is due for rows that exist (the
\* trigger follows), or the arrival throttle holds it (the 2026-09-10 wedge).
NoAdmissionWedge ==
    admission_open
      \/ pending_backward
      \/ (epoch_flush_pending /\ fill_count + reserved_fill > 0)
      \/ rps_throttle_active

\* Every step in flight has its samples in buffer_samples, no two share one,
\* so an ack commits a sample only if its rows were saved or are being saved.
SamplesAccounted ==
    /\ \A i \in DOMAIN reservations :
         reservations[i].samples # {}
           /\ reservations[i].samples \subseteq buffer_samples
    /\ \A i, j \in DOMAIN reservations :
         i # j => reservations[i].samples \intersect reservations[j].samples = {}
    /\ fill_count + reserved_fill = 0 => buffer_samples = {}

\* A backward is asked for only when every reserved row has been saved.
TriggerSettled ==
    [][~pending_backward /\ pending_backward'
         => reserved_fill' = 0 /\ fill_count' > 0]_vars
=============================================================================
