-------------------------- MODULE RtlAsync_proofs --------------------------
(***************************************************************************)
(* The asynchronous reader, for any number of transfers and activations.   *)
(* InStep is inductive: besides what the theorems at the end say, it       *)
(* follows the sweep of rtlsdr_read_async from transfer to transfer.       *)
(* ErrorsCounted, on top of it, sets the error count of the callbacks      *)
(* against the transfers that are not submitted.                           *)
(***************************************************************************)
EXTENDS RtlAsync, FiniteSetTheorems, TLAPS

USE NXferAssumption, MaxActivationsAssumption

(* A device that was just opened is in step. *)
LEMMA InitAsync == Init => InStep
<1> SUFFICES ASSUME Init PROVE InStep
  OBVIOUS
<1>0. FlagsOK
  BY Zenon DEF Init, FlagsOK
<1>1. TypeOK
  BY <1>0 DEF Init, TypeOK, Status
<1> QED
  BY <1>1 DEF Init, InStep, CallsInStep, OwnedInside, StatusTells, Swept, LeavesClean,
              AllIdle, Healthy, joinable

(* The calls of the application's thread that write no status. *)
LEMMA CallsKeepAsync ==
  ASSUME InStep,
         \/ setupStream \/ activateStream
         \/ \E to \in {"idle", "free"} : deactivateStream(to)
         \/ CancelTest \/ Join \/ Delete \/ rtlsdr_close
  PROVE  InStep'
<1> USE DEF InStep
<1>1. UNCHANGED <<device, xfers, next, i, carried, usbFail, stale, hurt, prompt>>
  BY DEF setupStream, activateStream, deactivateStream, CancelTest, Join, Delete,
         rtlsdr_close, reader, history
<1>2. TypeOK'
  <2>1. FlagsOK'
    BY ZenonT(30) DEF TypeOK, FlagsOK, setupStream, activateStream, deactivateStream, CancelTest,
                 Join, Delete, rtlsdr_close, reader, history, device
  <2>2. /\ api' \in {"idle", "cancel", "write", "join", "close", "closed"}
        /\ after' \in {"idle", "free"}
        /\ started' \in 0..MaxActivations
        /\ tpc' \in {tpc, "begin", "none"}
    BY DEF TypeOK, setupStream, activateStream, deactivateStream, CancelTest, Join, Delete,
           rtlsdr_close, reader
  <2> QED BY <1>1, <2>1, <2>2 DEF TypeOK, device, xfers
<1>3. CallsInStep'
  BY DEF CallsInStep, TypeOK, joinable, setupStream, activateStream, deactivateStream,
         CancelTest, Join, Delete, rtlsdr_close, reader
<1>4. \/ tpc' = tpc
      \/ tpc = "none" /\ tpc' = "begin"
      \/ tpc = "done" /\ tpc' = "none"
  BY DEF joinable, setupStream, activateStream, deactivateStream, CancelTest, Join, Delete,
         rtlsdr_close, reader
<1>5. OwnedInside' /\ StatusTells' /\ Swept' /\ LeavesClean'
  BY <1>1, <1>4 DEF OwnedInside, StatusTells, Swept, LeavesClean, AllIdle, Healthy, device,
                    xfers
<1> QED BY <1>2, <1>3, <1>5

(* rtlsdr_cancel_async's write, which may come too late. *)
LEMMA CancelKeepsAsync ==
  ASSUME InStep, CancelWrite
  PROVE  InStep'
<1> USE DEF InStep
<1>1. UNCHANGED <<lost, xfers, reader, after, started, open, usbFail, hurt, prompt>>
  BY DEF CancelWrite
<1>2. status' = "CANCELING" /\ api' = "join" /\ api = "write"
  BY DEF CancelWrite
<1>3. TypeOK'
  <2>1. FlagsOK'
    BY Zenon DEF CancelWrite, TypeOK, FlagsOK
  <2> QED BY <2>1 DEF CancelWrite, TypeOK, Status, xfers, reader
<1>4. CallsInStep'
  BY <1>1, <1>2 DEF CallsInStep, joinable, reader
<1>5. Healthy' => status = "RUNNING" /\ Healthy
  BY Zenon DEF CancelWrite, Healthy, TypeOK
<1>6. StatusTells'
  BY <1>1, <1>2, <1>5 DEF StatusTells, reader
<1>7. OwnedInside' /\ Swept' /\ LeavesClean'
  BY <1>1 DEF OwnedInside, Swept, LeavesClean, AllIdle, xfers, reader
<1> QED BY <1>3, <1>4, <1>6, <1>7

(* The callbacks take a transfer from libusb, or leave it submitted; only   *)
(* one that is not cancelled is submitted again.                           *)
LEMMA CallbacksKeepAsync ==
  ASSUME InStep, Callbacks
  PROVE  InStep'
<1> USE DEF InStep
<1>1. PICK x \in Xfer : CallbackCompleted(x) \/ CallbackCancelled(x) \/ CallbackFailed(x)
  BY DEF Callbacks
<1>2. /\ InEvents /\ flight[x] # "idle"
      /\ UNCHANGED <<reader, caller, history, prompt>>
  BY <1>1 DEF CallbackCompleted, CallbackCancelled, CallbackFailed
<1>3. \E f \in {"busy", "idle"}, c \in {"completed", "cancelled", "failed"} :
        /\ flight' = [flight EXCEPT ![x] = f]
        /\ xstatus' = [xstatus EXCEPT ![x] = c]
        /\ c = "cancelled" => f = "idle"
  BY <1>1 DEF CallbackCompleted, CallbackCancelled, CallbackFailed
<1>4. /\ errors' \in Nat
      /\ status' \in {status, "CANCELING"}
  BY <1>1 DEF CallbackCompleted, CallbackCancelled, CallbackFailed, CancelFromCallback,
              TypeOK, device
<1>5. /\ cancel' \in {TRUE, cancel}
      /\ lost' \in {TRUE, lost}
  BY <1>1, Zenon DEF CallbackCompleted, CallbackCancelled, CallbackFailed, CancelFromCallback,
              device
<1>6. TypeOK'
  <2>1. FlagsOK'
    BY <1>2, <1>5, Zenon DEF TypeOK, FlagsOK, reader, caller, history
  <2> QED BY <1>2, <1>3, <1>4, <2>1 DEF TypeOK, Status, reader, caller, history
<1>7. CallsInStep'
  BY <1>2 DEF CallsInStep, joinable, reader, caller
<1>8. tpc \in {"events", "sweepEvents", "lastEvents"}
  BY <1>2 DEF InEvents
<1>9. OwnedInside'
  BY <1>2, <1>3, <1>8 DEF OwnedInside, TypeOK, AllIdle, reader
<1>10. StatusTells'
  BY <1>2, <1>4, <1>8 DEF StatusTells, reader
<1>11. \A y \in Xfer : /\ flight[y] = "idle" => flight'[y] = "idle"
                       /\ flight[y] # "dying" => flight'[y] # "dying"
  BY <1>2, <1>3 DEF TypeOK
<1>12. Swept'
  BY <1>2, <1>8, <1>11 DEF Swept, reader
<1>13. (~lost)' => ~lost
  BY <1>5, Zenon DEF TypeOK, FlagsOK
<1>14. LeavesClean'
  BY <1>2, <1>8, <1>11, <1>13 DEF LeavesClean, AllIdle, reader, history
<1> QED BY <1>6, <1>7, <1>9, <1>10, <1>12, <1>14

(* rtlsdr_read_async from its start to the first event handling. *)
LEMMA BeginKeepsAsync ==
  ASSUME InStep, ReadBegin \/ ReadClear \/ Submit \/ Loop
  PROVE  InStep'
<1> USE DEF InStep
<1>1. /\ UNCHANGED <<lost, errors, i, caller, usbFail, stale, hurt, prompt>>
      /\ tpc \in {"begin", "clear", "submit", "loop"}
      /\ tpc' \in {"clear", "submit", "loop", "events", "done"}
  BY DEF ReadBegin, ReadClear, Submit, Loop, device, history, StatusTells
<1>2. TypeOK'
  <2>1. FlagsOK'
    BY Zenon DEF TypeOK, FlagsOK, ReadBegin, ReadClear, Submit, Loop, device, caller, history
  <2>2. CASE Submit
    BY <2>1, <2>2 DEF Submit, TypeOK, Status, caller, history
  <2>3. CASE ReadBegin \/ ReadClear \/ Loop
    BY <2>1, <2>3 DEF ReadBegin, ReadClear, Loop, TypeOK, Status, device, xfers, caller,
                      history
  <2> QED BY <2>2, <2>3
<1>3. CallsInStep'
  BY <1>1 DEF CallsInStep, joinable, caller
<1>4. StatusTells'
  BY <1>1 DEF ReadBegin, ReadClear, Submit, Loop, StatusTells, Healthy, device
<1>5. /\ tpc' \in {"clear", "submit", "done"} => AllIdle'
      /\ \A x \in Xfer : /\ xstatus'[x] = "cancelled" => flight'[x] = "idle"
                         /\ prompt => flight'[x] # "dying"
  <2>1. CASE Submit
    BY <2>1 DEF Submit
  <2>2. CASE ReadBegin \/ ReadClear \/ Loop
    BY <2>2, <1>1 DEF ReadBegin, ReadClear, Loop, OwnedInside, Swept, AllIdle, xfers,
                      StatusTells
  <2> QED BY <2>1, <2>2
<1>6. OwnedInside' /\ Swept' /\ LeavesClean'
  BY <1>1, <1>5 DEF OwnedInside, Swept, LeavesClean
<1> QED BY <1>2, <1>3, <1>4, <1>6

(* The head of the loop and its decision to sweep. *)
LEMMA LoopKeepsAsync ==
  ASSUME InStep, EventsReturn \/ EventsInterrupted \/ EventsFail \/ Check
  PROVE  InStep'
<1> USE DEF InStep
<1>1. /\ UNCHANGED <<device, xfers, caller, stale, hurt, prompt>>
      /\ tpc \in {"events", "check"}
      /\ \/ tpc' \in {"check", "loop"} /\ UNCHANGED <<next, i, usbFail>>
         \/ tpc' = "free" /\ usbFail' = TRUE /\ UNCHANGED <<next, i>>
         \/ tpc' = "sweep" /\ i' = 1 /\ next' = "INACTIVE" /\ UNCHANGED usbFail
  BY DEF EventsReturn, EventsInterrupted, EventsFail, Check, history
<1>2. TypeOK'
  <2>1. FlagsOK'
    BY Zenon DEF EventsReturn, EventsInterrupted, EventsFail, Check, TypeOK, FlagsOK, device,
                 caller, history
  <2> QED BY <2>1 DEF EventsReturn, EventsInterrupted, EventsFail, Check, TypeOK, Status,
                      device, xfers, caller, history
<1>3. CallsInStep'
  BY <1>1 DEF CallsInStep, joinable, caller
<1>4. OwnedInside' /\ StatusTells'
  BY <1>1 DEF OwnedInside, StatusTells, Healthy, AllIdle, device, xfers
<1>5. Swept'
  BY <1>1 DEF Swept, xfers, Xfer
<1>6. LeavesClean'
  BY <1>1 DEF LeavesClean, device
<1> QED BY <1>2, <1>3, <1>4, <1>5, <1>6

(* The sweep: a transfer is passed when it was cancelled before, or asked   *)
(* to cancel and given an event handling; next_status remembers whether     *)
(* there was anything to cancel.                                           *)
LEMMA SweepKeepsAsync ==
  ASSUME InStep, Sweep \/ SweepEventsReturn \/ SweepEnd
  PROVE  InStep'
<1> USE DEF InStep
<1>1. /\ UNCHANGED <<device, xstatus, caller, history, prompt>>
      /\ tpc \in {"sweep", "sweepEvents"}
      /\ tpc' \in {"sweep", "sweepEvents", "lastEvents", "loop"}
  BY DEF Sweep, SweepEventsReturn, SweepEnd, xfers
<1>2. TypeOK'
  <2>1. FlagsOK'
    BY <1>1, Zenon DEF TypeOK, FlagsOK, device, caller, history
  <2>2. i' \in 1..(NXfer + 1) /\ next' \in Status
    BY DEF Sweep, SweepEventsReturn, SweepEnd, TypeOK, Swept, Status, Xfer
  <2>3. flight' \in [Xfer -> {"idle", "busy", "dying"}]
    BY DEF Sweep, SweepEventsReturn, SweepEnd, TypeOK, xfers
  <2> QED BY <1>1, <2>1, <2>2, <2>3 DEF TypeOK, device, caller, history
<1>3. CallsInStep'
  BY <1>1 DEF CallsInStep, joinable, caller
<1>4. StatusTells'
  BY <1>1 DEF StatusTells, device
<1>5. \A x \in Xfer : /\ flight[x] = "idle" => flight'[x] = "idle"
                      /\ xstatus[x] = "cancelled" => flight'[x] = "idle"
  BY DEF Sweep, SweepEventsReturn, SweepEnd, TypeOK, OwnedInside, xfers
<1>6. OwnedInside'
  BY <1>1, <1>5 DEF OwnedInside, AllIdle
<1>7. Swept' /\ LeavesClean'
  <2>1. CASE Sweep /\ xstatus[i] = "cancelled"
    <3>1. /\ tpc = "sweep" /\ tpc' = "sweep" /\ i' = i + 1 /\ flight' = flight
          /\ next' = next /\ i \in Xfer
      BY <2>1 DEF Sweep, TypeOK, Xfer
    <3>2. \A x \in Xfer : x < i' => x < i \/ x = i
      BY <3>1 DEF Xfer, TypeOK
    <3> QED BY <1>1, <3>1, <3>2, <2>1, Zenon DEF Swept, LeavesClean, OwnedInside, history, device
  <2>2. CASE Sweep /\ xstatus[i] # "cancelled"
    <3>1. /\ tpc = "sweep" /\ tpc' = "sweepEvents" /\ i' = i /\ i \in Xfer
          /\ next' = IF flight[i] = "busy" THEN "CANCELING" ELSE next
          /\ flight' = [flight EXCEPT ![i] = IF @ = "busy" THEN "dying" ELSE @]
      BY <2>2 DEF Sweep, TypeOK, Xfer
    <3>2. \A x \in Xfer : x <= i' => x < i \/ x = i
      BY <3>1 DEF Xfer, TypeOK
    <3>3. next' = "INACTIVE" => flight[i] # "busy" /\ next = "INACTIVE" /\ flight' = flight
      BY <3>1 DEF TypeOK
    <3>4. prompt => flight[i] \in {"idle", "busy"}
      BY <3>1 DEF Swept, TypeOK
    <3> QED BY <1>1, <3>1, <3>2, <3>3, <3>4, Zenon DEF Swept, LeavesClean, history, device
  <2>3. CASE SweepEventsReturn
    <3>1. /\ tpc = "sweepEvents" /\ tpc' = "sweep" /\ i' = i + 1 /\ flight' = flight
          /\ next' = next /\ i \in Xfer
          /\ prompt => \A x \in Xfer : flight[x] # "dying"
      BY <2>3 DEF SweepEventsReturn, Propagated, Swept, xfers
    <3>2. \A x \in Xfer : x < i' => x <= i
      BY <3>1 DEF Xfer
    <3> QED BY <1>1, <3>1, <3>2 DEF Swept, LeavesClean, history, device
  <2>4. CASE SweepEnd
    <3>1. /\ tpc = "sweep" /\ i = NXfer + 1 /\ flight' = flight /\ next' = next
          /\ tpc' \in {"lastEvents", "loop"}
          /\ ~lost /\ tpc' = "lastEvents" => next = "INACTIVE"
      BY <2>4 DEF SweepEnd, xfers
    <3>2. \A x \in Xfer : x < i
      BY <3>1 DEF Xfer
    <3> QED BY <1>1, <3>1, <3>2 DEF Swept, LeavesClean, AllIdle, history, device
  <2> QED BY <2>1, <2>2, <2>3, <2>4, Zenon
<1> QED BY <1>2, <1>3, <1>4, <1>6, <1>7

(* The transfers are freed and the status is written back. *)
LEMMA EndKeepsAsync ==
  ASSUME InStep, LastEventsReturn \/ Free \/ Leave
  PROVE  InStep'
<1> USE DEF InStep
<1>1. /\ UNCHANGED <<lost, next, i, caller, usbFail, stale, prompt>>
      /\ tpc \in {"lastEvents", "free", "leave"}
      /\ tpc' \in {"free", "leave", "done"}
  BY DEF LastEventsReturn, Free, Leave, device, history
<1>2. TypeOK'
  <2>1. FlagsOK'
    <3>1. CASE LastEventsReturn \/ Leave
      BY <3>1, Zenon DEF LastEventsReturn, Leave, TypeOK, FlagsOK, device, caller, history
    <3>2. CASE Free
      <4>1. hurt' \in BOOLEAN
        BY <3>2 DEF Free
      <4> QED BY <3>2, <4>1, Zenon DEF Free, TypeOK, FlagsOK, device, caller
    <3> QED BY <3>1, <3>2
  <2> QED BY <2>1 DEF LastEventsReturn, Free, Leave, TypeOK, device, xfers, caller, history
<1>3. CallsInStep'
  BY <1>1 DEF CallsInStep, joinable, caller
<1>4. StatusTells'
  BY <1>1 DEF LastEventsReturn, Free, Leave, StatusTells, LeavesClean, Healthy, device
<1>5. /\ tpc' \in {"leave", "done"} => AllIdle'
      /\ \A x \in Xfer : /\ xstatus'[x] = "cancelled" => flight'[x] = "idle"
                         /\ prompt => flight'[x] # "dying"
      /\ AllIdle => AllIdle'
  BY <1>1 DEF LastEventsReturn, Free, Leave, OwnedInside, Swept, AllIdle, xfers
<1>6. OwnedInside' /\ Swept'
  BY <1>1, <1>5 DEF OwnedInside, Swept
<1>7. LeavesClean'
  <2>1. CASE Free
    <3>1. AllIdle /\ ~hurt => ~hurt'
      BY <2>1, Zenon DEF Free, AllIdle
    <3> QED BY <1>1, <2>1, <3>1 DEF Free, LeavesClean
  <2>2. CASE LastEventsReturn \/ Leave
    BY <1>1, <1>5, <2>2 DEF LastEventsReturn, Leave, LeavesClean, history
  <2> QED BY <2>1, <2>2
<1> QED BY <1>2, <1>3, <1>4, <1>6, <1>7

(* Every step keeps InStep. *)
LEMMA NextAsync == InStep /\ [Next]_vars => InStep'
<1> SUFFICES ASSUME InStep, [Next]_vars PROVE InStep'
  OBVIOUS
<1>1. CASE Application
  BY <1>1, CallsKeepAsync, CancelKeepsAsync DEF Application
<1>2. CASE Callbacks
  BY <1>2, CallbacksKeepAsync
<1>3. CASE Reader
  BY <1>3, BeginKeepsAsync, LoopKeepsAsync, SweepKeepsAsync, EndKeepsAsync DEF Reader
<1>4. CASE UNCHANGED vars
  BY <1>4 DEF vars, device, xfers, reader, caller, history, InStep, TypeOK, FlagsOK,
              CallsInStep, OwnedInside, StatusTells, Swept, LeavesClean, AllIdle, Healthy,
              joinable
<1> QED BY <1>1, <1>2, <1>3, <1>4 DEF Next, Gone

(* There are finitely many idle transfers, before a step and after it. *)
LEMMA IdleFinite == IsFiniteSet(Idle) /\ IsFiniteSet(Idle')
<1>1. IsFiniteSet(Xfer)
  BY FS_Interval DEF Xfer
<1>2. Idle \in SUBSET Xfer /\ Idle' \in SUBSET Xfer
  BY DEF Idle
<1> QED BY <1>1, <1>2, FS_Subset

(* A transfer that leaves libusb's hands is one more idle transfer. *)
LEMMA OneMoreIdle ==
  ASSUME TypeOK, NEW x \in Xfer, flight[x] # "idle",
         flight' = [flight EXCEPT ![x] = "idle"]
  PROVE  Cardinality(Idle') = Cardinality(Idle) + 1
<1>1. Idle' = Idle \cup {x} /\ x \notin Idle
  BY DEF Idle, TypeOK
<1> QED BY <1>1, IdleFinite, FS_AddElement

(* The callbacks count an error when, and only when, a transfer dies. *)
LEMMA CallbacksKeepCount ==
  ASSUME InStep, ErrorsCounted, Callbacks
  PROVE  ErrorsCounted'
<1>1. PICK x \in Xfer : CallbackCompleted(x) \/ CallbackCancelled(x) \/ CallbackFailed(x)
  BY DEF Callbacks
<1>2. /\ UNCHANGED <<tpc, carried>>
      /\ tpc \in {"events", "sweepEvents", "lastEvents"}
  BY <1>1 DEF CallbackCompleted, CallbackCancelled, CallbackFailed, InEvents, reader, history
<1>3. TypeOK /\ errors \in Nat
  BY DEF InStep, TypeOK
<1>4. Cardinality(Idle) \in Nat /\ Cardinality(Idle') \in Nat
  BY IdleFinite, FS_CardinalityType
<1>5. CASE CallbackCompleted(x)
  BY <1>2, <1>4, <1>5 DEF CallbackCompleted, ErrorsCounted
<1>6. CASE CallbackCancelled(x) \/ CallbackFailed(x)
  <2>1. flight[x] # "idle" /\ flight' = [flight EXCEPT ![x] = "idle"]
    BY <1>6 DEF CallbackCancelled, CallbackFailed
  <2>2. errors' \in {errors, errors + 1}
    BY <1>6 DEF CallbackCancelled, CallbackFailed, device
  <2>3. Cardinality(Idle') = Cardinality(Idle) + 1
    BY <1>3, <2>1, OneMoreIdle, Zenon
  <2> QED BY <1>2, <1>3, <1>4, <2>2, <2>3 DEF ErrorsCounted
<1> QED BY <1>1, <1>5, <1>6

(* No other step of a running rtlsdr_read_async changes the count, or makes *)
(* a transfer busy that was idle, except the submission, before which the   *)
(* count is zero.                                                          *)
LEMMA OthersKeepCount ==
  ASSUME InStep, ErrorsCounted, Application \/ Reader \/ UNCHANGED vars
  PROVE  ErrorsCounted'
<1>1. Cardinality(Idle) \in Nat /\ Cardinality(Idle') \in Nat
  BY IdleFinite, FS_CardinalityType
<1>2. CASE Application
  <2>1. /\ UNCHANGED <<errors, flight, carried>>
        /\ tpc' \in {tpc, "begin", "none"}
    BY <1>2 DEF Application, setupStream, activateStream, deactivateStream, CancelTest,
                CancelWrite, Join, Delete, rtlsdr_close, device, xfers, reader, history
  <2>2. Idle' = Idle
    BY <2>1 DEF Idle
  <2> QED BY <2>1, <2>2, SMTT(30) DEF ErrorsCounted
<1>3. CASE ReadBegin
  BY <1>3 DEF ReadBegin, ErrorsCounted
<1>4. CASE ReadClear
  BY <1>4, Zenon DEF ReadClear, ErrorsCounted, history
<1>5. CASE Submit
  BY <1>1, <1>5 DEF Submit, ErrorsCounted, history
<1>6. CASE Loop \/ EventsReturn \/ EventsInterrupted \/ EventsFail \/ Check
           \/ SweepEventsReturn \/ SweepEnd \/ LastEventsReturn
  <2>1. /\ UNCHANGED <<errors, flight, carried>>
        /\ tpc \in {"loop", "events", "check", "sweep", "sweepEvents", "lastEvents"}
        /\ tpc' \in {"loop", "events", "check", "sweep", "lastEvents", "free"}
    BY <1>6 DEF Loop, EventsReturn, EventsInterrupted, EventsFail, Check, SweepEventsReturn,
                SweepEnd, LastEventsReturn, device, xfers, history
  <2>2. Idle' = Idle
    BY <2>1 DEF Idle
  <2> QED BY <2>1, <2>2, Zenon DEF ErrorsCounted
<1>7. CASE Sweep
  <2>1. /\ UNCHANGED <<errors, carried>>
        /\ tpc = "sweep" /\ tpc' \in {"sweep", "sweepEvents"}
    BY <1>7 DEF Sweep, device, history
  <2>2. Idle' = Idle
    BY <1>7 DEF Sweep, Idle, InStep, TypeOK
  <2> QED BY <2>1, <2>2 DEF ErrorsCounted
<1>8. CASE Free \/ Leave
  BY <1>8 DEF Free, Leave, ErrorsCounted
<1>9. CASE UNCHANGED vars
  <2>1. UNCHANGED <<errors, flight, carried, tpc>>
    BY <1>9 DEF vars, device, xfers, reader, history
  <2> QED BY <2>1 DEF ErrorsCounted, Idle
<1> QED BY <1>2, <1>3, <1>4, <1>5, <1>6, <1>7, <1>8, <1>9 DEF Reader

(* The status, the transfers, the error count and the two threads stay in   *)
(* step.                                                                   *)
THEOREM AsyncInStep == Spec => []AsyncInv
<1>1. Init => AsyncInv
  BY InitAsync DEF Init, AsyncInv, ErrorsCounted
<1>2. AsyncInv /\ [Next]_vars => AsyncInv'
  BY NextAsync, CallbacksKeepCount, OthersKeepCount DEF AsyncInv, Next, Gone
<1> QED BY <1>1, <1>2, PTL DEF Spec

(* As many errors in a row as there are transfers mean that none is left:   *)
(* the device is not given up while it still delivers.                     *)
THEOREM AlarmIsReal == Spec => []AlarmMeansDead
<1>1. AsyncInv => AlarmMeansDead
  <2> SUFFICES ASSUME AsyncInv, errors >= NXfer, carried = 0 PROVE AllIdle
    BY DEF AlarmMeansDead, AllIdle
  <2>1. TypeOK /\ OwnedInside
    BY DEF AsyncInv, InStep
  <2>2. CASE tpc \in {"none", "begin", "clear", "submit", "leave", "done"}
    BY <2>1, <2>2 DEF OwnedInside
  <2>3. CASE tpc \in {"loop", "events", "check", "sweep", "sweepEvents", "lastEvents", "free"}
    <3>1. errors <= Cardinality(Idle)
      BY <2>3 DEF AsyncInv, ErrorsCounted
    <3>2. IsFiniteSet(Xfer) /\ Cardinality(Xfer) = NXfer
      BY FS_Interval DEF Xfer
    <3>3. Cardinality(Idle) \in Nat
      BY IdleFinite, FS_CardinalityType
    <3>4. Cardinality(Xfer) <= Cardinality(Idle)
      BY <2>1, <3>1, <3>2, <3>3 DEF TypeOK
    <3>5. Idle = Xfer
      BY <3>2, <3>3, <3>4, FS_Subset DEF Idle
    <3> QED BY <3>5 DEF Idle, AllIdle
  <2> QED BY <2>1, <2>2, <2>3 DEF TypeOK
<1> QED BY <1>1, AsyncInStep, PTL

(* rtlsdr_read_async frees no transfer that libusb still owns, if           *)
(* cancellations propagate and no fault made it leave its loop.             *)
THEOREM FreesOnlyIdle == Spec => []FreedAreIdle
<1>1. AsyncInv => FreedAreIdle
  BY DEF AsyncInv, InStep, LeavesClean, FreedAreIdle
<1> QED BY <1>1, AsyncInStep, PTL

(* A device whose reading thread was joined can be activated again and      *)
(* closed, unless a fault occurred.                                        *)
THEOREM JoinedIsInactive == Spec => []StoppedIsInactive
<1>1. AsyncInv => StoppedIsInactive
  BY DEF AsyncInv, InStep, StatusTells, StoppedIsInactive
<1> QED BY <1>1, AsyncInStep, PTL

(* After closeStream there is nobody left to call rx_callback. *)
THEOREM ClosedHasNoReader == Spec => []NoReaderAfterClose
<1>1. AsyncInv => NoReaderAfterClose
  BY DEF AsyncInv, InStep, CallsInStep, OwnedInside, AllIdle, NoReaderAfterClose
<1> QED BY <1>1, AsyncInStep, PTL
=============================================================================
