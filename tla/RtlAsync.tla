----------------------------- MODULE RtlAsync -----------------------------
(***************************************************************************)
(* Starting and stopping reception on an RTL-SDR dongle: the asynchronous  *)
(* reader of librtlsdr (rtlsdr_read_async, _libusb_callback,               *)
(* rtlsdr_cancel_async, rtlsdr_close) composed with the SoapyRTLSDR calls  *)
(* that drive it (activateStream, deactivateStream, closeStream and the    *)
(* destructor).                                                            *)
(*                                                                         *)
(* Two threads: the application's, which runs the stream calls, and the    *)
(* reading thread, which activateStream starts and deactivateStream joins. *)
(* They share dev->async_status and dev->async_cancel, two plain ints that *)
(* no lock protects; every read and every write of async_status is a step  *)
(* of its own.                                                             *)
(*                                                                         *)
(* The USB transfers are libusb's (external).  A transfer is idle, busy    *)
(* (submitted) or dying (submitted, its cancellation asked for), and keeps *)
(* the status of its last completion.  libusb runs the completion callback *)
(* inside an event-handling call of the reading thread and nowhere else.   *)
(* What the callback hands to rx_callback is the subject of RtlRing.       *)
(***************************************************************************)
EXTENDS Naturals, FiniteSets

CONSTANTS NXfer,           \* dev->xfer_buf_num
          MaxActivations   \* bound: calls of activateStream that start a thread

ASSUME NXferAssumption == NXfer \in Nat \ {0}
ASSUME MaxActivationsAssumption == MaxActivations \in Nat

Xfer == 1..NXfer

VARIABLES
  status,   \* dev->async_status
  cancel,   \* dev->async_cancel
  lost,     \* dev->dev_lost
  errors,   \* dev->xfer_errors
  flight,   \* per transfer: "idle", "busy" or "dying"
  xstatus,  \* per transfer: xfer->status; a fresh transfer has the zero, "completed"
  tpc,      \* where the reading thread is; "none" when there is no thread
  next,     \* next_status, a local of rtlsdr_read_async
  i,        \* the index of its loop over the transfers
  api,      \* where the application's thread is
  after,    \* what follows the join: "idle" for deactivateStream, else closeStream
  started,  \* number of threads started so far
  open,     \* a stream is set up: _buffs is allocated
  prompt,   \* libusb: the event handling after a cancel completes the cancellation
  took,     \* history: the pending rtlsdr_cancel_async returned 0
  carried,  \* history: xfer_errors when the running rtlsdr_read_async began
  usbFail,  \* history: libusb's event handling failed for good
  stale,    \* history: CANCELING was written over something else than RUNNING
  hurt      \* history: a transfer was freed while libusb still owned it

device  == <<status, cancel, lost, errors>>
xfers   == <<flight, xstatus>>
reader  == <<tpc, next, i>>
caller  == <<api, after, started, open>>
history == <<took, carried, usbFail, stale, hurt>>
vars == <<device, xfers, reader, caller, history, prompt>>

Status == {"INACTIVE", "RUNNING", "CANCELING"}

FlagsOK ==
  /\ cancel \in BOOLEAN
  /\ lost \in BOOLEAN
  /\ open \in BOOLEAN
  /\ prompt \in BOOLEAN
  /\ took \in BOOLEAN
  /\ usbFail \in BOOLEAN
  /\ stale \in BOOLEAN
  /\ hurt \in BOOLEAN

TypeOK ==
  /\ FlagsOK
  /\ status \in Status
  /\ next \in Status
  /\ errors \in Nat
  /\ flight \in [Xfer -> {"idle", "busy", "dying"}]
  /\ xstatus \in [Xfer -> {"completed", "cancelled", "failed"}]
  /\ tpc \in {"none", "begin", "clear", "submit", "loop", "events", "check",
              "sweep", "sweepEvents", "lastEvents", "free", "leave", "done"}
  /\ i \in 1..(NXfer + 1)
  /\ api \in {"idle", "cancel", "write", "join", "close", "closed"}
  /\ after \in {"idle", "free"}
  /\ started \in 0..MaxActivations
  /\ carried \in Nat

Init ==
  /\ status = "INACTIVE"
  /\ cancel = FALSE
  /\ lost = FALSE
  /\ errors = 0
  /\ flight = [x \in Xfer |-> "idle"]
  /\ xstatus = [x \in Xfer |-> "completed"]
  /\ tpc = "none"
  /\ next = "INACTIVE"
  /\ i = 1
  /\ api = "idle"
  /\ after = "idle"
  /\ started = 0
  /\ open = FALSE
  /\ prompt \in BOOLEAN
  /\ took = FALSE
  /\ carried = 0
  /\ usbFail = FALSE
  /\ stale = FALSE
  /\ hurt = FALSE

joinable == tpc # "none"     \* _rx_async_thread.joinable(): started and not yet joined

----------------------------------------------------------------------------
(* The application's thread.  It uses the stream calls as Device.hpp asks: *)
(* a stream is set up before it is activated, and closed before the device *)
(* is deleted.                                                             *)

setupStream ==
  /\ api = "idle" /\ ~open
  /\ open' = TRUE
  /\ UNCHANGED <<device, xfers, reader, api, after, started, history, prompt>>

(* Starts a thread only when there is none to join. *)
activateStream ==
  /\ api = "idle" /\ open /\ ~joinable
  /\ started < MaxActivations
  /\ started' = started + 1
  /\ tpc' = "begin"
  /\ UNCHANGED <<device, xfers, next, i, api, after, open, history, prompt>>

(* Mutant: closeStream does not deactivate the stream. *)
deactivateStream_CloseOnly(to) ==
  /\ api = "idle" /\ open
  /\ after' = to
  /\ took' = FALSE
  /\ IF joinable /\ to # "free"
     THEN api' = "cancel" /\ open' = open
     ELSE api' = "idle" /\ open' = (open /\ to # "free")
  /\ UNCHANGED <<device, xfers, reader, started, carried, usbFail, stale, hurt, prompt>>

(* deactivateStream, called by the user (to = "idle") or by closeStream     *)
(* (to = "free").  Without a thread there is nothing to stop.              *)
deactivateStream(to) ==
  /\ api = "idle" /\ open
  /\ after' = to
  /\ took' = FALSE
  /\ IF joinable
     THEN api' = "cancel" /\ open' = open
     ELSE api' = "idle" /\ open' = (open /\ to # "free")
  /\ UNCHANGED <<device, xfers, reader, started, carried, usbFail, stale, hurt, prompt>>

(* rtlsdr_cancel_async: the test ... *)
CancelTest ==
  /\ api = "cancel"
  /\ api' = IF status = "RUNNING" THEN "write" ELSE "join"
  /\ UNCHANGED <<device, xfers, reader, after, started, open, history, prompt>>

(* ... and the writes it leads to, by which time the status may have changed. *)
CancelWrite ==
  /\ api = "write"
  /\ status' = "CANCELING"
  /\ cancel' = TRUE
  /\ took' = TRUE
  /\ stale' = (stale \/ status # "RUNNING")
  /\ api' = "join"
  /\ UNCHANGED <<lost, errors, xfers, reader, after, started, open, carried, usbFail, hurt,
                 prompt>>

(* _rx_async_thread.join() returns; closeStream then clears _buffs. *)
Join ==
  /\ api = "join" /\ tpc = "done"
  /\ tpc' = "none"
  /\ api' = "idle"
  /\ open' = (open /\ after # "free")
  /\ UNCHANGED <<device, xfers, next, i, after, started, history, prompt>>

(* ~SoapyRTLSDR calls rtlsdr_close ... *)
Delete ==
  /\ api = "idle" /\ ~open
  /\ api' = "close"
  /\ UNCHANGED <<device, xfers, reader, after, started, open, history, prompt>>

(* ... which polls async_status until it is INACTIVE, unless the device is lost. *)
rtlsdr_close ==
  /\ api = "close"
  /\ api' = IF lost \/ status = "INACTIVE" THEN "closed" ELSE "close"
  /\ UNCHANGED <<device, xfers, reader, after, started, open, history, prompt>>

----------------------------------------------------------------------------
(* The reading thread: rtlsdr_read_async.                                  *)

(* Refuses (returns -2) unless the device is INACTIVE. *)
ReadBegin ==
  /\ tpc = "begin"
  /\ IF status = "INACTIVE"
     THEN status' = "RUNNING" /\ tpc' = "clear"
     ELSE status' = status /\ tpc' = "done"
  /\ next' = "INACTIVE"
  /\ carried' = errors
  /\ UNCHANGED <<cancel, lost, errors, xfers, i, caller, took, usbFail, stale, hurt, prompt>>

ReadClear ==
  /\ tpc = "clear"
  /\ cancel' = FALSE
  /\ tpc' = "submit"
  /\ UNCHANGED <<status, lost, errors, xfers, next, i, caller, history, prompt>>

(* Allocates the transfers and submits them in turn, up to the first that  *)
(* libusb refuses.  The other thread sees only the status, which the loop  *)
(* writes once, at its end: one step.                                      *)
Submit ==
  /\ tpc = "submit"
  /\ \E n \in 0..NXfer :
       /\ flight' = [x \in Xfer |-> IF x <= n THEN "busy" ELSE "idle"]
       /\ status' = IF n = NXfer THEN status ELSE "CANCELING"
  /\ xstatus' = [x \in Xfer |-> "completed"]
  /\ tpc' = "loop"
  /\ UNCHANGED <<cancel, lost, errors, next, i, caller, history, prompt>>

Loop ==
  /\ tpc = "loop"
  /\ tpc' = IF status = "INACTIVE" THEN "free" ELSE "events"
  /\ UNCHANGED <<device, xfers, next, i, caller, history, prompt>>

(* Event handling runs completion callbacks; libusb skips it at the head   *)
(* of the loop when async_cancel is set.                                   *)
InEvents == \/ tpc = "events" /\ ~cancel
            \/ tpc \in {"sweepEvents", "lastEvents"}

(* _libusb_callback, COMPLETED: the block goes to rx_callback, the error   *)
(* count restarts and the transfer is submitted again, which may fail      *)
(* without anybody noticing.                                               *)
CallbackCompleted(x) ==
  /\ InEvents
  /\ flight[x] # "idle"
  /\ \E f \in {"busy", "idle"} : flight' = [flight EXCEPT ![x] = f]
  /\ xstatus' = [xstatus EXCEPT ![x] = "completed"]
  /\ errors' = 0
  /\ UNCHANGED <<status, cancel, lost, reader, caller, history, prompt>>

CallbackCancelled(x) ==
  /\ InEvents
  /\ flight[x] = "dying"
  /\ flight' = [flight EXCEPT ![x] = "idle"]
  /\ xstatus' = [xstatus EXCEPT ![x] = "cancelled"]
  /\ UNCHANGED <<device, reader, caller, history, prompt>>

(* rtlsdr_cancel_async on the reading thread, which alone can leave the    *)
(* states RUNNING and CANCELING: its test and its write are one step.      *)
CancelFromCallback ==
  IF status = "RUNNING" THEN status' = "CANCELING" /\ cancel' = TRUE
                        ELSE UNCHANGED <<status, cancel>>

(* Mutant: a transfer that failed is submitted again. *)
CallbackFailed_Resubmit(x) ==
  /\ InEvents
  /\ flight[x] # "idle"
  /\ xstatus' = [xstatus EXCEPT ![x] = "failed"]
  /\ errors' = errors + 1
  /\ IF errors' >= NXfer THEN lost' = TRUE /\ CancelFromCallback
                         ELSE UNCHANGED <<status, cancel, lost>>
  /\ UNCHANGED <<flight, reader, caller, history, prompt>>

(* Any other status: the transfer is not submitted again.  The device      *)
(* counts as lost when libusb says so, or at the NXfer-th ERROR in a row.  *)
CallbackFailed(x) ==
  /\ InEvents
  /\ flight[x] # "idle"
  /\ flight' = [flight EXCEPT ![x] = "idle"]
  /\ xstatus' = [xstatus EXCEPT ![x] = "failed"]
  /\ \E s \in {"ERROR", "NO_DEVICE", "STALL"} :
       /\ errors' = IF s = "ERROR" THEN errors + 1 ELSE errors
       /\ IF errors' >= NXfer \/ s = "NO_DEVICE"
          THEN lost' = TRUE /\ CancelFromCallback
          ELSE UNCHANGED <<status, cancel, lost>>
  /\ UNCHANGED <<reader, caller, history, prompt>>

(* The event handling at the head of the loop returns after an event or    *)
(* its 1 s time-out ...                                                    *)
EventsReturn ==
  /\ tpc = "events"
  /\ tpc' = "check"
  /\ UNCHANGED <<device, xfers, next, i, caller, history, prompt>>

(* ... or because of a stray signal, and is simply called again ... *)
EventsInterrupted ==
  /\ tpc = "events"
  /\ tpc' = "loop"
  /\ UNCHANGED <<device, xfers, next, i, caller, history, prompt>>

(* ... or with an error, which ends the loop. *)
EventsFail ==
  /\ tpc = "events"
  /\ tpc' = "free"
  /\ usbFail' = TRUE
  /\ UNCHANGED <<device, xfers, next, i, caller, took, carried, stale, hurt, prompt>>

Check ==
  /\ tpc = "check"
  /\ IF status = "CANCELING"
     THEN tpc' = "sweep" /\ next' = "INACTIVE" /\ i' = 1
     ELSE tpc' = "loop" /\ UNCHANGED <<next, i>>
  /\ UNCHANGED <<device, xfers, caller, history, prompt>>

(* Mutant: the sweep forgets that it has cancelled something. *)
Sweep_Once ==
  /\ tpc = "sweep" /\ i <= NXfer
  /\ IF xstatus[i] = "cancelled"
     THEN i' = i + 1 /\ UNCHANGED <<flight, tpc>>
     ELSE /\ flight' = [flight EXCEPT ![i] = IF @ = "busy" THEN "dying" ELSE @]
          /\ tpc' = "sweepEvents"
          /\ i' = i
  /\ UNCHANGED <<device, xstatus, next, caller, history, prompt>>

(* One transfer of the sweep: libusb_cancel_transfer succeeds for a        *)
(* submitted transfer and fails for one that is idle or already dying.     *)
Sweep ==
  /\ tpc = "sweep" /\ i <= NXfer
  /\ IF xstatus[i] = "cancelled"
     THEN i' = i + 1 /\ UNCHANGED <<flight, next, tpc>>
     ELSE /\ flight' = [flight EXCEPT ![i] = IF @ = "busy" THEN "dying" ELSE @]
          /\ next' = IF flight[i] = "busy" THEN "CANCELING" ELSE next
          /\ tpc' = "sweepEvents"
          /\ i' = i
  /\ UNCHANGED <<device, xstatus, caller, history, prompt>>

(* Event handling with a zero time-out, to let the cancellation through. *)
Propagated == prompt => \A x \in Xfer : flight[x] # "dying"

SweepEventsReturn ==
  /\ tpc = "sweepEvents"
  /\ Propagated
  /\ tpc' = "sweep"
  /\ i' = i + 1
  /\ UNCHANGED <<device, xfers, next, caller, history, prompt>>

(* Mutant: the sweep is repeated until the device is lost. *)
SweepEnd_Again ==
  /\ tpc = "sweep" /\ i = NXfer + 1
  /\ tpc' = IF lost THEN "lastEvents" ELSE "loop"
  /\ UNCHANGED <<device, xfers, next, i, caller, history, prompt>>

(* End of a sweep: again, unless there was nothing left to cancel. *)
SweepEnd ==
  /\ tpc = "sweep" /\ i = NXfer + 1
  /\ tpc' = IF lost \/ next = "INACTIVE" THEN "lastEvents" ELSE "loop"
  /\ UNCHANGED <<device, xfers, next, i, caller, history, prompt>>

LastEventsReturn ==
  /\ tpc = "lastEvents"
  /\ Propagated
  /\ tpc' = "free"
  /\ UNCHANGED <<device, xfers, next, i, caller, history, prompt>>

(* _rtlsdr_free_async_buffers. *)
Free ==
  /\ tpc = "free"
  /\ hurt' = (hurt \/ \E x \in Xfer : flight[x] # "idle")
  /\ flight' = [x \in Xfer |-> "idle"]
  /\ xstatus' = [x \in Xfer |-> "completed"]
  /\ tpc' = "leave"
  /\ UNCHANGED <<device, next, i, caller, took, carried, usbFail, stale, prompt>>

(* Mutant: the status is left as it is. *)
Leave_NoReset ==
  /\ tpc = "leave"
  /\ tpc' = "done"
  /\ UNCHANGED <<device, xfers, next, i, caller, history, prompt>>

Leave ==
  /\ tpc = "leave"
  /\ status' = next
  /\ tpc' = "done"
  /\ UNCHANGED <<cancel, lost, errors, xfers, next, i, caller, history, prompt>>

----------------------------------------------------------------------------
(* A closed device is gone: the only way the system stops. *)
Gone == api = "closed" /\ UNCHANGED vars

Application == \/ setupStream \/ activateStream
               \/ \E to \in {"idle", "free"} : deactivateStream(to)
               \/ CancelTest \/ CancelWrite \/ Join \/ Delete \/ rtlsdr_close

Callbacks == \E x \in Xfer :
  CallbackCompleted(x) \/ CallbackCancelled(x) \/ CallbackFailed(x)

Reader == \/ ReadBegin \/ ReadClear \/ Submit \/ Loop \/ EventsReturn \/ EventsInterrupted
          \/ EventsFail \/ Check \/ Sweep \/ SweepEventsReturn \/ SweepEnd \/ LastEventsReturn
          \/ Free \/ Leave

Next == Application \/ Callbacks \/ Reader \/ Gone

Spec == Init /\ [][Next]_vars

(* The reading thread keeps running (its calls into libusb return: every    *)
(* one has a time-out), signals do not interrupt every call, libusb ends   *)
(* by completing a cancellation that is asked for again and again, and the *)
(* application's thread finishes the call it is in.  Nothing makes the     *)
(* application call, a transfer fail or a block arrive.                    *)
Fairness ==
  /\ WF_vars(ReadBegin \/ ReadClear \/ Submit \/ Loop \/ Check \/ Sweep \/ SweepEnd
             \/ Free \/ Leave)
  /\ WF_vars(SweepEventsReturn \/ LastEventsReturn)
  /\ SF_vars(EventsReturn)
  /\ \A x \in Xfer : SF_vars(CallbackCancelled(x))
  /\ WF_vars(CancelTest \/ CancelWrite \/ Join \/ rtlsdr_close)

FairSpec == Spec /\ Fairness

----------------------------------------------------------------------------
(* No fault so far: libusb never failed for good, the device was not lost, *)
(* and CANCELING was never written over a status that had moved on.        *)
Healthy == ~usbFail /\ ~lost /\ ~stale

AllIdle == \A x \in Xfer : flight[x] = "idle"

(* A stream that is open, the reading thread and the calls in progress.    *)
CallsInStep ==
  /\ ~open => tpc = "none"
  /\ api \in {"cancel", "write", "join"} => joinable
  /\ api \in {"close", "closed"} => ~open

(* libusb owns transfers only between the submission and the release.      *)
OwnedInside ==
  /\ tpc \in {"none", "begin", "clear", "submit", "leave", "done"} => AllIdle
  /\ \A x \in Xfer : xstatus[x] = "cancelled" => flight[x] = "idle"

(* The status says INACTIVE when no rtlsdr_read_async runs, and not before. *)
StatusTells ==
  /\ tpc \notin {"none", "begin", "done"} => status # "INACTIVE"
  /\ Healthy /\ tpc \in {"none", "begin", "done"} => status = "INACTIVE"

(* What a sweep has found: while it has cancelled nothing, the transfers   *)
(* it passed are idle, if cancellations propagate.                         *)
Swept ==
  /\ tpc = "sweepEvents" => i \in Xfer
  /\ prompt /\ tpc # "sweepEvents" => \A x \in Xfer : flight[x] # "dying"
  /\ prompt /\ next = "INACTIVE" /\ tpc = "sweep" =>
       \A x \in Xfer : x < i => flight[x] = "idle"
  /\ prompt /\ next = "INACTIVE" /\ tpc = "sweepEvents" =>
       \A x \in Xfer : x <= i => flight[x] = "idle"

(* Without a fault the loop ends when there is nothing left to cancel.     *)
LeavesClean ==
  ~usbFail /\ ~lost =>
    /\ tpc \in {"lastEvents", "free", "leave"} => next = "INACTIVE"
    /\ prompt /\ tpc \in {"lastEvents", "free"} => AllIdle
    /\ prompt => ~hurt

InStep ==
  TypeOK /\ CallsInStep /\ OwnedInside /\ StatusTells /\ Swept /\ LeavesClean

(* Every error counted since the read began left a transfer idle: none is  *)
(* submitted again without resetting the count.                            *)
Idle == {x \in Xfer : flight[x] = "idle"}

ErrorsCounted ==
  carried = 0 =>
    /\ tpc \in {"clear", "submit"} => errors = 0
    /\ tpc \in {"loop", "events", "check", "sweep", "sweepEvents", "lastEvents", "free"} =>
         errors <= Cardinality(Idle)

(* The status, the transfers, the error count and the two threads stay in  *)
(* step, whatever the transfers do and whenever the stream is activated    *)
(* and deactivated.                                                        *)
AsyncInv == InStep /\ ErrorsCounted

(* rtlsdr_read_async frees its transfers only when libusb no longer owns   *)
(* any of them - provided that cancellations propagate in the event        *)
(* handling that follows them, as the comment in its sweep says, and that  *)
(* no fault made it leave early.                                           *)
FreedAreIdle == (prompt /\ ~usbFail /\ ~lost) => ~hurt

(* Once deactivateStream has joined the reading thread, and no fault       *)
(* occurred, async_status is INACTIVE again: the next activateStream will  *)
(* not be refused and rtlsdr_close will not wait for ever.                 *)
StoppedIsInactive == (Healthy /\ tpc = "none") => status = "INACTIVE"

(* rx_callback writes into _buffs, which closeStream clears, and the       *)
(* destructor frees the device: from then on there is no reading thread    *)
(* and no transfer left that could call it.                                *)
NoReaderAfterClose == ~open => tpc = "none" /\ \A x \in Xfer : flight[x] = "idle"

(* The error count is no false alarm: when it reaches xfer_buf_num, every  *)
(* transfer has failed - provided that rtlsdr_read_async began with a      *)
(* count of zero; it does not reset the count an earlier call left behind. *)
AlarmMeansDead ==
  (errors >= NXfer /\ carried = 0) => \A x \in Xfer : flight[x] = "idle"

(* A cancellation that rtlsdr_cancel_async accepted ends the reading       *)
(* thread, so that the join in deactivateStream returns.                   *)
CancelledEnds == (api = "join" /\ took) ~> (api # "join")

(* Without a fault, deleting the device comes to an end. *)
DeleteEnds == (api = "close" /\ Healthy) ~> (api = "closed")
=============================================================================
