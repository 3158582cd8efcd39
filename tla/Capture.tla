------------------------------ MODULE Capture ------------------------------
(***************************************************************************)
(* Frame capture: the daemon asks the micro-host for a copy of the output  *)
(* (wlr-screencopy), a thread writes it as a PNG file, and clients read    *)
(* the receipt (native/agentseat-capture.c, called by run_server and by    *)
(* capture.submit and capture.get of native/agentseatd.c).                 *)
(*                                                                         *)
(* Four parties: the daemon's loop, its PNG thread, the micro-host and a   *)
(* client that takes the receipt of a frame and then waits for changes     *)
(* (ContentHistory).  The loop and the micro-host exchange messages over   *)
(* one connection, in order both ways.  The thread and the loop share the  *)
(* receipt, the pixels, the flag worker_done and an eventfd.               *)
(*                                                                         *)
(* Captures are numbered 1, 2, ... as c->sequence does; a number stands    *)
(* for the frame object, its buffer and its file, whose names it makes     *)
(* unique.  Whether a window may be captured is not part of this module.   *)
(*                                                                         *)
(* Definitions headed "Mistake" are not part of the specification.         *)
(***************************************************************************)
EXTENDS ContentHistory, Sequences

CONSTANTS
    Retained,    \* RETAINED: receipts that are kept
    MaxCaptures  \* bound: captures submitted

ASSUME CaptureAssumption == Retained \in Nat \ {0} /\ MaxCaptures \in Nat

VARIABLES
    place,         \* where the loop is: a call of as_capture_tick, or what follows it
    step,          \* within as_capture_tick: "drain", "check"; "go" after it
    receipts,      \* c->receipts
    sequence,      \* c->sequence
    active,        \* number of c->active, 0: none
    deadline,      \* c->deadline: "off", "armed", or "late" once it has passed
    frame,         \* number of c->frame, 0: none
    pixels,        \* c->pixels is mapped
    workerRunning, \* c->worker_running
    workerDone,    \* c->worker_done
    wake,          \* the eventfd is readable
    worker,        \* what the PNG thread does next, or "none"
    success,       \* the PNG thread's local of that name
    files,         \* what the file of each capture is
    requests,      \* under way to the micro-host
    events,        \* under way to the daemon
    copying        \* number of the frame the next commit is copied to, 0: none

loopVars == <<place, step>>
captureVars == <<receipts, sequence, active, deadline, frame, pixels, workerRunning>>
sharedVars == <<workerDone, wake, worker, success, files>>
linkVars == <<requests, events, copying>>
vars == <<contentVars, loopVars, captureVars, sharedVars, linkVars>>

Numbers == 1..MaxCaptures
NoReceipt == [number |-> 0, status |-> "none", serial |-> 0, picture |-> NoCommit]

SlotOf(number) == (number - 1) % Retained
ActiveSlot == SlotOf(active)

Message(kind, number) == [kind |-> kind, number |-> number]

Init ==
    /\ InitContent
    /\ place = "top" /\ step = "drain"
    /\ receipts = [s \in 0..(Retained - 1) |-> NoReceipt]
    /\ sequence = 0
    /\ active = 0 /\ deadline = "off" /\ frame = 0 /\ pixels = FALSE
    /\ workerRunning = FALSE /\ workerDone = FALSE /\ wake = FALSE
    /\ worker = "none" /\ success = FALSE
    /\ files = [n \in Numbers |-> "absent"]
    /\ requests = <<>> /\ events = <<>> /\ copying = 0

----------------------------------------------------------------------------
(* Parts of the daemon's functions.                                        *)

\* cleanup, the request to destroy the frame added to those of the caller.
Cleanup(sent) ==
    /\ requests' = IF frame = 0 THEN sent ELSE Append(sent, Message("destroy", frame))
    /\ frame' = 0
    /\ pixels' = FALSE
    /\ active' = 0
    /\ deadline' = "off"

\* fail, which is reached only while a capture is active.
Fail ==
    /\ receipts' = [receipts EXCEPT ![ActiveSlot].status = "failed"]
    /\ Cleanup(requests)

\* What receipt_json says of a receipt.
Reported(slot) ==
    IF workerRunning /\ active = receipts[slot].number THEN "encoding" ELSE receipts[slot].status

\* Mistake: the flag of the previous thread is left set.
WorkerStartedDone ==
    /\ worker' = "open"
    /\ workerRunning' = TRUE
    /\ deadline' = "off"
    /\ UNCHANGED workerDone

\* pthread_create succeeds.
WorkerStarted ==
    /\ workerDone' = FALSE
    /\ worker' = "open"
    /\ workerRunning' = TRUE
    /\ deadline' = "off"

----------------------------------------------------------------------------
(* as_capture_tick: at the top of a turn, after dispatch, and first in     *)
(* capture.submit and capture.get.                                         *)

\* The eventfd is read before the flag.
Drain ==
    /\ place \in {"top", "mid", "submit", "get"}
    /\ step = "drain"
    /\ wake' = FALSE
    /\ step' = "check"
    /\ UNCHANGED <<contentVars, place, captureVars, workerDone, worker, success, files, linkVars>>

\* pthread_join waits for the thread to end.
Join ==
    /\ worker = "ended"
    /\ worker' = "none"
    /\ workerRunning' = FALSE
    /\ Cleanup(requests)
    /\ UNCHANGED receipts

Check ==
    /\ step = "check"
    /\ step' = "go"
    /\ \/ /\ workerRunning /\ workerDone
          /\ Join
       \/ /\ ~(workerRunning /\ workerDone)
          /\ deadline = "late"
          /\ Fail
          /\ UNCHANGED <<workerRunning, worker>>
       \/ /\ ~(workerRunning /\ workerDone)
          /\ deadline # "late"
          /\ UNCHANGED <<receipts, active, deadline, frame, pixels, workerRunning, worker, requests>>
    /\ UNCHANGED <<contentVars, place, sequence, workerDone, wake, success, files, events, copying>>

----------------------------------------------------------------------------
(* The turn of run_server.                                                 *)

GoTo(p) == place' = p /\ step' = IF p \in {"dispatch", "gone"} THEN "go" ELSE "drain"

\* What ends the poll without a client: the connection, the eventfd, or the
\* deadline that bounds the timeout.
Woken == events # <<>> \/ wake \/ deadline = "late"

Poll ==
    /\ place = "top" /\ step = "go"
    /\ Woken
    /\ GoTo("dispatch")
    /\ UNCHANGED <<contentVars, captureVars, sharedVars, linkVars>>

PollClient ==
    /\ place = "top" /\ step = "go"
    /\ GoTo("dispatch")
    /\ UNCHANGED <<contentVars, captureVars, sharedVars, linkVars>>

DispatchDone ==
    /\ place = "dispatch"
    /\ events = <<>>
    /\ GoTo("mid")
    /\ UNCHANGED <<contentVars, captureVars, sharedVars, linkVars>>

EndTurn ==
    /\ place = "mid" /\ step = "go"
    /\ GoTo("top")
    /\ UNCHANGED <<contentVars, captureVars, sharedVars, linkVars>>

\* The loop ends and as_capture_destroy joins the thread and removes the files.
Close ==
    /\ place \in {"top", "dispatch", "mid"} /\ step = "go"
    /\ IF workerRunning THEN Join ELSE Cleanup(requests) /\ UNCHANGED <<receipts, workerRunning, worker>>
    /\ files' = [n \in Numbers |->
                    IF \E s \in DOMAIN receipts : receipts[s].number = n THEN "absent" ELSE files[n]]
    /\ GoTo("gone")
    /\ UNCHANGED <<contentVars, sequence, workerDone, wake, success, events, copying>>

----------------------------------------------------------------------------
(* Events of the frame; those for a frame that was destroyed are dropped.  *)

Dispatches(kind) == place = "dispatch" /\ events # <<>> /\ Head(events).kind = kind
ForFrame == Head(events).number = frame

\* buffer_event: the format, the size and the memory for the pixels may fail.
BufferEvent ==
    /\ Dispatches("buffer")
    /\ ForFrame
    /\ \/ /\ pixels' = TRUE
          /\ requests' = requests \o <<Message("copy", frame), Message("render_once", frame)>>
          /\ UNCHANGED <<receipts, active, deadline, frame>>
       \/ Fail
    /\ events' = Tail(events)
    /\ UNCHANGED <<contentVars, loopVars, sequence, workerRunning, sharedVars, copying>>

\* ready_event: the frame is destroyed, then the thread is started.
ReadyEvent ==
    /\ Dispatches("ready")
    /\ ForFrame
    /\ frame' = 0
    /\ requests' = Append(requests, Message("destroy", frame))
    /\ LET shown == [receipts EXCEPT ![ActiveSlot].picture = Head(events).commit]
       IN \/ /\ WorkerStarted
             /\ receipts' = shown
             /\ UNCHANGED <<active, pixels>>
          \/ /\ receipts' = [shown EXCEPT ![ActiveSlot].status = "failed"]
             /\ pixels' = FALSE /\ active' = 0 /\ deadline' = "off"
             /\ workerDone' = FALSE
             /\ UNCHANGED <<workerRunning, worker>>
    /\ events' = Tail(events)
    /\ UNCHANGED <<contentVars, loopVars, sequence, wake, success, files, copying>>

FailedEvent ==
    /\ Dispatches("failed")
    /\ ForFrame
    /\ Fail
    /\ events' = Tail(events)
    /\ UNCHANGED <<contentVars, loopVars, sequence, workerRunning, sharedVars, copying>>

StaleEvent ==
    /\ place = "dispatch" /\ events # <<>>
    /\ Head(events).kind # "content"
    /\ ~ForFrame
    /\ events' = Tail(events)
    /\ UNCHANGED <<contentVars, loopVars, captureVars, sharedVars, requests, copying>>

ContentEvent ==
    /\ Dispatches("content")
    /\ Content(Head(events).commit)
    /\ events' = Tail(events)
    /\ UNCHANGED <<born, commits, dirty, waiter>>
    /\ UNCHANGED <<loopVars, captureVars, sharedVars, requests, copying>>

----------------------------------------------------------------------------
(* Calls of clients, served between the second tick and the end of a turn. *)

Call(p) ==
    /\ place = "mid" /\ step = "go"
    /\ place' = p /\ step' = "drain"
    /\ UNCHANGED <<contentVars, captureVars, sharedVars, linkVars>>

CallSubmit == sequence < MaxCaptures /\ Call("submit")
CallGet == waiter = NoWaiter /\ Call("get")

Answered == place' = "mid" /\ step' = "go"

\* Mistake: the slot is taken over, the file of its last receipt is not removed.
RetiredByName(number) == UNCHANGED files

\* The file of the receipt whose slot is taken over is removed.
Retired(number) ==
    LET old == receipts[SlotOf(number)].number
    IN files' = IF old = 0 THEN files ELSE [files EXCEPT ![old] = "absent"]

\* as_capture_start
Submit ==
    /\ place = "submit" /\ step = "go"
    /\ Answered
    /\ \/ /\ active = 0
          /\ sequence' = sequence + 1
          /\ Retired(sequence')
          /\ receipts' = [receipts EXCEPT ![SlotOf(sequence')] =
                [number |-> sequence', status |-> "pending", serial |-> latest, picture |-> NoCommit]]
          /\ active' = sequence'
          /\ deadline' = "armed"
          /\ frame' = sequence'
          /\ requests' = Append(requests, Message("capture", sequence'))
       \/ /\ active # 0     \* CAPTURE_BUSY
          /\ UNCHANGED <<sequence, files, receipts, active, deadline, frame, requests>>
    /\ UNCHANGED <<contentVars, pixels, workerRunning, workerDone, wake, worker, success, events, copying>>

\* as_capture_get; the client of a finished frame waits from its serial.
Get ==
    /\ place = "get" /\ step = "go"
    /\ Answered
    /\ \/ \E s \in DOMAIN receipts :
            /\ Reported(s) = "finished"
            /\ BeginWait(receipts[s].serial, receipts[s].picture)
       \/ UNCHANGED contentVars
    /\ UNCHANGED <<captureVars, sharedVars, linkVars>>

\* content.changes
GetChanges ==
    /\ place = "mid" /\ step = "go"
    /\ Changes
    /\ UNCHANGED <<loopVars, captureVars, sharedVars, linkVars>>

----------------------------------------------------------------------------
(* The PNG thread: encode.                                                 *)

ThreadUnchanged == <<contentVars, loopVars, captureVars, linkVars>>

\* The file is created, or the memory or the file is refused.
WorkerOpen ==
    /\ worker = "open"
    /\ \/ files' = [files EXCEPT ![active] = "partial"]
       \/ UNCHANGED files
    /\ worker' = "write"
    /\ UNCHANGED <<ThreadUnchanged, workerDone, wake, success>>

WrittenOrUnlinked(ok) == files' = [files EXCEPT ![active] = IF ok THEN "whole" ELSE "absent"]

\* The picture is written and the file closed; on failure it is unlinked.
WorkerWrite ==
    /\ worker = "write"
    /\ \E ok \in BOOLEAN :
        /\ ok => files[active] = "partial"
        /\ success' = ok
        /\ WrittenOrUnlinked(ok)
    /\ worker' = "report"
    /\ UNCHANGED <<ThreadUnchanged, workerDone, wake>>

WorkerReport ==
    /\ worker = "report"
    /\ receipts' = [receipts EXCEPT ![ActiveSlot].status = IF success THEN "finished" ELSE "failed"]
    /\ worker' = "tell"
    /\ success' = FALSE
    /\ UNCHANGED <<contentVars, loopVars, sequence, active, deadline, frame, pixels, workerRunning,
                   workerDone, wake, files, linkVars>>

\* Mistake: the loop is woken before the flag is set.
WorkerTellEarly ==
    \/ /\ worker = "tell" /\ worker' = "signal"
       /\ wake' = TRUE
       /\ UNCHANGED <<ThreadUnchanged, workerDone, success, files>>
    \/ /\ worker = "signal" /\ worker' = "ended"
       /\ workerDone' = TRUE
       /\ UNCHANGED <<ThreadUnchanged, wake, success, files>>

\* The flag is set, then the loop is woken.
WorkerTell ==
    \/ /\ worker = "tell" /\ worker' = "signal"
       /\ workerDone' = TRUE
       /\ UNCHANGED <<ThreadUnchanged, wake, success, files>>
    \/ /\ worker = "signal" /\ worker' = "ended"
       /\ wake' = TRUE
       /\ UNCHANGED <<ThreadUnchanged, workerDone, success, files>>

Worker == WorkerOpen \/ WorkerWrite \/ WorkerReport \/ WorkerTell

----------------------------------------------------------------------------
(* The micro-host (wlr_screencopy_v1 and vendor/cage/output.c) and time.   *)

Requested(kind) == requests # <<>> /\ Head(requests).kind = kind

HostUnchanged == <<loopVars, captureVars, sharedVars>>

\* The frame is announced with its format, or refused.
TakeCapture ==
    /\ Requested("capture")
    /\ \E kind \in {"buffer", "failed"} :
        events' = Append(events, Message(kind, Head(requests).number))
    /\ requests' = Tail(requests)
    /\ UNCHANGED <<contentVars, HostUnchanged, copying>>

\* A copy is made by the next commit; a destroyed frame gets none.
TakeCopy ==
    /\ Requested("copy") \/ Requested("destroy")
    /\ copying' = CASE Head(requests).kind = "copy" -> Head(requests).number
                    [] Head(requests).number = copying -> 0
                    [] OTHER -> copying
    /\ requests' = Tail(requests)
    /\ UNCHANGED <<contentVars, HostUnchanged, events>>

\* output_render: the commit copies the frame, then the serial advances.
Render ==
    /\ Rendered
    /\ LET ready == IF copying = 0 THEN <<>>
                    ELSE <<[kind |-> "ready", number |-> copying, commit |-> commits']>>
           content == IF dirty THEN <<[kind |-> "content", number |-> 0, commit |-> commits']>>
                      ELSE <<>>
       IN events' = events \o ready \o content
    /\ copying' = 0
    /\ UNCHANGED <<born, latest, ring, reported, waiter>>

\* render_once; nothing is rendered while the host window cannot be drawn.
TakeRender ==
    /\ Requested("render_once")
    /\ requests' = Tail(requests)
    /\ Render \/ UNCHANGED <<contentVars, events, copying>>
    /\ UNCHANGED HostUnchanged

\* A commit of the scene's own, for what the application drew.
Commit ==
    /\ dirty
    /\ Render
    /\ UNCHANGED <<HostUnchanged, requests>>

Drawn == Draw /\ UNCHANGED <<HostUnchanged, linkVars>>

Late ==
    /\ deadline = "armed"
    /\ deadline' = "late"
    /\ UNCHANGED <<contentVars, loopVars, receipts, sequence, active, frame, pixels, workerRunning,
                   sharedVars, linkVars>>

----------------------------------------------------------------------------

\* Steps of the loop that nobody else has to cause.
Loop ==
    \/ Drain \/ Check \/ Poll \/ DispatchDone \/ EndTurn \/ Submit \/ Get
    \/ BufferEvent \/ ReadyEvent \/ FailedEvent \/ StaleEvent \/ ContentEvent

Next ==
    \/ Loop \/ PollClient \/ Close
    \/ CallSubmit \/ CallGet \/ GetChanges
    \/ Worker
    \/ TakeCapture \/ TakeCopy \/ TakeRender \/ Commit \/ Drawn \/ Late

Spec == Init /\ [][Next]_vars

\* The loop and the thread go on, and time passes; neither a client nor the
\* micro-host is assumed to do anything.
FairSpec == Spec /\ WF_vars(Loop) /\ WF_vars(Worker) /\ WF_vars(Late)

----------------------------------------------------------------------------

CaptureTypeOK ==
    /\ ContentTypeOK
    /\ place \in {"top", "dispatch", "mid", "submit", "get", "gone"}
    /\ step \in {"drain", "check", "go"}
    /\ active \in 0..sequence /\ frame \in {0, active} /\ copying \in 0..sequence
    /\ sequence \in 0..MaxCaptures
    /\ deadline \in {"off", "armed", "late"}
    /\ \A s \in DOMAIN receipts : receipts[s].status \in {"none", "pending", "finished", "failed"}
    /\ files \in [Numbers -> {"absent", "partial", "whole"}]

\* From the moment the PNG thread is started until it is joined, the receipt and
\* the pixels it works on are the active ones, nothing may fail or replace them,
\* and the loop does not wait for a thread that has not finished its work: the
\* two threads never touch a receipt at the same time (native/agentseat-capture.c,
\* encode, ready_event and as_capture_tick).
WorkerOwnsItsReceipt ==
    /\ workerRunning <=> worker # "none"
    /\ worker # "none" =>
        /\ active # 0 /\ receipts[ActiveSlot].number = active
        /\ pixels /\ frame = 0 /\ deadline = "off"
        /\ receipts[ActiveSlot].status = "pending" \/ worker \in {"tell", "signal", "ended"}
        /\ workerDone => worker \in {"signal", "ended"}

\* A file exists only for a receipt that is still kept: whole when the receipt is
\* finished, unfinished only under the thread, never for a failed one and never
\* after the daemon has closed the session (native/agentseat-capture.c, encode,
\* as_capture_start and as_capture_destroy).
FilesMatchReceipts ==
    /\ CaptureTypeOK
    /\ \A n \in Numbers : files[n] # "absent" =>
        /\ place # "gone"
        /\ receipts[SlotOf(n)].number = n
        /\ files[n] = "partial" => workerRunning /\ active = n
    /\ place # "gone" => \A s \in DOMAIN receipts :
        /\ Reported(s) = "finished" => files[receipts[s].number] = "whole"
        /\ Reported(s) = "failed" => files[receipts[s].number] = "absent"

\* A capture that was submitted ends, finished or failed, without a client asking
\* for it and without any help of the micro-host: the end of the thread and the
\* deadline both wake the loop (native/agentseatd.c, run_server).
CaptureEnds == active # 0 ~> active = 0
=============================================================================
