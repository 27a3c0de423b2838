------------------------- MODULE GrpcProbeRecorder -------------------------
(***************************************************************************)
(* GrpcStreamingProbeRecorder of src/proxy/mod.rs: one streaming RPC whose *)
(* half-open slot and backend outcome are settled by three threads, the    *)
(* request task (headers, then response), the task that polls the upload,  *)
(* and the timer that guards an upload left open after the headers.        *)
(*                                                                         *)
(* The flags are atomics written with Release and read with Acquire, which *)
(* lets a load overtake an earlier store to another flag, as x86 does.     *)
(* Each thread has a store buffer, drained in order; a swap drains it.     *)
(* Flags only ever go from FALSE to TRUE, so a conjunction of loads is one *)
(* step, at the load that decides it.                                      *)
(***************************************************************************)
EXTENDS Naturals, Sequences

RpcThreads == {"task", "upload", "guard"}

Flags == {"headers_seen", "upload_terminated", "response_clean", "slot_released",
          "health_recorded", "upload_guard_expired", "request_body_exceeded"}

VARIABLES
  rpcProbe,    \* is_half_open_probe
  guarded,     \* post_header_upload_timeout_ms: none, a timer, or a window counted as elapsed
  mem,         \* the flags, as every thread will see them
  buf,         \* stores of each thread that the others do not see yet
  rpcPc,
  then,        \* where a thread goes after try_release_slot and try_record_clean_success
  terminal,    \* how the response ended
  releases,    \* half-open slots given back to the breaker
  outcomes,    \* outcomes handed to the breaker, in order
  lateUpload,  \* history: the upload ended after the guard had published its expiry
  dropped      \* the recorder itself is gone

rpcVars ==
  <<rpcProbe, guarded, mem, buf, rpcPc, then, terminal, releases, outcomes, lateUpload, dropped>>

RpcInit ==
  /\ rpcProbe \in BOOLEAN
  /\ guarded \in {"none", "timer", "at_once"}
  /\ mem = [f \in Flags |-> FALSE]
  /\ buf = [t \in RpcThreads |-> <<>>]
  /\ rpcPc = [t \in RpcThreads |-> CASE t = "task" -> "dispatch"
                                     [] t = "upload" -> "uploading"
                                     [] t = "guard" -> "off"]
  /\ then = [t \in RpcThreads |-> "done"]
  /\ terminal = "none"
  /\ releases = 0
  /\ outcomes = <<>>
  /\ lateUpload = FALSE
  /\ dropped = FALSE

-----------------------------------------------------------------------------
(* Memory *)

Load(t, f) == mem[f] \/ \E n \in DOMAIN buf[t] : buf[t][n] = f

Store(t, f) == buf' = [buf EXCEPT ![t] = Append(@, f)]

\* Every store of a thread becomes visible in the order it was made.
Flush(t) ==
  /\ buf[t] # <<>>
  /\ mem' = [mem EXCEPT ![Head(buf[t])] = TRUE]
  /\ buf' = [buf EXCEPT ![t] = Tail(@)]
  /\ UNCHANGED <<rpcProbe, guarded, rpcPc, then, terminal, releases, outcomes, lateUpload, dropped>>

\* swap(true): won by the first thread that gets there.
Swap(t, f) == buf[t] = <<>> /\ mem' = [mem EXCEPT ![f] = TRUE]

RpcGoTo(t, from, to) == rpcPc[t] = from /\ rpcPc' = [rpcPc EXCEPT ![t] = to]

-----------------------------------------------------------------------------
(* try_release_slot and try_record_clean_success *)

ReleaseJoin(t) == Load(t, "headers_seen") /\ Load(t, "upload_terminated")

TryReleaseSlot(t) ==
  /\ RpcGoTo(t, "release", IF rpcProbe /\ ReleaseJoin(t) THEN "release_swap" ELSE "record")
  /\ UNCHANGED <<rpcProbe, guarded, mem, buf, then, terminal, releases, outcomes, lateUpload, dropped>>

\* Mutant: the slot is given back whoever swapped the flag.
ReleaseUnconditionally(t) ==
  /\ RpcGoTo(t, "release_swap", "record") \/ RpcGoTo(t, "guard_swap", "settle")
  /\ Swap(t, "slot_released")
  /\ releases' = releases + 1
  /\ UNCHANGED <<rpcProbe, guarded, buf, then, terminal, outcomes, lateUpload, dropped>>

\* slot_released.swap(true), then record_neutral(true) by the winner, in
\* try_release_slot and in settle_neutral_if_upload_still_open.
ReleaseSwap(t) ==
  /\ RpcGoTo(t, "release_swap", "record") \/ RpcGoTo(t, "guard_swap", "settle")
  /\ Swap(t, "slot_released")
  /\ releases' = IF mem["slot_released"] THEN releases ELSE releases + 1
  /\ UNCHANGED <<rpcProbe, guarded, buf, then, terminal, outcomes, lateUpload, dropped>>

CleanJoin(t) == Load(t, "response_clean") /\ Load(t, "upload_terminated")

TryRecordCleanSuccess(t) ==
  /\ rpcPc[t] = "record"
  /\ rpcPc' = [rpcPc EXCEPT ![t] = IF CleanJoin(t) THEN "record_exceeded" ELSE then[t]]
  /\ UNCHANGED <<rpcProbe, guarded, mem, buf, then, terminal, releases, outcomes, lateUpload, dropped>>

\* A spoiled outcome is neutral: health_recorded is stored, nothing is recorded.
SettleNeutral(t) ==
  /\ Store(t, "health_recorded")
  /\ rpcPc' = [rpcPc EXCEPT ![t] = then[t]]

\* Mutant: an overflow that arrives after the response is not looked for.
IgnoreOverflow(t) ==
  /\ RpcGoTo(t, "record_exceeded", "record_expired")
  /\ UNCHANGED <<rpcProbe, guarded, mem, buf, then, terminal, releases, outcomes, lateUpload, dropped>>

RecordExceeded(t) ==
  /\ rpcPc[t] = "record_exceeded"
  /\ \/ Load(t, "request_body_exceeded") /\ SettleNeutral(t)
     \/ /\ ~Load(t, "request_body_exceeded")
        /\ rpcPc' = [rpcPc EXCEPT ![t] = "record_expired"]
        /\ UNCHANGED buf
  /\ UNCHANGED <<rpcProbe, guarded, mem, then, terminal, releases, outcomes, lateUpload, dropped>>

RecordExpired(t) ==
  /\ rpcPc[t] = "record_expired"
  /\ \/ Load(t, "upload_guard_expired") /\ SettleNeutral(t)
     \/ /\ ~Load(t, "upload_guard_expired")
        /\ rpcPc' = [rpcPc EXCEPT ![t] = "record_swap"]
        /\ UNCHANGED buf
  /\ UNCHANGED <<rpcProbe, guarded, mem, then, terminal, releases, outcomes, lateUpload, dropped>>

\* health_recorded.swap(true), then apply_deferred_circuit_breaker_outcome.
RecordSwap(t) ==
  /\ rpcPc[t] = "record_swap"
  /\ Swap(t, "health_recorded")
  /\ outcomes' = IF mem["health_recorded"] THEN outcomes ELSE Append(outcomes, "success")
  /\ rpcPc' = [rpcPc EXCEPT ![t] = then[t]]
  /\ UNCHANGED <<rpcProbe, guarded, buf, then, terminal, releases, lateUpload, dropped>>

-----------------------------------------------------------------------------
(* The request task *)

\* The request fails before headers: HalfOpenProbeGuard still owns the slot.
DispatchFails ==
  /\ RpcGoTo("task", "dispatch", "done")
  /\ releases' = IF rpcProbe THEN releases + 1 ELSE releases
  /\ UNCHANGED <<rpcProbe, guarded, mem, buf, then, terminal, outcomes, lateUpload, dropped>>

\* finalize_grpc_streaming_probe_outcome: disarm the guard, note_headers_arrived.
NoteHeadersArrived ==
  /\ RpcGoTo("task", "dispatch", "arm")
  /\ Store("task", "headers_seen")
  /\ then' = [then EXCEPT !["task"] = "headers"]
  /\ UNCHANGED <<rpcProbe, guarded, mem, terminal, releases, outcomes, lateUpload, dropped>>

\* start_post_header_upload_timeout; spawning a task drains the store buffer.
\* A window beyond MAX_GRPC_POST_HEADER_UPLOAD_GUARD_MS counts as elapsed.
ArmGuard ==
  /\ rpcPc["task"] = "arm"
  /\ \/ /\ guarded = "timer"
        /\ ~Load("task", "upload_terminated")
        /\ buf["task"] = <<>>
        /\ rpcPc' = [rpcPc EXCEPT !["task"] = "release", !["guard"] = "armed"]
     \/ /\ guarded = "at_once"
        /\ ~Load("task", "upload_terminated")
        /\ rpcPc' = [rpcPc EXCEPT !["task"] = "armed"]
     \/ /\ guarded = "none" \/ Load("task", "upload_terminated")
        /\ rpcPc' = [rpcPc EXCEPT !["task"] = "release"]
  /\ UNCHANGED <<rpcProbe, guarded, mem, buf, then, terminal, releases, outcomes, lateUpload, dropped>>

\* A failure status known from the headers is recorded at once, then
\* mark_health_recorded.
RecordEagerly ==
  /\ RpcGoTo("task", "headers", "streaming")
  /\ outcomes' = Append(outcomes, "failure")
  /\ Store("task", "health_recorded")
  /\ UNCHANGED <<rpcProbe, guarded, mem, then, terminal, releases, lateUpload, dropped>>

\* The response is dropped before it has an observer.
ResponseAbandoned ==
  /\ rpcPc["task"] \in {"headers", "streaming"}
  /\ rpcPc' = [rpcPc EXCEPT !["task"] = "done"]
  /\ UNCHANGED <<rpcProbe, guarded, mem, buf, then, terminal, releases, outcomes, lateUpload, dropped>>

\* on_response_terminal: an overflow and a client-side end are neutral.
ResponseTerminal ==
  /\ rpcPc["task"] \in {"headers", "streaming"}
  /\ terminal' \in {"clean", "failure", "client"}
  /\ then' = [then EXCEPT !["task"] = "done"]
  /\ \/ /\ Load("task", "request_body_exceeded") \/ terminal' = "client"
        /\ Store("task", "health_recorded")
        /\ rpcPc' = [rpcPc EXCEPT !["task"] = "done"]
     \/ /\ ~Load("task", "request_body_exceeded")
        /\ terminal' = "failure"
        /\ rpcPc' = [rpcPc EXCEPT !["task"] = "failure_swap"]
        /\ UNCHANGED buf
     \/ /\ ~Load("task", "request_body_exceeded")
        /\ terminal' = "clean"
        /\ Store("task", "response_clean")
        /\ rpcPc' = [rpcPc EXCEPT !["task"] = "record"]
  /\ UNCHANGED <<rpcProbe, guarded, mem, releases, outcomes, lateUpload, dropped>>

FailureSwap ==
  /\ RpcGoTo("task", "failure_swap", "done")
  /\ Swap("task", "health_recorded")
  /\ outcomes' = IF mem["health_recorded"] THEN outcomes ELSE Append(outcomes, "failure")
  /\ UNCHANGED <<rpcProbe, guarded, buf, then, terminal, releases, lateUpload, dropped>>

-----------------------------------------------------------------------------
(* The upload: GrpcBody::poll_frame and GrpcBody::drop *)

UploadOverflows ==
  /\ RpcGoTo("upload", "uploading", "aborting")
  /\ Store("upload", "request_body_exceeded")
  /\ UNCHANGED <<rpcProbe, guarded, mem, then, terminal, releases, outcomes, lateUpload, dropped>>

\* on_upload_terminated
UploadTerminates ==
  /\ \/ RpcGoTo("upload", "uploading", "release")
     \/ RpcGoTo("upload", "aborting", "release")
  /\ Store("upload", "upload_terminated")
  /\ lateUpload' = mem["upload_guard_expired"]
  /\ UNCHANGED <<rpcProbe, guarded, mem, then, terminal, releases, outcomes, dropped>>

-----------------------------------------------------------------------------
(* settle_neutral_if_upload_still_open, when the timer fires *)

\* Where the caller goes on: the timer's task ends, the request task returns to
\* note_headers_arrived.
AfterGuard(t) == IF t = "guard" THEN "done" ELSE "release"

\* Mutant: an expired guard settles the outcome and leaves the slot to the join.
GuardKeepsSlot(t) ==
  /\ rpcPc[t] = "armed"
  /\ \/ /\ Load(t, "upload_terminated")
        /\ rpcPc' = [rpcPc EXCEPT ![t] = AfterGuard(t)]
        /\ UNCHANGED buf
     \/ /\ ~Load(t, "upload_terminated")
        /\ Store(t, "upload_guard_expired")
        /\ rpcPc' = [rpcPc EXCEPT ![t] = "settle"]
  /\ UNCHANGED <<rpcProbe, guarded, mem, then, terminal, releases, outcomes, lateUpload, dropped>>

GuardFires(t) ==
  /\ rpcPc[t] = "armed"
  /\ \/ /\ Load(t, "upload_terminated")
        /\ rpcPc' = [rpcPc EXCEPT ![t] = AfterGuard(t)]
        /\ UNCHANGED buf
     \/ /\ ~Load(t, "upload_terminated")
        /\ Store(t, "upload_guard_expired")
        /\ rpcPc' = [rpcPc EXCEPT ![t] = IF rpcProbe THEN "guard_swap" ELSE "settle"]
  /\ UNCHANGED <<rpcProbe, guarded, mem, then, terminal, releases, outcomes, lateUpload, dropped>>

\* Mutant: the guard consumes the outcome of a response still streaming.
GuardConsumesOutcome(t) ==
  /\ RpcGoTo(t, "settle", AfterGuard(t))
  /\ Swap(t, "health_recorded")
  /\ UNCHANGED <<rpcProbe, guarded, buf, then, terminal, releases, outcomes, lateUpload, dropped>>

GuardSettles(t) ==
  /\ RpcGoTo(t, "settle", AfterGuard(t))
  /\ IF Load(t, "response_clean") THEN Swap(t, "health_recorded") ELSE UNCHANGED mem
  /\ UNCHANGED <<rpcProbe, guarded, buf, then, terminal, releases, outcomes, lateUpload, dropped>>

-----------------------------------------------------------------------------
Finished == rpcPc["task"] = "done" /\ rpcPc["upload"] = "done" /\ rpcPc["guard"] \in {"off", "done"}

\* GrpcStreamingProbeRecorder::drop, when the last reference goes: everything
\* the other threads did is visible by then.
DropRecorder ==
  /\ ~dropped
  /\ Finished
  /\ \A t \in RpcThreads : buf[t] = <<>>
  /\ dropped' = TRUE
  /\ LET owed == rpcProbe /\ mem["headers_seen"] /\ ~mem["slot_released"]
     IN /\ releases' = IF owed THEN releases + 1 ELSE releases
        /\ mem' = [mem EXCEPT !["slot_released"] = @ \/ owed]
  /\ UNCHANGED <<rpcProbe, guarded, buf, rpcPc, then, terminal, outcomes, lateUpload>>

TaskStep ==
  \/ DispatchFails \/ NoteHeadersArrived \/ ArmGuard \/ RecordEagerly
  \/ ResponseAbandoned \/ ResponseTerminal \/ FailureSwap

Settle(t) ==
  \/ TryReleaseSlot(t) \/ ReleaseSwap(t) \/ TryRecordCleanSuccess(t)
  \/ RecordExceeded(t) \/ RecordExpired(t) \/ RecordSwap(t)

RpcNext ==
  \/ TaskStep
  \/ UploadOverflows \/ UploadTerminates
  \/ \E t \in RpcThreads : GuardFires(t) \/ GuardSettles(t) \/ Settle(t) \/ Flush(t)
  \/ DropRecorder

RpcSpec == RpcInit /\ [][RpcNext]_rpcVars

\* What a thread has begun it ends, and its stores become visible; the timer
\* fires.  Neither the client nor the backend is fair: headers need not arrive,
\* an upload and a response may stay open for ever.
RpcFairSpec ==
  /\ RpcSpec
  /\ WF_rpcVars(ArmGuard)
  /\ \A t \in RpcThreads :
       WF_rpcVars(GuardFires(t) \/ GuardSettles(t) \/ Settle(t) \/ Flush(t))

-----------------------------------------------------------------------------
(* Properties *)

\* The half-open slot is given back exactly once, never twice by racing joins,
\* guard and destructor, and not zero times when the client disappears; and the
\* breaker gets at most one outcome for the RPC, whichever threads settle it.
SettledExactlyOnce ==
  /\ releases <= 1
  /\ dropped => releases = IF rpcProbe THEN 1 ELSE 0
  /\ Len(outcomes) <= 1

Healed == \E n \in DOMAIN outcomes : outcomes[n] = "success"

\* A response that ends cleanly before its upload overflows does not heal the
\* breaker (the flag is re-read at the join, on both sides of the race), nor
\* does one whose upload ended only after the guard's deadline.
OnlyTimelyUploadsHeal ==
  Healed => ~Load("upload", "request_body_exceeded") /\ ~lateUpload

\* A backend failure reported by a response that was still streaming is
\* recorded: neither the guard nor a join has consumed the outcome.
FailureIsNotMasked ==
  terminal = "failure" /\ rpcPc["task"] = "done" /\ ~Load("upload", "request_body_exceeded")
    => outcomes = <<"failure">>

\* A probe whose headers arrived cannot hold its half-open slot for as long as
\* its client keeps the upload open: where a guard is configured, the slot comes
\* back or the upload has ended, whether or not the response ever does.
SlotComesBack ==
  (rpcProbe /\ guarded # "none" /\ Load("task", "headers_seen"))
    ~> (releases = 1 \/ Load("upload", "upload_terminated"))

=============================================================================
