---------------------------- MODULE CameraDriver ----------------------------
(***************************************************************************)
(* The camera node: init_camera() call by call, the retry timer, the frame *)
(* callback on the thread of the camera's SDK, and the destructor.  The    *)
(* camera may be plugged in or out, and a call of the SDK may fail, at any *)
(* moment; StopGrabbing returns when no frame callback runs any more.      *)
(*                                                                         *)
(* Operators named Operator_Fault are plausible faults, used to show that  *)
(* the properties can fail; they are not part of the model.                *)
(***************************************************************************)
EXTENDS Integers

CONSTANT MaxOrphans   \* handles that may be lost before the count is off its type

ASSUME CameraAssumption == MaxOrphans \in Nat

VARIABLES
    plugged,      \* the camera answers
    handle,       \* state of the handle in dev_handle_
    orphans,      \* history: handles neither destroyed nor in dev_handle_
    is_grabbing,  \* is_grabbing_
    timer,        \* reconnect_timer_
    pc,           \* where the node's thread is in init_camera(), or "idle"
    frame,        \* the SDK thread: "none", or the frame in frame_callback()
    published     \* history: an image was published

vars == <<plugged, handle, orphans, is_grabbing, timer, pc, frame, published>>

Handles == {"null", "created", "open", "attached", "grabbing"}
\* A frame without data, without an extent, with a bad status, or to convert.
Frames == {"empty", "flat", "bad", "good"}
Calls == {"cleanup", "enum", "create", "open", "attach", "start", "flag"}

\* The constructor is about to make its first attempt; it has no timer yet.
Init ==
    /\ plugged \in BOOLEAN
    /\ handle = "null" /\ orphans = 0 /\ is_grabbing = FALSE
    /\ timer = "none" /\ pc = "cleanup" /\ frame = "none"
    /\ published = FALSE

-----------------------------------------------------------------------------
(* The SDK.                                                                *)

Plug ==
    /\ plugged' = ~plugged
    /\ UNCHANGED <<handle, orphans, is_grabbing, timer, pc, frame, published>>

FrameIn(f) ==
    /\ plugged /\ handle = "grabbing" /\ frame = "none"
    /\ frame' = f
    /\ UNCHANGED <<plugged, handle, orphans, is_grabbing, timer, pc, published>>

\* frame_callback() drops a frame it cannot use, converts a good one with
\* dev_handle_ and publishes it unless the conversion fails.
DropFrame ==
    /\ frame \in Frames
    /\ frame' = "none"
    /\ UNCHANGED <<plugged, handle, orphans, is_grabbing, timer, pc, published>>

PublishFrame ==
    /\ frame = "good"
    /\ frame' = "none"
    /\ published' = TRUE
    /\ UNCHANGED <<plugged, handle, orphans, is_grabbing, timer, pc>>

-----------------------------------------------------------------------------
(* cleanup_camera() and init_camera().                                     *)

\* Fault: a handle that is not grabbing is forgotten instead of destroyed.
Cleanup_OnlyGrabbing ==
    /\ is_grabbing => frame = "none"
    /\ orphans' = IF handle # "null" /\ ~is_grabbing THEN orphans + 1 ELSE orphans
    /\ handle' = "null" /\ is_grabbing' = FALSE

Cleanup ==
    /\ is_grabbing => frame = "none"
    /\ handle' = "null"
    /\ is_grabbing' = FALSE
    /\ UNCHANGED orphans

CleanupFirst ==
    /\ pc = "cleanup" /\ Cleanup
    /\ pc' = "enum"
    /\ UNCHANGED <<plugged, timer, frame, published>>

\* A call of init_camera() that succeeds leaves the handle in a new state.
Succeeds(call, next, new) ==
    /\ pc = call /\ plugged
    /\ handle' = new
    /\ pc' = next
    /\ UNCHANGED <<plugged, orphans, is_grabbing, timer, frame, published>>

EnumDevices == Succeeds("enum", "create", handle)
CreateHandle == Succeeds("create", "open", "created")
Open == Succeeds("open", "attach", "open")
AttachGrabbing == Succeeds("attach", "start", "attached")
StartGrabbing == Succeeds("start", "flag", "grabbing")

\* A call that fails ends init_camera(): the constructor starts the timer, a
\* retry leaves it running.
InitFails ==
    /\ pc \in {"enum", "create", "open", "attach", "start"}
    /\ pc' = "idle"
    /\ timer' = IF timer = "none" THEN "running" ELSE timer
    /\ UNCHANGED <<plugged, handle, orphans, is_grabbing, frame, published>>

\* The end of init_camera().
InitDone ==
    /\ pc = "flag"
    /\ is_grabbing' = TRUE
    /\ pc' = "idle"

\* Fault: the timer goes on after a retry that succeeded.
InitSucceeds_KeepsTimer ==
    /\ InitDone
    /\ UNCHANGED <<plugged, handle, orphans, timer, frame, published>>

\* A retry that succeeds cancels its timer; the first attempt has none.
InitSucceeds ==
    /\ InitDone
    /\ timer' = IF timer = "running" THEN "cancelled" ELSE timer
    /\ UNCHANGED <<plugged, handle, orphans, frame, published>>

\* Fault: one retry only.
TryReconnect_Once ==
    /\ pc = "idle" /\ timer = "running"
    /\ pc' = "cleanup"
    /\ timer' = "cancelled"
    /\ UNCHANGED <<plugged, handle, orphans, is_grabbing, frame, published>>

TryReconnect ==
    /\ pc = "idle" /\ timer = "running"
    /\ pc' = "cleanup"
    /\ UNCHANGED <<plugged, handle, orphans, is_grabbing, timer, frame, published>>

\* The destructor runs between callbacks of the node: nothing unloads the node,
\* and at the end the executor has returned before its nodes go.  The thread of
\* the SDK goes on until the grabbing is stopped.
Destroy ==
    /\ pc = "idle" /\ Cleanup
    /\ pc' = "destroyed"
    /\ timer' = "cancelled"
    /\ UNCHANGED <<plugged, frame, published>>

InitStep ==
    \/ CleanupFirst \/ EnumDevices \/ CreateHandle \/ Open
    \/ AttachGrabbing \/ StartGrabbing \/ InitSucceeds

Next ==
    \/ InitStep \/ InitFails \/ TryReconnect \/ Destroy
    \/ Plug \/ (\E f \in Frames : FrameIn(f)) \/ DropFrame \/ PublishFrame

Spec == Init /\ [][Next]_vars

\* The timer fires and frame callbacks return.  Of a camera that stays plugged
\* in, no call fails for ever, good frames keep coming and are converted.
FairSpec ==
    /\ Spec
    /\ WF_vars(CleanupFirst \/ InitSucceeds) /\ WF_vars(TryReconnect)
    /\ SF_vars(EnumDevices) /\ SF_vars(CreateHandle) /\ SF_vars(Open)
    /\ SF_vars(AttachGrabbing) /\ SF_vars(StartGrabbing)
    /\ WF_vars(DropFrame \/ PublishFrame)
    /\ SF_vars(FrameIn("good")) /\ SF_vars(PublishFrame)

-----------------------------------------------------------------------------
\* The variables keep their types.
TypeOK ==
    /\ plugged \in BOOLEAN /\ handle \in Handles /\ orphans \in 0 .. MaxOrphans
    /\ is_grabbing \in BOOLEAN /\ timer \in {"none", "running", "cancelled"}
    /\ pc \in Calls \cup {"idle", "destroyed"} /\ frame \in Frames \cup {"none"}
    /\ published \in BOOLEAN

\* However often init_camera() fails half way and is called again, no handle is
\* lost, and none is left when the node is gone.
NoHandleLost == orphans = 0 /\ (pc = "destroyed" => handle = "null")

\* The frame callback never runs on a handle that is no longer grabbing,
\* although it runs on a thread of the SDK.
CallbackHasHandle == frame # "none" => handle = "grabbing"

\* The camera's handle, which the constructor, the retry timer, the destructor
\* and the thread of the SDK share without a lock (camera_node.cpp:59-122, 185).
HandleSound == NoHandleLost /\ CallbackHasHandle

\* A stream is never interrupted to reconnect.
StreamIsLeftAlone ==
    [][handle = "grabbing" /\ handle' # "grabbing" => pc' = "destroyed"]_vars

\* From a camera that is plugged in for good an image is published sooner or
\* later, unless the node is destroyed, however late it is plugged in and
\* however many attempts fail.
Connects == <>[]plugged => <>(published \/ pc = "destroyed")
=============================================================================
