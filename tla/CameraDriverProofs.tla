------------------------- MODULE CameraDriverProofs -------------------------
(***************************************************************************)
(* Theorems about the camera node: its handle is sound and a stream is     *)
(* left alone, for every course of plugging, failing and retrying.         *)
(***************************************************************************)
EXTENDS CameraDriver, TLAPS

\* The handle grabs from StartGrabbing on, and once init_camera() has returned
\* the flag says so and no retry is pending: a retry, whose Cleanup stops the
\* SDK's thread only if the flag is set, never meets a stream.
StreamIsFlagged ==
    /\ is_grabbing => handle = "grabbing"
    /\ handle = "grabbing" =>
           \/ pc = "flag" /\ ~ is_grabbing
           \/ pc = "idle" /\ is_grabbing /\ timer # "running"
    /\ pc = "flag" => handle = "grabbing"

\* The inductive invariant.
IInv == TypeOK /\ HandleSound /\ StreamIsFlagged

LEMMA InitInvariant == Init => IInv
<1>1. 0 \in 0 .. MaxOrphans
  BY CameraAssumption
<1> QED
  BY <1>1
     DEF Init, IInv, TypeOK, HandleSound, NoHandleLost, CallbackHasHandle, StreamIsFlagged,
         Handles, Calls

\* The steps of the SDK and of its thread.
LEMMA SdkKeeps ==
    ASSUME IInv, Plug \/ (\E f \in Frames : FrameIn(f)) \/ DropFrame \/ PublishFrame
    PROVE  IInv'
<1> USE DEF IInv, TypeOK, HandleSound, NoHandleLost, CallbackHasHandle, StreamIsFlagged
<1>1. CASE Plug
  BY <1>1 DEF Plug
<1>2. CASE \E f \in Frames : FrameIn(f)
  BY <1>2 DEF FrameIn
<1>3. CASE DropFrame
  BY <1>3 DEF DropFrame
<1>4. CASE PublishFrame
  BY <1>4 DEF PublishFrame
<1> QED
  BY <1>1, <1>2, <1>3, <1>4

\* A handle that does not grab gets the next state of init_camera().
LEMMA SucceedsKeeps ==
    ASSUME IInv, NEW call \in Calls \ {"flag"}, NEW new \in Handles,
           NEW next \in Calls, Succeeds(call, next, new), new = "grabbing" <=> next = "flag"
    PROVE  IInv'
<1>1. pc = call /\ handle # "grabbing" /\ ~ is_grabbing
  BY DEF IInv, StreamIsFlagged, Succeeds, Calls, TypeOK
<1> QED
  BY <1>1 DEF IInv, TypeOK, HandleSound, NoHandleLost, CallbackHasHandle, StreamIsFlagged,
              Succeeds, Calls

\* The steps of the node's own thread.
LEMMA NodeKeeps ==
    ASSUME IInv, InitStep \/ InitFails \/ TryReconnect \/ Destroy
    PROVE  IInv'
<1>1. CASE CleanupFirst
  <2>1. handle # "grabbing" /\ frame = "none"
    BY <1>1 DEF CleanupFirst, IInv, StreamIsFlagged, HandleSound, CallbackHasHandle
  <2> QED
    BY <1>1, <2>1
       DEF CleanupFirst, Cleanup, IInv, TypeOK, HandleSound, NoHandleLost, CallbackHasHandle,
           StreamIsFlagged, Handles, Calls
<1>2. CASE EnumDevices
  <2>1. handle \in Handles /\ handle # "grabbing"
    BY <1>2 DEF EnumDevices, Succeeds, IInv, TypeOK, StreamIsFlagged
  <2> QED
    BY <1>2, <2>1, SucceedsKeeps DEF EnumDevices, Calls
<1>3. CASE CreateHandle \/ Open \/ AttachGrabbing \/ StartGrabbing
  BY <1>3, SucceedsKeeps
     DEF CreateHandle, Open, AttachGrabbing, StartGrabbing, Calls, Handles
<1>4. CASE InitSucceeds
  BY <1>4
     DEF InitSucceeds, InitDone, IInv, TypeOK, HandleSound, NoHandleLost, CallbackHasHandle,
         StreamIsFlagged, Calls
<1>5. CASE InitFails
  BY <1>5
     DEF InitFails, IInv, TypeOK, HandleSound, NoHandleLost, CallbackHasHandle,
         StreamIsFlagged, Calls
<1>6. CASE TryReconnect
  BY <1>6
     DEF TryReconnect, IInv, TypeOK, HandleSound, NoHandleLost, CallbackHasHandle,
         StreamIsFlagged, Calls
<1>7. CASE Destroy
  <2>1. frame = "none"
    BY <1>7 DEF Destroy, Cleanup, IInv, HandleSound, CallbackHasHandle, StreamIsFlagged
  <2> QED
    BY <1>7, <2>1
       DEF Destroy, Cleanup, IInv, TypeOK, HandleSound, NoHandleLost, CallbackHasHandle,
           StreamIsFlagged, Handles, Calls
<1> QED
  BY <1>1, <1>2, <1>3, <1>4, <1>5, <1>6, <1>7 DEF InitStep

LEMMA NextKeeps == IInv /\ [Next]_vars => IInv'
<1>1. CASE UNCHANGED vars
  BY <1>1 DEF vars, IInv, TypeOK, HandleSound, NoHandleLost, CallbackHasHandle, StreamIsFlagged
<1> QED
  BY <1>1, SdkKeeps, NodeKeeps DEF Next

\* The inductive invariant holds throughout.
THEOREM Invariance == Spec => []IInv
<1>1. IInv /\ [Next]_vars => IInv'
  BY NextKeeps
<1> QED
  BY <1>1, InitInvariant, PTL DEF Spec

\* However attempts fail and whenever the node is destroyed, no handle is lost
\* and the frame callback runs on one that grabs only
\* (camera_node.cpp:59-122, 185).
THEOREM HandleIsSound == Spec => []HandleSound
<1>1. IInv => HandleSound
  BY DEF IInv
<1> QED
  BY <1>1, Invariance, PTL

\* The variables keep their types; no handle is ever counted as lost.
THEOREM TypeCorrect == Spec => []TypeOK
<1>1. IInv => TypeOK
  BY DEF IInv
<1> QED
  BY <1>1, Invariance, PTL

\* Only the destructor ends a stream: no retry starts after one has begun
\* (camera_node.cpp:124-131).
THEOREM StreamLeftAlone == Spec => StreamIsLeftAlone
<1> DEFINE Alone == handle = "grabbing" /\ handle' # "grabbing" => pc' = "destroyed"
<1>1. IInv /\ [Next]_vars => [Alone]_vars
  <2> SUFFICES ASSUME IInv, Next, handle = "grabbing", handle' # "grabbing"
               PROVE  pc' = "destroyed"
    BY DEF vars
  <2>1. pc \in {"flag", "idle"}
    BY DEF IInv, StreamIsFlagged
  <2> QED
    BY <2>1
       DEF Next, InitStep, CleanupFirst, EnumDevices, CreateHandle, Open, AttachGrabbing,
           StartGrabbing, Succeeds, InitSucceeds, InitDone, InitFails, TryReconnect, Destroy, Plug,
           FrameIn, DropFrame, PublishFrame
<1> QED
  BY <1>1, Invariance, PTL DEF Spec, StreamIsLeftAlone
=============================================================================
