---------------------------- MODULE CameraWrapper ----------------------------
(***************************************************************************)
(* The camera module of camera/CameraWrapper.cpp, which stands between the *)
(* camera service and the vendor's module: it opens and closes devices     *)
(* under gCameraWrapperLock, forwards calls, and keeps the string that was *)
(* last set for each camera in an array that all cameras share.  Setting   *)
(* parameters uses the array without the lock.                             *)
(*                                                                         *)
(* "assume camera service will keep singleton of each camera": the service *)
(* opens a camera once at a time and calls it from one thread at a time;   *)
(* calls of different cameras interleave.  Of parameters the model keeps   *)
(* what the wrapper looks at.                                              *)
(***************************************************************************)
EXTENDS Integers

CONSTANT NumCameras  \* what the vendor's get_number_of_cameras says

Cameras == 0..(NumCameras - 1)
Ids     == 0..(NumCameras + 1)  \* of the names that the service may ask for

VARIABLES
  gVendorModule,
  fixed_set_params,  \* what each pointer of the array is; none when it is NULL
  opening,           \* the id that camera_device_open works on under the lock
  device,            \* external: the devices that the service holds
  vendor,            \* external: the vendor's devices that are open
  passed,            \* the string that a set_parameters in progress passes on
  pending,           \* what that string says
  settings,          \* external: what the vendor's device was told last
  faults,            \* history: pointers that were used and not valid
  crowded,           \* history: an open was tried while a camera was open
  lost               \* history: devices opened when camera_ops found no memory

heap == <<fixed_set_params, passed, pending, faults>>
devices == <<device, vendor, settings, lost>>
cameraVars == <<gVendorModule, opening, crowded, heap, devices>>

Parameters == [recording : BOOLEAN, slow : BOOLEAN, flash : BOOLEAN]
Default == [recording |-> FALSE, slow |-> FALSE, flash |-> FALSE]
None == "none"
Nobody == -1
Pointers == {None, "NULL", "string", "freed", "garbage"}
Array(pointer) == [c \in Cameras |-> pointer]

CameraInit ==
  /\ gVendorModule = "NULL"
  /\ fixed_set_params = Array(None)
  /\ opening = Nobody
  /\ device = {} /\ vendor = {} /\ lost = {}
  /\ passed = [c \in Cameras |-> None]
  /\ pending = [c \in Cameras |-> Default]
  /\ settings = [c \in Cameras |-> Default]
  /\ faults = {}
  /\ crowded = FALSE

(***************************************************************************)
(* check_vendor_module, from camera_get_number_of_cameras and              *)
(* camera_get_camera_info, which take no lock.                             *)
(***************************************************************************)
Query ==
  /\ gVendorModule' \in {gVendorModule, "loaded"}
  /\ UNCHANGED <<opening, crowded, heap, devices>>

(***************************************************************************)
(* camera_device_open.                                                     *)
(***************************************************************************)
\* A string that is being passed on survives in an array that is not known
\* any more.
Forgotten == [c \in Cameras |-> IF passed[c] = "slot" THEN "lost" ELSE passed[c]]

\* The array of the last open is replaced by one that memset has not cleared
\* yet, or by NULL when there is no memory.
Open(id) ==
  /\ opening = Nobody /\ id \notin device
  /\ gVendorModule' = "loaded"
  /\ passed' = Forgotten
  /\ \/ fixed_set_params' = Array("garbage") /\ opening' = id
     \/ fixed_set_params' = Array(None) /\ UNCHANGED opening
  /\ crowded' = (crowded \/ device # {})
  /\ UNCHANGED <<pending, faults, devices>>

\* After the vendor's open nothing but the memory is given back.
OpsFail(id) ==
  /\ id \in Cameras \ vendor
  /\ vendor' = vendor \cup {id}
  /\ lost' = lost \cup {id}
  /\ UNCHANGED device

\* cameraid > num_cameras: the vendor refuses the id that is one too large.
InBounds(id) == id <= NumCameras

\* The id is out of bounds, there is no memory for the device, or the vendor
\* refuses.
OpenFails == UNCHANGED <<device, vendor, lost>>

Opened(id) ==
  /\ InBounds(id) /\ id \in Cameras \ vendor
  /\ vendor' = vendor \cup {id}
  /\ device' = device \cup {id}
  /\ UNCHANGED lost

\* Mutant: the memset is left out.
NotCleared == fixed_set_params
Cleared == Array("NULL")

\* From the memset to the return.
OpenReturns ==
  /\ opening # Nobody
  /\ fixed_set_params' = Cleared
  /\ OpenFails \/ OpsFail(opening) \/ Opened(opening)
  /\ opening' = Nobody
  /\ UNCHANGED <<gVendorModule, crowded, passed, pending, faults, settings>>

(***************************************************************************)
(* camera_device_close: the strings of all cameras are freed, and neither  *)
(* their pointers nor the array are reset.                                 *)
(***************************************************************************)
Fault(what) == faults' = faults \cup {what}

FreeAll ==
  /\ fixed_set_params' = [c \in Cameras |->
       IF fixed_set_params[c] = "string" THEN "freed" ELSE fixed_set_params[c]]
  /\ passed' = [c \in Cameras |-> IF passed[c] = "slot" THEN "freed" ELSE passed[c]]
  /\ CASE \E c \in Cameras : fixed_set_params[c] = None    -> Fault("NULL array")
       [] \E c \in Cameras : fixed_set_params[c] = "freed" -> Fault("freed twice")
       [] OTHER -> UNCHANGED faults

Close(c) ==
  /\ opening = Nobody /\ c \in device /\ passed[c] = None
  /\ FreeAll
  /\ vendor' = vendor \ {c}
  /\ device' = device \ {c}
  /\ settings' = [settings EXCEPT ![c] = Default]
  /\ UNCHANGED <<gVendorModule, opening, crowded, pending, lost>>

(***************************************************************************)
(* camera_set_parameters: camera_fixup_setparams, then the vendor's call.  *)
(***************************************************************************)
\* "Disable flash if slow shutter is enabled", for the back camera.
FixedUp(c, p) ==
  IF c = 0 /\ p.slow /\ ~p.recording THEN [p EXCEPT !.flash = FALSE] ELSE p

\* The pointer of the last string is freed and replaced.
Replaced(c) ==
  /\ fixed_set_params' = [fixed_set_params EXCEPT ![c] = "string"]
  /\ CASE fixed_set_params[c] = None      -> Fault("NULL array")
       [] fixed_set_params[c] = "freed"   -> Fault("freed twice")
       [] fixed_set_params[c] = "garbage" -> Fault("not cleared")
       [] OTHER -> UNCHANGED faults

FixupSetparams(c, p) ==
  /\ c \in device /\ passed[c] = None
  /\ Replaced(c)
  /\ passed' = [passed EXCEPT ![c] = "slot"]
  /\ pending' = [pending EXCEPT ![c] = FixedUp(c, p)]
  /\ UNCHANGED <<gVendorModule, opening, crowded, devices>>

VendorSetParameters(c) ==
  /\ passed[c] # None
  /\ passed' = [passed EXCEPT ![c] = None]
  /\ settings' = [settings EXCEPT ![c] = pending[c]]
  /\ pending' = [pending EXCEPT ![c] = Default]
  /\ IF passed[c] = "freed" THEN Fault("used after free") ELSE UNCHANGED faults
  /\ UNCHANGED <<gVendorModule, opening, crowded, fixed_set_params, device, vendor, lost>>

(***************************************************************************)
(* The calls that are forwarded as they are.  Here they matter for the     *)
(* device that they reach; get_parameters edits a copy, which              *)
(* put_parameters frees.                                                   *)
(***************************************************************************)
VendorCall(c) ==
  /\ c \in device /\ passed[c] = None
  /\ IF c \in vendor THEN UNCHANGED faults ELSE Fault("closed device")
  /\ UNCHANGED <<gVendorModule, opening, crowded, fixed_set_params, passed, pending, devices>>

\* What follows the use of a bad pointer is undefined: it is left out.
CameraNext ==
  /\ faults = {}
  /\ \/ Query
     \/ \E id \in Ids : Open(id)
     \/ OpenReturns
     \/ \E c \in Cameras :
          \/ Close(c)
          \/ \E p \in Parameters : FixupSetparams(c, p)
          \/ VendorSetParameters(c)
          \/ VendorCall(c)

CameraSpec == CameraInit /\ [][CameraNext]_cameraVars

(***************************************************************************)
(* Properties                                                              *)
(***************************************************************************)
CameraTypeOK ==
  /\ gVendorModule \in {"NULL", "loaded"}
  /\ fixed_set_params \in [Cameras -> Pointers]
  /\ opening \in Ids \cup {Nobody}
  /\ device \subseteq Cameras /\ vendor \subseteq Cameras /\ lost \subseteq Cameras
  /\ passed \in [Cameras -> {None, "slot", "lost", "freed"}]
  /\ pending \in [Cameras -> Parameters] /\ settings \in [Cameras -> Parameters]
  /\ faults \subseteq {"NULL array", "freed twice", "not cleared", "used after free", "closed device"}
  /\ crowded \in BOOLEAN

\* Strings are freed once and none is used that is freed, over any sequence of
\* opens, closes, failures and settings of all cameras, as long as no camera is
\* opened while another one is: the array and the lock are not enough for that
\* (README, known divergences).
HeapIsSound == ~crowded => faults = {}

\* A device that the service holds has its vendor's device, and a vendor's
\* device without a holder is one that was opened before memory ran out.  The
\* vendor's module stays loaded: with none the close would count no cameras,
\* and free no string.
HeldIsOpen ==
  /\ device \subseteq vendor /\ vendor \ device \subseteq lost
  /\ device # {} \/ opening # Nobody => gVendorModule = "loaded"

\* "Disable flash if slow shutter is enabled" (CameraWrapper.cpp:170): the
\* vendor's back camera never has both, but for recording.
SlowIsDark == 0 \in Cameras => ~(settings[0].slow /\ settings[0].flash /\ ~settings[0].recording)

\* The wrapper's memory and devices, and what it promises of the flash.
CameraIsSound == CameraTypeOK /\ HeapIsSound /\ HeldIsOpen /\ SlowIsDark
=============================================================================
