---------------------------- MODULE Device_proofs ----------------------------
(***************************************************************************)
(* Proofs about the parts of the device that MCDevice puts side by side.   *)
(*                                                                         *)
(* Lights: the LED shows the most important light that is lit, and the     *)
(* backlight what was asked for last, for any colours, delays and screens. *)
(* The invariant that is inductive says the first of every state in which  *)
(* no call for the LED is in progress, those with a call for the backlight *)
(* included; and the second of the brightness that such a call works out.  *)
(*                                                                         *)
(* CameraWrapper, for any number of cameras: what makes its memory sound   *)
(* when cameras are opened one at a time is said by Calm: an open finds no *)
(* device, so that nobody uses the array it replaces, and a close leaves   *)
(* none, so that nobody uses the pointers it has freed.                    *)
(*                                                                         *)
(* BoyerMoore, for any texts and any patterns of which no suffix is a      *)
(* prefix: the distance between a window and the next match is one that    *)
(* both tables allow (Delta1Allows, Delta2Allows), and the second always   *)
(* advances.                                                               *)
(*                                                                         *)
(* NmeaGsv, for any report: what the sentences made so far hold, and that  *)
(* those left can just hold the rest (Filling), for one system at a time.  *)
(***************************************************************************)
EXTENDS MCDevice, FiniteSetTheorems, WellFoundedInduction, TLAPS

\* What a write of the LED leaves is the pattern of the prioritized light.
LedIsPrioritized ==
  g_lock \notin Sources /\ "led" \notin stale => led = Pattern(globals[Prioritized])

\* An attention without times was stored without its colour.
AttentionStored == globals["attention"].ms = 0 => globals["attention"].color \notin Lit

\* A call for the backlight is about to write what was asked for; without one,
\* it is written, and the lock is not held for it.
BacklightIsWanted ==
  /\ brightness # Idle => brightness = Brightness(wanted)
  /\ brightness = Idle => g_lock # "backlight" /\ ("lcd" \in stale \/ lcd = Brightness(wanted))

LightsIInv == TypeOK /\ LedIsPrioritized /\ AttentionStored /\ BacklightIsWanted

\* The weights of rgb_to_brightness add up to 256: its result lies between the
\* least and the greatest of the channels, and is a brightness.
LEMMA BrightnessBetween ==
  ASSUME NEW screen \in [r : Channels, g : Channels, b : Channels]
  PROVE  /\ Brightness(screen) \in Channels
         /\ \E low, high \in {screen.r, screen.g, screen.b} :
              low <= Brightness(screen) /\ Brightness(screen) <= high
  <1>1. /\ screen.r \in Int /\ 0 <= screen.r /\ screen.r <= 255
        /\ screen.g \in Int /\ 0 <= screen.g /\ screen.g <= 255
        /\ screen.b \in Int /\ 0 <= screen.b /\ screen.b <= 255
    BY DEF Channels
  <1> DEFINE n == 77 * screen.r + 150 * screen.g + 29 * screen.b
  <1>2. PICK low \in {screen.r, screen.g, screen.b} :
          low <= screen.r /\ low <= screen.g /\ low <= screen.b
    BY <1>1
  <1>3. PICK high \in {screen.r, screen.g, screen.b} :
          screen.r <= high /\ screen.g <= high /\ screen.b <= high
    BY <1>1
  <1>4. /\ low \in Int /\ high \in Int /\ n \in Int
        /\ 256 * low <= n /\ n <= 256 * high
        /\ 0 <= low /\ high <= 255
    BY <1>1, <1>2, <1>3
  <1>5. low <= n \div 256 /\ n \div 256 <= high /\ n \div 256 \in 0..255
    <2> HIDE DEF n
    <2> QED
      BY <1>4
  <1> QED
    BY <1>2, <1>3, <1>5 DEF Brightness, Channels

\* What is wanted, from the first state on, is a screen of three channels.
LEMMA WantedIsScreen ==
  ASSUME TypeOK
  PROVE  wanted \in [r : Channels, g : Channels, b : Channels]
  <1>1. Black \in [r : Channels, g : Channels, b : Channels]
    BY DEF Black, Channels
  <1> QED
    BY <1>1, LightsAssumption DEF TypeOK

\* The pattern of a stored light has the type of the LED.
LEMMA PatternType ==
  ASSUME NEW light \in States
  PROVE  Pattern(light) \in [color : Colors, ms : Delays \cup {-1}]
  BY DEF Pattern, States

LEMMA StoredType ==
  ASSUME NEW s \in Sources, NEW light \in States
  PROVE  Stored(s, light) \in States
  BY LightsAssumption DEF Stored, States

LEMMA LightsInitial == Init => LightsIInv
  <1> SUFFICES ASSUME Init PROVE LightsIInv
    OBVIOUS
  <1>1. Off \in States
    BY LightsAssumption DEF Off, States
  <1>2. TypeOK
    BY <1>1, LightsAssumption DEF Init, TypeOK, Sources, Holders, Channels, Idle
  <1>3. \A s \in Sources : ~IsLit(s)
    BY LightsAssumption DEF Init, IsLit, Off
  <1>4. Prioritized = "notification"
    BY <1>3 DEF Prioritized, Sources
  <1>5. LedIsPrioritized
    BY <1>4 DEF LedIsPrioritized, Init, Pattern, Off, Sources
  <1>6. AttentionStored
    BY LightsAssumption DEF AttentionStored, Init, Off, Sources
  <1>7. BacklightIsWanted
    BY DEF BacklightIsWanted, Init, Brightness, Black
  <1> QED
    BY <1>2, <1>5, <1>6, <1>7 DEF LightsIInv

LEMMA LightsInductive == LightsIInv /\ [Next]_vars => LightsIInv'
  <1> SUFFICES ASSUME LightsIInv, [Next]_vars PROVE LightsIInv'
    OBVIOUS
  <1> USE DEF LightsIInv
  <1>1. ASSUME NEW s \in Sources, NEW light \in States, SetLight(s, light)
        PROVE  LightsIInv'
    <2>1. Stored(s, light) \in States
      BY StoredType
    <2>2. TypeOK'
      BY <1>1, <2>1 DEF SetLight, TypeOK, Holders
    <2>3. LedIsPrioritized'
      BY <1>1 DEF SetLight, LedIsPrioritized
    <2>4. AttentionStored'
      <3>1. CASE s = "attention"
        <4>1. globals'["attention"] = Stored("attention", light)
          BY <1>1, <3>1 DEF SetLight, TypeOK, Sources
        <4> QED
          BY <4>1, LightsAssumption DEF AttentionStored, Stored, States
      <3>2. CASE s # "attention"
        BY <1>1, <3>2 DEF SetLight, AttentionStored, TypeOK, Sources
      <3> QED
        BY <3>1, <3>2
    <2>5. BacklightIsWanted'
      BY <1>1 DEF SetLight, BacklightIsWanted, Brightness, Sources
    <2> QED
      BY <2>2, <2>3, <2>4, <2>5
  <1>2. ASSUME NEW screen \in Screens, SetBacklight(screen)
        PROVE  LightsIInv'
    <2>1. Brightness(screen) \in Channels
      BY BrightnessBetween, LightsAssumption
    <2>2. TypeOK'
      BY <1>2, <2>1 DEF SetBacklight, TypeOK
    <2>3. LedIsPrioritized'
      BY <1>2 DEF SetBacklight, LedIsPrioritized, Pattern, Prioritized, IsLit
    <2>4. AttentionStored'
      BY <1>2 DEF SetBacklight, AttentionStored
    <2>5. BacklightIsWanted'
      <3>1. brightness' # Idle
        BY <1>2, <2>1 DEF SetBacklight, Channels, Idle
      <3>2. brightness' = Brightness(wanted')
        BY <1>2 DEF SetBacklight
      <3> QED
        BY <3>1, <3>2 DEF BacklightIsWanted, Brightness
    <2> QED
      BY <2>2, <2>3, <2>4, <2>5
  <1>3. ASSUME WriteLed
        PROVE  LightsIInv'
    <2>1. Prioritized \in Sources
      BY DEF Prioritized, Sources
    <2>2. globals[Prioritized] \in States
      BY <2>1 DEF TypeOK
    <2>3. Pattern(globals[Prioritized]) \in [color : Colors, ms : Delays \cup {-1}]
      BY <2>2, PatternType
    <2>4. TypeOK'
      BY <1>3, <2>3 DEF WriteLed, TypeOK
    <2>5. Prioritized' = Prioritized
      BY <1>3 DEF WriteLed, Prioritized, IsLit
    <2>6. LedIsPrioritized'
      BY <1>3, <2>5 DEF WriteLed, LedIsPrioritized, Pattern
    <2>7. AttentionStored'
      BY <1>3 DEF WriteLed, AttentionStored
    <2>8. BacklightIsWanted'
      BY <1>3 DEF WriteLed, BacklightIsWanted, Brightness
    <2> QED
      BY <2>4, <2>6, <2>7, <2>8
  <1>4. ASSUME LockBacklight
        PROVE  LightsIInv'
    <2>1. TypeOK'
      BY <1>4 DEF LockBacklight, TypeOK, Holders
    <2>2. Prioritized' = Prioritized
      BY <1>4 DEF LockBacklight, Prioritized, IsLit
    <2>3. LedIsPrioritized'
      BY <1>4, <2>2 DEF LockBacklight, Guarded, LedIsPrioritized, Pattern, Sources
    <2>4. AttentionStored'
      BY <1>4 DEF LockBacklight, AttentionStored
    <2>5. BacklightIsWanted'
      BY <1>4 DEF LockBacklight, BacklightIsWanted, Brightness
    <2> QED
      BY <2>1, <2>3, <2>4, <2>5
  <1>5. ASSUME WriteLcd
        PROVE  LightsIInv'
    <2>1. brightness # Idle /\ brightness \in Channels
      BY <1>5 DEF WriteLcd, BacklightIsWanted, TypeOK
    <2>2. TypeOK'
      BY <1>5, <2>1 DEF WriteLcd, TypeOK
    <2>3. Prioritized' = Prioritized
      BY <1>5 DEF WriteLcd, Prioritized, IsLit
    <2>4. LedIsPrioritized'
      BY <1>5, <2>3 DEF WriteLcd, LedIsPrioritized, Pattern, Sources
    <2>5. AttentionStored'
      BY <1>5 DEF WriteLcd, AttentionStored
    <2>6. BacklightIsWanted'
      BY <1>5, <2>1 DEF WriteLcd, BacklightIsWanted, Brightness
    <2> QED
      BY <2>2, <2>4, <2>5, <2>6
  <1>6. CASE UNCHANGED vars
    BY <1>6 DEF vars, TypeOK, LedIsPrioritized, AttentionStored, BacklightIsWanted, Pattern,
                Prioritized, IsLit, Brightness
  <1> QED
    BY <1>1, <1>2, <1>3, <1>4, <1>5, <1>6 DEF Next

LEMMA LightsConsequence == LightsIInv => LedShowsHighest /\ AttentionEnds
  <1> SUFFICES ASSUME LightsIInv, g_lock = "free", "led" \notin stale
               PROVE  /\ IsLit("attention") => Shown("attention")
                      /\ ~IsLit("attention") /\ IsLit("notification") => Shown("notification")
                      /\ (\A s \in Sources \ {"battery"} : ~IsLit(s)) /\ IsLit("battery")
                           => Shown("battery")
                      /\ (\A s \in Sources : ~IsLit(s)) => led.color \notin Lit
                      /\ globals["attention"].ms = 0 /\ IsLit("notification")
                           => Shown("notification")
    BY DEF LedShowsHighest, AttentionEnds
  <1>1. led = Pattern(globals[Prioritized])
    BY DEF LightsIInv, LedIsPrioritized, Sources
  <1>2. Shown(Prioritized)
    BY <1>1 DEF Shown
  <1>3. IsLit("attention") => Prioritized = "attention"
    BY DEF Prioritized
  <1>4. ~IsLit("attention") /\ IsLit("notification") => Prioritized = "notification"
    BY DEF Prioritized
  <1>5. ~IsLit("attention") /\ ~IsLit("notification") /\ IsLit("battery") => Prioritized = "battery"
    BY DEF Prioritized
  <1>6. ASSUME \A s \in Sources : ~IsLit(s)
        PROVE  led.color \notin Lit
    <2>1. Prioritized = "notification"
      BY <1>6 DEF Prioritized, Sources
    <2> QED
      BY <1>1, <1>6, <2>1 DEF Pattern, IsLit, Sources
  <1>7. globals["attention"].ms = 0 => ~IsLit("attention")
    BY DEF LightsIInv, AttentionStored, IsLit
  <1> QED
    BY <1>2, <1>3, <1>4, <1>5, <1>6, <1>7 DEF Sources

\* The invariant holds throughout.
THEOREM LightsInvariant == Spec => []LightsIInv
  BY LightsInitial, LightsInductive, PTL DEF Spec

\* handle_led_prioritized_locked, called under the lock by every setter, keeps
\* the LED on the lit light of the highest priority; an attention that was
\* turned off never hides a notification; and set_light_backlight leaves the
\* brightness of what was asked for last, which lies within its channels.
THEOREM LightsStayRight == Spec => []LightsAreRight
  <1>1. LightsIInv => BacklightIsShown
    <2> SUFFICES ASSUME LightsIInv, brightness = Idle, "lcd" \notin stale
                 PROVE  /\ lcd = Brightness(wanted)
                        /\ \E low, high \in {wanted.r, wanted.g, wanted.b} :
                             low <= lcd /\ lcd <= high
      BY DEF BacklightIsShown
    <2>1. lcd = Brightness(wanted)
      BY DEF LightsIInv, BacklightIsWanted
    <2>2. wanted \in [r : Channels, g : Channels, b : Channels]
      BY WantedIsScreen DEF LightsIInv
    <2> QED
      BY <2>1, <2>2, BrightnessBetween
  <1>2. LightsIInv => LightsAreRight
    BY <1>1, LightsConsequence DEF LightsIInv, LightsAreRight
  <1> QED
    BY <1>2, LightsInvariant, PTL

-----------------------------------------------------------------------------
Calm ==
  /\ faults = {}
  /\ opening # Nobody => device = {}
  /\ \A c, d \in device : c = d
  /\ device # {} => \A c \in Cameras : fixed_set_params[c] \in {"NULL", "string"}
  /\ \A c \in Cameras : passed[c] \in {None, "slot"}

\* Only a device that is held is being set.
PassedIsHeld == \A c \in Cameras : passed[c] # None => c \in device

IsDark(p) == ~(p.slow /\ p.flash /\ ~p.recording)

PendingIsDark == 0 \in Cameras => IsDark(pending[0])

CameraIInv ==
  /\ CameraTypeOK
  /\ ~crowded => Calm
  /\ HeldIsOpen
  /\ PassedIsHeld
  /\ PendingIsDark
  /\ SlowIsDark

\* What is passed on for the back camera never has a slow shutter and flash,
\* but for recording.
LEMMA FixedUpIsDark ==
  ASSUME NEW c \in Cameras, NEW p \in Parameters
  PROVE  FixedUp(c, p) \in Parameters /\ (c = 0 => IsDark(FixedUp(c, p)))
  BY DEF FixedUp, Parameters, IsDark

LEMMA CameraInitial == CameraInit => CameraIInv
  <1> SUFFICES ASSUME CameraInit PROVE CameraIInv
    OBVIOUS
  <1>1. Default \in Parameters /\ IsDark(Default)
    BY DEF Default, Parameters, IsDark
  <1>2. CameraTypeOK
    BY <1>1 DEF CameraInit, CameraTypeOK, Array, Pointers
  <1>3. Calm
    BY DEF CameraInit, Calm
  <1>4. HeldIsOpen /\ PassedIsHeld
    BY DEF CameraInit, HeldIsOpen, PassedIsHeld
  <1>5. PendingIsDark /\ SlowIsDark
    BY <1>1 DEF CameraInit, PendingIsDark, SlowIsDark, IsDark
  <1> QED
    BY <1>2, <1>3, <1>4, <1>5 DEF CameraIInv

LEMMA QueryKeeps == CameraIInv /\ Query => CameraIInv'
  <1> SUFFICES ASSUME CameraIInv, Query PROVE CameraIInv'
    OBVIOUS
  <1>1. UNCHANGED <<opening, crowded, heap, devices>>
    BY DEF Query
  <1>2. CameraTypeOK'
    BY <1>1 DEF CameraIInv, Query, CameraTypeOK, heap, devices
  <1>3. (~crowded => Calm) => (~crowded' => Calm')
    BY <1>1 DEF Calm, heap, devices
  <1>4. HeldIsOpen' /\ PassedIsHeld'
    BY <1>1 DEF CameraIInv, Query, HeldIsOpen, PassedIsHeld, heap, devices
  <1>5. PendingIsDark' /\ SlowIsDark'
    BY <1>1 DEF CameraIInv, PendingIsDark, SlowIsDark, heap, devices
  <1> QED
    BY <1>2, <1>3, <1>4, <1>5 DEF CameraIInv

LEMMA OpenKeeps ==
  ASSUME CameraIInv, NEW id \in Ids, Open(id)
  PROVE  CameraIInv'
  <1>1. CameraTypeOK'
    <2>1. fixed_set_params' \in [Cameras -> Pointers] /\ gVendorModule' \in {"NULL", "loaded"}
      BY DEF Open, Array, Pointers, None
    <2>2. opening' \in Ids \cup {Nobody}
      BY DEF Open
    <2>3. passed' \in [Cameras -> {None, "slot", "lost", "freed"}]
      BY DEF CameraIInv, Open, CameraTypeOK, Forgotten
    <2>4. UNCHANGED <<pending, faults, devices>>
      BY DEF Open
    <2>5. crowded' \in BOOLEAN
      BY Zenon DEF Open
    <2> QED
      BY <2>1, <2>2, <2>3, <2>4, <2>5 DEF CameraIInv, CameraTypeOK, devices
  <1>2. ~crowded' => Calm'
    <2> SUFFICES ASSUME ~crowded' PROVE Calm'
      OBVIOUS
    <2>1. ~crowded /\ device = {}
      BY Zenon DEF Open
    <2>2. UNCHANGED <<faults, device>>
      BY DEF Open, devices
    <2>3. Calm
      BY <2>1 DEF CameraIInv
    <2>4. \A c \in Cameras : passed'[c] \in {None, "slot"}
      <3>1. \A c \in Cameras : passed[c] # "slot"
        BY <2>1 DEF CameraIInv, PassedIsHeld, None
      <3> QED
        BY <2>3, <3>1 DEF Open, Forgotten, Calm
    <2> QED
      BY <2>1, <2>2, <2>3, <2>4 DEF Calm
  <1>3. PassedIsHeld'
    BY DEF CameraIInv, Open, PassedIsHeld, Forgotten, CameraTypeOK, devices, None
  <1>4. HeldIsOpen' /\ PendingIsDark' /\ SlowIsDark'
    BY DEF CameraIInv, Open, HeldIsOpen, PendingIsDark, SlowIsDark, IsDark, devices
  <1> QED
    BY <1>1, <1>2, <1>3, <1>4 DEF CameraIInv

LEMMA OpenReturnsKeeps == CameraIInv /\ OpenReturns => CameraIInv'
  <1> SUFFICES ASSUME CameraIInv, OpenReturns PROVE CameraIInv'
    OBVIOUS
  <1>1. OpenFails \/ OpsFail(opening) \/ Opened(opening)
    BY DEF OpenReturns
  <1>2. device \subseteq device' /\ device' \subseteq device \cup {opening}
    BY <1>1 DEF OpenFails, OpsFail, Opened
  <1>3. CameraTypeOK'
    BY <1>1 DEF CameraIInv, OpenReturns, OpenFails, OpsFail, Opened, CameraTypeOK, Array,
                Cleared, Pointers
  <1>4. ~crowded' => Calm'
    BY <1>2 DEF CameraIInv, OpenReturns, Calm, Cleared, Array
  <1>5. HeldIsOpen'
    BY <1>1 DEF CameraIInv, HeldIsOpen, OpenReturns, OpenFails, OpsFail, Opened
  <1>6. PassedIsHeld' /\ PendingIsDark' /\ SlowIsDark'
    BY <1>2 DEF CameraIInv, OpenReturns, PassedIsHeld, PendingIsDark, SlowIsDark, IsDark
  <1> QED
    BY <1>3, <1>4, <1>5, <1>6 DEF CameraIInv

LEMMA CloseKeeps ==
  ASSUME CameraIInv, NEW c \in Cameras, Close(c)
  PROVE  CameraIInv'
  <1>1. Default \in Parameters /\ IsDark(Default)
    BY DEF Default, Parameters, IsDark
  <1>2. CameraTypeOK'
    BY <1>1 DEF CameraIInv, Close, FreeAll, Fault, CameraTypeOK, Pointers
  <1>3. ~crowded' => Calm'
    <2> SUFFICES ASSUME ~crowded PROVE Calm'
      BY DEF Close
    <2>1. device' = {}
      BY DEF CameraIInv, Calm, Close
    <2>2. faults' = {}
      BY DEF CameraIInv, Calm, Close, FreeAll, None
    <2>3. \A d \in Cameras : passed[d] = None
      BY DEF CameraIInv, Calm, Close, PassedIsHeld
    <2>4. \A d \in Cameras : passed'[d] = None
      BY <2>3 DEF Close, FreeAll, None
    <2> QED
      BY <2>1, <2>2, <2>4 DEF Calm
  <1>4. HeldIsOpen'
    BY DEF CameraIInv, Close, HeldIsOpen
  <1>5. PassedIsHeld'
    BY DEF CameraIInv, Close, FreeAll, PassedIsHeld, None
  <1>6. PendingIsDark' /\ SlowIsDark'
    BY <1>1 DEF CameraIInv, Close, PendingIsDark, SlowIsDark, IsDark, CameraTypeOK
  <1> QED
    BY <1>2, <1>3, <1>4, <1>5, <1>6 DEF CameraIInv

LEMMA FixupKeeps ==
  ASSUME CameraIInv, NEW c \in Cameras, NEW p \in Parameters, FixupSetparams(c, p)
  PROVE  CameraIInv'
  <1>1. FixedUp(c, p) \in Parameters /\ (c = 0 => IsDark(FixedUp(c, p)))
    BY FixedUpIsDark
  <1>2. CameraTypeOK'
    BY <1>1 DEF CameraIInv, FixupSetparams, Replaced, Fault, CameraTypeOK, Pointers, devices
  <1>3. ~crowded' => Calm'
    BY DEF CameraIInv, FixupSetparams, Replaced, Calm, CameraTypeOK, devices, None
  <1>4. HeldIsOpen' /\ PassedIsHeld' /\ SlowIsDark'
    BY DEF CameraIInv, FixupSetparams, HeldIsOpen, PassedIsHeld, SlowIsDark, CameraTypeOK, devices
  <1>5. PendingIsDark'
    BY <1>1 DEF CameraIInv, FixupSetparams, PendingIsDark, CameraTypeOK
  <1> QED
    BY <1>2, <1>3, <1>4, <1>5 DEF CameraIInv

LEMMA VendorSetKeeps ==
  ASSUME CameraIInv, NEW c \in Cameras, VendorSetParameters(c)
  PROVE  CameraIInv'
  <1>1. Default \in Parameters /\ IsDark(Default)
    BY DEF Default, Parameters, IsDark
  <1>2. CameraTypeOK'
    BY <1>1 DEF CameraIInv, VendorSetParameters, Fault, CameraTypeOK
  <1>3. ~crowded' => Calm'
    BY DEF CameraIInv, VendorSetParameters, Calm, CameraTypeOK, None
  <1>4. HeldIsOpen' /\ PassedIsHeld'
    BY DEF CameraIInv, VendorSetParameters, HeldIsOpen, PassedIsHeld, CameraTypeOK
  <1>5. PendingIsDark' /\ SlowIsDark'
    BY <1>1 DEF CameraIInv, VendorSetParameters, PendingIsDark, SlowIsDark, IsDark, CameraTypeOK
  <1> QED
    BY <1>2, <1>3, <1>4, <1>5 DEF CameraIInv

LEMMA VendorCallKeeps ==
  ASSUME CameraIInv, NEW c \in Cameras, VendorCall(c)
  PROVE  CameraIInv'
  <1>1. UNCHANGED cameraVars
    BY DEF CameraIInv, HeldIsOpen, VendorCall, cameraVars, heap
  <1> QED
    BY <1>1 DEF CameraIInv, CameraTypeOK, Calm, HeldIsOpen, PassedIsHeld, PendingIsDark,
                SlowIsDark, IsDark, cameraVars, heap, devices

LEMMA CameraInductive == CameraIInv /\ [CameraNext]_cameraVars => CameraIInv'
  <1> SUFFICES ASSUME CameraIInv, [CameraNext]_cameraVars PROVE CameraIInv'
    OBVIOUS
  <1>1. CASE UNCHANGED cameraVars
    BY <1>1 DEF CameraIInv, CameraTypeOK, Calm, HeldIsOpen, PassedIsHeld,
       PendingIsDark, SlowIsDark, IsDark, cameraVars, heap, devices
  <1>2. CASE Query
    BY <1>2, QueryKeeps
  <1>3. CASE \E id \in Ids : Open(id)
    BY <1>3, OpenKeeps
  <1>4. CASE OpenReturns
    BY <1>4, OpenReturnsKeeps
  <1>5. ASSUME NEW c \in Cameras, Close(c) PROVE CameraIInv'
    BY <1>5, CloseKeeps
  <1>6. ASSUME NEW c \in Cameras, NEW p \in Parameters, FixupSetparams(c, p) PROVE CameraIInv'
    BY <1>6, FixupKeeps
  <1>7. ASSUME NEW c \in Cameras, VendorSetParameters(c) PROVE CameraIInv'
    BY <1>7, VendorSetKeeps
  <1>8. ASSUME NEW c \in Cameras, VendorCall(c) PROVE CameraIInv'
    BY <1>8, VendorCallKeeps
  <1> QED
    BY <1>1, <1>2, <1>3, <1>4, <1>5, <1>6, <1>7, <1>8 DEF CameraNext

\* For any number of cameras: no string is freed twice or used after it was
\* freed as long as cameras are opened one at a time (CameraWrapper.cpp keeps
\* one array for all of them), a device that is held has its vendor's device,
\* and a slow shutter of the back camera never comes with flash.
THEOREM CameraStaysSound == CameraSpec => []CameraIsSound
  <1>1. CameraIInv => CameraIsSound
    BY DEF CameraIInv, CameraIsSound, HeapIsSound, Calm
  <1> QED
    BY CameraInitial, CameraInductive, <1>1, PTL DEF CameraSpec
-----------------------------------------------------------------------------
(***************************************************************************)
(* BoyerMoore, for any texts and any patterns of which no suffix is a      *)
(* prefix.                                                                 *)
(***************************************************************************)
LEMMA MinOf ==
  ASSUME NEW S \in SUBSET Nat, S # {}
  PROVE  Search!Min(S) \in S /\ \A x \in S : Search!Min(S) <= x
  <1>1. PICK m \in S : \A x \in S : ~ (<<x, m>> \in OpToRel(<, Nat))
    BY WFMin, NatLessThanWellFounded
  <1>2. \A x \in S : x \in Nat /\ m \in Nat /\ ~ (x < m)
    BY <1>1 DEF OpToRel
  <1>3. \A x \in S : m <= x
    BY <1>2
  <1> QED
    BY <1>3 DEF Search!Min

LEMMA MaxOf ==
  ASSUME NEW n \in Nat, NEW S \in SUBSET (0..n), S # {}
  PROVE  Search!Max(S) \in S /\ \A x \in S : x <= Search!Max(S)
  <1> DEFINE T == {n - x : x \in S}
  <1>1. T \subseteq Nat /\ T # {}
    <2>1. \A x \in S : n - x \in Nat
      OBVIOUS
    <2> QED
      BY <2>1
  <1>2. PICK m \in T : \A y \in T : ~ (<<y, m>> \in OpToRel(<, Nat))
    BY <1>1, WFMin, NatLessThanWellFounded
  <1>3. PICK b \in S : m = n - b
    OBVIOUS
  <1>4. \A x \in S : n - x \in T
    OBVIOUS
  <1>5. \A x \in S : ~ (n - x < m)
    BY <1>1, <1>2, <1>4 DEF OpToRel
  <1>6. \A x \in S : b >= x
    BY <1>3, <1>5
  <1> QED
    BY <1>6 DEF Search!Max

\* A table of the first kind brings the last place of the character before the
\* end, or none, under it.
LEMMA Delta1Allows ==
  ASSUME NEW s, NEW n \in Nat \ {0}, Len(s) = n, NEW c
  PROVE  /\ Search!MakeDelta1(s, c) \in 1..n
         /\ \A k \in 0..(n - 2) : Search!At(s, k) = c => Search!MakeDelta1(s, c) <= n - 1 - k
  <1> DEFINE before == {k \in 0..(n - 2) : Search!At(s, k) = c}
  <1>1. CASE before = {}
    <2>1. Search!MakeDelta1(s, c) = n
      BY <1>1 DEF Search!MakeDelta1
    <2> QED
      BY <1>1, <2>1
  <1>2. CASE before # {}
    <2>1. Search!MakeDelta1(s, c) = n - 1 - Search!Max(before)
      BY <1>2 DEF Search!MakeDelta1
    <2>2. n >= 2 /\ before \in SUBSET (0..(n - 2))
      BY <1>2
    <2>3. Search!Max(before) \in before /\ \A k \in before : k <= Search!Max(before)
      <3> HIDE DEF before
      <3>1. n - 2 \in Nat
        BY <2>2
      <3> QED
        BY <1>2, <2>2, <3>1, MaxOf
    <2> QED
      BY <2>1, <2>2, <2>3
  <1> QED
    BY <1>1, <1>2

\* How max_suffix_len is recognized: up to m characters agree, and no more.
LEMMA MaxSuffixLenIs ==
  ASSUME NEW s, NEW n \in Nat \ {0}, Len(s) = n, NEW q \in 0..(n - 2), NEW m \in 0..q,
         \A k \in 0..(m - 1) : Search!At(s, q - k) = Search!At(s, n - 1 - k),
         m = q \/ Search!At(s, q - m) # Search!At(s, n - 1 - m)
  PROVE  Search!MaxSuffixLen(s, q) = m
  <1> DEFINE S == {k \in 0..q : k = q \/ Search!At(s, q - k) # Search!At(s, n - 1 - k)}
  <1>1. Search!MaxSuffixLen(s, q) = Search!Min(S)
    BY DEF Search!MaxSuffixLen
  <1>2. m \in S
    OBVIOUS
  <1>3. \A k \in S : k >= m
    OBVIOUS
  <1>4. \A k \in S : k \in Nat
    OBVIOUS
  <1>5. Search!Min(S) \in S /\ Search!Min(S) <= m
    <2> HIDE DEF S
    <2> QED
      BY <1>2, <1>4, MinOf
  <1> QED
    BY <1>1, <1>3, <1>5

LEMMA LastPrefixType ==
  ASSUME NEW s, NEW n \in Nat \ {0}, Len(s) = n, NEW p \in 0..(n - 1)
  PROVE  Search!LastPrefix(s, p) \in Nat /\ Search!LastPrefix(s, p) >= 1
  <1> DEFINE borders == {q \in p..(n - 1) : Search!IsBorder(s, q)}
  <1>1. CASE borders = {}
    <2>1. Search!LastPrefix(s, p) = n - 1
      BY <1>1 DEF Search!LastPrefix
    <2>2. Search!IsBorder(s, 0)
      BY DEF Search!IsBorder
    <2>3. n # 1
      BY <1>1, <2>2
    <2> QED
      BY <2>1, <2>3
  <1>2. CASE borders # {}
    <2>1. Search!LastPrefix(s, p) = Search!Min(borders) + 1
      BY <1>2 DEF Search!LastPrefix
    <2>2. borders \in SUBSET Nat
      OBVIOUS
    <2> QED
      BY <1>2, <2>1, <2>2, MinOf
  <1> QED
    BY <1>1, <1>2

\* A table of the second kind brings the window forward.
LEMMA Delta2Advances ==
  ASSUME NEW s, NEW n \in Nat \ {0}, Len(s) = n, NEW p \in 0..(n - 1)
  PROVE  Search!MakeDelta2(s, p) \in Nat /\ p + Search!MakeDelta2(s, p) >= n
  <1> DEFINE ends == {q \in 0..(n - 2) :
                        /\ n - 1 - Search!MaxSuffixLen(s, q) = p
                        /\ Search!At(s, q - Search!MaxSuffixLen(s, q)) # Search!At(s, p)}
  <1>1. CASE ends = {}
    <2>1. Search!MakeDelta2(s, p) = Search!LastPrefix(s, p) + (n - 1 - p)
      BY <1>1 DEF Search!MakeDelta2
    <2> HIDE DEF ends
    <2> QED
      BY <2>1, LastPrefixType
  <1>2. CASE ends # {}
    <2>1. Search!MakeDelta2(s, p) = n - 1 - Search!Max(ends) + (n - 1 - p)
      BY <1>2 DEF Search!MakeDelta2
    <2>2. n >= 2 /\ ends \in SUBSET (0..(n - 2))
      BY <1>2
    <2> HIDE DEF ends
    <2>3. n - 2 \in Nat
      BY <2>2
    <2>4. Search!Max(ends) \in 0..(n - 2)
      BY <1>2, <2>2, <2>3, MaxOf
    <2> QED
      BY <2>1, <2>2, <2>4
  <1> QED
    BY <1>1, <1>2

\* Whatever is right of p agrees with the pattern d places further left, and p
\* itself does not: the second table goes no further than d.
LEMMA Delta2Allows ==
  ASSUME NEW s, NEW n \in Nat \ {0}, Len(s) = n, BorderFree(s),
         NEW p \in 0..(n - 1), NEW d \in Nat \ {0},
         \A k \in (p + 1)..(n - 1) : k >= d => Search!At(s, k - d) = Search!At(s, k),
         d <= p => Search!At(s, p - d) # Search!At(s, p)
  PROVE  p + Search!MakeDelta2(s, p) <= n - 1 + d
  <1> DEFINE ends == {q \in 0..(n - 2) :
                        /\ n - 1 - Search!MaxSuffixLen(s, q) = p
                        /\ Search!At(s, q - Search!MaxSuffixLen(s, q)) # Search!At(s, p)}
  <1>1. ends \in SUBSET (0..(n - 2))
    OBVIOUS
  <1>2. ends = {} => Search!MakeDelta2(s, p) = Search!LastPrefix(s, p) + (n - 1 - p)
    BY DEF Search!MakeDelta2
  <1>3. ends # {} => Search!MakeDelta2(s, p) = n - 1 - Search!Max(ends) + (n - 1 - p)
    BY DEF Search!MakeDelta2
  <1>4. ASSUME d <= p PROVE n - 1 - d \in ends
    <2>1. n - 1 - d \in 0..(n - 2) /\ n - 1 - p \in 0..(n - 1 - d)
      BY <1>4
    <2>2. \A k \in 0..(n - 1 - p - 1) :
            Search!At(s, n - 1 - d - k) = Search!At(s, n - 1 - k)
      <3>1. ASSUME NEW k \in 0..(n - 1 - p - 1)
            PROVE  Search!At(s, n - 1 - d - k) = Search!At(s, n - 1 - k)
        <4>1. n - 1 - k \in (p + 1)..(n - 1) /\ n - 1 - k >= d /\ (n - 1 - k) - d = n - 1 - d - k
          BY <1>4
        <4> QED
          BY <4>1
      <3> QED
        BY <3>1
    <2>3. n - 1 - d - (n - 1 - p) = p - d /\ n - 1 - (n - 1 - p) = p
      OBVIOUS
    <2>4. Search!MaxSuffixLen(s, n - 1 - d) = n - 1 - p
      BY <1>4, <2>1, <2>2, <2>3, MaxSuffixLenIs
    <2> QED
      BY <1>4, <2>1, <2>3, <2>4
  <1>5. ASSUME p < d PROVE d >= n
    <2> SUFFICES ASSUME d < n PROVE FALSE
      OBVIOUS
    <2>1. d \in 1..(n - 1)
      OBVIOUS
    <2>2. ASSUME NEW k \in 0..(n - 1 - d) PROVE Search!At(s, d + k) = Search!At(s, k)
      <3>1. d + k \in (p + 1)..(n - 1) /\ d + k >= d /\ (d + k) - d = k
        BY <1>5, <2>1
      <3> QED
        BY <3>1
    <2>3. Search!IsBorder(s, d)
      BY <2>2 DEF Search!IsBorder
    <2> QED
      BY <2>1, <2>3 DEF BorderFree
  <1>6. CASE ends # {}
    <2>1. n >= 2
      BY <1>6
    <2> HIDE DEF ends
    <2>2. n - 2 \in Nat
      BY <2>1
    <2>3. Search!Max(ends) \in ends /\ \A q \in ends : q <= Search!Max(ends)
      BY <1>1, <1>6, <2>2, MaxOf
    <2>4. Search!Max(ends) \in 0..(n - 2)
      BY <1>1, <2>3
    <2>5. n - 1 - Search!Max(ends) <= d
      BY <1>4, <1>5, <2>3, <2>4
    <2> QED
      BY <1>3, <1>6, <2>4, <2>5
  <1>7. CASE ends = {}
    <2> HIDE DEF ends
    <2>1. d >= n
      BY <1>4, <1>5, <1>7
    <2>2. Search!LastPrefix(s, p) <= n
      <3> DEFINE borders == {q \in p..(n - 1) : Search!IsBorder(s, q)}
      <3>1. CASE borders = {}
        BY <3>1 DEF Search!LastPrefix
      <3>2. CASE borders # {}
        <4>1. Search!LastPrefix(s, p) = Search!Min(borders) + 1
          BY <3>2 DEF Search!LastPrefix
        <4>2. \A q \in borders : q \in Nat /\ q <= n - 1
          OBVIOUS
        <4> HIDE DEF borders
        <4>3. Search!Min(borders) \in borders
          BY <3>2, <4>2, MinOf
        <4> QED
          BY <4>1, <4>2, <4>3
      <3> QED
        BY <3>1, <3>2
    <2>3. Search!LastPrefix(s, p) \in Nat
      BY LastPrefixType
    <2> QED
      BY <1>2, <1>7, <2>1, <2>2, <2>3
  <1> QED
    BY <1>6, <1>7

SearchTyped ==
  /\ Len(pat) \in Nat \ {0} /\ Len(str) \in Nat /\ BorderFree(pat)
  /\ DOMAIN str = 1..Len(str)
  /\ delta1 = [c \in Search!Chars(str) |-> Search!MakeDelta1(pat, c)]
  /\ delta2 = [p \in Search!Places(pat) |-> Search!MakeDelta2(pat, p)]
  /\ i \in Nat /\ i >= Len(pat) - 1

\* No match is behind the window.
NothingPassed == \A p \in Search!Matches : Search!Start <= p

SearchIInv ==
  /\ SearchTyped /\ NothingPassed
  /\ returned = "match" => Search!Start \in Search!Matches
  /\ returned = "NULL" => Search!Matches = {}

LEMMA SearchInitial == Search!Init => SearchIInv
  <1> SUFFICES ASSUME Search!Init PROVE SearchIInv
    OBVIOUS
  <1>1. PICK in \in Inputs :
          /\ pat = in.pat /\ str = in.str
          /\ delta1 = [c \in Search!Chars(str) |-> Search!MakeDelta1(pat, c)]
          /\ delta2 = [p \in Search!Places(pat) |-> Search!MakeDelta2(pat, p)]
          /\ i = Len(pat) - 1
          /\ returned = "no"
    BY DEF Search!Init
  <1>2. /\ pat \in Seq(Range(pat)) /\ str \in Seq(Range(str))
        /\ pat # <<>> /\ BorderFree(pat)
    BY <1>1, InputsAssumption
  <1>3. Len(pat) \in Nat \ {0} /\ Len(str) \in Nat /\ DOMAIN str = 1..Len(str)
    BY <1>2
  <1>4. Search!Start = 0
    BY <1>1, <1>3 DEF Search!Start
  <1>5. NothingPassed
    BY <1>4 DEF NothingPassed, Search!Matches
  <1> QED
    BY <1>1, <1>2, <1>3, <1>5 DEF SearchIInv, SearchTyped

\* The distances that a mismatch finds in the tables.
LEMMA SkipReads ==
  ASSUME SearchTyped, Search!Differs
  PROVE  \E j \in 0..(Len(pat) - 1) :
           LET d1 == Search!MakeDelta1(pat, Search!At(str, Search!Start + j))
               d2 == Search!MakeDelta2(pat, j) IN
           /\ Search!At(str, Search!Start + j) # Search!At(pat, j)
           /\ \A k \in (j + 1)..(Len(pat) - 1) :
                Search!At(str, Search!Start + k) = Search!At(pat, k)
           /\ d1 \in Nat /\ d2 \in Nat
           /\ \/ Search!SkipTo = Search!Start + j + d1 /\ d1 >= d2
              \/ Search!SkipTo = Search!Start + j + d2 /\ d2 >= d1
  <1> DEFINE n == Len(pat)
             o == Search!Start
             M == Search!Mismatches
             j == Search!Max(M)
             d1 == Search!MakeDelta1(pat, Search!At(str, o + j))
             d2 == Search!MakeDelta2(pat, j)
  <1>1. n \in Nat \ {0} /\ n - 1 \in Nat /\ i \in Nat /\ i >= n - 1 /\ i < Len(str)
    BY DEF SearchTyped, Search!Differs
  <1>2. o \in Nat /\ o = i + 1 - n
    BY <1>1 DEF Search!Start
  <1>3. M \in SUBSET (0..(n - 1)) /\ M # {}
    BY DEF Search!Mismatches, Search!Differs, Search!Places
  <1>4. j \in M /\ \A k \in M : k <= j
    <2> HIDE DEF n, M
    <2> QED
      BY <1>1, <1>3, MaxOf
  <1>5. j \in 0..(n - 1) /\ Search!At(str, o + j) # Search!At(pat, j)
    BY <1>4 DEF Search!Mismatches, Search!Places
  <1>6. \A k \in (j + 1)..(n - 1) : Search!At(str, o + k) = Search!At(pat, k)
    <2>1. ASSUME NEW k \in (j + 1)..(n - 1) PROVE k \in 0..(n - 1) /\ k \notin M
      BY <1>4, <1>5
    <2> QED
      BY <2>1 DEF Search!Mismatches, Search!Places
  <1>7. /\ Search!At(str, o + j) \in Search!Chars(str)
        /\ delta1[Search!At(str, o + j)] = d1 /\ delta2[j] = d2
    <2>1. o + j + 1 \in 1..Len(str)
      BY <1>1, <1>2, <1>5
    <2>2. Search!At(str, o + j) \in Search!Chars(str)
      BY <2>1 DEF SearchTyped, Search!At, Search!Chars
    <2> QED
      BY <1>5, <2>2 DEF SearchTyped, Search!Places
  <1>8. d1 \in Nat /\ d2 \in Nat
    <2> HIDE DEF j, o
    <2> QED
      BY <1>1, <1>5, Delta1Allows, Delta2Advances DEF n
  <1>9. Search!SkipTo = o + j + Search!Max({d1, d2})
    BY <1>7 DEF Search!SkipTo
  <1>10. /\ Search!Max({d1, d2}) \in {d1, d2}
         /\ Search!Max({d1, d2}) >= d1 /\ Search!Max({d1, d2}) >= d2
    <2> HIDE DEF d1, d2
    <2>1. CASE d1 >= d2
      <3>1. {d1, d2} \in SUBSET (0..d1)
        BY <1>8, <2>1
      <3> QED
        BY <1>8, <3>1, MaxOf
    <2>2. CASE d2 >= d1
      <3>1. {d1, d2} \in SUBSET (0..d2)
        BY <1>8, <2>2
      <3> QED
        BY <1>8, <3>1, MaxOf
    <2> QED
      BY <1>8, <2>1, <2>2
  <1> HIDE DEF j, o, d1, d2
  <1>11. \/ Search!SkipTo = o + j + d1 /\ d1 >= d2
         \/ Search!SkipTo = o + j + d2 /\ d2 >= d1
    BY <1>9, <1>10
  <1> QED
    BY <1>5, <1>6, <1>8, <1>11 DEF n, o, d1, d2

\* A move of the window is forward, and no further than the next match.
LEMMA SkipIsSafe ==
  ASSUME SearchTyped, NothingPassed, Search!Differs
  PROVE  /\ Search!SkipTo \in Nat /\ Search!SkipTo > i
         /\ \A p \in Search!Matches : Search!SkipTo + 1 - Len(pat) <= p
  <1> DEFINE n == Len(pat)
             o == Search!Start
  <1>1. n \in Nat \ {0} /\ i \in Nat /\ o = i + 1 - n /\ o \in Nat
    BY DEF SearchTyped, Search!Start
  <1>2. PICK j \in 0..(n - 1) :
          LET d1 == Search!MakeDelta1(pat, Search!At(str, o + j))
              d2 == Search!MakeDelta2(pat, j) IN
          /\ Search!At(str, o + j) # Search!At(pat, j)
          /\ \A k \in (j + 1)..(n - 1) : Search!At(str, o + k) = Search!At(pat, k)
          /\ d1 \in Nat /\ d2 \in Nat
          /\ \/ Search!SkipTo = o + j + d1 /\ d1 >= d2
             \/ Search!SkipTo = o + j + d2 /\ d2 >= d1
    BY SkipReads
  <1> DEFINE c == Search!At(str, o + j)
             d1 == Search!MakeDelta1(pat, c)
             d2 == Search!MakeDelta2(pat, j)
             next == Search!SkipTo
  <1>3. /\ c # Search!At(pat, j)
        /\ \A k \in (j + 1)..(n - 1) : Search!At(str, o + k) = Search!At(pat, k)
        /\ d1 \in Nat /\ d2 \in Nat
        /\ (next = o + j + d1 /\ d1 >= d2) \/ (next = o + j + d2 /\ d2 >= d1)
    BY <1>2
  <1>4. j + d2 >= n
    BY <1>1, Delta2Advances
  <1>5. next \in Nat /\ next > i
    <2> HIDE DEF n, o, c, d1, d2, next
    <2> QED
      BY <1>1, <1>3, <1>4
  <1>6. ASSUME NEW p \in Search!Matches PROVE next + 1 - n <= p
    <2>1. /\ p \in Nat /\ p >= o
          /\ \A k \in 0..(n - 1) : Search!At(str, p + k) = Search!At(pat, k)
      BY <1>1 DEF NothingPassed, Search!Matches, Search!Places, SearchTyped
    <2> DEFINE d == p - o
    <2>2. d \in Nat /\ p = o + d
      BY <1>1, <2>1
    <2>3. d # 0
      <3> SUFFICES ASSUME d = 0 PROVE FALSE
        OBVIOUS
      <3>1. p = o
        BY <1>1, <2>1
      <3> QED
        BY <1>3, <2>1, <3>1
    <2> HIDE DEF d
    <2>4. \A k \in 0..(n - 1) : k >= d => Search!At(pat, k - d) = Search!At(str, o + k)
      <3>1. ASSUME NEW k \in 0..(n - 1), k >= d PROVE Search!At(pat, k - d) = Search!At(str, o + k)
        <4>1. k - d \in 0..(n - 1) /\ p + (k - d) = o + k
          BY <1>1, <2>1, <2>2, <3>1
        <4> QED
          BY <2>1, <4>1
      <3> QED
        BY <3>1
    <2>5. \A k \in (j + 1)..(n - 1) : k >= d => Search!At(pat, k - d) = Search!At(pat, k)
      BY <1>1, <1>3, <2>4
    <2>6. d <= j => Search!At(pat, j - d) = c
      BY <2>2, <2>4
    <2>7. j + d2 <= n - 1 + d
      BY <1>1, <1>3, <2>2, <2>3, <2>5, <2>6, Delta2Allows DEF SearchTyped
    <2>8. j + d1 <= n - 1 + d
      <3>1. d1 \in 1..n /\ \A k \in 0..(n - 2) : Search!At(pat, k) = c => d1 <= n - 1 - k
        BY <1>1, Delta1Allows
      <3>2. CASE d <= j
        <4>1. j - d \in 0..(n - 2)
          BY <1>1, <2>2, <2>3, <3>2
        <4>2. d1 <= n - 1 - (j - d)
          BY <2>6, <3>1, <3>2, <4>1
        <4> HIDE DEF d1, n
        <4> QED
          BY <1>1, <1>3, <2>2, <4>1, <4>2
      <3>3. CASE d > j
        <4> HIDE DEF d1, n
        <4> QED
          BY <1>1, <1>3, <2>2, <3>1, <3>3
      <3> QED
        BY <2>2, <3>2, <3>3
    <2> HIDE DEF n, o, c, d1, d2, next
    <2> QED
      BY <1>1, <1>3, <2>2, <2>7, <2>8
  <1> QED
    BY <1>5, <1>6

LEMMA SearchInductive == SearchIInv /\ [Search!Next]_(Search!vars) => SearchIInv'
  <1> SUFFICES ASSUME SearchIInv, [Search!Next]_(Search!vars) PROVE SearchIInv'
    OBVIOUS
  <1>1. ASSUME UNCHANGED <<pat, str, delta1, delta2, i>>
        PROVE  SearchTyped' /\ NothingPassed' /\ Search!Start' = Search!Start
                 /\ Search!Matches' = Search!Matches
    <2>1. SearchTyped'
      BY <1>1 DEF SearchIInv, SearchTyped, Search!Places, Search!Chars
    <2>2. Search!Start' = Search!Start
      BY <1>1 DEF Search!Start
    <2>3. Search!Matches' = Search!Matches
      BY <1>1 DEF Search!Matches, Search!Places, Search!At
    <2> QED
      BY <2>1, <2>2, <2>3 DEF SearchIInv, NothingPassed
  <1>2. CASE Search!Found
    <2>1. UNCHANGED <<pat, str, delta1, delta2, i>> /\ returned' = "match"
      BY <1>2 DEF Search!Found
    <2>2. Search!Start \in Search!Matches
      BY <1>2 DEF SearchIInv, SearchTyped, Search!Found, Search!Start, Search!Matches,
                  Search!Mismatches
    <2> QED
      BY <1>1, <2>1, <2>2 DEF SearchIInv
  <1>3. CASE Search!NotFound
    <2>1. UNCHANGED <<pat, str, delta1, delta2, i>> /\ returned' = "NULL"
      BY <1>3 DEF Search!NotFound
    <2>2. Search!Matches = {}
      BY <1>3 DEF SearchIInv, SearchTyped, NothingPassed, Search!NotFound, Search!Start,
                  Search!Matches
    <2> QED
      BY <1>1, <2>1, <2>2 DEF SearchIInv
  <1>4. CASE Search!Skip
    <2>1. /\ UNCHANGED <<pat, str, delta1, delta2>> /\ returned' = returned /\ returned = "no"
          /\ i' = Search!SkipTo
      BY <1>4 DEF Search!Skip, Search!Differs
    <2>2. /\ Search!SkipTo \in Nat /\ Search!SkipTo > i
          /\ \A p \in Search!Matches : Search!SkipTo + 1 - Len(pat) <= p
      BY <1>4, SkipIsSafe DEF SearchIInv, Search!Skip
    <2>3. SearchTyped'
      BY <2>1, <2>2 DEF SearchIInv, SearchTyped, Search!Places, Search!Chars
    <2>4. Search!Matches' = Search!Matches
      BY <2>1 DEF Search!Matches, Search!Places, Search!At
    <2>5. NothingPassed'
      BY <2>1, <2>2, <2>4 DEF NothingPassed, Search!Start
    <2> QED
      BY <2>1, <2>3, <2>5 DEF SearchIInv
  <1>5. CASE UNCHANGED Search!vars
    <2>1. UNCHANGED <<pat, str, delta1, delta2, i>> /\ returned' = returned
      BY <1>5 DEF Search!vars
    <2> QED
      BY <1>1, <2>1 DEF SearchIInv
  <1> QED
    BY <1>2, <1>3, <1>4, <1>5 DEF Search!Next

\* bm_search with its tables, for every text and every pattern of which no suffix
\* is a prefix, as that of verify_trustzone: no move of the window passes a
\* match, what is found is the first, NULL means that there is none, and the
\* window only moves forward.
THEOREM SearchFindsFirst == Search!Spec => []FirstMatch
  <1>1. SearchIInv => FirstMatch
    BY SkipIsSafe DEF SearchIInv, NothingPassed, FirstMatch, Search!FirstMatch
  <1> QED
    BY SearchInitial, SearchInductive, <1>1, PTL DEF Search!Spec


(***************************************************************************)
(* NmeaGsv.  Of one report, list, and one system, s: the places of the     *)
(* system's satellites from a place on, how many there are, and how many   *)
(* sentences they need.                                                    *)
(***************************************************************************)
View(list, s, from) == {n \in from..Len(list) : Gsv!SystemOf(list[n]) = s}
Total(list, s) == Cardinality(View(list, s, 1))
Rows(list, s) == Total(list, s) \div 4 + (IF Total(list, s) % 4 # 0 THEN 1 ELSE 0)

Row == [count : Nat, number : Nat, view : Nat, svs : SUBSET Nat]

\* The nth of the sentences is right, and after those before it.
RowIsRight(list, s, of, n) ==
  /\ of[n].number = n /\ of[n].count = Rows(list, s) /\ of[n].view = Total(list, s)
  /\ Cardinality(of[n].svs) <= 4
  /\ n < Rows(list, s) => Cardinality(of[n].svs) = 4
  /\ \A m \in 1..(n - 1) : \A a \in of[m].svs, b \in of[n].svs : a < b

\* Before sentence number is made, from next on: the satellites before next are
\* in the sentences made, and those left are what the sentences left can hold.
Filling(list, s, of, next, number) ==
  /\ of \in Seq(Row) /\ next \in Nat \ {0} /\ number \in Nat \ {0}
  /\ number = 1 => next = 1
  /\ Len(of) = number - 1
  /\ number <= Rows(list, s) + 1
  /\ Cardinality(View(list, s, next)) =
       IF number <= Rows(list, s) THEN Total(list, s) - 4 * (number - 1) ELSE 0
  /\ UNION {of[n].svs : n \in DOMAIN of} = {m \in View(list, s, 1) : m < next}
  /\ \A n \in DOMAIN of : RowIsRight(list, s, of, n)

\* What GsvIsPartition says of one system.
Parted(list, s, of) ==
  /\ of # <<>>
  /\ UNION {of[n].svs : n \in DOMAIN of} = View(list, s, 1)
  /\ \A n \in DOMAIN of :
       /\ of[n].number = n /\ of[n].count = Len(of) /\ of[n].view = Total(list, s)
       /\ Cardinality(of[n].svs) <= 4
       /\ n < Len(of) => Cardinality(of[n].svs) = 4
       /\ \A m \in 1..(n - 1) : \A a \in of[m].svs, b \in of[n].svs : a < b

GsvIInv ==
  /\ prns \in Seq(Nat)
  /\ system \in 1..3
  /\ DOMAIN sent = {"GPS", "GLONASS"}
  /\ system = 1 => /\ Filling(prns, "GPS", sent["GPS"], svNumber, sentenceNumber)
                   /\ sent["GLONASS"] = <<>>
  /\ system = 2 => /\ Parted(prns, "GPS", sent["GPS"])
                   /\ Filling(prns, "GLONASS", sent["GLONASS"], svNumber, sentenceNumber)
  /\ system = 3 => /\ Parted(prns, "GPS", sent["GPS"])
                   /\ Parted(prns, "GLONASS", sent["GLONASS"])

\* The satellites in view are finitely many, and need a quarter as many sentences.
LEMMA ViewIsFinite ==
  ASSUME NEW list \in Seq(Nat), NEW s, NEW from \in Nat
  PROVE  /\ IsFiniteSet(View(list, s, from)) /\ Cardinality(View(list, s, from)) \in Nat
         /\ View(list, s, from) \subseteq Nat
  <1>1. Len(list) \in Int /\ from \in Int
    OBVIOUS
  <1>2. IsFiniteSet(from..Len(list))
    BY <1>1, FS_Interval
  <1>3. View(list, s, from) \in SUBSET (from..Len(list))
    BY DEF View
  <1>4. IsFiniteSet(View(list, s, from))
    BY <1>2, <1>3, FS_Subset
  <1> QED
    BY <1>1, <1>3, <1>4, FS_CardinalityType

LEMMA RowsHoldAll ==
  ASSUME NEW list \in Seq(Nat), NEW s
  PROVE  /\ Total(list, s) \in Nat /\ Rows(list, s) \in Nat
         /\ Total(list, s) <= 4 * Rows(list, s)
         /\ Total(list, s) > 0 => 4 * (Rows(list, s) - 1) < Total(list, s)
         /\ Total(list, s) = 0 => Rows(list, s) = 0
  <1>1. Total(list, s) \in Nat
    BY ViewIsFinite DEF Total
  <1> QED
    BY <1>1 DEF Rows

LEMMA FillStart ==
  ASSUME NEW list \in Seq(Nat), NEW s
  PROVE  Filling(list, s, <<>>, 1, 1)
  <1>1. {m \in View(list, s, 1) : m < 1} = {}
    BY ViewIsFinite DEF View
  <1>2. Cardinality(View(list, s, 1)) = Total(list, s)
    BY DEF Total
  <1>3. UNION {<<>>[n].svs : n \in DOMAIN <<>>} = {}
    OBVIOUS
  <1> QED
    BY <1>1, <1>2, <1>3, RowsHoldAll DEF Filling

\* One sentence more: the four next satellites, or all that are left.
LEMMA FillStep ==
  ASSUME NEW list \in Seq(Nat), NEW s, NEW of, NEW next, NEW number,
         Filling(list, s, of, next, number), number <= Rows(list, s),
         NEW last \in View(list, s, next), NEW svs,
         svs = {n \in View(list, s, next) : n <= last},
         Cardinality(svs) = 4 \/ (Cardinality(svs) < 4 /\ svs = View(list, s, next)),
         NEW row, row = [count |-> Rows(list, s), number |-> number,
                         view |-> Total(list, s), svs |-> svs],
         NEW after, after = IF Cardinality(svs) = 4 THEN last + 1 ELSE Len(list) + 1
  PROVE  Filling(list, s, Append(of, row), after, number + 1)
  <1> DEFINE left == View(list, s, next)
             new  == Append(of, row)
             rows == Rows(list, s)
             total == Total(list, s)
  <1>1. /\ of \in Seq(Row) /\ next \in Nat \ {0} /\ number \in Nat \ {0}
        /\ Len(of) = number - 1
        /\ Cardinality(left) = total - 4 * (number - 1)
        /\ UNION {of[n].svs : n \in DOMAIN of} = {m \in View(list, s, 1) : m < next}
        /\ \A n \in DOMAIN of : RowIsRight(list, s, of, n)
    BY DEF Filling
  <1>2. /\ rows \in Nat /\ total \in Nat
        /\ total <= 4 * rows /\ (total > 0 => 4 * (rows - 1) < total)
        /\ (total = 0 => rows = 0)
    BY RowsHoldAll
  <1>3. IsFiniteSet(left) /\ Cardinality(left) \in Nat /\ left \subseteq Nat
    BY <1>1, ViewIsFinite
  <1>4. /\ svs \in SUBSET left /\ IsFiniteSet(svs) /\ Cardinality(svs) \in Nat
        /\ Cardinality(svs) <= Cardinality(left)
    BY <1>3, FS_Subset, FS_CardinalityType
  <1>5. last \in Nat /\ last >= next /\ last <= Len(list) /\ Len(list) \in Nat
    BY <1>1, <1>3 DEF View
  <1>6. View(list, s, after) = left \ svs
    <2>1. CASE Cardinality(svs) = 4
      BY <1>1, <1>5, <2>1 DEF View
    <2>2. CASE Cardinality(svs) # 4
      <3>1. svs = left /\ after = Len(list) + 1
        BY <2>2
      <3>2. View(list, s, Len(list) + 1) = {}
        BY <1>5 DEF View
      <3>3. left \ svs = {}
        BY <3>1
      <3> QED
        BY <3>1, <3>2, <3>3
    <2> QED
      BY <2>1, <2>2
  <1>7. Cardinality(View(list, s, after)) = Cardinality(left) - Cardinality(svs)
    <2>1. left \cap svs = svs
      BY <1>4
    <2> HIDE DEF left
    <2>2. Cardinality(left \ svs) = Cardinality(left) - Cardinality(left \cap svs)
      BY <1>3, FS_Difference
    <2> QED
      BY <1>6, <2>1, <2>2
  <1>8. /\ Cardinality(View(list, s, after)) =
             IF number + 1 <= rows THEN total - 4 * number ELSE 0
        /\ Cardinality(svs) <= 4 /\ (number < rows => Cardinality(svs) = 4)
    <2>1. svs = left => Cardinality(svs) = Cardinality(left)
      OBVIOUS
    <2>2. Cardinality(svs) = 4 \/ (Cardinality(svs) < 4 /\ Cardinality(svs) = Cardinality(left))
      OBVIOUS
    <2>3. number <= rows
      OBVIOUS
    <2> HIDE DEF left, rows, total
    <2>4. CASE number < rows
      BY <1>1, <1>2, <1>3, <1>4, <1>7, <2>2, <2>4
    <2>5. CASE number = rows
      BY <1>1, <1>2, <1>3, <1>4, <1>7, <2>2, <2>5
    <2> QED
      BY <1>1, <1>2, <2>3, <2>4, <2>5
  <1>9. /\ row \in Row /\ new \in Seq(Row) /\ Len(new) = number
        /\ DOMAIN new = DOMAIN of \cup {number} /\ DOMAIN of = 1..(number - 1)
        /\ new[number] = row /\ \A n \in DOMAIN of : new[n] = of[n]
    <2>1. row \in Row
      BY <1>1, <1>2, <1>3, <1>4 DEF Row
    <2> QED
      BY <1>1, <2>1
  <1>10. row.svs = svs /\ row.number = number /\ row.count = rows /\ row.view = total
    OBVIOUS
  <1>11. UNION {new[n].svs : n \in DOMAIN new}
           = (UNION {of[n].svs : n \in DOMAIN of}) \cup svs
    <2> HIDE DEF new
    <2>1. ASSUME NEW n \in DOMAIN new
          PROVE  new[n].svs \subseteq (UNION {of[m].svs : m \in DOMAIN of}) \cup svs
      <3>1. CASE n \in DOMAIN of
        BY <1>9, <3>1
      <3>2. CASE n = number
        <4>1. new[n] = row
          BY <1>9, <3>2
        <4>2. new[n].svs = svs
          BY <1>10, <4>1
        <4> QED
          BY <4>2
      <3> QED
        BY <1>9, <2>1, <3>1, <3>2
    <2>2. ASSUME NEW m \in DOMAIN of
          PROVE  of[m].svs \subseteq UNION {new[n].svs : n \in DOMAIN new}
      BY <1>9, <2>2
    <2>3. svs \subseteq UNION {new[n].svs : n \in DOMAIN new}
      BY <1>9, <1>10
    <2> DEFINE made == UNION {of[m].svs : m \in DOMAIN of}
               all  == UNION {new[n].svs : n \in DOMAIN new}
    <2>4. all \subseteq made \cup svs
      BY <2>1
    <2>5. made \subseteq all /\ svs \subseteq all
      BY <2>2, <2>3
    <2>6. all = made \cup svs
      <3> HIDE DEF all, made
      <3> QED
        BY <2>4, <2>5
    <2> QED
      BY <2>6
  <1>12. {m \in View(list, s, 1) : m < next} \cup svs = {m \in View(list, s, 1) : m < after}
    <2>1. ASSUME NEW m \in View(list, s, 1), m < after, ~(m < next)
          PROVE  m \in svs
      <3>1. m \in left
        BY <1>1, <2>1 DEF View
      <3>2. m \notin View(list, s, after)
        BY <1>5, <2>1 DEF View
      <3> QED
        BY <1>6, <3>1, <3>2
    <2>2. ASSUME NEW m \in svs
          PROVE  m \in View(list, s, 1) /\ m < after
      BY <1>1, <1>5 DEF View
    <2>3. next <= after
      BY <1>1, <1>5
    <2>4. ASSUME NEW m \in View(list, s, 1), m < next
          PROVE  m < after
      BY <1>1, <1>5, <2>3, <2>4 DEF View
    <2> QED
      BY <2>1, <2>2, <2>4
  <1>13. ASSUME NEW n \in DOMAIN new
         PROVE  RowIsRight(list, s, new, n)
    <2>1. CASE n \in DOMAIN of
      <3>1. RowIsRight(list, s, of, n) /\ new[n] = of[n]
        BY <1>1, <1>9, <2>1
      <3>2. \A m \in 1..(n - 1) : m \in DOMAIN of /\ new[m] = of[m]
        BY <1>1, <1>9, <2>1
      <3> HIDE DEF new
      <3> QED
        BY <3>1, <3>2 DEF RowIsRight
    <2>2. CASE n = number
      <3>1. ASSUME NEW m \in 1..(n - 1), NEW a \in new[m].svs, NEW b \in new[n].svs
            PROVE  a < b
        <4>1. m \in DOMAIN of /\ new[m] = of[m]
          BY <1>1, <1>9, <2>2
        <4>2. a \in UNION {of[k].svs : k \in DOMAIN of}
          BY <4>1, <3>1
        <4>3. a \in {k \in View(list, s, 1) : k < next}
          BY <1>1, <4>2
        <4>4. b \in left
          BY <1>4, <1>9, <1>10, <2>2, <3>1
        <4>5. b >= next /\ b \in Nat
          BY <1>1, <1>3, <4>4 DEF View
        <4> QED
          BY <1>1, <4>3, <4>5, ViewIsFinite
      <3>2. /\ new[n].number = n /\ new[n].count = rows /\ new[n].view = total
            /\ Cardinality(new[n].svs) <= 4
            /\ n < rows => Cardinality(new[n].svs) = 4
        BY <1>8, <1>9, <1>10, <2>2
      <3> HIDE DEF new
      <3> QED
        BY <3>1, <3>2 DEF RowIsRight
    <2> QED
      BY <1>9, <2>1, <2>2
  <1>14. after \in Nat \ {0} /\ number + 1 \in Nat \ {0} /\ number + 1 # 1
    BY <1>1, <1>5
  <1>15. number + 1 <= rows + 1
    BY <1>1, <1>2
  <1>16. Cardinality(View(list, s, after)) =
           IF number + 1 <= rows THEN total - 4 * ((number + 1) - 1) ELSE 0
    BY <1>1, <1>2, <1>8
  <1>17. Len(new) = (number + 1) - 1
    BY <1>1, <1>9
  <1>18. UNION {new[n].svs : n \in DOMAIN new} = {m \in View(list, s, 1) : m < after}
    <2>1. UNION {of[n].svs : n \in DOMAIN of} = {m \in View(list, s, 1) : m < next}
      BY <1>1
    <2> DEFINE before == {m \in View(list, s, 1) : m < next}
               upTo   == {m \in View(list, s, 1) : m < after}
               made   == UNION {of[n].svs : n \in DOMAIN of}
               all    == UNION {new[n].svs : n \in DOMAIN new}
    <2>2. all = made \cup svs /\ before \cup svs = upTo /\ made = before
      BY <1>11, <1>12, <2>1, Zenon
    <2>3. all = upTo
      <3> HIDE DEF all, upTo, made, before
      <3> QED
        BY <2>2
    <2> QED
      BY <2>3
  <1> HIDE DEF new
  <1>19. Filling(list, s, new, after, number + 1)
    BY <1>9, <1>13, <1>14, <1>15, <1>16, <1>17, <1>18 DEF Filling
  <1> QED
    BY <1>19 DEF new

\* All sentences are made when the last one is.
LEMMA FillEnd ==
  ASSUME NEW list \in Seq(Nat), NEW s, NEW of, NEW next, NEW number,
         Filling(list, s, of, next, number), Total(list, s) > 0, number > Rows(list, s)
  PROVE  Parted(list, s, of)
  <1>1. /\ Total(list, s) \in Nat /\ Rows(list, s) \in Nat
        /\ Total(list, s) <= 4 * Rows(list, s)
    BY RowsHoldAll
  <1>2. /\ number \in Nat /\ next \in Nat \ {0} /\ Len(of) = number - 1
        /\ number <= Rows(list, s) + 1
        /\ Cardinality(View(list, s, next)) = 0
    BY <1>1 DEF Filling
  <1>3. Len(of) = Rows(list, s) /\ Len(of) > 0 /\ of # <<>>
    BY <1>1, <1>2 DEF Filling
  <1>4. View(list, s, next) = {}
    BY <1>2, ViewIsFinite, FS_EmptySet
  <1>5. {m \in View(list, s, 1) : m < next} = View(list, s, 1)
    BY <1>2, <1>4 DEF View
  <1> QED
    BY <1>3, <1>5 DEF Filling, Parted, RowIsRight

\* Without satellites no sentence is made but the blank one.
LEMMA FillNothing ==
  ASSUME NEW list \in Seq(Nat), NEW s, NEW of, NEW next, NEW number,
         Filling(list, s, of, next, number), Total(list, s) = 0
  PROVE  of = <<>> /\ next = 1 /\ number = 1
  BY RowsHoldAll DEF Filling

LEMMA BlankIsParted ==
  ASSUME NEW list \in Seq(Nat), NEW s, Total(list, s) = 0, NEW of,
         of = Append(<<>>, [count |-> 1, number |-> 1, view |-> 0, svs |-> {}])
  PROVE  Parted(list, s, of)
  <1>1. View(list, s, 1) = {}
    BY ViewIsFinite, FS_EmptySet DEF Total
  <1>2. /\ of # <<>> /\ Len(of) = 1 /\ DOMAIN of = {1}
        /\ of[1].number = 1 /\ of[1].count = 1 /\ of[1].view = 0 /\ of[1].svs = {}
    OBVIOUS
  <1>3. UNION {of[n].svs : n \in DOMAIN of} = {}
    BY <1>2
  <1>4. Cardinality({}) = 0
    BY FS_EmptySet
  <1>5. Total(list, s) = 0
    OBVIOUS
  <1>6. ASSUME NEW n \in DOMAIN of
        PROVE  /\ of[n].number = n /\ of[n].count = Len(of) /\ of[n].view = Total(list, s)
               /\ Cardinality(of[n].svs) <= 4
               /\ n < Len(of) => Cardinality(of[n].svs) = 4
               /\ \A m \in 1..(n - 1) : \A a \in of[m].svs, b \in of[n].svs : a < b
    <2>1. n = 1 /\ 1..(n - 1) = {}
      BY <1>2, <1>6
    <2>2. /\ of[n].number = n /\ of[n].count = Len(of) /\ of[n].view = Total(list, s)
          /\ of[n].svs = {}
      BY <1>2, <1>5, <2>1
    <2>3. Cardinality(of[n].svs) = 0
      BY <1>4, <2>2
    <2>4. ~(n < Len(of))
      BY <1>2, <2>1
    <2> QED
      BY <2>1, <2>2, <2>3, <2>4
  <1> QED
    BY <1>1, <1>2, <1>3, <1>6 DEF Parted

\* The module counts with the operator of FiniteSets.
LEMMA GsvCardinality ==
  ASSUME NEW S
  PROVE  Gsv!Cardinality(S) = Cardinality(S)
  BY Zenon DEF Gsv!Cardinality, Cardinality

\* The operators of the module are those of its report.
LEMMA GsvOperators ==
  ASSUME NEW s
  PROVE  /\ \A from : Gsv!InView(s, from) = View(prns, s, from)
         /\ Gsv!Count(s) = Total(prns, s) /\ Gsv!SentenceCount(s) = Rows(prns, s)
  <1>1. \A from : Gsv!InView(s, from) = View(prns, s, from)
    BY DEF Gsv!InView, View
  <1>2. Gsv!Count(s) = Total(prns, s)
    BY GsvCardinality DEF Gsv!Count, Total, Gsv!InView, View
  <1> QED
    BY <1>1, <1>2 DEF Gsv!SentenceCount, Rows

\* What a system does is seen with its name.
LEMMA CurrentIs ==
  /\ Len(Gsv!Systems) = 2 /\ DOMAIN Gsv!Systems = {1, 2}
  /\ system = 1 => Gsv!Current = "GPS"
  /\ system = 2 => Gsv!Current = "GLONASS"
  BY DEF Gsv!Current, Gsv!Systems

LEMMA GsvInitial == Gsv!Init => GsvIInv
  <1> SUFFICES ASSUME Gsv!Init
               PROVE  GsvIInv
    OBVIOUS
  <1>1. /\ prns \in Seq(Nat) /\ system = 1 /\ svNumber = 1 /\ sentenceNumber = 1
        /\ DOMAIN sent = {"GPS", "GLONASS"} /\ sent["GPS"] = <<>> /\ sent["GLONASS"] = <<>>
    BY ReportsAssumption DEF Gsv!Init
  <1>2. Filling(prns, "GPS", sent["GPS"], svNumber, sentenceNumber)
    BY <1>1, FillStart
  <1> QED
    BY <1>1, <1>2 DEF GsvIInv

\* What a step makes of the current system keeps the invariant.
LEMMA GsvFills ==
  ASSUME GsvIInv, system \in {1, 2}, prns' = prns, system' = system,
         NEW of, sent'[Gsv!Current] = of, DOMAIN sent' = DOMAIN sent,
         \A s \in DOMAIN sent : s # Gsv!Current => sent'[s] = sent[s],
         Filling(prns, Gsv!Current, of, svNumber', sentenceNumber')
  PROVE  GsvIInv'
  <1>1. CASE system = 1
    <2>1. /\ sent'["GPS"] = of /\ sent'["GLONASS"] = sent["GLONASS"]
          /\ DOMAIN sent' = DOMAIN sent /\ Gsv!Current = "GPS"
      BY <1>1, CurrentIs DEF GsvIInv
    <2> QED
      BY <1>1, <2>1 DEF GsvIInv
  <1>2. CASE system = 2
    <2>1. /\ sent'["GLONASS"] = of /\ sent'["GPS"] = sent["GPS"]
          /\ DOMAIN sent' = DOMAIN sent /\ Gsv!Current = "GLONASS"
      BY <1>2, CurrentIs DEF GsvIInv
    <2> QED
      BY <1>2, <2>1 DEF GsvIInv
  <1> QED
    BY <1>1, <1>2

LEMMA GsvGoesOn ==
  ASSUME GsvIInv, system \in {1, 2}, prns' = prns, system' = system + 1,
         svNumber' = 1, sentenceNumber' = 1,
         NEW of, sent'[Gsv!Current] = of, DOMAIN sent' = DOMAIN sent,
         \A s \in DOMAIN sent : s # Gsv!Current => sent'[s] = sent[s],
         Parted(prns, Gsv!Current, of)
  PROVE  GsvIInv'
  <1>1. CASE system = 1
    <2>1. /\ sent'["GPS"] = of /\ sent'["GLONASS"] = <<>>
          /\ DOMAIN sent' = DOMAIN sent /\ Gsv!Current = "GPS"
      BY <1>1, CurrentIs DEF GsvIInv
    <2>2. Filling(prns, "GLONASS", <<>>, 1, 1)
      BY FillStart DEF GsvIInv
    <2> QED
      BY <1>1, <2>1, <2>2 DEF GsvIInv
  <1>2. CASE system = 2
    <2>1. /\ sent'["GLONASS"] = of /\ sent'["GPS"] = sent["GPS"]
          /\ DOMAIN sent' = DOMAIN sent /\ Gsv!Current = "GLONASS"
      BY <1>2, CurrentIs DEF GsvIInv
    <2> QED
      BY <1>2, <2>1 DEF GsvIInv
  <1> QED
    BY <1>1, <1>2

LEMMA GsvInductive == GsvIInv /\ [Gsv!Next]_(Gsv!vars) => GsvIInv'
  <1> SUFFICES ASSUME GsvIInv, [Gsv!Next]_(Gsv!vars)
               PROVE  GsvIInv'
    OBVIOUS
  <1>1. prns \in Seq(Nat) /\ system \in 1..3 /\ DOMAIN sent = {"GPS", "GLONASS"}
    BY DEF GsvIInv
  <1>2. system <= 2 => /\ system \in {1, 2} /\ Gsv!Current \in DOMAIN sent
                       /\ Filling(prns, Gsv!Current, sent[Gsv!Current], svNumber, sentenceNumber)
    <2>1. system <= 2 => system = 1 \/ system = 2
      BY <1>1
    <2> QED
      BY <1>1, <2>1, CurrentIs DEF GsvIInv
  <1>3. CASE Gsv!Blank
    <2>1. /\ system <= 2 /\ Total(prns, Gsv!Current) = 0
          /\ UNCHANGED <<prns, svNumber, sentenceNumber>> /\ system' = system + 1
          /\ sent' = [sent EXCEPT ![Gsv!Current] =
                        Append(@, [count |-> 1, number |-> 1, view |-> 0, svs |-> {}])]
      BY <1>3, GsvOperators, CurrentIs DEF Gsv!Blank, Gsv!Send
    <2>2. sent[Gsv!Current] = <<>> /\ svNumber = 1 /\ sentenceNumber = 1
      BY <1>1, <1>2, <2>1, FillNothing
    <2> DEFINE of == Append(<<>>, [count |-> 1, number |-> 1, view |-> 0, svs |-> {}])
    <2>3. Parted(prns, Gsv!Current, of)
      BY <1>1, <2>1, BlankIsParted
    <2>4. /\ sent'[Gsv!Current] = of /\ DOMAIN sent' = DOMAIN sent
          /\ \A s \in DOMAIN sent : s # Gsv!Current => sent'[s] = sent[s]
      BY <1>2, <2>1, <2>2
    <2> HIDE DEF of
    <2> QED
      BY <1>2, <2>1, <2>2, <2>3, <2>4, GsvGoesOn
  <1>4. CASE Gsv!Sentence
    <2>1. /\ system <= 2 /\ sentenceNumber <= Rows(prns, Gsv!Current)
          /\ sentenceNumber' = sentenceNumber + 1 /\ UNCHANGED <<prns, system>>
      BY <1>4, GsvOperators, CurrentIs DEF Gsv!Sentence
    <2> DEFINE left      == View(prns, Gsv!Current, svNumber)
               upTo(l)   == {n \in left : n <= l}
               row(l)    == [count |-> Rows(prns, Gsv!Current), number |-> sentenceNumber,
                             view |-> Total(prns, Gsv!Current), svs |-> upTo(l)]
    <2>2. /\ Gsv!InView(Gsv!Current, svNumber) = left
          /\ Gsv!SentenceCount(Gsv!Current) = Rows(prns, Gsv!Current)
          /\ Gsv!Count(Gsv!Current) = Total(prns, Gsv!Current)
      BY GsvOperators
    <2>3. PICK last \in left :
            /\ Cardinality(upTo(last)) = 4 \/ (Cardinality(upTo(last)) < 4 /\ upTo(last) = left)
            /\ Gsv!Send(row(last)) /\ svNumber' = Gsv!After(upTo(last), last)
      BY <1>4, <2>2, GsvCardinality DEF Gsv!Sentence
    <2> DEFINE svs == upTo(last)
               of  == Append(sent[Gsv!Current], row(last))
    <2>4. svNumber' = IF Cardinality(svs) = 4 THEN last + 1 ELSE Len(prns) + 1
      BY <2>3, GsvCardinality DEF Gsv!After
    <2>5. /\ sent'[Gsv!Current] = of /\ DOMAIN sent' = DOMAIN sent
          /\ \A s \in DOMAIN sent : s # Gsv!Current => sent'[s] = sent[s]
      <3>1. sent' = [sent EXCEPT ![Gsv!Current] = Append(@, row(last))]
        BY <2>3 DEF Gsv!Send
      <3> HIDE DEF row
      <3> QED
        BY <1>2, <2>1, <3>1
    <2>6. Filling(prns, Gsv!Current, of, svNumber', sentenceNumber + 1)
      <3>1. /\ svs = {n \in View(prns, Gsv!Current, svNumber) : n <= last}
            /\ last \in View(prns, Gsv!Current, svNumber)
            /\ Cardinality(svs) = 4
               \/ (Cardinality(svs) < 4 /\ svs = View(prns, Gsv!Current, svNumber))
        BY <2>3
      <3>2. row(last) = [count |-> Rows(prns, Gsv!Current), number |-> sentenceNumber,
                         view |-> Total(prns, Gsv!Current), svs |-> svs]
        OBVIOUS
      <3>3. /\ Filling(prns, Gsv!Current, sent[Gsv!Current], svNumber, sentenceNumber)
            /\ sentenceNumber <= Rows(prns, Gsv!Current)
        BY <1>2, <2>1
      <3> HIDE DEF svs, row, left, upTo
      <3>4. Filling(prns, Gsv!Current, Append(sent[Gsv!Current], row(last)),
                    IF Cardinality(svs) = 4 THEN last + 1 ELSE Len(prns) + 1,
                    sentenceNumber + 1)
        BY <1>1, <3>1, <3>2, <3>3, FillStep
      <3> QED
        BY <2>4, <3>4
    <2> HIDE DEF of
    <2> QED
      BY <1>2, <2>1, <2>5, <2>6, GsvFills
  <1>5. CASE Gsv!NextSystem
    <2>1. /\ system <= 2 /\ Total(prns, Gsv!Current) > 0
          /\ sentenceNumber > Rows(prns, Gsv!Current)
          /\ svNumber' = 1 /\ sentenceNumber' = 1
          /\ UNCHANGED <<prns, sent>> /\ system' = system + 1
      BY <1>5, GsvOperators, CurrentIs DEF Gsv!NextSystem
    <2>2. Parted(prns, Gsv!Current, sent[Gsv!Current])
      BY <1>1, <1>2, <2>1, FillEnd
    <2> QED
      BY <1>2, <2>1, <2>2, GsvGoesOn
  <1>6. CASE UNCHANGED Gsv!vars
    BY <1>6 DEF Gsv!vars, GsvIInv
  <1> QED
    BY <1>3, <1>4, <1>5, <1>6 DEF Gsv!Next

\* loc_eng_nmea_generate_sv, for every report: the sentences of each system hold
\* every satellite of it once and no other, four to a sentence and in order, and
\* their headers are right.
THEOREM SatellitesArePartitioned == Gsv!Spec => []GsvIsPartition
  <1>1. GsvIInv => GsvIsPartition
    <2> SUFFICES ASSUME GsvIInv
                 PROVE  Gsv!GsvIsPartition
      BY DEF GsvIsPartition
    <2>1. ASSUME system > 2, NEW k \in {1, 2}, NEW s, s = Gsv!Systems[k]
          PROVE  /\ sent[s] # <<>>
                 /\ UNION {sent[s][n].svs : n \in DOMAIN sent[s]} = Gsv!InView(s, 1)
                 /\ \A n \in DOMAIN sent[s] :
                      /\ sent[s][n].number = n /\ sent[s][n].count = Len(sent[s])
                      /\ sent[s][n].view = Gsv!Count(s)
                      /\ Gsv!Cardinality(sent[s][n].svs) <= 4
                      /\ n < Len(sent[s]) => Gsv!Cardinality(sent[s][n].svs) = 4
                      /\ \A m \in 1..(n - 1) :
                           \A a \in sent[s][m].svs, b \in sent[s][n].svs : a < b
      <3>1. Parted(prns, s, sent[s])
        BY <2>1 DEF GsvIInv, Gsv!Systems
      <3>2. Gsv!InView(s, 1) = View(prns, s, 1) /\ Gsv!Count(s) = Total(prns, s)
        BY GsvOperators
      <3> QED
        BY <3>1, <3>2, GsvCardinality DEF Parted
    <2> QED
      BY <2>1, CurrentIs DEF Gsv!GsvIsPartition
  <1> QED
    BY GsvInitial, GsvInductive, <1>1, PTL DEF Gsv!Spec
=============================================================================
