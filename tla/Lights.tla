------------------------------- MODULE Lights -------------------------------
(***************************************************************************)
(* The lights of liblight/lights.c.  Attention, notifications and battery  *)
(* share one LED: each call stores the state of its light and then writes  *)
(* the pattern of the most important light that is lit, both under g_lock. *)
(* The backlight has a file of its own.  Calls come from the threads of    *)
(* different services, one call at a time for each light.                  *)
(***************************************************************************)
EXTENDS Integers

Channels == 0..255

CONSTANTS
  Colors,  \* what the LED may be asked to show
  Lit,     \* those with a colour in their 24 bits: is_lit
  Delays,  \* flashOnMS and flashOffMS, taken to be equal
  Screens  \* what the backlight may be asked to show

ASSUME LightsAssumption ==
  /\ Lit \subseteq Colors
  /\ 0 \in Colors \ Lit
  /\ 0 \in Delays /\ Delays \subseteq Nat
  /\ Screens \subseteq [r : Channels, g : Channels, b : Channels]

Sources == {"attention", "notification", "battery"}
Holders == Sources \cup {"backlight"}

VARIABLES
  globals,     \* g_attention, g_notification, g_battery
  g_lock,      \* who holds the lock
  brightness,  \* of the call for the backlight in progress; Idle without one
  led,         \* the pattern in PTN_BLINK_FILE
  lcd,         \* the brightness in LCD_FILE
  wanted,      \* history: what the last call for the backlight asked for
  stale        \* history: the files whose last write failed

vars == <<globals, g_lock, brightness, led, lcd, wanted, stale>>

States == [color : Colors, flashMode : {"NONE", "TIMED"}, ms : Delays]
Off == [color |-> 0, flashMode |-> "NONE", ms |-> 0]
Black == [r |-> 0, g |-> 0, b |-> 0]
Idle == -1

\* Mutant: weights that do not add up to 256.
BrightnessOf255(screen) == (77 * screen.r + 150 * screen.g + 28 * screen.b) \div 256

\* rgb_to_brightness.
Brightness(screen) == (77 * screen.r + 150 * screen.g + 29 * screen.b) \div 256

Init ==
  /\ globals = [s \in Sources |-> Off]
  /\ g_lock = "free"
  /\ led = [color |-> 0, ms |-> -1]
  /\ brightness = Idle
  /\ lcd = 0 /\ wanted = Black
  /\ stale = {}

\* set_speaker_light_locked: a light that does not blink has -1 for its times.
Pattern(light) ==
  [color |-> light.color, ms |-> IF light.flashMode = "TIMED" THEN light.ms ELSE -1]

IsLit(s) == globals[s].color \in Lit

\* handle_led_prioritized_locked.
Prioritized ==
  IF IsLit("attention") THEN "attention"
  ELSE IF IsLit("notification") THEN "notification"
  ELSE IF IsLit("battery") THEN "battery"
  ELSE "notification"

\* Mutant: an attention without times is stored as it is.
StoredAsIs(s, light) == light

\* "turns off the attention light by setting flashOnMS = flashOffMS = 0".
Stored(s, light) ==
  IF s = "attention" /\ light.ms = 0 THEN [light EXCEPT !.color = 0] ELSE light

Guarded == g_lock = "free"

\* set_light_attention, set_light_notifications, set_light_battery, up to the
\* write.
SetLight(s, light) ==
  /\ Guarded
  /\ g_lock' = s
  /\ globals' = [globals EXCEPT ![s] = Stored(s, light)]
  /\ UNCHANGED <<brightness, led, lcd, wanted, stale>>

\* The write may fail; nobody is told.
WriteLed ==
  /\ g_lock \in Sources
  /\ \/ led' = Pattern(globals[Prioritized]) /\ stale' = stale \ {"led"}
     \/ stale' = stale \cup {"led"} /\ UNCHANGED led
  /\ g_lock' = "free"
  /\ UNCHANGED <<globals, brightness, lcd, wanted>>

\* set_light_backlight works out the brightness before it takes the lock: the
\* calls for the LED come in between.
SetBacklight(screen) ==
  /\ brightness = Idle
  /\ brightness' = Brightness(screen)
  /\ wanted' = screen
  /\ UNCHANGED <<globals, g_lock, led, lcd, stale>>

LockBacklight ==
  /\ brightness # Idle /\ Guarded
  /\ g_lock' = "backlight"
  /\ UNCHANGED <<globals, brightness, led, lcd, wanted, stale>>

\* The caller gets the error.
WriteLcd ==
  /\ g_lock = "backlight"
  /\ \/ lcd' = brightness /\ stale' = stale \ {"lcd"}
     \/ stale' = stale \cup {"lcd"} /\ UNCHANGED lcd
  /\ g_lock' = "free"
  /\ brightness' = Idle
  /\ UNCHANGED <<globals, led, wanted>>

Next ==
  \/ \E s \in Sources, light \in States : SetLight(s, light)
  \/ WriteLed
  \/ \E screen \in Screens : SetBacklight(screen)
  \/ LockBacklight \/ WriteLcd

Spec == Init /\ [][Next]_vars

(***************************************************************************)
(* Properties                                                              *)
(***************************************************************************)
TypeOK ==
  /\ globals \in [Sources -> States]
  /\ g_lock \in Holders \cup {"free"}
  /\ led \in [color : Colors, ms : Delays \cup {-1}]
  /\ brightness \in Channels \cup {Idle} /\ lcd \in Channels
  /\ wanted \in Screens \cup {Black}
  /\ stale \subseteq {"led", "lcd"}

Shown(s) == led = Pattern(globals[s])

\* Between two calls the LED shows the lit light of the highest priority, and
\* none if none is lit, however the calls of the services interleave.
LedShowsHighest ==
  g_lock = "free" /\ "led" \notin stale =>
    /\ IsLit("attention") => Shown("attention")
    /\ ~IsLit("attention") /\ IsLit("notification") => Shown("notification")
    /\ (\A s \in Sources \ {"battery"} : ~IsLit(s)) /\ IsLit("battery") => Shown("battery")
    /\ (\A s \in Sources : ~IsLit(s)) => led.color \notin Lit

\* "PowerManagerService::setAttentionLightInternal turns off the attention
\* light by setting flashOnMS = flashOffMS = 0" (lights.c:218): such an
\* attention never covers the other lights.
AttentionEnds ==
  g_lock = "free" /\ "led" \notin stale /\ globals["attention"].ms = 0 /\ IsLit("notification")
    => Shown("notification")

\* Between two calls for the backlight LCD_FILE has the brightness of what the
\* last one asked for, however the calls for the LED come in between; and that
\* lies within the channels of what was asked for, so that a grey is shown as
\* it is and white is 255 (the weights of rgb_to_brightness, lights.c:123).
BacklightIsShown ==
  brightness = Idle /\ "lcd" \notin stale =>
    /\ lcd = Brightness(wanted)
    /\ \E low, high \in {wanted.r, wanted.g, wanted.b} : low <= lcd /\ lcd <= high

\* The LED and the backlight show what the services asked for last.
LightsAreRight == TypeOK /\ LedShowsHighest /\ AttentionEnds /\ BacklightIsShown
=============================================================================
