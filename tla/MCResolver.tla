----------------------------- MODULE MCResolver -----------------------------
(***************************************************************************)
(* Small configurations for Resolver: the keymaps of the README (a dual f  *)
(* key over a layer, caps lock as control), its modes, and a macro.        *)
(***************************************************************************)
EXTENDS ResolverProperties

KeyEsc  == 1
KeyF    == 33
KeyJ    == 36
KeyCaps == 58
KeyCtrl == 29
KeyLeft == 105

MCGrabOf == [kb \in Kbs |-> CHOOSE g \in Grabs : TRUE]

\* a grab for each keyboard
MCOwnGrab == CHOOSE f \in [Kbs -> Grabs] : \A a, b \in Kbs : a # b => f[a] # f[b]

MCRootOf == [g \in Grabs |-> "root"]

MCModifiers == {KeyCtrl}

Simple(c) == [type |-> "SIMPLE", simple |-> c]
Layer(m)  == [type |-> "MAP", map |-> m]
Typed(c) == <<[code |-> c, press |-> TRUE], [code |-> c, press |-> FALSE]>>
Macro(m)  == [type |-> "MACRO", macro |-> m]
Dual(tap, hold, mode, hold_ms, double_tap_ms) ==
  [type |-> "DUAL", tap |-> tap, hold |-> hold, mode |-> mode,
   hold_ms |-> hold_ms, double_tap_ms |-> double_tap_ms]

\* a keymap that maps every key to itself but for those in changes
Keymap(changes) ==
  [k \in Keys |-> IF k \in DOMAIN changes THEN changes[k] ELSE Simple(k)]

\* f: j when tapped, a layer with arrow keys when held; j sends the same code
MCKeyboardsKeymaps ==
  [m \in Keymaps |->
     IF m = "root"
     THEN Keymap([k \in {KeyF} |->
            Dual(Simple(KeyJ), Layer("arrows"), "TAP_ON_ROLLOVER", 1, 2)])
     ELSE Keymap([k \in {KeyJ} |-> Simple(KeyLeft)])]

\* f as above, never double-tapped; caps lock is escape when tapped, control when
\* held or rolled over,
\* and caps lock when tapped within the layer of f
MCTwoDualKeymaps ==
  [m \in Keymaps |->
     IF m = "root"
     THEN Keymap([k \in {KeyF, KeyCaps} |->
            IF k = KeyF
            THEN Dual(Simple(KeyF), Layer("arrows"), "TAP_ON_ROLLOVER", 1, -1)
            ELSE Dual(Simple(KeyEsc), Simple(KeyCtrl), "HOLD_ON_ROLLOVER", 1, 0)])
     ELSE Keymap([k \in {KeyJ, KeyCaps} |->
            IF k = KeyJ THEN Simple(KeyLeft)
            ELSE Dual(Simple(KeyCaps), Simple(KeyCtrl), "TAP_ON_ROLLOVER", 2, -1)])]

\* one root keymap for each grab
MCTwoRoots == CHOOSE f \in [Grabs -> {"root", "plain"}] :
                 \A a, b \in Grabs : a # b => f[a] # f[b]

\* in the first, f is a macro when tapped and control when held, and j a macro that
\* types itself; in the second both are control
MCMacroKeymaps ==
  [m \in Keymaps |->
     Keymap([k \in {KeyF, KeyJ} |->
       IF m = "plain" THEN Simple(KeyCtrl)
       ELSE IF k = KeyF
       THEN Dual(Macro(Typed(KeyF)), Simple(KeyCtrl), "TAP_ON_ROLLOVER", 2, 2)
       ELSE Macro(Typed(KeyJ))])]

\* f: f when tapped, a layer with a macro on j when held; caps lock sends j too
MCLayerMacroKeymaps ==
  [m \in Keymaps |->
     IF m = "root"
     THEN Keymap([k \in {KeyF, KeyCaps} |->
            IF k = KeyF
            THEN Dual(Simple(KeyF), Layer("arrows"), "TAP_ON_ROLLOVER", 1, -1)
            ELSE Simple(KeyJ)])
     ELSE Keymap([k \in {KeyJ} |-> Macro(Typed(KeyLeft))])]

\* f: f when tapped, a layer when held; caps lock: itself when tapped, control when
\* held or rolled over; j: itself in a chord with control, and within the layer of f f
MCHoldsKeymaps ==
  [m \in Keymaps |->
     Keymap([k \in {KeyF, KeyCaps, KeyJ} |->
       IF k = KeyF
       THEN IF m = "root"
            THEN Dual(Simple(KeyF), Layer("arrows"), "TAP_ON_ROLLOVER", 1, -1)
            ELSE Simple(KeyF)
       ELSE IF k = KeyCaps
       THEN Dual(Simple(KeyCaps), Simple(KeyCtrl), "HOLD_ON_ROLLOVER", 1, 0)
       ELSE IF m = "root"
       THEN Macro(<<[code |-> KeyCtrl, press |-> TRUE]>> \o Typed(KeyJ)
                    \o <<[code |-> KeyCtrl, press |-> FALSE]>>)
       ELSE Macro(Typed(KeyF))])]

\* f: f when tapped, control when held, decided by the clock alone
MCTimeoutKeymaps ==
  [m \in Keymaps |->
     Keymap([k \in {KeyF} |->
       Dual(Simple(KeyF), Simple(KeyCtrl), "TIMEOUT_ONLY", 1, -1)])]

\* the scan code that comes with a key
MCScanCodes == {[code |-> 0, value |-> 2]}

\* the light of caps lock goes off: LED_CAPSL has the number of KeyEsc
MCLeds == {[code |-> KeyEsc, value |-> 0]}

=============================================================================
