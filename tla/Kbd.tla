--------------------------------- MODULE Kbd ---------------------------------
(***************************************************************************)
(* The keyboard driver, devices/kbd.c: scancodes become characters under   *)
(* the state of the shift keys, which the driver keeps from the scancodes  *)
(* alone.  Characters and scancodes are numbers.                           *)
(***************************************************************************)
EXTENDS Integers, Sequences, FiniteSets

CONSTANTS Keys,       \* scancodes of the keys that are used
          MaxHeld,    \* how many of them are held at once
          NoChar

Prefix == 224         \* 0xe0
Extended(code) == 256 * Prefix + code

\* Keys that produce the same characters with and without Shift.
invariant_keymap == {
  [first_scancode |-> 1, chars |-> <<27>>],
  [first_scancode |-> 14, chars |-> <<8>>],
  [first_scancode |-> 15, chars |-> <<9, 81, 87, 69, 82, 84, 89, 85, 73, 79, 80>>],
  [first_scancode |-> 28, chars |-> <<13>>],
  [first_scancode |-> 30, chars |-> <<65, 83, 68, 70, 71, 72, 74, 75, 76>>],
  [first_scancode |-> 44, chars |-> <<90, 88, 67, 86, 66, 78, 77>>],
  [first_scancode |-> 55, chars |-> <<42>>],
  [first_scancode |-> 57, chars |-> <<32>>],
  [first_scancode |-> 83, chars |-> <<127>>]}

unshifted_keymap == {
  [first_scancode |-> 2, chars |-> <<49, 50, 51, 52, 53, 54, 55, 56, 57, 48, 45, 61>>],
  [first_scancode |-> 26, chars |-> <<91, 93>>],
  [first_scancode |-> 39, chars |-> <<59, 39, 96>>],
  [first_scancode |-> 43, chars |-> <<92>>],
  [first_scancode |-> 51, chars |-> <<44, 46, 47>>]}

shifted_keymap == {
  [first_scancode |-> 2, chars |-> <<33, 64, 35, 36, 37, 94, 38, 42, 40, 41, 95, 43>>],
  [first_scancode |-> 26, chars |-> <<123, 125>>],
  [first_scancode |-> 39, chars |-> <<58, 34, 126>>],
  [first_scancode |-> 43, chars |-> <<124>>],
  [first_scancode |-> 51, chars |-> <<60, 62, 63>>]}

VARIABLES
  down,         \* the shift keys that the driver has as depressed
  caps_lock,
  input,        \* the character put in the input buffer by the last scancode
  rebooted,
  held,         \* the keys that are held
  last,         \* the key pressed or let go last
  toggled       \* how often Caps Lock was pressed, modulo 2

left_shift == 42
right_shift == 54
left_alt == 56
right_alt == Extended(56)
left_ctrl == 29
right_ctrl == Extended(29)
CapsLock == 58

shift_keys == {left_shift, right_shift, left_alt, right_alt, left_ctrl, right_ctrl}

Init ==
  /\ down = {} /\ caps_lock = FALSE /\ input = NoChar /\ rebooted = FALSE
  /\ held = {} /\ last = 0 /\ toggled = 0

\* The characters of a scancode in a keymap: one or none.
map_key(k, code) ==
  {m.chars[code - m.first_scancode + 1] :
     m \in {n \in k : code >= n.first_scancode /\ code < n.first_scancode + Len(n.chars)}}

tolower(c) == IF c \in 65..90 THEN c + 32 ELSE c

shift == down \cap {left_shift, right_shift} # {}
alt == down \cap {left_alt, right_alt} # {}
ctrl == down \cap {left_ctrl, right_ctrl} # {}

Chars(code) ==
  map_key(invariant_keymap, code)
    \cup map_key(IF shift THEN shifted_keymap ELSE unshifted_keymap, code)

(* Slip: Caps Lock is left out.                                            *)
Cased_shift(c) ==
  IF ctrl /\ c >= 64 /\ c < 96 THEN c - 64
  ELSE IF ~shift THEN tolower(c) ELSE c

\* Ctrl overrides Shift.
Cased(c) ==
  IF ctrl /\ c >= 64 /\ c < 96 THEN c - 64
  ELSE IF shift = caps_lock THEN tolower(c) ELSE c

ShiftKey(code, release) ==
  down' = IF code \notin shift_keys THEN down
          ELSE IF release THEN down \ {code} ELSE down \cup {code}

(* Slip: the first byte tells, which for a prefix is always set.           *)
Released_first(bytes) == bytes[1] >= 128

\* The release bit is in the last byte.
Released(bytes) == bytes[Len(bytes)] >= 128

Code(bytes) ==
  LET code == IF bytes[1] = Prefix THEN 256 * Prefix + bytes[2] ELSE bytes[1]
  IN  IF Released(bytes) THEN code - 128 ELSE code

\* The handler, for the bytes of a scancode.  Whether there is room in the
\* input buffer is a matter of module Terminal; here there is.
keyboard_interrupt(bytes) ==
  LET code == Code(bytes)
      release == Released(bytes)
  IN  \/ /\ code = CapsLock
         /\ caps_lock' = (IF release THEN caps_lock ELSE ~caps_lock)
         /\ input' = NoChar /\ UNCHANGED <<down, rebooted>>
      \/ /\ code # CapsLock
         /\ \E c \in Chars(code) :
              /\ input' = IF release THEN NoChar ELSE Cased(c) + (IF alt THEN 128 ELSE 0)
              /\ rebooted' = (~release /\ c = 127 /\ ctrl /\ alt)
         /\ UNCHANGED <<down, caps_lock>>
      \/ /\ code # CapsLock /\ Chars(code) = {}
         /\ ShiftKey(code, release)
         /\ input' = NoChar /\ UNCHANGED <<caps_lock, rebooted>>

\* What the keyboard sends for a key: with the release bit 128, and a prefix.
Scancode(key, bit) ==
  IF key >= Extended(0) THEN <<Prefix, (key % 256) + bit>> ELSE <<key + bit>>

\* A key goes down, or is repeated by the keyboard; Caps Lock is not.
Press(key) ==
  /\ ~rebooted
  /\ IF key \in held THEN key # CapsLock ELSE Cardinality(held) < MaxHeld
  /\ held' = held \cup {key} /\ last' = key
  /\ toggled' = IF key = CapsLock THEN 1 - toggled ELSE toggled
  /\ keyboard_interrupt(Scancode(key, 0))

LetGo(key) ==
  /\ ~rebooted /\ key \in held /\ held' = held \ {key} /\ last' = key
  /\ UNCHANGED toggled
  /\ keyboard_interrupt(Scancode(key, 128))

Next == \E key \in Keys : Press(key) \/ LetGo(key)

-----------------------------------------------------------------------------
(* "Current state of shift keys.  True if depressed, false otherwise", for *)
(* the keys on both sides, whatever was pressed, repeated or let go and in *)
(* whichever order; "Status of Caps Lock" likewise.                        *)
KeyStateExact == down = held \cap shift_keys /\ (caps_lock <=> toggled = 1)

Held(keys) == held \cap keys # {}
Letters == 65..90

(* A letter's key gives the letter: Ctrl overrides Shift and gives its     *)
(* control character; without Ctrl it is in upper case exactly if one of   *)
(* Shift and Caps Lock is in effect and not both; Alt sets the high bit.   *)
LetterOfKeys ==
  \A c \in Letters :
    input # NoChar /\ map_key(invariant_keymap, last) = {c} =>
      input = (IF Held({left_ctrl, right_ctrl}) THEN c - 64
               ELSE IF Held({left_shift, right_shift}) = (toggled = 1) THEN c + 32
               ELSE c)
              + (IF Held({left_alt, right_alt}) THEN 128 ELSE 0)
=============================================================================
