------------------------------ MODULE Keyboard ------------------------------
(***************************************************************************)
(* The keyboard driver of keyboard.c: the decoder readcode with its static *)
(* variable shift, and keyboard_irq, which fires an event for every byte.  *)
(*                                                                         *)
(* shift is the set of the flags that are set in it.  The maps of          *)
(* ps2_kbd_defs.h are given for one letter, one digit and the End key, on  *)
(* the keypad or not; the other keys are of the same kinds.  A keycode is  *)
(* the character as a string, "NO" for 0 and "none" for -1.                *)
(***************************************************************************)
EXTENDS Naturals, Sequences

CONSTANTS
  Keys,        \* the keys that are used
  MaxPresses,  \* bound: how many times keys are pressed
  MaxPending,  \* bound: bytes in the keyboard's buffer, which never overruns
  BootKeys     \* whether keys are pressed while the kernel boots

(* A key sends its scan code, behind an E0 if it is an extended one.       *)
Key(code, ext) == [code |-> code, ext |-> ext]
KeyA       == Key(30, FALSE)   \* 0x1E
Key1       == Key(2, FALSE)    \* 0x02
KeyEnd     == Key(79, TRUE)    \* E0 0x4F
KeyLShift  == Key(42, FALSE)   \* 0x2A
KeyRShift  == Key(54, FALSE)   \* 0x36
KeyLCtl    == Key(29, FALSE)   \* 0x1D
KeyRCtl    == Key(29, TRUE)    \* E0 0x1D
KeyAlt     == Key(56, FALSE)   \* 0x38
KeyRAlt    == Key(56, TRUE)    \* E0 0x38
KeyCaps    == Key(58, FALSE)   \* 0x3A
FakeShift  == Key(42, TRUE)    \* E0 0x2A, sent along with extended keys

E0 == 224
Break == 128

(* No key has the scan code whose release would read as an E0. *)
ASSUME KeyboardAssumption ==
  /\ Keys \subseteq [code : (1 .. 127) \ {E0 - Break}, ext : BOOLEAN]
  /\ MaxPresses \in Nat /\ MaxPending \in Nat
  /\ BootKeys \in BOOLEAN

VARIABLES
  shift,     \* the flags that are set in shift of readcode
  pending,   \* the bytes the controller holds
  irq1,      \* its interrupt is latched
  unmasked,  \* the I/O APIC lets it through
  booted,    \* interrupts are enabled
  event,     \* the keycode of the last event fired
  down,      \* the keys that are held
  twins,     \* whether two keys of one modifier were ever held at once
  caps,      \* whether Caps Lock was pressed an odd number of times
  due,       \* what the keys pressed so far should print and have not yet
  garbled,   \* something else was printed
  presses    \* how many keys were pressed

kbdVars == <<shift, pending, irq1, unmasked, booted, event>>
userVars == <<down, twins, caps, presses>>
checkVars == <<due, garbled>>
keyboardVars == <<kbdVars, userVars, checkVars>>

(* The flag that a scan code, with 0x80 for an extended key, stands for.   *)
shiftcode(data) ==
  CASE data \in {29, 157} -> {"CTL"}
    [] data \in {42, 54}  -> {"SHIFT"}
    [] data \in {56, 184} -> {"ALT"}
    [] OTHER              -> {}

togglecode(data) ==
  CASE data = 58 -> {"CAPSLOCK"}
    [] data = 69 -> {"NUMLOCK"}
    [] data = 70 -> {"SCROLLLOCK"}
    [] OTHER     -> {}

Toggle(s, f) == (s \ f) \cup (f \ s)

normalmap(data) ==
  CASE data = 30 -> "a" [] data \in {2, 79} -> "1" [] data = 207 -> "end" [] OTHER -> "NO"
shiftmap(data) ==
  CASE data = 30 -> "A" [] data = 2 -> "!" [] data = 79 -> "1" [] data = 207 -> "end" [] OTHER -> "NO"
ctlmap(data) ==
  CASE data = 30 -> "^A" [] data = 207 -> "end" [] OTHER -> "NO"

charcode(flags, data) ==
  CASE "CTL" \in flags   -> ctlmap(data)
    [] "SHIFT" \in flags -> shiftmap(data)
    [] OTHER             -> normalmap(data)

SwapCase(c) == CASE c = "a" -> "A" [] c = "A" -> "a" [] OTHER -> c

(* Mutant: E0ESC survives the release of a key. *)
releasedKeepsEsc(flags, data) ==
  flags \ shiftcode(IF "E0ESC" \in flags THEN data ELSE data % Break)

(* shift after the byte of a released key. *)
released(flags, data) ==
  flags \ (shiftcode(IF "E0ESC" \in flags THEN data ELSE data % Break) \cup {"E0ESC"})

(* Mutant: the 0x80 of an extended key is dropped. *)
pressedIndexShort(flags, data) == data

(* The index of a pressed key: the byte, with 0x80 behind an E0. *)
pressedIndex(flags, data) == IF "E0ESC" \in flags THEN data + Break ELSE data

(* shift after the byte of a pressed key. *)
pressed(flags, i) == Toggle((flags \ {"E0ESC"}) \cup shiftcode(i), togglecode(i))

(* What readcode returns for a pressed key. *)
keycodeOf(flags, i) ==
  IF "CAPSLOCK" \in flags THEN SwapCase(charcode(flags, i)) ELSE charcode(flags, i)

(* readcode, as the pair of shift and the keycode it leaves. *)
readcode(flags, data) ==
  IF data = E0
    THEN [shift |-> flags \cup {"E0ESC"}, keycode |-> "NO"]
  ELSE IF data >= Break
    THEN [shift |-> released(flags, data), keycode |-> "NO"]
    ELSE LET i == pressedIndex(flags, data)
             s == pressed(flags, i)
         IN  [shift |-> s, keycode |-> keycodeOf(s, i)]

(* handle_keypress, called n times, prints the keycode of an event each    *)
(* time, or nothing when it is 0.                                          *)
Echo(c, n) ==
  IF c = "NO" \/ n = 0 THEN UNCHANGED checkVars
  ELSE /\ due' = IF due = <<>> THEN due ELSE Tail(due)
       /\ garbled' = (garbled \/ n > 1 \/ due = <<>> \/ Head(due) # c)

(* A byte leaves the controller; one behind it raises the interrupt again. *)
TakeByte(latched) ==
  /\ pending' = IF pending = <<>> THEN pending ELSE Tail(pending)
  /\ irq1' = (latched \/ Len(pending) > 1)

(* fire_event gets the keycode whatever it is, and calls handle_keypress n *)
(* times.  Without a byte readcode returns -1, and that is printed too, as *)
(* character 255.                                                          *)
keyboard_irq(n) ==
  /\ booted /\ irq1
  /\ IF pending = <<>>
       THEN event' = "none" /\ UNCHANGED shift
       ELSE /\ shift' = readcode(shift, Head(pending)).shift
            /\ event' = readcode(shift, Head(pending)).keycode
  /\ Echo(event', n)
  /\ TakeByte(FALSE)
  /\ UNCHANGED <<unmasked, booted, userVars>>

(* The boot, as the keyboard sees it.  apic_init unmasks its interrupt: a  *)
(* byte that came before raised an edge that the I/O APIC has ignored.     *)
ioapic_enable ==
  /\ ~unmasked
  /\ unmasked' = TRUE
  /\ UNCHANGED <<shift, pending, irq1, booted, event, userVars, checkVars>>

(* Interrupts are still off, and the delay in pit_prepare_sleep reads the  *)
(* keyboard's data port.                                                   *)
pit_prepare_sleep ==
  /\ unmasked /\ ~booted
  /\ booted' = TRUE
  /\ TakeByte(irq1)
  /\ UNCHANGED <<shift, unmasked, event, userVars, checkVars>>

-----------------------------------------------------------------------------
(* The user.  What a key should print follows from the keys held when it   *)
(* is pressed; its bytes are decoded later.                                *)
Index(k) == IF k.ext THEN k.code + Break ELSE k.code
Bytes(k, b) == IF k.ext THEN <<E0, b>> ELSE <<b>>
Send(bytes) ==
  /\ pending' = pending \o bytes
  /\ irq1' = (irq1 \/ (unmasked /\ pending = <<>>))
Held(keys, f) == \E k \in keys : f \in shiftcode(Index(k))

Meant(k) ==
  LET c == CASE Held(down, "CTL")   -> ctlmap(Index(k))
             [] Held(down, "SHIFT") -> shiftmap(Index(k))
             [] OTHER               -> normalmap(Index(k))
  IN  IF caps THEN SwapCase(c) ELSE c

(* A key that is held is pressed again by the keyboard's repetition. *)
Press(k) ==
  /\ booted \/ BootKeys
  /\ presses < MaxPresses /\ Len(pending) + 2 <= MaxPending
  /\ presses' = presses + 1
  /\ down' = down \cup {k}
  /\ twins' = (twins \/ \E d \in down \ {k} :
                           shiftcode(Index(d)) \cap shiftcode(Index(k)) # {})
  /\ caps' = IF k = KeyCaps THEN ~caps ELSE caps
  /\ due' = IF Meant(k) = "NO" THEN due ELSE Append(due, Meant(k))
  /\ Send(Bytes(k, k.code))
  /\ UNCHANGED <<shift, unmasked, booted, event, garbled>>

Release(k) ==
  /\ k \in down /\ Len(pending) + 2 <= MaxPending
  /\ down' = down \ {k}
  /\ Send(Bytes(k, k.code + Break))
  /\ UNCHANGED <<shift, unmasked, booted, event, twins, caps, presses, checkVars>>

KbdInit ==
  /\ shift = {} /\ pending = <<>> /\ irq1 = FALSE /\ event = "NO"
  /\ unmasked = FALSE /\ booted = FALSE
  /\ down = {} /\ twins = FALSE /\ caps = FALSE /\ presses = 0
  /\ due = <<>> /\ garbled = FALSE

-----------------------------------------------------------------------------
(* Once the bytes are decoded, a modifier is only set while one of its     *)
(* keys is held and no E0 is left open: left and right keys, extended      *)
(* codes and repetition in any order leave no modifier stuck.              *)
NoStuckModifier ==
  pending = <<>> =>
    /\ "E0ESC" \notin shift
    /\ \A f \in {"SHIFT", "CTL", "ALT"} : f \in shift => Held(down, f)

(* What is printed is what was typed: however far the decoder lags behind  *)
(* the keyboard, every key prints what its modifiers meant when it was     *)
(* pressed, once and in order.  (Once two keys of one modifier were held   *)
(* at once it need not: the release of either clears the flag.)            *)
EchoIsTyped == twins \/ (~garbled /\ (pending = <<>> => due = <<>>))
=============================================================================
