------------------------- MODULE KeySimulator_proofs -------------------------
(***************************************************************************)
(* Theorems about KeySimulator, for every pair of key tables, all numbers  *)
(* on the command line and any number of failing calls.                    *)
(***************************************************************************)
EXTENDS KeySimulator, FiniteSetTheorems, SequenceTheorems, TLAPS

\* What the device holds down while the command's key is held.
Down == {Key.uCode, Key.uModi} \cap keybits

(* What is still to be written tells what is down: sendCommand's place and the
   event being dispatched leave no other choice, on a device that still exists. *)
PhaseInv ==
    \/ todo = <<>> /\ main \notin {"repeat", "up"} /\ pressed = {}
    \/ todo = <<>> /\ main \in {"repeat", "up"} /\ (device => pressed = Down)
    \/ /\ value = 1
       /\ main \in {"repeat", "up"}
       /\ \/ Key.uModi = None /\ todo = <<Key.uCode>> /\ pressed = {}
          \/ Key.uModi # None /\ todo = <<Key.uModi, Key.uCode>> /\ pressed = {}
          \/ /\ Key.uModi # None
             /\ todo = <<Key.uCode>>
             /\ device => pressed = {Key.uModi} \cap keybits
    \/ value = 2 /\ main = "repeat" /\ todo = <<Key.uCode>> /\ (device => pressed = Down)
    \/ /\ value = 0
       /\ main = "next"
       /\ \/ Key.uModi = None /\ todo = <<Key.uCode>> /\ (device => pressed = Down)
          \/ Key.uModi # None /\ todo = <<Key.uCode, Key.uModi>> /\ (device => pressed = Down)
          \/ /\ Key.uModi # None
             /\ todo = <<Key.uModi>>
             /\ device => pressed = ({Key.uModi} \cap keybits) \ {Key.uCode}

Covered(down) ==
    Key.uModi \in keybits /\ Key.uCode \in down => Key.uModi \in down

(* Readers know an earlier state of the device, in which the modifier covered
   the key as well; without a device nothing is down for anybody. *)
SeenInv ==
    /\ Covered(seen)
    /\ ~device => pressed = {} /\ seen = {}

(* While options are read, nothing has been sent. *)
EarlyInv ==
    main \in {"start", "parse"} =>
        /\ todo = <<>> /\ pressed = {} /\ seen = {}
        /\ i = 0 /\ j = 0 /\ downs = 0

(* Without failures, rounds begun and keys gone down are in step. *)
CountInv ==
    /\ faults = 0 /\ main \notin {"start", "done"} => device
    /\ faults = 0 /\ Key.uCode \in keybits =>
        /\ main = "next" => downs = i /\ (i = 0 \/ i <= repeat)
        /\ main = "down" => downs = i /\ i < repeat
        /\ main \in {"repeat", "up"} =>
            /\ i < repeat
            /\ downs = IF Key.uCode \in pressed THEN i + 1 ELSE i
        /\ main = "stop" => downs = IF repeat > 0 THEN repeat ELSE 0

-----------------------------------------------------------------------------
LEMMA KeyOf ==
    ASSUME TypeOK
    PROVE  /\ Key.uCode \in LinuxKeys \cup {None}
           /\ Key.uModi \in LinuxKeys \cup {None}
           /\ None \notin keybits
           /\ keyCode = None => Key.uCode = None
<1>1. CASE keyCode \in DOMAIN kcodesMap
  <2>1. Key = kcodesMap[keyCode]
    BY <1>1 DEF Key, LinuxKey
  <2>2. Key.uCode \in LinuxKeys \cup {None} /\ Key.uModi \in LinuxKeys \cup {None}
    BY <1>1, <2>1 DEF LinuxKeys
  <2>. QED
    BY <1>1, <2>2, TablesAssumption DEF TypeOK, LinuxKeys
<1>2. CASE keyCode \notin DOMAIN kcodesMap
  <2>1. Key = [uCode |-> None, uModi |-> None]
    BY <1>2 DEF Key, LinuxKey
  <2>. QED
    BY <2>1 DEF TypeOK, LinuxKeys
<1>. QED
  BY <1>1, <1>2

LEMMA Joining ==
    ASSUME NEW a, NEW b
    PROVE  <<a>> \o <<b>> = <<a, b>>
<1> DEFINE S == {a, b}
           s == <<a>> \o <<b>>
           t == <<a, b>>
<1>1. <<a>> \in Seq(S) /\ <<b>> \in Seq(S) /\ t \in Seq(S)
  OBVIOUS
<1>2. Len(<<a>>) = 1 /\ Len(<<b>>) = 1 /\ Len(t) = 2
  OBVIOUS
<1>3. s \in Seq(S) /\ Len(s) = 2 /\ s[1] = a /\ s[2] = b
  <2>1. /\ s \in Seq(S) /\ Len(s) = 1 + 1
        /\ \A n \in 1 .. 1 + 1 : s[n] = IF n <= 1 THEN <<a>>[n] ELSE <<b>>[n - 1]
    BY <1>1, <1>2, ConcatProperties
  <2>. QED
    BY <2>1
<1>4. t[1] = a /\ t[2] = b
  OBVIOUS
<1>5. \A n \in 1 .. 2 : s[n] = t[n]
  BY <1>3, <1>4
<1>. QED
  BY <1>1, <1>2, <1>3, <1>5, SeqEqual

(* What udispatcher writes for each event. *)
LEMMA Sequences ==
    /\ Key.uModi = None =>
        /\ KeySequence("down") = <<Key.uCode>>
        /\ KeySequence("up") = <<Key.uCode>>
    /\ Key.uModi # None =>
        /\ KeySequence("down") = <<Key.uModi, Key.uCode>>
        /\ KeySequence("up") = <<Key.uCode, Key.uModi>>
    /\ KeySequence("repeat") = <<Key.uCode>>
<1> DEFINE key == LinuxKey(keyCode)
           modifier == IF key.uModi = None THEN <<>> ELSE <<key.uModi>>
<1>1. /\ KeySequence("down") = modifier \o <<key.uCode>>
      /\ KeySequence("up") = <<key.uCode>> \o modifier
      /\ KeySequence("repeat") = <<key.uCode>>
  BY DEF KeySequence
<1>2. key = Key
  BY DEF Key
<1>3. CASE Key.uModi = None
  <2>1. modifier = <<>>
    BY <1>2, <1>3
  <2>2. <<>> \o <<key.uCode>> = <<key.uCode>> /\ <<key.uCode>> \o <<>> = <<key.uCode>>
    OBVIOUS
  <2>. QED
    BY <1>1, <1>2, <1>3, <2>1, <2>2
<1>4. CASE Key.uModi # None
  <2>1. modifier = <<key.uModi>>
    BY <1>2, <1>4
  <2>2. /\ <<key.uModi>> \o <<key.uCode>> = <<key.uModi, key.uCode>>
        /\ <<key.uCode>> \o <<key.uModi>> = <<key.uCode, key.uModi>>
    BY Joining
  <2>. QED
    BY <1>1, <1>2, <1>4, <2>1, <2>2
<1>. QED
  BY <1>3, <1>4

LEMMA SequenceType ==
    ASSUME TypeOK
    PROVE  \A type \in {"down", "up", "repeat"} :
              /\ KeySequence(type) \in Seq(LinuxKeys \cup {None})
              /\ KeySequence(type) # <<>>
<1>1. PICK a \in LinuxKeys \cup {None}, b \in LinuxKeys \cup {None} :
        Key.uCode = a /\ Key.uModi = b
  BY KeyOf
<1>2. \A t \in {<<a>>, <<a, b>>, <<b, a>>} :
        t \in Seq(LinuxKeys \cup {None}) /\ t # <<>>
  <2>1. <<a>> \in Seq(LinuxKeys \cup {None}) /\ <<a>> # <<>>
    OBVIOUS
  <2>2. <<a, b>> \in Seq(LinuxKeys \cup {None}) /\ <<a, b>> # <<>>
    OBVIOUS
  <2>3. <<b, a>> \in Seq(LinuxKeys \cup {None}) /\ <<b, a>> # <<>>
    OBVIOUS
  <2>. QED
    BY <2>1, <2>2, <2>3
<1>3. \A type \in {"down", "up", "repeat"} :
        KeySequence(type) \in {<<a>>, <<a, b>>, <<b, a>>}
  <2>1. KeySequence("down") \in {<<a>>, <<b, a>>}
    BY <1>1, Sequences
  <2>2. KeySequence("up") \in {<<a>>, <<a, b>>}
    BY <1>1, Sequences
  <2>3. KeySequence("repeat") = <<a>>
    BY <1>1, Sequences
  <2>. QED
    BY <2>1, <2>2, <2>3
<1>. QED
  BY <1>2, <1>3

\* Head and Tail of the sequences of keys there are.
LEMMA HeadTail ==
    ASSUME NEW a, NEW b
    PROVE  /\ Head(<<a>>) = a /\ Tail(<<a>>) = <<>> /\ <<a>> # <<>>
           /\ Head(<<a, b>>) = a /\ Tail(<<a, b>>) = <<b>> /\ <<a, b>> # <<>>
OBVIOUS

(* Whatever is down according to PhaseInv is covered by the modifier. *)
LEMMA PhaseCovers ==
    PhaseInv /\ (~device => pressed = {}) => Covered(pressed)
BY DEF PhaseInv, Covered, Down

-----------------------------------------------------------------------------
(* The counters of sendCommand: j stays below the repeats asked for, whatever
   number was asked for. *)
LEMMA Ticks ==
    ASSUME TypeOK
    PROVE  duration * TicksPerSecond \in Int /\ repeat \in Int /\ j \in Nat
<1>1. duration \in Int /\ repeat \in Int
  BY NumbersAssumption DEF TypeOK
<1>. QED
  BY <1>1, NumbersAssumption DEF TypeOK

LEMMA InitCallsFinite == IsFiniteSet(InitCalls)
<1>1. IsFiniteSet({"open", "EV_KEY", "EV_SYN", "UI_DEV_SETUP", "UI_DEV_CREATE"})
  <2>1. \A c : IsFiniteSet({c})
    BY FS_Singleton
  <2>2. {"open", "EV_KEY", "EV_SYN", "UI_DEV_SETUP", "UI_DEV_CREATE"} =
          ((({"open"} \cup {"EV_KEY"}) \cup {"EV_SYN"}) \cup {"UI_DEV_SETUP"})
              \cup {"UI_DEV_CREATE"}
    OBVIOUS
  <2>3. IsFiniteSet({"open"} \cup {"EV_KEY"})
    BY <2>1, FS_Union
  <2>4. IsFiniteSet(({"open"} \cup {"EV_KEY"}) \cup {"EV_SYN"})
    BY <2>1, <2>3, FS_Union
  <2>5. IsFiniteSet((({"open"} \cup {"EV_KEY"}) \cup {"EV_SYN"}) \cup {"UI_DEV_SETUP"})
    BY <2>1, <2>4, FS_Union
  <2>6. IsFiniteSet(((({"open"} \cup {"EV_KEY"}) \cup {"EV_SYN"}) \cup {"UI_DEV_SETUP"})
                      \cup {"UI_DEV_CREATE"})
    BY <2>1, <2>5, FS_Union
  <2>. QED
    BY <2>2, <2>6
<1>. QED
  BY <1>1, TablesAssumption, FS_Union DEF InitCalls

LEMMA StartType ==
    ASSUME TypeOK, EarlyInv, Start
    PROVE  TypeOK' /\ EarlyInv'
<1>1. PICK failed \in SUBSET InitCalls :
        /\ Cardinality(failed) <= MaxFaults
        /\ faults' = Cardinality(failed)
        /\ device' = InitSucceeds(failed)
        /\ keybits' = IF device' /\ "EV_KEY" \notin failed THEN LinuxKeys \ failed ELSE {}
  BY DEF Start
<1>2. IsFiniteSet(InitCalls)
  BY InitCallsFinite
<1>3. Cardinality(failed) \in Nat
  BY <1>2, FS_Subset, FS_CardinalityType
<1>4. faults' \in 0 .. MaxFaults
  BY <1>1, <1>3, NumbersAssumption
<1>5. device' \in BOOLEAN
  BY <1>1 DEF InitSucceeds
<1>6. keybits' \subseteq LinuxKeys
  BY <1>1
<1>. QED
  BY <1>4, <1>5, <1>6 DEF Start, options, TypeOK, EarlyInv

LEMMA TypeInvariant == Spec => [](TypeOK /\ EarlyInv)
<1>1. Init => TypeOK /\ EarlyInv
  <2> SUFFICES ASSUME Init PROVE TypeOK /\ EarlyInv
    OBVIOUS
  <2>1. todo \in Seq(LinuxKeys \cup {None})
    BY EmptySeq DEF Init
  <2>2. args \in 0 .. MaxArgs /\ faults \in 0 .. MaxFaults
    BY NumbersAssumption DEF Init
  <2>3. device \in BOOLEAN /\ pressAndHold \in BOOLEAN
    BY Zenon DEF Init
  <2>4. TypeOK
    BY <2>1, <2>2, <2>3 DEF Init, TypeOK
  <2>. QED
    BY <2>4 DEF Init, EarlyInv
<1>2. TypeOK /\ EarlyInv /\ [Next]_vars => TypeOK' /\ EarlyInv'
  <2> SUFFICES ASSUME TypeOK, EarlyInv, [Next]_vars PROVE TypeOK' /\ EarlyInv'
    OBVIOUS
  <2>1. CASE Start
    BY <2>1, StartType
  <2>2. CASE OptionRepeat \/ OptionPress \/ OptionKey \/ OptionUnknownKey
    <3>1. main = "parse" /\ args' \in 0 .. MaxArgs
      BY <2>2, NumbersAssumption DEF OptionRepeat, OptionPress, OptionKey, OptionUnknownKey,
                                     Option, TypeOK
    <3>2. j' = 0 /\ i' = 0 /\ downs' = 0 /\ todo' = <<>> /\ pressed' = {} /\ seen' = {}
      BY <2>2, <3>1 DEF OptionRepeat, OptionPress, OptionKey, OptionUnknownKey, uinput,
                        EarlyInv
    <3>3. CASE OptionRepeat
      BY <3>1, <3>2, <3>3 DEF OptionRepeat, Option, uinput, TypeOK, EarlyInv
    <3>4. CASE OptionPress
      BY <3>1, <3>2, <3>4 DEF OptionPress, Option, uinput, TypeOK, EarlyInv
    <3>5. CASE OptionKey
      BY <3>1, <3>2, <3>5 DEF OptionKey, Option, uinput, TypeOK, EarlyInv
    <3>6. CASE OptionUnknownKey
      BY <3>1, <3>2, <3>6 DEF OptionUnknownKey, Option, TypeOK, EarlyInv
    <3>. QED
      BY <2>2, <3>3, <3>4, <3>5, <3>6
  <2>3. CASE OptionsEnd \/ NextRound
    BY <2>3 DEF OptionsEnd, NextRound, options, uinput, TypeOK, EarlyInv
  <2>4. CASE KeyDown \/ KeyRepeat \/ KeyUp
    <3>0. PICK type \in {"down", "up", "repeat"} : Send(type)
      BY <2>4 DEF KeyDown, KeyRepeat, KeyUp
    <3>1. todo' \in Seq(LinuxKeys \cup {None}) /\ value' \in 0 .. 2
      <4>1. KeySequence(type) \in Seq(LinuxKeys \cup {None})
        BY SequenceType
      <4>2. todo' \in {KeySequence(type), todo}
        BY <3>0 DEF Send
      <4>3. Value(type) \in 0 .. 2
        BY DEF Value
      <4>4. value' \in 0 .. 2
        BY <3>0, <4>3 DEF Send, TypeOK
      <4>. QED
        BY <4>1, <4>2, <4>4 DEF TypeOK
    <3>2. j' = 0 \/ j' \in 1 .. duration * TicksPerSecond
      BY <2>4, Ticks DEF KeyDown, KeyRepeat, KeyUp, TypeOK
    <3>3. i' \in Nat
      BY <2>4 DEF KeyDown, KeyRepeat, KeyUp, TypeOK
    <3>4. main' \in {"repeat", "up", "next"} /\ UNCHANGED <<options, uinput, downs, faults>>
      BY <2>4 DEF KeyDown, KeyRepeat, KeyUp
    <3>. QED
      BY <3>1, <3>2, <3>3, <3>4 DEF options, uinput, TypeOK, EarlyInv
  <2>5. CASE WriteKey
    <3>1. todo # <<>> /\ todo' = Tail(todo) /\ todo' \in Seq(LinuxKeys \cup {None})
      BY <2>5, HeadTailProperties DEF WriteKey, Writing, TypeOK
    <3>2. Kernel(Head(todo)) \subseteq keybits
      BY DEF Kernel, TypeOK
    <3>3. faults' \in 0 .. MaxFaults /\ downs' \in Nat
      BY <2>5, NumbersAssumption DEF WriteKey, Fault, TypeOK
    <3>4. pressed' \subseteq keybits /\ seen' \subseteq LinuxKeys
      BY <2>5, <3>2 DEF WriteKey, TypeOK
    <3>. QED
      BY <2>5, <3>1, <3>3, <3>4 DEF WriteKey, Writing, options, TypeOK, EarlyInv
  <2>6. CASE WriteFails
    <3>1. todo # <<>> /\ todo' = Tail(todo) /\ todo' \in Seq(LinuxKeys \cup {None})
      BY <2>6, HeadTailProperties DEF WriteFails, Writing, TypeOK
    <3>2. faults' \in 0 .. MaxFaults
      BY <2>6, NumbersAssumption DEF WriteFails, Fault, TypeOK
    <3>. QED
      BY <2>6, <3>1, <3>2 DEF WriteFails, Writing, UINPUT_term, options, TypeOK, EarlyInv
  <2>7. CASE Stop
    BY <2>7 DEF Stop, UINPUT_term, options, TypeOK, EarlyInv
  <2>8. CASE UNCHANGED vars
    BY <2>8 DEF vars, options, uinput, TypeOK, EarlyInv
  <2>. QED
    BY <2>1, <2>2, <2>3, <2>4, <2>5, <2>6, <2>7, <2>8 DEF Next
<1>. QED
  BY <1>1, <1>2, PTL DEF Spec

(* Types, and the bounds of the loops of sendCommand (192-214). *)
THEOREM TypeCorrect == Spec => []TypeOK
<1>. QED
  BY TypeInvariant, PTL

-----------------------------------------------------------------------------
Inv == TypeOK /\ EarlyInv /\ PhaseInv /\ SeenInv

LEMMA KeyStays ==
    ASSUME keyCode' = keyCode, keybits' = keybits
    PROVE  Key' = Key /\ Down' = Down
BY DEF Key, LinuxKey, Down

(* Before sendCommand and after it. *)
LEMMA QuietStep ==
    ASSUME Inv, TypeOK', EarlyInv',
           \/ Start
           \/ OptionRepeat \/ OptionPress \/ OptionKey \/ OptionUnknownKey \/ OptionsEnd
           \/ NextRound
           \/ Stop
    PROVE  PhaseInv' /\ SeenInv'
<1> USE DEF Inv
<1>1. CASE Start
  <2>1. main' = "parse" /\ todo' = <<>> /\ pressed' = {} /\ seen' = {}
    BY <1>1 DEF Start, EarlyInv
  <2>. QED
    BY <2>1 DEF PhaseInv, SeenInv, Covered
<1>2. CASE OptionRepeat \/ OptionPress \/ OptionKey \/ OptionUnknownKey \/ OptionsEnd
  <2>1. /\ main' \in {"parse", "next", "stop", "done"}
        /\ todo' = <<>> /\ pressed' = {} /\ seen' = {}
    BY <1>2 DEF OptionRepeat, OptionPress, OptionKey, OptionUnknownKey, OptionsEnd, Option,
                uinput, EarlyInv
  <2>. QED
    BY <2>1 DEF PhaseInv, SeenInv, Covered
<1>3. CASE NextRound
  <2>1. /\ main = "next" /\ main' \in {"down", "stop"}
        /\ todo = <<>> /\ todo' = <<>> /\ keyCode' = keyCode
        /\ UNCHANGED <<device, keybits, pressed, seen>>
    BY <1>3 DEF NextRound, options, uinput
  <2>2. pressed = {}
    BY <2>1 DEF PhaseInv
  <2>3. Covered(seen)'
    BY <2>1, KeyStays DEF SeenInv, Covered
  <2>. QED
    BY <2>1, <2>2, <2>3 DEF PhaseInv, SeenInv
<1>4. CASE Stop
  <2>1. /\ main = "stop" /\ main' = "done" /\ todo' = todo /\ pressed' = {} /\ seen' = {}
    BY <1>4 DEF Stop, UINPUT_term
  <2>2. todo = <<>>
    BY <2>1 DEF PhaseInv
  <2>. QED
    BY <2>1, <2>2 DEF PhaseInv, SeenInv, Covered
<1>. QED
  BY <1>1, <1>2, <1>3, <1>4

(* sendKeyEventToIARM starts the event that fits what is down. *)
LEMMA SendStep ==
    ASSUME Inv, KeyDown \/ KeyRepeat \/ KeyUp
    PROVE  PhaseInv' /\ SeenInv'
<1> USE DEF Inv
<1>1. /\ todo = <<>> /\ keyCode' = keyCode /\ UNCHANGED <<device, keybits, pressed, seen>>
  BY DEF KeyDown, KeyRepeat, KeyUp, Send, options, uinput
<1>2. Key' = Key /\ Down' = Down
  BY <1>1, KeyStays
<1>3. SeenInv'
  BY <1>1, <1>2 DEF SeenInv, Covered
<1>4. CASE ~device
  <2>1. todo' = <<>> /\ pressed' = {}
    BY <1>1, <1>4 DEF KeyDown, KeyRepeat, KeyUp, Send, SeenInv
  <2>. QED
    BY <1>1, <1>3, <1>4, <2>1 DEF PhaseInv
<1>5. CASE device /\ KeyDown
  <2>1. /\ main = "down" /\ main' \in {"repeat", "up"}
        /\ todo' = KeySequence("down") /\ value' = 1
    BY <1>5 DEF KeyDown, Send, Value
  <2>2. pressed = {}
    BY <1>1, <2>1 DEF PhaseInv
  <2>. QED
    BY <1>1, <1>2, <1>3, <2>1, <2>2, Sequences DEF PhaseInv
<1>6. CASE device /\ KeyRepeat
  <2>1. main = "repeat" /\ main' = main /\ todo' = KeySequence("repeat") /\ value' = 2
    BY <1>6 DEF KeyRepeat, Send, Value
  <2>2. pressed = Down
    BY <1>1, <1>6, <2>1 DEF PhaseInv
  <2>. QED
    BY <1>1, <1>2, <1>3, <2>1, <2>2, Sequences DEF PhaseInv
<1>7. CASE device /\ KeyUp
  <2>1. /\ main \in {"repeat", "up"} /\ main' = "next"
        /\ todo' = KeySequence("up") /\ value' = 0
    BY <1>7 DEF KeyUp, Send, Value
  <2>2. pressed = Down
    BY <1>1, <1>7, <2>1 DEF PhaseInv
  <2>. QED
    BY <1>1, <1>2, <1>3, <2>1, <2>2, Sequences DEF PhaseInv
<1>. QED
  BY <1>4, <1>5, <1>6, <1>7

(* One key of the event is written, or the write of it fails. *)
LEMMA WriteStep ==
    ASSUME Inv, WriteKey \/ WriteFails
    PROVE  PhaseInv' /\ SeenInv'
<1> USE DEF Inv
<1>1. PICK c, m : c = Key.uCode /\ m = Key.uModi
  OBVIOUS
<1>2. /\ todo # <<>> /\ todo' = Tail(todo) /\ main' = main /\ value' = value
      /\ keyCode' = keyCode /\ keybits' = keybits
  BY DEF WriteKey, WriteFails, Writing, options
<1>3. Key' = Key /\ Down' = Down /\ Down = {c, m} \cap keybits
  BY <1>1, <1>2, KeyStays DEF Down
<1>4. None \notin keybits /\ pressed \subseteq keybits
  BY KeyOf DEF TypeOK
<1>5. \/ /\ WriteKey
         /\ device /\ device' = device /\ pressed' = Kernel(Head(todo))
         /\ seen' = pressed' \/ seen' = seen
      \/ ~device' /\ pressed' = {} /\ seen' = {}
  BY DEF WriteKey, WriteFails, UINPUT_term
<1>6. PhaseInv'
  <2>1. CASE value = 1 /\ main \in {"repeat", "up"} /\ m = None /\ todo = <<c>> /\ pressed = {}
    <3>1. todo' = <<>> /\ Head(todo) = c
      BY <1>2, <2>1, HeadTail
    <3>2. device' => pressed' = Down
      BY <1>3, <1>4, <1>5, <2>1, <3>1 DEF Kernel
    <3>. QED
      BY <1>2, <1>3, <2>1, <3>1, <3>2 DEF PhaseInv
  <2>2. CASE /\ value = 1 /\ main \in {"repeat", "up"}
             /\ m # None /\ todo = <<m, c>> /\ pressed = {}
    <3>1. todo' = <<c>> /\ Head(todo) = m
      BY <1>2, <2>2, HeadTail
    <3>2. device' => pressed' = {m} \cap keybits
      BY <1>5, <2>2, <3>1 DEF Kernel
    <3>. QED
      BY <1>1, <1>2, <1>3, <2>2, <3>1, <3>2 DEF PhaseInv
  <2>3. CASE /\ value = 1 /\ main \in {"repeat", "up"} /\ m # None /\ todo = <<c>>
             /\ device => pressed = {m} \cap keybits
    <3>1. todo' = <<>> /\ Head(todo) = c
      BY <1>2, <2>3, HeadTail
    <3>2. device' => pressed' = Down
      BY <1>3, <1>5, <2>3, <3>1 DEF Kernel
    <3>. QED
      BY <1>2, <1>3, <2>3, <3>1, <3>2 DEF PhaseInv
  <2>4. CASE value = 2 /\ main = "repeat" /\ todo = <<c>> /\ (device => pressed = Down)
    <3>1. todo' = <<>> /\ Head(todo) = c
      BY <1>2, <2>4, HeadTail
    <3>2. device' => pressed' = Down
      BY <1>3, <1>5, <2>4, <3>1 DEF Kernel
    <3>. QED
      BY <1>2, <1>3, <2>4, <3>1, <3>2 DEF PhaseInv
  <2>5. CASE /\ value = 0 /\ main = "next"
             /\ m = None /\ todo = <<c>> /\ (device => pressed = Down)
    <3>1. todo' = <<>> /\ Head(todo) = c
      BY <1>2, <2>5, HeadTail
    <3>2. pressed' = {}
      BY <1>3, <1>4, <1>5, <2>5, <3>1 DEF Kernel
    <3>. QED
      BY <1>2, <2>5, <3>1, <3>2 DEF PhaseInv
  <2>6. CASE /\ value = 0 /\ main = "next"
             /\ m # None /\ todo = <<c, m>> /\ (device => pressed = Down)
    <3>1. todo' = <<m>> /\ Head(todo) = c
      BY <1>2, <2>6, HeadTail
    <3>2. device' => pressed' = ({m} \cap keybits) \ {c}
      BY <1>3, <1>5, <2>6, <3>1 DEF Kernel
    <3>. QED
      BY <1>1, <1>2, <1>3, <2>6, <3>1, <3>2 DEF PhaseInv
  <2>7. CASE /\ value = 0 /\ main = "next" /\ m # None /\ todo = <<m>>
             /\ device => pressed = ({m} \cap keybits) \ {c}
    <3>1. todo' = <<>> /\ Head(todo) = m
      BY <1>2, <2>7, HeadTail
    <3>2. pressed' = {}
      BY <1>5, <2>7, <3>1 DEF Kernel
    <3>. QED
      BY <1>2, <2>7, <3>1, <3>2 DEF PhaseInv
  <2>. QED
    BY <1>1, <1>2, <2>1, <2>2, <2>3, <2>4, <2>5, <2>6, <2>7 DEF PhaseInv
<1>7. Covered(pressed)'
  <2>1. (PhaseInv /\ (~device => pressed = {}) => Covered(pressed))'
    BY PhaseCovers, PTL
  <2>. QED
    BY <1>5, <1>6, <2>1
<1>8. Covered(seen)'
  BY <1>2, <1>3, <1>5, <1>7 DEF Covered, SeenInv
<1>. QED
  BY <1>5, <1>6, <1>8 DEF SeenInv

LEMMA Invariant == Spec => []Inv
<1>1. Init => PhaseInv /\ SeenInv
  BY DEF Init, PhaseInv, SeenInv, Covered
<1>2. Inv /\ TypeOK' /\ EarlyInv' /\ [Next]_vars => PhaseInv' /\ SeenInv'
  <2> SUFFICES ASSUME Inv, TypeOK', EarlyInv', [Next]_vars PROVE PhaseInv' /\ SeenInv'
    OBVIOUS
  <2>1. CASE UNCHANGED vars
    <3>1. Key' = Key /\ Down' = Down
      BY <2>1, KeyStays DEF vars, options, uinput
    <3>. QED
      BY <2>1, <3>1 DEF vars, options, uinput, Inv, PhaseInv, SeenInv, Covered
  <2>. QED
    BY <2>1, QuietStep, SendStep, WriteStep DEF Next
<1>. QED
  BY <1>1, <1>2, TypeInvariant, PTL DEF Spec, Inv

(* The key is never down without its modifier, for the kernel or for a reader,
   between any two writes and after any failure (uinput.c:97-147). *)
THEOREM ModifierAlwaysCovers == Spec => []ModifierCovers
<1>1. Inv => ModifierCovers
  BY PhaseCovers DEF Inv, SeenInv, Covered, ModifierCovers
<1>. QED
  BY <1>1, Invariant, PTL

(* No repeat is written for a key that is up (IARM_BUS_UIEventSimulator.c:196-202). *)
THEOREM RepeatsOnlyHeld == Spec => []RepeatsWhileHeld
<1>1. Inv => RepeatsWhileHeld
  BY DEF Inv, PhaseInv, Down, RepeatsWhileHeld
<1>. QED
  BY <1>1, Invariant, PTL

(* During sleep(interval) and at the end nothing is down, whatever failed
   (IARM_BUS_UIEventSimulator.c:192-214). *)
THEOREM NothingHeldBetween == Spec => []ReleasedBetweenRounds
<1>1. Inv => ReleasedBetweenRounds
  BY DEF Inv, PhaseInv, ReleasedBetweenRounds
<1>. QED
  BY <1>1, Invariant, PTL

-----------------------------------------------------------------------------
(* Counting: a round begun and a key gone down stay in step while nothing fails. *)
LEMMA CountStart ==
    ASSUME Start
    PROVE  CountInv'
<1>1. PICK failed \in SUBSET InitCalls :
        faults' = Cardinality(failed) /\ device' = InitSucceeds(failed)
  BY DEF Start
<1>2. IsFiniteSet(failed)
  BY <1>1, InitCallsFinite, FS_Subset
<1>3. faults' = 0 => device'
  BY <1>1, <1>2, FS_EmptySet DEF InitSucceeds
<1>. QED
  BY <1>3 DEF Start, CountInv

LEMMA CountSend ==
    ASSUME Inv, CountInv, KeyDown \/ KeyRepeat \/ KeyUp
    PROVE  CountInv'
<1>1. todo = <<>> /\ UNCHANGED <<keyCode, repeat, device, keybits, pressed, downs, faults>>
  BY DEF KeyDown, KeyRepeat, KeyUp, Send, options, uinput
<1>2. Key' = Key
  BY <1>1, KeyStays
<1>3. i \in Nat /\ repeat \in Int
  BY Ticks DEF Inv, TypeOK
<1>4. CASE KeyDown
  <2>1. main = "down" /\ main' \in {"repeat", "up"} /\ i' = i
    BY <1>4 DEF KeyDown
  <2>2. pressed = {}
    BY <1>1, <2>1 DEF Inv, PhaseInv
  <2>. QED
    BY <1>1, <1>2, <2>1, <2>2 DEF CountInv
<1>5. CASE KeyRepeat
  <2>1. main' = main /\ i' = i
    BY <1>5 DEF KeyRepeat
  <2>. QED
    BY <1>1, <1>2, <2>1 DEF CountInv
<1>6. CASE KeyUp
  <2>1. main \in {"repeat", "up"} /\ main' = "next" /\ i' = i + 1
    BY <1>6 DEF KeyUp
  <2>2. device => pressed = {Key.uCode, Key.uModi} \cap keybits
    BY <1>1, <2>1 DEF Inv, PhaseInv, Down
  <2>3. faults = 0 => device
    BY <2>1 DEF CountInv
  <2>4. faults = 0 /\ Key.uCode \in keybits => i < repeat /\ downs = i + 1
    BY <2>1, <2>2, <2>3 DEF CountInv
  <2>. QED
    BY <1>1, <1>2, <1>3, <2>1, <2>3, <2>4 DEF CountInv
<1>. QED
  BY <1>4, <1>5, <1>6

LEMMA CountWrite ==
    ASSUME Inv, CountInv, WriteKey \/ WriteFails
    PROVE  CountInv'
<1>1. /\ todo # <<>> /\ UNCHANGED <<main, keyCode, repeat, i, keybits>>
  BY DEF WriteKey, WriteFails, Writing, options
<1>2. Key' = Key
  BY <1>1, KeyStays
<1>3. (main \in {"repeat", "up"} /\ value \in {1, 2}) \/ (main = "next" /\ value = 0)
  BY <1>1 DEF Inv, PhaseInv
<1>4. i \in Nat /\ repeat \in Int /\ faults \in Nat /\ downs \in Nat
  BY Ticks, NumbersAssumption DEF Inv, TypeOK
<1>5. faults = 0 => device
  BY <1>3 DEF CountInv
<1>6. CASE faults' = 0
  <2>1. WriteKey /\ faults = 0 /\ device' /\ pressed' = Kernel(Head(todo))
    BY <1>4, <1>5, <1>6 DEF WriteKey, WriteFails, Fault
  <2>2. downs' = IF Key.uCode \in pressed' \ pressed THEN downs + 1 ELSE downs
    BY <2>1 DEF WriteKey, Key
  <2>3. CASE main \in {"repeat", "up"}
    <3>1. Key.uCode \in pressed => Key.uCode \in pressed'
      BY <1>3, <2>1, <2>3 DEF Kernel
    <3>. QED
      BY <1>1, <1>2, <1>4, <2>1, <2>2, <2>3, <3>1 DEF CountInv
  <2>4. CASE main = "next"
    <3>1. Key.uCode \notin pressed' \ pressed
      BY <1>3, <2>1, <2>4 DEF Kernel
    <3>. QED
      BY <1>1, <1>2, <2>1, <2>2, <2>4, <3>1 DEF CountInv
  <2>. QED
    BY <1>3, <2>3, <2>4
<1>. QED
  BY <1>6 DEF CountInv

LEMMA CountInvariant == Spec => []CountInv
<1>1. Init => CountInv
  BY DEF Init, CountInv
<1>2. Inv /\ CountInv /\ [Next]_vars => CountInv'
  <2> SUFFICES ASSUME Inv, CountInv, [Next]_vars PROVE CountInv'
    OBVIOUS
  <2>1. CASE OptionRepeat \/ OptionPress \/ OptionKey \/ OptionUnknownKey
    <3>1. /\ main = "parse" /\ main' \in {"parse", "done"} /\ faults' = faults
          /\ main' = "parse" => device' = device
      BY <2>1 DEF OptionRepeat, OptionPress, OptionKey, OptionUnknownKey, Option, uinput
    <3>. QED
      BY <3>1 DEF CountInv
  <2>2. CASE OptionsEnd
    <3>1. /\ main = "parse" /\ main' = IF keyCode # None THEN "next" ELSE "stop"
          /\ UNCHANGED <<keyCode, i, device, keybits, downs, faults>>
      BY <2>2 DEF OptionsEnd, options, uinput
    <3>2. Key' = Key /\ i = 0 /\ downs = 0
      BY <3>1, KeyStays DEF Inv, EarlyInv
    <3>3. keyCode = None => Key.uCode \notin keybits
      BY KeyOf DEF Inv
    <3>. QED
      BY <3>1, <3>2, <3>3 DEF CountInv
  <2>3. CASE NextRound
    <3>1. /\ main = "next" /\ main' = IF i < repeat THEN "down" ELSE "stop"
          /\ UNCHANGED <<keyCode, repeat, i, device, keybits, downs, faults>>
      BY <2>3 DEF NextRound, options, uinput
    <3>2. Key' = Key /\ i \in Nat /\ repeat \in Int
      BY <3>1, KeyStays, Ticks DEF Inv, TypeOK
    <3>. QED
      BY <3>1, <3>2 DEF CountInv
  <2>4. CASE Stop
    BY <2>4 DEF Stop, CountInv
  <2>5. CASE UNCHANGED vars
    <3>1. Key' = Key
      BY <2>5, KeyStays DEF vars, options, uinput
    <3>. QED
      BY <2>5, <3>1 DEF vars, options, uinput, CountInv
  <2>. QED
    BY <2>1, <2>2, <2>3, <2>4, <2>5, CountStart, CountSend, CountWrite DEF Next
<1>. QED
  BY <1>1, <1>2, Invariant, PTL DEF Spec

(* -r is the number of times the key goes down, held or not, in every order of
   the options, when nothing fails (IARM_BUS_UIEventSimulator.c:192-214, 261). *)
THEOREM SentAsAsked == Spec => []SentAsOften
<1>1. CountInv => SentAsOften
  BY DEF CountInv, SentAsOften
<1>. QED
  BY <1>1, CountInvariant, PTL
=============================================================================
