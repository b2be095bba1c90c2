------------------------------- MODULE Input -------------------------------
(***************************************************************************)
(* The keys (applications/services/input/input.c): the input thread        *)
(* publishes Press and Release of debounced keys, and Short before the     *)
(* Release of a key that was not held for long; a timer of each key        *)
(* publishes Long and Repeat meanwhile.  The GUI's subscriber puts every   *)
(* event into a queue and waits while that is full.                        *)
(***************************************************************************)
EXTENDS Naturals, Sequences

CONSTANTS
    Keys,               \* input_pins
    GuiQueueSize,       \* the length of Gui.input_queue
    MaxPresses          \* bound: presses and Repeat events of all keys together

InputKeys == {"Up", "Down", "Right", "Left", "Ok", "Back"}
InputTypes == {"Press", "Release", "Short", "Long", "Repeat"}
InputEvents == [key : InputKeys, type : InputTypes]

ASSUME InputAssumption ==
    /\ Keys \subseteq InputKeys
    /\ GuiQueueSize \in Nat \ {0}
    /\ MaxPresses \in Nat

VARIABLES
    keys,           \* InputPinState of each key: state and press_counter
    inputQueue,     \* Gui.input_queue
    presses         \* presses and repeats left

inputVars == <<keys, inputQueue, presses>>

InputTypeOK ==
    /\ keys \in [Keys -> {"up", "down", "long", "releasing"}]
    /\ inputQueue \in Seq(InputEvents) /\ Len(inputQueue) <= GuiQueueSize
    /\ presses \in 0 .. MaxPresses

InputInit ==
    /\ keys = [k \in Keys |-> "up"]
    /\ inputQueue = <<>>
    /\ presses = MaxPresses

Event(key, type) == [key |-> key, type |-> type]

\* gui_input_events_callback waits for space while the publisher holds the pubsub.
Publish(k, type) ==
    /\ Len(inputQueue) < GuiQueueSize
    /\ inputQueue' = Append(inputQueue, Event(k, type))

\* The input thread sends Short and Release of a key before it looks at the next.
BetweenKeys == \A k \in Keys : keys[k] # "releasing"

KeyPressed(k) ==
    /\ BetweenKeys
    /\ keys[k] = "up" /\ presses > 0
    /\ Publish(k, "Press")
    /\ keys' = [keys EXCEPT ![k] = "down"]
    /\ presses' = presses - 1

\* input_press_timer_callback
KeyHeld(k) ==
    \/ /\ keys[k] = "down"
       /\ Publish(k, "Long")
       /\ keys' = [keys EXCEPT ![k] = "long"]
       /\ UNCHANGED presses
    \/ /\ keys[k] = "long" /\ presses > 0
       /\ Publish(k, "Repeat")
       /\ presses' = presses - 1
       /\ UNCHANGED keys

\* The timer is stopped, and has stopped, before Short or Release is published.
KeyLet(k) ==
    /\ BetweenKeys
    /\ keys[k] = "down"
    /\ Publish(k, "Short")
    /\ keys' = [keys EXCEPT ![k] = "releasing"]
    /\ UNCHANGED presses

KeyReleased(k) ==
    /\ \/ keys[k] = "releasing"
       \/ keys[k] = "long" /\ BetweenKeys
    /\ Publish(k, "Release")
    /\ keys' = [keys EXCEPT ![k] = "up"]
    /\ UNCHANGED presses
=============================================================================
