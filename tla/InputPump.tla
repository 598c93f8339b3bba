----------------------------- MODULE InputPump -----------------------------
(***************************************************************************)
(* src/s3e_input.c: the controller turned into a pointer (cursor mode) or  *)
(* into keys and touchpads (game mode).  input_pump opens and closes the   *)
(* controller, samples it and tells the game of every change by a          *)
(* callback.  In a callback the game may update the keyboard or clear it;  *)
(* another pump is refused.                                                *)
(*                                                                         *)
(* A key is pressed by a button of its own, two of them by a trigger too;  *)
(* the cursor presses with the button of one key.  Positions are left out, *)
(* and so is the pointer's state as it is polled: it follows               *)
(* g_pointer_down.  The game has its callbacks registered throughout.      *)
(***************************************************************************)
EXTENDS Naturals, SequencesExt

CONSTANTS Keys,     \* the keys of the game, eleven in the code, in the order they are set
          Codes,    \* the same, in the order of their codes
          Sticks,   \* the sticks, each with its touchpad, two in the code
          Triggers, \* the keys that a trigger presses, too, KEY_AIM and KEY_SHOOT
          Action    \* the key whose button presses the pointer in cursor mode, KEY_ACTION

Key == ToSet(Keys)
Stick == ToSet(Sticks)

ASSUME InputConstants == /\ Keys \in Seq(Key) /\ Codes \in Seq(Key) /\ Sticks \in Seq(Stick)
                         /\ ToSet(Codes) = Key
                         /\ Triggers \subseteq Key /\ Action \in Key

VARIABLES attached,    \* what SDL says of the controller
          controller,  \* g_controller is open
          cursor,      \* g_cursor_active
          prevSelect, prevA,
          triggerDown, \* g_trigger_down, by key
          live,        \* the states of each key, g_keyboard_live
          published,   \* g_keyboard_published
          pointer,     \* g_pointer_down
          pad,         \* g_touchpad_active, by stick
          sample,      \* the controller as it was last sampled
          work,        \* what the pump has still to do
          publishing,  \* the pump was called by s3eKeyboardUpdate
          calling,     \* a callback of the game runs
          told,        \* what the game was last told of each key, pointer and pad
          cleared      \* the keys cleared since it was told they are down

inputVars == <<attached, controller, cursor, prevSelect, prevA, triggerDown, live, published,
               pointer, pad, sample, work, publishing, calling, told, cleared>>
modeVars == <<cursor, prevSelect>>
keyVars == <<live, published, cleared>>

Edge == {"down", "pressed", "released"}
Sample == [select : BOOLEAN, buttons : SUBSET Key, trigger : [Triggers -> {"low", "between", "high"}],
           sticks : SUBSET Stick]
AtRest == [select |-> FALSE, buttons |-> {}, trigger |-> [k \in Triggers |-> "low"], sticks |-> {}]

Task(do, what) == [do |-> do, what |-> what]
Tasks == [do : {"releasePad", "movePad"}, what : Stick]
         \cup [do : {"releaseKey", "setKey"}, what : Key]
         \cup [do : {"releasePointer", "resetTriggers", "close", "scan", "movePointer",
                     "pressA", "setA"}, what : {"none"}]
Each(do, whats) == [i \in DOMAIN whats |-> Task(do, whats[i])]
Once(do) == <<Task(do, "none")>>

InputTypeOK == /\ {attached, controller, cursor, prevSelect, prevA, pointer, publishing, calling} \subseteq BOOLEAN
               /\ live \in [Key -> SUBSET Edge]
               /\ published \in [Key -> SUBSET Edge]
               /\ triggerDown \subseteq Triggers
               /\ pad \subseteq Stick
               /\ sample \in Sample
               /\ work \in Seq(Tasks)
               /\ told \in [keys : SUBSET Key, pads : SUBSET Stick, pointer : BOOLEAN]
               /\ cleared \subseteq Key

InputInit ==
    /\ attached \in BOOLEAN
    /\ controller = FALSE /\ cursor = TRUE /\ prevSelect = FALSE /\ prevA = FALSE
    /\ triggerDown = {} /\ pointer = FALSE /\ pad = {} /\ publishing = FALSE /\ calling = FALSE
    /\ live = [k \in Key |-> {}] /\ published = [k \in Key |-> {}]
    /\ sample = AtRest /\ work = <<>>
    /\ told = [keys |-> {}, pads |-> {}, pointer |-> FALSE]
    /\ cleared = {}

Pumping == work # <<>> \/ calling \/ publishing
InGuest == calling \/ ~Pumping

-----------------------------------------------------------------------------
(* What the game calls. *)

Edges == {"pressed", "released"}

Published == /\ published' = live
             /\ live' = [k \in Key |-> live[k] \ Edges]

ReleasePads == Each("releasePad", Sticks)
ReleaseAll == ReleasePads \o Each("releaseKey", Codes) \o Once("resetTriggers")

\* Mutation of Closing: the keys are not released.
ClosingLeaving == Once("releasePointer") \o ReleasePads \o Once("resetTriggers") \o Once("close")

Closing == Once("releasePointer") \o ReleaseAll \o Once("close")

\* The pump's work begins with the controller; if one is open in the end it is sampled.
Begin(forKeyboard) ==
    /\ ~Pumping
    /\ work' = (IF controller /\ ~attached THEN Closing ELSE <<>>) \o Once("scan")
    /\ publishing' = forKeyboard
    /\ UNCHANGED <<attached, controller, modeVars, prevA, triggerDown, keyVars, pointer, pad,
                   sample, calling, told>>

\* s3eKeyboardUpdate publishes after the pump, or at once if the pump is refused.
NestedKeyboardUpdate ==
    /\ calling
    /\ Published
    /\ UNCHANGED <<attached, controller, modeVars, prevA, triggerDown, pointer, pad, sample,
                   work, publishing, calling, told, cleared>>

Publish == /\ publishing /\ work = <<>> /\ ~calling
           /\ Published
           /\ publishing' = FALSE
           /\ UNCHANGED <<attached, controller, modeVars, prevA, triggerDown, pointer, pad, sample,
                          work, calling, told, cleared>>

ClearState == /\ InGuest
              /\ cleared' = cleared \cup {k \in Key : "down" \in live[k]}
              /\ live' = [k \in Key |-> {}] /\ published' = [k \in Key |-> {}]
              /\ triggerDown' = {}
              /\ UNCHANGED <<attached, controller, modeVars, prevA, pointer, pad, sample, work,
                             publishing, calling, told>>

CallbackReturn == /\ calling /\ calling' = FALSE
                  /\ UNCHANGED <<attached, controller, modeVars, prevA, triggerDown, keyVars, pointer,
                                 pad, sample, work, publishing, told>>

Plug == /\ attached' = ~attached
        /\ UNCHANGED <<controller, modeVars, prevA, triggerDown, keyVars, pointer, pad, sample, work,
                       publishing, calling, told>>

-----------------------------------------------------------------------------
(* The pump, one change and its callback at a time. *)

Doing(do) == work # <<>> /\ ~calling /\ Head(work).do = do
Done == work' = Tail(work)

\* Tell the game, in a callback.
Tell(now) == calling' = TRUE /\ told' = now
Silently == UNCHANGED <<calling, told>>

\* A motion, told if there was one.
Moving == calling' \in BOOLEAN /\ UNCHANGED told

Switched(things, thing, on) == IF on THEN things \cup {thing} ELSE things \ {thing}

ReleasePointer == /\ Doing("releasePointer") /\ Done
                  /\ pointer' = FALSE
                  /\ IF pointer THEN Tell([told EXCEPT !.pointer = FALSE]) ELSE Silently
                  /\ UNCHANGED <<attached, controller, modeVars, prevA, triggerDown, keyVars, pad,
                                 sample, publishing>>

SetPad(p, active) == /\ pad' = Switched(pad, p, active)
                     /\ Tell([told EXCEPT !.pads = Switched(@, p, active)])

ReleasePad == /\ Doing("releasePad") /\ Done
              /\ IF Head(work).what \in pad THEN SetPad(Head(work).what, FALSE)
                 ELSE UNCHANGED pad /\ Silently
              /\ UNCHANGED <<attached, controller, modeVars, prevA, triggerDown, keyVars, pointer,
                             sample, publishing>>

SetKey(k, down) ==
    IF ("down" \in live[k]) = down THEN UNCHANGED keyVars /\ Silently
    ELSE /\ live' = [live EXCEPT ![k] = IF down THEN @ \cup {"down", "pressed"}
                                        ELSE (@ \ {"down"}) \cup {"released"}]
         /\ cleared' = cleared \ {k}
         /\ Tell([told EXCEPT !.keys = Switched(@, k, down)])
         /\ UNCHANGED published

\* Mutation of ReleaseKey: without its callback.
ReleaseKeyUntold == /\ Doing("releaseKey") /\ Done
                    /\ live' = [live EXCEPT ![Head(work).what] = @ \ {"down"}]
                    /\ UNCHANGED <<attached, controller, modeVars, prevA, triggerDown, published, cleared,
                                   pointer, pad, sample, publishing>> /\ Silently

ReleaseKey == /\ Doing("releaseKey") /\ Done
              /\ SetKey(Head(work).what, FALSE)
              /\ UNCHANGED <<attached, controller, modeVars, prevA, triggerDown, pointer, pad, sample,
                             publishing>>

ResetTriggers == /\ Doing("resetTriggers") /\ Done
                 /\ triggerDown' = {}
                 /\ UNCHANGED <<attached, controller, modeVars, prevA, keyVars, pointer, pad, sample,
                                publishing>> /\ Silently

CloseController == /\ Doing("close") /\ Done
                   /\ controller' = FALSE
                   /\ prevSelect' = FALSE /\ prevA' = FALSE
                   /\ UNCHANGED <<attached, cursor, triggerDown, keyVars, pointer, pad, sample,
                                  publishing>> /\ Silently

ModeTasks(active) ==
    IF active THEN ReleaseAll \o Once("movePointer") \o Once("pressA")
    ELSE Once("releasePointer") \o Each("movePad", Sticks) \o Once("setA") \o Each("setKey", Keys)

\* With none open the pump looks for one, unless it did so a second ago, and may find none
\* that opens.
NotFound == /\ ~controller /\ Done
            /\ UNCHANGED <<controller, modeVars, sample>>

\* An open controller is sampled.  Select, when it goes down, changes the mode; what the old
\* mode held is released first, and again, if need be, in the new one.
Sampled(s) == LET toggled == s.select /\ ~prevSelect
              IN  /\ controller \/ attached
                  /\ controller' = TRUE
                  /\ sample' = s
                  /\ prevSelect' = s.select
                  /\ cursor' = (cursor # toggled)
                  /\ work' = (IF ~toggled THEN <<>>
                              ELSE IF cursor THEN Once("releasePointer") ELSE ReleaseAll)
                             \o ModeTasks(cursor')

Scan == /\ Doing("scan")
        /\ NotFound \/ \E s \in Sample : Sampled(s)
        /\ UNCHANGED <<attached, prevA, triggerDown, keyVars, pointer, pad, publishing>> /\ Silently

MovePointer == /\ Doing("movePointer") /\ Done
               /\ Moving
               /\ UNCHANGED <<attached, controller, modeVars, prevA, triggerDown, keyVars, pointer, pad,
                              sample, publishing>>

PressA == /\ Doing("pressA") /\ Done
          /\ LET a == Action \in sample.buttons
             IN  /\ IF a = prevA THEN UNCHANGED pointer /\ Silently
                    ELSE pointer' = a /\ Tell([told EXCEPT !.pointer = a])
                 /\ prevA' = a
          /\ UNCHANGED <<attached, controller, modeVars, triggerDown, keyVars, pad, sample, publishing>>

SetA == /\ Doing("setA") /\ Done
        /\ prevA' = (Action \in sample.buttons)
        /\ UNCHANGED <<attached, controller, modeVars, triggerDown, keyVars, pointer, pad, sample,
                       publishing>> /\ Silently

MovePad == /\ Doing("movePad") /\ Done
           /\ LET p == Head(work).what
                  pushed == p \in sample.sticks
              IN  IF (p \in pad) # pushed THEN SetPad(p, pushed)
                  ELSE UNCHANGED pad /\ IF pushed THEN Moving ELSE Silently
           /\ UNCHANGED <<attached, controller, modeVars, prevA, triggerDown, keyVars, pointer, sample,
                          publishing>>

\* A trigger down stays down between the thresholds.
Triggered(k) == sample.trigger[k] = "high" \/ (k \in triggerDown /\ sample.trigger[k] = "between")

\* The trigger is not looked at while the button is down.
SetGameKey == /\ Doing("setKey") /\ Done
              /\ LET k == Head(work).what
                     looked == k \in Triggers \ sample.buttons
                     down == k \in sample.buttons \/ (looked /\ Triggered(k))
                 IN  /\ SetKey(k, down)
                     /\ triggerDown' = IF looked THEN Switched(triggerDown, k, down) ELSE triggerDown
              /\ UNCHANGED <<attached, controller, modeVars, prevA, pointer, pad, sample, publishing>>

Pump == \/ ReleasePointer \/ ReleasePad \/ ReleaseKey \/ ResetTriggers \/ CloseController
        \/ Scan \/ MovePointer \/ PressA \/ SetA \/ MovePad \/ SetGameKey

InputNext == \/ \E forKeyboard \in BOOLEAN : Begin(forKeyboard)
             \/ NestedKeyboardUpdate \/ Publish \/ ClearState \/ CallbackReturn
             \/ Plug \/ Pump

InputSpec == InputInit /\ [][InputNext]_inputVars

-----------------------------------------------------------------------------
\* What the controller holds.
HeldByController(k) == k \in sample.buttons \/ (k \in Triggers /\ sample.trigger[k] # "low")

NothingAmiss == /\ pad # {} => controller /\ ~cursor /\ pad \subseteq sample.sticks
                /\ pointer => controller /\ cursor /\ Action \in sample.buttons
                /\ \A k \in Key : "down" \in live[k] => controller /\ ~cursor /\ HeldByController(k)

\* Between pumps nothing is held that the controller does not hold: no key or touchpad in
\* cursor mode, no pointer in game mode, nothing at all without a controller, however the
\* mode changed or the controller went, and whatever the game called in the callbacks.
NothingStuck == ~Pumping => NothingAmiss

\* What the game was told last is how things are, except for a key it has cleared: no
\* press is left without its release.
ToldAsItIs == ~calling => /\ told.pads = pad
                          /\ told.pointer = pointer
                          /\ \A k \in Key \ cleared : k \in told.keys <=> "down" \in live[k]
=============================================================================
