------------------------------- MODULE Shell -------------------------------
(***************************************************************************)
(* The shell's reminders (notify.rs, lib.rs): which conversations are       *)
(* unread, the red dot of the tray icon, and the settings the decision is   *)
(* taken from. Two threads work on them. The event thread hands a message   *)
(* to the web view and then works through on_incoming: it copies the cached *)
(* settings, asks the main thread for the focus, decides under the lock,    *)
(* and asks the main thread again to change the icon. The main thread runs  *)
(* the commands of the web view and the events of the window, each under    *)
(* the same lock, and changes the icon itself once the lock is released.    *)
(***************************************************************************)
EXTENDS FiniteSets, Naturals

CONSTANTS
    Conv,        \* conversations
    None,        \* no conversation
    MaxArrivals, \* bound: messages and offers that arrive
    MaxCommands  \* bound: commands, and events of the window

ASSUME NoneAssumption == None \notin Conv

VARIABLES
    saved,   \* settings.json: [muted, enabled]
    cache,   \* Notifier.settings, what the reminders go by
    loaded,  \* the muted conversations as the settings page read them
    active,  \* NotifyState.active
    unread,  \* NotifyState.unread
    recent,  \* conversations last notified less than NOTIFY_THROTTLE ago
    red,     \* the tray shows the icon with the dot
    front,   \* the window is visible and has the focus
    gained,  \* Focused(true) waits for the main thread
    main,    \* the main thread [pc, conv, tray]
    pump,    \* the event thread [pc, conv, by, focused, tray]
    left,    \* bound: [arrivals, commands] still allowed
    crossed, \* history: the icon was set by an outcome older than the last
    stale    \* history: unread by settings or a focus that no longer held, or muted anew by
             \* a settings page that was read before it was unmuted

vars == <<saved, cache, loaded, active, unread, recent, red, front, gained, main, pump,
          left, crossed, stale>>

state == <<active, unread, recent, stale>>

\* An Outcome's tray: what the icon must become, if it changes.
Trays == {"keep", "dot", "plain"}

Default == [muted |-> {}, enabled |-> TRUE]

Waiting == [pc |-> "idle", conv |-> None, by |-> Default, focused |-> FALSE, tray |-> "keep"]
Resting == [pc |-> "idle", conv |-> None, tray |-> "keep"]

Init ==
    /\ saved \in [muted : SUBSET Conv, enabled : BOOLEAN] /\ cache = saved /\ loaded = saved.muted
    /\ active = None /\ unread = {} /\ recent = {} /\ red = FALSE
    /\ front = TRUE /\ gained = FALSE
    /\ main = Resting /\ pump = Waiting
    /\ left = [arrivals |-> MaxArrivals, commands |-> MaxCommands]
    /\ crossed = FALSE /\ stale = {}

-----------------------------------------------------------------------------
(* NotifyState. *)

\* tray_transition, forgetting that the last one may have gone (mutation).
TransitionUp(before, after) ==
    IF before = {} /\ after # {} THEN "dot" ELSE "keep"

\* tray_transition.
Transition(before, after) ==
    IF (before = {}) = (after = {}) THEN "keep" ELSE IF after = {} THEN "plain" ELSE "dot"

\* decide: rules 1 and 2.
Unheeded(c, by, focused) == c \in by.muted \/ (focused /\ active = c)

\* decide: rules 3 to 5.
Notifies(c, by, focused) == ~Unheeded(c, by, focused) /\ by.enabled /\ c \notin recent

\* The lock is released with an outcome for the icon; the history looks at the
\* other thread, which may hold an older one it has not carried out.
Leaves(after, older) ==
    /\ unread' = after
    /\ crossed' = IF Transition(unread, after) = "keep" THEN crossed ELSE older

-----------------------------------------------------------------------------
(* The event thread: a message or an offered file is emitted to the web view, then
   on_incoming. *)

Arrive(c) ==
    /\ pump.pc = "idle" /\ left.arrivals > 0
    /\ pump' = [Waiting EXCEPT !.pc = "copy", !.conv = c]
    /\ left' = [left EXCEPT !.arrivals = @ - 1]
    /\ UNCHANGED <<saved, cache, loaded, state, red, front, gained, main, crossed>>

\* The settings are copied and their lock released.
Copy ==
    /\ pump.pc = "copy"
    /\ pump' = [pump EXCEPT !.pc = "look", !.by = cache]
    /\ UNCHANGED <<saved, cache, loaded, state, red, front, gained, main, left, crossed>>

\* window_focused: a question the main thread answers between two of its tasks.
Look ==
    /\ pump.pc = "look" /\ main.pc = "idle"
    /\ pump' = [pump EXCEPT !.pc = "mark", !.focused = front]
    /\ UNCHANGED <<saved, cache, loaded, state, red, front, gained, main, left, crossed>>

Mark ==
    /\ pump.pc = "mark"
    /\ LET c == pump.conv
           after == IF Unheeded(c, pump.by, pump.focused) THEN unread ELSE unread \union {c}
       IN /\ Leaves(after, FALSE)
          /\ recent' = IF Notifies(c, pump.by, pump.focused) THEN recent \union {c} ELSE recent
          /\ stale' = IF Unheeded(c, cache, front) /\ ~Unheeded(c, pump.by, pump.focused)
                      THEN stale \union {c} ELSE stale
          /\ pump' = [pump EXCEPT !.pc = "show", !.tray = Transition(unread, after)]
    /\ UNCHANGED <<saved, cache, loaded, active, red, front, gained, main, left>>

\* apply_tray: tray.set_icon is carried out by the main thread, in its turn. What
\* follows, the notification, changes nothing here.
Show ==
    /\ pump.pc = "show"
    /\ pump.tray = "keep" \/ main.pc = "idle"
    /\ red' = IF pump.tray = "keep" THEN red ELSE pump.tray = "dot"
    /\ pump' = Waiting
    /\ UNCHANGED <<saved, cache, loaded, state, front, gained, main, left, crossed>>

\* NOTIFY_THROTTLE has passed.
Elapse(c) ==
    /\ c \in recent
    /\ recent' = recent \ {c}
    /\ UNCHANGED <<saved, cache, loaded, active, unread, red, front, gained, main, pump, left, crossed, stale>>

-----------------------------------------------------------------------------
(* The main thread. *)

\* A command, or an event the user causes.
Take ==
    /\ main.pc = "idle" /\ left.commands > 0
    /\ left' = [left EXCEPT !.commands = @ - 1]

Without(gone) ==
    /\ Leaves(unread \ gone, pump.pc = "show" /\ pump.tray # "keep")
    /\ stale' = stale \ gone
    /\ main' = [Resting EXCEPT !.pc = "tray", !.tray = Transition(unread, unread \ gone)]

\* notify_set_active: set_active.
SetActive(c) ==
    /\ Take
    /\ active' = c
    /\ Without({c})
    /\ UNCHANGED <<saved, cache, loaded, recent, red, front, gained, pump>>

\* notify_clear_unread: clear_unread, of one conversation or of all.
ClearUnread(gone) ==
    /\ Take
    /\ Without(gone)
    /\ UNCHANGED <<saved, cache, loaded, active, recent, red, front, gained, pump>>

\* get_settings, when the settings page opens.
OpenSettings ==
    /\ main.pc = "idle"
    /\ loaded' = saved.muted
    /\ UNCHANGED <<saved, cache, state, red, front, gained, main, pump, left, crossed>>

\* set_settings: the file, then the cache. The page sends the whole record, and with it
\* the muted conversations as it once read them.
SetSettings(on) ==
    /\ Take
    /\ saved' = [muted |-> loaded, enabled |-> on]
    /\ main' = [Resting EXCEPT !.pc = "reload"]
    /\ UNCHANGED <<cache, loaded, state, red, front, gained, pump, crossed>>

\* set_conversation_muted: the file, then the cache, then the unread mark.
SetMuted(c, on) ==
    /\ Take
    /\ saved' = [saved EXCEPT !.muted = IF on THEN @ \union {c} ELSE @ \ {c}]
    /\ main' = [Resting EXCEPT !.pc = "reload", !.conv = IF on THEN c ELSE None]
    /\ UNCHANGED <<cache, loaded, state, red, front, gained, pump, crossed>>

\* settings::save fails before or after it has emptied the file; the commands return
\* at once, and an empty file is read as the defaults.
SaveFails ==
    /\ Take
    /\ saved' \in {saved, Default}
    /\ UNCHANGED <<cache, loaded, state, red, front, gained, main, pump, crossed>>

\* reload_settings. Only set_conversation_muted goes on to clear the mark of what it mutes.
Reload ==
    /\ main.pc = "reload"
    /\ cache' = saved
    /\ stale' = stale \union ((unread \intersect saved.muted) \ (cache.muted \union {main.conv}))
    /\ main' = [main EXCEPT !.pc = IF main.conv # None THEN "clear" ELSE "idle"]
    /\ UNCHANGED <<saved, loaded, active, unread, recent, red, front, gained, pump, left, crossed>>

Unmark ==
    /\ main.pc = "clear"
    /\ Without({main.conv})
    /\ UNCHANGED <<saved, cache, loaded, active, recent, red, front, gained, pump, left>>

\* apply_tray on the main thread.
ApplyTray ==
    /\ main.pc = "tray"
    /\ red' = IF main.tray = "keep" THEN red ELSE main.tray = "dot"
    /\ main' = Resting
    /\ UNCHANGED <<saved, cache, loaded, state, front, gained, pump, left, crossed>>

\* The window gains the focus: by show_main_window, or by the user's own means.
Gain ==
    /\ Take /\ ~front
    /\ front' = TRUE /\ gained' = TRUE
    /\ UNCHANGED <<saved, cache, loaded, state, red, main, pump, crossed>>

\* on_window_event, CloseRequested: the window is hidden. Or it loses the focus.
Leave ==
    /\ Take /\ front
    /\ front' = FALSE
    /\ UNCHANGED <<saved, cache, loaded, state, red, gained, main, pump, crossed>>

\* Focused(true) with no conversation read, and so nothing to clear (mutation).
FocusedIdly ==
    /\ main.pc = "idle" /\ gained
    /\ gained' = FALSE
    /\ Without({})
    /\ UNCHANGED <<saved, cache, loaded, active, recent, red, front, pump, left>>

\* on_window_event, Focused(true): on_window_focused.
Focused ==
    /\ main.pc = "idle" /\ gained
    /\ gained' = FALSE
    /\ Without({active} \ {None})
    /\ UNCHANGED <<saved, cache, loaded, active, recent, red, front, pump, left>>

Pump == Copy \/ Look \/ Mark \/ Show
Main == Reload \/ Unmark \/ ApplyTray \/ Focused

Next ==
    \/ \E c \in Conv : Arrive(c) \/ Elapse(c) \/ SetActive(c) \/ ClearUnread({c})
    \/ \E c \in Conv, on \in BOOLEAN : SetMuted(c, on)
    \/ \E on \in BOOLEAN : SetSettings(on)
    \/ OpenSettings \/ ClearUnread(Conv) \/ SaveFails \/ Gain \/ Leave
    \/ Pump \/ Main

Spec == Init /\ [][Next]_vars

-----------------------------------------------------------------------------
(* Properties. *)

\* When both threads have carried out what they decided, the icon shows the dot
\* exactly while a conversation is unread (notify.rs, tray_transition and apply_tray),
\* provided that the main thread did not decide while the event thread still held an
\* outcome: that one is carried out last, and the icon stays wrong until the next.
TrayRight ==
    main.pc # "tray" /\ pump.pc # "show" /\ ~crossed => red = (unread # {})

\* A conversation that is muted, or that the user looks at, is not unread (notify.rs:43-53
\* and 192-205, lib.rs:373-378) once the main thread has dealt with what changed it;
\* unless it was marked by settings or a focus read before the change, or the settings page
\* muted it again with a list it read before the user unmuted it.
QuietIsNotUnread ==
    main.pc \notin {"reload", "clear"} /\ ~gained
        => \A c \in unread \ stale : c \notin cache.muted /\ ~(front /\ active = c)
=============================================================================
