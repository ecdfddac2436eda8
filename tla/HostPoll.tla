------------------------------ MODULE HostPoll ------------------------------
(***************************************************************************)
(* The polling cache of the dashboard (dashboard/useHostPoll.ts): the      *)
(* entry of one operation and its arguments, which all widgets that show   *)
(* it share.  A widget is mounted in one step, its rendering included; an  *)
(* entry that was dropped while a request was under way hears of it no     *)
(* more, since its subscribers are gone.                                   *)
(*                                                                         *)
(* Left out: what is answered, intervals and the back-off after errors.    *)
(***************************************************************************)
CONSTANT Widgets

VARIABLES
  mounted,   \* the entry's subscribers
  hidden,    \* document.hidden
  present,   \* entries has the key
  answered,  \* the entry has data or an error
  inFlight,  \* a request is under way
  timer,     \* the poll timer is armed
  evicting   \* the timer that drops the entry is armed

pollVars == <<mounted, hidden, present, answered, inFlight, timer, evicting>>

PollTypeOK ==
  /\ mounted \subseteq Widgets
  /\ {hidden, present, answered, inFlight, timer, evicting} \subseteq BOOLEAN

PollInit ==
  /\ mounted = {} /\ hidden = FALSE
  /\ present = FALSE /\ answered = FALSE
  /\ inFlight = FALSE /\ timer = FALSE /\ evicting = FALSE

-----------------------------------------------------------------------------

\* Variant: the clock starts again in a hidden tab.
Schedule_Hidden(subscribers) == timer' = (subscribers # {})

\* schedule: no timer without a subscriber or in a hidden tab.
Schedule(subscribers) == timer' = (subscribers # {} /\ ~hidden)

\* useHostPoll: the entry is found or made, and the widget subscribed.
Mount(w) ==
  /\ w \notin mounted
  /\ mounted' = mounted \cup {w}
  /\ present' = TRUE
  /\ evicting' = FALSE
  /\ IF answered THEN Schedule(mounted') /\ UNCHANGED inFlight
                 ELSE inFlight' = TRUE /\ UNCHANGED timer
  /\ UNCHANGED <<hidden, answered>>

\* The last subscriber stops the clock and leaves the entry to the eviction.
Unmount(w) ==
  /\ w \in mounted
  /\ mounted' = mounted \ {w}
  /\ IF mounted' = {} THEN timer' = FALSE /\ evicting' = TRUE
                      ELSE UNCHANGED <<timer, evicting>>
  /\ UNCHANGED <<hidden, present, answered, inFlight>>

\* fetchNow: a request under way is shared.
FetchNow == inFlight' = TRUE

Refresh ==
  /\ mounted # {}
  /\ FetchNow
  /\ UNCHANGED <<mounted, hidden, present, answered, timer, evicting>>

TimerFires ==
  /\ timer
  /\ timer' = FALSE
  /\ FetchNow
  /\ UNCHANGED <<mounted, hidden, present, answered, evicting>>

\* The request ends, with data or an error.
Settled ==
  /\ inFlight
  /\ inFlight' = FALSE
  /\ answered' = TRUE
  /\ Schedule(mounted)
  /\ UNCHANGED <<mounted, hidden, present, evicting>>

Hide ==
  /\ ~hidden
  /\ hidden' = TRUE
  /\ IF mounted = {} THEN UNCHANGED timer ELSE timer' = FALSE
  /\ UNCHANGED <<mounted, present, answered, inFlight, evicting>>

Show ==
  /\ hidden
  /\ hidden' = FALSE
  /\ IF mounted = {} THEN UNCHANGED inFlight ELSE FetchNow
  /\ UNCHANGED <<mounted, present, answered, timer, evicting>>

\* EVICT_AFTER_MS after the last subscriber left.
Evict ==
  /\ evicting
  /\ evicting' = FALSE
  /\ IF mounted = {}
     THEN present' = FALSE /\ answered' = FALSE /\ inFlight' = FALSE
     ELSE UNCHANGED <<present, answered, inFlight>>
  /\ UNCHANGED <<mounted, hidden, timer>>

PollNext ==
  \/ \E w \in Widgets : Mount(w) \/ Unmount(w)
  \/ Refresh
  \/ TimerFires
  \/ Settled
  \/ Hide
  \/ Show
  \/ Evict

PollSpec == PollInit /\ [][PollNext]_pollVars

-----------------------------------------------------------------------------

Watched == mounted # {} /\ ~hidden

(* "Polling stops when the last subscriber unmounts ... polling stops while*)
(* the tab is hidden, and fires once on the way back", in whatever order   *)
(* requests end, widgets come and go and the tab is hidden: a value that is*)
(* watched is being fetched or will be, no clock runs for one that is not, *)
(* and an entry nobody subscribes to is going to be dropped.               *)
PollsForViewers ==
  /\ Watched => inFlight \/ timer
  /\ timer => Watched
  /\ present /\ mounted = {} => evicting
=============================================================================
