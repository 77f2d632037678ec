--------------------------- MODULE BrowserContext ---------------------------
(***************************************************************************)
(* How Core learns what the tabs of a browser play: the content script of  *)
(* each page (browser-extension/src/content.js), the background script     *)
(* that remembers the pages and posts observations (background.js,         *)
(* core.js), and the receiver in the agent that hands each one to Core     *)
(* (internal/browsercontext, browserForwardStore.Save).                    *)
(*                                                                         *)
(* The browser is external.  It tells the background script what happens   *)
(* in one order (inbox).  The closing message of a page may be lost, or    *)
(* come at any time after its tab has another page: nothing orders the     *)
(* messages of two renderers.                                              *)
(* A POST takes effect when it is sent, or never.  Core orders the         *)
(* observations of a tab by their time, so that a late one cannot cover    *)
(* the newest; but of those made in one millisecond, by one handler or by  *)
(* several, it keeps whichever arrives last.  An observation that is       *)
(* beaten by an earlier one in this way counts as one that never arrived.  *)
(*                                                                         *)
(* Titles, domains and the kind of media are left out, and the debounce:   *)
(* a page's timer is always set again, so it may speak at any time.        *)
(***************************************************************************)
EXTENDS Naturals, Sequences

CONSTANTS
  Tabs,      \* the tabs; another tab of the window is always there to be activated
  Urls,      \* where a tab can be
  Refused,   \* the URLs NormalizeAndValidate refuses
  Media,     \* what a page may play; "paused" is there but does not play
  None,      \* no page state, no known tab, nothing sent
  MaxInbox   \* bound: how far the background script may be behind

ASSUME ConstantsAssumption ==
  /\ Refused \subseteq Urls
  /\ {"none", "playing"} \subseteq Media /\ Media \subseteq {"none", "playing", "paused"}
  /\ MaxInbox \in Nat \ {0}

VARIABLES
  tab,          \* the tabs as they are (see Tab)
  fingerprint,  \* content.js lastFingerprint: what the page told last
  inbox,        \* what the background script is to be told, oldest first
  goodbye,      \* the tabs a former page of which has its closing message on its way
  states,       \* background.js states
  report,       \* lastSent, and what Core is known to have (see Report)
  receiver,     \* "up" if an observation made now is one that Core keeps
  exposed       \* history: the background was made to forget the page, which
                \* has not spoken since

browser == <<tab, fingerprint>>
background == <<states, report>>
vars == <<browser, inbox, goodbye, background, receiver, exposed>>

Info == [url : Urls, active : BOOLEAN]
Tab == [url : Urls, active : BOOLEAN, open : BOOLEAN, loading : BOOLEAN,
        scripted : BOOLEAN, media : Media]
PageState == [url : Urls, media : Media, visible : BOOLEAN]
Observation == [url : Urls, active : BOOLEAN, media : Media, visible : BOOLEAN]

ASSUME NoneAssumption ==
  None \notin PageState \cup Observation \cup [tab : Info, page : PageState \cup {None}]

(* lastSent is the background script's, core the newest observation Core    *)
(* has of the tab: None if it has none, and if Core did not get the last    *)
(* one, or did not keep it, or who knows.                                   *)
Report == [lastSent : Observation \cup {None}, core : Observation \cup {None}]

TypeOK ==
  /\ tab \in [Tabs -> Tab]
  /\ fingerprint \in [Tabs -> PageState \cup {None}]
  /\ \A i \in 1 .. Len(inbox) :
       inbox[i].kind \in {"page", "updated", "removed", "activated", "tabs"}
  /\ goodbye \subseteq Tabs
  /\ states \in [Tabs -> [tab : Info, page : PageState \cup {None}] \cup {None}]
  /\ report \in [Tabs -> Report]
  /\ receiver \in {"up", "down"}
  /\ exposed \in [Tabs -> BOOLEAN]

-----------------------------------------------------------------------------
(* What the browser passes to the background script.                        *)
InfoOf(tb) == [url |-> tb.url, active |-> tb.active]
PageMessage(t, tb, page, closing) ==
  [kind |-> "page", tab |-> t, info |-> InfoOf(tb), page |-> page, closing |-> closing]
Updated(t, tb, change) ==
  [kind |-> "updated", tab |-> t, info |-> InfoOf(tb), change |-> change]
Room == Len(inbox) < MaxInbox

(* tabsQuery: the tabs as they are when the browser answers.                *)
TabsResult(force) ==
  [kind |-> "tabs", force |-> force,
   infos |-> [t \in {u \in Tabs : tab[u].open} |-> InfoOf(tab[t])]]

(* content.js pageState.                                                    *)
PageStateOf(tb) == [url |-> tb.url, visible |-> tb.active, media |-> tb.media]

-----------------------------------------------------------------------------
(* core.js: what an observation says, and whether it is worth sending.      *)

(* Variant: the media of a page that is not known is not defaulted.         *)
ObservationWithoutDefault(info, page, terminal) ==
  [url |-> info.url, active |-> ~terminal /\ info.active,
   visible |-> ~terminal /\ page # None /\ page.visible,
   media |-> IF page = None THEN "undefined" ELSE IF terminal THEN "none" ELSE page.media]

(* A terminal observation is of the page that ends, any other of the tab.   *)
ObservationFor(info, page, terminal) ==
  [url     |-> IF terminal /\ page # None THEN page.url ELSE info.url,
   active  |-> ~terminal /\ info.active,
   visible |-> ~terminal /\ page # None /\ page.visible,
   media   |-> IF terminal \/ page = None THEN "none" ELSE page.media]

Noteworthy(o) == o.active \/ o.media # "none"

(* Variant: a page that has nothing to show is never worth an observation.  *)
NoteworthyOnly(previous, o, terminal) == terminal \/ Noteworthy(o)

ShouldSend(previous, o, terminal) ==
  terminal \/ Noteworthy(o) \/ (previous # None /\ Noteworthy(previous))

(* The POST, the receiver's validation and the forwarding to Core.          *)
(* lastSent is set before the outcome is known and kept whatever it is.     *)
Post(r, o) ==
  IF receiver = "down" THEN [lastSent |-> o, core |-> None]
  ELSE IF o.url \in Refused THEN [r EXCEPT !.lastSent = o]
  ELSE [lastSent |-> o, core |-> o]

Send(r, info, page, force, terminal) ==
  LET o == ObservationFor(info, page, terminal)
  IN  IF ShouldSend(r.lastSent, o, terminal) /\ (force \/ r.lastSent # o)
      THEN Post(r, o) ELSE r

-----------------------------------------------------------------------------
(* The background script.                                                   *)
PageOf(known) == IF known = None THEN None ELSE known.page

(* Variant: a closing page stays known.                                     *)
OnClosingStaysKnown(m) ==
  /\ report' = [report EXCEPT ![m.tab] = Send(@, m.info, m.page, TRUE, TRUE)]
  /\ UNCHANGED states

(* onMessage of a closing page: the last state of the tab is ended, if      *)
(* there is one, be it of the page that closes or of the one after it.      *)
OnClosing(m) ==
  LET known == states[m.tab]
      last == IF known = None THEN m.page ELSE known.page
  IN  /\ report' = [report EXCEPT ![m.tab] = Send(@, m.info, last, TRUE, TRUE)]
      /\ states' = [states EXCEPT ![m.tab] = None]

(* onMessage of any other page state.                                       *)
OnPageState(m) ==
  /\ states' = [states EXCEPT ![m.tab] = [tab |-> m.info, page |-> m.page]]
  /\ report' = [report EXCEPT ![m.tab] = Send(@, m.info, m.page, FALSE, FALSE)]

(* Variant: only loading ends a page.                                       *)
EndsByLoading(m) == m.change = "loading" /\ states[m.tab] # None

(* A known page ends when its tab loads or the URL changes.                 *)
Ends(m) == m.change \in {"loading", "url"} /\ states[m.tab] # None

(* What remains reported when the tab's page, if it is known, is ended.     *)
Ended(t) ==
  IF states[t] = None THEN report[t]
  ELSE Send(report[t], states[t].tab, states[t].page, TRUE, TRUE)

(* onUpdated: the page that ends is forgotten, and of an active tab         *)
(* something is always sent.  When both are, the POST of the first may      *)
(* arrive last in the millisecond of both.                                  *)
OnUpdated(m) ==
  LET t == m.tab
      ended == IF Ends(m) THEN Ended(t) ELSE report[t]
      page == IF Ends(m) THEN None ELSE PageOf(states[t])
      sent == Send(ended, m.info, page, TRUE, FALSE)
  IN  IF m.info.active
      THEN /\ states' = [states EXCEPT ![t] = [tab |-> m.info, page |-> page]]
           /\ \/ report' = [report EXCEPT ![t] = sent]
              \/ /\ Ends(m) /\ ended.core = ended.lastSent
                 /\ report' = [report EXCEPT ![t] = [sent EXCEPT !.core = ended.core]]
      ELSE /\ states' = [states EXCEPT ![t] = IF Ends(m) THEN None ELSE @]
           /\ report' = [report EXCEPT ![t] = ended]

(* onRemoved.                                                               *)
OnRemoved(m) ==
  /\ states' = [states EXCEPT ![m.tab] = None]
  /\ report' = [report EXCEPT ![m.tab] = [Ended(m.tab) EXCEPT !.lastSent = None]]

ActivityChanged(t, info) == states[t] # None /\ states[t].tab.active # info.active

(* Variant: a heartbeat sends only what changed.                            *)
ForcedByActivity(t, m) == ActivityChanged(t, m.infos[t])

Forced(t, m) == m.force \/ ActivityChanged(t, m.infos[t])

(* updateTabs reports an active tab, one with media in it and one that is   *)
(* no longer, or newly, active.                                             *)
Due(t, info) ==
  \/ info.active
  \/ PageOf(states[t]) # None /\ states[t].page.media # "none"
  \/ ActivityChanged(t, info)

(* updateTabs, once the browser has answered: every tab is known.           *)
UpdateTabs(m) ==
  /\ states' = [t \in Tabs |->
       IF t \in DOMAIN m.infos THEN [tab |-> m.infos[t], page |-> PageOf(states[t])]
       ELSE states[t]]
  /\ report' = [t \in Tabs |->
       IF t \in DOMAIN m.infos /\ Due(t, m.infos[t])
       THEN Send(report[t], m.infos[t], PageOf(states[t]), Forced(t, m), FALSE)
       ELSE report[t]]

(* The next event.  onActivated asks for the tabs.                          *)
Handle ==
  /\ inbox # <<>>
  /\ LET m == Head(inbox)
     IN  /\ inbox' = Tail(inbox) \o
              (IF m.kind = "activated" THEN <<TabsResult(FALSE)>> ELSE <<>>)
         /\ CASE m.kind = "page"      -> IF m.closing THEN OnClosing(m) ELSE OnPageState(m)
              [] m.kind = "updated"   -> OnUpdated(m)
              [] m.kind = "removed"   -> OnRemoved(m)
              [] m.kind = "tabs"      -> UpdateTabs(m)
              [] m.kind = "activated" -> UNCHANGED background
  /\ UNCHANGED <<browser, goodbye, receiver, exposed>>

(* The five-second timer asks for the tabs.                                 *)
Heartbeat ==
  /\ Room
  /\ inbox' = Append(inbox, TabsResult(TRUE))
  /\ UNCHANGED <<browser, goodbye, background, receiver, exposed>>

(* The background script starts again (a service worker is replaced, the    *)
(* extension is reloaded): it remembers nothing, messages to the old one    *)
(* are lost, and it asks for the tabs.                                      *)
Restart ==
  /\ states' = [t \in Tabs |-> None]
  /\ report' = [t \in Tabs |-> [lastSent |-> None, core |-> None]]
  /\ inbox' = <<TabsResult(TRUE)>>
  /\ exposed' = [t \in Tabs |-> TRUE]
  /\ UNCHANGED <<browser, goodbye, receiver>>

-----------------------------------------------------------------------------
(* The pages and the browser.                                               *)

(* content.js emit(false, false): the page tells its state if it differs    *)
(* from what it told last.                                                  *)
Emit(t) ==
  /\ Room
  /\ tab[t].open /\ tab[t].scripted
  /\ PageStateOf(tab[t]) # fingerprint[t]
  /\ fingerprint' = [fingerprint EXCEPT ![t] = PageStateOf(tab[t])]
  /\ inbox' = Append(inbox, PageMessage(t, tab[t], PageStateOf(tab[t]), FALSE))
  /\ exposed' = [exposed EXCEPT ![t] = FALSE]
  /\ UNCHANGED <<tab, goodbye, background, receiver>>

MediaChanges(t) ==
  /\ tab[t].open /\ tab[t].scripted
  /\ \E m \in Media \ {tab[t].media} : tab' = [tab EXCEPT ![t].media = m]
  /\ UNCHANGED <<fingerprint, inbox, goodbye, background, receiver, exposed>>

(* One tab of the window becomes the active one; None is a tab outside the  *)
(* model.                                                                   *)
Activate(t) ==
  /\ Room
  /\ t \in Tabs => tab[t].open
  /\ tab' = [u \in Tabs |-> [tab[u] EXCEPT !.active = (u = t)]]
  /\ tab' # tab
  /\ inbox' = Append(inbox, [kind |-> "activated"])
  /\ UNCHANGED <<fingerprint, goodbye, background, receiver, exposed>>

(* The tab starts to load; its page is still there.                         *)
NavigationStarts(t) ==
  /\ Room
  /\ tab[t].open /\ ~tab[t].loading
  /\ tab' = [tab EXCEPT ![t].loading = TRUE]
  /\ inbox' = Append(inbox, Updated(t, tab[t], "loading"))
  /\ exposed' = [exposed EXCEPT ![t] = TRUE]
  /\ UNCHANGED <<fingerprint, goodbye, background, receiver>>

(* It was a download, or was stopped: the page stays.                       *)
NavigationAborts(t) ==
  /\ Room
  /\ tab[t].open /\ tab[t].loading
  /\ tab' = [tab EXCEPT ![t].loading = FALSE]
  /\ inbox' = Append(inbox, Updated(t, tab[t], "complete"))
  /\ UNCHANGED <<fingerprint, goodbye, background, receiver, exposed>>

(* pagehide of a page (emit(true, true)): told before the tab's event,      *)
(* later, or not at all.                                                    *)
Farewell(t, old, event) ==
  {event} \cup IF old.scripted THEN {<<PageMessage(t, old, PageStateOf(old), TRUE)>> \o event} ELSE {}

(* A new page replaces the old one.  A script that runs in it tells its     *)
(* state at once, before there is anything in it (run_at document_start).   *)
Commit(t) ==
  /\ Room
  /\ tab[t].open /\ tab[t].loading
  /\ \E url \in Urls, scripted \in BOOLEAN :
       LET new == [tab[t] EXCEPT !.loading = FALSE, !.url = url,
                                 !.scripted = scripted, !.media = "none"]
           moved == IF url = tab[t].url THEN <<>> ELSE <<Updated(t, new, "url")>>
           hello == IF scripted THEN <<PageMessage(t, new, PageStateOf(new), FALSE)>> ELSE <<>>
       IN  \E told \in Farewell(t, tab[t], moved) :
             /\ tab' = [tab EXCEPT ![t] = new]
             /\ fingerprint' = [fingerprint EXCEPT ![t] =
                                  IF scripted THEN PageStateOf(new) ELSE None]
             /\ inbox' = inbox \o told \o hello
             /\ exposed' = [exposed EXCEPT ![t] =
                              ~scripted /\ tab[t].scripted /\ told = <<>>]
             /\ \/ UNCHANGED goodbye
                \/ /\ told = moved /\ tab[t].scripted
                   /\ goodbye' = goodbye \cup {t}
  /\ UNCHANGED <<background, receiver>>

(* What a former page's closing message says: only the URL is used, if the  *)
(* tab has no known page.                                                   *)
FormerPage(url) == [url |-> url, visible |-> FALSE, media |-> "none"]

(* The closing message of a former page arrives; the browser says what the  *)
(* tab is now.  It makes the background script forget the page of now.      *)
LateFarewell(t) ==
  /\ Room
  /\ tab[t].open /\ t \in goodbye
  /\ \E url \in Urls :
       inbox' = Append(inbox, PageMessage(t, tab[t], FormerPage(url), TRUE))
  /\ goodbye' = goodbye \ {t}
  /\ exposed' = [exposed EXCEPT ![t] = tab[t].scripted]
  /\ UNCHANGED <<browser, background, receiver>>

(* The History API: another URL, the same page.                             *)
PushState(t) ==
  /\ Room
  /\ tab[t].open /\ tab[t].scripted
  /\ \E url \in Urls \ {tab[t].url} : tab' = [tab EXCEPT ![t].url = url]
  /\ inbox' = Append(inbox, Updated(t, tab'[t], "url"))
  /\ exposed' = [exposed EXCEPT ![t] = TRUE]
  /\ UNCHANGED <<fingerprint, goodbye, background, receiver>>

(* The tab is closed for good; what its pages say after it is dropped.      *)
Close(t) ==
  /\ Room
  /\ tab[t].open
  /\ tab' = [tab EXCEPT ![t].open = FALSE]
  /\ fingerprint' = [fingerprint EXCEPT ![t] = None]
  /\ \E told \in {<<>>} \cup IF tab[t].scripted
                            THEN {<<PageMessage(t, tab[t], PageStateOf(tab[t]), TRUE)>>} ELSE {} :
       inbox' = inbox \o told \o <<[kind |-> "removed", tab |-> t]>>
  /\ goodbye' = goodbye \ {t}
  /\ exposed' = [exposed EXCEPT ![t] = FALSE]
  /\ UNCHANGED <<background, receiver>>

(* The agent, or Core behind it, comes and goes; or what is made now shares *)
(* its millisecond with an earlier observation that arrives after it, or no *)
(* longer does.                                                             *)
Reachability ==
  /\ receiver' = IF receiver = "up" THEN "down" ELSE "up"
  /\ UNCHANGED <<browser, inbox, goodbye, background, exposed>>

-----------------------------------------------------------------------------
(* The background script has just started, in tabs without a script.        *)
Init ==
  /\ tab \in [Tabs -> [url : Urls, active : {FALSE}, open : {TRUE}, loading : {FALSE},
                       scripted : {FALSE}, media : {"none"}]]
  /\ fingerprint = [t \in Tabs |-> None]
  /\ inbox = <<TabsResult(TRUE)>>
  /\ goodbye = {}
  /\ states = [t \in Tabs |-> None]
  /\ report = [t \in Tabs |-> [lastSent |-> None, core |-> None]]
  /\ receiver = "up"
  /\ exposed = [t \in Tabs |-> FALSE]

Next ==
  \/ Handle \/ Heartbeat \/ Restart \/ Reachability
  \/ \E t \in Tabs \cup {None} : Activate(t)
  \/ \E t \in Tabs : \/ Emit(t) \/ MediaChanges(t) \/ PushState(t) \/ Close(t)
                     \/ NavigationStarts(t) \/ NavigationAborts(t) \/ Commit(t)
                     \/ LateFarewell(t)

(* The event loop of the background script handles events, its interval     *)
(* fires and that of each page does (strong only because of MaxInbox: the   *)
(* browser's queues have no such bound).                                    *)
Fairness ==
  /\ WF_vars(Handle)
  /\ SF_vars(Heartbeat)
  /\ \A t \in Tabs : SF_vars(Emit(t))

Spec == Init /\ [][Next]_vars /\ Fairness

-----------------------------------------------------------------------------
(* Nothing is on its way, and the page has nothing new to tell.             *)
Settled(t) ==
  /\ inbox = <<>>
  /\ tab[t].open
  /\ tab[t].scripted => fingerprint[t] = PageStateOf(tab[t])
  /\ ~exposed[t]

(* The background script's memory of a page (states in background.js) is    *)
(* what the page told last, and there is none of a page that is gone,       *)
(* however loading, closing and page messages follow each other, unless     *)
(* one of them made it forget a page that has not spoken since.             *)
KnowsThePage == \A t \in Tabs : Settled(t) => PageOf(states[t]) = fingerprint[t]

(* Media is reported under the URL of the page that plays it: every         *)
(* observation but a terminal one takes its URL from the tab and its media  *)
(* from the page of one entry of states.                                    *)
MediaBelongsToItsUrl ==
  \A t \in Tabs : states[t] # None /\ states[t].page # None /\ states[t].page.media # "none" =>
    states[t].tab.url = states[t].page.url

(* Core does not count a tab as playing that does not play, unless the last *)
(* POST was lost (send never retries) or beaten by one of its millisecond,  *)
(* or the background script restarted: terminal and clearing observations   *)
(* are sent, and pass the receiver.                                         *)
CorePlaysOnlyWhatPlays ==
  \A t \in Tabs :
    Settled(t) /\ report[t].core # None /\ report[t].core.media = "playing" =>
      tab[t].scripted /\ tab[t].media = "playing"

(* Of a closed tab nothing is remembered (onRemoved), so nothing is sent.   *)
ClosedTabIsForgotten ==
  \A t \in Tabs : ~tab[t].open /\ inbox = <<>> =>
    states[t] = None /\ report[t].lastSent = None

(* Its memory of the tabs is true, of those that are there and of those     *)
(* that are not.                                                            *)
MemoryIsTrue == KnowsThePage /\ ClosedTabIsForgotten

(* Once the receiver stays up, heartbeats repair what was lost: media in a  *)
(* page, active or not, keeps being represented in Core as it is.           *)
MediaStaysRepresented ==
  \A t \in Tabs : \A m \in Media \ {"none"} :
    <>[](/\ tab[t].open /\ tab[t].scripted /\ tab[t].media = m
         /\ tab[t].url \notin Refused /\ ~exposed[t] /\ receiver = "up")
      => []<>(report[t].core # None /\ report[t].core.media = m)

(* README.md: "Background playing media stays represented even when its tab *)
(* is inactive or its page is hidden".  This is the property above for      *)
(* pages the background script was made to forget, too, if it does not      *)
(* restart for ever.                                                        *)
PlayingMediaStaysRepresented ==
  \A t \in Tabs :
    <>[](/\ tab[t].open /\ tab[t].scripted /\ tab[t].media = "playing"
         /\ tab[t].url \notin Refused /\ receiver = "up")
    /\ <>[][~Restart]_vars
      => []<>(report[t].core # None /\ report[t].core.media = "playing")
=============================================================================
