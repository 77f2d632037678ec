------------------------ MODULE BrowserContextProofs ------------------------
(***************************************************************************)
(* Proofs about BrowserContext, for any tabs, URLs, media and bound of the *)
(* inbox: the types, that the background script's memory is true, that     *)
(* media belongs to the URL it is reported under, and that Core counts no  *)
(* tab as playing that does not play.                                      *)
(***************************************************************************)
EXTENDS BrowserContext, TLAPS

(* What the browser tells the background script, and what it remembers.     *)
PageMessages == [kind : {"page"}, tab : Tabs, info : Info, page : PageState, closing : BOOLEAN]
UpdatedMessages ==
  [kind : {"updated"}, tab : Tabs, info : Info, change : {"loading", "url", "complete"}]
RemovedMessages == [kind : {"removed"}, tab : Tabs]
ActivatedMessages == [kind : {"activated"}]
TabsMessages ==
  [kind : {"tabs"}, force : BOOLEAN, infos : UNION {[known -> Info] : known \in SUBSET Tabs}]
Message == PageMessages \cup UpdatedMessages \cup RemovedMessages \cup ActivatedMessages \cup TabsMessages
Known == [tab : Info, page : PageState \cup {None}] \cup {None}

Types == TypeOK /\ inbox \in Seq(Message)

-----------------------------------------------------------------------------
(* What a message makes of the entry of a tab.                              *)
About(t, m) ==
  \/ m.kind \in {"page", "updated", "removed"} /\ m.tab = t
  \/ m.kind = "tabs" /\ t \in DOMAIN m.infos
Leaves(m) == m.change \in {"loading", "url"}
AfterUpdated(m, s) ==
  LET page == IF Leaves(m) THEN None ELSE PageOf(s)
  IN  IF m.info.active THEN [tab |-> m.info, page |-> page] ELSE IF Leaves(m) THEN None ELSE s
Step(t, m, s) ==
  IF ~About(t, m) THEN s
  ELSE CASE m.kind = "page" -> IF m.closing THEN None ELSE [tab |-> m.info, page |-> m.page]
         [] m.kind = "updated" -> AfterUpdated(m, s)
         [] m.kind = "removed" -> None
         [] m.kind = "tabs" -> [tab |-> m.infos[t], page |-> PageOf(s)]

(* The media of an entry is of the entry's URL, and a page that speaks      *)
(* while there is media in what is known of its tab is still at that URL.   *)
HasMedia(s) == PageOf(s) # None /\ PageOf(s).media # "none"
Agrees(s) == HasMedia(s) => s.tab.url = PageOf(s).url
Fits(t, m, s) ==
  About(t, m) /\ m.kind = "page" /\ ~m.closing =>
    m.info.url = m.page.url /\ (HasMedia(s) => PageOf(s).url = m.page.url)

(* Handling the messages of box one by one leads from the entry first to    *)
(* the entry last, and all is well on the way.                              *)
Leads(t, box, trace) ==
  /\ \A i \in 1 .. Len(box) + 1 : Agrees(trace[i])
  /\ \A i \in 1 .. Len(box) :
       Fits(t, box[i], trace[i]) /\ trace[i + 1] = Step(t, box[i], trace[i])
Follows(t, box, first, last) ==
  \E trace \in [1 .. Len(box) + 1 -> Known] :
    trace[1] = first /\ trace[Len(box) + 1] = last /\ Leads(t, box, trace)

(* What the entry of an open tab is once all messages were handled.         *)
Present(t, s) ==
  tab[t].open =>
    /\ ~exposed[t] => PageOf(s) = fingerprint[t]
    /\ HasMedia(s) => PageOf(s).url = tab[t].url
    /\ ~tab[t].scripted => fingerprint[t] = None /\ (tab[t].loading => PageOf(s) = None)
WillBeKnown == \A t \in Tabs : \E s \in Known : Follows(t, inbox, states[t], s) /\ Present(t, s)

(* Nothing speaks of a closed tab after its removal.                        *)
Gone(t) ==
  \E i \in 0 .. Len(inbox) :
    /\ i = 0 => states[t] = None /\ report[t].lastSent = None
    /\ i # 0 => inbox[i].kind = "removed" /\ inbox[i].tab = t
    /\ \A j \in i + 1 .. Len(inbox) : ~About(t, inbox[j])
ClosedAreGone == \A t \in Tabs : ~tab[t].open => Gone(t)

(* If Core counts a tab as playing, the last POST said so, and it is of the *)
(* page that is known.                                                      *)
Plays(r) == r.core # None /\ r.core.media = "playing"
PlayingPage(s) == PageOf(s) # None /\ PageOf(s).media = "playing" /\ PageOf(s).url \notin Refused
Backed(r, s) == Plays(r) => r.lastSent = r.core /\ PlayingPage(s)
CoreFollows == \A t \in Tabs : Backed(report[t], states[t])

Inv == Types /\ WillBeKnown /\ ClosedAreGone /\ CoreFollows

-----------------------------------------------------------------------------
(* Steps keep the type of an entry.                                         *)
LEMMA PageOfType ==
  ASSUME NEW s \in Known
  PROVE  PageOf(s) \in PageState \cup {None}
BY NoneAssumption DEF Known, PageOf

LEMMA StepType ==
  ASSUME NEW t \in Tabs, NEW m \in Message, NEW s \in Known
  PROVE  Step(t, m, s) \in Known
<1>1. PageOf(s) \in PageState \cup {None}
  BY PageOfType
<1>2. CASE m \in PageMessages
  BY <1>2 DEF Step, About, PageMessages, Known
<1>3. CASE m \in UpdatedMessages
  BY <1>1, <1>3 DEF Step, About, UpdatedMessages, AfterUpdated, Known
<1>4. CASE m \in RemovedMessages
  BY <1>4 DEF Step, About, RemovedMessages, Known
<1>5. CASE m \in ActivatedMessages
  BY <1>5 DEF Step, About, ActivatedMessages
<1>6. CASE m \in TabsMessages
  <2>1. t \in DOMAIN m.infos => m.infos[t] \in Info
    BY <1>6 DEF TabsMessages
  <2>2. m.kind = "tabs"
    BY <1>6 DEF TabsMessages
  <2>3. QED
    BY <1>1, <2>1, <2>2 DEF Step, About, Known
<1>7. QED
  BY <1>2, <1>3, <1>4, <1>5, <1>6 DEF Message

-----------------------------------------------------------------------------
(* Sequences of messages.                                                   *)
LEMMA FollowsNone ==
  ASSUME NEW t \in Tabs, NEW s \in Known, Agrees(s)
  PROVE  Follows(t, <<>>, s, s)
<1> DEFINE trace == [i \in 1 .. 1 |-> s]
<1>1. Len(<<>>) = 0
  OBVIOUS
<1>2. trace \in [1 .. Len(<<>>) + 1 -> Known] /\ trace[1] = s /\ trace[Len(<<>>) + 1] = s
  BY <1>1
<1>3. Leads(t, <<>>, trace)
  BY <1>1 DEF Leads
<1>4. QED
  BY <1>2, <1>3 DEF Follows

LEMMA FollowsOne ==
  ASSUME NEW t \in Tabs, NEW m \in Message, NEW s \in Known,
         Agrees(s), Fits(t, m, s), Agrees(Step(t, m, s))
  PROVE  Follows(t, <<m>>, s, Step(t, m, s))
<1> DEFINE n == Step(t, m, s)
           trace == [i \in 1 .. 2 |-> IF i = 1 THEN s ELSE n]
<1>1. Len(<<m>>) = 1 /\ <<m>>[1] = m
  OBVIOUS
<1>2. n \in Known
  BY StepType
<1>3. Agrees(n)
  OBVIOUS
<1> HIDE DEF n
<1>4. trace \in [1 .. 2 -> Known] /\ trace[1] = s /\ trace[2] = n
  BY <1>2
<1>5. \A i \in 1 .. 2 : Agrees(trace[i])
  BY <1>3, <1>4
<1>6. \A i \in 1 .. 1 : i = 1
  OBVIOUS
<1>7. Leads(t, <<m>>, trace)
  BY <1>1, <1>4, <1>5, <1>6 DEF Leads, n
<1>8. QED
  BY <1>1, <1>4, <1>7 DEF Follows, n

LEMMA FollowsConcat ==
  ASSUME NEW t \in Tabs, NEW a \in Seq(Message), NEW b \in Seq(Message),
         NEW first \in Known, NEW middle \in Known, NEW last \in Known,
         Follows(t, a, first, middle), Follows(t, b, middle, last)
  PROVE  Follows(t, a \o b, first, last)
<1>1. PICK x \in [1 .. Len(a) + 1 -> Known] :
        x[1] = first /\ x[Len(a) + 1] = middle /\ Leads(t, a, x)
  BY DEF Follows
<1>2. PICK y \in [1 .. Len(b) + 1 -> Known] :
        y[1] = middle /\ y[Len(b) + 1] = last /\ Leads(t, b, y)
  BY DEF Follows
<1> DEFINE box == a \o b
           z == [i \in 1 .. Len(a) + Len(b) + 1 |-> IF i <= Len(a) + 1 THEN x[i] ELSE y[i - Len(a)]]
<1>3. Len(a) \in Nat /\ Len(b) \in Nat /\ Len(box) = Len(a) + Len(b)
  OBVIOUS
<1>4. /\ \A i \in 1 .. Len(a) : box[i] = a[i]
      /\ \A i \in Len(a) + 1 .. Len(a) + Len(b) : box[i] = b[i - Len(a)]
  OBVIOUS
<1> HIDE DEF box
<1>5. z \in [1 .. Len(box) + 1 -> Known] /\ z[1] = first
  BY <1>1, <1>2, <1>3
<1>6. /\ \A i \in 1 .. Len(a) + 1 : z[i] = x[i]
      /\ \A i \in Len(a) + 1 .. Len(a) + Len(b) + 1 : z[i] = y[i - Len(a)]
  BY <1>1, <1>2, <1>3
<1> HIDE DEF z
<1>7. z[Len(box) + 1] = last
  BY <1>2, <1>3, <1>6
<1>8. ASSUME NEW i \in 1 .. Len(box) + 1
      PROVE  Agrees(z[i])
  <2>1. CASE i \in 1 .. Len(a) + 1
    BY <1>1, <1>6, <2>1 DEF Leads
  <2>2. CASE i \in Len(a) + 1 .. Len(a) + Len(b) + 1
    <3>1. i - Len(a) \in 1 .. Len(b) + 1
      BY <1>3, <2>2
    <3>2. QED
      BY <1>2, <1>6, <2>2, <3>1 DEF Leads
  <2>3. QED
    BY <1>3, <2>1, <2>2
<1>9. ASSUME NEW i \in 1 .. Len(box)
      PROVE  Fits(t, box[i], z[i]) /\ z[i + 1] = Step(t, box[i], z[i])
  <2>1. CASE i \in 1 .. Len(a)
    <3>1. i \in 1 .. Len(a) + 1 /\ i + 1 \in 1 .. Len(a) + 1
      BY <1>3, <2>1
    <3>2. QED
      BY <1>1, <1>4, <1>6, <2>1, <3>1 DEF Leads
  <2>2. CASE i \in Len(a) + 1 .. Len(a) + Len(b)
    <3>1. /\ i \in Len(a) + 1 .. Len(a) + Len(b) + 1 /\ i + 1 \in Len(a) + 1 .. Len(a) + Len(b) + 1
          /\ i - Len(a) \in 1 .. Len(b) /\ (i + 1) - Len(a) = (i - Len(a)) + 1
      BY <1>3, <2>2
    <3>2. z[i] = y[i - Len(a)] /\ z[i + 1] = y[(i - Len(a)) + 1] /\ box[i] = b[i - Len(a)]
      BY <1>4, <1>6, <2>2, <3>1
    <3>3. QED
      BY <1>2, <3>1, <3>2 DEF Leads
  <2>3. QED
    BY <1>3, <2>1, <2>2
<1>10. QED
  BY <1>5, <1>7, <1>8, <1>9 DEF Follows, Leads, box

(* Messages about other tabs leave an entry alone.                          *)
LEMMA FollowsSilent ==
  ASSUME NEW t \in Tabs, NEW box \in Seq(Message), NEW s \in Known, Agrees(s),
         \A i \in 1 .. Len(box) : ~About(t, box[i])
  PROVE  Follows(t, box, s, s)
<1> DEFINE trace == [i \in 1 .. Len(box) + 1 |-> s]
<1>1. Len(box) \in Nat
  OBVIOUS
<1>2. trace \in [1 .. Len(box) + 1 -> Known] /\ \A i \in 1 .. Len(box) + 1 : trace[i] = s
  OBVIOUS
<1> HIDE DEF trace
<1>3. \A i \in 1 .. Len(box) : i \in 1 .. Len(box) + 1 /\ i + 1 \in 1 .. Len(box) + 1
  BY <1>1
<1>4. Leads(t, box, trace)
  BY <1>2, <1>3 DEF Leads, Fits, Step
<1>5. 1 \in 1 .. Len(box) + 1 /\ Len(box) + 1 \in 1 .. Len(box) + 1
  BY <1>1
<1>6. QED
  BY <1>2, <1>4, <1>5 DEF Follows

(* Both ends of a trace are well, and handling its first message is well.   *)
LEMMA FollowsEnds ==
  ASSUME NEW t \in Tabs, NEW box \in Seq(Message), NEW first \in Known, NEW last \in Known,
         Follows(t, box, first, last)
  PROVE  Agrees(first) /\ Agrees(last) /\ (box = <<>> => first = last)
<1>1. Len(box) \in Nat /\ 1 \in 1 .. Len(box) + 1 /\ Len(box) + 1 \in 1 .. Len(box) + 1
      /\ (box = <<>> => Len(box) = 0)
  OBVIOUS
<1>2. QED
  BY <1>1 DEF Follows, Leads

LEMMA FollowsTail ==
  ASSUME NEW t \in Tabs, NEW box \in Seq(Message), box # <<>>,
         NEW first \in Known, NEW last \in Known, Follows(t, box, first, last)
  PROVE  /\ Fits(t, Head(box), first)
         /\ Follows(t, Tail(box), Step(t, Head(box), first), last)
<1>1. PICK x \in [1 .. Len(box) + 1 -> Known] :
        x[1] = first /\ x[Len(box) + 1] = last /\ Leads(t, box, x)
  BY DEF Follows
<1> DEFINE rest == Tail(box)
           y == [i \in 1 .. Len(box) |-> x[i + 1]]
<1>2. /\ Len(box) \in Nat \ {0} /\ Head(box) = box[1] /\ Len(rest) = Len(box) - 1
      /\ \A i \in 1 .. Len(box) - 1 : rest[i] = box[i + 1]
  OBVIOUS
<1> HIDE DEF rest
<1>3. /\ 1 \in 1 .. Len(box) /\ Len(box) \in 1 .. Len(box) /\ Len(rest) + 1 = Len(box)
      /\ \A i \in 1 .. Len(box) : i + 1 \in 1 .. Len(box) + 1
      /\ \A i \in 1 .. Len(rest) : i \in 1 .. Len(box) /\ i + 1 \in 1 .. Len(box)
  BY <1>2
<1>4. y \in [1 .. Len(rest) + 1 -> Known] /\ \A i \in 1 .. Len(box) : y[i] = x[i + 1]
  BY <1>1, <1>3
<1> HIDE DEF y
<1>5. Fits(t, box[1], first) /\ y[1] = Step(t, box[1], first) /\ y[Len(rest) + 1] = last
  BY <1>1, <1>3, <1>4 DEF Leads
<1>6. Leads(t, rest, y)
  <2>1. \A i \in 1 .. Len(rest) + 1 : Agrees(y[i])
    BY <1>1, <1>3, <1>4 DEF Leads
  <2>2. \A i \in 1 .. Len(rest) : Fits(t, rest[i], y[i]) /\ y[i + 1] = Step(t, rest[i], y[i])
    BY <1>1, <1>2, <1>3, <1>4 DEF Leads
  <2>3. QED
    BY <2>1, <2>2 DEF Leads
<1>7. QED
  BY <1>2, <1>4, <1>5, <1>6 DEF Follows, rest

-----------------------------------------------------------------------------
(* What a POST can make of a report.                                        *)
LEMMA ObservationType ==
  ASSUME NEW info \in Info, NEW page \in PageState \cup {None}, NEW terminal \in BOOLEAN
  PROVE  ObservationFor(info, page, terminal) \in Observation
BY ConstantsAssumption DEF ObservationFor, Observation, Info, PageState

Outcome(r, o, worth, sent) ==
  \/ sent = r /\ ~worth
  \/ sent.core = None /\ sent.lastSent = o
  \/ o.url \in Refused /\ sent.lastSent = o /\ sent.core = r.core
  \/ o.url \notin Refused /\ sent.lastSent = o /\ sent.core = o
Worth(r, o, force, terminal) == ShouldSend(r.lastSent, o, terminal) /\ (force \/ r.lastSent # o)

LEMMA SendCases ==
  ASSUME NEW r \in Report, NEW info \in Info, NEW page \in PageState \cup {None},
         NEW force \in BOOLEAN, NEW terminal \in BOOLEAN
  PROVE  LET sent == Send(r, info, page, force, terminal)
             o == ObservationFor(info, page, terminal)
         IN  sent \in Report /\ Outcome(r, o, Worth(r, o, force, terminal), sent)
<1> DEFINE o == ObservationFor(info, page, terminal)
           sent == Send(r, info, page, force, terminal)
           worth == Worth(r, o, force, terminal)
<1>1. o \in Observation
  BY ObservationType
<1>2. sent = IF worth THEN Post(r, o) ELSE r
  BY DEF Send, Worth
<1> HIDE DEF o, sent, worth
<1>3. CASE ~worth
  <2>1. sent \in Report /\ Outcome(r, o, worth, sent)
    BY <1>2, <1>3 DEF Outcome
  <2>2. QED
    BY <2>1 DEF o, sent, worth
<1>4. CASE worth
  <2>1. CASE receiver = "down"
    <3>1. sent = [lastSent |-> o, core |-> None]
      BY <1>2, <1>4, <2>1 DEF Post
    <3>2. sent \in Report /\ Outcome(r, o, worth, sent)
      BY <1>1, <3>1 DEF Outcome, Report
    <3>3. QED
      BY <3>2 DEF o, sent, worth
  <2>2. CASE receiver # "down" /\ o.url \in Refused
    <3>1. sent = [r EXCEPT !.lastSent = o]
      BY <1>2, <1>4, <2>2 DEF Post
    <3>2. sent \in Report /\ Outcome(r, o, worth, sent)
      BY <1>1, <2>2, <3>1 DEF Outcome, Report
    <3>3. QED
      BY <3>2 DEF o, sent, worth
  <2>3. CASE receiver # "down" /\ o.url \notin Refused
    <3>1. sent = [lastSent |-> o, core |-> o]
      BY <1>2, <1>4, <2>3 DEF Post
    <3>2. sent \in Report /\ Outcome(r, o, worth, sent)
      BY <1>1, <2>3, <3>1 DEF Outcome, Report
    <3>3. QED
      BY <3>2 DEF o, sent, worth
  <2>4. QED
    BY <2>1, <2>2, <2>3
<1>5. QED
  BY <1>3, <1>4

(* An observation of the page leaves the report backed by it.               *)
LEMMA SendBacks ==
  ASSUME NEW r \in Report, NEW s \in Known, NEW n \in Known, NEW info \in Info, NEW force \in BOOLEAN,
         Backed(r, s),
         PlayingPage(s) => PageOf(n) # None /\ info.url = PageOf(s).url,
         HasMedia(n) => info.url = PageOf(n).url
  PROVE  Backed(Send(r, info, PageOf(n), force, FALSE), n)
<1> DEFINE page == PageOf(n)
           o == ObservationFor(info, page, FALSE)
           sent == Send(r, info, page, force, FALSE)
<1>1. page \in PageState \cup {None} /\ FALSE \in BOOLEAN
  BY PageOfType
<1>2. /\ o.url = info.url /\ (page # None => o.media = page.media) /\ (page = None => o.media = "none")
  BY DEF ObservationFor
<1>3. Outcome(r, o, Worth(r, o, force, FALSE), sent)
  BY <1>1, SendCases, Zenon
<1> HIDE DEF o, sent
<1>4. Plays(r) => /\ r.lastSent = r.core /\ r.lastSent # None /\ r.lastSent.media = "playing"
                  /\ page # None /\ info.url \notin Refused
  BY DEF Backed, Plays, PlayingPage
<1>5. page # None /\ o.media = "playing" /\ info.url \notin Refused => PlayingPage(n)
  BY <1>2 DEF PlayingPage, HasMedia
<1> HIDE DEF page
<1>6. SUFFICES ASSUME Plays(sent)
               PROVE  sent.lastSent = sent.core /\ PlayingPage(n)
  BY DEF Backed, sent, page
<1>7. CASE sent = r /\ ~Worth(r, o, force, FALSE)
  <2>1. r.lastSent = o /\ o.media = "playing"
    BY <1>4, <1>6, <1>7 DEF Worth, ShouldSend, Noteworthy
  <2>2. QED
    BY <1>4, <1>5, <1>6, <1>7, <2>1
<1>8. CASE sent.core = None /\ sent.lastSent = o
  BY <1>6, <1>8 DEF Plays
<1>9. CASE o.url \in Refused /\ sent.lastSent = o /\ sent.core = r.core
  BY <1>2, <1>4, <1>6, <1>9 DEF Plays
<1>10. CASE o.url \notin Refused /\ sent.lastSent = o /\ sent.core = o
  BY <1>2, <1>5, <1>6, <1>10 DEF Plays
<1>11. QED
  BY <1>3, <1>7, <1>8, <1>9, <1>10 DEF Outcome

(* A terminal observation ends what plays, or is lost.                      *)
LEMMA SendEnds ==
  ASSUME NEW r \in Report, NEW s \in Known, NEW info \in Info, NEW page \in PageState \cup {None},
         Backed(r, s), PlayingPage(s) => page = PageOf(s)
  PROVE  LET sent == Send(r, info, page, TRUE, TRUE)
         IN  sent \in Report /\ ~Plays(sent) /\ sent.lastSent.media = "none"
<1> DEFINE o == ObservationFor(info, page, TRUE)
           sent == Send(r, info, page, TRUE, TRUE)
<1>1. o.media = "none" /\ (page # None => o.url = page.url)
  BY DEF ObservationFor
<1>2. Worth(r, o, TRUE, TRUE)
  BY DEF Worth, ShouldSend
<1>3. sent \in Report /\ Outcome(r, o, Worth(r, o, TRUE, TRUE), sent)
  <2>1. TRUE \in BOOLEAN
    OBVIOUS
  <2>2. QED
    BY <2>1, SendCases, Zenon
<1> HIDE DEF o, sent
<1>4. Plays(r) => o.url \notin Refused
  BY <1>1 DEF Backed, PlayingPage
<1>5. QED
  BY <1>1, <1>2, <1>3, <1>4 DEF Plays, Outcome, sent

-----------------------------------------------------------------------------
(* Handling a message makes the step of it, and keeps the reports backed.   *)
HandledWell(m) ==
  /\ states' \in [Tabs -> Known] /\ report' \in [Tabs -> Report]
  /\ \A t \in Tabs :
       /\ states'[t] = Step(t, m, states[t]) /\ Backed(report'[t], states'[t])
       /\ ~About(t, m) => report'[t] = report[t]
       /\ m.kind = "removed" /\ m.tab = t => report'[t].lastSent = None
Ready(m) == \A t \in Tabs : /\ Fits(t, m, states[t]) /\ Agrees(states[t])
                            /\ Agrees(Step(t, m, states[t]))

LEMMA EntriesAreKnown == TypeOK => states \in [Tabs -> Known] /\ report \in [Tabs -> Report]
BY DEF TypeOK, Known

LEMMA OneTabHandled ==
  ASSUME TypeOK, CoreFollows, NEW m \in Message, m.kind \in {"page", "updated", "removed"},
         NEW t \in Tabs, m.tab = t, NEW r \in Report,
         report' = [report EXCEPT ![t] = r], states' = [states EXCEPT ![t] = Step(t, m, states[t])],
         Backed(r, Step(t, m, states[t])), m.kind = "removed" => r.lastSent = None
  PROVE  HandledWell(m)
<1>1. states \in [Tabs -> Known] /\ report \in [Tabs -> Report] /\ Step(t, m, states[t]) \in Known
  BY EntriesAreKnown, StepType
<1>2. \A u \in Tabs : About(u, m) <=> u = t
  BY DEF About
<1>3. \A u \in Tabs \ {t} : Step(u, m, states[u]) = states[u]
  BY <1>2 DEF Step
<1>4. states' \in [Tabs -> Known] /\ report' \in [Tabs -> Report]
  BY <1>1
<1>5. ASSUME NEW u \in Tabs
      PROVE  /\ states'[u] = Step(u, m, states[u]) /\ Backed(report'[u], states'[u])
             /\ ~About(u, m) => report'[u] = report[u]
             /\ m.kind = "removed" /\ m.tab = u => report'[u].lastSent = None
  <2>1. CASE u = t
    <3>1. states'[u] = Step(t, m, states[t]) /\ report'[u] = r
      BY <1>1, <2>1
    <3>2. QED
      BY <1>2, <2>1, <3>1
  <2>2. CASE u # t
    <3>1. states'[u] = states[u] /\ report'[u] = report[u]
      BY <1>1, <2>2
    <3>2. QED
      BY <1>3, <2>2, <3>1 DEF CoreFollows
  <2>3. QED
    BY <2>1, <2>2
<1>6. QED
  BY <1>4, <1>5 DEF HandledWell

(* What ends with a terminal observation is backed by any entry.            *)
LEMMA EndedIsBacked ==
  ASSUME TypeOK, CoreFollows, NEW t \in Tabs
  PROVE  /\ Ended(t) \in Report /\ (states[t] # None => Ended(t).lastSent.media = "none")
         /\ ~Plays(Ended(t))
<1>1. states[t] \in Known /\ report[t] \in Report /\ Backed(report[t], states[t])
  BY EntriesAreKnown DEF CoreFollows
<1>2. CASE states[t] = None
  BY <1>1, <1>2 DEF Ended, Backed, PlayingPage, PageOf
<1>3. CASE states[t] # None
  <2>1. /\ states[t].tab \in Info /\ states[t].page \in PageState \cup {None}
        /\ (PlayingPage(states[t]) => states[t].page = PageOf(states[t]))
    BY <1>1, <1>3 DEF Known, PageOf
  <2>2. Ended(t) = Send(report[t], states[t].tab, states[t].page, TRUE, TRUE)
    BY <1>3 DEF Ended
  <2> DEFINE sent == Send(report[t], states[t].tab, states[t].page, TRUE, TRUE)
  <2>3. sent \in Report /\ ~Plays(sent) /\ sent.lastSent.media = "none"
    BY <1>1, <2>1, SendEnds
  <2> HIDE DEF sent
  <2>4. QED
    BY <2>2, <2>3 DEF sent
<1>4. QED
  BY <1>2, <1>3

LEMMA ClosingHandled ==
  ASSUME TypeOK, CoreFollows, NEW m \in PageMessages, m.closing, OnClosing(m)
  PROVE  HandledWell(m)
<1> DEFINE t == m.tab
           last == IF states[t] = None THEN m.page ELSE states[t].page
           sent == Send(report[t], m.info, last, TRUE, TRUE)
<1>1. m \in Message /\ t \in Tabs /\ m.kind = "page" /\ m.info \in Info /\ m.page \in PageState
  BY DEF PageMessages, Message
<1>2. states[t] \in Known /\ report[t] \in Report /\ Backed(report[t], states[t])
      /\ states \in [Tabs -> Known] /\ report \in [Tabs -> Report]
  BY <1>1, EntriesAreKnown DEF CoreFollows
<1>3. last \in PageState \cup {None} /\ (PlayingPage(states[t]) => last = PageOf(states[t]))
  BY <1>1, <1>2 DEF Known, PageOf, PlayingPage
<1>4. sent \in Report /\ ~Plays(sent)
  BY <1>1, <1>2, <1>3, SendEnds
<1>5. report' = [report EXCEPT ![t] = sent] /\ states' = [states EXCEPT ![t] = None]
  BY <1>2 DEF OnClosing
<1>6. Step(t, m, states[t]) = None
  BY <1>1 DEF Step, About
<1> HIDE DEF sent
<1>7. Backed(sent, None)
  BY <1>4 DEF Backed
<1>8. QED
  BY <1>1, <1>4, <1>5, <1>6, <1>7, OneTabHandled

LEMMA PageStateHandled ==
  ASSUME TypeOK, CoreFollows, NEW m \in PageMessages, Ready(m), ~m.closing, OnPageState(m)
  PROVE  HandledWell(m)
<1> DEFINE t == m.tab
           new == [tab |-> m.info, page |-> m.page]
           sent == Send(report[t], m.info, PageOf(new), FALSE, FALSE)
<1>1. m \in Message /\ t \in Tabs /\ m.kind = "page" /\ m.info \in Info /\ m.page \in PageState
  BY DEF PageMessages, Message
<1>2. states[t] \in Known /\ report[t] \in Report /\ Backed(report[t], states[t])
      /\ states \in [Tabs -> Known] /\ report \in [Tabs -> Report]
  BY <1>1, EntriesAreKnown DEF CoreFollows
<1>3. new \in Known /\ new # None /\ PageOf(new) = m.page /\ m.page # None
  BY <1>1, NoneAssumption DEF Known, PageOf
<1>4. Step(t, m, states[t]) = new
  BY <1>1 DEF Step, About
<1>5. m.info.url = m.page.url /\ (HasMedia(states[t]) => PageOf(states[t]).url = m.page.url)
  BY <1>1 DEF Ready, Fits, About
<1>6. FALSE \in BOOLEAN /\ PageOf(new) \in PageState \cup {None}
  BY <1>1, <1>3
<1> HIDE DEF new
<1>7. Backed(sent, new)
  <2>1. PlayingPage(states[t]) => PageOf(new) # None /\ m.info.url = PageOf(states[t]).url
    BY <1>3, <1>5 DEF PlayingPage, HasMedia
  <2>2. HasMedia(new) => m.info.url = PageOf(new).url
    BY <1>3, <1>5
  <2>3. QED
    BY <1>1, <1>2, <1>3, <1>6, <2>1, <2>2, SendBacks, Zenon
<1>8. sent \in Report
  BY <1>1, <1>2, <1>6, SendCases, Zenon
<1>9. report' = [report EXCEPT ![t] = sent] /\ states' = [states EXCEPT ![t] = new]
  BY <1>2, <1>3 DEF OnPageState, new
<1> HIDE DEF sent
<1>10. QED
  BY <1>1, <1>4, <1>7, <1>8, <1>9, OneTabHandled

LEMMA RemovedHandled ==
  ASSUME TypeOK, CoreFollows, NEW m \in RemovedMessages, OnRemoved(m)
  PROVE  HandledWell(m)
<1> DEFINE t == m.tab
           sent == [Ended(t) EXCEPT !.lastSent = None]
<1>1. m \in Message /\ t \in Tabs /\ m.kind = "removed"
  BY DEF RemovedMessages, Message
<1>2. Ended(t) \in Report /\ ~Plays(Ended(t))
  BY <1>1, EndedIsBacked
<1>3. sent \in Report /\ sent.lastSent = None /\ ~Plays(sent)
  BY <1>2 DEF Report, Plays
<1>4. Step(t, m, states[t]) = None
  BY <1>1 DEF Step, About
<1>5. report' = [report EXCEPT ![t] = sent] /\ states' = [states EXCEPT ![t] = None]
  BY DEF OnRemoved
<1> HIDE DEF sent
<1>6. Backed(sent, None)
  BY <1>3 DEF Backed
<1>7. QED
  BY <1>1, <1>3, <1>4, <1>5, <1>6, OneTabHandled

(* onUpdated: an entry that is left, and then one of an active tab.         *)
LEMMA UpdatedHandled ==
  ASSUME TypeOK, CoreFollows, NEW m \in UpdatedMessages, Ready(m), OnUpdated(m)
  PROVE  HandledWell(m)
<1> DEFINE t == m.tab
           s == states[t]
           n == AfterUpdated(m, s)
           ended == IF Ends(m) THEN Ended(t) ELSE report[t]
           sent == Send(ended, m.info, PageOf(n), TRUE, FALSE)
<1>1. m \in Message /\ t \in Tabs /\ m.kind = "updated" /\ m.info \in Info
  BY DEF UpdatedMessages, Message
<1>2. s \in Known /\ report[t] \in Report /\ Backed(report[t], s)
      /\ states \in [Tabs -> Known] /\ report \in [Tabs -> Report]
  BY <1>1, EntriesAreKnown DEF CoreFollows
<1>3. Step(t, m, s) = n /\ n \in Known /\ Agrees(n) /\ TRUE \in BOOLEAN /\ FALSE \in BOOLEAN
  BY <1>1, <1>2, StepType DEF Step, About, Ready
<1>4. Ends(m) <=> Leaves(m) /\ s # None
  BY DEF Ends, Leaves
<1>5. /\ Ended(t) \in Report /\ ~Plays(Ended(t))
      /\ Ends(m) => Ended(t).lastSent.media = "none"
  BY <1>1, <1>4, EndedIsBacked
<1>6. ended \in Report /\ (Ends(m) => ~Plays(ended) /\ ended.lastSent.media = "none")
      /\ (~Ends(m) => ended = report[t])
  BY <1>2, <1>5
<1>7. m.info.active => n = [tab |-> m.info, page |-> IF Ends(m) THEN None ELSE PageOf(s)]
  BY <1>4 DEF AfterUpdated, PageOf
<1>8. ~m.info.active => n = IF Ends(m) THEN None ELSE s
  BY <1>4 DEF AfterUpdated
<1> HIDE DEF s, n, ended
<1>9. m.info.active => /\ n # None /\ n.tab = m.info
                       /\ PageOf(n) = IF Ends(m) THEN None ELSE PageOf(s)
  <2>1. SUFFICES ASSUME m.info.active
                 PROVE  /\ n # None /\ n.tab = m.info
                        /\ PageOf(n) = IF Ends(m) THEN None ELSE PageOf(s)
    OBVIOUS
  <2>2. n = [tab |-> m.info, page |-> IF Ends(m) THEN None ELSE PageOf(s)]
    BY <1>7, <2>1
  <2>3. (IF Ends(m) THEN None ELSE PageOf(s)) \in PageState \cup {None}
    BY <1>2, PageOfType
  <2>4. n \in [tab : Info, page : PageState \cup {None}]
    BY <1>1, <2>2, <2>3
  <2>5. n # None
    BY <2>4, NoneAssumption
  <2>6. QED
    BY <2>2, <2>5 DEF PageOf
<1>10. Backed(ended, n)
  <2>1. CASE Ends(m)
    BY <1>6, <2>1 DEF Backed
  <2>2. CASE ~Ends(m)
    <3>1. PageOf(n) = PageOf(s)
      BY <1>8, <1>9, <2>2
    <3>2. QED
      BY <1>2, <1>6, <2>2, <3>1 DEF Backed, PlayingPage
  <2>3. QED
    BY <2>1, <2>2
<1>11. CASE ~m.info.active
  <2>1. report' = [report EXCEPT ![t] = ended] /\ states' = [states EXCEPT ![t] = n]
    BY <1>2, <1>8, <1>11 DEF OnUpdated, ended, s
  <2>2. QED
    BY <1>1, <1>3, <1>6, <1>10, <2>1, OneTabHandled DEF s
<1>12. CASE m.info.active
  <2>1. n.tab = m.info /\ PageOf(n) = IF Ends(m) THEN None ELSE PageOf(s)
    BY <1>9, <1>12
  <2>2. PageOf(n) \in PageState \cup {None}
    BY <1>3, PageOfType
  <2>3. HasMedia(n) => m.info.url = PageOf(n).url
    BY <1>3, <2>1 DEF Agrees
  <2>4. Backed(sent, n)
    <3>1. PlayingPage(n) => PageOf(n) # None /\ m.info.url = PageOf(n).url
      BY <2>3 DEF PlayingPage, HasMedia
    <3>2. QED
      BY <1>1, <1>3, <1>6, <1>10, <2>3, <3>1, SendBacks, Zenon
  <2>5. sent \in Report
    BY <1>1, <1>3, <1>6, <2>2, SendCases, Zenon
  <2>6. sent = Send(ended, m.info, IF Ends(m) THEN None ELSE PageOf(s), TRUE, FALSE)
    BY <2>1
  <2>7. states' = [states EXCEPT ![t] = n]
    BY <1>7, <1>12 DEF OnUpdated, s
  <2>8. \/ report' = [report EXCEPT ![t] = sent]
        \/ /\ Ends(m) /\ ended.core = ended.lastSent
           /\ report' = [report EXCEPT ![t] = [sent EXCEPT !.core = ended.core]]
    BY <1>12, <2>6 DEF OnUpdated, s, ended
  <2> HIDE DEF sent
  <2>9. CASE report' = [report EXCEPT ![t] = sent]
    BY <1>1, <1>3, <2>4, <2>5, <2>7, <2>9, OneTabHandled DEF s
  <2>10. CASE /\ Ends(m) /\ ended.core = ended.lastSent
              /\ report' = [report EXCEPT ![t] = [sent EXCEPT !.core = ended.core]]
    <3> DEFINE kept == [sent EXCEPT !.core = ended.core]
    <3>1. kept \in Report /\ kept.core.media = "none"
      BY <1>6, <2>5, <2>10 DEF Report
    <3>2. Backed(kept, n)
      BY <3>1 DEF Backed, Plays
    <3> HIDE DEF kept
    <3>3. report' = [report EXCEPT ![t] = kept]
      BY <2>10 DEF kept
    <3>4. QED
      BY <1>1, <1>3, <2>7, <3>1, <3>2, <3>3, OneTabHandled DEF s
  <2>11. QED
    BY <2>8, <2>9, <2>10
<1>13. QED
  BY <1>11, <1>12

(* updateTabs: the pages stay as they are known.                            *)
LEMMA TabsHandled ==
  ASSUME TypeOK, CoreFollows, NEW m \in TabsMessages, Ready(m), UpdateTabs(m)
  PROVE  HandledWell(m)
<1>1. m \in Message /\ m.kind = "tabs" /\ m.force \in BOOLEAN
      /\ \A t \in DOMAIN m.infos : m.infos[t] \in Info
  BY DEF TabsMessages, Message
<1>2. states \in [Tabs -> Known] /\ report \in [Tabs -> Report]
  BY EntriesAreKnown
<1>3. ASSUME NEW t \in Tabs
      PROVE  /\ states'[t] = Step(t, m, states[t]) /\ states'[t] \in Known
             /\ report'[t] \in Report /\ Backed(report'[t], states'[t])
             /\ ~About(t, m) => report'[t] = report[t]
  <2> DEFINE s == states[t]
             n == Step(t, m, s)
  <2>1. n \in Known /\ Agrees(n) /\ Backed(report[t], s) /\ s \in Known /\ report[t] \in Report
    BY <1>1, <1>2, StepType DEF Ready, CoreFollows
  <2>2. About(t, m) <=> t \in DOMAIN m.infos
    BY <1>1 DEF About
  <2>3. states'[t] = n
    BY <1>1, <2>2 DEF UpdateTabs, Step
  <2>4. CASE ~About(t, m)
    BY <2>1, <2>2, <2>3, <2>4 DEF UpdateTabs, Step
  <2>5. CASE About(t, m)
    <3> DEFINE info == m.infos[t]
               force == Forced(t, m)
               sent == Send(report[t], info, PageOf(n), force, FALSE)
    <3>1. info \in Info /\ n = [tab |-> info, page |-> PageOf(s)]
      BY <1>1, <2>2, <2>5 DEF Step
    <3>2. n # None
      BY <2>1, <3>1, PageOfType, NoneAssumption
    <3>3. PageOf(n) = PageOf(s) /\ n.tab = info
      BY <3>1, <3>2 DEF PageOf
    <3>4. force \in BOOLEAN /\ FALSE \in BOOLEAN /\ PageOf(n) \in PageState \cup {None}
      BY <1>1, <2>1, PageOfType DEF Forced, ActivityChanged
    <3>5. report'[t] = IF Due(t, info) THEN sent ELSE report[t]
      BY <2>2, <2>5, <3>3 DEF UpdateTabs
    <3>6. HasMedia(n) => info.url = PageOf(n).url
      BY <2>1, <3>3 DEF Agrees
    <3> HIDE DEF n, info, force
    <3>7. Backed(report[t], n)
      BY <2>1, <3>3 DEF Backed, PlayingPage
    <3>8. PlayingPage(n) => PageOf(n) # None /\ info.url = PageOf(n).url
      BY <3>6 DEF PlayingPage, HasMedia
    <3>9. Backed(sent, n)
      BY <2>1, <3>1, <3>4, <3>6, <3>7, <3>8, SendBacks, Zenon
    <3>10. sent \in Report
      BY <2>1, <3>1, <3>4, SendCases, Zenon
    <3> HIDE DEF sent
    <3>11. QED
      BY <2>1, <2>3, <2>5, <3>5, <3>7, <3>9, <3>10 DEF n
  <2>6. QED
    BY <2>4, <2>5
<1>4. states' \in [Tabs -> Known] /\ report' \in [Tabs -> Report]
  <2>1. DOMAIN states' = Tabs /\ states' = [t \in Tabs |-> states'[t]]
        /\ DOMAIN report' = Tabs /\ report' = [t \in Tabs |-> report'[t]]
    BY DEF UpdateTabs
  <2>2. QED
    BY <1>3, <2>1
<1>5. QED
  BY <1>1, <1>3, <1>4 DEF HandledWell

-----------------------------------------------------------------------------
(* What the next message does to the invariant.                             *)
LEMMA NextIsReady ==
  ASSUME Types, WillBeKnown, inbox # <<>>
  PROVE  Head(inbox) \in Message /\ Ready(Head(inbox))
<1>1. Head(inbox) \in Message
  BY DEF Types
<1>2. ASSUME NEW t \in Tabs
      PROVE  /\ Fits(t, Head(inbox), states[t]) /\ Agrees(states[t])
             /\ Agrees(Step(t, Head(inbox), states[t]))
  <2>1. states[t] \in Known /\ Step(t, Head(inbox), states[t]) \in Known
    BY <1>1, EntriesAreKnown, StepType DEF Types
  <2>2. PICK s \in Known : Follows(t, inbox, states[t], s)
    BY DEF WillBeKnown
  <2>3. inbox \in Seq(Message) /\ Tail(inbox) \in Seq(Message)
    BY DEF Types
  <2>4. /\ Fits(t, Head(inbox), states[t])
        /\ Follows(t, Tail(inbox), Step(t, Head(inbox), states[t]), s)
    BY <2>1, <2>2, <2>3, FollowsTail
  <2>5. QED
    BY <2>1, <2>2, <2>3, <2>4, FollowsEnds
<1>3. QED
  BY <1>1, <1>2 DEF Ready

LEMMA MessageHandled ==
  ASSUME Types, WillBeKnown, CoreFollows, Handle
  PROVE  HandledWell(Head(inbox))
<1> DEFINE m == Head(inbox)
<1>1. inbox # <<>> /\ m \in Message /\ Ready(m) /\ TypeOK
  BY NextIsReady DEF Handle, Types
<1> HIDE DEF m
<1>2. CASE m \in PageMessages
  <2>1. m.kind = "page" /\ m.closing \in BOOLEAN
    BY <1>2 DEF PageMessages
  <2>2. IF m.closing THEN OnClosing(m) ELSE OnPageState(m)
    BY <2>1 DEF Handle, m
  <2>3. QED
    BY <1>1, <1>2, <2>1, <2>2, ClosingHandled, PageStateHandled DEF m
<1>3. CASE m \in UpdatedMessages
  <2>1. OnUpdated(m)
    BY <1>3 DEF Handle, m, UpdatedMessages
  <2>2. QED
    BY <1>1, <1>3, <2>1, UpdatedHandled DEF m
<1>4. CASE m \in RemovedMessages
  <2>1. OnRemoved(m)
    BY <1>4 DEF Handle, m, RemovedMessages
  <2>2. QED
    BY <1>1, <1>4, <2>1, RemovedHandled DEF m
<1>5. CASE m \in TabsMessages
  <2>1. UpdateTabs(m)
    BY <1>5 DEF Handle, m, TabsMessages
  <2>2. QED
    BY <1>1, <1>5, <2>1, TabsHandled DEF m
<1>6. CASE m \in ActivatedMessages
  <2>1. m.kind = "activated" /\ UNCHANGED <<states, report>>
    BY <1>6 DEF Handle, m, ActivatedMessages, background
  <2>2. \A t \in Tabs : ~About(t, m)
    BY <2>1 DEF About
  <2>3. QED
    BY <1>1, <2>1, <2>2, EntriesAreKnown DEF HandledWell, CoreFollows, Step, m
<1>7. QED
  BY <1>1, <1>2, <1>3, <1>4, <1>5, <1>6 DEF Message

(* The answer to tabsQuery, which tells of the open tabs as they are.       *)
LEMMA TabsResultIs ==
  ASSUME TypeOK, NEW force \in BOOLEAN
  PROVE  /\ TabsResult(force) \in Message
         /\ \A t \in Tabs : About(t, TabsResult(force)) <=> tab[t].open
         /\ \A t \in Tabs : tab[t].open => TabsResult(force).infos[t] = InfoOf(tab[t])
         /\ TabsResult(force).kind = "tabs"
<1> DEFINE open == {u \in Tabs : tab[u].open}
           infos == [t \in open |-> InfoOf(tab[t])]
<1>1. \A t \in Tabs : InfoOf(tab[t]) \in Info
  BY DEF TypeOK, Tab, InfoOf, Info
<1>2. open \in SUBSET Tabs /\ infos \in [open -> Info]
  BY <1>1
<1>3. infos \in UNION {[known -> Info] : known \in SUBSET Tabs}
  BY <1>2
<1>4. TabsResult(force) = [kind |-> "tabs", force |-> force, infos |-> infos]
  BY DEF TabsResult
<1> HIDE DEF infos
<1>5. TabsResult(force) \in TabsMessages
  BY <1>3, <1>4 DEF TabsMessages
<1>6. DOMAIN infos = open /\ \A t \in open : infos[t] = InfoOf(tab[t])
  BY DEF infos
<1>7. QED
  BY <1>4, <1>5, <1>6 DEF Message, About

LEMMA AskingKeepsPage ==
  ASSUME TypeOK, NEW t \in Tabs, NEW s \in Known, Agrees(s), NEW force \in BOOLEAN,
         tab[t].open /\ HasMedia(s) => PageOf(s).url = tab[t].url
  PROVE  \E n \in Known : Follows(t, <<TabsResult(force)>>, s, n) /\ PageOf(n) = PageOf(s)
<1> DEFINE m == TabsResult(force)
           n == Step(t, m, s)
<1>1. m \in Message /\ m.kind = "tabs" /\ (About(t, m) <=> tab[t].open)
      /\ (tab[t].open => m.infos[t] = InfoOf(tab[t]))
  BY TabsResultIs
<1> HIDE DEF m
<1>2. n \in Known
  BY <1>1, StepType
<1>3. Fits(t, m, s)
  BY <1>1 DEF Fits
<1>4. PageOf(n) = PageOf(s) /\ Agrees(n)
  <2>1. CASE ~tab[t].open
    BY <1>1, <2>1 DEF Step
  <2>2. CASE tab[t].open
    <3>1. n = [tab |-> InfoOf(tab[t]), page |-> PageOf(s)]
      BY <1>1, <2>2 DEF Step
    <3>2. PageOf(s) \in PageState \cup {None} /\ InfoOf(tab[t]) \in Info
      BY PageOfType DEF TypeOK, Tab, InfoOf, Info
    <3>3. n # None
      BY <3>1, <3>2, NoneAssumption
    <3>4. PageOf(n) = PageOf(s) /\ n.tab.url = tab[t].url
      BY <3>1, <3>3 DEF PageOf, InfoOf
    <3>5. QED
      BY <2>2, <3>4 DEF Agrees, HasMedia
  <2>3. QED
    BY <2>1, <2>2
<1>5. Follows(t, <<m>>, s, n)
  BY <1>1, <1>3, <1>4, FollowsOne
<1>6. QED
  BY <1>2, <1>4, <1>5 DEF m

-----------------------------------------------------------------------------
(* What each message that is told makes of the entry of its tab.            *)
LEMMA NoPage == PageOf(None) = None /\ None \in Known /\ ~HasMedia(None) /\ Agrees(None)
BY DEF PageOf, Known, HasMedia, Agrees

LEMMA LeavingForgets ==
  ASSUME NEW t \in Tabs, NEW s \in Known, Agrees(s), NEW m \in Message,
         m.kind \in {"page", "removed"}, m.tab = t, m.kind = "page" => m.closing
  PROVE  Follows(t, <<m>>, s, None)
<1>1. Step(t, m, s) = None /\ Fits(t, m, s)
  BY DEF Step, About, Fits
<1>2. QED
  BY <1>1, NoPage, FollowsOne, Zenon

LEMMA SpeakingIsKnown ==
  ASSUME NEW m \in PageMessages, ~m.closing, m.info.url = m.page.url,
         NEW s \in Known, Agrees(s), HasMedia(s) => PageOf(s).url = m.page.url
  PROVE  \E n \in Known : Follows(m.tab, <<m>>, s, n) /\ PageOf(n) = m.page
<1> DEFINE n == Step(m.tab, m, s)
<1>1. m \in Message /\ m.tab \in Tabs /\ m.kind = "page" /\ m.info \in Info /\ m.page \in PageState
  BY DEF Message, PageMessages
<1>2. n = [tab |-> m.info, page |-> m.page] /\ n \in Known
  BY <1>1, StepType DEF Step, About
<1>3. n # None
  BY <1>1, <1>2, NoneAssumption
<1>4. PageOf(n) = m.page /\ n.tab = m.info
  BY <1>2, <1>3 DEF PageOf
<1>5. Fits(m.tab, m, s) /\ Agrees(n)
  BY <1>4 DEF Fits, Agrees
<1>6. Follows(m.tab, <<m>>, s, n)
  BY <1>1, <1>5, FollowsOne
<1>7. QED
  BY <1>2, <1>4, <1>6

LEMMA UpdatingIsKnown ==
  ASSUME NEW m \in UpdatedMessages, NEW s \in Known, Agrees(s),
         ~Leaves(m) /\ HasMedia(s) => PageOf(s).url = m.info.url
  PROVE  \E n \in Known : /\ Follows(m.tab, <<m>>, s, n)
                          /\ PageOf(n) = IF Leaves(m) THEN None ELSE PageOf(s)
<1> DEFINE n == Step(m.tab, m, s)
           page == IF Leaves(m) THEN None ELSE PageOf(s)
<1>1. m \in Message /\ m.tab \in Tabs /\ m.kind = "updated" /\ m.info \in Info
  BY DEF Message, UpdatedMessages
<1>2. page \in PageState \cup {None}
  BY PageOfType
<1>3. n = AfterUpdated(m, s) /\ n \in Known
  BY <1>1, StepType DEF Step, About
<1>4. PageOf(n) = page /\ Agrees(n)
  <2>1. CASE m.info.active
    <3>1. n = [tab |-> m.info, page |-> page]
      BY <1>3, <2>1 DEF AfterUpdated
    <3>2. n # None
      BY <1>1, <1>2, <3>1, NoneAssumption
    <3>3. PageOf(n) = page /\ n.tab = m.info
      BY <3>1, <3>2 DEF PageOf
    <3>4. QED
      BY <3>3 DEF Agrees, HasMedia
  <2>2. CASE ~m.info.active
    <3>1. n = IF Leaves(m) THEN None ELSE s
      BY <1>3, <2>2 DEF AfterUpdated
    <3>2. QED
      BY <3>1, NoPage
  <2>3. QED
    BY <2>1, <2>2
<1>5. Fits(m.tab, m, s)
  BY <1>1 DEF Fits
<1>6. Follows(m.tab, <<m>>, s, n)
  BY <1>1, <1>4, <1>5, FollowsOne
<1>7. QED
  BY <1>3, <1>4, <1>6

-----------------------------------------------------------------------------
(* The browser tells the background script something: what the entry of a   *)
(* tab will be, once it was handled, and of a tab that is closed.           *)
WillKnow(t, box) ==
  \A s \in Known : Agrees(s) /\ Present(t, s) =>
    \E n \in Known : Follows(t, box, s, n) /\ Present(t, n)'
WillForget(t, box) ==
  ~tab'[t].open =>
    \/ ~tab[t].open /\ \A i \in 1 .. Len(box) : ~About(t, box[i])
    \/ box # <<>> /\ box[Len(box)].kind = "removed" /\ box[Len(box)].tab = t

LEMMA ToldIsKnown ==
  ASSUME Types, WillBeKnown, NEW box \in Seq(Message), inbox' = inbox \o box, states' = states,
         \A t \in Tabs : WillKnow(t, box)
  PROVE  WillBeKnown'
<1>1. SUFFICES ASSUME NEW t \in Tabs
               PROVE  \E n \in Known : Follows(t, inbox', states'[t], n) /\ Present(t, n)'
  BY DEF WillBeKnown
<1>2. inbox \in Seq(Message) /\ states[t] \in Known
  BY EntriesAreKnown DEF Types
<1>3. PICK s \in Known : Follows(t, inbox, states[t], s) /\ Present(t, s)
  BY DEF WillBeKnown
<1>4. Agrees(s)
  BY <1>2, <1>3, FollowsEnds
<1>5. PICK n \in Known : Follows(t, box, s, n) /\ Present(t, n)'
  BY <1>3, <1>4 DEF WillKnow
<1>6. Follows(t, inbox \o box, states[t], n)
  BY <1>2, <1>3, <1>5, FollowsConcat
<1>7. QED
  BY <1>5, <1>6

LEMMA ToldIsForgotten ==
  ASSUME Types, ClosedAreGone, NEW box \in Seq(Message), inbox' = inbox \o box,
         states' = states, report' = report, \A t \in Tabs : WillForget(t, box)
  PROVE  ClosedAreGone'
<1>1. SUFFICES ASSUME NEW t \in Tabs, ~tab'[t].open
               PROVE  Gone(t)'
  BY DEF ClosedAreGone
<1>2. /\ Len(inbox) \in Nat /\ Len(box) \in Nat /\ Len(inbox') = Len(inbox) + Len(box)
      /\ \A i \in 1 .. Len(inbox) : inbox'[i] = inbox[i]
      /\ \A i \in Len(inbox) + 1 .. Len(inbox) + Len(box) : inbox'[i] = box[i - Len(inbox)]
  BY DEF Types
<1>3. CASE ~tab[t].open /\ \A i \in 1 .. Len(box) : ~About(t, box[i])
  <2>1. PICK i \in 0 .. Len(inbox) :
          /\ i = 0 => states[t] = None /\ report[t].lastSent = None
          /\ i # 0 => inbox[i].kind = "removed" /\ inbox[i].tab = t
          /\ \A j \in i + 1 .. Len(inbox) : ~About(t, inbox[j])
    BY <1>3 DEF ClosedAreGone, Gone
  <2>2. i \in 0 .. Len(inbox') /\ (i # 0 => inbox'[i] = inbox[i])
    BY <1>2
  <2>3. ASSUME NEW j \in i + 1 .. Len(inbox')
        PROVE  ~About(t, inbox'[j])
    <3>1. CASE j \in i + 1 .. Len(inbox)
      <4>1. j \in 1 .. Len(inbox)
        BY <1>2, <3>1
      <4>2. QED
        BY <1>2, <2>1, <3>1, <4>1
    <3>2. CASE j \in Len(inbox) + 1 .. Len(inbox) + Len(box)
      <4>1. j - Len(inbox) \in 1 .. Len(box)
        BY <1>2, <3>2
      <4>2. QED
        BY <1>2, <1>3, <3>2, <4>1
    <3>3. QED
      BY <1>2, <3>1, <3>2
  <2>4. QED
    BY <2>1, <2>2, <2>3 DEF Gone
<1>4. CASE box # <<>> /\ box[Len(box)].kind = "removed" /\ box[Len(box)].tab = t
  <2> DEFINE last == Len(inbox')
  <2>1. Len(box) # 0
    BY <1>4
  <2>2. /\ last \in 0 .. Len(inbox') /\ last # 0 /\ inbox'[last] = box[Len(box)]
        /\ \A j \in last + 1 .. Len(inbox') : FALSE
    <3>1. last \in Len(inbox) + 1 .. Len(inbox) + Len(box) /\ last - Len(inbox) = Len(box)
      BY <1>2, <2>1
    <3>2. QED
      BY <1>2, <2>1, <3>1
  <2>3. QED
    BY <1>4, <2>2 DEF Gone
<1>5. QED
  BY <1>1, <1>3, <1>4 DEF WillForget

BrowserTypes ==
  /\ tab \in [Tabs -> Tab] /\ fingerprint \in [Tabs -> PageState \cup {None}]
  /\ receiver \in {"up", "down"} /\ exposed \in [Tabs -> BOOLEAN] /\ goodbye \subseteq Tabs

LEMMA BoxKinds ==
  ASSUME NEW box \in Seq(Message), NEW i \in 1 .. Len(box)
  PROVE  box[i].kind \in {"page", "updated", "removed", "activated", "tabs"}
<1>1. box[i] \in Message
  OBVIOUS
<1>2. QED
  BY <1>1 DEF Message, PageMessages, UpdatedMessages, RemovedMessages, ActivatedMessages, TabsMessages

LEMMA TypesAre ==
  ASSUME BrowserTypes', inbox' \in Seq(Message), states' \in [Tabs -> Known],
         report' \in [Tabs -> Report]
  PROVE  Types'
BY BoxKinds DEF BrowserTypes, Types, TypeOK, Known

LEMMA ToldKeepsInv ==
  ASSUME Inv, NEW box \in Seq(Message), inbox' = inbox \o box, UNCHANGED background,
         BrowserTypes', \A t \in Tabs : WillKnow(t, box) /\ WillForget(t, box)
  PROVE  Inv'
<1>1. states' = states /\ report' = report
  BY DEF background
<1>2. inbox' \in Seq(Message)
  BY DEF Inv, Types
<1>3. states' \in [Tabs -> Known] /\ report' \in [Tabs -> Report]
  BY <1>1, EntriesAreKnown DEF Inv, Types
<1>4. Types'
  BY <1>2, <1>3, TypesAre
<1>5. WillBeKnown' /\ ClosedAreGone'
  BY <1>1, ToldIsKnown, ToldIsForgotten DEF Inv
<1>6. CoreFollows'
  BY <1>1 DEF Inv, CoreFollows
<1>7. QED
  BY <1>4, <1>5, <1>6 DEF Inv

(* What is not about a tab, and changes nothing of it.                      *)
LEMMA OthersKnow ==
  ASSUME NEW t \in Tabs, NEW box \in Seq(Message), \A i \in 1 .. Len(box) : ~About(t, box[i]),
         tab'[t].open = tab[t].open, tab'[t].url = tab[t].url, tab'[t].loading = tab[t].loading,
         tab'[t].scripted = tab[t].scripted, fingerprint'[t] = fingerprint[t],
         exposed'[t] = exposed[t]
  PROVE  WillKnow(t, box) /\ WillForget(t, box)
<1>1. ASSUME NEW s \in Known, Agrees(s), Present(t, s)
      PROVE  Follows(t, box, s, s) /\ Present(t, s)'
  BY <1>1, FollowsSilent DEF Present
<1>2. QED
  BY <1>1 DEF WillKnow, WillForget

(* What is told of one tab does not concern another.                        *)
LEMMA OneTabTold ==
  ASSUME Inv, NEW t \in Tabs, NEW box \in Seq(Message), inbox' = inbox \o box,
         \A u \in Tabs \ {t} : \A i \in 1 .. Len(box) : ~About(u, box[i]),
         tab' \in [Tabs -> Tab], \A u \in Tabs \ {t} : tab'[u] = tab[u],
         fingerprint' \in [Tabs -> PageState \cup {None}],
         \A u \in Tabs \ {t} : fingerprint'[u] = fingerprint[u],
         exposed' \in [Tabs -> BOOLEAN], \A u \in Tabs \ {t} : exposed'[u] = exposed[u],
         goodbye' \subseteq Tabs, UNCHANGED <<background, receiver>>,
         WillKnow(t, box), WillForget(t, box)
  PROVE  Inv'
<1>1. BrowserTypes'
  BY DEF Inv, Types, TypeOK, BrowserTypes
<1>2. ASSUME NEW u \in Tabs
      PROVE  WillKnow(u, box) /\ WillForget(u, box)
  <2>1. CASE u = t
    BY <2>1
  <2>2. CASE u # t
    BY <2>2, OthersKnow
  <2>3. QED
    BY <2>1, <2>2
<1>3. QED
  BY <1>1, <1>2, ToldKeepsInv

LEMMA NotAboutOthers ==
  ASSUME NEW t \in Tabs, NEW m \in Message, m.kind \in {"page", "updated", "removed"}, m.tab = t,
         NEW u \in Tabs \ {t}
  PROVE  ~About(u, m)
BY DEF About

-----------------------------------------------------------------------------
(* The steps of the pages and the browser.                                  *)
LEMMA BrowserIsTyped ==
  ASSUME Inv, NEW t \in Tabs
  PROVE  /\ tab \in [Tabs -> Tab] /\ fingerprint \in [Tabs -> PageState \cup {None}]
         /\ exposed \in [Tabs -> BOOLEAN] /\ inbox \in Seq(Message) /\ tab[t] \in Tab
         /\ PageStateOf(tab[t]) \in PageState /\ PageStateOf(tab[t]).url = tab[t].url
         /\ TypeOK /\ BrowserTypes /\ goodbye \subseteq Tabs
BY DEF Inv, Types, TypeOK, BrowserTypes, Tab, PageStateOf, PageState

LEMMA HeartbeatKeeps == Inv /\ Heartbeat => Inv'
<1> SUFFICES ASSUME Inv, Heartbeat
             PROVE  Inv'
  OBVIOUS
<1> DEFINE m == TabsResult(TRUE)
<1>1. TypeOK /\ inbox \in Seq(Message) /\ TRUE \in BOOLEAN
  BY DEF Inv, Types
<1>2. m \in Message /\ \A t \in Tabs : About(t, m) <=> tab[t].open
  BY <1>1, TabsResultIs, Zenon
<1>3. inbox' = Append(inbox, m) /\ UNCHANGED <<browser, goodbye, background, receiver, exposed>>
  BY DEF Heartbeat
<1>4. ASSUME NEW t \in Tabs
      PROVE  WillKnow(t, <<m>>) /\ WillForget(t, <<m>>)
  <2>1. ASSUME NEW s \in Known, Agrees(s), Present(t, s)
        PROVE  \E n \in Known : Follows(t, <<m>>, s, n) /\ Present(t, n)'
    <3>1. tab[t].open /\ HasMedia(s) => PageOf(s).url = tab[t].url
      BY <2>1 DEF Present
    <3>2. PICK n \in Known : Follows(t, <<m>>, s, n) /\ PageOf(n) = PageOf(s)
      BY <1>1, <2>1, <3>1, AskingKeepsPage, Zenon
    <3>3. Present(t, n)'
      BY <1>3, <2>1, <3>2 DEF Present, HasMedia, browser
    <3>4. QED
      BY <3>2, <3>3
  <2> HIDE DEF m
  <2>2. WillForget(t, <<m>>)
    BY <1>2, <1>3 DEF WillForget, browser
  <2>3. QED
    BY <2>1, <2>2 DEF WillKnow
<1> HIDE DEF m
<1>5. <<m>> \in Seq(Message) /\ inbox' = inbox \o <<m>>
  BY <1>1, <1>2, <1>3
<1>6. BrowserTypes' /\ UNCHANGED background
  BY <1>1, <1>3 DEF TypeOK, BrowserTypes, browser
<1>7. QED
  BY <1>4, <1>5, <1>6, ToldKeepsInv

LEMMA EmitKeeps ==
  ASSUME Inv, NEW t \in Tabs, Emit(t)
  PROVE  Inv'
<1> DEFINE page == PageStateOf(tab[t])
           m == PageMessage(t, tab[t], page, FALSE)
<1>1. /\ inbox \in Seq(Message) /\ tab[t] \in Tab /\ page \in PageState /\ page.url = tab[t].url
      /\ tab \in [Tabs -> Tab] /\ fingerprint \in [Tabs -> PageState \cup {None}]
      /\ exposed \in [Tabs -> BOOLEAN] /\ goodbye \subseteq Tabs
  BY BrowserIsTyped
<1>2. /\ tab[t].open /\ tab[t].scripted /\ inbox' = Append(inbox, m) /\ tab' = tab
      /\ goodbye' = goodbye
      /\ fingerprint' = [fingerprint EXCEPT ![t] = page]
      /\ exposed' = [exposed EXCEPT ![t] = FALSE] /\ UNCHANGED <<background, receiver>>
  BY DEF Emit
<1> HIDE DEF page
<1>3. /\ m \in PageMessages /\ m \in Message /\ m.kind = "page" /\ m.tab = t
      /\ m.info.url = m.page.url /\ m.page = page /\ ~m.closing
  BY <1>1 DEF PageMessage, PageMessages, Message, InfoOf, Info, Tab
<1> HIDE DEF m
<1>4. ASSUME NEW s \in Known, Agrees(s), Present(t, s)
      PROVE  \E n \in Known : Follows(t, <<m>>, s, n) /\ Present(t, n)'
  <2>1. HasMedia(s) => PageOf(s).url = m.page.url
    BY <1>1, <1>2, <1>3, <1>4 DEF Present
  <2>2. PICK n \in Known : Follows(t, <<m>>, s, n) /\ PageOf(n) = page
    BY <1>3, <1>4, <2>1, SpeakingIsKnown
  <2>3. Present(t, n)'
    BY <1>1, <1>2, <2>2 DEF Present, HasMedia
  <2>4. QED
    BY <2>2, <2>3
<1>5. WillKnow(t, <<m>>) /\ WillForget(t, <<m>>)
  BY <1>2, <1>4 DEF WillKnow, WillForget
<1>6. <<m>> \in Seq(Message) /\ inbox' = inbox \o <<m>>
  BY <1>1, <1>2, <1>3
<1>7. \A u \in Tabs \ {t} : \A i \in 1 .. Len(<<m>>) : ~About(u, <<m>>[i])
  BY <1>3, NotAboutOthers
<1>8. fingerprint' \in [Tabs -> PageState \cup {None}] /\ exposed' \in [Tabs -> BOOLEAN]
  BY <1>1, <1>2
<1>9. QED
  BY <1>1, <1>2, <1>5, <1>6, <1>7, <1>8, OneTabTold

LEMMA MediaChangesKeeps ==
  ASSUME Inv, NEW t \in Tabs, MediaChanges(t)
  PROVE  Inv'
<1>1. /\ inbox \in Seq(Message) /\ tab[t] \in Tab /\ tab \in [Tabs -> Tab]
      /\ fingerprint \in [Tabs -> PageState \cup {None}] /\ exposed \in [Tabs -> BOOLEAN]
      /\ goodbye \subseteq Tabs
  BY BrowserIsTyped
<1>2. PICK m \in Media : tab' = [tab EXCEPT ![t].media = m]
  BY DEF MediaChanges
<1>3. /\ fingerprint' = fingerprint /\ inbox' = inbox /\ exposed' = exposed /\ goodbye' = goodbye
      /\ UNCHANGED <<background, receiver>>
  BY DEF MediaChanges
<1>4. /\ tab' \in [Tabs -> Tab] /\ \A u \in Tabs \ {t} : tab'[u] = tab[u]
      /\ tab'[t].open = tab[t].open /\ tab'[t].url = tab[t].url
      /\ tab'[t].loading = tab[t].loading /\ tab'[t].scripted = tab[t].scripted
  BY <1>1, <1>2 DEF Tab
<1>5. <<>> \in Seq(Message) /\ inbox' = inbox \o <<>> /\ \A i \in 1 .. Len(<<>>) : FALSE
  BY <1>1, <1>3
<1>6. WillKnow(t, <<>>) /\ WillForget(t, <<>>)
  BY <1>3, <1>4, <1>5, OthersKnow
<1>7. QED
  BY <1>1, <1>3, <1>4, <1>5, <1>6, OneTabTold

LEMMA ActivateKeeps ==
  ASSUME Inv, NEW t, Activate(t)
  PROVE  Inv'
<1> DEFINE m == [kind |-> "activated"]
<1>1. tab \in [Tabs -> Tab] /\ BrowserTypes /\ inbox \in Seq(Message)
  BY DEF Inv, Types, TypeOK, BrowserTypes
<1>2. /\ tab' = [u \in Tabs |-> [tab[u] EXCEPT !.active = (u = t)]] /\ inbox' = Append(inbox, m)
      /\ UNCHANGED <<fingerprint, goodbye, background, receiver, exposed>>
  BY DEF Activate
<1>3. m \in Message /\ \A u \in Tabs : ~About(u, m)
  BY DEF Message, ActivatedMessages, About
<1> HIDE DEF m
<1>4. ASSUME NEW u \in Tabs
      PROVE  /\ tab'[u] \in Tab /\ tab'[u].open = tab[u].open /\ tab'[u].url = tab[u].url
             /\ tab'[u].loading = tab[u].loading /\ tab'[u].scripted = tab[u].scripted
  BY <1>1, <1>2 DEF Tab
<1>5. BrowserTypes' /\ UNCHANGED background
  BY <1>1, <1>2, <1>4 DEF BrowserTypes
<1>6. <<m>> \in Seq(Message) /\ inbox' = inbox \o <<m>> /\ \A i \in 1 .. Len(<<m>>) : <<m>>[i] = m
  BY <1>1, <1>2, <1>3
<1>7. \A u \in Tabs : WillKnow(u, <<m>>) /\ WillForget(u, <<m>>)
  BY <1>2, <1>3, <1>4, <1>6, OthersKnow
<1>8. QED
  BY <1>5, <1>6, <1>7, ToldKeepsInv

(* The tab's event of a page that ends, or of one that stays after all.     *)
LEMMA UpdatedIsTold ==
  ASSUME Inv, NEW t \in Tabs, tab[t].open, NEW m \in UpdatedMessages, m.tab = t,
         inbox' = Append(inbox, m), tab' \in [Tabs -> Tab],
         \A u \in Tabs \ {t} : tab'[u] = tab[u], tab'[t].open, m.info.url = tab'[t].url,
         tab'[t].scripted = tab[t].scripted, fingerprint' = fingerprint,
         exposed' = [exposed EXCEPT ![t] = Leaves(m) \/ @],
         ~Leaves(m) => ~tab'[t].loading /\ tab'[t].url = tab[t].url,
         goodbye' = goodbye, UNCHANGED <<background, receiver>>
  PROVE  Inv'
<1>1. /\ inbox \in Seq(Message) /\ tab \in [Tabs -> Tab]
      /\ fingerprint \in [Tabs -> PageState \cup {None}] /\ exposed \in [Tabs -> BOOLEAN]
      /\ goodbye' \subseteq Tabs
  BY BrowserIsTyped
<1>2. m \in Message /\ m.kind = "updated" /\ Leaves(m) \in BOOLEAN
  BY DEF Message, UpdatedMessages, Leaves
<1>3. /\ exposed'[t] = (Leaves(m) \/ exposed[t]) /\ exposed' \in [Tabs -> BOOLEAN]
      /\ \A u \in Tabs \ {t} : exposed'[u] = exposed[u]
  BY <1>1, <1>2
<1>4. ASSUME NEW s \in Known, Agrees(s), Present(t, s)
      PROVE  \E n \in Known : Follows(t, <<m>>, s, n) /\ Present(t, n)'
  <2>1. ~Leaves(m) /\ HasMedia(s) => PageOf(s).url = m.info.url
    BY <1>4 DEF Present
  <2>2. PICK n \in Known : /\ Follows(t, <<m>>, s, n)
                           /\ PageOf(n) = IF Leaves(m) THEN None ELSE PageOf(s)
    BY <1>4, <2>1, UpdatingIsKnown
  <2>3. CASE Leaves(m)
    BY <1>3, <1>4, <2>2, <2>3 DEF Present, HasMedia
  <2>4. CASE ~Leaves(m)
    BY <1>3, <1>4, <2>2, <2>4 DEF Present, HasMedia
  <2>5. QED
    BY <2>2, <2>3, <2>4
<1>5. WillKnow(t, <<m>>) /\ WillForget(t, <<m>>)
  BY <1>4 DEF WillKnow, WillForget
<1>6. <<m>> \in Seq(Message) /\ inbox' = inbox \o <<m>>
  BY <1>1, <1>2
<1>7. \A u \in Tabs \ {t} : \A i \in 1 .. Len(<<m>>) : ~About(u, <<m>>[i])
  BY <1>2, NotAboutOthers
<1>8. QED
  BY <1>1, <1>3, <1>5, <1>6, <1>7, OneTabTold

LEMMA NavigationStartsKeeps ==
  ASSUME Inv, NEW t \in Tabs, NavigationStarts(t)
  PROVE  Inv'
<1> DEFINE m == Updated(t, tab[t], "loading")
<1>1. tab \in [Tabs -> Tab] /\ tab[t] \in Tab /\ exposed \in [Tabs -> BOOLEAN]
  BY BrowserIsTyped
<1>2. m \in UpdatedMessages /\ m.tab = t /\ m.info.url = tab[t].url /\ Leaves(m)
  BY <1>1 DEF Updated, UpdatedMessages, InfoOf, Info, Tab, Leaves
<1>3. /\ tab[t].open /\ inbox' = Append(inbox, m) /\ tab' = [tab EXCEPT ![t].loading = TRUE]
      /\ exposed' = [exposed EXCEPT ![t] = TRUE] /\ fingerprint' = fingerprint
      /\ goodbye' = goodbye /\ UNCHANGED <<background, receiver>>
  BY DEF NavigationStarts
<1> HIDE DEF m
<1>4. /\ tab' \in [Tabs -> Tab] /\ \A u \in Tabs \ {t} : tab'[u] = tab[u]
      /\ tab'[t].open /\ tab'[t].url = tab[t].url /\ tab'[t].scripted = tab[t].scripted
  BY <1>1, <1>3 DEF Tab
<1>5. exposed' = [exposed EXCEPT ![t] = Leaves(m) \/ @]
  BY <1>2, <1>3
<1>6. QED
  BY <1>2, <1>3, <1>4, <1>5, UpdatedIsTold

LEMMA NavigationAbortsKeeps ==
  ASSUME Inv, NEW t \in Tabs, NavigationAborts(t)
  PROVE  Inv'
<1> DEFINE m == Updated(t, tab[t], "complete")
<1>1. tab \in [Tabs -> Tab] /\ tab[t] \in Tab /\ exposed \in [Tabs -> BOOLEAN]
  BY BrowserIsTyped
<1>2. m \in UpdatedMessages /\ m.tab = t /\ m.info.url = tab[t].url /\ ~Leaves(m)
  BY <1>1 DEF Updated, UpdatedMessages, InfoOf, Info, Tab, Leaves
<1>3. /\ tab[t].open /\ inbox' = Append(inbox, m) /\ tab' = [tab EXCEPT ![t].loading = FALSE]
      /\ exposed' = exposed /\ fingerprint' = fingerprint /\ goodbye' = goodbye
      /\ UNCHANGED <<background, receiver>>
  BY DEF NavigationAborts
<1> HIDE DEF m
<1>4. /\ tab' \in [Tabs -> Tab] /\ \A u \in Tabs \ {t} : tab'[u] = tab[u]
      /\ ~tab'[t].loading /\ tab'[t].open /\ tab'[t].url = tab[t].url /\ tab'[t].scripted = tab[t].scripted
  BY <1>1, <1>3 DEF Tab
<1>5. exposed' = [exposed EXCEPT ![t] = Leaves(m) \/ @]
  BY <1>1, <1>2, <1>3
<1>6. QED
  BY <1>2, <1>3, <1>4, <1>5, UpdatedIsTold

LEMMA PushStateKeeps ==
  ASSUME Inv, NEW t \in Tabs, PushState(t)
  PROVE  Inv'
<1>1. tab \in [Tabs -> Tab] /\ tab[t] \in Tab /\ exposed \in [Tabs -> BOOLEAN]
  BY BrowserIsTyped
<1>2. PICK url \in Urls : tab' = [tab EXCEPT ![t].url = url]
  BY DEF PushState
<1> DEFINE new == [tab[t] EXCEPT !.url = url]
           m == Updated(t, new, "url")
<1>3. /\ tab' \in [Tabs -> Tab] /\ \A u \in Tabs \ {t} : tab'[u] = tab[u]
      /\ tab'[t] = new /\ new \in Tab /\ new.open = tab[t].open /\ new.url = url /\ new.scripted = tab[t].scripted
  BY <1>1, <1>2 DEF Tab
<1>4. /\ tab[t].open /\ inbox' = Append(inbox, m)
      /\ exposed' = [exposed EXCEPT ![t] = TRUE] /\ fingerprint' = fingerprint
      /\ goodbye' = goodbye /\ UNCHANGED <<background, receiver>>
  BY <1>3 DEF PushState
<1> HIDE DEF new
<1>5. m \in UpdatedMessages /\ m.tab = t /\ m.info.url = new.url /\ Leaves(m)
  BY <1>3 DEF Updated, UpdatedMessages, InfoOf, Info, Tab, Leaves
<1> HIDE DEF m
<1>6. exposed' = [exposed EXCEPT ![t] = Leaves(m) \/ @]
  BY <1>4, <1>5
<1>7. QED
  BY <1>3, <1>4, <1>5, <1>6, UpdatedIsTold

(* Boxes about one tab only, and ones after which nothing is known of its   *)
(* page.                                                                    *)
Only(t, box) ==
  box \in Seq(Message) /\ \A u \in Tabs \ {t} : \A i \in 1 .. Len(box) : ~About(u, box[i])
Forgets(t, box) ==
  \A s \in Known : Agrees(s) => \E n \in Known : Follows(t, box, s, n) /\ PageOf(n) = None

LEMMA OnlyOne ==
  ASSUME NEW t \in Tabs, NEW m \in Message, m.kind \in {"page", "updated", "removed"}, m.tab = t
  PROVE  Only(t, <<m>>)
<1>1. Len(<<m>>) = 1 /\ <<m>>[1] = m /\ <<m>> \in Seq(Message)
  OBVIOUS
<1>2. \A i \in 1 .. 1 : i = 1
  OBVIOUS
<1>3. QED
  BY <1>1, <1>2, NotAboutOthers DEF Only

LEMMA OnlyConcat ==
  ASSUME NEW t \in Tabs, NEW a, NEW b, Only(t, a), Only(t, b)
  PROVE  Only(t, a \o b)
<1>1. /\ a \in Seq(Message) /\ b \in Seq(Message) /\ a \o b \in Seq(Message)
      /\ Len(a) \in Nat /\ Len(b) \in Nat /\ Len(a \o b) = Len(a) + Len(b)
      /\ \A i \in 1 .. Len(a) : (a \o b)[i] = a[i]
      /\ \A i \in Len(a) + 1 .. Len(a) + Len(b) : (a \o b)[i] = b[i - Len(a)]
  BY DEF Only
<1>2. ASSUME NEW u \in Tabs \ {t}, NEW i \in 1 .. Len(a \o b)
      PROVE  ~About(u, (a \o b)[i])
  <2>1. CASE i \in 1 .. Len(a)
    BY <1>1, <2>1 DEF Only
  <2>2. CASE i \in Len(a) + 1 .. Len(a) + Len(b)
    <3>1. i - Len(a) \in 1 .. Len(b)
      BY <1>1, <2>2
    <3>2. QED
      BY <1>1, <2>2, <3>1 DEF Only
  <2>3. QED
    BY <1>1, <2>1, <2>2
<1>3. QED
  BY <1>1, <1>2 DEF Only

LEMMA ForgetsConcat ==
  ASSUME NEW t \in Tabs, NEW a, NEW b, Only(t, a), Only(t, b), Forgets(t, a), Forgets(t, b)
  PROVE  Forgets(t, a \o b)
<1>1. ASSUME NEW s \in Known, Agrees(s)
      PROVE  \E n \in Known : Follows(t, a \o b, s, n) /\ PageOf(n) = None
  <2>1. a \in Seq(Message) /\ b \in Seq(Message)
    BY DEF Only
  <2>2. PICK x \in Known : Follows(t, a, s, x)
    BY <1>1 DEF Forgets
  <2>3. Agrees(x)
    BY <2>1, <2>2, FollowsEnds
  <2>4. PICK n \in Known : Follows(t, b, x, n) /\ PageOf(n) = None
    BY <2>3 DEF Forgets
  <2>5. Follows(t, a \o b, s, n)
    BY <2>1, <2>2, <2>4, FollowsConcat
  <2>6. QED
    BY <2>4, <2>5
<1>2. QED
  BY <1>1 DEF Forgets

LEMMA LeavingIsForgotten ==
  ASSUME NEW t \in Tabs, NEW m \in Message, m.kind \in {"page", "removed"}, m.tab = t,
         m.kind = "page" => m.closing
  PROVE  Only(t, <<m>>) /\ Forgets(t, <<m>>)
<1>1. Only(t, <<m>>)
  BY OnlyOne
<1>2. \A s \in Known : Agrees(s) => Follows(t, <<m>>, s, None)
  BY LeavingForgets
<1>3. QED
  BY <1>1, <1>2, NoPage DEF Forgets

LEMMA ClosingIsForgotten ==
  ASSUME NEW t \in Tabs, NEW tb \in Tab, NEW page \in PageState
  PROVE  LET bye == PageMessage(t, tb, page, TRUE)
         IN  bye \in Message /\ Only(t, <<bye>>) /\ Forgets(t, <<bye>>)
<1> DEFINE bye == PageMessage(t, tb, page, TRUE)
<1>1. bye \in Message /\ bye.kind = "page" /\ bye.tab = t /\ bye.closing
  BY DEF PageMessage, PageMessages, Message, InfoOf, Info, Tab
<1> HIDE DEF bye
<1>2. Only(t, <<bye>>) /\ Forgets(t, <<bye>>)
  BY <1>1, LeavingIsForgotten
<1>3. QED
  BY <1>1, <1>2 DEF bye

LEMMA FarewellIsForgotten ==
  ASSUME NEW t \in Tabs, NEW old \in Tab, NEW new \in Tab, NEW event,
         event \in {<<>>, <<Updated(t, new, "url")>>}, NEW told \in Farewell(t, old, event)
  PROVE  /\ Only(t, told) /\ (told # <<>> => Forgets(t, told))
         /\ told = <<>> => event = <<>>
<1> DEFINE page == PageStateOf(old)
           bye == PageMessage(t, old, page, TRUE)
           m == Updated(t, new, "url")
<1>1. told = event \/ told = <<bye>> \o event
  BY DEF Farewell
<1>2. page \in PageState
  BY DEF PageStateOf, PageState, Tab
<1> HIDE DEF page
<1>3. Only(t, <<bye>>) /\ Forgets(t, <<bye>>)
  BY <1>2, ClosingIsForgotten
<1> HIDE DEF bye
<1>4. Only(t, <<m>>) /\ Forgets(t, <<m>>)
  <2>1. /\ m \in UpdatedMessages /\ m \in Message /\ m.kind = "updated" /\ m.tab = t /\ Leaves(m)
    BY DEF Updated, UpdatedMessages, Message, InfoOf, Info, Tab, Leaves
  <2> HIDE DEF m
  <2>2. \A s \in Known : Agrees(s) =>
          \E n \in Known : Follows(t, <<m>>, s, n) /\ PageOf(n) = None
    BY <2>1, UpdatingIsKnown
  <2>3. QED
    BY <2>1, <2>2, OnlyOne DEF Forgets
<1> HIDE DEF m
<1>5. CASE event = <<>>
  <2>1. told \in {<<>>, <<bye>>}
    BY <1>1, <1>5
  <2>2. Only(t, <<>>)
    BY DEF Only
  <2>3. QED
    BY <1>3, <1>5, <2>1, <2>2
<1>6. CASE event = <<m>>
  <2>1. told # <<>>
    BY <1>1, <1>6
  <2>2. Only(t, told) /\ Forgets(t, told)
    BY <1>1, <1>3, <1>4, <1>6, OnlyConcat, ForgetsConcat
  <2>3. QED
    BY <2>1, <2>2
<1>7. QED
  BY <1>5, <1>6 DEF m

LEMMA CloseKeeps ==
  ASSUME Inv, NEW t \in Tabs, Close(t)
  PROVE  Inv'
<1> DEFINE page == PageStateOf(tab[t])
           bye == PageMessage(t, tab[t], page, TRUE)
           removed == [kind |-> "removed", tab |-> t]
<1>1. /\ inbox \in Seq(Message) /\ tab[t] \in Tab /\ page \in PageState
      /\ tab \in [Tabs -> Tab] /\ fingerprint \in [Tabs -> PageState \cup {None}]
      /\ exposed \in [Tabs -> BOOLEAN] /\ goodbye \subseteq Tabs
  BY BrowserIsTyped
<1>2. /\ tab' = [tab EXCEPT ![t].open = FALSE] /\ fingerprint' = [fingerprint EXCEPT ![t] = None]
      /\ exposed' = [exposed EXCEPT ![t] = FALSE] /\ goodbye' = goodbye \ {t}
      /\ UNCHANGED <<background, receiver>>
  BY DEF Close
<1>3. PICK told \in {<<>>, <<bye>>} : inbox' = inbox \o told \o <<removed>>
  BY DEF Close
<1>4. Only(t, <<bye>>) /\ Forgets(t, <<bye>>)
  BY <1>1, ClosingIsForgotten
<1>5. removed.kind = "removed" /\ removed.tab = t /\ removed \in Message
  BY DEF RemovedMessages, Message
<1> HIDE DEF page, bye, removed
<1>6. Only(t, <<removed>>) /\ Forgets(t, <<removed>>)
  BY <1>5, LeavingIsForgotten
<1>7. Only(t, <<>>)
  BY DEF Only
<1> DEFINE box == told \o <<removed>>
<1>8. Only(t, box) /\ Forgets(t, box)
  <2>1. CASE told = <<>>
    <3>1. box = <<removed>>
      BY <2>1
    <3>2. QED
      BY <1>6, <3>1
  <2>2. CASE told = <<bye>>
    BY <1>4, <1>6, <2>2, OnlyConcat, ForgetsConcat
  <2>3. QED
    BY <1>3, <2>1, <2>2
<1>9. inbox' = inbox \o box /\ box # <<>> /\ box[Len(box)] = removed
  <2>1. told \in Seq(Message) /\ <<removed>> \in Seq(Message)
    <3>1. <<bye>> \in Seq(Message) /\ <<>> \in Seq(Message) /\ <<removed>> \in Seq(Message)
      BY <1>4, <1>6, <1>7 DEF Only
    <3>2. QED
      BY <1>3, <3>1
  <2>2. QED
    BY <1>1, <1>3, <2>1
<1> HIDE DEF box
<1>10. /\ tab' \in [Tabs -> Tab] /\ \A u \in Tabs \ {t} : tab'[u] = tab[u]
       /\ ~tab'[t].open
  BY <1>1, <1>2 DEF Tab
<1>11. /\ fingerprint' \in [Tabs -> PageState \cup {None}]
       /\ \A u \in Tabs \ {t} : fingerprint'[u] = fingerprint[u]
       /\ exposed' \in [Tabs -> BOOLEAN] /\ \A u \in Tabs \ {t} : exposed'[u] = exposed[u]
       /\ goodbye' \subseteq Tabs
  BY <1>1, <1>2
<1>12. WillForget(t, box)
  BY <1>5, <1>9 DEF WillForget
<1>13. WillKnow(t, box)
  BY <1>8, <1>10 DEF WillKnow, Forgets, Present
<1>14. QED
  BY <1>2, <1>8, <1>9, <1>10, <1>11, <1>12, <1>13, OneTabTold DEF Only

LEMMA CommitKeeps ==
  ASSUME Inv, NEW t \in Tabs, Commit(t)
  PROVE  Inv'
<1>1. /\ inbox \in Seq(Message) /\ tab[t] \in Tab /\ tab \in [Tabs -> Tab]
      /\ fingerprint \in [Tabs -> PageState \cup {None}] /\ exposed \in [Tabs -> BOOLEAN]
  BY BrowserIsTyped
<1>2. tab[t].open /\ tab[t].loading /\ UNCHANGED <<background, receiver>>
  BY DEF Commit
<1> DEFINE new(url, scripted) == [tab[t] EXCEPT !.loading = FALSE, !.url = url,
                                                !.scripted = scripted, !.media = "none"]
           moved(url, scripted) == IF url = tab[t].url THEN <<>>
                                   ELSE <<Updated(t, new(url, scripted), "url")>>
           hello(url, scripted) ==
             IF scripted
             THEN <<PageMessage(t, new(url, scripted), PageStateOf(new(url, scripted)), FALSE)>>
             ELSE <<>>
<1>3. PICK url \in Urls, scripted \in BOOLEAN :
        \E told \in Farewell(t, tab[t], moved(url, scripted)) :
             /\ tab' = [tab EXCEPT ![t] = new(url, scripted)]
             /\ fingerprint' = [fingerprint EXCEPT ![t] =
                                  IF scripted THEN PageStateOf(new(url, scripted)) ELSE None]
             /\ inbox' = inbox \o told \o hello(url, scripted)
             /\ exposed' = [exposed EXCEPT ![t] =
                              ~scripted /\ tab[t].scripted /\ told = <<>>]
             /\ \/ UNCHANGED goodbye
                \/ /\ told = moved(url, scripted) /\ tab[t].scripted
                   /\ goodbye' = goodbye \cup {t}
  BY DEF Commit
<1> DEFINE nu == new(url, scripted)
           event == moved(url, scripted)
           page == PageStateOf(nu)
           m == PageMessage(t, nu, page, FALSE)
           hi == IF scripted THEN <<m>> ELSE <<>>
<1>4. /\ nu \in Tab /\ nu.open /\ ~nu.loading /\ nu.url = url /\ (nu.scripted <=> scripted)
      /\ page \in PageState /\ page.url = url
  BY <1>1, <1>2, ConstantsAssumption DEF Tab, PageStateOf, PageState
<1>5. event = IF url = tab[t].url THEN <<>> ELSE <<Updated(t, nu, "url")>>
  OBVIOUS
<1>6. PICK told \in Farewell(t, tab[t], event) :
        /\ tab' = [tab EXCEPT ![t] = nu]
        /\ fingerprint' = [fingerprint EXCEPT ![t] = IF scripted THEN page ELSE None]
        /\ inbox' = inbox \o told \o hi
        /\ exposed' = [exposed EXCEPT ![t] = ~scripted /\ tab[t].scripted /\ told = <<>>]
        /\ goodbye' = goodbye \/ goodbye' = goodbye \cup {t}
  BY <1>3
<1> HIDE DEF new, moved, hello, nu, event
<1>7. /\ m \in PageMessages /\ m \in Message /\ m.kind = "page" /\ m.tab = t
      /\ m.info.url = m.page.url /\ m.page = page /\ ~m.closing
  BY <1>4 DEF PageMessage, PageMessages, Message, InfoOf, Info, Tab
<1> HIDE DEF page, m
<1>8. /\ Only(t, told) /\ (told # <<>> => Forgets(t, told))
      /\ told = <<>> => url = tab[t].url
  <2>1. event \in {<<>>, <<Updated(t, nu, "url")>>}
    BY <1>5
  <2>2. /\ Only(t, told) /\ (told # <<>> => Forgets(t, told))
        /\ told = <<>> => event = <<>>
    BY <1>1, <1>4, <1>6, <2>1, FarewellIsForgotten
  <2>3. event = <<>> => url = tab[t].url
    BY <1>5
  <2>4. QED
    BY <2>2, <2>3
<1> DEFINE box == told \o hi
<1>9. Only(t, hi) /\ Only(t, box)
  <2>1. Only(t, <<m>>) /\ Only(t, <<>>)
    BY <1>7, OnlyOne DEF Only
  <2>2. QED
    BY <1>8, <2>1, OnlyConcat
<1>10. inbox' = inbox \o box
  <2>1. told \in Seq(Message) /\ hi \in Seq(Message)
    BY <1>8, <1>9 DEF Only
  <2>2. inbox' = inbox \o told \o hi
    BY <1>6
  <2> HIDE DEF hi
  <2>3. QED
    BY <1>1, <2>1, <2>2
<1>11. /\ tab' \in [Tabs -> Tab] /\ tab'[t] = nu
       /\ fingerprint' \in [Tabs -> PageState \cup {None}]
       /\ fingerprint'[t] = IF scripted THEN page ELSE None
       /\ exposed' \in [Tabs -> BOOLEAN] /\ goodbye' \subseteq Tabs
       /\ exposed'[t] = (~scripted /\ tab[t].scripted /\ told = <<>>)
  BY <1>1, <1>2, <1>4, <1>6, BrowserIsTyped
<1>12. \A u \in Tabs \ {t} : tab'[u] = tab[u] /\ fingerprint'[u] = fingerprint[u] /\ exposed'[u] = exposed[u]
  BY <1>1, <1>6
<1>13. ASSUME NEW s \in Known, Agrees(s), Present(t, s)
       PROVE  \E n \in Known : Follows(t, box, s, n) /\ Present(t, n)'
  <2>1. PICK x \in Known :
          /\ Follows(t, told, s, x)
          /\ HasMedia(x) => PageOf(x).url = url
          /\ exposed'[t] \/ scripted \/ PageOf(x) = None
    <3>1. CASE told = <<>>
      <4>1. Follows(t, told, s, s)
        BY <1>13, <3>1, FollowsNone
      <4>2. /\ HasMedia(s) => PageOf(s).url = url
            /\ exposed'[t] \/ scripted \/ PageOf(s) = None
        BY <1>2, <1>8, <1>11, <1>13, <3>1 DEF Present
      <4>3. QED
        BY <4>1, <4>2
    <3>2. CASE told # <<>>
      <4>1. PICK x \in Known : Follows(t, told, s, x) /\ PageOf(x) = None
        BY <1>8, <1>13, <3>2 DEF Forgets
      <4>2. QED
        BY <4>1 DEF HasMedia
    <3>3. QED
      BY <3>1, <3>2
  <2>2. told \in Seq(Message) /\ hi \in Seq(Message)
    BY <1>8, <1>9 DEF Only
  <2>3. Agrees(x)
    BY <2>1, <2>2, FollowsEnds
  <2>4. CASE scripted
    <3>1. HasMedia(x) => PageOf(x).url = m.page.url
      BY <1>4, <1>7, <2>1
    <3>2. PICK n \in Known : Follows(t, <<m>>, x, n) /\ PageOf(n) = page
      BY <1>7, <2>3, <3>1, SpeakingIsKnown
    <3>3. Present(t, n)'
      BY <1>4, <1>11, <2>4, <3>2 DEF Present, HasMedia
    <3>4. hi = <<m>>
      BY <2>4
    <3>5. Follows(t, told \o hi, s, n)
      BY <2>1, <2>2, <3>2, <3>4, FollowsConcat
    <3>6. QED
      BY <3>3, <3>5
  <2>5. CASE ~scripted
    <3>1. Follows(t, hi, x, x)
      BY <2>3, <2>5, FollowsNone
    <3>2. Present(t, x)'
      BY <1>4, <1>11, <2>1, <2>5 DEF Present
    <3>3. Follows(t, told \o hi, s, x)
      BY <2>1, <2>2, <3>1, FollowsConcat
    <3>4. QED
      BY <3>2, <3>3
  <2>6. QED
    BY <2>4, <2>5
<1> HIDE DEF box
<1>14. WillKnow(t, box) /\ WillForget(t, box)
  BY <1>4, <1>11, <1>13 DEF WillKnow, WillForget
<1>15. QED
  BY <1>2, <1>9, <1>10, <1>11, <1>12, <1>14, OneTabTold DEF Only

(* A closing message that comes late: nothing is known of the tab after it. *)
LEMMA LateFarewellKeeps ==
  ASSUME Inv, NEW t \in Tabs, LateFarewell(t)
  PROVE  Inv'
<1>1. /\ inbox \in Seq(Message) /\ tab[t] \in Tab /\ tab \in [Tabs -> Tab]
      /\ fingerprint \in [Tabs -> PageState \cup {None}] /\ exposed \in [Tabs -> BOOLEAN]
      /\ goodbye \subseteq Tabs
  BY BrowserIsTyped
<1>2. /\ tab[t].open /\ tab' = tab /\ fingerprint' = fingerprint /\ goodbye' \subseteq Tabs
      /\ exposed' = [exposed EXCEPT ![t] = tab[t].scripted] /\ UNCHANGED <<background, receiver>>
  BY <1>1 DEF LateFarewell, browser
<1>3. PICK url \in Urls :
        inbox' = Append(inbox, PageMessage(t, tab[t], FormerPage(url), TRUE))
  BY DEF LateFarewell
<1> DEFINE bye == PageMessage(t, tab[t], FormerPage(url), TRUE)
           box == <<bye>>
<1>4. FormerPage(url) \in PageState
  BY ConstantsAssumption DEF FormerPage, PageState
<1>5. bye \in Message /\ Only(t, box) /\ Forgets(t, box)
  BY <1>1, <1>4, ClosingIsForgotten
<1>6. inbox' = Append(inbox, bye)
  BY <1>3
<1> HIDE DEF bye
<1>7. box \in Seq(Message) /\ inbox' = inbox \o box
  BY <1>1, <1>5, <1>6
<1> HIDE DEF box
<1>8. /\ exposed' \in [Tabs -> BOOLEAN] /\ exposed'[t] = tab[t].scripted
      /\ \A u \in Tabs \ {t} : exposed'[u] = exposed[u]
  BY <1>1, <1>2 DEF Tab
<1>9. ASSUME NEW s \in Known, Agrees(s), Present(t, s)
      PROVE  \E n \in Known : Follows(t, box, s, n) /\ Present(t, n)'
  <2>1. PICK n \in Known : Follows(t, box, s, n) /\ PageOf(n) = None
    BY <1>5, <1>9 DEF Forgets
  <2>2. Present(t, n)'
    BY <1>2, <1>8, <1>9, <2>1 DEF Present, HasMedia
  <2>3. QED
    BY <2>1, <2>2
<1>10. WillKnow(t, box) /\ WillForget(t, box)
  BY <1>2, <1>9 DEF WillKnow, WillForget
<1>11. QED
  BY <1>1, <1>2, <1>5, <1>7, <1>8, <1>10, OneTabTold DEF Only

(* The agent comes and goes, or nothing happens.                            *)
LEMMA NothingToldKeeps ==
  ASSUME Inv, UNCHANGED <<browser, inbox, goodbye, background, exposed>>, receiver' \in {"up", "down"}
  PROVE  Inv'
<1>1. tab' = tab /\ fingerprint' = fingerprint /\ inbox' = inbox /\ exposed' = exposed
      /\ goodbye' = goodbye /\ UNCHANGED background
  BY DEF browser
<1>2. inbox \in Seq(Message) /\ BrowserTypes'
  BY <1>1 DEF Inv, Types, TypeOK, BrowserTypes
<1>3. <<>> \in Seq(Message) /\ inbox' = inbox \o <<>> /\ \A i \in 1 .. Len(<<>>) : FALSE
  BY <1>1, <1>2
<1>4. \A t \in Tabs : WillKnow(t, <<>>) /\ WillForget(t, <<>>)
  BY <1>1, <1>3, OthersKnow
<1>5. QED
  BY <1>1, <1>2, <1>3, <1>4, ToldKeepsInv

LEMMA RestartKeeps == Inv /\ Restart => Inv'
<1> SUFFICES ASSUME Inv, Restart
             PROVE  Inv'
  OBVIOUS
<1> DEFINE m == TabsResult(TRUE)
<1>1. TypeOK /\ report \in [Tabs -> Report] /\ TRUE \in BOOLEAN
  BY EntriesAreKnown DEF Inv, Types
<1>2. m \in Message /\ \A t \in Tabs : About(t, m) <=> tab[t].open
  BY <1>1, TabsResultIs, Zenon
<1>3. /\ states' = [t \in Tabs |-> None] /\ inbox' = <<m>> /\ exposed' = [t \in Tabs |-> TRUE]
      /\ report' = [t \in Tabs |-> [lastSent |-> None, core |-> None]]
      /\ tab' = tab /\ fingerprint' = fingerprint /\ receiver' = receiver /\ goodbye' = goodbye
  BY DEF Restart, browser
<1>4. \A t \in Tabs : /\ report'[t] \in Report /\ report'[t].lastSent = None /\ report'[t].core = None
                      /\ states'[t] = None /\ exposed'[t]
  BY <1>1, <1>3 DEF Report
<1>5. Types'
  <2>1. states' \in [Tabs -> Known] /\ report' \in [Tabs -> Report] /\ BrowserTypes'
    BY <1>1, <1>3, <1>4 DEF TypeOK, BrowserTypes, Known
  <2> HIDE DEF m
  <2>2. m \in Message /\ inbox' = <<m>>
    BY <1>2, <1>3
  <2>3. inbox' \in Seq(Message)
    BY <2>2
  <2>4. QED
    BY <2>1, <2>3, TypesAre
<1>6. WillBeKnown'
  <2>1. SUFFICES ASSUME NEW t \in Tabs
                 PROVE  \E n \in Known : Follows(t, inbox', states'[t], n) /\ Present(t, n)'
    BY DEF WillBeKnown
  <2>2. tab[t].open /\ ~tab[t].scripted => fingerprint[t] = None
    BY DEF Inv, WillBeKnown, Present
  <2>3. PICK n \in Known : Follows(t, <<m>>, None, n) /\ PageOf(n) = PageOf(None)
    BY <1>1, NoPage, AskingKeepsPage, Zenon
  <2>4. Present(t, n)'
    BY <1>3, <1>4, <2>2, <2>3, NoPage DEF Present, HasMedia
  <2>5. QED
    BY <1>3, <1>4, <2>3, <2>4
<1> HIDE DEF m
<1>7. ClosedAreGone'
  <2>1. SUFFICES ASSUME NEW t \in Tabs, ~tab'[t].open
                 PROVE  Gone(t)'
    BY DEF ClosedAreGone
  <2>2. inbox' = <<m>>
    BY <1>3
  <2>3. Len(inbox') = 1 /\ 0 \in 0 .. Len(inbox') /\ \A j \in 0 + 1 .. Len(inbox') : inbox'[j] = m
    BY <2>2
  <2>4. QED
    BY <1>2, <1>3, <1>4, <2>1, <2>3 DEF Gone
<1>8. CoreFollows'
  BY <1>4 DEF CoreFollows, Backed, Plays
<1>9. QED
  BY <1>5, <1>6, <1>7, <1>8 DEF Inv

LEMMA InitIsWell == Init => Inv
<1> SUFFICES ASSUME Init
             PROVE  Inv
  OBVIOUS
<1> DEFINE m == TabsResult(TRUE)
<1>1. \A t \in Tabs : /\ tab[t] \in Tab /\ tab[t].open /\ ~tab[t].scripted
                      /\ states[t] = None /\ fingerprint[t] = None /\ ~exposed[t]
                      /\ report[t] \in Report /\ report[t].core = None
  BY ConstantsAssumption DEF Init, Tab, Report
<1>2. /\ tab \in [Tabs -> Tab] /\ fingerprint \in [Tabs -> PageState \cup {None}]
      /\ inbox = <<m>> /\ states \in [Tabs -> Known] /\ report \in [Tabs -> Report]
      /\ receiver \in {"up", "down"} /\ exposed \in [Tabs -> BOOLEAN] /\ TRUE \in BOOLEAN
      /\ goodbye \subseteq Tabs
  BY <1>1 DEF Init, Known
<1>3. Types
  <2>1. \A i \in 1 .. Len(inbox) : inbox[i].kind = "tabs"
    BY <1>2 DEF TabsResult
  <2>2. TypeOK
    BY <1>2, <2>1 DEF TypeOK, Known
  <2>3. m \in Message
    BY <1>2, <2>2, TabsResultIs, Zenon
  <2> HIDE DEF m
  <2>4. QED
    BY <1>2, <2>2, <2>3 DEF Types
<1>4. WillBeKnown
  <2>1. SUFFICES ASSUME NEW t \in Tabs
                 PROVE  \E n \in Known : Follows(t, inbox, states[t], n) /\ Present(t, n)
    BY DEF WillBeKnown
  <2>2. TypeOK /\ ~HasMedia(None) /\ PageOf(None) = None
    BY <1>3, NoPage DEF Types
  <2>3. PICK n \in Known : Follows(t, <<m>>, None, n) /\ PageOf(n) = PageOf(None)
    BY <1>2, <2>2, NoPage, AskingKeepsPage, Zenon
  <2>4. Present(t, n)
    BY <1>1, <2>2, <2>3 DEF Present, HasMedia
  <2>5. QED
    BY <1>1, <1>2, <2>3, <2>4
<1>5. ClosedAreGone
  BY <1>1 DEF ClosedAreGone
<1>6. CoreFollows
  BY <1>1 DEF CoreFollows, Backed, Plays
<1>7. QED
  BY <1>3, <1>4, <1>5, <1>6 DEF Inv

-----------------------------------------------------------------------------
(* The background script handles the next message.                          *)
LEMMA HandleKeeps == Inv /\ Handle => Inv'
<1> SUFFICES ASSUME Inv, Handle
             PROVE  Inv'
  OBVIOUS
<1> DEFINE m == Head(inbox)
           rest == Tail(inbox)
           asked == TabsResult(FALSE)
           box == IF m.kind = "activated" THEN <<asked>> ELSE <<>>
<1>1. TypeOK /\ inbox \in Seq(Message) /\ inbox # <<>> /\ FALSE \in BOOLEAN
  BY DEF Inv, Types, Handle
<1>2. HandledWell(m)
  BY MessageHandled DEF Inv
<1>3. inbox' = rest \o box /\ tab' = tab /\ fingerprint' = fingerprint /\ receiver' = receiver
      /\ exposed' = exposed /\ goodbye' = goodbye
  BY DEF Handle, browser
<1>4. asked \in Message /\ \A t \in Tabs : About(t, asked) <=> tab[t].open
  BY <1>1, TabsResultIs, Zenon
<1> HIDE DEF asked
<1>5. box \in Seq(Message) /\ rest \in Seq(Message) /\ m \in Message
  <2>1. <<asked>> \in Seq(Message)
    BY <1>4
  <2>2. QED
    BY <1>1, <2>1
<1>6. /\ Len(inbox) \in Nat \ {0} /\ m = inbox[1] /\ Len(rest) = Len(inbox) - 1
      /\ \A i \in 1 .. Len(inbox) - 1 : rest[i] = inbox[i + 1]
  BY <1>1
<1>7. box = <<>> \/ box = <<asked>>
  OBVIOUS
<1> HIDE DEF m, rest, box
<1>8. Types'
  <2>1. inbox' \in Seq(Message)
    BY <1>3, <1>5
  <2>2. BrowserTypes'
    BY <1>1, <1>3 DEF TypeOK, BrowserTypes
  <2>3. QED
    BY <1>2, <2>1, <2>2, TypesAre DEF HandledWell
<1>9. WillBeKnown'
  <2>1. SUFFICES ASSUME NEW t \in Tabs
                 PROVE  \E n \in Known : Follows(t, inbox', states'[t], n) /\ Present(t, n)'
    BY DEF WillBeKnown
  <2>2. PICK s \in Known : Follows(t, inbox, states[t], s) /\ Present(t, s)
    BY DEF Inv, WillBeKnown
  <2>3. states[t] \in Known /\ states'[t] \in Known /\ states'[t] = Step(t, m, states[t])
    BY <1>1, <1>2, EntriesAreKnown DEF HandledWell
  <2>4. Follows(t, rest, states'[t], s)
    BY <1>1, <2>2, <2>3, FollowsTail DEF m, rest
  <2>5. Agrees(s)
    BY <1>5, <2>3, <2>4, FollowsEnds
  <2>6. PICK n \in Known : Follows(t, box, s, n) /\ PageOf(n) = PageOf(s)
    <3>1. CASE box = <<>>
      BY <2>5, <3>1, FollowsNone
    <3>2. CASE box = <<asked>>
      <4>1. tab[t].open /\ HasMedia(s) => PageOf(s).url = tab[t].url
        BY <2>2 DEF Present
      <4>2. \E n \in Known : Follows(t, <<asked>>, s, n) /\ PageOf(n) = PageOf(s)
        BY <1>1, <2>5, <4>1, AskingKeepsPage, Zenon DEF asked
      <4>3. QED
        BY <3>2, <4>2
    <3>3. QED
      BY <1>7, <3>1, <3>2
  <2>7. Follows(t, rest \o box, states'[t], n)
    BY <1>5, <2>3, <2>4, <2>6, FollowsConcat
  <2>8. Present(t, n)'
    BY <1>3, <2>2, <2>6 DEF Present, HasMedia
  <2>9. QED
    BY <1>3, <2>7, <2>8
<1>10. ClosedAreGone'
  <2>1. SUFFICES ASSUME NEW t \in Tabs, ~tab[t].open
                 PROVE  Gone(t)'
    BY <1>3 DEF ClosedAreGone
  <2>2. PICK i \in 0 .. Len(inbox) :
          /\ i = 0 => states[t] = None /\ report[t].lastSent = None
          /\ i # 0 => inbox[i].kind = "removed" /\ inbox[i].tab = t
          /\ \A j \in i + 1 .. Len(inbox) : ~About(t, inbox[j])
    BY <2>1 DEF Inv, ClosedAreGone, Gone
  <2>3. /\ Len(box) \in {0, 1} /\ \A j \in 1 .. Len(box) : box[j] = asked
        /\ Len(inbox') = Len(rest) + Len(box)
        /\ \A j \in 1 .. Len(rest) : inbox'[j] = rest[j]
        /\ \A j \in Len(rest) + 1 .. Len(rest) + Len(box) : inbox'[j] = box[j - Len(rest)]
    <3>1. Len(box) \in {0, 1} /\ \A j \in 1 .. Len(box) : box[j] = asked
      BY <1>7
    <3>2. QED
      BY <1>3, <1>5, <3>1
  <2>4. ASSUME NEW j \in i .. Len(inbox'), j # 0
        PROVE  ~About(t, inbox'[j])
    <3>1. CASE j \in 1 .. Len(rest)
      <4>1. inbox'[j] = inbox[j + 1] /\ j + 1 \in i + 1 .. Len(inbox)
        BY <1>6, <2>3, <2>4, <3>1
      <4>2. QED
        BY <2>2, <4>1
    <3>2. CASE j \in Len(rest) + 1 .. Len(rest) + Len(box)
      <4>1. j - Len(rest) \in 1 .. Len(box)
        BY <1>6, <2>3, <3>2
      <4>2. inbox'[j] = asked
        BY <2>3, <3>2, <4>1
      <4>3. QED
        BY <1>4, <2>1, <4>2
    <3>3. QED
      BY <1>6, <2>3, <2>4, <3>1, <3>2
  <2>5. CASE i \in {0, 1}
    <3>1. states'[t] = None /\ report'[t].lastSent = None
      <4>1. states'[t] = Step(t, m, states[t]) /\ (~About(t, m) => report'[t] = report[t])
            /\ (m.kind = "removed" /\ m.tab = t => report'[t].lastSent = None)
        BY <1>2 DEF HandledWell
      <4>2. CASE i = 0
        <5>1. ~About(t, m)
          BY <1>6, <2>2, <4>2
        <5>2. QED
          BY <2>2, <4>1, <4>2, <5>1 DEF Step
      <4>3. CASE i = 1
        <5>1. m.kind = "removed" /\ m.tab = t
          BY <1>6, <2>2, <4>3
        <5>2. QED
          BY <4>1, <5>1 DEF Step, About
      <4>4. QED
        BY <2>5, <4>2, <4>3
    <3>2. 0 \in 0 .. Len(inbox') /\ \A j \in 0 + 1 .. Len(inbox') : j \in i .. Len(inbox') /\ j # 0
      BY <1>6, <2>3, <2>5
    <3>3. QED
      BY <2>4, <3>1, <3>2 DEF Gone
  <2>6. CASE i \notin {0, 1}
    <3>1. /\ i - 1 \in 1 .. Len(rest) /\ i - 1 \in 0 .. Len(inbox') /\ i - 1 # 0
          /\ inbox'[i - 1] = inbox[i]
          /\ \A j \in (i - 1) + 1 .. Len(inbox') : j \in i .. Len(inbox') /\ j # 0
      BY <1>6, <2>2, <2>3, <2>6
    <3>2. QED
      BY <2>2, <2>4, <2>6, <3>1 DEF Gone
  <2>7. QED
    BY <2>5, <2>6
<1>11. CoreFollows'
  BY <1>2 DEF HandledWell, CoreFollows
<1>12. QED
  BY <1>8, <1>9, <1>10, <1>11 DEF Inv

LEMMA NextKeeps == Inv /\ [Next]_vars => Inv'
<1> SUFFICES ASSUME Inv, [Next]_vars
             PROVE  Inv'
  OBVIOUS
<1>1. CASE Handle
  BY <1>1, HandleKeeps
<1>2. CASE Heartbeat
  BY <1>2, HeartbeatKeeps
<1>3. CASE Restart
  BY <1>3, RestartKeeps
<1>4. CASE Reachability
  <2>1. receiver' \in {"up", "down"}
    BY <1>4 DEF Reachability
  <2>2. QED
    BY <1>4, <2>1, NothingToldKeeps DEF Reachability
<1>5. ASSUME NEW t \in Tabs \cup {None}, Activate(t)
      PROVE  Inv'
  BY <1>5, ActivateKeeps
<1>6. ASSUME NEW t \in Tabs,
             \/ Emit(t) \/ MediaChanges(t) \/ PushState(t) \/ Close(t)
             \/ NavigationStarts(t) \/ NavigationAborts(t) \/ Commit(t) \/ LateFarewell(t)
      PROVE  Inv'
  BY <1>6, EmitKeeps, MediaChangesKeeps, PushStateKeeps, CloseKeeps, NavigationStartsKeeps,
     NavigationAbortsKeeps, CommitKeeps, LateFarewellKeeps
<1>7. CASE UNCHANGED vars
  <2>1. receiver \in {"up", "down"}
    BY DEF Inv, Types, TypeOK
  <2>2. QED
    BY <1>7, <2>1, NothingToldKeeps DEF vars
<1>8. QED
  BY <1>1, <1>2, <1>3, <1>4, <1>5, <1>6, <1>7 DEF Next

-----------------------------------------------------------------------------
(* What the invariant says when nothing is on its way.                      *)
LEMMA SettledIsKnown ==
  ASSUME Inv, NEW t \in Tabs, inbox = <<>>
  PROVE  /\ states[t] \in Known /\ Present(t, states[t])
         /\ ~tab[t].open => states[t] = None /\ report[t].lastSent = None
<1>1. inbox \in Seq(Message) /\ states[t] \in Known
  BY EntriesAreKnown DEF Inv, Types
<1>2. PICK s \in Known : Follows(t, inbox, states[t], s) /\ Present(t, s)
  BY DEF Inv, WillBeKnown
<1>3. states[t] = s
  BY <1>1, <1>2, FollowsEnds
<1>4. Len(inbox) = 0 /\ \A i \in 0 .. Len(inbox) : i = 0
  OBVIOUS
<1>5. ~tab[t].open => states[t] = None /\ report[t].lastSent = None
  BY <1>4 DEF Inv, ClosedAreGone, Gone
<1>6. QED
  BY <1>1, <1>2, <1>3, <1>5

(* The invariant: what is on its way leads from the memory to the truth.    *)
THEOREM MemoryFollows == Spec => []Inv
BY InitIsWell, NextKeeps, PTL DEF Spec

(* The types of the variables: every observation is complete, none carries  *)
(* an undefined kind of media (core.js observationFor).                     *)
THEOREM TypeCorrect == Spec => []TypeOK
<1>1. Inv => TypeOK
  BY DEF Inv, Types
<1>2. QED
  BY <1>1, MemoryFollows, PTL

(* Once every event was handled, the background script knows of each tab    *)
(* what its page told last, and nothing of a tab that is closed, for any    *)
(* number of tabs and however far the script was behind.                    *)
THEOREM MemoryStaysTrue == Spec => []MemoryIsTrue
<1>1. Inv => MemoryIsTrue
  BY SettledIsKnown
  DEF MemoryIsTrue, KnowsThePage, ClosedTabIsForgotten, Settled, Present
<1>2. QED
  BY <1>1, MemoryFollows, PTL

(* At any time, not only once all was handled, media is remembered only     *)
(* together with the URL of the page it plays in.                           *)
THEOREM MediaKeepsItsUrl == Spec => []MediaBelongsToItsUrl
<1>1. ASSUME Inv, NEW t \in Tabs
      PROVE  Agrees(states[t])
  <2>1. inbox \in Seq(Message) /\ states[t] \in Known
    BY <1>1, EntriesAreKnown DEF Inv, Types
  <2>2. PICK s \in Known : Follows(t, inbox, states[t], s)
    BY <1>1 DEF Inv, WillBeKnown
  <2>3. QED
    BY <2>1, <2>2, FollowsEnds
<1>2. Inv => MediaBelongsToItsUrl
  BY <1>1 DEF MediaBelongsToItsUrl, Agrees, HasMedia, PageOf
<1>3. QED
  BY <1>2, MemoryFollows, PTL

(* Unless the last POST was lost or the script restarted, Core counts a tab *)
(* as playing only if its page plays, for any tabs and URLs refused.        *)
THEOREM CoreFollowsThePage == Spec => []CorePlaysOnlyWhatPlays
<1>1. ASSUME Inv, NEW t \in Tabs, Settled(t), Plays(report[t])
      PROVE  tab[t].scripted /\ tab[t].media = "playing"
  <2>1. inbox = <<>> /\ tab[t].open /\ ~exposed[t]
        /\ (tab[t].scripted => fingerprint[t] = PageStateOf(tab[t]))
    BY <1>1 DEF Settled
  <2>2. Present(t, states[t])
    BY <1>1, <2>1, SettledIsKnown
  <2>3. PageOf(states[t]) = fingerprint[t] /\ (~tab[t].scripted => fingerprint[t] = None)
    BY <2>1, <2>2 DEF Present
  <2>4. fingerprint[t] # None /\ fingerprint[t].media = "playing"
    BY <1>1, <2>3 DEF Inv, CoreFollows, Backed, PlayingPage
  <2>5. QED
    BY <2>1, <2>3, <2>4 DEF PageStateOf
<1>2. Inv => CorePlaysOnlyWhatPlays
  BY <1>1 DEF CorePlaysOnlyWhatPlays, Plays
<1>3. QED
  BY <1>2, MemoryFollows, PTL
=============================================================================
