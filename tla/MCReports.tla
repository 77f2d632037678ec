----------------------------- MODULE MCReports -----------------------------
(***************************************************************************)
(* Small days and weeks.  Within a day the AFK stream, where events merge, *)
(* is exhausted up to two events, with some of three; windows, contexts    *)
(* and browser events are few but chosen to start before the period,       *)
(* expire inside it, overlap, lock, and share a start.  Within a week, AFK *)
(* events lie around the boundary of Monday and Tuesday, and the week is   *)
(* asked for before, at and after a boundary, on a weekend and after       *)
(* Sunday's midnight, while an old or a new observation arrives.           *)
(***************************************************************************)
EXTENDS Reports

afk(s, e, status) == [status |-> status, start |-> s, end |-> e]
window(s, e, app) == [start |-> s, end |-> e, app |-> app, locked |-> FALSE]
browser(s, e, id, evidence) == [start |-> s, end |-> e, id |-> id, evidence |-> evidence]
stored(s, e, data) == [start |-> s, end |-> e, data |-> data]
data(version, location, evidence, vlc) ==
  [version |-> version, location |-> location, evidence |-> evidence, network |-> Absent,
   vlc |-> vlc,
   apps |-> "vlc" :> [state |-> vlc, available |-> vlc # "unavailable", passive |-> vlc = "playing"]]
host(at, location, evidence, vlc) ==
  [at |-> at, location |-> location, evidence |-> evidence,
   health |-> IF evidence = "confirmed" THEN "healthy" ELSE "degraded",
   apps |-> "vlc" :> [state |-> vlc, available |-> TRUE]]

AFKEvents(times) ==
  {e \in {afk(s, e, x) : s \in times, e \in times, x \in {"afk", "not-afk"}} : e.start <= e.end}

Contexts ==
  { <<<<>>, <<>>>>,
    <<<<stored(2, 2, data(1, "OFFICE", "stale", "unavailable"))>>, <<>>>>,
    <<<<stored(0, 4, data(0, "REMOTE", Absent, "playing"))>>, <<>>>>,
    <<<<stored(0, 2, data(1, "OFFICE", Absent, "paused"))>>,
      <<host(4, "REMOTE", "fallback", "stopped")>>>> }

DayCases ==
  { [now |-> 10,
     facts |-> [afks |-> a, host |-> c[2], passive |-> p, stored |-> c[1], windows |-> w]] :
      a \in {<<>>} \cup {<<e>> : e \in AFKEvents({0, 2, 4, 6})}
              \cup {<<e, f>> : e \in AFKEvents({0, 2, 4, 6}), f \in AFKEvents({0, 2, 4, 6})}
              \cup {<<afk(0, 0, "afk"), e, afk(4, 6, "afk")>> : e \in AFKEvents({0, 2, 4, 6})}
              \cup {<<afk(0, 4, "afk"), e, afk(4, 6, "not-afk")>> : e \in AFKEvents({0, 2, 4, 6})},
      c \in Contexts,
      p \in { {}, {browser(2, 2, "tab", "work"), browser(4, 4, "tab", "idle")} },
      w \in { <<>>, <<window(0, 8, "Code.exe")>>, <<window(2, 2, "Code.exe")>>,
              <<window(0, 6, "Code.exe"), window(4, 4, "LockApp.exe")>>,
              <<window(4, 6, "Code.exe"), window(4, 4, "mail.exe")>> } }

WeekCase(t, times) ==
  { [now |-> t,
     facts |-> [afks |-> a, host |-> c[2], passive |-> {}, stored |-> c[1],
                windows |-> <<window(8, 24, "Code.exe")>>]] :
      a \in {<<e, f>> : e \in AFKEvents(times), f \in AFKEvents({8, 14, 18})},
      c \in { <<<<>>, <<>>>>, <<<<stored(12, 14, data(1, "OFFICE", "confirmed", "stopped"))>>, <<>>>> } }
WeekCases ==
  UNION {WeekCase(t, {6, 12, 14, 20}) : t \in {12, 14, 18}}
  \cup UNION {WeekCase(t, {12, 14}) : t \in {68, 84, 86}}

(* While the week is reported, the host catches up with Tuesday morning, or *)
(* somebody is back on Saturday.                                            *)
MCArrivals ==
  { [afks |-> <<afk(16, 18, "afk")>>, host |-> <<>>, passive |-> {}, stored |-> <<>>,
     windows |-> <<window(16, 20, "mail.exe")>>],
    [afks |-> <<afk(66, 68, "not-afk")>>, host |-> <<>>, passive |-> {}, stored |-> <<>>,
     windows |-> <<window(66, 68, "Code.exe")>>] }

MCCases == DayCases \cup WeekCases
MCLockApps == {"LockApp.exe"}
MCStatuses == {"afk", "not-afk", "active"}
=============================================================================
