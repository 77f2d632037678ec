---------------------------- MODULE MCCoreStore ----------------------------
(***************************************************************************)
(* A small host: one window that is reported twice and grows, a tab of     *)
(* which one millisecond has two different observations and a third that   *)
(* repeats the first, a diagnostics record that loses its last             *)
(* observation and one that is absent, an observation that is sent again   *)
(* when it expired, and a send time at which earlier observations are      *)
(* exactly at the retention cutoff (4 at 8) and beyond it (3 at 8).        *)
(***************************************************************************)
EXTENDS CoreStore

CONSTANTS h1, h2

MCExtendStreams == {"windows"}
MCReplaceStreams == {"browser"}
MCKeys == {"k1", "k2"}
MCData == {"d1", "d2"}
MCSources == {"native_foreground"}
MCRetention == 4
MCHandlers == {h1, h2}

window(k, end) == [end |-> end, stream |-> "windows", key |-> k, data |-> "d1"]
tab(k, at, d) == [end |-> at, stream |-> "browser", key |-> k, data |-> d]
health(connected, last) ==
  [s \in MCSources |-> [connected |-> connected, last |-> last]]

MCBatches ==
  { [sentAt |-> 2, facts |-> {window("k1", 2), tab("k1", 3, "d1")},
     acquisition |-> health(TRUE, 2)],
    [sentAt |-> 4, facts |-> {tab("k1", 3, "d2"), window("k1", 4)},
     acquisition |-> health(FALSE, 0)],
    [sentAt |-> 8, facts |-> {tab("k1", 3, "d1"), window("k2", 7)},
     acquisition |-> NoAcquisition] }
=============================================================================
