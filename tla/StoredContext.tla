--------------------------- MODULE StoredContext ---------------------------
(***************************************************************************)
(* What a context that was written down means to the classifier:           *)
(* ParseContext in internal/classifier/context.go with the decoders of     *)
(* internal/appstate/context.go, for the contexts the legacy collector     *)
(* stored in ActivityWatch, and the evidence Engine.day derives from the   *)
(* host contexts of the agent (internal/appstate/appstate.go).             *)
(*                                                                         *)
(* A stored context is a record of the fields that are read: version is    *)
(* 0 for the Python tracker's, which has one field for the player's state, *)
(* vlc, instead of apps.  Absent stands for a field that is not there.     *)
(***************************************************************************)
CONSTANT Absent
ASSUME AbsentAssumption ==
  /\ Absent # "degraded"
  /\ \A apps \in [{"vlc"} -> [available : BOOLEAN, passive : BOOLEAN]] : Absent # apps

Locations == {"OFFICE", "REMOTE"}
Evidences == {"confirmed", "stale", "fallback"}
PlayerStates == {"playing", "paused", "stopped"}

(* model.PassiveEvidence, as far as the classifier looks at it.             *)
Passive(available, work) ==
  IF ~available THEN "unavailable" ELSE IF work THEN "work" ELSE "idle"

(* DeriveEvidence with PassiveWhen("playing").                              *)
DeriveEvidence(observation) ==
  Passive(observation.available, observation.state = "playing")

DecodeV1Evidence(apps) ==
  [id \in DOMAIN apps |-> Passive(apps[id].available, apps[id].passive)]

DecodeLegacyEvidence(vlc) ==
  [id \in {"vlc"} |-> Passive(vlc \in PlayerStates, vlc = "playing")]

(* Variant: the written evidence counts for a location that is none.        *)
LocationEvidenceOfAny(data) ==
  IF data.version = 1 /\ data.evidence \in Evidences THEN data.evidence
  ELSE IF data.location \in Locations THEN "confirmed" ELSE "fallback"

(* parseLocation: what the evidence for the location is, if it is one.      *)
LocationEvidence(data) ==
  IF data.location \notin Locations THEN "fallback"
  ELSE IF data.version = 1 /\ data.evidence \in Evidences THEN data.evidence
  ELSE "confirmed"

(* parseLocation: healthy with confirmed evidence of a healthy network.     *)
NetworkHealthy(data) ==
  LocationEvidence(data) = "confirmed" /\ data.network \in {"healthy", Absent}

ParseContext(start, end, data) ==
  LET passive == IF data.version = 0 THEN DecodeLegacyEvidence(data.vlc)
                 ELSE IF data.apps = Absent THEN <<>> ELSE DecodeV1Evidence(data.apps)
      available == \A id \in DOMAIN passive : passive[id] # "unavailable"
  IN IF data.version \notin {0, 1}
     THEN [start |-> start, end |-> end, location |-> "REMOTE", evidence |-> "fallback",
           health |-> "degraded", passive |-> <<>>]
     ELSE [start |-> start, end |-> end,
           location |-> IF data.location \in Locations THEN data.location ELSE "REMOTE",
           evidence |-> LocationEvidence(data),
           health |-> IF NetworkHealthy(data) /\ available THEN "healthy" ELSE "degraded",
           passive |-> passive]

(* Engine.day: a host context, which the agent observed itself.             *)
HostContext(item) ==
  [start |-> item.at, end |-> item.at, location |-> item.location,
   evidence |-> item.evidence, health |-> item.health,
   passive |-> [id \in DOMAIN item.apps |-> DeriveEvidence(item.apps[id])]]
=============================================================================
