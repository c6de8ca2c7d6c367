---------------------------- MODULE ReleaseStates ----------------------------
(* The lifecycle of a firmware release: the states of                        *)
(* jayspray.models.ReleaseState and the transitions that                     *)
(* validate_transition lets the database commit.                             *)


ReleaseState ==
    {"DISCOVERED", "RESOLVED", "QUEUED", "DOWNLOADING", "DOWNLOADED",
     "VERIFIED", "DECRYPTED", "EXTRACTED", "FAILED"}

(* Mutant: FAILED is terminal.                                               *)
FailedIsTerminal ==
    [ s \in ReleaseState |->
        CASE s = "DISCOVERED"  -> {"RESOLVED", "QUEUED", "FAILED"}
          [] s = "RESOLVED"    -> {"QUEUED", "FAILED"}
          [] s = "QUEUED"      -> {"DOWNLOADING", "FAILED"}
          [] s = "DOWNLOADING" -> {"DOWNLOADED", "FAILED"}
          [] s = "DOWNLOADED"  -> {"VERIFIED", "FAILED"}
          [] s = "VERIFIED"    -> {"DECRYPTED", "EXTRACTED", "FAILED"}
          [] s = "DECRYPTED"   -> {"EXTRACTED", "FAILED"}
          [] s \in {"EXTRACTED", "FAILED"} -> {} ]

AllowedTransitions ==
    [ s \in ReleaseState |->
        CASE s = "DISCOVERED"  -> {"RESOLVED", "QUEUED", "FAILED"}
          [] s = "RESOLVED"    -> {"QUEUED", "FAILED"}
          [] s = "QUEUED"      -> {"DOWNLOADING", "FAILED"}
          [] s = "DOWNLOADING" -> {"DOWNLOADED", "FAILED"}
          [] s = "DOWNLOADED"  -> {"VERIFIED", "FAILED"}
          [] s = "VERIFIED"    -> {"DECRYPTED", "EXTRACTED", "FAILED"}
          [] s = "DECRYPTED"   -> {"EXTRACTED", "FAILED"}
          [] s = "EXTRACTED"   -> {}
          [] s = "FAILED"      -> {"QUEUED", "DOWNLOADING", "FAILED"} ]

(* validate_transition(current, target) returns instead of raising           *)
(* StateTransitionError.                                                     *)
CanMove(current, target) ==
    \/ current = target
    \/ target \in AllowedTransitions[current]

(* Database.queue leaves these two alone and asks set_state(QUEUED) of the   *)
(* others.                                                                   *)
CanQueue(current) ==
    \/ current \in {"QUEUED", "FAILED"}
    \/ CanMove(current, "QUEUED")
=============================================================================
