---------------------------- MODULE ModelArchive ----------------------------
(* What jayspray promises about the firmware it keeps: at most one verified  *)
(* release per device model, extraction only of a release that is held,      *)
(* publication in the metadata catalog only of a model that was extracted,   *)
(* and nothing of it is ever taken back.                                     *)
CONSTANTS Releases, Models, ModelOf

VARIABLES
    held,       \* releases with a verified ZIP
    extracted,  \* releases unpacked and catalogued
    published   \* models in the metadata catalog

avars == <<held, extracted, published>>

Init ==
    /\ held = {}
    /\ extracted = {}
    /\ published = {}

(* A verified ZIP is catalogued for the first time: no region of its model   *)
(* is held yet.                                                              *)
Hold(r) ==
    /\ \A h \in held : ModelOf[h] # ModelOf[r]
    /\ held' = held \cup {r}
    /\ UNCHANGED <<extracted, published>>

Extract(r) ==
    /\ r \in held \ extracted
    /\ extracted' = extracted \cup {r}
    /\ UNCHANGED <<held, published>>

Publish(m) ==
    /\ m \notin published
    /\ \E r \in extracted : ModelOf[r] = m
    /\ published' = published \cup {m}
    /\ UNCHANGED <<held, extracted>>

Next ==
    \/ \E r \in Releases : Hold(r) \/ Extract(r)
    \/ \E m \in Models : Publish(m)

Spec == Init /\ [][Next]_avars
=============================================================================
