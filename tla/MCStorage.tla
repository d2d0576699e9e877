----------------------------- MODULE MCStorage ------------------------------
(* Three small systems that share nothing, for TLC: the queue's positions, *)
(* the publication of the database, and the generated views.  Every        *)
(* behaviour is one of one of them; `part` says which.                     *)
EXTENDS WorkQueue

CONSTANTS Initializers, Files, NoFile, MaxFaults,
          Writers, Repairers, Nobody, MaxRevision

VARIABLES part, entry, durable, content, process, relied, faults,
          revision, writer, view, due, excused, command

Publication == INSTANCE DatabasePublication

Projections == INSTANCE GeneratedViews WITH MaxFaults <- 1

queueVars == vars
publicationVars == <<entry, durable, content, process, relied>>
viewVars == <<revision, writer, view, due, excused, command>>

StorageInit ==
    /\ part \in {"queue", "publication", "views"}
    /\ Init /\ Publication!Init /\ Projections!Init

InQueuePart == part = "queue" /\ UNCHANGED <<part, publicationVars, viewVars, faults>>
InPublication == part = "publication" /\ UNCHANGED <<part, queueVars, viewVars>>
InViews == part = "views" /\ UNCHANGED <<part, queueVars, publicationVars>>

StorageNext ==
    \/ Next /\ InQueuePart
    \/ Publication!Next /\ InPublication
    \/ Projections!Next /\ InViews

storageVars == <<part, queueVars, publicationVars, viewVars, faults>>

StorageFairness ==
    /\ \A p \in Initializers :
          /\ WF_storageVars(Publication!Step(p) /\ InPublication)
          /\ WF_storageVars(Publication!Start(p) /\ InPublication)
    /\ \A c \in Writers \cup Repairers : WF_storageVars(Projections!Step(c) /\ InViews)
    /\ \A c \in Repairers : WF_storageVars(Projections!StartRebuild(c) /\ InViews)

StorageSpec == StorageInit /\ [][StorageNext]_storageVars /\ StorageFairness

\* The properties of the three modules, by their names.
PublishedIsVerified == Publication!PublishedIsVerified
ReliedIsDurable == Publication!ReliedIsDurable
InitializationAdvances == Publication!InitializationAdvances
InitializationRecovers == part = "publication" => Publication!InitializationRecovers
StaleHasACause == Projections!StaleHasACause
RepairConverges == part = "views" => Projections!RepairConverges
=============================================================================
