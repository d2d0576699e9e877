------------------------ MODULE ArtifactPublication ------------------------
(***************************************************************************)
(* Immutable artifacts: the bytes are published as a file first            *)
(* (files/artifacts.py, files/file_io.py), a later write transaction       *)
(* accepts the reference to them (sqlite/artifacts.py).  Two stores that   *)
(* no transaction spans: a process may die, or its transaction may be      *)
(* refused, when the file is there already, and another process may be     *)
(* publishing under the same identity.                                     *)
(*                                                                         *)
(* Nothing unlinks or rewrites an artifact file, so what a process reads   *)
(* in one it reads ever after.  The staging names are random, hence never  *)
(* shared.  Power losses are not modelled.                                 *)
(***************************************************************************)
EXTENDS Naturals, Sequences

CONSTANTS
    Publishers,     \* processes that publish
    Keys,           \* identities of artifacts: kind, key and revision
    Bytes,          \* contents of artifacts
    Nothing,        \* no file, no reference
    MaxRevision     \* bound of the model on the project revision

\* Nothing is neither the bytes of a file nor a reference.
ASSUME NothingAssumption == Nothing \notin Bytes \cup [bytes : Bytes, revision : Nat]

VARIABLES
    file,           \* the artifact files
    accepted,       \* artifact_refs: digest and accepting revision
    revision,       \* project_meta.revision
    publication     \* what each process is publishing

files == <<file, accepted, revision, publication>>

Idle == [step |-> "idle"]

FilesInit ==
    /\ file = [k \in Keys |-> Nothing]
    /\ accepted = [k \in Keys |-> Nothing]
    /\ revision = 0
    /\ publication = [p \in Publishers |-> Idle]

Commit == revision < MaxRevision /\ revision' = revision + 1

-----------------------------------------------------------------------------
(* Publishing.  `work` is the sequence of artifacts still to publish: one  *)
(* for a brief, a review or its rejection, the result and its review for   *)
(* a checkpoint.                                                           *)

Begin(p, purpose, work) ==
    publication' = [publication EXCEPT ![p] =
        [step |-> "inspect", purpose |-> purpose, work |-> work, published |-> <<>>]]

Candidate(p) == Head(publication[p].work)

Refused(p) ==
    publication' = [publication EXCEPT ![p] = [step |-> "refused"]]

Published(p) ==
    LET now == publication[p] IN
    publication' = [publication EXCEPT ![p] =
        [step |-> IF Len(now.work) = 1 THEN "accept" ELSE "inspect",
         purpose |-> now.purpose, work |-> Tail(now.work),
         published |-> Append(now.published, Candidate(p))]]

\* verify_reference: size and digest of the file are those of the reference.
Verify(p) ==
    IF file[Candidate(p).key] = Candidate(p).bytes THEN Published(p) ELSE Refused(p)

\* Fault: a file that exists is in the way, whatever it holds.
InspectStrictly(p) ==
    /\ publication[p].step = "inspect"
    /\ IF file[Candidate(p).key] = Nothing
       THEN publication' = [publication EXCEPT ![p].step = "create"]
       ELSE Refused(p)
    /\ UNCHANGED <<file, accepted, revision>>

\* write_revision: is there a file of that name?
Inspect(p) ==
    /\ publication[p].step = "inspect"
    /\ IF file[Candidate(p).key] = Nothing
       THEN publication' = [publication EXCEPT ![p].step = "create"]
       ELSE Verify(p)
    /\ UNCHANGED <<file, accepted, revision>>

\* Fault: the staging file replaces whatever bears the name by now.
CreateReplacing(p) ==
    /\ publication[p].step = "create"
    /\ file' = [file EXCEPT ![Candidate(p).key] = Candidate(p).bytes]
    /\ Published(p)
    /\ UNCHANGED <<accepted, revision>>

\* create_immutable: linking fails if somebody was faster, and then his bytes
\* count.  A failure to synchronize the directory afterwards changes nothing:
\* the file verifies.
Create(p) ==
    /\ publication[p].step = "create"
    /\ IF file[Candidate(p).key] = Nothing
       THEN /\ file' = [file EXCEPT ![Candidate(p).key] = Candidate(p).bytes]
            /\ Published(p)
       ELSE Verify(p) /\ UNCHANGED file
    /\ UNCHANGED <<accepted, revision>>

\* The staging file cannot be written or linked.
CreateFails(p) ==
    /\ publication[p].step = "create"
    /\ Verify(p)
    /\ UNCHANGED <<file, accepted, revision>>

-----------------------------------------------------------------------------
(* Accepting: one write transaction.                                       *)

Identical(k, bytes) == accepted[k] # Nothing /\ accepted[k].bytes = bytes
Conflicting(k, bytes) == accepted[k] # Nothing /\ accepted[k].bytes # bytes

\* What the transaction at the revision `next` leaves in artifact_refs.
AcceptAll(artifacts, next) ==
    [k \in Keys |->
        IF accepted[k] # Nothing \/ \A a \in artifacts : a.key # k
        THEN accepted[k]
        ELSE [bytes |-> (CHOOSE a \in artifacts : a.key = k).bytes, revision |-> next]]

\* accept_artifact_reference: the file is verified once more; an identical
\* reference is returned as it is, and only a new one is a new revision.
AcceptReference(p) ==
    LET a == publication[p].published[1] IN
    /\ publication[p].step = "accept"
    /\ publication[p].purpose # "checkpoint"
    /\ IF file[a.key] # a.bytes \/ Conflicting(a.key, a.bytes)
       THEN Refused(p) /\ UNCHANGED <<accepted, revision>>
       ELSE /\ IF Identical(a.key, a.bytes)
               THEN UNCHANGED <<accepted, revision>>
               ELSE Commit /\ accepted' = AcceptAll({a}, revision')
            /\ publication' = [publication EXCEPT ![p] =
                   [step |-> "accepted", purpose |-> publication[p].purpose,
                    revision |-> accepted'[a.key].revision]]
    /\ UNCHANGED file

\* accept_checkpoint_artifact, twice, in the transaction that accepts the
\* checkpoint; the files are not read again.
AcceptCheckpoint(p) ==
    LET artifacts == {publication[p].published[n] : n \in DOMAIN publication[p].published} IN
    /\ publication[p].step = "accept"
    /\ publication[p].purpose = "checkpoint"
    /\ IF \E a \in artifacts : Conflicting(a.key, a.bytes)
       THEN Refused(p) /\ UNCHANGED <<accepted, revision>>
       ELSE /\ Commit
            /\ accepted' = AcceptAll(artifacts, revision')
            /\ publication' = [publication EXCEPT ![p] = Idle]
    /\ UNCHANGED file

\* The process dies, its file system fails before the file is looked for, or
\* its transaction is refused: what it published stays.
Abandon(p) ==
    /\ publication[p] # Idle
    /\ publication' = [publication EXCEPT ![p] = Idle]
    /\ UNCHANGED <<file, accepted, revision>>

PublicationStep(p) ==
    \/ Inspect(p)
    \/ Create(p)
    \/ CreateFails(p)
    \/ AcceptReference(p)
    \/ AcceptCheckpoint(p)

-----------------------------------------------------------------------------
(* Correctness.                                                            *)

\* The bytes of every accepted reference are on disk, whoever published under
\* the same identity at the same time and whoever died in between.
AcceptedBytesExist ==
    \A k \in Keys : accepted[k] # Nothing => file[k] = accepted[k].bytes

\* An identity is refused only for other bytes that have it, or for a file
\* that cannot be made: what an interrupted command left behind never stands
\* in the way of repeating it.
RepeatingIsNeverRefused ==
    [][\A p \in Publishers :
          publication[p].step \in {"inspect", "create", "accept"} /\ publication'[p].step = "refused" =>
              \E a \in {publication[p].work[n] : n \in DOMAIN publication[p].work} :
                  file[a.key] # a.bytes]_files

=============================================================================
