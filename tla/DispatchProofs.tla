--------------------------- MODULE DispatchProofs ---------------------------
(***************************************************************************)
(* For any number of publishers, dispatchers, briefs and checkpoints: what *)
(* is accepted is on disk, what was interrupted can be repeated, and a     *)
(* launch that is emitted is current.                                      *)
(*                                                                         *)
(* The first two rest on what a publication has verified so far (Verified):*)
(* files are never rewritten, so it stays true.  The last rests on what a  *)
(* dispatcher may conclude from the project revision (DispatcherInv): with *)
(* nothing committed since the selection, or nothing but the acceptance of *)
(* one reference, the attempt still has the brief that was read.           *)
(***************************************************************************)
EXTENDS Dispatch, SequencesExt, TLAPS

Artifacts == [key : Keys, bytes : Bytes]
Purposes == {"review", "rejected", "checkpoint"}
Ongoing == {"inspect", "create", "accept"}

\* What a publication is: idle, refused, accepted, or on its way, and then
\* every artifact it has published so far is on disk.
Verified(p) ==
    \/ publication[p] = Idle
    \/ publication[p] = [step |-> "refused"]
    \/ publication[p] \in [step : {"accepted"}, purpose : Purposes, revision : Nat]
    \/ /\ publication[p] \in [step : Ongoing, purpose : Purposes,
                              work : Seq(Artifacts), published : Seq(Artifacts)]
       /\ IF publication[p].step = "accept"
          THEN publication[p].published # <<>>
          ELSE publication[p].work # <<>>
       /\ \A a \in ToSet(publication[p].published) : file[a.key] = a.bytes

\* The files and the references to them.
FilesInv ==
    /\ file \in [Keys -> Bytes \cup {Nothing}]
    /\ accepted \in [Keys -> [bytes : Bytes, revision : Nat] \cup {Nothing}]
    /\ revision \in Nat
    /\ publication = [p \in Publishers |-> publication[p]]
    /\ \A p \in Publishers : Verified(p)
    /\ \A k \in Keys : accepted[k] # Nothing =>
          file[k] = accepted[k].bytes /\ accepted[k].revision <= revision

\* The publication of a review is about the review the dispatcher wants.
ReviewIsOwn(d) ==
    LET key == Review(dispatch[d].brief) IN
    publication[d].step \in Ongoing \cup {"accepted"}
      /\ publication[d].purpose = "review" =>
        IF publication[d].step = "accepted"
        THEN accepted[key] # Nothing /\ accepted[key].revision = publication[d].revision
        ELSE \A a \in ToSet(publication[d].work) \cup ToSet(publication[d].published) :
                 a.key = key

\* No transaction since the selection, or the acceptance of a reference only.
OnlyAccepted(d) ==
    \/ revision = dispatch[d].capability.revision
    \/ /\ revision = dispatch[d].capability.revision + 1
       /\ \E k \in Keys : accepted[k] # Nothing /\ accepted[k].revision = revision

DispatcherInv(d) ==
    \/ dispatch[d] = Idle
    \/ dispatch[d] = [step |-> "emitted"] /\ publication[d] = Idle
    \/ /\ dispatch[d] \in
             [step : {"selected", "confirmed", "review", "publishing", "rendered"},
              capability : [revision : Nat, pair : Nat],
              supplied : Bytes \cup {Nothing},
              brief : Briefs \cup {Nothing}, own : Nat \cup {Nothing}]
       /\ dispatch[d].capability.revision <= revision
       /\ dispatch[d].step # "publishing" => publication[d] = Idle
       /\ dispatch[d].step # "rendered" => dispatch[d].own = Nothing
       /\ dispatch[d].step \in {"review", "publishing", "rendered"} =>
             /\ dispatch[d].brief \in Briefs
             /\ OnlyAccepted(d) => attempt.brief = dispatch[d].brief
       /\ dispatch[d].step \in {"review", "publishing"} =>
             dispatch[d].brief \notin LocalBriefs
       /\ dispatch[d].step = "publishing" => ReviewIsOwn(d)
       /\ dispatch[d].step = "rendered" =>
             /\ dispatch[d].brief \notin LocalBriefs =>
                   accepted[Review(dispatch[d].brief)] # Nothing
             /\ dispatch[d].own # Nothing =>
                   /\ dispatch[d].brief \notin LocalBriefs
                   /\ accepted[Review(dispatch[d].brief)].revision = dispatch[d].own

DispatchInv ==
    /\ FilesInv
    /\ attempt \in [active : BOOLEAN, stale : BOOLEAN, brief : Briefs]
    /\ lease \in [pair : Nat, live : BOOLEAN]
    /\ dispatch = [d \in Publishers |-> dispatch[d]]
    /\ \A d \in Publishers : DispatcherInv(d)

-----------------------------------------------------------------------------
(* Publishing.                                                             *)

\* What is left of the work when its first artifact is published.
LEMMA WorkShrinks ==
    ASSUME NEW S, NEW s \in Seq(S), s # <<>>
    PROVE  /\ Head(s) \in S /\ Head(s) \in ToSet(s)
           /\ Tail(s) \in Seq(S) /\ ToSet(Tail(s)) \subseteq ToSet(s)
           /\ Len(s) # 1 => Tail(s) # <<>>
<1>1. Len(s) \in Nat /\ Len(s) > 0 /\ DOMAIN s = 1..Len(s)
  OBVIOUS
<1>2. Head(s) = s[1] /\ s[1] \in S
  BY <1>1
<1>3. /\ Tail(s) \in Seq(S) /\ Len(Tail(s)) = Len(s) - 1
      /\ \A n \in 1..Len(s) - 1 : Tail(s)[n] = s[n + 1]
  BY <1>1
<1>4. DOMAIN Tail(s) = 1..Len(s) - 1
  BY <1>3
<1> QED
  BY <1>1, <1>2, <1>3, <1>4 DEF ToSet

\* What has been published by then.
LEMMA PublishedGrows ==
    ASSUME NEW S, NEW s \in Seq(S), NEW e \in S
    PROVE  /\ Append(s, e) \in Seq(S) /\ Append(s, e) # <<>>
           /\ ToSet(Append(s, e)) \subseteq ToSet(s) \cup {e}
<1>1. /\ Append(s, e) \in Seq(S) /\ Len(Append(s, e)) = Len(s) + 1
      /\ \A n \in 1..Len(s) : Append(s, e)[n] = s[n]
      /\ Append(s, e)[Len(s) + 1] = e
  OBVIOUS
<1>2. Len(s) \in Nat /\ DOMAIN s = 1..Len(s) /\ DOMAIN Append(s, e) = 1..Len(s) + 1
  BY <1>1
<1> QED
  BY <1>1, <1>2 DEF ToSet

\* Files and references are there to stay, and a reference is new at the
\* revision that accepts it.
FilesGrow ==
    /\ \A k \in Keys :
          /\ file[k] # Nothing => file'[k] = file[k]
          /\ accepted[k] # Nothing => accepted'[k] = accepted[k]
          /\ accepted'[k] # accepted[k] =>
                revision' = revision + 1 /\ accepted'[k].revision = revision'
    /\ revision' \in {revision, revision + 1}

\* How a publication may go on from where it is.
Continues(p, after) ==
    \/ after = [step |-> "refused"]
    \/ publication[p].purpose = "checkpoint" /\ after = Idle
    \/ /\ publication[p].step = "accept" /\ publication[p].purpose # "checkpoint"
       /\ after = [step |-> "accepted", purpose |-> publication[p].purpose,
                   revision |-> accepted'[publication[p].published[1].key].revision]
       /\ accepted'[publication[p].published[1].key] # Nothing
    \/ /\ after \in [step : Ongoing, purpose : {publication[p].purpose},
                     work : Seq(Artifacts), published : Seq(Artifacts)]
       /\ IF after.step = "accept" THEN after.published # <<>> ELSE after.work # <<>>
       /\ ToSet(after.work) \subseteq ToSet(publication[p].work)
       /\ ToSet(after.published)
             \subseteq ToSet(publication[p].published) \cup ToSet(publication[p].work)
       /\ \A a \in ToSet(after.published) : file'[a.key] = a.bytes

\* A publication that is on its way.
Underway(p) ==
    /\ publication[p] \in [step : Ongoing, purpose : Purposes,
                           work : Seq(Artifacts), published : Seq(Artifacts)]
    /\ IF publication[p].step = "accept"
       THEN publication[p].published # <<>>
       ELSE publication[p].work # <<>>
    /\ \A a \in ToSet(publication[p].published) :
          a \in Artifacts /\ file[a.key] = a.bytes

\* A publication between two calls knows what it publishes and under which name.
LEMMA OngoingIsUnderway ==
    ASSUME FilesInv, NEW p \in Publishers, publication[p].step \in Ongoing
    PROVE  Underway(p)
<1>1. Verified(p)
  BY DEF FilesInv
<1>2. publication[p] # Idle /\ publication[p] # [step |-> "refused"]
  BY DEF Idle, Ongoing
<1>3. publication[p] \notin [step : {"accepted"}, purpose : Purposes, revision : Nat]
  BY DEF Ongoing
<1>4. ASSUME publication[p].published \in Seq(Artifacts)
      PROVE  \A a \in ToSet(publication[p].published) : a \in Artifacts
  BY <1>4 DEF ToSet
<1> QED
  BY <1>1, <1>2, <1>3, <1>4 DEF Verified, Underway

\* Publishing one artifact whose bytes are on disk.
LEMMA PublishedContinues ==
    ASSUME FilesInv, NEW p \in Publishers, Underway(p), FilesGrow,
           publication[p].step # "accept",
           file'[Candidate(p).key] = Candidate(p).bytes,
           Published(p)
    PROVE  \E after : /\ publication' = [publication EXCEPT ![p] = after]
                      /\ Continues(p, after)
<1> DEFINE now == publication[p]
           after == [step |-> IF Len(now.work) = 1 THEN "accept" ELSE "inspect",
                     purpose |-> now.purpose, work |-> Tail(now.work),
                     published |-> Append(now.published, Candidate(p))]
<1>2. /\ now \in [step : Ongoing, purpose : Purposes,
                  work : Seq(Artifacts), published : Seq(Artifacts)]
      /\ now.work # <<>> /\ Candidate(p) = Head(now.work)
  BY DEF Underway, Candidate
<1>3. /\ Candidate(p) \in Artifacts /\ Candidate(p) \in ToSet(now.work)
      /\ Tail(now.work) \in Seq(Artifacts)
      /\ ToSet(Tail(now.work)) \subseteq ToSet(now.work)
      /\ Len(now.work) # 1 => Tail(now.work) # <<>>
  BY <1>2, WorkShrinks
<1>4. /\ Append(now.published, Candidate(p)) \in Seq(Artifacts)
      /\ Append(now.published, Candidate(p)) # <<>>
      /\ ToSet(Append(now.published, Candidate(p)))
            \subseteq ToSet(now.published) \cup {Candidate(p)}
  BY <1>2, <1>3, PublishedGrows
<1>5. \A a \in ToSet(now.published) : file'[a.key] = a.bytes
  BY NothingAssumption DEF Underway, FilesGrow, Artifacts
<1>6. publication' = [publication EXCEPT ![p] = after]
  BY DEF Published
<1> HIDE DEF now
<1>7. /\ after.step = IF Len(now.work) = 1 THEN "accept" ELSE "inspect"
      /\ after.work = Tail(now.work)
      /\ after.published = Append(now.published, Candidate(p))
      /\ after \in [step : Ongoing, purpose : {now.purpose},
                    work : Seq(Artifacts), published : Seq(Artifacts)]
  BY <1>2, <1>3, <1>4 DEF Ongoing
<1> HIDE DEF after
<1>8. Continues(p, after)
  BY <1>3, <1>4, <1>5, <1>7 DEF Continues, now
<1> QED
  BY <1>6, <1>8

\* What has been verified stays true: files are not rewritten.
LEMMA VerifiedKept ==
    ASSUME FilesInv, FilesGrow, NEW p \in Publishers,
           publication'[p] = publication[p]
    PROVE  Verified(p)'
<1>1. Verified(p)
  BY DEF FilesInv
<1>2. ASSUME publication[p].published \in Seq(Artifacts),
             NEW a \in ToSet(publication[p].published), file[a.key] = a.bytes
      PROVE  file'[a.key] = a.bytes
  <2>1. a \in Artifacts
    BY <1>2 DEF ToSet
  <2> QED
    BY <1>2, <2>1, NothingAssumption DEF FilesGrow, Artifacts
<1> QED
  BY <1>1, <1>2 DEF Verified, Idle

\* Wherever a publication goes on to, what it says is verified.
LEMMA ContinuesVerified ==
    ASSUME NEW p \in Publishers, Underway(p), NEW after, Continues(p, after),
           accepted' \in [Keys -> [bytes : Bytes, revision : Nat] \cup {Nothing}],
           publication'[p] = after
    PROVE  Verified(p)'
<1>1. publication[p].purpose \in Purposes
  BY DEF Underway
<1>2. ASSUME publication[p].step = "accept",
             after = [step |-> "accepted", purpose |-> publication[p].purpose,
                      revision |-> accepted'[publication[p].published[1].key].revision],
             accepted'[publication[p].published[1].key] # Nothing
      PROVE  after \in [step : {"accepted"}, purpose : Purposes, revision : Nat]
  <2>1. /\ publication[p].published \in Seq(Artifacts)
        /\ publication[p].published # <<>>
    BY <1>2 DEF Underway
  <2>2. publication[p].published[1] \in Artifacts
    BY <2>1
  <2>3. publication[p].published[1].key \in Keys
    BY <2>2 DEF Artifacts
  <2> QED
    BY <1>1, <1>2, <2>3
<1> QED
  BY <1>1, <1>2 DEF Continues, Verified, Idle

\* Accepting references to files that hold these bytes.
LEMMA AcceptingKeeps ==
    ASSUME FilesInv, NEW artifacts \in SUBSET Artifacts,
           \A a \in artifacts : file[a.key] = a.bytes,
           revision' = revision + 1, file' = file,
           accepted' = AcceptAll(artifacts, revision')
    PROVE  /\ FilesGrow
           /\ accepted' \in [Keys -> [bytes : Bytes, revision : Nat] \cup {Nothing}]
           /\ \A k \in Keys : accepted'[k] # Nothing =>
                 file'[k] = accepted'[k].bytes /\ accepted'[k].revision <= revision'
           /\ \A a \in artifacts : accepted'[a.key] # Nothing
<1> DEFINE Kept(k) == accepted'[k] = accepted[k]
           New(k, a) == /\ a.key = k /\ accepted[k] = Nothing
                        /\ accepted'[k] = [bytes |-> a.bytes, revision |-> revision + 1]
<1>0. /\ revision \in Nat
      /\ accepted \in [Keys -> [bytes : Bytes, revision : Nat] \cup {Nothing}]
      /\ \A k \in Keys : accepted[k] # Nothing =>
            file[k] = accepted[k].bytes /\ accepted[k].revision <= revision
      /\ \A a \in artifacts : a.key \in Keys /\ a.bytes \in Bytes
  BY DEF FilesInv, Artifacts
<1>1. ASSUME NEW k \in Keys
      PROVE  \/ Kept(k) /\ (accepted[k] # Nothing \/ \A a \in artifacts : a.key # k)
             \/ \E a \in artifacts : New(k, a)
  <2>1. CASE accepted[k] # Nothing \/ \A a \in artifacts : a.key # k
    BY <2>1 DEF AcceptAll
  <2>2. CASE accepted[k] = Nothing /\ \E a \in artifacts : a.key = k
    <3> DEFINE b == CHOOSE a \in artifacts : a.key = k
    <3>1. b \in artifacts /\ b.key = k
      BY <2>2
    <3>2. accepted'[k] = [bytes |-> b.bytes, revision |-> revision']
      BY <2>2 DEF AcceptAll
    <3> QED
      BY <2>2, <3>1, <3>2
  <2> QED
    BY <2>1, <2>2
<1>2. accepted' = [k \in Keys |-> accepted'[k]]
  BY DEF AcceptAll
<1>3. ASSUME NEW k \in Keys, NEW a \in artifacts, New(k, a)
      PROVE  /\ accepted'[k] \in [bytes : Bytes, revision : Nat]
             /\ accepted'[k] # Nothing
             /\ accepted'[k].bytes = file[k]
             /\ accepted'[k].revision = revision'
  BY <1>0, <1>3, NothingAssumption
<1> HIDE DEF Kept, New
<1>4. FilesGrow
  BY <1>0, <1>1, <1>3 DEF FilesGrow, Kept, New
<1>5. ASSUME NEW k \in Keys
      PROVE  accepted'[k] \in [bytes : Bytes, revision : Nat] \cup {Nothing}
  BY <1>0, <1>1, <1>3 DEF Kept
<1>6. ASSUME NEW k \in Keys, accepted'[k] # Nothing
      PROVE  file'[k] = accepted'[k].bytes /\ accepted'[k].revision <= revision'
  <2>1. CASE Kept(k)
    <3>1. accepted[k] \in [bytes : Bytes, revision : Nat]
      BY <1>0, <1>6, <2>1 DEF Kept
    <3> QED
      BY <1>0, <1>6, <2>1, <3>1 DEF Kept
  <2>2. CASE ~Kept(k)
    BY <1>0, <1>1, <1>3, <2>2
  <2> QED
    BY <2>1, <2>2
<1>7. ASSUME NEW a \in artifacts PROVE accepted'[a.key] # Nothing
  <2>1. a.key \in Keys
    BY <1>0
  <2>2. \/ Kept(a.key) /\ accepted[a.key] # Nothing
        \/ \E b \in artifacts : New(a.key, b)
    BY <1>1, <2>1
  <2> QED
    BY <1>3, <2>1, <2>2 DEF Kept
<1> QED
  BY <1>2, <1>4, <1>5, <1>6, <1>7

\* One file is looked for, made or not made.
LEMMA WritingSteps ==
    ASSUME FilesInv, NEW p \in Publishers, Inspect(p) \/ Create(p) \/ CreateFails(p)
    PROVE  /\ file' \in [Keys -> Bytes \cup {Nothing}]
           /\ UNCHANGED <<accepted, revision>>
           /\ FilesGrow
           /\ \E after : /\ publication' = [publication EXCEPT ![p] = after]
                         /\ Continues(p, after)
<1> DEFINE now == publication[p]
           key == Candidate(p).key
<1>0. /\ file \in [Keys -> Bytes \cup {Nothing}] /\ revision \in Nat
      /\ accepted \in [Keys -> [bytes : Bytes, revision : Nat] \cup {Nothing}]
      /\ \A k \in Keys : accepted[k] # Nothing =>
            file[k] = accepted[k].bytes /\ accepted[k].revision <= revision
  BY DEF FilesInv
<1>1. Underway(p) /\ now.step \in {"inspect", "create"}
  BY OngoingIsUnderway DEF Inspect, Create, CreateFails, Ongoing
<1>2. /\ now \in [step : Ongoing, purpose : Purposes,
                  work : Seq(Artifacts), published : Seq(Artifacts)]
      /\ now.work # <<>>
      /\ Candidate(p) = Head(now.work)
  BY <1>1 DEF Underway, Candidate
<1>3. Candidate(p) \in Artifacts
  BY <1>2, WorkShrinks
<1>4. ASSUME file' = file, UNCHANGED <<accepted, revision>>
      PROVE  FilesGrow
  BY <1>0, <1>4 DEF FilesGrow
<1>5. ASSUME FilesGrow, file'[key] = Candidate(p).bytes, Published(p)
      PROVE  \E after : /\ publication' = [publication EXCEPT ![p] = after]
                        /\ Continues(p, after)
  BY <1>1, <1>5, PublishedContinues
<1>6. ASSUME Refused(p)
      PROVE  \E after : /\ publication' = [publication EXCEPT ![p] = after]
                        /\ Continues(p, after)
  BY <1>6 DEF Refused, Continues
<1>7. CASE Inspect(p) /\ file[key] = Nothing
  <2>1. publication' = [publication EXCEPT ![p] = [now EXCEPT !.step = "create"]]
    BY <1>7 DEF Inspect
  <2>2. /\ [now EXCEPT !.step = "create"]
              \in [step : Ongoing, purpose : {now.purpose},
                   work : Seq(Artifacts), published : Seq(Artifacts)]
        /\ [now EXCEPT !.step = "create"].step = "create"
        /\ [now EXCEPT !.step = "create"].work = now.work
        /\ [now EXCEPT !.step = "create"].published = now.published
    BY <1>2 DEF Ongoing
  <2>3. \A a \in ToSet(now.published) : file'[a.key] = a.bytes
    BY <1>1, <1>7 DEF Underway, Inspect
  <2>4. Continues(p, [now EXCEPT !.step = "create"])
    BY <1>2, <2>2, <2>3 DEF Continues
  <2> QED
    BY <1>0, <1>4, <1>7, <2>1, <2>4 DEF Inspect
<1>8. CASE (Inspect(p) /\ file[key] # Nothing) \/ CreateFails(p)
           \/ (Create(p) /\ file[key] # Nothing)
  <2>1. Verify(p) /\ UNCHANGED <<file, accepted, revision>>
    BY <1>8 DEF Inspect, Create, CreateFails
  <2>2. FilesGrow
    BY <1>4, <2>1
  <2> QED
    BY <1>0, <1>5, <1>6, <2>1, <2>2 DEF Verify
<1>9. CASE Create(p) /\ file[key] = Nothing
  <2>1. /\ file' = [file EXCEPT ![key] = Candidate(p).bytes]
        /\ Published(p)
        /\ UNCHANGED <<accepted, revision>>
    BY <1>9 DEF Create
  <2>2. key \in Keys /\ Candidate(p).bytes \in Bytes
    BY <1>3 DEF Artifacts
  <2>3. FilesGrow
    BY <1>0, <1>9, <2>1, <2>2 DEF FilesGrow
  <2> QED
    BY <1>0, <1>5, <2>1, <2>2, <2>3
<1> QED
  BY <1>7, <1>8, <1>9

\* A reference, or the two of a checkpoint, are accepted or refused.
LEMMA AcceptingSteps ==
    ASSUME FilesInv, NEW p \in Publishers, AcceptReference(p) \/ AcceptCheckpoint(p)
    PROVE  /\ file' = file
           /\ accepted' \in [Keys -> [bytes : Bytes, revision : Nat] \cup {Nothing}]
           /\ \A k \in Keys : accepted'[k] # Nothing =>
                 file'[k] = accepted'[k].bytes /\ accepted'[k].revision <= revision'
           /\ FilesGrow
           /\ \E after : /\ publication' = [publication EXCEPT ![p] = after]
                         /\ Continues(p, after)
<1> DEFINE now == publication[p]
           first == now.published[1]
           all == {now.published[n] : n \in DOMAIN now.published}
<1>0. /\ file \in [Keys -> Bytes \cup {Nothing}] /\ revision \in Nat
      /\ accepted \in [Keys -> [bytes : Bytes, revision : Nat] \cup {Nothing}]
      /\ \A k \in Keys : accepted[k] # Nothing =>
            file[k] = accepted[k].bytes /\ accepted[k].revision <= revision
  BY DEF FilesInv
<1>1. Underway(p) /\ now.step = "accept"
  BY OngoingIsUnderway DEF AcceptReference, AcceptCheckpoint, Ongoing
<1>2. /\ now.published \in Seq(Artifacts) /\ now.published # <<>>
      /\ \A a \in ToSet(now.published) : a \in Artifacts /\ file[a.key] = a.bytes
  BY <1>1 DEF Underway
<1>3. all = ToSet(now.published) /\ first \in all
  BY <1>2 DEF ToSet
<1>4. ASSUME UNCHANGED <<file, accepted, revision>> PROVE FilesGrow
  BY <1>0, <1>4 DEF FilesGrow
<1>5. ASSUME Refused(p)
      PROVE  \E after : /\ publication' = [publication EXCEPT ![p] = after]
                        /\ Continues(p, after)
  BY <1>5 DEF Refused, Continues
<1>6. CASE AcceptReference(p)
  <2>0. file' = file /\ now.purpose # "checkpoint"
    BY <1>6 DEF AcceptReference
  <2> DEFINE after == [step |-> "accepted", purpose |-> now.purpose,
                       revision |-> accepted'[first.key].revision]
  <2>1. CASE file[first.key] # first.bytes \/ Conflicting(first.key, first.bytes)
    <3>1. Refused(p) /\ UNCHANGED <<accepted, revision>>
      BY <1>6, <2>1 DEF AcceptReference
    <3> QED
      BY <1>0, <1>4, <1>5, <2>0, <3>1
  <2>2. CASE /\ ~(file[first.key] # first.bytes \/ Conflicting(first.key, first.bytes))
             /\ Identical(first.key, first.bytes)
    <3>1. /\ UNCHANGED <<accepted, revision>>
          /\ publication' = [publication EXCEPT ![p] = after]
      BY <1>6, <2>2 DEF AcceptReference
    <3>2. Continues(p, after)
      BY <1>1, <2>0, <2>2, <3>1 DEF Continues, Identical
    <3> QED
      BY <1>0, <1>4, <2>0, <3>1, <3>2
  <2>3. CASE /\ ~(file[first.key] # first.bytes \/ Conflicting(first.key, first.bytes))
             /\ ~Identical(first.key, first.bytes)
    <3>1. /\ revision' = revision + 1 /\ accepted' = AcceptAll({first}, revision')
          /\ publication' = [publication EXCEPT ![p] = after]
      BY <1>6, <2>3 DEF AcceptReference, Commit
    <3>2. {first} \in SUBSET Artifacts /\ \A a \in {first} : file[a.key] = a.bytes
      BY <1>2, <1>3
    <3>3. accepted'[first.key] # Nothing
      BY <2>0, <3>1, <3>2, AcceptingKeeps
    <3>4. Continues(p, after)
      BY <1>1, <2>0, <3>3 DEF Continues
    <3> HIDE DEF after
    <3> QED
      BY <2>0, <3>1, <3>2, <3>4, AcceptingKeeps
  <2> QED
    BY <2>1, <2>2, <2>3
<1>7. CASE AcceptCheckpoint(p)
  <2>0. file' = file /\ now.purpose = "checkpoint"
    BY <1>7 DEF AcceptCheckpoint
  <2>1. CASE \E a \in all : Conflicting(a.key, a.bytes)
    <3>1. Refused(p) /\ UNCHANGED <<accepted, revision>>
      BY <1>7, <2>1 DEF AcceptCheckpoint
    <3> QED
      BY <1>0, <1>4, <1>5, <2>0, <3>1
  <2>2. CASE ~\E a \in all : Conflicting(a.key, a.bytes)
    <3>1. /\ revision' = revision + 1 /\ accepted' = AcceptAll(all, revision')
          /\ publication' = [publication EXCEPT ![p] = Idle]
      BY <1>7, <2>2 DEF AcceptCheckpoint, Commit
    <3>2. all \in SUBSET Artifacts /\ \A a \in all : file[a.key] = a.bytes
      BY <1>2, <1>3
    <3>3. Continues(p, Idle)
      BY <2>0 DEF Continues
    <3> QED
      BY <2>0, <3>1, <3>2, <3>3, AcceptingKeeps
  <2> QED
    BY <2>1, <2>2
<1> QED
  BY <1>6, <1>7

\* A step of a publication keeps the files in order.
LEMMA PublicationKeepsFiles ==
    ASSUME FilesInv, NEW p \in Publishers, PublicationStep(p)
    PROVE  /\ FilesInv' /\ FilesGrow
           /\ publication[p].step \in Ongoing
           /\ \E after : /\ publication' = [publication EXCEPT ![p] = after]
                         /\ Continues(p, after)
<1>0. /\ file \in [Keys -> Bytes \cup {Nothing}] /\ revision \in Nat
      /\ accepted \in [Keys -> [bytes : Bytes, revision : Nat] \cup {Nothing}]
      /\ publication = [q \in Publishers |-> publication[q]]
      /\ \A k \in Keys : accepted[k] # Nothing =>
            file[k] = accepted[k].bytes /\ accepted[k].revision <= revision
  BY DEF FilesInv
<1>1. publication[p].step \in Ongoing
  BY DEF PublicationStep, Inspect, Create, CreateFails, AcceptReference,
         AcceptCheckpoint, Ongoing
<1>2. /\ file' \in [Keys -> Bytes \cup {Nothing}]
      /\ accepted' \in [Keys -> [bytes : Bytes, revision : Nat] \cup {Nothing}]
      /\ FilesGrow
      /\ \E after : /\ publication' = [publication EXCEPT ![p] = after]
                    /\ Continues(p, after)
  BY <1>0, WritingSteps, AcceptingSteps DEF PublicationStep
<1>3. \A k \in Keys : accepted'[k] # Nothing =>
          file'[k] = accepted'[k].bytes /\ accepted'[k].revision <= revision'
  <2>1. ASSUME UNCHANGED <<accepted, revision>>, NEW k \in Keys, accepted'[k] # Nothing
        PROVE  file'[k] = accepted'[k].bytes /\ accepted'[k].revision <= revision'
    <3>1. accepted[k] \in [bytes : Bytes, revision : Nat] /\ file[k] = accepted[k].bytes
      BY <1>0, <2>1
    <3>2. file[k] # Nothing
      BY <3>1, NothingAssumption
    <3> QED
      BY <1>0, <1>2, <2>1, <3>1, <3>2 DEF FilesGrow
  <2> QED
    BY <2>1, WritingSteps, AcceptingSteps DEF PublicationStep
<1>4. PICK after : /\ publication' = [publication EXCEPT ![p] = after]
                   /\ Continues(p, after)
  BY <1>2
<1>5. ASSUME NEW q \in Publishers PROVE Verified(q)'
  <2>1. CASE q = p
    <3>1. publication'[p] = after
      BY <1>0, <1>4
    <3> QED
      BY <1>1, <1>2, <1>4, <2>1, <3>1, OngoingIsUnderway, ContinuesVerified
  <2>2. CASE q # p
    BY <1>2, <1>4, <2>2, VerifiedKept
  <2> QED
    BY <2>1, <2>2
<1>6. revision' \in Nat
  BY <1>0, <1>2 DEF FilesGrow
<1>7. publication' = [q \in Publishers |-> publication'[q]]
  BY <1>0, <1>4
<1>8. FilesInv'
  BY <1>2, <1>3, <1>5, <1>6, <1>7 DEF FilesInv
<1> QED
  BY <1>1, <1>2, <1>4, <1>8

\* So do steps that begin or end a publication, or commit something else.
LEMMA ElsewhereKeepsFiles ==
    ASSUME FilesInv, UNCHANGED <<file, accepted>>,
           revision' \in {revision, revision + 1},
           \/ publication' = publication
           \/ \E p \in Publishers :
                 \/ publication' = [publication EXCEPT ![p] = Idle]
                 \/ \E purpose \in Purposes, work \in Seq(Artifacts) :
                       work # <<>> /\ Begin(p, purpose, work)
    PROVE  FilesInv' /\ FilesGrow
<1>0. /\ file \in [Keys -> Bytes \cup {Nothing}] /\ revision \in Nat
      /\ accepted \in [Keys -> [bytes : Bytes, revision : Nat] \cup {Nothing}]
      /\ publication = [q \in Publishers |-> publication[q]]
      /\ \A k \in Keys : accepted[k] # Nothing =>
            file[k] = accepted[k].bytes /\ accepted[k].revision <= revision
  BY DEF FilesInv
<1>1. FilesGrow
  BY <1>0 DEF FilesGrow
<1>2. ASSUME NEW q \in Publishers
      PROVE  \/ publication'[q] = publication[q]
             \/ publication'[q] = Idle
             \/ \E purpose \in Purposes, work \in Seq(Artifacts) :
                   /\ work # <<>>
                   /\ publication'[q] = [step |-> "inspect", purpose |-> purpose,
                                         work |-> work, published |-> <<>>]
  BY <1>0 DEF Begin
<1>3. ASSUME NEW q \in Publishers, NEW purpose \in Purposes,
             NEW work \in Seq(Artifacts), work # <<>>,
             publication'[q] = [step |-> "inspect", purpose |-> purpose,
                                work |-> work, published |-> <<>>]
      PROVE  Verified(q)'
  <2>1. <<>> \in Seq(Artifacts) /\ ToSet(<<>>) = {}
    BY DEF ToSet
  <2>2. publication'[q] \in [step : Ongoing, purpose : Purposes,
                             work : Seq(Artifacts), published : Seq(Artifacts)]
    BY <1>3, <2>1 DEF Ongoing
  <2>3. /\ publication'[q].step = "inspect" /\ publication'[q].work = work
        /\ publication'[q].published = <<>>
    BY <1>3
  <2> QED
    BY <1>3, <2>1, <2>2, <2>3 DEF Verified
<1>4. ASSUME NEW q \in Publishers PROVE Verified(q)'
  <2>1. CASE publication'[q] = publication[q]
    BY <1>1, <2>1, VerifiedKept
  <2>2. CASE publication'[q] = Idle
    BY <2>2 DEF Verified, Idle
  <2> QED
    BY <1>2, <1>3, <2>1, <2>2
<1>5. publication' = [q \in Publishers |-> publication'[q]]
  BY <1>0 DEF Begin
<1> QED
  BY <1>0, <1>1, <1>4, <1>5 DEF FilesInv

-----------------------------------------------------------------------------
(* Dispatching.                                                            *)

\* What a dispatcher relies on stays true while others go on: a commit that
\* changes the brief accepts nothing.
LEMMA DispatcherKept ==
    ASSUME FilesInv, FilesGrow, NEW d \in Publishers, DispatcherInv(d),
           dispatch'[d] = dispatch[d], publication'[d] = publication[d],
           \/ attempt'.brief = attempt.brief
           \/ accepted' = accepted /\ revision' = revision + 1
    PROVE  DispatcherInv(d)'
<1> DEFINE at == dispatch[d]
<1>0. /\ revision \in Nat
      /\ \A k \in Keys : accepted[k] # Nothing => accepted[k].revision <= revision
  BY DEF FilesInv
<1>1. CASE at = Idle \/ (at = [step |-> "emitted"] /\ publication[d] = Idle)
  BY <1>1 DEF DispatcherInv, Idle
<1>2. CASE ~(at = Idle \/ (at = [step |-> "emitted"] /\ publication[d] = Idle))
  <2>1. /\ at \in [step : {"selected", "confirmed", "review", "publishing", "rendered"},
                   capability : [revision : Nat, pair : Nat],
                   supplied : Bytes \cup {Nothing},
                   brief : Briefs \cup {Nothing}, own : Nat \cup {Nothing}]
        /\ at.capability.revision <= revision
        /\ at.step # "publishing" => publication[d] = Idle
        /\ at.step # "rendered" => at.own = Nothing
    BY <1>2 DEF DispatcherInv
  <2>2. at.capability.revision \in Nat /\ at.capability.revision <= revision'
    BY <1>0, <2>1 DEF FilesGrow
  <2>3. ASSUME at.step \in {"review", "publishing", "rendered"}
        PROVE  /\ at.brief \in Briefs
               /\ OnlyAccepted(d)' => attempt'.brief = at.brief
    <3>1. at.brief \in Briefs /\ (OnlyAccepted(d) => attempt.brief = at.brief)
      BY <1>2, <2>3 DEF DispatcherInv
    <3>2. CASE attempt'.brief = attempt.brief
      <4>1. OnlyAccepted(d)' => OnlyAccepted(d)
        BY <1>0, <2>1, <2>2 DEF OnlyAccepted, FilesGrow
      <4> QED
        BY <3>1, <3>2, <4>1
    <3>3. CASE accepted' = accepted /\ revision' = revision + 1
      <4>1. ~OnlyAccepted(d)'
        BY <1>0, <2>1, <2>2, <3>3 DEF OnlyAccepted
      <4> QED
        BY <3>1, <4>1
    <3> QED
      BY <3>2, <3>3
  <2>4. ASSUME NEW b \in Briefs \ LocalBriefs, accepted[Review(b)] # Nothing
        PROVE  accepted'[Review(b)] = accepted[Review(b)]
    BY <2>4, KeysAssumption DEF FilesGrow
  <2>5. at.step \in {"review", "publishing"} => at.brief \notin LocalBriefs
    BY <1>2 DEF DispatcherInv
  <2>6. ASSUME at.step = "publishing"
        PROVE  ReviewIsOwn(d)'
    <3>1. ReviewIsOwn(d) /\ at.brief \in Briefs \ LocalBriefs
      BY <1>2, <2>3, <2>5, <2>6 DEF DispatcherInv
    <3> QED
      BY <2>4, <3>1 DEF ReviewIsOwn, Review
  <2>7. ASSUME at.step = "rendered"
        PROVE  /\ at.brief \notin LocalBriefs => accepted'[Review(at.brief)] # Nothing
               /\ at.own # Nothing =>
                     /\ at.brief \notin LocalBriefs
                     /\ accepted'[Review(at.brief)].revision = at.own
    <3>1. /\ at.brief \notin LocalBriefs => accepted[Review(at.brief)] # Nothing
          /\ at.own # Nothing =>
                /\ at.brief \notin LocalBriefs
                /\ accepted[Review(at.brief)].revision = at.own
      BY <1>2, <2>7 DEF DispatcherInv
    <3> QED
      BY <2>3, <2>4, <2>7, <3>1
  <2> QED
    BY <2>1, <2>2, <2>3, <2>5, <2>6, <2>7 DEF DispatcherInv, Review
<1> QED
  BY <1>1, <1>2

\* The publication under a dispatcher goes on.
LEMMA OwnPublicationKept ==
    ASSUME FilesInv, FilesGrow, NEW d \in Publishers, DispatcherInv(d),
           publication[d].step \in Ongoing, dispatch'[d] = dispatch[d],
           NEW after, Continues(d, after), publication'[d] = after,
           attempt'.brief = attempt.brief
    PROVE  DispatcherInv(d)'
<1> DEFINE at == dispatch[d]
           key == Review(at.brief)
<1>0. revision \in Nat
  BY DEF FilesInv
<1>1. publication[d] # Idle
  BY DEF Idle, Ongoing
<1>2. CASE at = Idle
  BY <1>2 DEF DispatcherInv, Idle
<1>3. CASE at # Idle
  <2>1. /\ at \in [step : {"selected", "confirmed", "review", "publishing", "rendered"},
                   capability : [revision : Nat, pair : Nat],
                   supplied : Bytes \cup {Nothing},
                   brief : Briefs \cup {Nothing}, own : Nat \cup {Nothing}]
        /\ at.capability.revision <= revision
        /\ at.step = "publishing" /\ at.own = Nothing
        /\ at.brief \in Briefs \ LocalBriefs
        /\ OnlyAccepted(d) => attempt.brief = at.brief
        /\ ReviewIsOwn(d)
    BY <1>1, <1>3 DEF DispatcherInv
  <2>2. at.capability.revision \in Nat /\ at.capability.revision <= revision'
    BY <1>0, <2>1 DEF FilesGrow
  <2>3. OnlyAccepted(d)' => OnlyAccepted(d)
    BY <1>0, <2>1, <2>2 DEF OnlyAccepted, FilesGrow
  <2>4. Underway(d)
    BY OngoingIsUnderway
  <2>5. ReviewIsOwn(d)'
    <3> SUFFICES ASSUME after.step \in Ongoing \cup {"accepted"}, after.purpose = "review"
                 PROVE  IF after.step = "accepted"
                        THEN accepted'[key] # Nothing
                             /\ accepted'[key].revision = after.revision
                        ELSE \A a \in ToSet(after.work) \cup ToSet(after.published) :
                                 a.key = key
      BY DEF ReviewIsOwn, Review
    <3>1. after # Idle /\ after # [step |-> "refused"]
      BY DEF Idle, Ongoing
    <3>2. CASE after.step = "accepted"
      <4>1. /\ publication[d].step = "accept"
            /\ after = [step |-> "accepted", purpose |-> publication[d].purpose,
                        revision |-> accepted'[publication[d].published[1].key].revision]
            /\ accepted'[publication[d].published[1].key] # Nothing
        BY <3>1, <3>2 DEF Continues, Ongoing
      <4>2. publication[d].purpose = "review"
        BY <4>1
      <4>3. publication[d].published[1] \in ToSet(publication[d].published)
        BY <2>4, <4>1 DEF Underway, ToSet
      <4>4. publication[d].published[1].key = key
        BY <2>1, <4>1, <4>2, <4>3 DEF ReviewIsOwn, Ongoing
      <4> QED
        BY <3>2, <4>1, <4>4
    <3>3. CASE after.step # "accepted"
      <4>1. /\ publication[d].purpose = after.purpose
            /\ ToSet(after.work) \subseteq ToSet(publication[d].work)
            /\ ToSet(after.published)
                  \subseteq ToSet(publication[d].published) \cup ToSet(publication[d].work)
        BY <3>1, <3>3 DEF Continues
      <4>2. publication[d].step # "accepted"
        BY DEF Ongoing
      <4>3. \A a \in ToSet(publication[d].work) \cup ToSet(publication[d].published) :
               a.key = key
        BY <2>1, <4>1, <4>2 DEF ReviewIsOwn
      <4> QED
        BY <3>3, <4>1, <4>3
    <3> QED
      BY <3>2, <3>3
  <2> QED
    BY <2>1, <2>2, <2>3, <2>5 DEF DispatcherInv
<1> QED
  BY <1>2, <1>3

\* A dispatcher that is still at it.
Dispatching(d) ==
    /\ dispatch[d] \in
           [step : {"selected", "confirmed", "review", "publishing", "rendered"},
            capability : [revision : Nat, pair : Nat],
            supplied : Bytes \cup {Nothing},
            brief : Briefs \cup {Nothing}, own : Nat \cup {Nothing}]
    /\ dispatch[d].capability.revision <= revision

\* Nothing that ends or fails leaves anything to rely on.
LEMMA EndingKeeps ==
    ASSUME NEW d \in Publishers, dispatch = [e \in Publishers |-> dispatch[e]],
           Fail(d)
    PROVE  DispatcherInv(d)'
<1>1. dispatch'[d] = Idle
  BY DEF Fail
<1> QED
  BY <1>1 DEF DispatcherInv, Idle

\* From the selection to the brief: one snapshot after the other.
LEMMA SelectingKeeps ==
    ASSUME DispatchInv, NEW d \in Publishers,
           \/ \E pair \in {NoLease, lease.pair}, supplied \in Bytes \cup {Nothing} :
                 Select(d, pair, supplied)
           \/ Confirm(d)
           \/ ReadBrief(d)
    PROVE  DispatcherInv(d)'
<1> DEFINE at == dispatch[d]
<1>0. /\ revision \in Nat /\ lease.pair \in Nat /\ attempt.brief \in Briefs
      /\ dispatch = [e \in Publishers |-> dispatch[e]] /\ DispatcherInv(d)
  BY DEF DispatchInv, FilesInv
<1>1. UNCHANGED <<files, ledger>>
  BY DEF Select, Confirm, ReadBrief
<1>2. ASSUME NEW pair \in {NoLease, lease.pair}, NEW supplied \in Bytes \cup {Nothing},
             Select(d, pair, supplied)
      PROVE  DispatcherInv(d)'
  <2>1. dispatch'[d] = [step |-> "selected", capability |-> Capability(pair),
                        supplied |-> supplied, brief |-> Nothing, own |-> Nothing]
        /\ publication[d] = Idle
    BY <1>0, <1>2 DEF Select
  <2>2. Capability(pair) \in [revision : Nat, pair : Nat]
        /\ Capability(pair).revision = revision
    BY <1>0 DEF Capability, NoLease
  <2> QED
    BY <1>0, <1>1, <2>1, <2>2 DEF DispatcherInv, files
<1>3. ASSUME Confirm(d) PROVE DispatcherInv(d)'
  <2>1. at.step = "selected" /\ (dispatch' = [dispatch EXCEPT ![d].step = "confirmed"] \/ Fail(d))
    BY <1>3 DEF Confirm, Continue
  <2>2. Dispatching(d) /\ publication[d] = Idle /\ at.own = Nothing
    BY <1>0, <2>1 DEF DispatcherInv, Dispatching, Idle
  <2>3. CASE dispatch' = [dispatch EXCEPT ![d].step = "confirmed"]
    <3>1. dispatch'[d] = [at EXCEPT !.step = "confirmed"]
      BY <1>0, <2>3
    <3> QED
      BY <1>1, <2>2, <3>1 DEF DispatcherInv, Dispatching, files
  <2> QED
    BY <1>0, <2>1, <2>3, EndingKeeps
<1>4. ASSUME ReadBrief(d) PROVE DispatcherInv(d)'
  <2>1. at.step = "confirmed"
    BY <1>4 DEF ReadBrief
  <2>2. Dispatching(d) /\ publication[d] = Idle /\ at.own = Nothing
    BY <1>0, <2>1 DEF DispatcherInv, Dispatching, Idle
  <2> DEFINE after == [at EXCEPT !.brief = attempt.brief,
                                 !.step = IF attempt.brief \in LocalBriefs
                                          THEN "rendered" ELSE "review"]
  <2>3. CASE dispatch' = [dispatch EXCEPT ![d] = after]
    <3>1. dispatch'[d] = after
      BY <1>0, <2>3
    <3>2. /\ after.step = IF attempt.brief \in LocalBriefs THEN "rendered" ELSE "review"
          /\ after.brief = attempt.brief
          /\ after.capability = at.capability
          /\ after.supplied = at.supplied
          /\ after.own = at.own
          /\ DOMAIN after = DOMAIN at
      BY <2>2 DEF Dispatching
    <3>3. after \in
             [step : {"review", "rendered"},
              capability : [revision : Nat, pair : Nat],
              supplied : Bytes \cup {Nothing},
              brief : Briefs \cup {Nothing}, own : Nat \cup {Nothing}]
      BY <1>0, <2>2 DEF Dispatching
    <3> HIDE DEF after
    <3>4. DispatcherInv(d)'
      BY <1>0, <1>1, <2>2, <3>1, <3>2, <3>3 DEF DispatcherInv, Dispatching, files, ledger
    <3> QED
      BY <3>4
  <2> QED
    BY <1>0, <1>4, <2>3, EndingKeeps DEF ReadBrief
<1> QED
  BY <1>2, <1>3, <1>4

\* A rendered prompt has its review: one that was accepted, perhaps by this
\* command, at the revision it then counts as its own.
LEMMA RenderedKeeps ==
    ASSUME DispatchInv, NEW d \in Publishers, NEW own \in Nat \cup {Nothing},
           dispatch[d].step \in {"review", "publishing"},
           Rendered(d, own),
           accepted[Review(dispatch[d].brief)] # Nothing,
           own # Nothing => accepted[Review(dispatch[d].brief)].revision = own,
           UNCHANGED <<accepted, revision, attempt>>, publication'[d] = Idle
    PROVE  DispatcherInv(d)'
<1> DEFINE at == dispatch[d]
           after == [at EXCEPT !.step = "rendered", !.supplied = Nothing, !.own = own]
<1>0. dispatch = [e \in Publishers |-> dispatch[e]] /\ DispatcherInv(d)
  BY DEF DispatchInv
<1>1. /\ at \in [step : {"selected", "confirmed", "review", "publishing", "rendered"},
                 capability : [revision : Nat, pair : Nat],
                 supplied : Bytes \cup {Nothing},
                 brief : Briefs \cup {Nothing}, own : Nat \cup {Nothing}]
      /\ at.capability.revision <= revision
      /\ at.brief \in Briefs /\ at.brief \notin LocalBriefs
      /\ OnlyAccepted(d) => attempt.brief = at.brief
  BY <1>0 DEF DispatcherInv, Idle
<1>2. dispatch'[d] = after
  BY <1>0 DEF Rendered
<1>3. /\ after.step = "rendered" /\ after.brief = at.brief
      /\ after.capability = at.capability /\ after.own = own
  BY <1>1
<1>4. after \in [step : {"rendered"}, capability : [revision : Nat, pair : Nat],
                 supplied : Bytes \cup {Nothing},
                 brief : Briefs \cup {Nothing}, own : Nat \cup {Nothing}]
  BY <1>1
<1> HIDE DEF after
<1>5. OnlyAccepted(d)' => OnlyAccepted(d)
  BY <1>2, <1>3 DEF OnlyAccepted
<1> QED
  BY <1>1, <1>2, <1>3, <1>4, <1>5 DEF DispatcherInv, Review

\* The review is found, is looked for, or is taken from the publication.
LEMMA ReviewingKeeps ==
    ASSUME DispatchInv, NEW d \in Publishers,
           FindReview(d) \/ LookForReview(d) \/ TakeReview(d)
    PROVE  DispatcherInv(d)'
<1> DEFINE at == dispatch[d]
           key == Review(at.brief)
<1>0. /\ dispatch = [e \in Publishers |-> dispatch[e]] /\ DispatcherInv(d)
      /\ publication = [e \in Publishers |-> publication[e]]
      /\ FilesInv
  BY DEF DispatchInv, FilesInv
<1>1. at.step \in {"review", "publishing"} /\ UNCHANGED <<accepted, revision, attempt>>
  BY DEF FindReview, LookForReview, TakeReview, files, ledger
<1>2. /\ Dispatching(d)
      /\ at.brief \in Briefs /\ at.brief \notin LocalBriefs /\ at.own = Nothing
      /\ OnlyAccepted(d) => attempt.brief = at.brief
      /\ at.step = "review" => publication[d] = Idle
      /\ at.step = "publishing" => ReviewIsOwn(d)
  BY <1>0, <1>1 DEF DispatcherInv, Dispatching, Idle
<1>3. CASE Fail(d)
  BY <1>0, <1>3, EndingKeeps
<1>4. CASE FindReview(d) /\ ~Fail(d)
  <2>1. accepted[key] # Nothing /\ Rendered(d, Nothing) /\ publication'[d] = Idle
    BY <1>2, <1>4 DEF FindReview, files
  <2> QED
    BY <1>1, <2>1, RenderedKeeps
<1>5. CASE LookForReview(d) /\ Identical(key, at.supplied)
  <2>1. accepted[key] # Nothing /\ Rendered(d, Nothing) /\ publication'[d] = Idle
    BY <1>2, <1>5 DEF LookForReview, Identical
  <2> QED
    BY <1>1, <2>1, RenderedKeeps
<1>6. CASE LookForReview(d) /\ ~Identical(key, at.supplied)
  <2>1. /\ at.step = "review"
        /\ dispatch'[d] = [at EXCEPT !.step = "publishing"]
        /\ \/ Begin(d, "review", << [key |-> key, bytes |-> at.supplied] >>)
           \/ Begin(d, "rejected", << [key |-> Rejected(d), bytes |-> at.supplied] >>)
    BY <1>0, <1>6 DEF LookForReview, Continue
  <2> DEFINE after == [at EXCEPT !.step = "publishing"]
  <2>2. /\ after \in [step : {"publishing"},
                      capability : [revision : Nat, pair : Nat],
                      supplied : Bytes \cup {Nothing},
                      brief : Briefs \cup {Nothing}, own : Nat \cup {Nothing}]
        /\ after.step = "publishing" /\ after.brief = at.brief
        /\ after.capability = at.capability /\ after.own = at.own
    BY <1>2 DEF Dispatching
  <2>3. dispatch'[d] = after
    BY <2>1
  <2> HIDE DEF after
  <2>4. OnlyAccepted(d)' => OnlyAccepted(d)
    BY <1>1, <2>2, <2>3 DEF OnlyAccepted
  <2>5. ReviewIsOwn(d)'
    <3>1. CASE Begin(d, "review", << [key |-> key, bytes |-> at.supplied] >>)
      <4>1. /\ publication'[d].work = << [key |-> key, bytes |-> at.supplied] >>
            /\ publication'[d].published = <<>>
            /\ publication'[d].step = "inspect"
        BY <1>0, <3>1 DEF Begin
      <4>2. /\ \A a \in ToSet(publication'[d].work) : a.key = key
            /\ ToSet(publication'[d].published) = {}
        BY <4>1 DEF ToSet
      <4> QED
        BY <2>2, <2>3, <4>1, <4>2 DEF ReviewIsOwn, Review
    <3>2. CASE Begin(d, "rejected", << [key |-> Rejected(d), bytes |-> at.supplied] >>)
      <4>1. publication'[d].purpose = "rejected"
        BY <1>0, <3>2 DEF Begin
      <4> QED
        BY <4>1 DEF ReviewIsOwn
    <3> QED
      BY <2>1, <3>1, <3>2
  <2> QED
    BY <1>1, <1>2, <2>2, <2>3, <2>4, <2>5 DEF DispatcherInv, Dispatching
<1>7. CASE TakeReview(d) /\ ~Fail(d)
  <2>1. /\ at.step = "publishing"
        /\ publication[d].step = "accepted" /\ publication[d].purpose = "review"
        /\ Rendered(d, publication[d].revision)
        /\ publication'[d] = Idle
    BY <1>0, <1>7 DEF TakeReview
  <2>2. accepted[key] # Nothing /\ accepted[key].revision = publication[d].revision
    BY <1>2, <2>1 DEF ReviewIsOwn
  <2>3. publication[d].revision \in Nat
    <3>1. Verified(d)
      BY <1>0 DEF FilesInv
    <3>2. publication[d] # Idle /\ publication[d] # [step |-> "refused"]
      BY <2>1 DEF Idle
    <3> QED
      BY <2>1, <3>1, <3>2 DEF Verified, Ongoing
  <2> QED
    BY <1>1, <2>1, <2>2, <2>3, RenderedKeeps
<1> QED
  BY <1>3, <1>4, <1>5, <1>6, <1>7

\* Each step of a dispatcher keeps what the dispatcher knows.
LEMMA DispatchStepKeeps ==
    ASSUME DispatchInv, NEW d \in Publishers, DispatchStep(d)
    PROVE  DispatcherInv(d)'
<1>0. /\ dispatch = [e \in Publishers |-> dispatch[e]]
      /\ publication = [e \in Publishers |-> publication[e]]
      /\ DispatcherInv(d)
  BY DEF DispatchInv, FilesInv
<1>1. CASE Stop(d)
  BY <1>0, <1>1, EndingKeeps DEF Stop
<1>2. CASE Recheck(d)
  <2>1. dispatch[d].step = "rendered" /\ UNCHANGED files /\ (Emit(d) \/ Fail(d))
    BY <1>2 DEF Recheck
  <2>2. publication'[d] = Idle
    BY <1>0, <2>1 DEF DispatcherInv, Idle, files
  <2>3. CASE Emit(d)
    BY <1>0, <2>2, <2>3 DEF Emit, DispatcherInv
  <2> QED
    BY <1>0, <2>1, <2>3, EndingKeeps
<1> QED
  BY <1>1, <1>2, SelectingKeeps, ReviewingKeeps DEF DispatchStep

\* A dispatcher touches its own publication only, and commits nothing.
LEMMA DispatchStepFiles ==
    ASSUME DispatchInv, NEW d \in Publishers, DispatchStep(d)
    PROVE  /\ FilesInv' /\ FilesGrow
           /\ UNCHANGED <<attempt, lease>>
           /\ \E after : dispatch' = [dispatch EXCEPT ![d] = after]
           /\ \E after : publication' = [publication EXCEPT ![d] = after]
<1>0. /\ FilesInv /\ DispatcherInv(d)
      /\ dispatch = [e \in Publishers |-> dispatch[e]]
      /\ publication = [e \in Publishers |-> publication[e]]
      /\ revision \in Nat
  BY DEF DispatchInv, FilesInv
<1>1. /\ UNCHANGED <<file, accepted, revision, attempt, lease>>
      /\ \E after : dispatch' = [dispatch EXCEPT ![d] = after]
  BY DEF DispatchStep, Select, Confirm, ReadBrief, FindReview, LookForReview,
         TakeReview, Recheck, Stop, Continue, Rendered, Emit, Fail, files, ledger
<1>2. CASE publication' = publication
  <2>1. publication' = [publication EXCEPT ![d] = publication[d]]
    BY <1>0, <1>2
  <2> QED
    BY <1>0, <1>1, <1>2, <2>1, ElsewhereKeepsFiles
<1>3. CASE publication' = [publication EXCEPT ![d] = Idle]
  BY <1>0, <1>1, <1>3, ElsewhereKeepsFiles
<1>4. CASE LookForReview(d) /\ publication' # publication
  <2> DEFINE bytes == dispatch[d].supplied
             key == Review(dispatch[d].brief)
  <2>1. /\ dispatch[d].step = "review" /\ bytes # Nothing
        /\ \/ Begin(d, "review", << [key |-> key, bytes |-> bytes] >>)
           \/ Begin(d, "rejected", << [key |-> Rejected(d), bytes |-> bytes] >>)
    BY <1>4 DEF LookForReview
  <2>2. bytes \in Bytes /\ dispatch[d].brief \in Briefs \ LocalBriefs
    BY <1>0, <2>1 DEF DispatcherInv, Idle
  <2>3. key \in Keys /\ Rejected(d) \in Keys
    BY <2>2, KeysAssumption
  <2>4. /\ << [key |-> key, bytes |-> bytes] >> \in Seq(Artifacts)
        /\ << [key |-> Rejected(d), bytes |-> bytes] >> \in Seq(Artifacts)
        /\ << [key |-> key, bytes |-> bytes] >> # <<>>
        /\ << [key |-> Rejected(d), bytes |-> bytes] >> # <<>>
    BY <2>2, <2>3 DEF Artifacts
  <2>5. \E purpose \in Purposes, work \in Seq(Artifacts) :
           work # <<>> /\ Begin(d, purpose, work)
    BY <2>1, <2>4 DEF Purposes
  <2> QED
    BY <1>0, <1>1, <2>5, ElsewhereKeepsFiles DEF Begin
<1> QED
  BY <1>1, <1>2, <1>3, <1>4 DEF DispatchStep, Select, Confirm, ReadBrief,
     FindReview, TakeReview, Recheck, Stop, files

\* The shape of the attempt and of its lease, whatever changes in them.
LEMMA AttemptShape ==
    ASSUME NEW a \in [active : BOOLEAN, stale : BOOLEAN, brief : Briefs]
    PROVE  /\ [a EXCEPT !.active = FALSE] \in [active : BOOLEAN, stale : BOOLEAN, brief : Briefs]
           /\ [a EXCEPT !.stale = TRUE] \in [active : BOOLEAN, stale : BOOLEAN, brief : Briefs]
  OBVIOUS

\* A grant and a release leave a lease.
LEMMA LeaseShape ==
    ASSUME NEW l \in [pair : Nat, live : BOOLEAN]
    PROVE  /\ [pair |-> l.pair + 1, live |-> TRUE] \in [pair : Nat, live : BOOLEAN]
           /\ [l EXCEPT !.live = FALSE] \in [pair : Nat, live : BOOLEAN]
<1>1. [pair |-> l.pair + 1, live |-> TRUE] \in [pair : Nat, live : BOOLEAN]
  OBVIOUS
<1>2. [l EXCEPT !.live = FALSE] \in [pair : Nat, live : BOOLEAN]
  OBVIOUS
<1> QED
  BY <1>1, <1>2

\* What the other processes commit.
LEMMA OthersStep ==
    ASSUME DispatchInv,
           \/ Pause
           \/ \E b \in Briefs : Resume(b)
           \/ Revise
           \/ Handover
           \/ LeaseExpires
    PROVE  DispatchInv'
<1>0. /\ attempt \in [active : BOOLEAN, stale : BOOLEAN, brief : Briefs]
      /\ lease \in [pair : Nat, live : BOOLEAN]
  BY DEF DispatchInv
<1>1. /\ UNCHANGED <<file, accepted, publication, dispatch>>
      /\ \/ revision' = revision + 1
         \/ revision' = revision /\ attempt' = attempt
  BY DEF Pause, Resume, Revise, Handover, LeaseExpires, ChangeAttempt, Commit, files
<1>2. attempt' \in [active : BOOLEAN, stale : BOOLEAN, brief : Briefs]
  <2>1. ASSUME NEW b \in Briefs, Resume(b)
        PROVE  attempt' = [active |-> TRUE, stale |-> FALSE, brief |-> b]
    BY <2>1 DEF Resume, ChangeAttempt
  <2>2. CASE \E b \in Briefs : Resume(b)
    <3>1. PICK b \in Briefs : Resume(b)
      BY <2>2
    <3>2. [active |-> TRUE, stale |-> FALSE, brief |-> b]
             \in [active : BOOLEAN, stale : BOOLEAN, brief : Briefs]
      OBVIOUS
    <3> QED
      BY <2>1, <3>1, <3>2
  <2>3. CASE Pause
    BY <1>0, <2>3, AttemptShape DEF Pause, ChangeAttempt
  <2>4. CASE Revise
    BY <1>0, <2>4, AttemptShape DEF Revise, ChangeAttempt
  <2>5. CASE Handover \/ LeaseExpires
    BY <1>0, <2>5 DEF Handover, LeaseExpires
  <2> QED
    BY <2>2, <2>3, <2>4, <2>5
<1>3. lease' \in [pair : Nat, live : BOOLEAN]
  <2>1. lease' \in {lease, [pair |-> lease.pair + 1, live |-> TRUE],
                    [lease EXCEPT !.live = FALSE]}
    BY DEF Pause, Resume, Revise, Handover, LeaseExpires, ChangeAttempt
  <2> QED
    BY <1>0, <2>1, LeaseShape
<1>4. FilesInv' /\ FilesGrow
  BY <1>1, ElsewhereKeepsFiles DEF DispatchInv, FilesInv
<1>5. ASSUME NEW d \in Publishers PROVE DispatcherInv(d)'
  BY <1>1, <1>4, DispatcherKept DEF DispatchInv
<1> QED
  BY <1>1, <1>2, <1>3, <1>4, <1>5 DEF DispatchInv

\* A publication outside of any dispatch begins or ends.
LEMMA OutsideStep ==
    ASSUME DispatchInv, NEW p \in Publishers,
           \/ \E c \in Checkpoints, result, review \in Bytes :
                 PublishCheckpoint(p, c, result, review)
           \/ EndPublication(p)
    PROVE  DispatchInv'
<1> USE DEF DispatchInv
<1>0. publication = [e \in Publishers |-> publication[e]]
  BY DEF FilesInv
<1>1. /\ dispatch[p] = Idle
      /\ UNCHANGED <<file, accepted, revision, attempt, lease, dispatch>>
  BY DEF PublishCheckpoint, StartPublication, EndPublication, Abandon, ledger
<1>2. ASSUME NEW c \in Checkpoints, NEW result \in Bytes, NEW review \in Bytes,
             PublishCheckpoint(p, c, result, review)
      PROVE  \E purpose \in Purposes, work \in Seq(Artifacts) :
                work # <<>> /\ Begin(p, purpose, work)
  <2> DEFINE work == << [key |-> <<"result", c>>, bytes |-> result],
                        [key |-> <<"evidence", c>>, bytes |-> review] >>
  <2>1. work \in Seq(Artifacts) /\ work # <<>>
    BY KeysAssumption DEF Artifacts
  <2>2. Begin(p, "checkpoint", work)
    BY <1>2 DEF PublishCheckpoint, StartPublication
  <2> QED
    BY <2>1, <2>2 DEF Purposes
<1>3. FilesInv' /\ FilesGrow
  <2>1. \/ publication' = [publication EXCEPT ![p] = Idle]
        \/ \E purpose \in Purposes, work \in Seq(Artifacts) :
              work # <<>> /\ Begin(p, purpose, work)
    BY <1>2 DEF EndPublication, Abandon
  <2> QED
    BY <1>1, <2>1, ElsewhereKeepsFiles
<1>4. ASSUME NEW d \in Publishers PROVE DispatcherInv(d)'
  <2>1. CASE d = p
    BY <1>1, <2>1 DEF DispatcherInv, Idle
  <2>2. CASE d # p
    <3>1. publication'[d] = publication[d]
      BY <1>0, <1>2, <2>2 DEF Begin, EndPublication, Abandon
    <3> QED
      BY <1>1, <1>3, <3>1, DispatcherKept
  <2> QED
    BY <2>1, <2>2
<1> QED
  BY <1>1, <1>3, <1>4

\* A publication goes on; a checkpoint that is accepted pauses the attempt.
LEMMA ArtifactStep ==
    ASSUME DispatchInv, NEW p \in Publishers, PublishArtifact(p)
    PROVE  DispatchInv'
<1> USE DEF DispatchInv
<1>0. publication = [e \in Publishers |-> publication[e]]
  BY DEF FilesInv
<1>1. /\ PublicationStep(p) /\ UNCHANGED <<lease, dispatch>>
      /\ attempt' \in {attempt, [attempt EXCEPT !.active = FALSE]}
  BY DEF PublishArtifact
<1>2. /\ attempt' \in [active : BOOLEAN, stale : BOOLEAN, brief : Briefs]
      /\ attempt'.brief = attempt.brief
  BY <1>1
<1>3. FilesInv' /\ FilesGrow /\ publication[p].step \in Ongoing
  BY <1>1, PublicationKeepsFiles
<1>4. PICK after : publication' = [publication EXCEPT ![p] = after] /\ Continues(p, after)
  BY <1>1, PublicationKeepsFiles
<1>5. ASSUME NEW d \in Publishers PROVE DispatcherInv(d)'
  <2>1. CASE d = p
    <3>1. publication'[p] = after
      BY <1>0, <1>4
    <3> QED
      BY <1>1, <1>2, <1>3, <1>4, <2>1, <3>1, OwnPublicationKept
  <2>2. CASE d # p
    <3>1. publication'[d] = publication[d]
      BY <1>0, <1>4, <2>2
    <3> QED
      BY <1>1, <1>2, <1>3, <3>1, DispatcherKept
  <2> QED
    BY <2>1, <2>2
<1> QED
  BY <1>1, <1>2, <1>3, <1>5

\* Nothing is published or dispatched at first.
LEMMA InitDispatch == Init => DispatchInv
<1> SUFFICES ASSUME Init PROVE DispatchInv
  OBVIOUS
<1>1. (CHOOSE b \in Briefs : TRUE) \in Briefs
  BY BriefsAssumption
<1>2. FilesInv
  BY DEF Init, FilesInit, FilesInv, Verified
<1> QED
  BY <1>1, <1>2 DEF Init, DispatchInv, DispatcherInv

\* Every step of every process keeps the invariant of publishing and dispatching.
LEMMA NextDispatch == DispatchInv /\ [Next]_vars => DispatchInv'
<1> SUFFICES ASSUME DispatchInv, [Next]_vars PROVE DispatchInv'
  OBVIOUS
<1>1. ASSUME NEW d \in Publishers, DispatchStep(d) PROVE DispatchInv'
  <2>1. /\ FilesInv' /\ FilesGrow /\ UNCHANGED <<attempt, lease>>
        /\ dispatch = [e \in Publishers |-> dispatch[e]]
        /\ publication = [e \in Publishers |-> publication[e]]
    BY <1>1, DispatchStepFiles DEF DispatchInv, FilesInv
  <2>2. PICK after : dispatch' = [dispatch EXCEPT ![d] = after]
    BY <1>1, DispatchStepFiles
  <2>3. PICK work : publication' = [publication EXCEPT ![d] = work]
    BY <1>1, DispatchStepFiles
  <2>4. ASSUME NEW e \in Publishers PROVE DispatcherInv(e)'
    <3>1. CASE e = d
      BY <1>1, <3>1, DispatchStepKeeps
    <3>2. CASE e # d
      BY <2>1, <2>2, <2>3, <3>2, DispatcherKept DEF DispatchInv
    <3> QED
      BY <3>1, <3>2
  <2> QED
    BY <2>1, <2>2, <2>4 DEF DispatchInv
<1>2. CASE UNCHANGED vars
  <2>1. FilesInv' /\ FilesGrow
    BY <1>2, ElsewhereKeepsFiles DEF DispatchInv, FilesInv, vars, files
  <2>2. ASSUME NEW d \in Publishers PROVE DispatcherInv(d)'
    BY <1>2, <2>1, DispatcherKept DEF DispatchInv, vars, files, ledger
  <2> QED
    BY <1>2, <2>1, <2>2 DEF DispatchInv, vars, ledger
<1> QED
  BY <1>1, <1>2, OthersStep, OutsideStep, ArtifactStep DEF Next

\* Files, references, dispatchers: the invariant of every launch.
THEOREM DispatchCorrect == Spec => []DispatchInv
  BY InitDispatch, NextDispatch, PTL DEF Spec

\* The bytes of every accepted reference are on disk, whoever published under
\* the same identity and whoever died in between (write_revision,
\* create_immutable, accept_artifact_reference).
THEOREM AcceptedBytesCorrect == Spec => []AcceptedBytesExist
<1>1. DispatchInv => AcceptedBytesExist
  BY DEF DispatchInv, FilesInv, AcceptedBytesExist
<1> QED
  BY <1>1, DispatchCorrect, PTL

\* A prompt is printed only while the launch it describes is current, although
\* the dispatcher reads four snapshots and holds no lock between them
\* (recheck_dispatch_authority).
THEOREM EmittedCorrect == Spec => EmittedIsCurrent
<1>1. ASSUME DispatchInv, Next, NEW d \in Publishers,
             dispatch[d].step = "rendered", dispatch'[d].step = "emitted"
      PROVE  Recheck(d) /\ Emit(d)
  <2>0. dispatch = [e \in Publishers |-> dispatch[e]]
    BY <1>1 DEF DispatchInv
  <2>1. PICK e \in Publishers : DispatchStep(e)
    BY <1>1 DEF Next, PublishCheckpoint, StartPublication, PublishArtifact,
       EndPublication, Pause, Resume, Revise, Handover, LeaseExpires, ChangeAttempt
  <2>2. PICK after : dispatch' = [dispatch EXCEPT ![e] = after]
    BY <1>1, <2>1, DispatchStepFiles
  <2>3. e = d
    BY <1>1, <2>0, <2>2
  <2>4. dispatch[d] # Idle /\ dispatch'[d] # Idle
    BY <1>1 DEF Idle
  <2>5. ~Fail(d)
    BY <2>0, <2>4 DEF Fail
  <2> QED
    BY <1>1, <2>1, <2>3, <2>4, <2>5 DEF DispatchStep, Select, Confirm, ReadBrief,
       FindReview, LookForReview, TakeReview, Recheck, Stop
<1>2. ASSUME DispatchInv, NEW d \in Publishers, Recheck(d), Emit(d)
      PROVE  /\ StillOffered(d) /\ attempt.active /\ ~attempt.stale
             /\ attempt.brief = dispatch[d].brief
             /\ dispatch[d].brief \in LocalBriefs
                   \/ accepted[Review(dispatch[d].brief)] # Nothing
  <2> DEFINE at == dispatch[d]
  <2>0. /\ DispatcherInv(d) /\ revision \in Nat
        /\ dispatch = [e \in Publishers |-> dispatch[e]]
    BY <1>2 DEF DispatchInv, FilesInv
  <2>1. at.step = "rendered" /\ ~Fail(d)
    BY <1>2, <2>0 DEF Recheck, Emit, Fail, Idle
  <2>2. /\ StillOffered(d)
        /\ IF at.own = Nothing
           THEN Now(d) = at.capability
           ELSE at.capability.revision + 1 = at.own /\ revision = at.own
    BY <1>2, <2>1 DEF Recheck
  <2>3. /\ at.brief \in Briefs
        /\ OnlyAccepted(d) => attempt.brief = at.brief
        /\ at.brief \notin LocalBriefs => accepted[Review(at.brief)] # Nothing
        /\ at.own # Nothing =>
              at.brief \notin LocalBriefs /\ accepted[Review(at.brief)].revision = at.own
    BY <2>0, <2>1 DEF DispatcherInv, Idle
  <2>4. OnlyAccepted(d)
    <3>1. CASE at.own = Nothing
      <4>1. Now(d).revision = revision
        BY DEF Now, Capability
      <4> QED
        BY <2>2, <3>1, <4>1 DEF OnlyAccepted
    <3>2. CASE at.own # Nothing
      <4>1. Review(at.brief) \in Keys
        BY <2>3, <3>2, KeysAssumption
      <4> QED
        BY <2>2, <2>3, <3>2, <4>1 DEF OnlyAccepted
    <3> QED
      BY <3>1, <3>2
  <2> QED
    BY <2>2, <2>3, <2>4 DEF StillOffered, Offered
<1>3. DispatchInv /\ [Next]_vars =>
        [\A d \in Publishers :
          dispatch[d].step = "rendered" /\ dispatch'[d].step = "emitted" =>
              /\ attempt.active /\ ~attempt.stale
              /\ attempt.brief = dispatch[d].brief
              /\ StillOffered(d)
              /\ dispatch[d].brief \in LocalBriefs
                    \/ accepted[Review(dispatch[d].brief)] # Nothing]_vars
  BY <1>1, <1>2
<1> QED
  BY <1>3, DispatchCorrect, PTL DEF Spec, EmittedIsCurrent

\* What an interrupted command left behind is never in the way of repeating
\* it: an identity is refused only for other bytes (write_revision,
\* create_immutable; accept_artifact_reference then finds the file it verified).
THEOREM RepeatingCorrect == Spec => RepeatingIsNeverRefused
<1> DEFINE Unpublished(p) ==
               \E a \in {publication[p].work[n] : n \in DOMAIN publication[p].work} :
                  file[a.key] # a.bytes
           Refusing(p) ==
               publication[p].step \in {"inspect", "create", "accept"}
                  /\ publication'[p].step = "refused"
<1>1. ASSUME DispatchInv, Next, NEW p \in Publishers, Refusing(p)
      PROVE  PublicationStep(p)
  <2>0. publication = [q \in Publishers |-> publication[q]]
    BY <1>1 DEF DispatchInv, FilesInv
  <2>1. publication'[p] # publication[p] /\ publication'[p] # Idle
    BY <1>1 DEF Idle
  <2>2. ASSUME NEW q \in Publishers, NEW purpose, NEW work
        PROVE  ~Begin(q, purpose, work)
    BY <1>1, <2>0, <2>1 DEF Begin
  <2>3. ASSUME NEW q \in Publishers PROVE publication' # [publication EXCEPT ![q] = Idle]
    BY <2>0, <2>1
  <2>4. PICK q \in Publishers : PublicationStep(q)
    BY <1>1, <2>1, <2>2, <2>3 DEF Next, DispatchStep, Select, Confirm, ReadBrief,
       FindReview, LookForReview, TakeReview, Recheck, Stop, PublishCheckpoint,
       StartPublication, PublishArtifact, EndPublication, Abandon, Pause, Resume,
       Revise, Handover, LeaseExpires, ChangeAttempt, files
  <2>5. PICK after : publication' = [publication EXCEPT ![q] = after]
    BY <1>1, <2>4, PublicationKeepsFiles DEF DispatchInv
  <2> QED
    BY <2>0, <2>1, <2>4, <2>5
<1>2. ASSUME DispatchInv, NEW p \in Publishers, PublicationStep(p), Refusing(p)
      PROVE  Unpublished(p)
  <2> DEFINE now == publication[p]
  <2>0. /\ FilesInv /\ Underway(p)
        /\ publication = [q \in Publishers |-> publication[q]]
    BY <1>2, OngoingIsUnderway DEF DispatchInv, FilesInv, Ongoing
  <2>1. ASSUME Verify(p), now.step # "accept" PROVE Unpublished(p)
    <3>1. now.work \in Seq(Artifacts) /\ now.work # <<>> /\ Candidate(p) = Head(now.work)
      BY <2>0, <2>1 DEF Underway, Candidate
    <3>2. Candidate(p) \in ToSet(now.work)
      BY <3>1, WorkShrinks
    <3>3. ~Published(p)
      BY <1>2, <2>0 DEF Published
    <3> QED
      BY <2>1, <3>2, <3>3 DEF Verify, ToSet
  <2>2. CASE Inspect(p) \/ Create(p) \/ CreateFails(p)
    <3>1. ~Published(p)
      BY <1>2, <2>0 DEF Published
    <3>2. publication' # [publication EXCEPT ![p] = [now EXCEPT !.step = "create"]]
      BY <1>2, <2>0 DEF Underway
    <3>3. now.step # "accept" /\ Verify(p)
      BY <2>2, <3>1, <3>2 DEF Inspect, Create, CreateFails
    <3> QED
      BY <2>1, <3>3
  <2>3. ASSUME NEW n \in DOMAIN now.published
        PROVE  /\ now.published[n].key \in Keys
               /\ file[now.published[n].key] = now.published[n].bytes
               /\ ~Conflicting(now.published[n].key, now.published[n].bytes)
    <3>1. now.published[n] \in ToSet(now.published)
      BY DEF ToSet
    <3>2. /\ now.published[n] \in Artifacts
          /\ file[now.published[n].key] = now.published[n].bytes
      BY <2>0, <3>1 DEF Underway
    <3> QED
      BY <2>0, <3>2 DEF FilesInv, Conflicting, Artifacts
  <2>4. CASE AcceptReference(p)
    <3>1. now.published \in Seq(Artifacts) /\ now.published # <<>>
      BY <2>0, <2>4 DEF Underway, AcceptReference
    <3>2. 1 \in DOMAIN now.published
      BY <3>1
    <3>3. \E r : publication' = [publication EXCEPT ![p] =
                    [step |-> "accepted", purpose |-> now.purpose, revision |-> r]]
      BY <2>3, <2>4, <3>2 DEF AcceptReference
    <3> QED
      BY <1>2, <2>0, <3>3
  <2>5. CASE AcceptCheckpoint(p)
    <3>1. publication' = [publication EXCEPT ![p] = Idle]
      BY <2>3, <2>5 DEF AcceptCheckpoint
    <3> QED
      BY <1>2, <2>0, <3>1 DEF Idle
  <2> QED
    BY <1>2, <2>2, <2>4, <2>5 DEF PublicationStep
<1>3. DispatchInv /\ [Next]_vars => [\A p \in Publishers : Refusing(p) => Unpublished(p)]_files
  <2> SUFFICES ASSUME DispatchInv, [Next]_vars
               PROVE  [\A p \in Publishers : Refusing(p) => Unpublished(p)]_files
    OBVIOUS
  <2>1. UNCHANGED vars => UNCHANGED files
    BY DEF vars
  <2> QED
    BY <1>1, <1>2, <2>1
<1> QED
  BY <1>3, DispatchCorrect, PTL DEF Spec, RepeatingIsNeverRefused

=============================================================================
