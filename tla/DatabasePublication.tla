------------------------- MODULE DatabasePublication -------------------------
(***************************************************************************)
(* `pinboard init`: a new ledger is built in a staging file, linked to its *)
(* final name, and the staging name is removed; a returning one is         *)
(* verified and its residue removed (sqlite/database.py, called by         *)
(* interfaces/work_state.py).                                              *)
(*                                                                         *)
(* A process is the sequence of file-system calls it has still to make.    *)
(* Between any two of them it may die, the machine may lose power, a call  *)
(* may fail, and another command may commit work to a ledger it can        *)
(* already see.  A power loss takes the directory back to a state it had   *)
(* since it was last synchronized: its changes are assumed to reach the    *)
(* disk in order, as journaling file systems have it.  SQLite itself       *)
(* synchronizes a file at every commit (synchronous = FULL), and the       *)
(* directory when it creates a journal.                                    *)
(***************************************************************************)
EXTENDS Naturals, Sequences

CONSTANTS
    Initializers,   \* processes that run `pinboard init`
    Files,          \* identities of files, reused once nothing names them
    NoFile,
    MaxFaults       \* bound of the model: crashes, power losses, failed calls

Names == {"dest", "stage"}

VARIABLES
    entry,          \* the two directory entries, as processes see them
    durable,        \* the states of the directory a power loss may leave
    content,        \* how far the database in a file has come
    process,        \* what each initializer has still to do
    relied,         \* file whose ledger a user relies on: a receipt was
                    \* printed, or work committed with no publication open
    faults

directory == <<entry, durable>>
vars == <<directory, content, process, relied, faults>>

Contents == {"empty", "schema", "verified"}

\* `phase` decides what a failing call leads to.
Phases ==
    {"idle", "preparing", "building", "published", "cleaning", "presenting"}
Idle == [phase |-> "idle", plan |-> <<>>, file |-> NoFile]

Init ==
    /\ entry = [n \in Names |-> NoFile]
    /\ durable = {entry}
    /\ content = [f \in Files |-> "empty"]
    /\ process = [p \in Initializers |-> Idle]
    /\ relied = NoFile
    /\ faults = 0

-----------------------------------------------------------------------------
(* Plans.  A call is its name and the directory entry it is made on.       *)

CleanUp(n) == << <<"unlink", n>>, <<"sync", n>> >>

Same == entry["dest"] # NoFile /\ entry["dest"] = entry["stage"]

Build == << <<"connect", "stage">>, <<"schema", "stage">>,
            <<"metadata", "stage">>, <<"syncFile", "stage">> >>

\* Creating a directory, or finding it, synchronizes its parent: the root is
\* synchronized once more for `artifacts`, and for `views` while rebuilding.
EnsureDirectories == << <<"sync", "dest">> >>

Present == << <<"open", "dest">>, <<"rebuild", "dest">> >>

\* Fault: the final name is linked as soon as the staging file exists.
PublishEarly ==
    << <<"connect", "stage">>, <<"link", "dest">>, <<"schema", "stage">>,
       <<"metadata", "stage">> >> \o CleanUp("stage") \o Present

Publish ==
    Build \o << <<"link", "dest">>, <<"syncFile", "dest">> >>
          \o CleanUp("stage") \o Present

\* Fault: residue of an earlier attempt is refused instead of removed.
PrepareRefusing ==
    IF entry["stage"] = NoFile THEN Publish ELSE <<>>

\* Fault: residue of an earlier attempt is built upon.
PrepareOverResidue ==
    IF entry["dest"] = NoFile THEN Publish
    ELSE IF Same THEN CleanUp("dest") \o CleanUp("stage") \o Publish
    ELSE <<>>

\* An existing ledger that is its own staging file is taken for residue and
\* removed with it; any other existing ledger is refused.
Prepare ==
    IF entry["dest"] = NoFile THEN CleanUp("stage") \o Publish
    ELSE IF Same THEN CleanUp("dest") \o CleanUp("stage") \o Publish
    ELSE <<>>

\* Fault: a returning ledger is prepared for as a new one is.
ReconcileAsResidue ==
    IF entry["stage"] = NoFile THEN EnsureDirectories \o Present
    ELSE IF Same THEN CleanUp("dest") \o CleanUp("stage") \o Publish
    ELSE <<>>

\* A returning ledger keeps its file; only the staging name is removed.
Reconcile ==
    IF entry["stage"] = NoFile THEN EnsureDirectories \o Present
    ELSE IF Same THEN CleanUp("stage") \o EnsureDirectories \o Present
    ELSE <<>>

\* What follows a call that fails: nothing that was begun is left behind, and
\* a ledger that was linked is taken back.
AfterFailure(phase) ==
    CASE phase = "building" -> CleanUp("stage")
      [] phase = "published" -> CleanUp("dest") \o CleanUp("stage")
      [] OTHER -> <<>>

-----------------------------------------------------------------------------

\* A process with nothing left to do has returned or raised.
Continue(p, phase, plan, file) ==
    process' = [process EXCEPT ![p] =
        IF plan = <<>> THEN Idle
        ELSE [phase |-> phase, plan |-> plan, file |-> file]]

Fail(p) ==
    Continue(p, "cleaning", AfterFailure(process[p].phase), NoFile)

Start(p) ==
    /\ process[p] = Idle
    /\ process' = [process EXCEPT ![p] =
           [phase |-> "preparing", file |-> NoFile,
            plan |-> << <<IF entry["dest"] = NoFile THEN "prepare" ELSE "verify",
                          "dest">> >>]]
    /\ UNCHANGED <<directory, content, relied, faults>>

Calls(p, call, n) ==
    process[p].plan # <<>> /\ Head(process[p].plan) = <<call, n>>

Rest(p) == Tail(process[p].plan)
Proceed(p) == Continue(p, process[p].phase, Rest(p), process[p].file)

Readable == entry["dest"] # NoFile /\ content[entry["dest"]] = "verified"

DecidePreparation(p) ==
    /\ Calls(p, "prepare", "dest")
    /\ Continue(p, "preparing", Prepare, NoFile)
    /\ UNCHANGED <<directory, content, relied, faults>>

\* A ledger whose schema or metadata is not exactly current is refused.
VerifyExisting(p) ==
    /\ Calls(p, "verify", "dest")
    /\ IF Readable
       THEN Continue(p, "preparing", << <<"reconcile", "stage">> >>, NoFile)
       ELSE Fail(p)
    /\ UNCHANGED <<directory, content, relied, faults>>

DecideReconciliation(p) ==
    /\ Calls(p, "reconcile", "stage")
    /\ Continue(p, "preparing", Reconcile, NoFile)
    /\ UNCHANGED <<directory, content, relied, faults>>

Enter(n, f) ==
    /\ entry' = [entry EXCEPT ![n] = f]
    /\ durable' = durable \cup {entry'}

SyncDirectory == durable' = {entry} /\ UNCHANGED entry

\* The directory is synchronized only if something was removed.
Unlink(p, n) ==
    /\ Calls(p, "unlink", n)
    /\ Enter(n, NoFile)
    /\ Continue(p, process[p].phase,
                IF entry[n] = NoFile THEN Tail(Rest(p)) ELSE Rest(p),
                process[p].file)
    /\ UNCHANGED <<content, relied, faults>>

Synchronize(p, n) ==
    /\ Calls(p, "sync", n)
    /\ SyncDirectory
    /\ Proceed(p)
    /\ UNCHANGED <<content, relied, faults>>

\* SQLite opens the file of that name, or creates an empty one.
Unused(f) ==
    /\ \A d \in durable, n \in Names : f # d[n]
    /\ \A p \in Initializers : f # process[p].file
    /\ f # relied

Connect(p) ==
    /\ Calls(p, "connect", "stage")
    /\ \E f \in Files :
          /\ IF entry["stage"] = NoFile
             THEN /\ Unused(f)
                  /\ content' = [content EXCEPT ![f] = "empty"]
             ELSE f = entry["stage"] /\ UNCHANGED content
          /\ Enter("stage", f)
          /\ Continue(p, "building", Rest(p), f)
    /\ UNCHANGED <<relied, faults>>

\* The script and the metadata row are refused by a file that has them.
Advance(p, call, before, after) ==
    /\ Calls(p, call, "stage")
    /\ IF content[process[p].file] = before
       THEN /\ content' = [content EXCEPT ![process[p].file] = after]
            /\ Proceed(p)
       ELSE Fail(p) /\ UNCHANGED content
    /\ UNCHANGED <<directory, relied, faults>>

ExecuteSchema(p) == Advance(p, "schema", "empty", "schema")
InsertMetadata(p) == Advance(p, "metadata", "schema", "verified")

\* The file is reopened by name, so the name must still be there.
SyncFile(p, n) ==
    /\ Calls(p, "syncFile", n)
    /\ IF entry[n] = NoFile
       THEN Fail(p) /\ UNCHANGED directory
       ELSE SyncDirectory /\ Proceed(p)
    /\ UNCHANGED <<content, relied, faults>>

Link(p) ==
    /\ Calls(p, "link", "dest")
    /\ IF entry["dest"] # NoFile \/ entry["stage"] = NoFile
       THEN Fail(p) /\ UNCHANGED directory
       ELSE /\ Enter("dest", entry["stage"])
            /\ Continue(p, "published", Rest(p), NoFile)
    /\ UNCHANGED <<content, relied, faults>>

\* From here on a failure leaves the ledger as it is.
OpenLedger(p) ==
    /\ Calls(p, "open", "dest")
    /\ Continue(p, "presenting", IF Readable THEN Rest(p) ELSE <<>>, NoFile)
    /\ UNCHANGED <<directory, content, relied, faults>>

\* The receipt is printed once the views are rebuilt.
RebuildAndPrint(p) ==
    /\ Calls(p, "rebuild", "dest")
    /\ SyncDirectory
    /\ relied' = entry["dest"]
    /\ Proceed(p)
    /\ UNCHANGED <<content, faults>>

\* Any other command writes to a ledger it can open.
CommitWork ==
    /\ Readable
    /\ SyncDirectory
    /\ relied' = IF \E p \in Initializers :
                       process[p].phase \in {"published", "cleaning"}
                 THEN relied ELSE entry["dest"]
    /\ UNCHANGED <<content, process, faults>>

-----------------------------------------------------------------------------
(* Faults.                                                                 *)

Fault == faults < MaxFaults /\ faults' = faults + 1

FallibleCalls == {"unlink", "sync", "connect", "schema", "metadata", "syncFile", "link",
     "rebuild"}

CallFails(p) ==
    /\ Fault
    /\ process[p].plan # <<>> /\ Head(process[p].plan)[1] \in FallibleCalls
    /\ Fail(p)
    /\ UNCHANGED <<directory, content, relied>>

Crash(p) ==
    /\ Fault
    /\ process[p] # Idle
    /\ process' = [process EXCEPT ![p] = Idle]
    /\ UNCHANGED <<directory, content, relied>>

PowerLoss ==
    /\ Fault
    /\ entry' \in durable
    /\ durable' = {entry'}
    /\ process' = [p \in Initializers |-> Idle]
    /\ UNCHANGED <<content, relied>>

-----------------------------------------------------------------------------

Step(p) ==
    \/ DecidePreparation(p)
    \/ VerifyExisting(p)
    \/ DecideReconciliation(p)
    \/ \E n \in Names : Unlink(p, n) \/ Synchronize(p, n) \/ SyncFile(p, n)
    \/ Connect(p)
    \/ ExecuteSchema(p)
    \/ InsertMetadata(p)
    \/ Link(p)
    \/ OpenLedger(p)
    \/ RebuildAndPrint(p)

Next ==
    \/ \E p \in Initializers : Start(p) \/ Step(p) \/ CallFails(p) \/ Crash(p)
    \/ CommitWork
    \/ PowerLoss

\* A running command goes on, and its user repeats it; nobody need commit
\* work, and no fault need happen.
Fairness == \A p \in Initializers : WF_vars(Step(p)) /\ WF_vars(Start(p))

Spec == Init /\ [][Next]_vars /\ Fairness

-----------------------------------------------------------------------------
(* Correctness.                                                            *)

\* A new ledger is built and verified before it is published: whatever bears
\* the final name, also after a crash or a power loss, is a complete database.
PublishedIsVerified ==
    entry["dest"] # NoFile => content[entry["dest"]] = "verified"

\* A ledger somebody relies on keeps its name, and would keep it through a
\* power loss: no later initialization takes it for residue.
ReliedIsDurable ==
    relied # NoFile => \A d \in durable : d["dest"] = relied

\* What a process has still to do: the calls of its plan; before a decision,
\* more than any plan that can follow it has.
CallsLeft(p) ==
    LET plan == process[p].plan IN
    IF plan = <<>> THEN 0
    ELSE IF Head(plan)[1] = "verify" THEN 16
    ELSE IF Head(plan)[1] \in {"prepare", "reconcile"} THEN 15
    ELSE Len(plan)

\* Whatever earlier attempts left behind, an initialization that meets no
\* fault of its own is never refused and never goes back: each of its steps
\* brings it nearer to the end, and it ends with its ledger published and
\* relied upon, and no residue.  Going back after a fault comes to an end too.
InitializationAdvances ==
    [][\A p \in Initializers : Step(p) =>
          IF process'[p] # Idle
          THEN /\ CallsLeft(p)' < CallsLeft(p)
               /\ process'[p].phase = "cleaning" <=> process[p].phase = "cleaning"
          ELSE process[p].phase # "cleaning" =>
                   /\ entry'["dest"] # NoFile /\ entry'["stage"] = NoFile
                   /\ relied' = entry'["dest"]]_vars

\* Whatever faults happened, repeating the command ends with a published
\* ledger and without residue, for good.
InitializationRecovers ==
    <>[](/\ entry["dest"] # NoFile /\ entry["stage"] = NoFile
         /\ relied = entry["dest"])

=============================================================================
