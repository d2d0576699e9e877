--------------------------- MODULE GeneratedViews ---------------------------
(***************************************************************************)
(* The generated Markdown files (files/views.py, interfaces/work_views.py).*)
(* A command refreshes the views of what it changed after its commit, from *)
(* a snapshot of its own, file by file, and without any lock: another      *)
(* command may commit, and refresh the same views, at any point of it.     *)
(* Nothing reads a view back, so all that can be wrong is what it shows;   *)
(* `pinboard views rebuild` writes every view.                             *)
(*                                                                         *)
(* A view is the project revision its header names.  There is one item     *)
(* with one attempt.  The history view is left out: whoever writes the     *)
(* queue's writes it as well.                                              *)
(***************************************************************************)
EXTENDS Naturals, Sequences

CONSTANTS
    Writers,        \* processes that run commands that commit
    Repairers,      \* processes that run `pinboard views rebuild`
    Nobody,         \* no transaction is open
    MaxRevision,    \* bound of the model on the project revision
    MaxFaults       \* bound of the model on failures and deaths

Views == {"queue", "current", "item", "attempt"}

VARIABLES
    revision,       \* project_meta.revision
    writer,         \* whose write transaction is open
    view,           \* revision each view shows; 0 before it exists
    due,            \* history: last revision whose command was to write the view
    excused,        \* history: views with a warning, or written over by an older one
    command,        \* what each process is doing
    faults

vars == <<revision, writer, view, due, excused, command, faults>>

Processes == Writers \cup Repairers
Idle == [step |-> "idle"]

Init ==
    /\ revision = 1
    /\ writer = Nobody
    /\ view = [v \in Views |-> 1]
    /\ due = view
    /\ excused = {}
    /\ command = [c \in Processes |-> Idle]
    /\ faults = 0

-----------------------------------------------------------------------------
(* What is written, in this order.  Which views a command refreshes is     *)
(* settled by its kind: a transition on an attempt; a transition on an item *)
(* or a change of its preparation claim; a change of coordination or of an *)
(* attempt lease; a new proposal.  A transition under borrowed             *)
(* coordination and the publication of a brief rebuild.                    *)

\* Fault: a rebuild leaves the attempts out.
OrderWithoutAttempts(kind) ==
    CASE kind \in {"onAttempt", "rebuild"} -> <<"queue", "current", "item">>
      [] kind = "onItem" -> <<"queue", "current", "item">>
      [] kind = "authority" -> <<"queue", "current">>
      [] kind = "proposal" -> <<"queue", "item">>

Order(kind) ==
    CASE kind \in {"onAttempt", "rebuild"} ->
             <<"queue", "current", "item", "attempt">>
      [] kind = "onItem" -> <<"queue", "current", "item">>
      [] kind = "authority" -> <<"queue", "current">>
      [] kind = "proposal" -> <<"queue", "item">>

Kinds == {"onAttempt", "onItem", "authority", "proposal", "rebuild"}

ToWrite(kind) == {Order(kind)[n] : n \in DOMAIN Order(kind)}

Set(c, record) == command' = [command EXCEPT ![c] = record]

-----------------------------------------------------------------------------

\* BEGIN IMMEDIATE.
BeginWrite(c, kind) ==
    /\ command[c] = Idle /\ writer = Nobody
    /\ revision < MaxRevision
    /\ writer' = c
    /\ Set(c, [step |-> "deciding", kind |-> kind])
    /\ UNCHANGED <<revision, view, due, excused, faults>>

\* Fault: the views are derived from the state the transaction decided on.
CommitWriteKeepingState(c) ==
    /\ command[c].step = "deciding"
    /\ writer' = Nobody
    /\ revision' = revision + 1
    /\ due' = [v \in Views |-> IF v \in ToWrite(command[c].kind) THEN revision' ELSE due[v]]
    /\ Set(c, [step |-> "writing", snapshot |-> revision, todo |-> Order(command[c].kind)])
    /\ UNCHANGED <<view, excused, faults>>

CommitWrite(c) ==
    /\ command[c].step = "deciding"
    /\ writer' = Nobody
    /\ revision' = revision + 1
    /\ due' = [v \in Views |-> IF v \in ToWrite(command[c].kind) THEN revision' ELSE due[v]]
    /\ Set(c, [step |-> "committed", kind |-> command[c].kind])
    /\ UNCHANGED <<view, excused, faults>>

\* A decision that is refused; no view is touched.
Refuse(c) ==
    /\ command[c].step = "deciding"
    /\ writer' = Nobody
    /\ Set(c, Idle)
    /\ UNCHANGED <<revision, view, due, excused, faults>>

StartRebuild(c) ==
    /\ command[c] = Idle
    /\ Set(c, [step |-> "committed", kind |-> "rebuild"])
    /\ UNCHANGED <<revision, writer, view, due, excused, faults>>

\* work_views.refresh and rebuild: one snapshot, later than the commit.
TakeSnapshot(c) ==
    /\ command[c].step = "committed"
    /\ Set(c, [step |-> "writing", snapshot |-> revision, todo |-> Order(command[c].kind)])
    /\ UNCHANGED <<revision, writer, view, due, excused, faults>>

\* atomic_replace: the view is the old one or the new one, never a part.  A
\* view written over by an older one stays wrong until the next that writes it.
WriteView(c) ==
    LET v == Head(command[c].todo)
        shown == command[c].snapshot
        rest == Tail(command[c].todo) IN
    /\ command[c].step = "writing"
    /\ view' = [view EXCEPT ![v] = shown]
    /\ excused' = IF shown >= due[v] THEN excused \ {v}
                  ELSE IF shown < view[v] THEN excused \cup {v} ELSE excused
    /\ Set(c, IF rest = <<>> THEN Idle ELSE [command[c] EXCEPT !.todo = rest])
    /\ UNCHANGED <<revision, writer, due, faults>>

\* Views the process was to write and has not.
Left(c) ==
    CASE command[c].step = "committed" -> ToWrite(command[c].kind)
      [] command[c].step = "writing" ->
             {command[c].todo[n] : n \in DOMAIN command[c].todo}
      [] OTHER -> {}

\* A brief that cannot be read, or a file that cannot be written, ends the
\* refresh with a warning that names the repair; or the process dies, and an
\* open transaction with it.
FailOrDie(c) ==
    /\ faults < MaxFaults /\ faults' = faults + 1
    /\ command[c] # Idle
    /\ excused' = excused \cup Left(c)
    /\ writer' = IF writer = c THEN Nobody ELSE writer
    /\ Set(c, Idle)
    /\ UNCHANGED <<revision, view, due>>

Step(c) == CommitWrite(c) \/ Refuse(c) \/ TakeSnapshot(c) \/ WriteView(c)

Next ==
    \/ \E c \in Writers, kind \in Kinds : BeginWrite(c, kind)
    \/ \E c \in Repairers : StartRebuild(c)
    \/ \E c \in Processes : Step(c) \/ FailOrDie(c)

\* A running command goes on, and somebody repairs again and again.
Fairness ==
    /\ \A c \in Processes : WF_vars(Step(c))
    /\ \A c \in Repairers : WF_vars(StartRebuild(c))

Spec == Init /\ [][Next]_vars /\ Fairness

-----------------------------------------------------------------------------
(* Correctness.                                                            *)

\* When nothing is running, a view that lacks something a command announced is
\* one that was warned of, that a dead process left, or that a slower refresh
\* wrote over: no refresh is lost silently.
StaleHasACause ==
    (\A c \in Processes : command[c] = Idle) =>
        \A v \in Views \ excused : view[v] >= due[v]

\* Repeating `views rebuild` brings every view up to date for good once the
\* commits cease, whatever refreshes were left, overtaken or interrupted.
RepairConverges == <>[](\A v \in Views : view[v] = revision)

=============================================================================
