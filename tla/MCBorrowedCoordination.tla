----------------------- MODULE MCBorrowedCoordination -----------------------
(* Two tasks that borrow coordination while both may also act on the lease *)
(* directly; and, in behaviours of their own, the same two presenting      *)
(* receipts of actions.  `part` says which of the two a behaviour is.      *)
EXTENDS BorrowedCoordination, TLC

CONSTANTS Items, MaxRevision, MaxReceipts

VARIABLES part, project, stage, stale, subject, touched, grant, coordination,
          held, command, runs

Receipts == INSTANCE ActionReceipts WITH
    Commands <- Tasks, lease <- coordination, receipts <- held

receiptVars == <<project, stage, stale, subject, touched, grant, coordination,
                 held, command, runs>>

CommandsInit ==
    /\ part \in {"borrowed", "receipts"}
    /\ BorrowInit /\ Receipts!Init
    /\ part = "borrowed" => \A i \in Items : stage[i] = "ready"

InBorrowed == part = "borrowed" /\ UNCHANGED <<part, receiptVars>>
InReceipts == part = "receipts" /\ UNCHANGED <<part, borrowVars>>

CommandsNext ==
    \/ BorrowNext /\ InBorrowed
    \/ Receipts!Next /\ InReceipts

CommandsSpec ==
    CommandsInit /\ [][CommandsNext]_<<part, borrowVars, receiptVars>>

\* The properties of ActionReceipts, by their names.
ExecutedOnce == Receipts!ExecutedOnce
NothingUnseenIsChanged == Receipts!NothingUnseenIsChanged
OthersDoNotRefuse == Receipts!OthersDoNotRefuse

SameTasks == Permutations(Tasks)

=============================================================================
