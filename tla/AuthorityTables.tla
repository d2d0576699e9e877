--------------------------- MODULE AuthorityTables ---------------------------
(***************************************************************************)
(* What attempt leases and preparation claims have in common: three tables *)
(* and the commands that change them.  For one subject (an attempt, or an  *)
(* item) there is a counter of generations, an anchor that names the       *)
(* holder of every generation, and one row with the current generation,    *)
(* its expiry and its status.  The row does not name its holder; the       *)
(* anchor of its generation does.                                          *)
(*                                                                         *)
(* A command takes a snapshot, samples a time, resolves what its user      *)
(* typed into one requested change, and only later decides and commits it  *)
(* against a state reread under the lock.  Between the two anything may    *)
(* happen, and the process may end.                                        *)
(*                                                                         *)
(* Every acquisition mints an identity for its lease; here it is the name  *)
(* of the command, which the next command in its place uses again.  That   *)
(* is weaker than the program, and nothing below needs more: the           *)
(* generation alone fences.                                                *)
(***************************************************************************)
EXTENDS Naturals

CONSTANTS
    Commands,       \* command processes, and the identities they mint
    NoHolder,       \* no anchor
    Durations,      \* requested lengths of a lease
    Horizon,        \* bound of the model: the clock stops here
    MaxGeneration,  \* bound of the model: generations of the subject
    NoGrant         \* no lease is in force

ASSUME HoldersAssumption == NoHolder \notin Commands
ASSUME LengthsAssumption == Durations \subseteq Nat \ {0}
ASSUME LimitsAssumption == Horizon \in Nat /\ MaxGeneration \in Nat
ASSUME NoGrantAssumption == NoGrant \notin [holder : Commands, generation : Nat]

VARIABLES
    clock,      \* the real time
    counter,    \* generation_high_water, 0 when the row is missing
    anchors,    \* holder of each generation
    row,        \* the current lease; status "none" when there is no row
    command,    \* what each command process has resolved and not committed
    granted     \* history: every (holder, generation) that was ever in force

tables == <<counter, anchors, row, granted>>

NoRow == [generation |-> 0, expires |-> 0, status |-> "none"]
NoToken == [holder |-> NoHolder, generation |-> 0, expires |-> 0,
            status |-> "none"]
Idle == [kind |-> "idle", now |-> 0, duration |-> 0, seen |-> NoToken]

InitTables ==
    /\ clock = 0
    /\ counter = 0
    /\ anchors = [g \in 1..MaxGeneration |-> NoHolder]
    /\ row = NoRow
    /\ command = [c \in Commands |-> Idle]
    /\ granted = {}

-----------------------------------------------------------------------------
(* Reading.                                                                *)

\* The lease joined with the anchor of its generation.
Retained ==
    [holder |-> IF counter = 0 THEN NoHolder ELSE anchors[row.generation],
     generation |-> row.generation, expires |-> row.expires,
     status |-> row.status]

LiveAt(now) == row.status = "active" /\ row.expires > now

\* A lease that ended, as an inactive authority: an active row is expired.
AsInactive == [Retained EXCEPT !.status =
                  IF row.status = "active" THEN "expired" ELSE row.status]

\* Every pair a task was ever shown; ended generations are shown too.
Shown == {[holder |-> anchors[g], generation |-> g] : g \in 1..counter}

-----------------------------------------------------------------------------
(* Resolving a requested change from a snapshot and a sampled time.        *)

Resolve(c, kind, duration, seen) ==
    /\ command[c] = Idle
    /\ command' = [command EXCEPT ![c] =
           [kind |-> kind, now |-> clock, duration |-> duration, seen |-> seen]]
    /\ UNCHANGED <<clock, tables>>

\* The user names the pair; the expiry comes from the row.
TokenFor(pair) ==
    [holder |-> pair.holder, generation |-> pair.generation,
     expires |-> row.expires, status |-> "active"]

ResolveInitial(c, duration) ==
    Resolve(c, "initial", duration, NoToken)

ResolveTransfer(c, duration) ==
    /\ row.status # "none" /\ ~LiveAt(clock)
    /\ Resolve(c, "transfer", duration, AsInactive)

ResolveRenew(c, duration, pair) ==
    /\ LiveAt(clock)
    /\ Resolve(c, "renew", duration, TokenFor(pair))

ResolveRelease(c, pair) ==
    /\ LiveAt(clock)
    /\ Resolve(c, "release", 0, TokenFor(pair))

ResolveRevoke(c, pair) ==
    Resolve(c, "revoke", 0, [TokenFor(pair) EXCEPT !.expires = 0])

-----------------------------------------------------------------------------
(* The three statements of a committed change, and the commands.           *)

\* Fault: ending a lease leaves the counter where it was.
WriteWithoutCounter(holder, generation, expires, status) ==
    /\ generation \in 1..MaxGeneration
    /\ counter' = IF status = "active" THEN generation ELSE counter
    /\ anchors' = [anchors EXCEPT ![generation] = holder]
    /\ row' = [generation |-> generation, expires |-> expires,
               status |-> status]
    /\ granted' = IF status = "active"
                  THEN granted \cup {[holder |-> holder,
                                      generation |-> generation]}
                  ELSE granted
    /\ UNCHANGED clock

\* Fault: only taking over an active lease counts a generation.
WriteOverActive(holder, generation, expires, status) ==
    LET counted == IF counter = 0 \/ (status = "active" /\ row.status = "active")
                   THEN generation ELSE counter IN
    /\ counted \in 1..MaxGeneration
    /\ anchors[counted] \in {NoHolder, holder}
    /\ counter' = counted
    /\ anchors' = [anchors EXCEPT ![counted] = holder]
    /\ row' = [generation |-> counted, expires |-> expires, status |-> status]
    /\ granted' = IF status = "active"
                  THEN granted \cup {[holder |-> holder,
                                      generation |-> counted]}
                  ELSE granted
    /\ UNCHANGED clock

\* Counter, anchor (an existing one must agree), and row.
WriteAuthority(holder, generation, expires, status) ==
    /\ generation \in 1..MaxGeneration
    /\ anchors[generation] \in {NoHolder, holder}
    /\ counter' = generation
    /\ anchors' = [anchors EXCEPT ![generation] = holder]
    /\ row' = [generation |-> generation, expires |-> expires,
               status |-> status]
    /\ granted' = IF status = "active"
                  THEN granted \cup {[holder |-> holder,
                                      generation |-> generation]}
                  ELSE granted
    /\ UNCHANGED clock

Requested(c, kind) ==
    /\ command[c].kind = kind
    /\ command' = [command EXCEPT ![c] = Idle]

CommitInitial(c) ==
    /\ Requested(c, "initial")
    /\ counter = 0 /\ row.status = "none"
    /\ WriteAuthority(c, 1, command[c].now + command[c].duration, "active")

CommitTransfer(c) ==
    /\ Requested(c, "transfer")
    /\ row.status # "none" /\ ~LiveAt(command[c].now)
    /\ AsInactive = command[c].seen
    /\ WriteAuthority(c, counter + 1,
                      command[c].now + command[c].duration, "active")

\* Renewal keeps holder and generation and must extend the expiry.
CommitRenew(c) ==
    /\ Requested(c, "renew")
    /\ LiveAt(command[c].now)
    /\ Retained = command[c].seen
    /\ command[c].now + command[c].duration > row.expires
    /\ WriteAuthority(Retained.holder, row.generation,
                      command[c].now + command[c].duration, "active")

\* Release and revocation advance the generation under the same holder.
CommitRelease(c) ==
    /\ Requested(c, "release")
    /\ LiveAt(command[c].now)
    /\ Retained = command[c].seen
    /\ WriteAuthority(Retained.holder, counter + 1, command[c].now, "released")

\* Fault: revocation finds the lease by its holder only.
CommitRevokeHolder(c) ==
    /\ Requested(c, "revoke")
    /\ row.status # "none"
    /\ Retained.holder = command[c].seen.holder
    /\ WriteAuthority(Retained.holder, counter + 1, command[c].now, "revoked")

\* A coordinator revokes whatever is retained under the pair it names.
CommitRevoke(c) ==
    /\ Requested(c, "revoke")
    /\ row.status # "none"
    /\ Retained.holder = command[c].seen.holder
    /\ row.generation = command[c].seen.generation
    /\ WriteAuthority(Retained.holder, counter + 1, command[c].now, "revoked")

\* A decision of the lifecycle ends the lease at the time `now`, with the
\* item or attempt it belongs to, in that decision's own transaction.
Fence(now) == WriteAuthority(Retained.holder, counter + 1, now, "revoked")

\* The command is refused, or its process ends.
Abandon(c) ==
    /\ command[c] # Idle
    /\ command' = [command EXCEPT ![c] = Idle]
    /\ UNCHANGED <<clock, tables>>

Tick ==
    /\ clock < Horizon
    /\ clock' = clock + 1
    /\ UNCHANGED <<tables, command>>

-----------------------------------------------------------------------------
(* Properties.                                                             *)

Statuses == {"none", "active", "released", "revoked"}
Kinds == {"idle", "initial", "transfer", "renew", "release", "revoke",
          "activate"}
Token ==
    [holder : Commands \cup {NoHolder}, generation : Nat, expires : Nat,
     status : Statuses \cup {"expired"}]

\* Every column holds a value of its domain.
TablesTypeOK ==
    /\ clock \in Nat
    /\ counter \in Nat
    /\ anchors \in [1..MaxGeneration -> Commands \cup {NoHolder}]
    /\ row \in [generation : Nat, expires : Nat, status : Statuses]
    /\ command \in [Commands -> [kind : Kinds, now : Nat,
                                 duration : Nat, seen : Token]]
    /\ granted \subseteq [holder : Commands, generation : Nat]

\* validate_attempt_authority: the row is at the counter, and no anchor is
\* beyond it.  Stronger, as the writers keep it: each generation up to the
\* counter has one anchor, and what was granted is what an anchor says.
TablesAgree ==
    /\ TablesTypeOK
    /\ row.generation = counter
    /\ counter = 0 <=> row.status = "none"
    /\ counter <= MaxGeneration
    /\ \A g \in 1..MaxGeneration : anchors[g] # NoHolder <=> g <= counter
    /\ \A pair \in granted :
          /\ pair.generation \in 1..counter
          /\ anchors[pair.generation] = pair.holder
    /\ row.status = "active" =>
          [holder |-> anchors[counter], generation |-> counter] \in granted

\* The pair that authorizes its holder now, expired or not.
InForce ==
    IF row.status = "active"
    THEN [holder |-> anchors[row.generation], generation |-> row.generation]
    ELSE NoGrant

Grant == INSTANCE FencedGrant
         WITH current <- InForce, spent <- granted \ {InForce}

\* The tables keep the promise of FencedGrant: a pair that was released,
\* revoked, fenced, consumed or replaced never authorizes again, whatever
\* commands were resolved while it did.
Fencing == Grant!Spec

=============================================================================
