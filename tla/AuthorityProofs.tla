--------------------------- MODULE AuthorityProofs ---------------------------
(***************************************************************************)
(* What the writers of the three authority tables keep, for any number of  *)
(* commands, any durations and any bounds: TablesAgree is inductive over   *)
(* every change the program makes to them, and every change is a step of   *)
(* FencedGrant or a stutter.  The modules that add the subject cite these. *)
(***************************************************************************)
EXTENDS AuthorityTables, TLAPS

CommandType ==
    [Commands -> [kind : Kinds, now : Nat, duration : Nat, seen : Token]]

\* The three ways a transaction changes the tables: a grant to a new holder,
\* an extension of the lease in force, and the end of the retained lease.
GrantNew ==
    \E holder \in Commands, expires \in Nat :
        WriteAuthority(holder, counter + 1, expires, "active")

Extend ==
    /\ row.status = "active"
    /\ \E expires \in Nat :
          WriteAuthority(Retained.holder, row.generation, expires, "active")

EndRetained ==
    /\ row.status # "none"
    /\ \E expires \in Nat, status \in {"released", "revoked"} :
          WriteAuthority(Retained.holder, counter + 1, expires, status)

TableStep ==
    /\ command' \in CommandType
    /\ \/ clock' \in Nat /\ UNCHANGED tables
       \/ GrantNew
       \/ Extend
       \/ EndRetained

\* An empty database agrees with itself.
LEMMA InitAgrees == InitTables => TablesAgree
  BY HoldersAssumption, LimitsAssumption
     DEF InitTables, TablesAgree, TablesTypeOK, NoRow, NoToken, Idle, Token,
         Kinds, Statuses

\* A retained row has a holder.
LEMMA RetainedHolder ==
    ASSUME TablesAgree, row.status # "none"
    PROVE  /\ Retained.holder \in Commands
           /\ Retained.holder = anchors[counter]
           /\ counter \in 1..MaxGeneration
<1>1. counter \in 1..MaxGeneration
  BY LimitsAssumption DEF TablesAgree, TablesTypeOK
<1>2. anchors[counter] \in Commands
  BY <1>1 DEF TablesAgree, TablesTypeOK
<1> QED
  BY <1>1, <1>2 DEF Retained, TablesAgree, TablesTypeOK

\* A new generation gets one anchor, one row and at most one grant.
LEMMA NewGeneration ==
    ASSUME TablesAgree, NEW holder \in Commands, NEW expires \in Nat,
           NEW status \in {"active", "released", "revoked"},
           WriteAuthority(holder, counter + 1, expires, status),
           command' \in CommandType
    PROVE  TablesAgree'
<1>1. counter \in Nat /\ counter + 1 \in 1..MaxGeneration /\ counter' = counter + 1
  BY DEF WriteAuthority, TablesAgree, TablesTypeOK
<1>2. \A g \in 1..MaxGeneration :
          anchors'[g] = IF g = counter + 1 THEN holder ELSE anchors[g]
  BY <1>1 DEF WriteAuthority, TablesAgree, TablesTypeOK
<1>3. TablesTypeOK'
  BY <1>1 DEF WriteAuthority, TablesAgree, TablesTypeOK, CommandType, Statuses
<1>4. row'.generation = counter' /\ row'.status = status
  BY <1>1 DEF WriteAuthority
<1>5. \A g \in 1..MaxGeneration : anchors'[g] # NoHolder <=> g <= counter'
  BY <1>1, <1>2, HoldersAssumption, LimitsAssumption DEF TablesAgree
<1>6. \A pair \in granted' :
         pair.generation \in 1..counter' /\ anchors'[pair.generation] = pair.holder
  <2> SUFFICES ASSUME NEW pair \in granted'
               PROVE  pair.generation \in 1..counter'
                      /\ anchors'[pair.generation] = pair.holder
    OBVIOUS
  <2>1. CASE pair \in granted
    <3>1. pair.generation \in 1..counter /\ anchors[pair.generation] = pair.holder
      BY <2>1 DEF TablesAgree
    <3>2. pair.generation \in 1..MaxGeneration /\ pair.generation # counter + 1
      BY <3>1, <1>1, LimitsAssumption
    <3> QED
      BY <3>1, <3>2, <1>1, <1>2
  <2>2. CASE pair = [holder |-> holder, generation |-> counter + 1]
    BY <2>2, <1>1, <1>2
  <2> QED
    BY <2>1, <2>2 DEF WriteAuthority
<1>7. row'.status = "active" =>
         [holder |-> anchors'[counter'], generation |-> counter'] \in granted'
  BY <1>1, <1>2, <1>4 DEF WriteAuthority
<1> QED
  BY <1>1, <1>3, <1>4, <1>5, <1>6, <1>7 DEF TablesAgree

\* An extension moves nothing but the expiry.
LEMMA ExtendKeeps ==
    ASSUME TablesAgree, Extend
    PROVE  /\ counter' = counter /\ anchors' = anchors /\ granted' = granted
           /\ row'.generation = row.generation /\ row'.status = "active"
           /\ row' \in [generation : Nat, expires : Nat, status : Statuses]
           /\ clock' = clock
<1>1. PICK expires \in Nat :
         WriteAuthority(Retained.holder, row.generation, expires, "active")
  BY DEF Extend
<1>2. row.status = "active" /\ row.generation = counter
  BY DEF Extend, TablesAgree
<1>3. Retained.holder = anchors[counter] /\ counter \in 1..MaxGeneration
  BY <1>2, RetainedHolder
<1>4. anchors' = anchors
  BY <1>1, <1>2, <1>3 DEF WriteAuthority, TablesAgree, TablesTypeOK
<1>5. granted' = granted
  BY <1>1, <1>2, <1>3 DEF WriteAuthority, TablesAgree
<1> QED
  BY <1>1, <1>2, <1>4, <1>5
     DEF WriteAuthority, TablesAgree, TablesTypeOK, Statuses

\* Every change the program makes to the tables keeps them in agreement.
LEMMA StepAgrees == TablesAgree /\ TableStep => TablesAgree'
<1> SUFFICES ASSUME TablesAgree, TableStep PROVE TablesAgree'
  OBVIOUS
<1>1. CASE clock' \in Nat /\ UNCHANGED tables
  BY <1>1 DEF TableStep, tables, TablesAgree, TablesTypeOK, CommandType
<1>2. CASE GrantNew
  BY <1>2, NewGeneration DEF GrantNew, TableStep
<1>3. CASE Extend
  BY <1>3, ExtendKeeps
     DEF TableStep, TablesAgree, TablesTypeOK, CommandType, Extend
<1>4. CASE EndRetained
  BY <1>4, RetainedHolder, NewGeneration DEF EndRetained, TableStep
<1> QED
  BY <1>1, <1>2, <1>3, <1>4 DEF TableStep

-----------------------------------------------------------------------------
(* The promise of FencedGrant.                                             *)

\* The initial tables grant nothing.
LEMMA InitGrants == InitTables => Grant!Init
  BY DEF InitTables, Grant!Init, InForce, NoRow

\* A pair of the next generation was never in force, an extension keeps the
\* pair, and an end retires it.
LEMMA StepGrants ==
    TablesAgree /\ TableStep => [Grant!Next]_<<InForce, granted \ {InForce}>>
<1> SUFFICES ASSUME TablesAgree, TableStep
             PROVE  [Grant!Next]_<<InForce, granted \ {InForce}>>
  OBVIOUS
<1>a. NoGrant \notin granted
  BY NoGrantAssumption DEF TablesAgree, TablesTypeOK
<1>b. InForce \in granted \cup {NoGrant}
  BY DEF TablesAgree, InForce
<1>issue. ASSUME InForce' \notin granted \cup {NoGrant},
                 granted' = granted \cup {InForce'}
          PROVE  Grant!Issue
  BY <1>issue, <1>a, <1>b, Zenon DEF Grant!Issue, Grant!Retire
<1>end. ASSUME InForce' = NoGrant, granted' = granted
        PROVE  [Grant!Next]_<<InForce, granted \ {InForce}>>
  <2>1. CASE InForce = NoGrant
    BY <2>1, <1>end
  <2>2. CASE InForce # NoGrant
    <3>1. Grant!End
      BY <2>2, <1>end, <1>a, <1>b, Zenon DEF Grant!End, Grant!Retire
    <3> QED
      BY <3>1 DEF Grant!Next
  <2> QED
    BY <2>1, <2>2
<1>1. CASE UNCHANGED tables
  BY <1>1 DEF tables, InForce
<1>2. CASE GrantNew
  <2>1. PICK holder \in Commands, expires \in Nat :
           WriteAuthority(holder, counter + 1, expires, "active")
    BY <1>2 DEF GrantNew
  <2>2. counter \in Nat /\ counter + 1 \in 1..MaxGeneration
    BY <2>1 DEF WriteAuthority, TablesAgree, TablesTypeOK
  <2>3. /\ InForce' = [holder |-> holder, generation |-> counter + 1]
        /\ granted' = granted \cup {InForce'}
    BY <2>1, <2>2 DEF WriteAuthority, InForce, TablesAgree, TablesTypeOK
  <2>4. InForce' \notin granted \cup {NoGrant}
    BY <2>2, <2>3, NoGrantAssumption DEF TablesAgree, TablesTypeOK
  <2> QED
    BY <2>3, <2>4, <1>issue DEF Grant!Next
<1>3. CASE Extend
  <2>1. InForce' = InForce /\ granted' = granted
    BY <1>3, ExtendKeeps DEF InForce, Extend
  <2> QED
    BY <2>1
<1>4. CASE EndRetained
  <2>1. InForce' = NoGrant /\ granted' = granted
    BY <1>4 DEF EndRetained, WriteAuthority, InForce
  <2> QED
    BY <2>1, <1>end
<1> QED
  BY <1>1, <1>2, <1>3, <1>4 DEF TableStep

-----------------------------------------------------------------------------
(* Every command is such a step.                                           *)

\* Resolving a change, or giving it up, leaves the tables alone.
LEMMA ResolveSteps ==
    ASSUME TablesAgree, NEW c \in Commands, NEW kind \in Kinds,
           NEW duration \in Nat, NEW seen \in Token,
           Resolve(c, kind, duration, seen)
    PROVE  TableStep
  BY DEF Resolve, TableStep, CommandType, TablesAgree, TablesTypeOK, tables

\* What a command can have seen is a token.
LEMMA SeenTokens ==
    ASSUME TablesAgree
    PROVE  /\ NoToken \in Token /\ AsInactive \in Token /\ Retained \in Token
           /\ \A pair \in Shown :
                 /\ TokenFor(pair) \in Token
                 /\ [TokenFor(pair) EXCEPT !.expires = 0] \in Token
<1>1. Retained.holder \in Commands \cup {NoHolder}
  BY LimitsAssumption DEF Retained, TablesAgree, TablesTypeOK
<1>2. Retained \in Token
  BY <1>1 DEF Retained, Token, TablesAgree, TablesTypeOK
<1>3. AsInactive \in Token
  BY <1>2 DEF AsInactive, Token, Statuses, TablesAgree, TablesTypeOK
<1>4. ASSUME NEW pair \in Shown
      PROVE  /\ TokenFor(pair) \in Token
             /\ [TokenFor(pair) EXCEPT !.expires = 0] \in Token
  <2>1. PICK g \in 1..counter :
            pair = [holder |-> anchors[g], generation |-> g]
    BY <1>4 DEF Shown
  <2>2. pair.holder \in Commands \cup {NoHolder} /\ pair.generation \in Nat
    BY <2>1, LimitsAssumption DEF TablesAgree, TablesTypeOK
  <2> QED
    BY <2>2 DEF TokenFor, Token, Statuses, TablesAgree, TablesTypeOK
<1> QED
  BY <1>2, <1>3, <1>4 DEF NoToken, Token, Statuses

\* Each request a command can resolve.
LEMMA RequestSteps ==
    ASSUME TablesAgree, NEW c \in Commands
    PROVE  /\ \A duration \in Durations :
                 /\ ResolveInitial(c, duration) => TableStep
                 /\ ResolveTransfer(c, duration) => TableStep
                 /\ \A pair \in Shown : ResolveRenew(c, duration, pair) => TableStep
           /\ \A pair \in Shown :
                 /\ ResolveRelease(c, pair) => TableStep
                 /\ ResolveRevoke(c, pair) => TableStep
           /\ Abandon(c) => TableStep
<1>1. \A duration \in Durations : duration \in Nat
  BY LengthsAssumption
<1>2. \A duration \in Durations : ResolveInitial(c, duration) => TableStep
  BY <1>1, SeenTokens, ResolveSteps DEF ResolveInitial, Kinds
<1>3. \A duration \in Durations : ResolveTransfer(c, duration) => TableStep
  BY <1>1, SeenTokens, ResolveSteps DEF ResolveTransfer, Kinds
<1>4. \A duration \in Durations, pair \in Shown :
         ResolveRenew(c, duration, pair) => TableStep
  BY <1>1, SeenTokens, ResolveSteps DEF ResolveRenew, Kinds
<1>5. \A pair \in Shown : ResolveRelease(c, pair) => TableStep
  BY SeenTokens, ResolveSteps DEF ResolveRelease, Kinds
<1>6. \A pair \in Shown : ResolveRevoke(c, pair) => TableStep
  BY SeenTokens, ResolveSteps DEF ResolveRevoke, Kinds
<1>7. Abandon(c) => TableStep
  BY SeenTokens
     DEF Abandon, Idle, Kinds, TableStep, CommandType, TablesAgree,
         TablesTypeOK, tables
<1> QED
  BY <1>2, <1>3, <1>4, <1>5, <1>6, <1>7

\* A finished command leaves a free process behind.
LEMMA RequestedIdle ==
    ASSUME TablesAgree, NEW c \in Commands, NEW kind, Requested(c, kind)
    PROVE  /\ command' \in CommandType
           /\ command[c].now \in Nat
           /\ command[c].duration \in Nat
           /\ command[c].now + command[c].duration \in Nat
  BY SeenTokens
     DEF Requested, Idle, Kinds, CommandType, TablesAgree, TablesTypeOK

\* Each change a command can commit.
LEMMA CommitSteps ==
    ASSUME TablesAgree, NEW c \in Commands
    PROVE  /\ CommitInitial(c) => TableStep
           /\ CommitTransfer(c) => TableStep
           /\ CommitRenew(c) => TableStep
           /\ CommitRelease(c) => TableStep
           /\ CommitRevoke(c) => TableStep
<1>1. CommitInitial(c) => TableStep
  BY RequestedIdle DEF CommitInitial, TableStep, GrantNew
<1>2. CommitTransfer(c) => TableStep
  BY RequestedIdle DEF CommitTransfer, TableStep, GrantNew
<1>3. CommitRenew(c) => TableStep
  BY RequestedIdle DEF CommitRenew, TableStep, Extend, LiveAt
<1>4. CommitRelease(c) => TableStep
  BY RequestedIdle DEF CommitRelease, TableStep, EndRetained, LiveAt
<1>5. CommitRevoke(c) => TableStep
  BY RequestedIdle DEF CommitRevoke, TableStep, EndRetained
<1> QED
  BY <1>1, <1>2, <1>3, <1>4, <1>5

\* A lifecycle decision that fences a retained lease, at any time.
LEMMA FenceSteps ==
    ASSUME TablesAgree, NEW now \in Nat, row.status # "none", Fence(now),
           command' \in CommandType
    PROVE  TableStep
  BY DEF Fence, TableStep, EndRetained

=============================================================================
