----------------------------- MODULE HandleProofs -----------------------------
(***************************************************************************)
(* Proofs of the safety properties of module Handle, for any set of        *)
(* handles, keys and owners and any policy whose margin covers the         *)
(* backend's truncation of the TTL.                                        *)
(*                                                                         *)
(* Types come first, then the order of tokens and the leases that outlast  *)
(* local budgets, then the two kinds of steps that take most of the work   *)
(* (returning from a remote call, the backend's steps), then the others    *)
(* and the theorems.                                                       *)
(***************************************************************************)
EXTENDS HandleInvariant, TLAPS

\* The local budget is positive and no longer than what the backend grants.
LEMMA Budgets ==
  /\ Budget \in Nat \ {0} /\ ServerTTL \in Int
  /\ Budget <= ServerTTL
<1>1. TTL % Granularity \in Int
  BY HandleConstants
<1> QED BY <1>1, HandleConstants, MarginCoversTruncation DEF Budget, ServerTTL

\* An instant is not before itself.
LEMMA AtMostItself == \A t \in Int : t <= t
OBVIOUS

\* Before the first call every variable has its type.
LEMMA InitTypeOK == Init => TypeOK
BY HandleConstants
   DEF Init, TypeOK, TableTypeOK, Record, NoLease, Nil, Err, Mutation, Created

\* A request that the backend executes leaves a well-typed lease table.
LEMMA ExecuteType ==
  ASSUME TypeOK, NEW h \in Handles, NEW o, NEW at \in Int, Execute(h, o, at)
  PROVE  TableTypeOK'
<1>k. KeyOf[h] \in Key /\ OwnerOf[h] \in Owner
  BY Zenon, HandleConstants
<1>1. ASSUME NEW n \in (fence[KeyOf[h]] + 1)..MaxToken,
             Grant(at, KeyOf[h], OwnerOf[h], n, ServerTTL)
      PROVE  TableTypeOK'
  BY <1>1, <1>k, Budgets, HandleConstants DEF TypeOK, TableTypeOK, Grant, Record, Token
<1>2. ASSUME NEW f \in fence[KeyOf[h]]..MaxToken, Contend(at, KeyOf[h], f)
      PROVE  TableTypeOK'
  BY <1>2, <1>k, HandleConstants DEF TypeOK, TableTypeOK, Contend
<1>3. ASSUME Extend(at, KeyOf[h], OwnerOf[h], record[h].token, ServerTTL)
      PROVE  TableTypeOK'
  <2>1. lease[KeyOf[h]] \in Record /\ record[h].token = lease[KeyOf[h]].token
    BY Zenon, <1>3, <1>k DEF TypeOK, TableTypeOK, Extend, Usable, Owns
  <2> QED BY <1>3, <1>k, <2>1, Budgets DEF TypeOK, TableTypeOK, Extend, Record
<1>4. ASSUME Vacate(KeyOf[h], OwnerOf[h], record[h].token)
      PROVE  TableTypeOK'
  BY Zenon, <1>4, <1>k DEF TypeOK, TableTypeOK, Vacate
<1>5. ASSUME UNCHANGED tableVars
      PROVE  TableTypeOK'
  BY Zenon, <1>5 DEF TypeOK, TableTypeOK, tableVars
<1> QED BY Zenon, <1>1, <1>2, <1>3, <1>4, <1>5 DEF Execute

\* What the backend answers is well typed.
LEMMA AnswersType ==
  ASSUME TypeOK, TableTypeOK', NEW h \in Handles, NEW o \in Mutation \cup {"validate"},
         NEW at, NEW a \in Answers(h, o, at)
  PROVE  a \in [err : Err, record : Record \cup {NoLease}]
<1>1. KeyOf[h] \in Key /\ lease'[KeyOf[h]] \in Record \cup {NoLease}
  BY Zenon, HandleConstants DEF TableTypeOK
<1> QED BY <1>1 DEF Answers, Err, Mutation

\* The backend's clock reading by which it judges a request: not in the future,
\* and for an acquisition or a renewal not from before it was sent.
LEMMA ServeReading ==
  ASSUME TypeOK, NEW h \in Handles, Serve(h)
  PROVE  \E at \in Int :
           /\ at <= serverClock
           /\ op[h] \in {"acquire", "renew"} => at - serverClock >= wallStarted[h] - now
           /\ Execute(h, op[h], at)
           /\ \E a \in Answers(h, op[h], at) : answer' = [answer EXCEPT ![h] = a]
<1>1. now \in Int /\ serverClock \in Int /\ wallStarted[h] \in Int
  BY DEF TypeOK, TableTypeOK
<1>2. \A at \in ReadingsSince(wallStarted[h]) :
        at \in Int /\ at <= serverClock /\ at - serverClock >= wallStarted[h] - now
  BY <1>1 DEF ReadingsSince
<1>3. serverClock <= serverClock
  BY <1>1
<1>4. CASE op[h] \in {"acquire", "renew"}
  BY Zenon, <1>2, <1>4 DEF Serve
<1>5. CASE op[h] \notin {"acquire", "renew"}
  BY Zenon, <1>1, <1>3, <1>5 DEF Serve
<1> QED BY Zenon, <1>4, <1>5

\* Likewise for a request whose client has returned.
LEMMA LateReading ==
  ASSUME TypeOK, NEW h \in Handles, NEW o, ServeLate(o, h)
  PROVE  \E at \in Int : at <= serverClock /\ Execute(h, o, at)
<1>1. \A at \in ReadingsSince(0) : at \in Int /\ at <= serverClock
  BY DEF TypeOK, TableTypeOK, ReadingsSince
<1> QED BY Zenon, <1>1 DEF ServeLate

\* The parts of TypeOK about Handle objects and about calls.
ObjectTypeOK ==
  /\ state \in [Handles -> Created \cup {"new", "failed"}]
  /\ record \in [Handles -> Record \cup {NoLease}]
  /\ deadline \in [Handles -> Int] /\ wallDeadline \in [Handles -> Int]

CallTypeOK ==
  /\ op \in [Handles -> Mutation \cup {"none", "validate"}]
  /\ stage \in [Handles -> {"idle", "begun", "sent", "answered"}]
  /\ started \in [Handles -> Int] /\ wallStarted \in [Handles -> Int]
  /\ answer \in [Handles -> [err : Err, record : Record \cup {NoLease}]]

\* A call that returns leaves well-typed locals.
LEMMA ReturnType ==
  ASSUME TypeOK, NEW h \in Handles, Return(h)
  PROVE  CallTypeOK'
BY SMTT(30) DEF TypeOK, Return, CallTypeOK, Nil, Err

\* Every step of handles, backend and clocks preserves the types.
LEMMA NextTypeOK == TypeOK /\ [Next]_vars => TypeOK'
<1> SUFFICES ASSUME TypeOK, [Next]_vars PROVE TypeOK'
  BY Zenon
<1> USE DEF TypeOK
<1>1. ASSUME NEW h \in Handles, TryAcquire(h) PROVE TypeOK'
  BY <1>1 DEF TryAcquire, Mutation, TableTypeOK, tableVars, clockVars, objectVars
<1>2. ASSUME NEW h \in Handles, BeginRenew(h) PROVE TypeOK'
  BY Zenon, <1>2 DEF BeginRenew, Mutation, TableTypeOK, tableVars, clockVars, objectVars
<1>3. ASSUME NEW h \in Handles, SendRenew(h) PROVE TypeOK'
  BY <1>3 DEF SendRenew, TableTypeOK, tableVars, clockVars, objectVars
<1>4. ASSUME NEW h \in Handles, BeginValidate(h) PROVE TypeOK'
  BY Zenon, <1>4 DEF BeginValidate, TableTypeOK, tableVars, clockVars, objectVars
<1>5. ASSUME NEW h \in Handles, BeginRelease(h) PROVE TypeOK'
  BY Zenon, <1>5 DEF BeginRelease, Mutation, TableTypeOK, tableVars, clockVars, objectVars
<1>6. ASSUME NEW h \in Handles, State(h) PROVE TypeOK'
  BY Zenon, <1>6 DEF State, expireLocked, Created, TableTypeOK, tableVars, clockVars, callVars
<1>7. ASSUME NEW h \in Handles, Serve(h) PROVE TypeOK'
  <2>0. PICK at \in Int :
          /\ Execute(h, op[h], at)
          /\ \E a \in Answers(h, op[h], at) : answer' = [answer EXCEPT ![h] = a]
    BY Zenon, <1>7, ServeReading
  <2>1. TableTypeOK'
    BY Zenon, <2>0, ExecuteType
  <2>2. op[h] \in Mutation \cup {"validate"}
    BY Zenon, <2>0 DEF Execute, Mutation
  <2>3. PICK a \in Answers(h, op[h], at) : answer' = [answer EXCEPT ![h] = a]
    BY Zenon, <2>0
  <2>4. a \in [err : Err, record : Record \cup {NoLease}]
    BY Zenon, <2>1, <2>2, AnswersType
  <2> QED BY Zenon, <1>7, <2>1, <2>3, <2>4 DEF Serve, clockVars, objectVars
<1>8. ASSUME NEW h \in Handles, FinishAcquire(h) PROVE TypeOK'
  <2>1. CallTypeOK'
    BY Zenon, <1>8, ReturnType DEF FinishAcquire
  <2>2. answer[h].record \in Record \cup {NoLease}
    BY Zenon
  <2>3. started[h] + Budget \in Int /\ wallStarted[h] + Budget \in Int
    BY Budgets
  <2>4. ObjectTypeOK'
    <3>1. CASE answer[h].err = "nil" /\ validAcquisition(h, answer[h].record)
      BY ZenonT(30), <1>8, <2>2, <2>3, <3>1 DEF FinishAcquire, ObjectTypeOK, Created
    <3>2. CASE ~(answer[h].err = "nil" /\ validAcquisition(h, answer[h].record))
      BY ZenonT(30), <1>8, <3>2 DEF FinishAcquire, ObjectTypeOK
    <3> QED BY Zenon, <3>1, <3>2
  <2> QED BY Zenon, <1>8, <2>1, <2>4
          DEF FinishAcquire, CallTypeOK, ObjectTypeOK, TableTypeOK, tableVars, clockVars
<1>9. ASSUME NEW h \in Handles, finishActiveOperation(h) PROVE TypeOK'
  <2>1. CallTypeOK'
    BY Zenon, <1>9, ReturnType DEF finishActiveOperation
  <2>2. answer[h].record \in Record \cup {NoLease}
    BY Zenon
  <2>3. started[h] + Budget \in Int /\ wallStarted[h] + Budget \in Int
    BY Budgets
  <2>4. ObjectTypeOK'
    BY ZenonT(30), <1>9, <2>2, <2>3
    DEF finishActiveOperation, ObjectTypeOK, expireLocked, failLocked, Created
  <2> QED BY Zenon, <1>9, <2>1, <2>4
          DEF finishActiveOperation, CallTypeOK, ObjectTypeOK, TableTypeOK, tableVars, clockVars
<1>10. ASSUME NEW h \in Handles, FinishRelease(h) PROVE TypeOK'
  BY <1>10
  DEF FinishRelease, failLocked, Return, Nil, Err, Created, TableTypeOK, tableVars, clockVars
<1>11. ASSUME NEW h \in Handles, Abandon(h) PROVE TypeOK'
  BY <1>11
  DEF Abandon, expireLocked, failLocked, Return, Nil, Err, Created, TableTypeOK,
      tableVars, clockVars
<1>12. ASSUME NEW h \in Handles, NEW o \in Mutation, ServeLate(o, h) PROVE TypeOK'
  <2>1. TableTypeOK'
    BY Zenon, <1>12, LateReading, ExecuteType
  <2> QED BY Zenon, <1>12, <2>1 DEF ServeLate, clockVars, objectVars, callVars
<1>13. ASSUME NEW k \in Key, DropExpired(k) PROVE TypeOK'
  BY Zenon, <1>13 DEF DropExpired, Lapse, TableTypeOK, clockVars, objectVars, callVars
<1>14. CASE Tick
  BY <1>14, HandleConstants DEF Tick, TableTypeOK, objectVars, callVars
<1>15. CASE AdjustLocalClock
  BY <1>15, HandleConstants
  DEF AdjustLocalClock, TableTypeOK, tableVars, objectVars, callVars
<1>16. CASE SetBackServerClock
  BY <1>16, HandleConstants
  DEF SetBackServerClock, TableTypeOK, clockVars, objectVars, callVars
<1>17. CASE UNCHANGED vars
  BY Zenon, <1>17 DEF vars, TableTypeOK, tableVars, clockVars, objectVars, callVars
<1> QED BY ZenonT(30), <1>1, <1>2, <1>3, <1>4, <1>5, <1>6, <1>7, <1>8, <1>9, <1>10, <1>11,
           <1>12, <1>13, <1>14, <1>15, <1>16, <1>17 DEF Next

\* The fields of every handle, of the calls in flight and of the lease table
\* keep their types: a handle is created, acquired and finished only with
\* records the backend made.
THEOREM TypeCorrect == Spec => []TypeOK
BY InitTypeOK, NextTypeOK, PTL DEF Spec

\* Clocks are integers.
LEMMA ClockTypes == ASSUME TypeOK PROVE now \in Int /\ serverClock \in Int
BY DEF TypeOK, TableTypeOK

\* Tokens, budgets and records have the values the arithmetic below needs.
LEMMA ValueTypes ==
  ASSUME TypeOK, NEW h \in Handles
  PROVE  /\ KeyOf[h] \in Key /\ OwnerOf[h] \in Owner
         /\ TokenFor(h) \in Nat /\ record[h].token \in Nat
         /\ fence[KeyOf[h]] \in Nat /\ lease[KeyOf[h]].token \in Nat
         /\ lease[KeyOf[h]] # NoLease => lease[KeyOf[h]].token > 0
         /\ lease[KeyOf[h]].expiresAt \in Int
         /\ wallDeadline[h] \in Int /\ wallStarted[h] \in Int
<1>1. KeyOf[h] \in Key /\ OwnerOf[h] \in Owner
  BY Zenon, HandleConstants
<1>2. \A r \in Record \cup {NoLease} :
        r.token \in Nat /\ r.expiresAt \in Int /\ (r # NoLease => r.token > 0)
  BY DEF Record, NoLease, Token
<1>3. record[h] \in Record \cup {NoLease} /\ answer[h].record \in Record \cup {NoLease}
  BY Zenon DEF TypeOK
<1>4. lease[KeyOf[h]] \in Record \cup {NoLease} /\ fence[KeyOf[h]] \in Nat
  BY Zenon, <1>1 DEF TypeOK, TableTypeOK
<1> QED BY Zenon, <1>1, <1>2, <1>3, <1>4 DEF TypeOK, TokenFor

\* A step that grants nothing keeps the order of the tokens, whichever leases
\* it drops and however far it moves the fence.
LEMMA TokenOrderKept ==
  ASSUME TypeOK, TypeOK', TokenOrder,
         \A k \in Key : fence'[k] >= fence[k],
         \A k \in Key : lease'[k] # NoLease =>
                          lease[k] # NoLease /\ lease'[k].token = lease[k].token,
         \A g \in Handles : TokenFor(g)' = TokenFor(g) \/ TokenFor(g)' = 0
  PROVE  TokenOrder'
<1>1. ASSUME NEW k \in Key PROVE lease'[k].token <= fence'[k]
  <2>1. lease[k].token <= fence[k]
    BY Zenon DEF TokenOrder
  <2>2. fence[k] \in Nat /\ fence'[k] \in Nat
    BY Zenon DEF TypeOK, TableTypeOK
  <2>3. CASE lease'[k] = NoLease
    BY <2>2, <2>3 DEF NoLease
  <2>4. CASE lease'[k] # NoLease
    <3>1. lease[k] \in Record
      BY <2>4 DEF TypeOK, TableTypeOK
    <3> QED BY <2>1, <2>2, <2>4, <3>1 DEF Record, Token
  <2> QED BY Zenon, <2>3, <2>4
<1>2. ASSUME NEW h \in Handles
      PROVE  /\ TokenFor(h)' <= fence'[KeyOf[h]]
             /\ lease'[KeyOf[h]] # NoLease => TokenFor(h)' <= lease'[KeyOf[h]].token
  <2>1. /\ TokenFor(h) <= fence[KeyOf[h]]
        /\ lease[KeyOf[h]] # NoLease => TokenFor(h) <= lease[KeyOf[h]].token
    BY Zenon DEF TokenOrder
  <2>2. KeyOf[h] \in Key /\ fence'[KeyOf[h]] \in Nat /\ fence[KeyOf[h]] \in Nat
    BY HandleConstants DEF TypeOK, TableTypeOK
  <2> QED BY <2>1, <2>2, ValueTypes
<1>3. ASSUME NEW g \in Handles, NEW h \in Handles, g # h, KeyOf[g] = KeyOf[h],
             TokenFor(g)' = TokenFor(h)'
      PROVE  TokenFor(g)' = 0
  BY Zenon, <1>3 DEF TokenOrder
<1> QED BY Zenon, <1>1, <1>2, <1>3 DEF TokenOrder

\* A granted token is above every earlier one of its key, so at most the
\* handle that asked for it may come to have it.
LEMMA TokenOrderGrant ==
  ASSUME TypeOK, TypeOK', TokenOrder, NEW h \in Handles, NEW n \in Nat, NEW at,
         Grant(at, KeyOf[h], OwnerOf[h], n, ServerTTL),
         TokenFor(h)' \in {TokenFor(h), n},
         \A g \in Handles \ {h} : TokenFor(g)' = TokenFor(g)
  PROVE  TokenOrder'
<1>1. KeyOf[h] \in Key /\ n > fence[KeyOf[h]]
  BY Zenon, HandleConstants DEF Grant
<1>2. /\ fence' = [fence EXCEPT ![KeyOf[h]] = n]
      /\ lease'[KeyOf[h]].token = n
      /\ \A k \in Key \ {KeyOf[h]} : lease'[k] = lease[k]
  BY <1>1 DEF Grant, TypeOK, TableTypeOK
<1>3. ASSUME NEW k \in Key PROVE lease'[k].token <= fence'[k]
  BY <1>1, <1>2 DEF TokenOrder, TypeOK, TableTypeOK
<1>4. ASSUME NEW g \in Handles
      PROVE  /\ TokenFor(g)' <= fence'[KeyOf[g]]
             /\ lease'[KeyOf[g]] # NoLease => TokenFor(g)' <= lease'[KeyOf[g]].token
  <2>1. /\ TokenFor(g) <= fence[KeyOf[g]]
        /\ lease[KeyOf[g]] # NoLease => TokenFor(g) <= lease[KeyOf[g]].token
    BY Zenon DEF TokenOrder
  <2>2. TokenFor(g) \in Nat /\ KeyOf[g] \in Key /\ fence[KeyOf[g]] \in Nat
    BY Zenon, ValueTypes
  <2>3. CASE KeyOf[g] = KeyOf[h]
    <3>1. fence'[KeyOf[g]] = n /\ lease'[KeyOf[g]].token = n
      BY Zenon, <1>1, <1>2, <2>3 DEF TypeOK, TableTypeOK
    <3>2. TokenFor(g)' = TokenFor(g) \/ TokenFor(g)' = n
      BY Zenon
    <3> QED BY <1>1, <2>1, <2>2, <2>3, <3>1, <3>2
  <2>4. CASE KeyOf[g] # KeyOf[h]
    <3>1. /\ fence'[KeyOf[g]] = fence[KeyOf[g]] /\ lease'[KeyOf[g]] = lease[KeyOf[g]]
          /\ TokenFor(g)' = TokenFor(g)
      BY Zenon, <1>1, <1>2, <2>2, <2>4 DEF TypeOK, TableTypeOK
    <3> QED BY Zenon, <2>1, <3>1
  <2> QED BY Zenon, <2>3, <2>4
<1>5. ASSUME NEW f \in Handles, NEW g \in Handles, f # g, KeyOf[f] = KeyOf[g],
             TokenFor(f)' = TokenFor(g)'
      PROVE  TokenFor(f)' = 0
  <2>1. /\ TokenFor(f) <= fence[KeyOf[f]] /\ TokenFor(g) <= fence[KeyOf[g]]
        /\ TokenFor(f) = TokenFor(g) => TokenFor(f) = 0
    BY Zenon, <1>5 DEF TokenOrder
  <2>2. TokenFor(f) \in Nat /\ TokenFor(g) \in Nat /\ fence[KeyOf[g]] \in Nat
    BY Zenon, ValueTypes
  <2> QED BY <1>1, <1>5, <2>1, <2>2
<1> QED BY Zenon, <1>3, <1>4, <1>5 DEF TokenOrder

\* A step of the lease table covers the budgets of a handle it does not answer:
\* the lease stays, or it was not usable and there was no budget to cover.
LEMMA CoverKept ==
  ASSUME TypeOK, NEW g \in Handles, BudgetCovered(g),
         UNCHANGED <<now, serverClock>>,
         UNCHANGED <<wallDeadline, record, state>>,
         wallStarted'[g] = wallStarted[g],
         op'[g] = op[g], stage'[g] = stage[g], answer'[g] = answer[g],
         Usable(serverClock, KeyOf[g]) => lease'[KeyOf[g]] = lease[KeyOf[g]]
  PROVE  BudgetCovered(g)'
<1>1. now \in Int /\ wallDeadline[g] \in Int /\ wallStarted[g] + Budget \in Int
  <2>1. now \in Int /\ wallDeadline[g] \in Int /\ wallStarted[g] \in Int
    BY Zenon, ClockTypes, ValueTypes
  <2> QED BY <2>1, Budgets
<1>2. ASSUME NEW t, NEW d \in Int, Outlives(g, t, d), now < d
      PROVE  lease'[KeyOf[g]] = lease[KeyOf[g]]
  <2>1. serverClock \in Int
    BY Zenon, ClockTypes
  <2>2. lease[KeyOf[g]].expiresAt \in Int
    BY Zenon, ValueTypes
  <2>3. lease[KeyOf[g]] # NoLease /\ lease[KeyOf[g]].expiresAt - serverClock >= d - now
    BY Zenon, <1>2 DEF Outlives
  <2>4. serverClock < lease[KeyOf[g]].expiresAt
    <3>1. \A e, c, x, n \in Int : e - c >= x - n /\ n < x => c < e
      OBVIOUS
    <3> QED BY Zenon, <1>1, <1>2, <2>1, <2>2, <2>3, <3>1
  <2> QED BY Zenon, <2>3, <2>4 DEF Usable
<1>3. ASSUME state[g] = "active", now < wallDeadline[g], ~ReleaseExecuted(g)
      PROVE  /\ lease'[KeyOf[g]] = lease[KeyOf[g]]
             /\ Outlives(g, record[g].token, wallDeadline[g])'
  <2>1. Outlives(g, record[g].token, wallDeadline[g])
    BY ZenonT(30), <1>3 DEF BudgetCovered
  <2>2. lease'[KeyOf[g]] = lease[KeyOf[g]]
    BY Zenon, <1>1, <1>2, <1>3, <2>1
  <2> QED BY Zenon, <2>1, <2>2 DEF Outlives, Owns
<1>4. ASSUME RenewalAnswered(g), state[g] = "active", now < wallDeadline[g]
      PROVE  Outlives(g, record[g].token, wallStarted[g] + Budget)'
  <2>1. Outlives(g, record[g].token, wallStarted[g] + Budget)
    BY ZenonT(30), <1>4 DEF BudgetCovered
  <2>2. lease'[KeyOf[g]] = lease[KeyOf[g]]
    BY ZenonT(30), <1>3, <1>4 DEF RenewalAnswered, ReleaseExecuted
  <2>3. wallStarted'[g] + Budget = wallStarted[g] + Budget
    BY Zenon
  <2> QED BY Zenon, <2>1, <2>2, <2>3 DEF Outlives, Owns
<1>5. ASSUME GrantAnswered(g), now < wallStarted[g] + Budget
      PROVE  Outlives(g, answer[g].record.token, wallStarted[g] + Budget)'
  <2>1. Outlives(g, answer[g].record.token, wallStarted[g] + Budget)
    BY Zenon, <1>5 DEF BudgetCovered
  <2>2. lease'[KeyOf[g]] = lease[KeyOf[g]]
    BY Zenon, <1>1, <1>2, <1>5, <2>1
  <2>3. wallStarted'[g] + Budget = wallStarted[g] + Budget
    BY Zenon
  <2> QED BY Zenon, <2>1, <2>2, <2>3 DEF Outlives, Owns
<1> QED BY Zenon, <1>3, <1>4, <1>5
        DEF BudgetCovered, ReleaseExecuted, RenewalAnswered, GrantAnswered

\* The lease table changes at most by what handle h does to its own lease.
ChangesOwn(h) ==
  \A k \in Key : lease'[k] # lease[k] =>
                   /\ k = KeyOf[h] /\ lease[k] # NoLease
                   /\ Owns(k, OwnerOf[h], record[h].token)

\* Tokens stay as they are: a fence may grow, a lease may end or go on.
GrantsNothing ==
  /\ \A k \in Key : fence'[k] >= fence[k]
  /\ \A k \in Key : lease'[k] # NoLease =>
                       lease[k] # NoLease /\ lease'[k].token = lease[k].token

\* A handle's change to its own lease takes nothing from another handle: none of
\* the other's budgets rested on that lease.
LEMMA CoverOthers ==
  ASSUME IInv, NEW h \in Handles, ~GrantAnswered(h),
         ChangesOwn(h), UNCHANGED <<now, serverClock>>,
         UNCHANGED <<wallDeadline, record, state>>,
         NEW g \in Handles, g # h, wallStarted'[g] = wallStarted[g],
         op'[g] = op[g], stage'[g] = stage[g], answer'[g] = answer[g]
  PROVE  BudgetCovered(g)'
<1>0. TypeOK /\ CallFits(g) /\ TokenOrder /\ BudgetCovered(g)
  BY Zenon DEF IInv, CallDiscipline, LeaseOutlivesBudget
<1>1. CASE lease'[KeyOf[g]] = lease[KeyOf[g]]
  BY Zenon, <1>0, <1>1, CoverKept
<1>2. CASE lease'[KeyOf[g]] # lease[KeyOf[g]]
  <2>0. /\ KeyOf[g] = KeyOf[h] /\ lease[KeyOf[h]] # NoLease
        /\ Owns(KeyOf[h], OwnerOf[h], record[h].token)
    BY Zenon, <1>2, HandleConstants DEF ChangesOwn
  <2>1. ASSUME NEW d PROVE ~Outlives(g, TokenFor(g), d)
    <3>1. TokenFor(h) = record[h].token
      BY ZenonT(30) DEF TokenFor
    <3>2. /\ lease[KeyOf[h]].token = record[h].token
          /\ lease[KeyOf[h]].token > 0
      BY Zenon, <1>0, <2>0, ValueTypes DEF Owns
    <3>3. TokenFor(g) = TokenFor(h) => TokenFor(g) = 0
      BY ZenonT(30), <1>0, <2>0 DEF TokenOrder
    <3> QED BY SMTT(30), <2>0, <3>1, <3>2, <3>3 DEF Outlives, Owns
  <2>2. state[g] = "active" => TokenFor(g) = record[g].token
    BY Zenon, <1>0 DEF TokenFor, GrantAnswered, CallFits
  <2>3. GrantAnswered(g) => TokenFor(g) = answer[g].record.token
    BY ZenonT(30) DEF TokenFor
  <2> QED BY Zenon, <1>0, <2>1, <2>2, <2>3
          DEF BudgetCovered, RenewalAnswered, ReleaseExecuted, GrantAnswered
<1> QED BY Zenon, <1>1, <1>2

\* A lease that is usable now was so at any earlier reading of the clock.
LEMMA UsableBefore ==
  ASSUME TypeOK, NEW k \in Key, NEW at \in Int, at <= serverClock, Usable(serverClock, k)
  PROVE  Usable(at, k)
<1>1. lease[k] \in Record /\ serverClock \in Int
  BY Zenon DEF TypeOK, TableTypeOK, Usable
<1>2. lease[k].expiresAt \in Int
  BY Zenon, <1>1 DEF Record
<1> QED BY <1>1, <1>2 DEF Usable

\* A granted acquisition finds no usable lease of the key, hence no budget.
LEMMA CoverGranted ==
  ASSUME IInv, NEW h \in Handles, NEW n, NEW at \in Int, at <= serverClock,
         Grant(at, KeyOf[h], OwnerOf[h], n, ServerTTL), UNCHANGED now,
         UNCHANGED <<wallDeadline, record, state>>,
         NEW g \in Handles, wallStarted'[g] = wallStarted[g],
         op'[g] = op[g], stage'[g] = stage[g], answer'[g] = answer[g]
  PROVE  BudgetCovered(g)'
<1>0. TypeOK /\ BudgetCovered(g)
  BY Zenon DEF IInv, LeaseOutlivesBudget
<1>1. ~Usable(serverClock, KeyOf[h])
  BY Zenon, <1>0, UsableBefore, HandleConstants DEF Grant
<1>2. /\ Usable(serverClock, KeyOf[g]) => lease'[KeyOf[g]] = lease[KeyOf[g]]
      /\ UNCHANGED <<now, serverClock>>
  BY Zenon, <1>0, <1>1, HandleConstants DEF Grant, TypeOK, TableTypeOK
<1> QED BY Zenon, <1>0, <1>2, CoverKept

-------------------------------------------------------------------------------
(* Returning from a remote call, with the backend's answer or without it *)

\* What every return from a remote call has in common: the other handles, the
\* lease table and the clocks are untouched, and the handle has no call left.
Returns(h) ==
  /\ Return(h)
  /\ UNCHANGED <<fence, lease, serverClock, now>>
  /\ \A g \in Handles \ {h} :
       /\ state'[g] = state[g] /\ record'[g] = record[g]
       /\ deadline'[g] = deadline[g] /\ wallDeadline'[g] = wallDeadline[g]
       /\ \A o \in Mutation : <<o, g>> \in late' <=> <<o, g>> \in late

\* A call that returns resets its handle's locals and no other's.
LEMMA ReturnedCall ==
  ASSUME TypeOK, NEW h \in Handles, Return(h)
  PROVE  /\ op'[h] = "none" /\ stage'[h] = "idle" /\ wallStarted'[h] = 0
         /\ \A g \in Handles \ {h} :
              /\ op'[g] = op[g] /\ stage'[g] = stage[g] /\ answer'[g] = answer[g]
              /\ wallStarted'[g] = wallStarted[g]
<1>1. /\ DOMAIN op = Handles /\ DOMAIN stage = Handles
      /\ DOMAIN answer = Handles /\ DOMAIN wallStarted = Handles
  BY Zenon DEF TypeOK
<1> QED BY Zenon, <1>1 DEF Return

\* It is enough to look at the handle that returns.
LEMMA ReturnsInv ==
  ASSUME IInv, TypeOK', NEW h \in Handles, Returns(h),
         CallFits(h)', LateFits(h)',
         record'[h].token = TokenFor(h) \/ record'[h].token = 0,
         wallDeadline'[h] <= now + Budget,
         state'[h] = "active" /\ now < wallDeadline'[h]
           => Outlives(h, record'[h].token, wallDeadline'[h])
  PROVE  IInv'
<1>0. TypeOK /\ CallDiscipline /\ TokenOrder /\ BudgetsStarted /\ LeaseOutlivesBudget
  BY Zenon DEF IInv
<1>h. op'[h] = "none" /\ stage'[h] = "idle" /\ wallStarted'[h] = 0
  BY Zenon, <1>0, ReturnedCall DEF Returns
<1>g. ASSUME NEW g \in Handles \ {h}
      PROVE  /\ op'[g] = op[g] /\ stage'[g] = stage[g] /\ answer'[g] = answer[g]
             /\ wallStarted'[g] = wallStarted[g] /\ wallDeadline'[g] = wallDeadline[g]
             /\ state'[g] = state[g] /\ record'[g] = record[g]
  BY Zenon, <1>0, ReturnedCall DEF Returns
<1>t. UNCHANGED <<fence, lease, serverClock, now>>
  BY Zenon DEF Returns
<1>1. CallDiscipline'
  <2> SUFFICES ASSUME NEW g \in Handles \ {h} PROVE CallFits(g)' /\ LateFits(g)'
    BY Zenon DEF CallDiscipline
  <2>1. CallFits(g) /\ LateFits(g)
    BY Zenon, <1>0 DEF CallDiscipline
  <2>2. CallFits(g)'
    BY Zenon, <1>g, <2>1 DEF CallFits, GrantAnswered
  <2>3. LateFits(g)'
    BY Zenon, <1>g, <2>1 DEF LateFits, Returns, Mutation
  <2> QED BY Zenon, <2>2, <2>3
<1>2. TokenOrder'
  <2>1. ASSUME NEW g \in Handles PROVE TokenFor(g)' = TokenFor(g) \/ TokenFor(g)' = 0
    BY <1>h, <1>g DEF TokenFor, GrantAnswered
  <2>2. \A k \in Key : fence'[k] >= fence[k]
    BY <1>0, <1>t DEF TypeOK, TableTypeOK
  <2>3. \A k \in Key : lease'[k] # NoLease =>
                         lease[k] # NoLease /\ lease'[k].token = lease[k].token
    BY Zenon, <1>t
  <2> QED BY Zenon, <1>0, <2>1, <2>2, <2>3, TokenOrderKept
<1>3. BudgetsStarted'
  <2> SUFFICES ASSUME NEW g \in Handles
               PROVE  /\ wallStarted'[g] <= now' /\ wallDeadline'[g] <= now' + Budget
                      /\ op'[g] = "renew" /\ stage'[g] # "begun"
                           => wallDeadline'[g] <= wallStarted'[g] + Budget
    BY Zenon DEF BudgetsStarted
  <2>1. now \in Nat
    BY <1>0 DEF TypeOK
  <2>2. /\ wallStarted[g] <= now /\ wallDeadline[g] <= now + Budget
        /\ op[g] = "renew" /\ stage[g] # "begun" => wallDeadline[g] <= wallStarted[g] + Budget
    BY Zenon, <1>0 DEF BudgetsStarted
  <2>3. CASE g = h
    <3>1. 0 <= now
      BY <2>1
    <3> QED BY Zenon, <1>h, <1>t, <2>3, <3>1
  <2>4. CASE g # h
    BY Zenon, <1>g, <1>t, <2>2, <2>4
  <2> QED BY Zenon, <2>3, <2>4
<1>4. LeaseOutlivesBudget'
  <2> SUFFICES ASSUME NEW g \in Handles PROVE BudgetCovered(g)'
    BY Zenon DEF LeaseOutlivesBudget
  <2>1. CASE g = h
    BY Zenon, <1>h, <1>t, <2>1
    DEF BudgetCovered, Outlives, Owns, GrantAnswered, RenewalAnswered
  <2>2. CASE g # h
    <3>1. BudgetCovered(g)
      BY Zenon, <1>0 DEF LeaseOutlivesBudget
    <3> QED BY Zenon, <1>g, <1>t, <2>2, <3>1
            DEF BudgetCovered, Outlives, Owns, GrantAnswered, RenewalAnswered, ReleaseExecuted
  <2> QED BY Zenon, <2>1, <2>2
<1> QED BY Zenon, <1>1, <1>2, <1>3, <1>4 DEF IInv

\* An acquisition's answer becomes a handle whose budget the lease outlives,
\* or no handle at all.
LEMMA FinishAcquireInv ==
  ASSUME IInv, TypeOK', NEW h \in Handles, FinishAcquire(h)
  PROVE  IInv'
<1>0. TypeOK /\ CallFits(h) /\ LateFits(h) /\ BudgetCovered(h) /\ BudgetsStarted
  BY Zenon DEF IInv, CallDiscipline, LeaseOutlivesBudget
<1>1. Returns(h)
  BY SMTT(30), <1>0 DEF Returns, FinishAcquire, TypeOK, tableVars, clockVars
<1>2. op'[h] = "none" /\ stage'[h] = "idle"
  BY Zenon, <1>0, <1>1, ReturnedCall DEF Returns
<1>3. stage[h] = "answered" /\ op[h] = "acquire" /\ state[h] = "new" /\ record[h] = NoLease
  BY Zenon, <1>0 DEF FinishAcquire, CallFits
<1>4. late' = late /\ \A o \in Mutation : <<o, h>> \notin late
  BY Zenon, <1>0, <1>3 DEF FinishAcquire, LateFits, Mutation, Created
<1>d. DOMAIN state = Handles /\ DOMAIN record = Handles /\ DOMAIN wallDeadline = Handles
  BY Zenon, <1>0 DEF TypeOK
<1>5. CASE answer[h].err = "nil" /\ validAcquisition(h, answer[h].record)
  <2>1. /\ state'[h] = "active" /\ record'[h] = answer[h].record
        /\ wallDeadline'[h] = wallStarted[h] + Budget
    BY ZenonT(30), <1>d, <1>5 DEF FinishAcquire
  <2>2. GrantAnswered(h) /\ answer[h].record \in Record
    BY Zenon, <1>0, <1>3, <1>5 DEF GrantAnswered, CallFits
  <2>3. CallFits(h)'
    BY Zenon, <1>2, <1>5, <2>1, <2>2 DEF CallFits, GrantAnswered, validAcquisition, Created
  <2>4. LateFits(h)'
    BY Zenon, <1>4 DEF LateFits, Mutation
  <2>5. record'[h].token = TokenFor(h)
    BY Zenon, <2>1, <2>2 DEF TokenFor
  <2>6. wallDeadline'[h] <= now + Budget
    BY <1>0, <2>1, Budgets DEF BudgetsStarted, TypeOK
  <2>7. now < wallDeadline'[h] => Outlives(h, record'[h].token, wallDeadline'[h])
    BY Zenon, <1>0, <2>1, <2>2 DEF BudgetCovered
  <2> QED BY Zenon, <1>1, <2>3, <2>4, <2>5, <2>6, <2>7, ReturnsInv
<1>6. CASE ~(answer[h].err = "nil" /\ validAcquisition(h, answer[h].record))
  <2>1. state'[h] \in {"new", "failed"} /\ record'[h] = NoLease
        /\ wallDeadline'[h] = wallDeadline[h]
    BY ZenonT(30), <1>d, <1>3, <1>6 DEF FinishAcquire
  <2>2. CallFits(h)'
    BY Zenon, <1>2, <2>1 DEF CallFits, GrantAnswered, Created
  <2>3. LateFits(h)'
    BY Zenon, <1>4 DEF LateFits, Mutation
  <2>4. record'[h].token = 0 /\ state'[h] # "active"
    BY <2>1 DEF NoLease
  <2>5. wallDeadline'[h] <= now + Budget
    BY Zenon, <1>0, <2>1 DEF BudgetsStarted
  <2> QED BY Zenon, <1>1, <2>2, <2>3, <2>4, <2>5, ReturnsInv
<1> QED BY Zenon, <1>5, <1>6

\* A renewal or validation keeps the handle active only within its budget, and
\* the budget it may get is one the renewed lease outlives.
LEMMA finishActiveOperationInv ==
  ASSUME IInv, TypeOK', NEW h \in Handles, finishActiveOperation(h)
  PROVE  IInv'
<1>0. TypeOK /\ CallFits(h) /\ LateFits(h) /\ BudgetCovered(h) /\ BudgetsStarted
  BY Zenon DEF IInv, CallDiscipline, LeaseOutlivesBudget
<1>1. Returns(h)
  BY SMTT(30), <1>0 DEF Returns, finishActiveOperation, TypeOK, tableVars, clockVars
<1>2. op'[h] = "none" /\ stage'[h] = "idle" /\ late' = late
  BY Zenon, <1>0, <1>1, ReturnedCall DEF Returns, finishActiveOperation
<1>3. /\ stage[h] = "answered" /\ op[h] \in {"renew", "validate"}
      /\ state[h] \in {"active", "expired"}
      /\ record[h] \in Record /\ record[h].owner = OwnerOf[h]
      /\ TokenFor(h) = record[h].token
  BY Zenon, <1>0 DEF finishActiveOperation, CallFits, Created, TokenFor, GrantAnswered
<1>4. CASE /\ answer[h].err = "nil" /\ sameAcquisition(record[h], answer[h].record)
           /\ expireLocked(h) = "active"
  <2>1. /\ state'[h] = "active" /\ state[h] = "active" /\ now < wallDeadline[h]
        /\ record'[h] = answer[h].record
    <3>1. state[h] = "active" /\ ~(now >= wallDeadline[h])
      BY Zenon, <1>4 DEF expireLocked, pastDeadline
    <3>2. state' = state /\ record' = [record EXCEPT ![h] = answer[h].record]
      BY Zenon, <1>4 DEF finishActiveOperation
    <3>3. DOMAIN record = Handles /\ now \in Int /\ wallDeadline[h] \in Int
      BY <1>0 DEF TypeOK
    <3>4. now < wallDeadline[h]
      BY <3>1, <3>3
    <3> QED BY Zenon, <3>1, <3>2, <3>3, <3>4
  <2>2. /\ record'[h].owner = OwnerOf[h] /\ record'[h].token = record[h].token
        /\ record'[h] \in Record
    <3>1. record'[h] \in Record \cup {NoLease}
      BY Zenon DEF TypeOK
    <3>2. record'[h].owner = OwnerOf[h] /\ record'[h].token = record[h].token
      BY Zenon, <1>3, <1>4, <2>1 DEF sameAcquisition
    <3>3. record[h].token # 0
      BY Zenon, <1>3 DEF Record, Token
    <3> QED BY <3>1, <3>2, <3>3 DEF NoLease
  <2>3. wallDeadline'[h] = IF op[h] = "renew" THEN wallStarted[h] + Budget ELSE wallDeadline[h]
    BY <1>0, <1>4 DEF finishActiveOperation, TypeOK
  <2>4. CallFits(h)'
    BY Zenon, <1>2, <2>1, <2>2 DEF CallFits, GrantAnswered, Created
  <2>5. LateFits(h)'
    BY Zenon, <1>0, <1>2, <2>1 DEF LateFits
  <2>6. wallDeadline'[h] <= now + Budget
    BY SMTT(30), <1>0, <2>3, Budgets DEF BudgetsStarted, TypeOK
  <2>7. Outlives(h, record'[h].token, wallDeadline'[h])
    BY Zenon, <1>0, <1>3, <1>4, <2>1, <2>2, <2>3 DEF BudgetCovered, ReleaseExecuted, RenewalAnswered
  <2> QED BY Zenon, <1>1, <1>3, <2>2, <2>4, <2>5, <2>6, <2>7, ReturnsInv
<1>5. CASE ~(/\ answer[h].err = "nil" /\ sameAcquisition(record[h], answer[h].record)
             /\ expireLocked(h) = "active")
  <2>1. /\ record'[h] = record[h] /\ wallDeadline'[h] = wallDeadline[h]
        /\ state'[h] \in Created \ {"active"}
    BY SMTT(40), <1>0, <1>3, <1>5
    DEF finishActiveOperation, expireLocked, failLocked, TypeOK, Created
  <2>2. CallFits(h)'
    BY Zenon, <1>2, <1>3, <2>1 DEF CallFits, GrantAnswered, Created
  <2>3. LateFits(h)'
    BY Zenon, <1>0, <1>2, <1>3, <2>1 DEF LateFits
  <2>4. wallDeadline'[h] <= now + Budget
    BY Zenon, <1>0, <2>1 DEF BudgetsStarted
  <2> QED BY Zenon, <1>1, <1>3, <2>1, <2>2, <2>3, <2>4, ReturnsInv
<1> QED BY Zenon, <1>4, <1>5

\* After Release has returned the handle is not active.
LEMMA FinishReleaseInv ==
  ASSUME IInv, TypeOK', NEW h \in Handles, FinishRelease(h)
  PROVE  IInv'
<1>0. TypeOK /\ CallFits(h) /\ LateFits(h) /\ BudgetsStarted
  BY Zenon DEF IInv, CallDiscipline
<1>1. Returns(h)
  BY Zenon, <1>0 DEF Returns, FinishRelease, TypeOK, tableVars, clockVars
<1>2. op'[h] = "none" /\ stage'[h] = "idle" /\ late' = late
  BY Zenon, <1>0, <1>1, ReturnedCall DEF Returns, FinishRelease
<1>3. /\ op[h] = "release" /\ state[h] \in {"active", "expired"}
      /\ record[h] \in Record /\ record[h].owner = OwnerOf[h]
      /\ TokenFor(h) = record[h].token
  BY Zenon, <1>0 DEF FinishRelease, CallFits, Created, TokenFor, GrantAnswered
<1>4. /\ record'[h] = record[h] /\ wallDeadline'[h] = wallDeadline[h]
      /\ state'[h] \in Created \ {"active"}
  BY Zenon, <1>0, <1>3 DEF FinishRelease, failLocked, TypeOK, Created
<1>5. CallFits(h)'
  BY Zenon, <1>2, <1>3, <1>4 DEF CallFits, GrantAnswered, Created
<1>6. LateFits(h)'
  BY Zenon, <1>0, <1>2, <1>3, <1>4 DEF LateFits
<1>7. wallDeadline'[h] <= now + Budget
  BY Zenon, <1>0, <1>4 DEF BudgetsStarted
<1> QED BY Zenon, <1>1, <1>3, <1>4, <1>5, <1>6, <1>7, ReturnsInv

\* A call whose answer never came leaves nothing that could be admitted, so
\* the request it may have left behind is harmless to this handle.
LEMMA AbandonInv ==
  ASSUME IInv, TypeOK', NEW h \in Handles, Abandon(h)
  PROVE  IInv'
<1>0. TypeOK /\ CallFits(h) /\ LateFits(h) /\ BudgetsStarted
  BY Zenon DEF IInv, CallDiscipline
<1>l. late' = IF stage[h] = "sent" /\ op[h] \in Mutation
              THEN late \cup {<<op[h], h>>} ELSE late
  BY Zenon DEF Abandon
<1>1. Returns(h)
  <2>1. ASSUME NEW g \in Handles \ {h}, NEW o \in Mutation
        PROVE  <<o, g>> \in late' <=> <<o, g>> \in late
    BY Zenon, <1>l
  <2> QED BY <1>0, <2>1 DEF Returns, Abandon, TypeOK, tableVars, clockVars
<1>2. op'[h] = "none" /\ stage'[h] = "idle"
  BY Zenon, <1>0, <1>1, ReturnedCall DEF Returns
<1>3. record'[h] = record[h] /\ wallDeadline'[h] = wallDeadline[h]
  BY Zenon DEF Abandon
<1>4. wallDeadline'[h] <= now + Budget
  BY Zenon, <1>0, <1>3 DEF BudgetsStarted
<1>5. CASE op[h] = "acquire"
  <2>1. /\ state'[h] = "failed" /\ record'[h] = NoLease /\ state[h] = "new"
    BY Zenon, <1>0, <1>3, <1>5 DEF Abandon, CallFits, TypeOK
  <2>2. CallFits(h)'
    BY Zenon, <1>2, <2>1 DEF CallFits, GrantAnswered, Created
  <2>3. LateFits(h)'
    BY Zenon, <1>0, <1>l, <1>5, <2>1 DEF LateFits, Mutation, Created
  <2>4. record'[h].token = 0
    BY SMTT(30), <2>1 DEF NoLease
  <2> QED BY Zenon, <1>1, <1>4, <2>1, <2>2, <2>3, <2>4, ReturnsInv
<1>6. CASE op[h] # "acquire"
  <2>1. /\ op[h] \in {"renew", "validate", "release"}
        /\ state[h] \in {"active", "expired"}
        /\ record[h] \in Record /\ record[h].owner = OwnerOf[h]
        /\ TokenFor(h) = record[h].token
    BY Zenon, <1>0, <1>6 DEF Abandon, CallFits, Created, TokenFor, GrantAnswered, TypeOK, Mutation
  <2>2. state'[h] \in Created \ {"active"}
    BY Zenon, <1>0, <1>6, <2>1 DEF Abandon, failLocked, expireLocked, TypeOK, Created
  <2>3. CallFits(h)'
    BY Zenon, <1>2, <1>3, <2>1, <2>2 DEF CallFits, GrantAnswered, Created
  <2>4. LateFits(h)'
    BY Zenon, <1>0, <1>l, <1>6, <2>1, <2>2 DEF LateFits, Mutation, Created
  <2> QED BY Zenon, <1>1, <1>3, <1>4, <2>1, <2>2, <2>3, <2>4, ReturnsInv
<1> QED BY Zenon, <1>5, <1>6

-------------------------------------------------------------------------------
(* The backend: it executes a request and answers it, executes one whose       *)
(* client has returned, or drops an expired lease                               *)

\* What the backend's answer to handle h's request leaves alone.
LEMMA ServeFrame ==
  ASSUME TypeOK, NEW h \in Handles, Serve(h)
  PROVE  /\ UNCHANGED <<now, wallStarted, wallDeadline, state, record, late, op>>
         /\ stage[h] = "sent" /\ stage'[h] = "answered"
         /\ \A g \in Handles \ {h} : stage'[g] = stage[g] /\ answer'[g] = answer[g]
<1>1. /\ UNCHANGED <<now, wallStarted, wallDeadline, state, record, late, op>>
      /\ stage[h] = "sent" /\ stage' = [stage EXCEPT ![h] = "answered"]
      /\ \E a : answer' = [answer EXCEPT ![h] = a]
  BY Zenon DEF Serve, clockVars, objectVars
<1>2. DOMAIN stage = Handles /\ DOMAIN answer = Handles
  BY Zenon DEF TypeOK
<1> QED BY Zenon, <1>1, <1>2

\* What is left to show of a served call, once the tokens, the handle that is
\* answered and the budgets of the others are in order.
LEMMA ServedInv ==
  ASSUME IInv, TypeOK', NEW h \in Handles, Serve(h), TokenOrder',
         CallFits(h)', \A g \in Handles : BudgetCovered(g)'
  PROVE  IInv'
<1>0. TypeOK /\ CallDiscipline /\ BudgetsStarted
  BY Zenon DEF IInv
<1>1. /\ UNCHANGED <<now, wallStarted, wallDeadline, state, record, late, op>>
      /\ stage[h] = "sent"
  BY Zenon, <1>0, ServeFrame
<1>2. ASSUME NEW g \in Handles \ {h}
      PROVE  stage'[g] = stage[g] /\ answer'[g] = answer[g]
  BY Zenon, <1>0, ServeFrame
<1>3. CallDiscipline'
  <2> SUFFICES ASSUME NEW g \in Handles PROVE CallFits(g)' /\ LateFits(g)'
    BY Zenon DEF CallDiscipline
  <2>1. CallFits(g) /\ LateFits(g)
    BY Zenon, <1>0 DEF CallDiscipline
  <2>2. CallFits(g)'
    BY Zenon, <1>1, <1>2, <2>1 DEF CallFits, GrantAnswered
  <2>3. LateFits(g)'
    BY Zenon, <1>1, <2>1 DEF LateFits
  <2> QED BY Zenon, <2>2, <2>3
<1>4. BudgetsStarted'
  <2>1. \A g \in Handles : stage'[g] # "begun" => stage[g] # "begun"
    BY Zenon, <1>1, <1>2
  <2> QED BY Zenon, <1>0, <1>1, <2>1 DEF BudgetsStarted
<1> QED BY Zenon, <1>3, <1>4 DEF IInv, LeaseOutlivesBudget

\* A lease that runs for ServerTTL from a reading made since real time w lasts
\* as long as a budget that starts at w.
LEMMA EarlierReading ==
  ASSUME NEW at \in Int, NEW c \in Int, NEW w \in Int, NEW n \in Int, at - c >= w - n
  PROVE  (at + ServerTTL) - c >= (w + Budget) - n
BY Budgets

\* The fields of a lease that was just granted or extended.
LEMMA LeaseFields ==
  ASSUME NEW r, NEW o, NEW t, NEW a, NEW e,
         r = [owner |-> o, token |-> t, acquiredAt |-> a, expiresAt |-> e]
  PROVE  r.owner = o /\ r.token = t /\ r.expiresAt = e /\ (t # 0 => r # NoLease)
BY SMT DEF NoLease

\* With no lease in the way and a token left, an acquisition succeeds.
LEMMA AcquireAnswer ==
  ASSUME NEW h, NEW at, ~Usable(at, KeyOf[h]), fence[KeyOf[h]] # MaxToken,
         NEW a \in Answers(h, "acquire", at)
  PROVE  a.err = "nil" /\ a.record = lease'[KeyOf[h]]
BY SMT DEF Answers

\* The backend grants an acquisition its client still waits for.
LEMMA ServeGrantInv ==
  ASSUME IInv, TypeOK', NEW h \in Handles, Serve(h), op[h] = "acquire",
         NEW at \in Int, at <= serverClock, at - serverClock >= wallStarted[h] - now,
         \E a \in Answers(h, "acquire", at) : answer' = [answer EXCEPT ![h] = a],
         NEW n \in Nat, Grant(at, KeyOf[h], OwnerOf[h], n, ServerTTL), n <= MaxToken
  PROVE  IInv'
<1>0. TypeOK /\ CallFits(h) /\ TokenOrder /\ BudgetsStarted
  BY Zenon DEF IInv, CallDiscipline
<1>1. /\ UNCHANGED <<now, wallStarted, wallDeadline, state, record, op>>
      /\ stage[h] = "sent" /\ stage'[h] = "answered" /\ state[h] = "new"
  BY Zenon, <1>0, ServeFrame DEF CallFits
<1>2. ASSUME NEW g \in Handles \ {h}
      PROVE  stage'[g] = stage[g] /\ answer'[g] = answer[g]
  BY Zenon, <1>0, ServeFrame
<1>3. /\ lease'[KeyOf[h]] = [owner |-> OwnerOf[h], token |-> n,
                             acquiredAt |-> at,
                             expiresAt |-> at + ServerTTL]
      /\ serverClock' = serverClock /\ fence[KeyOf[h]] \in Nat /\ n > fence[KeyOf[h]]
  BY Zenon, <1>0, HandleConstants DEF Grant, TypeOK, TableTypeOK
<1>l. /\ lease'[KeyOf[h]].owner = OwnerOf[h] /\ lease'[KeyOf[h]].token = n
      /\ lease'[KeyOf[h]].expiresAt = at + ServerTTL /\ lease'[KeyOf[h]] # NoLease
  <2>1. \A x, y \in Nat : x > y => x # 0
    OBVIOUS
  <2>2. n # 0
    BY Zenon, <1>3, <2>1
  <2> QED BY <1>3, <2>2, LeaseFields
<1>4. lease'[KeyOf[h]] \in Record
  BY Zenon, <1>l, HandleConstants DEF TypeOK, TableTypeOK
<1>5. answer'[h].err = "nil" /\ answer'[h].record = lease'[KeyOf[h]]
  <2>1. ~Usable(at, KeyOf[h])
    BY Zenon DEF Grant
  <2>2. fence[KeyOf[h]] # MaxToken
    <3>1. \A x, y, z \in Nat : x > y /\ x <= z => y # z
      OBVIOUS
    <3> QED BY Zenon, <1>3, <3>1, HandleConstants
  <2>3. PICK a \in Answers(h, "acquire", at) : answer' = [answer EXCEPT ![h] = a]
    BY Zenon
  <2>4. a.err = "nil" /\ a.record = lease'[KeyOf[h]]
    BY Zenon, <2>1, <2>2, <2>3, AcquireAnswer
  <2>5. answer'[h] = a
    BY Zenon, <1>0, <2>3 DEF TypeOK
  <2> QED BY Zenon, <2>4, <2>5
<1>6. TokenOrder'
  <2>1. TokenFor(h)' = n
    BY Zenon, <1>1, <1>l, <1>5 DEF TokenFor, GrantAnswered
  <2>2. \A g \in Handles \ {h} : TokenFor(g)' = TokenFor(g)
    BY Zenon, <1>1, <1>2 DEF TokenFor, GrantAnswered
  <2> QED BY Zenon, <1>0, <2>1, <2>2, TokenOrderGrant
<1>7. CallFits(h)'
  <2>1. answer'[h].record \in Record
    BY Zenon, <1>4, <1>5
  <2> QED BY Zenon, <1>0, <1>1, <2>1 DEF CallFits, GrantAnswered
<1>8. BudgetCovered(h)'
  <2>1. now \in Int /\ serverClock \in Int /\ wallStarted[h] \in Int
    BY Zenon, <1>0, ClockTypes, ValueTypes
  <2>2. lease'[KeyOf[h]].expiresAt - serverClock >= (wallStarted[h] + Budget) - now
    BY Zenon, <1>l, <2>1, EarlierReading
  <2>3. Outlives(h, answer[h].record.token, wallStarted[h] + Budget)'
    BY Zenon, <1>1, <1>3, <1>l, <1>5, <2>2 DEF Outlives, Owns
  <2>4. state'[h] # "active"
    BY Zenon, <1>1
  <2> QED BY Zenon, <2>3, <2>4 DEF BudgetCovered
<1>9. ASSUME NEW g \in Handles \ {h} PROVE BudgetCovered(g)'
  BY Zenon, <1>1, <1>2, CoverGranted
<1> QED BY Zenon, <1>6, <1>7, <1>8, <1>9, ServedInv

\* The backend answers anything but a grant or a carried-out release.
LEMMA ServeKeepInv ==
  ASSUME IInv, TypeOK', NEW h \in Handles, Serve(h),
         ChangesOwn(h), GrantsNothing, serverClock' = serverClock,
         op[h] = "acquire" => answer'[h].err # "nil",
         lease' # lease \/ (op[h] = "renew" /\ answer'[h].err = "nil") =>
           op[h] = "renew" /\ Outlives(h, record[h].token, wallStarted[h] + Budget)'
  PROVE  IInv'
<1>0. TypeOK /\ CallFits(h) /\ TokenOrder /\ BudgetsStarted /\ LeaseOutlivesBudget
  BY Zenon DEF IInv, CallDiscipline
<1>1. /\ UNCHANGED <<now, wallStarted, wallDeadline, state, record, op>>
      /\ stage[h] = "sent" /\ stage'[h] = "answered"
  BY Zenon, <1>0, ServeFrame
<1>2. ASSUME NEW g \in Handles \ {h}
      PROVE  stage'[g] = stage[g] /\ answer'[g] = answer[g]
  BY Zenon, <1>0, ServeFrame
<1>3. TokenOrder'
  <2>1. ASSUME NEW g \in Handles PROVE TokenFor(g)' = TokenFor(g)
    BY Zenon, <1>1, <1>2 DEF TokenFor, GrantAnswered
  <2> QED BY Zenon, <1>0, <2>1, TokenOrderKept DEF GrantsNothing
<1>4. CallFits(h)'
  BY Zenon, <1>0, <1>1 DEF CallFits, GrantAnswered
<1>5. BudgetCovered(h)'
  <2>1. ASSUME state[h] = "active", now < wallDeadline[h]
        PROVE  Outlives(h, record[h].token, wallDeadline[h])'
    <3>1. Outlives(h, record[h].token, wallDeadline[h])
      BY Zenon, <1>0, <1>1, <2>1 DEF LeaseOutlivesBudget, BudgetCovered, ReleaseExecuted
    <3>2. CASE lease' = lease
      BY Zenon, <1>1, <3>1, <3>2 DEF Outlives, Owns
    <3>3. CASE lease' # lease
      <4>1. op[h] = "renew" /\ Outlives(h, record[h].token, wallStarted[h] + Budget)'
        BY Zenon, <3>3
      <4>2. /\ lease'[KeyOf[h]].expiresAt - serverClock >= (wallStarted[h] + Budget) - now
            /\ lease'[KeyOf[h]] # NoLease /\ Owns(KeyOf[h], OwnerOf[h], record[h].token)'
        BY Zenon, <1>1, <4>1 DEF Outlives
      <4>3. wallDeadline[h] <= wallStarted[h] + Budget
        BY Zenon, <1>0, <1>1, <4>1 DEF BudgetsStarted
      <4>4. /\ now \in Int /\ serverClock \in Int /\ wallDeadline[h] \in Int
            /\ wallStarted[h] + Budget \in Int
        BY <1>0, Budgets DEF TypeOK, TableTypeOK
      <4>5. lease'[KeyOf[h]].expiresAt \in Int
        <5>1. lease'[KeyOf[h]] \in Record
          BY Zenon, <4>2, HandleConstants DEF TypeOK, TableTypeOK
        <5> QED BY Zenon, <5>1 DEF Record
      <4>6. lease'[KeyOf[h]].expiresAt - serverClock >= wallDeadline[h] - now
        <5>1. \A e, c, n, d, w \in Int : e - c >= w - n /\ d <= w => e - c >= d - n
          OBVIOUS
        <5> QED BY Zenon, <4>2, <4>3, <4>4, <4>5, <5>1
      <4> QED BY Zenon, <1>1, <4>2, <4>6 DEF Outlives
    <3> QED BY Zenon, <3>2, <3>3
  <2>2. ASSUME RenewalAnswered(h)'
        PROVE  Outlives(h, record[h].token, wallStarted[h] + Budget)'
    BY Zenon, <1>1, <2>2 DEF RenewalAnswered
  <2>3. ~GrantAnswered(h)'
    BY Zenon, <1>1 DEF GrantAnswered
  <2> QED BY Zenon, <1>1, <2>1, <2>2, <2>3 DEF BudgetCovered
<1>6. ASSUME NEW g \in Handles \ {h} PROVE BudgetCovered(g)'
  <2>1. ~GrantAnswered(h)
    BY Zenon, <1>1 DEF GrantAnswered
  <2> QED BY Zenon, <1>1, <1>2, <2>1, CoverOthers
<1> QED BY Zenon, <1>3, <1>4, <1>5, <1>6, ServedInv

\* The backend carries out a release its handle still waits for.
LEMMA ServeReleaseInv ==
  ASSUME IInv, TypeOK', NEW h \in Handles, Serve(h), op[h] = "release",
         ChangesOwn(h), GrantsNothing, serverClock' = serverClock
  PROVE  IInv'
<1>0. TypeOK /\ CallFits(h) /\ TokenOrder
  BY Zenon DEF IInv, CallDiscipline
<1>1. /\ UNCHANGED <<now, wallStarted, wallDeadline, state, record, op>>
      /\ stage[h] = "sent" /\ stage'[h] = "answered"
  BY Zenon, <1>0, ServeFrame
<1>2. ASSUME NEW g \in Handles \ {h}
      PROVE  stage'[g] = stage[g] /\ answer'[g] = answer[g]
  BY Zenon, <1>0, ServeFrame
<1>3. TokenOrder'
  <2>1. ASSUME NEW g \in Handles PROVE TokenFor(g)' = TokenFor(g)
    BY Zenon, <1>1, <1>2 DEF TokenFor, GrantAnswered
  <2> QED BY Zenon, <1>0, <2>1, TokenOrderKept DEF GrantsNothing
<1>4. CallFits(h)'
  BY Zenon, <1>0, <1>1 DEF CallFits, GrantAnswered
<1>5. BudgetCovered(h)'
  BY Zenon, <1>1 DEF BudgetCovered, ReleaseExecuted, RenewalAnswered, GrantAnswered
<1>6. ASSUME NEW g \in Handles \ {h} PROVE BudgetCovered(g)'
  <2>1. ~GrantAnswered(h)
    BY Zenon, <1>1 DEF GrantAnswered
  <2> QED BY Zenon, <1>1, <1>2, <2>1, CoverOthers
<1> QED BY Zenon, <1>3, <1>4, <1>5, <1>6, ServedInv

\* A request is granted, or it changes at most the lease of its own handle.
LEMMA ExecuteCases ==
  ASSUME TypeOK, NEW h \in Handles, NEW o, NEW at, Execute(h, o, at)
  PROVE  \/ /\ o = "acquire"
            /\ \E n \in Nat : n <= MaxToken /\ Grant(at, KeyOf[h], OwnerOf[h], n, ServerTTL)
         \/ /\ ChangesOwn(h) /\ GrantsNothing /\ serverClock' = serverClock
            /\ o = "acquire" => Usable(at, KeyOf[h]) \/ fence[KeyOf[h]] = MaxToken
            /\ \/ o = "release"
               \/ o = "renew" /\ Extend(at, KeyOf[h], OwnerOf[h], record[h].token, ServerTTL)
               \/ /\ lease' = lease
                  /\ o = "renew" =>
                       ~(Usable(at, KeyOf[h]) /\ Owns(KeyOf[h], OwnerOf[h], record[h].token))
<1>k. /\ KeyOf[h] \in Key /\ fence \in [Key -> Nat] /\ fence[KeyOf[h]] \in Nat
      /\ lease \in [Key -> Record \cup {NoLease}]
  BY Zenon, HandleConstants DEF TypeOK, TableTypeOK
<1>f. \A k \in Key : fence[k] >= fence[k]
  BY <1>k
<1>1. CASE \E n \in (fence[KeyOf[h]] + 1)..MaxToken :
             o = "acquire" /\ Grant(at, KeyOf[h], OwnerOf[h], n, ServerTTL)
  <2>1. PICK n \in (fence[KeyOf[h]] + 1)..MaxToken :
               o = "acquire" /\ Grant(at, KeyOf[h], OwnerOf[h], n, ServerTTL)
    BY Zenon, <1>1
  <2>2. n \in Nat /\ n <= MaxToken
    BY <1>k, HandleConstants
  <2> QED BY Zenon, <2>1, <2>2
<1>2. CASE \E f \in fence[KeyOf[h]]..MaxToken : o = "acquire" /\ Contend(at, KeyOf[h], f)
  <2>1. PICK f \in fence[KeyOf[h]]..MaxToken : o = "acquire" /\ Contend(at, KeyOf[h], f)
    BY Zenon, <1>2
  <2>2. /\ fence' = [fence EXCEPT ![KeyOf[h]] = f] /\ Usable(at, KeyOf[h])
        /\ UNCHANGED <<serverClock, lease>>
    BY Zenon, <2>1 DEF Contend
  <2>3. \A k \in Key : fence'[k] >= fence[k]
    BY SMTT(30), <1>k, <2>1, <2>2
  <2> QED BY Zenon, <2>1, <2>2, <2>3 DEF ChangesOwn, GrantsNothing
<1>3. CASE /\ UNCHANGED tableVars /\ o \in {"acquire", "validate", "release"}
           /\ o = "acquire" => fence[KeyOf[h]] = MaxToken
  BY Zenon, <1>3, <1>f DEF tableVars, ChangesOwn, GrantsNothing
<1>4. CASE o = "renew" /\ Extend(at, KeyOf[h], OwnerOf[h], record[h].token, ServerTTL)
  <2>1. /\ serverClock' = serverClock /\ fence' = fence
        /\ lease[KeyOf[h]] # NoLease /\ Owns(KeyOf[h], OwnerOf[h], record[h].token)
        /\ lease' = [lease EXCEPT ![KeyOf[h]] =
              [owner |-> OwnerOf[h], token |-> record[h].token,
               acquiredAt |-> lease[KeyOf[h]].acquiredAt,
               expiresAt |-> at + ServerTTL]]
    BY Zenon, <1>4 DEF Extend, Usable
  <2>2. lease'[KeyOf[h]].token = lease[KeyOf[h]].token
    BY Zenon, <1>k, <2>1 DEF Owns
  <2>3. \A k \in Key : k # KeyOf[h] => lease'[k] = lease[k]
    BY Zenon, <1>k, <2>1
  <2>4. ChangesOwn(h)
    BY Zenon, <2>1, <2>3 DEF ChangesOwn
  <2>5. GrantsNothing
    BY Zenon, <1>f, <2>1, <2>2, <2>3 DEF GrantsNothing
  <2> QED BY Zenon, <1>4, <2>1, <2>4, <2>5
<1>5. CASE /\ o = "renew" /\ UNCHANGED tableVars
           /\ ~(Usable(at, KeyOf[h]) /\ Owns(KeyOf[h], OwnerOf[h], record[h].token))
  BY Zenon, <1>5, <1>f DEF tableVars, ChangesOwn, GrantsNothing
<1>6. CASE o = "release" /\ Vacate(KeyOf[h], OwnerOf[h], record[h].token)
  <2>1. /\ serverClock' = serverClock /\ fence' = fence
        /\ lease[KeyOf[h]] # NoLease /\ Owns(KeyOf[h], OwnerOf[h], record[h].token)
        /\ lease' = [lease EXCEPT ![KeyOf[h]] = NoLease]
    BY Zenon, <1>6 DEF Vacate
  <2>2. \A k \in Key : lease'[k] = IF k = KeyOf[h] THEN NoLease ELSE lease[k]
    BY Zenon, <1>k, <2>1
  <2>3. ChangesOwn(h) /\ GrantsNothing
    BY Zenon, <1>f, <2>1, <2>2 DEF ChangesOwn, GrantsNothing
  <2> QED BY Zenon, <1>6, <2>1, <2>3
<1> QED BY ZenonT(30), <1>1, <1>2, <1>3, <1>4, <1>5, <1>6 DEF Execute

\* The backend executes and answers a request of any kind.
LEMMA ServeInv ==
  ASSUME IInv, TypeOK', NEW h \in Handles, Serve(h)
  PROVE  IInv'
<1>0. TypeOK /\ KeyOf[h] \in Key
  BY Zenon, HandleConstants DEF IInv
<1>a. PICK at \in Int :
        /\ at <= serverClock
        /\ op[h] \in {"acquire", "renew"} => at - serverClock >= wallStarted[h] - now
        /\ Execute(h, op[h], at)
        /\ \E a \in Answers(h, op[h], at) : answer' = [answer EXCEPT ![h] = a]
  BY Zenon, <1>0, ServeReading
<1>1. CASE op[h] = "acquire" /\ \E n \in Nat :
             n <= MaxToken /\ Grant(at, KeyOf[h], OwnerOf[h], n, ServerTTL)
  BY Zenon, <1>a, <1>1, ServeGrantInv
<1>2. CASE
        /\ ChangesOwn(h) /\ GrantsNothing /\ serverClock' = serverClock
        /\ op[h] = "acquire" => Usable(at, KeyOf[h]) \/ fence[KeyOf[h]] = MaxToken
        /\ \/ op[h] = "release"
           \/ op[h] = "renew" /\ Extend(at, KeyOf[h], OwnerOf[h], record[h].token, ServerTTL)
           \/ /\ lease' = lease
              /\ op[h] = "renew" =>
                   ~(Usable(at, KeyOf[h]) /\ Owns(KeyOf[h], OwnerOf[h], record[h].token))
  <2>1. CASE op[h] = "release"
    BY Zenon, <1>2, <2>1, ServeReleaseInv
  <2>2. CASE op[h] # "release"
    <3>1. PICK a \in Answers(h, op[h], at) : answer' = [answer EXCEPT ![h] = a]
      BY Zenon, <1>a
    <3>2. answer'[h] = a
      BY Zenon, <1>0, <3>1 DEF TypeOK
    <3>3. op[h] = "acquire" => answer'[h].err # "nil"
      BY <1>2, <3>1, <3>2 DEF Answers
    <3>4. ASSUME lease' # lease \/ (op[h] = "renew" /\ answer'[h].err = "nil")
          PROVE  op[h] = "renew" /\ Extend(at, KeyOf[h], OwnerOf[h], record[h].token, ServerTTL)
      <4>1. ASSUME op[h] = "renew", answer'[h].err = "nil"
            PROVE  Usable(at, KeyOf[h]) /\ Owns(KeyOf[h], OwnerOf[h], record[h].token)
        BY SMTT(30), <3>1, <3>2, <4>1 DEF Answers
      <4> QED BY Zenon, <1>2, <2>2, <3>4, <4>1
    <3>5. ASSUME op[h] = "renew",
                 Extend(at, KeyOf[h], OwnerOf[h], record[h].token, ServerTTL)
          PROVE  Outlives(h, record[h].token, wallStarted[h] + Budget)'
      <4>1. lease'[KeyOf[h]] = [owner |-> OwnerOf[h], token |-> record[h].token,
                                acquiredAt |-> lease[KeyOf[h]].acquiredAt,
                                expiresAt |-> at + ServerTTL]
        BY Zenon, <1>0, <3>5 DEF Extend, TypeOK, TableTypeOK
      <4>2. record[h].token > 0
        BY Zenon, <1>0, <3>5, ValueTypes DEF Extend, Usable, Owns
      <4>3. /\ lease'[KeyOf[h]] # NoLease
            /\ lease'[KeyOf[h]].owner = OwnerOf[h]
            /\ lease'[KeyOf[h]].token = record[h].token
            /\ lease'[KeyOf[h]].expiresAt = at + ServerTTL
        <5>1. record[h].token \in Nat
          BY Zenon, <1>0, ValueTypes
        <5>2. \A x \in Nat : x > 0 => x # 0
          OBVIOUS
        <5>3. record[h].token # 0
          BY Zenon, <4>2, <5>1, <5>2
        <5> QED BY <4>1, <5>3, LeaseFields
      <4>4. now \in Int /\ serverClock \in Int /\ wallStarted[h] \in Int
        BY Zenon, <1>0, ClockTypes, ValueTypes
      <4>5. at - serverClock >= wallStarted[h] - now
        BY Zenon, <1>a, <3>5
      <4>6. lease'[KeyOf[h]].expiresAt - serverClock >= (wallStarted[h] + Budget) - now
        BY Zenon, <4>3, <4>4, <4>5, EarlierReading
      <4>7. UNCHANGED <<now, wallStarted, record, serverClock>>
        BY Zenon, <1>0, <1>2, ServeFrame
      <4> QED BY Zenon, <4>3, <4>6, <4>7 DEF Outlives, Owns
    <3> QED BY Zenon, <1>2, <3>3, <3>4, <3>5, ServeKeepInv
  <2> QED BY Zenon, <2>1, <2>2
<1> QED BY Zenon, <1>0, <1>a, <1>1, <1>2, ExecuteCases

\* A request whose client has returned reaches the backend: its own handle is
\* past being admitted, and it touches no other handle's lease.
LEMMA ServeLateInv ==
  ASSUME IInv, TypeOK', NEW h \in Handles, NEW o \in Mutation, ServeLate(o, h)
  PROVE  IInv'
<1>0. TypeOK /\ CallDiscipline /\ TokenOrder /\ BudgetsStarted
  BY Zenon DEF IInv
<1>1. /\ UNCHANGED <<now, wallStarted, wallDeadline, state, record, op, stage, answer>>
      /\ <<o, h>> \in late /\ late' \in SUBSET late
  BY Zenon DEF ServeLate, clockVars, objectVars, callVars
<1>a. PICK at \in Int : at <= serverClock /\ Execute(h, o, at)
  BY Zenon, <1>0, LateReading
<1>2. \A g \in Handles : TokenFor(g)' = TokenFor(g)
  BY Zenon, <1>1 DEF TokenFor, GrantAnswered
<1>3. state[h] # "active" /\ ~GrantAnswered(h)
  <2>1. LateFits(h) /\ CallFits(h)
    BY Zenon, <1>0 DEF CallDiscipline
  <2>2. state[h] # "new" /\ state[h] # "active"
    BY Zenon, <1>1, <2>1 DEF LateFits, Mutation, Created
  <2> QED BY Zenon, <2>1, <2>2 DEF CallFits, GrantAnswered
<1>4. CallDiscipline'
  <2> SUFFICES ASSUME NEW g \in Handles PROVE CallFits(g)' /\ LateFits(g)'
    BY Zenon DEF CallDiscipline
  <2>1. CallFits(g) /\ LateFits(g)
    BY Zenon, <1>0 DEF CallDiscipline
  <2>2. CallFits(g)'
    BY Zenon, <1>1, <2>1 DEF CallFits, GrantAnswered
  <2>3. LateFits(g)'
    BY Zenon, <1>1, <2>1 DEF LateFits
  <2> QED BY Zenon, <2>2, <2>3
<1>5. BudgetsStarted'
  BY Zenon, <1>0, <1>1 DEF BudgetsStarted
<1>6. TokenOrder' /\ LeaseOutlivesBudget'
  <2>1. CASE \E n \in Nat :
               n <= MaxToken /\ Grant(at, KeyOf[h], OwnerOf[h], n, ServerTTL)
    <3>1. PICK n \in Nat : Grant(at, KeyOf[h], OwnerOf[h], n, ServerTTL)
      BY Zenon, <2>1
    <3>2. TokenOrder'
      BY Zenon, <1>0, <1>2, <3>1, TokenOrderGrant
    <3>3. ASSUME NEW g \in Handles PROVE BudgetCovered(g)'
      BY Zenon, <1>1, <1>a, <3>1, CoverGranted
    <3> QED BY Zenon, <3>2, <3>3 DEF LeaseOutlivesBudget
  <2>2. CASE ChangesOwn(h) /\ GrantsNothing /\ serverClock' = serverClock
    <3>1. TokenOrder'
      BY Zenon, <1>0, <1>2, <2>2, TokenOrderKept DEF GrantsNothing
    <3>2. BudgetCovered(h)'
      BY ZenonT(30), <1>1, <1>3 DEF BudgetCovered, GrantAnswered
    <3>3. ASSUME NEW g \in Handles \ {h} PROVE BudgetCovered(g)'
      BY Zenon, <1>1, <1>3, <2>2, CoverOthers
    <3> QED BY Zenon, <3>1, <3>2, <3>3 DEF LeaseOutlivesBudget
  <2> QED BY Zenon, <1>0, <1>a, <2>1, <2>2, ExecuteCases
<1> QED BY Zenon, <1>4, <1>5, <1>6 DEF IInv

\* Dropping an expired lease takes nothing from any budget.
LEMMA DropExpiredInv ==
  ASSUME IInv, TypeOK', NEW k \in Key, DropExpired(k)
  PROVE  IInv'
<1>0. TypeOK /\ CallDiscipline /\ TokenOrder /\ BudgetsStarted /\ LeaseOutlivesBudget
  BY Zenon DEF IInv
<1>1. /\ UNCHANGED <<now, wallStarted, wallDeadline, state, record, op, stage, answer, late>>
      /\ UNCHANGED <<serverClock, fence>> /\ ~Usable(serverClock, k)
      /\ lease' = [lease EXCEPT ![k] = NoLease]
  BY Zenon DEF DropExpired, Lapse, clockVars, objectVars, callVars
<1>2. CallDiscipline'
  BY ZenonT(30), <1>0, <1>1 DEF CallDiscipline, CallFits, LateFits, GrantAnswered
<1>3. TokenOrder'
  <2>1. \A g \in Handles : TokenFor(g)' = TokenFor(g)
    BY Zenon, <1>1 DEF TokenFor, GrantAnswered
  <2>2. \A j \in Key : lease'[j] # NoLease =>
                         lease[j] # NoLease /\ lease'[j].token = lease[j].token
    BY Zenon, <1>0, <1>1 DEF TypeOK, TableTypeOK
  <2>3. \A j \in Key : fence'[j] >= fence[j]
    BY SMTT(30), <1>0, <1>1 DEF TypeOK, TableTypeOK
  <2> QED BY Zenon, <1>0, <2>1, <2>2, <2>3, TokenOrderKept
<1>4. BudgetsStarted'
  BY Zenon, <1>0, <1>1 DEF BudgetsStarted
<1>5. ASSUME NEW g \in Handles PROVE BudgetCovered(g)'
  <2>1. /\ BudgetCovered(g)
        /\ Usable(serverClock, KeyOf[g]) => lease'[KeyOf[g]] = lease[KeyOf[g]]
    BY Zenon, <1>0, <1>1, HandleConstants DEF LeaseOutlivesBudget, TypeOK, TableTypeOK
  <2> QED BY Zenon, <1>0, <1>1, <2>1, CoverKept
<1> QED BY Zenon, <1>2, <1>3, <1>4, <1>5 DEF IInv, LeaseOutlivesBudget

-------------------------------------------------------------------------------
(* The other steps, and the theorems *)


\* A step that leaves the lease table and the budgets alone, answers nothing and
\* makes no handle active keeps the invariant; a budget may start to count anew.
LEMMA QuietInv ==
  ASSUME IInv, TypeOK', CallDiscipline',
         UNCHANGED <<serverClock, fence, lease, now, record, wallDeadline, answer>>,
         \A g \in Handles : /\ state'[g] = "active" => state[g] = "active"
                            /\ GrantAnswered(g)' <=> GrantAnswered(g)
                            /\ RenewalAnswered(g)' => RenewalAnswered(g)
                            /\ ReleaseExecuted(g) => ReleaseExecuted(g)',
         \A g \in Handles : \/ wallStarted'[g] = wallStarted[g]
                            \/ /\ wallStarted'[g] = now
                               /\ ~GrantAnswered(g)' /\ ~RenewalAnswered(g)',
         \A g \in Handles : op'[g] = "renew" /\ stage'[g] # "begun" =>
                              \/ wallStarted'[g] = now
                              \/ /\ op[g] = "renew" /\ stage[g] # "begun"
                                 /\ wallStarted'[g] = wallStarted[g]
  PROVE  IInv'
<1>1. TokenOrder'
  <2>1. ASSUME NEW g \in Handles PROVE TokenFor(g)' = TokenFor(g)
    BY Zenon DEF TokenFor
  <2>2. TypeOK /\ TokenOrder
    BY Zenon DEF IInv
  <2>3. \A k \in Key : fence'[k] >= fence[k]
    BY <2>2 DEF TypeOK, TableTypeOK
  <2>4. \A k \in Key : lease'[k] # NoLease =>
                         lease[k] # NoLease /\ lease'[k].token = lease[k].token
    BY Zenon
  <2> QED BY Zenon, <2>1, <2>2, <2>3, <2>4, TokenOrderKept
<1>2. BudgetsStarted'
  <2> SUFFICES ASSUME NEW g \in Handles
               PROVE  /\ wallStarted'[g] <= now /\ wallDeadline[g] <= now + Budget
                      /\ op'[g] = "renew" /\ stage'[g] # "begun"
                           => wallDeadline[g] <= wallStarted'[g] + Budget
    BY Zenon DEF BudgetsStarted
  <2>1. /\ wallStarted[g] <= now /\ wallDeadline[g] <= now + Budget /\ now <= now
        /\ op[g] = "renew" /\ stage[g] # "begun" => wallDeadline[g] <= wallStarted[g] + Budget
    <3>1. now \in Int
      BY DEF IInv, TypeOK
    <3>2. now <= now
      BY Zenon, <3>1, AtMostItself
    <3> QED BY Zenon, <3>2 DEF IInv, BudgetsStarted
  <2> QED BY Zenon, <2>1
<1>3. LeaseOutlivesBudget'
  <2> SUFFICES ASSUME NEW g \in Handles PROVE BudgetCovered(g)'
    BY Zenon DEF LeaseOutlivesBudget
  <2>1. BudgetCovered(g)
    BY Zenon DEF IInv, LeaseOutlivesBudget
  <2> QED BY ZenonT(30), <2>1 DEF BudgetCovered, Outlives, Owns
<1> QED BY Zenon, <1>1, <1>2, <1>3 DEF IInv

\* Every handle has a place for its call.
LEMMA CallDomains ==
  ASSUME IInv
  PROVE  DOMAIN op = Handles /\ DOMAIN stage = Handles /\ DOMAIN wallStarted = Handles
BY Zenon DEF IInv, TypeOK

\* TryAcquire keeps the invariant: it leaves the lease table and the budgets alone.
LEMMA TryAcquireInv ==
  ASSUME IInv, TypeOK', NEW h \in Handles, TryAcquire(h)
  PROVE  IInv'
<1>1. CallDiscipline'
  <2> SUFFICES ASSUME NEW g \in Handles PROVE CallFits(g)' /\ LateFits(g)'
    BY Zenon DEF CallDiscipline
  <2>1. CallFits(g) /\ LateFits(g) /\ CallFits(h)
    BY Zenon DEF IInv, CallDiscipline
  <2>2. /\ op'[g] = IF g = h THEN "acquire" ELSE op[g]
        /\ stage'[g] = IF g = h THEN "sent" ELSE stage[g]
        /\ state[h] = "new"
        /\ UNCHANGED <<state, record, answer, late>>
    BY Zenon, CallDomains DEF TryAcquire, objectVars
  <2>3. CallFits(g)'
    BY <2>1, <2>2 DEF CallFits, GrantAnswered
  <2>4. LateFits(g)'
    BY Zenon, <2>1, <2>2 DEF LateFits
  <2> QED BY Zenon, <2>3, <2>4
<1>2. UNCHANGED <<serverClock, fence, lease, now, record, wallDeadline, answer>>
  BY Zenon DEF TryAcquire, tableVars, clockVars, objectVars, callVars
<1>3. /\ op[h] = "none" /\ op' = [op EXCEPT ![h] = "acquire"]
      /\ stage' = [stage EXCEPT ![h] = "sent"] /\ wallStarted' = [wallStarted EXCEPT ![h] = now]
      /\ UNCHANGED state
  BY Zenon DEF TryAcquire, objectVars
<1>4. ASSUME NEW g \in Handles
      PROVE  /\ GrantAnswered(g)' <=> GrantAnswered(g)
             /\ RenewalAnswered(g)' => RenewalAnswered(g)
             /\ ReleaseExecuted(g) => ReleaseExecuted(g)'
             /\ \/ wallStarted'[g] = wallStarted[g]
                \/ /\ wallStarted'[g] = now
                   /\ ~GrantAnswered(g)' /\ ~RenewalAnswered(g)'
             /\ op'[g] = "renew" /\ stage'[g] # "begun" =>
                  \/ wallStarted'[g] = now
                  \/ /\ op[g] = "renew" /\ stage[g] # "begun"
                     /\ wallStarted'[g] = wallStarted[g]
  <2>1. CASE g = h
    BY Zenon, <1>2, <1>3, <2>1, CallDomains DEF GrantAnswered, RenewalAnswered, ReleaseExecuted
  <2>2. CASE g # h
    BY Zenon, <1>2, <1>3, <2>2, CallDomains DEF GrantAnswered, RenewalAnswered, ReleaseExecuted
  <2> QED BY Zenon, <2>1, <2>2
<1> QED BY Zenon, <1>1, <1>2, <1>3, <1>4, QuietInv

\* BeginRenew keeps the invariant: it leaves the lease table and the budgets alone.
LEMMA BeginRenewInv ==
  ASSUME IInv, TypeOK', NEW h \in Handles, BeginRenew(h)
  PROVE  IInv'
<1>1. CallDiscipline'
  <2> SUFFICES ASSUME NEW g \in Handles PROVE CallFits(g)' /\ LateFits(g)'
    BY Zenon DEF CallDiscipline
  <2>1. CallFits(g) /\ LateFits(g) /\ CallFits(h)
    BY Zenon DEF IInv, CallDiscipline
  <2>2. /\ op'[g] = IF g = h THEN "renew" ELSE op[g]
        /\ stage'[g] = IF g = h THEN "begun" ELSE stage[g]
        /\ state[h] = "active"
        /\ UNCHANGED <<state, record, answer, late>>
    BY Zenon, CallDomains DEF BeginRenew, objectVars
  <2>3. CallFits(g)'
    BY <2>1, <2>2 DEF CallFits, GrantAnswered
  <2>4. LateFits(g)'
    BY Zenon, <2>1, <2>2 DEF LateFits
  <2> QED BY Zenon, <2>3, <2>4
<1>2. UNCHANGED <<serverClock, fence, lease, now, record, wallDeadline, answer>>
  BY Zenon DEF BeginRenew, tableVars, clockVars, objectVars, callVars
<1>3. /\ op[h] = "none" /\ op' = [op EXCEPT ![h] = "renew"]
      /\ stage' = [stage EXCEPT ![h] = "begun"] /\ wallStarted' = wallStarted
      /\ UNCHANGED state
  BY Zenon DEF BeginRenew, objectVars
<1>4. ASSUME NEW g \in Handles
      PROVE  /\ GrantAnswered(g)' <=> GrantAnswered(g)
             /\ RenewalAnswered(g)' => RenewalAnswered(g)
             /\ ReleaseExecuted(g) => ReleaseExecuted(g)'
             /\ \/ wallStarted'[g] = wallStarted[g]
                \/ /\ wallStarted'[g] = now
                   /\ ~GrantAnswered(g)' /\ ~RenewalAnswered(g)'
             /\ op'[g] = "renew" /\ stage'[g] # "begun" =>
                  \/ wallStarted'[g] = now
                  \/ /\ op[g] = "renew" /\ stage[g] # "begun"
                     /\ wallStarted'[g] = wallStarted[g]
  <2>1. CASE g = h
    BY Zenon, <1>2, <1>3, <2>1, CallDomains DEF GrantAnswered, RenewalAnswered, ReleaseExecuted
  <2>2. CASE g # h
    BY Zenon, <1>2, <1>3, <2>2, CallDomains DEF GrantAnswered, RenewalAnswered, ReleaseExecuted
  <2> QED BY Zenon, <2>1, <2>2
<1> QED BY Zenon, <1>1, <1>2, <1>3, <1>4, QuietInv

\* SendRenew keeps the invariant: it leaves the lease table and the budgets alone.
LEMMA SendRenewInv ==
  ASSUME IInv, TypeOK', NEW h \in Handles, SendRenew(h)
  PROVE  IInv'
<1>1. CallDiscipline'
  <2> USE DEF IInv, TypeOK
  <2> SUFFICES ASSUME NEW g \in Handles PROVE CallFits(g)' /\ LateFits(g)'
    BY Zenon DEF CallDiscipline
  <2>1. CallFits(g) /\ LateFits(g) /\ CallFits(h)
    BY Zenon DEF CallDiscipline
  <2>2. /\ stage'[g] = IF g = h THEN "sent" ELSE stage[g]
        /\ stage[h] = "begun"
        /\ UNCHANGED <<op, state, record, answer, late>>
    BY DEF SendRenew, objectVars, callVars
  <2>3. CallFits(g)'
    BY Zenon, <2>1, <2>2 DEF CallFits, GrantAnswered
  <2>4. LateFits(g)'
    BY Zenon, <2>1, <2>2 DEF LateFits
  <2> QED BY Zenon, <2>3, <2>4
<1>2. UNCHANGED <<serverClock, fence, lease, now, record, wallDeadline, answer>>
  BY Zenon DEF SendRenew, tableVars, clockVars, objectVars, callVars
<1>3. /\ stage[h] = "begun" /\ op' = op
      /\ stage' = [stage EXCEPT ![h] = "sent"] /\ wallStarted' = [wallStarted EXCEPT ![h] = now]
      /\ UNCHANGED state
  BY Zenon DEF SendRenew, objectVars
<1>4. ASSUME NEW g \in Handles
      PROVE  /\ GrantAnswered(g)' <=> GrantAnswered(g)
             /\ RenewalAnswered(g)' => RenewalAnswered(g)
             /\ ReleaseExecuted(g) => ReleaseExecuted(g)'
             /\ \/ wallStarted'[g] = wallStarted[g]
                \/ /\ wallStarted'[g] = now
                   /\ ~GrantAnswered(g)' /\ ~RenewalAnswered(g)'
             /\ op'[g] = "renew" /\ stage'[g] # "begun" =>
                  \/ wallStarted'[g] = now
                  \/ /\ op[g] = "renew" /\ stage[g] # "begun"
                     /\ wallStarted'[g] = wallStarted[g]
  <2>1. CASE g = h
    BY Zenon, <1>2, <1>3, <2>1, CallDomains DEF GrantAnswered, RenewalAnswered, ReleaseExecuted
  <2>2. CASE g # h
    BY Zenon, <1>2, <1>3, <2>2, CallDomains DEF GrantAnswered, RenewalAnswered, ReleaseExecuted
  <2> QED BY Zenon, <2>1, <2>2
<1> QED BY Zenon, <1>1, <1>2, <1>3, <1>4, QuietInv

\* BeginValidate keeps the invariant: it leaves the lease table and the budgets alone.
LEMMA BeginValidateInv ==
  ASSUME IInv, TypeOK', NEW h \in Handles, BeginValidate(h)
  PROVE  IInv'
<1>1. CallDiscipline'
  <2> SUFFICES ASSUME NEW g \in Handles PROVE CallFits(g)' /\ LateFits(g)'
    BY Zenon DEF CallDiscipline
  <2>1. CallFits(g) /\ LateFits(g) /\ CallFits(h)
    BY Zenon DEF IInv, CallDiscipline
  <2>2. /\ op'[g] = IF g = h THEN "validate" ELSE op[g]
        /\ stage'[g] = IF g = h THEN "sent" ELSE stage[g]
        /\ state[h] = "active"
        /\ UNCHANGED <<state, record, answer, late>>
    BY Zenon, CallDomains DEF BeginValidate, objectVars
  <2>3. CallFits(g)'
    BY <2>1, <2>2 DEF CallFits, GrantAnswered
  <2>4. LateFits(g)'
    BY Zenon, <2>1, <2>2 DEF LateFits
  <2> QED BY Zenon, <2>3, <2>4
<1>2. UNCHANGED <<serverClock, fence, lease, now, record, wallDeadline, answer>>
  BY Zenon DEF BeginValidate, tableVars, clockVars, objectVars, callVars
<1>3. /\ op[h] = "none" /\ op' = [op EXCEPT ![h] = "validate"]
      /\ stage' = [stage EXCEPT ![h] = "sent"] /\ wallStarted' = wallStarted
      /\ UNCHANGED state
  BY Zenon DEF BeginValidate, objectVars
<1>4. ASSUME NEW g \in Handles
      PROVE  /\ GrantAnswered(g)' <=> GrantAnswered(g)
             /\ RenewalAnswered(g)' => RenewalAnswered(g)
             /\ ReleaseExecuted(g) => ReleaseExecuted(g)'
             /\ \/ wallStarted'[g] = wallStarted[g]
                \/ /\ wallStarted'[g] = now
                   /\ ~GrantAnswered(g)' /\ ~RenewalAnswered(g)'
             /\ op'[g] = "renew" /\ stage'[g] # "begun" =>
                  \/ wallStarted'[g] = now
                  \/ /\ op[g] = "renew" /\ stage[g] # "begun"
                     /\ wallStarted'[g] = wallStarted[g]
  <2>1. CASE g = h
    BY Zenon, <1>2, <1>3, <2>1, CallDomains DEF GrantAnswered, RenewalAnswered, ReleaseExecuted
  <2>2. CASE g # h
    BY Zenon, <1>2, <1>3, <2>2, CallDomains DEF GrantAnswered, RenewalAnswered, ReleaseExecuted
  <2> QED BY Zenon, <2>1, <2>2
<1> QED BY Zenon, <1>1, <1>2, <1>3, <1>4, QuietInv

\* BeginRelease keeps the invariant: it leaves the lease table and the budgets alone.
LEMMA BeginReleaseInv ==
  ASSUME IInv, TypeOK', NEW h \in Handles, BeginRelease(h)
  PROVE  IInv'
<1>1. CallDiscipline'
  <2> SUFFICES ASSUME NEW g \in Handles PROVE CallFits(g)' /\ LateFits(g)'
    BY Zenon DEF CallDiscipline
  <2>1. CallFits(g) /\ LateFits(g) /\ CallFits(h)
    BY Zenon DEF IInv, CallDiscipline
  <2>2. /\ op'[g] = IF g = h THEN "release" ELSE op[g]
        /\ stage'[g] = IF g = h THEN "sent" ELSE stage[g]
        /\ state[h] \in {"active", "expired"}
        /\ UNCHANGED <<state, record, answer, late>>
    BY Zenon, CallDomains DEF BeginRelease, objectVars
  <2>3. CallFits(g)'
    BY Zenon, <2>1, <2>2 DEF CallFits, GrantAnswered
  <2>4. LateFits(g)'
    BY Zenon, <2>1, <2>2 DEF LateFits
  <2> QED BY Zenon, <2>3, <2>4
<1>2. UNCHANGED <<serverClock, fence, lease, now, record, wallDeadline, answer>>
  BY Zenon DEF BeginRelease, tableVars, clockVars, objectVars, callVars
<1>3. /\ op[h] = "none" /\ op' = [op EXCEPT ![h] = "release"]
      /\ stage' = [stage EXCEPT ![h] = "sent"] /\ wallStarted' = wallStarted
      /\ UNCHANGED state
  BY Zenon DEF BeginRelease, objectVars
<1>4. ASSUME NEW g \in Handles
      PROVE  /\ GrantAnswered(g)' <=> GrantAnswered(g)
             /\ RenewalAnswered(g)' => RenewalAnswered(g)
             /\ ReleaseExecuted(g) => ReleaseExecuted(g)'
             /\ \/ wallStarted'[g] = wallStarted[g]
                \/ /\ wallStarted'[g] = now
                   /\ ~GrantAnswered(g)' /\ ~RenewalAnswered(g)'
             /\ op'[g] = "renew" /\ stage'[g] # "begun" =>
                  \/ wallStarted'[g] = now
                  \/ /\ op[g] = "renew" /\ stage[g] # "begun"
                     /\ wallStarted'[g] = wallStarted[g]
  <2>1. CASE g = h
    BY Zenon, <1>2, <1>3, <2>1, CallDomains DEF GrantAnswered, RenewalAnswered, ReleaseExecuted
  <2>2. CASE g # h
    BY Zenon, <1>2, <1>3, <2>2, CallDomains DEF GrantAnswered, RenewalAnswered, ReleaseExecuted
  <2> QED BY Zenon, <2>1, <2>2
<1> QED BY Zenon, <1>1, <1>2, <1>3, <1>4, QuietInv

\* State keeps the invariant: it leaves the lease table and the budgets alone.
LEMMA StateInv ==
  ASSUME IInv, TypeOK', NEW h \in Handles, State(h)
  PROVE  IInv'
<1>1. CallDiscipline'
  <2> USE DEF IInv, TypeOK
  <2> SUFFICES ASSUME NEW g \in Handles PROVE CallFits(g)' /\ LateFits(g)'
    BY Zenon DEF CallDiscipline
  <2>1. CallFits(g) /\ LateFits(g) /\ CallFits(h)
    BY Zenon DEF CallDiscipline
  <2>2. /\ state'[g] = IF g = h THEN expireLocked(h) ELSE state[g]
        /\ state[h] \in Created
        /\ UNCHANGED <<op, stage, record, answer, late>>
    BY DEF State, objectVars, callVars
  <2>3. CallFits(g)'
    BY Zenon, <2>1, <2>2 DEF CallFits, GrantAnswered, expireLocked, Created
  <2>4. LateFits(g)'
    BY Zenon, <2>1, <2>2 DEF LateFits, expireLocked, Created
  <2> QED BY Zenon, <2>3, <2>4
<1>2. UNCHANGED <<serverClock, fence, lease, now, record, wallDeadline, answer>>
  BY Zenon DEF State, tableVars, clockVars, objectVars, callVars
<1>3. UNCHANGED <<op, stage, wallStarted>> /\ state' = [state EXCEPT ![h] = expireLocked(h)]
  BY Zenon DEF State, callVars
<1>4. ASSUME NEW g \in Handles PROVE state'[g] = "active" => state[g] = "active"
  BY Zenon, <1>3 DEF expireLocked, IInv, TypeOK
<1> QED BY Zenon, <1>1, <1>2, <1>3, <1>4, QuietInv
        DEF GrantAnswered, RenewalAnswered, ReleaseExecuted

\* Time takes as much from a budget as from the lease; a backend clock that
\* falls behind only prolongs the lease; the injected clock matters to neither.
LEMMA ClocksInv ==
  ASSUME IInv, TypeOK', Tick \/ AdjustLocalClock \/ SetBackServerClock
  PROVE  IInv'
<1>0. TypeOK /\ CallDiscipline /\ TokenOrder /\ BudgetsStarted /\ LeaseOutlivesBudget
  BY Zenon DEF IInv
<1>1. /\ UNCHANGED <<wallStarted, wallDeadline, state, record, op, stage, answer, late>>
      /\ UNCHANGED <<fence, lease>>
  BY Zenon DEF Tick, AdjustLocalClock, SetBackServerClock, tableVars, objectVars, callVars
<1>2. /\ now \in Int /\ serverClock \in Int /\ now' \in Int /\ serverClock' \in Int
      /\ now' >= now /\ now' - now >= serverClock' - serverClock
  <2>1. now \in Int /\ serverClock \in Int /\ now' \in Int /\ serverClock' \in Int
    BY <1>0 DEF TypeOK, TableTypeOK
  <2>2. CASE Tick
    BY <2>1, <2>2 DEF Tick
  <2>3. CASE AdjustLocalClock
    BY <2>1, <2>3 DEF AdjustLocalClock, tableVars
  <2>4. CASE SetBackServerClock
    <3>1. now' >= now
      BY <2>1, <2>4 DEF SetBackServerClock, clockVars
    <3>2. serverClock' <= serverClock
      BY <2>1, <2>4, HandleConstants DEF SetBackServerClock
    <3>3. \A a, b, c, d \in Int : b >= a /\ d <= c => b - a >= d - c
      OBVIOUS
    <3> QED BY ZenonT(30), <2>1, <3>1, <3>2, <3>3
  <2> QED BY ZenonT(30), <2>1, <2>2, <2>3, <2>4
<1>3. CallDiscipline'
  BY ZenonT(30), <1>0, <1>1 DEF CallDiscipline, CallFits, LateFits, GrantAnswered
<1>4. TokenOrder'
  <2>1. \A g \in Handles : TokenFor(g)' = TokenFor(g)
    BY Zenon, <1>1 DEF TokenFor, GrantAnswered
  <2> QED BY Zenon, <1>0, <1>1, <2>1 DEF TokenOrder
<1>5. BudgetsStarted'
  <2> SUFFICES ASSUME NEW g \in Handles
               PROVE  wallStarted[g] <= now' /\ wallDeadline[g] <= now' + Budget
    BY Zenon, <1>0, <1>1 DEF BudgetsStarted
  <2> QED BY <1>0, <1>2, Budgets DEF BudgetsStarted, TypeOK
<1>6. ASSUME NEW g \in Handles PROVE BudgetCovered(g)'
  <2>1. ASSUME NEW t, NEW d \in Int, Outlives(g, t, d)
        PROVE  /\ lease'[KeyOf[g]] # NoLease
               /\ lease'[KeyOf[g]].owner = OwnerOf[g] /\ lease'[KeyOf[g]].token = t
               /\ lease'[KeyOf[g]].expiresAt - serverClock' >= d - now'
    <3>1. lease[KeyOf[g]].expiresAt \in Int
      BY Zenon, <1>0, ValueTypes
    <3>2. /\ lease[KeyOf[g]] # NoLease /\ lease[KeyOf[g]].owner = OwnerOf[g]
          /\ lease[KeyOf[g]].token = t
          /\ lease[KeyOf[g]].expiresAt - serverClock >= d - now
      BY Zenon, <2>1 DEF Outlives, Owns
    <3>3. \A e, s, s2, n, n2 \in Int :
            e - s >= d - n /\ n2 - n >= s2 - s => e - s2 >= d - n2
      BY <2>1
    <3>4. lease[KeyOf[g]].expiresAt - serverClock' >= d - now'
      BY Zenon, <1>2, <3>1, <3>2, <3>3
    <3> QED BY Zenon, <1>1, <3>2, <3>4
  <2>2. /\ wallDeadline[g] \in Int /\ wallStarted[g] + Budget \in Int
        /\ now' < wallDeadline[g] => now < wallDeadline[g]
        /\ now' < wallStarted[g] + Budget => now < wallStarted[g] + Budget
    BY <1>0, <1>2, Budgets DEF TypeOK
  <2>3. BudgetCovered(g)
    BY Zenon, <1>0 DEF LeaseOutlivesBudget
  <2>4. state[g] = "active" /\ now' < wallDeadline[g] /\ ~ReleaseExecuted(g)
          => Outlives(g, record[g].token, wallDeadline[g])'
    BY Zenon, <1>1, <2>1, <2>2, <2>3 DEF BudgetCovered, Outlives, Owns
  <2>5. RenewalAnswered(g) /\ state[g] = "active" /\ now' < wallDeadline[g]
          => Outlives(g, record[g].token, wallStarted[g] + Budget)'
    BY Zenon, <1>1, <2>1, <2>2, <2>3 DEF BudgetCovered, Outlives, Owns
  <2>6. GrantAnswered(g) /\ now' < wallStarted[g] + Budget
          => Outlives(g, answer[g].record.token, wallStarted[g] + Budget)'
    BY Zenon, <1>1, <2>1, <2>2, <2>3 DEF BudgetCovered, Outlives, Owns
  <2> QED BY Zenon, <1>1, <2>4, <2>5, <2>6
          DEF BudgetCovered, ReleaseExecuted, RenewalAnswered, GrantAnswered
<1> QED BY Zenon, <1>3, <1>4, <1>5, <1>6 DEF IInv, LeaseOutlivesBudget

\* The invariant holds at the start and every step keeps it.
THEOREM Invariance == Spec => []IInv
<1>1. Init => IInv
  <2> SUFFICES ASSUME Init PROVE IInv
    BY Zenon
  <2>1. TypeOK
    BY Zenon, InitTypeOK
  <2>2. CallDiscipline
    BY Zenon DEF Init, CallDiscipline, CallFits, LateFits, GrantAnswered, Created
  <2>3. TokenOrder
    <3>1. NoLease.token = 0
      BY Zenon DEF NoLease
    <3>2. \A k \in Key : lease[k] = NoLease /\ fence[k] = 0
      BY Zenon DEF Init
    <3>3. \A h \in Handles : TokenFor(h) = 0 /\ KeyOf[h] \in Key
      <4>1. \A h \in Handles : record[h] = NoLease /\ op[h] = "none"
        BY Zenon DEF Init
      <4>2. \A h \in Handles : KeyOf[h] \in Key
        BY Zenon, HandleConstants
      <4> QED BY Zenon, <3>1, <4>1, <4>2 DEF TokenFor, GrantAnswered
    <3>4. 0 <= 0
      OBVIOUS
    <3> QED BY Zenon, <3>1, <3>2, <3>3, <3>4 DEF TokenOrder
  <2>4. BudgetsStarted
    BY SMTT(60), Budgets DEF Init, BudgetsStarted
  <2>5. LeaseOutlivesBudget
    BY Zenon DEF Init, LeaseOutlivesBudget, BudgetCovered, RenewalAnswered, GrantAnswered
  <2> QED BY Zenon, <2>1, <2>2, <2>3, <2>4, <2>5 DEF IInv
<1>2. IInv /\ [Next]_vars => IInv'
  <2> SUFFICES ASSUME IInv, [Next]_vars PROVE IInv'
    BY Zenon
  <2>0. TypeOK'
    BY Zenon, NextTypeOK DEF IInv
  <2>1. ASSUME NEW h \in Handles,
               \/ TryAcquire(h) \/ BeginRenew(h) \/ SendRenew(h) \/ BeginValidate(h)
               \/ BeginRelease(h) \/ State(h)
        PROVE  IInv'
    BY Zenon, <2>0, <2>1, TryAcquireInv, BeginRenewInv, SendRenewInv, BeginValidateInv,
       BeginReleaseInv, StateInv
  <2>2. ASSUME NEW h \in Handles, Serve(h) PROVE IInv'
    BY Zenon, <2>0, <2>2, ServeInv
  <2>3. ASSUME NEW h \in Handles,
               \/ FinishAcquire(h) \/ finishActiveOperation(h) \/ FinishRelease(h)
               \/ Abandon(h)
        PROVE  IInv'
    BY Zenon, <2>0, <2>3, FinishAcquireInv, finishActiveOperationInv, FinishReleaseInv, AbandonInv
  <2>4. ASSUME NEW h \in Handles, NEW o \in Mutation, ServeLate(o, h) PROVE IInv'
    BY Zenon, <2>0, <2>4, ServeLateInv
  <2>5. ASSUME NEW k \in Key, DropExpired(k) PROVE IInv'
    BY Zenon, <2>0, <2>5, DropExpiredInv
  <2>6. CASE Tick \/ AdjustLocalClock \/ SetBackServerClock
    BY Zenon, <2>0, <2>6, ClocksInv
  <2>7. CASE UNCHANGED vars
    <3>1. UNCHANGED <<serverClock, fence, lease, now, state, record, wallDeadline,
                      op, stage, wallStarted, answer, late>>
      BY Zenon, <2>7 DEF vars, tableVars, clockVars, objectVars, callVars
    <3>2. CallDiscipline'
      BY ZenonT(30), <3>1 DEF IInv, CallDiscipline, CallFits, LateFits, GrantAnswered
    <3> QED BY Zenon, <2>0, <3>1, <3>2, QuietInv
            DEF GrantAnswered, RenewalAnswered, ReleaseExecuted
  <2> QED BY Zenon, <2>1, <2>2, <2>3, <2>4, <2>5, <2>6, <2>7 DEF Next
<1> QED BY <1>1, <1>2, PTL DEF Spec

\* An admitted handle's budget has not run out, so its lease has not either.
LEMMA InvAdmission == IInv => AdmissionImpliesOwnership
<1> SUFFICES ASSUME IInv, NEW h \in Handles, Admits(h), ~ReleaseExecuted(h)
             PROVE  Holds(h)
  BY Zenon DEF AdmissionImpliesOwnership
<1>1. /\ now \in Int /\ serverClock \in Int /\ wallDeadline[h] \in Int
      /\ lease[KeyOf[h]].expiresAt \in Int /\ BudgetCovered(h)
  BY ValueTypes DEF IInv, TypeOK, TableTypeOK, LeaseOutlivesBudget
<1>2. state[h] = "active" /\ now < wallDeadline[h]
  BY SMTT(60), <1>1 DEF Admits, pastDeadline
<1>3. Outlives(h, record[h].token, wallDeadline[h])
  BY Zenon, <1>1, <1>2 DEF BudgetCovered
<1> QED BY SMTT(30), <1>1, <1>2, <1>3 DEF Holds, Outlives, Usable

\* The handle whose lease is in force has the highest token of its key.
LEMMA InvFencing == IInv => AdmittedTokenIsHighest
<1> SUFFICES ASSUME IInv, NEW g \in Handles, NEW h \in Handles, g # h,
                    KeyOf[g] = KeyOf[h], state[g] \in Created,
                    Admits(h), ~ReleaseExecuted(h)
             PROVE  record[g].token < record[h].token
  BY Zenon DEF AdmittedTokenIsHighest
<1>1. Holds(h)
  BY Zenon, InvAdmission DEF AdmissionImpliesOwnership
<1>2. TokenFor(g) = record[g].token /\ TokenFor(h) = record[h].token
  BY Zenon DEF IInv, CallDiscipline, CallFits, TokenFor, GrantAnswered, Created, Admits
<1>3. /\ TokenFor(g) <= lease[KeyOf[h]].token
      /\ TokenFor(g) = TokenFor(h) => TokenFor(g) = 0
  BY Zenon, <1>1 DEF IInv, TokenOrder, Holds, Usable
<1>4. /\ lease[KeyOf[h]].token = record[h].token /\ record[h].token > 0
      /\ record[g].token \in Nat /\ record[h].token \in Nat
  BY Zenon, <1>1, ValueTypes DEF IInv, Holds, Usable, Owns
<1>5. \A a, b \in Nat : a <= b /\ b > 0 /\ (a = b => a = 0) => a < b
  BY SMTT(30)
<1> QED BY Zenon, <1>2, <1>3, <1>4, <1>5

\* Local admission is never wrong, for any number of clients, any schedule of
\* calls, lost answers and late requests, and any backend clock that does not
\* gain on real time.
THEOREM AdmissionIsOwnership == Spec => []AdmissionImpliesOwnership
BY Invariance, InvAdmission, PTL

\* No handle of a key can have a token as high as the admitted one's.
THEOREM Fencing == Spec => []AdmittedTokenIsHighest
BY Invariance, InvFencing, PTL

\* Two handles of a key are admitted together only while one is returning from
\* Release: each would otherwise have the higher token.
THEOREM MutualExclusion == Spec => []AtMostOneAdmitted
<1>1. IInv => AtMostOneAdmitted
  <2> SUFFICES ASSUME IInv, NEW g \in Handles, NEW h \in Handles, g # h,
                      KeyOf[g] = KeyOf[h], Admits(g), Admits(h),
                      ~ReleaseExecuted(g), ~ReleaseExecuted(h)
               PROVE  FALSE
    BY Zenon DEF AtMostOneAdmitted
  <2>1. record[g].token < record[h].token /\ record[h].token < record[g].token
    BY Zenon, InvFencing DEF AdmittedTokenIsHighest, Admits, Created
  <2>2. record[g].token \in Nat /\ record[h].token \in Nat
    BY Zenon, ValueTypes DEF IInv
  <2>3. \A a, b \in Nat : ~(a < b /\ b < a)
    OBVIOUS
  <2> QED BY Zenon, <2>1, <2>2, <2>3
<1> QED BY <1>1, Invariance, PTL

\* What one step may do to a Handle object: keep it, renew it while its budget
\* lasts, or end it; and real time never runs back.
LEMMA HandleSteps ==
  ASSUME IInv, TypeOK', [Next]_vars, NEW g \in Handles, state[g] \in Created
  PROVE  /\ now' >= now
         /\ \/ state'[g] = state[g] /\ wallDeadline'[g] = wallDeadline[g]
            \/ state[g] = "active" /\ state'[g] = "active" /\ ~(now >= wallDeadline[g])
            \/ state[g] = "active" /\ state'[g] \in Created \ {"active"}
            \/ state[g] = "expired" /\ state'[g] \in {"expired", "released"}
<1>0. TypeOK /\ CallDiscipline /\ now \in Int /\ now' \in Int
  BY SMTT(60) DEF IInv, TypeOK
<1>1. ASSUME NEW h \in Handles,
             \/ TryAcquire(h) \/ BeginRenew(h) \/ SendRenew(h) \/ BeginValidate(h)
             \/ BeginRelease(h) \/ Serve(h) \/ \E o \in Mutation : ServeLate(o, h)
      PROVE  UNCHANGED <<now, state, wallDeadline>>
  BY ZenonT(30), <1>1 DEF TryAcquire, BeginRenew, SendRenew, BeginValidate, BeginRelease, Serve,
              ServeLate, clockVars, objectVars
<1>2. ASSUME NEW h \in Handles, State(h)
      PROVE  /\ UNCHANGED <<now, wallDeadline>>
             /\ state'[g] = state[g] \/ (state[g] = "active" /\ state'[g] = "expired")
  BY Zenon, <1>0, <1>2 DEF State, clockVars, expireLocked, TypeOK
<1>3. ASSUME NEW h \in Handles, FinishAcquire(h)
      PROVE  UNCHANGED now /\ state'[g] = state[g] /\ wallDeadline'[g] = wallDeadline[g]
  <2>1. state[h] = "new" /\ g # h
    BY Zenon, <1>0, <1>3 DEF FinishAcquire, CallDiscipline, CallFits, Created
  <2> QED BY <1>0, <1>3, <2>1 DEF FinishAcquire, clockVars, TypeOK
<1>4. ASSUME NEW h \in Handles, finishActiveOperation(h)
      PROVE  /\ UNCHANGED now
             /\ \/ state'[g] = state[g] /\ wallDeadline'[g] = wallDeadline[g]
                \/ state[g] = "active" /\ state'[g] = "active" /\ ~(now >= wallDeadline[g])
                \/ state[g] = "active" /\ state'[g] \in Created \ {"active"}
  <2>1. CASE g # h
    <3>1. UNCHANGED now
      BY Zenon, <1>4 DEF finishActiveOperation, clockVars
    <3>2. DOMAIN state = Handles /\ DOMAIN wallDeadline = Handles
      BY Zenon, <1>0 DEF TypeOK
    <3>3. state'[g] = state[g]
      BY ZenonT(30), <1>4, <2>1, <3>2 DEF finishActiveOperation
    <3>4. wallDeadline'[g] = wallDeadline[g]
      BY ZenonT(30), <1>4, <2>1, <3>2 DEF finishActiveOperation
    <3> QED BY Zenon, <3>1, <3>3, <3>4
  <2>2. CASE g = h
    <3>1. state[h] \in {"active", "expired"}
      BY Zenon, <1>0, <1>4 DEF finishActiveOperation, CallDiscipline, CallFits
    <3> QED BY Zenon, <1>0, <1>4, <2>2, <3>1
            DEF finishActiveOperation, clockVars, expireLocked, pastDeadline, failLocked,
                TypeOK, Created
  <2> QED BY Zenon, <2>1, <2>2
<1>5. ASSUME NEW h \in Handles, FinishRelease(h) \/ Abandon(h)
      PROVE  /\ UNCHANGED <<now, wallDeadline>>
             /\ \/ state'[g] = state[g]
                \/ state[g] = "active" /\ state'[g] \in Created \ {"active"}
                \/ state[g] = "expired" /\ state'[g] \in {"expired", "released"}
  <2>1. CASE g # h
    BY Zenon, <1>0, <1>5, <2>1 DEF FinishRelease, Abandon, clockVars, TypeOK
  <2>2. CASE g = h
    <3>1. op[h] # "none" /\ op[h] # "acquire" /\ state[h] \in {"active", "expired"}
      BY Zenon, <1>0, <1>5, <2>2
      DEF FinishRelease, Abandon, CallDiscipline, CallFits, Created, TypeOK, Mutation
    <3>2. CASE FinishRelease(h)
      BY Zenon, <1>0, <2>2, <3>1, <3>2 DEF FinishRelease, clockVars, failLocked, TypeOK, Created
    <3>3. CASE Abandon(h)
      BY Zenon, <1>0, <2>2, <3>1, <3>3
      DEF Abandon, clockVars, failLocked, expireLocked, TypeOK, Created
    <3> QED BY Zenon, <1>5, <3>2, <3>3
  <2> QED BY Zenon, <2>1, <2>2
<1>6. ASSUME NEW k \in Key, DropExpired(k)
      PROVE  UNCHANGED <<now, state, wallDeadline>>
  BY Zenon, <1>6 DEF DropExpired, clockVars, objectVars
<1>7. CASE Tick \/ AdjustLocalClock \/ SetBackServerClock
  <2>1. UNCHANGED <<state, wallDeadline>>
    BY Zenon, <1>7 DEF Tick, AdjustLocalClock, SetBackServerClock, objectVars
  <2>2. now' >= now
    BY <1>0, <1>7 DEF Tick, AdjustLocalClock, SetBackServerClock, clockVars
  <2> QED BY Zenon, <2>1, <2>2
<1>8. CASE UNCHANGED vars
  BY <1>0, <1>8 DEF vars, clockVars, objectVars
<1> DEFINE Kept == /\ now' >= now
                   /\ \/ state'[g] = state[g] /\ wallDeadline'[g] = wallDeadline[g]
                      \/ state[g] = "active" /\ state'[g] = "active" /\ ~(now >= wallDeadline[g])
                      \/ state[g] = "active" /\ state'[g] \in Created \ {"active"}
                      \/ state[g] = "expired" /\ state'[g] \in {"expired", "released"}
<1>9. now >= now /\ "expired" \in Created \ {"active"}
  BY <1>0 DEF Created
<1>10. ASSUME UNCHANGED <<now, state, wallDeadline>> PROVE Kept
  BY Zenon, <1>9, <1>10
<1>11. ASSUME NEW h \in Handles, State(h) PROVE Kept
  BY Zenon, <1>2, <1>9, <1>11
<1>12. ASSUME NEW h \in Handles, FinishAcquire(h) PROVE Kept
  BY Zenon, <1>3, <1>9, <1>12
<1>13. ASSUME NEW h \in Handles, finishActiveOperation(h) PROVE Kept
  BY Zenon, <1>4, <1>9, <1>13
<1>14. ASSUME NEW h \in Handles, FinishRelease(h) \/ Abandon(h) PROVE Kept
  BY Zenon, <1>5, <1>9, <1>14
<1>15. ASSUME Tick \/ AdjustLocalClock \/ SetBackServerClock PROVE Kept
  BY Zenon, <1>7, <1>15
<1>16. ASSUME UNCHANGED vars PROVE Kept
  BY Zenon, <1>8, <1>9, <1>16
<1> HIDE DEF Kept
<1>17. Kept
  BY Zenon, <1>1, <1>6, <1>10, <1>11, <1>12, <1>13, <1>14, <1>15, <1>16 DEF Next
<1> QED BY Zenon, <1>17 DEF Kept

\* No answer, however late, and no clock adjustment admits a handle again after
\* its real-time deadline or after it has left the active state.
THEOREM LateSuccessDoesNotRevive == Spec => NoRevival
<1>1. IInv /\ [Next]_vars =>
        [\A h \in Handles :
           /\ state[h] \in Created
           /\ state[h] # "active" \/ now >= wallDeadline[h]
           => ~Admits(h)']_vars
  <2> SUFFICES ASSUME IInv, [Next]_vars, NEW h \in Handles, state[h] \in Created,
                      state[h] # "active" \/ now >= wallDeadline[h], Admits(h)'
               PROVE  FALSE
    BY Zenon
  <2>0. TypeOK'
    BY Zenon, NextTypeOK DEF IInv
  <2>1. state'[h] = "active" /\ ~(now' >= wallDeadline'[h])
    BY Zenon DEF Admits, pastDeadline
  <2>2. state[h] = "active" /\ wallDeadline'[h] = wallDeadline[h] /\ now' >= now
    BY Zenon, <2>0, <2>1, HandleSteps
  <2>3. now \in Int /\ now' \in Int /\ wallDeadline[h] \in Int
    BY <2>0 DEF IInv, TypeOK
  <2>4. \A a, b, c \in Int : b >= a /\ a >= c => b >= c
    OBVIOUS
  <2> QED BY Zenon, <2>1, <2>2, <2>3, <2>4
<1> QED BY <1>1, Invariance, PTL DEF Spec, NoRevival

\* Whatever was in flight when a handle ended, it stays ended.
THEOREM EndedHandlesStayEnded == Spec => TerminalStates
<1>1. IInv /\ [Next]_vars =>
        [\A h \in Handles :
           /\ state[h] \in {"lost", "uncertain", "released"} => state'[h] = state[h]
           /\ state[h] = "expired" => state'[h] \in {"expired", "released"}]_vars
  <2> SUFFICES ASSUME IInv, [Next]_vars, NEW h \in Handles
               PROVE  /\ state[h] \in {"lost", "uncertain", "released"} => state'[h] = state[h]
                      /\ state[h] = "expired" => state'[h] \in {"expired", "released"}
    BY Zenon
  <2>0. TypeOK'
    BY Zenon, NextTypeOK DEF IInv
  <2> QED BY Zenon, <2>0, HandleSteps DEF Created
<1> QED BY <1>1, Invariance, PTL DEF Spec, TerminalStates

\* A request changes a usable lease only if it is a renewal or a release that
\* carries the lease's owner and token.
LEMMA ExecuteChanges ==
  ASSUME TypeOK, NEW h \in Handles, NEW o, NEW at \in Int, at <= serverClock,
         Execute(h, o, at),
         NEW k \in Key, Usable(serverClock, k), lease'[k] # lease[k]
  PROVE  /\ KeyOf[h] = k /\ lease[k].owner = OwnerOf[h] /\ lease[k].token = record[h].token
         /\ o \in {"renew", "release"}
<1>0. KeyOf[h] \in Key /\ lease \in [Key -> Record \cup {NoLease}]
  BY Zenon, HandleConstants DEF TypeOK, TableTypeOK
<1>1. ASSUME NEW n, Grant(at, KeyOf[h], OwnerOf[h], n, ServerTTL) PROVE FALSE
  BY Zenon, <1>0, <1>1, UsableBefore DEF Grant
<1>2. ASSUME UNCHANGED lease PROVE FALSE
  BY Zenon, <1>2
<1>3. CASE o = "renew" /\ Extend(at, KeyOf[h], OwnerOf[h], record[h].token, ServerTTL)
  BY Zenon, <1>0, <1>3 DEF Extend, Owns
<1>4. CASE o = "release" /\ Vacate(KeyOf[h], OwnerOf[h], record[h].token)
  BY Zenon, <1>0, <1>4 DEF Vacate, Owns
<1> QED BY ZenonT(30), <1>1, <1>2, <1>3, <1>4 DEF Execute, Contend, tableVars

\* Requests that arrive late, of predecessors and of acquisitions nobody waits
\* for, leave a lease in force alone.
THEOREM HolderOnly == Spec => OnlyHolderChangesUsableLease
<1>1. ASSUME IInv, [Next]_vars, NEW k \in Key, Usable(serverClock, k), lease'[k] # lease[k]
      PROVE  \E h \in Handles :
               /\ KeyOf[h] = k
               /\ lease[k].owner = OwnerOf[h] /\ lease[k].token = record[h].token
               /\ \E o \in {"renew", "release"} : op[h] = o \/ <<o, h>> \in late
  <2>0. TypeOK
    BY Zenon, <1>1 DEF IInv
  <2>1. ASSUME NEW h \in Handles, Serve(h)
        PROVE  /\ KeyOf[h] = k /\ lease[k].owner = OwnerOf[h] /\ lease[k].token = record[h].token
               /\ op[h] \in {"renew", "release"}
    <3>1. PICK at \in Int : at <= serverClock /\ Execute(h, op[h], at)
      BY Zenon, <2>0, <2>1, ServeReading
    <3> QED BY Zenon, <1>1, <2>0, <3>1, ExecuteChanges
  <2>2. ASSUME NEW h \in Handles, NEW o \in Mutation, ServeLate(o, h)
        PROVE  /\ KeyOf[h] = k /\ lease[k].owner = OwnerOf[h] /\ lease[k].token = record[h].token
               /\ o \in {"renew", "release"} /\ <<o, h>> \in late
    <3>1. <<o, h>> \in late
      BY Zenon, <2>2 DEF ServeLate
    <3>2. PICK at \in Int : at <= serverClock /\ Execute(h, o, at)
      BY Zenon, <2>0, <2>2, LateReading
    <3> QED BY Zenon, <1>1, <2>0, <3>1, <3>2, ExecuteChanges
  <2>3. ASSUME NEW h \in Handles,
               \/ TryAcquire(h) \/ BeginRenew(h) \/ SendRenew(h) \/ BeginValidate(h)
               \/ BeginRelease(h) \/ State(h)
        PROVE  FALSE
    BY ZenonT(30), <1>1, <2>3
    DEF TryAcquire, BeginRenew, SendRenew, BeginValidate, BeginRelease, State, tableVars
  <2>4. ASSUME NEW h \in Handles,
               FinishAcquire(h) \/ finishActiveOperation(h) \/ FinishRelease(h) \/ Abandon(h)
        PROVE  FALSE
    BY ZenonT(30), <1>1, <2>4
    DEF FinishAcquire, finishActiveOperation, FinishRelease, Abandon, tableVars
  <2>5. ASSUME NEW x \in Key, DropExpired(x) PROVE FALSE
    <3>1. lease' = [lease EXCEPT ![x] = NoLease] /\ ~Usable(serverClock, x)
      BY Zenon, <2>5 DEF DropExpired, Lapse
    <3> QED BY Zenon, <1>1, <2>0, <3>1 DEF TypeOK, TableTypeOK
  <2>6. CASE Tick \/ AdjustLocalClock \/ SetBackServerClock \/ UNCHANGED vars
    BY ZenonT(30), <1>1, <2>6 DEF Tick, AdjustLocalClock, SetBackServerClock, vars, tableVars
  <2> QED BY Zenon, <1>1, <2>1, <2>2, <2>3, <2>4, <2>5, <2>6 DEF Next
<1>2. IInv /\ [Next]_vars =>
        [\A k \in Key :
           Usable(serverClock, k) /\ lease'[k] # lease[k] =>
             \E h \in Handles :
               /\ KeyOf[h] = k
               /\ lease[k].owner = OwnerOf[h] /\ lease[k].token = record[h].token
               /\ \E o \in {"renew", "release"} : op[h] = o \/ <<o, h>> \in late]_vars
  BY Zenon, <1>1
<1> QED BY <1>2, Invariance, PTL DEF Spec, OnlyHolderChangesUsableLease
===============================================================================
