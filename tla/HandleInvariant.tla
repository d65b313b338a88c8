--------------------------- MODULE HandleInvariant ---------------------------
(***************************************************************************)
(* The inductive invariant behind the safety properties of module Handle.  *)
(***************************************************************************)
EXTENDS Handle

\* An acquisition the backend has granted and the client not yet taken up.
GrantAnswered(h) ==
  op[h] = "acquire" /\ stage[h] = "answered" /\ answer[h].err = "nil"

\* A renewal the backend has made and the handle not yet taken up.
RenewalAnswered(h) ==
  op[h] = "renew" /\ stage[h] = "answered" /\ answer[h].err = "nil"

\* The token that stands for handle h: its record's, or the one on its way.
TokenFor(h) ==
  IF GrantAnswered(h) THEN answer[h].record.token ELSE record[h].token

\* A handle's remote operation and its state fit together.
CallFits(h) ==
  /\ stage[h] = "idle" <=> op[h] = "none"
  /\ stage[h] = "begun" => op[h] = "renew"
  /\ op[h] = "acquire" => state[h] = "new"
  /\ op[h] \in {"renew", "validate", "release"} => state[h] \in {"active", "expired"}
  /\ state[h] \in {"new", "failed"} => record[h] = NoLease
  /\ state[h] \in Created => record[h] \in Record /\ record[h].owner = OwnerOf[h]
  /\ GrantAnswered(h) => answer[h].record \in Record

\* An abandoned request left its handle unable to be admitted.
LateFits(h) ==
  /\ <<"acquire", h>> \in late => state[h] = "failed"
  /\ \A o \in {"renew", "release"} :
       <<o, h>> \in late => state[h] \in Created /\ state[h] # "active"

CallDiscipline == \A h \in Handles : CallFits(h) /\ LateFits(h)

\* No two handles of a key share a token, none is above the fence, and the
\* lease in force has the highest of them.
TokenOrder ==
  /\ \A k \in Key : lease[k].token <= fence[k]
  /\ \A h \in Handles :
       /\ TokenFor(h) <= fence[KeyOf[h]]
       /\ lease[KeyOf[h]] # NoLease => TokenFor(h) <= lease[KeyOf[h]].token
  /\ \A g, h \in Handles :
       g # h /\ KeyOf[g] = KeyOf[h] /\ TokenFor(g) = TokenFor(h) => TokenFor(g) = 0

\* Budgets are counted from a moment that is already past, and the one that a
\* renewal replaces from an earlier moment than its own.
BudgetsStarted ==
  \A h \in Handles :
    /\ wallStarted[h] <= now /\ wallDeadline[h] <= now + Budget
    /\ op[h] = "renew" /\ stage[h] # "begun" => wallDeadline[h] <= wallStarted[h] + Budget

\* The backend's lease for token t outlives real time d.
Outlives(h, t, d) ==
  LET k == KeyOf[h]
  IN  /\ lease[k] # NoLease /\ Owns(k, OwnerOf[h], t)
      /\ lease[k].expiresAt - serverClock >= d - now

\* While a handle's real-time budget lasts (the one it has, the one a served
\* acquisition or renewal is about to give it), the lease lasts longer.
BudgetCovered(h) ==
  /\ state[h] = "active" /\ now < wallDeadline[h] /\ ~ReleaseExecuted(h)
       => Outlives(h, record[h].token, wallDeadline[h])
  /\ RenewalAnswered(h) /\ state[h] = "active" /\ now < wallDeadline[h]
       => Outlives(h, record[h].token, wallStarted[h] + Budget)
  /\ GrantAnswered(h) /\ now < wallStarted[h] + Budget
       => Outlives(h, answer[h].record.token, wallStarted[h] + Budget)

LeaseOutlivesBudget == \A h \in Handles : BudgetCovered(h)

\* Everything a step of the handles, the backend or the clocks relies on.
IInv ==
  /\ TypeOK
  /\ CallDiscipline
  /\ TokenOrder
  /\ BudgetsStarted
  /\ LeaseOutlivesBudget
===============================================================================
