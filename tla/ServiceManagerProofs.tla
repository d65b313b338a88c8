------------------------- MODULE ServiceManagerProofs -------------------------
(***************************************************************************)
(* ManagerInv of module ServiceManager is inductive, for any number of     *)
(* callers, of Shutdown calls and of renewal slots and for any bound on    *)
(* the handles.                                                            *)
(***************************************************************************)
EXTENDS ServiceManager, ManagedProofs

\* The variables of the manager, its callers and its cleanup have their types.
Callers == {"idle", "acquire", "start", "rollback", "rolling", "undo", "register", "await",
            "handle", "error"}

FieldsTyped ==
  /\ active \in 0..max /\ acquiring \in 0..max /\ closed \in BOOLEAN
  /\ entries \in Seq(Handles) /\ gate \in Nat /\ gatesClosed \subseteq Nat
  /\ shutdownDone \in {"nil", "open", "closed"} /\ shutdownErr \in BOOLEAN

CleanupTyped ==
  /\ todo \in Seq(Handles) /\ awaited \in Nat /\ index \in Nat /\ result \in BOOLEAN
  /\ cleanup \in {"none", "begun", "waiting", "stop", "release", "releasing", "finish", "done"}

CallersTyped ==
  /\ caller \in [Handles -> Callers] /\ callerDone \in [Handles -> BOOLEAN]
  /\ stopper \in [Stoppers -> {"idle", "waiting", "nil", "failed", "canceled"}]

\* ManagerInv is these parts, before a step and after it.
LEMMA ManagerParts ==
  /\ ManagerInv => /\ FieldsTyped /\ CleanupTyped /\ CallersTyped /\ TypeOK /\ RenewalInv
                   /\ Counted /\ Progress /\ NoneForgotten /\ CleanedUp
  /\ FieldsTyped' /\ CleanupTyped' /\ CallersTyped' /\ RenewalInv'
     /\ Counted' /\ Progress' /\ NoneForgotten' /\ CleanedUp' => ManagerInv'
<1>1. RenewalInv' => TypeOK'
  BY Zenon DEF RenewalInv
<1> QED BY Zenon, <1>1 DEF ManagerInv, ManagerTypeOK, FieldsTyped, CleanupTyped, CallersTyped, Callers

\* The manager's numbers.
LEMMA Numbers ==
  ASSUME ManagerInv
  PROVE  /\ active \in Nat /\ acquiring \in Nat /\ gate \in Nat /\ max \in Nat
         /\ Len(entries) \in Nat /\ active = acquiring + Len(entries) /\ active <= max
<1>1. FieldsTyped /\ Counted
  BY Zenon, ManagerParts
<1>2. active \in 0..max /\ acquiring \in 0..max /\ max \in Nat
  BY Zenon, <1>1, ManagerConstants DEF FieldsTyped
<1>3. Len(entries) \in Nat
  BY <1>1 DEF FieldsTyped
<1>4. active \in Nat /\ acquiring \in Nat /\ active <= max
  BY <1>2
<1> QED BY Zenon, <1>1, <1>2, <1>3, <1>4 DEF FieldsTyped, Counted

\* What the cleanup works on is what the manager keeps.
LEMMA TodoIsKept ==
  ASSUME ManagerInv
  PROVE  todo = <<>> \/ todo = kept
<1>1. CleanupTyped /\ Progress
  BY Zenon, ManagerParts
<1> QED BY Zenon, <1>1 DEF CleanupTyped, Progress, kept

\* An acquisition in flight is counted, so the cleanup has copied nothing yet.
LEMMA InFlightCounts ==
  ASSUME ManagerInv, NEW h \in inFlight
  PROVE  /\ acquiring > 0 /\ gate \notin gatesClosed
         /\ cleanup \in {"none", "begun", "waiting"}
         /\ todo = <<>> /\ index = 1 /\ kept = entries
<1>1. FieldsTyped /\ CleanupTyped /\ Counted /\ Progress
  BY Zenon, ManagerParts
<1>2. acquiring # 0
  <2>1. IsFiniteSet(inFlight) /\ acquiring = Cardinality(inFlight)
    BY Zenon, <1>1 DEF Counted
  <2>2. Cardinality(inFlight) = 0 <=> inFlight = {}
    BY Zenon, <2>1, FS_EmptySet
  <2> QED BY Zenon, <2>1, <2>2
<1>3. acquiring > 0
  BY <1>1, <1>2 DEF FieldsTyped
<1>4. cleanup \in {"none", "begun", "waiting"}
  BY Zenon, <1>1, <1>2 DEF CleanupTyped, Progress
<1> QED BY Zenon, <1>1, <1>3, <1>4 DEF Counted, Progress, kept

-------------------------------------------------------------------------------
(* What a step leaves alone *)

LEMMA CountedStays ==
  ASSUME Counted, UNCHANGED <<active, acquiring, entries, gate, gatesClosed>>,
         inFlight' = inFlight
  PROVE  Counted'
BY Zenon DEF Counted

LEMMA ProgressStays ==
  ASSUME Progress, UNCHANGED <<managerVars, cleanupVars, stopper>>
  PROVE  Progress'
BY Zenon DEF Progress, managerVars, cleanupVars

LEMMA NoneForgottenStays ==
  ASSUME NoneForgotten, kept' = kept,
         \A i \in 1..Len(kept) : caller'[kept[i]] \in {"handle", "await", "error"},
         \A h \in Handles :
           caller'[h] = "handle" \/ (renewer'[h] # "none" /\ caller'[h] # "register") =>
             caller[h] = "handle" \/ (renewer[h] # "none" /\ caller[h] # "register")
  PROVE  NoneForgotten'
BY Zenon DEF NoneForgotten

LEMMA CleanedUpStays ==
  ASSUME CleanedUp, UNCHANGED cleanupVars,
         \A i \in 1..Len(todo) :
           /\ renewer[todo[i]] \in {"none", "done"} => renewer'[todo[i]] \in {"none", "done"}
           /\ state[todo[i]] = "released" => state'[todo[i]] = "released"
  PROVE  CleanedUp'
BY Zenon DEF CleanedUp, cleanupVars

\* The types of what a step leaves alone.
LEMMA TypesStay ==
  ASSUME ManagerInv
  PROVE  /\ UNCHANGED managerVars => FieldsTyped'
         /\ UNCHANGED cleanupVars => CleanupTyped'
         /\ UNCHANGED <<caller, callerDone, stopper>> => CallersTyped'
<1>1. FieldsTyped /\ CleanupTyped /\ CallersTyped
  BY Zenon, ManagerParts
<1> QED BY Zenon, <1>1 DEF FieldsTyped, CleanupTyped, CallersTyped, managerVars, cleanupVars

\* kept depends on the cleanup and on the entries.
LEMMA KeptStays ==
  ASSUME UNCHANGED <<cleanup, todo, entries>>
  PROVE  kept' = kept
BY Zenon DEF kept

\* A step of a handle, of its renewer or of its user: a renewer that has been
\* joined and a handle that has been released stay so.
LEMMA HandleStep ==
  ASSUME ManagerInv, UNCHANGED <<managerVars, cleanupVars, caller, stopper>>,
         callerDone' \in [Handles -> BOOLEAN], RenewalInv',
         \A h \in Handles :
           /\ renewer[h] \in {"none", "done"} => renewer'[h] = renewer[h]
           /\ state[h] = "released" => state'[h] = "released"
  PROVE  ManagerInv'
<1>1. /\ FieldsTyped /\ CleanupTyped /\ CallersTyped /\ TypeOK
      /\ Counted /\ Progress /\ NoneForgotten /\ CleanedUp
  BY Zenon, ManagerParts
<1>2. FieldsTyped' /\ CleanupTyped'
  BY Zenon, TypesStay
<1>3. CallersTyped'
  BY Zenon, <1>1 DEF CallersTyped
<1>4. caller' = caller /\ UNCHANGED <<active, acquiring, entries, gate, gatesClosed>>
      /\ todo' = todo /\ cleanup' = cleanup
  BY Zenon DEF managerVars, cleanupVars
<1>5. inFlight' = inFlight /\ kept' = kept
  BY Zenon, <1>4, KeptStays DEF inFlight
<1>6. \A i \in 1..Len(todo) : todo[i] \in Handles
  BY <1>1 DEF CleanupTyped
<1>7. Counted'
  BY Zenon, <1>1, <1>4, <1>5, CountedStays
<1>8. NoneForgotten'
  <2>1. \A i \in 1..Len(kept) : caller'[kept[i]] \in {"handle", "await", "error"}
    BY Zenon, <1>1, <1>4 DEF NoneForgotten
  <2>2. \A h \in Handles : renewer'[h] # "none" => renewer[h] # "none"
    BY Zenon
  <2> QED BY Zenon, <1>1, <1>4, <1>5, <2>1, <2>2, NoneForgottenStays
<1>9. CleanedUp'
  BY Zenon, <1>1, <1>6, CleanedUpStays
<1> QED BY Zenon, <1>1, <1>2, <1>3, <1>7, <1>8, <1>9, ProgressStays, ManagerParts

-------------------------------------------------------------------------------
(* The application and the renewers *)

\* A released handle stays released, whatever call of it returns.
LEMMA ReleasedStays ==
  ASSUME TypeOK, NEW g \in Handles, NEW h \in Handles, NEW o, NEW out \in Outcome,
         finishActiveOperation(g, o, out) \/ FinishRelease(g, o, out),
         state[h] = "released"
  PROVE  state'[h] = "released"
BY ZenonT(40) DEF TypeOK, finishActiveOperation, FinishRelease, failLocked

\* A step of a renewer: it was running, and it does not release a handle.
LEMMA RenewerFacts ==
  ASSUME ManagerInv, NEW h \in Handles, run(h), NEW g \in Handles
  PROVE  /\ renewer[g] \in {"none", "done"} => renewer'[g] = renewer[g]
         /\ state[g] = "released" => state'[g] = "released"
<1>1. TypeOK /\ RenewersFit /\ h \in Renewers
  BY Zenon, ManagerParts, ManagerConstants, RenewalParts
<1>2. DOMAIN renewer = Handles
  BY Zenon, <1>1, ManagerConstants DEF TypeOK
<1>3. renewer[g] \in {"none", "done"} => renewer'[g] = renewer[g]
  BY Zenon, <1>2 DEF run, Wake, SleepFails, RenewRefused, RenewSent, RenewReturns, ReportLoss, Exit,
              Close, Goto
<1>4. CASE \E out \in Outcome : RenewReturns(h, out)
  <2>1. PICK out \in Outcome : RenewReturns(h, out)
    BY Zenon, <1>4
  <2>2. target[h] \in Handles
    BY Zenon, <1>1, <2>1 DEF RenewReturns, RenewersFit
  <2> QED BY Zenon, <1>1, <1>3, <2>1, <2>2, ReleasedStays DEF RenewReturns
<1>5. CASE state' = state
  BY Zenon, <1>3, <1>5
<1> QED
  BY Zenon, <1>4, <1>5
     DEF run, Wake, SleepFails, RenewRefused, RenewSent, ReportLoss, Exit, Close, handleVars,
         beginActiveOperation

\* A renewer's step.
LEMMA RenewalStep ==
  ASSUME ManagerInv, NEW h \in Handles, Renewal(h)
  PROVE  ManagerInv'
<1>1. RenewalInv /\ CallersTyped
  BY Zenon, ManagerParts
<1>2. run(h) /\ UNCHANGED <<managerVars, cleanupVars, caller, stopper>> /\ callerDone' = callerDone
  BY Zenon DEF Renewal, callerVars
<1>3. RenewalInv'
  BY Zenon, <1>1, <1>2, ManagerConstants, RunStep
<1>4. callerDone' \in [Handles -> BOOLEAN]
  BY Zenon, <1>1, <1>2 DEF CallersTyped
<1>5. \A g \in Handles : /\ renewer[g] \in {"none", "done"} => renewer'[g] = renewer[g]
                         /\ state[g] = "released" => state'[g] = "released"
  BY Zenon, <1>2, RenewerFacts
<1> QED BY Zenon, <1>2, <1>3, <1>4, <1>5, HandleStep

\* The safety deadline passes, or a caller gives up.
LEMMA OutsideStep ==
  ASSUME ManagerInv, NEW h \in Handles, DeadlinePasses(h) \/ CallerGivesUp(h)
  PROVE  ManagerInv'
<1>1. RenewalInv /\ CallersTyped /\ TypeOK
  BY Zenon, ManagerParts
<1>2. UNCHANGED <<managerVars, cleanupVars, caller, stopper>> /\ renewer' = renewer
  BY Zenon DEF DeadlinePasses, CallerGivesUp, Lapse, callerVars, managedVars
<1>3. CASE DeadlinePasses(h)
  <2>1. RenewalInv'
    BY Zenon, <1>1, <1>3, StateStep DEF DeadlinePasses
  <2>2. callerDone' \in [Handles -> BOOLEAN]
    BY Zenon, <1>1, <1>3 DEF DeadlinePasses, callerVars, CallersTyped
  <2>3. \A g \in Handles : state[g] = "released" => state'[g] = "released"
    BY Zenon, <1>1, <1>3 DEF DeadlinePasses, Lapse, TypeOK
  <2> QED BY Zenon, <1>2, <2>1, <2>2, <2>3, HandleStep
<1>4. CASE CallerGivesUp(h)
  <2>1. UNCHANGED <<busy, inflight, managedVars>> /\ state' = state /\ cancelled' = cancelled
    BY Zenon, <1>4 DEF CallerGivesUp, handleVars
  <2>2. RenewalInv'
    BY Zenon, <1>1, <2>1, FrameStep DEF TypeOK
  <2>3. callerDone' \in [Handles -> BOOLEAN]
    BY Zenon, <1>1, <1>4 DEF CallerGivesUp, CallersTyped
  <2> QED BY Zenon, <1>2, <2>1, <2>2, <2>3, HandleStep
<1> QED BY Zenon, <1>3, <1>4

\* The application uses its handle, at any time during a shutdown, too.
LEMMA UseStep ==
  ASSUME ManagerInv, NEW h \in Handles, Use(h)
  PROVE  ManagerInv'
<1>1. RenewalInv /\ CallersTyped /\ TypeOK
  BY Zenon, ManagerParts
<1>2. /\ UNCHANGED <<managerVars, cleanupVars, caller, stopper>> /\ UNCHANGED managedVars
      /\ renewer' = renewer /\ callerDone' = callerDone /\ cancelled' = cancelled
  BY Zenon DEF Use, callerVars, managedVars
<1>3. callerDone' \in [Handles -> BOOLEAN] /\ cancelled' \in [Renewers -> BOOLEAN]
  BY Zenon, <1>1, <1>2 DEF CallersTyped, TypeOK
<1>4. "application" \in Op \ {"renew"} /\ "release" \in Op \ {"renew"}
  BY Zenon DEF Op
<1>5. CASE beginActiveOperation(h, "application") \/ BeginRelease(h, "release")
  <2>1. RenewalInv'
    BY Zenon, <1>1, <1>2, <1>3, <1>4, <1>5, BeginStep
  <2>2. state' = state
    BY Zenon, <1>5 DEF beginActiveOperation, BeginRelease
  <2> QED BY Zenon, <1>2, <1>3, <2>1, <2>2, HandleStep
<1>6. ASSUME NEW out \in Outcome,
             finishActiveOperation(h, "application", out) \/ FinishRelease(h, "release", out)
      PROVE  ManagerInv'
  <2>1. RenewalInv'
    BY Zenon, <1>1, <1>2, <1>3, <1>4, <1>6, EndStep
  <2>2. \A g \in Handles : state[g] = "released" => state'[g] = "released"
    BY Zenon, <1>1, <1>6, ReleasedStays
  <2> QED BY Zenon, <1>2, <1>3, <2>1, <2>2, HandleStep
<1> QED BY Zenon, <1>5, <1>6 DEF Use

-------------------------------------------------------------------------------
(* Acquire *)

\* A call goes on without touching the manager: it stays in flight, or it was
\* not and is not.  What becomes of its own handle and renewer is not yet, or
\* no longer, the cleanup's business.
LEMMA CallerMoves ==
  ASSUME ManagerInv, NEW h \in Handles, NEW to \in Callers, Caller(h, to),
         UNCHANGED <<managerVars, cleanupVars, stopper, callerDone>>, RenewalInv',
         h \in inFlight <=> h \in inFlight',
         caller[h] = "await" => to = "error",
         caller[h] \notin {"handle", "error"} /\ to # "handle",
         renewer'[h] # "none" /\ to # "register" => renewer[h] # "none" /\ caller[h] # "register",
         \A g \in Handles : g # h \/ h \notin inFlight => renewer'[g] = renewer[g] /\ state'[g] = state[g]
  PROVE  ManagerInv'
<1>1. /\ FieldsTyped /\ CleanupTyped /\ CallersTyped /\ TypeOK
      /\ Counted /\ Progress /\ NoneForgotten /\ CleanedUp
  BY Zenon, ManagerParts
<1>2. FieldsTyped' /\ CleanupTyped'
  BY Zenon, TypesStay
<1>3. /\ caller'[h] = to /\ \A g \in Handles \ {h} : caller'[g] = caller[g]
      /\ caller' \in [Handles -> Callers]
  BY Zenon, <1>1 DEF CallersTyped, Caller
<1>4. CallersTyped'
  BY Zenon, <1>1, <1>3 DEF CallersTyped
<1>5. UNCHANGED <<active, acquiring, entries, gate, gatesClosed, cleanup, todo>>
  BY Zenon DEF managerVars, cleanupVars
<1>6. inFlight' = inFlight /\ kept' = kept
  <2>1. \A g \in Handles \ {h} : g \in inFlight' <=> g \in inFlight
    BY Zenon, <1>3 DEF inFlight
  <2>2. inFlight \subseteq Handles /\ inFlight' \subseteq Handles
    BY Zenon DEF inFlight
  <2>3. inFlight' = inFlight
    BY <2>1, <2>2
  <2> QED BY Zenon, <1>5, <2>3, KeptStays
<1>7. Counted'
  BY Zenon, <1>1, <1>5, <1>6, CountedStays
<1>8. \A i \in 1..Len(kept) : kept[i] \in Handles
  BY <1>1 DEF FieldsTyped, CleanupTyped, kept
<1>9. NoneForgotten'
  <2>1. ASSUME NEW i \in 1..Len(kept) PROVE caller'[kept[i]] \in {"handle", "await", "error"}
    <3>1. caller[kept[i]] \in {"handle", "await", "error"}
      BY Zenon, <1>1 DEF NoneForgotten
    <3>2. CASE kept[i] = h
      BY Zenon, <1>3, <3>1, <3>2
    <3>3. CASE kept[i] # h
      BY Zenon, <1>3, <1>8, <3>1, <3>3
    <3> QED BY Zenon, <3>2, <3>3
  <2>2. ASSUME NEW g \in Handles,
               caller'[g] = "handle" \/ (renewer'[g] # "none" /\ caller'[g] # "register")
        PROVE  caller[g] = "handle" \/ (renewer[g] # "none" /\ caller[g] # "register")
    <3>1. CASE g = h
      BY Zenon, <1>3, <2>2, <3>1
    <3>2. CASE g # h
      BY Zenon, <1>3, <2>2, <3>2
    <3> QED BY Zenon, <3>1, <3>2
  <2> QED BY Zenon, <1>1, <1>6, <2>1, <2>2, NoneForgottenStays
<1>10. CleanedUp'
  <2>1. CASE h \in inFlight
    <3>1. \A i \in 1..Len(todo) : FALSE
      BY <2>1, InFlightCounts
    <3> QED BY Zenon, <1>1, <3>1, CleanedUpStays
  <2>2. CASE h \notin inFlight
    <3>1. \A i \in 1..Len(todo) : todo[i] \in Handles
      BY <1>1 DEF CleanupTyped
    <3> QED BY Zenon, <1>1, <2>2, <3>1, CleanedUpStays
  <2> QED BY Zenon, <2>1, <2>2
<1> QED BY Zenon, <1>1, <1>2, <1>4, <1>7, <1>9, <1>10, ProgressStays, ManagerParts

\* client.Acquire returns.
LEMMA AcquiredStep ==
  ASSUME ManagerInv, NEW h \in Handles, Acquired(h)
  PROVE  ManagerInv'
<1>1. TypeOK /\ RenewalInv /\ CallersTyped
  BY Zenon, ManagerParts
<1>2. /\ caller[h] = "acquire" /\ UNCHANGED <<managerVars, cleanupVars, stopper, callerDone>>
      /\ UNCHANGED <<busy, inflight, managedVars>> /\ cancelled' = cancelled /\ renewer' = renewer
  BY Zenon DEF Acquired, managedVars
<1>3. PICK to \in {"start", "register", "undo"} : Caller(h, to)
  BY Zenon DEF Acquired
<1>4. /\ state' \in [Handles -> State]
      /\ \A g \in Handles \ {h} : state'[g] = state[g]
  BY Zenon, <1>1 DEF Acquired, TypeOK, State
<1>5. RenewalInv'
  BY Zenon, <1>1, <1>2, <1>4, FrameStep DEF TypeOK
<1>6. to \in Callers
  BY Zenon DEF Callers
<1>7. caller'[h] = to
  BY Zenon, <1>1, <1>3 DEF Caller, CallersTyped
<1>8. h \in inFlight /\ h \in inFlight'
  BY Zenon, <1>2, <1>7 DEF inFlight
<1> QED BY Zenon, <1>2, <1>3, <1>4, <1>5, <1>6, <1>8, CallerMoves

\* StartManaged for a handle that has just been acquired, or its refusal.
LEMMA ManagerStartStep ==
  ASSUME ManagerInv, NEW h \in Handles, Start(h)
  PROVE  ManagerInv'
<1>1. TypeOK /\ RenewalInv /\ CallersTyped
  BY Zenon, ManagerParts
<1>2. caller[h] = "start" /\ UNCHANGED <<managerVars, cleanupVars, stopper, callerDone>>
  BY Zenon DEF Start
<1>3. PICK to \in {"register", "rollback"} : Caller(h, to)
  BY Zenon DEF Start
<1>4. to \in Callers
  BY Zenon DEF Callers
<1>5. caller'[h] = to
  BY Zenon, <1>1, <1>3 DEF Caller, CallersTyped
<1>6. h \in inFlight /\ h \in inFlight'
  BY Zenon, <1>2, <1>5 DEF inFlight
<1>7. CASE StartManaged(h, h, FALSE) /\ Caller(h, "register")
  <2>1. RenewalInv'
    BY Zenon, <1>1, <1>7, ManagerConstants, StartStep
  <2>2. state' = state /\ \A g \in Handles \ {h} : renewer'[g] = renewer[g]
    BY Zenon, <1>1, <1>7, ManagerConstants DEF StartManaged, handleVars, TypeOK
  <2>3. "register" \in Callers /\ caller'[h] = "register"
    BY Zenon, <1>1, <1>7 DEF Callers, Caller, CallersTyped
  <2> QED BY Zenon, <1>2, <1>6, <1>7, <2>1, <2>2, <2>3, CallerMoves
<1>8. CASE UNCHANGED <<handleVars, managedVars, cancelled>>
  <2>1. /\ state' = state /\ renewer' = renewer /\ cancelled' = cancelled
        /\ UNCHANGED <<busy, inflight, managedVars>>
    BY Zenon, <1>8 DEF handleVars, managedVars
  <2>2. RenewalInv'
    BY Zenon, <1>1, <2>1, FrameStep DEF TypeOK
  <2> QED BY Zenon, <1>2, <1>3, <1>4, <1>6, <2>1, <2>2, CallerMoves
<1> QED BY Zenon, <1>7, <1>8 DEF Start

\* The release of a handle that could not be renewed.
LEMMA RollbackStep ==
  ASSUME ManagerInv, NEW h \in Handles, Rollback(h)
  PROVE  ManagerInv'
<1>1. TypeOK /\ RenewalInv /\ CallersTyped
  BY Zenon, ManagerParts
<1>2. /\ caller[h] \in {"rollback", "rolling"}
      /\ UNCHANGED <<managerVars, cleanupVars, stopper, callerDone>>
      /\ UNCHANGED managedVars /\ cancelled' = cancelled /\ renewer' = renewer
  BY Zenon DEF Rollback, managedVars
<1>3. PICK to \in {"rolling", "undo"} : Caller(h, to)
  BY Zenon DEF Rollback
<1>4. to \in Callers
  BY Zenon DEF Callers
<1>5. caller'[h] = to
  BY Zenon, <1>1, <1>3 DEF Caller, CallersTyped
<1>6. h \in inFlight /\ h \in inFlight'
  BY Zenon, <1>2, <1>5 DEF inFlight
<1>7. "cleanup" \in Op \ {"renew"} /\ cancelled' \in [Renewers -> BOOLEAN]
  BY Zenon, <1>1, <1>2 DEF Op, TypeOK
<1>8. CASE BeginRelease(h, "cleanup")
  <2>1. RenewalInv' /\ state' = state
    BY Zenon, <1>1, <1>2, <1>7, <1>8, BeginStep DEF BeginRelease
  <2> QED BY Zenon, <1>2, <1>3, <1>4, <1>6, <2>1, CallerMoves
<1>9. CASE UNCHANGED handleVars
  <2>1. state' = state /\ UNCHANGED <<busy, inflight, managedVars>>
    BY Zenon, <1>2, <1>9 DEF handleVars
  <2>2. RenewalInv'
    BY Zenon, <1>1, <1>7, <2>1, FrameStep DEF TypeOK
  <2> QED BY Zenon, <1>2, <1>3, <1>4, <1>6, <2>1, <2>2, CallerMoves
<1>10. CASE \E out \in Outcome : FinishRelease(h, "cleanup", out)
  <2>1. PICK out \in Outcome : FinishRelease(h, "cleanup", out)
    BY Zenon, <1>10
  <2>2. RenewalInv'
    BY Zenon, <1>1, <1>2, <1>7, <2>1, EndStep
  <2>3. \A g \in Handles \ {h} : state'[g] = state[g]
    BY Zenon, <1>1, <2>1 DEF FinishRelease, TypeOK
  <2> QED BY Zenon, <1>2, <1>3, <1>4, <1>6, <2>2, <2>3, CallerMoves
<1> QED BY Zenon, <1>8, <1>9, <1>10 DEF Rollback

\* A call that Shutdown has overtaken returns.
LEMMA AwaitStep ==
  ASSUME ManagerInv, NEW h \in Handles, AwaitShutdown(h)
  PROVE  ManagerInv'
<1>1. TypeOK /\ RenewalInv /\ CallersTyped
  BY Zenon, ManagerParts
<1>2. /\ caller[h] = "await" /\ UNCHANGED <<managerVars, cleanupVars, stopper, callerDone>>
      /\ UNCHANGED <<busy, inflight, managedVars>> /\ cancelled' = cancelled
      /\ renewer' = renewer /\ state' = state /\ Caller(h, "error")
  BY Zenon DEF AwaitShutdown, handleVars, managedVars
<1>3. RenewalInv'
  BY Zenon, <1>1, <1>2, FrameStep DEF TypeOK
<1>4. "error" \in Callers /\ caller'[h] = "error"
  BY Zenon, <1>1, <1>2 DEF Callers, Caller, CallersTyped
<1>5. h \notin inFlight /\ h \notin inFlight'
  BY Zenon, <1>2, <1>4 DEF inFlight
<1> QED BY Zenon, <1>2, <1>3, <1>4, <1>5, CallerMoves

\* Handles and renewers that nobody touches.
LEMMA NothingElse ==
  ASSUME ManagerInv, UNCHANGED <<handleVars, managedVars, cancelled>>
  PROVE  RenewalInv' /\ renewer' = renewer /\ state' = state
<1>1. RenewalInv /\ TypeOK
  BY Zenon, ManagerParts
<1>2. /\ state' = state /\ renewer' = renewer /\ cancelled' = cancelled
      /\ UNCHANGED <<busy, inflight, managedVars>>
  BY Zenon DEF handleVars, managedVars
<1> QED BY Zenon, <1>1, <1>2, FrameStep DEF TypeOK

\* Before the cleanup has copied the entries, calls may come and go.
LEMMA ProgressEarly ==
  ASSUME Progress, cleanup \in {"none", "begun", "waiting"},
         UNCHANGED <<closed, shutdownDone, shutdownErr, cleanupVars, stopper>>,
         cleanup = "waiting" => gate' = gate
  PROVE  Progress'
<1>1. /\ cleanup' = cleanup /\ todo' = todo /\ index' = index /\ awaited' = awaited
      /\ closed' = closed /\ shutdownDone' = shutdownDone /\ stopper' = stopper
      /\ shutdownErr' = shutdownErr
  BY Zenon DEF cleanupVars
<1> QED BY <1>1 DEF Progress

\* Admission, or its refusal.
LEMMA AcquireAdmission ==
  ASSUME ManagerInv, NEW h \in Handles, Acquire(h)
  PROVE  ManagerInv'
<1>1. /\ FieldsTyped /\ CleanupTyped /\ CallersTyped
      /\ Counted /\ Progress /\ NoneForgotten /\ CleanedUp
  BY Zenon, ManagerParts
<1>2. /\ caller[h] = "idle" /\ UNCHANGED <<handleVars, managedVars, cancelled>>
      /\ UNCHANGED <<cleanupVars, stopper, callerDone>>
  BY Zenon DEF Acquire
<1>3. RenewalInv' /\ renewer' = renewer /\ state' = state
  BY Zenon, <1>2, NothingElse
<1>4. h \notin inFlight
  BY Zenon, <1>2 DEF inFlight
<1>5. CASE Caller(h, "error") /\ UNCHANGED managerVars
  <2>1. "error" \in Callers /\ caller'[h] = "error"
    BY Zenon, <1>1, <1>5 DEF Callers, Caller, CallersTyped
  <2>2. h \notin inFlight'
    BY Zenon, <2>1 DEF inFlight
  <2> QED BY Zenon, <1>2, <1>3, <1>4, <1>5, <2>1, <2>2, CallerMoves
<1>6. CASE /\ ~closed /\ active < max /\ Caller(h, "acquire")
           /\ active' = active + 1
           /\ gate' = IF acquiring = 0 THEN gate + 1 ELSE gate
           /\ acquiring' = acquiring + 1
           /\ UNCHANGED <<closed, entries, gatesClosed, shutdownDone, shutdownErr>>
  <2>1. /\ caller'[h] = "acquire" /\ \A g \in Handles \ {h} : caller'[g] = caller[g]
        /\ caller' \in [Handles -> Callers]
    BY Zenon, <1>1, <1>6 DEF CallersTyped, Caller, Callers
  <2>2. CallersTyped' /\ CleanupTyped'
    BY Zenon, <1>1, <1>2, <2>1, TypesStay DEF CallersTyped
  <2>3. inFlight' = inFlight \cup {h}
    <3>1. \A g \in Handles \ {h} : g \in inFlight' <=> g \in inFlight
      BY Zenon, <2>1 DEF inFlight
    <3>2. inFlight \subseteq Handles /\ inFlight' \subseteq Handles /\ h \in inFlight'
      BY Zenon, <2>1 DEF inFlight
    <3> QED BY Zenon, <3>1, <3>2
  <2>4. IsFiniteSet(inFlight') /\ Cardinality(inFlight') = Cardinality(inFlight) + 1
    BY Zenon, <1>1, <1>4, <2>3, FS_AddElement DEF Counted
  <2>5. /\ active \in Nat /\ acquiring \in Nat /\ gate \in Nat /\ max \in Nat
        /\ Len(entries) \in Nat /\ active = acquiring + Len(entries) /\ active <= max
    BY Zenon, Numbers
  <2>6. /\ active' = acquiring' + Len(entries) /\ active' \in 0..max
        /\ acquiring' \in 0..max /\ acquiring' > 0 /\ gate' \in Nat
    BY <1>6, <2>5
  <2>7. /\ \A g \in gatesClosed : g \in Nat /\ g <= gate
        /\ acquiring > 0 => gate \notin gatesClosed
    BY Zenon, <1>1 DEF FieldsTyped, Counted
  <2>8. gate' \notin gatesClosed /\ \A g \in gatesClosed : g <= gate'
    BY <1>6, <2>5, <2>7
  <2>9. FieldsTyped'
    BY Zenon, <1>1, <1>6, <2>6 DEF FieldsTyped
  <2>10. acquiring' = Cardinality(inFlight')
    BY Zenon, <1>1, <1>6, <2>4 DEF Counted
  <2>11. Counted'
    BY Zenon, <1>6, <2>4, <2>6, <2>8, <2>10 DEF Counted
  <2>12. cleanup = "none" /\ entries' = entries /\ cleanup' = cleanup /\ todo' = todo
    BY Zenon, <1>1, <1>2, <1>6 DEF Progress, cleanupVars
  <2>13. Progress'
    BY Zenon, <1>1, <1>2, <1>6, <2>12, ProgressEarly
  <2>14. kept' = kept /\ kept = entries
    BY Zenon, <2>12, KeptStays DEF kept
  <2>15. NoneForgotten'
    <3>1. ASSUME NEW i \in 1..Len(kept) PROVE caller'[kept[i]] \in {"handle", "await", "error"}
      <4>1. caller[kept[i]] \in {"handle", "await", "error"} /\ kept[i] \in Handles
        BY <1>1, <2>14 DEF NoneForgotten, FieldsTyped
      <4> QED BY Zenon, <1>2, <2>1, <4>1
    <3>2. \A g \in Handles :
            caller'[g] = "handle" \/ (renewer'[g] # "none" /\ caller'[g] # "register") =>
              caller[g] = "handle" \/ (renewer[g] # "none" /\ caller[g] # "register")
      BY Zenon, <1>2, <1>3, <2>1
    <3> QED BY Zenon, <1>1, <2>14, <3>1, <3>2, NoneForgottenStays
  <2>16. CleanedUp'
    BY Zenon, <1>1, <1>2, <1>3, CleanedUpStays
  <2> QED BY Zenon, <1>3, <2>2, <2>9, <2>11, <2>13, <2>15, <2>16, ManagerParts
<1> QED BY Zenon, <1>5, <1>6 DEF Acquire

\* A call in flight ends: it is counted no more, and the last one closes the
\* channel in use.
LEMMA FinishAcquisition ==
  ASSUME ManagerInv, NEW h \in inFlight, NEW to \in {"error", "await", "handle"},
         Caller(h, to), finishAcquisitionLocked
  PROVE  /\ caller'[h] = to /\ \A g \in Handles \ {h} : caller'[g] = caller[g]
         /\ caller' \in [Handles -> Callers]
         /\ IsFiniteSet(inFlight') /\ acquiring' = Cardinality(inFlight')
         /\ acquiring' \in 0..max /\ gatesClosed' \subseteq Nat
         /\ gate' \notin gatesClosed' <=> acquiring' > 0
         /\ \A g \in gatesClosed' : g <= gate'
<1>1. FieldsTyped /\ CallersTyped /\ Counted
  BY Zenon, ManagerParts
<1>2. h \in Handles /\ to \in Callers
  BY Zenon DEF inFlight, Callers
<1>3. /\ caller'[h] = to /\ \A g \in Handles \ {h} : caller'[g] = caller[g]
      /\ caller' \in [Handles -> Callers]
  BY Zenon, <1>1, <1>2 DEF CallersTyped, Caller
<1>4. inFlight' = inFlight \ {h}
  <2>1. \A g \in Handles \ {h} : g \in inFlight' <=> g \in inFlight
    BY Zenon, <1>3 DEF inFlight
  <2>2. inFlight \subseteq Handles /\ inFlight' \subseteq Handles /\ h \notin inFlight'
    BY Zenon, <1>3 DEF inFlight
  <2> QED BY Zenon, <2>1, <2>2
<1>5. /\ IsFiniteSet(inFlight') /\ Cardinality(inFlight') = Cardinality(inFlight) - 1
      /\ Cardinality(inFlight') \in Nat
  BY Zenon, <1>1, <1>4, FS_RemoveElement, FS_CardinalityType DEF Counted
<1>6. acquiring > 0 /\ gate \notin gatesClosed
  BY Zenon, InFlightCounts
<1>7. /\ acquiring' = Cardinality(inFlight') /\ acquiring' \in 0..max
      /\ gatesClosed' \subseteq Nat
      /\ gate' \notin gatesClosed' <=> acquiring' > 0
      /\ \A g \in gatesClosed' : g <= gate'
  BY <1>1, <1>5, <1>6, ManagerConstants DEF FieldsTyped, Counted, finishAcquisitionLocked
<1> QED BY Zenon, <1>3, <1>5, <1>7

\* A call that failed gives its capacity back.
LEMMA ReservationStep ==
  ASSUME ManagerInv, NEW h \in Handles, releaseReservation(h)
  PROVE  ManagerInv'
<1>1. /\ FieldsTyped /\ CleanupTyped /\ CallersTyped
      /\ Counted /\ Progress /\ NoneForgotten /\ CleanedUp
  BY Zenon, ManagerParts
<1>2. /\ caller[h] = "undo" /\ Caller(h, "error") /\ finishAcquisitionLocked
      /\ active' = active - 1 /\ entries' = entries
      /\ UNCHANGED <<handleVars, managedVars, cancelled>>
      /\ UNCHANGED <<cleanupVars, stopper, callerDone>>
      /\ acquiring' = acquiring - 1 /\ gate' = gate
      /\ UNCHANGED <<closed, shutdownDone, shutdownErr>>
  BY Zenon DEF releaseReservation, finishAcquisitionLocked
<1>3. RenewalInv' /\ renewer' = renewer /\ state' = state
  BY Zenon, <1>2, NothingElse
<1>4. h \in inFlight
  BY Zenon, <1>2 DEF inFlight
<1>5. /\ caller'[h] = "error" /\ \A g \in Handles \ {h} : caller'[g] = caller[g]
      /\ caller' \in [Handles -> Callers]
      /\ IsFiniteSet(inFlight') /\ acquiring' = Cardinality(inFlight')
      /\ acquiring' \in 0..max /\ gatesClosed' \subseteq Nat
      /\ gate' \notin gatesClosed' <=> acquiring' > 0
      /\ \A g \in gatesClosed' : g <= gate'
  BY Zenon, <1>2, <1>4, FinishAcquisition
<1>6. CallersTyped' /\ CleanupTyped'
  BY Zenon, <1>1, <1>2, <1>5, TypesStay DEF CallersTyped
<1>7. active' = acquiring' + Len(entries') /\ active' \in 0..max
  <2>1. /\ active \in Nat /\ acquiring \in Nat /\ max \in Nat /\ Len(entries) \in Nat
        /\ active = acquiring + Len(entries) /\ active <= max /\ acquiring' \in Nat
    BY <1>5, Numbers
  <2>2. active' = acquiring' + Len(entries) /\ active' \in 0..max
    BY <1>2, <2>1
  <2> QED BY Zenon, <1>2, <2>2
<1>8. FieldsTyped' /\ Counted'
  BY Zenon, <1>1, <1>2, <1>5, <1>7 DEF FieldsTyped, Counted
<1>9. cleanup \in {"none", "begun", "waiting"} /\ kept = entries
  BY Zenon, <1>4, InFlightCounts
<1>10. Progress'
  BY Zenon, <1>1, <1>2, <1>9, ProgressEarly
<1>11. kept' = kept
  BY Zenon, <1>2, KeptStays DEF cleanupVars
<1>12. NoneForgotten'
  <2>1. ASSUME NEW i \in 1..Len(kept) PROVE caller'[kept[i]] \in {"handle", "await", "error"}
    <3>1. caller[kept[i]] \in {"handle", "await", "error"} /\ kept[i] \in Handles
      BY <1>1, <1>9 DEF NoneForgotten, FieldsTyped
    <3> QED BY Zenon, <1>2, <1>5, <3>1
  <2>2. \A g \in Handles :
          caller'[g] = "handle" \/ (renewer'[g] # "none" /\ caller'[g] # "register") =>
            caller[g] = "handle" \/ (renewer[g] # "none" /\ caller[g] # "register")
    BY Zenon, <1>2, <1>3, <1>5
  <2> QED BY Zenon, <1>1, <1>11, <2>1, <2>2, NoneForgottenStays
<1>13. CleanedUp'
  BY Zenon, <1>1, <1>2, <1>3, CleanedUpStays
<1> QED BY Zenon, <1>3, <1>6, <1>8, <1>10, <1>12, <1>13, ManagerParts

\* A handle joins the entries, before the cleanup copies them.
LEMMA RegisterStep ==
  ASSUME ManagerInv, NEW h \in Handles, Register(h)
  PROVE  ManagerInv'
<1>1. /\ FieldsTyped /\ CleanupTyped /\ CallersTyped
      /\ Counted /\ Progress /\ NoneForgotten /\ CleanedUp
  BY Zenon, ManagerParts
<1> DEFINE to == IF closed THEN "await" ELSE "handle"
<1>2. /\ caller[h] = "register" /\ Caller(h, to) /\ finishAcquisitionLocked
      /\ active' = active /\ entries' = Append(entries, h)
      /\ UNCHANGED <<handleVars, managedVars, cancelled>>
      /\ UNCHANGED <<cleanupVars, stopper, callerDone>>
      /\ acquiring' = acquiring - 1 /\ gate' = gate
      /\ UNCHANGED <<closed, shutdownDone, shutdownErr>>
  BY Zenon DEF Register, finishAcquisitionLocked
<1>3. RenewalInv' /\ renewer' = renewer /\ state' = state
  BY Zenon, <1>2, NothingElse
<1>4. h \in inFlight
  BY Zenon, <1>2 DEF inFlight
<1>5. to \in {"await", "handle"}
  BY Zenon
<1> HIDE DEF to
<1>6. /\ caller'[h] = to /\ \A g \in Handles \ {h} : caller'[g] = caller[g]
      /\ caller' \in [Handles -> Callers]
      /\ IsFiniteSet(inFlight') /\ acquiring' = Cardinality(inFlight')
      /\ acquiring' \in 0..max /\ gatesClosed' \subseteq Nat
      /\ gate' \notin gatesClosed' <=> acquiring' > 0
      /\ \A g \in gatesClosed' : g <= gate'
  BY Zenon, <1>2, <1>4, <1>5, FinishAcquisition
<1>7. CallersTyped' /\ CleanupTyped'
  BY Zenon, <1>1, <1>2, <1>6, TypesStay DEF CallersTyped
<1>8. /\ entries' \in Seq(Handles) /\ Len(entries') = Len(entries) + 1
      /\ entries'[Len(entries')] = h
      /\ \A i \in 1..Len(entries) : entries'[i] = entries[i] /\ entries[i] \in Handles
  BY <1>1, <1>2 DEF FieldsTyped
<1>9. active' = acquiring' + Len(entries')
  BY <1>1, <1>2, <1>8 DEF FieldsTyped, Counted
<1>10. FieldsTyped' /\ Counted'
  BY Zenon, <1>1, <1>2, <1>6, <1>8, <1>9 DEF FieldsTyped, Counted
<1>11. cleanup \in {"none", "begun", "waiting"} /\ kept = entries
  BY Zenon, <1>4, InFlightCounts
<1>12. Progress'
  BY Zenon, <1>1, <1>2, <1>11, ProgressEarly
<1>13. kept' = entries'
  BY Zenon, <1>2, <1>11 DEF cleanupVars, kept
<1>14. NoneForgotten'
  <2>1. \A i \in 1..Len(entries') : i \in 1..Len(entries) \/ i = Len(entries')
    BY <1>1, <1>8 DEF FieldsTyped
  <2>2. Len(entries') \in 1..Len(entries') /\ \A i \in 1..Len(entries) : i \in 1..Len(entries')
    BY <1>1, <1>8 DEF FieldsTyped
  <2>3. ASSUME NEW i \in 1..Len(entries')
        PROVE  caller'[entries'[i]] \in {"handle", "await", "error"}
    <3>1. CASE i = Len(entries')
      BY Zenon, <1>5, <1>6, <1>8, <3>1
    <3>2. CASE i \in 1..Len(entries)
      <4>1. caller[entries[i]] \in {"handle", "await", "error"}
        BY Zenon, <1>1, <1>11, <3>2 DEF NoneForgotten
      <4> QED BY Zenon, <1>2, <1>6, <1>8, <3>2, <4>1
    <3> QED BY Zenon, <2>1, <3>1, <3>2
  <2>4. ASSUME NEW g \in Handles,
               caller'[g] = "handle" \/ (renewer'[g] # "none" /\ caller'[g] # "register")
        PROVE  \E i \in 1..Len(entries') : entries'[i] = g
    <3>1. CASE g = h
      BY Zenon, <1>8, <2>2, <3>1
    <3>2. CASE g # h
      <4>1. caller[g] = "handle" \/ (renewer[g] # "none" /\ caller[g] # "register")
        BY Zenon, <1>3, <1>6, <2>4, <3>2
      <4>2. PICK i \in 1..Len(entries) : entries[i] = g
        BY Zenon, <1>1, <1>11, <4>1 DEF NoneForgotten
      <4> QED BY Zenon, <1>8, <2>2, <4>2
    <3> QED BY Zenon, <3>1, <3>2
  <2> QED BY Zenon, <1>13, <2>3, <2>4 DEF NoneForgotten
<1>15. CleanedUp'
  BY Zenon, <1>1, <1>2, <1>3, CleanedUpStays
<1> QED BY Zenon, <1>3, <1>7, <1>10, <1>12, <1>14, <1>15, ManagerParts

-------------------------------------------------------------------------------
(* Shutdown and its cleanup *)

\* A step that touches no call and no handle, and keeps the same handles.
LEMMA ManagerAlone ==
  ASSUME ManagerInv, UNCHANGED <<handleVars, managedVars, cancelled, callerVars>>,
         kept' = kept, FieldsTyped', CleanupTyped', Progress', CleanedUp',
         stopper' \in [Stoppers -> {"idle", "waiting", "nil", "failed", "canceled"}],
         UNCHANGED <<acquiring, gate, gatesClosed>>,
         active' = acquiring + Len(entries')
  PROVE  ManagerInv'
<1>1. CallersTyped /\ Counted /\ NoneForgotten
  BY Zenon, ManagerParts
<1>2. caller' = caller /\ callerDone' = callerDone
  BY Zenon DEF callerVars
<1>3. RenewalInv' /\ renewer' = renewer
  BY Zenon, NothingElse
<1>4. CallersTyped'
  BY Zenon, <1>1, <1>2 DEF CallersTyped
<1>5. inFlight' = inFlight
  BY Zenon, <1>2 DEF inFlight
<1>6. Counted'
  BY Zenon, <1>1, <1>5 DEF Counted
<1>7. NoneForgotten'
  <2>1. \A i \in 1..Len(kept) : caller'[kept[i]] \in {"handle", "await", "error"}
    BY Zenon, <1>1, <1>2 DEF NoneForgotten
  <2> QED BY Zenon, <1>1, <1>2, <1>3, <2>1, NoneForgottenStays
<1> QED BY Zenon, <1>3, <1>4, <1>6, <1>7, ManagerParts

\* The first Shutdown closes the manager and starts the cleanup.
LEMMA ShutdownStep ==
  ASSUME ManagerInv, NEW s \in Stoppers, Shutdown(s)
  PROVE  ManagerInv'
<1>1. FieldsTyped /\ CleanupTyped /\ CallersTyped /\ Counted /\ Progress /\ CleanedUp
  BY Zenon, ManagerParts
<1>2. /\ UNCHANGED <<handleVars, managedVars, cancelled, callerVars>>
      /\ UNCHANGED <<active, acquiring, entries, gate, gatesClosed, shutdownErr>>
      /\ UNCHANGED <<todo, index, awaited, result>>
  BY Zenon DEF Shutdown
<1>3. /\ stopper' \in [Stoppers -> {"idle", "waiting", "nil", "failed", "canceled"}]
      /\ \A t \in Stoppers : stopper'[t] = "nil" => stopper[t] = "nil"
  BY Zenon, <1>1 DEF Shutdown, CallersTyped
<1>4. active' = acquiring + Len(entries')
  BY Zenon, <1>1, <1>2 DEF Counted
<1>5. renewer' = renewer /\ state' = state
  BY Zenon, <1>2 DEF handleVars, managedVars
<1>6. CASE shutdownDone = "nil"
  <2>1. cleanup = "none"
    BY Zenon, <1>1, <1>6 DEF Progress
  <2>2. closed' = TRUE /\ shutdownDone' = "open" /\ cleanup' = "begun"
    BY Zenon, <1>6 DEF Shutdown
  <2>3. todo = <<>> /\ index = 1 /\ \A t \in Stoppers : stopper[t] # "nil"
    BY Zenon, <1>1, <2>1 DEF Progress
  <2>4. FieldsTyped' /\ CleanupTyped'
    BY Zenon, <1>1, <1>2, <2>2 DEF FieldsTyped, CleanupTyped
  <2>5. Progress'
    BY Zenon, <1>2, <1>3, <2>2, <2>3 DEF Progress
  <2>6. kept' = kept
    BY Zenon, <1>2, <2>1, <2>2 DEF kept
  <2>7. CleanedUp'
    <3>1. \A i \in 1..Len(todo') : FALSE
      BY <1>2, <2>3
    <3> QED BY Zenon, <3>1 DEF CleanedUp
  <2> QED BY Zenon, <1>2, <1>3, <1>4, <2>4, <2>5, <2>6, <2>7, ManagerAlone
<1>7. CASE shutdownDone # "nil"
  <2>1. closed' = closed /\ shutdownDone' = shutdownDone /\ cleanup' = cleanup
    BY Zenon, <1>7 DEF Shutdown
  <2>2. FieldsTyped' /\ CleanupTyped'
    BY Zenon, <1>1, <1>2, <2>1 DEF FieldsTyped, CleanupTyped
  <2>3. Progress'
    BY Zenon, <1>1, <1>2, <1>3, <2>1 DEF Progress
  <2>4. kept' = kept
    BY Zenon, <1>2, <2>1, KeptStays
  <2>5. CleanedUp'
    BY Zenon, <1>1, <1>2, <1>5, <2>1, CleanedUpStays DEF cleanupVars
  <2> QED BY Zenon, <1>2, <1>3, <1>4, <2>2, <2>3, <2>4, <2>5, ManagerAlone
<1> QED BY Zenon, <1>6, <1>7

\* A Shutdown call returns; nil only after a cleanup without an error.
LEMMA ShutdownReturnsStep ==
  ASSUME ManagerInv, NEW s \in Stoppers, ShutdownReturns(s)
  PROVE  ManagerInv'
<1>1. FieldsTyped /\ CleanupTyped /\ CallersTyped /\ Counted /\ Progress /\ CleanedUp
  BY Zenon, ManagerParts
<1>2. /\ UNCHANGED <<handleVars, managedVars, cancelled, callerVars>>
      /\ UNCHANGED managerVars /\ UNCHANGED cleanupVars
      /\ UNCHANGED <<active, acquiring, entries, gate, gatesClosed, closed, shutdownDone, shutdownErr>>
      /\ UNCHANGED <<cleanup, todo, index, awaited, result>>
  BY Zenon DEF ShutdownReturns, managerVars, cleanupVars
<1>3. /\ stopper' \in [Stoppers -> {"idle", "waiting", "nil", "failed", "canceled"}]
      /\ \A t \in Stoppers : stopper'[t] = "nil" =>
           stopper[t] = "nil" \/ (shutdownDone = "closed" /\ shutdownErr = FALSE)
  BY Zenon, <1>1 DEF ShutdownReturns, CallersTyped
<1>4. shutdownDone = "closed" => cleanup = "done"
  BY Zenon, <1>1 DEF Progress
<1>5. Progress'
  BY Zenon, <1>1, <1>2, <1>3, <1>4 DEF Progress
<1>6. FieldsTyped' /\ CleanupTyped' /\ kept' = kept
  BY Zenon, <1>2, TypesStay, KeptStays
<1>7. CleanedUp'
  BY Zenon, <1>1, <1>2, CleanedUpStays DEF handleVars, managedVars
<1>8. active' = acquiring + Len(entries')
  BY Zenon, <1>1, <1>2 DEF Counted
<1> QED BY Zenon, <1>2, <1>3, <1>5, <1>6, <1>7, <1>8, ManagerAlone

\* The cleanup reads which channel to wait for; Shutdown has closed the manager,
\* so it stays the current one.
LEMMA CleanupBeginsStep ==
  ASSUME ManagerInv, CleanupBegins
  PROVE  ManagerInv'
<1>1. FieldsTyped /\ CleanupTyped /\ CallersTyped /\ Counted /\ Progress
  BY Zenon, ManagerParts
<1>2. /\ cleanup = "begun" /\ cleanup' = "waiting" /\ awaited' = gate
      /\ UNCHANGED <<handleVars, managedVars, cancelled, callerVars>> /\ UNCHANGED managerVars
      /\ UNCHANGED <<active, acquiring, entries, gate, gatesClosed, closed, shutdownDone, shutdownErr>>
      /\ UNCHANGED <<todo, index, result, stopper>>
  BY Zenon DEF CleanupBegins, managerVars
<1>3. FieldsTyped' /\ CleanupTyped'
  BY Zenon, <1>1, <1>2, TypesStay DEF FieldsTyped, CleanupTyped
<1>4. Progress'
  BY Zenon, <1>1, <1>2 DEF Progress
<1>5. kept' = kept
  BY Zenon, <1>2 DEF kept
<1>6. CleanedUp'
  <2>1. todo' = <<>>
    BY Zenon, <1>1, <1>2 DEF Progress
  <2>2. \A i \in 1..Len(todo') : FALSE
    BY <2>1
  <2> QED BY Zenon, <2>2 DEF CleanedUp
<1>7. active' = acquiring + Len(entries')
  BY Zenon, <1>1, <1>2 DEF Counted
<1> QED BY Zenon, <1>1, <1>2, <1>3, <1>4, <1>5, <1>6, <1>7, ManagerAlone DEF CallersTyped

\* The channel is closed: no acquisition is in flight, and what is copied is all.
LEMMA CleanupCopiesStep ==
  ASSUME ManagerInv, CleanupCopies
  PROVE  ManagerInv'
<1>1. FieldsTyped /\ CleanupTyped /\ CallersTyped /\ Counted /\ Progress
  BY Zenon, ManagerParts
<1>2. /\ cleanup = "waiting" /\ awaited \in gatesClosed /\ todo' = entries
      /\ cleanup' = IF entries = <<>> THEN "finish" ELSE "stop"
      /\ UNCHANGED <<handleVars, managedVars, cancelled, callerVars>> /\ UNCHANGED managerVars
      /\ UNCHANGED <<active, acquiring, entries, gate, gatesClosed, closed, shutdownDone, shutdownErr>>
      /\ UNCHANGED <<index, awaited, result, stopper>>
  BY Zenon DEF CleanupCopies, managerVars
<1>3. acquiring = 0 /\ index = 1
  BY <1>1, <1>2 DEF FieldsTyped, Counted, Progress
<1>4. FieldsTyped' /\ CleanupTyped'
  BY Zenon, <1>1, <1>2 DEF FieldsTyped, CleanupTyped
<1>5. entries = <<>> <=> Len(entries) = 0
  BY <1>1 DEF FieldsTyped
<1>6. Len(entries) \in Nat
  BY <1>1 DEF FieldsTyped
<1>7. \A t \in Stoppers : stopper[t] # "nil"
  BY Zenon, <1>1, <1>2 DEF Progress
<1>8. shutdownDone = "open" /\ closed
  BY Zenon, <1>1, <1>2 DEF Progress
<1>9. CASE entries = <<>>
  <2>1. cleanup' = "finish" /\ Len(entries) = 0
    BY Zenon, <1>2, <1>5, <1>9
  <2>2. Progress'
    BY <1>2, <1>3, <1>7, <1>8, <2>1 DEF Progress
  <2>3. kept' = kept
    BY Zenon, <1>2, <2>1 DEF kept
  <2>4. \A i \in 1..Len(todo') : FALSE
    BY <1>2, <2>1
  <2>5. CleanedUp'
    BY Zenon, <2>4 DEF CleanedUp
  <2>6. active' = acquiring + Len(entries')
    BY Zenon, <1>1, <1>2 DEF Counted
  <2> QED BY Zenon, <1>1, <1>2, <1>4, <2>2, <2>3, <2>5, <2>6, ManagerAlone DEF CallersTyped
<1>10. CASE entries # <<>>
  <2>1. cleanup' = "stop" /\ Len(entries) # 0
    BY Zenon, <1>2, <1>5, <1>10
  <2>2. index' \in 1..Len(todo')
    BY <1>2, <1>3, <1>6, <2>1
  <2>3. Progress'
    BY Zenon, <1>2, <1>3, <1>7, <1>8, <2>1, <2>2 DEF Progress
  <2>4. kept' = kept
    BY Zenon, <1>2, <2>1 DEF kept
  <2>5. \A i \in 1..Len(todo') : ~(i < index')
    BY <1>2, <1>3, <1>6
  <2>6. CleanedUp'
    BY Zenon, <2>1, <2>5 DEF CleanedUp
  <2>7. active' = acquiring + Len(entries')
    BY Zenon, <1>1, <1>2 DEF Counted
  <2> QED BY Zenon, <1>1, <1>2, <1>4, <2>3, <2>4, <2>6, <2>7, ManagerAlone DEF CallersTyped
<1> QED BY Zenon, <1>9, <1>10

\* The cleanup works on its copy, one handle at a time.
LEMMA CleanupMoves ==
  ASSUME ManagerInv, UNCHANGED <<managerVars, callerVars, stopper, todo>>, RenewalInv',
         renewer' = renewer, cleanup # "done" /\ cleanup' # "done",
         CleanupTyped', Progress', CleanedUp'
  PROVE  ManagerInv'
<1>1. CallersTyped /\ Counted /\ NoneForgotten
  BY Zenon, ManagerParts
<1>2. /\ caller' = caller /\ callerDone' = callerDone
      /\ UNCHANGED <<active, acquiring, entries, gate, gatesClosed>>
  BY Zenon DEF callerVars, managerVars
<1>3. FieldsTyped' /\ CallersTyped'
  BY Zenon, <1>2, TypesStay
<1>4. inFlight' = inFlight /\ kept' = kept
  BY Zenon, <1>2 DEF inFlight, kept
<1>5. Counted'
  BY Zenon, <1>1, <1>2, <1>4, CountedStays
<1>6. NoneForgotten'
  <2>1. \A i \in 1..Len(kept) : caller'[kept[i]] \in {"handle", "await", "error"}
    BY Zenon, <1>1, <1>2 DEF NoneForgotten
  <2> QED BY Zenon, <1>1, <1>2, <1>4, <2>1, NoneForgottenStays
<1> QED BY Zenon, <1>3, <1>5, <1>6, ManagerParts

\* While the cleanup is at an entry, nothing is in flight and no Shutdown has
\* reported anything.
LEMMA AtEntry ==
  ASSUME ManagerInv, cleanup \in {"stop", "release", "releasing"}
  PROVE  /\ index \in 1..Len(todo) /\ todo[index] \in Handles /\ Len(todo) \in Nat
         /\ index \in Nat
         /\ acquiring = 0 /\ todo = entries /\ closed /\ shutdownDone = "open"
         /\ \A s \in Stoppers : stopper[s] # "nil"
<1>1. CleanupTyped /\ Progress
  BY Zenon, ManagerParts
<1>2. index \in 1..Len(todo) /\ acquiring = 0 /\ todo = entries
      /\ \A s \in Stoppers : stopper[s] # "nil"
  BY Zenon, <1>1 DEF Progress
<1>3. closed /\ shutdownDone = "open"
  BY Zenon, <1>1 DEF Progress
<1>4. todo[index] \in Handles /\ Len(todo) \in Nat /\ index \in Nat
  BY <1>1, <1>2 DEF CleanupTyped
<1> QED BY Zenon, <1>2, <1>3, <1>4

\* managed.Stop: the renewer of the entry is told to end, or has been joined.
LEMMA CleanupStopsStep ==
  ASSUME ManagerInv, CleanupStops
  PROVE  ManagerInv'
<1>1. TypeOK /\ RenewalInv /\ CleanupTyped /\ Progress /\ CleanedUp
  BY Zenon, ManagerParts
<1> DEFINE h == todo[index]
<1>2. /\ cleanup = "stop" /\ UNCHANGED <<managerVars, callerVars, stopper, todo>>
      /\ UNCHANGED <<todo, index, awaited, result>> /\ UNCHANGED <<busy, inflight, managedVars>>
      /\ state' = state /\ renewer' = renewer
      /\ IF renewer[h] = "none" \/ Joined(h)
         THEN cleanup' = "release" /\ UNCHANGED cancelled
         ELSE cancelled' = [cancelled EXCEPT ![h] = TRUE] /\ UNCHANGED cleanup
  BY Zenon DEF CleanupStops, handleVars, managedVars
<1>3. /\ index \in 1..Len(todo) /\ h \in Handles
      /\ acquiring = 0 /\ todo = entries /\ closed /\ shutdownDone = "open"
      /\ \A s \in Stoppers : stopper[s] # "nil"
  BY Zenon, <1>2, AtEntry
<1> HIDE DEF h
<1>4. cancelled' \in [Renewers -> BOOLEAN] /\ cleanup' \in {"stop", "release"}
  BY Zenon, <1>1, <1>2 DEF TypeOK
<1>5. RenewalInv'
  BY Zenon, <1>1, <1>2, <1>4, FrameStep DEF TypeOK
<1>6. CleanupTyped' /\ cleanup' # "done"
  BY Zenon, <1>1, <1>2, <1>4 DEF CleanupTyped
<1>7. Progress'
  <2>1. /\ UNCHANGED <<closed, shutdownDone, shutdownErr, acquiring, entries, gate, stopper>>
    BY Zenon, <1>2 DEF managerVars
  <2> QED BY Zenon, <1>2, <1>3, <1>4, <2>1 DEF Progress
<1>8. CleanedUp'
  <2>1. cleanup' = "stop" \/ renewer[h] \in {"none", "done"}
    BY Zenon, <1>2 DEF Joined
  <2>2. \A i \in 1..Len(todo) : i = index => todo[i] = h
    BY Zenon DEF h
  <2> QED BY Zenon, <1>1, <1>2, <2>1, <2>2 DEF CleanedUp
<1> QED BY Zenon, <1>2, <1>5, <1>6, <1>7, <1>8, CleanupMoves

\* On to the next entry, or to the end.
LEMMA CleanupNextStep ==
  ASSUME ManagerInv, cleanup \in {"release", "releasing"}, NEW failed \in BOOLEAN,
         CleanupNext(failed), UNCHANGED <<managerVars, callerVars, stopper, todo, awaited>>,
         RenewalInv', renewer' = renewer,
         \A g \in Handles : state[g] = "released" => state'[g] = "released",
         ~failed => state'[todo[index]] = "released"
  PROVE  ManagerInv'
<1>1. CleanupTyped /\ Progress /\ CleanedUp
  BY Zenon, ManagerParts
<1>2. /\ index \in 1..Len(todo) /\ todo[index] \in Handles /\ Len(todo) \in Nat
      /\ index \in Nat
      /\ acquiring = 0 /\ todo = entries /\ closed /\ shutdownDone = "open"
      /\ \A s \in Stoppers : stopper[s] # "nil"
  BY Zenon, AtEntry
<1>3. /\ result' = (result \/ failed) /\ index' = index + 1
      /\ cleanup' = IF index = Len(todo) THEN "finish" ELSE "stop"
  BY Zenon DEF CleanupNext
<1>4. CleanupTyped' /\ cleanup' # "done" /\ cleanup # "done"
  <2>1. index' \in Nat /\ result' \in BOOLEAN /\ cleanup' \in {"finish", "stop"}
    BY <1>1, <1>2, <1>3
  <2> QED BY Zenon, <1>1, <2>1 DEF CleanupTyped
<1>5. Progress'
  <2>1. UNCHANGED <<closed, shutdownDone, shutdownErr, acquiring, entries, gate, stopper, todo>>
    BY Zenon DEF managerVars
  <2>2. cleanup' = "finish" => index' = Len(todo) + 1
    BY Zenon, <1>2, <1>3
  <2>3. cleanup' = "stop" => index' \in 1..Len(todo)
    BY <1>2, <1>3
  <2>4. cleanup' \in {"finish", "stop"}
    BY Zenon, <1>3
  <2> QED BY Zenon, <1>2, <2>1, <2>2, <2>3, <2>4 DEF Progress
<1>6. ASSUME NEW i \in 1..Len(todo)
      PROVE  /\ i < index' \/ (i = index' /\ cleanup' # "stop") => renewer[todo[i]] \in {"none", "done"}
             /\ i < index' /\ ~result' => state'[todo[i]] = "released"
  <2>1. todo[i] \in Handles
    BY <1>1 DEF CleanupTyped
  <2>2. i < index' => i < index \/ i = index
    BY <1>2, <1>3
  <2>3. i = index' => cleanup' = "stop"
    BY <1>2, <1>3
  <2>4. i < index \/ i = index => renewer[todo[i]] \in {"none", "done"}
    BY Zenon, <1>1 DEF CleanedUp
  <2>5. i < index /\ ~result => state[todo[i]] = "released"
    BY Zenon, <1>1 DEF CleanedUp
  <2> QED BY Zenon, <1>3, <2>1, <2>2, <2>3, <2>4, <2>5
<1>7. CleanedUp'
  BY Zenon, <1>6 DEF CleanedUp
<1> QED BY Zenon, <1>4, <1>5, <1>7, CleanupMoves

\* The release of the entry: sent, refused, or returned.
LEMMA CleanupReleasesStep ==
  ASSUME ManagerInv, CleanupReleases
  PROVE  ManagerInv'
<1>1. TypeOK /\ RenewalInv /\ CleanupTyped /\ Progress /\ CleanedUp
  BY Zenon, ManagerParts
<1> DEFINE h == todo[index]
<1>2. /\ cleanup \in {"release", "releasing"}
      /\ UNCHANGED <<managerVars, callerVars, stopper, todo, awaited>>
      /\ UNCHANGED managedVars /\ cancelled' = cancelled /\ renewer' = renewer
  BY Zenon DEF CleanupReleases, managedVars
<1>3. cancelled' \in [Renewers -> BOOLEAN] /\ "cleanup" \in Op \ {"renew"}
  BY Zenon, <1>1, <1>2 DEF TypeOK, Op
<1>4. /\ index \in 1..Len(todo) /\ h \in Handles
      /\ acquiring = 0 /\ todo = entries /\ closed /\ shutdownDone = "open"
      /\ \A s \in Stoppers : stopper[s] # "nil"
  BY Zenon, <1>2, AtEntry
<1>5. CASE /\ cleanup = "release" /\ BeginRelease(h, "cleanup")
           /\ cleanup' = "releasing" /\ UNCHANGED <<index, result>>
  <2> HIDE DEF h
  <2>1. RenewalInv' /\ state' = state
    BY Zenon, <1>1, <1>2, <1>3, <1>4, <1>5, BeginStep DEF BeginRelease
  <2>2. CleanupTyped'
    BY Zenon, <1>1, <1>2, <1>5 DEF CleanupTyped
  <2>3. Progress'
    <3>1. UNCHANGED <<closed, shutdownDone, shutdownErr, acquiring, entries, gate, stopper>>
      BY Zenon, <1>2 DEF managerVars
    <3> QED BY Zenon, <1>2, <1>4, <1>5, <3>1 DEF Progress
  <2>4. CleanedUp'
    BY Zenon, <1>1, <1>2, <1>5, <2>1 DEF CleanedUp
  <2> QED BY Zenon, <1>2, <1>5, <2>1, <2>2, <2>3, <2>4, CleanupMoves
<1>6. CASE CleanupNext(state[h] # "released") /\ UNCHANGED handleVars
  <2>1. state' = state /\ UNCHANGED <<busy, inflight, managedVars>>
    BY Zenon, <1>2, <1>6 DEF handleVars
  <2>2. RenewalInv'
    BY Zenon, <1>1, <1>3, <2>1, FrameStep DEF TypeOK
  <2> QED BY Zenon, <1>2, <1>6, <2>1, <2>2, CleanupNextStep
<1>7. CASE \E out \in Outcome : FinishRelease(h, "cleanup", out) /\ CleanupNext(out # "nil")
  <2>1. PICK out \in Outcome : FinishRelease(h, "cleanup", out) /\ CleanupNext(out # "nil")
    BY Zenon, <1>7
  <2>2. RenewalInv'
    BY Zenon, <1>1, <1>2, <1>3, <1>4, <2>1, EndStep
  <2>3. \A g \in Handles : state[g] = "released" => state'[g] = "released"
    BY Zenon, <1>1, <1>4, <2>1, ReleasedStays
  <2>4. out = "nil" => state'[h] = "released"
    BY Zenon, <1>1, <1>4, <2>1 DEF FinishRelease, TypeOK
  <2> QED BY Zenon, <1>2, <2>1, <2>2, <2>3, <2>4, CleanupNextStep
<1> QED BY Zenon, <1>5, <1>6, <1>7 DEF CleanupReleases

\* The cleanup gives the capacity of its entries back and closes the channel
\* that everyone waits for.
LEMMA CleanupEndsStep ==
  ASSUME ManagerInv, CleanupEnds
  PROVE  ManagerInv'
<1>1. FieldsTyped /\ CleanupTyped /\ CallersTyped /\ Counted /\ Progress /\ CleanedUp
  BY Zenon, ManagerParts
<1>2. /\ cleanup = "finish" /\ cleanup' = "done" /\ shutdownErr' = result /\ entries' = <<>>
      /\ active' = active - Len(todo) /\ shutdownDone' = "closed"
      /\ UNCHANGED <<handleVars, managedVars, cancelled, callerVars>>
      /\ UNCHANGED <<acquiring, closed, gate, gatesClosed, todo, index, awaited, result, stopper>>
      /\ renewer' = renewer /\ state' = state
  BY Zenon DEF CleanupEnds, handleVars, managedVars
<1>3. /\ acquiring = 0 /\ todo = entries /\ index = Len(todo) + 1 /\ closed
      /\ \A s \in Stoppers : stopper[s] # "nil"
  BY Zenon, <1>1, <1>2 DEF Progress
<1>4. Len(entries') = 0 /\ entries' \in Seq(Handles) /\ active' = 0 /\ Len(todo) \in Nat
  BY <1>1, <1>2, <1>3 DEF FieldsTyped, CleanupTyped, Counted
<1>5. active' = acquiring + Len(entries') /\ active' \in 0..max
  BY <1>3, <1>4, ManagerConstants
<1>6. FieldsTyped' /\ CleanupTyped'
  BY Zenon, <1>1, <1>2, <1>4, <1>5 DEF FieldsTyped, CleanupTyped
<1>7. Progress'
  BY Zenon, <1>2, <1>3 DEF Progress
<1>8. kept' = kept
  BY Zenon, <1>2, <1>3 DEF kept
<1>9. CleanedUp'
  <2>1. \A i \in 1..Len(todo) : i < index
    BY <1>3, <1>4
  <2> QED BY Zenon, <1>1, <1>2, <2>1 DEF CleanedUp
<1> QED BY Zenon, <1>1, <1>2, <1>5, <1>6, <1>7, <1>8, <1>9, ManagerAlone DEF CallersTyped

-------------------------------------------------------------------------------
(* The theorems *)

\* New: nothing is acquired, nobody shuts down.
LEMMA ManagerInit ==
  ASSUME Init
  PROVE  ManagerInv
<1>1. RenewalInv /\ TypeOK
  BY Zenon, RenewalInit DEF Init, RenewalInv
<1>2. ManagerTypeOK
  <2>1. /\ 0 \in 0..max /\ 0 \in Nat /\ 1 \in Nat /\ {0} \subseteq Nat
        /\ <<>> \in Seq(Handles)
    BY ManagerConstants
  <2>2. /\ [h \in Handles |-> "idle"] \in
             [Handles -> {"idle", "acquire", "start", "rollback", "rolling", "undo",
                          "register", "await", "handle", "error"}]
        /\ [h \in Handles |-> FALSE] \in [Handles -> BOOLEAN]
        /\ [t \in Stoppers |-> "idle"] \in
             [Stoppers -> {"idle", "waiting", "nil", "failed", "canceled"}]
    BY Zenon
  <2> QED BY Zenon, <1>1, <2>1, <2>2 DEF Init, ManagerTypeOK
<1>3. inFlight = {}
  BY Zenon DEF Init, inFlight
<1>4. IsFiniteSet(inFlight) /\ Cardinality(inFlight) = 0
  BY Zenon, <1>3, FS_EmptySet
<1>5. Counted
  BY <1>4 DEF Init, Counted
<1>6. Progress
  BY Zenon DEF Init, Progress
<1>7. \A i \in 1..Len(kept) : FALSE
  BY DEF Init, kept
<1>8. \A i \in 1..Len(todo) : FALSE
  BY DEF Init
<1>9. \A h \in Handles : caller[h] = "idle" /\ renewer[h] = "none"
  BY Zenon, ManagerConstants DEF Init, ManagedInit
<1>10. NoneForgotten /\ CleanedUp
  BY Zenon, <1>7, <1>8, <1>9 DEF NoneForgotten, CleanedUp
<1> QED BY Zenon, <1>1, <1>2, <1>5, <1>6, <1>10 DEF ManagerInv

\* Every step keeps the invariant.
LEMMA ManagerStep ==
  ASSUME ManagerInv, [Next]_vars
  PROVE  ManagerInv'
<1>1. ASSUME NEW h \in Handles, AcquireStep(h)
      PROVE  ManagerInv'
  BY Zenon, <1>1, AcquireAdmission, AcquiredStep, ManagerStartStep, RollbackStep, ReservationStep,
     RegisterStep, AwaitStep DEF AcquireStep
<1>2. CASE CleanupStep
  BY Zenon, <1>2, CleanupBeginsStep, CleanupCopiesStep, CleanupStopsStep, CleanupReleasesStep,
     CleanupEndsStep DEF CleanupStep
<1>3. CASE UNCHANGED vars
  <2>1. /\ UNCHANGED <<handleVars, managedVars, cancelled>>
        /\ UNCHANGED <<managerVars, cleanupVars, caller, stopper>> /\ callerDone' = callerDone
    BY Zenon, <1>3 DEF vars, callerVars
  <2>2. callerDone' \in [Handles -> BOOLEAN]
    BY Zenon, <2>1, ManagerParts DEF CallersTyped
  <2> QED BY Zenon, <2>1, <2>2, NothingElse, HandleStep
<1> QED
  BY Zenon, <1>1, <1>2, <1>3, OutsideStep, UseStep, RenewalStep, ShutdownStep, ShutdownReturnsStep
     DEF Next

\* The properties follow from the invariant.
LEMMA ManagerInvImplies ==
  ASSUME ManagerInv
  PROVE  /\ AccountingExact /\ CleanupSeesEveryEntry /\ ShutdownLeavesNothing
         /\ SuccessMeansReleased
<1>1. /\ FieldsTyped /\ CleanupTyped /\ CallersTyped
      /\ Counted /\ Progress /\ NoneForgotten /\ CleanedUp
  BY Zenon, ManagerParts
<1>2. AccountingExact
  <2>1. active <= max
    BY <1>1, ManagerConstants DEF FieldsTyped
  <2> QED BY Zenon, <1>1, <2>1 DEF AccountingExact, Counted, ManagerInv
<1>3. CleanupSeesEveryEntry
  BY Zenon, <1>1 DEF CleanupSeesEveryEntry, Progress
<1>4. ASSUME cleanup = "done"
      PROVE  /\ active = 0 /\ inFlight = {} /\ kept = todo
             /\ \A i \in 1..Len(todo) : i < index
  <2>1. acquiring = 0 /\ entries = <<>> /\ index = Len(todo) + 1 /\ kept = todo
    BY Zenon, <1>1, <1>4 DEF Progress, kept
  <2>2. active = 0 /\ \A i \in 1..Len(todo) : i < index
    BY <1>1, <2>1 DEF Counted, CleanupTyped
  <2>3. inFlight = {}
    BY Zenon, <1>1, <2>1, FS_EmptySet DEF Counted
  <2> QED BY Zenon, <2>1, <2>2, <2>3
<1>5. ShutdownLeavesNothing
  <2>1. SUFFICES ASSUME shutdownDone = "closed"
                 PROVE  /\ active = 0
                        /\ \A h \in Handles :
                             /\ renewer[h] \in {"none", "done"}
                             /\ caller[h] = "handle" => \E i \in 1..Len(todo) : todo[i] = h
    BY Zenon DEF ShutdownLeavesNothing
  <2>2. cleanup = "done"
    BY Zenon, <1>1, <2>1 DEF Progress
  <2>3. ASSUME NEW h \in Handles
        PROVE  /\ renewer[h] \in {"none", "done"}
               /\ caller[h] = "handle" => \E i \in 1..Len(todo) : todo[i] = h
    <3>1. caller[h] # "register"
      BY Zenon, <1>4, <2>2 DEF inFlight
    <3>2. caller[h] = "handle" \/ renewer[h] # "none" => \E i \in 1..Len(todo) : todo[i] = h
      BY Zenon, <1>1, <1>4, <2>2, <3>1 DEF NoneForgotten
    <3>3. ASSUME NEW i \in 1..Len(todo), todo[i] = h
          PROVE  renewer[h] \in {"none", "done"}
      BY Zenon, <1>1, <1>4, <2>2, <3>3 DEF CleanedUp
    <3> QED BY Zenon, <3>2, <3>3
  <2> QED BY Zenon, <1>4, <2>2, <2>3
<1>6. ASSUME NEW s \in Stoppers, stopper[s] = "nil", NEW i \in 1..Len(todo)
      PROVE  state[todo[i]] = "released"
  <2>3. cleanup = "done" /\ ~shutdownErr
    BY Zenon, <1>1, <1>6 DEF Progress
  <2>1. cleanup = "done" /\ ~result
    BY <1>1, <2>3 DEF Progress
  <2>2. i < index
    BY Zenon, <1>4, <2>1
  <2> QED BY Zenon, <1>1, <2>1, <2>2 DEF CleanedUp
<1>7. SuccessMeansReleased
  BY Zenon, <1>6 DEF SuccessMeansReleased
<1> QED BY Zenon, <1>2, <1>3, <1>5, <1>7

\* The manager's state keeps the invariant, whatever callers, renewers and
\* Shutdown calls do.
LEMMA ManagerInvHolds == Spec => []ManagerInv
BY ManagerInit, ManagerStep, PTL DEF Spec

\* manager.active never passes its bound nor leaks a reservation, and the
\* acquisitionsDone channel is closed exactly once (manager.go,
\* finishAcquisitionLocked), for any number of callers.
THEOREM AccountingExactHolds == Spec => []AccountingExact
BY ManagerInvHolds, ManagerInvImplies, PTL

\* The cleanup reads the channel under one hold of the mutex and the entries
\* under the next, and no acquisition slips in between.
THEOREM CleanupSeesEveryEntryHolds == Spec => []CleanupSeesEveryEntry
BY ManagerInvHolds, ManagerInvImplies, PTL

\* When Shutdown has ended, no renewer runs and no handle was left out.
THEOREM ShutdownLeavesNothingHolds == Spec => []ShutdownLeavesNothing
BY ManagerInvHolds, ManagerInvImplies, PTL

\* A Shutdown that returns nil has released every handle it was to release.
THEOREM SuccessMeansReleasedHolds == Spec => []SuccessMeansReleased
BY ManagerInvHolds, ManagerInvImplies, PTL
===============================================================================
