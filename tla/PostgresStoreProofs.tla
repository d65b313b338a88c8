-------------------------- MODULE PostgresStoreProofs --------------------------
(***************************************************************************)
(* The PostgreSQL store implements the backend contract, its statements    *)
(* never wait for each other in a circle and Cleanup spares every lease,   *)
(* for any number of statements at the same time.                          *)
(*                                                                         *)
(* IInv is inductive: each step of a statement leaves alone what the other *)
(* statements have locked (Frame), and what a statement has found under    *)
(* its locks still holds when it commits (Own).                            *)
(***************************************************************************)
EXTENDS PostgresStore, TLAPS

\* What IInv says of one statement.
Stands(c) ==
  LET s == call[c]
  IN  /\ s \in Statement /\ s.op = "acquire" => AcquireStands(c, s)
      /\ s \in Statement /\ s.op # "acquire" => ChangeStands(c, s)
      /\ s \in CleanupStatement => CleanupStands(c, s)

Checked == \A k \in Key : records[k] # NoRow => records[k].expiresAt > records[k].acquiredAt

Tables ==
  /\ clock \in 0..MaxClock
  /\ fences \in [Key -> 0..MaxToken]
  /\ records \in [Key -> Row \cup {NoRow}]
  /\ Checked
Locks == fenceLock \in [Key -> Call \cup {NoCall}] /\ rowLock \in [Key -> Call \cup {NoCall}]

\* IInv is the conjunction of its parts.
LEMMA Parts ==
  IInv <=> /\ Tables /\ Locks /\ call \in [Call -> {Idle} \cup Statement \cup CleanupStatement]
           /\ LockOrder /\ \A c \in Call : Stands(c)
BY Zenon DEF IInv, TypeOK, Tables, Locks, Checked, Stands

\* A statement is of one kind.
LEMMA Kinds ==
  /\ Idle.pc = "idle"
  /\ \A s \in Statement : s.pc \in {"fence", "row", "commit"} /\ s.op \in {"acquire", "renew", "release"}
                          /\ s.key \in Key
  /\ \A s \in CleanupStatement : s.pc = "commit" /\ s.op = "cleanup" /\ s.doomed \in SUBSET Key
  /\ Idle \notin Statement /\ Idle \notin CleanupStatement
BY Zenon DEF Idle, Statement, CleanupStatement

\* TTLs are positive, and times and tokens are integers.
LEMMA Numbers ==
  /\ \A d \in Duration : d \in Int /\ d > 0
  /\ \A d \in Duration \cup {0} : d \in Int /\ (d > 0 => d \in Duration)
  /\ \A at \in 0..MaxClock : at \in Int
  /\ \A f \in 0..MaxToken : f < MaxToken => f + 1 \in 1..MaxToken
BY PostgresConstants

\* A row is not the missing one.
LEMMA RowIsNot == NoRow \notin Row
BY DEF NoRow, Row

-------------------------------------------------------------------------------
(* One statement moves *)

\* A step of c leaves the other statements and what they have locked alone;
\* it tells those that wait for a row it changes that their version is an old
\* one.
Frame(c) ==
  /\ \A x \in Call \ {c} :
       \/ /\ call'[x] = call[x]
          /\ call[x].pc = "row" => records'[call[x].key] = records[call[x].key]
       \/ /\ call[x] \in Statement /\ call[x].pc = "row"
          /\ call'[x] = [call[x] EXCEPT !.current = FALSE]
  /\ \A k \in Key :
       /\ fenceLock'[k] # fenceLock[k] => fenceLock[k] \in {NoCall, c} /\ fenceLock'[k] \in {NoCall, c}
       /\ rowLock'[k] # rowLock[k] => rowLock[k] \in {NoCall, c} /\ rowLock'[k] \in {NoCall, c}
       /\ fences'[k] # fences[k] => fenceLock[k] = c
       /\ records'[k] # records[k] => rowLock[k] = c

\* What c has to show for itself.
Own(c) ==
  /\ call'[c] \in {Idle} \cup Statement \cup CleanupStatement
  /\ Stands(c)'
  /\ \A k \in Key :
       /\ fenceLock'[k] = c => /\ call'[c].pc \in {"row", "commit"} /\ call'[c].op = "acquire"
                               /\ call'[c].key = k
       /\ rowLock'[k] = c => /\ call'[c].pc = "commit"
                             /\ IF call'[c].op = "cleanup" THEN k \in call'[c].doomed
                                ELSE call'[c].key = k

\* A statement whose snapshot has become an old version is otherwise the same.
LEMMA Outdated ==
  ASSUME NEW s \in Statement, NEW u, u = [s EXCEPT !.current = FALSE]
  PROVE  /\ u \in Statement /\ u.pc = s.pc /\ u.op = s.op /\ u.key = s.key /\ u.token = s.token
         /\ u.ttl = s.ttl /\ u.err = s.err
BY Zenon DEF Statement

\* IInv is kept by a step of c that keeps to its frame.
LEMMA FrameStep ==
  ASSUME IInv, NEW c \in Call, Frame(c), Own(c), Tables', Locks', DOMAIN call' = Call,
         call' = [x \in Call |-> call'[x]]
  PROVE  IInv'
<1> USE DEF Frame, Own
<1>0. /\ Tables /\ Locks /\ call \in [Call -> {Idle} \cup Statement \cup CleanupStatement]
      /\ LockOrder /\ \A x \in Call : Stands(x)
  BY Zenon, Parts
<1>1. ASSUME NEW x \in Call, x # c
      PROVE  /\ call'[x] \in {Idle} \cup Statement \cup CleanupStatement
             /\ call'[x].pc = call[x].pc /\ call'[x].op = call[x].op /\ call'[x].key = call[x].key
             /\ call'[x].pc = "commit" => call'[x] = call[x]
  <2>1. CASE call'[x] = call[x]
    BY <1>0, <2>1
  <2>2. CASE /\ call[x] \in Statement /\ call[x].pc = "row"
             /\ call'[x] = [call[x] EXCEPT !.current = FALSE]
    BY <2>2, Outdated
  <2> QED BY Zenon, <1>1, <2>1, <2>2
<1>2. call' \in [Call -> {Idle} \cup Statement \cup CleanupStatement]
  BY Zenon, <1>1
<1>3. LockOrder'
  BY <1>0, <1>1, PostgresConstants DEF LockOrder, Locks
<1>4. ASSUME NEW x \in Call, x # c PROVE Stands(x)'
  <2>1. \A k \in Key : /\ fenceLock[k] = x => fenceLock'[k] = x /\ fences'[k] = fences[k]
                       /\ rowLock[k] = x => rowLock'[k] = x /\ records'[k] = records[k]
    BY <1>0, <1>4, PostgresConstants DEF Locks
  <2>2. CASE /\ call'[x] = call[x]
             /\ call[x].pc = "row" => records'[call[x].key] = records[call[x].key]
    <3> DEFINE s == call[x]
    <3>0. Stands(x)
      BY Zenon, <1>0
    <3>1. ASSUME s \in Statement, s.op = "acquire" PROVE AcquireStands(x, s)'
      <4>1. AcquireStands(x, s) /\ s.key \in Key
        BY Zenon, <3>0, <3>1, Kinds DEF Stands
      <4>2. /\ fenceLock[s.key] = x => fenceLock'[s.key] = x /\ fences'[s.key] = fences[s.key]
            /\ rowLock[s.key] = x => rowLock'[s.key] = x /\ records'[s.key] = records[s.key]
        BY Zenon, <2>1, <4>1
      <4>3. s.ttl > 0 /\ (s.pc # "fence" => fenceLock[s.key] = x)
        BY Zenon, <4>1 DEF AcquireStands
      <4>4. ASSUME s.pc = "commit", fences[s.key] = MaxToken,
                   s.err = IF s.current THEN "ErrBackendUnavailable" ELSE "ErrContended"
            PROVE  AcquireStands(x, s)'
        <5>1. fenceLock'[s.key] = x /\ fences'[s.key] = MaxToken /\ s' = s
          BY Zenon, <2>2, <4>2, <4>3, <4>4
        <5>2. s.pc # "row"
          BY Zenon, <4>4
        <5> HIDE DEF s
        <5> QED BY Zenon, <4>3, <4>4, <5>1, <5>2 DEF AcquireStands
      <4>5. ASSUME s.pc = "commit", rowLock[s.key] = x, fences[s.key] < MaxToken,
                   s.err = IF ~records[s.key].active \/ records[s.key].expiresAt <= s.at
                           THEN "nil" ELSE "ErrContended"
            PROVE  AcquireStands(x, s)'
        <5>1. /\ fenceLock'[s.key] = x /\ fences'[s.key] < MaxToken
              /\ rowLock'[s.key] = x /\ records'[s.key] = records[s.key]
          BY Zenon, <4>2, <4>3, <4>5
        <5>2. s.err = IF ~records'[s.key].active \/ records'[s.key].expiresAt <= s.at
                      THEN "nil" ELSE "ErrContended"
          BY <4>5, <5>1, Zenon
        <5>3. s' = s
          BY Zenon, <2>2
        <5> HIDE DEF s
        <5> QED BY <4>3, <4>5, <5>1, <5>2, <5>3, Zenon DEF AcquireStands
      <4>6. s.pc # "commit" => AcquireStands(x, s)'
        BY <2>2, <4>1, <4>2, <4>3 DEF AcquireStands
      <4> QED BY Zenon, <4>1, <4>4, <4>5, <4>6 DEF AcquireStands
    <3>2. ASSUME s \in Statement, s.op # "acquire" PROVE ChangeStands(x, s)'
      <4>1. ChangeStands(x, s) /\ s.key \in Key
        BY Zenon, <3>0, <3>2, Kinds DEF Stands
      <4>2. rowLock[s.key] = x => rowLock'[s.key] = x /\ records'[s.key] = records[s.key]
        BY Zenon, <2>1, <4>1
      <4>3. s' = s /\ (s.pc = "row" => records'[s.key] = records[s.key])
        BY Zenon, <2>2
      <4> HIDE DEF s
      <4> QED BY Zenon, <4>1, <4>2, <4>3 DEF ChangeStands
    <3>3. ASSUME s \in CleanupStatement PROVE CleanupStands(x, s)'
      BY <2>1, <2>2, <3>0, <3>3, Kinds DEF Stands, CleanupStands
    <3> QED BY Zenon, <2>2, <3>1, <3>2, <3>3 DEF Stands
  <2>3. CASE /\ call[x] \in Statement /\ call[x].pc = "row"
             /\ call'[x] = [call[x] EXCEPT !.current = FALSE]
    <3> DEFINE s == call[x]   u == call'[x]
    <3>1. /\ u \in Statement /\ u.pc = "row" /\ u.op = s.op /\ u.key = s.key /\ s.pc = "row"
          /\ u.token = s.token /\ u.ttl = s.ttl /\ ~u.current
          /\ s \in Statement /\ s.key \in Key
      <4>1. s \in Statement /\ s.pc = "row" /\ u = [s EXCEPT !.current = FALSE]
        BY Zenon, <2>3
      <4>2. s.key \in Key
        BY Zenon, <4>1, Kinds
      <4> HIDE DEF s, u
      <4>3. /\ u \in Statement /\ u.pc = s.pc /\ u.op = s.op /\ u.key = s.key /\ u.token = s.token
            /\ u.ttl = s.ttl
        BY SMTT(30), <4>1, Outdated
      <4>4. ~u.current
        BY Zenon, <4>1 DEF Statement
      <4> QED BY Zenon, <4>1, <4>2, <4>3, <4>4
    <3>2. u \notin CleanupStatement
      BY Zenon, <3>1, Kinds
    <3>3. Stands(x) /\ u = s'
      BY Zenon, <1>0
    <3>4. ASSUME u.op = "acquire" PROVE AcquireStands(x, s)'
      <4>1. AcquireStands(x, s)
        BY Zenon, <3>1, <3>3, <3>4 DEF Stands
      <4>2. s.ttl > 0 /\ fenceLock'[s.key] = x /\ fences'[s.key] < MaxToken
        BY Zenon, <2>1, <3>1, <4>1 DEF AcquireStands
      <4> HIDE DEF s, u
      <4> QED BY Zenon, <3>1, <3>3, <4>2 DEF AcquireStands
    <3>5. ASSUME u.op # "acquire" PROVE ChangeStands(x, s)'
      <4>1. ChangeStands(x, s)
        BY Zenon, <3>1, <3>3, <3>5 DEF Stands
      <4> HIDE DEF s, u
      <4> QED BY Zenon, <3>1, <3>3, <4>1 DEF ChangeStands
    <3> QED BY Zenon, <3>2, <3>4, <3>5 DEF Stands
  <2> QED BY Zenon, <1>4, <2>2, <2>3
<1> QED BY Zenon, <1>2, <1>3, <1>4 DEF IInv, TypeOK, Tables, Locks, Checked, Stands

\* The end of a transaction keeps to it, with the rows it has locked changed.
LEMMA EndStep ==
  ASSUME IInv, NEW c \in Call, NEW changed, End(c, changed), Tables',
         \A k \in Key : /\ fences'[k] # fences[k] => fenceLock[k] = c
                        /\ records'[k] # records[k] => rowLock[k] = c /\ k \in changed
  PROVE  IInv'
<1>0. Locks /\ call \in [Call -> {Idle} \cup Statement \cup CleanupStatement]
  BY Zenon, Parts
<1>1. /\ Locks' /\ DOMAIN call' = Call /\ call' = [x \in Call |-> call'[x]] /\ call'[c] = Idle
  BY Zenon, <1>0 DEF Locks, End
<1>2. ASSUME NEW x \in Call \ {c}
      PROVE  \/ /\ call'[x] = call[x]
                /\ call[x].pc = "row" => records'[call[x].key] = records[call[x].key]
             \/ /\ call[x] \in Statement /\ call[x].pc = "row"
                /\ call'[x] = [call[x] EXCEPT !.current = FALSE]
  <2>1. call[x].pc = "row" => call[x] \in Statement /\ call[x].key \in Key
    BY Zenon, <1>0, Kinds
  <2> QED BY Zenon, <2>1 DEF End
<1>3. \A k \in Key :
        /\ fenceLock'[k] # fenceLock[k] => fenceLock[k] \in {NoCall, c} /\ fenceLock'[k] \in {NoCall, c}
        /\ rowLock'[k] # rowLock[k] => rowLock[k] \in {NoCall, c} /\ rowLock'[k] \in {NoCall, c}
        /\ fenceLock'[k] # c /\ rowLock'[k] # c
  BY Zenon, PostgresConstants DEF End
<1>4. Frame(c)
  BY Zenon, <1>2, <1>3 DEF Frame
<1>5. Stands(c)'
  BY Zenon, <1>1, Kinds DEF Stands
<1>6. Own(c)
  BY Zenon, <1>1, <1>3, <1>5 DEF Own
<1> QED BY Zenon, <1>1, <1>4, <1>6, FrameStep

\* A statement goes on to s and may take a free lock.
LEMMA MoveStep ==
  ASSUME IInv, NEW c \in Call, NEW s \in Statement \cup CleanupStatement,
         call' = [call EXCEPT ![c] = s],
         \A k \in Key : /\ fenceLock'[k] # fenceLock[k] => fenceLock[k] = NoCall /\ fenceLock'[k] = c
                        /\ rowLock'[k] # rowLock[k] => rowLock[k] = NoCall /\ rowLock'[k] = c,
         Locks', UNCHANGED <<clock, fences, records>>,
         Own(c)
  PROVE  IInv'
<1>0. Tables /\ Locks /\ call \in [Call -> {Idle} \cup Statement \cup CleanupStatement]
  BY Zenon, Parts
<1>1. Tables'
  BY Zenon, <1>0 DEF Tables, Checked
<1>2. DOMAIN call' = Call /\ call' = [x \in Call |-> call'[x]]
  BY Zenon, <1>0
<1>3. Frame(c)
  BY Zenon, <1>0 DEF Frame
<1> QED BY Zenon, <1>1, <1>2, <1>3, FrameStep

\* Nothing but the clock and the answer changes.
LEMMA QuietStep ==
  ASSUME IInv, UNCHANGED <<fences, records, fenceLock, rowLock, call>>, clock' \in 0..MaxClock
  PROVE  IInv'
<1>0. /\ Tables /\ Locks /\ call \in [Call -> {Idle} \cup Statement \cup CleanupStatement]
      /\ LockOrder /\ \A x \in Call : Stands(x)
  BY Zenon, Parts
<1>1. Tables' /\ Locks' /\ (call \in [Call -> {Idle} \cup Statement \cup CleanupStatement])'
  BY Zenon, <1>0 DEF Tables, Locks, Checked
<1>2. LockOrder'
  BY Zenon, <1>0 DEF LockOrder
<1>3. ASSUME NEW x \in Call PROVE Stands(x)'
  BY SMTT(30), <1>0 DEF Stands, AcquireStands, ChangeStands, CleanupStands
<1> QED BY Zenon, <1>1, <1>2, <1>3 DEF IInv, TypeOK, Tables, Locks, Checked, Stands

\* A statement before its first lock holds none.
LEMMA HoldsNone ==
  ASSUME IInv, NEW c \in Call, call[c].pc \notin {"row", "commit"}
  PROVE  \A k \in Key : fenceLock[k] # c /\ rowLock[k] # c
BY Parts, PostgresConstants DEF LockOrder

\* Before its commit it holds no row of lease_records.
LEMMA HoldsNoRow ==
  ASSUME IInv, NEW c \in Call, call[c].pc # "commit"
  PROVE  \A k \in Key : rowLock[k] # c
BY Parts, PostgresConstants DEF LockOrder

-------------------------------------------------------------------------------
(* The actions keep the invariant *)

\* A statement that takes its snapshot.
LEMMA BeginStep ==
  ASSUME IInv, NEW c \in Call, call[c] = Idle,
         NEW op \in {"acquire", "renew", "release"}, NEW k \in Key, NEW o \in Owner,
         NEW t \in 0..MaxToken, NEW d \in Duration \cup {0}, NEW pc \in {"fence", "row"},
         IF op = "acquire" THEN pc = "fence" /\ d > 0
         ELSE /\ pc = "row" /\ t > 0 /\ (op = "renew" => d > 0)
              /\ Selects(op, records[k], o, t, clock),
         Begin(c, op, k, o, t, d, pc)
  PROVE  IInv'
<1>0. Tables /\ Locks /\ call \in [Call -> {Idle} \cup Statement \cup CleanupStatement]
  BY Zenon, Parts
<1>1. PICK at \in 0..MaxClock, exhausted \in BOOLEAN :
        /\ at = IF pc = "row" THEN clock ELSE 0
        /\ call' = [call EXCEPT ![c] =
                      [pc |-> pc, op |-> op, key |-> k, owner |-> o, token |-> t, ttl |-> d,
                       at |-> at, exhausted |-> exhausted, current |-> TRUE, err |-> "none"]]
  <2>1. (IF pc = "row" THEN clock ELSE 0) \in 0..MaxClock
    BY <1>0, PostgresConstants DEF Tables
  <2>2. (fences[k] >= MaxToken) \in BOOLEAN
    OBVIOUS
  <2> QED BY <2>1, <2>2, Zenon DEF Begin
<1> DEFINE s == [pc |-> pc, op |-> op, key |-> k, owner |-> o, token |-> t, ttl |-> d,
                 at |-> at, exhausted |-> exhausted, current |-> TRUE, err |-> "none"]
<1>2. /\ s \in Statement /\ s \notin CleanupStatement /\ s.pc = pc /\ s.op = op /\ s.key = k
      /\ s.owner = o /\ s.token = t /\ s.ttl = d /\ s.at = at
  BY Zenon DEF Statement, CleanupStatement
<1> HIDE DEF s
<1>3. call'[c] = s /\ UNCHANGED <<clock, fences, records, fenceLock, rowLock>>
  BY Zenon, <1>0, <1>1 DEF Begin, s
<1>4. Stands(c)'
  <2>1. op # "acquire" => Selects(s.op, records'[s.key], s.owner, s.token, s.at)
    BY Zenon, <1>1, <1>2, <1>3
  <2> QED BY Zenon, <1>2, <1>3, <2>1 DEF Stands, AcquireStands, ChangeStands
<1>5. Own(c)
  BY Zenon, <1>2, <1>3, <1>4, HoldsNone, Kinds DEF Own
<1>6. Locks'
  BY Zenon, <1>0, <1>3 DEF Locks
<1> QED BY Zenon, <1>1, <1>2, <1>3, <1>5, <1>6, MoveStep DEF s

\* A statement that has decided what it will answer.
Decided(s, at, err, current) ==
  [s EXCEPT !.pc = "commit", !.at = at, !.err = err, !.exhausted = FALSE, !.current = current]

\* next_fence
LEMMA NextFenceStep ==
  ASSUME IInv, NEW c \in Call, NextFence(c)
  PROVE  IInv'
<1>0. Tables /\ Locks /\ call \in [Call -> {Idle} \cup Statement \cup CleanupStatement] /\ Stands(c)
  BY Zenon, Parts
<1> DEFINE s == call[c]   k == s.key
<1>1. s \in Statement /\ s.pc = "fence" /\ k \in Key
  BY Zenon, <1>0, Kinds DEF NextFence
<1>2. s.op = "acquire" /\ s.ttl > 0
  BY Zenon, <1>0, <1>1 DEF Stands, ChangeStands, AcquireStands
<1>3. /\ fenceLock[k] = NoCall /\ fenceLock' = [fenceLock EXCEPT ![k] = c]
      /\ UNCHANGED <<clock, fences, records, rowLock>>
  BY Zenon DEF NextFence
<1>4. Locks' /\ clock \in 0..MaxClock /\ fences[k] \in 0..MaxToken /\ fenceLock'[k] = c
  BY Zenon, <1>0, <1>1, <1>3 DEF Locks, Tables
<1>5. \A x \in Key : x # k => fenceLock'[x] = fenceLock[x]
  BY Zenon, <1>0, <1>1, <1>3 DEF Locks
<1>6. ASSUME NEW u \in Statement, call' = [call EXCEPT ![c] = u], u.pc \in {"row", "commit"},
             u.op = "acquire", u.key = k, Stands(c)'
      PROVE  IInv'
  <2>1. call'[c] = u
    BY Zenon, <1>0, <1>6
  <2>2. Own(c)
    BY <1>1, <1>3, <1>4, <1>5, <1>6, <2>1, HoldsNone DEF Own
  <2>3. \A x \in Key : fenceLock'[x] # fenceLock[x] => fenceLock[x] = NoCall /\ fenceLock'[x] = c
    BY Zenon, <1>3, <1>4, <1>5
  <2> QED BY Zenon, <1>3, <1>4, <1>6, <2>2, <2>3, MoveStep
<1>7. CASE fences[k] < MaxToken
  <2> DEFINE u == [s EXCEPT !.pc = "row", !.at = clock, !.exhausted = FALSE]
  <2>1. call' = [call EXCEPT ![c] = u]
    BY Zenon, <1>7 DEF NextFence
  <2>2. /\ u \in Statement /\ u.pc = "row" /\ u.op = "acquire" /\ u.key = k /\ u.ttl = s.ttl
        /\ u \notin CleanupStatement
    BY Zenon, <1>1, <1>2, <1>4 DEF Statement, CleanupStatement
  <2> HIDE DEF u
  <2>3. Stands(c)'
    BY Zenon, <1>0, <1>2, <1>3, <1>4, <1>7, <2>1, <2>2 DEF Stands, AcquireStands
  <2> QED BY Zenon, <1>6, <2>1, <2>2, <2>3
<1>8. CASE ~(fences[k] < MaxToken)
  <2>1. PICK err \in {"nil", "ErrContended", "ErrBackendUnavailable"}, current \in BOOLEAN :
          /\ Decide(c, clock, err, current)
          /\ err = IF current THEN "ErrBackendUnavailable" ELSE "ErrContended"
    <3>1. s.exhausted \in BOOLEAN
      BY Zenon, <1>1 DEF Statement
    <3> QED BY Zenon, <1>8, <3>1 DEF NextFence
  <2> DEFINE u == Decided(s, clock, err, current)
  <2>2. call' = [call EXCEPT ![c] = u]
    BY Zenon, <2>1 DEF Decide, Decided
  <2>3. /\ u \in Statement /\ u.pc = "commit" /\ u.op = "acquire" /\ u.key = k /\ u.err = err
        /\ u.ttl = s.ttl /\ u.current = current /\ u \notin CleanupStatement
    <3>1. s \in Statement /\ clock \in 0..MaxClock /\ s.op = "acquire"
      BY Zenon, <1>1, <1>2, <1>4
    <3> HIDE DEF s
    <3> QED BY Zenon, <3>1 DEF Decided, Statement, CleanupStatement
  <2> HIDE DEF u
  <2>4. fences[k] = MaxToken
    BY <1>4, <1>8, PostgresConstants
  <2>5. Stands(c)'
    BY Zenon, <1>0, <1>2, <1>3, <1>4, <2>1, <2>2, <2>3, <2>4 DEF Stands, AcquireStands
  <2> QED BY Zenon, <1>6, <2>2, <2>3, <2>5
<1> QED BY Zenon, <1>7, <1>8

\* A statement that gets its row and decides.
LEMMA RowStep ==
  ASSUME IInv, NEW c \in Call, call[c].pc = "row", rowLock[call[c].key] = NoCall,
         rowLock' = [rowLock EXCEPT ![call[c].key] = c],
         NEW at \in 0..MaxClock, NEW err \in {"nil", "ErrContended"}, Decide(c, at, err, TRUE),
         UNCHANGED <<clock, fences, records, fenceLock>>,
         NEW u, u = Decided(call[c], at, err, TRUE),
         IF u.op = "acquire" THEN AcquireStands(c, u)' ELSE ChangeStands(c, u)'
  PROVE  IInv'
<1>0. /\ Tables /\ Locks /\ call \in [Call -> {Idle} \cup Statement \cup CleanupStatement]
      /\ Stands(c) /\ LockOrder
  BY Zenon, Parts
<1> DEFINE s == call[c]   k == s.key
<1>1. s \in Statement /\ k \in Key /\ s.op \in {"acquire", "renew", "release"}
  BY Zenon, <1>0, Kinds
<1>2. /\ u \in Statement /\ u.pc = "commit" /\ u.op = s.op /\ u.key = k /\ u \notin CleanupStatement
  <2>1. err \in {"nil", "ErrContended", "ErrBackendUnavailable"}
    BY Zenon
  <2> QED BY Zenon, <1>1, <2>1 DEF Decided, Statement, CleanupStatement
<1>3. call' = [call EXCEPT ![c] = u]
  BY Zenon DEF Decide, Decided
<1>4. call'[c] = u
  BY Zenon, <1>0, <1>3
<1>5. Stands(c)'
  BY Zenon, <1>2, <1>4 DEF Stands
<1>6. Locks' /\ rowLock'[k] = c /\ \A x \in Key : x # k => rowLock'[x] = rowLock[x]
  BY Zenon, <1>0, <1>1 DEF Locks
<1>7. \A x \in Key : fenceLock'[x] = c => u.pc \in {"row", "commit"} /\ u.op = "acquire" /\ u.key = x
  <2> SUFFICES ASSUME NEW x \in Key, fenceLock'[x] = c
               PROVE  s.op = "acquire" /\ k = x
    BY Zenon, <1>2
  <2>1. fenceLock[x] = c /\ fenceLock[x] # NoCall
    BY Zenon, PostgresConstants
  <2>2. call[fenceLock[x]].op = "acquire" /\ call[fenceLock[x]].key = x
    BY Zenon, <1>0, <2>1 DEF LockOrder
  <2> QED BY Zenon, <2>1, <2>2
<1>8. \A x \in Key : rowLock'[x] = c => u.key = x
  BY Zenon, <1>2, <1>6, HoldsNoRow
<1>9. Own(c)
  BY Zenon, <1>1, <1>2, <1>4, <1>5, <1>7, <1>8 DEF Own
<1>10. \A x \in Key : rowLock'[x] # rowLock[x] => rowLock[x] = NoCall /\ rowLock'[x] = c
  BY Zenon, <1>6
<1> QED BY Zenon, <1>2, <1>3, <1>6, <1>9, <1>10, MoveStep

\* installed
LEMMA InstalledStep ==
  ASSUME IInv, NEW c \in Call, Installed(c)
  PROVE  IInv'
<1>0. /\ Tables /\ Locks /\ call \in [Call -> {Idle} \cup Statement \cup CleanupStatement] /\ Stands(c)
  BY Zenon, Parts
<1> DEFINE s == call[c]   k == s.key   r == records[k]   at == IF r = NoRow THEN s.at ELSE clock
           err == IF ~r.active \/ r.expiresAt <= at THEN "nil" ELSE "ErrContended"
<1>1. /\ s \in Statement /\ k \in Key /\ s.pc = "row" /\ s.op = "acquire" /\ rowLock[k] = NoCall
      /\ rowLock' = [rowLock EXCEPT ![k] = c] /\ UNCHANGED <<clock, fences, records, fenceLock>>
  BY Zenon, <1>0, Kinds DEF Installed
<1>2. at \in 0..MaxClock
  BY Zenon, <1>0, <1>1 DEF Tables, Statement
<1>3. err \in {"nil", "ErrContended"} /\ Decide(c, at, err, TRUE)
  BY Zenon DEF Installed
<1> PICK a, e : a = at /\ e = err
  BY Zenon
<1> PICK u : u = Decided(s, a, e, TRUE)
  BY Zenon
<1>4. fenceLock[k] = c /\ fences[k] < MaxToken /\ rowLock'[k] = c /\ s.ttl > 0
  BY Zenon, <1>0, <1>1 DEF Stands, AcquireStands, Locks
<1>5. a \in 0..MaxClock /\ e \in {"nil", "ErrContended"} /\ Decide(c, a, e, TRUE)
  BY Zenon, <1>2, <1>3
<1>6. e = IF ~records[k].active \/ records[k].expiresAt <= a THEN "nil" ELSE "ErrContended"
  BY Zenon
<1> HIDE DEF at, err
<1>7. u.op = "acquire" /\ u.pc = "commit" /\ u.key = k /\ u.at = a /\ u.err = e /\ u.ttl = s.ttl
  BY Zenon, <1>1, <1>5 DEF Decided, Statement, CleanupStatement
<1>8. AcquireStands(c, u)'
  <2>1. fenceLock'[u.key] = c /\ rowLock'[u.key] = c /\ fences'[u.key] < MaxToken
    BY Zenon, <1>1, <1>4, <1>7
  <2>2. records'[u.key] = records[k]
    BY Zenon, <1>1, <1>7
  <2>3. u.err = IF ~records'[u.key].active \/ records'[u.key].expiresAt <= u.at
                THEN "nil" ELSE "ErrContended"
    BY <1>6, <1>7, <2>2, Zenon
  <2> QED BY <1>4, <1>7, <2>1, <2>3, Zenon DEF AcquireStands
<1> QED BY Zenon, <1>1, <1>5, <1>7, <1>8, RowStep

\* A renewal or a release that gets its row, or finds it is not the one.
LEMMA LockedStep ==
  ASSUME IInv, NEW c \in Call, Locked(c)
  PROVE  IInv'
<1>0. /\ Tables /\ Locks /\ call \in [Call -> {Idle} \cup Statement \cup CleanupStatement] /\ Stands(c)
  BY Zenon, Parts
<1> DEFINE s == call[c]   k == s.key   r == records[k]
<1>1. /\ s \in Statement /\ k \in Key /\ s.pc = "row" /\ s.op \in {"renew", "release"}
      /\ rowLock[k] = NoCall /\ UNCHANGED <<clock, fences, records>>
  BY Zenon, <1>0, Kinds DEF Locked
<1>2. PICK at \in 0..MaxClock : at = IF s.current THEN s.at ELSE clock
  BY Zenon, <1>0, <1>1 DEF Tables, Statement
<1>3. CASE End(c, {})
  <2>1. Tables'
    BY Zenon, <1>0, <1>1 DEF Tables, Checked
  <2> QED BY Zenon, <1>1, <1>3, <2>1, EndStep
<1>4. CASE /\ Selects(s.op, r, s.owner, s.token, at)
           /\ Changed(s, r, at).expiresAt > r.acquiredAt
           /\ rowLock' = [rowLock EXCEPT ![k] = c]
           /\ Decide(c, at, "nil", TRUE) /\ UNCHANGED fenceLock
  <2>0. PICK u : u = Decided(s, at, "nil", TRUE)
    BY Zenon
  <2>1. /\ u.pc = "commit" /\ u.op = s.op /\ u.key = k /\ u.owner = s.owner /\ u.token = s.token
        /\ u.ttl = s.ttl /\ u.at = at /\ u.err = "nil"
    BY Zenon, <1>1, <2>0 DEF Decided, Statement, CleanupStatement
  <2>2. s.token > 0 /\ (s.op = "renew" => s.ttl > 0)
    BY Zenon, <1>0, <1>1 DEF Stands, ChangeStands
  <2>3. rowLock'[k] = c /\ records'[k] = r
    BY Zenon, <1>0, <1>1, <1>4 DEF Locks
  <2>4. Changed(u, r, at) = Changed(s, r, at)
    BY <2>1, Zenon DEF Changed
  <2>5. /\ Selects(u.op, records'[u.key], u.owner, u.token, u.at)
        /\ Changed(u, records'[u.key], u.at).expiresAt > records'[u.key].acquiredAt
    BY <1>4, <2>1, <2>3, <2>4, Zenon
  <2>6. ChangeStands(c, u)'
    BY Zenon, <2>1, <2>2, <2>3, <2>5, <1>1 DEF ChangeStands, Selects, Changed
  <2> QED BY Zenon, <1>1, <1>4, <2>0, <2>1, <2>6, RowStep
<1> QED BY Zenon, <1>2, <1>3, <1>4 DEF Locked

\* A rollback gives the locks back.
LEMMA AbortStep ==
  ASSUME IInv, NEW c \in Call, Abort(c)
  PROVE  IInv'
<1>1. Tables /\ Tables'
  BY Zenon, Parts DEF Tables, Checked, Abort
<1> QED BY Zenon, <1>1, EndStep DEF Abort

\* A commit writes what its locks allow.
LEMMA CommitStep ==
  ASSUME IInv, NEW c \in Call, call[c] \in Statement, NEW r \in Row \cup {NoRow}, NEW f \in 0..MaxToken,
         r # NoRow => r.expiresAt > r.acquiredAt,
         r # records[call[c].key] => rowLock[call[c].key] = c,
         f # fences[call[c].key] => fenceLock[call[c].key] = c,
         Commit(c, r, f)
  PROVE  IInv'
<1>0. Tables /\ call[c].key \in Key
  BY Zenon, Parts, Kinds
<1>1. /\ fences' = [fences EXCEPT ![call[c].key] = f] /\ records' = [records EXCEPT ![call[c].key] = r]
      /\ UNCHANGED clock
  BY Zenon DEF Commit
<1>2. Tables'
  BY Zenon, <1>0, <1>1 DEF Tables, Checked
<1>3. PICK changed : End(c, changed) /\ (r # records[call[c].key] => call[c].key \in changed)
  BY Zenon DEF Commit
<1>4. \A k \in Key : /\ fences'[k] # fences[k] => fenceLock[k] = c
                     /\ records'[k] # records[k] => rowLock[k] = c /\ k \in changed
  BY Zenon, <1>0, <1>1, <1>3 DEF Tables
<1> QED BY Zenon, <1>2, <1>3, <1>4, EndStep

\* What a committing acquisition relies on and writes.
LEMMA CommitAcquireStep ==
  ASSUME IInv, NEW c \in Call, CommitAcquire(c)
  PROVE  /\ IInv'
         /\ call[c] \in Statement /\ call[c].op = "acquire" /\ call[c].pc = "commit"
         /\ AcquireStands(c, call[c]) /\ call[c].ttl \in Duration /\ call[c].at \in Int
         /\ fences[call[c].key] \in 0..MaxToken
         /\ \A x \in Key : records'[x] = NoRow => records[x] = NoRow
<1>0. Tables /\ call \in [Call -> {Idle} \cup Statement \cup CleanupStatement] /\ Stands(c)
  BY Zenon, Parts
<1> DEFINE s == call[c]   k == s.key   f == fences[k]   next == Increment(f)
           r == IF s.err = "nil"
                THEN [owner |-> s.owner, token |-> next, acquiredAt |-> s.at,
                      expiresAt |-> s.at + s.ttl, active |-> TRUE, updatedAt |-> s.at]
                ELSE records[k]
<1>1. s \in Statement /\ s.op = "acquire" /\ s.pc = "commit"
  BY Zenon, <1>0, Kinds DEF CommitAcquire
<1>2. AcquireStands(c, s)
  BY Zenon, <1>0, <1>1 DEF Stands
<1>3. s.ttl \in Duration /\ s.at \in Int /\ s.owner \in Owner /\ k \in Key /\ f \in 0..MaxToken
  <2>1. s.ttl \in Duration \cup {0} /\ s.at \in 0..MaxClock /\ s.owner \in Owner /\ k \in Key
    BY Zenon, <1>1 DEF Statement
  <2>2. s.ttl > 0
    BY Zenon, <1>2 DEF AcquireStands
  <2>3. f \in 0..MaxToken
    BY Zenon, <1>0, <2>1 DEF Tables
  <2> QED BY Zenon, <2>1, <2>2, <2>3, Numbers
<1>4. next \in 0..MaxToken /\ (next # f => fenceLock[k] = c)
  <2>1. next \in 0..MaxToken /\ (f = MaxToken => next = f)
    BY <1>3, PostgresConstants DEF Increment
  <2>2. f # MaxToken => fenceLock[k] = c
    BY Zenon, <1>1, <1>2 DEF AcquireStands
  <2> HIDE DEF next
  <2> QED BY Zenon, <2>1, <2>2
<1>5. /\ r \in Row \cup {NoRow} /\ (r # NoRow => r.expiresAt > r.acquiredAt)
      /\ (r # records[k] => rowLock[k] = c) /\ (r = NoRow => records[k] = NoRow)
  <2>1. CASE s.err = "nil"
    <3>1. rowLock[k] = c /\ f < MaxToken
      BY Zenon, <1>1, <1>2, <2>1 DEF AcquireStands
    <3>2. next \in 1..MaxToken /\ s.at + s.ttl \in Int /\ s.at + s.ttl > s.at
      <4>1. next \in 1..MaxToken
        BY Zenon, <1>3, <3>1, Numbers DEF Increment
      <4>2. s.ttl \in Int /\ s.ttl > 0
        BY Zenon, <1>3, Numbers
      <4>3. s.at \in Int
        BY Zenon, <1>3
      <4>4. \A a, d \in Int : d > 0 => a + d \in Int /\ a + d > a
        OBVIOUS
      <4> QED BY Zenon, <4>1, <4>2, <4>3, <4>4
    <3> HIDE DEF next
    <3>3. r \in Row /\ r.expiresAt > r.acquiredAt
      BY Zenon, <1>3, <2>1, <3>2 DEF Row
    <3> QED BY Zenon, <3>1, <3>3, RowIsNot
  <2>2. CASE s.err # "nil"
    BY Zenon, <1>0, <1>3, <2>2 DEF Tables, Checked
  <2> QED BY Zenon, <2>1, <2>2
<1>6. Commit(c, r, next)
  BY Zenon DEF CommitAcquire
<1> HIDE DEF r, next
<1>7. IInv'
  BY Zenon, <1>1, <1>4, <1>5, <1>6, CommitStep
<1>8. \A x \in Key : records'[x] = NoRow => records[x] = NoRow
  BY Zenon, <1>0, <1>3, <1>5, <1>6 DEF Commit, Tables
<1> QED BY Zenon, <1>1, <1>2, <1>3, <1>7, <1>8

\* What a committing renewal or release relies on and writes.
LEMMA CommitChangeStep ==
  ASSUME IInv, NEW c \in Call, CommitChange(c)
  PROVE  /\ IInv'
         /\ call[c] \in Statement /\ call[c].op \in {"renew", "release"} /\ call[c].pc = "commit"
         /\ ChangeStands(c, call[c]) /\ (call[c].op = "renew" => call[c].ttl \in Duration)
         /\ call[c].at \in Int /\ records[call[c].key] \in Row
         /\ \A x \in Key : records'[x] = NoRow => records[x] = NoRow
<1>0. Tables /\ call \in [Call -> {Idle} \cup Statement \cup CleanupStatement] /\ Stands(c)
  BY Zenon, Parts
<1> DEFINE s == call[c]   k == s.key   r == records[k]   changed == Changed(s, r, s.at)
<1>1. s \in Statement /\ s.op \in {"renew", "release"} /\ s.pc = "commit"
  BY Zenon, <1>0, Kinds DEF CommitChange
<1>2. ChangeStands(c, s)
  BY Zenon, <1>0, <1>1 DEF Stands
<1>3. /\ s.op = "renew" => s.ttl \in Duration
      /\ s.ttl \in Int /\ s.at \in Int /\ k \in Key /\ fences[k] \in 0..MaxToken
      /\ r \in Row \cup {NoRow}
  <2>1. /\ s.ttl \in Duration \cup {0} /\ s.at \in 0..MaxClock /\ k \in Key
    BY Zenon, <1>1 DEF Statement
  <2>2. s.op = "renew" => s.ttl > 0
    BY Zenon, <1>2 DEF ChangeStands
  <2>3. fences[k] \in 0..MaxToken /\ r \in Row \cup {NoRow}
    BY Zenon, <1>0, <2>1 DEF Tables
  <2>4. s.ttl \in Int /\ s.at \in Int
    BY Zenon, <2>1, Numbers
  <2>5. s.op = "renew" => s.ttl \in Duration
    BY Zenon, <2>1, <2>2, Numbers
  <2> QED BY Zenon, <2>1, <2>3, <2>4, <2>5
<1>4. r \in Row
  <2>1. r.active
    BY Zenon, <1>1, <1>2 DEF ChangeStands, Selects
  <2> QED BY <1>3, <2>1 DEF NoRow
<1>5. changed \in Row /\ changed.acquiredAt = r.acquiredAt
  <2>1. CASE s.op = "renew"
    <3>1. s.at + s.ttl \in Int
      BY <1>3
    <3> QED BY Zenon, <1>3, <1>4, <2>1, <3>1 DEF Changed, Row
  <2>2. CASE s.op = "release"
    BY Zenon, <1>3, <1>4, <2>2 DEF Changed, Row
  <2> QED BY Zenon, <1>1, <2>1, <2>2
<1>6. changed.expiresAt > changed.acquiredAt /\ rowLock[k] = c
  BY Zenon, <1>1, <1>2, <1>5 DEF ChangeStands
<1>7. Commit(c, changed, fences[k])
  BY Zenon DEF CommitChange
<1> HIDE DEF changed
<1>8. IInv'
  BY Zenon, <1>1, <1>3, <1>5, <1>6, <1>7, CommitStep
<1>9. \A x \in Key : records'[x] = NoRow => records[x] = NoRow
  BY Zenon, <1>0, <1>3, <1>5, <1>7, RowIsNot DEF Commit, Tables
<1> QED BY Zenon, <1>1, <1>2, <1>3, <1>4, <1>8, <1>9

\* doomed: the rows are locked as they are selected.
LEMMA BeginCleanupStep ==
  ASSUME IInv, NEW c \in Call, BeginCleanup(c)
  PROVE  IInv'
<1>0. Tables /\ Locks /\ call \in [Call -> {Idle} \cup Statement \cup CleanupStatement]
  BY Zenon, Parts
<1>1. PICK doomed \in SUBSET {k \in Key : Old(k) /\ rowLock[k] = NoCall} :
        /\ rowLock' = [k \in Key |-> IF k \in doomed THEN c ELSE rowLock[k]]
        /\ call' = [call EXCEPT ![c] = [pc |-> "commit", op |-> "cleanup", doomed |-> doomed]]
  BY Zenon DEF BeginCleanup
<1>2. call[c] = Idle /\ UNCHANGED <<clock, fences, records, fenceLock>>
  BY Zenon DEF BeginCleanup
<1>3. PICK s : s = [pc |-> "commit", op |-> "cleanup", doomed |-> doomed]
  BY Zenon
<1>4. s \in CleanupStatement /\ s \notin Statement /\ s.pc = "commit" /\ s.op = "cleanup" /\ s.doomed = doomed
  BY Zenon, <1>3 DEF CleanupStatement, Statement
<1>5. call'[c] = s /\ Locks'
  BY Zenon, <1>0, <1>1, <1>2, <1>3 DEF Locks
<1>6. Stands(c)'
  BY Zenon, <1>1, <1>2, <1>4, <1>5 DEF Stands, CleanupStands, Old
<1>7. \A k \in Key : fenceLock'[k] # c /\ (rowLock'[k] = c => k \in doomed)
  BY Zenon, <1>1, <1>2, HoldsNone, Kinds
<1>8. Own(c)
  BY Zenon, <1>4, <1>5, <1>6, <1>7 DEF Own
<1>9. \A k \in Key : rowLock'[k] # rowLock[k] => rowLock[k] = NoCall /\ rowLock'[k] = c
  BY Zenon, <1>1
<1> QED BY Zenon, <1>1, <1>2, <1>3, <1>4, <1>5, <1>8, <1>9, MoveStep

\* The rows a cleanup deletes are still the inactive ones it has selected.
LEMMA CommitCleanupStep ==
  ASSUME IInv, NEW c \in Call, CommitCleanup(c)
  PROVE  /\ IInv'
         /\ \A k \in Key : records'[k] # records[k] => records'[k] = NoRow /\ ~records[k].active
<1>0. Tables /\ call \in [Call -> {Idle} \cup Statement \cup CleanupStatement] /\ Stands(c)
  BY Zenon, Parts
<1>1. call[c] \in CleanupStatement
  BY Zenon, <1>0, Kinds DEF CommitCleanup
<1>2. /\ \A k \in call[c].doomed : rowLock[k] = c /\ ~records[k].active
      /\ records' = [k \in Key |-> IF k \in call[c].doomed THEN NoRow ELSE records[k]]
      /\ UNCHANGED <<clock, fences>> /\ End(c, call[c].doomed)
  BY Zenon, <1>0, <1>1 DEF Stands, CleanupStands, CommitCleanup
<1>3. Tables'
  BY Zenon, <1>0, <1>2 DEF Tables, Checked
<1>4. \A k \in Key : records'[k] # records[k] => k \in call[c].doomed /\ records'[k] = NoRow
  BY Zenon, <1>2
<1> QED BY Zenon, <1>2, <1>3, <1>4, EndStep

\* Before any statement the invariant holds.
LEMMA InitInv == Init => IInv
<1> SUFFICES ASSUME Init
             PROVE  /\ Tables /\ Locks /\ LockOrder /\ \A c \in Call : Stands(c)
                    /\ call \in [Call -> {Idle} \cup Statement \cup CleanupStatement]
  BY Zenon, Parts
<1>1. Tables
  BY PostgresConstants DEF Init, Tables, Checked
<1>2. Locks /\ LockOrder
  BY Zenon DEF Init, Locks, LockOrder
<1>3. call \in [Call -> {Idle} \cup Statement \cup CleanupStatement]
  BY Zenon DEF Init
<1>4. ASSUME NEW c \in Call PROVE Stands(c)
  BY Zenon, Kinds DEF Init, Stands
<1> QED BY Zenon, <1>1, <1>2, <1>3, <1>4

\* The arguments with which a statement begins.
LEMMA BeginSteps ==
  ASSUME IInv, NEW k \in Key, NEW o \in Owner, NEW c \in Call,
         \/ \E d \in Duration : BeginAcquire(c, k, o, d)
         \/ \E t \in 1..fences[k], d \in Duration : BeginRenew(c, k, o, t, d)
         \/ \E t \in 1..fences[k] : BeginRelease(c, k, o, t)
  PROVE  IInv'
<1>0. Tables /\ \A t \in 1..fences[k] : t \in 0..MaxToken /\ t > 0
  BY Parts, PostgresConstants DEF Tables
<1>1. ASSUME UNCHANGED <<clock, fences, records, fenceLock, rowLock, call>> PROVE IInv'
  BY Zenon, <1>0, <1>1, QuietStep DEF Tables
<1>2. ASSUME NEW d \in Duration, BeginAcquire(c, k, o, d) PROVE IInv'
  <2>1. d > 0 /\ 0 \in 0..MaxToken
    BY Numbers, PostgresConstants
  <2> QED BY Zenon, <1>2, <2>1, BeginStep DEF BeginAcquire
<1>3. ASSUME NEW t \in 1..fences[k], NEW d \in Duration, BeginRenew(c, k, o, t, d) PROVE IInv'
  <2>1. d > 0
    BY Zenon, Numbers
  <2> QED BY Zenon, <1>0, <1>1, <1>3, <2>1, BeginStep DEF BeginRenew, ReturnAtOnce
<1>4. ASSUME NEW t \in 1..fences[k], BeginRelease(c, k, o, t) PROVE IInv'
  BY Zenon, <1>0, <1>1, <1>4, BeginStep DEF BeginRelease, ReturnAtOnce
<1> QED BY Zenon, <1>2, <1>3, <1>4

\* Every step keeps the invariant.
LEMMA NextInv ==
  ASSUME IInv, [Next]_vars
  PROVE  IInv'
<1>1. ASSUME UNCHANGED <<fences, records, fenceLock, rowLock, call>>, clock' \in 0..MaxClock PROVE IInv'
  BY Zenon, <1>1, QuietStep
<1>2. clock \in 0..MaxClock
  BY Zenon, Parts DEF Tables
<1>3. ASSUME NEW k \in Key, NEW o \in Owner, NEW t \in 1..fences[k], Validate(k, o, t) PROVE IInv'
  BY Zenon, <1>1, <1>2, <1>3 DEF Validate, ReturnAtOnce
<1>4. ASSUME NEW op, Refused(op) PROVE IInv'
  BY Zenon, <1>1, <1>2, <1>4 DEF Refused
<1>5. CASE Time \/ UNCHANGED vars
  BY Zenon, <1>1, <1>2, <1>5 DEF Time, vars
<1>6. ASSUME NEW c \in Call,
             \/ NextFence(c) \/ Installed(c) \/ CommitAcquire(c) \/ Locked(c) \/ CommitChange(c)
             \/ BeginCleanup(c) \/ CommitCleanup(c) \/ Abort(c)
      PROVE  IInv'
  BY Zenon, <1>6, NextFenceStep, InstalledStep, CommitAcquireStep, LockedStep, CommitChangeStep,
     BeginCleanupStep, CommitCleanupStep, AbortStep
<1>7. CASE \E k \in Key, o \in Owner :
             \/ \E c \in Call, d \in Duration : BeginAcquire(c, k, o, d)
             \/ \E t \in 1..fences[k] :
                  \E c \in Call : \/ \E d \in Duration : BeginRenew(c, k, o, t, d)
                                 \/ BeginRelease(c, k, o, t)
  BY Zenon, <1>7, BeginSteps
<1> QED BY Zenon, <1>3, <1>4, <1>5, <1>6, <1>7 DEF Next

-------------------------------------------------------------------------------
(* The contract *)

Ops == {"acquire", "renew", "validate", "release"}

\* The leases as the contract sees them.
Lease == [k \in Key |-> IF records[k].active THEN recordFromValues(records[k]) ELSE NoRecord]

\* The released leases on record, and whether the answered call was overtaken.
Former == [k \in Key |-> IF records[k].active THEN NoRecord ELSE recordFromValues(records[k])]
Overtaken == reply # NoReply /\ reply.overtaken

\* The contract's conditions on a lease in terms of its row.
LEMMA LeaseFacts ==
  ASSUME Tables, NEW k \in Key
  PROVE  /\ \A at \in Int : Contract!Usable(at, k)
                              <=> records[k].active /\ records[k].expiresAt > at
         /\ (Lease[k] = Contract!NoLease) <=> ~records[k].active
         /\ \A o \in Owner, t \in Nat \ {0} :
              Contract!Owns(k, o, t)
              <=> records[k].active /\ records[k].owner = o /\ records[k].token = t
<1> DEFINE r == records[k]
<1>1. CASE ~r.active
  <2>1. Lease[k] = NoRecord
    BY Zenon, <1>1 DEF Lease
  <2>2. NoRecord = Contract!NoLease /\ NoRecord.token = 0
    BY Zenon DEF NoRecord, Contract!NoLease
  <2>3. \A at \in Int : ~ Contract!Usable(at, k)
    BY Zenon, <2>1, <2>2 DEF Contract!Usable, Contract!NoLease, Lease
  <2>4. \A o \in Owner, t \in Nat \ {0} : ~ Contract!Owns(k, o, t)
    BY Zenon, <2>1, <2>2 DEF Contract!Owns, Lease
  <2> QED BY Zenon, <1>1, <2>1, <2>2, <2>3, <2>4
<1>2. CASE r.active
  <2>1. r \in Row
    BY <1>2 DEF Tables, NoRow
  <2>2. /\ Lease[k] = recordFromValues(r)
        /\ Lease[k].owner = r.owner /\ Lease[k].token = r.token /\ Lease[k].expiresAt = r.expiresAt
    BY Zenon, <1>2 DEF Lease, recordFromValues
  <2>3. r.token \in 1..MaxToken /\ r.expiresAt \in Int
    BY Zenon, <2>1 DEF Row
  <2>4. Lease[k] # Contract!NoLease
    BY <2>2, <2>3 DEF Contract!NoLease
  <2>5. \A at \in Int : Contract!Usable(at, k) <=> r.expiresAt > at
    BY Zenon, <2>2, <2>3, <2>4 DEF Contract!Usable, Contract!NoLease, Lease
  <2>6. \A o \in Owner, t \in Nat \ {0} : Contract!Owns(k, o, t) <=> r.owner = o /\ r.token = t
    BY Zenon, <2>2 DEF Contract!Owns, Lease
  <2> QED BY Zenon, <1>2, <2>4, <2>5, <2>6
<1> QED BY Zenon, <1>1, <1>2

\* What the contract sees of a row that is not active.
LEMMA FormerFacts ==
  ASSUME Tables, NEW k \in Key, ~records[k].active
  PROVE  /\ (Former[k] = Contract!NoLease) <=> records[k] = NoRow
         /\ Former[k].owner = records[k].owner /\ Former[k].token = records[k].token
<1>1. PICK r : r = records[k]
  BY Zenon
<1>2. Former[k] = recordFromValues(r)
  BY Zenon, <1>1 DEF Former
<1>3. recordFromValues(r).owner = r.owner /\ recordFromValues(r).token = r.token
  BY Zenon DEF recordFromValues
<1>4. recordFromValues(NoRow) = Contract!NoLease /\ Contract!NoLease.token = 0
  BY Zenon DEF recordFromValues, NoRow, Contract!NoLease
<1>5. r # NoRow => r.token # 0
  <2>1. r # NoRow => r.token \in 1..MaxToken
    BY Zenon, <1>1 DEF Tables, Row
  <2>2. 0 \notin 1..MaxToken
    BY PostgresConstants
  <2> QED BY Zenon, <2>1, <2>2
<1> QED BY Zenon, <1>1, <1>2, <1>3, <1>4, <1>5

\* A transition for the call that the answer names is a step of the contract.
LEMMA CallMaps ==
  ASSUME NEW op \in Ops, NEW k \in Key, NEW o \in Owner, NEW t, NEW at \in Int, NEW err, NEW rec, NEW v,
         Return(op, k, o, t, at, err, rec, v), UNCHANGED clock,
         \/ op = "acquire" /\ Contract!TryAcquire(k, o, at)
         \/ op = "renew" /\ Contract!Renew(k, o, t, at)
         \/ op = "validate" /\ Contract!Validate(k, o, t, at)
         \/ op = "release" /\ Contract!Release(k, o, t)
         \/ Contract!Refuse
  PROVE  Contract!ContractNext
<1>1. /\ reply'.op = op /\ reply'.key = k /\ reply'.owner = o /\ reply'.token = t /\ reply'.at = at
  BY Zenon DEF Return
<1> QED BY Zenon, <1>1 DEF Contract!ContractNext, Contract!Op, Ops

\* An answer tells what happened, or is one that does not tell.
LEMMA Tells ==
  ASSUME NEW op, NEW k, NEW o, NEW t, NEW at, NEW err, NEW rec, NEW v,
         Return(op, k, o, t, at, err, rec, v)
  PROVE  /\ reply'.op = op /\ reply'.err = err /\ reply'.record = rec
         /\ Contract!Told(err, rec)
         /\ err \in {"ErrAmbiguousOutcome", "ErrBackendUnavailable"} /\ rec = NoRecord =>
              \A e, x : Contract!Told(e, x)
         /\ op \in Ops /\ v => Overtaken'
         /\ NoRecord = Contract!NoLease
<1>1. /\ reply'.op = op /\ reply'.err = err /\ reply'.record = rec /\ reply'.overtaken = v
  BY Zenon DEF Return
<1>2. op \in Ops => reply' # NoReply
  <2>1. NoReply.op = "none" /\ "none" \notin Ops
    BY Zenon DEF Ops, NoReply
  <2> QED BY Zenon, <1>1, <2>1
<1>3. op \in Ops /\ v => Overtaken'
  BY <1>1, <1>2 DEF Overtaken
<1> QED BY Zenon, <1>1, <1>3 DEF Contract!Told, Contract!Unclear, Contract!NoLease, NoRecord

\* A step that answers nobody and changes no lease.
LEMMA SilentMaps ==
  ASSUME reply' = NoReply, UNCHANGED <<fences, Lease, Former>>, clock' \in Int
  PROVE  Contract!ContractNext
BY Zenon DEF Contract!ContractNext, Contract!ServerTime, NoReply, Contract!NoReply, Lease, Former

\* A renewal that finds no row to lock, or loses it while it waits.
LEMMA StaleRenewMaps ==
  ASSUME Tables, NEW k \in Key, NEW o \in Owner, NEW t \in Nat \ {0}, NEW at \in Int,
         ~Selects("renew", records[k], o, t, at), NEW v,
         Return("renew", k, o, t, at, "ErrStaleOwner", NoRecord, v),
         UNCHANGED <<clock, fences, records>>
  PROVE  Contract!ContractNext
<1>1. ~(Contract!Usable(at, k) /\ Contract!Owns(k, o, t))
  BY Zenon, LeaseFacts DEF Selects
<1>2. Contract!Told("ErrStaleOwner", Contract!NoLease)
  BY Zenon, Tells
<1>3. Contract!Renew(k, o, t, at)
  BY Zenon, <1>1, <1>2 DEF Contract!Renew
<1> QED BY Zenon, <1>3, CallMaps DEF Ops

\* A release of a lease that is not the caller's, or of none: answered from the
\* row, or stale after another statement has changed it.
LEMMA StaleReleaseMaps ==
  ASSUME Tables, NEW k \in Key, NEW o \in Owner, NEW t \in Nat \ {0}, NEW at \in Int,
         ~Selects("release", records[k], o, t, at), NEW err, NEW v,
         \/ err = IF records[k] = NoRow \/ (records[k].owner = o /\ records[k].token = t)
                  THEN "nil" ELSE "ErrStaleOwner"
         \/ err = "ErrStaleOwner" /\ v,
         Return("release", k, o, t, at, err, NoRecord, v), UNCHANGED <<clock, fences, records>>
  PROVE  Contract!ContractNext
<1>1. Contract!Told(err, Contract!NoLease) /\ (v => Overtaken')
  BY Zenon, Tells DEF Ops
<1>2. CASE records[k].active
  <2>1. records[k] # NoRow
    <3>1. ~NoRow.active
      BY Zenon DEF NoRow
    <3> QED BY Zenon, <1>2, <3>1
  <2>2. ~(records[k].owner = o /\ records[k].token = t)
    BY Zenon, <1>2 DEF Selects
  <2>3. err = "ErrStaleOwner"
    BY Zenon, <2>1, <2>2
  <2>4. Lease[k] # Contract!NoLease /\ ~Contract!Owns(k, o, t)
    BY Zenon, <1>2, <2>2, LeaseFacts
  <2>5. Contract!Release(k, o, t)
    BY Zenon, <1>1, <2>3, <2>4 DEF Contract!Release, Lease
  <2> QED BY Zenon, <2>5, CallMaps DEF Ops
<1>3. CASE ~records[k].active
  <2>1. Lease[k] = Contract!NoLease
    BY Zenon, <1>3, LeaseFacts
  <2>2. Contract!Released(k, o, t) =
          IF records[k] = NoRow \/ (records[k].owner = o /\ records[k].token = t)
          THEN "nil" ELSE "ErrStaleOwner"
    <3>1. /\ (Former[k] = Contract!NoLease) <=> records[k] = NoRow
          /\ Former[k].owner = records[k].owner /\ Former[k].token = records[k].token
      BY Zenon, <1>3, FormerFacts
    <3>2. Contract!Released(k, o, t) =
            IF Former[k] = Contract!NoLease THEN "nil"
            ELSE IF Former[k].owner = o /\ Former[k].token = t THEN "nil" ELSE "ErrStaleOwner"
      BY Zenon DEF Contract!Released, Former
    <3> QED BY Zenon, <3>1, <3>2
  <2>3. \/ err = Contract!Released(k, o, t)
        \/ err = "ErrStaleOwner" /\ Overtaken'
    <3>1. CASE err = IF records[k] = NoRow \/ (records[k].owner = o /\ records[k].token = t)
                     THEN "nil" ELSE "ErrStaleOwner"
      BY Zenon, <2>2, <3>1
    <3>2. CASE err = "ErrStaleOwner" /\ v
      BY Zenon, <1>1, <3>2
    <3> QED BY Zenon, <3>1, <3>2
  <2>4. Contract!Release(k, o, t)
    BY Zenon, <1>1, <2>1, <2>3 DEF Contract!Release, Lease, Overtaken
  <2> QED BY Zenon, <2>4, CallMaps DEF Ops
<1> QED BY Zenon, <1>2, <1>3

\* validateSQL reads one snapshot.
LEMMA ValidateMaps ==
  ASSUME Tables, NEW k \in Key, NEW o \in Owner, NEW t \in Nat \ {0}, Validate(k, o, t)
  PROVE  Contract!ContractNext
<1>0. UNCHANGED <<clock, fences, records>>
  BY Zenon DEF Validate, ReturnAtOnce
<1>1. PICK at \in Int : at = clock
  BY PostgresConstants DEF Tables
<1>2. CASE Selects("validate", records[k], o, t, clock)
  <2>1. Return("validate", k, o, t, at, "nil", recordFromValues(records[k]), FALSE)
    BY Zenon, <1>1, <1>2 DEF Validate, ReturnAtOnce
  <2>2. /\ Contract!Usable(at, k) /\ Contract!Owns(k, o, t)
    BY Zenon, <1>1, <1>2, LeaseFacts DEF Selects
  <2>3. Lease[k] = recordFromValues(records[k])
    BY Zenon, <1>2 DEF Lease, Selects
  <2>4. Contract!Told("nil", Lease[k])
    BY Zenon, <2>1, <2>3, Tells
  <2>5. Contract!Validate(k, o, t, at)
    BY Zenon, <1>0, <2>2, <2>4 DEF Contract!Validate, Lease
  <2> QED BY Zenon, <1>0, <2>1, <2>5, CallMaps DEF Ops
<1>3. CASE ~Selects("validate", records[k], o, t, clock)
  <2>1. Return("validate", k, o, t, at, "ErrStaleOwner", NoRecord, FALSE)
    BY Zenon, <1>1, <1>3 DEF Validate, ReturnAtOnce
  <2>2. ~(Contract!Usable(at, k) /\ Contract!Owns(k, o, t))
    BY Zenon, <1>1, <1>3, LeaseFacts DEF Selects
  <2>3. Contract!Told("ErrStaleOwner", Contract!NoLease)
    BY Zenon, <2>1, Tells
  <2>4. Contract!Validate(k, o, t, at)
    BY Zenon, <1>0, <2>2, <2>3 DEF Contract!Validate
  <2> QED BY Zenon, <1>0, <2>1, <2>4, CallMaps DEF Ops
<1> QED BY Zenon, <1>2, <1>3

\* An error without an effect.
LEMMA RefusedMaps ==
  ASSUME NEW op \in Ops, NEW k, NEW o, NEW t, NEW at,
         NEW err \in {"ErrCanceled", "ErrInvalidState", "ErrBackendUnavailable", "ErrAmbiguousOutcome"},
         NEW v, Return(op, k, o, t, at, err, NoRecord, v), UNCHANGED <<clock, fences, records>>
  PROVE  Contract!ContractNext
<1>1. Contract!Refuse /\ reply'.op = op
  BY Tells DEF Contract!Refuse, Contract!Failure
<1> QED BY Zenon, <1>1 DEF Contract!ContractNext, Contract!Op, Ops

\* A renewal or a release that has its row or not.
LEMMA LockedMaps ==
  ASSUME IInv, NEW c \in Call, Locked(c)
  PROVE  Contract!ContractNext
<1>0. /\ Tables /\ call \in [Call -> {Idle} \cup Statement \cup CleanupStatement] /\ Stands(c)
  BY Zenon, Parts
<1> DEFINE s == call[c]   k == s.key   r == records[k]
<1>1. /\ s \in Statement /\ k \in Key /\ s.op \in {"renew", "release"} /\ UNCHANGED <<clock, fences, records>>
  BY Zenon, <1>0, Kinds DEF Locked
<1>2. PICK at \in 0..MaxClock : at = IF s.current THEN s.at ELSE clock
  BY Zenon, <1>0, <1>1 DEF Tables, Statement
<1>3. s.owner \in Owner /\ s.token \in Nat \ {0} /\ at \in Int /\ clock \in Int
  BY <1>0, <1>1, PostgresConstants DEF Statement, Stands, ChangeStands, Tables
<1>4. CASE reply' = NoReply
  BY Zenon, <1>1, <1>3, <1>4, SilentMaps DEF Lease, Former
<1>5. CASE /\ ~Selects(s.op, r, s.owner, s.token, at)
           /\ Return(s.op, k, s.owner, s.token, at, "ErrStaleOwner", NoRecord, ~s.current)
  <2>1. CASE s.op = "renew"
    BY Zenon, <1>0, <1>1, <1>3, <1>5, <2>1, StaleRenewMaps
  <2>2. CASE s.op = "release"
    <3>1. s.pc = "row" /\ ChangeStands(c, s)
      BY Zenon, <1>0, <1>1, <2>2 DEF Locked, Stands
    <3>2. ~s.current
      BY Zenon, <1>2, <1>5, <3>1 DEF ChangeStands
    <3> QED BY Zenon, <1>0, <1>1, <1>3, <1>5, <2>2, <3>2, StaleReleaseMaps
  <2> QED BY Zenon, <1>1, <2>1, <2>2
<1>6. CASE Return(s.op, k, s.owner, s.token, at, "ErrAmbiguousOutcome", NoRecord, ~s.current)
  BY Zenon, <1>1, <1>6, RefusedMaps DEF Ops
<1> QED BY Zenon, <1>2, <1>4, <1>5, <1>6 DEF Locked

\* A rollback has no effect.
LEMMA AbortMaps ==
  ASSUME IInv, NEW c \in Call, Abort(c)
  PROVE  Contract!ContractNext
<1>0. /\ Tables /\ call \in [Call -> {Idle} \cup Statement \cup CleanupStatement]
  BY Zenon, Parts
<1>1. UNCHANGED <<clock, fences, records>> /\ clock \in Int
  BY <1>0, PostgresConstants DEF Abort, Tables
<1>2. CASE call[c].op = "cleanup"
  BY Zenon, <1>1, <1>2, SilentMaps DEF Abort, Lease, Former
<1>3. CASE call[c].op # "cleanup"
  <2>1. call[c].op \in Ops
    BY Zenon, <1>0, <1>3, Kinds DEF Abort, Ops
  <2> QED BY Zenon, <1>1, <1>3, <2>1, RefusedMaps DEF Abort
<1> QED BY Zenon, <1>2, <1>3

\* How the contract's leases change with the rows.
LEMMA LeaseChange ==
  ASSUME Tables, NEW k \in Key, NEW r, records' = [records EXCEPT ![k] = r]
  PROVE  /\ Lease' = [Lease EXCEPT ![k] = IF r.active THEN recordFromValues(r) ELSE NoRecord]
         /\ Former' = [Former EXCEPT ![k] = IF r.active THEN NoRecord ELSE recordFromValues(r)]
<1>1. Lease' = [Lease EXCEPT ![k] = IF r.active THEN recordFromValues(r) ELSE NoRecord]
  BY Zenon DEF Tables, Lease
<1>2. Former' = [Former EXCEPT ![k] = IF r.active THEN NoRecord ELSE recordFromValues(r)]
  BY Zenon DEF Tables, Former
<1> QED BY Zenon, <1>1, <1>2

\* A commit is answered with what it has done, or not.
LEMMA CommitTells ==
  ASSUME NEW c \in Call, NEW r, NEW f, Commit(c, r, f)
  PROVE  LET s == call[c]
             rec == IF s.err = "nil" /\ s.op # "release" THEN recordFromValues(r) ELSE NoRecord
         IN  /\ Contract!Told(s.err, rec)
             /\ s.err = "ErrBackendUnavailable" =>
                  reply'.err \in Contract!Failure /\ reply'.record = Contract!NoLease
             /\ s.op \in Ops /\ ~s.current => Overtaken'
             /\ \E e, x : Return(s.op, s.key, s.owner, s.token, s.at, e, x, ~s.current)
<1> DEFINE s == call[c]   v == ~s.current
           rec == IF s.err = "nil" /\ s.op # "release" THEN recordFromValues(r) ELSE NoRecord
<1>1. PICK e, x : /\ Return(s.op, s.key, s.owner, s.token, s.at, e, x, v)
                  /\ \/ e = s.err /\ x = rec
                     \/ e = "ErrAmbiguousOutcome" /\ x = NoRecord
  BY Zenon DEF Commit
<1> HIDE DEF v, rec, s
<1>2. /\ reply'.err = e /\ reply'.record = x /\ NoRecord = Contract!NoLease
      /\ Contract!Told(e, x) /\ (s.op \in Ops /\ v => Overtaken')
      /\ e = "ErrAmbiguousOutcome" /\ x = NoRecord => Contract!Told(s.err, rec)
  BY SMTT(30), <1>1, Tells
<1>3. s.err = "ErrBackendUnavailable" => rec = NoRecord
  BY Zenon DEF rec
<1>4. s.err = "ErrBackendUnavailable" =>
        reply'.err \in Contract!Failure /\ reply'.record = Contract!NoLease
  BY Zenon, <1>1, <1>2, <1>3 DEF Contract!Failure
<1> QED BY Zenon, <1>1, <1>2, <1>4 DEF v, rec, s

\* acquireSQL commits: Grant, Contend, or no token left.
LEMMA CommitAcquireMaps ==
  ASSUME IInv, NEW c \in Call, CommitAcquire(c)
  PROVE  Contract!ContractNext
<1> DEFINE s == call[c]
<1>0. /\ Tables /\ s \in Statement /\ s.op = "acquire" /\ s.pc = "commit" /\ AcquireStands(c, s)
      /\ s.ttl \in Duration /\ s.at \in Int /\ fences[s.key] \in 0..MaxToken
  BY Zenon, Parts, CommitAcquireStep
<1>1. PICK k \in Key, o \in Owner, t \in 0..MaxToken, d \in Duration, at \in Int :
        k = s.key /\ o = s.owner /\ t = s.token /\ d = s.ttl /\ at = s.at
  <2>1. s.key \in Key /\ s.owner \in Owner /\ s.token \in 0..MaxToken
    BY Zenon, <1>0 DEF Statement
  <2> USE <1>0, <2>1
  <2> WITNESS s.key \in Key, s.owner \in Owner, s.token \in 0..MaxToken, s.ttl \in Duration, s.at \in Int
  <2> QED BY Zenon
<1> DEFINE next == Increment(fences[k])
           r == IF s.err = "nil"
                THEN [owner |-> o, token |-> next, acquiredAt |-> at,
                      expiresAt |-> at + d, active |-> TRUE, updatedAt |-> at]
                ELSE records[k]
           rec == IF s.err = "nil" THEN recordFromValues(r) ELSE NoRecord
<1>2. Commit(c, r, next)
  BY Zenon, <1>1 DEF CommitAcquire
<1>3. /\ records' = [records EXCEPT ![k] = r] /\ fences' = [fences EXCEPT ![k] = next]
      /\ UNCHANGED clock
  BY Zenon, <1>1, <1>2 DEF Commit
<1>4. /\ Contract!Told(s.err, rec)
      /\ s.err = "ErrBackendUnavailable" =>
           reply'.err \in Contract!Failure /\ reply'.record = Contract!NoLease
      /\ ~s.current => Overtaken'
      /\ \E e, x : Return("acquire", k, o, t, at, e, x, ~s.current)
  BY Zenon, <1>0, <1>1, <1>2, CommitTells DEF Ops
<1>5. fences'[k] = next /\ fences[k] \in 0..MaxToken /\ NoRecord = Contract!NoLease
  BY Zenon, <1>0, <1>1, <1>3 DEF Tables, NoRecord, Contract!NoLease
<1>6. Contract!TryAcquire(k, o, at) \/ Contract!Refuse
  <2>1. CASE s.err = "nil"
    <3>1. fences[k] < MaxToken /\ ~Contract!Usable(at, k)
      <4>1. /\ fences[k] < MaxToken
            /\ s.err = IF ~records[k].active \/ records[k].expiresAt <= at
                       THEN "nil" ELSE "ErrContended"
        BY Zenon, <1>0, <1>1, <2>1 DEF AcquireStands
      <4>2. ~records[k].active \/ records[k].expiresAt <= at
        BY Zenon, <2>1, <4>1
      <4>3. records[k].active => records[k].expiresAt \in Int
        BY <1>0 DEF Tables, Row, NoRow
      <4>4. ~(records[k].active /\ records[k].expiresAt > at)
        BY <4>2, <4>3
      <4> QED BY Zenon, <1>0, <4>1, <4>4, LeaseFacts
    <3>2. next = fences[k] + 1 /\ next > fences[k]
      BY <1>5, <3>1 DEF Increment
    <3> HIDE DEF next
    <3>3. /\ r.active
          /\ recordFromValues(r) = [owner |-> o, token |-> next, acquiredAt |-> at,
                                    expiresAt |-> at + d]
      BY Zenon, <2>1 DEF recordFromValues
    <3>4. /\ Lease' = [Lease EXCEPT ![k] = recordFromValues(r)]
          /\ Former' = [Former EXCEPT ![k] = Contract!NoLease]
      BY Zenon, <1>0, <1>3, <1>5, <3>3, LeaseChange
    <3>5. Lease'[k] = recordFromValues(r)
      BY Zenon, <3>4 DEF Lease
    <3>6. Contract!Told("nil", Lease'[k])
      BY Zenon, <1>4, <2>1, <3>5
    <3>7. Contract!Grant(at, k, o, fences'[k], d)
      <4>1. fences' = [fences EXCEPT ![k] = fences'[k]] /\ fences'[k] > fences[k]
        BY Zenon, <1>3, <1>5, <3>2
      <4>2. Lease' = [Lease EXCEPT ![k] = [owner |-> o, token |-> fences'[k],
                                           acquiredAt |-> at, expiresAt |-> at + d]]
        BY Zenon, <1>5, <3>3, <3>4
      <4> QED BY <1>3, <3>1, <4>1, <4>2, Zenon DEF Contract!Grant, Lease
    <3> QED BY Zenon, <3>4, <3>6, <3>7 DEF Contract!TryAcquire, Lease, Former
  <2>2. CASE s.err # "nil" /\ fences[k] = MaxToken
    <3>1. s.err = IF s.current THEN "ErrBackendUnavailable" ELSE "ErrContended"
      <4>1. ~(fences[k] < MaxToken)
        BY <2>2, PostgresConstants
      <4> QED BY Zenon, <1>0, <1>1, <4>1 DEF AcquireStands
    <3>2. UNCHANGED <<fences, Lease, Former>>
      <4>1. next = fences[k] /\ r = records[k]
        <5>1. Increment(fences[k]) = fences[k]
          BY <2>2, PostgresConstants DEF Increment
        <5> QED BY Zenon, <2>2, <5>1
      <4>2. fences' = fences /\ records' = records
        BY Zenon, <1>0, <1>3, <4>1 DEF Tables
      <4> QED BY Zenon, <4>2 DEF Lease, Former
    <3>3. CASE s.current
      BY Zenon, <1>4, <3>1, <3>2, <3>3 DEF Contract!Refuse, Lease, Former
    <3>4. CASE ~s.current
      <4>1. Contract!Told("ErrContended", Contract!NoLease) /\ Overtaken'
        BY Zenon, <1>4, <1>5, <2>2, <3>1, <3>4
      <4> QED BY Zenon, <2>2, <3>2, <4>1 DEF Contract!TryAcquire, Lease, Former, Overtaken
    <3> QED BY Zenon, <3>3, <3>4
  <2>3. CASE s.err # "nil" /\ fences[k] # MaxToken
    <3>1. s.err = "ErrContended" /\ records[k].active /\ ~(records[k].expiresAt <= at)
      BY Zenon, <1>0, <1>1, <2>3 DEF AcquireStands
    <3>2. records[k].expiresAt \in Int
      BY <1>0, <3>1 DEF Tables, Row, NoRow
    <3>3. Contract!Usable(at, k)
      BY <1>0, <3>1, <3>2, LeaseFacts
    <3>4. records' = records
      BY Zenon, <1>0, <1>3, <2>3 DEF Tables
    <3>5. fences'[k] >= fences[k] /\ fences' = [fences EXCEPT ![k] = fences'[k]]
      <4>1. next >= fences[k]
        BY <1>5 DEF Increment
      <4> HIDE DEF next
      <4> QED BY Zenon, <1>3, <1>5, <4>1
    <3>6. Contract!Contend(at, k, fences'[k])
      BY Zenon, <1>3, <3>3, <3>4, <3>5 DEF Contract!Contend
    <3>7. Contract!Told("ErrContended", Contract!NoLease)
      BY Zenon, <1>4, <1>5, <3>1
    <3> QED BY Zenon, <3>4, <3>6, <3>7 DEF Contract!TryAcquire
  <2> QED BY Zenon, <2>1, <2>2, <2>3
<1> QED BY Zenon, <1>3, <1>4, <1>6, CallMaps DEF Ops

\* renewSQL and releaseSQL commit: Extend and Vacate.
LEMMA CommitChangeMaps ==
  ASSUME IInv, NEW c \in Call, CommitChange(c)
  PROVE  Contract!ContractNext
<1> DEFINE s == call[c]
<1>0. /\ Tables /\ s \in Statement /\ s.op \in {"renew", "release"} /\ s.pc = "commit"
      /\ ChangeStands(c, s) /\ (s.op = "renew" => s.ttl \in Duration)
      /\ s.at \in Int /\ records[s.key] \in Row
  BY Zenon, Parts, CommitChangeStep
<1>1. PICK k \in Key, o \in Owner, t \in Nat \ {0}, at \in Int :
        k = s.key /\ o = s.owner /\ t = s.token /\ at = s.at
  <2>1. s.key \in Key /\ s.owner \in Owner /\ s.token \in Nat \ {0}
    <3>1. s.key \in Key /\ s.owner \in Owner /\ s.token \in 0..MaxToken
      BY Zenon, <1>0 DEF Statement
    <3>2. s.token > 0
      BY Zenon, <1>0 DEF ChangeStands
    <3>3. \A n \in 0..MaxToken : n > 0 => n \in Nat \ {0}
      BY PostgresConstants
    <3> QED BY Zenon, <3>1, <3>2, <3>3
  <2> USE <1>0, <2>1
  <2> WITNESS s.key \in Key, s.owner \in Owner, s.token \in Nat \ {0}, s.at \in Int
  <2> QED BY Zenon
<1> DEFINE old == records[k]   r == Changed(s, old, at)
<1>2. Commit(c, r, fences[k])
  BY Zenon, <1>1 DEF CommitChange
<1>3. /\ records' = [records EXCEPT ![k] = r] /\ fences' = [fences EXCEPT ![k] = fences[k]]
      /\ UNCHANGED clock
  BY Zenon, <1>1, <1>2 DEF Commit
<1>4. fences' = fences /\ NoRecord = Contract!NoLease
  BY Zenon, <1>0, <1>3 DEF Tables, NoRecord, Contract!NoLease
<1>5. s.err = "nil" /\ old \in Row /\ old.owner = o /\ old.token = t /\ old.active
  BY Zenon, <1>0, <1>1 DEF ChangeStands, Selects
<1>6. Contract!Owns(k, o, t) /\ Lease[k] # Contract!NoLease
  BY Zenon, <1>0, <1>5, LeaseFacts
<1>7. \E e, x : Return(s.op, k, o, t, at, e, x, ~s.current)
  BY Zenon, <1>1, <1>2, CommitTells
<1>8. CASE s.op = "renew"
  <2>1. PICK d \in Duration : d = s.ttl
    BY Zenon, <1>0, <1>8
  <2>2. Contract!Usable(at, k)
    <3>1. old.expiresAt > at
      BY Zenon, <1>0, <1>1, <1>8 DEF ChangeStands, Selects
    <3> QED BY Zenon, <1>0, <1>5, <3>1, LeaseFacts
  <2>3. r = [old EXCEPT !.expiresAt = at + d, !.updatedAt = at]
    BY Zenon, <1>8, <2>1 DEF Changed
  <2>4. /\ r.active
        /\ recordFromValues(r) = [owner |-> o, token |-> t, acquiredAt |-> old.acquiredAt,
                                  expiresAt |-> at + d]
    <3> HIDE DEF r
    <3> QED BY Zenon, <1>5, <2>3 DEF recordFromValues, Row
  <2>5. Lease[k].acquiredAt = old.acquiredAt
    BY Zenon, <1>5 DEF Lease, recordFromValues
  <2> HIDE DEF r
  <2>6. Lease' = [Lease EXCEPT ![k] = recordFromValues(r)] /\ Former' = Former
    <3>1. /\ Lease' = [Lease EXCEPT ![k] = recordFromValues(r)]
          /\ Former' = [Former EXCEPT ![k] = NoRecord]
      BY Zenon, <1>0, <1>3, <2>4, LeaseChange
    <3>2. Former[k] = NoRecord
      BY Zenon, <1>5 DEF Former
    <3>3. [Former EXCEPT ![k] = NoRecord] = Former
      BY Zenon, <3>2 DEF Former
    <3> QED BY Zenon, <3>1, <3>3
  <2>7. Contract!Extend(at, k, o, t, d)
    <3>1. Lease' = [Lease EXCEPT ![k] = [owner |-> o, token |-> t,
                       acquiredAt |-> Lease[k].acquiredAt, expiresAt |-> at + d]]
      BY Zenon, <2>4, <2>5, <2>6
    <3>2. Contract!Owns(k, o, t)
      BY Zenon, <1>6
    <3> QED BY <1>3, <1>4, <2>2, <3>1, <3>2, Zenon DEF Contract!Extend, Lease
  <2>8. Lease'[k] = recordFromValues(r)
    BY Zenon, <2>6 DEF Lease
  <2>9. Contract!Told("nil", Lease'[k])
    BY Zenon, <1>2, <1>5, <1>8, <2>8, CommitTells
  <2>10. Contract!Renew(k, o, t, at)
    BY Zenon, <2>6, <2>7, <2>9 DEF Contract!Renew, Lease, Former
  <2> QED BY Zenon, <1>3, <1>7, <1>8, <2>10, CallMaps DEF Ops
<1>9. CASE s.op = "release"
  <2>1. ~r.active /\ recordFromValues(r) = Lease[k]
    <3>1. r = [old EXCEPT !.active = FALSE, !.updatedAt = at]
      BY Zenon, <1>9 DEF Changed
    <3>2. Lease[k] = recordFromValues(old)
      BY Zenon, <1>5 DEF Lease
    <3> HIDE DEF r
    <3>3. /\ ~r.active /\ r.owner = old.owner /\ r.token = old.token
          /\ r.acquiredAt = old.acquiredAt /\ r.expiresAt = old.expiresAt
      BY Zenon, <1>5, <3>1 DEF Row
    <3> QED BY Zenon, <3>2, <3>3 DEF recordFromValues
  <2> HIDE DEF r
  <2>2. /\ Lease' = [Lease EXCEPT ![k] = Contract!NoLease]
        /\ Former' = [Former EXCEPT ![k] = Lease[k]]
    <3>1. /\ Lease' = [Lease EXCEPT ![k] = NoRecord]
          /\ Former' = [Former EXCEPT ![k] = recordFromValues(r)]
      BY Zenon, <1>0, <1>3, <2>1, LeaseChange
    <3> QED BY Zenon, <1>4, <2>1, <3>1
  <2>3. Contract!Vacate(k, o, t)
    BY <1>3, <1>4, <1>6, <2>2, Zenon DEF Contract!Vacate, Lease
  <2>4. Contract!Told("nil", Contract!NoLease)
    BY Zenon, <1>2, <1>4, <1>5, <1>9, CommitTells
  <2>5. Contract!Release(k, o, t)
    BY Zenon, <2>2, <2>3, <2>4 DEF Contract!Release, Former, Lease
  <2> QED BY Zenon, <1>3, <1>7, <1>9, <2>5, CallMaps DEF Ops
<1> QED BY Zenon, <1>0, <1>8, <1>9

\* A statement that takes its snapshot or is answered from it at once.
LEMMA BeginMaps ==
  ASSUME IInv, NEW k \in Key, NEW o \in Owner, NEW c \in Call,
         \/ \E d \in Duration : BeginAcquire(c, k, o, d)
         \/ \E t \in 1..fences[k], d \in Duration : BeginRenew(c, k, o, t, d)
         \/ \E t \in 1..fences[k] : BeginRelease(c, k, o, t)
  PROVE  Contract!ContractNext
<1>0. Tables /\ clock \in Int /\ fences[k] \in Nat
  BY Parts, PostgresConstants DEF Tables
<1>1. ASSUME NEW op, NEW t, NEW d, NEW pc, Begin(c, op, k, o, t, d, pc) PROVE Contract!ContractNext
  BY Zenon, <1>0, <1>1, SilentMaps DEF Begin, Lease, Former
<1>2. PICK at \in Int : at = clock
  BY Zenon, <1>0
<1>3. CASE \E d \in Duration : BeginAcquire(c, k, o, d)
  BY Zenon, <1>1, <1>3 DEF BeginAcquire
<1>4. ASSUME NEW t \in 1..fences[k], NEW d \in Duration, BeginRenew(c, k, o, t, d)
      PROVE  Contract!ContractNext
  <2>1. t \in Nat \ {0}
    BY <1>0
  <2>2. CASE Selects("renew", records[k], o, t, clock)
    BY Zenon, <1>1, <1>4, <2>2 DEF BeginRenew
  <2>3. CASE ~Selects("renew", records[k], o, t, clock)
    BY Zenon, <1>0, <1>2, <1>4, <2>1, <2>3, StaleRenewMaps DEF BeginRenew, ReturnAtOnce
  <2> QED BY Zenon, <2>2, <2>3
<1>5. ASSUME NEW t \in 1..fences[k], BeginRelease(c, k, o, t)
      PROVE  Contract!ContractNext
  <2>1. t \in Nat \ {0}
    BY <1>0
  <2>2. CASE Selects("release", records[k], o, t, clock)
    BY Zenon, <1>1, <1>5, <2>2 DEF BeginRelease
  <2>3. CASE ~Selects("release", records[k], o, t, clock)
    <3>1. PICK err : /\ err = IF records[k] = NoRow \/ (records[k].owner = o /\ records[k].token = t)
                              THEN "nil" ELSE "ErrStaleOwner"
                     /\ Return("release", k, o, t, clock, err, NoRecord, FALSE)
                     /\ UNCHANGED <<clock, fences, records>>
      BY Zenon, <1>5, <2>3 DEF BeginRelease, ReturnAtOnce
    <3> QED BY Zenon, <1>0, <1>2, <2>1, <2>3, <3>1, StaleReleaseMaps
  <2> QED BY Zenon, <2>2, <2>3
<1> QED BY Zenon, <1>3, <1>4, <1>5

\* Every step is one of the contract.
LEMMA NextMaps ==
  ASSUME IInv, [Next]_vars
  PROVE  [Contract!ContractNext]_(Contract!contractVars)
<1>0. Tables /\ clock \in Int /\ \A k \in Key : fences[k] \in Nat
  BY Parts, PostgresConstants DEF Tables
<1>1. ASSUME NEW c \in Call, NextFence(c) \/ Installed(c) \/ BeginCleanup(c)
      PROVE  Contract!ContractNext
  BY Zenon, <1>0, <1>1, SilentMaps DEF NextFence, Installed, BeginCleanup, Lease, Former
<1>2. ASSUME NEW c \in Call, CommitCleanup(c)
      PROVE  Contract!ContractNext
  <2>1. /\ \A k \in Key : records'[k] # records[k] => records'[k] = NoRow /\ ~records[k].active
        /\ reply' = NoReply /\ UNCHANGED <<clock, fences>>
    BY Zenon, <1>2, CommitCleanupStep DEF CommitCleanup
  <2>2. UNCHANGED Lease
    BY <2>1 DEF Lease, NoRow
  <2> DEFINE gone == {k \in Key : records'[k] # records[k]}
  <2>3. Former' = [k \in Key |-> IF k \in gone THEN Contract!NoLease ELSE Former[k]]
    BY <2>1 DEF Former, NoRow, recordFromValues, Contract!NoLease
  <2>4. Contract!Forget
    BY Zenon, <2>1, <2>2, <2>3 DEF Contract!Forget, Contract!tableVars, Lease, Former
  <2> QED BY Zenon, <2>1, <2>4 DEF Contract!ContractNext, NoReply, Contract!NoReply
<1>3. ASSUME NEW c \in Call, CommitAcquire(c) \/ Locked(c) \/ CommitChange(c) \/ Abort(c)
      PROVE  Contract!ContractNext
  BY Zenon, <1>3, CommitAcquireMaps, LockedMaps, CommitChangeMaps, AbortMaps
<1>4. ASSUME NEW k \in Key, NEW o \in Owner, NEW t \in 1..fences[k], Validate(k, o, t)
      PROVE  Contract!ContractNext
  <2>1. t \in Nat \ {0}
    BY <1>0
  <2> QED BY Zenon, <1>0, <1>4, <2>1, ValidateMaps
<1>5. ASSUME NEW op \in Ops, Refused(op)
      PROVE  Contract!ContractNext
  BY Zenon, <1>5, RefusedMaps DEF Refused
<1>6. CASE Time
  BY <1>6, SilentMaps, PostgresConstants DEF Time, Lease, Former
<1>7. CASE UNCHANGED vars
  BY Zenon, <1>7 DEF vars, Contract!contractVars
<1>8. CASE \E k \in Key, o \in Owner :
             \/ \E c \in Call, d \in Duration : BeginAcquire(c, k, o, d)
             \/ \E t \in 1..fences[k] :
                  \E c \in Call : \/ \E d \in Duration : BeginRenew(c, k, o, t, d)
                                 \/ BeginRelease(c, k, o, t)
  BY Zenon, <1>8, BeginMaps
<1> QED BY Zenon, <1>1, <1>2, <1>3, <1>4, <1>5, <1>6, <1>7, <1>8 DEF Next, Ops

-------------------------------------------------------------------------------
(* The theorems *)

\* What a statement has found out is still so when its transaction commits.
THEOREM Invariance == Spec => []IInv
<1>1. IInv /\ [Next]_vars => IInv'
  BY Zenon, NextInv
<1> QED BY <1>1, InitInv, PTL DEF Spec

\* Statements never wait for each other in a circle.  Who waits for a record
\* is blocked only by a statement about to commit, and who waits for a fence
\* only by one that waits for a record or is about to commit.
THEOREM DeadlockFree == Spec => []NoDeadlock
<1>1. ASSUME IInv, NEW calls \in (SUBSET Call) \ {{}}
      PROVE  \E c \in calls : Blockers(c) \cap calls = {}
  <2>1. /\ LockOrder
        /\ \A c \in calls : call[c].pc \in {"fence", "row"} => call[c].key \in Key
    BY Zenon, <1>1, Parts, Kinds
  <2>2. CASE \E c \in calls : call[c].pc \notin {"fence", "row"}
    BY Zenon, <2>2 DEF Blockers
  <2>3. ASSUME \A c \in calls : call[c].pc \in {"fence", "row"},
               NEW c \in calls, call[c].pc = "row"
        PROVE  Blockers(c) \cap calls = {}
    BY <2>1, <2>3 DEF LockOrder, Blockers
  <2>4. ASSUME \A c \in calls : call[c].pc = "fence", NEW c \in calls
        PROVE  Blockers(c) \cap calls = {}
    BY <2>1, <2>4 DEF LockOrder, Blockers
  <2> QED BY Zenon, <2>2, <2>3, <2>4
<1>2. IInv => NoDeadlock
  BY Zenon, <1>1 DEF NoDeadlock
<1> QED BY <1>2, Invariance, PTL

\* Cleanup deletes no row of a lease.
THEOREM CleanupSafe == Spec => CleanupSparesLeases
<1>1. ASSUME IInv, [Next]_vars, NEW k \in Key, records[k] # NoRow, records'[k] = NoRow
      PROVE  ~records[k].active
  <2>1. ASSUME NEW c \in Call, CommitAcquire(c) \/ CommitChange(c) PROVE FALSE
    BY Zenon, <1>1, <2>1, CommitAcquireStep, CommitChangeStep
  <2>2. ASSUME NEW c \in Call, CommitCleanup(c) PROVE ~records[k].active
    BY Zenon, <1>1, <2>2, CommitCleanupStep
  <2>3. ASSUME NEW c \in Call,
               NextFence(c) \/ Installed(c) \/ Locked(c) \/ BeginCleanup(c) \/ Abort(c)
        PROVE  UNCHANGED records
    BY Zenon, <2>3 DEF NextFence, Installed, Locked, BeginCleanup, Abort
  <2>4. ASSUME NEW x \in Key, NEW o \in Owner,
               \/ \E c \in Call, d \in Duration : BeginAcquire(c, x, o, d)
               \/ \E t \in 1..fences[x] :
                    \/ \E c \in Call : \/ \E d \in Duration : BeginRenew(c, x, o, t, d)
                                       \/ BeginRelease(c, x, o, t)
                    \/ Validate(x, o, t)
        PROVE  UNCHANGED records
    BY <2>4, Zenon DEF BeginAcquire, BeginRenew, BeginRelease, Begin, Validate, ReturnAtOnce
  <2>5. ASSUME NEW op, Refused(op) PROVE UNCHANGED records
    BY Zenon, <2>5 DEF Refused
  <2>6. CASE Time \/ UNCHANGED vars
    BY Zenon, <1>1, <2>6 DEF Time, vars
  <2>7. CASE Next
    BY Zenon, <1>1, <2>1, <2>2, <2>3, <2>4, <2>5, <2>6, <2>7 DEF Next
  <2> QED BY Zenon, <1>1, <2>6, <2>7
<1>2. IInv /\ [Next]_vars =>
        [\A k \in Key : records[k] # NoRow /\ records'[k] = NoRow => ~records[k].active]_vars
  BY Zenon, <1>1
<1> QED BY <1>2, Invariance, PTL DEF Spec, CleanupSparesLeases

\* postgres/store.go implements the backend contract.
THEOREM Refinement == Spec => ImplementsContract
<1>1. Init => Contract!ContractInit
  <2>1. ASSUME Init PROVE /\ clock \in Int /\ fences = [k \in Key |-> 0]
                          /\ Lease = [k \in Key |-> Contract!NoLease]
                          /\ Former = [k \in Key |-> Contract!NoLease]
                          /\ reply = Contract!NoReply /\ reply = NoReply
    BY <2>1, PostgresConstants
    DEF Init, Lease, Former, NoRow, NoRecord, recordFromValues, Contract!NoLease, NoReply,
        Contract!NoReply
  <2> QED BY Zenon, <2>1 DEF Contract!ContractInit, Lease, Former
<1>2. IInv /\ [Next]_vars => [Contract!ContractNext]_(Contract!contractVars)
  BY Zenon, NextMaps
<1> QED BY <1>1, <1>2, Invariance, PTL DEF Spec, ImplementsContract, Contract!ContractSpec
================================================================================
