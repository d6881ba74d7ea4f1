--------------------------- MODULE RowLocksProofs ---------------------------
(***************************************************************************)
(* Theorems about RowLocks, for every value of its constants.              *)
(***************************************************************************)
EXTENDS RowLocks, FiniteSetTheorems, TLAPS

(* LocksInv, of one transaction.                                           *)
Orderly(t) ==
  /\ conns[t] \in {0, 1}
  /\ \A i \in DOMAIN tx[t].plan :
        tx[t].plan[i].need = "connection" => i = 1 /\ conns[t] = 0
  /\ waits[t] # Nobody => Needs(t, "rows") /\ waits[t] \in Missing(t)
  /\ \A i \in DOMAIN tx[t].plan :
        /\ tx[t].plan[i].need # "rows" => tx[t].plan[i].rows = {}
        /\ tx[t].plan[i].need = "commit" =>
              \A j \in DOMAIN tx[t].plan : j > i => tx[t].plan[j].need # "rows"
  /\ tx[t].kind \in OrderedKinds =>
        \A i \in DOMAIN tx[t].plan : tx[t].plan[i].need = "rows" => InOrder(t, i)
  /\ \A s \in SessionIds :
        tx[t].kind \in OrderedKinds \ {"oneSession"} /\ holder[s] = t => holder[Owner[s]] = t

(* What t sees of the state stays the same.                                *)
Untouched(t) ==
  /\ tx'[t] = tx[t] /\ conns'[t] = conns[t] /\ waits'[t] = waits[t]
  /\ \A row \in Rows : holder'[row] = t <=> holder[row] = t

(* Orderly, of all transactions.                                           *)
AllOrderly == \A t \in Transactions : Orderly(t)

(* LocksInv is about one transaction at a time.                            *)
LEMMA ByTransaction == LocksInv <=> AllOrderly
  BY DEF LocksInv, AllOrderly, Orderly, OneConnection, WaitsAreForRows, PlansAreOrdered,
     LocksAreOrdered

(* An account, and the owner of a session, is a row; no one holds a free   *)
(* row.                                                                    *)
LEMMA RowsAre ==
  /\ \A u \in Users : u \in Rows /\ u \notin SessionIds
  /\ \A s \in SessionIds : s \in Rows /\ Owner[s] \in Users /\ Owner[s] \in Rows
  /\ \A t \in Transactions : t # Nobody
  /\ \A row \in Rows : row # Nobody
  /\ Admin \in Users
  BY RowLocksAssumption DEF Rows

(* Who is left alone stays orderly.                                        *)
LEMMA UntouchedKeeps ==
  ASSUME TypeOK, NEW t \in Transactions, Orderly(t), Untouched(t)
  PROVE  Orderly(t)'
  <1>1. /\ tx'[t] = tx[t] /\ conns'[t] = conns[t] /\ waits'[t] = waits[t]
        /\ \A row \in Rows : holder'[row] = t <=> holder[row] = t
    BY DEF Untouched
  <1>2. tx[t] \in [kind : AllKinds \cup {"ended"}, plan : Seq(Needed)]
    BY DEF TypeOK
  <1>3. \A i : Before(t, i)' = Before(t, i)
    BY <1>1 DEF Before
  <1>4. \A i : InOrder(t, i)' = InOrder(t, i)
    BY <1>1, <1>3 DEF InOrder
  <1>5. Needs(t, "rows") => Missing(t)' = Missing(t) /\ Needs(t, "rows")'
    <2> SUFFICES ASSUME Needs(t, "rows")
                 PROVE  Missing(t)' = Missing(t) /\ Needs(t, "rows")'
      OBVIOUS
    <2>1. Head(tx[t].plan) \in Needed
      BY <1>2 DEF Needs
    <2>2. Head(tx[t].plan).rows \subseteq Rows
      BY <2>1 DEF Needed
    <2> QED BY <1>1, <2>2 DEF Needs, Missing
  <1>6. \A s \in SessionIds : /\ holder'[s] = t <=> holder[s] = t
                              /\ holder'[Owner[s]] = t <=> holder[Owner[s]] = t
    BY <1>1, RowsAre
  <1>7. waits'[t] # Nobody => Needs(t, "rows")' /\ waits'[t] \in Missing(t)'
    BY <1>1, <1>5 DEF Orderly
  <1>8. tx'[t].kind \in OrderedKinds =>
          \A i \in DOMAIN tx'[t].plan : tx'[t].plan[i].need = "rows" => InOrder(t, i)'
    BY <1>1, <1>4 DEF Orderly
  <1> QED BY <1>1, <1>6, <1>7, <1>8 DEF Orderly
-----------------------------------------------------------------------------
(* The plan of a transaction is not empty when it needs something.         *)
LEMMA PlanIs ==
  ASSUME TypeOK, NEW t \in Transactions, tx[t].plan # <<>>
  PROVE  LET plan == tx[t].plan
         IN  /\ plan \in Seq(Needed) /\ Len(plan) \in Nat \ {0} /\ DOMAIN plan = 1..Len(plan)
             /\ Head(plan) = plan[1] /\ Head(plan) \in Needed
             /\ Tail(plan) \in Seq(Needed) /\ DOMAIN Tail(plan) = 1..(Len(plan) - 1)
             /\ \A i \in DOMAIN Tail(plan) :
                   i + 1 \in DOMAIN plan /\ Tail(plan)[i] = plan[i + 1]
  <1>1. tx[t].plan \in Seq(Needed)
    BY DEF TypeOK
  <1> QED BY <1>1

(* The pool counts connections.                                            *)
LEMMA InUseIs ==
  ASSUME TypeOK
  PROVE  /\ IsFiniteSet(Transactions \X (1..PoolSize))
         /\ IsFiniteSet({slot \in Transactions \X (1..PoolSize) : slot[2] <= conns[slot[1]]})
         /\ InUse \in Nat
  <1>1. IsFiniteSet(Transactions \X (1..PoolSize))
    <2>1. IsFiniteSet(1..PoolSize) /\ IsFiniteSet(Transactions)
      BY RowLocksAssumption, FS_Interval
    <2> QED BY <2>1, FS_Product
  <1>2. IsFiniteSet({slot \in Transactions \X (1..PoolSize) : slot[2] <= conns[slot[1]]})
    BY <1>1, FS_Subset
  <1> QED BY <1>1, <1>2, FS_CardinalityType DEF InUse

(* Met takes the first need off the plan, and leaves the others alone.     *)
LEMMA MetTakes ==
  ASSUME TypeOK, NEW t \in Transactions, tx[t].plan # <<>>, Met(t)
  PROVE  /\ tx' \in [Transactions -> [kind : AllKinds \cup {"ended"}, plan : Seq(Needed)]]
         /\ tx'[t].kind = tx[t].kind /\ tx'[t].plan = Tail(tx[t].plan)
         /\ \A x \in Transactions : x # t => tx'[x] = tx[x]
  <1> DEFINE rest == Tail(tx[t].plan)
             q == [tx[t] EXCEPT !.plan = rest]
  <1>1. tx' = [tx EXCEPT ![t] = q]
    BY DEF Met
  <1>2. rest \in Seq(Needed)
    BY PlanIs
  <1>3. tx[t] \in [kind : AllKinds \cup {"ended"}, plan : Seq(Needed)]
    BY DEF TypeOK
  <1> HIDE DEF rest
  <1>4. q \in [kind : AllKinds \cup {"ended"}, plan : Seq(Needed)] /\ q.kind = tx[t].kind /\ q.plan = rest
    BY <1>2, <1>3
  <1> HIDE DEF q
  <1>5. tx'[t] = q /\ \A x \in Transactions : x # t => tx'[x] = tx[x]
    BY <1>1 DEF TypeOK
  <1>6. tx' \in [Transactions -> [kind : AllKinds \cup {"ended"}, plan : Seq(Needed)]]
    BY <1>1, <1>4 DEF TypeOK
  <1> QED BY <1>4, <1>5, <1>6 DEF rest

(* A need that is met, when its rows are locked, leaves t orderly.         *)
LEMMA MetKeeps ==
  ASSUME TypeOK, NEW t \in Transactions, Orderly(t), tx[t].plan # <<>>, Met(t),
         waits[t] = Nobody, waits' = waits, holder' = holder,
         \A row \in Head(tx[t].plan).rows : holder[row] = t,
         conns'[t] = IF Needs(t, "connection") THEN 1 ELSE conns[t]
  PROVE  Orderly(t)'
  <1> DEFINE plan == tx[t].plan
             rest == Tail(plan)
  <1>1. /\ tx'[t].kind = tx[t].kind /\ tx'[t].plan = rest
    BY MetTakes
  <1>2. /\ plan \in Seq(Needed) /\ Len(plan) \in Nat \ {0} /\ DOMAIN plan = 1..Len(plan)
        /\ Head(plan) = plan[1]
        /\ DOMAIN rest = 1..(Len(plan) - 1)
        /\ \A i \in DOMAIN rest : i + 1 \in DOMAIN plan /\ rest[i] = plan[i + 1]
    BY PlanIs
  <1> HIDE DEF rest
  <1>3. ASSUME NEW i \in DOMAIN rest
        PROVE  Before(t, i)' \subseteq Before(t, i + 1) /\ Before(t, i + 1) \subseteq Before(t, i)'
    <2>1. i \in Int /\ i >= 1 /\ i <= Len(plan) - 1
      BY <1>2
    <2>2. ASSUME NEW j \in DOMAIN rest, j < i
          PROVE  j + 1 \in DOMAIN plan /\ j + 1 < i + 1 /\ rest[j] = plan[j + 1]
      BY <1>2, <2>1, <2>2
    <2>3. ASSUME NEW row \in Before(t, i)'
          PROVE  row \in Before(t, i + 1)
      <3>1. row \in Rows /\ (holder[row] = t \/ \E j \in DOMAIN rest : j < i /\ row \in rest[j].rows)
        BY <1>1, <2>3 DEF Before
      <3> QED BY <2>2, <3>1 DEF Before
    <2>4. ASSUME NEW row \in Before(t, i + 1)
          PROVE  row \in Before(t, i)'
      <3>1. row \in Rows /\ (holder[row] = t \/ \E j \in DOMAIN plan : j < i + 1 /\ row \in plan[j].rows)
        BY <2>4 DEF Before
      <3>2. CASE holder[row] = t
        BY <3>1, <3>2 DEF Before
      <3>3. ASSUME NEW j \in DOMAIN plan, j < i + 1, row \in plan[j].rows
            PROVE  row \in Before(t, i)'
        <4>1. CASE j = 1
          <5>1. holder[row] = t
            BY <1>2, <3>3, <4>1
          <5> QED BY <3>1, <5>1 DEF Before
        <4>2. CASE j # 1
          <5>1. j - 1 \in DOMAIN rest /\ j - 1 < i /\ rest[j - 1] = plan[j]
            BY <1>2, <2>1, <3>3, <4>2
          <5> QED BY <1>1, <3>1, <3>3, <5>1 DEF Before
        <4> QED BY <4>1, <4>2
      <3> QED BY <3>1, <3>2, <3>3
    <2> QED BY <2>3, <2>4
  <1>4. ASSUME NEW i \in DOMAIN rest
        PROVE  /\ rest[i].need # "rows" => rest[i].rows = {}
               /\ rest[i].need = "commit" => \A j \in DOMAIN rest : j > i => rest[j].need # "rows"
               /\ rest[i].need # "connection"
    <2>1. i + 1 \in DOMAIN plan /\ rest[i] = plan[i + 1] /\ i \in Int /\ i >= 1
      BY <1>2
    <2>2. \A j \in DOMAIN rest : j > i => j + 1 \in DOMAIN plan /\ rest[j] = plan[j + 1] /\ j + 1 > i + 1
      BY <1>2
    <2>3. /\ plan[i + 1].need # "rows" => plan[i + 1].rows = {}
          /\ plan[i + 1].need = "commit" => \A j \in DOMAIN plan : j > i + 1 => plan[j].need # "rows"
          /\ plan[i + 1].need = "connection" => i + 1 = 1
      BY <2>1 DEF Orderly
    <2> QED BY <2>1, <2>2, <2>3
  <1>5. ASSUME tx[t].kind \in OrderedKinds, NEW i \in DOMAIN rest, rest[i].need = "rows"
        PROVE  InOrder(t, i)'
    <2>1. i + 1 \in DOMAIN plan /\ rest[i] = plan[i + 1]
      BY <1>2
    <2>2. InOrder(t, i + 1)
      BY <1>5, <2>1 DEF Orderly
    <2>3. Before(t, i)' = Before(t, i + 1)
      BY <1>3
    <2> QED BY <1>1, <2>1, <2>2, <2>3 DEF InOrder
  <1>6. conns'[t] \in {0, 1}
    BY DEF Orderly
  <1>7. \A s \in SessionIds :
           tx'[t].kind \in OrderedKinds \ {"oneSession"} /\ holder'[s] = t => holder'[Owner[s]] = t
    BY <1>1 DEF Orderly
  <1> QED BY <1>1, <1>4, <1>5, <1>6, <1>7 DEF Orderly

(* Whoever locks a row of its statement stays orderly, and leaves those    *)
(* alone who do not have it.                                               *)
LEMMA LocksKeeps ==
  ASSUME TypeOK, NEW t \in Transactions, Orderly(t), NEW row \in Missing(t),
         Needs(t, "rows"), holder[row] = Nobody,
         holder' = [holder EXCEPT ![row] = t],
         tx' = tx, conns' = conns, waits' = [waits EXCEPT ![t] = Nobody]
  PROVE  /\ holder' \in [Rows -> Transactions \cup {Nobody}]
         /\ waits' \in [Transactions -> Rows \cup {Nobody}]
         /\ Orderly(t)' /\ \A x \in Transactions : x # t => Untouched(x)
  <1> DEFINE plan == tx[t].plan
  <1>1. /\ plan # <<>> /\ plan[1].need = "rows" /\ 1 \in DOMAIN plan
        /\ Head(plan) = plan[1] /\ plan[1] \in Needed /\ DOMAIN plan = 1..Len(plan) /\ Len(plan) \in Nat
    BY PlanIs DEF Needs
  <1>2. row \in plan[1].rows /\ row \in Rows /\ holder[row] # t
    BY <1>1 DEF Missing, Needed
  <1>3. /\ holder'[row] = t /\ \A x \in Rows : x # row => holder'[x] = holder[x]
        /\ waits'[t] = Nobody /\ \A x \in Transactions : x # t => waits'[x] = waits[x]
    BY <1>2 DEF TypeOK
  <1>4. \A x \in Transactions : x # t => Untouched(x)
    BY <1>3, RowsAre DEF Untouched
  <1>5. ASSUME NEW i \in DOMAIN plan
        PROVE  /\ Before(t, i) \subseteq Before(t, i)'
               /\ i = 1 => Before(t, i)' \subseteq Before(t, i) \cup {row}
               /\ i # 1 => Before(t, i)' \subseteq Before(t, i)
    <2>1. i \in Int /\ i >= 1
      BY <1>1
    <2>2. Before(t, i) \subseteq Before(t, i)'
      BY <1>3 DEF Before
    <2>3. Before(t, i)' \subseteq Before(t, i) \cup {row}
      BY <1>3 DEF Before
    <2>4. i # 1 => row \in Before(t, i)
      BY <1>1, <1>2, <2>1 DEF Before
    <2> QED BY <2>2, <2>3, <2>4
  <1>6. ASSUME tx[t].kind \in OrderedKinds, NEW i \in DOMAIN plan, plan[i].need = "rows"
        PROVE  InOrder(t, i)'
    <2>1. InOrder(t, i)
      BY <1>6 DEF Orderly
    <2>2. Before(t, i) \subseteq Before(t, i)' /\ Before(t, i)' \subseteq Before(t, i) \cup plan[i].rows
      BY <1>2, <1>5
    <2> QED BY <2>1, <2>2 DEF InOrder
  <1>7. ASSUME NEW s \in SessionIds, tx[t].kind \in OrderedKinds \ {"oneSession"}, holder'[s] = t
        PROVE  holder'[Owner[s]] = t
    <2>1. CASE s = row
      <3>1. InOrder(t, 1)
        BY <1>1, <1>7 DEF Orderly
      <3>2. PICK u \in Users : plan[1].rows \subseteq SessionsOf(u) /\ u \in Before(t, 1)
        BY <1>2, <1>7, <2>1, <3>1, RowsAre DEF InOrder
      <3>3. Owner[s] = u
        BY <1>2, <2>1, <3>2 DEF SessionsOf
      <3>4. holder[u] = t
        BY <1>1, <3>2 DEF Before
      <3> QED BY <1>3, <3>3, <3>4, RowsAre
    <2>2. CASE s # row
      BY <1>3, <1>7, <2>2, RowsAre DEF Orderly
    <2> QED BY <2>1, <2>2
  <1>8. Orderly(t)'
    BY <1>3, <1>6, <1>7 DEF Orderly
  <1> QED BY <1>4, <1>8 DEF TypeOK

(* Whoever ends its transaction leaves the others alone.                   *)
LEMMA EndKeeps ==
  ASSUME TypeOK, NEW t \in Transactions, End(t)
  PROVE  TypeOK' /\ Orderly(t)' /\ \A x \in Transactions : x # t => Untouched(x)
  <1>1. /\ tx' = [tx EXCEPT ![t] = [kind |-> "ended", plan |-> <<>>]]
        /\ conns' = [conns EXCEPT ![t] = 0]
        /\ holder' = [row \in Rows |-> IF holder[row] = t THEN Nobody ELSE holder[row]]
        /\ waits' = [waits EXCEPT ![t] = Nobody]
        /\ UNCHANGED <<up, outages>>
    BY DEF End
  <1>2. <<>> \in Seq(Needed)
    OBVIOUS
  <1>3. /\ tx'[t].kind = "ended" /\ tx'[t].plan = <<>> /\ conns'[t] = 0 /\ waits'[t] = Nobody
        /\ tx' \in [Transactions -> [kind : AllKinds \cup {"ended"}, plan : Seq(Needed)]]
        /\ conns' \in [Transactions -> 0..PoolSize]
        /\ waits' \in [Transactions -> Rows \cup {Nobody}]
    BY <1>1, <1>2, RowLocksAssumption DEF TypeOK
  <1>4. \A x \in Transactions : x # t =>
           tx'[x] = tx[x] /\ conns'[x] = conns[x] /\ waits'[x] = waits[x]
    BY <1>1 DEF TypeOK
  <1>5. \A x \in Transactions : x # t => Untouched(x)
    BY <1>1, <1>4, RowsAre DEF Untouched
  <1>6. InUse' <= PoolSize
    <2> DEFINE old == {slot \in Transactions \X (1..PoolSize) : slot[2] <= conns[slot[1]]}
               new == {slot \in Transactions \X (1..PoolSize) : slot[2] <= conns'[slot[1]]}
    <2>1. new \subseteq old
      <3> SUFFICES ASSUME NEW slot \in new PROVE slot \in old
        OBVIOUS
      <3>1. slot[1] \in Transactions /\ slot[2] \in 1..PoolSize
        OBVIOUS
      <3>2. slot[1] # t
        BY <1>3, <3>1
      <3> QED BY <1>4, <3>1, <3>2
    <2>2. IsFiniteSet(old) /\ Cardinality(old) \in Nat
      BY InUseIs, FS_CardinalityType
    <2>3. Cardinality(old) <= PoolSize
      BY DEF TypeOK, InUse
    <2>4. InUse' = Cardinality(new)
      BY DEF InUse
    <2> HIDE DEF old, new
    <2>5. IsFiniteSet(new) /\ Cardinality(new) <= Cardinality(old)
      BY <2>1, <2>2, FS_Subset
    <2>6. Cardinality(new) \in Nat
      BY <2>5, FS_CardinalityType
    <2> QED BY <2>2, <2>3, <2>4, <2>5, <2>6, RowLocksAssumption
  <1>7. holder' \in [Rows -> Transactions \cup {Nobody}]
    BY <1>1 DEF TypeOK
  <1>8. TypeOK'
    BY <1>1, <1>3, <1>6, <1>7 DEF TypeOK
  <1>9. \A s \in SessionIds : holder'[s] # t
    BY <1>1, RowsAre
  <1>10. Orderly(t)'
    BY <1>3, <1>9 DEF Orderly, OrderedKinds
  <1> QED BY <1>5, <1>8, <1>10

(* A transaction takes a connection from the pool.                         *)
LEMMA ConnectKeeps ==
  ASSUME TypeOK, NEW t \in Transactions, Orderly(t), Connect(t)
  PROVE  TypeOK' /\ Orderly(t)' /\ \A x \in Transactions : x # t => Untouched(x)
  <1>1. /\ Needs(t, "connection") /\ InUse < PoolSize
        /\ conns' = [conns EXCEPT ![t] = conns[t] + 1] /\ Met(t)
        /\ UNCHANGED <<holder, waits, up, outages>>
    BY DEF Connect
  <1>2. /\ tx[t].plan # <<>> /\ 1 \in DOMAIN tx[t].plan /\ Head(tx[t].plan) = tx[t].plan[1]
        /\ tx[t].plan[1].need = "connection"
    BY <1>1, PlanIs DEF Needs
  <1>3. conns[t] = 0 /\ tx[t].plan[1].rows = {}
    BY <1>2 DEF Orderly
  <1>4. waits[t] = Nobody
    BY <1>2 DEF Orderly, Needs
  <1>5. conns'[t] = 1 /\ \A x \in Transactions : x # t => conns'[x] = conns[x]
    BY <1>1, <1>3 DEF TypeOK
  <1>6. Orderly(t)'
    BY <1>1, <1>2, <1>3, <1>4, <1>5, MetKeeps
  <1>7. \A x \in Transactions : x # t => Untouched(x)
    BY <1>1, <1>2, <1>5, MetTakes DEF Untouched
  <1>8. InUse' <= PoolSize
    <2> DEFINE old == {slot \in Transactions \X (1..PoolSize) : slot[2] <= conns[slot[1]]}
               new == {slot \in Transactions \X (1..PoolSize) : slot[2] <= conns'[slot[1]]}
               more == old \cup {<<t, 1>>}
    <2>1. new \subseteq more
      <3> SUFFICES ASSUME NEW slot \in new PROVE slot \in more
        OBVIOUS
      <3>1. slot[1] \in Transactions /\ slot[2] \in 1..PoolSize /\ slot = <<slot[1], slot[2]>>
        OBVIOUS
      <3>2. CASE slot[1] # t
        BY <1>5, <3>1, <3>2
      <3>3. CASE slot[1] = t
        <4>1. slot[2] = 1
          BY <1>5, <3>1, <3>3
        <4> QED BY <3>1, <3>3, <4>1
      <3> QED BY <3>2, <3>3
    <2>2. IsFiniteSet(old) /\ Cardinality(old) \in Nat
      BY InUseIs, FS_CardinalityType
    <2>3. Cardinality(old) < PoolSize
      BY <1>1 DEF InUse
    <2>4. InUse' = Cardinality(new)
      BY DEF InUse
    <2> HIDE DEF old, new
    <2>5. Cardinality(more) = IF <<t, 1>> \in old THEN Cardinality(old) ELSE Cardinality(old) + 1
      BY <2>2, FS_AddElement
    <2>6. IsFiniteSet(more)
      BY <2>2, FS_AddElement
    <2> HIDE DEF more
    <2>7. IsFiniteSet(new) /\ Cardinality(new) <= Cardinality(more)
      BY <2>1, <2>6, FS_Subset
    <2>8. Cardinality(new) \in Nat
      BY <2>7, FS_CardinalityType
    <2> QED BY <2>2, <2>3, <2>4, <2>5, <2>7, <2>8, RowLocksAssumption
  <1>9. conns' \in [Transactions -> 0..PoolSize]
    BY <1>1, <1>3, RowLocksAssumption DEF TypeOK
  <1>10. tx' \in [Transactions -> [kind : AllKinds \cup {"ended"}, plan : Seq(Needed)]]
    BY <1>1, <1>2, MetTakes
  <1>11. TypeOK'
    BY <1>1, <1>8, <1>9, <1>10 DEF TypeOK
  <1> QED BY <1>6, <1>7, <1>11

(* A transaction meets a need without a connection or a lock.              *)
LEMMA MeetKeeps ==
  ASSUME TypeOK, NEW t \in Transactions, Orderly(t), tx[t].plan # <<>>, Met(t),
         ~Needs(t, "connection"), waits[t] = Nobody,
         \A row \in Head(tx[t].plan).rows : holder[row] = t,
         UNCHANGED <<conns, holder, waits, up, outages>>
  PROVE  TypeOK' /\ Orderly(t)' /\ \A x \in Transactions : x # t => Untouched(x)
  <1>1. /\ tx' \in [Transactions -> [kind : AllKinds \cup {"ended"}, plan : Seq(Needed)]]
        /\ \A x \in Transactions : x # t => tx'[x] = tx[x]
    BY MetTakes
  <1>2. InUse' = InUse
    BY DEF InUse
  <1>3. TypeOK'
    BY <1>1, <1>2 DEF TypeOK
  <1>4. Orderly(t)'
    BY MetKeeps
  <1>5. \A x \in Transactions : x # t => Untouched(x)
    BY <1>1 DEF Untouched
  <1> QED BY <1>3, <1>4, <1>5

(* A need other than rows has none to lock.                                *)
LEMMA NoRows ==
  ASSUME TypeOK, NEW t \in Transactions, Orderly(t), NEW need, need # "rows", Needs(t, need)
  PROVE  /\ tx[t].plan # <<>> /\ waits[t] = Nobody /\ Head(tx[t].plan).rows = {}
         /\ need # "connection" => ~Needs(t, "connection")
  <1>1. tx[t].plan # <<>> /\ Head(tx[t].plan) = tx[t].plan[1] /\ 1 \in DOMAIN tx[t].plan
    BY PlanIs DEF Needs
  <1> QED BY <1>1 DEF Needs, Orderly

(* The transaction commits, and goes on without a row.                     *)
LEMMA CommitFirstKeeps ==
  ASSUME TypeOK, NEW t \in Transactions, Orderly(t), CommitFirst(t)
  PROVE  TypeOK' /\ Orderly(t)' /\ \A x \in Transactions : x # t => Untouched(x)
  <1> DEFINE plan == tx[t].plan
             rest == Tail(plan)
  <1>1. /\ Needs(t, "commit") /\ Met(t)
        /\ holder' = [row \in Rows |-> IF holder[row] = t THEN Nobody ELSE holder[row]]
        /\ UNCHANGED <<conns, waits, up, outages>>
    BY DEF CommitFirst
  <1>2. plan # <<>> /\ waits[t] = Nobody
    BY <1>1, NoRows
  <1>3. /\ tx' \in [Transactions -> [kind : AllKinds \cup {"ended"}, plan : Seq(Needed)]]
        /\ tx'[t].kind = tx[t].kind /\ tx'[t].plan = rest
        /\ \A x \in Transactions : x # t => tx'[x] = tx[x]
    BY <1>1, <1>2, MetTakes
  <1>4. /\ plan[1].need = "commit" /\ 1 \in DOMAIN plan /\ DOMAIN rest = 1..(Len(plan) - 1)
        /\ DOMAIN plan = 1..Len(plan) /\ Len(plan) \in Nat
        /\ \A i \in DOMAIN rest : i + 1 \in DOMAIN plan /\ rest[i] = plan[i + 1]
    BY <1>1, <1>2, PlanIs DEF Needs
  <1> HIDE DEF rest
  <1>5. ASSUME NEW i \in DOMAIN rest
        PROVE  /\ rest[i].need # "rows" /\ rest[i].rows = {} /\ rest[i].need # "connection"
    <2>1. i + 1 \in DOMAIN plan /\ i + 1 > 1 /\ i + 1 # 1 /\ rest[i] = plan[i + 1]
      BY <1>4
    <2>2. plan[i + 1].need # "rows"
      BY <1>4, <2>1 DEF Orderly
    <2> QED BY <2>1, <2>2 DEF Orderly
  <1>6. \A s \in SessionIds : holder'[s] # t
    BY <1>1, RowsAre
  <1>7. conns'[t] \in {0, 1} /\ waits'[t] = Nobody
    BY <1>1, <1>2 DEF Orderly
  <1>8. Orderly(t)'
    BY <1>3, <1>5, <1>6, <1>7 DEF Orderly
  <1>9. \A x \in Transactions : x # t => Untouched(x)
    BY <1>1, <1>3, RowsAre DEF Untouched
  <1>10. InUse' = InUse
    BY <1>1 DEF InUse
  <1>11. holder' \in [Rows -> Transactions \cup {Nobody}]
    BY <1>1 DEF TypeOK
  <1>12. TypeOK'
    BY <1>1, <1>3, <1>10, <1>11 DEF TypeOK
  <1> QED BY <1>8, <1>9, <1>12

(* A row is taken, or waited for.                                          *)
LEMMA VisitRowKeeps ==
  ASSUME TypeOK, NEW t \in Transactions, Orderly(t), NEW row \in Rows, VisitRow(t, row)
  PROVE  TypeOK' /\ Orderly(t)' /\ \A x \in Transactions : x # t => Untouched(x)
  <1>1. /\ Needs(t, "rows") /\ waits[t] = Nobody /\ row \in Missing(t)
        /\ tx' = tx /\ conns' = conns /\ up' = up /\ outages' = outages
    BY DEF VisitRow
  <1>2. InUse' = InUse
    BY <1>1 DEF InUse
  <1>3. CASE holder[row] = Nobody
    <2>1. holder' = [holder EXCEPT ![row] = t] /\ waits' = waits
      BY <1>3 DEF VisitRow
    <2>2. waits' = [waits EXCEPT ![t] = Nobody]
      BY <1>1, <2>1 DEF TypeOK
    <2> QED BY <1>1, <1>2, <1>3, <2>1, <2>2, LocksKeeps DEF TypeOK
  <1>4. CASE holder[row] # Nobody
    <2>1. holder' = holder /\ waits' = [waits EXCEPT ![t] = row]
      BY <1>4 DEF VisitRow
    <2>2. /\ waits'[t] = row /\ \A x \in Transactions : x # t => waits'[x] = waits[x]
          /\ waits' \in [Transactions -> Rows \cup {Nobody}]
      BY <2>1 DEF TypeOK
    <2>3. \A x \in Transactions : x # t => Untouched(x)
      BY <1>1, <2>1, <2>2 DEF Untouched
    <2>4. Missing(t)' = Missing(t) /\ Needs(t, "rows")'
      BY <1>1, <2>1 DEF Missing, Needs
    <2>5. \A i : InOrder(t, i)' = InOrder(t, i)
      BY <1>1, <2>1 DEF InOrder, Before
    <2>6. Orderly(t)'
      BY <1>1, <2>1, <2>2, <2>4, <2>5 DEF Orderly
    <2>7. TypeOK'
      BY <1>1, <1>2, <2>1, <2>2 DEF TypeOK
    <2> QED BY <2>3, <2>6, <2>7
  <1> QED BY <1>3, <1>4

(* The row that was waited for is taken.                                   *)
LEMMA GrantedKeeps ==
  ASSUME TypeOK, NEW t \in Transactions, Orderly(t), Granted(t)
  PROVE  TypeOK' /\ Orderly(t)' /\ \A x \in Transactions : x # t => Untouched(x)
  <1> DEFINE row == waits[t]
  <1>1. /\ row # Nobody /\ holder[row] = Nobody /\ holder' = [holder EXCEPT ![row] = t]
        /\ waits' = [waits EXCEPT ![t] = Nobody]
        /\ tx' = tx /\ conns' = conns /\ up' = up /\ outages' = outages
    BY DEF Granted
  <1>2. Needs(t, "rows") /\ row \in Missing(t)
    BY <1>1 DEF Orderly
  <1>3. InUse' = InUse
    BY <1>1 DEF InUse
  <1> HIDE DEF row
  <1> QED BY <1>1, <1>2, <1>3, LocksKeeps DEF TypeOK

(* Every step of a transaction.                                            *)
LEMMA TransactionKeeps ==
  ASSUME TypeOK, NEW t \in Transactions, Orderly(t), Step(t) \/ Fail(t) \/ Victim(t)
  PROVE  TypeOK' /\ Orderly(t)' /\ \A x \in Transactions : x # t => Untouched(x)
  <1>1. CASE Connect(t)
    BY <1>1, ConnectKeeps
  <1>2. CASE QueryElsewhere(t)
    BY <1>2, NoRows, MeetKeeps DEF QueryElsewhere
  <1>3. CASE CallRedis(t)
    BY <1>3, NoRows, MeetKeeps DEF CallRedis
  <1>4. CASE SendMail(t)
    BY <1>4, NoRows, MeetKeeps DEF SendMail
  <1>5. CASE Granted(t)
    BY <1>5, GrantedKeeps
  <1>6. CASE EndStatement(t)
    <2>1. Needs(t, "rows") /\ waits[t] = Nobody /\ Missing(t) = {} /\ Met(t)
          /\ UNCHANGED <<conns, holder, waits, up, outages>>
      BY <1>6 DEF EndStatement
    <2>2. tx[t].plan # <<>> /\ ~Needs(t, "connection")
      BY <2>1 DEF Needs
    <2>3. \A row \in Head(tx[t].plan).rows : holder[row] = t
      BY <2>1 DEF Missing
    <2> QED BY <2>1, <2>2, <2>3, MeetKeeps
  <1>7. CASE CommitFirst(t)
    BY <1>7, CommitFirstKeeps
  <1>8. CASE Commit(t) \/ Fail(t) \/ Victim(t)
    BY <1>8, EndKeeps DEF Commit, Fail, Victim
  <1>9. ASSUME NEW row \in Rows, VisitRow(t, row)
        PROVE  TypeOK' /\ Orderly(t)' /\ \A x \in Transactions : x # t => Untouched(x)
    BY <1>9, VisitRowKeeps
  <1> QED BY <1>1, <1>2, <1>3, <1>4, <1>5, <1>6, <1>7, <1>8, <1>9 DEF Step

(* A step that concerns no transaction leaves all alone.                   *)
LEMMA OutsideKeeps ==
  ASSUME TypeOK, UNCHANGED <<tx, conns, holder, waits>>
  PROVE  \A t \in Transactions : Untouched(t)
  BY DEF Untouched

(* Every step keeps the order.                                             *)
LEMMA NextKeeps ==
  ASSUME TypeOK, LocksInv, [Next]_vars
  PROVE  TypeOK' /\ LocksInv'
  <1>1. \A t \in Transactions : Orderly(t)
    BY ByTransaction DEF AllOrderly
  <1>2. ASSUME NEW t \in Transactions, Step(t) \/ Fail(t) \/ Victim(t)
        PROVE  TypeOK' /\ \A x \in Transactions : Orderly(x)'
    <2>1. TypeOK' /\ Orderly(t)' /\ \A x \in Transactions : x # t => Untouched(x)
      BY <1>1, <1>2, TransactionKeeps
    <2>2. ASSUME NEW x \in Transactions PROVE Orderly(x)'
      <3>1. CASE x = t
        BY <2>1, <3>1
      <3>2. CASE x # t
        BY <1>1, <2>1, <3>2, UntouchedKeeps
      <3> QED BY <3>1, <3>2
    <2> QED BY <2>1, <2>2
  <1>3. ASSUME Disconnect \/ Reconnect \/ UNCHANGED vars
        PROVE  TypeOK' /\ \A x \in Transactions : Orderly(x)'
    <2>1. UNCHANGED <<tx, conns, holder, waits>>
      BY <1>3 DEF Disconnect, Reconnect, vars
    <2>2. up' \in BOOLEAN /\ outages' \in 0..MaxOutages
      <3>1. outages \in 0..MaxOutages /\ MaxOutages \in Nat /\ up \in BOOLEAN
        BY RowLocksAssumption DEF TypeOK
      <3>2. CASE Disconnect
        <4>1. up' = FALSE /\ outages < MaxOutages /\ outages' = outages + 1
          BY <3>2 DEF Disconnect
        <4>2. outages' \in 0..MaxOutages
          BY <3>1, <4>1
        <4> QED BY <4>1, <4>2
      <3>3. CASE Reconnect
        BY <3>1, <3>3 DEF Reconnect
      <3>4. CASE UNCHANGED vars
        BY <3>1, <3>4 DEF vars
      <3> QED BY <1>3, <3>2, <3>3, <3>4
    <2>3. InUse' = InUse
      BY <2>1 DEF InUse
    <2>4. TypeOK'
      BY <2>1, <2>2, <2>3 DEF TypeOK
    <2>5. ASSUME NEW x \in Transactions PROVE Orderly(x)'
      BY <1>1, <2>1, OutsideKeeps, UntouchedKeeps
    <2> QED BY <2>4, <2>5
  <1>4. TypeOK' /\ \A x \in Transactions : Orderly(x)'
    BY <1>2, <1>3 DEF Next
  <1>5. AllOrderly'
    BY <1>4 DEF AllOrderly
  <1>6. AllOrderly' => LocksInv'
    BY ByTransaction, PTL
  <1> QED BY <1>4, <1>5, <1>6
-----------------------------------------------------------------------------
(* A plan begins with the connection.                                      *)
LEMMA FromConnection ==
  ASSUME NEW rest \in Seq(Needed)
  PROVE  LET plan == <<Connection>> \o rest
         IN  /\ plan \in Seq(Needed) /\ DOMAIN plan = 1..(Len(rest) + 1)
             /\ plan[1] = Connection /\ Len(rest) \in Nat
             /\ \A i \in 2..(Len(rest) + 1) : plan[i] = rest[i - 1] /\ i - 1 \in 1..Len(rest)
  <1>1. Connection \in Needed /\ <<Connection>> \in Seq(Needed) /\ Len(<<Connection>>) = 1
    BY DEF Connection, Needed
  <1>2. <<Connection>>[1] = Connection
    OBVIOUS
  <1> HIDE DEF Connection
  <1>3. Len(rest) \in Nat /\ DOMAIN rest = 1..Len(rest)
    OBVIOUS
  <1> QED BY <1>1, <1>2, <1>3

(* The rows that the needs before i lock.                                  *)
Ahead(rest, i) == {row \in Rows : \E j \in DOMAIN rest : j < i /\ row \in rest[j].rows}

(* Where need i of a plan stands in the order, when nothing is locked yet. *)
InPlan(kind, rest, i) ==
  \/ /\ kind \notin {"oneSession", "register"}
     /\ \E u \in Users :
            /\ rest[i].rows = {u} /\ Ahead(rest, i) \subseteq {Admin, u}
            /\ kind = "oneUser" => Ahead(rest, i) \subseteq {u}
  \/ /\ kind \notin {"oneUser", "oneSession", "register"}
     /\ \E u \in Users : rest[i].rows \subseteq SessionsOf(u) /\ u \in Ahead(rest, i)
  \/ /\ kind = "oneSession"
     /\ \E s \in SessionIds : rest[i].rows = {s} /\ Ahead(rest, i) \subseteq {s}

(* What follows the connection in a plan.                                  *)
Planned(kind, rest) ==
  /\ rest \in Seq(Needed)
  /\ \A i \in DOMAIN rest :
        /\ rest[i].need # "connection"
        /\ rest[i].need # "rows" => rest[i].rows = {}
        /\ rest[i].need = "commit" => \A j \in DOMAIN rest : j > i => rest[j].need # "rows"
        /\ kind \in OrderedKinds /\ rest[i].need = "rows" => InPlan(kind, rest, i)

(* The plan of each kind is: it takes an account before its sessions, and  *)
(* the administrator before the account.                                   *)
LEMMA PlansArePlanned ==
  ASSUME NEW kind \in AllKinds, NEW about \in Subjects(kind)
  PROVE  \E rest : PlanOf(kind, about[1], about[2]) = <<Connection>> \o rest /\ Planned(kind, rest)
  <1> DEFINE u == about[1]
             S == about[2]
             proven == <<Lock({Admin}), Lock({u}), Lock(SessionsOf(u))>>
             All == SessionsOf(u)
  <1>1. u \in Users /\ S \subseteq SessionIds
    BY RowLocksAssumption DEF Subjects, AllKinds, OrderedKinds, SessionsOf
  <1>2. kind \in {"signIn", "password", "email"} => S \subseteq All
    BY DEF Subjects
  <1>3. kind = "oneSession" => \E s \in SessionIds : S = {s}
    BY DEF Subjects
  <1>4. All \subseteq SessionIds /\ u \in Rows /\ Admin \in Users /\ Admin \in Rows
    BY <1>1, RowsAre DEF SessionsOf
  <1>5. \A rows : Lock(rows).need = "rows" /\ Lock(rows).rows = rows
    BY DEF Lock
  <1>6. \A rows \in SUBSET Rows : Lock(rows) \in Needed
    BY DEF Lock, Needed
  <1>7. /\ Redis.need = "redis" /\ Redis.rows = {} /\ Redis \in Needed
        /\ Mail.need = "mail" /\ Mail.rows = {} /\ Mail \in Needed
        /\ Query.need = "query" /\ Query.rows = {} /\ Query \in Needed
        /\ CommitNow.need = "commit" /\ CommitNow.rows = {} /\ CommitNow \in Needed
    BY DEF Redis, Mail, Query, CommitNow, Needed
  <1>8. /\ Lock({u}) \in Needed /\ Lock(S) \in Needed /\ Lock(All) \in Needed /\ Lock({Admin}) \in Needed
        /\ Lock({Owner[s] : s \in S}) \in Needed
    BY <1>1, <1>4, <1>6, RowsAre
  <1> HIDE DEF All
  <1>9. CASE kind = "signIn"
    <2> DEFINE rest == <<Lock({u}), Lock(S)>>
    <2>1. PlanOf(kind, u, S) = <<Connection>> \o rest
      BY <1>9 DEF PlanOf
    <2>2. rest \in Seq(Needed) /\ DOMAIN rest = 1..2 /\ rest[1] = Lock({u}) /\ rest[2] = Lock(S)
      BY <1>8
    <2> HIDE DEF rest, u, S
    <2>3. Ahead(rest, 1) = {} /\ Ahead(rest, 2) = {u}
      BY <1>4, <1>5, <2>2 DEF Ahead
    <2>4. InPlan(kind, rest, 1) /\ InPlan(kind, rest, 2)
      BY <1>1, <1>2, <1>5, <1>9, <2>2, <2>3 DEF InPlan, All
    <2>5. Planned(kind, rest)
      BY <1>5, <2>2, <2>4 DEF Planned
    <2> QED BY <2>1, <2>5 DEF u, S
  <1>10. CASE kind = "reset"
    <2> DEFINE rest == <<Lock({u}), Redis, Lock(All), CommitNow, Redis>>
    <2>1. PlanOf(kind, u, S) = <<Connection>> \o rest
      BY <1>10 DEF PlanOf, ResetPlan, All
    <2>2. /\ rest \in Seq(Needed) /\ DOMAIN rest = 1..5
          /\ rest[1] = Lock({u}) /\ rest[2] = Redis /\ rest[3] = Lock(All) /\ rest[4] = CommitNow
          /\ rest[5] = Redis
      BY <1>7, <1>8
    <2> HIDE DEF rest, u, S
    <2>3. Ahead(rest, 1) = {} /\ Ahead(rest, 3) = {u}
      BY <1>4, <1>5, <1>7, <2>2 DEF Ahead
    <2>4. InPlan(kind, rest, 1) /\ InPlan(kind, rest, 3)
      BY <1>1, <1>5, <1>10, <2>2, <2>3 DEF InPlan, All
    <2>5. Planned(kind, rest)
      BY <1>5, <1>7, <2>2, <2>4 DEF Planned
    <2> QED BY <2>1, <2>5 DEF u, S
  <1>11. CASE kind = "rejected"
    <2> DEFINE rest == <<Lock({u}), Redis, Query, Redis>>
    <2>1. PlanOf(kind, u, S) = <<Connection>> \o rest
      BY <1>11 DEF PlanOf, RejectedPlan
    <2>2. /\ rest \in Seq(Needed) /\ DOMAIN rest = 1..4
          /\ rest[1] = Lock({u}) /\ rest[2] = Redis /\ rest[3] = Query
          /\ rest[4] = Redis
      BY <1>7, <1>8
    <2> HIDE DEF rest, u, S
    <2>3. Ahead(rest, 1) = {}
      BY <1>4, <1>5, <1>7, <2>2 DEF Ahead
    <2>4. InPlan(kind, rest, 1)
      BY <1>1, <1>4, <1>5, <1>11, <2>2, <2>3 DEF InPlan, All
    <2>5. Planned(kind, rest)
      BY <1>5, <1>7, <2>2, <2>4 DEF Planned
    <2> QED BY <2>1, <2>5 DEF u, S
  <1>12. CASE kind = "password"
    <2> DEFINE rest == <<Lock({u}), Redis, Lock(S)>>
    <2>1. PlanOf(kind, u, S) = <<Connection>> \o rest
      BY <1>12 DEF PlanOf
    <2>2. /\ rest \in Seq(Needed) /\ DOMAIN rest = 1..3
          /\ rest[1] = Lock({u}) /\ rest[2] = Redis /\ rest[3] = Lock(S)
      BY <1>7, <1>8
    <2> HIDE DEF rest, u, S
    <2>3. Ahead(rest, 1) = {} /\ Ahead(rest, 3) = {u}
      BY <1>4, <1>5, <1>7, <2>2 DEF Ahead
    <2>4. InPlan(kind, rest, 1) /\ InPlan(kind, rest, 3)
      BY <1>1, <1>2, <1>4, <1>5, <1>12, <2>2, <2>3 DEF InPlan, All
    <2>5. Planned(kind, rest)
      BY <1>5, <1>7, <2>2, <2>4 DEF Planned
    <2> QED BY <2>1, <2>5 DEF u, S
  <1>13. CASE kind = "email"
    <2> DEFINE rest == <<Lock({u}), Redis, Lock(S), CommitNow, Redis>>
    <2>1. PlanOf(kind, u, S) = <<Connection>> \o rest
      BY <1>13 DEF PlanOf
    <2>2. /\ rest \in Seq(Needed) /\ DOMAIN rest = 1..5
          /\ rest[1] = Lock({u}) /\ rest[2] = Redis /\ rest[3] = Lock(S)
          /\ rest[4] = CommitNow /\ rest[5] = Redis
      BY <1>7, <1>8
    <2> HIDE DEF rest, u, S
    <2>3. Ahead(rest, 1) = {} /\ Ahead(rest, 3) = {u}
      BY <1>4, <1>5, <1>7, <2>2 DEF Ahead
    <2>4. InPlan(kind, rest, 1) /\ InPlan(kind, rest, 3)
      BY <1>1, <1>2, <1>4, <1>5, <1>13, <2>2, <2>3 DEF InPlan, All
    <2>5. Planned(kind, rest)
      BY <1>5, <1>7, <2>2, <2>4 DEF Planned
    <2> QED BY <2>1, <2>5 DEF u, S
  <1>14. CASE kind = "block"
    <2> DEFINE rest == <<Lock({Admin}), Lock({u}), Lock(All)>>
    <2>1. PlanOf(kind, u, S) = <<Connection>> \o rest
      BY <1>14 DEF PlanOf, All
    <2>2. /\ rest \in Seq(Needed) /\ DOMAIN rest = 1..3
          /\ rest[1] = Lock({Admin}) /\ rest[2] = Lock({u}) /\ rest[3] = Lock(All)
      BY <1>7, <1>8
    <2> HIDE DEF rest, u, S
    <2>3. Ahead(rest, 1) = {} /\ Ahead(rest, 2) = {Admin} /\ Ahead(rest, 3) = {Admin, u}
      BY <1>4, <1>5, <1>7, <2>2 DEF Ahead
    <2>4. InPlan(kind, rest, 1) /\ InPlan(kind, rest, 2) /\ InPlan(kind, rest, 3)
      BY <1>1, <1>4, <1>5, <1>14, <2>2, <2>3 DEF InPlan, All
    <2>5. Planned(kind, rest)
      BY <1>5, <1>7, <2>2, <2>4 DEF Planned
    <2> QED BY <2>1, <2>5 DEF u, S
  <1>15. CASE kind = "deleteUser"
    <2> DEFINE rest == <<Lock({Admin}), Lock({u}), Lock(All), CommitNow, Mail>>
    <2>1. PlanOf(kind, u, S) = <<Connection>> \o rest
      BY <1>15, <1>7, <1>8 DEF PlanOf, All
    <2>2. /\ rest \in Seq(Needed) /\ DOMAIN rest = 1..5
          /\ rest[1] = Lock({Admin}) /\ rest[2] = Lock({u}) /\ rest[3] = Lock(All)
          /\ rest[4] = CommitNow /\ rest[5] = Mail
      BY <1>7, <1>8
    <2> HIDE DEF rest, u, S
    <2>3. Ahead(rest, 1) = {} /\ Ahead(rest, 2) = {Admin} /\ Ahead(rest, 3) = {Admin, u}
      BY <1>4, <1>5, <1>7, <2>2 DEF Ahead
    <2>4. InPlan(kind, rest, 1) /\ InPlan(kind, rest, 2) /\ InPlan(kind, rest, 3)
      BY <1>1, <1>4, <1>5, <1>15, <2>2, <2>3 DEF InPlan, All
    <2>5. Planned(kind, rest)
      BY <1>5, <1>7, <2>2, <2>4 DEF Planned
    <2> QED BY <2>1, <2>5 DEF u, S
  <1>16. CASE kind = "deleteOwn"
    <2> DEFINE rest == <<Lock({u}), Lock(All)>>
    <2>1. PlanOf(kind, u, S) = <<Connection>> \o rest
      BY <1>16 DEF PlanOf, All
    <2>2. /\ rest \in Seq(Needed) /\ DOMAIN rest = 1..2
          /\ rest[1] = Lock({u}) /\ rest[2] = Lock(All)
      BY <1>7, <1>8
    <2> HIDE DEF rest, u, S
    <2>3. Ahead(rest, 1) = {} /\ Ahead(rest, 2) = {u}
      BY <1>4, <1>5, <1>7, <2>2 DEF Ahead
    <2>4. InPlan(kind, rest, 1) /\ InPlan(kind, rest, 2)
      BY <1>1, <1>4, <1>5, <1>16, <2>2, <2>3 DEF InPlan, All
    <2>5. Planned(kind, rest)
      BY <1>5, <1>7, <2>2, <2>4 DEF Planned
    <2> QED BY <2>1, <2>5 DEF u, S
  <1>17. CASE kind = "register"
    <2> DEFINE rest == <<Redis, CommitNow, Redis>>
    <2>1. PlanOf(kind, u, S) = <<Connection>> \o rest
      BY <1>17 DEF PlanOf
    <2>2. /\ rest \in Seq(Needed) /\ DOMAIN rest = 1..3
          /\ rest[1] = Redis /\ rest[2] = CommitNow /\ rest[3] = Redis
      BY <1>7, <1>8
    <2> HIDE DEF rest, u, S
    <2>3. Planned(kind, rest)
      BY <1>5, <1>7, <1>17, <2>2 DEF Planned, OrderedKinds
    <2> QED BY <2>1, <2>3 DEF u, S
  <1>18. CASE kind = "oneUser"
    <2> DEFINE rest == <<Lock({u})>>
    <2>1. PlanOf(kind, u, S) = <<Connection>> \o rest
      BY <1>18 DEF PlanOf
    <2>2. /\ rest \in Seq(Needed) /\ DOMAIN rest = 1..1
          /\ rest[1] = Lock({u})
      BY <1>7, <1>8
    <2> HIDE DEF rest, u, S
    <2>3. Ahead(rest, 1) = {}
      BY <1>4, <1>5, <1>7, <2>2 DEF Ahead
    <2>4. InPlan(kind, rest, 1)
      BY <1>1, <1>4, <1>5, <1>18, <2>2, <2>3 DEF InPlan, All
    <2>5. Planned(kind, rest)
      BY <1>5, <1>7, <2>2, <2>4 DEF Planned
    <2> QED BY <2>1, <2>5 DEF u, S
  <1>19. CASE kind = "oneSession"
    <2> DEFINE rest == <<Lock(S)>>
    <2>1. PlanOf(kind, u, S) = <<Connection>> \o rest
      BY <1>19 DEF PlanOf, SessionPlan
    <2>2. /\ rest \in Seq(Needed) /\ DOMAIN rest = 1..1
          /\ rest[1] = Lock(S)
      BY <1>7, <1>8
    <2> HIDE DEF rest, u, S
    <2>3. Ahead(rest, 1) = {}
      BY <1>4, <1>5, <1>7, <2>2 DEF Ahead
    <2>4. InPlan(kind, rest, 1)
      BY <1>1, <1>3, <1>4, <1>5, <1>19, <2>2, <2>3 DEF InPlan, All
    <2>5. Planned(kind, rest)
      BY <1>5, <1>7, <2>2, <2>4 DEF Planned
    <2> QED BY <2>1, <2>5 DEF u, S
  <1>20. CASE kind = "cleanup"
    <2> DEFINE rest == <<Lock(S)>>
    <2>1. PlanOf(kind, u, S) = <<Connection>> \o rest
      BY <1>20 DEF PlanOf
    <2>2. /\ rest \in Seq(Needed) /\ DOMAIN rest = 1..1
          /\ rest[1] = Lock(S)
      BY <1>7, <1>8
    <2> HIDE DEF rest, u, S
    <2>3. Planned(kind, rest)
      BY <1>5, <1>7, <1>20, <2>2 DEF Planned, OrderedKinds
    <2> QED BY <2>1, <2>3 DEF u, S
  <1>21. CASE kind = "revokeAll"
    <2> DEFINE rest == <<Lock(All)>>
    <2>1. PlanOf(kind, u, S) = <<Connection>> \o rest
      BY <1>21 DEF PlanOf, All
    <2>2. /\ rest \in Seq(Needed) /\ DOMAIN rest = 1..1
          /\ rest[1] = Lock(All)
      BY <1>7, <1>8
    <2> HIDE DEF rest, u, S
    <2>3. Planned(kind, rest)
      BY <1>5, <1>7, <1>21, <2>2 DEF Planned, OrderedKinds
    <2> QED BY <2>1, <2>3 DEF u, S
  <1>22. CASE kind = "flush"
    <2> DEFINE rest == <<Lock(S), Lock({Owner[s] : s \in S})>>
    <2>1. PlanOf(kind, u, S) = <<Connection>> \o rest
      BY <1>22 DEF PlanOf
    <2>2. /\ rest \in Seq(Needed) /\ DOMAIN rest = 1..2
          /\ rest[1] = Lock(S) /\ rest[2] = Lock({Owner[s] : s \in S})
      BY <1>7, <1>8
    <2> HIDE DEF rest, u, S
    <2>3. Planned(kind, rest)
      BY <1>5, <1>7, <1>22, <2>2 DEF Planned, OrderedKinds
    <2> QED BY <2>1, <2>3 DEF u, S
  <1> QED BY <1>9, <1>10, <1>11, <1>12, <1>13, <1>14, <1>15, <1>16, <1>17, <1>18, <1>19,
             <1>20, <1>21, <1>22 DEF AllKinds, OrderedKinds

(* Every transaction is in order before it begins.                         *)
LEMMA InitHolds ==
  ASSUME Init
  PROVE  TypeOK /\ LocksInv
  <1>1. /\ conns = [t \in Transactions |-> 0] /\ holder = [row \in Rows |-> Nobody]
        /\ waits = [t \in Transactions |-> Nobody] /\ up = TRUE /\ outages = 0
        /\ tx \in [Transactions -> UNION {Started(kind) : kind \in AllKinds}]
    BY DEF Init
  <1>2. ASSUME NEW t \in Transactions
        PROVE  /\ tx[t] \in [kind : AllKinds \cup {"ended"}, plan : Seq(Needed)]
               /\ Orderly(t)
    <2>1. PICK kind \in AllKinds : tx[t] \in Started(kind)
      BY <1>1
    <2>2. PICK about \in Subjects(kind) :
             tx[t] = [kind |-> kind, plan |-> PlanOf(kind, about[1], about[2])]
      BY <2>1 DEF Started
    <2>3. PICK rest : PlanOf(kind, about[1], about[2]) = <<Connection>> \o rest /\ Planned(kind, rest)
      BY PlansArePlanned
    <2> DEFINE plan == <<Connection>> \o rest
    <2>4. tx[t].kind = kind /\ tx[t].plan = plan
      BY <2>2, <2>3
    <2>5. rest \in Seq(Needed) /\ DOMAIN rest = 1..Len(rest)
      BY <2>3 DEF Planned
    <2>6. /\ plan \in Seq(Needed) /\ DOMAIN plan = 1..(Len(rest) + 1)
          /\ plan[1] = Connection /\ Len(rest) \in Nat
          /\ \A i \in 2..(Len(rest) + 1) : plan[i] = rest[i - 1] /\ i - 1 \in 1..Len(rest)
      BY <2>5, FromConnection
    <2> HIDE DEF plan
    <2>7. plan[1].need = "connection" /\ plan[1].rows = {}
      BY <2>6 DEF Connection
    <2>8. tx[t] \in [kind : AllKinds \cup {"ended"}, plan : Seq(Needed)]
      BY <2>2, <2>4, <2>6
    <2>9. ASSUME NEW i \in DOMAIN plan
          PROVE  /\ plan[i].need = "connection" => i = 1
                 /\ plan[i].need # "rows" => plan[i].rows = {}
                 /\ plan[i].need = "commit" => \A j \in DOMAIN plan : j > i => plan[j].need # "rows"
                 /\ kind \in OrderedKinds /\ plan[i].need = "rows" => InOrder(t, i)
      <3>1. CASE i = 1
        BY <2>7, <3>1
      <3>2. CASE i # 1
        <4> DEFINE k == i - 1
        <4>1. k \in DOMAIN rest /\ plan[i] = rest[k] /\ i \in Int /\ k \in Int
          BY <2>5, <2>6, <3>2
        <4>2. /\ rest[k].need # "connection"
              /\ rest[k].need # "rows" => rest[k].rows = {}
              /\ rest[k].need = "commit" => \A j \in DOMAIN rest : j > k => rest[j].need # "rows"
              /\ kind \in OrderedKinds /\ rest[k].need = "rows" => InPlan(kind, rest, k)
          BY <2>3, <4>1 DEF Planned
        <4>3. ASSUME rest[k].need = "commit", NEW j \in DOMAIN plan, j > i
              PROVE  plan[j].need # "rows"
          <5>1. j - 1 \in DOMAIN rest /\ plan[j] = rest[j - 1] /\ j - 1 > k
            BY <2>5, <2>6, <4>1, <4>3
          <5> QED BY <4>2, <4>3, <5>1
        <4>4. Before(t, i) = Ahead(rest, k)
          <5>1. \A row \in Rows : holder[row] # t
            BY <1>1, RowsAre
          <5>2. ASSUME NEW row \in Before(t, i) PROVE row \in Ahead(rest, k)
            <6>1. row \in Rows
              BY <5>2 DEF Before
            <6>2. PICK j \in DOMAIN plan : j < i /\ row \in plan[j].rows
              BY <2>4, <5>1, <5>2, <6>1 DEF Before
            <6>3. j # 1
              BY <2>7, <6>2
            <6>4. j - 1 \in DOMAIN rest /\ plan[j] = rest[j - 1] /\ j - 1 < k
              BY <2>5, <2>6, <4>1, <6>2, <6>3
            <6> QED BY <6>1, <6>2, <6>4 DEF Ahead
          <5>3. ASSUME NEW row \in Ahead(rest, k) PROVE row \in Before(t, i)
            <6>1. PICK j \in DOMAIN rest : row \in Rows /\ j < k /\ row \in rest[j].rows
              BY <5>3 DEF Ahead
            <6>2. j + 1 \in DOMAIN plan /\ plan[j + 1] = rest[j] /\ j + 1 < i
              BY <2>5, <2>6, <4>1, <6>1
            <6> QED BY <2>4, <6>1, <6>2 DEF Before
          <5> QED BY <5>2, <5>3
        <4>5. kind \in OrderedKinds /\ plan[i].need = "rows" => InOrder(t, i)
          BY <2>4, <4>1, <4>2, <4>4 DEF InPlan, InOrder
        <4> QED BY <3>2, <4>1, <4>2, <4>3, <4>5
      <3> QED BY <3>1, <3>2
    <2>10. \A s \in SessionIds : holder[s] # t
      BY <1>1, RowsAre
    <2>11. conns[t] = 0 /\ waits[t] = Nobody
      BY <1>1
    <2>12. Orderly(t)
      BY <2>4, <2>9, <2>10, <2>11 DEF Orderly
    <2> QED BY <2>8, <2>12
  <1>3. InUse <= PoolSize
    <2>1. {slot \in Transactions \X (1..PoolSize) : slot[2] <= conns[slot[1]]} = {}
      BY <1>1, RowLocksAssumption
    <2>2. InUse = 0
      BY <2>1, FS_EmptySet DEF InUse
    <2> QED BY <2>2, RowLocksAssumption
  <1>4. TypeOK
    <2>1. tx \in [Transactions -> [kind : AllKinds \cup {"ended"}, plan : Seq(Needed)]]
      BY <1>1, <1>2
    <2> QED BY <1>1, <1>3, <2>1, RowLocksAssumption DEF TypeOK
  <1>5. LocksInv
    BY <1>2, ByTransaction DEF AllOrderly
  <1> QED BY <1>4, <1>5

(* Every reachable state is typed, and its transactions lock in order.     *)
THEOREM LocksAreKept == Spec => [](TypeOK /\ LocksInv)
  <1>1. Init => TypeOK /\ LocksInv
    BY InitHolds
  <1>2. TypeOK /\ LocksInv /\ [Next]_vars => TypeOK' /\ LocksInv'
    BY NextKeeps
  <1> QED BY <1>1, <1>2, PTL DEF Spec

(* Plans, locks and the pool are of their types: no more connections are   *)
(* in use than the pool has.                                               *)
THEOREM TypeCorrect == Spec => []TypeOK
  BY LocksAreKept, PTL
-----------------------------------------------------------------------------
(* In a cycle of waits everybody is waited for.                            *)
LEMMA AllAreWaitedFor ==
  ASSUME NEW D \in SUBSET Transactions, Cycle(D)
  PROVE  \A t \in D : \E x \in D : waits[x] # Nobody /\ holder[waits[x]] = t
  <1> DEFINE E == {holder[waits[x]] : x \in D}
  <1>1. /\ D # {} /\ \A t \in D : waits[t] # Nobody /\ holder[waits[t]] \in D
        /\ \A F \in SUBSET D : Deadlocked(F) => F = D
    BY DEF Cycle, Deadlocked
  <1>2. E \in SUBSET D /\ E # {}
    BY <1>1
  <1>3. \A t \in E : waits[t] # Nobody /\ holder[waits[t]] \in E
    BY <1>1, <1>2
  <1>4. E = D
    BY <1>1, <1>2, <1>3 DEF Deadlocked
  <1> QED BY <1>1, <1>4

(* What an ordered transaction that waits for a row has locked.            *)
LEMMA WaitersHold ==
  ASSUME TypeOK, LocksInv, NEW t \in Transactions, tx[t].kind \in OrderedKinds, waits[t] # Nobody
  PROVE  LET row == waits[t]
         IN  /\ row \in Rows /\ holder[row] # t /\ tx[t].kind # "register"
             /\ tx[t].kind \in {"oneUser", "oneSession"} => \A x \in Rows : holder[x] # t
             /\ row \in Users => \A x \in Rows : holder[x] = t => row # Admin /\ x = Admin
             /\ row \in SessionIds => tx[t].kind = "oneSession" \/ holder[Owner[row]] = t
  <1> DEFINE row == waits[t]
             rows == tx[t].plan[1].rows
  <1>1. Orderly(t)
    BY ByTransaction DEF AllOrderly
  <1>2. Needs(t, "rows") /\ row \in Missing(t)
    BY <1>1 DEF Orderly
  <1>3. /\ tx[t].plan[1].need = "rows" /\ 1 \in DOMAIN tx[t].plan /\ row \in rows
        /\ holder[row] # t /\ rows \subseteq Rows
    BY <1>2, PlanIs DEF Needs, Missing, Needed
  <1>4. InOrder(t, 1)
    BY <1>1, <1>3 DEF Orderly
  <1>5. ASSUME NEW x \in Rows
        PROVE  x \in Before(t, 1) <=> holder[x] = t
    <2>1. DOMAIN tx[t].plan = 1..Len(tx[t].plan)
      BY <1>2, PlanIs DEF Needs
    <2> QED BY <2>1 DEF Before
  <1> HIDE DEF row
  <1>6. CASE /\ tx[t].kind \notin {"oneSession", "register"}
             /\ \E u \in Users : /\ rows = {u} /\ Before(t, 1) \subseteq {Admin, u}
                                 /\ tx[t].kind = "oneUser" => Before(t, 1) \subseteq {u}
    <2>1. PICK u \in Users : /\ rows = {u} /\ Before(t, 1) \subseteq {Admin, u}
                             /\ tx[t].kind = "oneUser" => Before(t, 1) \subseteq {u}
      BY <1>6
    <2>2. row = u
      BY <1>3, <2>1
    <2> QED BY <1>3, <1>5, <1>6, <2>1, <2>2, RowsAre DEF row
  <1>7. CASE /\ tx[t].kind \notin {"oneUser", "oneSession", "register"}
             /\ \E u \in Users : rows \subseteq SessionsOf(u) /\ u \in Before(t, 1)
    <2>1. PICK u \in Users : rows \subseteq SessionsOf(u) /\ u \in Before(t, 1)
      BY <1>7
    <2>2. row \in SessionIds /\ Owner[row] = u /\ holder[u] = t
      BY <1>3, <1>5, <2>1, RowsAre DEF SessionsOf
    <2> QED BY <1>3, <1>7, <2>2, RowsAre DEF row
  <1>8. CASE /\ tx[t].kind = "oneSession"
             /\ \E s \in SessionIds : rows = {s} /\ Before(t, 1) \subseteq {s}
    <2>1. PICK s \in SessionIds : rows = {s} /\ Before(t, 1) \subseteq {s}
      BY <1>8
    <2>2. row = s
      BY <1>3, <2>1
    <2> QED BY <1>3, <1>5, <1>8, <2>1, <2>2, RowsAre DEF row
  <1> QED BY <1>4, <1>6, <1>7, <1>8 DEF InOrder

(* Transactions that lock an account before its sessions never wait for    *)
(* each other in a cycle: in one, everybody holds what another waits for,  *)
(* which nobody does who needs one row; who waits for a session has its    *)
(* account, as has the one who holds the session; and of those who wait    *)
(* for accounts nobody holds an account, but for that of the administrator,*)
(* for which only those wait who hold nothing.                             *)
THEOREM OrderKeepsFromDeadlock == Spec => []OrderedNeverDeadlock
  <1>1. TypeOK /\ LocksInv => OrderedNeverDeadlock
    <2> SUFFICES ASSUME TypeOK, LocksInv, NEW D \in SUBSET Transactions, Cycle(D)
                 PROVE  /\ \E t \in D : tx[t].kind \notin OrderedKinds
                        /\ \A t \in D : tx[t].kind \notin {"oneUser", "oneSession", "register"}
      BY DEF OrderedNeverDeadlock
    <2>1. \A t \in D : /\ t \in Transactions /\ waits[t] \in Rows /\ waits[t] # Nobody
                       /\ holder[waits[t]] \in D
      BY DEF Cycle, Deadlocked, TypeOK
    <2>2. \A t \in D : \E x \in D : holder[waits[x]] = t
      BY AllAreWaitedFor
    <2>3. ASSUME NEW t \in D
          PROVE  tx[t].kind \notin {"oneUser", "oneSession", "register"}
      <3>1. PICK x \in D : holder[waits[x]] = t
        BY <2>2
      <3>2. SUFFICES ASSUME tx[t].kind \in {"oneUser", "oneSession", "register"}
                     PROVE  FALSE
        OBVIOUS
      <3>3. tx[t].kind \in OrderedKinds
        BY <3>2 DEF OrderedKinds
      <3> QED BY <2>1, <3>1, <3>2, <3>3, WaitersHold
    <2>4. ASSUME \A t \in D : tx[t].kind \in OrderedKinds
          PROVE  FALSE
      <3>1. PICK t \in D : TRUE
        BY DEF Cycle, Deadlocked
      <3>2. ASSUME NEW x \in D
            PROVE  waits[x] \notin SessionIds
        <4> DEFINE h == holder[waits[x]]
        <4>1. SUFFICES ASSUME waits[x] \in SessionIds
                       PROVE  FALSE
          OBVIOUS
        <4>2. h # x /\ holder[Owner[waits[x]]] = x
          BY <2>1, <2>3, <2>4, <4>1, WaitersHold
        <4>3. h \in D /\ tx[h].kind \in OrderedKinds \ {"oneSession"}
          BY <2>1, <2>3, <2>4
        <4>4. holder[Owner[waits[x]]] = h
          BY <2>1, <4>1, <4>3 DEF LocksInv, LocksAreOrdered
        <4> QED BY <4>2, <4>4
      <3>3. \A x \in D : waits[x] \in Users
        BY <2>1, <3>2 DEF Rows
      <3>4. PICK x \in D : holder[waits[x]] = t
        BY <2>2
      <3>5. waits[t] # Admin /\ waits[x] = Admin
        BY <2>1, <2>4, <3>3, <3>4, WaitersHold
      <3>6. PICK y \in D : holder[waits[y]] = x
        BY <2>2
      <3>7. waits[x] # Admin
        BY <2>1, <2>4, <3>3, <3>6, WaitersHold
      <3> QED BY <3>5, <3>7
    <2> QED BY <2>3, <2>4
  <1> QED BY <1>1, LocksAreKept, PTL
=============================================================================
